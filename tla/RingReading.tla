----------------------------- MODULE RingReading -----------------------------
(***************************************************************************)
(* How the lifting pass reads the functions of a ring that a program wrote *)
(* itself (LiftedBounded.cpp): each is evaluated symbolically into a       *)
(* result, the members it leaves changed and what it does to the elements, *)
(* and is one of a ring's operations when that is the operation's form for *)
(* some choice of which member is head, tail and overrun count.            *)
(*                                                                         *)
(* An expression is a tuple with its operator first:                       *)
(*   <<"num", n>>  <<"mem", i>>  <<"arg">>  <<"false">>  <<"add", x, y>>    *)
(*   "sub" "rem" "eq" "ne" "lt" "le" "gt" "ge"  <<"not", x>>  <<"elem", x>>  *)
(*   <<"ite", c, x, y>>  <<"cast", n, x>> (a conversion to the unsigned    *)
(*   type of n values)                                                     *)
(* and a statement is <<"set", i, x>>, <<"put", x>> (the parameter         *)
(* assigned to element x), <<"size", x>> (the vector sized),               *)
(* <<"if", c, then, else>> or <<"return", x>>.                             *)
(***************************************************************************)
EXTENDS Naturals, Sequences, FiniteSets, SequencesExt

CONSTANT Word    \* the number of values of a count's type

VARIABLES unit,  \* the translation unit: its functions on the ring and the class that owns it
          roles, \* the assignments of head, tail and count still open
          ops    \* the functions of the ring read so far, each with its operation or "none"
ringVars == <<roles, ops>>

Counts == {"a", "b", "c", "d"}
Num(n) == <<"num", n>>
Mem(i) == <<"mem", i>>
Arg == <<"arg">>
Void == <<"void">>

\* The operands of a commutative operator are a set, so that t + 1 = h and h = 1 + t are one form;
\* x > y is y < x.
Commutes == {"add", "eq", "ne"}
Op2(f, x, y) == IF f \in Commutes THEN <<f, {x, y}>>
                ELSE IF f = "gt" THEN <<"lt", y, x>>
                ELSE IF f = "ge" THEN <<"le", y, x>>
                ELSE <<f, x, y>>
Ite(c, x, y) == IF x = y \/ c = <<"true">> THEN x ELSE IF c = <<"false">> THEN y ELSE <<"ite", c, x, y>>
Not(x) == CASE x[1] = "eq" -> <<"ne", x[2]>>
            [] x[1] = "ne" -> <<"eq", x[2]>>
            [] x[1] = "not" -> x[2]
            [] OTHER -> <<"not", x>>

\* What a conversion makes of a value: a constant is converted exactly; anything else is kept, and
\* only where the type holds every count.
KeepsValues(n) == n >= Word
Converted(n, x) == IF x[1] = "num" THEN Num(x[2] % n) ELSE IF KeepsValues(n) THEN x ELSE <<"unread">>

\* The form of an expression where the members hold m.
RECURSIVE Sym(_, _)
Sym(e, m) ==
  CASE e[1] = "mem" -> m[e[2]]
    [] e[1] \in {"num", "arg", "false"} -> e
    [] e[1] = "not" -> Not(Sym(e[2], m))
    [] e[1] = "elem" -> <<"elem", Sym(e[2], m)>>
    [] e[1] = "cast" -> Converted(e[2], Sym(e[3], m))
    [] e[1] = "ite" -> Ite(Sym(e[2], m), Sym(e[3], m), Sym(e[4], m))
    [] OTHER -> Op2(e[1], Sym(e[2], m), Sym(e[3], m))

\* The slots are the capacity plus one, so that there is at least one of them.
SimplifyGuard(c, slots) ==
  CASE c \in {<<"lt", Num(0), Mem(slots)>>, <<"ne", {Num(0), Mem(slots)}>>} -> <<"true">>
    [] c \in {<<"eq", {Num(0), Mem(slots)}>>, <<"le", Mem(slots), Num(0)>>} -> <<"false">>
    [] OTHER -> c

\* Two branches come together: a member or result that differs hangs on the condition.
Unreadable == [ok |-> FALSE, ret |-> Void, mem |-> [i \in Counts |-> Mem(i)], eff |-> <<>>]
Merge(c, x, y) ==
  IF ~x.ok \/ ~y.ok \/ x.eff # y.eff THEN Unreadable
  ELSE [x EXCEPT !.ret = Ite(c, x.ret, y.ret), !.mem = [i \in Counts |-> Ite(c, x.mem[i], y.mem[i])]]

\* A conversion the pass cannot read, anywhere in a form.
RECURSIVE Unread(_)
Unread(x) == CASE x[1] = "unread" -> TRUE
               [] x[1] \in {"mem", "num", "arg"} -> FALSE
               [] x[1] \in Commutes -> \E y \in x[2] : Unread(y)
               [] OTHER -> \E j \in 2 .. Len(x) : Unread(x[j])

\* What a body computes from members m, having done eff to the elements.
RECURSIVE Effect(_, _, _, _)
Effect(body, m, eff, slots) ==
  IF body = <<>> THEN [ok |-> TRUE, ret |-> Void, mem |-> m, eff |-> eff]
  ELSE LET s == Head(body)
           rest == Tail(body)
           x == Sym(IF s[1] = "set" THEN s[3] ELSE s[2], m)
           c == SimplifyGuard(x, slots)
       IN CASE Unread(x) -> Unreadable
            [] s[1] = "set" -> Effect(rest, [m EXCEPT ![s[2]] = x], eff, slots)
            [] s[1] \in {"put", "size"} -> Effect(rest, m, Append(eff, <<s[1], x>>), slots)
            [] s[1] = "return" -> [ok |-> TRUE, ret |-> x, mem |-> m, eff |-> eff]
            [] s[1] = "if" /\ c = <<"true">> -> Effect(s[3] \o rest, m, eff, slots)
            [] s[1] = "if" /\ c = <<"false">> -> Effect(s[4] \o rest, m, eff, slots)
            [] OTHER -> Merge(c, Effect(s[3] \o rest, m, eff, slots), Effect(s[4] \o rest, m, eff, slots))
Evaluate(body, slots) == Effect(body, [i \in Counts |-> Mem(i)], <<>>, slots)

\* The constructor makes one count the capacity plus one, the other three zero, and sizes the
\* vector by the slots.
SlotsVal == Op2("add", Arg, Num(1))
BuiltFrom(ctor) ==
  LET e == Evaluate(ctor, "")
  IN  {i \in Counts : /\ e.ok /\ e.ret = Void /\ e.eff = <<<<"size", SlotsVal>>>>
                      /\ e.mem[i] = SlotsVal
                      /\ \A j \in Counts \ {i} : e.mem[j] = Num(0)}
SlotsOf(r) == CHOOSE i \in Counts : i \notin {r.h, r.t, r.o}
RolesFor(slots) ==
  {r \in [h : Counts \ {slots}, t : Counts \ {slots}, o : Counts \ {slots}] : Cardinality({r.h, r.t, r.o}) = 3}

\* The forms of a ring's operations.
RingOps == <<"push", "front", "pop", "empty", "full", "size", "count", "reset">>
Expected(op, r) ==
  LET H == Mem(r.h)
      T == Mem(r.t)
      O == Mem(r.o)
      M == Mem(SlotsOf(r))
      next(x) == Op2("rem", Op2("add", x, Num(1)), M)
      over == Op2("eq", next(T), H)
      gives(x) == [ok |-> TRUE, ret |-> x, mem |-> [i \in Counts |-> Mem(i)], eff |-> <<>>]
  IN  CASE op = "empty" -> gives(Op2("eq", T, H))
        [] op = "full" -> gives(over)
        [] op = "size" -> gives(Ite(Op2("le", H, T), Op2("sub", T, H), Op2("sub", M, Op2("sub", H, T))))
        [] op = "front" -> gives(<<"elem", H>>)
        [] op = "count" -> gives(O)
        [] op = "pop" -> [gives(Void) EXCEPT !.mem[r.h] = next(H)]
        [] op = "reset" -> [gives(Void) EXCEPT !.mem[r.o] = Num(0)]
        [] op = "push" -> [gives(Void) EXCEPT !.mem[r.t] = next(T), !.mem[r.h] = Ite(over, next(H), H),
                                              !.mem[r.o] = Ite(over, Op2("add", O, Num(1)), O),
                                              !.eff = <<<<"put", T>>>>]

RingInit ==
  /\ roles = {}
  /\ ops = <<>>

\* The ring's type is read: four counts, a vector and a constructor that takes the capacity.
ReadRing == roles' = UNION {RolesFor(i) : i \in BuiltFrom(unit.ring.ctor)}

\* One function is read: it keeps the assignments under which it is an operation, the first
\* operation with one.
Classify ==
  LET f == unit.ring.order[Len(ops) + 1]
  IN  \E slots \in {SlotsOf(r) : r \in roles} :
      \E e \in {Evaluate(unit.ring.funs[f], slots)} :
      \E keep \in {[op \in Range(RingOps) |-> {r \in roles : e.ok /\ Expected(op, r) = e}]} :
      \E found \in {SelectSeq(RingOps, LAMBDA op : keep[op] # {})} :
        /\ ops' = Append(ops, IF found = <<>> THEN "none" ELSE found[1])
        /\ roles' = IF found = <<>> THEN roles ELSE keep[found[1]]

Classified == Len(ops) = Len(unit.ring.order)
OpOf(f) == LET at == {j \in DOMAIN ops : unit.ring.order[j] = f} IN IF at = {} THEN "none" ELSE ops[CHOOSE j \in at : TRUE]
=============================================================================
