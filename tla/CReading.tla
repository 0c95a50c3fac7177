------------------------------ MODULE CReading ------------------------------
(***************************************************************************)
(* How LiftCQueues.cpp reads one function of a C queue: every path through *)
(* it, evaluated over canonical expressions.                               *)
(*                                                                         *)
(* An expression is a tuple headed by its operator; the operands of a      *)
(* commutative one are a set, as the source sorts them by their printed    *)
(* keys.  <<"k", n>> is a constant, <<"par", x>> a parameter, and          *)
(* <<"f", g, r, m>> member m below pointer parameter r as it was after the *)
(* g-th time other threads may have changed it, with g = -1 for a member   *)
(* no operation of the queue writes.                                       *)
(*                                                                         *)
(* A function is a sequence of statements, tuples headed by what they do.  *)
(* Pointer parameters are "q" (the queue), "ring" (a ring of the caller),  *)
(* "out" and "w" (another object); "r" is the ring a helper was handed.    *)
(***************************************************************************)
EXTENDS Integers, Sequences, FiniteSets, SequencesExt, TLC

VARIABLE code   \* the translation unit: code.funs holds each function's statements

(***************************************************************************)
(* Expressions.                                                            *)
(***************************************************************************)
K(n) == <<"k", n>>
T == <<"true">>
F == <<"false">>
Void == <<"void">>
Other(pair, a) == IF pair = {a} THEN a ELSE CHOOSE b \in pair : b # a
Orders(a, b) == {<<a, b>>, <<b, a>>}

RECURSIVE IsBool(_)
IsBool(e) ==
  \/ e[1] \in {"true", "false", "eq", "ne", "lt", "le", "and", "or", "not"}
  \/ e[1] = "ite" /\ IsBool(e[3]) /\ IsBool(e[4])

\* (x + 1) % n is the increment, (x - 1 + n) % n the decrement.
Rem(x, n) ==
  LET sum == IF x[1] = "add" THEN x[2] ELSE {}
      y == Other(sum, n)
  IN  IF K(1) \in sum THEN <<"inc", Other(sum, K(1)), n>>
      ELSE IF n \in sum /\ y[1] = "sub" /\ y[3] = K(1) THEN <<"dec", y[2], n>>
      ELSE <<"rem", x, n>>
Arith(op, a, b) ==
  LET consts == a[1] = "k" /\ b[1] = "k"
  IN  CASE op = "add" -> IF consts THEN K(a[2] + b[2]) ELSE IF a = K(0) THEN b ELSE IF b = K(0) THEN a ELSE <<op, {a, b}>>
        [] op = "sub" -> IF consts THEN K(a[2] - b[2]) ELSE IF b = K(0) THEN a ELSE <<op, a, b>>
        [] op = "mul" -> IF consts THEN K(a[2] * b[2]) ELSE <<op, {a, b}>>
        [] op = "rem" -> Rem(a, b)

\* A comparison with a decrement is one with an increment; a truth value turned into an integer and
\* compared with zero is the truth value.
RECURSIVE Equal(_, _, _), Not(_)
Equal(op, a, b) ==
  LET decs == {p \in Orders(a, b) : p[1][1] = "dec"}
      ints == {p \in Orders(a, b) : p[2] = K(0) /\ p[1][1] = "ite" /\ p[1][3][1] = "k" /\ p[1][3] # K(0) /\ p[1][4] = K(0)}
      bools == {p \in Orders(a, b) : op = "ne" /\ p[2] = F /\ IsBool(p[1])}
      Of(ps) == CHOOSE p \in ps : TRUE
  IN  IF a = b THEN IF op = "eq" THEN T ELSE F
      ELSE IF a[1] = "k" /\ b[1] = "k" THEN IF op = "eq" THEN F ELSE T
      ELSE IF decs # {} THEN LET p == Of(decs) IN Equal(op, <<"inc", p[2], p[1][3]>>, p[1][2])
      ELSE IF ints # {} THEN LET c == Of(ints)[1][2] IN IF op = "ne" THEN c ELSE Not(c)
      ELSE IF bools # {} THEN Of(bools)[1]
      ELSE <<op, {a, b}>>
Less(op, a, b) ==
  IF a[1] = "k" /\ b[1] = "k" THEN IF a[2] < b[2] \/ (op = "le" /\ a[2] = b[2]) THEN T ELSE F
  ELSE IF a = b THEN IF op = "le" THEN T ELSE F
  ELSE <<op, a, b>>
Not(a) ==
  CASE a = T -> F
    [] a = F -> T
    [] a[1] = "not" -> a[2]
    [] a[1] \in {"eq", "ne"} -> LET x == CHOOSE y \in a[2] : TRUE IN Equal(IF a[1] = "eq" THEN "ne" ELSE "eq", x, Other(a[2], x))
    [] a[1] = "lt" -> Less("le", a[3], a[2])
    [] a[1] = "le" -> Less("lt", a[3], a[2])
    [] OTHER -> <<"not", a>>
Join(op, a, b) ==
  LET unit == IF op = "and" THEN T ELSE F
  IN  IF a = unit THEN b ELSE IF b = unit \/ a = b THEN a ELSE IF Not(unit) \in {a, b} THEN Not(unit) ELSE <<op, {a, b}>>

\* A condition's two values.  Zero where x + 1 reaches n, and x + 1 elsewhere, is the increment.
Wraps(c, x, y) ==
  IF x = K(0) /\ y[1] = "add" /\ K(1) \in y[2]
  THEN LET i == Other(y[2], K(1))
       IN  IF c[1] = "eq" /\ y \in c[2] THEN {<<"inc", i, Other(c[2], y)>>}
           ELSE IF c[1] = "le" /\ c[3] = y THEN {<<"inc", i, c[2]>>} ELSE {}
  ELSE {}
RECURSIVE Ite(_, _, _)
Ite(c, x, y) ==
  IF c = T \/ x = y THEN x
  ELSE IF c = F THEN y
  ELSE IF c[1] = "not" THEN Ite(c[2], y, x)
  ELSE IF IsBool(x) /\ IsBool(y) /\ {T, F} \cap {x, y} # {}
       THEN IF y = F THEN Join("and", c, x) ELSE IF x = T THEN Join("or", c, y)
            ELSE IF x = F THEN Join("and", Not(c), y) ELSE Join("or", Not(c), x)
  ELSE IF Wraps(c, x, y) # {} THEN CHOOSE e \in Wraps(c, x, y) : TRUE
  ELSE <<"ite", c, x, y>>
ToBool(e) == IF IsBool(e) THEN e ELSE Equal("ne", e, K(0))
ToInt(e) == IF IsBool(e) THEN Ite(e, K(1), K(0)) ELSE e
Operate(op, a, b) ==
  CASE op \in {"add", "sub", "mul", "rem"} -> Arith(op, a, b)
    [] op \in {"eq", "ne"} -> Equal(op, a, b)
    [] op \in {"lt", "le"} -> Less(op, a, b)
    [] op = "gt" -> Less("lt", b, a)
    [] op = "ge" -> Less("le", b, a)

(***************************************************************************)
(* Paths.                                                                  *)
(***************************************************************************)
Roots == {"q", "ring", "out", "w"}
\* A literal's fork is the path's turns up to it; Fact is no fork.
Fact == <<2>>
Lit(fork, e, pol) == [fork |-> fork, e |-> e, pol |-> pol]
\* The path at the function's start.  `fixed` are the queue's members no operation writes; `left`
\* says how the path ended; `notes` what the reading keeps over all paths: members written,
\* parameters converted with a loss.
Start(fixed) ==
  [fixed |-> fixed, loc |-> <<>>, fields |-> <<>>, conds |-> <<>>, events |-> <<>>, gen |-> [r \in Roots |-> 0], locked |-> FALSE,
   bare |-> FALSE, left |-> "", ret |-> Void, r |-> "q", calls |-> {}, waits |-> FALSE, trail |-> <<>>, notes |-> {}]
Got(p, v) == [p |-> p, v |-> v]
Failed(p) == [p EXCEPT !.left = "failed"]
Root(p, r) == IF r = "r" THEN p.r ELSE r
Touch(p, r) == IF r = "q" /\ ~p.locked THEN [p EXCEPT !.bare = TRUE] ELSE p
Member(p, r, m) ==
  IF <<r, m>> \in DOMAIN p.fields THEN p.fields[<<r, m>>]
  ELSE <<"f", IF r = "q" /\ m \in p.fixed THEN -1 ELSE p.gen[r], r, m>>
Emit(p, e) == [p EXCEPT !.events = Append(@, e)]
Let(p, x, v) == [p EXCEPT !.loc = (x :> v) @@ @]
Noting(p, os) == [p EXCEPT !.notes = @ \cup UNION {q.notes : q \in os}]
Dropping(p, rs) ==
  [p EXCEPT !.gen = [r \in Roots |-> IF r \in rs THEN p.gen[r] + 1 ELSE p.gen[r]],
            !.fields = [k \in {k \in DOMAIN p.fields : k[1] \notin rs} |-> p.fields[k]]]

\* Literals the path already holds decide a branch.
Decided(p, c) ==
  LET hits == {j \in DOMAIN p.conds : p.conds[j].e \in {c, Not(c)}}
      j == CHOOSE i \in hits : \A k \in hits : i <= k
  IN  IF c \in {T, F} THEN {c = T} ELSE IF hits = {} THEN {} ELSE {p.conds[j].pol <=> p.conds[j].e = c}

\* Two sides of one branch.
Turns(c, d) ==
  /\ Len(c) = Len(d)
  /\ \E j \in DOMAIN c : /\ c[j].fork = d[j].fork /\ c[j].fork # Fact /\ c[j].e = d[j].e /\ c[j].pol /\ ~d[j].pol
                         /\ \A i \in DOMAIN c \ {j} : c[i] = d[i]
TurnOf(c, d) == CHOOSE j \in DOMAIN c : c[j] # d[j]

\* mergePaths: a branch whose other side always ends the program is assumed; then two paths that
\* differ in one branch and in values are one.
Merges(a, b) ==
  /\ Turns(a.conds, b.conds)
  /\ a.events = b.events /\ a.bare = b.bare /\ a.gen = b.gen
  /\ DOMAIN a.fields = DOMAIN b.fields /\ (a.ret = Void <=> b.ret = Void)
Merged(a, b) ==
  LET j == TurnOf(a.conds, b.conds)
      e == a.conds[j].e
  IN  [a EXCEPT !.conds = RemoveAt(@, j), !.fields = [k \in DOMAIN @ |-> Ite(e, @[k], b.fields[k])], !.ret = Ite(e, @, b.ret)]
RECURSIVE MergeAll(_)
MergeAll(ps) ==
  LET two == {ab \in ps \X ps : Merges(ab[1], ab[2])}
      ab == CHOOSE x \in two : TRUE
  IN  IF two = {} THEN ps ELSE MergeAll((ps \ {ab[1], ab[2]}) \cup {Merged(ab[1], ab[2])})
MergePaths(all) ==
  LET ps == {p \in all : p.left # "aborted"}
      lits == UNION {ToSet(p.conds) : p \in ps}
      Split(l) == l.fork = Fact \/ \E m \in lits : m.fork = l.fork /\ m.pol # l.pol
  IN  MergeAll({[p EXCEPT !.conds = SelectSeq(@, Split)] : p \in ps})

\* The value of a condition's outcomes, merged over the branches inside it.
RECURSIVE Combine(_)
Combine(vs) ==
  LET two == {ab \in vs \X vs : Turns(ab[1].conds, ab[2].conds)}
      ab == CHOOSE x \in two : TRUE
      j == TurnOf(ab[1].conds, ab[2].conds)
  IN  IF two = {} THEN vs
      ELSE Combine((vs \ {ab[1], ab[2]}) \cup {[conds |-> RemoveAt(ab[1].conds, j), v |-> Ite(ab[1].conds[j].e, ab[1].v, ab[2].v)]})

(***************************************************************************)
(* The evaluation.  V is what an expression's value may be and the path it *)
(* leaves, more than one where a function it calls branches.               *)
(***************************************************************************)
RECURSIVE V(_, _), Vs(_, _), Pure(_, _), Called(_, _, _, _), Paths(_, _), Step(_, _)
V(p, e) ==
  CASE p.left # "" -> {Got(p, Void)}
    [] p.left = "" /\ e[1] \in {"k", "par", "true", "false", "null", "void"} -> {Got(p, e)}
    [] p.left = "" /\ e[1] = "loc" -> {IF e[2] \in DOMAIN p.loc THEN Got(p, p.loc[e[2]]) ELSE Got(Failed(p), Void)}
    [] p.left = "" /\ e[1] = "mem" -> LET r == Root(p, e[2]) IN {Got(Touch(p, r), Member(p, r, e[3]))}
    [] p.left = "" /\ e[1] = "lossy" -> {Got([p EXCEPT !.notes = @ \cup {<<"lossy", e[2]>>}], <<"par", e[2]>>)}
    [] p.left = "" /\ e[1] = "not" -> {Got(o.p, Not(ToBool(o.v))) : o \in V(p, e[2])}
    [] p.left = "" /\ e[1] = "ask" -> {Got(IF x.left = "" /\ x.ret = Void THEN Failed(x) ELSE x, x.ret) : x \in Called(p, e[2], e[3], Void)}
    [] p.left = "" /\ e[1] \in {"and", "or"} ->
         UNION {LET c == ToBool(o.v)
                    short == IF e[1] = "and" THEN F ELSE T
                IN  IF o.p.left # "" THEN {o}
                    ELSE IF Decided(o.p, c) = {short = T} THEN {Got(o.p, short)}
                    ELSE {IF x.p.left # "" \/ Decided(o.p, c) # {} THEN Got(x.p, ToBool(x.v))
                          ELSE Got(x.p, IF e[1] = "and" THEN Ite(c, ToBool(x.v), F) ELSE Ite(c, T, ToBool(x.v))) : x \in Pure(o.p, e[3])}
                : o \in V(p, e[2])}
    [] OTHER -> {Got(o.p, IF o.p.left # "" THEN Void ELSE Operate(e[1], o.v[1], o.v[2])) : o \in Vs(p, <<e[2], e[3]>>)}
Vs(p, es) ==
  IF es = <<>> THEN {Got(p, <<>>)}
  ELSE UNION {{Got(b.p, <<a.v>> \o b.v) : b \in Vs(a.p, Tail(es))} : a \in V(p, Head(es))}

\* A region read without effects: one value on the path as it was, and the paths that end the
\* program inside it.
Valued(p, os) ==
  LET ends == {o \in os : o.p.left = "aborted"}
      on == os \ ends
      vs == Combine({[conds |-> SubSeq(o.p.conds, Len(p.conds) + 1, Len(o.p.conds)), v |-> o.v] : o \in on})
  IN  IF on = {} \/ (\E o \in on : o.p.left # "" \/ o.p.events # p.events \/ o.p.fields # p.fields) \/ Cardinality(vs) # 1
      THEN {Got(Failed(p), Void)}
      ELSE ends \cup {Got(Noting(p, {o.p : o \in os}), (CHOOSE x \in vs : TRUE).v)}
Pure(p, e) == Valued(p, V(p, e))

\* A helper, read in place of its call.
Called(p, f, r, arg) ==
  IF f \notin DOMAIN code.funs \/ f \in p.calls THEN {Failed(p)}
  ELSE {CASE x.left = "returned" -> [x EXCEPT !.left = "", !.loc = p.loc, !.r = p.r, !.calls = p.calls]
          [] x.left = "" -> Failed(x)
          [] OTHER -> x : x \in Paths(code.funs[f], [Let(p, "e", arg) EXCEPT !.r = Root(p, r), !.calls = @ \cup {f}])}

\* while (c) body: the wait ends when c is false, in a state other threads may have changed.
AfterWait(p, c, w) ==
  {IF o.p.left # "" THEN o.p ELSE [o.p EXCEPT !.conds = Append(@, Lit(Fact, ToBool(o.v), FALSE))]
   : o \in Pure(Dropping(Emit(p, w), {"q"}), c)}
JustWaits(p, x) ==
  p.locked /\ x.left = "" /\ x.fields = p.fields /\ Len(x.events) = Len(p.events) + 1 /\ Last(x.events)[1] = "wait"
WaitLoop(p, c, v, all) ==
  LET ends == {x \in all : x.left = "aborted"}
  IN  ends \cup (IF Cardinality(all \ ends) = 1
                 THEN UNION {IF JustWaits(p, x) THEN AfterWait(Noting(p, all), c, Append(Last(x.events), ToBool(v))) ELSE {Failed(p)} : x \in all \ ends}
                 ELSE {Failed(p)})

\* for (i = 0; c; i++) body: a run of moves from one ring to another.  One iteration is read from
\* any state; the body moves one element, each index is advanced modulo its ring's size, and the
\* condition is that the count is below a limit, the source not empty, the destination not full.
RECURSIVE Flat(_)
Flat(e) == IF e[1] = "and" THEN LET a == CHOOSE x \in e[2] : TRUE IN Flat(a) \o Flat(Other(e[2], a)) ELSE <<e>>
IsMember(e, r) == e[1] = "f" /\ e[3] = r
Advances(x, ix, r) ==
  /\ <<r, ix[4]>> \in DOMAIN x.fields
  /\ LET e == x.fields[<<r, ix[4]>>] IN e[1] = "inc" /\ e[2] = ix /\ IsMember(e[3], r)
RingAt(x, base, ix, other, side) ==
  LET s == x.fields[<<ix[3], ix[4]>>][3][4]
  IN  [root |-> ix[3], d |-> base[4], in |-> IF side = "dst" THEN ix[4] ELSE other, out |-> IF side = "src" THEN ix[4] ELSE other, s |-> s]
\* The ways the condition's parts can be read: the limit and each ring's other index.
Stops(q, x, conj, src, dst) ==
  LET sOut == Member(q, src[3], src[4])
      dIn == Member(q, dst[3], dst[4])
      dS == x.fields[<<dst[3], dst[4]>>][3][4]
      Limit(c) == {z \in {c} : z[1] = "lt" /\ z[2] = <<"i">> /\ z[3][1] # "f"}
      Ne(c) == IF c[1] = "ne" THEN LET a == CHOOSE y \in c[2] : TRUE IN Orders(a, Other(c[2], a)) ELSE {}
      Src(c) == {z \in Ne(c) : z[1] = sOut /\ IsMember(z[2], src[3])}
      Dst(c) == {z \in Ne(c) : z[1][1] = "inc" /\ z[1][2] = dIn /\ IsMember(z[1][3], dst[3]) /\ z[1][3][4] = dS /\ IsMember(z[2], dst[3])}
  IN  IF Len(conj) # 3 THEN {}
      ELSE UNION {{[limit |-> l[3], src |-> a[2][4], dst |-> b[2][4]] : l \in Limit(conj[o[1]]), a \in Src(conj[o[2]]), b \in Dst(conj[o[3]])}
                  : o \in {<<1, 2, 3>>, <<1, 3, 2>>, <<2, 1, 3>>, <<2, 3, 1>>, <<3, 1, 2>>, <<3, 2, 1>>}}
Transfers(q, x, ev) ==
  /\ x.left = ""
  /\ Len(ev) = 2 /\ ev[1][1] = "eload" /\ ev[2][1] = "estore" /\ ev[2][4] = ev[1]
  /\ Cardinality(DOMAIN x.fields) = 2 /\ \A k \in 1 .. 2 : ev[k][2][1] = "f" /\ ev[k][3][1] = "f"
  /\ Advances(x, ev[1][3], ev[1][3][3]) /\ Advances(x, ev[2][3], ev[2][3][3])
  /\ ev[1][3][3] # ev[2][3][3]
\* The loop's event, from the one path x through its body.
TransferOf(q, x, conj, ev) ==
  IF ~Transfers(q, x, ev) THEN {}
  ELSE {<<"transfer", RingAt(x, ev[1][2], ev[1][3], z.src, "src"), RingAt(x, ev[2][2], ev[2][3], z.dst, "dst"), z.limit>>
        : z \in Stops(q, x, conj, ev[1][3], ev[2][3])}
AfterMoves(p, i, t) ==
  LET rs == {t[2].root, t[3].root}
  IN  IF \E k \in DOMAIN p.fields : k[1] \in rs THEN Failed(p) ELSE Let(Dropping(Emit(p, t), rs), i, <<"moved">>)
TransferLoop(p, q, i, conj, all) ==
  LET one == MergePaths(all)
      ts == UNION {TransferOf(q, x, conj, SubSeq(x.events, Len(q.events) + 1, Len(x.events))) : x \in one}
  IN  {x \in all : x.left = "aborted"}
      \cup {IF Cardinality(one) = 1 /\ ts # {} THEN AfterMoves(Noting(p, all), i, CHOOSE t \in ts : TRUE) ELSE Failed(p)}
\* The path on which an iteration is read, with the condition's parts assumed.
Within(q, conj) == [q EXCEPT !.conds = @ \o [j \in DOMAIN conj |-> Lit(Fact, conj[j], TRUE)]]
ForLoop(p, q, s, conj) == TransferLoop(p, q, s[2], conj, Paths(s[4], Within(q, conj)))

\* What a statement evaluates first, and the path after one that neither branches nor calls.
Operands(s) ==
  CASE s[1] \in {"let", "malloc"} -> <<s[3]>>
    [] s[1] \in {"set", "call"} -> <<s[4]>>
    [] s[1] = "put" -> <<s[5], <<"mem", s[2], s[3]>>, s[4]>>
    [] s[1] = "take" -> <<<<"mem", s[3], s[4]>>, s[5]>>
    [] s[1] \in {"free", "if", "return"} -> <<s[2]>>
    [] OTHER -> <<>>
Done(s, p, v) ==
  CASE s[1] = "let" -> Let(p, s[2], ToInt(v[1]))
    [] s[1] = "set" -> LET k == <<Root(p, s[2]), s[3]>>
                       IN  [Touch(p, k[1]) EXCEPT !.fields = (k :> ToInt(v[1])) @@ @, !.notes = @ \cup {<<"wrote", k>>}]
    [] s[1] = "put" -> Emit(p, <<"estore", v[2], v[3], v[1]>>)
    [] s[1] = "take" -> LET e == <<"eload", v[1], v[2]>> IN Let(Emit(p, e), s[2], e)
    [] s[1] \in {"lock", "unlock"} ->
         IF Root(p, s[2]) \notin Roots \/ p.locked = (s[1] = "lock") THEN Failed(p)
         ELSE Emit([p EXCEPT !.locked = ~@], <<s[1], <<Root(p, s[2]), s[3]>>>>)
    [] s[1] = "wait" -> IF p.waits THEN Emit(p, <<s[1], <<s[2], s[3]>>, <<s[4], s[5]>>>>) ELSE Failed(p)
    [] s[1] \in {"signal", "broadcast", "minit", "mdestroy", "cinit", "cdestroy"} -> Emit(p, <<s[1], <<s[2], s[3]>>>>)
    [] s[1] = "malloc" -> LET e == <<"malloc", v[1]>> IN Let(Emit(p, e), s[2], e)
    [] s[1] = "free" -> Emit(p, <<"free", v[1]>>)
    [] s[1] = "abort" -> [p EXCEPT !.left = "aborted"]
    [] s[1] = "return" -> [p EXCEPT !.ret = ToInt(v[1]), !.left = "returned"]
    [] OTHER -> Failed(p)
\* The sides of a branch that can be taken: one where the path decides it.
Side(p, c, pol, body) ==
  [body |-> body, p |-> [p EXCEPT !.conds = Append(@, Lit(p.trail, c, pol)), !.trail = Append(@, IF pol THEN 1 ELSE 0)]]
Sides(p, s, c) ==
  IF Decided(p, c) = {} THEN {Side(p, c, TRUE, s[3]), Side(p, c, FALSE, s[4])}
  ELSE {[body |-> IF known THEN s[3] ELSE s[4], p |-> p] : known \in Decided(p, c)}
Counted(p, s) == s[5] = "count" /\ s[2] \in DOMAIN p.loc /\ p.loc[s[2]] = K(0)
Then(s, p, v) ==
  CASE s[1] = "call" -> {IF s[5] = "" \/ x.left # "" THEN x ELSE IF x.ret = Void THEN Failed(x) ELSE Let(x, s[5], x.ret)
                         : x \in Called(p, s[2], s[3], v[1])}
    [] s[1] = "if" -> UNION {Paths(side.body, side.p) : side \in Sides(p, s, ToBool(v[1]))}
    [] s[1] = "while" -> UNION {IF o.p.left # "" THEN {o.p} ELSE WaitLoop(o.p, s[2], o.v, Paths(s[3], [o.p EXCEPT !.waits = TRUE])) : o \in Pure(p, s[2])}
    [] s[1] = "for" ->
         IF ~Counted(p, s) THEN {Failed(p)}
         ELSE UNION {IF o.p.left # "" THEN {o.p} ELSE ForLoop(p, o.p, s, Flat(ToBool(o.v))) : o \in Pure(Let(Dropping(p, Roots), s[2], <<"i">>), s[3])}
    [] OTHER -> {Done(s, p, v)}
Step(s, p) == UNION {IF o.p.left # "" THEN {o.p} ELSE Then(s, o.p, o.v) : o \in Vs(p, Operands(s))}
Paths(body, p) ==
  IF body = <<>> \/ p.left # "" THEN {p} ELSE UNION {Paths(Tail(body), q) : q \in Step(Head(body), p)}

\* Every path through a function, or none that can be read.
Eval(f, fixed) == Paths(code.funs[f], Start(fixed))
Read(ps) == \A p \in ps : p.left \in {"returned", "aborted"}
=============================================================================
