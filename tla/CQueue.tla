------------------------------- MODULE CQueue -------------------------------
(***************************************************************************)
(* The lifting of C queues (LiftCQueues.cpp) over a translation unit: the  *)
(* functions of a struct that keeps a ring of pointers under a pthread     *)
(* mutex are read (CReading), classified, and checked against the          *)
(* operations of shim/c_queue.h.  A struct that lifts is then run as it    *)
(* was written - the mutex, the condition variables with their spurious    *)
(* wake-ups, the ring - beside the queue put in its place: each call takes *)
(* effect on the substitute where it lets the mutex go.                    *)
(*                                                                         *)
(* A unit holds its functions' statements (funs), the ones that take a     *)
(* pointer to the struct in order (fns), the initialisation's arguments    *)
(* (args), the threads' calls (client) and rings (own), and what the rest  *)
(* of the module does to the struct that the pass refuses (outside).       *)
(***************************************************************************)
EXTENDS CMachine

CONSTANT CUnits

VARIABLES stage,   \* "off", or "c" and the step the pass is at: "mutable", "read", "classify", "confine", "lift"; then "run" and "over", or "refused"
          query,   \* the candidate
          run      \* the program: the struct, the substitute, the threads
cVars == <<code, stage, query, run>>

NoRing == [d |-> "", in |-> "", out |-> "", s |-> ""]
Nothing == [fixed |-> {}, read |-> <<>>, roles |-> <<>>, ring |-> NoRing, mutex |-> "", ended |-> "", producers |-> "",
            cap |-> "", off |-> 0, prods |-> "", notEmpty |-> "", notFull |-> "", endEq |-> FALSE, ok |-> TRUE]
CInit(first) ==
  /\ code \in ToSet(CUnits)
  /\ stage = first
  /\ query = Nothing
  /\ run = <<>>

Fns == ToSet(code.fns)
Has(p, kind) == \E j \in DOMAIN p.events : p.events[j][1] = kind
SomeHas(ps, kind) == \E p \in ps : Has(p, kind)
Events(p, kinds) == {p.events[j] : j \in {i \in DOMAIN p.events : p.events[i][1] \in kinds}}
EventsOf(ps, kinds) == UNION {Events(p, kinds) : p \in ps}
Takes(p) == Has(p, "eload") \/ Has(p, "transfer")
Outside(p) == {k \in DOMAIN p.fields : k[1] # "q"}
Atom(e, r) == e[1] = "f" /\ e[3] = r
Only(names) == IF Cardinality(names) = 1 THEN CHOOSE x \in names : TRUE ELSE ""

(***************************************************************************)
(* Reading: which members the operations write, then every function again  *)
(* with the others known not to change.                                    *)
(***************************************************************************)
Lifecycle(ps) == SomeHas(ps, "minit") \/ SomeHas(ps, "mdestroy")
\* The members a reading wrote, and what it keeps of each function.
Wrote(ps) == UNION {{n[2][2] : n \in {m \in p.notes : m[1] = "wrote" /\ m[2][1] = "q"}} : p \in ps}
Kept(ps) == [paths |-> MergePaths(ps), aborts |-> {p.conds : p \in {q \in ps : q.left = "aborted"}},
             lossy |-> UNION {{n[2] : n \in {m \in p.notes : m[1] = "lossy"}} : p \in ps}]
Written(all) ==
  /\ query' = [query EXCEPT !.fixed = code.members \ UNION {Wrote(all[f]) : f \in {g \in Fns : ~Lifecycle(all[g])}}]
  /\ stage' = IF code.main /\ Fns # {} /\ \A f \in Fns : Read(all[f]) THEN "c read" ELSE "c refused"
Mutable ==
  /\ stage = "c mutable"
  /\ Written([f \in Fns |-> Eval(f, {})])
  /\ UNCHANGED <<code, run>>
Understood(all, read) ==
  LET ok == \A f \in Fns : Read(all[f]) /\ read[f].paths # {}
  IN  /\ query' = IF ok THEN [query EXCEPT !.read = read] ELSE query
      /\ stage' = IF ok THEN "c classify" ELSE "c refused"
ReadEach(all) == Understood(all, [f \in Fns |-> Kept(all[f])])
ReadAll ==
  /\ stage = "c read"
  /\ ReadEach([f \in Fns |-> Eval(f, query.fixed)])
  /\ UNCHANGED <<code, run>>

(***************************************************************************)
(* classify: what each function is, in order.                              *)
(***************************************************************************)
PathsOf(f) == query.read[f].paths
RoleOf(ps) ==
  LET moves == EventsOf(ps, {"transfer"})
  IN  IF SomeHas(ps, "minit") THEN "init"
      ELSE IF SomeHas(ps, "mdestroy") THEN "destroy"
      ELSE IF \A p \in ps : p.events = <<>> /\ p.fields = <<>> THEN "helper"
      ELSE IF moves # {} THEN IF \E t \in moves : t[3].root = "q" THEN "pushBatch"
                              ELSE IF \E t \in moves : t[2].root = "q" THEN "popBatch" ELSE "none"
      ELSE IF SomeHas(ps, "estore") THEN IF SomeHas(ps, "eload") THEN "none" ELSE "push"
      ELSE IF SomeHas(ps, "eload") THEN "pop" ELSE "terminate"

\* An initialisation: one path, the allocation of a parameter's number of pointers (and a constant),
\* that number, zeros, and at most one member set to a parameter.
Slots(alloc) == IF alloc[1] = "mul" /\ K(8) \in alloc[2] THEN Other(alloc[2], K(8)) ELSE Void
SlotsFrom(e) ==
  {x \in {[cap |-> y[2], off |-> 0] : y \in {e}} : e[1] = "par"}
  \cup (IF e[1] = "add" THEN {[cap |-> Other(e[2], k)[2], off |-> k[2]] : k \in {j \in e[2] : j[1] = "k" /\ Other(e[2], j)[1] = "par"}} ELSE {})
Initialises(c, ps) ==
  LET p == CHOOSE x \in ps : TRUE
      allocs == SelectSeq(p.events, LAMBDA e : e[1] = "malloc")
      slots == Slots(Last(allocs)[2])
      ds == {k \in DOMAIN p.fields : p.fields[k][1] = "malloc"}
      ss == {k \in DOMAIN p.fields : p.fields[k] = slots}
      d == CHOOSE k \in ds : TRUE
      s == CHOOSE k \in ss : TRUE
      set == {k \in DOMAIN p.fields \ {d, s} : p.fields[k] # K(0)}
      from == CHOOSE x \in SlotsFrom(slots) : TRUE
      ok == /\ Cardinality(ps) = 1 /\ Outside(p) = {} /\ p.ret[1] \in {"void", "k"}
            /\ \A e \in ToSet(p.events) : e[1] \in {"malloc", "minit", "cinit"}
            /\ allocs # <<>> /\ ds # {} /\ slots # Void /\ ss # {} /\ SlotsFrom(slots) # {}
            /\ set # {} => c.prods = "" /\ Cardinality(set) = 1 /\ \A k \in set : p.fields[k][1] = "par"
  IN  IF ~ok THEN [c EXCEPT !.ok = FALSE]
      ELSE [c EXCEPT !.cap = from.cap, !.off = from.off - 1, !.ring.d = d[2], !.ring.s = s[2],
                     !.producers = IF set = {} THEN @ ELSE Only({k[2] : k \in set}),
                     !.prods = IF set = {} THEN @ ELSE Only({p.fields[k][2] : k \in set})]
Destroys(ps) ==
  /\ \A p \in ps : /\ \A e \in ToSet(p.events) : e[1] \in {"mdestroy", "cdestroy"} \/ (e[1] = "free" /\ e[2][1] = "f")
                   /\ Outside(p) = {} /\ \A k \in DOMAIN p.fields : p.fields[k] \in {K(0), <<"null">>}
                   /\ p.ret[1] \in {"void", "k"}
  /\ Cardinality({p.ret : p \in ps} \ {Void}) <= 1

\* An operation: one lock of the struct's mutex, held throughout; waits that let that mutex go, on
\* variables of the struct.
Held(ps) ==
  /\ \A p \in ps : /\ ~p.bare /\ Len(p.events) >= 2
                   /\ p.events[1][1] = "lock" /\ Last(p.events)[1] = "unlock" /\ p.events[1][2] = Last(p.events)[2]
                   /\ \A j \in 2 .. Len(p.events) - 1 : p.events[j][1] \notin {"lock", "unlock"}
                   /\ \A e \in Events(p, {"wait"}) : e[3] = p.events[1][2]
                   /\ \A e \in Events(p, {"wait", "signal", "broadcast"}) : e[2][1] = "q"
  /\ \E m \in code.members : \A p \in ps : p.events[1][2] = <<"q", m>>
MutexOf(ps) == (CHOOSE p \in ps : TRUE).events[1][2][2]
OwnRing(t, role) == IF role = "pushBatch" THEN t[2] ELSE t[3]
QueueRing(t, role) == LET r == IF role = "pushBatch" THEN t[3] ELSE t[2] IN [d |-> r.d, in |-> r.in, out |-> r.out, s |-> r.s]
Operates(c, ps, role) ==
  LET t == CHOOSE e \in EventsOf(ps, {"transfer"}) : TRUE
      batch == role \in {"pushBatch", "popBatch"}
      ok == /\ role # "none" /\ Held(ps) /\ c.mutex \in {"", MutexOf(ps)}
            /\ batch => /\ c.ring.in # "" => c.ring = QueueRing(t, role)
                        /\ t[4][1] = "par"
  IN  IF ~ok THEN [c EXCEPT !.ok = FALSE]
      ELSE [c EXCEPT !.mutex = MutexOf(ps), !.ring = IF batch THEN QueueRing(t, role) ELSE @]
Classified(c, f) ==
  LET ps == PathsOf(f)
      role == RoleOf(ps)
      named == [c EXCEPT !.roles = (f :> role) @@ @]
  IN  CASE role = "init" -> Initialises(named, ps)
        [] role = "destroy" -> [named EXCEPT !.ok = Destroys(ps)]
        [] role = "helper" -> named
        [] OTHER -> Operates(named, ps, role)
Classify ==
  /\ stage = "c classify"
  /\ LET n == Cardinality(DOMAIN query.roles)
         c == Classified(query, code.fns[n + 1])
     IN  /\ query' = c
         /\ stage' = IF ~c.ok THEN "c refused" ELSE IF n + 1 = Len(code.fns) THEN "c confine" ELSE stage
  /\ UNCHANGED <<code, run>>

(***************************************************************************)
(* Facts: what a condition says of the queue, as <<name, generation,       *)
(* whether it is so or not so>>, and its truth under an assignment.        *)
(***************************************************************************)
If(cond, x) == IF cond THEN {x} ELSE {}
Is(e, m) == m # "" /\ Atom(e, "q") /\ e[4] = m
PlusOne(e) == e[1] = "add" /\ K(1) \in e[2]
Prop(c, e) ==
  LET End(x) == c.ended # "" /\ Is(x, c.ended)
      Prods(x) == c.ended # "" /\ Is(x, c.producers)
      EndUp(x) == PlusOne(x) /\ End(Other(x[2], K(1)))
      pos == e[1] = "eq"
      Same(a, b) ==
        If(Is(a, c.ring.in) /\ Is(b, c.ring.out) /\ a[2] = b[2], <<"empty", a[2], pos>>)
        \cup If(a[1] = "inc" /\ Is(a[2], c.ring.in) /\ Is(b, c.ring.out) /\ a[2][2] = b[2] /\ Is(a[3], c.ring.s), <<"full", b[2], pos>>)
        \cup If(End(a) /\ Prods(b), <<"ended", a[2], pos>>)
        \cup If(EndUp(a) /\ Prods(b), <<"last", Other(a[2], K(1))[2], pos>>)
        \cup If(a = <<"moved">> /\ b = K(0), <<"moved", 0, ~pos>>)
      Below(x, y) ==
        If(End(x) /\ Prods(y), <<"ended", x[2], FALSE>>) \cup If(EndUp(x) /\ Prods(y), <<"last", Other(x[2], K(1))[2], FALSE>>)
        \cup If(x = K(0) /\ y = <<"moved">>, <<"moved", 0, TRUE>>)
      AtMost(x, y) ==
        If(Prods(x) /\ End(y), <<"ended", y[2], TRUE>>) \cup If(Prods(x) /\ EndUp(y), <<"last", Other(y[2], K(1))[2], TRUE>>)
  IN  CASE e[1] \in {"eq", "ne"} -> LET a == CHOOSE x \in e[2] : TRUE IN Same(a, Other(e[2], a)) \cup Same(Other(e[2], a), a)
        [] e[1] = "lt" -> Below(e[2], e[3])
        [] e[1] = "le" -> AtMost(e[2], e[3])
        [] OTHER -> {}
RECURSIVE Leaves(_)
Leaves(e) ==
  CASE e[1] \in {"true", "false"} -> {}
    [] e[1] \in {"and", "or"} -> UNION {Leaves(k) : k \in e[2]}
    [] e[1] = "not" -> Leaves(e[2])
    [] e[1] = "ite" -> Leaves(e[2]) \cup Leaves(e[3]) \cup Leaves(e[4])
    [] OTHER -> {e}
Known(c, e) == \A l \in Leaves(e) : Prop(c, l) # {}
Facts(c, e) == UNION {{<<x[1], x[2]>> : x \in Prop(c, l)} : l \in Leaves(e)}
RECURSIVE Truth(_, _, _)
Truth(c, e, a) ==
  CASE e[1] \in {"true", "false"} -> e = T
    [] e[1] = "and" -> \A k \in e[2] : Truth(c, k, a)
    [] e[1] = "or" -> \E k \in e[2] : Truth(c, k, a)
    [] e[1] = "not" -> ~Truth(c, e[2], a)
    [] e[1] = "ite" -> IF Truth(c, e[2], a) THEN Truth(c, e[3], a) ELSE Truth(c, e[4], a)
    [] OTHER -> LET x == CHOOSE y \in Prop(c, e) : TRUE IN a[<<x[1], x[2]>>] = x[3]
Table(c, p, a) == \A j \in DOMAIN p.conds : Truth(c, p.conds[j].e, a) = p.conds[j].pol
Tests(ps) == UNION {{p.conds[j].e : j \in DOMAIN p.conds} \cup {e[4] : e \in Events(p, {"wait"})} : p \in ps}

(***************************************************************************)
(* confined: the roles agreed, then each function against its operation.   *)
(***************************************************************************)
With(roles) == {f \in Fns : query.roles[f] \in roles}
Operations == {"push", "pop", "terminate", "pushBatch", "popBatch"}
AllPaths(roles) == UNION {PathsOf(f) : f \in With(roles)}

\* The ring's members, from every function that names them; "" where they disagree or none does.
Layout ==
  LET Named(m, roles, kind, at) == ({m} \cup {e[at][4] : e \in EventsOf(AllPaths(roles), {kind})}) \ {""}
  IN  [d |-> Only(Named(query.ring.d, {"push"}, "estore", 2) \cup Named(query.ring.d, {"pop"}, "eload", 2)),
       in |-> Only(Named(query.ring.in, {"push"}, "estore", 3)),
       out |-> Only(Named(query.ring.out, {"pop"}, "eload", 3)),
       s |-> query.ring.s]
InTheRing == \A e \in EventsOf(AllPaths({"push", "pop"}), {"estore", "eload"}) : Atom(e[2], "q") /\ Atom(e[3], "q")

\* The end count: what the terminations increment.
Counts(p) == \E k \in DOMAIN p.fields : /\ DOMAIN p.fields = {k}
                                        /\ PlusOne(p.fields[k])
                                        /\ LET e == Other(p.fields[k][2], K(1)) IN e[1] = "f" /\ e[4] = k[2]
EndCounts == UNION {{k[2] : k \in DOMAIN p.fields} : p \in AllPaths({"terminate"})}

\* Where a function ends the program: only an initialisation, on what it allocated.
RECURSIVE AllocOnly(_)
AllocOnly(e) ==
  CASE e[1] \in {"malloc", "k", "null", "true", "false"} -> TRUE
    [] e[1] \in {"f", "par", "i", "moved"} -> FALSE
    [] e[1] \in {"add", "mul", "eq", "ne", "and", "or"} -> \A x \in e[2] : AllocOnly(x)
    [] OTHER -> \A j \in 2 .. Len(e) : AllocOnly(e[j])
EndsOnlyUnallocated(f) ==
  \A a \in query.read[f].aborts : query.roles[f] = "init" /\ \A j \in DOMAIN a : a[j].fork # Fact => AllocOnly(a[j].e)

\* The initialisation sets the ring, and the count and the producers where one is kept, and no more.
Prepares(c) ==
  LET p == CHOOSE x \in AllPaths({"init"}) : TRUE
  IN  /\ {k[2] : k \in DOMAIN p.fields} = {c.ring.d, c.ring.s, c.ring.in, c.ring.out} \cup (IF c.ended = "" THEN {} ELSE {c.ended, c.producers})
      /\ \A m \in {c.ring.in, c.ring.out, c.ended} \ {""} : p.fields[<<"q", m>>] = K(0)

Guarded(c, role) == CASE role = "push" -> {c.ring.in} [] role = "pop" -> {c.ring.out} [] role = "terminate" -> {c.ended} [] OTHER -> {}
WritesOnly(c, p, role) ==
  \A k \in DOMAIN p.fields : IF k[1] = "q" THEN k[2] \in Guarded(c, role)
                             ELSE role = "pop" /\ Has(p, "eload") /\ k[2] = "" /\ p.fields[k][1] = "eload"

\* The wait's predicate, as a table over the facts before it.
Waits(p) == LET ws == SelectSeq(p.events, LAMBDA e : e[1] = "wait") IN IF Len(ws) = 1 THEN {ws[1]} ELSE {}
WaitIs(c, w, pops) ==
  LET names == Facts(c, w[4]) \cup {<<"empty", 0>>, <<"full", 0>>} \cup If(c.ended # "", <<"ended", 0>>)
  IN  \A a \in [names -> BOOLEAN] :
        Truth(c, w[4], a) = IF pops THEN a[<<"empty", 0>>] /\ ~(c.ended # "" /\ a[<<"ended", 0>>]) ELSE a[<<"full", 0>>]
WaitsWhile(c, ps, pops) == \A p \in ps : Waits(p) # {} /\ \A w \in Waits(p) : WaitIs(c, w, pops)
CvOf(ps) == {e[2][2] : e \in EventsOf(ps, {"wait"})}

\* An element stored, or taken, after the wait, and the index it was at advanced.
Moves(c, p, e, m) ==
  /\ e[3][2] = 1 /\ <<"q", m>> \in DOMAIN p.fields
  /\ LET i == p.fields[<<"q", m>>] IN i[1] = "inc" /\ i[2] = e[3] /\ Is(i[3], c.ring.s)
LastOf(p, kind) == Last(SelectSeq(p.events, LAMBDA e : e[1] = kind))
Pushes(c, ps) ==
  LET p == CHOOSE x \in ps : TRUE
      e == LastOf(p, "estore")
  IN  Cardinality(ps) = 1 /\ Moves(c, p, e, c.ring.in) /\ e[4][1] = "par" /\ p.ret[1] \in {"void", "k"}
\* After the wait each state of the facts has one outcome, which takes unless the ring is empty.
Outcomes(c, ps) ==
  LET names == UNION {Facts(c, e) : e \in Tests(ps)} \cup {<<"empty", 1>>} \cup If(c.ended # "", <<"ended", 1>>)
  IN  \A a \in [names -> BOOLEAN] :
        (a[<<"empty", 1>>] => c.ended # "" /\ a[<<"ended", 1>>]) =>
          \E p \in ps : {q \in ps : Table(c, q, a)} = {p} /\ (Takes(p) <=> ~a[<<"empty", 1>>])
TakeRets(ps) == {p.ret : p \in {q \in ps : Takes(q)}}
ClosedRets(ps) == {p.ret : p \in {q \in ps : ~Takes(q)}}
Pops(c, ps, role) ==
  /\ Outcomes(c, ps)
  /\ \A p \in ps : ~Takes(p) => p.ret[1] = "k" /\ \A k \in DOMAIN p.fields : k[1] # "q"
  /\ Cardinality(ClosedRets(ps)) <= 1 /\ (c.ended # "" => ClosedRets(ps) # {})
  /\ IF role = "popBatch" THEN TakeRets(ps) \subseteq {<<"moved">>}
     ELSE /\ \A p \in ps : Takes(p) => LET e == LastOf(p, "eload")
                                       IN  Moves(c, p, e, c.ring.out) /\ \E k \in Outside(p) : p.fields[k] = e /\ k[2] = ""
          /\ Cardinality(TakeRets(ps)) <= 1 /\ (\A r \in TakeRets(ps) : r[1] = "k") /\ TakeRets(ps) \cap ClosedRets(ps) = {}
Performs(c, f) ==
  LET role == query.roles[f]
      ps == PathsOf(f)
  IN  /\ \A p \in ps : WritesOnly(c, p, role)
      /\ \A e \in Tests(ps) : Known(c, e)
      /\ CASE role = "push" -> WaitsWhile(c, ps, FALSE) /\ Pushes(c, ps)
           [] role = "pushBatch" -> WaitsWhile(c, ps, FALSE) /\ \A p \in ps : p.ret = <<"moved">>
           [] role \in {"pop", "popBatch"} -> WaitsWhile(c, ps, TRUE) /\ Pops(c, ps, role)
           [] role = "terminate" -> /\ ~SomeHas(ps, "wait") /\ \A p \in ps : p.ret[1] \in {"void", "k"}
                                    /\ Cardinality({p.ret : p \in ps} \ {Void}) <= 1

\* Every push wakes the pops' variable, every pop the pushes', the last termination every pop; a
\* batch only when it moved something.
Notifies == {"signal", "broadcast"}
Wakes_ByAny(p, cv, kinds) == \E e \in Events(p, Notifies) : e[2][2] = cv
Wakes(p, cv, kinds) == \E e \in Events(p, kinds) : e[2][2] = cv
Says(c, p, name) == {<<j, x[3] = p.conds[j].pol>> : <<j, x>> \in UNION {{j} \X {y \in Prop(c, p.conds[j].e) : y[1] = name} : j \in DOMAIN p.conds}}
MayMove(c, p) == Says(c, p, "moved") = {} \/ \E s \in Says(c, p, "moved") : s[2] /\ \A o \in Says(c, p, "moved") : s[1] <= o[1]
MayBeLast(c, p) == Says(c, p, "last") = {} \/ \E s \in Says(c, p, "last") : s[2] /\ \A o \in Says(c, p, "last") : o[1] <= s[1]
WakesUp(c, f) ==
  LET role == query.roles[f]
  IN  \A p \in PathsOf(f) :
        CASE role = "push" -> Wakes(p, c.notEmpty, Notifies)
          [] role = "pushBatch" -> MayMove(c, p) => Wakes(p, c.notEmpty, Notifies)
          [] role \in {"pop", "popBatch"} -> Takes(p) /\ MayMove(c, p) /\ c.notFull # "" => Wakes(p, c.notFull, Notifies)
          [] role = "terminate" -> /\ \A j \in DOMAIN p.conds : \E x \in Prop(c, p.conds[j].e) : x[1] = "last"
                                   /\ MayBeLast(c, p) => Wakes(p, c.notEmpty, {"broadcast"})
          [] OTHER -> TRUE

\* What a batch compares its count with: an integer of the caller's, not converted on the way.
KeepsLimit(f) ==
  query.roles[f] \in {"pushBatch", "popBatch"} =>
    LET t == CHOOSE e \in EventsOf(PathsOf(f), {"transfer"}) : TRUE IN OwnRing(t, query.roles[f]).root = "ring" /\ t[4][2] \notin query.read[f].lossy

\* A test of the end count for equality, in what an operation decides or waits on.
EndEq_Always(c) == c.ended # ""
EndEq(c) ==
  \E f \in With(Operations) : \E e \in Tests(PathsOf(f)) :
    \E l \in Leaves(e) : l[1] \in {"eq", "ne"} /\ \E x \in Prop(c, l) : x[1] \in {"ended", "last"}

Confine ==
  /\ stage = "c confine"
  /\ LET pushes == AllPaths({"push", "pushBatch"})
         pops == AllPaths({"pop", "popBatch"})
         c == [query EXCEPT !.ring = Layout, !.ended = Only(EndCounts), !.notFull = Only(CvOf(pushes)), !.notEmpty = Only(CvOf(pops))]
         ok == /\ Cardinality(With({"init"})) = 1
               /\ \A e \in EventsOf(AllPaths({"destroy"}), {"free"}) : Is(e[2], query.ring.d)
               /\ InTheRing /\ "" \notin {c.ring.d, c.ring.in, c.ring.out, c.ring.s}
               /\ \A f \in Fns : EndsOnlyUnallocated(f)
               /\ (\A p \in AllPaths({"terminate"}) : Counts(p)) /\ Cardinality(EndCounts) <= 1
               /\ c.ended # "" <=> c.prods # ""
               /\ Prepares(c)
               /\ \A f \in With(Operations) : Performs(c, f)
               /\ Cardinality(CvOf(pushes)) <= 1 /\ Cardinality(CvOf(pops)) = 1
               /\ \A f \in With(Operations) : WakesUp(c, f)
               /\ code.outside = {}
               /\ \A f \in Fns : KeepsLimit(f)
     IN  /\ query' = IF ok THEN [c EXCEPT !.endEq = EndEq(c)] ELSE query
         /\ stage' = IF ok THEN "c lift" ELSE "c refused"
  /\ UNCHANGED <<code, run>>

(***************************************************************************)
(* The substitute, shim/c_queue.cpp, and what lift puts in place of each   *)
(* function.                                                               *)
(***************************************************************************)
Least(a, b) == IF a < b THEN a ELSE b
\* How the queue finishes: never, at exactly so many terminations, or at as many or more.
Ends == IF query.ended = "" THEN "never" ELSE IF query.endEq THEN "exactly" ELSE "at least"
Built ==
  LET prods == IF query.ended = "" THEN 0 ELSE code.args[query.prods]
      slots == code.args[query.cap] + query.off
  IN  [room |-> IF slots < 0 THEN 0 ELSE slots, items |-> <<>>, prods |-> prods, ended |-> 0,
       closed |-> Ends # "never" /\ prods <= 0]
\* wtc_c_queue_init ends the program instead of building what the written queue could not use.
CannotBuild == code.args[query.cap] + query.off < -1 \/ (Ends = "exactly" /\ code.args[query.prods] < 0)
ConstOf(rets) == LET r == (rets \ {Void}) IN IF r = {} THEN 0 ELSE (CHOOSE x \in r : TRUE)[2]
\* A signed limit below zero is none.
LimitOf(call) == IF call.par["max"] < 0 THEN 0 ELSE call.par["max"]
\* A call of the substitute: what it answers, the queue and the caller's ring after it.
Answer(q, own, ret, out) == [q |-> q, own |-> own, said |-> <<"returns", ret, out>>]
Blocked(q, own) == [q |-> q, own |-> own, said |-> <<"waits">>]
Substitute(q, own, call) ==
  LET f == call.f
      role == query.roles[f]
      rets == {p.ret : p \in PathsOf(f)}
      n == Least(Len(own.items), LimitOf(call))
      k == Least(n, q.room - Len(q.items))
      room == Least(own.room - Len(own.items), LimitOf(call))
      j == Least(room, Len(q.items))
      more == q.ended + 1
  IN  CASE role = "push" -> IF Len(q.items) < q.room THEN Answer([q EXCEPT !.items = Append(@, call.par["v"])], own, ConstOf(rets), 0)
                            ELSE Blocked(q, own)
        [] role = "pop" ->
             IF q.items # <<>> THEN Answer([q EXCEPT !.items = Tail(@)], own, ConstOf(TakeRets(PathsOf(f))), Head(q.items))
             ELSE IF q.closed THEN Answer(q, own, ConstOf(ClosedRets(PathsOf(f))), 0) ELSE Blocked(q, own)
        [] role = "terminate" ->
             IF more > q.prods /\ Ends = "exactly" THEN [q |-> q, own |-> own, said |-> <<"ends the program">>]
             ELSE Answer([q EXCEPT !.ended = more, !.closed = @ \/ more = q.prods], own, ConstOf(rets), 0)
        [] role = "pushBatch" ->
             IF Len(q.items) = q.room THEN Blocked(q, own)
             ELSE Answer([q EXCEPT !.items = @ \o SubSeq(own.items, 1, k)], [own EXCEPT !.items = SubSeq(@, k + 1, Len(@))], k, 0)
        [] role = "popBatch" ->
             IF q.items # <<>> THEN Answer([q EXCEPT !.items = SubSeq(@, j + 1, Len(@))], [own EXCEPT !.items = @ \o SubSeq(q.items, 1, j)], j, 0)
             ELSE IF q.closed THEN Answer(q, own, ConstOf(ClosedRets(PathsOf(f))), 0) ELSE Blocked(q, own)

(***************************************************************************)
(* The program: every thread's calls, in the queue as it was written and   *)
(* in the substitute.  A function that lifts touches the queue only under  *)
(* its mutex, so a call runs in one step from its start, or from a         *)
(* wake-up, to its next wait or its return.                                *)
(***************************************************************************)
Threads == DOMAIN code.client
Moved == EventsOf(AllPaths({"pushBatch"}), {"transfer"})
OwnLayout == LET back == EventsOf(AllPaths({"popBatch"}), {"transfer"})
             IN  IF Moved # {} THEN {t[2] : t \in Moved} ELSE {t[3] : t \in back}
\* The elements of a thread's own ring, oldest first, and how many it holds.
Contents(own) ==
  IF OwnLayout = {} THEN [room |-> 0, items |-> <<>>]
  ELSE LET r == CHOOSE x \in OwnLayout : TRUE
           s == own.mem[r.s]
           n == (own.mem[r.in] + s - own.mem[r.out]) % s
       IN  [room |-> s - 1, items |-> [j \in 1 .. n |-> own.cells[(own.mem[r.out] + j - 1) % s]]]

Lift ==
  /\ stage = "c lift"
  /\ LET m == Execute(Machine(code.funs[CHOOSE f \in With({"init"}) : TRUE], code.args, [q |-> <<>>], [q |-> <<>>]))
     IN  run' = [mem |-> m.mem.q, cells |-> m.cells.q, own |-> code.own,
                 thr |-> [t \in Threads |-> [st |-> "idle", n |-> 1, m |-> <<>>]],
                 sub |-> Built, lent |-> [t \in Threads |-> Contents(code.own[t])], got |-> <<"starts">>, want |-> <<"starts">>]
  /\ stage' = IF CannotBuild THEN "c over" ELSE "c run"
  /\ UNCHANGED <<code, query>>

CallOf(t) == code.client[t][run.thr[t].n]
\* A signal wakes one of the threads asleep on its variable, a broadcast all of them.
Woken(thr, e) ==
  LET on == {t \in Threads : thr[t].st = "asleep" /\ thr[t].m.cv = e[2]}
      Up(ts) == [t \in Threads |-> IF t \in ts THEN [thr[t] EXCEPT !.st = "woken"] ELSE thr[t]]
  IN  IF e[1] = "broadcast" \/ on = {} THEN {Up(on)} ELSE {Up({t}) : t \in on}
RECURSIVE WokenBy(_, _)
WokenBy(thrs, es) == IF es = <<>> THEN thrs ELSE WokenBy(UNION {Woken(thr, Head(es)) : thr \in thrs}, Tail(es))
Segment(t, start) ==
  LET m == Execute([start EXCEPT !.mem = [q |-> run.mem, ring |-> run.own[t].mem, out |-> ("" :> 0)],
                                 !.cells = [q |-> run.cells, ring |-> run.own[t].cells]])
      own == [mem |-> m.mem.ring, cells |-> m.cells.ring]
      sleeps == m.stopped = "asleep"
      sub == Substitute(run.sub, run.lent[t], CallOf(t))
      after == IF sleeps THEN [run.thr[t] EXCEPT !.st = "asleep", !.m = [m EXCEPT !.mem = <<>>, !.cells = <<>>]]
               ELSE [st |-> "idle", n |-> run.thr[t].n + 1, m |-> <<>>]
  IN  /\ \E thr \in WokenBy({[run.thr EXCEPT ![t] = after]}, m.woke) :
           run' = [run EXCEPT !.mem = m.mem.q, !.cells = m.cells.q, !.own[t] = own, !.thr = thr,
                              !.sub = sub.q, !.lent[t] = sub.own,
                              !.got = IF sleeps THEN <<"waits">> ELSE <<"returns", m.ret, m.mem.out[""], Contents(own).items>>,
                              !.want = IF sub.said[1] = "returns" THEN Append(sub.said, sub.own.items) ELSE sub.said]
      /\ stage' = IF sub.said[1] = "ends the program" THEN "c over" ELSE stage
      /\ UNCHANGED <<code, query>>
Begin(t) ==
  /\ run.thr[t].st = "idle" /\ run.thr[t].n <= Len(code.client[t])
  /\ Segment(t, Machine(code.funs[CallOf(t).f], CallOf(t).par, <<>>, <<>>))
Resume(t) ==
  /\ run.thr[t].st = "woken"
  /\ Segment(t, Resumed(run.thr[t].m))
Spurious(t) ==
  /\ run.thr[t].st = "asleep"
  /\ run' = [run EXCEPT !.thr[t].st = "woken"]
  /\ UNCHANGED <<code, stage, query>>

CRun == stage = "c run" /\ \E t \in Threads : Begin(t) \/ Resume(t) \/ Spurious(t)
CNext == Mutable \/ ReadAll \/ Classify \/ Confine \/ Lift \/ CRun
CSpec == CInit("c mutable") /\ [][CNext]_cVars

(***************************************************************************)
(* Properties.                                                             *)
(***************************************************************************)

(* ResultsAgree: a call of a lifted function returns the same value, hands *)
(* over the same element and leaves the same elements in the caller's own  *)
(* ring, in the queue as written and in the substitute.                    *)
ResultsAgree == stage = "c run" /\ {run.got[1], run.want[1]} = {"returns"} => run.got = run.want

\* Whether a pop of the written queue, emptied, would answer that it is finished.
StillFinished ==
  \E f \in With({"pop", "popBatch"}), t \in Threads :
    LET m == Execute(Machine(code.funs[f], [v |-> 0, max |-> 0],
                             [q |-> [run.mem EXCEPT ![query.ring.out] = run.mem[query.ring.in]], ring |-> run.own[t].mem, out |-> ("" :> 0)],
                             [q |-> run.cells, ring |-> run.own[t].cells]))
    IN  m.stopped = "returned" /\ K(m.ret) \in ClosedRets(PathsOf(f))

(* WaitsAlike: a call waits in the substitute exactly where the written    *)
(* one waits: until there is room, or an element, or the last producer     *)
(* ended. The substitute ends the program instead only at a termination    *)
(* too many, or built for fewer than no producers, where the written queue,*)
(* emptied, would not say that it is finished (endEq in LiftCQueues.cpp;   *)
(* "ends" in shim/c_queue.h).                                              *)
WaitsAlike ==
  /\ stage = "c run" => run.got[1] = run.want[1]
  /\ stage = "c over" => ~StillFinished

(* NobodyLeftAsleep: a thread asleep in the written queue while nobody is  *)
(* on its way from a wake-up would wait in the substitute as well: no      *)
(* element, no room and no end was missed, whatever thread a signal woke.  *)
(* For queues whose sides have a variable each and move one element at a   *)
(* time: a batch wakes one thread for all it moved.                        *)
NobodyLeftAsleep ==
  stage = "c run" /\ OwnLayout = {} /\ query.notEmpty # query.notFull /\ (\A t \in Threads : run.thr[t].st # "woken") =>
    \A t \in Threads : run.thr[t].st = "asleep" => Substitute(run.sub, run.lent[t], CallOf(t)).said = <<"waits">>
=============================================================================
