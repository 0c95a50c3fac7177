------------------------------ MODULE ValueSets ------------------------------
(***************************************************************************)
(* Which values the operands of a condition may hold (LiftedBounded.cpp,   *)
(* ValueSets): the pass asks it whether a call of the overrunning push can *)
(* be reached.  A node is a member, a local, a parameter or what a         *)
(* reference parameter refers to:                                          *)
(*   [kind, from, leaks, writes, named]                                    *)
(* the expressions stored or passed to it, whether its address goes where  *)
(* the unit does not show, whether a callee may write through it, and      *)
(* whether its record or function is named where other files see it.  An   *)
(* expression is <<"const", n>>, <<"node", x>> or <<"cast", n, signed, e>>, *)
(* a conversion to the integer type of n values; a condition is            *)
(* <<"bool", e>>, <<"not", c>> or <<"eq"|"ne"|"lt"|"le"|"gt"|"ge", e, e>>.  *)
(***************************************************************************)
EXTENDS Integers, FiniteSets

Unknown == [known |-> FALSE, set |-> {}]
Known(s) == [known |-> TRUE, set |-> s]

\* An integral conversion, exactly: modulo the width, then read signed or unsigned.
ConvertTo_Same(v, n, signed) == v
ConvertTo(v, n, signed) == LET x == v % n IN IF signed /\ x >= n \div 2 THEN x - n ELSE x

\* exposed: the storage of a member's record is reached other than through its members, as any file
\* linked with this one may; a parameter's function is called from out of sight; a callee only reads
\* through the address it is handed.
Exposed(u, nd) == nd.leaks \/ u.linked
CalledElsewhere(u, nd) == nd.leaks \/ (u.linked /\ nd.named)
ReadOnly(nd) == ~nd.writes
Open(u, nd) == CASE nd.kind = "member" -> Exposed(u, nd) \/ ~ReadOnly(nd)
                 [] nd.kind = "local" -> nd.leaks \/ ~ReadOnly(nd)
                 [] nd.kind = "param" -> CalledElsewhere(u, nd)
                 [] nd.kind = "ref" -> CalledElsewhere(u, nd) \/ ~ReadOnly(nd)

\* slot, param, paramPointee, member: the union of what flows in.  A member or a local never written
\* may hold anything.
Union(ins) == IF \E i \in ins : ~i.known THEN Unknown ELSE Known(UNION {i.set : i \in ins})
Gathered(u, nd, ins) ==
  IF \/ Open(u, nd)
     \/ nd.kind = "member" /\ ins = {}
     \/ nd.kind = "local" /\ Union(ins).set = {}
  THEN Unknown ELSE Union(ins)

\* of: a node still being computed adds nothing of its own.
RECURSIVE Of(_, _, _)
Of(u, e, busy) ==
  CASE e[1] = "const" -> Known({e[2]})
    [] e[1] = "cast" -> LET s == Of(u, e[4], busy)
                        IN  [s EXCEPT !.set = {ConvertTo(v, e[2], e[3]) : v \in @}]
    [] e[1] = "node" /\ e[2] \in busy -> Known({})
    [] e[1] = "node" /\ e[2] \notin busy ->
         Gathered(u, u.nodes[e[2]], {Of(u, f, busy \cup {e[2]}) : f \in u.nodes[e[2]].from})

Compare(k, a, b) == CASE k = "eq" -> a = b [] k = "ne" -> a # b [] k = "lt" -> a < b
                      [] k = "le" -> a <= b [] k = "gt" -> a > b [] k = "ge" -> a >= b

\* truth: the answers a condition may give; decided when there is one.
RECURSIVE Answers(_, _)
Answers(u, c) ==
  IF c[1] = "not" THEN {~b : b \in Answers(u, c[2])}
  ELSE LET l == Of(u, c[2], {})
           r == IF c[1] = "bool" THEN Known({0}) ELSE Of(u, c[3], {})
           k == IF c[1] = "bool" THEN "ne" ELSE c[1]
       IN  IF ~l.known \/ ~r.known THEN BOOLEAN ELSE {Compare(k, p[1], p[2]) : p \in l.set \X r.set}

\* neverRuns: some condition around the call is always the other way.
NeverRuns(u, call) == u.main /\ \E j \in DOMAIN call : Answers(u, call[j].cond) = {~call[j].arm}
OverrunReachable(u) == \E j \in DOMAIN u.overruns : ~NeverRuns(u, u.overruns[j])
=============================================================================
