----------------------------- MODULE MCWtcQueue -----------------------------
(* WtcQueue with two threads a side and each tag's admitted threads. *)
EXTENDS WtcQueue

MCProducers == {"p1", "p2"}
MCConsumers == {"c1", "c2"}
MCRecords == MCProducers \cup MCConsumers

P(e) == [op |-> "push", e |-> e]
D(e) == [op |-> "defer", e |-> e]
E == [op |-> "end", e |-> 0]
Pops(n) == [i \in 1..n |-> [op |-> "pop", e |-> 0]]

Calls(p1, p2, n1, n2) ==
  [t \in MCRecords |-> CASE t = "p1" -> p1 [] t = "p2" -> p2
                         [] t = "c1" -> Pops(n1) [] OTHER -> Pops(n2)]

MCElements == 1..6

\* Runs that fill and cross segments of two cells, and pops enough to retire
\* one while others hold it.
MCSegments ==
  [g \in {"generic", "mpsc", "spmc"} |->
     CASE g = "generic" -> Calls(<<D(1), D(2)>>, <<P(3)>>, 2, 1)
       [] g = "mpsc" -> Calls(<<D(1), E>>, <<D(2), D(3)>>, 3, 0)
       [] OTHER -> Calls(<<P(1), D(2), D(3), E>>, <<>>, 2, 2)]

\* The ring, and the waits and retries of the generic queue's runs in
\* segments of three cells.
MCRings ==
  [g \in {"generic", "spsc_inline"} |->
     IF g = "generic" THEN Calls(<<D(1), D(2)>>, <<P(3)>>, 1, 1)
     ELSE Calls(<<P(1), D(2), D(3), D(4), E, P(5), P(6)>>, <<>>, 5, 0)]
=============================================================================
