---------------------------- MODULE MCBoundedRing ----------------------------
(* BoundedRing on small instances. *)
EXTENDS BoundedRing, TLC

Flags(o, b, m, c) == [overrun |-> o, batches |-> b, mp |-> m, mc |-> c]

\* The split layout for each of the four topologies.
SplitBuilds == {Flags(FALSE, FALSE, m, c) : m \in BOOLEAN, c \in BOOLEAN}

\* The packed layout, with overruns and with batches.
PackedBuilds == {Flags(TRUE, FALSE, TRUE, TRUE), Flags(FALSE, TRUE, TRUE, TRUE)}

\* Every layout.
AllBuilds == SplitBuilds \cup PackedBuilds

\* One of each, for liveness.
LiveBuilds == {Flags(FALSE, FALSE, TRUE, TRUE), Flags(FALSE, TRUE, TRUE, TRUE),
               Flags(TRUE, FALSE, TRUE, TRUE)}

\* Any thread may be a producer, a consumer or both.
Interchangeable == Permutations(Threads)
=============================================================================
