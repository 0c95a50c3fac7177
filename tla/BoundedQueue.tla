---------------------------- MODULE BoundedQueue ----------------------------
(***************************************************************************)
(* What runtime/bounded_ring.hpp promises (its contract, lines 9-30): a    *)
(* ring under a mutex.  Every push, pop, overrun and size takes effect at  *)
(* one step between its call and its return, on one sequence that never    *)
(* holds more than Cap elements.  A refused push and a refused pop change  *)
(* nothing; each is legal exactly when the queue was full (empty) at some  *)
(* instant of the call, and size() answers with a length the queue had at  *)
(* some instant of the call.  "lens" records the lengths of those instants *)
(* that matter to the call's answer.                                       *)
(***************************************************************************)
EXTENDS Integers, Sequences

CONSTANTS
  Threads,   \* the threads that use the queue
  Elems,     \* what they push
  Cap        \* the exact capacity

VARIABLES
  queue,     \* the elements, oldest first
  call       \* call[p]: the operation thread p is in

qvars == <<queue, call>>

Ops == {"none", "push", "overrun", "pop", "size"}

\* No operation under way.
Idle == [op |-> "none", st |-> "idle", es |-> <<>>, n |-> 0, lens |-> {},
         num |-> 0, got |-> <<>>]

\* The lengths that decide an operation's refusal or answer.
Watched(op) == CASE op = "push" -> {Cap}
                 [] op = "pop"  -> {0}
                 [] op = "size" -> 0..Cap
                 [] OTHER       -> {}

\* An operation just called, the queue holding len elements.
Called(op, es, n, len) ==
  [op |-> op, st |-> "pending", es |-> es, n |-> n,
   lens |-> {len} \cap Watched(op), num |-> 0, got |-> <<>>]

\* Every pending operation sees the queue reach length len.
Witness(c, len) ==
  [p \in Threads |->
     IF c[p].st = "pending"
     THEN [c[p] EXCEPT !.lens = @ \cup ({len} \cap Watched(c[p].op))]
     ELSE c[p]]

\* The operation has had its effect: num is a push's, an overrun's or a
\* size's answer, got the elements of a pop.
Effected(c, num, got) ==
  [c EXCEPT !.st = "effected", !.lens = {}, !.num = num, !.got = got]

LeastOf(a, b) == IF a < b THEN a ELSE b

-----------------------------------------------------------------------------
QInit == queue = <<>> /\ call = [p \in Threads |-> Idle]

\* Any operation may be called with any arguments.
Begin(p) ==
  /\ call[p].st = "idle"
  /\ call'[p].op \in Ops \ {"none"}
  /\ call'[p].es \in Seq(Elems)
  /\ call' = [call EXCEPT
               ![p] = Called(call'[p].op, call'[p].es, call'[p].n, Len(queue))]
  /\ UNCHANGED queue

\* Appends as many of the call's elements as there is room for, at one step.
Push(p) ==
  /\ call[p].st = "pending" /\ call[p].op = "push"
  /\ LET k == LeastOf(Len(call[p].es), Cap - Len(queue))
     IN  /\ k > 0
         /\ queue' = queue \o SubSeq(call[p].es, 1, k)
         /\ call' = [Witness(call, Len(queue')) EXCEPT
                       ![p] = Effected(call[p], k, <<>>)]

\* Appends its element; removes the oldest at the same step when full.
Overrun(p) ==
  /\ call[p].st = "pending" /\ call[p].op = "overrun"
  /\ \/ /\ Cap > 0 /\ Len(queue) = Cap
        /\ queue' = Append(Tail(queue), call[p].es[1])
        /\ call' = [call EXCEPT ![p] = Effected(@, 1, <<>>)]
     \/ /\ Len(queue) < Cap
        /\ queue' = Append(queue, call[p].es[1])
        /\ call' = [Witness(call, Len(queue')) EXCEPT
                      ![p] = Effected(call[p], 0, <<>>)]
     \/ /\ Cap = 0
        /\ UNCHANGED queue
        /\ call' = [call EXCEPT ![p] = Effected(@, 1, <<>>)]

\* Removes up to n of the oldest elements at one step.
Pop(p) ==
  /\ call[p].st = "pending" /\ call[p].op = "pop"
  /\ LET k == LeastOf(call[p].n, Len(queue))
     IN  /\ k > 0
         /\ queue' = SubSeq(queue, k + 1, Len(queue))
         /\ call' = [Witness(call, Len(queue')) EXCEPT
                       ![p] = Effected(call[p], k, SubSeq(queue, 1, k))]

\* A push refused because the queue was full, a pop because it was empty.
Refuse(p) ==
  /\ call[p].st = "pending"
  /\ \/ call[p].op = "push" /\ (Cap \in call[p].lens \/ call[p].es = <<>>)
     \/ call[p].op = "pop" /\ (0 \in call[p].lens \/ call[p].n = 0)
  /\ call' = [call EXCEPT ![p] = Effected(@, 0, <<>>)]
  /\ UNCHANGED queue

Size(p) ==
  /\ call[p].st = "pending" /\ call[p].op = "size"
  /\ \E len \in call[p].lens : call' = [call EXCEPT ![p] = Effected(@, len, <<>>)]
  /\ UNCHANGED queue

Return(p) ==
  /\ call[p].st = "effected"
  /\ call' = [call EXCEPT ![p] = Idle]
  /\ UNCHANGED queue

QNext == \E p \in Threads :
           /\ call'[p] # call[p]
           /\ \/ Begin(p) \/ Push(p) \/ Overrun(p) \/ Pop(p) \/ Refuse(p)
              \/ Size(p) \/ Return(p)

QSpec == QInit /\ [][QNext]_qvars
=============================================================================
