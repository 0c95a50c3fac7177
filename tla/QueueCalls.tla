----------------------------- MODULE QueueCalls -----------------------------
(***************************************************************************)
(* What wtc::queue promises the threads that call it, whichever            *)
(* implementation the topology tag selects (src/shim/queue.hpp, the        *)
(* contracts at the head of segment_queue.hpp, spmc_queue.hpp and          *)
(* spsc_ring.hpp).  A call takes time: it starts, and later it returns.    *)
(* The promise is stated over the order of starts and returns, so it needs *)
(* no linearisation point:                                                 *)
(*                                                                         *)
(*   - a pop hands out an element some push has started, and no element    *)
(*     is handed out twice;                                                *)
(*   - a pop that returns leaves behind the elements ahead of its own, and  *)
(*     one that answers empty leaves behind every element whose push had   *)
(*     returned when it started.  An element left behind is one that pops  *)
(*     already started have still to hand out: a pop that starts later     *)
(*     never hands it out, and there are enough of those started for all.  *)
(*                                                                         *)
(* An element is ahead of another if its push returned before the other's  *)
(* started, or if the same producer pushed it earlier.                     *)
(***************************************************************************)
EXTENDS Naturals, FiniteSets, Sequences

CONSTANTS Elements,     \* what the program pushes, every element once
          Producers,    \* the threads that push
          Consumers     \* the threads that pop

VARIABLES pushing,   \* pushing[p]: elements p has begun to push, not returned
          returned,  \* elements whose push has returned
          ahead,     \* ahead[e]: the elements ahead of e
          popped,    \* elements handed to some pop
          left,      \* elements left behind and not popped yet
          popping    \* popping[c]: what the pop c has in hand must respect

callVars == <<pushing, returned, ahead, popped, left, popping>>

\* No pop in progress.
NoPop == [on |-> FALSE, due |-> {}, missed |-> {}, got |-> {}]

CallsInit ==
  /\ pushing = [p \in Producers |-> {}]
  /\ returned = {}
  /\ ahead = [e \in Elements |-> {}]
  /\ popped = {}
  /\ left = {}
  /\ popping = [c \in Consumers |-> NoPop]

\* p's push of e starts.
StartPush(p, e) ==
  /\ pushing' = [pushing EXCEPT ![p] = @ \cup {e}]
  /\ ahead' = [ahead EXCEPT ![e] = returned \cup pushing[p]]
  /\ UNCHANGED <<returned, popped, left, popping>>

\* p's push returns, or its batch has been published.
EndPush(p) ==
  /\ returned' = returned \cup pushing[p]
  /\ pushing' = [pushing EXCEPT ![p] = {}]
  /\ UNCHANGED <<ahead, popped, left, popping>>

StartPop(c) ==
  /\ popping' = [popping EXCEPT ![c] =
       [on |-> TRUE, due |-> returned \ popped, missed |-> left, got |-> {}]]
  /\ UNCHANGED <<pushing, returned, ahead, popped, left>>

\* c takes e out of its cell; its pop has still to return.
Take(c, e) ==
  /\ popped' = popped \cup {e}
  /\ left' = left \ {e}
  /\ popping' = [popping EXCEPT ![c].got = {e}]
  /\ UNCHANGED <<pushing, returned, ahead>>

\* The elements c's pop leaves behind when it returns.
Leaves(c) ==
  (IF popping[c].got = {} THEN popping[c].due ELSE UNION {ahead[e] : e \in popping[c].got})
    \ popped

\* c's pop returns: the element it took, or the answer that the queue is empty.
EndPop(c) ==
  /\ left' = left \cup Leaves(c)
  /\ popping' = [popping EXCEPT ![c] = NoPop]
  /\ UNCHANGED <<pushing, returned, ahead, popped>>

-----------------------------------------------------------------------------
\* What the promise allows: the steps above under their guards.
MayTake(c, e) ==
  /\ popping[c].on /\ popping[c].got = {}
  /\ e \notin popped
  /\ e \in returned \cup UNION {pushing[p] : p \in Producers}
  /\ e \notin popping[c].missed

MayReturn(c) ==
  /\ popping[c].on
  /\ Cardinality(left \cup Leaves(c)) <=
       Cardinality({d \in Consumers \ {c} : popping[d].on /\ popping[d].got = {}})

CallsNext ==
  \/ \E p \in Producers :
       \/ EndPush(p)
       \/ \E e \in Elements \ (returned \cup pushing[p]) : StartPush(p, e)
  \/ \E c \in Consumers :
       \/ ~popping[c].on /\ StartPop(c)
       \/ \E e \in Elements : MayTake(c, e) /\ Take(c, e)
       \/ MayReturn(c) /\ EndPop(c)

\* PROPERTY: every step of a queue is a step the promise allows.
CallsSpec == CallsInit /\ [][CallsNext]_callVars
=============================================================================
