----------------------------- MODULE SpmcQueue ------------------------------
(***************************************************************************)
(* wtc::rt::spmc_queue (src/runtime/spmc_queue.hpp): one producer, any     *)
(* number of consumers.  The producer fills cells of the tail segment and  *)
(* publishes their count; the consumers claim published cells with a       *)
(* compare-and-swap and keep their hazard slot on the head segment from    *)
(* one pop to the next.                                                    *)
(***************************************************************************)
EXTENDS QueueThreads

VARIABLE filled     \* filled_, the cells of the tail segment in use

spmcVars == <<memVars, filled>>

\* push_deferred, with room in the tail segment or on the first cell of the
\* one just linked.
Place(e) ==
  /\ seg' = [seg EXCEPT ![tail].elem[filled] = e]
  /\ filled' = filled + 1
  /\ UNCHANGED <<head, tail>>

SpmcPlace(t) ==
  LET r == reg[t] IN
  /\ pc[t] = "spmc_place"
  /\ IF filled < Cells
     THEN /\ Place(Head(r.run))
          /\ IF r.kind = "push" THEN GoOn(t, "spmc_publish") ELSE Return(t)
     ELSE /\ seg' = [seg EXCEPT ![tail].enq = Cells]
          /\ GoOn(t, "spmc_link")
          /\ UNCHANGED <<head, tail, filled>>
  /\ Quiet

\* The full segment has been published whole: link a fresh one.
SpmcLink(t) ==
  /\ pc[t] = "spmc_link"
  /\ Allocate
  /\ seg' = [seg EXCEPT ![tail].next = Fresh, ![Fresh] = NoSeg]
  /\ tail' = Fresh
  /\ filled' = 0
  /\ GoOn(t, "spmc_place")
  /\ UNCHANGED <<head, callVars>>

\* publish().
SpmcPublish(t) ==
  /\ pc[t] = "spmc_publish"
  /\ seg' = [seg EXCEPT ![tail].enq = filled]
  /\ EndPush(t)
  /\ Return(t)
  /\ UNCHANGED <<head, tail, filled, hazardVars>>

-----------------------------------------------------------------------------
\* held_head: nothing to publish if the slot still holds the head.
HeldHead(t) ==
  /\ pc[t] = "spmc_head"
  /\ Read(t, head)
  /\ GoOn(t, IF slot[t] = head THEN "spmc_deq" ELSE "read")
  /\ UNCHANGED <<spmcVars, callVars>>

SpmcDeq(t) ==
  /\ pc[t] = "spmc_deq"
  /\ Go(t, "spmc_seen", [i |-> S(t).deq])
  /\ UNCHANGED spmcVars /\ Quiet

\* Claim below the count some consumer has read, else read the producer's.
Below(t, e) == IF reg[t].i >= e THEN "spmc_enq" ELSE "spmc_claim"

SpmcSeen(t) ==
  /\ pc[t] = "spmc_seen"
  /\ Go(t, Below(t, S(t).seen), [end |-> S(t).seen])
  /\ UNCHANGED spmcVars /\ Quiet

SpmcEnq(t) ==
  LET e == S(t).enq IN
  /\ pc[t] = "spmc_enq"
  /\ Go(t, IF reg[t].i < e THEN "spmc_tell"
           ELSE IF e < Cells THEN "spmc_done" ELSE "spmc_next", [end |-> e])
  /\ UNCHANGED spmcVars /\ Quiet

SpmcTell(t) ==
  /\ pc[t] = "spmc_tell"
  /\ seg' = [seg EXCEPT ![ptr[t]].seen = reg[t].end]
  /\ GoOn(t, "spmc_claim")
  /\ UNCHANGED <<head, tail, filled>> /\ Quiet

\* A failed claim leaves the index another consumer has reached.
SpmcClaim(t) ==
  LET d == S(t).deq IN
  /\ pc[t] = "spmc_claim"
  /\ IF d = reg[t].i
     THEN /\ seg' = [seg EXCEPT ![ptr[t]].deq = d + 1]
          /\ GoOn(t, "spmc_take")
     ELSE /\ Go(t, IF d >= reg[t].end THEN "spmc_enq" ELSE "spmc_claim", [i |-> d])
          /\ UNCHANGED seg
  /\ UNCHANGED <<head, tail, filled>> /\ Quiet

SpmcTake(t) ==
  /\ pc[t] = "spmc_take"
  /\ Take(t, S(t).elem[reg[t].i])
  /\ GoOn(t, "spmc_done")
  /\ UNCHANGED <<spmcVars, hazardVars>>

\* Drained and full: the next segment, if there is one.
SpmcNext(t) ==
  /\ pc[t] = "spmc_next"
  /\ Go(t, IF S(t).next = Nil THEN "spmc_done" ELSE "spmc_move", [nxt |-> S(t).next])
  /\ UNCHANGED spmcVars /\ Quiet

SpmcMove(t) ==
  /\ pc[t] = "spmc_move"
  /\ IF head = ptr[t]
     THEN head' = reg[t].nxt /\ GoOn(t, "retire")
     ELSE UNCHANGED head /\ GoOn(t, "spmc_head")
  /\ UNCHANGED <<seg, tail, filled>> /\ Quiet

\* The pop returns; its slot goes on holding the segment.
SpmcDone(t) ==
  /\ pc[t] = "spmc_done"
  /\ EndPop(t)
  /\ Forget(t)
  /\ Return(t)
  /\ UNCHANGED spmcVars

SpmcStep(t) ==
  \/ SpmcPlace(t) \/ SpmcLink(t) \/ SpmcPublish(t)
  \/ HeldHead(t) \/ SpmcDeq(t) \/ SpmcSeen(t) \/ SpmcEnq(t) \/ SpmcTell(t)
  \/ SpmcClaim(t) \/ SpmcTake(t) \/ SpmcNext(t) \/ SpmcMove(t) \/ SpmcDone(t)

\* ~spmc_queue: what is left, unpublished cells of the tail included.
RECURSIVE SpmcRest(_, _)
SpmcRest(a, from) ==
  IF a = Nil THEN {}
  ELSE {seg[a].elem[i] : i \in from..(IF a = tail THEN filled ELSE seg[a].enq) - 1}
         \cup SpmcRest(seg[a].next, 0)
=============================================================================
