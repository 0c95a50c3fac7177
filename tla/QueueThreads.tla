---------------------------- MODULE QueueThreads ----------------------------
(***************************************************************************)
(* The threads that call a wtc::queue and the memory they share, for the   *)
(* modules of its implementations: where each thread is in its call, its   *)
(* locals, the calls it has still to make, and the list of segments of the *)
(* segmented queues.  Threads interleave at the granularity of the shared  *)
(* accesses, and all accesses are taken in one total order.                *)
(***************************************************************************)
EXTENDS QueueCalls, Hazard, SequencesExt

CONSTANT Cells      \* kSegment of the segmented queues

ASSUME RecordsAreThreads == Records = Producers \cup Consumers

VARIABLES tag,    \* topology tag_
          pc,     \* pc[t]: the next step of t's call, "idle" between calls
          reg,    \* reg[t]: the locals of t's call
          todo,   \* todo[t]: the calls t has still to make
          seg,    \* seg[a]: the segment at address a
          head,   \* head_
          tail    \* tail_

threadVars == <<tag, pc, reg, todo>>
memVars == <<seg, head, tail>>

NoReg == [run |-> <<>>, nxt |-> Nil, i |-> 0, end |-> 0, kind |-> "push"]

\* A segment of either segmented queue: segment_queue uses the cells'
\* states, spmc_queue the count its consumers have seen.
NoSeg == [deq |-> 0, enq |-> 0, seen |-> 0, next |-> Nil,
          state |-> [i \in 0..Cells-1 |-> "empty"],
          elem |-> [i \in 0..Cells-1 |-> 0]]

MemInit ==
  /\ seg = [a \in Addr |-> NoSeg]
  /\ head = 1
  /\ tail = 1

\* t goes on to step p, with some of its locals changed.
Go(t, p, r) ==
  /\ pc' = [pc EXCEPT ![t] = p]
  /\ reg' = [reg EXCEPT ![t] = r @@ @]
  /\ UNCHANGED <<tag, todo>>

GoOn(t, p) == Go(t, p, <<>>)

\* t's call returns.  A thread that has made its last call and holds nothing
\* in its hazard record ends without a trace.
Finished(t) ==
  todo[t] = <<>> /\ retired[t] = {} /\ (t \in Producers \/ tag # "spmc")

Return(t) ==
  /\ pc' = [pc EXCEPT ![t] = IF Finished(t) THEN "gone" ELSE "idle"]
  /\ reg' = [reg EXCEPT ![t] = NoReg]
  /\ UNCHANGED <<tag, todo>>

\* A step that touches neither the hazard records nor the calls.
Quiet == UNCHANGED <<hazardVars, callVars>>

\* The segment t works on.
S(t) == seg[ptr[t]]

-----------------------------------------------------------------------------
\* hazard::protect on tail_ (a push) or head_ (a pop).
Source(t) == IF t \in Producers THEN tail ELSE head

ProtectRead(t) ==
  /\ pc[t] = "read"
  /\ Read(t, Source(t))
  /\ Go(t, "publish", [i |-> 0, end |-> 0, nxt |-> Nil])
  /\ UNCHANGED <<memVars, callVars>>

ProtectPublish(t) ==
  /\ pc[t] = "publish"
  /\ Publish(t)
  /\ GoOn(t, "again")
  /\ UNCHANGED <<memVars, callVars>>

Protected(t) ==
  IF t \in Producers THEN "reserve" ELSE IF tag = "spmc" THEN "spmc_deq" ELSE "deq"
ProtectAgain(t) ==
  /\ pc[t] = "again"
  /\ Read(t, Source(t))
  /\ GoOn(t, IF Source(t) # ptr[t] THEN "publish" ELSE Protected(t))
  /\ UNCHANGED <<memVars, callVars>>

\* Where a pop that has moved the head starts over.
Again == CASE tag = "generic" -> "read" [] tag = "mpsc" -> "one" [] OTHER -> "spmc_head"

\* retire() of the segment the head has left, and the scan it may start.
RetireHead(t) ==
  /\ pc[t] = "retire"
  /\ Retire(t)
  /\ GoOn(t, IF ScanDue(t) THEN "scan" ELSE Again)
  /\ UNCHANGED <<memVars, callVars>>

\* A thread that is ending ("leaving") scans too.
Scan(t) ==
  /\ pc[t] \in {"scan", "leaving"}
  /\ \/ ScanSlot(t) /\ GoOn(t, pc[t])
     \/ ScanFree(t) /\ GoOn(t, IF pc[t] = "scan" THEN Again ELSE "gone")
  /\ UNCHANGED <<memVars, callVars>>

HazardStep(t) ==
  ProtectRead(t) \/ ProtectPublish(t) \/ ProtectAgain(t) \/ RetireHead(t) \/ Scan(t)
=============================================================================
