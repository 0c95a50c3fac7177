---------------------------- MODULE SegmentQueue ----------------------------
(***************************************************************************)
(* wtc::rt::segment_queue (src/runtime/segment_queue.hpp), the queue of    *)
(* the generic tag (any number of consumers) and of the mpsc tag (one).    *)
(* A list of segments of Cells cells; a push reserves indices with a       *)
(* fetch-and-add and fills them, a pop of the generic queue claims an      *)
(* index and takes, waits for, or skips its cell, and the single consumer  *)
(* of the mpsc queue walks the cells in order and looks past the ones a    *)
(* push has reserved and not filled (the holes).                           *)
(***************************************************************************)
EXTENDS QueueThreads

VARIABLES holes,    \* one_.holes, positions <<segment, index>>
          walk      \* one_.walk

segVars == <<memVars, holes, walk>>

Many == tag = "generic"

OneInit ==
  /\ holes = <<>>
  /\ walk = <<Nil, 0>>

\* The state of the cell t is at.
StateOf(t) == S(t).state[reg[t].i]
SetState(t, s) == seg' = [seg EXCEPT ![ptr[t]].state[reg[t].i] = s]

-----------------------------------------------------------------------------
\* push_run: reserve as many indices as elements remain.
Reserve(t) ==
  LET i == S(t).enq
      end == i + Len(reg[t].run) IN
  /\ pc[t] = "reserve"
  /\ seg' = [seg EXCEPT ![ptr[t]].enq = end]
  /\ Go(t, IF i < Cells THEN "fill" ELSE "link", [i |-> i, end |-> end])
  /\ UNCHANGED <<head, tail, holes, walk>> /\ Quiet

\* Construct the element and mark the cell full; the generic queue's mark
\* fails on a cell a pop has skipped.
Fill(t) ==
  LET i == reg[t].i
      rest == Tail(reg[t].run)
      filled == ~Many \/ StateOf(t) = "empty" IN
  /\ pc[t] = "fill"
  /\ IF filled
     THEN /\ seg' = [seg EXCEPT ![ptr[t]].state[i] = "full",
                                ![ptr[t]].elem[i] = Head(reg[t].run)]
          /\ Go(t, IF rest = <<>> THEN "clear"
                   ELSE IF i + 1 < Cells THEN "fill" ELSE "link",
                [i |-> i + 1, run |-> rest])
     ELSE /\ UNCHANGED seg
          /\ Go(t, "giveup", [i |-> i + 1])
  /\ UNCHANGED <<head, tail, holes, walk>> /\ Quiet
\* Mutant: the cells of the run after the skipped one are left as they are.
GiveUp_Leaves(t) ==
  /\ pc[t] = "giveup"
  /\ GoOn(t, IF reg[t].end <= Cells THEN "read" ELSE "link")
  /\ UNCHANGED segVars /\ Quiet

\* Give up the cells of the run after a skipped one, then push the rest
\* again, past the segment's end if the reservation reached it.
GiveUp(t) ==
  /\ pc[t] = "giveup"
  /\ IF reg[t].i < Min({reg[t].end, Cells})
     THEN /\ SetState(t, IF StateOf(t) = "empty" THEN "skipped" ELSE StateOf(t))
          /\ Go(t, "giveup", [i |-> reg[t].i + 1])
     ELSE /\ UNCHANGED seg
          /\ GoOn(t, IF reg[t].end <= Cells THEN "read" ELSE "link")
  /\ UNCHANGED <<head, tail, holes, walk>> /\ Quiet

\* A segment that carries the first elements of a run.
Carrying(run) ==
  LET m == Min({Cells, Len(run)}) IN
  [NoSeg EXCEPT !.enq = m,
                !.state = [i \in 0..Cells-1 |-> IF i < m THEN "full" ELSE "empty"],
                !.elem = [i \in 0..Cells-1 |-> IF i < m THEN run[i + 1] ELSE 0]]

\* Past the end: link a fresh segment with what is left of the run, unless
\* another push has linked one (seen before the exchange or by it, when the
\* elements come back out and the fresh one goes).
Link(t) ==
  LET run == reg[t].run
      m == Min({Cells, Len(run)}) IN
  /\ pc[t] = "link"
  /\ IF S(t).next = Nil
     THEN /\ Allocate
          /\ seg' = [seg EXCEPT ![ptr[t]].next = Fresh, ![Fresh] = Carrying(run)]
          /\ Go(t, "swing", [nxt |-> Fresh, run |-> SubSeq(run, m + 1, Len(run))])
     ELSE /\ UNCHANGED <<seg, hazardVars>>
          /\ Go(t, "swing", [nxt |-> S(t).next])
  /\ UNCHANGED <<head, tail, holes, walk, callVars>>

\* Move the tail on, and push what remains.
SwingTail(t) ==
  /\ pc[t] = "swing"
  /\ tail' = IF tail = ptr[t] THEN reg[t].nxt ELSE tail
  /\ GoOn(t, IF reg[t].run = <<>> THEN "clear" ELSE "read")
  /\ UNCHANGED <<seg, head, holes, walk>> /\ Quiet

PushDone(t) ==
  /\ pc[t] = "clear" /\ t \in Producers
  /\ Unprotect(t)
  /\ EndPush(t)
  /\ Return(t)
  /\ UNCHANGED segVars

-----------------------------------------------------------------------------
\* pop_many: empty if no index is left to claim and no segment follows.
ReadDeq(t) ==
  /\ pc[t] = "deq"
  /\ Go(t, "enq", [i |-> S(t).deq])
  /\ UNCHANGED segVars /\ Quiet

ReadEnq(t) ==
  /\ pc[t] = "enq"
  /\ GoOn(t, IF reg[t].i >= S(t).enq THEN "last" ELSE "claim")
  /\ UNCHANGED segVars /\ Quiet

ReadLast(t) ==
  /\ pc[t] = "last"
  /\ GoOn(t, IF S(t).next = Nil THEN "clear" ELSE "claim")
  /\ UNCHANGED segVars /\ Quiet

Claim(t) ==
  LET i == S(t).deq IN
  /\ pc[t] = "claim"
  /\ seg' = [seg EXCEPT ![ptr[t]].deq = i + 1]
  /\ Go(t, IF i >= Cells THEN "follow" ELSE "state", [i |-> i])
  /\ UNCHANGED <<head, tail, holes, walk>> /\ Quiet

\* Where a cell's state sends the pop that claimed it.
Onward(s) == CASE s = "full" -> "take" [] s = "skipped" -> "read" [] OTHER -> "patience"

ReadState(t) ==
  /\ pc[t] = "state"
  /\ GoOn(t, Onward(StateOf(t)))
  /\ UNCHANGED segVars /\ Quiet

\* An empty cell: wait if a push has reserved it, else skip it.
Patience(t) ==
  /\ pc[t] = "patience"
  /\ GoOn(t, IF reg[t].i < S(t).enq THEN "await" ELSE "skip")
  /\ UNCHANGED segVars /\ Quiet

Await(t) ==
  /\ pc[t] = "await"
  /\ GoOn(t, IF StateOf(t) = "empty" THEN "await" ELSE Onward(StateOf(t)))
  /\ UNCHANGED segVars /\ Quiet

Skip(t) ==
  /\ pc[t] = "skip"
  /\ IF StateOf(t) = "empty"
     THEN SetState(t, "skipped") /\ GoOn(t, "read")
     ELSE UNCHANGED seg /\ GoOn(t, Onward(StateOf(t)))
  /\ UNCHANGED <<head, tail, holes, walk>> /\ Quiet

TakeClaimed(t) ==
  /\ pc[t] = "take"
  /\ Take(t, S(t).elem[reg[t].i])
  /\ GoOn(t, "clear")
  /\ UNCHANGED <<segVars, hazardVars>>

PopDone(t) ==
  /\ pc[t] = "clear" /\ t \in Consumers
  /\ EndPop(t)
  /\ Unprotect(t)
  /\ Return(t)
  /\ UNCHANGED segVars

\* advance_head, from a drained segment: the tail first, then the head, and
\* the one that moved the head retires the segment.
Follow(t) ==
  /\ pc[t] = "follow"
  /\ Go(t, IF S(t).next = Nil THEN "clear" ELSE "advtail", [nxt |-> S(t).next])
  /\ UNCHANGED segVars /\ Quiet

AdvanceTail(t) ==
  /\ pc[t] = "advtail"
  /\ tail' = IF tail = ptr[t] THEN reg[t].nxt ELSE tail
  /\ GoOn(t, "advhead")
  /\ UNCHANGED <<seg, head, holes, walk>> /\ Quiet

AdvanceHead(t) ==
  /\ pc[t] = "advhead"
  /\ IF ~Many \/ head = ptr[t]
     THEN head' = reg[t].nxt /\ GoOn(t, "retire")
     ELSE UNCHANGED head /\ GoOn(t, "read")
  /\ UNCHANGED <<seg, tail, holes, walk>> /\ Quiet

-----------------------------------------------------------------------------
\* pop_one: the single consumer looks at the cell its index is at.  Pauses
\* before it looks (slip_one, the streaming patience) are a later look.
OneLook(t) ==
  LET h == seg[head]
      i == h.deq
      s == h.state[i] IN
  /\ pc[t] = "one"
  /\ Read(t, head)
  /\ \/ i >= Cells /\ GoOn(t, "follow") /\ UNCHANGED <<seg, walk, callVars>>
     \/ /\ i < Cells /\ s = "taken"
        /\ seg' = [seg EXCEPT ![head].deq = i + 1]
        /\ GoOn(t, "one") /\ UNCHANGED <<walk, callVars>>
     \/ /\ i < Cells /\ s = "full" /\ holes = <<>>
        /\ Take(t, h.elem[i])
        /\ seg' = [seg EXCEPT ![head].deq = i + 1]
        /\ GoOn(t, "clear") /\ UNCHANGED walk
     \/ /\ i < Cells /\ s # "taken" /\ (s # "full" \/ holes # <<>>)
        /\ walk' = IF holes = <<>> THEN <<head, i>> ELSE walk
        /\ Go(t, "holes", [i |-> 1]) /\ UNCHANGED <<seg, callVars>>
  /\ UNCHANGED <<head, tail, holes>>

IsFull(p) == seg[p[1]].state[p[2]] = "full"

\* pop_ahead: the first hole that has been filled since it was passed.
LookHoles(t) ==
  LET k == reg[t].i IN
  /\ pc[t] = "holes"
  /\ IF k > Len(holes) THEN GoOn(t, "walk")
     ELSE IF IsFull(holes[k]) THEN Go(t, "relook", [end |-> 1])
     ELSE Go(t, "holes", [i |-> k + 1])
  /\ UNCHANGED segVars /\ Quiet

\* walk_on: the cells pushes have reserved in this segment, one at a time.
WalkEnq(t) ==
  /\ pc[t] = "walk"
  /\ Go(t, "step", [end |-> seg[walk[1]].enq])
  /\ UNCHANGED segVars /\ Quiet

WalkStep(t) ==
  LET s == walk[1]
      j == walk[2] IN
  /\ pc[t] = "step"
  /\ \/ /\ j < Min({reg[t].end, Cells})
        /\ holes' = Append(holes, walk)
        /\ walk' = <<s, j + 1>>
        /\ IF IsFull(walk)
           THEN Go(t, "relook", [i |-> Len(holes) + 1, end |-> 1])
           ELSE GoOn(t, "step")
     \/ /\ j >= Min({reg[t].end, Cells})
        /\ GoOn(t, IF reg[t].end <= Cells THEN "clear" ELSE "walknext")
        /\ UNCHANGED <<holes, walk>>
  /\ UNCHANGED <<seg, head, tail>> /\ Quiet

WalkNext(t) ==
  LET n == seg[walk[1]].next IN
  /\ pc[t] = "walknext"
  /\ walk' = IF n = Nil THEN walk ELSE <<n, 0>>
  /\ GoOn(t, IF n = Nil THEN "clear" ELSE "walk")
  /\ UNCHANGED <<seg, head, tail, holes>> /\ Quiet
\* Mutant: the full cell found first is taken without looking again.
Relook_Never(t) ==
  LET k == reg[t].i IN
  /\ pc[t] = "relook"
  /\ Take(t, seg[holes[k][1]].elem[holes[k][2]])
  /\ seg' = [seg EXCEPT ![holes[k][1]].state[holes[k][2]] = "taken"]
  /\ holes' = RemoveAt(holes, k)
  /\ GoOn(t, "clear")
  /\ UNCHANGED <<head, tail, walk, hazardVars>>

\* Look again at the holes before the full one, from the first, until none
\* has been filled, and take the earliest.
Relook(t) ==
  LET k == reg[t].i
      m == reg[t].end IN
  /\ pc[t] = "relook"
  /\ IF m < k
     THEN /\ IF IsFull(holes[m]) THEN Go(t, "relook", [i |-> m, end |-> 1])
             ELSE Go(t, "relook", [end |-> m + 1])
          /\ UNCHANGED <<seg, holes, callVars>>
     ELSE /\ Take(t, seg[holes[k][1]].elem[holes[k][2]])
          /\ seg' = [seg EXCEPT ![holes[k][1]].state[holes[k][2]] = "taken"]
          /\ holes' = RemoveAt(holes, k)
          /\ GoOn(t, "clear")
  /\ UNCHANGED <<head, tail, walk, hazardVars>>

-----------------------------------------------------------------------------
SegmentStep(t) ==
  \/ Reserve(t) \/ Fill(t) \/ GiveUp(t) \/ Link(t)
  \/ SwingTail(t) \/ PushDone(t)
  \/ ReadDeq(t) \/ ReadEnq(t) \/ ReadLast(t) \/ Claim(t) \/ ReadState(t)
  \/ Patience(t) \/ Await(t) \/ Skip(t) \/ TakeClaimed(t) \/ PopDone(t)
  \/ Follow(t) \/ AdvanceTail(t) \/ AdvanceHead(t)
  \/ OneLook(t) \/ LookHoles(t) \/ WalkEnq(t) \/ WalkStep(t) \/ WalkNext(t)
  \/ Relook(t)

\* ~segment_queue: the segments from the head on, and the elements still in
\* them: in the head from its index on.
RECURSIVE SegmentsFrom(_)
SegmentsFrom(a) == IF a = Nil THEN {} ELSE {a} \cup SegmentsFrom(seg[a].next)
\* Mutant: the head's cells are destroyed from its first one on.
SegmentElements_FromZero ==
  {seg[a].elem[i] : <<a, i>> \in
     {c \in SegmentsFrom(head) \X (0..Cells-1) : seg[c[1]].state[c[2]] = "full"}}

SegmentElements ==
  {seg[a].elem[i] : <<a, i>> \in
     {c \in SegmentsFrom(head) \X (0..Cells-1) :
        /\ seg[c[1]].state[c[2]] = "full"
        /\ c[1] = head => c[2] >= seg[head].deq}}
=============================================================================
