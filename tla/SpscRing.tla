------------------------------ MODULE SpscRing ------------------------------
(***************************************************************************)
(* wtc::rt::spsc_ring (src/runtime/spsc_ring.hpp), the queue of the spsc   *)
(* and spsc_inline tags, with the consumer's slip and the control of       *)
(* stream_gate.hpp.  Blocks of Slots slots in a ring; the producer reuses  *)
(* the next block once the consumer has announced that it left it, and     *)
(* inserts a new block otherwise.  A borrowed element stays in its slot    *)
(* until the consumer's next pop.  The gate's clock is the environment:    *)
(* whether a catch-up reads as a stream is chosen freely.                  *)
(***************************************************************************)
EXTENDS QueueThreads

CONSTANTS Slots,        \* kSlots
          MaxBlocks,    \* bound: blocks ever made
          SlipMax,      \* kSlipMax
          ProbeEvery, ProbeMax, StayOpen   \* the gate's constants

VARIABLES blocks,       \* the blocks made so far, in the order they were made
          prod, cons,   \* p_ and c_
          pushPub, popPub,
          gate

ringVars == <<blocks, prod, cons, pushPub, popPub, gate>>

Raw == 0                \* a slot that holds no element
Block(next, end) == [next |-> next, end |-> end, slots |-> [i \in 0..Slots-1 |-> Raw]]
\* Mutant: the first block's end is left at zero, as a never-filled block's.
RingInit_NoEnd ==
  /\ blocks = <<Block(2, 0), Block(1, 0)>>
  /\ prod = [blk |-> 1, count |-> 0, off |-> 0, cached |-> 0]
  /\ cons = [blk |-> 1, count |-> 0, off |-> 0, cached |-> 0, lent |-> <<>>, batch |-> 1]
  /\ pushPub = 0
  /\ popPub = 0
  /\ gate = [probe |-> 0, every |-> ProbeEvery, open |-> 0, probing |-> FALSE]

\* The producer starts inside the first block without turning over.
RingInit ==
  /\ blocks = <<Block(2, Slots), Block(1, 0)>>
  /\ prod = [blk |-> 1, count |-> 0, off |-> 0, cached |-> 0]
  /\ cons = [blk |-> 1, count |-> 0, off |-> 0, cached |-> 0, lent |-> <<>>, batch |-> 1]
  /\ pushPub = 0
  /\ popPub = 0
  /\ gate = [probe |-> 0, every |-> ProbeEvery, open |-> 0, probing |-> FALSE]

-----------------------------------------------------------------------------
\* Mutant: a block with one element not left yet counts as drained.
TurnOver_Early(t) ==
  LET cand == blocks[prod.blk].next IN
  /\ pc[t] = "turn"
  /\ IF blocks[cand].end <= popPub + Slots
     THEN /\ blocks' = [blocks EXCEPT ![cand].end = prod.count + Slots]
          /\ prod' = [prod EXCEPT !.blk = cand, !.off = 0, !.cached = popPub]
          /\ GoOn(t, "construct")
     ELSE /\ prod' = [prod EXCEPT !.cached = popPub]
          /\ GoOn(t, "insert")
          /\ UNCHANGED blocks
  /\ UNCHANGED <<cons, pushPub, popPub, gate>> /\ Quiet

\* turn_over: the next block is drained if the consumer has left all of it;
\* the producer reads the consumer's count only if its copy does not say so.
TurnOver(t) ==
  LET cand == blocks[prod.blk].next
      cached == IF blocks[cand].end <= prod.cached THEN prod.cached ELSE popPub IN
  /\ pc[t] = "turn"
  /\ IF blocks[cand].end <= cached
     THEN /\ blocks' = [blocks EXCEPT ![cand].end = prod.count + Slots]
          /\ prod' = [prod EXCEPT !.blk = cand, !.off = 0, !.cached = cached]
          /\ GoOn(t, "construct")
     ELSE /\ prod' = [prod EXCEPT !.cached = cached]
          /\ GoOn(t, "insert")
          /\ UNCHANGED blocks
  /\ UNCHANGED <<cons, pushPub, popPub, gate>> /\ Quiet

InsertBlock(t) ==
  LET nb == Len(blocks) + 1
      cand == blocks[prod.blk].next IN
  /\ pc[t] = "insert"
  /\ nb <= MaxBlocks
  /\ blocks' = Append([blocks EXCEPT ![prod.blk].next = nb],
                      Block(cand, prod.count + Slots))
  /\ prod' = [prod EXCEPT !.blk = nb, !.off = 0]
  /\ GoOn(t, "construct")
  /\ UNCHANGED <<cons, pushPub, popPub, gate>> /\ Quiet

\* The rest of push_deferred, and the publish of a push.
Construct(t) ==
  /\ pc[t] = "construct"
  /\ blocks' = [blocks EXCEPT ![prod.blk].slots[prod.off] = Head(reg[t].run)]
  /\ prod' = [prod EXCEPT !.off = @ + 1, !.count = @ + 1]
  /\ IF reg[t].kind = "push" THEN GoOn(t, "ring_publish") ELSE Return(t)
  /\ UNCHANGED <<cons, pushPub, popPub, gate>> /\ Quiet

RingPublish(t) ==
  /\ pc[t] = "ring_publish"
  /\ pushPub' = prod.count
  /\ EndPush(t)
  /\ Return(t)
  /\ UNCHANGED <<blocks, prod, cons, popPub, gate, hazardVars>>

-----------------------------------------------------------------------------
\* stream_gate::should_wait at a catch-up that reads as a stream, or not;
\* without a stream it waits only when a probe is due.
ProbeDue == gate.probe + 1 >= gate.every

GateStream ==
  LET open == Min({gate.open + 1, StayOpen}) IN
  gate' = [probe |-> 0, open |-> open, probing |-> FALSE,
           every |-> IF gate.open < StayOpen /\ open = StayOpen THEN ProbeEvery ELSE gate.every]

GateProbe ==
  gate' = [probe |-> 0, open |-> 0, probing |-> TRUE,
           every |-> IF gate.every < ProbeMax THEN 2 * gate.every ELSE gate.every]

GateClosed == gate' = [gate EXCEPT !.probe = @ + 1, !.open = 0, !.probing = FALSE]

\* The consumer ends the lent element and asks for the next one.
Release == IF cons.lent = <<>> THEN blocks
           ELSE [blocks EXCEPT ![cons.lent[1]].slots[cons.lent[2]] = Raw]
RingPop ==
  /\ blocks' = Release
  /\ cons' = [cons EXCEPT !.lent = <<>>]
  /\ UNCHANGED <<prod, pushPub, popPub, gate>>

RingLooks == IF cons.count = cons.cached THEN "load" ELSE "leave"
\* Mutant: the consumer slips before it has looked whether anything is there.
Load_NoLook(t) ==
  /\ pc[t] = "load"
  /\ GateStream
  /\ cons' = [cons EXCEPT !.cached = pushPub]
  /\ GoOn(t, "slip")
  /\ UNCHANGED <<callVars, blocks, prod, pushPub, popPub, hazardVars>>

\* Catching up: empty if the producer has published nothing more; else the
\* gate, and a batch already there lets the pop go on at once.
Load(t) ==
  /\ pc[t] = "load"
  /\ IF pushPub = cons.count
     THEN /\ EndPop(t) /\ Return(t) /\ UNCHANGED <<cons, gate>>
     ELSE /\ UNCHANGED callVars
          /\ \/ /\ ~ProbeDue /\ GateClosed
                /\ cons' = [cons EXCEPT !.cached = pushPub, !.batch = 1]
                /\ GoOn(t, "leave")
             \/ LET probing == gate'.probing
                    batch == IF probing /\ cons.batch < 2 THEN 2 ELSE cons.batch
                    delta == pushPub - cons.count IN
                /\ GateStream \/ (ProbeDue /\ GateProbe)
                /\ cons' = [cons EXCEPT !.cached = pushPub,
                     !.batch = IF delta >= 2 * batch THEN Min({2 * batch, SlipMax}) ELSE batch]
                /\ GoOn(t, IF delta >= batch THEN "filled" ELSE "slip")
  /\ UNCHANGED <<blocks, prod, pushPub, popPub, hazardVars>>

\* One poll of the bounded wait; it ends when the batch has filled or when
\* the pauses run out, and the batch then halves.
Slip(t) ==
  LET full == pushPub - cons.count >= cons.batch IN
  /\ pc[t] = "slip"
  /\ \/ /\ GoOn(t, IF full THEN "filled" ELSE "slip")
        /\ cons' = [cons EXCEPT !.cached = pushPub]
        /\ UNCHANGED gate
     \/ /\ ~full
        /\ cons' = [cons EXCEPT !.cached = pushPub,
                                !.batch = IF @ > 1 THEN @ \div 2 ELSE @]
        /\ gate' = [gate EXCEPT !.probing = FALSE]
        /\ GoOn(t, "leave")
  /\ UNCHANGED <<blocks, prod, pushPub, popPub>> /\ Quiet

\* waited(true).
SlipFilled(t) ==
  /\ pc[t] = "filled"
  /\ gate' = [gate EXCEPT !.probing = FALSE]
  /\ GoOn(t, "leave")
  /\ UNCHANGED <<blocks, prod, cons, pushPub, popPub>> /\ Quiet

\* At the end of its block the consumer reads the way on, and only then
\* announces that it has left the block.
LeaveBlock(t) ==
  /\ pc[t] = "leave"
  /\ IF cons.off = Slots
     THEN /\ cons' = [cons EXCEPT !.blk = blocks[cons.blk].next, !.off = 0]
          /\ GoOn(t, "announce")
     ELSE GoOn(t, "ring_take") /\ UNCHANGED cons
  /\ UNCHANGED <<blocks, prod, pushPub, popPub, gate>> /\ Quiet

Announce(t) ==
  /\ pc[t] = "announce"
  /\ popPub' = cons.count
  /\ GoOn(t, "ring_take")
  /\ UNCHANGED <<blocks, prod, cons, pushPub, gate>> /\ Quiet

\* consume moves the element out and ends it; try_pop_borrow lends it.
RingTake(t) ==
  LET at == <<cons.blk, cons.off>>
      lend == reg[t].kind = "borrow" IN
  /\ pc[t] = "ring_take"
  /\ Take(t, blocks[at[1]].slots[at[2]])
  /\ blocks' = IF lend THEN blocks ELSE [blocks EXCEPT ![at[1]].slots[at[2]] = Raw]
  /\ cons' = [cons EXCEPT !.off = @ + 1, !.count = @ + 1, !.lent = IF lend THEN at ELSE <<>>]
  /\ GoOn(t, "ring_done")
  /\ UNCHANGED <<prod, pushPub, popPub, gate, hazardVars>>

RingDone(t) ==
  /\ pc[t] = "ring_done"
  /\ EndPop(t)
  /\ Return(t)
  /\ UNCHANGED <<ringVars, hazardVars>>

RingStep(t) ==
  \/ TurnOver(t) \/ InsertBlock(t) \/ Construct(t) \/ RingPublish(t)
  \/ Load(t) \/ Slip(t) \/ SlipFilled(t) \/ LeaveBlock(t) \/ Announce(t)
  \/ RingTake(t) \/ RingDone(t)

\* ~spsc_ring: the slots from the consumer's position to the producer's,
\* along the path the consumer would take.
RECURSIVE RingRest(_, _, _)
RingRest(b, off, n) ==
  IF n = 0 THEN {}
  ELSE IF off = Slots THEN RingRest(blocks[b].next, 0, n)
  ELSE {blocks[b].slots[off]} \cup RingRest(b, off + 1, n - 1)

\* The blocks the destructor's walk around the ring deletes.
RECURSIVE RingBlocks(_, _)
RingBlocks(b, seen) == IF b \in seen THEN seen ELSE RingBlocks(blocks[b].next, seen \cup {b})
=============================================================================
