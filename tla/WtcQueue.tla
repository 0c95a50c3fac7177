------------------------------ MODULE WtcQueue ------------------------------
(***************************************************************************)
(* wtc::queue (src/shim/queue.hpp): the constructor's tag selects one of   *)
(* the implementations, every call is dispatched to it, deferred pushes    *)
(* are collected into runs, and the destructor ends what is left once all  *)
(* threads have made their last call.  The threads of an execution are the *)
(* ones the tag's contract admits, which is what the compiler proves.      *)
(* Waking sleeping consumers is the business of module Waiter.             *)
(***************************************************************************)
EXTENDS SegmentQueue, SpmcQueue, SpscRing

CONSTANTS Program,   \* Program[tag][t]: the calls thread t makes
          BatchK     \* WTC_BATCH_K

VARIABLES pending,   \* pending[p]: elements deferred and not published
          ended      \* the destructor's account: whether it ran, what it ended

vars == <<callVars, hazardVars, threadVars, segVars, filled, ringVars, pending, ended>>

Ring == tag \in {"spsc", "spsc_inline"}
Segmented == tag \in {"generic", "mpsc"}

Init ==
  /\ tag \in DOMAIN Program
  /\ todo = Program[tag]
  /\ pc = [t \in Records |-> IF todo[t] = <<>> THEN "gone" ELSE "idle"]
  /\ reg = [t \in Records |-> NoReg]
  /\ pending = [p \in Producers |-> <<>>]
  /\ ended = [done |-> FALSE, rest |-> {}]
  /\ filled = 0
  /\ CallsInit /\ HazardInit(IF Ring THEN {} ELSE {1}) /\ MemInit /\ OneInit /\ RingInit

-----------------------------------------------------------------------------
\* The next call of t.
Call(t, op) == pc[t] = "idle" /\ todo[t] # <<>> /\ Head(todo[t]).op = op
Called(t) == todo' = [todo EXCEPT ![t] = Tail(@)]

\* t enters an implementation's step p with a run of elements in hand.
Enter(t, p, run, kind) ==
  /\ pc' = [pc EXCEPT ![t] = p]
  /\ reg' = [reg EXCEPT ![t].run = run, ![t].kind = kind]
  /\ Called(t)
  /\ UNCHANGED <<tag, hazardVars, segVars, filled, ended>>

\* Where an element goes: into the ring's next slot, the spmc queue's next
\* cell, or with a run of the segmented queues.
Entry == IF Ring THEN IF prod.off = Slots THEN "turn" ELSE "construct"
         ELSE IF tag = "spmc" THEN "spmc_place" ELSE "read"

Push(t) ==
  /\ Call(t, "push")
  /\ StartPush(t, Head(todo[t]).e)
  /\ Enter(t, Entry, <<Head(todo[t]).e>>, "push")
  /\ UNCHANGED <<pending, ringVars>>

\* push_deferred publishes by itself every BatchK elements.
PushDeferred(t) ==
  LET e == Head(todo[t]).e
      run == Append(pending[t], e)
      due == Len(run) = BatchK IN
  /\ Call(t, "defer")
  /\ StartPush(t, e)
  /\ pending' = [pending EXCEPT ![t] = IF due THEN <<>> ELSE run]
  /\ IF ~Segmented THEN Enter(t, Entry, <<e>>, IF due THEN "push" ELSE "defer")
     ELSE IF due THEN Enter(t, "read", run, "push")
     ELSE Enter(t, "idle", <<>>, "push")
  /\ UNCHANGED ringVars

\* batch_end: nothing to do for a segmented queue whose run is empty.
BatchEnd(t) ==
  /\ Call(t, "end")
  /\ pending' = [pending EXCEPT ![t] = <<>>]
  /\ IF Ring THEN Enter(t, "ring_publish", <<>>, "push")
     ELSE IF tag = "spmc" THEN Enter(t, "spmc_publish", <<>>, "push")
     ELSE IF pending[t] = <<>> THEN Enter(t, "idle", <<>>, "push")
     ELSE Enter(t, "read", pending[t], "push")
  /\ UNCHANGED <<callVars, ringVars>>

\* try_pop(T&) moves the element out on every tag; try_pop() borrows it
\* under spsc_inline.
Kinds == IF tag = "spsc_inline" THEN {"move", "borrow"} ELSE {"move"}

Pop(t) ==
  /\ Call(t, "pop")
  /\ StartPop(t)
  /\ \E kind \in Kinds : Enter(t, IF Ring THEN RingLooks ELSE Again, <<>>, kind)
  /\ IF Ring THEN RingPop ELSE UNCHANGED ringVars
  /\ UNCHANGED pending

\* A thread that has made its last call ends: its hazard record's slots are
\* cleared and what it retired is scanned once more.
ThreadEnds(t) ==
  /\ pc[t] = "idle" /\ todo[t] = <<>>
  /\ Leave(t)
  /\ GoOn(t, "leaving")
  /\ UNCHANGED <<callVars, segVars, filled, ringVars, pending, ended>>

\* The destructor runs after every thread's last call.
Destroy ==
  /\ \A t \in Records : pc[t] = "gone"
  /\ ~ended.done
  /\ \/ /\ Segmented
        /\ ended' = [done |-> TRUE, rest |-> SegmentElements]
        /\ live' = live \ SegmentsFrom(head) /\ UNCHANGED ringVars
     \/ /\ tag = "spmc"
        /\ ended' = [done |-> TRUE, rest |-> SpmcRest(head, seg[head].deq)]
        /\ live' = live \ SegmentsFrom(head) /\ UNCHANGED ringVars
     \/ /\ Ring
        /\ ended' = [done |-> TRUE, rest |-> RingRest(cons.blk, cons.off, prod.count - cons.count)]
        /\ live' = {} /\ RingPop
  /\ UNCHANGED <<callVars, ptr, slot, retired, unread, held, stale, threadVars, segVars, filled,
                 pending>>

ThreadStep(t) ==
  \/ Push(t) \/ PushDeferred(t) \/ BatchEnd(t) \/ Pop(t) \/ ThreadEnds(t)
  \/ HazardStep(t) /\ UNCHANGED <<holes, walk, filled, ringVars, pending, ended>>
  \/ SegmentStep(t) /\ UNCHANGED <<filled, ringVars, pending, ended>>
  \/ SpmcStep(t) /\ UNCHANGED <<holes, walk, ringVars, pending, ended>>
  \/ RingStep(t) /\ UNCHANGED <<segVars, filled, pending, ended>>

Next ==
  \/ \E t \in Records : ThreadStep(t)
  \/ Destroy
  \/ ended.done /\ UNCHANGED vars

Spec == Init /\ [][Next]_vars

\* Every thread keeps taking steps, which the operating system's scheduler
\* provides; a wait that polls (slip, Await) is not a step that is taken
\* for ever without change.
FairSpec ==
  /\ Spec
  /\ \A t \in Records : WF_vars(ThreadStep(t))
  /\ WF_vars(Destroy)

-----------------------------------------------------------------------------
\* The steps at which a thread reads or writes through its segment pointer.
Dereference ==
  {"reserve", "fill", "giveup", "link", "deq", "enq", "last", "claim", "state",
   "patience", "await", "skip", "take", "follow", "spmc_deq", "spmc_seen", "spmc_enq",
   "spmc_tell", "spmc_claim", "spmc_take", "spmc_next"}

\* No thread reads or writes a segment that has been freed since it
\* protected it, even if the address is in use again (hazard.hpp protect,
\* scan and retire; held_head's slot kept between pops), and the single
\* consumer's unprotected holes never point into a retired segment.
NoUseAfterFree ==
  /\ \A t \in Records : pc[t] \in Dereference => t \notin stale /\ ptr[t] \in live
  /\ ~ended.done => \A h \in Range(holes) : h[1] \in live \ UNION Range(retired)

\* The queue keeps the promise its callers rely on, on every tag: nothing
\* lost, repeated or left behind, and empty only when it is (queue.hpp push
\* and try_pop through push_run, pop_many, pop_one, spmc pop and advance).
KeepsPromise == CallsSpec

\* The producer never builds an element over one the consumer has not
\* finished with, and a borrowed element stays what it was until the
\* consumer's next pop (turn_over's reuse of a drained block, advance's
\* announcement).
SlotsFree ==
  /\ \A t \in Producers :
       pc[t] = "construct" => blocks[prod.blk].slots[prod.off] = Raw
  /\ cons.lent # <<>> => blocks[cons.lent[1]].slots[cons.lent[2]] \in popped

\* The destructor ends exactly the elements pushed and never popped, and
\* frees every segment and block but the retired ones its threads left for
\* their records' next owners.
DestroysTheRest ==
  ended.done =>
    /\ ended.rest = returned \ popped
    /\ live = UNION Range(retired)
    /\ Ring => RingBlocks(cons.blk, {}) = 1..Len(blocks)
                 /\ \A b \in 1..Len(blocks) : \A i \in 0..Slots-1 :
                      blocks[b].slots[i] \in ended.rest \cup {Raw}

\* A single consumer waits for a batch only when it could already take an
\* element (spsc_ring.hpp slip, called with at least one published).
WaitsWithElement ==
  \A t \in Consumers : pc[t] \in {"slip", "filled", "leave", "announce", "ring_take"} =>
    cons.count < pushPub

\* Every call returns, so the threads end and the queue is destroyed: no
\* push or pop waits for ever for another (segment_queue.hpp's wait for a
\* reserved cell, the retries after a skipped cell, the ring's slip).
AllReturn == <>ended.done
=============================================================================
