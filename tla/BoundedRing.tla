----------------------------- MODULE BoundedRing -----------------------------
(***************************************************************************)
(* runtime/bounded_ring.hpp, one action per atomic step of its operations. *)
(*                                                                         *)
(* Tickets are kept unwrapped (Start, Start + 1, ...) and every comparison *)
(* the code makes of them is made modulo Mod, which stands for 2^32.       *)
(* "head" and "tail" are head_ and tail_ of the split layout and the two   *)
(* halves of state_ of the packed one.                                     *)
(***************************************************************************)
EXTENDS Integers, Sequences, FiniteSets

CONSTANTS
  Threads,    \* every thread that uses the ring
  Producers,  \* those that push
  Consumers,  \* those that pop
  Sizers,     \* those that ask for the size or reset the overrun count
  Builds,     \* the constructor's flags: [overrun, batches, mp, mc]
  Cap,        \* cap_
  R,          \* mask_ + 1
  Mod,        \* the number of tickets before they wrap
  Start,      \* tickets pushed and popped before the behaviour starts
  BatchSizes, \* the sizes asked of a batch
  MaxCalls,   \* calls made in a behaviour
  NoElem, NoThread

\* The least power of two at or above the capacity, and at least two.
ringSize(c) ==
  CHOOSE r \in {2^n : n \in 1..30} :
    r >= c /\ \A q \in {2^n : n \in 1..30} : q >= c => r <= q

ASSUME ConstantAssumption ==
  /\ Producers \subseteq Threads
  /\ Consumers \subseteq Threads
  /\ Sizers \subseteq Threads
  /\ Builds \subseteq [overrun : BOOLEAN, batches : BOOLEAN,
                       mp : BOOLEAN, mc : BOOLEAN]
  /\ BatchSizes \subseteq Nat
  /\ MaxCalls \in Nat
  /\ NoThread \notin Threads

ASSUME FiniteThreads == IsFiniteSet(Threads)

ASSUME CapAssumption ==
  /\ Cap \in Nat /\ Start \in Nat
  /\ R \in Nat /\ R >= 2 /\ R >= Cap
  /\ Mod \in Nat /\ Mod % 2 = 0 /\ Mod >= 4 * Cap /\ Mod >= 4

ASSUME RingSizeAssumption == R = ringSize(Cap) /\ Mod % R = 0

VARIABLES
  build,      \* the const members set by the constructor
  head, tail, \* tickets popped and pushed
  seen,       \* tail_seen_
  cells,      \* cells_[i]: sequence number and element
  overruns,   \* overruns_
  producer, consumer,  \* the thread that claimed a single side
  pc, reg,    \* where each thread is, and its local variables
  calls,      \* calls made so far
  call,       \* the operation each thread is in, as BoundedQueue sees it
  log,        \* history: element of every ticket pushed from Start on
  dropped     \* history: elements removed by overruns since the last reset

vars == <<build, head, tail, seen, cells, overruns, producer, consumer,
          pc, reg, calls, call, log, dropped>>

counters == <<head, tail, seen>>
store    == <<cells, overruns, dropped>>
fixed    == <<build, producer, consumer, calls>>

Elem == Producers \X (1..MaxCalls) \X Nat

ASSUME NoElemAssumption == NoElem \notin Elem

packed == build.overrun \/ build.batches
mp     == build.mp \/ build.overrun
mc     == build.mc \/ build.overrun

Diff(a, b) == (a - b) % Mod              \* uint32_t difference
Same(a, b) == Diff(a, b) = 0             \* uint32_t equality
Half       == Mod \div 2
\* static_cast<int32_t>(a - b) <= 0
NotAhead(a, b) == Diff(a, b) = 0 \/ Diff(a, b) >= Half

Cell(t) == t % R

\* The elements of the tickets from a up to but not including b.
Between(a, b) == [i \in 1..(b - a) |-> log[a - Start + i]]

BQ == INSTANCE BoundedQueue WITH Elems <- Elem, queue <- Between(head, tail)

\* Locals: the copies of head and tail, the tickets claimed (from t on for
\* the fills, from h on for the takes), how many and how many are done, and
\* the elements taken out of the cells.
Claimed(h, t, k) == [h |-> h, t |-> t, k |-> k, j |-> 0, out |-> <<>>]

NoReg == Claimed(0, 0, 0)

Init ==
  /\ build \in Builds
  /\ head = Start /\ tail = Start /\ seen = Start
  /\ cells = [i \in 0..(R - 1) |->
                [seq |-> Start + ((i - Start) % R), elem |-> NoElem]]
  /\ overruns = 0 /\ dropped = 0
  /\ producer = NoThread /\ consumer = NoThread
  /\ pc = [p \in Threads |-> "idle"]
  /\ reg = [p \in Threads |-> NoReg]
  /\ calls = 0
  /\ call = [p \in Threads |-> BQ!Idle]
  /\ log = <<>>

Goto(p, l) == pc' = [pc EXCEPT ![p] = l]

\* Tickets do not come round: no thread's copy of a counter, and no cell, is
\* overtaken by half of all tickets.
Window(h, t) ==
  /\ \A i \in DOMAIN cells : t - cells[i].seq < Half
  /\ \A p \in Threads :
       /\ pc[p] \in {"push_head", "push_again", "push_claim", "pop_note", "cas"} =>
            t - reg[p].t < Half
       /\ pc[p] \in {"pop_seen", "pop_tail", "pop_note", "pop_claim",
                     "size_tail", "size_again", "cas"} =>
            h - reg[p].h < Half

-----------------------------------------------------------------------------
(* The calls. A single side is used by one thread only: the first that     *)
(* comes (claim).                                                          *)

Call(p, op, es, n, l) ==
  /\ pc[p] = "idle" /\ calls < MaxCalls
  /\ calls' = calls + 1
  /\ call' = [call EXCEPT ![p] = BQ!Called(op, es, n, tail - head)]
  /\ Goto(p, l)
  /\ UNCHANGED <<build, counters, store, reg, log>>

claim(side, p) == side \in {NoThread, p}

Sizes == IF build.batches THEN BatchSizes ELSE {1}

NewElems(p, n) == [j \in 1..n |-> <<p, calls + 1, j>>]

\* try_push, and try_push_n on a ring with batches.
CallPush(p) ==
  /\ p \in Producers
  /\ mp \/ claim(producer, p)
  /\ producer' = IF mp THEN producer ELSE p
  /\ \E n \in Sizes :
       Call(p, "push", NewElems(p, n), n, IF packed THEN "load" ELSE "push_tail")
  /\ UNCHANGED consumer

\* push_overrun; at capacity zero it only counts.
CallOverrun(p) ==
  /\ p \in Producers /\ build.overrun
  /\ Call(p, "overrun", NewElems(p, 1), 1, IF Cap = 0 THEN "count" ELSE "load")
  /\ UNCHANGED <<producer, consumer>>

\* consume, and consume_n on a ring with batches.
CallPop(p) ==
  /\ p \in Consumers
  /\ mc \/ claim(consumer, p)
  /\ consumer' = IF mc THEN consumer ELSE p
  /\ \E n \in Sizes :
       Call(p, "pop", <<>>, n, IF packed THEN "load" ELSE "pop_head")
  /\ UNCHANGED producer

CallSize(p) ==
  /\ p \in Sizers
  /\ Call(p, "size", <<>>, 0, IF packed THEN "load" ELSE "size_head")
  /\ UNCHANGED <<producer, consumer>>

\* Threads whose overrun has removed an element it has not counted yet.
Uncounted == {p \in Threads : /\ call[p].op = "overrun" /\ Cap > 0
                              /\ pc[p] \in {"take", "move", "count"}}

reset_overrun_counter(p) ==
  /\ p \in Sizers /\ build.overrun
  /\ pc[p] = "idle" /\ calls < MaxCalls
  /\ calls' = calls + 1
  /\ overruns' = 0 /\ dropped' = Cardinality(Uncounted)
  /\ UNCHANGED <<build, producer, consumer, counters, cells, pc, reg, call, log>>

-----------------------------------------------------------------------------
(* Effects and returns. *)

\* The operation is refused, or answers num, and changes nothing.
Answer(p, num) ==
  /\ call' = [call EXCEPT ![p] = BQ!Effected(@, num, <<>>)]
  /\ reg' = [reg EXCEPT ![p] = NoReg]
  /\ Goto(p, "done")

\* The step that moves the counters to h and t: the operation's effect.
Take(p, h, t, num) ==
  /\ Window(h, t)
  /\ head' = h /\ tail' = t
  /\ log' = log \o SubSeq(call[p].es, 1, t - tail)
  /\ call' = [BQ!Witness(call, t - h) EXCEPT
                ![p] = BQ!Effected(call[p], num,
                         IF call[p].op = "pop" THEN Between(head, h) ELSE <<>>)]

\* Round the loop again: the locals are read afresh.
Restart(p, l) ==
  /\ reg' = [reg EXCEPT ![p] = NoReg]
  /\ Goto(p, l)
  /\ UNCHANGED call

Return(p) ==
  /\ pc[p] = "done"
  /\ Goto(p, "idle")
  /\ reg' = [reg EXCEPT ![p] = NoReg]
  /\ call' = [call EXCEPT ![p] = BQ!Idle]
  /\ UNCHANGED <<fixed, counters, store, log>>

-----------------------------------------------------------------------------
(* Split layout. *)

PushReadTail(p) ==
  /\ pc[p] = "push_tail"
  /\ reg' = [reg EXCEPT ![p].t = tail]
  /\ Goto(p, "push_head")
  /\ UNCHANGED <<fixed, counters, store, call, log>>

\* Mutant: one element too many.
PushReadHead_OffByOne(p) ==
  /\ pc[p] = "push_head"
  /\ reg' = [reg EXCEPT ![p].h = head]
  /\ Goto(p, IF Diff(reg[p].t, head) > Cap THEN "push_again" ELSE "push_claim")
  /\ UNCHANGED <<fixed, counters, store, call, log>>

PushReadHead(p) ==
  /\ pc[p] = "push_head"
  /\ reg' = [reg EXCEPT ![p].h = head]
  /\ Goto(p, IF Diff(reg[p].t, head) >= Cap THEN "push_again" ELSE "push_claim")
  /\ UNCHANGED <<fixed, counters, store, call, log>>

\* Mutant: refuses on the two reads alone.
PushReadTailAgain_NoReread(p) ==
  /\ pc[p] = "push_again"
  /\ Answer(p, 0)
  /\ UNCHANGED <<fixed, counters, store, log>>

\* Full by the two reads: refused only if tail is still where it was.
PushReadTailAgain(p) ==
  /\ pc[p] = "push_again"
  /\ IF Same(tail, reg[p].t)
     THEN Answer(p, 0)
     ELSE Restart(p, "push_tail")
  /\ UNCHANGED <<fixed, counters, store, log>>

PushTake(p) ==
  /\ Take(p, head, reg[p].t + 1, 1)
  /\ reg' = [reg EXCEPT ![p] = Claimed(0, reg[p].t, 1)]
  /\ Goto(p, "fill")
  /\ UNCHANGED <<fixed, seen, store>>

PushStore(p) == pc[p] = "push_claim" /\ ~mp /\ PushTake(p)

PushCas(p) == pc[p] = "push_claim" /\ mp /\ Same(tail, reg[p].t) /\ PushTake(p)

\* compare_exchange_weak fails, perhaps spuriously.
PushCasFails(p) ==
  /\ pc[p] = "push_claim" /\ mp
  /\ Restart(p, "push_tail")
  /\ UNCHANGED <<fixed, counters, store, log>>

PopReadHead(p) ==
  /\ pc[p] = "pop_head"
  /\ reg' = [reg EXCEPT ![p].h = head]
  /\ Goto(p, "pop_seen")
  /\ UNCHANGED <<fixed, counters, store, call, log>>

PopReadSeen(p) ==
  /\ pc[p] = "pop_seen"
  /\ Goto(p, IF NotAhead(seen, reg[p].h) THEN "pop_tail" ELSE "pop_claim")
  /\ UNCHANGED <<fixed, counters, store, reg, call, log>>

PopReadTail(p) ==
  /\ pc[p] = "pop_tail"
  /\ reg' = [reg EXCEPT ![p].t = tail]
  /\ Goto(p, "pop_note")
  /\ UNCHANGED <<fixed, counters, store, call, log>>

\* Stores the tail it read for later pops; refused if there is none by it.
PopNoteTail(p) ==
  /\ pc[p] = "pop_note"
  /\ seen' = reg[p].t
  /\ IF Same(reg[p].h, reg[p].t)
     THEN Answer(p, 0)
     ELSE Goto(p, "pop_claim") /\ UNCHANGED <<reg, call>>
  /\ UNCHANGED <<fixed, head, tail, store, log>>

PopTake(p) ==
  /\ Take(p, reg[p].h + 1, tail, 1)
  /\ reg' = [reg EXCEPT ![p] = Claimed(reg[p].h, 0, 1)]
  /\ Goto(p, "take")
  /\ UNCHANGED <<fixed, seen, store>>

PopStore(p) == pc[p] = "pop_claim" /\ ~mc /\ PopTake(p)

PopCas(p) == pc[p] = "pop_claim" /\ mc /\ Same(head, reg[p].h) /\ PopTake(p)

PopCasFails(p) ==
  /\ pc[p] = "pop_claim" /\ mc
  /\ Restart(p, "pop_head")
  /\ UNCHANGED <<fixed, counters, store, log>>

SizeReadHead(p) ==
  /\ pc[p] = "size_head"
  /\ reg' = [reg EXCEPT ![p].h = head]
  /\ Goto(p, "size_tail")
  /\ UNCHANGED <<fixed, counters, store, call, log>>

SizeReadTail(p) ==
  /\ pc[p] = "size_tail"
  /\ reg' = [reg EXCEPT ![p].t = tail]
  /\ Goto(p, "size_again")
  /\ UNCHANGED <<fixed, counters, store, call, log>>

SizeReadHeadAgain(p) ==
  /\ pc[p] = "size_again"
  /\ IF Same(head, reg[p].h)
     THEN Answer(p, Diff(reg[p].t, reg[p].h))
     ELSE Restart(p, "size_head")
  /\ UNCHANGED <<fixed, counters, store, log>>

-----------------------------------------------------------------------------
(* Packed layout: one word holds both counters. A compare-and-swap that    *)
(* fails has loaded the word again, so it is examined as after the load.   *)

Refused(p, used) ==
  \/ call[p].op = "push" /\ (call[p].n = 0 \/ used >= Cap)
  \/ call[p].op = "pop" /\ (call[p].n = 0 \/ used = 0)

\* How many elements the operation is about to push or pop.
Share(p, used) ==
  CASE call[p].op = "push" -> BQ!LeastOf(call[p].n, Cap - used)
    [] call[p].op = "pop"  -> BQ!LeastOf(call[p].n, used)
    [] OTHER               -> 1

Examine(p) ==
  LET used == Diff(tail, head) IN
  /\ \/ /\ call[p].op = "size" \/ Refused(p, used)
        /\ Answer(p, IF call[p].op = "size" THEN used ELSE 0)
     \/ /\ call[p].op # "size" /\ ~Refused(p, used)
        /\ reg' = [reg EXCEPT ![p].h = head, ![p].t = tail, ![p].k = Share(p, used)]
        /\ Goto(p, "cas") /\ UNCHANGED call
  /\ UNCHANGED <<fixed, counters, store, log>>

LoadState(p) == pc[p] = "load" /\ Examine(p)

StateCasFails(p) == pc[p] = "cas" /\ Examine(p)

StateCas(p, op, h, t, num, l) ==
  /\ pc[p] = "cas" /\ call[p].op = op
  /\ Same(head, reg[p].h) /\ Same(tail, reg[p].t)
  /\ Take(p, h, t, num)
  /\ Goto(p, l)
  /\ UNCHANGED <<fixed, seen, cells, overruns, reg>>

\* Mutant: a batch claimed by a compare-and-swap of tail alone.
PackedPush_TailOnly(p) ==
  /\ pc[p] = "cas" /\ call[p].op = "push" /\ Same(tail, reg[p].t)
  /\ Take(p, head, reg[p].t + reg[p].k, reg[p].k)
  /\ Goto(p, "fill")
  /\ UNCHANGED <<fixed, seen, cells, overruns, reg, dropped>>

PackedPush(p) ==
  /\ StateCas(p, "push", reg[p].h, reg[p].t + reg[p].k, reg[p].k, "fill")
  /\ UNCHANGED dropped

PackedPop(p) ==
  /\ StateCas(p, "pop", reg[p].h + reg[p].k, reg[p].t, reg[p].k, "take")
  /\ UNCHANGED dropped

Full(p) == Diff(reg[p].t, reg[p].h) >= Cap

\* Takes the oldest element's ticket and its own at once.
PackedOverrun(p) ==
  \/ /\ Full(p)
     /\ StateCas(p, "overrun", reg[p].h + 1, reg[p].t + 1, 1, "take")
     /\ dropped' = dropped + 1
  \/ /\ ~Full(p)
     /\ StateCas(p, "overrun", reg[p].h, reg[p].t + 1, 0, "fill")
     /\ UNCHANGED dropped

-----------------------------------------------------------------------------
(* The cells. A thread at "construct" or "move" touches its cell's element *)
(* with plain reads and writes.                                            *)

\* Mutant: does not wait for the previous lap's pop.
FillWait_NoWait(p) ==
  /\ pc[p] = "fill"
  /\ Goto(p, "construct")
  /\ UNCHANGED <<fixed, counters, store, reg, call, log>>

\* fill: wait for the previous lap's pop to have emptied the cell.
FillWait(p) ==
  /\ pc[p] = "fill"
  /\ Same(cells[Cell(reg[p].t)].seq, reg[p].t)
  /\ Goto(p, "construct")
  /\ UNCHANGED <<fixed, counters, store, reg, call, log>>

Filled(p) ==
  /\ cells' = [cells EXCEPT ![Cell(reg[p].t)] =
                 [seq |-> reg[p].t + 1, elem |-> call[p].es[reg[p].j + 1]]]
  /\ Goto(p, IF reg[p].j + 1 < reg[p].k THEN "fill" ELSE "done")

FillEnd(p) ==
  /\ pc[p] = "construct"
  /\ Filled(p)
  /\ reg' = [reg EXCEPT ![p].t = reg[p].t + 1, ![p].j = reg[p].j + 1]
  /\ UNCHANGED <<fixed, counters, overruns, dropped, call, log>>

\* take: wait for the ticket's push to have filled the cell.
TakeWait(p) ==
  /\ pc[p] = "take"
  /\ Same(cells[Cell(reg[p].h)].seq, reg[p].h + 1)
  /\ Goto(p, "move")
  /\ UNCHANGED <<fixed, counters, store, reg, call, log>>

\* Mutants: frees the cell for the wrong ticket; leaves the element behind.
Emptied_Mask(p) ==
  cells' = [cells EXCEPT ![Cell(reg[p].h)] = [seq |-> reg[p].h + R - 1, elem |-> NoElem]]
Emptied_Undestroyed(p) ==
  cells' = [cells EXCEPT ![Cell(reg[p].h)].seq = reg[p].h + R]

Emptied(p) ==
  cells' = [cells EXCEPT ![Cell(reg[p].h)] = [seq |-> reg[p].h + R, elem |-> NoElem]]

\* A pop hands its element out, an overrun lets it go.
TakeEnd(p) ==
  /\ pc[p] = "move"
  /\ Emptied(p)
  /\ \/ /\ call[p].op = "pop"
        /\ reg' = [reg EXCEPT ![p].h = reg[p].h + 1, ![p].j = reg[p].j + 1,
                       ![p].out = Append(reg[p].out, cells[Cell(reg[p].h)].elem)]
        /\ Goto(p, IF reg[p].j + 1 < reg[p].k THEN "take" ELSE "done")
     \/ /\ call[p].op = "overrun"
        /\ Goto(p, "count")
        /\ UNCHANGED reg
  /\ UNCHANGED <<fixed, counters, overruns, dropped, call, log>>

\* Mutant: the overrun that removed an element does not count it.
CountOverrun_Lost(p) ==
  /\ pc[p] = "count"
  /\ UNCHANGED overruns
  /\ \/ Cap = 0 /\ Answer(p, 1) /\ dropped' = dropped + 1
     \/ Cap > 0 /\ Goto(p, "fill") /\ UNCHANGED <<reg, call, dropped>>
  /\ UNCHANGED <<fixed, counters, cells, log>>

CountOverrun(p) ==
  /\ pc[p] = "count"
  /\ overruns' = overruns + 1
  /\ \/ Cap = 0 /\ Answer(p, 1) /\ dropped' = dropped + 1
     \/ Cap > 0 /\ Goto(p, "fill") /\ UNCHANGED <<reg, call, dropped>>
  /\ UNCHANGED <<fixed, counters, cells, log>>

-----------------------------------------------------------------------------
Calls(p) == CallPush(p) \/ CallOverrun(p) \/ CallPop(p) \/ CallSize(p)
              \/ reset_overrun_counter(p)

SplitStep(p) ==
  \/ PushReadTail(p) \/ PushReadHead(p) \/ PushReadTailAgain(p)
  \/ PushStore(p) \/ PushCas(p) \/ PushCasFails(p)
  \/ PopReadHead(p) \/ PopReadSeen(p) \/ PopReadTail(p) \/ PopNoteTail(p)
  \/ PopStore(p) \/ PopCas(p) \/ PopCasFails(p)
  \/ SizeReadHead(p) \/ SizeReadTail(p) \/ SizeReadHeadAgain(p)

PackedStep(p) ==
  LoadState(p) \/ StateCasFails(p) \/ PackedPush(p) \/ PackedPop(p) \/ PackedOverrun(p)

CellStep(p) ==
  FillWait(p) \/ FillEnd(p) \/ TakeWait(p) \/ TakeEnd(p) \/ CountOverrun(p) \/ Return(p)

Step(p) == SplitStep(p) \/ PackedStep(p) \/ CellStep(p)

Next == \E p \in Threads : Calls(p) \/ Step(p)

\* A thread in a call keeps running, and a weak compare-and-swap that could
\* succeed again and again does not fail spuriously for ever. No thread is
\* obliged to call.
Fairness == \A p \in Threads : /\ WF_vars(Step(p))
                               /\ SF_vars(PushCas(p)) /\ SF_vars(PopCas(p))

Spec == Init /\ [][Next]_vars

FairSpec == Spec /\ Fairness

-----------------------------------------------------------------------------
(* Properties. *)

PCs == {"idle", "push_tail", "push_head", "push_again", "push_claim",
        "pop_head", "pop_seen", "pop_tail", "pop_note", "pop_claim",
        "size_head", "size_tail", "size_again", "load", "cas",
        "fill", "construct", "take", "move", "count", "done"}

Registers(E) == [h : Nat, t : Nat, k : Nat, j : Nat, out : Seq(E)]

CallRecords == [op : BQ!Ops, st : {"idle", "pending", "effected"},
                es : Seq(Elem), n : Nat, lens : SUBSET (0..Cap), num : Nat,
                got : Seq(Elem)]

\* Every variable has its type, where a pop has moved out members of E.
Typed(E) ==
  /\ build \in Builds
  /\ head \in Nat /\ tail \in Nat /\ seen \in Nat
  /\ cells \in [0..(R - 1) -> [seq : Nat, elem : Elem \cup {NoElem}]]
  /\ overruns \in Nat /\ dropped \in Nat
  /\ producer \in Threads \cup {NoThread} /\ consumer \in Threads \cup {NoThread}
  /\ pc \in [Threads -> PCs]
  /\ reg \in [Threads -> Registers(E)]
  /\ calls \in 0..MaxCalls
  /\ call \in [Threads -> CallRecords]
  /\ log \in Seq(Elem)

\* The queue never holds more than its capacity nor less than nothing,
\* whatever pushes and pops are in flight (the contract's first point).
ExactCapacity == tail - head \in 0..Cap

\* Two threads never construct in or move out of the same cell at once:
\* the sequence numbers hand a cell from one to the next.
CellExclusive ==
  \A p, q \in Threads :
    LET at(x) == Cell(IF pc[x] = "move" THEN reg[x].h ELSE reg[x].t)
    IN  (/\ p # q /\ pc[p] \in {"construct", "move"}
         /\ pc[q] \in {"construct", "move"}) => at(p) # at(q)

\* What the destructor relies on: with no operation under way, the cells
\* of the tickets from head to tail hold elements, and no other cell does.
QuiescentCells ==
  (\A p \in Threads : pc[p] = "idle") =>
    \A i \in 0..(R - 1) :
      (cells[i].elem # NoElem) <=> (\E t \in head..(tail - 1) : Cell(t) = i)

HoldsTicket(p) == pc[p] \in {"fill", "construct", "take", "move", "count"}
Waits(p) ==
  \/ pc[p] = "fill" /\ ~Same(cells[Cell(reg[p].t)].seq, reg[p].t)
  \/ pc[p] = "take" /\ ~Same(cells[Cell(reg[p].h)].seq, reg[p].h + 1)

\* A wait for a cell is on operations already in progress (the comment's
\* lines 50-51): while a thread waits, some thread that holds a ticket can go
\* on, whatever the threads that have none do.
WaitsOnInProgress ==
  \A p \in Threads : Waits(p) =>
    \E q \in Threads : HoldsTicket(q) /\ ~Waits(q)

\* The overrun count is exact up to the overruns in flight, each of which
\* has removed its element and is about to count it.
OverrunCount == overruns + Cardinality(Uncounted) = dropped

\* The elements a pop hands out are those of the tickets it took: the ones
\* that were oldest at its effect, in order, whichever pushes filled them.
HandsOutOldest ==
  \A p \in Threads :
    pc[p] = "done" /\ call[p].op = "pop" => reg[p].out = call[p].got

\* Every operation takes effect as on a sequential bounded queue, at one
\* step within its call: exact refusals, FIFO over all producers, adjacent
\* batches, an overrun that removes one element and appends one, and an
\* exact size.
Linearisable == BQ!QSpec

\* Every operation returns: a ticket's wait for a cell is on an operation
\* already in progress, never on one that has not started.
CallsReturn == \A p \in Threads : pc[p] # "idle" ~> pc[p] = "idle"
=============================================================================
