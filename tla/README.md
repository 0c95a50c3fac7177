# WTC in TLA+

Models, model-checking runs and proofs for WTC: a compiler that proves which
threads use a queue and rewrites the program accordingly, and the lock-free
runtime the rewritten program runs on. Every definition is translated from
`src/`; `PROJECT.json` gives the lines each one stands for, the runs, the
mutants that show each property can fail, and the hazards behind them.

## The system and its models

| part of the system | code | modules |
|---|---|---|
| bounded ring | `runtime/bounded_ring.hpp` | `BoundedRing`, `BoundedQueue` (its promise); proofs in `BoundedRing{Steps,Tickets,Cells,Refinement,Proofs}` |
| eventcount | `runtime/waiter.hpp` | `Waiter`; proofs in `WaiterProofs` |
| hazard pointers | `runtime/hazard.hpp` | `Hazard` |
| segment queue, spmc queue, spsc ring, stream gate | `runtime/*.hpp` | `SegmentQueue`, `SpmcQueue`, `SpscRing` over `QueueThreads`; `QueueCalls` (their promise) |
| `wtc::queue` | `shim/queue.hpp` | `WtcQueue`, which composes the five above |
| `wtc::bounded`, the C queue | `shim/bounded.hpp`, `shim/c_queue.cpp` | `BoundedShim`; proofs in `BoundedShimProofs` |
| thread walk, ownership, specialisation | `ThreadInstances`, `QueueOwnershipAnalysis`, `WTCSpecialize` | `Code`, `ThreadWalk`, `Ownership`, `Specialise`; `Execution` and `Topology` run the result |
| lifting of locked C++ queues | `LiftLockedQueues`, `LiftedBounded`, `shim/lifted.hpp` | `RingReading`, `ValueSets`, `LockedClass`, `Lifting` |
| lifting of locked C queues | `LiftCQueues`, `shim/c_queue.cpp` | `CReading`, `CQueue`; `CMachine` runs the C |
| blocking query, batching, progress check | `Blocking`, `WTCBatchPushes`, `WTCCheckProgress`, `shim/mutex.hpp` | `Blocking`, `Batching` |
| borrow analysis | `WTCBorrowAnalysis` | `Borrow`, over the callees `Blocking` finds |
| all the rewrites in one specification | | `Rewrites` |

How they meet: the compiler finds queues, either written as `wtc::queue` or
lifted from a class that guards a container with a mutex (`Lifting`) or from a
C struct that guards a ring of pointers with one (`CQueue`). It
counts the threads on each side and writes a tag into the constructor
(`Topology`). The tag picks an implementation whose contract admits only those
threads (`WtcQueue`, `BoundedRing` through `BoundedShim`). Waiting pops and
pushes sleep on eventcounts (`Waiter`). Loops of pushes or of critical
sections may be batched (`Batching`). A queue with one consumer that only
borrows what it pops lends its elements in place (`Borrow`; `SpscRing` has the
borrowed pops).

### Runtime

`BoundedRing` has one action per atomic access of `try_push`, `push_overrun`,
`consume`, `try_push_n`, `consume_n` and `size`, for the split layout (`head_`
and `tail_`) and the packed one (`state_`). Tickets are kept unwrapped, and each
comparison the code makes is made modulo `Mod`, which stands for 2^32; `Start`
puts the first ticket just below the wrap. `BoundedQueue` is the sequential
queue under it: an operation takes effect at one step between its call and its
return, and a refusal or a size must be right at some instant of the call.

`Waiter` gives every thread a store buffer; stores, and read-modify-writes
whose result is unused, leave it at a fence or when the hardware likes. The
futex may return spuriously. The queue behind it is a number of elements.

`Hazard` and the three queue modules take their shared accesses in one total
order: sequential consistency. That is an assumption, weaker orderings of
these queues are not checked (only `Waiter`, whose argument is about them, has
store buffers). Addresses are reused as soon as they are free, so that a
stale pointer can look fresh. A model thread pushes or pops, not both, so
it uses one of its record's two slots. The consumer's bounded waits (`slip_one`,
the pauses of a streaming consumer) are looks taken later; the stream gate's
clock is a free choice. `QueueCalls` states the promise over starts and returns
of calls, which needs no linearisation point: an element ahead of a popped one
must be accounted for by pops already started, and so must every element whose
push had returned when a pop that answers empty started.

`BoundedShim` takes the ring as the sequence that `BoundedRing` implements,
and the eventcount's announcement and key as one step, as `Waiter` justifies.
It keeps everything else apart: both sides' sleeps and wake-ups, the C queue's
termination count, its counts of operations under way, and `destroy`. The
program that calls it keeps the contract of the original: it destroys the queue
once every other thread's last operation has had its effect.

### Compiler

`Code` is a translation unit as trees of statements, as far as the passes tell
programs apart. `ThreadWalk` is the breadth-first walk over call strings.
`Ownership` resolves each queue operation to places, loses what escapes, and
gives each queue its sides. `Specialise` picks the tag, fixed or read from a loop
bound when the queue is built. `Execution` (external: the program itself) runs
the unit on interleaving threads, with other units calling what they can name.
Its environment is what `QueueOwnershipAnalysis.cpp:64-76` states. Steps that
touch nothing shared are taken first.

`Lifting` reads a class as `LiftLockedQueues.cpp` does (`LockedClass`), with a
ring's functions read symbolically (`RingReading`) and the reachability of an
overrun decided by `ValueSets`. A class that lifts is then run as written, mutex,
condition variables and spurious wake-ups included, beside the substitute; each
call takes effect on the substitute where it lets the mutex go. What a policy
variable may really hold (`Held`) is worked out apart from the pass: the stores
that flow into it, and anything at all once its address is out, a callee writes
through it or a linked file can reach it (`WrittenElsewhere`).

`CQueue` does the same for C, whose functions carry no names to go by.
`CReading` is the pass's evaluator: every path through a function as canonical
expressions over the struct's members, with the members named anew after each
wait, helpers read in place, a `while` accepted as a wait and a `for` as a run of
moves between two rings. `Mutable`, `ReadAll`, `Classify` and `Confine` are the
steps of `analyse`: which members the operations write, the reading, what each
function is, and the tables that compare each with its operation and check who
wakes whom. `Lift` builds the substitute from the initialisation's arguments, and
`CMachine` (external: the program) runs the written functions on memory. A
function that lifts touches the queue only under its mutex, so a call is one
step from its start or a wake-up to its next wait or its return; a signal wakes
any one sleeper. The substitute's call is one step too, which `BoundedShim` and
`BoundedRing` justify.

`Batching` asks `Blocking` of each loop, rewrites it, and runs the program with a
consumer and a thread that wants the mutex once. What a call waits for is a
real wait in the model: for the consumer to have taken everything, or for the
other thread to have had the mutex. A label in a loop, which either pass refuses,
does nothing when the program runs.

`Borrow` looks at the queues of a unit one after the other, with the one
`BorrowChecker` the pass keeps: what it remembers of a parameter stays, what it
remembers of a function that may pop is dropped for each pop. The consumer is
then run. A pop of a lending queue ends the element the last one lent; the run
follows every slot, copy of a `shared_ptr` and pointer. The elements are plain
numbers: which member of `shared_ptr` a call names is given.

## Runs

| run | checks | size |
|---|---|---|
| `ring_calls` | capacity, cell hand-over, order, linearisability, cells left behind, waits, the overrun count: the split layout in four topologies, the packed one with overruns or batches | 3 threads, capacity 2, 4 calls, batches up to 2 |
| `ring_zero` | capacity zero, all layouts | 2 threads |
| `ring_live` | every ring call returns | 2 threads |
| `waiter_safety` | no lost wake-up, sleepers counted, no wait ends early by `close()` | 2 consumers, 2 producers |
| `waiter_live` | close releases, elements are served, limits hold | 2 consumers, 1 producer |
| `queue_segments` | promise, memory safety and destruction of the segmented queues | segments of 2 cells, 3 addresses |
| `queue_rings` | promise, slot reuse, bounded waits, termination; ring and retries | blocks of 2 slots |
| `bounded_shim` | destroy, termination, every call returns | 8 executions of up to 4 threads |
| `topology` | tags, recorded implementations, start-up, multiplicities, exclusive and counted threads, walk bound | 702 units |
| `rewrites` | lifted classes and C queues answer, wait and wake as written (`SameResults`, `SameWaits`, `NobodyAsleep`), batched loops behave as written; lock-free means lock-free; no lent element ends while it is held | 4 families of units; C queues: 9 that lift, 16 refused |
| `topology_launch` | expected violation of `CountedThreads` | 1 unit |
| `borrow_loop` | expected violation of `AlwaysAnswers` | 2 units |

The bounds. Two or three threads a side give every pairwise race and one
bystander; segments and blocks of two cells make every third operation cross
one; a ring of two cells makes every third ticket meet a cell again; `MaxCalls`
lets the tickets wrap and go round twice. The epoch wraps (`Epochs` = 8,
starting at 7), with fewer wake-ups in a run than its period: 2^32 wake-ups
between one announcement and its sleep are not excluded by the code, and not
modelled. A unit of the topology run has one queue, built in nine ways, and
two statements out of 26; three partners are paired with each. `MaxThreads`,
`MaxDepth` and `MaxLaps` bound what runs. Symmetry is used only in safety runs,
over threads no constant tells apart. A C queue has at most four threads and
three slots; rings of one slot, no producers or fewer, terminations too many and
limits below zero are among the units. An int made unsigned there wraps at 2^8
(`UnsignedSize`) instead of 2^32.

Deadlock is checked where a program has an end of its own to reach
(`queue_segments`, `queue_rings`, `bounded_shim`). Elsewhere the bounds on calls,
threads or laps, or a program that has ended, may leave nothing to do.

Fairness. Threads are scheduled: weak fairness of each thread's next step, of
the kernel's expiry of a limit, and of a store buffer draining, as hardware
does. `ring_live` also assumes that a weak compare-and-swap that is retried for
ever does not fail spuriously for ever. A sleep without a limit gets no fairness:
it ends only when something ends it.

### The expected violations

`topology_launch`: `spawnsOnce` (`ThreadInstances.cpp:1079`) counts DPDK's
`rte_eal_mp_remote_launch` as one spawn, so a launch in a counted loop is
credited to the loop, one thread per iteration, where `ThreadInstances.h` says such
a thread "stands for at most as many threads as the loop has iterations" and
`siteMult` knows that a launch is "one site, many threads".

`borrow_loop`: `checkPointer` (`WTCBorrowAnalysis.cpp:259-261`) follows a pointer
stored in a local to the loads of that local, one call deep as before, and keeps
no note of having been there. A pointer that is loaded, stepped and stored back
(`for (const char *p = x.get(); *p; ++p)`) leads it round for ever, where the
pass's comment (line 54) promises a verdict or a remark. The units of `rewrites`
have no such loop.

## Proofs

Three components are proved for every value of their constants: any number of
threads, any capacity, any number of calls, the ring's tickets coming round any
number of times. Each proof rests on an inductive invariant that TLC checked
first on the runs' instances.

### The bounded ring (`BoundedRingProofs`)

| theorem | of every behaviour of `BoundedRing` |
|---|---|
| `Capacity` | `ExactCapacity`: between none and `Cap` elements |
| `Exclusion` | `CellExclusive`: no two threads in one cell |
| `Oldest` | `HandsOutOldest`: a pop returns the oldest elements, in order |
| `Quiescence` | `QuiescentCells`: at rest, exactly the cells from `head` to `tail` hold elements |
| `Progress` | `WaitsOnInProgress`: whoever waits for a cell waits for somebody who can go on |
| `OverrunsCounted` | `OverrunCount`: the counter and the overruns in flight account for what was removed |
| `RingLinearisable` | `Linearisable`: the ring implements `BoundedQueue` |
| `Invariance`, `RingInvariance`, `LengthsNoted` | the invariants below |

The argument has three layers.

*Counters* (`IInv`, in `BoundedRingTickets`). `ExactCapacity` is not inductive: a
claim writes a tail computed from a head that was read earlier. `TypeInv` types
the registers. `Control` says which operation a thread is in at each step, and
that the two layouts' steps do not mix. `Copies` says that a copy of a counter is
never ahead of it and never half the ticket space behind, that a thread about to
claim a push has seen room, a pop an element, a batch enough of either, and that
a single producer's (consumer's) copy of its own counter is exact. In the split
layout `tail_seen_` is never more than half the ticket space behind `head`
(`CounterInv`), so the comparison with it modulo the ticket space is right: a pop
claims at `head` only with `tail_seen_` past it or a tail it has just noted there
(`SeenBehind`). The packed layout never writes `tail_seen_`. A claim that
succeeds then keeps the capacity, since the counter compared with has not moved
and the other can only have moved the right way. `BoundedRingSteps` takes every
step through types, control and counters.

*Cells* (`RingInv`, in `BoundedRingCells`). `TicketInv`: every ticket a thread has
claimed and not yet filled or taken is its own, and an overrun, which holds one
of each kind, takes the older first. `CellInv`: a cell's sequence number is at most
that of any ticket still to be filled or taken there, and past every ticket that
has been (`Behind`, `Ahead`); it is less than half the ticket space behind
`tail`, so a wait that compares modulo the ticket space ends only at its own
ticket. `PayloadInv`: a thread fills each ticket with the element the log has for
it and takes the element promised at its claim. `BoundedRingTickets` shows that
every step is a claim, a wait, one cell filled or taken, or leaves tickets
alone; `BoundedRingCells` that each of these keeps `RingInv`. `Exclusion` follows
because two threads in one cell would stand at one ticket. For `Progress`, take
the oldest ticket held: if a thread waited for its cell, the ticket a lap before
would be held too, or be done and the cell be past it.

*Effects* (`NotedInv`, in `BoundedRingRefinement`). A refusal or a size takes
effect between two reads, so the mapping to `BoundedQueue` needs what the call has
seen: the length the queue has now is among those a pending call has noted, the
answer it is about to give is too, and a compare-and-swap claims all that the
word it read allows. The queue is `log` from `head` to `tail`; each step then maps
to a step of `BoundedQueue` or a stutter.

The assumptions are those of `BoundedRing`: at least two cells and as many as the
capacity (`CapAssumption`; that the number is the power of two the constructor
computes is `RingSizeAssumption`), a ticket space of at least four times the
capacity, finitely many threads (`FiniteThreads`), a mark for "no element" that is
not an element (`NoElemAssumption`), and the evident ones on the other
constants. One more is in the specification: `Window`, that no counter moves half
the ticket space while a thread stands between two reads, or with a cell it has
claimed and not yet filled or taken; the code's comment states it as "tickets do
not come round in between" (`bounded_ring.hpp:215`). It limits what may happen
during one call. How many calls there are, and how far `head` and `tail` go, is
not limited in either layout.

### The eventcount (`WaiterProofs`)

| theorem | of every behaviour of `Waiter` |
|---|---|
| `WakeupsKept` | `NoLostWakeup`: beside a sleeper, every visible element has a look or a wake-up to come |
| `SleepersSeen` | `SleepersCounted`: every sleeper is in `waiters_` as memory has it |
| `EndsWithElement` | `NeverEndsEarly`: with an element published before `close()` there, only a limit ends a wait empty-handed |
| `WaiterInvariance` | `WaiterInv` |

`NoLostWakeup` speaks of consumers that sleep; what makes it true happens before
they do. `WaiterInv` says what the store buffers can hold (a consumer's at most the
end of one wait and the announcement of the next; a producer's its publish, until
its fence), that `waiters_` counts the announcements that have reached memory, and
that a key is no newer than the word. Its last part, `Covered`, is the argument of
`waiter.hpp:34-57` with numbers. While some consumer is committed to sleep (past
its last look, its key still the word), the elements are at most as many as the
looks to come and the wake-ups of producers that have yet to bump the word; and
while one sleeps, as the looks and all wake-ups to come. A bump leaves nobody
committed; a publish adds elements and as many wake-ups, because its fence comes
before it reads `waiters_` and the consumer's before its last look; a wake-up given
becomes a look. The wake-ups are counted as pairs of a producer and a number,
so that the sum is a cardinality.

The assumptions: finitely many consumers and producers (`WaiterAssumption`), and
fewer wake-ups in an execution than the word has values (`EpochBound`), the bound
named under Runs.

### The C queue's destruction (`BoundedShimProofs`)

| theorem | of every behaviour of `BoundedShim` |
|---|---|
| `FreedEmpty` | `NobodyInsideFreed`: when the queue is freed, nobody is inside it |
| `ShimInvariance` | `ShimInv` |

`destroy` reads two counts one after the other, so neither read alone shows the
queue empty. `ShimInv` says that each count is the number of operations under way
on its side, that beside a thread in `destroy` every other has no call left but
one whose effect has been seen, and that once the first count was read as zero it
stays so. `ProgramsAssumption` says which executions are meant: only the C
queue is destroyed, only `wtc::bounded` closed, and no thread uses the queue after
it destroyed it. That the others have made their last calls is the guard of
`Destroy`, the contract of the original program.

### Only model-checked

- Liveness (`CallsReturn`, `CloseReleases`, `EveryCallReturns` and the others): the
  proof system does not reason about fairness.
- `FinishedMeansAll`: what has to have been taken when a drain ends depends on
  which calls each thread of the execution makes, which the runs give in full.
- The unbounded queues (`WtcQueue`: the promise, `NoUseAfterFree`,
  `DestroysTheRest`, `SlotsFree`, `WaitsWithElement`) and everything about the
  compiler (`Topology`, `Rewrites`): their modules use recursive operators, over
  chains of segments and over code, which the proof system cannot reason about.

## Where code and text differ, and what the units leave out

These were met while modelling and are not in the units of passing runs.

- `LiftedBounded.cpp:671` says a query may take a node still being computed as
  empty because "the root's union is the same". With a narrowing conversion in
  the cycle (`m = 256; m = (unsigned char)m;`) it is not: the set is {256}, and
  `m` may be 0.
- A launch that also runs on the calling core is walked as start-up code
  (`ThreadInstances.cpp:2478`), though the other cores already run.
- `boundUnsettled` (`WTCSpecialize.cpp:286`) looks for stores in this unit only;
  a bound that another unit may write counts as settled. The units keep to the
  one-unit assumption.
- A recursion that rotates three or more queue handles among its parameters is
  unrolled once (`QueueOwnershipAnalysis.cpp:471`).
- `shim/queue.hpp:67` says deferred elements "become visible together"; a segment
  run becomes visible cell by cell, and the spmc queue publishes early when a
  segment fills. The models follow the code; the promise does not need more.
- `bounded_ring::overruns()` returns whether the layout is packed, which it also
  is for batches.
- A class whose methods notify after the unlock may be destroyed by the thread
  that saw an effect, while the substitute still wakes a sleeper. The comparison
  in `Lifting` takes the substitute's operation as one step and does not see
  this; the C queue, whose `destroy` waits, is modelled step by step.
- `paramOnlyBorrows` (`WTCBorrowAnalysis.cpp:315`) takes a parameter it is still
  checking for harmless, and the answer for a function called meanwhile is
  remembered on that footing. When the outer answer turns out to be no, the
  inner one stays yes, though the comment (line 127) says "every other use is
  still checked". Two mutually recursive helpers given elements of two queues
  show it. `LentWhileHeld` speaks of owning references, as the pass does, and a
  pointer kept that way is as dangling in the written program.
- One condition variable shared by waiting pushes and pops is not refused by
  either lifting pass; the units use two. A C batch wakes one thread for all it
  moved, where the substitute wakes as many: `NobodyAsleep` leaves batches out.
- `LiftCQueues.cpp` tables the conditions of a pop and not those of a push, so a
  push that tests a local it read before its wait is accepted; in a batch with
  two transfer loops only the last is looked at (line 1690); a read in the right
  operand of `&&`, `||` or `?:` is made on a copy of the path (`pure`) and does
  not count as a touch without the mutex.
- `shim/c_queue.cpp:126` ends the program at a slot count below zero, where the
  written queue may go on until its first push.

## Not modelled

- Of `LiftCQueues.cpp`: how functions other than the queue's, static initialisers
  and other files use the struct, and whose ring a batch is given
  (`code.outside` says whether any of it stands in the way), the types of
  members, and remarks.
- Inside the modelled passes: std::thread's invoker, queues inside library types
  and record fields, functions that hand queues out, the choice of inline storage,
  taint of escaped pointers, equal tests on two branches; the closed-world facts of
  a lifted class and the rewriting of its constructors; the work estimate and the
  count of threads that take a mutex, which are given.
- `WTC_CHECK` builds (assertions of the caller's contract), the waiter without a
  futex, the calibration of the tick counter.
- Alignment and false-sharing passes, dialect lifting and lowering, census, driver,
  tools, benchmarks and examples: layout, one-to-one rewrites, reporting.
