------------------------------- MODULE Waiter -------------------------------
(***************************************************************************)
(* runtime/waiter.hpp: the eventcount a waiting pop sleeps on, with the    *)
(* futex of the kernel and with stores that stay in a store buffer until a *)
(* fence, or the hardware, sends them to memory.  The queue behind it is   *)
(* the number of its visible elements; try_pop takes one.                  *)
(*                                                                         *)
(* Every store, and every read-modify-write whose result is not used, goes *)
(* through the thread's buffer: the weakest order the code's own argument  *)
(* (lines 34-57) allows for.  Loads read memory.                           *)
(***************************************************************************)
EXTENDS Integers, Sequences, FiniteSets

CONSTANTS
  Consumers,   \* threads that wait
  Producers,   \* threads that publish and notify
  Policies,    \* subset of {"spin", "park", "spin_then_park"}
  Batches,     \* numbers of elements one publish makes visible
  MaxPublish,  \* publishes in a behaviour
  MaxWaits,    \* waits in a behaviour
  Epochs,      \* the number of values of the 32-bit futex word
  Epoch0       \* its value when the behaviour starts

Threads == Consumers \cup Producers

ASSUME WaiterAssumption ==
  /\ IsFiniteSet(Consumers) /\ IsFiniteSet(Producers) /\ Consumers \cap Producers = {}
  /\ Policies \subseteq {"spin", "park", "spin_then_park"}
  /\ Batches \subseteq Nat \ {0}
  /\ MaxPublish \in Nat /\ MaxWaits \in Nat
  /\ Epochs \in Nat \ {0} /\ Epoch0 \in 0..(Epochs - 1)

\* The word does not come round while a consumer holds a key.
ASSUME EpochBound == MaxPublish + 1 < Epochs

VARIABLES
  policy,      \* policy_
  elems,       \* the queue: elements visible
  waiters, epoch, closed,   \* waiters_, epoch_, closed_
  buf,         \* each thread's store buffer, oldest store first
  sleepers,    \* the consumers in the kernel's futex queue
  pc,
  was,         \* was_closed, was_closed_before
  key,         \* prepare()'s result
  limited, late, spent,  \* limited; its time has passed; so has the spin budget
  count,       \* a notify's count
  owed,        \* history: elements pushed before close() and not yet popped
  publishes, waits       \* how many so far

memory == <<elems, waiters, epoch, closed, owed>>
locals == <<was, key, limited, late, spent, count>>
bounds == <<policy, publishes, waits>>
vars == <<memory, locals, bounds, buf, sleepers, pc>>

All == Cardinality(Consumers)   \* INT_MAX, as many as there can be

Init ==
  /\ policy \in Policies
  /\ elems = 0 /\ waiters = 0 /\ epoch = Epoch0 /\ closed = FALSE /\ owed = 0
  /\ buf = [t \in Threads |-> <<>>]
  /\ sleepers = {}
  /\ pc = [t \in Threads |-> "out"]
  /\ was = [c \in Consumers |-> FALSE] /\ key = [c \in Consumers |-> 0]
  /\ limited = [c \in Consumers |-> FALSE]
  /\ late = [c \in Consumers |-> FALSE] /\ spent = [c \in Consumers |-> FALSE]
  /\ count = [p \in Producers |-> 0]
  /\ publishes = 0 /\ waits = 0

Goto(t, l) == pc' = [pc EXCEPT ![t] = l]
Store(t, w) == buf' = [buf EXCEPT ![t] = Append(@, w)]
Fenced(t) == buf[t] = <<>>

\* The oldest buffered store of t reaches memory.
Drain(t) ==
  /\ ~Fenced(t)
  /\ buf' = [buf EXCEPT ![t] = Tail(@)]
  /\ LET w == Head(buf[t]) IN
     \/ w.to = "queue" /\ elems' = elems + w.n /\ UNCHANGED <<waiters, closed, owed>>
     \/ w.to = "waiters" /\ waiters' = waiters + w.n /\ UNCHANGED <<elems, closed, owed>>
     \/ /\ w.to = "closed" /\ closed' = TRUE
        /\ owed' = IF closed THEN owed ELSE elems
        /\ UNCHANGED <<elems, waiters>>
  /\ UNCHANGED <<epoch, locals, bounds, sleepers, pc>>

-----------------------------------------------------------------------------
(* The consumer: wait, wait_for and wait_until. *)

Polling == IF policy = "park" THEN "park_closed" ELSE "spin_closed"

\* wait, and wait_for, whose first look comes before the limit is read.
CallWait(c) ==
  /\ pc[c] = "out" /\ waits < MaxWaits
  /\ waits' = waits + 1
  /\ \E lim \in BOOLEAN :
       /\ limited' = [limited EXCEPT ![c] = lim]
       /\ Goto(c, IF lim THEN "first_look" ELSE Polling)
  /\ UNCHANGED <<memory, was, key, late, spent, count, policy, publishes, buf, sleepers>>

\* Time passes: a limit, a spin budget.
Expire(c) ==
  /\ pc[c] \notin {"out", "first_look"}
  /\ \/ /\ limited[c] /\ ~late[c] /\ late' = [late EXCEPT ![c] = TRUE]
        /\ UNCHANGED spent
     \/ /\ policy # "park" /\ ~spent[c] /\ spent' = [spent EXCEPT ![c] = TRUE]
        /\ UNCHANGED late
  /\ UNCHANGED <<memory, was, key, limited, count, bounds, buf, sleepers, pc>>

Taken == elems' = elems - 1 /\ owed' = IF owed > 0 THEN owed - 1 ELSE 0

\* How a wait that ends leaves waiters_: untouched, or counted down again.
Leave(c, announced) ==
  /\ Goto(c, "out")
  /\ key' = [key EXCEPT ![c] = 0]
  /\ limited' = [limited EXCEPT ![c] = FALSE]
  /\ late' = [late EXCEPT ![c] = FALSE] /\ spent' = [spent EXCEPT ![c] = FALSE]
  /\ IF announced THEN Store(c, [to |-> "waiters", n |-> -1]) ELSE UNCHANGED buf

\* A look at the queue: try_pop, then the caller's tests. A look that finds
\* nothing goes on to "next" unless the wait is over.
Look(c, at, announced, over, next) ==
  /\ pc[c] = at
  /\ \/ elems > 0 /\ Taken /\ Leave(c, announced)
     \/ /\ elems = 0 /\ UNCHANGED <<elems, owed>>
        /\ \/ over /\ Leave(c, announced)
           \/ /\ ~over /\ Goto(c, next)
              /\ UNCHANGED <<key, limited, late, spent, buf>>
  /\ was' = [was EXCEPT ![c] = FALSE]
  /\ UNCHANGED <<waiters, epoch, closed, count, bounds, sleepers>>

ReadClosed(c, at, next) ==
  /\ pc[c] = at
  /\ was' = [was EXCEPT ![c] = closed]
  /\ Goto(c, next)
  /\ UNCHANGED <<memory, key, limited, late, spent, count, bounds, buf, sleepers>>

\* A limit of zero or less looks once; one beyond kForeverNs is none.
FirstLook(c) ==
  \/ \E over \in BOOLEAN : Look(c, "first_look", FALSE, over, Polling)
  \/ /\ pc[c] = "first_look" /\ elems = 0
     /\ limited' = [limited EXCEPT ![c] = FALSE]
     /\ Goto(c, Polling)
     /\ UNCHANGED <<memory, was, key, late, spent, count, bounds, buf, sleepers>>

\* Whether a look that finds nothing ends the wait.
Over(c) == was[c] \/ (limited[c] /\ late[c])

\* Mutant: a closed waiter does not look once more.
SpinClosed_NoLastLook(c) ==
  /\ pc[c] = "spin_closed"
  /\ IF closed THEN Leave(c, FALSE)
     ELSE Goto(c, "spin_look") /\ UNCHANGED <<key, limited, late, spent, buf>>
  /\ UNCHANGED <<memory, was, count, bounds, sleepers>>

SpinClosed(c) == ReadClosed(c, "spin_closed", "spin_look")

SpinLook(c) ==
  Look(c, "spin_look", FALSE, Over(c),
       IF spent[c] /\ policy = "spin_then_park" THEN "park_closed" ELSE "spin_closed")

ParkClosed(c) == ReadClosed(c, "park_closed", "park_look")

ParkLook(c) == Look(c, "park_look", FALSE, Over(c), "announce")

\* prepare: count itself, fence, read the epoch.
Announce(c) ==
  /\ pc[c] = "announce"
  /\ Store(c, [to |-> "waiters", n |-> 1])
  /\ Goto(c, "key")
  /\ UNCHANGED <<memory, locals, bounds, sleepers>>

\* Mutant: no fence between the announcement and the last look.
ReadKey_Unfenced(c) ==
  /\ pc[c] = "key"
  /\ key' = [key EXCEPT ![c] = epoch]
  /\ Goto(c, "last_closed")
  /\ UNCHANGED <<memory, was, limited, late, spent, count, bounds, buf, sleepers>>

ReadKey(c) ==
  /\ pc[c] = "key" /\ Fenced(c)
  /\ key' = [key EXCEPT ![c] = epoch]
  /\ Goto(c, "last_closed")
  /\ UNCHANGED <<memory, was, limited, late, spent, count, bounds, buf, sleepers>>

LastClosed(c) == ReadClosed(c, "last_closed", "last_look")

LastLook(c) ==
  Look(c, "last_look", TRUE, was[c], "check")

\* sleep: the word is compared, then compared again by the kernel.
Check(c) ==
  /\ pc[c] = "check"
  /\ Goto(c, IF epoch = key[c] THEN "futex" ELSE "cancel")
  /\ UNCHANGED <<memory, locals, bounds, buf, sleepers>>

FutexWait(c) ==
  /\ pc[c] = "futex"
  /\ IF epoch = key[c]
     THEN sleepers' = sleepers \cup {c} /\ Goto(c, "asleep")
     ELSE Goto(c, "cancel") /\ UNCHANGED sleepers
  /\ UNCHANGED <<memory, locals, bounds, buf>>

\* A time limit, a signal or nothing at all ends a sleep.
SleepEnds(c) ==
  /\ pc[c] = "asleep"
  /\ sleepers' = sleepers \ {c}
  /\ Goto(c, "cancel")
  /\ UNCHANGED <<memory, locals, bounds, buf>>

\* Mutant: a limit that rounds to zero nanoseconds sleeps without one.
TimedOut_NoTimeout(c) == limited[c] /\ ~limited[c] /\ SleepEnds(c)

TimedOut(c) == limited[c] /\ late[c] /\ SleepEnds(c)

Cancel(c) ==
  /\ pc[c] = "cancel"
  /\ Store(c, [to |-> "waiters", n |-> -1])
  /\ key' = [key EXCEPT ![c] = 0]
  /\ Goto(c, "park_closed")
  /\ UNCHANGED <<memory, was, limited, late, spent, count, bounds, sleepers>>

-----------------------------------------------------------------------------
(* The producer: a publish followed by notify, and close. *)

\* The push or the batch's publish, then notify's first test.
Publish(p) ==
  /\ pc[p] = "out" /\ publishes < MaxPublish
  /\ publishes' = publishes + 1
  /\ \E k \in Batches :
       /\ Store(p, [to |-> "queue", n |-> k])
       /\ IF policy = "spin"
          THEN UNCHANGED <<count, pc>>
          ELSE count' = [count EXCEPT ![p] = k] /\ Goto(p, "notify")
  /\ UNCHANGED <<memory, was, key, limited, late, spent, policy, waits, sleepers>>

\* Mutant: no fence between the publish and the read.
ReadWaiters_Unfenced(p) ==
  /\ pc[p] = "notify"
  /\ IF waiters = 0
     THEN Goto(p, "out") /\ count' = [count EXCEPT ![p] = 0]
     ELSE Goto(p, "wake") /\ UNCHANGED count
  /\ UNCHANGED <<memory, was, key, limited, late, spent, bounds, buf, sleepers>>

\* notify: fence, read waiters_.
ReadWaiters(p) ==
  /\ pc[p] = "notify" /\ Fenced(p)
  /\ IF waiters = 0
     THEN Goto(p, "out") /\ count' = [count EXCEPT ![p] = 0]
     ELSE Goto(p, "wake") /\ UNCHANGED count
  /\ UNCHANGED <<memory, was, key, limited, late, spent, bounds, buf, sleepers>>

\* Once in a behaviour: later ones change nothing.
Close(p) ==
  /\ pc[p] = "out" /\ ~closed /\ \A q \in Producers : pc[q] # "close"
  /\ Store(p, [to |-> "closed", n |-> 1])
  /\ count' = [count EXCEPT ![p] = All]
  /\ Goto(p, "close")
  /\ UNCHANGED <<memory, was, key, limited, late, spent, bounds, sleepers>>

\* Mutant: close wakes one sleeper, as a push does.
CloseFence_WakesOne(p) ==
  /\ pc[p] = "close" /\ Fenced(p)
  /\ count' = [count EXCEPT ![p] = 1]
  /\ Goto(p, "wake")
  /\ UNCHANGED <<memory, was, key, limited, late, spent, bounds, buf, sleepers>>

CloseFence(p) ==
  /\ pc[p] = "close" /\ Fenced(p)
  /\ Goto(p, "wake")
  /\ UNCHANGED <<memory, locals, bounds, buf, sleepers>>

\* Mutant: wakes without changing the futex word.
Bump_Missing(p) ==
  /\ pc[p] = "wake"
  /\ Goto(p, "futex_wake")
  /\ UNCHANGED <<memory, locals, bounds, buf, sleepers>>

\* wake: bump the epoch, then wake up to that many sleepers.
Bump(p) ==
  /\ pc[p] = "wake"
  /\ epoch' = (epoch + 1) % Epochs
  /\ Goto(p, "futex_wake")
  /\ UNCHANGED <<elems, waiters, closed, owed, locals, bounds, buf, sleepers>>

FutexWake(p) ==
  /\ pc[p] = "futex_wake"
  /\ \E S \in SUBSET sleepers :
       /\ Cardinality(S) = count[p] \/ (Cardinality(S) < count[p] /\ S = sleepers)
       /\ sleepers' = sleepers \ S
       /\ pc' = [t \in Threads |-> IF t \in S THEN "cancel"
                                   ELSE IF t = p THEN "out" ELSE pc[t]]
  /\ count' = [count EXCEPT ![p] = 0]
  /\ UNCHANGED <<memory, was, key, limited, late, spent, bounds, buf>>

-----------------------------------------------------------------------------
ConsumerStep(c) ==
  \/ FirstLook(c) \/ SpinClosed(c) \/ SpinLook(c) \/ ParkClosed(c) \/ ParkLook(c)
  \/ Announce(c) \/ ReadKey(c) \/ LastClosed(c) \/ LastLook(c)
  \/ Check(c) \/ FutexWait(c) \/ TimedOut(c) \/ Cancel(c)

ProducerStep(p) == ReadWaiters(p) \/ CloseFence(p) \/ Bump(p) \/ FutexWake(p)

Next ==
  \/ \E t \in Threads : Drain(t)
  \/ \E c \in Consumers : CallWait(c) \/ Expire(c) \/ SleepEnds(c) \/ ConsumerStep(c)
  \/ \E p \in Producers : Publish(p) \/ Close(p) \/ ProducerStep(p)

Spec == Init /\ [][Next]_vars

\* Threads run, buffers drain and time passes; sleeps need not end of
\* themselves, and nobody is obliged to wait, publish or close.
Fairness ==
  /\ \A t \in Threads : WF_vars(Drain(t))
  /\ \A c \in Consumers : WF_vars(ConsumerStep(c)) /\ WF_vars(Expire(c))
  /\ \A p \in Producers : WF_vars(ProducerStep(p))

FairSpec == Spec /\ Fairness

-----------------------------------------------------------------------------
(* Properties. *)

\* Consumers that look at the queue again before they sleep: a sleep about
\* to start with an old key returns at once.
WillLook ==
  {c \in Consumers :
     \/ pc[c] \notin {"out", "check", "futex", "asleep"}
     \/ pc[c] \in {"check", "futex"} /\ key[c] # epoch}

\* Wake-ups still to come: those of the publishes whose notify is under way.
Notifying == {p \in Producers : pc[p] \in {"notify", "wake", "futex_wake"}}
WakesToCome == Cardinality(UNION {{p} \X (1..count[p]) : p \in Notifying})

\* No wake-up is lost: while a consumer sleeps, every visible element has a
\* consumer that is about to look for it or a notify that is about to wake
\* one (the argument of lines 34-57).
NoLostWakeup ==
  sleepers # {} => elems <= Cardinality(WillLook) + WakesToCome

\* A sleeper is counted in waiters_ for as long as it sleeps (lines 107-109),
\* so that every publish sees it.
SleepersCounted == Cardinality(sleepers) <= waiters

\* While an element pushed before close() is still in the queue, no wait ends
\* without one because of close(): closed_ is read before the last look.
NeverEndsEarly ==
  [][\A c \in Consumers :
       pc[c] \notin {"out", "first_look"} /\ pc'[c] = "out" /\ owed > 0 =>
         elems' < elems \/ (limited[c] /\ late[c])]_vars

\* After close() no wait goes on for ever.
CloseReleases ==
  \A c \in Consumers : closed /\ pc[c] # "out" ~> pc[c] = "out"

\* An element does not wait in the queue beside a consumer that waits.
Served ==
  elems > 0 /\ (\E c \in Consumers : pc[c] # "out") ~>
    elems = 0 \/ (\A c \in Consumers : pc[c] = "out")

\* A wait with a limit returns, even with nothing to pop and nobody to wake
\* it.
LimitHolds ==
  \A c \in Consumers :
    limited[c] /\ pc[c] # "out" ~> pc[c] = "out" \/ ~limited[c]
=============================================================================
