---------------------------- MODULE BoundedShim -----------------------------
(***************************************************************************)
(* The two substitutes for a queue the program bounds itself: wtc::bounded *)
(* (src/shim/bounded.hpp, reached through wtc::lifted_bounded) and the C   *)
(* queue (src/shim/c_queue.cpp).  Each is a ring and two eventcounts: pops *)
(* wait for "items", pushes for "room".  The C queue also counts the       *)
(* producers that have finished and the operations under way, and moves    *)
(* batches to and from rings the calling threads own.                      *)
(*                                                                         *)
(* The ring is the sequence it implements (BoundedRing, BoundedQueue), and *)
(* an eventcount's stores are in memory when its fences say so (Waiter);   *)
(* what is interleaved here is the ring's steps, the announcements, sleeps *)
(* and wake-ups of both sides, the counts, and destruction.                *)
(***************************************************************************)
EXTENDS Integers, FiniteSets, SequencesExt

CONSTANTS Threads,
          Programs   \* the executions: [shim, cap, overrun, producers, ends, calls]

CallsOf(p) == UNION {Range(p.calls[t]) : t \in Threads}

\* Executions use the shims as the compiler lets them: only wtc::bounded has a
\* close(), only the C queue a destroy, and no thread uses a queue it has
\* destroyed.
ASSUME ProgramsAssumption ==
  /\ IsFiniteSet(Threads)
  /\ \A p \in Programs :
       /\ p.calls \in [Threads -> Seq(CallsOf(p))]
       /\ \A c \in CallsOf(p) : /\ c.op = "close" => p.shim # "c"
                                /\ c.op = "destroy" => p.shim = "c"
       /\ \A t \in Threads : \A i \in DOMAIN p.calls[t] :
            p.calls[t][i].op = "destroy" => i = Len(p.calls[t])

Sides == {"items", "room"}
NoDue == [side |-> "items", n |-> 0]

VARIABLES
  program,     \* the execution's member of Programs
  queue,       \* ring_
  overruns,    \* overrun_counter()
  waiters, epoch, closed,   \* per side: waiters_, epoch_, closed_
  asleep,      \* per side: the threads in the kernel's futex queue
  under,       \* the C queue's pushing and popping counts, by side waited on
  ended,       \* the C queue's count of terminations
  freed,       \* the queue has been deleted
  pc, todo, key,   \* per thread: where it is, the calls to make, prepare()'s key
  due,         \* per thread: the notify it owes, [side, n]
  own,         \* own[t]: the ring a thread owns, [data, in, out]
  took, lost   \* history: elements handed out, elements an overrun removed

ringState == <<queue, overruns, took, lost, own>>
eventcounts == <<waiters, epoch, closed, asleep>>
cState == <<under, ended, freed>>
control == <<pc, todo, key, due>>
vars == <<program, ringState, eventcounts, cState, control>>

C == program.shim = "c"

\* The construction: a C queue that needs no producer to finish is closed.
Init ==
  /\ program \in Programs
  /\ queue = <<>> /\ overruns = 0 /\ took = {} /\ lost = {}
  /\ waiters = [s \in Sides |-> 0] /\ epoch = [s \in Sides |-> 0]
  /\ closed = [s \in Sides |-> s = "items" /\ C /\ program.ends # "never"
                                           /\ program.producers <= 0]
  /\ asleep = [s \in Sides |-> {}]
  /\ under = [s \in Sides |-> 0] /\ ended = 0 /\ freed = FALSE
  /\ todo = program.calls
  /\ pc = [t \in Threads |-> "idle"]
  /\ key = [t \in Threads |-> 0] /\ due = [t \in Threads |-> NoDue]
  /\ own = program.own

-----------------------------------------------------------------------------
(* A thread's own ring (own_ring): one slot is never filled. *)

Slots(t) == Cardinality(DOMAIN own[t].data)
OwnCount(t) == (own[t].in + Slots(t) - own[t].out) % Slots(t)
OwnRoom(t) == Slots(t) - 1 - OwnCount(t)

Inserted(t, es) ==
  [own[t] EXCEPT
     !.data = [i \in DOMAIN @ |->
                 LET k == (i + Slots(t) - own[t].in) % Slots(t) IN
                 IF k < Len(es) THEN es[k + 1] ELSE @[i]],
     !.in = (@ + Len(es)) % Slots(t)]
Removed(t, k) == [i \in 1..k |-> own[t].data[(own[t].out + i - 1) % Slots(t)]]
AfterRemove(t, k) == [own[t] EXCEPT !.out = (@ + k) % Slots(t)]

-----------------------------------------------------------------------------
(* Calls. The looping ones stand for the programs' loops: "drain" pops until *)
(* the queue is finished, "flush" pushes batches until its ring is empty.    *)

Call(t) == Head(todo[t])
Pushes == {"push_wait", "try_push", "push_overrun", "push_batch", "flush"}
Pops == {"try_pop", "pop_wait", "pop_wait_for", "pop_batch", "drain", "drain_batch"}
Waits(op) == op \notin {"try_push", "push_overrun", "try_pop"}
Batched(op) == op \in {"push_batch", "flush", "pop_batch", "drain_batch"}
SideOf(op) == IF op \in Pops THEN "items" ELSE "room"
Other(s) == IF s = "items" THEN "room" ELSE "items"

Goto(t, l) == pc' = [pc EXCEPT ![t] = l]
Counted(t, n) ==
  under' = IF C THEN [under EXCEPT ![SideOf(Call(t).op)] = @ + n] ELSE under

\* A C queue's operation is counted ("active") before it does anything. A
\* thread that drains has emptied its own ring.
Begin(t) ==
  /\ pc[t] = "idle" /\ todo[t] # <<>> /\ Call(t).op \in Pushes \cup Pops
  /\ Counted(t, 1)
  /\ own' = IF Call(t).op = "drain_batch" THEN [own EXCEPT ![t].out = own[t].in] ELSE own
  /\ Goto(t, "look")
  /\ UNCHANGED <<program, queue, overruns, took, lost, eventcounts, ended, freed,
                 todo, key, due>>

\* The call is over, unless its loop goes round.
Leave(t, finished) ==
  LET again == \/ Call(t).op \in {"drain", "drain_batch"} /\ ~finished
               \/ Call(t).op = "flush" /\ OwnCount(t) > 0 IN
  /\ Counted(t, -1)
  /\ todo' = [todo EXCEPT ![t] = IF again THEN @ ELSE Tail(@)]
  /\ due' = [due EXCEPT ![t] = NoDue]
  /\ key' = [key EXCEPT ![t] = 0]
  /\ Goto(t, "idle")

\* How many elements the call moves if the queue lets it.
Want(t) ==
  IF ~Batched(Call(t).op) THEN 1
  ELSE Min({Call(t).limit, IF Call(t).op \in Pops THEN OwnRoom(t) ELSE OwnCount(t)})
Room == program.cap - Len(queue)

\* The ring's step of each kind, disabled when the ring refuses it.
PushStep(t) ==
  LET k == Min({Want(t), Room}) IN
  /\ Room > 0
  /\ queue' = queue \o (IF Batched(Call(t).op) THEN Removed(t, k) ELSE <<Call(t).e>>)
  /\ own' = IF Batched(Call(t).op) THEN [own EXCEPT ![t] = AfterRemove(t, k)] ELSE own
  /\ UNCHANGED <<took, lost, overruns>>

PopStep(t) ==
  LET k == Min({Want(t), Len(queue)})
      es == SubSeq(queue, 1, k) IN
  /\ queue # <<>>
  /\ queue' = SubSeq(queue, k + 1, Len(queue))
  /\ took' = took \cup Range(es)
  /\ own' = IF Batched(Call(t).op) THEN [own EXCEPT ![t] = Inserted(t, es)] ELSE own
  /\ UNCHANGED <<lost, overruns>>

\* push_overrun always appends, and removes the oldest of a full queue: its
\* own element when there is no room at all.
OverrunStep(t) ==
  LET full == Room = 0
      all == Append(queue, Call(t).e) IN
  /\ program.overrun
  /\ queue' = IF full THEN Tail(all) ELSE all
  /\ overruns' = IF full THEN overruns + 1 ELSE overruns
  /\ lost' = IF full THEN lost \cup {Head(all)} ELSE lost
  /\ UNCHANGED <<took, own>>

RingStep(t) == CASE Call(t).op = "push_overrun" -> OverrunStep(t)
                 [] Call(t).op \in Pops -> PopStep(t)
                 [] OTHER -> PushStep(t)
Refused(t) == CASE Call(t).op = "push_overrun" -> FALSE
                [] Call(t).op \in Pops -> queue = <<>>
                [] OTHER -> Room = 0

\* Mutant: a batch that moved nothing keeps the wake-up it was given.
Toward_Kept(t) == Other(SideOf(Call(t).op))

\* Whom a call that succeeded notifies: the other side; a batch that moved
\* nothing passes a wake-up on to its own.
Toward(t) == IF Want(t) = 0 THEN SideOf(Call(t).op) ELSE Other(SideOf(Call(t).op))

Succeed(t) ==
  /\ RingStep(t)
  /\ due' = [due EXCEPT ![t] = [side |-> Toward(t),
                                n |-> Max({1, Len(queue') - Len(queue),
                                            Len(queue) - Len(queue')})]]
  /\ Goto(t, "notify")

\* A look at the ring. One that is refused ends a call that does not wait, a
\* wait whose limit has passed and a wait on a closed side.
Look(t) ==
  /\ pc[t] = "look"
  /\ \/ Succeed(t) /\ UNCHANGED <<under, todo, key>>
     \/ /\ Refused(t)
        /\ \/ ~Waits(Call(t).op) /\ Leave(t, FALSE)
           \/ Call(t).op = "pop_wait_for" /\ Leave(t, FALSE)
           \/ closed[SideOf(Call(t).op)] /\ Leave(t, TRUE)
           \/ /\ Waits(Call(t).op) /\ ~closed[SideOf(Call(t).op)]
              /\ Goto(t, "prepare") /\ UNCHANGED <<under, todo, key, due>>
        /\ UNCHANGED ringState
  /\ UNCHANGED <<program, eventcounts, ended, freed>>

\* prepare: announce, then read the key.
Prepare(t) ==
  LET s == SideOf(Call(t).op) IN
  /\ pc[t] = "prepare"
  /\ waiters' = [waiters EXCEPT ![s] = @ + 1]
  /\ key' = [key EXCEPT ![t] = epoch[s]]
  /\ Goto(t, "last_look")
  /\ UNCHANGED <<program, ringState, epoch, closed, asleep, cState, todo, due>>

\* The last look before the sleep; a wait that ends here cancels.
LastLook(t) ==
  LET s == SideOf(Call(t).op)
      cancel == waiters' = [waiters EXCEPT ![s] = @ - 1] IN
  /\ pc[t] = "last_look"
  /\ \/ Succeed(t) /\ cancel /\ UNCHANGED <<under, todo, key>>
     \/ /\ Refused(t)
        /\ \/ closed[s] /\ cancel /\ Leave(t, TRUE)
           \/ /\ ~closed[s] /\ Goto(t, "sleep")
              /\ UNCHANGED <<waiters, under, todo, key, due>>
        /\ UNCHANGED ringState
  /\ UNCHANGED <<program, epoch, closed, asleep, ended, freed>>

\* The kernel lets the thread sleep only while the word is still the key.
Sleep(t) ==
  LET s == SideOf(Call(t).op) IN
  /\ pc[t] = "sleep"
  /\ asleep' = IF epoch[s] = key[t] THEN [asleep EXCEPT ![s] = @ \cup {t}] ELSE asleep
  /\ Goto(t, "asleep")
  /\ UNCHANGED <<program, ringState, waiters, epoch, closed, cState, todo, key, due>>

\* A timed wait's sleep ends by itself.
TimedOut(t) ==
  /\ t \in asleep["items"] /\ Call(t).op = "pop_wait_for"
  /\ asleep' = [asleep EXCEPT !["items"] = @ \ {t}]
  /\ UNCHANGED <<program, ringState, waiters, epoch, closed, cState, control>>

Cancel(t) ==
  LET s == SideOf(Call(t).op) IN
  /\ pc[t] = "asleep" /\ t \notin asleep[s]
  /\ waiters' = [waiters EXCEPT ![s] = @ - 1]
  /\ key' = [key EXCEPT ![t] = 0]
  /\ Goto(t, "look")
  /\ UNCHANGED <<program, ringState, epoch, closed, asleep, cState, todo, due>>

\* Mutant: the operation is no longer counted while it wakes sleepers.
Notify_Uncounted(t) ==
  /\ pc[t] = "notify"
  /\ IF waiters[due[t].side] = 0 THEN Leave(t, FALSE)
     ELSE Goto(t, "bump") /\ Counted(t, -1) /\ UNCHANGED <<todo, key, due>>
  /\ UNCHANGED <<program, ringState, eventcounts, ended, freed>>

\* notify: with nobody announced there is nothing to wake.
Notify(t) ==
  /\ pc[t] = "notify"
  /\ IF waiters[due[t].side] = 0 THEN Leave(t, FALSE)
     ELSE Goto(t, "bump") /\ UNCHANGED <<under, todo, key, due>>
  /\ UNCHANGED <<program, ringState, eventcounts, ended, freed>>

Bump(t) ==
  /\ pc[t] = "bump"
  /\ epoch' = [epoch EXCEPT ![due[t].side] = @ + 1]
  /\ Goto(t, "wake")
  /\ UNCHANGED <<program, ringState, waiters, closed, asleep, cState, todo, key, due>>

\* The kernel wakes up to that many sleepers; close() goes on to the pushes.
Wake(t) ==
  LET s == due[t].side IN
  /\ pc[t] = "wake"
  /\ \E woken \in kSubset(Min({due[t].n, Cardinality(asleep[s])}), asleep[s]) :
       asleep' = [asleep EXCEPT ![s] = @ \ woken]
  /\ IF Call(t).op = "close" /\ s = "items"
     THEN /\ due' = [due EXCEPT ![t].side = "room"]
          /\ Goto(t, "close") /\ UNCHANGED <<under, todo, key>>
     ELSE Leave(t, FALSE)
  /\ UNCHANGED <<program, ringState, waiters, epoch, closed, ended, freed>>

-----------------------------------------------------------------------------
(* Closing, terminating and destroying. *)

\* close() starts; terminate() comes here once the last producer has.
Closing(t) ==
  /\ due' = [due EXCEPT ![t] = [side |-> "items", n |-> Cardinality(Threads)]]
  /\ Goto(t, "close")

Close(t) ==
  /\ pc[t] = "idle" /\ todo[t] # <<>> /\ Call(t).op = "close"
  /\ Closing(t)
  /\ UNCHANGED <<program, ringState, eventcounts, cState, todo, key>>

CloseSide(t) ==
  /\ pc[t] = "close"
  /\ closed' = [closed EXCEPT ![due[t].side] = TRUE]
  /\ Goto(t, "bump")
  /\ UNCHANGED <<program, ringState, waiters, epoch, asleep, cState, todo, key, due>>

Abort == pc' = [t \in Threads |-> "aborted"]

\* Mutant: the queue is finished one producer early.
Terminate_Early(t) ==
  /\ pc[t] = "idle" /\ todo[t] # <<>> /\ Call(t).op = "terminate"
  /\ ended' = ended + 1
  /\ \/ ended' > program.producers /\ program.ends = "exactly" /\ Abort
        /\ UNCHANGED <<under, todo, key, due>>
     \/ ended' < program.producers - 1 /\ Counted(t, 1)
        /\ Goto(t, "terminated") /\ UNCHANGED <<todo, key, due>>
     \/ ended' >= program.producers - 1 /\ Counted(t, 1) /\ Closing(t) /\ UNCHANGED <<todo, key>>
  /\ UNCHANGED <<program, ringState, eventcounts, freed>>

\* terminate: the last of the producers finishes the queue; one too many ends
\* the program, or changes nothing where "at least" so many are enough.
Terminate(t) ==
  /\ pc[t] = "idle" /\ todo[t] # <<>> /\ Call(t).op = "terminate"
  /\ ended' = ended + 1
  /\ \/ /\ program.ends = "never" \/ (ended' > program.producers /\ program.ends = "exactly")
        /\ Abort /\ UNCHANGED <<under, todo, key, due>>
     \/ /\ program.ends # "never"
        /\ ended' < program.producers \/ (ended' > program.producers /\ program.ends = "at_least")
        /\ Counted(t, 1) /\ Goto(t, "terminated") /\ UNCHANGED <<todo, key, due>>
     \/ /\ program.ends # "never" /\ ended' = program.producers
        /\ Counted(t, 1) /\ Closing(t) /\ UNCHANGED <<todo, key>>
  /\ UNCHANGED <<program, ringState, eventcounts, freed>>

Terminated(t) ==
  /\ pc[t] = "terminated" /\ Leave(t, FALSE)
  /\ UNCHANGED <<program, ringState, eventcounts, ended, freed>>

\* An operation whose effect another thread can have seen.
Visible(t) == pc[t] \in {"notify", "bump", "wake", "terminated"}

\* A program destroys its queue once every other thread has made its last
\* call and that call has had its effect; destroy then waits until neither
\* side has an operation under way, reading one count and then the other.
Destroy(t) ==
  /\ todo[t] # <<>> /\ Call(t).op = "destroy"
  /\ \/ /\ pc[t] = "idle"
        /\ \A u \in Threads \ {t} :
             \/ todo[u] = <<>>
             \/ /\ Len(todo[u]) = 1 /\ Visible(u)
                /\ Call(u).op \notin {"drain", "drain_batch", "flush"}
        /\ Goto(t, "pushing") /\ UNCHANGED <<freed, todo>>
     \/ pc[t] = "pushing" /\ under["room"] = 0 /\ Goto(t, "popping") /\ UNCHANGED <<freed, todo>>
     \/ /\ pc[t] = "popping"
        /\ IF under["items"] # 0 THEN Goto(t, "pushing") /\ UNCHANGED <<freed, todo>>
           ELSE /\ freed' = TRUE /\ Goto(t, "idle")
                /\ todo' = [todo EXCEPT ![t] = Tail(@)]
  /\ UNCHANGED <<program, ringState, eventcounts, under, ended, key, due>>

-----------------------------------------------------------------------------
ThreadStep(t) ==
  \/ Begin(t) \/ Look(t) \/ Prepare(t) \/ LastLook(t) \/ Sleep(t) \/ TimedOut(t)
  \/ Cancel(t) \/ Notify(t) \/ Bump(t) \/ Wake(t) \/ Close(t) \/ CloseSide(t)
  \/ Terminate(t) \/ Terminated(t) \/ Destroy(t)

Over == \A t \in Threads : todo[t] = <<>> \/ pc[t] = "aborted"

Next == (\E t \in Threads : ThreadStep(t)) \/ (Over /\ UNCHANGED vars)

\* Threads are scheduled; a sleep without a limit ends only when it is ended.
Spec == Init /\ [][Next]_vars /\ \A t \in Threads : WF_vars(ThreadStep(t))

-----------------------------------------------------------------------------
(* Properties. *)

\* Destroying waits for operations whose effect has been seen and which are
\* still waking sleepers (c_queue.cpp, "active"): nobody is inside a freed
\* queue.
NobodyInsideFreed == freed => \A t \in Threads : pc[t] = "idle"

Drains(calls) == \E i \in DOMAIN calls : calls[i].op \in {"drain", "drain_batch"}

\* A pop reports the queue finished only when nothing that was pushed before
\* a termination is left or on its way: once one drain has ended, every
\* element of the program has been taken, through rings and batches too.
FinishedMeansAll ==
  \A t \in Threads :
    C /\ Drains(program.calls[t]) /\ ~Drains(todo[t]) =>
      queue = <<>> /\ program.elements \subseteq took

\* No push sleeps on beside room and no pop beside an element, nor on a
\* closed queue: every call returns and the program ends, although wake-ups
\* go to one sleeper and may reach one that has no use for it.
EveryCallReturns == <>Over
=============================================================================
