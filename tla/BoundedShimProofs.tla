------------------------- MODULE BoundedShimProofs --------------------------
(***************************************************************************)
(* The C queue is not freed under an operation, whatever its threads and   *)
(* the calls they make: the counts destroy() reads are those of the        *)
(* operations under way, none can begin once it waits, and it has read     *)
(* both counts empty although it read them one after the other.            *)
(***************************************************************************)
EXTENDS BoundedShim, FiniteSetTheorems, TLAPS

Seen == {"notify", "bump", "wake", "terminated"}
Insides == {"look", "prepare", "last_look", "sleep", "asleep", "close"} \cup Seen
Loops == {"drain", "drain_batch", "flush"}
Destroying == {"pushing", "popping"}

\* The operations under way on a side.
Under(s) == {t \in Threads : pc[t] \in Insides /\ SideOf(Call(t).op) = s}

\* A thread with no call to make after the one whose effect has been seen.
Settled(u) ==
  todo[u] = <<>> \/ (Len(todo[u]) = 1 /\ pc[u] \in Seen /\ Call(u).op \notin Loops)

Running ==
  /\ pc \in [Threads -> Insides \cup Destroying \cup {"idle"}]
  /\ \A t \in Threads :
       /\ pc[t] # "idle" => todo[t] # <<>>
       /\ pc[t] \in Destroying => Call(t).op = "destroy"
       /\ pc[t] \in Insides => Call(t).op # "destroy"
  /\ C => \A s \in Sides : under[s] = Cardinality(Under(s))
  /\ \A t \in Threads : pc[t] \in Destroying => \A u \in Threads \ {t} : Settled(u)
  /\ \A t \in Threads : pc[t] = "popping" => Under("room") = {}
  /\ freed => \A t \in Threads : todo[t] = <<>>

Calls ==
  /\ program \in Programs
  /\ todo \in [Threads -> Seq(CallsOf(program))]
  /\ under \in [Sides -> Int]
  /\ \A t \in Threads : \A i \in DOMAIN todo[t] :
       todo[t][i].op = "destroy" => i = Len(todo[t])

Aborted == ~freed /\ \A t \in Threads : pc[t] = "aborted"

ShimInv == Calls /\ (Running \/ Aborted)

-----------------------------------------------------------------------------
(* What a step can be to the counts and to destroy(). *)

\* A thread begins an operation and is counted; close() is not.
Enters(t) ==
  /\ pc[t] = "idle" /\ todo[t] # <<>> /\ Call(t).op # "destroy"
  /\ \E l \in Insides : pc' = [pc EXCEPT ![t] = l]
  /\ Counted(t, 1) \/ (Call(t).op = "close" /\ under' = under)
  /\ UNCHANGED <<program, todo, freed>>

\* It goes on, and what has been seen stays seen.
Moves(t) ==
  /\ pc[t] \in Insides
  /\ \E l \in Insides : /\ pc' = [pc EXCEPT ![t] = l]
                        /\ pc[t] \in Seen /\ Call(t).op # "close" => l \in Seen
  /\ UNCHANGED <<program, todo, freed, under>>

\* It is over, and the call is made unless its loop goes round.
Leaves(t) ==
  /\ pc[t] \in Insides
  /\ pc' = [pc EXCEPT ![t] = "idle"]
  /\ Counted(t, -1)
  /\ \/ todo' = [todo EXCEPT ![t] = Tail(@)]
     \/ todo' = todo /\ Call(t).op \in Loops
  /\ UNCHANGED <<program, freed>>

Aborts(t) == todo[t] # <<>> /\ Abort /\ UNCHANGED <<program, todo, freed, under>>

Stays == UNCHANGED <<program, todo, freed, under, pc>>

\* Leave() ends the operation of a thread that is inside.
LEMMA LeaveLeaves ==
  ASSUME NEW t \in Threads, NEW finished, Calls, pc[t] \in Insides,
         Leave(t, finished), UNCHANGED <<program, freed>>
  PROVE  Leaves(t)
<1> DEFINE again == \/ Call(t).op \in {"drain", "drain_batch"} /\ ~finished
                    \/ Call(t).op = "flush" /\ OwnCount(t) > 0
<1>1. /\ Counted(t, -1)
      /\ todo' = [todo EXCEPT ![t] = IF again THEN @ ELSE Tail(@)]
      /\ pc' = [pc EXCEPT ![t] = "idle"]
  BY DEF Leave, Goto
<1>2. CASE again
  <2>1. todo' = todo
    BY <1>1, <1>2 DEF Calls
  <2>2. Call(t).op \in Loops
    BY <1>2 DEF Loops
  <2> QED
    BY <1>1, <2>1, <2>2 DEF Leaves
<1>3. CASE ~again
  <2>1. todo' = [todo EXCEPT ![t] = Tail(@)]
    BY <1>1, <1>3
  <2> QED
    BY <1>1, <2>1, Zenon DEF Leaves
<1> QED
  BY <1>2, <1>3

\* Looking, announcing, sleeping and cancelling neither begin an operation nor
\* go back on one that has been seen.
LEMMA WaitKinds ==
  ASSUME NEW t \in Threads, Calls,
         Look(t) \/ Prepare(t) \/ LastLook(t) \/ Sleep(t) \/ TimedOut(t) \/ Cancel(t)
  PROVE  Moves(t) \/ Leaves(t) \/ Stays
<1>1. CASE Look(t)
  <2>1. pc[t] \in Insides /\ pc[t] \notin Seen /\ UNCHANGED <<program, freed>>
    BY <1>1 DEF Look, Insides, Seen
  <2>2. CASE Succeed(t) /\ UNCHANGED <<under, todo, key>>
    BY <2>1, <2>2 DEF Succeed, Goto, Moves, Insides, Seen
  <2>3. CASE Leave(t, TRUE) \/ Leave(t, FALSE)
    BY <2>1, <2>3, LeaveLeaves, Zenon
  <2>4. CASE Goto(t, "prepare") /\ UNCHANGED <<under, todo, key, due>>
    BY <2>1, <2>4 DEF Goto, Moves, Insides, Seen
  <2> QED
    BY <1>1, <2>2, <2>3, <2>4, Zenon DEF Look
<1>2. CASE Prepare(t)
  BY <1>2 DEF Prepare, Goto, Moves, Insides, Seen, cState
<1>3. CASE LastLook(t)
  <2>1. pc[t] \in Insides /\ pc[t] \notin Seen /\ UNCHANGED <<program, freed>>
    BY <1>3 DEF LastLook, Insides, Seen
  <2>2. CASE Succeed(t) /\ UNCHANGED <<under, todo, key>>
    BY <2>1, <2>2 DEF Succeed, Goto, Moves, Insides, Seen
  <2>3. CASE Leave(t, TRUE)
    BY <2>1, <2>3, LeaveLeaves, Zenon
  <2>4. CASE Goto(t, "sleep") /\ UNCHANGED <<waiters, under, todo, key, due>>
    BY <2>1, <2>4 DEF Goto, Moves, Insides, Seen
  <2> QED
    BY <1>3, <2>2, <2>3, <2>4, Zenon DEF LastLook
<1>4. CASE Sleep(t)
  BY <1>4 DEF Sleep, Goto, Moves, Insides, Seen, cState
<1>5. CASE TimedOut(t)
  BY <1>5 DEF TimedOut, Stays, cState, control
<1>6. CASE Cancel(t)
  BY <1>6 DEF Cancel, Goto, Moves, Insides, Seen, cState
<1> QED
  BY <1>1, <1>2, <1>3, <1>4, <1>5, <1>6

\* Notifying, waking, closing and terminating likewise; terminate() once too
\* often ends the program.
LEMMA NotifyKinds ==
  ASSUME NEW t \in Threads, Calls,
         Notify(t) \/ Bump(t) \/ Wake(t) \/ CloseSide(t) \/ Terminated(t)
  PROVE  Moves(t) \/ Leaves(t)
<1>1. CASE Notify(t)
  <2>1. pc[t] \in Insides /\ UNCHANGED <<program, freed>>
    BY <1>1 DEF Notify, Insides, Seen
  <2>2. CASE Leave(t, FALSE)
    BY <2>1, <2>2, LeaveLeaves, Zenon
  <2>3. CASE Goto(t, "bump") /\ UNCHANGED <<under, todo, key, due>>
    BY <2>1, <2>3 DEF Goto, Moves, Insides, Seen
  <2> QED
    BY <1>1, <2>2, <2>3, Zenon DEF Notify
<1>2. CASE Bump(t)
  BY <1>2 DEF Bump, Goto, Moves, Insides, Seen, cState
<1>3. CASE Wake(t)
  <2>1. pc[t] \in Insides /\ UNCHANGED <<program, freed>>
    BY <1>3, Zenon DEF Wake, Insides, Seen
  <2>2. CASE Leave(t, FALSE)
    BY <2>1, <2>2, LeaveLeaves, Zenon
  <2>3. CASE Call(t).op = "close" /\ Goto(t, "close") /\ UNCHANGED <<under, todo, key>>
    BY <2>1, <2>3 DEF Goto, Moves, Insides, Seen
  <2>4. \/ Leave(t, FALSE)
        \/ Call(t).op = "close" /\ Goto(t, "close") /\ UNCHANGED <<under, todo, key>>
    BY <1>3, Zenon DEF Wake
  <2> QED
    BY <2>2, <2>3, <2>4, Zenon
<1>4. CASE CloseSide(t)
  BY <1>4 DEF CloseSide, Goto, Moves, Insides, Seen, cState
<1>5. CASE Terminated(t)
  <2>1. pc[t] \in Insides /\ UNCHANGED <<program, freed>> /\ Leave(t, FALSE)
    BY <1>5, Zenon DEF Terminated, Insides, Seen
  <2> QED
    BY <2>1, LeaveLeaves, Zenon
<1> QED
  BY <1>1, <1>2, <1>3, <1>4, <1>5

\* An operation begins with Begin, terminate() or close().
LEMMA BeginKinds ==
  ASSUME NEW t \in Threads, Begin(t) \/ Close(t) \/ Terminate(t)
  PROVE  Enters(t) \/ Aborts(t)
<1>1. CASE Begin(t)
  BY <1>1, Zenon DEF Begin, Goto, Enters, Insides, Pushes, Pops
<1>2. CASE Close(t)
  BY <1>2, Zenon DEF Close, Closing, Goto, Enters, Insides, cState
<1>3. CASE Terminate(t)
  <2>1. pc[t] = "idle" /\ todo[t] # <<>> /\ Call(t).op = "terminate" /\ UNCHANGED <<program, freed>>
    BY <1>3 DEF Terminate
  <2>2. CASE Abort /\ UNCHANGED <<under, todo, key, due>>
    BY <2>1, <2>2 DEF Aborts
  <2>3. CASE Counted(t, 1) /\ Goto(t, "terminated") /\ UNCHANGED <<todo, key, due>>
    BY <2>1, <2>3 DEF Enters, Goto, Insides, Seen
  <2>4. CASE Counted(t, 1) /\ Closing(t) /\ UNCHANGED <<todo, key>>
    BY <2>1, <2>4, Zenon DEF Enters, Closing, Goto, Insides
  <2> QED
    BY <1>3, <2>2, <2>3, <2>4, Zenon DEF Terminate
<1> QED
  BY <1>1, <1>2, <1>3

\* Every step of a thread but destroy()'s is of one of these kinds.
LEMMA Kinds ==
  ASSUME NEW t \in Threads, Calls, ThreadStep(t)
  PROVE  Enters(t) \/ Moves(t) \/ Leaves(t) \/ Aborts(t) \/ Stays \/ Destroy(t)
BY WaitKinds, NotifyKinds, BeginKinds DEF ThreadStep

-----------------------------------------------------------------------------
(* The calls left to make. *)

\* A call left to make is one of the program's: close() is not called on a C
\* queue, destroy() on nothing else, and it is a thread's last call.
LEMMA NextCall ==
  ASSUME NEW t \in Threads, Calls, todo[t] # <<>>
  PROVE  /\ Tail(todo[t]) \in Seq(CallsOf(program))
         /\ Len(todo[t]) \in Nat /\ Len(todo[t]) > 0 /\ Len(Tail(todo[t])) = Len(todo[t]) - 1
         /\ \A i \in DOMAIN Tail(todo[t]) : i + 1 \in DOMAIN todo[t] /\ Tail(todo[t])[i] = todo[t][i + 1]
         /\ Call(t).op = "close" => ~C
         /\ Call(t).op = "destroy" => C /\ Len(todo[t]) = 1
<1>1. todo[t] \in Seq(CallsOf(program)) /\ todo[t] # <<>>
  BY DEF Calls
<1>2. /\ Tail(todo[t]) \in Seq(CallsOf(program))
      /\ Len(todo[t]) \in Nat /\ Len(todo[t]) > 0 /\ Len(Tail(todo[t])) = Len(todo[t]) - 1
      /\ \A i \in DOMAIN Tail(todo[t]) : i + 1 \in DOMAIN todo[t] /\ Tail(todo[t])[i] = todo[t][i + 1]
  BY <1>1
<1>3. Call(t) \in CallsOf(program) /\ 1 \in DOMAIN todo[t] /\ Call(t) = todo[t][1]
  BY <1>1 DEF Call
<1>4. Call(t).op = "close" => ~C
  BY <1>3, ProgramsAssumption DEF Calls, C
<1>5. Call(t).op = "destroy" => C
  BY <1>3, ProgramsAssumption DEF Calls, C
<1>6. Call(t).op = "destroy" => Len(todo[t]) = 1
  BY <1>3, Zenon DEF Calls
<1> QED
  BY <1>2, <1>4, <1>5, <1>6

\* The side an operation is counted on is one of the two.
LEMMA SideType == \A op : SideOf(op) \in Sides
BY DEF SideOf, Sides

\* The calls left stay the program's, and the counts stay numbers.
LEMMA CountedType ==
  ASSUME NEW t \in Threads, Calls, NEW n \in Int, Counted(t, n)
  PROVE  under' \in [Sides -> Int]
<1>1. under \in [Sides -> Int] /\ SideOf(Call(t).op) \in Sides
  BY SideType DEF Calls
<1>2. CASE C
  BY <1>1, <1>2 DEF Counted
<1>3. CASE ~C
  BY <1>1, <1>3 DEF Counted
<1> QED
  BY <1>2, <1>3

\* A thread that has made a call has the rest to make.
LEMMA CallsMade ==
  ASSUME NEW t \in Threads, Calls, todo[t] # <<>>,
         todo' = [todo EXCEPT ![t] = Tail(@)], program' = program,
         under' \in [Sides -> Int]
  PROVE  Calls'
<1>1. /\ todo \in [Threads -> Seq(CallsOf(program))]
      /\ program \in Programs
      /\ \A u \in Threads : \A i \in DOMAIN todo[u] : todo[u][i].op = "destroy" => i = Len(todo[u])
  BY DEF Calls
<1>2. todo' \in [Threads -> Seq(CallsOf(program))]
  BY <1>1, NextCall
<1>3. ASSUME NEW u \in Threads, NEW i \in DOMAIN todo'[u], todo'[u][i].op = "destroy"
      PROVE  i = Len(todo'[u])
  <2>1. CASE u = t
    <3>1. todo'[u] = Tail(todo[t])
      BY <1>1, <2>1
    <3>2. /\ i + 1 \in DOMAIN todo[t] /\ todo[t][i + 1].op = "destroy"
          /\ Len(todo[t]) \in Nat /\ Len(todo'[u]) = Len(todo[t]) - 1
      BY <1>3, <3>1, NextCall, Zenon
    <3>3. i + 1 = Len(todo[t])
      BY <1>1, <3>2
    <3>4. i \in Int
      <4>1. todo'[u] \in Seq(CallsOf(program))
        BY <1>2
      <4> QED
        BY <1>3, <4>1
    <3> QED
      BY <3>2, <3>3, <3>4
  <2>2. CASE u # t
    BY <1>1, <1>3, <2>2
  <2> QED
    BY <2>1, <2>2
<1>4. CallsOf(program)' = CallsOf(program)
  BY DEF CallsOf
<1> QED
  BY <1>1, <1>2, <1>3, <1>4, Zenon DEF Calls

\* A step that makes no call leaves them.
LEMMA CallsLeft ==
  ASSUME Calls, UNCHANGED <<program, todo>>, under' \in [Sides -> Int]
  PROVE  Calls'
<1>1. CallsOf(program)' = CallsOf(program)
  BY DEF CallsOf
<1> QED
  BY <1>1 DEF Calls

-----------------------------------------------------------------------------
(* The counts. *)

\* The operations under way are finitely many.
LEMMA UnderFinite == \A s : IsFiniteSet(Under(s))
<1>1. \A s : Under(s) \subseteq Threads
  BY DEF Under
<1> QED
  BY <1>1, FS_Subset, ProgramsAssumption

\* An operation that begins adds itself to its side's.
LEMMA CountIn ==
  ASSUME NEW t \in Threads, Calls, C, \A s \in Sides : under[s] = Cardinality(Under(s)),
         pc[t] \notin Insides, pc'[t] \in Insides, todo' = todo, Counted(t, 1),
         \A u \in Threads \ {t} : pc'[u] = pc[u]
  PROVE  \A s \in Sides : under'[s] = Cardinality(Under(s)')
<1> DEFINE side == SideOf(Call(t).op)
<1>1. under' = [under EXCEPT ![side] = @ + 1] /\ under \in [Sides -> Int] /\ side \in Sides
  BY SideType, Zenon DEF Counted, Calls
<1>2. \A u \in Threads : Call(u)' = Call(u)
  BY DEF Call
<1> TAKE s \in Sides
<1>3. CASE s = side
  <2>1. Under(s)' = Under(s) \cup {t} /\ t \notin Under(s)
    BY <1>2, <1>3, Zenon DEF Under
  <2>2. Cardinality(Under(s) \cup {t}) = Cardinality(Under(s)) + 1
    BY <2>1, UnderFinite, FS_AddElement, Zenon
  <2> QED
    BY <1>1, <1>3, <2>1, <2>2, SMTT(30)
<1>4. CASE s # side
  <2>1. Under(s)' = Under(s)
    BY <1>2, <1>4 DEF Under
  <2> QED
    BY <1>1, <1>4, <2>1, Zenon
<1> QED
  BY <1>3, <1>4

\* An operation that is over takes itself from its side's.
LEMMA CountOut ==
  ASSUME NEW t \in Threads, Calls, C, \A s \in Sides : under[s] = Cardinality(Under(s)),
         pc[t] \in Insides, pc'[t] \notin Insides, Counted(t, -1),
         \A u \in Threads \ {t} : pc'[u] = pc[u] /\ todo'[u] = todo[u]
  PROVE  \A s \in Sides : under'[s] = Cardinality(Under(s)')
<1> DEFINE side == SideOf(Call(t).op)
<1>1. under' = [under EXCEPT ![side] = @ + (-1)] /\ under \in [Sides -> Int] /\ side \in Sides
  BY SideType DEF Counted, Calls
<1>2. \A u \in Threads \ {t} : Call(u)' = Call(u)
  BY DEF Call
<1> TAKE s \in Sides
<1>3. CASE s = side
  <2>1. Under(s)' = Under(s) \ {t} /\ t \in Under(s)
    BY <1>2, <1>3 DEF Under
  <2>2. /\ Cardinality(Under(s) \ {t}) = Cardinality(Under(s)) - 1
        /\ Cardinality(Under(s)) \in Nat
    BY <2>1, UnderFinite, FS_RemoveElement, FS_CardinalityType, Zenon
  <2> QED
    BY <1>1, <1>3, <2>1, <2>2, Zenon
<1>4. CASE s # side
  <2>1. Under(s)' = Under(s)
    BY <1>2, <1>4 DEF Under
  <2> QED
    BY <1>1, <1>4, <2>1, Zenon
<1> QED
  BY <1>3, <1>4

-----------------------------------------------------------------------------
(* Each kind of step keeps the counts exact and lets nobody in beside destroy. *)

\* Nobody begins an operation while a thread is in destroy() or once the queue
\* is freed.
LEMMA EntersKeeps ==
  ASSUME NEW t \in Threads, Calls, Running, Enters(t)
  PROVE  Running'
<1>1. PICK l \in Insides : pc' = [pc EXCEPT ![t] = l]
  BY Zenon DEF Enters
<1>2. /\ pc \in [Threads -> Insides \cup Destroying \cup {"idle"}]
      /\ pc[t] = "idle" /\ todo[t] # <<>> /\ Call(t).op # "destroy"
      /\ UNCHANGED <<program, todo, freed>>
  BY Zenon DEF Enters, Running
<1>3. /\ pc' \in [Threads -> Insides \cup Destroying \cup {"idle"}]
      /\ pc'[t] = l /\ \A u \in Threads \ {t} : pc'[u] = pc[u]
  BY <1>1, <1>2
<1>4. l # "idle" /\ l \notin Destroying /\ pc[t] \notin Insides /\ pc[t] \notin Seen
  BY <1>2 DEF Insides, Seen, Destroying
<1>5. \A u \in Threads : Call(u)' = Call(u)
  BY <1>2 DEF Call
<1>6. \A u \in Threads : pc[u] \notin Destroying
  <2>1. SUFFICES ASSUME NEW u \in Threads, pc[u] \in Destroying PROVE FALSE
    OBVIOUS
  <2>2. u # t
    BY <1>2, <2>1 DEF Destroying
  <2>3. Settled(t)
    BY <2>1, <2>2 DEF Running
  <2> QED
    BY <1>2, <1>4, <2>3 DEF Settled
<1>7. ~freed
  BY <1>2, Zenon DEF Running
<1>8. \A u \in Threads : pc'[u] \notin Destroying /\ pc'[u] # "popping"
  BY <1>3, <1>4, <1>6, Zenon DEF Destroying
<1>9. ASSUME NEW u \in Threads
      PROVE  /\ pc'[u] # "idle" => todo'[u] # <<>>
             /\ pc'[u] \in Destroying => Call(u)'.op = "destroy"
             /\ pc'[u] \in Insides => Call(u)'.op # "destroy"
  BY <1>2, <1>3, <1>5, <1>8, Zenon DEF Running
<1>10. C' => \A s \in Sides : under'[s] = Cardinality(Under(s)')
  <2>1. SUFFICES ASSUME C PROVE \A s \in Sides : under'[s] = Cardinality(Under(s)')
    BY <1>2 DEF C
  <2>2. Counted(t, 1)
    BY <1>2, <2>1, NextCall DEF Enters
  <2>3. \A s \in Sides : under[s] = Cardinality(Under(s))
    BY <2>1 DEF Running
  <2> QED
    BY <1>2, <1>3, <1>4, <2>1, <2>2, <2>3, CountIn, Zenon
<1> QED
  BY <1>2, <1>3, <1>7, <1>8, <1>9, <1>10, Zenon DEF Running

\* An operation under way stays one, and one that has been seen stays so.
LEMMA MovesKeeps ==
  ASSUME NEW t \in Threads, Calls, Running, Moves(t)
  PROVE  Running'
<1>1. PICK l \in Insides : /\ pc' = [pc EXCEPT ![t] = l]
                           /\ pc[t] \in Seen /\ Call(t).op # "close" => l \in Seen
  BY Zenon DEF Moves
<1>2. /\ pc \in [Threads -> Insides \cup Destroying \cup {"idle"}]
      /\ pc[t] \in Insides /\ UNCHANGED <<program, todo, freed, under>>
  BY Zenon DEF Moves, Running
<1>3. /\ pc' \in [Threads -> Insides \cup Destroying \cup {"idle"}]
      /\ pc'[t] = l /\ \A u \in Threads \ {t} : pc'[u] = pc[u]
  BY <1>1, <1>2
<1>4. \A k \in Insides : k # "idle" /\ k \notin Destroying /\ k # "popping"
  BY DEF Insides, Seen, Destroying
<1>5. \A u \in Threads : Call(u)' = Call(u)
  BY <1>2 DEF Call
<1>6. \A s : Under(s)' = Under(s)
  BY <1>2, <1>3, <1>5 DEF Under
<1>7. ASSUME NEW u \in Threads
      PROVE  /\ pc'[u] # "idle" => todo'[u] # <<>>
             /\ pc'[u] \in Destroying => Call(u)'.op = "destroy"
             /\ pc'[u] \in Insides => Call(u)'.op # "destroy"
  BY <1>2, <1>3, <1>4, <1>5, Zenon DEF Running
<1>8. ASSUME NEW u \in Threads, pc'[u] \in Destroying, NEW v \in Threads \ {u}
      PROVE  Settled(v)'
  <2>1. u # t /\ pc[u] \in Destroying
    BY <1>3, <1>4, <1>8
  <2>2. Settled(v) /\ C
    <3>1. todo[u] # <<>> /\ Call(u).op = "destroy"
      BY <2>1, <1>4, Zenon DEF Running, Destroying
    <3> QED
      BY <2>1, <3>1, <1>8, NextCall, Zenon DEF Running
  <2>3. CASE v # t
    BY <1>2, <1>3, <1>5, <2>2, <2>3 DEF Settled
  <2>4. CASE v = t
    <3>1. todo[t] # <<>>
      BY <1>2, <1>4, Zenon DEF Running
    <3>2. Call(t).op # "close"
      BY <2>2, <3>1, NextCall, Zenon
    <3>3. Len(todo[t]) = 1 /\ pc[t] \in Seen /\ Call(t).op \notin Loops
      BY <2>2, <2>4, <3>1, Zenon DEF Settled
    <3>4. pc'[t] \in Seen
      BY <1>1, <1>3, <3>2, <3>3
    <3> QED
      BY <1>2, <1>5, <2>4, <3>3, <3>4, Zenon DEF Settled
  <2> QED
    BY <2>3, <2>4
<1>9. ASSUME NEW u \in Threads, pc'[u] = "popping" PROVE Under("room")' = {}
  <2>1. pc[u] = "popping"
    BY <1>3, <1>4, <1>9
  <2> QED
    BY <1>6, <2>1, Zenon DEF Running
<1>10. C' => \A s \in Sides : under'[s] = Cardinality(Under(s)')
  BY <1>2, <1>6, Zenon DEF Running, C
<1>11. freed' => \A u \in Threads : todo'[u] = <<>>
  BY <1>2, Zenon DEF Running
<1> QED
  BY <1>3, <1>7, <1>8, <1>9, <1>10, <1>11, Zenon DEF Running

\* A seen operation that is over leaves its thread without a call to make.
LEMMA LeavesKeeps ==
  ASSUME NEW t \in Threads, Calls, Running, Leaves(t)
  PROVE  Running'
<1>1. /\ pc \in [Threads -> Insides \cup Destroying \cup {"idle"}]
      /\ pc[t] \in Insides /\ pc' = [pc EXCEPT ![t] = "idle"]
      /\ UNCHANGED <<program, freed>> /\ Counted(t, -1)
  BY Zenon DEF Leaves, Running
<1>2. /\ pc' \in [Threads -> Insides \cup Destroying \cup {"idle"}]
      /\ pc'[t] = "idle" /\ \A u \in Threads \ {t} : pc'[u] = pc[u]
  BY <1>1
<1>3. /\ \A k \in Insides : k # "idle" /\ k \notin Destroying /\ k # "popping"
      /\ "idle" \notin Destroying /\ "idle" \notin Insides
  BY DEF Insides, Seen, Destroying
<1>4. \A u \in Threads \ {t} : todo'[u] = todo[u] /\ Call(u)' = Call(u)
  BY DEF Leaves, Call, Calls
<1>5. todo[t] # <<>> /\ ~freed
  BY <1>1, <1>3, Zenon DEF Running
<1>6. \A s : Under(s)' \subseteq Under(s)
  BY <1>2, <1>3, <1>4, Zenon DEF Under
<1>7. ASSUME NEW u \in Threads
      PROVE  /\ pc'[u] # "idle" => todo'[u] # <<>>
             /\ pc'[u] \in Destroying => Call(u)'.op = "destroy"
             /\ pc'[u] \in Insides => Call(u)'.op # "destroy"
  <2>1. CASE u = t
    BY <1>2, <1>3, <2>1, Zenon
  <2>2. CASE u # t
    BY <1>2, <1>4, <2>2, Zenon DEF Running
  <2> QED
    BY <2>1, <2>2, Zenon
<1>8. ASSUME NEW u \in Threads, pc'[u] \in Destroying, NEW v \in Threads \ {u}
      PROVE  Settled(v)'
  <2>1. u # t /\ pc[u] \in Destroying
    BY <1>2, <1>3, <1>8
  <2>2. Settled(v)
    BY <2>1, <1>8, Zenon DEF Running
  <2>3. CASE v # t
    BY <1>2, <1>4, <2>2, <2>3, Zenon DEF Settled
  <2>4. CASE v = t
    <3>1. Len(todo[t]) = 1 /\ Call(t).op \notin Loops
      BY <1>5, <2>2, <2>4 DEF Settled
    <3>2. todo'[t] = Tail(todo[t])
      BY <3>1, Zenon DEF Leaves, Calls
    <3>3. Tail(todo[t]) = <<>>
      BY <1>5, <3>1, NextCall
    <3> QED
      BY <2>4, <3>2, <3>3 DEF Settled
  <2> QED
    BY <2>3, <2>4
<1>9. ASSUME NEW u \in Threads, pc'[u] = "popping" PROVE Under("room")' = {}
  <2>1. pc[u] = "popping"
    BY <1>2, <1>9
  <2>2. Under("room") = {}
    BY <2>1, Zenon DEF Running
  <2> QED
    BY <1>6, <2>2
<1>10. C' => \A s \in Sides : under'[s] = Cardinality(Under(s)')
  <2>1. SUFFICES ASSUME C PROVE \A s \in Sides : under'[s] = Cardinality(Under(s)')
    BY <1>1 DEF C
  <2>2. \A s \in Sides : under[s] = Cardinality(Under(s))
    BY <2>1, Zenon DEF Running
  <2>3. \A u \in Threads \ {t} : pc'[u] = pc[u] /\ todo'[u] = todo[u]
    BY <1>2, <1>4, Zenon
  <2>4. pc[t] \in Insides /\ pc'[t] \notin Insides /\ Counted(t, -1)
    BY <1>1, <1>2, <1>3, Zenon
  <2> QED
    BY <2>1, <2>2, <2>3, <2>4, CountOut, Zenon
<1> QED
  BY <1>1, <1>2, <1>5, <1>7, <1>8, <1>9, <1>10, Zenon DEF Running

\* destroy() waits beside settled threads, goes on only when nobody is counted
\* on the pushing side, and frees the queue only when nobody is counted at all.
LEMMA DestroyKeeps ==
  ASSUME NEW t \in Threads, Calls, Running, Destroy(t)
  PROVE  Running' /\ Calls'
<1>1. /\ pc \in [Threads -> Insides \cup Destroying \cup {"idle"}]
      /\ todo[t] # <<>> /\ Call(t).op = "destroy" /\ UNCHANGED <<program, under>>
      /\ under' \in [Sides -> Int] /\ todo \in [Threads -> Seq(CallsOf(program))]
  BY Zenon DEF Destroy, Running, Calls
<1>2. C /\ Len(todo[t]) = 1 /\ Tail(todo[t]) = <<>>
  BY <1>1, NextCall
<1>3. /\ \A k \in Insides : k # "idle" /\ k \notin Destroying
      /\ "idle" \notin Destroying /\ "pushing" \in Destroying /\ "popping" \in Destroying
      /\ Seen \subseteq Insides
  BY DEF Insides, Seen, Destroying
<1>4. pc[t] \notin Insides /\ ~freed
  BY <1>1, Zenon DEF Running
<1>5. \A s \in Sides : under[s] = Cardinality(Under(s)) /\ (under[s] = 0 => Under(s) = {})
  BY <1>2, UnderFinite, FS_EmptySet, Zenon DEF Running
<1>6. ASSUME NEW l \in Destroying, pc' = [pc EXCEPT ![t] = l], UNCHANGED <<freed, todo>>,
             \A u \in Threads \ {t} : Settled(u), l = "popping" => Under("room") = {}
      PROVE  Running' /\ Calls'
  <2>1. /\ pc' \in [Threads -> Insides \cup Destroying \cup {"idle"}]
        /\ pc'[t] = l /\ \A u \in Threads \ {t} : pc'[u] = pc[u]
    BY <1>1, <1>6, Zenon
  <2>2. \A u \in Threads : Call(u)' = Call(u)
    BY <1>6 DEF Call
  <2>3. \A s : Under(s)' = Under(s)
    BY <1>3, <1>4, <2>1, <2>2, Zenon DEF Under
  <2>4. \A u \in Threads \ {t} : pc[u] \notin Destroying
    <3>1. SUFFICES ASSUME NEW u \in Threads \ {t}, pc[u] \in Destroying PROVE FALSE
      OBVIOUS
    <3>2. todo[u] # <<>> /\ Settled(u)
      BY <1>3, <1>6, <3>1, Zenon DEF Running
    <3> QED
      BY <1>3, <3>1, <3>2, Zenon DEF Settled
  <2>5. ASSUME NEW u \in Threads
        PROVE  /\ pc'[u] # "idle" => todo'[u] # <<>>
               /\ pc'[u] \in Destroying => Call(u)'.op = "destroy"
               /\ pc'[u] \in Insides => Call(u)'.op # "destroy"
    <3>1. CASE u = t
      BY <1>1, <1>3, <1>6, <2>1, <2>2, <3>1, Zenon
    <3>2. CASE u # t
      BY <1>6, <2>1, <2>2, <3>2, Zenon DEF Running
    <3> QED
      BY <3>1, <3>2, Zenon
  <2>6. ASSUME NEW u \in Threads, pc'[u] \in Destroying, NEW v \in Threads \ {u}
        PROVE  Settled(v)'
    <3>1. u = t
      BY <2>1, <2>4, <2>6
    <3>2. Settled(v)
      BY <1>6, <2>6, <3>1
    <3> QED
      BY <1>6, <2>1, <2>2, <2>6, <3>1, <3>2, Zenon DEF Settled
  <2>7. ASSUME NEW u \in Threads, pc'[u] = "popping" PROVE Under("room")' = {}
    <3>1. u = t
      BY <1>3, <2>1, <2>4, <2>7
    <3> QED
      BY <1>6, <2>1, <2>3, <2>7, <3>1, Zenon
  <2>8. C' => \A s \in Sides : under'[s] = Cardinality(Under(s)')
    BY <1>1, <1>5, <2>3, Zenon
  <2>9. freed' => \A u \in Threads : todo'[u] = <<>>
    BY <1>4, <1>6, Zenon
  <2>10. Calls'
    BY <1>1, <1>6, CallsLeft, Zenon
  <2> QED
    BY <2>1, <2>5, <2>6, <2>7, <2>8, <2>9, <2>10, Zenon DEF Running
<1>7. CASE /\ pc[t] = "idle"
           /\ \A u \in Threads \ {t} :
                \/ todo[u] = <<>>
                \/ /\ Len(todo[u]) = 1 /\ Visible(u)
                   /\ Call(u).op \notin {"drain", "drain_batch", "flush"}
           /\ Goto(t, "pushing") /\ UNCHANGED <<freed, todo>>
  <2>1. \A u \in Threads \ {t} : Settled(u)
    BY <1>7, Zenon DEF Settled, Visible, Seen, Loops
  <2> QED
    BY <1>3, <1>6, <1>7, <2>1, Zenon DEF Goto
<1>8. CASE pc[t] = "pushing" /\ under["room"] = 0 /\ Goto(t, "popping") /\ UNCHANGED <<freed, todo>>
  <2>1. \A u \in Threads \ {t} : Settled(u)
    BY <1>3, <1>8, Zenon DEF Running
  <2>2. Under("room") = {}
    BY <1>5, <1>8 DEF Sides
  <2> QED
    BY <1>3, <1>6, <1>8, <2>1, <2>2, Zenon DEF Goto
<1>9. CASE pc[t] = "popping" /\ under["items"] # 0 /\ Goto(t, "pushing") /\ UNCHANGED <<freed, todo>>
  <2>1. \A u \in Threads \ {t} : Settled(u)
    BY <1>3, <1>9, Zenon DEF Running
  <2> QED
    BY <1>3, <1>6, <1>9, <2>1, Zenon DEF Goto
<1>10. CASE /\ pc[t] = "popping" /\ under["items"] = 0
            /\ freed' = TRUE /\ Goto(t, "idle")
            /\ todo' = [todo EXCEPT ![t] = Tail(@)]
  <2>1. \A u \in Threads \ {t} : Settled(u)
    BY <1>3, <1>10, Zenon DEF Running
  <2>2. Under("room") = {} /\ Under("items") = {}
    BY <1>5, <1>10, Zenon DEF Sides, Running
  <2>3. \A u \in Threads : pc[u] \notin Insides
    BY <2>2, SideType DEF Under, Sides
  <2>4. \A u \in Threads \ {t} : todo[u] = <<>>
    BY <1>3, <2>1, <2>3, Zenon DEF Settled
  <2>5. \A u \in Threads : todo'[u] = <<>>
    BY <1>1, <1>2, <1>10, <2>4, Zenon
  <2>6. \A u \in Threads \ {t} : pc[u] = "idle"
    BY <2>4, Zenon DEF Running
  <2>7. /\ pc' \in [Threads -> Insides \cup Destroying \cup {"idle"}]
        /\ \A u \in Threads : pc'[u] = "idle"
    BY <1>1, <1>10, <2>6, Zenon DEF Goto
  <2>8. "idle" \notin Insides
    BY <1>3
  <2>9. \A s : Under(s)' = {} /\ Under(s) = {}
    BY <2>3, <2>7, <2>8, Zenon DEF Under
  <2>10. C' => \A s \in Sides : under'[s] = Cardinality(Under(s)')
    BY <1>1, <1>5, <2>9, Zenon
  <2>11. Calls'
    BY <1>1, <1>10, CallsMade, Zenon
  <2> QED
    BY <1>3, <2>5, <2>7, <2>8, <2>10, <2>11, Zenon DEF Running
<1> QED
  BY <1>7, <1>8, <1>9, <1>10, Zenon DEF Destroy

-----------------------------------------------------------------------------
(* The invariant, and what it says. *)

\* An execution begins with every thread outside and every count zero.
LEMMA ShimInit == Init => ShimInv
<1> SUFFICES ASSUME Init PROVE ShimInv
  OBVIOUS
<1>1. /\ program \in Programs /\ todo = program.calls /\ freed = FALSE
      /\ under = [s \in Sides |-> 0] /\ pc = [t \in Threads |-> "idle"]
  BY Zenon DEF Init
<1>2. "idle" \notin Insides /\ "idle" \notin Destroying
  BY DEF Insides, Seen, Destroying
<1>3. Calls
  BY <1>1, ProgramsAssumption DEF Calls
<1>4. \A s : Under(s) = {}
  BY <1>1, <1>2, Zenon DEF Under
<1>5. \A s \in Sides : under[s] = Cardinality(Under(s))
  BY <1>1, <1>4, FS_EmptySet, Zenon
<1>6. /\ pc \in [Threads -> Insides \cup Destroying \cup {"idle"}]
      /\ \A t \in Threads : pc[t] = "idle"
  BY <1>1
<1>7. Running
  BY <1>1, <1>2, <1>5, <1>6, Zenon DEF Running, Destroying
<1> QED
  BY <1>3, <1>7 DEF ShimInv

\* A program that has been aborted takes no step that matters.
LEMMA AbortedKeeps ==
  ASSUME NEW t \in Threads, Calls, Aborted,
         Enters(t) \/ Moves(t) \/ Leaves(t) \/ Aborts(t) \/ Stays \/ Destroy(t)
  PROVE  Aborted' /\ Calls'
<1>1. pc[t] = "aborted" /\ "aborted" \notin Insides /\ under \in [Sides -> Int]
  BY Zenon DEF Aborted, Calls, Insides, Seen
<1>2. CASE Aborts(t)
  <2>1. Calls'
    BY <1>1, <1>2, CallsLeft DEF Aborts
  <2> QED
    BY <1>2, <2>1, Zenon DEF Aborts, Abort, Aborted
<1>3. CASE Stays
  <2>1. Calls'
    BY <1>1, <1>3, CallsLeft, SMTT(30) DEF Stays
  <2> QED
    BY <1>3, <2>1 DEF Stays, Aborted
<1>4. ~Enters(t) /\ ~Moves(t) /\ ~Leaves(t) /\ ~Destroy(t)
  BY <1>1, Zenon DEF Enters, Moves, Leaves, Destroy
<1> QED
  BY <1>2, <1>3, <1>4

\* Every step keeps the invariant.
LEMMA ShimNext == ShimInv /\ [Next]_vars => ShimInv'
<1> SUFFICES ASSUME ShimInv, [Next]_vars PROVE ShimInv'
  OBVIOUS
<1>1. Calls /\ (Running \/ Aborted) /\ under \in [Sides -> Int]
  BY Zenon DEF ShimInv, Calls
<1>2. CASE UNCHANGED vars
  <2>1. Stays
    BY <1>2 DEF vars, Stays, cState, control
  <2>2. Calls'
    BY <1>1, <2>1, CallsLeft, SMTT(30) DEF Stays
  <2>3. Running => Running'
    BY <2>1, Zenon DEF Stays, Running, Under, Settled, Call, C
  <2>4. Aborted => Aborted'
    BY <2>1 DEF Stays, Aborted
  <2> QED
    BY <1>1, <2>2, <2>3, <2>4 DEF ShimInv
<1>3. ASSUME NEW t \in Threads, ThreadStep(t) PROVE ShimInv'
  <2>1. Enters(t) \/ Moves(t) \/ Leaves(t) \/ Aborts(t) \/ Stays \/ Destroy(t)
    BY <1>1, <1>3, Kinds
  <2>2. CASE Aborted
    BY <1>1, <2>1, <2>2, AbortedKeeps DEF ShimInv
  <2>3. CASE Running
    <3>1. CASE Enters(t)
      <4>1. under' \in [Sides -> Int]
        BY <1>1, <3>1, CountedType DEF Enters
      <4>2. Calls'
        BY <1>1, <3>1, <4>1, CallsLeft, SMTT(30) DEF Enters
      <4> QED
        BY <1>1, <2>3, <3>1, <4>2, EntersKeeps, SMTT(30) DEF ShimInv
    <3>2. CASE Moves(t)
      <4>1. Calls'
        BY <1>1, <3>2, CallsLeft, SMTT(30) DEF Moves
      <4> QED
        BY <1>1, <2>3, <3>2, <4>1, MovesKeeps DEF ShimInv
    <3>3. CASE Leaves(t)
      <4>1. under' \in [Sides -> Int]
        BY <1>1, <3>3, CountedType DEF Leaves
      <4>2. todo[t] # <<>>
        BY <2>3, <3>3, Zenon DEF Leaves, Running, Insides, Seen
      <4>3. Calls'
        BY <1>1, <3>3, <4>1, <4>2, CallsLeft, CallsMade, Zenon DEF Leaves
      <4> QED
        BY <1>1, <2>3, <3>3, <4>3, LeavesKeeps DEF ShimInv
    <3>4. CASE Aborts(t)
      <4>1. Calls'
        BY <1>1, <3>4, CallsLeft, Zenon DEF Aborts
      <4>2. Aborted'
        BY <2>3, <3>4, Zenon DEF Aborts, Abort, Aborted, Running
      <4> QED
        BY <4>1, <4>2 DEF ShimInv
    <3>5. CASE Stays
      <4>1. Calls'
        BY <1>1, <3>5, CallsLeft, SMTT(30) DEF Stays
      <4>2. Running'
        BY <2>3, <3>5 DEF Stays, Running, Under, Settled, Call, C
      <4> QED
        BY <4>1, <4>2 DEF ShimInv
    <3>6. CASE Destroy(t)
      BY <1>1, <2>3, <3>6, DestroyKeeps DEF ShimInv
    <3> QED
      BY <2>1, <3>1, <3>2, <3>3, <3>4, <3>5, <3>6, SMTT(30)
  <2> QED
    BY <1>1, <2>2, <2>3
<1> QED
  BY <1>2, <1>3 DEF Next

\* Until terminate() aborts the program, a C queue's two counts are exactly the
\* operations under way on each side, waking sleepers included, and destroy()
\* waits beside threads that have no call to begin (c_queue.cpp, "active").
THEOREM ShimInvariance == Spec => []ShimInv
BY ShimInit, ShimNext, PTL DEF Spec

\* When destroy() frees the C queue nobody is inside it, however many threads
\* were still waking sleepers when it began to wait.
THEOREM FreedEmpty == Spec => []NobodyInsideFreed
<1>1. ShimInv => NobodyInsideFreed
  BY Zenon DEF ShimInv, Running, Aborted, NobodyInsideFreed
<1> QED
  BY <1>1, ShimInvariance, PTL
=============================================================================
