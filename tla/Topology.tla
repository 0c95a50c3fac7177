------------------------------ MODULE Topology ------------------------------
(***************************************************************************)
(* The compiler's topology proof against the program: a translation unit   *)
(* is walked, its queues are counted, the constructor tags are chosen, and *)
(* the result is run on threads that interleave in every way.              *)
(***************************************************************************)
EXTENDS Execution

vars == <<program, walkVars, phase, ownershipVars, choiceVars, runVars>>

Init == /\ program \in Range(Programs)
        /\ WalkInit /\ found = <<>> /\ poisoned = {} /\ sides = <<>> /\ analysis = <<>>
        /\ bounds = <<>> /\ plans = <<>> /\ choice = <<>> /\ RunInit

WalkStep == Walk /\ UNCHANGED <<program, ownershipVars, choiceVars, runVars>>
AnalysisStep == Analyse /\ UNCHANGED <<program, walkVars, choiceVars, runVars>>
SpecialiseStep == Specialise /\ UNCHANGED <<program, walkVars, ownershipVars, runVars>>

\* A declaration that is certainly broken fails the build; otherwise the program starts with its
\* global constructors, and main under them.
RootOf(f) == LET is == {i \in Index : instances[i].func = f /\ instances[i].parent = 0 /\ instances[i].thread = 0}
             IN  IF is = {} THEN 0 ELSE CHOOSE i \in is : TRUE
Start ==
  /\ phase = "tagged"
  /\ IF \E k \in DOMAIN analysis.of : analysis.of[k].outcome = "error"
     THEN /\ phase' = "rejected" /\ UNCHANGED runVars
     ELSE /\ phase' = "run"
          /\ \E first \in {IF "main" \in Functions THEN <<"main">> \o Reverse(P.ctors) ELSE Reverse(P.ctors)} :
               stacks' = <<[k \in 1 .. Len(first) |-> Frame(first[k], RootOf(first[k]), <<>>, "", 0, "")]>>
          /\ held' = [c \in Cells |-> 0] /\ vals' \in [P.ints -> Values]
          /\ ran' = [i \in Index |-> IF instances[i].parent = 0 THEN 1 ELSE 0]
          /\ started' = [i \in Index |-> 0]
          /\ UNCHANGED <<objects, known, spawned>>
  /\ UNCHANGED <<program, walkVars, ownershipVars, choiceVars>>

Run == /\ phase = "run" /\ UNCHANGED <<program, walkVars, phase, ownershipVars, choiceVars>>
       /\ (Elsewhere \/ \E t \in 1 .. Len(stacks) : ThreadStep(t))

Next == WalkStep \/ AnalysisStep \/ SpecialiseStep \/ Start \/ Run
Spec == Init /\ [][Next]_vars

-----------------------------------------------------------------------------

One(users) == Cardinality(users) <= 1
Admits(impl, o) == /\ impl \in {"spsc", "spmc"} => One(o.pushed)
                   /\ impl \in {"spsc", "mpsc"} => One(o.popped)

\* The implementation a constructor builds admits the threads that use the queue: whatever
\* WTCSpecialize.cpp chose, when it compiled or at run time, and whatever a declaration that
\* checkDeclared verified promises.  A declaration the compiler only warned about is the
\* program's own.
TagHolds == \A k \in 1 .. Len(objects) :
  LET o == objects[k]
  IN  \/ o.key \in DOMAIN analysis.of /\ analysis.of[o.key].outcome = "warning"
      \/ Admits(o.impl, o)

\* recordImplementations: the implementation written on an operation is the one its queue runs,
\* or the general-purpose one, "the answer that is never wrong to assume".
OperationKnowsQueue ==
  phase = "run" => \A t \in 1 .. Len(stacks) :
    Running(t) => (IsQueueOp(Here(t).op) /\ <<Top(t).f, Top(t).at>> \in DOMAIN choice.impl =>
      \A o \in Queues(Top(t), Here(t).args[1]) \ {0} :
        choice.impl[<<Top(t).f, Top(t).at>>] \in {Generic, objects[o].impl})

\* inStartupPhase: an operation the walk places before the first spawn runs before any thread has
\* been started, unless the walk says it is guessing.
StartupHolds ==
  phase = "run" /\ spawned => \A t \in 1 .. Len(stacks) :
    Running(t) /\ Top(t).inst # 0 =>
      StartupUncertain(Top(t).inst) \/ ~InStartupPhase(Top(t).inst, Top(t).at)

\* execMult: an instance the walk counts once is entered at most once in a run.
OnceIsOnce ==
  phase = "run" => \A i \in DOMAIN ran :
    ran[i] > 1 => instances[i].execMany \/ instances[i].threadMany \/ instances[i].execUnknown

\* countingLoop: a thread credited to a counted loop "stands for at most as many threads as the
\* loop has iterations" (ThreadInstances.h): at every point of the loop, no more have been started
\* than it has gone round.  Only the loop's body starts them, so nothing is missed once it is left.
CountedThreads ==
  phase = "run" => \A i \in DOMAIN started :
    instances[i].loop # NoSite /\ IsSpawned(instances[i]) =>
      \A t \in 1 .. Len(stacks) : \A k \in 1 .. Len(stacks[t]) :
        LET fr == stacks[t][k]
        IN  fr.inst = instances[i].loopInst /\ fr.laps[instances[i].loop] > 0 =>
              started[i] <= fr.laps[instances[i].loop]

\* exclusive: two threads counted as one because a branch starts either never both start.
ExclusiveNeverBoth ==
  phase = "run" => \A i, j \in {k \in DOMAIN started : started[k] > 0} :
    LET t == instances[i].thread
        u == instances[j].thread
    IN  <<t, u>> \notin found.exclusive

\* A recursion is unrolled a bounded number of times: the walk never reaches its cap.
WalkIsBounded == ~capped
=============================================================================
