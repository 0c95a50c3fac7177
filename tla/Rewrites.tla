------------------------------ MODULE Rewrites ------------------------------
(***************************************************************************)
(* The passes that change how a program's threads meet, over one unit at a *)
(* time: its locked queue class is lifted (Lifting), or its C queue        *)
(* (CQueue), its loops are batched and its declared functions checked      *)
(* (Batching), or its queues lend their elements in place (Borrow).  They  *)
(* share no state; what they share is the promise that the rewritten       *)
(* program does what the written one did.                                  *)
(***************************************************************************)
EXTENDS Lifting

CONSTANTS BatchUnits, BatchK, MaxDepth, BorrowUnits, MaxPops, MaxNest, CUnits
VARIABLES code, query, stage, todo, legal, run
batchVars == <<code, query, stage, todo, legal, run>>

B == INSTANCE Batching
L == INSTANCE Borrow
C == INSTANCE CQueue

RewritesInit ==
  \/ code = BatchUnits[1] /\ B!BatchInit("off") /\ InitAt("ring")
  \/ unit = Units[1] /\ InitAt("off") /\ B!BatchInit("pushes")
  \/ unit = Units[1] /\ InitAt("off") /\ L!BorrowInit("borrow")
  \/ unit = Units[1] /\ InitAt("off") /\ C!CInit("c mutable") /\ todo = <<>> /\ legal = {}
RewritesNext ==
  \/ Next /\ UNCHANGED batchVars
  \/ B!BatchNext /\ UNCHANGED vars
  \/ L!BorrowNext /\ UNCHANGED vars
  \/ C!CNext /\ UNCHANGED <<todo, legal>> /\ UNCHANGED vars
RewritesSpec == RewritesInit /\ [][RewritesNext]_<<vars, batchVars>>

(* SameResults: of a class or a C queue that lifts, ResultsAgree and       *)
(* CQueue!ResultsAgree: every call returns what the written one returns    *)
(* (LiftLockedQueues's decide and LiftCQueues's confined and lift).        *)
SameResults == ResultsAgree /\ C!ResultsAgree

(* SameWaits: of the same, WaitsAlike and CQueue!WaitsAlike: a call waits  *)
(* in the substitute where the written one waits, and the substitute ends  *)
(* the program only where the written queue would not stay finished.       *)
SameWaits == WaitsAlike /\ C!WaitsAlike

(* NobodyAsleep: of the same, NobodyLeftAsleep and                         *)
(* CQueue!NobodyLeftAsleep: the written program woke whoever the           *)
(* substitute wakes (the wake rules of both passes).                       *)
NobodyAsleep == NobodyLeftAsleep /\ C!NobodyLeftAsleep

(* NobodyStuck: of a unit whose loops were batched, Batching!NobodyStuck:  *)
(* no thread waits for ever behind an element kept back by a batch or a    *)
(* mutex held between sections (LegalityChecker and both check functions). *)
NobodyStuck == B!NobodyStuck

(* SectionsExclude: of a unit whose loops were batched,                    *)
(* Batching!SectionsExclude: a written section runs with its mutex owned,  *)
(* and only an owned mutex is let go (WTCBatchLocksPass's rewrite).        *)
SectionsExclude == B!SectionsExclude

(* LockFreeHolds: of a unit that builds, Batching!LockFreeHolds: nothing a *)
(* function declared lock-free reaches waits or allocates                  *)
(* (WTCCheckProgressPass).                                                 *)
LockFreeHolds == B!LockFreeHolds

(* LentWhileHeld: of a unit whose queues lend, Borrow!LentWhileHeld: an    *)
(* element is not ended while the program holds a shared_ptr to it         *)
(* (WTCBorrowAnalysis's checkPop).                                         *)
LentWhileHeld == L!LentWhileHeld

(* AlwaysAnswers: Borrow!AlwaysAnswers: the borrow analysis reaches a      *)
(* verdict on every queue it looks at (WTCBorrowAnalysis.cpp:53).          *)
AlwaysAnswers == L!AlwaysAnswers
=============================================================================
