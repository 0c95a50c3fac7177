------------------------------ MODULE Batching ------------------------------
(***************************************************************************)
(* The passes that ask Blocking: --wtc-batch-pushes publishes the pushes   *)
(* of a loop together, --wtc-batch-locks holds a mutex across the sections *)
(* of a loop, and --wtc-check-progress fails the build of a function       *)
(* declared lock-free that may block.  Then the program runs: a thread     *)
(* that calls the batched function, a consumer that takes what it pushes,  *)
(* and another thread that wants the mutex once.                           *)
(***************************************************************************)
EXTENDS Blocking

CONSTANTS BatchUnits,   \* the translation units
          BatchK,       \* WTC_BATCH_K and WTC_LOCK_BATCH_K
          MaxDepth      \* how deep the explored runs nest calls and blocks

VARIABLES stage,    \* the pass that runs: "pushes", "locks", "progress"; "failed"; "run"; "off"
          todo,     \* the loops, or the declared functions, the pass has still to look at
          legal,    \* the loops the pass will rewrite
          run       \* the running program
bvars == <<code, query, stage, todo, legal, run>>

Is(ops, stmts) == SelectSeq(stmts, LAMBDA s : s.op \in ops)
LoopsIn(u) == Is({"loop"}, Walk(u.fns[u.batch].body))

(***************************************************************************)
(* What each pass accepts.  Neither takes the allocator for a leaf when    *)
(* the module registers code for it to run.                                *)
(***************************************************************************)
Accepted(pass) ==
  CASE pass = "progress" -> {"MayThrow"}
    [] pass = "pushes" -> IF AllocatorCallback THEN {"Sleeps"} ELSE {"Allocates", "Sleeps"}
    [] pass = "locks" -> IF AllocatorCallback THEN {} ELSE {"Allocates"}
QueryOf(pass) == Query(Accepted(pass), pass # "progress")

\* The blocks of a body that every iteration runs, and its statements outside inner loops.
RECURSIVE EveryTime(_), Own(_)
EveryTime(body) == {body} \cup UNION {UNION {EveryTime(s.arms[a]) : a \in DOMAIN s.arms} : s \in Range(Is({"scope"}, body))}
Own(body) == FlattenSeq([i \in DOMAIN body |->
  (IF body[i].op = "loop" THEN <<>> ELSE FlattenSeq([a \in DOMAIN body[i].arms |-> Own(body[i].arms[a])])) \o <<body[i]>>])

Invariant(s) == "changes" \notin s.how
WaysOut == {"continue", "return", "goto", "label"}

\* The loop's other statements, up to the first that leaves it another way than a break.
Unfit(stmts, q, leaving) ==
  LET out == {i \in DOMAIN stmts : stmts[i] \in leaving}
      upto == IF out = {} THEN stmts ELSE SubSeq(stmts, 1, CHOOSE i \in out : \A j \in out : i <= j)
      r == FirstOf(SelectSeq(upto, LAMBDA s : s.op \notin WtcOps /\ s \notin leaving), FALSE, q)
  IN  [q |-> r, legal |-> r.found = "" /\ out = {}]
Refuse(q) == [q |-> q, legal |-> FALSE]

(***************************************************************************)
(* WTCBatchPushesPass.                                                     *)
(***************************************************************************)
PushApplies(body) ==
  LET ops == Is(WtcOps, Walk(body))
  IN  ops # <<>> /\ (Head(ops).op = "push" => Is({"push"}, Own(body)) # <<>> /\ Head(Is({"push"}, Own(body))) = Head(ops))
Leaves(s) == s.op \in WaysOut
CheckPushes(body, q) ==
  LET ops == Is(WtcOps, Walk(body))
      push == Head(ops)
  IN  IF /\ PushApplies(body) /\ Len(ops) = 1 /\ push.op = "push" /\ ~Bounded(push)
         /\ \E b \in EveryTime(body) : push \in Range(b)
         /\ Invariant(push) /\ ~AllocatorCallback
      THEN Unfit(Walk(body), q, {s \in Range(Walk(body)) : Leaves(s)})
      ELSE Refuse(q)

\* rewrite, of either pass: an operation before the loop, another after it, and its own replaced.
\* "enter" is where the erased lock stood: the written section starts there.
PushRewrite == [of |-> "push", begin |-> "batch_begin", end |-> "batch_end", as |-> [push |-> "push_deferred"]]
LockRewrite == [of |-> "lock", begin |-> "lock_batch_begin", end |-> "lock_batch_end",
                as |-> [lock |-> "enter", unlock |-> "lock_batch_step"]]
RECURSIVE Rewritten(_, _, _, _)
Rewritten(body, loops, inLoop, p) ==
  FlattenSeq([i \in DOMAIN body |->
    LET s == body[i]
        mine == s.op = "loop" /\ s.to \in loops
        t == [s EXCEPT !.op = IF inLoop /\ @ \in DOMAIN p.as THEN p.as[@] ELSE @,
                       !.arms = [a \in DOMAIN s.arms |-> Rewritten(s.arms[a], loops, inLoop \/ mine, p)]]
        op == Head(Is({p.of}, Walk(<<s>>)))
    IN  IF mine THEN <<[op EXCEPT !.op = p.begin], t, [op EXCEPT !.op = p.end]>> ELSE <<t>>])
Rewrite(p) == IF code.shim THEN [code EXCEPT !.fns[code.batch].body = Rewritten(@, legal, FALSE, p)] ELSE code

(***************************************************************************)
(* WTCBatchLocksPass.  The estimate of the work between two sections and   *)
(* the count of the threads that take the mutex are given; an estimate of  *)
(* 0 is one that is not bounded, a count of 0 one that is not known.       *)
(***************************************************************************)
LockApplies(body) ==
  LET locks == Is({"lock"}, Walk(body))
  IN  locks # <<>> /\ Is({"lock"}, Own(body)) # <<>> /\ Head(Is({"lock"}, Own(body))) = Head(locks)

Threshold(c) == CASE c.threads = 2 -> c.two
                  [] c.threads \in 4 .. 8 -> c.fourToEight
                  [] OTHER -> IF c.two < c.fourToEight THEN c.two ELSE c.fourToEight
Under(e, limit) == e > 0 /\ e <= limit
Decide(loop, c) ==
  \/ c.cost = "off"
  \/ c.given > 0 /\ Under(loop.est, c.given)
  \/ c.given = 0 /\ (Under(loop.est, Threshold([c EXCEPT !.threads = 0])) \/ c.threads = 1 \/ Under(loop.est, Threshold(c)))

\* The statements between the lock and the unlock of a block.
Section(b) == LET at(op) == CHOOSE i \in DOMAIN b : b[i].op = op
              IN  SubSeq(b, at("lock") + 1, at("unlock") - 1)
SectionBlocks(body) ==
  {b \in EveryTime(body) : \E i, j \in DOMAIN b : i < j /\ b[i].op = "lock" /\ b[j].op = "unlock" /\ b[i].to = b[j].to}
LeavesHeld_Never(s, section) == s.op \in WaysOut
LeavesHeld(s, section) == s.op \in WaysOut \/ (s.op = "break" /\ s \in Range(Walk(section)))
CheckLocks(body, q) ==
  LET ops == Is(WtcOps, Walk(body))
  IN  IF /\ LockApplies(body) /\ Len(ops) = 2 /\ {s.op : s \in Range(ops)} = {"lock", "unlock"}
         /\ \A s \in Range(Is({"lock"}, ops)) : Invariant(s)
         /\ SectionBlocks(body) # {}
      THEN LET section == Section(CHOOSE b \in SectionBlocks(body) : TRUE)
           IN  Unfit(Walk(body), q, {s \in Range(Walk(body)) : LeavesHeld(s, section)})
      ELSE Refuse(q)

(***************************************************************************)
(* The passes run, one loop or one declared function at a time.            *)
(***************************************************************************)
Verdict(loop) ==
  IF stage = "pushes" THEN CheckPushes(loop.arms[1], query)
  ELSE LET r == CheckLocks(loop.arms[1], query) IN [r EXCEPT !.legal = @ /\ Decide(loop, code.host)]
Judge ==
  /\ stage \in {"pushes", "locks"} /\ todo # <<>>
  /\ \E r \in {Verdict(Head(todo))} :
       /\ query' = r.q
       /\ legal' = IF r.legal THEN legal \cup {Head(todo).to} ELSE legal
  /\ todo' = Tail(todo)
  /\ UNCHANGED <<code, stage, run>>

RewritePushes ==
  /\ stage = "pushes" /\ todo = <<>>
  /\ code' = Rewrite(PushRewrite)
  /\ stage' = "locks" /\ todo' = LoopsIn(code') /\ legal' = {} /\ query' = QueryOf("locks")
  /\ UNCHANGED run

RewriteLocks ==
  /\ stage = "locks" /\ todo = <<>>
  /\ code' = Rewrite(LockRewrite)
  /\ stage' = "progress" /\ todo' = code.lockfree /\ legal' = {} /\ query' = QueryOf("progress")
  /\ UNCHANGED run

CheckProgress ==
  /\ stage = "progress" /\ todo # <<>>
  /\ \E r \in {SitesIn(Head(todo), query)} :
       /\ query' = r.q
       /\ stage' = IF r.blocks THEN "failed" ELSE stage
  /\ todo' = Tail(todo)
  /\ UNCHANGED <<code, legal, run>>

(***************************************************************************)
(* The program runs.  The batching thread's stack holds what is left of a  *)
(* block, the iterations left of a loop, and the functions it is in, each  *)
(* with the function it was handed.  Where it really waits it waits for    *)
(* the consumer to have taken all it pushed ("queue"), or for the other    *)
(* thread to have had the mutex ("mutex").                                 *)
(***************************************************************************)
Block(b) == [k |-> "block", b |-> b]
Start(u) == [stack |-> <<Block(u.main)>>, pend |-> 0, sections |-> 0, inside |-> {},
             made |-> 0, visible |-> 0, taken |-> 0, owner |-> [m \in {"m", "n"} |-> "none"], other |-> "outside"]
Begin ==
  /\ stage = "progress" /\ todo = <<>>
  /\ stage' = "run" /\ run' = Start(code)
  /\ UNCHANGED <<code, query, todo, legal>>

RECURSIVE Settle(_)
Settle(st) ==
  IF st = <<>> THEN st
  ELSE LET top == Last(st)
       IN  CASE top.k = "block" /\ top.b # <<>> -> st
             [] top.k = "loop" /\ top.left > 0 -> Settle(Front(st) \o <<[top EXCEPT !.left = @ - 1], Block(top.s.arms[1])>>)
             [] OTHER -> Settle(Front(st))
\* The stack below the innermost of some frames.
Frames(k) == {i \in DOMAIN run.stack : run.stack[i].k = k}
Below(frames) == SubSeq(run.stack, 1, Max(frames) - 1)

Doing == Head(Last(run.stack).b)
Rest == Append(Front(run.stack), Block(Tail(Last(run.stack).b)))
Go(r, st) == /\ run' = [r EXCEPT !.stack = Settle(st)]
             /\ UNCHANGED <<code, query, stage, todo, legal>>
AtOp(ops) == stage = "run" /\ run.stack # <<>> /\ Doing.op \in ops

\* What a call really reaches, and what it really does there.
Handed == LET fs == SelectSeq(run.stack, LAMBDA e : e.k = "fn") IN Last(fs).arg
Callee(s) == CASE s.op = "call" \/ s.to \in DOMAIN code.fns -> s.to
               [] s.to = "param" -> Handed
               [] OTHER -> s.arg
Seen(f) == code.fns[f].seen = "here"
Passes(what) == CASE what = "queue" -> run.taken = run.made
                  [] what = "mutex" -> run.other = "done"
                  [] OTHER -> TRUE
Does(f) == LET d == code.fns[f].does IN IF d = "allocates" /\ AllocatorCallback THEN code.callback ELSE d
Skipped(s) == s.op = "call" /\ "ownerless" \in s.how
Free(s) ==
  CASE s.op \in {"lock", "lock_batch_begin", "lock_again"} -> run.owner[s.to] = "none"
    [] s.op \in {"atomic", "asm"} -> Passes(s.arg)
    [] s.op \in {"call", "icall"} -> Skipped(s) \/ Seen(Callee(s)) \/ Passes(Does(Callee(s)))
    [] s.op \in {"push", "push_deferred"} -> IF Bounded(s) THEN run.visible < BatchK ELSE AllocatorCallback => Passes(code.callback)
    [] OTHER -> TRUE

\* push, and the shim's batch_begin, push_deferred and batch_end.
Push == AtOp({"push"}) /\ Free(Doing) /\ Go([run EXCEPT !.made = @ + 1, !.visible = @ + 1], Rest)
BatchBegin == AtOp({"batch_begin"}) /\ Go([run EXCEPT !.pend = 0], Rest)
PushDeferred ==
  /\ AtOp({"push_deferred"}) /\ Free(Doing)
  /\ LET full == run.pend + 1 = BatchK
     IN  Go([run EXCEPT !.made = @ + 1, !.pend = IF full THEN 0 ELSE @ + 1, !.visible = IF full THEN @ + BatchK ELSE @], Rest)
BatchEnd == AtOp({"batch_end"}) /\ Go([run EXCEPT !.visible = @ + run.pend, !.pend = 0], Rest)

\* The mutex, and the shim's batch_begin, batch_step and batch_end on it.
Takes == /\ Free(Doing)
         /\ Go([run EXCEPT !.owner[Doing.to] = "hand",
                           !.inside = IF Doing.op = "lock" THEN @ \cup {Doing.to} ELSE @,
                           !.sections = IF Doing.op = "lock_batch_begin" THEN 0 ELSE @], Rest)
LetsGo == Go([run EXCEPT !.owner[Doing.to] = "none", !.inside = @ \ {Doing.to}], Rest)
TakeMutex == AtOp({"lock", "lock_batch_begin", "lock_again"}) /\ Takes
ReleaseMutex == AtOp({"unlock", "lock_batch_end"}) /\ LetsGo
EnterSection == AtOp({"enter"}) /\ Go([run EXCEPT !.inside = @ \cup {Doing.to}], Rest)
BatchStep ==
  /\ AtOp({"lock_batch_step"})
  /\ IF run.sections + 1 < BatchK THEN Go([run EXCEPT !.sections = @ + 1, !.inside = @ \ {Doing.to}], Rest)
     ELSE Go([run EXCEPT !.sections = 0, !.inside = @ \ {Doing.to}, !.owner[Doing.to] = "none"],
             Append(Rest, Block(<<[Doing EXCEPT !.op = "lock_again"]>>)))

\* Calls: of a function here, or of one that is not, which returns once what it waits for has come.
Call ==
  /\ AtOp({"call", "icall"}) /\ ~Skipped(Doing) /\ Seen(Callee(Doing)) /\ Len(run.stack) < MaxDepth
  /\ Go(run, Rest \o <<[k |-> "fn", f |-> Callee(Doing), arg |-> Doing.arg], Block(code.fns[Callee(Doing)].body)>>)
Pass ==
  /\ \/ AtOp({"atomic", "asm", "pop", "take", "label"})
     \/ AtOp({"call", "icall"}) /\ (Skipped(Doing) \/ ~Seen(Callee(Doing)))
  /\ Free(Doing) /\ Go(run, Rest)

\* An exception leaves the batched function, which its caller catches; a batch it leaves open is lost.
Throws(s) == s.op = "throw" \/ (s.op \in {"call", "icall"} /\ ~Skipped(s) /\ ~Seen(Callee(s)) /\ code.fns[Callee(s)].throws)
Throw == /\ AtOp({"throw", "call", "icall"}) /\ Throws(Doing) /\ Free(Doing)
         /\ Go([run EXCEPT !.pend = 0], Below({i \in Frames("fn") : run.stack[i].f = code.batch}))

\* Blocks, and the ways out of them.  The label of a goto is the end of the function.
Enter == /\ AtOp({"scope", "if"})
         /\ \E a \in DOMAIN Doing.arms : Go(run, Append(Rest, Block(Doing.arms[a])))
Loop == AtOp({"loop"}) /\ Go(run, Append(Rest, [k |-> "loop", s |-> Doing, left |-> Doing.n]))
Continue == /\ AtOp({"continue"})
            /\ LET st == Below(Frames("loop")) IN Go(run, Append(st, run.stack[Len(st) + 1]))
Break == AtOp({"break"}) /\ Go(run, Below(Frames("loop")))
Return == AtOp({"return", "goto"}) /\ Go(run, Below(Frames("fn")))

\* The consumer takes an element; the other thread has the mutex once.
Consume == stage = "run" /\ run.visible > 0 /\ Go([run EXCEPT !.visible = @ - 1, !.taken = @ + 1], run.stack)
OtherMoves == \/ run.other = "outside" /\ run.owner["m"] = "none"
              \/ run.other = "inside"
Other == /\ stage = "run" /\ OtherMoves
         /\ IF run.other = "outside" THEN Go([run EXCEPT !.other = "inside", !.owner["m"] = "other"], run.stack)
            ELSE Go([run EXCEPT !.other = "done", !.owner["m"] = "none"], run.stack)

BatchInit(s) ==
  /\ code \in Range(BatchUnits) /\ stage = s /\ todo = LoopsIn(code) /\ legal = {}
  /\ query = QueryOf("pushes") /\ run = Start(code)
BatchNext ==
  \/ Judge \/ RewritePushes \/ RewriteLocks \/ CheckProgress \/ Begin
  \/ Push \/ BatchBegin \/ PushDeferred \/ BatchEnd \/ TakeMutex \/ ReleaseMutex \/ EnterSection \/ BatchStep
  \/ Call \/ Pass \/ Throw \/ Enter \/ Loop \/ Continue \/ Break \/ Return \/ Consume \/ Other
BatchSpec == BatchInit("pushes") /\ [][BatchNext]_bvars

(***************************************************************************)
(* Properties.                                                             *)
(***************************************************************************)

(* NobodyStuck: a program the batching passes rewrote never stands still   *)
(* before it is done, which the written one does not either: when no       *)
(* thread can move, the batched function has returned, every element it    *)
(* pushed has been taken, and the other thread has had the mutex.  It is   *)
(* what the refusals of LegalityChecker and of both check functions are    *)
(* for: an element waits unpublished, or a mutex is held between sections, *)
(* only where nothing waits and no way out passes the end of the batch.    *)
NobodyStuck ==
  (stage = "run" /\ ~(run.stack # <<>> /\ Free(Doing)) /\ run.visible = 0 /\ ~OtherMoves)
    => run.stack = <<>> /\ run.taken = run.made /\ run.other = "done"

(* SectionsExclude: inside a critical section the program wrote, the       *)
(* thread owns the mutex, and it lets go only of a mutex it owns, however  *)
(* WTCBatchLocksPass moved the lock and the unlock.                        *)
SectionsExclude ==
  stage = "run" =>
    /\ \A m \in run.inside : run.owner[m] = "hand"
    /\ AtOp({"unlock", "lock_batch_end", "lock_batch_step"}) => run.owner[Doing.to] = "hand"

(* LockFreeHolds: a function declared lock-free in a unit that builds      *)
(* never reaches an operation that waits or allocates, through calls,      *)
(* pointers, recursion or code another unit may replace: what              *)
(* WTCCheckProgressPass says of it ("nothing it reaches blocks").          *)
ReallyBlocks(s) ==
  CASE s.op \in WtcOps -> Progress(s) = "blocking" \/ MayCallAllocator(s)
    [] s.op = "asm" -> "other" \in s.how /\ s.arg # "none"
    [] s.op = "throw" -> TRUE
    [] s.op \in {"call", "icall"} -> ~Skipped(s) /\ ~Seen(Callee(s)) /\ code.fns[Callee(s)].does # "none"
    [] OTHER -> FALSE
InLockFree == \E i \in DOMAIN run.stack : run.stack[i].k = "fn" /\ run.stack[i].f \in Range(code.lockfree)
LockFreeHolds == (stage = "run" /\ run.stack # <<>> /\ InLockFree) => ~ReallyBlocks(Doing)
=============================================================================
