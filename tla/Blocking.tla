------------------------------ MODULE Blocking ------------------------------
(***************************************************************************)
(* "May this wait for another thread, or block?" (Blocking.cpp), which the *)
(* batching passes and the progress check ask of the same code.  A         *)
(* statement is [op, to, arg, fn, how, impl, nothrow, n, arms]: an         *)
(* operation of the wtc dialect with its attributes, a "call" of a         *)
(* function that may be handed another, a call through a pointer "icall"   *)
(* in function fn, "take" of an address, "atomic" (or volatile), "asm",    *)
(* "throw", a "scope", "if" or "loop" around other statements, or a way    *)
(* out of one.  A function is                                              *)
(*   [body, seen, internal, does, throws]                                  *)
(* with its body "here", replaceable at link time ("weak") or missing.     *)
(***************************************************************************)
EXTENDS Naturals, Sequences, FiniteSets, SequencesExt, TLC

VARIABLES code,   \* the translation unit
          query   \* the BlockingQuery of the running pass: what it accepts and what it remembers

\* The statements of a body in the order a walk meets them: what a statement holds before itself.
RECURSIVE Walk(_)
Walk(body) ==
  IF body = <<>> THEN <<>>
  ELSE FlattenSeq([a \in DOMAIN Head(body).arms |-> Walk(Head(body).arms[a])]) \o <<Head(body)>> \o Walk(Tail(body))

LockOps == {"lock", "unlock", "lock_batch_begin", "lock_batch_step", "lock_batch_end"}
WtcOps == LockOps \cup {"push", "pop", "batch_begin", "push_deferred", "batch_end"}

(***************************************************************************)
(* ProgressOpInterface: what an operation waits for and allocates, under   *)
(* the implementation recorded on it.                                      *)
(***************************************************************************)
Segmented(s) == s.impl \in {"generic", "mpsc"}
Bounded(s) == "bounded" \in s.how
Transfer(s) == "transfer" \in s.how
PushProgress(s) == IF Bounded(s) THEN "blocking" ELSE IF Segmented(s) THEN "lock_free" ELSE "wait_free"
PopProgress(s) == IF "wait" \in s.how \/ Bounded(s) \/ s.impl = "generic" THEN "blocking"
                  ELSE IF s.impl = "spmc" THEN "lock_free" ELSE "wait_free"
PopAllocates(s) == CASE Bounded(s) -> ~Transfer(s)
                     [] ~Bounded(s) /\ Transfer(s) -> Segmented(s) \/ s.impl = "spmc"
                     [] OTHER -> s.impl # "spsc_inline"
Progress(s) == CASE s.op \in LockOps -> "blocking"
                 [] s.op = "pop" -> PopProgress(s)
                 [] s.op = "batch_begin" -> "wait_free"
                 [] OTHER -> PushProgress(s)
MayCallAllocator(s) == CASE s.op \in LockOps \cup {"batch_begin"} -> FALSE
                         [] s.op = "push" -> ~Bounded(s)
                         [] s.op = "pop" -> PopAllocates(s)
                         [] s.op = "push_deferred" -> TRUE
                         [] s.op = "batch_end" -> Segmented(s)

(***************************************************************************)
(* A function without a body that counts, by its name.  The first line     *)
(* that names it answers.                                                  *)
(***************************************************************************)
TouchesOnlyItsArguments(f) == code.fns[f].seen = "none" /\ f \in {"memcpy", "strlen"}
ExternalBlocking(f) ==
  CASE TouchesOnlyItsArguments(f) -> ""
    [] f = "rte_ring_create" -> "Waits"
    [] f \in {"malloc", "free", "operator new"} -> "Allocates"
    [] f \in {"pthread_cond_wait", "sem_wait", "sched_yield"} -> "Waits"
    [] f \in {"pthread_self"} -> "Threading"
    [] f \in {"semop", "poll", "__cxa_guard_acquire"} -> "Waits"
    [] f \in {"printf", "write"} -> "InputOutput"
    [] f = "usleep" -> "Sleeps"
    [] OTHER -> "Opaque"

\* Inline assembly, by its instructions and whether it clobbers memory.
OnlyNonBlockingInstructions(s, inert) ==
  LET text == s.how \ {"memory"}
  IN  IF inert THEN text # {} /\ text \subseteq {"prefetch", "nop", "rdtsc"}
      ELSE text \subseteq {"prefetch", "nop", "rdtsc", "pause", "fence", "locked add to the stack"}

\* The statements of the unit that name f.
UsesOf(f, op) == {s \in UNION {Range(Walk(code.fns[g].body)) : g \in DOMAIN code.fns} : s.op = op /\ s.to = f}
\* The module registers code for the allocator to run: it calls, or names, one of these.
AllocatorCallback == UsesOf("rte_mem_event_callback_register", "call") \cup UsesOf("__malloc_hook", "take") # {}

\* indirectCallees: the function a pointer is, or what every call of the enclosing function hands it,
\* where all of them are here: the function is internal and its address is not taken.
IndirectCallees_AnyOwner(s) ==
  CASE s.to \in DOMAIN code.fns -> <<s.to>>
    [] s.to = "param" -> SetToSeq({c.arg : c \in UsesOf(s.fn, "call")})
    [] OTHER -> <<>>
IndirectCallees(s) ==
  LET owner == code.fns[s.fn]
      actuals == {c.arg : c \in UsesOf(s.fn, "call")}
  IN  CASE s.to \in DOMAIN code.fns -> <<s.to>>
        [] s.to = "param" /\ owner.internal /\ UsesOf(s.fn, "icall") = {} /\ "" \notin actuals -> SetToSeq(actuals)
        [] OTHER -> <<>>

(***************************************************************************)
(* The walk.  A query remembers what it found in a function; a function it *)
(* is inside of adds nothing yet, and an answer of "nothing" that rests on *)
(* that is not remembered.                                                 *)
(***************************************************************************)
Query(accepted, extra) ==
  [accepted |-> accepted, extra |-> extra, memo |-> <<>>, busy |-> {}, met |-> FALSE, found |-> ""]
Found(q, kind) == [q EXCEPT !.found = IF kind \in q.accepted THEN "" ELSE kind]

\* The batching passes' own refusals, before the shared facts.
Synchronises(s) ==
  s.op = "atomic" \/ (s.op = "asm" /\ ("memory" \in s.how \/ ~OnlyNonBlockingInstructions(s, TRUE)))
Extra(s, inCallee) == (inCallee /\ s.op \in WtcOps) \/ Synchronises(s)

External(f, nothrow, accepted) ==
  LET e == ExternalBlocking(f)
  IN  CASE e \in {"Waits", "Threading"} \ accepted -> e
        [] ~nothrow /\ "MayThrow" \notin accepted -> "MayThrow"
        [] OTHER -> IF e \in accepted THEN "" ELSE e

Remember_Always(f, outer, q) ==
  [q EXCEPT !.busy = @ \ {f}, !.met = outer \/ @, !.memo = (f :> q.found) @@ @]
Remember(f, outer, q) ==
  [q EXCEPT !.busy = @ \ {f}, !.met = outer \/ @,
            !.memo = IF q.found # "" \/ ~q.met THEN (f :> q.found) @@ @ ELSE @]

RECURSIVE FirstOf(_, _, _), CallSite(_, _, _), FirstIn(_, _), SiteAt(_, _, _)
SiteAt(s, inCallee, q) ==
  CASE q.extra /\ Extra(s, inCallee) -> [q EXCEPT !.found = "Refused"]
    [] s.op \in WtcOps /\ Progress(s) = "blocking" -> Found(q, "Waits")
    [] s.op \in WtcOps -> Found(q, IF MayCallAllocator(s) THEN "Allocates" ELSE "")
    [] s.op = "asm" -> Found(q, IF OnlyNonBlockingInstructions(s, FALSE) THEN "" ELSE "Assembly")
    [] s.op = "throw" -> Found(q, "Throws")
    [] s.op = "call" /\ "ownerless" \notin s.how -> CallSite(s, <<s.to>>, q)
    [] s.op = "icall" -> IF IndirectCallees(s) = <<>> THEN Found(q, "UnknownTarget") ELSE CallSite(s, IndirectCallees(s), q)
    [] OTHER -> Found(q, "")
CallSite(s, targets, q) ==
  IF targets = <<>> THEN Found(q, "")
  ELSE LET f == Head(targets)
           r == IF code.fns[f].seen = "here" THEN FirstIn(f, q)
                ELSE [q EXCEPT !.found = External(f, s.nothrow, q.accepted)]
       IN  IF r.found # "" THEN r ELSE CallSite(s, Tail(targets), r)
FirstIn(f, q) ==
  IF f \in DOMAIN q.memo THEN [q EXCEPT !.found = q.memo[f]]
  ELSE IF f \in q.busy THEN [q EXCEPT !.met = TRUE, !.found = ""]
  ELSE Remember(f, q.met, FirstOf(Walk(code.fns[f].body), TRUE, [q EXCEPT !.busy = @ \cup {f}, !.met = FALSE]))
FirstOf(stmts, inCallee, q) ==
  IF stmts = <<>> THEN Found(q, "")
  ELSE LET r == SiteAt(Head(stmts), inCallee, q)
       IN  IF r.found # "" THEN r ELSE FirstOf(Tail(stmts), inCallee, r)

\* sitesIn: whether any statement of f may block, f itself being walked.
Look(a, s) == LET r == SiteAt(s, FALSE, a.q) IN [q |-> r, blocks |-> a.blocks \/ r.found # ""]
SitesIn(f, q) ==
  LET all == FoldLeft(Look, [q |-> [q EXCEPT !.busy = @ \cup {f}], blocks |-> FALSE], Walk(code.fns[f].body))
  IN  [all EXCEPT !.q.busy = @ \ {f}, !.q.met = FALSE]
=============================================================================
