------------------------------- MODULE Borrow -------------------------------
(***************************************************************************)
(* --wtc-borrow-analysis: which spsc queues have a consumer that only      *)
(* borrows what it pops, so that the ring may lend each element in place   *)
(* (spsc_inline) and end it at the next pop.  Then the program runs, with  *)
(* every queue the pass accepted lending.                                  *)
(*                                                                         *)
(* A statement is Blocking's record and the value it uses (of), the value  *)
(* or slot it defines (def), and of a pop the queues the ownership         *)
(* analysis placed it on (ids, {} when it could not) and its type (ty):    *)
(*   "scope"  declares the slot def, which lives as long as its arm        *)
(*   "pop"    into the slot def; to is its label                           *)
(*   "ask"    operator bool, a comparison with nullptr                     *)
(*   "get"    get, operator*, operator->: a pointer into the element       *)
(*   "share"  any other use of the shared_ptr: a copy of it is kept        *)
(*   "read"   through a pointer, written through, compared, copied         *)
(*   "step"   to a member or an element, or a pointer cast                 *)
(*   "toint"  a cast of the pointer to an integer                          *)
(*   "keep"   the pointer is stored in to: a local of the function, or a   *)
(*            global; "load" reads it back; "addr" lets a local's address  *)
(*            out, after which others read what it holds                   *)
(*   "push", "call", "icall", "return" with the pointer as what they take  *)
(***************************************************************************)
EXTENDS Blocking

CONSTANTS BorrowUnits,   \* the translation units: [fns, order, roots, main]
          MaxPops,       \* how many elements a run pops
          MaxNest        \* how deep a run nests calls and blocks

VARIABLES stage,   \* "borrow" the pass runs, "hung" a check never returns, "lent" the program runs
          todo,    \* the queue roots the pass has still to look at
          legal,   \* the queues that get wtc.borrowed
          run      \* the running program
borrowVars == <<code, query, stage, todo, legal, run>>

TextOf(f) == Walk(code.fns[f].body)
Present(f) == code.fns[f].seen = "here"

(***************************************************************************)
(* BorrowChecker.  What it remembers goes from check to check: of a        *)
(* parameter for good, of a function that may pop for the pop in hand.     *)
(* found answers mayPop, ok the checks, loops says that a check never      *)
(* returns.                                                                *)
(***************************************************************************)
Checker == [pops |-> <<>>, params |-> <<>>, id |-> 0, ty |-> "", found |-> FALSE, ok |-> TRUE, busy |-> {}, loops |-> FALSE]
Finds(q, found) == [q EXCEPT !.found = found]
Allows(q) == [q EXCEPT !.ok = TRUE]
Refuses(q) == [q EXCEPT !.ok = FALSE]

PopsSameQueue(s, q) == IF s.ids # {} THEN q.id \in s.ids ELSE s.ty = q.ty

\* mayPop: seeded with "no", and asked of every function a call may reach.
RECURSIVE MayPop(_, _), MayPopIn(_, _), MayPopAny(_, _)
MayPopAt(s, q) ==
  CASE s.op = "pop" -> Finds(q, PopsSameQueue(s, q))
    [] s.op = "call" -> MayPop(s.to, q)
    [] s.op = "icall" -> IF IndirectCallees(s) = <<>> THEN Finds(q, TRUE) ELSE MayPopAny(IndirectCallees(s), q)
    [] OTHER -> Finds(q, FALSE)
MayPopIn(stmts, q) ==
  IF stmts = <<>> THEN Finds(q, FALSE)
  ELSE LET r == MayPopAt(Head(stmts), q) IN IF r.found THEN r ELSE MayPopIn(Tail(stmts), r)
MayPopAny(fs, q) ==
  IF fs = <<>> THEN Finds(q, FALSE)
  ELSE LET r == MayPop(Head(fs), q) IN LET more == MayPopAny(Tail(fs), r) IN Finds(more, r.found \/ more.found)
MayPop(f, q) ==
  CASE ~Present(f) -> Finds(q, FALSE)
    [] Present(f) /\ f \in DOMAIN q.pops -> Finds(q, q.pops[f])
    [] OTHER -> LET r == MayPopIn(TextOf(f), [q EXCEPT !.pops = (f :> FALSE) @@ @])
                IN  [r EXCEPT !.pops = (f :> r.found) @@ @]

\* checkScope: nothing else in the scope of the slot pops the queue.
CheckScope(stmts, pop, q) ==
  LET r == MayPopIn(SelectSeq(stmts, LAMBDA s : s # pop), q) IN IF r.found THEN Refuses(r) ELSE Allows(r)

\* The uses of a value, in the order its use list has them, and the values loaded from a local.
InUseOrder(stmts) == IF code.newest THEN Reverse(stmts) ELSE stmts
UsersOf(f, v) == InUseOrder(SelectSeq(TextOf(f), LAMBDA s : s.of = v))
LoadsOf(f, l) == InUseOrder(SelectSeq(TextOf(f), LAMBDA s : s.op = "load" /\ s.to = l))
AddressEscapes(f, l) == \E s \in Range(TextOf(f)) : s.op = "addr" /\ s.to = l

\* checkPointer and paramOnlyBorrows.  A check that comes to the value it is at, no call further
\* down, finds there what it found before and goes round for good.
MaxCalls == 8
RECURSIVE CheckPointer(_, _, _, _), CheckUses(_, _, _, _), CheckLoads(_, _, _, _), ParamOnlyBorrows(_, _, _)
CheckPointer(f, v, depth, q) ==
  CASE depth > MaxCalls -> Refuses(q)
    [] depth <= MaxCalls /\ <<f, v, depth>> \in q.busy -> [Refuses(q) EXCEPT !.loops = TRUE]
    [] OTHER -> LET r == CheckUses(f, UsersOf(f, v), depth, [q EXCEPT !.busy = @ \cup {<<f, v, depth>>}])
                IN  [r EXCEPT !.busy = @ \ {<<f, v, depth>>}]
CheckLoads(f, loads, depth, q) ==
  IF loads = <<>> THEN Allows(q)
  ELSE LET r == CheckPointer(f, Head(loads).def, depth, q) IN IF r.ok THEN CheckLoads(f, Tail(loads), depth, r) ELSE r
CheckUse(f, s, depth, q) ==
  CASE s.op \in {"read", "push"} -> Allows(q)
    [] s.op = "step" -> CheckPointer(f, s.def, depth, q)
    [] s.op = "keep" /\ s.to \in code.fns[f].locals /\ ~AddressEscapes(f, s.to) -> CheckLoads(f, LoadsOf(f, s.to), depth, q)
    [] s.op = "call" /\ Present(s.to) -> ParamOnlyBorrows(s.to, depth + 1, q)
    [] OTHER -> Refuses(q)
CheckUses(f, uses, depth, q) ==
  IF uses = <<>> THEN Allows(q)
  ELSE LET r == CheckUse(f, Head(uses), depth, q) IN IF r.ok THEN CheckUses(f, Tail(uses), depth, r) ELSE r
ParamOnlyBorrows(f, depth, q) ==
  IF f \in DOMAIN q.params THEN [q EXCEPT !.ok = q.params[f]]
  ELSE LET r == CheckPointer(f, "param", depth, [q EXCEPT !.params = (f :> TRUE) @@ @])
       IN  [r EXCEPT !.params = (f :> r.ok) @@ @]

\* checkSlotUses: the shared_ptr is only asked, looked through and destroyed.
RECURSIVE CheckSlotUses(_, _, _)
CheckSlotUses(f, uses, q) ==
  IF uses = <<>> THEN Allows(q)
  ELSE LET s == Head(uses)
           r == CASE s.op = "ask" -> Allows(q)
                  [] s.op = "get" -> CheckPointer(f, s.def, 0, q)
                  [] OTHER -> Refuses(q)
       IN  IF r.ok THEN CheckSlotUses(f, Tail(uses), r) ELSE r

\* checkPop: into a slot of the scope around it, which the program only borrows through.
ScopesOf(f, pop) == {s \in Range(TextOf(f)) : s.op = "scope" /\ s.def = pop.def /\ pop \in Range(Walk(s.arms[1]))}
For_KeepsPops(q, root) == [q EXCEPT !.id = root.id, !.ty = root.ty]
For(q, root) == [q EXCEPT !.id = root.id, !.ty = root.ty, !.pops = <<>>]
CheckPop(f, pop, root, q) ==
  CASE Transfer(pop) -> Allows(For(q, root))
    [] ~Transfer(pop) /\ ScopesOf(f, pop) = {} -> Refuses(For(q, root))
    [] OTHER -> LET r == CheckSlotUses(f, UsersOf(f, pop.def), For(q, root))
                IN  IF r.ok THEN CheckScope(Walk((CHOOSE s \in ScopesOf(f, pop) : TRUE).arms[1]), pop, r) ELSE r

(***************************************************************************)
(* runOnOperation, one root at a time.                                     *)
(***************************************************************************)
Pops == FlattenSeq([i \in DOMAIN code.order |->
  LET f == code.order[i]
      pops == SelectSeq(TextOf(f), LAMBDA s : s.op = "pop")
  IN  [j \in DOMAIN pops |-> [f |-> f, s |-> pops[j]]]])
AnonymousPopTypes == {p.s.ty : p \in {p \in Range(Pops) : p.s.ids = {}}}

\* spscWhenLoopsRunOnce.
SpscWhenLoopsRunOnce(root) ==
  /\ root.topology # "unknown"
  /\ root.topology \in {"mpsc", "mpmc"} => "producers" \in root.loops
  /\ root.topology \in {"spmc", "mpmc"} => "consumers" \in root.loops

RECURSIVE CheckPops(_, _, _)
CheckPops(pops, root, q) ==
  IF pops = <<>> THEN Allows(q)
  ELSE LET r == CheckPop(Head(pops).f, Head(pops).s, root, q) IN IF r.ok THEN CheckPops(Tail(pops), root, r) ELSE r
CheckRoot(root, q) ==
  LET own == SelectSeq(Pops, LAMBDA p : root.id \in p.s.ids)
  IN  IF SpscWhenLoopsRunOnce(root) /\ root.ty \notin AnonymousPopTypes /\ own # <<>>
      THEN CheckPops(own, root, q) ELSE Refuses(q)

Analyse ==
  /\ stage = "borrow" /\ todo # <<>>
  /\ \E r \in {CheckRoot(Head(todo), query)} :
       /\ query' = r
       /\ legal' = IF r.ok THEN legal \cup {Head(todo).id} ELSE legal
       /\ stage' = IF r.loops THEN "hung" ELSE stage
  /\ todo' = Tail(todo)
  /\ UNCHANGED <<code, run>>

(***************************************************************************)
(* The consumer runs.  Its stack holds what is left of a block, the        *)
(* iterations left of a loop, the slots that live, each with the element   *)
(* its shared_ptr points to, and the functions it is in, each with its     *)
(* values.  An element is named by its queue and its number.               *)
(***************************************************************************)
NoElem == [q |-> 0, n |-> 0]
Block(b) == [k |-> "block", b |-> b]
Entry(f, arg, def, e) == [k |-> "fn", f |-> f, arg |-> arg, def |-> def, env |-> "param" :> e]
Start(u) ==
  [stack |-> <<Entry(u.main, "", "", NoElem), Block(u.fns[u.main].body)>>, made |-> 0,
   lent |-> [q \in {r.id : r \in Range(u.roots)} |-> NoElem], ended |-> {}, shared |-> {}, global |-> NoElem]
Begin ==
  /\ stage = "borrow" /\ todo = <<>>
  /\ stage' = "lent"
  /\ UNCHANGED <<code, query, todo, legal, run>>

RECURSIVE Settle(_)
Settle(st) ==
  IF st = <<>> THEN st
  ELSE LET top == Last(st)
       IN  CASE top.k = "block" /\ top.b # <<>> -> st
             [] top.k = "loop" /\ top.left > 0 -> Settle(Front(st) \o <<[top EXCEPT !.left = @ - 1], Block(top.s.arms[1])>>)
             [] OTHER -> Settle(Front(st))
Frames(st, k) == {i \in DOMAIN st : st[i].k = k}
Doing == Head(Last(run.stack).b)
Rest == Append(Front(run.stack), Block(Tail(Last(run.stack).b)))
Fn == run.stack[Max(Frames(run.stack, "fn"))]
Value(v) == IF v \in DOMAIN Fn.env THEN Fn.env[v] ELSE NoElem
Bind(st, v, e) == [st EXCEPT ![Max(Frames(st, "fn"))].env = (v :> e) @@ @]
Held(slot) == {i \in Frames(run.stack, "slot") : run.stack[i].name = slot}
InSlot(slot) == run.stack[Max(Held(slot))].e
Go(r, st) == /\ run' = [r EXCEPT !.stack = Settle(st)]
             /\ UNCHANGED <<code, query, stage, todo, legal>>
AtOp(ops) == stage = "lent" /\ run.stack # <<>> /\ Doing.op \in ops

\* try_pop of spsc_inline ends the element the last one lent, and lends the next; any other queue's
\* hands out an element of its own.
ActsOn(s) == IF s.ids # {} THEN s.ids ELSE {r.id : r \in {r \in Range(code.roots) : r.ty = s.ty}}
Pop ==
  /\ AtOp({"pop"}) /\ run.made < MaxPops
  /\ \E q \in ActsOn(Doing) :
       LET e == [q |-> q, n |-> run.made + 1]
           kept == ~Transfer(Doing) /\ Held(Doing.def) # {}
       IN  Go([run EXCEPT !.made = @ + 1, !.ended = (@ \cup {run.lent[q]}) \ {NoElem},
                          !.lent[q] = IF q \in legal /\ ~Transfer(Doing) THEN e ELSE NoElem],
              IF kept THEN [Rest EXCEPT ![Max(Held(Doing.def))].e = e] ELSE Rest)

\* The shared_ptr is looked through, or copied to where it outlives the slot.
Get == AtOp({"get"}) /\ Go(run, Bind(Rest, Doing.def, InSlot(Doing.of)))
Share == AtOp({"share"}) /\ Go([run EXCEPT !.shared = @ \cup {InSlot(Doing.of)}], Rest)

\* What becomes of a pointer.
Derive == AtOp({"step", "toint"}) /\ Go(run, Bind(Rest, Doing.def, Value(Doing.of)))
Keep == /\ AtOp({"keep"})
        /\ IF Doing.to \in code.fns[Fn.f].locals THEN Go(run, Bind(Rest, Doing.to, Value(Doing.of)))
           ELSE Go([run EXCEPT !.global = Value(Doing.of)], Rest)
Load == AtOp({"load"}) /\ Go(run, Bind(Rest, Doing.def, Value(Doing.to)))
LetOut == AtOp({"addr"}) /\ Go([run EXCEPT !.global = Value(Doing.to)], Rest)
Pass == AtOp({"ask", "read", "push"}) /\ Go(run, Rest)

\* Calls.  A function that is not here keeps the pointer it is given.
Callee(s) == CASE s.op = "call" \/ s.to \in DOMAIN code.fns -> s.to
               [] s.to = "param" -> Fn.arg
               [] OTHER -> s.arg
Call ==
  /\ AtOp({"call", "icall"}) /\ Len(run.stack) < MaxNest
  /\ IF Present(Callee(Doing))
     THEN Go(run, Rest \o <<Entry(Callee(Doing), Doing.arg, Doing.def, Value(Doing.of)), Block(code.fns[Callee(Doing)].body)>>)
     ELSE Go(IF Doing.of = "" THEN run ELSE [run EXCEPT !.global = Value(Doing.of)], Rest)
Return ==
  /\ AtOp({"return"})
  /\ LET below == SubSeq(run.stack, 1, Max(Frames(run.stack, "fn")) - 1)
     IN  Go(run, IF below = <<>> \/ Fn.def = "" THEN below ELSE Bind(below, Fn.def, Value(Doing.of)))

Nest ==
  /\ AtOp({"scope", "if"})
  /\ \E a \in DOMAIN Doing.arms :
       LET slot == IF Doing.op = "scope" THEN <<[k |-> "slot", name |-> Doing.def, e |-> NoElem]>> ELSE <<>>
       IN  Go(run, Rest \o slot \o <<Block(Doing.arms[a])>>)
Loop == AtOp({"loop"}) /\ Go(run, Append(Rest, [k |-> "loop", s |-> Doing, left |-> Doing.n]))

BorrowInit(s) ==
  /\ code \in Range(BorrowUnits) /\ stage = s /\ todo = code.roots /\ legal = {}
  /\ query = Checker /\ run = Start(code)
BorrowNext ==
  \/ Analyse \/ Begin
  \/ Pop \/ Get \/ Share \/ Derive \/ Keep \/ Load \/ LetOut \/ Pass \/ Call \/ Return \/ Nest \/ Loop
BorrowSpec == BorrowInit("borrow") /\ [][BorrowNext]_borrowVars

(***************************************************************************)
(* Properties.                                                             *)
(***************************************************************************)
Owned == {run.stack[i].e : i \in Frames(run.stack, "slot")} \cup run.shared

(* LentWhileHeld: an element of a queue marked wtc.borrowed is not ended   *)
(* while the program holds a shared_ptr to it, in the slot of its pop or   *)
(* in a copy: the pop that ends it comes after.  The written queue gave    *)
(* the consumer an element of its own, so this is what makes lending it    *)
(* unseen (checkSlotUses and checkScope; docs/correctness.md, Lemma 2).    *)
LentWhileHeld == stage = "lent" => Owned \cap run.ended = {}

(* AlwaysAnswers: the pass reaches a verdict on every queue it looks at:   *)
(* "the root then gets wtc.borrowed", or "a remark names the first use     *)
(* that stands in the way otherwise" (WTCBorrowAnalysis.cpp:53).           *)
AlwaysAnswers == stage # "hung"
=============================================================================
