----------------------------- MODULE LockedClass -----------------------------
(***************************************************************************)
(* How the lifting pass judges a class that guards a container with its    *)
(* mutex (LiftLockedQueues.cpp).  A method is a sequence of statements     *)
(*   [op, what, cv, cond, val, ty]                                         *)
(* read one at a time, as the Reader walks it: "lock", "unlock" (by the    *)
(* end of its "scope" or by a "call"), "call" (of a function of the        *)
(* container), "out" (the front assigned to the parameter), "wait",        *)
(* "guard" (if (cond) return val), "room" (if (cond) { push; flag = true;  *)
(* }), "flagif" (if (flag) notify), "timedout" (if (!waited) return val),  *)
(* "notify", "set" (a flag), "touch" (another member), "local", "loop",    *)
(* "foreign" (any other call) and "return".  What was read decides the     *)
(* method's role, the roles decide whether the class lifts, and a class    *)
(* lifts only in a program whose other files cannot reach it.              *)
(***************************************************************************)
EXTENDS RingReading, ValueSets

VARIABLES rd,     \* the Reader: the method it is in, the lock, and the statements it has kept
          cand    \* the candidate: the flag its waits read, its element type, its methods, the refusals
classVars == <<rd, cand>>

Start(m) == [fn |-> m, pc |-> 1, held |-> FALSE, cs |-> 0, next |-> 0, slot |-> FALSE, timed |-> FALSE, flags |-> {},
             stmts |-> <<>>, why |-> FALSE, before |-> {}]
NoMethod == <<>>
ClassInit ==
  /\ rd = Start(0)
  /\ cand = [stop |-> "", elem |-> "", emplaces |-> FALSE, methods |-> NoMethod, reasons |-> {}]

IsRing == unit.kind = "ring" /\ roles # {}
OpName(f) == IF IsRing THEN OpOf(f) ELSE f
Body == unit.methods[rd.fn].body
Now == Body[rd.pc]
Refuse(r) == cand' = [cand EXCEPT !.reasons = @ \cup r]

\* A candidate: something puts into the container and something takes out of it, in a method that locks.
PutNames == {"push", "push_back", "push_front", "emplace", "emplace_back", "emplace_front", "insert"}
TakeNames == {"pop", "pop_front", "pop_back", "front", "back", "erase"}
CallsIn(m) == {s \in Range(unit.methods[m].body) : s.op \in {"call", "room"}}
Calls(names) == {m \in DOMAIN unit.methods : \E s \in CallsIn(m) : s.what \in names}
Locks(m) == \E s \in Range(unit.methods[m].body) : s.op = "lock"
IsCandidate == /\ Calls(PutNames) # {} /\ Calls(TakeNames) # {}
               /\ \E m \in Calls(PutNames \cup TakeNames) : Locks(m)

(***************************************************************************)
(* Conditions: their truth table over (empty, stopped, full).              *)
(***************************************************************************)
Tables == [e : BOOLEAN, s : BOOLEAN, f : BOOLEAN]
NotEmpty == {x \in Tables : ~x.e}
NotEmptyOrStop == {x \in Tables : ~x.e \/ x.s}
Empty == {x \in Tables : x.e}
NotFull == {x \in Tables : ~x.f}

RECURSIVE Leaves(_)
Leaves(c) == IF c[1] = "not" THEN Leaves(c[2])
             ELSE IF c[1] \in {"and", "or"} THEN Leaves(c[2]) \cup Leaves(c[3]) ELSE {c}
RECURSIVE Holds(_, _)
Holds(c, x) == CASE c[1] = "not" -> ~Holds(c[2], x)
                 [] c[1] = "and" -> Holds(c[2], x) /\ Holds(c[3], x)
                 [] c[1] = "or" -> Holds(c[2], x) \/ Holds(c[3], x)
                 [] c[1] = "flag" -> x.s
                 [] OTHER -> IF OpName(c[2]) = "empty" THEN x.e ELSE x.f
Flags(c) == {l[2] : l \in {k \in Leaves(c) : k[1] = "flag"}}
LeafReason(l) ==
  CASE l[1] = "call" /\ OpName(l[2]) = "empty" -> {}
    [] l[1] = "call" /\ OpName(l[2]) = "full" -> IF IsRing THEN {} ELSE {"asks full"}
    [] l[1] = "call" -> {"decides on a count"}
    [] l[1] = "member" -> {"another member guarded"}
    [] OTHER -> {}
Strange(c) == UNION {LeafReason(l) : l \in Leaves(c)}
TwoFlags(c) == IF Cardinality((Flags(c) \cup {cand.stop}) \ {""}) > 1 THEN {"two flags"} ELSE {}
Readable(c) == Strange(c) \cup TwoFlags(c) = {} /\ \A l \in Leaves(c) : l[1] # "local"
Table(c) == {x \in Tables : Holds(c, x)}

(***************************************************************************)
(* The Reader, one statement at a time.  A failure does not stop the walk. *)
(***************************************************************************)
Read(r) == rd' = [r EXCEPT !.pc = @ + 1]
Fails == [rd EXCEPT !.why = TRUE]
Kept(k, t) == [rd EXCEPT !.stmts = Append(@, [k |-> k, held |-> rd.held, cs |-> rd.cs, s |-> Now, table |-> t])]
Keep(k) == Read(Kept(k, {})) /\ UNCHANGED cand
Fail(r) == Read(Fails) /\ Refuse(r)

\* lock_guard, unique_lock, scoped_lock on the class's mutex, or the mutex's own lock().
ReadLock ==
  /\ Now.op = "lock"
  /\ IF Now.what = "other" \/ rd.held THEN Fail({})
     ELSE /\ Read([rd EXCEPT !.held = TRUE, !.cs = rd.next + 1, !.next = rd.next + 1, !.slot = @ \/ Now.what = "guard"])
          /\ UNCHANGED cand
ReadUnlock ==
  /\ Now.op = "unlock"
  /\ CASE Now.what = "scope" -> Read(IF rd.why THEN rd ELSE [rd EXCEPT !.held = FALSE, !.slot = FALSE]) /\ UNCHANGED cand
       [] Now.what = "call" /\ rd.held -> Read([rd EXCEPT !.held = FALSE]) /\ UNCHANGED cand
       [] OTHER -> Fail({})

\* An element constructed from a value of one type throughout.
Types(s, then) ==
  IF cand.elem \notin {"", s.ty} THEN Fail({"another type"})
  ELSE /\ cand' = [cand EXCEPT !.elem = s.ty, !.emplaces = @ \/ s.what \in {"emplace", "emplace_back"}]
       /\ Read(IF s.val = "param" THEN then ELSE Fails)
ReadCall ==
  LET b == OpName(Now.what)
  IN  /\ Now.op = "call"
      /\ CASE b = "none" -> Fail({"a ring function the pass cannot read"})
           [] b # "none" /\ ~rd.held -> Fail(IF rd.why THEN {} ELSE {"touches without the mutex"})
           [] rd.held /\ (b = "empty" \/ (b = "full" /\ IsRing)) -> Read(rd) /\ UNCHANGED cand
           [] rd.held /\ b \in {"size", "count"} /\ IsRing -> Keep("getter")
           [] rd.held /\ b = "reset" /\ IsRing -> Keep("reset")
           [] rd.held /\ b = "front" -> Keep("front")
           [] rd.held /\ b \in {"pop", "pop_front"} -> Keep("pop")
           [] rd.held /\ b \in {"push", "push_back", "emplace", "emplace_back"} -> Types(Now, Kept("push", {}))
           [] OTHER -> Fail({"not a FIFO operation"})
ReadOut == Now.op = "out" /\ IF Now.what = "param" THEN Keep("out") ELSE Fail({})

\* wait(lock, predicate), while (cond) wait(lock), or a wait with a time limit; the flag a condition
\* reads becomes the stop flag.
Condition(c, r) ==
  IF Readable(c) THEN /\ cand' = [cand EXCEPT !.stop = IF Flags(c) = {} THEN @ ELSE CHOOSE f \in Flags(c) : TRUE]
                      /\ Read(r)
  ELSE Fail(Strange(c) \cup TwoFlags(c))
UnderLock == rd.held /\ rd.slot
ReadWait ==
  /\ Now.op = "wait" /\ Now.what \in {"bare", "branch", "pred"}
  /\ CASE Now.what # "pred" -> Fail({"waits outside a predicate loop"})
       [] Now.what = "pred" /\ ~UnderLock -> Fail({})
       [] Now.what = "pred" /\ UnderLock -> Condition(Now.cond, Kept("wait", Table(Now.cond)))
ReadWhile ==
  /\ Now.op = "wait" /\ Now.what = "while"
  /\ IF UnderLock THEN Condition(Now.cond, Kept("wait", Tables \ Table(Now.cond))) ELSE Fail({})
ReadTimedWait ==
  /\ Now.op = "wait" /\ Now.what = "timed"
  /\ CASE ~IsRing \/ Now.val = "unit" -> Fail({"waits with a time-out"})
       [] IsRing /\ Now.val # "unit" /\ ~UnderLock -> Fail({})
       [] OTHER -> Condition(Now.cond, [Kept("timed", Table(Now.cond)) EXCEPT !.timed = TRUE])
ReadTimedOut ==
  /\ Now.op = "timedout"
  /\ IF rd.timed /\ Now.val = "false" THEN Read([Kept("timedout", {}) EXCEPT !.timed = FALSE]) /\ UNCHANGED cand
     ELSE Fail({})
ReadGuard ==
  /\ Now.op = "guard"
  /\ IF Now.what # "" THEN Fail({}) ELSE Condition(Now.cond, Kept("guard", Table(Now.cond)))

\* if (!full) { push; flag = true; } in a critical section of its own, and what follows it.
ReadRoom ==
  LET c == Now.cond
  IN  /\ Now.op = "room"
      /\ CASE ~rd.held \/ OpName(Now.what) # "push" \/ Now.val = "more" -> Fail({})
           [] ~Readable(c) -> Fail(Strange(c) \cup TwoFlags(c))
           [] OTHER -> Types(Now, IF rd.slot THEN [Kept("room", Table(c)) EXCEPT !.flags = @ \cup ({Now.cv} \ {""})]
                                  ELSE Fails)
ReadFlagIf ==
  /\ Now.op = "flagif"
  /\ IF rd.held \/ Now.val \notin rd.flags \/ Now.what = "more" THEN Fail({})
     ELSE Read([Kept("notify", {}) EXCEPT !.stmts = Append(@, [Last(@) EXCEPT !.k = "flagif"])]) /\ UNCHANGED cand

ReadNotify == Now.op = "notify" /\ Keep("notify")
ReadSet ==
  /\ Now.op = "set"
  /\ CASE Now.val # "true" -> Fail(IF rd.held THEN {"another member guarded"} ELSE {})
       [] Now.val = "true" /\ ~rd.held -> Fail({"a flag set without the mutex"})
       [] OTHER -> Keep("stop")
ReadTouch == Now.op = "touch" /\ Fail(IF rd.held THEN {"another member guarded"} ELSE {})
ReadLocal == Now.op = "local" /\ IF Now.what = "" THEN Read(rd) /\ UNCHANGED cand ELSE Fail({})
ReadOther == Now.op \in {"loop", "foreign"} /\ Fail({})
ReadReturn ==
  /\ Now.op = "return"
  /\ IF Now.val = "other" THEN Fail({}) ELSE Keep("return")

(***************************************************************************)
(* decide: the role of a method, from the statements kept.                 *)
(***************************************************************************)
Refusal(why) == [role |-> "", why |-> {why}]
Is(role) == [role |-> role, why |-> {}]
Touching(st) == SelectSeq(st, LAMBDA x : x.k \notin {"notify", "flagif", "return"})
Kinds(q) == [j \in DOMAIN q |-> q[j].k]
Takes == <<"front", "out", "pop">>
Returned(st) == LET r == SelectSeq(st, LAMBDA x : x.k = "return") IN IF r = <<>> THEN "" ELSE Last(r).s.val

HeldNotify(st) == \E j \in DOMAIN st : st[j].k = "notify" /\ st[j].held
LetsGo(q) == \E i, j \in DOMAIN q : q[i].cs # q[j].cs
AlsoSets(q) == Len(q) > 1 /\ \E j \in DOMAIN q : q[j].k = "stop"

RingRole(q, st) ==
  LET ks == Kinds(q)
      void == Returned(st) = ""
      t == q[1].table
      flag == q[1].s.cv
  IN  CASE ks = <<"wait", "push">> -> IF t # NotFull \/ ~void THEN Refusal("waits for room") ELSE Is("PushWait")
        [] ks = <<"room">> ->
             IF t # NotFull \/ ~void \/ (flag # "" /\ ~\E j \in DOMAIN st : st[j].k = "flagif" /\ st[j].s.val = flag)
             THEN Refusal("may decline") ELSE Is("TryPush")
        [] ks = <<"push">> -> IF ~void THEN Refusal("overruns") ELSE Is("PushOverrun")
        [] ks = <<"timed", "timedout">> \o Takes ->
             IF t # NotEmpty \/ Returned(st) # "true" THEN Refusal("timed pop") ELSE Is("PopWaitFor")
        [] ks = <<"getter">> -> IF Returned(st) # "getter" THEN Refusal("reads a count")
                                ELSE Is(IF OpName(q[1].s.what) = "size" THEN "Size" ELSE "OverrunCounter")
        [] ks = <<"reset">> -> IF ~void THEN Refusal("resets") ELSE Is("ResetOverrun")
        [] OTHER -> Is("")
PlainRole(q, st) ==
  LET ks == Kinds(q)
      ret == Returned(st)
      t(j) == q[j].table
  IN  CASE ks = <<"push">> -> IF ret \notin {"", "true"} THEN Refusal("pushes and returns") ELSE Is("Push")
        [] ks = <<"guard">> \o Takes ->
             IF t(1) # Empty \/ q[1].s.val # "false" \/ ret # "true" THEN Refusal("try-pop") ELSE Is("TryPop")
        [] ks = <<"wait">> \o Takes -> IF t(1) # NotEmpty \/ ret # "" THEN Refusal("blocking pop") ELSE Is("PopWait")
        [] ks = <<"wait", "guard">> \o Takes ->
             IF \/ t(1) # NotEmptyOrStop
                \/ t(2) \cap NotEmptyOrStop # Empty \cap NotEmptyOrStop
                \/ q[2].s.val # "false" \/ ret # "true"
             THEN Refusal("closable pop") ELSE Is("PopWaitClosed")
        [] ks = <<"stop">> -> IF ret # "" THEN Refusal("close") ELSE Is("Close")
        [] OTHER -> Refusal("none of the operations")

Decide_Anywhere(st) ==
  LET q == Touching(st)
  IN  CASE HeldNotify(st) -> Refusal("notifies with the mutex held")
        [] AlsoSets(q) -> Refusal("another member guarded")
        [] q # <<>> /\ IsRing /\ RingRole(q, st) # Is("") -> RingRole(q, st)
        [] OTHER -> PlainRole(q, st)
Decide(st) ==
  LET q == Touching(st)
  IN  CASE HeldNotify(st) -> Refusal("notifies with the mutex held")
        [] \E j \in DOMAIN q : ~q[j].held -> Refusal("touches without the mutex")
        [] LetsGo(q) -> Refusal("lets the mutex go")
        [] AlsoSets(q) -> Refusal("another member guarded")
        [] q # <<>> /\ IsRing /\ RingRole(q, st) # Is("") -> RingRole(q, st)
        [] OTHER -> PlainRole(q, st)

\* The method is read: the next one, or the class.
ReadEnd ==
  LET st == rd.stmts
      q == Touching(st)
  IN  \E d \in {IF rd.why THEN Refusal("none of the operations") ELSE Decide(st)} :
        /\ cand' = [cand EXCEPT
             !.reasons = IF rd.why /\ @ # rd.before THEN @ ELSE @ \cup d.why,
             !.methods = Append(@, [role |-> d.role, fn |-> rd.fn,
                ret |-> Returned(st), waitCv |-> IF q # <<>> /\ q[1].k \in {"wait", "timed"} THEN q[1].s.cv ELSE "",
                flag |-> IF d.role = "Close" THEN q[1].s.what ELSE "",
                copies |-> \E j \in DOMAIN q : q[j].k = "out" /\ q[j].s.val = "copy",
                notifies |-> {<<st[j].s.cv, st[j].s.what = "all">> : j \in {i \in DOMAIN st : st[i].k = "notify"}}])]
        /\ rd' = [Start(rd.fn + 1) EXCEPT !.before = cand'.reasons]

Reader ==
  /\ rd.fn \in DOMAIN unit.methods
  /\ IF rd.pc > Len(Body) THEN ReadEnd
     ELSE \/ ReadLock \/ ReadUnlock \/ ReadCall \/ ReadOut \/ ReadWait \/ ReadWhile \/ ReadTimedWait \/ ReadTimedOut
          \/ ReadGuard \/ ReadRoom \/ ReadFlagIf \/ ReadNotify \/ ReadSet \/ ReadTouch \/ ReadLocal \/ ReadOther \/ ReadReturn
AllRead == rd.fn > Len(unit.methods)

(***************************************************************************)
(* analyse: the class.                                                     *)
(***************************************************************************)
If(p, why) == IF p THEN {why} ELSE {}
Methods == Range(cand.methods)
With(rs) == {m \in Methods : m.role \in rs}
Pushes == With({"Push", "PushWait", "TryPush", "PushOverrun"})
Pops == With({"TryPop", "PopWait", "PopWaitClosed", "PopWaitFor"})
PopWaits == With({"PopWait", "PopWaitClosed", "PopWaitFor"})
PushWaits == With({"PushWait"})
Closes == With({"Close"})

\* The container: a std::deque or std::list, or a std::queue over one, with the standard allocator;
\* or a ring the pass reads.
Container ==
  CASE unit.kind = "queue" -> If(unit.under \notin {"deque", "list"}, "another container")
                              \cup If(unit.under \in {"deque", "list"} /\ ~unit.stdalloc, "another allocator")
    [] unit.kind \in {"deque", "list"} -> If(~unit.stdalloc, "another allocator")
    [] unit.kind \in {"vector", "priority"} -> {"not FIFO"}
    [] OTHER -> If(roles = {}, "not a ring")
Members == If(unit.mutexes > 1, "two mutexes") \cup If(unit.anyCv, "condition_variable_any")

\* Constructors build the container and start the flag the waits read as false, by a constant.
Constructors ==
  UNION {If(c.build # (IF IsRing THEN "sized" ELSE "default"), "builds the container otherwise") : c \in unit.ctors}
  \cup If(unit.ctors = {}, "no constructor")
  \cup If(cand.stop # "" /\ \E c \in unit.ctors : c.flags[cand.stop] # "false", "the flag does not start false")
Others == If(unit.copied, "copied whole") \cup If(unit.outside, "touched outside its methods")
FlagSet == If(\E m \in Closes : m.flag # cand.stop, "another member guarded")
ElementType == If(cand.elem # "" /\ (IF unit.front # "" THEN cand.elem # unit.front ELSE cand.emplaces), "emplaced from another type")

\* A pop that waits is woken by every push, a push that waits for room by every pop, and a close
\* wakes every waiter; a wait that ignores the flag does not stand beside a close.
Wakes(data, space) ==
  If(data # "" /\ \E m \in Pushes : \A n \in m.notifies : n[1] # data, "a push does not notify")
  \cup If(space # "" /\ \E m \in Pops : \A n \in m.notifies : n[1] # space, "a pop does not notify")
  \cup If(data # "" /\ \E m \in Closes : <<data, TRUE>> \notin m.notifies, "a close does not wake every waiter")
Waits == If(Closes # {} /\ With({"PopWait", "PopWaitFor", "PushWait"}) # {}, "a wait that ignores the flag")
Variable(ms) == IF ms = {} THEN "" ELSE (CHOOSE m \in ms : TRUE).waitCv
Variables == If(Cardinality({m.waitCv : m \in PopWaits}) > 1 \/ Cardinality({m.waitCv : m \in PushWaits}) > 1, "two variables")

Analyse == Container \cup Members \cup Others \cup Constructors \cup FlagSet \cup ElementType \cup Variables
           \cup Waits \cup Wakes(Variable(PopWaits), Variable(PushWaits))
           \cup If(Methods = {}, "nothing pushes or pops")

\* boundedChecks: the overrun count is only handed back, and the overrunning push is left out where
\* no call of it can run.
RECURSIVE OnlyReturned(_, _)
OnlyReturned(f, seen) ==
  f \in seen \/ \A use \in unit.uses[f] : /\ use[1] # "other"
                                          /\ use[1] = "return" => OnlyReturned(use[2], seen \cup {f})
CountUsed == If(\E m \in With({"OverrunCounter"}) : ~OnlyReturned(unit.methods[m.fn].name, {}), "the overrun count decides")
MayOverrun == With({"PushOverrun"}) # {} /\ (unit.taken \/ OverrunReachable(unit))

\* closedWorld: the class is this unit's alone, and with any file linked its objects are out of reach.
Elsewhere ==
  If(unit.open, "linked with files the pass does not see") \cup If(~unit.main, "no main")
  \cup If(unit.bodyless, "a method defined elsewhere") \cup If(unit.mentioned, "named elsewhere")
  \cup If(unit.linked /\ unit.reach # {}, "within another file's reach")

\* lift: the runtime moves elements out, which for a copy is the same only where copying is trivial.
Lacking == If(unit.hidden, "cannot be named")
           \cup If(~unit.trivial /\ \E m \in With({"TryPop", "PopWait", "PopWaitClosed"}) : m.copies, "copies the element out")
=============================================================================
