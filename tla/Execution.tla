------------------------------ MODULE Execution ------------------------------
(***************************************************************************)
(* The compiled unit as it runs: what the statements of Code do, one step  *)
(* each, on threads that interleave.  A thread is a stack of frames; every *)
(* frame knows the instance of the walk it is a run of, or 0.  A branch    *)
(* goes either way, a counted loop runs up to its bound, any other a few   *)
(* times, a launch starts one thread per worker core.  Other translation   *)
(* units call the functions they can name and use the queues they were     *)
(* given.  Constructors build the implementation that Specialise chose.    *)
(***************************************************************************)
EXTENDS Specialise

CONSTANTS MaxThreads, MaxDepth,   \* how many threads a run has, and frames a thread
          MaxLaps,                \* how often a loop without a count, or a goto, goes round
          Values,                 \* what an integer variable holds
          Cores                   \* how many worker cores a launch may find

VARIABLES stacks,     \* the threads
          objects,    \* the queues built so far: who pushed, who popped
          held,       \* the queue each global, element or pointer global holds, 0 for none
          vals,       \* the integer variables
          known,      \* the queues code out of sight may use
          spawned,    \* whether a thread has been started
          ran, started   \* how often each instance was entered, and threads started by it

runVars == <<stacks, objects, held, vals, known, spawned, ran, started>>

Cells == UNION {{<<g, at>> : at \in {"whole", "e0", "e1"}} : g \in DOMAIN P.globals}
RunInit == /\ stacks = <<>> /\ objects = <<>> /\ known = {} /\ spawned = FALSE
           /\ held = <<>> /\ vals = <<>> /\ ran = <<>> /\ started = <<>>

Loops(f) == {s \in Stmts(f) : OpAt(f, s) \in {"loop", "goto"}}
Frame(f, i, args, fn, n, tag) ==
  [f |-> f, at |-> IF P.body[f] = <<>> THEN <<>> ELSE <<1>>, inst |-> i, args |-> args, fn |-> fn, n |-> n,
   tag |-> tag, laps |-> [l \in Loops(f) |-> 0], locals |-> [x \in P.locals |-> 0]]

Live(t) == stacks[t] # <<>>
Top(t) == Last(stacks[t])
Here(t) == At(Top(t).f, Top(t).at)
Running(t) == Live(t) /\ Top(t).at # <<>>

\* Where control goes after a statement, into an arm of one, and the statement a break leaves.
After(fr, s) == P.text[fr.f].after[s]
Into(fr, a) == P.text[fr.f].into[fr.at][a]
Left(fr) == CHOOSE h \in Holders(fr.at) :
  /\ OpAt(fr.f, h) \in {"loop", "switch"}
  /\ \A g \in Holders(fr.at) : OpAt(fr.f, g) \in {"loop", "switch"} => Len(g) <= Len(h)

\* A thread's top frame replaced, and another pushed onto it.
Now(t, fr) == [stacks EXCEPT ![t] = Append(Front(@), fr)]
Goto(t, fr, s) == Now(t, [fr EXCEPT !.at = s])
Onwards(t, fr) == Goto(t, fr, After(fr, fr.at))
Called(t, fr, callee) == [stacks EXCEPT ![t] = Front(@) \o <<[fr EXCEPT !.at = After(fr, fr.at)], callee>>]

\* The queues a place may name now; 0 is none.
Queues(fr, pl) ==
  CASE pl.base = "global" -> IF pl.at = "any" THEN {held[<<pl.root, e>>] : e \in {"e0", "e1"}}
                             ELSE {held[<<pl.root, pl.at>>]}
    [] pl.base = "slot" -> {held[<<pl.root, "whole">>]}
    [] pl.base = "local" -> {fr.locals[pl.root]}
    [] pl.base = "param" -> {IF pl.root <= Len(fr.args) THEN fr.args[pl.root] ELSE 0}
Arguments(fr, st) == {a \in [1 .. Len(st.args) -> 0 .. Len(objects)] :
                        \A k \in 1 .. Len(st.args) : a[k] \in Queues(fr, st.args[k])}
Value(fr, var) == IF var = "" THEN 0 ELSE IF var = "param" THEN fr.n ELSE vals[var]
Function(fr, name) == IF name = "param" THEN fr.fn ELSE name

\* The instance a call or a spawn at the top of a thread is a run of, and its entry.
ChildOf(i, s, f, new) ==
  LET js == {j \in Index : /\ instances[j].parent = i /\ instances[j].site = s /\ instances[j].func = f
                           /\ (instances[j].thread # instances[i].thread) = new}
  IN  IF i = 0 \/ js = {} THEN 0 ELSE CHOOSE j \in js : TRUE
CountedIn(i, n) == IF i = 0 THEN ran ELSE [ran EXCEPT ![i] = @ + n]
Begun(i, n) == IF i = 0 THEN started ELSE [started EXCEPT ![i] = @ + n]

\* What the constructor builds: the tag of the plan, read where it is settled, of the rewritten
\* call, or of the program.
OneSide(fr, b, many) == IF b.known THEN Value(fr, b.var) <= b.limit ELSE ~many
ChosenAt(fr, plan) == ImplAt(OneSide(fr, plan.p, plan.manyP), OneSide(fr, plan.c, plan.manyC))
TagOf(fr, st, c) ==
  IF fr.tag # "" THEN fr.tag
  ELSE IF c \in DOMAIN choice.plans /\ choice.plans[c].site = c THEN ChosenAt(fr, choice.plans[c])
  ELSE IF c \in DOMAIN choice.tags THEN choice.tags[c] ELSE st.tag
TagPassed(fr, f) ==
  LET cs == {c \in DOMAIN choice.plans : c[1] = f /\ choice.plans[c].site = <<fr.f, fr.at>>}
  IN  IF cs = {} THEN "" ELSE ChosenAt(fr, choice.plans[CHOOSE c \in cs : TRUE])

\* The key the analysis has for a queue built by a statement.
InArray(k) == IF k[1] \in analysis.arrays THEN <<k[1], "elements">> ELSE k
KeyOf(fr, st, at) ==
  InArray(IF st.op = "new" THEN <<<<"heap", fr.f, fr.at>>, "whole">>
          ELSE IF st.args[1].base = "local" THEN <<<<"local", fr.f, st.args[1].root>>, at>>
          ELSE <<<<"global", st.args[1].root>>, at>>)

-----------------------------------------------------------------------------
\* The statements, on thread t, whose top frame is fr, at statement st.

Build(t, fr, st, pl) ==
  /\ \E at \in (IF pl.at = "any" THEN {"e0", "e1"} ELSE {pl.at}) :
       /\ objects' = Append(objects, [key |-> KeyOf(fr, st, at), impl |-> TagOf(fr, st, <<fr.f, fr.at>>),
                                      pushed |-> {}, popped |-> {}])
       /\ IF pl.base = "local"
          THEN /\ stacks' = Now(t, [fr EXCEPT !.at = After(fr, @), !.locals[pl.root] = Len(objects) + 1])
               /\ UNCHANGED held
          ELSE /\ held' = [held EXCEPT ![<<pl.root, at>>] = Len(objects) + 1]
               /\ stacks' = Onwards(t, fr)
  /\ UNCHANGED <<vals, known, spawned, ran, started>>

Use(t, fr, st) ==
  /\ \E o \in Queues(fr, st.args[1]) :
       objects' = IF o = 0 THEN objects
                  ELSE [objects EXCEPT ![o].pushed = IF st.op \in {"push", "overrun"} THEN @ \cup {t} ELSE @,
                                       ![o].popped = IF st.op \in {"pop", "overrun"} THEN @ \cup {t} ELSE @]
  /\ stacks' = Onwards(t, fr)
  /\ UNCHANGED <<held, vals, known, spawned, ran, started>>

CallFunction(t, fr, st) ==
  /\ Len(stacks[t]) < MaxDepth
  /\ \E args \in Arguments(fr, st), i \in {ChildOf(fr.inst, fr.at, st.to, FALSE)} :
       /\ stacks' = Called(t, fr, Frame(st.to, i, args, Function(fr, st.fn), Value(fr, st.n), TagPassed(fr, st.to)))
       /\ ran' = CountedIn(i, 1)
  /\ UNCHANGED <<objects, held, vals, known, spawned, started>>

CallThrough(t, fr, st) ==
  /\ Len(stacks[t]) < MaxDepth
  /\ \E args \in Arguments(fr, st) :
       \/ /\ \E f \in facts.taken : stacks' = Called(t, fr, Frame(f, 0, args, "", 0, ""))
          /\ UNCHANGED known
       \/ /\ P.named # {} /\ known' = known \cup Range(args)
          /\ stacks' = Onwards(t, fr)
  /\ UNCHANGED <<objects, held, vals, spawned, ran, started>>

\* A spawn starts one thread, a launch one on every worker core and perhaps runs on this one.
Spawn(t, fr, st, f, too) ==
  /\ \E args \in Arguments(fr, st), n \in (IF st.op = "launch" THEN Cores ELSE {1}),
        i \in {ChildOf(fr.inst, fr.at, f, TRUE)}, j \in {ChildOf(fr.inst, fr.at, f, FALSE)} :
       /\ Len(stacks) + n <= MaxThreads
       /\ stacks' = (IF too THEN Called(t, fr, Frame(f, j, args, "", 0, "")) ELSE Onwards(t, fr))
                      \o [k \in 1 .. n |-> <<Frame(f, i, args, "", 0, "")>>]
       /\ ran' = IF too /\ j # 0 THEN [CountedIn(i, n) EXCEPT ![j] = @ + 1] ELSE CountedIn(i, n)
       /\ started' = Begun(i, n)
  /\ spawned' = TRUE
  /\ UNCHANGED <<objects, held, vals, known>>

Extern(t, fr, st) ==
  /\ \E args \in Arguments(fr, st) : known' = known \cup Range(args)
  /\ vals' \in {v \in [DOMAIN vals -> Values] : \A x \in DOMAIN vals : x \notin P.shared => v[x] = vals[x]}
  /\ stacks' = Onwards(t, fr)
  /\ UNCHANGED <<objects, held, spawned, ran, started>>

Store(t, fr, st) ==
  /\ \E o \in Queues(fr, st.args[1]) : held' = [held EXCEPT ![<<st.to, "whole">>] = o]
  /\ stacks' = Onwards(t, fr)
  /\ UNCHANGED <<objects, vals, known, spawned, ran, started>>
Set(t, fr, st) ==
  /\ \E v \in Values : vals' = [vals EXCEPT ![st.to] = v]
  /\ stacks' = Onwards(t, fr)
  /\ UNCHANGED <<objects, held, known, spawned, ran, started>>

\* Control.
Around(t, fr, s, laps) == Now(t, [fr EXCEPT !.at = s, !.laps[fr.at] = laps])
Loop(t, fr, st, laps, limit) ==
  \/ /\ (IF st.n = "" THEN laps < MaxLaps ELSE laps < limit)
     /\ stacks' = Around(t, fr, Into(fr, 1), laps + 1)
  \/ ~(st.n # "" /\ laps < limit) /\ stacks' = Around(t, fr, After(fr, fr.at), 0)
BreakOut(t, fr, h) ==
  stacks' = Now(t, [fr EXCEPT !.at = After(fr, h),
                              !.laps = [l \in DOMAIN @ |-> IF l = h THEN 0 ELSE @[l]]])
Jump(t, fr, st) ==
  \/ st.op \in {"if", "switch"} /\ \E a \in 1 .. Len(st.arms) : stacks' = Goto(t, fr, Into(fr, a))
  \/ st.op = "break" /\ BreakOut(t, fr, Left(fr))
  \/ st.op = "return" /\ stacks' = Goto(t, fr, <<>>)
  \/ st.op \in {"goto", "take"} /\ stacks' = Onwards(t, fr)
  \/ st.op = "goto" /\ fr.laps[fr.at] < MaxLaps /\ stacks' = Around(t, fr, <<1>>, fr.laps[fr.at] + 1)
  \/ st.op = "loop" /\ Loop(t, fr, st, fr.laps[fr.at], Value(fr, st.n) + (IF st.tag = "inclusive" THEN 1 ELSE 0))
Control(t, fr, st) == Jump(t, fr, st) /\ UNCHANGED <<objects, held, vals, known, spawned, ran, started>>
Return(t) == /\ stacks' = [stacks EXCEPT ![t] = Front(@)]
             /\ UNCHANGED <<objects, held, vals, known, spawned, ran, started>>

\* Steps no other thread can tell from any other order go first, lowest thread first: what they
\* read and write is the thread's own, or only ever grows.
Private(st) == /\ st.op \notin {"build", "new", "store", "set", "extern"}
               /\ st.n \in {"", "param"}
               /\ \A k \in 1 .. Len(st.args) : st.args[k].base # "slot"
Alone(t) == Live(t) /\ (IF Top(t).at = <<>> THEN TRUE ELSE Private(Here(t)))
MayRun(t) == Live(t) /\ (\A u \in 1 .. t - 1 : ~Alone(u)) /\ (Alone(t) \/ \A u \in 1 .. Len(stacks) : ~Alone(u))

Statement(t, fr, st) ==
  \/ st.op \in {"build", "new"} /\ Build(t, fr, st, st.args[1])
  \/ IsQueueOp(st.op) /\ Use(t, fr, st)
  \/ st.op = "call" /\ CallFunction(t, fr, st)
  \/ st.op = "icall" /\ CallThrough(t, fr, st)
  \/ st.op \in {"spawn", "launch"} /\ Spawn(t, fr, st, Function(fr, st.to), st.op = "launch" /\ st.tag = "caller")
  \/ st.op = "extern" /\ Extern(t, fr, st)
  \/ st.op = "store" /\ Store(t, fr, st)
  \/ st.op = "set" /\ Set(t, fr, st)
  \/ Control(t, fr, st)
ThreadStep(t) ==
  /\ MayRun(t)
  /\ \E fr \in {Top(t)} : IF fr.at = <<>> THEN Return(t) ELSE \E st \in {At(fr.f, fr.at)} : Statement(t, fr, st)

\* Code out of sight: calls of functions whose address is taken or that another unit may name,
\* on threads of its own, and operations on the queues it can reach.
Callable(f) == f \in facts.taken \/ (f # "main" /\ f \in P.named \ P.internal)
Elsewhere ==
  /\ stacks # <<>> /\ \A t \in 1 .. Len(stacks) : ~Alone(t)
  /\ \/ /\ Len(stacks) < MaxThreads
        /\ \E f \in {g \in Functions : Callable(g)} : stacks' = Append(stacks, <<Frame(f, 0, <<>>, "", 0, "")>>)
        /\ UNCHANGED objects
     \/ \E o \in (known \cup {held[c] : c \in {x \in DOMAIN held : Visible(x[1])}}) \ {0} :
          /\ objects' = [objects EXCEPT ![o].pushed = @ \cup {MaxThreads + 1, MaxThreads + 2},
                                        ![o].popped = @ \cup {MaxThreads + 1, MaxThreads + 2}]
          /\ UNCHANGED stacks
  /\ UNCHANGED <<held, vals, known, spawned, ran, started>>
=============================================================================
