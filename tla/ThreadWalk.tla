----------------------------- MODULE ThreadWalk -----------------------------
(***************************************************************************)
(* The walk over thread instances (ThreadInstances.cpp): one instance per  *)
(* function and call string, from main, the global constructors and the    *)
(* functions some caller out of sight may run, each with the thread it     *)
(* runs on, how many threads that stands for, how often it runs and        *)
(* whether it runs before any thread has been started.  What the walk      *)
(* asks of the text (which functions can start a thread, which have their  *)
(* address taken, what comes before a spawn) is read from Code.            *)
(***************************************************************************)
EXTENDS Code

CONSTANT Cap         \* kInstanceCap

VARIABLES instances, \* in the order the walk meets them; parent is an index, 0 for a root
          next,      \* the instance the breadth-first loop takes next
          threads,   \* nextThread_
          expanded,  \* expandedRecurrence_
          capped,    \* capExceeded_
          recurs,    \* the functions onRecursion was called for
          facts,     \* what is computed from the text before the walk
          phase      \* "facts", "roots", the first wave, "orphans", then what the passes do

walkVars == <<instances, next, threads, expanded, capped, recurs, facts>>

NoSite == <<>>

-----------------------------------------------------------------------------
\* What the walk reads from the text.

Taken == {At(x[1], x[2]).to : x \in {y \in Everywhere : OpAt(y[1], y[2]) = "take"}}

\* reachesOp: a queue operation or constructor is reached by calls and spawns; a spawn of a
\* function handed in as a parameter may reach one.
Touches(f) == \E s \in Stmts(f) :
  \/ IsQueueOp(OpAt(f, s)) \/ Builds(OpAt(f, s))
  \/ OpAt(f, s) = "spawn" /\ At(f, s).to = "param"

\* computeSpawns: by direct calls first, then by calls through a pointer if some function
\* whose address is taken can spawn.
HasOp(f, ops) == \E s \in Stmts(f) : OpAt(f, s) \in ops
Gather ==
  /\ phase = "facts" /\ phase' = "roots"
  /\ \E calls \in {[f \in Functions |-> Named(f, {"call"})]},
        entries \in {[f \in Functions |-> Named(f, {"call", "spawn", "launch"})]}, taken \in {Taken} :
     \E reach \in {[f \in Functions |-> Reach({f}, calls)]} :
     \E spawners \in {{f \in Functions : \E g \in reach[f] : HasOp(g, {"spawn", "launch"})}} :
     \E indirect \in {spawners \cap taken # {}} :
       facts' = [reach |-> reach, taken |-> taken, indirect |-> indirect,
                 recursive |-> {f \in Functions : \E g \in calls[f] : f \in reach[g]},
                 relevant |-> {f \in Functions : \E g \in Reach({f}, entries) : Touches(g)},
                 canSpawn |-> spawners \cup {f \in Functions : indirect /\ \E g \in reach[f] : HasOp(g, {"icall"})}]
  /\ UNCHANGED <<instances, next, threads, expanded, capped, recurs>>

Spawning(st) == \/ st.op \in {"spawn", "launch"}
                \/ st.op = "call" /\ st.to \in facts.canSpawn
                \/ st.op = "icall" /\ facts.indirect

\* preSpawnOps: the statements no spawn can precede, in program order.  The call that may spawn
\* is one of them, the loop that may is not.
PreSpawn_OneLap(f) ==
  LET before == {k \in 1 .. Len(Paths(f)) : \A j \in 1 .. k - 1 : ~Spawning(At(f, Paths(f)[j]))}
  IN  IF Unstructured(f) /\ f \in facts.canSpawn THEN {} ELSE {Paths(f)[k] : k \in before}
PreSpawn(f) ==
  LET ends(k) == LET s == Paths(f)[k]
                 IN  \/ Spawning(At(f, s))
                     \/ OpAt(f, s) = "loop" /\ \E q \in Inside(f, s) : Spawning(At(f, q))
      stops == {k \in 1 .. Len(Paths(f)) : ends(k)}
      first == CHOOSE k \in stops : \A j \in stops : k <= j
  IN  IF Unstructured(f) THEN IF f \in facts.canSpawn THEN {} ELSE Stmts(f)
      ELSE IF stops = {} THEN Stmts(f)
      ELSE {Paths(f)[k] : k \in 1 .. first} \ {s \in {Paths(f)[first]} : OpAt(f, s) = "loop"}
SpawnPrecedes(f, s) == s \notin PreSpawn(f)

\* siteMult, and whether its answer is more than a guess.
SiteMany_NoLoop(f, s) == OpAt(f, s) = "launch" \/ Unstructured(f)
SiteMany(f, s) == OpAt(f, s) = "launch" \/ InLoop(f, s) \/ Unstructured(f)
SiteKnown(f, s) == OpAt(f, s) = "launch" \/ InLoop(f, s) \/ ~Unstructured(f)

\* spawnsOnce: exactly one statement of the block starts a thread, and once.
RECURSIVE SpawnsOnce(_, _)
SpawnsOnce(f, block) ==
  \E s \in Stmts(f) :
    /\ {q \in Stmts(f) : Front(q) = block /\ \E r \in Inside(f, q) \cup {q} : Spawning(At(f, r))} = {s}
    /\ LET st == At(f, s)
       IN  \/ st.op \in {"spawn", "launch"}
           \/ st.op = "call" /\ ~Unstructured(st.to) /\ st.to \notin facts.recursive /\ SpawnsOnce(st.to, <<>>)
           \/ st.op = "if" /\ \A a \in 1 .. 2 : SpawnsOnce(f, Append(s, a))

-----------------------------------------------------------------------------
\* Instances.

Root(f, t, many, start) ==
  [func |-> f, thread |-> t, threadMany |-> many, execMany |-> many, site |-> NoSite, parent |-> 0,
   speculative |-> many, startup |-> start, execUnknown |-> FALSE, recurring |-> FALSE,
   startupUnknown |-> FALSE, truncated |-> FALSE, loop |-> NoSite, loopInst |-> 0]

\* addIfRoom, addInstance: what a handler appends to the walk's list, in order.  A recursive
\* function runs many times however it was reached; a thread entry takes the next number.
NewThread == -1
Placed(list, k) ==
  [list[k] EXCEPT !.execMany = @ \/ list[k].func \in facts.recursive,
                  !.thread = IF @ # NewThread THEN @
                             ELSE threads + Cardinality({j \in 1 .. k - 1 : list[j].thread = NewThread})]
AddAll(old, added) ==
  \E list \in {added}, room \in {IF Cap > Len(old) THEN Cap - Len(old) ELSE 0} :
    /\ instances' = old \o [k \in 1 .. Min({room, Len(list)}) |-> Placed(list, k)]
    /\ threads' = threads + Cardinality({j \in 1 .. Len(list) : list[j].thread = NewThread})
    /\ capped' = (capped \/ Len(list) > room)

SiteOf(inst) == At(instances[inst.parent].func, inst.site)
IsSpawned(inst) == inst.parent # 0 /\ SiteOf(inst).op \in {"spawn", "launch"}

\* countingLoop: the counted loop that starts at most one thread per iteration, here or in a
\* caller up to which nothing repeats, and the instance that runs it.
Counts_Nested(inst, f, s, loop) ==
  At(f, loop).n # "" /\ ~inst.execMany /\ Len(s) = Len(loop) + 2 /\ SpawnsOnce(f, Append(loop, 1))
Counts(inst, f, s, loop) ==
  /\ At(f, loop).n # "" /\ ~inst.execMany /\ ~InLoop(f, loop)
  /\ Len(s) = Len(loop) + 2 /\ SpawnsOnce(f, Append(loop, 1))
RECURSIVE CountingLoop(_, _, _)
CountingLoop(inst, i, s) ==
  LET f == inst.func
      loop == EnclosingLoop(f, s)
      none == [loop |-> NoSite, inst |-> 0]
  IN  CASE inst.threadMany \/ inst.execUnknown \/ inst.speculative \/ inst.recurring \/ Unstructured(f) -> none
        [] InLoop(f, s) ->
             IF Counts(inst, f, s, loop) THEN [loop |-> loop, inst |-> i] ELSE none
        [] ~InLoop(f, s) /\ (inst.parent = 0 \/ IsSpawned(inst)) -> none
        [] OTHER -> CountingLoop(instances[inst.parent], inst.parent, inst.site)

\* resolveEntry: the function a spawn starts, through the parameters of the call chain.
RECURSIVE Entry(_, _)
Entry(inst, name) ==
  IF name # "param" THEN {name} \cap Functions
  ELSE IF inst.parent = 0 THEN {} ELSE Entry(instances[inst.parent], SiteOf(inst).fn)

\* expand: what a call or a spawn adds, and what the calls of a function add in program order.
Child(inst, i, s) ==
  LET g == inst.func
      certain == (inst.execMany /\ ~inst.execUnknown) \/ (SiteKnown(g, s) /\ SiteMany(g, s))
  IN  [inst EXCEPT !.execMany = @ \/ SiteMany(g, s), !.site = s, !.parent = i,
                   !.startup = @ /\ ~SpawnPrecedes(g, s),
                   !.execUnknown = ~certain /\ (@ \/ ~SiteKnown(g, s)),
                   !.recurring = FALSE,
                   !.startupUnknown = @ \/ (inst.startup /\ Unstructured(g) /\ g \in facts.canSpawn)]
Started(c, counted) ==
  [c EXCEPT !.thread = NewThread, !.threadMany = c.execMany, !.startup = FALSE, !.startupUnknown = FALSE,
            !.loop = counted.loop, !.loopInst = counted.inst]
Entered(inst, st, c, counted) ==
  CASE st.op = "call" /\ st.to \in facts.relevant -> <<[c EXCEPT !.func = st.to]>>
    [] st.op \in {"spawn", "launch"} /\ Entry(inst, st.to) \cap facts.relevant # {} ->
         LET mine == [c EXCEPT !.func = CHOOSE f \in Entry(inst, st.to) : TRUE]
         IN  <<Started(mine, counted)>> \o (IF st.op = "launch" /\ st.tag = "caller" THEN <<mine>> ELSE <<>>)
    [] OTHER -> <<>>
Expand(inst, i, sites) ==
  \E children \in {[k \in DOMAIN sites |-> Child(inst, i, sites[k])]},
     counted \in {[k \in DOMAIN sites |-> CountingLoop(inst, i, sites[k])]} :
    AddAll([instances EXCEPT ![i] = inst],
           FlattenSeq([k \in DOMAIN sites |-> Entered(inst, At(inst.func, sites[k]), children[k], counted[k])]))

-----------------------------------------------------------------------------
\* The walk.

WalkInit == /\ instances = <<>> /\ next = 1 /\ threads = 1 /\ expanded = {}
            /\ capped = FALSE /\ recurs = {} /\ facts = <<>> /\ phase = "facts"

\* addRootsForModule: main and the global constructors on the main thread, and a thread of its
\* own, many times over, for every function whose address is taken.
Speculative(fs) == SetToSeq({Root(f, NewThread, TRUE, FALSE) : f \in fs})
AddRoots ==
  LET quiet == Range(P.ctors) \cap facts.canSpawn = {}
      main == IF "main" \in Functions THEN <<"main">> \o P.ctors ELSE P.ctors
  IN  /\ phase = "roots" /\ phase' = "walk"
      /\ AddAll(<<>>, [k \in 1 .. Len(main) |-> Root(main[k], 0, FALSE, quiet)]
                        \o Speculative(facts.taken \cap facts.relevant))
      /\ UNCHANGED <<next, expanded, recurs, facts>>

\* addOrphanRoots: functions another translation unit may be calling, once the first wave has
\* settled.  What the walk reached accounts for everything it calls by name.
AddOrphanRoots ==
  LET reached == {instances[i].func : i \in 1 .. Len(instances)}
  IN  /\ phase = "walk" /\ next > Len(instances) /\ phase' = "orphans"
      /\ AddAll(instances, Speculative({f \in facts.relevant \ P.internal :
                                         f \notin UNION {facts.reach[g] : g \in reached} \/ f \in P.named}))
      /\ UNCHANGED <<next, expanded, recurs, facts>>

RECURSIVE Chain(_)
Chain(i) == IF i = 0 THEN {} ELSE {i} \cup Chain(instances[i].parent)

\* run's step: an instance whose function is on its own chain stands for many runs, or many
\* threads, and is expanded once per function, thread and phase (once per function when a spawn
\* closes the cycle); a second such recurrence is not expanded.
Recurrence(inst) ==
  LET again == [inst EXCEPT !.recurring = TRUE, !.execMany = TRUE]
  IN  IF IsSpawned(inst) THEN [again EXCEPT !.threadMany = TRUE, !.loop = NoSite, !.loopInst = 0] ELSE again
RecurrenceKey_PerThread(inst) == <<inst.func, inst.thread, inst.startup, inst.startupUnknown>>
RecurrenceKey(inst) ==
  IF IsSpawned(inst) THEN <<inst.func, "spawn">>
  ELSE <<inst.func, inst.thread, inst.startup, inst.startupUnknown>>
Visit(inst, key, seen) ==
  /\ recurs' = IF seen THEN recurs \cup {inst.func} ELSE recurs
  /\ expanded' = IF seen THEN expanded \cup {key} ELSE expanded
  /\ IF seen /\ key \in expanded
     THEN /\ instances' = [instances EXCEPT ![next] = [inst EXCEPT !.truncated = TRUE]]
          /\ UNCHANGED <<threads, capped>>
     ELSE Expand(inst, next, Paths(inst.func))
Step ==
  /\ phase \in {"walk", "orphans"} /\ next <= Len(instances)
  /\ next' = next + 1
  /\ \E seen \in {\E j \in Chain(instances[next].parent) : instances[j].func = instances[next].func} :
     \E inst \in {IF seen THEN Recurrence(instances[next]) ELSE instances[next]} :
       Visit(inst, RecurrenceKey(inst), seen)
  /\ UNCHANGED <<phase, facts>>

WalkDone == phase = "orphans" /\ next > Len(instances)
Walk == Gather \/ AddRoots \/ AddOrphanRoots \/ Step
-----------------------------------------------------------------------------
\* What the passes ask of the finished walk.

Index == 1 .. Len(instances)
InstancesOf(f) == {i \in Index : instances[i].func = f}
RunsOnce(f) == \E i \in Index : /\ InstancesOf(f) = {i}
                              /\ ~instances[i].execMany /\ ~instances[i].threadMany /\ ~instances[i].execUnknown
InStartupPhase(i, s) == instances[i].startup /\ ~SpawnPrecedes(instances[i].func, s)
StartupUncertain(i) ==
  instances[i].startupUnknown
    \/ (instances[i].startup /\ Unstructured(instances[i].func) /\ instances[i].func \in facts.canSpawn)

\* The instance a thread starts in, the nearest one two threads descend from, and the call in it
\* that leads to each.
ThreadRoot(t) == CHOOSE i \in Index : instances[i].thread = t /\ \A j \in 1 .. i - 1 : instances[j].thread # t
Above(i) == Chain(i) \ {i}
Common(i, j) == Above(i) \cap Above(j)
Nearest(is) == CHOOSE i \in is : \A j \in is : j \in Chain(i)
Down(common, i) == instances[CHOOSE j \in Chain(i) : instances[j].parent = common].site

\* Whether one arm of a branch holds s and another q, or s is in an arm that returns and q comes
\* after the branch, outside any loop.
Ends(f, fork, a) == LastOf(f, fork, a) \in {"break", "return"}
Apart(f, s, q) ==
  \E fork \in Holders(s) :
    LET at == Len(fork)
    IN  /\ IsPrefix(Front(fork), q) /\ ~IsPrefix(SubSeq(s, 1, at + 1), q)
        /\ OpAt(f, fork) # "loop" /\ ~InLoop(f, fork)
        /\ IF IsStrictPrefix(fork, q)
           THEN OpAt(f, fork) = "if" \/ (OpAt(f, fork) = "switch" /\ Ends(f, fork, s[at + 1]) /\ Ends(f, fork, q[at + 1]))
           ELSE /\ Len(q) = at /\ OpAt(f, fork) = "if"
                /\ LastOf(f, fork, s[at + 1]) = "return" /\ q[at] > s[at]

\* exclusive: two threads started on different arms of a branch that runs once, given the
\* nearest instance both descend from and the calls in it that lead to each.
Forked(f, s, q) == Apart(f, s, q) \/ Apart(f, q, s)
Exclusive_AnyRun(i, j, common, s, q) == Forked(instances[common].func, s, q)
Exclusive(i, j, common, s, q) ==
  /\ Forked(instances[common].func, s, q)
  /\ ~instances[common].execMany /\ ~instances[common].threadMany /\ ~instances[common].execUnknown
  /\ \A k \in Chain(common) : ~Unstructured(instances[k].func)

\* bothConditional: each thread is started under a condition of its own.  (Two tests of one
\* unchanged variable are told apart in the code; here every branch tests something else.)
Branches(f, s) == {h \in Holders(s) : OpAt(f, h) \in {"if", "switch"}}
Conditioned(i, common, q) ==
  \E k \in Chain(i) \ Chain(common) :
    \E h \in Branches(instances[instances[k].parent].func, instances[k].site) :
      instances[k].parent = common => ~IsPrefix(SubSeq(instances[k].site, 1, Len(h) + 1), q)
BothConditional(i, j, common, s, q) == Conditioned(i, common, q) /\ Conditioned(j, common, s)

\* The pairs of threads with an instance above both, with their first instances, the nearest
\* instance above them and where each thread's way down leaves it.
Pairs ==
  LET rooted == {t \in 0 .. threads - 1 : \E i \in Index : instances[i].thread = t}
      pair(t, u, common) ==
        [t |-> t, u |-> u, i |-> ThreadRoot(t), j |-> ThreadRoot(u), common |-> common,
         s |-> Down(common, ThreadRoot(t)), q |-> Down(common, ThreadRoot(u))]
  IN  {pair(tu[1], tu[2], Nearest(Common(ThreadRoot(tu[1]), ThreadRoot(tu[2])))) :
         tu \in {<<t, u>> \in rooted \X rooted : t # u /\ Common(ThreadRoot(t), ThreadRoot(u)) # {}}}
ExclusivePairs == {<<p.t, p.u>> : p \in {p \in Pairs : Exclusive(p.i, p.j, p.common, p.s, p.q)}}
ConditionalPairs == {<<p.t, p.u>> : p \in {p \in Pairs : BothConditional(p.i, p.j, p.common, p.s, p.q)}}
=============================================================================
