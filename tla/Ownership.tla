------------------------------ MODULE Ownership ------------------------------
(***************************************************************************)
(* Which threads push to and pop from each queue, once the walk is over    *)
(* (QueueOwnershipAnalysis.cpp).  A queue is a key <<root, part>>: a       *)
(* global, a local or an allocation site, and the whole of it, one element *)
(* or "elements", all of an array counted together.  What the analysis     *)
(* cannot follow makes every queue of that type unknown.                   *)
(***************************************************************************)
EXTENDS ThreadWalk

VARIABLES found,      \* the constructors and accesses of queues, and what each names
          poisoned,   \* the queue types that escape the analysis
          sides,      \* the producers and the consumers of every queue
          analysis    \* the verdict on every queue

ownershipVars == <<found, poisoned, sides, analysis>>

Unresolved == <<<<"unresolved">>, "">>
MaxSources == 8      \* kMaxSources

\* resolvePlaces: the queues a place may name under an instance.  A pointer global names what any
\* store puts there, under every instance of the storing function; one source nobody can place
\* leaves the whole set unknown.
Stores(g) == {<<f, s>> \in Everywhere :
                OpAt(f, s) \in {"store", "new"} /\ At(f, s).to = g}
RECURSIVE Resolve(_, _, _, _)
ResolveSources(c, busy) ==
  LET contexts == IF InstancesOf(c[1]) = {} THEN {0} ELSE InstancesOf(c[1])
  IN  IF OpAt(c[1], c[2]) = "new" THEN {<<<<"heap", c[1], c[2]>>, "whole">>}
      ELSE UNION {Resolve(At(c[1], c[2]).args[1], c[1], j, busy) : j \in contexts}
PlacesOfLoad(g, busy) ==
  LET sources == UNION {ResolveSources(c, busy \cup {g}) : c \in Stores(g)}
  IN  IF g \in busy \/ sources = {} \/ Unresolved \in sources \/ Cardinality(sources) > MaxSources
      THEN {Unresolved} ELSE sources
Resolve(pl, f, i, busy) ==
  CASE pl.base = "global" -> {<<<<"global", pl.root>>, pl.at>>}
    [] pl.base = "local" -> {<<<<"local", f, pl.root>>, pl.at>>}
    [] pl.base = "slot" -> PlacesOfLoad(pl.root, busy)
    [] pl.base = "param" ->
         IF i = 0 THEN {Unresolved} ELSE IF instances[i].parent = 0 THEN {Unresolved}
         ELSE LET up == instances[i].parent
              IN  Resolve(SiteOf(instances[i]).args[pl.root], instances[up].func, up, busy)

\* The visits: every constructor and queue operation under every instance, with what it names.
VisitsOf(ops) ==
  {[f |-> instances[i].func, s |-> s, i |-> i] : <<i, s>> \in
     UNION {{<<i, s>> : s \in {q \in Stmts(instances[i].func) : OpAt(instances[i].func, q) \in ops}} : i \in Index}}
PlacesOf(v) ==
  IF OpAt(v.f, v.s) = "new" THEN {<<<<"heap", v.f, v.s>>, "whole">>}
  ELSE Resolve(At(v.f, v.s).args[1], v.f, v.i, {})
TypeAt(f, s) == At(f, s).args[1].ty

-----------------------------------------------------------------------------
\* Recursion.

\* fixedBelow: a handle that names one object whatever the recursion binds.
RECURSIVE FixedBelow(_, _, _, _)
FixedBelow(pl, g, cycle, reach) ==
  LET calls == {<<f, s>> \in UNION {{f} \X Stmts(f) : f \in reach} : OpAt(f, s) = "call" /\ At(f, s).to = g}
      direct == ~\E f \in Functions : \E s \in Stmts(f) :
                   At(f, s).fn = g \/ (OpAt(f, s) # "call" /\ At(f, s).to = g)
  IN  CASE pl.base = "global" -> pl.at # "any"
        [] pl.base = "slot" -> Cardinality(Stores(pl.root)) = 1
        [] pl.base = "local" -> FALSE
        [] pl.base = "param" ->
             /\ g \notin cycle /\ direct /\ calls # {}
             /\ \A c \in calls : FixedBelow(At(c[1], c[2]).args[pl.root], c[1], cycle, reach)

\* poisonReachable: the queue operations a recursion reaches with a handle it may rebind.
PoisonedBelow(f) ==
  LET reach == facts.reach[f]
      cycle == {g \in reach : f \in facts.reach[g]}
      wild == \E g \in reach : HasOp(g, {"spawn", "launch", "icall"})
  IN  {TypeAt(g, s) : <<g, s>> \in
        {<<g, s>> \in UNION {{g} \X Stmts(g) : g \in reach} :
           IsQueueOp(OpAt(g, s)) /\ (wild \/ ~FixedBelow(At(g, s).args[1], g, cycle, reach))}}

-----------------------------------------------------------------------------
\* poisonEscapes: handed to code with no body here, to a call through a pointer that may reach
\* another unit, or kept in a global another unit may name.
Visible(name) == name \in P.named \ P.internal
HandedTo(ops, t) == \E f \in Functions : \E s \in Stmts(f) :
  OpAt(f, s) \in ops /\ \E k \in 1 .. Len(At(f, s).args) : At(f, s).args[k].ty = t
Escapes(t) == \/ HandedTo({"extern"}, t)
              \/ P.named # {} /\ HandedTo({"icall"}, t)
              \/ \E g \in DOMAIN P.globals : P.globals[g] = t /\ Visible(g)
-----------------------------------------------------------------------------
\* What every access counts for.

CONSTANT NoLoop      \* an access credited to no loop

\* The constructors and accesses, resolved: an array some access or constructor reaches with an
\* index the walk cannot read is one queue, and takes along every element the walk did name.
\* An access of something nobody builds in sight is lost.
IsWhole(k) == k[2] = "whole" /\ k[1][1] # "heap"
Folded(places, arrays) ==
  [v \in DOMAIN places |-> {IF k[1] \in arrays THEN <<k[1], "elements">> ELSE k : k \in places[v]}]
Keyed(places) == Folded(places, {k[1] : k \in {p \in UNION {places[v] : v \in DOMAIN places} : p[2] = "any"}})
Lost(uses, keys, built) ==
  {v \in uses : \E k \in keys[v] : k = Unresolved \/ (k \notin built /\ ~IsWhole(k))}

KeyCtors(r, k) == {<<v.f, v.s>> : v \in {w \in r.ctors : k \in r.keys[w]}}
CtorKeys(r, c) == UNION {r.keys[v] : v \in {w \in r.ctors : <<w.f, w.s>> = c}}
BuiltBy(r, k) == {v.i : v \in {w \in r.ctors : k \in r.keys[w]}}   \* keyCtorInst; ambiguous when several
RanIn(r, c) == {v.i : v \in {w \in r.ctors : <<w.f, w.s>> = c}}     \* ctorOpInst

\* ctorRunBy: the constructor ran once, in the holder or in the one call of its function there.
CallsOf(f, g) == {s \in Stmts(f) : OpAt(f, s) = "call" /\ At(f, s).to = g}
CtorRunBy(r, c, holder) ==
  \E i \in Index : /\ RanIn(r, c) = {i}
                   /\ \/ i = holder
                      \/ /\ instances[i].parent = holder
                         /\ CallsOf(instances[holder].func, instances[i].func) = {instances[i].site}

NotCounted == [loop |-> NoLoop, via |-> NoSite]

\* Whether a thread counts towards the loop that started it: that run of the loop belongs to the
\* construction of the queue it touches.
Credit(r, k, i) ==
  LET holder == instances[i].loopInst
      f == instances[holder].func
      up == instances[holder].parent
      ctors == KeyCtors(r, k)
      below == {c \in ctors : c[1] # f /\ CallsOf(f, c[1]) # {}}
      here == [loop |-> <<f, instances[i].loop>>, via |-> NoSite]
  IN  CASE instances[i].loop = NoSite -> NotCounted
        [] instances[i].loop # NoSite /\ (\E c \in ctors : c[1] = f) ->
             IF BuiltBy(r, k) = {holder} THEN here ELSE NotCounted
        [] instances[i].loop # NoSite /\ (\A c \in ctors : c[1] # f) ->
             IF up # 0 /\ BuiltBy(r, k) = {up} THEN [here EXCEPT !.via = <<instances[up].func, instances[holder].site>>]
             ELSE IF below = {} THEN here
             ELSE IF Cardinality(ctors) = 1 /\ Cardinality(BuiltBy(r, k)) = 1
                     /\ \E c \in below : CtorRunBy(r, c, holder)
             THEN here ELSE NotCounted

Producing == {"push", "overrun"}
Consuming == {"pop", "overrun"}
\* accessOf: one access of a queue by one thread.  An overrunning push is on both sides, and counts
\* towards a loop on the producers' only.
Accesses(r, k, ops) ==
  {[thread |-> instances[v.i].thread, many |-> instances[v.i].threadMany,
    certain |-> instances[v.i].threadMany /\ ~instances[v.i].execUnknown,
    speculative |-> instances[v.i].speculative, oneOf |-> Cardinality(r.keys[v]) > 1,
    credit |-> IF OpAt(v.f, v.s) = "overrun" /\ ops = Consuming THEN NotCounted ELSE Credit(r, k, v.i)] :
     v \in {w \in r.uses : k \in r.keys[w] /\ OpAt(w.f, w.s) \in ops}}

\* countOf: nobody, one thread or at most one of several that exclude each other, or many.
ThreadsOf(side) == {a.thread : a \in side}
CountOf(side) ==
  IF side = {} THEN 0
  ELSE IF \E a \in side : a.many THEN 2
  ELSE IF \A t, u \in ThreadsOf(side) : t = u \/ <<t, u>> \in found.exclusive THEN 1 ELSE 2

\* countLoop: the one loop, run by one call, that starts every thread of a side.
CountLoop(side) ==
  LET credits == {a.credit : a \in side}
  IN  IF Cardinality(credits) = 1 /\ \A a \in side : ~a.speculative /\ ~a.oneOf
      THEN CHOOSE c \in credits : TRUE ELSE NotCounted

-----------------------------------------------------------------------------
\* writeVerdicts.

Verdict(p, c) == IF p <= 1 THEN IF c <= 1 THEN "spsc" ELSE "spmc" ELSE IF c <= 1 THEN "mpsc" ELSE "mpmc"

\* The constructor calls of a whole global or local, by name; of anything else, those seen to
\* build it.  carrierOf: the one call that builds nothing else carries a verdict.
NamedCtors(root) == {<<f, s>> \in Everywhere :
  /\ OpAt(f, s) = "build" /\ At(f, s).args[1].at = "whole"
  /\ \/ At(f, s).args[1].base = "global" /\ root = <<"global", At(f, s).args[1].root>>
     \/ At(f, s).args[1].base = "local" /\ root = <<"local", f, At(f, s).args[1].root>>}
CtorsOf(r, k) == IF IsWhole(k) THEN NamedCtors(k[1]) ELSE KeyCtors(r, k)
Carried(r, k) == IsWhole(k) \/ \E c \in KeyCtors(r, k) : KeyCtors(r, k) = {c} /\ CtorKeys(r, c) = {k}

\* siteRunsOnce, for the site that allocates a queue.
SiteRunsOnce(root) == ~SiteMany(root[2], root[3]) /\ (RunsOnce(root[2]) \/ root[2] = "main")

\* checkDeclared: the declared topology against the threads.  Certainly broken is an error; what
\* holds is verified; anything else is a warning.
Broken(side) ==
  LET known == {a \in side : ~a.speculative /\ ~a.oneOf}
  IN  \/ \E a \in known : a.certain
      \/ \E t, u \in ThreadsOf(known) : t # u /\ <<t, u>> \notin found.exclusive \cup found.conditional
CheckDeclared(tag, verdict, ps, cs, summary) ==
  CASE tag = "generic" -> "none"
    [] tag # "generic" /\ (verdict = "spsc" \/ verdict = tag) -> "verified"
    [] tag # "generic" /\ verdict # "spsc" /\ verdict # tag ->
         IF ~summary /\ ((tag # "mpsc" /\ Broken(ps)) \/ (tag # "spmc" /\ Broken(cs))) THEN "error" ELSE "warning"

\* For every queue some access names, its verdict, the loops that count its sides, the call that
\* carries the verdict, and what its declaration comes to.
TypeOf(k) == CHOOSE t \in {TypeAt(v.f, v.s) : v \in {w \in found.uses : k \in found.keys[w]}} : TRUE
Summary(k) == k[2] = "elements" \/ (k[1][1] = "heap" /\ ~SiteRunsOnce(k[1]))
Outcome(k, verdict, ctors) ==
  IF Cardinality(ctors) # 1 THEN "none"
  ELSE CheckDeclared(CHOOSE t \in {At(c[1], c[2]).tag : c \in ctors} : TRUE,
                     verdict, sides[k].p, sides[k].c, Summary(k))
Counted(k, verdict) ==
  LET counts == Carried(found, k) /\ verdict # "unknown"
  IN  [verdict |-> verdict, ctors |-> CtorsOf(found, k), carried |-> Carried(found, k),
       pLoop |-> IF counts /\ verdict \in {"mpsc", "mpmc"} THEN CountLoop(sides[k].p) ELSE NotCounted,
       cLoop |-> IF counts /\ verdict \in {"spmc", "mpmc"} THEN CountLoop(sides[k].c) ELSE NotCounted,
       outcome |-> Outcome(k, verdict, CtorsOf(found, k))]

-----------------------------------------------------------------------------
\* runOnOperation.

ResolveAll ==
  /\ WalkDone /\ phase' = "resolved"
  /\ \E ctors \in {VisitsOf(BuildOps)}, uses \in {VisitsOf(QueueOps)} :
     \E keys \in {Keyed([v \in ctors \cup uses |-> PlacesOf(v)])} :
     \E lost \in {Lost(uses, keys, UNION {keys[v] : v \in ctors})} :
       found' = [ctors |-> ctors, uses |-> uses \ lost, keys |-> keys, lost |-> {TypeAt(v.f, v.s) : v \in lost},
                 exclusive |-> ExclusivePairs, conditional |-> ConditionalPairs]
  /\ UNCHANGED <<poisoned, sides, analysis>>
Poison ==
  /\ phase = "resolved" /\ phase' = "poisoned"
  /\ poisoned' = found.lost \cup UNION {PoisonedBelow(f) : f \in recurs} \cup {t \in P.types : Escapes(t)}
  /\ UNCHANGED <<found, sides, analysis>>
TakeSides ==
  /\ phase = "poisoned" /\ phase' = "sided"
  /\ sides' = [k \in UNION {found.keys[v] : v \in found.uses} |->
                 [p |-> Accesses(found, k, Producing), c |-> Accesses(found, k, Consuming)]]
  /\ UNCHANGED <<found, poisoned, analysis>>
WriteVerdicts ==
  /\ phase = "sided" /\ phase' = "counted"
  /\ \E verdict \in {[k \in DOMAIN sides |-> IF capped \/ TypeOf(k) \in poisoned THEN "unknown"
                                            ELSE Verdict(CountOf(sides[k].p), CountOf(sides[k].c))]} :
       analysis' = [of |-> [k \in DOMAIN sides |-> Counted(k, verdict[k])],
                    arrays |-> {k[1] : k \in {x \in DOMAIN sides : x[2] = "elements"}},
                    ops |-> [o \in {<<v.f, v.s>> : v \in found.uses} |->
                              UNION {found.keys[v] : v \in {w \in found.uses : <<w.f, w.s>> = o}}]]
  /\ UNCHANGED <<found, poisoned, sides>>
Analyse == ResolveAll \/ Poison \/ TakeSides \/ WriteVerdicts
=============================================================================
