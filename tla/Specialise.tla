----------------------------- MODULE Specialise -----------------------------
(***************************************************************************)
(* The constructor tags (WTCSpecialize.cpp).  A verdict of one producer or *)
(* one consumer rewrites the tag of the one constructor call; a side       *)
(* whose threads one counted loop starts makes the choice when the queue   *)
(* is built, from the bound the loop will read.                            *)
(***************************************************************************)
EXTENDS Ownership

VARIABLES bounds,   \* of every queue whose one constructor carries its verdict: the call, and what
                    \* the loops that count its sides are bounded by
          plans,    \* where and from what its tag is chosen at run time
          choice    \* the tags, and the implementation each operation is told

choiceVars == <<bounds, plans, choice>>

Generic == "generic"

\* order: whether one statement runs before another on every path, and in no loop with it.
Order(before, after, f) ==
  LET meets == {x \in {after} \cup Holders(after) :
                  Len(before) >= Len(x) /\ SubSeq(before, 1, Len(x) - 1) = Front(x)}
      x == CHOOSE m \in meets : \A k \in meets : Len(k) <= Len(m)
  IN  IF before[Len(x)] >= Last(x) THEN "not before" ELSE IF InLoop(f, x) THEN "in loop" ELSE "before"

\* SideBound, boundThrough: the variable that bounds the loop, and the statement, in the function
\* that builds the queue, at which the loop's count is settled.
NoBound == [known |-> FALSE, var |-> "", at |-> <<"", NoSite>>, limit |-> 0]
SideBound(credit) ==
  LET loop == At(credit.loop[1], credit.loop[2])
      limit == IF loop.tag = "inclusive" THEN 0 ELSE 1
      passed == At(credit.via[1], credit.via[2]).n
  IN  IF credit.via = NoSite
      THEN [known |-> TRUE, var |-> loop.n, at |-> credit.loop, limit |-> limit]
      ELSE [known |-> loop.n = "param" /\ passed # "", var |-> passed, at |-> credit.via, limit |-> limit]

\* boundUnsettled: a write of the bound that may come after the queue is built.
Writes(var) == {<<f, s>> \in Everywhere : OpAt(f, s) = "set" /\ At(f, s).to = var}
Settled_Unread(site, b) == b.at[1] = site[1] /\ Order(site[2], b.at[2], site[1]) = "before"
Settled(site, b) ==
  /\ Settled_Unread(site, b)
  /\ \A w \in Writes(b.var) : w[1] = site[1] /\ Order(w[2], site[2], site[1]) = "before"

\* builderCall: the one call of the constructor's function, which builds the queue once per call.
BuilderCall(ctor, anchor) ==
  {<<anchor, s>> : s \in {q \in CallsOf(anchor, ctor[1]) :
     /\ CallsOf(anchor, ctor[1]) = {q}
     /\ ~InLoop(ctor[1], ctor[2]) /\ CallsOf(ctor[1], ctor[1]) = {}}}

\* specialiseAtRunTime: where the tag of a queue is chosen, and from which bounds; or nothing.
Sites(b) ==
  LET anchor == IF b.p = NoBound THEN b.c.at[1] ELSE b.p.at[1]
  IN  IF b.p = NoBound /\ b.c = NoBound THEN {}
      ELSE IF b.ctor[1] = anchor THEN {b.ctor} ELSE BuilderCall(b.ctor, anchor)
Fits(b, sites) ==
  /\ sites # {} /\ At(b.ctor[1], b.ctor[2]).tag = Generic
  /\ \A side \in {b.p, b.c} \ {NoBound} : side.known /\ \A s \in sites : Settled(s, side)

ImplAt(oneProducer, oneConsumer) ==
  IF oneProducer THEN IF oneConsumer THEN "spsc" ELSE "spmc" ELSE IF oneConsumer THEN "mpsc" ELSE Generic

\* runOnOperation and recordImplementations: the plans, the tags rewritten in place, and the
\* implementation each operation is told its queue runs.
BoundOf(credit) == IF credit.loop = NoLoop THEN NoBound ELSE SideBound(credit)
FindBounds ==
  /\ phase = "counted" /\ phase' = "bounded"
  /\ bounds' = [k \in {x \in DOMAIN analysis.of : analysis.of[x].carried /\ Cardinality(analysis.of[x].ctors) = 1} |->
                  [ctor |-> CHOOSE c \in analysis.of[k].ctors : TRUE, verdict |-> analysis.of[k].verdict,
                   p |-> BoundOf(analysis.of[k].pLoop), c |-> BoundOf(analysis.of[k].cLoop)]]
  /\ UNCHANGED <<plans, choice>>
MakePlans ==
  /\ phase = "bounded" /\ phase' = "planned"
  /\ \E sites \in {[k \in DOMAIN bounds |-> Sites(bounds[k])]} :
       plans' = [k \in {x \in DOMAIN bounds : Fits(bounds[x], sites[x])} |->
                   [site |-> CHOOSE s \in sites[k] : TRUE, p |-> bounds[k].p, c |-> bounds[k].c,
                    manyP |-> bounds[k].verdict \in {"mpsc", "mpmc"}, manyC |-> bounds[k].verdict \in {"spmc", "mpmc"}]]
  /\ UNCHANGED <<bounds, choice>>

Written(k) == At(bounds[k].ctor[1], bounds[k].ctor[2]).tag
Static == {k \in DOMAIN bounds \ DOMAIN plans :
             Written(k) = Generic /\ bounds[k].verdict \in {"spsc", "mpsc", "spmc"}}
Impl_Verdict(k) == IF k \in DOMAIN bounds THEN bounds[k].verdict ELSE Generic
Impl(k) == IF k \notin DOMAIN bounds \/ k \in DOMAIN plans THEN Generic
           ELSE IF k \in Static THEN bounds[k].verdict ELSE Written(k)
ByCtor(keys, c) == CHOOSE k \in keys : bounds[k].ctor = c
WriteTags ==
  /\ phase = "planned" /\ phase' = "tagged"
  /\ choice' = [plans |-> [c \in {bounds[k].ctor : k \in DOMAIN plans} |-> plans[ByCtor(DOMAIN plans, c)]],
                tags |-> [c \in {bounds[k].ctor : k \in Static} |-> bounds[ByCtor(Static, c)].verdict],
                impl |-> [o \in DOMAIN analysis.ops |->
                            IF Cardinality(analysis.ops[o]) = 1
                            THEN Impl(CHOOSE k \in analysis.ops[o] : TRUE) ELSE Generic]]
  /\ UNCHANGED <<bounds, plans>>
Specialise == FindBounds \/ MakePlans \/ WriteTags
=============================================================================
