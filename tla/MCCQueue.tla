------------------------------ MODULE MCCQueue ------------------------------
(***************************************************************************)
(* C queues for the lifting: test/Transforms/LiftCQueues' good and chan,   *)
(* their refused variants, and dedup's batches with its helper functions.  *)
(***************************************************************************)
EXTENDS Integers, Sequences, FiniteSets, TLC

Num(n) == <<"k", n>>
M(m) == <<"mem", "q", m>>
R(m) == <<"mem", "r", m>>
Lock == <<"lock", "q", "m">>
Unlock == <<"unlock", "q", "m">>
Set(m, e) == <<"set", "q", m, e>>
Signal(cv) == <<"signal", "q", cv>>
Broadcast(cv) == <<"broadcast", "q", cv>>
WaitWhile(c, cv) == <<"while", c, <<<<"wait", "q", cv, "q", "m">>>>>>
Return(e) == <<"return", e>>
Void0 == <<"return", <<"void">>>>
And(a, b) == <<"and", a, b>>
Op(op, a, b) == <<op, a, b>>
Empty == Op("eq", M("out"), M("in"))
Full == Op("eq", M("in"), Op("rem", Op("add", Op("sub", M("out"), Num(1)), M("s")), M("s")))
Left(op) == Op(op, M("end"), M("prod"))
Advance(m) == Set(m, Op("rem", Op("add", M(m), Num(1)), M("s")))
\* if (++c->put == c->nslots) c->put = 0;
WrapAt(m) == <<Set(m, Op("add", M(m), Num(1))), <<"if", Op("eq", M(m), M("s")), <<Set(m, Num(0))>>, <<>>>>>>

(***************************************************************************)
(* The functions.                                                          *)
(***************************************************************************)
Prepare(m) == <<<<"minit", "q", "m">>, <<"cinit", "q", "ne">>, <<"cinit", "q", "nf">>>>
InitOf(slots) ==
  Prepare("m") \o <<Set("in", Num(0)), Set("out", Num(0)), <<"malloc", "a", Op("mul", Num(8), slots)>>, Set("d", <<"loc", "a">>),
                    Set("s", slots), Set("prod", <<"par", "producers">>), Set("end", Num(0)), Void0>>
\* A queue nobody finishes.
Endless == SelectSeq(InitOf(<<"par", "size">>), LAMBDA s : s[1] # "set" \/ s[3] \notin {"prod", "end"})
Destroy == <<<<"cdestroy", "q", "nf">>, <<"cdestroy", "q", "ne">>, <<"mdestroy", "q", "m">>, <<"free", M("d")>>, Void0>>
End(wakes) == <<Lock, Set("end", Op("add", M("end"), Num(1)))>> \o wakes \o <<Unlock, Void0>>
PushOf(wait, advance, wakes) == <<Lock>> \o wait \o <<<<"put", "q", "d", M("in"), <<"par", "v">>>>>> \o advance \o wakes \o <<Unlock, Void0>>
PopOf(wait, done, also, advance, wakes) ==
  <<Lock, wait, <<"if", done, also \o <<Unlock, Return(Num(-1))>>, <<>>>>,
    <<"take", "x", "q", "d", M("out")>>, <<"set", "out", "", <<"loc", "x">>>>>> \o advance \o wakes \o <<Unlock, Return(Num(0))>>
Good == [init |-> InitOf(<<"par", "size">>), fini |-> Destroy, end |-> End(<<Broadcast("ne")>>),
         push |-> PushOf(<<WaitWhile(Full, "nf")>>, <<Advance("in")>>, <<Signal("ne")>>),
         pop |-> PopOf(WaitWhile(And(Empty, Left("lt")), "ne"), Empty, <<>>, <<Advance("out")>>, <<Signal("nf")>>)]
\* The newest element first.
StackPop ==
  <<Lock, WaitWhile(And(Empty, Left("lt")), "ne"), <<"if", Empty, <<Unlock, Return(Num(-1))>>, <<>>>>,
    Set("in", Op("rem", Op("add", Op("sub", M("in"), Num(1)), M("s")), M("s"))),
    <<"take", "x", "q", "d", M("in")>>, <<"set", "out", "", <<"loc", "x">>>>, Signal("nf"), Unlock, Return(Num(0))>>
\* ferret's: the end is tested for equality too, and passed on.
Chan == [Good EXCEPT !.push = PushOf(<<WaitWhile(Full, "nf")>>, WrapAt("in"), <<Signal("ne")>>),
                     !.pop = PopOf(WaitWhile(And(Empty, Left("lt")), "ne"), And(Empty, Left("eq")), <<Broadcast("ne")>>, WrapAt("out"), <<Signal("nf")>>)]
Plain == [init |-> Endless, push |-> Good.push,
          pop |-> <<Lock, WaitWhile(Empty, "ne"), <<"take", "x", "q", "d", M("out")>>, <<"set", "out", "", <<"loc", "x">>>>,
                    Advance("out"), Signal("nf"), Unlock, Return(Num(0))>>]

\* dedup's: helpers on any ring, batches between the queue's and the caller's own.
FifoEmpty == <<Return(Op("eq", R("out"), R("in")))>>
FifoFull == <<Return(Op("eq", R("in"), Op("rem", Op("add", Op("sub", R("out"), Num(1)), R("s")), R("s"))))>>
FifoGet ==
  <<<<"let", "p", <<"null">>>>,
    <<"if", <<"not", <<"ask", "empty", "r">>>>,
      <<<<"take", "p", "r", "d", R("out")>>, <<"set", "r", "out", Op("add", R("out"), Num(1))>>,
        <<"if", Op("ge", R("out"), R("s")), <<<<"set", "r", "out", Num(0)>>>>, <<>>>>>>, <<>>>>, Return(<<"loc", "p">>)>>
FifoPut ==
  <<<<"if", <<"ask", "full", "r">>, <<Return(Num(-1))>>, <<>>>>, <<"put", "r", "d", R("in"), <<"loc", "e">>>>,
    <<"set", "r", "in", Op("add", R("in"), Num(1))>>, <<"if", Op("eq", R("in"), R("s")), <<<<"set", "r", "in", Num(0)>>>>, <<>>>>, Return(Num(0))>>
Finished == <<Return(Left("eq"))>>
Asserting(c) == <<"if", c, <<>>, <<<<"abort">>>>>>
FifoInit == <<<<"malloc", "a", Op("mul", Num(8), Op("add", <<"loc", "e">>, Num(1)))>>, <<"set", "r", "d", <<"loc", "a">>>>,
              <<"set", "r", "s", Op("add", <<"loc", "e">>, Num(1))>>, <<"set", "r", "in", Num(0)>>, <<"set", "r", "out", Num(0)>>,
              Return(Op("eq", R("d"), <<"null">>))>>
InitDedup ==
  Prepare("m") \o <<<<"call", "fifo_init", "q", <<"par", "size">>, "failed">>, Asserting(<<"not", <<"loc", "failed">>>>),
                    Set("prod", <<"par", "producers">>), Set("end", Num(0)), Void0>>
Moves(from, to, limit) ==
  <<<<"let", "i", Num(0)>>,
    <<"for", "i", And(And(Op("lt", <<"loc", "i">>, limit), <<"not", <<"ask", "empty", from>>>>), <<"not", <<"ask", "full", to>>>>),
      <<<<"call", "get", from, Num(0), "x">>, <<"call", "put", to, <<"loc", "x">>, "ok">>, Asserting(Op("eq", <<"loc", "ok">>, Num(0)))>>, "count">>>>
Woke(cv) == <<<<"if", Op("gt", <<"loc", "i">>, Num(0)), <<Signal(cv)>>, <<>>>>, Unlock, Return(<<"loc", "i">>)>>
PutMany(limit) == <<Lock, WaitWhile(<<"ask", "full", "q">>, "nf")>> \o Moves("ring", "q", limit) \o Woke("ne")
GetMany(limit) ==
  <<Lock, WaitWhile(And(<<"ask", "empty", "q">>, <<"not", <<"ask", "finished", "q">>>>), "ne"),
    <<"if", And(<<"ask", "empty", "q">>, <<"ask", "finished", "q">>), <<Unlock, Return(Num(-1))>>, <<>>>>>>
  \o Moves("q", "ring", limit) \o Woke("nf")
Helpers == [empty |-> FifoEmpty, full |-> FifoFull, get |-> FifoGet, put |-> FifoPut, finished |-> Finished, fifo_init |-> FifoInit]
Max == <<"par", "max">>
Dedup == [init |-> InitDedup, fini |-> Destroy,
          end |-> <<Lock, Set("end", Op("add", M("end"), Num(1))), <<"if", <<"ask", "finished", "q">>, <<Broadcast("ne")>>, <<>>>>, Unlock, Void0>>,
          get_many |-> GetMany(Max), put_many |-> PutMany(Max)]

(***************************************************************************)
(* The units: a queue, the initialisation's arguments, the threads' calls. *)
(***************************************************************************)
Call(f, x) == [f |-> f, par |-> [v |-> x, max |-> x]]
Push(v) == Call("push", v)
Pop == Call("pop", 0)
Done == Call("end", 0)
Nobody == [mem |-> <<>>, cells |-> <<>>]
OwnOf(items, slots) ==
  [mem |-> [in |-> Len(items), out |-> 0, d |-> 1, s |-> slots], cells |-> [j \in 0 .. Len(items) - 1 |-> items[j + 1]]]
Order == <<"init", "fini", "end", "push", "pop", "get_many", "put_many", "finished", "count">>
UnitOf(q, helpers, size, producers, client, own, outside) ==
  [funs |-> q @@ helpers, fns |-> SelectSeq(Order, LAMBDA f : f \in DOMAIN q \cup (DOMAIN helpers \cap {"finished"})),
   members |-> {"in", "out", "d", "s", "prod", "end", "n", "m", "ne", "nf"}, main |-> TRUE,
   args |-> [size |-> size, producers |-> producers], client |-> client, own |-> own, outside |-> outside]
Unit(q, size, producers, client) == UnitOf(q, <<>>, size, producers, client, [t \in DOMAIN client |-> Nobody], {})
Batched(q, size, producers, client, own) == UnitOf(q, Helpers, size, producers, client, own, {})

TwoOfEach == <<<<Push(1), Push(2), Done>>, <<Pop, Pop>>, <<Pop, Pop>>>>
TwoSenders == <<<<Push(1), Push(2), Done>>, <<Push(3), Done>>, <<Pop, Pop>>, <<Pop, Pop>>>>
Overrun == <<<<Push(1), Push(2), Push(3)>>, <<Pop, Pop, Pop>>>>
Extra == <<<<Push(1), Done, Done>>, <<Pop, Pop, Pop>>>>
OneWay == <<<<Call("put_many", 2), Call("put_many", -1), Call("put_many", 2), Done>>,
            <<Call("get_many", 1), Call("get_many", 3), Call("get_many", 2)>>, <<Call("get_many", 0), Call("get_many", 2)>>>>
Lifted == <<
  Unit(Good, 3, 1, TwoOfEach), Unit(Good, 2, 2, TwoSenders), Unit(Good, 1, 0, <<<<Pop, Done>>, <<Push(1)>>>>),
  Unit(Good, 2, 1, Extra), Unit(Chan, 2, 1, TwoOfEach), Unit(Chan, 3, 1, Extra), Unit(Chan, 2, -1, TwoOfEach), Unit(Plain, 2, 0, Overrun),
  Batched(Dedup, 2, 1, OneWay, <<OwnOf(<<1, 2, 3>>, 4), OwnOf(<<>>, 3), OwnOf(<<>>, 2)>>)>>
\* Each differs from a queue that lifts in what the pass refuses.
Refused == <<
  Unit([Good EXCEPT !.push = PushOf(<<WaitWhile(Full, "nf")>>, <<Advance("in")>>, <<>>)], 3, 1, TwoOfEach),
  Unit([Good EXCEPT !.end = End(<<Signal("ne")>>)], 3, 1, TwoOfEach),
  Unit([Good EXCEPT !.push = PushOf(<<>>, <<Advance("in")>>, <<Signal("ne")>>)], 2, 1, TwoOfEach),
  Unit([Good EXCEPT !.push = PushOf(<<WaitWhile(Full, "nf")>>, <<Set("in", Op("rem", Op("add", M("in"), Num(1)), Num(2)))>>, <<Signal("ne")>>)], 3, 1, TwoOfEach),
  Unit([Good EXCEPT !.pop = PopOf(WaitWhile(And(Empty, Op("eq", M("end"), Num(0))), "ne"), Empty, <<>>, <<Advance("out")>>, <<Signal("nf")>>)], 3, 1, TwoOfEach),
  Unit([Good EXCEPT !.pop = <<<<"if", And(Empty, Left("eq")), <<Return(Num(-1))>>, <<>>>>>> \o @], 3, 1, TwoOfEach),
  Unit([Good EXCEPT !.push = PushOf(<<WaitWhile(Full, "nf")>>, <<Advance("in"), Set("n", Op("add", M("n"), Num(1)))>>, <<Signal("ne")>>)], 3, 1, TwoOfEach),
  Unit([Good EXCEPT !.pop = <<Lock, <<"while", And(Empty, Left("lt")), <<<<"timedwait", "q", "ne", "q", "m">>>>>>>> \o Tail(Tail(@))], 3, 1, TwoOfEach),
  Unit([Good EXCEPT !.pop = StackPop], 3, 1, TwoOfEach),
  Unit([Good EXCEPT !.push = PushOf(<<<<"while", Full, <<<<"wait", "q", "nf", "w", "m">>>>>>>>, <<Advance("in")>>, <<Signal("ne")>>)], 3, 1, TwoOfEach),
  Unit([Good EXCEPT !.push = PushOf(<<WaitWhile(Full, "nf")>>, <<Advance("in")>>, <<Signal("ne"), <<"broadcast", "w", "sent">>>>)], 3, 1, TwoOfEach),
  Unit([Good EXCEPT !.push = <<Lock, Asserting(Left("lt"))>> \o Tail(@)], 3, 1, TwoOfEach),
  [Unit(Good, 3, 1, TwoOfEach) EXCEPT !.main = FALSE],
  Unit(Good @@ [count |-> <<Lock, Unlock, Return(Num(0))>>], 3, 1, TwoOfEach),
  UnitOf(Good, <<>>, 3, 1, TwoOfEach, [t \in 1 .. 3 |-> Nobody], {"main touches head"}),
  Batched([Dedup EXCEPT !.put_many = PutMany(<<"lossy", "max">>)], 2, 1, OneWay, <<OwnOf(<<1, 2, 3>>, 4), OwnOf(<<>>, 3), OwnOf(<<>>, 2)>>)>>
MCCUnits == Lifted \o Refused
=============================================================================
