------------------------------ MODULE MCLifting ------------------------------
(***************************************************************************)
(* Translation units for Lifting: a few classes that lift, each of them    *)
(* with one thing changed, and the clients that run them.                  *)
(***************************************************************************)
EXTENDS Lifting

St(op) == [op |-> op, what |-> "", cv |-> "", cond |-> <<>>, val |-> "", ty |-> ""]
Lock == [St("lock") EXCEPT !.what = "guard"]
Unlock == [St("unlock") EXCEPT !.what = "scope"]
Let == [St("unlock") EXCEPT !.what = "call"]
On(f) == [St("call") EXCEPT !.what = f]
Add(f) == [On(f) EXCEPT !.val = "param", !.ty = "T"]
Out == [St("out") EXCEPT !.what = "param", !.val = "move"]
Copy == [Out EXCEPT !.val = "copy"]
If_(c) == [St("guard") EXCEPT !.cond = c, !.val = "false"]
Wait(what, cv, c) == [St("wait") EXCEPT !.what = what, !.cv = cv, !.cond = c]
One(cv) == [St("notify") EXCEPT !.what = "one", !.cv = cv]
All(cv) == [St("notify") EXCEPT !.what = "all", !.cv = cv]
Stop(f) == [St("set") EXCEPT !.what = f, !.val = "true"]
Touch == St("touch")
Ret(v) == [St("return") EXCEPT !.val = v]
Call(f) == <<"call", f>>
Neg(c) == <<"not", c>>
Or(c, d) == <<"or", c, d>>
And(c, d) == <<"and", c, d>>
Flag(f) == <<"flag", f>>
M(name, body) == [name |-> name, body |-> body]

IsEmpty == Call("empty")
IsFull == Call("full")
Take(f) == <<On("front"), Out, On(f)>>

\* The operations, as a program writes them.
Push == <<Lock, Add("push_back"), Unlock, One("d"), Ret("")>>
PushTrue == <<Lock, Add("push_back"), Unlock, One("d"), Ret("true")>>
TryPop == <<Lock, If_(IsEmpty)>> \o Take("pop_front") \o <<Ret("true")>>
PopWait == <<Lock, Wait("pred", "d", Neg(IsEmpty))>> \o Take("pop_front") \o <<Unlock, Ret("")>>
PopClosable(c) == <<Lock, Wait("pred", "d", c)>> \o <<If_(IsEmpty)>> \o Take("pop_front") \o <<Ret("true")>>
PopLoop == <<Lock, Wait("while", "d", And(IsEmpty, Neg(Flag("s")))), If_(And(Flag("s"), IsEmpty))>> \o Take("pop_front")
           \o <<Ret("true")>>
Close == <<Lock, Stop("s"), Unlock, All("d"), Ret("")>>
PushWait == <<Lock, Wait("pred", "p", Neg(IsFull)), Add("push_back"), Unlock, One("d"), Ret("")>>
Room(flag) == [St("room") EXCEPT !.what = "push_back", !.cond = Neg(IsFull), !.cv = flag, !.val = "param", !.ty = "T"]
FlagIf(flag) == [One("d") EXCEPT !.op = "flagif", !.val = flag]
TryPush == <<Lock, Room("f"), Unlock, FlagIf("f"), Ret("")>>
TimedOut == [St("timedout") EXCEPT !.val = "false"]
PopFor == <<Lock, Wait("timed", "d", Neg(IsEmpty)), TimedOut>> \o Take("pop_front") \o <<Unlock, One("p"), Ret("true")>>
PopRoom == <<Lock, Wait("pred", "d", Neg(IsEmpty))>> \o Take("pop_front") \o <<Unlock, One("p"), Ret("")>>
Get(f) == <<Lock, On(f), Ret("getter")>>
Reset == <<Lock, On("reset_overrun_counter"), Unlock, Ret("")>>

\* A ring as spdlog writes it: head, tail, overruns and slots under the names given.
Mem1(i) == <<"rem", <<"add", Mem(i), Num(1)>>, Mem("d")>>
RingOf(h, t, o) ==
  [ctor |-> <<<<"set", "d", <<"add", Arg, Num(1)>>>>, <<"set", h, Num(0)>>, <<"set", t, Num(0)>>, <<"set", o, Num(0)>>,
              <<"size", <<"add", Num(1), Arg>>>>>>,
   order |-> <<"empty", "front", "pop_front", "full", "push_back", "size", "overrun_counter", "reset_overrun_counter">>,
   funs |->
    [push_back |-> <<<<"if", <<"gt", Mem("d"), Num(0)>>,
                       <<<<"put", Mem(t)>>, <<"set", t, Mem1(t)>>,
                         <<"if", <<"eq", Mem(t), Mem(h)>>,
                           <<<<"set", h, Mem1(h)>>, <<"set", o, <<"add", Mem(o), Num(1)>>>>>>, <<>>>>>>, <<>>>>>>,
     front |-> <<<<"return", <<"elem", Mem(h)>>>>>>,
     pop_front |-> <<<<"set", h, Mem1(h)>>>>,
     empty |-> <<<<"return", <<"eq", Mem(h), Mem(t)>>>>>>,
     full |-> <<<<"if", <<"ne", Mem("d"), Num(0)>>, <<<<"return", <<"eq", Mem1(t), Mem(h)>>>>>>, <<>>>>, <<"return", <<"false">>>>>>,
     size |-> <<<<"if", <<"ge", Mem(t), Mem(h)>>, <<<<"return", <<"sub", Mem(t), Mem(h)>>>>>>,
                        <<<<"return", <<"sub", Mem("d"), <<"sub", Mem(h), Mem(t)>>>>>>>>>>>>,
     overrun_counter |-> <<<<"return", Mem(o)>>>>,
     reset_overrun_counter |-> <<<<"set", o, Num(0)>>>>]]
Spdlog == RingOf("a", "b", "c")
Written(f, body) == [Spdlog EXCEPT !.funs[f] = body]

NoNodes == [x \in {} |-> <<>>]
Base(kind, methods, client) ==
  [kind |-> kind, under |-> "deque", stdalloc |-> TRUE, mutexes |-> 1, anyCv |-> FALSE, copied |-> FALSE, outside |-> FALSE,
   ring |-> Spdlog, methods |-> methods, ctors |-> {[build |-> IF kind = "ring" THEN "sized" ELSE "default",
                                                     flags |-> [s |-> "false", z |-> "false"]]},
   front |-> "T", open |-> FALSE, main |-> TRUE, bodyless |-> FALSE, mentioned |-> FALSE, linked |-> FALSE, reach |-> {},
   nodes |-> NoNodes, overruns |-> <<<<>>>>, taken |-> FALSE, hidden |-> FALSE, trivial |-> TRUE,
   uses |-> [overrun_counter |-> {<<"return", "stats">>}, stats |-> {<<"drop">>, <<"return", "stats">>}],
   cap |-> 2, client |-> client]
Class(a, b, c, client) == Base("deque", <<M("push", a), M("pop", b), M("other", c)>>, client)
Ringed(ms, client) == Base("ring", ms, client)

\* Classes that lift.
Plain == Class(Push, PopWait, TryPop, <<<<1, 1>>, <<2>>, <<3, 2>>>>)
Closable == Class(PushTrue, PopClosable(Or(Neg(IsEmpty), Flag("s"))), Close, <<<<1, 3>>, <<2, 2>>, <<2>>>>)
Looping == Class(Push, PopLoop, Close, <<<<1, 3>>, <<2, 1>>, <<2, 2>>>>)
Scalar == Class(<<Lock, Add("emplace_back"), Unlock, Ret("true")>>, <<Lock, If_(IsEmpty), On("front"), Copy, On("pop_front"), Ret("true")>>,
                <<[Lock EXCEPT !.what = "mutex"], Add("push_back"), Let, St("local"), Ret("")>>, <<<<1, 3>>, <<2, 2>>, <<2>>>>)
Async(n) == [Ringed(<<M("push", PushWait), M("pop", PopRoom), M("post", Push), M("overrun_counter", Get("overrun_counter"))>>,
                    <<<<1, 1>>, <<2, 2>>, <<1, 4>>>>) EXCEPT !.cap = n]
Dropping == Ringed(<<M("offer", TryPush), M("pop", PopFor), M("size", Get("size"))>>, <<<<1, 1>>, <<2, 1>>, <<2, 3>>>>)
Overrunning(n) == [Ringed(<<M("post", Push), M("pop", PopFor), M("overrun_counter", Get("overrun_counter")), M("reset", Reset)>>,
                          <<<<1, 1, 1>>, <<2, 2>>, <<4, 3>>>>) EXCEPT !.cap = n]

\* The same with one thing changed.
Changed(c, j, body) == [c EXCEPT !.methods[j].body = body]
Swap(body, i, s) == [body EXCEPT ![i] = s]
Also(body, i, s) == SubSeq(body, 1, i) \o <<s>> \o SubSeq(body, i + 1, Len(body))
Forms ==
  <<[Plain EXCEPT !.kind = "list"], [Plain EXCEPT !.kind = "queue"], [Plain EXCEPT !.kind = "queue", !.under = "vector"],
    [Plain EXCEPT !.kind = "queue", !.stdalloc = FALSE], [Plain EXCEPT !.stdalloc = FALSE], [Plain EXCEPT !.kind = "vector"],
    [Plain EXCEPT !.kind = "other"], [Plain EXCEPT !.mutexes = 2], [Plain EXCEPT !.anyCv = TRUE],
    [Plain EXCEPT !.copied = TRUE], [Plain EXCEPT !.outside = TRUE], [Plain EXCEPT !.ctors = {}],
    [Plain EXCEPT !.ctors = {[build |-> "other", flags |-> [s |-> "false"]]}],
    [Closable EXCEPT !.ctors = {[build |-> "default", flags |-> [s |-> "true"]]}],
    [Closable EXCEPT !.ctors = {[build |-> "default", flags |-> [s |-> ""]]}],
    [Scalar EXCEPT !.front = "U"], [Scalar EXCEPT !.front = ""], [Plain EXCEPT !.front = ""],
    [Scalar EXCEPT !.trivial = FALSE], [Plain EXCEPT !.trivial = FALSE], [Plain EXCEPT !.hidden = TRUE],
    [Plain EXCEPT !.open = TRUE], [Plain EXCEPT !.main = FALSE], [Plain EXCEPT !.bodyless = TRUE],
    [Plain EXCEPT !.mentioned = TRUE], [Plain EXCEPT !.linked = TRUE], [Plain EXCEPT !.linked = TRUE, !.reach = {"global"}],
    [Plain EXCEPT !.methods = <<M("push", Push), M("clear", <<Touch>>)>>]>>
Pushed ==
  LET with(body) == Changed(Plain, 1, body)
  IN  <<with(<<Lock, Add("push_back"), One("d"), Unlock, Ret("")>>), with(<<Lock, Add("push_back"), Unlock, Ret("")>>),
        with(Swap(Push, 5, Ret("false"))), with(Swap(Push, 5, Ret("other"))), with(Swap(Push, 2, Add("push_front"))),
        with(Swap(Push, 2, [Add("push_back") EXCEPT !.val = "other"])), with(Also(Push, 1, Touch)), with(Also(Push, 3, Touch)),
        with(Also(Push, 2, St("loop"))), with(Also(Push, 2, St("foreign"))), with(Also(Push, 2, [St("local") EXCEPT !.what = "effects"])),
        with(Also(Push, 2, [Add("push_back") EXCEPT !.ty = "U"])), with(Also(Push, 2, Stop("s"))),
        with(<<Add("push_back"), One("d"), Ret("")>>), with(Swap(Push, 1, [Lock EXCEPT !.what = "other"])), with(Also(Push, 1, Lock)),
        with(Also(Push, 1, Let)), with(Also(Push, 3, Let)), with(<<Lock, Unlock>> \o Push), with(Push \o Push), with(Also(Push, 1, On("size"))),
        with(<<Lock, If_(IsEmpty), Add("push_back"), Unlock, One("d"), Ret("true")>>), with(Also(Push, 2, FlagIf("f")))>>
Popped ==
  LET with(body) == Changed(Plain, 2, body)
      at(w) == with(Swap(PopWait, 2, w))
  IN  <<with(<<Lock, Wait("while", "d", IsEmpty)>> \o Take("pop_front") \o <<Unlock, Ret("")>>),
        with(<<Lock, Wait("pred", "d", Neg(IsEmpty)), Unlock, Lock>> \o Take("pop_front") \o <<Unlock, Ret("")>>),
        with(<<Lock, Wait("pred", "d", Neg(IsEmpty)), Let>> \o Take("pop_front") \o <<Ret("")>>),
        with(<<Lock, If_(IsEmpty), Let, [Lock EXCEPT !.what = "mutex"]>> \o Take("pop_front") \o <<Let, Ret("true")>>),
        with(<<Lock, Wait("pred", "d", Neg(IsEmpty))>> \o Take("pop_back") \o <<Unlock, Ret("")>>),
        with(<<Lock, Wait("pred", "d", Neg(IsEmpty)), On("back"), Out, On("pop_back"), Unlock, Ret("")>>),
        with(<<Lock, Wait("pred", "d", Neg(IsEmpty)), On("front"), [Out EXCEPT !.what = "member"], On("pop_front"), Unlock, Ret("")>>),
        with(Swap(PopWait, 7, Ret("true"))), with(Also(PopWait, 1, If_(IsEmpty))),
        at(Wait("pred", "d", IsEmpty)), at(Wait("pred", "d", Neg(IsFull))), at(Wait("bare", "d", <<>>)), at(Wait("branch", "d", <<>>)),
        at(Wait("timed", "d", Neg(IsEmpty))), at(Wait("pred", "d", <<"member">>)), at(Wait("pred", "d", <<"local">>)),
        at(Wait("pred", "d", Call("size"))), at(Wait("pred", "d", Or(Flag("s"), Flag("z")))), at(Wait("pred", "d", Or(Neg(IsEmpty), Flag("s")))),
        with(Swap(PopWait, 1, [Lock EXCEPT !.what = "mutex"])), with(<<Wait("pred", "d", Neg(IsEmpty))>> \o PopWait),
        Changed(Plain, 3, <<Lock, Wait("pred", "e", Neg(IsEmpty))>> \o Take("pop_front") \o <<Ret("")>>),
        Changed(Plain, 3, Swap(TryPop, 2, [If_(IsEmpty) EXCEPT !.what = "more"])), Changed(Plain, 3, Swap(TryPop, 2, If_(Neg(IsEmpty)))),
        Changed(Plain, 3, Swap(TryPop, 2, [If_(IsEmpty) EXCEPT !.val = "true"])), Changed(Plain, 3, Swap(TryPop, 2, If_(<<"member">>))),
        Changed(Plain, 3, Also(TryPop, 1, TimedOut))>>
Closed ==
  LET with(j, body) == Changed(Closable, j, body)
  IN  <<with(3, Swap(Close, 4, One("d"))), with(3, Swap(Close, 4, Ret(""))), with(3, Swap(Close, 4, All("e"))),
        with(3, <<Lock, Stop("s"), All("d"), Unlock, Ret("")>>), with(3, <<Stop("s"), All("d"), Ret("")>>), with(3, Swap(Close, 2, Stop("z"))),
        with(3, Swap(Close, 2, [Stop("s") EXCEPT !.val = "false"])), with(3, Swap(Close, 5, Ret("true"))), with(3, Also(Close, 2, Touch)),
        with(2, PopWait), with(2, PopClosable(Or(Neg(IsEmpty), Flag("z")))), with(2, PopClosable(Flag("s"))),
        with(2, Swap(PopClosable(Or(Flag("s"), Neg(IsEmpty))), 3, If_(Flag("s")))), with(2, Swap(PopLoop, 3, If_(Or(Flag("s"), IsEmpty)))),
        with(2, Swap(PopLoop, 3, If_(IsEmpty))), with(2, Swap(PopLoop, 9 - 2, Ret(""))),
        with(2, TryPop), [Closable EXCEPT !.methods = Append(@, M("wait", PopWait)), !.client = <<<<1, 3>>, <<4>>, <<4>>>>]>>

\* The ring's own functions written another way.
Cast(n, e) == <<"cast", n, e>>
Narrow(n) == <<<<"set", "a", <<"rem", Cast(n, <<"add", Mem("a"), Num(1)>>), Mem("d")>>>>>>
WithRing(r) == [Async(2) EXCEPT !.ring = r, !.client = <<<<1, 1, 1>>, <<2, 2, 2>>, <<4>>>>]
Sized(e) == <<<<"return", <<"ite", <<"le", Mem("a"), Mem("b")>>, <<"sub", Mem("b"), Mem("a")>>, e>>>>>>
RingForms ==
  <<WithRing(RingOf("c", "a", "b")), WithRing(RingOf("b", "a", "c")), WithRing(Written("pop_front", Narrow(16))),
    WithRing(Written("pop_front", Narrow(2))), WithRing(Written("pop_front", <<<<"set", "a", <<"add", Mem("a"), Cast(16, Num(1))>>>>>>)),
    WithRing(Written("front", <<<<"return", <<"elem", Mem("b")>>>>>>)),
    WithRing(Written("empty", <<<<"return", <<"not", <<"ne", Mem("b"), Mem("a")>>>>>>>>)),
    WithRing(Written("full", <<<<"return", <<"eq", Mem("a"), <<"rem", <<"add", Cast(2, Num(1)), Mem("b")>>, Mem("d")>>>>>>>>)),
    WithRing(Written("full", <<<<"return", <<"eq", Mem("a"), <<"rem", <<"add", Num(2), Mem("b")>>, Mem("d")>>>>>>>>)),
    WithRing(Written("push_back", <<<<"put", Mem("b")>>, <<"set", "b", Mem1("b")>>>>)),
    WithRing([Spdlog EXCEPT !.ctor = Tail(@)]), WithRing([Spdlog EXCEPT !.ctor = Append(@, <<"set", "a", Num(1)>>)]),
    WithRing([Spdlog EXCEPT !.ctor = <<<<"if", <<"lt", Arg, Num(9)>>, @, @>>>>]),
    [Dropping EXCEPT !.ring = Written("size", Sized(<<"sub", Mem("d"), <<"sub", Mem("a"), Mem("b")>>>>))],
    [Dropping EXCEPT !.ring = Written("size", Sized(<<"sub", <<"add", Mem("d"), Mem("b")>>, Mem("a")>>))]>>

\* The bounded class changed.
Bounded ==
  LET with(c, j, body) == Changed(c, j, body)
  IN  <<Async(0), Async(1), Async(2), Dropping, [Dropping EXCEPT !.cap = 0], [Dropping EXCEPT !.cap = 1], Overrunning(0), Overrunning(1), Overrunning(2),
        with(Async(1), 2, Swap(PopRoom, 7, Ret(""))), with(Async(1), 1, Swap(PushWait, 2, Wait("while", "p", IsFull))),
        with(Async(1), 1, Swap(PushWait, 2, Wait("pred", "p", IsEmpty))), with(Async(1), 1, Swap(PushWait, 6, Ret("true"))),
        with(Async(1), 3, <<Lock, Wait("pred", "e", Neg(IsFull)), Add("push_back"), Unlock, One("d"), Ret("")>>), with(Async(1), 3, Close),
        with(Async(1), 4, Swap(Get("overrun_counter"), 3, Ret("true"))), [Async(1) EXCEPT !.uses["stats"] = {<<"other">>}],
        with(Dropping, 1, Swap(TryPush, 2, [Room("f") EXCEPT !.cond = IsFull])), with(Dropping, 1, Swap(TryPush, 2, Room(""))),
        with(Dropping, 1, Swap(TryPush, 2, [Room("f") EXCEPT !.cond = <<"member">>])), with(Dropping, 1, Swap(TryPush, 2, [Room("f") EXCEPT !.val = "more"])),
        with(Dropping, 1, <<Lock, Room("f"), FlagIf("f"), Unlock, Ret("")>>), with(Dropping, 1, Swap(TryPush, 4, One("d"))),
        with(Dropping, 1, <<Lock, Room(""), Unlock, One("d"), Ret("")>>), with(Dropping, 1, Swap(TryPush, 1, [Lock EXCEPT !.what = "mutex"])),
        with(Dropping, 2, Swap(PopFor, 2, [Wait("timed", "d", Neg(IsEmpty)) EXCEPT !.val = "unit"])),
        with(Dropping, 2, Swap(PopFor, 3, [TimedOut EXCEPT !.val = "true"])), with(Dropping, 2, Swap(PopFor, 3, If_(IsEmpty))),
        with(Dropping, 2, Swap(PopFor, 9, Ret(""))), with(Dropping, 3, Close), with(Overrunning(1), 1, Swap(Push, 5, Ret("true"))),
        with(Overrunning(1), 4, Swap(Reset, 4, Ret("true"))), [Overrunning(1) EXCEPT !.kind = "deque"]>>

\* Where the overrunning push is called: under a policy, by the values the policy may hold.
Node(kind, from) == [kind |-> kind, from |-> from, leaks |-> FALSE, writes |-> FALSE, named |-> FALSE]
Const(n) == <<"const", n>>
Var(x) == <<"node", x>>
To(n, signed, e) == <<"cast", n, signed, e>>
When(c, arm) == [cond |-> c, arm |-> arm]
Policy(nodes, conds) ==
  [Overrunning(1) EXCEPT !.client = <<<<1, 1>>, <<2>>, <<3>>>>, !.nodes = nodes @@ NoNodes, !.overruns = <<conds>>]
Is1 == <<When(<<"eq", Var("m"), Const(1)>>, TRUE)>>
Held1(from) == Policy([m |-> Node("member", from)], Is1)
Policies ==
  <<Held1({Const(0), Const(2)}), Held1({Const(0), Const(1)}), Held1({}), Held1({To(256, FALSE, Const(257))}),
    Held1({To(256, FALSE, Const(258))}), Held1({Const(0), Var("m")}), Held1({To(256, TRUE, To(65536, FALSE, Const(-1)))}),
    [Held1({Const(0)}) EXCEPT !.nodes["m"].leaks = TRUE], [Held1({Const(0)}) EXCEPT !.nodes["m"].writes = TRUE],
    [Held1({Const(0)}) EXCEPT !.nodes["m"].named = TRUE], [Held1({Const(0)}) EXCEPT !.nodes["m"].named = TRUE, !.linked = TRUE],
    [Held1({Const(0)}) EXCEPT !.taken = TRUE], [Held1({Const(0)}) EXCEPT !.overruns = <<>>],
    [Held1({Const(0)}) EXCEPT !.overruns = <<Is1, <<>>>>],
    Policy([m |-> Node("member", {Var("p")}), p |-> Node("param", {Const(0), Var("l")}), l |-> Node("local", {Const(1)})], Is1),
    Policy([m |-> Node("member", {Var("p")}), p |-> Node("param", {Const(0), Var("l")}), l |-> Node("local", {Var("p")})], Is1),
    Policy([m |-> Node("member", {Var("p")}), p |-> Node("ref", {})], Is1),
    Policy([m |-> Node("member", {Var("l")}), l |-> [Node("local", {Const(0)}) EXCEPT !.leaks = TRUE]], Is1),
    Policy([m |-> Node("member", {Var("p")}), p |-> [Node("param", {Const(0)}) EXCEPT !.leaks = TRUE, !.named = TRUE]], Is1),
    Policy([m |-> Node("member", {Var("p")}), p |-> [Node("ref", {Const(0)}) EXCEPT !.writes = TRUE]], Is1),
    Policy([m |-> Node("member", {To(256, TRUE, Const(255))})], <<When(<<"lt", Var("m"), Const(0)>>, TRUE)>>),
    Policy([m |-> Node("member", {To(256, FALSE, Const(256))})], <<When(<<"bool", Var("m")>>, FALSE)>>),
    Policy([m |-> Node("member", {Const(3), Const(4)})], <<When(<<"not", <<"gt", Var("m"), Const(2)>>>>, TRUE)>>),
    Policy([m |-> Node("member", {Const(2)}), l |-> Node("local", {Const(1)})],
           <<When(<<"ge", Var("m"), Var("l")>>, TRUE), When(<<"le", Var("m"), Var("l")>>, TRUE)>>),
    Policy([m |-> Node("member", {Const(2)})], <<When(<<"ne", Var("m"), Const(2)>>, FALSE)>>)>>

MCUnits == <<Plain, Closable, Looping, Scalar>> \o Forms \o Pushed \o Popped \o Closed \o RingForms \o Bounded \o Policies
MCValues == -1 .. 2
=============================================================================
