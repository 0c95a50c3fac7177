------------------------------ MODULE MCBorrow ------------------------------
(***************************************************************************)
(* Translation units for Borrow: a consumer that pops two queues in turn,  *)
(* each into a slot of its own scope, and does one thing with each.        *)
(***************************************************************************)
EXTENDS Naturals, Sequences, SequencesExt, TLC

St(op) == [op |-> op, to |-> "", arg |-> "", fn |-> "", how |-> {}, impl |-> "spsc_inline", nothrow |-> TRUE, n |-> 0,
           of |-> "", def |-> "", ids |-> {}, ty |-> "", arms |-> <<>>]
In(op, arms) == [St(op) EXCEPT !.arms = arms]
Maybe(body) == In("if", <<body, <<>>>>)
Scope(slot, body) == [In("scope", <<body>>) EXCEPT !.def = slot]
Twice(body) == [In("loop", <<body>>) EXCEPT !.n = 2]
Popped(label, ids, ty, slot) == [St("pop") EXCEPT !.to = label, !.ids = ids, !.ty = ty, !.def = slot]
Of(op, v) == [St(op) EXCEPT !.of = v]
From(op, v, def) == [Of(op, v) EXCEPT !.def = def]
Kept(v, to) == [Of("keep", v) EXCEPT !.to = to]
Loaded(from, def) == [St("load") EXCEPT !.to = from, !.def = def]
Calls(f) == [St("call") EXCEPT !.to = f]
Gives(f, v) == [Of("call", v) EXCEPT !.to = f]
Hands(f, g) == [Calls(f) EXCEPT !.arg = g]
Through(fn, to, really) == [St("icall") EXCEPT !.fn = fn, !.to = to, !.arg = really]
Here(body) == [body |-> body, seen |-> "here", internal |-> TRUE, locals |-> {"l"}]
Away == [Here(<<>>) EXCEPT !.seen = "none"]

Takes(label, ids, ty) == Here(<<Scope("u", <<Popped(label, ids, ty, "u"), Of("ask", "u")>>)>>)
Library ==
  [first  |-> Takes("a", {1}, "A"),
   second |-> Takes("b", {2}, "B"),
   moves  |-> Here(<<[Popped("c", {1}, "A", "") EXCEPT !.how = {"transfer"}]>>),
   even   |-> Here(<<Maybe(<<Calls("odd")>>), Calls("first")>>),
   odd    |-> Here(<<Maybe(<<Calls("even")>>)>>),
   apply  |-> Here(<<Through("apply", "param", "")>>),
   none   |-> Here(<<>>),
   away   |-> Away,
   reads  |-> Here(<<From("step", "param", "m"), Of("read", "m")>>),
   same   |-> Here(<<Of("return", "param")>>),
   stores |-> Here(<<Kept("param", "g")>>),
   ping   |-> Here(<<Gives("pong", "param"), Kept("param", "g")>>),
   pong   |-> Here(<<Maybe(<<Gives("ping", "param")>>)>>)]

\* What the consumer does with the slot s and the pointer p it got from it.
Uses(s, p) ==
  <<<<>>, <<Of("read", p)>>, <<Of("push", p)>>, <<Of("share", s)>>, <<Kept(p, "g")>>, <<From("toint", p, "i"), Kept("i", "g")>>,
    <<Kept(p, "l"), Loaded("l", "v"), Of("read", "v")>>, <<Kept(p, "l"), [St("addr") EXCEPT !.to = "l"]>>,
    <<Gives("reads", p)>>, <<Gives("stores", p)>>, <<Gives("away", p)>>, <<[Gives("same", p) EXCEPT !.def = "r"], Kept("r", "g")>>,
    <<Gives("ping", p)>>, <<Gives("pong", p)>>, <<[Through("main", "any", "reads") EXCEPT !.of = p]>>>>
\* What else it does while the slot lives.
Meanwhile ==
  <<Calls("first"), Calls("second"), Calls("moves"), Calls("even"), Calls("odd"), Maybe(<<Calls("odd")>>), Hands("apply", "first"),
    Hands("apply", "none"), Through("main", "first", ""), Through("main", "any", "second"), Calls("away"),
    Scope("u", <<Popped("d", {1, 2}, "A", "u")>>), Scope("u", <<Popped("e", {}, "A", "u")>>), Maybe(<<Calls("main")>>)>>

Root(id, ty, topology, loops) == [id |-> id, ty |-> ty, topology |-> topology, loops |-> loops]
Plain == <<Root(1, "A", "spsc", {}), Root(2, "B", "spsc", {})>>
Counted == <<Root(1, "A", "mpsc", {"producers"}), Root(2, "B", "mpmc", {"producers"}), Root(3, "C", "spsc", {}), Root(4, "D", "unknown", {})>>
Unit(roots, body, newest) ==
  [fns |-> [main |-> Here(body)] @@ Library, order |-> <<"main", "first", "second", "moves">>, roots |-> roots,
   main |-> "main", newest |-> newest]
Consumer(x, y) ==
  <<Twice(<<Scope("s", <<Popped("p1", {1}, "A", "s"), From("get", "s", "p")>> \o x),
            Scope("t", <<Popped("p2", {2}, "B", "t"), From("get", "t", "q")>> \o y)>>)>>
NUses == Len(Uses("s", "p"))
NMeanwhile == Len(Meanwhile)
MCBorrowUnits ==
  [k \in 1 .. 2 * NUses |-> Unit(Plain, Consumer(Uses("s", "p")[((k - 1) % NUses) + 1], Uses("t", "q")[((k * 7) % NUses) + 1]), k > NUses)]
  \o [k \in 1 .. 2 * NMeanwhile |->
        LET i == ((k - 1) % NMeanwhile) + 1
            j == ((k * 3) % NMeanwhile) + 1
        IN  Unit(IF k > NMeanwhile THEN Counted ELSE Plain, Consumer(<<Meanwhile[i]>>, <<Meanwhile[j], Of("read", "q")>>), FALSE)]
  \o [k \in 1 .. NMeanwhile |-> Unit(Plain, Consumer(<<Meanwhile[k]>>, <<Meanwhile[k]>>), FALSE)]
  \o [k \in 1 .. NMeanwhile |-> Unit(Plain, Consumer(<<Of("read", "p")>>, <<Meanwhile[k]>>), FALSE)]

\* A pointer into the element carried round a loop in a local: for (p = x.get(); ...; ++p).
Carries(p) == <<Kept(p, "l"), Twice(<<Loaded("l", "v"), From("step", "v", "w"), Kept("w", "l")>>)>>
CarryingUnits == <<Unit(Plain, Consumer(<<>>, <<Of("read", "q")>>), FALSE), Unit(Plain, Consumer(<<Of("read", "p")>>, Carries("q")), FALSE)>>
=============================================================================
