----------------------------- MODULE MCTopology -----------------------------
(***************************************************************************)
(* Translation units for Topology: a queue built in one of several ways,   *)
(* then two statements of main that start threads on it, use it, pass it   *)
(* on or let it out of sight.                                              *)
(***************************************************************************)
EXTENDS Topology

St(op) == [op |-> op, to |-> "", fn |-> "", args |-> <<>>, n |-> "", tag |-> "", arms |-> <<>>]
Place(base, root, at) == [base |-> base, root |-> root, at |-> at, ty |-> "A"]
Param(k) == Place("param", k, "whole")
On(op, q) == [St(op) EXCEPT !.args = <<q>>]
To(op, f, q) == [St(op) EXCEPT !.to = f, !.args = <<q>>]
If(a, b) == [St("if") EXCEPT !.arms = <<a, b>>]
For(n, body) == [St("loop") EXCEPT !.n = n, !.arms = <<body>>]
While(body) == For("", body)
UpTo(n, body) == [For(n, body) EXCEPT !.tag = "inclusive"]
Switch(arms) == [St("switch") EXCEPT !.arms = arms]
Built(q, tag) == [On("build", q) EXCEPT !.tag = tag]
New(g, tag) == [To("new", g, Place("slot", g, "whole")) EXCEPT !.tag = tag]
ManyFrom(q) == [To("call", "many", q) EXCEPT !.n = "n"]
Handed(f, q) == [To("call", "start", q) EXCEPT !.fn = f]
Launch(f, q) == To("launch", f, q)
LaunchHere(f, q) == [Launch(f, q) EXCEPT !.tag = "caller"]
Assign == [St("set") EXCEPT !.to = "n"]
Leave == St("return")
Break == St("break")

\* The functions the statements of main use.
Library ==
  [prod   |-> <<On("push", Param(1))>>,
   cons   |-> <<On("pop", Param(1))>>,
   both   |-> <<On("overrun", Param(1))>>,
   many   |-> <<For("param", <<To("spawn", "prod", Param(1))>>)>>,
   start  |-> <<To("spawn", "param", Param(1))>>,
   rec    |-> <<If(<<To("call", "rec", Param(1))>>, <<>>), On("push", Param(1))>>,
   breeds |-> <<On("push", Param(1)), If(<<To("spawn", "breeds", Param(1))>>, <<>>)>>,
   slotp  |-> <<On("push", Place("slot", "p", "whole"))>>,
   globp  |-> <<On("push", Place("global", "g", "whole"))>>]

Statements(q) ==
  <<<<To("spawn", "prod", q)>>, <<To("spawn", "cons", q)>>, <<On("push", q)>>, <<On("pop", q)>>,
    <<On("overrun", q)>>, <<For("n", <<To("spawn", "prod", q)>>)>>, <<UpTo("n", <<To("spawn", "cons", q)>>)>>,
    <<While(<<To("spawn", "prod", q)>>)>>, <<If(<<To("spawn", "prod", q)>>, <<To("spawn", "prod", q)>>)>>,
    <<If(<<To("spawn", "prod", q), Leave>>, <<>>), To("spawn", "prod", q)>>,
    <<Switch(<<<<To("spawn", "cons", q), Break>>, <<To("spawn", "cons", q), Break>>>>)>>,
    <<Switch(<<<<To("spawn", "cons", q)>>, <<To("spawn", "cons", q), Break>>>>)>>,
    <<ManyFrom(q)>>, <<Handed("prod", q)>>, <<To("call", "rec", q)>>, <<To("call", "breeds", q)>>,
    <<On("extern", q)>>, <<On("icall", q)>>, <<To("store", "p", q), To("spawn", "slotp", q)>>,
    <<For("n", <<If(<<To("spawn", "prod", q)>>, <<To("spawn", "prod", q)>>)>>)>>,
    <<St("goto")>>, <<Assign>>, <<To("spawn", "prod", q), LaunchHere("cons", q)>>, <<[St("take") EXCEPT !.to = "globp"]>>,
    <<[St("take") EXCEPT !.to = "prod"], On("icall", q)>>, <<For("n", <<For("n", <<To("spawn", "prod", q)>>)>>)>>>>

Unit(main, more, ctors, named) ==
  LET body == [main |-> main] @@ more @@ Library
  IN  [body |-> body, text |-> [f \in DOMAIN body |-> TextOf(body[f])], ctors |-> ctors, named |-> named,
   internal |-> DOMAIN Library \ {"globp"}, globals |-> [g |-> "A", a |-> "A", p |-> "A"],
   ints |-> {"n"}, shared |-> {}, locals |-> {"q"}, types |-> {"A"}]

\* The ways the queue is built.
None == [x \in {} |-> <<>>]
Globl == Place("global", "g", "whole")
Local == Place("local", "q", "whole")
Heap == Place("slot", "p", "whole")
Element == Place("global", "a", "any")
InMain(q, tag, x, y) == Unit(<<Built(q, tag)>> \o x \o y, None, <<>>, {})
AtStart(x, y) == Unit(x \o y, [init |-> <<Built(Globl, "generic")>>], <<"init">>, {})
InBuilder(x, y) == Unit(<<To("call", "make", Globl)>> \o x \o y, [make |-> <<Built(Globl, "generic")>>], <<>>, {})
OnHeap(x, y) == Unit(<<New("p", "generic")>> \o x \o y, None, <<>>, {})
Open(x, y) == Unit(<<Built(Globl, "generic")>> \o x \o y, None, <<>>, {"g", "globp"})
RanBy(x, y) == Unit(<<To("call", "run", Globl)>>, [run |-> <<Built(Globl, "generic")>> \o x \o y], <<>>, {"globp"})

\* Every statement with every way to build the queue, and a second statement each time.
N == Len(Statements(Local))
Ways == 9
Made(way, i, j) ==
  LET on(q) == Statements(q)
      x(q) == on(q)[i]
      y(q) == on(q)[j]
  IN  CASE way = 0 -> InMain(Local, "generic", x(Local), y(Local))
        [] way = 1 -> InMain(Globl, "spsc", x(Globl), y(Globl))
        [] way = 2 -> InMain(Globl, "mpsc", x(Globl), y(Globl))
        [] way = 3 -> AtStart(x(Globl), y(Globl))
        [] way = 4 -> InBuilder(x(Globl), y(Globl))
        [] way = 5 -> OnHeap(x(Heap), y(Heap))
        [] way = 6 -> Open(x(Globl), y(Globl))
        [] way = 7 -> InMain(Element, "generic", x(Element), y(Element))
        [] way = 8 -> RanBy(x(Globl), y(Globl))
Partners == 3
MCPrograms == [k \in 1 .. Partners * Ways * N |->
  LET way == ((k - 1) \div N) % Ways
      step == (k - 1) \div (N * Ways)
      i == ((k - 1) % N) + 1
  IN  Made(way, i, ((i * (2 * way + 5) + 7 * step) % N) + 1)]

\* A launch on every worker core, in a counted loop.
LaunchPrograms == <<InMain(Local, "generic", <<For("n", <<Launch("prod", Local)>>)>>, <<>>)>>
MCCores == {1, 2}
MCValues == 0 .. 2
=============================================================================
