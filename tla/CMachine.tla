------------------------------ MODULE CMachine ------------------------------
(***************************************************************************)
(* C as it runs: the statements CReading reads, executed on memory by one  *)
(* thread.  External to the compiler; it is the program the lifting must   *)
(* not change.                                                             *)
(*                                                                         *)
(* A machine has the statements still to do, the frames of the functions   *)
(* it is inside, its locals and parameters, the members and the elements   *)
(* below each pointer parameter, the condition variables it woke, and, when*)
(* it stops, why: "returned", "asleep" (in a wait) or "aborted".           *)
(***************************************************************************)
EXTENDS CReading

\* An int made unsigned keeps its value modulo the type's size: here 2^8 for 2^32.
UnsignedSize == 256
Bit(b) == IF b THEN 1 ELSE 0
Where(m, r) == IF r = "r" THEN m.r ELSE r
Machine(body, par, mem, cells) ==
  [todo |-> body, frames |-> <<>>, loc |-> <<>>, par |-> par, r |-> "q", mem |-> mem, cells |-> cells,
   woke |-> <<>>, cv |-> "", stopped |-> "", ret |-> 0]

RECURSIVE Value(_, _), Do(_), Execute(_)
Value(m, e) ==
  CASE e[1] = "k" -> e[2]
    [] e[1] = "par" -> m.par[e[2]]
    [] e[1] = "loc" -> m.loc[e[2]]
    [] e[1] = "mem" -> m.mem[Where(m, e[2])][e[3]]
    [] e[1] = "lossy" -> m.par[e[2]] % UnsignedSize
    [] e[1] = "not" -> 1 - Value(m, e[2])
    [] e[1] = "and" -> Bit(Value(m, e[2]) # 0 /\ Value(m, e[3]) # 0)
    [] e[1] = "or" -> Bit(Value(m, e[2]) # 0 \/ Value(m, e[3]) # 0)
    [] e[1] = "ask" -> Execute([m EXCEPT !.todo = code.funs[e[2]], !.frames = <<>>, !.r = Where(m, e[3])]).ret
    [] e[1] = "add" -> Value(m, e[2]) + Value(m, e[3])
    [] e[1] = "sub" -> Value(m, e[2]) - Value(m, e[3])
    [] e[1] = "mul" -> Value(m, e[2]) * Value(m, e[3])
    [] e[1] = "rem" -> Value(m, e[2]) % Value(m, e[3])
    [] e[1] = "eq" -> Bit(Value(m, e[2]) = Value(m, e[3]))
    [] e[1] = "ne" -> Bit(Value(m, e[2]) # Value(m, e[3]))
    [] e[1] = "lt" -> Bit(Value(m, e[2]) < Value(m, e[3]))
    [] e[1] = "le" -> Bit(Value(m, e[2]) <= Value(m, e[3]))
    [] e[1] = "gt" -> Bit(Value(m, e[2]) > Value(m, e[3]))
    [] e[1] = "ge" -> Bit(Value(m, e[2]) >= Value(m, e[3]))
    [] e[1] \in {"null", "false", "void"} -> 0
    [] e[1] = "true" -> 1

\* A slot nobody wrote reads as zero.
Cell(m, r, i) == IF i \in DOMAIN m.cells[r] THEN m.cells[r][i] ELSE 0
Keep(m, x, v) == [m EXCEPT !.loc = (x :> v) @@ @]
Leave(m, v) ==
  IF m.frames = <<>> THEN [m EXCEPT !.stopped = "returned", !.ret = v]
  ELSE LET f == Head(m.frames)
           up == [m EXCEPT !.todo = f.todo, !.loc = f.loc, !.r = f.r, !.frames = Tail(@)]
       IN  IF f.x = "" THEN up ELSE Keep(up, f.x, v)
Do(n) ==
  LET s == Head(n.todo)
      m == [n EXCEPT !.todo = Tail(@)]
  IN  CASE s[1] = "let" -> Keep(m, s[2], Value(m, s[3]))
        [] s[1] = "set" -> [m EXCEPT !.mem[Where(m, s[2])] = (s[3] :> Value(m, s[4])) @@ @]
        [] s[1] = "put" -> [m EXCEPT !.cells[Where(m, s[2])] = (Value(m, s[4]) :> Value(m, s[5])) @@ @]
        [] s[1] = "take" -> Keep(m, s[2], Cell(m, Where(m, s[3]), Value(m, s[5])))
        [] s[1] \in {"signal", "broadcast"} -> [m EXCEPT !.woke = Append(@, <<s[1], s[3]>>)]
        [] s[1] = "wait" -> [m EXCEPT !.stopped = "asleep", !.cv = s[3]]
        [] s[1] = "malloc" -> Keep(m, s[2], 1)
        [] s[1] = "abort" -> [m EXCEPT !.stopped = "aborted"]
        [] s[1] = "call" -> [m EXCEPT !.todo = code.funs[s[2]], !.loc = ("e" :> Value(m, s[4])), !.r = Where(m, s[3]),
                                      !.frames = <<[todo |-> m.todo, loc |-> m.loc, r |-> m.r, x |-> s[5]]>> \o @]
        [] s[1] = "if" -> [m EXCEPT !.todo = (IF Value(m, s[2]) # 0 THEN s[3] ELSE s[4]) \o @]
        [] s[1] = "while" -> IF Value(m, s[2]) # 0 THEN [m EXCEPT !.todo = s[3] \o <<s>> \o @] ELSE m
        [] s[1] = "for" ->
             IF Value(m, s[3]) # 0 THEN [m EXCEPT !.todo = s[4] \o <<<<"let", s[2], <<"add", <<"loc", s[2]>>, K(1)>>>>, s>> \o @] ELSE m
        [] s[1] = "return" -> Leave(m, Value(m, s[2]))
        [] OTHER -> m
Execute(m) == IF m.stopped # "" THEN m ELSE Execute(Do(m))
Resumed(m) == [m EXCEPT !.stopped = "", !.cv = "", !.woke = <<>>]
=============================================================================
