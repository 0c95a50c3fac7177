-------------------------------- MODULE Code --------------------------------
(***************************************************************************)
(* The translation unit the compiler passes read, as far as they tell it   *)
(* apart: functions as trees of statements.  A statement is a record       *)
(*                                                                         *)
(*   op    what it does: "build", "push", "pop", "overrun" (a push that    *)
(*         may take the oldest element), "call", "spawn", "launch" (DPDK's *)
(*         rte_eal_mp_remote_launch), "take" (the address of a function    *)
(*         goes somewhere), "icall" (a call through a pointer), "extern"   *)
(*         (a call of a function with no body here), "store" and "new"     *)
(*         (into a pointer global), "set" (an integer variable), "loop",   *)
(*         "if", "switch", "break", "return", "goto"                       *)
(*   to    the function, pointer global or variable it names; "param" for  *)
(*         a function the enclosing function was handed                    *)
(*   fn    the function a call hands on, or ""                             *)
(*   args  the places it is given                                          *)
(*   n     the variable that bounds a counted loop, or that a call passes  *)
(*         for the bound; "param" is the function's own; "" for none       *)
(*   tag   what a constructor call passes as the topology tag; "caller"    *)
(*         for a launch that also runs its function on the caller, and     *)
(*         "inclusive" for a loop that runs up to its bound                *)
(*   arms  the bodies nested in it                                         *)
(*                                                                         *)
(* A place is [base, root, at, ty]: a global, a local, a parameter or the  *)
(* pointer held in a global, the part of it that is named ("whole", a      *)
(* member, an element "e0" or "e1", or "any" element) and the queue type.  *)
(* A statement is named by its function and its path: statement number,    *)
(* arm number, statement number, and so on down.                           *)
(***************************************************************************)
EXTENDS Naturals, Sequences, FiniteSets, SequencesExt

CONSTANT Programs   \* a sequence of translation units; each function by its body and by its text

VARIABLE program    \* the one that is compiled and run

\* The paths of a block's statements, the first of which is at a given path.
RECURSIVE PathsOf(_, _), PathsInArms(_, _)
PathsOf(body, at) ==
  IF body = <<>> THEN <<>>
  ELSE <<at>> \o PathsInArms(Head(body).arms, Append(at, 1)) \o PathsOf(Tail(body), [at EXCEPT ![Len(at)] = @ + 1])
PathsInArms(arms, at) ==
  IF arms = <<>> THEN <<>>
  ELSE PathsOf(Head(arms), Append(at, 1)) \o PathsInArms(Tail(arms), [at EXCEPT ![Len(at)] = @ + 1])

RECURSIVE Find(_, _)
Find(body, path) ==
  IF Len(path) = 1 THEN body[path[1]] ELSE Find(body[path[1]].arms[path[2]], SubSeq(path, 3, Len(path)))

\* Where control goes after a statement: the next one of its block, the head of the loop around
\* it, the next arm of a switch, or on from the statement that holds it; <<>> leaves the function.
RECURSIVE AfterIn(_, _)
AfterIn(body, s) ==
  LET h == Front(Front(s))
      a == s[Len(s) - 1]
      block == IF Len(s) = 1 THEN body ELSE Find(body, h).arms[a]
  IN  IF Last(s) < Len(block) THEN Append(Front(s), Last(s) + 1)
      ELSE IF Len(s) = 1 THEN <<>>
      ELSE IF Find(body, h).op = "loop" THEN h
      ELSE IF Find(body, h).op = "switch" /\ a < Len(Find(body, h).arms) THEN AfterIn(body, h \o <<a + 1, 0>>)
      ELSE AfterIn(body, h)

\* The text of a function: its statements in program order, each by its path, and where control
\* goes after each and from each into its arms.
TextOf(body) ==
  LET paths == PathsOf(body, <<1>>)
  IN  [paths |-> paths,
       at |-> [s \in Range(paths) |-> Find(body, s)],
       after |-> [s \in Range(paths) |-> AfterIn(body, s)],
       into |-> [s \in Range(paths) |-> [a \in 1 .. Len(Find(body, s).arms) |-> AfterIn(body, s \o <<a, 0>>)]]]

P == program
Functions == DOMAIN P.body
Paths(f) == P.text[f].paths
Stmts(f) == Range(Paths(f))
At(f, s) == P.text[f].at[s]
OpAt(f, s) == At(f, s).op
Everywhere == UNION {{f} \X Stmts(f) : f \in Functions}

\* The statements a path passes through on its way down, the arm each is left by,
\* and the statements of that arm.
Depth(s) == Len(s) \div 2
Holder(s, j) == SubSeq(s, 1, 2 * j - 1)
Arm(s, j) == s[2 * j]
Holders(s) == {Holder(s, j) : j \in 1 .. Depth(s)}
Inside(f, s) == {q \in Stmts(f) : Len(q) > Len(s) /\ SubSeq(q, 1, Len(s)) = s}
LastOf(f, s, a) == LET arm == At(f, s).arms[a] IN IF arm = <<>> THEN "" ELSE Last(arm).op

\* enclosingLoop: the loops around a statement, innermost last.
LoopsAround(f, s) == {h \in Holders(s) : OpAt(f, h) = "loop"}
InLoop(f, s) == LoopsAround(f, s) # {}
EnclosingLoop(f, s) == CHOOSE h \in LoopsAround(f, s) : \A g \in LoopsAround(f, s) : Len(g) <= Len(h)

\* A goto, or a call that returns twice: control flow the regions do not show.
Unstructured(f) == \E s \in Stmts(f) : OpAt(f, s) = "goto"

\* The functions a function names in some of its statements, and everything a relation reaches.
Named(f, ops) == {At(f, s).to : s \in {q \in Stmts(f) : OpAt(f, q) \in ops}} \cap Functions
RECURSIVE Reach(_, _)
Reach(fs, succ) ==
  LET more == fs \cup UNION {succ[f] : f \in fs} IN IF more = fs THEN fs ELSE Reach(more, succ)

QueueOps == {"push", "pop", "overrun"}
BuildOps == {"build", "new"}
IsQueueOp(op) == op \in QueueOps
Builds(op) == op \in BuildOps
=============================================================================
