------------------------------- MODULE Lifting -------------------------------
(***************************************************************************)
(* The lifting pass over a translation unit, and then the unit running: a  *)
(* class that lifts is run as it was written - its mutex, its condition    *)
(* variables with their spurious wake-ups, its container - beside the      *)
(* substitute the pass puts in its place.  Each call of the class takes    *)
(* effect on the substitute where it lets the mutex go, and must return    *)
(* what the substitute's operation returns; where it waits, the substitute *)
(* must wait too.                                                          *)
(***************************************************************************)
EXTENDS LockedClass

CONSTANTS Units,   \* the translation units
          Values   \* what a variable that other code writes may hold

VARIABLES phase,   \* "ring", "read", "judge", "run" or "refused"; "off" where the pass does not run
          overrun, \* whether the substitute is built for pushes that overrun
          box,     \* the container as written: its elements, or the counts and vector of a ring; its flags
          sub,     \* the substitute: the shim's queue, or its bounded queue
          owner,   \* the thread that holds the mutex, or 0
          th       \* the threads
runVars == <<box, sub, owner, th>>
vars == <<unit, phase, overrun, ringVars, classVars, runVars>>

(***************************************************************************)
(* The pass.                                                               *)
(***************************************************************************)
Idle == [i |-> 0, pc |-> 0, mode |-> "run", front |-> 0, out |-> 0, pushed |-> FALSE, late |-> FALSE, used |-> FALSE, done |-> FALSE,
         want |-> <<>>, got |-> <<>>]
InitAt(first) ==
  /\ unit \in Range(Units)
  /\ phase = first /\ overrun = FALSE
  /\ RingInit /\ ClassInit
  /\ box = [q |-> <<>>, n |-> [c \in Counts |-> 0], vec |-> <<>>, set |-> {}]
  /\ sub = [q |-> <<>>, closed |-> FALSE, over |-> 0, aborted |-> FALSE]
  /\ owner = 0
  /\ th = <<>>
Init == InitAt("ring")

Ring ==
  /\ phase = "ring"
  /\ \/ /\ unit.kind # "ring" \/ (ops = <<>> /\ roles = {} /\ BuiltFrom(unit.ring.ctor) = {}) \/ (roles # {} /\ Classified)
        /\ phase' = IF IsCandidate THEN "read" ELSE "refused"
        /\ rd' = Start(1)
        /\ UNCHANGED <<ringVars, cand>>
     \/ /\ unit.kind = "ring" /\ roles = {} /\ BuiltFrom(unit.ring.ctor) # {}
        /\ ReadRing
        /\ UNCHANGED <<ops, phase, classVars>>
     \/ /\ unit.kind = "ring" /\ roles # {} /\ ~Classified
        /\ Classify
        /\ UNCHANGED <<phase, classVars>>
  /\ UNCHANGED <<unit, overrun, runVars>>

ReadMethods ==
  /\ phase = "read"
  /\ \/ Reader /\ phase' = phase
     \/ AllRead /\ phase' = "judge" /\ UNCHANGED classVars
  /\ UNCHANGED <<unit, overrun, ringVars, runVars>>

\* The class as a whole, then the program around it, then the rewrite.
Judge ==
  /\ phase = "judge"
  /\ Refuse(Analyse \cup Elsewhere \cup Lacking)
  /\ phase' = IF cand'.reasons = {} THEN "bound" ELSE "refused"
  /\ UNCHANGED <<unit, overrun, rd, ringVars, runVars>>
BoundedChecks ==
  /\ phase = "bound"
  /\ Refuse(CountUsed)
  /\ overrun' = MayOverrun
  /\ phase' = IF cand'.reasons = {} THEN "build" ELSE "refused"
  /\ UNCHANGED <<unit, rd, ringVars, runVars>>

(***************************************************************************)
(* The program as written.                                                 *)
(***************************************************************************)
\* A function of the ring run on its counts and its vector.
RECURSIVE Val(_, _, _)
Val(e, n, vec) ==
  CASE e[1] = "num" -> e[2]
    [] e[1] = "mem" -> n[e[2]]
    [] e[1] = "arg" -> unit.cap
    [] e[1] = "false" -> FALSE
    [] e[1] = "cast" -> Val(e[3], n, vec) % e[2]
    [] e[1] = "elem" -> vec[Val(e[2], n, vec) + 1]
    [] e[1] = "not" -> ~Val(e[2], n, vec)
    [] e[1] = "ite" -> IF Val(e[2], n, vec) THEN Val(e[3], n, vec) ELSE Val(e[4], n, vec)
    [] e[1] \in {"eq", "ne", "lt", "le", "gt", "ge"} -> Compare(e[1], Val(e[2], n, vec), Val(e[3], n, vec))
    [] OTHER -> LET x == Val(e[2], n, vec)
                    y == Val(e[3], n, vec)
                IN  CASE e[1] = "add" -> (x + y) % Word
                      [] e[1] = "sub" -> (x - y) % Word
                      [] e[1] = "rem" -> x % y
RECURSIVE Ran(_, _, _)
Ran(body, b, v) ==
  IF body = <<>> THEN [b |-> b, ret |-> 0]
  ELSE LET s == Head(body)
           x == Val(IF s[1] = "set" THEN s[3] ELSE s[2], b.n, b.vec)
       IN CASE s[1] = "set" -> Ran(Tail(body), [b EXCEPT !.n[s[2]] = x], v)
            [] s[1] = "put" -> Ran(Tail(body), [b EXCEPT !.vec[x + 1] = v], v)
            [] s[1] = "size" -> Ran(Tail(body), [b EXCEPT !.vec = [j \in 1 .. x |-> 0]], v)
            [] s[1] = "if" -> Ran((IF x THEN s[3] ELSE s[4]) \o Tail(body), b, v)
            [] s[1] = "return" -> [b |-> b, ret |-> x]

\* A call of a function of the container.  Taking from an empty one is undefined: 0 is no element's value.
Called(f, v) ==
  CASE unit.kind = "ring" -> Ran(unit.ring.funs[f], box, v)
    [] f \in {"push", "push_back", "emplace", "emplace_back"} -> [b |-> [box EXCEPT !.q = Append(@, v)], ret |-> 0]
    [] f \in {"pop", "pop_front"} -> [b |-> [box EXCEPT !.q = IF @ = <<>> THEN @ ELSE Tail(@)], ret |-> 0]
    [] f = "front" -> [b |-> box, ret |-> IF box.q = <<>> THEN 0 ELSE Head(box.q)]
    [] f = "empty" -> [b |-> box, ret |-> box.q = <<>>]
RECURSIVE IsSo(_)
IsSo(c) == CASE c[1] = "not" -> ~IsSo(c[2])
             [] c[1] = "and" -> IsSo(c[2]) /\ IsSo(c[3])
             [] c[1] = "or" -> IsSo(c[2]) \/ IsSo(c[3])
             [] c[1] = "flag" -> c[2] \in box.set
             [] OTHER -> Called(c[2], 0).ret

\* What the variables of the program may really hold, and whether a call of the overrunning push is
\* ever made.
As(v, n, signed) == LET x == v % n IN IF signed /\ x >= n \div 2 THEN x - n ELSE x
RECURSIVE May(_, _)
May(e, held) ==
  CASE e[1] = "const" -> {e[2]}
    [] e[1] = "node" -> held[e[2]]
    [] e[1] = "cast" -> {As(v, e[2], e[3]) : v \in May(e[4], held)}
RECURSIVE Flow(_)
Flow(held) ==
  LET more == [x \in DOMAIN held |-> held[x] \cup UNION {May(e, held) : e \in unit.nodes[x].from}]
  IN  IF more = held THEN held ELSE Flow(more)
\* Code its address got out to, a callee handed it, or a file linked with this one may write it.
WrittenElsewhere(nd) ==
  \/ nd.leaks \/ nd.writes
  \/ unit.linked /\ (nd.kind = "member" \/ (nd.kind \in {"param", "ref"} /\ nd.named))
Held == Flow([x \in DOMAIN unit.nodes |->
  IF WrittenElsewhere(unit.nodes[x]) \/ unit.nodes[x].from = {} THEN Values ELSE {}])
RECURSIVE Turns(_, _)
Turns(c, held) ==
  CASE c[1] = "not" -> {~b : b \in Turns(c[2], held)}
    [] c[1] = "bool" -> {v # 0 : v \in May(c[2], held)}
    [] OTHER -> {Compare(c[1], p[1], p[2]) : p \in May(c[2], held) \X May(c[3], held)}
Overruns(call) == \A j \in DOMAIN call : call[j].arm \in Turns(call[j].cond, Held)

(***************************************************************************)
(* The substitute (shim/lifted.hpp): what its operation for a role leaves  *)
(* and returns.                                                            *)
(***************************************************************************)
Full == unit.kind = "ring" /\ Len(sub.q) >= unit.cap
Blocks(role) == CASE role \in {"PopWait", "PopWaitClosed"} -> sub.q = <<>> /\ ~sub.closed
                  [] role = "PushWait" -> Full /\ ~sub.closed
                  [] OTHER -> FALSE
Answer(ret, out, pushed) == <<ret, out, pushed>>
Told(s, ret, out, pushed) == [s |-> s, says |-> Answer(ret, out, pushed)]
Oldest(v) == IF unit.cap = 0 THEN <<>> ELSE Append(Tail(sub.q), v)
Substitute(m, v) ==
  LET more == [sub EXCEPT !.q = Append(@, v)]
      none == Told(sub, <<"false">>, 0, FALSE)
  IN  CASE Blocks(m.role) -> Told(sub, <<"blocks">>, 0, FALSE)
        [] m.role = "Push" -> Told(more, <<m.ret>>, 0, FALSE)
        [] m.role = "PushWait" /\ ~Blocks(m.role) -> Told(IF Full THEN sub ELSE more, <<"">>, 0, FALSE)
        [] m.role = "TryPush" -> Told(IF Full THEN sub ELSE more, <<"">>, 0, ~Full)
        [] m.role = "PushOverrun" ->
             IF Full THEN Told([sub EXCEPT !.q = Oldest(v), !.over = @ + 1, !.aborted = ~overrun], <<"">>, 0, FALSE)
             ELSE Told([more EXCEPT !.aborted = ~overrun], <<"">>, 0, FALSE)
        [] m.role \in {"TryPop", "PopWaitClosed", "PopWaitFor", "PopWait"} /\ ~Blocks(m.role) ->
             IF sub.q = <<>> THEN none
             ELSE Told([sub EXCEPT !.q = Tail(@)], <<IF m.role = "PopWait" THEN "" ELSE "true">>, Head(sub.q), FALSE)
        [] m.role = "Close" -> Told([sub EXCEPT !.closed = TRUE], <<"">>, 0, FALSE)
        [] m.role = "Size" -> Told(sub, <<"count", Len(sub.q)>>, 0, FALSE)
        [] m.role = "OverrunCounter" -> Told(sub, <<"count", sub.over>>, 0, FALSE)
        [] m.role = "ResetOverrun" -> Told([sub EXCEPT !.over = 0], <<"">>, 0, FALSE)

(***************************************************************************)
(* The threads, one statement at a time.                                   *)
(***************************************************************************)
Threads == DOMAIN th
Clients == DOMAIN unit.client
Method(t) == cand.methods[unit.client[t][th[t].i]]
Text(t) == unit.methods[unit.client[t][th[t].i]].body
At(t) == Text(t)[th[t].pc]
Element(t) == 10 * t + th[t].i
Runs(t, op) == th[t].pc > 0 /\ th[t].mode = "run" /\ At(t).op = op
Stepped(t) == [th[t] EXCEPT !.pc = @ + 1, !.used = @ \/ At(t).op \in {"call", "wait", "guard", "timedout", "room", "set"}]
Onward(t) == [th EXCEPT ![t] = Stepped(t)]

\* The objects are built, and the threads start.
Build ==
  /\ phase = "build"
  /\ phase' = "run"
  /\ box' = IF unit.kind = "ring" THEN Ran(unit.ring.ctor, box, 0).b ELSE box
  /\ th' = [t \in Clients |-> Idle]
  /\ UNCHANGED <<unit, overrun, ringVars, classVars, sub, owner>>

\* A call the program makes: one of the overrunning push only where its conditions let it run.
Begin(t) ==
  /\ th[t].pc = 0 /\ th[t].i < Len(unit.client[t])
  /\ LET m == unit.client[t][th[t].i + 1]
         runs == cand.methods[m].role = "PushOverrun" => unit.taken \/ \E j \in DOMAIN unit.overruns : Overruns(unit.overruns[j])
     IN  th' = [th EXCEPT ![t] = [Idle EXCEPT !.i = th[t].i + 1, !.pc = IF runs THEN 1 ELSE 0]]
  /\ UNCHANGED <<box, sub, owner>>

\* The mutex is let go: the call takes effect on the substitute, the first time it does so having
\* used the container.
Frees(t, next) ==
  /\ owner' = 0
  /\ IF next.done \/ ~next.used THEN th' = [th EXCEPT ![t] = next] /\ sub' = sub
     ELSE LET r == Substitute(Method(t), Element(t))
          IN  /\ sub' = r.s
              /\ th' = [th EXCEPT ![t] = [next EXCEPT !.done = TRUE, !.want = r.says]]
Returns(t, ret) ==
  LET says == Answer(ret, th[t].out, th[t].pushed)
      next == [Stepped(t) EXCEPT !.pc = 0, !.got = says]
  IN  IF owner = t THEN Frees(t, next) ELSE th' = [th EXCEPT ![t] = next] /\ UNCHANGED <<sub, owner>>

Locked(t) ==
  /\ Runs(t, "lock") /\ owner = 0
  /\ owner' = t /\ th' = Onward(t)
  /\ UNCHANGED <<box, sub>>
Unlocked(t) ==
  /\ Runs(t, "unlock")
  /\ Frees(t, Stepped(t))
  /\ UNCHANGED box
CallsOn(t) ==
  /\ Runs(t, "call")
  /\ \E r \in {Called(At(t).what, Element(t))} :
       /\ box' = r.b
       /\ th' = [Onward(t) EXCEPT ![t].front = r.ret]
  /\ UNCHANGED <<sub, owner>>
TakesOut(t) ==
  /\ Runs(t, "out")
  /\ th' = [Onward(t) EXCEPT ![t].out = th[t].front]
  /\ UNCHANGED <<box, sub, owner>>

\* A wait: on when its predicate holds (a timed one also when its time is up), else asleep with the
\* mutex free.
Over(t) == IF At(t).what = "while" THEN ~IsSo(At(t).cond) ELSE IsSo(At(t).cond)
Waiting(t) ==
  /\ Runs(t, "wait")
  /\ IF Over(t) THEN th' = [Onward(t) EXCEPT ![t].late = FALSE] /\ UNCHANGED owner
     ELSE IF th[t].late THEN th' = Onward(t) /\ UNCHANGED owner
     ELSE th' = [th EXCEPT ![t].mode = "asleep"] /\ owner' = 0
  /\ UNCHANGED <<box, sub>>
TimeUp(t) ==
  /\ th[t].mode = "asleep" /\ At(t).what = "timed"
  /\ th' = [th EXCEPT ![t].mode = "woken", ![t].late = TRUE]
  /\ UNCHANGED <<box, sub, owner>>
Spurious(t) ==
  /\ th[t].mode = "asleep"
  /\ th' = [th EXCEPT ![t].mode = "woken"]
  /\ UNCHANGED <<box, sub, owner>>
Awake(t) ==
  /\ th[t].mode = "woken" /\ owner = 0
  /\ owner' = t /\ th' = [th EXCEPT ![t].mode = "run"]
  /\ UNCHANGED <<box, sub>>

Guarded(t) ==
  /\ Runs(t, "guard") \/ Runs(t, "timedout")
  /\ IF IF At(t).op = "guard" THEN IsSo(At(t).cond) ELSE th[t].late
     THEN Returns(t, <<At(t).val>>) ELSE th' = Onward(t) /\ UNCHANGED <<sub, owner>>
  /\ UNCHANGED box
PushesIfRoom(t) ==
  /\ Runs(t, "room")
  /\ IF IsSo(At(t).cond) THEN /\ box' = Called(At(t).what, Element(t)).b
                              /\ th' = [Onward(t) EXCEPT ![t].pushed = TRUE]
     ELSE th' = Onward(t) /\ UNCHANGED box
  /\ UNCHANGED <<sub, owner>>
Sleepers(cv) == {u \in Threads : th[u].mode = "asleep" /\ At(u).cv = cv}
Woken(us, from) == [t \in Threads |-> IF t \in us THEN [from[t] EXCEPT !.mode = "woken"] ELSE from[t]]
Notifies(t) ==
  /\ Runs(t, "notify") \/ Runs(t, "flagif")
  /\ LET us == IF Runs(t, "flagif") /\ ~th[t].pushed THEN {} ELSE Sleepers(At(t).cv)
     IN  IF us = {} \/ At(t).what = "all" THEN th' = Woken(us, Onward(t))
         ELSE \E u \in us : th' = Woken({u}, Onward(t))
  /\ UNCHANGED <<box, sub, owner>>
Sets(t) ==
  /\ Runs(t, "set")
  /\ box' = [box EXCEPT !.set = @ \cup {At(t).what}] /\ th' = Onward(t)
  /\ UNCHANGED <<sub, owner>>
Passes(t) ==
  /\ Runs(t, "local")
  /\ th' = Onward(t)
  /\ UNCHANGED <<box, sub, owner>>
ReturnsFrom(t) ==
  /\ Runs(t, "return")
  /\ Returns(t, IF At(t).val = "getter" THEN <<"count", th[t].front>> ELSE <<At(t).val>>)
  /\ UNCHANGED box

Run ==
  /\ phase = "run"
  /\ \E t \in Threads : \/ Begin(t) \/ Locked(t) \/ Unlocked(t) \/ CallsOn(t) \/ TakesOut(t) \/ Waiting(t) \/ TimeUp(t)
                        \/ Spurious(t) \/ Awake(t) \/ Guarded(t) \/ PushesIfRoom(t) \/ Notifies(t) \/ Sets(t)
                        \/ Passes(t) \/ ReturnsFrom(t)
  /\ UNCHANGED <<unit, phase, overrun, ringVars, classVars>>

Next == Ring \/ ReadMethods \/ Judge \/ BoundedChecks \/ Build \/ Run
Spec == Init /\ [][Next]_vars

(***************************************************************************)
(* Properties.                                                             *)
(***************************************************************************)

\* Every call of a class that lifts returns, hands out and declines what the substitute's operation
\* for its role does, taking effect where the class let its mutex go (conditions (a) to (e) at the
\* head of LiftLockedQueues.cpp; the roles of decide; the ring's functions as RingModel reads them).
ResultsAgree == \A t \in Threads : th[t].pc = 0 => th[t].got = th[t].want

\* A call of a class that lifts waits only where the substitute's operation waits, and goes on only
\* where that operation goes on: a wait beside a close, the flag's first value, the table of the
\* wait's predicate (decide, analyse).
WaitsAlike ==
  \A t \in Threads : Runs(t, "wait") /\ owner = t /\ Method(t).role # "PopWaitFor" => (Over(t) <=> ~Blocks(Method(t).role))

\* In a class that lifts no thread is left asleep with its predicate true once every other thread
\* sleeps or has returned: each push wakes the pops, each pop the pushes, a close everyone (the wake
\* rules of analyse), so that the substitute, which wakes its sleepers itself, wakes no thread that
\* would have slept on.
NobodyLeftAsleep ==
  (\A t \in Threads : th[t].mode = "asleep" \/ (th[t].pc = 0 /\ th[t].i = Len(unit.client[t]))) =>
    \A t \in Threads : th[t].mode = "asleep" => ~Over(t)

\* The push that overruns is never called on a substitute built without it: ValueSets says of a call
\* that it never runs only where no value its conditions read lets it run.
NeverAborts == ~sub.aborted
=============================================================================
