-------------------------- MODULE BoundedRingTickets --------------------------
(***************************************************************************)
(* Lemmas about BoundedRing: ticket arithmetic, the inductive invariant the*)
(* other proofs share, what a claim of tickets may do, what a step leaves  *)
(* alone, and the tickets the threads hold: every step claims tickets,     *)
(* fills or takes one in order, waits for a cell, or leaves them alone.    *)
(***************************************************************************)
EXTENDS BoundedRing, TLAPS

-----------------------------------------------------------------------------
(* Ticket arithmetic. *)

\* A difference that has not gone below zero is read as it is.
LEMMA DiffUp ==
  ASSUME NEW a \in Int, NEW b \in Int, 0 <= a - b, a - b < Mod
  PROVE  Diff(a, b) = a - b
BY CapAssumption DEF Diff

\* One that has is read near the top of the range.
LEMMA DiffDown ==
  ASSUME NEW a \in Int, NEW b \in Int, a - b < 0, a - b >= -Mod
  PROVE  Diff(a, b) = a - b + Mod
BY CapAssumption DEF Diff

\* A difference of tickets is a number.
LEMMA DiffNat ==
  ASSUME NEW a \in Int, NEW b \in Int
  PROVE  Diff(a, b) \in Nat
BY CapAssumption DEF Diff

\* Half the range is room for two full rings.
LEMMA HalfBound == Half \in Nat /\ Mod = 2 * Half /\ Half >= 2 /\ Half >= 2 * Cap
BY CapAssumption DEF Half

\* Two tickets of one cell are at least a lap apart.
LEMMA LapApart ==
  ASSUME NEW a \in Int, NEW b \in Int, a < b, Cell(a) = Cell(b)
  PROVE  b - a >= R
<1> DEFINE qa == a \div R
           qb == b \div R
<1>1. R \in Int /\ R > 0
  BY CapAssumption
<1>2. qa \in Int /\ qb \in Int
  BY <1>1
<1>3. a = (R * qa) + (a % R) /\ b = (R * qb) + (b % R)
  BY <1>1
<1>4. b - a = R * qb - R * qa
  BY <1>1, <1>2, <1>3 DEF Cell
<1> HIDE DEF qa, qb
<1>5. R * qb - R * qa = R * (qb - qa)
  BY <1>1, <1>2
<1>6. qb - qa >= 1
  <2>1. CASE qb <= qa
    <3>1. R * (qb - qa) <= 0
      BY <1>1, <1>2, <2>1
    <3> QED BY <1>4, <1>5, <3>1
  <2> QED BY <1>2, <2>1
<1>7. R * (qb - qa) >= R
  BY <1>1, <1>2, <1>6
<1> QED BY <1>4, <1>5, <1>7

\* The remainder is what is left of a number of whole laps.
LEMMA CellOf ==
  ASSUME NEW q \in Int, NEW m \in 0..(R - 1)
  PROVE  Cell(R * q + m) = m
<1> DEFINE x == R * q + m
           c == x % R
           d == x \div R
<1>1. R \in Int /\ R > 0
  BY CapAssumption
<1>2. x \in Int /\ m \in Int
  BY <1>1
<1>3. c \in 0..(R - 1) /\ d \in Int /\ x = R * d + c
  BY <1>1, <1>2
<1>4. R * q - R * d = c - m
  BY <1>1, <1>2, <1>3
<1> HIDE DEF c, d
<1>5. R * q - R * d = R * (q - d)
  BY <1>1, <1>3
<1>6. ~(q - d >= 1)
  <2>1. q - d >= 1 => R * (q - d) >= R
    BY <1>1, <1>3
  <2> QED BY <1>1, <1>3, <1>4, <1>5, <2>1
<1>7. ~(q - d <= -1)
  <2>1. q - d <= -1 => R * (q - d) <= -R
    BY <1>1, <1>3
  <2> QED BY <1>1, <1>3, <1>4, <1>5, <2>1
<1>8. q = d
  BY <1>3, <1>6, <1>7
<1>9. c = m
  BY <1>1, <1>3, <1>4, <1>8
<1> QED BY <1>9 DEF c, Cell

\* A lap later the ticket's cell comes again.
LEMMA CellAgain ==
  ASSUME NEW a \in Int
  PROVE  Cell(a + R) = Cell(a)
<1> DEFINE q == a \div R
           m == a % R
<1>1. R \in Int /\ R > 0
  BY CapAssumption
<1>2. q \in Int /\ m \in 0..(R - 1) /\ a = R * q + m
  BY <1>1
<1> HIDE DEF q, m
<1>3. a + R = R * (q + 1) + m
  BY <1>1, <1>2
<1>4. Cell(R * (q + 1) + m) = m /\ Cell(R * q + m) = m
  BY <1>2, CellOf
<1> QED BY <1>2, <1>3, <1>4

\* The first ticket of every cell is within a lap of Start.
LEMMA FirstCell ==
  ASSUME NEW i \in 0..(R - 1)
  PROVE  Cell(Start + ((i - Start) % R)) = i
<1> DEFINE q == (i - Start) \div R
           m == (i - Start) % R
<1>1. R \in Int /\ R > 0 /\ Start \in Int /\ i \in Int
  BY CapAssumption
<1>2. q \in Int /\ m \in Int /\ i - Start = R * q + m
  BY <1>1
<1> HIDE DEF q, m
<1>3. Start + m = R * (-q) + i
  BY <1>1, <1>2
<1>4. Cell(R * (-q) + i) = i
  BY <1>2, CellOf, -q \in Int
<1> QED BY <1>3, <1>4 DEF m

\* Neighbouring tickets have different cells.
LEMMA NextCell ==
  ASSUME NEW a \in Int
  PROVE  Cell(a) # Cell(a + 1)
BY CapAssumption, LapApart

\* Every ticket has a cell.
LEMMA CellRange ==
  ASSUME NEW a \in Int
  PROVE  Cell(a) \in 0..(R - 1)
BY CapAssumption DEF Cell

-----------------------------------------------------------------------------
(* The records of calls. *)

\* The lengths a call watches are lengths the queue can have.
LEMMA WatchedRange == \A op : BQ!Watched(op) \subseteq 0..Cap
BY CapAssumption DEF BQ!Watched

\* A thread with no call has a record.
LEMMA IdleType == BQ!Idle \in CallRecords
BY DEF CallRecords, BQ!Idle, BQ!Ops

\* So has a call that starts,
LEMMA CalledType ==
  ASSUME NEW op \in BQ!Ops, NEW es \in Seq(Elem), NEW n \in Nat, NEW len \in Int
  PROVE  /\ BQ!Called(op, es, n, len) \in CallRecords
         /\ BQ!Called(op, es, n, len).op = op
         /\ BQ!Called(op, es, n, len).st = "pending"
         /\ BQ!Called(op, es, n, len).es = es
         /\ BQ!Called(op, es, n, len).n = n
         /\ BQ!Called(op, es, n, len).lens = {len} \cap BQ!Watched(op)
BY WatchedRange DEF CallRecords, BQ!Called

\* one that takes effect,
LEMMA EffectedType ==
  ASSUME NEW c \in CallRecords, NEW num \in Nat, NEW got \in Seq(Elem)
  PROVE  /\ BQ!Effected(c, num, got) \in CallRecords
         /\ BQ!Effected(c, num, got).op = c.op
         /\ BQ!Effected(c, num, got).st = "effected"
         /\ BQ!Effected(c, num, got).es = c.es
         /\ BQ!Effected(c, num, got).n = c.n
         /\ BQ!Effected(c, num, got).num = num
         /\ BQ!Effected(c, num, got).got = got
BY Zenon DEF CallRecords, BQ!Effected

\* and one that notes a length: it adds the length it watches, no more.
LEMMA WitnessType ==
  ASSUME NEW c \in [Threads -> CallRecords], NEW len \in Int
  PROVE  /\ BQ!Witness(c, len) \in [Threads -> CallRecords]
         /\ \A q \in Threads :
              /\ BQ!Witness(c, len)[q].op = c[q].op
              /\ BQ!Witness(c, len)[q].st = c[q].st
              /\ BQ!Witness(c, len)[q].es = c[q].es
              /\ BQ!Witness(c, len)[q].n = c[q].n
              /\ BQ!Witness(c, len)[q].num = c[q].num
              /\ BQ!Witness(c, len)[q].got = c[q].got
              /\ BQ!Witness(c, len)[q].lens =
                   IF c[q].st = "pending"
                   THEN c[q].lens \cup ({len} \cap BQ!Watched(c[q].op))
                   ELSE c[q].lens
              /\ c[q].st # "pending" => BQ!Witness(c, len)[q] = c[q]
BY WatchedRange, ZenonT(40) DEF CallRecords, BQ!Witness

-----------------------------------------------------------------------------
(* The inductive invariant. *)

PushPCs == {"push_tail", "push_head", "push_again", "push_claim"}
PopPCs  == {"pop_head", "pop_seen", "pop_tail", "pop_note", "pop_claim"}
SizePCs == {"size_head", "size_tail", "size_again"}

\* Types, before it is known that only filled cells are taken from.
TypeInv == Typed(Elem \cup {NoElem})

\* Which operation a thread is in, and what it has left to do.
Control(p) ==
  /\ pc[p] \in PushPCs => call[p].op = "push" /\ call[p].n = 1 /\ ~packed
  /\ pc[p] \in PopPCs => call[p].op = "pop" /\ call[p].n = 1 /\ ~packed
  /\ pc[p] \in SizePCs => call[p].op = "size" /\ ~packed
  /\ pc[p] \in {"load", "cas"} => packed
  /\ pc[p] = "load" => call[p].op # "none"
  /\ pc[p] = "cas" => call[p].op \in {"push", "pop", "overrun"}
  /\ pc[p] \in PushPCs \cup PopPCs \cup SizePCs \cup {"load", "cas"} =>
       call[p].st = "pending" /\ reg[p].j = 0 /\ reg[p].out = <<>>
  /\ pc[p] = "idle" => call[p] = BQ!Idle /\ reg[p] = NoReg
  /\ pc[p] \in {"fill", "construct", "take", "move", "done"} => call[p].st = "effected"
  /\ call[p].op = "push" => Len(call[p].es) = call[p].n
  /\ call[p].op = "overrun" => Len(call[p].es) = 1
  /\ pc[p] \in {"fill", "construct"} =>
       /\ call[p].op \in {"push", "overrun"}
       /\ reg[p].j < reg[p].k /\ reg[p].k <= Len(call[p].es)
  /\ pc[p] \in {"take", "move"} =>
       /\ call[p].op \in {"pop", "overrun"}
       /\ reg[p].j < reg[p].k
  /\ call[p].op = "overrun" /\ pc[p] \in {"load", "cas", "take", "move"} => Cap > 0
  /\ pc[p] = "count" =>
       /\ call[p].op = "overrun"
       /\ call[p].st = IF Cap = 0 THEN "pending" ELSE "effected"
  /\ call[p].op = "overrun" /\ pc[p] \in {"take", "move", "count"} /\ Cap > 0 =>
       reg[p].j = 0 /\ reg[p].k = 1

ControlInv == \A p \in Threads : Control(p)

\* It depends on nothing else.
LEMMA ControlKept ==
  ASSUME NEW p \in Threads, Control(p), build' = build,
         pc'[p] = pc[p], reg'[p] = reg[p], call'[p].op = call[p].op, call'[p].es = call[p].es,
         call'[p].n = call[p].n, call'[p].st = call[p].st, pc[p] = "idle" => call'[p] = call[p]
  PROVE  Control(p)'
<1>1. packed' = packed
  BY Zenon DEF packed
<1> QED BY <1>1, ZenonT(60) DEF Control

\* How far a thread's copies of the counters may be behind them, and what
\* they still show when the thread takes its ticket.
Copies(p) ==
  /\ pc[p] \in {"push_head", "push_again", "push_claim", "pop_note", "cas"} =>
       reg[p].t <= tail /\ tail - reg[p].t < Half
  /\ pc[p] \in {"pop_seen", "pop_tail", "pop_note", "pop_claim",
                "size_tail", "size_again", "cas"} =>
       reg[p].h <= head /\ head - reg[p].h < Half
  /\ pc[p] = "push_claim" => reg[p].h <= head /\ reg[p].t - reg[p].h < Cap
  /\ pc[p] = "pop_note" => reg[p].h <= reg[p].t
  /\ pc[p] = "pop_claim" => reg[p].h < tail /\ (reg[p].h = head => head - seen < Half)
  /\ pc[p] = "cas" =>
       /\ reg[p].h <= reg[p].t /\ reg[p].t - reg[p].h <= Cap
       /\ reg[p].k >= 1
       /\ call[p].op = "push" =>
            /\ reg[p].k <= call[p].n
            /\ reg[p].t - reg[p].h + reg[p].k <= Cap
       /\ call[p].op = "pop" => reg[p].h + reg[p].k <= reg[p].t
       /\ call[p].op = "overrun" => reg[p].k = 1
  /\ pc[p] \in PushPCs /\ ~mp =>
       p = producer /\ (pc[p] # "push_tail" => reg[p].t = tail)
  /\ pc[p] \in PopPCs /\ ~mc =>
       p = consumer /\ (pc[p] # "pop_head" => reg[p].h = head)

CounterInv ==
  /\ Start <= head /\ head <= tail /\ tail - head <= Cap
  /\ seen <= tail /\ (packed \/ head - seen <= Half)
  /\ Len(log) = tail - Start
  /\ \A p \in Threads : Copies(p)

IInv == TypeInv /\ ControlInv /\ CounterInv
-----------------------------------------------------------------------------
(* Elements and the log. *)

\* The elements a push offers.
LEMMA NewElemsType ==
  ASSUME NEW p \in Producers, NEW n \in Nat, calls \in Nat, calls < MaxCalls
  PROVE  NewElems(p, n) \in Seq(Elem) /\ Len(NewElems(p, n)) = n
BY ConstantAssumption DEF NewElems, Elem

\* The elements from one ticket to another.
LEMMA BetweenType ==
  ASSUME log \in Seq(Elem), NEW a \in Nat, NEW b \in Nat,
         Start <= a, a <= b, b - Start <= Len(log)
  PROVE  Between(a, b) \in Seq(Elem) /\ Len(Between(a, b)) = b - a
BY CapAssumption DEF Between

\* A claim adds the elements pushed to the log.
LEMMA LogGrows ==
  ASSUME log \in Seq(Elem), NEW es \in Seq(Elem), NEW k \in Nat, k <= Len(es)
  PROVE  /\ log \o SubSeq(es, 1, k) \in Seq(Elem)
         /\ Len(log \o SubSeq(es, 1, k)) = Len(log) + k
OBVIOUS

\* What the step that takes tickets does to the log and to the calls.
LEMMA TakeCalls ==
  ASSUME TypeInv, Start <= head, Len(log) = tail - Start,
         NEW p \in Threads, NEW h \in Nat, NEW t \in Nat, NEW num \in Nat,
         head <= h, h <= tail, tail <= t, t - tail <= Len(call[p].es),
         Take(p, h, t, num)
  PROVE  /\ call' \in [Threads -> CallRecords]
         /\ log' \in Seq(Elem)
         /\ Len(log') = t - Start
         /\ \A q \in Threads :
              /\ call'[q].op = call[q].op
              /\ call'[q].es = call[q].es
              /\ call'[q].n = call[q].n
              /\ q # p => call'[q].st = call[q].st
              /\ q # p /\ call[q].st # "pending" => call'[q] = call[q]
         /\ call'[p].st = "effected"
<1>1. call \in [Threads -> CallRecords] /\ log \in Seq(Elem)
      /\ head \in Nat /\ tail \in Nat /\ Start \in Nat
  BY CapAssumption DEF TypeInv, Typed
<1>2. call[p].es \in Seq(Elem)
  BY <1>1 DEF CallRecords
<1>3. log' \in Seq(Elem) /\ Len(log') = t - Start
  <2>1. t - tail \in Nat /\ log' = log \o SubSeq(call[p].es, 1, t - tail)
    BY <1>1 DEF Take
  <2>2. log' \in Seq(Elem) /\ Len(log') = Len(log) + (t - tail)
    BY <1>1, <1>2, <2>1, LogGrows, Zenon
  <2> QED BY <1>1, <2>2
<1> DEFINE got == IF call[p].op = "pop" THEN Between(head, h) ELSE <<>>
<1>4. got \in Seq(Elem)
  BY <1>1, BetweenType
<1> HIDE DEF got
<1>5. call' = [BQ!Witness(call, t - h) EXCEPT ![p] = BQ!Effected(call[p], num, got)]
  BY DEF Take, got
<1>6. call[p] \in CallRecords
  BY <1>1
<1> DEFINE W == BQ!Witness(call, t - h)
           E == BQ!Effected(call[p], num, got)
<1>7. E \in CallRecords /\ E.op = call[p].op /\ E.st = "effected"
      /\ E.es = call[p].es /\ E.n = call[p].n
  BY <1>4, <1>6, Zenon DEF CallRecords, BQ!Effected
<1>8. /\ W \in [Threads -> CallRecords]
      /\ \A q \in Threads : /\ W[q].op = call[q].op /\ W[q].es = call[q].es
                            /\ W[q].n = call[q].n /\ W[q].st = call[q].st
                            /\ call[q].st # "pending" => W[q] = call[q]
  BY <1>1, WitnessType, t - h \in Int, ZenonT(40)
<1> HIDE DEF W, E
<1>9. call' = [W EXCEPT ![p] = E]
  BY <1>5 DEF W, E
<1> QED
  BY <1>3, <1>7, <1>8, <1>9
-----------------------------------------------------------------------------
(* Types. *)

\* What a thread is given of the room or the elements there are.
LEMMA SharesType ==
  ASSUME NEW a \in Nat, NEW b \in Nat
  PROVE  BQ!LeastOf(a, b) \in Nat /\ BQ!LeastOf(a, b) <= a /\ BQ!LeastOf(a, b) <= b
BY DEF BQ!LeastOf

\* An answer keeps the types,
LEMMA AnswerType ==
  ASSUME TypeInv, NEW p \in Threads, NEW num \in Nat, Answer(p, num)
  PROVE  /\ call' \in [Threads -> CallRecords]
         /\ pc' \in [Threads -> PCs]
         /\ reg' \in [Threads -> Registers(Elem \cup {NoElem})]
         /\ pc'[p] = "done" /\ call'[p].st = "effected" /\ call'[p].op = call[p].op
         /\ call'[p].es = call[p].es /\ call'[p].n = call[p].n
<1>1. call \in [Threads -> CallRecords] /\ pc \in [Threads -> PCs]
      /\ reg \in [Threads -> Registers(Elem \cup {NoElem})]
  BY Zenon DEF TypeInv, Typed
<1>2. NoReg \in Registers(Elem \cup {NoElem})
  BY DEF NoReg, Claimed, Registers
<1>3. PICK got \in Seq(Elem) : got = <<>>
  <2>1. <<>> \in Seq(Elem)
    OBVIOUS
  <2> QED BY <2>1, Zenon
<1>4. /\ BQ!Effected(call[p], num, got) \in CallRecords
      /\ BQ!Effected(call[p], num, got).op = call[p].op
      /\ BQ!Effected(call[p], num, got).st = "effected"
      /\ BQ!Effected(call[p], num, got).es = call[p].es
      /\ BQ!Effected(call[p], num, got).n = call[p].n
  BY <1>1, EffectedType
<1>5. pc' = [pc EXCEPT ![p] = "done"]
  BY DEF Answer, Goto
<1>6. "done" \in PCs
  BY DEF PCs
<1>7. call' = [call EXCEPT ![p] = BQ!Effected(call[p], num, got)]
  BY <1>3 DEF Answer
<1> QED BY <1>1, <1>2, <1>4, <1>5, <1>6, <1>7, Zenon DEF Answer

\* and so does a call.
LEMMA CallType ==
  ASSUME TypeInv, head <= tail, NEW p \in Threads, NEW op \in BQ!Ops,
         NEW es \in Seq(Elem), NEW n \in Nat, NEW l \in PCs, Call(p, op, es, n, l)
  PROVE  /\ call' \in [Threads -> CallRecords]
         /\ pc' \in [Threads -> PCs]
         /\ calls' \in 0..MaxCalls
<1>1. call \in [Threads -> CallRecords] /\ pc \in [Threads -> PCs]
      /\ calls \in 0..MaxCalls /\ head \in Nat /\ tail \in Nat /\ MaxCalls \in Nat
  BY ConstantAssumption DEF TypeInv, Typed
<1>2. tail - head \in Int
  BY <1>1
<1>3. BQ!Called(op, es, n, tail - head) \in CallRecords
  BY <1>2, CalledType
<1> QED BY <1>1, <1>3 DEF Call, Goto

-----------------------------------------------------------------------------
(* A step that takes tickets takes them at the counters. *)

\* Tickets less than half the range apart are told apart.
LEMMA SameNear ==
  ASSUME NEW a \in Int, NEW b \in Int, a - b >= 0, a - b < Half, Same(a, b)
  PROVE  a = b
BY HalfBound, DiffUp DEF Same

\* A push of the split layout claims at most the room there is.
LEMMA PushTickets ==
  ASSUME IInv, NEW p \in Threads, PushStore(p) \/ PushCas(p)
  PROVE  /\ pc[p] = "push_claim" /\ PushTake(p) /\ call[p].op = "push"
         /\ reg[p].t = tail /\ tail + 1 - head <= Cap /\ Len(call[p].es) = 1
<1>1. pc[p] = "push_claim" /\ PushTake(p) /\ (~mp \/ (mp /\ Same(tail, reg[p].t)))
  BY DEF PushStore, PushCas
<1>2. head \in Nat /\ tail \in Nat /\ reg[p].t \in Nat /\ reg[p].h \in Nat
  BY SMTT(30) DEF IInv, TypeInv, Typed, Registers
<1>3. /\ reg[p].t <= tail /\ tail - reg[p].t < Half /\ reg[p].h <= head
      /\ reg[p].t - reg[p].h < Cap /\ (~mp => reg[p].t = tail)
  BY <1>1 DEF IInv, CounterInv, Copies, PushPCs
<1>4. reg[p].t = tail
  BY <1>1, <1>2, <1>3, SameNear
<1>5. Len(call[p].es) = 1 /\ call[p].op = "push"
  BY <1>1, Zenon DEF IInv, ControlInv, Control, PushPCs
<1> QED BY <1>1, <1>2, <1>3, <1>4, <1>5, CapAssumption

\* A pop of the split layout claims at most the elements there are.
LEMMA PopTickets ==
  ASSUME IInv, NEW p \in Threads, PopStore(p) \/ PopCas(p)
  PROVE  /\ pc[p] = "pop_claim" /\ PopTake(p) /\ call[p].op = "pop"
         /\ reg[p].h = head /\ head < tail
<1>1. pc[p] = "pop_claim" /\ PopTake(p) /\ (~mc \/ (mc /\ Same(head, reg[p].h)))
  BY DEF PopStore, PopCas
<1>2. head \in Nat /\ tail \in Nat /\ reg[p].t \in Nat /\ reg[p].h \in Nat
  BY SMTT(30) DEF IInv, TypeInv, Typed, Registers
<1>3. /\ reg[p].h <= head /\ head - reg[p].h < Half
      /\ reg[p].h < tail /\ (~mc => reg[p].h = head)
  BY <1>1 DEF IInv, CounterInv, Copies, PopPCs
<1>4. reg[p].h = head
  <2>1. CASE mc
    BY <1>1, <1>2, <1>3, <2>1, head - reg[p].h >= 0, SameNear
  <2> QED BY <1>3, <2>1
<1>5. call[p].op = "pop"
  BY <1>1 DEF IInv, ControlInv, Control, PopPCs
<1> QED BY <1>1, <1>2, <1>3, <1>4, <1>5

\* So do the operations of the packed layout.
LEMMA PackedTickets ==
  ASSUME IInv, NEW p \in Threads, pc[p] = "cas",
         Same(head, reg[p].h), Same(tail, reg[p].t)
  PROVE  /\ reg[p].h = head /\ reg[p].t = tail /\ packed
         /\ reg[p].k \in Nat /\ reg[p].k >= 1
         /\ call[p].op = "push" => tail - head + reg[p].k <= Cap
                                   /\ reg[p].k <= Len(call[p].es)
         /\ call[p].op = "pop" => head + reg[p].k <= tail
         /\ call[p].op = "overrun" => reg[p].k = 1 /\ Cap > 0 /\ Len(call[p].es) = 1
<1>1. head \in Nat /\ tail \in Nat /\ reg[p].t \in Nat /\ reg[p].h \in Nat /\ reg[p].k \in Nat
  BY DEF IInv, TypeInv, Typed, Registers
<1>2. /\ reg[p].h <= head /\ head - reg[p].h < Half
      /\ reg[p].t <= tail /\ tail - reg[p].t < Half
      /\ reg[p].k >= 1
      /\ call[p].op = "push" => /\ reg[p].k <= call[p].n
                                /\ reg[p].t - reg[p].h + reg[p].k <= Cap
      /\ call[p].op = "pop" => reg[p].h + reg[p].k <= reg[p].t
      /\ call[p].op = "overrun" => reg[p].k = 1
  BY DEF IInv, CounterInv, Copies
<1>3. reg[p].h = head /\ reg[p].t = tail
  BY <1>1, <1>2, SameNear, SMTT(30)
<1>4. /\ packed
      /\ call[p].op = "push" => Len(call[p].es) = call[p].n
      /\ call[p].op = "overrun" => Len(call[p].es) = 1 /\ Cap > 0
  BY Zenon DEF IInv, ControlInv, Control
<1> QED BY <1>1, <1>2, <1>3, <1>4

TakesTickets(p) ==
  \/ PushStore(p) \/ PushCas(p) \/ PopStore(p) \/ PopCas(p)
  \/ PackedPush(p) \/ PackedPop(p) \/ PackedOverrun(p)

\* The counters only move forward, and stay within the capacity.
LEMMA TicketStep ==
  ASSUME IInv, NEW p \in Threads, TakesTickets(p)
  PROVE  /\ \E h \in Nat, t \in Nat, num \in Nat :
              /\ Take(p, h, t, num)
              /\ head <= h /\ h <= tail /\ tail <= t /\ t - h <= Cap
              /\ t - tail <= Len(call[p].es)
         /\ \E l \in {"fill", "take"} : Goto(p, l)
         /\ UNCHANGED <<fixed, seen, cells, overruns>>
<1>1. /\ head \in Nat /\ tail \in Nat /\ Cap \in Nat
      /\ reg[p] \in Registers(Elem \cup {NoElem}) /\ call[p] \in CallRecords
  BY CapAssumption, Zenon DEF IInv, TypeInv, Typed
<1>2. reg[p].k \in Nat
  BY <1>1 DEF Registers
<1>3. call[p].es \in Seq(Elem)
  BY <1>1 DEF CallRecords
<1>4. Len(call[p].es) \in Nat
  BY <1>3
<1>5. head <= tail /\ tail - head <= Cap
  BY DEF IInv, CounterInv
<1>6. CASE PushStore(p) \/ PushCas(p)
  <2>1. /\ PushTake(p) /\ Take(p, head, tail + 1, 1) /\ Len(call[p].es) = 1
        /\ tail + 1 - head <= Cap
    BY <1>6, PushTickets DEF PushTake
  <2> QED BY <1>1, <1>5, <2>1 DEF PushTake, store
<1>7. CASE PopStore(p) \/ PopCas(p)
  <2>1. PopTake(p) /\ Take(p, head + 1, tail, 1) /\ head < tail
    BY <1>7, PopTickets DEF PopTake
  <2> QED BY <1>1, <1>4, <1>5, <2>1 DEF PopTake, store
<1>8. CASE PackedPush(p)
  <2>1. /\ Take(p, head, tail + reg[p].k, reg[p].k) /\ reg[p].k <= Len(call[p].es)
        /\ tail - head + reg[p].k <= Cap
    BY <1>8, PackedTickets DEF PackedPush, StateCas
  <2> QED BY <1>1, <1>2, <1>4, <1>5, <1>8, <2>1, SMTT(30) DEF PackedPush, StateCas
<1>9. CASE PackedPop(p)
  <2>1. /\ Take(p, head + reg[p].k, tail, reg[p].k) /\ head + reg[p].k <= tail
    BY <1>9, PackedTickets DEF PackedPop, StateCas
  <2> QED BY <1>1, <1>2, <1>4, <1>5, <1>9, <2>1, SMTT(30) DEF PackedPop, StateCas
<1>10. CASE PackedOverrun(p)
  <2>1. /\ \/ Full(p) /\ Take(p, head + 1, tail + 1, 1)
           \/ ~Full(p) /\ Take(p, head, tail + 1, 0)
        /\ Len(call[p].es) = 1 /\ Cap > 0 /\ reg[p].h = head /\ reg[p].t = tail
    BY <1>10, PackedTickets DEF PackedOverrun, StateCas
  <2>2. Diff(tail, head) = tail - head
    BY <1>1, <1>5, CapAssumption DEF Diff
  <2>3. Full(p) <=> tail - head = Cap
    BY <1>1, <1>5, <2>1, <2>2 DEF Full
  <2>4. \E h \in Nat, t \in Nat, num \in Nat :
          /\ Take(p, h, t, num)
          /\ head <= h /\ h <= tail /\ tail <= t /\ t - h <= Cap
          /\ t - tail <= Len(call[p].es)
    BY <1>1, <1>4, <1>5, <2>1, <2>3
  <2> QED BY <1>10, <2>4 DEF PackedOverrun, StateCas
<1> QED BY <1>6, <1>7, <1>8, <1>9, <1>10 DEF TakesTickets

-----------------------------------------------------------------------------
\* A step of one thread leaves the place and the locals of the others alone,
\* and of their calls changes only which lengths they have seen.
LEMMA StepFrame ==
  ASSUME IInv, NEW p \in Threads, Calls(p) \/ Step(p), NEW q \in Threads, q # p
  PROVE  /\ pc'[q] = pc[q] /\ reg'[q] = reg[q] /\ build' = build
         /\ call'[q].op = call[q].op /\ call'[q].es = call[q].es
         /\ call'[q].n = call[q].n /\ call'[q].st = call[q].st
         /\ call[q].st # "pending" => call'[q] = call[q]
<1>1. /\ pc \in [Threads -> PCs] /\ reg \in [Threads -> Registers(Elem \cup {NoElem})]
      /\ call \in [Threads -> CallRecords] /\ call[p] \in CallRecords
      /\ head \in Nat /\ tail \in Nat
  BY Zenon DEF IInv, TypeInv, Typed
<1>2. TypeInv /\ head <= tail /\ Start <= head /\ Len(log) = tail - Start
  BY DEF IInv, CounterInv
<1>4. CASE Calls(p)
  <2>1. CASE reset_overrun_counter(p)
    BY <2>1, Zenon DEF reset_overrun_counter
  <2>2. ASSUME NEW op, NEW es, NEW n, NEW l, Call(p, op, es, n, l)
        PROVE  pc'[q] = pc[q] /\ reg'[q] = reg[q] /\ build' = build /\ call'[q] = call[q]
    BY <1>1, <2>2 DEF Call, Goto
  <2> QED BY <1>4, <2>1, <2>2, Zenon DEF Calls, CallPush, CallOverrun, CallPop, CallSize
<1>5. CASE Return(p)
  BY <1>1, <1>5 DEF Return, Goto, fixed
<1>6. ASSUME NEW num, Answer(p, num)
      PROVE  pc'[q] = pc[q] /\ reg'[q] = reg[q] /\ call'[q] = call[q]
  BY <1>1, <1>6 DEF Answer, Goto
<1>7. ASSUME NEW l, Restart(p, l)
      PROVE  pc'[q] = pc[q] /\ reg'[q] = reg[q] /\ call'[q] = call[q]
  BY <1>1, <1>7, SMTT(30) DEF Restart, Goto
<1>8. CASE \/ PushReadTail(p) \/ PushReadHead(p) \/ PushReadTailAgain(p) \/ PushCasFails(p)
           \/ PopReadHead(p) \/ PopReadSeen(p) \/ PopReadTail(p) \/ PopNoteTail(p)
           \/ PopCasFails(p) \/ SizeReadHead(p) \/ SizeReadTail(p) \/ SizeReadHeadAgain(p)
  BY <1>1, <1>6, <1>7, <1>8, Zenon
  DEF PushReadTail, PushReadHead, PushReadTailAgain, PushCasFails, PopReadHead, PopReadSeen,
      PopReadTail, PopNoteTail, PopCasFails, SizeReadHead, SizeReadTail, SizeReadHeadAgain,
      Goto, fixed
<1>9. CASE LoadState(p) \/ StateCasFails(p)
  BY <1>1, <1>6, <1>9, SMTT(30) DEF LoadState, StateCasFails, Examine, Goto, fixed
<1>10. CASE FillWait(p) \/ FillEnd(p) \/ TakeWait(p) \/ TakeEnd(p) \/ CountOverrun(p)
  BY <1>1, <1>6, <1>10, SMTT(30)
  DEF FillWait, FillEnd, Filled, TakeWait, TakeEnd, CountOverrun, Goto, fixed
<1>11. CASE TakesTickets(p)
  <2>1. PICK h \in Nat, t \in Nat, num \in Nat :
          /\ Take(p, h, t, num) /\ head <= h /\ h <= tail /\ tail <= t
          /\ t - tail <= Len(call[p].es)
    BY <1>11, TicketStep
  <2>2. build' = build /\ pc'[q] = pc[q]
    BY <1>1, <1>11, TicketStep, SMTT(30) DEF Goto, fixed
  <2>3. reg'[q] = reg[q]
    BY <1>1, <1>11, Zenon
    DEF TakesTickets, PushStore, PushCas, PushTake, PopStore, PopCas, PopTake,
        PackedPush, PackedPop, PackedOverrun, StateCas
  <2> QED BY <1>2, <2>1, <2>2, <2>3, TakeCalls, Zenon
<1> QED
  BY <1>4, <1>5, <1>8, <1>9, <1>10, <1>11, Zenon
  DEF Calls, Step, SplitStep, PackedStep, CellStep, TakesTickets

-----------------------------------------------------------------------------
(* What the invariant says of the types. *)

-----------------------------------------------------------------------------
\* The types and the order of the counters.
LEMMA Typing ==
  ASSUME IInv
  PROVE  /\ head \in Nat /\ tail \in Nat /\ Start \in Nat /\ R \in Nat /\ R >= 2
         /\ Start <= head /\ head <= tail /\ tail - head <= Cap /\ Cap <= R /\ Cap \in Nat
         /\ Len(log) = tail - Start /\ log \in Seq(Elem)
         /\ \A i \in 0..(R - 1) : cells[i].seq \in Nat
         /\ DOMAIN cells = 0..(R - 1)
         /\ pc \in [Threads -> PCs]
         /\ reg \in [Threads -> Registers(Elem \cup {NoElem})]
         /\ call \in [Threads -> CallRecords]
<1>1. cells \in [0..(R - 1) -> [seq : Nat, elem : Elem \cup {NoElem}]]
  BY Zenon DEF IInv, TypeInv, Typed
<1>2. /\ head \in Nat /\ tail \in Nat /\ log \in Seq(Elem)
      /\ pc \in [Threads -> PCs]
      /\ reg \in [Threads -> Registers(Elem \cup {NoElem})]
      /\ call \in [Threads -> CallRecords]
  BY Zenon DEF IInv, TypeInv, Typed
<1>3. /\ Start <= head /\ head <= tail /\ tail - head <= Cap
      /\ Len(log) = tail - Start
  BY Zenon DEF IInv, CounterInv
<1> QED BY <1>1, <1>2, <1>3, CapAssumption, Zenon

\* The types of what a thread has read and of its call.
LEMMA Locals ==
  ASSUME IInv, NEW p \in Threads
  PROVE  /\ reg[p].h \in Nat /\ reg[p].t \in Nat /\ reg[p].k \in Nat /\ reg[p].j \in Nat
         /\ reg[p].out \in Seq(Elem \cup {NoElem})
         /\ call[p].es \in Seq(Elem) /\ call[p].got \in Seq(Elem) /\ call[p].n \in Nat
BY Typing, Zenon DEF Registers, CallRecords

-----------------------------------------------------------------------------
(* Sequences of elements. *)

\* Each member of a sequence of elements is an element.
LEMMA MemberIsElem ==
  ASSUME NEW s \in Seq(Elem), NEW i \in 1..Len(s)
  PROVE  s[i] \in Elem
OBVIOUS

\* Sequences of one length with the same members are the same.
LEMMA SameMembers ==
  ASSUME NEW S, NEW v \in Seq(S), NEW w \in Seq(S),
         Len(v) = Len(w), \A i \in 1..Len(v) : v[i] = w[i]
  PROVE  v = w
OBVIOUS

\* The members of one sequence after another.
LEMMA Joined ==
  ASSUME NEW v \in Seq(Elem), NEW w \in Seq(Elem)
  PROVE  /\ v \o w \in Seq(Elem) /\ Len(v \o w) = Len(v) + Len(w)
         /\ \A i \in 1..(Len(v) + Len(w)) :
              (v \o w)[i] = IF i <= Len(v) THEN v[i] ELSE w[i - Len(v)]
OBVIOUS

\* Appending is joining with one element.
LEMMA JoinedOne ==
  ASSUME NEW v \in Seq(Elem), NEW e \in Elem
  PROVE  v \o <<e>> = Append(v, e)
OBVIOUS

-----------------------------------------------------------------------------
\* The tickets a thread has claimed and not filled yet, and those it has
\* claimed and not taken yet. An overrun of a full ring holds one of each.
ToFill(p) ==
  IF pc[p] \in {"fill", "construct"} \/ p \in Uncounted
  THEN reg[p].t..(reg[p].t + (reg[p].k - reg[p].j) - 1) ELSE {}
ToTake(p) ==
  IF pc[p] \in {"take", "move"}
  THEN reg[p].h..(reg[p].h + (reg[p].k - reg[p].j) - 1) ELSE {}

\* Every ticket is claimed once, and a thread takes before it fills.
TicketInv ==
  /\ \A p \in Threads : ToFill(p) \subseteq Start..(tail - 1)
  /\ \A p \in Threads : ToTake(p) \subseteq Start..(head - 1)
  /\ \A p, q \in Threads : p # q => ToFill(p) \cap ToFill(q) = {}
  /\ \A p, q \in Threads : p # q => ToTake(p) \cap ToTake(q) = {}
  /\ \A p \in Threads : \A u \in ToTake(p), v \in ToFill(p) : u < v

\* A push keeps the log and adds its elements in order.
LEMMA LogKept ==
  ASSUME log \in Seq(Elem), NEW es \in Seq(Elem), NEW k \in Nat, k <= Len(es)
  PROVE  /\ \A n \in 1..Len(log) : (log \o SubSeq(es, 1, k))[n] = log[n]
         /\ \A n \in 1..k : (log \o SubSeq(es, 1, k))[Len(log) + n] = es[n]
OBVIOUS

\* A step of one thread leaves the tickets of the others alone.
LEMMA HeldFrame ==
  ASSUME IInv, NEW p \in Threads, Calls(p) \/ Step(p), NEW q \in Threads, q # p
  PROVE  ToFill(q)' = ToFill(q) /\ ToTake(q)' = ToTake(q)
<1>1. pc'[q] = pc[q] /\ reg'[q] = reg[q] /\ call'[q].op = call[q].op
  BY StepFrame, Zenon
<1> QED BY <1>1, Zenon DEF ToFill, ToTake, Uncounted

\* A thread that is not filling or taking holds no ticket.
LEMMA NoneHeld ==
  ASSUME NEW p \in Threads,
         pc[p] \notin {"fill", "construct", "take", "move"},
         pc[p] = "count" => Cap = 0
  PROVE  ToFill(p) = {} /\ ToTake(p) = {}
BY CapAssumption DEF ToFill, ToTake, Uncounted

\* What a step that takes tickets does: it claims those from tail up to t for
\* filling and those from head up to h for taking, at one step.
Claims(p, h, t) ==
  /\ head <= h /\ h <= tail /\ tail <= t /\ t - h <= Cap
  /\ t - tail <= Len(call[p].es)
  /\ head' = h /\ tail' = t /\ cells' = cells
  /\ log' = log \o SubSeq(call[p].es, 1, t - tail)
  /\ Window(h, t)
  /\ ToFill(p) = {} /\ ToTake(p) = {}
  /\ ToFill(p)' = tail..(t - 1) /\ ToTake(p)' = head..(h - 1)
  /\ pc'[p] # "construct" /\ pc'[p] # "move" /\ pc'[p] # "done"
  /\ t > tail => reg'[p].t = tail
  /\ h > head => reg'[p].h = head /\ reg'[p].k = h - head
  /\ reg'[p].j = 0 /\ reg'[p].out = <<>>
  /\ call'[p].es = call[p].es /\ call'[p].op = call[p].op
  /\ call[p].op = "pop" => call'[p].got = Between(head, h) /\ h > head

\* Every step that takes tickets is a claim of new ones.
LEMMA TicketsTaken ==
  ASSUME IInv, NEW p \in Threads, TakesTickets(p)
  PROVE  \E h \in Nat, t \in Nat : Claims(p, h, t)
<1>1. /\ head \in Nat /\ tail \in Nat /\ head <= tail /\ tail - head <= Cap /\ Cap \in Nat
      /\ pc \in [Threads -> PCs] /\ call \in [Threads -> CallRecords]
      /\ reg \in [Threads -> Registers(Elem \cup {NoElem})]
  BY Typing, Zenon
<1>2. /\ reg[p].h \in Nat /\ reg[p].t \in Nat /\ reg[p].k \in Nat /\ reg[p].j \in Nat
      /\ call[p].es \in Seq(Elem) /\ Len(call[p].es) \in Nat
  BY Locals
<1>n. /\ head \in Nat /\ tail \in Nat /\ head <= tail /\ tail - head <= Cap /\ Cap \in Nat
      /\ reg[p].k \in Nat /\ Len(call[p].es) \in Nat
  BY <1>1, <1>2, Zenon
<1> DEFINE Moved(h, t) ==
             /\ head' = h /\ tail' = t /\ Window(h, t)
             /\ log' = log \o SubSeq(call[p].es, 1, t - tail)
             /\ call'[p].es = call[p].es /\ call'[p].op = call[p].op
             /\ call[p].op = "pop" => call'[p].got = Between(head, h)
<1>3. ASSUME NEW h, NEW t, NEW num, Take(p, h, t, num) PROVE Moved(h, t)
  <2>1. call[p] \in CallRecords /\ DOMAIN BQ!Witness(call, t - h) = Threads
    BY <1>1 DEF BQ!Witness
  <2>2. call'[p] = BQ!Effected(call[p], num, IF call[p].op = "pop" THEN Between(head, h) ELSE <<>>)
    BY <1>3, <2>1 DEF Take
  <2> QED BY <1>3, <2>1, <2>2 DEF Take, BQ!Effected, CallRecords
<1>3c. ASSUME NEW h \in Nat, NEW t \in Nat, Moved(h, t),
              ToFill(p) = {}, ToTake(p) = {},
              ToFill(p)' = tail..(t - 1), ToTake(p)' = head..(h - 1),
              head <= h, h <= tail, tail <= t, t - h <= Cap, t - tail <= Len(call[p].es),
              pc'[p] # "construct", pc'[p] # "move", pc'[p] # "done", cells' = cells,
              t > tail => reg'[p].t = tail,
              h > head => reg'[p].h = head /\ reg'[p].k = h - head,
              reg'[p].j = 0, reg'[p].out = <<>>,
              call[p].op = "pop" => h > head
       PROVE  Claims(p, h, t)
  BY <1>3c, Zenon DEF Claims
<1>4. CASE PushStore(p) \/ PushCas(p)
  <2>1. /\ pc[p] = "push_claim" /\ PushTake(p) /\ call[p].op = "push" /\ Len(call[p].es) = 1
        /\ reg[p].t = tail /\ (tail + 1) - head <= Cap /\ Take(p, head, tail + 1, 1)
    BY <1>1, <1>4, PushTickets DEF PushTake
  <2>2. /\ reg'[p] = Claimed(0, tail, 1) /\ pc'[p] = "fill" /\ cells' = cells
    BY <1>1, <2>1 DEF PushTake, Goto, store
  <2>3. ToFill(p) = {} /\ ToTake(p) = {}
    BY <2>1, NoneHeld, Zenon
  <2>4. /\ reg'[p].t = tail /\ reg'[p].k = 1 /\ reg'[p].j = 0 /\ reg'[p].out = <<>>
    BY <2>2 DEF Claimed
  <2>5. ToFill(p)' = tail..((tail + 1) - 1) /\ ToTake(p)' = head..(head - 1)
    <3>1. pc'[p] \in {"fill", "construct"} /\ pc'[p] \notin {"take", "move"}
      BY <2>2, Zenon
    <3>2. ToFill(p)' = tail..(tail + (1 - 0) - 1) /\ ToTake(p)' = {}
      BY <2>4, <3>1, Zenon DEF ToFill, ToTake
    <3>3. tail + (1 - 0) - 1 = (tail + 1) - 1 /\ {} = head..(head - 1)
      BY <1>n
    <3> QED BY <3>2, <3>3, Zenon
  <2>6a. Moved(head, tail + 1)
    BY <1>3, <2>1, Zenon
  <2>6b. /\ head <= head /\ head <= tail /\ tail <= tail + 1 /\ (tail + 1) - head <= Cap
         /\ (tail + 1) - tail <= Len(call[p].es)
         /\ pc'[p] # "construct" /\ pc'[p] # "move" /\ pc'[p] # "done" /\ cells' = cells
         /\ tail + 1 > tail => reg'[p].t = tail
         /\ head > head => reg'[p].h = head /\ reg'[p].k = head - head
         /\ reg'[p].j = 0 /\ reg'[p].out = <<>>
         /\ call[p].op = "pop" => head > head
    <3>1. /\ head <= head /\ head <= tail /\ tail <= tail + 1 /\ (tail + 1) - tail <= 1
          /\ ~(head > head)
      BY <1>n
    <3>2. pc'[p] # "construct" /\ pc'[p] # "move" /\ pc'[p] # "done"
      BY <2>2, Zenon
    <3> QED BY <2>1, <2>2, <2>4, <3>1, <3>2, Zenon
  <2>6. head \in Nat /\ tail + 1 \in Nat
    BY <1>1, <1>2
  <2>7. Claims(p, head, tail + 1)
    BY <1>3c, <2>3, <2>5, <2>6a, <2>6b, <2>6, Zenon
  <2> QED BY <2>6, <2>7, Zenon
<1>5. CASE PopStore(p) \/ PopCas(p)
  <2>1. /\ pc[p] = "pop_claim" /\ PopTake(p) /\ call[p].op = "pop"
        /\ reg[p].h = head /\ head < tail /\ Take(p, head + 1, tail, 1)
    BY <1>5, PopTickets, Zenon DEF PopTake
  <2>2. /\ reg'[p] = Claimed(head, 0, 1) /\ pc'[p] = "take" /\ cells' = cells
    BY <1>1, <2>1 DEF PopTake, Goto, store
  <2>3. ToFill(p) = {} /\ ToTake(p) = {}
    BY <2>1, NoneHeld, Zenon
  <2>4. /\ reg'[p].h = head /\ reg'[p].k = 1 /\ reg'[p].j = 0 /\ reg'[p].out = <<>>
    BY <2>2 DEF Claimed
  <2>5. call'[p].op = "pop"
    BY <1>3, <2>1
  <2>6. ToFill(p)' = tail..(tail - 1) /\ ToTake(p)' = head..((head + 1) - 1)
    <3>1. pc'[p] \notin {"fill", "construct"} /\ pc'[p] \in {"take", "move"} /\ p \notin Uncounted'
      BY <2>2, <2>5, Zenon DEF Uncounted
    <3>2. ToFill(p)' = {} /\ ToTake(p)' = head..(head + (1 - 0) - 1)
      BY <2>4, <3>1, Zenon DEF ToFill, ToTake
    <3>3. head + (1 - 0) - 1 = (head + 1) - 1 /\ {} = tail..(tail - 1)
      BY <1>n
    <3> QED BY <3>2, <3>3, Zenon
  <2>7a. Moved(head + 1, tail)
    BY <1>3, <2>1, Zenon
  <2>7b. /\ head <= head + 1 /\ head + 1 <= tail /\ tail <= tail /\ tail - (head + 1) <= Cap
         /\ tail - tail <= Len(call[p].es)
         /\ pc'[p] # "construct" /\ pc'[p] # "move" /\ pc'[p] # "done" /\ cells' = cells
         /\ tail > tail => reg'[p].t = tail
         /\ head + 1 > head => reg'[p].h = head /\ reg'[p].k = (head + 1) - head
         /\ reg'[p].j = 0 /\ reg'[p].out = <<>>
         /\ call[p].op = "pop" => head + 1 > head
    <3>1. /\ head <= head + 1 /\ head + 1 <= tail /\ tail <= tail /\ tail - (head + 1) <= Cap
          /\ tail - tail <= Len(call[p].es) /\ ~(tail > tail) /\ head + 1 > head /\ (head + 1) - head = 1
      BY <1>n, <2>1
    <3>2. pc'[p] # "construct" /\ pc'[p] # "move" /\ pc'[p] # "done"
      BY <2>2, Zenon
    <3> QED BY <2>2, <2>4, <3>1, <3>2, Zenon
  <2>7. head + 1 \in Nat /\ tail \in Nat
    BY <1>1, <1>2
  <2>8. Claims(p, head + 1, tail)
    BY <1>3c, <2>3, <2>6, <2>7a, <2>7b, <2>7, Zenon
  <2> QED BY <2>7, <2>8, Zenon
<1>6. CASE PackedPush(p) \/ PackedPop(p) \/ PackedOverrun(p)
  <2>1. /\ pc[p] = "cas" /\ Same(head, reg[p].h) /\ Same(tail, reg[p].t)
        /\ cells' = cells /\ reg' = reg
    BY <1>6, Zenon DEF PackedPush, PackedPop, PackedOverrun, StateCas
  <2>2. /\ reg[p].h = head /\ reg[p].t = tail /\ reg[p].k >= 1
        /\ call[p].op = "push" => tail - head + reg[p].k <= Cap
                                  /\ reg[p].k <= Len(call[p].es)
        /\ call[p].op = "pop" => head + reg[p].k <= tail
        /\ call[p].op = "overrun" => reg[p].k = 1 /\ Cap > 0 /\ Len(call[p].es) = 1
    BY <2>1, PackedTickets, Zenon
  <2>3. ToFill(p) = {} /\ ToTake(p) = {}
    BY <2>1, NoneHeld, Zenon
  <2>4. reg[p].j = 0 /\ reg[p].out = <<>>
    BY <2>1, Zenon DEF IInv, ControlInv, Control
  <2>5. CASE PackedPush(p)
    <3>1. /\ Take(p, head, tail + reg[p].k, reg[p].k) /\ call[p].op = "push" /\ pc'[p] = "fill"
      BY <1>1, <2>2, <2>5 DEF PackedPush, StateCas, Goto
    <3>2. ToFill(p)' = tail..((tail + reg[p].k) - 1) /\ ToTake(p)' = head..(head - 1)
      <4>1. pc'[p] \in {"fill", "construct"} /\ pc'[p] \notin {"take", "move"}
        BY <3>1, Zenon
      <4>2. ToFill(p)' = tail..(tail + (reg[p].k - 0) - 1) /\ ToTake(p)' = {}
        BY <2>1, <2>2, <2>4, <4>1, Zenon DEF ToFill, ToTake
      <4>3. tail + (reg[p].k - 0) - 1 = (tail + reg[p].k) - 1 /\ {} = head..(head - 1)
        BY <1>n
      <4> QED BY <4>2, <4>3, Zenon
    <3>3a. Moved(head, tail + reg[p].k)
      BY <1>3, <3>1, Zenon
    <3>3b. /\ head <= head /\ head <= tail /\ tail <= tail + reg[p].k /\ (tail + reg[p].k) - head <= Cap
           /\ (tail + reg[p].k) - tail <= Len(call[p].es)
           /\ pc'[p] # "construct" /\ pc'[p] # "move" /\ pc'[p] # "done" /\ cells' = cells
           /\ tail + reg[p].k > tail => reg'[p].t = tail
           /\ head > head => reg'[p].h = head /\ reg'[p].k = head - head
           /\ reg'[p].j = 0 /\ reg'[p].out = <<>>
           /\ call[p].op = "pop" => head > head
      <4>1. /\ head <= head /\ tail <= tail + reg[p].k /\ (tail + reg[p].k) - head <= Cap
            /\ (tail + reg[p].k) - tail <= Len(call[p].es) /\ ~(head > head)
        <5>1. tail - head + reg[p].k <= Cap /\ reg[p].k <= Len(call[p].es)
          BY <2>2, <3>1, Zenon
        <5> QED BY <1>n, <5>1
      <4>2. pc'[p] # "construct" /\ pc'[p] # "move" /\ pc'[p] # "done"
        BY <3>1, Zenon
      <4> QED BY <1>n, <2>1, <2>2, <2>4, <3>1, <4>1, <4>2, Zenon
    <3>3. head \in Nat /\ tail + reg[p].k \in Nat
      BY <1>1, <1>2
    <3>4. Claims(p, head, tail + reg[p].k)
      BY <1>3c, <2>3, <3>2, <3>3a, <3>3b, <3>3, Zenon
    <3> QED BY <3>3, <3>4, Zenon
  <2>6. CASE PackedPop(p)
    <3>1. /\ Take(p, head + reg[p].k, tail, reg[p].k) /\ call[p].op = "pop" /\ pc'[p] = "take"
      BY <1>1, <2>2, <2>6 DEF PackedPop, StateCas, Goto
    <3>2. call'[p].op = "pop"
      BY <1>3, <3>1, Zenon
    <3>3. ToFill(p)' = tail..(tail - 1) /\ ToTake(p)' = head..((head + reg[p].k) - 1)
      <4>1. pc'[p] \notin {"fill", "construct"} /\ pc'[p] \in {"take", "move"} /\ p \notin Uncounted'
        BY <3>1, <3>2, Zenon DEF Uncounted
      <4>2. ToFill(p)' = {} /\ ToTake(p)' = head..(head + (reg[p].k - 0) - 1)
        BY <2>1, <2>2, <2>4, <4>1, Zenon DEF ToFill, ToTake
      <4>3. head + (reg[p].k - 0) - 1 = (head + reg[p].k) - 1 /\ {} = tail..(tail - 1)
        BY <1>n
      <4> QED BY <4>2, <4>3, Zenon
    <3>4a. Moved(head + reg[p].k, tail)
      BY <1>3, <3>1, Zenon
    <3>4b. /\ head <= head + reg[p].k /\ head + reg[p].k <= tail
           /\ tail <= tail /\ tail - (head + reg[p].k) <= Cap
           /\ tail - tail <= Len(call[p].es)
           /\ pc'[p] # "construct" /\ pc'[p] # "move" /\ pc'[p] # "done" /\ cells' = cells
           /\ tail > tail => reg'[p].t = tail
           /\ head + reg[p].k > head => reg'[p].h = head /\ reg'[p].k = (head + reg[p].k) - head
           /\ reg'[p].j = 0 /\ reg'[p].out = <<>>
           /\ call[p].op = "pop" => head + reg[p].k > head
      <4>1. /\ head <= head + reg[p].k /\ head + reg[p].k <= tail
            /\ tail <= tail /\ tail - (head + reg[p].k) <= Cap
            /\ tail - tail <= Len(call[p].es) /\ ~(tail > tail)
            /\ head + reg[p].k > head /\ reg[p].k = (head + reg[p].k) - head
        <5>1. reg[p].k >= 1 /\ head + reg[p].k <= tail
          BY <2>2, <3>1, Zenon
        <5> QED BY <1>n, <5>1
      <4>2. pc'[p] # "construct" /\ pc'[p] # "move" /\ pc'[p] # "done"
        BY <3>1, Zenon
      <4> QED BY <2>1, <2>2, <2>4, <3>1, <4>1, <4>2, Zenon
    <3>4. head + reg[p].k \in Nat /\ tail \in Nat
      BY <1>1, <1>2
    <3>5. Claims(p, head + reg[p].k, tail)
      BY <1>3c, <2>3, <3>3, <3>4a, <3>4b, <3>4, Zenon
    <3> QED BY <3>4, <3>5, Zenon
  <2>7. CASE PackedOverrun(p)
    <3>1. Diff(tail, head) = tail - head
      BY <1>1, CapAssumption DEF Diff
    <3>2. Full(p) <=> tail - head = Cap
      BY <1>1, <2>2, <3>1 DEF Full
    <3>3. call[p].op = "overrun"
      BY <2>7, Zenon DEF PackedOverrun, StateCas
    <3>3a. reg[p].k = 1 /\ Cap > 0 /\ Len(call[p].es) = 1
      BY <2>2, <3>3
    <3>4. CASE Full(p)
      <4>1. /\ Take(p, head + 1, tail + 1, 1) /\ pc'[p] = "take"
        BY <1>1, <2>2, <2>7, <3>4 DEF PackedOverrun, StateCas, Goto
      <4>2. call'[p].op = "overrun"
        BY <1>3, <3>3, <4>1, Zenon
      <4>3. p \in Uncounted'
        BY <2>2, <3>3, <4>1, <4>2, Zenon DEF Uncounted
      <4>4. ToFill(p)' = tail..((tail + 1) - 1) /\ ToTake(p)' = head..((head + 1) - 1)
        <5>1. pc'[p] \in {"take", "move"}
          BY <4>1, Zenon
        <5>2. ToFill(p)' = tail..(tail + (1 - 0) - 1) /\ ToTake(p)' = head..(head + (1 - 0) - 1)
          BY <2>1, <2>2, <2>4, <3>3a, <4>3, <5>1, Zenon DEF ToFill, ToTake
        <5>3. tail + (1 - 0) - 1 = (tail + 1) - 1 /\ head + (1 - 0) - 1 = (head + 1) - 1
          BY <1>n
        <5> QED BY <5>2, <5>3, Zenon
      <4>5a. Moved(head + 1, tail + 1)
        BY <1>3, <4>1, Zenon
      <4>5b. /\ head <= head + 1 /\ head + 1 <= tail /\ tail <= tail + 1 /\ (tail + 1) - (head + 1) <= Cap
             /\ (tail + 1) - tail <= Len(call[p].es)
             /\ pc'[p] # "construct" /\ pc'[p] # "move" /\ pc'[p] # "done" /\ cells' = cells
             /\ tail + 1 > tail => reg'[p].t = tail
             /\ head + 1 > head => reg'[p].h = head /\ reg'[p].k = (head + 1) - head
             /\ reg'[p].j = 0 /\ reg'[p].out = <<>>
             /\ call[p].op = "pop" => head + 1 > head
        <5>1. /\ head <= head + 1 /\ head + 1 <= tail /\ tail <= tail + 1 /\ (tail + 1) - (head + 1) <= Cap
              /\ (tail + 1) - tail <= 1 /\ head + 1 > head /\ (head + 1) - head = 1
          BY <1>n, <3>2, <3>3a, <3>4
        <5>2. pc'[p] # "construct" /\ pc'[p] # "move" /\ pc'[p] # "done"
          BY <4>1, Zenon
        <5> QED BY <2>1, <2>2, <2>4, <3>3a, <4>1, <5>1, <5>2, Zenon
      <4>5. head + 1 \in Nat /\ tail + 1 \in Nat
        BY <1>1, <1>2
      <4>6. Claims(p, head + 1, tail + 1)
        BY <1>3c, <2>3, <4>4, <4>5a, <4>5b, <4>5, ZenonT(30)
      <4> QED BY <4>5, <4>6, Zenon
    <3>5. CASE ~Full(p)
      <4>1. /\ Take(p, head, tail + 1, 0) /\ pc'[p] = "fill"
        BY <1>1, <2>2, <2>7, <3>5 DEF PackedOverrun, StateCas, Goto
      <4>2. ToFill(p)' = tail..((tail + 1) - 1) /\ ToTake(p)' = head..(head - 1)
        <5>1. pc'[p] \in {"fill", "construct"} /\ pc'[p] \notin {"take", "move"}
          BY <4>1, Zenon
        <5>2. ToFill(p)' = tail..(tail + (1 - 0) - 1) /\ ToTake(p)' = {}
          BY <2>1, <2>2, <2>4, <3>3a, <5>1, Zenon DEF ToFill, ToTake
        <5>3. tail + (1 - 0) - 1 = (tail + 1) - 1 /\ {} = head..(head - 1)
          BY <1>n
        <5> QED BY <5>2, <5>3, Zenon
      <4>3a. Moved(head, tail + 1)
        BY <1>3, <4>1, Zenon
      <4>3b. /\ head <= head /\ head <= tail /\ tail <= tail + 1 /\ (tail + 1) - head <= Cap
             /\ (tail + 1) - tail <= Len(call[p].es)
             /\ pc'[p] # "construct" /\ pc'[p] # "move" /\ pc'[p] # "done" /\ cells' = cells
             /\ tail + 1 > tail => reg'[p].t = tail
             /\ head > head => reg'[p].h = head /\ reg'[p].k = head - head
             /\ reg'[p].j = 0 /\ reg'[p].out = <<>>
             /\ call[p].op = "pop" => head > head
        <5>1. /\ head <= head /\ head <= tail /\ tail <= tail + 1 /\ (tail + 1) - head <= Cap
              /\ (tail + 1) - tail <= 1 /\ ~(head > head)
          BY <1>n, <3>2, <3>3a, <3>5
        <5>2. pc'[p] # "construct" /\ pc'[p] # "move" /\ pc'[p] # "done"
          BY <4>1, Zenon
        <5> QED BY <2>1, <2>2, <2>4, <3>3, <3>3a, <4>1, <5>1, <5>2, Zenon
      <4>3. head \in Nat /\ tail + 1 \in Nat
        BY <1>1, <1>2
      <4>4. Claims(p, head, tail + 1)
        BY <1>3c, <2>3, <4>2, <4>3a, <4>3b, <4>3, Zenon
      <4> QED BY <4>3, <4>4, Zenon
    <3> QED BY <3>4, <3>5
  <2> QED BY <1>6, <2>5, <2>6, <2>7
<1> QED BY <1>4, <1>5, <1>6 DEF TakesTickets

\* The steps that neither take tickets nor touch a cell: those of a thread that
\* holds no ticket.
Idles(p) ==
  \/ Calls(p) \/ Return(p)
  \/ PushReadTail(p) \/ PushReadHead(p) \/ PushReadTailAgain(p) \/ PushCasFails(p)
  \/ PopReadHead(p) \/ PopReadSeen(p) \/ PopReadTail(p) \/ PopNoteTail(p) \/ PopCasFails(p)
  \/ SizeReadHead(p) \/ SizeReadTail(p) \/ SizeReadHeadAgain(p)
  \/ LoadState(p) \/ StateCasFails(p)
  \/ CountOverrun(p) /\ Cap = 0

\* Such a step leaves the tickets, the cells and the elements alone.
LEMMA IdleSteps ==
  ASSUME IInv, NEW p \in Threads, Idles(p)
  PROVE  /\ UNCHANGED <<head, tail, cells, log>>
         /\ ToFill(p) = {} /\ ToTake(p) = {} /\ ToFill(p)' = {} /\ ToTake(p)' = {}
         /\ pc'[p] \notin {"construct", "take", "move"}
         /\ call'[p].op = "pop" /\ pc'[p] = "done" => reg'[p].out = call'[p].got
<1>1. /\ pc \in [Threads -> PCs] /\ call \in [Threads -> CallRecords]
      /\ reg \in [Threads -> Registers(Elem \cup {NoElem})] /\ Cap \in Nat
  BY Typing, Zenon
<1>2. Control(p)
  BY DEF IInv, ControlInv
<1> DEFINE Kept == UNCHANGED <<head, tail, cells, log>>
           Free(l) == l \notin {"fill", "construct", "take", "move"} /\ (l = "count" => Cap = 0)
           Handed == call'[p].op = "pop" /\ pc'[p] = "done" => reg'[p].out = call'[p].got
<1>3. ASSUME NEW num, Answer(p, num) PROVE Free(pc'[p]) /\ Handed
  <2>1. pc'[p] = "done" /\ reg'[p].out = <<>>
    BY <1>1, <1>3 DEF Answer, Goto, NoReg, Claimed
  <2>2. call'[p].got = <<>>
    BY <1>1, <1>3 DEF Answer, BQ!Effected, CallRecords
  <2> QED BY <2>1, <2>2
<1>4. ASSUME Calls(p) PROVE Kept /\ Free(pc[p]) /\ Free(pc'[p]) /\ Handed
  <2>1. CASE reset_overrun_counter(p)
    BY <1>1, <2>1, Zenon DEF reset_overrun_counter, counters
  <2>2. ASSUME NEW op, NEW es, NEW n, NEW l, Call(p, op, es, n, l)
        PROVE  Kept /\ pc[p] = "idle" /\ pc'[p] = l
    BY <1>1, <2>2 DEF Call, Goto, counters, store
  <2> DEFINE Placed(l) == Kept /\ pc[p] = "idle" /\ pc'[p] = l
  <2>3. CallPush(p) => Placed("load") \/ Placed("push_tail")
    BY <2>2, Zenon DEF CallPush
  <2>4. CallOverrun(p) => Placed("load") \/ (Placed("count") /\ Cap = 0)
    BY <2>2, Zenon DEF CallOverrun
  <2>5. CallPop(p) => Placed("load") \/ Placed("pop_head")
    BY <2>2, Zenon DEF CallPop
  <2>6. CallSize(p) => Placed("load") \/ Placed("size_head")
    BY <2>2, Zenon DEF CallSize
  <2>7. \/ reset_overrun_counter(p)
        \/ Placed("load") \/ Placed("push_tail") \/ Placed("pop_head") \/ Placed("size_head")
        \/ Placed("count") /\ Cap = 0
    <3> HIDE DEF Placed
    <3> QED BY <1>4, <2>3, <2>4, <2>5, <2>6, Zenon DEF Calls
  <2> QED BY <2>1, <2>7
<1>5. ASSUME \/ PushReadTail(p) \/ PushReadHead(p)
             \/ PopReadHead(p) \/ PopReadSeen(p) \/ PopReadTail(p) \/ SizeReadHead(p) \/ SizeReadTail(p)
             \/ Return(p)
      PROVE  Kept /\ Free(pc[p]) /\ Free(pc'[p]) /\ Handed
  <2>1. Kept /\ Free(pc[p]) /\ Free(pc'[p]) /\ pc'[p] # "done"
    BY <1>1, <1>5
    DEF PushReadTail, PushReadHead, PopReadHead, PopReadSeen, PopReadTail, SizeReadHead, SizeReadTail,
        Return, Goto, counters, store
  <2> QED BY <2>1
<1>6. ASSUME PushCasFails(p) \/ PopCasFails(p)
      PROVE  Kept /\ Free(pc[p]) /\ Free(pc'[p]) /\ Handed
  <2>1. Kept /\ Free(pc[p]) /\ Free(pc'[p]) /\ pc'[p] # "done"
    BY <1>1, <1>6 DEF PushCasFails, PopCasFails, Restart, Goto, counters, store
  <2> QED BY <2>1
<1>7. ASSUME PushReadTailAgain(p) \/ PopNoteTail(p) \/ SizeReadHeadAgain(p)
      PROVE  Kept /\ Free(pc[p]) /\ Free(pc'[p]) /\ Handed
  <2>1. Kept /\ Free(pc[p])
    BY <1>7, Zenon DEF PushReadTailAgain, PopNoteTail, SizeReadHeadAgain, counters, store
  <2>2. ASSUME NEW l, Restart(p, l) PROVE pc'[p] = l
    BY <1>1, <2>2 DEF Restart, Goto
  <2>3. \/ \E num : Answer(p, num)
        \/ pc'[p] \in {"push_tail", "pop_claim", "size_head"}
    BY <1>1, <1>7, <2>2, Zenon DEF PushReadTailAgain, PopNoteTail, SizeReadHeadAgain, Goto
  <2>4. Free(pc'[p]) /\ Handed
    BY <1>3, <2>3, Zenon
  <2> QED BY <2>1, <2>4, Zenon
<1>8. ASSUME LoadState(p) \/ StateCasFails(p)
      PROVE  Kept /\ Free(pc[p]) /\ Free(pc'[p]) /\ Handed
  <2>1. Kept /\ Free(pc[p])
    BY <1>8 DEF LoadState, StateCasFails, Examine, counters, store
  <2>2. \/ \E num : Answer(p, num)
        \/ pc'[p] = "cas"
    BY <1>1, <1>8 DEF LoadState, StateCasFails, Examine, Goto
  <2>3. Free(pc'[p]) /\ Handed
    BY <1>3, <2>2
  <2> QED BY <2>1, <2>3, Zenon
<1>9. ASSUME CountOverrun(p), Cap = 0
      PROVE  Kept /\ Free(pc[p]) /\ Free(pc'[p]) /\ Handed
  <2>1. Kept /\ Free(pc[p]) /\ Answer(p, 1)
    BY <1>9 DEF CountOverrun, counters
  <2>2. Free(pc'[p]) /\ Handed
    BY <1>3, <2>1
  <2> QED BY <2>1, <2>2
<1>10. Kept /\ Free(pc[p]) /\ Free(pc'[p]) /\ Handed
  BY <1>4, <1>5, <1>6, <1>7, <1>8, <1>9, ZenonT(30) DEF Idles
<1>11. ToFill(p) = {} /\ ToTake(p) = {}
  BY <1>10, NoneHeld
<1>12. ToFill(p)' = {} /\ ToTake(p)' = {}
  BY <1>10, CapAssumption DEF ToFill, ToTake, Uncounted
<1> QED BY <1>10, <1>11, <1>12

\* A range without its first member.
LEMMA FirstGone ==
  ASSUME NEW a \in Nat, NEW k \in Nat, NEW j \in Nat
  PROVE  (a..(a + (k - j) - 1)) \ {a} = (a + 1)..((a + 1) + (k - (j + 1)) - 1)
BY SMTT(30)

\* Constructing an element gives up the first of the tickets to fill.
LEMMA FillSteps ==
  ASSUME IInv, NEW p \in Threads, FillEnd(p)
  PROVE  /\ pc[p] = "construct" /\ call[p].op # "pop" /\ pc'[p] \in {"fill", "done"}
         /\ UNCHANGED <<head, tail, log, call>>
         /\ reg[p].t \in ToFill(p) /\ ToFill(p)' = ToFill(p) \ {reg[p].t}
         /\ ToTake(p) = {} /\ ToTake(p)' = {}
         /\ cells' = [cells EXCEPT ![Cell(reg[p].t)] =
                        [seq |-> reg[p].t + 1, elem |-> call[p].es[reg[p].j + 1]]]
         /\ reg'[p].t = reg[p].t + 1 /\ reg'[p].j = reg[p].j + 1
<1>1. /\ pc \in [Threads -> PCs] /\ call \in [Threads -> CallRecords]
      /\ reg \in [Threads -> Registers(Elem \cup {NoElem})] /\ Cap \in Nat
  BY Typing, Zenon
<1>2. /\ reg[p].t \in Nat /\ reg[p].k \in Nat /\ reg[p].j \in Nat
  BY Locals
<1>3. pc[p] = "construct" /\ UNCHANGED <<head, tail, log, call>>
  BY DEF FillEnd, counters
<1>4. call[p].op \in {"push", "overrun"} /\ reg[p].j < reg[p].k
  BY <1>3, Zenon DEF IInv, ControlInv, Control
<1>5. /\ pc'[p] = IF reg[p].j + 1 < reg[p].k THEN "fill" ELSE "done"
      /\ cells' = [cells EXCEPT ![Cell(reg[p].t)] =
                     [seq |-> reg[p].t + 1, elem |-> call[p].es[reg[p].j + 1]]]
  BY <1>1 DEF FillEnd, Filled, Goto
<1>6. /\ reg'[p].t = reg[p].t + 1 /\ reg'[p].j = reg[p].j + 1 /\ reg'[p].k = reg[p].k
  BY <1>1 DEF FillEnd, Registers
<1>7. ToFill(p) = reg[p].t..(reg[p].t + (reg[p].k - reg[p].j) - 1)
  BY <1>3, SMTT(30) DEF ToFill
<1>8. CASE reg[p].j + 1 < reg[p].k
  <2>1. ToFill(p)' = reg'[p].t..(reg'[p].t + (reg'[p].k - reg'[p].j) - 1)
    BY <1>5, <1>8, Zenon DEF ToFill
  <2>2. ToFill(p)' = ToFill(p) \ {reg[p].t}
    <3>1. (reg[p].t..(reg[p].t + (reg[p].k - reg[p].j) - 1)) \ {reg[p].t}
            = (reg[p].t + 1)..((reg[p].t + 1) + (reg[p].k - (reg[p].j + 1)) - 1)
      BY <1>2, FirstGone
    <3> QED BY <1>6, <1>7, <2>1, <3>1, Zenon
  <2>3. ToTake(p) = {} /\ ToTake(p)' = {}
    BY <1>3, <1>5, <1>8, Zenon DEF ToTake
  <2>4. reg[p].t \in ToFill(p)
    BY <1>2, <1>4, <1>7
  <2> QED BY <1>3, <1>4, <1>5, <1>6, <1>8, <2>2, <2>3, <2>4, Zenon
<1>9. CASE ~(reg[p].j + 1 < reg[p].k)
  <2>1. ToFill(p)' = {} /\ ToTake(p) = {} /\ ToTake(p)' = {}
    BY <1>3, <1>5, <1>9, Zenon DEF ToFill, ToTake, Uncounted
  <2>2. ToFill(p) = {reg[p].t}
    <3>1. reg[p].k = reg[p].j + 1
      BY <1>2, <1>4, <1>9
    <3>2. reg[p].t..(reg[p].t + (reg[p].k - reg[p].j) - 1) = {reg[p].t}
      BY <1>2, <3>1, SMTT(30)
    <3> QED BY <1>7, <3>2, Zenon
  <2> QED BY <1>3, <1>4, <1>5, <1>6, <1>9, <2>1, <2>2, Zenon
<1> QED BY <1>8, <1>9, Zenon

\* Emptying a cell gives up the first of the tickets to take.
LEMMA TakeSteps ==
  ASSUME IInv, NEW p \in Threads, TakeEnd(p)
  PROVE  /\ pc[p] = "move" /\ UNCHANGED <<head, tail, log, call>>
         /\ reg[p].h \in ToTake(p) /\ ToTake(p)' = ToTake(p) \ {reg[p].h}
         /\ ToFill(p)' = ToFill(p)
         /\ cells' = [cells EXCEPT ![Cell(reg[p].h)] = [seq |-> reg[p].h + R, elem |-> NoElem]]
         /\ \/ /\ call[p].op = "pop"
               /\ reg'[p].h = reg[p].h + 1 /\ reg'[p].j = reg[p].j + 1 /\ reg'[p].k = reg[p].k
               /\ reg'[p].out = Append(reg[p].out, cells[Cell(reg[p].h)].elem)
               /\ pc'[p] = IF reg[p].j + 1 < reg[p].k THEN "take" ELSE "done"
               /\ ToFill(p) = {}
            \/ call[p].op = "overrun" /\ pc'[p] = "count" /\ reg' = reg
<1>1. /\ pc \in [Threads -> PCs] /\ call \in [Threads -> CallRecords]
      /\ reg \in [Threads -> Registers(Elem \cup {NoElem})] /\ Cap \in Nat
  BY Typing, Zenon
<1>2. /\ reg[p].h \in Nat /\ reg[p].k \in Nat /\ reg[p].j \in Nat
  BY Locals
<1>3. /\ pc[p] = "move" /\ UNCHANGED <<head, tail, log, call>>
      /\ cells' = [cells EXCEPT ![Cell(reg[p].h)] = [seq |-> reg[p].h + R, elem |-> NoElem]]
  BY SMTT(30) DEF TakeEnd, Emptied, counters
<1>4. /\ reg[p].j < reg[p].k
      /\ call[p].op = "overrun" => Cap > 0 /\ reg[p].j = 0 /\ reg[p].k = 1
  BY <1>1, <1>3, Zenon DEF IInv, ControlInv, Control
<1>5. ToTake(p) = reg[p].h..(reg[p].h + (reg[p].k - reg[p].j) - 1)
  BY <1>3, Zenon DEF ToTake
<1>6. reg[p].h \in ToTake(p)
  BY <1>2, <1>4, <1>5, SMTT(30)
<1>7. CASE call[p].op = "pop"
  <2>1. /\ reg' = [reg EXCEPT ![p].h = reg[p].h + 1, ![p].j = reg[p].j + 1,
                       ![p].out = Append(reg[p].out, cells[Cell(reg[p].h)].elem)]
        /\ pc'[p] = IF reg[p].j + 1 < reg[p].k THEN "take" ELSE "done"
    BY <1>1, <1>7 DEF TakeEnd, Goto
  <2>2. /\ reg'[p].h = reg[p].h + 1 /\ reg'[p].j = reg[p].j + 1 /\ reg'[p].k = reg[p].k
        /\ reg'[p].out = Append(reg[p].out, cells[Cell(reg[p].h)].elem)
    BY <1>1, <2>1, Zenon DEF Registers
  <2>3. ToFill(p) = {} /\ ToFill(p)' = {}
    BY <1>3, <1>7, <2>1, SMTT(30) DEF ToFill, Uncounted
  <2>4. CASE reg[p].j + 1 < reg[p].k
    <3>1. ToTake(p)' = reg'[p].h..(reg'[p].h + (reg'[p].k - reg'[p].j) - 1)
      BY <2>1, <2>4 DEF ToTake
    <3>2. ToTake(p)' = ToTake(p) \ {reg[p].h}
      <4>1. (reg[p].h..(reg[p].h + (reg[p].k - reg[p].j) - 1)) \ {reg[p].h}
              = (reg[p].h + 1)..((reg[p].h + 1) + (reg[p].k - (reg[p].j + 1)) - 1)
        BY <1>2, FirstGone
      <4> QED BY <1>5, <2>2, <3>1, <4>1, Zenon
    <3> QED BY <1>3, <1>6, <1>7, <2>1, <2>2, <2>3, <3>2, ZenonT(30)
  <2>5. CASE ~(reg[p].j + 1 < reg[p].k)
    <3>1. ToTake(p)' = {}
      BY <2>1, <2>5 DEF ToTake
    <3>2. ToTake(p) = {reg[p].h}
      BY <1>2, <1>4, <1>5, <2>5, SMTT(30)
    <3> QED BY <1>3, <1>6, <1>7, <2>1, <2>2, <2>3, <3>1, <3>2, ZenonT(30)
  <2> QED BY <2>4, <2>5, Zenon
<1>8. CASE call[p].op = "overrun"
  <2>1. pc'[p] = "count" /\ reg' = reg
    BY <1>1, <1>8, SMTT(30) DEF TakeEnd, Goto
  <2>2. p \in Uncounted /\ p \in Uncounted'
    BY <1>3, <1>4, <1>8, <2>1, Zenon DEF Uncounted
  <2>3. ToFill(p)' = ToFill(p)
    BY <2>1, <2>2 DEF ToFill
  <2>4. ToTake(p)' = {}
    BY <2>1 DEF ToTake
  <2>5. ToTake(p) = {reg[p].h}
    <3>1. reg[p].k = 1 /\ reg[p].j = 0
      BY <1>4, <1>8
    <3>2. reg[p].h..(reg[p].h + (1 - 0) - 1) = {reg[p].h}
      BY <1>2
    <3> QED BY <1>5, <3>1, <3>2, Zenon
  <2> QED BY <1>3, <1>6, <1>8, <2>1, <2>3, <2>4, <2>5, Zenon
<1>9. call[p].op = "pop" \/ call[p].op = "overrun"
  BY DEF TakeEnd
<1> QED BY <1>7, <1>8, <1>9, Zenon

\* A wait that ends, or an overrun that has counted, keeps its tickets.
LEMMA WaitSteps ==
  ASSUME IInv, NEW p \in Threads,
         FillWait(p) \/ TakeWait(p) \/ (CountOverrun(p) /\ Cap > 0)
  PROVE  /\ UNCHANGED <<head, tail, cells, log, reg, call>>
         /\ ToFill(p)' = ToFill(p) /\ ToTake(p)' = ToTake(p)
         /\ \/ FillWait(p) /\ pc[p] = "fill" /\ pc'[p] = "construct" /\ reg[p].t \in ToFill(p)
            \/ TakeWait(p) /\ pc[p] = "take" /\ pc'[p] = "move" /\ reg[p].h \in ToTake(p)
            \/ pc[p] = "count" /\ pc'[p] = "fill"
<1>1. /\ pc \in [Threads -> PCs] /\ call \in [Threads -> CallRecords]
      /\ reg \in [Threads -> Registers(Elem \cup {NoElem})] /\ Cap \in Nat
  BY Typing, Zenon
<1>2. /\ reg[p].h \in Nat /\ reg[p].t \in Nat /\ reg[p].k \in Nat /\ reg[p].j \in Nat
  BY Locals
<1>3. Control(p)
  BY DEF IInv, ControlInv
<1>4. CASE FillWait(p)
  <2>1. /\ pc[p] = "fill" /\ pc'[p] = "construct"
        /\ UNCHANGED <<head, tail, cells, log, reg, call>>
    BY <1>1, <1>4 DEF FillWait, Goto, counters, store
  <2>2. /\ ToFill(p) = reg[p].t..(reg[p].t + (reg[p].k - reg[p].j) - 1)
        /\ ToFill(p)' = ToFill(p) /\ ToTake(p)' = ToTake(p)
    BY <2>1, Zenon DEF ToFill, ToTake
  <2>3. reg[p].j < reg[p].k
    BY <1>3, <2>1, Zenon DEF Control
  <2>4. reg[p].t \in ToFill(p)
    <3>1. reg[p].t \in reg[p].t..(reg[p].t + (reg[p].k - reg[p].j) - 1)
      BY <1>2, <2>3
    <3> QED BY <2>2, <3>1, Zenon
  <2> QED BY <1>4, <2>1, <2>2, <2>4, Zenon
<1>5. CASE TakeWait(p)
  <2>1. /\ pc[p] = "take" /\ pc'[p] = "move"
        /\ UNCHANGED <<head, tail, cells, log, reg, call>>
    BY <1>1, <1>5, SMTT(30) DEF TakeWait, Goto, counters, store
  <2>2. /\ ToTake(p) = reg[p].h..(reg[p].h + (reg[p].k - reg[p].j) - 1)
        /\ ToFill(p)' = ToFill(p) /\ ToTake(p)' = ToTake(p)
    BY <2>1, Zenon DEF ToFill, ToTake, Uncounted
  <2>3. reg[p].j < reg[p].k
    BY <1>3, <2>1, Zenon DEF Control
  <2>4. reg[p].h \in ToTake(p)
    BY <1>2, <2>2, <2>3, SMTT(30)
  <2> QED BY <1>5, <2>1, <2>2, <2>4, Zenon
<1>6. CASE CountOverrun(p) /\ Cap > 0
  <2>1. /\ pc[p] = "count" /\ pc'[p] = "fill"
        /\ UNCHANGED <<head, tail, cells, log, reg, call>>
    BY <1>1, <1>6, SMTT(30) DEF CountOverrun, Goto, counters
  <2>2. call[p].op = "overrun"
    BY <1>3, <2>1, Zenon DEF Control
  <2>3. ToFill(p)' = ToFill(p) /\ ToTake(p)' = ToTake(p)
    BY <1>6, <2>1, <2>2, Zenon DEF ToFill, ToTake, Uncounted
  <2> QED BY <2>1, <2>3, Zenon
<1> QED BY <1>4, <1>5, <1>6, Zenon

Waited(p) == FillWait(p) \/ TakeWait(p) \/ (CountOverrun(p) /\ Cap > 0)

\* The kinds of step there are.
LEMMA StepKinds ==
  ASSUME NEW p \in Threads, Calls(p) \/ Step(p)
  PROVE  Idles(p) \/ TakesTickets(p) \/ Waited(p) \/ FillEnd(p) \/ TakeEnd(p)
<1>1. CountOverrun(p) => Cap = 0 \/ Cap > 0
  BY DEF CountOverrun
<1> QED BY <1>1, Zenon
  DEF Idles, TakesTickets, Waited, Step, SplitStep, PackedStep, CellStep

\* A step that takes no tickets hands out none, and leaves the log alone.
LEMMA Keeps ==
  ASSUME IInv, NEW p \in Threads, Idles(p) \/ Waited(p) \/ FillEnd(p) \/ TakeEnd(p)
  PROVE  /\ UNCHANGED <<head, tail, log>>
         /\ ToFill(p)' \subseteq ToFill(p) /\ ToTake(p)' \subseteq ToTake(p)
<1>1. CASE Idles(p)
  BY <1>1, IdleSteps, Zenon
<1>2. CASE Waited(p)
  BY <1>2, WaitSteps, Zenon DEF Waited
<1>3. CASE FillEnd(p)
  BY <1>3, FillSteps, Zenon
<1>4. CASE TakeEnd(p)
  BY <1>4, TakeSteps, Zenon
<1> QED BY <1>1, <1>2, <1>3, <1>4, SMTT(30)

\* Every step keeps every ticket claimed once.
LEMMA TicketsStep ==
  ASSUME IInv, TicketInv, NEW p \in Threads, Calls(p) \/ Step(p)
  PROVE  TicketInv'
<1>1. /\ head \in Nat /\ tail \in Nat /\ Start \in Nat /\ Start <= head /\ head <= tail
  BY Typing, Zenon
<1>2. \A q \in Threads : q # p => ToFill(q)' = ToFill(q) /\ ToTake(q)' = ToTake(q)
  BY HeldFrame, Zenon
<1>3. /\ \A q \in Threads : ToFill(q) \subseteq Start..(tail - 1)
      /\ \A q \in Threads : ToTake(q) \subseteq Start..(head - 1)
      /\ \A q, r \in Threads : q # r => ToFill(q) \cap ToFill(r) = {}
      /\ \A q, r \in Threads : q # r => ToTake(q) \cap ToTake(r) = {}
      /\ \A q \in Threads : \A u \in ToTake(q), v \in ToFill(q) : u < v
  BY DEF TicketInv
<1>4. CASE Idles(p) \/ Waited(p) \/ FillEnd(p) \/ TakeEnd(p)
  <2>1. /\ head' = head /\ tail' = tail
        /\ \A q \in Threads : ToFill(q)' \subseteq ToFill(q) /\ ToTake(q)' \subseteq ToTake(q)
    BY <1>2, <1>4, Keeps
  <2>2. \A q \in Threads : ToFill(q)' \subseteq Start..(tail' - 1)
    BY <1>3, <2>1, Zenon
  <2>3. \A q \in Threads : ToTake(q)' \subseteq Start..(head' - 1)
    BY <1>3, <2>1, Zenon
  <2>4. \A q, r \in Threads : q # r => ToFill(q)' \cap ToFill(r)' = {}
    BY <1>3, <2>1, Zenon
  <2>5. \A q, r \in Threads : q # r => ToTake(q)' \cap ToTake(r)' = {}
    BY <1>3, <2>1, Zenon
  <2>6. \A q \in Threads : \A u \in ToTake(q)', v \in ToFill(q)' : u < v
    BY <1>3, <2>1, Zenon
  <2> QED BY <2>2, <2>3, <2>4, <2>5, <2>6, Zenon DEF TicketInv
<1>5. CASE TakesTickets(p)
  <2>1. PICK h \in Nat, t \in Nat : Claims(p, h, t)
    BY <1>5, TicketsTaken
  <2>2. /\ head' = h /\ tail' = t /\ head <= h /\ h <= tail /\ tail <= t
        /\ ToFill(p)' = tail..(t - 1) /\ ToTake(p)' = head..(h - 1)
    BY <2>1, Zenon DEF Claims
  <2>3. \A q \in Threads : ToFill(q)' \subseteq Start..(tail' - 1)
    <3>1. ASSUME NEW q \in Threads PROVE ToFill(q)' \subseteq Start..(t - 1)
      <4>1. CASE q = p
        BY <1>1, <2>2, <4>1
      <4>2. CASE q # p
        <5>1. Start..(tail - 1) \subseteq Start..(t - 1)
          BY <1>1, <2>2
        <5> QED BY <1>2, <1>3, <4>2, <5>1, Zenon
      <4> QED BY <4>1, <4>2
    <3> QED BY <2>2, <3>1, Zenon
  <2>4. \A q \in Threads : ToTake(q)' \subseteq Start..(head' - 1)
    <3>1. ASSUME NEW q \in Threads PROVE ToTake(q)' \subseteq Start..(h - 1)
      <4>1. CASE q = p
        BY <1>1, <2>2, <4>1
      <4>2. CASE q # p
        <5>1. Start..(head - 1) \subseteq Start..(h - 1)
          BY <1>1, <2>2
        <5> QED BY <1>2, <1>3, <4>2, <5>1, Zenon
      <4> QED BY <4>1, <4>2
    <3> QED BY <2>2, <3>1, Zenon
  <2>5. (Start..(tail - 1)) \cap (tail..(t - 1)) = {}
    BY <1>1
  <2>6. (Start..(head - 1)) \cap (head..(h - 1)) = {}
    BY <1>1
  <2>7. ASSUME NEW q \in Threads, NEW r \in Threads, q # r
        PROVE  ToFill(q)' \cap ToFill(r)' = {} /\ ToTake(q)' \cap ToTake(r)' = {}
    <3>1. CASE q # p /\ r # p
      BY <1>2, <1>3, <2>7, <3>1, ZenonT(30)
    <3>2. CASE q = p
      <4>1. r # p /\ ToFill(q)' = tail..(t - 1) /\ ToTake(q)' = head..(h - 1)
        BY <2>2, <2>7, <3>2, Zenon
      <4>2. ToFill(r)' \subseteq Start..(tail - 1) /\ ToTake(r)' \subseteq Start..(head - 1)
        BY <1>2, <1>3, <4>1, ZenonT(30)
      <4> QED BY <2>5, <2>6, <4>1, <4>2
    <3>3. CASE r = p
      <4>1. q # p /\ ToFill(r)' = tail..(t - 1) /\ ToTake(r)' = head..(h - 1)
        BY <2>2, <2>7, <3>3, Zenon
      <4>2. ToFill(q)' \subseteq Start..(tail - 1) /\ ToTake(q)' \subseteq Start..(head - 1)
        BY <1>2, <1>3, <4>1, ZenonT(30)
      <4> QED BY <2>5, <2>6, <4>1, <4>2
    <3> QED BY <3>1, <3>2, <3>3
  <2>8. /\ \A q, r \in Threads : q # r => ToFill(q)' \cap ToFill(r)' = {}
        /\ \A q, r \in Threads : q # r => ToTake(q)' \cap ToTake(r)' = {}
    BY <2>7, Zenon
  <2>9. ASSUME NEW q \in Threads, NEW u \in ToTake(q)', NEW v \in ToFill(q)' PROVE u < v
    <3>1. CASE q = p
      BY <1>1, <2>2, <2>9, <3>1
    <3>2. CASE q # p
      BY <1>2, <1>3, <2>9, <3>2, Zenon
    <3> QED BY <3>1, <3>2
  <2>10. \A q \in Threads : \A u \in ToTake(q)', v \in ToFill(q)' : u < v
    BY <2>9
  <2> QED BY <2>3, <2>4, <2>8, <2>10, Zenon DEF TicketInv
<1> QED BY <1>4, <1>5, StepKinds, ZenonT(30)

\* What a step does to the count: nothing, or the thread joins the overruns
\* that have an element to count, or it leaves them and counts it.
Counts(p) ==
  \/ (p \in Uncounted' <=> p \in Uncounted) /\ UNCHANGED <<overruns, dropped>>
  \/ p \notin Uncounted /\ p \notin Uncounted' /\ overruns' = 0 /\ dropped' = Cardinality(Uncounted)
  \/ p \notin Uncounted /\ p \notin Uncounted' /\ overruns' = overruns + 1 /\ dropped' = dropped + 1
  \/ p \notin Uncounted /\ p \in Uncounted' /\ overruns' = overruns /\ dropped' = dropped + 1
  \/ p \in Uncounted /\ p \notin Uncounted' /\ overruns' = overruns + 1 /\ dropped' = dropped

\* Every step counts what it drops, or is on the way to.
LEMMA CountSteps ==
  ASSUME IInv, NEW p \in Threads, Calls(p) \/ Step(p)
  PROVE  Counts(p)
<1>1. /\ pc \in [Threads -> PCs] /\ call \in [Threads -> CallRecords]
      /\ overruns \in Nat /\ dropped \in Nat
  BY Zenon DEF IInv, TypeInv, Typed
<1>1a. Cap \in Nat
  BY CapAssumption
<1>2. Control(p)
  BY DEF IInv, ControlInv
<1> DEFINE Off(l) == l \notin {"take", "move", "count"}
<1>3. \A l : Off(l) => /\ (pc[p] = l => p \notin Uncounted)
                       /\ (pc'[p] = l => p \notin Uncounted')
  BY DEF Uncounted
<1>4. CASE reset_overrun_counter(p)
  BY <1>1, <1>4, SMTT(30) DEF reset_overrun_counter, Counts, Uncounted
<1>5. ASSUME NEW op, NEW es, NEW n, NEW l, Call(p, op, es, n, l), Off(l) \/ Cap = 0
      PROVE  Counts(p)
  <2>1. pc[p] = "idle" /\ pc'[p] = l /\ overruns' = overruns /\ dropped' = dropped
    BY <1>1, <1>5 DEF Call, Goto, store
  <2>2. p \notin Uncounted /\ p \notin Uncounted'
    BY <1>5, <2>1 DEF Uncounted
  <2> QED BY <2>1, <2>2, Zenon DEF Counts
<1>6. CASE CallPush(p) \/ CallOverrun(p) \/ CallPop(p) \/ CallSize(p)
  BY <1>5, <1>6 DEF CallPush, CallOverrun, CallPop, CallSize
<1>7. ASSUME NEW num, Answer(p, num) PROVE pc'[p] = "done"
  BY <1>1, <1>7 DEF Answer, Goto
<1>8. ASSUME NEW l, Restart(p, l) PROVE pc'[p] = l
  BY <1>1, <1>8 DEF Restart, Goto
<1>9. CASE \/ Return(p) \/ PushReadTail(p) \/ PushReadHead(p) \/ PushReadTailAgain(p)
           \/ PushCasFails(p) \/ PopReadHead(p) \/ PopReadSeen(p) \/ PopReadTail(p)
           \/ PopNoteTail(p) \/ PopCasFails(p) \/ SizeReadHead(p) \/ SizeReadTail(p)
           \/ SizeReadHeadAgain(p)
  <2>1. Off(pc[p]) /\ UNCHANGED <<overruns, dropped>>
    BY <1>9 DEF Return, PushReadTail, PushReadHead, PushReadTailAgain, PushCasFails, PopReadHead,
      PopReadSeen, PopReadTail, PopNoteTail, PopCasFails, SizeReadHead, SizeReadTail,
      SizeReadHeadAgain, store
  <2>2. Off(pc'[p])
    BY <1>1, <1>7, <1>8, <1>9, SMTT(30)
    DEF Return, PushReadTail, PushReadHead, PushReadTailAgain, PushCasFails, PopReadHead,
      PopReadSeen, PopReadTail, PopNoteTail, PopCasFails, SizeReadHead, SizeReadTail,
      SizeReadHeadAgain, Goto
  <2> QED BY <1>3, <2>1, <2>2, Zenon DEF Counts
<1>10. CASE LoadState(p) \/ StateCasFails(p)
  <2>1. Off(pc[p]) /\ UNCHANGED <<overruns, dropped>>
    BY <1>10 DEF LoadState, StateCasFails, Examine, store
  <2>2. Off(pc'[p])
    BY <1>1, <1>7, <1>10, SMTT(30) DEF LoadState, StateCasFails, Examine, Goto
  <2> QED BY <1>3, <2>1, <2>2, Zenon DEF Counts
<1>11. CASE FillWait(p) \/ FillEnd(p)
  <2>1. Off(pc[p]) /\ UNCHANGED <<overruns, dropped>>
    BY <1>11 DEF FillWait, FillEnd, store
  <2>2. Off(pc'[p])
    BY <1>1, <1>11 DEF FillWait, FillEnd, Filled, Goto
  <2> QED BY <1>3, <2>1, <2>2 DEF Counts
<1>12. CASE TakeWait(p)
  <2>1. pc[p] = "take" /\ pc'[p] = "move" /\ UNCHANGED <<overruns, dropped, call>>
    BY <1>1, <1>12, Zenon DEF TakeWait, Goto, store
  <2> QED BY <2>1, Zenon DEF Counts, Uncounted
<1>13. CASE TakeEnd(p)
  <2>1. pc[p] = "move" /\ UNCHANGED <<overruns, dropped, call>>
    BY <1>13 DEF TakeEnd
  <2>2. (call[p].op = "pop") \/ (call[p].op = "overrun" /\ pc'[p] = "count")
    BY <1>1, <1>13 DEF TakeEnd, Goto
  <2> QED BY <2>1, <2>2, Zenon DEF Counts, Uncounted
<1>14. CASE CountOverrun(p)
  <2>1. pc[p] = "count" /\ overruns' = overruns + 1 /\ call[p].op = "overrun"
    <3>1. pc[p] = "count" /\ overruns' = overruns + 1
      BY <1>14, Zenon DEF CountOverrun
    <3> QED BY <1>2, <3>1, Zenon DEF Control
  <2>2. CASE Cap = 0
    <3>1. dropped' = dropped + 1 /\ Off(pc'[p])
      BY <1>1, <1>7, <1>14, <2>2, SMTT(30) DEF CountOverrun
    <3>2. p \notin Uncounted /\ p \notin Uncounted'
      <4>1. ~(Cap > 0)
        BY <2>2
      <4> QED BY <4>1, Zenon DEF Uncounted
    <3> QED BY <2>1, <3>1, <3>2, Zenon DEF Counts
  <2>3. CASE Cap > 0
    <3>1. dropped' = dropped /\ pc'[p] = "fill"
      BY <1>1, <1>14, <2>3, SMTT(30) DEF CountOverrun, Goto
    <3> QED BY <1>3, <2>1, <2>3, <3>1, Zenon DEF Counts, Uncounted
  <2> QED BY <1>1a, <2>2, <2>3, SMTT(30)
<1>15. CASE TakesTickets(p)
  <2>1. overruns' = overruns /\ Off(pc[p]) /\ call'[p].op = call[p].op
    <3>1. overruns' = overruns
      BY <1>15, TicketStep, SMTT(30)
    <3>2. Off(pc[p])
      BY <1>15, ZenonT(30) DEF TakesTickets, PushStore, PushCas, PopStore, PopCas,
        PackedPush, PackedPop, PackedOverrun, StateCas
    <3>3. call'[p].op = call[p].op
      BY <1>15, TicketsTaken, Zenon DEF Claims
    <3> QED BY <3>1, <3>2, <3>3, Zenon
  <2>2. CASE PushStore(p) \/ PushCas(p) \/ PopStore(p) \/ PopCas(p)
    <3>1. dropped' = dropped /\ call[p].op # "overrun"
      BY <2>2, PushTickets, PopTickets, Zenon DEF PushTake, PopTake, store
    <3> QED BY <2>1, <3>1, Zenon DEF Counts, Uncounted
  <2>3. CASE PackedPush(p) \/ PackedPop(p)
    <3>1. dropped' = dropped /\ call[p].op # "overrun"
      BY <2>3, ZenonT(30) DEF PackedPush, PackedPop, StateCas
    <3> QED BY <2>1, <3>1, Zenon DEF Counts, Uncounted
  <2>4. CASE PackedOverrun(p)
    <3>1. call[p].op = "overrun" /\ Cap > 0
      BY <1>2, <2>4, ZenonT(30) DEF PackedOverrun, StateCas, Control
    <3>2. \/ pc'[p] = "take" /\ dropped' = dropped + 1
          \/ pc'[p] = "fill" /\ dropped' = dropped
      BY <1>1, <2>4, Zenon DEF PackedOverrun, StateCas, Goto
    <3> QED BY <1>3, <2>1, <3>1, <3>2, Zenon DEF Counts, Uncounted
  <2> QED BY <1>15, <2>2, <2>3, <2>4, SMTT(30) DEF TakesTickets
<1> QED BY <1>4, <1>6, <1>9, <1>10, <1>11, <1>12, <1>13, <1>14, <1>15, ZenonT(30)
  DEF Calls, Step, SplitStep, PackedStep, CellStep, TakesTickets
===============================================================================
