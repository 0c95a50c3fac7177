--------------------------- MODULE BoundedRingCells ---------------------------
(***************************************************************************)
(* The cells of BoundedRing: every step keeps each cell behind the tickets *)
(* that wait for it and ahead of those that are done, and what it holds.   *)
(***************************************************************************)
EXTENDS BoundedRingTickets

\* A ticket that no thread has still to fill, and to take.
IsFilled(u) == \A p \in Threads : u \notin ToFill(p)
IsTaken(u) == \A p \in Threads : u \notin ToTake(p)

\* Cell i waits for a ticket at most a lap ahead, or holds what the log has.
Empty(i) == Cell(cells[i].seq) = i /\ cells[i].elem = NoElem /\ cells[i].seq - R < head
Holds(i) ==
  /\ Cell(cells[i].seq - 1) = i
  /\ cells[i].seq - 1 \in Start..(tail - 1)
  /\ cells[i].elem = log[cells[i].seq - Start]

\* A cell is empty and waits for the ticket of its number, or holds the
\* element of the ticket before it.
Shape(i) ==
  /\ cells[i].seq >= Start /\ tail - cells[i].seq < Half
  /\ Empty(i) \/ Holds(i)

\* No cell is past a ticket that is still to be filled or taken from it, and
\* one that a thread works in stands at that thread's ticket.
Behind(p) ==
  /\ \A u \in ToFill(p) : cells[Cell(u)].seq <= u
  /\ \A u \in ToTake(p) : cells[Cell(u)].seq <= u + 1
  /\ pc[p] = "construct" => cells[Cell(reg[p].t)].seq = reg[p].t
  /\ pc[p] = "move" => cells[Cell(reg[p].h)].seq = reg[p].h + 1

\* A cell is past every ticket that has been filled or taken.
Ahead ==
  /\ \A u \in Start..(tail - 1) : IsFilled(u) => cells[Cell(u)].seq >= u + 1
  /\ \A u \in Start..(head - 1) : IsTaken(u) => cells[Cell(u)].seq >= u + R

\* What holds of the cells and their sequence numbers.
CellInv ==
  /\ \A i \in 0..(R - 1) : Shape(i)
  /\ \A p \in Threads : Behind(p)
  /\ Ahead

\* A thread is about to fill each of its tickets with the element the log has
\* for it, and to take from each the one it was promised.
Payload(p) ==
  /\ \A u \in ToFill(p) : log[u - Start + 1] = call[p].es[reg[p].j + 1 + (u - reg[p].t)]
  /\ call[p].op = "pop" /\ pc[p] \in {"take", "move"} =>
       /\ Len(call[p].got) = reg[p].k /\ Len(reg[p].out) = reg[p].j
       /\ \A i \in 1..reg[p].j : reg[p].out[i] = call[p].got[i]
       /\ \A u \in ToTake(p) : call[p].got[reg[p].j + 1 + (u - reg[p].h)] = log[u - Start + 1]
  /\ call[p].op = "pop" /\ pc[p] = "done" => reg[p].out = call[p].got

PayloadInv == \A p \in Threads : Payload(p)

\* The inductive invariant: counters, tickets, cells and elements.
RingInv == IInv /\ TicketInv /\ CellInv /\ PayloadInv

-----------------------------------------------------------------------------
\* The tickets a step of p touches, as numbers.
LEMMA HeldType ==
  ASSUME IInv, TicketInv, NEW p \in Threads
  PROVE  /\ \A u \in ToFill(p) : u \in Nat /\ Start <= u /\ u < tail /\ Cell(u) \in 0..(R - 1)
         /\ \A u \in ToTake(p) : u \in Nat /\ Start <= u /\ u < head /\ Cell(u) \in 0..(R - 1)
<1>1. /\ head \in Nat /\ tail \in Nat /\ Start \in Nat
  BY Typing
<1>2. ASSUME NEW u \in ToFill(p) PROVE u \in Nat /\ Start <= u /\ u < tail /\ Cell(u) \in 0..(R - 1)
  <2>1. u \in Start..(tail - 1)
    BY DEF TicketInv
  <2>2. u \in Nat /\ u \in Int /\ Start <= u /\ u < tail
    BY <1>1, <2>1
  <2> QED BY <2>2, CellRange
<1>3. ASSUME NEW u \in ToTake(p) PROVE u \in Nat /\ Start <= u /\ u < head /\ Cell(u) \in 0..(R - 1)
  <2>1. u \in Start..(head - 1)
    BY DEF TicketInv
  <2>2. u \in Nat /\ u \in Int /\ Start <= u /\ u < head
    BY <1>1, <2>1
  <2> QED BY <2>2, CellRange
<1> QED BY <1>2, <1>3

\* The waits compare tickets modulo Mod, and still end only at their own.
LEMMA WaitedFor ==
  ASSUME IInv, TicketInv, CellInv, NEW p \in Threads, Waited(p)
  PROVE  /\ pc'[p] = "construct" => cells[Cell(reg[p].t)].seq = reg[p].t
         /\ pc'[p] = "move" => cells[Cell(reg[p].h)].seq = reg[p].h + 1
<1>1. head \in Nat /\ tail \in Nat /\ head <= tail /\ \A i \in 0..(R - 1) : cells[i].seq \in Nat
  BY Typing
<1>2. /\ \A i \in 0..(R - 1) : Shape(i)
      /\ Behind(p)
  BY DEF CellInv
<1>3. ASSUME NEW a \in Nat, NEW b \in Nat, a <= b, b - a < Half, Same(a, b) PROVE a = b
  <2>1. CASE a < b
    <3>1. Diff(a, b) = a - b + Mod
      BY <1>3, <2>1, HalfBound, DiffDown
    <3> QED BY <1>3, <2>1, <3>1, HalfBound DEF Same
  <2> QED BY <1>3, <2>1
<1>4. CASE FillWait(p) /\ pc'[p] = "construct" /\ reg[p].t \in ToFill(p)
  <2> DEFINE u == reg[p].t
             s == cells[Cell(reg[p].t)].seq
  <2>1. /\ u \in Nat /\ u < tail /\ Cell(u) \in 0..(R - 1)
    BY <1>4, HeldType
  <2>2. s \in Nat /\ s <= u /\ tail - s < Half
    BY <1>1, <1>2, <1>4, <2>1 DEF Shape, Behind
  <2>3. Same(s, u)
    BY <1>4 DEF FillWait
  <2> HIDE DEF u, s
  <2>4. u - s < Half
    BY <1>1, <2>1, <2>2, HalfBound
  <2>5. s = u
    BY <1>3, <2>1, <2>2, <2>3, <2>4
  <2> QED BY <1>4, <2>5 DEF u, s
<1>5. CASE TakeWait(p) /\ pc'[p] = "move" /\ reg[p].h \in ToTake(p)
  <2> DEFINE u == reg[p].h
             s == cells[Cell(reg[p].h)].seq
  <2>1. /\ u \in Nat /\ u < head /\ Cell(u) \in 0..(R - 1)
    BY <1>5, HeldType
  <2>2. s \in Nat /\ s <= u + 1 /\ tail - s < Half
    BY <1>1, <1>2, <1>5, <2>1 DEF Shape, Behind
  <2>3. Same(s, u + 1)
    BY <1>5 DEF TakeWait
  <2> HIDE DEF u, s
  <2>4. (u + 1) - s < Half /\ u + 1 \in Nat
    BY <1>1, <2>1, <2>2, HalfBound
  <2>5. s = u + 1
    BY <1>3, <2>1, <2>2, <2>3, <2>4
  <2> QED BY <1>5, <2>5 DEF u, s
<1> QED BY <1>4, <1>5, WaitSteps DEF Waited

\* Taking tickets keeps the cells of the tickets already taken.
LEMMA ClaimsShape ==
  ASSUME RingInv, NEW p \in Threads, NEW h \in Nat, NEW t \in Nat, Claims(p, h, t)
  PROVE  \A i \in 0..(R - 1) : Shape(i)'
<1>1. IInv /\ \A i \in 0..(R - 1) : Shape(i)
  BY DEF RingInv, CellInv
<1>2. /\ head \in Nat /\ tail \in Nat /\ Start \in Nat /\ R \in Nat /\ head <= tail
      /\ Start <= head /\ Len(log) = tail - Start /\ log \in Seq(Elem)
      /\ \A i \in 0..(R - 1) : cells[i].seq \in Nat
      /\ DOMAIN cells = 0..(R - 1)
  BY <1>1, Typing
<1>3. /\ head' = h /\ tail' = t /\ cells' = cells /\ head <= h /\ tail <= t /\ Window(h, t)
      /\ t - tail <= Len(call[p].es)
      /\ log' = log \o SubSeq(call[p].es, 1, t - tail)
  BY DEF Claims
<1>4. call[p].es \in Seq(Elem)
  BY <1>1, Locals
<1>5. \A n \in 1..Len(log) : log'[n] = log[n]
  BY <1>2, <1>3, <1>4, LogKept
<1>6. ASSUME NEW i \in 0..(R - 1) PROVE Shape(i)'
  <2>1. /\ cells[i].seq >= Start /\ cells[i].seq \in Nat
        /\ Empty(i) \/ Holds(i)
    BY <1>1, <1>2 DEF Shape
  <2>2. t - cells[i].seq < Half
    BY <1>2, <1>3, Zenon DEF Window
  <2>3. CASE Empty(i)
    <3>1. Empty(i)'
      BY <1>2, <1>3, <2>1, <2>3 DEF Empty
    <3> QED BY <1>3, <2>1, <2>2, <3>1 DEF Shape
  <2>4. CASE Holds(i)
    <3>1. cells[i].seq - Start \in 1..Len(log)
      BY <1>2, <2>1, <2>4, SMTT(30) DEF Holds
    <3>2. log'[cells[i].seq - Start] = log[cells[i].seq - Start]
      BY <1>5, <3>1
    <3>3. cells[i].seq - 1 \in Start..(t - 1)
      <4>1. cells[i].seq - 1 \in Start..(tail - 1)
        BY <2>4, Zenon DEF Holds
      <4> QED BY <1>2, <1>3, <2>1, <4>1, SMTT(30)
    <3>4. Holds(i)'
      BY <1>3, <2>4, <3>2, <3>3, Zenon DEF Holds
    <3> QED BY <1>3, <2>1, <2>2, <3>4, SMTT(30) DEF Shape
  <2> QED BY <2>1, <2>3, <2>4
<1> QED BY <1>6

\* Filling a cell leaves it with the element of its ticket.
LEMMA FillShape ==
  ASSUME RingInv, NEW p \in Threads, FillEnd(p)
  PROVE  \A i \in 0..(R - 1) : Shape(i)'
<1>1. IInv /\ TicketInv /\ (\A i \in 0..(R - 1) : Shape(i)) /\ Behind(p) /\ Payload(p)
  BY DEF RingInv, CellInv, PayloadInv
<1>2. /\ head \in Nat /\ tail \in Nat /\ Start \in Nat /\ R \in Nat
      /\ \A i \in 0..(R - 1) : cells[i].seq \in Nat
  BY <1>1, Typing
<1>3. /\ pc[p] = "construct" /\ UNCHANGED <<head, tail, log, call>>
      /\ reg[p].t \in ToFill(p)
      /\ cells' = [cells EXCEPT ![Cell(reg[p].t)] =
                     [seq |-> reg[p].t + 1, elem |-> call[p].es[reg[p].j + 1]]]
  BY <1>1, FillSteps
<1>4. /\ reg[p].t \in Nat /\ Start <= reg[p].t /\ reg[p].t < tail /\ Cell(reg[p].t) \in 0..(R - 1)
  BY <1>1, <1>3, HeldType, SMTT(30)
<1>5. /\ cells'[Cell(reg[p].t)].seq = reg[p].t + 1
      /\ cells'[Cell(reg[p].t)].elem = call[p].es[reg[p].j + 1]
      /\ \A i \in 0..(R - 1) : i # Cell(reg[p].t) => cells'[i] = cells[i]
  <2>1. DOMAIN cells = 0..(R - 1)
    BY <1>1, Typing
  <2> QED BY <1>3, <1>4, <2>1
<1>6. ASSUME NEW i \in 0..(R - 1) PROVE Shape(i)'
  <2>1. CASE i # Cell(reg[p].t)
    BY <1>1, <1>3, <1>5, <2>1, Zenon DEF Shape, Empty, Holds
  <2>2. CASE i = Cell(reg[p].t)
    <3>1. cells[i].seq = reg[p].t /\ tail - cells[i].seq < Half
      BY <1>1, <1>3, <2>2, Zenon DEF Shape, Behind
    <3>2. log[reg[p].t - Start + 1] = call[p].es[reg[p].j + 1 + (reg[p].t - reg[p].t)]
      BY <1>1, <1>3, Zenon DEF Payload
    <3>3. reg[p].j \in Nat
      BY <1>1, Locals
    <3>4. reg[p].j + 1 + (reg[p].t - reg[p].t) = reg[p].j + 1
      BY <1>4, <3>3
    <3>5. (reg[p].t + 1) - Start = reg[p].t - Start + 1 /\ (reg[p].t + 1) - 1 = reg[p].t
      BY <1>2, <1>4, SMTT(30)
    <3>6. cells'[i].elem = log'[cells'[i].seq - Start]
      BY <1>3, <1>5, <2>2, <3>2, <3>4, <3>5, Zenon
    <3>7. Cell(cells'[i].seq - 1) = i /\ cells'[i].seq - 1 \in Start..(tail' - 1)
      <4>1. cells'[i].seq - 1 = reg[p].t
        BY <1>5, <2>2, <3>5, Zenon
      <4>2. reg[p].t \in Start..(tail - 1)
        BY <1>2, <1>4
      <4> QED BY <1>3, <2>2, <4>1, <4>2, Zenon
    <3>8. Holds(i)'
      BY <3>6, <3>7, SMTT(30) DEF Holds
    <3>9. cells'[i].seq >= Start /\ tail' - cells'[i].seq < Half
      <4>1. tail - reg[p].t < Half
        BY <3>1, Zenon
      <4>2. reg[p].t + 1 >= Start /\ tail - (reg[p].t + 1) < Half
        BY <1>2, <1>4, <4>1, HalfBound
      <4> QED BY <1>3, <1>5, <2>2, <4>2, Zenon
    <3> QED BY <3>8, <3>9, Zenon DEF Shape
  <2> QED BY <2>1, <2>2, SMTT(30)
<1> QED BY <1>6

\* Taking from a cell leaves it empty for the ticket a lap later.
LEMMA TakeShape ==
  ASSUME RingInv, NEW p \in Threads, TakeEnd(p)
  PROVE  \A i \in 0..(R - 1) : Shape(i)'
<1>1. IInv /\ TicketInv /\ (\A i \in 0..(R - 1) : Shape(i)) /\ Behind(p)
  BY DEF RingInv, CellInv
<1>2. /\ head \in Nat /\ tail \in Nat /\ Start \in Nat /\ R \in Nat /\ R >= 2
      /\ \A i \in 0..(R - 1) : cells[i].seq \in Nat
  BY <1>1, Typing, SMTT(30)
<1>3. /\ pc[p] = "move" /\ UNCHANGED <<head, tail, log, call>>
      /\ reg[p].h \in ToTake(p)
      /\ cells' = [cells EXCEPT ![Cell(reg[p].h)] = [seq |-> reg[p].h + R, elem |-> NoElem]]
  BY <1>1, TakeSteps, Zenon
<1>4. /\ reg[p].h \in Nat /\ Start <= reg[p].h /\ reg[p].h < head /\ Cell(reg[p].h) \in 0..(R - 1)
  BY <1>1, <1>3, HeldType
<1>5. /\ cells'[Cell(reg[p].h)].seq = reg[p].h + R
      /\ cells'[Cell(reg[p].h)].elem = NoElem
      /\ \A i \in 0..(R - 1) : i # Cell(reg[p].h) => cells'[i] = cells[i]
  <2>1. DOMAIN cells = 0..(R - 1)
    BY <1>1, Typing
  <2> QED BY <1>3, <1>4, <2>1
<1>6. ASSUME NEW i \in 0..(R - 1) PROVE Shape(i)'
  <2>1. CASE i # Cell(reg[p].h)
    BY <1>1, <1>3, <1>5, <2>1, Zenon DEF Shape, Empty, Holds
  <2>2. CASE i = Cell(reg[p].h)
    <3>1. cells[i].seq = reg[p].h + 1 /\ tail - cells[i].seq < Half
      BY <1>1, <1>3, <2>2, Zenon DEF Shape, Behind
    <3>2. Cell(reg[p].h + R) = Cell(reg[p].h)
      BY <1>4, CellAgain
    <3>3. (reg[p].h + R) - R < head'
      BY <1>2, <1>3, <1>4, SMTT(30)
    <3>4. Empty(i)'
      BY <1>5, <2>2, <3>2, <3>3, SMTT(30) DEF Empty
    <3>5. cells'[i].seq >= Start /\ tail' - cells'[i].seq < Half
      BY <1>2, <1>3, <1>4, <1>5, <2>2, <3>1, HalfBound, SMTT(30)
    <3> QED BY <3>4, <3>5, SMTT(30) DEF Shape
  <2> QED BY <2>1, <2>2, SMTT(30)
<1> QED BY <1>6

\* Every step keeps the shape of every cell.
LEMMA ShapeStep ==
  ASSUME RingInv, NEW p \in Threads, Calls(p) \/ Step(p)
  PROVE  \A i \in 0..(R - 1) : Shape(i)'
<1>1. IInv /\ \A i \in 0..(R - 1) : Shape(i)
  BY DEF RingInv, CellInv
<1>2. CASE Idles(p) \/ Waited(p)
  <2>1. UNCHANGED <<head, tail, log, cells>>
    BY <1>1, <1>2, IdleSteps, WaitSteps, Zenon DEF Waited
  <2> QED BY <1>1, <2>1, SMTT(30) DEF Shape, Empty, Holds
<1>3. CASE TakesTickets(p)
  BY <1>1, <1>3, TicketsTaken, ClaimsShape, SMTT(30)
<1> QED BY <1>2, <1>3, FillShape, TakeShape, StepKinds, Zenon

\* The threads' places at their cells.
LEMMA ClaimsBehind ==
  ASSUME RingInv, NEW p \in Threads, NEW h \in Nat, NEW t \in Nat, Claims(p, h, t)
  PROVE  Behind(p)'
<1>1. IInv /\ \A i \in 0..(R - 1) : Shape(i)
  BY DEF RingInv, CellInv
<1>2. /\ head \in Nat /\ tail \in Nat /\ Start \in Nat /\ R \in Nat /\ head <= tail
      /\ Cap \in Nat /\ Cap <= R /\ tail - head <= Cap
      /\ \A i \in 0..(R - 1) : cells[i].seq \in Nat
  BY <1>1, Typing, Zenon
<1>3. /\ cells' = cells /\ pc'[p] # "construct" /\ pc'[p] # "move"
      /\ ToFill(p)' = tail..(t - 1) /\ ToTake(p)' = head..(h - 1)
      /\ h <= tail /\ tail <= t
  BY Zenon DEF Claims
<1>4. ASSUME NEW u \in ToFill(p)' PROVE cells'[Cell(u)].seq <= u
  <2>1. u \in Nat /\ u \in Int /\ tail <= u
    BY <1>2, <1>3, <1>4
  <2> DEFINE i == Cell(u)
             s == cells[i].seq
  <2>2. i \in 0..(R - 1)
    BY <2>1, CellRange
  <2>3. s \in Nat /\ (Empty(i) \/ Holds(i))
    BY <1>1, <1>2, <2>2 DEF Shape
  <2>4. CASE Holds(i)
    <3>1. s - 1 \in Start..(tail - 1)
      BY <2>4 DEF Holds
    <3> HIDE DEF i, s
    <3>2. s <= u
      BY <1>2, <2>1, <2>3, <3>1, SMTT(30)
    <3> QED BY <1>3, <3>2 DEF i, s
  <2>5. CASE Empty(i)
    <3>1. Cell(s) = Cell(u) /\ s - R < head
      BY <2>5 DEF Empty
    <3> HIDE DEF i, s
    <3>2. u < s => s - u >= R
      BY <2>1, <2>3, <3>1, LapApart, SMTT(30)
    <3>3. s <= u
      BY <1>2, <2>1, <2>3, <3>1, <3>2, SMTT(30)
    <3> QED BY <1>3, <3>3 DEF i, s
  <2> QED BY <2>3, <2>4, <2>5, Zenon
<1>5. ASSUME NEW u \in ToTake(p)' PROVE cells'[Cell(u)].seq <= u + 1
  <2>1. u \in Nat /\ u \in Int /\ head <= u
    BY <1>2, <1>3, <1>5, SMTT(30)
  <2> DEFINE i == Cell(u)
             s == cells[i].seq
  <2>2. i \in 0..(R - 1)
    BY <2>1, CellRange
  <2>3. s \in Nat /\ (Empty(i) \/ Holds(i))
    BY <1>1, <1>2, <2>2 DEF Shape
  <2>4. CASE Holds(i)
    <3>1. s - 1 \in Start..(tail - 1) /\ Cell(s - 1) = Cell(u)
      BY <2>4 DEF Holds
    <3> HIDE DEF i, s
    <3>2. u < s - 1 => (s - 1) - u >= R
      BY <2>1, <2>3, <3>1, LapApart, SMTT(30)
    <3>3. s <= u + 1
      BY <1>2, <2>1, <2>3, <3>1, <3>2, SMTT(30)
    <3> QED BY <1>3, <3>3 DEF i, s
  <2>5. CASE Empty(i)
    <3>1. Cell(s) = Cell(u) /\ s - R < head
      BY <2>5 DEF Empty
    <3> HIDE DEF i, s
    <3>2. u < s => s - u >= R
      BY <2>1, <2>3, <3>1, LapApart, SMTT(30)
    <3>3. s <= u + 1
      BY <1>2, <2>1, <2>3, <3>1, <3>2, SMTT(30)
    <3> QED BY <1>3, <3>3 DEF i, s
  <2> QED BY <2>3, <2>4, <2>5, SMTT(30)
<1> QED BY <1>3, <1>4, <1>5, SMTT(30) DEF Behind

\* Filling a cell moves it past no ticket that waits for it.
LEMMA FillBehind ==
  ASSUME RingInv, NEW p \in Threads, FillEnd(p), NEW q \in Threads
  PROVE  Behind(q)'
<1>1. /\ IInv /\ TicketInv /\ Behind(p) /\ Behind(q)
  BY DEF RingInv, CellInv
<1>2. /\ R \in Nat /\ \A i \in 0..(R - 1) : cells[i].seq \in Nat
  BY <1>1, Typing, SMTT(30)
<1> DEFINE t == reg[p].t
           c == Cell(t)
<1>3. /\ pc[p] = "construct" /\ pc'[p] \in {"fill", "done"}
      /\ t \in ToFill(p) /\ ToFill(p)' = ToFill(p) \ {t} /\ ToTake(p)' = {}
      /\ cells' = [cells EXCEPT ![c] =
                     [seq |-> t + 1, elem |-> call[p].es[reg[p].j + 1]]]
  BY <1>1, FillSteps, Zenon
<1>4. t \in Nat /\ t \in Int /\ c \in 0..(R - 1)
  BY <1>1, <1>3, HeldType, SMTT(30)
<1>5. /\ cells'[c].seq = t + 1
      /\ \A i \in 0..(R - 1) : i # c => cells'[i] = cells[i]
  <2>1. DOMAIN cells = 0..(R - 1)
    BY <1>1, Typing, SMTT(30)
  <2> HIDE DEF c
  <2> QED BY <1>3, <1>4, <2>1, Zenon
<1>6. cells[c].seq = t
  BY <1>1, <1>3, Zenon DEF Behind
<1>7. /\ ToFill(q)' \subseteq ToFill(q) /\ ToTake(q)' \subseteq ToTake(q) /\ t \notin ToFill(q)'
      /\ q # p => pc'[q] = pc[q] /\ reg'[q] = reg[q] /\ t \notin ToFill(q)
      /\ q = p => pc'[q] \notin {"construct", "move"}
  <2>1. CASE q = p
    BY <1>3, <2>1, Zenon
  <2>2. CASE q # p
    <3>1. pc'[q] = pc[q] /\ reg'[q] = reg[q]
      BY <1>1, <2>2, StepFrame, Zenon DEF Step, CellStep
    <3>2. ToFill(q)' = ToFill(q) /\ ToTake(q)' = ToTake(q)
      BY <1>1, <2>2, HeldFrame, ZenonT(30) DEF Step, CellStep
    <3>3. t \notin ToFill(q)
      BY <1>1, <1>3, <2>2, Zenon DEF TicketInv
    <3> QED BY <2>2, <3>1, <3>2, <3>3
  <2> QED BY <2>1, <2>2, Zenon
<1>8. \A i \in 0..(R - 1) : i # c => cells'[i].seq = cells[i].seq
  BY <1>5
<1> HIDE DEF t, c
<1>9. ASSUME NEW u \in ToFill(q)' PROVE cells'[Cell(u)].seq <= u
  <2>1. u \in ToFill(q) /\ u # t
    BY <1>7, <1>9, SMTT(30)
  <2>2. u \in Nat /\ Cell(u) \in 0..(R - 1) /\ cells[Cell(u)].seq <= u
    BY <1>1, <2>1, HeldType, Zenon DEF Behind
  <2>3. CASE Cell(u) = c
    BY <1>4, <1>5, <1>6, <2>1, <2>2, <2>3, SMTT(30)
  <2>4. CASE Cell(u) # c
    BY <1>8, <2>2, <2>4
  <2> QED BY <2>3, <2>4
<1>10. ASSUME NEW u \in ToTake(q)' PROVE cells'[Cell(u)].seq <= u + 1
  <2>1. u \in ToTake(q)
    BY <1>7, <1>10, SMTT(30)
  <2>2. u \in Nat /\ Cell(u) \in 0..(R - 1) /\ cells[Cell(u)].seq <= u + 1
    BY <1>1, <2>1, HeldType, Zenon DEF Behind
  <2>3. CASE Cell(u) = c
    <3>1. Cell(t) = Cell(u) /\ Cell(u) # Cell(u + 1)
      BY <2>2, <2>3, NextCell DEF c
    <3>2. t # u + 1
      BY <3>1
    <3> QED BY <1>4, <1>5, <1>6, <2>2, <2>3, <3>2, SMTT(30)
  <2>4. CASE Cell(u) # c
    BY <1>8, <2>2, <2>4
  <2> QED BY <2>3, <2>4
<1>11. ASSUME pc'[q] = "construct" PROVE cells'[Cell(reg'[q].t)].seq = reg'[q].t
  <2>1. q # p /\ pc[q] = "construct" /\ reg'[q] = reg[q] /\ t \notin ToFill(q)
    BY <1>7, <1>11, SMTT(30)
  <2>2. cells[Cell(reg[q].t)].seq = reg[q].t
    BY <1>1, <2>1, Zenon DEF Behind
  <2>3. reg[q].t \in ToFill(q)
    <3>1. reg[q].j < reg[q].k
      BY <1>1, <2>1, Zenon DEF IInv, ControlInv, Control
    <3>2. ToFill(q) = reg[q].t..(reg[q].t + (reg[q].k - reg[q].j) - 1)
      BY <2>1, Zenon DEF ToFill
    <3>3. reg[q].t \in Nat /\ reg[q].k \in Nat /\ reg[q].j \in Nat
      BY <1>1, Locals, Zenon
    <3> QED BY <3>1, <3>2, <3>3, SMTT(30)
  <2>4. reg[q].t \in Nat /\ Cell(reg[q].t) \in 0..(R - 1)
    BY <1>1, <2>3, HeldType
  <2>5. Cell(reg[q].t) # c
    BY <1>6, <2>1, <2>2, <2>3
  <2> QED BY <1>8, <2>1, <2>2, <2>4, <2>5, SMTT(30)
<1>12. ASSUME pc'[q] = "move" PROVE cells'[Cell(reg'[q].h)].seq = reg'[q].h + 1
  <2>1. q # p /\ pc[q] = "move" /\ reg'[q] = reg[q]
    BY <1>7, <1>12
  <2>2. cells[Cell(reg[q].h)].seq = reg[q].h + 1
    BY <1>1, <2>1, Zenon DEF Behind
  <2>3. reg[q].h \in Nat
    BY <1>1, Locals
  <2>4. Cell(reg[q].h) \in 0..(R - 1) /\ Cell(reg[q].h) # Cell(reg[q].h + 1)
    BY <2>3, CellRange, NextCell
  <2>5. Cell(reg[q].h) # c
    BY <1>6, <2>2, <2>4, Zenon DEF c
  <2> QED BY <1>8, <2>1, <2>2, <2>4, <2>5, SMTT(30)
<1> QED BY <1>9, <1>10, <1>11, <1>12, Zenon DEF Behind

\* A thread works on the first of its tickets.
LEMMA WorksAtFirst ==
  ASSUME IInv, NEW p \in Threads
  PROVE  /\ pc[p] \in {"fill", "construct"} => reg[p].t \in ToFill(p)
         /\ pc[p] \in {"take", "move"} => reg[p].h \in ToTake(p)
<1>1. /\ reg[p].h \in Nat /\ reg[p].t \in Nat /\ reg[p].k \in Nat /\ reg[p].j \in Nat
  BY Locals
<1>2. Control(p)
  BY DEF IInv, ControlInv
<1>3. CASE pc[p] \in {"fill", "construct"}
  <2>1. reg[p].j < reg[p].k
    BY <1>2, <1>3, Zenon DEF Control
  <2>2. ToFill(p) = reg[p].t..(reg[p].t + (reg[p].k - reg[p].j) - 1)
    BY <1>3 DEF ToFill
  <2>3. reg[p].t \in ToFill(p)
    BY <1>1, <2>1, <2>2
  <2> QED BY <1>3, <2>3
<1>4. CASE pc[p] \in {"take", "move"}
  <2>1. reg[p].j < reg[p].k
    BY <1>2, <1>4, Zenon DEF Control
  <2>2. ToTake(p) = reg[p].h..(reg[p].h + (reg[p].k - reg[p].j) - 1)
    BY <1>4 DEF ToTake
  <2>3. reg[p].h \in ToTake(p)
    BY <1>1, <2>1, <2>2, SMTT(30)
  <2> QED BY <1>4, <2>3, SMTT(30)
<1> QED BY <1>3, <1>4

\* Emptying a cell moves it past no ticket that waits for it.
LEMMA TakeBehind ==
  ASSUME RingInv, NEW p \in Threads, TakeEnd(p), NEW q \in Threads
  PROVE  Behind(q)'
<1>1. /\ IInv /\ TicketInv /\ Behind(p) /\ Behind(q)
  BY DEF RingInv, CellInv
<1>2. /\ R \in Nat /\ R >= 2 /\ \A i \in 0..(R - 1) : cells[i].seq \in Nat
  BY <1>1, Typing, Zenon
<1> DEFINE h == reg[p].h
           c == Cell(h)
<1>3. /\ pc[p] = "move" /\ pc'[p] \notin {"construct", "move"}
      /\ h \in ToTake(p) /\ ToTake(p)' = ToTake(p) \ {h} /\ ToFill(p)' = ToFill(p)
      /\ cells' = [cells EXCEPT ![c] = [seq |-> h + R, elem |-> NoElem]]
  BY <1>1, TakeSteps, Zenon
<1>4. h \in Nat /\ h \in Int /\ c \in 0..(R - 1)
  BY <1>1, <1>3, HeldType, SMTT(30)
<1>5. /\ cells'[c].seq = h + R
      /\ \A i \in 0..(R - 1) : i # c => cells'[i] = cells[i]
  <2>1. DOMAIN cells = 0..(R - 1)
    BY <1>1, Typing
  <2> HIDE DEF c
  <2> QED BY <1>3, <1>4, <2>1, Zenon
<1>6. cells[c].seq = h + 1
  BY <1>1, <1>3, Zenon DEF Behind
<1>7. /\ ToFill(q)' = ToFill(q) /\ ToTake(q)' \subseteq ToTake(q) /\ h \notin ToTake(q)'
      /\ q # p => pc'[q] = pc[q] /\ reg'[q] = reg[q] /\ h \notin ToTake(q)
      /\ q = p => pc'[q] \notin {"construct", "move"}
  <2>1. CASE q = p
    BY <1>3, <2>1, Zenon
  <2>2. CASE q # p
    <3>1. pc'[q] = pc[q] /\ reg'[q] = reg[q]
      BY <1>1, <2>2, StepFrame, Zenon DEF Step, CellStep
    <3>2. ToFill(q)' = ToFill(q) /\ ToTake(q)' = ToTake(q)
      BY <1>1, <2>2, HeldFrame, Zenon DEF Step, CellStep
    <3>3. h \notin ToTake(q)
      BY <1>1, <1>3, <2>2, Zenon DEF TicketInv
    <3> QED BY <2>2, <3>1, <3>2, <3>3, Zenon
  <2> QED BY <2>1, <2>2, Zenon
<1>8. \A i \in 0..(R - 1) : i # c => cells'[i].seq = cells[i].seq
  BY <1>5
<1> HIDE DEF h, c
<1>9. ASSUME NEW u \in ToFill(q)' PROVE cells'[Cell(u)].seq <= u
  <2>1. u \in ToFill(q)
    BY <1>7, <1>9, SMTT(30)
  <2>2. u \in Nat /\ Cell(u) \in 0..(R - 1) /\ cells[Cell(u)].seq <= u
    BY <1>1, <2>1, HeldType, Zenon DEF Behind
  <2>3. CASE Cell(u) = c
    <3>1. Cell(h) = Cell(u) /\ h < u
      BY <1>4, <1>6, <2>2, <2>3, SMTT(30) DEF c
    <3>2. u - h >= R
      BY <1>4, <2>2, <3>1, LapApart, SMTT(30)
    <3> QED BY <1>2, <1>4, <1>5, <2>2, <2>3, <3>2, SMTT(30)
  <2>4. CASE Cell(u) # c
    BY <1>8, <2>2, <2>4
  <2> QED BY <2>3, <2>4
<1>10. ASSUME NEW u \in ToTake(q)' PROVE cells'[Cell(u)].seq <= u + 1
  <2>1. u \in ToTake(q) /\ u # h
    BY <1>7, <1>10, SMTT(30)
  <2>2. u \in Nat /\ Cell(u) \in 0..(R - 1) /\ cells[Cell(u)].seq <= u + 1
    BY <1>1, <2>1, HeldType, Zenon DEF Behind
  <2>3. CASE Cell(u) = c
    <3>1. Cell(h) = Cell(u) /\ h < u
      BY <1>4, <1>6, <2>1, <2>2, <2>3 DEF c
    <3>2. u - h >= R
      BY <1>4, <2>2, <3>1, LapApart, SMTT(30)
    <3> QED BY <1>2, <1>4, <1>5, <2>2, <2>3, <3>2, SMTT(30)
  <2>4. CASE Cell(u) # c
    BY <1>8, <2>2, <2>4
  <2> QED BY <2>3, <2>4
<1>11. ASSUME pc'[q] = "construct" PROVE cells'[Cell(reg'[q].t)].seq = reg'[q].t
  <2>1. q # p /\ pc[q] = "construct" /\ reg'[q] = reg[q]
    BY <1>7, <1>11, SMTT(30)
  <2>2. cells[Cell(reg[q].t)].seq = reg[q].t
    BY <1>1, <2>1, Zenon DEF Behind
  <2>3. reg[q].t \in Nat
    BY <1>1, Locals
  <2>4. Cell(reg[q].t) \in 0..(R - 1) /\ Cell(h) # Cell(h + 1)
    BY <1>4, <2>3, CellRange, NextCell
  <2>5. Cell(reg[q].t) # c
    BY <1>6, <2>2, <2>4 DEF c
  <2> QED BY <1>8, <2>1, <2>2, <2>4, <2>5, SMTT(30)
<1>12. ASSUME pc'[q] = "move" PROVE cells'[Cell(reg'[q].h)].seq = reg'[q].h + 1
  <2>1. q # p /\ pc[q] = "move" /\ reg'[q] = reg[q] /\ h \notin ToTake(q)
    BY <1>7, <1>12, SMTT(30)
  <2>2. cells[Cell(reg[q].h)].seq = reg[q].h + 1
    BY <1>1, <2>1, Zenon DEF Behind
  <2>3. reg[q].h \in ToTake(q)
    BY <1>1, <2>1, WorksAtFirst, SMTT(30)
  <2>4. reg[q].h \in Nat /\ Cell(reg[q].h) \in 0..(R - 1)
    BY <1>1, <2>3, HeldType, SMTT(30)
  <2>5. Cell(reg[q].h) # c
    BY <1>4, <1>6, <2>1, <2>2, <2>3, <2>4, SMTT(30)
  <2> QED BY <1>8, <2>1, <2>2, <2>4, <2>5, Zenon
<1> QED BY <1>9, <1>10, <1>11, <1>12 DEF Behind

\* Every step keeps each cell behind the tickets that wait for it.
LEMMA BehindStep ==
  ASSUME RingInv, NEW p \in Threads, Calls(p) \/ Step(p), NEW q \in Threads
  PROVE  Behind(q)'
<1>1. /\ IInv /\ TicketInv /\ CellInv /\ Behind(p) /\ Behind(q)
  BY DEF RingInv, CellInv
<1>2. q # p => /\ ToFill(q)' = ToFill(q) /\ ToTake(q)' = ToTake(q)
               /\ pc'[q] = pc[q] /\ reg'[q] = reg[q]
  BY <1>1, HeldFrame, StepFrame, ZenonT(30)
<1>3. cells' = cells /\ q # p => Behind(q)'
  BY <1>1, <1>2, Zenon DEF Behind
<1>4. CASE Idles(p)
  <2>1. /\ cells' = cells /\ ToFill(p)' = {} /\ ToTake(p)' = {}
        /\ pc'[p] # "construct" /\ pc'[p] # "move"
    BY <1>1, <1>4, IdleSteps, Zenon
  <2>2. q = p => Behind(q)'
    BY <2>1, Zenon DEF Behind
  <2> QED BY <1>3, <2>1, <2>2, SMTT(30)
<1>5. CASE Waited(p)
  <2>1. /\ cells' = cells /\ reg' = reg /\ ToFill(p)' = ToFill(p) /\ ToTake(p)' = ToTake(p)
    BY <1>1, <1>5, WaitSteps, Zenon DEF Waited
  <2>2. /\ pc'[p] = "construct" => cells[Cell(reg[p].t)].seq = reg[p].t
        /\ pc'[p] = "move" => cells[Cell(reg[p].h)].seq = reg[p].h + 1
    BY <1>1, <1>5, WaitedFor, Zenon
  <2>3. Behind(p)'
    BY <1>1, <2>1, <2>2, Zenon DEF Behind
  <2> QED BY <1>3, <2>1, <2>3, SMTT(30)
<1>6. CASE TakesTickets(p)
  <2>1. PICK h \in Nat, t \in Nat : Claims(p, h, t)
    BY <1>1, <1>6, TicketsTaken, SMTT(30)
  <2>2. cells' = cells /\ Behind(p)'
    BY <2>1, ClaimsBehind, Zenon DEF Claims
  <2> QED BY <1>3, <2>2
<1> QED BY <1>4, <1>5, <1>6, FillBehind, TakeBehind, StepKinds, ZenonT(30)

\* Sequence numbers only grow.
LEMMA SeqGrows ==
  ASSUME RingInv, NEW p \in Threads, Calls(p) \/ Step(p), NEW i \in 0..(R - 1)
  PROVE  cells'[i].seq >= cells[i].seq
<1>1. /\ IInv /\ TicketInv /\ Behind(p)
  BY DEF RingInv, CellInv
<1>2. /\ R \in Nat /\ R >= 2 /\ cells[i].seq \in Nat /\ DOMAIN cells = 0..(R - 1)
  BY <1>1, Typing
<1>3. CASE Idles(p) \/ Waited(p) \/ TakesTickets(p)
  <2>1. cells' = cells
    BY <1>1, <1>3, IdleSteps, WaitSteps, TicketStep, Zenon DEF Waited
  <2> QED BY <1>2, <2>1, SMTT(30)
<1>4. CASE FillEnd(p)
  <2> DEFINE t == reg[p].t
             c == Cell(t)
  <2>1. /\ pc[p] = "construct" /\ t \in ToFill(p)
        /\ cells' = [cells EXCEPT ![c] = [seq |-> t + 1, elem |-> call[p].es[reg[p].j + 1]]]
    BY <1>1, <1>4, FillSteps, Zenon
  <2>2. t \in Nat /\ c \in 0..(R - 1)
    BY <1>1, <2>1, HeldType, Zenon
  <2>3. cells[c].seq = t
    BY <1>1, <2>1, Zenon DEF Behind
  <2> HIDE DEF t, c
  <2> QED BY <1>2, <2>1, <2>2, <2>3, SMTT(30)
<1>5. CASE TakeEnd(p)
  <2> DEFINE h == reg[p].h
             c == Cell(h)
  <2>1. /\ pc[p] = "move" /\ h \in ToTake(p)
        /\ cells' = [cells EXCEPT ![c] = [seq |-> h + R, elem |-> NoElem]]
    BY <1>1, <1>5, TakeSteps, Zenon
  <2>2. h \in Nat /\ c \in 0..(R - 1)
    BY <1>1, <2>1, HeldType, Zenon
  <2>3. cells[c].seq = h + 1
    BY <1>1, <2>1, Zenon DEF Behind
  <2> HIDE DEF h, c
  <2> QED BY <1>2, <2>1, <2>2, <2>3, SMTT(30)
<1> QED BY <1>3, <1>4, <1>5, StepKinds, Zenon

\* What has been filled or taken stays so, and what is newly so has a cell
\* past it.
LEMMA AheadStep ==
  ASSUME RingInv, IInv', NEW p \in Threads, Calls(p) \/ Step(p)
  PROVE  Ahead'
<1>1. /\ IInv /\ TicketInv /\ Ahead
  BY DEF RingInv, CellInv
<1>2. /\ head \in Nat /\ tail \in Nat /\ Start \in Nat /\ R \in Nat
      /\ DOMAIN cells = 0..(R - 1) /\ \A i \in 0..(R - 1) : cells[i].seq \in Nat
  BY <1>1, Typing, Zenon
<1>3. \A q \in Threads : q # p => ToFill(q)' = ToFill(q) /\ ToTake(q)' = ToTake(q)
  BY <1>1, HeldFrame, Zenon
<1>4. \A i \in 0..(R - 1) : cells'[i].seq >= cells[i].seq /\ cells'[i].seq \in Nat
  <2>1. \A i \in 0..(R - 1) : cells'[i].seq \in Nat
    BY SMTT(30) DEF IInv, TypeInv, Typed
  <2> QED BY <2>1, SeqGrows, Zenon
\* It is enough that every ticket newly filled or taken has its cell past it.
<1>5. ASSUME NEW u \in Nat, u \in Start..(tail' - 1), IsFilled(u)',
             (u \in Start..(tail - 1) /\ IsFilled(u)) \/ cells'[Cell(u)].seq >= u + 1
      PROVE  cells'[Cell(u)].seq >= u + 1
  <2>1. CASE u \in Start..(tail - 1) /\ IsFilled(u)
    <3>1. cells[Cell(u)].seq >= u + 1
      BY <1>1, <2>1, Zenon DEF Ahead
    <3>2. Cell(u) \in 0..(R - 1)
      BY CellRange
    <3> QED BY <1>2, <1>4, <3>1, <3>2, SMTT(30)
  <2> QED BY <1>5, <2>1
<1>6. ASSUME NEW u \in Nat, u \in Start..(head' - 1), IsTaken(u)',
             (u \in Start..(head - 1) /\ IsTaken(u)) \/ cells'[Cell(u)].seq >= u + R
      PROVE  cells'[Cell(u)].seq >= u + R
  <2>1. CASE u \in Start..(head - 1) /\ IsTaken(u)
    <3>1. cells[Cell(u)].seq >= u + R
      BY <1>1, <2>1, SMTT(30) DEF Ahead
    <3>2. Cell(u) \in 0..(R - 1)
      BY CellRange
    <3> QED BY <1>2, <1>4, <3>1, <3>2, SMTT(30)
  <2> QED BY <1>6, <2>1
<1>7. ASSUME NEW u \in Nat, u \in Start..(tail' - 1), IsFilled(u)'
      PROVE  (u \in Start..(tail - 1) /\ IsFilled(u)) \/ cells'[Cell(u)].seq >= u + 1
  <2>1. \A q \in Threads : u \notin ToFill(q)'
    BY <1>7, SMTT(30) DEF IsFilled
  <2>2. CASE Idles(p) \/ Waited(p) \/ TakeEnd(p)
    <3>1. tail' = tail /\ ToFill(p)' = ToFill(p)
      BY <1>1, <2>2, IdleSteps, WaitSteps, TakeSteps, ZenonT(30) DEF Waited
    <3>2. \A q \in Threads : u \notin ToFill(q)
      BY <1>3, <2>1, <3>1, SMTT(30)
    <3> QED BY <1>7, <3>1, <3>2, Zenon DEF IsFilled
  <2>3. CASE FillEnd(p)
    <3>1. /\ tail' = tail /\ ToFill(p)' = ToFill(p) \ {reg[p].t} /\ reg[p].t \in ToFill(p)
          /\ cells' = [cells EXCEPT ![Cell(reg[p].t)] =
                         [seq |-> reg[p].t + 1, elem |-> call[p].es[reg[p].j + 1]]]
      BY <1>1, <2>3, FillSteps, Zenon
    <3>2. CASE u = reg[p].t
      <4>1. Cell(u) \in 0..(R - 1)
        BY CellRange
      <4>2. cells'[Cell(u)].seq = u + 1
        BY <1>2, <3>1, <3>2, <4>1, Zenon
      <4> QED BY <4>2, SMTT(30)
    <3>3. CASE u # reg[p].t
      <4>1. \A q \in Threads : u \notin ToFill(q)
        BY <1>3, <2>1, <3>1, <3>3, Zenon
      <4> QED BY <1>7, <3>1, <4>1, Zenon DEF IsFilled
    <3> QED BY <3>2, <3>3, SMTT(30)
  <2>4. CASE TakesTickets(p)
    <3>1. PICK h \in Nat, t \in Nat : Claims(p, h, t)
      BY <1>1, <2>4, TicketsTaken, SMTT(30)
    <3>2. /\ tail' = t /\ ToFill(p)' = tail..(t - 1) /\ ToFill(p) = {}
      BY <3>1, Zenon DEF Claims
    <3>3. u \in Start..(tail - 1)
      <4>1. u \notin tail..(t - 1) /\ u \in Start..(t - 1)
        BY <1>7, <2>1, <3>2, ZenonT(30)
      <4> QED BY <1>2, <4>1
    <3>4. \A q \in Threads : u \notin ToFill(q)
      BY <1>3, <2>1, <3>2, SMTT(30)
    <3> QED BY <3>3, <3>4 DEF IsFilled
  <2> QED BY <2>2, <2>3, <2>4, StepKinds, Zenon
<1>8. ASSUME NEW u \in Nat, u \in Start..(head' - 1), IsTaken(u)'
      PROVE  (u \in Start..(head - 1) /\ IsTaken(u)) \/ cells'[Cell(u)].seq >= u + R
  <2>1. \A q \in Threads : u \notin ToTake(q)'
    BY <1>8 DEF IsTaken
  <2>2. CASE Idles(p) \/ Waited(p) \/ FillEnd(p)
    <3>1. head' = head /\ ToTake(p)' = ToTake(p)
      BY <1>1, <2>2, IdleSteps, WaitSteps, FillSteps, ZenonT(30) DEF Waited
    <3>2. \A q \in Threads : u \notin ToTake(q)
      BY <1>3, <2>1, <3>1, SMTT(30)
    <3> QED BY <1>8, <3>1, <3>2, SMTT(30) DEF IsTaken
  <2>3. CASE TakeEnd(p)
    <3>1. /\ head' = head /\ ToTake(p)' = ToTake(p) \ {reg[p].h} /\ reg[p].h \in ToTake(p)
          /\ cells' = [cells EXCEPT ![Cell(reg[p].h)] = [seq |-> reg[p].h + R, elem |-> NoElem]]
      BY <1>1, <2>3, TakeSteps, Zenon
    <3>2. CASE u = reg[p].h
      <4>1. Cell(u) \in 0..(R - 1)
        BY CellRange
      <4>2. cells'[Cell(u)].seq = u + R
        BY <1>2, <3>1, <3>2, <4>1, Zenon
      <4> QED BY <1>2, <4>2, SMTT(30)
    <3>3. CASE u # reg[p].h
      <4>1. \A q \in Threads : u \notin ToTake(q)
        BY <1>3, <2>1, <3>1, <3>3, Zenon
      <4> QED BY <1>8, <3>1, <4>1, Zenon DEF IsTaken
    <3> QED BY <3>2, <3>3, Zenon
  <2>4. CASE TakesTickets(p)
    <3>1. PICK h \in Nat, t \in Nat : Claims(p, h, t)
      BY <1>1, <2>4, TicketsTaken
    <3>2. /\ head' = h /\ ToTake(p)' = head..(h - 1) /\ ToTake(p) = {}
      BY <3>1, Zenon DEF Claims
    <3>3. u \in Start..(head - 1)
      <4>1. u \notin head..(h - 1) /\ u \in Start..(h - 1)
        BY <1>8, <2>1, <3>2, Zenon
      <4> QED BY <1>2, <4>1
    <3>4. \A q \in Threads : u \notin ToTake(q)
      BY <1>3, <2>1, <3>2, SMTT(30)
    <3> QED BY <3>3, <3>4, SMTT(30) DEF IsTaken
  <2> QED BY <2>2, <2>3, <2>4, StepKinds, ZenonT(30)
<1>9. \A u \in Start..(tail' - 1) : IsFilled(u)' => cells'[Cell(u)].seq >= u + 1
  <2>1. \A u \in Start..(tail' - 1) : u \in Nat
    BY <1>2, SMTT(30)
  <2> QED BY <1>5, <1>7, <2>1, Zenon
<1>10. \A u \in Start..(head' - 1) : IsTaken(u)' => cells'[Cell(u)].seq >= u + R
  <2>1. \A u \in Start..(head' - 1) : u \in Nat
    BY <1>2
  <2> QED BY <1>6, <1>8, <2>1, Zenon
<1> QED BY <1>9, <1>10, Zenon DEF Ahead

\* The log is only added to.
LEMMA LogAgrees ==
  ASSUME IInv, NEW p \in Threads, Calls(p) \/ Step(p)
  PROVE  \A n \in 1..(tail - Start) : log'[n] = log[n]
<1>1. log \in Seq(Elem) /\ Len(log) = tail - Start
  BY Typing, Zenon
<1>2. CASE Idles(p) \/ Waited(p) \/ FillEnd(p) \/ TakeEnd(p)
  BY <1>2, Keeps, SMTT(30)
<1>3. CASE TakesTickets(p)
  <2>1. PICK h \in Nat, t \in Nat : Claims(p, h, t)
    BY <1>3, TicketsTaken
  <2>2. /\ t - tail <= Len(call[p].es) /\ tail <= t
        /\ log' = log \o SubSeq(call[p].es, 1, t - tail)
    BY <2>1, Zenon DEF Claims
  <2>3. call[p].es \in Seq(Elem)
    BY Locals, ZenonT(30)
  <2>4. t - tail \in Nat
    BY <2>2, Typing
  <2>5. \A n \in 1..Len(log) : log'[n] = log[n]
    BY <1>1, <2>2, <2>3, <2>4, LogKept, Zenon
  <2> QED BY <1>1, <2>5
<1> QED BY <1>2, <1>3, StepKinds, Zenon

\* A step of one thread keeps the elements of the others.
LEMMA OthersPayload ==
  ASSUME RingInv, NEW p \in Threads, Calls(p) \/ Step(p), NEW q \in Threads, q # p
  PROVE  Payload(q)'
<1>1. IInv /\ TicketInv /\ Payload(q) /\ Control(q)
  BY DEF RingInv, PayloadInv, IInv, ControlInv
<1>2. /\ pc'[q] = pc[q] /\ reg'[q] = reg[q]
      /\ call'[q].op = call[q].op /\ call'[q].es = call[q].es
      /\ call[q].st # "pending" => call'[q] = call[q]
  BY <1>1, StepFrame, Zenon
<1>3. ToFill(q)' = ToFill(q) /\ ToTake(q)' = ToTake(q)
  BY <1>1, HeldFrame, ZenonT(30)
<1>4. /\ head \in Nat /\ tail \in Nat /\ Start \in Nat /\ head <= tail
  BY <1>1, Typing, Zenon
<1>5. ASSUME NEW u \in Nat, Start <= u, u < tail PROVE log'[u - Start + 1] = log[u - Start + 1]
  <2>1. u - Start + 1 \in 1..(tail - Start)
    BY <1>4, <1>5
  <2> QED BY <1>1, <2>1, LogAgrees
<1>6. \A u \in ToFill(q) : log'[u - Start + 1] = call[q].es[reg[q].j + 1 + (u - reg[q].t)]
  <2>1. ASSUME NEW u \in ToFill(q)
        PROVE  log'[u - Start + 1] = call[q].es[reg[q].j + 1 + (u - reg[q].t)]
    <3>1. u \in Nat /\ Start <= u /\ u < tail
      BY <1>1, HeldType, SMTT(30)
    <3>2. log[u - Start + 1] = call[q].es[reg[q].j + 1 + (u - reg[q].t)]
      BY <1>1, Zenon DEF Payload
    <3> QED BY <1>5, <3>1, <3>2, Zenon
  <2> QED BY <2>1, Zenon
<1>7. ASSUME call[q].op = "pop", pc[q] \in {"take", "move"}
      PROVE  /\ call'[q] = call[q]
             /\ \A u \in ToTake(q) : call[q].got[reg[q].j + 1 + (u - reg[q].h)] = log'[u - Start + 1]
  <2>1. call'[q] = call[q]
    BY <1>1, <1>2, <1>7, Zenon DEF Control
  <2>2. ASSUME NEW u \in ToTake(q)
        PROVE  call[q].got[reg[q].j + 1 + (u - reg[q].h)] = log'[u - Start + 1]
    <3>1. u \in Nat /\ Start <= u /\ u < tail
      BY <1>1, <1>4, HeldType, SMTT(30)
    <3>2. call[q].got[reg[q].j + 1 + (u - reg[q].h)] = log[u - Start + 1]
      BY <1>1, <1>7, Zenon DEF Payload
    <3> QED BY <1>5, <3>1, <3>2, Zenon
  <2> QED BY <2>1, <2>2, Zenon
<1>8. ASSUME call[q].op = "pop", pc[q] = "done" PROVE call'[q] = call[q]
  BY <1>1, <1>2, <1>8, ZenonT(30) DEF Control
<1>9. /\ \A u \in ToFill(q)' : log'[u - Start + 1] = call'[q].es[reg'[q].j + 1 + (u - reg'[q].t)]
  BY <1>2, <1>3, <1>6, Zenon
<1>10. call'[q].op = "pop" /\ pc'[q] \in {"take", "move"} =>
       /\ Len(call'[q].got) = reg'[q].k /\ Len(reg'[q].out) = reg'[q].j
       /\ \A i \in 1..reg'[q].j : reg'[q].out[i] = call'[q].got[i]
       /\ \A u \in ToTake(q)' : call'[q].got[reg'[q].j + 1 + (u - reg'[q].h)] = log'[u - Start + 1]
  BY <1>1, <1>2, <1>3, <1>7, ZenonT(30) DEF Payload
<1>11. call'[q].op = "pop" /\ pc'[q] = "done" => reg'[q].out = call'[q].got
  BY <1>1, <1>2, <1>8, Zenon DEF Payload
<1> QED BY <1>9, <1>10, <1>11, Zenon DEF Payload

\* A claim notes the elements of its tickets.
LEMMA ClaimsPayload ==
  ASSUME RingInv, NEW p \in Threads, NEW h \in Nat, NEW t \in Nat, Claims(p, h, t)
  PROVE  Payload(p)'
<1>1. IInv
  BY SMTT(30) DEF RingInv
<1>2. /\ head \in Nat /\ tail \in Nat /\ Start \in Nat /\ R \in Nat /\ head <= tail
      /\ Start <= head /\ Len(log) = tail - Start /\ log \in Seq(Elem)
  BY <1>1, Typing, Zenon
<1>3. call[p].es \in Seq(Elem)
  BY <1>1, Locals, Zenon
<1>4. /\ head <= h /\ h <= tail /\ tail <= t /\ t - tail <= Len(call[p].es)
      /\ log' = log \o SubSeq(call[p].es, 1, t - tail)
      /\ ToFill(p)' = tail..(t - 1) /\ ToTake(p)' = head..(h - 1)
      /\ pc'[p] # "done" /\ (t > tail => reg'[p].t = tail)
      /\ reg'[p].j = 0 /\ reg'[p].out = <<>>
      /\ call'[p].es = call[p].es /\ call'[p].op = call[p].op
  BY Zenon DEF Claims
<1>5. /\ \A n \in 1..Len(log) : log'[n] = log[n]
      /\ \A n \in 1..(t - tail) : log'[Len(log) + n] = call[p].es[n]
  <2>1. t - tail \in Nat
    BY <1>2, <1>4
  <2>2. /\ \A n \in 1..Len(log) : (log \o SubSeq(call[p].es, 1, t - tail))[n] = log[n]
        /\ \A n \in 1..(t - tail) :
             (log \o SubSeq(call[p].es, 1, t - tail))[Len(log) + n] = call[p].es[n]
    BY <1>2, <1>3, <1>4, <2>1, LogKept, ZenonT(30)
  <2> QED BY <1>4, <2>2, ZenonT(30)
<1>6. ASSUME NEW u \in ToFill(p)'
      PROVE  log'[u - Start + 1] = call'[p].es[reg'[p].j + 1 + (u - reg'[p].t)]
  <2>1. u \in Nat /\ tail <= u /\ u < t
    <3>1. u \in tail..(t - 1)
      BY <1>4, <1>6, Zenon
    <3> QED BY <1>2, <3>1
  <2>2. u - tail + 1 \in 1..(t - tail) /\ reg'[p].t = tail
    <3>1. t > tail /\ u - tail + 1 \in 1..(t - tail)
      BY <1>2, <2>1
    <3> QED BY <1>4, <3>1, Zenon
  <2>3. log'[Len(log) + (u - tail + 1)] = call[p].es[u - tail + 1]
    BY <1>5, <2>2, Zenon
  <2>4. Len(log) + (u - tail + 1) = u - Start + 1 /\ 0 + 1 + (u - tail) = u - tail + 1
    BY <1>2, <2>1
  <2> QED BY <1>4, <2>2, <2>3, <2>4, Zenon
<1>7. ASSUME call[p].op = "pop"
      PROVE  /\ Len(call'[p].got) = reg'[p].k /\ Len(reg'[p].out) = reg'[p].j
             /\ \A i \in 1..reg'[p].j : reg'[p].out[i] = call'[p].got[i]
             /\ \A u \in ToTake(p)' :
                  call'[p].got[reg'[p].j + 1 + (u - reg'[p].h)] = log'[u - Start + 1]
  <2>1. call'[p].got = Between(head, h) /\ h > head /\ reg'[p].h = head /\ reg'[p].k = h - head
    BY <1>7, Zenon DEF Claims
  <2>2. Len(Between(head, h)) = h - head
    BY <1>2, <1>4, BetweenType, SMTT(30)
  <2>3. ASSUME NEW u \in ToTake(p)'
        PROVE  call'[p].got[reg'[p].j + 1 + (u - reg'[p].h)] = log'[u - Start + 1]
    <3>1. u \in Nat /\ head <= u /\ u < h
      <4>1. u \in head..(h - 1)
        BY <1>4, <2>3, Zenon
      <4> QED BY <1>2, <4>1
    <3>2. 0 + 1 + (u - head) \in 1..(h - head) /\ head - Start + (0 + 1 + (u - head)) = u - Start + 1
          /\ u - Start + 1 \in 1..Len(log)
      BY <1>2, <1>4, <3>1, SMTT(30)
    <3>3. Between(head, h)[0 + 1 + (u - head)] = log[u - Start + 1]
      BY <3>2, SMTT(30) DEF Between
    <3>4. log'[u - Start + 1] = log[u - Start + 1]
      BY <1>5, <3>2, Zenon
    <3> QED BY <1>4, <2>1, <3>3, <3>4, Zenon
  <2>4. Len(reg'[p].out) = 0
    BY <1>4, Zenon
  <2>5. \A i \in 1..reg'[p].j : reg'[p].out[i] = call'[p].got[i]
    BY <1>4
  <2>6. Len(call'[p].got) = reg'[p].k
    BY <2>1, <2>2, Zenon
  <2>7. Len(reg'[p].out) = reg'[p].j
    BY <1>4, <2>4, ZenonT(30)
  <2> QED BY <2>3, <2>5, <2>6, <2>7, ZenonT(30)
<1> QED BY <1>4, <1>6, <1>7, Zenon DEF Payload

\* A fill keeps the elements still to be filled.
LEMMA FillPayload ==
  ASSUME RingInv, NEW p \in Threads, FillEnd(p)
  PROVE  Payload(p)'
<1>1. IInv /\ TicketInv /\ Payload(p)
  BY SMTT(30) DEF RingInv, PayloadInv
<1>2. /\ call' = call /\ log' = log /\ call[p].op # "pop"
      /\ ToFill(p)' = ToFill(p) \ {reg[p].t}
      /\ reg'[p].t = reg[p].t + 1 /\ reg'[p].j = reg[p].j + 1
  BY <1>1, FillSteps, ZenonT(30)
<1>3. reg[p].t \in Nat /\ reg[p].j \in Nat
  BY <1>1, Locals, Zenon
<1>4. ASSUME NEW u \in ToFill(p)'
      PROVE  log'[u - Start + 1] = call'[p].es[reg'[p].j + 1 + (u - reg'[p].t)]
  <2>1. u \in ToFill(p)
    BY <1>2, <1>4, Zenon
  <2>2. u \in Nat
    BY <1>1, <2>1, HeldType, SMTT(30)
  <2>3. log[u - Start + 1] = call[p].es[reg[p].j + 1 + (u - reg[p].t)]
    BY <1>1, <2>1, Zenon DEF Payload
  <2>4. (reg[p].j + 1) + 1 + (u - (reg[p].t + 1)) = reg[p].j + 1 + (u - reg[p].t)
    BY <1>3, <2>2, SMTT(30)
  <2> QED BY <1>2, <2>3, <2>4, Zenon
<1> QED BY <1>2, <1>4, Zenon DEF Payload

\* What a pop moves out of the cell is the element of its ticket.
LEMMA MovesOut ==
  ASSUME RingInv, NEW p \in Threads, pc[p] = "move"
  PROVE  cells[Cell(reg[p].h)].elem = log[reg[p].h - Start + 1]
<1>1. IInv /\ TicketInv /\ Behind(p) /\ \A i \in 0..(R - 1) : Shape(i)
  BY DEF RingInv, CellInv
<1>2. reg[p].h \in ToTake(p)
  BY <1>1, WorksAtFirst, Zenon
<1>3. reg[p].h \in Nat /\ Cell(reg[p].h) \in 0..(R - 1)
  BY <1>1, <1>2, HeldType, Zenon
<1>4. cells[Cell(reg[p].h)].seq = reg[p].h + 1
  BY <1>1, Zenon DEF Behind
<1>5. Cell(reg[p].h) # Cell(reg[p].h + 1)
  BY <1>3, NextCell, SMTT(30)
<1>6. Holds(Cell(reg[p].h))
  BY <1>1, <1>3, <1>4, <1>5, Zenon DEF Shape, Empty
<1>7. (reg[p].h + 1) - Start = reg[p].h - Start + 1
  BY <1>3, CapAssumption
<1> QED BY <1>4, <1>6, <1>7, Zenon DEF Holds

\* A take hands out the element of its ticket.
LEMMA TakePayload ==
  ASSUME RingInv, NEW p \in Threads, TakeEnd(p)
  PROVE  Payload(p)'
<1>1. IInv /\ TicketInv /\ Payload(p)
  BY DEF RingInv, PayloadInv
<1>2. /\ pc[p] = "move" /\ call' = call /\ log' = log
      /\ reg[p].h \in ToTake(p) /\ ToTake(p)' = ToTake(p) \ {reg[p].h}
      /\ ToFill(p)' = ToFill(p)
  BY <1>1, TakeSteps, ZenonT(30)
<1>3. /\ reg[p].h \in Nat /\ reg[p].j \in Nat /\ reg[p].k \in Nat
      /\ reg[p].out \in Seq(Elem \cup {NoElem}) /\ call[p].got \in Seq(Elem)
  BY <1>1, Locals, Zenon
<1>3a. reg[p].h \in Nat /\ reg[p].h \in Int /\ reg[p].j \in Nat
  BY <1>3, SMTT(30)
<1>4. CASE call[p].op = "overrun" /\ pc'[p] = "count" /\ reg' = reg
  BY <1>1, <1>2, <1>4, Zenon DEF Payload
<1>5. CASE /\ call[p].op = "pop"
           /\ reg'[p].h = reg[p].h + 1 /\ reg'[p].j = reg[p].j + 1 /\ reg'[p].k = reg[p].k
           /\ reg'[p].out = Append(reg[p].out, cells[Cell(reg[p].h)].elem)
           /\ pc'[p] = IF reg[p].j + 1 < reg[p].k THEN "take" ELSE "done"
           /\ ToFill(p) = {}
  <2>1. /\ Len(call[p].got) = reg[p].k /\ Len(reg[p].out) = reg[p].j
        /\ \A i \in 1..reg[p].j : reg[p].out[i] = call[p].got[i]
        /\ \A u \in ToTake(p) : call[p].got[reg[p].j + 1 + (u - reg[p].h)] = log[u - Start + 1]
    BY <1>1, <1>2, <1>5, ZenonT(30) DEF Payload
  <2>2. call[p].got[reg[p].j + 1] = cells[Cell(reg[p].h)].elem
    <3>1. reg[p].j + 1 + (reg[p].h - reg[p].h) = reg[p].j + 1
      BY <1>3, SMTT(30)
    <3>2. call[p].got[reg[p].j + 1 + (reg[p].h - reg[p].h)] = log[reg[p].h - Start + 1]
      BY <1>2, <2>1, Zenon
    <3> QED BY <1>2, <3>1, <3>2, MovesOut, Zenon
  <2> DEFINE e == cells[Cell(reg[p].h)].elem
             o == reg[p].out
  <2>3. e \in Elem \cup {NoElem}
    <3>1. Cell(reg[p].h) \in 0..(R - 1)
      BY <1>3a, CellRange
    <3>2. cells \in [0..(R - 1) -> [seq : Nat, elem : Elem \cup {NoElem}]]
      BY <1>1, Zenon DEF IInv, TypeInv, Typed
    <3>3. cells[Cell(reg[p].h)] \in [seq : Nat, elem : Elem \cup {NoElem}]
      BY <3>1, <3>2, ZenonT(30)
    <3> QED BY <3>3, Zenon
  <2>4. /\ Append(o, e) \in Seq(Elem \cup {NoElem}) /\ Len(Append(o, e)) = reg[p].j + 1
        /\ \A i \in 1..reg[p].j : Append(o, e)[i] = o[i]
        /\ Append(o, e)[reg[p].j + 1] = e
    <3> HIDE DEF e, o
    <3>1. o \in Seq(Elem \cup {NoElem}) /\ Len(o) = reg[p].j
      BY <1>3, <2>1, Zenon DEF o
    <3> QED BY <1>3, <2>3, <3>1, SMTT(30)
  <2>5. \A i \in 1..(reg[p].j + 1) : Append(o, e)[i] = call[p].got[i]
    <3> HIDE DEF e, o
    <3>1. ASSUME NEW i \in 1..(reg[p].j + 1) PROVE Append(o, e)[i] = call[p].got[i]
      <4>1. CASE i \in 1..reg[p].j
        BY <2>1, <2>4, <4>1, Zenon DEF o
      <4>2. CASE i = reg[p].j + 1
        BY <2>2, <2>4, <4>2, Zenon DEF e
      <4>3. i \in 1..reg[p].j \/ i = reg[p].j + 1
        BY <1>3, <3>1
      <4> QED BY <4>1, <4>2, <4>3, Zenon
    <3> QED BY <3>1, ZenonT(30)
  <2>6. ASSUME NEW u \in ToTake(p)'
        PROVE  call'[p].got[reg'[p].j + 1 + (u - reg'[p].h)] = log'[u - Start + 1]
    <3>1. u \in ToTake(p)
      BY <1>2, <2>6, Zenon
    <3>2. u \in Nat
      BY <1>1, <3>1, HeldType, SMTT(30)
    <3>3. (reg[p].j + 1) + 1 + (u - (reg[p].h + 1)) = reg[p].j + 1 + (u - reg[p].h)
      BY <1>3a, <3>2
    <3>4. call[p].got[reg[p].j + 1 + (u - reg[p].h)] = log[u - Start + 1]
      BY <2>1, <3>1, Zenon
    <3>5. call[p].got[(reg[p].j + 1) + 1 + (u - (reg[p].h + 1))] = log[u - Start + 1]
      BY <3>3, <3>4, Zenon
    <3>6. reg'[p].j = reg[p].j + 1 /\ reg'[p].h = reg[p].h + 1
      BY <1>5, ZenonT(30)
    <3> QED BY <1>2, <3>5, <3>6, ZenonT(30)
  <2>7. pc'[p] = "done" => reg'[p].out = call'[p].got
    <3>1. ASSUME pc'[p] = "done" PROVE Append(o, e) = call[p].got
      <4>1. reg[p].j + 1 = reg[p].k
        <5>1. ~(reg[p].j + 1 < reg[p].k)
          BY <1>5, <3>1, Zenon
        <5>2. reg[p].j < reg[p].k
          BY <1>1, <1>2, ZenonT(30) DEF IInv, ControlInv, Control
        <5> QED BY <1>3, <5>1, <5>2, SMTT(30)
      <4> HIDE DEF e, o
      <4>2. /\ Append(o, e) \in Seq(Elem \cup {NoElem}) /\ call[p].got \in Seq(Elem \cup {NoElem})
            /\ Len(Append(o, e)) = Len(call[p].got)
            /\ \A i \in 1..Len(Append(o, e)) : Append(o, e)[i] = call[p].got[i]
        <5>1. Append(o, e) \in Seq(Elem \cup {NoElem})
          BY <2>4, Zenon
        <5>2. call[p].got \in Seq(Elem \cup {NoElem})
          BY <1>3
        <5>3. Len(Append(o, e)) = Len(call[p].got)
          BY <2>1, <2>4, <4>1, Zenon
        <5>4. \A i \in 1..Len(Append(o, e)) : Append(o, e)[i] = call[p].got[i]
          BY <2>4, <2>5, Zenon
        <5> QED BY <5>1, <5>2, <5>3, <5>4, Zenon
      <4> QED BY <4>2, SameMembers, ZenonT(30)
    <3> QED BY <1>2, <1>5, <3>1, Zenon
  <2>8. \A u \in ToFill(p)' : log'[u - Start + 1] = call'[p].es[reg'[p].j + 1 + (u - reg'[p].t)]
    BY <1>2, <1>5, Zenon
  <2>9. /\ Len(call'[p].got) = reg'[p].k /\ Len(reg'[p].out) = reg'[p].j
        /\ \A i \in 1..reg'[p].j : reg'[p].out[i] = call'[p].got[i]
    BY <1>2, <1>5, <2>1, <2>4, <2>5, ZenonT(30)
  <2> QED BY <2>6, <2>7, <2>8, <2>9, ZenonT(30) DEF Payload
<1> QED BY <1>1, <1>4, <1>5, TakeSteps, ZenonT(30)

\* Every step keeps every thread's elements.
LEMMA PayloadStep ==
  ASSUME RingInv, NEW p \in Threads, Calls(p) \/ Step(p)
  PROVE  PayloadInv'
<1>1. IInv /\ Payload(p)
  BY DEF RingInv, PayloadInv
<1>2. \A q \in Threads : q # p => Payload(q)'
  BY OthersPayload, Zenon
<1>3. Payload(p)'
  <2>1. CASE Idles(p)
    <3>1. /\ ToFill(p)' = {} /\ pc'[p] \notin {"construct", "take", "move"}
          /\ call'[p].op = "pop" /\ pc'[p] = "done" => reg'[p].out = call'[p].got
      BY <1>1, <2>1, IdleSteps, Zenon
    <3> QED BY <3>1, ZenonT(30) DEF Payload
  <2>2. CASE Waited(p)
    <3>1. /\ log' = log /\ reg' = reg /\ call' = call
          /\ ToFill(p)' = ToFill(p) /\ ToTake(p)' = ToTake(p)
          /\ pc'[p] # "done"
          /\ pc'[p] \in {"take", "move"} => pc[p] \in {"take", "move"}
      BY <1>1, <2>2, WaitSteps, ZenonT(30) DEF Waited
    <3> QED BY <1>1, <3>1, Zenon DEF Payload
  <2>3. CASE TakesTickets(p)
    BY <1>1, <2>3, TicketsTaken, ClaimsPayload, SMTT(30)
  <2> QED BY <2>1, <2>2, <2>3, FillPayload, TakePayload, StepKinds, ZenonT(30)
<1> QED BY <1>2, <1>3, Zenon DEF PayloadInv



\* A ticket to fill whose cell has not come to it waits for the take of a
\* ticket a lap before it.
LEMMA FillWaitsForTake ==
  ASSUME RingInv, NEW p \in Threads, NEW u \in ToFill(p), cells[Cell(u)].seq # u
  PROVE  \E r \in Threads : \E v \in ToTake(r) : v < u
<1>1. IInv /\ TicketInv /\ Ahead /\ Behind(p) /\ \A i \in 0..(R - 1) : Shape(i)
  BY SMTT(30) DEF RingInv, CellInv
<1>2. /\ head \in Nat /\ tail \in Nat /\ Start \in Nat /\ R \in Nat /\ R >= 2
      /\ Cap \in Nat /\ Cap <= R /\ tail - head <= Cap
  BY <1>1, Typing, ZenonT(30)
<1>3. u \in Nat /\ u < tail /\ Cell(u) \in 0..(R - 1)
  BY <1>1, HeldType, ZenonT(30)
<1> DEFINE s == cells[Cell(u)].seq
<1>4. s \in Nat /\ s < u /\ s >= Start
  <2>1. s \in Nat
    BY <1>1, <1>3, Typing, Zenon
  <2>2. s <= u /\ s >= Start
    BY <1>1, <1>3, Zenon DEF Behind, Shape
  <2> QED BY <1>3, <2>1, <2>2, SMTT(30)
<1>5. \E w \in Nat : w >= Start /\ w < u /\ Cell(w) = Cell(u)
  <2>1. CASE Empty(Cell(u))
    <3>1. Cell(s) = Cell(u)
      BY <2>1 DEF Empty
    <3> QED BY <1>4, <3>1, Zenon
  <2>2. CASE Holds(Cell(u))
    <3>1. Cell(s - 1) = Cell(u) /\ s - 1 \in Start..(tail - 1)
      BY <2>2, Zenon DEF Holds
    <3> HIDE DEF s
    <3>2. s - 1 \in Nat /\ s - 1 >= Start /\ s - 1 < u
      BY <1>2, <1>3, <1>4, <3>1, SMTT(30)
    <3> QED BY <3>1, <3>2, SMTT(30)
  <2> QED BY <1>1, <1>3, <2>1, <2>2, Zenon DEF Shape
<1>6. PICK w \in Nat : w >= Start /\ w < u /\ Cell(w) = Cell(u)
  BY <1>5
<1>7. u - w >= R
  BY <1>3, <1>6, LapApart, SMTT(30)
<1> DEFINE v == u - R
<1>8. v \in Nat /\ v \in Start..(head - 1) /\ v < u /\ v + R = u
  BY <1>2, <1>3, <1>6, <1>7, SMTT(30)
<1>9. Cell(v) = Cell(u)
  <2>1. Cell(v + R) = Cell(v)
    BY <1>8, CellAgain
  <2> QED BY <1>8, <2>1, Zenon
<1> HIDE DEF v
<1>10. ~IsTaken(v)
  <2>1. ASSUME IsTaken(v) PROVE FALSE
    <3>1. cells[Cell(v)].seq >= v + R
      BY <1>1, <1>8, <2>1, Zenon DEF Ahead
    <3> QED BY <1>3, <1>4, <1>8, <1>9, <3>1, SMTT(30)
  <2> QED BY <2>1
<1> QED BY <1>8, <1>10 DEF IsTaken

\* A ticket to take whose cell has not come to it waits for its own fill.
LEMMA TakeWaitsForFill ==
  ASSUME RingInv, NEW p \in Threads, NEW u \in ToTake(p), cells[Cell(u)].seq # u + 1
  PROVE  \E r \in Threads : u \in ToFill(r)
<1>1. IInv /\ TicketInv /\ Ahead /\ Behind(p)
  BY DEF RingInv, CellInv
<1>2. /\ head \in Nat /\ tail \in Nat /\ Start \in Nat /\ head <= tail
  BY <1>1, Typing, Zenon
<1>3. u \in Nat /\ Start <= u /\ u < head /\ Cell(u) \in 0..(R - 1)
  BY <1>1, HeldType, Zenon
<1>4. u \in Start..(tail - 1)
  BY <1>2, <1>3, SMTT(30)
<1>5. cells[Cell(u)].seq <= u + 1 /\ cells[Cell(u)].seq \in Nat
  BY <1>1, <1>3, Typing, Zenon DEF Behind
<1>6. ~IsFilled(u)
  <2>1. ASSUME IsFilled(u) PROVE FALSE
    <3>1. cells[Cell(u)].seq >= u + 1
      BY <1>1, <1>4, <2>1 DEF Ahead
    <3> QED BY <1>3, <1>5, <3>1, SMTT(30)
  <2> QED BY <2>1
<1> QED BY <1>6 DEF IsFilled
===============================================================================
