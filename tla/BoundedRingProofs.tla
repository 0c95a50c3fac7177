-------------------------- MODULE BoundedRingProofs ---------------------------
(***************************************************************************)
(* What holds of BoundedRing for every number of threads, every capacity   *)
(* and every mix of calls.                                                 *)
(***************************************************************************)
EXTENDS BoundedRingSteps, BoundedRingCells, BoundedRingRefinement, FiniteSetTheorems

-----------------------------------------------------------------------------
\* The initial states satisfy the invariant.
LEMMA InitInv == Init => IInv
<1> SUFFICES ASSUME Init PROVE IInv
  OBVIOUS
<1>1. NoReg \in Registers(Elem \cup {NoElem}) /\ "idle" \in PCs /\ <<>> \in Seq(Elem)
  BY DEF NoReg, Claimed, Registers, PCs
<1>2. cells \in [0..(R - 1) -> [seq : Nat, elem : Elem \cup {NoElem}]]
  <2>1. ASSUME NEW i \in 0..(R - 1)
        PROVE  [seq |-> Start + ((i - Start) % R), elem |-> NoElem]
                 \in [seq : Nat, elem : Elem \cup {NoElem}]
    <3>1. (i - Start) % R \in 0..(R - 1)
      BY CapAssumption
    <3>2. Start + ((i - Start) % R) \in Nat
      BY <3>1, CapAssumption
    <3> QED BY <3>2
  <2> QED BY <2>1 DEF Init
<1>3. TypeInv
  <2>1. call \in [Threads -> CallRecords] /\ pc \in [Threads -> PCs]
        /\ reg \in [Threads -> Registers(Elem \cup {NoElem})] /\ log \in Seq(Elem)
    BY <1>1, IdleType DEF Init
  <2>2. /\ head \in Nat /\ tail \in Nat /\ seen \in Nat
        /\ overruns \in Nat /\ dropped \in Nat /\ calls \in 0..MaxCalls
    BY CapAssumption, ConstantAssumption DEF Init
  <2>3. /\ build \in Builds
        /\ producer \in Threads \cup {NoThread} /\ consumer \in Threads \cup {NoThread}
    BY DEF Init
  <2> QED BY <1>2, <2>1, <2>2, <2>3, Zenon DEF TypeInv, Typed
<1>4. ControlInv
  BY ZenonT(40) DEF Init, ControlInv, Control, PushPCs, PopPCs, SizePCs, BQ!Idle
<1>5. CounterInv
  BY CapAssumption, HalfBound DEF Init, CounterInv, Copies, PushPCs, PopPCs
<1> QED BY <1>3, <1>4, <1>5 DEF IInv

\* Every step keeps it.
LEMMA NextInv == IInv /\ [Next]_vars => IInv'
<1> SUFFICES ASSUME IInv, [Next]_vars PROVE IInv'
  OBVIOUS
<1>1. CASE Next
  <2>1. Cardinality(Uncounted) \in Nat
    BY FiniteThreads, FS_Subset, FS_CardinalityType, SMTT(30) DEF Uncounted
  <2> QED BY <1>1, <2>1, TypeStep, ControlStep, CounterStep, SMTT(30) DEF Next, IInv
<1>2. CASE UNCHANGED vars
  <2>1. TypeInv'
    BY <1>2, ZenonT(40) DEF vars, IInv, TypeInv, Typed
  <2>2. ControlInv'
    <3>1. ASSUME NEW p \in Threads PROVE Control(p)'
      <4>1. Control(p) /\ build' = build /\ pc' = pc /\ reg' = reg /\ call' = call
        BY <1>2, Zenon DEF vars, IInv, ControlInv
      <4> QED BY <4>1, ControlKept, Zenon
    <3> QED BY <3>1, Zenon DEF ControlInv
  <2>3. CounterInv'
    BY <1>2, ZenonT(40) DEF vars, IInv, CounterInv, Copies, packed, mp, mc
  <2> QED BY <2>1, <2>2, <2>3, SMTT(30) DEF IInv
<1> QED BY <1>1, <1>2

\* The counters' invariant holds of every reachable state of the ring.
THEOREM Invariance == Spec => []IInv
BY InitInv, NextInv, PTL DEF Spec

\* The queue never holds more than its capacity, whatever the layout, the
\* topology, the number of threads and the pushes and pops in flight.
THEOREM Capacity == Spec => []ExactCapacity
<1>1. IInv => ExactCapacity
  BY CapAssumption DEF IInv, TypeInv, Typed, CounterInv, ExactCapacity
<1> QED BY <1>1, Invariance, PTL

\* Every non-empty set of numbers has a least member.
LEMMA LeastNumber ==
  ASSUME NEW T, T \subseteq Nat, T # {}
  PROVE  \E x \in T : \A y \in T : x <= y
<1> DEFINE L == OpToRel(<, Nat)
<1>1. IsWellFoundedOn(L, Nat)
  BY NatLessThanWellFounded, Zenon
<1>2. \A x \in Nat, y \in Nat : <<x, y>> \in L <=> x < y
  BY DEF OpToRel
<1> HIDE DEF L
<1>3. PICK x \in T : \A y \in T : ~(<<y, x>> \in L)
  BY <1>1, WFMin, Zenon
<1>4. ASSUME NEW y \in T PROVE x <= y
  <2>1. x \in Nat /\ y \in Nat
    BY Zenon
  <2>2. ~(y < x)
    BY <1>2, <1>3, <2>1, Zenon
  <2> QED BY <2>1, <2>2, SMTT(30)
<1> QED BY <1>4

\* The initial states satisfy the invariant.
LEMMA InitRing == Init => RingInv
<1> SUFFICES ASSUME Init PROVE RingInv
  OBVIOUS
<1>1. IInv
  BY InitInv
<1>2. /\ Start \in Nat /\ R \in Nat /\ R >= 2 /\ head = Start /\ tail = Start
      /\ \A p \in Threads : pc[p] = "idle"
      /\ cells = [i \in 0..(R - 1) |-> [seq |-> Start + ((i - Start) % R), elem |-> NoElem]]
  BY CapAssumption DEF Init
<1>3. \A p \in Threads : ToFill(p) = {} /\ ToTake(p) = {}
  BY <1>2, NoneHeld, SMTT(30)
<1>4. TicketInv
  BY <1>3 DEF TicketInv
<1>5. ASSUME NEW i \in 0..(R - 1) PROVE Shape(i)
  <2> DEFINE m == (i - Start) % R
  <2>1. m \in 0..(R - 1)
    BY <1>2
  <2>2. cells[i].seq = Start + m /\ cells[i].elem = NoElem
    BY <1>2
  <2>3. Cell(Start + m) = i
    BY FirstCell
  <2> HIDE DEF m
  <2>4. Empty(i)
    BY <1>2, <2>1, <2>2, <2>3, SMTT(30) DEF Empty
  <2>5. cells[i].seq >= Start /\ tail - cells[i].seq < Half
    BY <1>2, <2>1, <2>2, HalfBound, SMTT(30)
  <2> QED BY <2>4, <2>5 DEF Shape
<1>6. CellInv
  <2>1. \A p \in Threads : Behind(p)
    BY <1>2, <1>3, Zenon DEF Behind
  <2>2. Ahead
    BY <1>2, SMTT(30) DEF Ahead
  <2> QED BY <1>5, <2>1, <2>2, SMTT(30) DEF CellInv
<1>7. PayloadInv
  BY <1>2, <1>3, Zenon DEF PayloadInv, Payload
<1> QED BY <1>1, <1>4, <1>6, <1>7, SMTT(30) DEF RingInv

\* Every step keeps it.
LEMMA NextRing == RingInv /\ [Next]_vars => RingInv'
<1> SUFFICES ASSUME RingInv, [Next]_vars PROVE RingInv'
  OBVIOUS
<1>1. IInv /\ TicketInv /\ CellInv /\ PayloadInv
  BY DEF RingInv
<1>2. IInv'
  BY <1>1, NextInv, SMTT(30)
<1>3. CASE Next
  <2>1. PICK p \in Threads : Calls(p) \/ Step(p)
    BY <1>3 DEF Next
  <2>2. TicketInv'
    BY <1>1, <2>1, TicketsStep, SMTT(30)
  <2>3. \A i \in 0..(R - 1) : Shape(i)'
    BY <2>1, ShapeStep, ZenonT(30)
  <2>4. \A q \in Threads : Behind(q)'
    BY <2>1, BehindStep, ZenonT(30)
  <2>5. Ahead'
    BY <1>2, <2>1, AheadStep, ZenonT(30)
  <2>6. CellInv'
    BY <2>3, <2>4, <2>5, ZenonT(30) DEF CellInv
  <2>7. PayloadInv'
    BY <2>1, PayloadStep, ZenonT(30)
  <2> QED BY <1>2, <2>2, <2>6, <2>7, ZenonT(30) DEF RingInv
<1>4. CASE UNCHANGED vars
  <2>1. UNCHANGED <<head, tail, cells, log, pc, reg, call>>
    BY <1>4, SMTT(30) DEF vars
  <2>2. \A p \in Threads : ToFill(p)' = ToFill(p) /\ ToTake(p)' = ToTake(p)
    BY <2>1, Zenon DEF ToFill, ToTake, Uncounted
  <2>3. TicketInv'
    BY <1>1, <2>1, <2>2, ZenonT(30) DEF TicketInv
  <2>4. \A i \in 0..(R - 1) : Shape(i)'
    BY <1>1, <2>1, Zenon DEF CellInv, Shape, Empty, Holds
  <2>5. \A q \in Threads : Behind(q)'
    BY <1>1, <2>1, <2>2, ZenonT(30) DEF CellInv, Behind
  <2>6. Ahead'
    BY <1>1, <2>1, <2>2, ZenonT(30) DEF CellInv, Ahead, IsFilled, IsTaken
  <2>7. PayloadInv'
    BY <1>1, <2>1, <2>2, Zenon DEF PayloadInv, Payload
  <2> QED BY <1>2, <2>3, <2>4, <2>5, <2>6, <2>7, ZenonT(30) DEF RingInv, CellInv
<1> QED BY <1>3, <1>4

\* The cells' invariant holds of every reachable state of the ring.
THEOREM RingInvariance == Spec => []RingInv
BY InitRing, NextRing, PTL DEF Spec

\* Two threads never construct in or move out of the same cell at once,
\* however many threads, cells and laps there are.
THEOREM Exclusion == Spec => []CellExclusive
<1>1. ASSUME RingInv PROVE CellExclusive
  <2>1. IInv /\ TicketInv /\ \A p \in Threads : Behind(p)
    BY <1>1 DEF RingInv, CellInv
  <2> SUFFICES ASSUME NEW p \in Threads, NEW q \in Threads, p # q,
                      pc[p] \in {"construct", "move"}, pc[q] \in {"construct", "move"}
               PROVE  Cell(IF pc[p] = "move" THEN reg[p].h ELSE reg[p].t)
                        # Cell(IF pc[q] = "move" THEN reg[q].h ELSE reg[q].t)
    BY DEF CellExclusive
  <2>2. /\ reg[p].h \in Nat /\ reg[p].t \in Nat /\ reg[q].h \in Nat /\ reg[q].t \in Nat
    BY <2>1, Locals, SMTT(30)
  <2>3. /\ pc[p] = "construct" => cells[Cell(reg[p].t)].seq = reg[p].t /\ reg[p].t \in ToFill(p)
        /\ pc[q] = "construct" => cells[Cell(reg[q].t)].seq = reg[q].t /\ reg[q].t \in ToFill(q)
        /\ pc[p] = "move" => cells[Cell(reg[p].h)].seq = reg[p].h + 1 /\ reg[p].h \in ToTake(p)
        /\ pc[q] = "move" => cells[Cell(reg[q].h)].seq = reg[q].h + 1 /\ reg[q].h \in ToTake(q)
    BY <2>1, WorksAtFirst, Zenon DEF Behind
  <2>4. ToFill(p) \cap ToFill(q) = {} /\ ToTake(p) \cap ToTake(q) = {}
    BY <2>1, SMTT(30) DEF TicketInv
  <2>5. Cell(reg[p].h) # Cell(reg[p].h + 1) /\ Cell(reg[q].h) # Cell(reg[q].h + 1)
    BY <2>2, NextCell, SMTT(30)
  <2>6. CASE pc[p] = "construct" /\ pc[q] = "construct"
    BY <2>3, <2>4, <2>6, Zenon
  <2>7. CASE pc[p] = "move" /\ pc[q] = "move"
    BY <2>2, <2>3, <2>4, <2>7, SMTT(30)
  <2>8. CASE pc[p] = "construct" /\ pc[q] = "move"
    BY <2>3, <2>5, <2>8, Zenon
  <2>9. CASE pc[p] = "move" /\ pc[q] = "construct"
    BY <2>3, <2>5, <2>9, Zenon
  <2> QED BY <2>6, <2>7, <2>8, <2>9, Zenon
<1> QED BY <1>1, RingInvariance, PTL

\* With no operation under way exactly the cells of the tickets from head to
\* tail hold an element: what the destructor destroys is what there is.
THEOREM Quiescence == Spec => []QuiescentCells
<1>1. ASSUME RingInv, \A p \in Threads : pc[p] = "idle", NEW i \in 0..(R - 1)
      PROVE  (cells[i].elem # NoElem) <=> (\E t \in head..(tail - 1) : Cell(t) = i)
  <2>1. IInv /\ Shape(i) /\ Ahead
    BY <1>1, SMTT(30) DEF RingInv, CellInv
  <2>2. /\ head \in Nat /\ tail \in Nat /\ Start \in Nat /\ R \in Nat /\ R >= 2
        /\ Start <= head /\ head <= tail /\ cells[i].seq \in Nat
        /\ Len(log) = tail - Start /\ log \in Seq(Elem)
    BY <2>1, Typing, Zenon
  <2>3. \A u : IsFilled(u) /\ IsTaken(u)
    BY <1>1, NoneHeld, SMTT(30) DEF IsFilled, IsTaken
  <2>4. ASSUME cells[i].elem # NoElem PROVE \E t \in head..(tail - 1) : Cell(t) = i
    <3>1. Cell(cells[i].seq - 1) = i /\ cells[i].seq - 1 \in Start..(tail - 1)
      BY <2>1, <2>4, Zenon DEF Shape, Empty, Holds
    <3>2. cells[i].seq - 1 >= head
      <4>1. ASSUME cells[i].seq - 1 < head PROVE FALSE
        <5>1. cells[i].seq - 1 \in Start..(head - 1)
          BY <2>2, <3>1, <4>1, SMTT(30)
        <5>2. cells[Cell(cells[i].seq - 1)].seq >= cells[i].seq - 1 + R
          BY <2>1, <2>3, <5>1, Zenon DEF Ahead
        <5> QED BY <2>2, <3>1, <5>2, SMTT(30)
      <4> QED BY <2>2, <4>1, SMTT(30)
    <3>3. cells[i].seq - 1 \in head..(tail - 1)
      BY <2>2, <3>1, <3>2, SMTT(30)
    <3> QED BY <3>1, <3>3, SMTT(30)
  <2>5. ASSUME NEW t \in head..(tail - 1), Cell(t) = i PROVE cells[i].elem # NoElem
    <3>1. t \in Nat /\ t \in Start..(tail - 1) /\ head <= t
      BY <2>2, SMTT(30)
    <3>2. cells[i].seq >= t + 1
      BY <2>1, <2>3, <2>5, <3>1, SMTT(30) DEF Ahead
    <3>3. ~Empty(i)
      <4>1. ASSUME Cell(cells[i].seq) = i PROVE cells[i].seq - t >= R
        BY <2>2, <2>5, <3>1, <3>2, <4>1, LapApart, SMTT(30)
      <4> QED BY <2>2, <3>1, <4>1, SMTT(30) DEF Empty
    <3>4. cells[i].seq - 1 \in Start..(tail - 1) /\ cells[i].elem = log[cells[i].seq - Start]
      BY <2>1, <3>3, Zenon DEF Shape, Holds
    <3>5. cells[i].seq - Start \in 1..Len(log)
      <4>1. /\ tail \in Nat /\ Start \in Nat /\ cells[i].seq \in Nat
            /\ Len(log) = tail - Start /\ cells[i].seq - 1 \in Start..(tail - 1)
        BY <2>2, <3>4, Zenon
      <4>2. \A c, a, b \in Nat : c - 1 \in a..(b - 1) => c - a \in 1..(b - a)
        OBVIOUS
      <4> QED BY <4>1, <4>2, SMTT(30)
    <3>6. log[cells[i].seq - Start] \in Elem
      <4>1. log \in Seq(Elem)
        BY <2>2, Zenon
      <4> QED BY <3>5, <4>1, MemberIsElem, Zenon
    <3> QED BY <3>4, <3>6, NoElemAssumption, Zenon
  <2> QED BY <2>4, <2>5, SMTT(30)
<1>2. RingInv => QuiescentCells
  BY <1>1, SMTT(30) DEF QuiescentCells
<1> QED BY <1>2, RingInvariance, PTL

\* A pop hands out the elements of the tickets it took, the oldest there
\* were at its effect, in order.
THEOREM Oldest == Spec => []HandsOutOldest
<1>1. RingInv => HandsOutOldest
  BY Zenon DEF RingInv, PayloadInv, Payload, HandsOutOldest
<1> QED BY <1>1, RingInvariance, PTL

\* A wait for a cell is on operations in progress: while a thread waits, some
\* thread that holds a ticket need not. The oldest claim is never a waiting one.
THEOREM Progress == Spec => []WaitsOnInProgress
<1>1. ASSUME RingInv, NEW p \in Threads, Waits(p),
             \A q \in Threads : HoldsTicket(q) => Waits(q)
      PROVE  FALSE
  <2>1. IInv /\ TicketInv
    BY <1>1 DEF RingInv
  <2> DEFINE V == {n \in Nat : \E q \in Threads : \/ \E u \in ToFill(q) : n = 2 * u
                                                  \/ \E u \in ToTake(q) : n = 2 * u + 1}
  <2>2. \A q \in Threads : /\ \A u \in ToFill(q) : u \in Nat /\ 2 * u \in V
                           /\ \A u \in ToTake(q) : u \in Nat /\ 2 * u + 1 \in V
    <3>1. \A q \in Threads : /\ \A u \in ToFill(q) : u \in Nat
                             /\ \A u \in ToTake(q) : u \in Nat
      BY <2>1, HeldType, SMTT(30)
    <3>2. \A u \in Nat : 2 * u \in Nat /\ 2 * u + 1 \in Nat
      OBVIOUS
    <3> QED BY <3>1, <3>2, Zenon
  <2>3. \A q \in Threads : pc[q] \notin {"construct", "move", "count"}
    BY <1>1, Zenon DEF HoldsTicket, Waits
  <2>4. V \subseteq Nat /\ V # {}
    <3>1. CASE pc[p] = "fill"
      BY <2>1, <2>2, <3>1, WorksAtFirst, Zenon
    <3>2. CASE pc[p] = "take"
      BY <2>1, <2>2, <3>2, WorksAtFirst, Zenon
    <3> QED BY <1>1, <3>1, <3>2, Zenon DEF Waits
  <2>5. PICK x \in V : \A y \in V : x <= y
    <3> HIDE DEF V
    <3> QED BY <2>4, LeastNumber, ZenonT(30)
  <2>6. PICK q \in Threads : (\E u \in ToFill(q) : x = 2 * u) \/ (\E u \in ToTake(q) : x = 2 * u + 1)
    BY <2>5
  <2>7. \A a \in Int : Same(a, a)
    BY CapAssumption DEF Same, Diff
  <2>8. ASSUME NEW u \in ToFill(q), x = 2 * u PROVE FALSE
    <3>1. u \in Nat
      BY <2>2, SMTT(30)
    <3>2. cells[Cell(u)].seq = u
      <4>1. ASSUME NEW r \in Threads, NEW v \in ToTake(r), v < u PROVE FALSE
        <5>1. v \in Nat /\ 2 * v + 1 \in V
          BY <2>2, Zenon
        <5>2. 2 * u <= 2 * v + 1
          BY <2>5, <2>8, <5>1, Zenon
        <5> HIDE DEF V
        <5> QED BY <3>1, <4>1, <5>1, <5>2, SMTT(30)
      <4> QED BY <1>1, <4>1, FillWaitsForTake, Zenon
    <3>3. pc[q] = "fill"
      <4>1. ASSUME pc[q] = "take" PROVE FALSE
        <5>1. reg[q].h \in ToTake(q)
          BY <2>1, <4>1, WorksAtFirst, Zenon
        <5>2. reg[q].h < u
          BY <2>1, <5>1, SMTT(30) DEF TicketInv
        <5>3. reg[q].h \in Nat /\ 2 * reg[q].h + 1 \in V
          BY <2>2, <5>1, SMTT(30)
        <5>4. 2 * u <= 2 * reg[q].h + 1
          BY <2>5, <2>8, <5>3, Zenon
        <5> HIDE DEF V
        <5> QED BY <3>1, <5>2, <5>3, <5>4, SMTT(30)
      <4>2. pc[q] \in {"fill", "construct", "take", "move", "count"}
        BY Zenon DEF ToFill, Uncounted
      <4> QED BY <2>3, <4>1, <4>2, Zenon
    <3>4. u = reg[q].t
      <4>1. reg[q].t \in ToFill(q)
        BY <2>1, <3>3, WorksAtFirst, SMTT(30)
      <4>2. reg[q].t \in Nat /\ 2 * u <= 2 * reg[q].t
        BY <2>2, <2>5, <2>8, <4>1, Zenon
      <4>3. ToFill(q) = reg[q].t..(reg[q].t + (reg[q].k - reg[q].j) - 1)
        BY <3>3, SMTT(30) DEF ToFill
      <4>4. reg[q].k \in Nat /\ reg[q].j \in Nat
        BY <2>1, Locals, SMTT(30)
      <4> HIDE DEF V
      <4> QED BY <3>1, <4>2, <4>3, <4>4, SMTT(30)
    <3>5. ~Waits(q)
      BY <2>7, <3>1, <3>2, <3>3, <3>4, SMTT(30) DEF Waits
    <3> QED BY <1>1, <3>3, <3>5, SMTT(30) DEF HoldsTicket
  <2>9. ASSUME NEW u \in ToTake(q), x = 2 * u + 1 PROVE FALSE
    <3>1. u \in Nat
      BY <2>2, Zenon
    <3>2. cells[Cell(u)].seq = u + 1
      <4>1. ASSUME NEW r \in Threads, u \in ToFill(r) PROVE FALSE
        <5>1. 2 * u \in V
          BY <2>2, <4>1, SMTT(30)
        <5>2. 2 * u + 1 <= 2 * u
          BY <2>5, <2>9, <5>1, Zenon
        <5> HIDE DEF V
        <5> QED BY <3>1, <5>2, SMTT(30)
      <4> QED BY <1>1, <4>1, TakeWaitsForFill, Zenon
    <3>3. pc[q] = "take"
      BY <2>3, Zenon DEF ToTake
    <3>4. u = reg[q].h
      <4>1. reg[q].h \in ToTake(q)
        BY <2>1, <3>3, WorksAtFirst, SMTT(30)
      <4>2. reg[q].h \in Nat /\ 2 * u + 1 <= 2 * reg[q].h + 1
        BY <2>2, <2>5, <2>9, <4>1, Zenon
      <4>3. ToTake(q) = reg[q].h..(reg[q].h + (reg[q].k - reg[q].j) - 1)
        BY <3>3, Zenon DEF ToTake
      <4>4. reg[q].k \in Nat /\ reg[q].j \in Nat
        BY <2>1, Locals, Zenon
      <4> HIDE DEF V
      <4> QED BY <3>1, <4>2, <4>3, <4>4, SMTT(30)
    <3>5. ~Waits(q)
      BY <2>7, <3>1, <3>2, <3>3, <3>4, SMTT(30) DEF Waits
    <3> QED BY <1>1, <3>3, <3>5, SMTT(30) DEF HoldsTicket
  <2> QED BY <2>6, <2>8, <2>9, SMTT(30)
<1>2. RingInv => WaitsOnInProgress
  BY <1>1, SMTT(30) DEF WaitsOnInProgress
<1> QED BY <1>2, RingInvariance, PTL

\* overruns_ counts every element an overrun removed, up to those in flight.
THEOREM OverrunsCounted == Spec => []OverrunCount
<1>1. Init => OverrunCount
  <2>1. ASSUME Init PROVE Uncounted = {}
    <3>1. \A p \in Threads : pc[p] = "idle"
      BY <2>1, ZenonT(30) DEF Init
    <3> QED BY <3>1, SMTT(30) DEF Uncounted
  <2>2. ASSUME Init PROVE Cardinality(Uncounted) = 0 /\ overruns = 0 /\ dropped = 0
    <3>1. Cardinality(Uncounted) = 0
      BY <2>1, <2>2, FS_EmptySet, SMTT(30)
    <3>2. overruns = 0 /\ dropped = 0
      BY <2>2, ZenonT(30) DEF Init
    <3> QED BY <3>1, <3>2, SMTT(30)
  <2> QED BY <2>2, SMTT(30) DEF OverrunCount
<1>2. ASSUME IInv, OverrunCount, [Next]_vars PROVE OverrunCount'
  <2>1. CASE UNCHANGED vars
    BY <1>2, <2>1, Zenon DEF vars, OverrunCount, Uncounted
  <2>2. ASSUME NEW p \in Threads, Calls(p) \/ Step(p) PROVE OverrunCount'
    <3>1. Counts(p)
      BY <1>2, <2>2, CountSteps, SMTT(30)
    <3>2. \A q \in Threads : q # p => (q \in Uncounted' <=> q \in Uncounted)
      BY <1>2, <2>2, StepFrame, Zenon DEF Uncounted
    <3>3. /\ IsFiniteSet(Uncounted) /\ Cardinality(Uncounted) \in Nat
          /\ Uncounted \subseteq Threads /\ Uncounted' \subseteq Threads
      BY FiniteThreads, FS_Subset, FS_CardinalityType, Zenon DEF Uncounted
    <3>4. overruns \in Nat /\ dropped \in Nat
      BY <1>2, Zenon DEF IInv, TypeInv, Typed
    <3>5. CASE p \in Uncounted' <=> p \in Uncounted
      <4>1. Uncounted' = Uncounted
        BY <3>2, <3>3, <3>5, SMTT(30)
      <4> QED BY <1>2, <3>1, <3>3, <3>4, <3>5, <4>1, SMTT(30) DEF Counts, OverrunCount
    <3>6. CASE p \notin Uncounted /\ p \in Uncounted'
      <4>1. Uncounted' = Uncounted \cup {p}
        BY <3>2, <3>3, <3>6, SMTT(30)
      <4>2. Cardinality(Uncounted') = Cardinality(Uncounted) + 1
        BY <3>3, <3>6, <4>1, FS_AddElement, Zenon
      <4> QED BY <1>2, <3>1, <3>3, <3>4, <3>6, <4>2, SMTT(30) DEF Counts, OverrunCount
    <3>7. CASE p \in Uncounted /\ p \notin Uncounted'
      <4>1. Uncounted' = Uncounted \ {p}
        BY <3>2, <3>3, <3>7, SMTT(30)
      <4>2. Cardinality(Uncounted') = Cardinality(Uncounted) - 1
        BY <3>3, <3>7, <4>1, FS_RemoveElement, Zenon
      <4> QED BY <1>2, <3>1, <3>3, <3>4, <3>7, <4>2, SMTT(30) DEF Counts, OverrunCount
    <3> QED BY <3>5, <3>6, <3>7, SMTT(30)
  <2> QED BY <1>2, <2>1, <2>2, SMTT(30) DEF Next
<1> QED BY <1>1, <1>2, Invariance, PTL DEF Spec

\* Every call notes the lengths it will answer with.
THEOREM LengthsNoted == Spec => []NotedInv
<1>1. Init => NotedInv
  <2> SUFFICES ASSUME Init, NEW p \in Threads PROVE Noted(p)
    BY DEF NotedInv
  <2>1. pc[p] = "idle" /\ call[p] = BQ!Idle
    BY DEF Init
  <2> QED BY <2>1 DEF Noted, BQ!Idle
<1>2. IInv /\ NotedInv /\ [Next]_vars => NotedInv'
  <2> SUFFICES ASSUME IInv, NotedInv, [Next]_vars, NEW q \in Threads PROVE Noted(q)'
    BY SMTT(30) DEF NotedInv
  <2>1. CASE UNCHANGED vars
    BY <2>1, Zenon DEF vars, NotedInv, Noted
  <2>2. ASSUME NEW p \in Threads, Calls(p) \/ Step(p) PROVE Noted(q)'
    BY <2>2, OthersNoted, OwnNoted, Zenon
  <2> QED BY <2>1, <2>2, SMTT(30) DEF Next
<1> QED BY <1>1, <1>2, Invariance, PTL DEF Spec

\* The ring is a queue under a mutex: every push, pop, overrun and size takes
\* effect at one step of its call, on one sequence of at most Cap elements.
THEOREM RingLinearisable == Spec => Linearisable
<1>1. Init => BQ!QInit
  <2> SUFFICES ASSUME Init PROVE BQ!QInit
    OBVIOUS
  <2>1. head = Start /\ tail = Start /\ Start \in Nat /\ call = [p \in Threads |-> BQ!Idle]
    BY CapAssumption, Zenon DEF Init
  <2>2. Between(head, tail) = <<>>
    BY <2>1 DEF Between
  <2> QED BY <2>1, <2>2, SMTT(30) DEF BQ!QInit
<1>2. IInv /\ NotedInv /\ [Next]_vars => [BQ!QNext]_(BQ!qvars)
  <2>1. CASE UNCHANGED vars
    BY <2>1, Zenon DEF vars, BQ!qvars, Between
  <2>2. ASSUME IInv, NotedInv, NEW p \in Threads, Calls(p) \/ Step(p)
        PROVE  [BQ!QNext]_(BQ!qvars)
    BY <2>2, StepImplements
  <2> QED BY <2>1, <2>2, SMTT(30) DEF Next
<1> QED BY <1>1, <1>2, Invariance, LengthsNoted, PTL DEF Spec, Linearisable, BQ!QSpec
===============================================================================
