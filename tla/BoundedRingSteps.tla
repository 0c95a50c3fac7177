--------------------------- MODULE BoundedRingSteps ---------------------------
(***************************************************************************)
(* Every step of BoundedRing keeps the types, the place each thread is at  *)
(* in accord with the operation it is in, and the counters in order.       *)
(***************************************************************************)
EXTENDS BoundedRingTickets

-----------------------------------------------------------------------------
\* Every step keeps the types.
LEMMA TypeStep ==
  ASSUME IInv, Cardinality(Uncounted) \in Nat, NEW p \in Threads, Calls(p) \/ Step(p)
  PROVE  TypeInv'
<1> DEFINE E == Elem \cup {NoElem}
<1>1. /\ build \in Builds
      /\ head \in Nat /\ tail \in Nat /\ seen \in Nat
      /\ cells \in [0..(R - 1) -> [seq : Nat, elem : E]]
      /\ overruns \in Nat /\ dropped \in Nat
      /\ producer \in Threads \cup {NoThread} /\ consumer \in Threads \cup {NoThread}
      /\ pc \in [Threads -> PCs]
      /\ reg \in [Threads -> Registers(E)]
      /\ calls \in 0..MaxCalls
      /\ call \in [Threads -> CallRecords]
      /\ log \in Seq(Elem)
  BY Zenon DEF IInv, TypeInv, Typed
<1>2. TypeInv /\ head <= tail /\ Start <= head /\ Len(log) = tail - Start
  BY DEF IInv, CounterInv
<1>3. calls \in Nat /\ MaxCalls \in Nat
  BY <1>1, ConstantAssumption
<1>4. Sizes \subseteq Nat
  BY ConstantAssumption DEF Sizes
<1> HIDE DEF E
<1> SUFFICES /\ build' \in Builds
             /\ head' \in Nat /\ tail' \in Nat /\ seen' \in Nat
             /\ cells' \in [0..(R - 1) -> [seq : Nat, elem : E]]
             /\ overruns' \in Nat /\ dropped' \in Nat
             /\ producer' \in Threads \cup {NoThread} /\ consumer' \in Threads \cup {NoThread}
             /\ pc' \in [Threads -> PCs]
             /\ reg' \in [Threads -> Registers(E)]
             /\ calls' \in 0..MaxCalls
             /\ call' \in [Threads -> CallRecords]
             /\ log' \in Seq(Elem)
  BY Zenon DEF TypeInv, Typed, E
<1>5. CASE CallPush(p)
  <2>1. PICK n \in Sizes :
          Call(p, "push", NewElems(p, n), n, IF packed THEN "load" ELSE "push_tail")
    BY <1>5 DEF CallPush
  <2>2. calls < MaxCalls /\ p \in Producers
    BY <1>5, <2>1 DEF Call, CallPush
  <2>3. NewElems(p, n) \in Seq(Elem)
    BY <1>3, <1>4, <2>2, NewElemsType
  <2>4. call' \in [Threads -> CallRecords] /\ pc' \in [Threads -> PCs] /\ calls' \in 0..MaxCalls
    <3>1. "push" \in BQ!Ops /\ (IF packed THEN "load" ELSE "push_tail") \in PCs
      BY DEF BQ!Ops, PCs
    <3> QED BY <1>2, <1>4, <2>1, <2>3, <3>1, CallType
  <2> QED BY <1>1, <1>5, <2>1, <2>4 DEF CallPush, Call, counters, store
<1>6. CASE CallOverrun(p)
  <2>1. Call(p, "overrun", NewElems(p, 1), 1, IF Cap = 0 THEN "count" ELSE "load")
    BY <1>6 DEF CallOverrun
  <2>2. calls < MaxCalls /\ p \in Producers
    BY <1>6, <2>1 DEF Call, CallOverrun
  <2>3. NewElems(p, 1) \in Seq(Elem)
    BY <1>3, <2>2, NewElemsType
  <2>4. call' \in [Threads -> CallRecords] /\ pc' \in [Threads -> PCs] /\ calls' \in 0..MaxCalls
    <3>1. "overrun" \in BQ!Ops /\ (IF Cap = 0 THEN "count" ELSE "load") \in PCs
      BY DEF BQ!Ops, PCs
    <3> QED BY <1>2, <2>1, <2>3, <3>1, CallType
  <2> QED BY <1>1, <1>6, <2>1, <2>4 DEF CallOverrun, Call, counters, store
<1>7. CASE CallPop(p)
  <2>1. PICK n \in Sizes :
          Call(p, "pop", <<>>, n, IF packed THEN "load" ELSE "pop_head")
    BY <1>7 DEF CallPop
  <2>2. "pop" \in BQ!Ops /\ (IF packed THEN "load" ELSE "pop_head") \in PCs /\ <<>> \in Seq(Elem)
    BY DEF BQ!Ops, PCs
  <2>3. call' \in [Threads -> CallRecords] /\ pc' \in [Threads -> PCs] /\ calls' \in 0..MaxCalls
    BY <1>2, <1>4, <2>1, <2>2, CallType, Zenon
  <2> QED BY <1>1, <1>7, <2>1, <2>3 DEF CallPop, Call, counters, store
<1>8. CASE CallSize(p)
  <2>1. Call(p, "size", <<>>, 0, IF packed THEN "load" ELSE "size_head")
    BY <1>8 DEF CallSize
  <2>2. "size" \in BQ!Ops /\ (IF packed THEN "load" ELSE "size_head") \in PCs /\ <<>> \in Seq(Elem)
    BY DEF BQ!Ops, PCs
  <2>3. call' \in [Threads -> CallRecords] /\ pc' \in [Threads -> PCs] /\ calls' \in 0..MaxCalls
    BY <1>2, <2>1, <2>2, CallType, Zenon
  <2> QED BY <1>1, <1>8, <2>1, <2>3 DEF CallSize, Call, counters, store
<1>9. CASE reset_overrun_counter(p)
  BY <1>1, <1>3, <1>9 DEF reset_overrun_counter, counters
<1>10. CASE \/ PushReadTail(p) \/ PushReadHead(p)
            \/ PopReadHead(p) \/ PopReadSeen(p) \/ PopReadTail(p)
            \/ SizeReadHead(p) \/ SizeReadTail(p)
  <2>1. pc' \in [Threads -> PCs]
    <3>1. PICK l \in {"push_head", "push_again", "push_claim", "pop_seen", "pop_tail",
                      "pop_claim", "pop_note", "size_tail", "size_again"} : Goto(p, l)
      BY <1>10
      DEF PushReadTail, PushReadHead, PopReadHead, PopReadSeen, PopReadTail, SizeReadHead,
          SizeReadTail
    <3>2. l \in PCs
      BY DEF PCs
    <3> QED BY <1>1, <3>1, <3>2 DEF Goto
  <2>2. reg' \in [Threads -> Registers(E)]
    <3>1. \/ reg' = [reg EXCEPT ![p].t = tail] \/ reg' = [reg EXCEPT ![p].h = head]
          \/ reg' = reg
      BY <1>10
      DEF PushReadTail, PushReadHead, PopReadHead, PopReadSeen, PopReadTail, SizeReadHead,
          SizeReadTail
    <3>2. reg \in [Threads -> Registers(E)] /\ head \in Nat /\ tail \in Nat
      BY <1>1
    <3>3. CASE reg' = [reg EXCEPT ![p].t = tail]
      BY <3>2, <3>3, Zenon DEF Registers
    <3>4. CASE reg' = [reg EXCEPT ![p].h = head]
      BY <3>2, <3>4, Zenon DEF Registers
    <3> QED BY <3>1, <3>2, <3>3, <3>4
  <2> QED
    BY <1>1, <1>10, <2>1, <2>2, Zenon
    DEF PushReadTail, PushReadHead, PopReadHead, PopReadSeen, PopReadTail, SizeReadHead,
        SizeReadTail, counters, store, fixed
<1>11. NoReg \in Registers(E) /\ {"push_tail", "pop_head", "size_head", "idle"} \subseteq PCs
  BY DEF NoReg, Claimed, Registers, PCs
<1>12. ASSUME NEW num \in Nat, Answer(p, num)
       PROVE  /\ call' \in [Threads -> CallRecords] /\ pc' \in [Threads -> PCs]
              /\ reg' \in [Threads -> Registers(E)]
  BY <1>2, <1>12, AnswerType, Zenon DEF E
<1>13. ASSUME NEW l \in PCs, Restart(p, l)
       PROVE  /\ call' \in [Threads -> CallRecords] /\ pc' \in [Threads -> PCs]
              /\ reg' \in [Threads -> Registers(E)]
  BY <1>1, <1>11, <1>13 DEF Restart, Goto
<1>14. CASE PushReadTailAgain(p)
  BY <1>1, <1>11, <1>12, <1>13, <1>14 DEF PushReadTailAgain, counters, store, fixed
<1>15. CASE SizeReadHeadAgain(p)
  <2>1. Diff(reg[p].t, reg[p].h) \in Nat
    <3>1. reg[p].t \in Nat /\ reg[p].h \in Nat
      BY <1>1, Zenon DEF Registers
    <3> QED BY <3>1, CapAssumption DEF Diff
  <2> QED
    BY <1>1, <1>11, <1>12, <1>13, <1>15, <2>1 DEF SizeReadHeadAgain, counters, store, fixed
<1>16. CASE PushCasFails(p) \/ PopCasFails(p)
  BY <1>1, <1>11, <1>13, <1>16, Zenon DEF PushCasFails, PopCasFails, counters, store, fixed
<1>17. CASE PopNoteTail(p)
  <2>1. reg[p].t \in Nat /\ "pop_claim" \in PCs
    BY <1>1 DEF Registers, PCs
  <2> QED BY <1>1, <1>12, <1>17, <2>1 DEF PopNoteTail, Goto, store, fixed
<1>18. CASE Return(p)
  BY <1>1, <1>11, <1>18, IdleType, SMTT(30) DEF Return, Goto, counters, store, fixed
<1>19. CASE LoadState(p) \/ StateCasFails(p)
  <2> DEFINE used == Diff(tail, head)
  <2>1. used \in Nat /\ 0 \in Nat
    BY <1>1, CapAssumption DEF Diff
  <2> HIDE DEF used
  <2>2. CASE Answer(p, IF call[p].op = "size" THEN used ELSE 0)
    BY <1>1, <1>12, <1>19, <2>1, <2>2, Zenon
    DEF LoadState, StateCasFails, Examine, counters, store, fixed
  <2>3. CASE /\ ~Refused(p, used)
             /\ reg' = [reg EXCEPT ![p].h = head, ![p].t = tail, ![p].k = Share(p, used)]
             /\ Goto(p, "cas") /\ UNCHANGED call
    <3>1. call[p].n \in Nat /\ Cap \in Nat /\ "cas" \in PCs
      BY <1>1, CapAssumption DEF CallRecords, PCs
    <3>2. Share(p, used) \in Nat
      <4>1. CASE call[p].op = "push"
        BY <2>1, <2>3, <3>1, <4>1, SharesType, Cap - used \in Nat DEF Share, Refused
      <4> QED BY <2>1, <3>1, <4>1, SharesType DEF Share
    <3>3. reg' \in [Threads -> Registers(E)]
      BY <1>1, <2>3, <3>2, ZenonT(40) DEF Registers
    <3> QED
      BY <1>1, <1>19, <2>3, <3>1, <3>3, Zenon
      DEF LoadState, StateCasFails, Examine, Goto, counters, store, fixed
  <2> QED BY <1>19, <2>2, <2>3, Zenon DEF LoadState, StateCasFails, Examine, used
<1>20. {"fill", "take", "move", "construct", "count", "done"} \subseteq PCs
  BY DEF PCs
<1>21. CASE TakesTickets(p)
  <2>1. PICK h \in Nat, t \in Nat, num \in Nat :
          /\ Take(p, h, t, num) /\ head <= h /\ h <= tail /\ tail <= t
          /\ t - tail <= Len(call[p].es)
    BY <1>21, TicketStep
  <2>2. call' \in [Threads -> CallRecords] /\ log' \in Seq(Elem)
    BY <1>2, <2>1, TakeCalls, Zenon
  <2>3. head' \in Nat /\ tail' \in Nat
    BY <2>1, Zenon DEF Take
  <2>4. reg' \in [Threads -> Registers(E)]
    <3>1. reg[p].h \in Nat /\ reg[p].t \in Nat
      BY <1>1, Zenon DEF Registers
    <3>2. Claimed(0, reg[p].t, 1) \in Registers(E) /\ Claimed(reg[p].h, 0, 1) \in Registers(E)
      BY <3>1 DEF Claimed, Registers
    <3>3. \/ reg' = [reg EXCEPT ![p] = Claimed(0, reg[p].t, 1)]
          \/ reg' = [reg EXCEPT ![p] = Claimed(reg[p].h, 0, 1)]
          \/ reg' = reg
      BY <1>21, Zenon DEF TakesTickets, PushStore, PushCas, PushTake, PopStore, PopCas, PopTake,
                   PackedPush, PackedPop, PackedOverrun, StateCas
    <3> QED BY <1>1, <3>2, <3>3
  <2>5. dropped' \in Nat
    BY <1>1, <1>21
    DEF TakesTickets, PushStore, PushCas, PushTake, PopStore, PopCas, PopTake,
        PackedPush, PackedPop, PackedOverrun, store
  <2>6. pc' \in [Threads -> PCs]
    BY <1>1, <1>20, <1>21, TicketStep, Zenon DEF Goto
  <2>7. UNCHANGED <<fixed, seen, cells, overruns>>
    BY <1>21, TicketStep
  <2> QED BY <1>1, <2>2, <2>3, <2>4, <2>5, <2>6, <2>7, Zenon DEF fixed
<1>24. Len(call[p].es) \in Nat
  BY <1>1 DEF CallRecords
<1>28. CASE FillWait(p) \/ TakeWait(p)
  BY <1>1, <1>20, <1>28, Zenon DEF FillWait, TakeWait, Goto, counters, store, fixed
<1>29. /\ reg[p].h \in Nat /\ reg[p].t \in Nat /\ reg[p].j \in Nat /\ reg[p].k \in Nat
       /\ reg[p].out \in Seq(E)
  BY <1>1, ZenonT(40) DEF Registers
<1>30. CASE FillEnd(p)
  <2>1. call[p].es[reg[p].j + 1] \in E
    <3>1. reg[p].j < Len(call[p].es)
      <4>1. reg[p].j < reg[p].k /\ reg[p].k <= Len(call[p].es)
        BY <1>30, Zenon DEF FillEnd, IInv, ControlInv, Control
      <4> QED BY <1>24, <1>29, <4>1
    <3>2. call[p].es \in Seq(Elem)
      BY <1>1 DEF CallRecords
    <3> QED BY <1>29, <3>1, <3>2 DEF E
  <2>2. cells' \in [0..(R - 1) -> [seq : Nat, elem : E]]
    <3>1. [seq |-> reg[p].t + 1, elem |-> call[p].es[reg[p].j + 1]] \in [seq : Nat, elem : E]
      BY <1>29, <2>1
    <3> QED BY <1>1, <1>30, <3>1, ZenonT(40) DEF FillEnd, Filled
  <2>3. reg' \in [Threads -> Registers(E)]
    <3>1. reg \in [Threads -> Registers(E)] /\ reg[p].t + 1 \in Nat /\ reg[p].j + 1 \in Nat
      BY <1>1, <1>29, SMTT(30)
    <3> QED BY <1>30, <3>1, Zenon DEF FillEnd, Registers
  <2> QED
    BY <1>1, <1>20, <1>30, <2>2, <2>3, Zenon DEF FillEnd, Filled, Goto, counters, fixed
<1>31. CASE TakeEnd(p)
  <2>1. cells[Cell(reg[p].h)].elem \in E
    <3>1. reg[p].h \in Nat
      BY <1>29, Zenon
    <3>2. Cell(reg[p].h) \in 0..(R - 1)
      BY <3>1, CapAssumption DEF Cell
    <3> QED BY <1>1, <3>2, Zenon
  <2>2. cells' \in [0..(R - 1) -> [seq : Nat, elem : E]]
    <3>1. [seq |-> reg[p].h + R, elem |-> NoElem] \in [seq : Nat, elem : E]
      BY <1>29, CapAssumption, SMTT(30) DEF E
    <3> QED BY <1>1, <1>31, <3>1, Zenon DEF TakeEnd, Emptied
  <2>3. reg' \in [Threads -> Registers(E)]
    <3> DEFINE out == Append(reg[p].out, cells[Cell(reg[p].h)].elem)
    <3>1. out \in Seq(E)
      BY <1>29, <2>1
    <3>2. reg \in [Threads -> Registers(E)] /\ reg[p].h + 1 \in Nat /\ reg[p].j + 1 \in Nat
      BY <1>1, <1>29
    <3>3. \/ reg' = [reg EXCEPT ![p].h = reg[p].h + 1, ![p].j = reg[p].j + 1, ![p].out = out]
          \/ reg' = reg
      BY <1>31, Zenon DEF TakeEnd
    <3> HIDE DEF out
    <3>4. [reg EXCEPT ![p].h = reg[p].h + 1, ![p].j = reg[p].j + 1, ![p].out = out]
            \in [Threads -> Registers(E)]
      BY <3>1, <3>2, ZenonT(40) DEF Registers
    <3> QED BY <3>2, <3>3, <3>4, Zenon
  <2> QED
    BY <1>1, <1>20, <1>31, <2>2, <2>3 DEF TakeEnd, Goto, counters, fixed
<1>32. CASE CountOverrun(p)
  BY <1>1, <1>12, <1>20, <1>32 DEF CountOverrun, Goto, counters, fixed
<1> QED
  BY <1>5, <1>6, <1>7, <1>8, <1>9, <1>10, <1>14, <1>15, <1>16, <1>17, <1>18, <1>19, <1>21,
     <1>28, <1>30, <1>31, <1>32, ZenonT(40)
  DEF Calls, Step, SplitStep, PackedStep, CellStep, TakesTickets

-----------------------------------------------------------------------------
\* A thread outside any operation has no ticket and has taken nothing.
LEMMA NoRegFields == NoReg.j = 0 /\ NoReg.out = <<>>
BY SMT DEF NoReg, Claimed

\* Every step keeps each thread's place and its operation in accord.
LEMMA ControlStep ==
  ASSUME IInv, NEW p \in Threads, Calls(p) \/ Step(p)
  PROVE  ControlInv'
<1>1. ASSUME NEW q \in Threads, q # p PROVE Control(q)'
  <2>1. Control(q)
    BY DEF IInv, ControlInv
  <2>2. /\ pc'[q] = pc[q] /\ reg'[q] = reg[q] /\ build' = build
        /\ call'[q].op = call[q].op /\ call'[q].es = call[q].es
        /\ call'[q].n = call[q].n /\ call'[q].st = call[q].st
    BY <1>1, StepFrame, ZenonT(40)
  <2>3. pc[q] = "idle" => call'[q] = call[q]
    <3>1. pc[q] = "idle" => call[q] = BQ!Idle
      BY <2>1, Zenon DEF Control
    <3>2. BQ!Idle.st # "pending"
      BY DEF BQ!Idle
    <3>3. call[q].st # "pending" => call'[q] = call[q]
      BY <1>1, StepFrame, ZenonT(40)
    <3> QED BY <3>1, <3>2, <3>3, Zenon
  <2> QED BY <2>1, <2>2, <2>3, ControlKept, Zenon
<1>2. /\ pc \in [Threads -> PCs] /\ reg \in [Threads -> Registers(Elem \cup {NoElem})]
      /\ call \in [Threads -> CallRecords] /\ call[p] \in CallRecords
      /\ head \in Nat /\ tail \in Nat /\ calls \in 0..MaxCalls
  BY Zenon DEF IInv, TypeInv, Typed
<1>3. Control(p)
  BY SMTT(30) DEF IInv, ControlInv
<1>4. ASSUME NEW op \in {"push", "overrun", "pop", "size"}, NEW es \in Seq(Elem),
             NEW n \in Nat, NEW l \in PCs, Call(p, op, es, n, l)
      PROVE  /\ pc'[p] = l /\ build' = build
             /\ reg'[p].j = 0 /\ reg'[p].out = <<>>
             /\ call'[p].op = op /\ call'[p].es = es /\ call'[p].n = n
             /\ call'[p].st = "pending"
  <2>1. tail - head \in Int /\ op \in BQ!Ops
    BY <1>2 DEF BQ!Ops
  <2>2. call'[p] = BQ!Called(op, es, n, tail - head) /\ reg' = reg /\ pc[p] = "idle"
    BY <1>2, <1>4 DEF Call
  <2>3. reg[p] = NoReg
    BY <1>3, <2>2, Zenon DEF Control
  <2>4. /\ call'[p].op = op /\ call'[p].es = es /\ call'[p].n = n
        /\ call'[p].st = "pending"
    BY <2>2, SMTT(30) DEF BQ!Called
  <2>5. pc'[p] = l /\ build' = build
    BY <1>2, <1>4 DEF Call, Goto
  <2>6. reg'[p].j = 0 /\ reg'[p].out = <<>>
    BY <2>2, <2>3, NoRegFields, Zenon
  <2> QED BY <2>4, <2>5, <2>6, Zenon
<1>5. CASE CallPush(p)
  <2>1. PICK n \in Sizes :
          Call(p, "push", NewElems(p, n), n, IF packed THEN "load" ELSE "push_tail")
    BY <1>5 DEF CallPush
  <2>2. n \in Nat /\ (~packed => n = 1)
    BY ConstantAssumption DEF Sizes, packed
  <2>3. calls < MaxCalls /\ p \in Producers
    BY <1>5, <2>1 DEF Call, CallPush
  <2>4. NewElems(p, n) \in Seq(Elem) /\ Len(NewElems(p, n)) = n
    <3>1. calls \in Nat
      BY <1>2, ConstantAssumption
    <3> QED BY <2>2, <2>3, <3>1, NewElemsType
  <2>5. (IF packed THEN "load" ELSE "push_tail") \in PCs
    BY DEF PCs
  <2>6. /\ pc'[p] = (IF packed THEN "load" ELSE "push_tail") /\ build' = build
        /\ reg'[p].j = 0 /\ reg'[p].out = <<>> /\ call'[p].op = "push"
        /\ Len(call'[p].es) = n /\ call'[p].n = n /\ call'[p].st = "pending"
    BY <1>4, <2>1, <2>2, <2>4, <2>5, Zenon
  <2>7. Control(p)'
    BY <2>2, <2>6, Zenon DEF Control, PushPCs, PopPCs, SizePCs, packed
  <2> QED BY <1>1, <2>7 DEF ControlInv
<1>6. CASE CallOverrun(p)
  <2>1. /\ Call(p, "overrun", NewElems(p, 1), 1, IF Cap = 0 THEN "count" ELSE "load")
        /\ build.overrun
    BY <1>6 DEF CallOverrun
  <2>2. calls < MaxCalls /\ p \in Producers
    BY <1>6, <2>1 DEF Call, CallOverrun
  <2>3. NewElems(p, 1) \in Seq(Elem) /\ Len(NewElems(p, 1)) = 1
    <3>1. calls \in Nat
      BY <1>2, ConstantAssumption
    <3> QED BY <2>2, <3>1, NewElemsType, Zenon
  <2>4. (IF Cap = 0 THEN "count" ELSE "load") \in PCs
    BY DEF PCs
  <2>5. /\ pc'[p] = (IF Cap = 0 THEN "count" ELSE "load") /\ build' = build
        /\ reg'[p].j = 0 /\ reg'[p].out = <<>> /\ call'[p].op = "overrun"
        /\ Len(call'[p].es) = 1 /\ call'[p].st = "pending"
    BY <1>4, <2>1, <2>3, <2>4, Zenon
  <2>6. Control(p)'
    <3>1. (Cap = 0 /\ ~(Cap > 0)) \/ (Cap # 0 /\ Cap > 0)
      BY CapAssumption
    <3> QED BY <2>1, <2>5, <3>1, ZenonT(40) DEF Control, PushPCs, PopPCs, SizePCs, packed
  <2> QED BY <1>1, <2>6 DEF ControlInv
<1>7. CASE CallPop(p)
  <2>1. PICK n \in Sizes :
          Call(p, "pop", <<>>, n, IF packed THEN "load" ELSE "pop_head")
    BY <1>7 DEF CallPop
  <2>2. n \in Nat /\ (~packed => n = 1) /\ <<>> \in Seq(Elem)
    BY ConstantAssumption DEF Sizes, packed
  <2>3. (IF packed THEN "load" ELSE "pop_head") \in PCs
    BY SMTT(30) DEF PCs
  <2>4. /\ pc'[p] = (IF packed THEN "load" ELSE "pop_head") /\ build' = build
        /\ reg'[p].j = 0 /\ reg'[p].out = <<>> /\ call'[p].op = "pop"
        /\ call'[p].n = n /\ call'[p].st = "pending"
    BY <1>4, <2>1, <2>2, <2>3, Zenon
  <2>5. Control(p)'
    BY <2>2, <2>4, Zenon DEF Control, PushPCs, PopPCs, SizePCs, packed
  <2> QED BY <1>1, <2>5 DEF ControlInv
<1>8. CASE CallSize(p)
  <2>1. Call(p, "size", <<>>, 0, IF packed THEN "load" ELSE "size_head")
    BY <1>8 DEF CallSize
  <2>2. (IF packed THEN "load" ELSE "size_head") \in PCs /\ <<>> \in Seq(Elem)
    BY SMTT(30) DEF PCs
  <2>3. /\ pc'[p] = (IF packed THEN "load" ELSE "size_head") /\ build' = build
        /\ reg'[p].j = 0 /\ reg'[p].out = <<>> /\ call'[p].op = "size"
        /\ call'[p].st = "pending"
    BY <1>4, <2>1, <2>2, Zenon
  <2>4. Control(p)'
    BY <2>3, ZenonT(40) DEF Control, PushPCs, PopPCs, SizePCs, packed
  <2> QED BY <1>1, <2>4 DEF ControlInv
<1>9. CASE reset_overrun_counter(p)
  <2>1. build' = build /\ pc' = pc /\ reg' = reg /\ call' = call
    BY <1>9, Zenon DEF reset_overrun_counter
  <2>2. Control(p)'
    BY <1>3, <2>1, ControlKept, Zenon
  <2> QED BY <1>1, <2>2, Zenon DEF ControlInv
<1>10. ASSUME NEW num \in Nat, Answer(p, num), build' = build PROVE Control(p)'
  <2>1. TypeInv
    BY DEF IInv
  <2>2. /\ pc'[p] = "done" /\ call'[p].st = "effected" /\ call'[p].op = call[p].op
        /\ call'[p].es = call[p].es /\ call'[p].n = call[p].n
    BY <1>10, <2>1, AnswerType, Zenon
  <2> QED BY <1>3, <1>10, <2>2, Zenon DEF Control, PushPCs, PopPCs, SizePCs
<1>11. ASSUME NEW l \in {"push_tail", "pop_head", "size_head"}, Restart(p, l), build' = build,
              call[p].st = "pending", ~packed,
              call[p].op # "size" => call[p].n = 1,
              l = "push_tail" => call[p].op = "push",
              l = "pop_head" => call[p].op = "pop",
              l = "size_head" => call[p].op = "size"
       PROVE  Control(p)'
  <2>1. pc'[p] = l /\ call' = call /\ reg'[p].j = 0 /\ reg'[p].out = <<>>
    BY <1>2, <1>11, Zenon DEF Restart, Goto, NoReg, Claimed
  <2> QED BY <1>3, <1>11, <2>1, Zenon DEF Control, PushPCs, PopPCs, SizePCs, packed
<1>12. CASE PushReadTail(p) \/ PushReadHead(p)
  <2>1. PICK l \in PushPCs : pc'[p] = l
    BY <1>2, <1>12 DEF PushReadTail, PushReadHead, Goto, PushPCs
  <2>2. /\ reg'[p].j = reg[p].j /\ reg'[p].out = reg[p].out /\ call' = call /\ build' = build
        /\ pc[p] \in PushPCs
    BY <1>2, <1>12 DEF PushReadTail, PushReadHead, fixed, Registers, PushPCs
  <2>3. Control(p)'
    BY <1>3, <2>1, <2>2, Zenon DEF Control, PushPCs, PopPCs, SizePCs, packed
  <2> QED BY <1>1, <2>3 DEF ControlInv
<1>13. CASE PopReadHead(p) \/ PopReadSeen(p) \/ PopReadTail(p)
  <2>1. PICK l \in PopPCs : pc'[p] = l
    BY <1>2, <1>13 DEF PopReadHead, PopReadSeen, PopReadTail, Goto, PopPCs
  <2>2. /\ reg'[p].j = reg[p].j /\ reg'[p].out = reg[p].out /\ call' = call /\ build' = build
        /\ pc[p] \in PopPCs
    BY <1>2, <1>13 DEF PopReadHead, PopReadSeen, PopReadTail, fixed, Registers, PopPCs
  <2>3. Control(p)'
    BY <1>3, <2>1, <2>2, Zenon DEF Control, PushPCs, PopPCs, SizePCs, packed
  <2> QED BY <1>1, <2>3 DEF ControlInv
<1>14. CASE SizeReadHead(p) \/ SizeReadTail(p)
  <2>1. PICK l \in SizePCs : pc'[p] = l
    BY <1>2, <1>14 DEF SizeReadHead, SizeReadTail, Goto, SizePCs
  <2>2. /\ reg'[p].j = reg[p].j /\ reg'[p].out = reg[p].out /\ call' = call /\ build' = build
        /\ pc[p] \in SizePCs
    BY <1>2, <1>14 DEF SizeReadHead, SizeReadTail, fixed, Registers, SizePCs
  <2>3. Control(p)'
    BY <1>3, <2>1, <2>2, Zenon DEF Control, PushPCs, PopPCs, SizePCs, packed
  <2> QED BY <1>1, <2>3 DEF ControlInv
<1>15. CASE PushReadTailAgain(p) \/ PushCasFails(p)
  <2>1. pc[p] \in PushPCs /\ build' = build /\ (Answer(p, 0) \/ Restart(p, "push_tail"))
    BY <1>15, ZenonT(40) DEF PushReadTailAgain, PushCasFails, fixed, PushPCs
  <2>2. call[p].st = "pending" /\ ~packed /\ call[p].n = 1 /\ call[p].op = "push"
    BY <1>3, <2>1, Zenon DEF Control
  <2>3. Control(p)'
    BY <1>10, <1>11, <2>1, <2>2, Zenon
  <2> QED BY <1>1, <2>3 DEF ControlInv
<1>16. CASE PopCasFails(p)
  <2>1. pc[p] \in PopPCs /\ build' = build /\ Restart(p, "pop_head")
    BY <1>16 DEF PopCasFails, fixed, PopPCs
  <2>2. call[p].st = "pending" /\ ~packed /\ call[p].n = 1 /\ call[p].op = "pop"
    BY <1>3, <2>1, Zenon DEF Control
  <2>3. Control(p)'
    BY <1>11, <2>1, <2>2, ZenonT(40)
  <2> QED BY <1>1, <2>3 DEF ControlInv
<1>17. CASE PopNoteTail(p)
  <2>1. CASE Answer(p, 0)
    BY <1>1, <1>10, <1>17, <2>1, Zenon DEF PopNoteTail, fixed, ControlInv
  <2>2. CASE Goto(p, "pop_claim") /\ UNCHANGED <<reg, call>>
    <3>1. pc'[p] = "pop_claim" /\ pc[p] = "pop_note" /\ build' = build
      BY <1>2, <1>17, <2>2 DEF PopNoteTail, Goto, fixed
    <3>2. Control(p)'
      BY <1>3, <2>2, <3>1, Zenon DEF Control, PushPCs, PopPCs, SizePCs, packed
    <3> QED BY <1>1, <3>2 DEF ControlInv
  <2> QED BY <1>17, <2>1, <2>2, Zenon DEF PopNoteTail
<1>18. CASE SizeReadHeadAgain(p)
  <2>1. Diff(reg[p].t, reg[p].h) \in Nat
    <3>1. reg[p].t \in Nat /\ reg[p].h \in Nat
      BY <1>2 DEF Registers
    <3> QED BY <3>1, CapAssumption DEF Diff
  <2>2. pc[p] = "size_again" /\ build' = build
    BY <1>18, ZenonT(40) DEF SizeReadHeadAgain, fixed
  <2>3. call[p].st = "pending" /\ ~packed /\ call[p].op = "size"
    BY <1>3, <2>2, Zenon DEF Control, SizePCs
  <2>4. Control(p)'
    BY <1>10, <1>11, <1>18, <2>1, <2>2, <2>3, Zenon DEF SizeReadHeadAgain
  <2> QED BY <1>1, <2>4 DEF ControlInv
<1>19. CASE Return(p)
  <2>1. pc'[p] = "idle" /\ call'[p] = BQ!Idle /\ reg'[p] = NoReg /\ build' = build
    BY <1>2, <1>19, SMTT(30) DEF Return, Goto, fixed
  <2>2. Control(p)'
    <3>1. call'[p].op = "none"
      BY <2>1 DEF BQ!Idle
    <3> QED BY <2>1, <3>1, Zenon DEF Control, PushPCs, PopPCs, SizePCs
  <2> QED BY <1>1, <2>2 DEF ControlInv
<1>20. CASE LoadState(p) \/ StateCasFails(p)
  <2> DEFINE used == Diff(tail, head)
  <2>1. used \in Nat /\ pc[p] \in {"load", "cas"} /\ build' = build
    BY <1>2, <1>20, CapAssumption, SMTT(30) DEF LoadState, StateCasFails, Examine, fixed, Diff
  <2>2. CASE Answer(p, IF call[p].op = "size" THEN used ELSE 0)
    BY <1>1, <1>10, <2>1, <2>2, Zenon DEF ControlInv
  <2>3. CASE /\ call[p].op # "size" /\ Goto(p, "cas") /\ UNCHANGED call
             /\ reg' = [reg EXCEPT ![p].h = head, ![p].t = tail, ![p].k = Share(p, used)]
    <3>1. pc'[p] = "cas" /\ reg'[p].j = reg[p].j /\ reg'[p].out = reg[p].out
      BY <1>2, <2>3 DEF Goto, Registers
    <3>2. call[p].op \in BQ!Ops
      BY <1>2, Zenon DEF CallRecords
    <3>3. Control(p)'
      BY <1>3, <2>1, <2>3, <3>1, <3>2, Zenon DEF Control, PushPCs, PopPCs, SizePCs, packed, BQ!Ops
    <3> QED BY <1>1, <3>3 DEF ControlInv
  <2> QED BY <1>20, <2>2, <2>3, Zenon DEF LoadState, StateCasFails, Examine
<1>21. /\ reg[p].k \in Nat /\ reg[p].j \in Nat /\ call[p].es \in Seq(Elem)
  BY <1>2, Zenon DEF Registers, CallRecords
<1>22. Len(call[p].es) \in Nat
  BY <1>21
<1>23. CASE TakesTickets(p)
  <2>1. PICK h \in Nat, t \in Nat, num \in Nat :
          /\ Take(p, h, t, num) /\ head <= h /\ h <= tail /\ tail <= t
          /\ t - tail <= Len(call[p].es)
    BY <1>23, TicketStep
  <2>2. TypeInv /\ Start <= head /\ Len(log) = tail - Start
    BY SMTT(30) DEF IInv, CounterInv
  <2>3. /\ call'[p].op = call[p].op /\ call'[p].es = call[p].es
        /\ call'[p].n = call[p].n /\ call'[p].st = "effected"
    BY <2>1, <2>2, TakeCalls, Zenon
  <2>4. build' = build
    BY <1>23, TicketStep DEF fixed
  <2>5. ASSUME pc'[p] = "fill", call[p].op \in {"push", "overrun"},
               reg'[p].j < reg'[p].k, reg'[p].k <= Len(call[p].es)
        PROVE  Control(p)'
    BY <1>3, <2>3, <2>4, <2>5, ZenonT(40) DEF Control, PushPCs, PopPCs, SizePCs
  <2>6. ASSUME pc'[p] = "take", call[p].op \in {"pop", "overrun"},
               reg'[p].j = 0, reg'[p].k >= 1, reg'[p].k \in Nat,
               call[p].op = "overrun" => reg'[p].k = 1 /\ Cap > 0
        PROVE  Control(p)'
    <3>1. reg'[p].j < reg'[p].k
      BY <2>6
    <3> QED
      BY <1>3, <2>3, <2>4, <2>6, <3>1, ZenonT(40) DEF Control, PushPCs, PopPCs, SizePCs
  <2>7. CASE PushStore(p) \/ PushCas(p)
    <3>1. PushTake(p) /\ call[p].op = "push" /\ Len(call[p].es) = 1
      BY <2>7, PushTickets
    <3>2. pc'[p] = "fill" /\ reg'[p].j = 0 /\ reg'[p].k = 1
      BY <1>2, <3>1, SMTT(30) DEF PushTake, Goto, Claimed
    <3> QED BY <1>1, <2>5, <3>1, <3>2 DEF ControlInv
  <2>8. CASE PopStore(p) \/ PopCas(p)
    <3>1. PopTake(p) /\ call[p].op = "pop"
      BY <2>8, PopTickets
    <3>2. pc'[p] = "take" /\ reg'[p].j = 0 /\ reg'[p].k = 1
      BY <1>2, <3>1 DEF PopTake, Goto, Claimed
    <3> QED BY <1>1, <2>6, <3>1, <3>2 DEF ControlInv
  <2>9. CASE PackedPush(p) \/ PackedPop(p) \/ PackedOverrun(p)
    <3>1. /\ pc[p] = "cas" /\ reg' = reg
          /\ Same(head, reg[p].h) /\ Same(tail, reg[p].t)
          /\ \/ pc'[p] = "fill" /\ call[p].op \in {"push", "overrun"}
             \/ pc'[p] = "take" /\ call[p].op \in {"pop", "overrun"}
      BY <1>2, <2>9, Zenon DEF PackedPush, PackedPop, PackedOverrun, StateCas, Goto
    <3>2. /\ reg[p].k >= 1 /\ (call[p].op = "push" => reg[p].k <= Len(call[p].es))
          /\ call[p].op = "overrun" => reg[p].k = 1 /\ Len(call[p].es) = 1 /\ Cap > 0
      BY <3>1, PackedTickets, ZenonT(40)
    <3>3. reg[p].j = 0
      BY <1>3, <3>1, ZenonT(30) DEF Control
    <3>4. CASE pc'[p] = "fill" /\ call[p].op \in {"push", "overrun"}
      <4>1. reg'[p].j < reg'[p].k /\ reg'[p].k <= Len(call[p].es)
        <5>1. CASE call[p].op = "push"
          BY <1>21, <1>22, <3>1, <3>2, <3>3, <5>1
        <5>2. CASE call[p].op = "overrun"
          <6>1. reg'[p].j = 0 /\ reg'[p].k = 1 /\ Len(call[p].es) = 1
            BY <3>1, <3>2, <3>3, <5>2, Zenon
          <6> QED BY <6>1, SMTT(30)
        <5> QED BY <3>4, <5>1, <5>2, Zenon
      <4> QED BY <1>1, <2>5, <3>4, <4>1, Zenon DEF ControlInv
    <3>5. CASE pc'[p] = "take" /\ call[p].op \in {"pop", "overrun"}
      BY <1>1, <1>21, <2>6, <3>1, <3>2, <3>3, <3>5, ZenonT(40) DEF ControlInv
    <3> QED BY <3>1, <3>4, <3>5, SMTT(30)
  <2> QED BY <1>23, <2>7, <2>8, <2>9 DEF TakesTickets
<1>24. CASE FillWait(p) \/ TakeWait(p)
  <2>1. /\ \/ pc[p] = "fill" /\ pc'[p] = "construct"
           \/ pc[p] = "take" /\ pc'[p] = "move"
        /\ reg' = reg /\ call' = call /\ build' = build
    BY <1>2, <1>24, Zenon DEF FillWait, TakeWait, Goto, fixed
  <2>2. Control(p)'
    BY <1>3, <2>1, Zenon DEF Control, PushPCs, PopPCs, SizePCs
  <2> QED BY <1>1, <2>2 DEF ControlInv
<1>25. CASE FillEnd(p)
  <2>1. /\ pc[p] = "construct"
        /\ pc'[p] = IF reg[p].j + 1 < reg[p].k THEN "fill" ELSE "done"
        /\ reg'[p].j = reg[p].j + 1 /\ reg'[p].k = reg[p].k
        /\ call' = call /\ build' = build
    BY <1>2, <1>25 DEF FillEnd, Filled, Goto, fixed, Registers
  <2>2. Control(p)'
    BY <1>3, <1>21, <1>22, <2>1, Zenon DEF Control, PushPCs, PopPCs, SizePCs
  <2> QED BY <1>1, <2>2 DEF ControlInv
<1>26. CASE TakeEnd(p)
  <2>1. pc[p] = "move" /\ call' = call /\ build' = build
    BY <1>26 DEF TakeEnd, fixed
  <2>2. CASE /\ call[p].op = "pop"
             /\ pc'[p] = IF reg[p].j + 1 < reg[p].k THEN "take" ELSE "done"
             /\ reg'[p].j = reg[p].j + 1 /\ reg'[p].k = reg[p].k
    <3>1. Control(p)'
      BY <1>3, <1>21, <2>1, <2>2, Zenon DEF Control, PushPCs, PopPCs, SizePCs
    <3> QED BY <1>1, <3>1 DEF ControlInv
  <2>3. CASE call[p].op = "overrun" /\ pc'[p] = "count" /\ reg' = reg
    <3>1. Cap > 0
      BY <1>3, <2>1, <2>3, ZenonT(40) DEF Control
    <3>2. Cap # 0
      BY <3>1, CapAssumption
    <3>3. Control(p)'
      BY <1>3, <2>1, <2>3, <3>1, <3>2, ZenonT(30) DEF Control, PushPCs, PopPCs, SizePCs
    <3> QED BY <1>1, <3>3 DEF ControlInv
  <2> QED BY <1>2, <1>26, <2>2, <2>3 DEF TakeEnd, Goto, Registers
<1>27. CASE CountOverrun(p)
  <2>1. CASE Answer(p, 1)
    BY <1>1, <1>10, <1>27, <2>1 DEF CountOverrun, fixed, ControlInv
  <2>2. CASE Cap > 0 /\ Goto(p, "fill") /\ UNCHANGED <<reg, call, dropped>>
    <3>1. pc'[p] = "fill" /\ pc[p] = "count" /\ build' = build
      BY <1>2, <1>27, <2>2, SMTT(30) DEF CountOverrun, Goto, fixed
    <3>2. Control(p)'
      <4>1. /\ call[p].op = "overrun" /\ call[p].st = "effected" /\ Len(call[p].es) = 1
            /\ reg[p].j = 0 /\ reg[p].k = 1
        <5>1. Cap # 0
          BY <2>2
        <5> QED BY <1>3, <2>2, <3>1, <5>1, Zenon DEF Control
      <4>2. reg'[p] = reg[p] /\ call'[p] = call[p] /\ 0 < 1 /\ 1 <= 1
        <5>1. 0 < 1 /\ 1 <= 1
          OBVIOUS
        <5> QED BY <2>2, <5>1, Zenon
      <4> QED BY <3>1, <4>1, <4>2, ZenonT(40) DEF Control, PushPCs, PopPCs, SizePCs
    <3> QED BY <1>1, <3>2 DEF ControlInv
  <2> QED BY <1>27, <2>1, <2>2 DEF CountOverrun
<1> QED
  BY Zenon, <1>5, <1>6, <1>7, <1>8, <1>9, <1>12, <1>13, <1>14, <1>15, <1>16, <1>17, <1>18, <1>19,
     <1>20, <1>23, <1>24, <1>25, <1>26, <1>27, SMTT(30)
  DEF Calls, Step, SplitStep, PackedStep, CellStep, TakesTickets

-----------------------------------------------------------------------------
\* Only the thread that has a single side moves its counter.
LEMMA SingleSide ==
  ASSUME IInv, NEW p \in Threads, TakesTickets(p), NEW q \in Threads, q # p
  PROVE  /\ pc[q] \in PushPCs /\ ~mp => tail' = tail
         /\ pc[q] \in PopPCs /\ ~mc => head' = head
<1>1. Copies(p) /\ Copies(q) /\ Control(q)
  BY DEF IInv, CounterInv, ControlInv
<1>2. CASE PushStore(p) \/ PushCas(p)
  <2>1. pc[p] \in PushPCs /\ head' = head
    BY <1>2, Zenon DEF PushStore, PushCas, PushPCs, PushTake, Take
  <2> QED BY <1>1, <2>1, Zenon DEF Copies
<1>3. CASE PopStore(p) \/ PopCas(p)
  <2>1. pc[p] \in PopPCs /\ tail' = tail
    BY <1>3, Zenon DEF PopStore, PopCas, PopPCs, PopTake, Take
  <2> QED BY <1>1, <2>1, Zenon DEF Copies
<1>4. CASE PackedPush(p) \/ PackedPop(p) \/ PackedOverrun(p)
  <2>1. packed
    BY <1>4, PackedTickets, Zenon DEF PackedPush, PackedPop, PackedOverrun, StateCas
  <2> QED BY <1>1, <2>1, Zenon DEF Control
<1> QED BY <1>2, <1>3, <1>4 DEF TakesTickets

\* pop's look at tail_seen_: a value not more than half a ticket space behind head that is ahead of
\* the copy modulo the ticket space is ahead of it, and so is tail.
LEMMA SeenTest ==
  ASSUME NEW s \in Nat, NEW h \in Nat, NEW hd \in Nat, NEW tl \in Nat,
         h <= hd, hd - s <= Half, s <= tl, ~NotAhead(s, h)
  PROVE  h < tl /\ (h = hd => hd - s < Half)
<1>1. Half \in Nat /\ Mod = 2 * Half /\ Half >= 2
  BY HalfBound
<1>2. Diff(s, h) # 0 /\ ~(Diff(s, h) >= Half)
  BY Zenon DEF NotAhead
<1>3. CASE s > h
  BY <1>1, <1>3
<1>4. CASE s = h
  <2>1. Diff(s, h) = 0
    BY <1>1, <1>4 DEF Diff
  <2> QED BY <1>2, <2>1, Zenon
<1>5. CASE s < h
  <2>1. s - h < 0 /\ s - h >= -Half
    BY <1>1, <1>5
  <2>2. Diff(s, h) = s - h + Mod
    BY <1>1, <2>1 DEF Diff
  <2>3. Diff(s, h) >= Half
    BY <1>1, <2>1, <2>2
  <2> QED BY <1>2, <2>3, Zenon
<1> QED BY <1>3, <1>4, <1>5

\* tail_seen_ is not left behind: a pop of the split layout claims at a head
\* whose element it has seen, and is the only one to claim there.
LEMMA SeenBehind ==
  ASSUME IInv, NEW p \in Threads, TakesTickets(p)
  PROVE  packed \/ head' = head \/ (head' = head + 1 /\ head - seen < Half)
<1>1. CASE PushStore(p) \/ PushCas(p)
  BY <1>1, Zenon DEF PushStore, PushCas, PushTake, Take
<1>2. CASE PopStore(p) \/ PopCas(p)
  <2>1. pc[p] = "pop_claim" /\ PopTake(p) /\ reg[p].h = head
    BY <1>2, PopTickets, Zenon
  <2>2. Copies(p)
    BY Zenon DEF IInv, CounterInv
  <2> QED BY <2>1, <2>2, Zenon DEF Copies, PopTake, Take
<1>3. CASE PackedPush(p) \/ PackedPop(p) \/ PackedOverrun(p)
  BY <1>3, PackedTickets, Zenon DEF PackedPush, PackedPop, PackedOverrun, StateCas
<1> QED BY <1>1, <1>2, <1>3, Zenon DEF TakesTickets

\* Taking tickets keeps the counters' invariant.
LEMMA CounterTickets ==
  ASSUME IInv, NEW p \in Threads, TakesTickets(p)
  PROVE  CounterInv'
<1>1. PICK h \in Nat, t \in Nat, num \in Nat :
        /\ Take(p, h, t, num)
        /\ head <= h /\ h <= tail /\ tail <= t /\ t - h <= Cap
        /\ t - tail <= Len(call[p].es)
  BY TicketStep
<1>2. head \in Nat /\ tail \in Nat /\ seen \in Nat /\ Start \in Nat /\ Half \in Nat
  BY CapAssumption, HalfBound DEF IInv, TypeInv, Typed
<1>3. /\ TypeInv /\ Start <= head /\ head <= tail /\ seen <= tail /\ Len(log) = tail - Start
      /\ packed \/ head - seen <= Half
      /\ \A q \in Threads : Copies(q)
  BY SMTT(30) DEF IInv, CounterInv
<1>4. head' = h /\ tail' = t /\ Window(h, t) /\ seen' = seen /\ build' = build
      /\ producer' = producer /\ consumer' = consumer
  BY <1>1, TicketStep, Zenon DEF Take, fixed
<1>5. Len(log') = t - Start
  BY <1>1, <1>3, TakeCalls, Zenon
<1>6. /\ Start <= head' /\ head' <= tail' /\ tail' - head' <= Cap
      /\ seen' <= tail' /\ Len(log') = tail' - Start
  BY <1>1, <1>2, <1>3, <1>4, <1>5, SMTT(30)
<1>9. packed' \/ head' - seen' <= Half
  <2>1. packed' <=> packed
    BY <1>4, Zenon DEF packed
  <2>2. CASE head' = head
    BY <1>3, <1>4, <2>1, <2>2, Zenon
  <2>3. CASE head' = head + 1 /\ head - seen < Half
    <3>1. seen' = seen
      BY <1>4, Zenon
    <3> QED BY <1>2, <2>3, <3>1
  <2>4. packed \/ head' = head \/ (head' = head + 1 /\ head - seen < Half)
    BY SeenBehind, Zenon
  <2> QED BY <2>1, <2>2, <2>3, <2>4, Zenon
<1>7. Copies(p)'
  <2>1. pc'[p] \in {"fill", "take"}
    <3>1. pc \in [Threads -> PCs]
      BY SMTT(30) DEF IInv, TypeInv, Typed
    <3> QED BY <3>1, TicketStep DEF Goto
  <2> QED BY <2>1, Zenon DEF Copies, PushPCs, PopPCs
<1>8. ASSUME NEW q \in Threads, q # p PROVE Copies(q)'
  <2>1. /\ pc'[q] = pc[q] /\ reg'[q] = reg[q]
        /\ call'[q].op = call[q].op /\ call'[q].n = call[q].n
    BY <1>8, StepFrame, Zenon DEF TakesTickets, Step, SplitStep, PackedStep
  <2>2. reg[q].t \in Nat /\ reg[q].h \in Nat
    BY Zenon DEF IInv, TypeInv, Typed, Registers
  <2>3. /\ pc[q] \in {"push_head", "push_again", "push_claim", "pop_note", "cas"} =>
             t - reg[q].t < Half
        /\ pc[q] \in {"pop_seen", "pop_tail", "pop_note", "pop_claim",
                      "size_tail", "size_again", "cas"} => h - reg[q].h < Half
    BY <1>4, Zenon DEF Window
  <2>4. /\ pc[q] \in PushPCs /\ ~mp => tail' = tail
        /\ pc[q] \in PopPCs /\ ~mc => head' = head
    BY <1>8, SingleSide
  <2>5. mp' = mp /\ mc' = mc
    BY <1>4 DEF mp, mc
  <2>6. Copies(q)
    BY <1>3
  <2>7. /\ reg[q].t <= tail => reg[q].t <= t
        /\ reg[q].h <= head => reg[q].h <= h
        /\ reg[q].h < tail => reg[q].h < t
    BY <1>1, <1>2, <2>2, SMTT(30)
  <2>8. reg[q].h <= head /\ reg[q].h = h => h = head
    BY <1>1, <1>2, <2>2
  <2>9. /\ pc'[q] \in {"push_head", "push_again", "push_claim", "pop_note", "cas"} =>
             reg'[q].t <= tail' /\ tail' - reg'[q].t < Half
        /\ pc'[q] \in {"pop_seen", "pop_tail", "pop_note", "pop_claim",
                       "size_tail", "size_again", "cas"} =>
             reg'[q].h <= head' /\ head' - reg'[q].h < Half
    BY <1>4, <2>1, <2>3, <2>6, <2>7, Zenon DEF Copies
  <2>10. /\ pc'[q] = "push_claim" => reg'[q].h <= head' /\ reg'[q].t - reg'[q].h < Cap
         /\ pc'[q] = "pop_note" => reg'[q].h <= reg'[q].t
         /\ pc'[q] = "pop_claim" => reg'[q].h < tail' /\ (reg'[q].h = head' => head' - seen' < Half)
    BY <1>4, <2>1, <2>6, <2>7, <2>8, Zenon DEF Copies
  <2>11. pc'[q] = "cas" =>
           /\ reg'[q].h <= reg'[q].t /\ reg'[q].t - reg'[q].h <= Cap
           /\ reg'[q].k >= 1
           /\ call'[q].op = "push" =>
                /\ reg'[q].k <= call'[q].n
                /\ reg'[q].t - reg'[q].h + reg'[q].k <= Cap
           /\ call'[q].op = "pop" => reg'[q].h + reg'[q].k <= reg'[q].t
           /\ call'[q].op = "overrun" => reg'[q].k = 1
    BY <2>1, <2>6, Zenon DEF Copies
  <2>12. /\ pc'[q] \in PushPCs /\ ~mp' =>
              q = producer' /\ (pc'[q] # "push_tail" => reg'[q].t = tail')
         /\ pc'[q] \in PopPCs /\ ~mc' =>
              q = consumer' /\ (pc'[q] # "pop_head" => reg'[q].h = head')
    BY <1>4, <2>1, <2>4, <2>5, <2>6, Zenon DEF Copies
  <2> QED BY <2>9, <2>10, <2>11, <2>12, Zenon DEF Copies
<1> QED BY <1>6, <1>7, <1>8, <1>9, Zenon DEF CounterInv

\* Every step keeps the counters' invariant.
LEMMA CounterStep ==
  ASSUME IInv, NEW p \in Threads, Calls(p) \/ Step(p)
  PROVE  CounterInv'
<1>1. CASE TakesTickets(p)
  BY <1>1, CounterTickets
<1>2. /\ head \in Nat /\ tail \in Nat /\ seen \in Nat /\ Start \in Nat /\ Cap \in Nat
      /\ pc \in [Threads -> PCs] /\ reg \in [Threads -> Registers(Elem \cup {NoElem})]
      /\ call \in [Threads -> CallRecords]
  BY CapAssumption, ZenonT(40) DEF IInv, TypeInv, Typed
<1>3. /\ Start <= head /\ head <= tail /\ tail - head <= Cap
      /\ seen <= tail /\ (packed \/ head - seen <= Half) /\ Len(log) = tail - Start
      /\ Copies(p)
  BY DEF IInv, CounterInv
<1>4. Half \in Nat /\ Half >= 2 /\ Half >= 2 * Cap /\ Mod = 2 * Half
  BY HalfBound
<1>5. Control(p)
  BY DEF IInv, ControlInv
<1>6. reg[p].t \in Nat /\ reg[p].h \in Nat /\ reg[p].k \in Nat
  BY <1>2 DEF Registers
\* The numbers among these facts, for the steps that are arithmetic only.
<1>23. head \in Nat /\ tail \in Nat /\ seen \in Nat /\ Cap \in Nat /\ Half \in Nat
  BY <1>2, <1>4, Zenon
<1>24. head <= tail /\ tail - head <= Cap /\ Half >= 2 * Cap /\ Half >= 2
  BY <1>3, <1>4, ZenonT(30)
\* What is left to show for a step that takes no ticket.
<1>7. ASSUME UNCHANGED <<head, tail, log, build>>,
             UNCHANGED seen \/ (pc[p] = "pop_note" /\ seen' = reg[p].t),
             \/ UNCHANGED <<producer, consumer>>
             \/ (mp \/ claim(producer, p)) /\ UNCHANGED consumer
             \/ (mc \/ claim(consumer, p)) /\ UNCHANGED producer,
             mp => UNCHANGED producer, mc => UNCHANGED consumer,
             Copies(p)'
      PROVE  CounterInv'
  <2>1. /\ seen' <= tail' /\ (packed' \/ head' - seen' <= Half)
        /\ seen' = seen \/ head' - seen' < Half
    <3>1. packed' = packed
      BY <1>7, Zenon DEF packed
    <3>2. CASE UNCHANGED seen
      BY <1>3, <1>7, <3>1, <3>2, Zenon
    <3>3. CASE pc[p] = "pop_note" /\ seen' = reg[p].t
      <4>1. reg[p].t <= tail /\ tail - reg[p].t < Half
        BY <1>3, <3>3, Zenon DEF Copies
      <4>2. head - reg[p].t < Half /\ head - reg[p].t <= Half
        BY <1>6, <1>23, <1>24, <4>1
      <4> QED BY <1>7, <3>3, <4>1, <4>2, Zenon
    <3> QED BY <1>7, <3>2, <3>3, Zenon
  <2>2. ASSUME NEW q \in Threads, q # p PROVE Copies(q)'
    <3>1. /\ pc'[q] = pc[q] /\ reg'[q] = reg[q]
          /\ call'[q].op = call[q].op /\ call'[q].n = call[q].n
      BY <2>2, StepFrame, Zenon
    <3>2. Copies(q) /\ q # NoThread
      BY ConstantAssumption DEF IInv, CounterInv
    <3>3. mp' = mp /\ mc' = mc
      BY <1>7, Zenon DEF mp, mc
    <3>4. /\ pc[q] \in PushPCs /\ ~mp => producer' = producer
          /\ pc[q] \in PopPCs /\ ~mc => consumer' = consumer
      BY <1>7, <2>2, <3>2, Zenon DEF Copies, claim
    <3> QED BY <1>7, <2>1, <3>1, <3>2, <3>3, <3>4, ZenonT(40) DEF Copies
  <2> QED BY <1>3, <1>7, <2>1, <2>2, Zenon DEF CounterInv
\* At these places nothing is claimed of the copies.
<1>8. ASSUME pc'[p] \in {"idle", "load", "count", "fill", "construct", "take", "move",
                         "done", "size_head"} PROVE Copies(p)'
  BY <1>8, Zenon DEF Copies, PushPCs, PopPCs
<1>9. CASE CallPush(p)
  <2>1. /\ pc'[p] \in {"load", "push_tail"} /\ UNCHANGED <<build, head, tail, seen, log, consumer>>
        /\ (mp \/ claim(producer, p)) /\ producer' = IF mp THEN producer ELSE p
    BY <1>2, <1>9 DEF CallPush, Call, Goto, counters
  <2>2. mp' = mp
    BY <2>1 DEF mp
  <2>3. Copies(p)'
    BY <2>1, <2>2, Zenon DEF Copies, PushPCs, PopPCs
  <2> QED BY <1>7, <2>1, <2>3, Zenon
<1>10. CASE CallPop(p)
  <2>1. /\ pc'[p] \in {"load", "pop_head"} /\ UNCHANGED <<build, head, tail, seen, log, producer>>
        /\ (mc \/ claim(consumer, p)) /\ consumer' = IF mc THEN consumer ELSE p
    BY <1>2, <1>10 DEF CallPop, Call, Goto, counters
  <2>2. mc' = mc
    BY <2>1 DEF mc
  <2>3. Copies(p)'
    BY <2>1, <2>2, ZenonT(40) DEF Copies, PushPCs, PopPCs
  <2> QED BY <1>7, <2>1, <2>3, Zenon
<1>11. CASE CallOverrun(p) \/ CallSize(p)
  <2>1. /\ pc'[p] \in {"load", "count", "size_head"}
        /\ UNCHANGED <<build, head, tail, seen, log, producer, consumer>>
    BY <1>2, <1>11, Zenon DEF CallOverrun, CallSize, Call, Goto, counters
  <2> QED BY <1>7, <1>8, <2>1, Zenon
<1>12. CASE reset_overrun_counter(p)
  <2>1. pc'[p] = "idle" /\ UNCHANGED <<build, head, tail, seen, log, producer, consumer>>
    BY <1>12 DEF reset_overrun_counter, counters
  <2> QED BY <1>7, <1>8, <2>1, Zenon
<1>13. CASE PushReadTail(p)
  <2>1. /\ pc'[p] = "push_head" /\ pc[p] = "push_tail" /\ reg'[p].t = tail
        /\ UNCHANGED <<build, head, tail, seen, log, producer, consumer>>
    BY <1>2, <1>13, SMTT(30) DEF PushReadTail, Goto, counters, fixed, Registers
  <2>2. mp' = mp
    BY <2>1, Zenon DEF mp
  <2>3. tail <= tail /\ tail - tail < Half
    BY <1>23, <1>24
  <2>4. ~mp => p = producer
    BY <1>3, <2>1, Zenon DEF Copies, PushPCs
  <2>5. Copies(p)'
    BY <2>1, <2>2, <2>3, <2>4, Zenon DEF Copies, PushPCs, PopPCs
  <2> QED BY <1>7, <2>1, <2>5, Zenon
<1>14. CASE PushReadHead(p)
  <2>1. /\ pc'[p] = IF Diff(reg[p].t, head) >= Cap THEN "push_again" ELSE "push_claim"
        /\ pc[p] = "push_head" /\ reg'[p].t = reg[p].t /\ reg'[p].h = head
        /\ UNCHANGED <<build, head, tail, seen, log, producer, consumer>>
    BY <1>2, <1>14 DEF PushReadHead, Goto, counters, fixed, Registers
  <2>2. mp' = mp
    BY <2>1, Zenon DEF mp
  <2>3. reg[p].t <= tail /\ tail - reg[p].t < Half
    BY <1>3, <2>1, Zenon DEF Copies
  <2>4. Diff(reg[p].t, head) < Cap => reg[p].t - head < Cap
    <3>1. CASE reg[p].t - head >= 0
      <4>1. reg[p].t - head < Mod
        BY <1>2, <1>3, <1>4, <1>6, <2>3
      <4>2. Diff(reg[p].t, head) = reg[p].t - head
        BY <1>2, <1>6, <3>1, <4>1, CapAssumption DEF Diff
      <4> QED BY <4>2, Zenon
    <3>2. CASE reg[p].t - head < 0
      <4>1. CASE Cap > 0
        BY <1>2, <1>6, <3>2, <4>1, SMTT(30)
      <4>2. CASE Cap = 0
        <5>1. Diff(reg[p].t, head) \in Nat
          BY <1>2, <1>6, CapAssumption DEF Diff
        <5> QED BY <4>2, <5>1
      <4> QED BY <1>2, <4>1, <4>2
    <3> QED BY <1>2, <1>6, <3>1, <3>2
  <2>5. Diff(reg[p].t, head) \in Nat
    BY <1>2, <1>6, CapAssumption, SMTT(30) DEF Diff
  <2>6. ~(Diff(reg[p].t, head) >= Cap) => reg[p].t - head < Cap
    BY <1>23, <2>4, <2>5
  <2>7. ~mp => p = producer /\ reg[p].t = tail
    BY <1>3, <2>1, Zenon DEF Copies, PushPCs
  <2>8. head <= head
    BY <1>23
  <2>9. Copies(p)'
    BY <2>1, <2>2, <2>3, <2>6, <2>7, <2>8, Zenon DEF Copies, PushPCs, PopPCs
  <2> QED BY <1>7, <2>1, <2>9, Zenon
<1>15. CASE \/ PushReadTailAgain(p) \/ PushCasFails(p) \/ PopCasFails(p)
             \/ SizeReadHeadAgain(p)
  <2>1. /\ pc'[p] \in {"done", "push_tail", "pop_head", "size_head"}
        /\ pc'[p] = "push_tail" => pc[p] \in PushPCs
        /\ pc'[p] = "pop_head" => pc[p] \in PopPCs
        /\ UNCHANGED <<build, head, tail, seen, log, producer, consumer>>
    BY <1>2, <1>15, Zenon
    DEF PushReadTailAgain, PushCasFails, PopCasFails, SizeReadHeadAgain, Answer, Restart,
        Goto, counters, fixed, PushPCs, PopPCs
  <2>2. mp' = mp /\ mc' = mc
    BY <2>1, Zenon DEF mp, mc
  <2>3. Copies(p)'
    BY <1>3, <2>1, <2>2, Zenon DEF Copies, PushPCs, PopPCs
  <2> QED BY <1>7, <2>1, <2>3, Zenon
<1>16. CASE PopReadHead(p)
  <2>1. /\ pc'[p] = "pop_seen" /\ pc[p] = "pop_head" /\ reg'[p].h = head
        /\ UNCHANGED <<build, head, tail, seen, log, producer, consumer>>
    BY <1>2, <1>16 DEF PopReadHead, Goto, counters, fixed, Registers
  <2>2. mc' = mc
    BY <2>1, Zenon DEF mc
  <2>3. head <= head /\ head - head < Half
    BY <1>23, <1>24
  <2>4. ~mc => p = consumer
    BY <1>3, <2>1, Zenon DEF Copies, PopPCs
  <2>5. Copies(p)'
    BY <2>1, <2>2, <2>3, <2>4, Zenon DEF Copies, PushPCs, PopPCs
  <2> QED BY <1>7, <2>1, <2>5, Zenon
<1>17. CASE PopReadSeen(p)
  <2>1. /\ pc'[p] = IF NotAhead(seen, reg[p].h) THEN "pop_tail" ELSE "pop_claim"
        /\ pc[p] = "pop_seen" /\ reg' = reg
        /\ UNCHANGED <<build, head, tail, seen, log, producer, consumer>>
    BY <1>2, <1>17, SMTT(30) DEF PopReadSeen, Goto, counters, fixed
  <2>2. mc' = mc
    BY <2>1, Zenon DEF mc
  <2>3. reg[p].h <= head /\ head - reg[p].h < Half
    BY <1>3, <2>1, Zenon DEF Copies
  <2>n. head - seen <= Half /\ seen <= tail
    BY <1>3, <1>5, <2>1, Zenon DEF Control, PopPCs
  <2>4. ~NotAhead(seen, reg[p].h) => reg[p].h < tail /\ (reg[p].h = head => head - seen < Half)
    BY <1>6, <1>23, <2>3, <2>n, SeenTest, Zenon
  <2>5. Copies(p)'
    BY <1>3, <2>1, <2>2, <2>3, <2>4, Zenon DEF Copies, PushPCs, PopPCs
  <2> QED BY <1>7, <2>1, <2>5, Zenon
<1>18. CASE PopReadTail(p)
  <2>1. /\ pc'[p] = "pop_note" /\ pc[p] = "pop_tail"
        /\ reg'[p].h = reg[p].h /\ reg'[p].t = tail
        /\ UNCHANGED <<build, head, tail, seen, log, producer, consumer>>
    BY <1>2, <1>18 DEF PopReadTail, Goto, counters, fixed, Registers
  <2>2. mc' = mc
    BY <2>1, ZenonT(30) DEF mc
  <2>3. /\ reg'[p].h <= head' /\ head' - reg'[p].h < Half
        /\ reg'[p].t <= tail' /\ tail' - reg'[p].t < Half /\ reg'[p].h <= reg'[p].t
        /\ (~mc => p = consumer /\ reg'[p].h = head)
    <3>1. /\ reg[p].h <= head /\ head - reg[p].h < Half
          /\ (~mc => p = consumer /\ reg[p].h = head)
      BY <1>3, <2>1, Zenon DEF Copies, PopPCs
    <3>2. tail <= tail /\ tail - tail < Half /\ reg[p].h <= tail
      BY <1>6, <1>23, <1>24, <3>1
    <3> QED BY <2>1, <3>1, <3>2, Zenon
  <2>4. Copies(p)'
    BY <2>1, <2>2, <2>3, Zenon DEF Copies, PushPCs, PopPCs
  <2> QED BY <1>7, <2>1, <2>4, Zenon
<1>19. CASE PopNoteTail(p)
  <2>1. /\ pc[p] = "pop_note" /\ seen' = reg[p].t
        /\ \/ pc'[p] = "done"
           \/ pc'[p] = "pop_claim" /\ reg' = reg /\ ~Same(reg[p].h, reg[p].t)
        /\ UNCHANGED <<build, head, tail, log, producer, consumer>>
    BY <1>2, <1>19, Zenon DEF PopNoteTail, Answer, Goto, fixed
  <2>2. mc' = mc
    BY <2>1, Zenon DEF mc
  <2>3. /\ reg[p].h <= reg[p].t /\ reg[p].t <= tail /\ tail - reg[p].t < Half
        /\ reg[p].h <= head /\ head - reg[p].h < Half
    BY <1>3, <2>1, Zenon DEF Copies
  <2>4. ~Same(reg[p].h, reg[p].t) => reg[p].h < reg[p].t
    <3>1. reg[p].h = reg[p].t => Diff(reg[p].h, reg[p].t) = 0
      BY <1>6, CapAssumption DEF Diff
    <3> QED BY <1>6, <2>3, <3>1 DEF Same
  <2>5. CASE pc'[p] = "done"
    BY <1>7, <1>8, <2>1, <2>5, ZenonT(40)
  <2>6. CASE pc'[p] = "pop_claim" /\ reg' = reg /\ ~Same(reg[p].h, reg[p].t)
    <3>1. /\ reg[p].h < tail /\ head - reg[p].t < Half
          /\ ~mc => p = consumer /\ reg[p].h = head
      <4>1. ~mc => p = consumer /\ reg[p].h = head
        BY <1>3, <2>1, Zenon DEF Copies, PopPCs
      <4>2. reg[p].h < reg[p].t /\ reg[p].t <= tail
        BY <2>3, <2>4, <2>6, Zenon
      <4>3. reg[p].h < tail /\ head - reg[p].t < Half
        BY <1>6, <1>23, <1>24, <2>3, <4>2
      <4> QED BY <4>1, <4>3, Zenon
    <3>2. Copies(p)'
      BY <2>1, <2>2, <2>3, <2>6, <3>1, Zenon DEF Copies, PushPCs, PopPCs
    <3> QED BY <1>7, <2>1, <3>2, ZenonT(30)
  <2> QED BY <2>1, <2>5, <2>6, Zenon
<1>20. CASE SizeReadHead(p) \/ SizeReadTail(p)
  <2>1. /\ pc'[p] \in {"size_tail", "size_again"}
        /\ reg'[p].h \in {head, reg[p].h} /\ (reg'[p].h # head => pc[p] = "size_tail")
        /\ UNCHANGED <<build, head, tail, seen, log, producer, consumer>>
    BY <1>2, <1>20 DEF SizeReadHead, SizeReadTail, Goto, counters, fixed, Registers
  <2>2. reg'[p].h <= head' /\ head' - reg'[p].h < Half
    <3>1. CASE reg'[p].h = head
      <4>1. head <= head /\ head - head < Half
        BY <1>23, <1>24
      <4> QED BY <2>1, <3>1, <4>1, Zenon
    <3>2. CASE reg'[p].h # head
      BY <1>3, <2>1, <3>2, Zenon DEF Copies
    <3> QED BY <3>1, <3>2, Zenon
  <2>3. Copies(p)'
    BY <2>1, <2>2, Zenon DEF Copies, PushPCs, PopPCs
  <2> QED BY <1>7, <2>1, <2>3, Zenon
<1>21. CASE LoadState(p) \/ StateCasFails(p)
  <2> DEFINE used == Diff(tail, head)
  <2>1. used = tail - head
    BY <1>2, <1>3, CapAssumption DEF Diff
  <2>2. UNCHANGED <<build, head, tail, seen, log, producer, consumer>>
    BY <1>21, SMTT(30) DEF LoadState, StateCasFails, Examine, counters, fixed
  <2>3. CASE Answer(p, IF call[p].op = "size" THEN used ELSE 0)
    <3>1. pc'[p] = "done"
      BY <1>2, <2>3, SMTT(30) DEF Answer, Goto
    <3> QED BY <1>7, <1>8, <2>2, <3>1, Zenon
  <2>4. CASE /\ call[p].op # "size" /\ ~Refused(p, used)
             /\ Goto(p, "cas") /\ UNCHANGED call
             /\ reg' = [reg EXCEPT ![p].h = head, ![p].t = tail, ![p].k = Share(p, used)]
    <3>1. /\ pc'[p] = "cas" /\ reg'[p].h = head /\ reg'[p].t = tail
          /\ reg'[p].k = Share(p, used)
      BY <1>2, <2>4 DEF Goto, Registers
    <3>2. call[p].n \in Nat /\ used \in Nat /\ Cap - used \in Nat
      BY <1>2, <1>3, <2>1 DEF CallRecords
    <3>6. /\ head <= head /\ tail <= tail /\ head <= tail /\ tail - head <= Cap
          /\ head - head < Half /\ tail - tail < Half
      BY <1>23, <1>24
    <3> HIDE DEF used
    <3>3. CASE call[p].op = "push"
      <4>1. Share(p, used) = BQ!LeastOf(call[p].n, Cap - used) /\ call[p].n # 0 /\ used < Cap
        BY <1>2, <2>4, <3>2, <3>3 DEF Share, Refused
      <4>2. Share(p, used) >= 1 /\ Share(p, used) <= call[p].n
            /\ used + Share(p, used) <= Cap /\ Share(p, used) \in Nat
        BY <1>2, <3>2, <4>1 DEF BQ!LeastOf
      <4>3. tail - head + Share(p, used) <= Cap
        BY <2>1, <4>2, Zenon
      <4>4. Copies(p)'
        BY <2>2, <2>4, <3>1, <3>3, <3>6, <4>2, <4>3, Zenon DEF Copies, PushPCs, PopPCs
      <4> QED BY <1>7, <2>2, <4>4, Zenon
    <3>4. CASE call[p].op = "pop"
      <4>1. Share(p, used) = BQ!LeastOf(call[p].n, used) /\ call[p].n # 0 /\ used # 0
        BY <1>2, <2>4, <3>2, <3>4 DEF Share, Refused
      <4>2. Share(p, used) >= 1 /\ Share(p, used) <= used /\ Share(p, used) \in Nat
        BY <1>2, <3>2, <4>1 DEF BQ!LeastOf
      <4>3. head + Share(p, used) <= tail
        BY <1>23, <2>1, <4>2
      <4>4. Copies(p)'
        BY <2>2, <2>4, <3>1, <3>4, <3>6, <4>2, <4>3, Zenon DEF Copies, PushPCs, PopPCs
      <4> QED BY <1>7, <2>2, <4>4, Zenon
    <3>5. CASE call[p].op \notin {"push", "pop"}
      <4>1. Share(p, used) = 1
        BY <3>5 DEF Share
      <4>2. Copies(p)'
        <5>1. Share(p, used) >= 1
          BY <4>1, SMTT(30)
        <5> QED
          BY <2>2, <2>4, <3>1, <3>5, <3>6, <4>1, <5>1, Zenon DEF Copies, PushPCs, PopPCs
      <4> QED BY <1>7, <2>2, <4>2, Zenon
    <3> QED BY <3>3, <3>4, <3>5, Zenon
  <2> QED BY <1>21, <2>3, <2>4 DEF LoadState, StateCasFails, Examine
<1>22. CASE \/ FillWait(p) \/ FillEnd(p) \/ TakeWait(p) \/ TakeEnd(p)
             \/ CountOverrun(p) \/ Return(p)
  <2>1. /\ pc'[p] \in {"construct", "fill", "done", "move", "take", "count", "idle"}
        /\ UNCHANGED <<build, head, tail, seen, log, producer, consumer>>
    BY <1>2, <1>22, Zenon
    DEF FillWait, FillEnd, Filled, TakeWait, TakeEnd, CountOverrun, Return, Answer, Goto,
        counters, fixed
  <2> QED BY <1>7, <1>8, <2>1, Zenon
<1> QED
  BY Zenon, <1>1, <1>9, <1>10, <1>11, <1>12, <1>13, <1>14, <1>15, <1>16, <1>17, <1>18, <1>19,
     <1>20, <1>21, <1>22, SMTT(30)
  DEF Calls, Step, SplitStep, PackedStep, CellStep, TakesTickets
===============================================================================
