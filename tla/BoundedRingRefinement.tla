------------------------ MODULE BoundedRingRefinement -------------------------
(***************************************************************************)
(* The ring implements the queue under a mutex: every step of BoundedRing  *)
(* is a step of BoundedQueue on the elements from head to tail, or leaves  *)
(* them alone.                                                             *)
(***************************************************************************)
EXTENDS BoundedRingTickets

\* What a pending call has noted: the length the queue has now, and the one a
\* refusal or a size() is about to report. A compare-and-swap is about to claim
\* as many tickets as the word it read allows, no fewer.
Noted(p) ==
  /\ call[p].st = "pending" => {tail - head} \cap BQ!Watched(call[p].op) \subseteq call[p].lens
  /\ pc[p] = "push_again" /\ reg[p].t = tail => Cap \in call[p].lens
  /\ pc[p] = "pop_note" /\ reg[p].t = reg[p].h => 0 \in call[p].lens
  /\ pc[p] = "size_again" /\ reg[p].h = head => reg[p].t - reg[p].h \in call[p].lens
  /\ pc[p] = "cas" /\ call[p].op = "push" =>
       reg[p].k = BQ!LeastOf(call[p].n, Cap - (reg[p].t - reg[p].h))
  /\ pc[p] = "cas" /\ call[p].op = "pop" =>
       reg[p].k = BQ!LeastOf(call[p].n, reg[p].t - reg[p].h)

NotedInv == \A p \in Threads : Noted(p)

-----------------------------------------------------------------------------
(* The elements from head to tail when the counters move. *)

\* The elements of the tickets from a up to b in the log l.
Elements(l, a, b) == [i \in 1..(b - a) |-> l[a - Start + i]]

\* The elements of a range of tickets, in order.
LEMMA WindowSeq ==
  ASSUME NEW l \in Seq(Elem), NEW a \in Nat, NEW b \in Nat,
         Start <= a, a <= b, b - Start <= Len(l)
  PROVE  /\ Elements(l, a, b) \in Seq(Elem) /\ Len(Elements(l, a, b)) = b - a
         /\ \A i \in 1..(b - a) : Elements(l, a, b)[i] = l[a - Start + i]
<1>1. Start \in Nat
  BY CapAssumption
<1>2. \A i \in 1..(b - a) : a - Start + i \in 1..Len(l)
  BY <1>1
<1>3. \A i \in 1..(b - a) : l[a - Start + i] \in Elem
  BY <1>2, MemberIsElem
<1>4. b - a \in Nat
  OBVIOUS
<1> QED BY <1>3, <1>4 DEF Elements

\* The tickets from a up to b are those of the end of the log l, and there are
\* k elements of es to push.
Pushable(l, es, a, b, k) ==
  /\ l \in Seq(Elem) /\ es \in Seq(Elem) /\ a \in Nat /\ b \in Nat /\ k \in Nat
  /\ Start <= a /\ a <= b /\ Len(l) = b - Start /\ k <= Len(es)

Pushed(l, es, a, b, k) ==
  Elements(l \o SubSeq(es, 1, k), a, b + k) = Elements(l, a, b) \o SubSeq(es, 1, k)

\* A push appends.
LEMMA PushWindow ==
  ASSUME NEW l, NEW es, NEW a, NEW b, NEW k, Pushable(l, es, a, b, k)
  PROVE  Pushed(l, es, a, b, k)
<1>0. /\ l \in Seq(Elem) /\ es \in Seq(Elem) /\ a \in Nat /\ b \in Nat /\ k \in Nat
      /\ Start <= a /\ a <= b /\ Len(l) = b - Start /\ k <= Len(es)
  BY Zenon DEF Pushable
<1> USE <1>0
<1> DEFINE s == SubSeq(es, 1, k)
           m == l \o s
           V == Elements(m, a, b + k)
           W == Elements(l, a, b) \o s
<1>1. Start \in Nat /\ b + k \in Nat
  BY CapAssumption
<1>2. s \in Seq(Elem) /\ Len(s) = k
  OBVIOUS
<1>3. /\ m \in Seq(Elem) /\ Len(m) = Len(l) + k
      /\ \A i \in 1..(Len(l) + k) : m[i] = IF i <= Len(l) THEN l[i] ELSE s[i - Len(l)]
  <2> HIDE DEF s
  <2> QED BY <1>2, Joined, Zenon
<1>4. V \in Seq(Elem) /\ Len(V) = (b + k) - a /\ \A i \in 1..((b + k) - a) : V[i] = m[a - Start + i]
  <2>1. (b + k) - Start <= Len(m)
    <3> HIDE DEF m
    <3> QED BY <1>1, <1>3
  <2>2. a <= b + k /\ m \in Seq(Elem)
    BY <1>1, <1>3
  <2> HIDE DEF m
  <2> QED BY <1>1, <2>1, <2>2, WindowSeq, ZenonT(30)
<1>5. /\ Elements(l, a, b) \in Seq(Elem) /\ Len(Elements(l, a, b)) = b - a
      /\ \A i \in 1..(b - a) : Elements(l, a, b)[i] = l[a - Start + i]
  <2>1. b - Start <= Len(l)
    BY <1>1
  <2> QED BY <1>1, <2>1, WindowSeq, ZenonT(30)
<1>6. /\ W \in Seq(Elem) /\ Len(W) = (b - a) + k
      /\ \A i \in 1..((b - a) + k) :
           W[i] = IF i <= b - a THEN Elements(l, a, b)[i] ELSE s[i - (b - a)]
  <2> DEFINE X == Elements(l, a, b)
  <2>1. X \in Seq(Elem) /\ Len(X) = b - a
    BY <1>5
  <2> HIDE DEF s, X
  <2>2. /\ X \o s \in Seq(Elem) /\ Len(X \o s) = Len(X) + Len(s)
        /\ \A i \in 1..(Len(X) + Len(s)) : (X \o s)[i] = IF i <= Len(X) THEN X[i] ELSE s[i - Len(X)]
    BY <1>2, <2>1, Joined, Zenon
  <2> QED BY <1>2, <2>1, <2>2, Zenon DEF X
<1> HIDE DEF s, m, V, W
<1>7. Len(V) = Len(W)
  BY <1>4, <1>6
<1>8. ASSUME NEW i \in 1..Len(V) PROVE V[i] = W[i]
  <2>1. i \in 1..((b + k) - a) /\ i \in 1..((b - a) + k) /\ i \in Nat
    BY <1>4
  <2>2. a - Start + i \in 1..(Len(l) + k) /\ a - Start + i - Len(l) = i - (b - a)
    BY <1>1, <2>1
  <2>3. (a - Start + i <= Len(l)) <=> (i <= b - a)
    BY <1>1, <2>1
  <2>4. CASE i <= b - a
    <3>1. V[i] = l[a - Start + i]
      BY <1>3, <1>4, <2>1, <2>2, <2>3, <2>4, Zenon
    <3>2. W[i] = l[a - Start + i]
      <4>1. W[i] = Elements(l, a, b)[i]
        BY <1>6, <2>1, <2>4, Zenon
      <4>2. i \in 1..(b - a)
        BY <2>1, <2>4
      <4> QED BY <1>5, <4>1, <4>2, Zenon
    <3> QED BY <3>1, <3>2, Zenon
  <2>5. CASE ~(i <= b - a)
    <3>1. V[i] = s[(a - Start + i) - Len(l)]
      BY <1>3, <1>4, <2>1, <2>2, <2>3, <2>5, SMTT(30)
    <3>2. W[i] = s[i - (b - a)]
      BY <1>6, <2>1, <2>5, Zenon
    <3>3. (a - Start + i) - Len(l) = i - (b - a)
      BY <1>1, <2>1
    <3> QED BY <3>1, <3>2, <3>3
  <2> QED BY <2>4, <2>5
<1> QED BY <1>4, <1>6, <1>7, <1>8, SameMembers, Zenon DEF V, W, m, s, Pushed

\* A pop takes the oldest.
LEMMA PopWindow ==
  ASSUME NEW l \in Seq(Elem), NEW a \in Nat, NEW b \in Nat, NEW k \in Nat,
         Start <= a, a + k <= b, Len(l) = b - Start
  PROVE  /\ Elements(l, a + k, b) = SubSeq(Elements(l, a, b), k + 1, b - a)
         /\ Elements(l, a, a + k) = SubSeq(Elements(l, a, b), 1, k)
<1> DEFINE W == Elements(l, a, b)
           U == Elements(l, a + k, b)
           V == Elements(l, a, a + k)
<1>1. Start \in Nat /\ a + k \in Nat
  BY CapAssumption
<1>2. W \in Seq(Elem) /\ Len(W) = b - a /\ \A i \in 1..(b - a) : W[i] = l[a - Start + i]
  <2>1. a <= b /\ b - Start <= Len(l)
    BY <1>1
  <2> QED BY <1>1, <2>1, WindowSeq, Zenon
<1>3. U \in Seq(Elem) /\ Len(U) = b - (a + k) /\ \A i \in 1..(b - (a + k)) : U[i] = l[(a + k) - Start + i]
  <2>1. Start <= a + k /\ b - Start <= Len(l)
    BY <1>1
  <2> QED BY <1>1, <2>1, WindowSeq, Zenon
<1>4. V \in Seq(Elem) /\ Len(V) = (a + k) - a /\ \A i \in 1..((a + k) - a) : V[i] = l[a - Start + i]
  <2>1. a <= a + k /\ (a + k) - Start <= Len(l)
    BY <1>1
  <2> QED BY <1>1, <2>1, WindowSeq, ZenonT(30)
<1> HIDE DEF W, U, V
<1>5. U = SubSeq(W, k + 1, b - a)
  <2> DEFINE S == SubSeq(W, k + 1, b - a)
  <2>1. /\ S \in Seq(Elem) /\ Len(S) = b - (a + k)
        /\ \A i \in 1..(b - (a + k)) : S[i] = W[k + i]
    BY <1>2
  <2> HIDE DEF S
  <2>2. ASSUME NEW i \in 1..(b - (a + k)) PROVE U[i] = S[i]
    <3>1. k + i \in 1..(b - a) /\ a - Start + (k + i) = (a + k) - Start + i
      BY <1>1
    <3>2. S[i] = W[k + i] /\ W[k + i] = l[a - Start + (k + i)]
      BY <1>2, <2>1, <3>1
    <3> QED BY <1>3, <3>1, <3>2
  <2> QED BY <1>3, <2>1, <2>2, SameMembers, Zenon DEF S
<1>6. V = SubSeq(W, 1, k)
  <2> DEFINE S == SubSeq(W, 1, k)
  <2>1. /\ S \in Seq(Elem) /\ Len(S) = k
        /\ \A i \in 1..k : S[i] = W[i]
    BY <1>2
  <2> HIDE DEF S
  <2>2. (a + k) - a = k /\ k <= b - a
    BY <1>1
  <2>3. ASSUME NEW i \in 1..k PROVE V[i] = S[i]
    <3>1. i \in 1..(b - a) /\ i \in 1..((a + k) - a)
      BY <1>1, <2>2
    <3> QED BY <1>2, <1>4, <2>1, <3>1, Zenon
  <2> QED BY <1>4, <2>1, <2>2, <2>3, SameMembers DEF S
<1> QED BY <1>5, <1>6 DEF W, U, V

\* A sequence of one element.
LEMMA OneElement ==
  ASSUME NEW es \in Seq(Elem), Len(es) = 1
  PROVE  es[1] \in Elem /\ SubSeq(es, 1, 1) = <<es[1]>>
<1>1. es[1] \in Elem
  <2>1. 1 \in 1..Len(es)
    OBVIOUS
  <2> QED BY <2>1, MemberIsElem
<1> DEFINE s == SubSeq(es, 1, 1)
<1>2. \A k \in Nat : k <= Len(es) =>
        /\ SubSeq(es, 1, k) \in Seq(Elem) /\ Len(SubSeq(es, 1, k)) = k
        /\ \A i \in 1..k : SubSeq(es, 1, k)[i] = es[i]
  OBVIOUS
<1>3. s \in Seq(Elem) /\ Len(s) = 1 /\ \A i \in 1..1 : s[i] = es[i]
  BY <1>2
<1>4. <<es[1]>> \in Seq(Elem) /\ Len(<<es[1]>>) = 1 /\ <<es[1]>>[1] = es[1]
  BY <1>1
<1> HIDE DEF s
<1>5. \A i \in 1..1 : s[i] = <<es[1]>>[i]
  <2>1. \A i \in 1..1 : i = 1
    OBVIOUS
  <2> QED BY <1>3, <1>4, <2>1
<1>6. s = <<es[1]>>
  BY <1>3, <1>4, <1>5, SameMembers
<1> QED BY <1>1, <1>6 DEF s

\* A push of one element appends it.
LEMMA PushOne ==
  ASSUME NEW l \in Seq(Elem), NEW es \in Seq(Elem), NEW a \in Nat, NEW b \in Nat,
         Start <= a, a <= b, Len(l) = b - Start, Len(es) = 1
  PROVE  Elements(l \o SubSeq(es, 1, 1), a, b + 1) = Append(Elements(l, a, b), es[1])
<1>1. Pushable(l, es, a, b, 1)
  <2>1. 1 \in Nat /\ 1 <= Len(es)
    OBVIOUS
  <2> QED BY <2>1, Zenon DEF Pushable
<1> DEFINE s == SubSeq(es, 1, 1)
<1>2. Elements(l \o s, a, b + 1) = Elements(l, a, b) \o s
  <2>1. Pushed(l, es, a, b, 1)
    BY <1>1, PushWindow, Zenon
  <2> QED BY <2>1, Zenon DEF Pushed
<1>3. Elements(l, a, b) \in Seq(Elem)
  BY WindowSeq, CapAssumption
<1>4. es[1] \in Elem /\ s = <<es[1]>>
  BY OneElement
<1> HIDE DEF s
<1>5. Elements(l, a, b) \o s = Append(Elements(l, a, b), es[1])
  BY <1>3, <1>4, JoinedOne
<1> QED BY <1>2, <1>5, Zenon DEF s

\* An overrun of a full queue drops the oldest and appends.
LEMMA OverrunWindow ==
  ASSUME NEW l \in Seq(Elem), NEW es \in Seq(Elem), NEW a \in Nat, NEW b \in Nat,
         Start <= a, a < b, Len(l) = b - Start, Len(es) = 1
  PROVE  Elements(l \o SubSeq(es, 1, 1), a + 1, b + 1) = Append(Tail(Elements(l, a, b)), es[1])
<1> DEFINE W == Elements(l, a, b)
<1>1. Start \in Nat /\ a + 1 \in Nat /\ Start <= a + 1 /\ a + 1 <= b /\ a <= b /\ b - Start <= Len(l)
  BY CapAssumption
<1>2. Elements(l \o SubSeq(es, 1, 1), a + 1, b + 1) = Append(Elements(l, a + 1, b), es[1])
  BY <1>1, PushOne, ZenonT(30)
<1>3. W \in Seq(Elem) /\ Len(W) = b - a
  BY <1>1, WindowSeq, Zenon
<1>4. Elements(l, a + 1, b) = SubSeq(W, 1 + 1, b - a)
  <2>1. \A k \in Nat : a + k <= b => Elements(l, a + k, b) = SubSeq(W, k + 1, b - a)
    BY PopWindow, ZenonT(30)
  <2> QED BY <1>1, <2>1
<1> HIDE DEF W
<1>5. SubSeq(W, 1 + 1, b - a) = Tail(W)
  BY <1>1, <1>3
<1> QED BY <1>2, <1>4, <1>5, Zenon DEF W

-----------------------------------------------------------------------------
(* The steps that take effect. *)

\* The types the lemmas below need.
LEMMA Kinds ==
  ASSUME IInv, NEW p \in Threads
  PROVE  /\ call \in [Threads -> CallRecords] /\ pc \in [Threads -> PCs]
         /\ reg \in [Threads -> Registers(Elem \cup {NoElem})]
         /\ log \in Seq(Elem) /\ Len(log) = tail - Start
         /\ head \in Nat /\ tail \in Nat /\ Start \in Nat /\ Cap \in Nat
         /\ Start <= head /\ head <= tail /\ tail - head <= Cap
         /\ reg[p].h \in Nat /\ reg[p].t \in Nat /\ reg[p].k \in Nat
         /\ call[p].es \in Seq(Elem) /\ call[p].n \in Nat /\ call[p].lens \subseteq 0..Cap
<1>1. /\ call \in [Threads -> CallRecords] /\ pc \in [Threads -> PCs]
      /\ reg \in [Threads -> Registers(Elem \cup {NoElem})]
      /\ log \in Seq(Elem) /\ head \in Nat /\ tail \in Nat
  BY Zenon DEF IInv, TypeInv, Typed
<1>2. call[p] \in CallRecords /\ reg[p] \in Registers(Elem \cup {NoElem})
  BY <1>1, Zenon
<1>3. call[p].es \in Seq(Elem) /\ call[p].n \in Nat /\ call[p].lens \subseteq 0..Cap
  BY <1>2 DEF CallRecords
<1>4. reg[p].h \in Nat /\ reg[p].t \in Nat /\ reg[p].k \in Nat
  BY <1>2 DEF Registers
<1>5. Start <= head /\ head <= tail /\ tail - head <= Cap /\ Len(log) = tail - Start
  BY DEF IInv, CounterInv
<1>6. Start \in Nat /\ Cap \in Nat
  BY CapAssumption
<1> QED BY <1>1, <1>3, <1>4, <1>5, <1>6, Zenon

\* The queue as the log has it, before and after the counters move.
LEMMA QueueIs ==
  ASSUME IInv, NEW p \in Threads
  PROVE  /\ Between(head, tail) = Elements(log, head, tail)
         /\ Between(head, tail) \in Seq(Elem) /\ Len(Between(head, tail)) = tail - head
<1>1. Between(head, tail) = Elements(log, head, tail)
  BY DEF Between, Elements
<1>2. /\ log \in Seq(Elem) /\ head \in Nat /\ tail \in Nat /\ Start <= head /\ head <= tail
      /\ tail - Start <= Len(log)
  BY Kinds
<1>3. Elements(log, head, tail) \in Seq(Elem) /\ Len(Elements(log, head, tail)) = tail - head
  BY <1>2, WindowSeq
<1> QED BY <1>1, <1>3

\* The queue after the counters move, as the new log has it.
LEMMA QueueMoves ==
  ASSUME IInv, NEW p \in Threads, NEW h \in Nat, NEW t \in Nat, NEW num \in Nat,
         head <= h, h <= tail, tail <= t, t - tail <= Len(call[p].es), Take(p, h, t, num)
  PROVE  /\ Between(head, tail)' = Elements(log \o SubSeq(call[p].es, 1, t - tail), h, t)
         /\ Len(Between(head, tail)') = t - h
         /\ call'[p].st = "effected"
<1>1. /\ log \in Seq(Elem) /\ head \in Nat /\ tail \in Nat /\ Start <= head /\ head <= tail
      /\ Len(log) = tail - Start /\ Start \in Nat
  BY Kinds
<1>2. head' = h /\ tail' = t /\ log' = log \o SubSeq(call[p].es, 1, t - tail)
  BY DEF Take
<1>3. log' \in Seq(Elem) /\ Len(log') = t - Start /\ call'[p].st = "effected"
  BY <1>1, TakeCalls, Zenon DEF IInv
<1>4. Between(head, tail)' = Elements(log', h, t)
  BY <1>2 DEF Between, Elements
<1>5. Start <= h /\ h <= t /\ t - Start <= Len(log')
  BY <1>1, <1>3
<1>6. Len(Elements(log', h, t)) = t - h
  BY <1>3, <1>5, WindowSeq, Zenon
<1> QED BY <1>2, <1>3, <1>4, <1>6

\* The queue after a push.
LEMMA QueuePushed ==
  ASSUME IInv, NEW p \in Threads, NEW k \in Nat, k <= Len(call[p].es)
  PROVE  Elements(log \o SubSeq(call[p].es, 1, k), head, tail + k)
           = Elements(log, head, tail) \o SubSeq(call[p].es, 1, k)
<1>1. Pushable(log, call[p].es, head, tail, k)
  BY Kinds, Zenon DEF Pushable
<1>2. Pushed(log, call[p].es, head, tail, k)
  BY <1>1, PushWindow, Zenon
<1> QED BY <1>2, Zenon DEF Pushed

\* The queue after a pop, and what the pop takes.
LEMMA QueuePopped ==
  ASSUME IInv, NEW p \in Threads, NEW k \in Nat, head + k <= tail
  PROVE  /\ Elements(log, head + k, tail) = SubSeq(Elements(log, head, tail), k + 1, tail - head)
         /\ Elements(log, head, head + k) = SubSeq(Elements(log, head, tail), 1, k)
<1>1. PICK l \in Seq(Elem), a \in Nat, b \in Nat :
        /\ l = log /\ a = head /\ b = tail /\ Start <= a /\ Len(l) = b - Start
  BY Kinds, Zenon
<1>2. /\ Elements(l, a + k, b) = SubSeq(Elements(l, a, b), k + 1, b - a)
      /\ Elements(l, a, a + k) = SubSeq(Elements(l, a, b), 1, k)
  <2>1. Start <= a /\ a + k <= b /\ Len(l) = b - Start
    BY <1>1
  <2> QED BY <2>1, PopWindow, ZenonT(30)
<1> QED BY <1>1, <1>2, Zenon

\* A push that claims k tickets appends k elements.
LEMMA PushImplements ==
  ASSUME IInv, NEW p \in Threads, NEW k \in Nat, k > 0, call[p].st = "pending",
         call[p].op = "push", k = BQ!LeastOf(Len(call[p].es), Cap - (tail - head)),
         Take(p, head, tail + k, k)
  PROVE  BQ!Push(p) /\ call'[p] # call[p]
<1>1. /\ log \in Seq(Elem) /\ head \in Nat /\ tail \in Nat /\ Start <= head /\ head <= tail
      /\ Len(log) = tail - Start /\ Cap \in Nat /\ tail - head <= Cap
      /\ call[p].es \in Seq(Elem)
  BY Kinds
<1>2. k <= Len(call[p].es) /\ (tail + k) - tail = k /\ tail + k \in Nat /\ tail <= tail + k
  <2>1. Len(call[p].es) \in Nat /\ Cap - (tail - head) \in Nat
    BY <1>1
  <2>2. k <= Len(call[p].es)
    BY <2>1, SharesType, Zenon
  <2> QED BY <1>1, <2>2
<1> DEFINE queue == Between(head, tail)
<1>3. queue = Elements(log, head, tail) /\ Len(queue) = tail - head
  BY QueueIs
<1>4. /\ queue' = Elements(log \o SubSeq(call[p].es, 1, (tail + k) - tail), head, tail + k)
      /\ Len(queue') = (tail + k) - head /\ call'[p].st = "effected"
  <2>1. (tail + k) - tail <= Len(call[p].es) /\ head <= head
    BY <1>1, <1>2
  <2> QED BY <1>1, <1>2, <2>1, QueueMoves, Zenon
<1>5. queue' = queue \o SubSeq(call[p].es, 1, k)
  <2>1. Elements(log \o SubSeq(call[p].es, 1, k), head, tail + k)
          = Elements(log, head, tail) \o SubSeq(call[p].es, 1, k)
    BY <1>2, QueuePushed, Zenon
  <2>2. queue' = Elements(log \o SubSeq(call[p].es, 1, k), head, tail + k)
    BY <1>2, <1>4
  <2> QED BY <1>3, <2>1, <2>2, Zenon
<1>6. call' = [BQ!Witness(call, (tail + k) - head) EXCEPT ![p] = BQ!Effected(call[p], k, <<>>)]
  BY DEF Take
<1> HIDE DEF queue
<1>7. call'[p] # call[p]
  BY <1>4
<1>8. BQ!Push(p)
  BY <1>3, <1>4, <1>5, <1>6, Zenon DEF BQ!Push, queue
<1> QED BY <1>7, <1>8

\* A pop that claims k tickets removes the k oldest elements.
LEMMA PopImplements ==
  ASSUME IInv, NEW p \in Threads, NEW k \in Nat, k > 0, call[p].st = "pending",
         call[p].op = "pop", k = BQ!LeastOf(call[p].n, tail - head),
         Take(p, head + k, tail, k)
  PROVE  BQ!Pop(p) /\ call'[p] # call[p]
<1>1. /\ log \in Seq(Elem) /\ head \in Nat /\ tail \in Nat /\ Start <= head /\ head <= tail
      /\ Len(log) = tail - Start /\ call[p].n \in Nat /\ call[p].es \in Seq(Elem)
  BY Kinds
<1>2. head + k <= tail /\ head + k \in Nat /\ head <= head + k /\ tail - tail = 0
  BY <1>1, SharesType, SMTT(30)
<1> DEFINE queue == Between(head, tail)
<1>3. queue = Elements(log, head, tail) /\ Len(queue) = tail - head
  BY QueueIs
<1>4. /\ queue' = Elements(log \o SubSeq(call[p].es, 1, tail - tail), head + k, tail)
      /\ Len(queue') = tail - (head + k) /\ call'[p].st = "effected"
  <2>1. tail - tail <= Len(call[p].es) /\ tail <= tail
    BY <1>1, <1>2, SMTT(30)
  <2> QED BY <1>1, <1>2, <2>1, QueueMoves, Zenon
<1>5. log \o SubSeq(call[p].es, 1, tail - tail) = log
  BY <1>1, <1>2
<1>6. /\ Elements(log, head + k, tail) = SubSeq(Elements(log, head, tail), k + 1, tail - head)
      /\ Elements(log, head, head + k) = SubSeq(Elements(log, head, tail), 1, k)
  BY <1>2, QueuePopped, Zenon
<1>7. queue' = SubSeq(queue, k + 1, Len(queue))
  BY <1>3, <1>4, <1>5, <1>6, Zenon
<1>8. Between(head, head + k) = SubSeq(queue, 1, k)
  <2>1. Between(head, head + k) = Elements(log, head, head + k)
    BY DEF Between, Elements
  <2> QED BY <1>3, <1>6, <2>1
<1>9. call' = [BQ!Witness(call, tail - (head + k)) EXCEPT
                 ![p] = BQ!Effected(call[p], k, Between(head, head + k))]
  BY DEF Take
<1> HIDE DEF queue
<1>10. call'[p] # call[p]
  BY <1>4
<1>11. BQ!Pop(p)
  BY <1>3, <1>4, <1>7, <1>8, <1>9, Zenon DEF BQ!Pop, queue
<1> QED BY <1>10, <1>11

\* The queue after an overrun of a full ring.
LEMMA QueueOverrun ==
  ASSUME IInv, NEW p \in Threads, Len(call[p].es) = 1
  PROVE  /\ Elements(log \o SubSeq(call[p].es, 1, 1), head, tail + 1)
              = Append(Elements(log, head, tail), call[p].es[1])
         /\ head < tail => Elements(log \o SubSeq(call[p].es, 1, 1), head + 1, tail + 1)
                             = Append(Tail(Elements(log, head, tail)), call[p].es[1])
<1>1. PICK l \in Seq(Elem), es \in Seq(Elem), a \in Nat, b \in Nat :
        /\ l = log /\ es = call[p].es /\ a = head /\ b = tail
        /\ Start <= a /\ a <= b /\ Len(l) = b - Start
  BY Kinds, Zenon
<1>2. Start <= a /\ a <= b /\ Len(l) = b - Start /\ Len(es) = 1
  BY <1>1
<1>3. Elements(l \o SubSeq(es, 1, 1), a, b + 1) = Append(Elements(l, a, b), es[1])
  BY <1>2, PushOne, ZenonT(30)
<1>4. ASSUME a < b
      PROVE  Elements(l \o SubSeq(es, 1, 1), a + 1, b + 1) = Append(Tail(Elements(l, a, b)), es[1])
  BY <1>2, <1>4, OverrunWindow, ZenonT(30)
<1> QED BY <1>1, <1>3, <1>4, Zenon

\* An overrun appends, and drops the oldest when the queue is full; that leaves
\* the length alone, so no call sees a length it has not noted.
LEMMA OverrunImplements ==
  ASSUME IInv, NotedInv, NEW p \in Threads, PackedOverrun(p)
  PROVE  BQ!Overrun(p) /\ call'[p] # call[p]
<1>1. /\ head \in Nat /\ tail \in Nat /\ head <= tail /\ tail - head <= Cap /\ Cap \in Nat
      /\ call \in [Threads -> CallRecords] /\ call[p].es \in Seq(Elem)
  BY Kinds
<1>2. pc[p] = "cas" /\ call[p].op = "overrun" /\ Same(head, reg[p].h) /\ Same(tail, reg[p].t)
  BY DEF PackedOverrun, StateCas
<1>3. reg[p].h = head /\ reg[p].t = tail /\ Cap > 0 /\ Len(call[p].es) = 1
  BY <1>2, PackedTickets
<1>4. call[p].st = "pending"
  BY <1>2, Zenon DEF IInv, ControlInv, Control
<1>5. Diff(tail, head) = tail - head
  BY <1>1, DiffUp, CapAssumption
<1>6. Full(p) <=> tail - head = Cap
  BY <1>1, <1>3, <1>5 DEF Full
<1> DEFINE queue == Between(head, tail)
           es == call[p].es
<1>7. queue = Elements(log, head, tail) /\ Len(queue) = tail - head
  BY QueueIs
<1>8. /\ Elements(log \o SubSeq(es, 1, 1), head, tail + 1) = Append(queue, es[1])
      /\ head < tail => Elements(log \o SubSeq(es, 1, 1), head + 1, tail + 1)
                          = Append(Tail(queue), es[1])
  BY <1>3, <1>7, QueueOverrun, Zenon
<1>9. (tail + 1) - tail = 1 /\ tail + 1 \in Nat /\ head + 1 \in Nat /\ tail <= tail + 1
      /\ head <= head + 1 /\ 1 \in Nat /\ 0 \in Nat
  BY <1>1
<1>10. CASE Full(p)
  <2>1. Take(p, head + 1, tail + 1, 1)
    BY <1>3, <1>10 DEF PackedOverrun, StateCas
  <2>2. head + 1 <= tail /\ head < tail /\ (tail + 1) - (head + 1) = Cap /\ (tail + 1) - tail <= Len(es)
    BY <1>1, <1>3, <1>6, <1>10
  <2>3. /\ queue' = Elements(log \o SubSeq(es, 1, (tail + 1) - tail), head + 1, tail + 1)
        /\ call'[p].st = "effected"
    BY <1>9, <2>1, <2>2, QueueMoves, SMTT(30)
  <2>4. queue' = Append(Tail(queue), es[1])
    BY <1>8, <1>9, <2>2, <2>3, Zenon
  <2>5. call' = [BQ!Witness(call, Cap) EXCEPT ![p] = BQ!Effected(call[p], 1, <<>>)]
    BY <1>2, <2>1, <2>2, Zenon DEF Take
  <2>6. BQ!Witness(call, Cap) = call
    <3>1. ASSUME NEW q \in Threads, call[q].st = "pending"
          PROVE  [call[q] EXCEPT !.lens = call[q].lens \cup ({Cap} \cap BQ!Watched(call[q].op))] = call[q]
      <4>1. {tail - head} \cap BQ!Watched(call[q].op) \subseteq call[q].lens
        BY <3>1 DEF NotedInv, Noted
      <4>2. call[q].lens \cup ({Cap} \cap BQ!Watched(call[q].op)) = call[q].lens
        BY <1>6, <1>10, <4>1
      <4>3. call[q] \in CallRecords
        BY <1>1
      <4> QED BY <4>2, <4>3, Zenon DEF CallRecords
    <3> QED BY <1>1, <3>1, Zenon DEF BQ!Witness
  <2>7. Len(queue) = Cap
    BY <1>6, <1>7, <1>10
  <2> HIDE DEF queue
  <2>8. call' = [call EXCEPT ![p] = BQ!Effected(call[p], 1, <<>>)]
    BY <2>5, <2>6, Zenon
  <2>9. BQ!Overrun(p)
    BY <1>2, <1>3, <1>4, <2>4, <2>7, <2>8, Zenon DEF BQ!Overrun, queue
  <2> QED BY <1>4, <2>3, <2>9
<1>11. CASE ~Full(p)
  <2>1. Take(p, head, tail + 1, 0)
    BY <1>3, <1>11 DEF PackedOverrun, StateCas
  <2>2. head <= tail /\ head <= head /\ (tail + 1) - tail <= Len(es) /\ tail - head < Cap
    BY <1>1, <1>3, <1>6, <1>11
  <2>3. /\ queue' = Elements(log \o SubSeq(es, 1, (tail + 1) - tail), head, tail + 1)
        /\ Len(queue') = (tail + 1) - head /\ call'[p].st = "effected"
    BY <1>1, <1>9, <2>1, <2>2, QueueMoves, Zenon
  <2>4. queue' = Append(queue, es[1])
    BY <1>8, <1>9, <2>3, Zenon
  <2>5. call' = [BQ!Witness(call, (tail + 1) - head) EXCEPT ![p] = BQ!Effected(call[p], 0, <<>>)]
    BY <1>2, <2>1 DEF Take
  <2>6. Len(queue) < Cap
    BY <1>7, <2>2
  <2> HIDE DEF queue
  <2>7. BQ!Overrun(p)
    BY <1>2, <1>4, <2>3, <2>4, <2>5, <2>6, Zenon DEF BQ!Overrun, queue
  <2> QED BY <1>4, <2>3, <2>7
<1> QED BY <1>10, <1>11

\* Every step that takes tickets is the effect of its operation.
LEMMA TicketsImplement ==
  ASSUME IInv, NotedInv, NEW p \in Threads, TakesTickets(p)
  PROVE  BQ!QNext
<1>1. /\ head \in Nat /\ tail \in Nat /\ head <= tail /\ tail - head <= Cap /\ Cap \in Nat
      /\ call[p].es \in Seq(Elem) /\ call[p].n \in Nat /\ reg[p].k \in Nat
  BY Kinds
<1>2. Control(p) /\ Noted(p)
  BY DEF IInv, ControlInv, NotedInv
<1>3. CASE PushStore(p) \/ PushCas(p)
  <2>1. /\ pc[p] = "push_claim" /\ call[p].op = "push" /\ reg[p].t = tail
        /\ tail + 1 - head <= Cap /\ Len(call[p].es) = 1 /\ PushTake(p)
    BY <1>3, PushTickets
  <2>2. call[p].st = "pending"
    BY <1>2, <2>1 DEF Control, PushPCs
  <2>3. Take(p, head, tail + 1, 1)
    BY <2>1 DEF PushTake
  <2>4. 1 = BQ!LeastOf(Len(call[p].es), Cap - (tail - head))
    BY <1>1, <2>1 DEF BQ!LeastOf
  <2>5. 1 \in Nat /\ 1 > 0
    OBVIOUS
  <2>6. BQ!Push(p) /\ call'[p] # call[p]
    BY <2>1, <2>2, <2>3, <2>4, <2>5, PushImplements, Zenon
  <2> QED BY <2>6, Zenon DEF BQ!QNext
<1>4. CASE PopStore(p) \/ PopCas(p)
  <2>1. /\ pc[p] = "pop_claim" /\ call[p].op = "pop" /\ reg[p].h = head
        /\ head < tail /\ PopTake(p)
    BY <1>4, PopTickets, Zenon
  <2>2. call[p].st = "pending" /\ call[p].n = 1
    BY <1>2, <2>1 DEF Control, PopPCs
  <2>3. Take(p, head + 1, tail, 1)
    BY <2>1 DEF PopTake
  <2>4. 1 = BQ!LeastOf(call[p].n, tail - head)
    BY <1>1, <2>1, <2>2 DEF BQ!LeastOf
  <2>5. 1 \in Nat /\ 1 > 0
    OBVIOUS
  <2>6. BQ!Pop(p) /\ call'[p] # call[p]
    BY <2>1, <2>2, <2>3, <2>4, <2>5, PopImplements, Zenon
  <2> QED BY <2>6, Zenon DEF BQ!QNext
<1>5. CASE PackedPush(p)
  <2>1. /\ pc[p] = "cas" /\ call[p].op = "push" /\ Same(head, reg[p].h) /\ Same(tail, reg[p].t)
        /\ Take(p, reg[p].h, reg[p].t + reg[p].k, reg[p].k)
    BY <1>5, Zenon DEF PackedPush, StateCas
  <2>2. reg[p].h = head /\ reg[p].t = tail /\ reg[p].k >= 1
    BY <2>1, PackedTickets, Zenon
  <2>3. call[p].st = "pending" /\ Len(call[p].es) = call[p].n
    BY <1>2, <2>1, Zenon DEF Control
  <2>4. reg[p].k = BQ!LeastOf(Len(call[p].es), Cap - (tail - head))
    BY <1>2, <2>1, <2>2, <2>3, Zenon DEF Noted
  <2>5. reg[p].k > 0
    BY <1>1, <2>2
  <2>6. BQ!Push(p) /\ call'[p] # call[p]
    BY <1>1, <2>1, <2>2, <2>3, <2>4, <2>5, PushImplements, Zenon
  <2> QED BY <2>6, Zenon DEF BQ!QNext
<1>6. CASE PackedPop(p)
  <2>1. /\ pc[p] = "cas" /\ call[p].op = "pop" /\ Same(head, reg[p].h) /\ Same(tail, reg[p].t)
        /\ Take(p, reg[p].h + reg[p].k, reg[p].t, reg[p].k)
    BY <1>6 DEF PackedPop, StateCas
  <2>2. reg[p].h = head /\ reg[p].t = tail /\ reg[p].k >= 1
    BY <2>1, PackedTickets, SMTT(30)
  <2>3. call[p].st = "pending"
    BY <1>2, <2>1, Zenon DEF Control
  <2>4. reg[p].k = BQ!LeastOf(call[p].n, tail - head)
    BY <1>2, <2>1, <2>2, Zenon DEF Noted
  <2>5. reg[p].k > 0
    BY <1>1, <2>2
  <2>6. BQ!Pop(p) /\ call'[p] # call[p]
    BY <1>1, <2>1, <2>2, <2>3, <2>4, <2>5, PopImplements, Zenon
  <2> QED BY <2>6, Zenon DEF BQ!QNext
<1>7. CASE PackedOverrun(p)
  <2>1. BQ!Overrun(p) /\ call'[p] # call[p]
    BY <1>7, OverrunImplements
  <2> QED BY <2>1, Zenon DEF BQ!QNext
<1> QED BY <1>3, <1>4, <1>5, <1>6, <1>7 DEF TakesTickets

-----------------------------------------------------------------------------
(* The steps that answer, begin or return, and those that do none of it. *)

\* A refusal and a size() answer with a length the call has seen; an overrun
\* at capacity zero drops its own element.
LEMMA AnswersImplement ==
  ASSUME IInv, NotedInv, NEW p \in Threads, NEW num,
         \/ PushReadTailAgain(p) \/ PopNoteTail(p) \/ SizeReadHeadAgain(p)
         \/ LoadState(p) \/ StateCasFails(p) \/ CountOverrun(p),
         Answer(p, num)
  PROVE  BQ!QNext
<1>1. /\ head \in Nat /\ tail \in Nat /\ head <= tail /\ tail - head <= Cap /\ Cap \in Nat
      /\ call[p].es \in Seq(Elem) /\ call[p].n \in Nat /\ call[p].lens \subseteq 0..Cap
      /\ reg[p].h \in Nat /\ reg[p].t \in Nat /\ call \in [Threads -> CallRecords]
      /\ pc \in [Threads -> PCs]
  BY Kinds, Zenon
<1>2. Control(p) /\ Noted(p) /\ Copies(p)
  BY DEF IInv, ControlInv, NotedInv, CounterInv
<1> DEFINE queue == Between(head, tail)
<1>3. call' = [call EXCEPT ![p] = BQ!Effected(call[p], num, <<>>)] /\ call'[p].st = "effected"
  <2>1. call' = [call EXCEPT ![p] = BQ!Effected(call[p], num, <<>>)]
    BY DEF Answer
  <2>2. call'[p] = BQ!Effected(call[p], num, <<>>) /\ call[p] \in CallRecords
    BY <1>1, <2>1, Zenon
  <2>3. call'[p].st = "effected"
    BY <2>2 DEF BQ!Effected, CallRecords
  <2> QED BY <2>1, <2>3
<1>4. queue' = queue
  <2>1. head' = head /\ tail' = tail /\ log' = log
    BY DEF PushReadTailAgain, PopNoteTail, SizeReadHeadAgain, LoadState, StateCasFails,
      Examine, CountOverrun, counters
  <2> QED BY <2>1 DEF Between
<1>5. pc'[p] = "done"
  BY <1>1, Zenon DEF Answer, Goto
<1>6. ASSUME call[p].st = "pending", call'[p].st = "effected" PROVE call'[p] # call[p]
  BY <1>6
<1> HIDE DEF queue
<1>7. ASSUME call[p].st = "pending", num = 0,
             \/ call[p].op = "push" /\ (Cap \in call[p].lens \/ call[p].es = <<>>)
             \/ call[p].op = "pop" /\ (0 \in call[p].lens \/ call[p].n = 0)
      PROVE  BQ!QNext
  <2>1. BQ!Refuse(p)
    BY <1>3, <1>4, <1>7, Zenon DEF BQ!Refuse, queue
  <2> QED BY <1>3, <1>6, <1>7, <2>1, Zenon DEF BQ!QNext
<1>8. ASSUME call[p].st = "pending", call[p].op = "size", num \in call[p].lens
      PROVE  BQ!QNext
  <2>1. BQ!Size(p)
    BY <1>3, <1>4, <1>8, Zenon DEF BQ!Size, queue
  <2> QED BY <1>3, <1>6, <1>8, <2>1, Zenon DEF BQ!QNext
<1>9. CASE PushReadTailAgain(p)
  <2>1. pc[p] = "push_again" /\ Same(tail, reg[p].t)
    BY <1>5, <1>1, <1>9, Zenon DEF PushReadTailAgain, Restart, Goto
  <2>2. call[p].op = "push" /\ call[p].st = "pending"
    BY <1>2, <2>1, Zenon DEF Control, PushPCs
  <2>3. reg[p].t = tail
    <3>1. reg[p].t <= tail /\ tail - reg[p].t < Half
      BY <1>2, <2>1, Zenon DEF Copies
    <3> QED BY <1>1, <2>1, <3>1, SameNear
  <2>4. Cap \in call[p].lens
    BY <1>2, <2>1, <2>3, Zenon DEF Noted
  <2>5. num = 0
    <3>1. Answer(p, 0)
      BY <1>9, <2>1, Zenon DEF PushReadTailAgain
    <3>2. call'[p].num = 0 /\ call'[p].num = num
      BY <1>1, <1>3, <3>1, ZenonT(30) DEF Answer, BQ!Effected, CallRecords
    <3> QED BY <3>2, Zenon
  <2> QED BY <1>7, <2>2, <2>4, <2>5, SMTT(30)
<1>10. CASE PopNoteTail(p)
  <2>1. pc[p] = "pop_note" /\ Same(reg[p].h, reg[p].t)
    BY <1>5, <1>1, <1>10, Zenon DEF PopNoteTail, Goto
  <2>2. call[p].op = "pop" /\ call[p].st = "pending"
    BY <1>2, <2>1, ZenonT(30) DEF Control, PopPCs
  <2>3. reg[p].t = reg[p].h
    <3>1. reg[p].h <= reg[p].t /\ reg[p].t <= tail /\ head - reg[p].h < Half
      BY <1>2, <2>1, Zenon DEF Copies
    <3>2. reg[p].t - reg[p].h < Mod
      BY <1>1, <3>1, HalfBound, SMTT(30)
    <3>3. CASE reg[p].h < reg[p].t
      <4>1. Diff(reg[p].h, reg[p].t) = reg[p].h - reg[p].t + Mod
        <5>1. reg[p].h - reg[p].t < 0 /\ reg[p].h - reg[p].t >= -Mod
          BY <1>1, <3>2, <3>3, CapAssumption, SMTT(30)
        <5> QED BY <1>1, <5>1, DiffDown
      <4>2. reg[p].h - reg[p].t + Mod # 0
        BY <1>1, <3>2, CapAssumption
      <4> QED BY <2>1, <4>1, <4>2, Zenon DEF Same
    <3> QED BY <1>1, <3>1, <3>3
  <2>4. 0 \in call[p].lens
    BY <1>2, <2>1, <2>3, Zenon DEF Noted
  <2>5. num = 0
    <3>1. Answer(p, 0)
      BY <1>10, <2>1, Zenon DEF PopNoteTail
    <3>2. call'[p].num = 0 /\ call'[p].num = num
      BY <1>1, <1>3, <3>1, Zenon DEF Answer, BQ!Effected, CallRecords
    <3> QED BY <3>2
  <2> QED BY <1>7, <2>2, <2>4, <2>5, Zenon
<1>11. CASE SizeReadHeadAgain(p)
  <2>1. pc[p] = "size_again" /\ Same(head, reg[p].h)
    BY <1>5, <1>1, <1>11, Zenon DEF SizeReadHeadAgain, Restart, Goto
  <2>2. call[p].op = "size" /\ call[p].st = "pending"
    BY <1>2, <2>1, Zenon DEF Control, SizePCs
  <2>3. reg[p].h = head
    <3>1. reg[p].h <= head /\ head - reg[p].h < Half
      BY <1>2, <2>1, Zenon DEF Copies
    <3>2. head \in Int /\ reg[p].h \in Int /\ head - reg[p].h >= 0
      BY <1>1, <3>1
    <3> QED BY <2>1, <3>1, <3>2, SameNear, Zenon
  <2>4. reg[p].t - reg[p].h \in call[p].lens
    BY <1>2, <2>1, <2>3, Zenon DEF Noted
  <2>5. Diff(reg[p].t, reg[p].h) = reg[p].t - reg[p].h
    <3>1. reg[p].t - reg[p].h \in 0..Cap
      BY <1>1, <2>4, Zenon
    <3>2. /\ reg[p].t \in Int /\ reg[p].h \in Int
          /\ 0 <= reg[p].t - reg[p].h /\ reg[p].t - reg[p].h < Mod
      BY <1>1, <3>1, CapAssumption
    <3> QED BY <3>2, DiffUp, Zenon
  <2>6. num = Diff(reg[p].t, reg[p].h)
    <3>1. Answer(p, Diff(reg[p].t, reg[p].h))
      BY <1>11, <2>1, Zenon DEF SizeReadHeadAgain
    <3>2. call'[p].num = Diff(reg[p].t, reg[p].h) /\ call'[p].num = num
      BY <1>1, <1>3, <3>1, ZenonT(30) DEF Answer, BQ!Effected, CallRecords
    <3> QED BY <3>2
  <2> QED BY <1>8, <2>2, <2>4, <2>5, <2>6, Zenon
<1>12. CASE LoadState(p) \/ StateCasFails(p)
  <2>1. pc[p] \in {"load", "cas"} /\ Examine(p)
    BY <1>12, SMTT(30) DEF LoadState, StateCasFails
  <2>2. call[p].st = "pending"
    BY <1>2, <2>1, Zenon DEF Control
  <2>3. Diff(tail, head) = tail - head
    <3>1. tail \in Int /\ head \in Int /\ 0 <= tail - head /\ tail - head < Mod
      BY <1>1, CapAssumption, SMTT(30)
    <3> QED BY <3>1, DiffUp, SMTT(30)
  <2>4. /\ call[p].op = "size" \/ Refused(p, tail - head)
        /\ Answer(p, IF call[p].op = "size" THEN tail - head ELSE 0)
    <3>1. ~Goto(p, "cas")
      BY <1>1, <1>5, Zenon DEF Goto
    <3>2. /\ call[p].op = "size" \/ Refused(p, Diff(tail, head))
          /\ Answer(p, IF call[p].op = "size" THEN Diff(tail, head) ELSE 0)
      BY <2>1, <3>1, Zenon DEF Examine
    <3> QED BY <2>3, <3>2, Zenon
  <2>5. num = IF call[p].op = "size" THEN tail - head ELSE 0
    <3> DEFINE v == IF call[p].op = "size" THEN tail - head ELSE 0
    <3>1. Answer(p, v)
      BY <2>4
    <3> HIDE DEF v
    <3>2. call'[p].num = v /\ call'[p].num = num
      BY <1>1, <1>3, <3>1, ZenonT(30) DEF Answer, BQ!Effected, CallRecords
    <3> QED BY <3>2 DEF v
  <2>6. {tail - head} \cap BQ!Watched(call[p].op) \subseteq call[p].lens
    BY <1>2, <2>2, Zenon DEF Noted
  <2>7. CASE call[p].op = "size"
    <3>1. tail - head \in BQ!Watched(call[p].op)
      BY <1>1, <2>7, SMTT(30) DEF BQ!Watched
    <3> QED BY <1>8, <2>2, <2>5, <2>6, <2>7, <3>1, Zenon
  <2>8. CASE call[p].op = "push"
    <3>1. Len(call[p].es) = call[p].n
      BY <1>2, <2>8, Zenon DEF Control
    <3>2. call[p].n = 0 \/ tail - head = Cap
      BY <1>1, <2>4, <2>8 DEF Refused
    <3>3. call[p].n = 0 => call[p].es = <<>>
      BY <1>1, <3>1
    <3>4. tail - head = Cap => Cap \in call[p].lens
      BY <1>1, <2>6, <2>8, Zenon DEF BQ!Watched
    <3> QED BY <1>7, <2>2, <2>5, <2>8, <3>2, <3>3, <3>4, Zenon
  <2>9. CASE call[p].op = "pop"
    <3>1. call[p].n = 0 \/ tail - head = 0
      BY <1>1, <2>4, <2>9, Zenon DEF Refused
    <3>2. tail - head = 0 => 0 \in call[p].lens
      BY <1>1, <2>6, <2>9, ZenonT(30) DEF BQ!Watched
    <3> QED BY <1>7, <2>2, <2>5, <2>9, <3>1, <3>2, Zenon
  <2> QED BY <2>4, <2>7, <2>8, <2>9, Zenon DEF Refused
<1>13. CASE CountOverrun(p)
  <2>1. pc[p] = "count" /\ Cap = 0
    BY <1>1, <1>5, <1>13, Zenon DEF CountOverrun, Goto
  <2>2. call[p].op = "overrun" /\ call[p].st = "pending"
    BY <1>2, <2>1, Zenon DEF Control
  <2>3. num = 1
    <3>1. Answer(p, 1)
      BY <1>13, <2>1, CapAssumption DEF CountOverrun
    <3>2. call'[p].num = 1 /\ call'[p].num = num
      BY <1>1, <1>3, <3>1, ZenonT(30) DEF Answer, BQ!Effected, CallRecords
    <3> QED BY <3>2, Zenon
  <2>4. BQ!Overrun(p)
    BY <1>3, <1>4, <2>1, <2>2, <2>3, Zenon DEF BQ!Overrun, queue
  <2> QED BY <1>3, <1>6, <2>2, <2>4, ZenonT(30) DEF BQ!QNext
<1> QED BY <1>9, <1>10, <1>11, <1>12, <1>13, SMTT(30)

\* A call begins an operation, on the queue as it is.
LEMMA CallsImplement ==
  ASSUME IInv, NEW p \in Threads, NEW op \in BQ!Ops \ {"none"}, NEW es \in Seq(Elem),
         NEW n \in Nat, NEW l, Call(p, op, es, n, l)
  PROVE  BQ!QNext
<1>1. call \in [Threads -> CallRecords] /\ head \in Nat /\ tail \in Nat
  BY Kinds, Zenon
<1>2. pc[p] = "idle" /\ head' = head /\ tail' = tail /\ log' = log
      /\ call' = [call EXCEPT ![p] = BQ!Called(op, es, n, tail - head)]
  BY SMTT(30) DEF Call, counters
<1>3. call[p].st = "idle"
  <2>1. call[p] = BQ!Idle
    BY <1>2, Zenon DEF IInv, ControlInv, Control
  <2> QED BY <2>1 DEF BQ!Idle
<1> DEFINE queue == Between(head, tail)
<1>4. queue' = queue /\ Len(queue) = tail - head
  BY <1>2, QueueIs, ZenonT(30) DEF Between
<1>5. call'[p] = BQ!Called(op, es, n, tail - head)
  BY <1>1, <1>2
<1>6. call'[p].op = op /\ call'[p].es = es /\ call'[p].n = n /\ call'[p].st = "pending"
  BY <1>5 DEF BQ!Called
<1> HIDE DEF queue
<1>7. call'[p] # call[p]
  BY <1>3, <1>6
<1>8. BQ!Begin(p)
  BY <1>2, <1>3, <1>4, <1>6, Zenon DEF BQ!Begin, queue
<1> QED BY <1>7, <1>8, Zenon DEF BQ!QNext

\* Every step of the ring is a step of the queue, or leaves it alone.
LEMMA StepImplements ==
  ASSUME IInv, NotedInv, NEW p \in Threads, Calls(p) \/ Step(p)
  PROVE  [BQ!QNext]_(BQ!qvars)
<1>1. /\ call \in [Threads -> CallRecords] /\ calls \in 0..MaxCalls
  BY Kinds, Zenon DEF IInv, TypeInv, Typed
<1>2. ASSUME UNCHANGED <<head, tail, log, call>> PROVE UNCHANGED BQ!qvars
  BY <1>2 DEF BQ!qvars, Between
<1>3. CASE reset_overrun_counter(p)
  BY <1>2, <1>3 DEF reset_overrun_counter, counters
<1>4. CASE CallPush(p)
  <2>1. PICK n \in Sizes :
          Call(p, "push", NewElems(p, n), n, IF packed THEN "load" ELSE "push_tail")
    BY <1>4 DEF CallPush
  <2>2. n \in Nat /\ p \in Producers /\ calls \in Nat /\ calls < MaxCalls
    BY <1>1, <1>4, <2>1, ConstantAssumption DEF CallPush, Sizes, Call
  <2>3. NewElems(p, n) \in Seq(Elem)
    BY <2>2, NewElemsType
  <2>4. "push" \in BQ!Ops \ {"none"}
    BY DEF BQ!Ops
  <2> QED BY <2>1, <2>2, <2>3, <2>4, CallsImplement, Zenon
<1>5. CASE CallOverrun(p)
  <2>1. Call(p, "overrun", NewElems(p, 1), 1, IF Cap = 0 THEN "count" ELSE "load")
    BY <1>5 DEF CallOverrun
  <2>2. 1 \in Nat /\ p \in Producers /\ calls \in Nat /\ calls < MaxCalls
    BY <1>1, <1>5, <2>1, ConstantAssumption DEF CallOverrun, Call
  <2>3. NewElems(p, 1) \in Seq(Elem)
    BY <2>2, NewElemsType
  <2>4. "overrun" \in BQ!Ops \ {"none"}
    BY DEF BQ!Ops
  <2> QED BY <2>1, <2>2, <2>3, <2>4, CallsImplement, Zenon
<1>6. CASE CallPop(p)
  <2>1. PICK n \in Sizes : Call(p, "pop", <<>>, n, IF packed THEN "load" ELSE "pop_head")
    BY <1>6 DEF CallPop
  <2>2. n \in Nat
    BY <2>1, ConstantAssumption DEF Sizes
  <2>3. <<>> \in Seq(Elem) /\ "pop" \in BQ!Ops \ {"none"}
    BY DEF BQ!Ops
  <2> QED BY <2>1, <2>2, <2>3, CallsImplement, Zenon
<1>7. CASE CallSize(p)
  <2>1. Call(p, "size", <<>>, 0, IF packed THEN "load" ELSE "size_head")
    BY <1>7 DEF CallSize
  <2>2. <<>> \in Seq(Elem) /\ "size" \in BQ!Ops \ {"none"} /\ 0 \in Nat
    BY DEF BQ!Ops
  <2> QED BY <2>1, <2>2, CallsImplement, Zenon
<1>8. CASE Return(p)
  <2>1. pc[p] = "done" /\ call' = [call EXCEPT ![p] = BQ!Idle] /\ UNCHANGED <<head, tail, log>>
    BY <1>8, SMTT(30) DEF Return, counters
  <2>2. call[p].st = "effected"
    BY <2>1, Zenon DEF IInv, ControlInv, Control
  <2>3. call'[p].st = "idle"
    BY <1>1, <2>1 DEF BQ!Idle
  <2>4. UNCHANGED Between(head, tail)
    BY <2>1 DEF Between
  <2>5. BQ!Return(p)
    BY <2>1, <2>2, <2>4, Zenon DEF BQ!Return
  <2>6. call'[p] # call[p]
    BY <2>2, <2>3
  <2> QED BY <2>5, <2>6, Zenon DEF BQ!QNext
<1>9. CASE TakesTickets(p)
  BY <1>9, TicketsImplement
<1>10. CASE \/ PushReadTail(p) \/ PushReadHead(p) \/ PushCasFails(p) \/ PopReadHead(p)
            \/ PopReadSeen(p) \/ PopReadTail(p) \/ PopCasFails(p) \/ SizeReadHead(p)
            \/ SizeReadTail(p)
  BY <1>2, <1>10
  DEF PushReadTail, PushReadHead, PushCasFails, PopReadHead, PopReadSeen, PopReadTail,
      PopCasFails, SizeReadHead, SizeReadTail, Restart, counters
<1>11. CASE FillWait(p) \/ FillEnd(p) \/ TakeWait(p) \/ TakeEnd(p)
  BY <1>2, <1>11, Zenon DEF FillWait, FillEnd, TakeWait, TakeEnd, counters
<1>12. CASE \/ PushReadTailAgain(p) \/ PopNoteTail(p) \/ SizeReadHeadAgain(p)
            \/ LoadState(p) \/ StateCasFails(p) \/ CountOverrun(p)
  <2>1. (\E num : Answer(p, num)) \/ UNCHANGED <<head, tail, log, call>>
    BY <1>12
    DEF PushReadTailAgain, PopNoteTail, SizeReadHeadAgain, LoadState, StateCasFails, Examine,
      CountOverrun, Restart, counters
  <2> QED BY <1>2, <1>12, <2>1, AnswersImplement, Zenon
<1> QED BY <1>3, <1>4, <1>5, <1>6, <1>7, <1>8, <1>9, <1>10, <1>11, <1>12, ZenonT(30)
  DEF Calls, Step, SplitStep, PackedStep, CellStep, TakesTickets

-----------------------------------------------------------------------------
(* What the calls have noted, from step to step. *)

\* A step that takes no tickets leaves the counters and the others' calls alone.
LEMMA OthersKept ==
  ASSUME IInv, NEW p \in Threads, Calls(p) \/ Step(p), ~TakesTickets(p)
  PROVE  /\ head' = head /\ tail' = tail
         /\ \A q \in Threads : q # p => call'[q] = call[q]
<1>1. call \in [Threads -> CallRecords]
  BY Kinds, Zenon
<1>2. CASE Calls(p)
  <2>1. ASSUME NEW op, NEW es, NEW n, NEW l, Call(p, op, es, n, l)
        PROVE  head' = head /\ tail' = tail /\ \A q \in Threads : q # p => call'[q] = call[q]
    BY <1>1, <2>1 DEF Call, counters
  <2>2. CASE reset_overrun_counter(p)
    BY <2>2 DEF reset_overrun_counter, counters
  <2> QED BY <1>2, <2>1, <2>2, Zenon DEF Calls, CallPush, CallOverrun, CallPop, CallSize
<1>3. ASSUME NEW num, Answer(p, num) PROVE \A q \in Threads : q # p => call'[q] = call[q]
  BY <1>1, <1>3 DEF Answer
<1>4. CASE Return(p)
  BY <1>1, <1>4 DEF Return, counters
<1>5. CASE \/ PushReadTail(p) \/ PushReadHead(p) \/ PushReadTailAgain(p) \/ PushCasFails(p)
           \/ PopReadHead(p) \/ PopReadSeen(p) \/ PopReadTail(p) \/ PopNoteTail(p)
           \/ PopCasFails(p) \/ SizeReadHead(p) \/ SizeReadTail(p) \/ SizeReadHeadAgain(p)
  BY <1>3, <1>5, Zenon
  DEF PushReadTail, PushReadHead, PushReadTailAgain, PushCasFails, PopReadHead, PopReadSeen,
      PopReadTail, PopNoteTail, PopCasFails, SizeReadHead, SizeReadTail, SizeReadHeadAgain,
      Restart, counters
<1>6. CASE LoadState(p) \/ StateCasFails(p) \/ CountOverrun(p)
  BY <1>3, <1>6 DEF LoadState, StateCasFails, Examine, CountOverrun, counters
<1>7. CASE FillWait(p) \/ FillEnd(p) \/ TakeWait(p) \/ TakeEnd(p)
  BY <1>7 DEF FillWait, FillEnd, TakeWait, TakeEnd, counters
<1> QED BY <1>2, <1>4, <1>5, <1>6, <1>7, ZenonT(30)
  DEF Step, SplitStep, PackedStep, CellStep, TakesTickets

\* A step of one thread leaves what the others have noted true.
LEMMA OthersNoted ==
  ASSUME IInv, NotedInv, NEW p \in Threads, Calls(p) \/ Step(p), NEW q \in Threads, q # p
  PROVE  Noted(q)'
<1>1. /\ pc'[q] = pc[q] /\ reg'[q] = reg[q]
      /\ call'[q].op = call[q].op /\ call'[q].n = call[q].n /\ call'[q].st = call[q].st
  BY StepFrame
<1>2. Noted(q) /\ Copies(q) /\ Control(q)
  BY SMTT(30) DEF NotedInv, IInv, CounterInv, ControlInv
<1>3. CASE ~TakesTickets(p)
  <2>1. head' = head /\ tail' = tail /\ call'[q] = call[q]
    BY <1>3, OthersKept
  <2> QED BY <1>1, <1>2, <2>1, ZenonT(30) DEF Noted
<1>4. CASE TakesTickets(p)
  <2>1. PICK h \in Nat, t \in Nat, num \in Nat :
          /\ Take(p, h, t, num) /\ head <= h /\ h <= tail /\ tail <= t
          /\ t - tail <= Len(call[p].es)
    BY <1>4, TicketStep
  <2>2. head' = h /\ tail' = t
    BY <2>1, SMTT(30) DEF Take
  <2>3. /\ call \in [Threads -> CallRecords] /\ head \in Nat /\ tail \in Nat
        /\ reg[q].h \in Nat /\ reg[q].t \in Nat
    BY Kinds, Zenon
  <2>4. call'[q] = BQ!Witness(call, t - h)[q]
    <3>1. BQ!Witness(call, t - h) \in [Threads -> CallRecords]
      <4>1. t - h \in Int
        BY <2>1
      <4> QED BY <2>3, <4>1, WitnessType, ZenonT(40)
    <3> QED BY <2>1, <3>1, Zenon DEF Take
  <2>5. call'[q].lens = IF call[q].st = "pending"
                        THEN call[q].lens \cup ({t - h} \cap BQ!Watched(call[q].op))
                        ELSE call[q].lens
    <3>1. t - h \in Int
      BY <2>1
    <3>2. BQ!Witness(call, t - h)[q].lens =
            IF call[q].st = "pending"
            THEN call[q].lens \cup ({t - h} \cap BQ!Watched(call[q].op))
            ELSE call[q].lens
      BY <2>3, <3>1, WitnessType, ZenonT(40)
    <3> QED BY <2>4, <3>2, Zenon
  <2>6. call[q].lens \subseteq call'[q].lens
    BY <2>5, Zenon
  <2>7. call'[q].st = "pending" => {tail' - head'} \cap BQ!Watched(call'[q].op) \subseteq call'[q].lens
    BY <1>1, <2>2, <2>5, Zenon
  <2>8. pc'[q] = "push_again" /\ reg'[q].t = tail' => Cap \in call'[q].lens
    <3>1. pc[q] = "push_again" => reg[q].t <= tail
      BY <1>2, Zenon DEF Copies
    <3>2. pc[q] = "push_again" /\ reg[q].t = t => reg[q].t = tail
      BY <2>1, <2>3, <3>1, SMTT(30)
    <3> QED BY <1>1, <1>2, <2>2, <2>6, <3>2, Zenon DEF Noted
  <2>9. pc'[q] = "pop_note" /\ reg'[q].t = reg'[q].h => 0 \in call'[q].lens
    BY <1>1, <1>2, <2>6, ZenonT(30) DEF Noted
  <2>10. pc'[q] = "size_again" /\ reg'[q].h = head' => reg'[q].t - reg'[q].h \in call'[q].lens
    <3>1. pc[q] = "size_again" => reg[q].h <= head
      BY <1>2, Zenon DEF Copies
    <3>2. pc[q] = "size_again" /\ reg[q].h = h => reg[q].h = head
      BY <2>1, <2>3, <3>1, SMTT(30)
    <3> QED BY <1>1, <1>2, <2>2, <2>6, <3>2, ZenonT(30) DEF Noted
  <2>11. /\ pc'[q] = "cas" /\ call'[q].op = "push" =>
              reg'[q].k = BQ!LeastOf(call'[q].n, Cap - (reg'[q].t - reg'[q].h))
         /\ pc'[q] = "cas" /\ call'[q].op = "pop" =>
              reg'[q].k = BQ!LeastOf(call'[q].n, reg'[q].t - reg'[q].h)
    BY <1>1, <1>2, Zenon DEF Noted
  <2> QED BY <2>7, <2>8, <2>9, <2>10, <2>11, Zenon DEF Noted
<1> QED BY <1>3, <1>4

\* So does it leave its own.
LEMMA OwnNoted ==
  ASSUME IInv, NotedInv, NEW p \in Threads, Calls(p) \/ Step(p)
  PROVE  Noted(p)'
<1>1. /\ call \in [Threads -> CallRecords] /\ pc \in [Threads -> PCs]
      /\ reg \in [Threads -> Registers(Elem \cup {NoElem})]
      /\ head \in Nat /\ tail \in Nat /\ head <= tail /\ tail - head <= Cap /\ Cap \in Nat
      /\ reg[p].h \in Nat /\ reg[p].t \in Nat
  BY Kinds, ZenonT(30)
<1>2. Noted(p) /\ Copies(p) /\ Control(p)
  BY SMTT(30) DEF NotedInv, IInv, CounterInv, ControlInv
<1> DEFINE Plain(l) == l # "push_again" /\ l # "pop_note" /\ l # "size_again" /\ l # "cas"
<1>3. ASSUME Plain(pc'[p]), call'[p].st # "pending" PROVE Noted(p)'
  BY <1>3, Zenon DEF Noted
<1>4. ASSUME Plain(pc'[p]), call' = call, head' = head, tail' = tail PROVE Noted(p)'
  BY <1>2, <1>4, Zenon DEF Noted
<1>5. ASSUME NEW op, NEW es, NEW n, NEW l, Plain(l), Call(p, op, es, n, l) PROVE Noted(p)'
  <2>1. pc'[p] = l /\ head' = head /\ tail' = tail
    BY <1>1, <1>5, Zenon DEF Call, Goto, counters
  <2>2. call'[p] = BQ!Called(op, es, n, tail - head)
    BY <1>1, <1>5, Zenon DEF Call
  <2>3. call'[p].op = op /\ call'[p].lens = {tail - head} \cap BQ!Watched(op)
    BY <2>2 DEF BQ!Called
  <2> QED BY <1>5, <2>1, <2>3, Zenon DEF Noted
<1>6. CASE Calls(p)
  <2>1. CASE reset_overrun_counter(p)
    <3>1. call' = call /\ pc' = pc /\ reg' = reg /\ head' = head /\ tail' = tail
      BY <2>1, SMTT(30) DEF reset_overrun_counter, counters
    <3> QED BY <1>2, <3>1, Zenon DEF Noted
  <2> QED BY <1>5, <1>6, <2>1, Zenon DEF Calls, CallPush, CallOverrun, CallPop, CallSize
<1>7. ASSUME NEW num, Answer(p, num) PROVE Noted(p)'
  <2>1. pc'[p] = "done" /\ call'[p].st = "effected"
    BY <1>1, <1>7 DEF Answer, Goto, BQ!Effected, CallRecords
  <2> QED BY <1>3, <2>1, Zenon
<1>8. ASSUME NEW l, Plain(l), Restart(p, l), head' = head, tail' = tail PROVE Noted(p)'
  <2>1. pc'[p] = l /\ call' = call
    BY <1>1, <1>8 DEF Restart, Goto
  <2> QED BY <1>4, <1>8, <2>1
<1>9. CASE Return(p)
  <2>1. pc'[p] = "idle" /\ call'[p].st = "idle"
    BY <1>1, <1>9, Zenon DEF Return, Goto, BQ!Idle
  <2> QED BY <1>3, <2>1, Zenon
<1>10. CASE TakesTickets(p)
  <2>1. Plain(pc'[p])
    BY <1>1, <1>10, TicketStep, Zenon DEF Goto
  <2>2. call'[p].st = "effected"
    <3>1. TypeInv /\ Start <= head /\ Len(log) = tail - Start
      BY DEF IInv, CounterInv
    <3> QED BY <1>10, <3>1, TicketStep, TakeCalls, Zenon
  <2> QED BY <1>3, <2>1, <2>2, Zenon
<1>11. CASE \/ PushReadTail(p) \/ PopReadHead(p) \/ PopReadSeen(p) \/ SizeReadHead(p)
            \/ FillWait(p) \/ FillEnd(p) \/ TakeWait(p) \/ TakeEnd(p)
  <2>1. Plain(pc'[p])
    BY <1>1, <1>11, Zenon
    DEF PushReadTail, PopReadHead, PopReadSeen, SizeReadHead, FillWait, FillEnd, Filled, TakeWait,
      TakeEnd, Goto
  <2>2. call' = call /\ head' = head /\ tail' = tail
    BY <1>11, Zenon
    DEF PushReadTail, PopReadHead, PopReadSeen, SizeReadHead, FillWait, FillEnd, TakeWait,
      TakeEnd, counters
  <2> QED BY <1>4, <2>1, <2>2, SMTT(30)
<1>12. CASE PushCasFails(p) \/ PopCasFails(p)
  <2>1. /\ Restart(p, "push_tail") \/ Restart(p, "pop_head")
        /\ head' = head /\ tail' = tail
    BY <1>12 DEF PushCasFails, PopCasFails, counters
  <2> QED BY <1>8, <2>1
<1>13. CASE PushReadTailAgain(p) \/ SizeReadHeadAgain(p)
  <2>1. /\ Restart(p, "push_tail") \/ Restart(p, "size_head") \/ \E num : Answer(p, num)
        /\ head' = head /\ tail' = tail
    BY <1>13, Zenon DEF PushReadTailAgain, SizeReadHeadAgain, counters
  <2> QED BY <1>7, <1>8, <2>1, SMTT(30)
<1>14. CASE PopNoteTail(p)
  <2>1. /\ (pc'[p] = "pop_claim" /\ call' = call) \/ \E num : Answer(p, num)
        /\ head' = head /\ tail' = tail
    BY <1>1, <1>14, Zenon DEF PopNoteTail, Goto
  <2> QED BY <1>4, <1>7, <2>1
<1>15. CASE CountOverrun(p)
  <2>1. /\ (pc'[p] = "fill" /\ call' = call) \/ \E num : Answer(p, num)
        /\ head' = head /\ tail' = tail
    BY <1>1, <1>15, Zenon DEF CountOverrun, Goto, counters
  <2> QED BY <1>4, <1>7, <2>1
<1>16. Diff(tail, head) = tail - head
  <2>1. tail \in Int /\ head \in Int /\ 0 <= tail - head /\ tail - head < Mod
    BY <1>1, CapAssumption, SMTT(30)
  <2> QED BY <2>1, DiffUp
<1>17. CASE PushReadHead(p)
  <2>1. /\ pc[p] = "push_head" /\ call' = call /\ head' = head /\ tail' = tail
        /\ reg'[p].t = reg[p].t
        /\ pc'[p] = IF Diff(reg[p].t, head) >= Cap THEN "push_again" ELSE "push_claim"
    BY <1>1, <1>17, SMTT(30) DEF PushReadHead, Goto, counters, Registers
  <2>2. call[p].st = "pending" /\ call[p].op = "push"
    BY <1>2, <2>1, ZenonT(30) DEF Control, PushPCs
  <2>3. ASSUME pc'[p] = "push_again", reg[p].t = tail PROVE Cap \in call[p].lens
    <3>1. tail - head = Cap
      <4>1. tail - head >= Cap
        BY <1>16, <2>1, <2>3, Zenon
      <4> QED BY <1>1, <4>1
    <3>2. Cap \in BQ!Watched(call[p].op)
      BY <2>2, SMTT(30) DEF BQ!Watched
    <3> QED BY <1>2, <2>2, <3>1, <3>2, ZenonT(30) DEF Noted
  <2> QED BY <1>2, <2>1, <2>3, Zenon DEF Noted
<1>18. CASE PopReadTail(p)
  <2>1. /\ pc[p] = "pop_tail" /\ call' = call /\ head' = head /\ tail' = tail
        /\ reg'[p].t = tail /\ reg'[p].h = reg[p].h /\ pc'[p] = "pop_note"
    BY <1>1, <1>18, SMTT(30) DEF PopReadTail, Goto, counters, Registers
  <2>2. call[p].st = "pending" /\ call[p].op = "pop" /\ reg[p].h <= head
    BY <1>2, <2>1, ZenonT(30) DEF Control, PopPCs, Copies
  <2>3. ASSUME tail = reg[p].h PROVE 0 \in call[p].lens
    <3>1. tail - head = 0
      BY <1>1, <2>2, <2>3
    <3>2. 0 \in BQ!Watched(call[p].op)
      BY <2>2, SMTT(30) DEF BQ!Watched
    <3> QED BY <1>2, <2>2, <3>1, <3>2, Zenon DEF Noted
  <2> QED BY <1>2, <2>1, <2>3, Zenon DEF Noted
<1>19. CASE SizeReadTail(p)
  <2>1. /\ pc[p] = "size_tail" /\ call' = call /\ head' = head /\ tail' = tail
        /\ reg'[p].t = tail /\ reg'[p].h = reg[p].h /\ pc'[p] = "size_again"
    BY <1>1, <1>19, SMTT(30) DEF SizeReadTail, Goto, counters, Registers
  <2>2. call[p].st = "pending" /\ call[p].op = "size"
    BY <1>2, <2>1, Zenon DEF Control, SizePCs
  <2>3. tail - head \in call[p].lens
    <3>1. tail - head \in BQ!Watched(call[p].op)
      BY <1>1, <2>2 DEF BQ!Watched
    <3> QED BY <1>2, <2>2, <3>1, Zenon DEF Noted
  <2> QED BY <1>2, <2>1, <2>3, Zenon DEF Noted
<1>20. CASE LoadState(p) \/ StateCasFails(p)
  <2>1. Examine(p)
    BY <1>20 DEF LoadState, StateCasFails
  <2>2. CASE \E num : Answer(p, num)
    BY <1>7, <2>2
  <2>3. CASE ~\E num : Answer(p, num)
    <3>1. /\ reg' = [reg EXCEPT ![p].h = head, ![p].t = tail, ![p].k = Share(p, Diff(tail, head))]
          /\ Goto(p, "cas") /\ call' = call /\ head' = head /\ tail' = tail
      BY <2>1, <2>3, Zenon DEF Examine, counters
    <3>2. /\ reg'[p].h = head /\ reg'[p].t = tail /\ reg'[p].k = Share(p, tail - head)
          /\ pc'[p] = "cas"
      BY <1>1, <1>16, <3>1 DEF Goto, Registers
    <3>3. /\ call[p].op = "push" => Share(p, tail - head) = BQ!LeastOf(call[p].n, Cap - (tail - head))
          /\ call[p].op = "pop" => Share(p, tail - head) = BQ!LeastOf(call[p].n, tail - head)
      BY DEF Share
    <3> QED BY <1>2, <3>1, <3>2, <3>3, Zenon DEF Noted
  <2> QED BY <2>2, <2>3
<1> QED BY <1>6, <1>9, <1>10, <1>11, <1>12, <1>13, <1>14, <1>15, <1>17, <1>18, <1>19, <1>20, Zenon
  DEF Step, SplitStep, PackedStep, CellStep, TakesTickets
===============================================================================
