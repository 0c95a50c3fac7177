---------------------------- MODULE WaiterProofs -----------------------------
(***************************************************************************)
(* No wake-up of Waiter is lost, for every number of consumers and         *)
(* producers, every size of a publish and every number of waits.           *)
(***************************************************************************)
EXTENDS Waiter, FiniteSetTheorems, TLAPS

ConsumerPCs ==
  {"out", "first_look", "spin_closed", "spin_look", "park_closed", "park_look", "announce",
   "key", "last_closed", "last_look", "check", "futex", "asleep", "cancel"}
ProducerPCs == {"out", "notify", "close", "wake", "futex_wake"}

Up == [to |-> "waiters", n |-> 1]
Down == [to |-> "waiters", n |-> -1]
ProducerStores == [to : {"queue"}, n : Nat] \cup [to : {"closed"}, n : {1}]

TypeInv ==
  /\ policy \in {"spin", "park", "spin_then_park"}
  /\ elems \in Nat /\ waiters \in Nat /\ epoch \in 0..(Epochs - 1) /\ closed \in BOOLEAN
  /\ owed \in Nat /\ owed <= elems
  /\ DOMAIN pc = Threads /\ DOMAIN buf = Threads
  /\ \A c \in Consumers : pc[c] \in ConsumerPCs
  /\ \A p \in Producers : pc[p] \in ProducerPCs /\ buf[p] \in Seq(ProducerStores)
  /\ key \in [Consumers -> 0..(Epochs - 1)]
  /\ count \in [Producers -> Nat]
  /\ publishes \in 0..MaxPublish
  /\ sleepers = {c \in Consumers : pc[c] = "asleep"}

\* Where a consumer has announced itself and not taken it back.
Announced == {"key", "last_closed", "last_look", "check", "futex", "asleep", "cancel"}
\* Where it holds a key.
Keyed == {"last_closed", "last_look", "check", "futex", "asleep"}

\* How many wake-ups before this value of the futex word there have been.
Age(e) == IF e >= Epoch0 THEN e - Epoch0 ELSE e - Epoch0 + Epochs

\* A consumer's buffer holds at most the end of one wait and the start of the
\* next; one that only spins announces nothing; its key is not from the future.
Waiting(c) ==
  /\ \/ buf[c] = <<>>
     \/ buf[c] = <<Down>> /\ pc[c] \notin Announced
     \/ buf[c] = <<Up>> /\ pc[c] = "key"
     \/ buf[c] = <<Down, Up>> /\ pc[c] = "key"
  /\ policy = "spin" => pc[c] \in {"out", "first_look", "spin_closed", "spin_look"}
  /\ pc[c] \in Keyed => Age(key[c]) <= Age(epoch)

\* A producer's buffer, when there are sleepers to wake.
Publishing(p) ==
  /\ pc[p] \in {"out", "wake", "futex_wake"} => buf[p] = <<>>
  /\ pc[p] = "notify" => buf[p] = <<>> \/ buf[p] = <<[to |-> "queue", n |-> count[p]]>>
  /\ pc[p] = "close" => (buf[p] = <<>> /\ closed) \/ buf[p] = <<[to |-> "closed", n |-> 1]>>

\* The consumers that waiters_ counts in memory.
Counted ==
  {c \in Consumers : IF buf[c] = <<>> THEN pc[c] \in Announced ELSE buf[c][1] = Down}

\* Every publish and the close bump the word at most once.
ToBump == {p \in Producers : pc[p] \in {"notify", "close", "wake"}}
Closing == closed \/ \E p \in Producers : pc[p] = "close"
EpochInv == Age(epoch) + Cardinality(ToBump) <= publishes + (IF Closing THEN 1 ELSE 0)

\* The producers whose elements are visible and that have not bumped the
\* word yet, and those that have wake-ups to give.
Due == {p \in Producers : pc[p] = "wake" \/ (pc[p] = "notify" /\ Fenced(p))}
Waking == Due \cup {p \in Producers : pc[p] = "futex_wake"}

\* The looks of the consumers of W and the f[p] wake-ups of each producer of P.
Pairs(W, P, f) == (W \X {0}) \cup UNION {{p} \X (1..f[p]) : p \in P}

\* The looks and the wake-ups to come, the latter from the producers of P.
Cover(P) == Pairs(WillLook, P, count)

\* The consumers on their way to sleep with the word as it is. Such a one saw
\* the queue empty: what has come since, a producer that has not bumped the
\* word yet has to notify. So it is once it sleeps, and then the producer has
\* yet to wake somebody.
Committed == {c \in Consumers : pc[c] \in {"check", "futex"} /\ key[c] = epoch}

Covered ==
  /\ Committed # {} => elems <= Cardinality(Cover(Due))
  /\ sleepers # {} => elems <= Cardinality(Cover(Waking))

WaiterInv ==
  /\ TypeInv
  /\ \A c \in Consumers : Waiting(c)
  /\ waiters = Cardinality(Counted)
  /\ policy # "spin" => /\ \A p \in Producers : Publishing(p)
                        /\ EpochInv
  /\ Covered

-----------------------------------------------------------------------------
(* Counting looks and wake-ups. *)

\* One member more.
LEMMA OneMore ==
  ASSUME NEW S, IsFiniteSet(S), NEW x, x \notin S
  PROVE  /\ IsFiniteSet(S \cup {x}) /\ Cardinality(S) \in Nat
         /\ Cardinality(S \cup {x}) = Cardinality(S) + 1
<1>1. Cardinality(S) \in Nat
  BY FS_CardinalityType, Zenon
<1> QED BY <1>1, FS_AddElement

\* One member fewer.
LEMMA OneFewer ==
  ASSUME NEW S, IsFiniteSet(S), NEW x \in S
  PROVE  /\ IsFiniteSet(S \ {x}) /\ Cardinality(S) \in Nat
         /\ Cardinality(S \ {x}) = Cardinality(S) - 1
<1>1. Cardinality(S) \in Nat
  BY FS_CardinalityType, Zenon
<1> QED BY <1>1, FS_RemoveElement

\* What is in a set of looks and wake-ups.
LEMMA InPairs ==
  ASSUME NEW W, NEW P, NEW f, NEW x
  PROVE  x \in Pairs(W, P, f) <=>
           \/ \E c \in W : x = <<c, 0>>
           \/ \E p \in P : \E i \in 1..f[p] : x = <<p, i>>
BY DEF Pairs

\* There are finitely many.
LEMMA PairsFinite ==
  ASSUME NEW W \in SUBSET Consumers, NEW P \in SUBSET Producers, NEW f \in [Producers -> Nat]
  PROVE  IsFiniteSet(Pairs(W, P, f)) /\ Cardinality(Pairs(W, P, f)) \in Nat
<1>1. IsFiniteSet(W) /\ IsFiniteSet(P)
  BY WaiterAssumption, FS_Subset
<1>2. IsFiniteSet(W \X {0})
  BY <1>1, FS_Product, FS_Singleton, Zenon
<1> DEFINE g == [p \in P |-> {p} \X (1..f[p])]
           T == {{p} \X (1..f[p]) : p \in P}
<1>3. g \in Surjection(P, T)
  BY Zenon DEF Surjection
<1>4. IsFiniteSet(T)
  BY <1>1, <1>3, FS_Surjection
<1>5. ASSUME NEW p \in P PROVE IsFiniteSet({p} \X (1..f[p]))
  <2>1. 1 \in Int /\ f[p] \in Int
    OBVIOUS
  <2> QED BY <2>1, FS_Interval, FS_Singleton, FS_Product, Zenon
<1>6. IsFiniteSet(UNION T)
  BY <1>4, <1>5, FS_UNION, Zenon
<1> QED BY <1>2, <1>6, FS_Union, FS_CardinalityType, Zenon DEF Pairs

\* More consumers that look and more producers that wake are no fewer.
LEMMA PairsGrow ==
  ASSUME NEW V \in SUBSET Consumers, NEW Q \in SUBSET Producers, NEW f \in [Producers -> Nat],
         NEW W \in SUBSET V, NEW P \in SUBSET Q
  PROVE  Cardinality(Pairs(W, P, f)) <= Cardinality(Pairs(V, Q, f))
<1>1. Pairs(W, P, f) \subseteq Pairs(V, Q, f)
  BY InPairs
<1> QED BY <1>1, PairsFinite, FS_Subset

\* Only the wake-ups of the producers at hand matter.
LEMMA PairsSame ==
  ASSUME NEW W, NEW P, NEW f, NEW g, \A p \in P : f[p] = g[p]
  PROVE  Pairs(W, P, f) = Pairs(W, P, g)
BY DEF Pairs

\* A consumer fewer is a look fewer.
LEMMA PairsDrop ==
  ASSUME NEW W \in SUBSET Consumers, NEW P \in SUBSET Producers, NEW f \in [Producers -> Nat],
         NEW c \in W
  PROVE  Cardinality(Pairs(W \ {c}, P, f)) = Cardinality(Pairs(W, P, f)) - 1
<1>1. <<c, 0>> \in Pairs(W, P, f)
  BY InPairs
<1>2. Pairs(W \ {c}, P, f) = Pairs(W, P, f) \ {<<c, 0>>}
  <2>1. ASSUME NEW x PROVE x \in Pairs(W \ {c}, P, f) <=> x \in Pairs(W, P, f) /\ x # <<c, 0>>
    <3>1. \A p \in P : \A i \in 1..f[p] : <<p, i>> # <<c, 0>>
      OBVIOUS
    <3> QED BY <3>1, InPairs
  <2> QED BY <2>1, Zenon
<1>3. Cardinality(Pairs(W, P, f) \ {<<c, 0>>}) = Cardinality(Pairs(W, P, f)) - 1
  <2>1. IsFiniteSet(Pairs(W, P, f))
    BY PairsFinite, Zenon
  <2> QED BY <1>1, <2>1, OneFewer, Zenon
<1> QED BY <1>2, <1>3, Zenon

\* A producer more is its wake-ups more.
LEMMA PairsJoin ==
  ASSUME NEW W \in SUBSET Consumers, NEW P \in SUBSET Producers, NEW f \in [Producers -> Nat],
         NEW p \in Producers, p \notin P
  PROVE  Cardinality(Pairs(W, P \cup {p}, f)) = Cardinality(Pairs(W, P, f)) + f[p]
<1> DEFINE T == {p} \X (1..f[p])
<1>1. IsFiniteSet(T) /\ Cardinality(T) = f[p]
  <2>1. IsFiniteSet(1..f[p]) /\ Cardinality(1..f[p]) = f[p]
    BY FS_Interval
  <2>2. IsFiniteSet({p}) /\ Cardinality({p}) = 1
    BY FS_Singleton, Zenon
  <2> QED BY <2>1, <2>2, FS_Product
<1>2. Pairs(W, P \cup {p}, f) = Pairs(W, P, f) \cup T
  BY DEF Pairs
<1>3. Pairs(W, P, f) \cap T = {}
  BY WaiterAssumption DEF Pairs
<1>4. Cardinality(Pairs(W, P, f) \cap T) = 0
  BY <1>3, FS_EmptySet
<1>5. IsFiniteSet(Pairs(W, P, f)) /\ Cardinality(Pairs(W, P, f)) \in Nat
  BY PairsFinite, Zenon
<1>6. Cardinality(Pairs(W, P, f) \cup T)
        = Cardinality(Pairs(W, P, f)) + Cardinality(T) - Cardinality(Pairs(W, P, f) \cap T)
  BY <1>1, <1>5, FS_Union, Zenon
<1> DEFINE m == Cardinality(Pairs(W, P, f))
<1>7. Cardinality(Pairs(W, P \cup {p}, f)) = m + f[p] - 0 /\ m \in Nat
  BY <1>1, <1>2, <1>4, <1>5, <1>6, Zenon
<1> HIDE DEF m
<1>8. m + f[p] - 0 = m + f[p]
  BY <1>7
<1> QED BY <1>7, <1>8, Zenon DEF m

\* Consumers that are woken are looks more.
LEMMA PairsWoken ==
  ASSUME NEW W \in SUBSET Consumers, NEW P \in SUBSET Producers, NEW f \in [Producers -> Nat],
         NEW S \in SUBSET Consumers, W \cap S = {}
  PROVE  Cardinality(Pairs(W \cup S, P, f)) = Cardinality(Pairs(W, P, f)) + Cardinality(S)
<1> DEFINE T == S \X {0}
<1>1. IsFiniteSet(S) /\ Cardinality(S) \in Nat
  BY WaiterAssumption, FS_Subset, FS_CardinalityType
<1>2. IsFiniteSet(T) /\ Cardinality(T) = Cardinality(S)
  <2>1. IsFiniteSet({0}) /\ Cardinality({0}) = 1
    BY FS_Singleton, Zenon
  <2>2. Cardinality(T) = Cardinality(S) * 1
    BY <1>1, <2>1, FS_Product, Zenon
  <2>3. IsFiniteSet(T)
    BY <1>1, <2>1, FS_Product, Zenon
  <2> HIDE DEF T
  <2> QED BY <1>1, <2>2, <2>3
<1>3. Pairs(W \cup S, P, f) = Pairs(W, P, f) \cup T
  BY DEF Pairs
<1>4. Pairs(W, P, f) \cap T = {}
  BY WaiterAssumption DEF Pairs
<1>5. Cardinality(Pairs(W, P, f) \cap T) = 0
  BY <1>4, FS_EmptySet
<1>6. IsFiniteSet(Pairs(W, P, f)) /\ Cardinality(Pairs(W, P, f)) \in Nat
  BY PairsFinite, Zenon
<1>7. Cardinality(Pairs(W, P, f) \cup T)
        = Cardinality(Pairs(W, P, f)) + Cardinality(T) - Cardinality(Pairs(W, P, f) \cap T)
  BY <1>2, <1>6, FS_Union, Zenon
<1> DEFINE m == Cardinality(Pairs(W, P, f))
           n == Cardinality(S)
<1>8. Cardinality(Pairs(W \cup S, P, f)) = m + n - 0 /\ m \in Nat /\ n \in Nat
  BY <1>1, <1>2, <1>3, <1>5, <1>6, <1>7, Zenon
<1> HIDE DEF m, n
<1>9. m + n - 0 = m + n
  BY <1>8
<1> QED BY <1>8, <1>9, Zenon DEF m, n

-----------------------------------------------------------------------------
(* A consumer's step. *)

\* What a step of consumer c does to where it is, its buffer and its key.
Updates(c, l, b, k) ==
  /\ pc' = [pc EXCEPT ![c] = l]
  /\ DOMAIN buf' = Threads /\ buf'[c] = b
  /\ \A t \in Threads : t # c => buf'[t] = buf[t]
  /\ key' = [key EXCEPT ![c] = k]
  /\ sleepers' = IF l = "asleep" THEN sleepers \cup {c} ELSE sleepers \ {c}
  /\ UNCHANGED <<policy, waiters, epoch, closed, count, publishes>>

\* What it leaves alone.
Frame(c) ==
  /\ UNCHANGED <<policy, waiters, epoch, closed, count, publishes>>
  /\ DOMAIN pc' = Threads /\ DOMAIN buf' = Threads
  /\ \A t \in Threads : t # c => pc'[t] = pc[t] /\ buf'[t] = buf[t]
  /\ key' \in [Consumers -> 0..(Epochs - 1)]
  /\ \A d \in Consumers : d # c => key'[d] = key[d]
  /\ sleepers' = {d \in Consumers : pc'[d] = "asleep"}

\* It takes no look away that an element counts on, unless it takes the
\* element, and goes to sleep only after it was on its way there.
Careful(c) ==
  \/ elems' = 0
  \/ /\ elems' = elems
     /\ c \in WillLook => c \in WillLook'
     /\ c \in Committed' => c \in Committed
     /\ c \in sleepers' => c \in sleepers \/ c \in Committed
  \/ elems > 0 /\ elems' = elems - 1 /\ c \in WillLook /\ pc'[c] = "out"

Moves(c) ==
  /\ Frame(c)
  /\ elems' \in Nat /\ owed' \in Nat /\ owed' <= elems'
  /\ pc'[c] \in ConsumerPCs
  /\ Waiting(c)'
  /\ c \in Counted' <=> c \in Counted
  /\ Careful(c)

\* The frame of a step that does no more than Updates says.
LEMMA UpdatesFrame ==
  ASSUME WaiterInv, NEW c \in Consumers, NEW l, NEW b, NEW k \in 0..(Epochs - 1),
         Updates(c, l, b, k)
  PROVE  Frame(c) /\ pc'[c] = l /\ buf'[c] = b /\ key'[c] = k
<1>1. /\ DOMAIN pc = Threads /\ DOMAIN buf = Threads /\ c \in Threads
      /\ key \in [Consumers -> 0..(Epochs - 1)]
      /\ sleepers = {d \in Consumers : pc[d] = "asleep"}
  BY Zenon DEF WaiterInv, TypeInv, Threads
<1>2. /\ DOMAIN pc' = Threads /\ DOMAIN buf' = Threads /\ pc'[c] = l /\ buf'[c] = b
      /\ \A t \in Threads : t # c => pc'[t] = pc[t] /\ buf'[t] = buf[t]
  BY <1>1 DEF Updates
<1>3. /\ key' \in [Consumers -> 0..(Epochs - 1)] /\ key'[c] = k
      /\ \A d \in Consumers : d # c => key'[d] = key[d]
  BY <1>1 DEF Updates
<1>4. Consumers \subseteq Threads
  BY DEF Threads
<1>5. sleepers' = {d \in Consumers : pc'[d] = "asleep"}
  BY <1>1, <1>2, <1>4 DEF Updates
<1> QED BY <1>2, <1>3, <1>5 DEF Frame, Updates

\* A consumer's own part of the invariant.
LEMMA Own ==
  ASSUME WaiterInv, NEW c \in Consumers
  PROVE  /\ pc[c] \in ConsumerPCs /\ Waiting(c) /\ c \in Threads
         /\ DOMAIN pc = Threads /\ DOMAIN buf = Threads
         /\ key \in [Consumers -> 0..(Epochs - 1)] /\ key[c] \in 0..(Epochs - 1)
         /\ (c \in sleepers <=> pc[c] = "asleep")
         /\ elems \in Nat /\ owed \in Nat /\ owed <= elems
         /\ epoch \in 0..(Epochs - 1) /\ 0 \in 0..(Epochs - 1)
BY WaiterAssumption DEF WaiterInv, TypeInv, Threads

\* A step of a consumer that has not announced itself and does not do so.
LEMMA Wanders ==
  ASSUME WaiterInv, NEW c \in Consumers, NEW l \in ConsumerPCs, NEW k \in 0..(Epochs - 1),
         Updates(c, l, buf[c], k), pc[c] \notin Announced, l \notin Announced,
         policy = "spin" => l \in {"out", "first_look", "spin_closed", "spin_look"},
         elems' \in Nat, owed' \in Nat, owed' <= elems', Careful(c)
  PROVE  Moves(c)
<1>1. Frame(c) /\ pc'[c] = l /\ buf'[c] = buf[c] /\ key'[c] = k
  BY UpdatesFrame
<1>2. Waiting(c)
  BY Own
<1>3. policy' = policy /\ Keyed \subseteq Announced
  BY <1>1 DEF Frame, Keyed, Announced
<1>4. Waiting(c)'
  BY <1>1, <1>2, <1>3, Zenon DEF Waiting, Announced
<1>5. c \in Counted' <=> c \in Counted
  BY <1>1 DEF Counted
<1> QED BY <1>1, <1>4, <1>5 DEF Moves

\* A step of a consumer that has announced itself.
LEMMA Holds ==
  ASSUME WaiterInv, NEW c \in Consumers, NEW l \in ConsumerPCs, NEW k \in 0..(Epochs - 1),
         Updates(c, l, buf[c], k), pc[c] \in Announced, l \in Announced, buf[c] = <<>>,
         l \in Keyed => Age(k) <= Age(epoch),
         elems' \in Nat, owed' \in Nat, owed' <= elems', Careful(c)
  PROVE  Moves(c)
<1>1. Frame(c) /\ pc'[c] = l /\ buf'[c] = buf[c] /\ key'[c] = k
  BY UpdatesFrame
<1>2. Waiting(c)
  BY Own
<1>3. policy' = policy /\ epoch' = epoch
  BY <1>1 DEF Frame
<1>4. policy # "spin"
  BY <1>2 DEF Waiting, Announced
<1>5. Waiting(c)'
  BY <1>1, <1>3, <1>4 DEF Waiting, Age
<1>6. c \in Counted' <=> c \in Counted
  BY <1>1 DEF Counted
<1> QED BY <1>1, <1>5, <1>6 DEF Moves

\* A step that takes the announcement back.
LEMMA Drops ==
  ASSUME WaiterInv, NEW c \in Consumers, NEW l \in ConsumerPCs,
         Updates(c, l, Append(buf[c], Down), 0),
         pc[c] \in {"last_look", "cancel"}, l \notin Announced,
         elems' \in Nat, owed' \in Nat, owed' <= elems', Careful(c)
  PROVE  Moves(c)
<1>1. Waiting(c) /\ 0 \in 0..(Epochs - 1)
  BY Own
<1>2. Frame(c) /\ pc'[c] = l /\ buf'[c] = Append(buf[c], Down)
  BY <1>1, UpdatesFrame, Zenon
<1>3. policy' = policy /\ Keyed \subseteq Announced
  BY <1>2 DEF Frame, Keyed, Announced
<1>4. buf[c] = <<>> /\ policy # "spin"
  BY <1>1 DEF Waiting, Announced
<1>5. buf'[c] = <<Down>>
  BY <1>2, <1>4
<1>6. Waiting(c)'
  BY <1>2, <1>3, <1>4, <1>5 DEF Waiting
<1>7. c \in Counted /\ c \in Counted'
  <2>1. buf'[c] # <<>> /\ buf'[c][1] = Down /\ pc[c] \in Announced
    BY <1>5 DEF Announced
  <2> QED BY <1>4, <2>1, Zenon DEF Counted
<1> QED BY <1>2, <1>6, <1>7 DEF Moves
-----------------------------------------------------------------------------
(* The consumer's actions. *)

\* A look at the queue.
LEMMA LookMoves ==
  ASSUME WaiterInv, NEW c \in Consumers,
         NEW at \in {"first_look", "spin_look", "park_look", "last_look"},
         NEW over, NEW next \in ConsumerPCs \ {"out", "asleep"},
         IF at = "last_look" THEN next = "check"
         ELSE /\ next \notin Announced
              /\ policy = "spin" => next \in {"spin_closed", "spin_look"},
         Look(c, at, at = "last_look", over, next)
  PROVE  Moves(c)
<1> DEFINE l == IF pc'[c] = "out" THEN "out" ELSE next
<1>1. /\ pc[c] \in ConsumerPCs /\ Waiting(c) /\ c \in Threads
      /\ DOMAIN pc = Threads /\ DOMAIN buf = Threads
      /\ key \in [Consumers -> 0..(Epochs - 1)] /\ key[c] \in 0..(Epochs - 1)
      /\ (c \in sleepers <=> pc[c] = "asleep")
      /\ elems \in Nat /\ owed \in Nat /\ owed <= elems /\ 0 \in 0..(Epochs - 1)
  BY Own
<1>2. /\ pc[c] = at /\ pc[c] # "asleep" /\ c \notin sleepers /\ sleepers' = sleepers
      /\ UNCHANGED <<waiters, epoch, closed, count, policy, publishes>>
  BY <1>1 DEF Look, bounds
<1>3. c \in WillLook
  BY <1>2 DEF WillLook
<1>4. CASE pc' = [pc EXCEPT ![c] = "out"] /\ Leave(c, at = "last_look")
  <2>1. \/ elems > 0 /\ elems' = elems - 1 /\ owed' = IF owed > 0 THEN owed - 1 ELSE 0
        \/ elems = 0 /\ elems' = elems /\ owed' = owed
    BY DEF Look, Taken
  <2>2. elems' \in Nat /\ owed' \in Nat /\ owed' <= elems'
    BY <1>1, <2>1
  <2>3. pc'[c] = "out"
    BY <1>1, <1>4
  <2>4. Careful(c)
    BY <1>3, <2>1, <2>3 DEF Careful
  <2>5. sleepers' = sleepers \ {c} /\ "out" \in ConsumerPCs /\ "out" \notin Announced
    BY <1>2 DEF ConsumerPCs, Announced
  <2>6. CASE at = "last_look"
    <3>1. Updates(c, "out", Append(buf[c], Down), 0)
      <4>1. buf' = [buf EXCEPT ![c] = Append(buf[c], Down)]
        BY <1>4, <2>6, Zenon DEF Leave, Store, Down
      <4>2. /\ DOMAIN buf' = Threads /\ buf'[c] = Append(buf[c], Down)
            /\ \A t \in Threads : t # c => buf'[t] = buf[t]
        BY <1>1, <4>1
      <4>3. key' = [key EXCEPT ![c] = 0] /\ pc' = [pc EXCEPT ![c] = "out"]
        BY <1>4, Zenon DEF Leave
      <4> QED BY <1>2, <2>5, <4>2, <4>3, Zenon DEF Updates
    <3> QED BY <1>2, <2>2, <2>4, <2>5, <2>6, <3>1, Drops
  <2>7. CASE at # "last_look"
    <3>1. Updates(c, "out", buf[c], 0)
      <4>1. buf' = buf /\ DOMAIN buf = Threads
        BY <1>1, <1>4, <2>7, Zenon DEF Leave
      <4>2. key' = [key EXCEPT ![c] = 0] /\ pc' = [pc EXCEPT ![c] = "out"]
        BY <1>4, Zenon DEF Leave
      <4> QED BY <1>2, <2>5, <4>1, <4>2, Zenon DEF Updates
    <3>2. pc[c] \notin Announced
      BY <1>2, <2>7 DEF Announced
    <3> QED BY <1>1, <2>2, <2>4, <2>5, <3>1, <3>2, Wanders
  <2> QED BY <2>6, <2>7
<1>5. CASE /\ elems = 0 /\ pc' = [pc EXCEPT ![c] = next] /\ UNCHANGED <<elems, owed, key, buf>>
  <2>1. Careful(c) /\ elems' \in Nat /\ owed' \in Nat /\ owed' <= elems'
    BY <1>1, <1>5 DEF Careful
  <2>2. Updates(c, next, buf[c], key[c])
    <3>1. key = [key EXCEPT ![c] = key[c]] /\ DOMAIN buf = Threads
      BY <1>1
    <3>2. sleepers' = sleepers \ {c} /\ next # "asleep"
      BY <1>2
    <3> QED BY <1>2, <1>5, <3>1, <3>2, Zenon DEF Updates
  <2>3. CASE at = "last_look"
    <3>1. next \in Announced /\ pc[c] \in Announced /\ pc[c] \in Keyed /\ pc[c] # "key"
      BY <1>2, <2>3 DEF Announced, Keyed
    <3>2. buf[c] = <<>> /\ Age(key[c]) <= Age(epoch)
      BY <1>1, <3>1 DEF Waiting
    <3> QED BY <1>1, <2>1, <2>2, <3>1, <3>2, Holds, Zenon
  <2>4. CASE at # "last_look"
    <3>1. pc[c] \notin Announced
      BY <1>2, <2>4 DEF Announced
    <3> QED BY <1>1, <2>1, <2>2, <2>4, <3>1, Wanders, Zenon
  <2> QED BY <2>3, <2>4
<1> QED BY <1>4, <1>5 DEF Look, Leave, Goto

\* A step that only changes where the consumer is.
LEMMA Turns ==
  ASSUME WaiterInv, NEW c \in Consumers, NEW l, pc' = [pc EXCEPT ![c] = l],
         sleepers' = IF l = "asleep" THEN sleepers \cup {c} ELSE sleepers \ {c},
         UNCHANGED <<memory, key, buf, count, policy, publishes>>
  PROVE  /\ Updates(c, l, buf[c], key[c])
         /\ pc'[c] = l /\ elems' = elems
         /\ elems' \in Nat /\ owed' \in Nat /\ owed' <= elems'
<1>1. /\ c \in Threads /\ DOMAIN pc = Threads /\ DOMAIN buf = Threads
      /\ key \in [Consumers -> 0..(Epochs - 1)]
      /\ elems \in Nat /\ owed \in Nat /\ owed <= elems
  BY Own
<1>2. /\ elems' = elems /\ owed' = owed /\ waiters' = waiters /\ epoch' = epoch
      /\ closed' = closed /\ key' = key /\ buf' = buf
      /\ UNCHANGED <<count, policy, publishes>>
  BY DEF memory
<1>3. key = [key EXCEPT ![c] = key[c]] /\ pc'[c] = l
  BY <1>1
<1> QED BY <1>1, <1>2, <1>3, Zenon DEF Updates

\* Time passes for one consumer.
LEMMA ExpireMoves ==
  ASSUME WaiterInv, NEW c \in Consumers, Expire(c)
  PROVE  Moves(c)
<1>1. /\ UNCHANGED <<elems, owed, waiters, epoch, closed, key, count, policy, publishes>>
      /\ UNCHANGED <<buf, sleepers, pc>>
  BY DEF Expire, memory, bounds
<1>2. /\ pc[c] \in ConsumerPCs /\ Waiting(c)
      /\ DOMAIN pc = Threads /\ DOMAIN buf = Threads
      /\ key \in [Consumers -> 0..(Epochs - 1)]
      /\ elems \in Nat /\ owed \in Nat /\ owed <= elems
  BY Own
<1>3. sleepers = {d \in Consumers : pc[d] = "asleep"}
  BY DEF WaiterInv, TypeInv
<1>4. Frame(c)
  BY <1>1, <1>2, <1>3, Zenon DEF Frame
<1>5. Waiting(c)' /\ (c \in Counted' <=> c \in Counted)
  BY <1>1, <1>2, Zenon DEF Waiting, Counted, Age
<1>6. Careful(c)
  BY <1>1, Zenon DEF Careful, WillLook, Committed
<1> QED BY <1>1, <1>2, <1>4, <1>5, <1>6, Zenon DEF Moves

\* A wait begins, a look at closed_, and a limit that turns out to be none.
LEMMA WanderMoves ==
  ASSUME WaiterInv, NEW c \in Consumers,
         \/ CallWait(c) \/ SpinClosed(c) \/ ParkClosed(c)
         \/ /\ pc[c] = "first_look" /\ elems = 0 /\ Goto(c, Polling)
            /\ UNCHANGED <<memory, key, count, policy, publishes, buf, sleepers>>
  PROVE  Moves(c)
<1>1. PICK l \in {"first_look", "spin_closed", "park_closed", "spin_look", "park_look"} :
        /\ pc' = [pc EXCEPT ![c] = l]
        /\ pc[c] \in {"out", "first_look", "spin_closed", "park_closed"}
        /\ policy = "spin" =>
             l \in {"first_look", "spin_closed", "spin_look"} \/ pc[c] = "park_closed"
        /\ UNCHANGED <<memory, key, count, policy, publishes, buf, sleepers>>
  <2>1. CASE CallWait(c)
    <3>1. PICK lim \in BOOLEAN : Goto(c, IF lim THEN "first_look" ELSE Polling)
      BY <2>1 DEF CallWait
    <3>2. pc[c] = "out" /\ UNCHANGED <<memory, key, count, policy, publishes, buf, sleepers>>
      BY <2>1 DEF CallWait
    <3> QED BY <3>1, <3>2, Zenon DEF Goto, Polling
  <2>2. CASE SpinClosed(c) \/ ParkClosed(c)
    BY <2>2 DEF SpinClosed, ParkClosed, ReadClosed, Goto, bounds
  <2>3. CASE /\ pc[c] = "first_look" /\ elems = 0 /\ Goto(c, Polling)
             /\ UNCHANGED <<memory, key, count, policy, publishes, buf, sleepers>>
    BY <2>3, Zenon DEF Goto, Polling
  <2> QED BY <2>1, <2>2, <2>3, Zenon
<1>2. /\ pc[c] \notin Announced /\ l \notin Announced /\ l \in ConsumerPCs
      /\ l # "asleep" /\ pc[c] # "asleep"
  BY <1>1 DEF Announced, ConsumerPCs
<1>3. /\ Waiting(c) /\ (c \in sleepers <=> pc[c] = "asleep") /\ key[c] \in 0..(Epochs - 1)
  BY Own
<1>4. sleepers' = sleepers \ {c}
  BY <1>1, <1>2, <1>3
<1>5. policy = "spin" => l \in {"out", "first_look", "spin_closed", "spin_look"}
  BY <1>1, <1>3 DEF Waiting
<1>6. /\ Updates(c, l, buf[c], key[c]) /\ pc'[c] = l /\ elems' = elems
      /\ elems' \in Nat /\ owed' \in Nat /\ owed' <= elems'
  BY <1>1, <1>2, <1>4, Turns, Zenon
<1>7. Careful(c)
  <2>1. c \in WillLook' /\ c \notin Committed' /\ (c \in sleepers' => c \in sleepers)
    BY <1>1, <1>4, <1>6, Zenon DEF WillLook, Committed
  <2> QED BY <1>6, <2>1, Zenon DEF Careful
<1> QED BY <1>2, <1>3, <1>5, <1>6, <1>7, Wanders, Zenon

\* The steps of a consumer that has announced itself and goes on.
LEMMA HoldMoves ==
  ASSUME WaiterInv, NEW c \in Consumers,
         ReadKey(c) \/ LastClosed(c) \/ Check(c) \/ FutexWait(c) \/ SleepEnds(c)
  PROVE  Moves(c)
<1>1. /\ pc[c] \in ConsumerPCs /\ Waiting(c) /\ c \in Threads
      /\ DOMAIN pc = Threads /\ DOMAIN buf = Threads
      /\ key \in [Consumers -> 0..(Epochs - 1)] /\ key[c] \in 0..(Epochs - 1)
      /\ (c \in sleepers <=> pc[c] = "asleep")
      /\ elems \in Nat /\ owed \in Nat /\ owed <= elems /\ epoch \in 0..(Epochs - 1)
  BY Own, Zenon
<1>2. CASE ReadKey(c)
  <2>1. /\ pc[c] = "key" /\ buf[c] = <<>> /\ pc' = [pc EXCEPT ![c] = "last_closed"]
        /\ key' = [key EXCEPT ![c] = epoch]
        /\ UNCHANGED <<elems, owed, waiters, epoch, closed, count, policy, publishes>>
        /\ UNCHANGED <<buf, sleepers>>
    BY <1>2, Zenon DEF ReadKey, Fenced, Goto, memory, bounds
  <2>2. sleepers' = sleepers \ {c} /\ pc'[c] = "last_closed"
    BY <1>1, <2>1, Zenon
  <2>3. Updates(c, "last_closed", buf[c], epoch)
    BY <1>1, <2>1, <2>2, Zenon DEF Updates
  <2>4. Careful(c)
    <3>1. c \in WillLook' /\ c \notin Committed' /\ (c \in sleepers' => c \in sleepers)
      BY <2>1, <2>2 DEF WillLook, Committed
    <3> QED BY <2>1, <3>1, Zenon DEF Careful
  <2>5. /\ "last_closed" \in ConsumerPCs /\ "last_closed" \in Announced /\ pc[c] \in Announced
        /\ Age(epoch) <= Age(epoch)
    BY <1>1, <2>1, WaiterAssumption DEF ConsumerPCs, Announced, Age
  <2> QED BY <1>1, <2>1, <2>3, <2>4, <2>5, Holds, Zenon
\* The others change only where the consumer is.
<1>3. ASSUME NEW l \in Announced \ {"key"}, pc[c] \in Announced \ {"key"},
             pc' = [pc EXCEPT ![c] = l], l \in Keyed => pc[c] \in Keyed,
             sleepers' = IF l = "asleep" THEN sleepers \cup {c} ELSE sleepers \ {c},
             UNCHANGED <<memory, key, buf, count, policy, publishes>>,
             l \in {"check", "futex"} => pc[c] \in {"check", "futex"} /\ key[c] = epoch,
             l = "asleep" => pc[c] = "futex" /\ key[c] = epoch
      PROVE  Moves(c)
  <2>1. /\ Updates(c, l, buf[c], key[c]) /\ pc'[c] = l /\ elems' = elems
        /\ elems' \in Nat /\ owed' \in Nat /\ owed' <= elems'
    BY <1>3, Turns, Zenon
  <2>2. buf[c] = <<>> /\ (l \in Keyed => Age(key[c]) <= Age(epoch)) /\ l \in ConsumerPCs
    BY <1>1, <1>3, Zenon DEF Waiting, Announced, ConsumerPCs
  <2>3. epoch' = epoch /\ key' = key
    BY <1>3 DEF memory
  <2>4. Careful(c)
    <3>1. CASE l \in {"check", "futex"}
      <4>1. c \notin WillLook /\ c \in Committed /\ c \notin sleepers'
        BY <1>3, <3>1 DEF WillLook, Committed
      <4> QED BY <2>1, <4>1, Zenon DEF Careful
    <3>2. CASE l = "asleep"
      <4>1. c \notin WillLook /\ c \in Committed /\ c \notin Committed'
        BY <1>3, <2>1, <3>2, Zenon DEF WillLook, Committed
      <4> QED BY <2>1, <4>1, Zenon DEF Careful
    <3>3. CASE l \notin {"check", "futex", "asleep"}
      <4>1. c \in WillLook' /\ c \notin Committed' /\ c \notin sleepers'
        BY <1>3, <2>1, <3>3, Zenon DEF WillLook, Committed, Announced
      <4> QED BY <2>1, <4>1, Zenon DEF Careful
    <3> QED BY <3>1, <3>2, <3>3
  <2> QED BY <1>1, <1>3, <2>1, <2>2, <2>4, Holds, Zenon
<1>4. CASE LastClosed(c)
  <2>1. /\ pc[c] = "last_closed" /\ pc' = [pc EXCEPT ![c] = "last_look"]
        /\ UNCHANGED <<memory, key, buf, count, policy, publishes>> /\ sleepers' = sleepers
    BY <1>4, Zenon DEF LastClosed, ReadClosed, Goto, bounds
  <2>2. sleepers' = sleepers \ {c}
    BY <1>1, <2>1
  <2>3. /\ "last_look" \in Announced \ {"key"} /\ pc[c] \in Announced \ {"key"}
        /\ pc[c] \in Keyed
    BY <2>1 DEF Announced, Keyed
  <2> QED BY <1>3, <2>1, <2>2, <2>3, Zenon
<1>5. CASE Check(c)
  <2>1. /\ pc[c] = "check"
        /\ pc' = [pc EXCEPT ![c] = IF epoch = key[c] THEN "futex" ELSE "cancel"]
        /\ UNCHANGED <<memory, key, buf, count, policy, publishes>> /\ sleepers' = sleepers
    BY <1>5, Zenon DEF Check, Goto, bounds, locals
  <2>2. sleepers' = sleepers \ {c}
    BY <1>1, <2>1
  <2>3. /\ {"futex", "cancel"} \subseteq Announced \ {"key"} /\ pc[c] \in Announced \ {"key"}
        /\ pc[c] \in Keyed
    BY <2>1 DEF Announced, Keyed
  <2> QED BY <1>3, <2>1, <2>2, <2>3, Zenon
<1>6. CASE FutexWait(c) \/ SleepEnds(c)
  <2>1. /\ pc[c] \in {"futex", "asleep"}
        /\ UNCHANGED <<memory, key, buf, count, policy, publishes>>
        /\ \/ /\ pc[c] = "futex" /\ key[c] = epoch
              /\ pc' = [pc EXCEPT ![c] = "asleep"] /\ sleepers' = sleepers \cup {c}
           \/ pc' = [pc EXCEPT ![c] = "cancel"] /\ sleepers' \in {sleepers, sleepers \ {c}}
              /\ (sleepers' = sleepers => pc[c] = "futex" \/ c \notin sleepers)
    BY <1>6, Zenon DEF FutexWait, SleepEnds, Goto, bounds, locals
  <2>2. /\ {"asleep", "cancel"} \subseteq Announced \ {"key"} /\ pc[c] \in Announced \ {"key"}
        /\ pc[c] \in Keyed
    BY <2>1 DEF Announced, Keyed
  <2>3. CASE /\ pc' = [pc EXCEPT ![c] = "asleep"] /\ sleepers' = sleepers \cup {c}
             /\ pc[c] = "futex" /\ key[c] = epoch
    BY <1>3, <2>1, <2>2, <2>3, Zenon
  <2>4. CASE pc' = [pc EXCEPT ![c] = "cancel"]
    <3>1. sleepers' = sleepers \ {c}
      BY <1>1, <2>1, <2>4
    <3> QED BY <1>3, <2>1, <2>2, <2>4, <3>1, Zenon
  <2> QED BY <2>1, <2>3, <2>4
<1> QED BY <1>2, <1>4, <1>5, <1>6, Zenon

\* A store behind another.
LEMMA TwoStores ==
  ASSUME NEW v, NEW w
  PROVE  Append(<<v>>, w) = <<v, w>>
<1> DEFINE s == Append(<<v>>, w)
<1>1. <<v>> \in Seq({v, w}) /\ <<v, w>> \in Seq({v, w}) /\ w \in {v, w} /\ Len(<<v>>) = 1
  OBVIOUS
<1>2. s \in Seq({v, w}) /\ Len(s) = 2
  BY <1>1
<1>3. s[1] = v /\ s[2] = w
  BY <1>1
<1> HIDE DEF s
<1>4. s = <<v, w>>
  BY <1>1, <1>2, <1>3
<1> QED BY <1>4 DEF s

\* prepare's announcement.
LEMMA AnnounceMoves ==
  ASSUME WaiterInv, NEW c \in Consumers, Announce(c)
  PROVE  Moves(c)
<1>1. /\ Waiting(c) /\ c \in Threads /\ DOMAIN pc = Threads /\ DOMAIN buf = Threads
      /\ key \in [Consumers -> 0..(Epochs - 1)] /\ key[c] \in 0..(Epochs - 1)
      /\ (c \in sleepers <=> pc[c] = "asleep")
      /\ elems \in Nat /\ owed \in Nat /\ owed <= elems
  BY Own
<1>2. /\ pc[c] = "announce" /\ pc' = [pc EXCEPT ![c] = "key"]
      /\ buf' = [buf EXCEPT ![c] = Append(buf[c], Up)]
      /\ UNCHANGED <<elems, owed, waiters, epoch, closed, key, count, policy, publishes>>
      /\ UNCHANGED sleepers
  BY Zenon DEF Announce, Store, Goto, Up, memory, locals, bounds
<1>3. /\ DOMAIN buf' = Threads /\ buf'[c] = Append(buf[c], Up)
      /\ \A t \in Threads : t # c => buf'[t] = buf[t]
  BY <1>1, <1>2
<1>4. key = [key EXCEPT ![c] = key[c]] /\ sleepers' = sleepers \ {c}
  BY <1>1, <1>2
<1>5. Updates(c, "key", Append(buf[c], Up), key[c])
  BY <1>2, <1>3, <1>4, Zenon DEF Updates
<1>6. Frame(c) /\ pc'[c] = "key"
  BY <1>1, <1>5, UpdatesFrame, Zenon
<1>7. (buf[c] = <<>> \/ buf[c] = <<Down>>) /\ policy # "spin"
  BY <1>1, <1>2 DEF Waiting
<1>8. \/ buf[c] = <<>> /\ buf'[c] = <<Up>>
      \/ buf[c] = <<Down>> /\ buf'[c] = <<Down, Up>>
  <2>1. Append(<<>>, Up) = <<Up>>
    OBVIOUS
  <2>2. Append(<<Down>>, Up) = <<Down, Up>>
    BY TwoStores, Zenon
  <2> QED BY <1>3, <1>7, <2>1, <2>2, Zenon
<1>9. Waiting(c)'
  <2>1. "key" \notin Keyed
    BY DEF Keyed
  <2>2. policy' # "spin"
    BY <1>2, <1>7, Zenon
  <2> QED BY <1>6, <1>8, <2>1, <2>2, Zenon DEF Waiting
<1>10. c \in Counted' <=> c \in Counted
  <2>1. CASE buf[c] = <<>> /\ buf'[c] = <<Up>>
    <3>1. buf'[c] # <<>> /\ buf'[c][1] = Up /\ Up # Down /\ pc[c] \notin Announced
      BY <1>2, <2>1 DEF Up, Down, Announced
    <3> QED BY <2>1, <3>1, Zenon DEF Counted
  <2>2. CASE buf[c] = <<Down>> /\ buf'[c] = <<Down, Up>>
    <3>1. buf'[c] # <<>> /\ buf'[c][1] = Down /\ buf[c] # <<>> /\ buf[c][1] = Down
      BY <2>2
    <3> QED BY <3>1, Zenon DEF Counted
  <2> QED BY <1>8, <2>1, <2>2, Zenon
<1>11. Careful(c)
  <2>1. c \in WillLook' /\ c \notin Committed' /\ (c \in sleepers' => c \in sleepers)
    BY <1>2, <1>6 DEF WillLook, Committed
  <2> QED BY <1>2, <2>1, Zenon DEF Careful
<1> QED BY <1>1, <1>2, <1>6, <1>9, <1>10, <1>11 DEF Moves, ConsumerPCs

\* cancel.
LEMMA CancelMoves ==
  ASSUME WaiterInv, NEW c \in Consumers, Cancel(c)
  PROVE  Moves(c)
<1>1. /\ c \in Threads /\ DOMAIN pc = Threads /\ DOMAIN buf = Threads
      /\ (c \in sleepers <=> pc[c] = "asleep")
      /\ elems \in Nat /\ owed \in Nat /\ owed <= elems
  BY Own, Zenon
<1>2. /\ pc[c] = "cancel" /\ pc' = [pc EXCEPT ![c] = "park_closed"]
      /\ buf' = [buf EXCEPT ![c] = Append(buf[c], Down)] /\ key' = [key EXCEPT ![c] = 0]
      /\ UNCHANGED <<elems, owed, waiters, epoch, closed, count, policy, publishes>>
      /\ UNCHANGED sleepers
  BY Zenon DEF Cancel, Store, Goto, Down, memory, bounds
<1>3. /\ DOMAIN buf' = Threads /\ buf'[c] = Append(buf[c], Down)
      /\ \A t \in Threads : t # c => buf'[t] = buf[t]
  BY <1>1, <1>2
<1>4. sleepers' = sleepers \ {c} /\ pc'[c] = "park_closed"
  BY <1>1, <1>2
<1>5. Updates(c, "park_closed", Append(buf[c], Down), 0)
  BY <1>2, <1>3, <1>4, Zenon DEF Updates
<1>6. Careful(c)
  <2>1. c \in WillLook' /\ c \notin Committed' /\ (c \in sleepers' => c \in sleepers)
    BY <1>2, <1>4 DEF WillLook, Committed
  <2> QED BY <1>2, <2>1, Zenon DEF Careful
<1>7. "park_closed" \in ConsumerPCs /\ "park_closed" \notin Announced
  BY SMTT(30) DEF ConsumerPCs, Announced
<1> QED BY <1>1, <1>2, <1>5, <1>6, <1>7, Drops, SMTT(30)

\* Whatever a consumer does.
LEMMA ConsumerMoves ==
  ASSUME WaiterInv, NEW c \in Consumers,
         CallWait(c) \/ Expire(c) \/ SleepEnds(c) \/ ConsumerStep(c)
  PROVE  Moves(c)
<1>1. Polling \in {"park_closed", "spin_closed"} /\ (policy = "spin" => Polling = "spin_closed")
  BY DEF Polling
<1>2. CASE FirstLook(c)
  <2>1. /\ Polling \in ConsumerPCs \ {"out", "asleep"} /\ Polling \notin Announced
        /\ "first_look" # "last_look"
    BY <1>1 DEF ConsumerPCs, Announced
  <2>2. ASSUME NEW over \in BOOLEAN, Look(c, "first_look", FALSE, over, Polling)
        PROVE  Moves(c)
    <3>1. Look(c, "first_look", "first_look" = "last_look", over, Polling)
      BY <2>1, <2>2, Zenon
    <3> QED BY <1>1, <2>1, <3>1, LookMoves
  <2> QED BY <1>2, <2>2, WanderMoves, Zenon DEF FirstLook, bounds
<1>3. CASE SpinLook(c)
  <2> DEFINE next == IF spent[c] /\ policy = "spin_then_park" THEN "park_closed" ELSE "spin_closed"
  <2>1. /\ next \in ConsumerPCs \ {"out", "asleep"} /\ next \notin Announced
        /\ policy = "spin" => next \in {"spin_closed", "spin_look"}
    BY DEF ConsumerPCs, Announced
  <2>2. Look(c, "spin_look", "spin_look" = "last_look", Over(c), next)
    BY <1>3, Zenon DEF SpinLook
  <2> HIDE DEF next
  <2> QED BY <2>1, <2>2, LookMoves
<1>4. CASE ParkLook(c)
  <2>1. /\ "announce" \in ConsumerPCs \ {"out", "asleep"} /\ "announce" \notin Announced
    BY DEF ConsumerPCs, Announced
  <2>2. Look(c, "park_look", "park_look" = "last_look", Over(c), "announce")
    BY <1>4, Zenon DEF ParkLook
  <2>3. policy # "spin"
    <3>1. Waiting(c) /\ pc[c] = "park_look"
      BY <2>2, Own, Zenon DEF Look
    <3> QED BY <3>1, SMTT(30) DEF Waiting
  <2> QED BY <2>1, <2>2, <2>3, LookMoves
<1>5. CASE LastLook(c)
  <2>1. "check" \in ConsumerPCs \ {"out", "asleep"}
    BY DEF ConsumerPCs
  <2>2. Look(c, "last_look", "last_look" = "last_look", was[c], "check")
    BY <1>5, Zenon DEF LastLook
  <2> QED BY <2>1, <2>2, LookMoves
<1> QED BY Zenon, <1>2, <1>3, <1>4, <1>5, ExpireMoves, WanderMoves, HoldMoves, AnnounceMoves,
           CancelMoves DEF ConsumerStep, TimedOut
-----------------------------------------------------------------------------
(* What a consumer's step keeps. *)

\* What the invariant says of the cover.
LEMMA CoverType ==
  ASSUME WaiterInv
  PROVE  /\ WillLook \in SUBSET Consumers /\ Due \in SUBSET Producers
         /\ Waking \in SUBSET Producers /\ Due \in SUBSET Waking
         /\ count \in [Producers -> Nat] /\ elems \in Nat
         /\ Cardinality(Cover(Due)) \in Nat /\ Cardinality(Cover(Waking)) \in Nat
         /\ Cardinality(Cover(Due)) <= Cardinality(Cover(Waking))
<1>1. /\ WillLook \in SUBSET Consumers /\ Due \in SUBSET Producers
      /\ Waking \in SUBSET Producers /\ Due \in SUBSET Waking
  BY DEF WillLook, Due, Waking
<1>2. count \in [Producers -> Nat] /\ elems \in Nat
  BY DEF WaiterInv, TypeInv
<1>3. Cardinality(Cover(Due)) \in Nat /\ Cardinality(Cover(Waking)) \in Nat
  BY <1>1, <1>2, PairsFinite, Zenon DEF Cover
<1>4. Cardinality(Cover(Due)) <= Cardinality(Cover(Waking))
  BY <1>1, <1>2, PairsGrow DEF Cover
<1> QED BY <1>1, <1>2, <1>3, <1>4, Zenon

\* A consumer's step keeps every element covered.
LEMMA MoveCovers ==
  ASSUME WaiterInv, NEW c \in Consumers, Moves(c)
  PROVE  Covered'
<1>1. /\ Frame(c) /\ Careful(c) /\ elems' \in Nat
  BY DEF Moves
<1>2. /\ WillLook \in SUBSET Consumers /\ Due \in SUBSET Producers
      /\ Waking \in SUBSET Producers /\ Due \in SUBSET Waking
      /\ count \in [Producers -> Nat] /\ elems \in Nat
      /\ Cardinality(Cover(Due)) \in Nat /\ Cardinality(Cover(Waking)) \in Nat
      /\ Cardinality(Cover(Due)) <= Cardinality(Cover(Waking))
  BY CoverType
<1>3. \A p \in Producers : p \in Threads /\ p # c
  BY WaiterAssumption DEF Threads
<1>4. \A p \in Producers : pc'[p] = pc[p] /\ buf'[p] = buf[p]
  BY <1>1, <1>3, Zenon DEF Frame
<1>5. Due' = Due /\ Waking' = Waking /\ count' = count /\ epoch' = epoch
  <2>1. Due' = Due
    BY <1>4, Zenon DEF Due, Fenced
  <2> QED BY <1>1, <1>4, <2>1, Zenon DEF Waking, Frame
<1>6. ASSUME NEW d \in Consumers, d # c
      PROVE  /\ d \in WillLook' <=> d \in WillLook
             /\ d \in Committed' <=> d \in Committed
             /\ d \in sleepers' <=> d \in sleepers
  <2>1. pc'[d] = pc[d] /\ key'[d] = key[d]
    BY <1>1, <1>6, Zenon DEF Frame, Threads
  <2>2. sleepers = {e \in Consumers : pc[e] = "asleep"}
    BY Zenon DEF WaiterInv, TypeInv
  <2>3. sleepers' = {e \in Consumers : pc'[e] = "asleep"}
    BY <1>1, Zenon DEF Frame
  <2> QED BY <1>5, <2>1, <2>2, <2>3, Zenon DEF WillLook, Committed
<1>7. Covered /\ sleepers \subseteq Consumers /\ sleepers' \subseteq Consumers
  BY <1>1, Zenon DEF WaiterInv, TypeInv, Frame
<1> DEFINE grown(P) == Cardinality(Pairs(WillLook', P, count))
<1>8. CASE elems' = 0
  <2>1. WillLook' \in SUBSET Consumers
    BY DEF WillLook
  <2>2. grown(Due) \in Nat /\ grown(Waking) \in Nat
    BY <1>2, <2>1, PairsFinite, Zenon
  <2>3. 0 <= grown(Due) /\ 0 <= grown(Waking)
    BY <2>2
  <2> QED BY <1>5, <1>8, <2>3, Zenon DEF Covered, Cover
<1>9. CASE /\ elems' = elems
           /\ c \in WillLook => c \in WillLook'
           /\ c \in Committed' => c \in Committed
           /\ c \in sleepers' => c \in sleepers \/ c \in Committed
  <2>1. WillLook \in SUBSET WillLook' /\ WillLook' \in SUBSET Consumers
    BY <1>2, <1>6, <1>9, Zenon DEF WillLook
  <2>2. /\ grown(Due) \in Nat /\ Cardinality(Cover(Due)) <= grown(Due)
        /\ grown(Waking) \in Nat /\ Cardinality(Cover(Waking)) <= grown(Waking)
    BY <1>2, <2>1, PairsGrow, PairsFinite DEF Cover
  <2>3. Committed' # {} => Committed # {}
    BY <1>6, <1>9 DEF Committed
  <2>4. sleepers' # {} => sleepers # {} \/ Committed # {}
    BY <1>6, <1>7, <1>9
  <2> HIDE DEF grown
  <2>5. Committed' # {} => elems <= grown(Due)
    <3>1. Committed' # {} => elems <= Cardinality(Cover(Due))
      BY <1>7, <2>3, Zenon DEF Covered
    <3> QED BY <1>2, <2>2, <3>1
  <2>6. sleepers' # {} => elems <= grown(Waking)
    <3>1. \/ sleepers' = {} \/ elems <= Cardinality(Cover(Waking))
          \/ elems <= Cardinality(Cover(Due))
      BY <1>7, <2>4, Zenon DEF Covered
    <3> QED BY <1>2, <2>2, <3>1
  <2> QED BY <1>5, <1>9, <2>5, <2>6, Zenon DEF Covered, Cover, grown
<1>10. CASE elems > 0 /\ elems' = elems - 1 /\ c \in WillLook /\ pc'[c] = "out"
  <2>1. c \notin WillLook' /\ c \notin Committed' /\ c \notin sleepers'
    BY <1>1, <1>10, Zenon DEF WillLook, Committed, Frame
  <2>2. WillLook' = WillLook \ {c}
    BY <1>2, <1>6, <2>1, Zenon DEF WillLook
  <2>3. /\ grown(Due) = Cardinality(Cover(Due)) - 1
        /\ grown(Waking) = Cardinality(Cover(Waking)) - 1
    BY <1>2, <1>10, <2>2, PairsDrop, Zenon DEF Cover
  <2>4. (Committed' # {} => Committed # {}) /\ (sleepers' # {} => sleepers # {})
    BY <1>6, <1>7, <2>1, Zenon DEF Committed
  <2> HIDE DEF grown
  <2>5. Committed' # {} => elems' <= grown(Due)
    <3>1. Committed' # {} => elems <= Cardinality(Cover(Due))
      BY <1>7, <2>4, Zenon DEF Covered
    <3> QED BY <1>2, <1>10, <2>3, <3>1
  <2>6. sleepers' # {} => elems' <= grown(Waking)
    <3>1. sleepers' # {} => elems <= Cardinality(Cover(Waking))
      BY <1>7, <2>4, Zenon DEF Covered
    <3> QED BY <1>2, <1>10, <2>3, <3>1
  <2> QED BY <1>5, <2>5, <2>6, Zenon DEF Covered, Cover, grown
<1> QED BY <1>1, <1>8, <1>9, <1>10, Zenon DEF Careful

\* A consumer's step keeps the invariant.
LEMMA MoveKeeps ==
  ASSUME WaiterInv, NEW c \in Consumers, Moves(c)
  PROVE  WaiterInv'
<1>1. /\ Frame(c) /\ elems' \in Nat /\ owed' \in Nat /\ owed' <= elems'
      /\ pc'[c] \in ConsumerPCs /\ Waiting(c)' /\ (c \in Counted' <=> c \in Counted)
  BY Zenon DEF Moves
<1>2. /\ UNCHANGED <<policy, waiters, epoch, closed, count, publishes>>
      /\ DOMAIN pc' = Threads /\ DOMAIN buf' = Threads
      /\ key' \in [Consumers -> 0..(Epochs - 1)]
      /\ sleepers' = {d \in Consumers : pc'[d] = "asleep"}
  BY <1>1, Zenon DEF Frame
<1>3. \A p \in Producers : p \in Threads /\ p # c
  BY WaiterAssumption DEF Threads
<1>4. \A p \in Producers : pc'[p] = pc[p] /\ buf'[p] = buf[p]
  BY <1>1, <1>3, Zenon DEF Frame
<1>5. \A d \in Consumers : d # c => pc'[d] = pc[d] /\ buf'[d] = buf[d] /\ key'[d] = key[d]
  BY <1>1, Zenon DEF Frame, Threads
<1>6. TypeInv'
  <2>1. /\ policy' \in {"spin", "park", "spin_then_park"} /\ waiters' \in Nat
        /\ epoch' \in 0..(Epochs - 1) /\ closed' \in BOOLEAN /\ count' \in [Producers -> Nat]
        /\ publishes' \in 0..MaxPublish
    BY <1>2, Zenon DEF WaiterInv, TypeInv
  <2>2. \A d \in Consumers : pc'[d] \in ConsumerPCs
    BY <1>1, <1>5, Zenon DEF WaiterInv, TypeInv
  <2>3. \A p \in Producers : pc'[p] \in ProducerPCs /\ buf'[p] \in Seq(ProducerStores)
    BY <1>4, Zenon DEF WaiterInv, TypeInv
  <2> QED BY <1>1, <1>2, <2>1, <2>2, <2>3, Zenon DEF TypeInv
<1>7. ASSUME NEW d \in Consumers PROVE Waiting(d)'
  <2>1. CASE d # c
    BY <1>2, <1>5, <2>1, Zenon DEF WaiterInv, Waiting, Age
  <2> QED BY <1>1, <2>1, Zenon
<1>8. Counted' = Counted
  <2>1. ASSUME NEW d \in Consumers PROVE d \in Counted' <=> d \in Counted
    <3>1. CASE d # c
      BY <1>5, <3>1, Zenon DEF Counted
    <3> QED BY <1>1, <3>1, Zenon
  <2>2. Counted \subseteq Consumers /\ Counted' \subseteq Consumers
    BY Zenon DEF Counted
  <2> QED BY <2>1, <2>2, Zenon
<1>9. waiters' = Cardinality(Counted')
  BY <1>2, <1>8, Zenon DEF WaiterInv
<1>10. policy' # "spin" => (\A p \in Producers : Publishing(p)') /\ EpochInv'
  <2>1. ToBump' = ToBump /\ (Closing' <=> Closing)
    BY <1>2, <1>4, Zenon DEF ToBump, Closing
  <2>2. policy # "spin" => EpochInv'
    BY <1>2, <2>1, Zenon DEF WaiterInv, EpochInv, Age
  <2>3. policy # "spin" => \A p \in Producers : Publishing(p)'
    BY <1>2, <1>4, Zenon DEF WaiterInv, Publishing
  <2> QED BY <1>2, <2>2, <2>3, Zenon
<1>11. Covered'
  BY MoveCovers, Zenon
<1> QED BY <1>6, <1>7, <1>9, <1>10, <1>11, Zenon DEF WaiterInv
-----------------------------------------------------------------------------
(* A consumer's store reaches memory. *)

\* waiters_ counts the consumers that are announced in memory.
LEMMA ConsumerDrain ==
  ASSUME WaiterInv, NEW c \in Consumers, Drain(c)
  PROVE  WaiterInv'
<1>1. /\ Waiting(c) /\ c \in Threads /\ DOMAIN pc = Threads /\ DOMAIN buf = Threads
  BY Own
<1>2. /\ buf' = [buf EXCEPT ![c] = Tail(buf[c])] /\ buf[c] # <<>>
      /\ UNCHANGED <<epoch, key, count, policy, publishes>> /\ UNCHANGED <<sleepers, pc>>
  BY Zenon DEF Drain, Fenced, locals, bounds
<1>3. /\ DOMAIN buf' = Threads /\ buf'[c] = Tail(buf[c])
      /\ \A t \in Threads : t # c => buf'[t] = buf[t]
  BY <1>1, <1>2
<1>4. Head(buf[c]) \in {Up, Down}
  <2>1. Head(<<Up>>) = Up /\ Head(<<Down>>) = Down /\ Head(<<Down, Up>>) = Down
    OBVIOUS
  <2> QED BY <1>1, <1>2, <2>1, Zenon DEF Waiting
<1>5. waiters' = waiters + Head(buf[c]).n /\ UNCHANGED <<elems, closed, owed>>
  <2>1. Head(buf[c]).to = "waiters"
    BY <1>4, SMTT(30) DEF Up, Down
  <2> QED BY <2>1 DEF Drain
<1>6. /\ waiters \in Nat /\ waiters = Cardinality(Counted)
      /\ IsFiniteSet(Counted) /\ Counted \subseteq Consumers /\ Counted' \subseteq Consumers
  <2>1. Counted \subseteq Consumers /\ Counted' \subseteq Consumers
    BY DEF Counted
  <2> QED BY <2>1, WaiterAssumption, FS_Subset, Zenon DEF WaiterInv, TypeInv
<1>7. ASSUME NEW d \in Consumers, d # c PROVE d \in Counted' <=> d \in Counted
  BY <1>2, <1>3, <1>7, Zenon DEF Counted, Threads
<1>8. Up # Down /\ Up.n = 1 /\ Down.n = -1
  BY DEF Up, Down
<1>9. /\ Waiting(c)'
      /\ \/ c \in Counted /\ c \notin Counted' /\ Head(buf[c]) = Down
         \/ c \notin Counted /\ c \in Counted' /\ Head(buf[c]) = Up
  <2>1. CASE buf[c] = <<Down>> /\ pc[c] \notin Announced
    <3>1. buf'[c] = <<>> /\ Head(buf[c]) = Down /\ buf[c][1] = Down
      BY <1>3, <2>1
    <3>2. Keyed \subseteq Announced
      BY DEF Keyed, Announced
    <3> QED BY <1>1, <1>2, <2>1, <3>1, <3>2, Zenon DEF Waiting, Counted
  <2>2. CASE buf[c] = <<Up>> /\ pc[c] = "key"
    <3>1. buf'[c] = <<>> /\ Head(buf[c]) = Up /\ buf[c][1] = Up
      BY <1>3, <2>2
    <3>2. "key" \notin Keyed /\ "key" \in Announced
      BY DEF Keyed, Announced
    <3> QED BY <1>1, <1>2, <1>8, <2>2, <3>1, <3>2, Zenon DEF Waiting, Counted
  <2>3. CASE buf[c] = <<Down, Up>> /\ pc[c] = "key"
    <3>1. /\ Tail(<<Down, Up>>) = <<Up>> /\ Head(<<Down, Up>>) = Down
          /\ <<Down, Up>>[1] = Down /\ <<Up>>[1] = Up /\ <<Up>> # <<>>
      OBVIOUS
    <3>2. "key" \notin Keyed
      BY DEF Keyed
    <3> QED BY <1>1, <1>2, <1>3, <1>8, <2>3, <3>1, <3>2, Zenon DEF Waiting, Counted
  <2> QED BY <1>1, <1>2, <2>1, <2>2, <2>3, Zenon DEF Waiting
<1>10. waiters' \in Nat /\ waiters' = Cardinality(Counted')
  <2>1. CASE c \in Counted /\ c \notin Counted' /\ Head(buf[c]) = Down
    <3>1. Counted' = Counted \ {c}
      BY <1>6, <1>7, <2>1
    <3>2. Cardinality(Counted \ {c}) = waiters - 1 /\ IsFiniteSet(Counted \ {c})
      BY <1>6, <2>1, OneFewer, Zenon
    <3>3. Cardinality(Counted \ {c}) \in Nat
      BY <3>2, FS_CardinalityType, Zenon
    <3>4. waiters' = waiters - 1
      BY <1>5, <1>6, <1>8, <2>1
    <3> QED BY <3>1, <3>2, <3>3, <3>4, Zenon
  <2>2. CASE c \notin Counted /\ c \in Counted' /\ Head(buf[c]) = Up
    <3>1. Counted' = Counted \cup {c}
      BY <1>6, <1>7, <2>2
    <3>2. Cardinality(Counted \cup {c}) = waiters + 1
      BY <1>6, <2>2, OneMore, Zenon
    <3>3. waiters' = waiters + 1 /\ waiters' \in Nat
      BY <1>5, <1>6, <1>8, <2>2, SMTT(30)
    <3> QED BY <3>1, <3>2, <3>3, Zenon
  <2> QED BY <1>9, <2>1, <2>2, Zenon
<1>11. \A p \in Producers : buf'[p] = buf[p]
  BY <1>3, WaiterAssumption, Zenon DEF Threads
<1>12. TypeInv'
  BY <1>2, <1>3, <1>5, <1>10, <1>11, Zenon DEF WaiterInv, TypeInv
<1>13. ASSUME NEW d \in Consumers PROVE Waiting(d)'
  <2>1. CASE d # c
    BY <1>2, <1>3, <2>1, Zenon DEF WaiterInv, Waiting, Age, Threads
  <2> QED BY <1>9, <2>1, Zenon
<1>14. policy' # "spin" => (\A p \in Producers : Publishing(p)') /\ EpochInv'
  BY <1>2, <1>5, <1>11, Zenon DEF WaiterInv, Publishing, EpochInv, ToBump, Closing, Age
<1>15. Covered'
  <2>1. Due' = Due
    BY <1>2, <1>11, Zenon DEF Due, Fenced
  <2>2. WillLook' = WillLook /\ Committed' = Committed /\ Waking' = Waking
    BY <1>2, <2>1, Zenon DEF WillLook, Committed, Waking
  <2> QED BY <1>2, <1>5, <2>1, <2>2, Zenon DEF WaiterInv, Covered, Cover
<1> QED BY <1>10, <1>12, <1>13, <1>14, <1>15, Zenon DEF WaiterInv
-----------------------------------------------------------------------------
(* A producer's step. *)

\* What a step of producer p, other than the kernel's wake-up, leaves alone.
Beside(p) ==
  /\ UNCHANGED <<policy, waiters, key, sleepers>>
  /\ DOMAIN pc' = Threads /\ DOMAIN buf' = Threads
  /\ \A t \in Threads : t # p => pc'[t] = pc[t] /\ buf'[t] = buf[t]
  /\ pc'[p] \in ProducerPCs /\ buf'[p] \in Seq(ProducerStores)
  /\ elems' \in Nat /\ owed' \in Nat /\ owed' <= elems'
  /\ epoch' \in 0..(Epochs - 1) /\ closed' \in BOOLEAN /\ (closed => closed')
  /\ count' \in [Producers -> Nat] /\ \A q \in Producers : q # p => count'[q] = count[q]
  /\ publishes' \in 0..MaxPublish

\* The consumers stay as they are.
LEMMA BesideConsumers ==
  ASSUME WaiterInv, NEW p \in Producers, Beside(p)
  PROVE  /\ \A c \in Consumers : pc'[c] = pc[c] /\ buf'[c] = buf[c] /\ key'[c] = key[c]
         /\ TypeInv' /\ waiters' = Cardinality(Counted')
<1>1. \A c \in Consumers : c \in Threads /\ c # p
  BY WaiterAssumption DEF Threads
<1>2. \A c \in Consumers : pc'[c] = pc[c] /\ buf'[c] = buf[c] /\ key'[c] = key[c]
  BY <1>1, Zenon DEF Beside
<1>3. Counted' = Counted
  BY <1>2, Zenon DEF Counted
<1>4. \A q \in Producers : pc'[q] \in ProducerPCs /\ buf'[q] \in Seq(ProducerStores)
  BY Zenon DEF WaiterInv, TypeInv, Beside, Threads
<1>5. {c \in Consumers : pc'[c] = "asleep"} = {c \in Consumers : pc[c] = "asleep"}
  BY <1>2, Zenon
<1>6. TypeInv'
  BY <1>2, <1>4, <1>5, Zenon DEF WaiterInv, TypeInv, Beside
<1> QED BY <1>2, <1>3, <1>6, Zenon DEF WaiterInv, Beside

\* So do the other producers.
LEMMA BesideProducers ==
  ASSUME WaiterInv, NEW p \in Producers, Beside(p), policy # "spin"
  PROVE  \A q \in Producers : q # p => Publishing(q)' /\ pc'[q] = pc[q] /\ buf'[q] = buf[q]
<1> SUFFICES ASSUME NEW q \in Producers, q # p
             PROVE  Publishing(q)' /\ pc'[q] = pc[q] /\ buf'[q] = buf[q]
  OBVIOUS
<1>1. /\ pc'[q] = pc[q] /\ buf'[q] = buf[q] /\ count'[q] = count[q] /\ (closed => closed')
  BY Zenon DEF Beside, Threads
<1>2. Publishing(q)
  BY Zenon DEF WaiterInv
<1> QED BY <1>1, <1>2, Zenon DEF Publishing

\* With the word as it was, so does who looks and who is on the way to sleep.
LEMMA BesideLooks ==
  ASSUME WaiterInv, NEW p \in Producers, Beside(p), epoch' = epoch
  PROVE  /\ \A c \in Consumers : Waiting(c)'
         /\ WillLook' = WillLook /\ Committed' = Committed
<1>1. \A c \in Consumers : pc'[c] = pc[c] /\ buf'[c] = buf[c] /\ key'[c] = key[c]
  BY BesideConsumers, Zenon
<1>2. ASSUME NEW c \in Consumers PROVE Waiting(c)'
  BY <1>1, Zenon DEF WaiterInv, Waiting, Beside, Age
<1>3. WillLook' = WillLook /\ Committed' = Committed
  BY <1>1, Zenon DEF WillLook, Committed
<1> QED BY <1>2, <1>3, Zenon

\* Where consumers only spin there is nobody to wake.
LEMMA BesideSpins ==
  ASSUME WaiterInv, NEW p \in Producers, Beside(p), policy = "spin"
  PROVE  WaiterInv'
<1>1. /\ TypeInv' /\ waiters' = Cardinality(Counted') /\ policy' = "spin"
      /\ \A c \in Consumers : pc'[c] = pc[c] /\ buf'[c] = buf[c] /\ key'[c] = key[c]
  BY BesideConsumers, Zenon DEF Beside
<1>2. ASSUME NEW c \in Consumers
      PROVE  pc'[c] \in {"out", "first_look", "spin_closed", "spin_look"} /\ Waiting(c)'
  <2>1. Waiting(c) /\ pc[c] \in {"out", "first_look", "spin_closed", "spin_look"}
    BY Zenon DEF WaiterInv, Waiting
  <2>2. pc[c] \notin Keyed
    BY <2>1 DEF Keyed
  <2> QED BY <1>1, <2>1, <2>2, Zenon DEF Waiting
<1>3. ASSUME NEW c \in Consumers PROVE pc'[c] \notin {"check", "futex", "asleep"}
  BY <1>2
<1>4. Committed' = {} /\ sleepers' = {}
  BY <1>1, <1>3, Zenon DEF Committed, TypeInv
<1> QED BY <1>1, <1>2, <1>4, Zenon DEF WaiterInv, Covered

\* Without a new element, wake-ups that stay due cover what they covered.
LEMMA BesideCovers ==
  ASSUME WaiterInv, NEW p \in Producers, Beside(p), epoch' = epoch, elems' = elems,
         Due \subseteq Due', Waking \subseteq Waking', \A q \in Waking : count'[q] = count[q]
  PROVE  Covered'
<1>1. /\ WillLook \in SUBSET Consumers /\ Due \in SUBSET Producers
      /\ Waking \in SUBSET Producers /\ Due \in SUBSET Waking
      /\ count \in [Producers -> Nat] /\ elems \in Nat
      /\ Cardinality(Cover(Due)) \in Nat /\ Cardinality(Cover(Waking)) \in Nat
  BY CoverType
<1>2. WillLook' = WillLook /\ Committed' = Committed /\ sleepers' = sleepers
  BY BesideLooks, Zenon DEF Beside
<1>3. /\ Cover(Due) = Pairs(WillLook, Due, count')
      /\ Cover(Waking) = Pairs(WillLook, Waking, count')
  BY <1>1, PairsSame, SMTT(30) DEF Cover
<1>4. /\ Due' \in SUBSET Producers /\ Waking' \in SUBSET Producers
      /\ count' \in [Producers -> Nat]
  BY Zenon DEF Due, Waking, Beside
<1> DEFINE D == Pairs(WillLook, Due', count')
           W == Pairs(WillLook, Waking', count')
<1>5. /\ Cardinality(D) \in Nat /\ Cardinality(Cover(Due)) <= Cardinality(D)
      /\ Cardinality(W) \in Nat /\ Cardinality(Cover(Waking)) <= Cardinality(W)
  BY <1>1, <1>3, <1>4, PairsGrow, PairsFinite, Zenon
<1>6. Cover(Due)' = D /\ Cover(Waking)' = W
  BY <1>2, Zenon DEF Cover
<1> HIDE DEF D, W
<1>7. /\ elems <= Cardinality(Cover(Due)) => elems <= Cardinality(D)
      /\ elems <= Cardinality(Cover(Waking)) => elems <= Cardinality(W)
  BY <1>1, <1>5
<1> QED BY <1>2, <1>6, <1>7, Zenon DEF WaiterInv, Covered

\* The numbers of EpochInv.
LEMMA EpochType ==
  ASSUME WaiterInv
  PROVE  /\ Age(epoch) \in Nat /\ publishes \in Nat /\ publishes <= MaxPublish
         /\ MaxPublish \in Nat /\ IsFiniteSet(ToBump) /\ Cardinality(ToBump) \in Nat
<1>1. epoch \in 0..(Epochs - 1) /\ publishes \in 0..MaxPublish
  BY DEF WaiterInv, TypeInv
<1>2. ToBump \in SUBSET Producers
  BY DEF ToBump
<1>3. IsFiniteSet(ToBump) /\ Cardinality(ToBump) \in Nat
  BY <1>2, WaiterAssumption, FS_Subset, FS_CardinalityType
<1> QED BY <1>1, <1>3, WaiterAssumption DEF Age

\* A publish, or closed_, reaches memory.
LEMMA ProducerDrain ==
  ASSUME WaiterInv, NEW p \in Producers, Drain(p)
  PROVE  WaiterInv'
<1> DEFINE w == Head(buf[p])
<1>1. /\ buf' = [buf EXCEPT ![p] = Tail(buf[p])] /\ buf[p] # <<>>
      /\ UNCHANGED <<epoch, key, count, policy, publishes>> /\ UNCHANGED <<sleepers, pc>>
  BY Zenon DEF Drain, Fenced, locals, bounds
<1>2. /\ buf[p] \in Seq(ProducerStores) /\ p \in Threads
      /\ DOMAIN pc = Threads /\ DOMAIN buf = Threads
      /\ elems \in Nat /\ owed \in Nat /\ owed <= elems /\ closed \in BOOLEAN
  BY Zenon DEF WaiterInv, TypeInv, Threads
<1>3. w \in ProducerStores /\ Tail(buf[p]) \in Seq(ProducerStores)
  BY <1>1, <1>2
<1>4. /\ DOMAIN buf' = Threads /\ buf'[p] = Tail(buf[p])
      /\ \A t \in Threads : t # p => buf'[t] = buf[t]
  BY <1>1, <1>2
<1>5. \/ /\ w.to = "queue" /\ w.n \in Nat /\ elems' = elems + w.n
         /\ UNCHANGED <<waiters, closed, owed>>
      \/ /\ w.to = "closed" /\ closed' = TRUE /\ owed' = (IF closed THEN owed ELSE elems)
         /\ UNCHANGED <<elems, waiters>>
  <2>1. (w.to = "queue" /\ w.n \in Nat) \/ w.to = "closed"
    BY <1>3 DEF ProducerStores
  <2> QED BY <2>1, Zenon DEF Drain
<1>6. Beside(p)
  <2>1. elems' \in Nat /\ owed' \in Nat /\ owed' <= elems'
    BY <1>2, <1>5
  <2>2. waiters' = waiters /\ closed' \in BOOLEAN /\ (closed => closed')
    BY <1>2, <1>5, Zenon
  <2>3. /\ pc'[p] \in ProducerPCs /\ epoch' \in 0..(Epochs - 1) /\ publishes' \in 0..MaxPublish
        /\ count' \in [Producers -> Nat]
    BY <1>1, Zenon DEF WaiterInv, TypeInv
  <2> QED BY <1>1, <1>2, <1>3, <1>4, <2>1, <2>2, <2>3, Zenon DEF Beside
<1>7. CASE policy = "spin"
  BY <1>6, <1>7, BesideSpins
<1>8. CASE policy # "spin"
  <2>1. Publishing(p) /\ Covered /\ EpochInv
    BY <1>8, Zenon DEF WaiterInv
  <2>2. /\ \A q \in Producers : q # p => Publishing(q)' /\ pc'[q] = pc[q] /\ buf'[q] = buf[q]
        /\ TypeInv' /\ waiters' = Cardinality(Counted') /\ \A c \in Consumers : Waiting(c)'
        /\ WillLook' = WillLook /\ Committed' = Committed
    BY <1>1, <1>6, <1>8, BesideProducers, BesideConsumers, BesideLooks, Zenon
  <2>3. EpochInv'
    <3>1. ToBump' = ToBump /\ (Closing => Closing')
      BY <1>1, <1>6, Zenon DEF ToBump, Closing, Beside
    <3>2. Age(epoch)' = Age(epoch) /\ publishes' = publishes
      BY <1>1, Zenon DEF Age
    <3>3. Age(epoch) + Cardinality(ToBump) <= publishes + (IF Closing' THEN 1 ELSE 0)
      BY <2>1, <3>1, EpochType, SMTT(30) DEF EpochInv
    <3> QED BY <3>1, <3>2, <3>3, Zenon DEF EpochInv
  <2>4. \/ /\ pc[p] = "notify" /\ buf[p] = <<[to |-> "queue", n |-> count[p]]>>
           /\ w.to = "queue" /\ w.n = count[p] /\ buf'[p] = <<>>
        \/ /\ pc[p] = "close" /\ w.to = "closed" /\ buf'[p] = <<>>
    <3>1. \/ pc[p] = "notify" /\ buf[p] = <<[to |-> "queue", n |-> count[p]]>>
          \/ pc[p] = "close" /\ buf[p] = <<[to |-> "closed", n |-> 1]>>
      <4>1. pc[p] \in ProducerPCs
        BY Zenon DEF WaiterInv, TypeInv
      <4> QED BY <1>1, <2>1, <4>1, Zenon DEF ProducerPCs, Publishing
    <3>2. ASSUME NEW v, buf[p] = <<v>> PROVE buf'[p] = <<>> /\ w = v
      BY <1>4, <3>2
    <3> QED BY <3>1, <3>2, SMTT(30)
  <2>5. CASE pc[p] = "notify" /\ w.to = "queue" /\ w.n = count[p] /\ buf'[p] = <<>>
    <3>1. elems' = elems + count[p] /\ pc'[p] = "notify"
      BY <1>1, <1>5, <2>5, Zenon
    <3>2. Publishing(p)'
      BY <2>5, <3>1, Zenon DEF Publishing
    <3>3. p \notin Due /\ p \notin Waking
      BY <1>1, <2>5, Zenon DEF Due, Waking, Fenced
    <3>4. Due' = Due \cup {p} /\ Waking' = Waking \cup {p}
      <4>1. Due' = Due \cup {p}
        BY <1>1, <2>2, <2>5, <3>1, Zenon DEF Due, Fenced
      <4>2. {q \in Producers : pc'[q] = "futex_wake"} = {q \in Producers : pc[q] = "futex_wake"}
        BY <1>1, Zenon
      <4> QED BY <4>1, <4>2, SMTT(30) DEF Waking
    <3>5. /\ WillLook \in SUBSET Consumers /\ Due \in SUBSET Producers
          /\ Waking \in SUBSET Producers /\ count \in [Producers -> Nat] /\ elems \in Nat
          /\ Cardinality(Cover(Due)) \in Nat /\ Cardinality(Cover(Waking)) \in Nat
      BY CoverType, Zenon
    <3>6. /\ Cardinality(Cover(Due))' = Cardinality(Cover(Due)) + count[p]
          /\ Cardinality(Cover(Waking))' = Cardinality(Cover(Waking)) + count[p]
      <4>1. /\ Cover(Due)' = Pairs(WillLook, Due \cup {p}, count)
            /\ Cover(Waking)' = Pairs(WillLook, Waking \cup {p}, count)
        BY <1>1, <2>2, <3>4, Zenon DEF Cover
      <4>2. Cardinality(Pairs(WillLook, Due \cup {p}, count))
              = Cardinality(Pairs(WillLook, Due, count)) + count[p]
        BY <3>3, <3>5, PairsJoin, ZenonT(30)
      <4>3. Cardinality(Pairs(WillLook, Waking \cup {p}, count))
              = Cardinality(Pairs(WillLook, Waking, count)) + count[p]
        BY <3>3, <3>5, PairsJoin, ZenonT(30)
      <4> QED BY <4>1, <4>2, <4>3, Zenon DEF Cover
    <3>7. /\ elems <= Cardinality(Cover(Due)) => elems' <= Cardinality(Cover(Due))'
          /\ elems <= Cardinality(Cover(Waking)) => elems' <= Cardinality(Cover(Waking))'
      <4> DEFINE m == count[p]
                 D == Cardinality(Cover(Due))
                 W == Cardinality(Cover(Waking))
      <4>1. m \in Nat /\ D \in Nat /\ W \in Nat /\ elems \in Nat
        BY <3>5
      <4>2. elems' = elems + m /\ D' = D + m /\ W' = W + m
        BY <3>1, <3>6, Zenon
      <4> HIDE DEF m, D, W
      <4>3. (elems <= D => elems' <= D') /\ (elems <= W => elems' <= W')
        BY <4>1, <4>2
      <4> QED BY <4>3, Zenon DEF D, W
    <3>8. Covered'
      BY <1>1, <2>1, <2>2, <3>7, Zenon DEF Covered
    <3> QED BY <2>2, <2>3, <3>2, <3>8, ZenonT(30) DEF WaiterInv
  <2>6. CASE pc[p] = "close" /\ w.to = "closed" /\ buf'[p] = <<>>
    <3>1. elems' = elems /\ closed' = TRUE /\ pc'[p] = "close"
      BY <1>1, <1>5, <2>6, Zenon
    <3>2. Publishing(p)'
      BY <2>6, <3>1, Zenon DEF Publishing
    <3>3. Due' = Due /\ Waking' = Waking
      <4>1. Due' = Due
        BY <1>1, <2>2, <2>6 DEF Due, Fenced
      <4> QED BY <1>1, <4>1, Zenon DEF Waking
    <3>4. Covered'
      BY <1>1, <1>6, <3>1, <3>3, BesideCovers, Zenon
    <3> QED BY <2>2, <2>3, <3>2, <3>4, Zenon DEF WaiterInv
  <2> QED BY <2>4, <2>5, <2>6, Zenon
<1> QED BY <1>7, <1>8

\* A publish, and close.
LEMMA StartKeeps ==
  ASSUME WaiterInv, NEW p \in Producers, Publish(p) \/ Close(p)
  PROVE  WaiterInv'
<1>1. /\ buf[p] \in Seq(ProducerStores) /\ p \in Threads /\ pc[p] \in ProducerPCs
      /\ DOMAIN pc = Threads /\ DOMAIN buf = Threads /\ count \in [Producers -> Nat]
      /\ elems \in Nat /\ owed \in Nat /\ owed <= elems /\ closed \in BOOLEAN
      /\ epoch \in 0..(Epochs - 1) /\ publishes \in 0..MaxPublish
  BY ZenonT(30) DEF WaiterInv, TypeInv, Threads
<1>2. /\ pc[p] = "out" /\ UNCHANGED <<elems, waiters, epoch, closed, owed>>
      /\ UNCHANGED <<key, policy, sleepers>>
  BY Zenon DEF Publish, Close, memory, bounds
<1>3. PICK v \in ProducerStores :
        /\ buf' = [buf EXCEPT ![p] = Append(buf[p], v)]
        /\ \/ /\ policy = "spin" /\ UNCHANGED <<count, pc>> /\ publishes' \in 0..MaxPublish
           \/ /\ v = [to |-> "queue", n |-> count'[p]] /\ pc' = [pc EXCEPT ![p] = "notify"]
              /\ publishes < MaxPublish /\ publishes' = publishes + 1
              /\ \E k \in Nat : count' = [count EXCEPT ![p] = k]
           \/ /\ v = [to |-> "closed", n |-> 1] /\ pc' = [pc EXCEPT ![p] = "close"]
              /\ publishes' = publishes /\ \E k \in Nat : count' = [count EXCEPT ![p] = k]
              /\ ~Closing
  <2>1. CASE Publish(p)
    <3>1. PICK k \in Batches :
            /\ buf' = [buf EXCEPT ![p] = Append(buf[p], [to |-> "queue", n |-> k])]
            /\ IF policy = "spin" THEN UNCHANGED <<count, pc>>
               ELSE /\ count' = [count EXCEPT ![p] = k] /\ pc' = [pc EXCEPT ![p] = "notify"]
      BY <2>1, Zenon DEF Publish, Store, Goto
    <3>2. k \in Nat /\ [to |-> "queue", n |-> k] \in ProducerStores
      BY WaiterAssumption, SMTT(30) DEF ProducerStores
    <3>3. publishes < MaxPublish /\ publishes' = publishes + 1 /\ publishes' \in 0..MaxPublish
      <4>1. publishes < MaxPublish /\ publishes' = publishes + 1
        BY <2>1, Zenon DEF Publish
      <4>2. publishes \in 0..MaxPublish
        BY <1>1, Zenon
      <4> QED BY <4>1, <4>2, WaiterAssumption
    <3>4. CASE policy = "spin"
      BY <3>1, <3>2, <3>3, <3>4, Zenon
    <3>5. CASE policy # "spin"
      <4>1. count' = [count EXCEPT ![p] = k] /\ pc' = [pc EXCEPT ![p] = "notify"]
        BY <3>1, <3>5, Zenon
      <4>2. count'[p] = k
        BY <1>1, <4>1
      <4> QED BY <3>1, <3>2, <3>3, <4>1, <4>2, Zenon
    <3> QED BY <3>4, <3>5, Zenon
  <2>2. CASE Close(p)
    <3>1. /\ buf' = [buf EXCEPT ![p] = Append(buf[p], [to |-> "closed", n |-> 1])]
          /\ pc' = [pc EXCEPT ![p] = "close"] /\ count' = [count EXCEPT ![p] = All]
          /\ publishes' = publishes /\ ~Closing
      BY <2>2, Zenon DEF Close, Store, Goto, bounds, Closing
    <3>2. All \in Nat
      BY WaiterAssumption, FS_CardinalityType, Zenon DEF All
    <3>3. [to |-> "closed", n |-> 1] \in ProducerStores
      BY SMTT(30) DEF ProducerStores
    <3> QED BY <3>1, <3>2, <3>3, Zenon
  <2> QED BY <2>1, <2>2, Zenon
<1>4. /\ count' \in [Producers -> Nat] /\ \A q \in Producers : q # p => count'[q] = count[q]
  <2>1. \E k \in Nat : count' = [count EXCEPT ![p] = k] \/ count' = count
    BY <1>3, Zenon
  <2> QED BY <1>1, <2>1, Zenon
<1>5. /\ DOMAIN buf' = Threads /\ buf'[p] = Append(buf[p], v) /\ buf'[p] \in Seq(ProducerStores)
      /\ \A t \in Threads : t # p => buf'[t] = buf[t]
  BY <1>1, <1>3, SMTT(30)
<1>6. /\ DOMAIN pc' = Threads /\ pc'[p] \in ProducerPCs
      /\ \A t \in Threads : t # p => pc'[t] = pc[t]
  BY <1>1, <1>3, Zenon DEF ProducerPCs
<1>7. publishes' \in 0..MaxPublish
  BY <1>1, <1>3, WaiterAssumption
<1>8. Beside(p)
  BY <1>1, <1>2, <1>4, <1>5, <1>6, <1>7, Zenon DEF Beside
<1>9. CASE policy = "spin"
  BY <1>8, <1>9, BesideSpins, Zenon
<1>10. CASE policy # "spin"
  <2>1. Publishing(p) /\ Covered /\ EpochInv
    BY <1>10, Zenon DEF WaiterInv
  <2>2. /\ \A q \in Producers : q # p => Publishing(q)' /\ pc'[q] = pc[q] /\ buf'[q] = buf[q]
        /\ TypeInv' /\ waiters' = Cardinality(Counted') /\ \A c \in Consumers : Waiting(c)'
    BY <1>2, <1>8, <1>10, BesideProducers, BesideConsumers, BesideLooks, Zenon
  <2>3. buf[p] = <<>> /\ buf'[p] = <<v>>
    <3>1. buf[p] = <<>>
      BY <1>2, <2>1, Zenon DEF Publishing
    <3>2. Append(<<>>, v) = <<v>>
      OBVIOUS
    <3> QED BY <1>5, <3>1, <3>2, Zenon
  <2>4. \/ v = [to |-> "queue", n |-> count'[p]] /\ pc'[p] = "notify"
        \/ v = [to |-> "closed", n |-> 1] /\ pc'[p] = "close"
    BY <1>1, <1>3, <1>10, Zenon
  <2>5. Publishing(p)'
    BY <2>3, <2>4, ZenonT(30) DEF Publishing
  <2>6. p \notin Due /\ p \notin Due' /\ p \notin Waking /\ p \notin Waking'
    <3>1. buf'[p] # <<>>
      BY <2>3
    <3>2. pc'[p] \in {"notify", "close"}
      BY <2>4, ZenonT(30)
    <3> QED BY <1>2, <3>1, <3>2, Zenon DEF Due, Waking, Fenced
  <2>7. Due \subseteq Due' /\ Waking \subseteq Waking' /\ \A q \in Waking : count'[q] = count[q]
    BY <1>4, <2>2, <2>6, Zenon DEF Due, Waking, Fenced
  <2>8. Covered'
    BY <1>2, <1>8, <2>7, BesideCovers, Zenon
  <2>9. EpochInv'
    <3>1. ToBump' = ToBump \cup {p} /\ p \notin ToBump
      BY <1>2, <2>2, <2>4, Zenon DEF ToBump
    <3>2. Cardinality(ToBump') = Cardinality(ToBump) + 1
      BY <3>1, EpochType, OneMore, Zenon
    <3>3. Age(epoch)' = Age(epoch)
      BY <1>2, Zenon DEF Age
    <3>4. \/ publishes' = publishes + 1 /\ (Closing => Closing')
          \/ publishes' = publishes /\ ~Closing /\ Closing'
      <4>1. \A q \in Producers : pc[q] = "close" => pc'[q] = "close"
        BY <1>2, <2>2, Zenon
      <4>2. CASE publishes' = publishes + 1
        BY <1>2, <4>1, <4>2, Zenon DEF Closing
      <4>3. CASE pc' = [pc EXCEPT ![p] = "close"] /\ publishes' = publishes /\ ~Closing
        BY <1>1, <4>3 DEF Closing
      <4> QED BY <1>3, <1>10, <4>2, <4>3, ZenonT(30)
    <3>5. Age(epoch) + Cardinality(ToBump') <= publishes' + (IF Closing' THEN 1 ELSE 0)
      BY <2>1, <3>2, <3>4, EpochType, SMTT(30) DEF EpochInv
    <3> QED BY <3>3, <3>5, ZenonT(30) DEF EpochInv
  <2> QED BY <2>2, <2>5, <2>8, <2>9, Zenon DEF WaiterInv
<1> QED BY <1>9, <1>10

\* Nobody sleeps, or is about to, while waiters_ is zero.
LEMMA NobodyCommitted ==
  ASSUME WaiterInv, waiters = 0
  PROVE  Committed = {} /\ sleepers = {}
<1>1. Counted \in SUBSET Consumers
  BY DEF Counted
<1>2. IsFiniteSet(Counted)
  BY <1>1, WaiterAssumption, FS_Subset
<1>3. Counted = {}
  BY <1>2, FS_EmptySet, Zenon DEF WaiterInv
<1>4. ASSUME NEW c \in Consumers, pc[c] \in {"check", "futex", "asleep"} PROVE FALSE
  <2>1. Waiting(c) /\ pc[c] \in Announced /\ pc[c] # "key"
    BY <1>4, Own, Zenon DEF Announced
  <2>2. buf[c] = <<>>
    BY <2>1, Zenon DEF Waiting
  <2> QED BY <1>3, <2>1, <2>2, Zenon DEF Counted
<1> QED BY <1>4, Zenon DEF Committed, WaiterInv, TypeInv

\* notify's and close's fences.
LEMMA FenceKeeps ==
  ASSUME WaiterInv, NEW p \in Producers, ReadWaiters(p) \/ CloseFence(p)
  PROVE  WaiterInv'
<1>1. /\ buf[p] \in Seq(ProducerStores) /\ p \in Threads /\ pc[p] \in ProducerPCs
      /\ DOMAIN pc = Threads /\ DOMAIN buf = Threads /\ count \in [Producers -> Nat]
      /\ elems \in Nat /\ owed \in Nat /\ owed <= elems /\ closed \in BOOLEAN
      /\ epoch \in 0..(Epochs - 1) /\ publishes \in 0..MaxPublish
  BY Zenon DEF WaiterInv, TypeInv, Threads
<1>2. /\ pc[p] \in {"notify", "close"} /\ buf[p] = <<>>
      /\ UNCHANGED <<elems, waiters, epoch, closed, owed>>
      /\ UNCHANGED <<key, policy, sleepers, buf, publishes>>
  BY Zenon DEF ReadWaiters, CloseFence, Fenced, memory, bounds, locals
<1>3. \/ /\ pc[p] = "notify" /\ waiters = 0 /\ pc' = [pc EXCEPT ![p] = "out"]
         /\ count' = [count EXCEPT ![p] = 0]
      \/ pc' = [pc EXCEPT ![p] = "wake"] /\ count' = count
  BY Zenon DEF ReadWaiters, CloseFence, Goto, locals
<1>4. count' \in [Producers -> Nat] /\ \A q \in Producers : q # p => count'[q] = count[q]
  BY <1>1, <1>3
<1>5. /\ DOMAIN pc' = Threads /\ pc'[p] \in ProducerPCs
      /\ \A t \in Threads : t # p => pc'[t] = pc[t]
  BY <1>1, <1>3 DEF ProducerPCs
<1>6. Beside(p)
  BY <1>1, <1>2, <1>4, <1>5, Zenon DEF Beside
<1>7. CASE policy = "spin"
  BY <1>6, <1>7, BesideSpins, Zenon
<1>8. CASE policy # "spin"
  <2>1. Publishing(p) /\ Covered /\ EpochInv
    BY <1>8, Zenon DEF WaiterInv
  <2>2. /\ \A q \in Producers : q # p => Publishing(q)' /\ pc'[q] = pc[q] /\ buf'[q] = buf[q]
        /\ TypeInv' /\ waiters' = Cardinality(Counted') /\ \A c \in Consumers : Waiting(c)'
        /\ Committed' = Committed
    BY <1>2, <1>6, <1>8, BesideProducers, BesideConsumers, BesideLooks, Zenon
  <2>3. pc'[p] \in {"out", "wake"} /\ buf'[p] = <<>>
    BY <1>1, <1>2, <1>3, Zenon
  <2>4. Publishing(p)'
    BY <2>3, Zenon DEF Publishing
  <2>5. Covered'
    <3>1. CASE waiters = 0
      BY <1>2, <2>2, <3>1, NobodyCommitted, Zenon DEF Covered
    <3>2. CASE pc' = [pc EXCEPT ![p] = "wake"] /\ count' = count
      <4>1. pc'[p] = "wake"
        BY <1>1, <3>2
      <4>2. Due \subseteq Due'
        BY <2>2, <4>1, Zenon DEF Due, Fenced
      <4>3. Waking \subseteq Waking'
        BY <2>2, <4>1, <4>2, Zenon DEF Waking, Due
      <4> QED BY <1>2, <1>6, <3>2, <4>2, <4>3, BesideCovers, Zenon
    <3> QED BY <1>3, <3>1, <3>2, Zenon
  <2>6. EpochInv'
    <3>1. ToBump' \in SUBSET ToBump
      BY <1>2, <2>2, Zenon DEF ToBump
    <3>2. Cardinality(ToBump') <= Cardinality(ToBump) /\ Cardinality(ToBump') \in Nat
      BY <3>1, EpochType, FS_Subset, FS_CardinalityType
    <3>3. Closing => Closing'
      <4>1. pc[p] = "close" => closed
        BY <1>2, <2>1 DEF Publishing
      <4> QED BY <1>2, <2>2, <4>1, Zenon DEF Closing
    <3>4. Age(epoch)' = Age(epoch) /\ publishes' = publishes
      BY <1>2, Zenon DEF Age
    <3>5. Age(epoch) + Cardinality(ToBump') <= publishes + (IF Closing' THEN 1 ELSE 0)
      BY <2>1, <3>2, <3>3, EpochType, SMTT(30) DEF EpochInv
    <3> QED BY <3>4, <3>5, Zenon DEF EpochInv
  <2> QED BY <2>2, <2>4, <2>5, <2>6, Zenon DEF WaiterInv
<1> QED BY <1>7, <1>8, SMTT(30)

\* The word's age after a bump.
LEMMA Older ==
  ASSUME NEW e \in 0..(Epochs - 1), Age(e) + 1 < Epochs
  PROVE  /\ (e + 1) % Epochs \in 0..(Epochs - 1)
         /\ Age((e + 1) % Epochs) = Age(e) + 1
<1>1. Epochs \in Nat \ {0} /\ Epoch0 \in 0..(Epochs - 1)
  BY WaiterAssumption
<1>2. CASE e + 1 = Epochs
  <2>1. (e + 1) % Epochs = 0
    BY <1>1, <1>2
  <2> QED BY <1>1, <1>2, <2>1 DEF Age
<1>3. CASE e + 1 < Epochs
  <2>1. (e + 1) % Epochs = e + 1
    BY <1>1, <1>3
  <2> QED BY <1>1, <1>3, <2>1 DEF Age
<1> QED BY <1>1, <1>2, <1>3

\* wake's bump: no key is the new word, so nobody goes to sleep on it.
LEMMA BumpKeeps ==
  ASSUME WaiterInv, NEW p \in Producers, Bump(p)
  PROVE  WaiterInv'
<1>1. /\ buf[p] \in Seq(ProducerStores) /\ p \in Threads /\ pc[p] \in ProducerPCs
      /\ DOMAIN pc = Threads /\ DOMAIN buf = Threads /\ count \in [Producers -> Nat]
      /\ elems \in Nat /\ owed \in Nat /\ owed <= elems /\ closed \in BOOLEAN
      /\ epoch \in 0..(Epochs - 1) /\ publishes \in 0..MaxPublish
      /\ key \in [Consumers -> 0..(Epochs - 1)]
  BY Zenon DEF WaiterInv, TypeInv, Threads
<1>2. /\ pc[p] = "wake" /\ pc' = [pc EXCEPT ![p] = "futex_wake"]
      /\ epoch' = (epoch + 1) % Epochs
      /\ UNCHANGED <<elems, waiters, closed, owed>>
      /\ UNCHANGED <<key, count, policy, sleepers, buf, publishes>>
  BY Zenon DEF Bump, Goto, locals, bounds
<1>3. /\ DOMAIN pc' = Threads /\ pc'[p] = "futex_wake" /\ "futex_wake" \in ProducerPCs
      /\ \A t \in Threads : t # p => pc'[t] = pc[t]
  BY <1>1, <1>2, Zenon DEF ProducerPCs
<1>4. epoch' \in 0..(Epochs - 1)
  BY <1>1, <1>2, WaiterAssumption
<1>5. Beside(p)
  BY <1>1, <1>2, <1>3, <1>4, Zenon DEF Beside
<1>6. CASE policy = "spin"
  BY <1>5, <1>6, BesideSpins, Zenon
<1>7. CASE policy # "spin"
  <2>1. Publishing(p) /\ Covered /\ EpochInv
    BY <1>7, Zenon DEF WaiterInv
  <2>2. /\ \A q \in Producers : q # p => Publishing(q)' /\ pc'[q] = pc[q] /\ buf'[q] = buf[q]
        /\ \A c \in Consumers : pc'[c] = pc[c] /\ buf'[c] = buf[c] /\ key'[c] = key[c]
        /\ TypeInv' /\ waiters' = Cardinality(Counted')
    BY <1>5, <1>7, BesideProducers, BesideConsumers, ZenonT(30)
  <2>3. Publishing(p)'
    <3>1. buf'[p] = <<>>
      BY <1>2, <2>1, Zenon DEF Publishing
    <3> QED BY <1>3, <3>1, Zenon DEF Publishing
  <2>4. /\ IsFiniteSet(ToBump) /\ p \in ToBump /\ ToBump' = ToBump \ {p}
        /\ Cardinality(ToBump') = Cardinality(ToBump) - 1 /\ Cardinality(ToBump') \in Nat
    <3>1. IsFiniteSet(ToBump) /\ p \in ToBump /\ ToBump' = ToBump \ {p}
      BY <1>2, <1>3, <2>2, EpochType, Zenon DEF ToBump
    <3>2. /\ IsFiniteSet(ToBump \ {p})
          /\ Cardinality(ToBump \ {p}) = Cardinality(ToBump) - 1
      BY <3>1, OneFewer, Zenon
    <3> QED BY <3>1, <3>2, FS_CardinalityType, ZenonT(30)
  <2>5. Age(epoch) + 1 < Epochs /\ Cardinality(ToBump) \in Nat /\ Age(epoch) \in Nat
    BY <2>1, <2>4, EpochType, EpochBound, WaiterAssumption DEF EpochInv
  <2>6. Age(epoch') = Age(epoch) + 1
    BY <1>1, <1>2, <2>5, Older, Zenon
  <2>7. EpochInv'
    <3>1. Closing => Closing'
      BY <1>2, <1>3, <2>2, Zenon DEF Closing
    <3>2. Age(epoch') + Cardinality(ToBump') <= publishes + (IF Closing' THEN 1 ELSE 0)
      BY <2>1, <2>4, <2>5, <2>6, <3>1, EpochType DEF EpochInv
    <3> QED BY <1>2, <3>2, ZenonT(30) DEF EpochInv, Age
  <2>8. ASSUME NEW c \in Consumers, pc[c] \in Keyed
        PROVE  Age(key[c]) <= Age(epoch') /\ key[c] # epoch'
    <3>1. Age(key[c]) <= Age(epoch)
      BY <2>8, Own, Zenon DEF Waiting
    <3>2. Age(key[c]) \in Int
      BY <1>1, WaiterAssumption DEF Age
    <3>3. Age(key[c]) < Age(epoch')
      BY <2>5, <2>6, <3>1, <3>2, SMTT(30)
    <3>4. Age(key[c]) <= Age(epoch') /\ Age(key[c]) # Age(epoch')
      BY <2>5, <2>6, <3>2, <3>3
    <3> QED BY <3>4, Zenon
  <2>9. ASSUME NEW c \in Consumers PROVE Waiting(c)'
    <3>1. Waiting(c)
      BY Own, Zenon
    <3> QED BY <1>2, <2>2, <2>8, <3>1, Zenon DEF Waiting, Age
  <2>10. Committed' = {} /\ WillLook \in SUBSET WillLook'
    <3>1. \A c \in Consumers : pc[c] \in {"check", "futex"} => key'[c] # epoch'
      BY <2>2, <2>8, Zenon DEF Keyed
    <3> QED BY <2>2, <3>1, Zenon DEF Committed, WillLook
  <2>11. Covered'
    <3>1. Waking' = Waking
      <4>1. ASSUME NEW q \in Producers PROVE q \in Waking' <=> q \in Waking
        <5>1. CASE q = p
          BY <1>2, <1>3, <5>1, Zenon DEF Waking, Due
        <5>2. CASE q # p
          BY <2>2, <5>2, Zenon DEF Waking, Due, Fenced
        <5> QED BY <5>1, <5>2
      <4>2. Waking \subseteq Producers /\ Waking' \subseteq Producers
        BY Zenon DEF Waking, Due
      <4> QED BY <4>1, <4>2, Zenon
    <3>2. WillLook' \in SUBSET Consumers
      BY DEF WillLook
    <3>3. /\ Waking \in SUBSET Producers /\ count \in [Producers -> Nat] /\ elems \in Nat
          /\ Cardinality(Cover(Waking)) \in Nat
      BY CoverType, Zenon
    <3> DEFINE W == Pairs(WillLook', Waking, count)
    <3>4. Cardinality(W) \in Nat /\ Cardinality(Cover(Waking)) <= Cardinality(W)
      BY <2>10, <3>2, <3>3, PairsGrow, PairsFinite, Zenon DEF Cover
    <3>5. Cover(Waking)' = W
      BY <1>2, <3>1, Zenon DEF Cover
    <3> HIDE DEF W
    <3>6. elems <= Cardinality(Cover(Waking)) => elems <= Cardinality(W)
      BY <3>3, <3>4
    <3> QED BY <1>2, <2>1, <2>10, <3>5, <3>6, Zenon DEF Covered
  <2> QED BY <2>2, <2>3, <2>7, <2>9, <2>11, Zenon DEF WaiterInv
<1> QED BY <1>6, <1>7

\* wake's system call: a wake-up spent is a look to come.
LEMMA WakeKeeps ==
  ASSUME WaiterInv, NEW p \in Producers, FutexWake(p)
  PROVE  WaiterInv'
<1>1. PICK S \in SUBSET sleepers :
        /\ Cardinality(S) = count[p] \/ S = sleepers
        /\ sleepers' = sleepers \ S
        /\ pc' = [t \in Threads |-> IF t \in S THEN "cancel"
                                    ELSE IF t = p THEN "out" ELSE pc[t]]
  BY Zenon DEF FutexWake
<1>2. /\ pc[p] = "futex_wake" /\ count' = [count EXCEPT ![p] = 0]
      /\ UNCHANGED <<elems, waiters, epoch, closed, owed>>
      /\ UNCHANGED <<key, policy, publishes, buf>>
  BY ZenonT(30) DEF FutexWake, memory, bounds
<1>3. /\ sleepers = {c \in Consumers : pc[c] = "asleep"} /\ p \notin S /\ p \in Threads
      /\ \A c \in Consumers : c \in Threads /\ c # p
      /\ \A q \in Producers : q \in Threads /\ q \notin S
  BY <1>1, WaiterAssumption, ZenonT(30) DEF WaiterInv, TypeInv, Threads
<1>4. /\ DOMAIN pc' = Threads /\ pc'[p] = "out"
      /\ \A c \in S : c \in Consumers /\ pc[c] = "asleep" /\ pc'[c] = "cancel"
      /\ \A c \in Consumers : c \notin S => pc'[c] = pc[c]
      /\ \A q \in Producers : q # p => pc'[q] = pc[q]
  BY <1>1, <1>3, ZenonT(30)
<1>5. count' \in [Producers -> Nat] /\ \A q \in Producers : q # p => count'[q] = count[q]
  BY <1>2, Zenon DEF WaiterInv, TypeInv
<1>6. sleepers' = {c \in Consumers : pc'[c] = "asleep"}
  BY <1>1, <1>3, <1>4, Zenon
<1>7. TypeInv'
  <2>1. \A c \in Consumers : pc'[c] \in ConsumerPCs
    BY <1>4, ZenonT(30) DEF WaiterInv, TypeInv, ConsumerPCs
  <2>2. \A q \in Producers : pc'[q] \in ProducerPCs
    BY <1>4, Zenon DEF WaiterInv, TypeInv, ProducerPCs
  <2> QED BY <1>2, <1>4, <1>5, <1>6, <2>1, <2>2, ZenonT(30) DEF WaiterInv, TypeInv
<1>8. ASSUME NEW c \in Consumers PROVE Waiting(c)' /\ (c \in Counted' <=> c \in Counted)
  <2>1. Waiting(c)
    BY Own, Zenon
  <2>2. CASE c \in S
    <3>1. /\ pc[c] \in Announced /\ pc[c] # "key" /\ pc'[c] = "cancel"
          /\ "cancel" \in Announced /\ "cancel" \notin Keyed
          /\ pc[c] \notin {"out", "first_look", "spin_closed", "spin_look"}
      BY <1>4, <2>2, Zenon DEF Announced, Keyed
    <3>2. buf[c] = <<>> /\ policy # "spin"
      BY <2>1, <3>1, Zenon DEF Waiting
    <3> QED BY <1>2, <3>1, <3>2, Zenon DEF Waiting, Counted
  <2>3. CASE c \notin S
    BY <1>2, <1>4, <2>1, <2>3, Zenon DEF Waiting, Counted, Age
  <2> QED BY <2>2, <2>3, SMTT(30)
<1>9. Counted' = Counted
  <2>1. Counted \subseteq Consumers /\ Counted' \subseteq Consumers
    BY DEF Counted
  <2> QED BY <1>8, <2>1, Zenon
<1>10. policy' # "spin" => (\A q \in Producers : Publishing(q)') /\ EpochInv'
  <2>1. ToBump' = ToBump /\ (Closing' <=> Closing)
    BY <1>2, <1>4, Zenon DEF ToBump, Closing
  <2>2. policy # "spin" => EpochInv'
    BY <1>2, <2>1, Zenon DEF WaiterInv, EpochInv, Age
  <2>3. ASSUME policy # "spin", NEW q \in Producers PROVE Publishing(q)'
    <3>1. Publishing(q)
      BY <2>3, Zenon DEF WaiterInv
    <3>2. CASE q = p
      <4>1. buf'[p] = <<>>
        BY <1>2, <3>1, <3>2, Zenon DEF Publishing
      <4> QED BY <1>4, <3>2, <4>1, Zenon DEF Publishing
    <3>3. CASE q # p
      BY <1>2, <1>4, <1>5, <3>1, <3>3, Zenon DEF Publishing
    <3> QED BY <3>2, <3>3
  <2> QED BY <1>2, <2>2, <2>3, Zenon
<1>11. Covered'
  <2>1. /\ WillLook \in SUBSET Consumers /\ Due \in SUBSET Producers
        /\ Waking \in SUBSET Producers /\ count \in [Producers -> Nat] /\ elems \in Nat
        /\ Cardinality(Cover(Due)) \in Nat /\ Cardinality(Cover(Waking)) \in Nat
    BY CoverType, Zenon
  <2>2. S \in SUBSET Consumers /\ WillLook \cap S = {}
    BY <1>4, Zenon DEF WillLook
  <2>3. WillLook' = WillLook \cup S
    <3>1. ASSUME NEW c \in Consumers PROVE c \in WillLook' <=> c \in WillLook \/ c \in S
      <4>1. CASE c \in S
        BY <1>4, <4>1, Zenon DEF WillLook
      <4>2. CASE c \notin S
        BY <1>2, <1>4, <4>2, Zenon DEF WillLook
      <4> QED BY <4>1, <4>2, SMTT(30)
    <3>2. WillLook' \subseteq Consumers
      BY DEF WillLook
    <3> QED BY <2>1, <2>2, <3>1, <3>2, Zenon
  <2>4. Committed' = Committed
    <3>1. ASSUME NEW c \in Consumers PROVE c \in Committed' <=> c \in Committed
      <4>1. CASE c \in S
        BY <1>4, <4>1, Zenon DEF Committed
      <4>2. CASE c \notin S
        BY <1>2, <1>4, <4>2, ZenonT(30) DEF Committed
      <4> QED BY <4>1, <4>2, SMTT(30)
    <3>2. Committed \subseteq Consumers /\ Committed' \subseteq Consumers
      BY Zenon DEF Committed
    <3> QED BY <3>1, <3>2, Zenon
  <2>5. Due' = Due /\ p \notin Due
    BY <1>2, <1>4, Zenon DEF Due, Fenced
  <2>6. Waking' = Waking \ {p} /\ p \in Waking
    BY <1>2, <1>4, <2>5, Zenon DEF Waking
  <2> DEFINE D == Pairs(WillLook \cup S, Due, count)
             W == Pairs(WillLook \cup S, Waking \ {p}, count)
  <2>7. Cover(Due)' = D /\ Cover(Waking)' = W
    <3>1. /\ Pairs(WillLook \cup S, Due, count') = D
          /\ Pairs(WillLook \cup S, Waking \ {p}, count') = W
      <4>1. \A q \in Due : count'[q] = count[q]
        BY <1>5, <2>1, <2>5, Zenon
      <4>2. \A q \in Waking \ {p} : count'[q] = count[q]
        BY <1>5, <2>1, Zenon
      <4> QED BY <4>1, <4>2, PairsSame
    <3> QED BY <2>3, <2>5, <2>6, <3>1, ZenonT(30) DEF Cover
  <2>8. Cardinality(D) \in Nat /\ Cardinality(Cover(Due)) <= Cardinality(D)
    <3>1. WillLook \cup S \in SUBSET Consumers /\ WillLook \in SUBSET (WillLook \cup S)
      BY <2>1, <2>2
    <3> QED BY <2>1, <3>1, PairsGrow, PairsFinite, Zenon DEF Cover
  <2>9. Cardinality(S) = count[p] => Cardinality(W) = Cardinality(Cover(Waking))
    <3> DEFINE R == Waking \ {p}
    <3>1. R \in SUBSET Producers /\ p \notin R /\ R \cup {p} = Waking
      BY <2>1, <2>6
    <3> HIDE DEF R
    <3>2. Cardinality(Pairs(WillLook \cup S, R, count))
            = Cardinality(Pairs(WillLook, R, count)) + Cardinality(S)
      BY <2>1, <2>2, <3>1, PairsWoken, SMTT(30)
    <3>3. Cardinality(Pairs(WillLook, R \cup {p}, count))
            = Cardinality(Pairs(WillLook, R, count)) + count[p]
      BY <2>1, <3>1, PairsJoin, Zenon
    <3> QED BY <3>1, <3>2, <3>3, Zenon DEF Cover, R
  <2> HIDE DEF D, W
  <2>10. sleepers' # {} => Cardinality(S) = count[p] /\ sleepers # {}
    BY <1>1, Zenon
  <2>11. elems <= Cardinality(Cover(Due)) => elems <= Cardinality(D)
    BY <2>1, <2>8
  <2> QED BY <1>2, <2>4, <2>7, <2>9, <2>10, <2>11, Zenon DEF WaiterInv, Covered
<1> QED BY <1>2, <1>7, <1>8, <1>9, <1>10, <1>11, Zenon DEF WaiterInv
-----------------------------------------------------------------------------
(* The theorems. *)

\* The invariant holds before anybody waits or publishes.
LEMMA WaiterInit ==
  Init => WaiterInv
<1> SUFFICES ASSUME Init PROVE WaiterInv
  OBVIOUS
<1>1. /\ policy \in {"spin", "park", "spin_then_park"}
      /\ elems = 0 /\ waiters = 0 /\ epoch = Epoch0 /\ closed = FALSE /\ owed = 0
      /\ publishes = 0 /\ sleepers = {}
  BY WaiterAssumption, Zenon DEF Init
<1>2. /\ DOMAIN pc = Threads /\ DOMAIN buf = Threads
      /\ \A t \in Threads : pc[t] = "out" /\ buf[t] = <<>>
  BY DEF Init
<1>3. /\ \A c \in Consumers : pc[c] = "out" /\ buf[c] = <<>>
      /\ \A p \in Producers : pc[p] = "out" /\ buf[p] = <<>>
  BY <1>2, Zenon DEF Threads
<1>4. TypeInv
  <2>1. /\ "out" \in ConsumerPCs /\ "out" \in ProducerPCs /\ <<>> \in Seq(ProducerStores)
        /\ 0 \in 0..MaxPublish /\ 0 \in Nat /\ 0 <= 0 /\ FALSE \in BOOLEAN
        /\ Epoch0 \in 0..(Epochs - 1) /\ 0 \in 0..(Epochs - 1)
    BY WaiterAssumption DEF ConsumerPCs, ProducerPCs
  <2>2. key \in [Consumers -> 0..(Epochs - 1)] /\ count \in [Producers -> Nat]
    BY <2>1, Zenon DEF Init
  <2>3. {c \in Consumers : pc[c] = "asleep"} = {}
    BY <1>3
  <2> QED BY <1>1, <1>2, <1>3, <2>1, <2>2, <2>3, Zenon DEF TypeInv
<1>5. ASSUME NEW c \in Consumers PROVE Waiting(c)
  BY <1>3, Zenon DEF Waiting, Keyed
<1>6. waiters = Cardinality(Counted)
  <2>1. Counted = {}
    BY <1>3 DEF Counted, Announced
  <2> QED BY <1>1, <2>1, FS_EmptySet, Zenon
<1>7. ASSUME NEW p \in Producers PROVE Publishing(p)
  BY <1>3, Zenon DEF Publishing
<1>8. EpochInv
  <2>1. ToBump = {} /\ ~Closing
    BY <1>1, <1>3 DEF ToBump, Closing
  <2>2. Cardinality(ToBump) = 0
    BY <2>1, FS_EmptySet, Zenon
  <2>3. Age(epoch) = 0
    BY <1>1, WaiterAssumption DEF Age
  <2> QED BY <1>1, <2>1, <2>2, <2>3 DEF EpochInv
<1>9. Covered
  <2>1. Committed = {}
    BY <1>3 DEF Committed
  <2> QED BY <1>1, <2>1, Zenon DEF Covered
<1> QED BY <1>4, <1>5, <1>6, <1>7, <1>8, <1>9, Zenon DEF WaiterInv

\* Every step keeps it.
LEMMA WaiterNext ==
  WaiterInv /\ [Next]_vars => WaiterInv'
<1> SUFFICES ASSUME WaiterInv, [Next]_vars PROVE WaiterInv'
  OBVIOUS
<1>1. ASSUME NEW t \in Threads, Drain(t) PROVE WaiterInv'
  BY <1>1, ConsumerDrain, ProducerDrain, Zenon DEF Threads
<1>2. ASSUME NEW c \in Consumers, CallWait(c) \/ Expire(c) \/ SleepEnds(c) \/ ConsumerStep(c)
      PROVE  WaiterInv'
  <2>1. Moves(c)
    BY <1>2, ConsumerMoves, Zenon
  <2> QED BY <2>1, MoveKeeps, Zenon
<1>3. ASSUME NEW p \in Producers, Publish(p) \/ Close(p) \/ ProducerStep(p) PROVE WaiterInv'
  BY <1>3, StartKeeps, FenceKeeps, BumpKeeps, WakeKeeps, Zenon DEF ProducerStep
<1>4. CASE UNCHANGED vars
  <2>1. /\ UNCHANGED <<elems, waiters, epoch, closed, owed>>
        /\ UNCHANGED <<key, count, policy, publishes, buf, sleepers, pc>>
    BY <1>4 DEF vars, memory, locals, bounds
  <2> QED
    BY <2>1, Zenon
    DEF WaiterInv, TypeInv, Waiting, Counted, Publishing, EpochInv, ToBump, Closing, Age,
        Covered, Cover, Committed, WillLook, Due, Waking, Fenced
<1> QED BY <1>1, <1>2, <1>3, <1>4, Zenon DEF Next

\* The eventcount's invariant (waiter.hpp, lines 34-57): waiters_ counts the
\* announced consumers, keys are never newer than the word, and the elements a
\* consumer going to sleep did not see are covered by looks and wake-ups to come.
THEOREM WaiterInvariance ==
  Spec => []WaiterInv
BY WaiterInit, WaiterNext, PTL DEF Spec

\* No wake-up is lost, for any number of threads, publishes and waits.
THEOREM WakeupsKept ==
  Spec => []NoLostWakeup
<1>1. WaiterInv => NoLostWakeup
  <2> SUFFICES ASSUME WaiterInv, sleepers # {}
               PROVE  elems <= Cardinality(WillLook) + WakesToCome
    BY DEF NoLostWakeup
  <2>1. /\ WillLook \in SUBSET Consumers /\ Waking \in SUBSET Producers
        /\ count \in [Producers -> Nat] /\ elems \in Nat
        /\ Cardinality(Cover(Waking)) \in Nat
    BY CoverType, Zenon
  <2>2. elems <= Cardinality(Cover(Waking))
    BY Zenon DEF WaiterInv, Covered
  <2>3. Notifying \in SUBSET Producers /\ Waking \in SUBSET Notifying
    BY DEF Notifying, Waking, Due
  <2>4. Cardinality(Cover(Waking)) <= Cardinality(Pairs(WillLook, Notifying, count))
    BY <2>1, <2>3, PairsGrow DEF Cover
  <2>5. Cardinality(Pairs({} \cup WillLook, Notifying, count))
          = Cardinality(Pairs({}, Notifying, count)) + Cardinality(WillLook)
    BY <2>1, <2>3, PairsWoken
  <2>6. {} \cup WillLook = WillLook
    OBVIOUS
  <2>7. Pairs({}, Notifying, count) = UNION {{p} \X (1..count[p]) : p \in Notifying}
    BY Zenon DEF Pairs
  <2>8. Cardinality(Pairs({}, Notifying, count)) \in Nat /\ Cardinality(WillLook) \in Nat
    <3>1. {} \in SUBSET Consumers /\ IsFiniteSet(WillLook)
      BY <2>1, WaiterAssumption, FS_Subset
    <3> QED BY <2>1, <2>3, <3>1, PairsFinite, FS_CardinalityType, Zenon
  <2>9. WakesToCome = Cardinality(Pairs({}, Notifying, count))
    BY <2>7, Zenon DEF WakesToCome
  <2>10. Cardinality(Cover(Waking)) <= WakesToCome + Cardinality(WillLook)
    BY <2>4, <2>5, <2>6, <2>9, Zenon
  <2>11. WakesToCome \in Nat
    BY <2>8, <2>9, Zenon
  <2> QED BY <2>1, <2>2, <2>8, <2>10, <2>11
<1> QED BY <1>1, WaiterInvariance, PTL

\* waiters_ counts every sleeper, so that no publish takes the queue for unwatched.
THEOREM SleepersSeen ==
  Spec => []SleepersCounted
<1>1. WaiterInv => SleepersCounted
  <2> SUFFICES ASSUME WaiterInv PROVE SleepersCounted
    OBVIOUS
  <2>1. Counted \in SUBSET Consumers
    BY DEF Counted
  <2>2. IsFiniteSet(Counted)
    BY <2>1, WaiterAssumption, FS_Subset
  <2>3. ASSUME NEW c \in sleepers PROVE c \in Counted
    <3>1. c \in Consumers /\ pc[c] = "asleep"
      BY Zenon DEF WaiterInv, TypeInv
    <3>2. Waiting(c) /\ pc[c] \in Announced /\ pc[c] # "key"
      BY <3>1, Own, Zenon DEF Announced
    <3> QED BY <3>1, <3>2, Zenon DEF Waiting, Counted
  <2>4. Cardinality(sleepers) <= Cardinality(Counted)
    BY <2>2, <2>3, FS_Subset
  <2> QED BY <2>4, Zenon DEF SleepersCounted, WaiterInv
<1> QED BY <1>1, WaiterInvariance, PTL

\* While an element pushed before close() is left, no wait ends without one
\* but at its limit: what is owed is in the queue, so the look that ends a
\* wait finds it.
THEOREM EndsWithElement ==
  Spec => NeverEndsEarly
<1> DEFINE ends(c) ==
      pc[c] \notin {"out", "first_look"} /\ pc'[c] = "out" /\ owed > 0 =>
        elems' < elems \/ (limited[c] /\ late[c])
<1>1. WaiterInv /\ [Next]_vars => [\A c \in Consumers : ends(c)]_vars
  <2> SUFFICES ASSUME WaiterInv, Next, NEW c \in Consumers,
                      pc[c] \notin {"out", "first_look"}, pc'[c] = "out", owed > 0
               PROVE  elems' < elems
    BY Zenon DEF vars
  <2>1. /\ c \in Threads /\ DOMAIN pc = Threads /\ elems \in Nat /\ owed \in Nat
        /\ owed <= elems /\ (c \in sleepers <=> pc[c] = "asleep")
    BY Own, Zenon
  <2>2. elems > 0
    BY <2>1
  <2>3. pc'[c] # pc[c]
    BY Zenon
  <2>4. ASSUME NEW d \in Consumers, d # c,
               CallWait(d) \/ Expire(d) \/ SleepEnds(d) \/ ConsumerStep(d)
        PROVE  FALSE
    <3>1. Frame(d)
      BY <2>4, ConsumerMoves, Zenon DEF Moves
    <3> QED BY <2>1, <2>3, <2>4, <3>1, Zenon DEF Frame
  <2>5. ASSUME NEW t \in Threads, Drain(t) PROVE FALSE
    BY <2>3, <2>5, Zenon DEF Drain
  <2>6. ASSUME NEW p \in Producers, Publish(p) \/ Close(p) \/ ProducerStep(p) PROVE FALSE
    <3>1. p # c
      BY WaiterAssumption
    <3>2. CASE FutexWake(p)
      <4>1. PICK S \in SUBSET sleepers :
              pc' = [t \in Threads |-> IF t \in S THEN "cancel"
                                       ELSE IF t = p THEN "out" ELSE pc[t]]
        BY <3>2, Zenon DEF FutexWake
      <4>2. pc'[c] = IF c \in S THEN "cancel" ELSE pc[c]
        BY <2>1, <3>1, <4>1
      <4> QED BY <2>3, <4>2
    <3>3. CASE ~FutexWake(p)
      <4>1. \/ pc' = pc
            \/ \E l \in ProducerPCs : pc' = [pc EXCEPT ![p] = l]
        BY <2>6, <3>3, Zenon
        DEF Publish, Close, ProducerStep, ReadWaiters, CloseFence, Bump, Goto, ProducerPCs
      <4> QED BY <2>1, <2>3, <3>1, <4>1
    <3> QED BY <3>2, <3>3
  <2>7. ASSUME NEW at, NEW announced, NEW over, NEW next, Look(c, at, announced, over, next)
        PROVE  elems' < elems
    <3>1. elems' = elems - 1
      <4>1. elems # 0
        BY <2>1, <2>2
      <4> QED BY <2>7, <4>1, Zenon DEF Look, Taken
    <3> QED BY <2>1, <3>1, SMTT(30)
  <2>8. CASE CallWait(c) \/ Expire(c) \/ SleepEnds(c) \/ ConsumerStep(c)
    <3>1. CASE SpinLook(c) \/ ParkLook(c) \/ LastLook(c)
      BY <2>7, <3>1, Zenon DEF SpinLook, ParkLook, LastLook
    <3>2. CASE CallWait(c) \/ FirstLook(c)
      BY <3>2, Zenon DEF CallWait, FirstLook, Look
    <3>3. CASE Expire(c)
      BY <2>3, <3>3, Zenon DEF Expire
    <3>4. ASSUME NEW l, l # "out", pc' = [pc EXCEPT ![c] = l] PROVE FALSE
      BY <2>1, <3>4, SMTT(30)
    <3>5. CASE \/ SpinClosed(c) \/ ParkClosed(c) \/ Announce(c) \/ ReadKey(c) \/ LastClosed(c)
               \/ Check(c) \/ FutexWait(c) \/ SleepEnds(c) \/ TimedOut(c) \/ Cancel(c)
      BY <3>4, <3>5, Zenon
      DEF SpinClosed, ParkClosed, ReadClosed, Announce, ReadKey, LastClosed, Check, FutexWait,
          SleepEnds, TimedOut, Cancel, Goto
    <3> QED BY <2>8, <3>1, <3>2, <3>3, <3>5, Zenon DEF ConsumerStep
  <2> QED BY <2>4, <2>5, <2>6, <2>8, Zenon DEF Next
<1> QED BY <1>1, WaiterInvariance, PTL DEF Spec, NeverEndsEarly
==============================================================================
