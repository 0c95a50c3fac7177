------------------------------- MODULE Hazard -------------------------------
(***************************************************************************)
(* Hazard pointers (src/runtime/hazard.hpp): how the segmented queues free *)
(* a segment that other threads may still be reading.  A record belongs to *)
(* one thread at a time and carries its published slot and the segments it *)
(* has retired.  A thread of the model pushes or pops but not both, so it  *)
(* uses one of its record's two slots.  The allocator hands out the lowest *)
(* free address, so an address comes back as soon as it can.               *)
(***************************************************************************)
EXTENDS Naturals, FiniteSets

CONSTANTS Records,   \* one per thread
          MaxAddr,   \* bound: segments alive at once
          ScanAt     \* kScanAt, the retired nodes that start a scan

Addr == 1..MaxAddr
Nil == 0

VARIABLES ptr,       \* ptr[t]: the segment t is working on
          slot,      \* slot[t]: what t has published
          retired,   \* retired[t]: unlinked by t, not freed yet
          unread,    \* unread[t]: slots t's scan has still to read
          held,      \* held[t]: pointers t's scan has found published
          live,      \* addresses allocated and not freed
          stale      \* threads whose ptr was freed since they read it

hazardVars == <<ptr, slot, retired, unread, held, live, stale>>

HazardInit(first) ==
  /\ ptr = [t \in Records |-> Nil]
  /\ slot = [t \in Records |-> Nil]
  /\ retired = [t \in Records |-> {}]
  /\ unread = [t \in Records |-> {}]
  /\ held = [t \in Records |-> {}]
  /\ live = first
  /\ stale = {}

\* protect(): read src, then publish and read again until the two agree.
\* The same step is its relaxed first read and each read that disagrees.
Read(t, src) ==
  /\ ptr' = [ptr EXCEPT ![t] = src]
  /\ stale' = stale \ {t}
  /\ UNCHANGED <<slot, retired, unread, held, live>>

Publish(t) ==
  /\ slot' = [slot EXCEPT ![t] = ptr[t]]
  /\ UNCHANGED <<ptr, retired, unread, held, live, stale>>

\* clear(), and the thread has no segment in hand.
Unprotect(t) ==
  /\ slot' = [slot EXCEPT ![t] = Nil]
  /\ ptr' = [ptr EXCEPT ![t] = Nil]
  /\ stale' = stale \ {t}
  /\ UNCHANGED <<retired, unread, held, live>>

\* The thread's call is over, and its slot goes on holding the segment.
Forget(t) ==
  /\ ptr' = [ptr EXCEPT ![t] = Nil]
  /\ stale' = stale \ {t}
  /\ UNCHANGED <<slot, retired, unread, held, live>>

\* new segment.
Fresh == CHOOSE a \in Addr \ live : \A b \in Addr \ live : a <= b

Allocate ==
  /\ Addr \ live # {}
  /\ live' = live \cup {Fresh}
  /\ UNCHANGED <<ptr, slot, retired, unread, held, stale>>

\* retire(): a scan starts once ScanAt nodes wait.
ScanDue(t) == Cardinality(retired[t] \cup {ptr[t]}) >= ScanAt

Retire(t) ==
  /\ retired' = [retired EXCEPT ![t] = @ \cup {ptr[t]}]
  /\ unread' = [unread EXCEPT ![t] = IF ScanDue(t) THEN Records ELSE {}]
  /\ held' = [held EXCEPT ![t] = {}]
  /\ UNCHANGED <<ptr, slot, live, stale>>

\* scan() reads one record's slot; the order of the records is arbitrary
\* and fixed.
NextRecord(t) == CHOOSE q \in unread[t] : TRUE

ScanSlot(t) ==
  /\ unread[t] # {}
  /\ unread' = [unread EXCEPT ![t] = @ \ {NextRecord(t)}]
  /\ held' = [held EXCEPT ![t] = @ \cup ({slot[NextRecord(t)]} \ {Nil})]
  /\ UNCHANGED <<ptr, slot, retired, live, stale>>

\* Mutant: everything retired is freed, whatever the slots hold.
ScanFree_All(t) ==
  /\ unread[t] = {}
  /\ retired' = [retired EXCEPT ![t] = {}]
  /\ held' = [held EXCEPT ![t] = {}]
  /\ live' = live \ retired[t]
  /\ stale' = stale \cup {q \in Records : ptr[q] \in retired[t]}
  /\ UNCHANGED <<ptr, slot, unread>>

\* The last part of scan(): free what no slot held.
ScanFree(t) ==
  LET gone == retired[t] \ held[t] IN
  /\ unread[t] = {}
  /\ retired' = [retired EXCEPT ![t] = @ \cap held[t]]
  /\ held' = [held EXCEPT ![t] = {}]
  /\ live' = live \ gone
  /\ stale' = stale \cup {q \in Records : ptr[q] \in gone}
  /\ UNCHANGED <<ptr, slot, unread>>

\* ~owner: the thread ends; its slots are cleared and a scan starts.  The
\* record and what it could not free stay for the next thread.
Leave(t) ==
  /\ slot' = [slot EXCEPT ![t] = Nil]
  /\ ptr' = [ptr EXCEPT ![t] = Nil]
  /\ unread' = [unread EXCEPT ![t] = Records]
  /\ held' = [held EXCEPT ![t] = {}]
  /\ stale' = stale \ {t}
  /\ UNCHANGED <<retired, live>>
=============================================================================
