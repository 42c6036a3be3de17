------------------------------ MODULE FrameQueue ------------------------------
(***************************************************************************)
(* JScopeFrameQueue (src/src/scope/JScopeFrameQueue.h): the lock-free ring *)
(* of frame pointers, one step per access to memory the two sides share.   *)
(*                                                                         *)
(* The index of the other side is read with an acquire load, and C++ lets  *)
(* such a load return an old value as long as it never goes backwards.     *)
(* With StaleLoads it returns any index between the last one this thread   *)
(* saw and the current one; without, the current one.  What a release      *)
(* store published before the value a load returns is visible to that load,*)
(* so the slots need no views of their own as long as SlotExclusive holds. *)
(*                                                                         *)
(* The ring is written for one thread in Pushers and one in Poppers (the   *)
(* CONTRACT at the head of the class); the sets are parameters because the *)
(* pool that uses the ring does not always keep it.                        *)
(***************************************************************************)
EXTENDS Naturals, Sequences

CONSTANTS Items,        \* the frame pointers
          NoItem,       \* nullptr
          Slots,        \* m_slots.size()
          Pushers,      \* the threads that call push()
          Poppers,      \* the threads that call pop()
          StaleLoads    \* may an acquire load return an old index?

ASSUME QueueAssumption == /\ Slots \in Nat \ {0}
                          /\ NoItem \notin Items
                          /\ StaleLoads \in BOOLEAN

VARIABLES head,         \* m_head, stored by the poppers
          tail,         \* m_tail, stored by the pushers
          slots,        \* m_slots
          ppc,          \* where each pusher is in push()
          pitem,        \* its argument
          ptail,        \* its local `tail`
          pseen,        \* the newest m_head it has loaded
          cpc,          \* where each popper is in pop()
          chead,        \* its local `head`
          citem,        \* its local `item`
          cseen,        \* the newest m_tail it has loaded
          taken         \* the last item a pop() returned

pushVars == <<ppc, pitem, ptail, pseen>>
popVars  == <<cpc, chead, citem, cseen>>
queueVars     == <<head, tail, slots, pushVars, popVars, taken>>

Index == 0 .. Slots - 1

\* Mutant of Succ: the mask is forgotten.
Unmasked(i) == i + 1

\* (i + 1) & m_mask: Slots is a power of two, so the mask is the remainder.
Succ(i) == (i + 1) % Slots

\* How many slots lie from index i up to, but not including, index j.
Dist(i, j) == IF i <= j THEN j - i ELSE j + Slots - i

\* The k-th slot after index i.
Ahead(i, k) == IF i + k < Slots THEN i + k ELSE i + k - Slots

\* The values an acquire load of an index may return to a thread that last
\* saw `old` when the newest store is `new`.
Loads(old, new) == IF StaleLoads THEN {i \in Index : Dist(old, i) <= Dist(old, new)}
                                 ELSE {new}

\* The newest index a thread has loaded: kept only where it restrains later loads.
Seen(old, loaded) == IF StaleLoads THEN loaded ELSE old

\* push() and pop() return: their locals are gone.
PushReturns(t) == /\ ppc'   = [ppc EXCEPT ![t] = "idle"]
                  /\ pitem' = [pitem EXCEPT ![t] = NoItem]
                  /\ ptail' = [ptail EXCEPT ![t] = 0]
PopReturns(t)  == /\ cpc'   = [cpc EXCEPT ![t] = "idle"]
                  /\ chead' = [chead EXCEPT ![t] = 0]
                  /\ citem' = [citem EXCEPT ![t] = NoItem]

QueueInit == /\ head = 0
             /\ tail = 0
             /\ slots = [i \in Index |-> NoItem]
             /\ ppc   = [t \in Pushers |-> "idle"]
             /\ pitem = [t \in Pushers |-> NoItem]
             /\ ptail = [t \in Pushers |-> 0]
             /\ pseen = [t \in Pushers |-> 0]
             /\ cpc   = [t \in Poppers |-> "idle"]
             /\ chead = [t \in Poppers |-> 0]
             /\ citem = [t \in Poppers |-> NoItem]
             /\ cseen = [t \in Poppers |-> 0]
             /\ taken = NoItem

-----------------------------------------------------------------------------
\* push(item): the relaxed load of m_tail.
PushCall(t, x) ==
  /\ ppc[t] = "idle"
  /\ pitem' = [pitem EXCEPT ![t] = x]
  /\ ptail' = [ptail EXCEPT ![t] = tail]
  /\ ppc'   = [ppc EXCEPT ![t] = "check"]
  /\ UNCHANGED <<head, tail, slots, pseen, popVars, taken>>

\* The acquire load of m_head: full, push() returns false ...
PushFull(t) ==
  /\ ppc[t] = "check"
  /\ \E h \in Loads(pseen[t], head) :
        /\ Succ(ptail[t]) = h
        /\ pseen' = [pseen EXCEPT ![t] = Seen(@, h)]
  /\ PushReturns(t)
  /\ UNCHANGED <<head, tail, slots, popVars, taken>>

\* Mutant of PushRoom: the test for a full ring is forgotten.
PushUnchecked(t) ==
  /\ ppc[t] = "check"
  /\ ppc' = [ppc EXCEPT ![t] = "write"]
  /\ UNCHANGED <<head, tail, slots, pitem, ptail, pseen, popVars, taken>>

\* ... or there is room.
PushRoom(t) ==
  /\ ppc[t] = "check"
  /\ \E h \in Loads(pseen[t], head) :
        /\ Succ(ptail[t]) # h
        /\ pseen' = [pseen EXCEPT ![t] = Seen(@, h)]
  /\ ppc' = [ppc EXCEPT ![t] = "write"]
  /\ UNCHANGED <<head, tail, slots, pitem, ptail, popVars, taken>>

\* m_slots[tail] = item
PushWrite(t) ==
  /\ ppc[t] = "write"
  /\ slots' = [slots EXCEPT ![ptail[t]] = pitem[t]]
  /\ ppc' = [ppc EXCEPT ![t] = "publish"]
  /\ UNCHANGED <<head, tail, pitem, ptail, pseen, popVars, taken>>

\* The release store of m_tail, which publishes the slot.
PushPublish(t) ==
  /\ ppc[t] = "publish"
  /\ tail' = Succ(ptail[t])
  /\ PushReturns(t)
  /\ UNCHANGED <<head, slots, pseen, popVars, taken>>

-----------------------------------------------------------------------------
\* pop(): the relaxed load of m_head.
PopCall(t) ==
  /\ cpc[t] = "idle"
  /\ chead' = [chead EXCEPT ![t] = head]
  /\ cpc'   = [cpc EXCEPT ![t] = "check"]
  /\ UNCHANGED <<head, tail, slots, citem, cseen, pushVars, taken>>

\* The acquire load of m_tail: empty, pop() returns nullptr ...
PopEmpty(t) ==
  /\ cpc[t] = "check"
  /\ \E u \in Loads(cseen[t], tail) :
        /\ chead[t] = u
        /\ cseen' = [cseen EXCEPT ![t] = Seen(@, u)]
  /\ PopReturns(t)
  /\ UNCHANGED <<head, tail, slots, pushVars, taken>>

\* ... or an item is there.
PopSome(t) ==
  /\ cpc[t] = "check"
  /\ \E u \in Loads(cseen[t], tail) :
        /\ chead[t] # u
        /\ cseen' = [cseen EXCEPT ![t] = Seen(@, u)]
  /\ cpc' = [cpc EXCEPT ![t] = "read"]
  /\ UNCHANGED <<head, tail, slots, chead, citem, pushVars, taken>>

\* Mutant of PopRead: the index is advanced before the slot is read.
PopNext(t) ==
  /\ cpc[t] = "read"
  /\ citem' = [citem EXCEPT ![t] = slots[Succ(chead[t])]]
  /\ cpc' = [cpc EXCEPT ![t] = "clear"]
  /\ UNCHANGED <<head, tail, slots, chead, cseen, pushVars, taken>>

\* item = m_slots[head]
PopRead(t) ==
  /\ cpc[t] = "read"
  /\ citem' = [citem EXCEPT ![t] = slots[chead[t]]]
  /\ cpc' = [cpc EXCEPT ![t] = "clear"]
  /\ UNCHANGED <<head, tail, slots, chead, cseen, pushVars, taken>>

\* m_slots[head] = nullptr
PopClear(t) ==
  /\ cpc[t] = "clear"
  /\ slots' = [slots EXCEPT ![chead[t]] = NoItem]
  /\ cpc' = [cpc EXCEPT ![t] = "advance"]
  /\ UNCHANGED <<head, tail, chead, citem, cseen, pushVars, taken>>

\* Mutant of PopAdvance: m_head is not stored.
PopStays(t) ==
  /\ cpc[t] = "advance"
  /\ taken' = citem[t]
  /\ PopReturns(t)
  /\ UNCHANGED <<head, tail, slots, cseen, pushVars>>

\* The release store of m_head; pop() returns the item.
PopAdvance(t) ==
  /\ cpc[t] = "advance"
  /\ head' = Succ(chead[t])
  /\ taken' = citem[t]
  /\ PopReturns(t)
  /\ UNCHANGED <<tail, slots, cseen, pushVars>>

PushStep(t) == \/ PushFull(t) \/ PushRoom(t) \/ PushWrite(t) \/ PushPublish(t)
PopStep(t)  == \/ PopEmpty(t) \/ PopSome(t) \/ PopRead(t) \/ PopClear(t) \/ PopAdvance(t)

QueueNext == \/ \E t \in Pushers : PushStep(t) \/ \E x \in Items : PushCall(t, x)
             \/ \E t \in Poppers : PopStep(t) \/ PopCall(t)

QueueSpec == QueueInit /\ [][QueueNext]_queueVars

-----------------------------------------------------------------------------
\* The type invariant: every index stays inside the ring and every local in
\* push() and pop() holds an index, an item or nullptr.
QueueTypeOK == /\ head \in Index /\ tail \in Index
               /\ slots \in [Index -> Items \cup {NoItem}]
               /\ ppc   \in [Pushers -> {"idle", "check", "write", "publish"}]
               /\ pitem \in [Pushers -> Items \cup {NoItem}]
               /\ ptail \in [Pushers -> Index]
               /\ pseen \in [Pushers -> Index]
               /\ cpc   \in [Poppers -> {"idle", "check", "read", "clear", "advance"}]
               /\ chead \in [Poppers -> Index]
               /\ citem \in [Poppers -> Items \cup {NoItem}]
               /\ cseen \in [Poppers -> Index]
               /\ taken \in Items \cup {NoItem}

\* No slot is written by push() while pop() reads or clears it: the slots are
\* plain memory, so this is what makes the two atomics enough to order them.
SlotExclusive ==
  \A p \in Pushers, c \in Poppers :
    (ppc[p] = "write" /\ cpc[c] \in {"read", "clear"}) => ptail[p] # chead[c]

\* pop() never hands out the nullptr of a slot nobody has filled: a consumer
\* that saw the tail move also sees the slot the tail published.
NoNullItem ==
  \A c \in Poppers : cpc[c] \in {"clear", "advance"} => citem[c] # NoItem

\* The items in the ring, oldest first.  A popper between the clear and the
\* store of m_head still counts as not having taken its item.
Contents ==
  [k \in 1 .. Dist(head, tail) |->
     LET i == Ahead(head, k - 1)
         c == {t \in Poppers : cpc[t] = "advance" /\ chead[t] = i}
     IN  IF c = {} THEN slots[i] ELSE citem[CHOOSE t \in c : TRUE]]

Fifo == INSTANCE BoundedFifo WITH queue <- Contents, taken <- taken,
                                  Items <- Items, Room <- Slots - 1

\* The ring is a bounded FIFO: what comes out went in, once and in order, and
\* one slot always stays free so that full and empty differ.
ImplementsFifo == Fifo!FifoSpec
==============================================================================
