------------------------ MODULE LockFreeQueueProofs ------------------------
(***************************************************************************)
(* The inductive invariant of LockFreeQueue, what it gives the callers,    *)
(* and that the queue implements BoundedFifo, for every set of threads,    *)
(* every set of items and every capacity of at least two.                  *)
(*                                                                         *)
(* First the arithmetic of slots, type correctness, the steps that do not  *)
(* touch the shared state and the steps of a push that holds a ticket,     *)
(* with the facts on stores to a sequence number that the pops need too;   *)
(* then the pops, the invariant and the refinement.                        *)
(***************************************************************************)
EXTENDS LockFreeQueue, TLAPS

-----------------------------------------------------------------------------
(* Arithmetic of slots.                                                    *)

(* A ticket of the lap below n that is not its first is in the next one.   *)
LEMMA LapMovesOn ==
    \A C \in Nat, n \in Nat, x \in Int :
        x \in (n - C) .. (n - 1) /\ x # n - C => x \in (n + 1 - C) .. n
  OBVIOUS

(* What lies below a bound differs from what does not.                     *)
LEMMA NatIsInt == \A n \in Nat : n \in Int /\ n + 1 \in Nat
  OBVIOUS

LEMMA Below == \A a, b, c \in Int : a < b /\ c >= b => a # c
  OBVIOUS

(* A larger quotient moves a multiple of the capacity by at least one lap. *)
LEMMA LapDistance == \A k, j \in Int : k < j => Capacity * j >= Capacity * k + Capacity
  <1> TAKE k \in Int, j \in Int
  <1> HAVE k < j
  <1>1. PICK d \in Nat : j = k + 1 + d
    <2> WITNESS j - k - 1 \in Nat
    <2> QED OBVIOUS
  <1>2. Capacity * j = Capacity * k + Capacity + Capacity * d
    BY <1>1, CapacityAssumption
  <1>3. /\ Capacity * d >= 0
        /\ Capacity * j \in Int /\ Capacity * k \in Int /\ Capacity * d \in Int
    BY CapacityAssumption
  <1> QED BY <1>2, <1>3, CapacityAssumption

(* Division with remainder, for the ring's capacity.                       *)
LEMMA SlotDivision ==
    \A t \in Int : /\ Slot(t) \in Slots
                   /\ \E q \in Int : t = Capacity * q + Slot(t)
  <1> TAKE t \in Int
  <1>1. /\ t = Capacity * (t \div Capacity) + Slot(t)
        /\ t \div Capacity \in Int
        /\ Slot(t) \in Slots
    BY CapacityAssumption, SMTT(30) DEF Slot, Slots
  <1> QED BY Zenon, <1>1

(* Two tickets less than one lap apart have different slots.               *)
LEMMA SlotInjective ==
    \A t, u \in Int : Slot(t) = Slot(u) /\ t < u => u - t >= Capacity
  <1> TAKE t \in Int, u \in Int
  <1> HAVE Slot(t) = Slot(u) /\ t < u
  <1>1. PICK q \in Int : t = Capacity * q + Slot(t)
    BY Zenon, SlotDivision
  <1>2. PICK r \in Int : u = Capacity * r + Slot(u)
    BY Zenon, SlotDivision
  <1>3. Capacity * q \in Int /\ Capacity * r \in Int /\ Capacity \in Nat /\ Slot(t) \in Int
    BY CapacityAssumption, SlotDivision DEF Slots
  <1>4. q < r
    <2>1. CASE r < q
      BY <2>1, <1>1, <1>2, <1>3, LapDistance
    <2>2. CASE r = q
      BY <2>2, <1>1, <1>2, <1>3
    <2> QED BY <2>1, <2>2
  <1> QED BY <1>1, <1>2, <1>3, <1>4, LapDistance

(* The slot of a ticket is determined by any division with remainder.      *)
LEMMA SlotUnique == \A q \in Int, s \in Slots : Slot(Capacity * q + s) = s
  <1> TAKE q \in Int, s \in Slots
  <1> DEFINE t == Capacity * q + s
  <1>0. /\ Capacity \in Nat \ {0} /\ s \in 0 .. Capacity - 1 /\ Capacity * q \in Int
        /\ t \in Int /\ t = Capacity * q + s
    BY CapacityAssumption DEF Slots
  <1> HIDE DEF t
  <1>1. PICK r \in Int : t = Capacity * r + Slot(t)
    BY ZenonT(30), <1>0, SlotDivision
  <1>2. Slot(t) \in 0 .. Capacity - 1 /\ Capacity * r \in Int
    BY <1>0, SlotDivision DEF Slots
  <1>3. ~ (r < q)
    BY <1>0, <1>1, <1>2, LapDistance
  <1>4. ~ (q < r)
    BY <1>0, <1>1, <1>2, LapDistance
  <1>5. r = q
    BY <1>3, <1>4
  <1>6. Slot(t) = s
    <2>1. Capacity * r = Capacity * q /\ Slot(t) \in Int /\ s \in Int
      BY <1>0, <1>2, <1>5
    <2> QED BY <2>1, <1>0, <1>1
  <1> QED BY Zenon, <1>6 DEF t

(* A ticket and the same position one lap later share their slot.          *)
LEMMA SlotNextLap == \A t \in Int : Slot(t + Capacity) = Slot(t)
  <1> TAKE t \in Int
  <1>1. PICK q \in Int : t = Capacity * q + Slot(t)
    BY Zenon, SlotDivision
  <1>2. Slot(t) \in Slots /\ Slot(t) \in Int /\ Capacity \in Int /\ q + 1 \in Int
    BY SlotDivision, CapacityAssumption DEF Slots
  <1>3. Capacity * (q + 1) = Capacity * q + Capacity /\ Capacity * q \in Int
    BY <1>2
  <1>4. t + Capacity = Capacity * (q + 1) + Slot(t)
    BY <1>1, <1>2, <1>3
  <1>5. Slot(Capacity * (q + 1) + Slot(t)) = Slot(t)
    BY ONLY ZenonT(30), <1>2, SlotUnique
  <1> QED BY ONLY <1>4, <1>5

(* Every slot belongs to one of any Capacity consecutive tickets.          *)
LEMMA SlotReached ==
    \A t \in Int, s \in Slots : \E u \in (t - Capacity) .. (t - 1) : Slot(u) = s
  <1> TAKE t \in Int, s \in Slots
  <1>0. Capacity \in Nat \ {0} /\ s \in 0 .. Capacity - 1 /\ t - 1 - s \in Int
    BY CapacityAssumption DEF Slots
  <1>1. PICK q \in Int : t - 1 - s = Capacity * q + Slot(t - 1 - s)
    BY Zenon, <1>0, SlotDivision
  <1> DEFINE r == Slot(t - 1 - s)
  <1>2. r \in 0 .. Capacity - 1 /\ Capacity * q \in Int
    BY <1>0, SlotDivision DEF Slots
  <1> HIDE DEF r
  <1>3. t - 1 - r = Capacity * q + s
    BY <1>0, <1>1, <1>2 DEF r
  <1>4. t - 1 - r \in (t - Capacity) .. (t - 1)
    BY <1>0, <1>2
  <1> QED BY Zenon, <1>3, <1>4, SlotUnique

LEMMA SlotInRange == \A t \in Int : Slot(t) \in Slots
  BY Zenon, SlotDivision

-----------------------------------------------------------------------------
(* The variables have their types initially, and every step keeps them.    *)
LEMMA TypeInit == Init => TypeOK
  BY CapacityAssumption, ThreadAssumption DEF Init, TypeOK, Threads, Slots

LEMMA TypeStep == TypeOK /\ [Next]_vars => TypeOK'
  <1> SUFFICES ASSUME TypeOK, [Next]_vars
               PROVE  TypeOK'
    OBVIOUS
  <1> USE ThreadAssumption
  <1> USE DEF TypeOK, Goto, SetPos, Return, shared, batch, Threads
  <1>1. ASSUME NEW p \in Producers, NEW v \in Items, PushLoad(p, v)
        PROVE  TypeOK'
    BY Zenon, <1>1 DEF PushLoad
  <1>2. ASSUME NEW p \in Producers, PushCheck(p) PROVE TypeOK'
    BY ZenonT(30), <1>2 DEF PushCheck
  <1>3. ASSUME NEW p \in Producers, PushReload(p) PROVE TypeOK'
    BY Zenon, <1>3 DEF PushReload
  <1>4. ASSUME NEW p \in Producers, PushClaim(p) PROVE TypeOK'
    BY <1>4 DEF PushClaim
  <1>5. ASSUME NEW p \in Producers, PushClaimFails(p) PROVE TypeOK'
    BY Zenon, <1>5 DEF PushClaimFails
  <1>6. ASSUME NEW p \in Producers, PushWrite(p) PROVE TypeOK'
    BY ZenonT(30), <1>6 DEF PushWrite
  <1>7. ASSUME NEW p \in Producers, PushPublish(p) PROVE TypeOK'
    <2>1. pos[p] + 1 \in Nat
      OBVIOUS
    <2>2. seq' \in [Slots -> Nat]
      BY ZenonT(30), <1>7, <2>1 DEF PushPublish
    <2> QED BY Zenon, <1>7, <2>2 DEF PushPublish
  <1>8. ASSUME NEW c \in Consumers, NEW n \in 1 .. MaxBatch, BatchStart(c, n)
        PROVE  TypeOK'
    BY <1>8, BoundAssumption DEF BatchStart
  <1>9. ASSUME NEW c \in Consumers, PopLoad(c) PROVE TypeOK'
    BY Zenon, <1>9 DEF PopLoad
  <1>10. ASSUME NEW c \in Consumers, PopCheck(c) PROVE TypeOK'
    BY ZenonT(30), <1>10 DEF PopCheck
  <1>11. ASSUME NEW c \in Consumers, PopReload(c) PROVE TypeOK'
    BY Zenon, <1>11 DEF PopReload
  <1>12. ASSUME NEW c \in Consumers, PopClaim(c) PROVE TypeOK'
    BY <1>12 DEF PopClaim
  <1>13. ASSUME NEW c \in Consumers, PopClaimFails(c) PROVE TypeOK'
    BY Zenon, <1>13 DEF PopClaimFails
  <1>14. ASSUME NEW c \in Consumers, PopRead(c) PROVE TypeOK'
    <2>1. pos[c] \in Int /\ Slot(pos[c]) \in Slots
      BY SlotInRange
    <2>2. item' \in [Threads -> Items \cup {NoItem}]
      BY Zenon, <1>14, <2>1 DEF PopRead
    <2>3. \A p \in Producers : item'[p] = item[p]
      BY Zenon, <1>14 DEF PopRead
    <2> QED BY Zenon, <1>14, <2>2, <2>3 DEF PopRead
  <1>15. ASSUME NEW c \in Consumers, PopRelease(c) PROVE TypeOK'
    <2>0. room[c] \in Nat /\ room[c] > 0 /\ pos[c] \in Nat
      BY ZenonT(30), <1>15 DEF PopRelease
    <2>1. pos[c] + Capacity \in Nat /\ room[c] - 1 \in Nat
      BY <2>0, CapacityAssumption
    <2>2. seq' \in [Slots -> Nat] /\ room' \in [Consumers -> Nat]
      BY ZenonT(30), <1>15, <2>1 DEF PopRelease
    <2>3. got' \in [Consumers -> Seq(Items \cup {NoItem})]
      BY <1>15 DEF PopRelease
    <2>4. \A d \in Consumers : pc'[d] \notin {"idle", "size"} => room'[d] > 0
      BY <1>15 DEF PopRelease
    <2> QED BY Zenon, <1>15, <2>2, <2>3, <2>4 DEF PopRelease
  <1>16. ASSUME NEW t \in SizeCallers, SizeLoadTail(t) PROVE TypeOK'
    BY Zenon, <1>16 DEF SizeLoadTail
  <1>17. ASSUME NEW t \in SizeCallers, SizeReturns(t) PROVE TypeOK'
    BY Zenon, <1>17 DEF SizeReturns
  <1>18. CASE UNCHANGED vars
    BY Zenon, <1>18 DEF vars
  <1> QED
    BY ZenonT(30), <1>1, <1>2, <1>3, <1>4, <1>5, <1>6, <1>7, <1>8, <1>9, <1>10, <1>11, <1>12,
       <1>13, <1>14, <1>15, <1>16, <1>17, <1>18 DEF Next, PushStep, PopStep

(* Type correctness: whatever the threads do, the cursors, the slots and   *)
(* the locals of lockfree_queue.c stay within their types.                 *)
THEOREM TypeCorrect == Spec => []TypeOK
  BY TypeInit, TypeStep, PTL DEF Spec

(* A thread goes to the next access; the others stay where they are.       *)
LEMMA PcTo ==
    ASSUME TypeOK, NEW t \in Threads, NEW x, pc' = [pc EXCEPT ![t] = x]
    PROVE  pc'[t] = x /\ \A u \in Threads : u # t => pc'[u] = pc[u]
  BY Zenon DEF TypeOK

LEMMA CursorTypes ==
    ASSUME TypeOK PROVE head \in Nat /\ tail \in Nat /\ \A t \in Threads : pos[t] \in Nat
  BY Zenon DEF TypeOK

LEMMA NextIsNew ==
    /\ \A n \in Int : n # n + 1 /\ ~(n < n)
    /\ \A m, n \in Nat : (m <= n => m <= n + 1 /\ m # n + 1) /\ (m < n => m < n + 1)
  OBVIOUS

-----------------------------------------------------------------------------
(* The inductive invariant.  It needs a capacity of at least two: with one *)
(* slot a published ticket u carries the sequence u + 1 that also means    *)
(* "free for the next lap".                                                *)

(* Two tickets of one lap with the same slot are the same ticket.          *)
LEMMA SameLapSameTicket ==
    \A u, v \in Int : Slot(u) = Slot(v) /\ u - v < Capacity /\ v - u < Capacity => u = v
  <1> TAKE u \in Int, v \in Int
  <1> HAVE Slot(u) = Slot(v) /\ u - v < Capacity /\ v - u < Capacity
  <1>1. Capacity \in Nat
    BY Zenon, CapacityAssumption
  <1>2. ~ (u < v)
    BY <1>1, SlotInjective
  <1>3. ~ (v < u)
    BY <1>1, SlotInjective
  <1> QED BY <1>2, <1>3

(* The initial queue: every slot is released by the lap before the first.  *)
LEMMA QueueInit == ASSUME Capacity >= 2 PROVE Init => QueueInv
  <1> SUFFICES ASSUME Init PROVE QueueInv
    OBVIOUS
  <1>1. TypeOK
    BY Zenon, TypeInit
  <1>2. Capacity \in Nat /\ Writing = {} /\ Reading = {} /\ tail = 0 /\ head = 0
        /\ seq = [s \in Slots |-> s]
    BY Zenon, CapacityAssumption DEF Init, Writing, Reading, Threads
  <1>3. \A u \in Lap : SeqOf(u) = u + Capacity /\ u < 0 /\ u \in Int
    <2> TAKE u \in Lap
    <2>1. u \in (- Capacity) .. (- 1) /\ u \in Int /\ u + Capacity \in Slots
      BY <1>2 DEF Lap, Slots
    <2>2. u + Capacity \in Int /\ Slot(u) = Slot(u + Capacity) /\ Slot(u + Capacity) \in Slots
      BY <1>2, <2>1, SlotNextLap, SlotInRange
    <2>3. Slot(u + Capacity) = u + Capacity
      BY <1>2, <2>1 DEF Slot, Slots
    <2> QED BY <1>2, <2>1, <2>2, <2>3 DEF SeqOf
  <1>4. CursorInv
    BY <1>2 DEF CursorInv, Init
  <1>5. PosInv /\ ClaimInv
    BY Zenon, ThreadAssumption DEF Init, PosInv, ClaimInv, Threads
  <1>6. SlotInv /\ OwnerInv
    BY <1>2, <1>3 DEF SlotInv, OwnerInv
  <1>7. HolderInv /\ TicketInv
    BY Zenon, <1>2 DEF HolderInv, TicketInv
  <1>8. PayloadInv
    BY <1>2, <1>3 DEF PayloadInv
  <1> QED BY Zenon, <1>1, <1>4, <1>5, <1>6, <1>7, <1>8 DEF QueueInv

(* A step that leaves the shared variables and the ticket holders alone    *)
(* preserves the invariant, provided what the moving thread believes about *)
(* the cursors is true.                                                    *)
LEMMA LocalStep ==
    ASSUME QueueInv, TypeOK', UNCHANGED shared, Writing' = Writing, Reading' = Reading,
           \A t \in Holders : pos'[t] = pos[t] /\ item'[t] = item[t] /\ pc'[t] = pc[t],
           PosInv', ClaimInv'
    PROVE  QueueInv'
  <1>1. CursorInv' /\ SlotInv'
    BY Zenon DEF QueueInv, CursorInv, SlotInv, SeqOf, Lap, shared
  <1>2. HolderInv' /\ TicketInv'
    BY DEF QueueInv, HolderInv, TicketInv, SeqOf, Lap, shared, Holders
  <1>3. PayloadInv'
    BY Zenon DEF QueueInv, PayloadInv, SeqOf, Lap, shared, Holders
  <1>4. OwnerInv'
    BY DEF QueueInv, OwnerInv, SeqOf, Lap, shared, Holders
  <1> QED BY Zenon, <1>1, <1>2, <1>3, <1>4 DEF QueueInv

(* The loads, checks and failed compare-exchanges of a push.               *)
LEMMA PushLocalSteps ==
    ASSUME QueueInv, TypeOK', NEW p \in Producers,
           \/ \E v \in Items : PushLoad(p, v)
           \/ PushCheck(p) \/ PushReload(p) \/ PushClaimFails(p)
    PROVE  QueueInv'
  <1> USE ThreadAssumption
  <1>0. TypeOK /\ p \in Threads
    BY Zenon DEF QueueInv, Threads
  <1>1. /\ UNCHANGED shared
        /\ pc[p] \in {"idle", "check", "cas", "reload"}
        /\ pc'[p] \in {"idle", "check", "cas", "reload"}
    BY Zenon, <1>0 DEF TypeOK, PushLoad, PushCheck, PushReload, PushClaimFails, Goto, Return
  <1>2. \A t \in Threads \ {p} : pos'[t] = pos[t] /\ item'[t] = item[t] /\ pc'[t] = pc[t]
    BY <1>0 DEF TypeOK, PushLoad, PushCheck, PushReload, PushClaimFails, Goto, Return, SetPos
  <1>3. Writing' = Writing /\ Reading' = Reading /\ p \notin Holders
    BY Zenon, <1>1, <1>2 DEF Writing, Reading, Holders, Threads
  <1>4. pc'[p] \in {"check", "cas", "reload"} => pos'[p] <= tail
    BY SMTT(30), <1>0 DEF QueueInv, TypeOK, PosInv, PushLoad, PushCheck, PushReload, PushClaimFails, Goto,
           Return, SetPos
  <1>5. PosInv'
    BY Zenon, <1>1, <1>2, <1>4 DEF QueueInv, PosInv, Threads, shared
  <1>6. pc'[p] = "cas" /\ pos'[p] = tail => SeqOf(tail) = tail
    BY SMTT(30), <1>0, SlotInRange DEF TypeOK, PushLoad, PushCheck, PushReload, PushClaimFails, Goto,
       Return, SetPos, SeqOf
  <1>7. ClaimInv'
    BY Zenon, <1>1, <1>2, <1>6 DEF QueueInv, ClaimInv, SeqOf, Threads, shared
  <1> QED BY Zenon, <1>1, <1>2, <1>3, <1>5, <1>7, LocalStep DEF Holders, Writing, Reading, Threads

(* The loads, checks and failed compare-exchanges of a pop.                *)
LEMMA PopLocalSteps ==
    ASSUME Capacity >= 2, QueueInv, TypeOK', NEW c \in Consumers,
           \/ \E n \in 1 .. MaxBatch : BatchStart(c, n)
           \/ PopLoad(c) \/ PopCheck(c) \/ PopReload(c) \/ PopClaimFails(c)
    PROVE  QueueInv'
  <1> USE ThreadAssumption
  <1>0. TypeOK /\ c \in Threads
    BY Zenon DEF QueueInv, Threads
  <1>1. /\ UNCHANGED shared
        /\ pc[c] \in {"idle", "pop", "check", "cas", "reload"}
        /\ pc'[c] \in {"idle", "pop", "check", "cas", "reload"}
    BY Zenon, <1>0 DEF TypeOK, BatchStart, PopLoad, PopCheck, PopReload, PopClaimFails, Goto, Return
  <1>2. \A t \in Threads \ {c} : pos'[t] = pos[t] /\ item'[t] = item[t] /\ pc'[t] = pc[t]
    BY ZenonT(30), <1>0 DEF TypeOK, BatchStart, PopLoad, PopCheck, PopReload, PopClaimFails, Goto,
           Return, SetPos
  <1>2a. Writing' = Writing /\ Reading' = Reading /\ c \notin Holders
    BY Zenon, <1>1, <1>2 DEF Writing, Reading, Holders, Threads
  <1>3. pc'[c] \in {"check", "cas", "reload"} => pos'[c] <= head
    BY <1>0 DEF QueueInv, TypeOK, PosInv, BatchStart, PopLoad, PopCheck, PopReload, PopClaimFails,
           Goto, Return, SetPos
  <1>4. PosInv'
    BY Zenon, <1>1, <1>2, <1>3 DEF QueueInv, PosInv, Threads, shared
  <1>5. pc'[c] = "cas" /\ pos'[c] = head => head < tail /\ SeqOf(head) = head + 1
    <2> SUFFICES ASSUME pc'[c] = "cas", pos'[c] = head
                 PROVE  head < tail /\ SeqOf(head) = head + 1
      OBVIOUS
    <2>1. SeqOf(head) = head + 1 /\ head \in Nat /\ tail \in Nat /\ Capacity \in Nat
      <3>1. head \in Nat /\ tail \in Nat /\ Capacity \in Nat /\ Slot(head) \in Slots
        BY SlotInRange, CapacityAssumption DEF QueueInv, TypeOK
      <3>2. PopCheck(c) /\ pc'[c] = "cas" /\ pos[c] = head
        BY Zenon DEF QueueInv, TypeOK, BatchStart, PopLoad, PopCheck, PopReload, PopClaimFails, Goto,
           Return, Threads
      <3>3. seq[Slot(head)] - (head + 1) = 0 /\ seq[Slot(head)] \in Nat
        BY Zenon, <3>1, <3>2 DEF QueueInv, TypeOK, PopCheck, Goto, Return, Threads
      <3> QED BY <3>1, <3>3 DEF SeqOf
    <2>2. ASSUME head = tail PROVE FALSE
      <3>1. head - Capacity \in Lap /\ head - Capacity \in Int
        BY <2>1, <2>2, CapacityAssumption DEF Lap
      <3>2. Slot(head - Capacity) = Slot((head - Capacity) + Capacity)
        BY Zenon, <3>1, SlotNextLap
      <3>3. SeqOf(head - Capacity) = SeqOf(head)
        BY <2>1, <3>2 DEF SeqOf
      <3> QED BY <2>1, <3>1, <3>3 DEF QueueInv, SlotInv
    <2> QED BY <2>1, <2>2 DEF QueueInv, CursorInv
  <1>6. ClaimInv'
    BY Zenon, <1>1, <1>2, <1>5 DEF QueueInv, ClaimInv, SeqOf, Threads, shared
  <1> QED BY Zenon, <1>1, <1>2, <1>2a, <1>4, <1>6, LocalStep DEF Holders, Writing, Reading, Threads

(* The two loads of mev_queue_size.                                        *)
LEMMA SizeSteps ==
    ASSUME QueueInv, TypeOK', NEW t \in SizeCallers, SizeLoadTail(t) \/ SizeReturns(t)
    PROVE  QueueInv'
  <1> USE ThreadAssumption
  <1>1. UNCHANGED shared /\ Writing' = Writing /\ Reading' = Reading /\ t \notin Holders
    BY SMTT(30) DEF QueueInv, TypeOK, SizeLoadTail, SizeReturns, Goto, Writing, Reading, Holders, Threads
  <1>2. \A u \in Threads \ {t} : pos'[u] = pos[u] /\ item'[u] = item[u] /\ pc'[u] = pc[u]
    BY Zenon DEF QueueInv, TypeOK, SizeLoadTail, SizeReturns, Goto, SetPos, Threads
  <1>3. pc'[t] \in {"size", "idle"} /\ (pc'[t] = "size" => pos'[t] <= tail)
    BY DEF QueueInv, TypeOK, SizeLoadTail, SizeReturns, Goto, SetPos, Threads
  <1>4. PosInv'
    BY Zenon, <1>1, <1>2, <1>3 DEF QueueInv, PosInv, Threads, shared
  <1>5. ClaimInv'
    BY Zenon, <1>1, <1>2, <1>3 DEF QueueInv, ClaimInv, SeqOf, Threads, shared
  <1> QED BY Zenon, <1>1, <1>2, <1>4, <1>5, LocalStep DEF Holders, Writing, Reading, Threads

-----------------------------------------------------------------------------
(* The steps of the producers that claim, hold or give up a ticket.        *)

(* A push claims its ticket: the lap moves on by one slot.                 *)
LEMMA PushClaimStep ==
    ASSUME Capacity >= 2, QueueInv, TypeOK', NEW p \in Producers, PushClaim(p)
    PROVE  QueueInv'
  <1> USE ThreadAssumption
  <1>0. /\ Capacity \in Nat /\ head \in Nat /\ tail \in Nat
        /\ pc[p] = "cas" /\ tail = pos[p] /\ tail' = tail + 1 /\ accepted' = Append(accepted, item[p])
        /\ UNCHANGED <<head, seq, data, pos, item>>
        /\ pc' = [pc EXCEPT ![p] = "write"] /\ p \in Threads /\ item[p] \in Items
    BY Zenon, CapacityAssumption DEF QueueInv, TypeOK, PushClaim, Goto, Threads
  <1>1. Writing' = Writing \cup {p} /\ Reading' = Reading /\ p \notin Writing
    BY <1>0 DEF QueueInv, TypeOK, Writing, Reading, Threads
  <1>2. \A t \in Threads \ {p} : pc'[t] = pc[t]
    BY Zenon, <1>0 DEF QueueInv, TypeOK
  <1>3. Lap' = (tail + 1 - Capacity) .. tail
    <2>1. tail' - Capacity = tail + 1 - Capacity /\ tail' - 1 = tail
      BY <1>0
    <2> QED BY Zenon, <2>1 DEF Lap
  <1>4. /\ SeqOf(tail) = tail /\ SeqOf(tail - Capacity) = tail /\ tail - Capacity \in Lap
        /\ tail - Capacity \in Int
    <2>1. SeqOf(tail) = tail
      BY Zenon, <1>0 DEF QueueInv, ClaimInv
    <2>2. tail - Capacity \in Int /\ (tail - Capacity) + Capacity = tail /\ tail - Capacity \in Lap
      BY <1>0 DEF Lap
    <2>3. Slot(tail - Capacity) = Slot(tail)
      BY Zenon, <2>2, SlotNextLap
    <2> QED BY Zenon, <2>1, <2>2, <2>3 DEF SeqOf
  <1>5. tail - Capacity < head
    BY SMTT(30), <1>0, <1>4 DEF QueueInv, SlotInv
  <1>6. \A u \in Int : SeqOf(u)' = SeqOf(u)
    BY Zenon, <1>0 DEF SeqOf
  <1>7. \A u \in Lap' : u \in Int /\ (u \in Lap \/ u = tail)
    BY SMTT(30), <1>0, <1>3 DEF Lap
  <1>8. /\ Len(accepted') = tail + 1
        /\ accepted'[tail + 1] = item[p]
        /\ \A i \in 1 .. tail : accepted'[i] = accepted[i]
    <2>1. accepted \in Seq(Items) /\ Len(accepted) = tail
      BY Zenon DEF QueueInv, TypeOK, CursorInv
    <2>2. /\ Len(Append(accepted, item[p])) = Len(accepted) + 1
          /\ Append(accepted, item[p])[Len(accepted) + 1] = item[p]
          /\ \A i \in 1 .. Len(accepted) : Append(accepted, item[p])[i] = accepted[i]
      <3>1. item[p] \in Items
        BY Zenon, <1>0
      <3>2. \A s \in Seq(Items), e \in Items :
                /\ Len(Append(s, e)) = Len(s) + 1
                /\ Append(s, e)[Len(s) + 1] = e
                /\ \A i \in 1 .. Len(s) : Append(s, e)[i] = s[i]
        BY ONLY TRUE
      <3> QED BY Zenon, <2>1, <3>1, <3>2
    <2>3. accepted' = Append(accepted, item[p])
      BY Zenon, <1>0
    <2> QED BY Zenon, <2>1, <2>2, <2>3
  <1>9. CursorInv'
    BY <1>0, <1>5, <1>8 DEF QueueInv, CursorInv
  <1>10. PosInv'
    BY <1>0, <1>2 DEF QueueInv, PosInv, TypeOK, Threads
  <1>11. SlotInv'
    BY SMTT(30), <1>0, <1>4, <1>6, <1>7 DEF QueueInv, SlotInv, CursorInv
  <1>12. ClaimInv'
    <2>1. \A q \in Producers : pc'[q] = "cas" => pos'[q] # tail'
      BY <1>0, <1>2 DEF QueueInv, PosInv, TypeOK, Threads
    <2>2. \A c \in Consumers : pc'[c] = "cas" /\ pos'[c] = head' =>
                                  head' < tail' /\ SeqOf(head)' = head' + 1
      BY <1>0, <1>2, <1>6 DEF QueueInv, ClaimInv, Threads, TypeOK
    <2> QED BY Zenon, <2>1, <2>2, <1>0 DEF ClaimInv
  <1>13. \A t \in Holders : pos[t] \in Lap' /\ pos[t] \in Nat
    <2>1. \A t \in Holders : pos[t] \in Nat /\ pos[t] \in Lap /\ SeqOf(pos[t]) \in {pos[t], pos[t] + 1}
      BY Zenon DEF QueueInv, HolderInv, Holders, TypeOK, Writing, Reading, Threads
    <2>2. \A t \in Holders : pos[t] # tail - Capacity
      BY SMTT(30), <1>0, <1>4, <2>1
    <2>3. \A t \in Holders : pos[t] \in Int /\ pos[t] \in (tail - Capacity) .. (tail - 1)
      BY <2>1 DEF Lap
    <2>4. \A t \in Holders : pos[t] \in (tail + 1 - Capacity) .. tail
      BY Zenon, <1>0, <2>2, <2>3, LapMovesOn
    <2> QED BY Zenon, <1>3, <2>1, <2>4
  <1>14. HolderInv'
    <2>1. \A q \in Writing : accepted'[pos[q] + 1] = accepted[pos[q] + 1]
      <3>0. \A q \in Writing : pos[q] \in Nat /\ pos[q] \in Lap
        BY Zenon, <1>13 DEF QueueInv, HolderInv, Holders
      <3>1. \A q \in Writing : pos[q] + 1 \in 1 .. tail
        BY ONLY SMTT(20), <1>0, <3>0, CapacityAssumption DEF Lap
      <3> QED BY Zenon, <1>8, <3>1
    <2>2. \A q \in Writing : q # p /\ pc'[q] = pc[q]
      BY Zenon, <1>1, <1>2 DEF Writing, Threads
    <2>3. ASSUME NEW q \in Writing'
          PROVE  /\ pos'[q] \in Lap' /\ SeqOf(pos[q])' = pos'[q]
                 /\ accepted'[pos'[q] + 1] = item'[q]
                 /\ pc'[q] = "publish" => data'[Slot(pos'[q])] = item'[q]
      <3>1. CASE q = p
        <4>1. pos[q] = tail /\ tail \in Lap' /\ pc'[q] = "write"
          BY <3>1, <1>0, <1>3 DEF QueueInv, TypeOK
        <4>2. seq'[Slot(pos'[q])] = tail
          <5>1. seq' = seq /\ pos'[q] = tail
            BY Zenon, <4>1, <1>0
          <5>2. seq[Slot(tail)] = tail
            BY Zenon, <1>4 DEF SeqOf
          <5> QED BY ONLY <5>1, <5>2
        <4> QED BY Zenon, <3>1, <1>0, <1>8, <4>1, <4>2 DEF SeqOf
      <3>2. CASE q \in Writing
        <4>1. /\ pos[q] \in Lap' /\ pos'[q] = pos[q] /\ item'[q] = item[q] /\ pc'[q] = pc[q]
              /\ data' = data
          BY Zenon, <3>2, <1>0, <1>13, <2>2 DEF Holders
        <4>2. SeqOf(pos[q]) = pos[q] /\ SeqOf(pos[q])' = SeqOf(pos[q])
          BY Zenon, <3>2, <1>0, <4>1 DEF QueueInv, HolderInv, SeqOf
        <4> QED BY Zenon, <3>2, <4>1, <4>2, <2>1 DEF QueueInv, HolderInv
      <3> QED BY Zenon, <1>1, <3>1, <3>2
    <2>4. ASSUME NEW c \in Reading'
          PROVE  pos'[c] \in Lap' /\ pos'[c] < head' /\ SeqOf(pos[c])' = pos'[c] + 1
      BY <1>0, <1>1, <1>6, <1>13 DEF QueueInv, HolderInv, Holders
    <2> QED BY ZenonT(30), <2>3, <2>4, <1>0 DEF HolderInv
  <1>15. TicketInv'
    <2>1. \A q \in Writing : pos[q] # pos[p]
      BY <1>0 DEF QueueInv, HolderInv, Lap
    <2> QED BY Zenon, <1>0, <1>1, <2>1 DEF QueueInv, TicketInv
  <1>16. PayloadInv'
    <2>1. \A u \in Lap' : u >= 0 /\ SeqOf(u)' = u + 1 => data'[Slot(u)] = accepted'[u + 1]
      <3> TAKE u \in Lap'
      <3> HAVE u >= 0 /\ SeqOf(u)' = u + 1
      <3>1. u \in Lap /\ u \in Int /\ SeqOf(u) = u + 1
        BY <1>0, <1>4, <1>6, <1>7
      <3>2. u + 1 \in 1 .. tail
        BY SMTT(30), <1>0, <3>1 DEF Lap
      <3> QED BY Zenon, <1>0, <1>8, <3>1, <3>2 DEF QueueInv, PayloadInv
    <2>2. \A c \in Reading' : pc'[c] = "release" => item'[c] = accepted'[pos'[c] + 1]
      <3> TAKE c \in Reading'
      <3>1. c \in Reading /\ pc'[c] = pc[c] /\ pos[c] \in Nat /\ pos[c] < head
        BY Zenon, <1>1, <1>2, <1>0, <1>13 DEF QueueInv, HolderInv, Holders, Reading, Threads
      <3>2. pos[c] + 1 \in 1 .. tail
        BY SMTT(30), <1>0, <3>1 DEF QueueInv, CursorInv
      <3> QED BY Zenon, <1>0, <1>8, <3>1, <3>2 DEF QueueInv, PayloadInv
    <2> QED BY Zenon, <2>1, <2>2 DEF PayloadInv
  <1>17. OwnerInv'
    <2> SUFFICES ASSUME NEW u \in Lap', u >= 0
                 PROVE  /\ SeqOf(u)' = u => \E q \in Writing' : pos'[q] = u
                        /\ u < head' /\ SeqOf(u)' = u + 1 => \E c \in Reading' : pos'[c] = u
      BY Zenon DEF OwnerInv
    <2>1. CASE u = tail
      BY <2>1, <1>0, <1>1, <1>4, <1>6
    <2>2. CASE u \in Lap
      BY Zenon, <2>2, <1>0, <1>1, <1>6, <1>7 DEF QueueInv, OwnerInv
    <2> QED BY Zenon, <2>1, <2>2, <1>7
  <1> QED BY Zenon, <1>9, <1>10, <1>11, <1>12, <1>14, <1>15, <1>16, <1>17 DEF QueueInv

(* A push stores its payload: only its own slot changes, and no published  *)
(* slot of the lap is that one.                                            *)
LEMMA PushWriteStep ==
    ASSUME Capacity >= 2, QueueInv, TypeOK', NEW p \in Producers, PushWrite(p)
    PROVE  QueueInv'
  <1> USE ThreadAssumption
  <1>0. /\ Capacity \in Nat /\ head \in Nat /\ tail \in Nat
        /\ p \in Writing /\ data' = [data EXCEPT ![Slot(pos[p])] = item[p]]
        /\ UNCHANGED <<head, tail, seq, pos, item, accepted>>
        /\ pc' = [pc EXCEPT ![p] = "publish"] /\ p \in Threads
        /\ pos[p] \in Int /\ Slot(pos[p]) \in Slots /\ pos[p] \in Lap
    BY SMTT(20), CapacityAssumption, SlotInRange
       DEF QueueInv, TypeOK, HolderInv, PushWrite, Goto, Threads, Writing
  <1>1. Writing' = Writing /\ Reading' = Reading
    BY Zenon, <1>0 DEF QueueInv, TypeOK, Writing, Reading, Threads
  <1>2. \A t \in Threads \ {p} : pc'[t] = pc[t]
    BY Zenon, <1>0 DEF QueueInv, TypeOK
  <1>3. \A u \in Lap : u # pos[p] => data'[Slot(u)] = data[Slot(u)]
    <2>1. \A u \in Lap : u \in Int /\ u - pos[p] < Capacity /\ pos[p] - u < Capacity
      BY <1>0 DEF Lap
    <2>2. \A u \in Lap : u # pos[p] => Slot(u) # Slot(pos[p]) /\ Slot(u) \in Slots
      BY Zenon, <1>0, <2>1, SameLapSameTicket, SlotInRange
    <2> QED BY Zenon, <1>0, <2>2 DEF QueueInv, TypeOK
  <1>4. data'[Slot(pos[p])] = item[p]
    BY Zenon, <1>0 DEF QueueInv, TypeOK
  <1>5. CursorInv' /\ PosInv' /\ SlotInv' /\ ClaimInv'
    <2>1. \A t \in Threads : pc'[t] \in {"check", "cas", "reload", "size"} => pc'[t] = pc[t]
      BY Zenon, <1>0, <1>2 DEF QueueInv, TypeOK
    <2>2. CursorInv' /\ SlotInv'
      BY Zenon, <1>0 DEF QueueInv, CursorInv, SlotInv, Lap, SeqOf
    <2>3. PosInv'
      BY Zenon, <1>0, <2>1 DEF QueueInv, PosInv, Threads
    <2>4. ClaimInv'
      BY Zenon, <1>0, <2>1 DEF QueueInv, ClaimInv, SeqOf, Threads
    <2> QED BY Zenon, <2>2, <2>3, <2>4
  <1>6. HolderInv'
    <2>1. \A q \in Writing : q # p => pos[q] # pos[p] /\ pos[q] \in Lap /\ pc'[q] = pc[q]
      <3>1. \A q \in Writing : pos[q] \in Lap /\ q \in Threads /\ (pos[q] = pos[p] => q = p)
        BY Zenon, <1>0 DEF QueueInv, TicketInv, HolderInv, Writing, Threads
      <3> QED BY Zenon, <1>2, <3>1
    <2>2. ASSUME NEW q \in Writing
          PROVE  /\ pos[q] \in Lap /\ SeqOf(pos[q]) = pos[q] /\ accepted[pos[q] + 1] = item[q]
                 /\ pc'[q] = "publish" => data'[Slot(pos[q])] = item[q]
      <3>1. /\ pos[q] \in Lap /\ SeqOf(pos[q]) = pos[q] /\ accepted[pos[q] + 1] = item[q]
            /\ pc[q] = "publish" => data[Slot(pos[q])] = item[q]
        BY <2>2, SMTT(30) DEF QueueInv, HolderInv
      <3>2. CASE q = p
        BY Zenon, <1>4, <3>1, <3>2
      <3>3. CASE q # p
        <4>1. pc'[q] = pc[q] /\ data'[Slot(pos[q])] = data[Slot(pos[q])]
          BY Zenon, <1>3, <2>1, <2>2, <3>3
        <4> QED BY Zenon, <3>1, <4>1
      <3> QED BY Zenon, <3>2, <3>3
    <2> QED BY Zenon, <1>0, <1>1, <2>2 DEF QueueInv, HolderInv, SeqOf, Lap
  <1>7. TicketInv'
    BY Zenon, <1>0, <1>1 DEF QueueInv, TicketInv
  <1>8. PayloadInv'
    <2>1. SeqOf(pos[p]) = pos[p]
      BY Zenon, <1>0 DEF QueueInv, HolderInv
    <2>2. \A u \in Lap : u >= 0 /\ SeqOf(u) = u + 1 => data'[Slot(u)] = accepted[u + 1]
      BY <1>0, <1>3, <2>1 DEF QueueInv, PayloadInv
    <2>3. \A c \in Reading : pc'[c] = pc[c]
      BY Zenon, <1>0, <1>2 DEF Reading, Writing, Threads
    <2> QED BY Zenon, <1>0, <1>1, <2>2, <2>3 DEF QueueInv, PayloadInv, SeqOf, Lap
  <1>9. OwnerInv'
    BY Zenon, <1>0, <1>1 DEF QueueInv, OwnerInv, SeqOf, Lap
  <1> QED BY Zenon, <1>5, <1>6, <1>7, <1>8, <1>9 DEF QueueInv

(* What a store to the sequence of a held ticket's slot leaves alone.      *)
LEMMA SequenceStore ==
    ASSUME QueueInv, NEW t \in Int, t \in Lap, NEW n \in Nat,
           seq' = [seq EXCEPT ![Slot(t)] = n], UNCHANGED tail
    PROVE  /\ SeqOf(t) \in Nat
           /\ seq'[Slot(t)] = n
           /\ Lap' = Lap
           /\ \A u \in Int : u \in (tail - Capacity) .. (tail - 1) /\ u # t =>
                                 seq'[Slot(u)] = SeqOf(u)
           /\ t # tail - Capacity => seq'[Slot(tail)] = SeqOf(tail)
  <1>0. Capacity \in Nat /\ Capacity >= 1 /\ tail \in Nat /\ Slot(t) \in Slots
    BY CapacityAssumption, SlotInRange DEF QueueInv, TypeOK
  <1>1. SeqOf(t) \in Nat /\ seq'[Slot(t)] = n /\ Lap' = Lap
    BY Zenon, <1>0 DEF QueueInv, TypeOK, SeqOf, Lap
  <1>2. \A u \in Int : Slot(u) # Slot(t) => seq'[Slot(u)] = SeqOf(u)
    BY Zenon, <1>0, SlotInRange DEF QueueInv, TypeOK, SeqOf
  <1>3. \A u \in Int : u \in (tail - Capacity) .. (tail - 1) /\ u # t => Slot(u) # Slot(t)
    <2>1. \A u \in Int : u \in (tail - Capacity) .. (tail - 1) =>
                             u - t < Capacity /\ t - u < Capacity
      BY <1>0 DEF Lap
    <2> QED BY Zenon, <2>1, SameLapSameTicket
  <1>4. t # tail - Capacity => Slot(tail) # Slot(t)
    <2>1. t # tail - Capacity => tail \in Int /\ tail # t /\ tail - t < Capacity /\ t - tail < Capacity
      BY <1>0 DEF Lap
    <2> QED BY Zenon, <2>1, SameLapSameTicket
  <1> QED BY <1>0, <1>1, <1>2, <1>3, <1>4

(* A thread that relies on a sequence number it has read is not fooled by  *)
(* a store of another thread that holds a ticket.                          *)
LEMMA ClaimSurvives ==
    ASSUME Capacity >= 2, QueueInv, NEW t \in Int, t \in Lap, NEW n \in Nat,
           seq' = [seq EXCEPT ![Slot(t)] = n], UNCHANGED <<head, tail>>,
           SeqOf(t) # t + Capacity,
           t >= head => SeqOf(t) = t,
           \A q \in Producers : pc'[q] = "cas" => pc[q] = "cas" /\ pos'[q] = pos[q],
           \A c \in Consumers : pc'[c] = "cas" => pc[c] = "cas" /\ pos'[c] = pos[c]
    PROVE  ClaimInv'
  <1>0. Capacity \in Nat /\ head \in Nat /\ tail \in Nat
    BY Zenon, CapacityAssumption DEF QueueInv, TypeOK
  <1>1. ASSUME NEW q \in Producers, pc'[q] = "cas", pos'[q] = tail
        PROVE  seq'[Slot(tail)] = tail
    <2>1. SeqOf(tail) = tail
      BY Zenon, <1>1 DEF QueueInv, ClaimInv
    <2>2. t # tail - Capacity
      <3> SUFFICES ASSUME t = tail - Capacity PROVE FALSE
        OBVIOUS
      <3>1. t + Capacity = tail /\ Slot(t + Capacity) = Slot(t)
        BY <1>0, SlotNextLap
      <3> QED BY Zenon, <2>1, <3>1 DEF SeqOf
    <2> QED BY ZenonT(30), <2>1, <2>2, SequenceStore
  <1>2. ASSUME NEW c \in Consumers, pc'[c] = "cas", pos'[c] = head
        PROVE  head < tail /\ seq'[Slot(head)] = head + 1
    <2>1. head < tail /\ SeqOf(head) = head + 1
      BY Zenon, <1>2 DEF QueueInv, ClaimInv
    <2>2. head # t
      BY <1>0, <2>1
    <2>3. head \in Int /\ head \in (tail - Capacity) .. (tail - 1)
      BY <1>0, <2>1 DEF QueueInv, CursorInv
    <2> QED BY ZenonT(30), <2>1, <2>2, <2>3, SequenceStore
  <1> QED BY Zenon, <1>1, <1>2 DEF ClaimInv, SeqOf

(* A push publishes its slot and returns.                                  *)
LEMMA PushPublishStep ==
    ASSUME Capacity >= 2, QueueInv, TypeOK', NEW p \in Producers, PushPublish(p)
    PROVE  QueueInv'
  <1> USE ThreadAssumption
  <1> DEFINE t == pos[p]
  <1>0. /\ Capacity \in Nat /\ head \in Nat /\ tail \in Nat /\ t \in Nat /\ p \in Threads
        /\ p \in Writing /\ seq' = [seq EXCEPT ![Slot(t)] = t + 1]
        /\ UNCHANGED <<head, tail, data, pos, item, accepted>>
        /\ pc' = [pc EXCEPT ![p] = "idle"]
        /\ t \in Lap /\ SeqOf(t) = t /\ data[Slot(t)] = item[p] /\ accepted[t + 1] = item[p]
    BY Zenon, CapacityAssumption
       DEF QueueInv, TypeOK, HolderInv, PushPublish, Goto, Return, Threads, Writing
  <1>1. Writing' = Writing \ {p} /\ Reading' = Reading
    BY Zenon, <1>0 DEF QueueInv, TypeOK, Writing, Reading, Threads
  <1>2. \A u \in Threads \ {p} : pc'[u] = pc[u]
    BY Zenon, <1>0 DEF QueueInv, TypeOK
  <1>3. /\ seq'[Slot(t)] = t + 1 /\ Lap' = Lap
        /\ \A u \in Lap : u \in Int /\ (u # t => seq'[Slot(u)] = SeqOf(u))
    <2>1. t \in Int /\ t + 1 \in Nat /\ UNCHANGED tail
      BY <1>0
    <2>2. \A u \in Lap : u \in Int /\ u \in (tail - Capacity) .. (tail - 1)
      BY <1>0 DEF Lap
    <2> HIDE DEF t
    <2>3. /\ seq'[Slot(t)] = t + 1 /\ Lap' = Lap
          /\ \A u \in Int : u \in (tail - Capacity) .. (tail - 1) /\ u # t =>
                                 seq'[Slot(u)] = SeqOf(u)
      BY ZenonT(30), <1>0, <2>1, SequenceStore
    <2> QED BY Zenon, <2>2, <2>3
  <1>4. t >= head
    <2>1. t < head => SeqOf(t) # t
      BY Zenon, <1>0 DEF QueueInv, SlotInv
    <2> QED BY ONLY <1>0, <2>1
  <1> HIDE DEF t
  <1>5. CursorInv'
    BY Zenon, <1>0 DEF QueueInv, CursorInv
  <1>6. PosInv'
    BY Zenon, <1>0, <1>2 DEF QueueInv, PosInv, TypeOK, Threads
  <1>7. SlotInv'
    <2> SUFFICES ASSUME NEW u \in Lap
                 PROVE  /\ seq'[Slot(u)] \in {u, u + 1, u + Capacity}
                        /\ u < 0 => seq'[Slot(u)] = u + Capacity
                        /\ u >= head => seq'[Slot(u)] # u + Capacity
                        /\ u < head => seq'[Slot(u)] # u
      BY Zenon, <1>0, <1>3 DEF SlotInv, SeqOf
    <2>1. CASE u = t
      BY <2>1, <1>0, <1>3, <1>4
    <2>2. CASE u # t
      BY Zenon, <2>2, <1>3 DEF QueueInv, SlotInv
    <2> QED BY Zenon, <2>1, <2>2
  <1>8. ClaimInv'
    <2>1. /\ \A q \in Producers : pc'[q] = "cas" => pc[q] = "cas" /\ pos'[q] = pos[q]
          /\ \A c \in Consumers : pc'[c] = "cas" => pc[c] = "cas" /\ pos'[c] = pos[c]
      BY Zenon, <1>0 DEF QueueInv, TypeOK, Threads
    <2>2. /\ t \in Int /\ t + 1 \in Nat /\ SeqOf(t) # t + Capacity /\ UNCHANGED <<head, tail>>
          /\ t >= head => SeqOf(t) = t
      <3>1. t \in Int /\ t + 1 \in Nat /\ UNCHANGED <<head, tail>> /\ SeqOf(t) = t
        BY Zenon, <1>0, NatIsInt
      <3>2. t # t + Capacity
        BY ONLY <1>0, <3>1, Capacity >= 2
      <3> QED BY Zenon, <3>1, <3>2
    <2> QED BY ZenonT(30), <1>0, <2>1, <2>2, ClaimSurvives
  <1>9. HolderInv'
    <2>1. ASSUME NEW q \in Writing'
          PROVE  /\ pos[q] \in Lap /\ seq'[Slot(pos[q])] = pos[q] /\ accepted[pos[q] + 1] = item[q]
                 /\ pc'[q] = "publish" => data[Slot(pos[q])] = item[q]
      <3>1. q \in Writing /\ q # p /\ pc'[q] = pc[q]
        BY Zenon, <1>1, <1>2 DEF Writing, Threads
      <3>2. pos[q] \in Lap /\ pos[q] # t
        BY Zenon, <3>1, <1>0 DEF QueueInv, HolderInv, TicketInv, t
      <3> QED BY Zenon, <1>3, <3>1, <3>2 DEF QueueInv, HolderInv
    <2>2. ASSUME NEW c \in Reading
          PROVE  pos[c] \in Lap /\ pos[c] < head /\ seq'[Slot(pos[c])] = pos[c] + 1
      <3>1. pos[c] \in Lap /\ pos[c] < head /\ SeqOf(pos[c]) = pos[c] + 1
        BY Zenon DEF QueueInv, HolderInv
      <3>2. pos[c] \in Int /\ head \in Int /\ t \in Int
        <4>1. pos[c] \in Int
          BY Zenon, <3>1, <1>3
        <4>2. head \in Int /\ t \in Int
          BY Zenon, <1>0, NatIsInt
        <4> QED BY Zenon, <4>1, <4>2
      <3>3. pos[c] # t
        BY Zenon, <3>1, <3>2, <1>4, Below
      <3> QED BY Zenon, <1>3, <3>1, <3>3
    <2> QED BY Zenon, <1>0, <1>1, <1>3, <2>1, <2>2 DEF HolderInv, SeqOf
  <1>10. TicketInv'
    BY Zenon, <1>0, <1>1 DEF QueueInv, TicketInv
  <1>11. PayloadInv'
    <2>1. \A u \in Lap : u >= 0 /\ seq'[Slot(u)] = u + 1 => data[Slot(u)] = accepted[u + 1]
      BY Zenon, <1>0, <1>3 DEF QueueInv, PayloadInv
    <2>2. \A c \in Reading : pc'[c] = pc[c]
      BY Zenon, <1>0, <1>2 DEF Reading, Writing, Threads
    <2> QED BY Zenon, <1>0, <1>1, <1>3, <2>1, <2>2 DEF QueueInv, PayloadInv, SeqOf
  <1>12. OwnerInv'
    <2> SUFFICES ASSUME NEW u \in Lap, u >= 0
                 PROVE  /\ seq'[Slot(u)] = u => \E q \in Writing' : pos[q] = u
                        /\ u < head /\ seq'[Slot(u)] = u + 1 => \E c \in Reading : pos[c] = u
      BY Zenon, <1>0, <1>1, <1>3 DEF OwnerInv, SeqOf
    <2>1. CASE u = t
      BY SMTT(20), <2>1, <1>0, <1>3, <1>4
    <2>2. CASE u # t
      BY Zenon, <2>2, <1>0, <1>1, <1>3 DEF QueueInv, OwnerInv, t
    <2> QED BY Zenon, <2>1, <2>2
  <1> QED BY Zenon, <1>5, <1>6, <1>7, <1>8, <1>9, <1>10, <1>11, <1>12 DEF QueueInv

-----------------------------------------------------------------------------
(* The steps of a pop that holds, claims or gives up a ticket.             *)

(* A pop claims its ticket, the oldest one not handed out.                 *)
LEMMA PopClaimStep ==
    ASSUME Capacity >= 2, QueueInv, TypeOK', NEW c \in Consumers, PopClaim(c)
    PROVE  QueueInv'
  <1> USE ThreadAssumption
  <1>0. /\ Capacity \in Nat /\ head \in Nat /\ tail \in Nat /\ c \in Threads
        /\ pc[c] = "cas" /\ pos[c] = head /\ head' = head + 1 /\ pos[c] \in Nat
        /\ UNCHANGED <<tail, seq, data, pos, item, accepted>>
        /\ pc' = [pc EXCEPT ![c] = "read"]
        /\ head < tail /\ SeqOf(head) = head + 1
    BY Zenon, CapacityAssumption DEF QueueInv, TypeOK, ClaimInv, PopClaim, Goto, Threads
  <1>a. TypeOK /\ c \notin Producers /\ \A d \in Consumers : d \in Threads /\ pos[d] \in Nat
    BY CursorTypes, Zenon DEF QueueInv, Threads
  <1>b. pc'[c] = "read"
    BY <1>0, <1>a, PcTo, Zenon
  <1>2. \A u \in Threads \ {c} : pc'[u] = pc[u]
    BY <1>0, <1>a, PcTo, Zenon
  <1>1. Reading' = Reading \cup {c} /\ Writing' = Writing
    BY <1>0, <1>a, <1>b, <1>2, Zenon DEF Writing, Reading, Threads
  <1>3. Lap' = Lap /\ head \in Lap /\ \A u \in Lap : u \in Int /\ SeqOf(u)' = SeqOf(u)
    BY <1>0 DEF QueueInv, CursorInv, Lap, SeqOf
  <1>4. CursorInv' /\ PosInv'
    <2>1. Len(accepted) = tail /\ head <= tail /\ tail - head <= Capacity
      BY Zenon DEF QueueInv, CursorInv
    <2>2. CursorInv'
      BY <1>0, <2>1 DEF CursorInv
    <2>3. /\ \A q \in Producers : pc'[q] = pc[q]
          /\ \A d \in Consumers : pc'[d] # "read" => d # c /\ pc'[d] = pc[d]
          /\ \A t \in SizeCallers : pc'[t] = "size" => pc[t] = "size"
      BY <1>a, <1>b, <1>2, Zenon DEF Threads
    <2>4. \A d \in Consumers : pc[d] \in {"check", "cas", "reload"} => pos[d] <= head + 1
      BY <1>0, <1>a, NextIsNew, Zenon DEF QueueInv, PosInv
    <2>5. PosInv'
      BY <1>0, <2>3, <2>4, Zenon DEF QueueInv, PosInv
    <2> QED BY Zenon, <2>2, <2>5
  <1>5. SlotInv'
    BY <1>0, <1>3 DEF QueueInv, SlotInv
  <1>6. ClaimInv'
    <2>1. \A q \in Producers : pc'[q] = "cas" /\ pos'[q] = tail' => seq'[Slot(tail)] = tail
      BY Zenon, <1>0, <1>2 DEF QueueInv, ClaimInv, SeqOf, Threads
    <2>2. \A d \in Consumers : pc'[d] = "cas" => pos'[d] # head'
      BY <1>0, <1>a, <1>b, <1>2, NextIsNew, Zenon DEF QueueInv, PosInv
    <2> QED BY Zenon, <1>0, <2>1, <2>2 DEF ClaimInv, SeqOf
  <1>7. \A u \in Holders : u # c /\ u \in Threads /\ pc'[u] = pc[u]
    BY Zenon, <1>0, <1>2 DEF Holders, Writing, Reading, Threads
  <1>8. HolderInv'
    <2>1. \A q \in Writing : /\ pos[q] \in Lap
                             /\ SeqOf(pos[q]) = pos[q]
                             /\ accepted[pos[q] + 1] = item[q]
                             /\ pc'[q] = "publish" => data[Slot(pos[q])] = item[q]
      BY Zenon, <1>7 DEF QueueInv, HolderInv, Holders
    <2>2. \A d \in Reading' : pos[d] \in Lap /\ pos[d] < head + 1 /\ SeqOf(pos[d]) = pos[d] + 1
      <3>1. \A d \in Reading : pos[d] \in Lap /\ pos[d] < head + 1 /\ SeqOf(pos[d]) = pos[d] + 1
        BY <1>0, <1>a, NextIsNew, Zenon DEF QueueInv, HolderInv, Reading
      <3>2. head < head + 1
        BY <1>0
      <3> QED BY <1>0, <1>1, <1>3, <3>1, <3>2, Zenon
    <2> QED BY Zenon, <1>0, <1>1, <1>3, <2>1, <2>2 DEF HolderInv, SeqOf
  <1>9. TicketInv'
    <2>1. \A d \in Reading : pos[d] # pos[c]
      BY <1>0, NatIsInt, NextIsNew, Zenon DEF QueueInv, HolderInv
    <2> QED BY Zenon, <1>0, <1>1, <2>1 DEF QueueInv, TicketInv
  <1>10. PayloadInv'
    <2>1. \A d \in Reading' : pc'[d] = "release" => d \in Reading /\ pc[d] = "release"
      BY Zenon, <1>0, <1>1, <1>7 DEF Holders, QueueInv, TypeOK
    <2> QED BY Zenon, <1>0, <1>3, <2>1 DEF QueueInv, PayloadInv
  <1>11. OwnerInv'
    <2> SUFFICES ASSUME NEW u \in Lap, u >= 0
                 PROVE  /\ SeqOf(u) = u => \E q \in Writing : pos[q] = u
                        /\ u < head + 1 /\ SeqOf(u) = u + 1 => \E d \in Reading' : pos[d] = u
      BY Zenon, <1>0, <1>1, <1>3 DEF OwnerInv
    <2>1. CASE u = head
      BY <2>1, <1>0, <1>1, NatIsInt, NextIsNew, Zenon
    <2>2. CASE u # head
      BY <2>2, <1>0, <1>1, <1>3 DEF QueueInv, OwnerInv
    <2> QED BY Zenon, <2>1, <2>2
  <1> QED BY Zenon, <1>4, <1>5, <1>6, <1>8, <1>9, <1>10, <1>11 DEF QueueInv

(* A pop reads the payload of the slot it holds.                           *)
LEMMA PopReadStep ==
    ASSUME Capacity >= 2, QueueInv, TypeOK', NEW c \in Consumers, PopRead(c)
    PROVE  QueueInv'
  <1> USE ThreadAssumption
  <1>0. /\ c \in Threads /\ c \in Reading /\ pos[c] \in Nat
        /\ UNCHANGED <<head, tail, seq, data, pos, accepted>>
        /\ pc' = [pc EXCEPT ![c] = "release"]
        /\ item' = [item EXCEPT ![c] = data[Slot(pos[c])]]
        /\ pos[c] \in Lap /\ SeqOf(pos[c]) = pos[c] + 1
    BY Zenon DEF QueueInv, TypeOK, HolderInv, PopRead, Goto, Threads, Reading, shared
  <1>1. Reading' = Reading /\ Writing' = Writing
    BY Zenon, <1>0 DEF QueueInv, TypeOK, Writing, Reading, Threads
  <1>2. \A u \in Threads \ {c} : pc'[u] = pc[u] /\ item'[u] = item[u]
    BY Zenon, <1>0 DEF QueueInv, TypeOK
  <1>3. item'[c] = accepted[pos[c] + 1]
    <2>1. data[Slot(pos[c])] = accepted[pos[c] + 1]
      <3>1. pos[c] >= 0
        BY <1>0
      <3> QED BY <1>0, <3>1, Zenon DEF QueueInv, PayloadInv
    <2> QED BY Zenon, <1>0, <2>1 DEF QueueInv, TypeOK
  <1>4. CursorInv' /\ PosInv' /\ SlotInv' /\ ClaimInv'
    BY <1>0, <1>2, Zenon DEF QueueInv, CursorInv, PosInv, SlotInv, ClaimInv, Lap, SeqOf, TypeOK, Threads
  <1>5. HolderInv' /\ TicketInv'
    <2>1. \A q \in Writing : pc'[q] = pc[q] /\ item'[q] = item[q]
      BY <1>2, Zenon DEF Writing, Threads
    <2>2. UNCHANGED <<head, tail, seq, data, pos, accepted>>
      BY <1>0, Zenon
    <2>3. HolderInv'
      BY Zenon, <1>1, <2>1, <2>2 DEF QueueInv, HolderInv, SeqOf, Lap
    <2> QED BY <1>1, <2>2, <2>3, Zenon DEF QueueInv, TicketInv
  <1>6. PayloadInv'
    <2>1. \A d \in Reading : pc'[d] = "release" => item'[d] = accepted[pos[d] + 1]
      BY Zenon, <1>2, <1>3 DEF QueueInv, PayloadInv, Reading, Threads
    <2> QED BY Zenon, <1>0, <1>1, <2>1 DEF QueueInv, PayloadInv, SeqOf, Lap
  <1>7. OwnerInv'
    BY Zenon, <1>0, <1>1 DEF QueueInv, OwnerInv, SeqOf, Lap
  <1> QED BY Zenon, <1>4, <1>5, <1>6, <1>7 DEF QueueInv

(* A pop hands its slot to the next lap and returns.                       *)
LEMMA PopReleaseStep ==
    ASSUME Capacity >= 2, QueueInv, TypeOK', NEW c \in Consumers, PopRelease(c)
    PROVE  QueueInv'
  <1> USE ThreadAssumption
  <1> DEFINE t == pos[c]
  <1>0. /\ Capacity \in Nat /\ head \in Nat /\ tail \in Nat /\ t \in Nat /\ c \in Threads
        /\ c \in Reading /\ seq' = [seq EXCEPT ![Slot(t)] = t + Capacity]
        /\ UNCHANGED <<head, tail, data, pos, item, accepted>>
        /\ pc' = [pc EXCEPT ![c] = IF room[c] > 1 THEN "pop" ELSE "idle"]
        /\ t \in Lap /\ t < head /\ SeqOf(t) = t + 1
    BY Zenon, CapacityAssumption
       DEF QueueInv, TypeOK, HolderInv, PopRelease, Goto, Threads, Reading
  <1>1. Reading' = Reading \ {c} /\ Writing' = Writing
    BY Zenon, <1>0 DEF QueueInv, TypeOK, Writing, Reading, Threads
  <1>2. \A u \in Threads \ {c} : pc'[u] = pc[u]
    BY Zenon, <1>0 DEF QueueInv, TypeOK
  <1>2a. pc'[c] \in {"pop", "idle"}
    BY Zenon, <1>0 DEF QueueInv, TypeOK
  <1>3. /\ seq'[Slot(t)] = t + Capacity /\ Lap' = Lap
        /\ \A u \in Lap : u \in Int /\ (u # t => seq'[Slot(u)] = SeqOf(u))
    <2>1. t \in Int /\ t + Capacity \in Nat /\ UNCHANGED tail
      BY <1>0
    <2>2. \A u \in Lap : u \in Int /\ u \in (tail - Capacity) .. (tail - 1)
      BY <1>0 DEF Lap
    <2> HIDE DEF t
    <2>3. /\ seq'[Slot(t)] = t + Capacity /\ Lap' = Lap
          /\ \A u \in Int : u \in (tail - Capacity) .. (tail - 1) /\ u # t =>
                                 seq'[Slot(u)] = SeqOf(u)
      BY ZenonT(30), <1>0, <2>1, SequenceStore
    <2> QED BY Zenon, <2>2, <2>3
  <1> HIDE DEF t
  <1>5. CursorInv'
    BY Zenon, <1>0 DEF QueueInv, CursorInv
  <1>6. PosInv'
    BY Zenon, <1>0, <1>2, <1>2a DEF QueueInv, PosInv, TypeOK, Threads
  <1>7. SlotInv'
    <2> SUFFICES ASSUME NEW u \in Lap
                 PROVE  /\ seq'[Slot(u)] \in {u, u + 1, u + Capacity}
                        /\ u < 0 => seq'[Slot(u)] = u + Capacity
                        /\ u >= head => seq'[Slot(u)] # u + Capacity
                        /\ u < head => seq'[Slot(u)] # u
      BY Zenon, <1>0, <1>3 DEF SlotInv, SeqOf
    <2>1. CASE u = t
      BY <2>1, <1>0, <1>3
    <2>2. CASE u # t
      BY Zenon, <2>2, <1>3 DEF QueueInv, SlotInv
    <2> QED BY Zenon, <2>1, <2>2
  <1>8. ClaimInv'
    <2>1. /\ \A q \in Producers : pc'[q] = "cas" => pc[q] = "cas" /\ pos'[q] = pos[q]
          /\ \A d \in Consumers : pc'[d] = "cas" => pc[d] = "cas" /\ pos'[d] = pos[d]
      BY Zenon, <1>0, <1>2, <1>2a DEF Threads
    <2>2. /\ t \in Int /\ t + Capacity \in Nat /\ SeqOf(t) # t + Capacity
          /\ UNCHANGED <<head, tail>>
          /\ t >= head => SeqOf(t) = t
      BY <1>0
    <2> QED BY ZenonT(30), <1>0, <2>1, <2>2, ClaimSurvives
  <1>9. HolderInv'
    <2>1. ASSUME NEW q \in Writing
          PROVE  /\ pos[q] \in Lap /\ seq'[Slot(pos[q])] = pos[q] /\ accepted[pos[q] + 1] = item[q]
                 /\ pc'[q] = "publish" => data[Slot(pos[q])] = item[q]
      <3>1. pc'[q] = pc[q]
        BY Zenon, <1>0, <1>2 DEF Writing, Reading, Threads
      <3>2. pos[q] \in Lap /\ SeqOf(pos[q]) = pos[q]
        BY Zenon DEF QueueInv, HolderInv
      <3>3. pos[q] # t
        BY <1>0, <3>2
      <3> QED BY Zenon, <1>3, <3>1, <3>2, <3>3 DEF QueueInv, HolderInv
    <2>2. ASSUME NEW d \in Reading'
          PROVE  pos[d] \in Lap /\ pos[d] < head /\ seq'[Slot(pos[d])] = pos[d] + 1
      <3>1. d \in Reading /\ d # c
        BY Zenon, <1>1
      <3>2. pos[d] \in Lap /\ pos[d] < head /\ SeqOf(pos[d]) = pos[d] + 1 /\ pos[d] # t
        BY Zenon, <3>1, <1>0 DEF QueueInv, HolderInv, TicketInv, t
      <3> QED BY Zenon, <1>3, <3>2
    <2> QED BY Zenon, <1>0, <1>1, <1>3, <2>1, <2>2 DEF HolderInv, SeqOf
  <1>10. TicketInv'
    BY Zenon, <1>0, <1>1 DEF QueueInv, TicketInv
  <1>11. PayloadInv'
    <2>1. \A u \in Lap : u >= 0 /\ seq'[Slot(u)] = u + 1 => data[Slot(u)] = accepted[u + 1]
      BY ZenonT(30), <1>0, <1>3 DEF QueueInv, PayloadInv
    <2>2. \A d \in Reading' : d \in Reading /\ pc'[d] = pc[d]
      BY Zenon, <1>1, <1>2 DEF Reading, Threads
    <2> QED BY Zenon, <1>0, <1>3, <2>1, <2>2 DEF QueueInv, PayloadInv, SeqOf
  <1>12. OwnerInv'
    <2> SUFFICES ASSUME NEW u \in Lap, u >= 0
                 PROVE  /\ seq'[Slot(u)] = u => \E q \in Writing : pos[q] = u
                        /\ u < head /\ seq'[Slot(u)] = u + 1 => \E d \in Reading' : pos[d] = u
      BY Zenon, <1>0, <1>1, <1>3 DEF OwnerInv, SeqOf
    <2>1. CASE u = t
      <3>1. t + Capacity # t /\ t + Capacity # t + 1
        BY <1>0
      <3> QED BY <1>3, <2>1, <3>1, Zenon
    <2>2. CASE u # t
      BY Zenon, <2>2, <1>0, <1>1, <1>3 DEF QueueInv, OwnerInv, t
    <2> QED BY Zenon, <2>1, <2>2
  <1> QED BY Zenon, <1>5, <1>6, <1>7, <1>8, <1>9, <1>10, <1>11, <1>12 DEF QueueInv

(* Every step preserves the inductive invariant.                           *)
LEMMA QueueStep == ASSUME Capacity >= 2 PROVE QueueInv /\ [Next]_vars => QueueInv'
  <1> SUFFICES ASSUME QueueInv, [Next]_vars PROVE QueueInv'
    OBVIOUS
  <1>0. TypeOK'
    BY Zenon, TypeStep DEF QueueInv
  <1>1. CASE UNCHANGED vars
    <2>1. /\ UNCHANGED shared /\ Writing' = Writing /\ Reading' = Reading
          /\ \A t \in Holders : pos'[t] = pos[t] /\ item'[t] = item[t] /\ pc'[t] = pc[t]
      BY Zenon, <1>1 DEF vars, shared, Writing, Reading
    <2>2. PosInv' /\ ClaimInv'
      BY Zenon, <1>1 DEF vars, QueueInv, PosInv, ClaimInv, SeqOf
    <2> QED BY Zenon, <1>0, <2>1, <2>2, LocalStep
  <1>2. CASE Next
    BY Zenon, <1>2, <1>0, PushLocalSteps, PopLocalSteps, SizeSteps, PushClaimStep, PushWriteStep,
       PushPublishStep, PopClaimStep, PopReadStep, PopReleaseStep DEF Next, PushStep, PopStep
  <1> QED BY Zenon, <1>1, <1>2

(* The inductive invariant holds in every reachable state of a queue of    *)
(* capacity two or more, for any number of producers and consumers.        *)
THEOREM QueueInvariant == ASSUME Capacity >= 2 PROVE Spec => []QueueInv
  <1>1. Init => QueueInv
    BY Zenon, QueueInit
  <1>2. QueueInv /\ [Next]_vars => QueueInv'
    BY Zenon, QueueStep
  <1> QED BY <1>1, <1>2, PTL DEF Spec

-----------------------------------------------------------------------------
(* What the invariant gives the callers.                                   *)

(* No two threads that hold tickets touch the same slot: the race of the   *)
(* "claim-then-write" design cannot happen in lockfree_queue.c.            *)
THEOREM NoSlotRace == ASSUME Capacity >= 2 PROVE Spec => []SlotExclusion
  <1>1. QueueInv => SlotExclusion
    <2> SUFFICES ASSUME QueueInv, NEW t \in Holders, NEW u \in Holders, t # u,
                        Slot(pos[t]) = Slot(pos[u])
                 PROVE  FALSE
      BY Zenon DEF SlotExclusion
    <2>1. /\ pos[t] \in Lap /\ pos[u] \in Lap /\ pos[t] \in Int /\ pos[u] \in Int
          /\ tail \in Int /\ Capacity \in Nat
      <3>1. t \in Threads /\ u \in Threads /\ TypeOK
        BY Zenon DEF QueueInv, Holders, Writing, Reading, Threads
      <3>2. pos[t] \in Lap /\ pos[u] \in Lap
        BY Zenon DEF QueueInv, HolderInv, Holders
      <3> QED BY <3>1, <3>2, CapacityAssumption, CursorTypes, NatIsInt, Zenon
    <2>2. pos[t] = pos[u]
      BY <2>1, SameLapSameTicket DEF Lap
    <2>3. ~ (t \in Writing /\ u \in Writing) /\ ~ (t \in Reading /\ u \in Reading)
      BY Zenon, <2>2 DEF QueueInv, TicketInv
    <2>4. \A q \in Writing, d \in Reading : pos[q] \in Int => pos[q] # pos[d]
      BY NextIsNew, Zenon DEF QueueInv, HolderInv
    <2> QED BY <2>1, <2>2, <2>3, <2>4, Zenon DEF Holders
  <1> QED BY <1>1, QueueInvariant, PTL

(* A pop returns the item pushed under its ticket, for every schedule.     *)
THEOREM PopsArePushes == ASSUME Capacity >= 2 PROVE Spec => []PopReturnsPushed
  <1>1. QueueInv => PopReturnsPushed
    <2> SUFFICES ASSUME QueueInv, NEW c \in Consumers, pc[c] = "release"
                 PROVE  item[c] \in Items /\ item[c] = accepted[pos[c] + 1]
      BY Zenon DEF PopReturnsPushed
    <2>1. c \in Reading /\ pos[c] \in Nat /\ head \in Nat /\ tail \in Nat
      BY Zenon DEF Reading, QueueInv, TypeOK, Threads
    <2>2. item[c] = accepted[pos[c] + 1]
      BY Zenon, <2>1 DEF QueueInv, PayloadInv
    <2>3. pos[c] + 1 \in 1 .. Len(accepted)
      <3>1. pos[c] < head /\ head <= tail /\ Len(accepted) = tail
        BY <2>1, Zenon DEF QueueInv, HolderInv, CursorInv
      <3> QED BY ONLY <2>1, <3>1
    <2> QED BY <2>2, <2>3 DEF QueueInv, TypeOK
  <1> QED BY <1>1, QueueInvariant, PTL

(* mev_queue_push never accepts more than Capacity unpopped items.         *)
THEOREM PushNeverOverfills == ASSUME Capacity >= 2 PROVE Spec => []NeverOverfull
  <1>1. QueueInv => NeverOverfull
    BY Zenon DEF QueueInv, CursorInv, NeverOverfull
  <1> QED BY <1>1, QueueInvariant, PTL

(* The sequence number of a slot never goes back.                          *)
THEOREM SequencesOnlyAdvance == ASSUME Capacity >= 2 PROVE Spec => SequenceAdvances
  <1>1. QueueInv /\ [Next]_vars => [\A s \in Slots : seq'[s] >= seq[s]]_vars
    <2> SUFFICES ASSUME QueueInv, Next, NEW s \in Slots PROVE seq'[s] >= seq[s]
      BY Zenon DEF QueueInv
    <2>0. /\ seq \in [Slots -> Nat] /\ Capacity \in Nat
          /\ \A t \in Threads : pos[t] \in Nat /\ pos[t] \in Int
      BY CapacityAssumption DEF QueueInv, TypeOK
    <2>1. ASSUME NEW p \in Producers, PushPublish(p) PROVE seq'[s] >= seq[s]
      <3>1. p \in Writing /\ pos[p] \in Nat
        BY Zenon, <2>0, <2>1 DEF PushPublish, Writing, Threads
      <3>2. seq[Slot(pos[p])] = pos[p]
        BY Zenon, <3>1 DEF QueueInv, HolderInv, SeqOf
      <3>3. seq' = [seq EXCEPT ![Slot(pos[p])] = pos[p] + 1]
        BY Zenon, <2>1 DEF PushPublish
      <3>4. CASE s = Slot(pos[p])
        <4>1. seq'[s] = pos[p] + 1
          BY ONLY <2>0, <3>3, <3>4, s \in Slots
        <4> QED BY ONLY <3>1, <3>2, <3>4, <4>1
      <3>5. CASE s # Slot(pos[p])
        <4>1. seq'[s] = seq[s] /\ seq[s] \in Nat
          BY ONLY <2>0, <3>3, <3>5, s \in Slots
        <4> QED BY ONLY <4>1
      <3> QED BY ONLY <3>4, <3>5
    <2>2. ASSUME NEW c \in Consumers, PopRelease(c) PROVE seq'[s] >= seq[s]
      <3>1. c \in Reading /\ pos[c] \in Nat
        BY Zenon, <2>0, <2>2 DEF PopRelease, Reading, Threads
      <3>2. seq[Slot(pos[c])] = pos[c] + 1
        BY Zenon, <3>1 DEF QueueInv, HolderInv, SeqOf
      <3>3. seq' = [seq EXCEPT ![Slot(pos[c])] = pos[c] + Capacity]
        BY Zenon, <2>2 DEF PopRelease
      <3>4. CASE s = Slot(pos[c])
        <4>1. seq'[s] = pos[c] + Capacity
          BY ONLY <2>0, <3>3, <3>4, s \in Slots
        <4> QED BY ONLY <2>0, <3>1, <3>2, <3>4, <4>1, Capacity >= 2
      <3>5. CASE s # Slot(pos[c])
        <4>1. seq'[s] = seq[s] /\ seq[s] \in Nat
          BY ONLY <2>0, <3>3, <3>5, s \in Slots
        <4> QED BY ONLY <4>1
      <3> QED BY ONLY <3>4, <3>5
    <2>3. CASE UNCHANGED seq
      BY <2>0, <2>3
    <2> QED BY ZenonT(30), <2>1, <2>2, <2>3 DEF Next, PushStep, PopStep, PushLoad, PushCheck, PushReload,
                PushClaim, PushClaimFails, PushWrite, BatchStart, PopLoad, PopCheck, PopReload,
                PopClaim, PopClaimFails, PopRead, SizeLoadTail, SizeReturns, shared
  <1> QED BY <1>1, QueueInvariant, PTL DEF Spec, SequenceAdvances

-----------------------------------------------------------------------------
(* The only consumer.                                                      *)

(* A step that leaves the batch, its ticket and head alone may extend the  *)
(* log: the stretch lies in what was there before.                         *)
LEMMA BatchFrame ==
    ASSUME QueueInv, BatchContiguous, UNCHANGED <<head, got>>,
           Reading' = Reading, \A c \in Reading : pos'[c] = pos[c],
           \A i \in 1 .. head : accepted'[i] = accepted[i]
    PROVE  BatchContiguous'
  <1> SUFFICES ASSUME NEW c \in Consumers, Consumers = {c}
               PROVE  /\ c \in Reading => pos[c] + 1 = head
                      /\ Len(got[c]) <= BatchEnd(c)
                      /\ \A i \in 1 .. Len(got[c]) :
                            got[c][i] = accepted'[BatchEnd(c) - Len(got[c]) + i]
    BY DEF BatchContiguous, BatchEnd
  <1>1. /\ head \in Nat /\ pos[c] \in Nat /\ Len(got[c]) \in Nat
    <2>1. got[c] \in Seq(Items \cup {NoItem})
      BY Zenon DEF QueueInv, TypeOK
    <2>2. head \in Nat /\ pos[c] \in Nat
      BY CursorTypes, Zenon DEF QueueInv, Threads
    <2> QED BY <2>1, <2>2
  <1>2. BatchEnd(c) \in Nat /\ BatchEnd(c) <= head
    <2>1. c \in Reading => pos[c] + 1 = head
      BY Zenon DEF BatchContiguous
    <2>2. CASE c \in Reading
      <3>1. BatchEnd(c) = pos[c]
        BY <2>2, Zenon DEF BatchEnd
      <3> QED BY <1>1, <2>1, <2>2, <3>1
    <2>3. CASE c \notin Reading
      <3>1. BatchEnd(c) = head
        BY <2>3, Zenon DEF BatchEnd
      <3> QED BY <1>1, <3>1
    <2> QED BY Zenon, <2>2, <2>3
  <1>3. Len(got[c]) <= BatchEnd(c)
    BY Zenon DEF BatchContiguous
  <1>4. ASSUME NEW i \in 1 .. Len(got[c])
        PROVE  got[c][i] = accepted'[BatchEnd(c) - Len(got[c]) + i]
    <2>1. BatchEnd(c) - Len(got[c]) + i \in 1 .. head
      BY <1>1, <1>2, <1>3
    <2>2. got[c][i] = accepted[BatchEnd(c) - Len(got[c]) + i]
      BY Zenon DEF BatchContiguous
    <2> QED BY Zenon, <2>1, <2>2
  <1> QED BY Zenon, <1>3, <1>4 DEF BatchContiguous

(* What is claimed when the batch loop adds the item of its ticket.        *)
LEMMA BatchRelease ==
    ASSUME QueueInv, TypeOK', BatchContiguous, NEW c \in Consumers, PopRelease(c)
    PROVE  BatchContiguous'
  <1>0. UNCHANGED <<head, accepted>> /\ \A d : Consumers = {d} => d = c
    BY Zenon DEF PopRelease
  <1> SUFFICES ASSUME Consumers = {c}
               PROVE  /\ c \notin Reading'
                      /\ Len(got'[c]) <= head
                      /\ \A i \in 1 .. Len(got'[c]) :
                            got'[c][i] = accepted[head - Len(got'[c]) + i]
    BY <1>0, Zenon DEF BatchContiguous, BatchEnd
  <1>1. /\ c \in Reading /\ got'[c] = Append(got[c], item[c]) /\ pc'[c] \in {"pop", "idle"}
        /\ item[c] = accepted[pos[c] + 1] /\ pos[c] + 1 = head
        /\ head \in Nat /\ pos[c] \in Nat /\ got[c] \in Seq(Items \cup {NoItem})
        /\ item[c] \in Items \cup {NoItem}
    BY Zenon, ThreadAssumption DEF QueueInv, TypeOK, PayloadInv, BatchContiguous, PopRelease, Reading, Threads, Goto
  <1>2. /\ Len(got[c]) <= pos[c]
        /\ \A i \in 1 .. Len(got[c]) : got[c][i] = accepted[pos[c] - Len(got[c]) + i]
    BY Zenon, <1>1 DEF BatchContiguous, BatchEnd
  <1>3. /\ Len(got'[c]) = Len(got[c]) + 1 /\ Len(got[c]) \in Nat
        /\ \A i \in 1 .. Len(got[c]) : got'[c][i] = got[c][i]
        /\ got'[c][Len(got[c]) + 1] = item[c]
    BY <1>1
  <1>3a. head - Len(got'[c]) = pos[c] - Len(got[c])
    BY <1>1, <1>3
  <1>4. ASSUME NEW i \in 1 .. Len(got'[c])
        PROVE  got'[c][i] = accepted[head - Len(got'[c]) + i]
    <2>1. CASE i = Len(got[c]) + 1
      <3>1. head - Len(got'[c]) + i = pos[c] + 1
        BY <2>1, <1>1, <1>3
      <3> QED BY Zenon, <2>1, <3>1, <1>1, <1>3
    <2>2. CASE i # Len(got[c]) + 1
      <3>1. i \in 1 .. Len(got[c])
        BY ONLY <2>2, <1>3, i \in 1 .. Len(got'[c])
      <3> QED BY Zenon, <3>1, <1>2, <1>3, <1>3a
    <2> QED BY Zenon, <2>1, <2>2
  <1>5. c \notin Reading'
    BY Zenon, <1>1 DEF Reading
  <1>6. Len(got'[c]) <= head
    <2>1. head \in Nat /\ pos[c] \in Nat /\ pos[c] + 1 = head
      BY Zenon, <1>1
    <2> QED BY ONLY <2>1, <1>2, <1>3
  <1> QED BY Zenon, <1>4, <1>5, <1>6

(* Every step of the queue keeps the batch contiguous.                     *)
LEMMA BatchStep ==
    ASSUME QueueInv, TypeOK', BatchContiguous, [Next]_vars PROVE BatchContiguous'
  <1> USE ThreadAssumption
  <1>0. \A i \in 1 .. head : i \in 1 .. Len(accepted)
    BY DEF QueueInv, TypeOK, CursorInv
  <1>1. ASSUME NEW p \in Producers, \/ \E v \in Items : PushLoad(p, v)
                                    \/ PushStep(p)
        PROVE  BatchContiguous'
    <2>1. /\ UNCHANGED <<head, got>>
          /\ accepted' = accepted \/ (item[p] \in Items /\ accepted' = Append(accepted, item[p]))
          /\ \A t \in Threads \ {p} : pc'[t] = pc[t] /\ pos'[t] = pos[t]
      BY ZenonT(30), <1>1 DEF QueueInv, TypeOK, PushStep, PushLoad, PushCheck, PushReload, PushClaim,
         PushClaimFails, PushWrite, PushPublish, shared, batch, Goto, SetPos, Return
    <2>2. Reading' = Reading /\ \A c \in Reading : pos'[c] = pos[c]
      BY Zenon, <2>1 DEF Reading, Threads
    <2>3. \A i \in 1 .. head : accepted'[i] = accepted[i]
      BY <1>0, <2>1 DEF QueueInv, TypeOK
    <2> QED BY Zenon, <2>1, <2>2, <2>3, BatchFrame
  <1>2. ASSUME NEW c \in Consumers, NEW n \in 1 .. MaxBatch, BatchStart(c, n)
        PROVE  BatchContiguous'
    <2>1. ASSUME Consumers = {c}
          PROVE  c \notin Reading' /\ got'[c] = <<>> /\ head' \in Nat
      <3>1. /\ pc' = [pc EXCEPT ![c] = "pop"] /\ got' = [got EXCEPT ![c] = <<>>] /\ head' = head
        BY <1>2, Zenon DEF BatchStart, Goto, shared
      <3>2. TypeOK /\ c \in Threads
        BY Zenon DEF QueueInv, Threads
      <3>3. pc'[c] = "pop" /\ head \in Nat
        BY <3>1, <3>2, PcTo, CursorTypes, Zenon
      <3>4. got'[c] = <<>>
        BY <3>1, <3>2, Zenon DEF TypeOK
      <3> QED BY <3>1, <3>3, <3>4, Zenon DEF Reading
    <2>2. ASSUME Consumers = {c}
          PROVE  Len(got'[c]) = 0 /\ 0 <= head' /\ 1 .. Len(got'[c]) = {}
      <3>1. got'[c] = <<>> /\ head' \in Nat
        BY <2>1, <2>2, Zenon
      <3> QED BY <3>1
    <2>3. \A d : Consumers = {d} => d = c
      OBVIOUS
    <2> QED BY <2>1, <2>2, <2>3, Zenon DEF BatchContiguous, BatchEnd
  <1>3. ASSUME NEW c \in Consumers, PopLoad(c) \/ PopCheck(c) \/ PopReload(c) \/ PopClaimFails(c)
        PROVE  BatchContiguous'
    <2>1. /\ UNCHANGED <<head, got, accepted>> /\ c \notin Reading /\ c \notin Reading'
          /\ \A t \in Threads \ {c} : pc'[t] = pc[t] /\ pos'[t] = pos[t]
      BY ZenonT(30), <1>3 DEF QueueInv, TypeOK, PopLoad, PopCheck, PopReload, PopClaimFails, shared, batch,
         Goto, SetPos, Return, Reading, Threads
    <2>2. Reading' = Reading /\ \A d \in Reading : pos'[d] = pos[d]
      BY Zenon, <2>1 DEF Reading, Threads
    <2> QED BY Zenon, <2>1, <2>2, BatchFrame
  <1>4. ASSUME NEW c \in Consumers, PopClaim(c) PROVE BatchContiguous'
    <2>1. /\ c \notin Reading /\ c \in Reading' /\ pos'[c] = head /\ head' = head + 1
          /\ UNCHANGED <<got, accepted>> /\ head \in Nat
      BY Zenon, <1>4 DEF QueueInv, TypeOK, PopClaim, Goto, Reading, Threads, batch
    <2>2. BatchEnd(c) = head /\ BatchEnd(c)' = head
      BY <2>1, Zenon DEF BatchEnd
    <2>3. \A d : Consumers = {d} => d = c
      OBVIOUS
    <2>4. ASSUME Consumers = {c}
          PROVE  /\ pos'[c] + 1 = head' /\ Len(got'[c]) <= BatchEnd(c)'
                 /\ \A i \in 1 .. Len(got'[c]) :
                       got'[c][i] = accepted'[BatchEnd(c)' - Len(got'[c]) + i]
      <3>1. /\ Len(got[c]) <= head
            /\ \A i \in 1 .. Len(got[c]) : got[c][i] = accepted[head - Len(got[c]) + i]
        BY <2>2, <2>4, Zenon DEF BatchContiguous
      <3>2. pos'[c] + 1 = head'
        BY <2>1, Zenon
      <3>3. got' = got /\ accepted' = accepted
        BY <2>1, Zenon
      <3> QED BY <2>2, <3>1, <3>2, <3>3, Zenon
    <2> QED BY <2>3, <2>4, Zenon DEF BatchContiguous
  <1>5. ASSUME NEW c \in Consumers, PopRead(c) PROVE BatchContiguous'
    <2>1. UNCHANGED <<head, got, accepted, pos>> /\ Reading' = Reading
      BY Zenon, <1>5 DEF QueueInv, TypeOK, PopRead, Goto, Reading, Threads, shared, batch
    <2> QED BY Zenon, <2>1, BatchFrame
  <1>6. ASSUME NEW t \in SizeCallers, SizeLoadTail(t) \/ SizeReturns(t) PROVE BatchContiguous'
    <2>1. /\ UNCHANGED <<head, got, accepted>> /\ t \notin Reading /\ t \notin Reading'
          /\ \A u \in Threads \ {t} : pc'[u] = pc[u] /\ pos'[u] = pos[u]
      BY Zenon, <1>6 DEF QueueInv, TypeOK, SizeLoadTail, SizeReturns, shared, batch,
         Goto, SetPos, Reading, Threads
    <2>2. Reading' = Reading /\ \A d \in Reading : pos'[d] = pos[d]
      BY Zenon, <2>1 DEF Reading, Threads
    <2> QED BY Zenon, <2>1, <2>2, BatchFrame
  <1>7. CASE UNCHANGED vars
    BY Zenon, <1>7 DEF vars, BatchContiguous, BatchEnd, Reading
  <1> QED BY Zenon, <1>1, <1>2, <1>3, <1>4, <1>5, <1>6, <1>7, BatchRelease DEF Next, PopStep

(* A value modulo another is never larger.                                 *)
LEMMA RemainderBelow == \A n \in Nat, m \in Nat \ {0} : n % m <= n
  <1> TAKE n \in Nat, m \in Nat \ {0}
  <1> DEFINE q == n \div m
             r == n % m
  <1>1. q \in Int /\ r \in 0 .. m - 1 /\ n = m * q + r
    BY SMTT(30)
  <1> HIDE DEF q, r
  <1>2. q >= 0
    <2> SUFFICES ASSUME q <= 0 - 1 PROVE FALSE
      BY <1>1
    <2>1. m * q <= m * (0 - 1) /\ m * q \in Int
      BY <1>1, SMTT(30)
    <2> QED BY <1>1, <2>1
  <1>3. m * q >= 0 /\ m * q \in Int
    BY <1>1, <1>2, SMTT(30)
  <1>4. r <= n
    BY <1>1, <1>3
  <1> QED BY Zenon, <1>4 DEF r

(* Only its own load of tail brings a consumer between the two loads.      *)
LEMMA SizeLoadEnters ==
    ASSUME TypeOK, [Next]_vars, NEW c \in Consumers, pc[c] # "size", pc'[c] = "size"
    PROVE  SizeLoadTail(c)
  <1> USE ThreadAssumption
  <1>1. ASSUME NEW p \in Producers, (\E v \in Items : PushLoad(p, v)) \/ PushStep(p)
        PROVE  pc'[c] = pc[c]
    BY ZenonT(30), <1>1 DEF TypeOK, PushStep, PushLoad, PushCheck, PushReload, PushClaim,
       PushClaimFails, PushWrite, PushPublish, Goto, Return, Threads
  <1>2. ASSUME NEW d \in Consumers, (\E n \in 1 .. MaxBatch : BatchStart(d, n)) \/ PopStep(d)
        PROVE  pc'[d] # "size" /\ \A u \in Threads \ {d} : pc'[u] = pc[u]
    BY Zenon, <1>2 DEF TypeOK, PopStep, BatchStart, PopLoad, PopCheck, PopReload, PopClaim,
       PopClaimFails, PopRead, PopRelease, Goto, Return, Threads
  <1>3. ASSUME NEW t \in SizeCallers, SizeReturns(t) \/ (SizeLoadTail(t) /\ t # c)
        PROVE  pc'[c] # "size" \/ pc'[c] = pc[c]
    BY Zenon, <1>3 DEF TypeOK, SizeReturns, SizeLoadTail, Goto, Threads
  <1>4. CASE UNCHANGED vars
    BY Zenon, <1>4 DEF vars
  <1> QED BY Zenon, <1>1, <1>2, <1>3, <1>4 DEF Next, Threads

(* Between the two loads of mev_queue_size only other threads move, and    *)
(* head is moved by the caller alone.                                      *)
LEMMA SizeStep ==
    ASSUME QueueInv, QueueInv', ConsumerSizeSound, [Next]_vars PROVE ConsumerSizeSound'
  <1> USE ThreadAssumption
  <1> SUFFICES ASSUME NEW c \in Consumers \cap SizeCallers, Consumers = {c}, pc'[c] = "size"
               PROVE  pos'[c] >= head' /\ (pos'[c] - head') % SizeModulus <= tail' - head'
    BY Zenon DEF ConsumerSizeSound, SizeResult
  <1>0. /\ head \in Nat /\ tail \in Nat /\ head' \in Nat /\ tail' \in Nat /\ pos'[c] \in Nat
        /\ c \in Threads /\ c \notin Producers
    BY Zenon DEF QueueInv, TypeOK, Threads
  <1>1. pos'[c] <= tail' /\ head <= tail
    BY Zenon DEF QueueInv, PosInv, CursorInv
  <1>2. pos'[c] >= head'
    <2>1. CASE pc[c] # "size"
      <3>1. SizeLoadTail(c)
        BY Zenon, <1>0, <2>1, SizeLoadEnters DEF QueueInv
      <3>2. pos'[c] = tail /\ head' = head
        BY Zenon, <1>0, <3>1 DEF SizeLoadTail, SetPos, shared, QueueInv, TypeOK
      <3> QED BY Zenon, <1>1, <3>2
    <2>2. CASE pc[c] = "size"
      <3>1. pos'[c] = pos[c] /\ head' = head
        BY ZenonT(30), <1>0, <2>2 DEF QueueInv, TypeOK, Next, PushStep, PopStep, PushLoad, PushCheck, PushReload,
           PushClaim, PushClaimFails, PushWrite, PushPublish, BatchStart, PopLoad, PopCheck,
           PopReload, PopClaim, PopClaimFails, PopRead, PopRelease, SizeLoadTail, SizeReturns,
           Goto, SetPos, Return, vars, shared
      <3>2. pos[c] >= head
        BY Zenon, <2>2 DEF ConsumerSizeSound
      <3> QED BY Zenon, <3>1, <3>2
    <2> QED BY Zenon, <2>1, <2>2
  <1>3. pos'[c] - head' \in Nat /\ (pos'[c] - head') % SizeModulus <= pos'[c] - head'
    BY <1>0, <1>2, BoundAssumption, RemainderBelow
  <1>4. (pos'[c] - head') % SizeModulus \in Int
    BY <1>3, BoundAssumption
  <1> QED BY <1>0, <1>1, <1>2, <1>3, <1>4

(* What the only consumer of this project is told is true for any number   *)
(* of producers and any schedule: the items[] array of a pop_batch is a    *)
(* gap-free stretch of the log, and its mev_queue_size never wraps.        *)
THEOREM ConsumerInvariant == ASSUME Capacity >= 2 PROVE Spec => []ConsumerInv
  <1>1. Init => BatchContiguous /\ ConsumerSizeSound
    <2> SUFFICES ASSUME Init PROVE BatchContiguous /\ ConsumerSizeSound
      OBVIOUS
    <2>1. /\ head = 0 /\ Reading = {} /\ \A c \in Consumers : got[c] = <<>> /\ pc[c] # "size"
      BY Zenon, ThreadAssumption DEF Init, Reading, Threads
    <2> QED BY <2>1 DEF BatchContiguous, BatchEnd, ConsumerSizeSound
  <1>2. ASSUME QueueInv, QueueInv', BatchContiguous, ConsumerSizeSound, [Next]_vars
        PROVE  BatchContiguous' /\ ConsumerSizeSound'
    <2>1. TypeOK'
      BY Zenon, <1>2 DEF QueueInv
    <2> QED BY Zenon, <1>2, <2>1, BatchStep, SizeStep
  <1>3. QueueInv => TypeOK
    BY Zenon DEF QueueInv
  <1> QED BY <1>1, <1>2, <1>3, QueueInvariant, PTL DEF Spec, ConsumerInv

-----------------------------------------------------------------------------
(* The queue implements the bounded FIFO.                                  *)

(* The sequence of a claimed ticket's slot is at least the ticket, and     *)
(* beyond it once the ticket is handed out, however old the ticket is.     *)
LEMMA ClaimedSequence ==
    ASSUME QueueInv
    PROVE  \A t \in Nat : t < tail => /\ SeqOf(t) \in Nat
                                      /\ SeqOf(t) >= t
                                      /\ t < head => SeqOf(t) >= t + 1
  <1> SUFFICES ASSUME NEW t \in Nat, t < tail
               PROVE  SeqOf(t) \in Nat /\ SeqOf(t) >= t /\ (t < head => SeqOf(t) >= t + 1)
    OBVIOUS
  <1>0. head \in Nat /\ tail \in Nat /\ Capacity \in Nat \ {0} /\ Slot(t) \in Slots
    BY CapacityAssumption, SlotInRange DEF QueueInv, TypeOK
  <1>1. PICK u \in (tail - Capacity) .. (tail - 1) : Slot(u) = Slot(t)
    <2>1. tail \in Int
      BY <1>0
    <2> QED BY ONLY <2>1, <1>0, SlotReached
  <1>2. u \in Lap /\ u \in Int /\ SeqOf(u) = SeqOf(t) /\ SeqOf(t) \in Nat
    BY <1>0, <1>1 DEF Lap, SeqOf, QueueInv, TypeOK
  <1>3. SeqOf(u) >= u /\ (u < head => SeqOf(u) >= u + 1)
    BY <1>0, <1>2 DEF QueueInv, SlotInv
  <1>4. t <= u
    <2> SUFFICES ASSUME u < t PROVE FALSE
      BY <1>2
    <2>1. t - u >= Capacity
      BY <1>1, <1>2, SlotInjective
    <2> QED BY <1>0, <1>1, <1>2, <2>1
  <1> QED BY <1>0, <1>2, <1>3, <1>4

(* mev_queue_push answers "full" only if the queue holds Capacity items or *)
(* a pop is still in its slot.                                             *)
LEMMA FullIsJustified ==
    ASSUME Capacity >= 2, QueueInv, NEW p \in Producers, pc[p] = "check",
           seq[Slot(pos[p])] - pos[p] < 0
    PROVE  Len(accepted) - head = Capacity \/ Reading # {}
  <1>0. /\ head \in Nat /\ tail \in Nat /\ Capacity \in Nat /\ pos[p] \in Nat /\ pos[p] <= tail
        /\ Len(accepted) = tail /\ tail - head <= Capacity
        /\ SeqOf(pos[p]) \in Nat /\ SeqOf(pos[p]) < pos[p]
    <2>1. /\ head \in Nat /\ tail \in Nat /\ Capacity \in Nat /\ pos[p] \in Nat
          /\ seq \in [Slots -> Nat]
      BY CapacityAssumption, CursorTypes, Zenon DEF QueueInv, TypeOK, Threads
    <2>2. /\ pos[p] <= tail /\ Len(accepted) = tail /\ tail - head <= Capacity
      BY Zenon DEF QueueInv, PosInv, CursorInv
    <2>3. SeqOf(pos[p]) \in Nat
      BY <2>1, NatIsInt, SlotInRange, Zenon DEF SeqOf
    <2>4. SeqOf(pos[p]) < pos[p]
      BY ONLY <2>1, <2>3, seq[Slot(pos[p])] - pos[p] < 0 DEF SeqOf
    <2> QED BY <2>1, <2>2, <2>3, <2>4, Zenon
  <1>1. pos[p] = tail
    <2>1. ~ (pos[p] < tail)
      <3>1. pos[p] < tail => SeqOf(pos[p]) >= pos[p]
        BY Zenon, <1>0, ClaimedSequence
      <3> QED BY ONLY <1>0, <3>1
    <2> QED BY ONLY <1>0, <2>1
  <1> DEFINE u == tail - Capacity
  <1>2. u \in Lap /\ u \in Int /\ u + Capacity = tail
    BY <1>0 DEF Lap
  <1> HIDE DEF u
  <1>3. SeqOf(u) = SeqOf(tail) /\ SeqOf(u) # u + Capacity
    <2>1. Slot(u + Capacity) = Slot(u)
      BY ONLY <1>2, SlotNextLap
    <2>2. SeqOf(u) = SeqOf(tail)
      BY ONLY <1>2, <2>1 DEF SeqOf
    <2>3. SeqOf(tail) < tail /\ SeqOf(tail) \in Nat
      BY Zenon, <1>0, <1>1
    <2> QED BY <1>0, <1>2, <2>2, <2>3
  <1>4. CASE head <= u
    BY <1>0, <1>2, <1>4
  <1>5. CASE u < head
    <2>1. SeqOf(u) = u + 1 /\ u >= 0
      BY <1>2, <1>3, <1>5 DEF QueueInv, SlotInv
    <2> QED BY Zenon, <1>2, <1>5, <2>1 DEF QueueInv, OwnerInv
  <1> QED BY <1>0, <1>2, <1>4, <1>5

(* mev_queue_pop answers "empty" only if every accepted item is handed out *)
(* or the push of the oldest one has not returned.                         *)
LEMMA EmptyIsJustified ==
    ASSUME QueueInv, NEW c \in Consumers, pc[c] = "check",
           seq[Slot(pos[c])] - (pos[c] + 1) < 0
    PROVE  head = Len(accepted) \/ Writing # {}
  <1>0. /\ head \in Nat /\ tail \in Nat /\ Capacity \in Nat /\ pos[c] \in Nat /\ pos[c] <= head
        /\ Len(accepted) = tail /\ head <= tail /\ tail - head <= Capacity
        /\ SeqOf(pos[c]) \in Nat /\ SeqOf(pos[c]) < pos[c] + 1
    <2>1. /\ head \in Nat /\ tail \in Nat /\ Capacity \in Nat /\ pos[c] \in Nat
          /\ seq \in [Slots -> Nat] /\ c \in Threads
      BY Zenon, CapacityAssumption DEF QueueInv, TypeOK, Threads
    <2>2. pos[c] <= head
      BY Zenon, <2>1 DEF QueueInv, PosInv
    <2>3. Len(accepted) = tail /\ head <= tail /\ tail - head <= Capacity
      BY Zenon DEF QueueInv, CursorInv
    <2>4. Slot(pos[c]) \in Slots
      BY <2>1, SlotInRange
    <2>5. SeqOf(pos[c]) \in Nat
      BY ONLY <2>1, <2>4 DEF SeqOf
    <2>6. SeqOf(pos[c]) < pos[c] + 1
      BY ONLY <2>1, <2>5, seq[Slot(pos[c])] - (pos[c] + 1) < 0 DEF SeqOf
    <2> QED BY ONLY <2>1, <2>2, <2>3, <2>5, <2>6
  <1>1. pos[c] = head
    BY <1>0, ClaimedSequence
  <1>2. ASSUME head < tail PROVE Writing # {}
    <2>1. head \in Lap
      BY <1>0, <1>2 DEF Lap
    <2>2. SeqOf(head) = head
      BY <1>0, <1>1, <1>2, ClaimedSequence
    <2> QED BY <1>0, <2>1, <2>2 DEF QueueInv, OwnerInv
  <1> QED BY <1>0, <1>2

(* Steps that the FIFO does not see.                                       *)
LEMMA FifoStutters ==
    ASSUME UNCHANGED <<accepted, head, ret>>, Writing' = Writing, Reading' = Reading,
           \A c \in Consumers : Out(c)' = Out(c)
    PROVE  UNCHANGED Fifo!vars
  BY Zenon DEF Fifo!vars

(* A push step is a step of the FIFO or is not seen by it.                 *)
LEMMA PushRefines ==
    ASSUME Capacity >= 2, QueueInv, NEW p \in Producers,
           (\E v \in Items : PushLoad(p, v)) \/ PushStep(p)
    PROVE  Fifo!Next \/ UNCHANGED Fifo!vars
  <1> USE ThreadAssumption
  <1>0. TypeOK /\ p \in Threads /\ p \notin Consumers /\ p \notin Reading
    BY Zenon DEF QueueInv, Threads, Reading
  <1>1. ASSUME \A c \in Consumers : pc'[c] = pc[c] /\ item'[c] = item[c] /\ pos'[c] = pos[c],
               UNCHANGED data
        PROVE  Reading' = Reading /\ \A c \in Consumers : Out(c)' = Out(c)
    BY Zenon, <1>1 DEF Reading, Out
  <1>2. ASSUME NEW v \in Items, PushLoad(p, v) PROVE Fifo!Next
    <2>1. Reading' = Reading /\ (\A c \in Consumers : Out(c)' = Out(c)) /\ Writing' = Writing
      BY Zenon, <1>0, <1>1, <1>2 DEF PushLoad, Goto, SetPos, shared, TypeOK, Threads, Writing
    <2>2. Fifo!Call(p)
      BY Zenon, <1>0, <1>2, <2>1 DEF PushLoad, Fifo!Call, shared, Writing
    <2> QED BY Zenon, <2>2 DEF Fifo!Next
  <1>3. ASSUME PushCheck(p) PROVE Fifo!Next \/ UNCHANGED Fifo!vars
    <2>1. /\ Reading' = Reading /\ (\A c \in Consumers : Out(c)' = Out(c)) /\ Writing' = Writing
          /\ p \notin Writing /\ pc[p] = "check"
      BY Zenon, <1>0, <1>1, <1>3 DEF PushCheck, Goto, Return, shared, TypeOK, Threads, Writing
    <2>2. CASE UNCHANGED ret
      BY Zenon, <1>3, <2>1, <2>2, FifoStutters DEF PushCheck, shared
    <2>3. CASE seq[Slot(pos[p])] - pos[p] < 0 /\ Return(p, "full")
      <3>1. Len(accepted) - head = Capacity \/ Reading # {}
        BY Zenon, <2>1, <2>3, FullIsJustified
      <3>2. Fifo!PushRefused(p)
        BY Zenon, <1>3, <2>1, <2>3, <3>1 DEF Fifo!PushRefused, PushCheck, Return, shared
      <3> QED BY Zenon, <3>2 DEF Fifo!Next
    <2> QED BY Zenon, <1>3, <2>2, <2>3 DEF PushCheck
  <1>4. ASSUME PushReload(p) \/ PushClaimFails(p) PROVE UNCHANGED Fifo!vars
    <2>1. /\ Reading' = Reading /\ (\A c \in Consumers : Out(c)' = Out(c)) /\ Writing' = Writing
      BY Zenon, <1>0, <1>1, <1>4 DEF PushReload, PushClaimFails, Goto, SetPos, shared, TypeOK, Threads,
         Writing
    <2> QED BY Zenon, <1>4, <2>1, FifoStutters DEF PushReload, PushClaimFails, shared
  <1>5. ASSUME PushClaim(p) PROVE Fifo!Next
    <2>1. /\ Reading' = Reading /\ (\A c \in Consumers : Out(c)' = Out(c))
          /\ Writing' = Writing \cup {p} /\ p \notin Writing
      <3>1. /\ pc[p] = "cas" /\ pc' = [pc EXCEPT ![p] = "write"] /\ UNCHANGED <<data, pos, item>>
        BY <1>5, Zenon DEF PushClaim, Goto
      <3>2. pc'[p] = "write" /\ \A u \in Threads : u # p => pc'[u] = pc[u]
        BY <1>0, <3>1, PcTo, Zenon
      <3>3. /\ \A c \in Consumers : pc'[c] = pc[c] /\ item'[c] = item[c] /\ pos'[c] = pos[c]
            /\ UNCHANGED data
        BY <1>0, <3>1, <3>2, Zenon DEF Threads
      <3>4. Writing' = Writing \cup {p} /\ p \notin Writing
        BY <3>1, <3>2, Zenon DEF Writing, Threads
      <3> QED BY <1>1, <3>3, <3>4, Zenon
    <2>2. Len(accepted) - head < Capacity
      <3>1. TypeOK'
        BY Zenon, <1>0, <1>5, TypeStep DEF Next, PushStep
      <3>2. CursorInv'
        BY Zenon, <1>5, <3>1, PushClaimStep DEF QueueInv
      <3>3. head \in Nat /\ tail \in Nat /\ Len(accepted) = tail
        BY <1>0, CursorTypes, Zenon DEF QueueInv, CursorInv
      <3>4. tail' - head' <= Capacity
        BY <3>2, Zenon DEF CursorInv
      <3>5. tail' = tail + 1 /\ head' = head
        BY <1>5, Zenon DEF PushClaim
      <3> QED BY ONLY <3>3, <3>4, <3>5, CapacityAssumption
    <2>3. item[p] \in Items
      BY ZenonT(30), <1>0, <1>5 DEF TypeOK, PushClaim
    <2>4. Fifo!Accept(p, item[p])
      BY Zenon, <1>5, <2>1, <2>2 DEF Fifo!Accept, PushClaim
    <2> QED BY Zenon, <2>3, <2>4 DEF Fifo!Next
  <1>6. ASSUME PushWrite(p) PROVE UNCHANGED Fifo!vars
    <2>1. Reading' = Reading /\ Writing' = Writing /\ p \in Writing
      BY Zenon, <1>0, <1>6 DEF PushWrite, Goto, TypeOK, Threads, Writing, Reading
    <2>2. \A c \in Reading : Slot(pos[c]) # Slot(pos[p])
      <3>1. \A c \in Reading : /\ pos[c] \in Int /\ pos[p] \in Int /\ pos[c] # pos[p]
                               /\ pos[c] - pos[p] < Capacity /\ pos[p] - pos[c] < Capacity
        <4>1. /\ pos[p] \in Lap /\ SeqOf(pos[p]) = pos[p] /\ pos[p] \in Int /\ tail \in Int
              /\ Capacity \in Nat
          <5>1. pos[p] \in Nat /\ tail \in Nat
            BY Zenon, <1>0, <2>1 DEF QueueInv, TypeOK, Writing, Threads
          <5>2. pos[p] \in Lap /\ SeqOf(pos[p]) = pos[p]
            BY Zenon, <1>0, <2>1 DEF QueueInv, HolderInv
          <5> QED BY Zenon, <5>1, <5>2, NatIsInt, CapacityAssumption
        <4>2. \A c \in Reading : pos[c] \in Lap /\ SeqOf(pos[c]) = pos[c] + 1 /\ pos[c] \in Int
          <5>1. \A c \in Reading : pos[c] \in Nat
            BY Zenon, <1>0 DEF QueueInv, TypeOK, Reading, Threads
          <5>2. \A c \in Reading : pos[c] \in Lap /\ SeqOf(pos[c]) = pos[c] + 1
            BY Zenon, <1>0 DEF QueueInv, HolderInv
          <5> QED BY Zenon, <5>1, <5>2, NatIsInt
        <4>3. \A c \in Reading : pos[c] # pos[p]
          BY ONLY <4>1, <4>2
        <4> QED BY ONLY <4>1, <4>2, <4>3 DEF Lap
      <3> QED BY Zenon, <3>1, SameLapSameTicket
    <2>3. \A c \in Consumers : Out(c)' = Out(c)
      <3>1. /\ pc' = [pc EXCEPT ![p] = "publish"] /\ UNCHANGED <<pos, item>>
            /\ data' = [data EXCEPT ![Slot(pos[p])] = item[p]]
        BY <1>6, Zenon DEF PushWrite, Goto
      <3>2. \A u \in Threads : u # p => pc'[u] = pc[u]
        BY <1>0, <3>1, PcTo, Zenon
      <3>3. \A c \in Consumers : Slot(pos[c]) \in Slots
        BY <1>0, CursorTypes, NatIsInt, SlotInRange, Zenon DEF Threads
      <3>4. \A c \in Reading : data'[Slot(pos[c])] = data[Slot(pos[c])]
        BY <1>0, <2>2, <3>1, <3>3, Zenon DEF TypeOK, Reading
      <3>5. \A c \in Consumers : c \in Threads /\ c # p /\ (pc[c] = "read" => c \in Reading)
        BY <1>0, Zenon DEF Threads, Reading
      <3> QED BY <3>1, <3>2, <3>4, <3>5, Zenon DEF Out
    <2> QED BY Zenon, <1>6, <2>1, <2>3, FifoStutters DEF PushWrite
  <1>7. ASSUME PushPublish(p) PROVE Fifo!Next
    <2>1. /\ Reading' = Reading /\ (\A c \in Consumers : Out(c)' = Out(c))
          /\ Writing' = Writing \ {p} /\ p \in Writing
      BY Zenon, <1>0, <1>1, <1>7 DEF PushPublish, Return, Goto, TypeOK, Threads, Writing
    <2>2. Fifo!PushReturns(p)
      BY Zenon, <1>7, <2>1 DEF Fifo!PushReturns, PushPublish, Return
    <2> QED BY Zenon, <2>2 DEF Fifo!Next
  <1> QED BY Zenon, <1>2, <1>3, <1>4, <1>5, <1>6, <1>7 DEF PushStep

(* A pop step is a step of the FIFO or is not seen by it.                  *)
LEMMA PopRefines ==
    ASSUME Capacity >= 2, QueueInv, NEW c \in Consumers,
           (\E n \in 1 .. MaxBatch : BatchStart(c, n)) \/ PopStep(c)
    PROVE  Fifo!Next \/ UNCHANGED Fifo!vars
  <1> USE ThreadAssumption
  <1>0. TypeOK /\ c \in Threads /\ c \notin Producers /\ c \notin Writing
    BY Zenon DEF QueueInv, Threads, Writing
  <1>1. ASSUME \A d \in Consumers : pc'[d] \in {"read", "release"} <=> pc[d] \in {"read", "release"},
               \A p \in Producers : pc'[p] = pc[p]
        PROVE  Reading' = Reading /\ Writing' = Writing
    BY Zenon, <1>1 DEF Reading, Writing
  <1>2. ASSUME BatchStart(c, room'[c]) \/ PopReload(c) \/ PopClaimFails(c)
        PROVE  UNCHANGED Fifo!vars
    <2>1. Reading' = Reading /\ Writing' = Writing
      BY Zenon, <1>0, <1>1, <1>2 DEF BatchStart, PopReload, PopClaimFails, Goto, TypeOK, Threads
    <2>2. \A d \in Consumers : Out(d)' = Out(d)
      BY Zenon, <1>0, <1>2 DEF BatchStart, PopReload, PopClaimFails, Goto, SetPos, TypeOK, Threads, Out,
         shared
    <2> QED BY Zenon, <1>2, <2>1, <2>2, FifoStutters DEF BatchStart, PopReload, PopClaimFails, shared
  <1>3. ASSUME PopLoad(c) PROVE Fifo!Next
    <2>1. Reading' = Reading /\ Writing' = Writing /\ c \notin Reading
      BY Zenon, <1>0, <1>1, <1>3 DEF PopLoad, Goto, TypeOK, Threads, Reading
    <2>2. \A d \in Consumers : Out(d)' = Out(d)
      BY Zenon, <1>0, <1>3 DEF PopLoad, Goto, SetPos, TypeOK, Threads, Out, shared
    <2>3. Fifo!Call(c)
      BY Zenon, <1>0, <1>3, <2>1, <2>2 DEF PopLoad, Fifo!Call, shared
    <2> QED BY Zenon, <2>3 DEF Fifo!Next
  <1>4. ASSUME PopCheck(c) PROVE Fifo!Next \/ UNCHANGED Fifo!vars
    <2>1. Reading' = Reading /\ Writing' = Writing /\ c \notin Reading /\ pc[c] = "check"
      BY Zenon, <1>0, <1>1, <1>4 DEF PopCheck, Goto, Return, TypeOK, Threads, Reading
    <2>2. \A d \in Consumers : Out(d)' = Out(d)
      BY Zenon, <1>0, <1>4 DEF PopCheck, Goto, Return, TypeOK, Threads, Out, shared
    <2>3. CASE UNCHANGED ret
      BY Zenon, <1>4, <2>1, <2>2, <2>3, FifoStutters DEF PopCheck, shared
    <2>4. CASE seq[Slot(pos[c])] - (pos[c] + 1) < 0 /\ Return(c, "empty")
      <3>1. head = Len(accepted) \/ Writing # {}
        BY Zenon, <2>1, <2>4, EmptyIsJustified
      <3>2. Fifo!PopRefused(c)
        BY Zenon, <1>4, <2>1, <2>2, <2>4, <3>1 DEF Fifo!PopRefused, PopCheck, Return, shared
      <3> QED BY Zenon, <3>2 DEF Fifo!Next
    <2> QED BY Zenon, <1>4, <2>3, <2>4 DEF PopCheck
  <1>5. ASSUME PopClaim(c) PROVE Fifo!Next
    <2>1. Reading' = Reading \cup {c} /\ Writing' = Writing /\ c \notin Reading
      BY <1>0, <1>5 DEF PopClaim, Goto, TypeOK, Threads, Reading, Writing
    <2>2. /\ head < Len(accepted) /\ head \in Nat /\ tail \in Nat
          /\ head = pos[c] /\ SeqOf(head) = head + 1
      BY Zenon, <1>5 DEF PopClaim, QueueInv, ClaimInv, CursorInv, TypeOK
    <2>3. data[Slot(head)] = accepted[head + 1]
      <3>1. head \in Lap
        BY <2>2, CapacityAssumption DEF Lap, QueueInv, CursorInv
      <3>2. \A u \in Lap : u >= 0 /\ SeqOf(u) = u + 1 => data[Slot(u)] = accepted[u + 1]
        BY Zenon DEF QueueInv, PayloadInv
      <3> QED BY ONLY <2>2, <3>1, <3>2
    <2>4. Out(c)' = accepted[head + 1] /\ \A d \in Consumers : d # c => Out(d)' = Out(d)
      BY Zenon, <1>0, <1>5, <2>2, <2>3 DEF PopClaim, Goto, TypeOK, Threads, Out
    <2>5. Fifo!Take(c)
      BY ZenonT(30), <1>5, <2>1, <2>2, <2>4 DEF Fifo!Take, PopClaim
    <2> QED BY Zenon, <2>5 DEF Fifo!Next
  <1>6. ASSUME PopRead(c) PROVE UNCHANGED Fifo!vars
    <2>1. Reading' = Reading /\ Writing' = Writing
      BY Zenon, <1>0, <1>1, <1>6 DEF PopRead, Goto, TypeOK, Threads
    <2>2. \A d \in Consumers : Out(d)' = Out(d)
      BY Zenon, <1>0, <1>6 DEF PopRead, Goto, TypeOK, Threads, Out, shared
    <2> QED BY Zenon, <1>6, <2>1, <2>2, FifoStutters DEF PopRead, shared
  <1>7. ASSUME PopRelease(c) PROVE Fifo!Next
    <2>1. Reading' = Reading \ {c} /\ Writing' = Writing /\ c \in Reading
      BY Zenon, <1>0, <1>7 DEF PopRelease, Goto, TypeOK, Threads, Reading, Writing
    <2>2. \A d \in Consumers : Out(d)' = Out(d)
      BY Zenon, <1>0, <1>7 DEF PopRelease, Goto, TypeOK, Threads, Out
    <2>3. Fifo!PopReturns(c)
      BY Zenon, <1>7, <2>1, <2>2 DEF Fifo!PopReturns, PopRelease
    <2> QED BY Zenon, <2>3 DEF Fifo!Next
  <1>8. ASSUME NEW n \in 1 .. MaxBatch, BatchStart(c, n) PROVE BatchStart(c, room'[c])
    BY Zenon, <1>0, <1>8 DEF BatchStart, TypeOK
  <1> QED BY Zenon, <1>2, <1>3, <1>4, <1>5, <1>6, <1>7, <1>8 DEF PopStep

(* The queue implements the bounded FIFO: every step of lockfree_queue.c   *)
(* is one of its steps, or is invisible to it.  Nothing is lost, nothing   *)
(* is handed out twice, items leave in the order their pushes claimed      *)
(* tickets, and "full" and "empty" are only answered with a reason.        *)
THEOREM QueueRefinesFifo == ASSUME Capacity >= 2 PROVE Spec => ImplementsFifo
  <1>1. Init => Fifo!Init
    BY Zenon DEF Init, Fifo!Init, Writing, Reading, Out, Threads
  <1>2. QueueInv /\ [Next]_vars => [Fifo!Next]_(Fifo!vars)
    <2> SUFFICES ASSUME QueueInv, [Next]_vars PROVE Fifo!Next \/ UNCHANGED Fifo!vars
      OBVIOUS
    <2>1. ASSUME NEW t \in SizeCallers, SizeLoadTail(t) \/ SizeReturns(t)
          PROVE  UNCHANGED Fifo!vars
      <3>1. t \in Threads /\ TypeOK
        BY Zenon, ThreadAssumption DEF QueueInv
      <3>2. /\ Reading' = Reading /\ Writing' = Writing
            /\ \A c \in Consumers : Out(c)' = Out(c)
        BY Zenon, <2>1, <3>1 DEF SizeLoadTail, SizeReturns, Goto, SetPos, TypeOK, Threads, Reading,
           Writing, Out, shared
      <3> QED BY Zenon, <2>1, <3>2, FifoStutters DEF SizeLoadTail, SizeReturns, shared
    <2>2. CASE UNCHANGED vars
      <3>1. /\ Reading' = Reading /\ Writing' = Writing
            /\ \A c \in Consumers : Out(c)' = Out(c)
        BY Zenon, <2>2 DEF vars, Reading, Writing, Out
      <3> QED BY Zenon, <2>2, <3>1, FifoStutters DEF vars
    <2> QED BY Zenon, <2>1, <2>2, PushRefines, PopRefines DEF Next
  <1> QED BY <1>1, <1>2, QueueInvariant, PTL DEF Spec, ImplementsFifo, Fifo!Spec
=============================================================================
