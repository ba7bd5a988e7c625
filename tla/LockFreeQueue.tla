--------------------------- MODULE LockFreeQueue ---------------------------
(***************************************************************************)
(* The bounded lock-free queue of fast/src/lockfree_queue.c, one atomic    *)
(* access per step.  A ticket is a value of the 64-bit counters head and   *)
(* tail; tickets are natural numbers here, because the counters would take *)
(* centuries to wrap.  The slot of a ticket is `pos & mask', which for a   *)
(* power of two is the remainder modulo the capacity.                      *)
(***************************************************************************)
EXTENDS Integers, Sequences, FiniteSets

CONSTANTS
    Producers,      \* threads that push (detector workers)
    Consumers,      \* threads that pop (one in this project; the code allows more)
    SizeCallers,    \* threads that call mev_queue_size / mev_queue_empty
    Items,          \* non-NULL payload pointers
    NoItem,         \* the NULL pointer
    Capacity,       \* capacity after mev_queue_create has rounded it up
    SizeModulus,    \* 2^64, the range of size_t
    MaxPushes,      \* bound: no push starts once this many items are accepted
    MaxBatch        \* bound: the largest max_items given to pop_batch

Threads == Producers \cup Consumers
Slots   == 0 .. Capacity - 1

ASSUME CapacityAssumption == Capacity \in Nat \ {0}
ASSUME ThreadAssumption == Producers \cap Consumers = {} /\ SizeCallers \subseteq Threads
ASSUME ItemAssumption == NoItem \notin Items
ASSUME BoundAssumption ==
    MaxPushes \in Nat /\ MaxBatch \in Nat \ {0} /\ SizeModulus \in Nat \ {0}

(* mev_queue_create rounds the requested capacity up to a power of two.    *)
RoundUp(n) ==
    LET Powers == {2 ^ k : k \in 0 .. n}
    IN  IF n = 0 THEN 0
        ELSE CHOOSE m \in Powers : m >= n /\ \A k \in Powers : k >= n => m <= k

(* The slot a ticket maps to: slots[pos & mask].                           *)
Slot(t) == t % Capacity

VARIABLES
    head, tail,     \* the two cursors
    seq,            \* seq[s]: slots[s].sequence
    data,           \* data[s]: slots[s].data
    pc,             \* pc[t]: the atomic access thread t performs next
    pos,            \* pos[t]: its local variable pos (or the tail mev_queue_size read)
    item,           \* item[t]: the argument of its push, the result of its pop
    ret,            \* ret[t]: what its latest call returned
    room,           \* room[c]: items the running pop_batch may still fetch
    got,            \* got[c]: the items[] array of the latest pop_batch
    accepted        \* history: the items whose push has claimed a ticket, by ticket

vars == <<head, tail, seq, data, pc, pos, item, ret, room, got, accepted>>
shared == <<head, tail, seq, data, accepted>>
batch == <<room, got>>

(* mev_queue_create: slot i is ready for the producer holding ticket i.    *)
Init ==
    /\ head = 0
    /\ tail = 0
    /\ seq = [s \in Slots |-> s]
    /\ data = [s \in Slots |-> NoItem]
    /\ pc = [t \in Threads |-> "idle"]
    /\ pos = [t \in Threads |-> 0]
    /\ item = [t \in Threads |-> NoItem]
    /\ ret = [t \in Threads |-> "none"]
    /\ room = [c \in Consumers |-> 0]
    /\ got = [c \in Consumers |-> <<>>]
    /\ accepted = <<>>

Goto(t, label) == pc' = [pc EXCEPT ![t] = label]
SetPos(t, n)   == pos' = [pos EXCEPT ![t] = n]
Return(t, r)   == Goto(t, "idle") /\ ret' = [ret EXCEPT ![t] = r]

-----------------------------------------------------------------------------
(* mev_queue_push                                                          *)

PushLoad(p, v) ==
    /\ pc[p] = "idle"
    /\ tail < MaxPushes
    /\ SetPos(p, tail)
    /\ item' = [item EXCEPT ![p] = v]
    /\ ret' = [ret EXCEPT ![p] = "none"]
    /\ Goto(p, "check")
    /\ UNCHANGED <<shared, batch>>

(* Mutant: losing the race for a ticket is reported as a full queue.       *)
PushCheckNoRetry(p) ==
    /\ pc[p] = "check"
    /\ LET diff == seq[Slot(pos[p])] - pos[p] IN
       \/ diff = 0 /\ Goto(p, "cas") /\ UNCHANGED ret
       \/ diff # 0 /\ Return(p, "full")
    /\ UNCHANGED <<shared, pos, item, batch>>

PushCheck(p) ==
    /\ pc[p] = "check"
    /\ LET diff == seq[Slot(pos[p])] - pos[p] IN
       \/ diff = 0 /\ Goto(p, "cas") /\ UNCHANGED ret
       \/ diff < 0 /\ Return(p, "full")
       \/ diff > 0 /\ Goto(p, "reload") /\ UNCHANGED ret
    /\ UNCHANGED <<shared, pos, item, batch>>

PushReload(p) ==
    /\ pc[p] = "reload"
    /\ SetPos(p, tail)
    /\ Goto(p, "check")
    /\ UNCHANGED <<shared, item, ret, batch>>

PushClaim(p) ==
    /\ pc[p] = "cas"
    /\ tail = pos[p]
    /\ tail' = pos[p] + 1
    /\ accepted' = Append(accepted, item[p])
    /\ Goto(p, "write")
    /\ UNCHANGED <<head, seq, data, pos, item, ret, batch>>

(* A weak compare-exchange may also fail although tail = pos.              *)
PushClaimFails(p) ==
    /\ pc[p] = "cas"
    /\ SetPos(p, tail)
    /\ Goto(p, "check")
    /\ UNCHANGED <<shared, item, ret, batch>>

PushWrite(p) ==
    /\ pc[p] = "write"
    /\ data' = [data EXCEPT ![Slot(pos[p])] = item[p]]
    /\ Goto(p, "publish")
    /\ UNCHANGED <<head, tail, seq, pos, item, ret, batch, accepted>>

(* Mutant: the sequence number is never published.                         *)
PushPublishForgotten(p) ==
    /\ pc[p] = "publish"
    /\ Return(p, "ok")
    /\ UNCHANGED <<shared, pos, item, batch>>

PushPublish(p) ==
    /\ pc[p] = "publish"
    /\ seq' = [seq EXCEPT ![Slot(pos[p])] = pos[p] + 1]
    /\ Return(p, "ok")
    /\ UNCHANGED <<head, tail, data, pos, item, batch, accepted>>

-----------------------------------------------------------------------------
(* mev_queue_pop, called directly (a batch of one) or by mev_queue_pop_batch *)

BatchStart(c, n) ==
    /\ pc[c] = "idle"
    /\ room' = [room EXCEPT ![c] = n]
    /\ got' = [got EXCEPT ![c] = <<>>]
    /\ Goto(c, "pop")
    /\ UNCHANGED <<shared, pos, item, ret>>

PopLoad(c) ==
    /\ pc[c] = "pop"
    /\ SetPos(c, head)
    /\ ret' = [ret EXCEPT ![c] = "none"]
    /\ Goto(c, "check")
    /\ UNCHANGED <<shared, item, batch>>

PopCheck(c) ==
    /\ pc[c] = "check"
    /\ LET diff == seq[Slot(pos[c])] - (pos[c] + 1) IN
       \/ diff = 0 /\ Goto(c, "cas") /\ UNCHANGED ret
       \/ diff < 0 /\ Return(c, "empty")
       \/ diff > 0 /\ Goto(c, "reload") /\ UNCHANGED ret
    /\ UNCHANGED <<shared, pos, item, batch>>

PopReload(c) ==
    /\ pc[c] = "reload"
    /\ SetPos(c, head)
    /\ Goto(c, "check")
    /\ UNCHANGED <<shared, item, ret, batch>>

(* Mutant: head is stored instead of compare-exchanged.                    *)
PopClaimStore(c) ==
    /\ pc[c] = "cas"
    /\ head' = pos[c] + 1
    /\ Goto(c, "read")
    /\ UNCHANGED <<tail, seq, data, pos, item, ret, batch, accepted>>

PopClaim(c) ==
    /\ pc[c] = "cas"
    /\ head = pos[c]
    /\ head' = pos[c] + 1
    /\ Goto(c, "read")
    /\ UNCHANGED <<tail, seq, data, pos, item, ret, batch, accepted>>

PopClaimFails(c) ==
    /\ pc[c] = "cas"
    /\ SetPos(c, head)
    /\ Goto(c, "check")
    /\ UNCHANGED <<shared, item, ret, batch>>

PopRead(c) ==
    /\ pc[c] = "read"
    /\ item' = [item EXCEPT ![c] = data[Slot(pos[c])]]
    /\ Goto(c, "release")
    /\ UNCHANGED <<shared, pos, ret, batch>>

(* Mutant: the batch loop tests for room before it stores the item.        *)
PopReleaseDropsLast(c) ==
    /\ pc[c] = "release"
    /\ seq' = [seq EXCEPT ![Slot(pos[c])] = pos[c] + Capacity]
    /\ ret' = [ret EXCEPT ![c] = "item"]
    /\ got' = [got EXCEPT ![c] = IF room[c] > 1 THEN Append(@, item[c]) ELSE @]
    /\ room' = [room EXCEPT ![c] = @ - 1]
    /\ Goto(c, IF room[c] > 1 THEN "pop" ELSE "idle")
    /\ UNCHANGED <<head, tail, data, pos, item, accepted>>

(* The slot is handed to the next lap and the pop returns; the batch loop  *)
(* then stores the item and pops again while items[] has room.             *)
PopRelease(c) ==
    /\ pc[c] = "release"
    /\ seq' = [seq EXCEPT ![Slot(pos[c])] = pos[c] + Capacity]
    /\ ret' = [ret EXCEPT ![c] = "item"]
    /\ got' = [got EXCEPT ![c] = Append(@, item[c])]
    /\ room' = [room EXCEPT ![c] = @ - 1]
    /\ Goto(c, IF room[c] > 1 THEN "pop" ELSE "idle")
    /\ UNCHANGED <<head, tail, data, pos, item, accepted>>

-----------------------------------------------------------------------------
(* mev_queue_size and mev_queue_empty: two loads, tail first.              *)

SizeLoadTail(t) ==
    /\ pc[t] = "idle"
    /\ SetPos(t, tail)
    /\ Goto(t, "size")
    /\ UNCHANGED <<shared, item, ret, batch>>

(* What mev_queue_size returns if its load of head happens now.            *)
SizeResult(t) == (pos[t] - head) % SizeModulus

SizeReturns(t) ==
    /\ pc[t] = "size"
    /\ Goto(t, "idle")
    /\ UNCHANGED <<shared, pos, item, ret, batch>>

-----------------------------------------------------------------------------
PushStep(p) ==
    \/ PushCheck(p) \/ PushReload(p) \/ PushClaim(p) \/ PushClaimFails(p)
    \/ PushWrite(p) \/ PushPublish(p)

PopStep(c) ==
    \/ PopLoad(c) \/ PopCheck(c) \/ PopReload(c) \/ PopClaim(c)
    \/ PopClaimFails(c) \/ PopRead(c) \/ PopRelease(c)

Next ==
    \/ \E p \in Producers : (\E v \in Items : PushLoad(p, v)) \/ PushStep(p)
    \/ \E c \in Consumers : (\E n \in 1 .. MaxBatch : BatchStart(c, n)) \/ PopStep(c)
    \/ \E t \in SizeCallers : SizeLoadTail(t) \/ SizeReturns(t)

Spec == Init /\ [][Next]_vars

(* The scheduler runs every thread inside a call, the consumer keeps       *)
(* polling whatever else it calls in between, and a weak compare-exchange  *)
(* does not fail spuriously for ever.                                      *)
Fairness ==
    /\ \A p \in Producers : WF_vars(PushStep(p)) /\ SF_vars(PushClaim(p))
    /\ \A c \in Consumers : /\ WF_vars(PopStep(c)) /\ SF_vars(PopClaim(c))
                            /\ SF_vars(BatchStart(c, MaxBatch))
    /\ \A t \in SizeCallers : WF_vars(SizeReturns(t))

FairSpec == Spec /\ Fairness

-----------------------------------------------------------------------------
(* Who holds a ticket: the producers between their claim and their         *)
(* publication, the consumers between their claim and their release.       *)

Writing == {p \in Producers : pc[p] \in {"write", "publish"}}
Reading == {c \in Consumers : pc[c] \in {"read", "release"}}
Holders == Writing \cup Reading

(* The sequence number of a ticket's slot, and the tickets of the current  *)
(* lap: the last Capacity ones claimed by producers.  The tickets before 0 *)
(* stand for the initial, released slots.                                  *)
SeqOf(t) == seq[Slot(t)]
Lap == (tail - Capacity) .. (tail - 1)

(* Every variable has its type; in particular the slots only ever hold a   *)
(* payload that some producer passed to mev_queue_push, or NULL.           *)
TypeOK ==
    /\ head \in Nat
    /\ tail \in Nat
    /\ seq \in [Slots -> Nat]
    /\ data \in [Slots -> Items \cup {NoItem}]
    /\ pc \in [Threads -> {"idle", "pop", "check", "cas", "reload", "write", "publish",
                           "read", "release", "size"}]
    /\ pos \in [Threads -> Nat]
    /\ item \in [Threads -> Items \cup {NoItem}]
    /\ ret \in [Threads -> {"none", "ok", "full", "item", "empty"}]
    /\ room \in [Consumers -> Nat]
    /\ got \in [Consumers -> Seq(Items \cup {NoItem})]
    /\ accepted \in Seq(Items)
    /\ \A p \in Producers : pc[p] \notin {"pop", "read", "release"}
    /\ \A c \in Consumers : pc[c] \notin {"write", "publish"}
    /\ \A p \in Producers : pc[p] \notin {"idle", "size"} => item[p] \in Items
    /\ \A c \in Consumers : pc[c] \notin {"idle", "size"} => room[c] > 0

(* The log has one item per claimed ticket, consumers never overtake       *)
(* producers, and at most Capacity tickets are claimed and not handed out. *)
CursorInv ==
    /\ Len(accepted) = tail
    /\ head <= tail
    /\ tail - head <= Capacity

(* A thread that has read a cursor is never ahead of it.                   *)
PosInv ==
    /\ \A p \in Producers : pc[p] \in {"check", "cas", "reload"} => pos[p] <= tail
    /\ \A c \in Consumers : pc[c] \in {"check", "cas", "reload"} => pos[c] <= head
    /\ \A t \in SizeCallers : pc[t] = "size" => pos[t] <= tail

(* A slot of the lap is being written (sequence u), published (u + 1) or   *)
(* released for the next lap (u + Capacity).  Handed-out tickets were      *)
(* published; tickets not handed out are not released; the slots that no   *)
(* ticket has reached yet keep the sequence mev_queue_create gave them.    *)
SlotInv ==
    \A u \in Lap :
        /\ SeqOf(u) \in {u, u + 1, u + Capacity}
        /\ u < 0 => SeqOf(u) = u + Capacity
        /\ u >= head => SeqOf(u) # u + Capacity
        /\ u < head => SeqOf(u) # u

(* Between its check and its compare-exchange a thread relies on a         *)
(* sequence number it read earlier: if the cursor has not moved, what it   *)
(* read is still true.                                                     *)
ClaimInv ==
    /\ \A p \in Producers : pc[p] = "cas" /\ pos[p] = tail => SeqOf(tail) = tail
    /\ \A c \in Consumers : pc[c] = "cas" /\ pos[c] = head =>
                                head < tail /\ SeqOf(head) = head + 1

(* A writing producer holds a ticket of the lap that is not yet published, *)
(* a reading consumer one that is published and not yet released.          *)
HolderInv ==
    /\ \A p \in Writing : /\ pos[p] \in Lap
                          /\ SeqOf(pos[p]) = pos[p]
                          /\ accepted[pos[p] + 1] = item[p]
                          /\ pc[p] = "publish" => data[Slot(pos[p])] = item[p]
    /\ \A c \in Reading : /\ pos[c] \in Lap
                          /\ pos[c] < head
                          /\ SeqOf(pos[c]) = pos[c] + 1

(* No two threads hold the same ticket.                                    *)
TicketInv ==
    /\ \A p, q \in Writing : pos[p] = pos[q] => p = q
    /\ \A c, d \in Reading : pos[c] = pos[d] => c = d

(* A published slot holds the payload its producer passed, and a consumer  *)
(* that has read its slot obtained the item accepted under its ticket.     *)
PayloadInv ==
    /\ \A u \in Lap : u >= 0 /\ SeqOf(u) = u + 1 => data[Slot(u)] = accepted[u + 1]
    /\ \A c \in Reading : pc[c] = "release" => item[c] = accepted[pos[c] + 1]

(* Nobody waits for a ghost: a claimed ticket that is unpublished, or      *)
(* handed out and unreleased, is held by a thread that is still in its call. *)
OwnerInv ==
    \A u \in Lap : u >= 0 =>
        /\ SeqOf(u) = u => \E p \in Writing : pos[p] = u
        /\ u < head /\ SeqOf(u) = u + 1 => \E c \in Reading : pos[c] = u

(* The inductive invariant of the queue.                                   *)
QueueInv ==
    /\ TypeOK /\ CursorInv /\ PosInv /\ SlotInv /\ ClaimInv
    /\ HolderInv /\ TicketInv /\ PayloadInv /\ OwnerInv

-----------------------------------------------------------------------------
(* No two threads that are between claiming and giving up a ticket ever    *)
(* touch the same slot: a producer of the next lap cannot overwrite a      *)
(* payload a slow consumer is still reading, nor a consumer read a slot a  *)
(* slow producer is still writing (the "claim-then-write" race of the      *)
(* file's header comment).                                                 *)
SlotExclusion ==
    \A t, u \in Holders : t # u => Slot(pos[t]) # Slot(pos[u])

(* What a pop is about to return is the item pushed under the same ticket: *)
(* never stale, never NULL, never another producer's.                      *)
PopReturnsPushed ==
    \A c \in Consumers : pc[c] = "release" =>
        item[c] \in Items /\ item[c] = accepted[pos[c] + 1]

(* The sequence number of a slot never goes back, whatever the order of    *)
(* the threads' stores.                                                    *)
SequenceAdvances == [][\A s \in Slots : seq'[s] >= seq[s]]_vars

(* With one consumer, as this project uses the queue, the items[] array of *)
(* a pop_batch is a gap-free stretch of the log that ends at head, or just *)
(* before it while the batch holds the ticket it claimed last.             *)
BatchEnd(c) == IF c \in Reading THEN pos[c] ELSE head
BatchContiguous ==
    \A c \in Consumers : Consumers = {c} =>
        /\ c \in Reading => pos[c] + 1 = head
        /\ Len(got[c]) <= BatchEnd(c)
        /\ \A i \in 1 .. Len(got[c]) : got[c][i] = accepted[BatchEnd(c) - Len(got[c]) + i]

(* When the only consumer itself asks for the size, the answer is at most  *)
(* the number of items in the queue: it never wraps below zero, and        *)
(* mev_queue_empty never says "not empty" when there is nothing to pop.    *)
ConsumerSizeSound ==
    \A c \in Consumers \cap SizeCallers : Consumers = {c} /\ pc[c] = "size" =>
        pos[c] >= head /\ SizeResult(c) <= tail - head

(* What the only consumer is told, by a batch or by a size, agrees with    *)
(* the queue at every moment.                                              *)
ConsumerInv == TypeOK /\ BatchContiguous /\ ConsumerSizeSound

(* The queue never accepts an item while Capacity items wait to be popped: *)
(* mev_queue_push "Returns 0 on success, -1 if full".                      *)
NeverOverfull == Len(accepted) - head <= Capacity

(* Every accepted item is eventually handed out, although a pop reports    *)
(* "empty" while an older push is unpublished: as the pushes are bounded,  *)
(* a time comes after which consumers have claimed all that was accepted.  *)
EveryItemTaken == <>[](head = Len(accepted))

(* The queue implements the bounded FIFO: a push takes effect when it      *)
(* claims its ticket, a pop when it claims its own, and the item of a pop  *)
(* that has claimed but not read is the one in its slot.                   *)
Out(c) == IF pc[c] = "read" THEN data[Slot(pos[c])] ELSE item[c]

Fifo == INSTANCE BoundedFifo WITH
            taken <- head,
            out <- [c \in Consumers |-> Out(c)],
            writing <- Writing,
            reading <- Reading,
            answer <- ret

ImplementsFifo == Fifo!Spec
=============================================================================
