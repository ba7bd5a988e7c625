----------------------------- MODULE MemoryPool -----------------------------
(***************************************************************************)
(* One pool of fast/src/memory_pool.c: a ring of free blocks between two   *)
(* 32-bit cursors, used by pool_get and pool_put one atomic access at a    *)
(* time, and by the batch calls built from them.  The three pools of the   *)
(* file (tx, calldata, result) do not share state; this is any one of them.*)
(* `owner' is what the callers rely on and the code never checks: a block  *)
(* belongs to whoever it was handed to until it is given back.             *)
(***************************************************************************)
EXTENDS Integers, Sequences, FiniteSets, SequencesExt

CONSTANTS
    Threads,        \* callers
    MaxBlocks,      \* POOL_MAX_BLOCKS
    InitialBlocks,  \* blocks allocated by pool_init
    UIntModulus,    \* 2^32, the range of the atomic_uint cursors
    MaxLive,        \* bound: blocks the allocator can have outstanding
    MaxBatch        \* bound: the largest count given to mev_alloc_batch

(* The cursors wrap at a multiple of the ring's size.                     *)
PoolAssumption ==
    /\ MaxBlocks \in Nat \ {0} /\ UIntModulus % MaxBlocks = 0
    /\ InitialBlocks \in 0 .. MaxLive

NULL   == 0
Blocks == 1 .. MaxLive

VARIABLES
    blocks,     \* blocks[s]: the slots of the ring
    head, tail, \* the cursors
    count,      \* blocks counted by pool_init
    live,       \* blocks the allocator has handed out and not had back
    pc,         \* pc[t]: the next access of thread t
    h, tl,      \* h[t], tl[t]: its local variables head and tail
    want,       \* want[t]: gets its running batch still needs
    ptrs,       \* ptrs[t]: the batch so far
    puts,       \* puts[t]: the blocks its running free (or rollback) still has to put
    owned       \* owned[t]: the blocks it was given and has not given back

vars == <<blocks, head, tail, count, live, pc, h, tl, want, ptrs, puts, owned>>
ring == <<blocks, head, tail, count>>

Inc(n)  == (n + 1) % UIntModulus
Slot(n) == n % MaxBlocks

(* pool_init: the first InitialBlocks slots hold a block each.             *)
Init ==
    LET n == IF InitialBlocks < MaxBlocks THEN InitialBlocks ELSE MaxBlocks
    IN  /\ blocks = [s \in 0 .. MaxBlocks - 1 |-> IF s < n THEN s + 1 ELSE NULL]
        /\ head = 0
        /\ tail = n % UIntModulus
        /\ count = n
        /\ live = 1 .. n
        /\ pc = [t \in Threads |-> "idle"]
        /\ h = [t \in Threads |-> 0]
        /\ tl = [t \in Threads |-> 0]
        /\ want = [t \in Threads |-> 0]
        /\ ptrs = [t \in Threads |-> <<>>]
        /\ puts = [t \in Threads |-> <<>>]
        /\ owned = [t \in Threads |-> {}]

Goto(t, label) == pc' = [pc EXCEPT ![t] = label]

-----------------------------------------------------------------------------
(* What the caller does with the block a get returns: mev_alloc_batch      *)
(* stores it and goes on, or on NULL gives back what it has; a single      *)
(* mev_alloc_tx, _calldata or _result is a batch of one.                   *)
Receive(t, b) ==
    IF b = NULL
    THEN /\ puts' = [puts EXCEPT ![t] = ptrs[t]]
         /\ ptrs' = [ptrs EXCEPT ![t] = <<>>]
         /\ Goto(t, IF ptrs[t] = <<>> THEN "idle" ELSE "put")
         /\ want' = [want EXCEPT ![t] = 0]
         /\ UNCHANGED owned
    ELSE /\ want' = [want EXCEPT ![t] = @ - 1]
         /\ IF want[t] > 1
            THEN /\ ptrs' = [ptrs EXCEPT ![t] = Append(@, b)]
                 /\ Goto(t, "get")
                 /\ UNCHANGED owned
            ELSE /\ owned' = [owned EXCEPT ![t] = @ \cup Range(ptrs[t]) \cup {b}]
                 /\ ptrs' = [ptrs EXCEPT ![t] = <<>>]
                 /\ Goto(t, "idle")
         /\ UNCHANGED puts

AllocStart(t, n) ==
    /\ pc[t] = "idle"
    /\ want' = [want EXCEPT ![t] = n]
    /\ Goto(t, "get")
    /\ UNCHANGED <<ring, live, h, tl, ptrs, puts, owned>>

GetLoadHead(t) ==
    /\ pc[t] = "get"
    /\ h' = [h EXCEPT ![t] = head]
    /\ Goto(t, "tail")
    /\ UNCHANGED <<ring, live, tl, want, ptrs, puts, owned>>

(* alloc_aligned: a new block, or NULL when memory is exhausted.           *)
Allocate(t) ==
    IF live = Blocks
    THEN Receive(t, NULL) /\ UNCHANGED live
    ELSE \E b \in Blocks \ live :
            /\ \A a \in Blocks \ live : b <= a
            /\ live' = live \cup {b}
            /\ Receive(t, b)

(* The pool counts as empty when head >= tail.                             *)
GetLoadTail(t) ==
    /\ pc[t] = "tail"
    /\ IF h[t] >= tail
       THEN Allocate(t)
       ELSE Goto(t, "cas") /\ UNCHANGED <<live, want, ptrs, puts, owned>>
    /\ UNCHANGED <<ring, h, tl>>

(* Mutant: head is stored without the comparison.                          *)
GetClaimStore(t) ==
    /\ pc[t] = "cas"
    /\ head' = Inc(h[t])
    /\ Goto(t, "read")
    /\ UNCHANGED <<blocks, tail, count, live, h, tl, want, ptrs, puts, owned>>

GetClaim(t) ==
    /\ pc[t] = "cas"
    /\ head = h[t]
    /\ head' = Inc(h[t])
    /\ Goto(t, "read")
    /\ UNCHANGED <<blocks, tail, count, live, h, tl, want, ptrs, puts, owned>>

GetClaimFails(t) ==
    /\ pc[t] = "cas"
    /\ Goto(t, "get")
    /\ UNCHANGED <<ring, live, h, tl, want, ptrs, puts, owned>>

GetRead(t) ==
    /\ pc[t] = "read"
    /\ Receive(t, blocks[Slot(h[t])])
    /\ UNCHANGED <<ring, live, h, tl>>

-----------------------------------------------------------------------------
(* mev_free_tx, _calldata, _result and mev_free_batch: the caller gives up *)
(* some of its blocks, and each of them is put in turn.                    *)
FreeStart(t, B) ==
    /\ pc[t] = "idle"
    /\ B # {} /\ B \subseteq owned[t]
    /\ owned' = [owned EXCEPT ![t] = @ \ B]
    /\ puts' = [puts EXCEPT ![t] = SetToSeq(B)]
    /\ Goto(t, "put")
    /\ UNCHANGED <<ring, live, h, tl, want, ptrs>>

NextPut(t) ==
    /\ puts' = [puts EXCEPT ![t] = Tail(@)]
    /\ Goto(t, IF Len(puts[t]) > 1 THEN "put" ELSE "idle")

(* The test of count, which only pool_init changes, then the load of tail. *)
PutLoadTail(t) ==
    /\ pc[t] = "put"
    /\ IF count >= MaxBlocks
       THEN /\ live' = live \ {Head(puts[t])}
            /\ NextPut(t)
            /\ UNCHANGED tl
       ELSE /\ tl' = [tl EXCEPT ![t] = tail]
            /\ Goto(t, "bump")
            /\ UNCHANGED <<live, puts>>
    /\ UNCHANGED <<ring, h, want, ptrs, owned>>

PutClaim(t) ==
    /\ pc[t] = "bump"
    /\ tail = tl[t]
    /\ tail' = Inc(tl[t])
    /\ Goto(t, "store")
    /\ UNCHANGED <<blocks, head, count, live, h, tl, want, ptrs, puts, owned>>

PutClaimFails(t) ==
    /\ pc[t] = "bump"
    /\ tl' = [tl EXCEPT ![t] = tail]
    /\ UNCHANGED <<ring, live, pc, h, want, ptrs, puts, owned>>

PutWrite(t) ==
    /\ pc[t] = "store"
    /\ blocks' = [blocks EXCEPT ![Slot(tl[t])] = Head(puts[t])]
    /\ NextPut(t)
    /\ UNCHANGED <<head, tail, count, live, h, tl, want, ptrs, owned>>

-----------------------------------------------------------------------------
GetStep(t) == GetLoadHead(t) \/ GetLoadTail(t) \/ GetClaim(t) \/ GetClaimFails(t) \/ GetRead(t)
PutStep(t) == PutLoadTail(t) \/ PutClaim(t) \/ PutClaimFails(t) \/ PutWrite(t)

Next ==
    \/ \E t \in Threads : (\E n \in 1 .. MaxBatch : AllocStart(t, n)) \/ GetStep(t) \/ PutStep(t)
    \/ \E t \in Threads : \E B \in SUBSET owned[t] : FreeStart(t, B)

Spec == Init /\ [][Next]_vars

(* The use for which the pool is sound: single gets may overlap, but a     *)
(* free, or a batch, which may have to put blocks back, runs alone.        *)
Exclusive(t) == puts[t] # <<>> \/ want[t] + Len(ptrs[t]) > 1
Alone(t)     == \A u \in Threads \ {t} : pc[u] = "idle"

SerialNext ==
    \/ \E t \in Threads : GetStep(t) \/ PutStep(t)
    \/ \E t \in Threads : (\A u \in Threads : ~Exclusive(u)) /\ AllocStart(t, 1)
    \/ \E t \in Threads : Alone(t) /\ \E n \in 2 .. MaxBatch : AllocStart(t, n)
    \/ \E t \in Threads : Alone(t) /\ \E B \in SUBSET owned[t] : FreeStart(t, B)

SerialSpec == Init /\ [][SerialNext]_vars

-----------------------------------------------------------------------------
(* mev_pool_stats: the number of tickets between the cursors.              *)
Available == (tail - head) % UIntModulus

(* The tickets whose put has moved tail and not stored its block yet, and  *)
(* the blocks in the ring under the other tickets.                         *)
Unwritten == {tl[t] : t \in {u \in Threads : pc[u] = "store"}}
Pooled    ==
    LET tickets == {(head + i) % UIntModulus : i \in 0 .. Available - 1} \ Unwritten
    IN  {blocks[Slot(n)] : n \in tickets}

(* The blocks a thread has in hand: owned, in a running batch, claimed but *)
(* not yet read, or still to be put.                                       *)
Claimed(t) == IF pc[t] = "read" THEN {blocks[Slot(h[t])]} ELSE {}
InHand(t)  == owned[t] \cup Range(ptrs[t]) \cup Range(puts[t]) \cup Claimed(t)

(* The variables have their types.                                         *)
TypeOK ==
    /\ blocks \in [0 .. MaxBlocks - 1 -> Blocks \cup {NULL}]
    /\ {head, tail} \subseteq 0 .. UIntModulus - 1
    /\ count \in 0 .. MaxBlocks
    /\ live \subseteq Blocks
    /\ \A t \in Threads :
        /\ pc[t] \in {"idle", "get", "tail", "cas", "read", "put", "bump", "store"}
        /\ {h[t], tl[t]} \subseteq 0 .. UIntModulus - 1
        /\ owned[t] \subseteq Blocks
        /\ pc[t] \in {"put", "bump", "store"} <=> puts[t] # <<>>

(* A block is handed to one caller at a time, and to none while it is in   *)
(* the ring: pool_get never returns what another caller still uses.        *)
OneOwner ==
    /\ \A t, u \in Threads : t # u => InHand(t) \cap InHand(u) = {}
    /\ \A t \in Threads : InHand(t) \cap Pooled = {}

(* No block is lost: what the allocator has handed out is in the ring or   *)
(* in the hands of a caller.                                               *)
NoBlockLost == live \subseteq Pooled \cup UNION {InHand(t) : t \in Threads}

(* Every block of the allocator is in exactly one place, however gets      *)
(* overlap, cursors wrap and batches are rolled back.                      *)
PoolInv == TypeOK /\ OneOwner /\ NoBlockLost

(* "consumers never observe a slot with a stale/NULL pointer": a claimed   *)
(* slot holds a block that no other caller has.                            *)
ClaimedSlotIsFresh ==
    \A t \in Threads : pc[t] = "read" =>
        /\ blocks[Slot(h[t])] # NULL
        /\ \A u \in Threads : blocks[Slot(h[t])] \notin owned[u]
=============================================================================
