---------------------------- MODULE BoundedFifo ----------------------------
(***************************************************************************)
(* What the opportunity queue of fast/src/lockfree_queue.c promises its    *)
(* callers.  The queue is an immutable log of the items it has accepted    *)
(* and a count of those it has handed out: items leave exactly once, in    *)
(* the order they were accepted.  A call is in progress between the moment *)
(* it takes effect and the moment it returns, and only calls in progress   *)
(* excuse an answer of "full" or "empty" that the log does not justify.    *)
(***************************************************************************)
EXTENDS Naturals, Sequences

CONSTANTS Producers, Consumers, Items, Capacity, NoItem

VARIABLES
    accepted,   \* every item accepted so far, in order
    taken,      \* how many of them have been handed out
    out,        \* out[c]: the item the latest successful pop of c obtained
    writing,    \* producers whose item is accepted and whose push still runs
    reading,    \* consumers that have taken an item and whose pop still runs
    answer      \* answer[t]: what the latest call of thread t returned

vars == <<accepted, taken, out, writing, reading, answer>>

Init ==
    /\ accepted = <<>>
    /\ taken = 0
    /\ out = [c \in Consumers |-> NoItem]
    /\ writing = {}
    /\ reading = {}
    /\ answer = [t \in Producers \cup Consumers |-> "none"]

(* A thread enters a call: its previous answer is history.                 *)
Call(t) ==
    /\ t \notin writing \cup reading
    /\ answer' = [answer EXCEPT ![t] = "none"]
    /\ UNCHANGED <<accepted, taken, out, writing, reading>>

(* A push takes effect: there is room and the item joins the log.          *)
Accept(p, v) ==
    /\ p \notin writing
    /\ Len(accepted) - taken < Capacity
    /\ accepted' = Append(accepted, v)
    /\ writing' = writing \cup {p}
    /\ UNCHANGED <<taken, out, reading, answer>>

PushReturns(p) ==
    /\ p \in writing
    /\ writing' = writing \ {p}
    /\ answer' = [answer EXCEPT ![p] = "ok"]
    /\ UNCHANGED <<accepted, taken, out, reading>>

(* A push may report "full" when the queue holds Capacity items, or while  *)
(* a pop that took the oldest item has not yet given its slot back.        *)
PushRefused(p) ==
    /\ p \notin writing
    /\ \/ Len(accepted) - taken = Capacity
       \/ reading # {}
    /\ answer' = [answer EXCEPT ![p] = "full"]
    /\ UNCHANGED <<accepted, taken, out, writing, reading>>

(* A pop takes effect: it obtains the oldest item not yet handed out.      *)
Take(c) ==
    /\ c \notin reading
    /\ taken < Len(accepted)
    /\ out' = [out EXCEPT ![c] = accepted[taken + 1]]
    /\ taken' = taken + 1
    /\ reading' = reading \cup {c}
    /\ UNCHANGED <<accepted, writing, answer>>

PopReturns(c) ==
    /\ c \in reading
    /\ reading' = reading \ {c}
    /\ answer' = [answer EXCEPT ![c] = "item"]
    /\ UNCHANGED <<accepted, taken, out, writing>>

(* A pop may report "empty" when every accepted item has been handed out,  *)
(* or while the push that owns the oldest one has not yet returned.        *)
PopRefused(c) ==
    /\ c \notin reading
    /\ \/ taken = Len(accepted)
       \/ writing # {}
    /\ answer' = [answer EXCEPT ![c] = "empty"]
    /\ UNCHANGED <<accepted, taken, out, writing, reading>>

Next ==
    \/ \E t \in Producers \cup Consumers : Call(t)
    \/ \E p \in Producers :
          \/ \E v \in Items : Accept(p, v)
          \/ PushReturns(p)
          \/ PushRefused(p)
    \/ \E c \in Consumers :
          \/ Take(c)
          \/ PopReturns(c)
          \/ PopRefused(c)

Spec == Init /\ [][Next]_vars
=============================================================================
