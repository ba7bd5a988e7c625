---------------------------- MODULE RelayManager ----------------------------
(***************************************************************************)
(* network/internal/relay: Manager.SubmitBundle with its three strategies  *)
(* (multi.go) over relay clients whose SendBundle retries (flashbots.go).  *)
(* One call is made at a time; the goroutines of a race outlive their call.*)
(* A relay may hold a bundle although the client never saw its answer.     *)
(***************************************************************************)
EXTENDS Integers, Sequences, FiniteSets, Functions

CONSTANTS
    Relays,       \* Manager.relays, a sequence
    Primary,      \* Manager.primary
    MaxRetries,   \* Config.MaxRetries
    Answers,      \* the kinds of answer the relays give
    MaxCalls      \* bound: calls of SubmitBundle

Names == Range(Relays)

(* Relays have different names, and AddRelay appends the primary too.      *)
ASSUME RelayAssumption ==
    /\ Relays \in Seq(Names) /\ IsInjective(Relays) /\ Primary \in Names
    /\ MaxRetries \in Nat /\ MaxCalls \in Nat
    /\ Answers \subseteq {"accepted", "refused", "rejected", "empty"}

Calls == 1 .. MaxCalls

Strategies == {"race", "primary", "all"}

VARIABLES
    strategy,    \* Manager.strategy, never changed
    call,        \* the calls started
    busy,        \* SubmitBundle is running
    expired,     \* expired[c]: the context of call c is done
    sender,      \* sender[c][r]: SendBundle of relay r for call c
    posted,      \* posted[c][r]: a request has left for the relay
    holds,       \* external: holds[c][r]: the relay has accepted the bundle
    resultChan,  \* resultChan[c]: results not yet received, by relay
    results,     \* results[c]: the relays whose result was collected
    answer,      \* answer[c]: what SubmitBundle returned
    submitted, succeeded, failed,   \* the atomic counters
    panicked

vars == <<strategy, call, busy, expired, sender, posted, holds, resultChan, results, answer,
          submitted, succeeded, failed, panicked>>
counters == <<submitted, succeeded, failed>>

Init ==
    /\ strategy \in Strategies
    /\ call = 0 /\ busy = FALSE
    /\ expired = [c \in Calls |-> FALSE]
    /\ sender = [c \in Calls |-> [r \in Names |-> [at |-> "none", attempt |-> 0, ok |-> FALSE]]]
    /\ posted = [c \in Calls |-> [r \in Names |-> FALSE]]
    /\ holds = [c \in Calls |-> [r \in Names |-> FALSE]]
    /\ resultChan = [c \in Calls |-> <<>>]
    /\ results = [c \in Calls |-> <<>>]
    /\ answer = [c \in Calls |-> "none"]
    /\ submitted = 0 /\ succeeded = 0 /\ failed = 0
    /\ panicked = FALSE

(* The order of submitPrimary: the primary, then the others as added.      *)
Failover ==
    LET p == CHOOSE i \in DOMAIN Relays : Relays[i] = Primary
    IN  [i \in DOMAIN Relays |-> IF i = 1 THEN Primary
                                 ELSE Relays[IF i <= p THEN i - 1 ELSE i]]

Start(c, R) ==
    sender' = [sender EXCEPT ![c] = [r \in Names |->
                  IF r \in R THEN [at |-> "ready", attempt |-> 0, ok |-> FALSE]
                             ELSE sender[c][r]]]

SubmitBundle ==
    /\ ~busy /\ call < MaxCalls
    /\ call' = call + 1
    /\ busy' = TRUE
    /\ submitted' = submitted + 1
    /\ Start(call', IF strategy = "primary" THEN {Failover[1]} ELSE Names)
    /\ UNCHANGED <<strategy, expired, posted, holds, resultChan, results, answer, succeeded, failed,
                   panicked>>

-----------------------------------------------------------------------------
(* SendBundle: one attempt after another.                                  *)
Post(c, r) ==
    /\ sender[c][r].at = "ready"
    /\ sender' = [sender EXCEPT ![c][r].at = "waiting"]
    /\ posted' = [posted EXCEPT ![c][r] = @ \/ ~expired[c]]
    /\ UNCHANGED <<strategy, call, busy, expired, holds, resultChan, results, answer, counters, panicked>>

RelayAccepts(c, r) ==
    /\ "accepted" \in Answers /\ posted[c][r] /\ ~holds[c][r]
    /\ holds' = [holds EXCEPT ![c][r] = TRUE]
    /\ UNCHANGED <<strategy, call, busy, expired, sender, posted, resultChan, results, answer, counters,
                   panicked>>

(* SendBundle returns, and with it its loop variable.                      *)
Ends(c, r, ok) ==
    sender' = [sender EXCEPT ![c][r] = [at |-> "deliver", attempt |-> 0, ok |-> ok]]

(* No answer, or a status other than 200: the next attempt, up to the      *)
(* limit, whether or not the context is done.                              *)
AttemptFails(c, r) ==
    /\ sender[c][r].at = "waiting"
    /\ "refused" \in Answers \/ expired[c]
    /\ IF sender[c][r].attempt < MaxRetries
       THEN sender' = [sender EXCEPT ![c][r].at = "ready", ![c][r].attempt = @ + 1]
       ELSE Ends(c, r, FALSE)
    /\ UNCHANGED <<strategy, call, busy, expired, posted, holds, resultChan, results, answer,
                   counters, panicked>>

(* A 200 answer: a result, an error, or neither, where result.Result is    *)
(* nil and dereferenced.                                                   *)
AttemptAnswered(c, r) ==
    /\ sender[c][r].at = "waiting" /\ posted[c][r] /\ ~expired[c]
    /\ \/ holds[c][r] /\ Ends(c, r, TRUE) /\ UNCHANGED panicked
       \/ "rejected" \in Answers /\ Ends(c, r, FALSE) /\ UNCHANGED panicked
       \/ "empty" \in Answers /\ panicked' = TRUE /\ UNCHANGED sender
    /\ UNCHANGED <<strategy, call, busy, expired, posted, holds, resultChan, results, answer, counters>>

(* The timeout of the call, or its caller's.                               *)
Expire(c) ==
    /\ busy /\ c = call /\ ~expired[c]
    /\ expired' = [expired EXCEPT ![c] = TRUE]
    /\ UNCHANGED <<strategy, call, busy, sender, posted, holds, resultChan, results, answer, counters,
                   panicked>>

-----------------------------------------------------------------------------
(* Mutant: the channel has no buffer, a result needs a receiver.           *)
DeliverUnbuffered(c, r) ==
    /\ sender[c][r].at = "deliver"
    /\ busy /\ c = call /\ resultChan[c] = <<>>
    /\ sender' = [sender EXCEPT ![c][r].at = "done"]
    /\ resultChan' = [resultChan EXCEPT ![c] = Append(@, r)]
    /\ UNCHANGED <<strategy, call, busy, expired, posted, holds, results, answer, counters, panicked>>

(* The result goes to the channel of the race, which has room for all, or  *)
(* to the caller.                                                          *)
Deliver(c, r) ==
    /\ sender[c][r].at = "deliver"
    /\ Len(resultChan[c]) < Len(Relays)
    /\ sender' = [sender EXCEPT ![c][r].at = "done"]
    /\ resultChan' = [resultChan EXCEPT ![c] = Append(@, r)]
    /\ UNCHANGED <<strategy, call, busy, expired, posted, holds, results, answer, counters, panicked>>

(* The end of a call: its counter, its answer, and the deferred cancel.    *)
Return(err, success) ==
    /\ busy' = FALSE
    /\ answer' = [answer EXCEPT ![call] = IF err THEN "error" ELSE "ok"]
    /\ succeeded' = IF success THEN succeeded + 1 ELSE succeeded
    /\ failed' = IF success THEN failed ELSE failed + 1
    /\ expired' = [expired EXCEPT ![call] = TRUE]
    /\ UNCHANGED <<strategy, call, posted, holds, submitted, panicked>>

Continue == UNCHANGED <<strategy, call, busy, posted, holds, answer, counters, expired, panicked>>

Collect(r) ==
    /\ busy /\ resultChan[call] # <<>> /\ r = Head(resultChan[call])
    /\ resultChan' = [resultChan EXCEPT ![call] = Tail(@)]
    /\ results' = [results EXCEPT ![call] = Append(@, r)]

(* submitRace: the first success returns, and its deferred cancel ends the *)
(* context of the others.                                                  *)
RaceReceives(r) ==
    /\ strategy = "race" /\ Collect(r)
    /\ UNCHANGED sender
    /\ IF sender[call][r].ok THEN Return(FALSE, TRUE)
       ELSE IF Len(results[call]) + 1 = Len(Relays) THEN Return(TRUE, FALSE) ELSE Continue

(* Mutant: the failover goes on after a success.                           *)
PrimaryContinues(r) ==
    /\ strategy = "primary" /\ Collect(r)
    /\ IF Len(results[call]) + 1 < Len(Failover)
       THEN Start(call, {Failover[Len(results[call]) + 2]}) /\ Continue
       ELSE UNCHANGED sender /\ Return(~sender[call][r].ok, sender[call][r].ok)

(* submitPrimary: one relay after the other until one succeeds.            *)
PrimaryReceives(r) ==
    /\ strategy = "primary" /\ Collect(r)
    /\ IF sender[call][r].ok THEN UNCHANGED sender /\ Return(FALSE, TRUE)
       ELSE IF Len(results[call]) + 1 = Len(Failover)
       THEN UNCHANGED sender /\ Return(TRUE, FALSE)
       ELSE Start(call, {Failover[Len(results[call]) + 2]}) /\ Continue

(* Mutant: submitAll, which returns no error, is counted as a success.     *)
AllCounted(r) ==
    /\ strategy = "all" /\ Collect(r)
    /\ UNCHANGED sender
    /\ IF Len(results[call]) + 1 = Len(Relays) THEN Return(FALSE, TRUE) ELSE Continue

(* submitAll: every result is collected, and no error is returned.         *)
AllReceives(r) ==
    /\ strategy = "all" /\ Collect(r)
    /\ UNCHANGED sender
    /\ IF Len(results[call]) + 1 = Len(Relays)
       THEN Return(FALSE, \E n \in Names : sender[call][n].ok)
       ELSE Continue

Attempt(c, r) == Post(c, r) \/ AttemptFails(c, r) \/ AttemptAnswered(c, r)
Receive == \E r \in Names : RaceReceives(r) \/ PrimaryReceives(r) \/ AllReceives(r)

Next ==
    /\ ~panicked
    /\ \/ SubmitBundle \/ Receive
       \/ \E c \in Calls : Expire(c)
       \/ \E c \in Calls, r \in Names : Attempt(c, r) \/ Deliver(c, r) \/ RelayAccepts(c, r)

Spec == Init /\ [][Next]_vars

(* The HTTP client's timeout ends every attempt; goroutines run, until a   *)
(* panic ends the process.                                                 *)
Sender(c, r) == Attempt(c, r) \/ Deliver(c, r)
FairSpec ==
    /\ Spec
    /\ WF_vars(~panicked /\ Receive)
    /\ WF_vars(~panicked /\ \E c \in Calls : Expire(c))
    /\ \A c \in Calls, r \in Names : WF_vars(~panicked /\ Sender(c, r))

-----------------------------------------------------------------------------
(* A call that has returned; the relays that have reported to a call, in   *)
(* the order of their reports; and, for the failover, how many relays a    *)
(* call has tried.                                                         *)
Returned(c) == c < call \/ (c = call /\ ~busy)
Reported(c) == results[c] \o resultChan[c]
Tried(c)    == Len(results[c]) + IF c = call /\ busy THEN 1 ELSE 0

(* The variables have their types; a result is ok only once it is there.   *)
TypeOK ==
    /\ strategy \in Strategies
    /\ call \in 0 .. MaxCalls /\ busy \in BOOLEAN /\ (busy => call > 0)
    /\ {submitted, succeeded, failed} \subseteq 0 .. MaxCalls
    /\ sender \in [Calls -> [Names -> [at : {"none", "ready", "waiting", "deliver", "done"},
                                       attempt : 0 .. MaxRetries, ok : BOOLEAN]]]
    /\ posted \in [Calls -> [Names -> BOOLEAN]] /\ holds \in [Calls -> [Names -> BOOLEAN]]
    /\ expired \in [Calls -> BOOLEAN]
    /\ resultChan \in [Calls -> Seq(Names)] /\ results \in [Calls -> Seq(Names)]
    /\ answer \in [Calls -> {"none", "ok", "error"}]

(* Every call is counted once: as a success, a failure, or as running.     *)
BooksBalance ==
    /\ submitted = call
    /\ submitted = succeeded + failed + IF busy THEN 1 ELSE 0

(* A call has an answer when it has returned and not before, nothing has   *)
(* happened for the calls to come, and the running call still waits for a  *)
(* relay.                                                                  *)
CallInv ==
    \A c \in Calls :
        /\ answer[c] # "none" <=> Returned(c)
        /\ c > call => /\ results[c] = <<>> /\ resultChan[c] = <<>>
                       /\ \A r \in Names : sender[c][r].at = "none"
        /\ Tried(c) <= Len(Relays)

(* A relay that is done has reported, once; what it reports as a success   *)
(* it holds; and a race or a failover goes on only while all have failed.  *)
ReportsRight(c) ==
    /\ IsInjective(Reported(c))
    /\ \A r \in Names :
        /\ sender[c][r].at = "done" <=> r \in Range(Reported(c))
        /\ sender[c][r].ok => sender[c][r].at \in {"deliver", "done"} /\ holds[c][r]
    /\ c = call /\ busy /\ strategy # "all" => \A r \in Range(results[c]) : ~sender[c][r].ok
ReportInv == \A c \in Calls : ReportsRight(c)

(* A failover has tried the first relays of its order, all but the last of *)
(* them have failed, and at most the last has a result to be received.     *)
TriedInOrder(c) ==
    /\ Len(Reported(c)) <= Tried(c)
    /\ \A i \in 1 .. Len(Reported(c)) : Reported(c)[i] = Failover[i]
    /\ \A i \in 1 .. Len(Relays) :
        /\ sender[c][Failover[i]].at = "none" <=> i > Tried(c)
        /\ i < Tried(c) => sender[c][Failover[i]].at = "done" /\ ~sender[c][Failover[i]].ok
OrderInv == strategy = "primary" => \A c \in Calls : TriedInOrder(c)

(* The inductive invariant of the manager.                                 *)
RelayInd == TypeOK /\ BooksBalance /\ CallInv /\ ReportInv /\ OrderInv

(* With the failover strategy a relay is tried only after all before it    *)
(* have failed, so that one relay at most reports the bundle accepted.     *)
FailoverInOrder ==
    strategy = "primary" => \A c \in Calls : \A i, j \in 1 .. Len(Failover) :
        i < j /\ sender[c][Failover[j]].at # "none" =>
            sender[c][Failover[i]].at = "done" /\ ~sender[c][Failover[i]].ok

(* The books of SubmitBundle are right with every strategy: each call is   *)
(* counted once, every relay reports once, and a failover goes on only     *)
(* from a failure.                                                         *)
RelayInv == RelayInd /\ FailoverInOrder

(* A success is real: the calls counted as successes are those that        *)
(* returned with the result of a relay that holds the bundle.              *)
Won(c) == answer[c] # "none" /\ \E r \in Range(results[c]) : sender[c][r].ok /\ holds[c][r]
SuccessIsHeld == succeeded = Cardinality({c \in Calls : Won(c)})

(* Every call returns and every SendBundle it started ends, those of a     *)
(* race that was already won included: as the calls are bounded, a time    *)
(* comes after which nothing runs (or a panic has ended the process).      *)
SendersEnd == <>[](\/ panicked
                   \/ ~busy /\ \A c \in Calls, r \in Names :
                                 sender[c][r].at \in {"none", "done"})
=============================================================================
