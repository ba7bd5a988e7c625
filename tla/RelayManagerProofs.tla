------------------------- MODULE RelayManagerProofs -------------------------
(***************************************************************************)
(* The invariant of the relay manager, for any relays, any number of       *)
(* retries and any number of calls: the books of SubmitBundle balance,     *)
(* every relay reports once and as a success only what it holds, and a     *)
(* failover goes on only from a failure.  The last section counts the      *)
(* successes.                                                              *)
(***************************************************************************)
EXTENDS RelayManager, TLAPS

-----------------------------------------------------------------------------
(* Sequences.                                                              *)

(* What the length of a sequence, its append and its concatenation are.    *)
LEMMA LenProperties ==
    ASSUME NEW S, NEW s \in Seq(S)
    PROVE  Len(s) \in Nat /\ DOMAIN s = 1 .. Len(s) /\ \A i \in 1 .. Len(s) : s[i] \in S
  OBVIOUS

LEMMA AppendProperties ==
    ASSUME NEW S, NEW s \in Seq(S), NEW x \in S
    PROVE  /\ Append(s, x) \in Seq(S) /\ Len(Append(s, x)) = Len(s) + 1
           /\ \A i \in 1 .. Len(s) : Append(s, x)[i] = s[i]
           /\ Append(s, x)[Len(s) + 1] = x
  OBVIOUS

LEMMA ConcatProperties ==
    ASSUME NEW S, NEW s \in Seq(S), NEW t \in Seq(S)
    PROVE  /\ s \o t \in Seq(S) /\ Len(s \o t) = Len(s) + Len(t)
           /\ \A i \in 1 .. Len(s \o t) :
                (s \o t)[i] = IF i <= Len(s) THEN s[i] ELSE t[i - Len(s)]
  OBVIOUS

LEMMA RangeConcatenation ==
    ASSUME NEW S, NEW s \in Seq(S), NEW t \in Seq(S)
    PROVE  Range(s) \subseteq Range(s \o t) /\ Range(t) \subseteq Range(s \o t)
  <1>1. /\ Len(s) \in Nat /\ Len(t) \in Nat /\ DOMAIN s = 1 .. Len(s) /\ DOMAIN t = 1 .. Len(t)
        /\ DOMAIN (s \o t) = 1 .. (Len(s) + Len(t))
        /\ \A i \in 1 .. (Len(s) + Len(t)) :
              (s \o t)[i] = IF i <= Len(s) THEN s[i] ELSE t[i - Len(s)]
    BY ConcatProperties, LenProperties
  <1> DEFINE m == Len(s)  n == Len(t)
  <1> HIDE DEF m, n
  <1>2. \A i \in 1 .. m : i \in 1 .. (m + n) /\ i <= m
    BY <1>1 DEF m, n
  <1>3. \A i \in 1 .. n : m + i \in 1 .. (m + n) /\ ~ (m + i <= m) /\ (m + i) - m = i
    BY <1>1 DEF m, n
  <1>4. \A i \in 1 .. m : (s \o t)[i] = s[i] /\ i \in DOMAIN (s \o t)
    BY <1>1, <1>2 DEF m, n
  <1>5. \A i \in 1 .. n : (s \o t)[m + i] = t[i] /\ m + i \in DOMAIN (s \o t)
    BY <1>1, <1>3 DEF m, n
  <1>6. ASSUME NEW x \in Range(s) PROVE x \in Range(s \o t)
    <2>1. PICK i \in 1 .. m : x = s[i]
      BY <1>1 DEF Range, m
    <2> QED BY <1>4, <2>1 DEF Range
  <1>7. ASSUME NEW x \in Range(t) PROVE x \in Range(s \o t)
    <2>1. PICK i \in 1 .. n : x = t[i]
      BY <1>1 DEF Range, n
    <2> QED BY <1>5, <2>1 DEF Range
  <1> QED BY <1>6, <1>7

(* What an appended element adds to the range.                             *)
LEMMA RangeAppend ==
    ASSUME NEW S, NEW s \in Seq(S), NEW x \in S
    PROVE  Range(Append(s, x)) = Range(s) \cup {x}
  <1>1. /\ Append(s, x) \in Seq(S) /\ Len(Append(s, x)) = Len(s) + 1 /\ Len(s) \in Nat
        /\ \A i \in 1 .. Len(s) : Append(s, x)[i] = s[i]
        /\ Append(s, x)[Len(s) + 1] = x
    BY AppendProperties, LenProperties
  <1>2. Range(Append(s, x)) = {Append(s, x)[i] : i \in 1 .. Len(s) + 1}
    BY <1>1, LenProperties DEF Range
  <1>3. Range(s) = {s[i] : i \in 1 .. Len(s)}
    BY LenProperties DEF Range
  <1>4. \A i \in 1 .. Len(s) + 1 : i \in 1 .. Len(s) \/ i = Len(s) + 1
    BY <1>1
  <1>5. \A i \in 1 .. Len(s) : i \in 1 .. Len(s) + 1
    BY <1>1
  <1>6. Len(s) + 1 \in 1 .. Len(s) + 1
    BY <1>1
  <1> QED BY <1>1, <1>2, <1>3, <1>4, <1>5, <1>6

(* An element that is not there yet may be appended to an injection.       *)
LEMMA InjectiveAppend ==
    ASSUME NEW S, NEW s \in Seq(S), NEW x \in S, IsInjective(s), x \notin Range(s)
    PROVE  IsInjective(Append(s, x))
  <1>1. /\ DOMAIN Append(s, x) = 1 .. Len(s) + 1 /\ DOMAIN s = 1 .. Len(s) /\ Len(s) \in Nat
        /\ \A i \in 1 .. Len(s) : Append(s, x)[i] = s[i]
        /\ Append(s, x)[Len(s) + 1] = x
    BY AppendProperties, LenProperties
  <1>2. \A i \in 1 .. Len(s) : s[i] # x
    BY <1>1 DEF Range
  <1>3. \A i \in 1 .. Len(s) + 1 : i \in 1 .. Len(s) \/ i = Len(s) + 1
    BY <1>1
  <1> QED BY <1>1, <1>2, <1>3 DEF IsInjective

(* Moving the head of a channel to the end of a log keeps their concatenation. *)
LEMMA MoveHead ==
    ASSUME NEW S, NEW s \in Seq(S), NEW t \in Seq(S), t # <<>>
    PROVE  Append(s, Head(t)) \o Tail(t) = s \o t
  OBVIOUS

LEMMA AppendRight ==
    ASSUME NEW S, NEW s \in Seq(S), NEW t \in Seq(S), NEW x \in S
    PROVE  s \o Append(t, x) = Append(s \o t, x)
  OBVIOUS

-----------------------------------------------------------------------------
(* The order of the failover.                                              *)

(* Failover is a permutation of the relays with the primary first.         *)
LEMMA FailoverIsOrder ==
    /\ Len(Relays) \in Nat \ {0} /\ DOMAIN Failover = 1 .. Len(Relays)
    /\ Len(Failover) = Len(Relays)
    /\ \A i \in 1 .. Len(Relays) : Failover[i] \in Names
    /\ \A i, j \in 1 .. Len(Relays) : Failover[i] = Failover[j] => i = j
    /\ \A r \in Names : \E i \in 1 .. Len(Relays) : Failover[i] = r
  <1> DEFINE n == Len(Relays)
             p == CHOOSE i \in DOMAIN Relays : Relays[i] = Primary
  <1>1. n \in Nat /\ DOMAIN Relays = 1 .. n
    BY RelayAssumption, LenProperties
  <1>2. p \in 1 .. n /\ Relays[p] = Primary
    BY <1>1, RelayAssumption DEF Names, Range
  <1>3. Failover = [i \in 1 .. n |-> IF i = 1 THEN Primary ELSE Relays[IF i <= p THEN i - 1 ELSE i]]
    BY <1>1 DEF Failover
  <1>4. \A i, j \in 1 .. n : Relays[i] = Relays[j] => i = j
    BY <1>1, RelayAssumption DEF IsInjective
  <1>5. \A i \in 1 .. n : Relays[i] \in Names
    BY <1>1 DEF Names, Range
  <1>6. \A r \in Names : \E i \in 1 .. n : Relays[i] = r
    BY <1>1 DEF Names, Range
  <1> HIDE DEF n, p
  <1>7. n \in Nat \ {0} /\ DOMAIN Failover = 1 .. n
    BY <1>1, <1>2, <1>3
  <1>8. Len(Failover) = n
    BY <1>1, <1>7
  <1>9. \A i \in 1 .. n : Failover[i] \in Names
    BY <1>1, <1>2, <1>3, <1>5
  <1>10. \A i, j \in 1 .. n : Failover[i] = Failover[j] => i = j
    BY <1>1, <1>2, <1>3, <1>4
  <1>11. ASSUME NEW r \in Names PROVE \E i \in 1 .. n : Failover[i] = r
    <2>1. PICK j \in 1 .. n : Relays[j] = r
      BY <1>6
    <2>2. CASE j = p
      <3>1. 1 \in 1 .. n /\ Failover[1] = r
        BY <2>1, <2>2, <1>1, <1>2, <1>3
      <3> QED BY <3>1
    <2>3. CASE j < p
      <3>1. j + 1 \in 1 .. n /\ Failover[j + 1] = r
        BY <2>1, <2>3, <1>1, <1>2, <1>3
      <3> QED BY <3>1
    <2>4. CASE j > p
      BY <2>1, <2>4, <1>1, <1>2, <1>3
    <2> QED BY <2>2, <2>3, <2>4, <1>1, <1>2
  <1> QED BY <1>7, <1>8, <1>9, <1>10, <1>11 DEF n

-----------------------------------------------------------------------------
(* The inductive invariant.                                                *)

(* The facts on types that most steps need.                                *)
LEMMA RelayTypes ==
    ASSUME TypeOK
    PROVE  /\ MaxCalls \in Nat /\ Calls \subseteq Nat /\ call \in Nat /\ call <= MaxCalls
           /\ \A c \in Calls : results[c] \in Seq(Names) /\ resultChan[c] \in Seq(Names)
           /\ \A c \in Calls : Len(results[c]) \in Nat /\ Len(resultChan[c]) \in Nat
           /\ \A c \in Calls : Reported(c) \in Seq(Names)
           /\ \A c \in Calls : Len(Reported(c)) = Len(results[c]) + Len(resultChan[c])
           /\ \A c \in Calls : Tried(c) = Len(results[c]) + (IF c = call /\ busy THEN 1 ELSE 0)
           /\ \A c \in Calls : Tried(c) \in Nat
  <1>1. /\ MaxCalls \in Nat /\ Calls \subseteq Nat /\ call \in Nat /\ call <= MaxCalls
        /\ \A c \in Calls : results[c] \in Seq(Names) /\ resultChan[c] \in Seq(Names)
        /\ \A c \in Calls : Len(results[c]) \in Nat /\ Len(resultChan[c]) \in Nat
    <2>1. MaxCalls \in Nat /\ Calls \subseteq Nat /\ call \in Nat /\ call <= MaxCalls
      BY RelayAssumption DEF TypeOK, Calls
    <2>2. \A c \in Calls : results[c] \in Seq(Names) /\ resultChan[c] \in Seq(Names)
      BY Zenon DEF TypeOK
    <2>3. \A c \in Calls : Len(results[c]) \in Nat /\ Len(resultChan[c]) \in Nat
      BY <2>2, LenProperties, Zenon
    <2> QED BY <2>1, <2>2, <2>3, Zenon
  <1>2. \A c \in Calls : Reported(c) \in Seq(Names)
                         /\ Len(Reported(c)) = Len(results[c]) + Len(resultChan[c])
    BY <1>1 DEF Reported
  <1>3. \A c \in Calls : Tried(c) = Len(results[c]) + (IF c = call /\ busy THEN 1 ELSE 0)
    BY DEF Tried
  <1>4. ASSUME NEW c \in Calls PROVE Tried(c) \in Nat
    <2>1. Len(results[c]) \in Nat
      BY <1>1
    <2>2. Tried(c) = Len(results[c]) + 1 \/ Tried(c) = Len(results[c]) + 0
      BY Zenon, <1>3
    <2> QED BY <2>1, <2>2
  <1> QED BY <1>1, <1>2, <1>3, <1>4, Zenon

(* What was collected has been reported by a relay that is done.           *)
LEMMA ReportedDone ==
    ASSUME TypeOK, ReportInv, NEW c \in Calls
    PROVE  /\ \A r \in Range(results[c]) : r \in Names /\ sender[c][r].at = "done"
           /\ \A r \in Range(resultChan[c]) : r \in Names /\ sender[c][r].at = "done"
  <1>1. results[c] \in Seq(Names) /\ resultChan[c] \in Seq(Names)
    BY RelayTypes
  <1>2. Range(results[c]) \subseteq Range(Reported(c)) /\ Range(resultChan[c]) \subseteq Range(Reported(c))
    BY <1>1, RangeConcatenation DEF Reported
  <1>3. Range(Reported(c)) \subseteq Names
    BY RelayTypes, LenProperties DEF Range
  <1> QED BY <1>2, <1>3 DEF ReportInv, ReportsRight

(* The failover goes in order when its invariant holds.                    *)
LEMMA InOrder == RelayInd => RelayInv
  <1> SUFFICES ASSUME RelayInd, strategy = "primary", NEW c \in Calls, NEW i \in 1 .. Len(Relays),
                      NEW j \in 1 .. Len(Relays), i < j, sender[c][Failover[j]].at # "none"
               PROVE  sender[c][Failover[i]].at = "done" /\ ~sender[c][Failover[i]].ok
    BY FailoverIsOrder DEF FailoverInOrder, RelayInv
  <1>1. Tried(c) \in Nat
    BY RelayTypes DEF RelayInd
  <1>2. ~ (j > Tried(c))
    BY DEF RelayInd, OrderInv, TriedInOrder
  <1>3. i < Tried(c)
    BY <1>1, <1>2
  <1> QED BY <1>3 DEF RelayInd, OrderInv, TriedInOrder

(* A call for which nothing changes.                                       *)
LEMMA OrderFrame ==
    ASSUME NEW c \in Calls, TriedInOrder(c), Reported(c)' = Reported(c), Tried(c)' = Tried(c),
           \A n \in Names : sender'[c][n] = sender[c][n]
    PROVE  TriedInOrder(c)'
  <1>1. \A i \in 1 .. Len(Relays) : sender'[c][Failover[i]] = sender[c][Failover[i]]
    BY FailoverIsOrder, Zenon
  <1> QED BY <1>1 DEF TriedInOrder

(* A sender that has just been started.                                    *)
LEMMA JustStarted ==
    ASSUME NEW s, s = [at |-> "ready", attempt |-> 0, ok |-> FALSE]
    PROVE  s.at = "ready" /\ s.at # "done" /\ s.at # "none" /\ ~s.ok
  OBVIOUS

LEMMA ReportFrame ==
    ASSUME NEW c \in Calls, ReportsRight(c), Reported(c)' = Reported(c),
           \A n \in Names : sender'[c][n] = sender[c][n] /\ holds'[c][n] = holds[c][n],
           c = call' /\ busy' /\ strategy' # "all" =>
              \A n \in Range(results'[c]) : ~sender'[c][n].ok
    PROVE  ReportsRight(c)'
  BY Zenon DEF ReportsRight

LEMMA RelayInit == Init => RelayInd
  <1> SUFFICES ASSUME Init PROVE RelayInd
    OBVIOUS
  <1>1. TypeOK
    <2>1. /\ resultChan \in [Calls -> Seq(Names)] /\ results \in [Calls -> Seq(Names)]
          /\ posted \in [Calls -> [Names -> BOOLEAN]] /\ holds \in [Calls -> [Names -> BOOLEAN]]
      BY DEF Init
    <2>2. sender \in [Calls -> [Names -> [at : {"none", "ready", "waiting", "deliver", "done"},
                                         attempt : 0 .. MaxRetries, ok : BOOLEAN]]]
      BY RelayAssumption DEF Init
    <2>3. call \in 0 .. MaxCalls
      BY RelayAssumption DEF Init
    <2>3c. busy \in BOOLEAN /\ (busy => call > 0)
      BY Zenon DEF Init
    <2>3a. 0 \in 0 .. MaxCalls /\ submitted = 0 /\ succeeded = 0 /\ failed = 0
      BY RelayAssumption DEF Init
    <2>3b. {submitted, succeeded, failed} \subseteq 0 .. MaxCalls
      BY <2>3a
    <2>4. /\ strategy \in Strategies /\ expired \in [Calls -> BOOLEAN]
          /\ answer \in [Calls -> {"none", "ok", "error"}]
      BY DEF Init
    <2> QED BY <2>1, <2>2, <2>3, <2>3b, <2>3c, <2>4 DEF TypeOK
  <1>2. \A c \in Calls : /\ Reported(c) = <<>> /\ results[c] = <<>> /\ resultChan[c] = <<>>
                         /\ Len(Reported(c)) = 0 /\ Range(Reported(c)) = {} /\ Tried(c) = 0
                         /\ Range(results[c]) = {} /\ IsInjective(Reported(c))
    BY DEF Init, Reported, Tried, Range, IsInjective
  <1>3. BooksBalance
    BY DEF Init, BooksBalance
  <1>4. CallInv
    BY <1>2, FailoverIsOrder, RelayAssumption DEF Init, CallInv, Returned, Calls
  <1>5. ReportInv
    BY <1>2 DEF Init, ReportInv, ReportsRight
  <1>6. OrderInv
    BY <1>2, FailoverIsOrder DEF Init, OrderInv, TriedInOrder
  <1> QED BY <1>1, <1>3, <1>4, <1>5, <1>6 DEF RelayInd

(* A step in which some senders go on with their attempts, and relays take *)
(* bundles, keeps the invariant.                                           *)
LEMMA SenderStep ==
    ASSUME RelayInd, TypeOK',
           UNCHANGED <<strategy, call, busy, resultChan, results, answer, counters>>,
           \A c \in Calls, r \in Names :
              \/ sender'[c][r] = sender[c][r]
              \/ /\ sender[c][r].at \in {"ready", "waiting"}
                 /\ sender'[c][r].at \in {"ready", "waiting", "deliver"}
                 /\ sender'[c][r].ok => sender'[c][r].at = "deliver" /\ holds[c][r],
           \A c \in Calls, r \in Names : holds[c][r] => holds'[c][r]
    PROVE  RelayInd'
  <1>1. \A c \in Calls : /\ Reported(c)' = Reported(c) /\ Tried(c)' = Tried(c)
                         /\ Returned(c)' = Returned(c)
    BY DEF Reported, Tried, Returned
  <1>2. \A c \in Calls, r \in Names : /\ sender'[c][r].at = "none" <=> sender[c][r].at = "none"
                                      /\ sender'[c][r].at = "done" <=> sender[c][r].at = "done"
                                      /\ sender[c][r].at = "done" => sender'[c][r] = sender[c][r]
    OBVIOUS
  <1>3. BooksBalance'
    BY Zenon DEF RelayInd, BooksBalance, counters
  <1>4. CallInv'
    BY <1>1, <1>2 DEF RelayInd, CallInv
  <1>5. ReportInv'
    <2> SUFFICES ASSUME NEW c \in Calls
                 PROVE  /\ IsInjective(Reported(c)')
                        /\ \A r \in Names :
                            /\ sender'[c][r].at = "done" <=> r \in Range(Reported(c)')
                            /\ sender'[c][r].ok => sender'[c][r].at \in {"deliver", "done"} /\ holds'[c][r]
                        /\ c = call /\ busy /\ strategy # "all" =>
                              \A r \in Range(results[c]) : ~sender'[c][r].ok
      BY DEF ReportInv, ReportsRight
    <2>1. IsInjective(Reported(c)')
      BY <1>1 DEF RelayInd, ReportInv, ReportsRight
    <2>2. ASSUME NEW r \in Names
          PROVE  /\ sender'[c][r].at = "done" <=> r \in Range(Reported(c)')
                 /\ sender'[c][r].ok => sender'[c][r].at \in {"deliver", "done"} /\ holds'[c][r]
      BY <1>1, <1>2 DEF RelayInd, ReportInv, ReportsRight
    <2>3. \A r \in Range(results[c]) : r \in Names /\ sender[c][r].at = "done"
      BY ReportedDone DEF RelayInd
    <2> QED BY <2>1, <2>2, <2>3, <1>2 DEF RelayInd, ReportInv, ReportsRight
  <1>6. OrderInv'
    BY <1>1, <1>2, FailoverIsOrder DEF RelayInd, OrderInv, TriedInOrder
  <1> QED BY <1>3, <1>4, <1>5, <1>6 DEF RelayInd

(* The types.                                                              *)
SenderStates == [at : {"none", "ready", "waiting", "deliver", "done"},
                 attempt : 0 .. MaxRetries, ok : BOOLEAN]

LEMMA SenderTypes ==
    /\ \A ok \in BOOLEAN : [at |-> "deliver", attempt |-> 0, ok |-> ok] \in SenderStates
    /\ [at |-> "ready", attempt |-> 0, ok |-> FALSE] \in SenderStates
    /\ \A v \in SenderStates : \A a \in {"ready", "waiting", "done"} :
          [v EXCEPT !.at = a] \in SenderStates
    /\ \A v \in SenderStates : v.attempt < MaxRetries =>
          [v EXCEPT !.at = "ready", !.attempt = v.attempt + 1] \in SenderStates
  <1>1. \A ok \in BOOLEAN : [at |-> "deliver", attempt |-> 0, ok |-> ok] \in SenderStates
    BY RelayAssumption DEF SenderStates
  <1>2. [at |-> "ready", attempt |-> 0, ok |-> FALSE] \in SenderStates
    BY RelayAssumption DEF SenderStates
  <1>3. ASSUME NEW v \in SenderStates, NEW a \in {"ready", "waiting", "done"}
        PROVE  [v EXCEPT !.at = a] \in SenderStates
    BY DEF SenderStates
  <1>4. ASSUME NEW v \in SenderStates, v.attempt < MaxRetries
        PROVE  [v EXCEPT !.at = "ready", !.attempt = v.attempt + 1] \in SenderStates
    <2>1. v.attempt + 1 \in 0 .. MaxRetries
      BY <1>4, RelayAssumption DEF SenderStates
    <2> QED BY <2>1, Zenon DEF SenderStates
  <1> QED BY <1>1, <1>2, <1>3, <1>4, Zenon

LEMMA RelayTypeStep == ASSUME RelayInd, [Next]_vars PROVE TypeOK'
  <1> USE RelayAssumption
  <1> DEFINE Control == /\ strategy' \in Strategies
                        /\ busy' \in BOOLEAN /\ (busy' => call' > 0)
             Numbers == /\ call' \in 0 .. MaxCalls /\ submitted' \in 0 .. MaxCalls
                        /\ succeeded' \in 0 .. MaxCalls /\ failed' \in 0 .. MaxCalls
             Tables == /\ posted' \in [Calls -> [Names -> BOOLEAN]]
                       /\ holds' \in [Calls -> [Names -> BOOLEAN]]
                       /\ expired' \in [Calls -> BOOLEAN]
                       /\ resultChan' \in [Calls -> Seq(Names)]
                       /\ results' \in [Calls -> Seq(Names)]
                       /\ answer' \in [Calls -> {"none", "ok", "error"}]
             Table == [Calls -> [Names -> SenderStates]]
  <1>0. Control /\ Numbers /\ Tables /\ sender' \in Table => TypeOK'
    BY DEF TypeOK, SenderStates
  <1>0a. /\ sender \in Table
         /\ strategy \in Strategies /\ busy \in BOOLEAN /\ (busy => call > 0)
         /\ call \in 0 .. MaxCalls /\ submitted \in 0 .. MaxCalls
         /\ succeeded \in 0 .. MaxCalls /\ failed \in 0 .. MaxCalls
    BY DEF RelayInd, TypeOK, SenderStates
  <1>0b. UNCHANGED <<strategy, call, busy, counters>> => Control /\ Numbers
    BY <1>0a DEF counters
  <1>0c. ASSUME NEW c \in Calls, NEW r \in Names, NEW ok \in BOOLEAN, Ends(c, r, ok)
         PROVE  sender' \in Table
    <2> DEFINE v == [at |-> "deliver", attempt |-> 0, ok |-> ok]
    <2>1. v \in SenderStates /\ sender' = [sender EXCEPT ![c][r] = v]
      BY <1>0c, SenderTypes, Zenon DEF Ends
    <2> HIDE DEF v
    <2> QED BY <2>1, <1>0a
  <1>0d. ASSUME NEW c \in Calls, NEW R, Start(c, R) PROVE sender' \in Table
    <2> DEFINE v == [at |-> "ready", attempt |-> 0, ok |-> FALSE]
    <2>1. /\ v \in SenderStates
          /\ sender' = [sender EXCEPT ![c] = [r \in Names |-> IF r \in R THEN v ELSE sender[c][r]]]
      BY <1>0d, SenderTypes, Zenon DEF Start
    <2> HIDE DEF v
    <2>2. [r \in Names |-> IF r \in R THEN v ELSE sender[c][r]] \in [Names -> SenderStates]
      BY <2>1, <1>0a
    <2> QED BY <2>1, <2>2, <1>0a
  <1>1. CASE SubmitBundle
    <2>1. call' \in 0 .. MaxCalls /\ call' > 0 /\ submitted' \in 0 .. MaxCalls
      <3>1. call < MaxCalls /\ call' = call + 1 /\ submitted' = submitted + 1 /\ submitted = call
        BY <1>1, Zenon DEF SubmitBundle, RelayInd, BooksBalance
      <3> QED BY <3>1, <1>0a
    <2>2. Control /\ Numbers
      BY <2>1, <1>1, <1>0a DEF SubmitBundle
    <2>3. Tables
      BY <1>1 DEF SubmitBundle, RelayInd, TypeOK
    <2>4. sender' \in Table
      BY <1>1, <1>0a, SenderTypes, Zenon DEF SubmitBundle, Start
    <2> QED BY <1>0, <2>2, <2>3, <2>4
  <1>2. ASSUME NEW c \in Calls, NEW r \in Names, Post(c, r) PROVE TypeOK'
    <2>1. Tables
      BY <1>2 DEF Post, RelayInd, TypeOK
    <2>2. sender' \in Table
      BY <1>2, <1>0a, SenderTypes, Zenon DEF Post
    <2> QED BY <1>0, <1>0b, <1>2, <2>1, <2>2 DEF Post
  <1>3. ASSUME NEW c \in Calls, NEW r \in Names, AttemptFails(c, r) PROVE TypeOK'
    <2>1. Tables
      BY <1>3 DEF AttemptFails, RelayInd, TypeOK
    <2>2. sender' \in Table
      <3>1. sender[c][r] \in SenderStates
        BY <1>0a
      <3>2. CASE sender[c][r].attempt < MaxRetries
        <4> DEFINE v == [sender[c][r] EXCEPT !.at = "ready", !.attempt = sender[c][r].attempt + 1]
        <4>1. v \in SenderStates
          BY <3>1, <3>2, SenderTypes, Zenon
        <4>2. sender' = [sender EXCEPT ![c] = [@ EXCEPT ![r] = v]]
          BY <1>3, <3>2, <1>0a, Zenon DEF AttemptFails
        <4> QED BY <4>1, <4>2, <1>0a
      <3>3. CASE ~ (sender[c][r].attempt < MaxRetries)
        BY <1>3, <3>3, <1>0c, Zenon DEF AttemptFails
      <3> QED BY <3>2, <3>3
    <2> QED BY <1>0, <1>0b, <1>3, <2>1, <2>2 DEF AttemptFails
  <1>4. ASSUME NEW c \in Calls, NEW r \in Names, AttemptAnswered(c, r) PROVE TypeOK'
    <2>1. Tables
      BY <1>4 DEF AttemptAnswered, RelayInd, TypeOK
    <2>2. sender' = sender \/ \E ok \in BOOLEAN : Ends(c, r, ok)
      BY <1>4, Zenon DEF AttemptAnswered
    <2>3. sender' \in Table
      BY <2>2, <1>0a, <1>0c
    <2> QED BY <1>0, <1>0b, <1>4, <2>1, <2>3 DEF AttemptAnswered
  <1>5. ASSUME NEW c \in Calls, NEW r \in Names, Deliver(c, r) PROVE TypeOK'
    <2>1. Tables
      BY <1>5 DEF Deliver, RelayInd, TypeOK
    <2>2. sender' \in Table
      BY <1>5, <1>0a, SenderTypes, Zenon DEF Deliver
    <2> QED BY <1>0, <1>0b, <1>5, <2>1, <2>2 DEF Deliver
  <1>6. ASSUME NEW c \in Calls, Expire(c) PROVE TypeOK'
    <2>1. Tables
      BY <1>6, Zenon DEF Expire, RelayInd, TypeOK
    <2> QED BY <1>0, <1>0a, <1>0b, <1>6, <2>1 DEF Expire
  <1>7. ASSUME NEW c \in Calls, NEW r \in Names, RelayAccepts(c, r) PROVE TypeOK'
    <2>1. Tables
      BY <1>7 DEF RelayAccepts, RelayInd, TypeOK
    <2> QED BY <1>0, <1>0a, <1>0b, <1>7, <2>1 DEF RelayAccepts
  <1>8. ASSUME NEW r \in Names, RaceReceives(r) \/ PrimaryReceives(r) \/ AllReceives(r)
        PROVE  TypeOK'
    <2>1. Collect(r) /\ call \in Calls
      <3>1. Collect(r) /\ busy
        BY <1>8, Zenon DEF RaceReceives, PrimaryReceives, AllReceives, Collect
      <3>2. call > 0
        BY <3>1, <1>0a, Zenon
      <3> QED BY <3>1, <3>2, <1>0a DEF Calls
    <2>2. Continue \/ \E err, success \in BOOLEAN : Return(err, success)
      <3>1. (\E n \in Names : sender[call][n].ok) \in BOOLEAN
        OBVIOUS
      <3>2. sender[call][r].ok \in BOOLEAN
        BY <2>1, <1>0a DEF SenderStates
      <3> QED BY <1>8, <3>1, <3>2, Zenon DEF RaceReceives, PrimaryReceives, AllReceives
    <2>3. resultChan' \in [Calls -> Seq(Names)] /\ results' \in [Calls -> Seq(Names)]
      BY <2>1 DEF Collect, RelayInd, TypeOK
    <2>4. sender' \in Table
      <3>1. sender' = sender \/ \E R : Start(call, R)
        BY <1>8, Zenon DEF RaceReceives, PrimaryReceives, AllReceives
      <3> QED BY <3>1, <2>1, <1>0a, <1>0d
    <2>5. CASE Continue
      <3>1. Tables
        BY <2>3, <2>5 DEF Continue, RelayInd, TypeOK
      <3> QED BY <1>0, <1>0b, <2>4, <2>5, <3>1 DEF Continue
    <2>6. ASSUME NEW err \in BOOLEAN, NEW success \in BOOLEAN, Return(err, success) PROVE TypeOK'
      <3>1. Tables
        BY <2>3, <2>6, Zenon DEF Return, RelayInd, TypeOK
      <3>2. busy
        BY <2>1 DEF Collect
      <3>3. succeeded + failed + 1 = call /\ call \in 0 .. MaxCalls
        BY <3>2, <1>0a DEF RelayInd, BooksBalance
      <3>4. succeeded + 1 \in 0 .. MaxCalls /\ failed + 1 \in 0 .. MaxCalls
        BY <3>3, <1>0a
      <3>5. Numbers
        BY <3>4, <2>6, <1>0a DEF Return
      <3>6. Control
        BY <2>6, <1>0a, Zenon DEF Return
      <3> QED BY <1>0, <2>4, <3>1, <3>5, <3>6
    <2> QED BY <2>2, <2>5, <2>6
  <1>9. CASE UNCHANGED vars
    BY <1>9 DEF vars, RelayInd, TypeOK
  <1> QED BY <1>1, <1>2, <1>3, <1>4, <1>5, <1>6, <1>7, <1>8, <1>9 DEF Next, Attempt, Receive

(* A result goes to the channel: the relay had not reported before, and in *)
(* a failover it is the one that the call waits for.                       *)
LEMMA DeliverStep ==
    ASSUME RelayInd, TypeOK', NEW c \in Calls, NEW r \in Names, Deliver(c, r)
    PROVE  RelayInd'
  <1>1. /\ sender[c][r].at = "deliver" /\ sender'[c][r].at = "done" /\ sender'[c][r].ok = sender[c][r].ok
        /\ \A d \in Calls, n \in Names : <<d, n>> # <<c, r>> => sender'[d][n] = sender[d][n]
        /\ resultChan'[c] = Append(resultChan[c], r)
        /\ \A d \in Calls \ {c} : resultChan'[d] = resultChan[d]
        /\ UNCHANGED <<strategy, call, busy, holds, results, answer, counters>>
    BY DEF Deliver, RelayInd, TypeOK
  <1>2. \A d \in Calls : Tried(d)' = Tried(d) /\ Returned(d)' = Returned(d)
    BY <1>1 DEF Tried, Returned
  <1>3. \A d \in Calls \ {c} : Reported(d)' = Reported(d)
    BY <1>1, Zenon DEF Reported
  <1>4. Reported(c)' = Append(Reported(c), r)
    <2>1. results[c] \in Seq(Names) /\ resultChan[c] \in Seq(Names)
      BY RelayTypes DEF RelayInd
    <2>2. Reported(c)' = results[c] \o Append(resultChan[c], r)
      BY <1>1 DEF Reported
    <2>3. \A s, t \in Seq(Names) : s \o Append(t, r) = Append(s \o t, r)
      BY AppendRight
    <2>4. Reported(c) = results[c] \o resultChan[c]
      BY DEF Reported
    <2> QED BY <2>1, <2>2, <2>3, <2>4, Zenon
  <1>5. Reported(c) \in Seq(Names) /\ Len(Reported(c)) \in Nat /\ Tried(c) \in Nat
    BY RelayTypes, LenProperties DEF RelayInd
  <1>6. r \notin Range(Reported(c)) /\ IsInjective(Reported(c))
    BY <1>1 DEF RelayInd, ReportInv, ReportsRight
  <1>7. IsInjective(Reported(c)') /\ Range(Reported(c)') = Range(Reported(c)) \cup {r}
    BY <1>4, <1>5, <1>6, InjectiveAppend, RangeAppend
  <1>8. BooksBalance'
    BY <1>1, Zenon DEF RelayInd, BooksBalance, counters
  <1>9. CallInv'
    <2>1. ~ (c > call)
      BY <1>1 DEF RelayInd, CallInv
    <2> QED BY <1>1, <1>2, <2>1 DEF RelayInd, CallInv
  <1>10. ReportInv'
    <2> SUFFICES ASSUME NEW d \in Calls
                 PROVE  /\ IsInjective(Reported(d)')
                        /\ \A n \in Names :
                            /\ sender'[d][n].at = "done" <=> n \in Range(Reported(d)')
                            /\ sender'[d][n].ok => sender'[d][n].at \in {"deliver", "done"} /\ holds[d][n]
                        /\ d = call /\ busy /\ strategy # "all" =>
                              \A n \in Range(results[d]) : ~sender'[d][n].ok
      BY <1>1 DEF ReportInv, ReportsRight
    <2>1. \A n \in Range(results[d]) : n \in Names
      BY ReportedDone DEF RelayInd
    <2>2. \A n \in Names : sender'[d][n].ok = sender[d][n].ok
      BY <1>1
    <2>3. CASE d = c
      <3>1. IsInjective(Reported(d)')
        BY <1>7, <2>3, Zenon
      <3>2. \A n \in Names :
              /\ sender'[d][n].at = "done" <=> n \in Range(Reported(d)')
              /\ sender'[d][n].ok => sender'[d][n].at \in {"deliver", "done"} /\ holds[d][n]
        <4> SUFFICES ASSUME NEW n \in Names
                     PROVE  /\ sender'[c][n].at = "done" <=> n \in Range(Reported(c)) \cup {r}
                            /\ sender'[c][n].ok =>
                                 sender'[c][n].at \in {"deliver", "done"} /\ holds[c][n]
          BY <1>7, <2>3, Zenon
        <4>1. /\ sender[c][n].at = "done" <=> n \in Range(Reported(c))
              /\ sender[c][n].ok => sender[c][n].at \in {"deliver", "done"} /\ holds[c][n]
          BY Zenon DEF RelayInd, ReportInv, ReportsRight
        <4>2. CASE n = r
          BY <1>1, <4>1, <4>2, Zenon
        <4>3. CASE n # r
          <5>1. sender'[c][n] = sender[c][n]
            BY <1>1, <4>3, Zenon
          <5> QED BY <4>1, <4>3, <5>1, Zenon
        <4> QED BY <4>2, <4>3, Zenon
      <3>3. d = call /\ busy /\ strategy # "all" =>
              \A n \in Range(results[d]) : ~sender'[d][n].ok
        BY <2>1, <2>2, Zenon DEF RelayInd, ReportInv, ReportsRight
      <3> QED BY <3>1, <3>2, <3>3, Zenon
    <2>4. CASE d # c
      BY <1>1, <1>3, <2>1, <2>2, <2>4 DEF RelayInd, ReportInv, ReportsRight
    <2> QED BY <2>3, <2>4
  <1>11. OrderInv'
    <2> SUFFICES ASSUME strategy = "primary" PROVE \A d \in Calls : TriedInOrder(d)'
      BY <1>1 DEF OrderInv
    <2>0. ASSUME NEW d \in Calls, d # c PROVE TriedInOrder(d)'
      BY <1>1, <1>2, <1>3, <2>0, OrderFrame DEF RelayInd, OrderInv
    <2>1. PICK k \in 1 .. Len(Relays) : Failover[k] = r
      BY FailoverIsOrder
    <2>2. /\ Len(Reported(c)) <= Tried(c)
          /\ \A i \in 1 .. Len(Reported(c)) : Reported(c)[i] = Failover[i]
          /\ \A i \in 1 .. Len(Relays) : /\ sender[c][Failover[i]].at = "none" <=> i > Tried(c)
                                         /\ i < Tried(c) => sender[c][Failover[i]].at = "done"
          /\ Tried(c) <= Len(Relays)
      BY DEF RelayInd, OrderInv, TriedInOrder, CallInv
    <2>3. Len(Relays) \in Nat /\ k = Tried(c)
      <3>1. ~ (k > Tried(c)) /\ ~ (k < Tried(c))
        BY <1>1, <2>1, <2>2
      <3>2. Len(Relays) \in Nat
        BY FailoverIsOrder
      <3> QED BY <1>5, <3>1, <3>2
    <2>4. \A n \in Range(Reported(c)) : \E j \in 1 .. Len(Reported(c)) : n = Failover[j]
      BY <1>5, <2>2, LenProperties DEF Range
    <2>5. \A j \in 1 .. Len(Reported(c)) : Failover[j] \in Range(Reported(c))
      BY <1>5, <2>2, LenProperties DEF Range
    <2>6. Len(Reported(c)) = k - 1
      <3>1. ~ (k <= Len(Reported(c)))
        BY <1>5, <1>6, <2>1, <2>3, <2>5
      <3>2. CASE k > 1
        <4>1. k - 1 \in 1 .. Len(Relays) /\ k - 1 < Tried(c)
          BY <2>1, <2>3, <3>2
        <4>2. Failover[k - 1] \in Range(Reported(c))
          BY <2>2, <4>1, FailoverIsOrder DEF RelayInd, ReportInv, ReportsRight
        <4>3. PICK j \in 1 .. Len(Reported(c)) : Failover[k - 1] = Failover[j]
          BY <2>4, <4>2
        <4>4. j \in 1 .. Len(Relays)
          BY <1>5, <2>2, <2>3
        <4>5. k - 1 = j
          BY <4>1, <4>3, <4>4, FailoverIsOrder
        <4> QED BY <1>5, <3>1, <4>5, <2>1, <2>3
      <3> QED BY <1>5, <2>3, <3>1, <3>2
    <2>7. \A i \in 1 .. Len(Relays) :
             /\ sender'[c][Failover[i]].at = "none" <=> i > Tried(c)
             /\ i < Tried(c) => sender'[c][Failover[i]].at = "done" /\ ~sender'[c][Failover[i]].ok
      BY <1>1, FailoverIsOrder DEF RelayInd, OrderInv, TriedInOrder
    <2>8. Len(Reported(c)') = k /\ \A i \in 1 .. k : Reported(c)'[i] = Failover[i]
      <3>1. /\ Len(Reported(c)') = Len(Reported(c)) + 1
            /\ \A i \in 1 .. Len(Reported(c)) : Reported(c)'[i] = Reported(c)[i]
            /\ Reported(c)'[Len(Reported(c)) + 1] = r
        BY <1>4, <1>5, AppendProperties
      <3>2. \A i \in 1 .. k : i \in 1 .. Len(Reported(c)) \/ i = Len(Reported(c)) + 1
        BY <2>6, <1>5
      <3>3. k = Len(Reported(c)) + 1
        BY <2>6, <1>5
      <3> QED BY <3>1, <3>2, <3>3, <2>1, <2>2
    <2>9. k <= Tried(c)
      BY <2>3
    <2>10. TriedInOrder(c)'
      BY <1>2, <2>7, <2>8, <2>9 DEF TriedInOrder
    <2> QED BY <2>0, <2>10
  <1> QED BY <1>8, <1>9, <1>10, <1>11 DEF RelayInd

(* The receipt of a result: nothing else is reported, and the relay has.   *)
LEMMA CollectFacts ==
    ASSUME RelayInd, TypeOK', NEW r \in Names, Collect(r), call' = call
    PROVE  /\ call \in Calls /\ busy /\ sender[call][r].at = "done"
           /\ results'[call] = Append(results[call], r)
           /\ Len(results'[call]) = Len(results[call]) + 1 /\ Len(results[call]) \in Nat
           /\ Range(results'[call]) = Range(results[call]) \cup {r}
           /\ \A c \in Calls \ {call} : results'[c] = results[c] /\ resultChan'[c] = resultChan[c]
           /\ \A c \in Calls : Reported(c)' = Reported(c)
           /\ Reported(call)[Len(results[call]) + 1] = r
           /\ Len(results[call]) + 1 \in 1 .. Len(Reported(call))
  <1>1. busy /\ resultChan[call] # <<>> /\ r = Head(resultChan[call])
    BY DEF Collect
  <1>2. call > 0
    BY <1>1, Zenon DEF RelayInd, TypeOK
  <1>3. call \in Calls
    BY <1>2, RelayAssumption DEF RelayInd, TypeOK, Calls
  <1>4. /\ results[call] \in Seq(Names) /\ resultChan[call] \in Seq(Names)
        /\ Len(results[call]) \in Nat
    BY <1>3, RelayTypes DEF RelayInd
  <1>5. /\ results'[call] = Append(results[call], r) /\ resultChan'[call] = Tail(resultChan[call])
        /\ \A c \in Calls \ {call} : results'[c] = results[c] /\ resultChan'[c] = resultChan[c]
    BY <1>3 DEF Collect, RelayInd, TypeOK
  <1>6. \A c \in Calls : Reported(c)' = Reported(c)
    <2>1. Append(results[call], Head(resultChan[call])) \o Tail(resultChan[call])
            = results[call] \o resultChan[call]
      BY <1>1, <1>4, MoveHead, Zenon
    <2>2. \A c \in Calls : Reported(c)' = results'[c] \o resultChan'[c]
      BY DEF Reported
    <2> QED BY <1>1, <1>5, <2>1, <2>2, Zenon DEF Reported
  <1>7. Len(results'[call]) = Len(results[call]) + 1
    BY <1>4, <1>5, AppendProperties
  <1>8. Range(results'[call]) = Range(results[call]) \cup {r}
    BY <1>4, <1>5, RangeAppend
  <1>9. /\ Reported(call)[Len(results[call]) + 1] = r
        /\ Len(results[call]) + 1 \in 1 .. Len(Reported(call))
    <2>1. Len(resultChan[call]) \in Nat \ {0} /\ r = resultChan[call][1]
      BY <1>1, <1>4
    <2>2. /\ Len(Reported(call)) = Len(results[call]) + Len(resultChan[call])
          /\ \A i \in 1 .. Len(Reported(call)) : Reported(call)[i] =
                IF i <= Len(results[call]) THEN results[call][i]
                ELSE resultChan[call][i - Len(results[call])]
      BY <1>4, ConcatProperties, Zenon DEF Reported
    <2> DEFINE k == Len(results[call]) + 1
    <2>2a. Len(Reported(call)) = Len(results[call]) + Len(resultChan[call])
      BY <2>2
    <2>3. k \in 1 .. Len(Reported(call)) /\ ~ (k <= Len(results[call])) /\ k - Len(results[call]) = 1
      <3> DEFINE a == Len(results[call])  b == Len(resultChan[call])
      <3>1. a \in Nat /\ b \in Nat \ {0}
        BY <1>4, <2>1
      <3> HIDE DEF a, b
      <3>2. a + 1 \in 1 .. (a + b)
        BY <3>1
      <3>3. ~ (a + 1 <= a) /\ (a + 1) - a = 1
        BY <3>1
      <3>4. k = a + 1 /\ a + b = Len(Reported(call)) /\ a = Len(results[call])
        BY <2>2a, Zenon DEF a, b
      <3> QED BY <3>2, <3>3, <3>4, Zenon
    <2>4. Reported(call)[k] = resultChan[call][k - Len(results[call])]
      BY <2>2, <2>3, Zenon
    <2> QED BY <2>1, <2>3, <2>4
  <1>10. r \in Range(resultChan[call])
    <2>1. Len(resultChan[call]) \in Nat \ {0} /\ r = resultChan[call][1]
      BY <1>1, <1>4
    <2>2. 1 \in DOMAIN resultChan[call]
      BY <1>4, <2>1
    <2> QED BY <2>1, <2>2 DEF Range
  <1>11. sender[call][r].at = "done"
    BY <1>3, <1>10, ReportedDone DEF RelayInd
  <1> QED BY <1>1, <1>3, <1>4, <1>5, <1>6, <1>7, <1>8, <1>9, <1>11

(* A receipt that ends the call: the relay that reported counts as tried   *)
(* as before.                                                              *)
LEMMA ReturnStep ==
    ASSUME RelayInd, TypeOK', NEW r \in Names, Collect(r), UNCHANGED sender,
           NEW err \in BOOLEAN, NEW success \in BOOLEAN, Return(err, success)
    PROVE  RelayInd'
  <1>1. /\ UNCHANGED <<strategy, call, holds, submitted>> /\ busy' = FALSE
        /\ answer' = [answer EXCEPT ![call] = IF err THEN "error" ELSE "ok"]
        /\ \/ succeeded' = succeeded + 1 /\ failed' = failed
           \/ succeeded' = succeeded /\ failed' = failed + 1
    BY DEF Return
  <1>2. /\ call \in Calls /\ busy /\ Len(results'[call]) = Len(results[call]) + 1
        /\ Len(results[call]) \in Nat
        /\ \A c \in Calls \ {call} : results'[c] = results[c] /\ resultChan'[c] = resultChan[c]
        /\ \A c \in Calls : Reported(c)' = Reported(c)
    BY <1>1, CollectFacts
  <1>3. \A c \in Calls : Tried(c)' = Tried(c)
    <2>1. \A c \in Calls : Len(results'[c]) \in Nat /\ Len(results[c]) \in Nat
      <3>1. results \in [Calls -> Seq(Names)] /\ results' \in [Calls -> Seq(Names)]
        BY Zenon DEF RelayInd, TypeOK
      <3> QED BY <3>1
    <2>2. Tried(call)' = Len(results'[call]) + 0 /\ Tried(call) = Len(results[call]) + 1
      BY <1>1, <1>2 DEF Tried
    <2>3. \A c \in Calls \ {call} : Tried(c)' = Len(results'[c]) + 0 /\ Tried(c) = Len(results[c]) + 0
      BY <1>1, <1>2 DEF Tried
    <2>4. Tried(call)' = Tried(call)
      BY <1>2, <2>2
    <2>5. ASSUME NEW c \in Calls \ {call} PROVE Tried(c)' = Tried(c)
      BY <1>2, <2>3, <2>5
    <2>6. ASSUME NEW c \in Calls, c = call PROVE Tried(c)' = Tried(c)
      BY <2>4, <2>6, <1>1, Zenon DEF Tried
    <2> QED BY <2>5, <2>6
  <1>4. BooksBalance'
    <2>1. submitted = succeeded + failed + 1 /\ submitted = call
      BY <1>2 DEF RelayInd, BooksBalance
    <2>2. submitted' = succeeded' + failed' + 0
      <3>1. succeeded \in 0 .. MaxCalls /\ failed \in 0 .. MaxCalls /\ MaxCalls \in Nat
        BY RelayAssumption, Zenon DEF RelayInd, TypeOK
      <3>2. \A a, b, d : a \in 0 .. d /\ b \in 0 .. d /\ d \in Nat =>
               (a + 1) + b = a + b + 1 /\ a + (b + 1) = a + b + 1 /\ a + b + 0 = a + b
        OBVIOUS
      <3> QED BY <2>1, <1>1, <3>1, <3>2
    <2>3. (IF busy' THEN 1 ELSE 0) = 0
      BY <1>1
    <2> QED BY <1>1, <2>1, <2>2, <2>3 DEF BooksBalance
  <1>5. CallInv'
    <2>1. \A c \in Calls : Returned(c)' <=> (Returned(c) \/ c = call)
      BY <1>1 DEF Returned
    <2>2. \A c \in Calls : answer'[c] # "none" <=> (answer[c] # "none" \/ c = call)
      BY <1>1, <1>2 DEF RelayInd, TypeOK
    <2>3. \A c \in Calls : c > call => c # call
      BY RelayTypes DEF RelayInd
    <2> QED BY <1>1, <1>2, <1>3, <2>1, <2>2, <2>3 DEF RelayInd, CallInv
  <1>6. ReportInv'
    BY <1>1, <1>2, ReportFrame, Zenon DEF RelayInd, ReportInv
  <1>7. OrderInv'
    BY <1>1, <1>2, <1>3, OrderFrame, Zenon DEF RelayInd, OrderInv
  <1> QED BY <1>4, <1>5, <1>6, <1>7 DEF RelayInd

(* A receipt after which the call waits for another relay: one more counts *)
(* as tried.                                                               *)
LEMMA ContinueFacts ==
    ASSUME RelayInd, TypeOK', NEW r \in Names, Collect(r), Continue,
           Len(results[call]) + 1 # Len(Relays)
    PROVE  /\ BooksBalance'
           /\ call \in Calls /\ Tried(call) = Len(results[call]) + 1 /\ Tried(call) \in Nat
           /\ Tried(call) < Len(Relays)
           /\ Tried(call)' = Tried(call) + 1
           /\ \A c \in Calls \ {call} : Tried(c)' = Tried(c)
           /\ \A c \in Calls : Reported(c)' = Reported(c)
           /\ UNCHANGED sender => CallInv'
  <1>1. UNCHANGED <<strategy, call, busy, holds, answer, submitted, succeeded, failed>>
    BY DEF Continue, counters
  <1>2. /\ call \in Calls /\ busy /\ Len(results'[call]) = Len(results[call]) + 1
        /\ Len(results[call]) \in Nat
        /\ \A c \in Calls \ {call} : results'[c] = results[c] /\ resultChan'[c] = resultChan[c]
        /\ \A c \in Calls : Reported(c)' = Reported(c)
    BY <1>1, CollectFacts
  <1>3. Tried(call) = Len(results[call]) + 1 /\ Tried(call)' = Len(results'[call]) + 1
    BY <1>1, <1>2 DEF Tried
  <1>4. \A c \in Calls \ {call} : Tried(c)' = Tried(c)
    BY <1>1, <1>2 DEF Tried
  <1>5. Tried(call) <= Len(Relays)
    BY <1>2 DEF RelayInd, CallInv
  <1>6. Tried(call) \in Nat /\ Tried(call) < Len(Relays) /\ Tried(call)' = Tried(call) + 1
    <2> DEFINE a == Len(results[call])  n == Len(Relays)  t == Tried(call)  u == Tried(call)'
    <2>1. a \in Nat /\ n \in Nat /\ t = a + 1 /\ u = (a + 1) + 1 /\ t <= n /\ a + 1 # n
      BY <1>2, <1>3, <1>5, FailoverIsOrder, Zenon
    <2> HIDE DEF a, n, t, u
    <2>2. t \in Nat /\ t < n /\ u = t + 1
      BY <2>1
    <2> QED BY <2>2 DEF n, t, u
  <1>7. BooksBalance'
    BY <1>1, Zenon DEF RelayInd, BooksBalance
  <1>8. ASSUME UNCHANGED sender PROVE CallInv'
    <2>1. \A c \in Calls : Returned(c)' <=> Returned(c)
      BY <1>1 DEF Returned
    <2>2. \A c \in Calls : c > call => c # call
      BY RelayTypes DEF RelayInd
    <2>3. Tried(call)' <= Len(Relays)
      <3> DEFINE t == Tried(call)  n == Len(Relays)
      <3>1. t \in Nat /\ n \in Nat /\ t < n
        BY <1>6, FailoverIsOrder, Zenon
      <3> HIDE DEF t, n
      <3>2. t + 1 <= n
        BY <3>1
      <3> QED BY <1>6, <3>2 DEF t, n
    <2> QED BY <1>1, <1>2, <1>4, <1>8, <2>1, <2>2, <2>3 DEF RelayInd, CallInv
  <1> QED BY <1>2, <1>3, <1>4, <1>6, <1>7, <1>8

(* A race, or the submission to all, waits for the next result.            *)
LEMMA WaitStep ==
    ASSUME RelayInd, TypeOK', NEW r \in Names, Collect(r), Continue, UNCHANGED sender,
           Len(results[call]) + 1 # Len(Relays),
           strategy = "all" \/ (strategy = "race" /\ ~sender[call][r].ok)
    PROVE  RelayInd'
  <1>1. UNCHANGED <<strategy, call, busy, holds>>
    BY DEF Continue
  <1>2. /\ call \in Calls /\ Range(results'[call]) = Range(results[call]) \cup {r}
        /\ \A c \in Calls : Reported(c)' = Reported(c)
    BY <1>1, CollectFacts
  <1>3. BooksBalance' /\ CallInv'
    BY ContinueFacts
  <1>4. ReportInv'
    <2> SUFFICES ASSUME NEW c \in Calls,
                        c = call /\ busy /\ strategy # "all" =>
                           \A n \in Range(results'[c]) : ~sender[c][n].ok
                 PROVE  ReportsRight(c)'
      <3>1. ASSUME NEW c \in Calls, c = call, busy, strategy # "all",
                   NEW n \in Range(results'[c])
            PROVE  ~sender[c][n].ok
        <4>1. n \in Range(results[call]) \/ n = r
          BY <1>2, <3>1
        <4>2. ~sender[call][r].ok
          BY <3>1, Zenon
        <4> QED BY <1>2, <3>1, <4>1, <4>2, Zenon DEF RelayInd, ReportInv, ReportsRight
      <3> QED BY <3>1, Zenon DEF ReportInv
    <2>1. ReportsRight(c)
      BY Zenon DEF RelayInd, ReportInv
    <2> QED BY <1>1, <1>2, <2>1, ReportFrame, Zenon
  <1>5. OrderInv'
    BY <1>1 DEF OrderInv, TriedInOrder
  <1> QED BY <1>3, <1>4, <1>5 DEF RelayInd

(* The relay a failover goes to has not been started.                      *)
LEMMA NextIsFresh ==
    ASSUME RelayInd, TypeOK', NEW r \in Names, Collect(r), Continue, strategy = "primary",
           Len(results[call]) + 1 # Len(Relays)
    PROVE  /\ Failover[Len(results[call]) + 2] \in Names
           /\ sender[call][Failover[Len(results[call]) + 2]].at = "none"
  <1> DEFINE a == Len(results[call])  t == Tried(call)  n == Len(Relays)
  <1>1. a \in Nat /\ n \in Nat /\ t = a + 1 /\ t < n /\ call \in Calls
    BY ContinueFacts, RelayTypes, FailoverIsOrder, Zenon DEF RelayInd
  <1>2. \A i \in 1 .. n : i > t => sender[call][Failover[i]].at = "none"
    BY <1>1 DEF RelayInd, OrderInv, TriedInOrder
  <1>3. \A i \in 1 .. n : Failover[i] \in Names
    BY FailoverIsOrder, Zenon
  <1> HIDE DEF a, t, n
  <1>4. a + 2 \in 1 .. n /\ a + 2 > t
    BY <1>1
  <1>5. Failover[a + 2] \in Names /\ sender[call][Failover[a + 2]].at = "none"
    BY <1>2, <1>3, <1>4
  <1> QED BY <1>5 DEF a

(* A failover goes to its next relay: the one that reported has failed.    *)
LEMMA FailoverStep ==
    ASSUME RelayInd, TypeOK', NEW r \in Names, Collect(r), Continue, strategy = "primary",
           ~sender[call][r].ok, Len(results[call]) + 1 # Len(Relays),
           Start(call, {Failover[Len(results[call]) + 2]})
    PROVE  RelayInd'
  <1> DEFINE k == Tried(call) + 1
  <1>1. UNCHANGED <<strategy, call, busy, holds, answer>>
    BY DEF Continue
  <1>2. /\ call \in Calls /\ busy /\ sender[call][r].at = "done"
        /\ Len(results[call]) \in Nat
        /\ Range(results'[call]) = Range(results[call]) \cup {r}
        /\ \A c \in Calls \ {call} : results'[c] = results[c] /\ resultChan'[c] = resultChan[c]
        /\ Reported(call)[Len(results[call]) + 1] = r
        /\ Len(results[call]) + 1 \in 1 .. Len(Reported(call))
    BY <1>1, CollectFacts
  <1>3. /\ BooksBalance'
        /\ Tried(call) = Len(results[call]) + 1 /\ Tried(call) \in Nat /\ Tried(call) < Len(Relays)
        /\ Tried(call)' = k
        /\ \A c \in Calls \ {call} : Tried(c)' = Tried(c)
        /\ \A c \in Calls : Reported(c)' = Reported(c)
    BY ContinueFacts
  <1>3b. \A c \in Calls : Reported(c)' = Reported(c)
    BY <1>3
  <1>3a. \A c \in Calls : c = call => Tried(c)' = k
    BY <1>1, <1>3, Zenon DEF Tried
  <1>4. /\ k \in 1 .. Len(Relays) /\ k <= Len(Relays)
        /\ k = Len(results[call]) + 2 /\ k > Tried(call)
    <2> DEFINE a == Len(results[call])  t == Tried(call)  n == Len(Relays)
    <2>1. a \in Nat /\ n \in Nat /\ t = a + 1 /\ t < n
      BY <1>2, <1>3, FailoverIsOrder, Zenon
    <2> HIDE DEF a, t, n
    <2>2. t + 1 \in 1 .. n /\ t + 1 <= n /\ t + 1 = a + 2 /\ t + 1 > t
      BY <2>1
    <2> QED BY <2>2 DEF a, t, n
  <1>5. /\ \A c \in Calls \ {call} : sender'[c] = sender[c]
        /\ \A n \in Names : n # Failover[k] => sender'[call][n] = sender[call][n]
        /\ sender'[call][Failover[k]] = [at |-> "ready", attempt |-> 0, ok |-> FALSE]
    <2>1. Start(call, {Failover[k]}) /\ Failover[k] \in Names
      BY <1>4, FailoverIsOrder, Zenon
    <2> DEFINE f == Failover[k]  v == [at |-> "ready", attempt |-> 0, ok |-> FALSE]
    <2>2. /\ sender' = [sender EXCEPT ![call] = [n \in Names |-> IF n \in {f} THEN v ELSE sender[call][n]]]
          /\ DOMAIN sender = Calls /\ f \in Names
      BY <2>1, Zenon DEF Start, RelayInd, TypeOK
    <2> HIDE DEF f, v
    <2>3. /\ \A c \in Calls \ {call} : sender'[c] = sender[c]
          /\ \A n \in Names : n # f => sender'[call][n] = sender[call][n]
          /\ sender'[call][f] = v
      BY <1>2, <2>2
    <2> QED BY <2>3 DEF f, v
  <1>6. sender[call][Failover[k]].at = "none"
    BY <1>2, <1>4 DEF RelayInd, OrderInv, TriedInOrder
  <1>7. Failover[Tried(call)] = r
    <2>1. \A i \in 1 .. Len(Reported(call)) : Reported(call)[i] = Failover[i]
      BY <1>2, Zenon DEF RelayInd, OrderInv, TriedInOrder
    <2> DEFINE i == Len(results[call]) + 1
    <2>2. i \in 1 .. Len(Reported(call)) /\ Reported(call)[i] = r /\ Tried(call) = i
      BY <1>2, <1>3, Zenon
    <2> HIDE DEF i
    <2> QED BY <2>1, <2>2, Zenon
  <1>8. CallInv'
    <2>1. \A c \in Calls : Returned(c)' <=> Returned(c)
      BY <1>1 DEF Returned
    <2>2. \A c \in Calls : c > call => c # call
      BY RelayTypes DEF RelayInd
    <2>3. k <= Len(Relays)
      BY <1>4
    <2> SUFFICES ASSUME NEW c \in Calls
                 PROVE  /\ answer[c] # "none" <=> Returned(c)
                        /\ c > call => /\ results'[c] = <<>> /\ resultChan'[c] = <<>>
                                       /\ \A n \in Names : sender'[c][n].at = "none"
                        /\ Tried(c)' <= Len(Relays)
      BY <1>1, <2>1 DEF CallInv
    <2>4. CASE c = call
      BY <1>3a, <2>2, <2>3, <2>4 DEF RelayInd, CallInv
    <2>5. CASE c # call
      <3>1. /\ sender'[c] = sender[c] /\ results'[c] = results[c] /\ resultChan'[c] = resultChan[c]
            /\ Tried(c)' = Tried(c)
        BY <1>2, <1>3, <1>5, <2>5
      <3>2. /\ answer[c] # "none" <=> Returned(c)
            /\ c > call => /\ results[c] = <<>> /\ resultChan[c] = <<>>
                           /\ \A n \in Names : sender[c][n].at = "none"
            /\ Tried(c) <= Len(Relays)
        BY Zenon DEF RelayInd, CallInv
      <3> QED BY <3>1, <3>2, Zenon
    <2> QED BY <2>4, <2>5
  <1>9. ReportInv'
    <2> SUFFICES ASSUME NEW c \in Calls PROVE ReportsRight(c)'
      BY DEF ReportInv
    <2>1. IsInjective(Reported(c))
      BY DEF RelayInd, ReportInv, ReportsRight
    <2>2. ASSUME NEW n \in Names
          PROVE  /\ sender'[c][n].at = "done" <=> n \in Range(Reported(c))
                 /\ sender'[c][n].ok => sender'[c][n].at \in {"deliver", "done"} /\ holds[c][n]
      <3>1. CASE c = call /\ n = Failover[k]
        <4>1. sender'[c][n] = [at |-> "ready", attempt |-> 0, ok |-> FALSE]
              /\ sender[c][n].at = "none"
          BY <1>5, <1>6, <3>1, Zenon
        <4>2. sender'[c][n].at = "ready" /\ ~sender'[c][n].ok
          BY <4>1, JustStarted, Zenon
        <4> QED BY <4>1, <4>2 DEF RelayInd, ReportInv, ReportsRight
      <3>2. CASE ~ (c = call /\ n = Failover[k])
        <4>1. sender'[c][n] = sender[c][n]
          BY <1>5, <3>2
        <4> QED BY <4>1 DEF RelayInd, ReportInv, ReportsRight
      <3> QED BY <3>1, <3>2
    <2>3. ASSUME c = call, NEW n \in Range(results'[c]) PROVE ~sender'[c][n].ok
      <3>1. n \in Names /\ sender[call][n].at = "done" /\ ~sender[call][n].ok
        BY <1>2, <2>3, ReportedDone DEF RelayInd, ReportInv, ReportsRight
      <3> QED BY <1>5, <1>6, <2>3, <3>1
    <2>4. Reported(c)' = Reported(c) /\ UNCHANGED <<call, holds>>
      BY <1>1, <1>3b
    <2> QED BY <2>1, <2>2, <2>3, <2>4 DEF ReportsRight
  <1>10. OrderInv'
    <2> SUFFICES ASSUME NEW c \in Calls PROVE TriedInOrder(c)'
      BY <1>1 DEF OrderInv
    <2>1. TriedInOrder(c)
      BY DEF RelayInd, OrderInv
    <2>2. CASE c # call
      BY <1>3, <1>5, <2>1, <2>2, OrderFrame
    <2>3. CASE c = call
      <3>1. Len(Reported(c)) <= k
        <4>1. Len(Reported(c)) \in Nat /\ Tried(call) \in Nat
          BY <1>3, RelayTypes, LenProperties DEF RelayInd
        <4>2. Len(Reported(c)) <= Tried(call)
          BY <2>1, <2>3 DEF TriedInOrder
        <4> QED BY <4>1, <4>2
      <3>2. ASSUME NEW i \in 1 .. Len(Relays)
            PROVE  /\ sender'[c][Failover[i]].at = "none" <=> i > k
                   /\ i < k => sender'[c][Failover[i]].at = "done" /\ ~sender'[c][Failover[i]].ok
        <4>0. Failover[i] \in Names /\ (Failover[i] = Failover[k] => i = k)
          BY <1>4, FailoverIsOrder, Zenon
        <4>1. CASE i = k
          <5>1. sender'[c][Failover[i]].at # "none"
            BY <1>5, <2>3, <4>1
          <5>2. ~ (i > k) /\ ~ (i < k)
            BY <1>3, <4>1
          <5> QED BY <5>1, <5>2
        <4>2. CASE i # k
          <5>1. sender'[c][Failover[i]] = sender[c][Failover[i]]
            BY <1>5, <2>3, <4>0, <4>2
          <5>2. (i > k <=> i > Tried(call)) /\ (i < k <=> (i < Tried(call) \/ i = Tried(call)))
            BY <1>3, <1>4, <4>2
          <5>3. /\ sender[c][Failover[i]].at = "none" <=> i > Tried(call)
                /\ i < Tried(call) => sender[c][Failover[i]].at = "done" /\ ~sender[c][Failover[i]].ok
            BY <2>1, <2>3 DEF TriedInOrder
          <5> QED BY <1>2, <1>7, <2>3, <5>1, <5>2, <5>3
        <4> QED BY <4>1, <4>2
      <3>3. Reported(c)' = Reported(c) /\ Tried(c)' = k
        BY <1>3a, <1>3b, <2>3
      <3>4. \A i \in 1 .. Len(Reported(c)) : Reported(c)[i] = Failover[i]
        BY <2>1 DEF TriedInOrder
      <3> QED BY <3>1, <3>2, <3>3, <3>4 DEF TriedInOrder
    <2> QED BY <2>2, <2>3
  <1> QED BY <1>3, <1>8, <1>9, <1>10 DEF RelayInd

(* A new call starts its first relay, or all of them.                      *)
LEMMA SubmitStep ==
    ASSUME RelayInd, TypeOK', SubmitBundle
    PROVE  RelayInd'
  <1> DEFINE new == call + 1
             first == IF strategy = "primary" THEN {Failover[1]} ELSE Names
  <1>1. /\ ~busy /\ busy' = TRUE /\ call < MaxCalls /\ call' = new /\ submitted' = submitted + 1
        /\ UNCHANGED <<strategy, holds, resultChan, results, answer, succeeded, failed>>
        /\ Start(new, first)
    BY DEF SubmitBundle
  <1>2. new \in Calls /\ call \in Nat /\ \A c \in Calls : c \in Int
    BY <1>1, RelayAssumption DEF RelayInd, TypeOK, Calls
  <1>3. /\ \A c \in Calls \ {new} : sender'[c] = sender[c]
        /\ \A n \in Names : n \notin first => sender'[new][n] = sender[new][n]
        /\ \A n \in Names : n \in first =>
              sender'[new][n] = [at |-> "ready", attempt |-> 0, ok |-> FALSE]
    BY <1>1, <1>2 DEF Start, RelayInd, TypeOK
  <1>4. /\ results[new] = <<>> /\ resultChan[new] = <<>>
        /\ \A n \in Names : sender[new][n].at = "none"
    <2>1. new > call
      BY <1>2
    <2> QED BY <1>2, <2>1 DEF RelayInd, CallInv
  <1>5. \A c \in Calls : Reported(c)' = Reported(c)
    BY <1>1 DEF Reported
  <1>6. Reported(new) = <<>> /\ Len(Reported(new)) = 0 /\ Range(Reported(new)) = {}
    BY <1>4 DEF Reported, Range
  <1>7. \A c \in Calls : c # new => Tried(c)' = Tried(c)
    BY <1>1 DEF Tried
  <1>8. \A c \in Calls : c = new => Tried(c)' = 1
    BY <1>1, <1>4 DEF Tried
  <1>9. Tried(new) = 0
    BY <1>1, <1>4 DEF Tried
  <1>10. BooksBalance'
    <2>1. submitted = call /\ submitted = succeeded + failed + 0
      BY <1>1 DEF RelayInd, BooksBalance
    <2>2. submitted' = call' /\ submitted' = succeeded' + failed' + 1
      BY <1>1, <2>1 DEF RelayInd, TypeOK
    <2>3. (IF busy' THEN 1 ELSE 0) = 1
      BY <1>1
    <2> QED BY <2>2, <2>3 DEF BooksBalance
  <1>11. CallInv'
    <2>1. \A c \in Calls : Returned(c) <=> (c < call \/ c = call)
      BY <1>1 DEF Returned
    <2>2. \A c \in Calls : Returned(c)' <=> c < new
      BY <1>1 DEF Returned
    <2>3. \A c \in Calls : (c < call \/ c = call) <=> c < new
      BY <1>2
    <2>4. \A c \in Calls : c > new => c > call /\ c # new
      BY <1>2
    <2>5. 1 <= Len(Relays)
      BY FailoverIsOrder
    <2> SUFFICES ASSUME NEW c \in Calls
                 PROVE  /\ answer[c] # "none" <=> Returned(c)'
                        /\ c > new => /\ results[c] = <<>> /\ resultChan[c] = <<>>
                                      /\ \A n \in Names : sender'[c][n].at = "none"
                        /\ Tried(c)' <= Len(Relays)
      BY <1>1, Zenon DEF CallInv
    <2>6. answer[c] # "none" <=> Returned(c)'
      BY <2>1, <2>2, <2>3, Zenon DEF RelayInd, CallInv
    <2>7. ASSUME c > new
          PROVE  /\ results[c] = <<>> /\ resultChan[c] = <<>>
                 /\ \A n \in Names : sender'[c][n].at = "none"
      <3>1. sender'[c] = sender[c] /\ c > call
        BY <1>3, <2>4, <2>7, Zenon
      <3> QED BY <3>1, Zenon DEF RelayInd, CallInv
    <2>8. Tried(c)' <= Len(Relays)
      BY <1>7, <1>8, <2>5, Zenon DEF RelayInd, CallInv
    <2> QED BY <2>6, <2>7, <2>8, Zenon
  <1>12. ReportInv'
    <2> SUFFICES ASSUME NEW c \in Calls PROVE ReportsRight(c)'
      BY Zenon DEF ReportInv
    <2>1. ReportsRight(c) /\ IsInjective(Reported(c))
      BY Zenon DEF RelayInd, ReportInv, ReportsRight
    <2>2. CASE c # new
      BY <1>1, <1>3, <1>5, <2>1, <2>2, ReportFrame, Zenon
    <2>3. CASE c = new
      <3>1. Range(results[c]) = {}
        BY <1>4, <2>3 DEF Range
      <3>2. \A n \in Names : sender'[c][n].at # "done" /\ ~sender'[c][n].ok
        <4> SUFFICES ASSUME NEW n \in Names
                     PROVE  sender'[c][n].at # "done" /\ ~sender'[c][n].ok
          OBVIOUS
        <4>1. CASE n \in first
          BY <1>3, <2>3, <4>1, JustStarted, Zenon
        <4>2. CASE n \notin first
          <5>1. sender'[c][n] = sender[c][n] /\ sender[c][n].at = "none"
            BY <1>3, <1>4, <2>3, <4>2, Zenon
          <5>2. sender[c][n].ok => sender[c][n].at \in {"deliver", "done"}
            BY Zenon DEF RelayInd, ReportInv, ReportsRight
          <5> QED BY <5>1, <5>2
        <4> QED BY <4>1, <4>2, Zenon
      <3>3. \A n \in Names : n \notin Range(Reported(c))
        BY <1>6, <2>3
      <3>4. \A n \in Range(results[c]) : ~sender'[c][n].ok
        BY <3>1
      <3> QED BY <1>1, <1>5, <2>1, <3>2, <3>3, <3>4, Zenon DEF ReportsRight
    <2> QED BY <2>2, <2>3, Zenon
  <1>13. OrderInv'
    <2> SUFFICES ASSUME strategy = "primary", NEW c \in Calls PROVE TriedInOrder(c)'
      BY <1>1 DEF OrderInv
    <2>1. CASE c # new
      BY <1>3, <1>5, <1>7, <2>1, OrderFrame DEF RelayInd, OrderInv
    <2>2. CASE c = new
      <3>1. ASSUME NEW i \in 1 .. Len(Relays)
            PROVE  (sender'[c][Failover[i]].at = "none" <=> i > 1) /\ ~ (i < 1)
        <4>1. Failover[i] \in Names /\ (Failover[i] = Failover[1] <=> i = 1) /\ i \in Nat \ {0}
          BY FailoverIsOrder
        <4>2. (i > 1 <=> i # 1) /\ ~ (i < 1)
          BY <4>1
        <4>3. Failover[i] \in first <=> i = 1
          BY <4>1
        <4>4. CASE i = 1
          BY <1>3, <2>2, <4>1, <4>2, <4>3, <4>4, JustStarted, Zenon
        <4>5. CASE i # 1
          BY <1>3, <1>4, <2>2, <4>1, <4>2, <4>3, <4>5, Zenon
        <4> QED BY <4>4, <4>5, Zenon
      <3>2. Reported(c)' = Reported(c) /\ Tried(c)' = 1 /\ Len(Reported(c)) = 0
        BY <1>5, <1>6, <1>8, <2>2
      <3> QED BY <3>1, <3>2 DEF TriedInOrder
    <2> QED BY <2>1, <2>2
  <1> QED BY <1>10, <1>11, <1>12, <1>13 DEF RelayInd

-----------------------------------------------------------------------------
(* The theorems.                                                           *)

LEMMA RelayNext == ASSUME RelayInd, [Next]_vars PROVE RelayInd'
  <1>0. TypeOK'
    BY RelayTypeStep
  <1>1. CASE SubmitBundle
    BY <1>0, <1>1, SubmitStep
  <1>2. ASSUME NEW c \in Calls, NEW r \in Names, Attempt(c, r) PROVE RelayInd'
    <2>1. /\ sender[c][r].at \in {"ready", "waiting"}
          /\ \A d \in Calls, n \in Names : <<d, n>> # <<c, r>> => sender'[d][n] = sender[d][n]
          /\ UNCHANGED <<strategy, call, busy, holds, resultChan, results, answer, counters>>
      <3>1. sender' = sender \/ \E v : sender' = [sender EXCEPT ![c][r] = v]
        BY <1>2 DEF Attempt, Post, AttemptFails, AttemptAnswered, Ends
      <3>2. \A d \in Calls, n \in Names : <<d, n>> # <<c, r>> => sender'[d][n] = sender[d][n]
        BY <3>1 DEF RelayInd, TypeOK
      <3> QED BY <1>2, <3>2, Zenon DEF Attempt, Post, AttemptFails, AttemptAnswered
    <2>2. ~sender[c][r].ok
      BY <2>1 DEF RelayInd, ReportInv, ReportsRight
    <2>3. \/ sender'[c][r] = sender[c][r]
          \/ /\ sender'[c][r].at \in {"ready", "waiting", "deliver"}
             /\ sender'[c][r].ok => sender'[c][r].at = "deliver" /\ holds[c][r]
      <3>1. sender[c][r] \in SenderStates
        BY DEF RelayInd, TypeOK, SenderStates
      <3>2. CASE Post(c, r)
        BY <2>2, <3>1, <3>2 DEF Post, RelayInd, TypeOK, SenderStates
      <3>3. ASSUME NEW ok \in BOOLEAN, Ends(c, r, ok)
            PROVE  sender'[c][r].at = "deliver" /\ sender'[c][r].ok = ok
        BY <3>3 DEF Ends, RelayInd, TypeOK
      <3>4. CASE AttemptFails(c, r)
        <4>1. CASE sender[c][r].attempt < MaxRetries
          <5>1. sender' = [sender EXCEPT ![c][r].at = "ready", ![c][r].attempt = @ + 1]
            BY <3>4, <4>1 DEF AttemptFails
          <5>2. /\ DOMAIN sender = Calls /\ DOMAIN sender[c] = Names
                /\ DOMAIN sender[c][r] = {"at", "attempt", "ok"}
            BY <3>1 DEF RelayInd, TypeOK, SenderStates
          <5>3. sender'[c][r].at = "ready" /\ sender'[c][r].ok = sender[c][r].ok
            BY <5>1, <5>2
          <5> QED BY <5>3, <2>2
        <4>2. CASE ~ (sender[c][r].attempt < MaxRetries)
          BY <3>3, <3>4, <4>2, Zenon DEF AttemptFails
        <4> QED BY <4>1, <4>2
      <3>5. CASE AttemptAnswered(c, r)
        BY <3>3, <3>5, Zenon DEF AttemptAnswered
      <3> QED BY <1>2, <3>2, <3>4, <3>5 DEF Attempt
    <2> QED BY <1>0, <2>1, <2>3, SenderStep
  <1>3. ASSUME NEW c \in Calls, NEW r \in Names, Deliver(c, r) PROVE RelayInd'
    BY <1>0, <1>3, DeliverStep
  <1>4. ASSUME NEW c \in Calls, NEW r \in Names, RelayAccepts(c, r) PROVE RelayInd'
    <2>1. /\ UNCHANGED <<strategy, call, busy, sender, resultChan, results, answer, counters>>
          /\ \A d \in Calls, n \in Names : holds[d][n] => holds'[d][n]
      BY <1>4 DEF RelayAccepts, RelayInd, TypeOK
    <2> QED BY <1>0, <2>1, SenderStep
  <1>5. ASSUME NEW c \in Calls, Expire(c) PROVE RelayInd'
    <2>1. UNCHANGED <<strategy, call, busy, sender, holds, resultChan, results, answer, counters>>
      BY <1>5 DEF Expire
    <2> QED BY <1>0, <2>1, SenderStep
  <1>6. ASSUME NEW r \in Names, RaceReceives(r) PROVE RelayInd'
    <2>1. Collect(r) /\ UNCHANGED sender /\ strategy = "race"
      BY <1>6 DEF RaceReceives
    <2>2. CASE sender[call][r].ok
      BY <1>0, <1>6, <2>1, <2>2, ReturnStep, Zenon DEF RaceReceives
    <2>3. CASE ~sender[call][r].ok /\ Len(results[call]) + 1 = Len(Relays)
      BY <1>0, <1>6, <2>1, <2>3, ReturnStep, Zenon DEF RaceReceives
    <2>4. CASE ~sender[call][r].ok /\ Len(results[call]) + 1 # Len(Relays)
      BY <1>0, <1>6, <2>1, <2>4, WaitStep DEF RaceReceives
    <2> QED BY <2>2, <2>3, <2>4
  <1>7. ASSUME NEW r \in Names, PrimaryReceives(r) PROVE RelayInd'
    <2>1. Collect(r) /\ strategy = "primary" /\ Len(Failover) = Len(Relays)
      BY <1>7, FailoverIsOrder, Zenon DEF PrimaryReceives
    <2>2. CASE sender[call][r].ok
      BY <1>0, <1>7, <2>1, <2>2, ReturnStep, Zenon DEF PrimaryReceives
    <2>3. CASE ~sender[call][r].ok /\ Len(results[call]) + 1 = Len(Relays)
      BY <1>0, <1>7, <2>1, <2>3, ReturnStep, Zenon DEF PrimaryReceives
    <2>4. CASE ~sender[call][r].ok /\ Len(results[call]) + 1 # Len(Relays)
      BY <1>0, <1>7, <2>1, <2>4, FailoverStep, Zenon DEF PrimaryReceives
    <2> QED BY <2>2, <2>3, <2>4
  <1>8. ASSUME NEW r \in Names, AllReceives(r) PROVE RelayInd'
    <2>1. Collect(r) /\ UNCHANGED sender /\ strategy = "all"
      BY <1>8 DEF AllReceives
    <2>2. CASE Len(results[call]) + 1 = Len(Relays)
      BY <1>0, <1>8, <2>1, <2>2, ReturnStep, Zenon DEF AllReceives
    <2>3. CASE Len(results[call]) + 1 # Len(Relays)
      BY <1>0, <1>8, <2>1, <2>3, WaitStep DEF AllReceives
    <2> QED BY <2>2, <2>3
  <1>9. CASE UNCHANGED vars
    <2>1. UNCHANGED <<strategy, call, busy, sender, holds, resultChan, results, answer, counters>>
      BY <1>9 DEF vars, counters
    <2> QED BY <1>0, <2>1, SenderStep
  <1> QED BY <1>1, <1>2, <1>3, <1>4, <1>5, <1>6, <1>7, <1>8, <1>9 DEF Next, Receive

(* SubmitBundle and its SendBundle goroutines keep the invariant, however  *)
(* many relays and calls there are: every call is counted once, every      *)
(* relay reports once, and submitPrimary goes on only from a failure.      *)
THEOREM RelayInvariant == Spec => []RelayInv
  <1>1. Spec => []RelayInd
    <2>1. RelayInd /\ [Next]_vars => RelayInd'
      BY RelayNext
    <2> QED BY RelayInit, <2>1, PTL DEF Spec
  <1> QED BY <1>1, InOrder, PTL

-----------------------------------------------------------------------------
(* The counter of successes: every call counted as a success has a relay   *)
(* that holds its bundle, and no other call has.                           *)

INSTANCE FiniteSetTheorems


(* An injective sequence as long as its set is large reaches all of it.    *)
LEMMA Pigeonhole ==
    ASSUME NEW S, NEW s \in Seq(S), IsInjective(s), NEW t \in Seq(S), IsInjective(t),
           Range(t) = S, Len(s) = Len(t)
    PROVE  Range(s) = S
  <1>1. ASSUME NEW u \in Seq(S), IsInjective(u)
        PROVE  IsFiniteSet(Range(u)) /\ Cardinality(Range(u)) = Len(u)
    <2>1. Len(u) \in Nat /\ DOMAIN u = 1 .. Len(u) /\ u \in [1 .. Len(u) -> Range(u)]
      BY LenProperties DEF Range
    <2>2. u \in Bijection(1 .. Len(u), Range(u))
      BY <1>1, <2>1 DEF Bijection, Injection, Surjection, IsInjective, Range
    <2>3. ExistsBijection(1 .. Len(u), Range(u))
      BY <2>2 DEF ExistsBijection
    <2> QED BY <2>1, <2>3, FS_CountingElements, FS_NatBijection
  <1>2. Range(s) \subseteq S
    BY LenProperties DEF Range
  <1> QED BY <1>1, <1>2, FS_Subset

-----------------------------------------------------------------------------
(* The counter of successes.                                               *)

(* The calls that have returned with the result of a relay that reported a *)
(* success.                                                                *)
OkCalls == {c \in Calls : answer[c] # "none" /\ \E r \in Range(results[c]) : sender[c][r].ok}

(* A relay that reports a success holds the bundle.                        *)
LEMMA OkIsHeld == RelayInd => {c \in Calls : Won(c)} = OkCalls
  <1> SUFFICES ASSUME RelayInd, NEW c \in Calls, NEW r \in Range(results[c]), sender[c][r].ok
               PROVE  holds[c][r]
    BY DEF Won, OkCalls
  <1>1. r \in Names
    BY ReportedDone DEF RelayInd
  <1> QED BY <1>1 DEF RelayInd, ReportInv, ReportsRight

(* The counter follows the calls that return.                              *)
LEMMA CountStep ==
    ASSUME RelayInd, RelayInd', SuccessIsHeld,
           \/ OkCalls' = OkCalls /\ succeeded' = succeeded
           \/ \E c \in Calls \ OkCalls : OkCalls' = OkCalls \cup {c} /\ succeeded' = succeeded + 1
    PROVE  SuccessIsHeld'
  <1>1. IsFiniteSet(OkCalls)
    <2>1. IsFiniteSet(Calls)
      BY RelayAssumption, FS_Interval DEF Calls
    <2> QED BY <2>1, FS_Subset DEF OkCalls
  <1>2. {c \in Calls : Won(c)} = OkCalls
    BY OkIsHeld
  <1>3. ({c \in Calls : Won(c)} = OkCalls)'
    BY OkIsHeld, PTL
  <1>4. succeeded = Cardinality(OkCalls)
    BY <1>2 DEF SuccessIsHeld
  <1>5. succeeded' = Cardinality(OkCalls')
    BY <1>1, <1>4, FS_AddElement
  <1> QED BY <1>3, <1>5 DEF SuccessIsHeld

(* A step that ends no call.                                               *)
LEMMA NoReturn ==
    ASSUME RelayInd, UNCHANGED succeeded,
           \A c \in Calls : answer[c] # "none" <=> answer'[c] # "none",
           \A c \in Calls : answer[c] # "none" => results'[c] = results[c],
           \A c \in Calls, r \in Names : sender[c][r].at = "done" => sender'[c][r].ok = sender[c][r].ok
    PROVE  OkCalls' = OkCalls /\ succeeded' = succeeded
  <1>1. \A c \in Calls : \A r \in Range(results[c]) : sender'[c][r].ok = sender[c][r].ok
    BY ReportedDone DEF RelayInd
  <1> QED BY <1>1 DEF OkCalls

(* The first part of an injection is one.                                  *)
LEMMA InjectivePrefix ==
    ASSUME NEW S, NEW s \in Seq(S), NEW t \in Seq(S), IsInjective(s \o t)
    PROVE  IsInjective(s)
  <1>1. /\ DOMAIN s = 1 .. Len(s) /\ Len(s) \in Nat /\ Len(t) \in Nat
        /\ DOMAIN (s \o t) = 1 .. (Len(s) + Len(t))
        /\ \A i \in 1 .. Len(s) : (s \o t)[i] = s[i]
    BY ConcatProperties, LenProperties
  <1>2. \A i \in 1 .. Len(s) : i \in 1 .. (Len(s) + Len(t))
    BY <1>1
  <1> QED BY <1>1, <1>2 DEF IsInjective

(* The end of a call that counts a success when a collected result is one. *)
LEMMA ReturnCounts ==
    ASSUME RelayInd, TypeOK', NEW r \in Names, Collect(r), UNCHANGED sender,
           NEW err \in BOOLEAN, NEW success \in BOOLEAN, Return(err, success),
           success <=> \E n \in Range(results[call]) \cup {r} : sender[call][n].ok
    PROVE  \/ OkCalls' = OkCalls /\ succeeded' = succeeded
           \/ \E c \in Calls \ OkCalls : OkCalls' = OkCalls \cup {c} /\ succeeded' = succeeded + 1
  <1>1. call' = call /\ answer' = [answer EXCEPT ![call] = IF err THEN "error" ELSE "ok"]
    BY DEF Return
  <1>2. /\ call \in Calls /\ busy /\ Range(results'[call]) = Range(results[call]) \cup {r}
        /\ \A c \in Calls \ {call} : results'[c] = results[c]
    BY <1>1, CollectFacts
  <1>3. answer[call] = "none"
    <2>0. call \in Nat
      BY RelayTypes, Zenon DEF RelayInd
    <2>1. ~Returned(call)
      BY <1>2, <2>0 DEF Returned
    <2> QED BY <1>2, <2>1 DEF RelayInd, CallInv
  <1>4. /\ answer'[call] # "none"
        /\ \A c \in Calls \ {call} : answer'[c] = answer[c]
    BY <1>1, <1>2 DEF RelayInd, TypeOK
  <1>5. call \notin OkCalls
    BY <1>3 DEF OkCalls
  <1>6. \A c \in Calls \ {call} : c \in OkCalls' <=> c \in OkCalls
    BY <1>2, <1>4 DEF OkCalls
  <1>7. call \in OkCalls' <=> success
    BY <1>1, <1>2, <1>4 DEF OkCalls
  <1>8. OkCalls' \subseteq Calls /\ OkCalls \subseteq Calls
    BY DEF OkCalls
  <1>9. CASE success
    <2>1. OkCalls' = OkCalls \cup {call}
      BY <1>2, <1>6, <1>7, <1>8, <1>9
    <2>2. succeeded' = succeeded + 1
      BY <1>9 DEF Return
    <2> QED BY <1>2, <1>5, <2>1, <2>2
  <1>10. CASE ~success
    <2>1. OkCalls' = OkCalls
      BY <1>5, <1>6, <1>7, <1>8, <1>10
    <2>2. succeeded' = succeeded
      BY <1>10 DEF Return
    <2> QED BY <2>1, <2>2
  <1> QED BY <1>9, <1>10

(* The last receipt of submitAll has the results of all relays.            *)
LEMMA AllCollected ==
    ASSUME RelayInd, TypeOK', NEW r \in Names, Collect(r), call' = call,
           Len(results[call]) + 1 = Len(Relays)
    PROVE  Range(results[call]) \cup {r} = Names
  <1>1. /\ call \in Calls /\ results'[call] = Append(results[call], r)
        /\ Range(results'[call]) = Range(results[call]) \cup {r}
        /\ Len(results'[call]) = Len(results[call]) + 1
        /\ \A c \in Calls : Reported(c)' = Reported(c)
    BY CollectFacts
  <1>2. results'[call] \in Seq(Names) /\ resultChan'[call] \in Seq(Names)
    BY <1>1, Zenon DEF TypeOK
  <1>3. IsInjective(results'[call] \o resultChan'[call])
    <2>1. IsInjective(Reported(call))
      BY <1>1 DEF RelayInd, ReportInv, ReportsRight
    <2>2. results'[call] \o resultChan'[call] = Reported(call)
      BY <1>1, Zenon DEF Reported
    <2> QED BY <2>1, <2>2
  <1>4. IsInjective(results'[call])
    BY <1>2, <1>3, InjectivePrefix
  <1>5. Range(results'[call]) = Names
    BY <1>1, <1>2, <1>4, RelayAssumption, Pigeonhole, Zenon DEF Names
  <1> QED BY <1>1, <1>5

(* What a receipt counts, for each of the strategies.                      *)
LEMMA ReceiveCounts ==
    ASSUME RelayInd, TypeOK', NEW r \in Names,
           RaceReceives(r) \/ PrimaryReceives(r) \/ AllReceives(r)
    PROVE  \/ OkCalls' = OkCalls /\ succeeded' = succeeded
           \/ \E c \in Calls \ OkCalls : OkCalls' = OkCalls \cup {c} /\ succeeded' = succeeded + 1
  <1>1. Collect(r) /\ call' = call
    BY DEF RaceReceives, PrimaryReceives, AllReceives, Return, Continue
  <1>2. /\ call \in Calls /\ busy /\ \A c \in Calls \ {call} : results'[c] = results[c]
    BY <1>1, CollectFacts
  <1>3. answer[call] = "none"
    <2>0. call \in Nat
      BY RelayTypes, Zenon DEF RelayInd
    <2>1. ~Returned(call)
      BY <1>2, <2>0 DEF Returned
    <2> QED BY <1>2, <2>1 DEF RelayInd, CallInv
  <1>4. CASE Continue
    <2>1. \A c \in Calls, n \in Names : sender[c][n].at = "done" => sender'[c][n].ok = sender[c][n].ok
      <3>1. CASE UNCHANGED sender
        BY <3>1
      <3>2. CASE PrimaryReceives(r) /\ ~UNCHANGED sender
        <4> DEFINE f == Failover[Len(results[call]) + 2]
                   v == [at |-> "ready", attempt |-> 0, ok |-> FALSE]
        <4>1. Start(call, {f}) /\ strategy = "primary" /\ Len(results[call]) + 1 # Len(Relays)
          BY <3>2, FailoverIsOrder, Zenon DEF PrimaryReceives
        <4>2. f \in Names /\ sender[call][f].at = "none"
          BY <1>1, <1>4, <4>1, NextIsFresh
        <4>3. /\ sender' = [sender EXCEPT ![call] = [n \in Names |->
                                IF n \in {f} THEN v ELSE sender[call][n]]]
              /\ DOMAIN sender = Calls
          BY <4>1 DEF Start, RelayInd, TypeOK
        <4> HIDE DEF f, v
        <4>4. \A c \in Calls, n \in Names : sender'[c][n] = sender[c][n] \/ (c = call /\ n = f)
          BY <1>2, <4>3
        <4> QED BY <4>2, <4>4
      <3> QED BY <3>1, <3>2, Zenon DEF RaceReceives, PrimaryReceives, AllReceives
    <2> QED BY <1>2, <1>3, <1>4, <2>1, NoReturn DEF Continue, counters
  <1>5. \A n \in Range(results[call]) : strategy # "all" => ~sender[call][n].ok
    BY <1>2 DEF RelayInd, ReportInv, ReportsRight
  <1>6. CASE ~Continue
    <2>1. UNCHANGED sender
      BY <1>6, Zenon DEF RaceReceives, PrimaryReceives, AllReceives
    <2>2. sender[call][r].ok \in BOOLEAN
      BY <1>2 DEF RelayInd, TypeOK
    <2>3. CASE RaceReceives(r) \/ PrimaryReceives(r)
      <3>1. \/ Return(FALSE, TRUE) /\ sender[call][r].ok
            \/ Return(TRUE, FALSE) /\ ~sender[call][r].ok
        <4>1. CASE sender[call][r].ok
          BY <2>3, <4>1, Zenon DEF RaceReceives, PrimaryReceives
        <4>2. CASE ~sender[call][r].ok
          BY <1>6, <2>3, <4>2, Zenon DEF RaceReceives, PrimaryReceives
        <4> QED BY <4>1, <4>2, Zenon
      <3>2. strategy # "all"
        BY <2>3, Zenon DEF RaceReceives, PrimaryReceives
      <3>3. CASE Return(FALSE, TRUE) /\ sender[call][r].ok
        <4>1. TRUE <=> \E n \in Range(results[call]) \cup {r} : sender[call][n].ok
          BY <3>3
        <4> QED BY <1>1, <2>1, <3>3, <4>1, ReturnCounts, Zenon
      <3>4. CASE Return(TRUE, FALSE) /\ ~sender[call][r].ok
        <4>1. FALSE <=> \E n \in Range(results[call]) \cup {r} : sender[call][n].ok
          BY <1>5, <3>2, <3>4
        <4> QED BY <1>1, <2>1, <3>4, <4>1, ReturnCounts, Zenon
      <3> QED BY <3>1, <3>3, <3>4, Zenon
    <2>4. CASE AllReceives(r)
      <3> DEFINE success == \E n \in Names : sender[call][n].ok
      <3>1. Return(FALSE, success) /\ Len(results[call]) + 1 = Len(Relays)
        BY <1>6, <2>4, Zenon DEF AllReceives
      <3>2. success <=> \E n \in Range(results[call]) \cup {r} : sender[call][n].ok
        BY <1>1, <3>1, AllCollected
      <3>3. success \in BOOLEAN
        OBVIOUS
      <3> HIDE DEF success
      <3> QED BY <1>1, <2>1, <3>1, <3>2, <3>3, ReturnCounts, Zenon
    <2> QED BY <2>3, <2>4
  <1> QED BY <1>4, <1>6

(* SubmitBundle counts as successes exactly the calls that returned with   *)
(* the result of a relay that holds the bundle, however the goroutines of  *)
(* races already won go on.                                                *)
THEOREM SuccessInvariant == Spec => []SuccessIsHeld
  <1>1. Init => SuccessIsHeld
    <2> SUFFICES ASSUME Init PROVE SuccessIsHeld
      OBVIOUS
    <2>1. {c \in Calls : Won(c)} = {} /\ succeeded = 0
      BY DEF Init, Won
    <2> QED BY <2>1, FS_EmptySet DEF SuccessIsHeld
  <1>2. ASSUME RelayInd, SuccessIsHeld, [Next]_vars PROVE SuccessIsHeld'
    <2>1. RelayInd' /\ TypeOK'
      BY <1>2, RelayNext, RelayTypeStep
    <2>2. \/ OkCalls' = OkCalls /\ succeeded' = succeeded
          \/ \E c \in Calls \ OkCalls : OkCalls' = OkCalls \cup {c} /\ succeeded' = succeeded + 1
      <3>1. CASE SubmitBundle
        <4>1. \A c \in Calls, n \in Names : sender[c][n].at = "done" => sender'[c][n] = sender[c][n]
          <5>1. ASSUME NEW c \in Calls, NEW n \in Names, sender[c][n].at = "done"
                PROVE  c # call + 1
            <6>1. ~ (c > call)
              BY <1>2, <5>1 DEF RelayInd, CallInv
            <6> QED BY <1>2, <6>1, RelayTypes DEF RelayInd
          <5> QED BY <1>2, <3>1, <5>1 DEF SubmitBundle, Start, RelayInd, TypeOK
        <4> QED BY <1>2, <3>1, <4>1, NoReturn DEF SubmitBundle
      <3>2. ASSUME NEW c \in Calls, NEW r \in Names, Attempt(c, r) \/ Deliver(c, r)
            PROVE  OkCalls' = OkCalls /\ succeeded' = succeeded
        <4>1. UNCHANGED <<results, answer, succeeded>>
          BY <3>2, Zenon DEF Attempt, Post, AttemptFails, AttemptAnswered, Deliver, counters
        <4>2. \/ sender' = sender
              \/ sender[c][r].at # "done" /\ \E v : sender' = [sender EXCEPT ![c][r] = v]
              \/ sender' = [sender EXCEPT ![c][r].at = "done"]
          BY <3>2 DEF Attempt, Post, AttemptFails, AttemptAnswered, Ends, Deliver
        <4>3. \A d \in Calls, n \in Names :
                 sender[d][n].at = "done" => sender'[d][n].ok = sender[d][n].ok
          <5>1. CASE sender' = [sender EXCEPT ![c][r].at = "done"]
            <6>1. sender[c][r] \in SenderStates /\ DOMAIN sender = Calls /\ DOMAIN sender[c] = Names
              BY <1>2 DEF RelayInd, TypeOK, SenderStates
            <6>2. \A d \in Calls, n \in Names : <<d, n>> # <<c, r>> => sender'[d][n] = sender[d][n]
              BY <5>1, <6>1
            <6>3. sender'[c][r].ok = sender[c][r].ok
              BY <5>1, <6>1 DEF SenderStates
            <6> QED BY <6>2, <6>3
          <5>2. CASE sender[c][r].at # "done" /\ \E v : sender' = [sender EXCEPT ![c][r] = v]
            BY <1>2, <5>2 DEF RelayInd, TypeOK
          <5> QED BY <4>2, <5>1, <5>2
        <4> QED BY <1>2, <4>1, <4>3, NoReturn
      <3>3. ASSUME NEW c \in Calls, NEW r \in Names, RelayAccepts(c, r) \/ Expire(c)
            PROVE  OkCalls' = OkCalls /\ succeeded' = succeeded
        BY <3>3 DEF RelayAccepts, Expire, counters, OkCalls
      <3>4. ASSUME NEW r \in Names, RaceReceives(r) \/ PrimaryReceives(r) \/ AllReceives(r)
            PROVE  \/ OkCalls' = OkCalls /\ succeeded' = succeeded
                   \/ \E c \in Calls \ OkCalls : OkCalls' = OkCalls \cup {c} /\ succeeded' = succeeded + 1
        BY <1>2, <2>1, <3>4, ReceiveCounts
      <3>5. CASE UNCHANGED vars
        BY <3>5 DEF vars, OkCalls
      <3>6. Primary \in Names
        BY RelayAssumption
      <3> QED BY <1>2, <3>1, <3>2, <3>3, <3>4, <3>5, <3>6 DEF Next, Receive
    <2> QED BY <1>2, <2>1, <2>2, CountStep
  <1>3. Spec => []RelayInd
    BY RelayInvariant, PTL DEF RelayInv
  <1> QED BY <1>1, <1>2, <1>3, PTL DEF Spec
=============================================================================
