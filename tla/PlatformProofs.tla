------------------------------- MODULE PlatformProofs -------------------------------
(*****************************************************************************)
(* Proofs about the gates of the tool dispatcher, the nonces of              *)
(* transactions, the lending service, the exchange contract and the live     *)
(* event stream, for any agents, senders, tokens, amounts, clients and sizes *)
(* of the queues.                                                            *)
(*****************************************************************************)
EXTENDS ToolGate, TransactionNonces, Lending, MatrixDEX, EventBroadcaster,
        DataTheorems, TLAPS

-----------------------------------------------------------------------------
(* The gates *)

\* What moves value.
Moves(c) == c \in LabelMoves \cup OperationMoves

\* The gates of the dispatcher.
AllGates == {"morpheus", "rexhepi", "glasswing"}
\* Where a call is past them.
Past == {"dispatching", "handoff", "running"}

\* What a gate, or the second look at a handoff, says.
GateVerdicts == {"undecided", "allow", "deny", "fault"}

\* No gate a call has passed so far has refused what moves value or failed it,
\* past the gates all of them have agreed, and past the dispatcher the call is
\* within reach.
GateInv ==
  /\ GateTypeOK
  /\ verdicts \in [AllGates \cup {"handoff"} -> GateVerdicts]
  /\ Moves(call) =>
       /\ stage = "gating" => \A g \in AllGates : verdicts[g] \in {"undecided", "allow"}
       /\ stage \in Past => \A g \in AllGates : Consults(g) => verdicts[g] = "allow"
       /\ stage = "running" /\ call \in Escalations => verdicts["handoff"] = "allow"
  /\ stage \in {"handoff", "running"} /\ ~ IsPrivileged => call \in Reach["trinity"] \ Refused[caller]

\* These are the gates the calls go through.
LEMMA TheGates == Range(Gates) = AllGates
BY DEF Range, Gates, AllGates

\* At first there is no call.
LEMMA GateStart == GateInit => GateInv
<1> SUFFICES ASSUME GateInit PROVE GateInv
  OBVIOUS
<1>1. Undecided \in [AllGates \cup {"handoff"} -> GateVerdicts]
  BY TheGates DEF Undecided, GateVerdicts
<1> QED
  BY <1>1, GateConstants DEF GateInit, GateInv, GateTypeOK, Stacks, Callers, Past

\* Going on with the call it has.
LEMMA GoOn ==
  ASSUME GateInv, NEW s \in {"thinking", "dispatching", "handoff", "running", "idle"}, Goto(s),
         s \in Past /\ Moves(call) => \A g \in AllGates : Consults(g) => verdicts[g] = "allow",
         s = "running" /\ Moves(call) /\ call \in Escalations => verdicts["handoff"] = "allow",
         s \in {"handoff", "running"} /\ ~ IsPrivileged => call \in Reach["trinity"] \ Refused[caller]
  PROVE  GateInv'
<1>1. call' = call /\ (\A g : Consults(g)' = Consults(g)) /\ IsPrivileged' = IsPrivileged
  BY DEF Goto, call, Consults, IsPrivileged
<1>2. UNCHANGED <<built, agent, caller, asked, verdicts>> /\ stage' = s
  BY DEF Goto
<1>3. GateTypeOK'
  BY <1>2 DEF GateInv, GateTypeOK
<1> QED
  BY <1>1, <1>2, <1>3 DEF GateInv, Moves

\* Every step keeps the invariant.
LEMMA GateStep == GateInv /\ [GateNext]_gateVars => GateInv'
<1> SUFFICES ASSUME GateInv, [GateNext]_gateVars PROVE GateInv'
  OBVIOUS
<1>1. ASSUME TurnStarts PROVE GateInv'
  BY <1>1 DEF TurnStarts, GateInv, GateTypeOK, Past
<1>2. ASSUME NEW c \in Calls, Ask(c) PROVE GateInv'
  <2>1. GateTypeOK'
    BY <1>2 DEF Ask, GateInv, GateTypeOK
  <2>2. Undecided \in [AllGates \cup {"handoff"} -> GateVerdicts] /\ \A g \in AllGates : Undecided[g] = "undecided"
    BY TheGates DEF Undecided, GateVerdicts
  <2>3. stage' \in {"thinking", "gating"} /\ verdicts' \in {verdicts, Undecided}
        /\ (stage' = "gating" => verdicts' = Undecided)
    BY <1>2 DEF Ask
  <2> QED BY <2>1, <2>2, <2>3 DEF GateInv, Past
<1>3. ASSUME StackFails PROVE GateInv'
  BY <1>3, GoOn DEF StackFails, AfterFault, FaultDenies, Moves, Past
<1>4. ASSUME SeamRefuses PROVE GateInv'
  BY <1>4, GoOn DEF SeamRefuses, Past
<1>5. ASSUME NEW i \in 1..Len(Gates), GateDecides(i) PROVE GateInv'
  <2> DEFINE g == Gates[i]
  <2>1. g \in AllGates
    BY DEF Gates, AllGates
  <2> HIDE DEF g
  <2>2. PICK v \in {"allow", "deny", "fault"} :
          /\ verdicts' = [verdicts EXCEPT ![g] = v]
          /\ stage' = IF v = "deny" \/ (v = "fault" /\ FaultDenies(call)) THEN "thinking" ELSE "gating"
    BY <1>5 DEF GateDecides, Verdicts, g
  <2>3. UNCHANGED <<built, agent, caller, asked>> /\ stage = "gating"
    BY <1>5 DEF GateDecides
  <2>4. call' = call /\ GateTypeOK'
    BY <2>2, <2>3 DEF call, GateInv, GateTypeOK
  <2>5. verdicts' \in [AllGates \cup {"handoff"} -> GateVerdicts]
    BY <2>2 DEF GateInv, GateVerdicts
  <2>6. stage' \in {"thinking", "gating"}
    BY <2>2
  <2>7. Moves(call) /\ stage' = "gating" => v = "allow"
    BY <2>2 DEF FaultDenies, Moves
  <2>8. Moves(call) /\ stage' = "gating" => \A h \in AllGates : verdicts'[h] \in {"undecided", "allow"}
    BY <2>2, <2>3, <2>7 DEF GateInv
  <2> QED BY <2>4, <2>5, <2>6, <2>8 DEF GateInv, Past, Moves
<1>6. ASSUME Approved PROVE GateInv'
  <2>1. Moves(call) => \A g \in AllGates : Consults(g) => verdicts[g] = "allow"
    BY <1>6, TheGates DEF Approved, IsDecided, GateInv
  <2> QED BY <1>6, <2>1, GoOn DEF Approved
<1>7. ASSUME Dispatch PROVE GateInv'
  <2>1. PICK s \in {"thinking", "handoff", "running"} :
          /\ Goto(s)
          /\ s # "thinking" => WithinReach
          /\ s = "running" => call \notin Escalations
    BY <1>7 DEF Dispatch
  <2>2. stage = "dispatching"
    BY <1>7 DEF Dispatch
  <2> QED BY <2>1, <2>2, GoOn DEF WithinReach, GateInv, Past
<1>8. ASSUME HandOff PROVE GateInv'
  <2>1. PICK v \in {"allow", "deny", "fault"} :
          /\ verdicts' = [verdicts EXCEPT !["handoff"] = v]
          /\ stage' = IF v = "allow" THEN "running" ELSE "thinking"
    BY <1>8 DEF HandOff
  <2>2. UNCHANGED <<built, agent, caller, asked>> /\ stage = "handoff"
    BY <1>8 DEF HandOff
  <2>3. call' = call /\ GateTypeOK' /\ (\A g : Consults(g)' = Consults(g)) /\ IsPrivileged' = IsPrivileged
    BY <2>1, <2>2 DEF call, GateInv, GateTypeOK, Consults, IsPrivileged
  <2>4. verdicts' \in [AllGates \cup {"handoff"} -> GateVerdicts]
    BY <2>1 DEF GateInv, GateVerdicts
  <2>5. (\A g \in AllGates : verdicts'[g] = verdicts[g]) /\ verdicts'["handoff"] = v
    BY <2>1 DEF GateInv, AllGates
  <2>6. stage' \in {"thinking", "running"} /\ (stage' = "running" => v = "allow")
    BY <2>1
  <2> QED BY <2>2, <2>3, <2>4, <2>5, <2>6 DEF GateInv, Past, Moves
<1>9. ASSUME ToolEnds \/ TurnEnds PROVE GateInv'
  BY <1>9, GoOn DEF ToolEnds, TurnEnds, Past
<1>10. ASSUME UNCHANGED gateVars PROVE GateInv'
  BY <1>10 DEF gateVars, GateInv, GateTypeOK, Moves, call, Consults, IsPrivileged
<1> QED
  BY <1>1, <1>2, <1>3, <1>4, <1>5, <1>6, <1>7, <1>8, <1>9, <1>10 DEF GateNext

\* While a call that could move value runs, every gate it passes said yes, and who
\* has not the operator key got there only by what Trinity may do.
THEOREM GateAllows == GateSpec => []RunsOnlyIfAllowed
<1>1. GateInv => RunsOnlyIfAllowed
  BY TheGates DEF GateInv, RunsOnlyIfAllowed, Moves, Past
<1> QED BY <1>1, GateStart, GateStep, PTL DEF GateSpec

-----------------------------------------------------------------------------
(* Nonces *)

\* What may be told of a transaction.
Told == {"unasked", "waiting", "raised", "submitted", "failed", "pending", "cancelled"}

\* What the node still holds has no receipt, nor has what was never sent: a
\* receipt is written once, and an answer given from it stays true.
NonceInv ==
  /\ mined \in Nat /\ mempool \subseteq Sends
  /\ nonce \in [Sends -> Nat \cup {NoNonce}]
  /\ receipts \in [Sends -> {"none", "ok", "reverted"}]
  /\ answers \in [Sends -> Told]
  /\ \A s \in Sends : s \in mempool \/ answers[s] = "unasked" => receipts[s] = "none"
  /\ \A s \in Sends : answers[s] = "unasked" => s \notin mempool
  /\ AnswersStayTrue

\* At first nothing is sent.
LEMMA NonceStart == NonceInit => NonceInv
BY DEF NonceInit, NonceInv, Told, AnswersStayTrue, NoNonce

\* Every step keeps the invariant.
LEMMA NonceStep == NonceInv /\ [NonceNext]_nonceVars => NonceInv'
<1> SUFFICES ASSUME NonceInv, [NonceNext]_nonceVars PROVE NonceInv'
  OBVIOUS
<1>1. ASSUME NEW s \in Sends, SendTransaction(s) PROVE NonceInv'
  <2>1. CASE answers' = [answers EXCEPT ![s] = "waiting"]
    BY <1>1, <2>1 DEF SendTransaction, TransactionCount, Holding, NonceInv, Told, AnswersStayTrue
  <2>2. CASE answers' = [answers EXCEPT ![s] = "raised"]
    BY <1>1, <2>2 DEF SendTransaction, TransactionCount, Holding, NonceInv, Told, AnswersStayTrue
  <2> QED BY <1>1, <2>1, <2>2 DEF SendTransaction
<1>2. ASSUME NEW s \in Sends, Mine(s) PROVE NonceInv'
  <2>1. s \in mempool /\ receipts[s] = "none"
    BY <1>2 DEF Mine, Holding, NonceInv
  <2>2. PICK status \in {"ok", "reverted"} : receipts' = [receipts EXCEPT ![s] = status]
    BY <1>2 DEF Mine
  <2> QED BY <1>2, <2>1, <2>2 DEF Mine, NonceInv, AnswersStayTrue
<1>3. ASSUME NEW s \in Sends, NEW answer \in Told, Answer(s, answer),
             answer = "submitted" => receipts[s] = "ok",
             answer = "failed" => receipts[s] = "reverted", answer # "unasked"
      PROVE  NonceInv'
  BY <1>3 DEF Answer, NonceInv, AnswersStayTrue
<1>4. ASSUME NEW s \in Sends, ReceiptArrives(s) PROVE NonceInv'
  BY <1>3, <1>4 DEF ReceiptArrives, Told
<1>5. ASSUME NEW s \in Sends, ReceiptTimesOut(s) \/ Cancelled(s) PROVE NonceInv'
  BY <1>3, <1>5 DEF ReceiptTimesOut, Cancelled, Unknown, Told
<1>6. ASSUME UNCHANGED nonceVars PROVE NonceInv'
  BY <1>6 DEF nonceVars, NonceInv, AnswersStayTrue
<1> QED
  BY <1>1, <1>2, <1>4, <1>5, <1>6 DEF NonceNext

\* Whoever is told that a transaction was submitted or failed is told what stays
\* true of it.
THEOREM AnswersTrue == NonceSpec => []AnswersStayTrue
<1>1. NonceInv => AnswersStayTrue
  BY DEF NonceInv
<1> QED BY <1>1, NonceStart, NonceStep, PTL DEF NonceSpec

-----------------------------------------------------------------------------
(* Lending *)

\* A loan.
LoanRecords ==
  [status : {"active", "repaid"}, borrower : Borrowers, security : LendTokens, pledged : Nat,
   token : LendTokens, principal : Nat, interest : Nat, due : BOOLEAN]

\* What each loan adds to the lending in a token.
Lending(t) == [l \in LoanIds |-> IF l \in Active /\ loans[l].token = t THEN loans[l].principal ELSE 0]

\* What is lent in token t.
Out(t) == SumOf(Lending(t), LoanIds)

\* The type of the loans.
LoansOK == loans \in [LoanIds -> LoanRecords \cup {NoLoan}]

\* The inductive invariant.
LendInv ==
  /\ LoansOK
  /\ poolBorrowed \in [LendTokens -> Nat]
  /\ \A t \in LendTokens : poolBorrowed[t] = Out(t)

\* What is lent is a natural number.
LEMMA LendingType ==
  ASSUME LoansOK, NEW t
  PROVE  /\ \A l \in LoanIds : Lending(t)[l] \in Nat /\ Lending(t)[l] \in Int
         /\ Out(t) \in Nat
<1>1. \A l \in LoanIds : Lending(t)[l] \in Nat
  <2> SUFFICES ASSUME NEW l \in LoanIds PROVE Lending(t)[l] \in Nat
    OBVIOUS
  <2>1. CASE l \in Active
    <3>1. loans[l] \in LoanRecords
      BY <2>1 DEF LoansOK, Active, NoLoan
    <3> QED BY <3>1 DEF Lending, LoanRecords
  <2>2. CASE l \notin Active
    BY <2>2 DEF Lending
  <2> QED BY <2>1, <2>2
<1> QED BY <1>1, SumNat, LendConstants DEF Out

\* The principal of the standing loans in a token is the sum over all loans.
LEMMA OutIsPrincipals ==
  ASSUME LoansOK, NEW t
  PROVE  Out(t) = Principals({l \in Active : loans[l].token = t})
<1> DEFINE T == {l \in Active : loans[l].token = t}
           p == [l \in T |-> loans[l].principal]
<1>1. T \in SUBSET LoanIds /\ IsFiniteSet(T)
  BY LendConstants, FS_Subset DEF Active
<1>2. \A l \in LoanIds \ T : Lending(t)[l] = 0
  BY DEF Lending
<1>3. \A l \in T : Lending(t)[l] = p[l]
  BY <1>1 DEF Lending
<1>4. Principals(T) = SumOf(p, T)
  BY DEF Principals
<1> HIDE DEF T, p
<1>5. SumOf(Lending(t), LoanIds) = SumOf(Lending(t), T)
  BY <1>1, <1>2, LendingType, LendConstants, SumSupport
<1>6. SumOf(Lending(t), T) = SumOf(p, T)
  BY <1>1, <1>3, SumSame
<1>7. Out(t) = Principals(T)
  BY <1>4, <1>5, <1>6 DEF Out
<1> QED BY <1>7 DEF T

\* One loan that changes changes the lending by what it adds more or less.
LEMMA OneLoanChanges ==
  ASSUME LoansOK, LoansOK', NEW l \in LoanIds, NEW new, loans' = [loans EXCEPT ![l] = new], NEW t
  PROVE  /\ Out(t)' = Out(t) - Lending(t)[l] + Lending(t)'[l]
         /\ Lending(t)[l] <= Out(t)
<1>1. \A k \in LoanIds \ {l} : Lending(t)'[k] = Lending(t)[k]
  BY DEF Lending, Active, LoansOK
<1>2. \A k \in LoanIds : Lending(t)[k] \in Int /\ Lending(t)'[k] \in Int
  <2>1. \A k \in LoanIds : Lending(t)[k] \in Int
    BY LendingType
  <2>2. \A k \in LoanIds : Lending(t)'[k] \in Int
    <3>1. ASSUME LoansOK' PROVE \A k \in LoanIds : Lending(t)'[k] \in Int
      <4> SUFFICES ASSUME NEW k \in LoanIds PROVE Lending(t)'[k] \in Int
        OBVIOUS
      <4>1. CASE k \in Active'
        <5>1. loans'[k] \in LoanRecords
          BY <4>1 DEF LoansOK, Active, NoLoan
        <5> QED BY <5>1 DEF Lending, LoanRecords
      <4>2. CASE k \notin Active'
        BY <4>2 DEF Lending
      <4> QED BY <4>1, <4>2
    <3> QED BY <3>1
  <2> QED BY <2>1, <2>2
<1>3. SumOf(Lending(t)', LoanIds) = SumOf(Lending(t), LoanIds) - Lending(t)[l] + Lending(t)'[l]
  <2> DEFINE f == Lending(t)
             g == Lending(t)'
  <2> HIDE DEF f, g
  <2>1. \A k \in LoanIds : f[k] \in Int /\ g[k] \in Int
    BY <1>2 DEF f, g
  <2>2. \A k \in LoanIds \ {l} : f[k] = g[k]
    BY <1>1 DEF f, g
  <2>3. SumOf(g, LoanIds) = SumOf(f, LoanIds) - f[l] + g[l]
    BY <2>1, <2>2, LendConstants, SumChange
  <2> QED BY <2>3 DEF f, g
<1>4. Out(t)' = SumOf(Lending(t)', LoanIds)
  BY DEF Out
<1>5. Lending(t)[l] <= Out(t)
  <2>1. IsFiniteSet(LoanIds \ {l}) /\ \A k \in LoanIds \ {l} : Lending(t)[k] \in Nat
    BY LendConstants, FS_Subset, LendingType
  <2>2. SumOf(Lending(t), LoanIds \ {l}) \in Nat
    BY <2>1, SumNat
  <2>3. Out(t) = Lending(t)[l] + SumOf(Lending(t), LoanIds \ {l})
    BY <1>2, LendConstants, SumTake DEF Out
  <2>4. Lending(t)[l] \in Nat
    BY LendingType
  <2> QED BY <2>2, <2>3, <2>4
<1> QED
  BY <1>3, <1>4, <1>5 DEF Out

\* A loan adds its principal to what is lent.
LEMMA CreateCounts ==
  ASSUME LendInv, NEW l \in LoanIds, NEW u \in Borrowers, NEW given \in LendTokens, NEW taken \in LendTokens,
         NEW amount \in LendAmounts, NEW owed \in LendAmounts, CreateLoan(l, u, given, amount, taken, owed)
  PROVE  LendInv'
<1> DEFINE new == NewLoan(u, given, amount, taken, owed)
<1>1. /\ loans[l].status = "none" /\ loans' = [loans EXCEPT ![l] = new]
      /\ poolBorrowed' = [poolBorrowed EXCEPT ![taken] = poolBorrowed[taken] + owed]
  BY DEF CreateLoan
<1>2. new \in LoanRecords /\ owed \in Nat
  BY LendConstants DEF NewLoan, LoanRecords
<1>3. new.status = "active" /\ new.token = taken /\ new.principal = owed
  BY DEF NewLoan
<1> HIDE DEF new
<1>4. LoansOK /\ LoansOK'
  BY <1>1, <1>2 DEF LendInv, LoansOK
<1>5. loans'[l] = new
  BY <1>1 DEF LendInv, LoansOK
<1>6. ASSUME NEW t \in LendTokens PROVE poolBorrowed'[t] = Out(t)' /\ poolBorrowed'[t] \in Nat
  <2>1. Lending(t)[l] = 0
    BY <1>1 DEF Lending, Active
  <2>2. Lending(t)'[l] = IF taken = t THEN owed ELSE 0
    BY <1>3, <1>5 DEF Lending, Active
  <2>3. Out(t)' = Out(t) - Lending(t)[l] + Lending(t)'[l]
    BY <1>1, <1>4, OneLoanChanges
  <2>4. poolBorrowed[t] = Out(t) /\ poolBorrowed[t] \in Nat
    BY DEF LendInv
  <2>5. poolBorrowed'[t] = poolBorrowed[t] + IF taken = t THEN owed ELSE 0
    BY <1>1, <1>2, <2>4 DEF LendInv
  <2>6. Out(t)' = Out(t) - 0 + IF taken = t THEN owed ELSE 0
    BY <2>1, <2>2, <2>3, Zenon
  <2>7. Out(t) - 0 = Out(t)
    BY <2>4
  <2>8. poolBorrowed'[t] = Out(t)'
    BY <2>4, <2>5, <2>6, <2>7, Zenon
  <2>9. poolBorrowed[t] + (IF taken = t THEN owed ELSE 0) \in Nat
    BY <1>2, <2>4
  <2> QED BY <2>5, <2>8, <2>9, Zenon
<1> QED
  BY <1>1, <1>4, <1>6 DEF LendInv

\* A repayment takes it out.
LEMMA RepayCounts ==
  ASSUME LendInv, NEW l \in LoanIds, NEW amount \in LendAmounts, NEW extra \in Nat,
         RepayLoan(l, amount, extra)
  PROVE  LendInv'
<1> DEFINE loan == Accrued(loans[l], extra)
           paid == IF amount < Owed(loan) THEN amount ELSE Owed(loan)
           rest == AfterPayment(loan, paid)
           pp == PrincipalPaid(loan, paid)
           s == loan.token
<1>1. /\ l \in Active /\ loans' = [loans EXCEPT ![l] = rest]
      /\ poolBorrowed' = [poolBorrowed EXCEPT ![s] = Positive(poolBorrowed[s] - pp)]
  BY DEF RepayLoan, Returned
<1>2. loans[l] \in LoanRecords
  BY <1>1 DEF LendInv, LoansOK, Active, NoLoan
<1>3. loan \in LoanRecords /\ loan.principal = loans[l].principal /\ loan.token = loans[l].token
      /\ loan.status = "active"
  BY <1>1, <1>2 DEF Accrued, LoanRecords, Active
<1>4. /\ loan.principal \in Nat /\ loan.interest \in Nat /\ paid \in Nat /\ paid <= Owed(loan)
      /\ Owed(loan) = loan.principal + loan.interest /\ s \in LendTokens
  <2> HIDE DEF loan
  <2> QED BY <1>3, LendConstants DEF Owed, LoanRecords
<1>5. /\ pp \in Nat /\ pp <= loan.principal
      /\ pp = IF paid > loan.interest THEN paid - loan.interest ELSE 0
  <2> HIDE DEF loan, paid
  <2> QED BY <1>4 DEF PrincipalPaid, Positive
<1>6. /\ rest \in LoanRecords /\ rest.token = s /\ rest.principal = loan.principal - pp
      /\ rest.status # "active" => rest.principal = 0
  <2> HIDE DEF loan, paid
  <2> DEFINE r == [loan EXCEPT !.interest = Positive(@ - paid), !.principal = @ - pp]
  <2>1. Positive(loan.interest - paid) \in Nat /\ loan.principal - pp \in Nat
    BY <1>4, <1>5 DEF Positive
  <2> HIDE DEF pp
  <2>2. /\ r \in LoanRecords /\ r.token = s /\ r.principal = loan.principal - pp /\ r.interest \in Nat
        /\ r.status = "active" /\ Owed(r) = r.principal + r.interest
    BY <1>3, <2>1 DEF LoanRecords, Owed
  <2>3. rest = IF Owed(r) = 0 THEN [r EXCEPT !.status = "repaid"] ELSE r
    BY DEF AfterPayment, pp
  <2> HIDE DEF r, rest
  <2>4. CASE Owed(r) = 0
    <3>1. r.principal = 0
      BY <2>1, <2>2, <2>4
    <3>2. rest = [r EXCEPT !.status = "repaid"]
      BY <2>3, <2>4
    <3> QED BY <2>2, <3>1, <3>2 DEF LoanRecords
  <2>5. CASE Owed(r) # 0
    <3>1. rest = r
      BY <2>3, <2>5
    <3> QED BY <2>2, <3>1
  <2> QED BY <2>4, <2>5
<1> HIDE DEF loan, rest, pp, paid
<1>7. LoansOK /\ LoansOK' /\ loans'[l] = rest
  BY <1>1, <1>6 DEF LendInv, LoansOK
<1>8. ASSUME NEW t \in LendTokens PROVE poolBorrowed'[t] = Out(t)' /\ poolBorrowed'[t] \in Nat
  <2>1. Lending(t)[l] = IF s = t THEN loan.principal ELSE 0
    BY <1>1, <1>3 DEF Lending
  <2>2. Lending(t)'[l] = IF s = t THEN loan.principal - pp ELSE 0
    BY <1>6, <1>7 DEF Lending, Active
  <2>3. Out(t)' = Out(t) - Lending(t)[l] + Lending(t)'[l] /\ Lending(t)[l] <= Out(t)
    BY <1>1, <1>7, OneLoanChanges
  <2>4. poolBorrowed[t] = Out(t) /\ poolBorrowed[t] \in Nat
    BY DEF LendInv
  <2>5. CASE s = t
    <3>1. Out(t)' = Out(t) - loan.principal + (loan.principal - pp) /\ loan.principal <= Out(t)
      BY <2>1, <2>2, <2>3, <2>5
    <3>2. poolBorrowed'[t] = Positive(poolBorrowed[t] - pp)
      BY <1>1, <2>4, <2>5 DEF LendInv
    <3>3. /\ Positive(poolBorrowed[t] - pp) = Out(t) - loan.principal + (loan.principal - pp)
          /\ Positive(poolBorrowed[t] - pp) \in Nat
      BY <1>4, <1>5, <2>4, <3>1 DEF Positive
    <3> QED BY <3>1, <3>2, <3>3, Zenon
  <2>6. CASE s # t
    <3>1. Out(t)' = Out(t) - 0 + 0
      BY <2>1, <2>2, <2>3, <2>6, Zenon
    <3>2. poolBorrowed'[t] = poolBorrowed[t]
      BY <1>1, <2>6 DEF LendInv
    <3>3. Out(t) - 0 + 0 = Out(t)
      BY <2>4
    <3> QED BY <2>4, <3>1, <3>2, <3>3, Zenon
  <2> QED BY <2>5, <2>6
<1> QED
  BY <1>1, <1>7, <1>8 DEF LendInv

\* So does a liquidation.
LEMMA LiquidateCounts ==
  ASSUME LendInv, NEW l \in LoanIds, NEW extra \in Nat, Liquidate(l, extra)
  PROVE  LendInv'
<1> DEFINE loan == Accrued(loans[l], extra)
<1>1. PICK due \in BOOLEAN : loans' = [loans EXCEPT ![l] = [loan EXCEPT !.due = due]]
  <2>1. PICK p \in TokenPrices, q \in TokenPrices :
          loans' = [loans EXCEPT ![l] = [loan EXCEPT !.due = loan.due \/ IsDue(loan.pledged * p, Owed(loan) * q)]]
    BY DEF Liquidate
  <2> QED BY <2>1
<1>2. l \in Active /\ poolBorrowed' = poolBorrowed
  BY DEF Liquidate
<1>3. loans[l] \in LoanRecords
  BY <1>2 DEF LendInv, LoansOK, Active, NoLoan
<1>4. /\ [loan EXCEPT !.due = due] \in LoanRecords
      /\ [loan EXCEPT !.due = due].principal = loans[l].principal
      /\ [loan EXCEPT !.due = due].token = loans[l].token
      /\ [loan EXCEPT !.due = due].status = "active"
  <2>1. /\ loan \in LoanRecords /\ loan.principal = loans[l].principal
        /\ loan.token = loans[l].token /\ loan.status = "active"
    BY <1>2, <1>3 DEF Accrued, LoanRecords, Active
  <2> HIDE DEF loan
  <2> QED BY <2>1 DEF LoanRecords
<1>5. LoansOK /\ LoansOK' /\ loans'[l] = [loan EXCEPT !.due = due]
  BY <1>1, <1>4 DEF LendInv, LoansOK
<1> HIDE DEF loan
<1>6. ASSUME NEW t \in LendTokens PROVE poolBorrowed'[t] = Out(t)'
  <2>1. Lending(t)'[l] = Lending(t)[l]
    BY <1>2, <1>4, <1>5 DEF Lending, Active
  <2>2. Out(t)' = Out(t) - Lending(t)[l] + Lending(t)'[l]
    BY <1>1, <1>5, OneLoanChanges
  <2>3. poolBorrowed[t] = Out(t) /\ Out(t) \in Nat /\ Lending(t)[l] \in Nat
    BY <1>5, LendingType DEF LendInv
  <2>4. Out(t) - Lending(t)[l] + Lending(t)[l] = Out(t)
    BY <2>3
  <2>5. Out(t)' = Out(t)
    BY <2>1, <2>2, <2>4, Zenon
  <2> QED BY <1>2, <2>3, <2>5, Zenon
<1> QED
  BY <1>2, <1>5, <1>6 DEF LendInv

\* At first nothing is lent.
LEMMA LendStart == LendInit => LendInv
<1> SUFFICES ASSUME LendInit PROVE LendInv
  OBVIOUS
<1>1. LoansOK /\ poolBorrowed \in [LendTokens -> Nat]
  BY DEF LendInit, LoansOK
<1>2. ASSUME NEW t \in LendTokens PROVE poolBorrowed[t] = Out(t)
  <2>1. \A l \in LoanIds : Lending(t)[l] = 0
    BY DEF LendInit, Lending, Active, NoLoan
  <2>2. Out(t) = 0
    BY <2>1, SumZero, LendConstants DEF Out
  <2> QED BY <2>2 DEF LendInit
<1> QED BY <1>1, <1>2 DEF LendInv

\* Every step keeps the invariant.
LEMMA LendStep == LendInv /\ [LendNext]_lendVars => LendInv'
<1> SUFFICES ASSUME LendInv, [LendNext]_lendVars PROVE LendInv'
  OBVIOUS
<1>1. ASSUME UNCHANGED lendVars PROVE LendInv'
  BY <1>1 DEF lendVars, LendInv, LoansOK, Out, Lending, Active
<1>2. ASSUME NEW l \in LoanIds, NEW extra \in 0..MaxInterest,
             Liquidate(l, extra) \/ \E amount \in LendAmounts : RepayLoan(l, amount, extra)
      PROVE  LendInv'
  <2>1. extra \in Nat
    BY <1>2, LendConstants
  <2> QED BY <1>2, <2>1, RepayCounts, LiquidateCounts
<1> QED
  BY <1>1, <1>2, CreateCounts DEF LendNext

\* The lending counted for a token is the principal of its standing loans.
THEOREM LendingCounted == LendSpec => []PoolBorrowedIsLent
<1>1. LendInv => PoolBorrowedIsLent
  BY OutIsPrincipals DEF LendInv, PoolBorrowedIsLent
<1> QED BY <1>1, LendStart, LendStep, PTL DEF LendSpec

-----------------------------------------------------------------------------
(* The exchange *)

\* The root of a positive number is positive.
LEMMA RootWithin ==
  ASSUME NEW x \in Nat \ {0}
  PROVE  Root(x) \in Nat \ {0}
<1> DEFINE Above == {r \in 0 .. x : x < (r + 1) * (r + 1)}
<1>1. x \in Above
  BY Z3
<1>2. IsFiniteSet(Above) /\ Above \subseteq Int
  <2>1. IsFiniteSet(0 .. x)
    BY FS_Interval
  <2> QED BY <2>1, FS_Subset
<1>3. PICK r \in Above : \A s \in Above : r <= s
  <2> HIDE DEF Above
  <2> QED BY <1>1, <1>2, LeastMember
<1>4. r \in 0 .. x /\ x < (r + 1) * (r + 1)
  OBVIOUS
<1>5. r * r <= x
  <2>1. CASE r = 0
    BY <2>1
  <2>2. CASE r # 0
    <3>1. r - 1 \in 0 .. x /\ ~(r <= r - 1)
      BY <1>4, <2>2
    <3>2. ~(x < ((r - 1) + 1) * ((r - 1) + 1))
      BY <1>3, <3>1
    <3>3. (r - 1) + 1 = r
      BY <1>4
    <3>4. ~(x < r * r) /\ r * r \in Nat
      BY <1>4, <3>2, <3>3, Products
    <3> QED BY <3>4
  <2> QED BY <2>1, <2>2
<1>6. Root(x) \in 0 .. x /\ x < (Root(x) + 1) * (Root(x) + 1)
  <2> HIDE DEF Above
  <2> QED BY <1>4, <1>5 DEF Root
<1>7. Root(x) # 0
  <2> SUFFICES ASSUME Root(x) = 0 PROVE FALSE
    OBVIOUS
  <2>1. x < (0 + 1) * (0 + 1)
    BY <1>6
  <2> QED BY <2>1
<1> QED BY <1>6, <1>7

-----------------------------------------------------------------------------
(* The invariant *)

\* A pool.
PoolType == [created : BOOLEAN, reserves : [1..2 -> Nat], totalLiquidity : Nat, liquidity : [Providers -> Nat]]

\* Those who share a pool share all of it, and it has both coins while it has them.
Whole(pool) ==
  /\ pool.totalLiquidity = SumOf(pool.liquidity, Providers)
  /\ \A i \in 1..2 : pool.reserves[i] > 0 <=> pool.totalLiquidity > 0

\* The inductive invariant.
ExchangeInv ==
  /\ pools \in [Pairs -> PoolType] /\ held \in [Coins -> Nat]
  /\ PoolsAreWhole

\* The types of a pool's fields.
LEMMA PoolTypes ==
  ASSUME ExchangeInv, NEW p \in Pairs
  PROVE  /\ pools[p] \in PoolType /\ Whole(pools[p])
         /\ pools[p].reserves[1] \in Nat /\ pools[p].reserves[2] \in Nat
         /\ pools[p].totalLiquidity \in Nat /\ pools[p].liquidity \in [Providers -> Nat]
<1>1. pools[p] \in PoolType /\ Whole(pools[p])
  BY DEF ExchangeInv, PoolsAreWhole, Whole
<1> QED BY <1>1 DEF PoolType

\* Where pair p has coin c.
Sides(p, c) == {i \in 1..2 : p[i] = c}

\* A pool counts on what it has of a coin.
LEMMA CoinOfPool ==
  ASSUME NEW p \in Pairs, NEW r \in [1..2 -> Nat], NEW c
  PROVE  SumOf(r, Sides(p, c)) = IF c = p[1] THEN r[1] ELSE IF c = p[2] THEN r[2] ELSE 0
<1>1. p[1] # p[2] /\ r[1] \in Nat /\ r[2] \in Nat
  BY ExchangeConstants
<1>2. ASSUME NEW j \in 1..2 PROVE SumOf(r, {j}) = r[j]
  <2>1. IsFiniteSet({}) /\ j \notin {} /\ {} \cup {j} = {j} /\ \A x \in {} \cup {j} : r[x] \in Int
    BY FS_EmptySet
  <2>2. SumOf(r, {} \cup {j}) = r[j] + SumOf(r, {})
    BY <2>1, SumAdd
  <2>3. r[j] \in Nat
    OBVIOUS
  <2> QED BY <2>1, <2>2, <2>3, SumEmpty
<1>3. CASE c = p[1]
  <2>1. Sides(p, c) = {1}
    BY <1>1, <1>3 DEF Sides
  <2> QED BY <1>2, <1>3, <2>1
<1>4. CASE c # p[1] /\ c = p[2]
  <2>1. Sides(p, c) = {2}
    BY <1>1, <1>4 DEF Sides
  <2> QED BY <1>2, <1>4, <2>1
<1>5. CASE c # p[1] /\ c # p[2]
  <2>1. Sides(p, c) = {}
    BY <1>5 DEF Sides
  <2> QED BY <1>5, <2>1, SumEmpty
<1> QED BY <1>3, <1>4, <1>5

\* What the pools count on of coin c, one by one.
Counts(P, c) == [p \in Pairs |-> SumOf(P[p].reserves, Sides(p, c))]

\* One pool changed, and the exchange's balance with it.
LEMMA PoolChanged ==
  ASSUME ExchangeInv, NEW p \in Pairs, NEW q \in PoolType, Whole(q), NEW moved,
         pools' = [pools EXCEPT ![p] = q], Move(p, moved),
         moved[1] = q.reserves[1] - pools[p].reserves[1], moved[2] = q.reserves[2] - pools[p].reserves[2]
  PROVE  ExchangeInv'
<1>1. /\ \A o \in Pairs : pools'[o] = IF o = p THEN q ELSE pools[o]
      /\ pools' \in [Pairs -> PoolType]
  BY DEF ExchangeInv
<1>2. \A o \in Pairs : Whole(pools'[o])
  BY <1>1, PoolTypes
<1>3. q.reserves \in [1..2 -> Nat] /\ pools[p].reserves \in [1..2 -> Nat] /\ pools[p] \in PoolType
  BY DEF PoolType, ExchangeInv
<1>4. ASSUME NEW c \in Coins PROVE held'[c] \in Nat /\ held'[c] = InPools(c)'
  <2> DEFINE f == Counts(pools, c)
             g == Counts(pools', c)
             change == IF c = p[1] THEN moved[1] ELSE IF c = p[2] THEN moved[2] ELSE 0
  <2>1. held[c] = SumOf(f, Pairs)
    BY DEF ExchangeInv, PoolsAreWhole, InPools, Counts, Sides
  <2>2. InPools(c)' = SumOf(g, Pairs)
    BY DEF InPools, Counts, Sides
  <2>3. \A o \in Pairs : f[o] \in Nat /\ g[o] \in Nat
    <3> SUFFICES ASSUME NEW o \in Pairs PROVE f[o] \in Nat /\ g[o] \in Nat
      OBVIOUS
    <3>1. pools[o].reserves \in [1..2 -> Nat] /\ pools'[o].reserves \in [1..2 -> Nat]
      BY <1>1 DEF PoolType, ExchangeInv
    <3>2. /\ f[o] = IF c = o[1] THEN pools[o].reserves[1] ELSE IF c = o[2] THEN pools[o].reserves[2] ELSE 0
          /\ g[o] = IF c = o[1] THEN pools'[o].reserves[1] ELSE IF c = o[2] THEN pools'[o].reserves[2] ELSE 0
      <4>1. f[o] = SumOf(pools[o].reserves, Sides(o, c)) /\ g[o] = SumOf(pools'[o].reserves, Sides(o, c))
        BY DEF Counts
      <4> HIDE DEF f, g
      <4> QED BY <3>1, <4>1, CoinOfPool
    <3>3. /\ pools[o].reserves[1] \in Nat /\ pools[o].reserves[2] \in Nat
          /\ pools'[o].reserves[1] \in Nat /\ pools'[o].reserves[2] \in Nat
      BY <3>1
    <3> HIDE DEF f, g
    <3> QED BY <3>2, <3>3
  <2>4. \A o \in Pairs \ {p} : f[o] = g[o]
    BY <1>1 DEF Counts
  <2>5. /\ f[p] = IF c = p[1] THEN pools[p].reserves[1] ELSE IF c = p[2] THEN pools[p].reserves[2] ELSE 0
        /\ g[p] = IF c = p[1] THEN q.reserves[1] ELSE IF c = p[2] THEN q.reserves[2] ELSE 0
    <3>1. f[p] = SumOf(pools[p].reserves, Sides(p, c)) /\ g[p] = SumOf(q.reserves, Sides(p, c))
      BY <1>1 DEF Counts
    <3> HIDE DEF f, g
    <3> QED BY <1>3, <3>1, CoinOfPool
  <2>6. /\ pools[p].reserves[1] \in Nat /\ pools[p].reserves[2] \in Nat
        /\ q.reserves[1] \in Nat /\ q.reserves[2] \in Nat
    BY <1>3
  <2>7. held'[c] = held[c] + change
    BY DEF Move
  <2> HIDE DEF f, g
  <2>8. change = g[p] - f[p]
    BY <2>5, <2>6
  <2> HIDE DEF change
  <2>9. SumOf(g, Pairs) = SumOf(f, Pairs) - f[p] + g[p]
    BY <2>3, <2>4, SumChange, ExchangeConstants
  <2>10. SumOf(f, Pairs) \in Nat /\ SumOf(g, Pairs) \in Nat
    BY <2>3, SumNat, ExchangeConstants
  <2>11. SumOf(f, Pairs) + (g[p] - f[p]) = SumOf(g, Pairs)
    BY <2>3, <2>9, <2>10
  <2>12. held'[c] = SumOf(g, Pairs)
    BY <2>1, <2>7, <2>8, <2>11, Zenon
  <2> QED BY <2>2, <2>10, <2>12, Zenon
<1>5. held' \in [Coins -> Nat]
  <2>1. held' = [c \in Coins |-> held'[c]]
    BY DEF Move
  <2> QED BY <1>4, <2>1
<1>6. PoolsAreWhole'
  BY <1>2, <1>4 DEF PoolsAreWhole, Whole
<1> QED BY <1>1, <1>5, <1>6 DEF ExchangeInv

\* Liquidity added or taken, with the coins.
LEMMA PlusKeeps ==
  ASSUME ExchangeInv, NEW p \in Pairs, NEW u \in Providers, NEW given, NEW minted \in Int,
         given[1] \in Int, given[2] \in Int,
         pools[p].reserves[1] + given[1] \in Nat, pools[p].reserves[2] + given[2] \in Nat,
         pools[p].liquidity[u] + minted \in Nat,
         \A i \in 1..2 : pools[p].reserves[i] + given[i] > 0 <=> pools[p].totalLiquidity + minted > 0,
         pools' = [pools EXCEPT ![p] = Plus(pools[p], given, u, minted)], Move(p, given)
  PROVE  ExchangeInv'
<1> DEFINE old == pools[p]
           q == Plus(old, given, u, minted)
           reserves == <<old.reserves[1] + given[1], old.reserves[2] + given[2]>>
           liquidity == [old.liquidity EXCEPT ![u] = old.liquidity[u] + minted]
           total == old.totalLiquidity + minted
<1>1. /\ old \in PoolType /\ Whole(old)
      /\ old.reserves[1] \in Nat /\ old.reserves[2] \in Nat
      /\ old.totalLiquidity \in Nat /\ old.liquidity \in [Providers -> Nat]
  BY PoolTypes
<1>2. reserves \in [1..2 -> Nat] /\ reserves[1] = old.reserves[1] + given[1] /\ reserves[2] = old.reserves[2] + given[2]
  OBVIOUS
<1>3. liquidity \in [Providers -> Nat] /\ \A v \in Providers : liquidity[v] = IF v = u THEN old.liquidity[u] + minted ELSE old.liquidity[v]
  BY <1>1
<1>4. q.reserves = reserves /\ q.totalLiquidity = total /\ q.liquidity = liquidity /\ q.created = TRUE
  BY <1>1 DEF Plus, PoolType
<1>5. ASSUME reserves \in [1..2 -> Nat], total \in Nat, liquidity \in [Providers -> Nat]
      PROVE  q \in PoolType
  BY <1>1, <1>5 DEF Plus, PoolType
<1> HIDE DEF q, reserves, liquidity, total
<1> USE DEF total
<1>6. total = SumOf(liquidity, Providers) /\ total \in Nat
  <2>1. /\ \A v \in Providers : old.liquidity[v] \in Int /\ liquidity[v] \in Int /\ liquidity[v] \in Nat
        /\ \A v \in Providers \ {u} : old.liquidity[v] = liquidity[v]
    BY <1>1, <1>3
  <2>2. SumOf(liquidity, Providers) = SumOf(old.liquidity, Providers) - old.liquidity[u] + liquidity[u]
    BY <2>1, SumChange, ExchangeConstants
  <2>3. SumOf(old.liquidity, Providers) = old.totalLiquidity /\ liquidity[u] = old.liquidity[u] + minted
    BY <1>1, <1>3 DEF Whole
  <2>4. old.totalLiquidity - old.liquidity[u] + (old.liquidity[u] + minted) = total
    BY <1>1, <2>1
  <2>5. SumOf(liquidity, Providers) = total
    BY <2>2, <2>3, <2>4, Zenon
  <2>6. SumOf(liquidity, Providers) \in Nat
    BY <2>1, SumNat, ExchangeConstants
  <2> HIDE DEF total
  <2> QED BY <2>5, <2>6, Zenon
<1>7. \A i \in 1..2 : reserves[i] > 0 <=> total > 0
  <2> SUFFICES ASSUME NEW i \in 1..2 PROVE reserves[i] > 0 <=> total > 0
    OBVIOUS
  <2>1. CASE i = 1
    BY <1>2, <2>1
  <2>2. CASE i = 2
    BY <1>2, <2>2
  <2> QED BY <2>1, <2>2
<1> HIDE DEF total
<1>8. q \in PoolType
  BY <1>2, <1>3, <1>5, <1>6 DEF PoolType
<1>9. Whole(q)
  BY <1>4, <1>6, <1>7 DEF Whole
<1>10. given[1] = q.reserves[1] - old.reserves[1] /\ given[2] = q.reserves[2] - old.reserves[2]
  BY <1>1, <1>2, <1>4
<1>11. pools' = [pools EXCEPT ![p] = q]
  BY DEF q
<1> QED BY <1>8, <1>9, <1>10, <1>11, PoolChanged

-----------------------------------------------------------------------------
(* Steps *)

\* At first there are no pools.
LEMMA ExchangeStart == ExchangeInit => ExchangeInv
<1> SUFFICES ASSUME ExchangeInit PROVE ExchangeInv
  OBVIOUS
<1>1. NoPool \in PoolType
  <2>1. <<0, 0>> \in [1..2 -> Nat]
    OBVIOUS
  <2> QED BY <2>1 DEF NoPool, PoolType
<1>2. NoPool.reserves[1] = 0 /\ NoPool.reserves[2] = 0 /\ NoPool.totalLiquidity = 0
  BY DEF NoPool
<1>3. SumOf(NoPool.liquidity, Providers) = 0
  <2>1. \A u \in Providers : NoPool.liquidity[u] = 0
    BY DEF NoPool
  <2> QED BY <2>1, SumZero, ExchangeConstants
<1>4. \A p \in Pairs : pools[p] = NoPool
  BY DEF ExchangeInit
<1>5. \A c \in Coins : InPools(c) = 0
  <2> SUFFICES ASSUME NEW c \in Coins PROVE InPools(c) = 0
    OBVIOUS
  <2>1. \A p \in Pairs : Counts(pools, c)[p] = 0
    <3> SUFFICES ASSUME NEW p \in Pairs PROVE Counts(pools, c)[p] = 0
      OBVIOUS
    <3>1. NoPool.reserves \in [1..2 -> Nat]
      BY <1>1 DEF PoolType
    <3>2. SumOf(NoPool.reserves, Sides(p, c)) = 0
      BY <1>2, <3>1, CoinOfPool
    <3> QED BY <1>4, <3>2 DEF Counts
  <2>2. SumOf(Counts(pools, c), Pairs) = 0
    BY <2>1, SumZero, ExchangeConstants
  <2> QED BY <2>2 DEF InPools, Counts, Sides
<1>6. \A i \in 1..2 : NoPool.reserves[i] > 0 <=> NoPool.totalLiquidity > 0
  BY <1>2
<1>7. PoolsAreWhole
  BY <1>2, <1>3, <1>4, <1>5, <1>6 DEF PoolsAreWhole, ExchangeInit
<1> QED BY <1>1, <1>4, <1>7 DEF ExchangeInv, ExchangeInit

\* Whoever creates a pool owns it.
LEMMA CreatePoolStep ==
  ASSUME ExchangeInv, NEW p \in Pairs, NEW u \in Providers, NEW given \in CoinAmounts \X CoinAmounts,
         CreatePool(p, u, given)
  PROVE  ExchangeInv'
<1>1. given[1] \in Nat \ {0} /\ given[2] \in Nat \ {0}
  BY ExchangeConstants
<1>2. given[1] * given[2] \in Nat \ {0}
  BY <1>1, Z3
<1> DEFINE minted == Root(given[1] * given[2])
<1>3. minted \in Nat \ {0}
  BY <1>2, RootWithin
<1>4. pools' = [pools EXCEPT ![p] = Plus(pools[p], given, u, minted)] /\ Move(p, given)
  BY DEF CreatePool
<1> HIDE DEF minted
<1>5. /\ pools[p].reserves[1] \in Nat /\ pools[p].reserves[2] \in Nat
      /\ pools[p].totalLiquidity \in Nat /\ pools[p].liquidity[u] \in Nat
  BY PoolTypes
<1>6. /\ pools[p].reserves[1] + given[1] \in Nat /\ pools[p].reserves[2] + given[2] \in Nat
      /\ pools[p].liquidity[u] + minted \in Nat
      /\ pools[p].reserves[1] + given[1] > 0 /\ pools[p].reserves[2] + given[2] > 0
      /\ pools[p].totalLiquidity + minted > 0
  BY <1>1, <1>3, <1>5
<1>7. \A i \in 1..2 : pools[p].reserves[i] + given[i] > 0 <=> pools[p].totalLiquidity + minted > 0
  BY <1>6
<1>8. given[1] \in Int /\ given[2] \in Int /\ minted \in Int
  BY <1>1, <1>3
<1> QED BY <1>4, <1>6, <1>7, <1>8, PlusKeeps

\* What somebody adds is a natural number of each coin.
LEMMA RatioType ==
  ASSUME NEW pool \in PoolType, Whole(pool), NEW desired \in CoinAmounts \X CoinAmounts, MayAdd(pool, desired)
  PROVE  /\ InRatio(pool, desired)[1] \in Nat \ {0} /\ InRatio(pool, desired)[2] \in Nat \ {0}
         /\ pool.reserves[1] \in Nat \ {0} /\ pool.reserves[2] \in Nat \ {0} /\ pool.totalLiquidity \in Nat \ {0}
         /\ Minted(pool, InRatio(pool, desired)) \in Nat
<1>1. desired[1] \in Nat /\ desired[2] \in Nat
  BY ExchangeConstants
<1>2. pool.reserves[1] \in Nat /\ pool.reserves[2] \in Nat /\ pool.totalLiquidity \in Nat
  BY DEF PoolType
<1>3. pool.reserves[1] > 0 /\ pool.totalLiquidity > 0 /\ pool.reserves[2] > 0
  BY DEF MayAdd, Whole
<1> DEFINE second == (desired[1] * pool.reserves[2]) \div pool.reserves[1]
           first == (desired[2] * pool.reserves[1]) \div pool.reserves[2]
<1>4. second \in Nat /\ first \in Nat
  <2> DEFINE x == desired[1] * pool.reserves[2]
             y == desired[2] * pool.reserves[1]
  <2>1. x \in Nat /\ y \in Nat
    BY <1>1, <1>2, Products
  <2>2. pool.reserves[1] \in Nat \ {0} /\ pool.reserves[2] \in Nat \ {0}
    BY <1>2, <1>3
  <2> HIDE DEF x, y
  <2>3. y \div pool.reserves[2] \in Nat /\ x \div pool.reserves[1] \in Nat
    BY <2>1, <2>2, Division
  <2> QED BY <2>3 DEF x, y
<1>5. InRatio(pool, desired) = IF second <= desired[2] THEN <<desired[1], second>> ELSE <<first, desired[2]>>
  BY DEF InRatio
<1> HIDE DEF first, second
<1>6. InRatio(pool, desired)[1] \in Nat \ {0} /\ InRatio(pool, desired)[2] \in Nat \ {0}
  <2>1. InRatio(pool, desired)[1] > 0 /\ InRatio(pool, desired)[2] > 0
    BY DEF MayAdd
  <2>2. InRatio(pool, desired)[1] \in Nat /\ InRatio(pool, desired)[2] \in Nat
    BY <1>1, <1>4, <1>5
  <2> QED BY <2>1, <2>2
<1>7. Minted(pool, InRatio(pool, desired)) \in Nat
  <2> DEFINE g == InRatio(pool, desired)[1]
  <2>1. g \in Nat
    BY <1>6
  <2> HIDE DEF g
  <2> DEFINE x == g * pool.totalLiquidity
  <2>2. x \in Nat /\ pool.reserves[1] \in Nat \ {0}
    BY <1>2, <1>3, <2>1, Products
  <2> HIDE DEF x
  <2>3. x \div pool.reserves[1] \in Nat
    BY <2>2, Division
  <2> QED BY <2>3 DEF Minted, g, x
<1> QED BY <1>2, <1>3, <1>6, <1>7

\* Adding to a pool mints a share of it.
LEMMA AddLiquidityStep ==
  ASSUME ExchangeInv, NEW p \in Pairs, NEW u \in Providers, NEW desired \in CoinAmounts \X CoinAmounts,
         AddLiquidity(p, u, desired)
  PROVE  ExchangeInv'
<1> DEFINE given == InRatio(pools[p], desired)
           minted == Minted(pools[p], given)
<1>1. /\ pools[p].reserves[1] \in Nat /\ pools[p].reserves[2] \in Nat
      /\ pools[p].totalLiquidity \in Nat /\ pools[p].liquidity[u] \in Nat
  BY PoolTypes
<1>2. MayAdd(pools[p], desired) /\ pools[p] \in PoolType /\ Whole(pools[p])
  BY PoolTypes DEF AddLiquidity
<1>3. /\ given[1] \in Nat \ {0} /\ given[2] \in Nat \ {0} /\ minted \in Nat
      /\ pools[p].totalLiquidity > 0
  BY <1>2, RatioType
<1>4. pools' = [pools EXCEPT ![p] = Plus(pools[p], given, u, minted)] /\ Move(p, given)
  BY DEF AddLiquidity
<1> HIDE DEF given, minted
<1>5. /\ pools[p].reserves[1] + given[1] \in Nat /\ pools[p].reserves[2] + given[2] \in Nat
      /\ pools[p].liquidity[u] + minted \in Nat
      /\ pools[p].reserves[1] + given[1] > 0 /\ pools[p].reserves[2] + given[2] > 0
      /\ pools[p].totalLiquidity + minted > 0
  BY <1>1, <1>3
<1>6. \A i \in 1..2 : pools[p].reserves[i] + given[i] > 0 <=> pools[p].totalLiquidity + minted > 0
  BY <1>5
<1>7. given[1] \in Int /\ given[2] \in Int /\ minted \in Int
  BY <1>3
<1> QED BY <1>4, <1>5, <1>6, <1>7, PlusKeeps

\* A share of a reserve is within it, and is all of it for all of the liquidity.
LEMMA ShareWithin ==
  ASSUME NEW r \in Nat, NEW l \in Nat \ {0}, NEW amount \in 1..l, r > 0
  PROVE  /\ (amount * r) \div l \in Nat /\ (amount * r) \div l <= r
         /\ r - (amount * r) \div l > 0 <=> l - amount > 0
<1> DEFINE share == (amount * r) \div l
<1>1. amount \in Nat /\ amount * r \in Nat /\ r * amount = amount * r /\ r * l = l * r /\ l * r \in Nat
  BY Products, Z3
<1>2. share \in Nat
  BY <1>1, Division
<1>3. CASE amount = l
  <2>1. share = r
    BY <1>3, QuotientWhole
  <2> HIDE DEF share
  <2>2. share \in Nat /\ share <= r /\ (r - share > 0 <=> l - amount > 0)
    BY <1>3, <2>1
  <2> QED BY <2>2 DEF share
<1>4. CASE amount # l
  <2>1. r * amount < r * l
    BY <1>1, <1>4, StrictlyMonotone
  <2>2. amount * r < l * r
    BY <1>1, <2>1
  <2>3. share < r
    BY <1>1, <2>2, QuotientBelow
  <2> HIDE DEF share
  <2>4. share \in Nat /\ share <= r /\ (r - share > 0 <=> l - amount > 0)
    BY <1>2, <1>4, <2>3
  <2> QED BY <2>4 DEF share
<1> QED BY <1>3, <1>4

\* Leaving takes a share, and all of it takes everything.
LEMMA RemoveLiquidityStep ==
  ASSUME ExchangeInv, NEW p \in Pairs, NEW u \in Providers, NEW amount \in 1..pools[p].totalLiquidity,
         RemoveLiquidity(p, u, amount)
  PROVE  ExchangeInv'
<1> DEFINE l == pools[p].totalLiquidity
           taken == Share(pools[p], amount)
           minus == [i \in 1..2 |-> - taken[i]]
<1>1. /\ pools[p].reserves[1] \in Nat /\ pools[p].reserves[2] \in Nat
      /\ l \in Nat /\ pools[p].liquidity[u] \in Nat /\ Whole(pools[p])
  BY PoolTypes
<1>2. amount \in Nat \ {0} /\ amount <= l /\ amount <= pools[p].liquidity[u]
  BY <1>1 DEF RemoveLiquidity
<1>3. l \in Nat \ {0} /\ pools[p].reserves[1] > 0 /\ pools[p].reserves[2] > 0
  BY <1>1, <1>2 DEF Whole
<1>4. /\ pools' = [pools EXCEPT ![p] = Plus(pools[p], minus, u, - amount)] /\ Move(p, minus)
  BY DEF RemoveLiquidity
<1>5. \A i \in 1..2 : taken[i] = (amount * pools[p].reserves[i]) \div l
  BY DEF Share
<1> HIDE DEF taken
<1>6. ASSUME NEW i \in 1..2, pools[p].reserves[i] \in Nat, pools[p].reserves[i] > 0
      PROVE  /\ taken[i] \in Nat /\ taken[i] <= pools[p].reserves[i]
             /\ pools[p].reserves[i] - taken[i] > 0 <=> l - amount > 0
  BY <1>2, <1>3, <1>5, <1>6, ShareWithin
<1>7. minus[1] = - taken[1] /\ minus[2] = - taken[2]
  OBVIOUS
<1> HIDE DEF minus, l
<1>8. /\ taken[1] \in Nat /\ taken[1] <= pools[p].reserves[1] /\ (pools[p].reserves[1] - taken[1] > 0 <=> l - amount > 0)
      /\ taken[2] \in Nat /\ taken[2] <= pools[p].reserves[2] /\ (pools[p].reserves[2] - taken[2] > 0 <=> l - amount > 0)
  BY <1>1, <1>3, <1>6
<1>9. /\ minus[1] \in Int /\ minus[2] \in Int /\ - amount \in Int
      /\ pools[p].reserves[1] + minus[1] \in Nat /\ pools[p].reserves[2] + minus[2] \in Nat
      /\ pools[p].liquidity[u] + (- amount) \in Nat
      /\ pools[p].reserves[1] + minus[1] > 0 <=> l + (- amount) > 0
      /\ pools[p].reserves[2] + minus[2] > 0 <=> l + (- amount) > 0
  BY <1>1, <1>2, <1>3, <1>7, <1>8
<1>10. \A i \in 1..2 : pools[p].reserves[i] + minus[i] > 0 <=> pools[p].totalLiquidity + (- amount) > 0
  BY <1>9 DEF l
<1> DEFINE minted == - amount
<1>11. /\ minted \in Int /\ pools[p].liquidity[u] + minted \in Nat
       /\ \A i \in 1..2 : pools[p].reserves[i] + minus[i] > 0 <=> pools[p].totalLiquidity + minted > 0
       /\ pools' = [pools EXCEPT ![p] = Plus(pools[p], minus, u, minted)]
  BY <1>4, <1>9, <1>10
<1> HIDE DEF minted
<1> QED BY <1>4, <1>9, <1>11, PlusKeeps

\* A swap leaves some of both coins.
LEMMA SwapStep ==
  ASSUME ExchangeInv, NEW p \in Pairs, NEW i \in 1..2, NEW amountIn \in CoinAmounts, Swap(p, i, amountIn)
  PROVE  ExchangeInv'
<1> DEFINE old == pools[p]
           out == AmountOut(old, i, amountIn)
           after == Swapped(old, i, amountIn)
           o == 3 - i
           reserves == [[old.reserves EXCEPT ![i] = old.reserves[i] + amountIn] EXCEPT ![o] = old.reserves[o] - out]
           moved == [j \in 1..2 |-> after.reserves[j] - old.reserves[j]]
<1>1. /\ old \in PoolType /\ Whole(old) /\ old.reserves \in [1..2 -> Nat] /\ old.totalLiquidity \in Nat
  BY PoolTypes DEF PoolType
<1>2. o \in 1..2 /\ o # i /\ \A j \in 1..2 : j = i \/ j = o
  OBVIOUS
<1> HIDE DEF o
<1>3. old.reserves[i] \in Nat /\ old.reserves[o] \in Nat /\ amountIn \in Nat
  BY <1>1, <1>2, ExchangeConstants
<1>4. /\ old.reserves[i] > 0 /\ 0 < out /\ out < old.reserves[o]
      /\ pools' = [pools EXCEPT ![p] = after] /\ Move(p, moved)
  BY DEF Swap, MaySwap, o
<1>5. out \in Nat
  <2>1. amountIn * old.reserves[o] \in Nat
    BY <1>3, Products
  <2>2. old.reserves[i] + amountIn \in Nat \ {0}
    BY <1>3, <1>4
  <2> HIDE DEF old
  <2>3. (amountIn * old.reserves[o]) \div (old.reserves[i] + amountIn) \in Nat
    BY <2>1, <2>2, Division
  <2> QED BY <2>3 DEF AmountOut, o
<1> HIDE DEF out
<1>6. after = [old EXCEPT !.reserves = reserves]
  BY <1>1, <1>2 DEF Swapped, PoolType, out, o
<1>7. /\ reserves \in [1..2 -> Nat]
      /\ reserves[i] = old.reserves[i] + amountIn /\ reserves[o] = old.reserves[o] - out
      /\ reserves[i] > 0 /\ reserves[o] > 0
  BY <1>1, <1>2, <1>3, <1>4, <1>5
<1> HIDE DEF reserves, after
<1>8. /\ after \in PoolType /\ after.reserves = reserves
      /\ after.totalLiquidity = old.totalLiquidity /\ after.liquidity = old.liquidity
  BY <1>1, <1>6, <1>7 DEF PoolType
<1>9. old.totalLiquidity > 0
  BY <1>1, <1>4 DEF Whole
<1>10. Whole(after)
  <2>1. \A j \in 1..2 : reserves[j] > 0
    BY <1>2, <1>7
  <2> QED BY <1>1, <1>8, <1>9, <2>1 DEF Whole
<1>11. moved[1] = after.reserves[1] - old.reserves[1] /\ moved[2] = after.reserves[2] - old.reserves[2]
  OBVIOUS
<1> HIDE DEF moved
<1> QED BY <1>4, <1>8, <1>10, <1>11, PoolChanged

\* Every step keeps the invariant.
LEMMA ExchangeStep == ExchangeInv /\ [ExchangeNext]_exchangeVars => ExchangeInv'
<1> SUFFICES ASSUME ExchangeInv, [ExchangeNext]_exchangeVars PROVE ExchangeInv'
  OBVIOUS
<1>1. CASE UNCHANGED exchangeVars
  BY <1>1 DEF exchangeVars, ExchangeInv, PoolsAreWhole, InPools
<1> QED
  BY <1>1, CreatePoolStep, AddLiquidityStep, RemoveLiquidityStep, SwapStep DEF ExchangeNext

-----------------------------------------------------------------------------
(* Rounding *)

\* Adding and leaving again returns no more of either coin.
LEMMA AddAndLeave ==
  ASSUME NEW pool \in PoolType, Whole(pool), NEW desired \in CoinAmounts \X CoinAmounts, MayAdd(pool, desired), NEW u
  PROVE  LET given == InRatio(pool, desired)
             minted == Minted(pool, given)
             after == Plus(pool, given, u, minted)
         IN  \A i \in 1..2 : Share(after, minted)[i] <= given[i]
<1> DEFINE given == InRatio(pool, desired)
           m == Minted(pool, given)
           after == Plus(pool, given, u, m)
           r1 == pool.reserves[1]
           r2 == pool.reserves[2]
           l == pool.totalLiquidity
           g1 == given[1]
           g2 == given[2]
           d1 == desired[1]
           d2 == desired[2]
<1>1. /\ g1 \in Nat \ {0} /\ g2 \in Nat \ {0} /\ m \in Nat
      /\ r1 \in Nat \ {0} /\ r2 \in Nat \ {0} /\ l \in Nat \ {0}
  BY RatioType
<1>2. d1 \in Nat /\ d2 \in Nat
  BY ExchangeConstants
<1>3. m = (g1 * l) \div r1
  BY DEF Minted
<1>4. \/ g1 = d1 /\ g2 = (d1 * r2) \div r1
      \/ g2 = d2 /\ g1 = (d2 * r1) \div r2
  BY DEF InRatio
<1>5. after.reserves[1] = r1 + g1 /\ after.reserves[2] = r2 + g2 /\ after.totalLiquidity = l + m
  BY DEF Plus, PoolType
<1>6. /\ Share(after, m)[1] = (m * after.reserves[1]) \div after.totalLiquidity
      /\ Share(after, m)[2] = (m * after.reserves[2]) \div after.totalLiquidity
  BY DEF Share
<1> HIDE DEF after, m, g1, g2, r1, r2, l, d1, d2
<1>7. r1 * m <= g1 * l /\ g1 * l \in Nat
  <2>1. g1 * l \in Nat
    BY <1>1, Products
  <2> QED BY <1>1, <1>3, <2>1, Division
<1>8. m * r1 < (g1 + 1) * l
  <2>1. m * r1 = r1 * m /\ (g1 + 1) * l = g1 * l + l /\ r1 * m \in Nat
    BY <1>1, Z3
  <2> QED BY <1>1, <1>7, <2>1
<1>9. m * r2 < (g2 + 1) * l
  <2>1. g1 * r2 < (g2 + 1) * r1
    <3>1. CASE g1 = d1 /\ g2 = (d1 * r2) \div r1
      <4>1. d1 * r2 \in Nat
        BY <1>1, <1>2, Products
      <4>2. d1 * r2 <= r1 * g2 + (r1 - 1)
        BY <1>1, <3>1, <4>1, Division
      <4>3. (g2 + 1) * r1 = r1 * g2 + r1 /\ r1 * g2 \in Nat
        BY <1>1, Z3
      <4> QED BY <1>1, <3>1, <4>1, <4>2, <4>3
    <3>2. CASE g2 = d2 /\ g1 = (d2 * r1) \div r2
      <4>1. d2 * r1 \in Nat
        BY <1>1, <1>2, Products
      <4>2. r2 * g1 <= d2 * r1
        BY <1>1, <3>2, <4>1, Division
      <4>3. (g2 + 1) * r1 = d2 * r1 + r1 /\ g1 * r2 = r2 * g1 /\ r2 * g1 \in Nat
        BY <1>1, <1>2, <3>2, Z3
      <4> QED BY <1>1, <4>1, <4>2, <4>3
    <3> QED BY <1>4, <3>1, <3>2
  <2> DEFINE e == g2 + 1
  <2>2. e \in Nat /\ g1 * r2 < e * r1
    BY <1>1, <2>1
  <2> HIDE DEF e
  <2>3. m * r2 < e * l
    BY <1>1, <1>7, <2>2, RatioBound
  <2> QED BY <2>3 DEF e
<1>10. (m * (r1 + g1)) \div (l + m) <= g1 /\ (m * (r2 + g2)) \div (l + m) <= g2
  BY <1>1, <1>8, <1>9, ShareBound
<1>11. Share(after, m)[1] <= g1 /\ Share(after, m)[2] <= g2
  BY <1>5, <1>6, <1>10
<1>12. \A i \in 1..2 : Share(after, m)[i] <= given[i]
  BY <1>11 DEF g1, g2
<1> QED BY <1>12 DEF after, m

\* Swapping there and back returns no more than went in.
LEMMA SwapAndBack ==
  ASSUME NEW pool \in PoolType, Whole(pool), NEW i \in 1..2, NEW amountIn \in CoinAmounts,
         pool.totalLiquidity > 0, MaySwap(pool, i, amountIn)
  PROVE  AmountOut(Swapped(pool, i, amountIn), 3 - i, AmountOut(pool, i, amountIn)) <= amountIn
<1> DEFINE o == 3 - i
           ri == pool.reserves[i]
           ro == pool.reserves[o]
           out == AmountOut(pool, i, amountIn)
           after == Swapped(pool, i, amountIn)
<1>1. o \in 1..2 /\ o # i /\ 3 - o = i
  OBVIOUS
<1>2. ri \in Nat \ {0} /\ ro \in Nat \ {0} /\ amountIn \in Nat
  BY <1>1, ExchangeConstants DEF PoolType, Whole
<1>3. out = (amountIn * ro) \div (ri + amountIn)
  BY DEF AmountOut
<1>4. 0 < out /\ out < ro
  BY DEF MaySwap
<1>5. after.reserves[i] = ri + amountIn /\ after.reserves[o] = ro - out
  BY <1>1 DEF Swapped, PoolType
<1>6. AmountOut(after, o, out) = (out * after.reserves[i]) \div (after.reserves[o] + out)
  BY <1>1 DEF AmountOut
<1> HIDE DEF o, ri, ro, out, after
<1>7. amountIn * ro \in Nat /\ ri + amountIn \in Nat \ {0}
  BY <1>2, Products
<1>8. out \in Nat /\ (ri + amountIn) * out <= amountIn * ro
  BY <1>3, <1>7, Division
<1> DEFINE x == out * (ri + amountIn)
<1>9. x \in Nat /\ x <= ro * amountIn
  BY <1>2, <1>8, Z3
<1> HIDE DEF x
<1>10. x \div ro <= amountIn
  BY <1>2, <1>9, QuotientAtMost
<1>11. after.reserves[o] + out = ro
  BY <1>2, <1>5, <1>8
<1>12. AmountOut(after, o, out) = x \div ro
  BY <1>5, <1>6, <1>11 DEF x
<1>13. AmountOut(after, o, out) <= amountIn
  BY <1>10, <1>12
<1> QED BY <1>13 DEF after, o, out

\* Those who provide to a pool share all of it, the exchange holds what its pools
\* say, and nobody gains by adding and leaving or by swapping there and back.
THEOREM ProvidersWhole == ExchangeSpec => []ProvidersAreWhole
<1>1. ExchangeInv => ProvidersAreWhole
  <2> SUFFICES ASSUME ExchangeInv PROVE RoundTripsDoNotPay
    BY DEF ExchangeInv, ProvidersAreWhole
  <2>1. \A p \in Pairs : pools[p] \in PoolType /\ Whole(pools[p])
    BY PoolTypes
  <2> QED BY <2>1, AddAndLeave, SwapAndBack DEF RoundTripsDoNotPay
<1> QED BY <1>1, ExchangeStart, ExchangeStep, PTL DEF ExchangeSpec

-----------------------------------------------------------------------------
(* Events in order *)

\* The events of s come in the order they were published.
InOrder(s) == \A p, r \in 1..Len(s) : p < r => s[p] < s[r]

\* What is in a sequence, by place.
LEMMA RangeIs ==
  ASSUME NEW s \in Seq(Nat)
  PROVE  /\ Range(s) \subseteq Nat /\ Len(s) \in Nat
         /\ \A p \in 1..Len(s) : s[p] \in Range(s)
         /\ \A e \in Range(s) : \E p \in 1..Len(s) : s[p] = e
         /\ Range(s) = {} <=> s = <<>>
<1>1. Len(s) \in Nat
  BY LenProperties
<1>2. s # <<>> => 1 \in 1..Len(s)
  BY <1>1, EmptySeq
<1>3. s = <<>> => 1..Len(s) = {}
  OBVIOUS
<1> QED BY <1>1, <1>2, <1>3, RangeOf

\* The first of a sequence in order, and the others.
LEMMA TailHas ==
  ASSUME NEW s \in Seq(Nat), InOrder(s), s # <<>>
  PROVE  /\ Head(s) \in Range(s) /\ Head(s) \in Nat /\ \A e \in Range(s) : Head(s) <= e
         /\ Tail(s) \in Seq(Nat) /\ InOrder(Tail(s)) /\ Len(Tail(s)) = Len(s) - 1
         /\ Range(Tail(s)) = Range(s) \ {Head(s)}
<1> DEFINE t == Tail(s)
<1>1. /\ Len(s) \in Nat \ {0} /\ Head(s) = s[1] /\ s[1] \in Nat
      /\ t \in Seq(Nat) /\ Len(t) = Len(s) - 1 /\ \A p \in 1..Len(t) : t[p] = s[p + 1]
  BY HeadTailProperties, EmptySeq
<1> HIDE DEF t
<1>2. \A p \in 1..Len(s) : s[p] \in Nat /\ (p = 1 \/ (s[1] < s[p] /\ p - 1 \in 1..Len(t) /\ t[p - 1] = s[p]))
  <2> SUFFICES ASSUME NEW p \in 1..Len(s) PROVE s[p] \in Nat /\ (p = 1 \/ (s[1] < s[p] /\ p - 1 \in 1..Len(t) /\ t[p - 1] = s[p]))
    OBVIOUS
  <2>1. s[p] \in Nat
    OBVIOUS
  <2>2. CASE p # 1
    <3>1. p - 1 \in 1..Len(t) /\ (p - 1) + 1 = p /\ 1 \in 1..Len(s) /\ 1 < p
      BY <1>1, <2>2
    <3>2. t[p - 1] = s[(p - 1) + 1]
      BY <1>1, <3>1
    <3>3. s[1] < s[p]
      BY <3>1 DEF InOrder
    <3> QED BY <2>1, <3>1, <3>2, <3>3
  <2> QED BY <2>1, <2>2
<1>3. \A p \in 1..Len(t) : p + 1 \in 1..Len(s) /\ p + 1 # 1
  BY <1>1
<1>4. InOrder(t)
  <2> SUFFICES ASSUME NEW p \in 1..Len(t), NEW r \in 1..Len(t), p < r PROVE t[p] < t[r]
    BY DEF InOrder
  <2>1. p + 1 \in 1..Len(s) /\ r + 1 \in 1..Len(s) /\ p + 1 < r + 1
    BY <1>1
  <2>2. s[p + 1] < s[r + 1]
    BY <2>1 DEF InOrder
  <2> QED BY <1>1, <2>2
<1>5. \A e \in Range(s) : s[1] <= e
  <2> SUFFICES ASSUME NEW e \in Range(s) PROVE s[1] <= e
    OBVIOUS
  <2>1. PICK p \in 1..Len(s) : s[p] = e
    BY RangeIs
  <2>2. e \in Nat /\ (p = 1 \/ s[1] < e)
    BY <1>2, <2>1
  <2> QED BY <1>1, <2>1, <2>2
<1>6. Range(t) = Range(s) \ {s[1]}
  <2>1. ASSUME NEW e \in Range(t) PROVE e \in Range(s) /\ e # s[1]
    <3>1. PICK p \in 1..Len(t) : t[p] = e
      BY <1>1, RangeIs
    <3>2. p + 1 \in 1..Len(s) /\ p + 1 # 1 /\ s[p + 1] = e
      BY <1>1, <1>3, <3>1
    <3>3. s[1] < e /\ e \in Nat
      BY <1>2, <3>2
    <3>4. e \in Range(s)
      BY <3>2, RangeIs
    <3> QED BY <1>1, <3>3, <3>4
  <2>2. ASSUME NEW e \in Range(s), e # s[1] PROVE e \in Range(t)
    <3>1. PICK p \in 1..Len(s) : s[p] = e
      BY RangeIs
    <3>2. p - 1 \in 1..Len(t) /\ t[p - 1] = e
      BY <1>2, <2>2, <3>1
    <3> QED BY <1>1, <3>2, RangeIs
  <2> QED BY <2>1, <2>2
<1>7. 1 \in 1..Len(s)
  BY <1>1
<1> QED BY <1>1, <1>4, <1>5, <1>6, <1>7, RangeIs DEF t

\* An event appended to those before it.
LEMMA AppendHas ==
  ASSUME NEW s \in Seq(Nat), InOrder(s), NEW e \in Nat, \A i \in Range(s) : i < e
  PROVE  /\ Append(s, e) \in Seq(Nat) /\ InOrder(Append(s, e)) /\ Len(Append(s, e)) = Len(s) + 1
         /\ Range(Append(s, e)) = Range(s) \cup {e}
<1> DEFINE t == Append(s, e)
           l == Len(s) + 1
<1>1. t \in Seq(Nat) /\ Len(t) = l /\ t[l] = e /\ \A p \in 1..Len(s) : t[p] = s[p]
  BY AppendProperties
<1>2. Len(s) \in Nat /\ l \in 1..l /\ \A p : p \in 1..l <=> p = l \/ p \in 1..Len(s)
  OBVIOUS
<1>3. \A p \in 1..Len(s) : p < l /\ p # l
  OBVIOUS
<1> HIDE DEF t, l
<1>4. InOrder(t)
  <2> SUFFICES ASSUME NEW p \in 1..l, NEW r \in 1..l, p < r PROVE t[p] < t[r]
    BY <1>1 DEF InOrder
  <2>1. p # l /\ p \in 1..Len(s)
    BY <1>2 DEF l
  <2>2. CASE r = l
    BY <1>1, <2>1, <2>2, RangeIs
  <2>3. CASE r # l
    BY <1>1, <1>2, <2>1, <2>3 DEF InOrder
  <2> QED BY <2>2, <2>3
<1>5. Range(t) = Range(s) \cup {e}
  <2>1. ASSUME NEW i \in Range(t) PROVE i \in Range(s) \cup {e}
    <3>1. PICK p \in 1..l : t[p] = i
      BY <1>1, RangeIs
    <3>2. p = l \/ p \in 1..Len(s)
      BY <1>2
    <3> QED BY <1>1, <3>1, <3>2, RangeIs
  <2>2. ASSUME NEW i \in Range(s) \cup {e} PROVE i \in Range(t)
    <3>1. l \in 1..Len(t) /\ \A p \in 1..Len(s) : p \in 1..Len(t)
      BY <1>1, <1>2
    <3>2. CASE i = e
      BY <1>1, <3>1, <3>2, RangeIs
    <3>3. CASE i \in Range(s)
      <4>1. PICK p \in 1..Len(s) : s[p] = i
        BY <3>3, RangeIs
      <4>2. t[p] = i /\ p \in 1..Len(t)
        BY <1>1, <3>1, <4>1
      <4> QED BY <1>1, <4>2, RangeIs
    <3> QED BY <3>2, <3>3
  <2> QED BY <2>1, <2>2
<1> QED BY <1>1, <1>4, <1>5 DEF t, l

\* ... or in the place of the oldest.
LEMMA AppendedHas ==
  ASSUME NEW s \in Seq(Nat), InOrder(s), NEW e \in Nat, \A i \in Range(s) : i < e,
         NEW size \in Nat \ {0}, Len(s) <= size
  PROVE  /\ Appended(s, e, size) \in Seq(Nat) /\ InOrder(Appended(s, e, size))
         /\ Len(Appended(s, e, size)) <= size
         /\ Range(Appended(s, e, size)) = (Range(s) \ (IF Len(s) = size THEN {Head(s)} ELSE {})) \cup {e}
<1>1. Len(s) \in Nat
  OBVIOUS
<1>2. CASE Len(s) < size
  <2>1. Appended(s, e, size) = Append(s, e) /\ Len(s) # size
    BY <1>1, <1>2 DEF Appended
  <2>2. /\ Append(s, e) \in Seq(Nat) /\ InOrder(Append(s, e)) /\ Len(Append(s, e)) = Len(s) + 1
        /\ Range(Append(s, e)) = Range(s) \cup {e}
    BY AppendHas
  <2> QED BY <1>1, <1>2, <2>1, <2>2
<1>3. CASE ~ (Len(s) < size)
  <2> DEFINE u == Tail(s)
  <2>1. Len(s) = size /\ s # <<>>
    BY <1>1, <1>3
  <2>2. u \in Seq(Nat) /\ InOrder(u) /\ Len(u) = Len(s) - 1 /\ Range(u) = Range(s) \ {Head(s)}
    BY <2>1, TailHas
  <2>3. Appended(s, e, size) = Append(u, e)
    BY <1>3 DEF Appended
  <2> HIDE DEF u
  <2>4. \A i \in Range(u) : i < e
    BY <2>2
  <2>5. /\ Append(u, e) \in Seq(Nat) /\ InOrder(Append(u, e)) /\ Len(Append(u, e)) = Len(u) + 1
        /\ Range(Append(u, e)) = Range(u) \cup {e}
    BY <2>2, <2>4, AppendHas
  <2>6. Len(Append(u, e)) <= size
    BY <1>1, <2>1, <2>2, <2>5
  <2> QED BY <2>1, <2>2, <2>3, <2>5, <2>6
<1> QED BY <1>2, <1>3

\* What is kept of a sequence in order.
LEMMA KeptHas ==
  ASSUME NEW s \in Seq(Nat), InOrder(s), NEW T
  PROVE  Selected(s, T) \in Seq(Nat) /\ InOrder(Selected(s, T)) /\ Range(Selected(s, T)) = Range(s) \cap T
<1> DEFINE q == Selected(s, T)
<1>1. q \in Seq(Nat) /\ HoldsOf(q, s, T, Len(s))
  BY KeptHolds
<1> HIDE DEF q
<1>2. PICK place \in [1..Len(q) -> 1..Len(s)] :
        /\ \A i, j \in 1..Len(q) : i < j => place[i] < place[j]
        /\ \A i \in 1..Len(q) : q[i] = s[place[i]] /\ q[i] \in T
        /\ \A m \in 1..Len(s) : s[m] \in T => \E i \in 1..Len(q) : place[i] = m
  BY <1>1 DEF HoldsOf
<1>3. InOrder(q)
  <2> SUFFICES ASSUME NEW i \in 1..Len(q), NEW j \in 1..Len(q), i < j PROVE q[i] < q[j]
    BY DEF InOrder
  <2>1. place[i] \in 1..Len(s) /\ place[j] \in 1..Len(s) /\ place[i] < place[j]
    BY <1>2
  <2> QED BY <1>2, <2>1 DEF InOrder
<1>4. ASSUME NEW e \in Range(q) PROVE e \in Range(s) \cap T
  <2>1. PICK i \in 1..Len(q) : q[i] = e
    BY <1>1, RangeIs
  <2>2. place[i] \in 1..Len(s) /\ s[place[i]] = e /\ e \in T
    BY <1>2, <2>1
  <2> QED BY <2>2, RangeIs
<1>5. ASSUME NEW e \in Range(s) \cap T PROVE e \in Range(q)
  <2>1. PICK m \in 1..Len(s) : s[m] = e
    BY RangeIs
  <2>2. PICK i \in 1..Len(q) : place[i] = m
    BY <1>2, <2>1
  <2>3. q[i] = e
    BY <1>2, <2>1, <2>2
  <2> QED BY <1>1, <2>3, RangeIs
<1> QED BY <1>1, <1>3, <1>4, <1>5 DEF q

\* The ring after an event.
LEMMA NewerHas ==
  ASSUME ring \in Seq(Nat), InOrder(ring), NEW e \in Nat
  PROVE  /\ Newer(e) \in Seq(Nat) /\ InOrder(Newer(e))
         /\ Range(Newer(e)) = IF e \in Range(ring) THEN {j \in Range(ring) : e < j} ELSE Range(ring)
<1>1. Len(ring) \in Nat
  OBVIOUS
<1>2. Contains(ring, e) <=> e \in Range(ring)
  BY RangeIs DEF Contains
<1>3. CASE e \notin Range(ring)
  BY <1>2, <1>3 DEF Newer
<1>4. CASE e \in Range(ring)
  <2>1. PICK m \in 1..Len(ring) : ring[m] = e
    BY <1>4, RangeIs
  <2> DEFINE I == {i \in 1..Len(ring) : ring[i] = e}
  <2>2. I = {m}
    <3> SUFFICES ASSUME NEW i \in 1..Len(ring), ring[i] = e, i # m PROVE FALSE
      BY <2>1
    <3>1. i < m \/ m < i
      OBVIOUS
    <3>2. ring[i] < ring[m] \/ ring[m] < ring[i]
      BY <3>1 DEF InOrder
    <3> QED BY <2>1, <3>2
  <2>3. Min(I) = m
    <3>1. \A x \in {m} : (\A y \in {m} : x =< y) <=> x = m
      OBVIOUS
    <3> QED BY <2>2, <3>1 DEF Min
  <2>4. SelectInSeq(ring, LAMBDA j : j = e) = m
    BY <2>2, <2>3 DEF SelectInSeq
  <2> DEFINE n == Len(ring)
             q == SubSeq(ring, m + 1, n)
  <2>5. Newer(e) = q
    BY <1>2, <1>4, <2>4 DEF Newer
  <2>6. \A i \in (m + 1)..n : ring[i] \in Nat
    BY <1>1
  <2>7. q \in Seq(Nat) /\ Len(q) = (IF m + 1 <= n THEN n - (m + 1) + 1 ELSE 0) /\ \A i \in 1..(n - (m + 1) + 1) : q[i] = ring[(m + 1) + i - 1]
    <3>1. m + 1 \in Int /\ n \in Int
      BY <1>1
    <3> HIDE DEF n
    <3> QED BY <2>6, <3>1, SubSeqProperties
  <2> HIDE DEF q, I
  <2>8. Len(q) = n - m /\ \A i \in 1..(n - m) : q[i] = ring[m + i] /\ m + i \in 1..n /\ m < m + i
    <3>1. Len(q) = n - m
      BY <1>1, <2>7
    <3>2. n - (m + 1) + 1 = n - m /\ \A i \in 1..(n - m) : (m + 1) + i - 1 = m + i /\ m + i \in 1..n /\ m < m + i
      BY <1>1
    <3> QED BY <2>7, <3>1, <3>2
  <2>9. InOrder(q)
    <3> SUFFICES ASSUME NEW i \in 1..(n - m), NEW j \in 1..(n - m), i < j PROVE q[i] < q[j]
      BY <2>8 DEF InOrder
    <3>1. m + i < m + j
      OBVIOUS
    <3> QED BY <2>8, <3>1 DEF InOrder
  <2>10. ASSUME NEW x \in Range(q) PROVE x \in Range(ring) /\ e < x
    <3>1. PICK i \in 1..(n - m) : q[i] = x
      BY <2>7, <2>8, RangeIs
    <3>2. ring[m + i] = x /\ m + i \in 1..n /\ m < m + i
      BY <2>8, <3>1
    <3> QED BY <2>1, <3>2, RangeIs DEF InOrder
  <2>11. ASSUME NEW x \in Range(ring), e < x PROVE x \in Range(q)
    <3>1. PICK p \in 1..n : ring[p] = x
      BY RangeIs
    <3>2. ~ (p < m) /\ p # m
      BY <2>1, <2>11, <3>1, RangeIs DEF InOrder
    <3>3. p - m \in 1..(n - m) /\ m + (p - m) = p
      BY <1>1, <3>2
    <3>4. q[p - m] = x
      BY <2>8, <3>1, <3>3
    <3> QED BY <2>7, <2>8, <3>3, <3>4, RangeIs
  <2> QED BY <1>4, <2>5, <2>7, <2>9, <2>10, <2>11
<1> QED BY <1>3, <1>4

-----------------------------------------------------------------------------
(* What a connection holds *)

\* A connection the gateway knows of.
Connections ==
  [stage : {"preparing", "replaying", "open"}, client : Clients, since : Nat,
   missed : Seq(Nat), queue : Seq(Nat)]

\* Something before event i is in rec.
ComesAfter(i, rec) == \E before \in rec : before < i

\* Of the events pub, one that client c asked for and that is between two of rec
\* is in rec or in los.
NoGap(c, pub, rec, los) ==
  \A i \in 1..Len(pub) :
     pub[i] \in Wants[c] /\ ComesAfter(i, rec) /\ (\E after \in rec : i < after) => i \in rec \cup los

\* The queue of connection x is in order, and once it holds an event it holds all
\* the later ones its client asked for.
Queued(x, pub) ==
  /\ Len(x.queue) <= MaxQueue /\ InOrder(x.queue) /\ InOrder(x.missed)
  /\ Range(x.queue) \cup Range(x.missed) \subseteq 1..Len(pub)
  /\ \A q \in Range(x.queue), i \in 1..Len(pub) :
       q < i /\ pub[i] \in Wants[x.client] => i \in Range(x.queue)

\* Connection x of a client with cursor cur that received rec and was told of los:
\* what it still has to write follows something received, what comes before a
\* missed event is received, told of, or to be written as missed too, and nothing
\* is owed that is not to be written.
Serves(x, pub, cur, rec, los) ==
  /\ x.stage = "preparing" => x.since = cur
  /\ x.stage # "replaying" => x.missed = <<>>
  /\ \A m \in Range(x.missed) : ComesAfter(m, rec)
  /\ rec # {} => \A q \in Range(x.queue) : ComesAfter(q, rec)
  /\ \A m \in Range(x.missed), i \in 1..Len(pub) :
       i < m /\ pub[i] \in Wants[x.client] /\ ComesAfter(i, rec)
         => i \in rec \cup los \cup Range(x.missed)
  /\ x.stage # "preparing" =>
       \A i \in 1..Len(pub) :
          pub[i] \in Wants[x.client] /\ ComesAfter(i, rec)
            => i \in rec \cup los \cup Range(x.missed) \cup Range(x.queue)

\* The ring holds the last events; if it is empty, every event is accounted for.
RingInv ==
  /\ ring \in Seq(Nat) /\ InOrder(ring) /\ Len(ring) <= ReplaySize
  /\ Range(ring) \subseteq 1..Len(published)
  /\ \A r \in Range(ring), i \in 1..Len(published) : r < i => i \in Range(ring)
  /\ ring = <<>> => \A c \in Clients, i \in 1..Len(published) : i \in received[c] \cup lost[c]

\* The types of what is kept of the clients and their connections.
StreamTypes ==
  /\ published \in Seq(Kinds)
  /\ conn \in [Conns -> {NoClient} \cup Connections]
  /\ current \in [Clients -> Conns \cup {NoConn}]
  /\ cursor \in [Clients -> Nat]
  /\ received \in [Clients -> SUBSET (1..Len(published))]
  /\ lost \in [Clients -> SUBSET (1..Len(published))]

\* A client's cursor is an event it received, or it received none.
Cursors == \A c \in Clients : cursor[c] \in received[c] \/ (cursor[c] = 0 /\ received[c] = {})

\* What clients received has no gaps they were not told of.
NoGaps == \A c \in Clients : NoGap(c, published, received[c], lost[c])

\* Every connection's queue is as it should be.
QueuesInv == \A k \in Registered : Queued(conn[k], published)

\* ... and serves its client, if it is still the one it holds.
ServedInv ==
  \A c \in Clients : current[c] # NoConn =>
    /\ current[c] \in Registered /\ conn[current[c]].client = c
    /\ Serves(conn[current[c]], published, cursor[c], received[c], lost[c])

\* The inductive invariant.
StreamInv == StreamTypes /\ RingInv /\ Cursors /\ NoGaps /\ QueuesInv /\ ServedInv

\* A registered connection has its fields.
LEMMA RegisteredTypes ==
  ASSUME StreamTypes, NEW k \in Conns
  PROVE  /\ k \in Registered <=> conn[k] \in Connections
         /\ k \in Registered <=> conn[k].stage # "free"
         /\ k \in Registered =>
              /\ conn[k].stage \in {"preparing", "replaying", "open"} /\ conn[k].client \in Clients
              /\ conn[k].since \in Nat /\ conn[k].missed \in Seq(Nat) /\ conn[k].queue \in Seq(Nat)
<1>1. NoClient.stage = "free"
  BY DEF NoClient
<1>2. \A x \in Connections : /\ x.stage \in {"preparing", "replaying", "open"} /\ x.client \in Clients
                             /\ x.since \in Nat /\ x.missed \in Seq(Nat) /\ x.queue \in Seq(Nat)
  BY DEF Connections
<1>3. conn[k] = NoClient \/ conn[k] \in Connections
  BY DEF StreamTypes
<1> QED BY <1>1, <1>2, <1>3 DEF Registered

\* Types of what happened so far.
LEMMA PublishedTypes ==
  ASSUME StreamTypes, NEW c \in Clients
  PROVE  /\ Len(published) \in Nat /\ published \in Seq(Kinds)
         /\ received[c] \subseteq 1..Len(published) /\ received[c] \subseteq Int
         /\ lost[c] \subseteq 1..Len(published) /\ cursor[c] \in Nat
BY DEF StreamTypes

-----------------------------------------------------------------------------
(* Writing *)

\* What is written leaves the rest as it should be.
LEMMA MissedQueued ==
  ASSUME NEW pub, NEW x \in Connections, NEW y, Queued(x, pub), x.missed # <<>>,
         y.client = x.client, y.queue = x.queue, y.missed = Tail(x.missed)
  PROVE  /\ y.missed \in Seq(Nat) /\ Head(x.missed) \in Nat /\ Head(x.missed) \in 1..Len(pub) /\ Queued(y, pub)
<1>1. x.missed \in Seq(Nat) /\ InOrder(x.missed)
  BY DEF Connections, Queued
<1>2. /\ Head(x.missed) \in Range(x.missed) /\ Head(x.missed) \in Nat /\ y.missed \in Seq(Nat)
      /\ InOrder(y.missed) /\ Range(y.missed) \subseteq Range(x.missed)
  BY <1>1, TailHas
<1> QED BY <1>2 DEF Queued

LEMMA QueueQueued ==
  ASSUME NEW pub, NEW x \in Connections, NEW y, Queued(x, pub), x.queue # <<>>,
         y.client = x.client, y.missed = x.missed, y.queue = Tail(x.queue)
  PROVE  /\ y.queue \in Seq(Nat) /\ Head(x.queue) \in Nat /\ Head(x.queue) \in 1..Len(pub) /\ Queued(y, pub)
<1> DEFINE h == Head(x.queue)
<1>1. x.queue \in Seq(Nat) /\ InOrder(x.queue)
  BY DEF Connections, Queued
<1>2. /\ h \in Range(x.queue) /\ h \in Nat /\ \A e \in Range(x.queue) : h <= e
      /\ InOrder(y.queue) /\ Range(y.queue) = Range(x.queue) \ {h} /\ Len(y.queue) = Len(x.queue) - 1
      /\ Len(x.queue) \in Nat /\ y.queue \in Seq(Nat)
  BY <1>1, TailHas
<1>3. h \in 1..Len(pub) /\ Range(x.queue) \subseteq 1..Len(pub)
  BY <1>2 DEF Queued
<1>4. Queued(y, pub)
  <2>1. Len(y.queue) <= MaxQueue
    BY <1>2, StreamConstants DEF Queued
  <2>2. \A q \in Range(y.queue), i \in 1..Len(pub) :
          q < i /\ pub[i] \in Wants[y.client] => i \in Range(y.queue)
    <3> SUFFICES ASSUME NEW q \in Range(y.queue), NEW i \in 1..Len(pub), q < i, pub[i] \in Wants[y.client]
                 PROVE  i \in Range(y.queue)
      OBVIOUS
    <3>1. i \in Range(x.queue) /\ q \in Nat /\ h <= q
      BY <1>2, <1>3 DEF Queued
    <3> QED BY <1>2, <3>1
  <2> QED BY <1>2, <2>1, <2>2 DEF Queued
<1> QED BY <1>2, <1>3, <1>4

\* Nothing is skipped by writing the first of what was missed.
LEMMA MissedServes ==
  ASSUME NEW pub, Len(pub) \in Nat, NEW x \in Connections, NEW y \in Connections, NEW cur,
         NEW rec \in SUBSET (1..Len(pub)), NEW los, NEW h,
         Queued(x, pub), NoGap(x.client, pub, rec, los), Serves(x, pub, cur, rec, los),
         x.stage = "replaying", x.missed # <<>>, h = Head(x.missed),
         y.stage = x.stage, y.client = x.client, y.queue = x.queue, y.missed = Tail(x.missed)
  PROVE  /\ h \in 1..Len(pub) /\ Queued(y, pub)
         /\ NoGap(x.client, pub, rec \cup {h}, los) /\ Serves(y, pub, h, rec \cup {h}, los)
<1>1. x.missed \in Seq(Nat) /\ InOrder(x.missed)
  BY DEF Connections, Queued
<1>2. /\ h \in Range(x.missed) /\ h \in Nat /\ \A e \in Range(x.missed) : h <= e
      /\ InOrder(y.missed) /\ Range(y.missed) = Range(x.missed) \ {h}
  BY <1>1, TailHas
<1>3. h \in 1..Len(pub) /\ Range(x.missed) \subseteq 1..Len(pub)
  BY <1>2 DEF Queued
<1>4. Queued(y, pub)
  BY MissedQueued
<1>5. PICK b \in rec : b < h
  BY <1>2 DEF Serves, ComesAfter
<1>6. \A i \in 1..Len(pub) : ComesAfter(i, rec \cup {h}) <=> ComesAfter(i, rec)
  BY <1>3, <1>5 DEF ComesAfter
<1>7. NoGap(x.client, pub, rec \cup {h}, los)
  <2> SUFFICES ASSUME NEW i \in 1..Len(pub), pub[i] \in Wants[x.client], ComesAfter(i, rec),
                      NEW after \in rec \cup {h}, i < after
               PROVE  i \in rec \cup {h} \cup los
    BY <1>6 DEF NoGap
  <2>1. CASE after \in rec
    BY <2>1 DEF NoGap
  <2>2. CASE after = h
    <3>1. i \in rec \cup los \cup Range(x.missed)
      BY <1>2, <2>2 DEF Serves
    <3>2. i \notin Range(x.missed)
      BY <1>2, <2>2
    <3> QED BY <3>1, <3>2
  <2> QED BY <2>1, <2>2
<1>8. Serves(y, pub, h, rec \cup {h}, los)
  <2>1. \A m \in Range(y.missed) : m \in Range(x.missed) /\ ComesAfter(m, rec \cup {h})
    BY <1>2, <1>3, <1>6 DEF Serves
  <2>2. \A q \in Range(y.queue) : ComesAfter(q, rec \cup {h})
    <3>1. rec # {} /\ Range(x.queue) \subseteq 1..Len(pub)
      BY <1>5 DEF Queued
    <3> QED BY <1>6, <3>1 DEF Serves
  <2>3. \A m \in Range(y.missed), i \in 1..Len(pub) :
          i < m /\ pub[i] \in Wants[y.client] /\ ComesAfter(i, rec \cup {h})
            => i \in rec \cup {h} \cup los \cup Range(y.missed)
    BY <1>2, <1>6, <2>1 DEF Serves
  <2>4. \A i \in 1..Len(pub) :
          pub[i] \in Wants[y.client] /\ ComesAfter(i, rec \cup {h})
            => i \in rec \cup {h} \cup los \cup Range(y.missed) \cup Range(y.queue)
    BY <1>2, <1>6 DEF Serves
  <2> QED BY <2>1, <2>2, <2>3, <2>4 DEF Serves
<1> QED BY <1>3, <1>4, <1>7, <1>8

\* ... nor by writing the first of the queue.
LEMMA QueueServes ==
  ASSUME NEW pub, Len(pub) \in Nat, NEW x \in Connections, NEW y \in Connections, NEW cur,
         NEW rec \in SUBSET (1..Len(pub)), NEW los, NEW h,
         Queued(x, pub), NoGap(x.client, pub, rec, los), Serves(x, pub, cur, rec, los),
         x.stage = "open", x.queue # <<>>, h = Head(x.queue),
         y.stage = x.stage, y.client = x.client, y.missed = x.missed, y.queue = Tail(x.queue)
  PROVE  /\ h \in 1..Len(pub) /\ Queued(y, pub)
         /\ NoGap(x.client, pub, rec \cup {h}, los) /\ Serves(y, pub, h, rec \cup {h}, los)
<1>1. x.queue \in Seq(Nat) /\ InOrder(x.queue) /\ x.missed = <<>> /\ Range(x.missed) = {}
  <2>1. x.missed = <<>>
    BY DEF Serves
  <2> QED BY <2>1, RangeIs DEF Connections, Queued
<1>2. /\ h \in Range(x.queue) /\ h \in Nat /\ \A e \in Range(x.queue) : h <= e
      /\ InOrder(y.queue) /\ Range(y.queue) = Range(x.queue) \ {h} /\ Len(y.queue) = Len(x.queue) - 1
      /\ Len(x.queue) \in Nat
  BY <1>1, TailHas
<1>3. h \in 1..Len(pub) /\ Range(x.queue) \subseteq 1..Len(pub)
  BY <1>2 DEF Queued
<1>4. Queued(y, pub)
  BY QueueQueued
<1>5. rec # {} => \E b \in rec : b < h
  BY <1>2 DEF Serves, ComesAfter
<1>6. rec # {} => \A i \in 1..Len(pub) : ComesAfter(i, rec \cup {h}) <=> ComesAfter(i, rec)
  BY <1>3, <1>5 DEF ComesAfter
<1>7. rec = {} => \A i \in 1..Len(pub) : ComesAfter(i, rec \cup {h}) <=> h < i
  BY DEF ComesAfter
<1>8. ASSUME rec # {}, NEW i \in 1..Len(pub), pub[i] \in Wants[x.client], ComesAfter(i, rec)
      PROVE  i \in rec \cup los \cup Range(x.queue)
  BY <1>1, <1>8 DEF Serves
<1>9. ASSUME NEW i \in 1..Len(pub), pub[i] \in Wants[x.client], h < i
      PROVE  i \in Range(x.queue)
  BY <1>2, <1>9 DEF Queued
<1>10. NoGap(x.client, pub, rec \cup {h}, los)
  <2> SUFFICES ASSUME NEW i \in 1..Len(pub), pub[i] \in Wants[x.client], ComesAfter(i, rec \cup {h}),
                      NEW after \in rec \cup {h}, i < after
               PROVE  i \in rec \cup {h} \cup los
    BY DEF NoGap
  <2>1. CASE rec = {}
    <3>1. h < i /\ after = h
      BY <1>7, <2>1
    <3>2. h \in Int /\ i \in Int
      BY <1>2
    <3>3. ~ (h < i /\ i < h)
      BY <3>2
    <3> QED BY <3>1, <3>3
  <2>2. CASE rec # {}
    <3>1. CASE after \in rec
      BY <1>6, <2>2, <3>1 DEF NoGap
    <3>2. CASE after = h
      <4>1. i \notin Range(x.queue)
        BY <1>2, <3>2
      <4> QED BY <1>6, <1>8, <2>2, <4>1
    <3> QED BY <3>1, <3>2
  <2> QED BY <2>1, <2>2
<1>11. Serves(y, pub, h, rec \cup {h}, los)
  <2>1. \A q \in Range(y.queue) : ComesAfter(q, rec \cup {h})
    <3> SUFFICES ASSUME NEW q \in Range(y.queue) PROVE ComesAfter(q, rec \cup {h})
      OBVIOUS
    <3>1. h < q
      BY <1>2, <1>3
    <3> QED BY <3>1 DEF ComesAfter
  <2>2. \A i \in 1..Len(pub) :
          pub[i] \in Wants[y.client] /\ ComesAfter(i, rec \cup {h})
            => i \in rec \cup {h} \cup los \cup Range(y.queue)
    <3> SUFFICES ASSUME NEW i \in 1..Len(pub), pub[i] \in Wants[x.client], ComesAfter(i, rec \cup {h})
                 PROVE  i \in rec \cup {h} \cup los \cup Range(y.queue)
      OBVIOUS
    <3>1. CASE rec = {}
      BY <1>2, <1>7, <1>9, <3>1
    <3>2. CASE rec # {}
      BY <1>2, <1>6, <1>8, <3>2
    <3> QED BY <3>1, <3>2
  <2>3. y.missed = <<>> /\ Range(y.missed) = {}
    BY <1>1
  <2> QED BY <2>1, <2>2, <2>3 DEF Serves
<1> QED BY <1>3, <1>4, <1>10, <1>11


-----------------------------------------------------------------------------
(* The steps *)

\* An event put last in a queue, or in the ring, of those published before it.
LEMMA PushedHas ==
  ASSUME NEW n \in Nat, NEW s \in Seq(Nat), InOrder(s), Range(s) \subseteq 1..n,
         NEW size \in Nat \ {0}, Len(s) <= size, NEW t, t = Appended(s, n + 1, size)
  PROVE  /\ t \in Seq(Nat) /\ InOrder(t) /\ Len(t) <= size /\ t # <<>>
         /\ n + 1 \in Range(t) /\ Range(t) \subseteq Range(s) \cup {n + 1}
         /\ \A j \in Range(s) : j \in Range(t) \/ (Len(s) = size /\ j = Head(s))
         /\ \A r \in Range(t), j \in Range(s) : r < j => j \in Range(t)
<1>1. n + 1 \in Nat /\ \A i \in Range(s) : i < n + 1
  OBVIOUS
<1>2. /\ t \in Seq(Nat) /\ InOrder(t) /\ Len(t) <= size
      /\ Range(t) = (Range(s) \ (IF Len(s) = size THEN {Head(s)} ELSE {})) \cup {n + 1}
  BY <1>1, AppendedHas
<1>3. t # <<>>
  BY <1>2, RangeIs
<1>4. ASSUME NEW r \in Range(t), NEW j \in Range(s), r < j PROVE j \in Range(t)
  <2>1. r \in Range(s)
    BY <1>1, <1>2, <1>4
  <2>2. s # <<>>
    BY <2>1, RangeIs
  <2>3. Head(s) \in Nat /\ Head(s) <= r
    BY <2>1, <2>2, TailHas
  <2>4. r \in Nat /\ j \in Nat
    BY <2>1
  <2>5. j # Head(s)
    BY <1>4, <2>3, <2>4
  <2> QED BY <1>2, <2>5
<1> QED BY <1>2, <1>3, <1>4

\* Connection y is x after the event of this kind.
Pushed(x, y, pub, kind) ==
  /\ y.stage = x.stage /\ y.client = x.client /\ y.since = x.since /\ y.missed = x.missed
  /\ y.queue = IF kind \in Wants[x.client] THEN Appended(x.queue, Len(pub) + 1, MaxQueue) ELSE x.queue

\* What an event more changes of all events.
LEMMA PublishedOneMore ==
  ASSUME NEW pub \in Seq(Kinds), NEW kind \in Kinds
  PROVE  /\ Append(pub, kind) \in Seq(Kinds) /\ Len(pub) \in Nat /\ Len(Append(pub, kind)) = Len(pub) + 1
         /\ \A j \in 1..Len(pub) : Append(pub, kind)[j] = pub[j]
         /\ Append(pub, kind)[Len(pub) + 1] = kind
         /\ 1..(Len(pub) + 1) = 1..Len(pub) \cup {Len(pub) + 1}
BY AppendProperties

\* A queue stays as it should be when an event is published.
LEMMA ToldQueued ==
  ASSUME NEW pub \in Seq(Kinds), NEW kind \in Kinds, NEW x \in Connections, NEW y, Pushed(x, y, pub, kind),
         Queued(x, pub)
  PROVE  y.queue \in Seq(Nat) /\ Queued(y, Append(pub, kind))
<1> DEFINE new == Append(pub, kind)
           n == Len(pub)
<1>1. /\ new \in Seq(Kinds) /\ n \in Nat /\ Len(new) = n + 1 /\ new[n + 1] = kind
      /\ \A j \in 1..n : new[j] = pub[j]
      /\ 1..(n + 1) = 1..n \cup {n + 1}
  BY PublishedOneMore
<1>2. x.queue \in Seq(Nat) /\ x.missed \in Seq(Nat) /\ Range(x.queue) \subseteq 1..n /\ Range(x.missed) \subseteq 1..n
  BY DEF Connections, Queued
<1>3. y.missed = x.missed /\ y.client = x.client
  BY DEF Pushed
<1>4. MaxQueue \in Nat \ {0} /\ Len(x.queue) <= MaxQueue /\ InOrder(x.queue) /\ InOrder(x.missed)
  BY StreamConstants DEF Queued
<1>5. ASSUME NEW q \in Range(x.queue), NEW i \in 1..n, q < i, pub[i] \in Wants[x.client] PROVE i \in Range(x.queue)
  BY <1>5 DEF Queued
<1>6. CASE kind \in Wants[x.client]
  <2>1. y.queue = Appended(x.queue, n + 1, MaxQueue)
    BY <1>6 DEF Pushed
  <2> HIDE DEF new, n
  <2>2. /\ y.queue \in Seq(Nat) /\ InOrder(y.queue) /\ Len(y.queue) <= MaxQueue
        /\ n + 1 \in Range(y.queue) /\ Range(y.queue) \subseteq Range(x.queue) \cup {n + 1}
        /\ \A r \in Range(y.queue), j \in Range(x.queue) : r < j => j \in Range(y.queue)
    BY <1>1, <1>2, <1>4, <2>1, PushedHas
  <2>3. ASSUME NEW q \in Range(y.queue), NEW i \in 1..(n + 1), q < i, new[i] \in Wants[y.client]
        PROVE  i \in Range(y.queue)
    <3>1. CASE i = n + 1
      BY <2>2, <3>1
    <3>2. CASE i # n + 1
      <4>1. i \in 1..n /\ pub[i] \in Wants[x.client]
        BY <1>1, <1>3, <2>3, <3>2
      <4>2. q # n + 1
        BY <1>1, <2>3, <4>1
      <4>3. q \in Range(x.queue)
        BY <2>2, <4>2
      <4>4. i \in Range(x.queue)
        BY <1>5, <2>3, <4>1, <4>3
      <4> QED BY <2>2, <2>3, <4>4
    <3> QED BY <3>1, <3>2
  <2>4. Range(y.queue) \cup Range(y.missed) \subseteq 1..Len(new)
    <3>1. 1..Len(new) = 1..n \cup {n + 1}
      BY <1>1
    <3> QED BY <1>2, <1>3, <2>2, <3>1
  <2>5. \A q \in Range(y.queue), i \in 1..Len(new) : q < i /\ new[i] \in Wants[y.client] => i \in Range(y.queue)
    BY <1>1, <2>3
  <2> QED BY <1>3, <1>4, <2>2, <2>4, <2>5 DEF Queued, new
<1>7. CASE kind \notin Wants[x.client]
  <2>1. y.queue = x.queue
    BY <1>7 DEF Pushed
  <2> HIDE DEF new, n
  <2>2. ASSUME NEW q \in Range(y.queue), NEW i \in 1..(n + 1), q < i, new[i] \in Wants[y.client]
        PROVE  i \in Range(y.queue)
    <3>1. i \in 1..n /\ pub[i] \in Wants[x.client]
      BY <1>1, <1>3, <1>7, <2>2
    <3> QED BY <1>5, <2>1, <2>2, <3>1
  <2>3. Range(y.queue) \cup Range(y.missed) \subseteq 1..Len(new)
    <3>1. 1..Len(new) = 1..n \cup {n + 1}
      BY <1>1
    <3> QED BY <1>2, <1>3, <2>1, <3>1
  <2>4. \A q \in Range(y.queue), i \in 1..Len(new) : q < i /\ new[i] \in Wants[y.client] => i \in Range(y.queue)
    BY <1>1, <2>2
  <2> QED BY <1>2, <1>3, <1>4, <2>1, <2>3, <2>4 DEF Queued, new
<1> QED BY <1>6, <1>7

\* What the queue holds then.
LEMMA ToldHas ==
  ASSUME NEW pub \in Seq(Kinds), NEW kind, NEW x \in Connections, NEW y, Pushed(x, y, pub, kind),
         Queued(x, pub), kind \in Wants[x.client]
  PROVE  /\ Len(pub) + 1 \in Range(y.queue) /\ Range(y.queue) \subseteq Range(x.queue) \cup {Len(pub) + 1}
         /\ \A j \in Range(x.queue) : j \in Range(y.queue) \/ (Len(x.queue) = MaxQueue /\ j = Head(x.queue))
<1> DEFINE n == Len(pub)
           s == x.queue
           t == y.queue
<1>1. n \in Nat /\ MaxQueue \in Nat \ {0}
  BY StreamConstants
<1>2. s \in Seq(Nat) /\ InOrder(s) /\ Range(s) \subseteq 1..n /\ Len(s) <= MaxQueue
  BY DEF Connections, Queued
<1>3. t = Appended(s, n + 1, MaxQueue)
  BY DEF Pushed
<1> HIDE DEF n, s, t
<1>4. /\ n + 1 \in Range(t) /\ Range(t) \subseteq Range(s) \cup {n + 1}
      /\ \A j \in Range(s) : j \in Range(t) \/ (Len(s) = MaxQueue /\ j = Head(s))
  BY <1>1, <1>2, <1>3, PushedHas
<1> QED BY <1>4 DEF n, s, t

\* A connection goes on to serve its client when an event is published: one the
\* queue let go of is told of.
LEMMA ToldServes ==
  ASSUME NEW pub \in Seq(Kinds), NEW kind \in Kinds, NEW x \in Connections, NEW y, Pushed(x, y, pub, kind),
         NEW cur, NEW rec \in SUBSET (1..Len(pub)), NEW los, NEW more, los \subseteq more,
         Queued(x, pub), Serves(x, pub, cur, rec, los),
         kind \in Wants[x.client] /\ Len(x.queue) = MaxQueue => Head(x.queue) \in more
  PROVE  Serves(y, Append(pub, kind), cur, rec, more)
<1> DEFINE new == Append(pub, kind)
           n == Len(pub)
<1>1. /\ n \in Nat /\ Len(new) = n + 1 /\ new[n + 1] = kind
      /\ \A j \in 1..n : new[j] = pub[j]
      /\ 1..(n + 1) = 1..n \cup {n + 1}
  BY PublishedOneMore
<1>2. x.queue \in Seq(Nat) /\ x.missed \in Seq(Nat) /\ Range(x.queue) \subseteq 1..n /\ Range(x.missed) \subseteq 1..n
  BY DEF Connections, Queued
<1>3. y.missed = x.missed /\ y.client = x.client /\ y.stage = x.stage /\ y.since = x.since
  BY DEF Pushed
<1>4. MaxQueue \in Nat \ {0} /\ Len(x.queue) <= MaxQueue /\ InOrder(x.queue)
  BY StreamConstants DEF Queued
<1>5. /\ Range(y.queue) \subseteq Range(x.queue) \cup {n + 1}
      /\ kind \in Wants[x.client] => n + 1 \in Range(y.queue)
      /\ \A j \in Range(x.queue) : j \in Range(y.queue) \/ j \in more
  <2>1. CASE kind \in Wants[x.client]
    <3>2. /\ n + 1 \in Range(y.queue) /\ Range(y.queue) \subseteq Range(x.queue) \cup {n + 1}
          /\ \A j \in Range(x.queue) : j \in Range(y.queue) \/ (Len(x.queue) = MaxQueue /\ j = Head(x.queue))
      BY <2>1, ToldHas
    <3> QED BY <2>1, <3>2
  <2>2. CASE kind \notin Wants[x.client]
    <3>1. y.queue = x.queue
      BY <2>2 DEF Pushed
    <3> QED BY <2>2, <3>1
  <2> QED BY <2>1, <2>2
<1> HIDE DEF new, n
<1>6. rec \subseteq 1..n
  BY DEF n
<1>7. rec # {} => ComesAfter(n + 1, rec)
  <2>1. \A b \in rec : b < n + 1
    BY <1>1, <1>6
  <2> QED BY <2>1 DEF ComesAfter
<1>8. ASSUME NEW i \in 1..n, new[i] \in Wants[y.client], ComesAfter(i, rec)
      PROVE  /\ x.stage # "preparing" => i \in rec \cup los \cup Range(x.missed) \cup Range(x.queue)
             /\ \A m \in Range(x.missed) : i < m => i \in rec \cup los \cup Range(x.missed)
  <2>1. i \in 1..Len(pub) /\ pub[i] \in Wants[x.client]
    BY <1>1, <1>3, <1>8 DEF n
  <2> QED BY <1>8, <2>1 DEF Serves
<1>9. \A m \in Range(y.missed), i \in 1..Len(new) :
         i < m /\ new[i] \in Wants[y.client] /\ ComesAfter(i, rec) => i \in rec \cup more \cup Range(y.missed)
  <2> SUFFICES ASSUME NEW m \in Range(x.missed), NEW i \in 1..(n + 1), i < m, new[i] \in Wants[y.client], ComesAfter(i, rec)
               PROVE  i \in rec \cup more \cup Range(x.missed)
    BY <1>1, <1>3
  <2>1. i \in 1..n
    BY <1>1, <1>2
  <2> QED BY <1>8, <2>1
<1>10. x.stage # "preparing" =>
         \A i \in 1..Len(new) : new[i] \in Wants[y.client] /\ ComesAfter(i, rec)
            => i \in rec \cup more \cup Range(y.missed) \cup Range(y.queue)
  <2> SUFFICES ASSUME x.stage # "preparing", NEW i \in 1..(n + 1), new[i] \in Wants[y.client], ComesAfter(i, rec)
               PROVE  i \in rec \cup more \cup Range(x.missed) \cup Range(y.queue)
    BY <1>1, <1>3
  <2>1. CASE i = n + 1
    BY <1>1, <1>3, <1>5, <2>1
  <2>2. CASE i # n + 1
    <3>1. i \in 1..n
      BY <1>1, <2>2
    <3>2. i \in rec \cup los \cup Range(x.missed) \cup Range(x.queue)
      BY <1>8, <3>1
    <3> QED BY <1>5, <3>2
  <2> QED BY <2>1, <2>2
<1>11. rec # {} => \A q \in Range(y.queue) : ComesAfter(q, rec)
  BY <1>5, <1>7 DEF Serves
<1>12. \A m \in Range(y.missed) : ComesAfter(m, rec)
  BY <1>3 DEF Serves
<1>13. (y.stage = "preparing" => y.since = cur) /\ (y.stage # "replaying" => y.missed = <<>>)
  BY <1>3 DEF Serves
<1> QED BY <1>3, <1>9, <1>10, <1>11, <1>12, <1>13 DEF Serves, new

\* More told of changes nothing.
LEMMA ServesMore ==
  ASSUME NEW x, NEW pub, NEW cur, NEW rec, NEW los, NEW more, los \subseteq more
  PROVE  /\ Serves(x, pub, cur, rec, los) => Serves(x, pub, cur, rec, more)
         /\ \A c : NoGap(c, pub, rec, los) => NoGap(c, pub, rec, more)
<1>1. ASSUME Serves(x, pub, cur, rec, los) PROVE Serves(x, pub, cur, rec, more)
  <2>1. \A m \in Range(x.missed), i \in 1..Len(pub) :
          i < m /\ pub[i] \in Wants[x.client] /\ ComesAfter(i, rec) => i \in rec \cup more \cup Range(x.missed)
    BY <1>1 DEF Serves
  <2>2. x.stage # "preparing" =>
          \A i \in 1..Len(pub) : pub[i] \in Wants[x.client] /\ ComesAfter(i, rec)
             => i \in rec \cup more \cup Range(x.missed) \cup Range(x.queue)
    BY <1>1 DEF Serves
  <2>3. /\ x.stage = "preparing" => x.since = cur
        /\ x.stage # "replaying" => x.missed = <<>>
        /\ \A m \in Range(x.missed) : ComesAfter(m, rec)
        /\ rec # {} => \A q \in Range(x.queue) : ComesAfter(q, rec)
    BY <1>1 DEF Serves
  <2> QED BY <2>1, <2>2, <2>3 DEF Serves
<1>2. ASSUME NEW c, NoGap(c, pub, rec, los) PROVE NoGap(c, pub, rec, more)
  BY <1>2 DEF NoGap
<1> QED BY <1>1, <1>2

\* An event that is published reaches every queue and the ring.
LEMMA PublishKeeps ==
  ASSUME StreamInv, NEW kind \in Kinds, Publish(kind)
  PROVE  StreamInv'
<1> DEFINE n == Len(published)
<1>1. /\ published \in Seq(Kinds) /\ published' = Append(published, kind)
      /\ n \in Nat /\ Len(published') = n + 1 /\ \A j \in 1..n : published'[j] = published[j]
      /\ 1..(n + 1) = 1..n \cup {n + 1} /\ published' \in Seq(Kinds)
  BY PublishedOneMore DEF StreamInv, StreamTypes, Publish
<1>2. /\ current' = current /\ cursor' = cursor /\ received' = received
      /\ lost' = [c \in Clients |-> lost[c] \cup IF Matches(c, kind) THEN DroppedFor(c) ELSE {}]
      /\ ring' = Appended(ring, n + 1, ReplaySize)
      /\ conn' = [k \in Conns |-> IF k \in Registered /\ Matches(conn[k].client, kind)
                                  THEN [conn[k] EXCEPT !.queue = Appended(@, n + 1, MaxQueue)]
                                  ELSE conn[k]]
  BY DEF Publish
<1>3. ASSUME NEW k \in Registered
      PROVE  /\ k \in Conns /\ conn[k] \in Connections /\ Pushed(conn[k], conn'[k], published, kind)
             /\ conn'[k] \in Connections /\ Queued(conn[k], published) /\ Queued(conn'[k], published')
  <2>1. k \in Conns /\ conn[k] \in Connections
    BY RegisteredTypes DEF Registered, StreamInv
  <2>2. Queued(conn[k], published)
    BY DEF StreamInv, QueuesInv
  <2>3. conn'[k] = IF kind \in Wants[conn[k].client]
                   THEN [conn[k] EXCEPT !.queue = Appended(@, n + 1, MaxQueue)] ELSE conn[k]
    BY <1>2, <2>1 DEF Matches
  <2>4. Pushed(conn[k], conn'[k], published, kind)
    BY <2>1, <2>3 DEF Pushed, Connections
  <2>5. conn'[k].queue \in Seq(Nat) /\ Queued(conn'[k], published')
    BY <1>1, <2>1, <2>2, <2>4, ToldQueued
  <2>6. conn'[k] \in Connections
    <3>1. CASE kind \in Wants[conn[k].client]
      <4>1. Appended(conn[k].queue, n + 1, MaxQueue) \in Seq(Nat)
        BY <2>4, <2>5, <3>1 DEF Pushed
      <4>2. conn'[k] = [conn[k] EXCEPT !.queue = Appended(conn[k].queue, n + 1, MaxQueue)]
        BY <2>3, <3>1
      <4> QED BY <2>1, <4>1, <4>2 DEF Connections
    <3>2. CASE kind \notin Wants[conn[k].client]
      BY <2>1, <2>3, <3>2
    <3> QED BY <3>1, <3>2
  <2> QED BY <2>1, <2>2, <2>4, <2>5, <2>6
<1>4. Registered' = Registered /\ \A k \in Conns \ Registered : conn'[k] = conn[k]
  <2>1. \A k \in Conns \ Registered : conn'[k] = conn[k]
    BY <1>2
  <2>2. \A k \in Conns : conn'[k].stage = conn[k].stage
    BY <1>3, <2>1 DEF Pushed
  <2> QED BY <2>1, <2>2 DEF Registered
<1>5. ASSUME NEW c \in Clients PROVE lost[c] \subseteq lost'[c] /\ lost'[c] \subseteq 1..Len(published')
  <2>1. lost'[c] = lost[c] \cup IF Matches(c, kind) THEN DroppedFor(c) ELSE {}
    BY <1>2
  <2>2. DroppedFor(c) \subseteq 1..n
    <3> SUFFICES ASSUME NEW k \in Registered, Len(conn[k].queue) = MaxQueue PROVE Head(conn[k].queue) \in 1..n
      BY DEF DroppedFor
    <3>1. conn[k].queue \in Seq(Nat) /\ InOrder(conn[k].queue) /\ Range(conn[k].queue) \subseteq 1..n
      BY <1>3 DEF Connections, Queued
    <3>2. conn[k].queue # <<>>
      BY <3>1, StreamConstants
    <3>3. Head(conn[k].queue) \in Range(conn[k].queue)
      BY <3>1, <3>2, TailHas
    <3> QED BY <3>1, <3>3
  <2>3. lost[c] \subseteq 1..n
    BY DEF StreamInv, StreamTypes
  <2> QED BY <1>1, <2>1, <2>2, <2>3
<1>6. ASSUME NEW c \in Clients PROVE received[c] \subseteq 1..n /\ received[c] \subseteq 1..Len(published')
  BY <1>1 DEF StreamInv, StreamTypes
<1>7. StreamTypes'
  <2>1. conn' \in [Conns -> {NoClient} \cup Connections]
    <3>1. \A k \in Conns : conn'[k] \in {NoClient} \cup Connections
      BY <1>3, <1>4 DEF StreamInv, StreamTypes
    <3> QED BY <1>2, <3>1
  <2>2. lost' \in [Clients -> SUBSET (1..Len(published'))]
    BY <1>2, <1>5
  <2>3. received' \in [Clients -> SUBSET (1..Len(published'))]
    BY <1>2, <1>6 DEF StreamInv, StreamTypes
  <2> QED BY <1>1, <1>2, <2>1, <2>2, <2>3 DEF StreamInv, StreamTypes
<1>8. RingInv'
  <2>1. /\ ring \in Seq(Nat) /\ InOrder(ring) /\ Len(ring) <= ReplaySize /\ Range(ring) \subseteq 1..n
        /\ ReplaySize \in Nat \ {0}
        /\ \A r \in Range(ring), i \in 1..n : r < i => i \in Range(ring)
    BY StreamConstants DEF StreamInv, RingInv
  <2> HIDE DEF n
  <2>2. /\ ring' \in Seq(Nat) /\ InOrder(ring') /\ Len(ring') <= ReplaySize /\ ring' # <<>>
        /\ n + 1 \in Range(ring') /\ Range(ring') \subseteq Range(ring) \cup {n + 1}
        /\ \A r \in Range(ring'), j \in Range(ring) : r < j => j \in Range(ring')
    BY <1>1, <1>2, <2>1, PushedHas
  <2>3. ASSUME NEW r \in Range(ring'), NEW i \in 1..(n + 1), r < i PROVE i \in Range(ring')
    <3>1. CASE i = n + 1
      BY <2>2, <3>1
    <3>2. CASE i # n + 1
      <4>1. i \in 1..n /\ r # n + 1
        BY <1>1, <2>3, <3>2
      <4> QED BY <2>1, <2>2, <2>3, <4>1
    <3> QED BY <3>1, <3>2
  <2>4. Range(ring') \subseteq 1..Len(published')
    BY <1>1, <2>1, <2>2
  <2>5. \A r \in Range(ring'), i \in 1..Len(published') : r < i => i \in Range(ring')
    BY <1>1, <2>3
  <2> QED BY <2>2, <2>4, <2>5 DEF RingInv
<1>9. Cursors'
  BY <1>2 DEF StreamInv, Cursors
<1>10. NoGaps'
  <2> SUFFICES ASSUME NEW c \in Clients, NEW i \in 1..Len(published'), published'[i] \in Wants[c],
                      ComesAfter(i, received[c]), NEW after \in received[c], i < after
               PROVE  i \in received[c] \cup lost'[c]
    BY <1>2 DEF NoGaps, NoGap
  <2>1. after \in 1..n
    BY <1>6
  <2>2. i \in 1..n
    BY <1>1, <2>1
  <2>3. i \in received[c] \cup lost[c]
    BY <1>1, <2>2 DEF StreamInv, NoGaps, NoGap
  <2> QED BY <1>5, <2>3
<1>11. QueuesInv'
  BY <1>3, <1>4 DEF QueuesInv
<1>12. ServedInv'
  <2> SUFFICES ASSUME NEW c \in Clients, current[c] # NoConn
               PROVE  /\ current[c] \in Registered' /\ conn'[current[c]].client = c
                      /\ Serves(conn'[current[c]], published', cursor[c], received[c], lost'[c])
    BY <1>2 DEF ServedInv
  <2> DEFINE k == current[c]
  <2>1. k \in Registered /\ conn[k].client = c /\ Serves(conn[k], published, cursor[c], received[c], lost[c])
    BY DEF StreamInv, ServedInv
  <2>2. /\ conn[k] \in Connections /\ Pushed(conn[k], conn'[k], published, kind) /\ Queued(conn[k], published)
    BY <1>3, <2>1
  <2>3. kind \in Wants[conn[k].client] /\ Len(conn[k].queue) = MaxQueue => Head(conn[k].queue) \in lost'[c]
    BY <1>2, <2>1 DEF DroppedFor, Matches
  <2>4. Serves(conn'[k], published', cursor[c], received[c], lost'[c])
    <3> HIDE DEF k
    <3>1. received[c] \in SUBSET (1..Len(published))
      BY <1>6
    <3> QED BY <1>1, <1>5, <2>1, <2>2, <2>3, <3>1, ToldServes
  <2>5. conn'[k].client = c
    BY <2>1, <2>2 DEF Pushed
  <2> QED BY <1>4, <2>1, <2>4, <2>5
<1> QED BY <1>7, <1>8, <1>9, <1>10, <1>11, <1>12 DEF StreamInv

\* A connection starts with nothing to write.
LEMMA ConnectKeeps ==
  ASSUME StreamInv, NEW c \in Clients, NEW k \in Conns, Connect(c, k)
  PROVE  StreamInv'
<1> DEFINE y == [stage |-> "preparing", client |-> c, since |-> cursor[c], missed |-> <<>>, queue |-> <<>>]
<1>1. /\ published' = published /\ ring' = ring /\ cursor' = cursor /\ received' = received /\ lost' = lost
      /\ conn' = [conn EXCEPT ![k] = y] /\ current' = [current EXCEPT ![c] = k] /\ conn[k].stage = "free"
  BY DEF Connect
<1>2. StreamTypes /\ cursor[c] \in Nat
  BY DEF StreamInv, StreamTypes
<1>3. /\ y \in Connections /\ y.stage = "preparing" /\ y.client = c /\ y.since = cursor[c]
      /\ y.missed = <<>> /\ y.queue = <<>>
  BY <1>2 DEF Connections
<1> HIDE DEF y
<1>4. /\ conn'[k] = y /\ \A j \in Conns \ {k} : conn'[j] = conn[j]
      /\ current'[c] = k /\ \A d \in Clients \ {c} : current'[d] = current[d]
  BY <1>1, <1>2 DEF StreamTypes
<1>5. k \notin Registered /\ Registered' = Registered \cup {k}
  BY <1>1, <1>3, <1>4 DEF Registered
<1>6. Range(y.missed) = {} /\ Range(y.queue) = {} /\ InOrder(y.missed) /\ InOrder(y.queue) /\ Len(y.queue) <= MaxQueue
  <2>1. <<>> \in Seq(Nat) /\ Len(<<>>) = 0 /\ 1..0 = {} /\ MaxQueue \in Nat
    BY StreamConstants
  <2>2. Range(<<>>) = {}
    BY <2>1, RangeIs
  <2> QED BY <1>3, <2>1, <2>2 DEF InOrder
<1>7. Queued(y, published)
  BY <1>6 DEF Queued
<1>8. Serves(y, published, cursor[c], received[c], lost[c])
  BY <1>3, <1>6 DEF Serves
<1>9. StreamTypes'
  BY <1>1, <1>2, <1>3 DEF StreamTypes
<1>10. RingInv' /\ Cursors' /\ NoGaps'
  BY <1>1 DEF StreamInv, RingInv, Cursors, NoGaps
<1>11. QueuesInv'
  <2> SUFFICES ASSUME NEW j \in Registered' PROVE Queued(conn'[j], published)
    BY <1>1 DEF QueuesInv
  <2>1. j \in Conns /\ (j = k \/ j \in Registered)
    BY <1>5 DEF Registered
  <2> QED BY <1>4, <1>7, <2>1 DEF StreamInv, QueuesInv
<1>12. ServedInv'
  <2> SUFFICES ASSUME NEW d \in Clients, current'[d] # NoConn
               PROVE  /\ current'[d] \in Registered' /\ conn'[current'[d]].client = d
                      /\ Serves(conn'[current'[d]], published, cursor[d], received[d], lost[d])
    BY <1>1 DEF ServedInv
  <2>1. CASE d = c
    BY <1>3, <1>4, <1>5, <1>8, <2>1
  <2>2. CASE d # c
    <3>1. current'[d] = current[d]
      BY <1>4, <2>2
    <3>2. /\ current[d] \in Registered /\ conn[current[d]].client = d
          /\ Serves(conn[current[d]], published, cursor[d], received[d], lost[d])
      BY <3>1 DEF StreamInv, ServedInv
    <3>3. conn'[current[d]] = conn[current[d]]
      BY <1>4, <1>5, <3>2 DEF Registered
    <3> QED BY <1>5, <3>1, <3>2, <3>3
  <2> QED BY <2>1, <2>2
<1> QED BY <1>9, <1>10, <1>11, <1>12 DEF StreamInv

\* A step of connection k that writes to its client or accounts for events keeps
\* the invariant if the connection still serves the client it is the current one of.
LEMMA ConnectionSteps ==
  ASSUME StreamInv, NEW k \in Registered, NEW y \in Connections, y.client = conn[k].client,
         conn' = [conn EXCEPT ![k] = y], Queued(y, published),
         NEW rec \in SUBSET (1..Len(published)), NEW los \in SUBSET (1..Len(published)), NEW cur \in Nat,
         received' = [received EXCEPT ![y.client] = rec], lost' = [lost EXCEPT ![y.client] = los],
         cursor' = [cursor EXCEPT ![y.client] = cur],
         UNCHANGED <<published, ring, current>>,
         received[y.client] \subseteq rec, lost[y.client] \subseteq los,
         cur \in rec \/ (cur = 0 /\ rec = {}), NoGap(y.client, published, rec, los),
         IF current[y.client] = k THEN Serves(y, published, cur, rec, los)
         ELSE rec = received[y.client] /\ cur = cursor[y.client]
  PROVE  StreamInv'
<1> DEFINE c == y.client
<1>1. k \in Conns /\ StreamTypes
  BY DEF Registered, StreamInv
<1>2. c \in Clients /\ y.stage \in {"preparing", "replaying", "open"}
  BY DEF Connections
<1> HIDE DEF c
<1>3. /\ conn'[k] = y /\ \A j \in Conns \ {k} : conn'[j] = conn[j]
      /\ received'[c] = rec /\ lost'[c] = los /\ cursor'[c] = cur
      /\ \A d \in Clients \ {c} : received'[d] = received[d] /\ lost'[d] = lost[d] /\ cursor'[d] = cursor[d]
      /\ published' = published /\ ring' = ring /\ current' = current
  BY <1>1, <1>2 DEF StreamTypes, c
<1>4. Registered' = Registered
  BY <1>1, <1>2, <1>3 DEF Registered
<1>5. StreamTypes'
  BY <1>1 DEF StreamTypes
<1>6. RingInv'
  <2>1. \A d \in Clients, i \in 1..Len(published) :
           i \in received[d] \cup lost[d] => i \in received'[d] \cup lost'[d]
    BY <1>3 DEF c
  <2> QED BY <1>3, <2>1 DEF StreamInv, RingInv
<1>7. Cursors'
  <2> SUFFICES ASSUME NEW d \in Clients PROVE cursor'[d] \in received'[d] \/ (cursor'[d] = 0 /\ received'[d] = {})
    BY DEF Cursors
  <2>1. CASE d = c
    BY <1>3, <2>1
  <2>2. CASE d # c
    BY <1>3, <2>2 DEF StreamInv, Cursors
  <2> QED BY <2>1, <2>2
<1>8. NoGaps'
  <2> SUFFICES ASSUME NEW d \in Clients PROVE NoGap(d, published, received'[d], lost'[d])
    BY <1>3 DEF NoGaps
  <2>1. CASE d = c
    BY <1>3, <2>1 DEF c
  <2>2. CASE d # c
    BY <1>3, <2>2 DEF StreamInv, NoGaps
  <2> QED BY <2>1, <2>2
<1>9. QueuesInv'
  <2> SUFFICES ASSUME NEW j \in Registered PROVE Queued(conn'[j], published)
    BY <1>3, <1>4 DEF QueuesInv
  <2>1. j \in Conns /\ Queued(conn[j], published)
    BY DEF Registered, StreamInv, QueuesInv
  <2> QED BY <1>3, <2>1
<1>10. ServedInv'
  <2> SUFFICES ASSUME NEW d \in Clients, current[d] # NoConn
               PROVE  /\ current[d] \in Registered /\ conn'[current[d]].client = d
                      /\ Serves(conn'[current[d]], published, cursor'[d], received'[d], lost'[d])
    BY <1>3, <1>4 DEF ServedInv
  <2> DEFINE j == current[d]
  <2>1. /\ j \in Registered /\ j \in Conns /\ conn[j].client = d
        /\ Serves(conn[j], published, cursor[d], received[d], lost[d])
    BY DEF StreamInv, ServedInv, Registered
  <2> HIDE DEF j
  <2>2. CASE j = k
    <3>1. d = c
      BY <2>1, <2>2 DEF c
    <3>2. Serves(y, published, cur, rec, los)
      BY <2>2, <3>1 DEF c, j
    <3> QED BY <1>3, <2>1, <2>2, <3>1, <3>2 DEF c, j
  <2>3. CASE j # k
    <3>1. conn'[j] = conn[j]
      BY <1>3, <2>1, <2>3
    <3>2. CASE d = c
      <4>1. cur = cursor[c] /\ rec = received[c] /\ lost[c] \subseteq los
        BY <2>3, <3>2 DEF c, j
      <4>2. Serves(conn[j], published, cursor[c], received[c], los)
        BY <2>1, <3>2, <4>1, ServesMore
      <4> QED BY <1>3, <2>1, <3>1, <3>2, <4>1, <4>2 DEF j
    <3>3. CASE d # c
      BY <1>3, <2>1, <3>1, <3>3 DEF j
    <3> QED BY <3>2, <3>3
  <2> QED BY <2>2, <2>3
<1> QED BY <1>5, <1>6, <1>7, <1>8, <1>9, <1>10 DEF StreamInv

\* What is known of a registered connection and its client.
LEMMA ConnectionKnown ==
  ASSUME StreamInv, NEW k \in Registered
  PROVE  /\ k \in Conns /\ conn[k] \in Connections /\ conn[k].client \in Clients /\ Queued(conn[k], published)
         /\ conn[k].missed \in Seq(Nat) /\ conn[k].queue \in Seq(Nat) /\ conn[k].since \in Nat
         /\ received[conn[k].client] \in SUBSET (1..Len(published))
         /\ lost[conn[k].client] \in SUBSET (1..Len(published)) /\ cursor[conn[k].client] \in Nat
         /\ \/ cursor[conn[k].client] \in received[conn[k].client]
            \/ cursor[conn[k].client] = 0 /\ received[conn[k].client] = {}
         /\ NoGap(conn[k].client, published, received[conn[k].client], lost[conn[k].client])
         /\ current[conn[k].client] = k =>
              Serves(conn[k], published, cursor[conn[k].client], received[conn[k].client], lost[conn[k].client])
<1>1. k \in Conns /\ StreamTypes
  BY DEF StreamInv, Registered
<1>2. conn[k] \in Connections
  BY <1>1, RegisteredTypes
<1>3. /\ conn[k].client \in Clients /\ conn[k].missed \in Seq(Nat) /\ conn[k].queue \in Seq(Nat)
      /\ conn[k].since \in Nat
  BY <1>2 DEF Connections
<1> DEFINE c == conn[k].client
<1>4. c \in Clients
  BY <1>3
<1> HIDE DEF c
<1>5. /\ received[c] \in SUBSET (1..Len(published)) /\ lost[c] \in SUBSET (1..Len(published)) /\ cursor[c] \in Nat
      /\ cursor[c] \in received[c] \/ (cursor[c] = 0 /\ received[c] = {})
      /\ NoGap(c, published, received[c], lost[c])
  BY <1>1, <1>4 DEF StreamInv, StreamTypes, Cursors, NoGaps
<1>6. ASSUME current[c] = k PROVE Serves(conn[k], published, cursor[c], received[c], lost[c])
  <2>1. k # NoConn
    BY <1>1, StreamConstants
  <2> QED BY <1>4, <1>6, <2>1 DEF StreamInv, ServedInv
<1>7. Queued(conn[k], published)
  BY DEF StreamInv, QueuesInv
<1> QED BY <1>1, <1>2, <1>3, <1>5, <1>6, <1>7 DEF c

\* The kept events that come after the last one received, and those the ring let
\* go of, are all there are.
LEMMA ReplayCovers ==
  ASSUME StreamInv, NEW c \in Clients, NEW e \in received[c]
  PROVE  /\ ReplaySince(c, e) \in Seq(Nat) /\ InOrder(ReplaySince(c, e))
         /\ Range(ReplaySince(c, e)) \subseteq {j \in 1..Len(published) : e < j}
         /\ \A i \in 1..Len(published) : published[i] \in Wants[c] /\ ComesAfter(i, received[c]) =>
              i \in received[c] \cup lost[c] \cup RotatedOut(e) \cup Range(ReplaySince(c, e))
<1> DEFINE n == Len(published)
           T == {j \in 1..n : Matches(c, published[j])}
           m == ReplaySince(c, e)
           w == Newer(e)
<1>1. n \in Nat /\ received[c] \subseteq 1..n /\ e \in 1..n
  BY PublishedTypes DEF StreamInv
<1>2. /\ ring \in Seq(Nat) /\ InOrder(ring) /\ Range(ring) \subseteq 1..n
      /\ \A r \in Range(ring), i \in 1..n : r < i => i \in Range(ring)
      /\ ring = <<>> => \A i \in 1..n : i \in received[c] \cup lost[c]
  BY DEF StreamInv, RingInv
<1>3. e \in Nat
  BY <1>1
<1>4. /\ w \in Seq(Nat) /\ InOrder(w)
      /\ Range(w) = IF e \in Range(ring) THEN {j \in Range(ring) : e < j} ELSE Range(ring)
  BY <1>2, <1>3, NewerHas
<1>5. m = Selected(w, T)
  BY DEF ReplaySince
<1> HIDE DEF w, T, m
<1>6. m \in Seq(Nat) /\ InOrder(m) /\ Range(m) = Range(w) \cap T
  BY <1>4, <1>5, KeptHas
<1>7. Range(w) = {j \in Range(ring) : e < j}
  <2>1. CASE e \in Range(ring)
    BY <1>4, <2>1
  <2>2. CASE e \notin Range(ring)
    <3>1. \A j \in Range(ring) : e < j
      <4> SUFFICES ASSUME NEW j \in Range(ring) PROVE e < j
        OBVIOUS
      <4>1. ~ (j < e) /\ j # e /\ j \in 1..n
        BY <1>1, <1>2, <2>2
      <4> QED BY <1>1, <4>1
    <3> QED BY <1>4, <2>2, <3>1
  <2> QED BY <2>1, <2>2
<1>8. Range(m) \subseteq {j \in 1..n : e < j}
  BY <1>2, <1>6, <1>7
<1>9. ASSUME NEW i \in 1..n, published[i] \in Wants[c], ComesAfter(i, received[c])
      PROVE  i \in received[c] \cup lost[c] \cup RotatedOut(e) \cup Range(m)
  <2>1. CASE i < e
    <3>1. NoGap(c, published, received[c], lost[c])
      BY DEF StreamInv, NoGaps
    <3> QED BY <1>9, <2>1, <3>1 DEF NoGap
  <2>2. CASE i = e
    BY <2>2
  <2>3. CASE e < i
    <3>1. CASE i \in Range(ring)
      BY <1>6, <1>7, <1>9, <2>3, <3>1 DEF T, Matches
    <3>2. CASE ring = <<>>
      BY <1>2, <3>2
    <3>3. CASE ring # <<>> /\ i \notin Range(ring)
      <4>1. Head(ring) \in Range(ring) /\ Head(ring) \in Nat
        BY <1>2, <3>3, TailHas
      <4>2. ~ (Head(ring) < i) /\ Head(ring) # i
        BY <1>2, <3>3, <4>1
      <4>3. i < Head(ring)
        BY <4>1, <4>2
      <4> QED BY <2>3, <3>3, <4>3 DEF RotatedOut
    <3> QED BY <3>1, <3>2, <3>3
  <2>4. i < e \/ i = e \/ e < i
    BY <1>1
  <2> QED BY <2>1, <2>2, <2>3, <2>4
<1> QED BY <1>6, <1>8, <1>9 DEF m

\* What a connection replays joins what its client has and what follows.
LEMMA PreparedKeeps ==
  ASSUME StreamInv, NEW k \in Conns, Prepared(k)
  PROVE  StreamInv'
<1>1. k \in Registered
  BY DEF Prepared, Registered
<1> DEFINE x == conn[k]
           c == x.client
           resumes == x.since # 0
           m == IF resumes THEN ReplaySince(c, x.since) ELSE <<>>
           los == lost[c] \cup IF resumes THEN RotatedOut(x.since) ELSE {}
           y == [x EXCEPT !.stage = "replaying", !.missed = m]
<1>2. /\ x \in Connections /\ c \in Clients /\ Queued(x, published) /\ x.stage = "preparing"
      /\ received[c] \in SUBSET (1..Len(published)) /\ lost[c] \in SUBSET (1..Len(published))
      /\ cursor[c] \in Nat /\ (cursor[c] \in received[c] \/ (cursor[c] = 0 /\ received[c] = {}))
      /\ NoGap(c, published, received[c], lost[c]) /\ x.since \in Nat
      /\ current[c] = k => Serves(x, published, cursor[c], received[c], lost[c])
  BY <1>1, ConnectionKnown DEF Prepared
<1>3. /\ conn' = [conn EXCEPT ![k] = y] /\ lost' = [lost EXCEPT ![c] = los]
      /\ UNCHANGED <<published, ring, current>> /\ cursor' = cursor /\ received' = received
  BY <1>2 DEF Prepared
<1>4. ring \in Seq(Nat) /\ InOrder(ring) /\ Range(ring) \subseteq 1..Len(published)
  BY DEF StreamInv, RingInv
<1>5. m \in Seq(Nat) /\ InOrder(m) /\ Range(m) \subseteq 1..Len(published)
  <2>1. CASE resumes
    <3> DEFINE w == Newer(x.since)
               T == {j \in 1..Len(published) : Matches(c, published[j])}
    <3>1. w \in Seq(Nat) /\ InOrder(w) /\ Range(w) \subseteq Range(ring)
      BY <1>2, <1>4, NewerHas
    <3>2. m = Selected(w, T)
      BY <2>1 DEF ReplaySince
    <3> HIDE DEF w, T, m
    <3>3. m \in Seq(Nat) /\ InOrder(m) /\ Range(m) = Range(w) \cap T
      BY <3>1, <3>2, KeptHas
    <3> QED BY <1>4, <3>1, <3>3
  <2>2. CASE ~ resumes
    <3>1. <<>> \in Seq(Nat) /\ InOrder(<<>>)
      BY DEF InOrder
    <3>2. Range(<<>>) = {}
      BY <3>1, RangeIs
    <3> QED BY <2>2, <3>1, <3>2
  <2> QED BY <2>1, <2>2
<1>6. los \in SUBSET (1..Len(published)) /\ lost[c] \subseteq los
  BY <1>2 DEF RotatedOut
<1> HIDE DEF m, los
<1>7. /\ y \in Connections /\ y.client = c /\ y.stage = "replaying" /\ y.missed = m /\ y.queue = x.queue
  BY <1>2, <1>5 DEF Connections
<1> HIDE DEF y
<1>8. Queued(y, published)
  BY <1>2, <1>5, <1>7 DEF Queued
<1>9. NoGap(c, published, received[c], los)
  BY <1>2, <1>6, ServesMore
<1>10. ASSUME current[c] = k PROVE Serves(y, published, cursor[c], received[c], los)
  <2>1. x.since = cursor[c] /\ (received[c] # {} => \A q \in Range(x.queue) : ComesAfter(q, received[c]))
    BY <1>2, <1>10 DEF Serves
  <2>2. CASE resumes
    <3>1. x.since \in received[c]
      BY <1>2, <2>1, <2>2
    <3>2. /\ m = ReplaySince(c, x.since) /\ los = lost[c] \cup RotatedOut(x.since)
      BY <2>2 DEF m, los
    <3>3. /\ Range(m) \subseteq {j \in 1..Len(published) : x.since < j}
          /\ \A i \in 1..Len(published) : published[i] \in Wants[c] /\ ComesAfter(i, received[c]) =>
               i \in received[c] \cup lost[c] \cup RotatedOut(x.since) \cup Range(m)
      BY <1>2, <3>1, <3>2, ReplayCovers
    <3>4. \A q \in Range(m) : ComesAfter(q, received[c])
      BY <3>1, <3>3 DEF ComesAfter
    <3>5. \A i \in 1..Len(published) : published[i] \in Wants[c] /\ ComesAfter(i, received[c]) =>
            i \in received[c] \cup los \cup Range(m)
      BY <3>2, <3>3
    <3>6. received[c] # {}
      BY <3>1
    <3> QED BY <1>7, <2>1, <3>4, <3>5, <3>6 DEF Serves
  <2>3. CASE ~ resumes
    <3>1. received[c] = {}
      BY <1>2, <2>1, <2>3
    <3>2. \A i : ~ ComesAfter(i, received[c])
      BY <3>1 DEF ComesAfter
    <3>3. m = <<>> /\ Range(m) = {}
      BY <1>5, <2>3, RangeIs DEF m
    <3> QED BY <1>7, <3>1, <3>2, <3>3 DEF Serves
  <2> QED BY <2>2, <2>3
<1>11. cursor' = [cursor EXCEPT ![c] = cursor[c]] /\ received' = [received EXCEPT ![c] = received[c]]
  BY <1>2, <1>3 DEF StreamInv, StreamTypes
<1> QED
  <2> DEFINE cc == conn[k].client
             rec == received[cc]
             cur == cursor[cc]
  <2>1. /\ y \in Connections /\ y.client = conn[k].client /\ conn' = [conn EXCEPT ![k] = y]
        /\ Queued(y, published)
        /\ rec \in SUBSET (1..Len(published)) /\ los \in SUBSET (1..Len(published)) /\ cur \in Nat
        /\ received' = [received EXCEPT ![y.client] = rec] /\ lost' = [lost EXCEPT ![y.client] = los]
        /\ cursor' = [cursor EXCEPT ![y.client] = cur]
        /\ UNCHANGED <<published, ring, current>>
        /\ received[y.client] \subseteq rec /\ lost[y.client] \subseteq los
        /\ cur \in rec \/ (cur = 0 /\ rec = {})
        /\ NoGap(y.client, published, rec, los)
        /\ IF current[y.client] = k THEN Serves(y, published, cur, rec, los)
           ELSE rec = received[y.client] /\ cur = cursor[y.client]
    BY <1>2, <1>3, <1>6, <1>7, <1>8, <1>9, <1>10, <1>11
  <2> HIDE DEF rec, cur, cc, c, x
  <2> QED BY <1>1, <2>1, ConnectionSteps

\* A missed event is written.
LEMMA WriteMissedKeeps ==
  ASSUME StreamInv, NEW k \in Conns, WriteMissed(k)
  PROVE  StreamInv'
<1>1. k \in Registered
  BY DEF WriteMissed, Registered
<1> DEFINE x == conn[k]
           c == conn[k].client
           h == Head(x.missed)
           y == [x EXCEPT !.missed = Tail(x.missed)]
           rec == IF current[c] = k THEN received[c] \cup {h} ELSE received[c]
           cur == IF current[c] = k THEN h ELSE cursor[c]
           los == lost[c]
<1>2. /\ x \in Connections /\ c \in Clients /\ Queued(x, published) /\ x.stage = "replaying" /\ x.missed # <<>>
      /\ received[c] \in SUBSET (1..Len(published)) /\ lost[c] \in SUBSET (1..Len(published))
      /\ cursor[c] \in Nat /\ (cursor[c] \in received[c] \/ (cursor[c] = 0 /\ received[c] = {}))
      /\ NoGap(c, published, received[c], lost[c])
      /\ current[c] = k => Serves(x, published, cursor[c], received[c], lost[c])
  BY <1>1, ConnectionKnown DEF WriteMissed
<1>3. y.client = x.client /\ y.queue = x.queue /\ y.stage = x.stage /\ y.missed = Tail(x.missed)
  BY <1>2 DEF Connections
<1>4. y.missed \in Seq(Nat) /\ h \in Nat /\ h \in 1..Len(published) /\ Queued(y, published)
  BY <1>2, <1>3, MissedQueued
<1>5. y \in Connections
  BY <1>2, <1>3, <1>4 DEF Connections
<1>6. /\ conn' = [conn EXCEPT ![k] = y] /\ UNCHANGED <<published, ring, current>> /\ lost' = lost
      /\ cursor' = [cursor EXCEPT ![c] = cur] /\ received' = [received EXCEPT ![c] = rec]
  BY <1>2 DEF WriteMissed, Write, StreamInv, StreamTypes
<1>7. lost' = [lost EXCEPT ![c] = los]
  BY <1>6 DEF StreamInv, StreamTypes
<1> HIDE DEF y
<1>8. ASSUME current[c] = k
      PROVE  NoGap(c, published, received[c] \cup {h}, lost[c]) /\ Serves(y, published, h, received[c] \cup {h}, lost[c])
  <2>1. Len(published) \in Nat
    BY DEF StreamInv, StreamTypes
  <2> DEFINE r == received[c]
             l == lost[c]
             old == cursor[c]
  <2>2. /\ x \in Connections /\ y \in Connections /\ r \in SUBSET (1..Len(published))
        /\ Queued(x, published) /\ NoGap(x.client, published, r, l) /\ Serves(x, published, old, r, l)
        /\ x.stage = "replaying" /\ x.missed # <<>> /\ h = Head(x.missed)
        /\ y.stage = x.stage /\ y.client = x.client /\ y.queue = x.queue /\ y.missed = Tail(x.missed)
        /\ c = x.client
    BY <1>2, <1>3, <1>5, <1>8
  <2> HIDE DEF r, l, old, c, h, x
  <2>3. NoGap(x.client, published, r \cup {h}, l) /\ Serves(y, published, h, r \cup {h}, l)
    BY <2>1, <2>2, MissedServes
  <2> QED BY <2>2, <2>3 DEF r, l
<1>9. NoGap(c, published, rec, los)
  BY <1>2, <1>8
<1>10. /\ rec \in SUBSET (1..Len(published)) /\ los \in SUBSET (1..Len(published)) /\ cur \in Nat
       /\ cur \in rec \/ (cur = 0 /\ rec = {})
       /\ received[c] \subseteq rec /\ lost[c] \subseteq los
       /\ IF current[c] = k THEN Serves(y, published, cur, rec, los) ELSE rec = received[c] /\ cur = cursor[c]
  BY <1>2, <1>4, <1>8
<1>11. c = y.client /\ c = conn[k].client
  BY <1>3
<1> HIDE DEF rec, cur, los, h, x, c
<1> QED
  <2>1. /\ y \in Connections /\ y.client = conn[k].client /\ conn' = [conn EXCEPT ![k] = y]
        /\ Queued(y, published)
        /\ rec \in SUBSET (1..Len(published)) /\ los \in SUBSET (1..Len(published)) /\ cur \in Nat
        /\ received' = [received EXCEPT ![y.client] = rec] /\ lost' = [lost EXCEPT ![y.client] = los]
        /\ cursor' = [cursor EXCEPT ![y.client] = cur]
        /\ UNCHANGED <<published, ring, current>>
        /\ received[y.client] \subseteq rec /\ lost[y.client] \subseteq los
        /\ cur \in rec \/ (cur = 0 /\ rec = {})
        /\ NoGap(y.client, published, rec, los)
        /\ IF current[y.client] = k THEN Serves(y, published, cur, rec, los)
           ELSE rec = received[y.client] /\ cur = cursor[y.client]
    BY <1>4, <1>5, <1>6, <1>7, <1>9, <1>10, <1>11
  <2> QED BY <1>1, <2>1, ConnectionSteps

\* An event of the queue is written.
LEMMA WriteLiveKeeps ==
  ASSUME StreamInv, NEW k \in Conns, WriteLive(k)
  PROVE  StreamInv'
<1>1. k \in Registered
  BY DEF WriteLive, Registered
<1> DEFINE x == conn[k]
           c == conn[k].client
           h == Head(x.queue)
           y == [x EXCEPT !.queue = Tail(x.queue)]
           rec == IF current[c] = k THEN received[c] \cup {h} ELSE received[c]
           cur == IF current[c] = k THEN h ELSE cursor[c]
           los == lost[c]
<1>2. /\ x \in Connections /\ c \in Clients /\ Queued(x, published) /\ x.stage = "open" /\ x.queue # <<>>
      /\ received[c] \in SUBSET (1..Len(published)) /\ lost[c] \in SUBSET (1..Len(published))
      /\ cursor[c] \in Nat /\ (cursor[c] \in received[c] \/ (cursor[c] = 0 /\ received[c] = {}))
      /\ NoGap(c, published, received[c], lost[c])
      /\ current[c] = k => Serves(x, published, cursor[c], received[c], lost[c])
  BY <1>1, ConnectionKnown DEF WriteLive
<1>3. y.client = x.client /\ y.missed = x.missed /\ y.stage = x.stage /\ y.queue = Tail(x.queue)
  BY <1>2 DEF Connections
<1>4. y.queue \in Seq(Nat) /\ h \in Nat /\ h \in 1..Len(published) /\ Queued(y, published)
  BY <1>2, <1>3, QueueQueued
<1>5. y \in Connections
  BY <1>2, <1>3, <1>4 DEF Connections
<1>6. /\ conn' = [conn EXCEPT ![k] = y] /\ UNCHANGED <<published, ring, current>> /\ lost' = lost
      /\ cursor' = [cursor EXCEPT ![c] = cur] /\ received' = [received EXCEPT ![c] = rec]
  BY <1>2 DEF WriteLive, Write, StreamInv, StreamTypes
<1>7. lost' = [lost EXCEPT ![c] = los]
  BY <1>6 DEF StreamInv, StreamTypes
<1> HIDE DEF y
<1>8. ASSUME current[c] = k
      PROVE  NoGap(c, published, received[c] \cup {h}, lost[c]) /\ Serves(y, published, h, received[c] \cup {h}, lost[c])
  <2>1. Len(published) \in Nat
    BY DEF StreamInv, StreamTypes
  <2> DEFINE r == received[c]
             l == lost[c]
             old == cursor[c]
  <2>2. /\ x \in Connections /\ y \in Connections /\ r \in SUBSET (1..Len(published))
        /\ Queued(x, published) /\ NoGap(x.client, published, r, l) /\ Serves(x, published, old, r, l)
        /\ x.stage = "open" /\ x.queue # <<>> /\ h = Head(x.queue)
        /\ y.stage = x.stage /\ y.client = x.client /\ y.missed = x.missed /\ y.queue = Tail(x.queue)
        /\ c = x.client
    BY <1>2, <1>3, <1>5, <1>8
  <2> HIDE DEF r, l, old, c, h, x
  <2>3. NoGap(x.client, published, r \cup {h}, l) /\ Serves(y, published, h, r \cup {h}, l)
    BY <2>1, <2>2, QueueServes
  <2> QED BY <2>2, <2>3 DEF r, l
<1>9. NoGap(c, published, rec, los)
  BY <1>2, <1>8
<1>10. /\ rec \in SUBSET (1..Len(published)) /\ los \in SUBSET (1..Len(published)) /\ cur \in Nat
       /\ cur \in rec \/ (cur = 0 /\ rec = {})
       /\ received[c] \subseteq rec /\ lost[c] \subseteq los
       /\ IF current[c] = k THEN Serves(y, published, cur, rec, los) ELSE rec = received[c] /\ cur = cursor[c]
  BY <1>2, <1>4, <1>8
<1>11. c = y.client /\ c = conn[k].client
  BY <1>3
<1> HIDE DEF rec, cur, los, h, x, c
<1> QED
  <2>1. /\ y \in Connections /\ y.client = conn[k].client /\ conn' = [conn EXCEPT ![k] = y]
        /\ Queued(y, published)
        /\ rec \in SUBSET (1..Len(published)) /\ los \in SUBSET (1..Len(published)) /\ cur \in Nat
        /\ received' = [received EXCEPT ![y.client] = rec] /\ lost' = [lost EXCEPT ![y.client] = los]
        /\ cursor' = [cursor EXCEPT ![y.client] = cur]
        /\ UNCHANGED <<published, ring, current>>
        /\ received[y.client] \subseteq rec /\ lost[y.client] \subseteq los
        /\ cur \in rec \/ (cur = 0 /\ rec = {})
        /\ NoGap(y.client, published, rec, los)
        /\ IF current[y.client] = k THEN Serves(y, published, cur, rec, los)
           ELSE rec = received[y.client] /\ cur = cursor[y.client]
    BY <1>4, <1>5, <1>6, <1>7, <1>9, <1>10, <1>11
  <2> QED BY <1>1, <2>1, ConnectionSteps

\* All that was missed is written.
LEMMA HelloKeeps ==
  ASSUME StreamInv, NEW k \in Conns, Hello(k)
  PROVE  StreamInv'
<1>1. k \in Registered
  BY DEF Hello, Registered
<1> DEFINE x == conn[k]
           c == conn[k].client
           y == [x EXCEPT !.stage = "open"]
           rec == received[c]
           cur == cursor[c]
           los == lost[c]
<1>2. /\ x \in Connections /\ c \in Clients /\ Queued(x, published) /\ x.stage = "replaying" /\ x.missed = <<>>
      /\ rec \in SUBSET (1..Len(published)) /\ los \in SUBSET (1..Len(published))
      /\ cur \in Nat /\ (cur \in rec \/ (cur = 0 /\ rec = {}))
      /\ NoGap(c, published, rec, los)
      /\ current[c] = k => Serves(x, published, cur, rec, los)
  BY <1>1, ConnectionKnown DEF Hello
<1>3. y \in Connections /\ y.client = x.client /\ y.missed = x.missed /\ y.stage = "open" /\ y.queue = x.queue
  BY <1>2 DEF Connections
<1>4. Queued(y, published)
  BY <1>2, <1>3 DEF Queued
<1>5. /\ conn' = [conn EXCEPT ![k] = y] /\ UNCHANGED <<published, ring, current>>
      /\ lost' = [lost EXCEPT ![c] = los] /\ cursor' = [cursor EXCEPT ![c] = cur]
      /\ received' = [received EXCEPT ![c] = rec]
  BY <1>2 DEF Hello, StreamInv, StreamTypes
<1>6. current[c] = k => Serves(y, published, cur, rec, los)
  <2> HIDE DEF y
  <2> SUFFICES ASSUME current[c] = k PROVE Serves(y, published, cur, rec, los)
    OBVIOUS
  <2>1. Serves(x, published, cur, rec, los)
    BY <1>2
  <2> QED BY <1>2, <1>3, <2>1 DEF Serves
<1>7. c = y.client /\ c = conn[k].client
  BY <1>3
<1>8. received[c] \subseteq rec /\ lost[c] \subseteq los /\ rec = received[c] /\ cur = cursor[c]
  OBVIOUS
<1> HIDE DEF y, rec, cur, los, x, c
<1> QED
  <2>1. /\ y \in Connections /\ y.client = conn[k].client /\ conn' = [conn EXCEPT ![k] = y]
        /\ Queued(y, published)
        /\ rec \in SUBSET (1..Len(published)) /\ los \in SUBSET (1..Len(published)) /\ cur \in Nat
        /\ received' = [received EXCEPT ![y.client] = rec] /\ lost' = [lost EXCEPT ![y.client] = los]
        /\ cursor' = [cursor EXCEPT ![y.client] = cur]
        /\ UNCHANGED <<published, ring, current>>
        /\ received[y.client] \subseteq rec /\ lost[y.client] \subseteq los
        /\ cur \in rec \/ (cur = 0 /\ rec = {})
        /\ NoGap(y.client, published, rec, los)
        /\ IF current[y.client] = k THEN Serves(y, published, cur, rec, los)
           ELSE rec = received[y.client] /\ cur = cursor[y.client]
    BY <1>2, <1>3, <1>4, <1>5, <1>6, <1>7, <1>8
  <2> QED BY <1>1, <2>1, ConnectionSteps

\* Connections end, and clients leave theirs.
LEMMA EndsKeep ==
  ASSUME StreamInv,
         \/ \E k \in Conns : HandlerEnds(k)
         \/ \E c \in Clients : Leaves(c)
  PROVE  StreamInv'
<1>1. /\ published' = published /\ ring' = ring /\ cursor' = cursor /\ received' = received /\ lost' = lost
      /\ \A k \in Conns : conn'[k] = conn[k] \/ conn'[k] = NoClient
      /\ \A c \in Clients : current'[c] = NoConn \/ (current'[c] = current[c] /\ conn'[current[c]] = conn[current[c]])
      /\ current' \in [Clients -> Conns \cup {NoConn}] /\ DOMAIN conn' = Conns /\ conn' = [k \in Conns |-> conn'[k]]
  <2>1. StreamTypes
    BY DEF StreamInv
  <2>2. ASSUME NEW k \in Conns, HandlerEnds(k) PROVE <1>1!:
    BY <2>1, <2>2 DEF StreamTypes, HandlerEnds
  <2>3. ASSUME NEW c \in Clients, Leaves(c) PROVE <1>1!:
    BY <2>1, <2>3 DEF StreamTypes, Leaves
  <2> QED BY <2>2, <2>3
<1>2. NoClient.stage = "free"
  BY DEF NoClient
<1>3. \A k \in Registered' : k \in Registered /\ conn'[k] = conn[k]
  BY <1>1, <1>2 DEF Registered
<1>4. StreamTypes'
  BY <1>1 DEF StreamInv, StreamTypes
<1>5. RingInv' /\ Cursors' /\ NoGaps'
  BY <1>1 DEF StreamInv, RingInv, Cursors, NoGaps
<1>6. QueuesInv'
  BY <1>1, <1>3 DEF StreamInv, QueuesInv
<1>7. ServedInv'
  <2> SUFFICES ASSUME NEW c \in Clients, current'[c] # NoConn
               PROVE  /\ current'[c] \in Registered' /\ conn'[current'[c]].client = c
                      /\ Serves(conn'[current'[c]], published, cursor[c], received[c], lost[c])
    BY <1>1 DEF ServedInv
  <2>1. current'[c] = current[c] /\ conn'[current[c]] = conn[current[c]]
    BY <1>1
  <2>2. /\ current[c] \in Registered /\ conn[current[c]].client = c
        /\ Serves(conn[current[c]], published, cursor[c], received[c], lost[c])
    BY <2>1 DEF StreamInv, ServedInv
  <2>3. current[c] \in Registered'
    BY <2>1, <2>2 DEF Registered
  <2> QED BY <2>1, <2>2, <2>3
<1> QED BY <1>4, <1>5, <1>6, <1>7 DEF StreamInv

\* A restart accounts for everything it forgets.
LEMMA RestartKeeps ==
  ASSUME StreamInv, GatewayRestarts
  PROVE  StreamInv'
<1>1. /\ published' = published /\ cursor' = cursor /\ received' = received /\ ring' = <<>>
      /\ \A k \in Conns : conn'[k] = NoClient
      /\ \A c \in Clients : current'[c] = NoConn /\ lost'[c] = lost[c] \cup (1..Len(published) \ received[c])
  BY DEF GatewayRestarts
<1>2. Registered' = {}
  BY <1>1 DEF Registered, NoClient
<1>3. StreamTypes'
  BY DEF GatewayRestarts, StreamInv, StreamTypes
<1>4. RingInv'
  <2>1. <<>> \in Seq(Nat) /\ InOrder(<<>>) /\ Len(<<>>) <= ReplaySize
    BY StreamConstants DEF InOrder
  <2>2. Range(<<>>) = {}
    BY <2>1, RangeIs
  <2>3. \A c \in Clients, i \in 1..Len(published) : i \in received'[c] \cup lost'[c]
    BY <1>1
  <2> QED BY <1>1, <2>1, <2>2, <2>3 DEF RingInv
<1>5. Cursors'
  BY <1>1 DEF StreamInv, Cursors
<1>6. NoGaps'
  <2> SUFFICES ASSUME NEW c \in Clients PROVE NoGap(c, published, received[c], lost'[c])
    BY <1>1 DEF NoGaps
  <2>1. NoGap(c, published, received[c], lost[c]) /\ lost[c] \subseteq lost'[c]
    BY <1>1 DEF StreamInv, NoGaps
  <2> QED BY <2>1, ServesMore
<1>7. QueuesInv' /\ ServedInv'
  BY <1>1, <1>2 DEF QueuesInv, ServedInv
<1> QED BY <1>3, <1>4, <1>5, <1>6, <1>7 DEF StreamInv

\* It holds of a stream nobody has used.
LEMMA StreamStart == StreamInit => StreamInv
<1> SUFFICES ASSUME StreamInit PROVE StreamInv
  OBVIOUS
<1>1. Len(published) = 0 /\ 1..0 = {} /\ published \in Seq(Kinds) /\ ring \in Seq(Nat) /\ Len(ring) = 0
  BY DEF StreamInit
<1>2. Registered = {}
  BY DEF StreamInit, Registered, NoClient
<1>3. StreamTypes
  BY <1>1 DEF StreamInit, StreamTypes
<1>4. Range(ring) = {}
  BY <1>1, RangeIs DEF StreamInit
<1>5. RingInv
  BY <1>1, <1>4, StreamConstants DEF RingInv, InOrder
<1>6. Cursors
  BY DEF StreamInit, Cursors
<1>7. NoGaps
  BY <1>1 DEF NoGaps, NoGap
<1>8. QueuesInv /\ ServedInv
  BY <1>2 DEF StreamInit, QueuesInv, ServedInv
<1> QED BY <1>3, <1>5, <1>6, <1>7, <1>8 DEF StreamInv

\* Every step keeps it.
LEMMA StreamStep == StreamInv /\ [StreamNext]_streamVars => StreamInv'
<1> SUFFICES ASSUME StreamInv, [StreamNext]_streamVars PROVE StreamInv'
  OBVIOUS
<1>1. ASSUME NEW kind \in Kinds, Publish(kind) PROVE StreamInv'
  BY <1>1, PublishKeeps
<1>2. ASSUME NEW c \in Clients, Leaves(c) PROVE StreamInv'
  BY <1>2, EndsKeep
<1>3. ASSUME NEW c \in Clients, NEW k \in Conns, Connect(c, k) PROVE StreamInv'
  BY <1>3, ConnectKeeps
<1>4. ASSUME NEW k \in Conns, Prepared(k) PROVE StreamInv'
  BY <1>4, PreparedKeeps
<1>5. ASSUME NEW k \in Conns, WriteMissed(k) PROVE StreamInv'
  BY <1>5, WriteMissedKeeps
<1>6. ASSUME NEW k \in Conns, Hello(k) PROVE StreamInv'
  BY <1>6, HelloKeeps
<1>7. ASSUME NEW k \in Conns, WriteLive(k) PROVE StreamInv'
  BY <1>7, WriteLiveKeeps
<1>8. ASSUME NEW k \in Conns, HandlerEnds(k) PROVE StreamInv'
  BY <1>8, EndsKeep
<1>9. ASSUME GatewayRestarts PROVE StreamInv'
  BY <1>9, RestartKeeps
<1>10. ASSUME UNCHANGED streamVars PROVE StreamInv'
  <2>1. /\ published' = published /\ ring' = ring /\ conn' = conn /\ current' = current /\ cursor' = cursor
        /\ received' = received /\ lost' = lost
    BY <1>10 DEF streamVars
  <2>2. Registered' = Registered
    BY <2>1 DEF Registered
  <2>3. StreamTypes' /\ RingInv' /\ Cursors' /\ NoGaps' /\ QueuesInv' /\ ServedInv'
    BY <2>1, <2>2 DEF StreamInv, StreamTypes, RingInv, Cursors, NoGaps, QueuesInv, ServedInv
  <2> QED BY <2>3 DEF StreamInv
<1> QED BY <1>1, <1>2, <1>3, <1>4, <1>5, <1>6, <1>7, <1>8, <1>9, <1>10 DEF StreamNext

\* A client that saw one event and later another has seen every event between them
\* that it asked for, except those a counter tells of: for any clients, connections,
\* queue and ring sizes (event_broadcaster.py).
THEOREM StreamHasNoGaps == StreamSpec => []NothingIsLostSilently
<1>1. StreamInv => NothingIsLostSilently
  <2> SUFFICES ASSUME StreamInv, NEW c \in Clients, NEW i \in 1..Len(published), Matches(c, published[i]),
                      NEW before \in received[c], NEW after \in received[c], before < i, i < after
               PROVE  i \in received[c] \cup lost[c]
    BY DEF NothingIsLostSilently
  <2> QED BY DEF StreamInv, NoGaps, NoGap, ComesAfter, Matches
<1> QED BY <1>1, StreamStart, StreamStep, PTL DEF StreamSpec
=============================================================================
