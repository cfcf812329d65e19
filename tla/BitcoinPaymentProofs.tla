------------------------- MODULE BitcoinPaymentProofs -------------------------
(***************************************************************************)
(* What is proved of BitcoinPayment, for any number of payments, requests  *)
(* and coins: a payment that was given up can never take its coin nor wait *)
(* in the Operator's queue, its registration and its forfeit leave the     *)
(* process once, and the handlers, the Operator and the chain together do  *)
(* only what the specification of the ledger allows.                       *)
(***************************************************************************)
EXTENDS BitcoinPayment, TLAPS

-----------------------------------------------------------------------------
(* The calls of the ledger.                                                *)

(* A reservation stores the row and nothing else.                          *)
LEMMA ReserveEffect ==
    ASSUME TypeOK, NEW p \in Renewals, ReserveSpendingRenewal(p)
    PROVE  /\ renewal' \in [Renewals -> RenewalRow]
           /\ renewal'[p].stored
           /\ renewal'[p].events = renewal[p].events
           /\ renewal'[p].dispatchedAt = renewal[p].dispatchedAt
           /\ \A q \in Renewals \ {p} : renewal'[q] = renewal[q]
           /\ UNCHANGED <<now, vtxo, delegation, signCount, worldVars>>
  <1>1. /\ renewal \in [Renewals -> RenewalRow]
        /\ renewal' = [renewal EXCEPT ![p].stored = TRUE]
        /\ UNCHANGED <<now, vtxo, delegation, signCount, worldVars>>
    BY Zenon DEF TypeOK, ReserveSpendingRenewal
  <1> QED
    BY <1>1, Zenon DEF RenewalRow

(* An append adds one phase that was not there, and stamps a dispatch no   *)
(* later than now.                                                         *)
LEMMA AppendEffect ==
    ASSUME TypeOK, NEW p \in Renewals, NEW e \in RenewalPhases,
           AppendSpendingRenewalEvent(p, e)
    PROVE  /\ renewal' \in [Renewals -> RenewalRow]
           /\ signCount' \in [Vaults -> Nat]
           /\ renewal[p].stored /\ renewal'[p].stored
           /\ renewal'[p].events = renewal[p].events \cup {e}
           /\ e \notin renewal[p].events
           /\ e # "final_dispatched" => renewal'[p].dispatchedAt = renewal[p].dispatchedAt
           /\ renewal'[p].dispatchedAt \in Nat
           /\ e = "final_dispatched" => renewal'[p].dispatchedAt <= now
           /\ \A q \in Renewals \ {p} : renewal'[q] = renewal[q]
           /\ UNCHANGED <<now, vtxo, delegation, worldVars>>
  <1>1. PICK t \in NowUTC :
           renewal' = [renewal EXCEPT
                ![p] = [stored |-> TRUE,
                        events |-> @.events \cup {e},
                        dispatchedAt |-> IF e = "final_dispatched" THEN t ELSE @.dispatchedAt,
                        confirmedAt |-> IF e = "confirmed" THEN t ELSE @.confirmedAt]]
    BY Zenon DEF AppendSpendingRenewalEvent
  <1>2. t \in Nat /\ t <= now
    BY TimeAssumption DEF NowUTC, TypeOK, Time
  <1> DEFINE row == [stored |-> TRUE,
                     events |-> renewal[p].events \cup {e},
                     dispatchedAt |-> IF e = "final_dispatched" THEN t
                                      ELSE renewal[p].dispatchedAt,
                     confirmedAt |-> IF e = "confirmed" THEN t ELSE renewal[p].confirmedAt]
  <1>3. renewal' = [renewal EXCEPT ![p] = row] /\ renewal \in [Renewals -> RenewalRow]
    BY <1>1, Zenon DEF TypeOK
  <1>4. row \in RenewalRow
    BY <1>2, <1>3, Zenon DEF RenewalRow, Time
  <1>5. renewal'[p] = row /\ \A q \in Renewals \ {p} : renewal'[q] = renewal[q]
    BY <1>3, Zenon
  <1>6. renewal' \in [Renewals -> RenewalRow]
    BY <1>3, <1>4, Zenon
  <1>7. signCount' \in [Vaults -> Nat]
    BY AmountAssumption DEF AppendSpendingRenewalEvent, advanceSignCount, TypeOK
  <1>8. /\ renewal[p].stored /\ e \notin renewal[p].events
        /\ UNCHANGED <<now, vtxo, delegation, worldVars>>
    BY Zenon DEF AppendSpendingRenewalEvent
  <1>9. renewal[p].dispatchedAt \in Nat
    BY <1>3, Zenon DEF RenewalRow, Time
  <1> QED
    BY <1>2, <1>5, <1>6, <1>7, <1>8, <1>9
-----------------------------------------------------------------------------
(* The handlers, with the requests taken away.                             *)

Appends(p, e) ==
    /\ AppendSpendingRenewalEvent(p, e)
    /\ e = "rejected" => intent[p] = "rejected"
    /\ e = "delete_result" => deletion[p] = "done"
    /\ UNCHANGED operatorVars

SendsIntent(p) ==
    /\ AppendSpendingRenewalEvent(p, "register_dispatched")
    /\ intent' = [intent EXCEPT ![p] = "sent"]
    /\ UNCHANGED <<deletion, forfeit>>

SendsForfeit(p) ==
    /\ AppendSpendingRenewalEvent(p, "final_dispatched")
    /\ forfeit' = [forfeit EXCEPT ![p] = "sent"]
    /\ UNCHANGED <<intent, deletion>>

SendsDeletion(p) ==
    /\ AppendOrReplay(p, "delete_dispatched")
    /\ deletion' = [deletion EXCEPT ![p] = "sent"]
    /\ UNCHANGED <<intent, forfeit>>

(* A request that is in a step is about a payment.                         *)
LEMMA ActiveRequest ==
    ASSUME PaymentInv, NEW r \in Requests, NEW step \in RequestSteps, At(r, step)
    PROVE  /\ req[r] \in [step : RequestSteps, pay : Renewals]
           /\ Pay(r) \in Renewals
  BY DEF PaymentInv, PaymentTypes, RequestSteps, Idle, None, At, Pay

(* Appending a phase or finding it stored, on a request's way.             *)
LEMMA AppendsOrStays ==
    ASSUME NEW p \in Renewals, NEW e \in RenewalPhases, AppendOrReplay(p, e),
           e # "rejected", e = "delete_result" => deletion[p] = "done",
           UNCHANGED operatorVars
    PROVE  Appends(p, e) \/ UNCHANGED <<vars, operatorVars>>
  BY Zenon DEF AppendOrReplay, Appends

(* Every step of the specification, without the request that made it.      *)
LEMMA NextActions ==
    ASSUME PaymentInv, [PaymentNext]_paymentVars
    PROVE  \/ UNCHANGED <<vars, operatorVars>>
           \/ \E p \in Renewals : ReserveSpendingRenewal(p) /\ UNCHANGED operatorVars
           \/ \E p \in Renewals, e \in RenewalPhases : Appends(p, e)
           \/ \E p \in Renewals : SendsIntent(p) \/ SendsForfeit(p) \/ SendsDeletion(p)
           \/ \E p \in Renewals :
                 \/ OperatorRegister(p) \/ OperatorBatch(p) \/ OperatorDelete(p)
                 \/ OperatorForfeit(p) \/ OperatorEnd(p)
                 \/ CommitmentConfirms(p) \/ ConflictConfirms(p)
           \/ Tick
  <1> DEFINE Quiet == UNCHANGED <<vars, operatorVars>>
             Appended == \E p \in Renewals, e \in RenewalPhases : Appends(p, e)
             Sent == \E p \in Renewals : SendsIntent(p) \/ SendsForfeit(p) \/ SendsDeletion(p)
             Reserved == \E p \in Renewals : ReserveSpendingRenewal(p) /\ UNCHANGED operatorVars
  <1>0. {"register_authorized", "registered", "rejected", "final_authorized", "final_result",
         "confirmed", "delete_authorized", "delete_result", "released", "cancelled"}
            \subseteq RenewalPhases
    BY Zenon DEF RenewalPhases
  <1>1. ASSUME NEW r \in Requests, NEW p \in Renewals, Routes(r, p) PROVE Quiet
    BY <1>1, Zenon DEF Routes, Prepare, Register, Final, Reconcile, Release, Start
  <1>2. ASSUME NEW r \in Requests, reserveBitcoinPlan(r) PROVE Reserved
    BY <1>2, ActiveRequest, Zenon DEF reserveBitcoinPlan, RequestSteps
  <1>3. ASSUME NEW r \in Requests,
               RecheckRegister(r) \/ RecheckFinal(r) \/ releaseEndedBitcoinPayment(r)
               \/ releaseConflictedBitcoinPayment(r) \/ CheckLive(r) \/ Fail(r)
        PROVE  Quiet
    BY <1>3, Zenon DEF RecheckRegister, RecheckFinal, releaseEndedBitcoinPayment,
       releaseConflictedBitcoinPayment, CheckLive, Fail, Advance
  <1>4. ASSUME NEW r \in Requests,
               AuthorizeRegister(r) \/ AuthorizeFinal(r) \/ AuthorizeDelete(r) \/ RecordDelete(r)
        PROVE  Quiet \/ Appended
    <2>1. CASE AuthorizeRegister(r)
      BY <1>0, <2>1, ActiveRequest, AppendsOrStays, Zenon DEF AuthorizeRegister, RequestSteps
    <2>2. CASE AuthorizeFinal(r)
      BY <1>0, <2>2, ActiveRequest, AppendsOrStays DEF AuthorizeFinal, RequestSteps
    <2>3. CASE AuthorizeDelete(r)
      BY <1>0, <2>3, ActiveRequest, AppendsOrStays, Zenon DEF AuthorizeDelete, RequestSteps
    <2>4. CASE RecordDelete(r)
      BY <1>0, <2>4, ActiveRequest, AppendsOrStays DEF RecordDelete, RequestSteps
    <2> QED
      BY <1>4, <2>1, <2>2, <2>3, <2>4
  <1>5. ASSUME NEW r \in Requests,
               RecordFinal(r) \/ Confirm(r) \/ AppendReleased(r) \/ Cancel(r)
        PROVE  Appended
    <2>1. PICK e \in {"final_result", "confirmed", "released", "cancelled"} :
              AppendSpendingRenewalEvent(Pay(r), e) /\ UNCHANGED operatorVars
      BY <1>5, Zenon DEF RecordFinal, Confirm, AppendReleased, Cancel
    <2>2. Pay(r) \in Renewals
      BY <1>5, ActiveRequest, Zenon DEF RecordFinal, Confirm, AppendReleased, Cancel, RequestSteps
    <2> QED
      BY <1>0, <2>1, <2>2, Zenon DEF Appends
  <1>6. ASSUME NEW r \in Requests, RecordRegister(r) PROVE Appended
    <2>1. Pay(r) \in Renewals
      BY <1>6, ActiveRequest, Zenon DEF RecordRegister, RequestSteps
    <2> QED
      BY <1>0, <1>6, <2>1, Zenon DEF RecordRegister, Appends
  <1>7. ASSUME NEW r \in Requests, DispatchRegister(r) \/ DispatchFinal(r) \/ DispatchDelete(r)
        PROVE  Sent
    <2>1. Pay(r) \in Renewals
      BY <1>7, ActiveRequest, Zenon
         DEF DispatchRegister, DispatchFinal, DispatchDelete, RequestSteps
    <2> QED
      BY <1>7, <2>1, Zenon DEF DispatchRegister, DispatchFinal, DispatchDelete,
         SendsIntent, SendsForfeit, SendsDeletion
  <1>8. CASE UNCHANGED paymentVars
    BY <1>8 DEF paymentVars
  <1> QED
    BY <1>1, <1>2, <1>3, <1>4, <1>5, <1>6, <1>7, <1>8, Zenon DEF PaymentNext
-----------------------------------------------------------------------------
(* Types.                                                                  *)

(* Whatever a request does, the requests stay requests about payments.     *)
LEMMA RequestsTyped ==
    ASSUME PaymentInv, [PaymentNext]_paymentVars
    PROVE  req' \in [Requests -> [step : RequestSteps, pay : Renewals] \cup {Idle}]
  <1> DEFINE Good == req' \in [Requests -> [step : RequestSteps, pay : Renewals] \cup {Idle}]
  <1>0. req \in [Requests -> [step : RequestSteps, pay : Renewals] \cup {Idle}]
    BY Zenon DEF PaymentInv, PaymentTypes
  <1>1. ASSUME NEW r \in Requests, Done(r) PROVE Good
    BY <1>0, <1>1, Zenon DEF Done
  <1>2. ASSUME NEW r \in Requests, NEW from \in RequestSteps, NEW to \in RequestSteps,
               At(r, from), GoTo(r, to)
        PROVE  Good
    <2>1. req[r] \in [step : RequestSteps, pay : Renewals]
      BY <1>2, ActiveRequest, Zenon
    <2>2. [req[r] EXCEPT !.step = to] \in [step : RequestSteps, pay : Renewals]
      BY <2>1, Zenon
    <2> QED
      BY <1>0, <1>2, <2>2, Zenon DEF GoTo
  <1>3. ASSUME NEW r \in Requests, NEW p \in Renewals, Routes(r, p) PROVE Good
    <2>1. ASSUME NEW step \in RequestSteps, Start(r, p, step) PROVE Good
      BY <1>0, <2>1, Zenon DEF Start
    <2> QED
      BY <1>3, <2>1, Zenon DEF Routes, Prepare, Register, Final, Reconcile, Release, RequestSteps
  <1>4. ASSUME NEW r \in Requests,
               \/ reserveBitcoinPlan(r) \/ RecordRegister(r) \/ RecordFinal(r) \/ Confirm(r)
               \/ AppendReleased(r) \/ Cancel(r) \/ Fail(r)
        PROVE  Good
    BY <1>1, <1>4, Zenon DEF reserveBitcoinPlan, RecordRegister, RecordFinal, Confirm,
       AppendReleased, Cancel, Fail
  <1>5. ASSUME NEW r \in Requests,
               \/ AuthorizeRegister(r) \/ RecheckRegister(r) \/ DispatchRegister(r)
               \/ AuthorizeFinal(r) \/ RecheckFinal(r) \/ DispatchFinal(r)
        PROVE  Good
    BY <1>2, <1>5, Zenon DEF AuthorizeRegister, RecheckRegister, DispatchRegister, AuthorizeFinal,
       RecheckFinal, DispatchFinal, Advance, RequestSteps
  <1>6. ASSUME NEW r \in Requests,
               \/ releaseEndedBitcoinPayment(r) \/ releaseConflictedBitcoinPayment(r)
               \/ AuthorizeDelete(r) \/ DispatchDelete(r) \/ RecordDelete(r) \/ CheckLive(r)
        PROVE  Good
    BY <1>2, <1>6, Zenon DEF releaseEndedBitcoinPayment, releaseConflictedBitcoinPayment,
       AuthorizeDelete, DispatchDelete, RecordDelete, CheckLive, Advance, RequestSteps
  <1>7. ASSUME NEW p \in Renewals,
               \/ OperatorRegister(p) \/ OperatorBatch(p) \/ OperatorDelete(p)
               \/ OperatorForfeit(p) \/ OperatorEnd(p)
               \/ CommitmentConfirms(p) \/ ConflictConfirms(p)
        PROVE  Good
    BY <1>0, <1>7, Zenon DEF OperatorRegister, OperatorBatch, OperatorDelete, OperatorForfeit,
       OperatorEnd, CommitmentConfirms, ConflictConfirms
  <1>8. CASE Tick \/ UNCHANGED paymentVars
    BY <1>0, <1>8 DEF Tick, paymentVars
  <1> QED
    BY <1>3, <1>4, <1>5, <1>6, <1>7, <1>8, Zenon DEF PaymentNext

(* The Operator's stamp on the end of a batch is no earlier than now.      *)
LEMMA OperatorStamps ==
    ASSUME TypeOK, NEW t \in OperatorTime
    PROVE  t \in Nat /\ now <= t
  BY TimeAssumption DEF OperatorTime, TypeOK, Time

(* The ledger's rows, the network and the Operator keep their types.       *)
LEMMA TypesStep ==
    ASSUME PaymentInv, [PaymentNext]_paymentVars
    PROVE  PaymentTypes'
  <1>0. PaymentTypes /\ TypeOK
    BY Zenon DEF PaymentInv, PaymentTypes
  <1> DEFINE Operators ==
        /\ intent' \in [Renewals -> {None, "sent", "queued", "batched", "rejected", "deleted"}]
        /\ deletion' \in [Renewals -> {None, "sent", "done"}]
        /\ forfeit' \in [Renewals -> {None, "sent", "held"}]
  <1> SUFFICES TypeOK' /\ Operators
    BY RequestsTyped, Zenon DEF PaymentTypes, Idle, None, RequestSteps
  <1>1. CASE UNCHANGED <<vars, operatorVars>>
    BY <1>0, <1>1, Zenon DEF PaymentTypes, TypeOK, vars, operatorVars
  <1>2. ASSUME NEW p \in Renewals, ReserveSpendingRenewal(p), UNCHANGED operatorVars
        PROVE  TypeOK' /\ Operators
    BY <1>0, <1>2, ReserveEffect, Zenon DEF PaymentTypes, TypeOK, worldVars, operatorVars
  <1>3. ASSUME NEW p \in Renewals, NEW e \in RenewalPhases, AppendSpendingRenewalEvent(p, e)
        PROVE  TypeOK'
    BY <1>0, <1>3, AppendEffect, Zenon DEF TypeOK, worldVars
  <1>4. ASSUME NEW p \in Renewals, NEW e \in RenewalPhases, Appends(p, e)
        PROVE  TypeOK' /\ Operators
    BY <1>0, <1>3, <1>4, Zenon DEF Appends, PaymentTypes, operatorVars
  <1>5. ASSUME NEW p \in Renewals, SendsIntent(p) \/ SendsForfeit(p) \/ SendsDeletion(p)
        PROVE  TypeOK' /\ Operators
    <2>1. TypeOK'
      BY <1>0, <1>3, <1>5, Zenon DEF SendsIntent, SendsForfeit, SendsDeletion, AppendOrReplay,
         RenewalPhases, TypeOK, vars
    <2>2. Operators
      BY <1>0, <1>5, Zenon DEF SendsIntent, SendsForfeit, SendsDeletion, PaymentTypes
    <2> QED
      BY <2>1, <2>2, Zenon
  <1>6. ASSUME NEW p \in Renewals,
               OperatorRegister(p) \/ OperatorBatch(p) \/ OperatorDelete(p) \/ OperatorForfeit(p)
        PROVE  TypeOK' /\ Operators
    <2>1. UNCHANGED vars
      BY <1>6, Zenon DEF OperatorRegister, OperatorBatch, OperatorDelete, OperatorForfeit
    <2>2. TypeOK'
      BY <1>0, <2>1, Zenon DEF TypeOK, vars
    <2>3. Operators
      BY <1>0, <1>6, Zenon DEF OperatorRegister, OperatorBatch, OperatorDelete, OperatorForfeit,
         PaymentTypes
    <2> QED
      BY <2>2, <2>3
  <1>7. ASSUME NEW p \in Renewals,
               OperatorEnd(p) \/ CommitmentConfirms(p) \/ ConflictConfirms(p)
        PROVE  TypeOK' /\ Operators
    BY <1>0, <1>7, OperatorStamps, Zenon DEF OperatorEnd, CommitmentConfirms, ConflictConfirms,
       PaymentTypes, TypeOK, ledgerVars, operatorVars, Time
  <1>8. CASE Tick
    BY <1>0, <1>8 DEF Tick, PaymentTypes, TypeOK, ledgerVars, worldVars, operatorVars, Time
  <1> QED
    BY <1>1, <1>2, <1>4, <1>5, <1>6, <1>7, <1>8, NextActions, Zenon
-----------------------------------------------------------------------------
(* The order of the phases.                                                *)

(* Time, and evidence from the network, only grow.                         *)
LEMMA WorldMoves ==
    ASSUME PaymentInv, [PaymentNext]_paymentVars
    PROVE  /\ now \in Nat /\ now' \in Nat /\ now <= now'
           /\ conflicted \subseteq conflicted'
           /\ \A p \in Renewals :
                 /\ endedAt[p] # Never => endedAt'[p] = endedAt[p]
                 /\ endedAt'[p] # endedAt[p] => endedAt'[p] \in Nat /\ now <= endedAt'[p]
                 /\ PastGrace(p) => PastGrace(p)'
  <1>0. TypeOK
    BY Zenon DEF PaymentInv, PaymentTypes
  <1>1. now \in Nat /\ endedAt \in [Renewals -> Nat \cup {Never}]
    BY <1>0, Zenon DEF TypeOK, Time
  <1>2. /\ now' \in Nat /\ now <= now'
        /\ conflicted \subseteq conflicted'
        /\ \A p \in Renewals :
                 /\ endedAt[p] # Never => endedAt'[p] = endedAt[p]
                 /\ endedAt'[p] # endedAt[p] => endedAt'[p] \in Nat /\ now <= endedAt'[p]
    <2> DEFINE Good ==
                 /\ now' \in Nat /\ now <= now'
                 /\ conflicted \subseteq conflicted'
                 /\ \A p \in Renewals :
                       /\ endedAt[p] # Never => endedAt'[p] = endedAt[p]
                       /\ endedAt'[p] # endedAt[p] => endedAt'[p] \in Nat /\ now <= endedAt'[p]
    <2>1. ASSUME UNCHANGED <<now, endedAt>>, conflicted \subseteq conflicted' PROVE Good
      BY <1>1, <2>1
    <2>2. CASE UNCHANGED <<vars, operatorVars>>
      BY <2>1, <2>2, Zenon DEF vars
    <2>3. ASSUME NEW p \in Renewals,
                 ReserveSpendingRenewal(p) \/ (\E e \in RenewalPhases : Appends(p, e))
                 \/ SendsIntent(p) \/ SendsForfeit(p) \/ SendsDeletion(p)
          PROVE  Good
      BY <2>1, <2>3, Zenon DEF ReserveSpendingRenewal, Appends, SendsIntent, SendsForfeit,
         SendsDeletion, AppendOrReplay, AppendSpendingRenewalEvent, worldVars, vars
    <2>4. ASSUME NEW p \in Renewals,
                 OperatorRegister(p) \/ OperatorBatch(p) \/ OperatorDelete(p)
                 \/ OperatorForfeit(p) \/ CommitmentConfirms(p) \/ ConflictConfirms(p)
          PROVE  Good
      BY <2>1, <2>4, Zenon DEF OperatorRegister, OperatorBatch, OperatorDelete, OperatorForfeit,
         CommitmentConfirms, ConflictConfirms, vars
    <2>5. ASSUME NEW p \in Renewals, OperatorEnd(p) PROVE Good
      <3>1. PICK t \in OperatorTime : endedAt' = [endedAt EXCEPT ![p] = t]
        BY <2>5, Zenon DEF OperatorEnd
      <3>2. t \in Nat /\ now <= t
        BY <1>0, OperatorStamps, Zenon
      <3> QED
        BY <1>1, <2>5, <3>1, <3>2 DEF OperatorEnd
    <2>6. CASE Tick
      BY <1>1, <2>6 DEF Tick, worldVars
    <2> QED
      BY <2>2, <2>3, <2>4, <2>5, <2>6, NextActions, Zenon
  <1> QED
    BY <1>1, <1>2, TimeAssumption DEF PastGrace

(* A journal that does not grow keeps its order.                           *)
LEMMA JournalKept ==
    ASSUME PaymentInv, [PaymentNext]_paymentVars, NEW p \in Renewals,
           renewal'[p].events = renewal[p].events,
           renewal'[p].dispatchedAt = renewal[p].dispatchedAt,
           renewal[p].stored => renewal'[p].stored
    PROVE  JournalOrder(p)'
  <1>1. /\ JournalOrder(p) /\ renewal[p].dispatchedAt \in Nat
    BY Zenon DEF PaymentInv, PaymentTypes, TypeOK, RenewalRow, Time
  <1>2. /\ now \in Nat /\ now' \in Nat /\ now <= now'
        /\ conflicted \subseteq conflicted'
        /\ endedAt[p] # Never => endedAt'[p] = endedAt[p]
        /\ PastGrace(p) => PastGrace(p)'
    BY WorldMoves, Zenon
  <1>3. (PastGrace(p))' <=> PastGrace(p)'
    BY Zenon
  <1> QED
    BY <1>1, <1>2, SMTT(30) DEF JournalOrder, Has

(* A phase is appended only after the phases it rests on.                  *)
LEMMA JournalGrows ==
    ASSUME PaymentInv, NEW p \in Renewals, NEW e \in RenewalPhases,
           AppendSpendingRenewalEvent(p, e)
    PROVE  JournalOrder(p)'
  <1>0. /\ JournalOrder(p) /\ TypeOK /\ renewal[p].dispatchedAt \in Nat /\ now \in Nat
    BY Zenon DEF PaymentInv, PaymentTypes, TypeOK, RenewalRow, Time
  <1>1. /\ renewal'[p].stored
        /\ renewal'[p].events = renewal[p].events \cup {e}
        /\ e # "final_dispatched" => renewal'[p].dispatchedAt = renewal[p].dispatchedAt
        /\ e = "final_dispatched" => renewal'[p].dispatchedAt <= now
        /\ UNCHANGED <<now, endedAt, conflicted>>
    BY <1>0, AppendEffect, Zenon DEF worldVars
  <1>2. PastGrace(p)' = PastGrace(p)
    BY <1>1, Zenon DEF PastGrace
  <1>3. ~renewalTerminal(p) /\ validateRenewalTransition(p, e)
    BY Zenon DEF AppendSpendingRenewalEvent, validateRenewalTransition
  <1>4. /\ ~Has(p, "released") /\ ~Has(p, "rejected") /\ ~Has(p, "cancelled")
    BY <1>3, Zenon DEF renewalTerminal, Has
  <1>5. \A x : (x \in renewal'[p].events) <=> (Has(p, x) \/ x = e)
    BY <1>1, Zenon DEF Has
  <1>6. /\ e = "final_dispatched" => Has(p, "final_authorized")
        /\ e = "final_authorized" => Has(p, "registered")
        /\ e = "registered" => Has(p, "register_dispatched")
        /\ e = "rejected" => ~Has(p, "registered")
        /\ e = "cancelled" => ~Has(p, "register_dispatched")
        /\ e = "delete_result" => Has(p, "delete_dispatched")
        /\ e = "delete_dispatched" => Has(p, "delete_authorized")
        /\ e = "delete_authorized" => PastGrace(p)
    BY <1>3, Zenon DEF validateRenewalTransition, Has
  <1>7. e = "released" =>
          IF Has(p, "final_dispatched")
          THEN \/ p \in conflicted
               \/ endedAt[p] # Never /\ renewal[p].dispatchedAt > endedAt[p]
          ELSE Has(p, "delete_result")
    BY <1>3, Zenon DEF validateRenewalTransition, Has, validateBitcoinDispatchedRelease,
       validateBitcoinConflictRelease, validateBitcoinEndedBatchRelease
  <1>8. (Has(p, "released"))' =>
          IF Has(p, "final_dispatched")'
          THEN \/ p \in conflicted'
               \/ endedAt'[p] # Never /\ renewal'[p].dispatchedAt > endedAt'[p]
          ELSE Has(p, "delete_result")'
    BY <1>1, <1>4, <1>5, <1>7, Zenon DEF Has
  <1>9. /\ Has(p, "final_dispatched")' => Has(p, "final_authorized")'
        /\ Has(p, "final_authorized")' => Has(p, "registered")'
        /\ Has(p, "registered")' => Has(p, "register_dispatched")' /\ ~Has(p, "rejected")'
        /\ Has(p, "cancelled")' => ~Has(p, "register_dispatched")'
        /\ Has(p, "delete_result")' => Has(p, "delete_dispatched")'
        /\ Has(p, "delete_dispatched")' => Has(p, "delete_authorized")'
        /\ Has(p, "delete_authorized")' => PastGrace(p)'
    <2>1. \A x : Has(p, x)' <=> (Has(p, x) \/ x = e)
      BY <1>5, Zenon DEF Has
    <2> QED
      BY <1>0, <1>2, <1>4, <1>6, <2>1, Zenon DEF JournalOrder
  <1>10. renewal'[p].dispatchedAt <= now'
    BY <1>0, <1>1, Zenon DEF JournalOrder
  <1> QED
    BY <1>1, <1>8, <1>9, <1>10, Zenon DEF JournalOrder

(* Every step of the specification keeps the order of every journal.       *)
LEMMA JournalStep ==
    ASSUME PaymentInv, [PaymentNext]_paymentVars
    PROVE  \A q \in Renewals : JournalOrder(q)'
  <1> SUFFICES ASSUME NEW q \in Renewals PROVE JournalOrder(q)'
    BY Zenon
  <1>0. TypeOK
    BY Zenon DEF PaymentInv, PaymentTypes
  <1>1. ASSUME renewal'[q] = renewal[q] PROVE JournalOrder(q)'
    BY <1>1, JournalKept, Zenon
  <1>2. ASSUME NEW p \in Renewals, ReserveSpendingRenewal(p) PROVE JournalOrder(q)'
    BY <1>0, <1>1, <1>2, ReserveEffect, JournalKept, Zenon
  <1>3. ASSUME NEW p \in Renewals, NEW e \in RenewalPhases, AppendSpendingRenewalEvent(p, e)
        PROVE  JournalOrder(q)'
    BY <1>0, <1>1, <1>3, AppendEffect, JournalGrows, Zenon
  <1>4. ASSUME NEW p \in Renewals,
               (\E e \in RenewalPhases : Appends(p, e))
               \/ SendsIntent(p) \/ SendsForfeit(p) \/ SendsDeletion(p)
        PROVE  JournalOrder(q)'
    BY <1>1, <1>3, <1>4, Zenon DEF Appends, SendsIntent, SendsForfeit, SendsDeletion,
       AppendOrReplay, RenewalPhases, vars
  <1>5. ASSUME NEW p \in Renewals,
               \/ OperatorRegister(p) \/ OperatorBatch(p) \/ OperatorDelete(p)
               \/ OperatorForfeit(p) \/ OperatorEnd(p)
               \/ CommitmentConfirms(p) \/ ConflictConfirms(p)
        PROVE  JournalOrder(q)'
    BY <1>1, <1>5, Zenon DEF OperatorRegister, OperatorBatch, OperatorDelete, OperatorForfeit,
       OperatorEnd, CommitmentConfirms, ConflictConfirms, vars, ledgerVars
  <1>6. CASE Tick \/ UNCHANGED <<vars, operatorVars>>
    BY <1>1, <1>6, Zenon DEF Tick, vars, ledgerVars
  <1> QED
    BY <1>2, <1>4, <1>5, <1>6, NextActions, Zenon
-----------------------------------------------------------------------------
(* The Operator and the chain, against the journal.                        *)

(* Nothing about the payment moved, save perhaps the end of its batch.     *)
LEMMA OperatorKept ==
    ASSUME PaymentInv, [PaymentNext]_paymentVars, NEW q \in Renewals,
           renewal'[q].events = renewal[q].events,
           renewal'[q].dispatchedAt = renewal[q].dispatchedAt,
           intent'[q] = intent[q], deletion'[q] = deletion[q], forfeit'[q] = forfeit[q],
           settled'[q] # Never => settled[q] # Never /\ q \notin conflicted'
    PROVE  OperatorOrder(q)'
  <1>1. /\ OperatorOrder(q) /\ JournalOrder(q)
        /\ endedAt'[q] = endedAt[q] \/ (endedAt'[q] \in Nat /\ now <= endedAt'[q])
    BY WorldMoves, Zenon DEF PaymentInv
  <1>2. now \in Nat /\ renewal[q].dispatchedAt \in Nat /\ renewal[q].dispatchedAt <= now
    BY <1>1, WorldMoves, Zenon DEF PaymentInv, PaymentTypes, TypeOK, RenewalRow, Time, JournalOrder
  <1>3. \A t \in Nat : now <= t => renewal[q].dispatchedAt <= t
    BY <1>2
  <1> QED
    BY <1>1, <1>3, Zenon DEF OperatorOrder, Has

(* Appending a phase to a payment.                                         *)
LEMMA OperatorAppends ==
    ASSUME PaymentInv, NEW p \in Renewals, NEW e \in RenewalPhases, Appends(p, e)
    PROVE  OperatorOrder(p)'
  <1>1. TypeOK /\ OperatorOrder(p) /\ JournalOrder(p)
    BY Zenon DEF PaymentInv, PaymentTypes
  <1>2. /\ renewal'[p].events = renewal[p].events \cup {e} /\ e \notin renewal[p].events
        /\ e # "final_dispatched" => renewal'[p].dispatchedAt = renewal[p].dispatchedAt
        /\ UNCHANGED <<now, worldVars>>
    BY <1>1, AppendEffect, Zenon DEF Appends
  <1>3. \A x : Has(p, x)' <=> (Has(p, x) \/ x = e)
    BY <1>2, Zenon DEF Has
  <1>4. forfeit[p] = "held" => e # "final_dispatched"
    BY <1>1, <1>2, Zenon DEF OperatorOrder, Has, None
  <1>5. /\ UNCHANGED <<intent, deletion, forfeit, endedAt, settled, conflicted>>
        /\ e = "rejected" => intent[p] = "rejected"
        /\ e = "delete_result" => deletion[p] = "done"
    BY <1>2, Zenon DEF Appends, operatorVars, worldVars
  <1> QED
    BY <1>1, <1>2, <1>3, <1>4, <1>5, Zenon DEF OperatorOrder, None

(* What is sent is sent when its row is created, or again only a deletion. *)
LEMMA OperatorSent ==
    ASSUME PaymentInv, NEW p \in Renewals,
           SendsIntent(p) \/ SendsForfeit(p) \/ SendsDeletion(p)
    PROVE  /\ OperatorOrder(p)'
           /\ SendsIntent(p) => intent[p] = None
           /\ SendsForfeit(p) => forfeit[p] = None
  <1>0. /\ TypeOK /\ OperatorOrder(p) /\ JournalOrder(p)
        /\ intent \in [Renewals -> {None, "sent", "queued", "batched", "rejected", "deleted"}]
        /\ deletion \in [Renewals -> {None, "sent", "done"}]
        /\ forfeit \in [Renewals -> {None, "sent", "held"}]
    BY Zenon DEF PaymentInv, PaymentTypes
  <1>1. ASSUME NEW e \in RenewalPhases, AppendSpendingRenewalEvent(p, e)
        PROVE  /\ \A x : Has(p, x)' <=> (Has(p, x) \/ x = e)
               /\ ~Has(p, e)
               /\ e # "final_dispatched" => renewal'[p].dispatchedAt = renewal[p].dispatchedAt
               /\ UNCHANGED <<endedAt, settled, conflicted>>
    BY <1>0, <1>1, AppendEffect, SMTT(30) DEF Has, worldVars
  <1>2. CASE SendsIntent(p)
    <2>1. intent[p] = None /\ intent'[p] = "sent" /\ UNCHANGED <<deletion, forfeit>>
      BY <1>0, <1>1, <1>2, Zenon DEF SendsIntent, OperatorOrder, RenewalPhases
    <2>2. /\ \A x : Has(p, x)' <=> (Has(p, x) \/ x = "register_dispatched")
          /\ renewal'[p].dispatchedAt = renewal[p].dispatchedAt
          /\ UNCHANGED <<endedAt, settled, conflicted>>
      BY <1>1, <1>2, Zenon DEF SendsIntent, RenewalPhases
    <2>3. OperatorOrder(p)'
      BY <1>0, <2>1, <2>2 DEF OperatorOrder, None
    <2>4. ~SendsForfeit(p)
      BY <1>0, <2>1, <2>2, <1>1, Zenon DEF SendsForfeit, RenewalPhases
    <2> QED
      BY <2>1, <2>3, <2>4, Zenon
  <1>3. CASE SendsForfeit(p)
    <2>1. forfeit[p] = None /\ forfeit'[p] = "sent" /\ UNCHANGED <<intent, deletion>>
      BY <1>0, <1>1, <1>3, Zenon DEF SendsForfeit, OperatorOrder, RenewalPhases
    <2>2. /\ \A x : Has(p, x)' <=> (Has(p, x) \/ x = "final_dispatched")
          /\ UNCHANGED <<endedAt, settled, conflicted>>
      BY <1>1, <1>3, Zenon DEF SendsForfeit, RenewalPhases
    <2>3. OperatorOrder(p)'
      BY <1>0, <2>1, <2>2, Zenon DEF OperatorOrder, None
    <2>4. ~SendsIntent(p)
      BY <1>0, <2>1, <2>2, <1>1, Zenon DEF SendsIntent, RenewalPhases
    <2> QED
      BY <2>1, <2>3, <2>4, Zenon
  <1>4. CASE SendsDeletion(p)
    <2>1. deletion'[p] = "sent" /\ UNCHANGED <<intent, forfeit>>
      BY <1>0, <1>4, Zenon DEF SendsDeletion
    <2>2. /\ \A x : Has(p, x)' <=> (Has(p, x) \/ x = "delete_dispatched")
          /\ renewal'[p].dispatchedAt = renewal[p].dispatchedAt
          /\ UNCHANGED <<endedAt, settled, conflicted>>
      BY <1>1, <1>4, Zenon DEF SendsDeletion, AppendOrReplay, RenewalPhases, Has, vars
    <2>3. OperatorOrder(p)'
      BY <1>0, <2>1, <2>2 DEF OperatorOrder, None
    <2>4. SendsIntent(p) => intent[p] = None
      BY <1>2, Zenon
    <2>5. SendsForfeit(p) => forfeit[p] = None
      BY <1>3
    <2> QED
      BY <2>3, <2>4, <2>5, Zenon
  <1> QED
    BY <1>2, <1>3, <1>4, Zenon

(* Every step keeps the Operator and the chain in order.  A registration   *)
(* that arrives late finds its expiry past as soon as a deletion was sent, *)
(* because the deletion had to wait out the grace.                         *)
LEMMA OperatorStep ==
    ASSUME PaymentInv, [PaymentNext]_paymentVars
    PROVE  \A q \in Renewals : OperatorOrder(q)'
  <1> SUFFICES ASSUME NEW q \in Renewals PROVE OperatorOrder(q)'
    OBVIOUS
  <1>0. /\ TypeOK /\ OperatorOrder(q) /\ JournalOrder(q)
        /\ intent \in [Renewals -> {None, "sent", "queued", "batched", "rejected", "deleted"}]
        /\ deletion \in [Renewals -> {None, "sent", "done"}]
        /\ forfeit \in [Renewals -> {None, "sent", "held"}]
        /\ settled \in [Lifecycles -> Nat \cup {Never}]
        /\ endedAt \in [Renewals -> Nat \cup {Never}]
        /\ now \in Nat
    BY Zenon DEF PaymentInv, PaymentTypes, TypeOK, Time
  <1>1. ASSUME NEW p \in Renewals, ReserveSpendingRenewal(p), UNCHANGED operatorVars
        PROVE  OperatorOrder(q)'
    <2>1. renewal'[q].events = renewal[q].events /\ renewal'[q].dispatchedAt = renewal[q].dispatchedAt
      BY <1>0, <1>1, ReserveEffect, Zenon
    <2>2. UNCHANGED <<settled, conflicted>>
      BY <1>0, <1>1, ReserveEffect, Zenon DEF worldVars
    <2> QED
      BY <1>0, <1>1, <2>1, <2>2, OperatorKept, Zenon DEF operatorVars, OperatorOrder
  <1>2. ASSUME NEW p \in Renewals, NEW e \in RenewalPhases, AppendSpendingRenewalEvent(p, e), p # q
        PROVE  renewal'[q] = renewal[q] /\ UNCHANGED <<settled, conflicted>>
    BY <1>0, <1>2, AppendEffect DEF worldVars
  <1>3. ASSUME NEW p \in Renewals, NEW e \in RenewalPhases, Appends(p, e)
        PROVE  OperatorOrder(q)'
    <2>1. CASE p # q
      BY <1>0, <1>2, <1>3, <2>1, OperatorKept, Zenon DEF Appends, operatorVars, OperatorOrder
    <2> QED
      BY <1>3, <2>1, OperatorAppends, Zenon
  <1>4. ASSUME NEW p \in Renewals, SendsIntent(p) \/ SendsForfeit(p) \/ SendsDeletion(p)
        PROVE  OperatorOrder(q)'
    <2>1. CASE p # q
      <3>1. renewal'[q] = renewal[q] /\ UNCHANGED <<settled, conflicted>>
        BY <1>2, <1>4, <2>1, Zenon DEF SendsIntent, SendsForfeit, SendsDeletion, AppendOrReplay,
           RenewalPhases, vars
      <3>2. intent'[q] = intent[q] /\ deletion'[q] = deletion[q] /\ forfeit'[q] = forfeit[q]
        BY <1>0, <1>4, <2>1, Zenon DEF SendsIntent, SendsForfeit, SendsDeletion
      <3> QED
        BY <1>0, <3>1, <3>2, OperatorKept, Zenon DEF OperatorOrder
    <2> QED
      BY <1>4, <2>1, OperatorSent, Zenon
  <1>5. ASSUME NEW p \in Renewals, OperatorRegister(p) PROVE OperatorOrder(q)'
    <2>1. UNCHANGED <<renewal, settled, conflicted, endedAt, deletion, forfeit>>
      BY <1>5, Zenon DEF OperatorRegister, vars
    <2>2. CASE p # q
      BY <1>0, <1>5, <2>1, <2>2 DEF OperatorRegister, OperatorOrder, Has
    <2>3. CASE p = q
      <3>1. intent[q] = "sent" /\ intent'[q] \in {"queued", "rejected"}
            /\ (intent'[q] = "queued" => AcceptsIntent(q))
        BY <1>0, <1>5, <2>3 DEF OperatorRegister
      <3>2. Has(q, "delete_authorized") => ~AcceptsIntent(q)
        BY <1>0, PaymentAssumption, LifecycleAssumption, TimeAssumption, SMTT(30)
           DEF JournalOrder, PastGrace, AcceptsIntent
      <3>3. deletion[q] = "done" \/ Has(q, "delete_result") => Has(q, "delete_authorized")
        BY <1>0, Zenon DEF JournalOrder, OperatorOrder, None
      <3> QED
        BY <1>0, <2>1, <3>1, <3>2, <3>3, Zenon DEF OperatorOrder, Has, None
    <2> QED
      BY <2>2, <2>3, Zenon
  <1>6. ASSUME NEW p \in Renewals, OperatorBatch(p) PROVE OperatorOrder(q)'
    BY <1>0, <1>6, Zenon DEF OperatorBatch, OperatorOrder, Has, vars, None
  <1>7. ASSUME NEW p \in Renewals, OperatorDelete(p) PROVE OperatorOrder(q)'
    BY <1>0, <1>7, Zenon DEF OperatorDelete, OperatorOrder, Has, vars, None
  <1>8. ASSUME NEW p \in Renewals, OperatorForfeit(p) PROVE OperatorOrder(q)'
    BY <1>0, <1>8, Zenon DEF OperatorForfeit, OperatorOrder, Has, vars, None
  <1>9. ASSUME NEW p \in Renewals, OperatorEnd(p) PROVE OperatorOrder(q)'
    BY <1>0, <1>9, OperatorKept, Zenon DEF OperatorEnd, OperatorOrder, ledgerVars, operatorVars
  <1>10. ASSUME NEW p \in Renewals, CommitmentConfirms(p) PROVE OperatorOrder(q)'
    <2>1. settled'[q] = IF q = p THEN now ELSE settled[q]
      BY <1>0, <1>10, Zenon DEF CommitmentConfirms, Lifecycles
    <2> QED
      BY <1>0, <1>10, <2>1, Zenon DEF CommitmentConfirms, CanSettle, OperatorOrder, Has,
         ledgerVars, operatorVars
  <1>11. ASSUME NEW p \in Renewals, ConflictConfirms(p) PROVE OperatorOrder(q)'
    BY <1>0, <1>11, OperatorKept, Zenon
       DEF ConflictConfirms, OperatorOrder, ledgerVars, operatorVars
  <1>12. CASE Tick \/ UNCHANGED <<vars, operatorVars>>
    BY <1>0, <1>12, OperatorKept, Zenon
       DEF Tick, OperatorOrder, vars, ledgerVars, worldVars, operatorVars
  <1> QED
    BY <1>1, <1>3, <1>4, <1>5, <1>6, <1>7, <1>8, <1>9, <1>10, <1>11, <1>12, NextActions
-----------------------------------------------------------------------------
(* The inductive invariant.                                                *)

(* Nothing is stored, sent or settled at the start.                        *)
LEMMA PaymentInitial == PaymentInit => PaymentInv
  <1> SUFFICES ASSUME PaymentInit PROVE PaymentInv
    BY Zenon
  <1>1. TypeOK
    BY Zenon DEF PaymentInit, Init, TypeOK, Time, VtxoRow, VtxoStates, RenewalRow, DelegationRow
  <1>2. PaymentTypes
    BY <1>1, Zenon DEF PaymentInit, PaymentTypes
  <1>3. ASSUME NEW p \in Renewals PROVE JournalOrder(p) /\ OperatorOrder(p)
    BY <1>1, SMTT(30)
       DEF PaymentInit, Init, JournalOrder, OperatorOrder, Has, Lifecycles, TypeOK, Time
  <1> QED
    BY <1>2, <1>3, Zenon DEF PaymentInv

(* At every moment the journal of a payment names its phases in their      *)
(* order, and the Operator and the chain hold only what the journal names. *)
THEOREM PaymentInvariant == PaymentSpec => []PaymentInv
  <1>1. PaymentInv /\ [PaymentNext]_paymentVars => PaymentInv'
    BY TypesStep, JournalStep, OperatorStep, Zenon DEF PaymentInv
  <1> QED
    BY <1>1, PaymentInitial, PTL DEF PaymentSpec

(* A payment that was released, cancelled or rejected (releaseBitcoinPay-  *)
(* ment, reconcileBitcoinPayment, registerBitcoinPayment) has not taken its *)
(* coin and no forfeit that could take it is out.                          *)
THEOREM GivenUpCannotSettle == PaymentSpec => []GivenUpExcluded
  <1>1. PaymentInv => GivenUpExcluded
    <2> SUFFICES ASSUME PaymentInv, NEW p \in Renewals, GivenUp(p)
                 PROVE  settled[p] = Never /\ ~AtLarge(p)
      BY Zenon DEF GivenUpExcluded
    <2>1. JournalOrder(p) /\ OperatorOrder(p)
      BY Zenon DEF PaymentInv
    <2>2. /\ renewal[p].dispatchedAt \in Nat
          /\ endedAt[p] # Never => endedAt[p] \in Nat
      BY Zenon DEF PaymentInv, PaymentTypes, TypeOK, RenewalRow, Time
    <2>3. Has(p, "final_dispatched") => Has(p, "released")
      BY <2>1, Zenon DEF GivenUp, JournalOrder, Has
    <2>4. Has(p, "final_dispatched") => ~(forfeit[p] = "held") \/ p \in conflicted
      BY <2>1, <2>2, <2>3, SMTT(30) DEF JournalOrder, OperatorOrder
    <2>5. ~Has(p, "final_dispatched") => forfeit[p] = None
      BY <2>1, Zenon DEF OperatorOrder
    <2> QED
      BY <2>1, <2>2, <2>3, <2>4, <2>5, Zenon DEF JournalOrder, OperatorOrder, AtLarge, None
  <1> QED
    BY <1>1, PaymentInvariant, PTL

(* A payment given up before its forfeit left has no intent in the         *)
(* Operator's queue and none on its way there that would still be accepted *)
(* (deleteBitcoinPaymentIntent waits out the expiry and its grace).        *)
THEOREM GivenUpLeavesNoIntent == PaymentSpec => []GivenUpUnqueued
  <1>1. PaymentInv => GivenUpUnqueued
    <2> SUFFICES ASSUME PaymentInv, NEW p \in Renewals, GivenUp(p), ~Has(p, "final_dispatched")
                 PROVE  ~(intent[p] = "queued" \/ (intent[p] = "sent" /\ AcceptsIntent(p)))
      BY Zenon DEF GivenUpUnqueued
    <2>1. JournalOrder(p) /\ OperatorOrder(p) /\ now \in Nat
      BY Zenon DEF PaymentInv, PaymentTypes, TypeOK, Time
    <2>2. CASE Has(p, "released")
      <3>1. Has(p, "delete_result") /\ PastGrace(p)
        BY <2>1, <2>2, Zenon DEF JournalOrder
      <3>2. ~AcceptsIntent(p)
        BY <2>1, <3>1, PaymentAssumption, LifecycleAssumption, TimeAssumption, SMTT(30)
           DEF PastGrace, AcceptsIntent
      <3> QED
        BY <2>1, <3>1, <3>2, Zenon DEF OperatorOrder
    <2>3. CASE Has(p, "cancelled")
      BY <2>1, <2>3, Zenon DEF JournalOrder, OperatorOrder, None
    <2>4. CASE Has(p, "rejected")
      BY <2>1, <2>4, Zenon DEF OperatorOrder
    <2> QED
      BY <2>2, <2>3, <2>4, Zenon DEF GivenUp, Has
  <1> QED
    BY <1>1, PaymentInvariant, PTL

(* The registration and the forfeit of a payment leave the process only in *)
(* the call that creates their dispatch row, hence once each.              *)
THEOREM PaymentLeavesOnce == PaymentSpec => PaymentSentOnce
  <1> DEFINE Once == \A p \in Renewals :
                        /\ intent'[p] = "sent" => intent[p] \in {None, "sent"}
                        /\ forfeit'[p] = "sent" => forfeit[p] \in {None, "sent"}
  <1>1. ASSUME PaymentInv, [PaymentNext]_paymentVars PROVE [Once]_paymentVars
    <2> SUFFICES Once
      BY Zenon
    <2>0. /\ intent \in [Renewals -> {None, "sent", "queued", "batched", "rejected", "deleted"}]
          /\ deletion \in [Renewals -> {None, "sent", "done"}]
          /\ forfeit \in [Renewals -> {None, "sent", "held"}]
      BY <1>1, Zenon DEF PaymentInv, PaymentTypes
    <2>1. ASSUME UNCHANGED <<intent, forfeit>> PROVE Once
      BY <2>1
    <2>2. ASSUME NEW p \in Renewals, SendsIntent(p) \/ SendsForfeit(p) PROVE Once
      BY <1>1, <2>0, <2>2, OperatorSent, Zenon DEF SendsIntent, SendsForfeit
    <2>3. ASSUME NEW p \in Renewals,
                 \/ OperatorRegister(p) \/ OperatorBatch(p) \/ OperatorDelete(p)
                 \/ OperatorForfeit(p)
          PROVE  Once
      BY <2>0, <2>3 DEF OperatorRegister, OperatorBatch, OperatorDelete, OperatorForfeit
    <2>4. ASSUME NEW p \in Renewals,
                 \/ ReserveSpendingRenewal(p) /\ UNCHANGED operatorVars
                 \/ \E e \in RenewalPhases : Appends(p, e)
                 \/ SendsDeletion(p)
                 \/ OperatorEnd(p) \/ CommitmentConfirms(p) \/ ConflictConfirms(p)
          PROVE  Once
      BY <2>1, <2>4, Zenon DEF Appends, SendsDeletion, OperatorEnd, CommitmentConfirms,
         ConflictConfirms, operatorVars
    <2>5. CASE Tick \/ UNCHANGED <<vars, operatorVars>>
      BY <2>1, <2>5 DEF Tick, operatorVars
    <2> QED
      BY <1>1, <2>2, <2>3, <2>4, <2>5, NextActions, Zenon
  <1> QED
    BY <1>1, PaymentInvariant, PTL DEF PaymentSpec, PaymentSentOnce
-----------------------------------------------------------------------------
(* The refinement of the ledger.  BitcoinPayment and SpendingLedger build  *)
(* their calls from the same definitions; under the instance these are     *)
(* symbols of their own, so each call is first shown to be the same call.  *)

(* What the ledger counts in the window is the same sum.                   *)
LEMMA SameOutflow ==
    ASSUME NEW v
    PROVE  spentInWindow(v, vtxo) = Ledger!spentInWindow(v, vtxo)
  <1>1. ChargedLifecycles(vtxo) = Ledger!ChargedLifecycles(vtxo)
    BY Zenon DEF ChargedLifecycles, Ledger!ChargedLifecycles, VtxoCharged, Ledger!VtxoCharged,
       spendingRenewalCharged, Ledger!spendingRenewalCharged,
       delegationCharged, Ledger!delegationCharged,
       renewalTerminal, Ledger!renewalTerminal, delegationTerminal, Ledger!delegationTerminal,
       vtxoStateAwaitingSettlement, Ledger!vtxoStateAwaitingSettlement,
       vtxoStateCountsTowardAllowance, Ledger!vtxoStateCountsTowardAllowance
  <1>2. ASSUME NEW ls PROVE addOutflow(ls) = Ledger!addOutflow(ls)
    BY Zenon DEF addOutflow, Ledger!addOutflow, MapThenSumSet, Ledger!MapThenSumSet,
       MapThenFoldSet, Ledger!MapThenFoldSet
  <1> QED
    BY <1>1, <1>2, Zenon DEF spentInWindow, Ledger!spentInWindow

(* A reservation by prepareSpendingBitcoin is a reservation of the ledger. *)
LEMMA SameReserve ==
    ASSUME NEW p \in Renewals, ReserveSpendingRenewal(p)
    PROVE  Ledger!ReserveSpendingRenewal(p)
  <1>1. WithinAllowance(p, vtxo) = Ledger!WithinAllowance(p, vtxo)
    BY SameOutflow, Zenon DEF WithinAllowance, Ledger!WithinAllowance
  <1>2. /\ validateSpendingRenewalOperation(p) = Ledger!validateSpendingRenewalOperation(p)
        /\ \A v : rejectActiveSpendingRenewal(v) = Ledger!rejectActiveSpendingRenewal(v)
        /\ \A v : rejectDispatchedDelegation(v) = Ledger!rejectDispatchedDelegation(v)
        /\ \A v : rejectConcurrentVtxoOperation(v, vtxo)
                     = Ledger!rejectConcurrentVtxoOperation(v, vtxo)
    BY Zenon DEF validateSpendingRenewalOperation, Ledger!validateSpendingRenewalOperation,
       rejectActiveSpendingRenewal, Ledger!rejectActiveSpendingRenewal,
       rejectDispatchedDelegation, Ledger!rejectDispatchedDelegation,
       rejectConcurrentVtxoOperation, Ledger!rejectConcurrentVtxoOperation,
       vtxoStateBlocksNewOperation, Ledger!vtxoStateBlocksNewOperation,
       renewalTerminal, Ledger!renewalTerminal, delegationTerminal, Ledger!delegationTerminal
  <1> QED
    BY <1>1, <1>2, Zenon DEF ReserveSpendingRenewal, Ledger!ReserveSpendingRenewal,
       worldVars, Ledger!worldVars

(* An append by any of the handlers is an append of the ledger.            *)
LEMMA SameAppend ==
    ASSUME NEW p \in Renewals, NEW e \in RenewalPhases, AppendSpendingRenewalEvent(p, e)
    PROVE  Ledger!AppendSpendingRenewalEvent(p, e)
  <1>1. validateRenewalTransition(p, e) = Ledger!validateRenewalTransition(p, e)
    BY Zenon DEF validateRenewalTransition, Ledger!validateRenewalTransition,
       renewalTerminal, Ledger!renewalTerminal, Open, Ledger!Open, PastGrace, Ledger!PastGrace,
       validateBitcoinDispatchedRelease, Ledger!validateBitcoinDispatchedRelease,
       validateBitcoinConflictRelease, Ledger!validateBitcoinConflictRelease,
       validateBitcoinEndedBatchRelease, Ledger!validateBitcoinEndedBatchRelease,
       Never, Ledger!Never
  <1>2. /\ NowUTC = Ledger!NowUTC
        /\ \A t : RenewalEvidence(p, e, t) = Ledger!RenewalEvidence(p, e, t)
    BY Zenon DEF NowUTC, Ledger!NowUTC, RenewalEvidence, Ledger!RenewalEvidence, Never, Ledger!Never
  <1>3. \A v, n : advanceSignCount(v, n) = Ledger!advanceSignCount(v, n)
    BY DEF advanceSignCount, Ledger!advanceSignCount
  <1> QED
    BY <1>1, <1>2, <1>3, Zenon DEF AppendSpendingRenewalEvent, Ledger!AppendSpendingRenewalEvent,
       worldVars, Ledger!worldVars

(* A commitment that confirms settles a payment the ledger takes for       *)
(* committed and not excluded.                                             *)
LEMMA ConfirmSettles ==
    ASSUME PaymentInv, NEW p \in Renewals, CommitmentConfirms(p)
    PROVE  Ledger!Settle(p)
  <1>0. /\ JournalOrder(p) /\ OperatorOrder(p)
        /\ p \in Lifecycles /\ p \notin VtxoOps /\ p \notin Delegations
        /\ renewal[p].dispatchedAt \in Nat
        /\ endedAt[p] # Never => endedAt[p] \in Nat
    BY LifecycleAssumption, Zenon DEF PaymentInv, PaymentTypes, TypeOK, Time, RenewalRow, Lifecycles
  <1>1. forfeit[p] = "held" /\ p \notin conflicted /\ \A c \in Inputs[p] : Unspent(c)
    BY Zenon DEF CommitmentConfirms, CanSettle, liveRenewalInput
  <1>2. Ledger!Committed(p)
    BY <1>0, <1>1 DEF Ledger!Committed, OperatorOrder, Has, None
  <1>3. settled[p] = Never
    <2>1. PICK c \in Inputs[p] : Unspent(c)
      BY <1>1, PaymentAssumption, Zenon
    <2> QED
      BY <1>0, <2>1, Zenon DEF Unspent
  <1>4. \A c : Unspent(c) = Ledger!Unspent(c)
    BY Zenon DEF Unspent, Ledger!Unspent, Lifecycles, Ledger!Lifecycles, Never, Ledger!Never
  <1>5. endedAt[p] # Never => renewal[p].dispatchedAt <= endedAt[p]
    BY <1>0, <1>1 DEF OperatorOrder
  <1>6. ~Ledger!Excluded(p)
    BY <1>0, <1>1, <1>4, <1>5, SMTT(30) DEF Ledger!Excluded, Never, Ledger!Never
  <1> QED
    BY <1>2, <1>3, <1>6, Zenon DEF CommitmentConfirms, Ledger!Settle, ledgerVars, Ledger!ledgerVars,
       Never, Ledger!Never

(* The end of a batch and a buried conflict are the ledger's.              *)
LEMMA EvidenceComes ==
    ASSUME PaymentInv, NEW p \in Renewals, OperatorEnd(p) \/ ConflictConfirms(p)
    PROVE  Ledger!EndBatch(p) \/ Ledger!BuryConflict(p)
  <1>1. JournalOrder(p)
    BY Zenon DEF PaymentInv
  <1>2. renewalTerminal(p) = Ledger!renewalTerminal(p)
    BY DEF renewalTerminal, Ledger!renewalTerminal
  <1>3. OperatorTime = Ledger!OperatorTime
    BY Zenon DEF OperatorTime, Ledger!OperatorTime
  <1> QED
    BY <1>1, <1>2, <1>3, Zenon DEF JournalOrder, Has, OperatorEnd, ConflictConfirms, Ledger!EndBatch,
       Ledger!BuryConflict, ledgerVars, Ledger!ledgerVars, Never, Ledger!Never

(* Every step of the payments is a step of the ledger or changes nothing   *)
(* in it.                                                                  *)
LEMMA LedgerStep ==
    ASSUME PaymentInv, [PaymentNext]_paymentVars
    PROVE  [Ledger!Next]_(Ledger!vars)
  <1>0. RenewalPhases = Ledger!RenewalPhases /\ Renewals \subseteq Ledger!Lifecycles
    BY Zenon DEF RenewalPhases, Ledger!RenewalPhases, Ledger!Lifecycles
  <1>1. ASSUME UNCHANGED vars PROVE UNCHANGED Ledger!vars
    BY <1>1, Zenon DEF vars, Ledger!vars
  <1>2. ASSUME NEW p \in Renewals, ReserveSpendingRenewal(p) PROVE Ledger!Next
    BY <1>2, SameReserve DEF Ledger!Next, Ledger!RenewalStep
  <1>3. ASSUME NEW p \in Renewals, NEW e \in RenewalPhases, AppendSpendingRenewalEvent(p, e)
        PROVE  Ledger!Next
    BY <1>0, <1>3, SameAppend, Zenon DEF Ledger!Next, Ledger!RenewalStep
  <1>4. ASSUME NEW p \in Renewals,
               (\E e \in RenewalPhases : Appends(p, e))
               \/ SendsIntent(p) \/ SendsForfeit(p) \/ SendsDeletion(p)
        PROVE  [Ledger!Next]_(Ledger!vars)
    BY <1>1, <1>3, <1>4 DEF Appends, SendsIntent, SendsForfeit, SendsDeletion, AppendOrReplay,
       RenewalPhases
  <1>5. ASSUME NEW p \in Renewals,
               OperatorRegister(p) \/ OperatorBatch(p) \/ OperatorDelete(p) \/ OperatorForfeit(p)
        PROVE  UNCHANGED Ledger!vars
    BY <1>1, <1>5, Zenon DEF OperatorRegister, OperatorBatch, OperatorDelete, OperatorForfeit
  <1>6. ASSUME NEW p \in Renewals, CommitmentConfirms(p) PROVE Ledger!Next
    BY <1>0, <1>6, ConfirmSettles DEF Ledger!Next
  <1>7. ASSUME NEW p \in Renewals, OperatorEnd(p) \/ ConflictConfirms(p) PROVE Ledger!Next
    BY <1>7, EvidenceComes, Zenon DEF Ledger!Next
  <1>8. CASE Tick
    <2>1. Ledger!Tick
      BY <1>8, Zenon
         DEF Tick, Ledger!Tick, ledgerVars, worldVars, Ledger!ledgerVars, Ledger!worldVars
    <2> QED
      BY <2>1, Zenon DEF Ledger!Next
  <1>9. CASE UNCHANGED <<vars, operatorVars>>
    BY <1>1, <1>9
  <1> QED
    BY <1>2, <1>4, <1>5, <1>6, <1>7, <1>8, <1>9, NextActions

(* The five handlers of a Bitcoin payment, the Operator and the chain      *)
(* together implement the specification of the ledger (SpendingLedger):    *)
(* the handlers append only what it accepts, and a payment settles only    *)
(* once its dispatch row is stored and nothing excludes it.                *)
THEOREM PaymentsImplementLedger == PaymentSpec => ImplementsLedger
  <1>1. PaymentInit => Ledger!Init
    BY Zenon DEF PaymentInit, Init, Ledger!Init, Never, Ledger!Never, Lifecycles, Ledger!Lifecycles
  <1>2. PaymentInv /\ [PaymentNext]_paymentVars => [Ledger!Next]_(Ledger!vars)
    BY LedgerStep, Zenon
  <1> QED
    BY <1>1, <1>2, PaymentInvariant, PTL DEF PaymentSpec, ImplementsLedger, Ledger!Spec
=============================================================================
