---------------------------- MODULE BitcoinPayment ----------------------------
(***************************************************************************)
(* Bitcoin payments as their five handlers run them over the renewal       *)
(* journal of the ledger: prepare, register, final, reconcile and release. *)
(* A handler loads the journal, decides, signs, looks at the input and the *)
(* batch again, appends the dispatch row and only then talks to the        *)
(* Operator.  What it loaded is a copy: it survives here as the step the   *)
(* request has reached.  A request may end at any step (a refusal, a lost  *)
(* client, a failed dial, a restart, which ends them all).                 *)
(***************************************************************************)
EXTENDS RenewalLedger

CONSTANTS
    Requests,       \* requests that may be in flight together
    FreshMargin,    \* time to the expiry that a dispatch must leave
    OperatorSkew    \* how far the Operator's clock may lag on an expiry

ASSUME PaymentAssumption ==
    /\ FreshMargin \in Nat /\ OperatorSkew \in 0..ReleaseGrace
    /\ \A p \in Renewals : Inputs[p] # {}

VARIABLES
    req,        \* the requests in flight
    intent,     \* each payment's intent at the Operator
    deletion,   \* each payment's delete request at the Operator
    forfeit     \* each payment's signed forfeit on its way to the Operator

operatorVars == <<intent, deletion, forfeit>>
chainVars == <<settled, conflicted>>
paymentVars == <<vars, req, operatorVars>>

None == "none"
Idle == [step |-> None]

PaymentInit ==
    /\ Init
    /\ req = [r \in Requests |-> Idle]
    /\ intent = [p \in Renewals |-> None]
    /\ deletion = [p \in Renewals |-> None]
    /\ forfeit = [p \in Renewals |-> None]
-----------------------------------------------------------------------------
(* Requests.                                                               *)

Has(p, phase) == phase \in renewal[p].events
At(r, step) == req[r].step = step
Pay(r) == req[r].pay
GoTo(r, step) == req' = [req EXCEPT ![r].step = step]
Done(r) == req' = [req EXCEPT ![r] = Idle]
Start(r, p, step) ==
    /\ req[r] = Idle
    /\ req' = [req EXCEPT ![r] = [step |-> step, pay |-> p]]
    /\ UNCHANGED <<vars, operatorVars>>
Advance(r, step) == GoTo(r, step) /\ UNCHANGED <<vars, operatorVars>>

(* The request ends: refused, answered from what is stored, or cut off.    *)
Fail(r) ==
    /\ req[r] # Idle
    /\ Done(r)
    /\ UNCHANGED <<vars, operatorVars>>

(* A row is appended, or is found as it would have been.                   *)
AppendOrReplay(p, e) ==
    \/ AppendSpendingRenewalEvent(p, e)
    \/ Has(p, e) /\ UNCHANGED vars

(* liveRenewalInput: the Operator still reports the payment's coin unspent. *)
liveRenewalInput(p) == \A c \in Inputs[p] : Unspent(c)

(* A changed fee refuses as well.                                          *)
requireFreshBitcoinPayment(p) ==
    RenewalExpiry[p] - now >= FreshMargin /\ liveRenewalInput(p)

(* requireUnendedCommitment: the Operator has not closed the batch.        *)
requireUnendedCommitment(p) == endedAt[p] = Never
-----------------------------------------------------------------------------
(* prepareSpendingBitcoin *)

(* The plan's fee and change settle each other before it is reserved; one  *)
(* that does not converge within the policy is refused.                    *)
Prepare(r, p) ==
    /\ ~renewal[p].stored
    /\ now < RenewalExpiry[p] /\ RenewalExpiry[p] <= now + RenewalLifetime
    /\ liveRenewalInput(p)
    /\ Start(r, p, "reserve")

reserveBitcoinPlan(r) ==
    /\ At(r, "reserve")
    /\ ReserveSpendingRenewal(Pay(r))
    /\ Done(r)
    /\ UNCHANGED operatorVars
-----------------------------------------------------------------------------
(* registerBitcoinPayment *)

(* Only a payment that was not dispatched goes on; any other answers the   *)
(* stored outcome, uncertain until one is stored.                          *)
Register(r, p) ==
    /\ renewal[p].stored
    /\ renewal[p].events \subseteq {"register_authorized"}
    /\ requireFreshBitcoinPayment(p)
    /\ Start(r, p, "register")

AuthorizeRegister(r) ==
    /\ At(r, "register")
    /\ AppendOrReplay(Pay(r), "register_authorized")
    /\ GoTo(r, "sign_register")
    /\ UNCHANGED operatorVars

RecheckRegister(r) ==
    /\ At(r, "sign_register")
    /\ requireFreshBitcoinPayment(Pay(r))
    /\ Advance(r, "dispatch_register")

(* Mutant: the dispatch row found is taken for the one written.            *)
DispatchRegisterAgain(r) ==
    /\ At(r, "dispatch_register")
    /\ AppendOrReplay(Pay(r), "register_dispatched")
    /\ intent' = [intent EXCEPT ![Pay(r)] = "sent"]
    /\ GoTo(r, "await_register")
    /\ UNCHANGED <<deletion, forfeit>>

(* The intent leaves only if this call created the row.                    *)
DispatchRegister(r) ==
    /\ At(r, "dispatch_register")
    /\ AppendSpendingRenewalEvent(Pay(r), "register_dispatched")
    /\ intent' = [intent EXCEPT ![Pay(r)] = "sent"]
    /\ GoTo(r, "await_register")
    /\ UNCHANGED <<deletion, forfeit>>

(* An acceptance or a definite rejection is recorded; any other error ends *)
(* the request without a record.                                           *)
RecordRegister(r) ==
    LET p == Pay(r) IN
    /\ At(r, "await_register")
    /\ intent[p] # "sent"
    /\ AppendSpendingRenewalEvent(p, IF intent[p] = "rejected" THEN "rejected" ELSE "registered")
    /\ Done(r)
    /\ UNCHANGED operatorVars
-----------------------------------------------------------------------------
(* finalizeBitcoinPayment *)

(* verifyBitcoinPaymentFinal: the evidence is a batch of the Operator      *)
(* around the registered intent.                                           *)
verifyBitcoinPaymentFinal(p) == intent[p] = "batched"

Final(r, p) ==
    /\ Has(p, "register_authorized")
    /\ verifyBitcoinPaymentFinal(p)
    /\ renewal[p].events \cap {"released", "confirmed", "final_result", "final_dispatched"} = {}
    /\ requireFreshBitcoinPayment(p) /\ requireUnendedCommitment(p)
    /\ Start(r, p, "final")

AuthorizeFinal(r) ==
    /\ At(r, "final")
    /\ AppendOrReplay(Pay(r), "final_authorized")
    /\ GoTo(r, "sign_final")
    /\ UNCHANGED operatorVars

RecheckFinal(r) ==
    /\ At(r, "sign_final")
    /\ requireFreshBitcoinPayment(Pay(r)) /\ requireUnendedCommitment(Pay(r))
    /\ Advance(r, "dispatch_final")

(* Mutant: the forfeit leaves before its row is written.                   *)
SubmitThenDispatch(r) ==
    /\ At(r, "dispatch_final")
    /\ forfeit' = [forfeit EXCEPT ![Pay(r)] = "sent"]
    /\ GoTo(r, "await_final")
    /\ UNCHANGED <<vars, intent, deletion>>

(* The forfeit leaves only if this call created the row.                   *)
DispatchFinal(r) ==
    /\ At(r, "dispatch_final")
    /\ AppendSpendingRenewalEvent(Pay(r), "final_dispatched")
    /\ forfeit' = [forfeit EXCEPT ![Pay(r)] = "sent"]
    /\ GoTo(r, "await_final")
    /\ UNCHANGED <<intent, deletion>>

RecordFinal(r) ==
    /\ At(r, "await_final")
    /\ forfeit[Pay(r)] = "held"
    /\ AppendSpendingRenewalEvent(Pay(r), "final_result")
    /\ Done(r)
    /\ UNCHANGED operatorVars
-----------------------------------------------------------------------------
(* The Operator's index shows the coin settled by the payment's commitment *)
(* and the change in its place.                                            *)
spendingRenewalSettled(p) == settled[p] # Never

(* reconcileBitcoinPayment, for a dispatched payment.  For one that is not, *)
(* it continues a recorded deletion (Release) or answers the stored state. *)
Reconcile(r, p) ==
    /\ Has(p, "final_dispatched")
    /\ renewal[p].events \cap {"released", "confirmed"} = {}
    /\ Start(r, p, IF spendingRenewalSettled(p) THEN "confirm"
                   ELSE IF Has(p, "final_result") THEN "conflict"
                   ELSE "ended")

(* The exact commitment output is confirmed on the chain.                  *)
Confirm(r) ==
    /\ At(r, "confirm")
    /\ AppendSpendingRenewalEvent(Pay(r), "confirmed")
    /\ Done(r)
    /\ UNCHANGED operatorVars

(* releaseEndedBitcoinPayment: the Operator ended the batch in an earlier  *)
(* second than the dispatch; no final result was stored at the load.       *)
releaseEndedBitcoinPayment(r) ==
    LET p == Pay(r)
        late == endedAt[p] # Never /\ renewal[p].dispatchedAt > endedAt[p]
    IN /\ At(r, "ended")
       /\ Advance(r, IF late /\ liveRenewalInput(p) THEN "release" ELSE "conflict")

(* releaseConflictedBitcoinPayment *)
releaseConflictedBitcoinPayment(r) ==
    LET p == Pay(r) IN
    /\ At(r, "conflict")
    /\ p \in conflicted /\ liveRenewalInput(p)
    /\ Advance(r, "release")

(* The release is appended with the evidence it was decided on.            *)
AppendReleased(r) ==
    /\ At(r, "release")
    /\ AppendSpendingRenewalEvent(Pay(r), "released")
    /\ Done(r)
    /\ UNCHANGED operatorVars
-----------------------------------------------------------------------------
(* releaseBitcoinPayment *)

(* A payment whose registration was never dispatched is cancelled at once; *)
(* another waits out its expiry and has its intent deleted, with the       *)
(* owner's deletion that is supplied or was stored.                        *)
Release(r, p) ==
    /\ renewal[p].stored
    /\ renewal[p].events \cap {"released", "cancelled", "final_dispatched"} = {}
    /\ \/ ~Has(p, "register_dispatched") /\ Start(r, p, "cancel")
       \/ /\ Has(p, "register_dispatched") /\ PastGrace(p)
          /\ Start(r, p, IF Has(p, "delete_result") THEN "live" ELSE "delete")

Cancel(r) ==
    /\ At(r, "cancel")
    /\ AppendSpendingRenewalEvent(Pay(r), "cancelled")
    /\ Done(r)
    /\ UNCHANGED operatorVars

(* deleteBitcoinPaymentIntent: a deletion may be sent again.               *)
AuthorizeDelete(r) ==
    /\ At(r, "delete")
    /\ AppendOrReplay(Pay(r), "delete_authorized")
    /\ GoTo(r, "sign_delete")
    /\ UNCHANGED operatorVars

DispatchDelete(r) ==
    /\ At(r, "sign_delete")
    /\ AppendOrReplay(Pay(r), "delete_dispatched")
    /\ deletion' = [deletion EXCEPT ![Pay(r)] = "sent"]
    /\ GoTo(r, "await_delete")
    /\ UNCHANGED <<intent, forfeit>>

(* The intent was deleted, or is absent in exactly the Operator's words.   *)
RecordDelete(r) ==
    /\ At(r, "await_delete")
    /\ deletion[Pay(r)] = "done"
    /\ AppendOrReplay(Pay(r), "delete_result")
    /\ GoTo(r, "live")
    /\ UNCHANGED operatorVars

CheckLive(r) ==
    /\ At(r, "live")
    /\ liveRenewalInput(Pay(r))
    /\ Advance(r, "release")
-----------------------------------------------------------------------------
(* The Operator: requests reach it late or not at all.  It refuses an      *)
(* intent that is past its expiry, keeps a queued one for ever, and takes  *)
(* forfeits until it ends the batch.                                       *)

AcceptsIntent(p) == now < RenewalExpiry[p] + OperatorSkew

OperatorRegister(p) ==
    /\ intent[p] = "sent"
    /\ \/ AcceptsIntent(p) /\ intent' = [intent EXCEPT ![p] = "queued"]
       \/ intent' = [intent EXCEPT ![p] = "rejected"]
    /\ UNCHANGED <<vars, req, deletion, forfeit>>

OperatorBatch(p) ==
    /\ intent[p] = "queued"
    /\ intent' = [intent EXCEPT ![p] = "batched"]
    /\ UNCHANGED <<vars, req, deletion, forfeit>>

OperatorDelete(p) ==
    /\ deletion[p] = "sent"
    /\ deletion' = [deletion EXCEPT ![p] = "done"]
    /\ intent' = [intent EXCEPT ![p] = IF @ = "queued" THEN "deleted" ELSE @]
    /\ UNCHANGED <<vars, req, forfeit>>

OperatorForfeit(p) ==
    /\ forfeit[p] = "sent" /\ endedAt[p] = Never
    /\ forfeit' = [forfeit EXCEPT ![p] = "held"]
    /\ UNCHANGED <<vars, req, intent, deletion>>

(* A batch that ends before the final plan is stored leaves a payment that *)
(* is never dispatched; once a payment is over nobody asks for its batch   *)
(* or for a conflict.                                                      *)
OperatorEnd(p) ==
    /\ Has(p, "final_authorized") /\ endedAt[p] = Never /\ ~renewalTerminal(p)
    /\ \E t \in OperatorTime : endedAt' = [endedAt EXCEPT ![p] = t]
    /\ UNCHANGED <<now, ledgerVars, settled, exited, conflicted, req, operatorVars>>
-----------------------------------------------------------------------------
(* The chain and the clock.                                                *)

CanSettle(p) ==
    forfeit[p] = "held" /\ p \notin conflicted /\ liveRenewalInput(p)

CommitmentConfirms(p) ==
    /\ CanSettle(p)
    /\ settled' = [settled EXCEPT ![p] = now]
    /\ UNCHANGED <<now, ledgerVars, exited, endedAt, conflicted, req, operatorVars>>

ConflictConfirms(p) ==
    /\ Has(p, "final_dispatched") /\ ~renewalTerminal(p)
    /\ settled[p] = Never /\ p \notin conflicted
    /\ conflicted' = conflicted \cup {p}
    /\ UNCHANGED <<now, ledgerVars, settled, exited, endedAt, req, operatorVars>>

Tick ==
    /\ now < MaxTime
    /\ now' = now + 1
    /\ UNCHANGED <<ledgerVars, worldVars, req, operatorVars>>
-----------------------------------------------------------------------------
(* The payment routes.                                                     *)
Routes(r, p) ==
    Prepare(r, p) \/ Register(r, p) \/ Final(r, p) \/ Reconcile(r, p) \/ Release(r, p)

PaymentNext ==
    \/ \E r \in Requests :
        \/ \E p \in Renewals : Routes(r, p)
        \/ reserveBitcoinPlan(r)
        \/ AuthorizeRegister(r) \/ RecheckRegister(r) \/ DispatchRegister(r) \/ RecordRegister(r)
        \/ AuthorizeFinal(r) \/ RecheckFinal(r) \/ DispatchFinal(r) \/ RecordFinal(r)
        \/ Confirm(r) \/ releaseEndedBitcoinPayment(r) \/ releaseConflictedBitcoinPayment(r)
        \/ AppendReleased(r)
        \/ Cancel(r) \/ AuthorizeDelete(r) \/ DispatchDelete(r) \/ RecordDelete(r) \/ CheckLive(r)
        \/ Fail(r)
    \/ \E p \in Renewals :
        \/ OperatorRegister(p) \/ OperatorBatch(p) \/ OperatorDelete(p)
        \/ OperatorForfeit(p) \/ OperatorEnd(p)
        \/ CommitmentConfirms(p) \/ ConflictConfirms(p)
    \/ Tick

PaymentSpec == PaymentInit /\ [][PaymentNext]_paymentVars
-----------------------------------------------------------------------------
GivenUp(p) == renewal[p].events \cap {"released", "cancelled", "rejected"} # {}

(* The forfeit is out and can still, now or later, take the coin.          *)
AtLarge(p) ==
    /\ p \notin conflicted
    /\ forfeit[p] = "held" \/ (forfeit[p] = "sent" /\ endedAt[p] = Never)

(* A payment that gave its coin and its allowance back can never take the  *)
(* coin: whatever races release, reconcile and final run, its forfeit is   *)
(* not out, or a buried conflict or the batch's earlier end excludes it.   *)
GivenUpExcluded == \A p \in Renewals : GivenUp(p) => settled[p] = Never /\ ~AtLarge(p)

(* A payment that was given up before any forfeit left has no intent that  *)
(* the Operator holds or may still accept: no late registration enters the *)
(* queue after the deletion was answered.                                  *)
GivenUpUnqueued ==
    \A p \in Renewals : GivenUp(p) /\ ~Has(p, "final_dispatched") =>
        ~(intent[p] = "queued" \/ (intent[p] = "sent" /\ AcceptsIntent(p)))

(* What the handlers, the Operator and the chain do together is what the   *)
(* ledger's specification allows: above all, a payment is executed only    *)
(* after its dispatch row is stored, and never when a conflict or an       *)
(* earlier end of the batch excludes it.                                   *)
Ledger == INSTANCE SpendingLedger
ImplementsLedger == Ledger!Spec

(* Whatever retries and restarts do, the registration and the forfeit of a *)
(* payment leave the process once each.                                    *)
PaymentSentOnce ==
    [][\A p \in Renewals :
          /\ intent'[p] = "sent" => intent[p] \in {None, "sent"}
          /\ forfeit'[p] = "sent" => forfeit[p] \in {None, "sent"}]_paymentVars
-----------------------------------------------------------------------------
(* Why they hold: the inductive invariant.                                 *)

RequestSteps ==
    {"reserve", "register", "sign_register", "dispatch_register", "await_register",
     "final", "sign_final", "dispatch_final", "await_final",
     "confirm", "conflict", "ended", "release", "cancel",
     "delete", "sign_delete", "await_delete", "live"}

PaymentTypes ==
    /\ TypeOK
    /\ req \in [Requests -> [step : RequestSteps, pay : Renewals] \cup {Idle}]
    /\ intent \in [Renewals -> {None, "sent", "queued", "batched", "rejected", "deleted"}]
    /\ deletion \in [Renewals -> {None, "sent", "done"}]
    /\ forfeit \in [Renewals -> {None, "sent", "held"}]

(* What the journal of a payment says of its own phases.                   *)
JournalOrder(p) ==
    /\ renewal[p].events # {} => renewal[p].stored
    /\ Has(p, "final_dispatched") => Has(p, "final_authorized")
    /\ Has(p, "final_authorized") => Has(p, "registered")
    /\ Has(p, "registered") => Has(p, "register_dispatched") /\ ~Has(p, "rejected")
    /\ Has(p, "cancelled") => ~Has(p, "register_dispatched")
    /\ Has(p, "delete_result") => Has(p, "delete_dispatched")
    /\ Has(p, "delete_dispatched") => Has(p, "delete_authorized")
    /\ Has(p, "delete_authorized") => PastGrace(p)
    /\ Has(p, "released") =>
          IF Has(p, "final_dispatched")
          THEN \/ p \in conflicted
               \/ endedAt[p] # Never /\ renewal[p].dispatchedAt > endedAt[p]
          ELSE Has(p, "delete_result")
    /\ renewal[p].dispatchedAt <= now

(* What the Operator and the chain may hold, against the journal.          *)
OperatorOrder(p) ==
    /\ intent[p] # None => Has(p, "register_dispatched")
    /\ Has(p, "rejected") => intent[p] = "rejected"
    /\ deletion[p] # None => Has(p, "delete_dispatched")
    /\ deletion[p] = "done" \/ Has(p, "delete_result") => intent[p] # "queued"
    /\ forfeit[p] # None => Has(p, "final_dispatched")
    /\ forfeit[p] = "held" /\ endedAt[p] # Never => renewal[p].dispatchedAt <= endedAt[p]
    /\ settled[p] # Never => forfeit[p] = "held" /\ p \notin conflicted

PaymentInv ==
    /\ PaymentTypes
    /\ \A p \in Renewals : JournalOrder(p) /\ OperatorOrder(p)
=============================================================================
