----------------------------- MODULE RenewalLedger -----------------------------
(***************************************************************************)
(* Bitcoin payments in the policy ledger: an append-only journal of phases *)
(* per payment.  Appending a phase that is already stored is a replay.     *)
(* Evidence that comes from the Operator or the chain is offered only when *)
(* it is true of them.                                                     *)
(***************************************************************************)
EXTENDS SpendingState

validateSpendingRenewalOperation(p) ==
    now < RenewalExpiry[p] /\ RenewalExpiry[p] <= now + RenewalLifetime

ReserveSpendingRenewal(p) ==
    LET v == VaultOf[p]
    IN  /\ ~renewal[p].stored
        /\ validateSpendingRenewalOperation(p)
        /\ rejectActiveSpendingRenewal(v)
        /\ rejectConcurrentVtxoOperation(v, vtxo)
        /\ rejectDispatchedDelegation(v)
        /\ WithinAllowance(p, vtxo)
        /\ renewal' = [renewal EXCEPT ![p].stored = TRUE]
        /\ UNCHANGED <<now, vtxo, delegation, signCount, worldVars>>
-----------------------------------------------------------------------------
Open(p) == now < RenewalExpiry[p]

(* Mutant: the grace after the expiry is dropped.                          *)
PastExpiry(p) == now >= RenewalExpiry[p]

PastGrace(p) == now >= RenewalExpiry[p] + ReleaseGrace

(* A dispatched forfeit is released only on proof that it cannot execute:  *)
(* a buried transaction conflicts with its commitment, or the Operator     *)
(* ended the batch in an earlier second than the dispatch was recorded.    *)
validateBitcoinConflictRelease(p) == p \in conflicted

(* Mutant: equal seconds are taken for an order.                           *)
validateEndedBatchSameSecond(p) ==
    /\ "final_result" \notin renewal[p].events
    /\ endedAt[p] # Never
    /\ renewal[p].dispatchedAt >= endedAt[p]

validateBitcoinEndedBatchRelease(p) ==
    /\ "final_result" \notin renewal[p].events
    /\ endedAt[p] # Never
    /\ renewal[p].dispatchedAt > endedAt[p]

(* Mutant: time alone releases a dispatched payment.                       *)
validateDispatchedReleaseByTime(p) == PastGrace(p)

validateBitcoinDispatchedRelease(p) ==
    validateBitcoinConflictRelease(p) \/ validateBitcoinEndedBatchRelease(p)

(* The phases the journal p accepts next.                                  *)
validateRenewalTransition(p, e) ==
    LET has(phase) == phase \in renewal[p].events
    IN  /\ ~renewalTerminal(p)
        /\ \/ e = "register_authorized" /\ renewal[p].events = {} /\ Open(p)
           \/ e = "register_dispatched" /\ has("register_authorized") /\ Open(p)
           \/ /\ e \in {"registered", "rejected"}
              /\ has("register_dispatched")
              /\ ~has("registered")
              /\ ~has("delete_authorized")
              /\ ~has("final_authorized")
           \/ /\ e = "final_authorized"
              /\ has("registered") /\ ~has("delete_authorized") /\ Open(p)
           \/ /\ e = "final_dispatched"
              /\ has("final_authorized") /\ ~has("delete_authorized") /\ Open(p)
           \/ e \in {"final_result", "confirmed"} /\ has("final_dispatched")
           \/ /\ e = "delete_authorized"
              /\ has("register_dispatched") /\ ~has("final_dispatched") /\ PastGrace(p)
           \/ e = "delete_dispatched" /\ has("delete_authorized")
           \/ e = "delete_result" /\ has("delete_dispatched")
           \/ /\ e = "released"
              /\ IF has("final_dispatched")
                 THEN validateBitcoinDispatchedRelease(p)
                 ELSE has("delete_result") /\ PastGrace(p)
           \/ e = "cancelled" /\ ~has("register_dispatched")

(* The caller confirms a payment once the chain shows its commitment; the  *)
(* event is stamped after that.                                            *)
RenewalEvidence(p, e, t) == e = "confirmed" => settled[p] # Never /\ settled[p] <= t

AppendSpendingRenewalEvent(p, e) ==
    /\ renewal[p].stored
    /\ e \notin renewal[p].events
    /\ validateRenewalTransition(p, e)
    /\ \E t \in NowUTC :
          /\ RenewalEvidence(p, e, t)
          /\ renewal' = [renewal EXCEPT
                ![p] = [stored |-> TRUE,
                        events |-> @.events \cup {e},
                        dispatchedAt |-> IF e = "final_dispatched" THEN t ELSE @.dispatchedAt,
                        confirmedAt |-> IF e = "confirmed" THEN t ELSE @.confirmedAt]]
    /\ IF e = "register_authorized"
       THEN \E n \in 0..MaxSignCount : advanceSignCount(VaultOf[p], n)
       ELSE UNCHANGED signCount
    /\ UNCHANGED <<now, vtxo, delegation, worldVars>>

RenewalStep(p) ==
    \/ ReserveSpendingRenewal(p)
    \/ \E e \in RenewalPhases : AppendSpendingRenewalEvent(p, e)
=============================================================================
