---------------------------- MODULE DelegationLedger ----------------------------
(***************************************************************************)
(* Delegated renewals in the policy ledger.  A scheduled renewal is armed: *)
(* it owns nothing until its claim acquires the vault-wide fence.  The     *)
(* stream transcript, which no other check reads, is left out.             *)
(***************************************************************************)
EXTENDS SpendingState

validateDelegation(d, created) ==
    /\ created <= ValidAt[d] /\ ValidAt[d] <= created + DelegationLead
    /\ ValidAt[d] < ExpiresAt[d] /\ ExpiresAt[d] <= ValidAt[d] + DelegationSpan

(* Mutant: only a payment that has not been signed is looked at.           *)
rejectReservedOverlap(d) ==
    \A o \in VtxoOps :
        VaultOf[o] = VaultOf[d] /\ vtxo[o].state = "reserved"
            => Inputs[o] \cap Inputs[d] = {}

(* No unfinished Ark payment of the vault holds d's coin.                  *)
rejectDelegationPaymentOverlap(d) ==
    \A o \in VtxoOps :
        VaultOf[o] = VaultOf[d] /\ vtxoStateBlocksNewOperation(vtxo[o].state)
            => Inputs[o] \cap Inputs[d] = {}

Unfinished(v) ==
    {d \in Delegations : VaultOf[d] = v /\ delegation[d].stored /\ ~delegationTerminal(d)}

(* One passkey ceremony arms a whole set of plans, or none of them.        *)
ScheduleVtxoDelegationSet(v, ds) ==
    /\ \A d \in ds : VaultOf[d] = v /\ ~delegation[d].stored
    /\ \E created \in NowUTC : \A d \in ds : validateDelegation(d, created)
    /\ \A d, f \in ds : d # f => Inputs[d] \cap Inputs[f] = {}
    /\ \A d \in ds, f \in Unfinished(v) : Inputs[d] \cap Inputs[f] = {}
    /\ Cardinality(Unfinished(v)) + Cardinality(ds) <= MaxDelegations
    /\ \A d \in ds : rejectDelegationPaymentOverlap(d)
    /\ rejectActiveSpendingRenewal(v)
    /\ \E n \in 0..MaxSignCount : advanceSignCount(v, n)
    /\ delegation' = [d \in Delegations |->
          IF d \in ds THEN [delegation[d] EXCEPT !.stored = TRUE] ELSE delegation[d]]
    /\ UNCHANGED <<now, vtxo, renewal, worldVars>>
-----------------------------------------------------------------------------
VaultBoardRegisterCanSupersede(d) == now >= ExpiresAt[d] + Quarantine

predecessors ==
    [register_authorized |-> "claimed",
     register_dispatched |-> "register_authorized",
     register_result |-> "register_dispatched",
     batch_started |-> "register_result",
     tree_prepared |-> "batch_started",
     nonces_committed |-> "tree_prepared",
     tree_signed |-> "nonces_committed",
     final_authorized |-> "tree_signed",
     final_dispatched |-> "final_authorized",
     final_result |-> "final_dispatched",
     confirmed |-> "final_authorized",
     cleanup_authorized |-> "cleanup_pending",
     cleanup_dispatched |-> "cleanup_authorized",
     cleanup_result |-> "cleanup_dispatched"]

CleanupPhases ==
    {"cleanup_pending", "cleanup_authorized", "cleanup_dispatched", "cleanup_result"}

ClaimAdmitted(d) ==
    LET v == VaultOf[d]
    IN  /\ delegation[d].events = {}
        /\ ValidAt[d] <= now /\ now < ExpiresAt[d]
        /\ rejectDispatchedDelegation(v)
        /\ rejectConcurrentVtxoOperation(v, vtxo)
        /\ rejectActiveSpendingRenewal(v)
        /\ WithinAllowance(d, vtxo)

(* The phases the journal of d accepts next.                               *)
DelegationAccepts(d, e) ==
    LET has(phase) == phase \in delegation[d].events
    IN  /\ ~delegationTerminal(d)
        /\ has("cleanup_pending") => e \in CleanupPhases \cup {"expired"}
        /\ \/ e = "claimed" /\ ClaimAdmitted(d)
           \/ /\ e = "expired"
              /\ ~has("final_authorized") /\ VaultBoardRegisterCanSupersede(d)
              /\ has("register_dispatched") => has("cleanup_result")
           \/ /\ e = "cleanup_pending"
              /\ ~has("final_authorized") /\ VaultBoardRegisterCanSupersede(d)
           \/ /\ e \in {"cancelled", "invalidated", "needs_authorization"}
              /\ delegation[d].events = {}
           \/ e = "needs_authorization" /\ delegation[d].events = {"claimed"}
           \/ e = "rejected" /\ has("register_dispatched") /\ ~has("register_result")
           \/ /\ e \in DOMAIN predecessors
              /\ has(predecessors[e])
              /\ e = "final_authorized" => now < ExpiresAt[d]

(* What the executor has seen before it asks: a renewal is abandoned only  *)
(* once its registration may have reached the Operator, and confirmed only *)
(* once the chain shows its commitment.                                    *)
DelegationEvidence(d, e, t) ==
    /\ e = "cleanup_pending" => "register_dispatched" \in delegation[d].events
    /\ e = "confirmed" => settled[d] # Never /\ settled[d] <= t

AdvanceSpendingDelegation(d, e) ==
    /\ delegation[d].stored
    /\ e \notin delegation[d].events
    /\ DelegationAccepts(d, e)
    /\ \E t \in NowUTC :
          /\ DelegationEvidence(d, e, t)
          /\ delegation' = [delegation EXCEPT
                ![d] = [stored |-> TRUE,
                        events |-> @.events \cup {e},
                        confirmedAt |-> IF e = "confirmed" THEN t ELSE @.confirmedAt]]
    /\ UNCHANGED <<now, vtxo, renewal, signCount, worldVars>>

DelegationStep ==
    \/ \E v \in Vaults, ds \in SUBSET Delegations \ {{}} : ScheduleVtxoDelegationSet(v, ds)
    \/ \E d \in Delegations, e \in DelegationPhases : AdvanceSpendingDelegation(d, e)
=============================================================================
