------------------------------ MODULE VtxoLedger ------------------------------
(***************************************************************************)
(* Ark payments in the policy ledger: reservation, signing, submission and *)
(* the two ways a submitted payment ends.  State changes after reservation *)
(* are compare-and-swap updates on the stored state; the callers' own      *)
(* steps decide which swap is attempted.                                   *)
(***************************************************************************)
EXTENDS SpendingState

validVtxoTransition(from, to) ==
    <<from, to>> \in {<<"reserved", "signed">>, <<"reserved", "aborted">>,
                      <<"signed", "submitted">>,
                      <<"submitted", "finalized">>, <<"submitted", "unresolved">>}

(* Every reservation of the vault that has run out becomes aborted.        *)
abortExpiredVtxo(v) ==
    [o \in VtxoOps |->
        IF VaultOf[o] = v /\ vtxo[o].state = "reserved" /\ now >= vtxo[o].expires
        THEN [vtxo[o] EXCEPT !.state = "aborted"]
        ELSE vtxo[o]]

(* Mutant: completed payments no longer lock their coins.                  *)
rejectOverlappingActive(o, ops) ==
    \A q \in VtxoOps \ {o} :
        vtxoStateBlocksNewOperation(ops[q].state) => Inputs[q] \cap Inputs[o] = {}

(* No other payment, of any vault, still locks one of o's coins.           *)
rejectOverlappingVtxoInputs(o, ops) ==
    \A q \in VtxoOps \ {o} :
        vtxoStateLocksInputs(ops[q].state) => Inputs[q] \cap Inputs[o] = {}

(* Renewals that are only armed on one of o's coins give way to o.         *)
invalidateArmedDelegations(o) ==
    [d \in Delegations |->
        IF VaultOf[d] = VaultOf[o] /\ Armed(d) /\ Inputs[d] \cap Inputs[o] # {}
        THEN [delegation[d] EXCEPT !.events = {"invalidated"}]
        ELSE delegation[d]]

ReserveVtxoOperation(o) ==
    LET v == VaultOf[o]
        ops == abortExpiredVtxo(v)
    IN  /\ vtxo[o].state = "none"
        /\ rejectOverlappingVtxoInputs(o, ops)
        /\ rejectConcurrentVtxoOperation(v, ops)
        /\ rejectActiveSpendingRenewal(v)
        /\ rejectDispatchedDelegation(v)
        /\ WithinAllowance(o, ops)
        /\ \E t \in NowUTC :
              vtxo' = [ops EXCEPT ![o] = [state |-> "reserved", created |-> t,
                                          expires |-> t + ReserveTTL]]
        /\ delegation' = invalidateArmedDelegations(o)
        /\ UNCHANGED <<now, renewal, signCount, worldVars>>

(* The passkey counter and the signed state commit together.               *)
CommitSignedVtxoOperation(o, n) ==
    /\ vtxo[o].state = "reserved"
    /\ advanceSignCount(VaultOf[o], n)
    /\ vtxo' = [vtxo EXCEPT ![o].state = "signed"]
    /\ UNCHANGED <<now, renewal, delegation, worldVars>>

TransitionVtxoOperation(o, from, to, created) ==
    /\ validVtxoTransition(from, to)
    /\ vtxo[o].state = from
    /\ vtxo' = [vtxo EXCEPT ![o].state = to, ![o].created = created]
    /\ UNCHANGED <<now, renewal, delegation, signCount, worldVars>>

(* The owner's abort and the lazy expiry of a reservation.                 *)
AbortVtxo(o) ==
    TransitionVtxoOperation(o, "reserved", "aborted", vtxo[o].created)

(* Checkpoint authorization, or a promotion that found the outcome first.  *)
SubmitVtxo(o) ==
    TransitionVtxoOperation(o, "signed", "submitted", vtxo[o].created)

(* Mutant: a finalized payment keeps the time it was reserved.             *)
FinalizeVtxoUnstamped(o) ==
    /\ settled[o] # Never
    /\ TransitionVtxoOperation(o, "submitted", "finalized", vtxo[o].created)

(* promoteSubmittedVtxo: the indexer showed the payment's own transaction  *)
(* (finalized) or another one (unresolved) spending a reserved coin; the   *)
(* row is stamped with a clock reading taken after that answer.            *)
FinalizeVtxo(o) ==
    /\ settled[o] # Never
    /\ \E t \in NowUTC :
          /\ settled[o] <= t
          /\ TransitionVtxoOperation(o, "submitted", "finalized", t)

UnresolveVtxo(o) ==
    /\ settled[o] = Never
    /\ \E c \in Inputs[o] : ~Unspent(c)
    /\ \E t \in NowUTC : TransitionVtxoOperation(o, "submitted", "unresolved", t)

VtxoStep(o) ==
    \/ ReserveVtxoOperation(o)
    \/ \E n \in 0..MaxSignCount : CommitSignedVtxoOperation(o, n)
    \/ AbortVtxo(o)
    \/ SubmitVtxo(o)
    \/ FinalizeVtxo(o)
    \/ UnresolveVtxo(o)
=============================================================================
