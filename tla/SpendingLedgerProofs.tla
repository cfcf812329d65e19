------------------------- MODULE SpendingLedgerProofs -------------------------
(***************************************************************************)
(* Proofs about SpendingLedger, for every set of vaults, lifecycles and     *)
(* coins and every value of the time limits.                               *)
(***************************************************************************)
EXTENDS SpendingLedger, TLAPS

(***************************************************************************)
(* What each ledger action does to the rows, field by field.               *)
(***************************************************************************)

(* A reservation writes one row and aborts expired reservations of the     *)
(* same vault.                                                             *)
LEMMA ReserveVtxoEffect ==
    ASSUME TypeOK, NEW o \in VtxoOps, ReserveVtxoOperation(o)
    PROVE  /\ vtxo' \in [VtxoOps -> VtxoRow]
           /\ delegation' \in [Delegations -> DelegationRow]
           /\ vtxo'[o].state = "reserved"
           /\ \A q \in VtxoOps \ {o} :
                 \/ vtxo'[q] = vtxo[q]
                 \/ /\ VaultOf[q] = VaultOf[o]
                    /\ vtxo[q].state = "reserved"
                    /\ vtxo'[q].state = "aborted"
           /\ \A q \in VtxoOps \ {o} : vtxo'[q] = abortExpiredVtxo(VaultOf[o])[q]
           /\ \A d \in Delegations :
                 \/ delegation'[d] = delegation[d]
                 \/ /\ Armed(d)
                    /\ delegation'[d].stored
                    /\ delegation'[d].events = {"invalidated"}
  <1> DEFINE ops == abortExpiredVtxo(VaultOf[o])
  <1>1. vtxo \in [VtxoOps -> VtxoRow] /\ delegation \in [Delegations -> DelegationRow]
    BY Zenon DEF TypeOK
  <1>2. ops \in [VtxoOps -> VtxoRow]
    BY <1>1, Zenon DEF abortExpiredVtxo, VtxoRow, VtxoStates
  <1>3. PICK t \in NowUTC : vtxo' = [ops EXCEPT ![o] = [state |-> "reserved", created |-> t,
                                                        expires |-> t + ReserveTTL]]
    BY Zenon DEF ReserveVtxoOperation
  <1>4. t \in Nat /\ ReserveTTL \in Nat
    BY TimeAssumption DEF NowUTC, TypeOK, Time
  <1>5. vtxo' \in [VtxoOps -> VtxoRow] /\ vtxo'[o].state = "reserved"
    BY <1>2, <1>3, <1>4 DEF VtxoRow, VtxoStates, Time
  <1>6. \A q \in VtxoOps \ {o} : vtxo'[q] = ops[q]
    BY <1>2, <1>3, Zenon
  <1>7. \A q \in VtxoOps :
           \/ ops[q] = vtxo[q]
           \/ /\ VaultOf[q] = VaultOf[o]
              /\ vtxo[q].state = "reserved"
              /\ ops[q].state = "aborted"
    BY <1>1, Zenon DEF abortExpiredVtxo, VtxoRow
  <1>8. delegation' = invalidateArmedDelegations(o)
    BY Zenon DEF ReserveVtxoOperation
  <1>9. /\ delegation' \in [Delegations -> DelegationRow]
        /\ \A d \in Delegations :
              \/ delegation'[d] = delegation[d]
              \/ /\ Armed(d)
                 /\ delegation'[d].stored
                 /\ delegation'[d].events = {"invalidated"}
    BY <1>1, <1>8 DEF invalidateArmedDelegations, Armed, DelegationRow, DelegationPhases
  <1> QED
    BY <1>5, <1>6, <1>7, <1>9

(* A compare-and-swap changes the state of one row.                        *)
LEMMA VtxoUpdateEffect ==
    ASSUME TypeOK, NEW o \in VtxoOps, NEW to \in VtxoStates, NEW t \in Time,
           vtxo' = [vtxo EXCEPT ![o].state = to, ![o].created = t]
    PROVE  /\ vtxo' \in [VtxoOps -> VtxoRow]
           /\ vtxo'[o].state = to
           /\ \A q \in VtxoOps \ {o} : vtxo'[q] = vtxo[q]
  BY DEF TypeOK, VtxoRow

(* Signing changes the state of one row.                                   *)
LEMMA CommitSignedEffect ==
    ASSUME TypeOK, NEW o \in VtxoOps, NEW n \in Nat, CommitSignedVtxoOperation(o, n)
    PROVE  /\ vtxo' \in [VtxoOps -> VtxoRow]
           /\ signCount' \in [Vaults -> Nat]
           /\ vtxo'[o].state = "signed"
           /\ \A q \in VtxoOps \ {o} : vtxo'[q] = vtxo[q]
  BY DEF TypeOK, VtxoRow, VtxoStates, CommitSignedVtxoOperation, advanceSignCount

(* Reserving a Bitcoin payment stores its row and nothing else.            *)
LEMMA ReserveRenewalEffect ==
    ASSUME TypeOK, NEW p \in Renewals, ReserveSpendingRenewal(p)
    PROVE  /\ renewal' \in [Renewals -> RenewalRow]
           /\ renewal'[p].stored
           /\ renewal'[p].events = renewal[p].events
           /\ renewal'[p].dispatchedAt = renewal[p].dispatchedAt
           /\ \A q \in Renewals \ {p} : renewal'[q] = renewal[q]
  BY Zenon DEF TypeOK, RenewalRow, ReserveSpendingRenewal

(* A journal grows by one phase.                                           *)
LEMMA AppendRenewalEffect ==
    ASSUME TypeOK, NEW p \in Renewals, NEW e \in RenewalPhases,
           AppendSpendingRenewalEvent(p, e)
    PROVE  /\ renewal' \in [Renewals -> RenewalRow]
           /\ signCount' \in [Vaults -> Nat]
           /\ renewal'[p].stored = renewal[p].stored
           /\ renewal'[p].events = renewal[p].events \cup {e}
           /\ IF e = "final_dispatched"
              THEN renewal'[p].dispatchedAt <= now
              ELSE renewal'[p].dispatchedAt = renewal[p].dispatchedAt
           /\ \A q \in Renewals \ {p} : renewal'[q] = renewal[q]
  <1>1. signCount' \in [Vaults -> Nat]
    BY AmountAssumption DEF TypeOK, AppendSpendingRenewalEvent, advanceSignCount
  <1>2. renewal \in [Renewals -> RenewalRow] /\ now \in Time
    BY Zenon DEF TypeOK
  <1>3. PICK t \in NowUTC :
           renewal' = [renewal EXCEPT
              ![p] = [stored |-> TRUE,
                      events |-> @.events \cup {e},
                      dispatchedAt |-> IF e = "final_dispatched" THEN t ELSE @.dispatchedAt,
                      confirmedAt |-> IF e = "confirmed" THEN t ELSE @.confirmedAt]]
    BY Zenon DEF AppendSpendingRenewalEvent
  <1>4. t \in Time /\ t <= now
    BY <1>2 DEF NowUTC, Time
  <1> DEFINE row ==
        [stored |-> TRUE,
         events |-> renewal[p].events \cup {e},
         dispatchedAt |-> IF e = "final_dispatched" THEN t ELSE renewal[p].dispatchedAt,
         confirmedAt |-> IF e = "confirmed" THEN t ELSE renewal[p].confirmedAt]
  <1>5. row \in RenewalRow
    BY <1>2, <1>4, Zenon DEF RenewalRow
  <1>6. renewal' = [renewal EXCEPT ![p] = row]
    BY <1>3, <1>2, Zenon
  <1>7. /\ renewal' \in [Renewals -> RenewalRow]
        /\ renewal'[p] = row
        /\ \A q \in Renewals \ {p} : renewal'[q] = renewal[q]
    BY <1>2, <1>5, <1>6, Zenon
  <1>8. renewal[p].stored = TRUE
    BY <1>2, Zenon DEF RenewalRow, AppendSpendingRenewalEvent
  <1>9. /\ renewal'[p].stored = TRUE
        /\ renewal'[p].events = renewal[p].events \cup {e}
        /\ IF e = "final_dispatched"
           THEN renewal'[p].dispatchedAt <= now
           ELSE renewal'[p].dispatchedAt = renewal[p].dispatchedAt
    BY <1>7, <1>4
  <1> HIDE DEF row
  <1> QED
    BY <1>1, <1>7, <1>8, <1>9, Zenon

(* Scheduling stores rows and journals nothing.                            *)
LEMMA ScheduleEffect ==
    ASSUME TypeOK, NEW v \in Vaults, NEW ds \in SUBSET Delegations,
           ScheduleVtxoDelegationSet(v, ds)
    PROVE  /\ delegation' \in [Delegations -> DelegationRow]
           /\ signCount' \in [Vaults -> Nat]
           /\ \A d \in Delegations : delegation'[d].events = delegation[d].events
           /\ \A d \in Delegations \ ds : delegation'[d] = delegation[d]
           /\ \A d \in ds : delegation'[d].stored
  <1>1. signCount' \in [Vaults -> Nat]
    BY AmountAssumption DEF TypeOK, ScheduleVtxoDelegationSet, advanceSignCount
  <1>2. delegation \in [Delegations -> DelegationRow]
    BY Zenon DEF TypeOK
  <1>3. delegation' = [d \in Delegations |->
           IF d \in ds THEN [delegation[d] EXCEPT !.stored = TRUE] ELSE delegation[d]]
    BY Zenon DEF ScheduleVtxoDelegationSet
  <1>4. \A d \in Delegations : /\ delegation'[d] \in DelegationRow
                               /\ delegation'[d].events = delegation[d].events
                               /\ d \in ds => delegation'[d].stored
                               /\ d \notin ds => delegation'[d] = delegation[d]
    BY <1>2, <1>3, Zenon DEF DelegationRow
  <1>5. delegation' \in [Delegations -> DelegationRow]
    BY <1>3, <1>4, Zenon
  <1> QED
    BY <1>1, <1>4, <1>5, Zenon

(* A journal grows by one phase.                                           *)
LEMMA AdvanceDelegationEffect ==
    ASSUME TypeOK, NEW d \in Delegations, NEW e \in DelegationPhases,
           AdvanceSpendingDelegation(d, e)
    PROVE  /\ delegation' \in [Delegations -> DelegationRow]
           /\ delegation'[d].stored = delegation[d].stored
           /\ delegation'[d].events = delegation[d].events \cup {e}
           /\ \A f \in Delegations \ {d} : delegation'[f] = delegation[f]
  <1>1. delegation \in [Delegations -> DelegationRow] /\ now \in Time
    BY Zenon DEF TypeOK
  <1>2. PICK t \in NowUTC :
           delegation' = [delegation EXCEPT
              ![d] = [stored |-> TRUE,
                      events |-> @.events \cup {e},
                      confirmedAt |-> IF e = "confirmed" THEN t ELSE @.confirmedAt]]
    BY Zenon DEF AdvanceSpendingDelegation
  <1>3. t \in Time
    BY <1>1 DEF NowUTC, Time
  <1> DEFINE row == [stored |-> TRUE,
                     events |-> delegation[d].events \cup {e},
                     confirmedAt |-> IF e = "confirmed" THEN t ELSE delegation[d].confirmedAt]
  <1>4. row \in DelegationRow
    BY <1>1, <1>3, Zenon DEF DelegationRow
  <1>5. delegation' = [delegation EXCEPT ![d] = row]
    BY <1>1, <1>2, Zenon
  <1>6. delegation[d].stored = TRUE
    BY <1>1, Zenon DEF DelegationRow, AdvanceSpendingDelegation
  <1> QED
    BY <1>1, <1>4, <1>5, <1>6, Zenon
-----------------------------------------------------------------------------
(***************************************************************************)
(* Every step of Next, taken apart once.                                   *)
(***************************************************************************)

(* The actions of Next, with the quantifiers and the disjunctions of the   *)
(* three components in front.                                              *)
LEMMA NextActions ==
    ASSUME [Next]_vars
    PROVE  \/ \E o \in VtxoOps : ReserveVtxoOperation(o)
           \/ \E o \in VtxoOps, n \in 0..MaxSignCount : CommitSignedVtxoOperation(o, n)
           \/ \E o \in VtxoOps : AbortVtxo(o) \/ SubmitVtxo(o) \/ FinalizeVtxo(o) \/ UnresolveVtxo(o)
           \/ \E p \in Renewals : ReserveSpendingRenewal(p)
           \/ \E p \in Renewals, e \in RenewalPhases : AppendSpendingRenewalEvent(p, e)
           \/ \E v \in Vaults, ds \in SUBSET Delegations : ScheduleVtxoDelegationSet(v, ds)
           \/ \E d \in Delegations, e \in DelegationPhases : AdvanceSpendingDelegation(d, e)
           \/ \E l \in Lifecycles : Settle(l)
           \/ \E c \in Coins : SpendElsewhere(c)
           \/ \E p \in Renewals : EndBatch(p)
           \/ \E p \in Renewals : BuryConflict(p)
           \/ Tick
           \/ UNCHANGED vars
  BY Zenon DEF Next, VtxoStep, RenewalStep, DelegationStep

(* The four callers of the compare-and-swap: an owner's abort, submission, *)
(* and the two outcomes the indexer reports.                               *)
LEMMA VtxoSwap ==
    ASSUME TypeOK, NEW o \in VtxoOps,
           AbortVtxo(o) \/ SubmitVtxo(o) \/ FinalizeVtxo(o) \/ UnresolveVtxo(o)
    PROVE  /\ vtxo' \in [VtxoOps -> VtxoRow]
           /\ \A q \in VtxoOps \ {o} : vtxo'[q] = vtxo[q]
           /\ \/ vtxo[o].state = "reserved" /\ vtxo'[o].state = "aborted"
              \/ vtxo[o].state = "signed" /\ vtxo'[o].state = "submitted"
              \/ /\ vtxo[o].state = "submitted" /\ vtxo'[o].state = "finalized"
                 /\ settled[o] # Never
              \/ /\ vtxo[o].state = "submitted" /\ vtxo'[o].state = "unresolved"
                 /\ settled[o] = Never
                 /\ \E c \in Inputs[o] : ~Unspent(c)
           /\ UNCHANGED <<now, renewal, delegation, signCount, settled, exited, endedAt, conflicted>>
  <1>1. vtxo[o].created \in Time
    BY Zenon DEF TypeOK, VtxoRow
  <1>2. \A t \in NowUTC : t \in Time
    BY DEF NowUTC, Time, TypeOK
  <1>3. CASE AbortVtxo(o)
    <2>1. /\ vtxo[o].state = "reserved"
          /\ vtxo' = [vtxo EXCEPT ![o].state = "aborted", ![o].created = vtxo[o].created]
          /\ UNCHANGED <<now, renewal, delegation, signCount, settled, exited, endedAt, conflicted>>
      BY <1>3, Zenon DEF AbortVtxo, TransitionVtxoOperation, worldVars
    <2> QED
      BY <1>1, <2>1, VtxoUpdateEffect, Zenon DEF VtxoStates
  <1>4. CASE SubmitVtxo(o)
    <2>1. /\ vtxo[o].state = "signed"
          /\ vtxo' = [vtxo EXCEPT ![o].state = "submitted", ![o].created = vtxo[o].created]
          /\ UNCHANGED <<now, renewal, delegation, signCount, settled, exited, endedAt, conflicted>>
      BY <1>4, Zenon DEF SubmitVtxo, TransitionVtxoOperation, worldVars
    <2> QED
      BY <1>1, <2>1, VtxoUpdateEffect, Zenon DEF VtxoStates
  <1>5. CASE FinalizeVtxo(o)
    <2>1. PICK t \in NowUTC :
             /\ vtxo[o].state = "submitted"
             /\ vtxo' = [vtxo EXCEPT ![o].state = "finalized", ![o].created = t]
             /\ UNCHANGED <<now, renewal, delegation, signCount, settled, exited, endedAt, conflicted>>
      BY <1>5, Zenon DEF FinalizeVtxo, TransitionVtxoOperation, worldVars
    <2>2. settled[o] # Never
      BY <1>5, Zenon DEF FinalizeVtxo
    <2> QED
      BY <1>2, <2>1, <2>2, VtxoUpdateEffect, Zenon DEF VtxoStates
  <1>6. CASE UnresolveVtxo(o)
    <2>1. PICK t \in NowUTC :
             /\ vtxo[o].state = "submitted"
             /\ vtxo' = [vtxo EXCEPT ![o].state = "unresolved", ![o].created = t]
             /\ UNCHANGED <<now, renewal, delegation, signCount, settled, exited, endedAt, conflicted>>
      BY <1>6, Zenon DEF UnresolveVtxo, TransitionVtxoOperation, worldVars
    <2>2. settled[o] = Never /\ \E c \in Inputs[o] : ~Unspent(c)
      BY <1>6, Zenon DEF UnresolveVtxo
    <2> QED
      BY <1>2, <2>1, <2>2, VtxoUpdateEffect, Zenon DEF VtxoStates
  <1> QED
    BY <1>3, <1>4, <1>5, <1>6, Zenon
-----------------------------------------------------------------------------
(***************************************************************************)
(* The parts of the inductive invariant, one lemma each.                   *)
(***************************************************************************)

(* The Operator's stamp on the end of a batch is no earlier than now.      *)
LEMMA OperatorStamps ==
    ASSUME TypeOK, NEW t \in OperatorTime
    PROVE  t \in Nat /\ now <= t
  BY TimeAssumption DEF OperatorTime, TypeOK, Time

(* No step leaves the types.                                               *)
LEMMA TypeStep ==
    ASSUME TypeOK, [Next]_vars
    PROVE  TypeOK'
  <1> USE DEF Time
  <1>1. ASSUME NEW o \in VtxoOps, ReserveVtxoOperation(o) PROVE TypeOK'
    BY <1>1, ReserveVtxoEffect, Zenon DEF TypeOK, ReserveVtxoOperation, worldVars
  <1>2. ASSUME NEW o \in VtxoOps, NEW n \in 0..MaxSignCount, CommitSignedVtxoOperation(o, n)
        PROVE  TypeOK'
    <2>1. n \in Nat
      BY AmountAssumption
    <2> QED
      BY <1>2, <2>1, CommitSignedEffect, Zenon DEF TypeOK, CommitSignedVtxoOperation, worldVars
  <1>3. ASSUME NEW o \in VtxoOps,
               AbortVtxo(o) \/ SubmitVtxo(o) \/ FinalizeVtxo(o) \/ UnresolveVtxo(o)
        PROVE  TypeOK'
    BY <1>3, VtxoSwap, Zenon DEF TypeOK
  <1>4. ASSUME NEW p \in Renewals, ReserveSpendingRenewal(p) PROVE TypeOK'
    BY <1>4, ReserveRenewalEffect, Zenon DEF TypeOK, ReserveSpendingRenewal, worldVars
  <1>5. ASSUME NEW p \in Renewals, NEW e \in RenewalPhases, AppendSpendingRenewalEvent(p, e)
        PROVE  TypeOK'
    BY <1>5, AppendRenewalEffect, Zenon DEF TypeOK, AppendSpendingRenewalEvent, worldVars
  <1>6. ASSUME NEW v \in Vaults, NEW ds \in SUBSET Delegations, ScheduleVtxoDelegationSet(v, ds)
        PROVE  TypeOK'
    BY <1>6, ScheduleEffect, Zenon DEF TypeOK, ScheduleVtxoDelegationSet, worldVars
  <1>7. ASSUME NEW d \in Delegations, NEW e \in DelegationPhases, AdvanceSpendingDelegation(d, e)
        PROVE  TypeOK'
    BY <1>7, AdvanceDelegationEffect, Zenon DEF TypeOK, AdvanceSpendingDelegation, worldVars
  <1>8. ASSUME NEW l \in Lifecycles, Settle(l) PROVE TypeOK'
    BY <1>8, Zenon DEF TypeOK, Settle, ledgerVars
  <1>9. ASSUME NEW c \in Coins, SpendElsewhere(c) PROVE TypeOK'
    BY <1>9, Zenon DEF TypeOK, SpendElsewhere, ledgerVars
  <1>10. ASSUME NEW p \in Renewals, EndBatch(p) PROVE TypeOK'
    BY <1>10, OperatorStamps, Zenon DEF TypeOK, EndBatch, ledgerVars, Time
  <1>11. ASSUME NEW p \in Renewals, BuryConflict(p) PROVE TypeOK'
    BY <1>11, Zenon DEF TypeOK, BuryConflict, ledgerVars
  <1>12. ASSUME Tick PROVE TypeOK'
    BY <1>12 DEF TypeOK, Tick, ledgerVars, worldVars
  <1>13. ASSUME UNCHANGED vars PROVE TypeOK'
    BY <1>13, Zenon DEF TypeOK, vars
  <1> QED
    BY <1>1, <1>2, <1>3, <1>4, <1>5, <1>6, <1>7, <1>8, <1>9, <1>10, <1>11, <1>12, <1>13,
       NextActions, Zenon

(* The journal of a Bitcoin payment keeps its order.                       *)
LEMMA RenewalOrderStep ==
    ASSUME TypeOK, RenewalOrder, [Next]_vars
    PROVE  RenewalOrder'
  <1>1. ASSUME NEW p \in Renewals, ReserveSpendingRenewal(p) PROVE RenewalOrder'
    <2>1. UNCHANGED <<now, endedAt, conflicted>>
      BY <1>1, Zenon DEF ReserveSpendingRenewal, worldVars
    <2> QED
      BY <1>1, <2>1, ReserveRenewalEffect, Zenon DEF RenewalOrder
  <1>2. ASSUME NEW p \in Renewals, NEW e \in RenewalPhases, AppendSpendingRenewalEvent(p, e)
        PROVE  RenewalOrder'
    <2>1. UNCHANGED <<now, endedAt, conflicted>>
      BY <1>2, Zenon DEF AppendSpendingRenewalEvent, worldVars
    <2>2. now \in Nat
      BY Zenon DEF TypeOK, Time
    <2>3. /\ renewal[p].stored
          /\ e \notin renewal[p].events
          /\ validateRenewalTransition(p, e)
      BY <1>2, Zenon DEF AppendSpendingRenewalEvent
    <2> QED
      BY <1>2, <2>1, <2>2, <2>3, AppendRenewalEffect
         DEF RenewalOrder, validateRenewalTransition, renewalTerminal,
             validateBitcoinDispatchedRelease, validateBitcoinConflictRelease,
             validateBitcoinEndedBatchRelease
  <1>3. ASSUME NEW p \in Renewals, EndBatch(p) PROVE RenewalOrder'
    BY <1>3, Zenon DEF EndBatch, RenewalOrder, TypeOK, ledgerVars
  <1>4. ASSUME NEW p \in Renewals, BuryConflict(p) PROVE RenewalOrder'
    BY <1>4, Zenon DEF BuryConflict, RenewalOrder, ledgerVars
  <1>5. ASSUME Tick PROVE RenewalOrder'
    <2>1. now \in Nat /\ now' = now + 1
      BY <1>5, Zenon DEF TypeOK, Time, Tick
    <2>2. \A p \in Renewals : renewal[p].dispatchedAt \in Nat
      BY Zenon DEF TypeOK, RenewalRow, Time
    <2> QED
      BY <1>5, <2>1, <2>2 DEF Tick, RenewalOrder, ledgerVars, worldVars
  <1>6. ASSUME UNCHANGED <<now, renewal, endedAt, conflicted>> PROVE RenewalOrder'
    BY <1>6, Zenon DEF RenewalOrder
  <1>7. \/ \E p \in Renewals : ReserveSpendingRenewal(p)
        \/ \E p \in Renewals, e \in RenewalPhases : AppendSpendingRenewalEvent(p, e)
        \/ \E p \in Renewals : EndBatch(p)
        \/ \E p \in Renewals : BuryConflict(p)
        \/ Tick
        \/ UNCHANGED <<now, renewal, endedAt, conflicted>>
    BY NextActions, VtxoSwap, Zenon
       DEF ReserveVtxoOperation, CommitSignedVtxoOperation, ScheduleVtxoDelegationSet,
           AdvanceSpendingDelegation, Settle, SpendElsewhere, worldVars, ledgerVars, vars
  <1> QED
    BY <1>1, <1>2, <1>3, <1>4, <1>5, <1>6, <1>7, Zenon

(* The chain of predecessors that the forfeit of a renewal rests on.       *)
LEMMA DispatchedChain ==
    ASSUME DelegationOrder, NEW d \in Delegations,
           "final_dispatched" \in delegation[d].events
    PROVE  {"claimed", "register_dispatched", "register_result", "final_authorized"}
              \subseteq delegation[d].events
  <1>1. \A e \in DOMAIN predecessors :
           e \in delegation[d].events => predecessors[e] \in delegation[d].events
    BY Zenon DEF DelegationOrder
  <1>2. {"final_authorized", "tree_signed"} \subseteq delegation[d].events
    BY <1>1, Zenon DEF predecessors
  <1>3. {"nonces_committed", "tree_prepared"} \subseteq delegation[d].events
    BY <1>1, <1>2, Zenon DEF predecessors
  <1>4. {"batch_started", "register_result"} \subseteq delegation[d].events
    BY <1>1, <1>3, Zenon DEF predecessors
  <1>5. {"register_dispatched", "register_authorized"} \subseteq delegation[d].events
    BY <1>1, <1>4, Zenon DEF predecessors
  <1>6. "claimed" \in delegation[d].events
    BY <1>1, <1>5, Zenon DEF predecessors
  <1> QED
    BY <1>2, <1>4, <1>5, <1>6, Zenon

(* The journal of a delegated renewal keeps its order.                     *)
LEMMA DelegationOrderStep ==
    ASSUME TypeOK, DelegationOrder, [Next]_vars
    PROVE  DelegationOrder'
  <1> DEFINE Given(ev) == ev \cap {"invalidated", "cancelled", "expired",
                                   "needs_authorization", "rejected"} # {}
             Ordered(ev) == /\ \A e \in DOMAIN predecessors : e \in ev => predecessors[e] \in ev
                            /\ Given(ev) => "final_dispatched" \notin ev
  <1>1. DelegationOrder <=> \A d \in Delegations : Ordered(delegation[d].events)
    BY LifecycleAssumption, Zenon DEF DelegationOrder, GivenUp
  <1>2. DelegationOrder' <=> \A d \in Delegations : Ordered(delegation'[d].events)
    BY LifecycleAssumption, Zenon DEF DelegationOrder, GivenUp
  <1>3. ASSUME NEW o \in VtxoOps, ReserveVtxoOperation(o) PROVE DelegationOrder'
    <2>1. Ordered({"invalidated"})
      BY Zenon DEF predecessors
    <2>2. \A d \in Delegations : \/ delegation'[d] = delegation[d]
                                 \/ delegation'[d].events = {"invalidated"}
      BY <1>3, ReserveVtxoEffect, Zenon
    <2> HIDE DEF Ordered
    <2> QED
      BY <1>1, <1>2, <2>1, <2>2, Zenon
  <1>4. ASSUME NEW v \in Vaults, NEW ds \in SUBSET Delegations, ScheduleVtxoDelegationSet(v, ds)
        PROVE  DelegationOrder'
    <2> HIDE DEF Ordered
    <2> QED
      BY <1>1, <1>2, <1>4, ScheduleEffect, Zenon
  <1>5. ASSUME NEW d \in Delegations, NEW e \in DelegationPhases, AdvanceSpendingDelegation(d, e)
        PROVE  DelegationOrder'
    <2>1. DelegationAccepts(d, e)
      BY <1>5, Zenon DEF AdvanceSpendingDelegation
    <2>2. Ordered(delegation[d].events)
      BY <1>1, Zenon
    <2>3. \A k \in DOMAIN predecessors :
             k \in delegation[d].events \cup {e} => predecessors[k] \in delegation[d].events \cup {e}
      BY <2>1, <2>2 DEF DelegationAccepts, predecessors
    <2>4. Given(delegation[d].events \cup {e})
             => "final_dispatched" \notin delegation[d].events \cup {e}
      <3>1. CASE e = "final_dispatched"
        BY <2>1, <3>1, Zenon DEF DelegationAccepts, delegationTerminal
      <3>2. CASE "final_dispatched" \in delegation[d].events
        <4>1. e \notin {"invalidated", "cancelled", "expired", "needs_authorization", "rejected"}
          BY <2>1, <3>2, DispatchedChain, Zenon DEF DelegationAccepts, predecessors
        <4> QED
          BY <2>2, <3>2, <4>1, Zenon
      <3>3. CASE "final_dispatched" \notin delegation[d].events \cup {e}
        BY <3>3, Zenon
      <3> QED
        BY <3>1, <3>2, <3>3, Zenon
    <2>5. Ordered(delegation[d].events \cup {e})
      BY <2>3, <2>4, Zenon
    <2> HIDE DEF Ordered
    <2> QED
      BY <1>1, <1>2, <1>5, <2>5, AdvanceDelegationEffect
  <1>6. ASSUME UNCHANGED delegation PROVE DelegationOrder'
    BY <1>1, <1>2, <1>6, Zenon
  <1>7. \/ \E o \in VtxoOps : ReserveVtxoOperation(o)
        \/ \E v \in Vaults, ds \in SUBSET Delegations : ScheduleVtxoDelegationSet(v, ds)
        \/ \E d \in Delegations, e \in DelegationPhases : AdvanceSpendingDelegation(d, e)
        \/ UNCHANGED delegation
    BY NextActions, VtxoSwap, Zenon
       DEF CommitSignedVtxoOperation, ReserveSpendingRenewal, AppendSpendingRenewalEvent,
           Settle, SpendElsewhere, EndBatch, BuryConflict, Tick, ledgerVars, vars
  <1> QED
    BY <1>3, <1>4, <1>5, <1>6, <1>7, Zenon

(* A spent coin stays spent: nothing clears exited, and what was settled   *)
(* stays settled.                                                          *)
LEMMA SpentStaysSpent ==
    ASSUME TypeOK, [Next]_vars
    PROVE  /\ \A l \in Lifecycles : settled[l] # Never => settled'[l] = settled[l]
           /\ \A c \in Coins : ~Unspent(c) => ~Unspent(c)'
           /\ \A p \in conflicted : p \in conflicted'
           /\ \A p \in Renewals : endedAt[p] # Never => endedAt'[p] = endedAt[p]
  <1>1. ASSUME NEW k \in Lifecycles, Settle(k)
        PROVE  /\ \A l \in Lifecycles : settled[l] # Never => settled'[l] = settled[l]
               /\ UNCHANGED <<exited, endedAt, conflicted>>
    BY <1>1, Zenon DEF Settle, TypeOK
  <1>2. \/ \E l \in Lifecycles : Settle(l)
        \/ UNCHANGED settled
    BY NextActions, VtxoSwap, Zenon
       DEF ReserveVtxoOperation, CommitSignedVtxoOperation, ReserveSpendingRenewal,
           AppendSpendingRenewalEvent, ScheduleVtxoDelegationSet, AdvanceSpendingDelegation,
           SpendElsewhere, EndBatch, BuryConflict, Tick, worldVars, vars
  <1>3. \A l \in Lifecycles : settled[l] # Never => settled'[l] = settled[l]
    BY <1>1, <1>2, Zenon
  <1>4. exited \subseteq exited' /\ conflicted \subseteq conflicted'
    BY NextActions, VtxoSwap, Zenon
       DEF ReserveVtxoOperation, CommitSignedVtxoOperation, ReserveSpendingRenewal,
           AppendSpendingRenewalEvent, ScheduleVtxoDelegationSet, AdvanceSpendingDelegation,
           Settle, SpendElsewhere, EndBatch, BuryConflict, Tick, worldVars, vars
  <1>5. ASSUME NEW q \in Renewals, EndBatch(q)
        PROVE  \A p \in Renewals : endedAt[p] # Never => endedAt'[p] = endedAt[p]
    BY <1>5, Zenon DEF EndBatch, TypeOK
  <1>6. \/ \E p \in Renewals : EndBatch(p)
        \/ UNCHANGED endedAt
    BY NextActions, VtxoSwap, Zenon
       DEF ReserveVtxoOperation, CommitSignedVtxoOperation, ReserveSpendingRenewal,
           AppendSpendingRenewalEvent, ScheduleVtxoDelegationSet, AdvanceSpendingDelegation,
           Settle, SpendElsewhere, BuryConflict, Tick, worldVars, vars
  <1>7. \A c \in Coins : ~Unspent(c) => ~Unspent(c)'
    BY <1>3, <1>4, Zenon DEF Unspent
  <1> QED
    BY <1>3, <1>4, <1>5, <1>6, <1>7, Zenon

(* A lifecycle whose signature is out stays committed.                     *)
LEMMA CommittedStays ==
    ASSUME TypeOK, [Next]_vars, NEW l \in Lifecycles, Committed(l)
    PROVE  Committed(l)'
  <1> DEFINE Done(s) == s \in {"signed", "submitted", "finalized", "unresolved"}
  <1>1. CASE l \in VtxoOps
    <2>1. Done(vtxo[l].state)
      BY <1>1, LifecycleAssumption, Zenon DEF Committed
    <2>2. ASSUME NEW o \in VtxoOps, ReserveVtxoOperation(o) PROVE Done(vtxo'[l].state)
      <3>1. vtxo[o].state = "none"
        BY <2>2, Zenon DEF ReserveVtxoOperation
      <3> QED
        BY <1>1, <2>1, <2>2, <3>1, ReserveVtxoEffect, Zenon
    <2>3. ASSUME NEW o \in VtxoOps, NEW n \in 0..MaxSignCount, CommitSignedVtxoOperation(o, n)
          PROVE  Done(vtxo'[l].state)
      <3>1. n \in Nat
        BY AmountAssumption
      <3> QED
        BY <1>1, <2>1, <2>3, <3>1, CommitSignedEffect, Zenon
    <2>4. ASSUME NEW o \in VtxoOps,
                 AbortVtxo(o) \/ SubmitVtxo(o) \/ FinalizeVtxo(o) \/ UnresolveVtxo(o)
          PROVE  Done(vtxo'[l].state)
      BY <1>1, <2>1, <2>4, VtxoSwap, Zenon
    <2>5. \/ \E o \in VtxoOps : ReserveVtxoOperation(o)
          \/ \E o \in VtxoOps, n \in 0..MaxSignCount : CommitSignedVtxoOperation(o, n)
          \/ \E o \in VtxoOps : AbortVtxo(o) \/ SubmitVtxo(o) \/ FinalizeVtxo(o) \/ UnresolveVtxo(o)
          \/ UNCHANGED vtxo
      BY NextActions, Zenon
         DEF ReserveSpendingRenewal, AppendSpendingRenewalEvent, ScheduleVtxoDelegationSet,
             AdvanceSpendingDelegation, Settle, SpendElsewhere, EndBatch, BuryConflict, Tick,
             ledgerVars, vars
    <2>6. Done(vtxo'[l].state)
      BY <2>1, <2>2, <2>3, <2>4, <2>5, Zenon
    <2> QED
      BY <1>1, <2>6, Zenon DEF Committed
  <1>2. CASE l \in Renewals
    <2>1. "final_dispatched" \in renewal[l].events
      BY <1>2, LifecycleAssumption, Zenon DEF Committed
    <2>2. \/ \E p \in Renewals : ReserveSpendingRenewal(p)
          \/ \E p \in Renewals, e \in RenewalPhases : AppendSpendingRenewalEvent(p, e)
          \/ UNCHANGED renewal
      BY NextActions, VtxoSwap, Zenon
         DEF ReserveVtxoOperation, CommitSignedVtxoOperation, ScheduleVtxoDelegationSet,
             AdvanceSpendingDelegation, Settle, SpendElsewhere, EndBatch, BuryConflict, Tick,
             ledgerVars, vars
    <2>3. "final_dispatched" \in renewal'[l].events
      BY <1>2, <2>1, <2>2, ReserveRenewalEffect, AppendRenewalEffect, Zenon
    <2> QED
      BY <1>2, <2>3, Zenon DEF Committed
  <1>3. CASE l \in Delegations
    <2>1. "final_dispatched" \in delegation[l].events
      BY <1>3, LifecycleAssumption, Zenon DEF Committed
    <2>2. \/ \E o \in VtxoOps : ReserveVtxoOperation(o)
          \/ \E v \in Vaults, ds \in SUBSET Delegations : ScheduleVtxoDelegationSet(v, ds)
          \/ \E d \in Delegations, e \in DelegationPhases : AdvanceSpendingDelegation(d, e)
          \/ UNCHANGED delegation
      BY NextActions, VtxoSwap, Zenon
         DEF CommitSignedVtxoOperation, ReserveSpendingRenewal, AppendSpendingRenewalEvent,
             Settle, SpendElsewhere, EndBatch, BuryConflict, Tick, ledgerVars, vars
    <2>3. ASSUME NEW o \in VtxoOps, ReserveVtxoOperation(o)
          PROVE  "final_dispatched" \in delegation'[l].events
      BY <1>3, <2>1, <2>3, ReserveVtxoEffect, Zenon DEF Armed
    <2>4. "final_dispatched" \in delegation'[l].events
      BY <1>3, <2>1, <2>2, <2>3, ScheduleEffect, AdvanceDelegationEffect, Zenon
    <2> QED
      BY <1>3, <2>4, Zenon DEF Committed
  <1> QED
    BY <1>1, <1>2, <1>3, Zenon DEF Lifecycles

(* The network's record stays consistent with the journals.                *)
LEMMA SettlementOrderStep ==
    ASSUME TypeOK, RenewalOrder, SettlementOrder, [Next]_vars
    PROVE  SettlementOrder'
  <1>1. \A l \in Lifecycles : settled'[l] # Never => Committed(l)'
    <2> SUFFICES ASSUME NEW l \in Lifecycles, settled'[l] # Never
                 PROVE  Committed(l)'
      BY Zenon
    <2>1. settled[l] # Never \/ Settle(l)
      BY NextActions, VtxoSwap, Zenon
         DEF ReserveVtxoOperation, CommitSignedVtxoOperation, ReserveSpendingRenewal,
             AppendSpendingRenewalEvent, ScheduleVtxoDelegationSet, AdvanceSpendingDelegation,
             Settle, SpendElsewhere, EndBatch, BuryConflict, Tick, worldVars, vars, TypeOK
    <2>2. Committed(l)
      BY <2>1, Zenon DEF SettlementOrder, Settle
    <2> QED
      BY <2>2, CommittedStays, Zenon
  <1>2. ASSUME NEW p \in Renewals, settled'[p] # Never
        PROVE  /\ p \notin conflicted'
               /\ endedAt'[p] # Never => renewal'[p].dispatchedAt <= endedAt'[p]
    <2> DEFINE Good == /\ p \notin conflicted'
                       /\ endedAt'[p] # Never => renewal'[p].dispatchedAt <= endedAt'[p]
    <2>0. p \in Lifecycles
      BY Zenon DEF Lifecycles
    <2>1. ASSUME NEW l \in Lifecycles, Settle(l) PROVE Good
      <3>1. UNCHANGED <<renewal, endedAt, conflicted>>
        BY <2>1, Zenon DEF Settle, ledgerVars
      <3>2. CASE l = p
        <4>1. renewal[p].dispatchedAt \in Int /\ endedAt[p] \in Int
          BY DEF TypeOK, RenewalRow, Time, Never
        <4>2. ~Excluded(p)
          BY <2>1, <3>2, Zenon DEF Settle
        <4>3. /\ p \notin conflicted
              /\ endedAt[p] # Never => renewal[p].dispatchedAt <= endedAt[p]
          BY <4>1, <4>2 DEF Excluded
        <4> QED
          BY <3>1, <4>3, Zenon
      <3>3. CASE l # p
        <4>1. settled[p] # Never
          BY <1>2, <2>0, <2>1, <3>3, Zenon DEF Settle, TypeOK
        <4> QED
          BY <3>1, <4>1, Zenon DEF SettlementOrder
      <3> QED
        BY <3>2, <3>3, Zenon
    <2>2. ASSUME NEW q \in Renewals, EndBatch(q) PROVE Good
      <3>1. settled[p] # Never /\ UNCHANGED <<renewal, conflicted>>
        BY <1>2, <2>2, Zenon DEF EndBatch, ledgerVars
      <3>2. renewal[p].dispatchedAt <= now
        BY Zenon DEF RenewalOrder
      <3>3. CASE q # p
        <4>1. endedAt'[p] = endedAt[p]
          BY <2>2, <3>3, Zenon DEF EndBatch, TypeOK
        <4> QED
          BY <3>1, <4>1, Zenon DEF SettlementOrder
      <3>4. CASE q = p
        <4>1. PICK t \in OperatorTime : endedAt' = [endedAt EXCEPT ![q] = t]
          BY <2>2, Zenon DEF EndBatch
        <4>2. endedAt'[p] = t
          BY <3>4, <4>1, Zenon DEF TypeOK
        <4>3. /\ now \in Nat /\ t \in Nat /\ now <= t
              /\ renewal[p].dispatchedAt \in Nat
          BY OperatorStamps, Zenon DEF TypeOK, RenewalRow, Time
        <4>4. renewal[p].dispatchedAt <= t
          BY <3>2, <4>3
        <4> QED
          BY <3>1, <4>2, <4>4, Zenon DEF SettlementOrder
      <3> QED
        BY <3>3, <3>4, Zenon
    <2>3. ASSUME NEW q \in Renewals, BuryConflict(q) PROVE Good
      <3>1. settled[p] # Never /\ UNCHANGED <<renewal, endedAt>>
        BY <1>2, <2>3, Zenon DEF BuryConflict, ledgerVars
      <3> QED
        BY <2>3, <3>1, Zenon DEF BuryConflict, SettlementOrder
    <2>4. ASSUME NEW q \in Renewals, NEW e \in RenewalPhases, AppendSpendingRenewalEvent(q, e)
          PROVE  Good
      <3>1. settled[p] # Never /\ UNCHANGED <<endedAt, conflicted>>
        BY <1>2, <2>4, Zenon DEF AppendSpendingRenewalEvent, worldVars
      <3>2. "final_dispatched" \in renewal[p].events
        BY <2>0, <3>1, LifecycleAssumption, Zenon DEF SettlementOrder, Committed
      <3>3. q = p => e # "final_dispatched"
        BY <2>4, <3>2, Zenon DEF AppendSpendingRenewalEvent
      <3>4. renewal'[p].dispatchedAt = renewal[p].dispatchedAt
        BY <2>4, <3>3, AppendRenewalEffect, Zenon
      <3> QED
        BY <3>1, <3>4, Zenon DEF SettlementOrder
    <2>5. ASSUME NEW q \in Renewals, ReserveSpendingRenewal(q) PROVE Good
      <3>1. settled[p] # Never /\ UNCHANGED <<endedAt, conflicted>>
        BY <1>2, <2>5, Zenon DEF ReserveSpendingRenewal, worldVars
      <3>2. renewal'[p].dispatchedAt = renewal[p].dispatchedAt
        BY <2>5, ReserveRenewalEffect, Zenon
      <3> QED
        BY <3>1, <3>2, Zenon DEF SettlementOrder
    <2>6. ASSUME UNCHANGED <<settled, renewal, endedAt, conflicted>> PROVE Good
      BY <1>2, <2>6, Zenon DEF SettlementOrder
    <2>7. \/ \E l \in Lifecycles : Settle(l)
          \/ \E q \in Renewals : EndBatch(q)
          \/ \E q \in Renewals : BuryConflict(q)
          \/ \E q \in Renewals, e \in RenewalPhases : AppendSpendingRenewalEvent(q, e)
          \/ \E q \in Renewals : ReserveSpendingRenewal(q)
          \/ UNCHANGED <<settled, renewal, endedAt, conflicted>>
      BY NextActions, VtxoSwap, Zenon
         DEF ReserveVtxoOperation, CommitSignedVtxoOperation, ScheduleVtxoDelegationSet,
             AdvanceSpendingDelegation, SpendElsewhere, Tick, worldVars, ledgerVars, vars
    <2> QED
      BY <2>1, <2>2, <2>3, <2>4, <2>5, <2>6, <2>7, Zenon
  <1>3. ASSUME NEW o \in VtxoOps, vtxo'[o].state = "unresolved"
        PROVE  settled'[o] = Never /\ \E c \in Inputs[o] : ~Unspent(c)'
    <2>0. o \in Lifecycles /\ Inputs[o] \subseteq Coins
      BY LifecycleAssumption, Zenon DEF Lifecycles
    <2>1. settled[o] = Never /\ \E c \in Inputs[o] : ~Unspent(c)
      <3>1. ASSUME NEW q \in VtxoOps, ReserveVtxoOperation(q) PROVE vtxo[o].state = "unresolved"
        BY <1>3, <3>1, ReserveVtxoEffect, Zenon
      <3>2. ASSUME NEW q \in VtxoOps, NEW n \in 0..MaxSignCount, CommitSignedVtxoOperation(q, n)
            PROVE  vtxo[o].state = "unresolved"
        <4>1. n \in Nat
          BY AmountAssumption
        <4> QED
          BY <1>3, <3>2, <4>1, CommitSignedEffect, Zenon
      <3>3. ASSUME NEW q \in VtxoOps,
                   AbortVtxo(q) \/ SubmitVtxo(q) \/ FinalizeVtxo(q) \/ UnresolveVtxo(q)
            PROVE  \/ vtxo[o].state = "unresolved"
                   \/ settled[o] = Never /\ \E c \in Inputs[o] : ~Unspent(c)
        BY <1>3, <3>3, VtxoSwap, Zenon
      <3>4. \/ \E q \in VtxoOps : ReserveVtxoOperation(q)
            \/ \E q \in VtxoOps, n \in 0..MaxSignCount : CommitSignedVtxoOperation(q, n)
            \/ \E q \in VtxoOps : AbortVtxo(q) \/ SubmitVtxo(q) \/ FinalizeVtxo(q) \/ UnresolveVtxo(q)
            \/ UNCHANGED vtxo
        BY NextActions, Zenon
           DEF ReserveSpendingRenewal, AppendSpendingRenewalEvent, ScheduleVtxoDelegationSet,
               AdvanceSpendingDelegation, Settle, SpendElsewhere, EndBatch, BuryConflict, Tick,
               ledgerVars, vars
      <3> QED
        BY <1>3, <3>1, <3>2, <3>3, <3>4, Zenon DEF SettlementOrder
    <2>2. ~Settle(o)
      BY <2>0, <2>1, Zenon DEF Settle, Excluded
    <2>3. settled'[o] = settled[o]
      BY <2>0, <2>2, NextActions, VtxoSwap, Zenon
         DEF ReserveVtxoOperation, CommitSignedVtxoOperation, ReserveSpendingRenewal,
             AppendSpendingRenewalEvent, ScheduleVtxoDelegationSet, AdvanceSpendingDelegation,
             Settle, SpendElsewhere, EndBatch, BuryConflict, Tick, worldVars, vars, TypeOK
    <2> QED
      BY <2>0, <2>1, <2>3, SpentStaysSpent, Zenon
  <1> QED
    BY <1>1, <1>2, <1>3, Zenon DEF SettlementOrder
-----------------------------------------------------------------------------
(***************************************************************************)
(* The fence.                                                              *)
(***************************************************************************)

(* Active, by the kind of the lifecycle.                                   *)
LEMMA ActiveKinds ==
    /\ \A o \in VtxoOps :
          /\ Active(o) <=> vtxoStateBlocksNewOperation(vtxo[o].state)
          /\ Active(o)' <=> vtxoStateBlocksNewOperation(vtxo'[o].state)
    /\ \A p \in Renewals :
          /\ Active(p) <=> renewal[p].stored /\ ~renewalTerminal(p)
          /\ Active(p)' <=> renewal'[p].stored /\ ~renewalTerminal(p)'
    /\ \A d \in Delegations :
          /\ Active(d) <=> delegation[d].events # {} /\ ~delegationTerminal(d)
          /\ Active(d)' <=> delegation'[d].events # {} /\ ~delegationTerminal(d)'
  BY LifecycleAssumption, Zenon DEF Active, vtxoStateBlocksNewOperation

(* A lifecycle takes its vault only when no other lifecycle of the vault   *)
(* is left active by the same step.                                        *)
LEMMA ActiveStep ==
    ASSUME TypeOK, [Next]_vars
    PROVE  \/ \A l \in Lifecycles : Active(l)' => Active(l)
           \/ \E l \in Lifecycles : \A k \in Lifecycles :
                 Active(k)' => k = l \/ (Active(k) /\ VaultOf[k] # VaultOf[l])
  <1> DEFINE Keeps == \A l \in Lifecycles : Active(l)' => Active(l)
             Takes(l) == \A k \in Lifecycles :
                            Active(k)' => k = l \/ (Active(k) /\ VaultOf[k] # VaultOf[l])
  <1>0. VtxoOps \subseteq Lifecycles /\ Renewals \subseteq Lifecycles /\ Delegations \subseteq Lifecycles
    BY Zenon DEF Lifecycles
  <1>1. ASSUME NEW o \in VtxoOps, ReserveVtxoOperation(o) PROVE Takes(o)
    <2>1. ASSUME NEW k \in VtxoOps \ {o}, Active(k)' PROVE Active(k) /\ VaultOf[k] # VaultOf[o]
      <3>1. rejectConcurrentVtxoOperation(VaultOf[o], abortExpiredVtxo(VaultOf[o]))
        BY <1>1, Zenon DEF ReserveVtxoOperation
      <3>2. vtxo'[k] = abortExpiredVtxo(VaultOf[o])[k]
        BY <1>1, ReserveVtxoEffect
      <3>3. vtxo'[k] = vtxo[k] \/ vtxo'[k].state = "aborted"
        BY <1>1, ReserveVtxoEffect, Zenon
      <3> QED
        BY <2>1, <3>1, <3>2, <3>3, ActiveKinds, Zenon
           DEF rejectConcurrentVtxoOperation, vtxoStateBlocksNewOperation
    <2>2. ASSUME NEW k \in Renewals, Active(k)' PROVE Active(k) /\ VaultOf[k] # VaultOf[o]
      BY <1>1, <2>2, ActiveKinds, Zenon
         DEF ReserveVtxoOperation, rejectActiveSpendingRenewal, renewalTerminal
    <2>3. ASSUME NEW k \in Delegations, Active(k)' PROVE Active(k) /\ VaultOf[k] # VaultOf[o]
      <3>1. delegation'[k].events # {} /\ ~delegationTerminal(k)'
        BY <2>3, ActiveKinds, Zenon
      <3>2. delegation'[k].events # {"invalidated"}
        BY <3>1, Zenon DEF delegationTerminal
      <3>3. delegation'[k] = delegation[k]
        BY <1>1, <3>2, ReserveVtxoEffect, Zenon
      <3>4. delegation[k].events # {} /\ ~delegationTerminal(k)
        BY <3>1, <3>3, Zenon DEF delegationTerminal
      <3>5. rejectDispatchedDelegation(VaultOf[o])
        BY <1>1, Zenon DEF ReserveVtxoOperation
      <3> QED
        BY <3>4, <3>5, ActiveKinds, Zenon DEF rejectDispatchedDelegation
    <2> QED
      BY <2>1, <2>2, <2>3, Zenon DEF Lifecycles
  <1>2. ASSUME NEW p \in Renewals, ReserveSpendingRenewal(p) PROVE Takes(p)
    <2>1. ASSUME NEW k \in VtxoOps, Active(k)' PROVE Active(k) /\ VaultOf[k] # VaultOf[p]
      BY <1>2, <2>1, ActiveKinds, Zenon DEF ReserveSpendingRenewal, rejectConcurrentVtxoOperation
    <2>2. ASSUME NEW k \in Renewals \ {p}, Active(k)' PROVE Active(k) /\ VaultOf[k] # VaultOf[p]
      <3>1. renewal'[k] = renewal[k]
        BY <1>2, ReserveRenewalEffect, Zenon
      <3> QED
        BY <1>2, <2>2, <3>1, ActiveKinds, Zenon
           DEF ReserveSpendingRenewal, rejectActiveSpendingRenewal, renewalTerminal
    <2>3. ASSUME NEW k \in Delegations, Active(k)' PROVE Active(k) /\ VaultOf[k] # VaultOf[p]
      BY <1>2, <2>3, ActiveKinds, Zenon
         DEF ReserveSpendingRenewal, rejectDispatchedDelegation, delegationTerminal
    <2> QED
      BY <2>1, <2>2, <2>3, Zenon DEF Lifecycles
  <1>3. ASSUME NEW d \in Delegations, NEW e \in DelegationPhases, AdvanceSpendingDelegation(d, e)
        PROVE  Keeps \/ Takes(d)
    <2>1. /\ UNCHANGED <<vtxo, renewal>>
          /\ \A k \in Delegations \ {d} : delegation'[k] = delegation[k]
          /\ delegation'[d].events = delegation[d].events \cup {e}
      BY <1>3, AdvanceDelegationEffect, Zenon DEF AdvanceSpendingDelegation
    <2>2. \A k \in Lifecycles \ {d} : Active(k)' => Active(k)
      BY <2>1, ActiveKinds, Zenon DEF Lifecycles, renewalTerminal, delegationTerminal
    <2>3. CASE e = "claimed"
      <3>1. ClaimAdmitted(d)
        BY <1>3, <2>3, Zenon DEF AdvanceSpendingDelegation, DelegationAccepts, predecessors
      <3>2. \A k \in Lifecycles : Active(k) => VaultOf[k] # VaultOf[d]
        BY <3>1, ActiveKinds, Zenon
           DEF Lifecycles, ClaimAdmitted, rejectDispatchedDelegation,
               rejectConcurrentVtxoOperation, rejectActiveSpendingRenewal
      <3> QED
        BY <2>2, <3>2, Zenon
    <2>4. CASE e # "claimed"
      <3>1. delegationTerminal(d)' \/ delegation[d].events # {}
        BY <1>3, <2>1, <2>4, Zenon
           DEF AdvanceSpendingDelegation, DelegationAccepts, DelegationEvidence, predecessors,
               delegationTerminal
      <3>2. Active(d)' => Active(d)
        BY <2>1, <3>1, ActiveKinds, Zenon DEF delegationTerminal
      <3> QED
        BY <2>2, <3>2, Zenon
    <2> QED
      BY <2>3, <2>4, Zenon
  <1>4. ASSUME NEW v \in Vaults, NEW ds \in SUBSET Delegations, ScheduleVtxoDelegationSet(v, ds)
        PROVE  Keeps
    <2>1. \A k \in Delegations : delegation'[k].events = delegation[k].events
      BY <1>4, ScheduleEffect, Zenon
    <2>2. UNCHANGED <<vtxo, renewal>>
      BY <1>4, Zenon DEF ScheduleVtxoDelegationSet
    <2> QED
      BY <2>1, <2>2, ActiveKinds, Zenon DEF Lifecycles, renewalTerminal, delegationTerminal
  <1>5. ASSUME NEW p \in Renewals, NEW e \in RenewalPhases, AppendSpendingRenewalEvent(p, e)
        PROVE  Keeps
    <2>1. UNCHANGED <<vtxo, delegation>>
      BY <1>5, Zenon DEF AppendSpendingRenewalEvent
    <2> QED
      <3>1. \A q \in Renewals : /\ renewal'[q].stored = renewal[q].stored
                               /\ renewal[q].events \subseteq renewal'[q].events
        BY <1>5, AppendRenewalEffect, Zenon
      <3>2. \A q \in Renewals : Active(q)' => Active(q)
        BY <3>1, ActiveKinds, Zenon DEF renewalTerminal
      <3>3. \A k \in VtxoOps \cup Delegations : Active(k)' => Active(k)
        BY <2>1, ActiveKinds, Zenon DEF delegationTerminal
      <3> QED
        BY <3>2, <3>3, Zenon DEF Lifecycles
  <1>6. ASSUME NEW o \in VtxoOps, NEW n \in 0..MaxSignCount, CommitSignedVtxoOperation(o, n)
        PROVE  Keeps
    <2>1. vtxo[o].state = "reserved" /\ UNCHANGED <<renewal, delegation>>
      BY <1>6, Zenon DEF CommitSignedVtxoOperation
    <2>2. n \in Nat
      BY AmountAssumption
    <2> QED
      BY <1>6, <2>1, <2>2, CommitSignedEffect, ActiveKinds, Zenon
         DEF Lifecycles, renewalTerminal, delegationTerminal, vtxoStateBlocksNewOperation
  <1>7. ASSUME NEW o \in VtxoOps,
               AbortVtxo(o) \/ SubmitVtxo(o) \/ FinalizeVtxo(o) \/ UnresolveVtxo(o)
        PROVE  Keeps
    BY <1>7, VtxoSwap, ActiveKinds, Zenon
       DEF Lifecycles, renewalTerminal, delegationTerminal, vtxoStateBlocksNewOperation
  <1>8. ASSUME UNCHANGED <<vtxo, renewal, delegation>> PROVE Keeps
    BY <1>8, ActiveKinds, Zenon DEF Lifecycles, renewalTerminal, delegationTerminal
  <1>9. \/ \E o \in VtxoOps : ReserveVtxoOperation(o)
        \/ \E o \in VtxoOps, n \in 0..MaxSignCount : CommitSignedVtxoOperation(o, n)
        \/ \E o \in VtxoOps : AbortVtxo(o) \/ SubmitVtxo(o) \/ FinalizeVtxo(o) \/ UnresolveVtxo(o)
        \/ \E p \in Renewals : ReserveSpendingRenewal(p)
        \/ \E p \in Renewals, e \in RenewalPhases : AppendSpendingRenewalEvent(p, e)
        \/ \E v \in Vaults, ds \in SUBSET Delegations : ScheduleVtxoDelegationSet(v, ds)
        \/ \E d \in Delegations, e \in DelegationPhases : AdvanceSpendingDelegation(d, e)
        \/ UNCHANGED <<vtxo, renewal, delegation>>
    BY NextActions, Zenon
       DEF Settle, SpendElsewhere, EndBatch, BuryConflict, Tick, ledgerVars, vars
  <1> HIDE DEF Keeps, Takes
  <1>10. Keeps \/ \E l \in Lifecycles : Takes(l)
    BY <1>0, <1>1, <1>2, <1>3, <1>4, <1>5, <1>6, <1>7, <1>8, <1>9, Zenon
  <1> QED
    BY <1>10, Zenon DEF Keeps, Takes

(* So at most one lifecycle of a vault stays active.                       *)
LEMMA OneActiveStep ==
    ASSUME TypeOK, OneActiveLifecycle, [Next]_vars
    PROVE  OneActiveLifecycle'
  <1>1. CASE \A l \in Lifecycles : Active(l)' => Active(l)
    BY <1>1, Zenon DEF OneActiveLifecycle
  <1>2. CASE \E l \in Lifecycles : \A k \in Lifecycles :
                Active(k)' => k = l \/ (Active(k) /\ VaultOf[k] # VaultOf[l])
    BY <1>2, Zenon DEF OneActiveLifecycle
  <1> QED
    BY <1>1, <1>2, ActiveStep, Zenon

(* Every step keeps the whole invariant.                                   *)
LEMMA SpendingInvStep ==
    ASSUME SpendingInv, [Next]_vars
    PROVE  SpendingInv'
  BY TypeStep, RenewalOrderStep, DelegationOrderStep, SettlementOrderStep, OneActiveStep, Zenon
     DEF SpendingInv

(* The empty ledger satisfies the invariant.                               *)
LEMMA SpendingInit ==
    ASSUME Init
    PROVE  SpendingInv
  <1>1. TypeOK
    BY SMTT(30) DEF Init, TypeOK, Time, Never, VtxoRow, VtxoStates, RenewalRow, DelegationRow
  <1>2. RenewalOrder
    BY SMTT(30) DEF Init, RenewalOrder
  <1>3. DelegationOrder
    BY LifecycleAssumption, Zenon DEF Init, DelegationOrder, GivenUp
  <1>4. SettlementOrder
    BY Zenon DEF Init, SettlementOrder
  <1>5. OneActiveLifecycle
    BY Zenon DEF Init, OneActiveLifecycle, Active, vtxoStateBlocksNewOperation
  <1> QED
    BY <1>1, <1>2, <1>3, <1>4, <1>5, Zenon DEF SpendingInv

(* The invariant of the ledger: it holds initially and every step keeps it. *)
THEOREM SpendingInvariant == Spec => []SpendingInv
  <1>1. Init => SpendingInv
    BY SpendingInit, Zenon
  <1>2. SpendingInv /\ [Next]_vars => SpendingInv'
    BY SpendingInvStep, Zenon
  <1> QED
    BY <1>1, <1>2, PTL DEF Spec

(* Type correctness of every reachable ledger.                             *)
THEOREM TypeCorrect == Spec => []TypeOK
  BY SpendingInvariant, PTL DEF SpendingInv

(* A vault is never held by two lifecycles, whatever their kinds.          *)
THEOREM Fenced == Spec => []OneActiveLifecycle
  BY SpendingInvariant, PTL DEF SpendingInv

(* The journals of what was given up exclude its execution.                *)
LEMMA GivenUpUnsettled ==
    ASSUME SpendingInv
    PROVE  GivenUpNeverSettles
  <1> SUFFICES ASSUME NEW l \in Lifecycles, GivenUp(l)
               PROVE  settled[l] = Never
    BY Zenon DEF GivenUpNeverSettles
  <1>0. TypeOK /\ RenewalOrder /\ DelegationOrder /\ SettlementOrder
    BY Zenon DEF SpendingInv
  <1>1. CASE l \in VtxoOps
    BY <1>0, <1>1, LifecycleAssumption, Zenon DEF GivenUp, SettlementOrder, Committed
  <1>2. CASE l \in Renewals
    <2>1. CASE "final_dispatched" \in renewal[l].events
      <3>1. "released" \in renewal[l].events
        BY <1>0, <1>2, <2>1, LifecycleAssumption, Zenon DEF GivenUp, RenewalOrder
      <3>2. \/ l \in conflicted
            \/ endedAt[l] # Never /\ renewal[l].dispatchedAt > endedAt[l]
        BY <1>0, <1>2, <2>1, <3>1, Zenon DEF RenewalOrder
      <3>3. renewal[l].dispatchedAt \in Int /\ endedAt[l] \in Int
        BY <1>0, <1>2 DEF TypeOK, RenewalRow, Time, Never
      <3> QED
        BY <1>0, <1>2, <3>2, <3>3 DEF SettlementOrder
    <2>2. CASE "final_dispatched" \notin renewal[l].events
      BY <1>0, <1>2, <2>2, LifecycleAssumption, Zenon DEF SettlementOrder, Committed
    <2> QED
      BY <2>1, <2>2, Zenon
  <1>3. CASE l \in Delegations
    BY <1>0, <1>3, LifecycleAssumption, Zenon DEF DelegationOrder, SettlementOrder, Committed
  <1> QED
    BY <1>1, <1>2, <1>3, Zenon DEF Lifecycles

(* A lifecycle the ledger gave up is never executed.                       *)
THEOREM GivenUpSafe == Spec => []GivenUpNeverSettles
  BY GivenUpUnsettled, SpendingInvariant, PTL
-----------------------------------------------------------------------------
(***************************************************************************)
(* Coins.                                                                  *)
(***************************************************************************)

(* Only a reservation makes a payment lock its coins.                      *)
LEMMA LocksStep ==
    ASSUME TypeOK, [Next]_vars, NEW q \in VtxoOps,
           ~vtxoStateLocksInputs(vtxo[q].state), vtxoStateLocksInputs(vtxo'[q].state)
    PROVE  ReserveVtxoOperation(q)
  <1>1. ASSUME NEW o \in VtxoOps, ReserveVtxoOperation(o) PROVE o = q
    BY <1>1, ReserveVtxoEffect, Zenon DEF vtxoStateLocksInputs
  <1>2. ASSUME NEW o \in VtxoOps, NEW n \in 0..MaxSignCount, CommitSignedVtxoOperation(o, n)
        PROVE  FALSE
    <2>1. n \in Nat /\ vtxo[o].state = "reserved"
      BY <1>2, AmountAssumption DEF CommitSignedVtxoOperation
    <2> QED
      BY <1>2, <2>1, CommitSignedEffect, Zenon DEF vtxoStateLocksInputs
  <1>3. ASSUME NEW o \in VtxoOps,
               AbortVtxo(o) \/ SubmitVtxo(o) \/ FinalizeVtxo(o) \/ UnresolveVtxo(o)
        PROVE  FALSE
    BY <1>3, VtxoSwap, Zenon DEF vtxoStateLocksInputs
  <1>4. \/ \E o \in VtxoOps : ReserveVtxoOperation(o)
        \/ \E o \in VtxoOps, n \in 0..MaxSignCount : CommitSignedVtxoOperation(o, n)
        \/ \E o \in VtxoOps : AbortVtxo(o) \/ SubmitVtxo(o) \/ FinalizeVtxo(o) \/ UnresolveVtxo(o)
        \/ UNCHANGED vtxo
    BY NextActions, Zenon
       DEF ReserveSpendingRenewal, AppendSpendingRenewalEvent, ScheduleVtxoDelegationSet,
           AdvanceSpendingDelegation, Settle, SpendElsewhere, EndBatch, BuryConflict, Tick,
           ledgerVars, vars
  <1> QED
    BY <1>1, <1>2, <1>3, <1>4, Zenon

(* rejectOverlappingVtxoInputs keeps every coin locked by one payment, over *)
(* all vaults and completed payments included.                             *)
THEOREM CoinsLockedOnce == Spec => []CoinLockedOnce
  <1>1. Init => CoinLockedOnce
    <2>1. ASSUME Init, NEW o \in VtxoOps PROVE ~vtxoStateLocksInputs(vtxo[o].state)
      BY <2>1, Zenon DEF Init, vtxoStateLocksInputs
    <2> QED
      BY <2>1, Zenon DEF CoinLockedOnce
  <1>2. TypeOK /\ CoinLockedOnce /\ [Next]_vars => CoinLockedOnce'
    <2> SUFFICES ASSUME TypeOK, CoinLockedOnce, [Next]_vars, NEW o \in VtxoOps, NEW q \in VtxoOps,
                        vtxoStateLocksInputs(vtxo'[o].state), vtxoStateLocksInputs(vtxo'[q].state),
                        Inputs[o] \cap Inputs[q] # {}
                 PROVE  o = q
      BY Zenon DEF CoinLockedOnce
    <2>1. ASSUME NEW r \in VtxoOps, NEW s \in VtxoOps \ {r}, ReserveVtxoOperation(r),
                 vtxoStateLocksInputs(vtxo'[s].state)
          PROVE  Inputs[s] \cap Inputs[r] = {}
      <3>1. vtxo'[s] = abortExpiredVtxo(VaultOf[r])[s]
        <4>1. \A x \in VtxoOps \ {r} : vtxo'[x] = abortExpiredVtxo(VaultOf[r])[x]
          BY <2>1, ReserveVtxoEffect, Zenon
        <4> QED
          BY <4>1, Zenon
      <3>2. rejectOverlappingVtxoInputs(r, abortExpiredVtxo(VaultOf[r]))
        BY <2>1, Zenon DEF ReserveVtxoOperation
      <3> QED
        BY <2>1, <3>1, <3>2, Zenon DEF rejectOverlappingVtxoInputs
    <2>2. CASE vtxoStateLocksInputs(vtxo[o].state) /\ vtxoStateLocksInputs(vtxo[q].state)
      BY <2>2, Zenon DEF CoinLockedOnce
    <2>3. CASE ~vtxoStateLocksInputs(vtxo[o].state)
      BY <2>1, <2>3, LocksStep, Zenon
    <2>4. CASE ~vtxoStateLocksInputs(vtxo[q].state)
      BY <2>1, <2>4, LocksStep, Zenon
    <2> QED
      BY <2>2, <2>3, <2>4, Zenon
  <1> QED
    BY <1>1, <1>2, TypeCorrect, PTL DEF Spec

(* Whichever comes first, an armed renewal and an unfinished Ark payment of *)
(* one vault never share a coin: scheduling refuses the overlap and a      *)
(* reservation invalidates it.                                             *)
THEOREM ArmedClear == Spec => []ArmedClearOfVtxoPayments
  <1>1. Init => ArmedClearOfVtxoPayments
    <2>1. ASSUME Init, NEW o \in VtxoOps PROVE ~vtxoStateBlocksNewOperation(vtxo[o].state)
      BY <2>1, Zenon DEF Init, vtxoStateBlocksNewOperation
    <2> QED
      BY <2>1, Zenon DEF ArmedClearOfVtxoPayments
  <1>2. TypeOK /\ ArmedClearOfVtxoPayments /\ [Next]_vars => ArmedClearOfVtxoPayments'
    <2> SUFFICES ASSUME TypeOK, ArmedClearOfVtxoPayments, [Next]_vars,
                        NEW d \in Delegations, NEW o \in VtxoOps, Armed(d)',
                        VaultOf[o] = VaultOf[d], vtxoStateBlocksNewOperation(vtxo'[o].state)
                 PROVE  Inputs[o] \cap Inputs[d] = {}
      BY Zenon DEF ArmedClearOfVtxoPayments
    <2>1. CASE ReserveVtxoOperation(o)
      <3>1. delegation'[d] = delegation[d] /\ Armed(d)
        BY <2>1, ReserveVtxoEffect DEF Armed
      <3>2. delegation' = invalidateArmedDelegations(o)
        BY <2>1, Zenon DEF ReserveVtxoOperation
      <3>3. ASSUME Inputs[o] \cap Inputs[d] # {} PROVE FALSE
        <4>1. delegation'[d] = [delegation[d] EXCEPT !.events = {"invalidated"}]
          BY <3>1, <3>2, <3>3, Zenon DEF invalidateArmedDelegations
        <4>2. delegation[d] \in DelegationRow
          BY Zenon DEF TypeOK
        <4> QED
          BY <3>1, <4>1, <4>2, Zenon DEF Armed, DelegationRow
      <3> QED
        BY <3>3, Zenon
    <2>2. CASE /\ vtxoStateBlocksNewOperation(vtxo[o].state)
               /\ \E v \in Vaults, ds \in SUBSET Delegations :
                     ScheduleVtxoDelegationSet(v, ds) /\ d \in ds
      <3>1. rejectDelegationPaymentOverlap(d)
        BY <2>2, Zenon DEF ScheduleVtxoDelegationSet
      <3> QED
        BY <2>2, <3>1, Zenon DEF rejectDelegationPaymentOverlap
    <2>3. ReserveVtxoOperation(o) \/ vtxoStateBlocksNewOperation(vtxo[o].state)
      <3>1. ASSUME NEW r \in VtxoOps, ReserveVtxoOperation(r), r # o
            PROVE  vtxoStateBlocksNewOperation(vtxo[o].state)
        BY <3>1, ReserveVtxoEffect, Zenon DEF vtxoStateBlocksNewOperation
      <3>2. ASSUME NEW r \in VtxoOps, NEW n \in 0..MaxSignCount, CommitSignedVtxoOperation(r, n)
            PROVE  vtxoStateBlocksNewOperation(vtxo[o].state)
        <4>1. n \in Nat /\ vtxo[r].state = "reserved"
          BY <3>2, AmountAssumption DEF CommitSignedVtxoOperation
        <4> QED
          BY <3>2, <4>1, CommitSignedEffect, Zenon DEF vtxoStateBlocksNewOperation
      <3>3. ASSUME NEW r \in VtxoOps,
                   AbortVtxo(r) \/ SubmitVtxo(r) \/ FinalizeVtxo(r) \/ UnresolveVtxo(r)
            PROVE  vtxoStateBlocksNewOperation(vtxo[o].state)
        BY <3>3, VtxoSwap, Zenon DEF vtxoStateBlocksNewOperation
      <3>4. \/ \E r \in VtxoOps : ReserveVtxoOperation(r)
            \/ \E r \in VtxoOps, n \in 0..MaxSignCount : CommitSignedVtxoOperation(r, n)
            \/ \E r \in VtxoOps : AbortVtxo(r) \/ SubmitVtxo(r) \/ FinalizeVtxo(r) \/ UnresolveVtxo(r)
            \/ UNCHANGED vtxo
        BY NextActions, Zenon
           DEF ReserveSpendingRenewal, AppendSpendingRenewalEvent, ScheduleVtxoDelegationSet,
               AdvanceSpendingDelegation, Settle, SpendElsewhere, EndBatch, BuryConflict, Tick,
               ledgerVars, vars
      <3> QED
        BY <3>1, <3>2, <3>3, <3>4, Zenon
    <2>4. \/ Armed(d)
          \/ \E v \in Vaults, ds \in SUBSET Delegations :
                ScheduleVtxoDelegationSet(v, ds) /\ d \in ds
      <3>1. ASSUME NEW r \in VtxoOps, ReserveVtxoOperation(r) PROVE Armed(d)
        BY <3>1, ReserveVtxoEffect, Zenon DEF Armed
      <3>2. ASSUME NEW v \in Vaults, NEW ds \in SUBSET Delegations,
                   ScheduleVtxoDelegationSet(v, ds), d \notin ds
            PROVE  Armed(d)
        BY <3>2, ScheduleEffect, Zenon DEF Armed
      <3>3. ASSUME NEW f \in Delegations, NEW e \in DelegationPhases, AdvanceSpendingDelegation(f, e)
            PROVE  Armed(d)
        BY <3>3, AdvanceDelegationEffect, Zenon DEF Armed
      <3>4. \/ \E r \in VtxoOps : ReserveVtxoOperation(r)
            \/ \E v \in Vaults, ds \in SUBSET Delegations : ScheduleVtxoDelegationSet(v, ds)
            \/ \E f \in Delegations, e \in DelegationPhases : AdvanceSpendingDelegation(f, e)
            \/ UNCHANGED delegation
        BY NextActions, VtxoSwap, Zenon
           DEF CommitSignedVtxoOperation, ReserveSpendingRenewal, AppendSpendingRenewalEvent,
               Settle, SpendElsewhere, EndBatch, BuryConflict, Tick, ledgerVars, vars
      <3> QED
        BY <3>1, <3>2, <3>3, <3>4, Zenon DEF Armed
    <2> QED
      BY <2>1, <2>2, <2>3, <2>4, Zenon DEF ArmedClearOfVtxoPayments
  <1> QED
    BY <1>1, <1>2, TypeCorrect, PTL DEF Spec
-----------------------------------------------------------------------------
(***************************************************************************)
(* Lowering the fence.                                                     *)
(***************************************************************************)

(* A journal leaves the fence by one of its terminal phases; after the     *)
(* forfeit was dispatched only a confirmation or a proof of exclusion is   *)
(* accepted.                                                               *)
LEMMA LoweredStep ==
    ASSUME SpendingInv, [Next]_vars, NEW l \in Lifecycles,
           Active(l), Committed(l), ~Active(l)'
    PROVE  settled[l] # Never \/ Excluded(l)
  <1>0. TypeOK /\ RenewalOrder /\ DelegationOrder
    BY Zenon DEF SpendingInv
  <1>1. CASE l \in VtxoOps
    <2>1. vtxo[l].state \in {"signed", "submitted", "unresolved"}
      BY <1>1, LifecycleAssumption, Zenon DEF Active, Committed, vtxoStateBlocksNewOperation
    <2>2. ~vtxoStateBlocksNewOperation(vtxo'[l].state)
      BY <1>1, ActiveKinds, Zenon
    <2>3. ASSUME NEW o \in VtxoOps, ReserveVtxoOperation(o) PROVE FALSE
      BY <1>0, <1>1, <2>1, <2>2, <2>3, ReserveVtxoEffect, Zenon
         DEF vtxoStateBlocksNewOperation, ReserveVtxoOperation
    <2>4. ASSUME NEW o \in VtxoOps, NEW n \in 0..MaxSignCount, CommitSignedVtxoOperation(o, n)
          PROVE  FALSE
      <3>1. n \in Nat
        BY AmountAssumption
      <3> QED
        BY <1>0, <1>1, <2>1, <2>2, <2>4, <3>1, CommitSignedEffect, Zenon
           DEF vtxoStateBlocksNewOperation
    <2>5. ASSUME NEW o \in VtxoOps,
                 AbortVtxo(o) \/ SubmitVtxo(o) \/ FinalizeVtxo(o) \/ UnresolveVtxo(o)
          PROVE  settled[l] # Never
      BY <1>0, <1>1, <2>1, <2>2, <2>5, VtxoSwap, Zenon DEF vtxoStateBlocksNewOperation
    <2>6. \/ \E o \in VtxoOps : ReserveVtxoOperation(o)
          \/ \E o \in VtxoOps, n \in 0..MaxSignCount : CommitSignedVtxoOperation(o, n)
          \/ \E o \in VtxoOps : AbortVtxo(o) \/ SubmitVtxo(o) \/ FinalizeVtxo(o) \/ UnresolveVtxo(o)
          \/ UNCHANGED vtxo
      BY NextActions, Zenon
         DEF ReserveSpendingRenewal, AppendSpendingRenewalEvent, ScheduleVtxoDelegationSet,
             AdvanceSpendingDelegation, Settle, SpendElsewhere, EndBatch, BuryConflict, Tick,
             ledgerVars, vars
    <2> QED
      BY <2>1, <2>2, <2>3, <2>4, <2>5, <2>6, Zenon DEF vtxoStateBlocksNewOperation
  <1>2. CASE l \in Renewals
    <2>1. /\ "final_dispatched" \in renewal[l].events
          /\ {"final_authorized", "register_dispatched"} \subseteq renewal[l].events
      BY <1>0, <1>2, LifecycleAssumption, Zenon DEF Committed, RenewalOrder
    <2>2. renewal[l].stored /\ ~renewalTerminal(l)
      BY <1>2, ActiveKinds, Zenon
    <2>3. ~renewal'[l].stored \/ renewalTerminal(l)'
      BY <1>2, ActiveKinds, Zenon
    <2>4. PICK e \in RenewalPhases : AppendSpendingRenewalEvent(l, e)
      <3>1. \/ \E p \in Renewals : ReserveSpendingRenewal(p)
            \/ \E p \in Renewals, e \in RenewalPhases : AppendSpendingRenewalEvent(p, e)
            \/ UNCHANGED renewal
        BY <1>0, NextActions, VtxoSwap, Zenon
           DEF ReserveVtxoOperation, CommitSignedVtxoOperation, ScheduleVtxoDelegationSet,
               AdvanceSpendingDelegation, Settle, SpendElsewhere, EndBatch, BuryConflict, Tick,
               ledgerVars, vars
      <3>2. renewal'[l] # renewal[l]
        BY <2>2, <2>3, Zenon DEF renewalTerminal
      <3>3. ASSUME NEW p \in Renewals, ReserveSpendingRenewal(p) PROVE FALSE
        <4>1. l = p
          BY <1>0, <1>2, <3>2, <3>3, ReserveRenewalEffect, Zenon
        <4> QED
          BY <2>2, <3>3, <4>1, Zenon DEF ReserveSpendingRenewal
      <3> QED
        BY <1>0, <1>2, <3>1, <3>2, <3>3, AppendRenewalEffect, Zenon
    <2>5. e \in {"confirmed", "released", "cancelled", "rejected"}
      <3>1. /\ renewal'[l].stored = renewal[l].stored
            /\ renewal'[l].events = renewal[l].events \cup {e}
        BY <1>0, <1>2, <2>4, AppendRenewalEffect, Zenon
      <3> QED
        BY <2>2, <2>3, <3>1, Zenon DEF renewalTerminal
    <2>6. e = "confirmed" \/ (e = "released" /\ validateBitcoinDispatchedRelease(l))
      BY <2>1, <2>4, <2>5, Zenon DEF AppendSpendingRenewalEvent, validateRenewalTransition
    <2> QED
      BY <1>2, <2>4, <2>6, Zenon
         DEF AppendSpendingRenewalEvent, RenewalEvidence, validateBitcoinDispatchedRelease,
             validateBitcoinConflictRelease, validateBitcoinEndedBatchRelease, Excluded
  <1>3. CASE l \in Delegations
    <2>1. /\ "final_dispatched" \in delegation[l].events
          /\ {"claimed", "register_dispatched", "register_result", "final_authorized"}
                \subseteq delegation[l].events
      BY <1>0, <1>3, LifecycleAssumption, DispatchedChain, Zenon DEF Committed
    <2>2. ~delegationTerminal(l) /\ (delegation'[l].events = {} \/ delegationTerminal(l)')
      BY <1>3, ActiveKinds, Zenon
    <2>3. PICK e \in DelegationPhases : AdvanceSpendingDelegation(l, e)
      <3>1. \/ \E o \in VtxoOps : ReserveVtxoOperation(o)
            \/ \E v \in Vaults, ds \in SUBSET Delegations : ScheduleVtxoDelegationSet(v, ds)
            \/ \E d \in Delegations, e \in DelegationPhases : AdvanceSpendingDelegation(d, e)
            \/ UNCHANGED delegation
        BY <1>0, NextActions, VtxoSwap, Zenon
           DEF CommitSignedVtxoOperation, ReserveSpendingRenewal, AppendSpendingRenewalEvent,
               Settle, SpendElsewhere, EndBatch, BuryConflict, Tick, ledgerVars, vars
      <3>2. ASSUME NEW o \in VtxoOps, ReserveVtxoOperation(o) PROVE FALSE
        BY <1>0, <1>3, <2>1, <2>2, <3>2, ReserveVtxoEffect, Zenon DEF Armed, delegationTerminal
      <3>3. ASSUME NEW v \in Vaults, NEW ds \in SUBSET Delegations, ScheduleVtxoDelegationSet(v, ds)
            PROVE  FALSE
        BY <1>0, <1>3, <2>1, <2>2, <3>3, ScheduleEffect, Zenon DEF delegationTerminal
      <3>4. delegation'[l] # delegation[l]
        BY <2>1, <2>2, Zenon DEF delegationTerminal
      <3> QED
        BY <1>0, <1>3, <3>1, <3>2, <3>3, <3>4, AdvanceDelegationEffect, Zenon
    <2>4. e \in {"confirmed", "invalidated", "cancelled", "expired", "needs_authorization", "rejected"}
      <3>1. delegation'[l].events = delegation[l].events \cup {e}
        BY <1>0, <1>3, <2>3, AdvanceDelegationEffect, Zenon
      <3> QED
        BY <2>1, <2>2, <3>1, Zenon DEF delegationTerminal
    <2>5. e = "confirmed"
      BY <2>1, <2>3, <2>4, Zenon DEF AdvanceSpendingDelegation, DelegationAccepts, predecessors
    <2> QED
      BY <2>3, <2>5, Zenon DEF AdvanceSpendingDelegation, DelegationEvidence
  <1> QED
    BY <1>1, <1>2, <1>3, Zenon DEF Lifecycles

(* Once the Guardian's signature is out, no expiry, retry or lost answer   *)
(* lowers the vault's fence: only execution or its impossibility does.     *)
THEOREM FenceLowered == Spec => FenceLoweredOnlyOnProof
  <1>1. SpendingInv /\ [Next]_vars =>
           [\A l \in Lifecycles :
              Active(l) /\ Committed(l) /\ ~Active(l)' => settled[l] # Never \/ Excluded(l)]_vars
    BY LoweredStep, Zenon
  <1> QED
    BY <1>1, SpendingInvariant, PTL DEF Spec, FenceLoweredOnlyOnProof
-----------------------------------------------------------------------------
(***************************************************************************)
(* The ledger implements SpendingFence: the initial ledger maps to the     *)
(* initial fence, and every step of a journal, the clock or the network    *)
(* maps to one step of the fence or to none.                               *)
(***************************************************************************)

(* Committed and GivenUp, by the kind of the lifecycle.                    *)
LEMMA CommittedKinds ==
    /\ \A o \in VtxoOps :
          /\ Committed(o) <=> vtxo[o].state \in {"signed", "submitted", "finalized", "unresolved"}
          /\ Committed(o)' <=> vtxo'[o].state \in {"signed", "submitted", "finalized", "unresolved"}
    /\ \A p \in Renewals :
          /\ Committed(p) <=> "final_dispatched" \in renewal[p].events
          /\ Committed(p)' <=> "final_dispatched" \in renewal'[p].events
    /\ \A d \in Delegations :
          /\ Committed(d) <=> "final_dispatched" \in delegation[d].events
          /\ Committed(d)' <=> "final_dispatched" \in delegation'[d].events
  BY LifecycleAssumption, Zenon DEF Committed

RenewalGivenUp(ev) == ev \cap {"released", "cancelled", "rejected"} # {}

DelegationGivenUp(ev) ==
    ev \cap {"invalidated", "cancelled", "expired", "needs_authorization", "rejected"} # {}

(* A lifecycle's ways of being given up, one kind at a time.               *)
LEMMA GivenUpKinds ==
    /\ \A o \in VtxoOps :
          /\ GivenUp(o) <=> vtxo[o].state \in {"aborted", "unresolved"}
          /\ GivenUp(o)' <=> vtxo'[o].state \in {"aborted", "unresolved"}
    /\ \A p \in Renewals :
          /\ GivenUp(p) <=> RenewalGivenUp(renewal[p].events)
          /\ GivenUp(p)' <=> RenewalGivenUp(renewal'[p].events)
    /\ \A d \in Delegations :
          /\ GivenUp(d) <=> DelegationGivenUp(delegation[d].events)
          /\ GivenUp(d)' <=> DelegationGivenUp(delegation'[d].events)
  BY LifecycleAssumption, Zenon DEF GivenUp, RenewalGivenUp, DelegationGivenUp

(* What one more event of a Bitcoin payment does to its place.             *)
LEMMA RenewalPlace ==
    ASSUME NEW p \in Renewals, NEW e,
           renewal[p].stored, renewal'[p].stored, ~renewalTerminal(p),
           renewal'[p].events = renewal[p].events \cup {e}
    PROVE  /\ Active(p) /\ ~GivenUp(p)
           /\ Active(p)' <=> e \notin {"confirmed", "released", "cancelled", "rejected"}
           /\ Committed(p)' <=> (Committed(p) \/ e = "final_dispatched")
           /\ GivenUp(p)' <=> e \in {"released", "cancelled", "rejected"}
  <1>1. \A t \in {"confirmed", "released", "cancelled", "rejected"} : t \notin renewal[p].events
    BY Zenon DEF renewalTerminal
  <1>2. renewalTerminal(p)' <=> e \in {"confirmed", "released", "cancelled", "rejected"}
    BY <1>1, Zenon DEF renewalTerminal
  <1>3. ~RenewalGivenUp(renewal[p].events)
    BY <1>1, Zenon DEF RenewalGivenUp
  <1>4. RenewalGivenUp(renewal'[p].events) <=> e \in {"released", "cancelled", "rejected"}
    BY <1>1, Zenon DEF RenewalGivenUp
  <1>5. Active(p) /\ (Active(p)' <=> ~renewalTerminal(p)')
    BY ActiveKinds, Zenon
  <1>6. /\ GivenUp(p) <=> RenewalGivenUp(renewal[p].events)
        /\ GivenUp(p)' <=> RenewalGivenUp(renewal'[p].events)
    BY GivenUpKinds, Zenon
  <1>7. Committed(p)' <=> (Committed(p) \/ e = "final_dispatched")
    BY CommittedKinds, Zenon
  <1> QED
    BY <1>2, <1>3, <1>4, <1>5, <1>6, <1>7, Zenon

(* What one more event of a delegated renewal does to its place.           *)
LEMMA DelegationPlace ==
    ASSUME NEW d \in Delegations, NEW e, ~delegationTerminal(d),
           delegation'[d].events = delegation[d].events \cup {e}
    PROVE  /\ Active(d) <=> delegation[d].events # {}
           /\ ~GivenUp(d)
           /\ Active(d)' <=> ~DelegationGivenUp({e}) /\ e # "confirmed"
           /\ Committed(d)' <=> (Committed(d) \/ e = "final_dispatched")
           /\ GivenUp(d)' <=> DelegationGivenUp({e})
  <1>1. \A t \in {"invalidated", "cancelled", "expired", "needs_authorization", "rejected", "confirmed"} :
           t \notin delegation[d].events
    BY Zenon DEF delegationTerminal
  <1>2. delegationTerminal(d)' <=> DelegationGivenUp({e}) \/ e = "confirmed"
    BY <1>1, Zenon DEF delegationTerminal, DelegationGivenUp
  <1>3. ~DelegationGivenUp(delegation[d].events)
    BY <1>1, Zenon DEF DelegationGivenUp
  <1>4. DelegationGivenUp(delegation'[d].events) <=> DelegationGivenUp({e})
    BY <1>1, Zenon DEF DelegationGivenUp
  <1>5. /\ Active(d) <=> delegation[d].events # {}
        /\ Active(d)' <=> delegation'[d].events # {} /\ ~delegationTerminal(d)'
    BY ActiveKinds, Zenon
  <1>6. /\ GivenUp(d) <=> DelegationGivenUp(delegation[d].events)
        /\ GivenUp(d)' <=> DelegationGivenUp(delegation'[d].events)
    BY GivenUpKinds, Zenon
  <1>7. Committed(d)' <=> (Committed(d) \/ e = "final_dispatched")
    BY CommittedKinds, Zenon
  <1>8. delegation'[d].events # {}
    BY Zenon
  <1> QED
    BY <1>2, <1>3, <1>4, <1>5, <1>6, <1>7, <1>8, Zenon

(* A row that a step leaves alone keeps its place in the fence.            *)
SamePlace(k) ==
    /\ Active(k)' <=> Active(k)
    /\ Committed(k)' <=> Committed(k)
    /\ GivenUp(k)' <=> GivenUp(k)

(* Rows that no step touches keep their places.                            *)
LEMMA SameRows ==
    /\ \A o \in VtxoOps : vtxo'[o] = vtxo[o] => SamePlace(o)
    /\ \A p \in Renewals : renewal'[p] = renewal[p] => SamePlace(p)
    /\ \A d \in Delegations : delegation'[d].events = delegation[d].events => SamePlace(d)
  BY ActiveKinds, CommittedKinds, GivenUpKinds, Zenon
     DEF SamePlace, renewalTerminal, delegationTerminal
-----------------------------------------------------------------------------
(***************************************************************************)
(* Each step of the fence, recognised lifecycle by lifecycle.              *)
(***************************************************************************)

(* Nothing moves.                                                          *)
LEMMA FenceStutter ==
    ASSUME \A k \in Lifecycles : SamePlace(k), UNCHANGED settled
    PROVE  UNCHANGED Fence!fenceVars
  BY Zenon DEF SamePlace, Fence!fenceVars

(* l takes its vault from uncommitted holders.                             *)
LEMMA FenceAcquire ==
    ASSUME NEW l \in Lifecycles, UNCHANGED settled,
           ~Active(l), ~Committed(l), ~GivenUp(l), ~GivenUp(l)',
           \A k \in Lifecycles : Active(k) /\ VaultOf[k] = VaultOf[l] => ~Committed(k) /\ GivenUp(k)',
           \A k \in Lifecycles : Active(k)' <=> k = l \/ (Active(k) /\ VaultOf[k] # VaultOf[l]),
           \A k \in Lifecycles : Committed(k)' <=> Committed(k),
           \A k \in Lifecycles : GivenUp(k) => GivenUp(k)',
           \A k \in Lifecycles : GivenUp(k)' /\ ~GivenUp(k) =>
              \/ Active(k) /\ VaultOf[k] = VaultOf[l]
              \/ ~Active(k) /\ ~Committed(k)
    PROVE  Fence!Acquire(l)
  <1> DEFINE H == {k \in Lifecycles : Active(k)}
             C == {k \in Lifecycles : Committed(k)}
             G == {k \in Lifecycles : GivenUp(k)}
             G2 == {k \in Lifecycles : GivenUp(k)'}
             displaced == {k \in H : VaultOf[k] = VaultOf[l]}
             waiting == {k \in Lifecycles : GivenUp(k)' /\ ~GivenUp(k) /\ ~Active(k)}
  <1>1. l \notin H \cup C \cup G
    BY Zenon
  <1>2. displaced \cap C = {}
    BY Zenon
  <1>3. {k \in Lifecycles : Active(k)'} = (H \ displaced) \cup {l}
    BY Zenon
  <1>4. waiting \in SUBSET (Lifecycles \ (H \cup C \cup {l}))
    BY Zenon
  <1>5. G2 = G \cup displaced \cup waiting
    BY Zenon
  <1>6. {k \in Lifecycles : Committed(k)'} = C
    BY Zenon
  <1> QED
    BY <1>1, <1>2, <1>3, <1>4, <1>5, <1>6, Zenon DEF Fence!Acquire

(* The holder l is committed.                                              *)
LEMMA FenceCommit ==
    ASSUME NEW l \in Lifecycles, UNCHANGED settled,
           Active(l), ~GivenUp(l), Active(l)', Committed(l)', ~GivenUp(l)',
           \A k \in Lifecycles \ {l} : SamePlace(k)
    PROVE  Fence!Commit(l)
  BY Zenon DEF Fence!Commit, SamePlace

(* The network executes l.                                                 *)
LEMMA FenceExecute ==
    ASSUME NEW l \in Lifecycles, Committed(l), ~GivenUp(l), settled'[l] # Never,
           \A k \in Lifecycles \ {l} : settled'[k] = settled[k],
           \A k \in Lifecycles : SamePlace(k)
    PROVE  Fence!Execute(l)
  BY Zenon DEF Fence!Execute, SamePlace

(* The executed holder l leaves.                                           *)
LEMMA FenceComplete ==
    ASSUME NEW l \in Lifecycles, UNCHANGED settled, settled[l] # Never,
           Active(l), ~Active(l)',
           Committed(l)' <=> Committed(l), GivenUp(l)' <=> GivenUp(l),
           \A k \in Lifecycles \ {l} : SamePlace(k)
    PROVE  Fence!Complete(l)
  BY Zenon DEF Fence!Complete, SamePlace

(* l is given up.                                                          *)
LEMMA FenceGiveUp ==
    ASSUME NEW l \in Lifecycles, UNCHANGED settled, settled[l] = Never,
           Active(l)' => Active(l), GivenUp(l)',
           Committed(l)' <=> Committed(l),
           \A k \in Lifecycles \ {l} : SamePlace(k)
    PROVE  Fence!GiveUp(l)
  <1> DEFINE H == {k \in Lifecycles : Active(k)}
             H2 == {k \in Lifecycles : Active(k)'}
  <1>1. H2 = H \/ H2 = H \ {l}
    BY Zenon DEF SamePlace
  <1>2. {k \in Lifecycles : GivenUp(k)'} = {k \in Lifecycles : GivenUp(k)} \cup {l}
    BY Zenon DEF SamePlace
  <1>3. {k \in Lifecycles : Committed(k)'} = {k \in Lifecycles : Committed(k)}
    BY Zenon DEF SamePlace
  <1> QED
    BY <1>1, <1>2, <1>3, Zenon DEF Fence!GiveUp
-----------------------------------------------------------------------------
(***************************************************************************)
(* Each step of the ledger.                                                *)
(***************************************************************************)

(* What is given up after a step was not executed by it.                   *)
LEMMA GivenUpUnsettledNext == SpendingInv' => GivenUpNeverSettles'
  <1>1. SpendingInv => GivenUpNeverSettles
    BY GivenUpUnsettled, Zenon
  <1> QED
    BY <1>1, PTL

(* A reservation acquires the fence; the expired reservations it aborts    *)
(* and the armed renewals it invalidates are given up with it.             *)
LEMMA ReserveVtxoAcquires ==
    ASSUME SpendingInv, [Next]_vars, NEW o \in VtxoOps, ReserveVtxoOperation(o)
    PROVE  Fence!Acquire(o)
  <1>0. TypeOK /\ o \in Lifecycles
    BY Zenon DEF SpendingInv, Lifecycles
  <1>1. /\ vtxo[o].state = "none"
        /\ vtxo'[o].state = "reserved"
        /\ UNCHANGED <<renewal, settled>>
    BY <1>0, ReserveVtxoEffect, Zenon DEF ReserveVtxoOperation, worldVars
  <1>2. ~Active(o) /\ ~Committed(o) /\ ~GivenUp(o) /\ ~GivenUp(o)' /\ Active(o)' /\ ~Committed(o)'
    BY <1>1, ActiveKinds, CommittedKinds, GivenUpKinds, Zenon DEF vtxoStateBlocksNewOperation
  <1>3. ASSUME NEW q \in VtxoOps \ {o}
        PROVE  \/ SamePlace(q) /\ (Active(q) => VaultOf[q] # VaultOf[o])
               \/ /\ VaultOf[q] = VaultOf[o] /\ Active(q) /\ ~Active(q)'
                  /\ ~Committed(q) /\ ~Committed(q)' /\ GivenUp(q)'
    <2>1. CASE vtxo'[q] = vtxo[q]
      <3>1. rejectConcurrentVtxoOperation(VaultOf[o], abortExpiredVtxo(VaultOf[o]))
        BY Zenon DEF ReserveVtxoOperation
      <3>2. abortExpiredVtxo(VaultOf[o])[q] = vtxo[q]
        BY <1>0, <2>1, ReserveVtxoEffect
      <3>3. VaultOf[q] = VaultOf[o] => ~vtxoStateBlocksNewOperation(vtxo[q].state)
        BY <3>1, <3>2, Zenon DEF rejectConcurrentVtxoOperation
      <3> QED
        BY <2>1, <3>3, SameRows, ActiveKinds, Zenon
    <2>2. CASE /\ VaultOf[q] = VaultOf[o]
               /\ vtxo[q].state = "reserved"
               /\ vtxo'[q].state = "aborted"
      BY <2>2, ActiveKinds, CommittedKinds, GivenUpKinds, Zenon DEF vtxoStateBlocksNewOperation
    <2> QED
      BY <1>0, <2>1, <2>2, ReserveVtxoEffect, Zenon
  <1>4. ASSUME NEW p \in Renewals PROVE SamePlace(p) /\ (Active(p) => VaultOf[p] # VaultOf[o])
    <2>1. SamePlace(p)
      BY <1>1, SameRows, Zenon
    <2> QED
      BY <2>1, ActiveKinds, Zenon DEF ReserveVtxoOperation, rejectActiveSpendingRenewal
  <1>5. ASSUME NEW d \in Delegations
        PROVE  /\ Active(d) => VaultOf[d] # VaultOf[o]
               /\ \/ SamePlace(d)
                  \/ ~Active(d) /\ ~Active(d)' /\ ~Committed(d) /\ ~Committed(d)' /\ GivenUp(d)'
    <2>1. Active(d) => VaultOf[d] # VaultOf[o]
      BY ActiveKinds, Zenon DEF ReserveVtxoOperation, rejectDispatchedDelegation
    <2>2. CASE delegation'[d] = delegation[d]
      BY <2>1, <2>2, SameRows, Zenon
    <2>3. CASE delegation[d].events = {} /\ delegation'[d].events = {"invalidated"}
      BY <2>1, <2>3, ActiveKinds, CommittedKinds, GivenUpKinds, Zenon
         DEF delegationTerminal, DelegationGivenUp
    <2> QED
      BY <1>0, <2>1, <2>2, <2>3, ReserveVtxoEffect, Zenon DEF Armed
  <1> DEFINE Kept(k) == SamePlace(k) /\ (Active(k) => VaultOf[k] # VaultOf[o])
             Displaced(k) == /\ VaultOf[k] = VaultOf[o] /\ Active(k) /\ ~Active(k)'
                             /\ ~Committed(k) /\ ~Committed(k)' /\ GivenUp(k)'
             Waiting(k) == /\ ~Active(k) /\ ~Active(k)' /\ ~Committed(k) /\ ~Committed(k)'
                           /\ GivenUp(k)'
  <1>6. \A k \in Lifecycles \ {o} : Kept(k) \/ Displaced(k) \/ Waiting(k)
    BY <1>3, <1>4, <1>5, Zenon DEF Lifecycles
  <1> QED
    BY <1>0, <1>1, <1>2, <1>6, FenceAcquire, Zenon DEF SamePlace

(* A journal that takes a free vault acquires the fence.                   *)
LEMMA FreeVaultAcquires ==
    ASSUME NEW l \in Lifecycles, UNCHANGED settled,
           ~Active(l), ~Committed(l), ~GivenUp(l),
           Active(l)', ~Committed(l)', ~GivenUp(l)',
           \A k \in Lifecycles : Active(k) => VaultOf[k] # VaultOf[l],
           \A k \in Lifecycles \ {l} : SamePlace(k)
    PROVE  Fence!Acquire(l)
  BY FenceAcquire, Zenon DEF SamePlace

(* A vault that passes all three checks of a reservation is free.          *)
LEMMA FreeVault ==
    ASSUME NEW v, rejectActiveSpendingRenewal(v), rejectConcurrentVtxoOperation(v, vtxo),
           rejectDispatchedDelegation(v)
    PROVE  \A k \in Lifecycles : Active(k) => VaultOf[k] # v
  BY ActiveKinds, Zenon
     DEF Lifecycles, rejectActiveSpendingRenewal, rejectConcurrentVtxoOperation,
         rejectDispatchedDelegation

(* Ark payments after their reservation: signing commits, an abort or a    *)
(* conflict gives up, finalization completes.                              *)
LEMMA VtxoFenceStep ==
    ASSUME SpendingInv, [Next]_vars, NEW o \in VtxoOps, VtxoStep(o)
    PROVE  Fence!FenceNext \/ UNCHANGED Fence!fenceVars
  <1>0. TypeOK /\ SettlementOrder /\ o \in Lifecycles
    BY Zenon DEF SpendingInv, Lifecycles
  <1>1. CASE ReserveVtxoOperation(o)
    BY <1>0, <1>1, ReserveVtxoAcquires, Zenon DEF Fence!FenceNext
  <1>2. ASSUME NEW n \in 0..MaxSignCount, CommitSignedVtxoOperation(o, n)
        PROVE  Fence!Commit(o)
    <2>1. n \in Nat
      BY AmountAssumption
    <2>2. /\ vtxo[o].state = "reserved" /\ vtxo'[o].state = "signed"
          /\ \A q \in VtxoOps \ {o} : vtxo'[q] = vtxo[q]
          /\ UNCHANGED <<renewal, delegation, settled>>
      BY <1>0, <1>2, <2>1, CommitSignedEffect, Zenon DEF CommitSignedVtxoOperation, worldVars
    <2>3. \A k \in Lifecycles \ {o} : SamePlace(k)
      BY <2>2, SameRows, Zenon DEF Lifecycles
    <2>4. Active(o) /\ ~GivenUp(o) /\ Active(o)' /\ Committed(o)' /\ ~GivenUp(o)'
      BY <2>2, ActiveKinds, CommittedKinds, GivenUpKinds, Zenon DEF vtxoStateBlocksNewOperation
    <2> QED
      BY <1>0, <2>2, <2>3, <2>4, FenceCommit, Zenon
  <1>3. CASE AbortVtxo(o) \/ SubmitVtxo(o) \/ FinalizeVtxo(o) \/ UnresolveVtxo(o)
    <2>1. /\ \A q \in VtxoOps \ {o} : vtxo'[q] = vtxo[q]
          /\ UNCHANGED <<renewal, delegation, settled>>
      BY <1>0, <1>3, VtxoSwap, Zenon
    <2>2. \A k \in Lifecycles \ {o} : SamePlace(k)
      BY <2>1, SameRows, Zenon DEF Lifecycles
    <2>3. CASE vtxo[o].state = "reserved" /\ vtxo'[o].state = "aborted"
      <3>1. ~Committed(o) /\ ~Committed(o)' /\ ~Active(o)' /\ GivenUp(o)'
        BY <2>3, ActiveKinds, CommittedKinds, GivenUpKinds, Zenon DEF vtxoStateBlocksNewOperation
      <3>2. settled[o] = Never
        BY <1>0, <3>1, Zenon DEF SettlementOrder
      <3> QED
        BY <1>0, <2>1, <2>2, <3>1, <3>2, FenceGiveUp, Zenon DEF Fence!FenceNext
    <2>4. CASE vtxo[o].state = "signed" /\ vtxo'[o].state = "submitted"
      <3>1. SamePlace(o)
        BY <2>4, ActiveKinds, CommittedKinds, GivenUpKinds, Zenon
           DEF SamePlace, vtxoStateBlocksNewOperation
      <3> QED
        BY <2>1, <2>2, <3>1, FenceStutter, Zenon
    <2>5. CASE vtxo[o].state = "submitted" /\ vtxo'[o].state = "finalized" /\ settled[o] # Never
      <3>1. /\ Active(o) /\ ~Active(o)' /\ Committed(o) /\ Committed(o)'
            /\ ~GivenUp(o) /\ ~GivenUp(o)'
        BY <2>5, ActiveKinds, CommittedKinds, GivenUpKinds, Zenon DEF vtxoStateBlocksNewOperation
      <3> QED
        BY <1>0, <2>1, <2>2, <2>5, <3>1, FenceComplete, Zenon DEF Fence!FenceNext
    <2>6. CASE vtxo[o].state = "submitted" /\ vtxo'[o].state = "unresolved" /\ settled[o] = Never
      <3>1. Active(o) /\ Committed(o) /\ Committed(o)' /\ GivenUp(o)'
        BY <2>6, ActiveKinds, CommittedKinds, GivenUpKinds, Zenon DEF vtxoStateBlocksNewOperation
      <3> QED
        BY <1>0, <2>1, <2>2, <2>6, <3>1, FenceGiveUp, Zenon DEF Fence!FenceNext
    <2> QED
      BY <1>0, <1>3, <2>3, <2>4, <2>5, <2>6, VtxoSwap, Zenon
  <1> QED
    BY <1>0, <1>1, <1>2, <1>3, Zenon DEF VtxoStep, Fence!FenceNext

(* Bitcoin payments: a reservation acquires, the dispatch of the forfeit   *)
(* commits, a confirmation completes, the other terminal phases give up.   *)
LEMMA RenewalFenceStep ==
    ASSUME SpendingInv, [Next]_vars, NEW p \in Renewals, RenewalStep(p)
    PROVE  Fence!FenceNext \/ UNCHANGED Fence!fenceVars
  <1>0. TypeOK /\ RenewalOrder /\ p \in Lifecycles
    BY Zenon DEF SpendingInv, Lifecycles
  <1>1. CASE ReserveSpendingRenewal(p)
    <2>1. /\ renewal[p].events = {} /\ renewal'[p].events = {}
          /\ ~renewal[p].stored /\ renewal'[p].stored
          /\ \A q \in Renewals \ {p} : renewal'[q] = renewal[q]
          /\ UNCHANGED <<vtxo, delegation, settled>>
      BY <1>0, <1>1, ReserveRenewalEffect, Zenon DEF ReserveSpendingRenewal, RenewalOrder, worldVars
    <2>2. \A k \in Lifecycles \ {p} : SamePlace(k)
      BY <2>1, SameRows, Zenon DEF Lifecycles
    <2>3. /\ ~Active(p) /\ ~Committed(p) /\ ~GivenUp(p)
          /\ Active(p)' /\ ~Committed(p)' /\ ~GivenUp(p)'
      <3>1. ~Active(p) /\ Active(p)'
        BY <2>1, ActiveKinds, Zenon DEF renewalTerminal
      <3>2. ~Committed(p) /\ ~Committed(p)'
        BY <2>1, CommittedKinds, Zenon
      <3>3. ~GivenUp(p) /\ ~GivenUp(p)'
        BY <2>1, GivenUpKinds, Zenon DEF RenewalGivenUp
      <3> QED
        BY <3>1, <3>2, <3>3, Zenon
    <2>4. \A k \in Lifecycles : Active(k) => VaultOf[k] # VaultOf[p]
      BY <1>1, FreeVault, Zenon DEF ReserveSpendingRenewal
    <2> QED
      BY <1>0, <2>1, <2>2, <2>3, <2>4, FreeVaultAcquires, Zenon DEF Fence!FenceNext
  <1>2. ASSUME NEW e \in RenewalPhases, AppendSpendingRenewalEvent(p, e)
        PROVE  Fence!FenceNext \/ UNCHANGED Fence!fenceVars
    <2>1. /\ renewal[p].stored /\ renewal'[p].stored
          /\ ~renewalTerminal(p)
          /\ renewal'[p].events = renewal[p].events \cup {e}
          /\ \A q \in Renewals \ {p} : renewal'[q] = renewal[q]
          /\ UNCHANGED <<vtxo, delegation, settled>>
      BY <1>0, <1>2, AppendRenewalEffect, Zenon
         DEF AppendSpendingRenewalEvent, validateRenewalTransition, worldVars
    <2>2. \A k \in Lifecycles \ {p} : SamePlace(k)
      BY <2>1, SameRows, Zenon DEF Lifecycles
    <2>3. /\ Active(p) /\ ~GivenUp(p)
          /\ Active(p)' <=> e \notin {"confirmed", "released", "cancelled", "rejected"}
          /\ Committed(p)' <=> (Committed(p) \/ e = "final_dispatched")
          /\ GivenUp(p)' <=> e \in {"released", "cancelled", "rejected"}
      BY <2>1, RenewalPlace, Zenon
    <2>4. CASE e = "final_dispatched"
      <3>1. Active(p)' /\ Committed(p)' /\ ~GivenUp(p)'
        BY <2>3, <2>4, Zenon
      <3> QED
        BY <1>0, <2>1, <2>2, <2>3, <3>1, FenceCommit, Zenon DEF Fence!FenceNext
    <2>5. CASE e = "confirmed"
      <3>1. ~Active(p)' /\ ~GivenUp(p)' /\ (Committed(p)' <=> Committed(p))
        BY <2>3, <2>5, Zenon
      <3>2. settled[p] # Never
        BY <1>2, <2>5, Zenon DEF AppendSpendingRenewalEvent, RenewalEvidence
      <3> QED
        BY <1>0, <2>1, <2>2, <2>3, <3>1, <3>2, FenceComplete, Zenon DEF Fence!FenceNext
    <2>6. CASE e \in {"released", "cancelled", "rejected"}
      <3>1. ~Active(p)' /\ GivenUp(p)' /\ (Committed(p)' <=> Committed(p))
        BY <2>3, <2>6, Zenon
      <3>2. settled[p] = Never
        BY <1>0, <2>1, <3>1, SpendingInvStep, GivenUpUnsettledNext, Zenon DEF GivenUpNeverSettles
      <3> QED
        BY <1>0, <2>1, <2>2, <3>1, <3>2, FenceGiveUp, Zenon DEF Fence!FenceNext
    <2>7. CASE e \notin {"final_dispatched", "confirmed", "released", "cancelled", "rejected"}
      <3>1. SamePlace(p)
        BY <2>3, <2>7, Zenon DEF SamePlace
      <3> QED
        BY <2>1, <2>2, <3>1, FenceStutter, Zenon
    <2> QED
      BY <2>4, <2>5, <2>6, <2>7, Zenon
  <1> QED
    BY <1>1, <1>2, Zenon DEF RenewalStep

(* Delegated renewals: a claim acquires, the dispatch of the forfeit       *)
(* commits, a confirmation completes, the other terminal phases give up.   *)
LEMMA AdvanceFenceStep ==
    ASSUME SpendingInv, [Next]_vars, NEW d \in Delegations, NEW e \in DelegationPhases,
           AdvanceSpendingDelegation(d, e)
    PROVE  Fence!FenceNext \/ UNCHANGED Fence!fenceVars
  <1>0. TypeOK /\ DelegationOrder /\ d \in Lifecycles
    BY Zenon DEF SpendingInv, Lifecycles
  <1>1. /\ ~delegationTerminal(d)
        /\ delegation'[d].events = delegation[d].events \cup {e}
        /\ \A f \in Delegations \ {d} : delegation'[f] = delegation[f]
        /\ UNCHANGED <<vtxo, renewal, settled>>
    BY <1>0, AdvanceDelegationEffect, Zenon
       DEF AdvanceSpendingDelegation, DelegationAccepts, worldVars
  <1>2. \A k \in Lifecycles \ {d} : SamePlace(k)
    BY <1>1, SameRows, Zenon DEF Lifecycles
  <1>3. /\ Active(d) <=> delegation[d].events # {}
        /\ ~GivenUp(d)
        /\ Active(d)' <=> ~DelegationGivenUp({e}) /\ e # "confirmed"
        /\ Committed(d)' <=> (Committed(d) \/ e = "final_dispatched")
        /\ GivenUp(d)' <=> DelegationGivenUp({e})
    BY <1>1, DelegationPlace, Zenon
  <1>4. CASE e = "claimed"
    <2>1. ClaimAdmitted(d)
      BY <1>4, Zenon DEF AdvanceSpendingDelegation, DelegationAccepts, predecessors
    <2>2. delegation[d].events = {} /\ delegation'[d].events = {"claimed"}
      BY <1>1, <1>4, <2>1, Zenon DEF ClaimAdmitted
    <2>3. ~Active(d) /\ ~Committed(d) /\ Active(d)' /\ ~Committed(d)' /\ ~GivenUp(d)'
      BY <1>3, <1>4, <2>2, CommittedKinds, Zenon DEF DelegationGivenUp
    <2>4. \A k \in Lifecycles : Active(k) => VaultOf[k] # VaultOf[d]
      BY <2>1, FreeVault, Zenon DEF ClaimAdmitted
    <2> QED
      BY <1>0, <1>1, <1>2, <1>3, <2>3, <2>4, FreeVaultAcquires, Zenon DEF Fence!FenceNext
  <1>5. CASE e = "final_dispatched"
    <2>1. "final_authorized" \in delegation[d].events
      BY <1>5, Zenon DEF AdvanceSpendingDelegation, DelegationAccepts, predecessors
    <2>2. Active(d) /\ Active(d)' /\ Committed(d)' /\ ~GivenUp(d)'
      BY <1>3, <1>5, <2>1, Zenon DEF DelegationGivenUp
    <2> QED
      BY <1>0, <1>1, <1>2, <1>3, <2>2, FenceCommit, Zenon DEF Fence!FenceNext
  <1>6. CASE e = "confirmed"
    <2>1. "final_authorized" \in delegation[d].events /\ settled[d] # Never
      BY <1>6, Zenon
         DEF AdvanceSpendingDelegation, DelegationAccepts, DelegationEvidence, predecessors
    <2>2. Active(d) /\ ~Active(d)' /\ ~GivenUp(d)' /\ (Committed(d)' <=> Committed(d))
      BY <1>3, <1>6, <2>1, Zenon DEF DelegationGivenUp
    <2> QED
      BY <1>0, <1>1, <1>2, <1>3, <2>1, <2>2, FenceComplete, Zenon DEF Fence!FenceNext
  <1>7. CASE DelegationGivenUp({e})
    <2>1. ~Active(d)' /\ GivenUp(d)' /\ (Committed(d)' <=> Committed(d))
      BY <1>3, <1>7, Zenon DEF DelegationGivenUp
    <2>2. settled[d] = Never
      BY <1>0, <1>1, <2>1, SpendingInvStep, GivenUpUnsettledNext, Zenon DEF GivenUpNeverSettles
    <2> QED
      BY <1>0, <1>1, <1>2, <2>1, <2>2, FenceGiveUp, Zenon DEF Fence!FenceNext
  <1>8. CASE e \notin {"claimed", "final_dispatched", "confirmed"} /\ ~DelegationGivenUp({e})
    <2>1. delegation[d].events # {}
      BY <1>8, Zenon
         DEF AdvanceSpendingDelegation, DelegationAccepts, DelegationEvidence, predecessors,
                  DelegationGivenUp
    <2>2. Active(d) /\ Active(d)'
      BY <1>3, <1>8, <2>1, Zenon
    <2>3. ~GivenUp(d)'
      BY <1>3, <1>8, Zenon
    <2>4. Committed(d)' <=> Committed(d)
      BY <1>3, <1>8, Zenon
    <2>5. SamePlace(d)
      BY <1>3, <2>2, <2>3, <2>4, Zenon DEF SamePlace
    <2> QED
      BY <1>1, <1>2, <2>5, FenceStutter, Zenon
  <1> QED
    BY <1>4, <1>5, <1>6, <1>7, <1>8, Zenon

(* The network's execution of a committed lifecycle.                       *)
LEMMA SettleFenceStep ==
    ASSUME SpendingInv, [Next]_vars, NEW l \in Lifecycles, Settle(l)
    PROVE  Fence!Execute(l)
  <1>1. /\ Committed(l)
        /\ settled'[l] # Never
        /\ \A k \in Lifecycles \ {l} : settled'[k] = settled[k]
        /\ UNCHANGED <<vtxo, renewal, delegation>>
    BY DEF Settle, ledgerVars, SpendingInv, TypeOK, Time, Never
  <1>2. \A k \in Lifecycles : SamePlace(k)
    BY <1>1, SameRows, Zenon DEF Lifecycles
  <1>3. ~GivenUp(l)
    BY <1>1, <1>2, SpendingInvStep, GivenUpUnsettledNext, Zenon DEF GivenUpNeverSettles, SamePlace
  <1> QED
    BY <1>1, <1>2, <1>3, FenceExecute, Zenon

(* The three journals, the clock and the network together implement the    *)
(* abstract fence.                                                         *)
THEOREM LedgerImplementsFence == Spec => ImplementsFence
  <1>1. Init => Fence!FenceInit
    <2> SUFFICES ASSUME Init, NEW l \in Lifecycles
                 PROVE  ~Active(l) /\ ~Committed(l) /\ ~GivenUp(l) /\ settled[l] = Never
      BY Zenon DEF Fence!FenceInit
    <2> QED
      BY Zenon DEF Init, Active, Committed, GivenUp, vtxoStateBlocksNewOperation
  <1>2. SpendingInv /\ [Next]_vars => [Fence!FenceNext]_(Fence!fenceVars)
    <2> SUFFICES ASSUME SpendingInv, [Next]_vars
                 PROVE  Fence!FenceNext \/ UNCHANGED Fence!fenceVars
      BY Zenon
    <2>1. CASE \E o \in VtxoOps : VtxoStep(o)
      BY <2>1, VtxoFenceStep, Zenon
    <2>2. CASE \E p \in Renewals : RenewalStep(p)
      BY <2>2, RenewalFenceStep, Zenon
    <2>3. CASE DelegationStep
      <3>1. ASSUME NEW v \in Vaults, NEW ds \in SUBSET Delegations, ScheduleVtxoDelegationSet(v, ds)
            PROVE  UNCHANGED Fence!fenceVars
        <4>1. /\ \A d \in Delegations : delegation'[d].events = delegation[d].events
              /\ UNCHANGED <<vtxo, renewal, settled>>
          BY <3>1, ScheduleEffect, Zenon DEF ScheduleVtxoDelegationSet, worldVars, SpendingInv
        <4>2. \A k \in Lifecycles : SamePlace(k)
          BY <4>1, SameRows, Zenon DEF Lifecycles
        <4> QED
          BY <4>1, <4>2, FenceStutter, Zenon
      <3> QED
        BY <2>3, <3>1, AdvanceFenceStep, Zenon DEF DelegationStep
    <2>4. CASE \E l \in Lifecycles : Settle(l)
      BY <2>4, SettleFenceStep, Zenon DEF Fence!FenceNext
    <2>5. CASE UNCHANGED <<vtxo, renewal, delegation, settled>>
      <3>1. \A k \in Lifecycles : SamePlace(k)
        BY <2>5, SameRows, Zenon DEF Lifecycles
      <3> QED
        BY <2>5, <3>1, FenceStutter, Zenon
    <2> QED
      BY <2>1, <2>2, <2>3, <2>4, <2>5, Zenon
         DEF Next, SpendElsewhere, EndBatch, BuryConflict, Tick, ledgerVars, worldVars, vars
  <1> QED
    BY <1>1, <1>2, SpendingInvariant, PTL DEF Spec, ImplementsFence, Fence!FenceSpec
=============================================================================
