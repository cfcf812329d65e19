------------------------ MODULE DelegatedRenewalProofs ------------------------
(***************************************************************************)
(* What is proved of DelegatedRenewal, for any number of vaults, renewals, *)
(* batches and tree nodes: the nonces of a renewal sign one challenge, its *)
(* forfeit leaves for one commitment and is then never given up, a renewal *)
(* that was given back is not held by the Operator, and all the parties    *)
(* together implement SpendingLedger.                                      *)
(***************************************************************************)
EXTENDS DelegatedRenewal, TLAPS

-----------------------------------------------------------------------------
(* The calls of the ledger.                                                *)

(* An advance adds one accepted phase to one journal.                      *)
LEMMA AdvanceEffect ==
    ASSUME TypeOK, NEW d \in Delegations, NEW e \in DelegationPhases,
           AdvanceSpendingDelegation(d, e)
    PROVE  /\ TypeOK'
           /\ DelegationAccepts(d, e)
           /\ delegation'[d].events = delegation[d].events \cup {e}
           /\ \A f \in Delegations \ {d} : delegation'[f] = delegation[f]
  <1>1. PICK t \in NowUTC :
           delegation' = [delegation EXCEPT
                ![d] = [stored |-> TRUE,
                        events |-> @.events \cup {e},
                        confirmedAt |-> IF e = "confirmed" THEN t ELSE @.confirmedAt]]
    BY Zenon DEF AdvanceSpendingDelegation
  <1>2. t \in Nat
    BY TimeAssumption DEF NowUTC, TypeOK, Time
  <1> DEFINE row == [stored |-> TRUE, events |-> delegation[d].events \cup {e},
                     confirmedAt |-> IF e = "confirmed" THEN t ELSE delegation[d].confirmedAt]
  <1>3. delegation' = [delegation EXCEPT ![d] = row] /\ delegation \in [Delegations -> DelegationRow]
    BY <1>1, Zenon DEF TypeOK
  <1>4. row \in DelegationRow
    BY <1>2, <1>3, Zenon DEF DelegationRow, Time
  <1>5. delegation' \in [Delegations -> DelegationRow]
    BY <1>3, <1>4, Zenon
  <1>6. TypeOK'
    BY <1>5, Zenon DEF AdvanceSpendingDelegation, TypeOK, worldVars
  <1> QED
    BY <1>3, <1>6, Zenon DEF AdvanceSpendingDelegation

(* Arming a set of renewals leaves every journal empty.                    *)
LEMMA ScheduleEffect ==
    ASSUME TypeOK, NEW v \in Vaults, NEW ds \in SUBSET Delegations \ {{}},
           ScheduleVtxoDelegationSet(v, ds)
    PROVE  /\ TypeOK'
           /\ \A d \in Delegations : delegation'[d].events = delegation[d].events
  <1>1. /\ delegation \in [Delegations -> DelegationRow]
        /\ delegation' = [d \in Delegations |->
             IF d \in ds THEN [delegation[d] EXCEPT !.stored = TRUE] ELSE delegation[d]]
    BY Zenon DEF TypeOK, ScheduleVtxoDelegationSet
  <1>2. \A d \in Delegations : /\ delegation'[d] \in DelegationRow
                               /\ delegation'[d].events = delegation[d].events
    BY <1>1, Zenon DEF DelegationRow
  <1>3. delegation' \in [Delegations -> DelegationRow]
    BY <1>1, <1>2, Zenon
  <1>4. signCount' \in [Vaults -> Nat]
    BY AmountAssumption DEF ScheduleVtxoDelegationSet, advanceSignCount, TypeOK
  <1> QED
    BY <1>2, <1>3, <1>4, Zenon DEF ScheduleVtxoDelegationSet, TypeOK, worldVars
-----------------------------------------------------------------------------
(* What a step may do to the journals, to their evidence and to what the   *)
(* Operator holds, with the attempt that does it taken away.               *)

Quiet == UNCHANGED <<vars, evidence, operatorVars>>

Advances(d, e) ==
    /\ AdvanceSpendingDelegation(d, e)
    /\ e = "cleanup_result" => intent[d].place = "gone"
    /\ e # "batch_started"
    /\ UNCHANGED <<evidence, operatorVars>>

StartsBatch(d, b) ==
    /\ Bound(evidence[d].batch, NoBatch, b)
    /\ advance(d, "batch_started")
    /\ evidence' = [evidence EXCEPT ![d].batch = b]
    /\ UNCHANGED operatorVars

CommitsNonces(d, nonces) ==
    /\ Bound(evidence[d].nonces, {}, nonces)
    /\ advance(d, "nonces_committed")
    /\ evidence' = [evidence EXCEPT ![d].nonces = nonces]
    /\ UNCHANGED operatorVars

Hears(d, e) ==
    /\ validDelegationStreamPhase(d, e)
    /\ Journal(d, e)
    /\ UNCHANGED <<vars, operatorVars>>

Registers(d) ==
    /\ Has(d, "register_dispatched")
    /\ intent[d].place = "none"
    /\ intent' = [intent EXCEPT ![d].place = "queued"]
    /\ UNCHANGED <<vars, evidence, signed, forfeits>>

Deletes(d) ==
    /\ intent[d].place = "queued"
    /\ intent' = [intent EXCEPT ![d].place = "gone"]
    /\ UNCHANGED <<vars, evidence, signed, forfeits>>

Signs(d) ==
    /\ evidence[d].batch \in Batches /\ Complete(evidence[d].nonces)
    /\ signed' = signed \cup {[op |-> d, batch |-> evidence[d].batch,
                               nonces |-> evidence[d].nonces]}
    /\ UNCHANGED <<vars, evidence, intent, forfeits>>

Forfeits(d) ==
    /\ Has(d, "final_dispatched")
    /\ forfeits' = forfeits \cup {[op |-> d, batch |-> evidence[d].batch]}
    /\ UNCHANGED <<vars, evidence, intent, signed>>

(* A vault that is busy is busy with one of the renewals.                  *)
LEMMA BusyVault ==
    ASSUME RenewalInv, NEW v \in Vaults, attempt[v] # Idle
    PROVE  /\ attempt[v] \in Attempts /\ Op(v) \in Delegations
           /\ allNonces(v) \subseteq NonceEvents
  BY DEF RenewalInv, RenewalTypes, Attempts, Op, allNonces, NonceEvents

(* An idle vault is at none of the steps.                                  *)
LEMMA AtStep ==
    ASSUME NEW v \in Vaults, NEW step \in EarlySteps \cup BatchSteps \cup FinalSteps, At(v, step)
    PROVE  attempt[v] # Idle
  BY DEF At, Idle, EarlySteps, BatchSteps, FinalSteps

(* An advance, or the same phase found again.                              *)
LEMMA AdvancesOrStays ==
    ASSUME NEW d \in Delegations, NEW e \in DelegationPhases, advance(d, e),
           e # "batch_started", e = "cleanup_result" => intent[d].place = "gone",
           UNCHANGED <<evidence, operatorVars>>
    PROVE  Quiet \/ Advances(d, e)
  BY Zenon DEF advance, Quiet, Advances

(* The phases that an attempt only journals.                               *)
LEMMA ExecuteAdvances ==
    ASSUME RenewalInv, NEW v \in Vaults,
           \/ Abandon(v) \/ Reconcile(v) \/ FeeChanged(v)
           \/ claimSpendingDelegationAttempt(v) \/ authorizeSpendingDelegation(v)
           \/ DispatchRegister(v) \/ RecordRegister(v)
           \/ prepareSpendingDelegationTree(v) \/ StoreSignatures(v)
           \/ prepareSpendingDelegationFinal(v) \/ dispatchDelegationFinal(v) \/ RecordFinal(v)
           \/ FinishCleanup(v) \/ authorizeSpendingDelegationDelete(v) \/ DispatchDelete(v)
           \/ RecordDelete(v)
    PROVE  Quiet \/ \E e \in DelegationPhases : Advances(Op(v), e)
  <1>1. attempt[v] # Idle
    BY AtStep, Zenon DEF Abandon, Reconcile, FeeChanged, claimSpendingDelegationAttempt,
       authorizeSpendingDelegation, DispatchRegister, RecordRegister,
       prepareSpendingDelegationTree, StoreSignatures, prepareSpendingDelegationFinal,
       dispatchDelegationFinal, RecordFinal, FinishCleanup, authorizeSpendingDelegationDelete,
       DispatchDelete, RecordDelete, Resumes, Unsigned, Subscribed, Cleans,
       EarlySteps, BatchSteps, FinalSteps
  <1>2. Op(v) \in Delegations
    BY <1>1, BusyVault, Zenon
  <1>3. UNCHANGED <<evidence, operatorVars>>
    BY Zenon DEF Abandon, Reconcile, FeeChanged, claimSpendingDelegationAttempt,
       authorizeSpendingDelegation, DispatchRegister, RecordRegister,
       prepareSpendingDelegationTree, StoreSignatures, prepareSpendingDelegationFinal,
       dispatchDelegationFinal, RecordFinal, FinishCleanup, authorizeSpendingDelegationDelete,
       DispatchDelete, RecordDelete
  <1>4. CASE RecordDelete(v)
    <2>1. intent[Op(v)].place = "gone"
      BY <1>1, <1>4, Zenon DEF RecordDelete, RenewalInv, AttemptOrder
    <2> QED
      BY <1>2, <1>3, <1>4, <2>1, AdvancesOrStays, Zenon DEF RecordDelete, DelegationPhases
  <1>5. CASE ~RecordDelete(v)
    <2>1. \E e \in DelegationPhases \ {"batch_started", "cleanup_result"} : advance(Op(v), e)
      BY <1>5, Zenon DEF Abandon, Reconcile, FeeChanged, claimSpendingDelegationAttempt,
         authorizeSpendingDelegation, DispatchRegister, RecordRegister,
         prepareSpendingDelegationTree, StoreSignatures, prepareSpendingDelegationFinal,
         dispatchDelegationFinal, RecordFinal, FinishCleanup,
         authorizeSpendingDelegationDelete, DispatchDelete, DelegationPhases
    <2> QED
      BY <1>2, <1>3, <2>1, AdvancesOrStays, Zenon
  <1> QED
    BY <1>4, <1>5, Zenon

(* Whatever an attempt does is one of the moves.                           *)
LEMMA ExecuteMoves ==
    ASSUME RenewalInv, NEW v \in Vaults, Execute(v)
    PROVE  \/ Quiet
           \/ \E d \in Delegations :
                 \/ \E e \in DelegationPhases : Advances(d, e)
                 \/ \E b \in Batches : StartsBatch(d, b)
                 \/ \E nonces \in SUBSET NonceEvents : CommitsNonces(d, nonces)
                 \/ \E e \in Events : Hears(d, e)
                 \/ Registers(d) \/ Deletes(d) \/ Signs(d) \/ Forfeits(d)
  <1> DEFINE Moves == \/ Quiet
                      \/ \E d \in Delegations :
                            \/ \E e \in DelegationPhases : Advances(d, e)
                            \/ \E b \in Batches : StartsBatch(d, b)
                            \/ \E nonces \in SUBSET NonceEvents : CommitsNonces(d, nonces)
                            \/ \E e \in Events : Hears(d, e)
                            \/ Registers(d) \/ Deletes(d) \/ Signs(d) \/ Forfeits(d)
  <1>1. attempt[v] # Idle
    BY AtStep, Zenon DEF Execute, Abandon, Reconcile, ResumeFinal, FeeChanged,
       claimSpendingDelegationAttempt, authorizeSpendingDelegation, DispatchRegister,
       registerIntent, LoseRegister, RecordRegister, Join, BatchStarted,
       replayDelegationStream, Receive, prepareSpendingDelegationTree, CommitNonces,
       signSpendingDelegationTree, StoreSignatures, prepareSpendingDelegationFinal,
       dispatchDelegationFinal, submitLightForfeit, RecordFinal, FinishCleanup,
       authorizeSpendingDelegationDelete, DispatchDelete, deleteIntent, RecordDelete, Fail,
       Resumes, Unsigned, Subscribed, Cleans, EarlySteps, BatchSteps, FinalSteps
  <1>2. Op(v) \in Delegations /\ AttemptOrder(v) /\ allNonces(v) \in SUBSET NonceEvents
    BY <1>1, BusyVault, Zenon DEF RenewalInv
  <1>3. CASE ResumeFinal(v) \/ LoseRegister(v) \/ Join(v) \/ replayDelegationStream(v) \/ Fail(v)
    BY <1>3, Zenon
       DEF ResumeFinal, LoseRegister, Join, replayDelegationStream, Fail, Quiet, operatorVars
  <1>4. CASE BatchStarted(v)
    BY <1>2, <1>4, Zenon DEF BatchStarted, StartsBatch
  <1>5. CASE CommitNonces(v)
    BY <1>2, <1>5, Zenon DEF CommitNonces, CommitsNonces
  <1>6. CASE Receive(v)
    BY <1>2, <1>6, Zenon DEF Receive, Hears
  <1>7. CASE registerIntent(v)
    BY <1>1, <1>2, <1>7, Zenon DEF registerIntent, Registers, Quiet, operatorVars, AttemptOrder
  <1>8. CASE deleteIntent(v)
    BY <1>2, <1>8, Zenon DEF deleteIntent, Deletes
  <1>9. CASE signSpendingDelegationTree(v)
    <2>1. /\ evidence[Op(v)].nonces = allNonces(v)
          /\ attempt[v].batch = evidence[Op(v)].batch /\ attempt[v].batch # NoBatch
          /\ Complete(allNonces(v))
      BY <1>1, <1>2, <1>9, Zenon
         DEF signSpendingDelegationTree, verifyRenewalTranscript, AttemptOrder,
         At, BatchSteps
    <2>2. attempt[v].batch \in Batches
      BY <1>1, <2>1, BusyVault, Zenon DEF Attempts
    <2>3. Signs(Op(v))
      BY <1>9, <2>1, <2>2, Zenon DEF signSpendingDelegationTree, Signs
    <2> QED
      BY <1>2, <2>3, Zenon
  <1>10. CASE submitLightForfeit(v)
    <2>1. Forfeits(Op(v))
      BY <1>1, <1>2, <1>10, Zenon DEF submitLightForfeit, Forfeits, AttemptOrder
    <2> QED
      BY <1>2, <2>1, Zenon
  <1> QED
    BY <1>2, <1>3, <1>4, <1>5, <1>6, <1>7, <1>8, <1>9, <1>10, ExecuteAdvances, Zenon DEF Execute

(* Every step of the specification is one of the moves, a set of renewals  *)
(* that is armed, or a step of the world outside.                          *)
LEMMA RenewalMoves ==
    ASSUME RenewalInv, [RenewalNext]_renewalVars
    PROVE  \/ Quiet
           \/ \E d \in Delegations :
                 \/ \E e \in DelegationPhases : Advances(d, e)
                 \/ \E b \in Batches : StartsBatch(d, b)
                 \/ \E nonces \in SUBSET NonceEvents : CommitsNonces(d, nonces)
                 \/ \E e \in Events : Hears(d, e)
                 \/ Registers(d) \/ Deletes(d) \/ Signs(d) \/ Forfeits(d)
           \/ scheduleSpendingDelegationSet
           \/ Tick \/ CoinExits \/ OperatorSelects \/ OperatorFailsBatch \/ OperatorSettles
  <1>1. CASE \/ ListSpendingDelegations \/ dispatchDueSpendingDelegationAttempts
             \/ StopSpendingDelegation \/ UNCHANGED renewalVars
    BY <1>1, Zenon DEF ListSpendingDelegations, dispatchDueSpendingDelegationAttempts,
       StopSpendingDelegation, renewalVars, Quiet
  <1>2. CASE cancelSpendingDelegationAttempt
    <2>1. PICK d \in Delegations : AdvanceSpendingDelegation(d, "cancelled")
      BY <1>2, Zenon DEF cancelSpendingDelegationAttempt
    <2>2. Advances(d, "cancelled") /\ "cancelled" \in DelegationPhases
      BY <1>2, <2>1, Zenon DEF cancelSpendingDelegationAttempt, Advances, DelegationPhases
    <2> QED
      BY <2>2, Zenon
  <1>3. ASSUME NEW v \in Vaults, Execute(v)
        PROVE  \/ Quiet
               \/ \E d \in Delegations :
                     \/ \E e \in DelegationPhases : Advances(d, e)
                     \/ \E b \in Batches : StartsBatch(d, b)
                     \/ \E nonces \in SUBSET NonceEvents : CommitsNonces(d, nonces)
                     \/ \E e \in Events : Hears(d, e)
                     \/ Registers(d) \/ Deletes(d) \/ Signs(d) \/ Forfeits(d)
    BY <1>3, ExecuteMoves, Zenon
  <1> QED
    BY <1>1, <1>2, <1>3, Zenon DEF RenewalNext, Environment, Routes
-----------------------------------------------------------------------------
(* The journals.                                                           *)

(* How the journals and their evidence move: only forward.                 *)
LEMMA JournalMoves ==
    ASSUME RenewalInv, [RenewalNext]_renewalVars, NEW d \in Delegations
    PROVE  /\ \/ delegation'[d].events = delegation[d].events
              \/ \E e \in DelegationPhases :
                    /\ DelegationAccepts(d, e)
                    /\ delegation'[d].events = delegation[d].events \cup {e}
                    /\ e = "cleanup_result" => intent[d].place = "gone"
                    /\ e = "batch_started" => evidence'[d].batch # NoBatch
           /\ delegation[d].events \subseteq delegation'[d].events
           /\ evidence[d].batch # NoBatch => evidence'[d].batch = evidence[d].batch
           /\ evidence'[d].stream # evidence[d].stream =>
                 \/ Has(d, "batch_started") \/ Has(d, "tree_prepared") \/ Has(d, "tree_signed")
           /\ intent[d].place = "gone" => intent'[d].place = "gone"
           /\ intent'[d].place # "none" => intent[d].place # "none" \/ Has(d, "register_dispatched")
  <1> DEFINE Appended == \/ delegation'[d].events = delegation[d].events
                         \/ \E e \in DelegationPhases :
                               /\ DelegationAccepts(d, e)
                               /\ delegation'[d].events = delegation[d].events \cup {e}
                               /\ e = "cleanup_result" => intent[d].place = "gone"
                               /\ e = "batch_started" => evidence'[d].batch # NoBatch
             Kept == evidence'[d].batch = evidence[d].batch /\ evidence'[d].stream = evidence[d].stream
             Held == intent'[d].place = intent[d].place
             Forward ==
                /\ Appended
                /\ evidence[d].batch # NoBatch => evidence'[d].batch = evidence[d].batch
                /\ evidence'[d].stream # evidence[d].stream =>
                      \/ Has(d, "batch_started") \/ Has(d, "tree_prepared") \/ Has(d, "tree_signed")
                /\ intent[d].place = "gone" => intent'[d].place = "gone"
                /\ intent'[d].place # "none" =>
                      intent[d].place # "none" \/ Has(d, "register_dispatched")
  <1>0. /\ TypeOK
        /\ evidence \in [Delegations -> [batch : Batches \cup {NoBatch},
                                         nonces : SUBSET NonceEvents, stream : SUBSET Events]]
        /\ intent \in [Delegations -> [place : {"none", "queued", "batch", "gone"},
                                       batch : Batches \cup {NoBatch}]]
    BY Zenon DEF RenewalInv, RenewalTypes
  <1>1. ASSUME NEW g \in Delegations, NEW e \in DelegationPhases, AdvanceSpendingDelegation(g, e),
               e = "cleanup_result" => intent[g].place = "gone",
               e = "batch_started" => evidence'[g].batch # NoBatch
        PROVE  Appended
    BY <1>0, <1>1, AdvanceEffect, SMTT(30)
  <1>2. ASSUME UNCHANGED delegation PROVE Appended
    BY <1>2, Zenon
  <1>3. ASSUME NEW g \in Delegations, NEW e \in DelegationPhases, Advances(g, e)
        PROVE  Forward
    <2>1. Appended
      BY <1>1, <1>3, Zenon DEF Advances
    <2>2. Kept /\ Held
      BY <1>3, Zenon DEF Advances, operatorVars
    <2> QED
      BY <2>1, <2>2, Zenon
  <1>4. ASSUME NEW g \in Delegations, NEW b \in Batches, StartsBatch(g, b)
        PROVE  Forward
    <2>1. evidence'[g].batch # NoBatch
      BY <1>0, <1>4 DEF StartsBatch, Batches, NoBatch
    <2>2. Appended
      BY <1>1, <1>2, <1>4, <2>1, Zenon DEF StartsBatch, advance, vars, DelegationPhases
    <2>3. /\ evidence[d].batch # NoBatch => evidence'[d].batch = evidence[d].batch
          /\ evidence'[d].stream = evidence[d].stream
      BY <1>0, <1>4, Zenon DEF StartsBatch, Bound
    <2>4. Held
      BY <1>4, Zenon DEF StartsBatch, operatorVars
    <2> QED
      BY <2>2, <2>3, <2>4, Zenon
  <1>5. ASSUME NEW g \in Delegations, NEW nonces \in SUBSET NonceEvents, CommitsNonces(g, nonces)
        PROVE  Forward
    <2>1. Appended
      BY <1>1, <1>2, <1>5, Zenon DEF CommitsNonces, advance, vars, DelegationPhases
    <2>2. Kept
      BY <1>0, <1>5, Zenon DEF CommitsNonces
    <2>3. Held
      BY <1>5, Zenon DEF CommitsNonces, operatorVars
    <2> QED
      BY <2>1, <2>2, <2>3, Zenon
  <1>6. ASSUME NEW g \in Delegations, NEW e \in Events, Hears(g, e)
        PROVE  Forward
    <2>1. Appended /\ Held
      BY <1>2, <1>6, Zenon DEF Hears, vars, operatorVars
    <2>2. evidence'[d].batch = evidence[d].batch
      BY <1>0, <1>6, Zenon DEF Hears, Journal
    <2>3. d # g => evidence'[d].stream = evidence[d].stream
      BY <1>0, <1>6, Zenon DEF Hears, Journal
    <2>4. d = g => Has(d, "batch_started") \/ Has(d, "tree_prepared") \/ Has(d, "tree_signed")
      BY <1>6, Zenon DEF Hears, validDelegationStreamPhase
    <2> QED
      BY <2>1, <2>2, <2>3, <2>4, Zenon
  <1>7. ASSUME NEW g \in Delegations, Registers(g) \/ Deletes(g) PROVE Forward
    <2>1. Appended /\ Kept
      BY <1>2, <1>7, Zenon DEF Registers, Deletes, vars
    <2>2. /\ intent[d].place = "gone" => intent'[d].place = "gone"
          /\ intent'[d].place # "none" => intent[d].place # "none" \/ Has(d, "register_dispatched")
      BY <1>0, <1>7, Zenon DEF Registers, Deletes
    <2> QED
      BY <2>1, <2>2, Zenon
  <1>8. CASE Quiet \/ \E g \in Delegations : Signs(g) \/ Forfeits(g)
    <2>1. Appended
      BY <1>2, <1>8, Zenon DEF Quiet, Signs, Forfeits, vars
    <2>2. Kept /\ Held
      BY <1>8, Zenon DEF Quiet, Signs, Forfeits, operatorVars
    <2> QED
      BY <2>1, <2>2, Zenon
  <1>9. CASE scheduleSpendingDelegationSet
    <2>1. Appended
      BY <1>0, <1>9, ScheduleEffect, Zenon DEF scheduleSpendingDelegationSet
    <2>2. Kept /\ Held
      BY <1>9, Zenon DEF scheduleSpendingDelegationSet, operatorVars
    <2> QED
      BY <2>1, <2>2
  <1>10. CASE Tick \/ CoinExits \/ OperatorSettles
    <2>1. Appended /\ Kept /\ Held
      BY <1>2, <1>10, Zenon DEF Tick, CoinExits, OperatorSettles, ledgerVars, operatorVars
    <2> QED
      BY <2>1, Zenon
  <1>11. CASE OperatorSelects \/ OperatorFailsBatch
    <2>1. Appended /\ Kept
      BY <1>2, <1>11, Zenon DEF OperatorSelects, OperatorFailsBatch, vars
    <2>2. PICK g \in Delegations :
             /\ intent[g].place \in {"queued", "batch"}
             /\ intent'[g].place \in {"queued", "batch"}
             /\ \A h \in Delegations \ {g} : intent'[h] = intent[h]
      BY <1>0, <1>11 DEF OperatorSelects, OperatorFailsBatch
    <2> QED
      BY <2>1, <2>2, Zenon
  <1>12. Forward
    BY <1>3, <1>4, <1>5, <1>6, <1>7, <1>8, <1>9, <1>10, <1>11, RenewalMoves, Zenon
  <1> QED
    BY <1>12, Zenon

(* What stands behind a stream event, a forfeit or a deletion.             *)
LEMMA PhaseChain ==
    ASSUME NEW d \in Delegations, JournalOrder(d)
    PROVE  /\ Has(d, "tree_prepared") \/ Has(d, "tree_signed") => Has(d, "batch_started")
           /\ Has(d, "final_authorized") => Has(d, "batch_started") /\ Has(d, "register_result")
           /\ Has(d, "register_result") => Has(d, "register_dispatched")
           /\ Has(d, "final_dispatched") \/ Has(d, "confirmed") => Has(d, "final_authorized")
  <1>1. \A e \in DOMAIN predecessors : Has(d, e) => Has(d, predecessors[e])
    BY Zenon DEF JournalOrder
  <1>2. /\ Has(d, "tree_signed") => Has(d, "nonces_committed")
        /\ Has(d, "nonces_committed") => Has(d, "tree_prepared")
        /\ Has(d, "tree_prepared") => Has(d, "batch_started")
    BY <1>1, Zenon DEF predecessors
  <1>3. /\ Has(d, "batch_started") => Has(d, "register_result")
        /\ Has(d, "register_result") => Has(d, "register_dispatched")
        /\ Has(d, "final_authorized") => Has(d, "tree_signed")
    BY <1>1, Zenon DEF predecessors
  <1>4. Has(d, "final_dispatched") \/ Has(d, "confirmed") => Has(d, "final_authorized")
    BY <1>1, Zenon DEF predecessors
  <1> QED
    BY <1>2, <1>3, <1>4, Zenon

(* The journals stay in order.                                             *)
LEMMA JournalStep ==
    ASSUME RenewalInv, [RenewalNext]_renewalVars, NEW d \in Delegations
    PROVE  JournalOrder(d)' /\ IntentOrder(d)'
  <1>0. JournalOrder(d) /\ IntentOrder(d)
    BY Zenon DEF RenewalInv
  <1>1. /\ evidence[d].batch # NoBatch => evidence'[d].batch = evidence[d].batch
        /\ evidence'[d].stream # evidence[d].stream => Has(d, "batch_started")
        /\ intent[d].place = "gone" => intent'[d].place = "gone"
        /\ intent'[d].place # "none" => Has(d, "register_dispatched")
    BY <1>0, JournalMoves, PhaseChain, Zenon DEF IntentOrder
  <1>2. CASE delegation'[d].events = delegation[d].events
    BY <1>0, <1>1, <1>2, Zenon DEF JournalOrder, IntentOrder, Has
  <1>3. ASSUME NEW e \in DelegationPhases, DelegationAccepts(d, e),
               delegation'[d].events = delegation[d].events \cup {e},
               e = "cleanup_result" => intent[d].place = "gone",
               e = "batch_started" => evidence'[d].batch # NoBatch
        PROVE  JournalOrder(d)' /\ IntentOrder(d)'
    <2>1. \A k : Has(d, k)' <=> Has(d, k) \/ k = e
      BY <1>3, Zenon DEF Has
    <2>2. ~delegationTerminal(d)
      BY <1>3, Zenon DEF DelegationAccepts
    <2>3. /\ ~Has(d, "confirmed") /\ ~Has(d, "invalidated") /\ ~Has(d, "cancelled")
          /\ ~Has(d, "expired") /\ ~Has(d, "needs_authorization") /\ ~Has(d, "rejected")
      BY <2>2, Zenon DEF delegationTerminal, Has
    <2>4. e \in DOMAIN predecessors => Has(d, predecessors[e])
      <3>1. e \in DOMAIN predecessors =>
               e \notin {"claimed", "expired", "cleanup_pending", "cancelled", "invalidated",
                         "needs_authorization", "rejected"}
        BY Zenon DEF predecessors
      <3> QED
        BY <1>3, <3>1, Zenon DEF DelegationAccepts, Has
    <2>5. \A k \in DOMAIN predecessors : Has(d, k)' => Has(d, predecessors[k])'
      BY <1>0, <2>1, <2>4, Zenon DEF JournalOrder
    <2>6. CASE e \in {"invalidated", "cancelled", "expired", "needs_authorization", "rejected"}
      <3>1. e \notin DOMAIN predecessors
        BY <2>6, Zenon DEF predecessors
      <3>2. ~Has(d, "final_authorized")
        BY <1>0, <1>3, <2>6, <3>1, PhaseChain, Zenon DEF DelegationAccepts, Has
      <3>3. e \in {"cancelled", "needs_authorization"} => ~Has(d, "register_dispatched")
        BY <1>3, <3>1 DEF DelegationAccepts, Has
      <3>4. e = "expired" => (Has(d, "register_dispatched") => Has(d, "cleanup_result"))
        BY <1>3, <3>1, Zenon DEF DelegationAccepts, Has
      <3>5. /\ Has(d, "register_dispatched")' <=> Has(d, "register_dispatched")
            /\ Has(d, "final_authorized")' <=> Has(d, "final_authorized")
            /\ Has(d, "cleanup_result")' <=> Has(d, "cleanup_result")
            /\ Has(d, "batch_started")' <=> Has(d, "batch_started")
        BY <2>1, <2>6, Zenon
      <3> QED
        BY <1>0, <1>1, <2>1, <2>3, <2>5, <3>2, <3>3, <3>4, <3>5, Zenon DEF JournalOrder, IntentOrder
    <2>7. CASE e \notin {"invalidated", "cancelled", "expired", "needs_authorization", "rejected"}
      <3>1. delegation'[d].events \cap {"invalidated", "cancelled", "expired",
                                        "needs_authorization", "rejected"} = {}
        BY <1>3, <2>3, <2>7, Zenon DEF Has
      <3>2. /\ ~Has(d, "cancelled")' /\ ~Has(d, "needs_authorization")' /\ ~Has(d, "expired")'
        BY <2>1, <2>3, <2>7, Zenon
      <3>3. /\ Has(d, "batch_started")' => evidence'[d].batch # NoBatch
            /\ evidence'[d].stream # {} => Has(d, "batch_started")'
            /\ intent'[d].place # "none" => Has(d, "register_dispatched")'
            /\ Has(d, "cleanup_result")' => intent'[d].place = "gone"
        BY <1>0, <1>1, <1>3, <2>1, Zenon DEF JournalOrder, IntentOrder
      <3> QED
        BY <2>5, <3>1, <3>2, <3>3, Zenon DEF JournalOrder, IntentOrder
    <2> QED
      BY <2>6, <2>7, Zenon
  <1> QED
    BY <1>2, <1>3, JournalMoves, Zenon
-----------------------------------------------------------------------------
(* What has left the Guardian.                                             *)

(* A complete transcript is bound for good: if the tree has a node it is   *)
(* not empty, and if it has none there is no other transcript.             *)
LEMMA TranscriptFixed ==
    ASSUME NEW old \in SUBSET NonceEvents, NEW new \in SUBSET NonceEvents,
           Complete(old), Bound(old, {}, new)
    PROVE  old = new
  <1>1. CASE Nodes = {}
    <2>1. NonceEvents = {}
      BY <1>1 DEF NonceEvents, Events, Event
    <2> QED
      BY <2>1, Zenon
  <1>2. CASE Nodes # {}
    BY <1>2, Zenon DEF Complete, Bound
  <1> QED
    BY <1>1, <1>2, Zenon

(* The signatures and the forfeits stay those of the journalled evidence.  *)
LEMMA SignedStep ==
    ASSUME RenewalInv, [RenewalNext]_renewalVars
    PROVE  SignedOrder'
  <1>0. /\ SignedOrder
        /\ signed \subseteq [op : Delegations, batch : Batches, nonces : SUBSET NonceEvents]
        /\ forfeits \subseteq [op : Delegations, batch : Batches]
        /\ evidence \in [Delegations -> [batch : Batches \cup {NoBatch},
                                         nonces : SUBSET NonceEvents, stream : SUBSET Events]]
    BY Zenon DEF RenewalInv, RenewalTypes
  <1>1. \A d \in Delegations :
           /\ evidence[d].batch # NoBatch => evidence'[d].batch = evidence[d].batch
           /\ Has(d, "final_dispatched") => Has(d, "final_dispatched")'
    BY JournalMoves, Zenon DEF Has
  <1>2. \A b \in Batches : b # NoBatch
    BY DEF Batches, NoBatch
  <1> DEFINE NoncesKept == \A x \in signed : evidence'[x.op].nonces = evidence[x.op].nonces
  <1>3. NoncesKept
    <2>1. ASSUME NEW g \in Delegations, NEW nonces \in SUBSET NonceEvents, CommitsNonces(g, nonces)
          PROVE  NoncesKept
      <3> SUFFICES ASSUME NEW x \in signed PROVE evidence'[x.op].nonces = evidence[x.op].nonces
        BY Zenon
      <3>1. x.op \in Delegations /\ x.nonces = evidence[x.op].nonces /\ Complete(x.nonces)
        BY <1>0, Zenon DEF SignedOrder
      <3>2. CASE x.op # g
        BY <1>0, <2>1, <3>1, <3>2, Zenon DEF CommitsNonces
      <3>3. CASE x.op = g
        <4>1. evidence'[g].nonces = nonces
          BY <1>0, <2>1, Zenon DEF CommitsNonces
        <4>2. evidence[g].nonces = nonces
          BY <1>0, <2>1, <3>1, <3>3, TranscriptFixed, Zenon DEF CommitsNonces
        <4> QED
          BY <3>3, <4>1, <4>2, Zenon
      <3> QED
        BY <3>2, <3>3, Zenon
    <2>2. ASSUME NEW g \in Delegations, NEW b \in Batches, StartsBatch(g, b) PROVE NoncesKept
      BY <1>0, <2>2, Zenon DEF StartsBatch
    <2>3. ASSUME NEW g \in Delegations, NEW e \in Events, Hears(g, e) PROVE NoncesKept
      BY <1>0, <2>3, Zenon DEF Hears, Journal
    <2>4. ASSUME UNCHANGED evidence PROVE NoncesKept
      BY <2>4, Zenon
    <2>5. ASSUME NEW g \in Delegations,
                 \/ \E e \in DelegationPhases : Advances(g, e)
                 \/ Registers(g) \/ Deletes(g) \/ Signs(g) \/ Forfeits(g)
          PROVE  NoncesKept
      BY <2>4, <2>5, Zenon DEF Advances, Registers, Deletes, Signs, Forfeits
    <2>6. CASE \/ Quiet \/ scheduleSpendingDelegationSet \/ Tick \/ CoinExits \/ OperatorSelects
               \/ OperatorFailsBatch \/ OperatorSettles
      BY <2>4, <2>6, Zenon
         DEF Quiet, scheduleSpendingDelegationSet, Tick, CoinExits, OperatorSelects,
         OperatorFailsBatch, OperatorSettles
    <2> QED
      BY <2>1, <2>2, <2>3, <2>5, <2>6, RenewalMoves, Zenon
  <1>4. /\ \A x \in signed : /\ x.batch = evidence'[x.op].batch
                             /\ x.nonces = evidence'[x.op].nonces /\ Complete(x.nonces)
        /\ \A f \in forfeits : f.batch = evidence'[f.op].batch /\ Has(f.op, "final_dispatched")'
    BY <1>0, <1>1, <1>2, <1>3, SMTT(30) DEF SignedOrder
  <1>5. CASE UNCHANGED <<signed, forfeits>>
    BY <1>4, <1>5, Zenon DEF SignedOrder
  <1>6. ASSUME NEW d \in Delegations, Signs(d) PROVE SignedOrder'
    BY <1>4, <1>6 DEF Signs, SignedOrder
  <1>7. ASSUME NEW d \in Delegations, Forfeits(d) PROVE SignedOrder'
    BY <1>1, <1>4, <1>7 DEF Forfeits, SignedOrder
  <1>8. ASSUME NEW g \in Delegations,
               \/ \E e \in DelegationPhases : Advances(g, e)
               \/ \E b \in Batches : StartsBatch(g, b)
               \/ \E nonces \in SUBSET NonceEvents : CommitsNonces(g, nonces)
               \/ \E e \in Events : Hears(g, e)
               \/ Registers(g) \/ Deletes(g)
        PROVE  UNCHANGED <<signed, forfeits>>
    BY <1>8, Zenon DEF Advances, StartsBatch, CommitsNonces, Hears, Registers, Deletes, operatorVars
  <1>9. ASSUME \/ Quiet \/ scheduleSpendingDelegationSet \/ Tick \/ CoinExits \/ OperatorSelects
               \/ OperatorFailsBatch \/ OperatorSettles
        PROVE  UNCHANGED <<signed, forfeits>>
    BY <1>9, Zenon DEF Quiet, scheduleSpendingDelegationSet, Tick, CoinExits, OperatorSelects,
       OperatorFailsBatch, OperatorSettles, operatorVars
  <1> QED
    BY <1>5, <1>6, <1>7, <1>8, <1>9, RenewalMoves, Zenon
-----------------------------------------------------------------------------
(* The attempts.                                                           *)

(* The attempt of v after the step, said of what it is then.               *)
LEMMA AttemptIntro ==
    ASSUME NEW v \in Vaults, NEW d \in Delegations, attempt'[v].op = d,
           attempt'[v].saved \subseteq delegation'[d].events,
           attempt'[v].batch # NoBatch => attempt'[v].batch = evidence'[d].batch,
           attempt'[v].step \in EarlySteps =>
              /\ attempt'[v].handled = {}
              /\ attempt'[v].replay # {} => "batch_started" \in attempt'[v].saved,
           attempt'[v].step \in BatchSteps =>
              (attempt'[v].replay \cup attempt'[v].handled # {} => attempt'[v].batch # NoBatch),
           attempt'[v].step \in {"commit_nonces", "sign"} =>
              attempt'[v].handled # {} /\ Complete(allNonces(v)'),
           attempt'[v].step = "register" => "register_dispatched" \in delegation'[d].events,
           attempt'[v].step = "submit" => "final_dispatched" \in delegation'[d].events,
           attempt'[v].step = "deleted" => intent'[d].place = "gone"
    PROVE  AttemptOrder(v)'
  <1>1. Complete(allNonces(v))' = Complete(allNonces(v)')
    BY Zenon DEF Complete
  <1> QED
    BY <1>1, Zenon DEF AttemptOrder, Op, Saved, At, Has

(* What the invariant says of a busy vault.                                *)
LEMMA AttemptKnows ==
    ASSUME RenewalInv, [RenewalNext]_renewalVars, NEW v \in Vaults, attempt[v] # Idle,
           NEW d \in Delegations, attempt[v].op = d
    PROVE  /\ attempt[v].saved \subseteq delegation[d].events
           /\ delegation[d].events \subseteq delegation'[d].events
           /\ attempt[v].batch # NoBatch =>
                 attempt[v].batch = evidence[d].batch /\ attempt[v].batch = evidence'[d].batch
           /\ attempt[v].step \in EarlySteps =>
                 /\ attempt[v].handled = {}
                 /\ attempt[v].replay # {} => "batch_started" \in attempt[v].saved
           /\ attempt[v].step \in BatchSteps =>
                 (attempt[v].replay \cup attempt[v].handled # {} => attempt[v].batch # NoBatch)
           /\ attempt[v].step \in {"commit_nonces", "sign"} =>
                 attempt[v].handled # {} /\ Complete(allNonces(v))
           /\ attempt[v].step = "register" => "register_dispatched" \in delegation[d].events
           /\ attempt[v].step = "submit" => "final_dispatched" \in delegation[d].events
           /\ attempt[v].step = "deleted" => intent[d].place = "gone" /\ intent'[d].place = "gone"
  <1>1. AttemptOrder(v)
    BY Zenon DEF RenewalInv
  <1>2. /\ delegation[d].events \subseteq delegation'[d].events
        /\ evidence[d].batch # NoBatch => evidence'[d].batch = evidence[d].batch
        /\ intent[d].place = "gone" => intent'[d].place = "gone"
    BY JournalMoves, Zenon
  <1> QED
    BY <1>1, <1>2, Zenon DEF AttemptOrder, Op, Saved, At, Has

(* An attempt that is left alone stays right.                              *)
LEMMA AttemptKept ==
    ASSUME RenewalInv, [RenewalNext]_renewalVars, NEW v \in Vaults, attempt'[v] = attempt[v]
    PROVE  AttemptOrder(v)'
  <1>1. CASE attempt[v] = Idle
    BY <1>1, Zenon DEF AttemptOrder, Idle
  <1>2. CASE attempt[v] # Idle
    <2>1. PICK d \in Delegations : attempt[v].op = d
      BY <1>2, BusyVault, Zenon DEF Op
    <2>2. allNonces(v)' = allNonces(v)
      BY Zenon DEF allNonces
    <2>3. /\ attempt[v].saved \subseteq delegation'[d].events
          /\ attempt[v].batch # NoBatch => attempt[v].batch = evidence'[d].batch
          /\ attempt[v].step \in EarlySteps =>
                /\ attempt[v].handled = {}
                /\ attempt[v].replay # {} => "batch_started" \in attempt[v].saved
          /\ attempt[v].step \in BatchSteps =>
                (attempt[v].replay \cup attempt[v].handled # {} => attempt[v].batch # NoBatch)
          /\ attempt[v].step \in {"commit_nonces", "sign"} =>
                attempt[v].handled # {} /\ Complete(allNonces(v))
          /\ attempt[v].step = "register" => "register_dispatched" \in delegation'[d].events
          /\ attempt[v].step = "submit" => "final_dispatched" \in delegation'[d].events
          /\ attempt[v].step = "deleted" => intent'[d].place = "gone"
      BY <1>2, <2>1, AttemptKnows, Zenon
    <2> QED
      BY <2>1, <2>2, <2>3, AttemptIntro
  <1> QED
    BY <1>1, <1>2, Zenon

(* An attempt that goes to another step.                                   *)
LEMMA AttemptGoes ==
    ASSUME RenewalInv, [RenewalNext]_renewalVars, NEW v \in Vaults, attempt[v] # Idle,
           NEW to \in EarlySteps \cup BatchSteps \cup FinalSteps, GoTo(v, to),
           to \in EarlySteps => attempt[v].step \in EarlySteps,
           to \in BatchSteps => attempt[v].step \in BatchSteps \/ attempt[v].batch # NoBatch,
           to # "commit_nonces", to = "sign" => attempt[v].step = "commit_nonces",
           to # "register",
           to = "submit" => "final_dispatched" \in delegation'[attempt[v].op].events,
           to = "deleted" => intent'[attempt[v].op].place = "gone"
    PROVE  attempt'[v] \in Attempts /\ AttemptOrder(v)'
  <1>1. PICK d \in Delegations : attempt[v].op = d
    BY BusyVault, Zenon DEF Op
  <1>2. attempt[v] \in Attempts /\ attempt \in [Vaults -> Attempts \cup {Idle}]
    BY BusyVault, Zenon DEF RenewalInv, RenewalTypes
  <1>3. attempt'[v] = [attempt[v] EXCEPT !.step = to]
    BY <1>2, Zenon DEF GoTo
  <1>4. /\ attempt'[v] \in Attempts
        /\ attempt'[v].step = to /\ attempt'[v].op = d
        /\ attempt'[v].saved = attempt[v].saved /\ attempt'[v].batch = attempt[v].batch
        /\ attempt'[v].replay = attempt[v].replay /\ attempt'[v].handled = attempt[v].handled
    BY <1>1, <1>2, <1>3, Zenon DEF Attempts
  <1>5. allNonces(v)' = allNonces(v)
    BY <1>4, Zenon DEF allNonces
  <1>6. /\ attempt[v].saved \subseteq delegation'[d].events
        /\ attempt[v].batch # NoBatch => attempt[v].batch = evidence'[d].batch
        /\ attempt[v].step \in EarlySteps =>
              /\ attempt[v].handled = {}
              /\ attempt[v].replay # {} => "batch_started" \in attempt[v].saved
        /\ attempt[v].step \in BatchSteps =>
              (attempt[v].replay \cup attempt[v].handled # {} => attempt[v].batch # NoBatch)
        /\ attempt[v].step \in {"commit_nonces", "sign"} =>
              attempt[v].handled # {} /\ Complete(allNonces(v))
    BY <1>1, AttemptKnows, Zenon
  <1>7. to \in {"commit_nonces", "sign"} =>
           attempt[v].handled # {} /\ Complete(allNonces(v))
    BY <1>6, Zenon
  <1>8. to \in BatchSteps =>
           (attempt[v].replay \cup attempt[v].handled # {} => attempt[v].batch # NoBatch)
    BY <1>6, Zenon
  <1> QED
    BY <1>1, <1>4, <1>5, <1>6, <1>7, <1>8, AttemptIntro, Zenon

(* An attempt that reads the journal again.                                *)
LEMMA AttemptReloads ==
    ASSUME RenewalInv, [RenewalNext]_renewalVars, TypeOK', NEW v \in Vaults, attempt[v] # Idle,
           NEW to \in EarlySteps, Reload(v, to), attempt[v].step \in EarlySteps,
           to = "register" => "register_dispatched" \in delegation'[attempt[v].op].events,
           to # "deleted"
    PROVE  attempt'[v] \in Attempts /\ AttemptOrder(v)'
  <1>1. PICK d \in Delegations : attempt[v].op = d
    BY BusyVault, Zenon DEF Op
  <1>2. /\ attempt[v] \in Attempts /\ attempt \in [Vaults -> Attempts \cup {Idle}]
        /\ delegation'[d].events \subseteq DelegationPhases
    BY <1>1, BusyVault, Zenon DEF RenewalInv, RenewalTypes, TypeOK, DelegationRow
  <1>3. attempt'[v] = [attempt[v] EXCEPT !.step = to, !.saved = delegation'[d].events]
    BY <1>1, <1>2, Zenon DEF Reload, Op
  <1>4. /\ attempt'[v] \in Attempts
        /\ attempt'[v].step = to /\ attempt'[v].op = d
        /\ attempt'[v].saved = delegation'[d].events /\ attempt'[v].batch = attempt[v].batch
        /\ attempt'[v].replay = attempt[v].replay /\ attempt'[v].handled = attempt[v].handled
    BY <1>1, <1>2, <1>3, Zenon DEF Attempts
  <1>5. to \notin BatchSteps /\ to \notin {"commit_nonces", "sign", "submit", "deleted"}
    BY Zenon DEF EarlySteps, BatchSteps
  <1>6. /\ delegation[d].events \subseteq delegation'[d].events
        /\ attempt[v].saved \subseteq delegation[d].events
        /\ attempt[v].batch # NoBatch => attempt[v].batch = evidence'[d].batch
        /\ attempt[v].handled = {}
        /\ attempt[v].replay # {} => "batch_started" \in attempt[v].saved
    BY <1>1, AttemptKnows, Zenon
  <1> QED
    BY <1>1, <1>4, <1>5, <1>6, AttemptIntro, Zenon

(* The rows, their evidence and what the Operator holds keep their types.  *)
LEMMA LedgerTypes ==
    ASSUME RenewalInv, [RenewalNext]_renewalVars
    PROVE  /\ TypeOK'
           /\ evidence' \in [Delegations -> [batch : Batches \cup {NoBatch},
                                             nonces : SUBSET NonceEvents, stream : SUBSET Events]]
           /\ intent' \in [Delegations -> [place : {"none", "queued", "batch", "gone"},
                                           batch : Batches \cup {NoBatch}]]
           /\ signed' \subseteq [op : Delegations, batch : Batches, nonces : SUBSET NonceEvents]
           /\ forfeits' \subseteq [op : Delegations, batch : Batches]
  <1> DEFINE Bindings == [batch : Batches \cup {NoBatch},
                          nonces : SUBSET NonceEvents, stream : SUBSET Events]
             Intents == [place : {"none", "queued", "batch", "gone"}, batch : Batches \cup {NoBatch}]
             Good == /\ TypeOK'
                     /\ evidence' \in [Delegations -> Bindings]
                     /\ intent' \in [Delegations -> Intents]
                     /\ signed' \subseteq [op : Delegations, batch : Batches,
                                           nonces : SUBSET NonceEvents]
                     /\ forfeits' \subseteq [op : Delegations, batch : Batches]
  <1>0. /\ TypeOK
        /\ evidence \in [Delegations -> Bindings]
        /\ intent \in [Delegations -> Intents]
        /\ signed \subseteq [op : Delegations, batch : Batches, nonces : SUBSET NonceEvents]
        /\ forfeits \subseteq [op : Delegations, batch : Batches]
    BY Zenon DEF RenewalInv, RenewalTypes
  <1>1. ASSUME UNCHANGED vars PROVE TypeOK'
    BY <1>0, <1>1, Zenon DEF TypeOK, vars
  <1>2. ASSUME NEW d \in Delegations, NEW e \in DelegationPhases, advance(d, e) PROVE TypeOK'
    BY <1>0, <1>1, <1>2, AdvanceEffect, Zenon DEF advance
  <1>3. CASE Quiet
    BY <1>0, <1>1, <1>3, Zenon DEF Quiet, operatorVars
  <1>4. ASSUME NEW d \in Delegations, NEW e \in DelegationPhases, Advances(d, e) PROVE Good
    BY <1>0, <1>4, AdvanceEffect, Zenon DEF Advances, operatorVars
  <1>5. ASSUME NEW d \in Delegations, NEW b \in Batches, StartsBatch(d, b) PROVE Good
    <2>1. TypeOK'
      BY <1>2, <1>5, Zenon DEF StartsBatch, DelegationPhases
    <2>2. evidence' \in [Delegations -> Bindings]
      BY <1>0, <1>5 DEF StartsBatch
    <2> QED
      BY <1>0, <1>5, <2>1, <2>2, Zenon DEF StartsBatch, operatorVars
  <1>6. ASSUME NEW d \in Delegations, NEW nonces \in SUBSET NonceEvents, CommitsNonces(d, nonces)
        PROVE  Good
    <2>1. TypeOK'
      BY <1>2, <1>6, Zenon DEF CommitsNonces, DelegationPhases
    <2>2. evidence' \in [Delegations -> Bindings]
      BY <1>0, <1>6 DEF CommitsNonces
    <2> QED
      BY <1>0, <1>6, <2>1, <2>2, Zenon DEF CommitsNonces, operatorVars
  <1>7. ASSUME NEW d \in Delegations, NEW e \in Events, Hears(d, e) PROVE Good
    <2>1. evidence' \in [Delegations -> Bindings]
      BY <1>0, <1>7 DEF Hears, Journal
    <2> QED
      BY <1>0, <1>1, <1>7, <2>1, Zenon DEF Hears, operatorVars
  <1>8. ASSUME NEW d \in Delegations, Registers(d) \/ Deletes(d) PROVE Good
    <2>1. PICK to \in {"queued", "gone"} : intent' = [intent EXCEPT ![d].place = to]
      BY <1>8, Zenon DEF Registers, Deletes
    <2>2. [intent[d] EXCEPT !.place = to] \in Intents
      BY <1>0, Zenon
    <2>3. intent' \in [Delegations -> Intents]
      BY <1>0, <2>1, <2>2, Zenon
    <2> QED
      BY <1>0, <1>1, <1>8, <2>3, Zenon DEF Registers, Deletes
  <1>9. ASSUME NEW d \in Delegations, Signs(d) PROVE Good
    BY <1>0, <1>1, <1>9 DEF Signs
  <1>10. ASSUME NEW d \in Delegations, Forfeits(d) PROVE Good
    <2>1. evidence[d].batch \in Batches
      BY <1>0, <1>10, PhaseChain, Zenon DEF Forfeits, RenewalInv, JournalOrder
    <2> QED
      BY <1>0, <1>1, <1>10, <2>1 DEF Forfeits
  <1>11. CASE scheduleSpendingDelegationSet
    BY <1>0, <1>11, ScheduleEffect, Zenon DEF scheduleSpendingDelegationSet, operatorVars
  <1>12. CASE Tick
    BY <1>0, <1>12 DEF Tick, TypeOK, Time, ledgerVars, worldVars, operatorVars
  <1>13. CASE CoinExits
    BY <1>0, <1>13, Zenon DEF CoinExits, TypeOK, ledgerVars, operatorVars
  <1>14. CASE OperatorSettles
    BY <1>0, <1>14, Zenon DEF OperatorSettles, TypeOK, ledgerVars, operatorVars
  <1>15. CASE OperatorSelects
    <2>1. PICK d \in Delegations :
             /\ intent[d].place = "queued" /\ intent[d].batch < MaxBatch
             /\ intent' = [intent EXCEPT ![d] = [place |-> "batch", batch |-> @.batch + 1]]
      BY <1>15, Zenon DEF OperatorSelects
    <2>2. intent[d].batch + 1 \in Batches
      BY <1>0, <2>1, RenewalAssumption DEF Batches, NoBatch
    <2>3. intent' \in [Delegations -> Intents]
      BY <1>0, <2>1, <2>2, Zenon
    <2> QED
      BY <1>0, <1>1, <1>15, <2>3, Zenon DEF OperatorSelects
  <1>16. CASE OperatorFailsBatch
    <2>1. intent' \in [Delegations -> Intents]
      BY <1>0, <1>16 DEF OperatorFailsBatch
    <2> QED
      BY <1>0, <1>1, <1>16, <2>1, Zenon DEF OperatorFailsBatch
  <1> QED
    BY <1>3, <1>4, <1>5, <1>6, <1>7, <1>8, <1>9, <1>10, <1>11, <1>12, <1>13, <1>14, <1>15, <1>16,
       RenewalMoves, Zenon

(* An attempt that takes up an event of its batch.                         *)
LEMMA AttemptHandles ==
    ASSUME RenewalInv, [RenewalNext]_renewalVars, NEW v \in Vaults, At(v, "join"),
           NEW e \in Events, Handle(v, e), attempt[v].batch # NoBatch
    PROVE  attempt'[v] \in Attempts \cup {Idle} /\ AttemptOrder(v)'
  <1>0. attempt[v] # Idle
    BY AtStep, Zenon DEF BatchSteps
  <1>1. PICK d \in Delegations : attempt[v].op = d
    BY <1>0, BusyVault, Zenon DEF Op
  <1>2. attempt[v] \in Attempts /\ attempt \in [Vaults -> Attempts \cup {Idle}]
    BY <1>0, BusyVault, Zenon DEF RenewalInv, RenewalTypes
  <1>3. CASE End(v)
    BY <1>2, <1>3, Zenon DEF End, AttemptOrder, Idle
  <1>4. CASE ~End(v)
    <2>1. PICK to \in {"prepare", "finalize", "commit_nonces", "join"} :
             /\ attempt' = [attempt EXCEPT ![v].handled = @ \cup {e}, ![v].replay = @ \ {e},
                                           ![v].step = to]
             /\ to = "commit_nonces" => e.kind = "nonce" /\ Complete(allNonces(v) \cup {e})
      BY <1>4, Zenon DEF Handle
    <2>2. attempt'[v] = [attempt[v] EXCEPT !.handled = @ \cup {e}, !.replay = @ \ {e},
                                           !.step = to]
      BY <1>2, <2>1, Zenon
    <2>3. /\ attempt'[v] \in Attempts
          /\ attempt'[v].step = to /\ attempt'[v].op = d
          /\ attempt'[v].saved = attempt[v].saved /\ attempt'[v].batch = attempt[v].batch
          /\ attempt'[v].handled = attempt[v].handled \cup {e}
      <3>1. /\ attempt[v].handled \cup {e} \in SUBSET Events
            /\ attempt[v].replay \ {e} \in SUBSET Events
            /\ to \in EarlySteps \cup BatchSteps \cup FinalSteps
        BY <1>2, Zenon DEF Attempts, BatchSteps
      <3> QED
        BY <1>1, <1>2, <2>2, <3>1, Zenon DEF Attempts
    <2>4. e.kind = "nonce" => allNonces(v)' = allNonces(v) \cup {e}
      BY <2>3, Zenon DEF allNonces
    <2>5. to = "commit_nonces" => Complete(allNonces(v)')
      BY <2>1, <2>4, Zenon
    <2>6. /\ attempt[v].saved \subseteq delegation'[d].events
          /\ attempt[v].batch = evidence'[d].batch
      BY <1>0, <1>1, AttemptKnows, Zenon
    <2>7. to \notin EarlySteps \cup {"sign", "register", "submit", "deleted"}
      BY Zenon DEF EarlySteps
    <2> QED
      BY <2>3, <2>5, <2>6, <2>7, AttemptIntro, Zenon
  <1> QED
    BY <1>3, <1>4, Zenon

(* Joining the batch, hearing that it started and preparing the tree.      *)
LEMMA AttemptJoins ==
    ASSUME RenewalInv, [RenewalNext]_renewalVars, NEW v \in Vaults,
           Join(v) \/ BatchStarted(v) \/ prepareSpendingDelegationTree(v)
    PROVE  attempt'[v] \in Attempts /\ AttemptOrder(v)'
  <1>0. attempt[v] # Idle
    BY AtStep, Zenon DEF Join, BatchStarted, prepareSpendingDelegationTree, Subscribed, Resumes,
       EarlySteps, BatchSteps
  <1>1. PICK d \in Delegations : attempt[v].op = d
    BY <1>0, BusyVault, Zenon DEF Op
  <1>2. /\ attempt[v] \in Attempts /\ attempt \in [Vaults -> Attempts \cup {Idle}]
        /\ evidence \in [Delegations -> [batch : Batches \cup {NoBatch},
                                         nonces : SUBSET NonceEvents, stream : SUBSET Events]]
    BY <1>0, BusyVault, Zenon DEF RenewalInv, RenewalTypes
  <1>3. /\ attempt[v].saved \subseteq delegation[d].events
        /\ delegation[d].events \subseteq delegation'[d].events
        /\ attempt[v].batch # NoBatch =>
              attempt[v].batch = evidence[d].batch /\ attempt[v].batch = evidence'[d].batch
        /\ attempt[v].step \in EarlySteps =>
              /\ attempt[v].handled = {}
              /\ attempt[v].replay # {} => "batch_started" \in attempt[v].saved
        /\ attempt[v].step \in BatchSteps =>
              (attempt[v].replay \cup attempt[v].handled # {} => attempt[v].batch # NoBatch)
    BY <1>0, <1>1, AttemptKnows, Zenon
  <1>4. "join" \notin EarlySteps \cup {"commit_nonces", "sign", "register", "submit", "deleted"}
    BY Zenon DEF EarlySteps
  <1>5. CASE Join(v)
    <2>1. attempt[v].step \in EarlySteps
      BY <1>5, Zenon DEF Join, Subscribed, Resumes, At, EarlySteps
    <2>2. PICK b : b = IF Saved(v, "batch_started") THEN evidence[d].batch ELSE NoBatch
      BY Zenon
    <2>0. Saved(v, "tree_prepared") \in BOOLEAN
      BY DEF Saved
    <2>3. PICK p \in BOOLEAN : p = Saved(v, "tree_prepared")
      BY <2>0, Zenon
    <2>4. attempt'[v] = [attempt[v] EXCEPT !.step = "join", !.saved = {}, !.batch = b,
                                           !.prepared = p]
      BY <1>1, <1>2, <1>5, <2>2, <2>3, Zenon DEF Join, Op
    <2>5. b \in Batches \cup {NoBatch}
      BY <1>2, <2>2, Zenon
    <2>6. /\ attempt'[v] \in Attempts /\ attempt'[v].step = "join" /\ attempt'[v].op = d
          /\ attempt'[v].saved = {} /\ attempt'[v].batch = b
          /\ attempt'[v].replay = attempt[v].replay /\ attempt'[v].handled = attempt[v].handled
      BY <1>1, <1>2, <2>4, <2>5 DEF Attempts, BatchSteps
    <2>7. evidence'[d].batch = evidence[d].batch
      BY <1>5, Zenon DEF Join
    <2>8. "batch_started" \in attempt[v].saved => b # NoBatch
      BY <1>3, <2>2, Zenon DEF Saved, RenewalInv, JournalOrder, Has
    <2>9. attempt[v].replay \cup attempt[v].handled # {} => b # NoBatch
      BY <1>3, <2>1, <2>8, Zenon
    <2>10. b # NoBatch => b = evidence'[d].batch
      BY <2>2, <2>7, Zenon
    <2> QED
      BY <1>4, <2>6, <2>9, <2>10, AttemptIntro, Zenon
  <1>6. CASE BatchStarted(v)
    <2>1. PICK b \in Batches : /\ evidence' = [evidence EXCEPT ![d].batch = b]
                               /\ attempt' = [attempt EXCEPT ![v].batch = b]
                               /\ attempt[v].step = "join"
      BY <1>1, <1>6, Zenon DEF BatchStarted, Op, At
    <2>2. /\ attempt'[v] = [attempt[v] EXCEPT !.batch = b]
          /\ evidence'[d].batch = b /\ b # NoBatch
      BY <1>2, <2>1 DEF Batches, NoBatch
    <2>3. /\ attempt'[v] \in Attempts /\ attempt'[v].step = "join" /\ attempt'[v].op = d
          /\ attempt'[v].saved = attempt[v].saved /\ attempt'[v].batch = b
      BY <1>1, <1>2, <2>1, <2>2, Zenon DEF Attempts
    <2> QED
      BY <1>3, <1>4, <2>2, <2>3, AttemptIntro, Zenon
  <1>7. CASE prepareSpendingDelegationTree(v)
    <2>1. attempt'[v] = [attempt[v] EXCEPT !.step = "join", !.prepared = TRUE]
          /\ attempt[v].step \in BatchSteps
      BY <1>2, <1>7, Zenon DEF prepareSpendingDelegationTree, At, BatchSteps
    <2>2. /\ attempt'[v] \in Attempts /\ attempt'[v].step = "join" /\ attempt'[v].op = d
          /\ attempt'[v].saved = attempt[v].saved /\ attempt'[v].batch = attempt[v].batch
          /\ attempt'[v].replay = attempt[v].replay /\ attempt'[v].handled = attempt[v].handled
      BY <1>1, <1>2, <2>1 DEF Attempts, BatchSteps
    <2> QED
      BY <1>3, <1>4, <2>1, <2>2, AttemptIntro, Zenon
  <1> QED
    BY <1>5, <1>6, <1>7, Zenon

(* After an advance the phase is journalled, whoever journalled it.        *)
LEMMA AdvanceStores ==
    ASSUME TypeOK, NEW d \in Delegations, NEW e \in DelegationPhases, advance(d, e)
    PROVE  e \in delegation'[d].events
  BY AdvanceEffect, SMTT(30) DEF advance, vars, Has

(* The attempts that read the journal again.                               *)
LEMMA ExecuteReloads ==
    ASSUME RenewalInv, [RenewalNext]_renewalVars, NEW v \in Vaults,
           \/ Abandon(v) \/ claimSpendingDelegationAttempt(v) \/ authorizeSpendingDelegation(v)
           \/ DispatchRegister(v) \/ RecordRegister(v)
           \/ authorizeSpendingDelegationDelete(v) \/ DispatchDelete(v) \/ RecordDelete(v)
    PROVE  \/ End(v)
           \/ attempt'[v] \in Attempts /\ AttemptOrder(v)' /\ \E step \in EarlySteps : Reload(v, step)
  <1>1. attempt[v].step \in EarlySteps /\ attempt[v] # Idle
    <2>1. attempt[v].step \in EarlySteps
      BY Zenon DEF Abandon, claimSpendingDelegationAttempt, authorizeSpendingDelegation,
         DispatchRegister, RecordRegister, authorizeSpendingDelegationDelete, DispatchDelete,
         RecordDelete, Resumes, Unsigned, Subscribed, Cleans, At, EarlySteps
    <2> QED
      BY <2>1 DEF Idle, EarlySteps
  <1>2. TypeOK /\ TypeOK' /\ Op(v) \in Delegations
    BY <1>1, LedgerTypes, BusyVault, Zenon DEF RenewalInv, RenewalTypes
  <1>3. ASSUME NEW step \in EarlySteps \ {"register", "deleted"}, Reload(v, step)
        PROVE  attempt'[v] \in Attempts /\ AttemptOrder(v)'
    BY <1>1, <1>2, <1>3, AttemptReloads, Zenon
  <1>4. CASE DispatchRegister(v)
    <2>1. "register_dispatched" \in delegation'[attempt[v].op].events
      BY <1>2, <1>4, AdvanceStores, Zenon DEF DispatchRegister, Op, DelegationPhases
    <2>2. Reload(v, "register") /\ "register" \in EarlySteps
      BY <1>4, Zenon DEF DispatchRegister, EarlySteps
    <2> QED
      BY <1>1, <1>2, <2>1, <2>2, AttemptReloads, Zenon
  <1>5. CASE ~DispatchRegister(v)
    <2>1. End(v) \/ \E step \in EarlySteps \ {"register", "deleted"} : Reload(v, step)
      BY <1>5, Zenon DEF Abandon, claimSpendingDelegationAttempt, authorizeSpendingDelegation,
         RecordRegister, authorizeSpendingDelegationDelete, DispatchDelete, RecordDelete, EarlySteps
    <2> QED
      BY <1>3, <2>1, Zenon
  <1> QED
    BY <1>4, <1>5, Zenon

(* The attempts that go on to another step.                                *)
LEMMA ExecuteGoes ==
    ASSUME RenewalInv, [RenewalNext]_renewalVars, NEW v \in Vaults,
           \/ ResumeFinal(v) \/ registerIntent(v) \/ CommitNonces(v)
           \/ signSpendingDelegationTree(v) \/ StoreSignatures(v)
           \/ prepareSpendingDelegationFinal(v) \/ dispatchDelegationFinal(v)
           \/ submitLightForfeit(v) \/ RecordFinal(v) \/ deleteIntent(v)
    PROVE  \/ End(v)
           \/ /\ attempt'[v] \in Attempts /\ AttemptOrder(v)'
              /\ \E step \in EarlySteps \cup BatchSteps \cup FinalSteps : GoTo(v, step)
  <1>1. attempt[v] # Idle /\ TypeOK /\ Op(v) \in Delegations /\ Op(v) = attempt[v].op
    <2>1. attempt[v] # Idle
      BY AtStep, Zenon DEF ResumeFinal, registerIntent, CommitNonces, signSpendingDelegationTree,
         StoreSignatures, prepareSpendingDelegationFinal, dispatchDelegationFinal,
         submitLightForfeit, RecordFinal, deleteIntent, Resumes, EarlySteps, BatchSteps, FinalSteps
    <2> QED
      BY <2>1, BusyVault, Zenon DEF RenewalInv, RenewalTypes, Op
  <1>2. /\ {"join", "sign", "store_signatures"} \subseteq BatchSteps
        /\ {"registered", "rejected", "deleted"} \subseteq EarlySteps
        /\ {"final", "submit", "submitted"} \subseteq FinalSteps
        /\ {"join", "sign", "store_signatures"} \cap EarlySteps = {}
        /\ {"registered", "rejected", "deleted"} \cap BatchSteps = {}
        /\ {"final", "submit", "submitted"} \cap (EarlySteps \cup BatchSteps) = {}
    BY Zenon DEF EarlySteps, BatchSteps, FinalSteps
  <1>3. CASE ResumeFinal(v)
    BY <1>1, <1>2, <1>3, AttemptGoes, Zenon DEF ResumeFinal
  <1>4. CASE registerIntent(v)
    <2>1. attempt[v].step \in EarlySteps
      BY <1>4, Zenon DEF registerIntent, At, EarlySteps
    <2>2. End(v) \/ GoTo(v, "registered") \/ GoTo(v, "rejected")
      BY <1>4, Zenon DEF registerIntent
    <2> QED
      BY <1>1, <1>2, <2>1, <2>2, AttemptGoes, Zenon
  <1>5. CASE CommitNonces(v)
    <2>1. attempt[v].step = "commit_nonces" /\ attempt[v].step \in BatchSteps
      BY <1>5, Zenon DEF CommitNonces, At, BatchSteps
    <2>2. GoTo(v, "join") \/ GoTo(v, "sign")
      BY <1>5, Zenon DEF CommitNonces
    <2> QED
      BY <1>1, <1>2, <2>1, <2>2, AttemptGoes, Zenon
  <1>6. CASE signSpendingDelegationTree(v) \/ StoreSignatures(v)
    <2>1. attempt[v].step \in BatchSteps /\ (GoTo(v, "store_signatures") \/ GoTo(v, "join"))
      BY <1>6, Zenon DEF signSpendingDelegationTree, StoreSignatures, At, BatchSteps
    <2> QED
      BY <1>1, <1>2, <2>1, AttemptGoes, Zenon
  <1>7. CASE prepareSpendingDelegationFinal(v)
    <2>1. attempt[v].step \in BatchSteps /\ (GoTo(v, "join") \/ GoTo(v, "final"))
      BY <1>7, Zenon DEF prepareSpendingDelegationFinal, At, BatchSteps
    <2> QED
      BY <1>1, <1>2, <2>1, AttemptGoes, Zenon
  <1>8. CASE dispatchDelegationFinal(v)
    <2>1. "final_dispatched" \in delegation'[attempt[v].op].events
      BY <1>1, <1>8, AdvanceStores, Zenon DEF dispatchDelegationFinal, DelegationPhases
    <2> QED
      BY <1>1, <1>2, <1>8, <2>1, AttemptGoes, Zenon DEF dispatchDelegationFinal
  <1>9. CASE submitLightForfeit(v)
    BY <1>1, <1>2, <1>9, AttemptGoes, Zenon DEF submitLightForfeit
  <1>10. CASE RecordFinal(v)
    <2>1. End(v) \/ (attempt[v].batch # NoBatch /\ GoTo(v, "join"))
      BY <1>10, Zenon DEF RecordFinal
    <2> QED
      BY <1>1, <1>2, <2>1, AttemptGoes, Zenon
  <1>11. CASE deleteIntent(v)
    <2>1. intent \in [Delegations -> [place : {"none", "queued", "batch", "gone"},
                                      batch : Batches \cup {NoBatch}]]
      BY Zenon DEF RenewalInv, RenewalTypes
    <2>2. intent'[attempt[v].op].place = "gone" /\ attempt[v].step \in EarlySteps
      BY <1>1, <1>11, <2>1, Zenon DEF deleteIntent, At, EarlySteps
    <2> QED
      BY <1>1, <1>2, <1>11, <2>2, AttemptGoes, Zenon DEF deleteIntent
  <1> QED
    BY <1>3, <1>4, <1>5, <1>6, <1>7, <1>8, <1>9, <1>10, <1>11, Zenon

(* Whatever an attempt does, it and all the others stay right.             *)
LEMMA ExecuteStep ==
    ASSUME RenewalInv, [RenewalNext]_renewalVars, NEW v \in Vaults, Execute(v)
    PROVE  /\ attempt' \in [Vaults -> Attempts \cup {Idle}]
           /\ \A u \in Vaults : AttemptOrder(u)'
           /\ UNCHANGED due
  <1>0. attempt \in [Vaults -> Attempts \cup {Idle}]
    BY Zenon DEF RenewalInv, RenewalTypes
  <1>1. ASSUME End(v)
        PROVE  attempt'[v] \in Attempts \cup {Idle} /\ AttemptOrder(v)'
    BY <1>0, <1>1, Zenon DEF End, AttemptOrder
  <1>2. ASSUME Reconcile(v) \/ FeeChanged(v) \/ LoseRegister(v) \/ FinishCleanup(v) \/ Fail(v)
        PROVE  attempt'[v] \in Attempts \cup {Idle} /\ AttemptOrder(v)'
    BY <1>1, <1>2, Zenon DEF Reconcile, FeeChanged, LoseRegister, FinishCleanup, Fail
  <1>3. ASSUME replayDelegationStream(v)
        PROVE  attempt'[v] \in Attempts \cup {Idle} /\ AttemptOrder(v)'
    <2>1. PICK e \in attempt[v].replay : At(v, "join") /\ Handle(v, e)
      BY <1>3, Zenon DEF replayDelegationStream
    <2>2. attempt[v] # Idle
      BY <2>1, AtStep, Zenon DEF BatchSteps
    <2>3. e \in Events
      BY <2>2, BusyVault, Zenon DEF Attempts
    <2>4. attempt[v].batch # NoBatch
      BY <2>1, <2>2, Zenon DEF RenewalInv, AttemptOrder, At, BatchSteps
    <2> QED
      BY <2>1, <2>3, <2>4, AttemptHandles, Zenon
  <1>4. ASSUME Receive(v)
        PROVE  attempt'[v] \in Attempts \cup {Idle} /\ AttemptOrder(v)'
    BY <1>4, AttemptHandles, Zenon DEF Receive
  <1>5. attempt'[v] \in Attempts \cup {Idle} /\ AttemptOrder(v)'
    BY <1>1, <1>2, <1>3, <1>4, AttemptJoins, ExecuteReloads, ExecuteGoes, Zenon DEF Execute
  <1>6. DOMAIN attempt' = Vaults /\ \A u \in Vaults \ {v} : attempt'[u] = attempt[u]
    <2> DEFINE Only == DOMAIN attempt' = Vaults /\ \A u \in Vaults \ {v} : attempt'[u] = attempt[u]
    <2>1. ASSUME End(v) \/ (\E step \in EarlySteps \cup BatchSteps \cup FinalSteps :
                               GoTo(v, step) \/ Reload(v, step))
          PROVE  Only
      BY <1>0, <2>1, Zenon DEF End, GoTo, Reload
    <2>2. CASE \/ Reconcile(v) \/ FeeChanged(v) \/ LoseRegister(v) \/ FinishCleanup(v) \/ Fail(v)
      BY <2>1, <2>2, Zenon DEF Reconcile, FeeChanged, LoseRegister, FinishCleanup, Fail
    <2>3. ASSUME NEW e, Handle(v, e) PROVE Only
      BY <1>0, <2>1, <2>3, Zenon DEF Handle
    <2>4. CASE replayDelegationStream(v) \/ Receive(v)
      BY <2>3, <2>4, Zenon DEF replayDelegationStream, Receive
    <2>5. CASE Join(v) \/ BatchStarted(v) \/ prepareSpendingDelegationTree(v)
      BY <1>0, <2>5, Zenon DEF Join, BatchStarted, prepareSpendingDelegationTree
    <2> QED
      BY <2>1, <2>2, <2>4, <2>5, ExecuteReloads, ExecuteGoes, Zenon DEF Execute
  <1>7. \A u \in Vaults : AttemptOrder(u)'
    BY <1>5, <1>6, AttemptKept, Zenon
  <1>8. \A u \in Vaults : attempt'[u] \in Attempts \cup {Idle}
    BY <1>0, <1>5, <1>6, Zenon
  <1>9. attempt' = [u \in Vaults |-> attempt'[u]]
    <2>1. CASE \/ End(v)
               \/ \E step \in EarlySteps \cup BatchSteps \cup FinalSteps :
                     GoTo(v, step) \/ Reload(v, step)
      BY <1>0, <2>1, Zenon DEF End, GoTo, Reload
    <2>2. CASE \/ Reconcile(v) \/ FeeChanged(v) \/ LoseRegister(v) \/ FinishCleanup(v) \/ Fail(v)
      BY <2>1, <2>2, Zenon DEF Reconcile, FeeChanged, LoseRegister, FinishCleanup, Fail
    <2>3. ASSUME NEW e, Handle(v, e) PROVE attempt' = [u \in Vaults |-> attempt'[u]]
      BY <1>0, <2>1, <2>3, Zenon DEF Handle
    <2>4. CASE replayDelegationStream(v) \/ Receive(v)
      BY <2>3, <2>4, Zenon DEF replayDelegationStream, Receive
    <2>5. CASE Join(v) \/ BatchStarted(v) \/ prepareSpendingDelegationTree(v)
      BY <1>0, <2>5, Zenon DEF Join, BatchStarted, prepareSpendingDelegationTree
    <2> QED
      BY <2>1, <2>2, <2>4, <2>5, ExecuteReloads, ExecuteGoes, Zenon DEF Execute
  <1>10. attempt' \in [Vaults -> Attempts \cup {Idle}]
    BY <1>8, <1>9, Zenon
  <1>11. UNCHANGED due
    BY Zenon DEF Execute, Abandon, Reconcile, ResumeFinal, FeeChanged,
       claimSpendingDelegationAttempt, authorizeSpendingDelegation, DispatchRegister,
       registerIntent, LoseRegister, RecordRegister, Join, BatchStarted,
       replayDelegationStream, Receive, prepareSpendingDelegationTree, CommitNonces,
       signSpendingDelegationTree, StoreSignatures, prepareSpendingDelegationFinal,
       dispatchDelegationFinal, submitLightForfeit, RecordFinal, FinishCleanup,
       authorizeSpendingDelegationDelete, DispatchDelete, deleteIntent, RecordDelete, Fail
  <1> QED
    BY <1>7, <1>10, <1>11, Zenon

(* The snapshots and the attempts after any step.  A snapshot is older     *)
(* than the journal it was taken from, and the journal only grows.         *)
LEMMA AttemptStep ==
    ASSUME RenewalInv, [RenewalNext]_renewalVars
    PROVE  /\ attempt' \in [Vaults -> Attempts \cup {Idle}]
           /\ \A v \in Vaults : AttemptOrder(v)'
           /\ due' \subseteq Snapshots
           /\ \A s \in due' : SnapshotOrder(s)'
  <1>0. /\ attempt \in [Vaults -> Attempts \cup {Idle}]
        /\ due \subseteq Snapshots /\ TypeOK
        /\ evidence \in [Delegations -> [batch : Batches \cup {NoBatch},
                                         nonces : SUBSET NonceEvents, stream : SUBSET Events]]
    BY Zenon DEF RenewalInv, RenewalTypes
  <1> DEFINE Listed == due' \subseteq Snapshots /\ \A s \in due' : SnapshotOrder(s)'
             Running == /\ attempt' \in [Vaults -> Attempts \cup {Idle}]
                        /\ \A v \in Vaults : AttemptOrder(v)'
  <1>1. ASSUME due' \subseteq due PROVE Listed
    <2> SUFFICES ASSUME NEW s \in due' PROVE s \in Snapshots /\ SnapshotOrder(s)'
      BY Zenon
    <2>1. s \in Snapshots /\ SnapshotOrder(s)
      BY <1>0, <1>1, Zenon DEF RenewalInv
    <2>2. delegation[s.op].events \subseteq delegation'[s.op].events
      BY <2>1, JournalMoves, Zenon DEF Snapshots
    <2> QED
      BY <2>1, <2>2, Zenon DEF SnapshotOrder
  <1>2. ASSUME UNCHANGED attempt PROVE Running
    BY <1>0, <1>2, AttemptKept, Zenon
  <1>3. CASE ListSpendingDelegations
    <2>1. Running
      BY <1>2, <1>3, Zenon DEF ListSpendingDelegations
    <2>2. Listed
      <3> SUFFICES ASSUME NEW s \in due' PROVE s \in Snapshots /\ SnapshotOrder(s)'
        OBVIOUS
      <3>1. PICK d \in Delegations :
               s = [op |-> d, saved |-> delegation[d].events, stream |-> evidence[d].stream]
        BY <1>3, Zenon DEF ListSpendingDelegations
      <3>2. /\ delegation[d].events \in SUBSET DelegationPhases
            /\ evidence[d].stream \in SUBSET Events
        BY <1>0, Zenon DEF TypeOK, DelegationRow
      <3>3. evidence[d].stream # {} => "batch_started" \in delegation[d].events
        BY Zenon DEF RenewalInv, JournalOrder, Has
      <3>4. delegation'[d].events = delegation[d].events
        BY <1>3, Zenon DEF ListSpendingDelegations, vars
      <3> QED
        BY <3>1, <3>2, <3>3, <3>4, Zenon DEF Snapshots, SnapshotOrder
    <2> QED
      BY <2>1, <2>2, Zenon
  <1>4. CASE dispatchDueSpendingDelegationAttempts
    <2>1. PICK s \in due :
             /\ due' = due \ {s}
             /\ \/ UNCHANGED attempt
                \/ attempt' = [attempt EXCEPT ![VaultOf[s.op]] =
                                  [step |-> "begin", op |-> s.op, saved |-> s.saved,
                                   replay |-> s.stream, handled |-> {}, batch |-> NoBatch,
                                   prepared |-> FALSE]]
      BY <1>4, Zenon DEF dispatchDueSpendingDelegationAttempts
    <2>2. Listed
      BY <1>1, <2>1, Zenon
    <2>3. CASE UNCHANGED attempt
      BY <1>2, <2>2, <2>3, Zenon
    <2>4. CASE ~UNCHANGED attempt
      <3>1. PICK d \in Delegations : d = s.op
        BY <1>0, Zenon DEF Snapshots
      <3>2. PICK v \in Vaults : v = VaultOf[d]
        BY LifecycleAssumption, Zenon DEF Lifecycles
      <3> DEFINE new == [step |-> "begin", op |-> s.op, saved |-> s.saved,
                         replay |-> s.stream, handled |-> {}, batch |-> NoBatch,
                         prepared |-> FALSE]
      <3>3. attempt' = [attempt EXCEPT ![v] = new]
        BY <2>1, <2>4, <3>1, <3>2, Zenon
      <3>4. new \in Attempts
        BY <1>0, Zenon DEF Attempts, Snapshots, EarlySteps
      <3>5. attempt' \in [Vaults -> Attempts \cup {Idle}] /\ attempt'[v] = new
        BY <1>0, <3>3, <3>4, Zenon
      <3>6. s.saved \subseteq delegation'[d].events /\ (s.stream # {} => "batch_started" \in s.saved)
        BY <3>1, JournalMoves, Zenon DEF RenewalInv, SnapshotOrder
      <3>7. "begin" \notin BatchSteps \cup {"commit_nonces", "sign", "register", "submit", "deleted"}
        BY Zenon DEF BatchSteps
      <3>8. AttemptOrder(v)'
        BY <3>1, <3>5, <3>6, <3>7, AttemptIntro, SMTT(30)
      <3>9. \A u \in Vaults \ {v} : attempt'[u] = attempt[u]
        BY <1>0, <3>3, Zenon
      <3> QED
        BY <2>2, <3>5, <3>8, <3>9, AttemptKept, Zenon
    <2> QED
      BY <2>3, <2>4, Zenon
  <1>5. CASE StopSpendingDelegation
    BY <1>1, <1>5, Zenon DEF StopSpendingDelegation, AttemptOrder
  <1>6. CASE Environment \/ UNCHANGED renewalVars
    <2>1. UNCHANGED <<attempt, due>>
      BY <1>6, Zenon DEF Environment, Routes, scheduleSpendingDelegationSet,
         cancelSpendingDelegationAttempt, Tick, CoinExits, OperatorSelects, OperatorFailsBatch,
         OperatorSettles, executorVars, renewalVars
    <2> QED
      BY <1>1, <1>2, <2>1, Zenon
  <1>7. ASSUME NEW v \in Vaults, Execute(v) PROVE Running /\ Listed
    BY <1>1, <1>7, ExecuteStep, Zenon
  <1> QED
    BY <1>3, <1>4, <1>5, <1>6, <1>7, Zenon DEF RenewalNext
-----------------------------------------------------------------------------
(* The inductive invariant and what follows from it.                       *)

(* Nothing is journalled, running or sent at the start.                    *)
LEMMA RenewalInitial == RenewalInit => RenewalInv
  <1> SUFFICES ASSUME RenewalInit PROVE RenewalInv
    BY Zenon
  <1>1. TypeOK
    BY Zenon DEF RenewalInit, Init, TypeOK, Time, VtxoRow, VtxoStates, RenewalRow, DelegationRow
  <1>2. RenewalTypes
    BY <1>1, Zenon DEF RenewalInit, RenewalTypes
  <1>3. ASSUME NEW d \in Delegations PROVE JournalOrder(d) /\ IntentOrder(d)
    BY Zenon DEF RenewalInit, Init, JournalOrder, IntentOrder, Has
  <1>4. (\A s \in due : SnapshotOrder(s)) /\ (\A v \in Vaults : AttemptOrder(v)) /\ SignedOrder
    BY Zenon DEF RenewalInit, AttemptOrder, SignedOrder
  <1> QED
    BY <1>2, <1>3, <1>4, Zenon DEF RenewalInv

(* At every moment the journals, the attempts and the Operator agree.      *)
THEOREM RenewalInvariant == RenewalSpec => []RenewalInv
  <1>1. ASSUME RenewalInv, [RenewalNext]_renewalVars PROVE RenewalInv'
    <2>1. RenewalTypes'
      BY <1>1, LedgerTypes, AttemptStep, Zenon
         DEF RenewalTypes, Attempts, Snapshots, Idle, NonceEvents, Batches, NoBatch
    <2>2. \A d \in Delegations : JournalOrder(d)' /\ IntentOrder(d)'
      BY <1>1, JournalStep, Zenon
    <2>3. (\A s \in due : SnapshotOrder(s))' /\ (\A v \in Vaults : AttemptOrder(v)')
      BY <1>1, AttemptStep, Zenon
    <2>4. SignedOrder'
      BY <1>1, SignedStep, Zenon
    <2> QED
      BY <2>1, <2>2, <2>3, <2>4, Zenon DEF RenewalInv
  <1> QED
    BY <1>1, RenewalInitial, PTL DEF RenewalSpec

(* The nonces drawn for a renewal's tree sign at most one challenge, over  *)
(* restarts, stale snapshots, failed batches and streams that send other   *)
(* nonces (signSpendingDelegationTree, nonces_committed).                  *)
THEOREM NoncesSignOneChallenge == RenewalSpec => []OneChallengePerNonce
  <1>1. RenewalInv => OneChallengePerNonce
    <2> SUFFICES ASSUME RenewalInv, NEW x \in signed, NEW y \in signed, x.op = y.op
                 PROVE  x = y
      BY Zenon DEF OneChallengePerNonce
    <2>1. x \in [op : Delegations, batch : Batches, nonces : SUBSET NonceEvents]
          /\ y \in [op : Delegations, batch : Batches, nonces : SUBSET NonceEvents]
      BY Zenon DEF RenewalInv, RenewalTypes
    <2>2. x.batch = y.batch /\ x.nonces = y.nonces
      BY Zenon DEF RenewalInv, SignedOrder
    <2> QED
      BY <2>1, <2>2
  <1> QED
    BY <1>1, RenewalInvariant, PTL

(* A renewal's forfeit leaves for one commitment, and a renewal whose      *)
(* forfeit has left ends confirmed or not at all (submitLightForfeit after *)
(* final_dispatched; no phase that gives up is accepted after it).         *)
THEOREM ForfeitLeavesForGood == RenewalSpec => []ForfeitedIsKept
  <1>1. RenewalInv => ForfeitedIsKept
    <2> SUFFICES ASSUME RenewalInv PROVE ForfeitedIsKept
      BY Zenon
    <2>1. ASSUME NEW f \in forfeits, NEW g \in forfeits, f.op = g.op PROVE f = g
      <3>1. /\ f \in [op : Delegations, batch : Batches] /\ g \in [op : Delegations, batch : Batches]
        BY Zenon DEF RenewalInv, RenewalTypes
      <3>2. f.batch = g.batch
        BY <2>1, Zenon DEF RenewalInv, SignedOrder
      <3> QED
        BY <2>1, <3>1, <3>2
    <2>2. ASSUME NEW f \in forfeits, delegationTerminal(f.op) PROVE Has(f.op, "confirmed")
      <3>1. f.op \in Delegations /\ Has(f.op, "final_dispatched")
        BY Zenon DEF RenewalInv, RenewalTypes, SignedOrder
      <3>2. JournalOrder(f.op) /\ Has(f.op, "final_authorized")
        BY <3>1, PhaseChain, Zenon DEF RenewalInv
      <3> QED
        BY <2>2, <3>2, Zenon DEF JournalOrder, delegationTerminal, Has
    <2> QED
      BY <2>1, <2>2, Zenon DEF ForfeitedIsKept
  <1> QED
    BY <1>1, RenewalInvariant, PTL

(* A renewal that was cancelled, expired or sent back for authorization is *)
(* not held by the Operator: it was never dispatched, or its deletion was  *)
(* carried out before the journal said so.                                 *)
THEOREM ReleasedIsUnqueued == RenewalSpec => []ReleasedUnqueued
  <1>1. RenewalInv => ReleasedUnqueued
    <2> SUFFICES ASSUME RenewalInv, NEW d \in Delegations,
                        Has(d, "cancelled") \/ Has(d, "expired") \/ Has(d, "needs_authorization")
                 PROVE  ~AtOperator(d)
      BY Zenon DEF ReleasedUnqueued, Has
    <2>1. JournalOrder(d) /\ IntentOrder(d)
      BY Zenon DEF RenewalInv
    <2> QED
      BY <2>1, Zenon DEF JournalOrder, IntentOrder, AtOperator
  <1> QED
    BY <1>1, RenewalInvariant, PTL
-----------------------------------------------------------------------------
(* The refinement of the ledger.  DelegatedRenewal and SpendingLedger      *)
(* build their calls from the same definitions; under the instance these   *)
(* are symbols of their own, so each call is first shown to be the same.   *)

(* What the ledger counts in the window is the same sum.                   *)
LEMMA SameOutflow ==
    ASSUME NEW v
    PROVE  spentInWindow(v, vtxo) = Ledger!spentInWindow(v, vtxo)
  <1>1. ChargedLifecycles(vtxo) = Ledger!ChargedLifecycles(vtxo)
    BY Zenon DEF ChargedLifecycles, Ledger!ChargedLifecycles, VtxoCharged, Ledger!VtxoCharged,
       spendingRenewalCharged, Ledger!spendingRenewalCharged,
       delegationCharged, Ledger!delegationCharged,
       renewalTerminal, Ledger!renewalTerminal, delegationTerminal, Ledger!delegationTerminal,
       vtxoStateAwaitingSettlement, Ledger!vtxoStateAwaitingSettlement,
       vtxoStateCountsTowardAllowance, Ledger!vtxoStateCountsTowardAllowance
  <1>2. ASSUME NEW ls PROVE addOutflow(ls) = Ledger!addOutflow(ls)
    BY Zenon DEF addOutflow, Ledger!addOutflow, MapThenSumSet, Ledger!MapThenSumSet,
       MapThenFoldSet, Ledger!MapThenFoldSet
  <1> QED
    BY <1>1, <1>2, Zenon DEF spentInWindow, Ledger!spentInWindow

(* The fences of a reservation, of a schedule and of a claim are the same. *)
LEMMA SameFences ==
    /\ \A v : rejectActiveSpendingRenewal(v) = Ledger!rejectActiveSpendingRenewal(v)
    /\ \A v : rejectDispatchedDelegation(v) = Ledger!rejectDispatchedDelegation(v)
    /\ \A v : rejectConcurrentVtxoOperation(v, vtxo)
                 = Ledger!rejectConcurrentVtxoOperation(v, vtxo)
    /\ \A d : delegationTerminal(d) = Ledger!delegationTerminal(d)
    /\ NowUTC = Ledger!NowUTC
  BY Zenon DEF rejectActiveSpendingRenewal, Ledger!rejectActiveSpendingRenewal,
     rejectDispatchedDelegation, Ledger!rejectDispatchedDelegation,
     rejectConcurrentVtxoOperation, Ledger!rejectConcurrentVtxoOperation,
     vtxoStateBlocksNewOperation, Ledger!vtxoStateBlocksNewOperation,
     renewalTerminal, Ledger!renewalTerminal, delegationTerminal, Ledger!delegationTerminal,
     NowUTC, Ledger!NowUTC

(* A set armed by the owner is a set armed in the ledger.                  *)
LEMMA SameSchedule ==
    ASSUME NEW v \in Vaults, NEW ds \in SUBSET Delegations, ScheduleVtxoDelegationSet(v, ds)
    PROVE  Ledger!ScheduleVtxoDelegationSet(v, ds)
  <1>1. \A d, t : validateDelegation(d, t) = Ledger!validateDelegation(d, t)
    BY Zenon DEF validateDelegation, Ledger!validateDelegation
  <1>2. \A d : rejectDelegationPaymentOverlap(d) = Ledger!rejectDelegationPaymentOverlap(d)
    BY Zenon DEF rejectDelegationPaymentOverlap, Ledger!rejectDelegationPaymentOverlap,
       vtxoStateBlocksNewOperation, Ledger!vtxoStateBlocksNewOperation
  <1>3. Unfinished(v) = Ledger!Unfinished(v)
    BY SameFences, Zenon DEF Unfinished, Ledger!Unfinished
  <1>4. \A n : advanceSignCount(v, n) = Ledger!advanceSignCount(v, n)
    BY Zenon DEF advanceSignCount, Ledger!advanceSignCount
  <1>5. ASSUME NEW S PROVE Cardinality(S) = Ledger!Cardinality(S)
    BY Zenon DEF Cardinality, Ledger!Cardinality
  <1> QED
    BY <1>1, <1>2, <1>3, <1>4, <1>5, SameFences, Zenon
       DEF ScheduleVtxoDelegationSet, Ledger!ScheduleVtxoDelegationSet,
           worldVars, Ledger!worldVars

(* A phase appended by an attempt or by a cancellation is one the ledger   *)
(* accepts, and a claim one that it admits.                                *)
LEMMA SameAdvance ==
    ASSUME NEW d \in Delegations, NEW e \in DelegationPhases, AdvanceSpendingDelegation(d, e)
    PROVE  Ledger!AdvanceSpendingDelegation(d, e)
  <1>1. WithinAllowance(d, vtxo) = Ledger!WithinAllowance(d, vtxo)
    BY SameOutflow, Zenon DEF WithinAllowance, Ledger!WithinAllowance
  <1>2. ClaimAdmitted(d) = Ledger!ClaimAdmitted(d)
    BY <1>1, SameFences, Zenon DEF ClaimAdmitted, Ledger!ClaimAdmitted
  <1>3. DelegationAccepts(d, e) = Ledger!DelegationAccepts(d, e)
    BY <1>2, SameFences, Zenon DEF DelegationAccepts, Ledger!DelegationAccepts,
       CleanupPhases, Ledger!CleanupPhases, predecessors, Ledger!predecessors,
       VaultBoardRegisterCanSupersede, Ledger!VaultBoardRegisterCanSupersede
  <1>4. \A t : DelegationEvidence(d, e, t) = Ledger!DelegationEvidence(d, e, t)
    BY Zenon DEF DelegationEvidence, Ledger!DelegationEvidence, Never, Ledger!Never
  <1> QED
    BY <1>3, <1>4, SameFences, Zenon
       DEF AdvanceSpendingDelegation, Ledger!AdvanceSpendingDelegation,
           worldVars, Ledger!worldVars

(* A coin that leaves is the coin of an armed renewal.                     *)
LEMMA ExitIsElsewhere ==
    ASSUME CoinExits
    PROVE  \E c \in Coins : Ledger!SpendElsewhere(c)
  <1>1. PICK d \in Delegations, c \in Coins :
           Armed(d) /\ c \in Inputs[d] /\ Unspent(c) /\ exited' = exited \cup {c}
    BY Zenon DEF CoinExits
  <1>2. d \in Ledger!Lifecycles /\ Ledger!Armed(d)
    BY <1>1, Zenon DEF Ledger!Lifecycles, Armed, Ledger!Armed
  <1>3. Ledger!Unspent(c)
    BY <1>1, Zenon DEF Unspent, Ledger!Unspent, Lifecycles, Ledger!Lifecycles, Never, Ledger!Never
  <1> QED
    BY <1>1, <1>2, <1>3, Zenon DEF CoinExits, Ledger!SpendElsewhere, ledgerVars, Ledger!ledgerVars

(* A forfeit the Operator executes is of a renewal the ledger takes for    *)
(* committed, and nothing excludes it.                                     *)
LEMMA SettlesInLedger ==
    ASSUME RenewalInv, OperatorSettles
    PROVE  \E l \in Ledger!Lifecycles : Ledger!Settle(l)
  <1>1. PICK f \in forfeits : /\ settled[f.op] = Never /\ liveRenewalInput(f.op)
                              /\ settled' = [settled EXCEPT ![f.op] = now]
    BY Zenon DEF OperatorSettles
  <1>2. f.op \in Delegations /\ Has(f.op, "final_dispatched")
    BY Zenon DEF RenewalInv, RenewalTypes, SignedOrder
  <1>3. f.op \in Ledger!Lifecycles /\ f.op \notin Renewals
    BY <1>2, LifecycleAssumption, Zenon DEF Ledger!Lifecycles
  <1>4. Ledger!Committed(f.op)
    BY <1>2, Zenon DEF Ledger!Committed, Has
  <1>5. ~Ledger!Excluded(f.op)
    BY <1>1, <1>3, Zenon DEF liveRenewalInput, Unspent, Ledger!Unspent, Ledger!Excluded,
       Lifecycles, Ledger!Lifecycles, Never, Ledger!Never
  <1> QED
    BY <1>1, <1>3, <1>4, <1>5, Zenon DEF OperatorSettles, Ledger!Settle,
       ledgerVars, Ledger!ledgerVars, Never, Ledger!Never

(* Every step of the renewals is a step of the ledger or changes nothing   *)
(* in it.                                                                  *)
LEMMA LedgerStep ==
    ASSUME RenewalInv, [RenewalNext]_renewalVars
    PROVE  [Ledger!Next]_(Ledger!vars)
  <1>1. ASSUME UNCHANGED vars PROVE UNCHANGED Ledger!vars
    BY <1>1, Zenon DEF vars, Ledger!vars
  <1>2. ASSUME NEW d \in Delegations, NEW e \in DelegationPhases, AdvanceSpendingDelegation(d, e)
        PROVE  Ledger!Next
    <2>1. e \in Ledger!DelegationPhases
      BY Zenon DEF DelegationPhases, Ledger!DelegationPhases
    <2> QED
      BY <1>2, <2>1, SameAdvance, Zenon DEF Ledger!Next, Ledger!DelegationStep
  <1>3. ASSUME NEW d \in Delegations, NEW e \in DelegationPhases, advance(d, e)
        PROVE  [Ledger!Next]_(Ledger!vars)
    BY <1>1, <1>2, <1>3, Zenon DEF advance
  <1>4. ASSUME NEW d \in Delegations,
               \/ \E e \in DelegationPhases : Advances(d, e)
               \/ \E b \in Batches : StartsBatch(d, b)
               \/ \E nonces \in SUBSET NonceEvents : CommitsNonces(d, nonces)
        PROVE  [Ledger!Next]_(Ledger!vars)
    BY <1>2, <1>3, <1>4, Zenon DEF Advances, StartsBatch, CommitsNonces, DelegationPhases
  <1>5. ASSUME NEW d \in Delegations,
               \/ \E e \in Events : Hears(d, e)
               \/ Registers(d) \/ Deletes(d) \/ Signs(d) \/ Forfeits(d)
        PROVE  UNCHANGED Ledger!vars
    BY <1>1, <1>5, Zenon DEF Hears, Registers, Deletes, Signs, Forfeits
  <1>6. CASE Quiet \/ OperatorSelects \/ OperatorFailsBatch
    BY <1>1, <1>6, Zenon DEF Quiet, OperatorSelects, OperatorFailsBatch
  <1>7. CASE scheduleSpendingDelegationSet
    BY <1>7, SameSchedule, Zenon
       DEF scheduleSpendingDelegationSet, Ledger!Next, Ledger!DelegationStep
  <1>8. CASE Tick
    <2>1. Ledger!Tick
      BY <1>8, Zenon
         DEF Tick, Ledger!Tick, ledgerVars, worldVars, Ledger!ledgerVars, Ledger!worldVars
    <2> QED
      BY <2>1, Zenon DEF Ledger!Next
  <1>9. CASE CoinExits \/ OperatorSettles
    BY <1>9, ExitIsElsewhere, SettlesInLedger, Zenon DEF Ledger!Next
  <1> QED
    BY <1>4, <1>5, <1>6, <1>7, <1>8, <1>9, RenewalMoves, Zenon

(* The executor, resuming at any phase from any snapshot, the owner, the   *)
(* Operator and the chain together implement the specification of the      *)
(* ledger (SpendingLedger): what is proved of every lifecycle there, the   *)
(* vault-wide fence and the allowance above all, holds of renewals as      *)
(* they are really driven.                                                 *)
THEOREM RenewalsImplementLedger == RenewalSpec => ImplementsLedger
  <1>1. RenewalInit => Ledger!Init
    BY Zenon DEF RenewalInit, Init, Ledger!Init, Never, Ledger!Never, Lifecycles, Ledger!Lifecycles
  <1>2. RenewalInv /\ [RenewalNext]_renewalVars => [Ledger!Next]_(Ledger!vars)
    BY LedgerStep, Zenon
  <1> QED
    BY <1>1, <1>2, RenewalInvariant, PTL DEF RenewalSpec, ImplementsLedger, Ledger!Spec
=============================================================================
