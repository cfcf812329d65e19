--------------------------- MODULE DelegatedRenewal ---------------------------
(***************************************************************************)
(* Delegated renewals as the executor runs them.  A dispatcher lists the   *)
(* journal every 30 s and starts one attempt per vault for what is due.    *)
(* An attempt works from the snapshot it was given: it claims, signs and   *)
(* registers the intent, joins the Operator's batch over a live event      *)
(* stream, signs the tree, releases the forfeit, and resumes at whatever   *)
(* phase the journal had reached when an earlier attempt ended.  Every     *)
(* event of the batch is journalled before it is handled, and an attempt   *)
(* first replays what is journalled.  A live event nobody listens to is    *)
(* lost.  A batch stands for its tree, commitment and connectors.          *)
(***************************************************************************)
EXTENDS DelegationLedger

CONSTANTS
    Rank,           \* the order of operation ids, which the listing follows
    Nodes,          \* tree nodes the Guardian signs
    PeerNonces,     \* values of the other cosigners' nonces of a node
    MaxBatch,       \* batches the Operator may select an intent into
    MaxActive,      \* attempts that may run together
    MaxTranscript,  \* stream events a journal holds
    OperatorSkew    \* how far the Operator's clock may lag on an expiry

ASSUME RenewalAssumption ==
    /\ Rank \in [Delegations -> Nat]
    /\ MaxBatch \in Nat /\ MaxActive \in Nat /\ MaxTranscript \in Nat
    /\ OperatorSkew \in 0..Quarantine

VARIABLES
    evidence,   \* what the journalled phases of each renewal are bound to
    attempt,    \* the attempt running in each vault
    due,        \* snapshots the dispatcher has listed and not looked at yet
    intent,     \* each renewal's intent at the Operator
    signed,     \* challenges the MuSig nonces of a renewal have signed
    forfeits    \* forfeits released to the Operator

executorVars == <<attempt, due>>
operatorVars == <<intent, signed, forfeits>>
renewalVars == <<vars, evidence, attempt, due, operatorVars>>

Batches == 1..MaxBatch
NoBatch == 0
Whole == "whole"

(* Stream events, each with the part of the tree it names.                 *)
Event(kind, node, value) == [kind |-> kind, node |-> node, value |-> value]
Events ==
    {Event(k, Whole, Whole) : k \in {"tree", "connectors", "signing_started",
                                     "signatures", "finalization"}}
        \cup {Event("nonce", n, x) : n \in Nodes, x \in PeerNonces}

rank(e) ==
    CASE e.kind \in {"tree", "connectors"} -> 0
      [] e.kind = "signing_started" -> 1
      [] e.kind = "nonce" -> 2
      [] e.kind = "signatures" -> 3
      [] e.kind = "finalization" -> 4

Idle == [step |-> "idle"]

RenewalInit ==
    /\ Init
    /\ evidence = [d \in Delegations |-> [batch |-> NoBatch, nonces |-> {}, stream |-> {}]]
    /\ attempt = [v \in Vaults |-> Idle]
    /\ due = {}
    /\ intent = [d \in Delegations |-> [place |-> "none", batch |-> NoBatch]]
    /\ signed = {}
    /\ forfeits = {}
-----------------------------------------------------------------------------
(* The journal.                                                            *)

Has(d, phase) == phase \in delegation[d].events
Complete(nonces) == {e.node : e \in nonces} = Nodes

(* advanceSpendingDelegationAttempt: the phase is appended, or is found    *)
(* with the same evidence.  An ended or abandoned renewal takes no replay  *)
(* of an earlier phase.                                                    *)
advance(d, e) ==
    \/ AdvanceSpendingDelegation(d, e)
    \/ /\ Has(d, e)
       /\ delegationTerminal(d) => e \in {"confirmed", "expired", "needs_authorization",
                                            "rejected"}
       /\ Has(d, "cleanup_pending") => e \in CleanupPhases \cup {"expired"}
       /\ UNCHANGED vars

(* Mutant: a phase that is already bound takes the new evidence.           *)
Rebind(old, unset, new) == TRUE

(* A phase keeps the evidence it was first journalled with.                *)
Bound(old, unset, new) == old \in {unset, new}

SameEvent(e, f) == e.kind = f.kind /\ e.node = f.node

(* The stream phase of event e: its predecessor is journalled, the value   *)
(* is new or the same, and the transcript has room.                        *)
validDelegationStreamPhase(d, e) ==
    /\ ~delegationTerminal(d) /\ ~Has(d, "cleanup_pending")
    /\ Has(d, IF e.kind = "nonce" THEN "tree_prepared"
              ELSE IF e.kind \in {"signatures", "finalization"} THEN "tree_signed"
              ELSE "batch_started")
    /\ \A f \in evidence[d].stream : SameEvent(e, f) => Bound(f.value, Whole, e.value)
    /\ e \in evidence[d].stream \/ Cardinality(evidence[d].stream) < MaxTranscript

Journal(d, e) ==
    evidence' = [evidence EXCEPT ![d].stream = {f \in @ : ~SameEvent(e, f)} \cup {e}]
-----------------------------------------------------------------------------
(* Attempts.                                                               *)

At(v, step) == attempt[v].step = step
Op(v) == attempt[v].op
Saved(v, phase) == phase \in attempt[v].saved
GoTo(v, step) == attempt' = [attempt EXCEPT ![v].step = step]
Reload(v, step) ==
    attempt' = [attempt EXCEPT ![v].step = step, ![v].saved = delegation'[Op(v)].events]
End(v) == attempt' = [attempt EXCEPT ![v] = Idle]
liveRenewalInput(d) == \A c \in Inputs[d] : Unspent(c)

(* Mutant: an attempt that ends in an error keeps its vault marked active. *)
FailActive(v) ==
    /\ attempt[v] # Idle
    /\ attempt' = [attempt EXCEPT ![v].step = "failed"]
    /\ UNCHANGED <<vars, evidence, due, operatorVars>>

(* The attempt ends: an error, a refusal, a closed stream, its timeout.    *)
Fail(v) ==
    /\ attempt[v] # Idle
    /\ End(v)
    /\ UNCHANGED <<vars, evidence, due, operatorVars>>

(* The process stops: every attempt ends and what was listed is forgotten. *)
StopSpendingDelegation ==
    /\ due # {} \/ \E v \in Vaults : attempt[v] # Idle
    /\ attempt' = [v \in Vaults |-> Idle]
    /\ due' = {}
    /\ UNCHANGED <<vars, evidence, operatorVars>>

(* dispatchDueSpendingDelegationAttempts lists the journal once ...        *)
ListSpendingDelegations ==
    LET ds == {d \in Delegations : delegation[d].stored /\ ~delegationTerminal(d)
                                                       /\ ValidAt[d] <= now}
    IN  /\ due = {} /\ ds # {}
        /\ due' = {[op |-> d, saved |-> delegation[d].events,
                    stream |-> evidence[d].stream] : d \in ds}
        /\ UNCHANGED <<vars, evidence, attempt, operatorVars>>

(* ... and takes the snapshots in order, each when its vault is free.      *)
dispatchDueSpendingDelegationAttempts ==
    \E s \in due :
        LET v == VaultOf[s.op]
            free == attempt[v] = Idle
                    /\ Cardinality({u \in Vaults : attempt[u] # Idle}) < MaxActive
        IN  /\ \A o \in due : Rank[s.op] <= Rank[o.op]
            /\ due' = due \ {s}
            /\ attempt' = IF free
                          THEN [attempt EXCEPT ![v] =
                                  [step |-> "begin", op |-> s.op, saved |-> s.saved,
                                   replay |-> s.stream, handled |-> {}, batch |-> NoBatch,
                                   prepared |-> FALSE]]
                          ELSE attempt
            /\ UNCHANGED <<vars, evidence, operatorVars>>
-----------------------------------------------------------------------------
(* executeSpendingDelegationAttempt: where the snapshot says to resume.    *)

Superseded(v) ==
    ~Saved(v, "final_authorized") /\ VaultBoardRegisterCanSupersede(Op(v))

Resumes(v) == At(v, "begin") /\ ~Saved(v, "cleanup_pending")

(* The owner's authorization has run out and the coin is still there: what *)
(* was never dispatched ends, what was is cleaned up at the Operator.      *)
Abandon(v) ==
    /\ Resumes(v) /\ Superseded(v)
    /\ liveRenewalInput(Op(v))
    /\ IF Saved(v, "register_dispatched")
       THEN advance(Op(v), "cleanup_pending") /\ Reload(v, "cleanup")
       ELSE advance(Op(v), "expired") /\ End(v)
    /\ UNCHANGED <<evidence, due, operatorVars>>

(* reconcileSpendingDelegation: the chain shows the commitment.            *)
Reconcile(v) ==
    /\ (Resumes(v) /\ Saved(v, "final_authorized")) \/ (At(v, "join") /\ attempt[v].replay = {})
    /\ Has(Op(v), "final_authorized") /\ settled[Op(v)] # Never
    /\ advance(Op(v), "confirmed")
    /\ End(v)
    /\ UNCHANGED <<evidence, due, operatorVars>>

ResumeFinal(v) ==
    /\ Resumes(v) /\ Saved(v, "final_authorized") /\ ~Saved(v, "final_result")
    /\ GoTo(v, "final")
    /\ UNCHANGED <<vars, evidence, due, operatorVars>>

Unsigned(v) ==
    /\ Resumes(v) /\ ~Superseded(v)
    /\ ~Saved(v, "final_authorized") /\ ~Saved(v, "register_authorized")
    /\ liveRenewalInput(Op(v)) /\ now < ExpiresAt[Op(v)]

(* The Operator's fee is not the one the owner signed.                     *)
FeeChanged(v) ==
    /\ Unsigned(v)
    /\ advance(Op(v), "needs_authorization")
    /\ End(v)
    /\ UNCHANGED <<evidence, due, operatorVars>>

claimSpendingDelegationAttempt(v) ==
    /\ Unsigned(v) /\ ~Saved(v, "claimed")
    /\ advance(Op(v), "claimed")
    /\ Reload(v, "authorize")
    /\ UNCHANGED <<evidence, due, operatorVars>>

authorizeSpendingDelegation(v) ==
    /\ At(v, "authorize") \/ (Unsigned(v) /\ Saved(v, "claimed"))
    /\ advance(Op(v), "register_authorized")
    /\ Reload(v, "subscribe")
    /\ UNCHANGED <<evidence, due, operatorVars>>

(* The event stream is open before the intent is registered.               *)
Subscribed(v) ==
    \/ At(v, "subscribe")
    \/ /\ Resumes(v) /\ ~Superseded(v)
       /\ ~Saved(v, "final_authorized") /\ Saved(v, "register_authorized")

(* The dispatch is journalled, or found journalled.                        *)
DispatchRegister(v) ==
    /\ Subscribed(v) /\ ~Saved(v, "register_dispatched")
    /\ advance(Op(v), "register_dispatched")
    /\ Reload(v, "register")
    /\ UNCHANGED <<evidence, due, operatorVars>>

(* registerIntent: the Operator takes one intent per input before its      *)
(* expiry and rejects any other; either answer may be lost.                *)
registerIntent(v) ==
    LET d == Op(v)
        taken == intent[d].place = "none" /\ now < ExpiresAt[d] + OperatorSkew
    IN  /\ At(v, "register")
        /\ intent' = IF taken THEN [intent EXCEPT ![d].place = "queued"] ELSE intent
        /\ End(v) \/ GoTo(v, IF taken THEN "registered" ELSE "rejected")
        /\ UNCHANGED <<vars, evidence, due, signed, forfeits>>

(* The registration never reached the Operator.                            *)
LoseRegister(v) ==
    /\ At(v, "register")
    /\ End(v)
    /\ UNCHANGED <<vars, evidence, due, intent, signed, forfeits>>

RecordRegister(v) ==
    /\ \/ At(v, "registered") /\ advance(Op(v), "register_result") /\ Reload(v, "subscribe")
       \/ At(v, "rejected") /\ advance(Op(v), "rejected") /\ End(v)
    /\ UNCHANGED <<evidence, due, operatorVars>>
-----------------------------------------------------------------------------
(* joinSpendingDelegatedBatch.                                             *)

(* What the snapshot knows of the batch is loaded; its transcript is       *)
(* replayed before any live event.                                         *)
Join(v) ==
    /\ Subscribed(v)
    /\ Saved(v, "register_dispatched") /\ Saved(v, "register_result")
    /\ attempt' = [attempt EXCEPT
          ![v].step = "join", ![v].saved = {},
          ![v].batch = IF Saved(v, "batch_started") THEN evidence[Op(v)].batch ELSE NoBatch,
          ![v].prepared = Saved(v, "tree_prepared")]
    /\ UNCHANGED <<vars, evidence, due, operatorVars>>

InBatch(d, b) == intent[d] = [place |-> "batch", batch |-> b]

(* The batch that names the intent, never a second one; it is acknowledged. *)
BatchStarted(v) ==
    LET d == Op(v) IN
    \E b \in Batches :
        /\ At(v, "join") /\ attempt[v].replay = {}
        /\ InBatch(d, b)
        /\ attempt[v].batch \in {NoBatch, b}
        /\ Bound(evidence[d].batch, NoBatch, b)
        /\ advance(d, "batch_started")
        /\ evidence' = [evidence EXCEPT ![d].batch = b]
        /\ attempt' = [attempt EXCEPT ![v].batch = b]
        /\ UNCHANGED <<due, operatorVars>>

allNonces(v) == {e \in attempt[v].handled : e.kind = "nonce"}
Kinds(v) == {e.kind : e \in attempt[v].handled}

(* Event e is handled: a nonce must be of the prepared tree and be the one *)
(* seen before; the last of the nonces, the start of signing and the       *)
(* finalization call for more.                                             *)
Handle(v, e) ==
    IF e.kind = "nonce" /\ (\/ ~attempt[v].prepared
                            \/ \E f \in allNonces(v) : SameEvent(e, f) /\ e # f)
    THEN End(v)
    ELSE attempt' = [attempt EXCEPT
            ![v].handled = @ \cup {e},
            ![v].replay = @ \ {e},
            ![v].step =
                IF e.kind = "signing_started" THEN "prepare"
                ELSE IF e.kind = "finalization" THEN "finalize"
                ELSE IF e.kind = "nonce" /\ Complete(allNonces(v) \cup {e}) THEN "commit_nonces"
                ELSE "join"]

(* An event of the journal is taken up again, in the order of the ranks.   *)
replayDelegationStream(v) ==
    At(v, "join") /\ \E e \in attempt[v].replay :
        /\ \A f \in attempt[v].replay : rank(e) <= rank(f)
        /\ validDelegationStreamPhase(Op(v), e)
        /\ Handle(v, e)
        /\ UNCHANGED <<vars, evidence, due, operatorVars>>

(* A live event of the joined batch is journalled before it is handled.    *)
Receive(v) ==
    /\ At(v, "join") /\ attempt[v].replay = {}
    /\ attempt[v].batch # NoBatch /\ InBatch(Op(v), attempt[v].batch)
    /\ \E e \in Events :
          /\ validDelegationStreamPhase(Op(v), e)
          /\ Journal(Op(v), e)
          /\ Handle(v, e)
    /\ UNCHANGED <<vars, due, operatorVars>>

(* The tree is whole, pays the receiver and hangs off the commitment.      *)
verifyRenewalSigningTree(v) == "tree" \in Kinds(v) \/ attempt[v].prepared

(* Nonces are drawn for one tree only and stored before they are sent.     *)
prepareSpendingDelegationTree(v) ==
    /\ At(v, "prepare")
    /\ verifyRenewalSigningTree(v)
    /\ Has(Op(v), "tree_prepared") => attempt[v].prepared
    /\ advance(Op(v), "tree_prepared")
    /\ attempt' = [attempt EXCEPT ![v].step = "join", ![v].prepared = TRUE]
    /\ UNCHANGED <<evidence, due, operatorVars>>

(* The complete transcript is journalled; stored signatures are sent again. *)
CommitNonces(v) ==
    /\ At(v, "commit_nonces")
    /\ Bound(evidence[Op(v)].nonces, {}, allNonces(v))
    /\ advance(Op(v), "nonces_committed")
    /\ evidence' = [evidence EXCEPT ![Op(v)].nonces = allNonces(v)]
    /\ GoTo(v, IF Has(Op(v), "tree_signed") THEN "join" ELSE "sign")
    /\ UNCHANGED <<due, operatorVars>>

(* The key capability reads the journal itself before it opens the nonces. *)
verifyRenewalTranscript(v) ==
    LET d == Op(v) IN
    /\ Has(d, "tree_prepared") /\ Has(d, "nonces_committed")
    /\ ~Has(d, "final_authorized") /\ ~Has(d, "cleanup_pending") /\ ~delegationTerminal(d)
    /\ evidence[d].nonces = allNonces(v)

signSpendingDelegationTree(v) ==
    /\ At(v, "sign") /\ verifyRenewalTranscript(v)
    /\ signed' = signed \cup {[op |-> Op(v), batch |-> attempt[v].batch,
                               nonces |-> allNonces(v)]}
    /\ GoTo(v, "store_signatures")
    /\ UNCHANGED <<vars, evidence, due, intent, forfeits>>

StoreSignatures(v) ==
    /\ At(v, "store_signatures")
    /\ advance(Op(v), "tree_signed")
    /\ GoTo(v, "join")
    /\ UNCHANGED <<evidence, due, operatorVars>>
-----------------------------------------------------------------------------
(* The forfeit.                                                            *)

(* Every node of the prepared tree is signed and the connectors are whole. *)
verifyRenewalFinal(v) ==
    attempt[v].prepared /\ {"connectors", "signatures"} \subseteq Kinds(v)

(* Mutant: the forfeit is released before its authority is journalled.     *)
SubmitUnauthorized(v) ==
    /\ At(v, "finalize")
    /\ verifyRenewalFinal(v)
    /\ forfeits' = forfeits \cup {[op |-> Op(v), batch |-> attempt[v].batch]}
    /\ GoTo(v, "final")
    /\ UNCHANGED <<vars, evidence, due, intent, signed>>

(* The whole signed graph and its connectors are verified, then the one    *)
(* forfeit is signed and journalled.                                       *)
prepareSpendingDelegationFinal(v) ==
    /\ At(v, "finalize")
    /\ Has(Op(v), "final_authorized") \/ verifyRenewalFinal(v)
    /\ advance(Op(v), "final_authorized")
    /\ GoTo(v, IF Has(Op(v), "final_result") THEN "join" ELSE "final")
    /\ UNCHANGED <<evidence, due, operatorVars>>

(* The Operator does not report the commitment as ended: it does not know  *)
(* the commitment of a batch that is open or has failed, and the call may  *)
(* go on.                                                                  *)
requireUnendedCommitment(d) == settled[d] = Never

dispatchDelegationFinal(v) ==
    /\ At(v, "final")
    /\ requireUnendedCommitment(Op(v))
    /\ advance(Op(v), "final_dispatched")
    /\ GoTo(v, "submit")
    /\ UNCHANGED <<evidence, due, operatorVars>>

submitLightForfeit(v) ==
    /\ At(v, "submit")
    /\ forfeits' = forfeits \cup {[op |-> Op(v), batch |-> evidence[Op(v)].batch]}
    /\ End(v) \/ GoTo(v, "submitted")
    /\ UNCHANGED <<vars, evidence, due, intent, signed>>

RecordFinal(v) ==
    /\ At(v, "submitted")
    /\ advance(Op(v), "final_result")
    /\ IF attempt[v].batch = NoBatch THEN End(v) ELSE GoTo(v, "join")
    /\ UNCHANGED <<evidence, due, operatorVars>>
-----------------------------------------------------------------------------
(* cleanupSpendingDelegation.                                              *)

Cleans(v) == At(v, "cleanup") \/ (At(v, "begin") /\ Saved(v, "cleanup_pending"))

FinishCleanup(v) ==
    /\ Cleans(v) /\ Saved(v, "cleanup_result")
    /\ advance(Op(v), "expired")
    /\ End(v)
    /\ UNCHANGED <<evidence, due, operatorVars>>

authorizeSpendingDelegationDelete(v) ==
    /\ Cleans(v) /\ ~Saved(v, "cleanup_result") /\ ~Saved(v, "cleanup_authorized")
    /\ advance(Op(v), "cleanup_authorized")
    /\ Reload(v, "cleanup")
    /\ UNCHANGED <<evidence, due, operatorVars>>

DispatchDelete(v) ==
    /\ Cleans(v) /\ ~Saved(v, "cleanup_result") /\ Saved(v, "cleanup_authorized")
    /\ advance(Op(v), "cleanup_dispatched")
    /\ Reload(v, "delete")
    /\ UNCHANGED <<evidence, due, operatorVars>>

(* Mutant: no matching intent counts as deleted.                           *)
deleteIntentOrAbsent(v) ==
    LET d == Op(v) IN
    /\ At(v, "delete")
    /\ intent' = IF intent[d].place = "queued" THEN [intent EXCEPT ![d].place = "gone"] ELSE intent
    /\ GoTo(v, "deleted")
    /\ UNCHANGED <<vars, evidence, due, signed, forfeits>>

(* The Operator deletes a queued intent and no other; the answer may be    *)
(* lost, and only a positive one counts.                                   *)
deleteIntent(v) ==
    /\ At(v, "delete") /\ intent[Op(v)].place = "queued"
    /\ intent' = [intent EXCEPT ![Op(v)].place = "gone"]
    /\ End(v) \/ GoTo(v, "deleted")
    /\ UNCHANGED <<vars, evidence, due, signed, forfeits>>

RecordDelete(v) ==
    /\ At(v, "deleted")
    /\ advance(Op(v), "cleanup_result")
    /\ Reload(v, "cleanup")
    /\ UNCHANGED <<evidence, due, operatorVars>>
-----------------------------------------------------------------------------
(* The owner, the clock and the outside world.                             *)

scheduleSpendingDelegationSet ==
    /\ \E v \in Vaults, ds \in SUBSET Delegations \ {{}} : ScheduleVtxoDelegationSet(v, ds)
    /\ UNCHANGED <<evidence, executorVars, operatorVars>>

(* Mutant: a cancellation also ends a renewal the executor has claimed.    *)
cancelClaimed ==
    /\ \E d \in Delegations :
          /\ delegation[d].stored /\ ~delegationTerminal(d) /\ ~Has(d, "register_dispatched")
          /\ delegation' = [delegation EXCEPT ![d].events = @ \cup {"cancelled"}]
    /\ UNCHANGED <<now, vtxo, renewal, signCount, worldVars, evidence,
                   executorVars, operatorVars>>

cancelSpendingDelegationAttempt ==
    /\ \E d \in Delegations : AdvanceSpendingDelegation(d, "cancelled")
    /\ UNCHANGED <<evidence, executorVars, operatorVars>>

Tick ==
    /\ now < MaxTime
    /\ now' = now + 1
    /\ UNCHANGED <<ledgerVars, worldVars, evidence, executorVars, operatorVars>>

(* The owner leaves with a coin on chain.  Later than this it would only   *)
(* make the Operator or the executor refuse.                               *)
CoinExits ==
    /\ \E d \in Delegations, c \in Coins :
          /\ Armed(d) /\ c \in Inputs[d] /\ Unspent(c)
          /\ exited' = exited \cup {c}
    /\ UNCHANGED <<now, ledgerVars, settled, endedAt, conflicted,
                   evidence, executorVars, operatorVars>>

OperatorSelects ==
    /\ \E d \in Delegations :
          /\ intent[d].place = "queued" /\ intent[d].batch < MaxBatch
          /\ intent' = [intent EXCEPT ![d] = [place |-> "batch", batch |-> @.batch + 1]]
    /\ UNCHANGED <<vars, evidence, executorVars, signed, forfeits>>

OperatorFailsBatch ==
    /\ \E d \in Delegations :
          /\ intent[d].place = "batch" /\ settled[d] = Never
          /\ intent' = [intent EXCEPT ![d].place = "queued"]
    /\ UNCHANGED <<vars, evidence, executorVars, signed, forfeits>>

OperatorSettles ==
    /\ \E f \in forfeits :
          /\ InBatch(f.op, f.batch) /\ settled[f.op] = Never /\ liveRenewalInput(f.op)
          /\ settled' = [settled EXCEPT ![f.op] = now]
    /\ UNCHANGED <<now, ledgerVars, exited, endedAt, conflicted,
                   evidence, executorVars, operatorVars>>
-----------------------------------------------------------------------------
Execute(v) ==
    \/ Abandon(v) \/ Reconcile(v) \/ ResumeFinal(v) \/ FeeChanged(v)
    \/ claimSpendingDelegationAttempt(v) \/ authorizeSpendingDelegation(v)
    \/ DispatchRegister(v) \/ registerIntent(v) \/ LoseRegister(v) \/ RecordRegister(v)
    \/ Join(v) \/ BatchStarted(v) \/ replayDelegationStream(v) \/ Receive(v)
    \/ prepareSpendingDelegationTree(v) \/ CommitNonces(v)
    \/ signSpendingDelegationTree(v) \/ StoreSignatures(v)
    \/ prepareSpendingDelegationFinal(v) \/ dispatchDelegationFinal(v)
    \/ submitLightForfeit(v) \/ RecordFinal(v)
    \/ FinishCleanup(v) \/ authorizeSpendingDelegationDelete(v) \/ DispatchDelete(v)
    \/ deleteIntent(v) \/ RecordDelete(v)
    \/ Fail(v)

Routes == scheduleSpendingDelegationSet \/ cancelSpendingDelegationAttempt

Environment ==
    \/ Routes
    \/ Tick \/ CoinExits \/ OperatorSelects \/ OperatorFailsBatch \/ OperatorSettles

RenewalNext ==
    \/ ListSpendingDelegations
    \/ dispatchDueSpendingDelegationAttempts
    \/ \E v \in Vaults : Execute(v)
    \/ StopSpendingDelegation
    \/ Environment

(* The journal of d grows by one of the phases up to the dispatch.         *)
Progress(v, d) ==
    /\ \/ Abandon(v) \/ claimSpendingDelegationAttempt(v)
       \/ authorizeSpendingDelegation(v) \/ DispatchRegister(v)
    /\ Op(v) = d /\ delegation' # delegation

(* The ticker and the bounded lifetime of an attempt are the program's.    *)
(* A renewal is listed for ever, so the coin, the Operator and the ledger  *)
(* need only answer its attempts infinitely often.                         *)
Fairness ==
    /\ WF_renewalVars(Tick)
    /\ WF_renewalVars(ListSpendingDelegations)
    /\ SF_renewalVars(dispatchDueSpendingDelegationAttempts)
    /\ \A v \in Vaults : WF_renewalVars(Fail(v))
    /\ \A v \in Vaults, d \in Delegations : SF_renewalVars(Progress(v, d))

RenewalSpec == RenewalInit /\ [][RenewalNext]_renewalVars /\ Fairness
-----------------------------------------------------------------------------
(* Properties.                                                             *)

(* The MuSig nonces drawn for a renewal's tree never sign two challenges:  *)
(* across restarts, stale snapshots, failed batches and a stream that      *)
(* sends other nonces, every signature is of one batch and one complete    *)
(* transcript of peer nonces.                                              *)
OneChallengePerNonce ==
    \A x, y \in signed : x.op = y.op => x = y

(* A forfeit leaves the Guardian for one commitment only, and a renewal    *)
(* whose forfeit has left is never given up: it ends confirmed or not at   *)
(* all.                                                                    *)
ForfeitedIsKept ==
    /\ \A f, g \in forfeits : f.op = g.op => f = g
    /\ \A f \in forfeits : delegationTerminal(f.op) => Has(f.op, "confirmed")

AtOperator(d) == intent[d].place \in {"queued", "batch"}

(* A renewal is cancelled, expired or sent back for authorization only     *)
(* when the Operator no longer holds its intent: no batch can take a coin  *)
(* the vault has been given back.                                          *)
ReleasedUnqueued ==
    \A d \in Delegations :
        delegation[d].events \cap {"cancelled", "expired", "needs_authorization"} # {}
            => ~AtOperator(d)

(* A due renewal does not stay unsent for ever: it is dispatched or ends,  *)
(* unless its coin is gone or another renewal of its vault keeps taking    *)
(* the executor, being at the Operator or without its coin.                *)
Stuck(d) ==
    /\ delegation[d].stored /\ ~delegationTerminal(d)
    /\ Has(d, "register_dispatched") \/ ~liveRenewalInput(d)

DueResolved ==
    \A d \in Delegations :
        delegation[d].stored ~>
            \/ delegationTerminal(d)
            \/ \E f \in Delegations :
                  VaultOf[f] = VaultOf[d] /\ Stuck(f)

(* "An ambiguous dispatch never releases ownership": while the Operator    *)
(* holds its intent, no renewal has ended without being confirmed.         *)
AmbiguousDispatchKeepsOwnership ==
    \A d \in Delegations :
        AtOperator(d) /\ delegationTerminal(d) => Has(d, "confirmed")

(* The executor, the owner and the Operator together only do what the      *)
(* ledger's specification allows: whatever phase an attempt resumes at, it *)
(* takes the vault through a claim the ledger admits, appends one accepted *)
(* phase at a time, and a renewal is executed only once its dispatch row   *)
(* is stored and its coin is still there.                                  *)
Ledger == INSTANCE SpendingLedger
ImplementsLedger == Ledger!Spec
-----------------------------------------------------------------------------
(* Why the three invariants hold: their strengthening.                     *)

EarlySteps ==
    {"begin", "authorize", "subscribe", "register", "registered", "rejected",
     "cleanup", "delete", "deleted"}
BatchSteps ==
    {"join", "prepare", "commit_nonces", "sign", "store_signatures", "finalize"}
FinalSteps == {"final", "submit", "submitted"}

NonceEvents == {e \in Events : e.kind = "nonce"}

Snapshots == [op : Delegations, saved : SUBSET DelegationPhases, stream : SUBSET Events]
Attempts ==
    [step : EarlySteps \cup BatchSteps \cup FinalSteps, op : Delegations,
     saved : SUBSET DelegationPhases, replay : SUBSET Events, handled : SUBSET Events,
     batch : Batches \cup {NoBatch}, prepared : BOOLEAN]

RenewalTypes ==
    /\ TypeOK
    /\ evidence \in [Delegations -> [batch : Batches \cup {NoBatch},
                                     nonces : SUBSET NonceEvents, stream : SUBSET Events]]
    /\ attempt \in [Vaults -> Attempts \cup {Idle}]
    /\ due \subseteq Snapshots
    /\ intent \in [Delegations -> [place : {"none", "queued", "batch", "gone"},
                                   batch : Batches \cup {NoBatch}]]
    /\ signed \subseteq [op : Delegations, batch : Batches, nonces : SUBSET NonceEvents]
    /\ forfeits \subseteq [op : Delegations, batch : Batches]

(* The journal of a renewal: a phase rests on its predecessor, giving up   *)
(* excludes the forfeit, and a phase that was given evidence has it.       *)
JournalOrder(d) ==
    /\ \A e \in DOMAIN predecessors : Has(d, e) => Has(d, predecessors[e])
    /\ delegation[d].events \cap {"invalidated", "cancelled", "expired",
                                  "needs_authorization", "rejected"} # {}
          => ~Has(d, "final_authorized")
    /\ Has(d, "cancelled") \/ Has(d, "needs_authorization") => ~Has(d, "register_dispatched")
    /\ Has(d, "expired") /\ Has(d, "register_dispatched") => Has(d, "cleanup_result")
    /\ Has(d, "batch_started") => evidence[d].batch # NoBatch
    /\ evidence[d].stream # {} => Has(d, "batch_started")

(* The Operator holds an intent only once its dispatch is journalled, and  *)
(* a journalled deletion is one that it carried out.                       *)
IntentOrder(d) ==
    /\ intent[d].place # "none" => Has(d, "register_dispatched")
    /\ Has(d, "cleanup_result") => intent[d].place = "gone"

SnapshotOrder(s) ==
    /\ s.saved \subseteq delegation[s.op].events
    /\ s.stream # {} => "batch_started" \in s.saved

(* What an attempt knows is still true of the journal.                     *)
AttemptOrder(v) ==
    LET d == Op(v) IN
    attempt[v] # Idle =>
    /\ attempt[v].saved \subseteq delegation[d].events
    /\ attempt[v].batch # NoBatch => attempt[v].batch = evidence[d].batch
    /\ attempt[v].step \in EarlySteps =>
          attempt[v].handled = {} /\ (attempt[v].replay # {} => Saved(v, "batch_started"))
    /\ attempt[v].step \in BatchSteps =>
          (attempt[v].replay \cup attempt[v].handled # {} => attempt[v].batch # NoBatch)
    /\ At(v, "commit_nonces") \/ At(v, "sign") =>
          attempt[v].handled # {} /\ Complete(allNonces(v))
    /\ At(v, "register") => Has(d, "register_dispatched")
    /\ At(v, "submit") => Has(d, "final_dispatched")
    /\ At(v, "deleted") => intent[d].place = "gone"

(* What has left the Guardian is what the journal is bound to.             *)
SignedOrder ==
    /\ \A x \in signed : /\ x.batch = evidence[x.op].batch
                         /\ x.nonces = evidence[x.op].nonces /\ Complete(x.nonces)
    /\ \A f \in forfeits : f.batch = evidence[f.op].batch /\ Has(f.op, "final_dispatched")

RenewalInv ==
    /\ RenewalTypes
    /\ \A d \in Delegations : JournalOrder(d) /\ IntentOrder(d)
    /\ \A s \in due : SnapshotOrder(s)
    /\ \A v \in Vaults : AttemptOrder(v)
    /\ SignedOrder
=============================================================================
