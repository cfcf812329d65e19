-------------------------- MODULE VaultBoardLedger --------------------------
(***************************************************************************)
(* What the ledger stores of one boarding outpoint, and the rules its      *)
(* transactions apply.  An operation is the sequence of its attempts; an   *)
(* attempt collects the authorization, dispatch and submission rows of its *)
(* register, delete and finalize phases and its conflict row.  Rows are    *)
(* only ever added.  Digests are compared through what they cover: a       *)
(* register request is its session key and expiry, a final request its     *)
(* commitment.                                                             *)
(***************************************************************************)
EXTENDS Integers, Sequences

CONSTANTS
    Sessions,       \* tree session keys a client may register with
    Commitments,    \* commitment transactions around the boarding outpoint
    MaxClock,       \* bound on the clock
    TTL,            \* lifetime of a handle (vaultBoardRegisterTTL)
    Quarantine      \* VaultBoardRegisterExpiryQuarantine

None == "none"

ASSUME BoardAssumption ==
    /\ None \notin Commitments
    /\ MaxClock \in Nat /\ TTL \in Nat \ {0} /\ Quarantine \in Nat

(* The outcomes a phase may record: canonicalVaultBoardSubmission.         *)
Outcome ==
    [register |-> {"submitted", "rejected"}, delete |-> {"released"}, finalize |-> {"submitted"}]

NewAttempt(k, e) ==
    [session |-> k, expireAt |-> e, dispatched |-> FALSE, result |-> None,
     deleting |-> FALSE, released |-> FALSE, final |-> None, submitted |-> FALSE,
     conflict |-> FALSE]

Latest(ops) == ops[Len(ops)]
Conflicts(ops) == {a \in DOMAIN ops : ops[a].conflict}

(* loadVaultBoardConflicts: an operation with an earlier final             *)
(* authorization that no conflict settles cannot be read at all.           *)
Readable(ops) == \A a \in 1..(Len(ops) - 1) : ops[a].final = None \/ ops[a].conflict

(* GetCurrentVaultBoardAttempt returns the whole operation or an error.     *)
CanLoad(ops) == Readable(ops)

(* requireVaultBoardConflictChecks: every retained conflict has been       *)
(* checked by the caller.                                                  *)
ConflictsChecked(ops, checked) == Readable(ops) /\ Conflicts(ops) \subseteq checked

(* Mutant: an expired registration gives way at once.                      *)
CanSupersedeAtExpiry(e, t) == e <= t

CanSupersede(e, t) == e + Quarantine <= t

(* Mutant: an unanswered dispatch gives way like an accepted one.          *)
CanRotateUnanswered(at, t) ==
    IF at.final # None THEN at.conflict
    ELSE \/ ~at.dispatched \/ at.result = "rejected" \/ at.released
         \/ ~at.deleting /\ CanSupersede(at.expireAt, t)

(* requireVaultBoardAttemptCanRotate                                       *)
CanRotate(at, t) ==
    IF at.final # None THEN at.conflict
    ELSE \/ ~at.dispatched \/ at.result = "rejected" \/ at.released
         \/ at.result = "submitted" /\ ~at.deleting /\ CanSupersede(at.expireAt, t)

(* requireVaultBoardAttemptCurrent                                         *)
IsCurrent(at) == at.result # "rejected" /\ at.final = None /\ ~at.deleting

SameRequest(at, k, e) == at.session = k /\ at.expireAt = e

(* BeginVaultBoardAttempt: an exact retry finds its attempt, anything that *)
(* reuses a session key is refused, a fresh request opens the next attempt *)
(* once the last one may rotate.                                           *)
BeginReplays(ops, k, e, t, checked) ==
    /\ e > t /\ ConflictsChecked(ops, checked)
    /\ ops # <<>> /\ SameRequest(Latest(ops), k, e) /\ IsCurrent(Latest(ops))
BeginCreates(ops, k, e, t, checked) ==
    /\ e > t /\ ConflictsChecked(ops, checked)
    /\ \A a \in DOMAIN ops : ops[a].session # k
    /\ ops # <<>> => CanRotate(Latest(ops), t)

(* AppendVaultBoardDispatch writes the register dispatch once.             *)
DispatchCreates(ops, a, checked) ==
    /\ a = Len(ops) /\ ConflictsChecked(ops, checked)
    /\ ~ops[a].dispatched /\ ops[a].result = None

(* validateVaultBoardPhaseOrder                                            *)
PhaseOrder(at, phase) ==
    /\ at.result = "submitted"
    /\ phase = "delete" => at.final = None
    /\ phase = "finalize" => ~at.deleting

(* AppendVaultBoardAuthorizationAndDispatch writes the authorization and   *)
(* the dispatch of a delete or final phase together, once.                 *)
AuthorizeCreates(ops, a, phase, checked) ==
    /\ a = Len(ops) /\ ConflictsChecked(ops, checked)
    /\ IF phase = "delete" THEN ~ops[a].deleting ELSE ops[a].final = None
    /\ PhaseOrder(ops[a], phase)

(* AppendVaultBoardSubmission: a result follows its dispatch, and a final  *)
(* result loses to a conflict.  The attempt need not be the latest.        *)
SubmissionCreates(ops, a, phase, outcome) ==
    /\ outcome \in Outcome[phase]
    /\ \/ phase = "register" /\ ops[a].dispatched /\ ops[a].result = None
       \/ phase = "delete" /\ ops[a].deleting /\ ~ops[a].released
       \/ /\ phase = "finalize" /\ ops[a].final # None /\ ~ops[a].submitted
          /\ Readable(ops) /\ ~ops[a].conflict

(* AppendVaultBoardConflict: a conflict loses to a final result.           *)
ConflictCreates(ops, a, c, checked) ==
    /\ a = Len(ops) /\ ConflictsChecked(ops, checked)
    /\ ops[a].final = c /\ ~ops[a].submitted /\ ~ops[a].conflict
=============================================================================
