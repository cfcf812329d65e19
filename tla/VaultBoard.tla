----------------------------- MODULE VaultBoard -----------------------------
(***************************************************************************)
(* Boarding one confirmed outpoint as its four handlers run it: prepare    *)
(* (with its conflict recovery), register, release and final submission.   *)
(* A handler reads the chain and the ledger, verifies and signs, looks at  *)
(* the chain again, writes the dispatch row and only then talks to the     *)
(* Operator; every read is a copy that other requests may outrun.  Any     *)
(* request may end at any step (a lost client, a failed dial, a restart of *)
(* the process, which ends them all).  A refused request changes nothing   *)
(* and is a request that ends.                                             *)
(*                                                                         *)
(* This build's classifyVaultBoardAttempt never answers release_required:  *)
(* the handle a release needs is one that was sealed before an upgrade,    *)
(* for a registration that was then queued.                                *)
(***************************************************************************)
EXTENDS VaultBoardLedger

CONSTANTS
    Requests,       \* requests that may be in flight together
    MaxAttempts,    \* bound on the attempts of the operation
    Maturity,       \* when the outpoint leaves its cooperative path, spent or matured
    MaxReorgs,      \* bound on the confirmed conflicts that a reorganization undoes
    Margin,         \* vaultBoardDispatchMargin
    Skew            \* how far the Operator's clock may lag behind

ASSUME HandlerAssumption ==
    /\ MaxAttempts \in Nat \ {0} /\ MaxReorgs \in Nat
    /\ Margin \in Nat /\ Maturity \in Nat /\ Skew \in 0..Quarantine

VARIABLES
    board,          \* the operation's attempts in the ledger
    now,            \* the clock
    handle,         \* the expiry of each attempt's newest open ready handle
    releasable,     \* the attempt an upgrade left a release handle for, or 0
    req,            \* the requests in flight
    conflicted,     \* commitments another confirmed transaction excludes
    reorgs,         \* reorganizations so far
    intent,         \* each attempt's register intent at the Operator
    deletion,       \* each attempt's delete request at the Operator
    batch,          \* the commitments the Operator has built around the outpoint
    submission      \* each signed commitment's way to the Operator

ledgerVars == <<board, handle>>
chainVars == <<conflicted, reorgs>>
operatorVars == <<intent, deletion, batch, submission>>
worldVars == <<now, releasable, chainVars>>
vars == <<board, now, handle, releasable, req, chainVars, operatorVars>>

Ids == 1..MaxAttempts
NoHandle == 0
Idle == [step |-> None]

(* Either the outpoint is new, or the upgrade found its first registration *)
(* queued and a release handle sealed for it.                              *)
Init ==
    /\ now = 0 /\ handle = [a \in Ids |-> NoHandle]
    /\ req = [r \in Requests |-> Idle]
    /\ conflicted = {} /\ reorgs = 0
    /\ deletion = [a \in Ids |-> None]
    /\ batch = {}
    /\ submission = [c \in Commitments |-> None]
    /\ \/ board = <<>> /\ releasable = 0 /\ intent = [a \in Ids |-> None]
       \/ /\ \E k \in Sessions :
              board = <<[NewAttempt(k, TTL) EXCEPT !.dispatched = TRUE,
                                                      !.result = "submitted"]>>
          /\ releasable = 1
          /\ intent = [a \in Ids |-> IF a = 1 THEN "queued" ELSE None]
-----------------------------------------------------------------------------
At(r, phase, step) == req[r] # Idle /\ req[r].step = step /\ req[r].phase = phase
Done(r) == req' = [req EXCEPT ![r] = Idle]
GoTo(r, step) == req' = [req EXCEPT ![r].step = step]
GoSign(r) == req' = [req EXCEPT ![r].step = "sign", ![r].session = None]
Start(r, phase, step, id, k, e, c) ==
    /\ req[r] = Idle
    /\ req' = [req EXCEPT ![r] =
                  [phase |-> phase, step |-> step, id |-> id, session |-> k,
                   expireAt |-> e, tx |-> c, prior |-> Conflicts(board), fresh |-> FALSE,
                   snap |-> IF phase = "prepare" THEN board ELSE <<>>]]
    /\ UNCHANGED <<ledgerVars, worldVars, operatorVars>>

(* The request ends: refused, answered from what is stored, or cut off.    *)
Fail(r) ==
    /\ req[r] # Idle
    /\ Done(r)
    /\ UNCHANGED <<ledgerVars, worldVars, operatorVars>>

(* What the chain says of the outpoint: confirmed, unspent and still on    *)
(* its cooperative path (requireVaultBoardMTP), when a request sets out    *)
(* and again after signing.                                                *)
confirmedOutpoint == now < Maturity
revalidateOutpoint == now < Maturity

(* Another transaction with six confirmations spends an input of c.        *)
confirmedBitcoinConflict(c) == c \in conflicted

(* Mutant: the stored conflicts are taken at their word.                   *)
TrustStoredConflicts(conflicts, ops) == TRUE

(* Each retained conflict is looked up on the chain again.                 *)
requireVaultBoardConflictChecks(conflicts, ops) ==
    \A a \in conflicts : confirmedBitcoinConflict(ops[a].final)
-----------------------------------------------------------------------------
(* prepareVaultBoard *)

(* The answers finalized (the authorized commitment spends the outpoint),  *)
(* spent and matured change nothing.                                       *)
Prepare(r) ==
    /\ confirmedOutpoint /\ CanLoad(board)
    /\ LET settles == /\ board # <<>> /\ Latest(board).final # None
                      /\ ~Latest(board).submitted /\ ~Latest(board).conflict
       IN Start(r, "prepare", IF settles THEN "evidence" ELSE "classify", 1,
                None, 0, None)

(* The Operator hands out the commitment the attempt authorized.           *)
commitmentTransaction(snap) == Latest(snap).final

(* reconcileVaultBoardConflict: the commitment is read from the Operator,  *)
(* its conflict and the earlier ones from the chain.                       *)
CheckConflict(r) ==
    /\ At(r, "prepare", "evidence")
    /\ confirmedBitcoinConflict(commitmentTransaction(req[r].snap))
    /\ revalidateOutpoint /\ requireVaultBoardConflictChecks(req[r].prior, req[r].snap)
    /\ GoTo(r, "append")
    /\ UNCHANGED <<ledgerVars, worldVars, operatorVars>>

AppendConflict(r) ==
    /\ At(r, "prepare", "append")
    /\ LET a == Len(req[r].snap) IN
       /\ ConflictCreates(board, a, req[r].snap[a].final, req[r].prior)
       /\ board' = [board EXCEPT ![a].conflict = TRUE]
    /\ GoTo(r, "reload")
    /\ UNCHANGED <<handle, worldVars, operatorVars>>

Reload(r) ==
    /\ At(r, "prepare", "reload") /\ CanLoad(board)
    /\ req' = [req EXCEPT ![r].step = "classify", ![r].snap = board,
                          ![r].prior = Conflicts(board)]
    /\ UNCHANGED <<ledgerVars, worldVars, operatorVars>>

(* classifyVaultBoardAttempt: the attempt a ready handle is for, or 0 when *)
(* the outpoint stays blocked.                                             *)
classifyVaultBoardAttempt(snap, t) ==
    IF snap = <<>> THEN 1
    ELSE LET at == Latest(snap)
             ready == /\ ~at.submitted
                      /\ \/ at.conflict
                         \/ /\ at.final = None
                            /\ \/ at.result = "rejected" \/ at.released
                               \/ /\ ~at.deleting
                                  /\ \/ ~at.dispatched
                                     \/ at.result = "submitted" /\ CanSupersede(at.expireAt, t)
         IN IF ready THEN Len(snap) + 1 ELSE 0

(* The client's newest handle of attempt a, good for TTL.                  *)
sealVaultBoardHandle(a) == handle' = [handle EXCEPT ![a] = now + TTL]

Classify(r) ==
    /\ At(r, "prepare", "classify")
    /\ requireVaultBoardConflictChecks(req[r].prior, req[r].snap)
    /\ LET a == classifyVaultBoardAttempt(req[r].snap, now) IN
       /\ a \in Ids
       /\ sealVaultBoardHandle(a)
    /\ Done(r)
    /\ UNCHANGED <<board, worldVars, operatorVars>>
-----------------------------------------------------------------------------
(* registerVaultBoard *)

(* A handle is the client's proof of a prepared attempt until it expires.  *)
openVaultBoardHandle(a) == handle[a] # NoHandle

(* verifyVaultBoardRegisterProof: the request a proof stands for, its      *)
(* expiry the handle's.                                                    *)
RegisterProof(k, a) == [session |-> k, expireAt |-> handle[a]]

(* A request BeginVaultBoardAttempt is bound to refuse whenever it comes:  *)
(* it reuses a session key and is no exact retry of the open attempt.      *)
Refused(k, a) ==
    \E i \in DOMAIN board : /\ board[i].session = k
                           /\ ~(/\ i = Len(board) /\ i = a /\ ~board[i].dispatched
                                /\ board[i].expireAt = handle[a])

(* The fee checked at prepare is checked again; a changed one refuses.     *)
Register(r, a, k) ==
    /\ openVaultBoardHandle(a) /\ ~Refused(k, a)
    /\ confirmedOutpoint /\ CanLoad(board) /\ requireVaultBoardConflictChecks(Conflicts(board), board)
    /\ LET p == RegisterProof(k, a)
       IN Start(r, "register", "begin", a, p.session, p.expireAt, None)

(* BeginVaultBoardAttempt, then replayVaultBoardRegister: only an attempt  *)
(* that is the handle's and has not been dispatched goes on.  A handle the *)
(* ledger has outrun leaves the attempt it opened undispatched.            *)
Begin(r) ==
    LET q == req[r] IN
    /\ At(r, "register", "begin")
    /\ \/ /\ BeginReplays(board, q.session, q.expireAt, now, q.prior)
          /\ q.id = Len(board) /\ ~Latest(board).dispatched
          /\ GoSign(r)
          /\ UNCHANGED board
       \/ /\ BeginCreates(board, q.session, q.expireAt, now, q.prior)
          /\ Len(board) < MaxAttempts
          /\ board' = Append(board, NewAttempt(q.session, q.expireAt))
          /\ IF q.id = Len(board') THEN GoSign(r) ELSE Done(r)
    /\ UNCHANGED <<handle, worldVars, operatorVars>>

(* After signing: revalidateVaultBoardOutpoint, the retained conflicts     *)
(* again, and then the time left (register, delete) or the batch (final).  *)
Recheck(r) ==
    LET q == req[r] IN
    /\ q.step = "sign"
    /\ revalidateOutpoint /\ requireVaultBoardConflictChecks(q.prior, board)
    /\ q.phase # "finalize" => q.expireAt - now >= Margin
    /\ req' = [req EXCEPT ![r].step = "dispatch", ![r].fresh = (q.phase = "finalize")]
    /\ UNCHANGED <<ledgerVars, worldVars, operatorVars>>

(* Mutant: the dispatch row found is taken for the one written.            *)
DispatchRegisterAgain(r) ==
    /\ At(r, "register", "dispatch")
    /\ req[r].id = Len(board) /\ ConflictsChecked(board, req[r].prior)
    /\ board' = [board EXCEPT ![req[r].id].dispatched = TRUE]
    /\ intent' = [intent EXCEPT ![req[r].id] = "sent"]
    /\ GoTo(r, "await")
    /\ UNCHANGED <<handle, worldVars, deletion, batch, submission>>

(* AppendVaultBoardDispatch, and the intent leaves if this call created    *)
(* the row.                                                                *)
DispatchRegister(r) ==
    /\ At(r, "register", "dispatch")
    /\ DispatchCreates(board, req[r].id, req[r].prior)
    /\ board' = [board EXCEPT ![req[r].id].dispatched = TRUE]
    /\ intent' = [intent EXCEPT ![req[r].id] = "sent"]
    /\ GoTo(r, "await")
    /\ UNCHANGED <<handle, worldVars, deletion, batch, submission>>

(* What an answer to registerIntent says: an acceptance, or one of the     *)
(* definite rejections (isDefiniteVaultBoardRegisterRejection).  An error  *)
(* of any other kind ends the request without a record.                    *)
RegisterAnswer(a) == IF intent[a] = "rejected" THEN "rejected" ELSE "submitted"

RecordRegister(r) ==
    LET a == req[r].id
        outcome == RegisterAnswer(a)
    IN /\ At(r, "register", "await")
       /\ intent[a] # "sent"
       /\ SubmissionCreates(board, a, "register", outcome)
       /\ board' = [board EXCEPT ![a].result = outcome]
       /\ Done(r)
       /\ UNCHANGED <<handle, worldVars, operatorVars>>
-----------------------------------------------------------------------------
(* releaseVaultBoard *)

Release(r) ==
    /\ releasable \in DOMAIN board /\ TTL > now
    /\ confirmedOutpoint /\ CanLoad(board)
    /\ releasable = Len(board) /\ ~Latest(board).deleting
    /\ Start(r, "delete", "sign", releasable, None, TTL, None)

DispatchDelete(r) ==
    /\ At(r, "delete", "dispatch")
    /\ AuthorizeCreates(board, req[r].id, "delete", req[r].prior)
    /\ board' = [board EXCEPT ![req[r].id].deleting = TRUE]
    /\ deletion' = [deletion EXCEPT ![req[r].id] = "sent"]
    /\ GoTo(r, "await")
    /\ UNCHANGED <<handle, worldVars, intent, batch, submission>>

(* deleteIntent succeeded; every other answer is ambiguous.                *)
RecordDelete(r) ==
    /\ At(r, "delete", "await")
    /\ deletion[req[r].id] = "done"
    /\ SubmissionCreates(board, req[r].id, "delete", "released")
    /\ board' = [board EXCEPT ![req[r].id].released = TRUE]
    /\ Done(r)
    /\ UNCHANGED <<handle, worldVars, operatorVars>>
-----------------------------------------------------------------------------
(* submitVaultBoardCommitment *)

(* verifyVaultBoardFinal: the commitment spends the outpoint and its tree  *)
(* pays the receiver the registered amount.  It is not tied to a session   *)
(* key, so a superseded attempt's commitment passes.                       *)
verifyVaultBoardFinal(c) == c \in batch

(* The handle's expiry is not looked at: whoever registered the attempt    *)
(* still holds it.                                                         *)
Final(r, a, c) ==
    /\ confirmedOutpoint /\ CanLoad(board)
    /\ a = Len(board) /\ board[a].result = "submitted"
    /\ verifyVaultBoardFinal(c)
    /\ board[a].final = None
    /\ Start(r, "finalize", "sign", a, None, 0, c)

DispatchFinal(r) ==
    /\ At(r, "finalize", "dispatch")
    /\ AuthorizeCreates(board, req[r].id, "finalize", req[r].prior)
    /\ board' = [board EXCEPT ![req[r].id].final = req[r].tx]
    /\ submission' = [submission EXCEPT ![req[r].tx] = "sent"]
    /\ GoTo(r, "await")
    /\ UNCHANGED <<handle, worldVars, intent, deletion, batch>>

RecordFinal(r) ==
    /\ At(r, "finalize", "await")
    /\ submission[req[r].tx] = "accepted"
    /\ SubmissionCreates(board, req[r].id, "finalize", "submitted")
    /\ board' = [board EXCEPT ![req[r].id].submitted = TRUE]
    /\ Done(r)
    /\ UNCHANGED <<handle, worldVars, operatorVars>>
-----------------------------------------------------------------------------
(* The Operator: requests reach it late or not at all, and it acts on an   *)
(* intent until the intent's expiry by its own clock.                      *)

Live(a) == intent[a] \in {"sent", "queued"} /\ now < board[a].expireAt + Skew

OperatorRegister(a) ==
    /\ intent[a] = "sent"
    /\ \/ Live(a) /\ intent' = [intent EXCEPT ![a] = "queued"]
       \/ intent' = [intent EXCEPT ![a] = "rejected"]
    /\ UNCHANGED <<ledgerVars, req, worldVars, deletion, batch, submission>>

OperatorDelete(a) ==
    /\ deletion[a] = "sent" /\ intent[a] = "queued"
    /\ intent' = [intent EXCEPT ![a] = "deleted"]
    /\ deletion' = [deletion EXCEPT ![a] = "done"]
    /\ UNCHANGED <<ledgerVars, req, worldVars, batch, submission>>

OperatorBatch(a, c) ==
    /\ intent[a] = "queued" /\ Live(a) /\ c \notin batch
    /\ intent' = [intent EXCEPT ![a] = "batched"]
    /\ batch' = batch \cup {c}
    /\ UNCHANGED <<ledgerVars, req, worldVars, deletion, submission>>

OperatorSubmit(c) ==
    /\ submission[c] = "sent"
    /\ submission' = [submission EXCEPT ![c] = "accepted"]
    /\ UNCHANGED <<ledgerVars, req, worldVars, intent, deletion, batch>>
-----------------------------------------------------------------------------
(* The chain and the clock.                                                *)

ConflictConfirms(c) ==
    /\ submission[c] # None /\ now < Maturity /\ c \notin conflicted
    /\ conflicted' = conflicted \cup {c}
    /\ UNCHANGED <<ledgerVars, req, now, releasable, reorgs,
                   operatorVars>>

(* Only a conflict that somebody has relied on is worth undoing.            *)
Reorg(c) ==
    /\ \/ \E a \in DOMAIN board : board[a].conflict /\ board[a].final = c
       \/ \E r \in Requests : At(r, "prepare", "append")
    /\ c \in conflicted /\ now < Maturity /\ reorgs < MaxReorgs
    /\ conflicted' = conflicted \ {c} /\ reorgs' = reorgs + 1
    /\ req' = [r \in Requests |->
                  IF req[r] = Idle THEN Idle ELSE [req[r] EXCEPT !.fresh = FALSE]]
    /\ UNCHANGED <<ledgerVars, now, releasable, operatorVars>>

Tick ==
    /\ now < MaxClock
    /\ now' = now + 1
    /\ handle' = [a \in Ids |-> IF handle[a] <= now + 1 THEN NoHandle ELSE handle[a]]
    /\ UNCHANGED <<board, req, releasable, chainVars, operatorVars>>
-----------------------------------------------------------------------------
(* attachVaultBoardRoutes: the four requests a client may send.            *)
Routes(r) ==
    \/ Prepare(r)
    \/ \E a \in Ids, k \in Sessions : Register(r, a, k)
    \/ Release(r)
    \/ \E a \in Ids, c \in Commitments : Final(r, a, c)

Next ==
    \/ \E r \in Requests :
        \/ Routes(r)
        \/ CheckConflict(r) \/ AppendConflict(r) \/ Reload(r) \/ Classify(r)
        \/ Begin(r) \/ Recheck(r) \/ DispatchRegister(r) \/ RecordRegister(r)
        \/ DispatchDelete(r) \/ RecordDelete(r) \/ DispatchFinal(r) \/ RecordFinal(r)
        \/ Fail(r)
    \/ \E a \in Ids : OperatorRegister(a) \/ OperatorDelete(a)
                      \/ \E c \in Commitments : OperatorBatch(a, c)
    \/ \E c \in Commitments : OperatorSubmit(c) \/ ConflictConfirms(c) \/ Reorg(c)
    \/ Tick

Spec == Init /\ [][Next]_vars
-----------------------------------------------------------------------------
(* At most one registration of the outpoint is live at the Operator, but   *)
(* for attempts that a confirmed conflict has settled: any other attempt   *)
(* gives way only when its intent was refused, deleted or is past its      *)
(* expiry by the Operator's own clock (requireVaultBoardAttemptCanRotate). *)
(* The exception is real: the commitment a conflict excludes may be one of *)
(* a superseded attempt, and the attempt that authorized it is then        *)
(* replaced while its own intent is still queued.                          *)
OneLiveIntent ==
    \A a, b \in DOMAIN board :
        /\ Live(a) /\ ~board[a].conflict
        /\ Live(b) /\ ~board[b].conflict
        => a = b

(* Whatever retries and restarts do, an attempt's register intent leaves   *)
(* the process once, the commitment it signs is one and stays that one,    *)
(* and its deletion and its commitment never both leave.                   *)
SentOnce ==
    [][/\ \A a \in Ids : intent'[a] = "sent" => intent[a] \in {None, "sent"}
       /\ \A a \in DOMAIN board : board[a].final # None => board'[a].final = board[a].final
       /\ \A a \in DOMAIN board' : ~(board'[a].deleting /\ board'[a].final # None)]_vars

(* A second commitment is signed only while every earlier one is excluded  *)
(* from the chain, but for a reorganization in the instant between the     *)
(* request's last look at the chain and its dispatch.                      *)
NoSecondCommitment ==
    [][\A c \in Commitments : submission[c] = None /\ submission'[c] = "sent" =>
          \A d \in Commitments \ {c} :
              \/ submission[d] = None \/ d \in conflicted
              \/ \E r \in Requests : At(r, "finalize", "dispatch") /\ ~req[r].fresh]_vars

(* An attempt that has been superseded is settled: no late answer and no   *)
(* retry changes its rows, and none of its final authorizations is open.   *)
SupersededSettled ==
    [][\A a \in DOMAIN board : a < Len(board) =>
          board'[a] = board[a] /\ (board[a].final # None => board[a].conflict)]_vars
-----------------------------------------------------------------------------
(* The inductive invariant behind the properties above.                    *)

Attempts ==
    [session : Sessions, expireAt : Nat, dispatched : BOOLEAN,
     result : {None, "submitted", "rejected"}, deleting : BOOLEAN, released : BOOLEAN,
     final : Commitments \cup {None}, submitted : BOOLEAN, conflict : BOOLEAN]

Pending ==
    [phase : {"prepare", "register", "delete", "finalize"},
     step : {"evidence", "append", "reload", "classify", "begin", "sign", "dispatch", "await"},
     id : Ids, session : Sessions \cup {None}, expireAt : Nat,
     tx : Commitments \cup {None}, prior : SUBSET Ids, fresh : BOOLEAN, snap : Seq(Attempts)]

BoardTypes ==
    /\ board \in Seq(Attempts) /\ Len(board) <= MaxAttempts
    /\ now \in Nat /\ handle \in [Ids -> Nat]
    /\ req \in [Requests -> {Idle} \cup Pending]
    /\ conflicted \subseteq Commitments
    /\ intent \in [Ids -> {None, "sent", "queued", "rejected", "deleted", "batched"}]
    /\ deletion \in [Ids -> {None, "sent", "done"}]
    /\ submission \in [Commitments -> {None, "sent", "accepted"}]

(* The order in which an attempt collects its rows.                        *)
RowOrder(at) ==
    /\ at.result # None => at.dispatched
    /\ at.deleting \/ at.final # None => at.result = "submitted"
    /\ ~(at.deleting /\ at.final # None)
    /\ at.released => at.deleting
    /\ at.submitted \/ at.conflict => at.final # None
    /\ ~(at.submitted /\ at.conflict)

(* A superseded attempt has stayed one that may rotate.                    *)
AttemptOrder == \A a \in DOMAIN board : /\ RowOrder(board[a])
                                        /\ a < Len(board) => CanRotate(board[a], now)

(* Nothing reaches the Operator without its dispatch row, and what the     *)
(* ledger says of an answer is what the Operator did.                      *)
OperatorOrder ==
    /\ \A a \in Ids \ DOMAIN board : intent[a] = None /\ deletion[a] = None
    /\ \A a \in DOMAIN board :
        /\ ~board[a].dispatched => intent[a] = None
        /\ board[a].result = "rejected" => intent[a] = "rejected"
        /\ ~board[a].deleting => deletion[a] = None
        /\ board[a].released => deletion[a] = "done"
        /\ deletion[a] = "done" => intent[a] = "deleted"
    /\ \A c \in Commitments : submission[c] # None => \E a \in DOMAIN board : board[a].final = c

(* What a request in flight still knows for certain of the ledger and the  *)
(* chain.                                                                  *)
RequestOrder(q) ==
    /\ q.prior \subseteq Conflicts(board)
    /\ q.step = "begin" => q.session \in Sessions
    /\ q.step = "await" => q.id \in DOMAIN board
    /\ q.phase = "finalize" => q.tx \in Commitments
    /\ q.step \in {"evidence", "append"} => q.snap # <<>> /\ Latest(q.snap).final # None
    /\ q.fresh => /\ q.phase = "finalize"
                  /\ \A a \in q.prior : board[a].final \in conflicted

BoardInv ==
    /\ BoardTypes /\ AttemptOrder /\ OperatorOrder
    /\ \A r \in Requests : req[r] # Idle => RequestOrder(req[r])
=============================================================================
