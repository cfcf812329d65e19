------------------------------ MODULE VtxoSpend ------------------------------
(***************************************************************************)
(* One Ark payment as its HTTP handlers run it.  A handler reads the row,  *)
(* works on its copy (verification, signing, a question to the Operator)   *)
(* and writes the whole copy back with a compare-and-swap on the row's     *)
(* state only.  Several requests, retries of lost answers included, are in *)
(* flight at once; any of them may fail, and a crash ends them all.        *)
(*                                                                         *)
(* A transaction is the request's unsigned PSBTs with their pending proof; *)
(* a checkpoint set is what the Operator sent back for signing.  A request *)
(* that fails verification, or is refused before it writes, changes        *)
(* nothing and is not a step.                                              *)
(***************************************************************************)
EXTENDS Integers

CONSTANTS
    Requests,       \* requests that may be in flight together
    Poller,         \* the request of a client that keeps asking for status
    Transactions,   \* transactions a client may ask to authorize
    Checkpoints,    \* checkpoint sets a client may ask to authorize
    MaxSignCount    \* bound on the passkey's counter

Slots == Requests \cup {Poller}
None == "none"
Unsigned == "unsigned"
Outcomes == {"pending", "finalized", "conflict"}
States == {"absent", "reserved", "signed", "submitted", "finalized", "aborted", "unresolved"}

ASSUME SpendAssumption ==
    /\ Poller \notin Requests
    /\ {None, Unsigned} \cap (Transactions \cup Checkpoints) = {}
    /\ MaxSignCount \in Nat

VARIABLES
    row,            \* the vtxo_operation row
    signCount,      \* the credential's counter, -1 before its first use
    expired,        \* the clock has passed the reservation's expiry
    req,            \* what each request has read and where it is
    outcome,        \* what the Operator reports of the transaction
    psbtsOut,       \* authorized transactions that have left the process
    checkpointsOut, \* authorized checkpoint sets that have left it
    abortReceipt    \* an abort has been acknowledged

vars == <<row, signCount, expired, req, outcome, psbtsOut, checkpointsOut, abortReceipt>>
outVars == <<psbtsOut, checkpointsOut, abortReceipt>>

Rows == [state : States, tx : Transactions \cup {None},
         request : Checkpoints \cup {None},
         checkpoints : Checkpoints \cup {None, Unsigned}]
Row(state, tx, request, checkpoints) ==
    [state |-> state, tx |-> tx, request |-> request, checkpoints |-> checkpoints]
NoRow == Row("absent", None, None, None)
Reserved == Row("reserved", None, None, None)
In(op, state) == Row(state, op.tx, op.request, op.checkpoints)

Steps == {"insert", "expire", "commit", "replay", "bind", "abort",
          "query", "promote", "settle", "reload"}
InFlight == [step : Steps \cup {None}, snap : Rows, tx : Transactions \cup {None},
             cps : Checkpoints \cup {None}, count : 0..MaxSignCount, seen : Outcomes]
Idle == [step |-> None, snap |-> NoRow, tx |-> None, cps |-> None, count |-> 0,
         seen |-> "pending"]

TypeOK ==
    /\ row \in Rows
    /\ signCount \in -1..MaxSignCount
    /\ expired \in BOOLEAN
    /\ req \in [Slots -> InFlight]
    /\ outcome \in Outcomes
    /\ psbtsOut \subseteq Transactions
    /\ checkpointsOut \subseteq Checkpoints
    /\ abortReceipt \in BOOLEAN

Init ==
    /\ row = NoRow /\ signCount = -1 /\ expired = FALSE
    /\ req = [r \in Slots |-> Idle]
    /\ outcome = "pending"
    /\ psbtsOut = {} /\ checkpointsOut = {} /\ abortReceipt = FALSE
-----------------------------------------------------------------------------
(* Reading the row and setting out.                                        *)

Load(r, step, t, c, n) ==
    /\ req[r] = Idle
    /\ req' = [req EXCEPT ![r] = [step |-> step, snap |-> row, tx |-> t, cps |-> c,
                                  count |-> n, seen |-> "pending"]]
    /\ UNCHANGED <<row, signCount, expired, outcome, outVars>>

At(r, step) == req[r].step = step
Done(r) == req' = [req EXCEPT ![r] = Idle]
Proceed(r, step, snap, seen) ==
    req' = [req EXCEPT ![r] = [step |-> step, snap |-> snap, tx |-> req[r].tx,
                               cps |-> req[r].cps, count |-> req[r].count, seen |-> seen]]

(* Mutant: no comparison before the swap.                                  *)
OverwriteVtxoOperation(from, next) == row' = next

(* The caller's copy replaces the row when the row is still in the state   *)
(* the caller read.                                                        *)
TransitionVtxoOperation(from, next) ==
    row' = IF row.state = from THEN next ELSE row

LoadReserve(r) == row.state = "absent" /\ Load(r, "insert", None, None, 0)

(* loadLiveVtxo, expireReservedVtxo: whoever reads an expired reservation  *)
(* sets out to abort it.                                                   *)
LoadExpired(r) == row.state = "reserved" /\ expired /\ Load(r, "expire", None, None, 0)

LoadAuthorize(r, t, n) ==
    \/ row.state = "reserved" /\ ~expired /\ Load(r, "commit", t, None, n)
    \/ row.state = "signed" /\ row.tx = t /\ Load(r, "replay", t, None, n)

LoadCheckpoints(r, c) == row.state = "signed" /\ Load(r, "bind", None, c, 0)

LoadAbort(r) == row.state = "reserved" /\ ~expired /\ Load(r, "abort", None, None, 0)

(* GetVtxoOperationView and FinalizeVtxo ask the Operator.                 *)
LoadView(r) == row.state \in {"signed", "submitted"} /\ Load(r, "query", None, None, 0)
-----------------------------------------------------------------------------
(* ReserveVtxo: the ledger inserts, or refuses because an exact retry came *)
(* first; then the reservation found is replayed, or aborted if expired.   *)
Insert(r) ==
    /\ At(r, "insert")
    /\ \/ /\ row.state = "absent"
          /\ row' = Reserved
          /\ Done(r)
       \/ /\ row.state = "reserved" /\ expired
          /\ Proceed(r, "expire", row, "pending")
          /\ UNCHANGED row
       \/ /\ row.state \notin {"absent", "reserved"} \/ (row.state = "reserved" /\ ~expired)
          /\ Done(r) /\ UNCHANGED row
    /\ UNCHANGED <<signCount, expired, outcome, outVars>>

Expire(r) ==
    /\ At(r, "expire")
    /\ TransitionVtxoOperation("reserved", In(req[r].snap, "aborted"))
    /\ Done(r)
    /\ UNCHANGED <<signCount, expired, outcome, outVars>>

(* Mutant: the result of the swap is not looked at.                        *)
AbortWithoutSwap(r) ==
    /\ At(r, "abort")
    /\ TransitionVtxoOperation("reserved", In(req[r].snap, "aborted"))
    /\ abortReceipt' = TRUE
    /\ Done(r)
    /\ UNCHANGED <<signCount, expired, outcome, psbtsOut, checkpointsOut>>

AbortVtxo(r) ==
    /\ At(r, "abort")
    /\ TransitionVtxoOperation("reserved", In(req[r].snap, "aborted"))
    /\ abortReceipt' = (abortReceipt \/ row.state = "reserved")
    /\ Done(r)
    /\ UNCHANGED <<signCount, expired, outcome, psbtsOut, checkpointsOut>>

(* The sweep of another payment's reservation (abortExpiredVtxoLocked).    *)
abortExpired ==
    /\ row.state = "reserved" /\ expired
    /\ row' = In(row, "aborted")
    /\ UNCHANGED <<signCount, expired, req, outcome, outVars>>
-----------------------------------------------------------------------------
(* AuthorizeVtxoSpend after verification and signing.                      *)

Advances(n) == signCount = -1 \/ n > signCount \/ (n = 0 /\ signCount = 0)

(* CommitSignedVtxoOperation swaps the row and the counter together.       *)
CommitSigned(r) ==
    /\ At(r, "commit")
    /\ row.state = "reserved"
    /\ Advances(req[r].count)
    /\ row' = Row("signed", req[r].tx, req[r].snap.request, Unsigned)
    /\ signCount' = req[r].count
    /\ psbtsOut' = psbtsOut \cup {req[r].tx}
    /\ Done(r)
    /\ UNCHANGED <<expired, outcome, checkpointsOut, abortReceipt>>

(* Mutant: the loser of the swap answers with its own signature.           *)
CommitLateUnchecked(r) ==
    /\ At(r, "commit")
    /\ row.state = "signed" /\ signCount = req[r].count
    /\ psbtsOut' = psbtsOut \cup {req[r].tx}
    /\ Done(r)
    /\ UNCHANGED <<row, signCount, expired, outcome, checkpointsOut, abortReceipt>>

(* Not swapped: the row a concurrent request signed answers this request   *)
(* when it holds the same transaction and the same assertion.              *)
CommitLate(r) ==
    /\ At(r, "commit")
    /\ row.state = "signed" /\ signCount = req[r].count /\ row.tx = req[r].tx
    /\ psbtsOut' = psbtsOut \cup {row.tx}
    /\ Done(r)
    /\ UNCHANGED <<row, signCount, expired, outcome, checkpointsOut, abortReceipt>>

(* VerifySignedVtxoReplay; the answer is the copy the request read.        *)
ReplaySigned(r) ==
    /\ At(r, "replay")
    /\ row.state = "signed" /\ signCount = req[r].count
    /\ psbtsOut' = psbtsOut \cup {req[r].snap.tx}
    /\ Done(r)
    /\ UNCHANGED <<row, signCount, expired, outcome, checkpointsOut, abortReceipt>>
-----------------------------------------------------------------------------
(* AuthorizeVtxoCheckpoints after verification and signing.                *)

(* Mutant: the loser answers with its own signatures.                      *)
BindOwnCheckpoints(r) ==
    /\ At(r, "bind")
    /\ TransitionVtxoOperation("signed",
           Row("submitted", req[r].snap.tx, req[r].cps, req[r].cps))
    /\ row.state \in {"signed", "submitted"}
    /\ checkpointsOut' = checkpointsOut \cup {req[r].cps}
    /\ Done(r)
    /\ UNCHANGED <<signCount, expired, outcome, psbtsOut, abortReceipt>>

BindCheckpoints(r) ==
    /\ At(r, "bind")
    /\ TransitionVtxoOperation("signed",
           Row("submitted", req[r].snap.tx, req[r].cps, req[r].cps))
    /\ \/ row.state = "signed" /\ checkpointsOut' = checkpointsOut \cup {req[r].cps}
       \/ /\ row.state = "submitted" /\ row.request = req[r].cps
          /\ checkpointsOut' = checkpointsOut \cup {row.checkpoints}
    /\ Done(r)
    /\ UNCHANGED <<signCount, expired, outcome, psbtsOut, abortReceipt>>

(* A retry of an answered request reads and answers at once.               *)
ReplayCheckpoints(c) ==
    /\ row.state = "submitted" /\ row.request = c
    /\ checkpointsOut' = checkpointsOut \cup {row.checkpoints}
    /\ UNCHANGED <<row, signCount, expired, req, outcome, psbtsOut, abortReceipt>>
-----------------------------------------------------------------------------
(* promoteSubmittedVtxo and the status answer around it.                   *)

(* What a view of op discloses.                                            *)
Disclose(op) ==
    /\ psbtsOut' = psbtsOut \cup (IF op.state \in {"signed", "submitted"} THEN {op.tx} ELSE {})
    /\ checkpointsOut' = checkpointsOut \cup
           (IF op.state = "submitted" THEN {op.checkpoints} \cap Checkpoints ELSE {})

(* The Operator, a swap or the second read fails: the view answers from    *)
(* the copy it read first, which may still have been signed.               *)
AnswerFromCopy(r) ==
    /\ req[r].step \in {"query", "promote", "settle", "reload"}
    /\ \/ Disclose(req[r].snap)
       \/ req[r].step \in {"settle", "reload"} /\ Disclose(In(req[r].snap, "signed"))
    /\ Done(r)
    /\ UNCHANGED <<row, signCount, expired, outcome, abortReceipt>>

(* Mutant: a signed row is left for the checkpoints request.               *)
QuerySubmittedOnly(r) ==
    /\ At(r, "query")
    /\ \/ outcome = "pending" /\ Proceed(r, "reload", req[r].snap, outcome)
       \/ /\ outcome # "pending" /\ req[r].snap.state = "submitted"
          /\ Proceed(r, "settle", req[r].snap, outcome)
       \/ /\ outcome # "pending" /\ req[r].snap.state = "signed"
          /\ Proceed(r, "reload", req[r].snap, outcome)
    /\ UNCHANGED <<row, signCount, expired, outcome, outVars>>

Query(r) ==
    /\ At(r, "query")
    /\ \/ outcome = "pending" /\ Proceed(r, "reload", req[r].snap, outcome)
       \/ /\ outcome # "pending" /\ req[r].snap.state = "signed"
          /\ Proceed(r, "promote", req[r].snap, outcome)
       \/ /\ outcome # "pending" /\ req[r].snap.state = "submitted"
          /\ Proceed(r, "settle", req[r].snap, outcome)
    /\ UNCHANGED <<row, signCount, expired, outcome, outVars>>

Promote(r) ==
    LET next == In(req[r].snap, "submitted")
    IN  /\ At(r, "promote")
        /\ TransitionVtxoOperation("signed", next)
        /\ \/ row.state = "signed" /\ Proceed(r, "settle", next, req[r].seen)
           \/ row.state = "submitted" /\ Proceed(r, "settle", row, req[r].seen)
           \/ /\ row.state \in {"finalized", "unresolved"}
              /\ Proceed(r, "reload", req[r].snap, req[r].seen)
        /\ UNCHANGED <<signCount, expired, outcome, outVars>>

(* Mutant: a conflict is recorded like a payment that went through.        *)
SettledAlways(r) == "finalized"

Settled(r) == IF req[r].seen = "conflict" THEN "unresolved" ELSE "finalized"

SettleRow(r) ==
    /\ At(r, "settle")
    /\ TransitionVtxoOperation("submitted", In(req[r].snap, Settled(r)))
    /\ row.state \in {"submitted", Settled(r)}
    /\ Proceed(r, "reload", req[r].snap, req[r].seen)
    /\ UNCHANGED <<signCount, expired, outcome, outVars>>

(* GetVtxoOperationView reads the row again and answers from it.           *)
Reload(r) ==
    /\ At(r, "reload")
    /\ Disclose(row)
    /\ Done(r)
    /\ UNCHANGED <<row, signCount, expired, outcome, abortReceipt>>
-----------------------------------------------------------------------------
(* A handler gives up: a refusal, a failed call or a deadline.             *)
Fail(r) ==
    /\ req[r] # Idle
    /\ Done(r)
    /\ UNCHANGED <<row, signCount, expired, outcome, outVars>>

(* External: the process dies, time passes, the owner uses the passkey for *)
(* something else, the Operator finalizes what it was given or the coins   *)
(* go elsewhere.                                                           *)
Crash ==
    /\ \E r \in Slots : req[r] # Idle
    /\ req' = [r \in Slots |-> Idle]
    /\ UNCHANGED <<row, signCount, expired, outcome, outVars>>

PassExpiry ==
    /\ row.state # "absent" /\ ~expired
    /\ expired' = TRUE
    /\ UNCHANGED <<row, signCount, req, outcome, outVars>>

OtherCeremony(n) ==
    /\ n > signCount
    /\ signCount' = n
    /\ UNCHANGED <<row, expired, req, outcome, outVars>>

Report(result) ==
    /\ outcome = "pending"
    /\ psbtsOut # {} \/ (result = "conflict" /\ row.state # "absent")
    /\ outcome' = result
    /\ UNCHANGED <<row, signCount, expired, req, outVars>>
-----------------------------------------------------------------------------
Start(r) ==
    \/ LoadReserve(r) \/ LoadAbort(r)
    \/ \E t \in Transactions, n \in 0..MaxSignCount : LoadAuthorize(r, t, n)
    \/ \E c \in Checkpoints : LoadCheckpoints(r, c)

StatusStep(r) == Query(r) \/ Promote(r) \/ SettleRow(r) \/ Reload(r) \/ Expire(r)

HandlerStep(r) ==
    \/ Insert(r) \/ AbortVtxo(r)
    \/ CommitSigned(r) \/ CommitLate(r) \/ ReplaySigned(r)
    \/ BindCheckpoints(r)
    \/ AnswerFromCopy(r) \/ Fail(r)

Next ==
    \/ \E r \in Requests : Start(r)
    \/ \E r \in Slots : LoadView(r) \/ LoadExpired(r) \/ StatusStep(r) \/ HandlerStep(r)
    \/ \E c \in Checkpoints : ReplayCheckpoints(c)
    \/ abortExpired
    \/ Crash \/ PassExpiry
    \/ \E n \in 0..MaxSignCount : OtherCeremony(n)
    \/ \E result \in {"finalized", "conflict"} : Report(result)

(* A client keeps asking, and neither the database nor the Operator fails  *)
(* every time it is asked.                                                 *)
Fairness ==
    /\ WF_vars(LoadView(Poller)) /\ WF_vars(LoadExpired(Poller))
    /\ WF_vars(StatusStep(Poller))
    /\ SF_vars(Query(Poller)) /\ SF_vars(Promote(Poller)) /\ SF_vars(SettleRow(Poller))
    /\ SF_vars(Expire(Poller))

Spec == Init /\ [][Next]_vars /\ Fairness
-----------------------------------------------------------------------------
(* Whatever the interleaving of authorizations with different PSBTs,       *)
(* aborts, expiry, retries and crashes, every transaction that ever left   *)
(* the process signed is the one in the row, and the row is not aborted:   *)
(* the Guardian signs one transaction per operation.                       *)
OneAuthorizedTransaction ==
    \A t \in psbtsOut :
        row.tx = t /\ row.state \in {"signed", "submitted", "finalized", "unresolved"}

(* Every checkpoint set that ever left the process signed is the one bound *)
(* in the row, although status queries move the row to submitted too.      *)
OneCheckpointSet ==
    \A c \in checkpointsOut : row.request = c /\ row.checkpoints = c

(* A client that holds an abort receipt holds no signature and never will. *)
AbortIsFinal == abortReceipt => row.state = "aborted" /\ psbtsOut = {}

(* No handler's stale copy ever overwrites or drops what another handler   *)
(* recorded: the swap compares the state only.                             *)
ArtifactsKept ==
    [][/\ row.tx # None => row'.tx = row.tx
       /\ row.request # None =>
            row'.request = row.request /\ row'.checkpoints = row.checkpoints]_vars

(* Once the Operator has an answer, a client that keeps asking sees it     *)
(* recorded, and an expired reservation does not stay open.                *)
OutcomeRecorded ==
    /\ (outcome # "pending" /\ row.state \in {"signed", "submitted"})
         ~> row.state \in {"finalized", "unresolved"}
    /\ (expired /\ row.state = "reserved") ~> row.state # "reserved"
-----------------------------------------------------------------------------
(* The inductive invariant behind the safety properties.                   *)

Authorized == {"signed", "submitted", "finalized", "unresolved"}

(* The artifacts a row holds in each state.                                *)
Shaped(op) ==
    /\ op.state \notin Authorized => op.tx = None /\ op.request = None /\ op.checkpoints = None
    /\ op.state \in Authorized =>
          /\ op.tx \in Transactions
          /\ \/ op.request = None /\ op.checkpoints = Unsigned
             \/ op.request \in Checkpoints /\ op.checkpoints = op.request
    /\ op.state = "signed" => op.request = None

(* The state a request's copy has at each of its steps.                    *)
CopyState(step, state) ==
    /\ step \in {None, "insert"} => state = "absent"
    /\ step \in {"expire", "commit", "abort"} => state = "reserved"
    /\ step \in {"replay", "bind", "promote"} => state = "signed"
    /\ step \in {"query", "reload"} => state \in {"signed", "submitted"}
    /\ step = "settle" => state = "submitted"

(* A request's copy is one the row has held: what the copy holds signed is *)
(* still in the row.                                                       *)
CopyHeld(r) ==
    LET op == req[r].snap
    IN  /\ Shaped(op)
        /\ CopyState(req[r].step, op.state)
        /\ req[r].step = "commit" => req[r].tx \in Transactions
        /\ req[r].step = "bind" => req[r].cps \in Checkpoints
        /\ op.state \in {"signed", "submitted"} => row.state \in Authorized /\ row.tx = op.tx
        /\ op.state = "submitted" =>
              /\ row.state # "signed"
              /\ row.request = op.request /\ row.checkpoints = op.checkpoints

SpendInv ==
    /\ TypeOK
    /\ Shaped(row)
    /\ \A r \in Slots : CopyHeld(r)
    /\ OneAuthorizedTransaction
    /\ OneCheckpointSet
    /\ abortReceipt => row.state = "aborted"

(* What the row records and what a request is about to record is what the  *)
(* Operator reported, which never changes; only what was authorized is     *)
(* ever executed.                                                          *)
OutcomeOrder ==
    /\ row.state = "finalized" => outcome = "finalized"
    /\ row.state = "unresolved" => outcome = "conflict"
    /\ outcome = "finalized" => row.state \in Authorized
    /\ \A r \in Slots : req[r].step \in {"promote", "settle"} =>
          req[r].seen = outcome /\ outcome # "pending"

SpendFenceInv == SpendInv /\ OutcomeOrder
-----------------------------------------------------------------------------
(* The payment implements the abstract fence.                              *)

Payment == "payment"
When(states) == IF row.state \in states THEN {Payment} ELSE {}

Fence == INSTANCE SpendingFence WITH
    Lifecycles <- {Payment},
    VaultOf <- [l \in {Payment} |-> "vault"],
    holders <- When({"reserved", "signed", "submitted", "unresolved"}),
    committed <- When(Authorized),
    executed <- IF outcome = "finalized" THEN {Payment} ELSE {},
    abandoned <- When({"aborted", "unresolved"})

(* Whatever copies the handlers work from, the payment keeps the contract  *)
(* of the fence: it gives its vault back only once the network executed it *)
(* or while it can never be executed, an executed payment is never taken   *)
(* for aborted or in conflict, and a conflict keeps the vault.             *)
ImplementsFence == Fence!FenceSpec
=============================================================================
