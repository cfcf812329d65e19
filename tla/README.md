# Guardian: a TLA+ verification project

Guardian is a policy and signing service for self-custodial Bitcoin vaults. It
holds one of a vault's signing keys and uses it only when its ledger says that
the request is within policy. This directory holds TLA+ models of that ledger
and of the handlers around it, the TLC runs that check them on small instances,
and proofs, checked by TLAPS, that the most important properties hold for every
instance. `PROJECT.json` lists the components, runs, hazards, findings,
theorems, and the source lines that every definition stands for.

## 1. The system

A request enters through HTTP, a handler in `internal/application` verifies it,
reads and writes rows of an authenticated SQLite ledger (`internal/policy`) and
may call the Ark Operator or a Bitcoin chain source. Every ledger call takes one
mutex and runs in one database transaction; a handler makes several such calls
with signing and network traffic between them. An authenticated count of economic
rows, the policy sequence, is kept in a file outside of the database.

| Part | State | Operations | What makes it hard |
|---|---|---|---|
| Ark payments (`vtxo_operation`) | one row per payment, its state and inputs | reserve, sign, submit, finalize, abort, expire | stale copies of the row held across signing; an expiry sweep by other calls; lost answers |
| Bitcoin payments (`light_renewal_*` journal) | a row and an append-only journal | reserve, register, finalize, delete, confirm, release, cancel | answers out of order; a dispatched forfeit that may or may not execute; release only on proof |
| Delegated renewals (`light_delegation_*` journal) | rows scheduled in sets, a journal each | schedule, claim, stream phases, finalize, clean up, invalidate | armed long before they run; a background executor and restarts |
| Rolling allowance | no state of its own: a sum over the three journals | checked by every reservation and claim | charges that age, are stamped again, or outlive their window |
| Policy sequence | a file with a count | observe, before COMMIT or after it | crashes between the file and the database; restored databases; rows removed by a migration |
| Passkey counter | one counter per credential | advance, exact replay | retries of a request that was already counted |
| Boarding | attempts, authorizations, dispatches, submissions, conflicts | begin, authorize, dispatch, submit, finalize, release, replace | late results of a replaced attempt; reorganizations |
| Enrollment | invitations, reservations, vaults, published snapshots | issue, start, propose, finish, clean, reload | two finishes of one reservation; finish against expiry; a lost answer after the commit |
| Passkey sessions | spent tickets, one envelope per vault | issue, read, claim, install, recover | a ticket verified twice; pruning and full tables; a restart that forgets |
| Recovery archive | a revision per vault, sessions in memory | open, read, write | two devices, lost answers, sessions older than the first write |
| Ledger Savings recovery | an event log per vault | reserve, sign, complete, replay | commit before observation; what may replace what; late completions |

The three Spending lifecycles of a vault share one fence (at most one of them is
under way), one allowance and the vault's coins. Enrollment, sessions, archive
and Savings recovery meet in the vault's row, which never changes, in the tickets
and in the process, which a restart takes down as a whole. All writers of
economic rows share the policy sequence.

## 2. Modules

| Module | Models | Kind |
|---|---|---|
| `SpendingState` | the rows of the three lifecycles, state classes, fence predicates, allowance, passkey counter | state and shared operators |
| `VtxoLedger` | `policy/vtxo_ledger.go`, the transitions of an Ark payment | component |
| `RenewalLedger` | `policy/spending_renewal.go`, `bitcoin_conflict.go`, `bitcoin_ended_batch.go` | component |
| `DelegationLedger` | `policy/spending_delegation.go` | component |
| `SpendingLedger` | the three components over one ledger, the clock and the outside world; the properties | composition |
| `SpendingFence` | what the ledger promises: one holder per vault, only the committed is executed, what was given up never is | abstract specification |
| `VtxoSpend` | the handlers of one Ark payment (`application/vtxo.go`, `vtxo_abort.go`) as concurrent requests | component |
| `BitcoinPayment` | the five handlers of a Bitcoin payment over `RenewalLedger`, the Operator and the chain; shown to implement `SpendingLedger` | component and refinement |
| `DelegatedRenewal` | the executor of delegated renewals over `DelegationLedger`: list, dispatch, batch, stream, cleanup, routes | component |
| `VaultBoardLedger` | the rules of `policy/vault_board.go` and `vault_board_conflict.go` on one boarding outpoint | operators |
| `VaultBoard` | the four boarding handlers, the Operator and the chain over them | component |
| `VaultEnrollment` | invitations, `application/enroll.go`, `policy/pending.go`, `vault_create.go`, publication and start-up | component |
| `PasskeyTickets` | `application/session_challenge.go`, `session.go` and the credential envelope | component |
| `RecoveryArchive` | `application/backup_session.go`, `recovery_archive.go`, `policy/recovery_backup.go` | component |
| `SavingsRecovery` | `application/ledger_savings_recovery.go`, `policy/ledger_savings.go`, `ledger_savings_replay.go` | component |
| `VaultAccess` | the previous four in one process: clock, vaults, tickets, slots, restart | composition |
| `PolicySequence` | the database and the sequence file over crashes, restores and the schema retirement | component |
| `SpendingLedgerProofs`, `SpendingAllowanceProofs` | theorems about `SpendingLedger` | proofs |
| `VtxoSpendProofs`, `BitcoinPaymentProofs`, `DelegatedRenewalProofs`, `VaultBoardProofs`, `VaultAccessProofs`, `PolicySequenceProofs` | theorems about the module of that name | proofs |
| `MC*` | values of the constants | TLC instances |

### State and actions against the code

*SpendingLedger.* One action per ledger method, named after it. The guard of an
action is the conjunction of the checks the method makes before it writes; a
refused call and an exact replay leave the ledger as it is and are not steps.
Journals are sets of phases, because the code's tests ask only which phases are
present; the few timestamps that later checks read are kept. Amounts are natural
numbers and the clock is a natural number of seconds. `CreatedAt` is read before
the mutex is taken, so a row's stamp is any value of `NowUTC`, up to `ClockLag`
seconds behind the clock. Digests, MACs and encodings are left out: they only
decide whether a call is refused. Four variables stand for the outside world:
`settled` (when the network executed a lifecycle), `exited` (coins spent by
nobody's lifecycle), `endedAt` (when the Operator ended a batch) and
`conflicted` (payments excluded by a buried conflict). Handlers' evidence,
such as a confirmed transaction or a proof of an ended batch, is a guard on them.
The end of a batch is stamped by the Operator's clock (`OperatorTime`), which may
be up to `OperatorAhead` seconds ahead of the Guardian's.

*VtxoSpend.* A request reads the row (a `Load...` action), holds the copy in
`req`, and writes it back later. `TransitionVtxoOperation` writes the whole copy
if the row's state is still the one the caller expects, as the SQL does. A
request may fail at any point and a crash ends all of them. `psbtsOut` and
`checkpointsOut` collect every signature that has left the process, lost answers
included. `FinalizeVtxo` takes the same steps as a status view (load, ask the
Operator, swap, read again) and answers less; the view's actions cover it. The
passkey counter moves also through other calls (`OtherCeremony`). The module
instantiates `SpendingFence` with this one payment as the only lifecycle: the
row's state says whether it holds the vault, is committed or was given up, and
the Operator's `outcome` whether it was executed.

*BitcoinPayment.* What a handler has loaded survives as the step its request has
reached: the code acts on a copy only through the decision it took from it. The
Operator's side (`intent`, `deletion`, `forfeit`) and the chain move on their
own; a call is sent, and is answered later or never. The Operator refuses an
intent past its expiry by a clock that may lag by `OperatorSkew`, keeps a queued
one for ever and takes forfeits until it ends the batch. The module instantiates
`SpendingLedger` with its own variables, so `ImplementsLedger` says that the
handlers, the Operator and the chain together take only steps the proofs of
section 5 are about.

*DelegatedRenewal.* The dispatcher lists the journal (`due` holds the copies) and
starts at most one attempt per vault. An attempt holds a snapshot and a step;
every event of the batch is journalled before it is handled and replayed by the
next attempt; `MaxTranscript` is the cap on them (the code's 2064). `signed` collects what the
MuSig nonces have signed and `forfeits` what has left for the Operator. A batch
stands for its tree, commitment and connectors, and each kind of stream event
occurs in it once, nonces per node. A registration arrives at the moment of the
call or never; that the Operator refuses a second registration of an intent it
holds is an assumption about it. The owner may leave with a coin on chain while
the renewal is armed. The Operator reports a commitment as ended once its batch
has been executed and does not know that of a batch that failed, so a forfeit may
still leave for the latter, which can no longer execute. This module, too,
instantiates `SpendingLedger` with its own
variables: `ImplementsLedger` says that an attempt, whatever copy it works from,
takes the vault only through a claim the ledger admits, and that a renewal is
executed only once its dispatch row is stored.

*VaultBoard.* One outpoint. Each request reads the chain and the ledger, and its
copy may be outrun. In this build `classifyVaultBoardAttempt` never answers
`release_required`, so a release is possible only with a handle that was sealed
before an upgrade; the second disjunct of `Init` is that state. `fresh` marks a
request that has not been overtaken by a reorganization since its last look at
the chain. `Refused` keeps out register requests that the ledger would turn down
anyway. `verifyVaultBoardFinal` checks input, amount, receiver and the signed
tree, and nothing that ties the commitment to the session key of one attempt. An
attempt may therefore authorize the commitment of a superseded one; when a
confirmed conflict excludes that commitment, the attempt may be replaced while
its own intent is still queued. `OneLiveIntent` leaves out attempts that a
conflict has settled for this reason; no document says otherwise.

*VaultEnrollment.* A setup is the protection tier with the policy digest, keys
are all keys of a request, and a vault ID stands also for the handle and the
challenge drawn with it. `client` is what a browser holds; one whose answer was
lost sends the same finish again. `Locked` is the service's mutex, held from the
transaction to the publication. The read back after the commit may fail
(`ReadbackFails`): the error is then answered from the stored vault, and the
snapshot is missing until the next start. One minute of the issuing limit is one
tick. An expired, unused invitation from a file is cleaned after a day by the
next `IssueEnrollmentSession` and provisioned afresh when the process starts with
the same file. The comment on `provisionEnrollmentInvite` calls presenting the
file again "idempotent, including after the invitation is consumed"; consumed
invitations are never cleaned, so for those it is, and `OneVaultPerInvite` rests
on it. An unused one gets a new window in this way; no run is about that.

*PasskeyTickets.* A ticket is authenticated by a key of the process, so a restart
turns all of them into `Gone`. `call` is a verification slot; assertion, proof,
sign count and rate limit can only refuse, after the ticket is spent or before,
and a refusal is `FailCall`. The session and slot caps are the sizes of the
sets.

*RecoveryArchive.* Opening reads the archive before it takes the session lock
(`openBackup`, then `InsertSession`); reads and writes hold it throughout.
`stored` and `acked` remember every archive and every answered write. The
binding check needs a Light vault's published snapshot, hence the guard in
`recoveryArchiveBinding`.

*SavingsRecovery.* A coin's script says whether it lies on the Savings tree or on
whose pending tree, which decides purpose, claimant, actor and destination. An
approval is what differs between two serializations of one transaction, and the
Guardian's signature is assumed to be a function of the candidate. Observing the
policy sequence around the commit is the subject of `PolicySequence`. An unsigned
reservation can only be completed or renewed for the same transaction:
`DecideReplay` refuses every other one for that coin, also when the client has
lost the first.

*PolicySequence.* A row is its identity. Writers differ in when they observe the
file: reservations after the insert and before COMMIT, delegated renewals also
before the insert, Ledger Savings before the insert and again after COMMIT.
Failing the call between any two of these points, a crash, and a restored copy
are actions. The retirement of schema 11 removes rows and stores their number as
a base. The deployment keeps one copy of the database; the sequence is only a
count, and with two copies of different histories an unacknowledged recovery of
one could stand in for an acknowledged row of the other. Losing the file and
restoring file and database together are outside of what the code claims
(`docs/storage.md`). A failed sync of the directory is treated as durable.

## 3. Runs

| Run | Instance | Checks | Shows |
|---|---|---|---|
| `spending_ledger` | 1 vault, 2 Ark payments, 1 Bitcoin payment, 1 delegated renewal, clock to 4 | `OneActiveLifecycle`, `SpentWithinAllowance`, `RollingOutflowWithinAllowance`, `GivenUpNeverSettles`, `CoinLockedOnce`, `ArmedClearOfVtxoPayments` | the fence, the allowance and the coin locks hold in every interleaving of ledger calls, late stamps and an Operator clock one second ahead included (731k states) |
| `spending_fence` | 1 Ark payment, 1 Bitcoin payment, 2 delegated renewals, clock to 3 | `FenceLoweredOnlyOnProof`, `ImplementsFence` | the ledger implements `SpendingFence`; no committed payment loses its fence without proof (1.0M states) |
| `armed_overlap` | as above | `ArmedClearOfBitcoinPayments` | violated, see findings |
| `vtxo_spend` | 2 requests, a polling client, 2 transactions, 2 checkpoint sets, counter to 1 | `OneAuthorizedTransaction`, `OneCheckpointSet`, `AbortIsFinal`, `ArtifactsKept`, `ImplementsFence`, `OutcomeRecorded` | one signed transaction and one checkpoint set per payment, no lost update, the handlers implement the abstract fence, outcomes are recorded (117k states) |
| `bitcoin_payment` | 2 requests, 2 payments of one coin, clock to 2 | `GivenUpExcluded`, `GivenUpUnqueued`, `PaymentSentOnce`, `ImplementsLedger` | a payment that gave its coin back can never take it, whatever the Operator still holds or answers late; each request leaves once; the handlers refine the ledger (621k states) |
| `delegated_renewal` | 1 renewal, 2 tree nodes, 2 values of the peers' nonces, 2 batches, clock to 2 | `OneChallengePerNonce`, `ForfeitedIsKept`, `ReleasedUnqueued` | attempts resumed from stale copies never sign two challenges with one nonce, never give up a forfeited renewal, and release only what the Operator no longer holds (496k states) |
| `renewal_progress` | 2 renewals of one vault | `DueResolved`, `ImplementsLedger` | a scheduled renewal is sent to the Operator or ends, unless its coin is gone or another renewal of its vault is stuck at the Operator or without its coin; the executor refines the ledger (17k states; no batches) |
| `stale_due_list` | as `delegated_renewal` | `AmbiguousDispatchKeepsOwnership` | violated, see findings |
| `vault_board` | 2 requests, 2 attempts, 2 sessions, 2 commitments, 1 reorganization, clock to 3 | `OneLiveIntent`, `SentOnce`, `NoSecondCommitment`, `SupersededSettled` | one live registration that no conflict has settled, nothing sent twice, no second commitment beside a possible first (547k states) |
| `vault_access` | 2 of each: invitations, vault IDs, clients, setups, keys, calls, envelopes, sessions, headers, bodies, revisions, fees, approvals; 3 tickets, 4 events, clock to 4 | `OneVaultPerInvite`, `AnsweredAsReviewed`, `RetryAccepted`, `TicketUsedOnce`, `EnvelopeLocked`, `HeaderPinned`, `AckedWriteStored`, `OneDestination`, `NoUnrecordedSignature` | one vault per invitation and it is the reviewed one; a ticket is spent once; what was stored first stays; one destination and no lost signature per Savings coin (406k states) |
| `policy_sequence` | 2 reservations, 1 delegated renewal, 2 recoveries, 2 retired rows | `TypeOK`, `AcknowledgedSurvive`, `SequenceCoversReservations`, `RefusedOnlyWhenTorn` | no acknowledged row is lost while a process serves; the database is refused only after a torn call or a restore (79k states, up to symmetry) |
| `restore_older` | as above | `RestoreRefused` | violated, see findings |

**Bounds.** The instances keep every comparison of times two-sided: window,
reservation lifetime, release grace and quarantine are one second, and the clock
runs past each of them, so a charge ages out, a reservation expires, a cancelled
payment waits out its grace and an abandoned attempt its quarantine. The
allowance of 3 admits one payment of 2 with a renewal of 1 and refuses two
payments. Two Ark payments share a coin with the delegated renewal, so each lock
and each overlap check is decisive. One vault is enough for the checks made per
vault; the theorems cover any number. The counter is constant in the
Spending runs (`MaxSignCount` 0) and moves in `vtxo_spend`. Three requests in
flight give every race of two writers with a third observer. In the other
handlers two requests, attempts or devices give every race of two writers; the
same two slots serve again after one has failed. Lifetimes, margins, skews and
quarantines are one or two ticks and the clock runs past them. `vault_board`
needs two attempts for a replaced one, and two commitments for a second beside
the first. An attempt replaced while its own intent is live takes a third:
`OneLiveIntent` was explored with three attempts and one request (187k states),
and the theorem covers any number. In `vault_access` a clock of 4 lets a file's invitation expire, be
cleaned and be provisioned again; three tickets fill the table of spent ones
(`MaxConsumed` 2) and leave one to refuse. Its components meet only in vault rows
that never change, tickets, clock and restart, so the MC module explores them
one service at a time, the last three from an enrolled vault. Larger instances
were explored once without error: `bitcoin_payment` with expiries 2 and 4 and a
clock to 5, the two hosts' clocks equal (10.4M states), and enrollment with 3 vault IDs, 3 clients and 2 open invitations (390k
states). `MaxTranscript` is 7, the length of a whole transcript, because a shorter
one admits no forfeit; the refusal at the cap therefore does not occur in the
run. Symmetry is used for interchangeable values, never with a liveness property.

**Deadlock** is checked in `policy_sequence`. The Spending runs stop when the
bounded clock has run out and every payment is finished; a payment in
`vtxo_spend` may be finished for good, and so may a boarding, a Bitcoin payment
or a renewal when the clock has run out. `vault_access` ends when clock, tickets,
revisions and events, all bounded, are used up.

**Fairness.** Two properties need it. For `OutcomeRecorded`: the code records an
outcome only when somebody asks, so one client (`Poller`) keeps asking and its request keeps
being scheduled (weak fairness on its loads and steps). A request may fail or
the process crash at any step, but not at the same step every time (strong
fairness on the Operator's answer and on the swaps). No other process is
assumed to make progress. Without the polling client nothing need ever be
recorded; this is how the code is meant (`vtxo.go`, "Reconcile only the
operation the client asked about"). For `DueResolved`: the ticker of the
executor and the ten-minute limit of an attempt are the program's own (weak
fairness on time, listing and the end of an attempt). A renewal that has not
ended is listed on every tick; what is assumed is that the dispatcher gets through
its list between the stops of the process (strong fairness) and that the coin,
the Operator and the ledger do not fail the same phase of a renewal every time
(strong fairness on each phase up to the registration's dispatch). The exception in `DueResolved` is real: the list
is always in the order of operation IDs and a vault has one executor, so a
renewal that is stuck at the Operator, or whose coin has left, is started before
the others on every tick.

## 4. Findings

*An armed renewal survives a Bitcoin payment of the same coin.*
`docs/delegated-renewal-lifecycle.md:29` says "A payment atomically invalidates
overlapping armed requests." `ReserveVtxoOperation` does; `ReserveSpendingRenewal`
does not. The renewal stays armed and its claim is refused later by the fence or
by the coin being gone, so `OneActiveLifecycle` is not affected.

*An older database can be accepted.* `monotonic.go:18` says "Restoring an older
database while retaining this file is refused." The file counts rows, and most
changes of an Ark payment update a row in place, so a copy with as many rows but
earlier states is accepted. Rows themselves are not lost while one copy is kept
(`AcknowledgedSurvive`).

*A stale copy turns a dispatched registration into a rejected one.*
The comment at `spending_delegation_attempts.go:31` says "An ambiguous dispatch
never releases ownership and never mints a new attempt identity". `dispatchDueSpendingDelegationAttempts` starts attempts from
copies listed earlier. A copy listed before the running attempt journalled its
registration's dispatch, and started after that attempt ended, registers once
more, because `AdvanceSpendingDelegation` answers the phase that is already there as
a replay. The refusal of the second registration is recorded as the result of the
first, and the renewal ends while the Operator holds its intent. That the Operator
refuses a duplicate, with a status the code counts as a rejection, is assumed.

## 5. Proofs

Every safety property that a passing run checks is also proved, for every value
of the constants. Each theorem is about the
specification the run checks: `Spec`, with `PaymentSpec` for `BitcoinPayment` and
`RenewalSpec` for `DelegatedRenewal`.

A leaf names its backend where that matters: `Zenon` for sets and first-order
steps, SMT for arithmetic and for records built with `EXCEPT`. tlapm's SMT
translation slows down as a module gives it more leaves, so the leaves Zenon can
prove are given to it; each module is then checked in a few minutes.

| Module | Theorem | States |
|---|---|---|
| `SpendingLedgerProofs` | `SpendingInvariant` | `SpendingInv` is inductive and always holds |
| | `TypeCorrect` | `TypeOK` |
| | `Fenced` | `OneActiveLifecycle` |
| | `GivenUpSafe` | `GivenUpNeverSettles` |
| | `CoinsLockedOnce` | `CoinLockedOnce` |
| | `ArmedClear` | `ArmedClearOfVtxoPayments` |
| | `FenceLowered` | `FenceLoweredOnlyOnProof`, an action property |
| | `LedgerImplementsFence` | `ImplementsFence`: the refinement of `SpendingFence` |
| `SpendingAllowanceProofs` | `AllowanceInvariant` | `AllowanceInv` is inductive and always holds |
| | `SpentWithin` | `SpentWithinAllowance` |
| | `RollingOutflowWithin` | `RollingOutflowWithinAllowance` |
| `VtxoSpendProofs` | `SpendTypes` | every field keeps its type (`TypeOK`) |
| | `OneTransactionSigned` | `OneAuthorizedTransaction` |
| | `OneCheckpointSetSigned` | `OneCheckpointSet` |
| | `AcknowledgedAbortIsFinal` | `AbortIsFinal` |
| | `RecordedArtifactsKept` | `ArtifactsKept`, an action property |
| | `SpendFenceInvariant` | `SpendFenceInv` always holds |
| | `HandlersImplementFence` | `ImplementsFence`: the refinement of `SpendingFence` by one payment's handlers |
| `BitcoinPaymentProofs` | `PaymentInvariant` | `PaymentInv` always holds |
| | `GivenUpCannotSettle` | `GivenUpExcluded` |
| | `GivenUpLeavesNoIntent` | `GivenUpUnqueued` |
| | `PaymentLeavesOnce` | `PaymentSentOnce`, an action property |
| | `PaymentsImplementLedger` | `ImplementsLedger`: the refinement of `SpendingLedger` |
| `DelegatedRenewalProofs` | `RenewalInvariant` | `RenewalInv` always holds |
| | `NoncesSignOneChallenge` | `OneChallengePerNonce` |
| | `ForfeitLeavesForGood` | `ForfeitedIsKept` |
| | `ReleasedIsUnqueued` | `ReleasedUnqueued` |
| | `RenewalsImplementLedger` | `ImplementsLedger`: the refinement of `SpendingLedger` |
| `VaultBoardProofs` | `BoardInvariant` | `BoardInv` always holds |
| | `OneRegistrationLive` | `OneLiveIntent` |
| | `NothingLeavesTwice` | `SentOnce`, an action property |
| | `OneCommitmentPossible` | `NoSecondCommitment`, an action property |
| | `SupersededStaysSettled` | `SupersededSettled`, an action property |
| `VaultAccessProofs` | `AccessInvariant` | `AccessInv` always holds |
| | `InviteMakesOneVault` | `OneVaultPerInvite` |
| | `AnswersMatchReview` | `AnsweredAsReviewed` |
| | `LostAnswerRetried` | `RetryAccepted` |
| | `TicketSpentOnce` | `TicketUsedOnce` |
| | `EnvelopeNeverReplaced` | `EnvelopeLocked`, an action property |
| | `ArchiveHeaderPinned` | `HeaderPinned` |
| | `AnsweredWriteIsStored` | `AckedWriteStored` |
| | `SignaturesAccountedFor` | `NoUnrecordedSignature` |
| | `CoinSignedToOneDestination` | `OneDestination` |
| `PolicySequenceProofs` | `SequenceTypes` | `TypeOK` |
| | `AcknowledgedRowsSurvive` | `AcknowledgedSurvive` |
| | `FileCoversReservations` | `SequenceCoversReservations` |
| | `RefusedStartExplained` | `RefusedOnlyWhenTorn` |

**Assumptions.** Those named in the modules, which TLC evaluates in the runs:
times, counters and bounds are natural numbers; the kinds of lifecycle, row and
identifier are disjoint, and `None` is none of them; the sets of rows that the
sequence counts are finite; a Bitcoin payment spends at least one coin (a stored
operation has exactly one input, `spending_renewal.go:17`). What remains
is about the outside: the Operator's clock lags by no more than the grace the code waits
(`OperatorSkew` up to `ReleaseGrace` or `Quarantine`, `Skew` up to `Quarantine`),
which is what those waits are for; and the second in which the Operator reports a
batch ended is not before the Guardian's clock at that moment. The code compares
this second with its own dispatch stamp (`bitcoin_ended_batch.go:31`,
`bitcoin_ended_batch_release.go:43`) and leaves no margin for an Operator clock
that is behind, so `GivenUpSafe`, `FenceLowered`, `LedgerImplementsFence`,
`GivenUpCannotSettle` and `PaymentsImplementLedger` rest on it. A clock ahead, by any
`OperatorAhead`, only makes the Guardian keep the fence longer. `spending_fence`
runs with equal clocks, the other two with one second.

**The argument.** Each inductive invariant stands after the properties in its component's
module and was checked by TLC on the run's instance before it was proved. A proof has one
lemma per part of the invariant and in it one step per action. What an action
does to a row is said once, by an `...Effect` or `...Moves` lemma, so that later
steps do not expand an `EXCEPT`.

*SpendingLedger.* `OneActiveLifecycle` is inductive with the types alone: each of
the three ways to become active looks at all three journals in the same step.
`GivenUpNeverSettles` is not: that a released Bitcoin payment will never execute
depends on why it was released, which the journal records and the world must
not contradict later. `SpendingInv` therefore adds the order of the two journals
(`RenewalOrder`, `DelegationOrder`: no phase without its predecessor, no way
of giving up after the forfeit was dispatched except on evidence that stays true)
and `SettlementOrder` (only the committed is executed; an executed payment has
no conflict and was dispatched before its batch ended; an unresolved payment
has lost a coin).

The refinement maps holders, committed, executed and abandoned to `Active`,
`Committed`, `settled` and `GivenUp`. One lemma per abstract action says which
change of the four sets it is; one per kind of lifecycle shows that a ledger
step is such a change or none. A reservation that sweeps expired reservations
and invalidates armed renewals is a single `Acquire` that displaces them.

*The allowance.* What the ledger counts is not inductive by itself: an expired
reservation is no longer counted and is counted again when it is signed, and a
payment executed late is counted from a new stamp. `AllowanceHeld` therefore
bounds a larger set, every lifecycle of the vault that is active or still
charged (`Held`). Only an admission adds to it, and the fence admits only when
nothing of the vault is active: the set is then what the window counts, which is
what the admission check bounds together with the new debit. Every other step
leaves the set as it is or shrinks it, so signing a forgotten reservation brings
back nothing that was not already paid for. For what the network executed,
`StampOrder` says that an outcome is stamped no earlier than its execution, so
whatever was executed within the window is still held. The sums are folds over
sets. No induction theorem with an operator parameter is needed: the facts used
(a sum is a natural number, grows with its set, and one more lifecycle adds its
debit) follow from a relation between a set and its sum (`Adds`), shown to be
total by the well-foundedness of strict inclusion on finite sets
(`FiniteSetsGrow`). Finiteness of the held set is part of the invariant; the
universe of lifecycles may be infinite.

*VtxoSpend.* A swap writes a whole copy and compares only the state, so the
invariant is about the copies. `SpendInv`: the row and every copy have the
artifacts of their state (`Shaped`), a copy has a state its step can hold
(`CopyState`), and what a copy holds signed is still in the row (`CopyHeld`).
The state that the swap compares then determines every artifact it overwrites.
The refinement needs `OutcomeOrder` beside it: the outcome in the row, and the
one a request took from the Operator and has yet to write, is the Operator's,
which never changes, and nothing but an authorized payment is executed.

*BitcoinPayment.* `PaymentInv` orders the journal and puts the Operator and the
chain behind it: an intent, deletion or forfeit exists only after its dispatch
row, and a released payment has the reason in its journal or on the chain.
`GivenUpUnqueued` needs that a deletion is authorized only past expiry and grace.
For the refinement, the handlers' appends are ledger calls, and the Operator's
and the chain's steps are the ledger's external steps or stutter.

*DelegatedRenewal.* `RenewalInv` says that copies only lag: phases in a listed
snapshot or an attempt are in the journal, an attempt's batch is the one the
journal is bound to, and no event is replayed or handled before its batch is
known. What has been signed or forfeited is what the journal is bound to
(`SignedOrder`); since the journal binds batch and nonces once, two signatures of
a renewal are over one challenge. The finding `stale_due_list` is consistent
with this: a renewal rejected by a stale copy is given up, but not by one of the
ways `ReleasedUnqueued` is about. For the refinement, whatever an attempt
journals is one append of the ledger or a replay that changes nothing, an exit
of a coin and the execution of a forfeit are the ledger's external steps, and
`SignedOrder` gives that what is executed was dispatched. The fence and the
allowance, proved of the ledger, so hold of payments and renewals as their
handlers drive them.

*VaultBoard.* `BoardInv` orders the rows of an attempt, says that every
superseded attempt still may rotate (`CanRotate` is stable as time passes,
because no late result can be written to such an attempt), and matches rows with
what the Operator did. An attempt that may rotate and is not settled by a
conflict has an intent that was never sent, was rejected, was deleted or is past
expiry and quarantine. For `NoSecondCommitment` a request's conflicts are among
the ledger's, and a fresh request has them all excluded on chain.

*VaultAccess.* `AccessInv` is a conjunction of one invariant per service:
reservations and clients hold what was drawn with their vault ID; every spent
ticket is remembered, expired or gone; a revision is stored once; a Savings
coin's latest event decides what may follow it and all its events have one
destination. The theorem is about all four services interleaved, while the run
explores them one at a time.

*PolicySequence.* The properties hold of the serving database; the invariant adds
the copy that may be restored. The live database is the copy with later rows,
perhaps over the retirement (`Follows`), and a database that misses an
acknowledged row is behind the file (`BehindIfMissing`), so that it is refused
when a process starts with it.

**Only model-checked.** `OutcomeRecorded` and `DueResolved`: liveness under
fairness. The three properties of section 4 are violated. `renewal_progress`
has no batches, so it does not reach the execution of a forfeit;
`ImplementsLedger` was also checked once on the instance of `delegated_renewal`,
which does (496k states), and the theorem covers both.

## 6. What is not modelled

Byte-level work (PSBT and script verification, key derivation, WebAuthn
parsing, canonical encodings and MACs) is pure computation whose verdict the
models take as an input. Network clients appear only as external steps. HTTP
decoding, readiness and status have no state. Schema validation compares table
definitions; only the retirement of schema 11 has behaviour, in
`PolicySequence`. Coin selection and the fee search of a payment
(`application/vtxo.go`) are a bounded search over the wallet's coins that stores
nothing. The public recovery map (`application/map.go`, `policy/vaultmap.go`) is
one row per vault that an authenticated write replaces unconditionally. LNURL
registration authenticates with a ticket and forwards to another service.
`ReplaceVaultEnvelope` has no caller among the handlers. A delegated renewal with
a final authorization whose batch has ended, or with a deletion whose answer was
lost, keeps its fence (`docs/delegated-renewal-lifecycle.md`, "Abandonment and
availability limits"); no property says that it ends.

## 7. Plan

1. Proofs: that two delegated renewals or a renewal and a payment of one vault
   keep the ledger's fence when their handlers run together, by composing
   `BitcoinPayment` and `DelegatedRenewal` over one ledger.
2. `CoinSelection`: the selection and fee search as an operator, checked against
   its reference definition on small coin sets.
