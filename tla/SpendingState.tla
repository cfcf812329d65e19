---------------------------- MODULE SpendingState ----------------------------
(***************************************************************************)
(* The rows of the authenticated policy ledger that one Spending vault's   *)
(* lifecycles share, and the predicates every lifecycle consults before it *)
(* changes them: the state classes, the vault-wide fence and the rolling   *)
(* allowance.  Three kinds of lifecycle compete for a vault:               *)
(*                                                                         *)
(*   VtxoOps      Ark payments         (vtxo_operation rows)               *)
(*   Renewals     Bitcoin payments     (light_renewal_* journal)           *)
(*   Delegations  delegated renewals   (light_delegation_* journal)        *)
(*                                                                         *)
(* Every ledger call holds one mutex and one database transaction, so a    *)
(* call is one step.  A call that returns an error rolls back and a replay *)
(* returns what is stored: neither changes a row, so neither is a step.    *)
(* Request digests and MACs only decide whether a call is refused or is an *)
(* exact replay; they are left out.                                        *)
(***************************************************************************)
EXTENDS Integers, FiniteSets, FiniteSetsExt

CONSTANTS
    Vaults, VtxoOps, Renewals, Delegations, Coins,
    VaultOf,            \* the vault of each lifecycle
    Inputs,             \* the coins each lifecycle spends
    Debit,              \* amount + fee; for a delegated renewal its fee
    Allowance,          \* the enrolled rolling allowance of each vault
    Window,             \* allowanceWindow
    ReserveTTL,         \* lifetime of an Ark reservation
    RenewalExpiry,      \* ExpiresAt of each Bitcoin payment's plan
    RenewalLifetime,    \* longest lifetime of a Bitcoin payment's plan
    ReleaseGrace,       \* wait after RenewalExpiry before a cancellation
    ValidAt, ExpiresAt, \* dispatch window of each delegated renewal's plan
    DelegationLead,     \* furthest ValidAt ahead of scheduling
    DelegationSpan,     \* longest dispatch window
    Quarantine,         \* wait after ExpiresAt before abandonment
    MaxDelegations,     \* unfinished delegations a vault may hold
    ClockLag,           \* how long a call may wait for the ledger's mutex
    OperatorAhead,      \* how far the Operator's clock may be ahead when it ends a batch
    MaxSignCount,       \* bound on the WebAuthn counters that are offered
    MaxTime             \* bound on the clock

Lifecycles == VtxoOps \cup Renewals \cup Delegations
Time == Nat
Never == -1

ASSUME LifecycleAssumption ==
    /\ VtxoOps \cap Renewals = {}
    /\ VtxoOps \cap Delegations = {}
    /\ Renewals \cap Delegations = {}
    /\ VaultOf \in [Lifecycles -> Vaults]
    /\ Inputs \in [Lifecycles -> SUBSET Coins]

ASSUME TimeAssumption ==
    /\ {Window, ReserveTTL, RenewalLifetime, ReleaseGrace, DelegationLead,
        DelegationSpan, Quarantine, ClockLag, OperatorAhead, MaxTime} \subseteq Nat
    /\ RenewalExpiry \in [Renewals -> Nat]
    /\ ValidAt \in [Delegations -> Nat]
    /\ ExpiresAt \in [Delegations -> Nat]

ASSUME AmountAssumption ==
    /\ Debit \in [Lifecycles -> Nat]
    /\ Allowance \in [Vaults -> Nat]
    /\ MaxDelegations \in Nat
    /\ MaxSignCount \in Nat

VARIABLES
    now,            \* the ledger's clock, in seconds
    vtxo,           \* vtxo_operation rows
    renewal,        \* Bitcoin payment rows with the phases journalled so far
    delegation,     \* delegated renewal rows with the phases journalled so far
    signCount,      \* stored WebAuthn counter of each vault's credential
    settled,        \* when the network executed a lifecycle, or Never
    exited,         \* coins spent by a transaction of no lifecycle
    endedAt,        \* when the Operator ended a payment's batch, or Never
    conflicted      \* payments whose commitment a buried conflict excludes

ledgerVars == <<vtxo, renewal, delegation, signCount>>
worldVars == <<settled, exited, endedAt, conflicted>>
vars == <<now, vtxo, renewal, delegation, signCount,
          settled, exited, endedAt, conflicted>>
-----------------------------------------------------------------------------
(* Rows.                                                                   *)

VtxoStates ==
    {"none", "reserved", "signed", "submitted", "finalized", "unresolved", "aborted"}

(* register_result carries an outcome; each outcome is a phase of its own. *)
RenewalPhases ==
    {"register_authorized", "register_dispatched", "registered", "rejected",
     "final_authorized", "final_dispatched", "final_result", "confirmed",
     "delete_authorized", "delete_dispatched", "delete_result",
     "released", "cancelled"}

DelegationPhases ==
    {"claimed", "register_authorized", "register_dispatched", "register_result",
     "batch_started", "tree_prepared", "nonces_committed", "tree_signed",
     "final_authorized", "final_dispatched", "final_result",
     "cleanup_pending", "cleanup_authorized", "cleanup_dispatched", "cleanup_result",
     "confirmed", "invalidated", "cancelled", "expired", "needs_authorization",
     "rejected"}

VtxoRow == [state : VtxoStates, created : Time, expires : Time]

(* Only the timestamps a later check reads are kept.                       *)
RenewalRow ==
    [stored : BOOLEAN, events : SUBSET RenewalPhases,
     dispatchedAt : Time, confirmedAt : Time]

DelegationRow ==
    [stored : BOOLEAN, events : SUBSET DelegationPhases, confirmedAt : Time]

TypeOK ==
    /\ now \in Time
    /\ vtxo \in [VtxoOps -> VtxoRow]
    /\ renewal \in [Renewals -> RenewalRow]
    /\ delegation \in [Delegations -> DelegationRow]
    /\ signCount \in [Vaults -> Nat]
    /\ settled \in [Lifecycles -> Time \cup {Never}]
    /\ exited \subseteq Coins
    /\ endedAt \in [Renewals -> Time \cup {Never}]
    /\ conflicted \subseteq Renewals

Init ==
    /\ now = 0
    /\ vtxo = [o \in VtxoOps |-> [state |-> "none", created |-> 0, expires |-> 0]]
    /\ renewal = [p \in Renewals |->
                    [stored |-> FALSE, events |-> {}, dispatchedAt |-> 0, confirmedAt |-> 0]]
    /\ delegation = [d \in Delegations |->
                        [stored |-> FALSE, events |-> {}, confirmedAt |-> 0]]
    /\ signCount = [v \in Vaults |-> 0]
    /\ settled = [l \in Lifecycles |-> Never]
    /\ exited = {}
    /\ endedAt = [p \in Renewals |-> Never]
    /\ conflicted = {}
-----------------------------------------------------------------------------
(* State classes.                                                          *)

vtxoStateCountsTowardAllowance(s) == s \notin {"none", "aborted"}
vtxoStateAwaitingSettlement(s) == s \in {"signed", "submitted"}
vtxoStateBlocksNewOperation(s) == s \in {"reserved", "signed", "submitted", "unresolved"}
vtxoStateLocksInputs(s) == s \in {"reserved", "signed", "submitted", "finalized"}

renewalTerminal(p) ==
    renewal[p].events \cap {"confirmed", "released", "cancelled", "rejected"} # {}

delegationTerminal(d) ==
    delegation[d].events \cap {"confirmed", "invalidated", "cancelled", "expired",
                               "needs_authorization", "rejected"} # {}

Armed(d) == delegation[d].stored /\ delegation[d].events = {}
-----------------------------------------------------------------------------
(* The vault-wide fence: what must be absent before a lifecycle starts.    *)

(* Mutant: a submitted payment no longer blocks the vault.                 *)
rejectConcurrentUnsubmitted(v, ops) ==
    \A o \in VtxoOps : VaultOf[o] = v => ops[o].state \notin {"reserved", "signed"}

rejectConcurrentVtxoOperation(v, ops) ==
    \A o \in VtxoOps : VaultOf[o] = v => ~vtxoStateBlocksNewOperation(ops[o].state)

rejectActiveSpendingRenewal(v) ==
    \A p \in Renewals :
        VaultOf[p] = v /\ renewal[p].stored => renewalTerminal(p)

(* Mutant: a renewal counts only from its registration on.                 *)
rejectRegisteredDelegation(v) ==
    \A d \in Delegations :
        VaultOf[d] = v /\ "register_dispatched" \in delegation[d].events
            => delegationTerminal(d)

rejectDispatchedDelegation(v) ==
    \A d \in Delegations :
        VaultOf[d] = v /\ delegation[d].events # {} => delegationTerminal(d)
-----------------------------------------------------------------------------
(* The rolling allowance.  A charge lasts while the lifecycle may still     *)
(* move money and, once it has, for Window after the recorded outcome; a   *)
(* charge is still counted at the last instant of its window.              *)

VtxoCharged(r) ==
    /\ vtxoStateCountsTowardAllowance(r.state)
    /\ vtxoStateAwaitingSettlement(r.state) \/ now <= r.created + Window

spendingRenewalCharged(p) ==
    /\ renewal[p].stored
    /\ renewalTerminal(p) =>
          "confirmed" \in renewal[p].events /\ now <= renewal[p].confirmedAt + Window

delegationCharged(d) ==
    /\ delegation[d].events # {}
    /\ delegationTerminal(d) =>
          "confirmed" \in delegation[d].events /\ now <= delegation[d].confirmedAt + Window

ChargedLifecycles(ops) ==
    {o \in VtxoOps : VtxoCharged(ops[o])}
        \cup {p \in Renewals : spendingRenewalCharged(p)}
        \cup {d \in Delegations : delegationCharged(d)}

addOutflow(ls) == MapThenSumSet(LAMBDA l : Debit[l], ls)

spentInWindow(v, ops) == addOutflow({l \in ChargedLifecycles(ops) : VaultOf[l] = v})

(* Mutant: the new debit is not counted.                                   *)
WithinAllowanceBefore(l, ops) ==
    spentInWindow(VaultOf[l], ops) <= Allowance[VaultOf[l]]

WithinAllowance(l, ops) ==
    Debit[l] + spentInWindow(VaultOf[l], ops) <= Allowance[VaultOf[l]]
-----------------------------------------------------------------------------
(* advanceSignCount: a counter must grow, unless the authenticator keeps   *)
(* none and always reports zero.                                           *)
advanceSignCount(v, n) ==
    /\ n > signCount[v] \/ (n = 0 /\ signCount[v] = 0)
    /\ signCount' = [signCount EXCEPT ![v] = n]

(* Rows are stamped with a clock reading taken before the ledger's mutex.   *)
NowUTC == {t \in (now - ClockLag)..now : t >= 0}

(* A stamp of the Operator's clock, which may run ahead of the Guardian's  *)
(* and is not behind it: with a clock that is behind, a batch would seem   *)
(* to have ended before a forfeit that it took (external).                 *)
OperatorTime == now..(now + OperatorAhead)

(* A coin the network has not spent yet.                                   *)
Unspent(c) ==
    /\ c \notin exited
    /\ \A l \in Lifecycles : c \in Inputs[l] => settled[l] = Never
=============================================================================
