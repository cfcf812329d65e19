---------------------------- MODULE SpendingLedger ----------------------------
(***************************************************************************)
(* The three lifecycles of a Spending vault over one ledger, with the      *)
(* clock and with the network that may execute whatever the Guardian has   *)
(* cosigned, at any later time or never.                                   *)
(***************************************************************************)
EXTENDS VtxoLedger, RenewalLedger, DelegationLedger

(* The Guardian's signature, or the forfeit that carries it, has left the  *)
(* process: from here on only the network decides.                         *)
Committed(l) ==
    \/ l \in VtxoOps /\ vtxo[l].state \in {"signed", "submitted", "finalized", "unresolved"}
    \/ l \in Renewals /\ "final_dispatched" \in renewal[l].events
    \/ l \in Delegations /\ "final_dispatched" \in delegation[l].events

(* The network can no longer execute l.  The Operator may still execute a  *)
(* batch it ended with the forfeits in hand; a forfeit recorded in a later *)
(* second than the end cannot have been among them.                        *)
Excluded(l) ==
    \/ \E c \in Inputs[l] : ~Unspent(c)
    \/ /\ l \in Renewals
       /\ \/ l \in conflicted
          \/ endedAt[l] # Never /\ renewal[l].dispatchedAt > endedAt[l]
-----------------------------------------------------------------------------
(* The network (external).                                                 *)

Tick ==
    /\ now < MaxTime
    /\ now' = now + 1
    /\ UNCHANGED <<ledgerVars, worldVars>>

Settle(l) ==
    /\ Committed(l)
    /\ settled[l] = Never
    /\ ~Excluded(l)
    /\ settled' = [settled EXCEPT ![l] = now]
    /\ UNCHANGED <<now, ledgerVars, exited, endedAt, conflicted>>

(* A coin leaves through a unilateral exit or another signer's spend.  The *)
(* Guardian looks for it only while an Ark payment awaits settlement and   *)
(* before it claims an armed renewal, so only those coins need to leave.   *)
SpendElsewhere(c) ==
    /\ Unspent(c)
    /\ \E l \in Lifecycles :
          /\ c \in Inputs[l]
          /\ \/ l \in VtxoOps /\ vtxoStateAwaitingSettlement(vtxo[l].state)
             \/ l \in Delegations /\ Armed(l)
    /\ exited' = exited \cup {c}
    /\ UNCHANGED <<now, ledgerVars, settled, endedAt, conflicted>>

(* The Operator ends the batch of a payment it has a final plan for; after *)
(* the payment is over nobody asks.                                        *)
EndBatch(p) ==
    /\ "final_authorized" \in renewal[p].events /\ ~renewalTerminal(p)
    /\ endedAt[p] = Never
    /\ \E t \in OperatorTime : endedAt' = [endedAt EXCEPT ![p] = t]
    /\ UNCHANGED <<now, ledgerVars, settled, exited, conflicted>>

(* A conflict with the payment's commitment is buried six blocks deep.     *)
BuryConflict(p) ==
    /\ "final_authorized" \in renewal[p].events /\ ~renewalTerminal(p)
    /\ p \notin conflicted
    /\ settled[p] = Never
    /\ conflicted' = conflicted \cup {p}
    /\ UNCHANGED <<now, ledgerVars, settled, exited, endedAt>>
-----------------------------------------------------------------------------
Next ==
    \/ \E o \in VtxoOps : VtxoStep(o)
    \/ \E p \in Renewals : RenewalStep(p)
    \/ DelegationStep
    \/ \E l \in Lifecycles : Settle(l)
    \/ \E c \in Coins : SpendElsewhere(c)
    \/ \E p \in Renewals : EndBatch(p) \/ BuryConflict(p)
    \/ Tick

Spec == Init /\ [][Next]_vars
-----------------------------------------------------------------------------
(* Properties.                                                             *)

(* A lifecycle that holds its vault: an Ark payment that is not over (or    *)
(* whose conflict is unresolved), an unfinished Bitcoin payment, a claimed *)
(* and unfinished delegated renewal.                                       *)
Active(l) ==
    \/ l \in VtxoOps /\ vtxoStateBlocksNewOperation(vtxo[l].state)
    \/ l \in Renewals /\ renewal[l].stored /\ ~renewalTerminal(l)
    \/ l \in Delegations /\ delegation[l].events # {} /\ ~delegationTerminal(l)

(* A lifecycle the ledger has given up: its coins and its allowance are    *)
(* free for the next one.                                                  *)
GivenUp(l) ==
    \/ l \in VtxoOps /\ vtxo[l].state \in {"aborted", "unresolved"}
    \/ l \in Renewals
         /\ renewal[l].events \cap {"released", "cancelled", "rejected"} # {}
    \/ l \in Delegations
         /\ delegation[l].events \cap {"invalidated", "cancelled", "expired",
                                       "needs_authorization", "rejected"} # {}

(* At most one lifecycle of a vault is active at any time: the reservation *)
(* checks of vtxo_ledger.go, spending_renewal.go and spending_delegation.go *)
(* each look at the two other kinds.                                       *)
OneActiveLifecycle ==
    \A k, l \in Lifecycles :
        Active(k) /\ Active(l) /\ VaultOf[k] = VaultOf[l] => k = l

(* What the ledger counts never exceeds the vault's allowance, although a  *)
(* charge may outlive its window, be stamped anew when it settles, and     *)
(* come back when an old reservation is signed (spentInWindow).            *)
SpentWithinAllowance ==
    \A v \in Vaults : spentInWindow(v, vtxo) <= Allowance[v]

(* What the network really executed for a vault in any rolling window      *)
(* never exceeds its allowance, however late it executed what was signed.  *)
RollingOutflowWithinAllowance ==
    \A v \in Vaults :
        addOutflow({l \in Lifecycles : /\ VaultOf[l] = v
                                       /\ settled[l] # Never
                                       /\ now <= settled[l] + Window}) <= Allowance[v]

(* A lifecycle that was aborted, cancelled, rejected, expired, released or *)
(* found in conflict has not moved money, and never will.                  *)
GivenUpNeverSettles ==
    \A l \in Lifecycles : GivenUp(l) => settled[l] = Never

(* A coin is locked by at most one Ark payment over all vaults, completed  *)
(* ones included (rejectOverlappingVtxoInputs).                            *)
CoinLockedOnce ==
    \A o, q \in VtxoOps :
        /\ vtxoStateLocksInputs(vtxo[o].state)
        /\ vtxoStateLocksInputs(vtxo[q].state)
        /\ Inputs[o] \cap Inputs[q] # {}
        => o = q

(* An armed renewal never waits on a coin that an unfinished Ark payment   *)
(* of its vault holds, whichever of the two came first.                    *)
ArmedClearOfVtxoPayments ==
    \A d \in Delegations, o \in VtxoOps :
        /\ Armed(d)
        /\ VaultOf[o] = VaultOf[d]
        /\ vtxoStateBlocksNewOperation(vtxo[o].state)
        => Inputs[o] \cap Inputs[d] = {}

(* The same for an unfinished Bitcoin payment, as                          *)
(* docs/delegated-renewal-lifecycle.md:29 has it: "A payment atomically    *)
(* invalidates overlapping armed requests."                                *)
ArmedClearOfBitcoinPayments ==
    \A d \in Delegations, p \in Renewals :
        Armed(d) /\ Active(p) /\ VaultOf[p] = VaultOf[d] => Inputs[p] \cap Inputs[d] = {}

(* Once the Guardian's signature is out, the vault's fence is lowered only *)
(* after the network executed the lifecycle or can no longer execute it:   *)
(* no lost answer, expiry or retry lowers it.                              *)
FenceLoweredOnlyOnProof ==
    [][\A l \in Lifecycles :
          Active(l) /\ Committed(l) /\ ~Active(l)' => settled[l] # Never \/ Excluded(l)]_vars
-----------------------------------------------------------------------------
(* Why these properties hold: the strengthening that makes them inductive. *)

(* A Bitcoin payment's journal: each phase rests on an earlier one, and a  *)
(* dispatched payment is released only on evidence that stays true.        *)
RenewalOrder ==
    \A p \in Renewals :
        LET has(phase) == phase \in renewal[p].events
        IN  /\ renewal[p].events # {} => renewal[p].stored
            /\ has("final_dispatched") => has("final_authorized")
            /\ has("final_authorized") => has("registered")
            /\ has("registered") => has("register_dispatched") /\ ~has("rejected")
            /\ has("cancelled") => ~has("register_dispatched")
            /\ has("released") /\ has("final_dispatched") =>
                  \/ p \in conflicted
                  \/ endedAt[p] # Never /\ renewal[p].dispatchedAt > endedAt[p]
            /\ renewal[p].dispatchedAt <= now

(* A delegated renewal's journal: every phase after its predecessor, and   *)
(* none of the ways to give up after the forfeit was dispatched.           *)
DelegationOrder ==
    \A d \in Delegations :
        /\ \A e \in DOMAIN predecessors :
              e \in delegation[d].events => predecessors[e] \in delegation[d].events
        /\ GivenUp(d) => "final_dispatched" \notin delegation[d].events

(* What the network did, against what the journals say.                    *)
SettlementOrder ==
    /\ \A l \in Lifecycles : settled[l] # Never => Committed(l)
    /\ \A p \in Renewals : settled[p] # Never =>
          /\ p \notin conflicted
          /\ endedAt[p] # Never => renewal[p].dispatchedAt <= endedAt[p]
    /\ \A o \in VtxoOps : vtxo[o].state = "unresolved" =>
          settled[o] = Never /\ \E c \in Inputs[o] : ~Unspent(c)

SpendingInv ==
    /\ TypeOK
    /\ RenewalOrder
    /\ DelegationOrder
    /\ SettlementOrder
    /\ OneActiveLifecycle

(* An outcome is stamped no earlier than the network reached it, so that a *)
(* charge lasts at least as long as what it stands for is in the window.   *)
StampOrder ==
    /\ \A o \in VtxoOps : vtxo[o].state = "finalized" =>
          settled[o] # Never /\ settled[o] <= vtxo[o].created
    /\ \A p \in Renewals : "confirmed" \in renewal[p].events =>
          settled[p] # Never /\ settled[p] <= renewal[p].confirmedAt
    /\ \A d \in Delegations : "confirmed" \in delegation[d].events =>
          settled[d] # Never /\ settled[d] <= delegation[d].confirmedAt

(* A lifecycle whose charge counts now, or that is active and may bring a  *)
(* lapsed charge back: a reservation that is signed late, whatever settles *)
(* late.                                                                   *)
Owes(l) == Active(l) \/ l \in ChargedLifecycles(vtxo)
Held(v) == {l \in Lifecycles : VaultOf[l] = v /\ Owes(l)}

AllowanceHeld ==
    \A v \in Vaults : IsFiniteSet(Held(v)) /\ addOutflow(Held(v)) <= Allowance[v]

AllowanceInv == SpendingInv /\ StampOrder /\ AllowanceHeld
-----------------------------------------------------------------------------
(* The ledger implements the abstract fence.                               *)

Fence == INSTANCE SpendingFence WITH
    holders <- {l \in Lifecycles : Active(l)},
    committed <- {l \in Lifecycles : Committed(l)},
    executed <- {l \in Lifecycles : settled[l] # Never},
    abandoned <- {l \in Lifecycles : GivenUp(l)}

(* Every step of the three journals, the clock and the network is a step   *)
(* of SpendingFence or changes nothing there: one holder per vault, nothing *)
(* executed that was not committed by the holder, nothing executed that    *)
(* was given up.                                                           *)
ImplementsFence == Fence!FenceSpec
=============================================================================
