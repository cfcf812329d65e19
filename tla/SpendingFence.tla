---------------------------- MODULE SpendingFence ----------------------------
(***************************************************************************)
(* What the Spending ledger promises, without phases, rows or clocks: a    *)
(* vault is held by one lifecycle at a time; a lifecycle is committed (the *)
(* Guardian's signature is out) only while it holds its vault; only what   *)
(* is committed is ever executed; and what was given up never is.          *)
(***************************************************************************)
CONSTANTS Lifecycles, VaultOf

VARIABLES
    holders,    \* lifecycles that hold their vault
    committed,  \* lifecycles whose signature has been released
    executed,   \* lifecycles the network has executed
    abandoned   \* lifecycles given up

fenceVars == <<holders, committed, executed, abandoned>>

FenceInit ==
    /\ holders = {}
    /\ committed = {}
    /\ executed = {}
    /\ abandoned = {}

(* A fresh lifecycle takes its vault.  It may displace a holder, or a      *)
(* lifecycle still waiting, that has not been committed.                   *)
Acquire(l) ==
    LET displaced == {k \in holders : VaultOf[k] = VaultOf[l]}
    IN  /\ l \notin holders \cup committed \cup abandoned
        /\ displaced \cap committed = {}
        /\ holders' = (holders \ displaced) \cup {l}
        /\ \E waiting \in SUBSET (Lifecycles \ (holders \cup committed \cup {l})) :
              abandoned' = abandoned \cup displaced \cup waiting
        /\ UNCHANGED <<committed, executed>>

Commit(l) ==
    /\ l \in holders \ abandoned
    /\ committed' = committed \cup {l}
    /\ UNCHANGED <<holders, executed, abandoned>>

Execute(l) ==
    /\ l \in committed \ abandoned
    /\ executed' = executed \cup {l}
    /\ UNCHANGED <<holders, committed, abandoned>>

(* A committed holder leaves once it has been executed.                    *)
Complete(l) ==
    /\ l \in holders \cap executed
    /\ holders' = holders \ {l}
    /\ UNCHANGED <<committed, executed, abandoned>>

(* A lifecycle that was not executed is given up; it may keep the vault.   *)
GiveUp(l) ==
    /\ l \notin executed
    /\ abandoned' = abandoned \cup {l}
    /\ holders' \in {holders, holders \ {l}}
    /\ UNCHANGED <<committed, executed>>

FenceNext ==
    \E l \in Lifecycles :
        Acquire(l) \/ Commit(l) \/ Execute(l) \/ Complete(l) \/ GiveUp(l)

FenceSpec == FenceInit /\ [][FenceNext]_fenceVars
=============================================================================
