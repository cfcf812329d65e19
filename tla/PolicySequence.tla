---------------------------- MODULE PolicySequence ----------------------------
(***************************************************************************)
(* The policy database and the sequence file kept outside of it, over      *)
(* crashes, failed commits, restored copies and the retirement of schema   *)
(* 11.  The file holds the number of economic rows the database had when   *)
(* it was last observed; a process refuses a database that is behind it.   *)
(*                                                                         *)
(* A row is its identity.  The calls that write rows differ only in when   *)
(* they observe the sequence:                                              *)
(*   Reservations  after the insert, before COMMIT                         *)
(*   Delegated     also before the insert                                  *)
(*   Recoveries    before the insert and after COMMIT (Ledger Savings)     *)
(* The file is replaced by rename and the directory synced before the call *)
(* goes on, so a crash finds the old value or the new one.  The deployment *)
(* keeps one copy of the database: the sequence is a count, and with two   *)
(* copies of different histories an unacknowledged recovery of one could   *)
(* stand in for an acknowledged row of the other.                          *)
(***************************************************************************)
EXTENDS Integers, FiniteSets

CONSTANTS Reservations, Delegated, Recoveries,
          Retired    \* rows of the programs schema 12 retires

Rows == Reservations \cup Delegated \cup Recoveries
Missing == -1
Idle == "idle"

ASSUME RowAssumption ==
    /\ IsFiniteSet(Rows) /\ IsFiniteSet(Retired)
    /\ Rows \cap Retired = {}
    /\ Reservations \cap Recoveries = {} /\ Delegated \cap Recoveries = {}
    /\ Idle \notin Rows \cup Retired

VARIABLES
    db,         \* the committed database
    file,       \* the sequence file
    process,    \* "down", "keyed" (integrity key installed) or "serving"
    row, step,  \* the call that holds the ledger's mutex and how far it is
    backup,     \* the deployment's copy of the database
    acked,      \* rows whose call has reported success
    ackedAdvanced,  \* rows whose change of state has reported success
    torn,       \* some call observed its row and did not commit it
    restored    \* the copy has replaced the database

vars == <<db, file, process, row, step, backup, acked, ackedAdvanced, torn, restored>>
callVars == <<row, step>>
history == <<acked, ackedAdvanced, torn, restored>>

(* version 11 has no sequence base; advanced holds the rows whose state    *)
(* has been updated in place.                                              *)
Databases ==
    [version : {11, 12}, base : Nat \cup {Missing},
     rows : SUBSET (Rows \cup Retired), advanced : SUBSET Reservations]

TypeOK ==
    /\ db \in Databases /\ backup \in Databases
    /\ file \in Nat \cup {Missing}
    /\ process \in {"down", "keyed", "serving"}
    /\ row \in Rows \cup {Idle}
    /\ step \in {Idle, "inserted", "observed", "committed"}
    /\ (row = Idle) <=> (step = Idle)
    /\ acked \subseteq Rows /\ ackedAdvanced \subseteq Reservations
    /\ torn \in BOOLEAN /\ restored \in BOOLEAN

(* A new deployment, or one that was running schema 11 and keeps some of   *)
(* its payments.                                                           *)
Init ==
    /\ \/ /\ db = [version |-> 12, base |-> Missing, rows |-> {}, advanced |-> {}]
          /\ file = Missing
       \/ \E held \in SUBSET Reservations :
             /\ db = [version |-> 11, base |-> Missing, rows |-> Retired \cup held,
                      advanced |-> {}]
             /\ file = Cardinality(db.rows)
    /\ acked = db.rows \cap Rows
    /\ backup = db
    /\ process = "down" /\ row = Idle /\ step = Idle
    /\ ackedAdvanced = {} /\ torn = FALSE /\ restored = FALSE
-----------------------------------------------------------------------------
economicOutflowCount(rows) == Cardinality(rows)

currentEconomicSequence(d) ==
    (IF d.base = Missing THEN 0 ELSE d.base) + economicOutflowCount(d.rows)

Accepts(n) == IF file = Missing THEN n = 0 ELSE n >= file

(* Mutant: the file follows the database whatever it holds.                *)
ObserveUnchecked(n) == file' = n

Observe(n) == Accepts(n) /\ file' = n

observeEconomicOutflows(pending) ==
    Observe(currentEconomicSequence([db EXCEPT !.rows = @ \cup pending]))
-----------------------------------------------------------------------------
(* Opening the ledger.  A refused start leaves the process down.           *)

(* Mutant: the removed rows are not carried over into the base.            *)
retireWithoutConnectors ==
    [version |-> 12, base |-> 0, rows |-> db.rows \ Retired, advanced |-> db.advanced]

(* Mutant: the counts are subtracted the wrong way round.                  *)
retireBaseReversed ==
    LET kept == db.rows \ Retired
    IN  [version |-> 12,
         base |-> economicOutflowCount(kept) - economicOutflowCount(db.rows),
         rows |-> kept, advanced |-> db.advanced]

retireSchemaEleven ==
    LET kept == db.rows \ Retired
    IN  [version |-> 12,
         base |-> economicOutflowCount(db.rows) - economicOutflowCount(kept),
         rows |-> kept, advanced |-> db.advanced]

initializeIntegrityState ==
    /\ process = "down"
    /\ process' = "keyed"
    /\ \/ db.version = 11 /\ db' = retireSchemaEleven
       \/ db.version = 12 /\ db.base # Missing /\ UNCHANGED db
       \/ /\ db.version = 12 /\ db.base = Missing /\ economicOutflowCount(db.rows) = 0
          /\ db' = [db EXCEPT !.base = 0]
    /\ UNCHANGED <<file, callVars, backup, history>>

AttachMonotonic ==
    /\ process = "keyed"
    /\ observeEconomicOutflows({})
    /\ process' = "serving"
    /\ UNCHANGED <<db, callVars, backup, history>>

RefuseStart ==
    /\ process = "keyed"
    /\ ~Accepts(currentEconomicSequence(db))
    /\ process' = "down"
    /\ UNCHANGED <<db, file, callVars, backup, history>>
-----------------------------------------------------------------------------
(* Ledger calls, one at a time under the mutex.                            *)

Begin(r) ==
    /\ process = "serving" /\ row = Idle
    /\ r \notin db.rows
    /\ \/ r \in Reservations /\ UNCHANGED file
       \/ r \in Delegated \cup Recoveries /\ observeEconomicOutflows({})
    /\ row' = r /\ step' = "inserted"
    /\ UNCHANGED <<db, process, backup, history>>

ObserveInserted ==
    /\ step = "inserted" /\ row \notin Recoveries
    /\ observeEconomicOutflows({row})
    /\ step' = "observed"
    /\ UNCHANGED <<db, process, row, backup, history>>

(* Mutant: COMMIT without the observation.                                 *)
CommitUnobserved ==
    /\ step \in {"inserted", "observed"} /\ row \notin Recoveries
    /\ db' = [db EXCEPT !.rows = @ \cup {row}]
    /\ acked' = acked \cup {row}
    /\ row' = Idle /\ step' = Idle
    /\ UNCHANGED <<file, process, backup, ackedAdvanced, torn, restored>>

Commit ==
    /\ step = "observed"
    /\ db' = [db EXCEPT !.rows = @ \cup {row}]
    /\ acked' = acked \cup {row}
    /\ row' = Idle /\ step' = Idle
    /\ UNCHANGED <<file, process, backup, ackedAdvanced, torn, restored>>

(* The database, the file or the caller's deadline fails the call, or the  *)
(* sequence refuses it.                                                    *)
Rollback ==
    /\ step \in {"inserted", "observed"}
    /\ torn' = (torn \/ step = "observed")
    /\ row' = Idle /\ step' = Idle
    /\ UNCHANGED <<db, file, process, backup, acked, ackedAdvanced, restored>>

CommitRecovery ==
    /\ step = "inserted" /\ row \in Recoveries
    /\ db' = [db EXCEPT !.rows = @ \cup {row}]
    /\ step' = "committed"
    /\ UNCHANGED <<file, process, row, backup, history>>

(* The second observation succeeds, or fails and the call reports failure. *)
FinishRecovery ==
    /\ step = "committed"
    /\ \/ observeEconomicOutflows({}) /\ acked' = acked \cup {row}
       \/ UNCHANGED <<file, acked>>
    /\ row' = Idle /\ step' = Idle
    /\ UNCHANGED <<db, process, backup, ackedAdvanced, torn, restored>>

(* A retry of a stored event is answered only after an observation.        *)
ReplayRecovery(r) ==
    /\ process = "serving" /\ row = Idle
    /\ r \in db.rows
    /\ observeEconomicOutflows({})
    /\ acked' = acked \cup {r}
    /\ UNCHANGED <<db, process, callVars, backup, ackedAdvanced, torn, restored>>

ListSpendingDelegations ==
    /\ process = "serving" /\ row = Idle
    /\ observeEconomicOutflows({})
    /\ UNCHANGED <<db, process, callVars, backup, history>>

(* A payment changes state in its row: an UPDATE, nothing is observed.     *)
TransitionVtxoOperation(r) ==
    /\ process = "serving" /\ row = Idle
    /\ r \in db.rows \ db.advanced
    /\ db' = [db EXCEPT !.advanced = @ \cup {r}]
    /\ ackedAdvanced' = ackedAdvanced \cup {r}
    /\ UNCHANGED <<file, process, callVars, backup, acked, torn, restored>>
-----------------------------------------------------------------------------
(* The deployment (external).                                              *)

Crash ==
    /\ process # "down"
    /\ process' = "down"
    /\ torn' = (torn \/ step = "observed")
    /\ row' = Idle /\ step' = Idle
    /\ UNCHANGED <<db, file, backup, acked, ackedAdvanced, restored>>

Backup ==
    /\ backup' = db
    /\ UNCHANGED <<db, file, process, callVars, history>>

Restore ==
    /\ process = "down"
    /\ db' = backup
    /\ restored' = TRUE
    /\ UNCHANGED <<file, process, callVars, backup, acked, ackedAdvanced, torn>>
-----------------------------------------------------------------------------
Next ==
    \/ initializeIntegrityState \/ AttachMonotonic \/ RefuseStart
    \/ \E r \in Rows : Begin(r)
    \/ ObserveInserted \/ Commit \/ Rollback
    \/ CommitRecovery \/ FinishRecovery
    \/ \E r \in Recoveries : ReplayRecovery(r)
    \/ ListSpendingDelegations
    \/ \E r \in Reservations : TransitionVtxoOperation(r)
    \/ Crash \/ Backup \/ Restore

Spec == Init /\ [][Next]_vars
-----------------------------------------------------------------------------
(* A process that serves has every row whose call reported success, after  *)
(* any crash, failed commit or restored copy: a copy taken before such a   *)
(* row is refused at start (Monotonic.Observe), also when the row belongs  *)
(* to a recovery, whose COMMIT comes before its observation.               *)
AcknowledgedSurvive == process = "serving" => acked \subseteq db.rows

(* "a database-ahead sequence would permit allowance reuse after           *)
(* restoration" (vtxo_ledger.go:211): while a process serves, the file     *)
(* counts every row but the recoveries that have not been acknowledged.    *)
SequenceCoversReservations ==
    process = "serving" =>
        db.base + Cardinality(db.rows \ (Recoveries \ acked)) <= file

(* The database is refused only after a call was cut off between its       *)
(* observation and its COMMIT, or after a copy was restored: no other      *)
(* crash, error or schema retirement leaves the file ahead.                *)
RefusedOnlyWhenTorn ==
    file > currentEconomicSequence(db) => torn \/ restored \/ step = "observed"

(* monotonic.go:18: "Restoring an older database while retaining this file *)
(* is refused."                                                            *)
RestoreRefused == process = "serving" => ackedAdvanced \subseteq db.advanced
-----------------------------------------------------------------------------
(* The inductive invariant behind the properties a run passes.             *)

(* d is c, or c with the rows committed since, perhaps over the retirement *)
(* of schema 11, which carries the removed rows over into the base.        *)
Follows(d, c) ==
    \/ d = c
    \/ c.base # Missing /\ d.base = c.base /\ c.rows \subseteq d.rows
    \/ /\ c.base = Missing
       /\ d.base = Cardinality(c.rows) - Cardinality(c.rows \ Retired)
       /\ c.rows \ Retired \subseteq d.rows

(* A database that misses an acknowledged row is behind the file.          *)
BehindIfMissing(d) == acked \subseteq d.rows \/ currentEconomicSequence(d) < file

(* What the ledger's mutex protects between the steps of a call.           *)
CallInv ==
    /\ step # Idle => process = "serving"
    /\ step = "inserted" => row \notin db.rows
    /\ step = "observed" =>
          /\ row \notin db.rows \cup Recoveries
          /\ file = currentEconomicSequence(db) + 1
    /\ step = "committed" => row \in db.rows \cap Recoveries

SequenceInv ==
    /\ TypeOK
    /\ \A d \in {db, backup} : (d.version = 11 => d.base = Missing) /\ BehindIfMissing(d)
    /\ Follows(db, backup)
    /\ process # "down" => db.version = 12 /\ db.base # Missing
    /\ CallInv
    /\ AcknowledgedSurvive
    /\ SequenceCoversReservations
    /\ RefusedOnlyWhenTorn
=============================================================================
