------------------------------ MODULE VaultAccess ------------------------------
(***************************************************************************)
(* Enrollment, passkey sessions, the recovery archive and Savings recovery *)
(* in one process over one ledger: they share the clock, the enrolled      *)
(* vaults, the tickets with the table of spent ones and the verification   *)
(* slots, and a restart takes them down together.                          *)
(***************************************************************************)
EXTENDS SavingsRecovery

vars == <<now, enrollmentVars, ticketVars, archiveVars, savingsVars>>

Init == EnrollmentInit /\ TicketInit /\ ArchiveInit /\ SavingsInit

Enrolling == EnrollmentNext /\ UNCHANGED <<ticketVars, archiveVars, savingsVars>>
Authenticating ==
    (\E k \in Calls : TicketNext(k)) /\ UNCHANGED <<now, enrollmentVars, archiveVars, savingsVars>>
UsingEnvelope ==
    (\E k \in Calls : EnvelopeNext(k)) /\ UNCHANGED <<now, enrollmentVars, archiveVars, savingsVars>>
UsingArchive ==
    (\E k \in Calls : ArchiveNext(k)) /\ UNCHANGED <<now, enrollmentVars, savingsVars>>
RecoveringSavings ==
    (\E k \in Calls : SavingsNext(k)) /\ UNCHANGED <<now, enrollmentVars, archiveVars>>

Tick ==
    /\ now < MaxTime
    /\ now' = now + 1
    /\ UNCHANGED <<enrollmentVars, ticketVars, archiveVars, savingsVars>>

Restart ==
    EnrollmentRestart /\ TicketRestart /\ ArchiveRestart /\ SavingsRestart

Next ==
    \/ Enrolling
    \/ Authenticating
    \/ UsingEnvelope
    \/ UsingArchive
    \/ RecoveringSavings
    \/ Tick
    \/ Restart

Spec == Init /\ [][Next]_vars
-----------------------------------------------------------------------------
(* The inductive invariant of the four together.                           *)
AccessInv == EnrollmentInv /\ TicketInv /\ ArchiveInv /\ SavingsInv
=============================================================================
