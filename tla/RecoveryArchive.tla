---------------------------- MODULE RecoveryArchive ----------------------------
(***************************************************************************)
(* The recovery archive: an opaque payload with a header, kept for a vault *)
(* under a revision.  Opening it with a passkey reads the stored payload,  *)
(* and only then takes the session lock to insert a session that pins the  *)
(* header.  Reading and writing hold the lock from beginning to end.  The  *)
(* enrolled binding that a payload must carry never changes for a vault.   *)
(***************************************************************************)
EXTENDS PasskeyTickets

CONSTANTS
    Light,              \* the setup without Savings
    Sessions,           \* the slots of the session table, which bound it
    Headers, Bodies,    \* what a payload is made of
    BackupTTL,          \* validity of a session
    MaxRevision         \* bound on the revision of an archive

Payloads == [header : Headers, body : Bodies]
Archives == [revision : Nat, payload : Payloads]
ArchiveSessions == [vault : VaultIds, header : Headers \union {None}, expires : Nat]
Writes == [vault : VaultIds, revision : Nat, payload : Payloads]

ASSUME ArchiveAssumption ==
    /\ Light \in Setups /\ {BackupTTL, MaxRevision} \subseteq Nat
    /\ None \notin Headers \union Archives \union ArchiveSessions

VARIABLES
    backup,     \* the stored archive of each vault
    session,    \* archive sessions
    stored,     \* every archive that was ever stored
    acked       \* every write that was answered, as the writer sent it

archiveVars == <<backup, session, stored, acked>>

Revision(v) == IF backup[v] = None THEN 0 ELSE backup[v].revision
HeaderOf(v) == IF backup[v] = None THEN None ELSE backup[v].payload.header

ArchiveInit ==
    /\ backup = [v \in VaultIds |-> None]
    /\ session = [s \in Sessions |-> None]
    /\ stored = {}
    /\ acked = {}
-----------------------------------------------------------------------------
(* The descriptor of a Light vault is rebuilt from its published snapshot. *)
recoveryArchiveBinding(v) ==
    Enrolled(v) /\ (vault[v].setup = Light => v \in published)

(* The sign count, the stored archive and its header, without the lock.    *)
openBackup(k) ==
    /\ Authenticated(k, "archive")
    /\ recoveryArchiveBinding(call[k].vault)
    /\ call' = [call EXCEPT ![k].step = "opening", ![k].arg = HeaderOf(call[k].vault)]
    /\ UNCHANGED <<ticket, consumed, used, envelope, archiveVars>>

Ended(s) == session[s] # None /\ session[s].expires <= now

InsertSession(k, s) ==
    /\ At(k, "opening")
    /\ session[s] = None \/ Ended(s)
    /\ session' = [x \in Sessions |->
                     IF x = s THEN [vault |-> call[k].vault, header |-> call[k].arg,
                                    expires |-> now + BackupTTL]
                     ELSE IF Ended(x) THEN None ELSE session[x]]
    /\ Return(k)
    /\ UNCHANGED <<ticket, consumed, used, envelope, backup, stored, acked>>

backupSessionLocked(s) == session[s] # None /\ now < session[s].expires
verifiedArchiveSessionLocked(s) ==
    backupSessionLocked(s) /\ recoveryArchiveBinding(session[s].vault)

readArchiveLocked(s) ==
    \/ HeaderOf(session[s].vault) = None
    \/ session[s].header \in {None, HeaderOf(session[s].vault)}

(* Mutant: a write relies on the header its session pinned when it opened. *)
PinnedWhenOpened(s) == session[s].header
PinnedHeader(s) ==
    IF HeaderOf(session[s].vault) = None THEN session[s].header
    ELSE HeaderOf(session[s].vault)

ReadRecoveryArchive(s) ==
    /\ verifiedArchiveSessionLocked(s)
    /\ readArchiveLocked(s)
    /\ session' = [session EXCEPT ![s].header = PinnedHeader(s)]
    /\ UNCHANGED <<backup, stored, acked, ticketVars>>

Record(v, expected, payload) ==
    [vault |-> v, revision |-> expected + 1, payload |-> payload]

(* Mutant: a write of the revision that was just stored is taken for the   *)
(* retry of that write, whatever it carries.                               *)
AnyRetry(v, expected, payload) == backup[v] # None /\ Revision(v) = expected + 1
ExactRetry(v, expected, payload) ==
    backup[v] # None /\ Revision(v) = expected + 1 /\ backup[v].payload = payload

PutRecoveryBackup(v, expected, payload) ==
    /\ expected < MaxRevision
    /\ IF ExactRetry(v, expected, payload)
       THEN UNCHANGED <<backup, stored>>
       ELSE /\ Revision(v) = expected
            /\ backup' = [backup EXCEPT ![v] = [revision |-> expected + 1,
                                                payload |-> payload]]
            /\ stored' = stored \union {Record(v, expected, payload)}

(* The write sees what is stored first, so that a session opened before    *)
(* the first write keeps to its header too.                                *)
WriteRecoveryArchive(s, expected, payload) ==
    /\ verifiedArchiveSessionLocked(s)
    /\ readArchiveLocked(s)
    /\ PinnedHeader(s) \in {None, payload.header}
    /\ PutRecoveryBackup(session[s].vault, expected, payload)
    /\ session' = [session EXCEPT ![s].header = payload.header]
    /\ acked' = acked \union {Record(session[s].vault, expected, payload)}
    /\ UNCHANGED ticketVars

ArchiveRoutes(k) ==
    \/ issueBackupChallenge /\ UNCHANGED archiveVars
    \/ \E t \in DOMAIN ticket, v \in VaultIds :
           readPasskeyChallenge(k, t, v, "archive", None) /\ UNCHANGED archiveVars
    \/ \E s \in Sessions : ReadRecoveryArchive(s)
    \/ \E s \in Sessions, expected \in 0..(MaxRevision - 1), p \in Payloads :
           WriteRecoveryArchive(s, expected, p)

ArchiveNext(k) ==
    \/ ArchiveRoutes(k)
    \/ openBackup(k)
    \/ \E s \in Sessions : InsertSession(k, s)

ArchiveRestart ==
    /\ session' = [s \in Sessions |-> None]
    /\ UNCHANGED <<backup, stored, acked>>
-----------------------------------------------------------------------------
(* Every archive ever stored for a vault has the header of the first one,  *)
(* although sessions opened before that write pinned none.                 *)
HeaderPinned ==
    \A a, b \in stored : a.vault = b.vault => a.payload.header = b.payload.header

(* A write that was answered is the only one ever stored under its         *)
(* revision: two devices writing over the same revision, and retries of a  *)
(* write whose answer was lost, never make one writer believe that its     *)
(* archive is there when it is not.                                        *)
AckedWriteStored ==
    \A a \in acked : {b \in stored : b.vault = a.vault /\ b.revision = a.revision} = {a}
-----------------------------------------------------------------------------
(* The inductive invariant behind the two.                                 *)

ArchiveTypes ==
    /\ backup \in [VaultIds -> Archives \union {None}]
    /\ session \in [Sessions -> ArchiveSessions \union {None}]
    /\ stored \subseteq Writes

(* What was stored, against what is stored now.                            *)
StoredInOrder ==
    /\ \A a \in stored :
          /\ backup[a.vault] # None
          /\ a.revision <= Revision(a.vault)
          /\ a.payload.header = HeaderOf(a.vault)
    /\ \A v \in VaultIds : backup[v] # None =>
          [vault |-> v, revision |-> backup[v].revision, payload |-> backup[v].payload] \in stored
    /\ \A a, b \in stored : a.vault = b.vault /\ a.revision = b.revision => a = b

ArchiveInv == ArchiveTypes /\ StoredInOrder /\ acked \subseteq stored
=============================================================================
