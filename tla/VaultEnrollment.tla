---------------------------- MODULE VaultEnrollment ----------------------------
(***************************************************************************)
(* Enrollment: an invitation is turned into one vault.  Start reserves a   *)
(* vault ID for the invitation, Propose shows the client the descriptor,   *)
(* Finish verifies the passkey ceremony, creates the vault, consumes the   *)
(* reservation and the invitation in one transaction, and publishes the    *)
(* vault's snapshot.  Finish loads the reservation long before that        *)
(* transaction; an exact retry of a finished enrollment is answered from   *)
(* the stored vault.  A setup stands for the protection tier together with *)
(* the spending policy digest, which the code freezes and compares at the  *)
(* same places; keys stand for the passkey, owner, recovery and boarding   *)
(* keys of a request.  A vault ID stands also for the handle and the       *)
(* challenge: the three are drawn together and replaced together.          *)
(***************************************************************************)
EXTENDS Naturals, FiniteSets

CONSTANTS
    None,           \* no row
    Gone,           \* a row that was cleaned away
    Tokens,         \* enrollment tokens
    FileTokens,     \* the tokens an operator supplies as a file
    VaultIds,       \* the IDs Start may draw
    Clients,        \* browsers that enroll
    Setups,         \* protection tiers with their spending policies
    Keys,           \* keys a client may register
    FileWindow,     \* validity of an invitation from a file
    SessionTTL,     \* validity of an invitation issued on request
    PendingTTL,     \* validity of a reservation
    Retention,      \* how long an expired, unused invitation is kept
    MaxRecent,      \* invitations that may be issued at one time
    MaxActive,      \* unused invitations that may be valid together
    MaxTime         \* bound on the clock

Invitations == [created : Nat, expires : Nat, consumed : VaultIds \union {None}]
Reservations == [vault : VaultIds, setup : Setups, expires : Nat]
Draws == [token : Tokens, setup : Setups]
Vaults == [token : Tokens, setup : Setups, keys : Keys]
FinishSteps == {"proposed", "loaded", "created", "done"}
Enrollees ==
    [step : FinishSteps \union {"started"}, token : Tokens, vault : VaultIds,
     setup : Setups, keys : Keys \union {None}]

ASSUME EnrollmentAssumption ==
    /\ FileTokens \subseteq Tokens
    /\ {FileWindow, SessionTTL, PendingTTL, Retention, MaxRecent, MaxActive, MaxTime}
         \subseteq Nat
    /\ None \notin VaultIds \union Reservations \union Draws \union Vaults
    /\ None \notin FinishSteps \union {"started"}
    /\ {None, Gone} \intersect Invitations = {}

VARIABLES
    now,        \* the clock
    invite,     \* invitation rows
    pending,    \* reservation rows, at most one for a token
    drawn,      \* the reservation each vault ID was drawn for
    vault,      \* vault rows, with their credential, board and Savings rows
    published,  \* vaults whose snapshot the process serves
    client      \* what each client holds and where its Finish stands

enrollmentVars == <<invite, pending, drawn, vault, published, client>>

Idle == [step |-> None]

Invitation(created, window) ==
    [created |-> created, expires |-> created + window, consumed |-> None]
Unused(t) == invite[t] \notin {None, Gone} /\ invite[t].consumed = None
Expired(deadline) == deadline < now

EnrollmentInit ==
    /\ now = 0
    /\ invite = [t \in Tokens |->
                   IF t \in FileTokens THEN Invitation(0, FileWindow) ELSE None]
    /\ pending = [t \in Tokens |-> None]
    /\ drawn = [v \in VaultIds |-> None]
    /\ vault = [v \in VaultIds |-> None]
    /\ published = {}
    /\ client = [c \in Clients |-> Idle]
-----------------------------------------------------------------------------
(* Invitations.                                                            *)

(* Mutant: the cleaning also removes the invitations that were consumed.   *)
AnyStale(t) ==
    invite[t] \notin {None, Gone} /\ invite[t].expires + Retention < now
Stale(t) == Unused(t) /\ invite[t].expires + Retention < now

(* One transaction: clean, count, insert.  A refusal rolls the cleaning    *)
(* back.                                                                   *)
IssueEnrollmentSession(t) ==
    LET kept == {u \in Tokens : invite[u] \notin {None, Gone} /\ ~Stale(u)}
    IN  /\ invite[t] = None
        /\ Cardinality({u \in kept : invite[u].created = now}) < MaxRecent
        /\ Cardinality({u \in kept : Unused(u) /\ ~Expired(invite[u].expires)}) < MaxActive
        /\ invite' = [u \in Tokens |-> IF u = t THEN Invitation(now, SessionTTL)
                                       ELSE IF Stale(u) THEN Gone ELSE invite[u]]
        /\ pending' = [u \in Tokens |-> IF Stale(u) THEN None ELSE pending[u]]
        /\ UNCHANGED <<now, drawn, vault, published, client>>

(* At start-up the file's invitation is stored unless there is one.        *)
provisionEnrollmentInvite ==
    invite' = [t \in Tokens |-> IF t \in FileTokens /\ invite[t] \in {None, Gone}
                                THEN Invitation(now, FileWindow) ELSE invite[t]]
-----------------------------------------------------------------------------
(* Start and Propose.                                                      *)

Reserved(c, t, v, s) ==
    client' = [client EXCEPT ![c] = [step |-> "started", token |-> t, vault |-> v,
                                     setup |-> s, keys |-> None]]

reservePendingEnrollmentTx(t, v, s) ==
    /\ Unused(t)
    /\ ~Expired(invite[t].expires)
    /\ IF pending[t] # None /\ ~Expired(pending[t].expires)
       THEN /\ pending[t].setup = s
            /\ v = pending[t].vault
            /\ UNCHANGED <<pending, drawn>>
       ELSE /\ drawn[v] = None
            /\ pending' = [pending EXCEPT ![t] =
                             [vault |-> v, setup |-> s, expires |-> now + PendingTTL]]
            /\ drawn' = [drawn EXCEPT ![v] = [token |-> t, setup |-> s]]

StartEnrollment(c, t, v, s) ==
    /\ client[c] = Idle \/ client[c].step = "started"
    /\ reservePendingEnrollmentTx(t, v, s)
    /\ Reserved(c, t, v, s)
    /\ UNCHANGED <<now, invite, vault, published>>

(* Mutant: a request may change the tier or the policy it started with.    *)
AnySetup(p, s) == s \in Setups
requirePending(p, s) == p.setup = s

HasPending(c) ==
    pending[client[c].token] # None /\ pending[client[c].token].vault = client[c].vault
Accepted(c, s) ==
    /\ HasPending(c)
    /\ ~Expired(pending[client[c].token].expires)
    /\ requirePending(pending[client[c].token], s)

(* The client is shown the descriptor of the keys and the setup it posts   *)
(* and finishes with its hash.                                             *)
ProposeEnrollment(c, k, s) ==
    /\ client[c].step = "started"
    /\ Accepted(c, s)
    /\ client' = [client EXCEPT ![c].step = "proposed", ![c].keys = k, ![c].setup = s]
    /\ UNCHANGED <<now, invite, pending, drawn, vault, published>>
-----------------------------------------------------------------------------
(* Finish.                                                                 *)

Answer(c, step) == client' = [client EXCEPT ![c].step = step]
Minted(c) ==
    [token |-> client[c].token, setup |-> client[c].setup, keys |-> client[c].keys]

(* Mutant: any finish of the stored vault counts as its retry.             *)
acceptAnyFinish(c) == vault[client[c].vault] # None
acceptDuplicateFinish(c) ==
    /\ vault[client[c].vault] # None
    /\ vault[client[c].vault].setup = client[c].setup
    /\ vault[client[c].vault].keys = client[c].keys

acceptDuplicateFinishFromToken(c) ==
    /\ invite[client[c].token] \notin {None, Gone}
    /\ invite[client[c].token].consumed = client[c].vault
    /\ acceptDuplicateFinish(c)

(* A client whose answer was lost sends the same request again.            *)
FinishEnrollment(c) ==
    /\ client[c].step \in {"proposed", "done"}
    /\ IF HasPending(c)
       THEN Accepted(c, client[c].setup) /\ Answer(c, "loaded")
       ELSE acceptDuplicateFinishFromToken(c) /\ Answer(c, "done")
    /\ UNCHANGED <<now, invite, pending, drawn, vault, published>>

consumePendingEnrollmentTx(c) == Accepted(c, client[c].setup)

createVault(c) ==
    /\ Unused(client[c].token)
    /\ ~Expired(invite[client[c].token].expires)
    /\ consumePendingEnrollmentTx(c)
    /\ vault[client[c].vault] = None

Locked == \E c \in Clients : client[c].step = "created"

(* The transaction, with what Finish does when it is refused.              *)
createTenantVault(c) ==
    /\ client[c].step = "loaded"
    /\ ~Locked
    /\ IF createVault(c)
       THEN /\ vault' = [vault EXCEPT ![client[c].vault] = Minted(c)]
            /\ pending' = [pending EXCEPT ![client[c].token] = None]
            /\ invite' = [invite EXCEPT ![client[c].token].consumed = client[c].vault]
            /\ Answer(c, "created")
       ELSE /\ Answer(c, IF acceptDuplicateFinish(c) THEN "done" ELSE "proposed")
            /\ UNCHANGED <<vault, pending, invite>>
    /\ UNCHANGED <<now, drawn, published>>

publishEnrollmentAt(c) ==
    /\ client[c].step = "created"
    /\ published' = published \union {client[c].vault}
    /\ Answer(c, "done")
    /\ UNCHANGED <<now, invite, pending, drawn, vault>>

(* The commit stands but reading it back fails: the error is answered from *)
(* the stored vault, and the snapshot waits for a restart.                 *)
ReadbackFails(c) ==
    /\ client[c].step = "created"
    /\ acceptDuplicateFinish(c)
    /\ Answer(c, "done")
    /\ UNCHANGED <<now, invite, pending, drawn, vault, published>>

(* An error that leaves the client without an answer.                      *)
FailFinish(c) ==
    /\ client[c].step \in {"loaded", "created"}
    /\ Answer(c, "proposed")
    /\ UNCHANGED <<now, invite, pending, drawn, vault, published>>
-----------------------------------------------------------------------------
(* The routes, and a restart.                                              *)

EnrollmentRoutes(c) ==
    \/ \E t \in Tokens, v \in VaultIds, s \in Setups : StartEnrollment(c, t, v, s)
    \/ \E k \in Keys, s \in Setups : ProposeEnrollment(c, k, s)
    \/ FinishEnrollment(c)

EnrollmentNext ==
    \/ \E t \in Tokens : IssueEnrollmentSession(t)
    \/ \E c \in Clients : EnrollmentRoutes(c)
    \/ \E c \in Clients : createTenantVault(c)
    \/ \E c \in Clients : publishEnrollmentAt(c)
    \/ \E c \in Clients : ReadbackFails(c)
    \/ \E c \in Clients : FailFinish(c)

LoadVaults == published' = {v \in VaultIds : vault[v] # None}

EnrollmentRestart ==
    /\ provisionEnrollmentInvite
    /\ LoadVaults
    /\ client' = [c \in Clients |->
                    IF client[c].step \in {"loaded", "created"}
                    THEN [client[c] EXCEPT !.step = "proposed"] ELSE client[c]]
    /\ UNCHANGED <<now, pending, drawn, vault>>
-----------------------------------------------------------------------------
(* An invitation becomes at most one vault, which its row names for ever,  *)
(* with the tier and policy frozen when the vault ID was drawn for that    *)
(* invitation: across rotated reservations, cleaning, and restarts that    *)
(* present the invitation's file again.                                    *)
OneVaultPerInvite ==
    \A v \in VaultIds : vault[v] # None =>
        /\ drawn[v] = [token |-> vault[v].token, setup |-> vault[v].setup]
        /\ invite[vault[v].token] \notin {None, Gone}
        /\ invite[vault[v].token].consumed = v

(* A client that was told its enrollment succeeded has the stored vault it *)
(* reviewed, with its own keys, tier and policy, whichever of two finishes *)
(* of one reservation committed and whichever path answered.               *)
AnsweredAsReviewed ==
    \A c \in Clients : client[c].step = "done" => vault[client[c].vault] = Minted(c)

(* A finish that committed and whose answer was lost (a failed read back,  *)
(* a crash, a broken connection) is accepted when it is sent again,        *)
(* however much later.                                                     *)
RetryAccepted ==
    \A c \in Clients :
        (client[c].step = "proposed" /\ vault[client[c].vault] = Minted(c))
            => (~HasPending(c) /\ acceptDuplicateFinishFromToken(c))
-----------------------------------------------------------------------------
(* The inductive invariant behind the three.                               *)

EnrollmentTypes ==
    /\ now \in Nat
    /\ invite \in [Tokens -> Invitations \union {None, Gone}]
    /\ pending \in [Tokens -> Reservations \union {None}]
    /\ drawn \in [VaultIds -> Draws \union {None}]
    /\ vault \in [VaultIds -> Vaults \union {None}]
    /\ client \in [Clients -> Enrollees \union {Idle}]
    /\ published \subseteq VaultIds

(* A reservation holds the ID drawn for its invitation, not yet a vault.   *)
ReservedAsDrawn ==
    \A t \in Tokens : pending[t] # None =>
        /\ drawn[pending[t].vault] = [token |-> t, setup |-> pending[t].setup]
        /\ vault[pending[t].vault] = None

(* A client holds an ID with the invitation and setup it was drawn for.    *)
HeldAsDrawn(c) ==
    client[c] # Idle =>
        /\ drawn[client[c].vault] = [token |-> client[c].token, setup |-> client[c].setup]
        /\ client[c].step \in FinishSteps => client[c].keys \in Keys
        /\ client[c].step \in {"created", "done"} => vault[client[c].vault] = Minted(c)

EnrollmentInv ==
    /\ EnrollmentTypes
    /\ ReservedAsDrawn
    /\ \A c \in Clients : HeldAsDrawn(c)
    /\ OneVaultPerInvite
=============================================================================
