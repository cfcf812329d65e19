---------------------------- MODULE MCVaultAccess ----------------------------
(***************************************************************************)
(* The components meet in the tickets, the enrolled vaults, which never    *)
(* change once they are stored, the clock and restarts.  The run therefore *)
(* explores them one service at a time: the scenario of a behaviour says   *)
(* which one its requests go to, the other three being idle, and all but   *)
(* the first start from a vault that is enrolled and published.            *)
(***************************************************************************)
EXTENDS VaultAccess, TLC

CONSTANTS Standard, OneVault, OneToken, OneKey

VARIABLE scenario

EnrolledInit(setup) ==
    /\ invite = [t \in Tokens |-> IF t = OneToken
                                  THEN [Invitation(0, FileWindow) EXCEPT !.consumed = OneVault]
                                  ELSE None]
    /\ pending = [t \in Tokens |-> None]
    /\ drawn = [v \in VaultIds |-> IF v = OneVault
                                   THEN [token |-> OneToken, setup |-> setup] ELSE None]
    /\ vault = [v \in VaultIds |-> IF v = OneVault
                                   THEN [token |-> OneToken, setup |-> setup, keys |-> OneKey]
                                   ELSE None]
    /\ published = {OneVault}
    /\ client = [c \in Clients |-> Idle]

(* The time that is left, the tickets an earlier process issued, and where *)
(* the coins lie.                                                          *)
From(left, issued, sources) ==
    /\ now = MaxTime - left
    /\ ticket = [i \in 1..issued |-> Gone]
    /\ source \in [Coins -> sources]

MCInit ==
    /\ \/ scenario = "enrollment" /\ EnrollmentInit /\ From(MaxTime, 0, {None})
       \/ scenario = "envelope" /\ EnrolledInit(Standard) /\ From(2, 0, {None})
       \/ scenario = "archive" /\ EnrolledInit(Light) /\ From(3, 0, {None})
       \/ scenario = "savings" /\ EnrolledInit(Standard) /\ From(1, 1, Roles \union {None})
    /\ NoTicketSpent /\ ArchiveInit /\ NoTransition

MCNext ==
    /\ \/ scenario = "enrollment" /\ Enrolling
       \/ Authenticating
       \/ scenario = "envelope" /\ UsingEnvelope
       \/ scenario = "archive" /\ UsingArchive
       \/ scenario = "savings" /\ RecoveringSavings
       \/ Tick
       \/ Restart
    /\ UNCHANGED scenario

MCSpec == MCInit /\ [][MCNext]_<<vars, scenario>>

Symmetry ==
    Permutations(Calls) \union Permutations(Sessions) \union Permutations(Headers) \union Permutations(Approvals)
=============================================================================
