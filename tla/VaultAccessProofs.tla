-------------------------- MODULE VaultAccessProofs --------------------------
(***************************************************************************)
(* What is proved of VaultAccess, with all its services interleaved, for   *)
(* any number of invitations, clients, calls, sessions and coins:          *)
(* enrollment makes one vault of an invitation, a ticket authenticates one *)
(* call, an archive keeps its header and every acknowledged write, and the *)
(* Guardian signs a Savings coin to one destination.                       *)
(***************************************************************************)
EXTENDS VaultAccess, TLAPS

-----------------------------------------------------------------------------
(* Enrollment.                                                             *)

(* A client with a step is not idle, and holds what it set out with.       *)
LEMMA ActiveClient ==
    ASSUME EnrollmentInv, NEW c \in Clients,
           client[c].step \in FinishSteps \union {"started"}
    PROVE  client[c] \in Enrollees /\ client[c] # Idle
  BY EnrollmentAssumption DEF EnrollmentInv, EnrollmentTypes, Idle

(* An enrollee is told apart from an idle client.                          *)
LEMMA EnrolleeNotIdle == \A e \in Enrollees : e # Idle
  BY EnrollmentAssumption DEF Enrollees, Idle

(* An answer changes the client's step and nothing else.                   *)
LEMMA AnswerEffect ==
    ASSUME EnrollmentInv, NEW c \in Clients, client[c] \in Enrollees,
           NEW step \in FinishSteps, Answer(c, step)
    PROVE  /\ client' \in [Clients -> Enrollees \union {Idle}]
           /\ \A d \in Clients \ {c} : client'[d] = client[d]
           /\ client'[c] # Idle /\ client'[c].step = step
           /\ client'[c].token = client[c].token /\ client'[c].vault = client[c].vault
           /\ client'[c].setup = client[c].setup /\ client'[c].keys = client[c].keys
  <1>1. client \in [Clients -> Enrollees \union {Idle}]
    BY Zenon DEF EnrollmentInv, EnrollmentTypes
  <1>2. [client[c] EXCEPT !.step = step] \in Enrollees
    BY Zenon DEF Enrollees
  <1>3. client' = [client EXCEPT ![c] = [client[c] EXCEPT !.step = step]]
    BY Zenon DEF Answer
  <1>4. client'[c] = [client[c] EXCEPT !.step = step]
    BY <1>1, <1>3, Zenon
  <1>5. /\ client'[c].step = step
        /\ client'[c].token = client[c].token /\ client'[c].vault = client[c].vault
        /\ client'[c].setup = client[c].setup /\ client'[c].keys = client[c].keys
    BY <1>4, Zenon DEF Enrollees
  <1> QED
    BY <1>1, <1>2, <1>3, <1>4, <1>5, EnrolleeNotIdle, Zenon

(* What a client holds stays as drawn while vault IDs and vaults stay.     *)
LEMMA HeldKept ==
    ASSUME EnrollmentInv, NEW c \in Clients, client'[c] = client[c],
           \A v \in VaultIds : drawn[v] # None => drawn'[v] = drawn[v],
           \A v \in VaultIds : vault[v] # None => vault'[v] = vault[v]
    PROVE  HeldAsDrawn(c)'
  <1>1. CASE client[c] = Idle
    BY <1>1, Zenon DEF HeldAsDrawn, Idle
  <1>2. CASE client[c] # Idle
    <2>1. /\ client[c] \in Enrollees /\ HeldAsDrawn(c)
      BY <1>2, Zenon DEF EnrollmentInv, EnrollmentTypes
    <2>2. [token |-> client[c].token, setup |-> client[c].setup] \in Draws
      BY <2>1, Zenon DEF Enrollees, Draws
    <2>3. drawn'[client[c].vault] = drawn[client[c].vault]
      BY <1>2, <2>1, <2>2, EnrollmentAssumption DEF HeldAsDrawn, Enrollees
    <2>4. ASSUME client[c].step \in {"created", "done"}
          PROVE  vault'[client[c].vault] = vault[client[c].vault]
      <3>1. vault[client[c].vault] = Minted(c) /\ Minted(c) \in Vaults
        BY <1>2, <2>1, <2>4, Zenon DEF HeldAsDrawn, Minted, Vaults, Enrollees, FinishSteps
      <3> QED
        BY <2>1, <3>1, EnrollmentAssumption DEF Enrollees
    <2> QED
      BY <1>2, <2>1, <2>3, <2>4, Zenon DEF HeldAsDrawn, Minted
  <1> QED
    BY <1>1, <1>2, Zenon

(* A stored vault, or a reservation, is never "no row".                    *)
LEMMA EnrollmentFacts ==
    ASSUME EnrollmentInv
    PROVE  /\ \A v \in VaultIds : vault[v] # None => vault[v] \in Vaults
           /\ \A t \in Tokens : pending[t] # None => pending[t] \in Reservations
           /\ \A t \in Tokens : invite[t] \notin {None, Gone} => invite[t] \in Invitations
           /\ \A v \in VaultIds : vault[v] # None =>
                 /\ drawn[v] = [token |-> vault[v].token, setup |-> vault[v].setup]
                 /\ ~Unused(vault[v].token)
                 /\ invite[vault[v].token] \notin {None, Gone}
                 /\ invite[vault[v].token].consumed = v
  BY EnrollmentAssumption
     DEF EnrollmentInv, EnrollmentTypes, OneVaultPerInvite, Unused

(* The clock, and the snapshots, play no part in what is reserved.         *)
LEMMA EnrollmentKept ==
    ASSUME EnrollmentInv, now' \in Nat, published' \subseteq VaultIds,
           UNCHANGED <<invite, pending, drawn, vault, client>>
    PROVE  EnrollmentInv'
  <1>1. EnrollmentTypes'
    BY Zenon DEF EnrollmentInv, EnrollmentTypes
  <1>2. ReservedAsDrawn' /\ OneVaultPerInvite'
    BY Zenon DEF EnrollmentInv, ReservedAsDrawn, OneVaultPerInvite
  <1>3. \A c \in Clients : HeldAsDrawn(c)'
    BY HeldKept, Zenon
  <1> QED
    BY <1>1, <1>2, <1>3, Zenon DEF EnrollmentInv

(* A step that only changes clients keeps the invariant when each client   *)
(* still holds what was drawn.                                             *)
LEMMA ClientsMove ==
    ASSUME EnrollmentInv, UNCHANGED <<now, invite, pending, drawn, vault>>,
           published' \subseteq VaultIds,
           client' \in [Clients -> Enrollees \union {Idle}],
           \A c \in Clients : HeldAsDrawn(c)'
    PROVE  EnrollmentInv'
  <1>1. EnrollmentTypes'
    BY Zenon DEF EnrollmentInv, EnrollmentTypes
  <1>2. ReservedAsDrawn' /\ OneVaultPerInvite'
    BY Zenon DEF EnrollmentInv, ReservedAsDrawn, OneVaultPerInvite
  <1> QED
    BY <1>1, <1>2, Zenon DEF EnrollmentInv

(* Issuing an invitation cleans away expired ones, never a consumed one.   *)
LEMMA IssueKeeps ==
    ASSUME EnrollmentInv, NEW t \in Tokens, IssueEnrollmentSession(t)
    PROVE  EnrollmentInv'
  <1>0. /\ EnrollmentTypes /\ invite[t] = None
        /\ UNCHANGED <<now, drawn, vault, published, client>>
        /\ \A u \in Tokens : pending'[u] \in {None, pending[u]}
    BY Zenon DEF EnrollmentInv, EnrollmentTypes, IssueEnrollmentSession
  <1>1. invite' = [u \in Tokens |-> IF u = t THEN Invitation(now, SessionTTL)
                                    ELSE IF Stale(u) THEN Gone ELSE invite[u]]
    BY Zenon DEF IssueEnrollmentSession
  <1>2. Invitation(now, SessionTTL) \in Invitations
    BY <1>0, EnrollmentAssumption DEF EnrollmentTypes, Invitation, Invitations
  <1>3. EnrollmentTypes'
    <2>1. invite' \in [Tokens -> Invitations \union {None, Gone}]
      BY <1>0, <1>1, <1>2, Zenon DEF EnrollmentTypes
    <2>2. pending' \in [Tokens -> Reservations \union {None}]
      BY <1>0, Zenon DEF EnrollmentTypes, IssueEnrollmentSession
    <2> QED
      BY <1>0, <2>1, <2>2, Zenon DEF EnrollmentTypes
  <1>4. ReservedAsDrawn'
    BY <1>0, Zenon DEF EnrollmentInv, ReservedAsDrawn
  <1>5. OneVaultPerInvite'
    <2> SUFFICES ASSUME NEW v \in VaultIds, vault[v] # None
                 PROVE  invite'[vault[v].token] = invite[vault[v].token]
      BY <1>0, Zenon DEF EnrollmentInv, OneVaultPerInvite
    <2>1. /\ vault[v].token \in Tokens /\ vault[v].token # t /\ ~Stale(vault[v].token)
      BY <1>0, EnrollmentFacts, Zenon DEF Stale, Vaults
    <2> QED
      BY <1>1, <2>1, Zenon
  <1>6. \A c \in Clients : HeldAsDrawn(c)'
    BY <1>0, HeldKept, Zenon
  <1> QED
    BY <1>3, <1>4, <1>5, <1>6, Zenon DEF EnrollmentInv

(* Start draws a fresh vault ID for the invitation, or replays the one in  *)
(* its reservation.                                                        *)
LEMMA StartKeeps ==
    ASSUME EnrollmentInv, NEW c \in Clients, NEW t \in Tokens, NEW v \in VaultIds,
           NEW s \in Setups, StartEnrollment(c, t, v, s)
    PROVE  EnrollmentInv'
  <1> DEFINE e == [step |-> "started", token |-> t, vault |-> v, setup |-> s, keys |-> None]
             d == [token |-> t, setup |-> s]
             p == [vault |-> v, setup |-> s, expires |-> now + PendingTTL]
  <1>0. /\ EnrollmentTypes /\ ReservedAsDrawn /\ OneVaultPerInvite
        /\ UNCHANGED <<now, invite, vault, published>>
        /\ client' = [client EXCEPT ![c] = e]
        /\ reservePendingEnrollmentTx(t, v, s)
    BY Zenon DEF EnrollmentInv, StartEnrollment, Reserved
  <1>1. e \in Enrollees
    BY Zenon DEF Enrollees
  <1>2. /\ client' \in [Clients -> Enrollees \union {Idle}]
        /\ client'[c] = e /\ \A x \in Clients \ {c} : client'[x] = client[x]
    BY <1>0, <1>1, Zenon DEF EnrollmentTypes
  <1>3. ASSUME drawn'[v] = d, \A w \in VaultIds : drawn[w] # None => drawn'[w] = drawn[w]
        PROVE  \A x \in Clients : HeldAsDrawn(x)'
    <2>1. HeldAsDrawn(c)'
      BY <1>2, <1>3 DEF HeldAsDrawn, FinishSteps
    <2>2. ASSUME NEW x \in Clients \ {c} PROVE HeldAsDrawn(x)'
      BY <1>0, <1>2, <1>3, HeldKept, Zenon
    <2> QED
      BY <2>1, <2>2, Zenon
  <1>4. CASE pending[t] # None /\ ~Expired(pending[t].expires)
    <2>1. UNCHANGED <<pending, drawn>> /\ drawn[v] = d
      BY <1>0, <1>4, Zenon DEF reservePendingEnrollmentTx, ReservedAsDrawn
    <2>2. published' \subseteq VaultIds
      BY <1>0, Zenon DEF EnrollmentTypes
    <2>3. \A x \in Clients : HeldAsDrawn(x)'
      BY <1>3, <2>1, Zenon
    <2> QED
      BY <1>0, <1>2, <2>1, <2>2, <2>3, ClientsMove, Zenon
  <1>5. CASE ~(pending[t] # None /\ ~Expired(pending[t].expires))
    <2>1. /\ drawn[v] = None /\ drawn' = [drawn EXCEPT ![v] = d]
          /\ pending' = [pending EXCEPT ![t] = p]
      BY <1>0, <1>5, Zenon DEF reservePendingEnrollmentTx
    <2>2. d \in Draws /\ p \in Reservations
      BY <1>0, EnrollmentAssumption DEF Draws, Reservations, EnrollmentTypes
    <2>3. /\ drawn' \in [VaultIds -> Draws \union {None}] /\ drawn'[v] = d
          /\ pending' \in [Tokens -> Reservations \union {None}] /\ pending'[t] = p
          /\ \A w \in VaultIds \ {v} : drawn'[w] = drawn[w]
          /\ \A u \in Tokens \ {t} : pending'[u] = pending[u]
      <3> HIDE DEF d, p
      <3> QED BY <1>0, <2>1, <2>2, Zenon DEF EnrollmentTypes
    <2>4. vault[v] = None
      <3>1. vault[v] # None =>
               drawn[v] = [token |-> vault[v].token, setup |-> vault[v].setup] /\ vault[v] \in Vaults
        BY EnrollmentFacts, Zenon
      <3>2. vault[v] # None => drawn[v] \in Draws
        BY <3>1 DEF Vaults, Draws
      <3> QED
        BY <2>1, <3>2, EnrollmentAssumption, Zenon
    <2>5. EnrollmentTypes'
      BY <1>0, <1>2, <2>3, Zenon DEF EnrollmentTypes
    <2>6. ReservedAsDrawn'
      <3> SUFFICES ASSUME NEW u \in Tokens, pending'[u] # None
                   PROVE  /\ drawn'[pending'[u].vault] =
                                [token |-> u, setup |-> pending'[u].setup]
                          /\ vault'[pending'[u].vault] = None
        BY Zenon DEF ReservedAsDrawn
      <3>1. CASE u = t
        BY <1>0, <2>3, <2>4, <3>1
      <3>2. CASE u # t
        <4>1. /\ pending[u] # None /\ pending'[u] = pending[u] /\ pending[u] \in Reservations
          BY <2>3, <3>2, EnrollmentFacts, Zenon
        <4>2. /\ drawn[pending[u].vault] = [token |-> u, setup |-> pending[u].setup]
              /\ vault[pending[u].vault] = None
          BY <1>0, <4>1, Zenon DEF ReservedAsDrawn
        <4>3. pending[u].vault # v
          <5>1. [token |-> u, setup |-> pending[u].setup] \in Draws
            BY <4>1, Zenon DEF Reservations, Draws
          <5> QED BY <2>1, <4>2, <5>1, EnrollmentAssumption, Zenon
        <4> QED
          BY <1>0, <2>3, <4>1, <4>2, <4>3, Zenon DEF Reservations
      <3> QED
        BY <3>1, <3>2, Zenon
    <2>7. OneVaultPerInvite'
      BY <1>0, <2>3, <2>4, Zenon DEF OneVaultPerInvite
    <2>8. \A x \in Clients : HeldAsDrawn(x)'
      BY <1>3, <2>1, <2>3, Zenon
    <2> QED
      BY <2>5, <2>6, <2>7, <2>8, Zenon DEF EnrollmentInv
  <1> QED
    BY <1>4, <1>5, Zenon

(* Propose keeps the setup that was frozen with the vault ID.              *)
LEMMA ProposeKeeps ==
    ASSUME EnrollmentInv, NEW c \in Clients, NEW k \in Keys, NEW s \in Setups,
           ProposeEnrollment(c, k, s)
    PROVE  EnrollmentInv'
  <1> DEFINE e == [client[c] EXCEPT !.step = "proposed", !.keys = k, !.setup = s]
  <1>0. /\ client[c].step = "started" /\ Accepted(c, s)
        /\ UNCHANGED <<now, invite, pending, drawn, vault, published>>
        /\ client' = [client EXCEPT ![c].step = "proposed", ![c].keys = k, ![c].setup = s]
        /\ client \in [Clients -> Enrollees \union {Idle}]
        /\ published \subseteq VaultIds
    BY Zenon DEF ProposeEnrollment, EnrollmentInv, EnrollmentTypes
  <1>1. client[c] \in Enrollees /\ client[c] # Idle
    BY <1>0, ActiveClient, Zenon
  <1>2. /\ e \in Enrollees /\ e # Idle
        /\ e.step = "proposed" /\ e.keys = k /\ e.setup = s
        /\ e.token = client[c].token /\ e.vault = client[c].vault
    BY <1>1, EnrollmentAssumption, Zenon DEF Enrollees, FinishSteps, Idle
  <1>3. client'[c] = e /\ \A x \in Clients \ {c} : client'[x] = client[x]
    BY <1>0, Zenon
  <1>4. client' \in [Clients -> Enrollees \union {Idle}]
    BY <1>0, <1>2, <1>3, Zenon
  <1>5. HeldAsDrawn(c)'
    <2>1. drawn[client[c].vault] = [token |-> client[c].token, setup |-> client[c].setup]
      BY <1>1, Zenon DEF EnrollmentInv, HeldAsDrawn
    <2>2. drawn[client[c].vault] = [token |-> client[c].token, setup |-> s]
      BY <1>0, <1>1, Zenon
         DEF Accepted, HasPending, requirePending, EnrollmentInv, ReservedAsDrawn, Enrollees
    <2> HIDE DEF e
    <2> QED
      BY <1>0, <1>2, <1>3, <2>2 DEF HeldAsDrawn, FinishSteps
  <1>6. \A x \in Clients : HeldAsDrawn(x)'
    BY <1>0, <1>3, <1>5, HeldKept, Zenon
  <1> QED
    BY <1>0, <1>4, <1>6, ClientsMove, Zenon

(* A finish answered without touching a row: the client's own step only,   *)
(* and success only when the stored vault is the one it reviewed.          *)
LEMMA AnswerKeeps ==
    ASSUME EnrollmentInv, NEW c \in Clients, client[c].step \in FinishSteps,
           NEW step \in FinishSteps, Answer(c, step),
           step \in {"created", "done"} => vault[client[c].vault] = Minted(c),
           UNCHANGED <<now, invite, pending, drawn, vault>>, published' \subseteq VaultIds
    PROVE  EnrollmentInv'
  <1>1. client[c] \in Enrollees /\ client[c] # Idle
    BY ActiveClient, Zenon
  <1>2. HeldAsDrawn(c)
    BY Zenon DEF EnrollmentInv
  <1>3. HeldAsDrawn(c)'
    BY <1>1, <1>2, AnswerEffect, Zenon DEF HeldAsDrawn, Minted
  <1>4. \A x \in Clients : HeldAsDrawn(x)'
    <2>1. ASSUME NEW x \in Clients \ {c} PROVE HeldAsDrawn(x)'
      BY <1>1, HeldKept, AnswerEffect, Zenon
    <2> QED BY <1>3, <2>1, Zenon
  <1>5. client' \in [Clients -> Enrollees \union {Idle}]
    BY <1>1, AnswerEffect, Zenon
  <1> QED
    BY <1>4, <1>5, ClientsMove, Zenon

(* The stored vault that an exact retry is compared with is the client's.  *)
LEMMA DuplicateIsOwn ==
    ASSUME EnrollmentInv, NEW c \in Clients, client[c].step \in FinishSteps,
           acceptDuplicateFinish(c)
    PROVE  vault[client[c].vault] = Minted(c)
  <1>1. client[c] \in Enrollees /\ client[c] # Idle
    BY ActiveClient, Zenon
  <1> DEFINE w == vault[client[c].vault]
  <1>2. w \in Vaults /\ w.setup = client[c].setup /\ w.keys = client[c].keys
    BY <1>1, EnrollmentFacts, Zenon DEF acceptDuplicateFinish, Enrollees
  <1>3. [token |-> w.token, setup |-> w.setup] =
            [token |-> client[c].token, setup |-> client[c].setup]
    BY <1>1, EnrollmentFacts, Zenon DEF acceptDuplicateFinish, Enrollees, EnrollmentInv, HeldAsDrawn
  <1>4. w.token = client[c].token
    BY <1>3, Zenon
  <1> QED
    BY <1>2, <1>4, Zenon DEF Minted, Vaults

(* Finish loads the reservation, or answers from the stored vault.         *)
LEMMA FinishKeeps ==
    ASSUME EnrollmentInv, NEW c \in Clients, FinishEnrollment(c)
    PROVE  EnrollmentInv'
  <1>0. /\ client[c].step \in FinishSteps
        /\ UNCHANGED <<now, invite, pending, drawn, vault>> /\ published' \subseteq VaultIds
    BY Zenon DEF FinishEnrollment, FinishSteps, EnrollmentInv, EnrollmentTypes
  <1>1. CASE HasPending(c)
    BY <1>0, <1>1, AnswerKeeps, Zenon DEF FinishEnrollment, FinishSteps
  <1>2. CASE ~HasPending(c)
    <2>1. Answer(c, "done") /\ vault[client[c].vault] = Minted(c)
      BY <1>0, <1>2, DuplicateIsOwn, Zenon DEF FinishEnrollment, acceptDuplicateFinishFromToken
    <2> QED
      BY <1>0, <2>1, AnswerKeeps, Zenon DEF FinishSteps
  <1> QED
    BY <1>1, <1>2, Zenon

(* The transaction that creates the vault consumes the reservation and the *)
(* invitation; when it is refused, the stored vault answers or nothing.    *)
LEMMA CreateKeeps ==
    ASSUME EnrollmentInv, NEW c \in Clients, createTenantVault(c)
    PROVE  EnrollmentInv'
  <1>0. /\ client[c].step = "loaded" /\ client[c].step \in FinishSteps
        /\ UNCHANGED <<now, drawn, published>>
        /\ EnrollmentTypes
    BY Zenon DEF createTenantVault, FinishSteps, EnrollmentInv
  <1>1. client[c] \in Enrollees /\ client[c] # Idle
    BY <1>0, ActiveClient, Zenon
  <1>2. CASE ~createVault(c)
    <2>1. PICK step \in {"done", "proposed"} :
              Answer(c, step) /\ (step = "done" => acceptDuplicateFinish(c))
      BY <1>2, Zenon DEF createTenantVault
    <2>2. step = "done" => vault[client[c].vault] = Minted(c)
      BY <1>0, <2>1, DuplicateIsOwn, Zenon
    <2>3. UNCHANGED <<now, invite, pending, drawn, vault>> /\ published' \subseteq VaultIds
      BY <1>0, <1>2, Zenon DEF createTenantVault, EnrollmentTypes
    <2> QED
      BY <1>0, <2>1, <2>2, <2>3, AnswerKeeps, Zenon DEF FinishSteps
  <1>3. CASE createVault(c)
    <2> DEFINE v == client[c].vault
               t == client[c].token
    <2>1. /\ v \in VaultIds /\ t \in Tokens
          /\ Unused(t) /\ vault[v] = None
          /\ vault' = [vault EXCEPT ![v] = Minted(c)]
          /\ pending' = [pending EXCEPT ![t] = None]
          /\ invite' = [invite EXCEPT ![t].consumed = v]
          /\ Answer(c, "created")
      BY <1>1, <1>3, Zenon DEF createTenantVault, createVault, Enrollees
    <2>2. /\ Minted(c) \in Vaults /\ Minted(c) # None
          /\ Minted(c).token = t /\ Minted(c).setup = client[c].setup
          /\ drawn[v] = [token |-> t, setup |-> client[c].setup]
      <3>1. client[c].keys \in Keys /\ drawn[v] = [token |-> t, setup |-> client[c].setup]
        BY <1>0, <1>1, Zenon DEF EnrollmentInv, HeldAsDrawn
      <3>2. Minted(c) \in Vaults
        BY <1>1, <3>1, Zenon DEF Minted, Vaults, Enrollees
      <3> QED
        BY <3>1, <3>2, EnrollmentAssumption, Zenon DEF Minted
    <2>3. /\ client' \in [Clients -> Enrollees \union {Idle}]
          /\ \A x \in Clients \ {c} : client'[x] = client[x]
          /\ client'[c] # Idle /\ client'[c].step = "created"
          /\ client'[c].token = t /\ client'[c].vault = v
          /\ client'[c].setup = client[c].setup /\ client'[c].keys = client[c].keys
      BY <1>1, <2>1, AnswerEffect, Zenon DEF FinishSteps
    <2>4. invite[t] \in Invitations
      BY <2>1, EnrollmentFacts, Zenon DEF Unused
    <2> HIDE DEF v, t
    <2>5. [invite[t] EXCEPT !.consumed = v] \in Invitations
      BY <2>1, <2>4, Zenon DEF Invitations
    <2>6. /\ invite'[t] \in Invitations /\ invite'[t].consumed = v
          /\ \A u \in Tokens \ {t} : invite'[u] = invite[u]
          /\ invite' \in [Tokens -> Invitations \union {None, Gone}]
      BY <1>0, <2>1, <2>4, <2>5, Zenon DEF EnrollmentTypes, Invitations
    <2>7. /\ vault'[v] = Minted(c) /\ \A w \in VaultIds \ {v} : vault'[w] = vault[w]
          /\ pending'[t] = None /\ \A u \in Tokens \ {t} : pending'[u] = pending[u]
      BY <1>0, <2>1, Zenon DEF EnrollmentTypes
    <2>8. EnrollmentTypes'
      <3>1. vault' \in [VaultIds -> Vaults \union {None}]
        BY <1>0, <2>1, <2>2, Zenon DEF EnrollmentTypes
      <3>2. pending' \in [Tokens -> Reservations \union {None}]
        BY <1>0, <2>1, Zenon DEF EnrollmentTypes
      <3> QED
        BY <1>0, <2>3, <2>6, <3>1, <3>2, Zenon DEF EnrollmentTypes
    <2>9. ReservedAsDrawn'
      <3> SUFFICES ASSUME NEW u \in Tokens \ {t}, pending[u] # None
                   PROVE  /\ drawn[pending[u].vault] = [token |-> u, setup |-> pending[u].setup]
                          /\ vault'[pending[u].vault] = None
        BY <1>0, <2>7 DEF ReservedAsDrawn
      <3>1. /\ drawn[pending[u].vault] = [token |-> u, setup |-> pending[u].setup]
            /\ vault[pending[u].vault] = None /\ pending[u].vault \in VaultIds
        BY EnrollmentFacts, Zenon DEF EnrollmentInv, ReservedAsDrawn, Reservations
      <3>2. pending[u].vault # v
        <4>1. [token |-> u, setup |-> pending[u].setup] #
                 [token |-> t, setup |-> client[c].setup]
          <5>1. [token |-> u, setup |-> pending[u].setup].token #
                   [token |-> t, setup |-> client[c].setup].token
            BY Zenon
          <5> QED BY <5>1, Zenon
        <4> QED BY <2>2, <3>1, <4>1, Zenon
      <3> QED
        BY <2>7, <3>1, <3>2, Zenon
    <2>10. OneVaultPerInvite'
      <3> SUFFICES ASSUME NEW w \in VaultIds, vault'[w] # None
                   PROVE  /\ drawn[w] = [token |-> vault'[w].token, setup |-> vault'[w].setup]
                          /\ invite'[vault'[w].token] \notin {None, Gone}
                          /\ invite'[vault'[w].token].consumed = w
        BY <1>0, Zenon DEF OneVaultPerInvite
      <3>1. CASE w = v
        BY <2>2, <2>6, <2>7, <3>1, EnrollmentAssumption, Zenon
      <3>2. CASE w # v
        <4>1. vault'[w] = vault[w] /\ vault[w] # None /\ vault[w].token # t
              /\ vault[w].token \in Tokens
          BY <2>1, <2>7, <3>2, EnrollmentFacts, Zenon DEF Vaults
        <4> QED
          BY <2>6, <4>1, EnrollmentFacts, SMTT(30)
      <3> QED
        BY <3>1, <3>2, Zenon
    <2>11. \A x \in Clients : HeldAsDrawn(x)'
      <3>1. HeldAsDrawn(c)'
        <4>1. client[c].keys \in Keys
          BY <1>0, <1>1, Zenon DEF EnrollmentInv, HeldAsDrawn
        <4> QED
          BY <1>0, <2>2, <2>3, <2>7, <4>1, Zenon DEF HeldAsDrawn, Minted, v, t
      <3>2. ASSUME NEW x \in Clients \ {c} PROVE HeldAsDrawn(x)'
        BY <1>0, <2>1, <2>3, <2>7, HeldKept, Zenon
      <3> QED
        BY <3>1, <3>2, Zenon
    <2> QED
      BY <2>8, <2>9, <2>10, <2>11, Zenon DEF EnrollmentInv
  <1> QED
    BY <1>2, <1>3, Zenon

(* A restart provisions the file's invitation only where there is no row,  *)
(* and a finish it interrupts is one whose answer was lost.                *)
LEMMA EnrollmentRestartKeeps ==
    ASSUME EnrollmentInv, EnrollmentRestart
    PROVE  EnrollmentInv'
  <1>0. /\ EnrollmentTypes /\ UNCHANGED <<now, pending, drawn, vault>>
        /\ published' \subseteq VaultIds
    BY Zenon DEF EnrollmentRestart, LoadVaults, EnrollmentInv
  <1>1. Invitation(now, FileWindow) \in Invitations
    BY <1>0, EnrollmentAssumption DEF EnrollmentTypes, Invitation, Invitations
  <1>2. /\ invite' \in [Tokens -> Invitations \union {None, Gone}]
        /\ \A t \in Tokens : invite[t] \notin {None, Gone} => invite'[t] = invite[t]
    BY <1>0, <1>1, Zenon DEF EnrollmentTypes, EnrollmentRestart, provisionEnrollmentInvite
  <1>3. ASSUME NEW c \in Clients
        PROVE  client'[c] \in Enrollees \union {Idle} /\ HeldAsDrawn(c)'
    <2>1. CASE client[c].step \in {"loaded", "created"}
      <3>1. client[c] \in Enrollees /\ client[c] # Idle
        BY <2>1, ActiveClient, Zenon DEF FinishSteps
      <3>2. client'[c] = [client[c] EXCEPT !.step = "proposed"]
        BY <2>1, Zenon DEF EnrollmentRestart
      <3>3. /\ client'[c] \in Enrollees /\ client'[c].step = "proposed"
            /\ client'[c].token = client[c].token /\ client'[c].vault = client[c].vault
            /\ client'[c].setup = client[c].setup /\ client'[c].keys = client[c].keys
        BY <3>1, <3>2, Zenon DEF Enrollees, FinishSteps
      <3>4. HeldAsDrawn(c)
        BY Zenon DEF EnrollmentInv
      <3> QED
        BY <1>0, <2>1, <3>1, <3>3, <3>4, Zenon DEF HeldAsDrawn, FinishSteps
    <2>2. CASE client[c].step \notin {"loaded", "created"}
      <3>1. client'[c] = client[c]
        BY <2>2, Zenon DEF EnrollmentRestart
      <3> QED
        BY <1>0, <3>1, HeldKept, Zenon DEF EnrollmentTypes
    <2> QED
      BY <2>1, <2>2, Zenon
  <1>4. client' \in [Clients -> Enrollees \union {Idle}]
    BY <1>3, Zenon DEF EnrollmentRestart
  <1>5. EnrollmentTypes'
    BY <1>0, <1>2, <1>4, Zenon DEF EnrollmentTypes
  <1>6. ReservedAsDrawn'
    BY <1>0, Zenon DEF EnrollmentInv, ReservedAsDrawn
  <1>7. OneVaultPerInvite'
    BY <1>0, <1>2, EnrollmentFacts, Zenon DEF OneVaultPerInvite, Vaults
  <1> QED
    BY <1>3, <1>5, <1>6, <1>7, Zenon DEF EnrollmentInv

(* Every step of the enrollment service keeps its invariant.               *)
LEMMA EnrollmentStep ==
    ASSUME EnrollmentInv, EnrollmentNext
    PROVE  EnrollmentInv'
  <1>0. published \subseteq VaultIds
    BY Zenon DEF EnrollmentInv, EnrollmentTypes
  <1>1. ASSUME NEW c \in Clients, EnrollmentRoutes(c) PROVE EnrollmentInv'
    BY <1>1, StartKeeps, ProposeKeeps, FinishKeeps, Zenon DEF EnrollmentRoutes
  <1>2. ASSUME NEW c \in Clients, publishEnrollmentAt(c) PROVE EnrollmentInv'
    <2>1. client[c] \in Enrollees /\ client[c] # Idle /\ client[c].step \in FinishSteps
      BY <1>2, ActiveClient, Zenon DEF publishEnrollmentAt, FinishSteps
    <2>2. published' \subseteq VaultIds
      BY <1>0, <1>2, <2>1, Zenon DEF publishEnrollmentAt, Enrollees
    <2>3. vault[client[c].vault] = Minted(c)
      BY <1>2, <2>1, Zenon DEF publishEnrollmentAt, EnrollmentInv, HeldAsDrawn
    <2> QED
      BY <1>2, <2>1, <2>2, <2>3, AnswerKeeps, Zenon DEF publishEnrollmentAt, FinishSteps
  <1>3. ASSUME NEW c \in Clients, ReadbackFails(c) PROVE EnrollmentInv'
    <2>1. client[c].step \in FinishSteps /\ published' \subseteq VaultIds
      BY <1>0, <1>3, Zenon DEF ReadbackFails, FinishSteps
    <2>2. vault[client[c].vault] = Minted(c)
      BY <1>3, <2>1, DuplicateIsOwn, Zenon DEF ReadbackFails
    <2> QED
      BY <1>3, <2>1, <2>2, AnswerKeeps, Zenon DEF ReadbackFails, FinishSteps
  <1>4. ASSUME NEW c \in Clients, FailFinish(c) PROVE EnrollmentInv'
    BY <1>0, <1>4, AnswerKeeps, Zenon DEF FailFinish, FinishSteps
  <1> QED
    BY <1>1, <1>2, <1>3, <1>4, IssueKeeps, CreateKeeps, Zenon DEF EnrollmentNext
-----------------------------------------------------------------------------
(* Passkey tickets.                                                        *)

(* Steps that neither issue nor spend a ticket, at any later time.         *)
LEMMA TicketsKept ==
    ASSUME TicketInv, UNCHANGED <<ticket, consumed, used>>,
           envelope' \in [VaultIds -> Envelopes \union {None}],
           now \in Nat, now' \in Nat, now <= now'
    PROVE  TicketInv'
  <1>1. TicketTypes'
    BY Zenon DEF TicketInv, TicketTypes
  <1>2. SpentRemembered'
    <2> SUFFICES ASSUME NEW t \in 1..MaxTickets
                 PROVE  /\ used[t] <= 1
                        /\ used[t] # 0 =>
                              /\ t \in 1..Len(ticket)
                              /\ \/ ticket[t] = Gone
                                 \/ ticket[t].expires <= now'
                                 \/ \E spent \in consumed : spent.ticket = t
      BY Zenon DEF SpentRemembered
    <2>1. used[t] # 0 /\ ticket[t] # Gone => ticket[t].expires \in Nat
      BY DEF TicketInv, TicketTypes, SpentRemembered, Tickets
    <2> QED
      BY <2>1 DEF TicketInv, SpentRemembered
  <1> QED
    BY <1>1, <1>2, Zenon DEF TicketInv

(* A new ticket has not been used.                                         *)
LEMMA IssueTicketKeeps ==
    ASSUME TicketInv, NEW owner \in VaultIds \union {None}, NEW purpose \in Purposes,
           issuePasskeyChallenge(owner, purpose), now \in Nat, UNCHANGED now
    PROVE  TicketInv' /\ Len(ticket) <= Len(ticket')
  <1> DEFINE fresh == [owner |-> owner, purpose |-> purpose, expires |-> now + ChallengeTTL]
  <1>1. fresh \in Tickets
    BY TicketAssumption DEF Tickets
  <1>2. /\ Len(ticket) < MaxTickets /\ ticket' = Append(ticket, fresh)
        /\ UNCHANGED <<consumed, used, envelope>>
    BY Zenon DEF issuePasskeyChallenge
  <1>3. ticket \in Seq(Tickets \union {Gone}) /\ Len(ticket) \in Nat /\ MaxTickets \in Nat
    BY TicketAssumption DEF TicketInv, TicketTypes
  <1> HIDE DEF fresh
  <1>4. /\ ticket' \in Seq(Tickets \union {Gone}) /\ Len(ticket') = Len(ticket) + 1
        /\ \A t \in 1..Len(ticket) : ticket'[t] = ticket[t]
    BY <1>1, <1>2, <1>3
  <1>5. TicketTypes'
    BY <1>2, <1>3, <1>4 DEF TicketInv, TicketTypes
  <1>6. SpentRemembered'
    BY <1>2, <1>3, <1>4 DEF TicketInv, SpentRemembered
  <1> QED
    BY <1>3, <1>4, <1>5, <1>6 DEF TicketInv

(* The claim finds the ticket unspent, and forgets only expired ones.      *)
LEMMA ConsumeKeeps ==
    ASSUME TicketInv, NEW k \in Calls, call[k].vault \in VaultIds,
           call[k].ticket \in 1..Len(ticket), consumePasskeyChallenge(k),
           now \in Nat, UNCHANGED now
    PROVE  TicketInv'
  <1> DEFINE t0 == call[k].ticket
             new == [ticket |-> t0, vault |-> call[k].vault]
  <1>0. /\ ticket[t0] # Gone /\ now < ticket[t0].expires
        /\ \A spent \in consumed : spent.ticket # t0
        /\ consumed' = {spent \in consumed : Live(spent)} \union {new}
        /\ used' = [used EXCEPT ![t0] = @ + 1]
        /\ UNCHANGED <<ticket, envelope>>
    BY Zenon DEF consumePasskeyChallenge, Claim, passkeyChallengeLocked, Authentic
  <1>1. /\ TicketTypes /\ SpentRemembered
        /\ t0 \in 1..MaxTickets /\ t0 \in 1..Len(ticket) /\ Len(ticket) \in Nat
    BY TicketAssumption, SMTT(30) DEF TicketInv, TicketTypes
  <1>2. new \in [ticket : 1..Len(ticket), vault : VaultIds] /\ new.ticket = t0
    BY <1>1, Zenon
  <1>3. \A t \in 1..Len(ticket) : ticket[t] # Gone => ticket[t].expires \in Nat
    BY <1>1 DEF TicketTypes, Tickets
  <1> HIDE DEF t0, new
  <1>4. used[t0] = 0
    BY <1>0, <1>1, <1>3 DEF SpentRemembered
  <1>5. TicketTypes'
    BY <1>0, <1>1, <1>2 DEF TicketTypes
  <1>6. SpentRemembered'
    <2> SUFFICES ASSUME NEW t \in 1..MaxTickets
                 PROVE  /\ used'[t] <= 1
                        /\ used'[t] # 0 =>
                              /\ t \in 1..Len(ticket)
                              /\ \/ ticket[t] = Gone
                                 \/ ticket[t].expires <= now
                                 \/ \E spent \in consumed' : spent.ticket = t
      BY <1>0, Zenon DEF SpentRemembered
    <2>1. CASE t = t0
      <3>1. used'[t] = 1
        BY <1>0, <1>1, <1>4, <2>1, SMTT(30) DEF TicketTypes
      <3>2. new \in consumed'
        BY <1>0, Zenon
      <3> QED
        BY <1>1, <1>2, <2>1, <3>1, <3>2, SMTT(30)
    <2>2. CASE t # t0
      <3>1. used'[t] = used[t]
        BY <1>0, <1>1, <2>2, Zenon DEF TicketTypes
      <3>2. ASSUME NEW spent \in consumed, spent.ticket = t, t \in 1..Len(ticket),
                   ticket[t] # Gone, ~(ticket[t].expires <= now)
            PROVE  spent \in consumed'
        BY <1>0, <1>3, <3>2, SMTT(30) DEF Live
      <3> QED
        BY <1>1, <3>1, <3>2, Zenon DEF SpentRemembered
    <2> QED
      BY <2>1, <2>2, Zenon
  <1> QED
    BY <1>5, <1>6, Zenon DEF TicketInv

(* A restart forgets what was spent, and with the key every ticket.        *)
LEMMA TicketRestartKeeps ==
    ASSUME TicketInv, TicketRestart
    PROVE  TicketInv' /\ Len(ticket') = Len(ticket)
  <1>0. ticket \in Seq(Tickets \union {Gone}) /\ DOMAIN ticket = 1..Len(ticket) /\ Len(ticket) \in Nat
    BY DEF TicketInv, TicketTypes
  <1>1. ticket' = [t \in 1..Len(ticket) |-> Gone]
    BY <1>0, Zenon DEF TicketRestart
  <1>2. /\ ticket' \in Seq(Tickets \union {Gone}) /\ Len(ticket') = Len(ticket)
        /\ \A t \in 1..Len(ticket) : ticket'[t] = Gone
    BY <1>0, <1>1
  <1>3. TicketTypes'
    BY <1>2, Zenon DEF TicketInv, TicketTypes, TicketRestart
  <1>4. SpentRemembered'
    BY <1>2, Zenon DEF TicketInv, SpentRemembered, TicketRestart
  <1> QED
    BY <1>2, <1>3, <1>4, Zenon DEF TicketInv
-----------------------------------------------------------------------------
(* The recovery archive.                                                   *)

(* Inserting a session pins a header that was read, or none.               *)
LEMMA InsertKeeps ==
    ASSUME ArchiveInv, NEW k \in Calls, NEW s \in Sessions, InsertSession(k, s),
           call[k].vault \in VaultIds, call[k].arg \in Headers \union {None}, now \in Nat
    PROVE  ArchiveInv'
  <1>0. /\ UNCHANGED <<backup, stored, acked>> /\ ArchiveTypes
        /\ session' = [x \in Sessions |->
                     IF x = s THEN [vault |-> call[k].vault, header |-> call[k].arg,
                                    expires |-> now + BackupTTL]
                     ELSE IF Ended(x) THEN None ELSE session[x]]
    BY Zenon DEF InsertSession, ArchiveInv
  <1>1. [vault |-> call[k].vault, header |-> call[k].arg, expires |-> now + BackupTTL]
            \in ArchiveSessions
    BY ArchiveAssumption DEF ArchiveSessions
  <1>2. session' \in [Sessions -> ArchiveSessions \union {None}]
    BY <1>0, <1>1, Zenon DEF ArchiveTypes
  <1>3. ArchiveTypes'
    BY <1>0, <1>2, Zenon DEF ArchiveTypes
  <1>4. StoredInOrder'
    BY <1>0, Zenon DEF ArchiveInv, StoredInOrder, Revision, HeaderOf
  <1> QED
    BY <1>0, <1>3, <1>4, Zenon DEF ArchiveInv

(* A read pins the stored header in the session.                           *)
LEMMA ReadKeeps ==
    ASSUME ArchiveInv, NEW s \in Sessions, ReadRecoveryArchive(s)
    PROVE  ArchiveInv'
  <1>0. /\ UNCHANGED <<backup, stored, acked>> /\ ArchiveTypes
        /\ session[s] \in ArchiveSessions
        /\ session' = [session EXCEPT ![s].header = PinnedHeader(s)]
    BY Zenon DEF ReadRecoveryArchive, ArchiveInv, ArchiveTypes, verifiedArchiveSessionLocked,
           backupSessionLocked
  <1>1. PinnedHeader(s) \in Headers \union {None}
    BY <1>0, Zenon DEF PinnedHeader, HeaderOf, ArchiveTypes, ArchiveSessions, Archives, Payloads
  <1>2. [session[s] EXCEPT !.header = PinnedHeader(s)] \in ArchiveSessions
    BY <1>0, <1>1, Zenon DEF ArchiveSessions
  <1>3. ArchiveTypes'
    BY <1>0, <1>2, Zenon DEF ArchiveTypes
  <1>4. StoredInOrder'
    BY <1>0, Zenon DEF ArchiveInv, StoredInOrder, Revision, HeaderOf
  <1> QED
    BY <1>0, <1>3, <1>4, Zenon DEF ArchiveInv

(* A write is stored over the revision it names, under the stored header,  *)
(* or is the exact retry of the write that is stored.                      *)
LEMMA WriteKeeps ==
    ASSUME ArchiveInv, NEW s \in Sessions, NEW n \in 0..(MaxRevision - 1),
           NEW p \in Payloads, WriteRecoveryArchive(s, n, p)
    PROVE  ArchiveInv'
  <1>a. session[s] \in ArchiveSessions
    BY Zenon DEF WriteRecoveryArchive, ArchiveInv, ArchiveTypes, verifiedArchiveSessionLocked,
           backupSessionLocked
  <1>b. PICK v \in VaultIds : v = session[s].vault
    BY <1>a, Zenon DEF ArchiveSessions
  <1> DEFINE a == [revision |-> n + 1, payload |-> p]
             r == [vault |-> v, revision |-> n + 1, payload |-> p]
  <1>0. /\ ArchiveTypes /\ StoredInOrder /\ acked \subseteq stored
        /\ session' = [session EXCEPT ![s].header = p.header]
        /\ acked' = acked \union {r}
        /\ PinnedHeader(s) \in {None, p.header}
        /\ PutRecoveryBackup(v, n, p)
        /\ p.header \in Headers
    BY <1>b, Zenon DEF WriteRecoveryArchive, ArchiveInv, Record, Payloads
  <1>1. n \in Nat /\ n + 1 \in Nat
    BY ArchiveAssumption
  <1>2. [session[s] EXCEPT !.header = p.header] \in ArchiveSessions
    BY <1>a, <1>0, Zenon DEF ArchiveSessions
  <1>3. session' \in [Sessions -> ArchiveSessions \union {None}]
    BY <1>0, <1>2, Zenon DEF ArchiveTypes
  <1>4. CASE ExactRetry(v, n, p)
    <2>1. UNCHANGED <<backup, stored>>
      BY <1>0, <1>4, Zenon DEF PutRecoveryBackup
    <2>2. r \in stored
      BY <1>0, <1>4, Zenon DEF ExactRetry, Revision, StoredInOrder
    <2>3. StoredInOrder'
      BY <1>0, <2>1, Zenon DEF StoredInOrder, Revision, HeaderOf
    <2> QED
      BY <1>0, <1>3, <2>1, <2>2, <2>3, Zenon DEF ArchiveInv, ArchiveTypes
  <1>5. CASE ~ExactRetry(v, n, p)
    <2>1. /\ Revision(v) = n /\ backup' = [backup EXCEPT ![v] = a]
          /\ stored' = stored \union {r}
      BY <1>0, <1>5, Zenon DEF PutRecoveryBackup, Record
    <2>2. a \in Archives /\ a # None /\ r \in Writes
      BY <1>0, <1>1, ArchiveAssumption DEF Archives, Writes
    <2>3. /\ a.revision = n + 1 /\ a.payload = p
          /\ r.vault = v /\ r.revision = n + 1 /\ r.payload = p
      BY Zenon
    <2>4. [vault |-> v, revision |-> a.revision, payload |-> a.payload] = r
      BY Zenon
    <2> HIDE DEF a, r
    <2>5. /\ backup' \in [VaultIds -> Archives \union {None}]
          /\ backup'[v] = a /\ \A w \in VaultIds \ {v} : backup'[w] = backup[w]
      BY <1>0, <2>1, <2>2, Zenon DEF ArchiveTypes
    <2>6. ArchiveTypes'
      BY <1>0, <1>3, <2>1, <2>2, <2>5, Zenon DEF ArchiveTypes
    <2>7. /\ Revision(v)' = n + 1 /\ HeaderOf(v)' = p.header
          /\ \A w \in VaultIds \ {v} : Revision(w)' = Revision(w) /\ HeaderOf(w)' = HeaderOf(w)
      BY <2>2, <2>3, <2>5, Zenon DEF Revision, HeaderOf
    <2>8. backup[v] # None => HeaderOf(v) = p.header
      <3>1. backup[v] # None => HeaderOf(v) \in Headers
        BY <1>0, Zenon DEF HeaderOf, ArchiveTypes, Archives, Payloads
      <3> QED
        BY <1>b, <1>0, <3>1, ArchiveAssumption, Zenon DEF PinnedHeader
    <2>9. \A x \in stored : x \in Writes /\ x.vault \in VaultIds /\ x.revision \in Nat
      BY <1>0, Zenon DEF ArchiveTypes, Writes
    <2>10. \A x \in stored : x.vault = v =>
               x.revision < n + 1 /\ x.payload.header = p.header
      BY <1>0, <1>1, <2>1, <2>8, <2>9 DEF StoredInOrder
    <2>11. ASSUME NEW x \in stored'
           PROVE  /\ backup'[x.vault] # None /\ x.revision <= Revision(x.vault)'
                  /\ x.payload.header = HeaderOf(x.vault)'
      <3>1. CASE x = r
        BY <1>1, <2>2, <2>3, <2>5, <2>7, <3>1
      <3>2. CASE x \in stored /\ x.vault = v
        BY <1>1, <2>2, <2>5, <2>7, <2>9, <2>10, <3>2, SMTT(30)
      <3>3. CASE x \in stored /\ x.vault # v
        BY <1>0, <2>5, <2>7, <2>9, <3>3, Zenon DEF StoredInOrder
      <3> QED
        BY <2>1, <3>1, <3>2, <3>3, Zenon
    <2>12. ASSUME NEW w \in VaultIds, backup'[w] # None
           PROVE  [vault |-> w, revision |-> backup'[w].revision,
                   payload |-> backup'[w].payload] \in stored'
      <3>1. CASE w = v
        BY <2>1, <2>4, <2>5, <3>1, Zenon
      <3>2. CASE w # v
        BY <1>0, <2>1, <2>5, <2>12, <3>2, Zenon DEF StoredInOrder
      <3> QED
        BY <3>1, <3>2, Zenon
    <2>13. ASSUME NEW x \in stored', NEW y \in stored',
                  x.vault = y.vault, x.revision = y.revision
           PROVE  x = y
      <3>1. CASE x \in stored /\ y \in stored
        BY <1>0, <2>13, <3>1, Zenon DEF StoredInOrder
      <3>2. CASE x = r \/ y = r
        BY <1>1, <2>1, <2>3, <2>9, <2>10, <2>13, <3>2
      <3> QED
        BY <2>1, <3>1, <3>2, Zenon
    <2>14. StoredInOrder'
      BY <2>11, <2>12, <2>13, Zenon DEF StoredInOrder
    <2> QED
      BY <1>0, <2>1, <2>6, <2>14, Zenon DEF ArchiveInv
  <1> QED
    BY <1>4, <1>5, Zenon

(* Losing the sessions loses nothing that was stored.                      *)
LEMMA ArchiveKept ==
    ASSUME ArchiveInv, UNCHANGED <<backup, stored, acked>>,
           session' \in [Sessions -> ArchiveSessions \union {None}]
    PROVE  ArchiveInv'
  <1>1. ArchiveTypes'
    BY Zenon DEF ArchiveInv, ArchiveTypes
  <1>2. StoredInOrder'
    BY Zenon DEF ArchiveInv, StoredInOrder, Revision, HeaderOf
  <1> QED
    BY <1>1, <1>2, Zenon DEF ArchiveInv
-----------------------------------------------------------------------------
(* Savings recovery.                                                       *)

(* The latest event of a coin is an event of the journal about that coin.  *)
LEMMA ExistingFacts ==
    ASSUME SavingsInv, NEW v \in VaultIds, NEW coin \in Coins
    PROVE  /\ EventsOf(v, coin) = {} => Existing(v, coin) = None
           /\ EventsOf(v, coin) # {} =>
                 \E i \in EventsOf(v, coin) :
                    /\ Existing(v, coin) = journal[i] /\ i \in DOMAIN journal
                    /\ journal[i] \in Events
                    /\ journal[i].vault = v /\ journal[i].candidate.coin = coin
  <1>1. ASSUME EventsOf(v, coin) # {}
        PROVE  Max(EventsOf(v, coin)) \in EventsOf(v, coin)
    BY <1>1, Zenon DEF SavingsInv, LatestEvent, Max
  <1>2. \A i \in DOMAIN journal : journal[i] \in Events
    BY DEF SavingsInv, SavingsTypes
  <1> QED
    BY <1>1, <1>2, Zenon DEF Existing, EventsOf

(* The same, told by the value.                                            *)
LEMMA ExistingEvent ==
    ASSUME SavingsInv, NEW v \in VaultIds, NEW coin \in Coins, Existing(v, coin) # None
    PROVE  /\ Existing(v, coin) \in Events /\ EventsOf(v, coin) # {}
           /\ Existing(v, coin).vault = v /\ Existing(v, coin).candidate.coin = coin
           /\ \E i \in DOMAIN journal : journal[i] = Existing(v, coin)
  BY ExistingFacts

(* Appending an event makes it the latest of its coin, and of no other.    *)
LEMMA AppendEffect ==
    ASSUME SavingsInv, NEW e \in Events, journal' = Append(journal, e)
    PROVE  /\ journal' \in Seq(Events)
           /\ DOMAIN journal' = DOMAIN journal \union {Len(journal) + 1}
           /\ \A i \in DOMAIN journal : journal'[i] = journal[i]
           /\ journal'[Len(journal) + 1] = e
           /\ \A v \in VaultIds, coin \in Coins :
                 /\ LatestEvent(v, coin)'
                 /\ IF v = e.vault /\ coin = e.candidate.coin
                    THEN Existing(v, coin)' = e
                    ELSE Existing(v, coin)' = Existing(v, coin)
  <1> DEFINE last == Len(journal) + 1
  <1>0. journal \in Seq(Events) /\ Len(journal) \in Nat /\ DOMAIN journal = 1..Len(journal)
    BY DEF SavingsInv, SavingsTypes
  <1>1. /\ journal' \in Seq(Events) /\ DOMAIN journal' = DOMAIN journal \union {last}
        /\ \A i \in DOMAIN journal : journal'[i] = journal[i]
        /\ journal'[last] = e /\ last \notin DOMAIN journal
    BY <1>0
  <1>2. ASSUME NEW v \in VaultIds, NEW coin \in Coins
        PROVE  /\ LatestEvent(v, coin)'
               /\ IF v = e.vault /\ coin = e.candidate.coin
                  THEN Existing(v, coin)' = e
                  ELSE Existing(v, coin)' = Existing(v, coin)
    <2>1. CASE v = e.vault /\ coin = e.candidate.coin
      <3>1. EventsOf(v, coin)' = EventsOf(v, coin) \union {last}
        BY <1>1, <2>1, Zenon DEF EventsOf
      <3>2. \A j \in EventsOf(v, coin) : j < last /\ j \in Nat
        BY <1>0 DEF EventsOf
      <3> DEFINE es == EventsOf(v, coin)'
      <3>3. /\ last \in es /\ last \in Nat /\ \A j \in es : last >= j /\ j \in Nat
        BY <1>0, <3>1, <3>2
      <3> HIDE DEF es, last
      <3>4. Max(es) = last
        <4>1. \A x \in es : (\A j \in es : x >= j) => x = last
          BY <3>3
        <4>2. /\ Max(es) \in es /\ \A j \in es : Max(es) >= j
          BY <3>3, Zenon DEF Max
        <4> QED BY <4>1, <4>2, Zenon
      <3>5. Existing(v, coin)' = journal'[Max(es)]
        BY <3>3, Zenon DEF Existing, es
      <3>6. LatestEvent(v, coin)'
        BY <3>3, Zenon DEF LatestEvent, es
      <3> QED
        BY <1>1, <2>1, <3>4, <3>5, <3>6, Zenon
    <2>2. CASE ~(v = e.vault /\ coin = e.candidate.coin)
      <3>1. EventsOf(v, coin)' = EventsOf(v, coin)
        BY <1>1, <2>2, Zenon DEF EventsOf
      <3>2. LatestEvent(v, coin)'
        BY <3>1, Zenon DEF SavingsInv, LatestEvent
      <3>3. ASSUME EventsOf(v, coin) # {}
            PROVE  Max(EventsOf(v, coin)) \in DOMAIN journal
        <4>1. Max(EventsOf(v, coin)) \in EventsOf(v, coin)
          BY <3>3, Zenon DEF SavingsInv, LatestEvent, Max
        <4> QED BY <4>1, Zenon DEF EventsOf
      <3>4. Existing(v, coin)' = Existing(v, coin)
        BY <1>1, <3>1, <3>3, Zenon DEF Existing
      <3> QED
        BY <2>2, <3>2, <3>4, Zenon
    <2> QED
      BY <2>1, <2>2, Zenon
  <1> QED
    BY <1>1, <1>2, Zenon

(* Whether an event is signed is a Boolean.                                *)
LEMMA EventShape ==
    ASSUME NEW e \in Events
    PROVE  /\ e.vault \in VaultIds /\ e.candidate \in Candidates /\ e.candidate.coin \in Coins
           /\ e.signed \in BOOLEAN
           /\ e.signed => e = [vault |-> e.vault, candidate |-> e.candidate, signed |-> TRUE]
           /\ ~e.signed => e = [vault |-> e.vault, candidate |-> e.candidate, signed |-> FALSE]
  <1>1. e = [vault |-> e.vault, candidate |-> e.candidate, signed |-> e.signed]
    BY Zenon DEF Events
  <1>2. e.signed \in BOOLEAN
    BY Zenon DEF Events
  <1>3. e.vault \in VaultIds /\ e.candidate \in Candidates /\ e.candidate.coin \in Coins
    BY Zenon DEF Events, Candidates
  <1>4. (e.signed => e.signed = TRUE) /\ (~e.signed => e.signed = FALSE)
    BY <1>2, Zenon
  <1> QED
    BY <1>1, <1>2, <1>3, <1>4, Zenon

(* The event that stands for a candidate: the coin's latest event, or a    *)
(* new one to the same destination that completes an unsigned reservation  *)
(* only with its exact candidate.                                          *)
LEMMA ApplyEffect ==
    ASSUME SavingsInv, NEW v \in VaultIds, NEW c \in Candidates, NEW signed \in BOOLEAN,
           ApplyLedgerSavingsRecovery(v, c, signed) # None
    PROVE  LET event == ApplyLedgerSavingsRecovery(v, c, signed)
               e == Existing(v, c.coin)
           IN  /\ event \in Events /\ event.vault = v /\ event.candidate.coin = c.coin
               /\ e # None => Dest(e.candidate) = Dest(event.candidate)
               /\ event # e =>
                     /\ event = [vault |-> v, candidate |-> c, signed |-> signed]
                     /\ e # None /\ ~e.signed => signed /\ e.candidate = c
  <1> DEFINE event == ApplyLedgerSavingsRecovery(v, c, signed)
             e == Existing(v, c.coin)
             action == DecideReplay(e, c, signed)
             exact == action = "resign" /\ ~e.signed /\ ~signed /\ ~Differs(e, c)
             new == [vault |-> v, candidate |-> c, signed |-> signed]
  <1>0. c.coin \in Coins
    BY Zenon DEF Candidates
  <1>1. /\ action # "refuse" /\ ~(signed /\ (e = None \/ e.candidate # c))
        /\ event = IF action = "replay" \/ exact THEN e ELSE new
    BY Zenon DEF ApplyLedgerSavingsRecovery
  <1>2. /\ new \in Events /\ new.vault = v /\ new.candidate = c
    BY Zenon DEF Events
  <1>3. e # None => /\ e \in Events /\ e.vault = v /\ e.candidate.coin = c.coin
    BY <1>0, ExistingEvent
  <1>4. e # None => ~SecondDest(e, c) /\ ~Busy(e, c, signed)
    BY <1>1, Zenon DEF DecideReplay
  <1>5. action = "replay" => e # None
    BY Zenon DEF DecideReplay
  <1>6. exact => e # None
    BY Zenon DEF DecideReplay
  <1>7. ASSUME e # None, ~e.signed, ~signed PROVE exact
    BY <1>1, <1>4, <1>7, Zenon DEF DecideReplay, Busy
  <1> HIDE DEF event, e, action, exact, new
  <1>8. event = e \/ event = new
    BY <1>1, Zenon
  <1>9. event \in Events /\ event.vault = v /\ event.candidate.coin = c.coin
    BY <1>1, <1>2, <1>3, <1>5, <1>6, Zenon
  <1>10. e # None => Dest(e.candidate) = Dest(event.candidate)
    BY <1>2, <1>4, <1>8, Zenon DEF SecondDest
  <1>11. ASSUME event # e, e # None, ~e.signed PROVE signed /\ e.candidate = c
    BY <1>1, <1>7, <1>11, Zenon
  <1> QED
    BY <1>8, <1>9, <1>10, <1>11, Zenon DEF event, e, new

(* Whatever the journal records stays recorded when it is given the event  *)
(* that stands for a candidate, and so does the coins' one destination.    *)
LEMMA JournalKept ==
    ASSUME SavingsInv, NEW v \in VaultIds, NEW c \in Candidates, NEW signed \in BOOLEAN,
           NEW event, event = ApplyLedgerSavingsRecovery(v, c, signed), event # None,
           AppendEvent(v, event)
    PROVE  /\ journal' \in Seq(Events)
           /\ \A w \in VaultIds, coin \in Coins : LatestEvent(w, coin)'
           /\ OneDestinationRecorded'
           /\ \A w \in VaultIds, d \in Candidates : Recorded(w, d) => Recorded(w, d)'
           /\ ~event.signed => Recorded(v, event.candidate)'
  <1>0. c.coin \in Coins
    BY Zenon DEF Candidates
  <1>1. PICK e : e = Existing(v, c.coin)
    BY Zenon
  <1>2. /\ event \in Events /\ event.vault = v /\ event.candidate.coin = c.coin
        /\ e # None => Dest(e.candidate) = Dest(event.candidate)
        /\ event # e =>
              /\ event = [vault |-> v, candidate |-> c, signed |-> signed]
              /\ e # None /\ ~e.signed => signed /\ e.candidate = c
    BY <1>1, ApplyEffect
  <1>3. CASE event = e
    <2>1. UNCHANGED journal
      BY <1>1, <1>2, <1>3, Zenon DEF AppendEvent
    <2>2. \A w, d : Recorded(w, d)' = Recorded(w, d)
      BY <2>1 DEF Recorded, Existing, EventsOf
    <2>3. ~event.signed => Recorded(v, event.candidate)
      BY <1>1, <1>2, <1>3, EventShape, Zenon DEF Recorded
    <2>4. OneDestinationRecorded'
      BY <2>1 DEF SavingsInv, OneDestinationRecorded
    <2>5. \A w \in VaultIds, coin \in Coins : LatestEvent(w, coin)'
      BY <2>1 DEF SavingsInv, LatestEvent, EventsOf
    <2> QED
      BY <2>1, <2>2, <2>3, <2>4, <2>5, Zenon DEF SavingsInv, SavingsTypes
  <1>4. CASE event # e
    <2>1. journal' = Append(journal, event)
      BY <1>1, <1>2, <1>4, Zenon DEF AppendEvent
    <2>2. /\ journal' \in Seq(Events)
          /\ DOMAIN journal' = DOMAIN journal \union {Len(journal) + 1}
          /\ \A i \in DOMAIN journal : journal'[i] = journal[i]
          /\ journal'[Len(journal) + 1] = event
          /\ \A w \in VaultIds, coin \in Coins :
                /\ LatestEvent(w, coin)'
                /\ IF w = event.vault /\ coin = event.candidate.coin
                   THEN Existing(w, coin)' = event
                   ELSE Existing(w, coin)' = Existing(w, coin)
      BY <1>2, <2>1, AppendEffect, Zenon
    <2>3. ASSUME NEW w \in VaultIds, NEW d \in Candidates, Recorded(w, d)
          PROVE  Recorded(w, d)'
      <3>0. d.coin \in Coins
        BY Zenon DEF Candidates
      <3>1. CASE [vault |-> w, candidate |-> d, signed |-> TRUE]
                     \in {journal[i] : i \in DOMAIN journal}
        BY <2>2, <3>1 DEF Recorded
      <3>2. CASE /\ Existing(w, d.coin) = [vault |-> w, candidate |-> d, signed |-> FALSE]
                 /\ w = v /\ d.coin = c.coin
        <4>1. e = [vault |-> v, candidate |-> d, signed |-> FALSE]
          BY <1>1, <3>2, Zenon
        <4>2. e \in Events /\ e # None /\ ~e.signed /\ e.candidate = d
          <5>1. e \in Events
            BY <4>1, Zenon DEF Events
          <5>2. e.signed = FALSE /\ e.candidate = d
            BY <4>1, Zenon
          <5> QED BY <5>1, <5>2, SavingsAssumption, Zenon
        <4>3. signed /\ d = c
          BY <1>2, <1>4, <4>2, Zenon
        <4>4. event = [vault |-> w, candidate |-> d, signed |-> TRUE]
          <5>1. signed = TRUE
            BY <4>3, Zenon
          <5> QED BY <1>2, <1>4, <3>2, <4>3, <5>1, Zenon
        <4> QED
          BY <2>2, <4>4, SMTT(30) DEF Recorded
      <3>3. CASE /\ Existing(w, d.coin) = [vault |-> w, candidate |-> d, signed |-> FALSE]
                 /\ ~(w = v /\ d.coin = c.coin)
        BY <1>2, <2>2, <3>0, <3>3, Zenon DEF Recorded
      <3> QED
        BY <2>3, <3>1, <3>2, <3>3, Zenon DEF Recorded
    <2>4. ~event.signed => Recorded(v, event.candidate)'
      <3>1. Existing(v, event.candidate.coin)' = event
        BY <1>0, <1>2, <2>2, Zenon
      <3> QED
        BY <1>2, <3>1, EventShape, Zenon DEF Recorded
    <2>5. OneDestinationRecorded'
      <3>1. ASSUME NEW i \in DOMAIN journal, journal[i].vault = v,
                   journal[i].candidate.coin = c.coin
            PROVE  Dest(journal[i].candidate) = Dest(event.candidate)
        <4>1. i \in EventsOf(v, c.coin)
          BY <3>1, Zenon DEF EventsOf
        <4>2. PICK j \in DOMAIN journal :
                 journal[j] = e /\ e \in Events /\ e.vault = v /\ e.candidate.coin = c.coin
          BY <1>0, <1>1, <4>1, ExistingFacts, SMTT(30)
        <4>3. e # None
          BY <4>2, SavingsAssumption, Zenon
        <4> QED
          BY <1>2, <3>1, <4>2, <4>3, Zenon DEF SavingsInv, OneDestinationRecorded
      <3> QED
        BY <1>2, <2>2, <3>1, SMTT(30) DEF SavingsInv, OneDestinationRecorded
    <2> QED
      BY <2>2, <2>3, <2>4, <2>5, Zenon
  <1> QED
    BY <1>3, <1>4, Zenon

(* What every step does to the journal, and to the number of tickets.      *)
JournalMove ==
    /\ journal' \in Seq(Events)
    /\ \A v \in VaultIds, coin \in Coins : LatestEvent(v, coin)'
    /\ OneDestinationRecorded'
    /\ \A v \in VaultIds, c \in Candidates : Recorded(v, c) => Recorded(v, c)'

TicketsGrow ==
    Len(ticket) \in Nat /\ Len(ticket') \in Nat /\ Len(ticket) <= Len(ticket')

(* A journal that does not change records what it recorded.               *)
LEMMA JournalSame == ASSUME SavingsInv, UNCHANGED journal PROVE JournalMove
  <1>1. OneDestinationRecorded'
    BY Zenon DEF SavingsInv, OneDestinationRecorded
  <1>2. \A v \in VaultIds, coin \in Coins : LatestEvent(v, coin)'
    BY DEF SavingsInv, LatestEvent, EventsOf
  <1>3. \A v, c : Recorded(v, c)' = Recorded(v, c)
    BY DEF Recorded, Existing, EventsOf
  <1> QED
    BY <1>1, <1>2, <1>3, Zenon DEF JournalMove, SavingsInv, SavingsTypes

(* Steps that issue nothing leave the number of tickets.                  *)
LEMMA TicketsSame == ASSUME TicketInv, UNCHANGED ticket PROVE TicketsGrow
  BY DEF TicketInv, TicketTypes, TicketsGrow

(* A call in a step is not idle.                                           *)
LEMMA ActiveCall ==
    ASSUME SavingsInv, NEW k \in Calls, call[k].step \in CallSteps
    PROVE  call[k] \in CallRecords /\ call[k] # Idle
  BY TicketAssumption DEF SavingsInv, SavingsTypes, Idle

(* A call's entry, told by its value.                                      *)
LEMMA EntryHolds ==
    ASSUME NEW k \in Calls, NEW r, call'[k] = r,
           r # Idle =>
              /\ r.step = "verified" => r.ticket \in 1..Len(ticket')
              /\ r.step = "install" => r.purpose = "install"
              /\ r.step = "opening" => r.arg \in Headers \union {None}
              /\ r.step = "reserved" \/ r.step = "signed" =>
                    r.purpose = "transition" /\ Recorded(r.vault, r.arg)'
              /\ r.purpose = "install" => r.arg \in Envelopes
              /\ r.purpose = "transition" => r.arg \in Candidates
    PROVE  CallHolds(k)'
  <1>1. Recorded(call[k].vault, call[k].arg)' <=> Recorded(r.vault, r.arg)'
    BY Zenon DEF Recorded, Existing, EventsOf
  <1>2. Idle' = Idle
    BY Zenon DEF Idle
  <1> QED
    BY <1>1, <1>2, Zenon DEF CallHolds, At

(* A call that does not move still holds what it needs.                   *)
LEMMA CallStays ==
    ASSUME SavingsInv, JournalMove, TicketsGrow, NEW k \in Calls, call'[k] = call[k]
    PROVE  CallHolds(k)'
  <1>1. PICK r : r = call[k]
    BY Zenon
  <1>2. Recorded(call[k].vault, call[k].arg) <=> Recorded(r.vault, r.arg)
    BY <1>1, Zenon
  <1>3. r # Idle =>
              /\ r.vault \in VaultIds
              /\ r.step = "verified" => r.ticket \in 1..Len(ticket)
              /\ r.step = "install" => r.purpose = "install"
              /\ r.step = "opening" => r.arg \in Headers \union {None}
              /\ r.step = "reserved" \/ r.step = "signed" =>
                    r.purpose = "transition" /\ Recorded(r.vault, r.arg)
              /\ r.purpose = "install" => r.arg \in Envelopes
              /\ r.purpose = "transition" => r.arg \in Candidates
    BY <1>1, <1>2, Zenon DEF SavingsInv, SavingsTypes, CallHolds, At, CallRecords
  <1>4. \A n \in 1..Len(ticket) : n \in 1..Len(ticket')
    BY DEF TicketsGrow
  <1> QED
    BY <1>1, <1>3, <1>4, EntryHolds, Zenon DEF JournalMove

(* Steps that leave the calls alone.                                       *)
LEMMA CallsKept ==
    ASSUME SavingsInv, JournalMove, TicketsGrow, UNCHANGED <<call, signatures>>
    PROVE  SavingsInv'
  <1>1. \A k \in Calls : CallHolds(k)'
    BY CallStays, Zenon
  <1>2. SavingsTypes'
    BY Zenon DEF SavingsInv, SavingsTypes, JournalMove, CallRecords, Idle
  <1>3. NoUnrecordedSignature'
    BY Zenon DEF SavingsInv, SavingsTypes, NoUnrecordedSignature, JournalMove
  <1> QED
    BY <1>1, <1>2, <1>3, Zenon DEF SavingsInv, JournalMove

(* Steps that move one call.                                               *)
LEMMA CallMoves ==
    ASSUME SavingsInv, JournalMove, TicketsGrow, NEW k \in Calls,
           NEW r \in CallRecords \union {Idle}, call' = [call EXCEPT ![k] = r],
           CallHolds(k)',
           signatures' \subseteq [vault : VaultIds, candidate : Candidates],
           \A s \in signatures' : s \in signatures \/ Recorded(s.vault, s.candidate)
    PROVE  SavingsInv'
  <1>0. call \in [Calls -> CallRecords \union {Idle}]
    BY Zenon DEF SavingsInv, SavingsTypes
  <1>1. \A x \in Calls : CallHolds(x)'
    BY <1>0, CallStays, Zenon
  <1>2. call' \in [Calls -> CallRecords \union {Idle}]
    BY <1>0, Zenon
  <1>3. SavingsTypes'
    BY <1>2, Zenon DEF SavingsTypes, JournalMove, CallRecords, Idle
  <1>4. NoUnrecordedSignature'
    <2> SUFFICES ASSUME NEW s \in signatures' PROVE Recorded(s.vault, s.candidate)'
      BY Zenon DEF NoUnrecordedSignature
    <2>1. s.vault \in VaultIds /\ s.candidate \in Candidates
      BY Zenon
    <2> QED
      BY <2>1, Zenon DEF SavingsInv, NoUnrecordedSignature, JournalMove
  <1> QED
    BY <1>1, <1>3, <1>4, Zenon DEF SavingsInv, JournalMove

(* A call that returns holds nothing.                                      *)
LEMMA ReturnKeeps ==
    ASSUME SavingsInv, JournalMove, TicketsGrow, NEW k \in Calls, Return(k),
           UNCHANGED signatures
    PROVE  SavingsInv'
  <1>0. call \in [Calls -> CallRecords \union {Idle}] /\ call' = [call EXCEPT ![k] = Idle]
    BY Zenon DEF SavingsInv, SavingsTypes, Return
  <1>1. CallHolds(k)'
    BY <1>0, EntryHolds, Zenon DEF Idle
  <1> QED
    BY <1>0, <1>1, CallMoves, Zenon DEF SavingsInv, SavingsTypes, NoUnrecordedSignature, Idle

(* Moving on keeps what a call carries.                                    *)
LEMMA GoToEffect ==
    ASSUME SavingsInv, NEW k \in Calls, call[k] \in CallRecords,
           NEW step \in CallSteps, GoTo(k, step)
    PROVE  \E r \in CallRecords :
              /\ call' = [call EXCEPT ![k] = r] /\ call'[k] = r /\ r # Idle
              /\ r.step = step /\ r.ticket = call[k].ticket /\ r.vault = call[k].vault
              /\ r.purpose = call[k].purpose /\ r.arg = call[k].arg
  <1>1. PICK r : r = [call[k] EXCEPT !.step = step]
    BY Zenon
  <1>2. call' = [call EXCEPT ![k] = r]
    BY <1>1, Zenon DEF GoTo
  <1>3. /\ r \in CallRecords /\ r.step = step /\ r.ticket = call[k].ticket
        /\ r.vault = call[k].vault /\ r.purpose = call[k].purpose /\ r.arg = call[k].arg
    BY <1>1, Zenon DEF CallRecords
  <1>4. r # Idle
    BY <1>3, TicketAssumption, SMTT(30) DEF Idle
  <1>5. call'[k] = r
    BY <1>2, Zenon DEF SavingsInv, SavingsTypes
  <1> QED
    BY <1>2, <1>3, <1>4, <1>5, Zenon

(* A call moves on only with what its next step needs.                    *)
LEMMA GoToKeeps ==
    ASSUME SavingsInv, JournalMove, TicketsGrow, NEW k \in Calls, call[k].step \in CallSteps,
           NEW step \in {"authenticated", "install", "signed"}, GoTo(k, step),
           step = "install" => call[k].purpose = "install",
           step = "signed" => call[k].step = "reserved",
           signatures' \subseteq [vault : VaultIds, candidate : Candidates],
           \A s \in signatures' : s \in signatures \/ Recorded(s.vault, s.candidate)
    PROVE  SavingsInv'
  <1>0. call[k] \in CallRecords /\ call[k] # Idle /\ CallHolds(k)
    BY ActiveCall, Zenon DEF SavingsInv
  <1>1. PICK r \in CallRecords :
              /\ call' = [call EXCEPT ![k] = r] /\ call'[k] = r /\ r # Idle
              /\ r.step = step /\ r.ticket = call[k].ticket /\ r.vault = call[k].vault
              /\ r.purpose = call[k].purpose /\ r.arg = call[k].arg
    BY <1>0, GoToEffect, SMTT(30) DEF CallSteps
  <1>2. /\ r.purpose = "install" => r.arg \in Envelopes
        /\ r.purpose = "transition" => r.arg \in Candidates
    BY <1>0, <1>1, Zenon DEF CallHolds
  <1>3. step = "signed" => r.purpose = "transition" /\ Recorded(r.vault, r.arg)'
    <2>1. step = "signed" => r.purpose = "transition" /\ Recorded(r.vault, r.arg)
      BY <1>0, <1>1, Zenon DEF CallHolds, At
    <2> QED
      BY <1>2, <2>1, Zenon DEF JournalMove, CallRecords
  <1>4. CallHolds(k)'
    BY <1>1, <1>2, <1>3, EntryHolds, Zenon
  <1> QED
    BY <1>1, <1>4, CallMoves, Zenon
-----------------------------------------------------------------------------
(* The steps of the process.                                               *)

(* What the services that leave enrollment and the clock alone rely on.    *)
LEMMA Settled ==
    ASSUME AccessInv, UNCHANGED <<now, enrollmentVars>>
    PROVE  /\ EnrollmentInv' /\ now \in Nat /\ now' = now
           /\ EnrollmentInv /\ TicketInv /\ ArchiveInv /\ SavingsInv
  BY EnrollmentKept DEF AccessInv, EnrollmentInv, EnrollmentTypes, enrollmentVars

(* Steps that change neither tickets nor what is spent.                    *)
LEMMA SettledTickets ==
    ASSUME AccessInv, UNCHANGED <<now, enrollmentVars>>,
           UNCHANGED <<ticket, consumed, used, envelope>>
    PROVE  TicketInv' /\ TicketsGrow
  BY Settled, TicketsKept, TicketsSame, SMTT(30) DEF TicketInv, TicketTypes

(* Steps that store no archive.                                            *)
LEMMA SettledArchive ==
    ASSUME AccessInv, UNCHANGED archiveVars
    PROVE  ArchiveInv'
  BY ArchiveKept, Zenon DEF AccessInv, ArchiveInv, ArchiveTypes, archiveVars

(* Steps that recover nothing.                                             *)
LEMMA SettledJournal ==
    ASSUME AccessInv, UNCHANGED savingsVars
    PROVE  JournalMove /\ UNCHANGED signatures
  BY JournalSame, Zenon DEF AccessInv, savingsVars

(* Issuing a ticket.                                                       *)
LEMMA AccessIssue ==
    ASSUME AccessInv, UNCHANGED <<now, enrollmentVars, archiveVars, savingsVars>>,
           NEW owner \in VaultIds \union {None}, NEW purpose \in Purposes,
           issuePasskeyChallenge(owner, purpose)
    PROVE  AccessInv'
  <1>1. TicketInv' /\ Len(ticket) <= Len(ticket')
    BY Settled, IssueTicketKeeps, Zenon
  <1>2. TicketsGrow
    BY <1>1 DEF TicketsGrow, AccessInv, TicketInv, TicketTypes
  <1>3. SavingsInv'
    BY <1>2, Settled, SettledJournal, CallsKept, Zenon DEF issuePasskeyChallenge
  <1> QED
    BY <1>1, <1>3, Settled, SettledArchive, Zenon DEF AccessInv

(* Reading a ticket puts what the call was sent with into its slot.        *)
LEMMA AccessRead ==
    ASSUME AccessInv, UNCHANGED <<now, enrollmentVars, archiveVars, savingsVars>>,
           NEW k \in Calls, NEW t \in DOMAIN ticket, NEW v \in VaultIds,
           NEW purpose \in Purposes,
           NEW arg \in Envelopes \union Headers \union Candidates \union {None},
           purpose = "install" => arg \in Envelopes,
           purpose = "transition" => arg \in Candidates,
           readPasskeyChallenge(k, t, v, purpose, arg)
    PROVE  AccessInv'
  <1> DEFINE r == [step |-> "verified", ticket |-> t, vault |-> v,
                   purpose |-> purpose, arg |-> arg]
  <1>0. /\ UNCHANGED <<ticket, consumed, used, envelope>>
        /\ call' = [call EXCEPT ![k] = r] /\ SavingsInv
    BY Zenon DEF readPasskeyChallenge, AccessInv
  <1>1. t \in 1..Len(ticket) /\ t \in Nat
    BY DEF AccessInv, TicketInv, TicketTypes
  <1>2. r \in CallRecords
    BY <1>1, Zenon DEF CallRecords, CallSteps
  <1>3. /\ r.step = "verified" /\ r.ticket = t /\ r.purpose = purpose /\ r.arg = arg
    BY Zenon
  <1> HIDE DEF r
  <1>4. call'[k] = r
    BY <1>0, Zenon DEF SavingsInv, SavingsTypes
  <1>5. CallHolds(k)'
    BY <1>0, <1>1, <1>3, <1>4, EntryHolds, Zenon
  <1>6. SavingsInv'
    BY <1>0, <1>2, <1>5, SettledTickets, SettledJournal, CallMoves, Zenon
       DEF SavingsInv, SavingsTypes, NoUnrecordedSignature
  <1> QED
    BY <1>0, <1>6, Settled, SettledTickets, SettledArchive, Zenon DEF AccessInv

(* A call that returns, whatever its service stored.                       *)
LEMMA AccessReturn ==
    ASSUME AccessInv, UNCHANGED <<now, enrollmentVars>>,
           NEW k \in Calls, Return(k), UNCHANGED <<ticket, consumed, used>>,
           envelope' \in [VaultIds -> Envelopes \union {None}],
           JournalMove, UNCHANGED signatures, ArchiveInv'
    PROVE  AccessInv'
  <1>1. TicketInv'
    BY Settled, TicketsKept
  <1>2. SavingsInv'
    BY Settled, TicketsSame, ReturnKeeps, Zenon
  <1> QED
    BY <1>1, <1>2, Settled, Zenon DEF AccessInv

(* The envelope table keeps its type when it does not change.              *)
LEMMA EnvelopeType ==
    ASSUME AccessInv PROVE envelope \in [VaultIds -> Envelopes \union {None}]
  BY Zenon DEF AccessInv, TicketInv, TicketTypes

(* Claiming a ticket, and a call that fails.                               *)
LEMMA AuthenticatingStep ==
    ASSUME AccessInv, Authenticating PROVE AccessInv'
  <1>0. UNCHANGED <<now, enrollmentVars, archiveVars, savingsVars>>
    BY Zenon DEF Authenticating
  <1>1. ASSUME NEW k \in Calls, consumePasskeyChallenge(k) PROVE AccessInv'
    <2>1. /\ call[k].step = "verified" /\ call[k].step \in CallSteps
          /\ GoTo(k, "authenticated") /\ UNCHANGED ticket
      BY <1>1, Zenon DEF consumePasskeyChallenge, At, Claim, CallSteps
    <2>2. call[k] \in CallRecords /\ call[k] # Idle /\ call[k].ticket \in 1..Len(ticket)
      BY <2>1, Settled, <1>0, ActiveCall DEF SavingsInv, CallHolds, At
    <2>3. TicketInv'
      BY <1>0, <1>1, <2>2, Settled, ConsumeKeeps, Zenon DEF CallRecords
    <2>4. SavingsInv'
      BY <1>0, <2>1, Settled, SettledJournal, TicketsSame, GoToKeeps DEF SavingsInv, SavingsTypes
    <2> QED
      BY <1>0, <2>3, <2>4, Settled, SettledArchive, Zenon DEF AccessInv
  <1>2. ASSUME NEW k \in Calls, FailCall(k) PROVE AccessInv'
    BY <1>0, <1>2, SettledArchive, SettledJournal, EnvelopeType, AccessReturn, Zenon DEF FailCall
  <1> QED
    BY <1>1, <1>2, Zenon DEF Authenticating, TicketNext

(* Installing and recovering the credential envelope.                      *)
LEMMA UsingEnvelopeStep ==
    ASSUME AccessInv, UsingEnvelope PROVE AccessInv'
  <1>0. UNCHANGED <<now, enrollmentVars, archiveVars, savingsVars>>
    BY DEF UsingEnvelope
  <1>1. ASSUME NEW v \in VaultIds, NEW p \in {"install", "recover"},
               IssuePasskeyChallengeFor(v, p)
        PROVE  AccessInv'
    BY <1>0, <1>1, AccessIssue, Zenon DEF IssuePasskeyChallengeFor, Purposes
  <1>2. ASSUME NEW k \in Calls, NEW t \in DOMAIN ticket, NEW v \in VaultIds,
               NEW e \in Envelopes, readPasskeyChallenge(k, t, v, "install", e)
        PROVE  AccessInv'
    BY <1>0, <1>2, AccessRead, Zenon DEF Purposes
  <1>3. ASSUME NEW k \in Calls, NEW t \in DOMAIN ticket, NEW v \in VaultIds,
               readPasskeyChallenge(k, t, v, "recover", None)
        PROVE  AccessInv'
    BY <1>0, <1>3, AccessRead, Zenon DEF Purposes
  <1>4. ASSUME NEW k \in Calls, InstallCredentialEnvelope(k) PROVE AccessInv'
    <2>0. UNCHANGED <<ticket, consumed, used, envelope>>
      BY <1>4, Zenon DEF InstallCredentialEnvelope
    <2>1. CASE Return(k)
      BY <1>0, <2>0, <2>1, SettledArchive, SettledJournal, EnvelopeType, AccessReturn, Zenon
    <2>2. CASE GoTo(k, "install")
      <3>1. call[k].step \in CallSteps /\ call[k].purpose = "install"
        BY <1>4, Zenon DEF InstallCredentialEnvelope, Authenticated, At, CallSteps
      <3>2. SavingsInv'
        BY <1>0, <2>0, <2>2, <3>1, Settled, SettledTickets, SettledJournal, GoToKeeps, Zenon
           DEF SavingsInv, SavingsTypes
      <3> QED
        BY <1>0, <2>0, <3>2, Settled, SettledTickets, SettledArchive, Zenon DEF AccessInv
    <2> QED
      BY <1>4, <2>1, <2>2, Zenon DEF InstallCredentialEnvelope
  <1>5. ASSUME NEW k \in Calls, StoreVaultEnvelopeIfAbsent(k) PROVE AccessInv'
    <2>1. call[k] \in CallRecords /\ call[k] # Idle /\ CallHolds(k) /\ At(k, "install")
      BY <1>0, <1>5, Settled, ActiveCall, Zenon
         DEF StoreVaultEnvelopeIfAbsent, At, CallSteps, SavingsInv
    <2>2. call[k].vault \in VaultIds /\ call[k].arg \in Envelopes
      BY <2>1, Zenon DEF CallHolds, CallRecords
    <2>3. envelope' \in [VaultIds -> Envelopes \union {None}]
      BY <1>5, <2>2, EnvelopeType, Zenon DEF StoreVaultEnvelopeIfAbsent
    <2> QED
      BY <1>0, <1>5, <2>3, SettledArchive, SettledJournal, AccessReturn, Zenon
         DEF StoreVaultEnvelopeIfAbsent
  <1>6. ASSUME NEW k \in Calls, RecoverCredentialEnvelope(k) PROVE AccessInv'
    BY <1>0, <1>6, SettledArchive, SettledJournal, EnvelopeType, AccessReturn, Zenon
       DEF RecoverCredentialEnvelope
  <1> QED
    BY <1>1, <1>2, <1>3, <1>4, <1>5, <1>6, Zenon DEF UsingEnvelope, EnvelopeNext

(* Opening, reading and writing the recovery archive.                      *)
LEMMA UsingArchiveStep ==
    ASSUME AccessInv, UsingArchive PROVE AccessInv'
  <1>0. UNCHANGED <<now, enrollmentVars, savingsVars>> /\ ArchiveInv /\ now \in Nat
    BY Zenon DEF UsingArchive, AccessInv, EnrollmentInv, EnrollmentTypes
  <1>1. ASSUME issueBackupChallenge, UNCHANGED archiveVars PROVE AccessInv'
    BY <1>0, <1>1, AccessIssue, Zenon DEF issueBackupChallenge, Purposes
  <1>2. ASSUME NEW k \in Calls, NEW t \in DOMAIN ticket, NEW v \in VaultIds,
               readPasskeyChallenge(k, t, v, "archive", None), UNCHANGED archiveVars
        PROVE  AccessInv'
    BY <1>0, <1>2, AccessRead, Zenon DEF Purposes
  <1>3. ASSUME ArchiveInv', UNCHANGED ticketVars PROVE AccessInv'
    <2>1. SavingsInv'
      BY <1>0, <1>3, Settled, SettledTickets, SettledJournal, CallsKept, Zenon DEF ticketVars
    <2> QED
      BY <1>0, <1>3, <2>1, Settled, SettledTickets, Zenon DEF AccessInv, ticketVars
  <1>4. ASSUME NEW s \in Sessions, ReadRecoveryArchive(s) PROVE AccessInv'
    BY <1>0, <1>3, <1>4, ReadKeeps, Zenon DEF ReadRecoveryArchive
  <1>5. ASSUME NEW s \in Sessions, NEW n \in 0..(MaxRevision - 1), NEW p \in Payloads,
               WriteRecoveryArchive(s, n, p)
        PROVE  AccessInv'
    BY <1>0, <1>3, <1>5, WriteKeeps, Zenon DEF WriteRecoveryArchive
  <1>6. ASSUME NEW k \in Calls, openBackup(k) PROVE AccessInv'
    <2>0. /\ UNCHANGED <<ticket, consumed, used, envelope, archiveVars>>
          /\ call[k].step \in CallSteps /\ call[k].purpose = "archive"
      BY <1>6, Zenon DEF openBackup, Authenticated, At, CallSteps
    <2>1. call[k] \in CallRecords /\ call \in [Calls -> CallRecords \union {Idle}]
      BY <1>0, <2>0, Settled, ActiveCall, Zenon DEF SavingsInv, SavingsTypes
    <2>2. PICK h : h = HeaderOf(call[k].vault)
      BY Zenon
    <2>3. h \in Headers \union {None}
      BY <1>0, <2>1, <2>2, Zenon
         DEF HeaderOf, ArchiveInv, ArchiveTypes, Archives, Payloads, CallRecords
    <2>4. PICK r : r = [call[k] EXCEPT !.step = "opening", !.arg = h]
      BY Zenon
    <2>5. call' = [call EXCEPT ![k] = r]
      BY <1>6, <2>2, <2>4, Zenon DEF openBackup
    <2>6. /\ r \in CallRecords /\ r.step = "opening" /\ r.arg = h /\ r.purpose = "archive"
      BY <2>0, <2>1, <2>3, <2>4, Zenon DEF CallRecords, CallSteps
    <2>7. CallHolds(k)'
      <3>1. call'[k] = r
        BY <2>1, <2>5, Zenon
      <3> QED BY <2>3, <2>6, <3>1, EntryHolds, Zenon
    <2>8. SavingsInv'
      BY <1>0, <2>0, <2>5, <2>6, <2>7, Settled, SettledTickets, SettledJournal, CallMoves, Zenon
         DEF SavingsInv, SavingsTypes, NoUnrecordedSignature
    <2> QED
      BY <1>0, <2>0, <2>8, Settled, SettledTickets, SettledArchive, Zenon DEF AccessInv
  <1>7. ASSUME NEW k \in Calls, NEW s \in Sessions, InsertSession(k, s) PROVE AccessInv'
    <2>1. /\ call[k] \in CallRecords /\ call[k] # Idle /\ CallHolds(k) /\ At(k, "opening")
      BY <1>0, <1>7, Settled, ActiveCall, Zenon DEF InsertSession, At, CallSteps, SavingsInv
    <2>2. ArchiveInv'
      BY <1>0, <1>7, <2>1, InsertKeeps DEF CallHolds, CallRecords
    <2> QED
      BY <1>0, <1>7, <2>2, SettledJournal, EnvelopeType, AccessReturn, Zenon DEF InsertSession
  <1> QED
    BY <1>1, <1>2, <1>4, <1>5, <1>6, <1>7, Zenon DEF UsingArchive, ArchiveNext, ArchiveRoutes

(* Reserving, signing and completing a transition.                         *)
LEMMA RecoveringSavingsStep ==
    ASSUME AccessInv, RecoveringSavings PROVE AccessInv'
  <1>0. UNCHANGED <<now, enrollmentVars, archiveVars>> /\ SavingsInv
    BY Zenon DEF RecoveringSavings, AccessInv
  <1>1. ASSUME NEW v \in VaultIds, IssuePasskeyChallengeFor(v, "transition"),
               UNCHANGED savingsVars
        PROVE  AccessInv'
    BY <1>0, <1>1, AccessIssue, Zenon DEF IssuePasskeyChallengeFor, Purposes
  <1>2. ASSUME NEW k \in Calls, NEW v \in VaultIds, NEW c \in validateLedgerSavingsTransition,
               StartTransition(k, v, c)
        PROVE  AccessInv'
    <2>0. c \in Candidates /\ UNCHANGED savingsVars
      BY <1>2, Zenon DEF validateLedgerSavingsTransition, StartTransition
    <2>1. CASE c.actor = "phone"
      BY <1>0, <1>2, <2>0, <2>1, AccessRead, Zenon DEF StartTransition, Purposes
    <2>2. CASE c.actor # "phone"
      <3> DEFINE r == [step |-> "authenticated", ticket |-> None, vault |-> v,
                       purpose |-> "transition", arg |-> c]
      <3>1. call' = [call EXCEPT ![k] = r] /\ UNCHANGED <<ticket, consumed, used, envelope>>
        BY <1>2, <2>2, Zenon DEF StartTransition
      <3>2. r \in CallRecords
        BY <2>0, Zenon DEF CallRecords, CallSteps, Purposes
      <3>3. r.step = "authenticated" /\ r.purpose = "transition" /\ r.arg = c
        BY Zenon
      <3> HIDE DEF r
      <3>4. call'[k] = r
        BY <1>0, <3>1, Zenon DEF SavingsInv, SavingsTypes
      <3>5. CallHolds(k)'
        BY <2>0, <3>3, <3>4, EntryHolds, Zenon
      <3>6. SavingsInv'
        BY <1>0, <2>0, <3>1, <3>2, <3>5, SettledTickets, SettledJournal, CallMoves, Zenon
           DEF SavingsInv, SavingsTypes, NoUnrecordedSignature
      <3> QED
        BY <1>0, <3>1, <3>6, Settled, SettledTickets, SettledArchive, Zenon DEF AccessInv
    <2> QED
      BY <2>1, <2>2, Zenon
  <1>3. ASSUME NEW k \in Calls, call[k].step \in CallSteps, call[k].purpose = "transition"
        PROVE  \E v \in VaultIds, c \in Candidates :
                  v = call[k].vault /\ c = call[k].arg /\ call[k] \in CallRecords
    BY <1>0, <1>3, ActiveCall, Zenon DEF SavingsInv, CallHolds, CallRecords
  <1>4. ASSUME NEW k \in Calls, Reserve(k) PROVE AccessInv'
    <2>0. /\ UNCHANGED <<ticket, consumed, used, envelope, source, signatures>>
          /\ call[k].step \in CallSteps /\ call[k].purpose = "transition"
      BY <1>4, Zenon DEF Reserve, Authenticated, At, CallSteps
    <2>1. PICK v \in VaultIds, c \in Candidates :
              v = call[k].vault /\ c = call[k].arg /\ call[k] \in CallRecords
      BY <1>3, <2>0, Zenon
    <2>2. PICK event : event = ApplyLedgerSavingsRecovery(v, c, FALSE)
      BY Zenon
    <2>3. IF event = None THEN Return(k) /\ UNCHANGED journal
          ELSE /\ AppendEvent(v, event)
               /\ IF event.signed THEN Return(k)
                  ELSE call' = [call EXCEPT ![k].step = "reserved", ![k].arg = event.candidate]
      BY <1>4, <2>1, <2>2, Zenon DEF Reserve
    <2>4. JournalMove
      BY <1>0, <2>2, <2>3, JournalSame, JournalKept, Zenon DEF JournalMove
    <2>5. CASE Return(k)
      BY <1>0, <2>0, <2>4, <2>5, SettledArchive, EnvelopeType, AccessReturn, Zenon
    <2>6. CASE ~Return(k)
      <3>1. /\ event # None /\ ~event.signed /\ AppendEvent(v, event)
            /\ call' = [call EXCEPT ![k].step = "reserved", ![k].arg = event.candidate]
        BY <2>3, <2>6, Zenon
      <3>2. event \in Events /\ event.candidate \in Candidates
        BY <1>0, <2>2, <3>1, ApplyEffect, EventShape, Zenon
      <3>3. Recorded(v, event.candidate)'
        BY <1>0, <2>2, <3>1, JournalKept, Zenon
      <3>4. PICK r : r = [call[k] EXCEPT !.step = "reserved", !.arg = event.candidate]
        BY Zenon
      <3>5. call' = [call EXCEPT ![k] = r]
        BY <3>1, <3>4, Zenon
      <3>6. /\ r \in CallRecords /\ r.step = "reserved" /\ r.arg = event.candidate
            /\ r.purpose = "transition" /\ r.vault = v
        BY <2>0, <2>1, <3>2, <3>4, Zenon DEF CallRecords, CallSteps
      <3>7. call'[k] = r
        BY <1>0, <3>5, Zenon DEF SavingsInv, SavingsTypes
      <3>8. CallHolds(k)'
        BY <3>2, <3>3, <3>6, <3>7, EntryHolds
      <3>9. SavingsInv'
        BY <1>0, <2>0, <2>4, <3>5, <3>6, <3>8, SettledTickets, CallMoves, Zenon
           DEF SavingsInv, SavingsTypes
      <3> QED
        BY <1>0, <2>0, <3>9, Settled, SettledTickets, SettledArchive, Zenon DEF AccessInv
    <2> QED
      BY <2>5, <2>6, Zenon
  <1>5. ASSUME NEW k \in Calls, authorizeTransition(k) PROVE AccessInv'
    <2>0. /\ UNCHANGED <<ticket, consumed, used, envelope, source, journal>>
          /\ call[k].step = "reserved" /\ call[k].step \in CallSteps /\ GoTo(k, "signed")
          /\ signatures' = signatures \union {[vault |-> call[k].vault,
                                               candidate |-> call[k].arg]}
      BY <1>5, Zenon DEF authorizeTransition, At, CallSteps
    <2>1. CallHolds(k) /\ call[k] # Idle /\ call[k] \in CallRecords
      BY <1>0, <2>0, ActiveCall, Zenon DEF SavingsInv
    <2>2. /\ call[k].vault \in VaultIds /\ call[k].arg \in Candidates
          /\ Recorded(call[k].vault, call[k].arg)
      BY <2>0, <2>1, Zenon DEF CallHolds, At, CallRecords
    <2>3. JournalMove
      BY <1>0, <2>0, JournalSame
    <2>4. signatures' \subseteq [vault : VaultIds, candidate : Candidates]
      BY <1>0, <2>0, <2>2, SMTT(30) DEF SavingsInv, SavingsTypes
    <2>5. ASSUME NEW s \in signatures', s \notin signatures
          PROVE  Recorded(s.vault, s.candidate)
      <3>1. s = [vault |-> call[k].vault, candidate |-> call[k].arg]
        BY <2>0, <2>5, Zenon
      <3>2. s.vault = call[k].vault /\ s.candidate = call[k].arg
        BY <3>1, Zenon
      <3> QED
        BY <2>2, <3>2, Zenon
    <2>6. SavingsInv'
      BY <1>0, <2>0, <2>3, <2>4, <2>5, SettledTickets, GoToKeeps, Zenon
    <2> QED
      BY <1>0, <2>0, <2>6, Settled, SettledTickets, SettledArchive, Zenon DEF AccessInv
  <1>6. ASSUME NEW k \in Calls, Complete(k) PROVE AccessInv'
    <2>0. /\ UNCHANGED <<ticket, consumed, used, envelope, source, signatures>> /\ Return(k)
          /\ call[k].step = "signed" /\ call[k].step \in CallSteps
      BY <1>6, Zenon DEF Complete, At, CallSteps
    <2>1. call[k].purpose = "transition"
      BY <1>0, <2>0, ActiveCall, Zenon DEF SavingsInv, CallHolds, At
    <2>2. PICK v \in VaultIds, c \in Candidates :
              v = call[k].vault /\ c = call[k].arg /\ call[k] \in CallRecords
      BY <1>3, <2>0, <2>1, Zenon
    <2>3. PICK event : event = ApplyLedgerSavingsRecovery(v, c, TRUE)
      BY Zenon
    <2>4. event # None /\ AppendEvent(v, event)
      BY <1>6, <2>2, <2>3, Zenon DEF Complete
    <2>5. JournalMove
      BY <1>0, <2>3, <2>4, JournalKept, Zenon DEF JournalMove
    <2> QED
      BY <1>0, <2>0, <2>5, SettledArchive, EnvelopeType, AccessReturn, Zenon
  <1> QED
    BY <1>1, <1>2, <1>4, <1>5, <1>6, Zenon DEF RecoveringSavings, SavingsNext

(* No step of the enrollment service moves the clock.                      *)
LEMMA EnrollingClock == EnrollmentNext => UNCHANGED now
  BY Zenon DEF EnrollmentNext, EnrollmentRoutes, IssueEnrollmentSession, StartEnrollment,
         ProposeEnrollment, FinishEnrollment, createTenantVault, publishEnrollmentAt,
         ReadbackFails, FailFinish

(* Enrollment, and time, leave the other services what they have.          *)
LEMMA OthersKept ==
    ASSUME AccessInv, EnrollmentInv', now \in Nat, now' \in Nat, now <= now',
           UNCHANGED <<ticketVars, archiveVars, savingsVars>>
    PROVE  AccessInv'
  <1>1. TicketInv'
    BY EnvelopeType, TicketsKept, Zenon DEF AccessInv, ticketVars
  <1>2. SavingsInv'
    BY SettledJournal, TicketsSame, CallsKept, Zenon DEF AccessInv, ticketVars
  <1> QED
    BY <1>1, <1>2, SettledArchive, Zenon DEF AccessInv

(* A restart, with a new key and no calls.                                 *)
LEMMA RestartStep ==
    ASSUME AccessInv, Restart PROVE AccessInv'
  <1>0. /\ EnrollmentInv /\ TicketInv /\ ArchiveInv /\ SavingsInv
        /\ EnrollmentRestart /\ TicketRestart /\ ArchiveRestart /\ UNCHANGED savingsVars
    BY Zenon DEF AccessInv, Restart, SavingsRestart
  <1>1. EnrollmentInv'
    BY <1>0, EnrollmentRestartKeeps, Zenon
  <1>2. TicketInv' /\ TicketsGrow
    BY <1>0, TicketRestartKeeps DEF TicketsGrow, TicketInv, TicketTypes
  <1>3. ArchiveInv'
    BY <1>0, ArchiveKept, Zenon DEF ArchiveRestart
  <1>4. SavingsInv'
    <2>1. call' = [k \in Calls |-> Idle]
      BY <1>0, Zenon DEF TicketRestart
    <2>2. \A k \in Calls : CallHolds(k)'
      BY <2>1, Zenon DEF CallHolds, Idle
    <2>3. JournalMove /\ UNCHANGED signatures
      BY <1>0, SettledJournal, Zenon
    <2>4. SavingsTypes'
      BY <1>0, <2>1, <2>3, Zenon DEF SavingsTypes, SavingsInv, JournalMove, CallRecords, Idle
    <2>5. NoUnrecordedSignature'
      BY <1>0, <2>3, Zenon DEF SavingsInv, SavingsTypes, NoUnrecordedSignature, JournalMove
    <2> QED
      BY <2>2, <2>3, <2>4, <2>5, Zenon DEF SavingsInv, JournalMove
  <1> QED
    BY <1>1, <1>2, <1>3, <1>4, Zenon DEF AccessInv

(* The process starts with no vault, ticket, archive or event.             *)
LEMMA AccessInit == Init => AccessInv
  <1> SUFFICES ASSUME Init PROVE AccessInv
    BY Zenon
  <1> USE DEF Init
  <1>1. EnrollmentInv
    <2>1. now \in Nat /\ Invitation(0, FileWindow) \in Invitations
      BY EnrollmentAssumption, SMTT(30) DEF EnrollmentInit, Invitation, Invitations
    <2>2. EnrollmentTypes
      BY <2>1, Zenon DEF EnrollmentInit, EnrollmentTypes
    <2> QED
      BY <2>2, Zenon
         DEF EnrollmentInv, EnrollmentInit, ReservedAsDrawn, HeldAsDrawn, OneVaultPerInvite
  <1>2. TicketInv
    BY TicketAssumption, SMTT(30)
       DEF TicketInit, NoTicketSpent, TicketInv, TicketTypes, SpentRemembered
  <1>3. ArchiveInv
    BY Zenon DEF ArchiveInit, ArchiveInv, ArchiveTypes, StoredInOrder
  <1>4. SavingsInv
    <2>1. journal = <<>> /\ signatures = {} /\ call = [k \in Calls |-> Idle]
      BY Zenon DEF SavingsInit, NoTransition, TicketInit, NoTicketSpent
    <2>2. SavingsTypes
      BY <2>1 DEF SavingsTypes
    <2>3. \A k \in Calls : CallHolds(k)
      BY <2>1, Zenon DEF CallHolds
    <2>4. \A v \in VaultIds, coin \in Coins : LatestEvent(v, coin)
      BY <2>1, SMTT(30) DEF LatestEvent, EventsOf
    <2>5. OneDestinationRecorded /\ NoUnrecordedSignature
      BY <2>1, SMTT(30) DEF OneDestinationRecorded, NoUnrecordedSignature
    <2> QED
      BY <2>2, <2>3, <2>4, <2>5, Zenon DEF SavingsInv
  <1> QED
    BY <1>1, <1>2, <1>3, <1>4, Zenon DEF AccessInv

(* Every step keeps the inductive invariant.                               *)
LEMMA AccessStep == AccessInv /\ [Next]_vars => AccessInv'
  <1> SUFFICES ASSUME AccessInv, [Next]_vars PROVE AccessInv'
    BY Zenon
  <1>0. now \in Nat /\ EnrollmentInv
    BY Zenon DEF AccessInv, EnrollmentInv, EnrollmentTypes
  <1>1. CASE Enrolling
    BY <1>0, <1>1, EnrollmentStep, EnrollingClock, OthersKept DEF Enrolling
  <1>2. CASE Tick
    <2>1. now' = now + 1 /\ UNCHANGED <<enrollmentVars, ticketVars, archiveVars, savingsVars>>
      BY <1>2, Zenon DEF Tick
    <2>2. EnrollmentInv'
      BY <1>0, <2>1, EnrollmentKept, SMTT(30) DEF enrollmentVars, EnrollmentInv, EnrollmentTypes
    <2> QED
      BY <1>0, <2>1, <2>2, OthersKept
  <1>3. CASE UNCHANGED vars
    <2>1. EnrollmentInv'
      BY <1>0, <1>3, EnrollmentKept, Zenon DEF vars, enrollmentVars, EnrollmentInv, EnrollmentTypes
    <2> QED
      BY <1>0, <1>3, <2>1, OthersKept DEF vars
  <1> QED
    BY <1>1, <1>2, <1>3, AuthenticatingStep, UsingEnvelopeStep, UsingArchiveStep,
       RecoveringSavingsStep, RestartStep, Zenon DEF Next
-----------------------------------------------------------------------------
(* The theorems.                                                           *)

(* The inductive invariant holds of the four services together, whatever   *)
(* the interleaving of their calls, the clock and restarts.                *)
THEOREM AccessInvariant == Spec => []AccessInv
  BY AccessInit, AccessStep, PTL DEF Spec

(* Each enrolled vault is named for ever by the one invitation it consumed *)
(* and has the tier and policy frozen when Start drew its ID.              *)
THEOREM InviteMakesOneVault == Spec => []OneVaultPerInvite
  <1>1. AccessInv => OneVaultPerInvite
    BY Zenon DEF AccessInv, EnrollmentInv
  <1> QED
    BY <1>1, AccessInvariant, PTL

(* A client that Finish told it succeeded has the stored vault it          *)
(* reviewed.                                                               *)
THEOREM AnswersMatchReview == Spec => []AnsweredAsReviewed
  <1>1. AccessInv => AnsweredAsReviewed
    <2> SUFFICES ASSUME AccessInv, NEW c \in Clients, client[c].step = "done"
                 PROVE  vault[client[c].vault] = Minted(c)
      BY Zenon DEF AnsweredAsReviewed
    <2>1. EnrollmentInv /\ client[c] # Idle
      BY ActiveClient, Zenon DEF AccessInv, FinishSteps
    <2> QED
      BY <2>1, Zenon DEF EnrollmentInv, HeldAsDrawn
  <1> QED
    BY <1>1, AccessInvariant, PTL

(* A finish that committed is accepted when it is sent again, for ever.    *)
THEOREM LostAnswerRetried == Spec => []RetryAccepted
  <1>1. AccessInv => RetryAccepted
    <2> SUFFICES ASSUME AccessInv, NEW c \in Clients, client[c].step = "proposed",
                        vault[client[c].vault] = Minted(c)
                 PROVE  ~HasPending(c) /\ acceptDuplicateFinishFromToken(c)
      BY Zenon DEF RetryAccepted
    <2>1. EnrollmentInv /\ client[c] # Idle /\ client[c] \in Enrollees
      BY ActiveClient, Zenon DEF AccessInv, FinishSteps
    <2>2. client[c].keys \in Keys
      BY <2>1, Zenon DEF EnrollmentInv, HeldAsDrawn, FinishSteps
    <2>3. Minted(c) \in Vaults
      BY <2>1, <2>2 DEF Minted, Vaults, Enrollees
    <2>4. /\ vault[client[c].vault] # None /\ client[c].vault \in VaultIds
          /\ client[c].token \in Tokens
          /\ vault[client[c].vault].token = client[c].token
          /\ vault[client[c].vault].setup = client[c].setup
          /\ vault[client[c].vault].keys = client[c].keys
      BY <2>1, <2>3, EnrollmentAssumption, SMTT(30) DEF Minted, Enrollees
    <2>5. ~HasPending(c)
      BY <2>1, <2>4 DEF HasPending, EnrollmentInv, ReservedAsDrawn
    <2> QED
      BY <2>1, <2>4, <2>5, EnrollmentFacts, Zenon
         DEF acceptDuplicateFinishFromToken, acceptDuplicateFinish
  <1> QED
    BY <1>1, AccessInvariant, PTL

(* A ticket authenticates at most one call, also across pruning, limits    *)
(* and a restart that forgets which were spent.                            *)
THEOREM TicketSpentOnce == Spec => []TicketUsedOnce
  <1>1. AccessInv => TicketUsedOnce
    BY TicketAssumption, SMTT(30)
       DEF AccessInv, TicketInv, TicketTypes, SpentRemembered, TicketUsedOnce
  <1> QED
    BY <1>1, AccessInvariant, PTL

(* The envelope of a vault never changes once it is stored.                *)
THEOREM EnvelopeNeverReplaced == Spec => EnvelopeLocked
  <1>1. ASSUME AccessInv, [Next]_vars
        PROVE  [\A v \in VaultIds : envelope[v] # None => envelope'[v] = envelope[v]]_ticketVars
    <2> SUFFICES \A v \in VaultIds : envelope[v] # None => envelope'[v] = envelope[v]
      BY Zenon
    <2>1. ASSUME NEW k \in Calls, StoreVaultEnvelopeIfAbsent(k)
          PROVE  \A v \in VaultIds : envelope[v] # None => envelope'[v] = envelope[v]
      BY <1>1, <2>1, EnvelopeType, Zenon DEF StoreVaultEnvelopeIfAbsent
    <2>2. CASE Enrolling \/ Tick \/ Restart \/ UNCHANGED vars
      BY <2>2, Zenon DEF Enrolling, Tick, Restart, TicketRestart, ticketVars, vars
    <2>3. CASE Authenticating
      BY <2>3, Zenon DEF Authenticating, TicketNext, consumePasskeyChallenge, Claim, FailCall
    <2>4. CASE UsingEnvelope
      BY <2>1, <2>4, Zenon DEF UsingEnvelope, EnvelopeNext, IssuePasskeyChallengeFor,
         issuePasskeyChallenge, readPasskeyChallenge, InstallCredentialEnvelope,
         RecoverCredentialEnvelope
    <2>5. CASE UsingArchive
      BY <2>5 DEF UsingArchive, ArchiveNext, ArchiveRoutes, issueBackupChallenge,
         issuePasskeyChallenge, readPasskeyChallenge, openBackup, InsertSession,
         ReadRecoveryArchive, WriteRecoveryArchive, ticketVars
    <2>6. CASE RecoveringSavings
      BY <2>6 DEF RecoveringSavings, SavingsNext, IssuePasskeyChallengeFor,
         issuePasskeyChallenge, StartTransition, readPasskeyChallenge, Reserve,
         authorizeTransition, Complete
    <2> QED
      BY <1>1, <2>2, <2>3, <2>4, <2>5, <2>6, Zenon DEF Next
  <1> QED
    BY <1>1, AccessInvariant, PTL DEF Spec, EnvelopeLocked

(* Every archive stored for a vault has the header of the first one.       *)
THEOREM ArchiveHeaderPinned == Spec => []HeaderPinned
  <1>1. AccessInv => HeaderPinned
    BY Zenon DEF AccessInv, ArchiveInv, StoredInOrder, HeaderPinned
  <1> QED
    BY <1>1, AccessInvariant, PTL

(* A write that was answered is the only one stored under its revision.    *)
THEOREM AnsweredWriteIsStored == Spec => []AckedWriteStored
  <1>1. AccessInv => AckedWriteStored
    BY DEF AccessInv, ArchiveInv, StoredInOrder, AckedWriteStored
  <1> QED
    BY <1>1, AccessInvariant, PTL

(* Every signature the key backend made is in the journal, or its exact    *)
(* candidate is the coin's latest reservation.                             *)
THEOREM SignaturesAccountedFor == Spec => []NoUnrecordedSignature
  <1>1. AccessInv => NoUnrecordedSignature
    BY Zenon DEF AccessInv, SavingsInv
  <1> QED
    BY <1>1, AccessInvariant, PTL

(* The Guardian signs a coin to one destination.                           *)
THEOREM CoinSignedToOneDestination == Spec => []OneDestination
  <1>1. AccessInv => OneDestination
    <2> SUFFICES ASSUME AccessInv PROVE OneDestination
      BY Zenon
    <2>0. SavingsInv
      BY Zenon DEF AccessInv
    <2>1. ASSUME NEW s \in signatures
          PROVE  \E i \in DOMAIN journal :
                    journal[i].vault = s.vault /\ journal[i].candidate = s.candidate
      <3>1. s.vault \in VaultIds /\ s.candidate \in Candidates /\ s.candidate.coin \in Coins
        BY <2>0 DEF SavingsInv, SavingsTypes, Candidates
      <3>2. CASE [vault |-> s.vault, candidate |-> s.candidate, signed |-> TRUE]
                    \in {journal[i] : i \in DOMAIN journal}
        BY <3>2, SMTT(30)
      <3>3. CASE Existing(s.vault, s.candidate.coin) =
                    [vault |-> s.vault, candidate |-> s.candidate, signed |-> FALSE]
        <4>1. [vault |-> s.vault, candidate |-> s.candidate, signed |-> FALSE] \in Events
          BY <3>1, Zenon DEF Events
        <4>2. Existing(s.vault, s.candidate.coin) # None
          BY <3>3, <4>1, SavingsAssumption, Zenon
        <4> QED
          BY <2>0, <3>1, <3>3, <4>2, ExistingEvent, SMTT(30)
      <3> QED
        BY <2>0, <3>2, <3>3, Zenon DEF SavingsInv, NoUnrecordedSignature, Recorded
    <2> QED
      BY <2>0, <2>1, SMTT(30) DEF SavingsInv, OneDestinationRecorded, OneDestination
  <1> QED
    BY <1>1, AccessInvariant, PTL
=============================================================================
