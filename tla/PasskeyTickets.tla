----------------------------- MODULE PasskeyTickets -----------------------------
(***************************************************************************)
(* Passkey sessions: challenge tickets and the envelope they open.  A      *)
(* ticket is not stored: it is authenticated by a key of the process,      *)
(* names its owner, purpose and expiry, and is remembered only once it has *)
(* been spent, until it expires.  A call reads the ticket, verifies the    *)
(* assertion without the lock, and claims the ticket before it acts.  The  *)
(* assertion, the proof and the sign count only refuse: such a call fails. *)
(***************************************************************************)
EXTENDS VaultEnrollment, Sequences

CONSTANTS
    MaxTickets,             \* bound on the tickets issued
    Calls,                  \* verification slots
    Envelopes,              \* sealed credential envelopes a client may install
    ChallengeTTL,           \* validity of a ticket
    MaxConsumed,            \* spent tickets remembered together
    MaxConsumedPerVault     \* spent tickets remembered for one vault

Purposes == {"install", "recover", "archive", "transition"}
CallSteps == {"verified", "authenticated", "install", "opening", "reserved", "signed"}
Tickets == [owner : VaultIds \union {None}, purpose : Purposes, expires : Nat]

ASSUME TicketAssumption ==
    /\ {MaxTickets, ChallengeTTL, MaxConsumed, MaxConsumedPerVault} \subseteq Nat
    /\ None \notin CallSteps \union Envelopes
    /\ Gone \notin Tickets

VARIABLES
    ticket,     \* the tickets in the order they were issued, Gone once the key is
    consumed,   \* spent tickets, with the vault that spent each
    used,       \* how often each ticket has authenticated a call
    call,       \* the calls in flight
    envelope    \* the stored envelope of each vault

ticketVars == <<ticket, consumed, used, call, envelope>>

Enrolled(v) == vault[v] # None

NoTicketSpent ==
    /\ consumed = {}
    /\ used = [t \in 1..MaxTickets |-> 0]
    /\ call = [k \in Calls |-> Idle]
    /\ envelope = [v \in VaultIds |-> None]
TicketInit == ticket = <<>> /\ NoTicketSpent
-----------------------------------------------------------------------------
(* Tickets.                                                                *)

(* Archive tickets are issued before the vault is known.                   *)
TicketOwner(v, purpose) == IF purpose = "archive" THEN None ELSE v

issuePasskeyChallenge(owner, purpose) ==
    /\ Len(ticket) < MaxTickets
    /\ ticket' = Append(ticket, [owner |-> owner, purpose |-> purpose,
                                 expires |-> now + ChallengeTTL])
    /\ UNCHANGED <<consumed, used, call, envelope>>

IssuePasskeyChallengeFor(v, purpose) ==
    /\ Enrolled(v)
    /\ purpose = "recover" => envelope[v] # None
    /\ issuePasskeyChallenge(v, purpose)

issueBackupChallenge == issuePasskeyChallenge(None, "archive")

Authentic(t, owner, purpose) ==
    /\ ticket[t] # Gone
    /\ ticket[t].owner = owner
    /\ ticket[t].purpose = purpose
    /\ now < ticket[t].expires
passkeyChallengeLocked(t, owner, purpose) ==
    /\ Authentic(t, owner, purpose)
    /\ \A spent \in consumed : spent.ticket # t

At(k, step) == call[k].step = step
GoTo(k, step) == call' = [call EXCEPT ![k].step = step]
Return(k) == call' = [call EXCEPT ![k] = Idle]

readPasskeyChallenge(k, t, v, purpose, arg) ==
    /\ call[k] = Idle
    /\ Enrolled(v)
    /\ passkeyChallengeLocked(t, TicketOwner(v, purpose), purpose)
    /\ call' = [call EXCEPT ![k] = [step |-> "verified", ticket |-> t, vault |-> v,
                                    purpose |-> purpose, arg |-> arg]]
    /\ UNCHANGED <<ticket, consumed, used, envelope>>

Live(spent) == now < ticket[spent.ticket].expires

Claim(k, kept) ==
    /\ Cardinality(kept) < MaxConsumed
    /\ Cardinality({spent \in kept : spent.vault = call[k].vault}) < MaxConsumedPerVault
    /\ consumed' = kept \union {[ticket |-> call[k].ticket, vault |-> call[k].vault]}
    /\ used' = [used EXCEPT ![call[k].ticket] = @ + 1]
    /\ GoTo(k, "authenticated")
    /\ UNCHANGED <<ticket, envelope>>

(* Mutant: the ticket was checked when it was read; it is not checked      *)
(* again.                                                                  *)
ClaimUnchecked(k) ==
    /\ At(k, "verified")
    /\ Claim(k, {spent \in consumed : Live(spent)})

(* The claim checks the ticket again, forgets the expired ones and refuses *)
(* at a limit rather than forget a live one.                               *)
consumePasskeyChallenge(k) ==
    /\ At(k, "verified")
    /\ passkeyChallengeLocked(call[k].ticket, TicketOwner(call[k].vault, call[k].purpose),
                              call[k].purpose)
    /\ Claim(k, {spent \in consumed : Live(spent)})

Authenticated(k, purpose) == At(k, "authenticated") /\ call[k].purpose = purpose

(* A refusal, a lost client or an error: the ticket stays spent.           *)
FailCall(k) ==
    /\ call[k] # Idle
    /\ Return(k)
    /\ UNCHANGED <<ticket, consumed, used, envelope>>
-----------------------------------------------------------------------------
(* The credential envelope.                                                *)

InstallCredentialEnvelope(k) ==
    /\ Authenticated(k, "install")
    /\ IF envelope[call[k].vault] = None THEN GoTo(k, "install") ELSE Return(k)
    /\ UNCHANGED <<ticket, consumed, used, envelope>>

(* Mutant: the envelope is written because it was absent when it was read. *)
StoreVaultEnvelope(k) ==
    /\ At(k, "install")
    /\ envelope' = [envelope EXCEPT ![call[k].vault] = call[k].arg]
    /\ Return(k)
    /\ UNCHANGED <<ticket, consumed, used>>
StoreVaultEnvelopeIfAbsent(k) ==
    /\ At(k, "install")
    /\ envelope' = [envelope EXCEPT ![call[k].vault] = IF @ = None THEN call[k].arg ELSE @]
    /\ Return(k)
    /\ UNCHANGED <<ticket, consumed, used>>

RecoverCredentialEnvelope(k) ==
    /\ Authenticated(k, "recover")
    /\ Return(k)
    /\ UNCHANGED <<ticket, consumed, used, envelope>>

TicketNext(k) == consumePasskeyChallenge(k) \/ FailCall(k)

EnvelopeNext(k) ==
    \/ \E v \in VaultIds, p \in {"install", "recover"} : IssuePasskeyChallengeFor(v, p)
    \/ \E t \in DOMAIN ticket, v \in VaultIds, e \in Envelopes :
           readPasskeyChallenge(k, t, v, "install", e)
    \/ \E t \in DOMAIN ticket, v \in VaultIds : readPasskeyChallenge(k, t, v, "recover", None)
    \/ InstallCredentialEnvelope(k)
    \/ StoreVaultEnvelopeIfAbsent(k)
    \/ RecoverCredentialEnvelope(k)

(* A new process has a new key and remembers nothing.                      *)
TicketRestart ==
    /\ ticket' = [t \in DOMAIN ticket |-> Gone]
    /\ consumed' = {}
    /\ call' = [k \in Calls |-> Idle]
    /\ UNCHANGED <<used, envelope>>
-----------------------------------------------------------------------------
(* A ticket authenticates one call: of two calls that both verified it,    *)
(* after the spent ones were pruned, at the limits, and across a restart   *)
(* that forgets which were spent.                                          *)
TicketUsedOnce == \A t \in DOMAIN ticket : used[t] <= 1

(* The envelope of a vault never changes once it is stored, although two   *)
(* installs may both have found none.                                      *)
EnvelopeLocked ==
    [][\A v \in VaultIds : envelope[v] # None => envelope'[v] = envelope[v]]_ticketVars
-----------------------------------------------------------------------------
(* The inductive invariant behind TicketUsedOnce.                          *)

TicketTypes ==
    /\ ticket \in Seq(Tickets \union {Gone}) /\ Len(ticket) <= MaxTickets
    /\ consumed \subseteq [ticket : 1..Len(ticket), vault : VaultIds]
    /\ used \in [1..MaxTickets -> Nat]
    /\ envelope \in [VaultIds -> Envelopes \union {None}]

(* A ticket that was used is remembered for as long as it would be taken.  *)
SpentRemembered ==
    \A t \in 1..MaxTickets :
        /\ used[t] <= 1
        /\ used[t] # 0 =>
              /\ t \in 1..Len(ticket)
              /\ \/ ticket[t] = Gone
                 \/ ticket[t].expires <= now
                 \/ \E spent \in consumed : spent.ticket = t

TicketInv == TicketTypes /\ SpentRemembered
=============================================================================
