---------------------------- MODULE SavingsRecovery ----------------------------
(***************************************************************************)
(* Guardian signatures on Savings recovery: initiate moves a Savings coin  *)
(* to the pending tree of a claimant, clawback moves a pending coin to its *)
(* quarantine on behalf of another user.  A call validates the candidate,  *)
(* authenticates the phone when the phone acts, reserves the candidate in  *)
(* the event journal, signs the candidate the journal retains, and appends *)
(* the completion.  A coin's script tells its vault, whether it is a       *)
(* Savings or a pending coin, and whose.  An approval stands for the       *)
(* user's signature and proof, which differ between two serializations of  *)
(* one transaction; the Guardian's signature is a function of the          *)
(* candidate.                                                              *)
(***************************************************************************)
EXTENDS RecoveryArchive, FiniteSetsExt

CONSTANTS
    Roles,          \* phone, hardware and, where enrolled, recovery
    Coins,          \* the vault's coins on chain
    Fees,           \* fees the policy allows
    Approvals,      \* user approvals of one transaction
    MaxEvents       \* bound on the journal

Candidates ==
    [coin : Coins, claimant : Roles, actor : Roles, fee : Fees, approval : Approvals]
Events == [vault : VaultIds, candidate : Candidates, signed : BOOLEAN]

ASSUME SavingsAssumption ==
    "phone" \in Roles /\ MaxEvents \in Nat /\ None \notin Events

VARIABLES
    source,     \* whose pending tree each coin lies on, None for the Savings tree
    journal,    \* recovery events, in the order they were appended
    signatures  \* every signature the key backend made

savingsVars == <<source, journal, signatures>>

NoTransition == journal = <<>> /\ signatures = {}
SavingsInit == source \in [Coins -> Roles \union {None}] /\ NoTransition
-----------------------------------------------------------------------------
(* Candidates.                                                             *)

ledgerSavingsTransitionTrees(coin, claimant, actor) ==
    IF source[coin] = None THEN actor = claimant
    ELSE claimant = source[coin] /\ actor # claimant

validateLedgerSavingsTransition ==
    {c \in Candidates : ledgerSavingsTransitionTrees(c.coin, c.claimant, c.actor)}

Dest(c) == c.claimant
transitionSighash(c) == <<c.coin, c.claimant, c.actor, c.fee>>

SignTransition(v) == Enrolled(v) /\ vault[v].setup # Light
-----------------------------------------------------------------------------
(* The journal.                                                            *)

EventsOf(v, coin) ==
    {i \in DOMAIN journal : journal[i].vault = v /\ journal[i].candidate.coin = coin}

(* The latest event of the coin.                                           *)
Existing(v, coin) ==
    IF EventsOf(v, coin) = {} THEN None ELSE journal[Max(EventsOf(v, coin))]

(* Mutant: a coin may be signed to a second destination.                   *)
NoSecondDest(e, c) == FALSE
SecondDest(e, c) == Dest(e.candidate) # Dest(c)

Differs(e, c) == transitionSighash(e.candidate) # transitionSighash(c)

(* Mutant: a reservation that is still unsigned may be replaced.           *)
BusyCompletion(e, c, signed) == Differs(e, c) /\ signed
Busy(e, c, signed) == Differs(e, c) /\ (signed \/ ~e.signed)

DecideReplay(e, c, signed) ==
    IF e = None THEN "sign"
    ELSE IF SecondDest(e, c) \/ Busy(e, c, signed) THEN "refuse"
    ELSE IF e.signed /\ ~Differs(e, c) THEN "replay" ELSE "resign"

(* The event that stands for the candidate, or None when it is refused.    *)
ApplyLedgerSavingsRecovery(v, c, signed) ==
    LET e == Existing(v, c.coin)
        action == DecideReplay(e, c, signed)
        exact == action = "resign" /\ ~e.signed /\ ~signed /\ ~Differs(e, c)
    IN  IF action = "refuse" \/ (signed /\ (e = None \/ e.candidate # c)) THEN None
        ELSE IF action = "replay" \/ exact THEN e
        ELSE [vault |-> v, candidate |-> c, signed |-> signed]

AppendEvent(v, event) ==
    IF event = Existing(v, event.candidate.coin) THEN UNCHANGED journal
    ELSE Len(journal) < MaxEvents /\ journal' = Append(journal, event)
-----------------------------------------------------------------------------
(* The handler.                                                            *)

(* The phone brings a passkey session, the other users their signature.    *)
StartTransition(k, v, c) ==
    /\ SignTransition(v)
    /\ IF c.actor = "phone"
       THEN \E t \in DOMAIN ticket : readPasskeyChallenge(k, t, v, "transition", c)
       ELSE /\ call[k] = Idle
            /\ call' = [call EXCEPT ![k] = [step |-> "authenticated", ticket |-> None,
                                            vault |-> v, purpose |-> "transition",
                                            arg |-> c]]
            /\ UNCHANGED <<ticket, consumed, used, envelope>>
    /\ UNCHANGED savingsVars

Reserve(k) ==
    /\ Authenticated(k, "transition")
    /\ LET event == ApplyLedgerSavingsRecovery(call[k].vault, call[k].arg, FALSE)
       IN  IF event = None THEN Return(k) /\ UNCHANGED journal
           ELSE /\ AppendEvent(call[k].vault, event)
                /\ IF event.signed THEN Return(k)
                   ELSE call' = [call EXCEPT ![k].step = "reserved",
                                             ![k].arg = event.candidate]
    /\ UNCHANGED <<ticket, consumed, used, envelope, source, signatures>>

authorizeTransition(k) ==
    /\ At(k, "reserved")
    /\ signatures' = signatures \union {[vault |-> call[k].vault, candidate |-> call[k].arg]}
    /\ GoTo(k, "signed")
    /\ UNCHANGED <<ticket, consumed, used, envelope, source, journal>>

Complete(k) ==
    /\ At(k, "signed")
    /\ LET event == ApplyLedgerSavingsRecovery(call[k].vault, call[k].arg, TRUE)
       IN  event # None /\ AppendEvent(call[k].vault, event)
    /\ Return(k)
    /\ UNCHANGED <<ticket, consumed, used, envelope, source, signatures>>

SavingsNext(k) ==
    \/ \E v \in VaultIds :
           IssuePasskeyChallengeFor(v, "transition") /\ UNCHANGED savingsVars
    \/ \E v \in VaultIds, c \in validateLedgerSavingsTransition : StartTransition(k, v, c)
    \/ Reserve(k)
    \/ authorizeTransition(k)
    \/ Complete(k)

SavingsRestart == UNCHANGED savingsVars
-----------------------------------------------------------------------------
(* Whatever the Guardian signs for a coin goes to one destination: two     *)
(* claimants, retries with other fees, and crashes between reservation and *)
(* completion never make it sign the coin to a second one.                 *)
OneDestination ==
    \A a, b \in signatures :
        (a.vault = b.vault /\ a.candidate.coin = b.candidate.coin)
            => Dest(a.candidate) = Dest(b.candidate)

Recorded(v, c) ==
    \/ [vault |-> v, candidate |-> c, signed |-> TRUE] \in {journal[i] : i \in DOMAIN journal}
    \/ Existing(v, c.coin) = [vault |-> v, candidate |-> c, signed |-> FALSE]

(* A signature the key backend made is in the journal, or the reservation  *)
(* of its exact candidate is still the coin's latest event, so that a      *)
(* retry completes it: no late completion and no newer reservation loses   *)
(* track of a signature that exists.                                       *)
NoUnrecordedSignature ==
    \A s \in signatures : Recorded(s.vault, s.candidate)
-----------------------------------------------------------------------------
(* The inductive invariant behind the two.                                 *)

(* Whatever the service, a call carries what its purpose needs.            *)
CallRecords ==
    [step : CallSteps, ticket : Nat \union {None}, vault : VaultIds, purpose : Purposes,
     arg : Envelopes \union Headers \union Candidates \union {None}]

CallHolds(k) ==
    call[k] # Idle =>
        /\ At(k, "verified") => call[k].ticket \in 1..Len(ticket)
        /\ At(k, "install") => call[k].purpose = "install"
        /\ At(k, "opening") => call[k].arg \in Headers \union {None}
        /\ At(k, "reserved") \/ At(k, "signed") =>
              call[k].purpose = "transition" /\ Recorded(call[k].vault, call[k].arg)
        /\ call[k].purpose = "install" => call[k].arg \in Envelopes
        /\ call[k].purpose = "transition" => call[k].arg \in Candidates

SavingsTypes ==
    /\ journal \in Seq(Events)
    /\ signatures \subseteq [vault : VaultIds, candidate : Candidates]
    /\ call \in [Calls -> CallRecords \union {Idle}]

LatestEvent(v, coin) ==
    EventsOf(v, coin) # {} =>
        \E i \in EventsOf(v, coin) : \A j \in EventsOf(v, coin) : i >= j

(* All events of a coin name one destination.                              *)
OneDestinationRecorded ==
    \A i, j \in DOMAIN journal :
        (journal[i].vault = journal[j].vault /\ journal[i].candidate.coin = journal[j].candidate.coin)
            => Dest(journal[i].candidate) = Dest(journal[j].candidate)

SavingsInv ==
    /\ SavingsTypes
    /\ \A k \in Calls : CallHolds(k)
    /\ \A v \in VaultIds, coin \in Coins : LatestEvent(v, coin)
    /\ OneDestinationRecorded
    /\ NoUnrecordedSignature
=============================================================================
