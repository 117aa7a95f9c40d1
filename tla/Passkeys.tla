------------------------------- MODULE Passkeys -------------------------------
(***************************************************************************)
(* Passkey registration: WebAuthnService.beginRegistration and             *)
(* completeRegistration behind the routes of passkeyRoutes.ts, with the    *)
(* tables passkey_registrations, passkey_credentials and the               *)
(* PASSKEY_ENROLLED row of user_capabilities.                              *)
(*                                                                         *)
(* A handler runs in one piece up to an await and in one piece after it.   *)
(* Both registration handlers await a call of @simplewebauthn/server, so   *)
(* each is two actions, and what the handler remembers over the await is   *)
(* kept in regCall.  Each SQLite transaction lies within one piece.        *)
(* A request that is refused before the await changes nothing and is not   *)
(* an action.                                                              *)
(***************************************************************************)
EXTENDS Integers, FiniteSets

CONSTANTS
    Users,              \* rows of the users table (seeded, never changed)
    SeedEnrolled,       \* users whose PASSKEY_ENROLLED is seeded as available
    CredentialIds,      \* credential ids authenticators may produce
    CeremonyIds,        \* ids newId("reg") may draw
    RegistrationCalls,  \* registration requests the server works on at once
    Origins,            \* web origins, as new URL(header).origin gives them
    DefaultOrigin,      \* WEBAUTHN_ORIGIN, for a request without Origin header
    NoOrigin,           \* a request without Origin header
    Counters,           \* signature counters authenticators report
    Ttl,                \* lifetime of a ceremony and of a challenge
    MaxTime,            \* bound on the clock
    DemoMode,           \* DEMO_MODE # "false"
    MayCrash,           \* whether the server process may stop and restart
    NoRow,              \* "there is no such row"
    Idle                \* "this slot works on no request"

VARIABLES
    clock,              \* Date.now(), in steps the lifetimes can tell apart
    registrations,      \* passkey_registrations by id
    credentials,        \* passkey_credentials by id
    enrolled,           \* PASSKEY_ENROLLED of each user
    regCall             \* what each registration request in flight remembers

passkeyTables == <<registrations, credentials, enrolled>>
passkeyVars == <<registrations, credentials, enrolled, regCall>>

\* consumed_at of a row that is not consumed (NULL in the table).
NotYet == -1

Headers == Origins \cup {NoOrigin}

Ceremony == [user: Users, origin: Origins, createdAt: Nat, expiresAt: Nat,
             consumedAt: Nat \cup {NotYet}]

Credential == [user: Users, counter: Counters, createdAt: Nat]

\* What an authenticator returns to a registration: the id and the counter of
\* the new credential, over the ceremony and the origin the browser signed.
Attestation == [credential: CredentialIds, signedFor: CeremonyIds,
                origin: Origins, counter: Counters]

BeginCall == [kind: {"begin"}, user: Users, origin: Origins]

CompleteCall == [kind: {"complete"}, ceremony: CeremonyIds,
                 credential: CredentialIds, counter: Counters,
                 verified: BOOLEAN, at: Nat]

PasskeyAssumption ==
    /\ SeedEnrolled \subseteq Users
    /\ DefaultOrigin \in Origins
    /\ NoOrigin \notin Origins
    /\ Counters \subseteq Nat
    /\ Ttl \in Nat \ {0}
    /\ MaxTime \in Nat
    /\ DemoMode \in BOOLEAN
    /\ MayCrash \in BOOLEAN
    /\ NoRow \notin Ceremony \cup Credential
    /\ Idle \notin BeginCall \cup CompleteCall

ASSUME PasskeyConstants == PasskeyAssumption

-----------------------------------------------------------------------------
(* The server's start: migrations and seed rows.                            *)

PasskeyInit ==
    /\ clock = 0
    /\ registrations = [c \in CeremonyIds |-> NoRow]
    /\ credentials = [k \in CredentialIds |-> NoRow]
    /\ enrolled = [u \in Users |-> u \in SeedEnrolled]
    /\ regCall = [r \in RegistrationCalls |-> Idle]

-----------------------------------------------------------------------------
(* Helpers of the handlers.                                                 *)

\* webauthnService.resolveOrigin: the origin a ceremony is bound to.
BoundOrigin(header) == IF header = NoOrigin THEN DefaultOrigin ELSE header

\* The checks completeRegistration makes before its await.
\* (CeremonyOpenTooLong: with <= at the end of the lifetime.)
CeremonyOpenTooLong(c) ==
    /\ registrations[c] # NoRow
    /\ clock <= registrations[c].expiresAt
    /\ registrations[c].consumedAt = NotYet

CeremonyOpen(c) ==
    /\ registrations[c] # NoRow
    /\ clock < registrations[c].expiresAt
    /\ registrations[c].consumedAt = NotYet

\* verifyRegistrationResponse (external): challenge and origin as expected.
AttestationHolds(c, a) ==
    /\ a.signedFor = c
    /\ a.origin = registrations[c].origin

\* PasskeyRegistrationRepository.consume: UPDATE .. WHERE consumed_at IS NULL.
StillUnconsumed(c) == registrations[c].consumedAt = NotYet

ConsumeCeremony(c, at) ==
    registrations' = [registrations EXCEPT ![c].consumedAt = at]

-----------------------------------------------------------------------------
(* POST /passkeys/register/options                                          *)

\* beginRegistration up to the await of generateRegistrationOptions.  The ids
\* of the user's credentials go into the options the browser receives; the
\* server keeps nothing of them.
BeginRegistration(r, u, header) ==
    /\ DemoMode
    /\ regCall[r] = Idle
    /\ regCall' = [regCall EXCEPT ![r] =
                     [kind |-> "begin", user |-> u, origin |-> BoundOrigin(header)]]
    /\ UNCHANGED <<clock, passkeyTables>>

\* The rest of beginRegistration: the lifetime counts from after the await.
IssueCeremony(r, c) ==
    /\ regCall[r] # Idle
    /\ regCall[r].kind = "begin"
    /\ registrations[c] = NoRow
    /\ registrations' = [registrations EXCEPT ![c] =
                           [user       |-> regCall[r].user,
                            origin     |-> regCall[r].origin,
                            createdAt  |-> clock,
                            expiresAt  |-> clock + Ttl,
                            consumedAt |-> NotYet]]
    /\ regCall' = [regCall EXCEPT ![r] = Idle]
    /\ UNCHANGED <<clock, credentials, enrolled>>

-----------------------------------------------------------------------------
(* POST /passkeys/register/verify                                           *)

\* completeRegistration up to the await of verifyRegistrationResponse: the
\* ceremony's checks, and the time the rest of the handler will write.
StartCompletion(r, c, a) ==
    /\ DemoMode
    /\ regCall[r] = Idle
    /\ CeremonyOpen(c)
    /\ regCall' = [regCall EXCEPT ![r] =
                     [kind |-> "complete", ceremony |-> c,
                      credential |-> a.credential, counter |-> a.counter,
                      verified |-> AttestationHolds(c, a), at |-> clock]]
    /\ UNCHANGED <<clock, passkeyTables>>

\* The transaction of completeRegistration commits: the ceremony is consumed,
\* the credential stored and the capability switched on, all or nothing.
\* (CompletionReplaces: with INSERT OR REPLACE for the credential;
\* CompletionIfStillOpen: with the lifetime checked once more at the end.)
CompletionReplaces(call) ==
    /\ call.verified
    /\ StillUnconsumed(call.ceremony)

CompletionIfStillOpen(call) ==
    /\ call.verified
    /\ CeremonyOpen(call.ceremony)
    /\ credentials[call.credential] = NoRow

CompletionCommits(call) ==
    /\ call.verified
    /\ StillUnconsumed(call.ceremony)
    /\ credentials[call.credential] = NoRow

\* (StoreCredentialOnly: with the capability forgotten.)
StoreCredentialOnly(call) ==
    /\ credentials' = [credentials EXCEPT ![call.credential] =
                         [user |-> registrations[call.ceremony].user,
                          counter |-> call.counter, createdAt |-> call.at]]
    /\ UNCHANGED enrolled

StoreCredential(call) ==
    LET owner == registrations[call.ceremony].user IN
    /\ credentials' = [credentials EXCEPT ![call.credential] =
                         [user |-> owner, counter |-> call.counter,
                          createdAt |-> call.at]]
    /\ enrolled' = [enrolled EXCEPT ![owner] = TRUE]

FinishCompletion(r) ==
    /\ regCall[r] # Idle
    /\ regCall[r].kind = "complete"
    /\ CompletionCommits(regCall[r])
    /\ ConsumeCeremony(regCall[r].ceremony, regCall[r].at)
    /\ StoreCredential(regCall[r])
    /\ regCall' = [regCall EXCEPT ![r] = Idle]
    /\ UNCHANGED clock

\* What a refused completion leaves in the tables.  "Already used" and the
\* PRIMARY KEY conflict of a credential id that is stored already both roll
\* the transaction back, the consumption of the ceremony included.
\* (ConsumedAnyway: with the consumption outside the transaction.)
ConsumedAnyway(call) ==
    /\ ConsumeCeremony(call.ceremony, call.at)
    /\ UNCHANGED <<credentials, enrolled>>

RolledBack(call) == UNCHANGED passkeyTables

RefuseCompletion(r) ==
    /\ regCall[r] # Idle
    /\ regCall[r].kind = "complete"
    /\ ~CompletionCommits(regCall[r])
    /\ RolledBack(regCall[r])
    /\ regCall' = [regCall EXCEPT ![r] = Idle]
    /\ UNCHANGED clock

-----------------------------------------------------------------------------
(* The environment of the handlers, and the specification.                  *)

Tick ==
    /\ clock < MaxTime
    /\ clock' = clock + 1

\* The process stops and starts again: requests in flight are forgotten, what
\* was committed stays.
LoseRegistrationCalls == regCall' = [r \in RegistrationCalls |-> Idle]

FinishRegistration(r) ==
    \/ \E c \in CeremonyIds : IssueCeremony(r, c)
    \/ FinishCompletion(r)
    \/ RefuseCompletion(r)

PasskeyStep(r) ==
    \/ \E u \in Users, h \in Headers : BeginRegistration(r, u, h)
    \/ \E c \in CeremonyIds, a \in Attestation : StartCompletion(r, c, a)
    \/ FinishRegistration(r)

PasskeyNext ==
    \/ \E r \in RegistrationCalls : PasskeyStep(r)
    \/ Tick /\ UNCHANGED passkeyVars
    \/ MayCrash /\ LoseRegistrationCalls /\ UNCHANGED <<clock, passkeyTables>>

\* A continuation whose promise is settled is run by the event loop.
PasskeyFairness ==
    \A r \in RegistrationCalls :
        WF_<<clock, passkeyVars>>(FinishRegistration(r))

PasskeySpec ==
    PasskeyInit /\ [][PasskeyNext]_<<clock, passkeyVars>> /\ PasskeyFairness

-----------------------------------------------------------------------------
(* Properties.                                                              *)

Stored == {k \in CredentialIds : credentials[k] # NoRow}
Consumed == {c \in CeremonyIds : /\ registrations[c] # NoRow
                                 /\ registrations[c].consumedAt # NotYet}

\* Every variable has its type.
PasskeyTypeOK ==
    /\ clock \in Nat
    /\ registrations \in [CeremonyIds -> Ceremony \cup {NoRow}]
    /\ credentials \in [CredentialIds -> Credential \cup {NoRow}]
    /\ enrolled \in [Users -> BOOLEAN]
    /\ regCall \in [RegistrationCalls -> BeginCall \cup CompleteCall \cup {Idle}]

\* A consumed ceremony has stored one credential and a credential is stored by
\* one ceremony, however many completions of one ceremony overlap and however
\* many fail on the credential's primary key after consuming the ceremony.
OneCredentialPerCeremony == Cardinality(Stored) = Cardinality(Consumed)

\* A stored credential belongs to the user of a ceremony that was completed in
\* time, at the moment the credential says: a response to one user's ceremony
\* never enrols another user, although the commit comes after an await.
CredentialHasCeremony ==
    \A k \in Stored : \E c \in Consumed :
        /\ registrations[c].user = credentials[k].user
        /\ registrations[c].consumedAt = credentials[k].createdAt
        /\ registrations[c].createdAt <= registrations[c].consumedAt
        /\ registrations[c].consumedAt < registrations[c].expiresAt

\* The capability gate and the credential table agree: PASSKEY_ENROLLED is
\* available exactly for the seeded users and the owners of a credential.
EnrolledMatchesCredentials ==
    \A u \in Users :
        enrolled[u] <=> \/ u \in SeedEnrolled
                        \/ \E k \in Stored : credentials[k].user = u

\* A stored credential keeps its owner and a consumed ceremony stays consumed:
\* a second registration of the same authenticator replaces nothing.
RegistrationsAreFinal ==
    [][ /\ \A k \in Stored : credentials'[k] = credentials[k]
        /\ \A c \in Consumed : registrations'[c] = registrations[c]
      ]_passkeyVars

\* Unless the process stops, a completion whose attestation holds ends with
\* its ceremony consumed or with its credential stored by somebody else.
CompletionSettles ==
    \A c \in CeremonyIds, k \in CredentialIds :
        (\E r \in RegistrationCalls :
            /\ regCall[r] # Idle
            /\ regCall[r].kind = "complete"
            /\ regCall[r].verified
            /\ regCall[r].ceremony = c
            /\ regCall[r].credential = k)
        ~> (c \in Consumed \/ k \in Stored)

=============================================================================
