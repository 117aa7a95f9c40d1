------------------------------ MODULE Challenges ------------------------------
(***************************************************************************)
(* The challenge service: ChallengeService.createChallenge and             *)
(* verifyChallenge with the PASSKEY adapters, the tables they read and     *)
(* write (decisions, transactions, trace_events, challenges and the        *)
(* credentials of Passkeys), the arrival of new decisions, and the demo    *)
(* reset that empties the tables under requests in flight.                 *)
(*                                                                         *)
(* A decision and its transaction are inserted and deleted together and    *)
(* are one to one, so both go by the decision's id.  Each handler is       *)
(* split at its await, as in Passkeys.                                     *)
(***************************************************************************)
EXTENDS Passkeys

CONSTANTS
    DecisionIds,        \* ids newId("dec") may draw
    ChallengeIds,       \* ids newId("ch") may draw
    CreateCalls,        \* challenge creations the server works on at once
    VerifyCalls,        \* verifications the server works on at once
    FactorMaps,         \* factor statuses the engine persists with decisions
    CoreEvents,         \* trace events the engine persists with a decision
    SecureOrigins,      \* origins isSecureWebAuthnOrigin accepts
    NoCredential,       \* an adapter result that names no credential
    NoDecision          \* what a challenge that is not issued is bound to

VARIABLES
    decisions,          \* decisions and their factor_evaluations, by id
    status,             \* transactions.status, by decision
    trace,              \* trace_events, a set of rows
    challenges,         \* challenges by id
    drawn,              \* ids drawn so far: newId repeats none
    createCall,         \* what each creation in flight remembers
    verifyCall          \* what each verification in flight remembers

caseTables == <<decisions, status, trace, challenges>>
challengeVars == <<decisions, status, trace, challenges, drawn,
                   createCall, verifyCall>>
vars == <<clock, passkeyVars, challengeVars>>

Factors == {"SMS_OTP", "PASSKEY", "TOTP", "PIN"}
FactorStatuses == {"ELIGIBLE", "INELIGIBLE", "UNAVAILABLE"}
Modes == {"SIMULATED", "WEBAUTHN"}

\* Transaction statuses; "NONE" stands for no such transaction.
Statuses == {"NONE", "PENDING", "AUTHORIZED", "DENIED"}

Decision == [user: Users, factors: FactorMaps]

TraceRow == [decision: DecisionIds, sequence: Nat, phase: {"CORE", "CHALLENGE", "OUTCOME"},
             code: {"core", "challenge_created", "challenge_verified", "challenge_denied"}]

Challenge == [decision: DecisionIds, factor: Factors, mode: Modes, origin: Headers,
              createdAt: Nat, expiresAt: Nat, consumedAt: Nat \cup {NotYet},
              verified: BOOLEAN]

\* An authenticator's answer: the credential that signed, for which challenge
\* and origin, and its signature counter.  NoOrigin: it signed nothing.
Assertion == [credential: CredentialIds, signedFor: ChallengeIds,
              origin: Headers, counter: Counters]

\* VerifyChallengeResult of an adapter.
AdapterResult == [verified: BOOLEAN, credential: CredentialIds \cup {NoCredential},
                  newCounter: Nat]

CreateCall == [decision: DecisionIds, factor: Factors, mode: Modes,
               origin: Headers, createdAt: Nat, expiresAt: Nat]

VerifyCall == [challenge: ChallengeIds, decision: DecisionIds,
               result: AdapterResult, at: Nat]

ChallengeAssumption ==
    /\ FactorMaps \subseteq [Factors -> FactorStatuses]
    /\ CoreEvents \in Nat \ {0}
    /\ SecureOrigins \subseteq Origins
    /\ NoCredential \notin CredentialIds
    /\ NoDecision \notin DecisionIds
    /\ DecisionIds \cap ChallengeIds = {}
    /\ NoRow \notin Decision \cup Challenge
    /\ Idle \notin CreateCall \cup VerifyCall

ASSUME ChallengeConstants == ChallengeAssumption

Init ==
    /\ PasskeyInit
    /\ decisions = [d \in DecisionIds |-> NoRow]
    /\ status = [d \in DecisionIds |-> "NONE"]
    /\ trace = {}
    /\ challenges = [c \in ChallengeIds |-> NoRow]
    /\ drawn = {}
    /\ createCall = [r \in CreateCalls |-> Idle]
    /\ verifyCall = [r \in VerifyCalls |-> Idle]

-----------------------------------------------------------------------------
(* trace_events                                                             *)

SequencesOf(d) == {e.sequence : e \in {t \in trace : t.decision = d}}

\* appendChallengeTrace: one more than the largest sequence of the decision.
\* (NextSequenceOfPhase: counting the events of its own phases only.)
NextSequenceOfPhase(d) ==
    Cardinality({t \in trace : t.decision = d /\ t.phase # "CORE"})

NextSequence(d) ==
    CHOOSE n \in {s + 1 : s \in SequencesOf(d)} \cup {0} :
        \A s \in SequencesOf(d) : s < n

AppendTrace(d, phase, code) ==
    trace' = trace \cup {[decision |-> d, sequence |-> NextSequence(d),
                          phase |-> phase, code |-> code]}

-----------------------------------------------------------------------------
(* Decisions arrive.                                                        *)

\* The transaction with which createDecision and createReplay persist what
\* the engine decided: a pending transaction, the decision with the status of
\* every factor, and the engine's trace, numbered from 0.
PersistDecision(d, u, m) ==
    /\ d \notin drawn
    /\ decisions' = [decisions EXCEPT ![d] = [user |-> u, factors |-> m]]
    /\ status' = [status EXCEPT ![d] = "PENDING"]
    /\ trace' = trace \cup [decision: {d}, sequence: 0..CoreEvents - 1,
                            phase: {"CORE"}, code: {"core"}]
    /\ drawn' = drawn \cup {d}
    /\ UNCHANGED <<clock, passkeyVars, challenges, createCall, verifyCall>>

-----------------------------------------------------------------------------
(* POST /challenges                                                         *)

\* The persisted factor decision is enforced, never recomputed.
\* (NotIneligible: with UNAVAILABLE let through.)
NotIneligible(d, f) == decisions[d].factors[f] # "INELIGIBLE"
Eligible(d, f) == decisions[d].factors[f] = "ELIGIBLE"

\* buildFactorAdapters registers an adapter for one factor only.
HasAdapter(f) == f = "PASSKEY"

\* (SaidToBeEnrolled: with the capability in place of the credential table.)
SaidToBeEnrolled(u) == enrolled[u]
HasCredentials(u) == \E k \in Stored : credentials[k].user = u

\* WebAuthnPasskeyAdapter.createChallenge, or the simulated adapter when the
\* demo client prefers it.
RunsRealCeremony(d, header, preferSimulated) ==
    /\ ~preferSimulated
    /\ BoundOrigin(header) \in SecureOrigins
    /\ HasCredentials(decisions[d].user)

\* createChallenge up to the adapter's await.  The lifetime counts from
\* before the await.
StartCreate(r, d, f, header, preferSimulated) ==
    LET real == RunsRealCeremony(d, header, preferSimulated) IN
    /\ createCall[r] = Idle
    /\ decisions[d] # NoRow
    /\ Eligible(d, f)
    /\ preferSimulated => DemoMode
    /\ HasAdapter(f)
    /\ createCall' = [createCall EXCEPT ![r] =
                        [decision  |-> d,
                         factor    |-> f,
                         mode      |-> IF real THEN "WEBAUTHN" ELSE "SIMULATED",
                         origin    |-> IF real THEN BoundOrigin(header) ELSE NoOrigin,
                         createdAt |-> clock,
                         expiresAt |-> clock + Ttl]]
    /\ UNCHANGED <<clock, passkeyVars, caseTables, drawn, verifyCall>>

\* The foreign key of challenges and trace_events to decisions.
\* (ForeignKeysOff: without the pragma of openDatabase.)
ForeignKeysOff(d) == TRUE
ForeignKeyHolds(d) == decisions[d] # NoRow

\* The transaction of createChallenge.
FinishCreate(r, c) ==
    /\ createCall[r] # Idle
    /\ c \notin drawn
    /\ ForeignKeyHolds(createCall[r].decision)
    /\ challenges' = [challenges EXCEPT ![c] =
                        [decision   |-> createCall[r].decision,
                         factor     |-> createCall[r].factor,
                         mode       |-> createCall[r].mode,
                         origin     |-> createCall[r].origin,
                         createdAt  |-> createCall[r].createdAt,
                         expiresAt  |-> createCall[r].expiresAt,
                         consumedAt |-> NotYet,
                         verified   |-> FALSE]]
    /\ AppendTrace(createCall[r].decision, "CHALLENGE", "challenge_created")
    /\ drawn' = drawn \cup {c}
    /\ createCall' = [createCall EXCEPT ![r] = Idle]
    /\ UNCHANGED <<clock, passkeyVars, decisions, status, verifyCall>>

\* The decision was reset away during the await: the foreign key fails, the
\* transaction rolls back and the request ends with an internal error.
FailCreate(r) ==
    /\ createCall[r] # Idle
    /\ ~ForeignKeyHolds(createCall[r].decision)
    /\ createCall' = [createCall EXCEPT ![r] = Idle]
    /\ UNCHANGED <<clock, passkeyVars, caseTables, drawn, verifyCall>>

-----------------------------------------------------------------------------
(* POST /challenges/:challengeId/verify                                     *)

\* challengeService.resolveOrigin: unlike in BoundOrigin, a request without
\* Origin header has no origin at all.
OriginMatches(c, header) ==
    challenges[c].mode = "WEBAUTHN" => header = challenges[c].origin

\* (NotPastExpiry: with the expiry itself still in time.)
NotPastExpiry(c) == clock <= challenges[c].expiresAt
NotExpired(c) == clock < challenges[c].expiresAt

\* The checks verifyChallenge makes before it calls the adapter.
Admissible(c, header) ==
    /\ challenges[c] # NoRow
    /\ NotExpired(c)
    /\ challenges[c].consumedAt = NotYet
    /\ OriginMatches(c, header)

\* PasskeyCredentialRepository.findByIdAndUser
\* (ExistsFor: findById in its place.)
ExistsFor(k, u) == credentials[k] # NoRow
OwnedBy(k, u) ==
    /\ credentials[k] # NoRow
    /\ credentials[k].user = u

\* verifyAuthenticationResponse (external): the assertion was made for this
\* challenge and origin, and a counter that is in use has advanced.
AssertionHolds(c, a) ==
    /\ a.signedFor = c
    /\ a.origin = challenges[c].origin
    /\ \/ a.counter = 0 /\ credentials[a.credential].counter = 0
       \/ a.counter > credentials[a.credential].counter

\* What the adapter answers: SimulatedPasskeyAdapter goes by simulatedOk,
\* verifyAuthentication by the assertion and the owner of its credential.
AuthenticationHolds(c, a) ==
    /\ OwnedBy(a.credential, decisions[challenges[c].decision].user)
    /\ AssertionHolds(c, a)

ResultFor(c, simulatedOk, a) ==
    IF challenges[c].mode = "SIMULATED"
    THEN [verified |-> simulatedOk, credential |-> NoCredential, newCounter |-> 0]
    ELSE IF AuthenticationHolds(c, a)
    THEN [verified |-> TRUE, credential |-> a.credential, newCounter |-> a.counter]
    ELSE [verified |-> FALSE, credential |-> NoCredential, newCounter |-> 0]

\* verifyChallenge up to the adapter's await.  The adapter has read what it
\* needs from the tables by then.
StartVerify(r, c, header, simulatedOk, a) ==
    /\ verifyCall[r] = Idle
    /\ Admissible(c, header)
    /\ verifyCall' = [verifyCall EXCEPT ![r] =
                        [challenge |-> c, decision |-> challenges[c].decision,
                         result |-> ResultFor(c, simulatedOk, a), at |-> clock]]
    /\ UNCHANGED <<clock, passkeyVars, caseTables, drawn, createCall>>

\* ChallengeRepository.consume: UPDATE .. WHERE id = ? AND consumed_at IS NULL
\* changes one row.
\* (Exists: without the second condition; ConsumableInTime: with a third one,
\* that the challenge has not expired during the await.)
Exists(c) == challenges[c] # NoRow

ConsumableInTime(c) ==
    /\ challenges[c] # NoRow
    /\ challenges[c].consumedAt = NotYet
    /\ NotExpired(c)

Consumable(c) ==
    /\ challenges[c] # NoRow
    /\ challenges[c].consumedAt = NotYet

\* (ConsumeWithoutVerdict: with the verified column forgotten.)
ConsumeWithoutVerdict(c, verdict, at) ==
    challenges' = [challenges EXCEPT ![c].consumedAt = at]

ConsumeChallenge(c, verdict, at) ==
    challenges' = [challenges EXCEPT ![c].consumedAt = at, ![c].verified = verdict]

\* TransactionRepository.updateStatus, whatever the status was before.
\* (UpdateStatusOnce: only from PENDING; CopyStatus: writing "VERIFIED", which
\* is no transaction status.)
UpdateStatusOnce(d, verdict) ==
    status' = [status EXCEPT ![d] = IF @ # "PENDING" THEN @
                                    ELSE IF verdict THEN "AUTHORIZED" ELSE "DENIED"]

CopyStatus(d, verdict) ==
    status' = [status EXCEPT ![d] = IF verdict THEN "VERIFIED" ELSE "DENIED"]

UpdateStatus(d, verdict) ==
    status' = [status EXCEPT ![d] = IF verdict THEN "AUTHORIZED" ELSE "DENIED"]

\* The signature counters after a verification: the service leaves them.
PersistCounter(result) == UNCHANGED credentials

\* The transaction of verifyChallenge commits.
FinishVerify(r) ==
    LET call == verifyCall[r]
        verdict == call.result.verified IN
    /\ call # Idle
    /\ Consumable(call.challenge)
    /\ ConsumeChallenge(call.challenge, verdict, call.at)
    /\ UpdateStatus(call.decision, verdict)
    /\ AppendTrace(call.decision, "OUTCOME",
                   IF verdict THEN "challenge_verified" ELSE "challenge_denied")
    /\ PersistCounter(call.result)
    /\ verifyCall' = [verifyCall EXCEPT ![r] = Idle]
    /\ UNCHANGED <<clock, registrations, enrolled, regCall,
                   decisions, drawn, createCall>>

\* Another verification consumed the challenge during the await, or a reset
\* deleted it: "already been consumed", and nothing is written.
RefuseVerify(r) ==
    /\ verifyCall[r] # Idle
    /\ ~Consumable(verifyCall[r].challenge)
    /\ verifyCall' = [verifyCall EXCEPT ![r] = Idle]
    /\ UNCHANGED <<clock, passkeyVars, caseTables, drawn, createCall>>

-----------------------------------------------------------------------------
(* POST /demo/reset, the clock, and restarts                                *)

\* One transaction empties the case tables.  Credentials, registrations and
\* capabilities survive, and so do the requests in flight.
Reset ==
    /\ DemoMode
    /\ decisions' = [d \in DecisionIds |-> NoRow]
    /\ status' = [d \in DecisionIds |-> "NONE"]
    /\ trace' = {}
    /\ challenges' = [c \in ChallengeIds |-> NoRow]
    /\ UNCHANGED <<clock, passkeyVars, drawn, createCall, verifyCall>>

\* The process stops and starts again: what SQLite committed is still there,
\* the handlers are not.
Crash ==
    /\ MayCrash
    /\ LoseRegistrationCalls
    /\ createCall' = [r \in CreateCalls |-> Idle]
    /\ verifyCall' = [r \in VerifyCalls |-> Idle]
    /\ UNCHANGED <<clock, passkeyTables, caseTables, drawn>>

-----------------------------------------------------------------------------

EndCreate(r) == (\E c \in ChallengeIds : FinishCreate(r, c)) \/ FailCreate(r)
EndVerify(r) == FinishVerify(r) \/ RefuseVerify(r)

Next ==
    \/ \E d \in DecisionIds, u \in Users, m \in FactorMaps : PersistDecision(d, u, m)
    \/ \E r \in CreateCalls, d \in DecisionIds, f \in Factors, h \in Headers,
          p \in BOOLEAN : StartCreate(r, d, f, h, p)
    \/ \E r \in CreateCalls : EndCreate(r)
    \/ \E r \in VerifyCalls, c \in ChallengeIds, h \in Headers, ok \in BOOLEAN,
          a \in Assertion : StartVerify(r, c, h, ok, a)
    \/ \E r \in VerifyCalls : EndVerify(r)
    \/ \E r \in RegistrationCalls : PasskeyStep(r) /\ UNCHANGED challengeVars
    \/ Reset
    \/ Crash
    \/ Tick /\ UNCHANGED <<passkeyVars, challengeVars>>

\* The event loop runs every continuation whose promise has settled.
Fairness ==
    /\ \A r \in CreateCalls : WF_vars(EndCreate(r))
    /\ \A r \in VerifyCalls : WF_vars(EndVerify(r))
    /\ \A r \in RegistrationCalls : WF_vars(FinishRegistration(r) /\ UNCHANGED challengeVars)

Spec == Init /\ [][Next]_vars /\ Fairness

-----------------------------------------------------------------------------
(* Properties.                                                              *)

Live(c) == challenges[c] # NoRow
Settled(c) == Live(c) /\ challenges[c].consumedAt # NotYet
OutcomesOf(d) == {t \in trace : t.decision = d /\ t.phase = "OUTCOME"}

\* Every variable has its type.
TypeOK ==
    /\ PasskeyTypeOK
    /\ decisions \in [DecisionIds -> Decision \cup {NoRow}]
    /\ status \in [DecisionIds -> Statuses]
    /\ trace \subseteq TraceRow
    /\ challenges \in [ChallengeIds -> Challenge \cup {NoRow}]
    /\ drawn \subseteq DecisionIds \cup ChallengeIds
    /\ createCall \in [CreateCalls -> CreateCall \cup {Idle}]
    /\ verifyCall \in [VerifyCalls -> VerifyCall \cup {Idle}]

\* No challenge, trace event or transaction outlives its decision, although a
\* reset may run during the await of a creation or a verification.
NoOrphans ==
    /\ \A c \in ChallengeIds : Live(c) => decisions[challenges[c].decision] # NoRow
    /\ \A t \in trace : decisions[t.decision] # NoRow
    /\ \A d \in DecisionIds : status[d] = "NONE" <=> decisions[d] = NoRow

\* A challenge exists only for a factor its decision holds eligible and some
\* adapter can run, in the mode the adapter chose for an origin it may use.
OnlyEligibleFactorsChallenged ==
    \A c \in ChallengeIds : Live(c) =>
        /\ decisions[challenges[c].decision].factors[challenges[c].factor] = "ELIGIBLE"
        /\ challenges[c].factor = "PASSKEY"
        /\ challenges[c].mode = "WEBAUTHN" => challenges[c].origin \in SecureOrigins

\* The events of a decision are numbered 0, 1, 2 .. without gap or repetition,
\* whichever handlers append to its trace between their awaits.
TraceGapless ==
    /\ \A t1, t2 \in trace :
          t1.decision = t2.decision /\ t1.sequence = t2.sequence => t1 = t2
    /\ \A d \in DecisionIds :
          \E n \in {s + 1 : s \in SequencesOf(d)} \cup {0} :
             SequencesOf(d) = 0..(n - 1)

\* The status of a transaction is the verdict of the last OUTCOME event in its
\* decision's trace, and it is pending as long as there is none: two tables
\* that no verification may leave telling different stories.
StatusTellsLastOutcome ==
    \A d \in DecisionIds :
        /\ status[d] = "PENDING" => OutcomesOf(d) = {}
        /\ \A t \in OutcomesOf(d) :
              (\A s \in OutcomesOf(d) : s.sequence <= t.sequence) =>
                  status[d] = IF t.code = "challenge_verified"
                              THEN "AUTHORIZED" ELSE "DENIED"

\* An authorized transaction has a verified challenge of its own decision, for
\* an eligible factor, that was answered between its creation and its expiry.
AuthorizedIsEarned ==
    \A d \in DecisionIds : status[d] = "AUTHORIZED" =>
        \E c \in ChallengeIds :
            /\ Settled(c)
            /\ challenges[c].verified
            /\ challenges[c].decision = d
            /\ Eligible(d, challenges[c].factor)
            /\ challenges[c].createdAt <= challenges[c].consumedAt
            /\ challenges[c].consumedAt < challenges[c].expiresAt

\* Every settled challenge has its one OUTCOME event and every challenge its
\* one CHALLENGE event: a double submit, a refused verification or a failed
\* creation leaves no event behind.
OneEventPerChange ==
    \A d \in DecisionIds :
        LET mine == {c \in ChallengeIds : Live(c) /\ challenges[c].decision = d}
            settled == {c \in mine : Settled(c)}
            coded(code) == {t \in trace : t.decision = d /\ t.code = code}
        IN  /\ Cardinality(coded("challenge_created")) = Cardinality(mine)
            /\ Cardinality(coded("challenge_verified")) =
                 Cardinality({c \in settled : challenges[c].verified})
            /\ Cardinality(coded("challenge_denied")) =
                 Cardinality({c \in settled : ~challenges[c].verified})

\* A verification about to authorize through a real ceremony relies on a
\* credential of the decision's own user.
AcceptedCredentialIsOwned ==
    \A r \in VerifyCalls :
        LET call == verifyCall[r] IN
        ( /\ call # Idle
          /\ call.result.verified
          /\ Live(call.challenge)
          /\ challenges[call.challenge].mode = "WEBAUTHN" )
        => /\ call.result.credential \in Stored
           /\ credentials[call.result.credential].user = decisions[call.decision].user

\* A real ceremony is only asked of a user who has a credential to answer with,
\* whatever the enrolment capability of the user says.
RealCeremonyNeedsCredential ==
    \A c \in ChallengeIds :
        Live(c) /\ challenges[c].mode = "WEBAUTHN" =>
            \E k \in Stored :
                credentials[k].user = decisions[challenges[c].decision].user

\* A settled challenge never changes again and an event never leaves a trace,
\* except that a reset deletes them all.
SettledIsFinal ==
    [][ \/ /\ \A c \in ChallengeIds : Settled(c) => challenges'[c] = challenges[c]
           /\ trace \subseteq trace'
        \/ /\ \A c \in ChallengeIds : challenges'[c] = NoRow
           /\ trace' = {} ]_vars

\* Unless the process stops, a challenge whose verification has begun ends up
\* settled or deleted, also when several verifications of it overlap.
VerificationSettles ==
    \A c \in ChallengeIds :
        (\E r \in VerifyCalls : verifyCall[r] # Idle /\ verifyCall[r].challenge = c)
        ~> (Settled(c) \/ (c \in drawn /\ ~Live(c)))

\* The signature counter of the credential that carried a verification is
\* stored in the step that consumes the challenge.
CounterAdvances ==
    [][ \A r \in VerifyCalls :
          ( /\ verifyCall[r] # Idle
            /\ verifyCall[r].result.verified
            /\ verifyCall[r].result.credential # NoCredential
            /\ Consumable(verifyCall[r].challenge)
            /\ verifyCall'[r] = Idle
            /\ challenges'[verifyCall[r].challenge] # challenges[verifyCall[r].challenge] )
          => credentials'[verifyCall[r].result.credential].counter
               = verifyCall[r].result.newCounter ]_vars

-----------------------------------------------------------------------------
(* The service keeps the promise of OneTimeChallenge.                       *)

PhaseOf(c) ==
    CASE ~Live(c) /\ c \notin drawn -> "unused"
      [] ~Live(c) /\ c \in drawn -> "wiped"
      [] Live(c) /\ ~Settled(c) -> "open"
      [] Settled(c) /\ challenges[c].verified -> "verified"
      [] Settled(c) /\ ~challenges[c].verified -> "denied"

Promise == INSTANCE OneTimeChallenge WITH
    phase   <- [c \in ChallengeIds |-> PhaseOf(c)],
    boundTo <- [c \in ChallengeIds |->
                  IF Live(c) THEN challenges[c].decision ELSE NoDecision],
    outcome <- status

\* Challenges, seen through its tables, are one-time challenges.
PromiseKept == Promise!PromiseSpec

=============================================================================
