--------------------------- MODULE ChallengesProofs ---------------------------
(***************************************************************************)
(* Proofs about Challenges for every number of decisions, challenges and   *)
(* requests in flight.                                                     *)
(*                                                                         *)
(* The handlers check before their await and write after it.  The part of  *)
(* the invariant that makes this sound is what CreationsSound and          *)
(* VerificationsSound say of the calls in flight: unless a reset deleted   *)
(* the row a call works on, everything the call checked is still so, and   *)
(* as newId repeats no id, a deleted row is not replaced by another one.   *)
(***************************************************************************)
EXTENDS Challenges, PasskeysProofs

\* Rows and calls in flight use ids that were drawn.
IdsDrawn ==
    /\ \A d \in DecisionIds : decisions[d] # NoRow => d \in drawn
    /\ \A c \in ChallengeIds : Live(c) => c \in drawn
    /\ \A r \in CreateCalls : createCall[r] # Idle => createCall[r].decision \in drawn
    /\ \A r \in VerifyCalls : verifyCall[r] # Idle => verifyCall[r].challenge \in drawn

\* No challenge was created in the future.
CreatedInThePast ==
    /\ \A c \in ChallengeIds : Live(c) => challenges[c].createdAt <= clock
    /\ \A r \in CreateCalls : createCall[r] # Idle => createCall[r].createdAt <= clock

\* A creation in flight passed the factor gate of its decision, if that is
\* still there, and the adapter chose an origin it may use.
CreationsSound ==
    \A r \in CreateCalls : createCall[r] # Idle =>
        LET call == createCall[r] IN
        /\ decisions[call.decision] # NoRow => Eligible(call.decision, call.factor)
        /\ call.factor = "PASSKEY"
        /\ call.mode = "WEBAUTHN" => call.origin \in SecureOrigins

\* A verification in flight began in the lifetime of its challenge, if that is
\* still there, and will settle the transaction the challenge belongs to.
VerificationsSound ==
    \A r \in VerifyCalls : verifyCall[r] # Idle =>
        LET call == verifyCall[r] IN
        Live(call.challenge) =>
            /\ challenges[call.challenge].decision = call.decision
            /\ challenges[call.challenge].createdAt <= call.at
            /\ call.at < challenges[call.challenge].expiresAt

\* What the tables satisfy, and what the calls in flight satisfy.
TablesInv ==
    /\ NoOrphans
    /\ OnlyEligibleFactorsChallenged
    /\ TraceGapless
    /\ StatusTellsLastOutcome
    /\ AuthorizedIsEarned

CallsInv ==
    /\ IdsDrawn
    /\ CreatedInThePast
    /\ CreationsSound
    /\ VerificationsSound

Inv ==
    /\ PasskeyInv
    /\ TypeOK
    /\ TablesInv
    /\ CallsInv

-----------------------------------------------------------------------------
(* The trace.                                                               *)

\* The next sequence number is the length of the trace.
LEMMA NextSequenceIsLength ==
    ASSUME trace \subseteq TraceRow, TraceGapless, NEW d \in DecisionIds
    PROVE  /\ NextSequence(d) \in Nat
           /\ SequencesOf(d) = 0..(NextSequence(d) - 1)
<1> DEFINE S == SequencesOf(d)
           C == {s + 1 : s \in S} \cup {0}
<1>1. S \subseteq Nat
  BY DEF SequencesOf, TraceRow
<1>2. PICK n \in C : S = 0..(n - 1)
  BY DEF TraceGapless
<1>3. n \in Nat
  BY <1>1, <1>2
<1>4. \A s \in S : s < n
  BY <1>2, <1>3
<1>5. NextSequence(d) \in C /\ \A s \in S : s < NextSequence(d)
  BY <1>4 DEF NextSequence
<1>6. NextSequence(d) \in Nat
  BY <1>1, <1>5
<1>7. NextSequence(d) = n
  <2> DEFINE m == NextSequence(d)
  <2>1. m <= n
    <3>1. CASE m = 0
      BY <1>3, <3>1
    <3>2. CASE m # 0
      <4>1. PICK s \in S : m = s + 1
        BY <1>5, <3>2
      <4> QED
        BY <1>1, <1>3, <1>4, <4>1
    <3> QED
      BY <3>1, <3>2
  <2>2. n <= m
    <3>1. CASE n = 0
      BY <1>6, <3>1
    <3>2. CASE n # 0
      <4>1. n - 1 \in S
        BY <1>2, <1>3, <3>2
      <4>2. n - 1 < m
        BY <1>5, <4>1
      <4> QED
        BY <1>3, <1>6, <4>2
    <3> QED
      BY <3>1, <3>2
  <2> QED
    BY <1>3, <1>6, <2>1, <2>2
<1> QED
  BY <1>2, <1>6, <1>7

\* Appending keeps every trace gapless and makes the new event the last one.
LEMMA AppendKeepsGapless ==
    ASSUME trace \subseteq TraceRow, TraceGapless, NEW d \in DecisionIds,
           NEW phase \in {"CORE", "CHALLENGE", "OUTCOME"},
           NEW code \in {"core", "challenge_created", "challenge_verified",
                         "challenge_denied"},
           AppendTrace(d, phase, code)
    PROVE  /\ trace' \subseteq TraceRow
           /\ TraceGapless'
           /\ \A t \in trace : t.decision = d => t.sequence < NextSequence(d)
<1> DEFINE n == NextSequence(d)
           row == [decision |-> d, sequence |-> n, phase |-> phase, code |-> code]
<1>1. n \in Nat /\ SequencesOf(d) = 0..(n - 1)
  BY NextSequenceIsLength
<1>2. trace' = trace \cup {row}
  BY DEF AppendTrace
<1>3. row \in TraceRow
  BY <1>1 DEF TraceRow
<1>4. trace' \subseteq TraceRow
  BY <1>2, <1>3
<1>5. \A t \in trace : t.decision = d => t.sequence < n
  <2> SUFFICES ASSUME NEW t \in trace, t.decision = d PROVE t.sequence < n
    OBVIOUS
  <2>1. t.sequence \in SequencesOf(d)
    BY DEF SequencesOf
  <2> QED
    BY <1>1, <2>1
<1>6. row.decision = d /\ row.sequence = n
  OBVIOUS
<1> HIDE DEF n, row
<1>7. \A t \in trace : t.sequence \in Nat
  BY DEF TraceRow
<1>8. \A t1, t2 \in trace' :
         t1.decision = t2.decision /\ t1.sequence = t2.sequence => t1 = t2
  <2> SUFFICES ASSUME NEW t1 \in trace', NEW t2 \in trace',
                      t1.decision = t2.decision, t1.sequence = t2.sequence
               PROVE  t1 = t2
    OBVIOUS
  <2>1. CASE t1 = row /\ t2 = row
    BY <2>1
  <2>2. CASE t1 = row /\ t2 \in trace
    BY <1>1, <1>5, <1>6, <1>7, <2>2
  <2>3. CASE t1 \in trace /\ t2 = row
    BY <1>1, <1>5, <1>6, <1>7, <2>3
  <2>4. CASE t1 \in trace /\ t2 \in trace
    BY <2>4 DEF TraceGapless
  <2> QED
    BY <1>2, <2>1, <2>2, <2>3, <2>4
<1>9. ASSUME NEW e \in DecisionIds
      PROVE  \E m \in {s + 1 : s \in SequencesOf(e)'} \cup {0} :
                SequencesOf(e)' = 0..(m - 1)
  <2>1. CASE e = d
    <3>1. SequencesOf(e)' = SequencesOf(d) \cup {n}
      BY <1>2, <1>6, <2>1 DEF SequencesOf
    <3>2. SequencesOf(e)' = 0..((n + 1) - 1)
      BY <1>1, <3>1
    <3>3. n + 1 \in {s + 1 : s \in SequencesOf(e)'}
      BY <3>1
    <3> QED
      BY <3>2, <3>3
  <2>2. CASE e # d
    <3>1. SequencesOf(e)' = SequencesOf(e)
      BY <1>2, <1>6, <2>2 DEF SequencesOf
    <3> QED
      BY <3>1 DEF TraceGapless
  <2> QED
    BY <2>1, <2>2
<1>10. TraceGapless'
  BY <1>8, <1>9 DEF TraceGapless
<1> QED
  BY <1>4, <1>5, <1>10 DEF n

-----------------------------------------------------------------------------
(* Passkey registration inside the whole server.                            *)

\* Every step of the server is, for the registration tables, a step of
\* Passkeys or no step at all.
LEMMA NextIsPasskeyStep ==
    ASSUME [Next]_vars
    PROVE  [PasskeyNext]_<<clock, passkeyVars>>
<1>1. ASSUME NEW r \in RegistrationCalls, PasskeyStep(r)
      PROVE  PasskeyNext
  BY <1>1 DEF PasskeyNext
<1>2. CASE Crash
  BY <1>2 DEF Crash, PasskeyNext
<1>3. CASE Tick /\ UNCHANGED <<passkeyVars, challengeVars>>
  BY <1>3 DEF PasskeyNext
<1>4. ASSUME NEW r \in VerifyCalls, FinishVerify(r)
      PROVE  UNCHANGED <<clock, passkeyVars>>
  BY <1>4 DEF FinishVerify, PersistCounter, passkeyVars
<1>5. CASE UNCHANGED <<clock, passkeyVars>>
  BY <1>5
<1> QED
  BY <1>1, <1>2, <1>3, <1>4, <1>5 DEF Next, EndCreate, EndVerify, PersistDecision,
       StartCreate, FinishCreate, FailCreate, StartVerify, RefuseVerify, Reset, vars

-----------------------------------------------------------------------------
(* The inductive invariant: the initial state, and the steps that leave the *)
(* tables of cases alone.                                                   *)

\* The empty tables satisfy the invariant.
LEMMA InvInit == Init => Inv
<1> SUFFICES ASSUME Init PROVE Inv
  OBVIOUS
<1> USE DEF Init
<1>1. PasskeyInv
  BY PasskeyInvInit
<1>2. TypeOK
  BY <1>1 DEF PasskeyInv, TypeOK, Statuses
<1>3. \A d \in DecisionIds : SequencesOf(d) = {}
  BY DEF SequencesOf
<1>4. TraceGapless
  <2>1. \A d \in DecisionIds : SequencesOf(d) = 0..(0 - 1)
    BY <1>3
  <2> QED
    BY <2>1 DEF TraceGapless
<1>5. NoOrphans /\ OnlyEligibleFactorsChallenged /\ StatusTellsLastOutcome
         /\ AuthorizedIsEarned
  BY DEF NoOrphans, OnlyEligibleFactorsChallenged, StatusTellsLastOutcome,
         AuthorizedIsEarned, OutcomesOf, Live
<1>6. CallsInv
  BY DEF CallsInv, IdsDrawn, CreatedInThePast, CreationsSound, VerificationsSound, Live
<1> QED
  BY <1>1, <1>2, <1>4, <1>5, <1>6 DEF Inv, TablesInv

\* What is said of the tables alone survives a step that leaves them alone.
LEMMA TablesUntouched ==
    ASSUME TablesInv, UNCHANGED caseTables
    PROVE  TablesInv'
<1>1. UNCHANGED <<decisions, status, trace, challenges>>
  BY DEF caseTables
<1>2. \A d : SequencesOf(d)' = SequencesOf(d) /\ OutcomesOf(d)' = OutcomesOf(d)
  BY <1>1 DEF SequencesOf, OutcomesOf
<1>3. \A c : (Live(c) <=> Live(c)') /\ (Settled(c) <=> Settled(c)')
  BY <1>1 DEF Live, Settled
<1>4. NoOrphans' /\ OnlyEligibleFactorsChallenged'
  BY <1>1, <1>3 DEF TablesInv, NoOrphans, OnlyEligibleFactorsChallenged
<1>5. TraceGapless'
  BY <1>1, <1>2 DEF TablesInv, TraceGapless
<1>6. StatusTellsLastOutcome'
  BY <1>1, <1>2 DEF TablesInv, StatusTellsLastOutcome
<1>7. AuthorizedIsEarned'
  BY <1>1, <1>3 DEF TablesInv, AuthorizedIsEarned, Eligible
<1> QED
  BY <1>4, <1>5, <1>6, <1>7 DEF TablesInv

\* Steps of the registration handlers, the clock, restarts, and the ends of
\* requests that write nothing: calls may end, and none begins.
LEMMA QuietStepKeepsCalls ==
    ASSUME Inv, PasskeyInv', UNCHANGED <<caseTables, drawn>>,
           clock <= clock',
           createCall' \in [CreateCalls -> CreateCall \cup {Idle}],
           verifyCall' \in [VerifyCalls -> VerifyCall \cup {Idle}],
           \A r \in CreateCalls : createCall'[r] \in {createCall[r], Idle},
           \A r \in VerifyCalls : verifyCall'[r] \in {verifyCall[r], Idle}
    PROVE  Inv'
<1>1. UNCHANGED <<decisions, status, trace, challenges, drawn>>
  BY DEF caseTables
<1>2. TablesInv'
  BY TablesUntouched DEF Inv
<1>3. TypeOK'
  BY <1>1 DEF Inv, TypeOK, PasskeyInv
<1>4. (IdsDrawn /\ CreationsSound /\ VerificationsSound)'
  BY <1>1 DEF Inv, CallsInv, IdsDrawn, CreationsSound, VerificationsSound, Live, Eligible
<1>5. CreatedInThePast'
  <2>1. clock \in Nat /\ clock' \in Nat
    BY DEF Inv, PasskeyInv, PasskeyTypeOK
  <2>2. ASSUME NEW c \in ChallengeIds, Live(c)
        PROVE  challenges[c].createdAt <= clock'
    <3>1. challenges[c] \in Challenge
      BY <2>2 DEF Inv, TypeOK, Live
    <3>2. challenges[c].createdAt \in Nat /\ challenges[c].createdAt <= clock
      BY <2>2, <3>1 DEF Challenge, Inv, CallsInv, CreatedInThePast
    <3> QED
      BY <2>1, <3>2
  <2>3. ASSUME NEW r \in CreateCalls, createCall'[r] # Idle
        PROVE  createCall'[r].createdAt <= clock'
    <3>1. createCall'[r] = createCall[r] /\ createCall[r] \in CreateCall
      BY <2>3 DEF Inv, TypeOK
    <3>2. createCall[r].createdAt \in Nat /\ createCall[r].createdAt <= clock
      BY <2>3, <3>1 DEF CreateCall, Inv, CallsInv, CreatedInThePast
    <3> QED
      BY <2>1, <3>1, <3>2
  <2> QED
    BY <1>1, <2>2, <2>3 DEF CreatedInThePast, Live
<1> QED
  BY <1>2, <1>3, <1>4, <1>5 DEF Inv, CallsInv

-----------------------------------------------------------------------------
(* The steps that begin a request, or a case.                               *)

\* The gates a creation passes before its await are what CreationsSound says.
LEMMA StartCreateKeepsInv ==
    ASSUME Inv, PasskeyInv', NEW r \in CreateCalls, NEW d \in DecisionIds,
           NEW f \in Factors, NEW h \in Headers, NEW p \in BOOLEAN,
           StartCreate(r, d, f, h, p)
    PROVE  Inv'
<1> USE PasskeyConstants, ChallengeConstants
<1> DEFINE real == RunsRealCeremony(d, h, p)
           call == [decision  |-> d, factor |-> f,
                    mode      |-> IF real THEN "WEBAUTHN" ELSE "SIMULATED",
                    origin    |-> IF real THEN BoundOrigin(h) ELSE NoOrigin,
                    createdAt |-> clock, expiresAt |-> clock + Ttl]
<1>1. /\ UNCHANGED <<clock, decisions, status, trace, challenges, drawn, verifyCall>>
      /\ createCall' = [createCall EXCEPT ![r] = call]
      /\ decisions[d] # NoRow /\ Eligible(d, f) /\ f = "PASSKEY"
  BY DEF StartCreate, HasAdapter, caseTables
<1>2. call \in CreateCall
  <2>1. BoundOrigin(h) \in Headers /\ NoOrigin \in Headers
    BY DEF BoundOrigin, Headers, PasskeyAssumption
  <2>2. clock \in Nat /\ clock + Ttl \in Nat
    BY DEF Inv, PasskeyInv, PasskeyTypeOK, PasskeyAssumption
  <2> QED
    BY <2>1, <2>2 DEF CreateCall, Modes
<1>3. call.mode = "WEBAUTHN" => call.origin \in SecureOrigins
  BY DEF RunsRealCeremony
<1>4. call.decision = d /\ call.factor = f /\ call.createdAt = clock /\ clock <= clock
  BY DEF Inv, PasskeyInv, PasskeyTypeOK
<1> HIDE DEF call
<1>5. TypeOK'
  BY <1>1, <1>2 DEF Inv, TypeOK, PasskeyInv
<1>6. TablesInv'
  BY <1>1, TablesUntouched DEF Inv, caseTables
<1>7. \A s \in CreateCalls : createCall'[s] = IF s = r THEN call ELSE createCall[s]
  BY <1>1 DEF Inv, TypeOK
<1>8. d \in drawn
  BY <1>1 DEF Inv, CallsInv, IdsDrawn
<1>9. (IdsDrawn /\ CreatedInThePast)'
  BY <1>1, <1>4, <1>7, <1>8 DEF Inv, CallsInv, IdsDrawn, CreatedInThePast, Live
<1>10. CreationsSound'
  BY <1>1, <1>3, <1>4, <1>7 DEF Inv, CallsInv, CreationsSound, Eligible
<1>11. VerificationsSound'
  BY <1>1 DEF Inv, CallsInv, VerificationsSound, Live
<1> QED
  BY <1>5, <1>6, <1>9, <1>10, <1>11 DEF Inv, CallsInv

\* What an adapter answers has the type of an answer.
LEMMA ResultType ==
    ASSUME NEW c \in ChallengeIds, NEW ok \in BOOLEAN, NEW a \in Assertion
    PROVE  ResultFor(c, ok, a) \in AdapterResult
<1>1. a.credential \in CredentialIds /\ a.counter \in Nat
  BY PasskeyConstants DEF Assertion, PasskeyAssumption
<1> QED
  BY <1>1 DEF ResultFor, AdapterResult

\* The checks of a verification before its await are what VerificationsSound
\* says.
LEMMA StartVerifyKeepsInv ==
    ASSUME Inv, PasskeyInv', NEW r \in VerifyCalls, NEW c \in ChallengeIds,
           NEW h \in Headers, NEW ok \in BOOLEAN, NEW a \in Assertion,
           StartVerify(r, c, h, ok, a)
    PROVE  Inv'
<1> USE PasskeyConstants, ChallengeConstants
<1> DEFINE call == [challenge |-> c, decision |-> challenges[c].decision,
                    result |-> ResultFor(c, ok, a), at |-> clock]
<1>1. /\ UNCHANGED <<clock, decisions, status, trace, challenges, drawn, createCall>>
      /\ verifyCall' = [verifyCall EXCEPT ![r] = call]
      /\ Live(c) /\ clock < challenges[c].expiresAt
  BY DEF StartVerify, Admissible, NotExpired, Live, caseTables
<1>2. challenges[c] \in Challenge /\ clock \in Nat
  BY <1>1 DEF Inv, TypeOK, Live, PasskeyInv, PasskeyTypeOK
<1>3. call \in VerifyCall
  BY <1>2, ResultType DEF VerifyCall, Challenge
<1>4. call.challenge = c /\ call.decision = challenges[c].decision /\ call.at = clock
  OBVIOUS
<1>5. c \in drawn /\ challenges[c].createdAt <= clock
  BY <1>1 DEF Inv, CallsInv, IdsDrawn, CreatedInThePast
<1> HIDE DEF call
<1>6. TypeOK'
  BY <1>1, <1>3 DEF Inv, TypeOK, PasskeyInv
<1>7. TablesInv'
  BY <1>1, TablesUntouched DEF Inv, caseTables
<1>8. \A s \in VerifyCalls : verifyCall'[s] = IF s = r THEN call ELSE verifyCall[s]
  BY <1>1 DEF Inv, TypeOK
<1>9. IdsDrawn'
  BY <1>1, <1>4, <1>5, <1>8 DEF Inv, CallsInv, IdsDrawn, Live
<1>10. (CreatedInThePast /\ CreationsSound)'
  BY <1>1 DEF Inv, CallsInv, CreatedInThePast, CreationsSound, Live, Eligible
<1>11. VerificationsSound'
  BY <1>1, <1>4, <1>5, <1>8 DEF Inv, CallsInv, VerificationsSound, Live
<1> QED
  BY <1>6, <1>7, <1>9, <1>10, <1>11 DEF Inv, CallsInv

\* A new decision takes an id that no row and no call in flight knows.
LEMMA PersistKeepsInv ==
    ASSUME Inv, PasskeyInv', NEW d \in DecisionIds, NEW u \in Users,
           NEW m \in FactorMaps, PersistDecision(d, u, m)
    PROVE  Inv'
<1> USE PasskeyConstants, ChallengeConstants
<1> DEFINE row == [user |-> u, factors |-> m]
           new == [decision: {d}, sequence: 0..CoreEvents - 1,
                   phase: {"CORE"}, code: {"core"}]
<1>1. /\ UNCHANGED <<clock, challenges, createCall, verifyCall>>
      /\ d \notin drawn /\ drawn' = drawn \cup {d}
      /\ decisions' = [decisions EXCEPT ![d] = row]
      /\ status' = [status EXCEPT ![d] = "PENDING"]
      /\ trace' = trace \cup new
  BY DEF PersistDecision
<1>2. row \in Decision /\ row # NoRow
  BY DEF Decision, ChallengeAssumption
<1> HIDE DEF row
<1>3. CoreEvents \in Nat \ {0}
  BY DEF ChallengeAssumption
<1>4. new \subseteq TraceRow
  BY <1>3 DEF TraceRow
<1>5. \A t \in new : t.decision = d /\ t.phase = "CORE" /\ t.sequence \in 0..CoreEvents - 1
  OBVIOUS
<1>6. decisions[d] = NoRow
  BY <1>1 DEF Inv, CallsInv, IdsDrawn
<1>7. \A t \in trace : t.decision # d /\ t.decision \in DecisionIds
  BY <1>6 DEF Inv, TablesInv, NoOrphans, TypeOK, TraceRow
<1>8. TypeOK'
  BY <1>1, <1>2, <1>4 DEF Inv, TypeOK, PasskeyInv, Statuses
<1>9. /\ \A e \in DecisionIds : decisions'[e] = IF e = d THEN row ELSE decisions[e]
      /\ \A e \in DecisionIds : status'[e] = IF e = d THEN "PENDING" ELSE status[e]
  BY <1>1 DEF Inv, TypeOK
<1>10. \A c \in ChallengeIds : Live(c) =>
          challenges[c].decision # d /\ challenges[c].decision \in DecisionIds
  <2> SUFFICES ASSUME NEW c \in ChallengeIds, Live(c)
               PROVE  challenges[c].decision # d /\ challenges[c].decision \in DecisionIds
    OBVIOUS
  <2>1. challenges[c] \in Challenge
    BY DEF Live, Inv, TypeOK
  <2> QED
    BY <1>6, <2>1 DEF Challenge, Inv, TablesInv, NoOrphans
<1>11. NoOrphans'
  <2>1. \A c \in ChallengeIds : Live(c)' => decisions'[challenges'[c].decision] # NoRow
    BY <1>1, <1>9, <1>10 DEF Inv, TablesInv, NoOrphans, Live
  <2>2. \A t \in trace' : decisions'[t.decision] # NoRow
    BY <1>1, <1>2, <1>5, <1>7, <1>9 DEF Inv, TablesInv, NoOrphans
  <2>3. \A e \in DecisionIds : status'[e] = "NONE" <=> decisions'[e] = NoRow
    BY <1>2, <1>9 DEF Inv, TablesInv, NoOrphans
  <2> QED
    BY <2>1, <2>2, <2>3 DEF NoOrphans
<1>12. OnlyEligibleFactorsChallenged'
  BY <1>1, <1>9, <1>10 DEF Inv, TablesInv, OnlyEligibleFactorsChallenged, Live
<1>13. TraceGapless'
  <2>1. \A t1, t2 \in trace' :
           t1.decision = t2.decision /\ t1.sequence = t2.sequence => t1 = t2
    BY <1>1, <1>5, <1>7 DEF Inv, TablesInv, TraceGapless
  <2>2. ASSUME NEW e \in DecisionIds
        PROVE  \E n \in {s + 1 : s \in SequencesOf(e)'} \cup {0} :
                  SequencesOf(e)' = 0..(n - 1)
    <3>1. CASE e = d
      <4>1. SequencesOf(d)' = {t.sequence : t \in new}
        BY <1>1, <1>5, <1>7 DEF SequencesOf
      <4>2. ASSUME NEW s \in 0..(CoreEvents - 1)
            PROVE  s \in {t.sequence : t \in new}
        <5> DEFINE t == [decision |-> d, sequence |-> s, phase |-> "CORE", code |-> "core"]
        <5>1. t \in new /\ t.sequence = s
          OBVIOUS
        <5> QED
          BY <5>1
      <4>3. SequencesOf(d)' = 0..(CoreEvents - 1)
        <5> HIDE DEF new
        <5> QED
          BY <1>5, <4>1, <4>2
      <4>4. CoreEvents = (CoreEvents - 1) + 1 /\ CoreEvents - 1 \in 0..(CoreEvents - 1)
        BY <1>3
      <4>5. CoreEvents \in {s + 1 : s \in SequencesOf(d)'}
        BY <4>3, <4>4
      <4> QED
        BY <3>1, <4>3, <4>5
    <3>2. CASE e # d
      <4>1. SequencesOf(e)' = SequencesOf(e)
        BY <1>1, <1>5, <3>2 DEF SequencesOf
      <4> QED
        BY <4>1 DEF Inv, TablesInv, TraceGapless
    <3> QED
      BY <3>1, <3>2
  <2> QED
    BY <2>1, <2>2 DEF TraceGapless
<1>14. \A e \in DecisionIds : OutcomesOf(e)' = OutcomesOf(e)
  BY <1>1, <1>5 DEF OutcomesOf
<1>15. StatusTellsLastOutcome'
  <2>1. OutcomesOf(d)' = {}
    BY <1>1, <1>5, <1>7 DEF OutcomesOf
  <2> QED
    BY <1>9, <1>14, <2>1 DEF Inv, TablesInv, StatusTellsLastOutcome
<1>16. AuthorizedIsEarned'
  <2> SUFFICES ASSUME NEW e \in DecisionIds, status'[e] = "AUTHORIZED"
               PROVE  \E c \in ChallengeIds :
                        /\ Settled(c)'
                        /\ challenges'[c].verified
                        /\ challenges'[c].decision = e
                        /\ decisions'[e].factors[challenges'[c].factor] = "ELIGIBLE"
                        /\ challenges'[c].createdAt <= challenges'[c].consumedAt
                        /\ challenges'[c].consumedAt < challenges'[c].expiresAt
    BY DEF AuthorizedIsEarned, Eligible
  <2>1. e # d /\ status[e] = "AUTHORIZED" /\ decisions'[e] = decisions[e]
    BY <1>9
  <2> QED
    BY <1>1, <2>1 DEF Inv, TablesInv, AuthorizedIsEarned, Settled, Live, Eligible
<1>17. (IdsDrawn /\ CreatedInThePast /\ VerificationsSound)'
  BY <1>1, <1>9 DEF Inv, CallsInv, IdsDrawn, CreatedInThePast, VerificationsSound, Live
<1>18. CreationsSound'
  <2> SUFFICES ASSUME NEW s \in CreateCalls, createCall[s] # Idle
               PROVE  LET call == createCall[s] IN
                      /\ decisions'[call.decision] # NoRow
                            => decisions'[call.decision].factors[call.factor] = "ELIGIBLE"
                      /\ call.factor = "PASSKEY"
                      /\ call.mode = "WEBAUTHN" => call.origin \in SecureOrigins
    BY <1>1 DEF CreationsSound, Eligible
  <2>1. createCall[s].decision \in DecisionIds
    BY DEF Inv, TypeOK, CreateCall
  <2>2. createCall[s].decision # d
    BY <1>1 DEF Inv, CallsInv, IdsDrawn
  <2> QED
    BY <1>9, <2>1, <2>2 DEF Inv, CallsInv, CreationsSound, Eligible
<1> QED
  BY <1>8, <1>11, <1>12, <1>13, <1>15, <1>16, <1>17, <1>18
     DEF Inv, TablesInv, CallsInv

-----------------------------------------------------------------------------
(* The transactions.                                                        *)

\* The transaction of a creation: CreationsSound and the foreign key give the
\* new challenge a live decision that holds its factor eligible.
LEMMA FinishCreateKeepsInv ==
    ASSUME Inv, PasskeyInv', NEW r \in CreateCalls, NEW c \in ChallengeIds,
           FinishCreate(r, c)
    PROVE  Inv'
<1> USE PasskeyConstants, ChallengeConstants
<1> DEFINE call == createCall[r]
           d == call.decision
           row == [decision |-> d, factor |-> call.factor, mode |-> call.mode,
                   origin |-> call.origin, createdAt |-> call.createdAt,
                   expiresAt |-> call.expiresAt, consumedAt |-> NotYet,
                   verified |-> FALSE]
<1>1. /\ UNCHANGED <<clock, decisions, status, verifyCall>>
      /\ call # Idle /\ c \notin drawn /\ drawn' = drawn \cup {c}
      /\ decisions[d] # NoRow
      /\ challenges' = [challenges EXCEPT ![c] = row]
      /\ AppendTrace(d, "CHALLENGE", "challenge_created")
      /\ createCall' = [createCall EXCEPT ![r] = Idle]
  BY DEF FinishCreate, ForeignKeyHolds
<1>2. call \in CreateCall /\ d \in DecisionIds
  BY <1>1 DEF Inv, TypeOK, CreateCall
<1>3. row \in Challenge
  BY <1>2 DEF CreateCall, Challenge, NotYet
<1>4. /\ row.decision = d /\ row.factor = call.factor /\ row.mode = call.mode
      /\ row.origin = call.origin /\ row.createdAt = call.createdAt
      /\ row.consumedAt = NotYet /\ row # NoRow
  BY <1>3 DEF ChallengeAssumption
<1>5. /\ Eligible(d, call.factor) /\ call.factor = "PASSKEY"
      /\ call.mode = "WEBAUTHN" => call.origin \in SecureOrigins
      /\ call.createdAt <= clock
  BY <1>1 DEF Inv, CallsInv, CreationsSound, CreatedInThePast
<1> HIDE DEF row
<1>6. challenges[c] = NoRow
  BY <1>1 DEF Inv, CallsInv, IdsDrawn, Live
<1>7. /\ \A b \in ChallengeIds : challenges'[b] = IF b = c THEN row ELSE challenges[b]
      /\ \A s \in CreateCalls : createCall'[s] = IF s = r THEN Idle ELSE createCall[s]
  BY <1>1 DEF Inv, TypeOK
<1>8. trace' \subseteq TraceRow /\ TraceGapless'
  BY <1>1, <1>2, AppendKeepsGapless DEF Inv, TablesInv, TypeOK
<1>9. PICK event : /\ trace' = trace \cup {event}
                   /\ event.decision = d /\ event.phase = "CHALLENGE"
  <2> DEFINE e == [decision |-> d, sequence |-> NextSequence(d),
                   phase |-> "CHALLENGE", code |-> "challenge_created"]
  <2>1. trace' = trace \cup {e} /\ e.decision = d /\ e.phase = "CHALLENGE"
    BY <1>1 DEF AppendTrace
  <2> QED
    BY <2>1
<1>10. TypeOK'
  BY <1>1, <1>3, <1>8 DEF Inv, TypeOK, PasskeyInv
<1>11. NoOrphans'
  BY <1>1, <1>4, <1>7, <1>9 DEF Inv, TablesInv, NoOrphans, Live
<1>12. OnlyEligibleFactorsChallenged'
  BY <1>1, <1>4, <1>5, <1>7 DEF Inv, TablesInv, OnlyEligibleFactorsChallenged, Live, Eligible
<1>13. StatusTellsLastOutcome'
  <2>1. \A e \in DecisionIds : OutcomesOf(e)' = OutcomesOf(e)
    BY <1>9 DEF OutcomesOf
  <2> QED
    BY <1>1, <2>1 DEF Inv, TablesInv, StatusTellsLastOutcome
<1>14. AuthorizedIsEarned'
  <2>1. \A b \in ChallengeIds : Settled(b) => Settled(b)' /\ challenges'[b] = challenges[b]
    BY <1>6, <1>7 DEF Settled, Live
  <2> QED
    BY <1>1, <2>1 DEF Inv, TablesInv, AuthorizedIsEarned, Eligible
<1>15. IdsDrawn'
  BY <1>1, <1>7 DEF Inv, CallsInv, IdsDrawn, Live
<1>16. (CreatedInThePast /\ CreationsSound)'
  BY <1>1, <1>4, <1>5, <1>7 DEF Inv, CallsInv, CreatedInThePast, CreationsSound, Live, Eligible
<1>17. VerificationsSound'
  <2> SUFFICES ASSUME NEW s \in VerifyCalls, verifyCall[s] # Idle
               PROVE  LET v == verifyCall[s] IN
                      challenges'[v.challenge] # NoRow =>
                        /\ challenges'[v.challenge].decision = v.decision
                        /\ challenges'[v.challenge].createdAt <= v.at
                        /\ v.at < challenges'[v.challenge].expiresAt
    BY <1>1 DEF VerificationsSound, Live
  <2>1. verifyCall[s].challenge \in ChallengeIds
    BY DEF Inv, TypeOK, VerifyCall
  <2>2. verifyCall[s].challenge # c
    BY <1>1 DEF Inv, CallsInv, IdsDrawn
  <2> QED
    BY <1>7, <2>1, <2>2 DEF Inv, CallsInv, VerificationsSound, Live
<1> QED
  BY <1>8, <1>10, <1>11, <1>12, <1>13, <1>14, <1>15, <1>16, <1>17
     DEF Inv, TablesInv, CallsInv

\* What the transaction of a verification changes: one challenge goes from
\* open to settled, with the verdict and the time the call remembers.
LEMMA SettlementEffect ==
    ASSUME Inv, NEW r \in VerifyCalls, FinishVerify(r)
    PROVE  LET call == verifyCall[r]
               c == call.challenge IN
           /\ call # Idle /\ call \in VerifyCall
           /\ c \in ChallengeIds /\ Live(c) /\ ~Settled(c)
           /\ call.decision = challenges[c].decision
           /\ call.decision \in DecisionIds
           /\ decisions[call.decision] # NoRow
           /\ challenges' \in [ChallengeIds -> Challenge \cup {NoRow}]
           /\ \A b \in ChallengeIds \ {c} : challenges'[b] = challenges[b]
           /\ challenges'[c] # NoRow
           /\ challenges'[c].consumedAt # NotYet
           /\ challenges'[c].decision = challenges[c].decision
           /\ challenges'[c].factor = challenges[c].factor
           /\ challenges'[c].mode = challenges[c].mode
           /\ challenges'[c].origin = challenges[c].origin
           /\ challenges'[c].createdAt = challenges[c].createdAt
           /\ challenges'[c].expiresAt = challenges[c].expiresAt
           /\ challenges'[c].consumedAt = call.at
           /\ challenges'[c].verified = call.result.verified
           /\ call.result.verified \in BOOLEAN
<1> USE ChallengeConstants
<1> DEFINE call == verifyCall[r]
           c == call.challenge
           row == challenges[c]
           new == [row EXCEPT !.consumedAt = call.at, !.verified = call.result.verified]
<1>1. /\ call # Idle /\ row # NoRow /\ row.consumedAt = NotYet
      /\ challenges' = [challenges EXCEPT ![c].consumedAt = call.at,
                                          ![c].verified = call.result.verified]
  BY DEF FinishVerify, Consumable, ConsumeChallenge
<1>2. call \in VerifyCall
  BY <1>1 DEF Inv, TypeOK
<1>3. /\ c \in ChallengeIds /\ call.at \in Nat /\ call.decision \in DecisionIds
      /\ call.result.verified \in BOOLEAN
  BY <1>2 DEF VerifyCall, AdapterResult
<1>4. row \in Challenge
  BY <1>1, <1>3 DEF Inv, TypeOK
<1>5. /\ challenges'[c] = new
      /\ \A b \in ChallengeIds \ {c} : challenges'[b] = challenges[b]
      /\ challenges' \in [ChallengeIds -> Challenge \cup {NoRow}]
  <2>1. challenges' = [challenges EXCEPT ![c] = new]
    BY <1>1, <1>3 DEF Inv, TypeOK
  <2>2. new \in Challenge
    BY <1>3, <1>4 DEF Challenge
  <2> HIDE DEF new
  <2> QED
    BY <1>3, <2>1, <2>2 DEF Inv, TypeOK
<1>6. /\ new.decision = row.decision /\ new.factor = row.factor /\ new.mode = row.mode
      /\ new.origin = row.origin /\ new.createdAt = row.createdAt
      /\ new.expiresAt = row.expiresAt /\ new.consumedAt = call.at
      /\ new.verified = call.result.verified /\ new \in Challenge
  BY <1>3, <1>4 DEF Challenge
<1>7. new # NoRow /\ new.consumedAt # NotYet
  BY <1>3, <1>6 DEF ChallengeAssumption, NotYet
<1> HIDE DEF new
<1>8. call.decision = row.decision /\ decisions[row.decision] # NoRow
  BY <1>1, <1>3 DEF Inv, CallsInv, TablesInv, VerificationsSound, NoOrphans, Live
<1> QED
  BY <1>1, <1>2, <1>3, <1>5, <1>6, <1>7, <1>8 DEF Live, Settled

\* The transaction of a verification settles the challenge and its transaction
\* together, in time by VerificationsSound, and appends the event that says so.
LEMMA FinishVerifyKeepsInv ==
    ASSUME Inv, PasskeyInv', NEW r \in VerifyCalls, FinishVerify(r)
    PROVE  Inv'
<1> DEFINE call == verifyCall[r]
           c == call.challenge
           d == call.decision
           verdict == call.result.verified
           code == IF verdict THEN "challenge_verified" ELSE "challenge_denied"
           event == [decision |-> d, sequence |-> NextSequence(d),
                     phase |-> "OUTCOME", code |-> code]
<1>1. /\ call # Idle /\ call \in VerifyCall
      /\ c \in ChallengeIds /\ Live(c) /\ ~Settled(c)
      /\ d = challenges[c].decision /\ d \in DecisionIds /\ decisions[d] # NoRow
      /\ challenges' \in [ChallengeIds -> Challenge \cup {NoRow}]
      /\ \A b \in ChallengeIds \ {c} : challenges'[b] = challenges[b]
      /\ challenges'[c] # NoRow /\ challenges'[c].consumedAt # NotYet
      /\ challenges'[c].decision = d
      /\ challenges'[c].factor = challenges[c].factor
      /\ challenges'[c].mode = challenges[c].mode
      /\ challenges'[c].origin = challenges[c].origin
      /\ challenges'[c].createdAt = challenges[c].createdAt
      /\ challenges'[c].expiresAt = challenges[c].expiresAt
      /\ challenges'[c].consumedAt = call.at
      /\ challenges'[c].verified = verdict
      /\ verdict \in BOOLEAN
  BY SettlementEffect
<1>2. /\ UNCHANGED <<clock, decisions, drawn, createCall>>
      /\ status' = [status EXCEPT ![d] = IF verdict THEN "AUTHORIZED" ELSE "DENIED"]
      /\ AppendTrace(d, "OUTCOME", code)
      /\ verifyCall' = [verifyCall EXCEPT ![r] = Idle]
  BY DEF FinishVerify, UpdateStatus
<1>3. /\ challenges[c].createdAt <= call.at /\ call.at < challenges[c].expiresAt
      /\ decisions[d].factors[challenges[c].factor] = "ELIGIBLE"
  BY <1>1 DEF Inv, CallsInv, VerificationsSound, TablesInv, OnlyEligibleFactorsChallenged
<1>4. /\ \A e \in DecisionIds : status'[e] =
            IF e = d THEN (IF verdict THEN "AUTHORIZED" ELSE "DENIED") ELSE status[e]
      /\ \A s \in VerifyCalls : verifyCall'[s] = IF s = r THEN Idle ELSE verifyCall[s]
  BY <1>2 DEF Inv, TypeOK
<1>5. /\ trace' \subseteq TraceRow /\ TraceGapless'
      /\ \A t \in trace : t.decision = d => t.sequence < NextSequence(d)
  BY <1>1, <1>2, AppendKeepsGapless DEF Inv, TablesInv, TypeOK
<1>6. /\ trace' = trace \cup {event}
      /\ event.decision = d /\ event.phase = "OUTCOME" /\ event.code = code
      /\ event.sequence = NextSequence(d)
  BY <1>2 DEF AppendTrace
<1>7. NextSequence(d) \in Nat /\ \A t \in trace : t.sequence \in Nat
  BY <1>1, NextSequenceIsLength DEF Inv, TablesInv, TypeOK, TraceRow
<1>8. TypeOK'
  BY <1>1, <1>2, <1>5 DEF Inv, TypeOK, PasskeyInv, Statuses
<1> HIDE DEF event
<1>9. NoOrphans'
  <2>1. \A b \in ChallengeIds : Live(b)' => decisions'[challenges'[b].decision] # NoRow
    BY <1>1, <1>2 DEF Inv, TablesInv, NoOrphans, Live
  <2>2. \A t \in trace' : decisions'[t.decision] # NoRow
    BY <1>1, <1>2, <1>6 DEF Inv, TablesInv, NoOrphans
  <2>3. \A e \in DecisionIds : status'[e] = "NONE" <=> decisions'[e] = NoRow
    BY <1>1, <1>2, <1>4 DEF Inv, TablesInv, NoOrphans
  <2> QED
    BY <2>1, <2>2, <2>3 DEF NoOrphans
<1>10. OnlyEligibleFactorsChallenged'
  BY <1>1, <1>2 DEF Inv, TablesInv, OnlyEligibleFactorsChallenged, Live
<1>11. StatusTellsLastOutcome'
  <2>1. ASSUME NEW e \in DecisionIds, e # d
        PROVE  OutcomesOf(e)' = OutcomesOf(e) /\ status'[e] = status[e]
    BY <1>4, <1>6, <2>1 DEF OutcomesOf
  <2>2. status'[d] # "PENDING"
    BY <1>1, <1>4
  <2>3. ASSUME NEW e \in DecisionIds, e = d, NEW t \in OutcomesOf(e)',
               \A s \in OutcomesOf(e)' : s.sequence <= t.sequence
        PROVE  status'[e] = IF t.code = "challenge_verified"
                            THEN "AUTHORIZED" ELSE "DENIED"
    <3>1. event \in OutcomesOf(e)'
      BY <1>6, <2>3 DEF OutcomesOf
    <3>2. t \in trace' /\ t.decision = d
      BY <2>3 DEF OutcomesOf
    <3>3. event.sequence <= t.sequence
      BY <2>3, <3>1
    <3>4. t = event
      BY <1>5, <1>6, <1>7, <3>2, <3>3
    <3>5. t.code = "challenge_verified" <=> verdict
      BY <1>6, <3>4
    <3> QED
      BY <1>1, <1>4, <2>3, <3>5
  <2>4. ASSUME NEW e \in DecisionIds
        PROVE  /\ status'[e] = "PENDING" => OutcomesOf(e)' = {}
               /\ \A t \in OutcomesOf(e)' :
                     (\A s \in OutcomesOf(e)' : s.sequence <= t.sequence) =>
                        status'[e] = IF t.code = "challenge_verified"
                                     THEN "AUTHORIZED" ELSE "DENIED"
    <3>1. CASE e = d
      BY <2>2, <2>3, <3>1
    <3>2. CASE e # d
      BY <2>1, <3>2 DEF Inv, TablesInv, StatusTellsLastOutcome
    <3> QED
      BY <3>1, <3>2
  <2> QED
    BY <2>4 DEF StatusTellsLastOutcome
<1>12. AuthorizedIsEarned'
  <2> SUFFICES ASSUME NEW e \in DecisionIds, status'[e] = "AUTHORIZED"
               PROVE  \E b \in ChallengeIds :
                        /\ challenges'[b] # NoRow /\ challenges'[b].consumedAt # NotYet
                        /\ challenges'[b].verified
                        /\ challenges'[b].decision = e
                        /\ decisions[e].factors[challenges'[b].factor] = "ELIGIBLE"
                        /\ challenges'[b].createdAt <= challenges'[b].consumedAt
                        /\ challenges'[b].consumedAt < challenges'[b].expiresAt
    BY <1>2 DEF AuthorizedIsEarned, Eligible, Settled, Live
  <2>1. CASE e = d
    <3>1. verdict
      BY <1>1, <1>4, <2>1
    <3> QED
      BY <1>1, <1>3, <2>1, <3>1
  <2>2. CASE e # d
    <3>1. PICK b \in ChallengeIds :
            /\ Settled(b)
            /\ challenges[b].verified
            /\ challenges[b].decision = e
            /\ Eligible(e, challenges[b].factor)
            /\ challenges[b].createdAt <= challenges[b].consumedAt
            /\ challenges[b].consumedAt < challenges[b].expiresAt
      BY <1>4, <2>2 DEF Inv, TablesInv, AuthorizedIsEarned
    <3>2. challenges'[b] = challenges[b]
      BY <1>1, <3>1
    <3> QED
      BY <3>1, <3>2 DEF Settled, Live, Eligible
  <2> QED
    BY <2>1, <2>2
<1>13. (IdsDrawn /\ CreatedInThePast /\ CreationsSound)'
  <2>1. IdsDrawn'
    BY <1>1, <1>2, <1>4 DEF Inv, CallsInv, IdsDrawn, Live
  <2>2. CreatedInThePast'
    BY <1>1, <1>2 DEF Inv, CallsInv, CreatedInThePast, Live
  <2>3. CreationsSound'
    BY <1>2 DEF Inv, CallsInv, CreationsSound, Eligible
  <2> QED
    BY <2>1, <2>2, <2>3
<1>14. VerificationsSound'
  <2> SUFFICES ASSUME NEW s \in VerifyCalls, verifyCall'[s] # Idle
               PROVE  LET v == verifyCall'[s] IN
                      challenges'[v.challenge] # NoRow =>
                        /\ challenges'[v.challenge].decision = v.decision
                        /\ challenges'[v.challenge].createdAt <= v.at
                        /\ v.at < challenges'[v.challenge].expiresAt
    BY DEF VerificationsSound, Live
  <2>1. verifyCall'[s] = verifyCall[s] /\ verifyCall[s].challenge \in ChallengeIds
    BY <1>4 DEF Inv, TypeOK, VerifyCall
  <2>2. CASE verifyCall[s].challenge = c
    BY <1>1, <2>1, <2>2 DEF Inv, CallsInv, VerificationsSound
  <2>3. CASE verifyCall[s].challenge # c
    BY <1>1, <2>1, <2>3 DEF Inv, CallsInv, VerificationsSound, Live
  <2> QED
    BY <2>2, <2>3
<1> QED
  BY <1>5, <1>8, <1>9, <1>10, <1>11, <1>12, <1>13, <1>14 DEF Inv, TablesInv, CallsInv

\* A reset empties the tables; what the calls in flight know of deleted rows
\* no longer matters.
LEMMA ResetKeepsInv ==
    ASSUME Inv, PasskeyInv', Reset
    PROVE  Inv'
<1>1. /\ UNCHANGED <<clock, drawn, createCall, verifyCall>>
      /\ decisions' = [d \in DecisionIds |-> NoRow]
      /\ status' = [d \in DecisionIds |-> "NONE"]
      /\ trace' = {}
      /\ challenges' = [c \in ChallengeIds |-> NoRow]
  BY DEF Reset
<1>2. TypeOK'
  BY <1>1 DEF Inv, TypeOK, PasskeyInv, Statuses
<1>3. TraceGapless'
  <2>1. \A d \in DecisionIds : SequencesOf(d)' = 0..(0 - 1)
    BY <1>1 DEF SequencesOf
  <2> QED
    BY <1>1, <2>1 DEF TraceGapless
<1>4. (NoOrphans /\ OnlyEligibleFactorsChallenged /\ StatusTellsLastOutcome
         /\ AuthorizedIsEarned)'
  BY <1>1 DEF NoOrphans, OnlyEligibleFactorsChallenged, StatusTellsLastOutcome,
              AuthorizedIsEarned, OutcomesOf, Live
<1>5. (IdsDrawn /\ CreatedInThePast)'
  BY <1>1 DEF Inv, CallsInv, IdsDrawn, CreatedInThePast, Live
<1>6. CreationsSound'
  <2>1. \A r \in CreateCalls : createCall[r] # Idle => createCall[r].decision \in DecisionIds
    BY DEF Inv, TypeOK, CreateCall
  <2> QED
    BY <1>1, <2>1 DEF Inv, CallsInv, CreationsSound
<1>7. VerificationsSound'
  <2>1. \A r \in VerifyCalls : verifyCall[r] # Idle => verifyCall[r].challenge \in ChallengeIds
    BY DEF Inv, TypeOK, VerifyCall
  <2> QED
    BY <1>1, <2>1 DEF VerificationsSound, Live
<1> QED
  BY <1>2, <1>3, <1>4, <1>5, <1>6, <1>7 DEF Inv, TablesInv, CallsInv

-----------------------------------------------------------------------------
(* The theorems.                                                            *)

\* Every step of the server keeps the invariant.
LEMMA InvNext ==
    ASSUME Inv, [Next]_vars
    PROVE  Inv'
<1>1. PasskeyInv'
  BY NextIsPasskeyStep, PasskeyInvNext DEF Inv
<1>2. /\ clock \in Nat /\ clock' \in Nat
      /\ createCall \in [CreateCalls -> CreateCall \cup {Idle}]
      /\ verifyCall \in [VerifyCalls -> VerifyCall \cup {Idle}]
  BY <1>1 DEF Inv, TypeOK, PasskeyInv, PasskeyTypeOK
<1>3. ASSUME NEW d \in DecisionIds, NEW u \in Users, NEW m \in FactorMaps,
             PersistDecision(d, u, m)
      PROVE  Inv'
  BY <1>1, <1>3, PersistKeepsInv
<1>4. ASSUME NEW r \in CreateCalls, NEW d \in DecisionIds, NEW f \in Factors,
             NEW h \in Headers, NEW p \in BOOLEAN, StartCreate(r, d, f, h, p)
      PROVE  Inv'
  BY <1>1, <1>4, StartCreateKeepsInv
<1>5. ASSUME NEW r \in CreateCalls, NEW c \in ChallengeIds, FinishCreate(r, c)
      PROVE  Inv'
  BY <1>1, <1>5, FinishCreateKeepsInv
<1>6. ASSUME NEW r \in CreateCalls, FailCreate(r)
      PROVE  Inv'
  <2>1. /\ UNCHANGED <<clock, caseTables, drawn, verifyCall>>
        /\ createCall' = [createCall EXCEPT ![r] = Idle]
    BY <1>6 DEF FailCreate
  <2> QED
    BY <1>1, <1>2, <2>1, QuietStepKeepsCalls
<1>7. ASSUME NEW r \in VerifyCalls, NEW c \in ChallengeIds, NEW h \in Headers,
             NEW ok \in BOOLEAN, NEW a \in Assertion, StartVerify(r, c, h, ok, a)
      PROVE  Inv'
  BY <1>1, <1>7, StartVerifyKeepsInv
<1>8. ASSUME NEW r \in VerifyCalls, FinishVerify(r)
      PROVE  Inv'
  BY <1>1, <1>8, FinishVerifyKeepsInv
<1>9. ASSUME NEW r \in VerifyCalls, RefuseVerify(r)
      PROVE  Inv'
  <2>1. /\ UNCHANGED <<clock, caseTables, drawn, createCall>>
        /\ verifyCall' = [verifyCall EXCEPT ![r] = Idle]
    BY <1>9 DEF RefuseVerify
  <2> QED
    BY <1>1, <1>2, <2>1, QuietStepKeepsCalls
<1>10. ASSUME NEW r \in RegistrationCalls, PasskeyStep(r), UNCHANGED challengeVars
       PROVE  Inv'
  <2>1. UNCHANGED <<clock, caseTables, drawn, createCall, verifyCall>>
    BY <1>10 DEF challengeVars, caseTables, PasskeyStep, FinishRegistration,
         BeginRegistration, StartCompletion, IssueCeremony, FinishCompletion,
         RefuseCompletion
  <2> QED
    BY <1>1, <1>2, <2>1, QuietStepKeepsCalls
<1>11. CASE Reset
  BY <1>1, <1>11, ResetKeepsInv
<1>12. CASE Crash
  <2>1. /\ UNCHANGED <<clock, caseTables, drawn>>
        /\ createCall' = [r \in CreateCalls |-> Idle]
        /\ verifyCall' = [r \in VerifyCalls |-> Idle]
    BY <1>12 DEF Crash
  <2> QED
    BY <1>1, <1>2, <2>1, QuietStepKeepsCalls
<1>13. CASE Tick /\ UNCHANGED <<passkeyVars, challengeVars>>
  <2>1. UNCHANGED <<caseTables, drawn, createCall, verifyCall>> /\ clock' = clock + 1
    BY <1>13 DEF Tick, challengeVars, caseTables
  <2> QED
    BY <1>1, <1>2, <2>1, QuietStepKeepsCalls
<1>14. CASE UNCHANGED vars
  <2>1. UNCHANGED <<clock, caseTables, drawn, createCall, verifyCall>>
    BY <1>14 DEF vars, challengeVars, caseTables
  <2> QED
    BY <1>1, <1>2, <2>1, QuietStepKeepsCalls
<1> QED
  BY <1>3, <1>4, <1>5, <1>6, <1>7, <1>8, <1>9, <1>10, <1>11, <1>12, <1>13, <1>14
     DEF Next, EndCreate, EndVerify

\* Every variable has its type: the property TypeOK.
THEOREM TypeCorrect == Spec => []TypeOK
<1>1. Inv => TypeOK
  BY DEF Inv
<1> QED
  BY InvInit, InvNext, <1>1, PTL DEF Spec

\* What a transaction writes after an await, it writes for a decision that is
\* still there, whenever a reset runs: the property NoOrphans.
THEOREM NothingOrphaned == Spec => []NoOrphans
<1>1. Inv => NoOrphans
  BY DEF Inv, TablesInv
<1> QED
  BY InvInit, InvNext, <1>1, PTL DEF Spec

\* The factor gate createChallenge passes before its await still holds of the
\* challenge it stores after it: the property OnlyEligibleFactorsChallenged.
THEOREM EligibilityEnforced == Spec => []OnlyEligibleFactorsChallenged
<1>1. Inv => OnlyEligibleFactorsChallenged
  BY DEF Inv, TablesInv
<1> QED
  BY InvInit, InvNext, <1>1, PTL DEF Spec

\* appendChallengeTrace numbers the events of every decision without a gap or
\* a repetition, whoever appends in between: the property TraceGapless.
THEOREM TracesHaveNoGaps == Spec => []TraceGapless
<1>1. Inv => TraceGapless
  BY DEF Inv, TablesInv
<1> QED
  BY InvInit, InvNext, <1>1, PTL DEF Spec

\* A transaction is authorized only through a verified challenge of its own
\* decision answered in time: the property AuthorizedIsEarned.
THEOREM AuthorizationEarned == Spec => []AuthorizedIsEarned
<1>1. Inv => AuthorizedIsEarned
  BY DEF Inv, TablesInv
<1> QED
  BY InvInit, InvNext, <1>1, PTL DEF Spec

\* The transaction and the trace of a decision tell the same story: the
\* property StatusTellsLastOutcome.
THEOREM StatusAndTraceAgree == Spec => []StatusTellsLastOutcome
<1>1. Inv => StatusTellsLastOutcome
  BY DEF Inv, TablesInv
<1> QED
  BY InvInit, InvNext, <1>1, PTL DEF Spec

\* The whole server is, for the registration tables, a run of Passkeys: what
\* is proved of registrations holds in the presence of challenges and resets.
THEOREM RegistrationSafeInServer ==
    Spec => [](CredentialHasCeremony /\ EnrolledMatchesCredentials)
<1>1. Inv => CredentialHasCeremony /\ EnrolledMatchesCredentials
  BY DEF Inv, PasskeyInv
<1> QED
  BY InvInit, InvNext, <1>1, PTL DEF Spec

\* One step never changes a settled challenge and never takes an event from a
\* trace, or it deletes all of them.
LEMMA StepIsFinalForChallenges ==
    ASSUME Inv, [Next]_vars
    PROVE  \/ /\ \A c \in ChallengeIds : Settled(c) => challenges'[c] = challenges[c]
              /\ trace \subseteq trace'
           \/ /\ \A c \in ChallengeIds : challenges'[c] = NoRow
              /\ trace' = {}
<1> DEFINE Kept == /\ \A c \in ChallengeIds : Settled(c) => challenges'[c] = challenges[c]
                   /\ trace \subseteq trace'
<1>1. ASSUME NEW r \in VerifyCalls, FinishVerify(r)
      PROVE  Kept
  <2>1. /\ ~Settled(verifyCall[r].challenge)
        /\ \A b \in ChallengeIds \ {verifyCall[r].challenge} :
              challenges'[b] = challenges[b]
    BY <1>1, SettlementEffect
  <2>2. trace \subseteq trace'
    BY <1>1 DEF FinishVerify, AppendTrace
  <2> QED
    BY <2>1, <2>2
<1>2. ASSUME NEW r \in CreateCalls, NEW c \in ChallengeIds, FinishCreate(r, c)
      PROVE  Kept
  <2>1. ~Settled(c)
    BY <1>2 DEF FinishCreate, Inv, CallsInv, IdsDrawn, Settled
  <2>2. \A b \in ChallengeIds \ {c} : challenges'[b] = challenges[b]
    BY <1>2 DEF FinishCreate, Inv, TypeOK
  <2>3. trace \subseteq trace'
    BY <1>2 DEF FinishCreate, AppendTrace
  <2> QED
    BY <2>1, <2>2, <2>3
<1>3. ASSUME NEW d \in DecisionIds, NEW u \in Users, NEW m \in FactorMaps,
             PersistDecision(d, u, m)
      PROVE  Kept
  BY <1>3 DEF PersistDecision
<1>4. CASE Reset
  BY <1>4 DEF Reset
<1>5. CASE UNCHANGED <<challenges, trace>>
  BY <1>5
<1> QED
  BY <1>1, <1>2, <1>3, <1>4, <1>5 DEF Next, EndCreate, EndVerify, StartCreate, FailCreate,
       StartVerify, RefuseVerify, Crash, vars, challengeVars, caseTables

\* A challenge is settled for good: the property SettledIsFinal.
THEOREM SettledStaysFinal == Spec => SettledIsFinal
<1>1. Inv /\ [Next]_vars
        => [ \/ /\ \A c \in ChallengeIds : Settled(c) => challenges'[c] = challenges[c]
                /\ trace \subseteq trace'
             \/ /\ \A c \in ChallengeIds : challenges'[c] = NoRow
                /\ trace' = {} ]_vars
  BY StepIsFinalForChallenges
<1> QED
  BY InvInit, InvNext, <1>1, PTL DEF Spec, SettledIsFinal

-----------------------------------------------------------------------------
(* The refinement of OneTimeChallenge.                                      *)

\* The abstract variables.
Phase == [c \in ChallengeIds |-> PhaseOf(c)]
BoundTo == [c \in ChallengeIds |->
              IF Live(c) THEN challenges[c].decision ELSE NoDecision]

\* The phase of a challenge, case by case.
LEMMA Phases ==
    ASSUME NEW c \in ChallengeIds
    PROVE  /\ ~Live(c) /\ c \notin drawn => PhaseOf(c) = "unused"
           /\ ~Live(c) /\ c \in drawn => PhaseOf(c) = "wiped"
           /\ Live(c) /\ ~Settled(c) => PhaseOf(c) = "open"
           /\ Settled(c) /\ challenges[c].verified => PhaseOf(c) = "verified"
           /\ Settled(c) /\ ~challenges[c].verified => PhaseOf(c) = "denied"
  BY DEF PhaseOf, Settled

\* A decided transaction.
LEMMA PersistDecides ==
    ASSUME Inv, NEW d \in DecisionIds, NEW u \in Users, NEW m \in FactorMaps,
           PersistDecision(d, u, m)
    PROVE  Promise!Decide(d)
<1>1. /\ UNCHANGED challenges /\ d \notin drawn /\ drawn' = drawn \cup {d}
      /\ status' = [status EXCEPT ![d] = "PENDING"]
  BY DEF PersistDecision
<1>2. status[d] = "NONE"
  BY <1>1 DEF Inv, CallsInv, TablesInv, IdsDrawn, NoOrphans
<1>3. \A c \in ChallengeIds : (c \in drawn' <=> c \in drawn)
  BY <1>1, ChallengeConstants DEF ChallengeAssumption
<1>4. \A c \in ChallengeIds : PhaseOf(c)' = PhaseOf(c)
  BY <1>1, <1>3 DEF PhaseOf, Live, Settled
<1>5. Phase' = Phase /\ BoundTo' = BoundTo
  BY <1>1, <1>4 DEF Phase, BoundTo, Live
<1> QED
  BY <1>1, <1>2, <1>5 DEF Promise!Decide, Phase, BoundTo

\* An issued challenge: unused before, as its id was never drawn.
LEMMA CreateIssues ==
    ASSUME Inv, NEW r \in CreateCalls, NEW c \in ChallengeIds, FinishCreate(r, c),
           NEW d \in DecisionIds, d = createCall[r].decision
    PROVE  Promise!Issue(c, d)
<1> DEFINE row == [decision |-> d, factor |-> createCall[r].factor,
                   mode |-> createCall[r].mode, origin |-> createCall[r].origin,
                   createdAt |-> createCall[r].createdAt,
                   expiresAt |-> createCall[r].expiresAt,
                   consumedAt |-> NotYet, verified |-> FALSE]
<1>1. /\ createCall[r] # Idle /\ c \notin drawn /\ drawn' = drawn \cup {c}
      /\ decisions[d] # NoRow /\ UNCHANGED status
      /\ challenges' = [challenges EXCEPT ![c] = row]
  BY DEF FinishCreate, ForeignKeyHolds
<1>2. createCall[r] \in CreateCall
  BY <1>1 DEF Inv, TypeOK
<1>3. row \in Challenge /\ row.decision = d /\ row.consumedAt = NotYet
  BY <1>2 DEF CreateCall, Challenge, NotYet
<1>4. row # NoRow
  BY <1>3, ChallengeConstants DEF ChallengeAssumption
<1> HIDE DEF row
<1>5. status[d] # "NONE" /\ ~Live(c)
  BY <1>1, <1>2 DEF Inv, TablesInv, CallsInv, NoOrphans, IdsDrawn
<1>6. \A b \in ChallengeIds : challenges'[b] = IF b = c THEN row ELSE challenges[b]
  BY <1>1 DEF Inv, TypeOK
<1>7. PhaseOf(c) = "unused"
  BY <1>1, <1>5, Phases
<1>8. PhaseOf(c)' = "open"
  BY <1>3, <1>4, <1>6 DEF PhaseOf, Live, Settled
<1>9. \A b \in ChallengeIds \ {c} : PhaseOf(b)' = PhaseOf(b)
  BY <1>1, <1>6 DEF PhaseOf, Live, Settled
<1>10. Phase' = [Phase EXCEPT ![c] = "open"]
  BY <1>8, <1>9 DEF Phase
<1>11. BoundTo' = [BoundTo EXCEPT ![c] = d]
  BY <1>3, <1>4, <1>6 DEF BoundTo, Live
<1> QED
  BY <1>1, <1>5, <1>7, <1>10, <1>11 DEF Promise!Issue, Phase, BoundTo

\* A settled challenge: open before, and the outcome follows the verdict.
LEMMA VerifySettles ==
    ASSUME Inv, NEW r \in VerifyCalls, FinishVerify(r),
           NEW c \in ChallengeIds, c = verifyCall[r].challenge,
           NEW v, v = IF verifyCall[r].result.verified THEN "verified" ELSE "denied"
    PROVE  Promise!Settle(c, v)
<1> DEFINE d == verifyCall[r].decision
           verdict == verifyCall[r].result.verified
<1>1. /\ c \in ChallengeIds /\ Live(c) /\ ~Settled(c)
      /\ d = challenges[c].decision
      /\ \A b \in ChallengeIds \ {c} : challenges'[b] = challenges[b]
      /\ challenges'[c] # NoRow /\ challenges'[c].consumedAt # NotYet
      /\ challenges'[c].decision = d
      /\ challenges'[c].verified = verdict
      /\ verdict \in BOOLEAN
  BY SettlementEffect
<1>2. /\ UNCHANGED drawn
      /\ status' = [status EXCEPT ![d] = IF verdict THEN "AUTHORIZED" ELSE "DENIED"]
  BY DEF FinishVerify, UpdateStatus
<1>3. PhaseOf(c) = "open"
  BY <1>1, Phases
<1>4. ASSUME NEW b \in ChallengeIds
      PROVE  PhaseOf(b)' = IF b = c THEN v ELSE PhaseOf(b)
  <2>1. CASE b = c
    BY <1>1, <2>1 DEF PhaseOf, Live, Settled
  <2>2. CASE b # c
    BY <1>1, <1>2, <2>2 DEF PhaseOf, Live, Settled
  <2> QED
    BY <2>1, <2>2
<1>5. Phase' = [Phase EXCEPT ![c] = v]
  BY <1>4 DEF Phase
<1>6. BoundTo' = BoundTo /\ BoundTo[c] = d
  BY <1>1 DEF BoundTo, Live
<1>7. v = "verified" <=> verdict
  BY <1>1
<1>8. Phase[c] = "open"
  BY <1>1, <1>3 DEF Phase
<1>9. status' = [status EXCEPT ![BoundTo[c]] =
                   IF v = "verified" THEN "AUTHORIZED" ELSE "DENIED"]
  BY <1>2, <1>6, <1>7
<1> QED
  BY <1>5, <1>6, <1>8, <1>9 DEF Promise!Settle, Phase, BoundTo

\* A wipe.
LEMMA ResetWipes ==
    ASSUME Inv, Reset
    PROVE  Promise!Wipe
<1>1. /\ UNCHANGED drawn
      /\ status' = [d \in DecisionIds |-> "NONE"]
      /\ challenges' = [c \in ChallengeIds |-> NoRow]
  BY DEF Reset
<1>2. \A c \in ChallengeIds : ~Live(c)'
  BY <1>1 DEF Live
<1>3. ASSUME NEW c \in ChallengeIds
      PROVE  PhaseOf(c)' = IF PhaseOf(c) = "unused" THEN "unused" ELSE "wiped"
  <2>1. CASE c \in drawn
    <3>1. PhaseOf(c) # "unused"
      <4>1. Live(c) => challenges[c].verified \in BOOLEAN
        BY DEF Live, Inv, TypeOK, Challenge
      <4> QED
        BY <2>1, <4>1, Phases DEF Settled
    <3>2. PhaseOf(c)' = "wiped"
      BY <1>1, <1>2, <2>1 DEF PhaseOf, Settled
    <3> QED
      BY <3>1, <3>2
  <2>2. CASE c \notin drawn
    <3>1. PhaseOf(c) = "unused"
      BY <2>2, Phases DEF Inv, CallsInv, IdsDrawn
    <3>2. PhaseOf(c)' = "unused"
      BY <1>1, <1>2, <2>2 DEF PhaseOf, Settled
    <3> QED
      BY <3>1, <3>2
  <2> QED
    BY <2>1, <2>2
<1>4. Phase' = [c \in ChallengeIds |->
                  IF Phase[c] = "unused" THEN "unused" ELSE "wiped"]
  BY <1>3 DEF Phase
<1>5. BoundTo' = [c \in ChallengeIds |-> NoDecision]
  BY <1>2 DEF BoundTo
<1> QED
  BY <1>1, <1>4, <1>5 DEF Promise!Wipe, Phase, BoundTo

\* Every step of the server is a step of the promise or a stutter.
LEMMA StepKeepsPromise ==
    ASSUME Inv, [Next]_vars
    PROVE  [Promise!PromiseNext]_(Promise!promiseVars)
<1>1. ASSUME NEW d \in DecisionIds, NEW u \in Users, NEW m \in FactorMaps,
             PersistDecision(d, u, m)
      PROVE  Promise!PromiseNext
  BY <1>1, PersistDecides DEF Promise!PromiseNext
<1>2. ASSUME NEW r \in CreateCalls, NEW c \in ChallengeIds, FinishCreate(r, c)
      PROVE  Promise!PromiseNext
  <2>1. PICK d \in DecisionIds : d = createCall[r].decision
    BY <1>2 DEF FinishCreate, Inv, TypeOK, CreateCall
  <2>2. Promise!Issue(c, d)
    BY <1>2, <2>1, CreateIssues
  <2> QED
    BY <2>2 DEF Promise!PromiseNext
<1>3. ASSUME NEW r \in VerifyCalls, FinishVerify(r)
      PROVE  Promise!PromiseNext
  <2>1. PICK c \in ChallengeIds : c = verifyCall[r].challenge
    BY <1>3, SettlementEffect
  <2>2. PICK v \in {"verified", "denied"} :
           v = IF verifyCall[r].result.verified THEN "verified" ELSE "denied"
    OBVIOUS
  <2>3. Promise!Settle(c, v)
    BY <1>3, <2>1, <2>2, VerifySettles
  <2> QED
    BY <2>3 DEF Promise!PromiseNext
<1>4. CASE Reset
  BY <1>4, ResetWipes DEF Promise!PromiseNext
<1>5. CASE UNCHANGED <<challenges, drawn, status>>
  <2>1. \A c \in ChallengeIds : PhaseOf(c)' = PhaseOf(c)
    BY <1>5 DEF PhaseOf, Live, Settled
  <2>2. Phase' = Phase /\ BoundTo' = BoundTo
    BY <1>5, <2>1 DEF Phase, BoundTo, Live
  <2> QED
    BY <1>5, <2>2 DEF Promise!promiseVars, Phase, BoundTo
<1> QED
  BY <1>1, <1>2, <1>3, <1>4, <1>5 DEF Next, EndCreate, EndVerify, StartCreate, FailCreate,
       StartVerify, RefuseVerify, Crash, vars, challengeVars, caseTables

\* The challenge service implements one-time challenges: the property
\* PromiseKept.
THEOREM ServiceKeepsPromise == Spec => PromiseKept
<1>1. Init => Promise!PromiseInit
  <2> SUFFICES ASSUME Init PROVE Promise!PromiseInit
    OBVIOUS
  <2>1. \A c \in ChallengeIds : ~Live(c) /\ c \notin drawn
    BY DEF Init, Live
  <2>2. \A c \in ChallengeIds : PhaseOf(c) = "unused"
    BY <2>1, Phases
  <2> QED
    BY <2>1, <2>2 DEF Init, Promise!PromiseInit
<1>2. Inv /\ [Next]_vars => [Promise!PromiseNext]_(Promise!promiseVars)
  BY StepKeepsPromise
<1> QED
  BY InvInit, InvNext, <1>1, <1>2, PTL DEF Spec, PromiseKept, Promise!PromiseSpec

=============================================================================
