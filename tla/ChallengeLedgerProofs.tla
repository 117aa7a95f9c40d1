------------------------- MODULE ChallengeLedgerProofs -------------------------
(***************************************************************************)
(* Two more arguments about Challenges, on top of the invariant that       *)
(* ChallengesProofs establishes.                                           *)
(*                                                                         *)
(* Who may answer: a real ceremony is only asked of, and a verification    *)
(* only accepted from, an owner of a credential.  Both facts are checked   *)
(* before an await and used after it, so they have to be said of the calls *)
(* in flight too (CreationsOwned, AcceptedCredentialIsOwned).              *)
(*                                                                         *)
(* The ledger: a trace holds one event per challenge and one per verdict.  *)
(* This is a counting argument, as the rows and the events it compares     *)
(* have nothing in common but the transaction that writes both.            *)
(***************************************************************************)
EXTENDS ChallengesProofs

-----------------------------------------------------------------------------
(* What every step leaves alone.                                            *)

\* A stored credential stays, with its owner, whatever the server does.
LEMMA CredentialsStay ==
    ASSUME Inv, [Next]_vars, NEW k \in Stored
    PROVE  k \in Stored' /\ credentials'[k] = credentials[k]
<1>1. credentials'[k] = credentials[k]
  BY NextIsPasskeyStep, StepIsFinal DEF Inv
<1> QED
  BY <1>1 DEF Stored

\* So does the fact that a user has one.
LEMMA OwnersStay ==
    ASSUME Inv, [Next]_vars, NEW u, \E k \in Stored : credentials[k].user = u
    PROVE  \E k \in Stored' : credentials'[k].user = u
  BY CredentialsStay

\* A decision whose id was drawn is never replaced by another one.
LEMMA DecisionsStay ==
    ASSUME Inv, [Next]_vars, NEW d \in DecisionIds, d \in drawn
    PROVE  decisions'[d] \in {decisions[d], NoRow}
<1>1. ASSUME NEW e \in DecisionIds, NEW u \in Users, NEW m \in FactorMaps,
             PersistDecision(e, u, m)
      PROVE  decisions'[d] = decisions[d]
  BY <1>1 DEF PersistDecision, Inv, TypeOK
<1>2. CASE Reset
  BY <1>2 DEF Reset
<1>3. CASE UNCHANGED decisions
  BY <1>3
<1> QED
  BY <1>1, <1>2, <1>3 DEF Next, EndCreate, EndVerify, StartCreate, FinishCreate, FailCreate,
       StartVerify, FinishVerify, RefuseVerify, Crash, vars, challengeVars, caseTables

\* A challenge whose id was drawn keeps its decision and its mode until it is
\* deleted, and does not come back.
LEMMA ChallengesStay ==
    ASSUME Inv, [Next]_vars, NEW c \in ChallengeIds, c \in drawn,
           challenges'[c] # NoRow
    PROVE  /\ Live(c)
           /\ challenges'[c].decision = challenges[c].decision
           /\ challenges'[c].mode = challenges[c].mode
<1> DEFINE Kept == /\ Live(c)
                   /\ challenges'[c].decision = challenges[c].decision
                   /\ challenges'[c].mode = challenges[c].mode
<1>1. ASSUME NEW r \in CreateCalls, NEW b \in ChallengeIds, FinishCreate(r, b)
      PROVE  Kept
  <2>1. challenges'[c] = challenges[c]
    BY <1>1 DEF FinishCreate, Inv, TypeOK
  <2> QED
    BY <2>1 DEF Live
<1>2. ASSUME NEW r \in VerifyCalls, FinishVerify(r)
      PROVE  Kept
  BY <1>2, SettlementEffect DEF Live
<1>3. CASE Reset
  BY <1>3 DEF Reset, Live
<1>4. CASE UNCHANGED challenges
  BY <1>4 DEF Live
<1> QED
  BY <1>1, <1>2, <1>3, <1>4 DEF Next, EndCreate, EndVerify, PersistDecision, StartCreate,
       FailCreate, StartVerify, RefuseVerify, Crash, vars, challengeVars, caseTables

\* A creation in flight after a step was in flight before it, or has just
\* passed its gates.
LEMMA CreationsBegin ==
    ASSUME Inv, [Next]_vars, NEW r \in CreateCalls, createCall'[r] # Idle
    PROVE  \/ createCall'[r] = createCall[r]
           \/ \E d \in DecisionIds, f \in Factors, h \in Headers, p \in BOOLEAN :
                 StartCreate(r, d, f, h, p)
<1>1. ASSUME NEW s \in CreateCalls, NEW d \in DecisionIds, NEW f \in Factors,
             NEW h \in Headers, NEW p \in BOOLEAN, StartCreate(s, d, f, h, p)
      PROVE  createCall'[r] = createCall[r] \/ r = s
  BY <1>1 DEF StartCreate, Inv, TypeOK
<1>2. ASSUME NEW s \in CreateCalls, createCall' = [createCall EXCEPT ![s] = Idle]
      PROVE  createCall'[r] = createCall[r]
  BY <1>2 DEF Inv, TypeOK
<1>3. ASSUME NEW s \in CreateCalls, EndCreate(s)
      PROVE  createCall'[r] = createCall[r]
  BY <1>2, <1>3 DEF EndCreate, FinishCreate, FailCreate
<1>4. CASE Crash
  BY <1>4 DEF Crash
<1>5. CASE UNCHANGED createCall
  BY <1>5
<1> QED
  BY <1>1, <1>3, <1>4, <1>5 DEF Next, EndVerify, PersistDecision, StartVerify,
       FinishVerify, RefuseVerify, Reset, vars, challengeVars

\* The same of verifications.
LEMMA VerificationsBegin ==
    ASSUME Inv, [Next]_vars, NEW r \in VerifyCalls, verifyCall'[r] # Idle
    PROVE  \/ verifyCall'[r] = verifyCall[r]
           \/ \E c \in ChallengeIds, h \in Headers, ok \in BOOLEAN, a \in Assertion :
                 StartVerify(r, c, h, ok, a)
<1>1. ASSUME NEW s \in VerifyCalls, NEW c \in ChallengeIds, NEW h \in Headers,
             NEW ok \in BOOLEAN, NEW a \in Assertion, StartVerify(s, c, h, ok, a)
      PROVE  verifyCall'[r] = verifyCall[r] \/ r = s
  BY <1>1 DEF StartVerify, Inv, TypeOK
<1>2. ASSUME NEW s \in VerifyCalls, verifyCall' = [verifyCall EXCEPT ![s] = Idle]
      PROVE  verifyCall'[r] = verifyCall[r]
  BY <1>2 DEF Inv, TypeOK
<1>3. ASSUME NEW s \in VerifyCalls, EndVerify(s)
      PROVE  verifyCall'[r] = verifyCall[r]
  BY <1>2, <1>3 DEF EndVerify, FinishVerify, RefuseVerify
<1>4. CASE Crash
  BY <1>4 DEF Crash
<1>5. CASE UNCHANGED verifyCall
  BY <1>5
<1> QED
  BY <1>1, <1>3, <1>4, <1>5 DEF Next, EndCreate, PersistDecision, StartCreate,
       FinishCreate, FailCreate, Reset, vars, challengeVars

-----------------------------------------------------------------------------
(* Who may answer.                                                          *)

\* A creation that chose the real ceremony did so for a user who owns a
\* credential, if its decision is still there.
CreationsOwned ==
    \A r \in CreateCalls :
        LET call == createCall[r] IN
        ( /\ call # Idle
          /\ call.mode = "WEBAUTHN"
          /\ decisions[call.decision] # NoRow )
        => HasCredentials(decisions[call.decision].user)

OwnershipInv ==
    /\ CreationsOwned
    /\ RealCeremonyNeedsCredential
    /\ AcceptedCredentialIsOwned

\* The ownership of credentials survives every step: none is ever taken away,
\* and the decision and the challenge that tie a call to a user change only by
\* being deleted.
LEMMA OwnershipNext ==
    ASSUME Inv, OwnershipInv, [Next]_vars
    PROVE  OwnershipInv'
<1>1. Inv'
  BY InvNext
<1>2. CreationsOwned'
  <2> SUFFICES ASSUME NEW r \in CreateCalls, createCall'[r] # Idle,
                      createCall'[r].mode = "WEBAUTHN",
                      decisions'[createCall'[r].decision] # NoRow
               PROVE  \E k \in Stored' : credentials'[k].user = decisions'[createCall'[r].decision].user
    BY DEF CreationsOwned, HasCredentials
  <2>1. CASE createCall'[r] = createCall[r]
    <3>1. createCall[r].decision \in DecisionIds /\ createCall[r].decision \in drawn
      BY <2>1 DEF Inv, TypeOK, CallsInv, IdsDrawn, CreateCall
    <3>2. decisions'[createCall[r].decision] = decisions[createCall[r].decision]
      BY <2>1, <3>1, DecisionsStay
    <3>3. \E k \in Stored : credentials[k].user = decisions[createCall[r].decision].user
      BY <2>1, <3>2 DEF OwnershipInv, CreationsOwned, HasCredentials
    <3> QED
      BY <2>1, <3>2, <3>3, OwnersStay
  <2>2. ASSUME NEW d \in DecisionIds, NEW f \in Factors, NEW h \in Headers,
               NEW p \in BOOLEAN, StartCreate(r, d, f, h, p)
        PROVE  \E k \in Stored' : credentials'[k].user = decisions'[createCall'[r].decision].user
    <3> DEFINE real == RunsRealCeremony(d, h, p)
               call == [decision  |-> d, factor |-> f,
                        mode      |-> IF real THEN "WEBAUTHN" ELSE "SIMULATED",
                        origin    |-> IF real THEN BoundOrigin(h) ELSE NoOrigin,
                        createdAt |-> clock, expiresAt |-> clock + Ttl]
    <3>1. createCall'[r] = call /\ UNCHANGED decisions
      BY <2>2 DEF StartCreate, caseTables, Inv, TypeOK
    <3>2. call.decision = d /\ (call.mode = "WEBAUTHN" => real)
      OBVIOUS
    <3>3. \E k \in Stored : credentials[k].user = decisions[d].user
      BY <3>1, <3>2 DEF RunsRealCeremony, HasCredentials
    <3> HIDE DEF call
    <3> QED
      BY <3>1, <3>2, <3>3, OwnersStay
  <2> QED
    BY <2>1, <2>2, CreationsBegin
<1>3. RealCeremonyNeedsCredential'
  <2> SUFFICES ASSUME NEW c \in ChallengeIds, Live(c)', challenges'[c].mode = "WEBAUTHN"
               PROVE  \E k \in Stored' : credentials'[k].user = decisions'[challenges'[c].decision].user
    BY DEF RealCeremonyNeedsCredential
  <2>1. CASE c \in drawn
    <3>1. /\ Live(c) /\ challenges'[c].decision = challenges[c].decision
          /\ challenges[c].mode = "WEBAUTHN"
      BY <2>1, ChallengesStay DEF Live
    <3>2. challenges[c].decision \in DecisionIds /\ challenges[c].decision \in drawn
      <4>1. challenges[c] \in Challenge
        BY <3>1 DEF Inv, TypeOK, Live
      <4> QED
        BY <3>1, <4>1 DEF Challenge, Inv, TablesInv, NoOrphans, CallsInv, IdsDrawn
    <3>3. decisions'[challenges[c].decision] # NoRow
      BY <1>1, <3>1 DEF Inv, TablesInv, NoOrphans
    <3>4. decisions'[challenges[c].decision] = decisions[challenges[c].decision]
      BY <3>2, <3>3, DecisionsStay
    <3>5. \E k \in Stored : credentials[k].user = decisions[challenges[c].decision].user
      BY <3>1 DEF OwnershipInv, RealCeremonyNeedsCredential
    <3> QED
      BY <3>1, <3>4, <3>5, OwnersStay
  <2>2. CASE c \notin drawn
    <3>1. challenges[c] = NoRow
      BY <2>2 DEF Inv, CallsInv, IdsDrawn, Live
    <3>2. ASSUME NEW r \in CreateCalls, NEW b \in ChallengeIds, FinishCreate(r, b)
          PROVE  \E k \in Stored' : credentials'[k].user = decisions'[challenges'[c].decision].user
      <4> DEFINE call == createCall[r]
                 row == [decision |-> call.decision, factor |-> call.factor,
                         mode |-> call.mode, origin |-> call.origin,
                         createdAt |-> call.createdAt, expiresAt |-> call.expiresAt,
                         consumedAt |-> NotYet, verified |-> FALSE]
      <4>1. /\ challenges' = [challenges EXCEPT ![b] = row] /\ UNCHANGED decisions
            /\ call # Idle /\ decisions[call.decision] # NoRow
        BY <3>2 DEF FinishCreate, ForeignKeyHolds
      <4>2. row.decision = call.decision /\ row.mode = call.mode
        OBVIOUS
      <4> HIDE DEF row
      <4>3. c = b /\ challenges'[c] = row
        BY <3>1, <4>1 DEF Live, Inv, TypeOK
      <4>4. \E k \in Stored : credentials[k].user = decisions[call.decision].user
        BY <4>1, <4>2, <4>3 DEF OwnershipInv, CreationsOwned, HasCredentials
      <4> QED
        BY <4>1, <4>2, <4>3, <4>4, OwnersStay
    <3>3. ASSUME NEW r \in VerifyCalls, FinishVerify(r)
          PROVE  FALSE
      BY <3>1, <3>3, SettlementEffect DEF Live
    <3>4. ASSUME Reset
          PROVE  FALSE
      BY <3>4 DEF Reset, Live
    <3>5. ASSUME UNCHANGED challenges
          PROVE  FALSE
      BY <3>1, <3>5 DEF Live
    <3> QED
      BY <3>2, <3>3, <3>4, <3>5 DEF Next, EndCreate, EndVerify, PersistDecision, StartCreate,
         FailCreate, StartVerify, RefuseVerify, Crash, vars, challengeVars, caseTables
  <2> QED
    BY <2>1, <2>2
<1>4. AcceptedCredentialIsOwned'
  <2> SUFFICES ASSUME NEW r \in VerifyCalls, verifyCall'[r] # Idle,
                      verifyCall'[r].result.verified,
                      challenges'[verifyCall'[r].challenge] # NoRow,
                      challenges'[verifyCall'[r].challenge].mode = "WEBAUTHN"
               PROVE  /\ verifyCall'[r].result.credential \in Stored'
                      /\ credentials'[verifyCall'[r].result.credential].user
                           = decisions'[verifyCall'[r].decision].user
    BY DEF AcceptedCredentialIsOwned, Live
  <2> DEFINE call == verifyCall'[r]
  <2>1. /\ call \in VerifyCall /\ call.challenge \in ChallengeIds
        /\ challenges'[call.challenge].decision = call.decision
        /\ call.decision \in DecisionIds
        /\ decisions'[call.decision] # NoRow
    <3>1. verifyCall' \in [VerifyCalls -> VerifyCall \cup {Idle}]
      BY <1>1 DEF Inv, TypeOK
    <3>2. call \in VerifyCall /\ call.challenge \in ChallengeIds
             /\ call.decision \in DecisionIds
      BY <3>1 DEF VerifyCall
    <3>3. challenges'[call.challenge].decision = call.decision
      BY <1>1 DEF Inv, CallsInv, VerificationsSound, Live
    <3>4. decisions'[challenges'[call.challenge].decision] # NoRow
      BY <1>1, <3>2 DEF Inv, TablesInv, NoOrphans, Live
    <3> QED
      BY <3>2, <3>3, <3>4
  <2>2. ASSUME call.result.credential \in Stored, Live(call.challenge),
               credentials[call.result.credential].user = decisions[call.decision].user,
               challenges[call.challenge].decision = call.decision
        PROVE  /\ call.result.credential \in Stored'
               /\ credentials'[call.result.credential].user = decisions'[call.decision].user
    <3>1. call.decision \in drawn
      BY <2>1, <2>2 DEF Inv, TablesInv, NoOrphans, CallsInv, IdsDrawn
    <3>2. decisions'[call.decision] = decisions[call.decision]
      BY <2>1, <3>1, DecisionsStay
    <3> QED
      BY <2>2, <3>2, CredentialsStay
  <2>3. CASE verifyCall'[r] = verifyCall[r]
    <3>1. call.challenge \in drawn
      BY <2>3 DEF Inv, CallsInv, IdsDrawn
    <3>2. /\ Live(call.challenge)
          /\ challenges'[call.challenge].decision = challenges[call.challenge].decision
          /\ challenges[call.challenge].mode = "WEBAUTHN"
      BY <2>1, <3>1, ChallengesStay
    <3>3. /\ call.result.credential \in Stored
          /\ credentials[call.result.credential].user = decisions[call.decision].user
      BY <2>3, <3>2 DEF OwnershipInv, AcceptedCredentialIsOwned
    <3> QED
      BY <2>1, <2>2, <3>2, <3>3
  <2>4. ASSUME NEW c \in ChallengeIds, NEW h \in Headers, NEW ok \in BOOLEAN,
               NEW a \in Assertion, StartVerify(r, c, h, ok, a)
        PROVE  /\ call.result.credential \in Stored
               /\ Live(call.challenge)
               /\ credentials[call.result.credential].user = decisions[call.decision].user
               /\ challenges[call.challenge].decision = call.decision
    <3>1. /\ call = [challenge |-> c, decision |-> challenges[c].decision,
                     result |-> ResultFor(c, ok, a), at |-> clock]
          /\ UNCHANGED challenges /\ Live(c)
      BY <2>4 DEF StartVerify, Admissible, Live, caseTables, Inv, TypeOK
    <3>2. /\ call.challenge = c /\ call.decision = challenges[c].decision
          /\ call.result = ResultFor(c, ok, a)
      BY <3>1
    <3>3. challenges[c].mode = "WEBAUTHN" /\ call.result.verified
      BY <3>1, <3>2
    <3>4. /\ AuthenticationHolds(c, a)
          /\ call.result.credential = a.credential
      BY <3>2, <3>3 DEF ResultFor
    <3>5. a.credential \in Stored
             /\ credentials[a.credential].user = decisions[challenges[c].decision].user
      BY <3>4 DEF AuthenticationHolds, OwnedBy, Stored, Assertion
    <3> QED
      BY <3>1, <3>2, <3>4, <3>5
  <2> QED
    BY <2>2, <2>3, <2>4, VerificationsBegin
<1> QED
  BY <1>2, <1>3, <1>4 DEF OwnershipInv

\* Nothing is in flight and nothing stored at the start.
LEMMA OwnershipInit == Init => OwnershipInv
  BY DEF Init, OwnershipInv, CreationsOwned, RealCeremonyNeedsCredential,
         AcceptedCredentialIsOwned, Live

\* A verification that is about to authorize through a real ceremony relies on
\* a credential its user owns, although the owner was looked up before the
\* await: the property AcceptedCredentialIsOwned.
THEOREM AcceptedCredentialsOwned == Spec => []AcceptedCredentialIsOwned
<1>1. Inv /\ OwnershipInv /\ [Next]_vars => OwnershipInv'
  BY OwnershipNext
<1>2. OwnershipInv => AcceptedCredentialIsOwned
  BY DEF OwnershipInv
<1> QED
  BY InvInit, InvNext, OwnershipInit, <1>1, <1>2, PTL DEF Spec

\* Real ceremonies are only asked of users who can answer them: the property
\* RealCeremonyNeedsCredential.
THEOREM RealCeremoniesAnswerable == Spec => []RealCeremonyNeedsCredential
<1>1. Inv /\ OwnershipInv /\ [Next]_vars => OwnershipInv'
  BY OwnershipNext
<1>2. OwnershipInv => RealCeremonyNeedsCredential
  BY DEF OwnershipInv
<1> QED
  BY InvInit, InvNext, OwnershipInit, <1>1, <1>2, PTL DEF Spec

-----------------------------------------------------------------------------
(* The ledger.                                                              *)

LedgerCodes == {"challenge_created", "challenge_verified", "challenge_denied"}

\* The events of a decision with a code, and the challenges they tell of.
Coded(d, code) == {t \in trace : t.decision = d /\ t.code = code}

Tells(code, c) ==
    \/ code = "challenge_created"
    \/ code = "challenge_verified" /\ Settled(c) /\ challenges[c].verified
    \/ code = "challenge_denied" /\ Settled(c) /\ ~challenges[c].verified

ToldOf(d, code) ==
    {c \in ChallengeIds : Live(c) /\ challenges[c].decision = d /\ Tells(code, c)}

\* Two sets of the same finite size.
Matching(S, T) ==
    /\ IsFiniteSet(S)
    /\ IsFiniteSet(T)
    /\ Cardinality(S) = Cardinality(T)

LedgerInv ==
    \A d \in DecisionIds, code \in LedgerCodes :
        Matching(Coded(d, code), ToldOf(d, code))

\* Two empty sets match, and two that match still do when each gains one.
LEMMA MatchingGrows ==
    /\ Matching({}, {})
    /\ \A S, T, x, y : Matching(S, T) /\ x \notin S /\ y \notin T
                          => Matching(S \cup {x}, T \cup {y})
<1>1. Matching({}, {})
  BY FS_EmptySet DEF Matching
<1>2. ASSUME NEW S, NEW T, Matching(S, T), NEW x, x \notin S, NEW y, y \notin T
      PROVE  Matching(S \cup {x}, T \cup {y})
  <2>1. IsFiniteSet(S \cup {x}) /\ Cardinality(S \cup {x}) = Cardinality(S) + 1
    BY <1>2, FS_AddElement DEF Matching
  <2>2. IsFiniteSet(T \cup {y}) /\ Cardinality(T \cup {y}) = Cardinality(T) + 1
    BY <1>2, FS_AddElement DEF Matching
  <2> QED
    BY <1>2, <2>1, <2>2 DEF Matching
<1> QED
  BY <1>1, <1>2

\* An appended event is not in the trace yet, as its number is larger than all
\* numbers of its decision, and it joins the events of its own code only.
LEMMA AppendAddsOneEvent ==
    ASSUME Inv, NEW d \in DecisionIds, NEW phase \in {"CHALLENGE", "OUTCOME"},
           NEW code \in LedgerCodes, AppendTrace(d, phase, code)
    PROVE  \E event :
              /\ event \notin Coded(d, code)
              /\ Coded(d, code)' = Coded(d, code) \cup {event}
              /\ \A e \in DecisionIds, k \in LedgerCodes :
                    e # d \/ k # code => Coded(e, k)' = Coded(e, k)
<1> DEFINE event == [decision |-> d, sequence |-> NextSequence(d),
                     phase |-> phase, code |-> code]
<1>1. \A t \in trace : t.decision = d => t.sequence < NextSequence(d)
  BY AppendKeepsGapless DEF Inv, TypeOK, TablesInv, LedgerCodes
<1>2. NextSequence(d) \in Nat
  BY NextSequenceIsLength DEF Inv, TypeOK, TablesInv
<1>3. /\ trace' = trace \cup {event}
      /\ event.decision = d /\ event.code = code /\ event.sequence = NextSequence(d)
  BY DEF AppendTrace
<1> HIDE DEF event
<1>4. event \notin Coded(d, code)
  BY <1>1, <1>2, <1>3 DEF Coded
<1> QED
  BY <1>3, <1>4 DEF Coded

\* So a step that appends an event and gives it one challenge to tell of keeps
\* the ledger.
LEMMA EventForChallenge ==
    ASSUME Inv, LedgerInv, NEW d \in DecisionIds,
           NEW phase \in {"CHALLENGE", "OUTCOME"}, NEW code \in LedgerCodes,
           AppendTrace(d, phase, code), NEW c \in ChallengeIds,
           c \notin ToldOf(d, code),
           ToldOf(d, code)' = ToldOf(d, code) \cup {c},
           \A e \in DecisionIds, k \in LedgerCodes :
              e # d \/ k # code => ToldOf(e, k)' = ToldOf(e, k)
    PROVE  LedgerInv'
<1>1. PICK event :
        /\ event \notin Coded(d, code)
        /\ Coded(d, code)' = Coded(d, code) \cup {event}
        /\ \A e \in DecisionIds, k \in LedgerCodes :
              e # d \/ k # code => Coded(e, k)' = Coded(e, k)
  BY AppendAddsOneEvent
<1>2. Matching(Coded(d, code) \cup {event}, ToldOf(d, code) \cup {c})
  BY <1>1, MatchingGrows DEF LedgerInv
<1>3. ASSUME NEW e \in DecisionIds, NEW k \in LedgerCodes
      PROVE  Matching(Coded(e, k)', ToldOf(e, k)')
  BY <1>1, <1>2 DEF LedgerInv
<1> QED
  BY <1>3 DEF LedgerInv

\* And so does a step that leaves both sides alone.
LEMMA NothingToTell ==
    ASSUME LedgerInv,
           \A e \in DecisionIds, k \in LedgerCodes :
              Coded(e, k)' = Coded(e, k) /\ ToldOf(e, k)' = ToldOf(e, k)
    PROVE  LedgerInv'
<1>1. ASSUME NEW e \in DecisionIds, NEW k \in LedgerCodes
      PROVE  Matching(Coded(e, k)', ToldOf(e, k)')
  BY DEF LedgerInv
<1> QED
  BY <1>1 DEF LedgerInv

\* The transaction of a creation adds one challenge and one event.
LEMMA FinishCreateKeepsLedger ==
    ASSUME Inv, LedgerInv, NEW r \in CreateCalls, NEW c \in ChallengeIds,
           FinishCreate(r, c), NEW d \in DecisionIds, d = createCall[r].decision
    PROVE  LedgerInv'
<1> USE ChallengeConstants
<1> DEFINE call == createCall[r]
           row == [decision |-> d, factor |-> call.factor, mode |-> call.mode,
                   origin |-> call.origin, createdAt |-> call.createdAt,
                   expiresAt |-> call.expiresAt, consumedAt |-> NotYet,
                   verified |-> FALSE]
<1>1. /\ challenges' = [challenges EXCEPT ![c] = row]
      /\ call # Idle /\ c \notin drawn
      /\ AppendTrace(d, "CHALLENGE", "challenge_created")
  BY DEF FinishCreate
<1>2. call \in CreateCall
  BY <1>1 DEF Inv, TypeOK
<1>3. row \in Challenge /\ row.decision = d /\ row.consumedAt = NotYet
  BY <1>2 DEF CreateCall, Challenge, NotYet
<1>4. row # NoRow
  BY <1>3 DEF ChallengeAssumption
<1> HIDE DEF row
<1>5. \A b \in ChallengeIds : challenges'[b] = IF b = c THEN row ELSE challenges[b]
  BY <1>1 DEF Inv, TypeOK
<1>6. ~Live(c)
  BY <1>1 DEF Inv, CallsInv, IdsDrawn
<1>7. c \notin ToldOf(d, "challenge_created")
  BY <1>6 DEF ToldOf
<1>8. \A k : (c \in ToldOf(d, k)') <=> k = "challenge_created"
  BY <1>3, <1>4, <1>5 DEF ToldOf, Tells, Live, Settled
<1>9. \A e, k : e # d => c \notin ToldOf(e, k)'
  BY <1>3, <1>5 DEF ToldOf
<1>10. \A e, k, b : b # c => ((b \in ToldOf(e, k)') <=> b \in ToldOf(e, k))
  BY <1>5 DEF ToldOf, Tells, Live, Settled
<1>11. \A e, k : c \notin ToldOf(e, k)
  BY <1>6 DEF ToldOf
<1>12. ToldOf(d, "challenge_created")' = ToldOf(d, "challenge_created") \cup {c}
  BY <1>8, <1>10
<1>13. \A e \in DecisionIds, k \in LedgerCodes :
          e # d \/ k # "challenge_created" => ToldOf(e, k)' = ToldOf(e, k)
  BY <1>8, <1>9, <1>10, <1>11
<1>14. "challenge_created" \in LedgerCodes
  BY DEF LedgerCodes
<1> QED
  BY <1>1, <1>7, <1>12, <1>13, <1>14, EventForChallenge

\* The transaction of a verification settles one challenge of its decision and
\* adds the event of its verdict.
LEMMA FinishVerifyKeepsLedger ==
    ASSUME Inv, LedgerInv, NEW r \in VerifyCalls, FinishVerify(r),
           NEW d \in DecisionIds, d = verifyCall[r].decision,
           NEW c \in ChallengeIds, c = verifyCall[r].challenge,
           NEW code, code = IF verifyCall[r].result.verified
                            THEN "challenge_verified" ELSE "challenge_denied"
    PROVE  LedgerInv'
<1>1. /\ Live(c) /\ ~Settled(c) /\ d = challenges[c].decision
      /\ \A b \in ChallengeIds \ {c} : challenges'[b] = challenges[b]
      /\ challenges'[c] # NoRow /\ challenges'[c].consumedAt # NotYet
      /\ challenges'[c].decision = d
      /\ challenges'[c].verified <=> code = "challenge_verified"
      /\ code \in {"challenge_verified", "challenge_denied"}
  BY SettlementEffect
<1>2. AppendTrace(d, "OUTCOME", code)
  BY DEF FinishVerify
<1>3. c \notin ToldOf(d, code) /\ c \in ToldOf(d, code)'
  BY <1>1 DEF ToldOf, Tells, Live, Settled
<1>4. \A e \in DecisionIds, k \in LedgerCodes :
         e # d \/ k # code => (c \in ToldOf(e, k)' <=> c \in ToldOf(e, k))
  BY <1>1 DEF ToldOf, Tells, Live, Settled, LedgerCodes
<1>5. \A e, k, b : b # c => ((b \in ToldOf(e, k)') <=> b \in ToldOf(e, k))
  BY <1>1 DEF ToldOf, Tells, Live, Settled
<1>6. ToldOf(d, code)' = ToldOf(d, code) \cup {c}
  BY <1>3, <1>5
<1>7. \A e \in DecisionIds, k \in LedgerCodes :
         e # d \/ k # code => ToldOf(e, k)' = ToldOf(e, k)
  <2> SUFFICES ASSUME NEW e \in DecisionIds, NEW k \in LedgerCodes, e # d \/ k # code,
                      NEW b
               PROVE  (b \in ToldOf(e, k)') <=> b \in ToldOf(e, k)
    OBVIOUS
  <2> QED
    BY <1>4, <1>5
<1>8. code \in LedgerCodes
  BY <1>1 DEF LedgerCodes
<1> QED
  BY <1>2, <1>3, <1>6, <1>7, <1>8, EventForChallenge

\* Every step of the server keeps the ledger: the engine's own events have a
\* code of their own, and a reset empties both sides.
LEMMA LedgerNext ==
    ASSUME Inv, LedgerInv, [Next]_vars
    PROVE  LedgerInv'
<1>1. ASSUME NEW d \in DecisionIds, NEW u \in Users, NEW m \in FactorMaps,
             PersistDecision(d, u, m)
      PROVE  LedgerInv'
  <2> DEFINE new == [decision: {d}, sequence: 0..CoreEvents - 1,
                     phase: {"CORE"}, code: {"core"}]
  <2>1. /\ trace' = trace \cup new /\ \A t \in new : t.code = "core"
        /\ UNCHANGED challenges
    BY <1>1 DEF PersistDecision
  <2> HIDE DEF new
  <2>2. \A e \in DecisionIds, k \in LedgerCodes :
           Coded(e, k)' = Coded(e, k) /\ ToldOf(e, k)' = ToldOf(e, k)
    BY <2>1 DEF Coded, ToldOf, Tells, Live, Settled, LedgerCodes
  <2> QED
    BY <2>2, NothingToTell
<1>2. ASSUME NEW r \in CreateCalls, NEW c \in ChallengeIds, FinishCreate(r, c)
      PROVE  LedgerInv'
  <2>1. PICK d \in DecisionIds : d = createCall[r].decision
    BY <1>2 DEF FinishCreate, Inv, TypeOK, CreateCall
  <2> QED
    BY <1>2, <2>1, FinishCreateKeepsLedger
<1>3. ASSUME NEW r \in VerifyCalls, FinishVerify(r)
      PROVE  LedgerInv'
  <2>1. PICK d \in DecisionIds, c \in ChallengeIds :
           d = verifyCall[r].decision /\ c = verifyCall[r].challenge
    BY <1>3, SettlementEffect
  <2> QED
    BY <1>3, <2>1, FinishVerifyKeepsLedger
<1>4. CASE Reset
  <2>1. ASSUME NEW e \in DecisionIds, NEW k \in LedgerCodes
        PROVE  Matching(Coded(e, k)', ToldOf(e, k)')
    <3>1. Coded(e, k)' = {} /\ ToldOf(e, k)' = {}
      BY <1>4 DEF Reset, Coded, ToldOf, Live
    <3> QED
      BY <3>1, MatchingGrows
  <2> QED
    BY <2>1 DEF LedgerInv
<1>5. CASE UNCHANGED <<challenges, trace>>
  <2>1. \A e \in DecisionIds, k \in LedgerCodes :
           Coded(e, k)' = Coded(e, k) /\ ToldOf(e, k)' = ToldOf(e, k)
    BY <1>5 DEF Coded, ToldOf, Tells, Live, Settled
  <2> QED
    BY <2>1, NothingToTell
<1> QED
  BY <1>1, <1>2, <1>3, <1>4, <1>5 DEF Next, EndCreate, EndVerify, StartCreate, FailCreate,
       StartVerify, RefuseVerify, Crash, vars, challengeVars, caseTables

\* The empty tables match.
LEMMA LedgerInit == Init => LedgerInv
<1> SUFFICES ASSUME Init, NEW d \in DecisionIds, NEW code \in LedgerCodes
             PROVE  Matching(Coded(d, code), ToldOf(d, code))
  BY DEF LedgerInv
<1>1. Coded(d, code) = {} /\ ToldOf(d, code) = {}
  BY DEF Init, Coded, ToldOf, Live
<1> QED
  BY <1>1, MatchingGrows

\* Every challenge has its event and every verdict has its event, and there are
\* no others, for any number of requests, failures and resets: the property
\* OneEventPerChange.
THEOREM LedgerIsExact == Spec => []OneEventPerChange
<1>1. Inv /\ LedgerInv /\ [Next]_vars => LedgerInv'
  BY LedgerNext
<1>2. LedgerInv => OneEventPerChange
  <2> SUFFICES ASSUME LedgerInv, NEW d \in DecisionIds
               PROVE  LET mine == {c \in ChallengeIds :
                                     Live(c) /\ challenges[c].decision = d}
                          settled == {c \in mine : Settled(c)}
                          coded(code) == {t \in trace : t.decision = d /\ t.code = code}
                      IN  /\ Cardinality(coded("challenge_created")) = Cardinality(mine)
                          /\ Cardinality(coded("challenge_verified")) =
                               Cardinality({c \in settled : challenges[c].verified})
                          /\ Cardinality(coded("challenge_denied")) =
                               Cardinality({c \in settled : ~challenges[c].verified})
    BY DEF OneEventPerChange
  <2> DEFINE mine == {c \in ChallengeIds : Live(c) /\ challenges[c].decision = d}
             settled == {c \in mine : Settled(c)}
  <2>1. /\ mine = ToldOf(d, "challenge_created")
        /\ {c \in settled : challenges[c].verified} = ToldOf(d, "challenge_verified")
        /\ {c \in settled : ~challenges[c].verified} = ToldOf(d, "challenge_denied")
    BY DEF ToldOf, Tells
  <2>2. \A code \in LedgerCodes :
           Cardinality(Coded(d, code)) = Cardinality(ToldOf(d, code))
    BY DEF LedgerInv, Matching
  <2>3. /\ Cardinality(Coded(d, "challenge_created")) = Cardinality(mine)
        /\ Cardinality(Coded(d, "challenge_verified")) =
             Cardinality({c \in settled : challenges[c].verified})
        /\ Cardinality(Coded(d, "challenge_denied")) =
             Cardinality({c \in settled : ~challenges[c].verified})
    BY <2>1, <2>2 DEF LedgerCodes
  <2> QED
    BY <2>3 DEF Coded
<1> QED
  BY InvInit, InvNext, LedgerInit, <1>1, <1>2, PTL DEF Spec

=============================================================================
