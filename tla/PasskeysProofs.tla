---------------------------- MODULE PasskeysProofs ----------------------------
(***************************************************************************)
(* Proofs about Passkeys for every number of users, credentials,           *)
(* ceremonies and requests in flight.                                      *)
(*                                                                         *)
(* A commit relies on checks made before the handler's await.  What makes  *)
(* that sound is stated by CompletionsInTime: the ceremony a completion in *)
(* flight works on is still there, with the user and the lifetime it was   *)
(* checked with.  It is the strengthening the other invariants need.       *)
(***************************************************************************)
EXTENDS Passkeys, FiniteSetTheorems, TLAPS

\* A completion in flight began within the lifetime of a stored ceremony.
CompletionsInTime ==
    \A r \in RegistrationCalls :
        regCall[r] # Idle /\ regCall[r].kind = "complete" =>
            LET c == regCall[r].ceremony IN
            /\ registrations[c] # NoRow
            /\ registrations[c].createdAt <= regCall[r].at
            /\ regCall[r].at < registrations[c].expiresAt

\* No ceremony begins in the future.
BegunInThePast ==
    \A c \in CeremonyIds :
        registrations[c] # NoRow => registrations[c].createdAt <= clock

PasskeyInv ==
    /\ PasskeyTypeOK
    /\ BegunInThePast
    /\ CompletionsInTime
    /\ CredentialHasCeremony
    /\ EnrolledMatchesCredentials

-----------------------------------------------------------------------------
(* The inductive invariant.                                                 *)

\* The state the server starts in satisfies the invariant.
LEMMA PasskeyInvInit == PasskeyInit => PasskeyInv
<1> SUFFICES ASSUME PasskeyInit PROVE PasskeyInv
  OBVIOUS
<1> USE PasskeyConstants DEF PasskeyAssumption, PasskeyInit
<1>1. PasskeyTypeOK
  BY DEF PasskeyTypeOK
<1>2. BegunInThePast /\ CompletionsInTime
  BY DEF BegunInThePast, CompletionsInTime
<1>3. Stored = {}
  BY DEF Stored
<1>4. CredentialHasCeremony /\ EnrolledMatchesCredentials
  BY <1>3 DEF CredentialHasCeremony, EnrolledMatchesCredentials
<1> QED
  BY <1>1, <1>2, <1>4 DEF PasskeyInv

\* Beginning a registration leaves the tables alone.
LEMMA BeginKeepsInv ==
    ASSUME PasskeyInv, NEW r \in RegistrationCalls, NEW u \in Users,
           NEW h \in Headers, BeginRegistration(r, u, h)
    PROVE  PasskeyInv'
<1> USE PasskeyConstants
<1> DEFINE call == [kind |-> "begin", user |-> u, origin |-> BoundOrigin(h)]
<1>1. call \in BeginCall
  BY DEF BeginCall, BoundOrigin, Headers, PasskeyAssumption
<1>2. /\ UNCHANGED <<clock, registrations, credentials, enrolled>>
      /\ regCall' = [regCall EXCEPT ![r] = call]
  BY DEF BeginRegistration, passkeyTables
<1>3. PasskeyTypeOK'
  BY <1>1, <1>2 DEF PasskeyInv, PasskeyTypeOK
<1>4. CompletionsInTime'
  BY <1>2 DEF PasskeyInv, PasskeyTypeOK, CompletionsInTime
<1>5. (BegunInThePast /\ CredentialHasCeremony /\ EnrolledMatchesCredentials)'
  BY <1>2 DEF PasskeyInv, BegunInThePast, CredentialHasCeremony,
              EnrolledMatchesCredentials, Stored, Consumed
<1> QED
  BY <1>3, <1>4, <1>5 DEF PasskeyInv

\* A new ceremony takes an id without row, so it replaces none that a
\* completion in flight or a stored credential relies on.
LEMMA IssueKeepsInv ==
    ASSUME PasskeyInv, NEW r \in RegistrationCalls, NEW c \in CeremonyIds,
           IssueCeremony(r, c)
    PROVE  PasskeyInv'
<1> USE PasskeyConstants
<1> DEFINE row == [user |-> regCall[r].user, origin |-> regCall[r].origin,
                   createdAt |-> clock, expiresAt |-> clock + Ttl,
                   consumedAt |-> NotYet]
<1>1. /\ regCall[r] \in BeginCall
      /\ registrations[c] = NoRow
      /\ registrations' = [registrations EXCEPT ![c] = row]
      /\ regCall' = [regCall EXCEPT ![r] = Idle]
      /\ UNCHANGED <<clock, credentials, enrolled>>
  BY DEF PasskeyInv, PasskeyTypeOK, IssueCeremony, CompleteCall
<1>2. row \in Ceremony
  BY <1>1 DEF PasskeyInv, PasskeyTypeOK, BeginCall, Ceremony, NotYet,
              PasskeyAssumption
<1>3. row # NoRow
  BY <1>2 DEF PasskeyAssumption
<1> HIDE DEF row
<1>4. PasskeyTypeOK'
  BY <1>1, <1>2 DEF PasskeyInv, PasskeyTypeOK
<1>5. BegunInThePast'
  BY <1>1 DEF PasskeyInv, PasskeyTypeOK, BegunInThePast, row
<1>6. CompletionsInTime'
  <2> SUFFICES ASSUME NEW s \in RegistrationCalls,
                      regCall'[s] # Idle, regCall'[s].kind = "complete"
               PROVE  LET b == regCall'[s].ceremony IN
                      /\ registrations'[b] # NoRow
                      /\ registrations'[b].createdAt <= regCall'[s].at
                      /\ regCall'[s].at < registrations'[b].expiresAt
    BY DEF CompletionsInTime
  <2>1. s # r /\ regCall'[s] = regCall[s]
    BY <1>1 DEF PasskeyInv, PasskeyTypeOK
  <2>2. /\ registrations[regCall[s].ceremony] # NoRow
        /\ registrations[regCall[s].ceremony].createdAt <= regCall[s].at
        /\ regCall[s].at < registrations[regCall[s].ceremony].expiresAt
    BY <2>1 DEF PasskeyInv, CompletionsInTime
  <2>3. regCall[s].ceremony # c
    BY <1>1, <2>2
  <2>4. registrations'[regCall[s].ceremony] = registrations[regCall[s].ceremony]
    BY <1>1, <2>3 DEF PasskeyInv, PasskeyTypeOK
  <2> QED
    BY <2>1, <2>2, <2>4
<1>7. Consumed' = Consumed /\ Stored' = Stored
  BY <1>1, <1>3 DEF PasskeyInv, PasskeyTypeOK, Consumed, Stored, row
<1>8. CredentialHasCeremony'
  <2>1. \A b \in Consumed : registrations'[b] = registrations[b]
    BY <1>1 DEF PasskeyInv, PasskeyTypeOK, Consumed
  <2> QED
    BY <1>1, <1>7, <2>1 DEF PasskeyInv, CredentialHasCeremony
<1>9. EnrolledMatchesCredentials'
  BY <1>1, <1>7 DEF PasskeyInv, EnrolledMatchesCredentials
<1> QED
  BY <1>4, <1>5, <1>6, <1>8, <1>9 DEF PasskeyInv

\* The checks before the await are what CompletionsInTime remembers.
LEMMA StartKeepsInv ==
    ASSUME PasskeyInv, NEW r \in RegistrationCalls, NEW c \in CeremonyIds,
           NEW a \in Attestation, StartCompletion(r, c, a)
    PROVE  PasskeyInv'
<1> USE PasskeyConstants
<1> DEFINE call == [kind |-> "complete", ceremony |-> c,
                    credential |-> a.credential, counter |-> a.counter,
                    verified |-> AttestationHolds(c, a), at |-> clock]
<1>1. /\ UNCHANGED <<clock, registrations, credentials, enrolled>>
      /\ regCall' = [regCall EXCEPT ![r] = call]
      /\ registrations[c] # NoRow
      /\ clock < registrations[c].expiresAt
  BY DEF StartCompletion, passkeyTables, CeremonyOpen
<1>2. AttestationHolds(c, a) \in BOOLEAN
  BY DEF AttestationHolds
<1>3. call \in CompleteCall
  BY <1>2 DEF CompleteCall, Attestation, PasskeyInv, PasskeyTypeOK
<1>4. call # Idle /\ call.ceremony = c /\ call.at = clock
  BY <1>3 DEF PasskeyAssumption
<1> HIDE DEF call
<1>5. PasskeyTypeOK'
  BY <1>1, <1>3 DEF PasskeyInv, PasskeyTypeOK
<1>6. CompletionsInTime'
  BY <1>1, <1>4 DEF PasskeyInv, PasskeyTypeOK, BegunInThePast, CompletionsInTime
<1>7. (BegunInThePast /\ CredentialHasCeremony /\ EnrolledMatchesCredentials)'
  BY <1>1 DEF PasskeyInv, BegunInThePast, CredentialHasCeremony,
              EnrolledMatchesCredentials, Stored, Consumed
<1> QED
  BY <1>5, <1>6, <1>7 DEF PasskeyInv

\* What the transaction of a completion changes: its ceremony goes from open
\* to consumed, its credential from absent to stored.
LEMMA CompletionEffect ==
    ASSUME PasskeyInv, NEW r \in RegistrationCalls, FinishCompletion(r)
    PROVE  LET c == regCall[r].ceremony
               k == regCall[r].credential IN
           /\ c \in CeremonyIds /\ k \in CredentialIds
           /\ c \notin Consumed /\ k \notin Stored
           /\ Consumed' = Consumed \cup {c}
           /\ Stored' = Stored \cup {k}
           /\ \A b \in CeremonyIds \ {c} : registrations'[b] = registrations[b]
           /\ \A j \in CredentialIds \ {k} : credentials'[j] = credentials[j]
           /\ registrations[c] \in Ceremony
           /\ registrations'[c] \in Ceremony
           /\ registrations'[c] = [registrations[c] EXCEPT !.consumedAt = regCall[r].at]
           /\ credentials'[k] \in Credential
           /\ credentials'[k] = [user |-> registrations[c].user,
                                 counter |-> regCall[r].counter,
                                 createdAt |-> regCall[r].at]
           /\ enrolled' = [enrolled EXCEPT ![registrations[c].user] = TRUE]
<1> USE PasskeyConstants
<1> DEFINE c == regCall[r].ceremony
           k == regCall[r].credential
<1>1. /\ regCall[r] \in CompleteCall
      /\ regCall[r] # Idle
      /\ regCall[r].kind = "complete"
      /\ registrations[c].consumedAt = NotYet
      /\ credentials[k] = NoRow
  BY DEF PasskeyInv, PasskeyTypeOK, FinishCompletion, CompletionCommits,
         StillUnconsumed, BeginCall
<1>2. c \in CeremonyIds /\ k \in CredentialIds /\ regCall[r].at \in Nat
         /\ regCall[r].counter \in Counters
  BY <1>1 DEF CompleteCall
<1>3. registrations[c] \in Ceremony
  BY <1>1, <1>2 DEF PasskeyInv, PasskeyTypeOK, CompletionsInTime
<1>4. /\ registrations' = [registrations EXCEPT ![c].consumedAt = regCall[r].at]
      /\ credentials' = [credentials EXCEPT ![k] =
                           [user |-> registrations[c].user,
                            counter |-> regCall[r].counter,
                            createdAt |-> regCall[r].at]]
      /\ enrolled' = [enrolled EXCEPT ![registrations[c].user] = TRUE]
  BY DEF FinishCompletion, ConsumeCeremony, StoreCredential
<1>5. /\ registrations'[c] = [registrations[c] EXCEPT !.consumedAt = regCall[r].at]
      /\ \A b \in CeremonyIds \ {c} : registrations'[b] = registrations[b]
  BY <1>2, <1>4 DEF PasskeyInv, PasskeyTypeOK
<1>6. /\ credentials'[k] = [user |-> registrations[c].user,
                            counter |-> regCall[r].counter,
                            createdAt |-> regCall[r].at]
      /\ \A j \in CredentialIds \ {k} : credentials'[j] = credentials[j]
  BY <1>2, <1>4 DEF PasskeyInv, PasskeyTypeOK
<1>7. registrations'[c] \in Ceremony /\ registrations'[c].consumedAt # NotYet
  BY <1>2, <1>3, <1>5 DEF Ceremony, NotYet
<1>8. credentials'[k] \in Credential
  BY <1>2, <1>3, <1>6 DEF Ceremony, Credential
<1>9. registrations'[c] # NoRow /\ credentials'[k] # NoRow
  BY <1>7, <1>8 DEF PasskeyAssumption
<1>10. c \notin Consumed /\ Consumed' = Consumed \cup {c}
  BY <1>1, <1>2, <1>5, <1>7, <1>9 DEF Consumed
<1>11. k \notin Stored /\ Stored' = Stored \cup {k}
  BY <1>1, <1>2, <1>6, <1>9 DEF Stored
<1> QED
  BY <1>2, <1>3, <1>4, <1>5, <1>6, <1>7, <1>8, <1>10, <1>11

\* The commit stores the ceremony's user, in time, although both were checked
\* before the await.
LEMMA FinishKeepsInv ==
    ASSUME PasskeyInv, NEW r \in RegistrationCalls, FinishCompletion(r)
    PROVE  PasskeyInv'
<1> USE PasskeyConstants
<1> DEFINE c == regCall[r].ceremony
           k == regCall[r].credential
<1>1. /\ regCall[r] # Idle /\ regCall[r].kind = "complete"
      /\ regCall' = [regCall EXCEPT ![r] = Idle]
      /\ UNCHANGED clock
      /\ registrations' = [registrations EXCEPT ![c].consumedAt = regCall[r].at]
      /\ credentials' = [credentials EXCEPT ![k] =
                           [user |-> registrations[c].user,
                            counter |-> regCall[r].counter,
                            createdAt |-> regCall[r].at]]
  BY DEF FinishCompletion, ConsumeCeremony, StoreCredential
<1>2. /\ c \in CeremonyIds /\ k \in CredentialIds
      /\ c \notin Consumed /\ k \notin Stored
      /\ Consumed' = Consumed \cup {c}
      /\ Stored' = Stored \cup {k}
      /\ \A b \in CeremonyIds \ {c} : registrations'[b] = registrations[b]
      /\ \A j \in CredentialIds \ {k} : credentials'[j] = credentials[j]
      /\ registrations[c] \in Ceremony
      /\ registrations'[c] \in Ceremony
      /\ registrations'[c] = [registrations[c] EXCEPT !.consumedAt = regCall[r].at]
      /\ credentials'[k] \in Credential
      /\ credentials'[k] = [user |-> registrations[c].user,
                            counter |-> regCall[r].counter,
                            createdAt |-> regCall[r].at]
      /\ enrolled' = [enrolled EXCEPT ![registrations[c].user] = TRUE]
  BY CompletionEffect
<1>3. /\ registrations'[c].user = registrations[c].user
      /\ registrations'[c].createdAt = registrations[c].createdAt
      /\ registrations'[c].expiresAt = registrations[c].expiresAt
      /\ registrations'[c].consumedAt = regCall[r].at
      /\ registrations[c].user \in Users
  BY <1>2 DEF Ceremony
<1>4. /\ registrations[c].createdAt <= regCall[r].at
      /\ regCall[r].at < registrations[c].expiresAt
  BY <1>1 DEF PasskeyInv, CompletionsInTime
<1>5. registrations'[c] # NoRow /\ registrations[c] # NoRow
  BY <1>2 DEF PasskeyAssumption
<1>6. PasskeyTypeOK'
  BY <1>1, <1>2, <1>3 DEF PasskeyInv, PasskeyTypeOK
<1>7. BegunInThePast'
  BY <1>1, <1>2, <1>3, <1>5 DEF PasskeyInv, BegunInThePast
<1>8. CompletionsInTime'
  <2> SUFFICES ASSUME NEW s \in RegistrationCalls,
                      regCall'[s] # Idle, regCall'[s].kind = "complete"
               PROVE  LET b == regCall'[s].ceremony IN
                      /\ registrations'[b] # NoRow
                      /\ registrations'[b].createdAt <= regCall'[s].at
                      /\ regCall'[s].at < registrations'[b].expiresAt
    BY DEF CompletionsInTime
  <2>1. s # r /\ regCall'[s] = regCall[s]
    BY <1>1 DEF PasskeyInv, PasskeyTypeOK
  <2>2. /\ regCall[s] \in CompleteCall
        /\ registrations[regCall[s].ceremony] # NoRow
        /\ registrations[regCall[s].ceremony].createdAt <= regCall[s].at
        /\ regCall[s].at < registrations[regCall[s].ceremony].expiresAt
    BY <2>1 DEF PasskeyInv, PasskeyTypeOK, CompletionsInTime, BeginCall
  <2>3. regCall[s].ceremony \in CeremonyIds
    BY <2>2 DEF CompleteCall
  <2>4. CASE regCall[s].ceremony = c
    BY <1>3, <1>5, <2>1, <2>2, <2>4
  <2>5. CASE regCall[s].ceremony # c
    BY <1>2, <2>1, <2>2, <2>3, <2>5
  <2> QED
    BY <2>4, <2>5
<1>9. CredentialHasCeremony'
  <2> SUFFICES ASSUME NEW j \in Stored'
               PROVE  \E b \in Consumed' :
                        /\ registrations'[b].user = credentials'[j].user
                        /\ registrations'[b].consumedAt = credentials'[j].createdAt
                        /\ registrations'[b].createdAt <= registrations'[b].consumedAt
                        /\ registrations'[b].consumedAt < registrations'[b].expiresAt
    BY DEF CredentialHasCeremony
  <2>1. CASE j = k
    <3>1. c \in Consumed'
      BY <1>2
    <3>2. /\ credentials'[j].user = registrations[c].user
          /\ credentials'[j].createdAt = regCall[r].at
      BY <1>2, <2>1
    <3> QED
      BY <1>3, <1>4, <3>1, <3>2
  <2>2. CASE j # k
    <3>1. j \in Stored /\ credentials'[j] = credentials[j]
      BY <1>2, <2>2 DEF Stored
    <3>2. PICK b \in Consumed :
             /\ registrations[b].user = credentials[j].user
             /\ registrations[b].consumedAt = credentials[j].createdAt
             /\ registrations[b].createdAt <= registrations[b].consumedAt
             /\ registrations[b].consumedAt < registrations[b].expiresAt
      BY <3>1 DEF PasskeyInv, CredentialHasCeremony
    <3>3. b \in Consumed' /\ registrations'[b] = registrations[b]
      BY <1>2, <3>2 DEF Consumed
    <3> QED
      BY <3>1, <3>2, <3>3
  <2> QED
    BY <2>1, <2>2
<1>10. EnrolledMatchesCredentials'
  <2>1. credentials'[k].user = registrations[c].user
    BY <1>2
  <2>2. \A j \in Stored : j # k /\ credentials'[j] = credentials[j]
    BY <1>2 DEF Stored
  <2>3. ASSUME NEW u \in Users
        PROVE  enrolled'[u] <=> \/ u \in SeedEnrolled
                                \/ \E j \in Stored' : credentials'[j].user = u
    <3>1. enrolled[u] <=> \/ u \in SeedEnrolled
                          \/ \E j \in Stored : credentials[j].user = u
      BY DEF PasskeyInv, EnrolledMatchesCredentials
    <3>2. (\E j \in Stored' : credentials'[j].user = u)
            <=> \/ u = registrations[c].user
                \/ \E j \in Stored : credentials[j].user = u
      BY <1>2, <2>1, <2>2
    <3>3. CASE u = registrations[c].user
      <4>1. enrolled'[u]
        BY <1>2, <1>3, <3>3 DEF PasskeyInv, PasskeyTypeOK
      <4> QED
        BY <3>2, <3>3, <4>1
    <3>4. CASE u # registrations[c].user
      <4>1. enrolled'[u] = enrolled[u]
        BY <1>2, <3>4 DEF PasskeyInv, PasskeyTypeOK
      <4> QED
        BY <3>1, <3>2, <3>4, <4>1
    <3> QED
      BY <3>3, <3>4
  <2> QED
    BY <2>3 DEF EnrolledMatchesCredentials
<1> QED
  BY <1>6, <1>7, <1>8, <1>9, <1>10 DEF PasskeyInv

\* A refused completion, a restart and the clock leave the tables alone and
\* begin no completion.
LEMMA QuietStepKeepsInv ==
    ASSUME PasskeyInv,
           UNCHANGED passkeyTables,
           clock' \in Nat, clock <= clock',
           regCall' \in [RegistrationCalls -> BeginCall \cup CompleteCall \cup {Idle}],
           \A r \in RegistrationCalls : regCall'[r] \in {regCall[r], Idle}
    PROVE  PasskeyInv'
<1>1. UNCHANGED <<registrations, credentials, enrolled>>
  BY DEF passkeyTables
<1>2. PasskeyTypeOK'
  BY <1>1 DEF PasskeyInv, PasskeyTypeOK
<1>3. CompletionsInTime'
  BY <1>1 DEF PasskeyInv, CompletionsInTime
<1>4. BegunInThePast'
  <2> SUFFICES ASSUME NEW c \in CeremonyIds, registrations[c] # NoRow
               PROVE  registrations[c].createdAt <= clock'
    BY <1>1 DEF BegunInThePast
  <2>1. registrations[c] \in Ceremony
    BY DEF PasskeyInv, PasskeyTypeOK
  <2>2. registrations[c].createdAt \in Nat /\ registrations[c].createdAt <= clock
    BY <2>1 DEF PasskeyInv, BegunInThePast, Ceremony
  <2> QED
    BY <2>2 DEF PasskeyInv, PasskeyTypeOK
<1>5. (CredentialHasCeremony /\ EnrolledMatchesCredentials)'
  BY <1>1 DEF PasskeyInv, CredentialHasCeremony, EnrolledMatchesCredentials,
              Stored, Consumed
<1> QED
  BY <1>2, <1>3, <1>4, <1>5 DEF PasskeyInv

\* Every step of the registration handlers, of the clock and of a restart
\* keeps the invariant.
LEMMA PasskeyInvNext ==
    ASSUME PasskeyInv, [PasskeyNext]_<<clock, passkeyVars>>
    PROVE  PasskeyInv'
<1> USE PasskeyConstants
<1>0. clock \in Nat
         /\ regCall \in [RegistrationCalls -> BeginCall \cup CompleteCall \cup {Idle}]
  BY DEF PasskeyInv, PasskeyTypeOK
<1>1. ASSUME NEW r \in RegistrationCalls, NEW u \in Users, NEW h \in Headers,
             BeginRegistration(r, u, h)
      PROVE  PasskeyInv'
  BY <1>1, BeginKeepsInv
<1>2. ASSUME NEW r \in RegistrationCalls, NEW c \in CeremonyIds, NEW a \in Attestation,
             StartCompletion(r, c, a)
      PROVE  PasskeyInv'
  BY <1>2, StartKeepsInv
<1>3. ASSUME NEW r \in RegistrationCalls, NEW c \in CeremonyIds, IssueCeremony(r, c)
      PROVE  PasskeyInv'
  BY <1>3, IssueKeepsInv
<1>4. ASSUME NEW r \in RegistrationCalls, FinishCompletion(r)
      PROVE  PasskeyInv'
  BY <1>4, FinishKeepsInv
<1>5. ASSUME NEW r \in RegistrationCalls, RefuseCompletion(r)
      PROVE  PasskeyInv'
  <2>1. UNCHANGED passkeyTables /\ regCall' = [regCall EXCEPT ![r] = Idle]
           /\ UNCHANGED clock
    BY <1>5 DEF RefuseCompletion, RolledBack
  <2> QED
    BY <1>0, <2>1, QuietStepKeepsInv
<1>6. CASE Tick /\ UNCHANGED passkeyVars
  <2>1. UNCHANGED passkeyTables /\ UNCHANGED regCall /\ clock' = clock + 1
    BY <1>6 DEF Tick, passkeyVars, passkeyTables
  <2> QED
    BY <1>0, <2>1, QuietStepKeepsInv
<1>7. CASE LoseRegistrationCalls /\ UNCHANGED <<clock, passkeyTables>>
  <2>1. UNCHANGED passkeyTables /\ regCall' = [r \in RegistrationCalls |-> Idle]
           /\ UNCHANGED clock
    BY <1>7 DEF LoseRegistrationCalls
  <2> QED
    BY <1>0, <2>1, QuietStepKeepsInv
<1>8. CASE UNCHANGED <<clock, passkeyVars>>
  <2>1. UNCHANGED passkeyTables /\ UNCHANGED regCall /\ UNCHANGED clock
    BY <1>8 DEF passkeyVars, passkeyTables
  <2> QED
    BY <1>0, <2>1, QuietStepKeepsInv
<1> QED
  BY <1>1, <1>2, <1>3, <1>4, <1>5, <1>6, <1>7, <1>8
     DEF PasskeyNext, PasskeyStep, FinishRegistration

-----------------------------------------------------------------------------
(* The theorems.                                                            *)

\* Type correctness, the ownership of stored credentials and the agreement of
\* the capability with the credential table hold in every reachable state,
\* whatever completions overlap, expire during their await or are lost.
THEOREM RegistrationSafe ==
    PasskeySpec => [](PasskeyTypeOK /\ CredentialHasCeremony
                        /\ EnrolledMatchesCredentials)
<1>1. PasskeyInv => PasskeyTypeOK /\ CredentialHasCeremony /\ EnrolledMatchesCredentials
  BY DEF PasskeyInv
<1> QED
  BY PasskeyInvInit, PasskeyInvNext, <1>1, PTL DEF PasskeySpec

\* A stored credential and a consumed ceremony never change.
LEMMA StepIsFinal ==
    ASSUME PasskeyInv, [PasskeyNext]_<<clock, passkeyVars>>
    PROVE  /\ \A k \in Stored : credentials'[k] = credentials[k]
           /\ \A c \in Consumed : registrations'[c] = registrations[c]
<1>1. ASSUME NEW r \in RegistrationCalls, FinishCompletion(r)
      PROVE  /\ \A k \in Stored : credentials'[k] = credentials[k]
             /\ \A c \in Consumed : registrations'[c] = registrations[c]
  <2>1. /\ regCall[r].ceremony \notin Consumed
        /\ regCall[r].credential \notin Stored
        /\ \A b \in CeremonyIds \ {regCall[r].ceremony} :
               registrations'[b] = registrations[b]
        /\ \A j \in CredentialIds \ {regCall[r].credential} :
               credentials'[j] = credentials[j]
    BY <1>1, CompletionEffect
  <2> QED
    BY <2>1 DEF Stored, Consumed
<1>2. ASSUME NEW r \in RegistrationCalls, NEW c \in CeremonyIds, IssueCeremony(r, c)
      PROVE  /\ \A k \in Stored : credentials'[k] = credentials[k]
             /\ \A b \in Consumed : registrations'[b] = registrations[b]
  BY <1>2 DEF IssueCeremony, Stored, Consumed, PasskeyInv, PasskeyTypeOK
<1>3. CASE UNCHANGED <<registrations, credentials>>
  BY <1>3
<1> QED
  BY <1>1, <1>2, <1>3 DEF PasskeyNext, PasskeyStep, FinishRegistration, passkeyTables,
       passkeyVars, BeginRegistration, StartCompletion, RefuseCompletion, RolledBack

\* No step takes a credential from its owner or reopens a ceremony: the
\* property RegistrationsAreFinal.
THEOREM RegistrationsStayFinal == PasskeySpec => RegistrationsAreFinal
<1>1. PasskeyInv /\ [PasskeyNext]_<<clock, passkeyVars>>
        => [ /\ \A k \in Stored : credentials'[k] = credentials[k]
             /\ \A c \in Consumed : registrations'[c] = registrations[c] ]_passkeyVars
  BY StepIsFinal
<1> QED
  BY PasskeyInvInit, PasskeyInvNext, <1>1, PTL DEF PasskeySpec, RegistrationsAreFinal

\* The counting argument of OneCredentialPerCeremony: both sets are finite and
\* grow by one element in the same step.
CountInv ==
    /\ IsFiniteSet(Stored)
    /\ IsFiniteSet(Consumed)
    /\ OneCredentialPerCeremony

\* A step leaves both sets alone or is a completion.
LEMMA StepCounts ==
    ASSUME PasskeyInv, CountInv, [PasskeyNext]_<<clock, passkeyVars>>
    PROVE  CountInv'
<1>1. ASSUME NEW r \in RegistrationCalls, FinishCompletion(r)
      PROVE  CountInv'
  <2>1. /\ regCall[r].ceremony \notin Consumed
        /\ regCall[r].credential \notin Stored
        /\ Consumed' = Consumed \cup {regCall[r].ceremony}
        /\ Stored' = Stored \cup {regCall[r].credential}
    BY <1>1, CompletionEffect
  <2>2. IsFiniteSet(Stored') /\ Cardinality(Stored') = Cardinality(Stored) + 1
    BY <2>1, FS_AddElement DEF CountInv
  <2>3. IsFiniteSet(Consumed') /\ Cardinality(Consumed') = Cardinality(Consumed) + 1
    BY <2>1, FS_AddElement DEF CountInv
  <2> QED
    BY <2>2, <2>3 DEF CountInv, OneCredentialPerCeremony
<1>2. ASSUME NEW r \in RegistrationCalls, NEW c \in CeremonyIds, IssueCeremony(r, c)
      PROVE  CountInv'
  <2>1. registrations[c] = NoRow /\ UNCHANGED credentials
    BY <1>2 DEF IssueCeremony
  <2>2. registrations'[c].consumedAt = NotYet
           /\ \A b \in CeremonyIds \ {c} : registrations'[b] = registrations[b]
    BY <1>2 DEF IssueCeremony, PasskeyInv, PasskeyTypeOK
  <2>3. Consumed' = Consumed /\ Stored' = Stored
    BY <2>1, <2>2 DEF Consumed, Stored
  <2> QED
    BY <2>3 DEF CountInv, OneCredentialPerCeremony
<1>3. CASE UNCHANGED <<registrations, credentials>>
  <2>1. Consumed' = Consumed /\ Stored' = Stored
    BY <1>3 DEF Consumed, Stored
  <2> QED
    BY <2>1 DEF CountInv, OneCredentialPerCeremony
<1> QED
  BY <1>1, <1>2, <1>3 DEF PasskeyNext, PasskeyStep, FinishRegistration, passkeyTables,
       passkeyVars, BeginRegistration, StartCompletion, RefuseCompletion, RolledBack

\* There are as many stored credentials as consumed ceremonies, for any number
\* of requests in flight: the property OneCredentialPerCeremony.
THEOREM OneCredentialPerCeremonyAlways == PasskeySpec => []OneCredentialPerCeremony
<1>1. PasskeyInit => CountInv
  <2> SUFFICES ASSUME PasskeyInit PROVE CountInv
    OBVIOUS
  <2>1. Stored = {} /\ Consumed = {}
    BY DEF PasskeyInit, Stored, Consumed
  <2> QED
    BY <2>1, FS_EmptySet DEF CountInv, OneCredentialPerCeremony
<1>2. PasskeyInv /\ CountInv /\ [PasskeyNext]_<<clock, passkeyVars>> => CountInv'
  BY StepCounts
<1>3. CountInv => OneCredentialPerCeremony
  BY DEF CountInv
<1> QED
  BY PasskeyInvInit, PasskeyInvNext, <1>1, <1>2, <1>3, PTL DEF PasskeySpec

=============================================================================
