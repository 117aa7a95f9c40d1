------------------------- MODULE DecisionClaimsProofs -------------------------
(***************************************************************************)
(* Proofs of what replays, diffs and remediations claim about decisions,   *)
(* for all users, requests, forks and times.                               *)
(*                                                                         *)
(* Unlike those of DecisionsProofs these depend on what the evidence of a  *)
(* decision can be, and that on the folds that collect and override it: an *)
(* evidence list is never empty, and only a SIM change expires.            *)
(***************************************************************************)
EXTENDS DecisionsProofs, WellFoundedInduction, SequenceTheorems, FunctionTheorems

-----------------------------------------------------------------------------
(* Folds of overrides.                                                      *)

\* Induction over a set of natural numbers.
LEMMA SetInduction ==
    ASSUME NEW S \in SUBSET Nat, 0 \in S, \A n \in S : n + 1 \in S
    PROVE  S = Nat
<1> SUFFICES ASSUME Nat \ S # {} PROVE FALSE
  OBVIOUS
<1>1. PICK n \in Nat \ S : \A m \in Nat \ S : ~ (<<m, n>> \in OpToRel(<, Nat))
  BY NatLessThanWellFounded, WFMin
<1>2. \A m \in Nat \ S : ~ (m < n)
  BY <1>1 DEF OpToRel
<1>3. n # 0 /\ n - 1 \in Nat /\ n - 1 < n
  OBVIOUS
<1>4. n - 1 \in S
  BY <1>2, <1>3
<1> QED
  BY <1>3, <1>4

\* A set of numbers up to n has a first element, and the last one is Max.
LEMMA FirstNumber ==
    ASSUME NEW S \in SUBSET Nat, S # {}
    PROVE  \E i \in S : \A j \in S : i <= j
<1>1. PICK i \in S : \A j \in S : ~ (<<j, i>> \in OpToRel(<, Nat))
  BY NatLessThanWellFounded, WFMin
<1>2. \A j \in S : ~ (j < i)
  BY <1>1 DEF OpToRel
<1> QED
  BY <1>2

\* One override of a fold: of a decision request (raw) or of a fork.
Step(raw, items, change, now) ==
    IF raw THEN RawOverride(items, change) ELSE Override(items, change, now)

\* F holds what a fold has made of base after the overrides with positions in s.
IsFold(F, raw, base, seq, now) ==
    F = [s \in SUBSET DOMAIN seq |->
           IF s = {} THEN base ELSE Step(raw, F[s \ {Max(s)}], seq[Max(s)], now)]

LEMMA LastOf ==
    ASSUME NEW n \in Nat, NEW s \in SUBSET (1..(n + 1)), n + 1 \in s
    PROVE  Max(s) = n + 1
<1>1. \A x \in s : (\A y \in s : x >= y) <=> x = n + 1
  OBVIOUS
<1>2. Max(s) = CHOOSE x \in s : \A y \in s : x >= y
  BY DEF Max
<1>3. (CHOOSE x \in s : \A y \in s : x >= y) \in {x \in s : \A y \in s : x >= y}
  BY <1>1
<1> QED
  BY <1>1, <1>2, <1>3

LEMMA EarlierOf ==
    ASSUME NEW n \in Nat, NEW s \in SUBSET (1..(n + 1))
    PROVE  /\ n + 1 \notin s => s \in SUBSET (1..n)
           /\ s \ {n + 1} \in SUBSET (1..n)
OBVIOUS

\* There is such a function for every list of overrides.
LEMMA FoldExists ==
    ASSUME NEW raw, NEW base, NEW seq, NEW now, NEW n \in Nat, DOMAIN seq = 1..n
    PROVE  \E F : IsFold(F, raw, base, seq, now)
<1> DEFINE upTo(F, m) == F = [s \in SUBSET (1..m) |->
             IF s = {} THEN base ELSE Step(raw, F[s \ {Max(s)}], seq[Max(s)], now)]
           S == {m \in Nat : \E F : upTo(F, m)}
<1>1. 0 \in S
  <2>1. upTo([s \in SUBSET (1..0) |-> base], 0)
    <3>1. \A s \in SUBSET (1..0) : s = {}
      OBVIOUS
    <3> QED
      BY <3>1
  <2> QED
    BY <2>1
<1>2. ASSUME NEW m \in S PROVE m + 1 \in S
  <2>1. PICK F : upTo(F, m)
    BY <1>2
  <2>2. PICK G : G = [s \in SUBSET (1..(m + 1)) |->
                        IF m + 1 \in s
                        THEN Step(raw, F[s \ {m + 1}], seq[m + 1], now) ELSE F[s]]
    OBVIOUS
  <2>3. \A s \in SUBSET (1..m) : G[s] = F[s]
    BY <2>2
  <2>4. ASSUME NEW s \in SUBSET (1..(m + 1))
        PROVE  G[s] = IF s = {} THEN base
                      ELSE Step(raw, G[s \ {Max(s)}], seq[Max(s)], now)
    <3>1. CASE m + 1 \in s
      <4>1. Max(s) = m + 1 /\ s \ {m + 1} \in SUBSET (1..m)
        BY <3>1, LastOf, EarlierOf
      <4> QED
        BY <2>2, <2>3, <3>1, <4>1
    <3>2. CASE m + 1 \notin s
      <4>1. s \in SUBSET (1..m)
        BY <3>2, EarlierOf
      <4>2. CASE s = {}
        BY <2>1, <2>3, <4>1, <4>2
      <4>3. CASE s # {}
        <5>1. s \ {Max(s)} \in SUBSET (1..m)
          BY <4>1
        <5>2. F[s] = Step(raw, F[s \ {Max(s)}], seq[Max(s)], now)
          BY <2>1, <4>1, <4>3
        <5> QED
          BY <2>3, <4>1, <4>3, <5>1, <5>2
      <4> QED
        BY <4>2, <4>3
    <3> QED
      BY <3>1, <3>2
  <2>5. upTo(G, m + 1)
    BY <2>2, <2>4
  <2> HIDE DEF upTo
  <2> QED
    BY <2>5
<1> HIDE DEF upTo
<1>3. n \in S
  <2>1. S \in SUBSET Nat
    OBVIOUS
  <2> HIDE DEF S
  <2> QED
    BY <1>1, <1>2, <2>1, SetInduction
<1> QED
  BY <1>3 DEF IsFold, upTo

LEMMA OverridesFold ==
    ASSUME NEW base, NEW seq, NEW now, NEW n \in Nat, DOMAIN seq = 1..n
    PROVE  /\ \E F : /\ IsFold(F, FALSE, base, seq, now)
                     /\ ApplyEvidenceOverrides(base, seq, now) = F[DOMAIN seq]
           /\ \E F : /\ IsFold(F, TRUE, base, seq, now)
                     /\ FoldLeft(RawOverride, base, seq) = F[DOMAIN seq]
<1> DEFINE forks == CHOOSE F : F = [s \in SUBSET DOMAIN seq |->
              IF s = {} THEN base ELSE Override(F[s \ {Max(s)}], seq[Max(s)], now)]
           raws == CHOOSE F : F = [s \in SUBSET DOMAIN seq |->
              IF s = {} THEN base ELSE RawOverride(F[s \ {Max(s)}], seq[Max(s)])]
<1>1. ApplyEvidenceOverrides(base, seq, now) = forks[DOMAIN seq]
  BY Zenon DEF ApplyEvidenceOverrides, FoldLeft, MapThenFoldSet
<1>2. FoldLeft(RawOverride, base, seq) = raws[DOMAIN seq]
  BY Zenon DEF FoldLeft, MapThenFoldSet
<1>3. IsFold(forks, FALSE, base, seq, now)
  <2>1. \E F : IsFold(F, FALSE, base, seq, now)
    BY FoldExists
  <2> QED
    BY <2>1 DEF IsFold, Step
<1>4. IsFold(raws, TRUE, base, seq, now)
  <2>1. \E F : IsFold(F, TRUE, base, seq, now)
    BY FoldExists
  <2> QED
    BY <2>1 DEF IsFold, Step
<1> QED
  BY <1>1, <1>2, <1>3, <1>4

-----------------------------------------------------------------------------
(* The evidence of a decision.                                              *)

\* Only a SIM change has a window, and an item without one is current.
LastingOrSim(e) ==
    /\ e.until # Never => e.type = "RECENT_SIM_CHANGE"
    /\ e.until = Never => e.status = IF e.value = "null" THEN "UNAVAILABLE" ELSE "ACTIVE"

SoundItems == {e \in EvidenceItems : LastingOrSim(e)}
SoundEvidence == Seq(SoundItems) \ {<<>>}

LEMMA SoundItem ==
    ASSUME NEW type \in EvidenceTypes, NEW value \in Values, NEW until \in Int, NEW now,
           until # Never => type = "RECENT_SIM_CHANGE"
    PROVE  /\ Item(type, value, until, now) \in SoundItems
           /\ Item(type, value, until, now).type = type
           /\ Item(type, value, until, now).value = value
           /\ Item(type, value, until, now).until = until
           /\ Item(type, value, until, now).status = StatusFor(value, until, now)
<1>1. PICK e : e = Item(type, value, until, now)
  OBVIOUS
<1>2. /\ e.type = type /\ e.value = value /\ e.until = until
      /\ e.status = StatusFor(value, until, now)
      /\ e = [type |-> type, value |-> value, until |-> until,
              status |-> StatusFor(value, until, now)]
  BY <1>1 DEF Item
<1>3. /\ StatusFor(value, until, now) \in EvidenceStatuses
      /\ until = Never => StatusFor(value, until, now) =
                             IF value = "null" THEN "UNAVAILABLE" ELSE "ACTIVE"
  BY DEF StatusFor, EvidenceStatuses, Values
<1>4. e \in EvidenceItems
  BY <1>2, <1>3 DEF EvidenceItems
<1> QED
  BY <1>1, <1>2, <1>3, <1>4 DEF SoundItems, LastingOrSim

\* A list has a first item of a type it has.
LEMMA FirstIsThere ==
    ASSUME NEW S, NEW evidence \in Seq(S), NEW type, HasType(evidence, type)
    PROVE  /\ FirstOf(evidence, type) \in DOMAIN evidence
           /\ evidence[FirstOf(evidence, type)].type = type
           /\ \A j \in DOMAIN evidence :
                 evidence[j].type = type => FirstOf(evidence, type) <= j
<1> DEFINE P == {i \in DOMAIN evidence : evidence[i].type = type}
<1>1. P \in SUBSET Nat /\ P # {}
  BY DEF HasType
<1>2. \E i \in P : \A j \in P : i <= j
  <2> HIDE DEF P
  <2> QED
    BY <1>1, FirstNumber
<1>3. \E i \in DOMAIN evidence :
        /\ evidence[i].type = type
        /\ \A j \in DOMAIN evidence : evidence[j].type = type => i <= j
  BY <1>2
<1> QED
  BY <1>3 DEF FirstOf

\* One override replaces an item of its type or adds one; "until" is what the
\* item's window becomes, and "now" the time its status is for.
Overridden(items, change, i, item, result) ==
    \/ /\ i \in DOMAIN items /\ items[i].type = change.type
       /\ result = [items EXCEPT ![i] = item]
    \/ /\ ~HasType(items, change.type) /\ i = Len(items) + 1
       /\ result = Append(items, item)

\* The list has the item in its place and the others where they were.
Replaced(items, i, item, result) ==
    /\ DOMAIN result = DOMAIN items \cup {i}
    /\ result[i] = item
    /\ \A j \in DOMAIN items \ {i} : result[j] = items[j]

LEMMA OverriddenIsSound ==
    ASSUME NEW items \in SoundEvidence, NEW change, NEW i, NEW item \in SoundItems,
           NEW result, Overridden(items, change, i, item, result)
    PROVE  result \in SoundEvidence /\ Replaced(items, i, item, result)
<1> USE DEF SoundEvidence
<1>1. CASE i \in DOMAIN items /\ result = [items EXCEPT ![i] = item]
  <2>1. result \in Seq(SoundItems) /\ Len(result) = Len(items)
    BY <1>1, ExceptSeq
  <2>2. DOMAIN result = DOMAIN items
    BY <1>1
  <2>3. items # <<>> /\ result # <<>>
    BY <2>1
  <2> QED
    BY <1>1, <2>1, <2>2, <2>3 DEF Replaced
<1>2. CASE i = Len(items) + 1 /\ result = Append(items, item)
  <2>1. \A j \in DOMAIN items : result[j] = items[j]
    BY <1>2
  <2>2. DOMAIN result = DOMAIN items \cup {i} /\ result[i] = item
    BY <1>2
  <2>3. result \in SoundEvidence
    BY <1>2
  <2> QED
    BY <2>1, <2>2, <2>3 DEF Replaced
<1> QED
  BY <1>1, <1>2 DEF Overridden

LEMMA OverrideEffect ==
    ASSUME NEW items \in SoundEvidence, NEW change \in EvidenceOverrides, NEW now
    PROVE  \E i \in Nat, until \in Int, item \in SoundItems :
              /\ item = Item(change.type, change.value, until, now)
              /\ Overridden(items, change, i, item, Override(items, change, now))
              /\ i = IF HasType(items, change.type) THEN FirstOf(items, change.type)
                     ELSE Len(items) + 1
              /\ until = IF HasType(items, change.type) THEN items[i].until ELSE Never
<1> USE DEF SoundEvidence
<1>1. change.type \in EvidenceTypes /\ change.value \in Values
  BY DEF EvidenceOverrides
<1>2. CASE HasType(items, change.type)
  <2>1. PICK i : i = FirstOf(items, change.type)
    OBVIOUS
  <2>2. i \in DOMAIN items /\ items[i].type = change.type
    BY <1>2, <2>1, FirstIsThere
  <2>3. items[i] \in SoundItems
    BY <2>2
  <2>4. PICK until : until = items[i].until
    OBVIOUS
  <2>5. until \in Int /\ (until # Never => change.type = "RECENT_SIM_CHANGE")
    BY <2>2, <2>3, <2>4 DEF SoundItems, EvidenceItems, LastingOrSim
  <2>6. Item(change.type, change.value, until, now) \in SoundItems
    BY <1>1, <2>5, SoundItem
  <2>7. Override(items, change, now) =
           [items EXCEPT ![i] = Item(change.type, change.value, until, now)]
    BY <1>2, <2>1, <2>2, <2>4 DEF Override
  <2>8. PICK item : item = Item(change.type, change.value, until, now)
    OBVIOUS
  <2>9. Overridden(items, change, i, item, Override(items, change, now))
    BY <2>2, <2>7, <2>8 DEF Overridden
  <2> QED
    BY <1>2, <2>1, <2>2, <2>4, <2>5, <2>6, <2>8, <2>9
<1>3. CASE ~HasType(items, change.type)
  <2>1. Never \in Int
    BY DEF Never
  <2>2. Item(change.type, change.value, Never, now) \in SoundItems
    BY <1>1, <2>1, SoundItem
  <2>3. Override(items, change, now) =
           Append(items, Item(change.type, change.value, Never, now))
    BY <1>3 DEF Override
  <2>4. PICK item : item = Item(change.type, change.value, Never, now)
    OBVIOUS
  <2>5. PICK i : i = Len(items) + 1
    OBVIOUS
  <2>6. Overridden(items, change, i, item, Override(items, change, now)) /\ i \in Nat
    BY <1>3, <2>3, <2>4, <2>5 DEF Overridden
  <2> QED
    BY <1>3, <2>1, <2>2, <2>4, <2>5, <2>6
<1> QED
  BY <1>2, <1>3

LEMMA StepIsSound ==
    ASSUME NEW raw \in BOOLEAN, NEW items \in SoundEvidence,
           NEW change \in EvidenceOverrides, NEW now, clock \in Nat
    PROVE  Step(raw, items, change, now) \in SoundEvidence
<1>1. CASE ~raw
  <2>1. PICK i \in Nat, item \in SoundItems :
           Overridden(items, change, i, item, Override(items, change, now))
    BY OverrideEffect
  <2> QED
    BY <1>1, <2>1, OverriddenIsSound DEF Step
<1>2. CASE raw
  <2>1. PICK until : until = IF change.type = "RECENT_SIM_CHANGE" /\ change.value = "true"
                             THEN clock + SimWindow ELSE Never
    OBVIOUS
  <2>2. PICK item : item = Item(change.type, change.value, until, clock)
    OBVIOUS
  <2>3. until \in Int /\ (until # Never => change.type = "RECENT_SIM_CHANGE")
    BY <2>1, DecisionConstants DEF Never
  <2>4. item \in SoundItems
    BY <2>2, <2>3, SoundItem DEF EvidenceOverrides
  <2>5. RawOverride(items, change) =
           IF HasType(items, change.type)
           THEN [items EXCEPT ![FirstOf(items, change.type)] = item]
           ELSE Append(items, item)
    BY <2>1, <2>2 DEF RawOverride
  <2>6. HasType(items, change.type) =>
           /\ FirstOf(items, change.type) \in DOMAIN items
           /\ items[FirstOf(items, change.type)].type = change.type
    BY FirstIsThere DEF SoundEvidence
  <2>7. \E i : Overridden(items, change, i, item, RawOverride(items, change))
    BY <2>5, <2>6 DEF Overridden
  <2> QED
    BY <1>2, <2>4, <2>7, OverriddenIsSound DEF Step
<1> QED
  BY <1>1, <1>2

\* What a fold does step by step keeps evidence sound.
LEMMA FoldIsSound ==
    ASSUME NEW raw \in BOOLEAN, NEW base \in SoundEvidence,
           NEW seq \in Seq(EvidenceOverrides), NEW now, NEW F,
           IsFold(F, raw, base, seq, now), clock \in Nat
    PROVE  F[DOMAIN seq] \in SoundEvidence
<1> DEFINE S == {m \in Nat : m <= Len(seq) =>
                    \A s \in SUBSET (1..m) : F[s] \in SoundEvidence}
<1>1. 0 \in S
  <2>1. \A s \in SUBSET (1..0) : s = {}
    OBVIOUS
  <2>2. F[{}] = base
    BY DEF IsFold
  <2> QED
    BY <2>1, <2>2
<1>2. ASSUME NEW m \in S PROVE m + 1 \in S
  <2> SUFFICES ASSUME m + 1 <= Len(seq), NEW s \in SUBSET (1..(m + 1))
               PROVE  F[s] \in SoundEvidence
    OBVIOUS
  <2>1. \A t \in SUBSET (1..m) : F[t] \in SoundEvidence
    OBVIOUS
  <2> HIDE DEF S
  <2>2. CASE m + 1 \notin s
    BY <2>1, <2>2, EarlierOf, <1>2 DEF S
  <2>3. CASE m + 1 \in s
    <3>0. m \in Nat
      BY <1>2 DEF S
    <3>1. Max(s) = m + 1 /\ s \ {m + 1} \in SUBSET (1..m)
      BY <2>3, <3>0, LastOf, EarlierOf
    <3>2. m + 1 \in DOMAIN seq /\ s \in SUBSET DOMAIN seq
      BY <3>0
    <3>3. F[s] = Step(raw, F[s \ {m + 1}], seq[m + 1], now)
      BY <2>3, <3>1, <3>2 DEF IsFold
    <3>4. seq[m + 1] \in EvidenceOverrides /\ F[s \ {m + 1}] \in SoundEvidence
      BY <2>1, <3>1, <3>2
    <3> QED
      BY <3>3, <3>4, StepIsSound
  <2> QED
    BY <2>2, <2>3
<1>3. S = Nat
  <2>1. S \in SUBSET Nat
    OBVIOUS
  <2> HIDE DEF S
  <2> QED
    BY <1>1, <1>2, <2>1, SetInduction
<1>4. Len(seq) \in Nat /\ DOMAIN seq = 1..Len(seq)
  OBVIOUS
<1> HIDE DEF S
<1>5. Len(seq) \in S
  BY <1>3, <1>4
<1> QED
  BY <1>4, <1>5 DEF S

LEMMA OverridesAreSound ==
    ASSUME NEW base \in SoundEvidence, NEW seq \in Seq(EvidenceOverrides), NEW now,
           clock \in Nat
    PROVE  /\ ApplyEvidenceOverrides(base, seq, now) \in SoundEvidence
           /\ FoldLeft(RawOverride, base, seq) \in SoundEvidence
<1>1. Len(seq) \in Nat /\ DOMAIN seq = 1..Len(seq)
  OBVIOUS
<1>2. PICK F : /\ IsFold(F, FALSE, base, seq, now)
               /\ ApplyEvidenceOverrides(base, seq, now) = F[DOMAIN seq]
  BY <1>1, OverridesFold
<1>3. PICK G : /\ IsFold(G, TRUE, base, seq, now)
               /\ FoldLeft(RawOverride, base, seq) = G[DOMAIN seq]
  BY <1>1, OverridesFold
<1> QED
  BY <1>2, <1>3, FoldIsSound

LEMMA ListOfEight ==
    ASSUME NEW S, NEW a \in S, NEW b \in S, NEW c \in S, NEW d \in S, NEW e \in S,
           NEW f \in S, NEW g \in S, NEW h \in S
    PROVE  <<a, b, c, d, e, f, g, h>> \in Seq(S) \ {<<>>}
OBVIOUS

LEMMA CollectedIsSound ==
    ASSUME NEW q \in Requests, NEW seenAt, clock \in Nat
    PROVE  CollectEvidence(q, seenAt) \in SoundEvidence
<1> DEFINE observed(type, b) == Item(type, AsValue(b), Never, clock)
           collected == << observed("RECENT_SIM_CHANGE", FALSE),
                           observed("FIRST_SEEN_DEVICE", FALSE),
                           observed("FAILED_LOGIN_BURST", FALSE),
                           observed("GEO_DISTANCE_ANOMALY", FALSE),
                           observed("HIGH_VALUE_TRANSACTION", q.highValue),
                           observed("NEW_PAYEE", q.newPayee),
                           observed("FIRST_SEEN_DEVICE", seenAt = clock),
                           observed("FAILED_LOGIN_BURST", q.burst) >>
<1>1. \A type \in EvidenceTypes : \A b : observed(type, b) \in SoundItems
  <2>1. \A b : AsValue(b) \in Values
    BY DEF AsValue, Values
  <2> QED
    BY <2>1, SoundItem DEF Never
<1>2. collected \in SoundEvidence
  <2>1. {"RECENT_SIM_CHANGE", "FIRST_SEEN_DEVICE", "FAILED_LOGIN_BURST",
         "GEO_DISTANCE_ANOMALY", "HIGH_VALUE_TRANSACTION", "NEW_PAYEE"}
           \subseteq EvidenceTypes
    BY DEF EvidenceTypes
  <2>2. /\ observed("RECENT_SIM_CHANGE", FALSE) \in SoundItems
        /\ observed("FIRST_SEEN_DEVICE", FALSE) \in SoundItems
        /\ observed("FAILED_LOGIN_BURST", FALSE) \in SoundItems
        /\ observed("GEO_DISTANCE_ANOMALY", FALSE) \in SoundItems
        /\ observed("HIGH_VALUE_TRANSACTION", q.highValue) \in SoundItems
        /\ observed("NEW_PAYEE", q.newPayee) \in SoundItems
        /\ observed("FIRST_SEEN_DEVICE", seenAt = clock) \in SoundItems
        /\ observed("FAILED_LOGIN_BURST", q.burst) \in SoundItems
    <3> HIDE DEF observed
    <3> QED
      BY <1>1, <2>1
  <2> QED
    BY <2>2, ListOfEight DEF SoundEvidence
<1>3. CollectEvidence(q, seenAt) =
         IF DemoMode THEN FoldLeft(RawOverride, collected, q.overrides) ELSE collected
  BY DEF CollectEvidence
<1> HIDE DEF collected
<1>4. q.overrides \in Seq(EvidenceOverrides)
  BY DecisionConstants
<1> QED
  BY <1>2, <1>3, <1>4, OverridesAreSound

-----------------------------------------------------------------------------
(* The outcome of a decision.                                               *)

LEMMA TypesFinite == IsFiniteSet(EvidenceTypes)
<1> DEFINE A1 == {"RECENT_SIM_CHANGE"}
           A2 == A1 \cup {"FIRST_SEEN_DEVICE"}
           A3 == A2 \cup {"NEW_PAYEE"}
           A4 == A3 \cup {"HIGH_VALUE_TRANSACTION"}
           A5 == A4 \cup {"PHISHING_RELAY_INDICATOR"}
           A6 == A5 \cup {"FAILED_LOGIN_BURST"}
           A7 == A6 \cup {"GEO_DISTANCE_ANOMALY"}
           A8 == A7 \cup {"PASSKEY_ENROLLED"}
           A9 == A8 \cup {"WEBAUTHN_SUPPORTED"}
           A10 == A9 \cup {"NETWORK_AVAILABLE"}
<1>1. EvidenceTypes = A10
  BY DEF EvidenceTypes
<1>2. IsFiniteSet(A1)
  BY FS_Singleton
<1>3. \A S, x : IsFiniteSet(S) => IsFiniteSet(S \cup {x})
  BY FS_AddElement
<1> HIDE DEF A1
<1>4. IsFiniteSet(A4)
  BY <1>2, <1>3
<1> HIDE DEF A4
<1>5. IsFiniteSet(A7)
  BY <1>3, <1>4
<1> HIDE DEF A7
<1>6. IsFiniteSet(A10)
  BY <1>3, <1>5
<1> QED
  BY <1>1, <1>6

\* The rules of both bundles look at evidence by its type.
LEMMA RulesOfBundles ==
    ASSUME NEW p \in Policies
    PROVE  /\ \A r \in p.risk : r.type \in Alarms /\ r.severity \in {"HIGH", "MEDIUM"}
           /\ \A r \in p.threats : /\ r.type \in Alarms /\ r.threat \in Threats
                                  /\ r.kind \in {"PRIMARY", "SUPPORTING", "CONFLICTING"}
                                  /\ r = [threat |-> r.threat, kind |-> r.kind,
                                          type |-> r.type]
           /\ \A r \in p.impacts : /\ r.impact \in {"DISTRUST", "DEGRADE"}
                                  /\ r.threat \in Threats /\ r.domain \in TrustDomains
           /\ Alarms \subseteq EvidenceTypes
<1>1. p.risk = RiskRules /\ p.threats = ThreatRules
      /\ p.impacts \in {TrustImpactRules, CandidateTrustImpactRules}
  BY DEF Policies, Bundle
<1>2. \A r \in p.risk : r.type \in Alarms /\ r.severity \in {"HIGH", "MEDIUM"}
  BY <1>1 DEF RiskRules, Alarms
<1>3. \A r \in p.threats :
         r \in [threat: Threats, kind: {"PRIMARY", "SUPPORTING", "CONFLICTING"}, type: Alarms]
  BY <1>1 DEF ThreatRules, RulesOf, Alarms, Severe, Notable, Threats
<1>4. \A r \in p.impacts : /\ r.impact \in {"DISTRUST", "DEGRADE"}
                          /\ r.threat \in Threats /\ r.domain \in TrustDomains
  BY <1>1 DEF TrustImpactRules, CandidateTrustImpactRules, Impact, Threats, TrustDomains
<1>5. Alarms \subseteq EvidenceTypes
  BY DEF Alarms, Severe, Notable, EvidenceTypes
<1> QED
  BY <1>2, <1>3, <1>4, <1>5

LEMMA RulesFinite ==
    ASSUME NEW p \in Policies, NEW threat, NEW kind
    PROVE  IsFiniteSet(Rules(threat, kind, p))
<1> DEFINE R == Rules(threat, kind, p)
           typeOf == [r \in R |-> r.type]
<1>1. \A r \in R : /\ r.type \in EvidenceTypes
                   /\ r = [threat |-> threat, kind |-> kind, type |-> r.type]
  BY RulesOfBundles DEF Rules
<1> HIDE DEF R
<1>2. typeOf \in [R -> EvidenceTypes]
  BY <1>1
<1>3. \A r \in R, s \in R : typeOf[r] = typeOf[s] => r = s
  BY <1>1
<1>4. typeOf \in Injection(R, EvidenceTypes)
  BY <1>2, <1>3, Fun_IsInj
<1> HIDE DEF typeOf
<1> QED
  BY <1>4, TypesFinite, FS_Injection DEF R

LEMMA FreshRulesCounted ==
    ASSUME NEW p \in Policies, NEW threat, NEW kind, NEW evidence
    PROVE  /\ IsFiniteSet(FreshRules(threat, kind, evidence, p))
           /\ Cardinality(FreshRules(threat, kind, evidence, p)) \in Nat
           /\ Cardinality(FreshRules(threat, kind, evidence, p)) = 0
                 <=> FreshRules(threat, kind, evidence, p) = {}
<1>1. FreshRules(threat, kind, evidence, p) \in SUBSET Rules(threat, kind, p)
  BY DEF FreshRules
<1>2. IsFiniteSet(FreshRules(threat, kind, evidence, p))
  BY <1>1, RulesFinite, FS_Subset
<1> QED
  BY <1>2, FS_EmptySet, FS_CardinalityType

LEMMA OutcomeIsTyped ==
    ASSUME NEW p \in Policies, NEW d, Evaluated(d, p)
    PROVE  IsOutcome(d.outcome)
<1>1. d.outcome.risk \in RiskLevels
  <2>1. {r.severity : r \in {q \in p.risk : Holds(q.type, d.evidence)}}
           \subseteq {"HIGH", "MEDIUM"}
    BY RulesOfBundles
  <2>2. PICK matched :
           matched = {r.severity : r \in {q \in p.risk : Holds(q.type, d.evidence)}}
    OBVIOUS
  <2>3. AssessRisk(d.evidence, p) = CASE "HIGH" \in matched -> "HIGH"
                                      [] matched = {"MEDIUM"} -> "MEDIUM"
                                      [] matched = {} -> "LOW"
    BY <2>2 DEF AssessRisk
  <2>4. "HIGH" \in matched \/ matched = {"MEDIUM"} \/ matched = {}
    BY <2>1, <2>2
  <2> QED
    BY <2>3, <2>4, EvaluatedParts DEF RiskLevels
<1>2. \A t \in Threats : d.outcome.support[t] \in Supports
  <2> SUFFICES ASSUME NEW t \in Threats
               PROVE  AssessThreat(t, d.evidence, p) \in Supports
    BY EvaluatedParts
  <2>1. ASSUME NEW primary, NEW n \in Nat, NEW conflicting, NEW stale
        PROVE  SupportFor(primary, n, conflicting, stale) \in Supports
    BY <2>1 DEF SupportFor, SupportAlone, Supports
  <2> QED
    BY <2>1, FreshRulesCounted DEF AssessThreat
<1>3. \A x \in TrustDomains : d.outcome.trust[x] \in TrustStates
  <2> SUFFICES ASSUME NEW x \in TrustDomains
               PROVE  TrustState(x, d.outcome.support, d.evidence, p) \in TrustStates
    BY EvaluatedParts
  <2>1. PICK impacts : impacts = {r.impact : r \in Applied(x, d.outcome.support, p)}
    OBVIOUS
  <2>2. impacts \subseteq {"DISTRUST", "DEGRADE"}
    BY <2>1, RulesOfBundles DEF Applied
  <2>3. "DISTRUST" \in impacts \/ impacts = {"DEGRADE"} \/ impacts = {}
    BY <2>2
  <2>4. TrustState(x, d.outcome.support, d.evidence, p) =
           CASE "DISTRUST" \in impacts -> "DISTRUSTED"
             [] impacts = {"DEGRADE"} -> "DEGRADED"
             [] impacts = {} -> IF DOMAIN d.evidence = {} THEN "UNKNOWN" ELSE "TRUSTED"
    BY <2>1 DEF TrustState
  <2> QED
    BY <2>3, <2>4 DEF TrustStates
<1>4. \A f \in FactorIds :
         d.outcome.factors[f] \in [status: Verdicts, domains: SUBSET TrustDomains,
                                   missing: SUBSET Capabilities]
  <2> SUFFICES ASSUME NEW f \in FactorIds
               PROVE  EvaluateFactor(f, d.outcome.trust, d.using, d.outcome.risk, p)
                        \in [status: Verdicts, domains: SUBSET TrustDomains,
                             missing: SUBSET Capabilities]
    BY EvaluatedParts
  <2>1. p.factors = FactorDefinitions
    BY DEF Policies, Bundle
  <2>2. /\ FactorDefinitions[f].capabilities \subseteq Capabilities
        /\ \A q \in FactorDefinitions[f].trust : q.domain \in TrustDomains
    BY DEF FactorIds, FactorDefinitions, Capabilities, Requires, TrustDomains
  <2>3. PICK domains : domains = FailedTrust(f, d.outcome.trust, p)
    OBVIOUS
  <2>4. PICK missing : missing = MissingCapabilities(f, d.using, p)
    OBVIOUS
  <2>5. domains \subseteq TrustDomains /\ missing \subseteq Capabilities
    BY <2>1, <2>2, <2>3, <2>4 DEF FailedTrust, MissingCapabilities
  <2> QED
    BY <2>3, <2>4, <2>5 DEF EvaluateFactor, Verdicts
<1>5. d.outcome.selected \in FactorIds \cup {NoFactor}
  BY SelectionIsBest DEF Eligible
<1>6. /\ d.outcome.action = "ASSISTED_RECOVERY" <=> d.outcome.selected = NoFactor
      /\ d.outcome.support \in [Threats -> Supports]
      /\ d.outcome.trust \in [TrustDomains -> TrustStates]
      /\ d.outcome.factors \in [FactorIds -> [status: Verdicts, domains: SUBSET TrustDomains,
                                              missing: SUBSET Capabilities]]
  <2> DEFINE risk == AssessRisk(d.evidence, p)
             support == AssessThreats(d.evidence, p)
             trust == [x \in TrustDomains |-> TrustState(x, support, d.evidence, p)]
             factors == [f \in FactorIds |-> EvaluateFactor(f, trust, d.using, risk, p)]
  <2>1. d.outcome = Outcome(risk, support, trust, factors, SelectFactor(factors, p))
    BY DEF Evaluated, EvaluateDecision
  <2>2. support = [t \in Threats |-> support[t]]
    BY DEF AssessThreats, Threats
  <2>3. /\ trust = [x \in TrustDomains |-> trust[x]]
        /\ factors = [f \in FactorIds |-> factors[f]]
    OBVIOUS
  <2> HIDE DEF risk, support, trust, factors
  <2>4. /\ d.outcome.support = support /\ d.outcome.trust = trust
        /\ d.outcome.factors = factors /\ d.outcome.selected = SelectFactor(factors, p)
        /\ d.outcome.action = IF d.outcome.selected = NoFactor THEN "ASSISTED_RECOVERY"
                              ELSE "CHALLENGE"
    BY <2>1 DEF Outcome
  <2>5. d.outcome.support \in [Threats -> Supports]
    BY <1>2, <2>2, <2>4
  <2>6. d.outcome.trust \in [TrustDomains -> TrustStates]
    BY <1>3, <2>3, <2>4
  <2>7. d.outcome.factors \in [FactorIds -> [status: Verdicts, domains: SUBSET TrustDomains,
                                             missing: SUBSET Capabilities]]
    BY <1>4, <2>3, <2>4
  <2> QED
    BY <2>4, <2>5, <2>6, <2>7
<1> QED
  BY <1>1, <1>5, <1>6 DEF IsOutcome

-----------------------------------------------------------------------------
(* Change sets and what verification makes of them.                         *)

IsSingle(a) == \/ \E t \in EvidenceTypes : a = Flip(t)
               \/ \E c : a = Enable(c)

LEMMA SinglesOfCandidates ==
    ASSUME NEW p \in Policies, NEW d, d.evidence \in SoundEvidence, NEW f,
           NEW a \in Candidates(d, f, p)
    PROVE  IsSingle(a)
<1>1. \A i \in DOMAIN d.evidence : d.evidence[i].type \in EvidenceTypes
  BY DEF SoundEvidence, SoundItems, EvidenceItems
<1>2. \A x : TrustCites(x, d.outcome.support, d.evidence, p) \subseteq DOMAIN d.evidence
  BY DEF TrustCites, CitedBy, FreshIds
<1>3. \A x : CitedFlips(d, x, p) \subseteq EvidenceTypes
  BY <1>1, <1>2 DEF CitedFlips
<1>4. \A x : PrimaryFlips(d, x, p) \subseteq EvidenceTypes
  BY RulesOfBundles DEF PrimaryFlips
<1>5. \/ \E c \in d.outcome.factors[f].missing : a = Enable(c)
      \/ \E x \in d.outcome.factors[f].domains :
            \E t \in CitedFlips(d, x, p) \cup PrimaryFlips(d, x, p) : a = Flip(t)
  BY DEF Candidates
<1> QED
  BY <1>3, <1>4, <1>5 DEF IsSingle

\* A combination of one, two or three candidates is one of three, equal or not.
LEMMA CombinationsMerge ==
    ASSUME NEW singles, \A a \in singles : IsSingle(a), NEW n \in {1, 2, 3},
           NEW s \in Combinations(singles, n)
    PROVE  \E a, b, c \in singles : s = Merge(Merge(a, b), c)
<1>1. \A a \in singles, b \in singles :
         /\ a = Merge(Merge(a, a), a)
         /\ Merge(a, b) = Merge(Merge(a, b), b)
  BY DEF Merge, IsSingle, Flip, Enable
<1>2. CASE n = 1
  BY <1>1, <1>2 DEF Combinations
<1>3. CASE n = 2
  <2>1. PICK a \in singles, b \in singles : s = Merge(a, b)
    BY <1>3 DEF Combinations
  <2> QED
    BY <1>1, <2>1
<1>4. CASE n = 3
  BY <1>4 DEF Combinations
<1> QED
  BY <1>2, <1>3, <1>4

\* The parts of such a merger are mergers of some of the three, or nothing.
LEMMA MergedFields ==
    ASSUME NEW a, NEW b, NEW c
    PROVE  /\ Merge(Merge(a, b), c).flips = a.flips \cup b.flips \cup c.flips
           /\ Merge(Merge(a, b), c).enables = a.enables \cup b.enables \cup c.enables
BY DEF Merge

\* What is in a verified claim: the sets that help, and that fewer did not.
LEMMA ClaimedSets ==
    ASSUME NEW d, NEW f, NEW capabilities_, NEW p, NEW s,
           s \in VerifyFactorRemediation(d, f, capabilities_, p).sets
    PROVE  LET singles == Candidates(d, f, p)
               status == VerifyFactorRemediation(d, f, capabilities_, p).status
           IN  /\ f \notin Eligible(d.outcome)
               /\ status \in {"VERIFIED_SELECTED", "VERIFIED_ELIGIBLE"}
               /\ Classify(d, f, capabilities_, s, p) = status
               /\ \E n \in {1, 2, 3} :
                     /\ s \in Combinations(singles, n)
                     /\ \A k \in {1, 2} :
                           k < n => Helping(singles, k, d, f, capabilities_, p) = {}
<1>1. PICK singles : singles = Candidates(d, f, p)
  OBVIOUS
<1>2. PICK attempts : attempts = Attempts(singles, d, f, capabilities_, p)
  OBVIOUS
<1>3. PICK claim : claim = VerifyFactorRemediation(d, f, capabilities_, p)
  OBVIOUS
<1>4. s \in claim.sets
  BY <1>3
<1>5. f \notin Eligible(d.outcome) /\ claim = Remedy(attempts)
  BY <1>1, <1>2, <1>3, <1>4 DEF VerifyFactorRemediation
<1>6. PICK selected : selected = {t \in attempts : t.status = "VERIFIED_SELECTED"}
  OBVIOUS
<1>7. PICK best : best = IF selected # {} THEN selected ELSE attempts
  OBVIOUS
<1>8. /\ attempts # {}
      /\ claim.status = (CHOOSE t \in best : TRUE).status
      /\ \E t \in best : s = t.set
  BY <1>4, <1>5, <1>6, <1>7 DEF Remedy
<1>9. PICK n \in {1, 2, 3} :
         /\ attempts = Helping(singles, n, d, f, capabilities_, p)
         /\ \A k \in {1, 2} : k < n => Helping(singles, k, d, f, capabilities_, p) = {}
  <2>1. PICK h1 : h1 = Helping(singles, 1, d, f, capabilities_, p)
    OBVIOUS
  <2>2. PICK h2 : h2 = Helping(singles, 2, d, f, capabilities_, p)
    OBVIOUS
  <2>3. PICK h3 : h3 = Helping(singles, 3, d, f, capabilities_, p)
    OBVIOUS
  <2>4. attempts = FirstNonEmpty(h1, h2, h3)
    BY <1>2, <2>1, <2>2, <2>3 DEF Attempts
  <2>5. \/ attempts = h1
        \/ attempts = h2 /\ h1 = {}
        \/ attempts = h3 /\ h1 = {} /\ h2 = {}
    BY <2>4 DEF FirstNonEmpty
  <2> QED
    BY <2>1, <2>2, <2>3, <2>5
<1>10. \A t \in attempts :
          /\ t.set \in Combinations(singles, n)
          /\ t.status = Classify(d, f, capabilities_, t.set, p)
          /\ t.status # "NONE"
  BY <1>9 DEF Helping, Tested
<1>11. \A x : Classify(d, f, capabilities_, x, p)
                 \in {"VERIFIED_SELECTED", "VERIFIED_ELIGIBLE", "NONE"}
  <2>1. \A o : StatusOf(f, o) \in {"VERIFIED_SELECTED", "VERIFIED_ELIGIBLE", "NONE"}
    BY DEF StatusOf
  <2> QED
    BY <2>1 DEF Classify
<1>12. PICK status \in {"VERIFIED_SELECTED", "VERIFIED_ELIGIBLE"} :
          \A t \in best : t.status = status
  BY <1>6, <1>7, <1>10, <1>11
<1>13. best \subseteq attempts /\ (CHOOSE t \in best : TRUE) \in best
  BY <1>6, <1>7, <1>8
<1>14. PICK t \in best : s = t.set
  BY <1>8
<1>15. claim.status = status /\ Classify(d, f, capabilities_, s, p) = status
  BY <1>8, <1>10, <1>12, <1>13, <1>14
<1>16. s \in Combinations(singles, n)
  BY <1>10, <1>13, <1>14
<1> QED
  BY <1>1, <1>3, <1>5, <1>9, <1>12, <1>15, <1>16

\* A set of types, as changes to "false", is a list of overrides.
LEMMA ChangesAreListed ==
    ASSUME NEW set, set.flips \subseteq EvidenceTypes
    PROVE  /\ EvidenceChanges(set) \in Seq(EvidenceOverrides)
           /\ \A i \in DOMAIN EvidenceChanges(set) : EvidenceChanges(set)[i].value = "false"
           /\ set.flips = {} => EvidenceChanges(set) = <<>>
<1> DEFINE S == {[type |-> t, value |-> "false"] : t \in set.flips}
           typeOf == [e \in S |-> e.type]
           n == Cardinality(S)
<1>1. \A e \in S : e \in EvidenceOverrides /\ e.value = "false"
  BY DEF EvidenceOverrides, Values
<1>2. IsFiniteSet(S)
  <2>1. \A e \in S : e.type \in EvidenceTypes /\ e = [type |-> e.type, value |-> "false"]
    OBVIOUS
  <2> HIDE DEF S
  <2>2. typeOf \in Injection(S, EvidenceTypes)
    <3>1. typeOf \in [S -> EvidenceTypes]
      BY <2>1
    <3>2. \A a \in S, b \in S : typeOf[a] = typeOf[b] => a = b
      BY <2>1
    <3> HIDE DEF typeOf
    <3> QED
      BY <3>1, <3>2, Fun_IsInj
  <2> HIDE DEF typeOf
  <2> QED
    BY <2>2, TypesFinite, FS_Injection
<1>3. set.flips = {} => S = {}
  OBVIOUS
<1>4. EvidenceChanges(set) = SetToSeq(S)
  BY DEF EvidenceChanges
<1> HIDE DEF S
<1>5. n \in Nat /\ ExistsBijection(1..n, S)
  BY <1>2, FS_CardinalityType
<1>6. \E g \in [1..n -> S] : IsInjective(g)
  BY <1>5 DEF ExistsBijection, Bijection, Injection, IsInjective
<1>7. SetToSeq(S) \in [1..n -> S]
  BY <1>6 DEF SetToSeq
<1>8. \A e \in [1..n -> S] : /\ e \in Seq(EvidenceOverrides)
                            /\ \A i \in DOMAIN e : e[i].value = "false"
  <2> HIDE DEF n
  <2> QED
    BY <1>1, <1>5
<1>9. S = {} => n = 0
  BY FS_EmptySet
<1>10. ASSUME S = {} PROVE \A e \in [1..n -> S] : e = <<>>
  <2>1. n = 0
    BY <1>9, <1>10
  <2> HIDE DEF n
  <2> QED
    BY <2>1
<1> QED
  BY <1>3, <1>4, <1>7, <1>8, <1>10

LEMMA ClaimedFlips ==
    ASSUME NEW p \in Policies, NEW d, d.evidence \in SoundEvidence, NEW f,
           NEW capabilities_, NEW s,
           s \in VerifyFactorRemediation(d, f, capabilities_, p).sets
    PROVE  s.flips \subseteq EvidenceTypes
<1>1. PICK n \in {1, 2, 3} : s \in Combinations(Candidates(d, f, p), n)
  BY ClaimedSets
<1>2. \A a \in Candidates(d, f, p) : IsSingle(a)
  BY SinglesOfCandidates
<1>3. PICK a \in Candidates(d, f, p), b \in Candidates(d, f, p), c \in Candidates(d, f, p) :
         s = Merge(Merge(a, b), c)
  BY <1>1, <1>2, CombinationsMerge
<1>4. \A x : IsSingle(x) => x.flips \subseteq EvidenceTypes
  BY DEF IsSingle, Flip, Enable
<1> QED
  BY <1>2, <1>3, <1>4, MergedFields

-----------------------------------------------------------------------------
(* The tables, continued: replays and remediations.                         *)

\* The clock, the devices and the capabilities.
TablesTyped ==
    /\ clock \in 1..MaxTime
    /\ firstSeenAt \in [Devices -> 0..MaxTime \cup {NotSeen}]
    /\ capabilities = [u \in Users |-> capabilities[u]]
    /\ \A u \in Users : "PASSKEY_ENROLLED" \in capabilities[u]
                         \/ capabilities[u] = SeededCapabilities[u]

EvidenceKept ==
    \A d \in DecisionIds : decisions[d] # NoRow => decisions[d].evidence \in SoundEvidence

\* A replay was made from its source as it declares.
ReplayMade(r) ==
    /\ r.mode \in {"EXACT", "FORK"}
    /\ r.changes.evidence \in Seq(EvidenceOverrides)
    /\ r.mode = "EXACT" => r.changes = NoChanges
    /\ r.mode = "FORK" => decisions[r.produced].evidence =
                             ApplyEvidenceOverrides(decisions[r.source].evidence,
                                                    r.changes.evidence,
                                                    decisions[r.produced].at)

ReplaysMade == \A r \in ReplayIds : replays[r] # NoRow => ReplayMade(replays[r])

\* A verified remediation is what verification says of a stored decision, with
\* the capabilities it had.
Claim(m) == VerifyFactorRemediation(decisions[m.decision], m.factor, m.using,
                                    PolicyOf(decisions[m.decision].version))
ClaimSound(m) ==
    /\ m.decision \in DecisionIds /\ decisions[m.decision] # NoRow
    /\ m.factor \in FactorIds
    /\ m.status = Claim(m).status /\ m.sets = Claim(m).sets

ClaimsSound == \A m \in remediations : ClaimSound(m)

ClaimsInv == Inv /\ TablesTyped /\ EvidenceKept /\ ReplaysMade /\ ClaimsSound

\* The other fields a decision is made with.
LEMMA DecisionFields ==
    ASSUME NEW client, NEW user, NEW version, NEW evidence, NEW at, NEW using
    PROVE  LET row == Decision(client, user, version, evidence, at, using)
           IN  row.at = at /\ row.using = using
  BY DEF Decision

LEMMA InitClaims == Init => ClaimsInv
<1> SUFFICES ASSUME Init PROVE ClaimsInv
  OBVIOUS
<1>1. TablesTyped
  BY DecisionConstants DEF Init, TablesTyped, NotSeen
<1>2. EvidenceKept /\ ReplaysMade /\ ClaimsSound
  BY DEF Init, EvidenceKept, ReplaysMade, ClaimsSound
<1> QED
  BY <1>1, <1>2, InitInv DEF ClaimsInv

\* The clock only goes on, a device is first seen once, and a registration
\* gives its user a passkey.
LEMMA TablesStep == TablesTyped /\ [Next]_vars => TablesTyped'
<1> SUFFICES ASSUME TablesTyped, [Next]_vars PROVE TablesTyped'
  OBVIOUS
<1> USE DecisionConstants
<1>1. ASSUME NEW q \in Requests, UpsertDevice(q.device),
             UNCHANGED <<clock, capabilities>>
      PROVE  TablesTyped'
  <2>1. q.device \in Devices
    OBVIOUS
  <2>2. SeenAt(q.device) \in 0..MaxTime \cup {NotSeen}
    BY <2>1 DEF TablesTyped, SeenAt
  <2>3. firstSeenAt' \in [Devices -> 0..MaxTime \cup {NotSeen}]
    BY <1>1, <2>1, <2>2 DEF TablesTyped, UpsertDevice
  <2> QED
    BY <1>1, <2>3 DEF TablesTyped
<1>2. ASSUME NEW d \in DecisionIds, NEW q \in Requests, CreateDecision(d, q)
      PROVE  TablesTyped'
  BY <1>1, <1>2 DEF CreateDecision
<1>3. ASSUME NEW q \in Requests, AbandonDecision(q) PROVE TablesTyped'
  BY <1>1, <1>3 DEF AbandonDecision
<1>4. ASSUME NEW u \in Users, Enroll(u) PROVE TablesTyped'
  <2>1. capabilities' = [v \in Users |-> IF v = u THEN capabilities[u] \cup {"PASSKEY_ENROLLED"}
                                         ELSE capabilities[v]]
    BY <1>4 DEF Enroll, TablesTyped
  <2> QED
    BY <1>4, <2>1 DEF Enroll, TablesTyped
<1>5. CASE Tick
  BY <1>5 DEF Tick, TablesTyped
<1>6. CASE UNCHANGED <<clock, firstSeenAt, capabilities>>
  BY <1>6 DEF TablesTyped
<1>7. \/ Reset \/ UNCHANGED vars
      \/ \E d \in DecisionIds, f \in FactorIds : VerifyRemediation(d, f)
      \/ \E r \in ReplayIds, d, produced \in DecisionIds : \E mode, changes, version :
            CreateReplay(r, d, produced, mode, changes, version)
      => UNCHANGED <<clock, firstSeenAt, capabilities>>
  BY DEF Reset, vars, VerifyRemediation, CreateReplay
<1> QED
  BY <1>2, <1>3, <1>4, <1>5, <1>6, <1>7 DEF Next

\* A new decision with sound evidence disturbs no row, replay or claim.
LEMMA InsertKeepsClaims ==
    ASSUME ClaimsInv, NEW d \in DecisionIds, decisions[d] = NoRow, NEW row,
           row.evidence \in SoundEvidence,
           decisions' = [decisions EXCEPT ![d] = row]
    PROVE  /\ EvidenceKept'
           /\ \A r : ReplaySound(r) /\ ReplayMade(r) => ReplayMade(r)'
           /\ \A m : ClaimSound(m) => ClaimSound(m)'
<1>1. decisions' = [x \in DecisionIds |-> IF x = d THEN row ELSE decisions[x]]
  BY DEF ClaimsInv, Inv, DecisionsSound
<1>2. EvidenceKept'
  BY <1>1 DEF ClaimsInv, EvidenceKept
<1>3. \A x \in DecisionIds : decisions[x] # NoRow => decisions'[x] = decisions[x]
  BY <1>1
<1>4. ASSUME NEW r, ReplaySound(r), ReplayMade(r) PROVE ReplayMade(r)'
  BY <1>3, <1>4 DEF ReplaySound, ReplayMade
<1>5. ASSUME NEW m, ClaimSound(m) PROVE ClaimSound(m)'
  BY <1>3, <1>5 DEF ClaimSound, Claim
<1> QED
  BY <1>2, <1>4, <1>5

\* createDecision
LEMMA CreateDecisionClaims ==
    ASSUME ClaimsInv, NEW d \in DecisionIds, NEW q \in Requests, CreateDecision(d, q)
    PROVE  EvidenceKept' /\ ReplaysMade' /\ ClaimsSound'
<1>1. PICK row : row = Decision(q.client, q.user, Version(q),
                                CollectEvidence(q, SeenAt(q.device)), clock,
                                capabilities[q.user])
  OBVIOUS
<1>2. /\ decisions[d] = NoRow
      /\ decisions' = [decisions EXCEPT ![d] = row]
      /\ replays' = replays /\ remediations' = remediations
  BY <1>1 DEF CreateDecision
<1>3. row.evidence \in SoundEvidence
  <2>1. clock \in Nat
    BY DecisionConstants DEF ClaimsInv, TablesTyped
  <2> QED
    BY <1>1, <2>1, DecisionIsEvaluated, CollectedIsSound
<1>4. /\ EvidenceKept'
      /\ \A r : ReplaySound(r) /\ ReplayMade(r) => ReplayMade(r)'
      /\ \A m : ClaimSound(m) => ClaimSound(m)'
  BY <1>2, <1>3, InsertKeepsClaims
<1>5. ReplaysMade'
  BY <1>2, <1>4 DEF ReplaysMade, ClaimsInv, Inv, ReplaysSound
<1>6. ClaimsSound'
  BY <1>2, <1>4 DEF ClaimsSound, ClaimsInv
<1> QED
  BY <1>4, <1>5, <1>6

\* What a client tries is a list of overrides.
LEMMA ChangesOfFork ==
    ASSUME ClaimsInv, NEW d \in DecisionIds, decisions[d] # NoRow,
           NEW changes \in ForkChanges \cup Recommended(d)
    PROVE  changes.evidence \in Seq(EvidenceOverrides)
<1>1. CASE changes \in ForkChanges
  BY <1>1, DecisionConstants
<1>2. CASE changes \in Recommended(d)
  <2>1. PICK m \in remediations : m.decision = d /\ changes \in {AsFork(s) : s \in m.sets}
    BY <1>2 DEF Recommended
  <2>2. PICK s \in m.sets : changes = AsFork(s)
    BY <2>1
  <2>3. s \in VerifyFactorRemediation(decisions[d], m.factor, m.using,
                                      PolicyOf(decisions[d].version)).sets
    BY <2>1, <2>2 DEF ClaimsInv, ClaimsSound, ClaimSound, Claim
  <2>4. decisions[d].evidence \in SoundEvidence /\ decisions[d].version \in Versions
    BY DEF ClaimsInv, EvidenceKept, Inv, DecisionsSound
  <2>5. s.flips \subseteq EvidenceTypes
    BY <2>3, <2>4, BundleOfVersion, ClaimedFlips
  <2>6. changes.evidence = EvidenceChanges(s)
    BY <2>2 DEF AsFork
  <2> QED
    BY <2>5, <2>6, ChangesAreListed
<1> QED
  BY <1>1, <1>2

\* createReplay
LEMMA CreateReplayClaims ==
    ASSUME ClaimsInv, NEW r \in ReplayIds, NEW d \in DecisionIds,
           NEW produced \in DecisionIds, NEW mode \in {"EXACT", "FORK"}, NEW version,
           NEW changes \in ForkChanges \cup Recommended(d),
           CreateReplay(r, d, produced, mode, changes, version)
    PROVE  EvidenceKept' /\ ReplaysMade' /\ ClaimsSound'
<1>1. PICK row : row = Decision(Replayed, decisions[d].user, version,
                                ReplayEvidence(d, mode, changes), clock,
                                ReplayCapabilities(d, mode, changes))
  OBVIOUS
<1>2. PICK replay : replay = [source |-> d, produced |-> produced, mode |-> mode,
                              changes |-> changes, sections |-> Sections(decisions[d], row)]
  OBVIOUS
<1>3. /\ decisions[d] # NoRow
      /\ decisions[produced] = NoRow
      /\ mode = "EXACT" => changes = NoChanges
      /\ decisions' = [decisions EXCEPT ![produced] = row]
      /\ replays' = [replays EXCEPT ![r] = replay]
      /\ remediations' = remediations
  BY <1>1, <1>2 DEF CreateReplay
<1>4. row.evidence = ReplayEvidence(d, mode, changes) /\ row.at = clock
  BY <1>1, DecisionIsEvaluated, DecisionFields
<1>5. changes.evidence \in Seq(EvidenceOverrides)
  BY <1>3, ChangesOfFork
<1>6. clock \in Nat /\ decisions[d].evidence \in SoundEvidence
  BY <1>3, DecisionConstants DEF ClaimsInv, TablesTyped, EvidenceKept
<1>7. row.evidence \in SoundEvidence
  BY <1>4, <1>5, <1>6, OverridesAreSound DEF ReplayEvidence
<1>8. /\ EvidenceKept'
      /\ \A x : ReplaySound(x) /\ ReplayMade(x) => ReplayMade(x)'
      /\ \A m : ClaimSound(m) => ClaimSound(m)'
  BY <1>3, <1>7, InsertKeepsClaims
<1>9. decisions'[d] = decisions[d] /\ decisions'[produced] = row
  BY <1>3 DEF ClaimsInv, Inv, DecisionsSound
<1>10. /\ replay.source = d /\ replay.produced = produced
       /\ replay.mode = mode /\ replay.changes = changes
  BY <1>2
<1>11. ReplayMade(replay)'
  <2>1. mode = "FORK" =>
          decisions'[produced].evidence =
            ApplyEvidenceOverrides(decisions'[d].evidence, changes.evidence,
                                   decisions'[produced].at)
    BY <1>4, <1>9 DEF ReplayEvidence
  <2> QED
    BY <1>3, <1>5, <1>10, <2>1 DEF ReplayMade
<1>12. replays' = [x \in ReplayIds |-> IF x = r THEN replay ELSE replays[x]]
  BY <1>3 DEF ClaimsInv, Inv, ReplaysSound
<1>13. ReplaysMade'
  <2> SUFFICES ASSUME NEW x \in ReplayIds, replays'[x] # NoRow
               PROVE  ReplayMade(replays[x])'
    BY DEF ReplaysMade
  <2>1. CASE x = r
    BY <1>11, <1>12, <2>1 DEF ReplayMade
  <2>2. CASE x # r
    <3>1. PICK old : old = replays[x]
      OBVIOUS
    <3>2. replays'[x] = old /\ old # NoRow
      BY <1>12, <2>2, <3>1
    <3>3. ReplaySound(old) /\ ReplayMade(old)
      BY <3>1, <3>2 DEF ClaimsInv, Inv, ReplaysSound, ReplaysMade
    <3>4. ReplayMade(old)'
      BY <1>8, <3>3
    <3> QED
      BY <3>2, <3>4 DEF ReplayMade
  <2> QED
    BY <2>1, <2>2
<1>14. ClaimsSound'
  BY <1>3, <1>8 DEF ClaimsSound, ClaimsInv
<1> QED
  BY <1>8, <1>13, <1>14

\* verify
LEMMA VerifyRemediationClaims ==
    ASSUME ClaimsInv, NEW d \in DecisionIds, NEW f \in FactorIds, VerifyRemediation(d, f)
    PROVE  EvidenceKept' /\ ReplaysMade' /\ ClaimsSound'
<1>1. PICK today : today = capabilities[decisions[d].user]
  OBVIOUS
<1>2. PICK claim : claim = VerifyFactorRemediation(decisions[d], f, today,
                                                   PolicyOf(decisions[d].version))
  OBVIOUS
<1>3. PICK new : new = Verified(d, f, today, claim)
  OBVIOUS
<1>4. /\ decisions[d] # NoRow /\ remediations' = remediations \cup {new}
      /\ decisions' = decisions /\ replays' = replays
  BY <1>1, <1>2, <1>3 DEF VerifyRemediation
<1>5. /\ new.decision = d /\ new.factor = f /\ new.using = today
      /\ new.status = claim.status /\ new.sets = claim.sets
  BY <1>3 DEF Verified
<1>6. ClaimSound(new)
  BY <1>2, <1>4, <1>5 DEF ClaimSound, Claim
<1>7. \A m \in remediations' : ClaimSound(m)
  BY <1>4, <1>6 DEF ClaimsInv, ClaimsSound
<1>8. ASSUME NEW m, ClaimSound(m) PROVE ClaimSound(m)'
  BY <1>4, <1>8 DEF ClaimSound, Claim
<1>9. ClaimsSound'
  BY <1>7, <1>8 DEF ClaimsSound
<1> QED
  BY <1>4, <1>9 DEF EvidenceKept, ReplaysMade, ReplayMade, ClaimsInv

LEMMA NextClaims == ClaimsInv /\ [Next]_vars => ClaimsInv'
<1> SUFFICES ASSUME ClaimsInv, [Next]_vars PROVE ClaimsInv'
  OBVIOUS
<1>1. Inv' /\ TablesTyped'
  BY NextInv, TablesStep DEF ClaimsInv
<1> SUFFICES EvidenceKept' /\ ReplaysMade' /\ ClaimsSound'
  BY <1>1 DEF ClaimsInv
<1>2. ASSUME NEW d \in DecisionIds, NEW q \in Requests, CreateDecision(d, q)
      PROVE  EvidenceKept' /\ ReplaysMade' /\ ClaimsSound'
  BY <1>2, CreateDecisionClaims
<1>3. ASSUME NEW r \in ReplayIds, NEW d \in DecisionIds, NEW produced \in DecisionIds,
             NEW mode \in {"EXACT", "FORK"}, NEW version \in Versions,
             NEW changes \in ForkChanges \cup Recommended(d),
             CreateReplay(r, d, produced, mode, changes, version)
      PROVE  EvidenceKept' /\ ReplaysMade' /\ ClaimsSound'
  BY <1>3, CreateReplayClaims
<1>4. ASSUME NEW d \in DecisionIds, NEW f \in FactorIds, VerifyRemediation(d, f)
      PROVE  EvidenceKept' /\ ReplaysMade' /\ ClaimsSound'
  BY <1>4, VerifyRemediationClaims
<1>5. CASE Reset
  BY <1>5 DEF Reset, EvidenceKept, ReplaysMade, ClaimsSound
<1>6. CASE UNCHANGED <<decisions, replays, remediations>>
  BY <1>6 DEF ClaimsInv, EvidenceKept, ReplaysMade, ReplayMade, ClaimsSound, ClaimSound, Claim
<1>7. ASSUME \/ UNCHANGED vars \/ Tick \/ \E u \in Users : Enroll(u)
             \/ \E q \in Requests : AbandonDecision(q)
      PROVE  UNCHANGED <<decisions, replays, remediations>>
  BY <1>7 DEF vars, Tick, Enroll, AbandonDecision
<1> QED
  BY <1>2, <1>3, <1>4, <1>5, <1>6, <1>7 DEF Next

LEMMA ClaimsInvariance == Spec => []ClaimsInv
  BY InitClaims, NextClaims, PTL DEF Spec

\* Every table keeps to its type.
THEOREM DecisionTypeCorrect == Spec => []TypeOK
<1>1. ClaimsInv => TypeOK
  <2> SUFFICES ASSUME ClaimsInv PROVE TypeOK
    OBVIOUS
  <2>1. ASSUME NEW d \in Rows
        PROVE  d.version \in Versions /\ IsOutcome(d.outcome) /\ d.evidence \in Seq(EvidenceItems)
    <3>1. PICK x \in DecisionIds : d = decisions[x] /\ decisions[x] # NoRow
      BY DEF Rows
    <3>2. d.version \in Versions /\ Evaluated(d, PolicyOf(d.version))
      BY <3>1 DEF ClaimsInv, Inv, DecisionsSound
    <3>3. d.evidence \in Seq(SoundItems)
      BY <3>1 DEF ClaimsInv, EvidenceKept, SoundEvidence
    <3>4. d.evidence \in Seq(EvidenceItems)
      BY <3>3 DEF SoundItems
    <3> QED
      BY <3>2, <3>4, BundleOfVersion, OutcomeIsTyped
  <2>2. ASSUME NEW r \in Replays
        PROVE  {decisions[r.source], decisions[r.produced]} \subseteq Rows
    BY DEF ClaimsInv, Inv, ReplaysSound, ReplaySound, Replays, Rows
  <2>3. ASSUME NEW m \in remediations PROVE decisions[m.decision] \in Rows
    BY DEF ClaimsInv, ClaimsSound, ClaimSound, Rows
  <2> QED
    BY <2>1, <2>2, <2>3 DEF TypeOK, ClaimsInv, TablesTyped
<1> QED
  BY <1>1, ClaimsInvariance, PTL

-----------------------------------------------------------------------------
(* Replays that change nothing, and the two bundles.                        *)

LEMMA NothingOverridden ==
    ASSUME NEW base, NEW now
    PROVE  ApplyEvidenceOverrides(base, <<>>, now) = base
<1>1. 0 \in Nat /\ DOMAIN <<>> = 1..0
  OBVIOUS
<1>2. PICK seq : seq = <<>>
  OBVIOUS
<1>3. \E F : /\ IsFold(F, FALSE, base, seq, now)
             /\ ApplyEvidenceOverrides(base, seq, now) = F[DOMAIN seq]
  BY <1>1, <1>2, OverridesFold
<1>4. DOMAIN seq = {}
  BY <1>2
<1> QED
  BY <1>2, <1>3, <1>4 DEF IsFold

LEMMA BundlesByVersion ==
    /\ Versions = {"1.0.0", "1.1.0"}
    /\ PolicyOf("1.0.0") = Bundle("1.0.0", TrustImpactRules)
    /\ PolicyOf("1.1.0") = Bundle("1.1.0", CandidateTrustImpactRules)
<1>1. /\ Bundle("1.0.0", TrustImpactRules).version = "1.0.0"
      /\ Bundle("1.1.0", CandidateTrustImpactRules).version = "1.1.0"
  BY DEF Bundle
<1>2. Policies = {Bundle("1.0.0", TrustImpactRules),
                  Bundle("1.1.0", CandidateTrustImpactRules)}
  BY DEF Policies, ActiveVersion, CandidateVersion
<1> QED
  BY <1>1, <1>2 DEF Versions, PolicyOf

\* The parts of a bundle; the two differ in their version and impact rules.
LEMMA BundleParts ==
    ASSUME NEW p \in Policies
    PROVE  /\ p.risk = RiskRules /\ p.threats = ThreatRules
           /\ p.factors = FactorDefinitions /\ p.required = RequiredAssurance
           /\ p.tieBreaker = TieBreaker
BY DEF Policies, Bundle

\* What is known of a replay's two decisions.
LEMMA ReplayFacts ==
    ASSUME ClaimsInv, NEW r \in Replays, NEW source, NEW produced,
           source = decisions[r.source], produced = decisions[r.produced]
    PROVE  /\ source.version \in Versions /\ produced.version \in Versions
           /\ Evaluated(source, PolicyOf(source.version))
           /\ Evaluated(produced, PolicyOf(produced.version))
           /\ source.evidence \in SoundEvidence /\ produced.evidence \in SoundEvidence
           /\ r.sections = Sections(source, produced)
           /\ r.mode \in {"EXACT", "FORK"}
           /\ r.changes.evidence \in Seq(EvidenceOverrides)
           /\ r.mode = "EXACT" => /\ r.changes = NoChanges
                                  /\ produced.evidence = source.evidence
           /\ r.mode = "FORK" =>
                 produced.evidence = ApplyEvidenceOverrides(source.evidence,
                                                            r.changes.evidence, produced.at)
<1>1. ReplaySound(r) /\ ReplayMade(r)
  BY DEF ClaimsInv, Inv, ReplaysSound, ReplaysMade, Replays
<1>2. /\ r.source \in DecisionIds /\ source # NoRow
      /\ r.produced \in DecisionIds /\ produced # NoRow
  BY <1>1 DEF ReplaySound
<1>3. /\ source.version \in Versions /\ produced.version \in Versions
      /\ Evaluated(source, PolicyOf(source.version))
      /\ Evaluated(produced, PolicyOf(produced.version))
      /\ source.evidence \in SoundEvidence /\ produced.evidence \in SoundEvidence
  BY <1>2 DEF ClaimsInv, Inv, DecisionsSound, EvidenceKept
<1> QED
  BY <1>1, <1>3 DEF ReplaySound, ReplayMade

\* A replay that changes no evidence, exact or forked, has that of its source.
LEMMA UnchangedEvidence ==
    ASSUME ClaimsInv, NEW r \in Replays, r.changes.evidence = <<>>
    PROVE  decisions[r.produced].evidence = decisions[r.source].evidence
BY ReplayFacts, NothingOverridden

\* A factor's evaluation depends on the domains it requires.
LEMMA FactorByRequirements ==
    ASSUME NEW p \in Policies, NEW q \in Policies, NEW f, NEW before, NEW after,
           NEW using, NEW risk,
           \A x \in FactorDefinitions[f].trust : before[x.domain] = after[x.domain]
    PROVE  EvaluateFactor(f, before, using, risk, p) = EvaluateFactor(f, after, using, risk, q)
<1>1. FailedTrust(f, before, p) = FailedTrust(f, after, q)
  BY BundleParts DEF FailedTrust
<1>2. MissingCapabilities(f, using, p) = MissingCapabilities(f, using, q)
  BY BundleParts DEF MissingCapabilities
<1>3. AssuranceMet(f, risk, p) <=> AssuranceMet(f, risk, q)
  BY BundleParts DEF AssuranceMet
<1> QED
  BY <1>1, <1>2, <1>3 DEF EvaluateFactor

\* Threats and risk are the same under both bundles.
LEMMA SameAssessments ==
    ASSUME NEW p \in Policies, NEW q \in Policies, NEW evidence
    PROVE  /\ AssessRisk(evidence, p) = AssessRisk(evidence, q)
           /\ \A t : AssessThreat(t, evidence, p) = AssessThreat(t, evidence, q)
<1>1. AssessRisk(evidence, p) = AssessRisk(evidence, q)
  BY BundleParts DEF AssessRisk
<1>2. \A t, kind : Rules(t, kind, p) = Rules(t, kind, q)
  BY BundleParts DEF Rules
<1>3. \A t, kind : FreshRules(t, kind, evidence, p) = FreshRules(t, kind, evidence, q)
  BY <1>2 DEF FreshRules
<1> QED
  BY <1>1, <1>2, <1>3 DEF AssessThreat

\* Evidence is never empty.
LEMMA SomeEvidence ==
    ASSUME NEW evidence \in SoundEvidence
    PROVE  DOMAIN evidence # {}
<1>1. evidence \in Seq(SoundItems) /\ evidence # <<>>
  BY DEF SoundEvidence
<1>2. Len(evidence) \in Nat /\ Len(evidence) # 0 /\ DOMAIN evidence = 1..Len(evidence)
  BY <1>1
<1>3. 1 \in DOMAIN evidence
  BY <1>2
<1> QED
  BY <1>3

\* Where no impact applies evidence leaves trust; a lone DEGRADE is a doubt.
LEMMA TrustOfDomain ==
    ASSUME NEW x, NEW support, NEW evidence \in SoundEvidence, NEW p
    PROVE  /\ Applied(x, support, p) = {} => TrustState(x, support, evidence, p) = "TRUSTED"
           /\ ( /\ Applied(x, support, p) # {}
                /\ \A r \in Applied(x, support, p) : r.impact = "DEGRADE" )
              => TrustState(x, support, evidence, p) = "DEGRADED"
<1>1. DOMAIN evidence # {}
  BY SomeEvidence
<1>2. PICK impacts : impacts = {r.impact : r \in Applied(x, support, p)}
  OBVIOUS
<1>3. TrustState(x, support, evidence, p) =
        CASE "DISTRUST" \in impacts -> "DISTRUSTED"
          [] impacts = {"DEGRADE"} -> "DEGRADED"
          [] impacts = {} -> IF DOMAIN evidence = {} THEN "UNKNOWN" ELSE "TRUSTED"
  BY <1>2 DEF TrustState
<1>4. Applied(x, support, p) = {} => impacts = {}
  BY <1>2
<1>5. ( /\ Applied(x, support, p) # {}
        /\ \A r \in Applied(x, support, p) : r.impact = "DEGRADE" ) => impacts = {"DEGRADE"}
  BY <1>2
<1> QED
  BY <1>1, <1>3, <1>4, <1>5

\* One decision's evidence under both bundles: only credentials lose trust.
LEMMA CandidateTrust ==
    ASSUME NEW support, NEW evidence \in SoundEvidence,
           NEW p, p = PolicyOf("1.0.0"), NEW q, q = PolicyOf("1.1.0")
    PROVE  /\ \A x \in TrustDomains \ {"CREDENTIAL_INTEGRITY"} :
                 TrustState(x, support, evidence, p) = TrustState(x, support, evidence, q)
           /\ TrustState("CREDENTIAL_INTEGRITY", support, evidence, p) = "TRUSTED"
           /\ TrustState("CREDENTIAL_INTEGRITY", support, evidence, q)
                 \in {"TRUSTED", "DEGRADED"}
<1>1. p.impacts = TrustImpactRules /\ q.impacts = CandidateTrustImpactRules
  BY BundlesByVersion DEF Bundle
<1>2. \A r \in TrustImpactRules : r.domain # "CREDENTIAL_INTEGRITY"
  BY DEF TrustImpactRules, Impact
<1>3. PICK new : /\ new.domain = "CREDENTIAL_INTEGRITY" /\ new.impact = "DEGRADE"
                 /\ CandidateTrustImpactRules = TrustImpactRules \cup {new}
  BY DEF CandidateTrustImpactRules, Impact
<1>4. \A x \in TrustDomains \ {"CREDENTIAL_INTEGRITY"} :
         Applied(x, support, p) = Applied(x, support, q)
  BY <1>1, <1>3 DEF Applied
<1>5. Applied("CREDENTIAL_INTEGRITY", support, p) = {}
  BY <1>1, <1>2 DEF Applied
<1>6. Applied("CREDENTIAL_INTEGRITY", support, q) \subseteq {new}
  BY <1>1, <1>2, <1>3 DEF Applied
<1>7. \A x \in TrustDomains \ {"CREDENTIAL_INTEGRITY"} :
         TrustState(x, support, evidence, p) = TrustState(x, support, evidence, q)
  BY <1>4 DEF TrustState
<1> QED
  BY <1>3, <1>5, <1>6, <1>7, TrustOfDomain

\* Trust short of what a factor requires makes it ineligible.
LEMMA DistrustedFactor ==
    ASSUME NEW f, NEW trust, NEW using, NEW risk, NEW p,
           FailedTrust(f, trust, p) # {}
    PROVE  EvaluateFactor(f, trust, using, risk, p).status = "INELIGIBLE"
<1>1. PICK domains : domains = FailedTrust(f, trust, p)
  OBVIOUS
<1> QED
  BY <1>1 DEF EvaluateFactor

\* A replay of a decision of 1.0.0 under the candidate policy, with nothing
\* else changed, keeps SMS_OTP and PIN, and can only take PASSKEY and TOTP away.
THEOREM CandidateRestricts == Spec => []CandidateOnlyRestricts
<1>1. ClaimsInv => CandidateOnlyRestricts
  <2> SUFFICES ASSUME ClaimsInv, NEW r \in Replays, r.changes = NoChanges,
                      NEW source, source = decisions[r.source],
                      NEW produced, produced = decisions[r.produced],
                      source.using = produced.using,
                      source.version = "1.0.0", produced.version = "1.1.0"
               PROVE  /\ \A f \in {"SMS_OTP", "PIN"} :
                            produced.outcome.factors[f] = source.outcome.factors[f]
                      /\ \A f \in {"PASSKEY", "TOTP"} :
                            \/ produced.outcome.factors[f] = source.outcome.factors[f]
                            \/ produced.outcome.factors[f].status = "INELIGIBLE"
    BY DEF CandidateOnlyRestricts
  <2>1. PICK p : p = PolicyOf("1.0.0")
    OBVIOUS
  <2>2. PICK q : q = PolicyOf("1.1.0")
    OBVIOUS
  <2>3. /\ Evaluated(source, p) /\ Evaluated(produced, q)
        /\ source.evidence \in SoundEvidence
    BY <2>1, <2>2, ReplayFacts
  <2>4. produced.evidence = source.evidence
    BY UnchangedEvidence DEF NoChanges
  <2>5. p \in Policies /\ q \in Policies
    BY <2>1, <2>2, BundlesByVersion, BundleOfVersion
  <2>6. PICK before : before = source.outcome.trust
    OBVIOUS
  <2>7. PICK after : after = produced.outcome.trust
    OBVIOUS
  <2>8. PICK risk : risk = source.outcome.risk
    OBVIOUS
  <2>9. PICK using : using = source.using
    OBVIOUS
  <2>10. /\ produced.outcome.risk = risk
         /\ \A t \in Threats : produced.outcome.support[t] = source.outcome.support[t]
    BY <2>3, <2>4, <2>5, <2>8, EvaluatedParts, SameAssessments
  <2>11. \A x \in TrustDomains :
            /\ before[x] = TrustState(x, source.outcome.support, source.evidence, p)
            /\ after[x] = TrustState(x, source.outcome.support, source.evidence, q)
    <3>1. \A x : Applied(x, produced.outcome.support, q) = Applied(x, source.outcome.support, q)
      BY <2>5, <2>10, RulesOfBundles DEF Applied
    <3>2. \A x : TrustState(x, produced.outcome.support, source.evidence, q)
                    = TrustState(x, source.outcome.support, source.evidence, q)
      BY <3>1 DEF TrustState
    <3> QED
      BY <2>3, <2>4, <2>6, <2>7, <3>2, EvaluatedParts
  <2>12. /\ \A x \in TrustDomains \ {"CREDENTIAL_INTEGRITY"} : before[x] = after[x]
         /\ before["CREDENTIAL_INTEGRITY"] = "TRUSTED"
         /\ after["CREDENTIAL_INTEGRITY"] \in {"TRUSTED", "DEGRADED"}
    <3>1. "CREDENTIAL_INTEGRITY" \in TrustDomains
      BY DEF TrustDomains
    <3> QED
      BY <2>1, <2>2, <2>3, <2>11, <3>1, CandidateTrust
  <2>13. \A f \in FactorIds :
            /\ source.outcome.factors[f] = EvaluateFactor(f, before, using, risk, p)
            /\ produced.outcome.factors[f] = EvaluateFactor(f, after, using, risk, q)
    BY <2>3, <2>6, <2>7, <2>8, <2>9, <2>10, EvaluatedParts
  <2>14. \A f \in FactorIds : \A x \in FactorDefinitions[f].trust : x.domain \in TrustDomains
    BY DEF FactorIds, FactorDefinitions, Requires, TrustDomains
  <2>15. ASSUME NEW f \in {"SMS_OTP", "PIN"}
         PROVE  produced.outcome.factors[f] = source.outcome.factors[f]
    <3>1. f \in FactorIds
      BY DEF FactorIds
    <3>2. \A x \in FactorDefinitions[f].trust : x.domain # "CREDENTIAL_INTEGRITY"
      BY DEF FactorDefinitions, Requires
    <3> QED
      BY <2>5, <2>12, <2>13, <2>14, <3>1, <3>2, FactorByRequirements
  <2>16. ASSUME NEW f \in {"PASSKEY", "TOTP"}
         PROVE  \/ produced.outcome.factors[f] = source.outcome.factors[f]
                \/ produced.outcome.factors[f].status = "INELIGIBLE"
    <3>1. f \in FactorIds
      BY DEF FactorIds
    <3>2. CASE after["CREDENTIAL_INTEGRITY"] = "TRUSTED"
      <4>1. \A x \in TrustDomains : before[x] = after[x]
        BY <2>12, <3>2
      <4> QED
        BY <2>5, <2>13, <2>14, <3>1, <4>1, FactorByRequirements
    <3>3. CASE after["CREDENTIAL_INTEGRITY"] = "DEGRADED"
      <4>0. PICK y : y = Requires("CREDENTIAL_INTEGRITY", "TRUSTED")
        OBVIOUS
      <4>1. PICK x \in FactorDefinitions[f].trust :
               x.domain = "CREDENTIAL_INTEGRITY" /\ x.minimum = "TRUSTED"
        <5>1. y.domain = "CREDENTIAL_INTEGRITY" /\ y.minimum = "TRUSTED"
          BY <4>0 DEF Requires
        <5>2. y \in FactorDefinitions[f].trust
          BY <4>0 DEF FactorDefinitions
        <5> QED
          BY <5>1, <5>2
      <4>2. TrustRank[after[x.domain]] < TrustRank[x.minimum]
        BY <3>3, <4>1 DEF TrustRank
      <4>3. FailedTrust(f, after, q) # {}
        BY <2>5, <4>2, BundleParts DEF FailedTrust
      <4> QED
        BY <2>13, <3>1, <4>3, DistrustedFactor
    <3> QED
      BY <2>12, <3>2, <3>3
  <2> QED
    BY <2>15, <2>16
<1> QED
  BY <1>1, ClaimsInvariance, PTL

-----------------------------------------------------------------------------
(* What a remediation recommends, tried later.                              *)

\* Lists that differ in how current their false items are.
Alike(a, b) ==
    /\ DOMAIN a = DOMAIN b
    /\ \A i \in DOMAIN a :
          /\ a[i].type = b[i].type /\ a[i].value = b[i].value /\ a[i].until = b[i].until
          /\ a[i].value # "false" => a[i].status = b[i].status

\* The changes to "false".
Lowering == {c \in EvidenceOverrides : c.value = "false"}

\* Such a change keeps lists alike, whenever it is made.
LEMMA OverridesAlike ==
    ASSUME NEW a \in SoundEvidence, NEW b \in SoundEvidence, Alike(a, b),
           NEW change \in Lowering, NEW now, NEW later
    PROVE  Alike(Override(a, change, now), Override(b, change, later))
<1>1. a \in Seq(SoundItems) /\ b \in Seq(SoundItems)
  BY DEF SoundEvidence
<1>2. /\ change \in EvidenceOverrides /\ change.type \in EvidenceTypes
      /\ change.value \in Values /\ change.value = "false"
  BY DEF EvidenceOverrides, Lowering
<1>3. PICK ra : ra = Override(a, change, now)
  OBVIOUS
<1>4. PICK rb : rb = Override(b, change, later)
  OBVIOUS
<1>5. PICK i \in Nat, until \in Int, item \in SoundItems :
         /\ item = Item(change.type, change.value, until, now)
         /\ Overridden(a, change, i, item, ra)
         /\ i = IF HasType(a, change.type) THEN FirstOf(a, change.type) ELSE Len(a) + 1
         /\ until = IF HasType(a, change.type) THEN a[i].until ELSE Never
  BY <1>2, <1>3, OverrideEffect
<1>6. PICK j \in Nat, upTo \in Int, other \in SoundItems :
         /\ other = Item(change.type, change.value, upTo, later)
         /\ Overridden(b, change, j, other, rb)
         /\ j = IF HasType(b, change.type) THEN FirstOf(b, change.type) ELSE Len(b) + 1
         /\ upTo = IF HasType(b, change.type) THEN b[j].until ELSE Never
  BY <1>2, <1>4, OverrideEffect
<1>7. HasType(a, change.type) <=> HasType(b, change.type)
  BY DEF Alike, HasType
<1>8. i = j
  <2>1. CASE HasType(a, change.type)
    <3>1. /\ i \in DOMAIN a /\ a[i].type = change.type
          /\ \A k \in DOMAIN a : a[k].type = change.type => i <= k
      BY <1>1, <1>5, <2>1, FirstIsThere
    <3>2. /\ j \in DOMAIN b /\ b[j].type = change.type
          /\ \A k \in DOMAIN b : b[k].type = change.type => j <= k
      BY <1>1, <1>6, <1>7, <2>1, FirstIsThere
    <3>3. i <= j /\ j <= i
      BY <3>1, <3>2 DEF Alike
    <3> QED
      BY <3>3
  <2>2. CASE ~HasType(a, change.type)
    <3>1. Len(a) = Len(b)
      BY <1>1 DEF Alike
    <3> QED
      BY <1>5, <1>6, <1>7, <2>2, <3>1
  <2> QED
    BY <2>1, <2>2
<1>9. until = upTo
  <2>1. HasType(a, change.type) => i \in DOMAIN a
    BY <1>1, <1>5, FirstIsThere
  <2> QED
    BY <1>5, <1>6, <1>7, <1>8, <2>1 DEF Alike
<1>10. /\ item.type = change.type /\ item.value = "false" /\ item.until = until
       /\ other.type = change.type /\ other.value = "false" /\ other.until = until
  BY <1>2, <1>5, <1>6, <1>9 DEF Item
<1>11. Replaced(a, i, item, ra) /\ Replaced(b, i, other, rb)
  BY <1>5, <1>6, <1>8, OverriddenIsSound
<1>12. /\ ra[i] = item /\ rb[i] = other
       /\ DOMAIN ra = DOMAIN a \cup {i} /\ DOMAIN rb = DOMAIN b \cup {i}
       /\ \A k \in DOMAIN a \ {i} : ra[k] = a[k]
       /\ \A k \in DOMAIN b \ {i} : rb[k] = b[k]
  BY <1>11 DEF Replaced
<1>13. DOMAIN ra = DOMAIN rb
  BY <1>12 DEF Alike
<1>14. ASSUME NEW k \in DOMAIN ra
       PROVE  /\ ra[k].type = rb[k].type /\ ra[k].value = rb[k].value
              /\ ra[k].until = rb[k].until
              /\ ra[k].value # "false" => ra[k].status = rb[k].status
  <2>1. CASE k = i
    BY <1>10, <1>12, <2>1
  <2>2. CASE k # i
    BY <1>12, <2>2 DEF Alike
  <2> QED
    BY <2>1, <2>2
<1> QED
  BY <1>3, <1>4, <1>13, <1>14 DEF Alike

\* So a list of such changes gives alike lists at any two times.
LEMMA ChangesAlike ==
    ASSUME NEW base \in SoundEvidence, NEW seq \in Seq(EvidenceOverrides),
           \A i \in DOMAIN seq : seq[i].value = "false", NEW now, NEW later, clock \in Nat
    PROVE  Alike(ApplyEvidenceOverrides(base, seq, now),
                 ApplyEvidenceOverrides(base, seq, later))
<1>1. Len(seq) \in Nat /\ DOMAIN seq = 1..Len(seq)
  OBVIOUS
<1>2. PICK F : /\ IsFold(F, FALSE, base, seq, now)
               /\ ApplyEvidenceOverrides(base, seq, now) = F[DOMAIN seq]
  BY <1>1, OverridesFold
<1>3. PICK G : /\ IsFold(G, FALSE, base, seq, later)
               /\ ApplyEvidenceOverrides(base, seq, later) = G[DOMAIN seq]
  BY <1>1, OverridesFold
<1> DEFINE good(s) == F[s] \in SoundEvidence /\ G[s] \in SoundEvidence /\ Alike(F[s], G[s])
           S == {m \in Nat : m <= Len(seq) => \A s \in SUBSET (1..m) : good(s)}
<1>4. 0 \in S
  <2>1. \A s \in SUBSET (1..0) : s = {}
    OBVIOUS
  <2>2. F[{}] = base /\ G[{}] = base
    BY <1>2, <1>3 DEF IsFold
  <2>3. Alike(base, base)
    BY DEF Alike
  <2> QED
    BY <2>1, <2>2, <2>3
<1>5. ASSUME NEW m \in S PROVE m + 1 \in S
  <2> SUFFICES ASSUME m + 1 <= Len(seq), NEW s \in SUBSET (1..(m + 1))
               PROVE  good(s)
    OBVIOUS
  <2>1. m \in Nat /\ \A t \in SUBSET (1..m) : good(t)
    BY <1>5
  <2> HIDE DEF S, good
  <2>2. CASE m + 1 \notin s
    BY <2>1, <2>2, EarlierOf
  <2>3. CASE m + 1 \in s
    <3>1. Max(s) = m + 1 /\ s \ {m + 1} \in SUBSET (1..m)
      BY <2>1, <2>3, LastOf, EarlierOf
    <3>2. m + 1 \in DOMAIN seq /\ s \in SUBSET DOMAIN seq
      BY <2>1
    <3>3. PICK change : change = seq[m + 1]
      OBVIOUS
    <3>4. PICK f : f = F[s \ {m + 1}]
      OBVIOUS
    <3>5. PICK g : g = G[s \ {m + 1}]
      OBVIOUS
    <3>6. change \in EvidenceOverrides /\ change \in Lowering
      BY <3>2, <3>3 DEF Lowering
    <3>7. f \in SoundEvidence /\ g \in SoundEvidence /\ Alike(f, g)
      BY <2>1, <3>1, <3>4, <3>5 DEF good
    <3>8. F[s] = Step(FALSE, f, change, now) /\ G[s] = Step(FALSE, g, change, later)
      BY <1>2, <1>3, <2>3, <3>1, <3>2, <3>3, <3>4, <3>5 DEF IsFold
    <3>9. F[s] \in SoundEvidence /\ G[s] \in SoundEvidence
      BY <3>6, <3>7, <3>8, StepIsSound
    <3>10. F[s] = Override(f, change, now) /\ G[s] = Override(g, change, later)
      BY <3>8 DEF Step
    <3>11. Alike(F[s], G[s])
      BY <3>6, <3>7, <3>10, OverridesAlike
    <3> QED
      BY <3>9, <3>11 DEF good
  <2> QED
    BY <2>2, <2>3
<1>6. S = Nat
  <2>1. S \in SUBSET Nat
    OBVIOUS
  <2> HIDE DEF S
  <2> QED
    BY <1>4, <1>5, <2>1, SetInduction
<1>7. good(DOMAIN seq)
  <2> HIDE DEF good
  <2> QED
    BY <1>1, <1>6
<1> QED
  BY <1>2, <1>3, <1>7

\* The engine sees of evidence what holds, what holds freshly, and whether
\* there is any.
LEMMA SameFacts ==
    ASSUME NEW a, NEW b, DOMAIN a = {} <=> DOMAIN b = {},
           \A t : Holds(t, a) <=> Holds(t, b),
           \A t : HoldsFresh(t, a) <=> HoldsFresh(t, b), NEW using, NEW p
    PROVE  EvaluateDecision(a, using, p) = EvaluateDecision(b, using, p)
<1>1. AssessRisk(a, p) = AssessRisk(b, p)
  BY DEF AssessRisk
<1>2. \A threat, kind : FreshRules(threat, kind, a, p) = FreshRules(threat, kind, b, p)
  BY DEF FreshRules
<1>3. \A threat : AssessThreat(threat, a, p) = AssessThreat(threat, b, p)
  BY <1>2 DEF AssessThreat
<1>4. AssessThreats(a, p) = AssessThreats(b, p)
  BY <1>3 DEF AssessThreats
<1>5. \A x, support : TrustState(x, support, a, p) = TrustState(x, support, b, p)
  BY DEF TrustState
<1> QED
  BY <1>1, <1>4, <1>5 DEF EvaluateDecision

LEMMA AlikeOutcomes ==
    ASSUME NEW a, NEW b, Alike(a, b), NEW using, NEW p
    PROVE  EvaluateDecision(a, using, p) = EvaluateDecision(b, using, p)
<1>1. DOMAIN a = {} <=> DOMAIN b = {}
  BY DEF Alike
<1>2. \A t : Holds(t, a) <=> Holds(t, b)
  BY DEF Alike, Holds
<1>3. \A t : HoldsFresh(t, a) <=> HoldsFresh(t, b)
  BY DEF Alike, HoldsFresh, FreshIds
<1> QED
  BY <1>1, <1>2, <1>3, SameFacts

\* What a claim says of a factor is so of the outcome it was verified with.
LEMMA StatusMeans ==
    ASSUME NEW f \in FactorIds, NEW o,
           StatusOf(f, o) \in {"VERIFIED_SELECTED", "VERIFIED_ELIGIBLE"},
           o.selected \in Eligible(o) \cup {NoFactor}
    PROVE  /\ f \in Eligible(o)
           /\ StatusOf(f, o) = "VERIFIED_SELECTED" => o.selected = f
<1>1. f # NoFactor
  BY DEF FactorIds, NoFactor
<1> QED
  BY <1>1 DEF StatusOf

\* What remediation claims of a factor, the recommended fork delivers: for all
\* policies, evidence and forks, and however much later it is made.
THEOREM RemediationsDeliver == Spec => []RemediationDelivers
<1>1. ClaimsInv => RemediationDelivers
  <2> SUFFICES ASSUME ClaimsInv, NEW m \in remediations, NEW r \in Replays,
                      NEW source, source = decisions[r.source],
                      NEW produced, produced = decisions[r.produced],
                      r.source = m.decision, r.mode = "FORK",
                      source.version = produced.version, NEW s \in m.sets,
                      r.changes = AsFork(s), produced.using = m.using \cup s.enables
               PROVE  /\ m.factor \in Eligible(produced.outcome)
                      /\ m.status = "VERIFIED_SELECTED" => produced.outcome.selected = m.factor
    BY DEF RemediationDelivers
  <2>1. PICK p : p = PolicyOf(source.version)
    OBVIOUS
  <2>2. /\ p \in Policies /\ Evaluated(produced, p) /\ source.evidence \in SoundEvidence
        /\ produced.evidence = ApplyEvidenceOverrides(source.evidence, r.changes.evidence,
                                                      produced.at)
    BY <2>1, ReplayFacts, BundleOfVersion
  <2>3. /\ m.factor \in FactorIds
        /\ s \in VerifyFactorRemediation(source, m.factor, m.using, p).sets
        /\ m.status = VerifyFactorRemediation(source, m.factor, m.using, p).status
    BY <2>1 DEF ClaimsInv, ClaimsSound, ClaimSound, Claim
  <2>4. /\ m.status \in {"VERIFIED_SELECTED", "VERIFIED_ELIGIBLE"}
        /\ Classify(source, m.factor, m.using, s, p) = m.status
    BY <2>3, ClaimedSets
  <2>5. PICK changes : changes = EvidenceChanges(s)
    OBVIOUS
  <2>6. /\ changes \in Seq(EvidenceOverrides)
        /\ \A i \in DOMAIN changes : changes[i].value = "false"
    BY <2>2, <2>3, <2>5, ClaimedFlips, ChangesAreListed
  <2>7. r.changes.evidence = changes
    BY <2>5 DEF AsFork
  <2>8. clock \in Nat
    BY DecisionConstants DEF ClaimsInv, TablesTyped
  <2>9. PICK then : then = ApplyEvidenceOverrides(source.evidence, changes, source.at)
    OBVIOUS
  <2>10. Alike(then, produced.evidence)
    BY <2>2, <2>6, <2>7, <2>8, <2>9, ChangesAlike
  <2>11. Changed(source, m.using, s, p) = EvaluateDecision(then, produced.using, p)
    BY <2>5, <2>9 DEF Changed
  <2>12. produced.outcome = Changed(source, m.using, s, p)
    BY <2>2, <2>10, <2>11, AlikeOutcomes DEF Evaluated
  <2>13. StatusOf(m.factor, produced.outcome) = m.status
    BY <2>4, <2>12 DEF Classify
  <2>14. produced.outcome.selected \in Eligible(produced.outcome) \cup {NoFactor}
    BY <2>2, SelectionIsBest
  <2> QED
    BY <2>3, <2>4, <2>13, <2>14, StatusMeans
<1> QED
  BY <1>1, ClaimsInvariance, PTL

-----------------------------------------------------------------------------
(* What a remediation recommends, in part.                                  *)

Nothing == [flips |-> {}, enables |-> {}]

\* A part of three merged single changes is what it has of each of them.
LEMMA PartOfThree ==
    ASSUME NEW a, IsSingle(a), NEW b, IsSingle(b), NEW c, IsSingle(c),
           NEW s, s = Merge(Merge(a, b), c),
           NEW t \in [flips: SUBSET s.flips, enables: SUBSET s.enables]
    PROVE  t \in {Nothing, a, b, c, Merge(a, b), Merge(a, c), Merge(b, c), s}
<1> DEFINE in(x) == x.flips \subseteq t.flips /\ x.enables \subseteq t.enables
           out(x) == x.flips \cap t.flips = {} /\ x.enables \cap t.enables = {}
<1>1. /\ s.flips = a.flips \cup b.flips \cup c.flips
      /\ s.enables = a.enables \cup b.enables \cup c.enables
  BY MergedFields
<1>2. /\ t = [flips |-> t.flips, enables |-> t.enables]
      /\ t.flips \subseteq s.flips /\ t.enables \subseteq s.enables
  OBVIOUS
<1>3. \A x : IsSingle(x) => /\ in(x) \/ out(x)
                            /\ x = [flips |-> x.flips, enables |-> x.enables]
  BY DEF IsSingle, Flip, Enable
<1>4. \A x, y : Merge(x, y) = [flips |-> x.flips \cup y.flips,
                              enables |-> x.enables \cup y.enables]
  BY DEF Merge
<1>5. s = [flips |-> s.flips, enables |-> s.enables]
  BY <1>4, MergedFields
<1>6. CASE in(a) /\ in(b) /\ in(c)
  <2>1. t.flips = s.flips /\ t.enables = s.enables
    BY <1>1, <1>2, <1>6
  <2> QED
    BY <1>2, <1>5, <2>1
<1>7. CASE in(a) /\ in(b) /\ out(c)
  <2>1. t.flips = a.flips \cup b.flips /\ t.enables = a.enables \cup b.enables
    BY <1>1, <1>2, <1>7
  <2> QED
    BY <1>2, <1>4, <2>1
<1>8. CASE in(a) /\ out(b) /\ in(c)
  <2>1. t.flips = a.flips \cup c.flips /\ t.enables = a.enables \cup c.enables
    BY <1>1, <1>2, <1>8
  <2> QED
    BY <1>2, <1>4, <2>1
<1>9. CASE out(a) /\ in(b) /\ in(c)
  <2>1. t.flips = b.flips \cup c.flips /\ t.enables = b.enables \cup c.enables
    BY <1>1, <1>2, <1>9
  <2> QED
    BY <1>2, <1>4, <2>1
<1>10. CASE in(a) /\ out(b) /\ out(c)
  <2>1. t.flips = a.flips /\ t.enables = a.enables
    BY <1>1, <1>2, <1>10
  <2> QED
    BY <1>2, <1>3, <2>1
<1>11. CASE out(a) /\ in(b) /\ out(c)
  <2>1. t.flips = b.flips /\ t.enables = b.enables
    BY <1>1, <1>2, <1>11
  <2> QED
    BY <1>2, <1>3, <2>1
<1>12. CASE out(a) /\ out(b) /\ in(c)
  <2>1. t.flips = c.flips /\ t.enables = c.enables
    BY <1>1, <1>2, <1>12
  <2> QED
    BY <1>2, <1>3, <2>1
<1>13. CASE out(a) /\ out(b) /\ out(c)
  <2>1. t.flips = {} /\ t.enables = {}
    BY <1>1, <1>2, <1>13
  <2> QED
    BY <1>2, <2>1 DEF Nothing
<1> HIDE DEF in, out
<1>14. (in(a) \/ out(a)) /\ (in(b) \/ out(b)) /\ (in(c) \/ out(c))
  BY <1>3
<1> QED
  BY <1>6, <1>7, <1>8, <1>9, <1>10, <1>11, <1>12, <1>13, <1>14

\* One single change is one change, two different ones are two.
LEMMA SinglesCounted ==
    ASSUME NEW a, IsSingle(a), NEW b, IsSingle(b)
    PROVE  /\ ChangeCount(a) = 1
           /\ a # b => ChangeCount(Merge(a, b)) = 2
           /\ a = b => Merge(a, b) = a
<1>1. /\ Cardinality({}) = 0
      /\ \A x : Cardinality({x}) = 1
      /\ \A x, y : x # y => Cardinality({x, y}) = 2
  <2>1. \A x, y : x # y => Cardinality({x, y}) = 2
    <3> SUFFICES ASSUME NEW x, NEW y, x # y PROVE Cardinality({x, y}) = 2
      OBVIOUS
    <3>1. IsFiniteSet({x}) /\ Cardinality({x}) = 1 /\ y \notin {x}
      BY FS_Singleton
    <3>2. Cardinality({x} \cup {y}) = Cardinality({x}) + 1
      BY <3>1, FS_AddElement
    <3>3. {x, y} = {x} \cup {y}
      OBVIOUS
    <3> QED
      BY <3>1, <3>2, <3>3
  <2> QED
    BY <2>1, FS_EmptySet, FS_Singleton
<1>2. /\ \A x : Flip(x).flips = {x} /\ Flip(x).enables = {}
      /\ \A x : Enable(x).flips = {} /\ Enable(x).enables = {x}
  BY DEF Flip, Enable
<1>3. /\ Merge(a, b).flips = a.flips \cup b.flips
      /\ Merge(a, b).enables = a.enables \cup b.enables
  BY DEF Merge
<1>4. \/ \E x : a = Flip(x)
      \/ \E x : a = Enable(x)
  BY DEF IsSingle
<1>5. \/ \E x : b = Flip(x)
      \/ \E x : b = Enable(x)
  BY DEF IsSingle
<1>6. ChangeCount(a) = 1
  <2>1. ASSUME NEW x, a = Flip(x) PROVE ChangeCount(a) = 1
    <3>1. a.flips = {x} /\ a.enables = {}
      BY <1>2, <2>1
    <3>2. Cardinality(a.flips) = 1 /\ Cardinality(a.enables) = 0
      BY <1>1, <3>1
    <3> QED
      BY <3>2 DEF ChangeCount
  <2>2. ASSUME NEW x, a = Enable(x) PROVE ChangeCount(a) = 1
    <3>1. a.flips = {} /\ a.enables = {x}
      BY <1>2, <2>2
    <3>2. Cardinality(a.flips) = 0 /\ Cardinality(a.enables) = 1
      BY <1>1, <3>1
    <3> QED
      BY <3>2 DEF ChangeCount
  <2> QED
    BY <1>4, <2>1, <2>2
<1>7. ASSUME a # b PROVE ChangeCount(Merge(a, b)) = 2
  <2>1. ASSUME NEW x, NEW y, a = Flip(x), b = Flip(y) PROVE ChangeCount(Merge(a, b)) = 2
    <3>1. Merge(a, b).flips = {x, y} /\ Merge(a, b).enables = {} /\ x # y
      BY <1>2, <1>3, <1>7, <2>1
    <3>2. /\ Cardinality(Merge(a, b).flips) = 2
          /\ Cardinality(Merge(a, b).enables) = 0
      <4>1. Cardinality({x, y}) = 2
        BY <1>1, <3>1
      <4> QED
        BY <1>1, <3>1, <4>1
    <3> QED
      BY <3>2 DEF ChangeCount
  <2>2. ASSUME NEW x, NEW y, a = Flip(x), b = Enable(y) PROVE ChangeCount(Merge(a, b)) = 2
    <3>1. Merge(a, b).flips = {x} /\ Merge(a, b).enables = {y}
      BY <1>2, <1>3, <2>2
    <3>2. /\ Cardinality(Merge(a, b).flips) = 1
          /\ Cardinality(Merge(a, b).enables) = 1
      BY <1>1, <3>1
    <3> QED
      BY <3>2 DEF ChangeCount
  <2>3. ASSUME NEW x, NEW y, a = Enable(x), b = Flip(y) PROVE ChangeCount(Merge(a, b)) = 2
    <3>1. Merge(a, b).flips = {y} /\ Merge(a, b).enables = {x}
      BY <1>2, <1>3, <2>3
    <3>2. /\ Cardinality(Merge(a, b).flips) = 1
          /\ Cardinality(Merge(a, b).enables) = 1
      BY <1>1, <3>1
    <3> QED
      BY <3>2 DEF ChangeCount
  <2>4. ASSUME NEW x, NEW y, a = Enable(x), b = Enable(y) PROVE ChangeCount(Merge(a, b)) = 2
    <3>1. Merge(a, b).flips = {} /\ Merge(a, b).enables = {x, y} /\ x # y
      BY <1>2, <1>3, <1>7, <2>4
    <3>2. /\ Cardinality(Merge(a, b).flips) = 0
          /\ Cardinality(Merge(a, b).enables) = 2
      BY <1>1, <3>1
    <3> QED
      BY <3>2 DEF ChangeCount
  <2> QED
    BY <1>4, <1>5, <2>1, <2>2, <2>3, <2>4
<1>8. a = b => Merge(a, b) = a
  BY DEF Merge, IsSingle, Flip, Enable
<1> QED
  BY <1>6, <1>7, <1>8

\* If no set of k candidates helps, the factor stays out with each of them.
LEMMA UntestedLeft ==
    ASSUME NEW singles, NEW k, NEW d, NEW f, NEW using, NEW p,
           Helping(singles, k, d, f, using, p) = {},
           NEW t \in Combinations(singles, k), ChangeCount(t) = k
    PROVE  f \notin Eligible(Changed(d, using, t, p))
<1>1. PICK sets : sets = {s \in Combinations(singles, k) : ChangeCount(s) = k}
  OBVIOUS
<1>2. t \in sets
  BY <1>1
<1>3. PICK test : test = [set |-> t, status |-> Classify(d, f, using, t, p)]
  OBVIOUS
<1>4. test \in Tested(d, f, using, sets, p)
  BY <1>2, <1>3 DEF Tested
<1>5. Helping(singles, k, d, f, using, p)
         = {x \in Tested(d, f, using, sets, p) : x.status # "NONE"}
  BY <1>1 DEF Helping
<1>6. Classify(d, f, using, t, p) = "NONE"
  BY <1>3, <1>4, <1>5
<1>7. PICK o : o = Changed(d, using, t, p)
  OBVIOUS
<1>8. StatusOf(f, o) = "NONE"
  BY <1>6, <1>7 DEF Classify
<1>9. f \notin Eligible(o)
  BY <1>8 DEF StatusOf
<1> QED
  BY <1>7, <1>9

\* A factor is eligible if it passes the three gates.
LEMMA EligibleMeans ==
    ASSUME NEW p, NEW d, Evaluated(d, p), NEW f \in FactorIds
    PROVE  f \in Eligible(d.outcome)
              <=> /\ FailedTrust(f, d.outcome.trust, p) = {}
                  /\ MissingCapabilities(f, d.using, p) = {}
                  /\ AssuranceMet(f, d.outcome.risk, p)
<1>1. PICK trust : trust = d.outcome.trust
  OBVIOUS
<1>2. PICK risk : risk = d.outcome.risk
  OBVIOUS
<1>3. d.outcome.factors[f] = EvaluateFactor(f, trust, d.using, risk, p)
  BY <1>1, <1>2, EvaluatedParts
<1>4. PICK domains : domains = FailedTrust(f, trust, p)
  OBVIOUS
<1>5. PICK missing : missing = MissingCapabilities(f, d.using, p)
  OBVIOUS
<1>6. d.outcome.factors[f].status = "ELIGIBLE"
         <=> domains = {} /\ missing = {} /\ AssuranceMet(f, risk, p)
  BY <1>3, <1>4, <1>5 DEF EvaluateFactor
<1> QED
  BY <1>1, <1>2, <1>4, <1>5, <1>6 DEF Eligible

\* With no evidence changed, and today's capabilities, the requirements on trust
\* and assurance are met as they were.
LEMMA NothingChanged ==
    ASSUME NEW d, NEW p, Evaluated(d, p), NEW using, NEW f \in FactorIds,
           NEW s, s.flips = {}, NEW on, on = using \cup s.enables
    PROVE  f \in Eligible(Changed(d, using, s, p))
              <=> /\ FailedTrust(f, d.outcome.trust, p) = {}
                  /\ MissingCapabilities(f, on, p) = {}
                  /\ AssuranceMet(f, d.outcome.risk, p)
<1>1. EvidenceChanges(s) = <<>>
  BY ChangesAreListed
<1>2. on = using \cup s.enables
  OBVIOUS
<1>3. PICK o : o = EvaluateDecision(d.evidence, on, p)
  OBVIOUS
<1>4. Changed(d, using, s, p) = o
  BY <1>1, <1>2, <1>3, NothingOverridden DEF Changed
<1>5. PICK e : e = [evidence |-> d.evidence, using |-> on, outcome |-> o]
  OBVIOUS
<1>6. /\ Evaluated(e, p)
      /\ e.evidence = d.evidence /\ e.using = on /\ e.outcome = o
  BY <1>3, <1>5 DEF Evaluated
<1>7. PICK support : support = d.outcome.support
  OBVIOUS
<1>8. PICK trust : trust = d.outcome.trust
  OBVIOUS
<1>9. o.risk = d.outcome.risk /\ o.trust = trust
  BY <1>3, <1>8 DEF Evaluated, EvaluateDecision, Outcome
<1>10. f \in Eligible(e.outcome)
          <=> /\ FailedTrust(f, e.outcome.trust, p) = {}
              /\ MissingCapabilities(f, e.using, p) = {}
              /\ AssuranceMet(f, e.outcome.risk, p)
  BY <1>6, EligibleMeans
<1> QED
  BY <1>2, <1>4, <1>6, <1>8, <1>9, <1>10

\* A part of a recommended set that is neither nothing nor all of it has been
\* tested before, or nothing of its size has helped: the factor stays out.
LEMMA SmallerLeft ==
    ASSUME NEW p \in Policies, NEW d, Evaluated(d, p), d.evidence \in SoundEvidence,
           NEW f, NEW using, NEW s, s \in VerifyFactorRemediation(d, f, using, p).sets,
           NEW t \in [flips: SUBSET s.flips, enables: SUBSET s.enables], t # s, t # Nothing
    PROVE  f \notin Eligible(Changed(d, using, t, p))
<1>1. PICK singles : singles = Candidates(d, f, p)
  OBVIOUS
<1>2. PICK n \in {1, 2, 3} :
         /\ s \in Combinations(singles, n)
         /\ \A k \in {1, 2} : k < n => Helping(singles, k, d, f, using, p) = {}
  BY <1>1, ClaimedSets
<1>3. \A a \in singles : IsSingle(a)
  BY <1>1, SinglesOfCandidates
<1>4. PICK a \in singles, b \in singles, c \in singles :
         /\ s = Merge(Merge(a, b), c)
         /\ n = 1 => s = a /\ b = a /\ c = a
         /\ n = 2 => s = Merge(a, b) /\ c = b
  <2>1. \A x \in singles, y \in singles :
           x = Merge(Merge(x, x), x) /\ Merge(x, y) = Merge(Merge(x, y), y)
    BY <1>3 DEF Merge, IsSingle, Flip, Enable
  <2>2. CASE n = 1
    BY <1>2, <2>1, <2>2 DEF Combinations
  <2>3. CASE n = 2
    <3>1. PICK x \in singles, y \in singles : s = Merge(x, y)
      BY <1>2, <2>3 DEF Combinations
    <3> QED
      BY <2>1, <2>3, <3>1
  <2>4. CASE n = 3
    BY <1>2, <2>4 DEF Combinations
  <2> QED
    BY <2>2, <2>3, <2>4
<1>5. IsSingle(a) /\ IsSingle(b) /\ IsSingle(c)
  BY <1>3
<1>6. t \in {a, b, c, Merge(a, b), Merge(a, c), Merge(b, c)}
  BY <1>4, <1>5, PartOfThree
<1>7. ASSUME t \in {a, b, c} PROVE f \notin Eligible(Changed(d, using, t, p))
  <2>1. n # 1
    BY <1>4, <1>7
  <2>2. t \in Combinations(singles, 1) /\ ChangeCount(t) = 1
    BY <1>5, <1>7, SinglesCounted DEF Combinations
  <2>3. Helping(singles, 1, d, f, using, p) = {}
    BY <1>2, <2>1
  <2> QED
    BY <2>2, <2>3, UntestedLeft
<1>8. ASSUME NEW x \in {a, b, c}, NEW y \in {a, b, c}, t = Merge(x, y), t \notin {a, b, c}
      PROVE  f \notin Eligible(Changed(d, using, t, p))
  <2>1. x # y /\ ChangeCount(t) = 2
    BY <1>5, <1>8, SinglesCounted
  <2>2. t \in Combinations(singles, 2)
    BY <1>8 DEF Combinations
  <2>3. n = 3
    <3>1. Merge(a, b) = Merge(b, a)
      BY DEF Merge
    <3> QED
      BY <1>2, <1>4, <1>8, <2>1, <3>1
  <2>4. Helping(singles, 2, d, f, using, p) = {}
    BY <1>2, <2>3
  <2> QED
    BY <2>1, <2>2, <2>4, UntestedLeft
<1> QED
  BY <1>6, <1>7, <1>8

\* What a recommended set is, and what it does.
SurplusOf(s, d, using) ==
    s.flips = {} /\ s.enables # {} /\ s.enables \subseteq using \ d.using

\* If today's capabilities are enough, the requirements that failed are missing
\* capabilities, every candidate enables one of them, and each does alone.
LEMMA NothingWouldDo ==
    ASSUME NEW p \in Policies, NEW d, Evaluated(d, p), d.evidence \in SoundEvidence,
           NEW f \in FactorIds, NEW using, NEW s,
           s \in VerifyFactorRemediation(d, f, using, p).sets,
           f \in Eligible(Changed(d, using, Nothing, p))
    PROVE  SurplusOf(s, d, using)
<1>1. PICK trust : trust = d.outcome.trust
  OBVIOUS
<1>2. PICK missing : missing = MissingCapabilities(f, d.using, p)
  OBVIOUS
<1>3. Nothing.flips = {} /\ using \cup Nothing.enables = using
  BY DEF Nothing
<1>4. /\ FailedTrust(f, trust, p) = {}
      /\ MissingCapabilities(f, using, p) = {}
      /\ AssuranceMet(f, d.outcome.risk, p)
  <2>1. f \in Eligible(Changed(d, using, Nothing, p))
          <=> /\ FailedTrust(f, d.outcome.trust, p) = {}
              /\ MissingCapabilities(f, using, p) = {}
              /\ AssuranceMet(f, d.outcome.risk, p)
    BY <1>3, NothingChanged
  <2> QED
    BY <1>1, <2>1
<1>5. f \notin Eligible(d.outcome)
  BY ClaimedSets
<1>6. missing # {}
  BY <1>1, <1>2, <1>4, <1>5, EligibleMeans
<1>7. /\ d.outcome.factors[f].missing = missing
      /\ d.outcome.factors[f].domains = {}
  <2>1. d.outcome.factors[f] = EvaluateFactor(f, trust, d.using, d.outcome.risk, p)
    BY <1>1, EvaluatedParts
  <2> QED
    BY <1>2, <1>4, <1>6, <2>1 DEF EvaluateFactor
<1>8. missing \subseteq using \ d.using
  BY <1>2, <1>4 DEF MissingCapabilities
<1>9. PICK singles : singles = Candidates(d, f, p)
  OBVIOUS
<1>10. singles = {Enable(c) : c \in missing}
  BY <1>7, <1>9 DEF Candidates
<1>11. \A c : Enable(c).flips = {} /\ Enable(c).enables = {c}
  BY DEF Enable
<1>12. PICK c \in missing : TRUE
  BY <1>6
<1>13. PICK one : one = Enable(c)
  OBVIOUS
<1>14. one.flips = {} /\ using \cup one.enables = using
  BY <1>8, <1>11, <1>12, <1>13
<1>15. f \in Eligible(Changed(d, using, one, p))
  BY <1>1, <1>4, <1>14, NothingChanged
<1>16. one \in Combinations(singles, 1) /\ ChangeCount(one) = 1
  <2>1. IsSingle(one)
    BY <1>13 DEF IsSingle
  <2> QED
    BY <1>10, <1>12, <1>13, <2>1, SinglesCounted DEF Combinations
<1>17. Helping(singles, 1, d, f, using, p) # {}
  BY <1>15, <1>16, UntestedLeft
<1>18. s \in singles
  <2>1. PICK n \in {1, 2, 3} :
           /\ s \in Combinations(singles, n)
           /\ \A k \in {1, 2} : k < n => Helping(singles, k, d, f, using, p) = {}
    BY <1>9, ClaimedSets
  <2>2. n = 1
    BY <1>17, <2>1
  <2> QED
    BY <2>1, <2>2 DEF Combinations
<1>19. PICK x \in missing : s = Enable(x)
  BY <1>10, <1>18
<1> QED
  BY <1>8, <1>11, <1>19 DEF SurplusOf

\* A recommended set has a part that would do just if all it enables is on by
\* now, though it was missing from the decision: remediation goes from single
\* changes to pairs and triples and stops at the first that help, but does not
\* try what happens if nothing is changed.
THEOREM RemediationsMinimal == Spec => []MinimalUnlessEnabledSince
<1>1. ClaimsInv => MinimalUnlessEnabledSince
  <2> SUFFICES ASSUME ClaimsInv, NEW m \in remediations, NEW s \in m.sets,
                      NEW d, d = decisions[m.decision]
               PROVE  SurplusOf(s, d, m.using)
                        <=> \E t \in [flips: SUBSET s.flips, enables: SUBSET s.enables] \ {s} :
                               m.factor \in Eligible(Changed(d, m.using, t, PolicyOf(d.version)))
    BY DEF MinimalUnlessEnabledSince, SurplusOf
  <2>1. PICK p : p = PolicyOf(d.version)
    OBVIOUS
  <2>2. PICK f : f = m.factor
    OBVIOUS
  <2>3. PICK using : using = m.using
    OBVIOUS
  <2>4. /\ p \in Policies /\ Evaluated(d, p) /\ d.evidence \in SoundEvidence
        /\ f \in FactorIds /\ s \in VerifyFactorRemediation(d, f, using, p).sets
    <3>1. m.decision \in DecisionIds /\ d # NoRow /\ f \in FactorIds
      BY <2>2 DEF ClaimsInv, ClaimsSound, ClaimSound
    <3>2. s \in VerifyFactorRemediation(d, f, using, p).sets
      BY <2>1, <2>2, <2>3 DEF ClaimsInv, ClaimsSound, ClaimSound, Claim
    <3> QED
      BY <2>1, <3>1, <3>2, BundleOfVersion
         DEF ClaimsInv, EvidenceKept, Inv, DecisionsSound
  <2>5. ASSUME NEW t \in [flips: SUBSET s.flips, enables: SUBSET s.enables], t # s,
               f \in Eligible(Changed(d, using, t, p))
        PROVE  SurplusOf(s, d, using)
    <3>1. t = Nothing
      BY <2>4, <2>5, SmallerLeft
    <3> QED
      BY <2>4, <2>5, <3>1, NothingWouldDo
  <2>6. ASSUME SurplusOf(s, d, using)
        PROVE  /\ Nothing \in [flips: SUBSET s.flips, enables: SUBSET s.enables] \ {s}
               /\ f \in Eligible(Changed(d, using, Nothing, p))
    <3>1. Nothing \in [flips: SUBSET s.flips, enables: SUBSET s.enables] /\ Nothing # s
      BY <2>6 DEF Nothing, SurplusOf
    <3>2. f \in Eligible(Changed(d, using, s, p))
      <4>1. Classify(d, f, using, s, p) \in {"VERIFIED_SELECTED", "VERIFIED_ELIGIBLE"}
        BY <2>4, ClaimedSets
      <4>2. PICK o : o = Changed(d, using, s, p)
        OBVIOUS
      <4>3. StatusOf(f, o) \in {"VERIFIED_SELECTED", "VERIFIED_ELIGIBLE"}
        BY <4>1, <4>2 DEF Classify
      <4>4. PICK e : \E evidence, on : /\ e = [evidence |-> evidence, using |-> on, outcome |-> o]
                                      /\ o = EvaluateDecision(evidence, on, p)
        BY <4>2 DEF Changed
      <4>5. Evaluated(e, p) /\ e.outcome = o
        BY <4>4 DEF Evaluated
      <4>6. o.selected \in Eligible(o) \cup {NoFactor}
        BY <2>4, <4>5, SelectionIsBest
      <4> QED
        BY <2>4, <4>2, <4>3, <4>6, StatusMeans
    <3>3. /\ s.flips = {} /\ Nothing.flips = {}
          /\ using \cup s.enables = using /\ using \cup Nothing.enables = using
      BY <2>6 DEF SurplusOf, Nothing
    <3>4. EvidenceChanges(s) = <<>> /\ EvidenceChanges(Nothing) = <<>>
      BY <3>3, ChangesAreListed
    <3>5. Changed(d, using, s, p) = Changed(d, using, Nothing, p)
      BY <3>3, <3>4 DEF Changed
    <3> QED
      BY <3>1, <3>2, <3>5
  <2> QED
    BY <2>1, <2>2, <2>3, <2>5, <2>6
<1> QED
  BY <1>1, ClaimsInvariance, PTL

-----------------------------------------------------------------------------
(* What a diff compares, and what each section is derived from.             *)

LEMMA SectionsCompare ==
    ASSUME NEW d, NEW p, NEW e, NEW q,
           NEW threats, threats = ThreatAssessments(d, p),
           NEW others, others = ThreatAssessments(e, q),
           NEW trust, trust = TrustAssessments(d, threats, p),
           NEW trusts, trusts = TrustAssessments(e, others, q)
    PROVE  /\ "POLICY" \in DiffSections(d, p, e, q) <=> p # q
           /\ "INPUT" \in DiffSections(d, p, e, q)
                 <=> InputKeys(d.evidence) # InputKeys(e.evidence)
           /\ "THREAT" \in DiffSections(d, p, e, q) <=> threats # others
           /\ "TRUST" \in DiffSections(d, p, e, q) <=> trust # trusts
           /\ "FACTOR" \in DiffSections(d, p, e, q)
                 <=> FactorKeys(d, trust, p) # FactorKeys(e, trusts, q)
           /\ "RULE" \in DiffSections(d, p, e, q)
                 <=> BuildTrace(d, threats, trust) # BuildTrace(e, others, trusts)
           /\ "SELECTION" \in DiffSections(d, p, e, q)
                 <=> SelectionKey(d, p) # SelectionKey(e, q)
<1>1. PICK before : before = Keys(d, p)
  OBVIOUS
<1>2. PICK after : after = Keys(e, q)
  OBVIOUS
<1>3. before = [POLICY |-> p, INPUT |-> InputKeys(d.evidence), THREAT |-> threats,
                TRUST |-> trust, FACTOR |-> FactorKeys(d, trust, p),
                RULE |-> BuildTrace(d, threats, trust), SELECTION |-> SelectionKey(d, p)]
  BY <1>1 DEF Keys
<1>4. after = [POLICY |-> q, INPUT |-> InputKeys(e.evidence), THREAT |-> others,
               TRUST |-> trusts, FACTOR |-> FactorKeys(e, trusts, q),
               RULE |-> BuildTrace(e, others, trusts), SELECTION |-> SelectionKey(e, q)]
  BY <1>2 DEF Keys
<1>5. DiffSections(d, p, e, q) = {s \in DOMAIN before : before[s] # after[s]}
  BY <1>1, <1>2 DEF DiffSections
<1> QED
  BY <1>3, <1>4, <1>5

\* What the diff sees of evidence: its items without their windows.
SameInputs(a, b) ==
    /\ DOMAIN a = DOMAIN b
    /\ \A i \in DOMAIN a : /\ a[i].type = b[i].type /\ a[i].value = b[i].value
                           /\ a[i].status = b[i].status

LEMMA InputsRead ==
    ASSUME NEW a, NEW b, InputKeys(a) = InputKeys(b)
    PROVE  SameInputs(a, b)
<1>1. ASSUME NEW x, NEW y, InputKeys(x) = InputKeys(y), NEW i \in DOMAIN x
      PROVE  /\ i \in DOMAIN y
             /\ x[i].type = y[i].type /\ x[i].value = y[i].value /\ x[i].status = y[i].status
  <2>1. <<i, x[i].type, x[i].value, x[i].status>> \in InputKeys(y)
    BY <1>1 DEF InputKeys
  <2>2. PICK j \in DOMAIN y : <<i, x[i].type, x[i].value, x[i].status>>
                                = <<j, y[j].type, y[j].value, y[j].status>>
    BY <2>1 DEF InputKeys
  <2> QED
    BY <2>2
<1> QED
  BY <1>1 DEF SameInputs

LEMMA InputsDecide ==
    ASSUME NEW a, NEW b, SameInputs(a, b)
    PROVE  /\ \A t : FreshIds(t, a) = FreshIds(t, b)
           /\ \A t : Holds(t, a) <=> Holds(t, b)
           /\ \A t : HoldsFresh(t, a) <=> HoldsFresh(t, b)
           /\ NormalizationEvents(a) = NormalizationEvents(b)
<1>1. \A t : FreshIds(t, a) = FreshIds(t, b)
  BY DEF SameInputs, FreshIds
<1>2. \A t : Holds(t, a) <=> Holds(t, b)
  BY DEF SameInputs, Holds
<1>3. \A t : HoldsFresh(t, a) <=> HoldsFresh(t, b)
  BY DEF SameInputs, HoldsFresh, FreshIds
<1>4. NormalizationEvents(a) = NormalizationEvents(b)
  BY DEF SameInputs, NormalizationEvents
<1> QED
  BY <1>1, <1>2, <1>3, <1>4

\* INPUT and POLICY decide THREAT.
LEMMA ThreatsFromInputs ==
    ASSUME NEW p, NEW d, Evaluated(d, p), NEW e, Evaluated(e, p),
           SameInputs(d.evidence, e.evidence)
    PROVE  ThreatAssessments(d, p) = ThreatAssessments(e, p)
<1>1. \A t, k : FreshRules(t, k, d.evidence, p) = FreshRules(t, k, e.evidence, p)
  BY InputsDecide DEF FreshRules
<1>2. \A t, k : CitedAs(k, t, d.evidence, p) = CitedAs(k, t, e.evidence, p)
  BY <1>1, InputsDecide DEF CitedAs
<1>3. \A t : Activated(t, d.evidence, p) = Activated(t, e.evidence, p)
  BY <1>1, InputsDecide DEF Activated
<1>4. \A t : AssessThreat(t, d.evidence, p) = AssessThreat(t, e.evidence, p)
  BY <1>1, InputsDecide DEF AssessThreat
<1>5. \A t \in Threats : d.outcome.support[t] = e.outcome.support[t]
  BY <1>4, EvaluatedParts
<1> QED
  BY <1>2, <1>3, <1>5 DEF ThreatAssessments

\* THREAT and POLICY decide TRUST: there is always some evidence.
LEMMA TrustFromThreats ==
    ASSUME NEW p \in Policies, NEW d, Evaluated(d, p), NEW e, Evaluated(e, p),
           d.evidence \in SoundEvidence, e.evidence \in SoundEvidence,
           NEW threats, threats = ThreatAssessments(d, p), threats = ThreatAssessments(e, p)
    PROVE  TrustAssessments(d, threats, p) = TrustAssessments(e, threats, p)
<1>1. \A t \in Threats : d.outcome.support[t] = e.outcome.support[t]
  <2> SUFFICES ASSUME NEW t \in Threats PROVE d.outcome.support[t] = e.outcome.support[t]
    OBVIOUS
  <2>1. \A x \in threats : x.support = e.outcome.support[x.threat]
    BY DEF ThreatAssessments
  <2>2. PICK x : x = [threat |-> t, support |-> d.outcome.support[t],
                      supporting |-> CitedAs("SUPPORTING", t, d.evidence, p),
                      conflicting |-> CitedAs("CONFLICTING", t, d.evidence, p),
                      rules |-> Activated(t, d.evidence, p)]
    OBVIOUS
  <2>3. x \in threats
    BY <2>2 DEF ThreatAssessments
  <2>4. x.threat = t /\ x.support = d.outcome.support[t]
    BY <2>2
  <2> QED
    BY <2>1, <2>3, <2>4
<1>2. \A x : Applied(x, d.outcome.support, p) = Applied(x, e.outcome.support, p)
  BY <1>1, RulesOfBundles DEF Applied
<1>3. DOMAIN d.evidence # {} /\ DOMAIN e.evidence # {}
  BY SomeEvidence
<1>4. \A x : TrustState(x, d.outcome.support, d.evidence, p)
                = TrustState(x, e.outcome.support, e.evidence, p)
  BY <1>2, <1>3 DEF TrustState
<1>5. \A x \in TrustDomains : d.outcome.trust[x] = e.outcome.trust[x]
  BY <1>4, EvaluatedParts
<1> QED
  BY <1>2, <1>5 DEF TrustAssessments

\* TRUST, POLICY, the risk and the capabilities decide FACTOR.
LEMMA FactorsFromTrust ==
    ASSUME NEW p \in Policies, NEW d, Evaluated(d, p), NEW e, Evaluated(e, p),
           d.outcome.risk = e.outcome.risk, d.using = e.using,
           NEW threats, NEW others, NEW trust,
           trust = TrustAssessments(d, threats, p), trust = TrustAssessments(e, others, p)
    PROVE  FactorKeys(d, trust, p) = FactorKeys(e, trust, p)
<1>1. \A x \in TrustDomains : d.outcome.trust[x] = e.outcome.trust[x]
  <2> SUFFICES ASSUME NEW x \in TrustDomains PROVE d.outcome.trust[x] = e.outcome.trust[x]
    OBVIOUS
  <2>1. \A y, rules, state, t : /\ TrustAssessment(y, rules, state, t).domain = y
                                /\ TrustAssessment(y, rules, state, t).state = state
    BY DEF TrustAssessment
  <2>2. \A a \in trust : a.state = e.outcome.trust[a.domain]
    BY <2>1 DEF TrustAssessments
  <2>3. PICK a : a = TrustAssessment(x, Applied(x, d.outcome.support, p),
                                     d.outcome.trust[x], threats)
    OBVIOUS
  <2>4. a \in trust
    BY <2>3 DEF TrustAssessments
  <2>5. a.domain = x /\ a.state = d.outcome.trust[x]
    BY <2>1, <2>3
  <2> QED
    BY <2>2, <2>4, <2>5
<1>2. \A f \in FactorIds : \A x \in FactorDefinitions[f].trust : x.domain \in TrustDomains
  BY DEF FactorIds, FactorDefinitions, Requires, TrustDomains
<1>3. \A f \in FactorIds : d.outcome.factors[f] = e.outcome.factors[f]
  BY <1>1, <1>2, EvaluatedParts, FactorByRequirements
<1> QED
  BY <1>3 DEF FactorKeys

\* INPUT decides the risk, under either bundle.
LEMMA RiskFromInputs ==
    ASSUME NEW p \in Policies, NEW d, Evaluated(d, p),
           NEW q \in Policies, NEW e, Evaluated(e, q),
           SameInputs(d.evidence, e.evidence)
    PROVE  d.outcome.risk = e.outcome.risk
<1>1. AssessRisk(d.evidence, p) = AssessRisk(e.evidence, p)
  BY InputsDecide DEF AssessRisk
<1> QED
  BY <1>1, SameAssessments, EvaluatedParts

\* What a factor's key tells of its evaluation.
FailedPairs(of, required, trust) ==
    {q \in required \X trust : q[1].domain = q[2].domain /\ q[2].domain \in of.domains}

LEMMA KeyOfFactor ==
    ASSUME NEW d, NEW trust, NEW p, NEW f \in FactorIds,
           NEW key, key = FactorKeys(d, trust, p)[f], NEW of, of = d.outcome.factors[f]
    PROVE  /\ key.status = of.status /\ key.missing = of.missing
           /\ key.trust = FailedPairs(of, p.factors[f].trust, trust)
BY DEF FactorKeys, FailedPairs

LEMMA KeyOfAssurance ==
    ASSUME NEW d, NEW trust, NEW p, NEW f \in FactorIds,
           NEW key, key = FactorKeys(d, trust, p)[f], NEW of, of = d.outcome.factors[f]
    PROVE  key.assurance # {} <=> FailedAssurance(of)
<1>1. key = [status |-> of.status, friction |-> p.factors[f].friction,
             satisfied |-> AssuranceMet(f, d.outcome.risk, p),
             trust |-> {q \in p.factors[f].trust \X trust :
                          q[1].domain = q[2].domain /\ q[2].domain \in of.domains},
             missing |-> of.missing,
             assurance |-> IF FailedAssurance(of)
                           THEN {<<p.factors[f].assurance, p.required[d.outcome.risk]>>}
                           ELSE {}]
  BY DEF FactorKeys
<1>2. key.assurance = IF FailedAssurance(of)
                      THEN {<<p.factors[f].assurance, p.required[d.outcome.risk]>>} ELSE {}
  BY <1>1
<1> QED
  BY <1>2

\* FACTOR decides the selection, as both bundles rank factors alike.
LEMMA SelectionFromFactors ==
    ASSUME NEW p \in Policies, NEW d, Evaluated(d, p), NEW trust,
           NEW q \in Policies, NEW e, Evaluated(e, q), NEW trusts,
           FactorKeys(d, trust, p) = FactorKeys(e, trusts, q)
    PROVE  d.outcome.selected = e.outcome.selected
<1>1. PICK before : before = d.outcome.factors
  OBVIOUS
<1>2. PICK after : after = e.outcome.factors
  OBVIOUS
<1>3. ASSUME NEW f \in FactorIds PROVE before[f].status = after[f].status
  <2>1. PICK key : key = FactorKeys(d, trust, p)[f]
    OBVIOUS
  <2>2. key.status = before[f].status
    BY <1>1, <2>1, KeyOfFactor
  <2>3. key.status = after[f].status
    BY <1>2, <2>1, KeyOfFactor
  <2> QED
    BY <2>2, <2>3
<1>4. /\ DOMAIN before = FactorIds /\ DOMAIN after = FactorIds
      /\ d.outcome.selected = SelectFactor(before, p)
      /\ e.outcome.selected = SelectFactor(after, q)
  BY <1>1, <1>2, EvaluatedParts
<1>5. PICK eligible : eligible = {f \in FactorIds : before[f].status = "ELIGIBLE"}
  OBVIOUS
<1>6. eligible = {f \in FactorIds : after[f].status = "ELIGIBLE"}
  BY <1>3, <1>5
<1>7. \A f, g : Before(f, g, p) <=> Before(f, g, q)
  <2>1. \A f : TieRank(f, p) = TieRank(f, q)
    BY BundleParts DEF TieRank
  <2> QED
    BY <2>1, BundleParts DEF Before
<1>8. (CHOOSE f \in eligible : \A g \in eligible \ {f} : Before(f, g, p))
        = (CHOOSE f \in eligible : \A g \in eligible \ {f} : Before(f, g, q))
  BY <1>7
<1>9. SelectFactor(before, p) =
         IF eligible = {} THEN NoFactor
         ELSE CHOOSE f \in eligible : \A g \in eligible \ {f} : Before(f, g, p)
  BY <1>4, <1>5 DEF SelectFactor
<1>10. SelectFactor(after, q) =
         IF eligible = {} THEN NoFactor
         ELSE CHOOSE f \in eligible : \A g \in eligible \ {f} : Before(f, g, q)
  BY <1>4, <1>6 DEF SelectFactor
<1> QED
  BY <1>4, <1>8, <1>9, <1>10

\* The domains a factor failed are among those it requires.
LEMMA DomainsRequired ==
    ASSUME NEW p, NEW d, Evaluated(d, p), NEW f \in FactorIds
    PROVE  \A x \in d.outcome.factors[f].domains : \E k \in p.factors[f].trust : k.domain = x
<1>1. PICK trust : trust = d.outcome.trust
  OBVIOUS
<1>2. PICK risk : risk = d.outcome.risk
  OBVIOUS
<1>3. PICK domains : domains = FailedTrust(f, trust, p)
  OBVIOUS
<1>4. d.outcome.factors[f] = EvaluateFactor(f, trust, d.using, risk, p)
  BY <1>1, <1>2, EvaluatedParts
<1>5. \A x \in domains : \E k \in p.factors[f].trust : k.domain = x
  BY <1>3 DEF FailedTrust
<1>6. d.outcome.factors[f].domains \subseteq domains
  BY <1>3, <1>4 DEF EvaluateFactor
<1> QED
  BY <1>5, <1>6

\* The sections other than RULE and POLICY decide the trace.
LEMMA TraceFromSections ==
    ASSUME NEW p \in Policies, NEW d, Evaluated(d, p),
           NEW q \in Policies, NEW e, Evaluated(e, q),
           SameInputs(d.evidence, e.evidence), NEW threats, NEW trust,
           FactorKeys(d, trust, p) = FactorKeys(e, trust, q),
           SelectionKey(d, p) = SelectionKey(e, q)
    PROVE  BuildTrace(d, threats, trust) = BuildTrace(e, threats, trust)
<1>1. NormalizationEvents(d.evidence) = NormalizationEvents(e.evidence)
  BY InputsDecide
<1>2. d.outcome.selected = e.outcome.selected
  BY SelectionFromFactors
<1>3. ASSUME NEW f \in FactorIds
      PROVE  EventsOf(f, d.outcome.factors[f], trust) = EventsOf(f, e.outcome.factors[f], trust)
  <2>1. PICK before : before = d.outcome.factors[f]
    OBVIOUS
  <2>2. PICK after : after = e.outcome.factors[f]
    OBVIOUS
  <2>3. PICK required : required = FactorDefinitions[f].trust
    OBVIOUS
  <2>4. p.factors[f].trust = required /\ q.factors[f].trust = required
    BY <2>3, BundleParts
  <2>5. /\ before.status = after.status /\ before.missing = after.missing
        /\ FailedPairs(before, required, trust) = FailedPairs(after, required, trust)
        /\ FailedAssurance(before) <=> FailedAssurance(after)
    <3>1. PICK key : key = FactorKeys(d, trust, p)[f]
      OBVIOUS
    <3>2. /\ key.status = before.status /\ key.missing = before.missing
          /\ key.trust = FailedPairs(before, required, trust)
          /\ key.assurance # {} <=> FailedAssurance(before)
      <4>1. key.trust = FailedPairs(before, p.factors[f].trust, trust)
        BY <2>1, <3>1, KeyOfFactor
      <4>2. key.status = before.status /\ key.missing = before.missing
        BY <2>1, <3>1, KeyOfFactor
      <4>3. key.assurance # {} <=> FailedAssurance(before)
        BY <2>1, <3>1, KeyOfAssurance
      <4> QED
        BY <2>4, <4>1, <4>2, <4>3
    <3>3. /\ key.status = after.status /\ key.missing = after.missing
          /\ key.trust = FailedPairs(after, required, trust)
          /\ key.assurance # {} <=> FailedAssurance(after)
      <4>0. key = FactorKeys(e, trust, q)[f]
        BY <3>1
      <4>1. key.trust = FailedPairs(after, q.factors[f].trust, trust)
        BY <2>2, <4>0, KeyOfFactor
      <4>2. key.status = after.status /\ key.missing = after.missing
        BY <2>2, <4>0, KeyOfFactor
      <4>3. key.assurance # {} <=> FailedAssurance(after)
        BY <2>2, <4>0, KeyOfAssurance
      <4> QED
        BY <2>4, <4>1, <4>2, <4>3
    <3> QED
      BY <3>2, <3>3
  <2>6. /\ \A x \in before.domains : \E k \in required : k.domain = x
        /\ \A x \in after.domains : \E k \in required : k.domain = x
    BY <2>1, <2>2, <2>4, DomainsRequired
  <2>7. \A a \in trust : a.domain \in before.domains <=> a.domain \in after.domains
    <3>1. ASSUME NEW a \in trust, a.domain \in before.domains PROVE a.domain \in after.domains
      <4>1. PICK k \in required : k.domain = a.domain
        BY <2>6, <3>1
      <4>2. <<k, a>> \in FailedPairs(before, required, trust)
        BY <3>1, <4>1 DEF FailedPairs
      <4>3. <<k, a>> \in FailedPairs(after, required, trust)
        BY <2>5, <4>2
      <4> QED
        BY <4>3 DEF FailedPairs
    <3>2. ASSUME NEW a \in trust, a.domain \in after.domains PROVE a.domain \in before.domains
      <4>1. PICK k \in required : k.domain = a.domain
        BY <2>6, <3>2
      <4>2. <<k, a>> \in FailedPairs(after, required, trust)
        BY <3>2, <4>1 DEF FailedPairs
      <4>3. <<k, a>> \in FailedPairs(before, required, trust)
        BY <2>5, <4>2
      <4> QED
        BY <4>3 DEF FailedPairs
    <3> QED
      BY <3>1, <3>2
  <2>8. {a \in trust : a.domain \in before.domains} = {a \in trust : a.domain \in after.domains}
    BY <2>7
  <2>9. EventsOf(f, before, trust) = EventsOf(f, after, trust)
    BY <2>5, <2>8 DEF EventsOf
  <2> QED
    BY <2>1, <2>2, <2>9
<1>4. FactorEvents(d.outcome.factors, trust) = FactorEvents(e.outcome.factors, trust)
  BY <1>3 DEF FactorEvents
<1> QED
  BY <1>1, <1>2, <1>4 DEF BuildTrace

\* A diff blames what was declared and what changed because of it: for all
\* evidence, forks, versions and times.
THEOREM DiffsFollowCauses == Spec => []DiffFollowsCauses
<1>1. ClaimsInv => DiffFollowsCauses
  <2> SUFFICES ASSUME ClaimsInv, NEW r \in Replays,
                      NEW source, source = decisions[r.source],
                      NEW produced, produced = decisions[r.produced],
                      NEW sections, sections = r.sections
               PROVE  /\ "INPUT" \in sections => r.mode = "FORK" /\ r.changes.evidence # <<>>
                      /\ "POLICY" \in sections <=> source.version # produced.version
                      /\ "THREAT" \in sections => "INPUT" \in sections \/ "POLICY" \in sections
                      /\ "TRUST" \in sections => "THREAT" \in sections \/ "POLICY" \in sections
                      /\ "FACTOR" \in sections =>
                            \/ "TRUST" \in sections \/ "POLICY" \in sections
                            \/ source.outcome.risk # produced.outcome.risk
                            \/ source.using # produced.using
                      /\ source.outcome.risk # produced.outcome.risk =>
                            "INPUT" \in sections \/ "POLICY" \in sections
                      /\ source.outcome.selected # produced.outcome.selected =>
                            "FACTOR" \in sections
                      /\ "RULE" \in sections => \E s \in sections : s \notin {"RULE", "POLICY"}
    BY DEF DiffFollowsCauses
  <2>1. PICK p : p = PolicyOf(source.version)
    OBVIOUS
  <2>2. PICK q : q = PolicyOf(produced.version)
    OBVIOUS
  <2>3. /\ p \in Policies /\ q \in Policies
        /\ Evaluated(source, p) /\ Evaluated(produced, q)
        /\ source.evidence \in SoundEvidence /\ produced.evidence \in SoundEvidence
        /\ sections = DiffSections(source, p, produced, q)
        /\ r.mode \in {"EXACT", "FORK"}
        /\ r.mode = "EXACT" => produced.evidence = source.evidence
    BY <2>1, <2>2, ReplayFacts, BundleOfVersion DEF Sections
  <2>4. p = q <=> source.version = produced.version
    BY <2>1, <2>2, ReplayFacts, BundleOfVersion
  <2>5. PICK threats : threats = ThreatAssessments(source, p)
    OBVIOUS
  <2>6. PICK others : others = ThreatAssessments(produced, q)
    OBVIOUS
  <2>7. PICK trust : trust = TrustAssessments(source, threats, p)
    OBVIOUS
  <2>8. PICK trusts : trusts = TrustAssessments(produced, others, q)
    OBVIOUS
  <2>9. /\ "POLICY" \in sections <=> p # q
        /\ "INPUT" \in sections <=> InputKeys(source.evidence) # InputKeys(produced.evidence)
        /\ "THREAT" \in sections <=> threats # others
        /\ "TRUST" \in sections <=> trust # trusts
        /\ "FACTOR" \in sections <=> FactorKeys(source, trust, p) # FactorKeys(produced, trusts, q)
        /\ "RULE" \in sections <=> BuildTrace(source, threats, trust)
                                     # BuildTrace(produced, others, trusts)
        /\ "SELECTION" \in sections <=> SelectionKey(source, p) # SelectionKey(produced, q)
    BY <2>3, <2>5, <2>6, <2>7, <2>8, SectionsCompare
  <2>10. "INPUT" \notin sections => SameInputs(source.evidence, produced.evidence)
    BY <2>9, InputsRead
  <2>11. "INPUT" \in sections => r.mode = "FORK" /\ r.changes.evidence # <<>>
    BY <2>3, <2>9, UnchangedEvidence
  <2>12. "THREAT" \in sections => "INPUT" \in sections \/ "POLICY" \in sections
    BY <2>3, <2>5, <2>6, <2>9, <2>10, ThreatsFromInputs
  <2>13. "TRUST" \in sections => "THREAT" \in sections \/ "POLICY" \in sections
    BY <2>3, <2>5, <2>6, <2>7, <2>8, <2>9, TrustFromThreats
  <2>14. ASSUME "TRUST" \notin sections, "POLICY" \notin sections,
                source.outcome.risk = produced.outcome.risk, source.using = produced.using
         PROVE  "FACTOR" \notin sections
    BY <2>3, <2>7, <2>8, <2>9, <2>14, FactorsFromTrust
  <2>15. "INPUT" \notin sections => source.outcome.risk = produced.outcome.risk
    BY <2>3, <2>10, RiskFromInputs
  <2>16. "FACTOR" \notin sections => source.outcome.selected = produced.outcome.selected
    BY <2>3, <2>9, SelectionFromFactors
  <2>17. ASSUME \A s \in sections : s \in {"RULE", "POLICY"} PROVE "RULE" \notin sections
    <3>1. /\ "INPUT" \notin sections /\ "THREAT" \notin sections /\ "TRUST" \notin sections
          /\ "FACTOR" \notin sections /\ "SELECTION" \notin sections
      BY <2>17
    <3> QED
      BY <2>3, <2>9, <2>10, <3>1, TraceFromSections
  <2> QED
    BY <2>4, <2>9, <2>11, <2>12, <2>13, <2>14, <2>15, <2>16, <2>17
<1> QED
  BY <1>1, ClaimsInvariance, PTL

-----------------------------------------------------------------------------
(* One alarm more.                                                          *)

LEMMA OneOverride ==
    ASSUME NEW base, NEW change, NEW now
    PROVE  ApplyEvidenceOverrides(base, <<change>>, now) = Override(base, change, now)
<1>1. PICK seq : seq = <<change>>
  OBVIOUS
<1>2. DOMAIN seq = 1..1 /\ seq[1] = change /\ 1 \in Nat
  BY <1>1
<1>3. PICK F : /\ IsFold(F, FALSE, base, seq, now)
               /\ ApplyEvidenceOverrides(base, seq, now) = F[DOMAIN seq]
  BY <1>2, OverridesFold
<1>4. Max(1..1) = 1
  <2>1. 0 \in Nat /\ 1..1 \in SUBSET (1..(0 + 1)) /\ 0 + 1 \in 1..1
    OBVIOUS
  <2>2. Max(1..1) = 0 + 1
    BY <2>1, LastOf
  <2> QED
    BY <2>2
<1>5. (1..1) \ {1} = {} /\ 1..1 # {}
  OBVIOUS
<1>6. F[{}] = base
  BY <1>3 DEF IsFold
<1>7. F[DOMAIN seq] = Step(FALSE, F[{}], change, now)
  BY <1>2, <1>3, <1>4, <1>5 DEF IsFold
<1> QED
  BY <1>1, <1>3, <1>6, <1>7 DEF Step

\* What b shows more than a is the alarm t, freshly unless it is a SIM change.
OneAlarmMore(a, b, t) ==
    /\ Holds(t, b)
    /\ t # "RECENT_SIM_CHANGE" => HoldsFresh(t, b)
    /\ \A x : x # t => /\ Holds(x, a) <=> Holds(x, b)
                       /\ HoldsFresh(x, a) <=> HoldsFresh(x, b)

LEMMA AlarmRaised ==
    ASSUME NEW a \in SoundEvidence, NEW t \in Alarms, NEW change, NEW now,
           change = [type |-> t, value |-> "true"], NEW b, b = Override(a, change, now)
    PROVE  OneAlarmMore(a, b, t)
<1>1. /\ change.type = t /\ change.value = "true" /\ t \in EvidenceTypes
      /\ change \in EvidenceOverrides
  BY DEF EvidenceOverrides, Values, EvidenceTypes, Alarms, Severe, Notable
<1>2. PICK i \in Nat, until \in Int, item \in SoundItems :
         /\ item = Item(change.type, change.value, until, now)
         /\ Overridden(a, change, i, item, b)
  BY <1>1, OverrideEffect
<1>3. item.type = t /\ item.value = "true"
  BY <1>1, <1>2 DEF Item
<1>4. t # "RECENT_SIM_CHANGE" => item.status = "ACTIVE"
  BY <1>3 DEF SoundItems, LastingOrSim
<1>5. Replaced(a, i, item, b)
  BY <1>2, OverriddenIsSound
<1>6. /\ i \in DOMAIN b /\ b[i] = item /\ DOMAIN b = DOMAIN a \cup {i}
      /\ \A j \in DOMAIN a \ {i} : b[j] = a[j]
  BY <1>5 DEF Replaced
<1>7. i \in DOMAIN a => a[i].type = t
  <2>1. a \in Seq(SoundItems)
    BY DEF SoundEvidence
  <2>2. Len(a) + 1 \notin DOMAIN a
    BY <2>1
  <2> QED
    BY <1>1, <1>2, <2>2 DEF Overridden
<1>8. Holds(t, b)
  BY <1>3, <1>6 DEF Holds
<1>9. t # "RECENT_SIM_CHANGE" => HoldsFresh(t, b)
  BY <1>3, <1>4, <1>6 DEF HoldsFresh, FreshIds
<1>10. ASSUME NEW x, x # t
       PROVE  /\ Holds(x, a) <=> Holds(x, b)
              /\ HoldsFresh(x, a) <=> HoldsFresh(x, b)
  <2>1. \A j : j \in DOMAIN a /\ a[j].type = x => j \in DOMAIN b /\ b[j] = a[j]
    BY <1>6, <1>7, <1>10
  <2>2. \A j : j \in DOMAIN b /\ b[j].type = x => j \in DOMAIN a /\ b[j] = a[j]
    BY <1>3, <1>6, <1>10
  <2>3. Holds(x, a) <=> Holds(x, b)
    BY <2>1, <2>2 DEF Holds
  <2>4. FreshIds(x, a) = FreshIds(x, b)
    BY <2>1, <2>2 DEF FreshIds
  <2>5. \A j \in FreshIds(x, a) : b[j] = a[j]
    BY <2>1 DEF FreshIds
  <2>6. HoldsFresh(x, a) <=> HoldsFresh(x, b)
    BY <2>4, <2>5 DEF HoldsFresh
  <2> QED
    BY <2>3, <2>6
<1> QED
  BY <1>8, <1>9, <1>10 DEF OneAlarmMore

\* The risk is high if a severe alarm holds, fresh or stale.
LEMMA HighRisk ==
    ASSUME NEW p \in Policies, NEW evidence
    PROVE  AssessRisk(evidence, p) = "HIGH" <=> \E t \in Severe : Holds(t, evidence)
<1>1. PICK matched : matched = {r.severity : r \in {q \in p.risk : Holds(q.type, evidence)}}
  OBVIOUS
<1>2. AssessRisk(evidence, p) = CASE "HIGH" \in matched -> "HIGH"
                                  [] matched = {"MEDIUM"} -> "MEDIUM"
                                  [] matched = {} -> "LOW"
  BY <1>1 DEF AssessRisk
<1>3. matched \subseteq {"HIGH", "MEDIUM"}
  BY <1>1, RulesOfBundles
<1>4. "HIGH" \in matched \/ matched = {"MEDIUM"} \/ matched = {}
  BY <1>3
<1>5. AssessRisk(evidence, p) = "HIGH" <=> "HIGH" \in matched
  BY <1>2, <1>4
<1>6. \A r \in p.risk : r.severity = "HIGH" => r.type \in Severe
  BY BundleParts DEF RiskRules, Severe, Notable
<1>7. \A t \in Severe : \E r \in p.risk : r.type = t /\ r.severity = "HIGH"
  <2> SUFFICES ASSUME NEW t \in Severe
               PROVE  \E r \in p.risk : r.type = t /\ r.severity = "HIGH"
    OBVIOUS
  <2>1. PICK r : r = [type |-> t, severity |-> "HIGH"]
    OBVIOUS
  <2>2. r \in p.risk
    BY <2>1, BundleParts DEF RiskRules
  <2> QED
    BY <2>1, <2>2
<1>8. "HIGH" \in matched <=> \E t \in Severe : Holds(t, evidence)
  BY <1>1, <1>6, <1>7
<1> QED
  BY <1>5, <1>8

\* What assurance a risk asks for.
LEMMA AssuranceAtRisk ==
    ASSUME NEW p \in Policies, NEW risk \in RiskLevels
    PROVE  /\ AssuranceMet("PASSKEY", risk, p) /\ AssuranceMet("TOTP", risk, p)
           /\ risk = "HIGH" <=> ~AssuranceMet("SMS_OTP", risk, p)
           /\ risk = "HIGH" <=> ~AssuranceMet("PIN", risk, p)
<1>1. AssuranceRank[RequiredAssurance[risk]] = IF risk = "HIGH" THEN 2 ELSE 1
  BY DEF AssuranceRank, RequiredAssurance, RiskLevels
<1>2. /\ AssuranceRank[FactorDefinitions["PASSKEY"].assurance] = 2
      /\ AssuranceRank[FactorDefinitions["TOTP"].assurance] = 2
      /\ AssuranceRank[FactorDefinitions["SMS_OTP"].assurance] = 1
      /\ AssuranceRank[FactorDefinitions["PIN"].assurance] = 1
  BY DEF AssuranceRank, FactorDefinitions
<1>3. p.factors = FactorDefinitions /\ p.required = RequiredAssurance
  BY BundleParts
<1> QED
  BY <1>1, <1>2, <1>3 DEF AssuranceMet

\* Under 1.0.0 no evidence takes the trust from PASSKEY and TOTP.
LEMMA StrongFactorsTrusted ==
    ASSUME NEW p, p = PolicyOf("1.0.0"), NEW d, Evaluated(d, p),
           d.evidence \in SoundEvidence, NEW f \in {"PASSKEY", "TOTP"}
    PROVE  FailedTrust(f, d.outcome.trust, p) = {}
<1>1. p.impacts = TrustImpactRules /\ p.factors = FactorDefinitions
  BY BundlesByVersion DEF Bundle
<1>2. PICK support : support = d.outcome.support
  OBVIOUS
<1>3. PICK trust : trust = d.outcome.trust
  OBVIOUS
<1>4. \A x \in TrustDomains : trust[x] = TrustState(x, support, d.evidence, p)
  BY <1>2, <1>3, EvaluatedParts
<1>5. \A r \in TrustImpactRules :
         /\ r.domain \notin {"CREDENTIAL_INTEGRITY", "ORIGIN_BINDING", "KNOWLEDGE_SECRECY"}
         /\ r.domain = "DEVICE_INTEGRITY" => r.impact = "DEGRADE"
  BY DEF TrustImpactRules, Impact
<1>6. \A x \in {"CREDENTIAL_INTEGRITY", "ORIGIN_BINDING", "KNOWLEDGE_SECRECY"} :
         Applied(x, support, p) = {}
  BY <1>1, <1>5 DEF Applied
<1>7. \A r \in Applied("DEVICE_INTEGRITY", support, p) : r.impact = "DEGRADE"
  BY <1>1, <1>5 DEF Applied
<1>8. {"CREDENTIAL_INTEGRITY", "ORIGIN_BINDING", "KNOWLEDGE_SECRECY", "DEVICE_INTEGRITY"}
         \subseteq TrustDomains
  BY DEF TrustDomains
<1>9. \A x \in {"CREDENTIAL_INTEGRITY", "ORIGIN_BINDING", "KNOWLEDGE_SECRECY"} :
         trust[x] = "TRUSTED"
  BY <1>4, <1>6, <1>8, TrustOfDomain
<1>10. trust["DEVICE_INTEGRITY"] \in {"TRUSTED", "DEGRADED"}
  BY <1>4, <1>7, <1>8, TrustOfDomain
<1>11. \A q \in FactorDefinitions[f].trust :
          \/ /\ q.domain \in {"CREDENTIAL_INTEGRITY", "ORIGIN_BINDING", "KNOWLEDGE_SECRECY"}
             /\ q.minimum = "TRUSTED"
          \/ q.domain = "DEVICE_INTEGRITY" /\ q.minimum = "DEGRADED"
  BY DEF FactorDefinitions, Requires
<1>12. TrustRank["TRUSTED"] = 3 /\ TrustRank["DEGRADED"] = 2
  BY DEF TrustRank
<1>13. \A q \in FactorDefinitions[f].trust : ~ (TrustRank[trust[q.domain]] < TrustRank[q.minimum])
  BY <1>9, <1>10, <1>11, <1>12
<1> QED
  BY <1>1, <1>3, <1>13 DEF FailedTrust

\* A severe alarm leaves the two factors of higher assurance.
LEMMA SevereAlarm ==
    ASSUME NEW p, p = PolicyOf("1.0.0"), NEW d, Evaluated(d, p), NEW e, Evaluated(e, p),
           d.evidence \in SoundEvidence, e.evidence \in SoundEvidence, d.using = e.using,
           NEW t \in Severe, Holds(t, e.evidence)
    PROVE  Eligible(e.outcome) \subseteq Eligible(d.outcome)
<1>1. p \in Policies
  BY BundlesByVersion, BundleOfVersion
<1>2. e.outcome.risk = "HIGH" /\ d.outcome.risk \in RiskLevels
  BY <1>1, HighRisk, EvaluatedParts, OutcomeIsTyped DEF IsOutcome
<1>3. "HIGH" \in RiskLevels /\ {"SMS_OTP", "PIN", "PASSKEY", "TOTP"} = FactorIds
  BY DEF RiskLevels, FactorIds
<1>4. "SMS_OTP" \notin Eligible(e.outcome) /\ "PIN" \notin Eligible(e.outcome)
  BY <1>1, <1>2, <1>3, AssuranceAtRisk, EligibleMeans
<1>5. ASSUME NEW f \in {"PASSKEY", "TOTP"}, f \in Eligible(e.outcome)
      PROVE  f \in Eligible(d.outcome)
  <2>1. MissingCapabilities(f, d.using, p) = {}
    BY <1>3, <1>5, EligibleMeans
  <2>2. AssuranceMet(f, d.outcome.risk, p)
    BY <1>1, <1>2, AssuranceAtRisk
  <2> QED
    BY <1>3, <2>1, <2>2, EligibleMeans, StrongFactorsTrusted
<1>6. Eligible(e.outcome) \subseteq FactorIds
  BY DEF Eligible
<1> QED
  BY <1>3, <1>4, <1>5, <1>6

\* The rules of a threat that alarms other than severe ones do not disturb.
LEMMA ConflictsAreSevere ==
    ASSUME NEW p \in Policies
    PROVE  \A r \in p.threats : r.kind = "CONFLICTING" => r.type \in Severe
<1>1. p.threats = ThreatRules
  BY BundleParts
<1> QED
  BY <1>1 DEF ThreatRules, RulesOf, Severe

\* When a threat's support has an impact.
LEMMA Supported ==
    ASSUME NEW primary, NEW n \in Nat, NEW conflicting, NEW stale
    PROVE  SupportFor(primary, n, conflicting, stale) \in {"STRONG", "MODERATE"}
              <=> primary \/ (~conflicting /\ ~stale /\ n >= 2)
BY DEF SupportFor, SupportAlone

\* A notable alarm more takes the support from no threat: it is in no
\* conflicting rule, and in a primary one only as fresh evidence.
LEMMA SupportGrows ==
    ASSUME NEW p \in Policies, NEW a, NEW b, NEW t \in Notable, OneAlarmMore(a, b, t),
           NEW threat, AssessThreat(threat, a, p) \in {"STRONG", "MODERATE"}
    PROVE  AssessThreat(threat, b, p) \in {"STRONG", "MODERATE"}
<1>1. t \notin Severe /\ t # "RECENT_SIM_CHANGE"
  BY DEF Notable, Severe
<1>2. /\ HoldsFresh(t, b)
      /\ \A x : x # t => /\ Holds(x, a) <=> Holds(x, b)
                         /\ HoldsFresh(x, a) <=> HoldsFresh(x, b)
  BY <1>1 DEF OneAlarmMore
<1>3. \A x : HoldsFresh(x, a) => HoldsFresh(x, b)
  BY <1>2
<1>4. \A kind : FreshRules(threat, kind, a, p) \subseteq FreshRules(threat, kind, b, p)
  BY <1>3 DEF FreshRules
<1>5. FreshRules(threat, "CONFLICTING", a, p) = FreshRules(threat, "CONFLICTING", b, p)
  <2>1. \A r \in Rules(threat, "CONFLICTING", p) : r.type # t
    BY <1>1, ConflictsAreSevere DEF Rules
  <2> QED
    BY <1>2, <2>1 DEF FreshRules
<1>6. PICK n \in Nat : n = Cardinality(FreshRules(threat, "SUPPORTING", a, p))
  BY FreshRulesCounted
<1>7. PICK m \in Nat : m = Cardinality(FreshRules(threat, "SUPPORTING", b, p))
  BY FreshRulesCounted
<1>8. n <= m
  BY <1>4, <1>6, <1>7, FreshRulesCounted, FS_Subset
<1>9. PICK before \in BOOLEAN : before <=> FreshRules(threat, "PRIMARY", a, p) # {}
  OBVIOUS
<1>10. PICK after \in BOOLEAN : after <=> FreshRules(threat, "PRIMARY", b, p) # {}
  OBVIOUS
<1>11. before => after
  BY <1>4, <1>9, <1>10
<1>12. ~after => ( /\ (\E r \in Rules(threat, "PRIMARY", p) : Holds(r.type, a))
                         <=> (\E r \in Rules(threat, "PRIMARY", p) : Holds(r.type, b)) )
  <2> SUFFICES ASSUME ~after
               PROVE  \A r \in Rules(threat, "PRIMARY", p) : Holds(r.type, a) <=> Holds(r.type, b)
    OBVIOUS
  <2>1. \A r \in Rules(threat, "PRIMARY", p) : r.type # t
    BY <1>2, <1>10 DEF FreshRules
  <2> QED
    BY <1>2, <2>1
<1>13. AssessThreat(threat, a, p) \in {"STRONG", "MODERATE"}
         <=> \/ before
             \/ /\ ~ (FreshRules(threat, "CONFLICTING", a, p) # {})
                /\ ~ (\E r \in Rules(threat, "PRIMARY", p) : Holds(r.type, a))
                /\ n >= 2
  BY <1>6, <1>9, Supported DEF AssessThreat
<1>14. AssessThreat(threat, b, p) \in {"STRONG", "MODERATE"}
         <=> \/ after
             \/ /\ ~ (FreshRules(threat, "CONFLICTING", b, p) # {})
                /\ ~ (\E r \in Rules(threat, "PRIMARY", p) : Holds(r.type, b))
                /\ m >= 2
  BY <1>7, <1>10, Supported DEF AssessThreat
<1>15. n >= 2 => m >= 2
  BY <1>8
<1> QED
  BY <1>5, <1>11, <1>12, <1>13, <1>14, <1>15

\* More impacts never leave more trust.
LEMMA TrustFalls ==
    ASSUME NEW p \in Policies, NEW x, NEW before, NEW after,
           Applied(x, before, p) \subseteq Applied(x, after, p),
           NEW a \in SoundEvidence, NEW b \in SoundEvidence
    PROVE  /\ TrustRank[TrustState(x, after, b, p)] \in 0..3
           /\ TrustRank[TrustState(x, before, a, p)] \in 0..3
           /\ TrustRank[TrustState(x, after, b, p)] <= TrustRank[TrustState(x, before, a, p)]
<1>1. PICK few : few = {r.impact : r \in Applied(x, before, p)}
  OBVIOUS
<1>2. PICK many : many = {r.impact : r \in Applied(x, after, p)}
  OBVIOUS
<1>3. few \subseteq many /\ many \subseteq {"DISTRUST", "DEGRADE"}
  BY <1>1, <1>2, RulesOfBundles DEF Applied
<1>4. DOMAIN a # {} /\ DOMAIN b # {}
  BY SomeEvidence
<1>5. /\ \/ "DISTRUST" \in many
         \/ many = {"DEGRADE"} /\ (few = {"DEGRADE"} \/ few = {})
         \/ many = {} /\ few = {}
      /\ "DISTRUST" \in few \/ few = {"DEGRADE"} \/ few = {}
  BY <1>3
<1>6. TrustState(x, before, a, p) =
        CASE "DISTRUST" \in few -> "DISTRUSTED"
          [] few = {"DEGRADE"} -> "DEGRADED"
          [] few = {} -> "TRUSTED"
  BY <1>1, <1>4 DEF TrustState
<1>7. TrustState(x, after, b, p) =
        CASE "DISTRUST" \in many -> "DISTRUSTED"
          [] many = {"DEGRADE"} -> "DEGRADED"
          [] many = {} -> "TRUSTED"
  BY <1>2, <1>4 DEF TrustState
<1>8. TrustRank["DISTRUSTED"] = 1 /\ TrustRank["DEGRADED"] = 2 /\ TrustRank["TRUSTED"] = 3
  BY DEF TrustRank
<1> QED
  BY <1>5, <1>6, <1>7, <1>8

\* A notable alarm raises no factor over any of the three gates.
LEMMA NotableAlarm ==
    ASSUME NEW p \in Policies, NEW d, Evaluated(d, p), NEW e, Evaluated(e, p),
           d.evidence \in SoundEvidence, e.evidence \in SoundEvidence, d.using = e.using,
           NEW t \in Notable, OneAlarmMore(d.evidence, e.evidence, t)
    PROVE  Eligible(e.outcome) \subseteq Eligible(d.outcome)
<1>1. \A x \in Threats : d.outcome.support[x] \in {"STRONG", "MODERATE"}
                            => e.outcome.support[x] \in {"STRONG", "MODERATE"}
  BY SupportGrows, EvaluatedParts
<1>2. PICK before : before = d.outcome.support
  OBVIOUS
<1>3. PICK after : after = e.outcome.support
  OBVIOUS
<1>4. \A x : Applied(x, before, p) \subseteq Applied(x, after, p)
  BY <1>1, <1>2, <1>3, RulesOfBundles DEF Applied
<1>5. PICK high : high = d.outcome.trust
  OBVIOUS
<1>6. PICK low : low = e.outcome.trust
  OBVIOUS
<1>7. \A x \in TrustDomains : /\ TrustRank[low[x]] \in 0..3 /\ TrustRank[high[x]] \in 0..3
                              /\ TrustRank[low[x]] <= TrustRank[high[x]]
  <2> SUFFICES ASSUME NEW x \in TrustDomains
               PROVE  /\ TrustRank[low[x]] \in 0..3 /\ TrustRank[high[x]] \in 0..3
                      /\ TrustRank[low[x]] <= TrustRank[high[x]]
    OBVIOUS
  <2>1. /\ high[x] = TrustState(x, before, d.evidence, p)
        /\ low[x] = TrustState(x, after, e.evidence, p)
    BY <1>2, <1>3, <1>5, <1>6, EvaluatedParts
  <2> QED
    BY <1>4, <2>1, TrustFalls
<1>8. \A f \in FactorIds : \A q \in FactorDefinitions[f].trust :
         q.domain \in TrustDomains /\ TrustRank[q.minimum] \in 0..3
  BY DEF FactorIds, FactorDefinitions, Requires, TrustDomains, TrustRank
<1>9. \A f \in FactorIds : FailedTrust(f, low, p) = {} => FailedTrust(f, high, p) = {}
  <2> SUFFICES ASSUME NEW f \in FactorIds, FailedTrust(f, low, p) = {},
                      NEW q \in p.factors[f].trust
               PROVE  ~ (TrustRank[high[q.domain]] < TrustRank[q.minimum])
    BY DEF FailedTrust
  <2>1. q.domain \in TrustDomains /\ TrustRank[q.minimum] \in 0..3
    BY <1>8, BundleParts
  <2>2. ~ (TrustRank[low[q.domain]] < TrustRank[q.minimum])
    BY DEF FailedTrust
  <2> QED
    BY <1>7, <2>1, <2>2
<1>10. d.outcome.risk \in RiskLevels /\ e.outcome.risk \in RiskLevels
  BY OutcomeIsTyped DEF IsOutcome
<1>11. d.outcome.risk = "HIGH" => e.outcome.risk = "HIGH"
  <2>1. t \notin Severe
    BY DEF Notable, Severe
  <2>2. \A x \in Severe : Holds(x, d.evidence) => Holds(x, e.evidence)
    BY <2>1 DEF OneAlarmMore
  <2> QED
    BY <2>2, HighRisk, EvaluatedParts
<1>12. \A f \in FactorIds : AssuranceMet(f, e.outcome.risk, p) => AssuranceMet(f, d.outcome.risk, p)
  <2>1. FactorIds = {"SMS_OTP", "PASSKEY", "TOTP", "PIN"}
    BY DEF FactorIds
  <2> QED
    BY <1>10, <1>11, <2>1, AssuranceAtRisk
<1>13. \A f \in FactorIds : f \in Eligible(e.outcome) => f \in Eligible(d.outcome)
  BY <1>5, <1>6, <1>9, <1>12, EligibleMeans
<1> QED
  BY <1>13 DEF Eligible

\* Under 1.0.0 one alarm more makes no factor eligible: with whichever stored
\* evidence, and whenever the alarm is raised.
THEOREM AlarmsRestrict == Spec => []AlarmOnlyRestricts
<1>1. ClaimsInv => AlarmOnlyRestricts
  <2> SUFFICES ASSUME ClaimsInv, NEW r \in Replays,
                      NEW source, source = decisions[r.source],
                      NEW produced, produced = decisions[r.produced],
                      source.version = "1.0.0", produced.version = "1.0.0",
                      source.using = produced.using, NEW t \in Alarms,
                      r.changes.evidence = <<[type |-> t, value |-> "true"]>>
               PROVE  Eligible(produced.outcome) \subseteq Eligible(source.outcome)
    BY DEF AlarmOnlyRestricts
  <2>1. PICK p : p = PolicyOf("1.0.0")
    OBVIOUS
  <2>2. PICK change : change = [type |-> t, value |-> "true"]
    OBVIOUS
  <2>3. /\ p \in Policies /\ Evaluated(source, p) /\ Evaluated(produced, p)
        /\ source.evidence \in SoundEvidence /\ produced.evidence \in SoundEvidence
    BY <2>1, ReplayFacts, BundleOfVersion
  <2>4. r.changes # NoChanges
    <3>1. NoChanges.evidence = <<>>
      BY DEF NoChanges
    <3>2. <<change>> # <<>>
      OBVIOUS
    <3>3. r.changes.evidence = <<change>>
      BY <2>2
    <3> QED
      BY <3>1, <3>2, <3>3
  <2>5. produced.evidence = ApplyEvidenceOverrides(source.evidence, <<change>>, produced.at)
    BY <2>2, <2>4, ReplayFacts
  <2>6. produced.evidence = Override(source.evidence, change, produced.at)
    BY <2>5, OneOverride
  <2>7. OneAlarmMore(source.evidence, produced.evidence, t)
    BY <2>2, <2>3, <2>6, AlarmRaised
  <2>8. CASE t \in Severe
    <3>1. Holds(t, produced.evidence)
      BY <2>7 DEF OneAlarmMore
    <3> QED
      BY <2>1, <2>3, <2>8, <3>1, SevereAlarm
  <2>9. CASE t \in Notable
    BY <2>3, <2>7, <2>9, NotableAlarm
  <2> QED
    BY <2>8, <2>9 DEF Alarms
<1> QED
  BY <1>1, ClaimsInvariance, PTL

=============================================================================
