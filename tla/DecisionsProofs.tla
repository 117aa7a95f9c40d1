---------------------------- MODULE DecisionsProofs ----------------------------
(***************************************************************************)
(* Proofs about Decisions and the engine below it, for all users, requests *)
(* and forks, whatever evidence they bring in: the engine's operators are  *)
(* taken at any evidence and capabilities, so that nothing about the folds *)
(* that collect and override evidence is needed.                           *)
(***************************************************************************)
EXTENDS Decisions, FiniteSetTheorems, TLAPS

-----------------------------------------------------------------------------
(* The engine and its trace, for any evidence.                              *)

\* d is what the engine makes of its evidence and capabilities under p.
Evaluated(d, p) == d.outcome = EvaluateDecision(d.evidence, d.using, p)

\* The parts of an evaluated decision.
LEMMA EvaluatedParts ==
    ASSUME NEW d, NEW p, Evaluated(d, p)
    PROVE  /\ d.outcome.risk = AssessRisk(d.evidence, p)
           /\ \A t \in Threats : d.outcome.support[t] = AssessThreat(t, d.evidence, p)
           /\ \A x \in TrustDomains :
                 d.outcome.trust[x] = TrustState(x, d.outcome.support, d.evidence, p)
           /\ \A f \in FactorIds :
                 d.outcome.factors[f] =
                    EvaluateFactor(f, d.outcome.trust, d.using, d.outcome.risk, p)
           /\ DOMAIN d.outcome.factors = FactorIds
           /\ d.outcome.selected = SelectFactor(d.outcome.factors, p)
<1> DEFINE risk == AssessRisk(d.evidence, p)
           support == AssessThreats(d.evidence, p)
           trust == [x \in TrustDomains |-> TrustState(x, support, d.evidence, p)]
           factors == [f \in FactorIds |-> EvaluateFactor(f, trust, d.using, risk, p)]
<1>1. d.outcome = Outcome(risk, support, trust, factors, SelectFactor(factors, p))
  BY DEF Evaluated, EvaluateDecision
<1>2. \A t \in Threats : support[t] = AssessThreat(t, d.evidence, p)
  BY DEF AssessThreats, Threats
<1> HIDE DEF risk, support, trust, factors
<1>3. /\ d.outcome.risk = risk
      /\ d.outcome.support = support
      /\ d.outcome.trust = trust
      /\ d.outcome.factors = factors
      /\ d.outcome.selected = SelectFactor(factors, p)
  BY <1>1 DEF Outcome
<1>4. /\ \A x \in TrustDomains : trust[x] = TrustState(x, support, d.evidence, p)
      /\ \A f \in FactorIds : factors[f] = EvaluateFactor(f, trust, d.using, risk, p)
      /\ DOMAIN factors = FactorIds
  BY DEF trust, factors
<1> QED
  BY <1>2, <1>3, <1>4 DEF risk

\* A threat none of whose rules is activated has no support.
LEMMA SilentThreat ==
    ASSUME NEW t, NEW evidence, NEW p, Activated(t, evidence, p) = {}
    PROVE  AssessThreat(t, evidence, p) = "UNSUPPORTED"
<1>1. ~ \E r \in Rules(t, "PRIMARY", p) : Holds(r.type, evidence)
  BY DEF Activated
<1>2. FreshRules(t, "PRIMARY", evidence, p) = {}
  BY <1>1 DEF FreshRules, HoldsFresh, FreshIds, Holds
<1>3. /\ FreshRules(t, "SUPPORTING", evidence, p) = {}
      /\ FreshRules(t, "CONFLICTING", evidence, p) = {}
  BY DEF Activated
<1>4. Cardinality({}) = 0
  BY FS_EmptySet
<1>5. AssessThreat(t, evidence, p) = SupportFor(FALSE, 0, FALSE, FALSE)
  BY <1>1, <1>2, <1>3, <1>4 DEF AssessThreat
<1> QED
  BY <1>5 DEF SupportFor, SupportAlone

\* An event has the fields it is built from.
LEMMA EventFields ==
    \A rule, code, inputs, output :
       LET e == Event(rule, code, inputs, output)
       IN  e.rule = rule /\ e.code = code /\ e.output = output
  BY DEF Event

\* The trace tells the support of every threat.
LEMMA SupportTold ==
    ASSUME NEW d, NEW p, Evaluated(d, p), NEW t \in Threats
    PROVE  SupportRead(t, TraceOf(d, p)) = {d.outcome.support[t]}
<1> DEFINE threats == ThreatAssessments(d, p)
           events == ThreatEvents(threats)
           a == [threat |-> t, support |-> d.outcome.support[t],
                 supporting |-> CitedAs("SUPPORTING", t, d.evidence, p),
                 conflicting |-> CitedAs("CONFLICTING", t, d.evidence, p),
                 rules |-> Activated(t, d.evidence, p)]
<1>1. TraceOf(d, p).THREAT_ASSESSMENT = events
  BY DEF TraceOf, BuildTrace
<1>2. a \in threats /\ \A b \in threats : b.threat = t => b = a
  BY DEF ThreatAssessments
<1>3. ASSUME NEW e \in events, e.output = t
      PROVE  e.code = d.outcome.support[t] /\ Activated(t, d.evidence, p) # {}
  <2> HIDE DEF threats
  <2>1. PICK b \in threats :
            \E r \in b.rules : e = Event(r, b.support, CitedIn({b}), b.threat)
    BY <1>3 DEF ThreatEvents
  <2>2. b.threat = t
    BY <1>3, <2>1 DEF Event
  <2>3. b = a
    BY <1>2, <2>2
  <2>4. b.rules # {} /\ e.code = b.support
    BY <2>1 DEF Event
  <2> QED
    BY <2>3, <2>4
<1>4. ASSUME NEW r \in Activated(t, d.evidence, p)
      PROVE  Event(r, d.outcome.support[t], CitedIn({a}), t) \in events
  <2> HIDE DEF threats
  <2> QED
    BY <1>2, <1>4 DEF ThreatEvents
<1> HIDE DEF events, a
<1>5. CASE Activated(t, d.evidence, p) = {}
  <2>1. CodesOf(t, events) = {}
    BY <1>3, <1>5 DEF CodesOf
  <2>2. d.outcome.support[t] = "UNSUPPORTED"
    BY <1>5, EvaluatedParts, SilentThreat
  <2> QED
    BY <1>1, <2>1, <2>2 DEF SupportRead, Reading
<1>6. CASE Activated(t, d.evidence, p) # {}
  <2>1. PICK r \in Activated(t, d.evidence, p) : TRUE
    BY <1>6
  <2>2. \E e \in events : e.output = t /\ e.code = d.outcome.support[t]
    BY <1>4, <2>1 DEF Event
  <2>3. CodesOf(t, events) = {d.outcome.support[t]}
    BY <1>3, <2>2 DEF CodesOf
  <2> QED
    BY <1>1, <2>3 DEF SupportRead, Reading
<1> QED
  BY <1>5, <1>6

\* A domain has one assessment.
LEMMA AssessmentOfDomain ==
    ASSUME NEW d, NEW threats, NEW p, NEW x \in TrustDomains
    PROVE  \E a \in TrustAssessments(d, threats, p) :
              /\ a.domain = x
              /\ a.rules = Applied(x, d.outcome.support, p)
              /\ a.state = d.outcome.trust[x]
              /\ \A b \in TrustAssessments(d, threats, p) : b.domain = x => b = a
<1> DEFINE of(y) == TrustAssessment(y, Applied(y, d.outcome.support, p),
                                    d.outcome.trust[y], threats)
<1>1. \A y : of(y).domain = y
  BY DEF TrustAssessment
<1>2. /\ of(x).rules = Applied(x, d.outcome.support, p)
      /\ of(x).state = d.outcome.trust[x]
  BY DEF TrustAssessment
<1>3. TrustAssessments(d, threats, p) = {of(y) : y \in TrustDomains}
  BY DEF TrustAssessments
<1> HIDE DEF of
<1> QED
  BY <1>1, <1>2, <1>3

\* The trace tells the state of every domain.
LEMMA TrustTold ==
    ASSUME NEW d, NEW p, Evaluated(d, p), NEW x \in TrustDomains
    PROVE  TrustRead(x, TraceOf(d, p)) = {d.outcome.trust[x]}
<1> DEFINE trust == TrustAssessments(d, ThreatAssessments(d, p), p)
           events == TrustEvents(trust)
           rules == Applied(x, d.outcome.support, p)
<1>1. /\ TraceOf(d, p).TRUST_ASSESSMENT = events
      /\ TraceOf(d, p).EVIDENCE_NORMALIZATION = NormalizationEvents(d.evidence)
  BY DEF TraceOf, BuildTrace
<1>2. PICK a \in trust : /\ a.domain = x
                         /\ a.rules = rules
                         /\ a.state = d.outcome.trust[x]
                         /\ \A b \in trust : b.domain = x => b = a
  BY AssessmentOfDomain
<1>3. d.outcome.trust[x] = TrustState(x, d.outcome.support, d.evidence, p)
  BY EvaluatedParts
<1> HIDE DEF trust, rules
<1>4. ASSUME NEW e \in events, e.output = x
      PROVE  e.code = d.outcome.trust[x] /\ rules # {}
  <2>1. PICK b \in trust : \E r \in b.rules : e = Event(r, b.state, b.cited, b.domain)
    BY DEF TrustEvents
  <2>2. b.domain = x /\ b.rules # {} /\ e.code = b.state
    BY <1>4, <2>1, EventFields
  <2> QED
    BY <1>2, <2>2
<1>5. ASSUME NEW r \in rules
      PROVE  Event(r, a.state, a.cited, a.domain) \in events
  BY <1>2 DEF TrustEvents
<1> HIDE DEF events
<1>6. CASE rules = {}
  <2>1. CodesOf(x, events) = {}
    BY <1>4, <1>6 DEF CodesOf
  <2>2. {r.impact : r \in rules} = {}
    BY <1>6
  <2>3. d.outcome.trust[x] = IF DOMAIN d.evidence = {} THEN "UNKNOWN" ELSE "TRUSTED"
    BY <1>3, <2>2 DEF TrustState, rules
  <2>4. NormalizationEvents(d.evidence) = {} <=> DOMAIN d.evidence = {}
    BY DEF NormalizationEvents
  <2> QED
    BY <1>1, <2>1, <2>3, <2>4 DEF TrustRead, Reading
<1>7. CASE rules # {}
  <2>1. \E e \in events : e.output = x /\ e.code = d.outcome.trust[x]
    BY <1>2, <1>5, <1>7, EventFields
  <2>2. CodesOf(x, events) = {d.outcome.trust[x]}
    BY <1>4, <2>1 DEF CodesOf
  <2> QED
    BY <1>1, <2>2 DEF TrustRead, Reading
<1> QED
  BY <1>6, <1>7

\* The requirements of every factor name trust domains.
NamesDomains(p) == \A f \in FactorIds : \A q \in p.factors[f].trust : q.domain \in TrustDomains

\* The trace tells the status of every factor.
LEMMA FactorTold ==
    ASSUME NEW d, NEW p, Evaluated(d, p), NamesDomains(p), NEW f \in FactorIds
    PROVE  StatusRead(f, TraceOf(d, p)) = d.outcome.factors[f].status
<1> DEFINE trust == TrustAssessments(d, ThreatAssessments(d, p), p)
           factors == d.outcome.factors
           evaluation == factors[f]
           own == EventsOf(f, evaluation, trust)
           failing == {a \in trust : a.domain \in evaluation.domains}
           events == FactorEvents(factors, trust)
<1>1. TraceOf(d, p).FACTOR_ELIGIBILITY = events
  BY DEF TraceOf, BuildTrace
<1>2. \A g \in FactorIds : \A e \in EventsOf(g, factors[g], trust) : e.output = g
  BY DEF EventsOf, Event
<1>3. StatusRead(f, TraceOf(d, p)) =
         LET read == {e.rule : e \in own}
         IN  CASE read = {"eligible"} -> "ELIGIBLE"
               [] read = {"capability"} -> "UNAVAILABLE"
               [] OTHER -> "INELIGIBLE"
  <2>1. {y \in events : y.output = f} = own
    BY <1>2 DEF FactorEvents
  <2> QED
    BY <1>1, <2>1 DEF StatusRead
<1>4. evaluation = EvaluateFactor(f, d.outcome.trust, d.using, d.outcome.risk, p)
  BY EvaluatedParts
<1>5. \A x \in TrustDomains : \E a \in trust : a.domain = x
  <2> TAKE x \in TrustDomains
  <2>1. PICK a \in trust : /\ a.domain = x
                          /\ a.rules = Applied(x, d.outcome.support, p)
                          /\ a.state = d.outcome.trust[x]
                          /\ \A b \in trust : b.domain = x => b = a
    BY AssessmentOfDomain
  <2> QED
    BY <2>1
<1> DEFINE domains == FailedTrust(f, d.outcome.trust, p)
           missing == MissingCapabilities(f, d.using, p)
<1>6. domains \subseteq TrustDomains
  BY DEF FailedTrust, NamesDomains
<1> HIDE DEF trust, factors, domains, missing
<1>7. CASE domains # {}
  <2>1. /\ evaluation.status = "INELIGIBLE"
        /\ evaluation.domains = domains
        /\ evaluation.missing = {}
    BY <1>4, <1>7 DEF EvaluateFactor, domains, missing
  <2>2. failing # {}
    BY <1>5, <1>6, <1>7, <2>1
  <2>3. own = {Event("trust", "trust_requirement_failed", a.cited, f) : a \in failing}
    <3> HIDE DEF failing
    <3>1. ~FailedAssurance(evaluation)
      BY <1>7, <2>1 DEF FailedAssurance
    <3> QED
      BY <2>1, <3>1 DEF EventsOf, failing
  <2> HIDE DEF own, failing
  <2>4. \A e \in own : e.rule = "trust"
    BY <2>3, EventFields
  <2>5. {e.rule : e \in own} = {"trust"}
    BY <2>2, <2>3, <2>4
  <2> QED
    BY <1>3, <2>1, <2>5 DEF factors
<1>8. CASE domains = {} /\ missing # {}
  <2>1. /\ evaluation.status = "UNAVAILABLE"
        /\ evaluation.domains = {}
        /\ evaluation.missing # {}
    BY <1>4, <1>8 DEF EvaluateFactor, domains, missing
  <2>2. own = {Event("capability", "capability_missing", {}, f)}
    BY <2>1 DEF EventsOf, FailedAssurance
  <2> HIDE DEF own
  <2>3. {e.rule : e \in own} = {"capability"}
    BY <2>2, EventFields
  <2> QED
    BY <1>3, <2>1, <2>3 DEF factors
<1>9. CASE domains = {} /\ missing = {}
  <2>1. /\ evaluation.status \in {"ELIGIBLE", "INELIGIBLE"}
        /\ evaluation.domains = {}
        /\ evaluation.missing = {}
    BY <1>4, <1>9 DEF EvaluateFactor, domains, missing
  <2>2. CASE evaluation.status = "ELIGIBLE"
    <3>1. own = {Event("eligible", "factor_eligible", {}, f)}
      BY <2>1, <2>2 DEF EventsOf, FailedAssurance
    <3> HIDE DEF own
    <3>2. {e.rule : e \in own} = {"eligible"}
      BY <3>1, EventFields
    <3> QED
      BY <1>3, <2>2, <3>2 DEF factors
  <2>3. CASE evaluation.status = "INELIGIBLE"
    <3>1. own = {Event("assurance", "assurance_below_required", {}, f)}
      BY <2>1, <2>3 DEF EventsOf, FailedAssurance
    <3> HIDE DEF own
    <3>2. {e.rule : e \in own} = {"assurance"}
      BY <3>1, EventFields
    <3> QED
      BY <1>3, <2>3, <3>2 DEF factors
  <2> QED
    BY <2>1, <2>2, <2>3
<1> QED
  BY <1>7, <1>8, <1>9

\* The trace of an evaluated decision tells its outcome.
LEMMA TraceTells ==
    ASSUME NEW d, NEW p, Evaluated(d, p), NamesDomains(p)
    PROVE  TellsOutcome(TraceOf(d, p), d.outcome)
<1>1. SelectedRead(TraceOf(d, p)) = {d.outcome.selected} \ {NoFactor}
  BY DEF SelectedRead, TraceOf, BuildTrace, SelectionEvents, Event
<1> QED
  BY <1>1, SupportTold, TrustTold, FactorTold DEF TellsOutcome

\* Policies name their versions and requirements as the engine expects.
LEMMA BundleOfVersion ==
    ASSUME NEW version \in Versions
    PROVE  LET p == PolicyOf(version)
           IN  p \in Policies /\ p.version = version /\ NamesDomains(p)
<1>1. PolicyOf(version) \in Policies /\ PolicyOf(version).version = version
  BY DEF Versions, PolicyOf
<1>2. \A p \in Policies : p.factors = FactorDefinitions
  BY DEF Policies, Bundle
<1>3. \A f \in FactorIds : \A q \in FactorDefinitions[f].trust : q.domain \in TrustDomains
  BY DEF FactorIds, FactorDefinitions, Requires, TrustDomains
<1> QED
  BY <1>1, <1>2, <1>3 DEF NamesDomains

\* After a SIM change, fresh or stale, an SMS code does not satisfy the risk.
LEMMA SmsBelowRisk ==
    ASSUME NEW p \in Policies, NEW d, Evaluated(d, p),
           Holds("RECENT_SIM_CHANGE", d.evidence)
    PROVE  "SMS_OTP" \notin Eligible(d.outcome)
<1>1. /\ p.risk = RiskRules
      /\ p.factors = FactorDefinitions
      /\ p.required = RequiredAssurance
  BY DEF Policies, Bundle
<1>2. AssessRisk(d.evidence, p) = "HIGH"
  <2> DEFINE rule == [type |-> "RECENT_SIM_CHANGE", severity |-> "HIGH"]
             matched == {r.severity : r \in {q \in p.risk : Holds(q.type, d.evidence)}}
  <2>1. rule \in {q \in p.risk : Holds(q.type, d.evidence)} /\ rule.severity = "HIGH"
    BY <1>1 DEF RiskRules, Severe
  <2>2. "HIGH" \in matched
    BY <2>1
  <2> HIDE DEF matched
  <2>3. AssessRisk(d.evidence, p) =
          CASE "HIGH" \in matched -> "HIGH"
            [] matched = {"MEDIUM"} -> "MEDIUM"
            [] matched = {} -> "LOW"
    BY DEF AssessRisk, matched
  <2> QED
    BY <2>2, <2>3
<1>3. ~AssuranceMet("SMS_OTP", "HIGH", p)
  BY <1>1 DEF AssuranceMet, FactorDefinitions, RequiredAssurance, AssuranceRank
<1>4. "SMS_OTP" \in FactorIds
  BY DEF FactorIds
<1>5. d.outcome.factors["SMS_OTP"] =
         EvaluateFactor("SMS_OTP", d.outcome.trust, d.using, "HIGH", p)
  BY <1>2, <1>4, EvaluatedParts
<1>6. d.outcome.factors["SMS_OTP"].status # "ELIGIBLE"
  BY <1>3, <1>5 DEF EvaluateFactor
<1> QED
  BY <1>6 DEF Eligible

\* The order of the factors in both bundles: TieRank in numbers.
LEMMA TieRanks ==
    ASSUME NEW p \in Policies
    PROVE  /\ TieRank("PASSKEY", p) = 1 /\ TieRank("TOTP", p) = 2
           /\ TieRank("SMS_OTP", p) = 3 /\ TieRank("PIN", p) = 4
<1>1. p.tieBreaker = TieBreaker
  BY DEF Policies, Bundle
<1>2. /\ DOMAIN TieBreaker = 1..4
      /\ TieBreaker[1] = "PASSKEY" /\ TieBreaker[2] = "TOTP"
      /\ TieBreaker[3] = "SMS_OTP" /\ TieBreaker[4] = "PIN"
  BY DEF TieBreaker
<1>3. /\ \A i \in DOMAIN TieBreaker : TieBreaker[i] = "PASSKEY" <=> i = 1
      /\ \A i \in DOMAIN TieBreaker : TieBreaker[i] = "TOTP" <=> i = 2
      /\ \A i \in DOMAIN TieBreaker : TieBreaker[i] = "SMS_OTP" <=> i = 3
      /\ \A i \in DOMAIN TieBreaker : TieBreaker[i] = "PIN" <=> i = 4
  BY <1>2
<1>4. 1 \in DOMAIN TieBreaker /\ 2 \in DOMAIN TieBreaker
      /\ 3 \in DOMAIN TieBreaker /\ 4 \in DOMAIN TieBreaker
  BY <1>2
<1> HIDE DEF TieBreaker
<1> QED
  BY <1>1, <1>3, <1>4 DEF TieRank

\* The selected factor is eligible, no eligible one is before it, and only if
\* no factor is eligible none is selected.
LEMMA SelectionIsBest ==
    ASSUME NEW p \in Policies, NEW d, Evaluated(d, p)
    PROVE  LET s == d.outcome.selected
           IN  IF Eligible(d.outcome) = {} THEN s = NoFactor
               ELSE /\ s \in Eligible(d.outcome)
                    /\ \A g \in Eligible(d.outcome) \ {s} : Before(s, g, p)
<1> DEFINE factors == d.outcome.factors
           eligible == {f \in DOMAIN factors : factors[f].status = "ELIGIBLE"}
<1>1. eligible = Eligible(d.outcome)
  BY EvaluatedParts DEF Eligible
<1>2. d.outcome.selected =
        IF eligible = {} THEN NoFactor
        ELSE CHOOSE f \in eligible : \A g \in eligible \ {f} : Before(f, g, p)
  <2>1. d.outcome.selected = SelectFactor(factors, p)
    BY EvaluatedParts
  <2> HIDE DEF factors
  <2> QED
    BY <2>1 DEF SelectFactor
<1>3. eligible \subseteq {"SMS_OTP", "PASSKEY", "TOTP", "PIN"}
  BY <1>1 DEF Eligible, FactorIds
<1>4. /\ Before("PASSKEY", "SMS_OTP", p) /\ Before("PASSKEY", "TOTP", p)
      /\ Before("PASSKEY", "PIN", p) /\ Before("SMS_OTP", "TOTP", p)
      /\ Before("SMS_OTP", "PIN", p) /\ Before("TOTP", "PIN", p)
  <2>1. p.factors = FactorDefinitions
    BY DEF Policies, Bundle
  <2>2. /\ FrictionRank[p.factors["PASSKEY"].friction] = 0
        /\ FrictionRank[p.factors["SMS_OTP"].friction] = 0
        /\ FrictionRank[p.factors["TOTP"].friction] = 1
        /\ FrictionRank[p.factors["PIN"].friction] = 2
    BY <2>1 DEF FactorDefinitions, FrictionRank
  <2> QED
    BY <2>2, TieRanks DEF Before
<1> HIDE DEF eligible
<1>5. ASSUME eligible # {}
      PROVE  \E f \in eligible : \A g \in eligible \ {f} : Before(f, g, p)
  <2>1. CASE "PASSKEY" \in eligible
    BY <1>3, <1>4, <2>1
  <2>2. CASE "PASSKEY" \notin eligible /\ "SMS_OTP" \in eligible
    BY <1>3, <1>4, <2>2
  <2>3. CASE "PASSKEY" \notin eligible /\ "SMS_OTP" \notin eligible /\ "TOTP" \in eligible
    BY <1>3, <1>4, <2>3
  <2>4. CASE /\ "PASSKEY" \notin eligible /\ "SMS_OTP" \notin eligible
             /\ "TOTP" \notin eligible
    <3>1. eligible = {"PIN"}
      BY <1>3, <1>5, <2>4
    <3> QED
      BY <3>1
  <2> QED
    BY <2>1, <2>2, <2>3, <2>4
<1> QED
  BY <1>1, <1>2, <1>5

-----------------------------------------------------------------------------
(* The tables.                                                              *)

\* Every stored decision is what the engine made of its evidence under the
\* policy version it names.
DecisionsSound ==
    /\ decisions = [d \in DecisionIds |-> decisions[d]]
    /\ \A d \in DecisionIds : decisions[d] # NoRow =>
          /\ decisions[d].version \in Versions
          /\ Evaluated(decisions[d], PolicyOf(decisions[d].version))

\* A replay and its diff are about two stored decisions, and an exact one is
\* about two with the same evidence.
ReplaySound(r) ==
    /\ r.source \in DecisionIds /\ decisions[r.source] # NoRow
    /\ r.produced \in DecisionIds /\ decisions[r.produced] # NoRow
    /\ r.sections = Sections(decisions[r.source], decisions[r.produced])
    /\ r.mode = "EXACT" => decisions[r.produced].evidence = decisions[r.source].evidence

ReplaysSound ==
    /\ replays = [r \in ReplayIds |-> replays[r]]
    /\ \A r \in ReplayIds : replays[r] # NoRow => ReplaySound(replays[r])

Inv == DecisionsSound /\ ReplaysSound

\* A decision is a row, made by the engine.
LEMMA DecisionIsEvaluated ==
    ASSUME NEW client, NEW user, NEW version, NEW evidence, NEW at, NEW using
    PROVE  LET row == Decision(client, user, version, evidence, at, using)
           IN  /\ row # NoRow
               /\ row.version = version
               /\ row.evidence = evidence
               /\ Evaluated(row, PolicyOf(version))
  BY DEF Decision, NoRow, Evaluated

LEMMA InitInv == Init => Inv
  BY DEF Init, Inv, DecisionsSound, ReplaysSound

\* A new decision under a free id leaves a sound replay sound.
LEMMA InsertKeepsReplay ==
    ASSUME DecisionsSound, NEW r, ReplaySound(r),
           NEW d \in DecisionIds, decisions[d] = NoRow, NEW row,
           decisions' = [decisions EXCEPT ![d] = row]
    PROVE  ReplaySound(r)'
<1>1. /\ decisions'[r.source] = decisions[r.source]
      /\ decisions'[r.produced] = decisions[r.produced]
  BY DEF DecisionsSound, ReplaySound
<1> QED
  BY <1>1 DEF ReplaySound

\* An evaluated row inserted under a free id is sound with the others.
LEMMA InsertKeepsDecisions ==
    ASSUME DecisionsSound, NEW d \in DecisionIds, NEW row, row.version \in Versions,
           Evaluated(row, PolicyOf(row.version)),
           decisions' = [decisions EXCEPT ![d] = row]
    PROVE  DecisionsSound'
<1>1. decisions' = [x \in DecisionIds |-> IF x = d THEN row ELSE decisions[x]]
  BY DEF DecisionsSound
<1> QED
  BY <1>1 DEF DecisionsSound, Evaluated

\* createDecision
LEMMA CreateDecisionStep ==
    ASSUME Inv, NEW d \in DecisionIds, NEW q \in Requests, CreateDecision(d, q)
    PROVE  Inv'
<1> DEFINE row == Decision(q.client, q.user, Version(q),
                           CollectEvidence(q, SeenAt(q.device)), clock,
                           capabilities[q.user])
<1>1. /\ decisions[d] = NoRow
      /\ Version(q) \in Versions
      /\ decisions' = [decisions EXCEPT ![d] = row]
      /\ replays' = replays
  BY DEF CreateDecision
<1>2. row.version = Version(q) /\ Evaluated(row, PolicyOf(Version(q)))
  BY DecisionIsEvaluated
<1> HIDE DEF row
<1>3. DecisionsSound'
  BY <1>1, <1>2, InsertKeepsDecisions DEF Inv
<1>4. ReplaysSound'
  BY <1>1, InsertKeepsReplay DEF Inv, ReplaysSound
<1> QED
  BY <1>3, <1>4 DEF Inv

\* createReplay
LEMMA CreateReplayStep ==
    ASSUME Inv, NEW r \in ReplayIds, NEW d \in DecisionIds, NEW produced \in DecisionIds,
           NEW mode, NEW version, NEW changes,
           CreateReplay(r, d, produced, mode, changes, version)
    PROVE  Inv'
<1> DEFINE evidence == ReplayEvidence(d, mode, changes)
           row == Decision(Replayed, decisions[d].user, version, evidence, clock,
                           ReplayCapabilities(d, mode, changes))
           replay == [source |-> d, produced |-> produced, mode |-> mode,
                      changes |-> changes, sections |-> Sections(decisions[d], row)]
<1>1. /\ decisions[d] # NoRow
      /\ decisions[produced] = NoRow
      /\ version \in Versions
      /\ decisions' = [decisions EXCEPT ![produced] = row]
      /\ replays' = [replays EXCEPT ![r] = replay]
  BY DEF CreateReplay
<1>2. /\ row # NoRow
      /\ row.version = version
      /\ row.evidence = evidence
      /\ Evaluated(row, PolicyOf(version))
  BY DecisionIsEvaluated
<1>3. mode = "EXACT" => evidence = decisions[d].evidence
  BY DEF ReplayEvidence
<1>4. /\ replay.source = d /\ replay.produced = produced
      /\ replay.mode = mode /\ replay.sections = Sections(decisions[d], row)
  OBVIOUS
<1> HIDE DEF row, evidence, replay
<1>5. DecisionsSound'
  BY <1>1, <1>2, InsertKeepsDecisions DEF Inv
<1>6. decisions'[d] = decisions[d] /\ decisions'[produced] = row
  BY <1>1 DEF Inv, DecisionsSound
<1>7. /\ d \in DecisionIds /\ decisions'[d] # NoRow
      /\ produced \in DecisionIds /\ decisions'[produced] # NoRow
      /\ replay.sections = Sections(decisions'[d], decisions'[produced])
      /\ replay.mode = "EXACT" => decisions'[produced].evidence = decisions'[d].evidence
  BY <1>1, <1>2, <1>3, <1>4, <1>6
<1>8. replays' = [x \in ReplayIds |-> IF x = r THEN replay ELSE replays[x]]
  BY <1>1 DEF Inv, ReplaysSound
<1>9. ASSUME NEW x \in ReplayIds, replays'[x] # NoRow
      PROVE  ReplaySound(replays[x])'
  <2>1. CASE x = r
    <3>1. replays'[x] = replay
      BY <1>8, <2>1
    <3> QED
      BY <1>4, <1>7, <3>1 DEF ReplaySound
  <2>2. CASE x # r
    <3>1. replays'[x] = replays[x] /\ replays[x] # NoRow
      BY <1>8, <1>9, <2>2
    <3>2. ReplaySound(replays[x])
      BY <3>1 DEF Inv, ReplaysSound
    <3>3. /\ decisions'[replays[x].source] = decisions[replays[x].source]
          /\ decisions'[replays[x].produced] = decisions[replays[x].produced]
      BY <1>1, <3>2 DEF Inv, DecisionsSound, ReplaySound
    <3> QED
      BY <3>1, <3>2, <3>3 DEF ReplaySound
  <2> QED
    BY <2>1, <2>2
<1> QED
  BY <1>5, <1>8, <1>9 DEF Inv, ReplaysSound

\* Every step keeps the tables sound.
LEMMA NextInv == Inv /\ [Next]_vars => Inv'
<1> SUFFICES ASSUME Inv, [Next]_vars PROVE Inv'
  OBVIOUS
<1>1. ASSUME NEW d \in DecisionIds, NEW q \in Requests, CreateDecision(d, q)
      PROVE  Inv'
  BY <1>1, CreateDecisionStep
<1>2. ASSUME NEW r \in ReplayIds, NEW d \in DecisionIds, NEW produced \in DecisionIds,
             NEW mode \in {"EXACT", "FORK"}, NEW version \in Versions,
             NEW changes \in ForkChanges \cup Recommended(d),
             CreateReplay(r, d, produced, mode, changes, version)
      PROVE  Inv'
  BY <1>2, CreateReplayStep
<1>3. CASE Reset
  BY <1>3 DEF Reset, Inv, DecisionsSound, ReplaysSound
<1>4. CASE UNCHANGED <<decisions, replays>>
  BY <1>4 DEF Inv, DecisionsSound, ReplaysSound, Evaluated, ReplaySound
<1>5. ASSUME NEW q \in Requests, AbandonDecision(q) PROVE UNCHANGED <<decisions, replays>>
  BY <1>5 DEF AbandonDecision
<1>6. ASSUME NEW d \in DecisionIds, NEW f \in FactorIds, VerifyRemediation(d, f)
      PROVE  UNCHANGED <<decisions, replays>>
  BY <1>6 DEF VerifyRemediation
<1>7. ASSUME NEW u \in Users, Enroll(u) PROVE UNCHANGED <<decisions, replays>>
  BY <1>7 DEF Enroll
<1>8. CASE Tick \/ UNCHANGED vars
  BY <1>4, <1>8 DEF Tick, vars
<1> QED
  BY <1>1, <1>2, <1>3, <1>4, <1>5, <1>6, <1>7, <1>8 DEF Next

\* The invariant of every behaviour.
LEMMA Invariance == Spec => []Inv
  BY InitInv, NextInv, PTL DEF Spec

-----------------------------------------------------------------------------
(* The theorems.                                                            *)

\* No SMS code after a SIM change: whatever users, devices, requests, alarms
\* and forks there are, and at any time.
THEOREM SmsStaysClosed == Spec => []SmsClosedAfterSimChange
<1>1. Inv => SmsClosedAfterSimChange
  BY BundleOfVersion, SmsBelowRisk DEF Inv, DecisionsSound, SmsClosedAfterSimChange, Rows
<1> QED
  BY <1>1, Invariance, PTL

\* The trace of every stored decision tells its outcome.
THEOREM TracesTellOutcomes == Spec => []TraceTellsOutcome
<1>1. Inv => TraceTellsOutcome
  BY BundleOfVersion, TraceTells DEF Inv, DecisionsSound, TraceTellsOutcome, Rows
<1> QED
  BY <1>1, Invariance, PTL

\* The selected factor of every stored decision is eligible, and the first
\* such factor in the order of the bundle's tie-breaker.
SelectionsBest ==
    \A d \in Rows :
        IF Eligible(d.outcome) = {} THEN d.outcome.selected = NoFactor
        ELSE /\ d.outcome.selected \in Eligible(d.outcome)
             /\ \A g \in Eligible(d.outcome) \ {d.outcome.selected} :
                   Before(d.outcome.selected, g, PolicyOf(d.version))

\* The selection of selectFactor.ts is the best eligible factor, whichever
\* evidence, capabilities and version a decision was made with.
THEOREM SelectionsAreBest == Spec => []SelectionsBest
<1>1. Inv => SelectionsBest
  BY BundleOfVersion, SelectionIsBest DEF Inv, DecisionsSound, SelectionsBest, Rows
<1> QED
  BY <1>1, Invariance, PTL

\* Two evaluated decisions with the same evidence and capabilities under one
\* policy have an empty diff.
LEMMA NothingToCompare ==
    ASSUME NEW d, NEW e, NEW p, Evaluated(d, p), Evaluated(e, p),
           d.evidence = e.evidence, d.using = e.using
    PROVE  DiffSections(d, p, e, p) = {}
<1>1. d.outcome = e.outcome
  BY DEF Evaluated
<1>2. ThreatAssessments(d, p) = ThreatAssessments(e, p)
  BY <1>1 DEF ThreatAssessments
<1>3. \A threats : TrustAssessments(d, threats, p) = TrustAssessments(e, threats, p)
  BY <1>1 DEF TrustAssessments
<1>4. \A trust : FactorKeys(d, trust, p) = FactorKeys(e, trust, p)
  BY <1>1 DEF FactorKeys
<1>5. \A threats, trust : BuildTrace(d, threats, trust) = BuildTrace(e, threats, trust)
  BY <1>1 DEF BuildTrace
<1>6. SelectionKey(d, p) = SelectionKey(e, p)
  BY <1>1 DEF SelectionKey, ReasonCodes
<1>7. Keys(d, p) = Keys(e, p)
  BY <1>2, <1>3, <1>4, <1>5, <1>6 DEF Keys
<1> QED
  BY <1>7 DEF DiffSections

\* An exact replay under the version and the capabilities of its source is
\* identical to it, at whatever time it is made.
THEOREM ExactReplaysAgree == Spec => []ExactReplayAgrees
<1>1. Inv => ExactReplayAgrees
  <2> SUFFICES ASSUME Inv, NEW r \in Replays, r.mode = "EXACT",
                      decisions[r.source].version = decisions[r.produced].version,
                      decisions[r.source].using = decisions[r.produced].using
               PROVE  Identical(r)
    BY DEF ExactReplayAgrees
  <2>1. ReplaySound(r)
    BY DEF Inv, ReplaysSound, Replays
  <2> DEFINE source == decisions[r.source]
             produced == decisions[r.produced]
             p == PolicyOf(source.version)
  <2>2. /\ Evaluated(source, p)
        /\ Evaluated(produced, p)
        /\ source.evidence = produced.evidence
        /\ r.sections = Sections(source, produced)
    BY <2>1 DEF Inv, DecisionsSound, ReplaySound
  <2>3. Sections(source, produced) = DiffSections(source, p, produced, p)
    BY DEF Sections
  <2> HIDE DEF source, produced, p
  <2>4. source.using = produced.using
    BY DEF source, produced
  <2> QED
    BY <2>2, <2>3, <2>4, NothingToCompare DEF Identical
<1> QED
  BY <1>1, Invariance, PTL

=============================================================================
