----------------------------- MODULE DecisionCore -----------------------------
(***************************************************************************)
(* The pure decision engine of packages/decision-core/src: evidence ->     *)
(* risk and threats -> trust -> factors -> selection, as operators over    *)
(* any policy bundle p of the shape PolicyV1 builds.                       *)
(*                                                                         *)
(* Evidence is a sequence of items; an item's position is its id ev_i.     *)
(* The values told apart are "true", "null" and "false", which stands for  *)
(* every other value: no rule matches it.  Capabilities are the set of     *)
(* those available: a missing row reads as unavailable.                    *)
(***************************************************************************)
EXTENDS Integers, FiniteSets, SequencesExt

Values == {"true", "false", "null"}
EvidenceStatuses == {"ACTIVE", "STALE", "UNAVAILABLE"}
RiskLevels == {"LOW", "MEDIUM", "HIGH"}
Supports == {"STRONG", "MODERATE", "WEAK", "UNSUPPORTED"}
TrustStates == {"UNKNOWN", "DISTRUSTED", "DEGRADED", "TRUSTED"}
FactorIds == {"SMS_OTP", "PASSKEY", "TOTP", "PIN"}
Verdicts == {"ELIGIBLE", "INELIGIBLE", "UNAVAILABLE"}

Threats == {"SIM_CHANNEL_COMPROMISE", "PHISHING_RELAY", "DEVICE_INTEGRITY_CONCERN"}

TrustDomains == {"SIM_OWNERSHIP", "TELECOM_DELIVERY", "DEVICE_INTEGRITY",
                 "SESSION_INTEGRITY", "CREDENTIAL_INTEGRITY", "ORIGIN_BINDING",
                 "USER_VERIFICATION", "KNOWLEDGE_SECRECY", "NETWORK_AVAILABILITY"}

Capabilities == {"PASSKEY_ENROLLED", "WEBAUTHN_SUPPORTED", "NETWORK_AVAILABLE", "TOTP_SEED"}

NoFactor == "NONE"

-----------------------------------------------------------------------------
(* order.ts                                                                 *)

TrustRank == [UNKNOWN |-> 0, DISTRUSTED |-> 1, DEGRADED |-> 2, TRUSTED |-> 3]
AssuranceRank == [AAL1 |-> 1, AAL2 |-> 2, AAL3 |-> 3]
FrictionRank == [LOW |-> 0, MEDIUM |-> 1, HIGH |-> 2]

-----------------------------------------------------------------------------
(* normalizeEvidence.ts                                                     *)

Never == -1     \* validUntil of an item that does not expire

EvidenceTypes == {"RECENT_SIM_CHANGE", "FIRST_SEEN_DEVICE", "NEW_PAYEE",
                  "HIGH_VALUE_TRANSACTION", "PHISHING_RELAY_INDICATOR",
                  "FAILED_LOGIN_BURST", "GEO_DISTANCE_ANOMALY",
                  "PASSKEY_ENROLLED", "WEBAUTHN_SUPPORTED", "NETWORK_AVAILABLE"}

EvidenceItems == [type: EvidenceTypes, value: Values, until: Int, status: EvidenceStatuses]
EvidenceOverrides == [type: EvidenceTypes, value: Values]

StatusFor(value, until, now) ==
    CASE value = "null" -> "UNAVAILABLE"
      [] value # "null" /\ until # Never /\ until <= now -> "STALE"
      [] OTHER -> "ACTIVE"

Item(type, value, until, now) ==
    [type |-> type, value |-> value, until |-> until,
     status |-> StatusFor(value, until, now)]

HasType(evidence, type) == \E i \in DOMAIN evidence : evidence[i].type = type
FirstOf(evidence, type) ==
    CHOOSE i \in DOMAIN evidence :
        /\ evidence[i].type = type
        /\ \A j \in DOMAIN evidence : evidence[j].type = type => i <= j

\* applyEvidenceOverrides: an override gives the first item of its type a new
\* value and a new status, but keeps its window; others of the type stay.
Override(evidence, change, now) ==
    IF HasType(evidence, change.type)
    THEN LET i == FirstOf(evidence, change.type)
         IN [evidence EXCEPT ![i] = Item(change.type, change.value, @.until, now)]
    ELSE Append(evidence, Item(change.type, change.value, Never, now))

ApplyEvidenceOverrides(evidence, changes, now) ==
    FoldLeft(LAMBDA items, change : Override(items, change, now), evidence, changes)

-----------------------------------------------------------------------------
(* predicates.ts and assessRisk.ts                                          *)

Holds(type, evidence) ==
    \E i \in DOMAIN evidence : evidence[i].type = type /\ evidence[i].value = "true"

FreshIds(type, evidence) ==
    {i \in DOMAIN evidence : evidence[i].type = type /\ evidence[i].status = "ACTIVE"}

HoldsFresh(type, evidence) ==
    \E i \in FreshIds(type, evidence) : evidence[i].value = "true"

\* Stale evidence counts for risk.  (AssessFreshRisk: as if it did not.)
AssessFreshRisk(evidence, p) ==
    LET matched == {r.severity : r \in {q \in p.risk : HoldsFresh(q.type, evidence)}}
    IN  CASE "HIGH" \in matched -> "HIGH"
          [] matched = {"MEDIUM"} -> "MEDIUM"
          [] matched = {} -> "LOW"

AssessRisk(evidence, p) ==
    LET matched == {r.severity : r \in {q \in p.risk : Holds(q.type, evidence)}}
    IN  CASE "HIGH" \in matched -> "HIGH"
          [] matched = {"MEDIUM"} -> "MEDIUM"
          [] matched = {} -> "LOW"

-----------------------------------------------------------------------------
(* assessThreats.ts                                                         *)

Rules(threat, kind, p) == {r \in p.threats : r.threat = threat /\ r.kind = kind}

FreshRules(threat, kind, evidence, p) ==
    {r \in Rules(threat, kind, p) : HoldsFresh(r.type, evidence)}

\* How far a number of fresh supporting rules goes without any primary.
\* (SupportOfTwo: with = in place of >=.)
SupportOfTwo(n) == CASE n = 2 -> "MODERATE" [] n = 1 -> "WEAK" [] OTHER -> "UNSUPPORTED"

SupportAlone(n) ==
    CASE n >= 2 -> "MODERATE" [] n = 1 -> "WEAK" [] n = 0 -> "UNSUPPORTED"

\* Fresh primary evidence first, then fresh conflicting evidence, then stale
\* primary evidence; "supporting" counts the fresh supporting rules.
SupportFor(primary, supporting, conflicting, stale) ==
    CASE primary /\ supporting > 0 -> "STRONG"
      [] primary /\ supporting = 0 -> "MODERATE"
      [] ~primary /\ conflicting -> "UNSUPPORTED"
      [] ~primary /\ ~conflicting /\ stale -> "WEAK"
      [] ~primary /\ ~conflicting /\ ~stale -> SupportAlone(supporting)

AssessThreat(threat, evidence, p) ==
    SupportFor(FreshRules(threat, "PRIMARY", evidence, p) # {},
               Cardinality(FreshRules(threat, "SUPPORTING", evidence, p)),
               FreshRules(threat, "CONFLICTING", evidence, p) # {},
               \E r \in Rules(threat, "PRIMARY", p) : Holds(r.type, evidence))

AssessThreats(evidence, p) ==
    LET of(threat) == AssessThreat(threat, evidence, p)
    IN  [SIM_CHANNEL_COMPROMISE |-> of("SIM_CHANNEL_COMPROMISE"),
         PHISHING_RELAY |-> of("PHISHING_RELAY"),
         DEVICE_INTEGRITY_CONCERN |-> of("DEVICE_INTEGRITY_CONCERN")]

\* supportingEvidenceIds and conflictingEvidenceIds of an assessed threat: of
\* the rules' types every fresh item, and nothing of the primary rules.
CitedBy(threat, evidence, p) ==
    UNION {FreshIds(r.type, evidence) :
             r \in FreshRules(threat, "SUPPORTING", evidence, p)
                     \cup FreshRules(threat, "CONFLICTING", evidence, p)}

-----------------------------------------------------------------------------
(* assessTrust.ts                                                           *)

\* The impact rules of a domain that apply, given the threats' support.
Applied(domain, support, p) ==
    {r \in p.impacts : /\ r.domain = domain
                       /\ support[r.threat] \in {"STRONG", "MODERATE"}}

\* The state of a domain: the declared impact, whether STRONG or MODERATE.
TrustState(domain, support, evidence, p) ==
    LET impacts == {r.impact : r \in Applied(domain, support, p)}
    IN  CASE "DISTRUST" \in impacts -> "DISTRUSTED"
          [] impacts = {"DEGRADE"} -> "DEGRADED"
          [] impacts = {} -> IF DOMAIN evidence = {} THEN "UNKNOWN" ELSE "TRUSTED"

\* evidenceIds and threatIds of a domain.
TrustCites(domain, support, evidence, p) ==
    UNION {CitedBy(r.threat, evidence, p) : r \in Applied(domain, support, p)}

TrustThreats(domain, support, p) == {r.threat : r \in Applied(domain, support, p)}

-----------------------------------------------------------------------------
(* evaluateFactors.ts                                                       *)

FailedTrust(f, trust, p) ==
    {r.domain : r \in {q \in p.factors[f].trust :
                         TrustRank[trust[q.domain]] < TrustRank[q.minimum]}}

MissingCapabilities(f, capabilities, p) == p.factors[f].capabilities \ capabilities

AssuranceMet(f, risk, p) ==
    AssuranceRank[p.factors[f].assurance] >= AssuranceRank[p.required[risk]]

\* Trust comes before capability and capability before assurance.
\* failedRequirements are those of the first gate that fails.
EvaluateFactor(f, trust, capabilities, risk, p) ==
    LET domains == FailedTrust(f, trust, p)
        missing == MissingCapabilities(f, capabilities, p)
    IN  CASE domains # {} ->
               [status |-> "INELIGIBLE", domains |-> domains, missing |-> {}]
          [] domains = {} /\ missing # {} ->
               [status |-> "UNAVAILABLE", domains |-> {}, missing |-> missing]
          [] domains = {} /\ missing = {} ->
               [status |-> IF AssuranceMet(f, risk, p) THEN "ELIGIBLE" ELSE "INELIGIBLE",
                domains |-> {}, missing |-> {}]

-----------------------------------------------------------------------------
(* selectFactor.ts                                                          *)

TieRank(f, p) == CHOOSE i \in DOMAIN p.tieBreaker : p.tieBreaker[i] = f

Before(f, g, p) ==
    LET ff == FrictionRank[p.factors[f].friction]
        fg == FrictionRank[p.factors[g].friction]
    IN  ff < fg \/ (ff = fg /\ TieRank(f, p) < TieRank(g, p))

SelectFactor(factors, p) ==
    LET eligible == {f \in DOMAIN factors : factors[f].status = "ELIGIBLE"}
    IN  IF eligible = {} THEN NoFactor
        ELSE CHOOSE f \in eligible : \A g \in eligible \ {f} : Before(f, g, p)

-----------------------------------------------------------------------------
(* evaluateDecision.ts                                                      *)

Outcome(risk, support, trust, factors, selected) ==
    [risk |-> risk, support |-> support, trust |-> trust, factors |-> factors,
     selected |-> selected,
     action |-> IF selected = NoFactor THEN "ASSISTED_RECOVERY" ELSE "CHALLENGE"]

EvaluateDecision(evidence, capabilities, p) ==
    LET risk == AssessRisk(evidence, p)
        support == AssessThreats(evidence, p)
        trust == [d \in TrustDomains |-> TrustState(d, support, evidence, p)]
        factors == [f \in FactorIds |-> EvaluateFactor(f, trust, capabilities, risk, p)]
    IN  Outcome(risk, support, trust, factors, SelectFactor(factors, p))

IsOutcome(o) ==
    /\ o.risk \in RiskLevels
    /\ o.support \in [Threats -> Supports]
    /\ o.trust \in [TrustDomains -> TrustStates]
    /\ o.factors \in [FactorIds -> [status: Verdicts, domains: SUBSET TrustDomains,
                                    missing: SUBSET Capabilities]]
    /\ o.selected \in FactorIds \cup {NoFactor}
    /\ o.action = "ASSISTED_RECOVERY" <=> o.selected = NoFactor

Eligible(outcome) == {f \in FactorIds : outcome.factors[f].status = "ELIGIBLE"}

=============================================================================
