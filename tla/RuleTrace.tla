------------------------------- MODULE RuleTrace -------------------------------
(***************************************************************************)
(* What a decision says of its own reasoning: the rule trace of            *)
(* buildTrace.ts and the comparison of two decisions, diffDecisions.ts,    *)
(* both of packages/decision-core/src.                                     *)
(*                                                                         *)
(* A decision is a record with its evidence and its outcome.  Its trace is *)
(* a set of events for each phase: ids and sequence numbers, which a diff  *)
(* leaves out and the module Challenges has, follow the order of the       *)
(* phases and of the policy's lists.  A rule goes by its record, a failed  *)
(* requirement by its kind.  The phases CHALLENGE and OUTCOME, written     *)
(* later and left out of a diff, are those of Challenges.                  *)
(***************************************************************************)
EXTENDS DecisionCore

Event(rule, code, inputs, output) ==
    [rule |-> rule, code |-> code, inputs |-> inputs, output |-> output]

\* activatedRuleIds of a threat: a primary rule counts if it holds, stale or
\* fresh, the others if they hold of fresh evidence.
\* (ActivatedFresh: with the stale primary rules left out.)
ActivatedFresh(threat, evidence, p) ==
    {r \in p.threats : r.threat = threat /\ HoldsFresh(r.type, evidence)}

Activated(threat, evidence, p) ==
    {r \in Rules(threat, "PRIMARY", p) : Holds(r.type, evidence)}
        \cup FreshRules(threat, "SUPPORTING", evidence, p)
        \cup FreshRules(threat, "CONFLICTING", evidence, p)

\* supportingEvidenceIds and conflictingEvidenceIds: all fresh items of the
\* types of the fresh rules of a kind.
CitedAs(kind, threat, evidence, p) ==
    UNION {FreshIds(r.type, evidence) : r \in FreshRules(threat, kind, evidence, p)}

ThreatAssessments(d, p) ==
    {[threat |-> t, support |-> d.outcome.support[t],
      supporting |-> CitedAs("SUPPORTING", t, d.evidence, p),
      conflicting |-> CitedAs("CONFLICTING", t, d.evidence, p),
      rules |-> Activated(t, d.evidence, p)] : t \in Threats}

CitedIn(assessments) == UNION {a.supporting \cup a.conflicting : a \in assessments}

TrustAssessment(x, rules, state, threats) ==
    LET behind == {r.threat : r \in rules}
    IN  [domain |-> x, state |-> state, threats |-> behind, rules |-> rules,
         cited |-> CitedIn({a \in threats : a.threat \in behind})]

TrustAssessments(d, threats, p) ==
    {TrustAssessment(x, Applied(x, d.outcome.support, p), d.outcome.trust[x], threats) :
       x \in TrustDomains}

\* An INELIGIBLE factor that failed no trust requirement failed on assurance.
FailedAssurance(evaluation) ==
    evaluation.status = "INELIGIBLE" /\ evaluation.domains = {}

-----------------------------------------------------------------------------
(* buildTrace, phase by phase.                                              *)

NormalizationEvents(evidence) ==
    {Event("ev_norm", evidence[i].status, {i}, i) : i \in DOMAIN evidence}

ThreatEvents(threats) ==
    UNION {{Event(r, a.support, CitedIn({a}), a.threat) : r \in a.rules} : a \in threats}

TrustEvents(trust) ==
    UNION {{Event(r, a.state, a.cited, a.domain) : r \in a.rules} : a \in trust}

\* One event per failed requirement, or one that none has failed.
EventsOf(f, evaluation, trust) ==
    {Event("trust", "trust_requirement_failed", a.cited, f) :
       a \in {x \in trust : x.domain \in evaluation.domains}}
      \cup {Event("capability", "capability_missing", {}, f) : c \in evaluation.missing}
      \cup (IF FailedAssurance(evaluation)
            THEN {Event("assurance", "assurance_below_required", {}, f)} ELSE {})
      \cup (IF evaluation.status = "ELIGIBLE"
            THEN {Event("eligible", "factor_eligible", {}, f)} ELSE {})

FactorEvents(factors, trust) == UNION {EventsOf(f, factors[f], trust) : f \in FactorIds}

SelectionEvents(selected) ==
    {Event("selection", IF selected # {} THEN "factor_selected" ELSE "assisted_recovery",
           selected, selected)}

BuildTrace(d, threats, trust) ==
    [EVIDENCE_NORMALIZATION |-> NormalizationEvents(d.evidence),
     THREAT_ASSESSMENT |-> ThreatEvents(threats),
     TRUST_ASSESSMENT |-> TrustEvents(trust),
     FACTOR_ELIGIBILITY |-> FactorEvents(d.outcome.factors, trust),
     SELECTION |-> SelectionEvents({d.outcome.selected} \ {NoFactor})]

\* evaluateDecision: the trace of a decision made under p.
TraceOf(d, p) ==
    LET threats == ThreatAssessments(d, p)
    IN  BuildTrace(d, threats, TrustAssessments(d, threats, p))

-----------------------------------------------------------------------------
(* diffDecisions and diffPolicies: what each section compares.  The code's  *)
(* maps of keys lose the order and the number of equal keys.                *)

\* The items' windows and times are not compared.  Two items of one type have
\* different providers, which are compared: the position stands for them.
InputKeys(evidence) ==
    {<<i, evidence[i].type, evidence[i].value, evidence[i].status>> : i \in DOMAIN evidence}

\* A failed requirement with its actual and required state, and what the
\* failing domain cites.
FactorKeys(d, trust, p) ==
    LET of(f) == d.outcome.factors[f]
    IN  [f \in FactorIds |->
           [status |-> of(f).status,
            friction |-> p.factors[f].friction,
            satisfied |-> AssuranceMet(f, d.outcome.risk, p),
            trust |-> {q \in p.factors[f].trust \X trust :
                         q[1].domain = q[2].domain /\ q[2].domain \in of(f).domains},
            missing |-> of(f).missing,
            assurance |-> IF FailedAssurance(of(f))
                          THEN {<<p.factors[f].assurance, p.required[d.outcome.risk]>>}
                          ELSE {}]]

ReasonCodes(d, p) == {r \in p.risk : Holds(r.type, d.evidence)}

SelectionKey(d, p) ==
    [level |-> d.outcome.risk, reasons |-> ReasonCodes(d, p),
     selected |-> d.outcome.selected, action |-> d.outcome.action]

\* A decision section by section; p is the bundle it was made under.
Keys(d, p) ==
    LET threats == ThreatAssessments(d, p)
        trust == TrustAssessments(d, threats, p)
    IN  [POLICY |-> p,
         INPUT |-> InputKeys(d.evidence),
         THREAT |-> threats,
         TRUST |-> trust,
         FACTOR |-> FactorKeys(d, trust, p),
         RULE |-> BuildTrace(d, threats, trust),
         SELECTION |-> SelectionKey(d, p)]

\* buildDecisionDiff: the sections that have a change.
DiffSections(source, sourcePolicy, produced, producedPolicy) ==
    LET before == Keys(source, sourcePolicy)
        after == Keys(produced, producedPolicy)
    IN  {s \in DOMAIN before : before[s] # after[s]}

-----------------------------------------------------------------------------
(* What a reader of the trace alone makes of it.                            *)

\* The codes of the events about x, and what they say if there is none.
CodesOf(x, events) == {e.code : e \in {y \in events : y.output = x}}
Reading(codes, silence) == IF codes = {} THEN {silence} ELSE codes

SupportRead(t, trace) == Reading(CodesOf(t, trace.THREAT_ASSESSMENT), "UNSUPPORTED")

TrustRead(x, trace) ==
    Reading(CodesOf(x, trace.TRUST_ASSESSMENT),
            IF trace.EVIDENCE_NORMALIZATION = {} THEN "UNKNOWN" ELSE "TRUSTED")

StatusRead(f, trace) ==
    LET rules == {e.rule : e \in {y \in trace.FACTOR_ELIGIBILITY : y.output = f}}
    IN  CASE rules = {"eligible"} -> "ELIGIBLE"
          [] rules = {"capability"} -> "UNAVAILABLE"
          [] OTHER -> "INELIGIBLE"

SelectedRead(trace) == UNION {e.output : e \in trace.SELECTION}

\* The trace alone gives back the support of every threat, the state of every
\* domain, the status of every factor and the selection.
TellsOutcome(trace, outcome) ==
    /\ \A t \in Threats : SupportRead(t, trace) = {outcome.support[t]}
    /\ \A x \in TrustDomains : TrustRead(x, trace) = {outcome.trust[x]}
    /\ \A f \in FactorIds : StatusRead(f, trace) = outcome.factors[f].status
    /\ SelectedRead(trace) = {outcome.selected} \ {NoFactor}

=============================================================================
