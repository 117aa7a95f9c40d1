------------------------------ MODULE Remediation ------------------------------
(***************************************************************************)
(* Verified remediation, packages/decision-core/src/verifyRemediation.ts:  *)
(* candidates derived from the requirements a factor failed in a stored    *)
(* decision, each tested by evaluating the decision again.                 *)
(*                                                                         *)
(* A change set flips the evidence of some types to false and switches     *)
(* some capabilities on.  Its changes concern different types, so their    *)
(* order does not matter and it is a pair of sets.  The stored decision is *)
(* a record with its evidence, its time and its outcome.                   *)
(***************************************************************************)
EXTENDS DecisionCore

Flip(type) == [flips |-> {type}, enables |-> {}]
Enable(capability) == [flips |-> {}, enables |-> {capability}]

Merge(a, b) == [flips |-> a.flips \cup b.flips, enables |-> a.enables \cup b.enables]
ChangeCount(set) == Cardinality(set.flips) + Cardinality(set.enables)

\* The evidence changes of a change set, as a replay request lists them.
EvidenceChanges(set) ==
    SetToSeq({[type |-> t, value |-> "false"] : t \in set.flips})

-----------------------------------------------------------------------------
(* Candidates.                                                              *)

\* Types of the evidence the failing domain cites, if the item is true.
CitedFlips(d, domain, p) ==
    {d.evidence[i].type :
       i \in {j \in TrustCites(domain, d.outcome.support, d.evidence, p) :
                d.evidence[j].value = "true"}}

\* Threats behind every domain that cites some evidence of the failing one.
ImpactingThreats(d, domain, p) ==
    LET cites(x) == TrustCites(x, d.outcome.support, d.evidence, p)
    IN  UNION {TrustThreats(x, d.outcome.support, p) :
                 x \in {y \in TrustDomains : cites(y) \cap cites(domain) # {}}}

\* Types of their primary rules with a true item.
PrimaryFlips(d, domain, p) ==
    {r.type : r \in {q \in p.threats : /\ q.kind = "PRIMARY"
                                       /\ q.threat \in ImpactingThreats(d, domain, p)
                                       /\ Holds(q.type, d.evidence)}}

\* deriveRemediationCandidates
Candidates(d, f, p) ==
    LET failed == d.outcome.factors[f]
    IN  {Enable(c) : c \in failed.missing}
          \cup {Flip(t) : t \in UNION {CitedFlips(d, x, p) \cup PrimaryFlips(d, x, p) :
                                         x \in failed.domains}}

-----------------------------------------------------------------------------
(* Verification by replay.                                                  *)

\* The decision, evaluated again with its changes at its own time.
Changed(d, capabilities, set, p) ==
    EvaluateDecision(ApplyEvidenceOverrides(d.evidence, EvidenceChanges(set), d.at),
                     capabilities \cup set.enables, p)

\* classifyChangeSet; "NONE" where the code returns null.
\* (ClassifyHopefully: taking a factor that is eligible for selected.)
ClassifyHopefully(d, f, capabilities, set, p) ==
    IF f \in Eligible(Changed(d, capabilities, set, p)) THEN "VERIFIED_SELECTED" ELSE "NONE"

StatusOf(f, outcome) ==
    CASE outcome.selected = f -> "VERIFIED_SELECTED"
      [] outcome.selected # f /\ f \in Eligible(outcome) -> "VERIFIED_ELIGIBLE"
      [] OTHER -> "NONE"

Classify(d, f, capabilities, set, p) == StatusOf(f, Changed(d, capabilities, set, p))

\* The unions of n candidates.
Combinations(singles, n) ==
    CASE n = 1 -> singles
      [] n = 2 -> {Merge(a, b) : a, b \in singles}
      [] n = 3 -> {Merge(Merge(a, b), c) : a, b, c \in singles}

Tested(d, f, capabilities, sets, p) ==
    {[set |-> s, status |-> Classify(d, f, capabilities, s, p)] : s \in sets}

\* The change sets of n candidates that help, with the status they reach.
Helping(singles, n, d, f, capabilities, p) ==
    {t \in Tested(d, f, capabilities,
                  {s \in Combinations(singles, n) : ChangeCount(s) = n}, p) :
       t.status # "NONE"}

FirstNonEmpty(a, b, c) ==
    CASE a # {} -> a
      [] a = {} /\ b # {} -> b
      [] OTHER -> c

\* Pairs are tested only when no single change helps, and triples only when no
\* pair does.  (PairsFirst: with the order of the first two swapped.)
PairsFirst(singles, d, f, capabilities, p) ==
    FirstNonEmpty(Helping(singles, 2, d, f, capabilities, p),
                  Helping(singles, 1, d, f, capabilities, p),
                  Helping(singles, 3, d, f, capabilities, p))

Attempts(singles, d, f, capabilities, p) ==
    FirstNonEmpty(Helping(singles, 1, d, f, capabilities, p),
                  Helping(singles, 2, d, f, capabilities, p),
                  Helping(singles, 3, d, f, capabilities, p))

\* Of the attempts the best status, and the sets that reach it with the fewest
\* changes.
Remedy(attempts) ==
    LET selected == {t \in attempts : t.status = "VERIFIED_SELECTED"}
        best == IF selected # {} THEN selected ELSE attempts
        fewest == {t \in best : \A u \in best : ChangeCount(t.set) <= ChangeCount(u.set)}
    IN  IF attempts = {}
        THEN [status |-> "REMAINS_INELIGIBLE", sets |-> {}]
        ELSE [status |-> (CHOOSE t \in best : TRUE).status, sets |-> {t.set : t \in fewest}]

VerifyFactorRemediation(d, f, capabilities, p) ==
    IF f \notin Eligible(d.outcome)
    THEN Remedy(Attempts(Candidates(d, f, p), d, f, capabilities, p))
    ELSE [status |-> IF d.outcome.selected = f
                     THEN "VERIFIED_SELECTED" ELSE "VERIFIED_ELIGIBLE",
          sets |-> {}]

=============================================================================
