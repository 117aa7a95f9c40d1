------------------------------- MODULE Decisions -------------------------------
(***************************************************************************)
(* The life of a decision: DecisionService.createDecision,                 *)
(* ReplayService.createReplay and RemediationService.verify over the       *)
(* tables devices, decisions (with transactions and all that hangs on a    *)
(* decision), replays and verified_remediations, while enrolments switch   *)
(* capabilities on and a reset empties the tables.                         *)
(*                                                                         *)
(* The three handlers have no await: each is one step.  Capability rows    *)
(* copied into the evidence for display match no rule and are left out.    *)
(***************************************************************************)
EXTENDS Remediation, RuleTrace, PolicyV1

CONSTANTS
    Users, Devices,
    SeededDevices,      \* devices the seed has seen long ago
    SeededCapabilities, \* capabilities the seed gives each user
    DecisionIds,        \* ids newId("dec") may draw
    ReplayIds,          \* ids newId("rp") may draw
    Requests,           \* decision requests a client may send
    ForkChanges,        \* changes a fork may declare
    SimWindow,          \* lifetime of an overridden SIM change
    MaxTime,            \* bound on the clock
    MaxRemediations,    \* bound on the verified remediations stored
    DemoMode

VARIABLES
    clock,
    firstSeenAt,        \* devices.first_seen_at, or NotSeen
    capabilities,       \* capabilities available to each user
    decisions,          \* decisions by id
    replays,            \* replays and their diffs, by id
    remediations        \* verified_remediations

vars == <<clock, firstSeenAt, capabilities, decisions, replays, remediations>>

\* "There is no such row": a record no row is, and a time before the seed's.
NoRow == [none |-> TRUE]
NotSeen == -1

\* policyVersion of a request that names none.
Unspecified == "unspecified"

\* What a fork declares: evidence changes in order, capabilities on and off.
NoChanges == [evidence |-> <<>>, on |-> {}, off |-> {}]

\* A stored decision.  "using" is a history variable: the capabilities the
\* decision was evaluated with, which the code does not store.
Decision(client, user, version, evidence, at, using) ==
    [client |-> client, user |-> user, version |-> version, evidence |-> evidence,
     at |-> at, using |-> using,
     outcome |-> EvaluateDecision(evidence, using, PolicyOf(version))]

Replayed == "replay"    \* client transaction id of a replay's transaction

ASSUME DecisionConstants ==
    /\ SeededDevices \subseteq Devices
    /\ SimWindow \in Nat \ {0}
    /\ MaxTime \in Nat \ {0}
    /\ MaxRemediations \in Nat
    /\ DemoMode \in BOOLEAN
    /\ \A q \in Requests : /\ q.user \in Users /\ q.device \in Devices
                           /\ q.overrides \in Seq(EvidenceOverrides)
    /\ NoChanges \in ForkChanges
    /\ \A c \in ForkChanges : c.evidence \in Seq(EvidenceOverrides)

\* Seeded devices were first seen at a time the clock does not reach again.
Init ==
    /\ clock = 1
    /\ firstSeenAt = [v \in Devices |-> IF v \in SeededDevices THEN 0 ELSE NotSeen]
    /\ capabilities = [u \in Users |-> SeededCapabilities[u]]
    /\ decisions = [d \in DecisionIds |-> NoRow]
    /\ replays = [r \in ReplayIds |-> NoRow]
    /\ remediations = {}

-----------------------------------------------------------------------------
(* POST /decisions                                                          *)

AsValue(b) == IF b THEN "true" ELSE "false"

\* An override in a decision request replaces the first item of its type, with
\* a window of its own for a SIM change.
RawOverride(evidence, change) ==
    LET until == IF change.type = "RECENT_SIM_CHANGE" /\ change.value = "true"
                 THEN clock + SimWindow ELSE Never
        item == Item(change.type, change.value, until, clock)
    IN  IF HasType(evidence, change.type)
        THEN [evidence EXCEPT ![FirstOf(evidence, change.type)] = item]
        ELSE Append(evidence, item)

\* collectEvidence: the four mock providers, then the request's context, then
\* the overrides.  Two types occur twice.
CollectEvidence(q, seenAt) ==
    LET observed(type, b) == Item(type, AsValue(b), Never, clock)
        collected == << observed("RECENT_SIM_CHANGE", FALSE),
                        observed("FIRST_SEEN_DEVICE", FALSE),
                        observed("FAILED_LOGIN_BURST", FALSE),
                        observed("GEO_DISTANCE_ANOMALY", FALSE),
                        observed("HIGH_VALUE_TRANSACTION", q.highValue),
                        observed("NEW_PAYEE", q.newPayee),
                        observed("FIRST_SEEN_DEVICE", seenAt = clock),
                        observed("FAILED_LOGIN_BURST", q.burst) >>
    IN  IF DemoMode THEN FoldLeft(RawOverride, collected, q.overrides) ELSE collected

\* The device is written before the policy is looked up, outside the
\* transaction that persists the decision.
SeenAt(device) == IF firstSeenAt[device] = NotSeen THEN clock ELSE firstSeenAt[device]
UpsertDevice(device) == firstSeenAt' = [firstSeenAt EXCEPT ![device] = SeenAt(device)]

ClientIdIsNew(client) ==
    \A d \in DecisionIds : decisions[d] # NoRow => decisions[d].client # client

Version(q) == IF q.version = Unspecified THEN ActiveVersion ELSE q.version

CreateDecision(d, q) ==
    /\ decisions[d] = NoRow
    /\ ClientIdIsNew(q.client)
    /\ Version(q) \in Versions
    /\ UpsertDevice(q.device)
    /\ decisions' = [decisions EXCEPT ![d] =
                       Decision(q.client, q.user, Version(q),
                                CollectEvidence(q, SeenAt(q.device)), clock,
                                capabilities[q.user])]
    /\ UNCHANGED <<clock, capabilities, replays, remediations>>

\* "Policy version not found", or the process stops after the device's write.
AbandonDecision(q) ==
    /\ ClientIdIsNew(q.client)
    /\ UpsertDevice(q.device)
    /\ UNCHANGED <<clock, capabilities, decisions, replays, remediations>>

-----------------------------------------------------------------------------
(* POST /decisions/:decisionId/replays                                      *)

\* The evidence of a replay: the stored items, for a fork with its changes.
\* (ReplayOfToday: with the stored items' status computed anew.)
ReplayOfToday(d, mode, changes) ==
    [i \in DOMAIN decisions[d].evidence |->
       LET e == decisions[d].evidence[i] IN Item(e.type, e.value, e.until, clock)]

ReplayEvidence(d, mode, changes) ==
    IF mode = "FORK"
    THEN ApplyEvidenceOverrides(decisions[d].evidence, changes.evidence, clock)
    ELSE decisions[d].evidence

\* The capabilities of a replay are those of today, for a fork with its changes.
ReplayCapabilities(d, mode, changes) ==
    LET today == capabilities[decisions[d].user]
    IN  IF mode = "FORK" THEN (today \ changes.off) \cup changes.on ELSE today

\* The sections of the diff of two stored decisions.
Sections(source, produced) ==
    DiffSections(source, PolicyOf(source.version), produced, PolicyOf(produced.version))

\* An EXACT replay declares no changes, but may name another policy version.
CreateReplay(r, d, produced, mode, changes, version) ==
    LET row == Decision(Replayed, decisions[d].user, version,
                        ReplayEvidence(d, mode, changes), clock,
                        ReplayCapabilities(d, mode, changes))
    IN  /\ decisions[d] # NoRow
        /\ decisions[produced] = NoRow
        /\ replays[r] = NoRow
        /\ mode = "EXACT" => changes = NoChanges
        /\ version \in Versions
        /\ decisions' = [decisions EXCEPT ![produced] = row]
        /\ replays' = [replays EXCEPT ![r] =
                         [source |-> d, produced |-> produced, mode |-> mode,
                          changes |-> changes,
                          sections |-> Sections(decisions[d], row)]]
        /\ UNCHANGED <<clock, firstSeenAt, capabilities, remediations>>

-----------------------------------------------------------------------------
(* POST /decisions/:decisionId/remediations/:factorId/verify                *)

\* "using": a history variable, the capabilities of the verification.
Verified(d, f, using, result) ==
    [decision |-> d, factor |-> f, status |-> result.status, sets |-> result.sets,
     using |-> using]

VerifyRemediation(d, f) ==
    /\ Cardinality(remediations) < MaxRemediations
    /\ decisions[d] # NoRow
    /\ LET row == decisions[d]
           today == capabilities[row.user]
       IN remediations' = remediations \cup
            {Verified(d, f, today,
                      VerifyFactorRemediation(row, f, today, PolicyOf(row.version)))}
    /\ UNCHANGED <<clock, firstSeenAt, capabilities, decisions, replays>>

\* The changes with which a client tries what a remediation recommends.
AsFork(set) == [evidence |-> EvidenceChanges(set), on |-> set.enables, off |-> {}]
Recommended(d) ==
    UNION {{AsFork(s) : s \in m.sets} : m \in {x \in remediations : x.decision = d}}

-----------------------------------------------------------------------------
(* The other writers of these tables.                                       *)

\* A completed passkey registration: setAvailable(user, PASSKEY_ENROLLED, true).
Enroll(u) ==
    /\ "PASSKEY_ENROLLED" \notin capabilities[u]
    /\ capabilities' = [capabilities EXCEPT ![u] = @ \cup {"PASSKEY_ENROLLED"}]
    /\ UNCHANGED <<clock, firstSeenAt, decisions, replays, remediations>>

\* POST /demo/reset.  Devices and capabilities survive.
\* (ResetKeepsReplays: with the replays left out.)
ResetKeepsReplays ==
    /\ DemoMode
    /\ decisions' = [d \in DecisionIds |-> NoRow]
    /\ UNCHANGED <<clock, firstSeenAt, capabilities, replays, remediations>>

Reset ==
    /\ DemoMode
    /\ decisions' = [d \in DecisionIds |-> NoRow]
    /\ replays' = [r \in ReplayIds |-> NoRow]
    /\ remediations' = {}
    /\ UNCHANGED <<clock, firstSeenAt, capabilities>>

Tick ==
    /\ clock < MaxTime
    /\ clock' = clock + 1
    /\ UNCHANGED <<firstSeenAt, capabilities, decisions, replays, remediations>>

Next ==
    \/ \E d \in DecisionIds, q \in Requests : CreateDecision(d, q)
    \/ \E q \in Requests : AbandonDecision(q)
    \/ \E r \in ReplayIds, d, produced \in DecisionIds, mode \in {"EXACT", "FORK"},
          version \in Versions :
          \E changes \in ForkChanges \cup Recommended(d) :
             CreateReplay(r, d, produced, mode, changes, version)
    \/ \E d \in DecisionIds, f \in FactorIds : VerifyRemediation(d, f)
    \/ \E u \in Users : Enroll(u)
    \/ Reset
    \/ Tick

Spec == Init /\ [][Next]_vars

-----------------------------------------------------------------------------
(* Properties.                                                              *)

Rows == {decisions[d] : d \in {x \in DecisionIds : decisions[x] # NoRow}}
\* "identical" of a stored diff.
Identical(r) == r.sections = {}

Replays == {replays[r] : r \in {x \in ReplayIds : replays[x] # NoRow}}

\* Every variable has its type.
TypeOK ==
    /\ clock \in 1..MaxTime
    /\ firstSeenAt \in [Devices -> 0..MaxTime \cup {NotSeen}]
    /\ \A u \in Users : "PASSKEY_ENROLLED" \in capabilities[u]
                         \/ capabilities[u] = SeededCapabilities[u]
    /\ \A d \in Rows :
          /\ d.version \in Versions
          /\ IsOutcome(d.outcome)
          /\ d.evidence \in Seq(EvidenceItems)
    /\ \A r \in Replays : {decisions[r.source], decisions[r.produced]} \subseteq Rows
    /\ \A m \in remediations : decisions[m.decision] \in Rows

\* An exact replay under the source's own policy version tells the same story
\* as the source at any later time, unless the user enrolled a passkey in
\* between.
ExactReplayAgrees ==
    \A r \in Replays :
        LET source == decisions[r.source]
            produced == decisions[r.produced]
        IN  ( /\ r.mode = "EXACT"
              /\ source.version = produced.version
              /\ source.using = produced.using )
            => Identical(r)

\* replayService.ts: an EXACT replay "must be semantically identical".
ExactReplayIsIdentical ==
    \A r \in Replays :
        r.mode = "EXACT" /\ decisions[r.source].version = decisions[r.produced].version
            => Identical(r)

\* A diff blames what was declared, and what changed because of it.  The INPUT
\* section is there only if the fork changed evidence, the POLICY section only
\* if another version was named; each derived section only with a change in
\* what it is derived from, capabilities and risk included.
\* (diffDecisions.ts: "policy deltas can never be mislabeled as input changes".)
DiffFollowsCauses ==
    \A r \in Replays :
        LET source == decisions[r.source]
            produced == decisions[r.produced]
            changed(s) == s \in r.sections
            sameRisk == source.outcome.risk = produced.outcome.risk
        IN  /\ changed("INPUT") => r.mode = "FORK" /\ r.changes.evidence # <<>>
            /\ changed("POLICY") <=> source.version # produced.version
            /\ changed("THREAT") => changed("INPUT") \/ changed("POLICY")
            /\ changed("TRUST") => changed("THREAT") \/ changed("POLICY")
            /\ changed("FACTOR") => \/ changed("TRUST") \/ changed("POLICY")
                                   \/ ~sameRisk \/ source.using # produced.using
            /\ ~sameRisk => changed("INPUT") \/ changed("POLICY")
            /\ source.outcome.selected # produced.outcome.selected => changed("FACTOR")
            /\ changed("RULE") => \E s \in r.sections : s \notin {"RULE", "POLICY"}

\* buildTrace.ts: the chain from evidence to selection "can be reconstructed
\* without code": the trace, without the policy's rules, tells what the
\* decision's tables say, also of threats that rest on stale evidence alone.
TraceTellsOutcome ==
    \A d \in Rows : TellsOutcome(TraceOf(d, PolicyOf(d.version)), d.outcome)

\* What remediation claims, a fork with the recommended changes delivers, at
\* any later time, as long as the user's capabilities are those of the claim.
RemediationDelivers ==
    \A m \in remediations, r \in Replays :
        LET source == decisions[r.source]
            produced == decisions[r.produced]
        IN  ( /\ r.source = m.decision
              /\ r.mode = "FORK"
              /\ source.version = produced.version
              /\ \E s \in m.sets : /\ r.changes = AsFork(s)
                                   /\ produced.using = m.using \cup s.enables )
            => /\ m.factor \in Eligible(produced.outcome)
               /\ m.status = "VERIFIED_SELECTED" => produced.outcome.selected = m.factor

\* A part of a recommended change set makes the factor eligible just if the
\* set is nothing but capabilities that were missing when the decision was made
\* and are on by the time of the verification: the failed requirement is stored,
\* capabilities are read anew, and the client is told to enable what is on.
\* In all other cases it is never told to change more than it has to.
MinimalUnlessEnabledSince ==
    \A m \in remediations : \A s \in m.sets :
        LET d == decisions[m.decision]
            part == [flips: SUBSET s.flips, enables: SUBSET s.enables]
            enabledSince == /\ s.flips = {} /\ s.enables # {}
                            /\ s.enables \subseteq m.using \ d.using
        IN  enabledSince <=>
              \E t \in part \ {s} :
                 m.factor \in Eligible(Changed(d, m.using, t, PolicyOf(d.version)))

\* verifyRemediation.ts: candidates for a failed trust requirement are "AND the
\* threat's primary-rule evidence".  So a factor that the primary evidence of
\* an impacting threat alone keeps out is not reported as remaining ineligible.
RemediationTriesPrimary ==
    \A m \in remediations :
        LET d == decisions[m.decision]
            p == PolicyOf(d.version)
            primary == {r.type : r \in {q \in p.threats : /\ q.kind = "PRIMARY"
                          /\ \E x \in d.outcome.factors[m.factor].domains :
                                q.threat \in TrustThreats(x, d.outcome.support, p)}}
        IN  m.status = "REMAINS_INELIGIBLE" =>
              \A t \in primary :
                 m.factor \notin Eligible(Changed(d, m.using, Flip(t), p))

\* An SMS code is never eligible after a SIM change, fresh or stale, whatever
\* else is observed, replayed or forked, under either policy: where trust lets
\* it through, the risk still asks for more assurance.
SmsClosedAfterSimChange ==
    \A d \in Rows : Holds("RECENT_SIM_CHANGE", d.evidence) =>
        "SMS_OTP" \notin Eligible(d.outcome)

\* Replaying a decision of 1.0.0 under the candidate policy leaves SMS_OTP and
\* PIN as they were and can only take PASSKEY and TOTP away.
CandidateOnlyRestricts ==
    \A r \in Replays :
        LET source == decisions[r.source]
            produced == decisions[r.produced]
            before == source.outcome.factors
            after == produced.outcome.factors
        IN  ( /\ r.changes = NoChanges
              /\ source.using = produced.using
              /\ source.version = "1.0.0"
              /\ produced.version = "1.1.0" )
            => /\ \A f \in {"SMS_OTP", "PIN"} : after[f] = before[f]
               /\ \A f \in {"PASSKEY", "TOTP"} :
                     after[f] = before[f] \/ after[f].status = "INELIGIBLE"

\* Under 1.0.0, one alarm more never makes a factor eligible that was not, in
\* spite of conflicting evidence, which suppresses a threat.
AlarmOnlyRestricts ==
    \A r \in Replays :
        LET source == decisions[r.source]
            produced == decisions[r.produced]
        IN  ( /\ source.version = "1.0.0"
              /\ produced.version = "1.0.0"
              /\ source.using = produced.using
              /\ \E t \in Alarms : r.changes.evidence = <<[type |-> t, value |-> "true"]>> )
            => Eligible(produced.outcome) \subseteq Eligible(source.outcome)

=============================================================================
