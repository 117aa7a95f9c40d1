----------------------------- MODULE MCDecisions -----------------------------
(***************************************************************************)
(* TLC's instances of Decisions: the two seeded users, a seeded and a new  *)
(* device, and sets of requests and forks the cfg files choose from.       *)
(***************************************************************************)
EXTENDS Decisions

CONSTANTS aarav, priya, laptop, phone

MCUsers == {aarav, priya}
MCDevices == {laptop, phone}
MCSeededDevices == {laptop}

\* user_capabilities of 002_seed.sql.
MCSeededCapabilities ==
    (aarav :> {"PASSKEY_ENROLLED", "WEBAUTHN_SUPPORTED", "NETWORK_AVAILABLE"})
        @@ (priya :> {"WEBAUTHN_SUPPORTED", "NETWORK_AVAILABLE"})

True(type) == [type |-> type, value |-> "true"]

\* Every combination of overrides that raise the alarms of a set.
Raising(types) == {SetToSeq({True(t) : t \in s}) : s \in SUBSET types}

RequestsOf(users, devices, versions, amounts, payees, bursts, overrides) ==
    [client: {"ct"}, user: users, device: devices, version: versions,
     highValue: amounts, newPayee: payees, burst: bursts, overrides: overrides]

\* All that may raise the risk, in every combination.
BroadRequests ==
    RequestsOf({aarav}, MCDevices, {Unspecified}, BOOLEAN, BOOLEAN, {FALSE},
               Raising({"RECENT_SIM_CHANGE", "PHISHING_RELAY_INDICATOR",
                        "FAILED_LOGIN_BURST", "GEO_DISTANCE_ANOMALY"}))

\* One fork per alarm raised or lowered, and one with the passkey off.
AlarmForks ==
    {NoChanges, [NoChanges EXCEPT !.off = {"PASSKEY_ENROLLED"}]}
      \cup {[NoChanges EXCEPT !.evidence = <<[type |-> t, value |-> v]>>] :
              t \in Alarms, v \in {"true", "false"}}

\* Few of them, under either policy.
FewRequests ==
    RequestsOf(MCUsers, {phone}, {Unspecified, "1.1.0"}, {FALSE}, BOOLEAN, {FALSE},
               Raising({"RECENT_SIM_CHANGE"}))

\* What remediation has to search: alarms that only combine, in evidence that
\* an override can and cannot reach.
RemedyRequests ==
    RequestsOf(MCUsers, {laptop}, {Unspecified}, {FALSE}, BOOLEAN, BOOLEAN,
               Raising({"RECENT_SIM_CHANGE", "FIRST_SEEN_DEVICE", "FAILED_LOGIN_BURST"}))

\* For longer histories: on the seeded device the alarms remediation has to
\* combine, on a new one a burst of failed logins and the candidate policy.
MixedRequests ==
    RequestsOf({aarav}, {laptop}, {Unspecified}, {FALSE}, {FALSE}, {FALSE},
               Raising({"RECENT_SIM_CHANGE", "FIRST_SEEN_DEVICE", "FAILED_LOGIN_BURST"}))
    \cup RequestsOf({priya}, {phone}, {"1.1.0"}, {FALSE}, {TRUE}, {TRUE},
               Raising({"RECENT_SIM_CHANGE"}))

NoForks == {NoChanges}

\* Ids are interchangeable.
Symmetry == Permutations(DecisionIds) \cup Permutations(ReplayIds)

=============================================================================
