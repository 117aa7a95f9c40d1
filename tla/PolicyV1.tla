------------------------------- MODULE PolicyV1 -------------------------------
(***************************************************************************)
(* The two policy bundles of packages/policy-bundles/src/v1.ts: the active *)
(* bundle 1.0.0 and the draft candidate 1.1.0.  Every predicate of their   *)
(* rules is "some evidence of this type is true", so a rule carries the    *)
(* evidence type alone.                                                    *)
(***************************************************************************)

Severe == {"RECENT_SIM_CHANGE", "PHISHING_RELAY_INDICATOR", "HIGH_VALUE_TRANSACTION"}
Notable == {"FIRST_SEEN_DEVICE", "FAILED_LOGIN_BURST", "NEW_PAYEE", "GEO_DISTANCE_ANOMALY"}

\* The evidence types some rule looks at.
Alarms == Severe \cup Notable

RiskRules ==
    [type: Severe, severity: {"HIGH"}] \cup [type: Notable, severity: {"MEDIUM"}]

RulesOf(threat, kind, types) == [threat: {threat}, kind: {kind}, type: types]

ThreatRules ==
    UNION {
      RulesOf("SIM_CHANNEL_COMPROMISE", "PRIMARY", {"RECENT_SIM_CHANGE"}),
      RulesOf("SIM_CHANNEL_COMPROMISE", "SUPPORTING",
              {"FIRST_SEEN_DEVICE", "FAILED_LOGIN_BURST",
               "HIGH_VALUE_TRANSACTION", "NEW_PAYEE"}),
      RulesOf("SIM_CHANNEL_COMPROMISE", "CONFLICTING", {"PHISHING_RELAY_INDICATOR"}),
      RulesOf("PHISHING_RELAY", "PRIMARY", {"PHISHING_RELAY_INDICATOR"}),
      RulesOf("PHISHING_RELAY", "SUPPORTING",
              {"FAILED_LOGIN_BURST", "NEW_PAYEE", "FIRST_SEEN_DEVICE"}),
      RulesOf("PHISHING_RELAY", "CONFLICTING", {"RECENT_SIM_CHANGE"}),
      RulesOf("DEVICE_INTEGRITY_CONCERN", "PRIMARY", {"FIRST_SEEN_DEVICE"}),
      RulesOf("DEVICE_INTEGRITY_CONCERN", "SUPPORTING",
              {"FAILED_LOGIN_BURST", "GEO_DISTANCE_ANOMALY"}) }

Impact(threat, domain, impact) == [threat |-> threat, domain |-> domain, impact |-> impact]

TrustImpactRules ==
    { Impact("SIM_CHANNEL_COMPROMISE", "SIM_OWNERSHIP", "DISTRUST"),
      Impact("SIM_CHANNEL_COMPROMISE", "TELECOM_DELIVERY", "DISTRUST"),
      Impact("PHISHING_RELAY", "TELECOM_DELIVERY", "DISTRUST"),
      Impact("PHISHING_RELAY", "USER_VERIFICATION", "DEGRADE"),
      Impact("DEVICE_INTEGRITY_CONCERN", "DEVICE_INTEGRITY", "DEGRADE"),
      Impact("DEVICE_INTEGRITY_CONCERN", "SESSION_INTEGRITY", "DISTRUST") }

\* The candidate's one deliberate change.
\* (CandidateForgetsBase: with the rules of 1.0.0 left out.)
CandidateForgetsBase ==
    {Impact("SIM_CHANNEL_COMPROMISE", "CREDENTIAL_INTEGRITY", "DEGRADE")}

CandidateTrustImpactRules ==
    TrustImpactRules
        \cup {Impact("SIM_CHANNEL_COMPROMISE", "CREDENTIAL_INTEGRITY", "DEGRADE")}

Requires(domain, minimum) == [domain |-> domain, minimum |-> minimum]

FactorDefinitions ==
    [ SMS_OTP |-> [assurance |-> "AAL1", friction |-> "LOW",
                   capabilities |-> {"NETWORK_AVAILABLE"},
                   trust |-> {Requires("SIM_OWNERSHIP", "TRUSTED"),
                              Requires("TELECOM_DELIVERY", "TRUSTED")}],
      PASSKEY |-> [assurance |-> "AAL2", friction |-> "LOW",
                   capabilities |-> {"PASSKEY_ENROLLED", "WEBAUTHN_SUPPORTED"},
                   trust |-> {Requires("DEVICE_INTEGRITY", "DEGRADED"),
                              Requires("ORIGIN_BINDING", "TRUSTED"),
                              Requires("CREDENTIAL_INTEGRITY", "TRUSTED")}],
      TOTP    |-> [assurance |-> "AAL2", friction |-> "MEDIUM",
                   capabilities |-> {"TOTP_SEED"},
                   trust |-> {Requires("CREDENTIAL_INTEGRITY", "TRUSTED"),
                              Requires("KNOWLEDGE_SECRECY", "TRUSTED")}],
      PIN     |-> [assurance |-> "AAL1", friction |-> "HIGH",
                   capabilities |-> {},
                   trust |-> {Requires("SESSION_INTEGRITY", "TRUSTED"),
                              Requires("KNOWLEDGE_SECRECY", "TRUSTED")}] ]

\* SELECTION_POLICY: the assurance a risk level asks for, and the tie-breaker.
RequiredAssurance == [LOW |-> "AAL1", MEDIUM |-> "AAL1", HIGH |-> "AAL2"]
TieBreaker == <<"PASSKEY", "TOTP", "SMS_OTP", "PIN">>

Bundle(version, impacts) ==
    [version |-> version, risk |-> RiskRules, threats |-> ThreatRules,
     impacts |-> impacts, factors |-> FactorDefinitions,
     required |-> RequiredAssurance, tieBreaker |-> TieBreaker]

ActiveVersion == "1.0.0"
CandidateVersion == "1.1.0"

\* The bundles seedDemoData stores, and findByVersion.
Policies ==
    {Bundle(ActiveVersion, TrustImpactRules),
     Bundle(CandidateVersion, CandidateTrustImpactRules)}

Versions == {p.version : p \in Policies}
PolicyOf(version) == CHOOSE p \in Policies : p.version = version

=============================================================================
