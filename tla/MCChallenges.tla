----------------------------- MODULE MCChallenges -----------------------------
(***************************************************************************)
(* TLC's instances of Challenges.  The cfg files choose how many decisions,*)
(* challenges and requests there are.                                      *)
(***************************************************************************)
EXTENDS Challenges, TLC

CONSTANTS local, plain

\* What the engine may persist: a payment of low risk, for which only the
\* unseeded TOTP is out, and one of high risk after a SIM swap, in a browser
\* without WebAuthn, for which no factor is left.
MCFactorMaps ==
    { [f \in Factors |-> CASE f = "TOTP" -> "UNAVAILABLE"
                           [] OTHER -> "ELIGIBLE"],
      [f \in Factors |-> CASE f \in {"TOTP", "PASSKEY"} -> "UNAVAILABLE"
                           [] OTHER -> "INELIGIBLE"] }

\* Payments that may be confirmed with a passkey.
MCPasskeyMaps == {m \in MCFactorMaps : m["PASSKEY"] = "ELIGIBLE"}

\* http://localhost:5173, where WebAuthn runs, and a plain http origin.
MCOrigins == {local, plain}
MCSecureOrigins == {local}

\* Ids are interchangeable, and so are the request slots.
Symmetry ==
    Permutations(DecisionIds) \cup Permutations(ChallengeIds)
        \cup Permutations(CredentialIds) \cup Permutations(CeremonyIds)
        \cup Permutations(CreateCalls) \cup Permutations(VerifyCalls)

=============================================================================
