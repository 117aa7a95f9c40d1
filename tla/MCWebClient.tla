----------------------------- MODULE MCWebClient -----------------------------
(***************************************************************************)
(* TLC's instances of WebClient.                                           *)
(***************************************************************************)
EXTENDS WebClient, TLC

\* Ids are interchangeable.
Symmetry == Permutations(DecisionIds) \cup Permutations(ChallengeIds)
               \cup Permutations(CallIds)

=============================================================================
