--------------------------- MODULE OneTimeChallenge ---------------------------
(***************************************************************************)
(* What the challenge service promises, without handlers, tables or time:  *)
(* a challenge is issued for a decided transaction, is settled at most     *)
(* once, and the step that settles it is the step that sets the outcome of *)
(* its transaction.  A reset forgets everything at once; a challenge that  *)
(* was wiped never comes back.                                             *)
(***************************************************************************)
CONSTANTS
    DecisionIds,
    ChallengeIds,
    NoDecision          \* what a challenge that is not issued is bound to

VARIABLES
    phase,              \* of each challenge
    boundTo,            \* the decision a challenge was issued for
    outcome             \* of each decision's transaction

promiseVars == <<phase, boundTo, outcome>>

Phases == {"unused", "open", "verified", "denied", "wiped"}

PromiseInit ==
    /\ phase = [c \in ChallengeIds |-> "unused"]
    /\ boundTo = [c \in ChallengeIds |-> NoDecision]
    /\ outcome = [d \in DecisionIds |-> "NONE"]

Decide(d) ==
    /\ outcome[d] = "NONE"
    /\ outcome' = [outcome EXCEPT ![d] = "PENDING"]
    /\ UNCHANGED <<phase, boundTo>>

Issue(c, d) ==
    /\ phase[c] = "unused"
    /\ outcome[d] # "NONE"
    /\ phase' = [phase EXCEPT ![c] = "open"]
    /\ boundTo' = [boundTo EXCEPT ![c] = d]
    /\ UNCHANGED outcome

Settle(c, verdict) ==
    /\ phase[c] = "open"
    /\ phase' = [phase EXCEPT ![c] = verdict]
    /\ outcome' = [outcome EXCEPT ![boundTo[c]] =
                     IF verdict = "verified" THEN "AUTHORIZED" ELSE "DENIED"]
    /\ UNCHANGED boundTo

Wipe ==
    /\ phase' = [c \in ChallengeIds |->
                   IF phase[c] = "unused" THEN "unused" ELSE "wiped"]
    /\ boundTo' = [c \in ChallengeIds |-> NoDecision]
    /\ outcome' = [d \in DecisionIds |-> "NONE"]

PromiseNext ==
    \/ \E d \in DecisionIds : Decide(d)
    \/ \E c \in ChallengeIds, d \in DecisionIds : Issue(c, d)
    \/ \E c \in ChallengeIds, v \in {"verified", "denied"} : Settle(c, v)
    \/ Wipe

PromiseSpec == PromiseInit /\ [][PromiseNext]_promiseVars

=============================================================================
