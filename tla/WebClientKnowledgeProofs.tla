----------------------- MODULE WebClientKnowledgeProofs -----------------------
(***************************************************************************)
(* Proofs that a browser never asks for a verification twice, and that the *)
(* verdicts and traces it shows are current.                               *)
(*                                                                         *)
(* Three sets say what a panel and a request have to do with the server:   *)
(* the challenges they refer to, those among them that can still be        *)
(* settled (they hold them), and the decisions they know.  A challenge has *)
(* one holder (HoldersInv) and a decision is known to one panel and its    *)
(* request, or to one request that no panel waits for any more             *)
(* (Exclusive).  So nobody else can settle a challenge of a decision a     *)
(* panel shows, which is what makes its verdict current.                   *)
(*                                                                         *)
(* Seen this way a step outside the server lets things be forgotten        *)
(* (Forgetting), hands them down from a request to a panel (Down) or up    *)
(* from a panel to a new request (Up).                                     *)
(***************************************************************************)
EXTENDS WebClientProofs

\* The challenges a panel's flow refers to, and the one it holds.
FlowHolds(f) == {c \in ChallengeIds : f.challenge # NoChallenge /\ f.challenge.id = c}
FlowRefs(f) ==
    FlowHolds(f) \cup
    {c \in ChallengeIds : f.phase = "verified" /\ f.verification.challenge = c}

\* The same for a request: a creation hands its challenge to its panel if that
\* is still there, and a verification is about one.
Delivered(x) == x.answer \notin {Pending, Failed}

CallHolds(x) ==
    {c \in ChallengeIds :
        /\ x # NoCall
        /\ \/ x.kind = "create" /\ x.mounted /\ Delivered(x) /\ x.answer.id = c
           \/ x.kind \in {"prompt", "verify"} /\ x.answer = Pending /\ x.challenge.id = c}
CallRefs(x) ==
    CallHolds(x) \cup
    {c \in ChallengeIds :
        x # NoCall /\ x.kind \in {"prompt", "verify"} /\ x.challenge.id = c}

\* The decisions a slot shows and those a request names.
ViewNames(v) == {d \in DecisionIds : v # Empty /\ v.decision = d}
CallNames(x) ==
    {d \in DecisionIds :
        /\ x # NoCall
        /\ \/ x.kind = "evaluate" /\ Delivered(x) /\ x.answer.decision = d
           \/ x.kind = "create" /\ x.mounted /\ x.decision = d
           \/ x.kind \in {"prompt", "verify"} /\ x.seen = d
           \/ x.kind = "refresh" /\ x.decision = d}

\* All decisions a panel, and a request, know.
BoundOf(C) == {d \in DecisionIds : \E c \in C : boundTo[c] = d}
SlotKnows(s) == ViewNames(slots[s]) \cup BoundOf(FlowRefs(flow[s]))
CallKnows(k) == CallNames(calls[k]) \cup BoundOf(CallRefs(calls[k]))

\* Challenges that are referred to were issued.
RefsIssued ==
    /\ \A s \in Slots : \A c \in FlowRefs(flow[s]) : phase[c] # "unused"
    /\ \A k \in CallIds : \A c \in CallRefs(calls[k]) : phase[c] # "unused"

\* A challenge has one holder, and is not settled as long as it has.
HoldersInv ==
    /\ \A s \in Slots, t \in Slots :
          s # t => FlowHolds(flow[s]) \cap FlowHolds(flow[t]) = {}
    /\ \A j \in CallIds, k \in CallIds :
          j # k => CallHolds(calls[j]) \cap CallHolds(calls[k]) = {}
    /\ \A s \in Slots, k \in CallIds : FlowHolds(flow[s]) \cap CallHolds(calls[k]) = {}
    /\ \A s \in Slots : \A c \in FlowHolds(flow[s]) : phase[c] \in {"open", "wiped"}
    /\ \A k \in CallIds : \A c \in CallHolds(calls[k]) : phase[c] \in {"open", "wiped"}

\* A decision is known to one panel with its request, or to one request.
Exclusive ==
    /\ \A s \in Slots, t \in Slots : s # t => SlotKnows(s) \cap SlotKnows(t) = {}
    /\ \A j \in CallIds, k \in CallIds : j # k => CallKnows(j) \cap CallKnows(k) = {}
    /\ \A s \in Slots, k \in CallIds :
          SlotKnows(s) \cap CallKnows(k) # {} => Panel(k, s)

\* A verdict is about the challenge it was asked for.
VerdictsMatch ==
    \A k \in CallIds :
        Answered(k, "verify") /\ calls[k].answer # Failed =>
            calls[k].answer.challenge = calls[k].challenge.id

\* A verdict tells the status of the decision its challenge is bound to.
Tells(v) ==
    boundTo[v.challenge] \in DecisionIds =>
       outcome[boundTo[v.challenge]] = IF v.verdict = "verified" THEN "AUTHORIZED" ELSE "DENIED"

\* So do the verdicts that are shown and those on their way; and a panel that
\* has a challenge verified shows no verdict meanwhile.
VerdictsInv ==
    /\ VerdictsMatch
    /\ \A s \in Slots : flow[s].phase = "verified" => Tells(flow[s].verification)
    /\ \A k \in CallIds :
          Answered(k, "verify") /\ calls[k].answer # Failed => Tells(calls[k].answer)
    /\ \A k \in CallIds, s \in Slots :
          Panel(k, s) /\ calls[k].kind \in {"prompt", "verify"} => flow[s].phase # "verified"

\* What a slot shows, and what a refresh brings, are so many events as the
\* decision has, or fewer; a refresh brings no fewer than its panel shows.
TraceInv ==
    /\ \A s \in Slots : slots[s] # Empty /\ outcome[Shown(s)] # "NONE" =>
                         slots[s].events <= Events(Shown(s))
    /\ \A k \in CallIds :
          Answered(k, "evaluate") /\ calls[k].answer # Failed => calls[k].answer.events = 0
    /\ \A k \in CallIds :
          Answered(k, "refresh") /\ calls[k].answer # Failed =>
             /\ outcome[calls[k].decision] # "NONE" =>
                   calls[k].answer.events <= Events(calls[k].decision)
             /\ \A s \in Slots :
                   Panel(k, s) /\ slots[s] # Empty /\ Shown(s) = calls[k].decision =>
                      slots[s].events <= calls[k].answer.events

-----------------------------------------------------------------------------
(* Steps as the handing over of references.                                 *)

PanelForgets(s) ==
    /\ FlowHolds(flow'[s]) \subseteq FlowHolds(flow[s])
    /\ FlowRefs(flow'[s]) \subseteq FlowRefs(flow[s])
    /\ ViewNames(slots'[s]) \subseteq ViewNames(slots[s])

CallForgets(k) ==
    /\ CallHolds(calls'[k]) \subseteq CallHolds(calls[k])
    /\ CallRefs(calls'[k]) \subseteq CallRefs(calls[k])
    /\ CallNames(calls'[k]) \subseteq CallNames(calls[k])

CallSilent(x) == CallHolds(x) = {} /\ CallRefs(x) = {} /\ CallNames(x) = {}
PanelBlank(s) == FlowRefs(flow[s]) = {} /\ ViewNames(slots[s]) = {}

\* A panel's request stays with it, ends, or the panel is gone.
Stays(k, s) == Panel(k, s) => Panel(k, s)' \/ CallSilent(calls'[k]) \/ PanelBlank(s)'

Forgetting ==
    /\ UNCHANGED <<phase, boundTo>>
    /\ \A s \in Slots : PanelForgets(s)
    /\ \A k \in CallIds : CallForgets(k)
    /\ \A k \in CallIds, s \in Slots : Stays(k, s)

Down(k, s) ==
    /\ UNCHANGED <<phase, boundTo>>
    /\ \A t \in Slots \ {s} : PanelForgets(t)
    /\ \A j \in CallIds : CallForgets(j)
    /\ FlowHolds(flow'[s]) \subseteq FlowHolds(flow[s]) \cup CallHolds(calls[k])
    /\ FlowRefs(flow'[s]) \subseteq FlowRefs(flow[s]) \cup CallRefs(calls[k])
    /\ ViewNames(slots'[s]) \subseteq ViewNames(slots[s]) \cup CallNames(calls[k])
    /\ CallHolds(calls'[k]) = {}
    /\ \A t \in Slots : Panel(k, t) => t = s
    /\ Panel(k, s)' \/ CallSilent(calls'[k])
    /\ \A j \in CallIds \ {k}, t \in Slots : Panel(j, t) => Panel(j, t)'

Up(k, s) ==
    /\ UNCHANGED <<phase, boundTo>>
    /\ \A t \in Slots : PanelForgets(t)
    /\ \A j \in CallIds \ {k} : CallForgets(j)
    /\ CallHolds(calls'[k]) \subseteq FlowHolds(flow[s])
    /\ FlowHolds(flow'[s]) = {}
    /\ CallRefs(calls'[k]) \subseteq FlowRefs(flow[s])
    /\ CallNames(calls'[k]) \subseteq ViewNames(slots[s])
    /\ \A j \in CallIds : ~Panel(j, s)
    /\ Panel(k, s)'
    /\ \A j \in CallIds \ {k}, t \in Slots : Panel(j, t) => Panel(j, t)'

-----------------------------------------------------------------------------
(* What such steps keep.                                                    *)

Ledger == RefsIssued /\ HoldersInv /\ Exclusive

LEMMA KnowledgeShrinks ==
    ASSUME UNCHANGED boundTo
    PROVE  /\ \A s \in Slots : PanelForgets(s) => SlotKnows(s)' \subseteq SlotKnows(s)
           /\ \A k \in CallIds : CallForgets(k) => CallKnows(k)' \subseteq CallKnows(k)
           /\ \A k \in CallIds : CallSilent(calls'[k]) => CallKnows(k)' = {}
           /\ \A s \in Slots : PanelBlank(s)' => SlotKnows(s)' = {}
<1> USE DEF SlotKnows, CallKnows, BoundOf
<1>1. ASSUME NEW s \in Slots, PanelForgets(s)
      PROVE  SlotKnows(s)' \subseteq SlotKnows(s)
  BY <1>1 DEF PanelForgets
<1>2. ASSUME NEW k \in CallIds, CallForgets(k)
      PROVE  CallKnows(k)' \subseteq CallKnows(k)
  BY <1>2 DEF CallForgets
<1>3. ASSUME NEW k \in CallIds, CallSilent(calls'[k])
      PROVE  CallKnows(k)' = {}
  BY <1>3 DEF CallSilent
<1>4. ASSUME NEW s \in Slots, PanelBlank(s)'
      PROVE  SlotKnows(s)' = {}
  BY <1>4 DEF PanelBlank
<1> QED
  BY <1>1, <1>2, <1>3, <1>4

LEMMA ForgettingIsExclusive ==
    ASSUME Exclusive,
           \A s \in Slots : SlotKnows(s)' \subseteq SlotKnows(s),
           \A k \in CallIds : CallKnows(k)' \subseteq CallKnows(k),
           \A k \in CallIds, s \in Slots :
              Panel(k, s) => Panel(k, s)' \/ CallKnows(k)' = {} \/ SlotKnows(s)' = {}
    PROVE  Exclusive'
BY DEF Exclusive

LEMMA ForgettingKeeps ==
    ASSUME Ledger, Forgetting
    PROVE  Ledger'
<1> USE DEF Ledger, Forgetting
<1>1. RefsIssued'
  BY DEF RefsIssued, PanelForgets, CallForgets
<1>2. HoldersInv'
  BY DEF HoldersInv, PanelForgets, CallForgets
<1>3. Exclusive'
  BY KnowledgeShrinks, ForgettingIsExclusive DEF Stays
<1> QED
  BY <1>1, <1>2, <1>3

LEMMA DownKeeps ==
    ASSUME Ledger, NEW k \in CallIds, NEW s \in Slots, Down(k, s)
    PROVE  Ledger'
<1> USE DEF Ledger, Down
<1>1. RefsIssued'
  BY DEF RefsIssued, PanelForgets, CallForgets
<1>2. HoldersInv'
  <2>1. \A t \in Slots \ {s} : FlowHolds(flow'[t]) \subseteq FlowHolds(flow[t])
    BY DEF PanelForgets
  <2>2. \A j \in CallIds : CallHolds(calls'[j]) \subseteq CallHolds(calls[j])
    BY DEF CallForgets
  <2>3. /\ \A t \in Slots, u \in Slots :
              t # u => FlowHolds(flow'[t]) \cap FlowHolds(flow'[u]) = {}
        /\ \A t \in Slots : \A c \in FlowHolds(flow'[t]) : phase[c] \in {"open", "wiped"}
    BY <2>1 DEF HoldersInv
  <2>4. \A t \in Slots, j \in CallIds : FlowHolds(flow'[t]) \cap CallHolds(calls'[j]) = {}
    <3>1. \A t \in Slots \ {s}, j \in CallIds :
             FlowHolds(flow'[t]) \cap CallHolds(calls'[j]) = {}
      BY <2>1, <2>2 DEF HoldersInv
    <3>2. \A j \in CallIds \ {k} : FlowHolds(flow'[s]) \cap CallHolds(calls'[j]) = {}
      BY <2>2 DEF HoldersInv
    <3> QED
      BY <3>1, <3>2
  <2>5. /\ \A i \in CallIds, j \in CallIds :
              i # j => CallHolds(calls'[i]) \cap CallHolds(calls'[j]) = {}
        /\ \A j \in CallIds : \A c \in CallHolds(calls'[j]) : phase[c] \in {"open", "wiped"}
    BY <2>2 DEF HoldersInv
  <2> QED
    BY <2>3, <2>4, <2>5 DEF HoldersInv
<1>3. SlotKnows(s)' \subseteq SlotKnows(s) \cup CallKnows(k)
  BY DEF SlotKnows, CallKnows, BoundOf
<1>4. Exclusive'
  BY <1>3, KnowledgeShrinks DEF Exclusive
<1> QED
  BY <1>1, <1>2, <1>4

LEMMA UpKeeps ==
    ASSUME Ledger, NEW k \in CallIds, NEW s \in Slots, Up(k, s)
    PROVE  Ledger'
<1> USE DEF Ledger, Up
<1>1. RefsIssued'
  BY DEF RefsIssued, PanelForgets, CallForgets
<1>2. HoldersInv'
  BY DEF HoldersInv, PanelForgets, CallForgets
<1>3. CallKnows(k)' \subseteq SlotKnows(s)
  BY DEF SlotKnows, CallKnows, BoundOf
<1>4. Exclusive'
  BY <1>3, KnowledgeShrinks DEF Exclusive
<1> QED
  BY <1>1, <1>2, <1>4

-----------------------------------------------------------------------------
(* Clicks.                                                                  *)

LEMMA CallsExist == \A x \in Call : x # NoCall
BY WebClientConstants DEF WebClientAssumption

LEMMA SilentCalls ==
    /\ CallSilent(NoCall)
    /\ \A x \in Call :
          \/ x.kind = "evaluate" /\ x.answer \in {Pending, Failed}
          \/ x.kind = "reset"
          => CallSilent(x)
BY DEF CallSilent, CallHolds, CallRefs, CallNames, Delivered

\* The requests that are not touched.
LEMMA OtherCalls ==
    ASSUME TypeOK, NEW k \in CallIds, NEW x \in Call \cup {NoCall},
           calls' = [calls EXCEPT ![k] = x]
    PROVE  /\ calls'[k] = x
           /\ \A j \in CallIds \ {k} :
                 /\ calls'[j] = calls[j] /\ CallForgets(j)
                 /\ \A t \in Slots : Panel(j, t)' <=> Panel(j, t)
<1>1. calls'[k] = x /\ \A j \in CallIds \ {k} : calls'[j] = calls[j]
  BY SendEffect
<1> QED
  BY <1>1 DEF CallForgets, Panel, PanelCall

LEMMA OpeningForgets ==
    ASSUME TypeOK, NEW k \in CallIds, calls[k] = NoCall, NEW x \in Call, CallSilent(x),
           calls' = [calls EXCEPT ![k] = x], UNCHANGED <<phase, boundTo, flow, slots>>
    PROVE  Forgetting
<1>1. CallForgets(k)
  BY OtherCalls DEF CallForgets, CallSilent
<1>2. \A s \in Slots : ~Panel(k, s)
  BY DEF Panel, PanelCall
<1>3. \A s \in Slots : PanelForgets(s)
  BY DEF PanelForgets
<1> QED
  BY <1>1, <1>2, <1>3, OtherCalls DEF Forgetting, Stays

LEMMA CreateIsUp ==
    ASSUME PanelsInv, NEW k \in CallIds, NEW s \in Slots, NEW f \in AskedFactors,
           NEW p \in BOOLEAN, slots[s] # Empty, ~busy[s], Create(k, s, f, p)
    PROVE  Up(k, s)
<1>1. PICK x : x = [kind |-> "create", slot |-> s, mounted |-> TRUE,
                    decision |-> Shown(s), factor |-> f,
                    simulated |-> p, answer |-> Pending]
  OBVIOUS
<1>2. PICK g : g = [IdleFlow EXCEPT !.factor = f, !.phase = "creating"]
  OBVIOUS
<1>3. /\ flow' = [flow EXCEPT ![s] = g]
      /\ calls' = [calls EXCEPT ![k] = x]
      /\ UNCHANGED <<phase, boundTo, slots>>
  BY <1>1, <1>2 DEF Create, Send, serverVars, promiseVars, appVars
<1>4. Shown(s) \in DecisionIds
  BY DEF PanelsInv, TypeOK, View, Shown
<1>5. /\ x \in Call /\ x # NoCall /\ x.kind = "create" /\ x.mounted /\ x.slot = s
      /\ x.decision = Shown(s) /\ x.answer = Pending
  <2>1. /\ x \in CreateCall /\ x.kind = "create" /\ x.mounted /\ x.slot = s
        /\ x.decision = Shown(s) /\ x.answer = Pending
    BY <1>1, <1>4 DEF CreateCall
  <2> QED
    BY <2>1, CallsExist DEF Call
<1>6. g.challenge = NoChallenge /\ g.phase = "creating"
  BY <1>2 DEF IdleFlow
<1>7. flow'[s] = g /\ \A t \in Slots \ {s} : flow'[t] = flow[t]
  BY <1>3 DEF PanelsInv, TypeOK
<1>8. FlowHolds(g) = {} /\ FlowRefs(g) = {}
  BY <1>6 DEF FlowHolds, FlowRefs
<1>9. CallHolds(x) = {} /\ CallRefs(x) = {} /\ CallNames(x) = ViewNames(slots[s])
  <2>1. CallHolds(x) = {} /\ CallRefs(x) = {}
    BY <1>5 DEF CallHolds, CallRefs, Delivered
  <2>2. \A d \in DecisionIds : d \in CallNames(x) <=> d = Shown(s)
    BY <1>5 DEF CallNames
  <2>3. \A d \in DecisionIds : d \in ViewNames(slots[s]) <=> d = Shown(s)
    BY DEF ViewNames, Shown
  <2> QED
    BY <2>1, <2>2, <2>3 DEF CallNames, ViewNames
<1>10. calls'[k] = x /\ \A j \in CallIds \ {k} :
          CallForgets(j) /\ \A t \in Slots : Panel(j, t)' <=> Panel(j, t)
  BY <1>3, <1>5, OtherCalls DEF PanelsInv
<1>11. \A t \in Slots : PanelForgets(t)
  BY <1>3, <1>7, <1>8 DEF PanelForgets
<1>12. \A j \in CallIds : ~Panel(j, s)
  BY DEF PanelsInv, OneIf, OfPanel, Panel, PanelCall
<1>13. Panel(k, s)'
  BY <1>5, <1>10 DEF Panel, PanelCall
<1> QED
  BY <1>3, <1>7, <1>8, <1>9, <1>10, <1>11, <1>12, <1>13 DEF Up

LEMMA VerifyIsUp ==
    ASSUME PanelsInv, NEW k \in CallIds, NEW s \in Slots, Verify(k, s)
    PROVE  Up(k, s)
<1>1. PICK x : x = [kind |-> IF flow[s].challenge.mode = "WEBAUTHN" THEN "prompt"
                             ELSE "verify",
                    slot |-> s, mounted |-> TRUE, seen |-> Shown(s),
                    challenge |-> flow[s].challenge, answer |-> Pending]
  OBVIOUS
<1>2. PICK g : g = [flow[s] EXCEPT !.phase = "verifying", !.challenge = NoChallenge]
  OBVIOUS
<1>3. /\ slots[s] # Empty /\ ~busy[s] /\ flow[s].phase = "ready"
      /\ calls' = [calls EXCEPT ![k] = x]
      /\ UNCHANGED <<phase, boundTo, slots>>
  BY <1>1 DEF Verify, Send, serverVars, promiseVars, appVars
<1>4. flow' = [flow EXCEPT ![s] = g]
  <2>1. flow' = [flow EXCEPT ![s].phase = "verifying", ![s].challenge = NoChallenge]
    BY DEF Verify
  <2>2. flow \in [Slots -> Flow]
    BY DEF PanelsInv, TypeOK
  <2> QED
    BY <1>2, <2>1, <2>2
<1>5. /\ Shown(s) \in DecisionIds /\ flow[s] \in Flow
      /\ flow[s].challenge # NoChallenge /\ flow[s].challenge \in Handle
  BY <1>3 DEF PanelsInv, TypeOK, View, Shown, Flow
<1>6. /\ x \in Call /\ x # NoCall /\ x.kind \in {"prompt", "verify"} /\ x.mounted
      /\ x.slot = s /\ x.seen = Shown(s) /\ x.answer = Pending
      /\ x.challenge = flow[s].challenge
  <2>1. /\ x \in PromptCall \cup VerifyCall /\ x.kind \in {"prompt", "verify"} /\ x.mounted
        /\ x.slot = s /\ x.seen = Shown(s) /\ x.answer = Pending
        /\ x.challenge = flow[s].challenge
    BY <1>1, <1>5 DEF PromptCall, VerifyCall
  <2> QED
    BY <2>1, CallsExist DEF Call
<1>7. g.challenge = NoChallenge /\ g.phase = "verifying"
  BY <1>2, <1>5 DEF Flow
<1>8. flow'[s] = g /\ \A t \in Slots \ {s} : flow'[t] = flow[t]
  BY <1>4 DEF PanelsInv, TypeOK
<1>9. FlowHolds(g) = {} /\ FlowRefs(g) = {}
  BY <1>7 DEF FlowHolds, FlowRefs
<1>10. /\ CallHolds(x) = FlowHolds(flow[s]) /\ CallRefs(x) = FlowHolds(flow[s])
       /\ CallNames(x) = ViewNames(slots[s])
  BY <1>3, <1>5, <1>6 DEF CallHolds, CallRefs, CallNames, ViewNames, FlowHolds, Shown
<1>11. calls'[k] = x /\ \A j \in CallIds \ {k} :
          CallForgets(j) /\ \A t \in Slots : Panel(j, t)' <=> Panel(j, t)
  BY <1>3, <1>6, OtherCalls DEF PanelsInv
<1>12. \A t \in Slots : PanelForgets(t)
  BY <1>3, <1>8, <1>9 DEF PanelForgets
<1>13. \A j \in CallIds : ~Panel(j, s)
  BY <1>3 DEF PanelsInv, OneIf, OfPanel, Panel, PanelCall
<1>14. Panel(k, s)'
  BY <1>6, <1>11 DEF Panel, PanelCall
<1> QED
  BY <1>3, <1>8, <1>9, <1>10, <1>11, <1>12, <1>13, <1>14 DEF Up, FlowRefs

LEMMA ResetFlowForgets ==
    ASSUME TypeOK, NEW s \in Slots, ResetFlow(s)
    PROVE  Forgetting
<1>1. /\ flow' = [flow EXCEPT ![s] = IdleFlow]
      /\ UNCHANGED <<phase, boundTo, slots, calls>>
  BY DEF ResetFlow, serverVars, promiseVars, appVars
<1>2. FlowHolds(IdleFlow) = {} /\ FlowRefs(IdleFlow) = {}
  BY DEF IdleFlow, FlowHolds, FlowRefs
<1>3. flow'[s] = IdleFlow /\ \A t \in Slots \ {s} : flow'[t] = flow[t]
  BY <1>1 DEF TypeOK
<1> QED
  BY <1>1, <1>2, <1>3 DEF Forgetting, PanelForgets, CallForgets, Stays, Panel, PanelCall

-----------------------------------------------------------------------------
(* Answers that come back.                                                  *)

\* A continuation that changes its panel's flow only.
LEMMA UpdateForgets ==
    ASSUME PanelsInv, NEW k \in CallIds, PanelCall(k), NEW x \in Call \cup {NoCall},
           calls' = [calls EXCEPT ![k] = x], CallForgets(k),
           CallSilent(x) \/ \A t \in Slots : Panel(k, t) => Panel(k, t)',
           UNCHANGED <<phase, boundTo, slots>>, NEW f, NEW b, Update(calls[k], f, b),
           calls[k].mounted => /\ FlowHolds(f) \subseteq FlowHolds(flow[calls[k].slot])
                               /\ FlowRefs(f) \subseteq FlowRefs(flow[calls[k].slot])
    PROVE  Forgetting
<1>1. \A s \in Slots : PanelForgets(s)
  <2>1. CASE calls[k].mounted
    <3>1. calls[k].slot \in Slots /\ flow' = [flow EXCEPT ![calls[k].slot] = f]
      BY <2>1, PanelIsBusy DEF Update
    <3>2. \A s \in Slots : flow'[s] = IF s = calls[k].slot THEN f ELSE flow[s]
      BY <3>1 DEF PanelsInv, TypeOK
    <3> QED
      BY <2>1, <3>2 DEF PanelForgets
  <2>2. CASE ~calls[k].mounted
    <3>1. UNCHANGED flow
      BY <2>2 DEF Update, panelVars
    <3> QED
      BY <3>1 DEF PanelForgets
  <2> QED
    BY <2>1, <2>2
<1>2. /\ calls'[k] = x
      /\ \A j \in CallIds \ {k} :
            CallForgets(j) /\ \A t \in Slots : Panel(j, t)' <=> Panel(j, t)
  BY OtherCalls DEF PanelsInv
<1> QED
  BY <1>1, <1>2 DEF Forgetting, Stays

\* A continuation that hands something to its panel.
LEMMA UpdateHandsDown ==
    ASSUME PanelsInv, NEW k \in CallIds, PanelCall(k), calls[k].mounted,
           NEW x \in Call \cup {NoCall},
           calls' = [calls EXCEPT ![k] = x], CallForgets(k), CallHolds(x) = {},
           NEW s, s = calls[k].slot, CallSilent(x) \/ Panel(k, s)',
           UNCHANGED <<phase, boundTo>>, NEW f, NEW b, Update(calls[k], f, b),
           FlowHolds(f) \subseteq FlowHolds(flow[s]) \cup CallHolds(calls[k]),
           FlowRefs(f) \subseteq FlowRefs(flow[s]) \cup CallRefs(calls[k]),
           \A t \in Slots \ {s} : slots'[t] = slots[t],
           ViewNames(slots'[s]) \subseteq ViewNames(slots[s]) \cup CallNames(calls[k])
    PROVE  s \in Slots /\ Down(k, s)
<1>1. s \in Slots /\ flow' = [flow EXCEPT ![s] = f]
  BY PanelIsBusy DEF Update
<1>2. \A t \in Slots : flow'[t] = IF t = s THEN f ELSE flow[t]
  BY <1>1 DEF PanelsInv, TypeOK
<1>3. \A t \in Slots \ {s} : PanelForgets(t)
  BY <1>2 DEF PanelForgets
<1>4. /\ calls'[k] = x
      /\ \A j \in CallIds \ {k} :
            CallForgets(j) /\ \A t \in Slots : Panel(j, t)' <=> Panel(j, t)
  BY OtherCalls DEF PanelsInv
<1>5. \A t \in Slots : Panel(k, t) => t = s
  BY DEF Panel
<1> QED
  BY <1>1, <1>2, <1>3, <1>4, <1>5 DEF Down

Steps(k) == Forgetting \/ \E s \in Slots : Down(k, s)

LEMMA EvaluateReturnsSteps ==
    ASSUME PanelsInv, NEW k \in CallIds, EvaluateReturns(k)
    PROVE  Steps(k)
<1>1. /\ calls[k] # NoCall /\ calls[k].kind = "evaluate" /\ calls[k].answer # Pending
      /\ calls' = [calls EXCEPT ![k] = NoCall]
      /\ UNCHANGED <<phase, boundTo, flow>>
  BY DEF EvaluateReturns, Answered, Open, Send, serverVars, promiseVars, panelVars
<1>2. calls[k] \in EvaluateCall
  BY <1>1, KindsOfCalls DEF PanelsInv, TypeOK
<1>3. /\ calls'[k] = NoCall
      /\ \A j \in CallIds \ {k} :
            CallForgets(j) /\ \A t \in Slots : Panel(j, t)' <=> Panel(j, t)
  BY <1>1, OtherCalls DEF PanelsInv
<1>4. CallSilent(NoCall) /\ CallForgets(k)
  BY <1>3, SilentCalls DEF CallSilent, CallForgets
<1>5. \A t \in Slots : ~Panel(k, t)
  BY <1>1 DEF Panel, PanelCall
<1>6. CASE calls[k].answer = Failed
  <2>1. UNCHANGED slots
    BY <1>6 DEF EvaluateReturns
  <2> QED
    BY <1>1, <1>3, <1>4, <1>5, <2>1 DEF Steps, Forgetting, PanelForgets, Stays
<1>7. CASE calls[k].answer # Failed
  <2>1. PICK s : s = calls[k].slot
    OBVIOUS
  <2>2. s \in Slots /\ slots' = [slots EXCEPT ![s] = calls[k].answer]
    BY <1>2, <1>7, <2>1 DEF EvaluateReturns, EvaluateCall
  <2>3. slots'[s] = calls[k].answer /\ \A t \in Slots \ {s} : slots'[t] = slots[t]
    BY <2>2 DEF PanelsInv, TypeOK
  <2>4. ViewNames(slots'[s]) \subseteq CallNames(calls[k])
    BY <1>1, <1>7, <2>3 DEF ViewNames, CallNames, Delivered
  <2>5. Down(k, s)
    BY <1>1, <1>3, <1>4, <1>5, <2>3, <2>4 DEF Down, PanelForgets, CallSilent
  <2> QED
    BY <2>2, <2>5 DEF Steps
<1> QED
  BY <1>6, <1>7

\* Unmounting a panel lets its request forget what it would have handed down.
LEMMA UnmountedForgets ==
    ASSUME NEW x \in Call \cup {NoCall}
    PROVE  /\ CallHolds(Unmounted(x)) \subseteq CallHolds(x)
           /\ CallRefs(Unmounted(x)) \subseteq CallRefs(x)
           /\ CallNames(Unmounted(x)) \subseteq CallNames(x)
<1>1. CASE x = NoCall \/ x.kind \in {"evaluate", "reset"}
  BY <1>1 DEF Unmounted
<1>2. CASE x # NoCall /\ x.kind \notin {"evaluate", "reset"}
  <2>1. PICK y : y = Unmounted(x)
    OBVIOUS
  <2>2. /\ y.kind = x.kind /\ ~y.mounted /\ y.answer = x.answer
        /\ y.kind \in {"prompt", "verify"} => y.challenge = x.challenge /\ y.seen = x.seen
        /\ y.kind = "refresh" => y.decision = x.decision
    <3>1. y = [x EXCEPT !.mounted = FALSE]
      BY <1>2, <2>1 DEF Unmounted
    <3>2. x \in CreateCall \cup PromptCall \cup VerifyCall \cup RefreshCall
      BY <1>2, KindsOfCalls
    <3> QED
      BY <3>1, <3>2 DEF CreateCall, PromptCall, VerifyCall, RefreshCall
  <2>3. CallHolds(y) \subseteq CallHolds(x)
    BY <1>2, <2>2 DEF CallHolds
  <2>4. CallRefs(y) \subseteq CallRefs(x)
    BY <1>2, <2>2, <2>3 DEF CallRefs
  <2>5. CallNames(y) \subseteq CallNames(x)
    BY <1>2, <2>2 DEF CallNames
  <2> QED
    BY <2>1, <2>3, <2>4, <2>5
<1> QED
  BY <1>1, <1>2

LEMMA ResetReturnsSteps ==
    ASSUME PanelsInv, NEW k \in CallIds, ResetReturns(k)
    PROVE  Steps(k)
<1>1. /\ calls[k] # NoCall /\ calls[k].kind = "reset"
      /\ UNCHANGED <<phase, boundTo>>
  BY DEF ResetReturns, Answered, Open, serverVars, promiseVars
<1>2. CASE calls[k].answer = Failed
  <2>1. /\ calls' = [calls EXCEPT ![k] = NoCall]
        /\ UNCHANGED <<slots, flow>>
    BY <1>2 DEF ResetReturns, Send, panelVars
  <2>2. /\ calls'[k] = NoCall
        /\ \A j \in CallIds \ {k} :
              CallForgets(j) /\ \A t \in Slots : Panel(j, t)' <=> Panel(j, t)
    BY <2>1, OtherCalls DEF PanelsInv
  <2>3. CallForgets(k) /\ \A t \in Slots : ~Panel(k, t)
    BY <1>1, <2>2, SilentCalls DEF CallSilent, CallForgets, Panel, PanelCall
  <2> QED
    BY <1>1, <2>1, <2>2, <2>3 DEF Steps, Forgetting, PanelForgets, Stays
<1>3. CASE calls[k].answer # Failed
  <2>1. /\ slots' = [s \in Slots |-> Empty]
        /\ flow' = [s \in Slots |-> IdleFlow]
        /\ calls' = [j \in CallIds |-> IF j = k THEN NoCall ELSE Unmounted(calls[j])]
    BY <1>3 DEF ResetReturns
  <2>2. \A s \in Slots : FlowHolds(flow'[s]) = {} /\ FlowRefs(flow'[s]) = {}
                            /\ ViewNames(slots'[s]) = {}
    BY <2>1 DEF IdleFlow, FlowHolds, FlowRefs, ViewNames
  <2>3. ASSUME NEW j \in CallIds
        PROVE  CallForgets(j)
    <3>1. CASE j = k
      BY <2>1, <3>1, SilentCalls DEF CallSilent, CallForgets
    <3>2. CASE j # k
      BY <2>1, <3>2, UnmountedForgets DEF CallForgets, PanelsInv, TypeOK
    <3> QED
      BY <3>1, <3>2
  <2> QED
    BY <1>1, <2>2, <2>3 DEF Steps, Forgetting, PanelForgets, Stays, PanelBlank
<1> QED
  BY <1>2, <1>3

\* A request of a panel that ends without handing anything down.
LEMMA EndForgets ==
    ASSUME PanelsInv, NEW k \in CallIds, PanelCall(k), calls' = [calls EXCEPT ![k] = NoCall]
    PROVE  CallSilent(NoCall) /\ CallForgets(k)
BY OtherCalls, SilentCalls DEF CallSilent, CallForgets, PanelsInv

LEMMA CreateReturnsSteps ==
    ASSUME PanelsInv, NEW k \in CallIds, CreateReturns(k)
    PROVE  Steps(k)
<1>1. PICK s : s = calls[k].slot
  OBVIOUS
<1>2. PICK f : f = IF calls[k].answer = Failed THEN [flow[s] EXCEPT !.phase = "rejected"]
                   ELSE [flow[s] EXCEPT !.challenge = calls[k].answer, !.phase = "ready"]
  OBVIOUS
<1>3. /\ calls[k] # NoCall /\ calls[k].kind = "create" /\ calls[k].answer # Pending
      /\ Update(calls[k], f, FALSE)
      /\ calls' = [calls EXCEPT ![k] = NoCall]
      /\ UNCHANGED <<phase, boundTo, slots>>
  BY <1>1, <1>2 DEF CreateReturns, Answered, Open, Send, serverVars, promiseVars, appVars
<1>4. PanelCall(k) /\ calls[k] \in CreateCall
  BY <1>3, KindsOfCalls DEF PanelCall, PanelsInv, TypeOK
<1>5. s \in Slots /\ flow[s] \in Flow
  BY <1>1, <1>4 DEF CreateCall, PanelsInv, TypeOK
<1>6. CallSilent(NoCall) /\ CallForgets(k)
  BY <1>3, <1>4, EndForgets
<1>7. CASE calls[k].answer = Failed
  <2>1. f.challenge = flow[s].challenge /\ f.phase = "rejected"
    BY <1>2, <1>5, <1>7 DEF Flow
  <2>2. FlowHolds(f) \subseteq FlowHolds(flow[s]) /\ FlowRefs(f) \subseteq FlowRefs(flow[s])
    BY <2>1 DEF FlowHolds, FlowRefs
  <2> QED
    BY <1>1, <1>3, <1>4, <1>6, <2>2, UpdateForgets DEF Steps
<1>8. CASE ~calls[k].mounted
  BY <1>3, <1>4, <1>6, <1>8, UpdateForgets DEF Steps
<1>9. CASE calls[k].answer # Failed /\ calls[k].mounted
  <2>1. f.challenge = calls[k].answer /\ f.phase = "ready"
    BY <1>2, <1>5, <1>9 DEF Flow
  <2>2. FlowHolds(f) \subseteq CallHolds(calls[k]) /\ FlowRefs(f) = FlowHolds(f)
    BY <1>3, <1>9, <2>1 DEF FlowHolds, FlowRefs, CallHolds, Delivered
  <2>3. CallHolds(NoCall) = {} /\ CallHolds(calls[k]) \subseteq CallRefs(calls[k])
    BY <1>6 DEF CallSilent, CallRefs
  <2>4. Down(k, s)
    BY <1>1, <1>3, <1>4, <1>6, <1>9, <2>2, <2>3, UpdateHandsDown
  <2> QED
    BY <1>5, <2>4 DEF Steps
<1> QED
  BY <1>7, <1>8, <1>9

LEMMA RejectForgets ==
    ASSUME PanelsInv, NEW k \in CallIds, calls[k] # NoCall,
           calls[k].kind \in {"prompt", "verify"}, Reject(k),
           UNCHANGED <<phase, boundTo, slots>>
    PROVE  Forgetting
<1>1. PICK f : f = Rejected(calls[k], flow[calls[k].slot])
  OBVIOUS
<1>2. Update(calls[k], f, FALSE) /\ calls' = [calls EXCEPT ![k] = NoCall]
  BY <1>1 DEF Reject, Send
<1>3. PanelCall(k) /\ calls[k] \in PromptCall \cup VerifyCall
  BY KindsOfCalls DEF PanelCall, PanelsInv, TypeOK
<1>4. flow[calls[k].slot] \in Flow
  BY <1>3 DEF PanelsInv, TypeOK, PromptCall, VerifyCall
<1>5. f.challenge = flow[calls[k].slot].challenge /\ f.phase = "rejected"
  BY <1>1, <1>4 DEF Rejected, Flow
<1>6. /\ FlowHolds(f) \subseteq FlowHolds(flow[calls[k].slot])
      /\ FlowRefs(f) \subseteq FlowRefs(flow[calls[k].slot])
  BY <1>5 DEF FlowHolds, FlowRefs
<1> QED
  BY <1>2, <1>3, <1>6, EndForgets, UpdateForgets

LEMMA PromptReturnsSteps ==
    ASSUME PanelsInv, NEW k \in CallIds, PromptReturns(k)
    PROVE  Steps(k)
<1>1. /\ calls[k] # NoCall /\ calls[k].kind = "prompt"
      /\ UNCHANGED <<phase, boundTo, slots>>
      /\ \/ Reject(k)
         \/ Send(k, [calls[k] EXCEPT !.kind = "verify"]) /\ UNCHANGED flow
  BY DEF PromptReturns, Open, serverVars, promiseVars, appVars, panelVars
<1>2. CASE Reject(k)
  BY <1>1, <1>2, RejectForgets DEF Steps
<1>3. CASE Send(k, [calls[k] EXCEPT !.kind = "verify"]) /\ UNCHANGED flow
  <2>1. PICK x : x = [calls[k] EXCEPT !.kind = "verify"]
    OBVIOUS
  <2>2. calls' = [calls EXCEPT ![k] = x]
    BY <1>3, <2>1 DEF Send
  <2>3. calls[k] \in PromptCall
    BY <1>1, KindsOfCalls DEF PanelsInv, TypeOK
  <2>4. /\ x \in VerifyCall /\ x.kind = "verify" /\ x.mounted = calls[k].mounted
        /\ x.slot = calls[k].slot /\ x.challenge = calls[k].challenge
        /\ x.seen = calls[k].seen /\ x.answer = calls[k].answer
    BY <2>1, <2>3 DEF PromptCall, VerifyCall
  <2>5. x \in Call /\ x # NoCall
    BY <2>4, CallsExist DEF Call
  <2>6. /\ calls'[k] = x
        /\ \A j \in CallIds \ {k} :
              CallForgets(j) /\ \A t \in Slots : Panel(j, t)' <=> Panel(j, t)
    BY <2>2, <2>5, OtherCalls DEF PanelsInv
  <2>7. CallHolds(x) \subseteq CallHolds(calls[k])
    BY <1>1, <2>4 DEF CallHolds
  <2>8. CallRefs(x) \subseteq CallRefs(calls[k])
    BY <1>1, <2>4, <2>7 DEF CallRefs
  <2>9. CallNames(x) \subseteq CallNames(calls[k])
    BY <1>1, <2>4 DEF CallNames
  <2>10. \A t \in Slots : Panel(k, t) => Panel(k, t)'
    BY <2>4, <2>5, <2>6 DEF Panel, PanelCall
  <2> QED
    BY <1>1, <1>3, <2>6, <2>7, <2>8, <2>9, <2>10
       DEF Steps, Forgetting, PanelForgets, CallForgets, Stays
<1> QED
  BY <1>1, <1>2, <1>3

LEMMA VerifyReturnsSteps ==
    ASSUME PanelsInv, VerdictsMatch, NEW k \in CallIds, VerifyReturns(k)
    PROVE  Steps(k)
<1>1. /\ calls[k] # NoCall /\ calls[k].kind = "verify" /\ calls[k].answer # Pending
      /\ UNCHANGED <<phase, boundTo, slots>>
  BY DEF VerifyReturns, Answered, Open, serverVars, promiseVars, appVars
<1>2. CASE calls[k].answer = Failed
  BY <1>1, <1>2, RejectForgets DEF VerifyReturns, Steps
<1>3. CASE calls[k].answer # Failed
  <2>1. PICK s : s = calls[k].slot
    OBVIOUS
  <2>2. PICK f : f = [flow[s] EXCEPT !.verification = calls[k].answer, !.phase = "verified"]
    OBVIOUS
  <2>3. PICK x : x = Refresh(calls[k])
    OBVIOUS
  <2>4. Update(calls[k], f, TRUE) /\ calls' = [calls EXCEPT ![k] = x]
    BY <1>3, <2>1, <2>2, <2>3 DEF VerifyReturns, ShowVerdict, Send
  <2>5. calls[k] \in VerifyCall /\ PanelCall(k)
    BY <1>1, KindsOfCalls DEF PanelsInv, TypeOK, PanelCall
  <2>6. /\ s \in Slots /\ flow[s] \in Flow /\ calls[k].challenge.id \in ChallengeIds
        /\ calls[k].answer.challenge = calls[k].challenge.id
    BY <1>1, <1>3, <2>1, <2>5
       DEF VerifyCall, Handle, PanelsInv, TypeOK, VerdictsMatch, Answered, Open
  <2>7. /\ x \in RefreshCall /\ x.kind = "refresh" /\ x.mounted = calls[k].mounted
        /\ x.slot = s /\ x.decision = calls[k].seen
    BY <2>1, <2>3, <2>5 DEF Refresh, VerifyCall, RefreshCall
  <2>8. x \in Call /\ x # NoCall
    BY <2>7, CallsExist DEF Call
  <2>9. calls'[k] = x
    BY <2>4, <2>8, OtherCalls DEF PanelsInv
  <2>10. CallHolds(x) = {} /\ CallRefs(x) = {}
    BY <2>7 DEF CallHolds, CallRefs
  <2>11. CallNames(x) \subseteq CallNames(calls[k])
    BY <1>1, <2>7 DEF CallNames
  <2>12. CallForgets(k) /\ \A t \in Slots : Panel(k, t) => Panel(k, t)'
    BY <2>1, <2>7, <2>8, <2>9, <2>10, <2>11 DEF CallForgets, Panel, PanelCall
  <2>13. CASE ~calls[k].mounted
    BY <1>1, <2>4, <2>5, <2>8, <2>12, <2>13, UpdateForgets DEF Steps
  <2>14. CASE calls[k].mounted
    <3>1. /\ f.challenge = flow[s].challenge /\ f.phase = "verified"
          /\ f.verification = calls[k].answer
      BY <2>2, <2>6 DEF Flow
    <3>2. FlowHolds(f) \subseteq FlowHolds(flow[s])
      BY <3>1 DEF FlowHolds
    <3>3. calls[k].challenge.id \in CallRefs(calls[k])
      BY <1>1, <2>6 DEF CallRefs
    <3>4. FlowRefs(f) \subseteq FlowRefs(flow[s]) \cup CallRefs(calls[k])
      BY <2>6, <3>1, <3>2, <3>3 DEF FlowRefs
    <3>5. Panel(k, s)
      BY <2>1, <2>5, <2>14 DEF Panel
    <3>6. Down(k, s)
      BY <1>1, <2>1, <2>4, <2>5, <2>6, <2>8, <2>10, <2>12, <2>14, <3>2, <3>4, <3>5,
         UpdateHandsDown
    <3> QED
      BY <2>6, <3>6 DEF Steps
  <2> QED
    BY <2>13, <2>14
<1> QED
  BY <1>2, <1>3

LEMMA RefreshReturnsSteps ==
    ASSUME PanelsInv, CallsDecided, NEW k \in CallIds, RefreshReturns(k)
    PROVE  Steps(k)
<1>1. PICK s : s = calls[k].slot
  OBVIOUS
<1>2. /\ calls[k] # NoCall /\ calls[k].kind = "refresh" /\ calls[k].answer # Pending
      /\ slots' = IF calls[k].answer = Failed \/ slots[s] = Empty THEN slots
                  ELSE [slots EXCEPT ![s] = calls[k].answer]
      /\ Update(calls[k], flow[s], FALSE)
      /\ calls' = [calls EXCEPT ![k] = NoCall]
      /\ UNCHANGED <<phase, boundTo>>
  BY <1>1 DEF RefreshReturns, Refreshed, Answered, Open, Send, serverVars, promiseVars
<1>3. PanelCall(k) /\ calls[k] \in RefreshCall /\ CarriesDecided(calls[k])
  BY <1>2, KindsOfCalls DEF PanelCall, PanelsInv, TypeOK, CallsDecided
<1>4. s \in Slots
  BY <1>1, <1>3 DEF RefreshCall
<1>5. CallSilent(NoCall) /\ CallForgets(k)
  BY <1>2, <1>3, EndForgets
<1>6. \A t \in Slots \ {s} : slots'[t] = slots[t]
  BY <1>2, <1>4 DEF PanelsInv, TypeOK
<1>7. ViewNames(slots'[s]) \subseteq ViewNames(slots[s]) \cup CallNames(calls[k])
  <2>1. CASE calls[k].answer = Failed \/ slots[s] = Empty
    BY <1>2, <2>1
  <2>2. CASE ~(calls[k].answer = Failed \/ slots[s] = Empty)
    <3>1. slots'[s] = calls[k].answer /\ calls[k].answer.decision = calls[k].decision
      BY <1>2, <1>3, <1>4, <2>2 DEF CarriesDecided, PanelsInv, TypeOK
    <3> QED
      BY <1>2, <3>1 DEF ViewNames, CallNames
  <2> QED
    BY <2>1, <2>2
<1>8. CASE calls[k].mounted
  <2>1. Down(k, s)
    BY <1>1, <1>2, <1>3, <1>5, <1>6, <1>7, <1>8, UpdateHandsDown DEF CallSilent
  <2> QED
    BY <1>4, <2>1 DEF Steps
<1>9. CASE ~calls[k].mounted
  <2>1. UNCHANGED flow
    BY <1>2, <1>9 DEF Update, panelVars
  <2>2. /\ calls'[k] = NoCall
        /\ \A j \in CallIds \ {k} :
              CallForgets(j) /\ \A t \in Slots : Panel(j, t)' <=> Panel(j, t)
    BY <1>2, OtherCalls DEF PanelsInv
  <2>3. \A t \in Slots : ~Panel(k, t)
    BY <1>9 DEF Panel
  <2>4. Down(k, s)
    BY <1>2, <1>5, <1>6, <1>7, <2>1, <2>2, <2>3 DEF Down, PanelForgets, CallSilent
  <2> QED
    BY <1>4, <2>4 DEF Steps
<1> QED
  BY <1>8, <1>9

-----------------------------------------------------------------------------
(* The server.                                                              *)

\* What is known was decided.
LEMMA KnownWasDecided ==
    ASSUME TypeOK, PromiseInv, CallsDecided
    PROVE  /\ \A s \in Slots : \A d \in SlotKnows(s) : selected[d] \in Selections
           /\ \A k \in CallIds : \A d \in CallKnows(k) : selected[d] \in Selections
<1>1. ASSUME NEW C, C \subseteq ChallengeIds, NEW d \in BoundOf(C)
      PROVE  selected[d] \in Selections
  BY <1>1 DEF BoundOf, PromiseInv
<1>2. \A f : FlowRefs(f) \subseteq ChallengeIds
  BY DEF FlowRefs, FlowHolds
<1>3. \A x : CallRefs(x) \subseteq ChallengeIds
  BY DEF CallRefs, CallHolds
<1>4. ASSUME NEW s \in Slots, NEW d \in ViewNames(slots[s])
      PROVE  selected[d] \in Selections
  BY <1>4 DEF ViewNames, TypeOK, Shown
<1>5. ASSUME NEW k \in CallIds, NEW d \in CallNames(calls[k])
      PROVE  selected[d] \in Selections
  BY <1>5 DEF CallNames, Delivered, CallsDecided, CarriesDecided
<1> QED
  BY <1>1, <1>2, <1>3, <1>4, <1>5 DEF SlotKnows, CallKnows

LEMMA AnsweredCall ==
    ASSUME TypeOK, NEW k \in CallIds, calls[k] # NoCall, NEW result, Answer(k, result),
           [calls[k] EXCEPT !.answer = result] \in Call,
           NEW x, x = [calls[k] EXCEPT !.answer = result]
    PROVE  /\ calls'[k] = x /\ x \in Call /\ x # NoCall
           /\ x.kind = calls[k].kind /\ x.answer = result
           /\ x.kind \notin {"evaluate", "reset"} =>
                 x.mounted = calls[k].mounted /\ x.slot = calls[k].slot
           /\ x.kind \in {"create", "refresh"} => x.decision = calls[k].decision
           /\ x.kind \in {"prompt", "verify"} =>
                 x.seen = calls[k].seen /\ x.challenge = calls[k].challenge
           /\ \A j \in CallIds \ {k} : calls'[j] = calls[j] /\ CallForgets(j)
           /\ \A j \in CallIds, t \in Slots : Panel(j, t)' <=> Panel(j, t)
           /\ UNCHANGED <<slots, flow>>
<1>1. calls'[k] = x /\ \A j \in CallIds \ {k} : calls'[j] = calls[j]
  BY AnswerEffect DEF Answer
<1>2. x \in Call /\ x # NoCall /\ calls[k] \in Call
  BY CallsExist DEF TypeOK
<1>3. /\ x.kind = calls[k].kind /\ x.answer = result
      /\ x.kind \notin {"evaluate", "reset"} =>
            x.mounted = calls[k].mounted /\ x.slot = calls[k].slot
      /\ x.kind \in {"create", "refresh"} => x.decision = calls[k].decision
      /\ x.kind \in {"prompt", "verify"} =>
            x.seen = calls[k].seen /\ x.challenge = calls[k].challenge
  BY <1>2 DEF Call, EvaluateCall, ResetCall, CreateCall, PromptCall, VerifyCall, RefreshCall
<1>4. \A t \in Slots : Panel(k, t)' <=> Panel(k, t)
  BY <1>1, <1>2, <1>3 DEF Panel, PanelCall
<1>5. \A j \in CallIds \ {k} :
         CallForgets(j) /\ \A t \in Slots : Panel(j, t)' <=> Panel(j, t)
  BY <1>1 DEF CallForgets, Panel, PanelCall
<1> QED
  BY <1>1, <1>2, <1>3, <1>4, <1>5 DEF Answer, appVars, panelVars

\* A refresh answered, or anything that fails.
LEMMA AnswerForgets ==
    ASSUME TypeOK, NEW k \in CallIds, calls[k] # NoCall, NEW result, Answer(k, result),
           [calls[k] EXCEPT !.answer = result] \in Call, UNCHANGED <<phase, boundTo>>,
           result # Pending, calls[k].kind # "prompt",
           result = Failed \/ calls[k].kind \notin {"evaluate", "create"}
    PROVE  Forgetting
<1>1. PICK x : x = [calls[k] EXCEPT !.answer = result]
  OBVIOUS
<1>2. /\ calls'[k] = x /\ x # NoCall /\ x.kind = calls[k].kind /\ x.answer = result
      /\ x.kind \notin {"evaluate", "reset"} => x.mounted = calls[k].mounted
      /\ x.kind \in {"create", "refresh"} => x.decision = calls[k].decision
      /\ x.kind \in {"prompt", "verify"} =>
            x.seen = calls[k].seen /\ x.challenge = calls[k].challenge
  BY <1>1, AnsweredCall
<1>3. CallHolds(x) = {}
  BY <1>2 DEF CallHolds, Delivered
<1>4. CallRefs(x) \subseteq CallRefs(calls[k])
  BY <1>2, <1>3 DEF CallRefs
<1>5. CallNames(x) \subseteq CallNames(calls[k])
  BY <1>2 DEF CallNames, Delivered
<1>6. CallForgets(k)
  BY <1>2, <1>3, <1>4, <1>5 DEF CallForgets
<1> QED
  BY <1>1, <1>6, AnsweredCall DEF Forgetting, PanelForgets, Stays

\* The answer to an evaluation: the decision is new to everybody.
LEMMA ServeEvaluateKeeps ==
    ASSUME TypeOK, PromiseInv, CallsDecided, Ledger, NEW k \in CallIds,
           NEW d \in DecisionIds, NEW f \in Selections, ServeEvaluate(k, d, f)
    PROVE  Ledger'
<1>1. PICK result : result = [decision |-> d, events |-> 0]
  OBVIOUS
<1>2. PICK x : x = [calls[k] EXCEPT !.answer = result]
  OBVIOUS
<1>3. /\ calls[k] # NoCall /\ calls[k].kind = "evaluate" /\ calls[k].answer = Pending
      /\ Answer(k, result) /\ selected[d] = "undecided"
      /\ UNCHANGED <<phase, boundTo>>
  BY <1>1 DEF ServeEvaluate, Decide, PendingCall, Open
<1>4. result \in View /\ result.decision = d
  BY <1>1 DEF View
<1>5. [calls[k] EXCEPT !.answer = result] \in Call
  BY <1>3, <1>4, AnswersFit
<1>6. /\ calls'[k] = x /\ x.kind = "evaluate" /\ x.answer = result
      /\ \A j \in CallIds \ {k} : CallForgets(j)
      /\ \A j \in CallIds, t \in Slots : Panel(j, t)' <=> Panel(j, t)
      /\ UNCHANGED <<slots, flow>>
  BY <1>2, <1>3, <1>5, AnsweredCall
<1>7. CallHolds(x) = {} /\ CallRefs(x) = {} /\ CallNames(x) \subseteq {d}
  BY <1>4, <1>6 DEF CallHolds, CallRefs, CallNames
<1>8. d \notin UNION {SlotKnows(s) : s \in Slots} /\ \A j \in CallIds : d \notin CallKnows(j)
  <2>1. "undecided" \notin Selections
    BY WebClientConstants DEF WebClientAssumption
  <2> QED
    BY <1>3, <2>1, KnownWasDecided
<1>9. RefsIssued' /\ HoldersInv'
  BY <1>3, <1>6, <1>7 DEF Ledger, RefsIssued, HoldersInv, CallForgets
<1>10. CallKnows(k)' \subseteq {d}
  BY <1>6, <1>7 DEF CallKnows, BoundOf
<1>11. /\ \A j \in CallIds \ {k} : CallKnows(j)' \subseteq CallKnows(j)
       /\ \A s \in Slots : SlotKnows(s)' \subseteq SlotKnows(s)
  BY <1>3, <1>6, KnowledgeShrinks DEF PanelForgets
<1>12. Exclusive'
  BY <1>6, <1>8, <1>10, <1>11 DEF Ledger, Exclusive
<1> QED
  BY <1>9, <1>12 DEF Ledger

\* The answer to a creation: the challenge is new to everybody, its decision
\* is not new to the request.
LEMMA ServeCreateKeeps ==
    ASSUME TypeOK, PromiseInv, CallsDecided, Ledger, NEW k \in CallIds,
           NEW c \in ChallengeIds, NEW mode \in Modes, ServeCreate(k, c, mode)
    PROVE  Ledger'
<1>1. PICK result : result = [id |-> c, mode |-> mode]
  OBVIOUS
<1>2. PICK x : x = [calls[k] EXCEPT !.answer = result]
  OBVIOUS
<1>3. PICK d : d = calls[k].decision
  OBVIOUS
<1>4. /\ calls[k] # NoCall /\ calls[k].kind = "create" /\ calls[k].answer = Pending
      /\ Answer(k, result) /\ phase[c] = "unused"
      /\ phase' = [phase EXCEPT ![c] = "open"]
      /\ boundTo' = [boundTo EXCEPT ![c] = d]
  BY <1>1, <1>3 DEF ServeCreate, Issue, PendingCall, Open
<1>5. result \in Handle /\ result.id = c
  BY <1>1 DEF Handle
<1>6. [calls[k] EXCEPT !.answer = result] \in Call
  BY <1>4, <1>5, AnswersFit
<1>7. /\ calls'[k] = x /\ x # NoCall /\ x.kind = "create" /\ x.answer = result
      /\ x.mounted = calls[k].mounted /\ x.decision = d
      /\ \A j \in CallIds \ {k} : calls'[j] = calls[j]
      /\ \A j \in CallIds, t \in Slots : Panel(j, t)' <=> Panel(j, t)
      /\ UNCHANGED <<slots, flow>>
  BY <1>2, <1>3, <1>4, <1>6, AnsweredCall
<1>8. /\ CallHolds(x) \subseteq {c} /\ CallRefs(x) = CallHolds(x)
      /\ CallNames(x) = CallNames(calls[k])
      /\ x.mounted => CallNames(calls[k]) = {d} \cap DecisionIds
      /\ ~x.mounted => CallHolds(x) = {}
  BY <1>3, <1>4, <1>5, <1>7 DEF CallHolds, CallRefs, CallNames
<1>9. /\ phase'[c] = "open"
      /\ \A b \in ChallengeIds \ {c} : phase'[b] = phase[b] /\ boundTo'[b] = boundTo[b]
  BY <1>4 DEF TypeOK
<1>10. \A f : FlowHolds(f) \subseteq FlowRefs(f) /\ FlowRefs(f) \subseteq ChallengeIds
  BY DEF FlowRefs, FlowHolds
<1>11. \A y : CallHolds(y) \subseteq CallRefs(y) /\ CallRefs(y) \subseteq ChallengeIds
  BY DEF CallRefs, CallHolds
<1>12. /\ \A s \in Slots : c \notin FlowRefs(flow[s])
       /\ \A j \in CallIds : c \notin CallRefs(calls[j])
  BY <1>4 DEF Ledger, RefsIssued
<1>13. RefsIssued'
  BY <1>7, <1>8, <1>9, <1>10, <1>11, <1>12 DEF Ledger, RefsIssued
<1>14. HoldersInv'
  <2>1. \A s \in Slots : FlowHolds(flow'[s]) = FlowHolds(flow[s])
    BY <1>7
  <2>2. \A j \in CallIds \ {k} : CallHolds(calls'[j]) = CallHolds(calls[j])
    BY <1>7
  <2>3. CallHolds(calls'[k]) \subseteq {c}
    BY <1>7, <1>8
  <2>4. \A s \in Slots : \A b \in FlowHolds(flow[s]) : b # c /\ phase'[b] = phase[b]
    BY <1>9, <1>10, <1>12
  <2>5. \A j \in CallIds : \A b \in CallHolds(calls[j]) : b # c /\ phase'[b] = phase[b]
    BY <1>9, <1>11, <1>12
  <2>6. \A s \in Slots, j \in CallIds : FlowHolds(flow'[s]) \cap CallHolds(calls'[j]) = {}
    BY <2>1, <2>2, <2>3, <2>4 DEF Ledger, HoldersInv
  <2>7. \A i \in CallIds, j \in CallIds :
           i # j => CallHolds(calls'[i]) \cap CallHolds(calls'[j]) = {}
    BY <2>2, <2>3, <2>5 DEF Ledger, HoldersInv
  <2>8. \A s \in Slots : \A b \in FlowHolds(flow'[s]) : phase'[b] \in {"open", "wiped"}
    BY <2>1, <2>4 DEF Ledger, HoldersInv
  <2>9. \A j \in CallIds : \A b \in CallHolds(calls'[j]) : phase'[b] \in {"open", "wiped"}
    BY <1>9, <2>2, <2>3, <2>5 DEF Ledger, HoldersInv
  <2> QED
    BY <2>1, <2>6, <2>7, <2>8, <2>9 DEF Ledger, HoldersInv
<1>15. \A s \in Slots : SlotKnows(s)' \subseteq SlotKnows(s)
  BY <1>7, <1>9, <1>10, <1>12 DEF SlotKnows, BoundOf
<1>16. \A j \in CallIds \ {k} : CallKnows(j)' \subseteq CallKnows(j)
  BY <1>7, <1>9, <1>11, <1>12 DEF CallKnows, BoundOf
<1>17. CallKnows(k)' \subseteq CallKnows(k)
  <2>1. CASE x.mounted
    <3>1. boundTo'[c] = d
      BY <1>4 DEF TypeOK
    <3>2. CallKnows(k)' \subseteq {d} \cap DecisionIds
      BY <1>7, <1>8, <2>1, <3>1 DEF CallKnows, BoundOf
    <3> QED
      BY <1>8, <2>1, <3>2 DEF CallKnows
  <2>2. CASE ~x.mounted
    BY <1>7, <1>8, <2>2 DEF CallKnows, BoundOf
  <2> QED
    BY <2>1, <2>2
<1>18. Exclusive'
  BY <1>7, <1>15, <1>16, <1>17, ForgettingIsExclusive DEF Ledger
<1> QED
  BY <1>13, <1>14, <1>18 DEF Ledger

\* A settled challenge is held by nobody from then on.
LEMMA ServeVerifyKeeps ==
    ASSUME TypeOK, Ledger, NEW k \in CallIds, NEW verdict \in {"verified", "denied"},
           ServeVerify(k, verdict)
    PROVE  Ledger'
<1>1. PICK c : c = calls[k].challenge.id
  OBVIOUS
<1>2. PICK result : result = [challenge |-> c, verdict |-> verdict]
  OBVIOUS
<1>3. PICK x : x = [calls[k] EXCEPT !.answer = result]
  OBVIOUS
<1>4. /\ calls[k] # NoCall /\ calls[k].kind = "verify" /\ calls[k].answer = Pending
      /\ Answer(k, result)
      /\ phase' = [phase EXCEPT ![c] = verdict]
      /\ UNCHANGED boundTo
  BY <1>1, <1>2 DEF ServeVerify, Settle, PendingCall, Open
<1>5. c \in ChallengeIds
  BY <1>1, <1>4, KindsOfCalls DEF TypeOK, VerifyCall, Handle
<1>6. result \in Verdict
  BY <1>2, <1>5 DEF Verdict
<1>7. [calls[k] EXCEPT !.answer = result] \in Call
  BY <1>4, <1>6, AnswersFit
<1>8. /\ calls'[k] = x /\ x # NoCall /\ x.kind = "verify" /\ x.answer = result
      /\ x.seen = calls[k].seen /\ x.challenge = calls[k].challenge
      /\ \A j \in CallIds \ {k} : calls'[j] = calls[j]
      /\ \A j \in CallIds, t \in Slots : Panel(j, t)' <=> Panel(j, t)
      /\ UNCHANGED <<slots, flow>>
  BY <1>3, <1>4, <1>7, AnsweredCall
<1>9. result \notin {Pending, Failed}
  BY <1>6, WebClientConstants DEF WebClientAssumption
<1>10. CallHolds(x) = {} /\ CallRefs(x) \subseteq CallRefs(calls[k])
         /\ CallNames(x) \subseteq CallNames(calls[k]) /\ c \in CallHolds(calls[k])
  BY <1>1, <1>4, <1>5, <1>8, <1>9 DEF CallHolds, CallRefs, CallNames
<1>11. /\ phase'[c] # "unused"
       /\ \A b \in ChallengeIds \ {c} : phase'[b] = phase[b]
  BY <1>4, <1>5 DEF TypeOK
<1>12. \A f : FlowHolds(f) \subseteq ChallengeIds /\ FlowRefs(f) \subseteq ChallengeIds
  BY DEF FlowRefs, FlowHolds
<1>13. \A y : CallHolds(y) \subseteq ChallengeIds /\ CallRefs(y) \subseteq ChallengeIds
  BY DEF CallRefs, CallHolds
<1>14. RefsIssued'
  BY <1>8, <1>10, <1>11, <1>12, <1>13 DEF Ledger, RefsIssued
<1>15. HoldersInv'
  <2>1. \A s \in Slots : \A b \in FlowHolds(flow[s]) : phase'[b] = phase[b]
    BY <1>10, <1>11, <1>12 DEF Ledger, HoldersInv
  <2>2. \A j \in CallIds \ {k} : \A b \in CallHolds(calls[j]) : phase'[b] = phase[b]
    BY <1>10, <1>11, <1>13 DEF Ledger, HoldersInv
  <2> QED
    BY <1>8, <1>10, <2>1, <2>2 DEF Ledger, HoldersInv
<1>16. \A s \in Slots : SlotKnows(s)' \subseteq SlotKnows(s)
  BY <1>4, <1>8, KnowledgeShrinks DEF PanelForgets
<1>17. \A j \in CallIds : CallKnows(j)' \subseteq CallKnows(j)
  BY <1>4, <1>8, <1>10, KnowledgeShrinks DEF CallForgets
<1>18. Exclusive'
  BY <1>8, <1>16, <1>17, ForgettingIsExclusive DEF Ledger
<1> QED
  BY <1>14, <1>15, <1>18 DEF Ledger

LEMMA ServeResetKeeps ==
    ASSUME TypeOK, Ledger, NEW k \in CallIds, ServeReset(k)
    PROVE  Ledger'
<1>1. /\ calls[k] # NoCall /\ calls[k].kind = "reset" /\ Answer(k, "done")
      /\ phase' = [c \in ChallengeIds |->
                      IF phase[c] = "unused" THEN "unused" ELSE "wiped"]
      /\ boundTo' = [c \in ChallengeIds |-> NoDecision]
  BY DEF ServeReset, Wipe, PendingCall, Open
<1>2. [calls[k] EXCEPT !.answer = "done"] \in Call
  BY <1>1, AnswersFit
<1>3. PICK x : x = [calls[k] EXCEPT !.answer = "done"]
  OBVIOUS
<1>4. /\ calls'[k] = x /\ x \in Call /\ x.kind = "reset"
      /\ \A j \in CallIds \ {k} : calls'[j] = calls[j]
      /\ \A j \in CallIds, t \in Slots : Panel(j, t)' <=> Panel(j, t)
      /\ UNCHANGED <<slots, flow>>
  BY <1>1, <1>2, <1>3, AnsweredCall
<1>5. CallSilent(x)
  BY <1>4, SilentCalls
<1>6. \A f : FlowHolds(f) \subseteq FlowRefs(f) /\ FlowRefs(f) \subseteq ChallengeIds
  BY DEF FlowRefs, FlowHolds
<1>7. \A y : CallHolds(y) \subseteq CallRefs(y) /\ CallRefs(y) \subseteq ChallengeIds
  BY DEF CallRefs, CallHolds
<1>8. /\ \A c \in ChallengeIds : phase[c] # "unused" => phase'[c] = "wiped"
      /\ \A d \in DecisionIds, c \in ChallengeIds : boundTo'[c] # d
  BY <1>1, WebClientConstants DEF WebClientAssumption
<1>9. RefsIssued'
  BY <1>4, <1>5, <1>6, <1>7, <1>8 DEF Ledger, RefsIssued, CallSilent
<1>10. HoldersInv'
  <2>1. \A s \in Slots : \A b \in FlowHolds(flow[s]) : phase'[b] = "wiped"
    BY <1>6, <1>8 DEF Ledger, RefsIssued
  <2>2. \A j \in CallIds : \A b \in CallHolds(calls[j]) : phase'[b] = "wiped"
    BY <1>7, <1>8 DEF Ledger, RefsIssued
  <2> QED
    BY <1>4, <1>5, <2>1, <2>2 DEF Ledger, HoldersInv, CallSilent
<1>11. \A s \in Slots : SlotKnows(s)' \subseteq SlotKnows(s)
  BY <1>4, <1>6, <1>8 DEF SlotKnows, BoundOf
<1>12. \A j \in CallIds : CallKnows(j)' \subseteq CallKnows(j)
  BY <1>4, <1>5, <1>7, <1>8 DEF CallKnows, BoundOf, CallSilent
<1>13. Exclusive'
  BY <1>4, <1>11, <1>12, ForgettingIsExclusive DEF Ledger
<1> QED
  BY <1>9, <1>10, <1>13 DEF Ledger

-----------------------------------------------------------------------------
(* Verdicts: the browser.                                                   *)

\* Nothing but the challenge's panel, while it has it verified.
Unsettled(x) == \/ x.kind = "prompt"
                \/ x.kind = "verify" /\ x.answer \in {Pending, Failed}

\* A step that shows no verdict and brings none.
LEMMA NoVerdictComes ==
    ASSUME VerdictsInv, UNCHANGED <<boundTo, outcome>>,
           \A s \in Slots : flow'[s] = flow[s] \/ flow'[s].phase # "verified",
           \A k \in CallIds : calls'[k] # NoCall /\ calls'[k].kind \in {"prompt", "verify"} =>
              \/ calls'[k] = calls[k]
              \/ /\ Unsettled(calls'[k])
                 /\ \A s \in Slots : Panel(k, s)' => flow'[s].phase # "verified"
              \/ /\ calls[k] # NoCall /\ calls'[k].kind = calls[k].kind
                 /\ calls'[k].challenge = calls[k].challenge
                 /\ calls'[k].answer = calls[k].answer /\ ~calls'[k].mounted
    PROVE  VerdictsInv'
<1>1. \A v : Tells(v)' <=> Tells(v)
  BY DEF Tells
<1>2. ASSUME NEW s \in Slots, flow'[s].phase = "verified", NEW v, v = flow'[s].verification
      PROVE  Tells(v)'
  <2>1. flow[s].phase = "verified" /\ v = flow[s].verification
    BY <1>2
  <2> QED
    BY <1>1, <2>1 DEF VerdictsInv
<1>3. ASSUME NEW k \in CallIds, calls'[k] # NoCall, calls'[k].kind = "verify",
             calls'[k].answer \notin {Pending, Failed}, NEW v, v = calls'[k].answer
      PROVE  Tells(v)' /\ v.challenge = calls'[k].challenge.id
  <2>1. /\ calls[k] # NoCall /\ calls[k].kind = "verify" /\ v = calls[k].answer
        /\ calls'[k].challenge = calls[k].challenge
    BY <1>3 DEF Unsettled
  <2> QED
    BY <1>1, <1>3, <2>1 DEF VerdictsInv, VerdictsMatch, Answered, Open
<1>4. ASSUME NEW k \in CallIds, NEW s \in Slots, Panel(k, s)',
             calls'[k].kind \in {"prompt", "verify"}
      PROVE  flow'[s].phase # "verified"
  <2>1. CASE calls'[k] = calls[k]
    BY <1>4, <2>1 DEF VerdictsInv, Panel, PanelCall
  <2>2. CASE calls'[k] # calls[k]
    BY <1>4, <2>2 DEF Panel, PanelCall
  <2> QED
    BY <2>1, <2>2
<1>5. \A s \in Slots : flow'[s].phase = "verified" => Tells(flow[s].verification)'
  BY <1>2 DEF Tells
<1>6. \A k \in CallIds :
         (Answered(k, "verify") /\ calls[k].answer # Failed)' => Tells(calls[k].answer)'
  BY <1>3 DEF Answered, Open, Tells
<1>7. VerdictsMatch'
  BY <1>3 DEF VerdictsMatch, Answered, Open
<1> QED
  BY <1>4, <1>5, <1>6, <1>7 DEF VerdictsInv

\* A request that becomes one without verdict, or ends.
LEMMA OneCallBringsNoVerdict ==
    ASSUME PanelsInv, VerdictsInv, UNCHANGED <<boundTo, outcome>>,
           \A s \in Slots : flow'[s] = flow[s] \/ flow'[s].phase # "verified",
           NEW k \in CallIds, NEW x \in Call \cup {NoCall}, calls' = [calls EXCEPT ![k] = x],
           \/ x = NoCall
           \/ x.kind \notin {"prompt", "verify"}
           \/ Unsettled(x) /\ \A s \in Slots : Panel(k, s)' => flow'[s].phase # "verified"
    PROVE  VerdictsInv'
BY OtherCalls, NoVerdictComes DEF PanelsInv

LEMMA UpdateFlow ==
    ASSUME PanelsInv, NEW k \in CallIds, PanelCall(k), NEW f, NEW b, Update(calls[k], f, b)
    PROVE  \A s \in Slots : flow'[s] = flow[s] \/ (flow'[s] = f /\ Panel(k, s))
<1>1. CASE calls[k].mounted
  <2>1. calls[k].slot \in Slots /\ flow' = [flow EXCEPT ![calls[k].slot] = f]
    BY <1>1, PanelIsBusy DEF Update
  <2> QED
    BY <1>1, <2>1 DEF PanelsInv, TypeOK, Panel
<1>2. CASE ~calls[k].mounted
  BY <1>2 DEF Update, panelVars
<1> QED
  BY <1>1, <1>2

LEMMA ClicksKeepVerdicts ==
    ASSUME PanelsInv, VerdictsInv, NEW k \in CallIds, NEW s \in Slots,
           \/ \E f \in AskedFactors, p \in BOOLEAN : Create(k, s, f, p)
           \/ Verify(k, s)
           \/ ResetFlow(s)
    PROVE  VerdictsInv'
<1>0. flow \in [Slots -> Flow]
  BY DEF PanelsInv, TypeOK
<1>1. ASSUME NEW f \in AskedFactors, NEW p \in BOOLEAN, Create(k, s, f, p)
      PROVE  VerdictsInv'
  <2>1. PICK x : x = [kind |-> "create", slot |-> s, mounted |-> TRUE,
                      decision |-> Shown(s), factor |-> f,
                      simulated |-> p, answer |-> Pending]
    OBVIOUS
  <2>2. PICK g : g = [IdleFlow EXCEPT !.factor = f, !.phase = "creating"]
    OBVIOUS
  <2>3. g.phase = "creating" /\ x.kind = "create"
    BY <2>1, <2>2 DEF IdleFlow
  <2>4. /\ calls[k] = NoCall /\ flow' = [flow EXCEPT ![s] = g]
        /\ calls' = [calls EXCEPT ![k] = x] /\ UNCHANGED <<boundTo, outcome>>
    BY <1>1, <2>1, <2>2 DEF Create, Free, Send, serverVars, promiseVars
  <2>5. \A t \in Slots : flow'[t] = flow[t] \/ flow'[t].phase # "verified"
    BY <1>0, <2>3, <2>4
  <2>6. calls'[k] = x /\ \A j \in CallIds \ {k} : calls'[j] = calls[j]
    BY <2>4 DEF PanelsInv, TypeOK
  <2> QED
    BY <2>3, <2>4, <2>5, <2>6, NoVerdictComes
<1>2. CASE Verify(k, s)
  <2>1. PICK x : x = [kind |-> IF flow[s].challenge.mode = "WEBAUTHN" THEN "prompt"
                               ELSE "verify",
                      slot |-> s, mounted |-> TRUE, seen |-> Shown(s),
                      challenge |-> flow[s].challenge, answer |-> Pending]
    OBVIOUS
  <2>2. Unsettled(x) /\ x.slot = s
    BY <2>1 DEF Unsettled
  <2>3. /\ calls' = [calls EXCEPT ![k] = x] /\ UNCHANGED <<boundTo, outcome>>
        /\ flow' = [flow EXCEPT ![s].phase = "verifying", ![s].challenge = NoChallenge]
    BY <1>2, <2>1 DEF Verify, Send, serverVars, promiseVars
  <2>4. flow'[s].phase = "verifying" /\ \A t \in Slots \ {s} : flow'[t] = flow[t]
    BY <1>0, <2>3 DEF Flow
  <2>5. calls'[k] = x /\ \A j \in CallIds \ {k} : calls'[j] = calls[j]
    BY <2>3 DEF PanelsInv, TypeOK
  <2>6. \A t \in Slots : Panel(k, t)' => flow'[t].phase # "verified"
    BY <2>2, <2>4, <2>5 DEF Panel
  <2> QED
    BY <2>2, <2>3, <2>4, <2>5, <2>6, NoVerdictComes
<1>3. CASE ResetFlow(s)
  <2>1. /\ flow' = [flow EXCEPT ![s] = IdleFlow]
        /\ UNCHANGED <<boundTo, outcome, calls>>
    BY <1>3 DEF ResetFlow, serverVars, promiseVars
  <2>2. IdleFlow.phase # "verified"
    BY DEF IdleFlow
  <2>3. \A t \in Slots : flow'[t] = flow[t] \/ flow'[t].phase # "verified"
    BY <1>0, <2>1, <2>2
  <2> QED
    BY <2>1, <2>3, NoVerdictComes
<1> QED
  BY <1>1, <1>2, <1>3

\* A verdict that comes is the panel's, and the panel has nothing else under way.
LEMMA VerdictShownIsCurrent ==
    ASSUME PanelsInv, VerdictsInv, NEW k \in CallIds, VerifyReturns(k),
           calls[k].answer # Failed
    PROVE  VerdictsInv'
<1>1. PICK s : s = calls[k].slot
  OBVIOUS
<1>2. PICK f : f = [flow[s] EXCEPT !.verification = calls[k].answer, !.phase = "verified"]
  OBVIOUS
<1>3. PICK x : x = Refresh(calls[k])
  OBVIOUS
<1>4. /\ calls[k] # NoCall /\ calls[k].kind = "verify" /\ calls[k].answer # Pending
      /\ Update(calls[k], f, TRUE) /\ calls' = [calls EXCEPT ![k] = x]
      /\ UNCHANGED <<boundTo, outcome>>
  BY <1>1, <1>2, <1>3 DEF VerifyReturns, Answered, Open, ShowVerdict, Send, serverVars,
                          promiseVars
<1>5. calls[k] \in VerifyCall /\ PanelCall(k)
  BY <1>4, KindsOfCalls DEF PanelsInv, TypeOK, PanelCall
<1>6. s \in Slots /\ flow[s] \in Flow
  BY <1>1, <1>5 DEF VerifyCall, PanelsInv, TypeOK
<1>7. f.verification = calls[k].answer
  BY <1>2, <1>6 DEF Flow
<1>8. x.kind = "refresh"
  BY <1>3 DEF Refresh
<1>9. calls'[k] = x /\ \A j \in CallIds \ {k} : calls'[j] = calls[j]
  BY <1>4 DEF PanelsInv, TypeOK
<1>10. \A v : Tells(v)' <=> Tells(v)
  BY <1>4 DEF Tells
<1>11. \A t \in Slots : flow'[t] = flow[t] \/ (flow'[t] = f /\ Panel(k, t))
  BY <1>4, <1>5, UpdateFlow
<1>12. ASSUME NEW t \in Slots, flow'[t].phase = "verified", NEW v, v = flow'[t].verification
       PROVE  Tells(v)'
  BY <1>4, <1>7, <1>10, <1>11, <1>12 DEF VerdictsInv, Answered, Open
<1>13. ASSUME NEW j \in CallIds, calls'[j] # NoCall, calls'[j].kind = "verify",
              calls'[j].answer \notin {Pending, Failed}, NEW v, v = calls'[j].answer
       PROVE  Tells(v)' /\ v.challenge = calls'[j].challenge.id
  <2>1. j # k /\ calls'[j] = calls[j]
    BY <1>8, <1>9, <1>13
  <2> QED
    BY <1>10, <1>13, <2>1 DEF VerdictsInv, VerdictsMatch, Answered, Open
<1>14. ASSUME NEW j \in CallIds, NEW t \in Slots, Panel(j, t)',
              calls'[j].kind \in {"prompt", "verify"}
       PROVE  flow'[t].phase # "verified"
  <2>1. j # k /\ calls'[j] = calls[j]
    BY <1>8, <1>9, <1>14
  <2>2. Panel(j, t)
    BY <1>14, <2>1 DEF Panel, PanelCall
  <2>3. ~Panel(k, t)
    BY <2>1, <2>2 DEF PanelsInv, OneIf, OfPanel, Panel, PanelCall, TypeOK
  <2> QED
    BY <1>11, <1>14, <2>1, <2>2, <2>3 DEF VerdictsInv
<1>15. \A t \in Slots : flow'[t].phase = "verified" => Tells(flow[t].verification)'
  BY <1>12 DEF Tells
<1>16. \A j \in CallIds :
          (Answered(j, "verify") /\ calls[j].answer # Failed)' => Tells(calls[j].answer)'
  BY <1>13 DEF Answered, Open, Tells
<1>17. VerdictsMatch'
  BY <1>13 DEF VerdictsMatch, Answered, Open
<1> QED
  BY <1>14, <1>15, <1>16, <1>17 DEF VerdictsInv

LEMMA ReturnsKeepVerdicts ==
    ASSUME PanelsInv, VerdictsInv, NEW k \in CallIds, Return(k)
    PROVE  VerdictsInv'
<1>0. ASSUME calls' = [calls EXCEPT ![k] = NoCall], UNCHANGED <<boundTo, outcome>>,
             \A s \in Slots : flow'[s] = flow[s] \/ flow'[s].phase # "verified"
      PROVE  VerdictsInv'
  BY <1>0, OneCallBringsNoVerdict
<1>1. CASE EvaluateReturns(k)
  <2>1. calls' = [calls EXCEPT ![k] = NoCall] /\ UNCHANGED <<boundTo, outcome, flow>>
    BY <1>1 DEF EvaluateReturns, Send, serverVars, promiseVars, panelVars
  <2> QED
    BY <1>0, <2>1
<1>2. CASE ResetReturns(k)
  <2>1. CASE calls[k].answer = Failed
    <3>1. calls' = [calls EXCEPT ![k] = NoCall] /\ UNCHANGED <<boundTo, outcome, flow>>
      BY <1>2, <2>1 DEF ResetReturns, Send, serverVars, promiseVars, panelVars
    <3> QED
      BY <1>0, <3>1
  <2>2. CASE calls[k].answer # Failed
    <3>1. /\ flow' = [s \in Slots |-> IdleFlow] /\ UNCHANGED <<boundTo, outcome>>
          /\ calls' = [j \in CallIds |-> IF j = k THEN NoCall ELSE Unmounted(calls[j])]
      BY <1>2, <2>2 DEF ResetReturns, serverVars, promiseVars
    <3>2. \A s \in Slots : flow'[s].phase # "verified"
      BY <3>1 DEF IdleFlow
    <3>3. ASSUME NEW j \in CallIds, calls'[j] # NoCall, calls'[j].kind \in {"prompt", "verify"}
          PROVE  /\ calls[j] # NoCall /\ calls'[j].kind = calls[j].kind
                 /\ calls'[j].challenge = calls[j].challenge
                 /\ calls'[j].answer = calls[j].answer /\ ~calls'[j].mounted
      <4>1. calls[j] \in Call \cup {NoCall} /\ calls'[j] = Unmounted(calls[j])
        BY <3>1, <3>3 DEF PanelsInv, TypeOK
      <4>2. calls[j] # NoCall /\ calls[j] \in Call
        BY <3>3, <4>1, UnmountedType
      <4>3. /\ calls[j].kind \in {"prompt", "verify"}
            /\ calls'[j] = [calls[j] EXCEPT !.mounted = FALSE]
        BY <3>3, <4>1, <4>2, UnmountedType
      <4>4. calls[j] \in PromptCall \cup VerifyCall
        BY <4>2, <4>3, KindsOfCalls
      <4> QED
        BY <4>2, <4>3, <4>4 DEF PromptCall, VerifyCall
    <3> QED
      BY <3>1, <3>2, <3>3, NoVerdictComes
  <2> QED
    BY <2>1, <2>2
<1>3. CASE CreateReturns(k)
  <2>1. PICK s : s = calls[k].slot
    OBVIOUS
  <2>2. PICK f : f = IF calls[k].answer = Failed THEN [flow[s] EXCEPT !.phase = "rejected"]
                     ELSE [flow[s] EXCEPT !.challenge = calls[k].answer, !.phase = "ready"]
    OBVIOUS
  <2>3. /\ calls[k] # NoCall /\ calls[k].kind = "create"
        /\ Update(calls[k], f, FALSE)
        /\ calls' = [calls EXCEPT ![k] = NoCall] /\ UNCHANGED <<boundTo, outcome>>
    BY <1>3, <2>1, <2>2 DEF CreateReturns, Answered, Open, Send, serverVars, promiseVars
  <2>4. flow[s] \in Flow
    BY <2>1, <2>3, KindsOfCalls DEF PanelsInv, TypeOK, CreateCall
  <2>5. f.phase # "verified"
    BY <2>2, <2>4 DEF Flow
  <2> QED
    BY <1>0, <2>3, <2>5, UpdateFlow DEF PanelCall
<1>4. ASSUME calls[k] # NoCall, calls[k].kind \in {"prompt", "verify"}, Reject(k),
             UNCHANGED <<boundTo, outcome>>
      PROVE  VerdictsInv'
  <2>1. PICK f : f = Rejected(calls[k], flow[calls[k].slot])
    OBVIOUS
  <2>2. Update(calls[k], f, FALSE) /\ calls' = [calls EXCEPT ![k] = NoCall]
    BY <1>4, <2>1 DEF Reject, Send
  <2>3. flow[calls[k].slot] \in Flow
    BY <1>4, KindsOfCalls DEF PanelsInv, TypeOK, PromptCall, VerifyCall
  <2>4. f.phase # "verified"
    BY <2>1, <2>3 DEF Rejected, Flow
  <2> QED
    BY <1>0, <1>4, <2>2, <2>4, UpdateFlow DEF PanelCall
<1>5. CASE PromptReturns(k)
  <2>1. /\ calls[k] # NoCall /\ calls[k].kind = "prompt"
        /\ UNCHANGED <<boundTo, outcome>>
    BY <1>5 DEF PromptReturns, Open, serverVars, promiseVars
  <2>2. CASE Reject(k)
    BY <1>4, <2>1, <2>2
  <2>3. CASE Send(k, [calls[k] EXCEPT !.kind = "verify"]) /\ UNCHANGED panelVars
    <3>1. PICK x : x = [calls[k] EXCEPT !.kind = "verify"]
      OBVIOUS
    <3>2. calls' = [calls EXCEPT ![k] = x] /\ UNCHANGED flow
      BY <2>3, <3>1 DEF Send, panelVars
    <3>3. calls[k] \in PromptCall
      BY <2>1, KindsOfCalls DEF PanelsInv, TypeOK
    <3>4. /\ x \in VerifyCall /\ x.kind = "verify" /\ x.answer = Pending
          /\ x.mounted = calls[k].mounted /\ x.slot = calls[k].slot
      BY <3>1, <3>3 DEF PromptCall, VerifyCall
    <3>5. x \in Call /\ calls'[k] = x
      BY <3>2, <3>4 DEF Call, PanelsInv, TypeOK
    <3>6. \A s \in Slots : Panel(k, s)' => flow'[s].phase # "verified"
      BY <2>1, <3>2, <3>4, <3>5 DEF Panel, PanelCall, VerdictsInv
    <3> QED
      BY <2>1, <3>2, <3>4, <3>5, <3>6, OneCallBringsNoVerdict DEF Unsettled
  <2> QED
    BY <1>5, <2>2, <2>3 DEF PromptReturns
<1>6. CASE RefreshReturns(k)
  <2>1. PICK f : f = flow[calls[k].slot]
    OBVIOUS
  <2>2. /\ calls[k] # NoCall /\ calls[k].kind = "refresh"
        /\ Update(calls[k], f, FALSE)
        /\ calls' = [calls EXCEPT ![k] = NoCall] /\ UNCHANGED <<boundTo, outcome>>
    BY <1>6, <2>1 DEF RefreshReturns, Answered, Open, Send, serverVars, promiseVars
  <2>3. \A s \in Slots : flow'[s] = flow[s]
    <3>1. PanelCall(k)
      BY <2>2 DEF PanelCall
    <3>2. \A s \in Slots : flow'[s] = flow[s] \/ (flow'[s] = f /\ Panel(k, s))
      BY <2>2, <3>1, UpdateFlow
    <3> QED
      BY <2>1, <3>2 DEF Panel
  <2> QED
    BY <1>0, <2>2, <2>3
<1>7. CASE VerifyReturns(k)
  <2>1. /\ calls[k] # NoCall /\ calls[k].kind = "verify" /\ calls[k].answer # Pending
        /\ UNCHANGED <<boundTo, outcome>>
    BY <1>7 DEF VerifyReturns, Answered, Open, serverVars, promiseVars
  <2>2. CASE calls[k].answer = Failed
    BY <1>4, <1>7, <2>1, <2>2 DEF VerifyReturns
  <2>3. CASE calls[k].answer # Failed
    BY <1>7, <2>1, <2>3, VerdictShownIsCurrent
  <2> QED
    BY <2>2, <2>3
<1> QED
  BY <1>1, <1>2, <1>3, <1>5, <1>6, <1>7 DEF Return

-----------------------------------------------------------------------------
(* Verdicts: the server.                                                    *)

LEMMA ServedKeepsVerdicts ==
    ASSUME PanelsInv, VerdictsInv, NEW k \in CallIds, calls[k] # NoCall,
           NEW result, Answer(k, result), [calls[k] EXCEPT !.answer = result] \in Call,
           ASSUME NEW s \in Slots, flow[s].phase = "verified", NEW v \in Verdict,
                  v = flow[s].verification, Tells(v)
           PROVE  Tells(v)',
           ASSUME NEW j \in CallIds \ {k}, calls[j] # NoCall, calls[j].kind = "verify",
                  calls[j].answer \notin {Pending, Failed}, NEW v \in Verdict,
                  v = calls[j].answer, v.challenge = calls[j].challenge.id, Tells(v)
           PROVE  Tells(v)',
           calls[k].kind = "verify" /\ result \notin {Pending, Failed} =>
              Tells(result)' /\ result.challenge = calls[k].challenge.id
    PROVE  VerdictsInv'
<1>1. PICK x : x = [calls[k] EXCEPT !.answer = result]
  OBVIOUS
<1>2. /\ calls'[k] = x /\ x.kind = calls[k].kind /\ x.answer = result
      /\ x.kind \in {"prompt", "verify"} => x.challenge = calls[k].challenge
      /\ \A j \in CallIds \ {k} : calls'[j] = calls[j]
      /\ \A j \in CallIds, t \in Slots : Panel(j, t)' <=> Panel(j, t)
      /\ UNCHANGED <<slots, flow>>
  BY <1>1, AnsweredCall DEF PanelsInv
<1>3. ASSUME NEW s \in Slots, flow'[s].phase = "verified", NEW v, v = flow'[s].verification
      PROVE  Tells(v)'
  <2>1. flow[s].phase = "verified" /\ v = flow[s].verification
    BY <1>2, <1>3
  <2>2. v \in Verdict
    BY <2>1 DEF PanelsInv, TypeOK, Flow
  <2>3. Tells(v)
    BY <2>1 DEF VerdictsInv
  <2> QED
    BY <2>1, <2>2, <2>3
<1>4. ASSUME NEW j \in CallIds, calls'[j] # NoCall, calls'[j].kind = "verify",
             calls'[j].answer \notin {Pending, Failed}, NEW v, v = calls'[j].answer
      PROVE  Tells(v)' /\ v.challenge = calls'[j].challenge.id
  <2>1. CASE j = k
    BY <1>2, <1>4, <2>1
  <2>2. CASE j # k
    <3>1. /\ calls[j] # NoCall /\ calls[j].kind = "verify" /\ v = calls[j].answer
          /\ calls'[j] = calls[j]
      BY <1>2, <1>4, <2>2
    <3>2. calls[j] \in VerifyCall
      BY <3>1, KindsOfCalls DEF PanelsInv, TypeOK
    <3>3. v \in Verdict
      BY <1>4, <3>1, <3>2 DEF VerifyCall
    <3>4. Tells(v) /\ v.challenge = calls[j].challenge.id
      BY <1>4, <3>1 DEF VerdictsInv, VerdictsMatch, Answered, Open
    <3> QED
      BY <1>4, <2>2, <3>1, <3>3, <3>4
  <2> QED
    BY <2>1, <2>2
<1>5. ASSUME NEW j \in CallIds, NEW s \in Slots, Panel(j, s)',
             calls'[j].kind \in {"prompt", "verify"}
      PROVE  flow'[s].phase # "verified"
  <2>1. Panel(j, s) /\ calls[j].kind \in {"prompt", "verify"}
    BY <1>2, <1>5
  <2> QED
    BY <1>2, <2>1 DEF VerdictsInv
<1>6. \A s \in Slots : flow'[s].phase = "verified" => Tells(flow[s].verification)'
  BY <1>3 DEF Tells
<1>7. \A j \in CallIds :
         (Answered(j, "verify") /\ calls[j].answer # Failed)' => Tells(calls[j].answer)'
  BY <1>4 DEF Answered, Open, Tells
<1>8. VerdictsMatch'
  BY <1>4 DEF VerdictsMatch, Answered, Open
<1> QED
  BY <1>5, <1>6, <1>7, <1>8 DEF VerdictsInv

\* What a verdict is about is referred to, and known.
LEMMA VerdictIsKnown ==
    ASSUME NEW v \in Verdict
    PROVE  /\ v.challenge \in ChallengeIds
           /\ \A s \in Slots :
                 flow[s].phase = "verified" /\ v = flow[s].verification =>
                    /\ v.challenge \in FlowRefs(flow[s])
                    /\ boundTo[v.challenge] \in DecisionIds =>
                          boundTo[v.challenge] \in SlotKnows(s)
           /\ \A j \in CallIds :
                 /\ calls[j] # NoCall /\ calls[j].kind \in {"prompt", "verify"}
                 /\ v.challenge = calls[j].challenge.id
                 => /\ v.challenge \in CallRefs(calls[j])
                    /\ boundTo[v.challenge] \in DecisionIds =>
                          boundTo[v.challenge] \in CallKnows(j)
<1>1. v.challenge \in ChallengeIds
  BY DEF Verdict
<1>2. ASSUME NEW s \in Slots, flow[s].phase = "verified", v = flow[s].verification
      PROVE  v.challenge \in FlowRefs(flow[s])
  BY <1>1, <1>2 DEF FlowRefs
<1>3. ASSUME NEW j \in CallIds, calls[j] # NoCall, calls[j].kind \in {"prompt", "verify"},
             v.challenge = calls[j].challenge.id
      PROVE  v.challenge \in CallRefs(calls[j])
  BY <1>1, <1>3 DEF CallRefs
<1> QED
  BY <1>1, <1>2, <1>3 DEF SlotKnows, CallKnows, BoundOf

LEMMA ServeKeepsVerdicts ==
    ASSUME PanelsIInv, Ledger, VerdictsInv, NEW k \in CallIds, Serve(k)
    PROVE  VerdictsInv'
<1> USE DEF PanelsIInv, PanelsInv
<1>1. ASSUME NEW d \in DecisionIds, NEW f \in Selections, ServeEvaluate(k, d, f)
      PROVE  VerdictsInv'
  <2>1. PICK result : result = [decision |-> d, events |-> 0]
    OBVIOUS
  <2>2. /\ calls[k] # NoCall /\ calls[k].kind = "evaluate" /\ Answer(k, result)
        /\ outcome[d] = "NONE" /\ outcome' = [outcome EXCEPT ![d] = "PENDING"]
        /\ UNCHANGED boundTo
    BY <1>1, <2>1 DEF ServeEvaluate, Decide, PendingCall, Open
  <2>3. result \in View
    BY <2>1 DEF View
  <2>4. [calls[k] EXCEPT !.answer = result] \in Call
    BY <2>2, <2>3, AnswersFit
  <2>5. ASSUME NEW v \in Verdict, Tells(v)
        PROVE  Tells(v)'
    <3>1. v.challenge \in ChallengeIds
      BY VerdictIsKnown
    <3>2. boundTo[v.challenge] \in DecisionIds => boundTo[v.challenge] # d
      BY <2>2, <3>1 DEF PromiseInv
    <3> QED
      BY <2>2, <2>5, <3>2 DEF Tells, TypeOK
  <2> QED
    BY <2>2, <2>4, <2>5, ServedKeepsVerdicts
<1>2. ASSUME NEW c \in ChallengeIds, NEW mode \in Modes, ServeCreate(k, c, mode)
      PROVE  VerdictsInv'
  <2>1. PICK result : result = [id |-> c, mode |-> mode]
    OBVIOUS
  <2>2. /\ calls[k] # NoCall /\ calls[k].kind = "create" /\ Answer(k, result)
        /\ phase[c] = "unused" /\ boundTo' = [boundTo EXCEPT ![c] = calls[k].decision]
        /\ UNCHANGED outcome
    BY <1>2, <2>1 DEF ServeCreate, Issue, PendingCall, Open
  <2>3. result \in Handle
    BY <2>1 DEF Handle
  <2>4. [calls[k] EXCEPT !.answer = result] \in Call
    BY <2>2, <2>3, AnswersFit
  <2>5. ASSUME NEW v \in Verdict, Tells(v), phase[v.challenge] # "unused"
        PROVE  Tells(v)'
    <3>1. v.challenge \in ChallengeIds /\ v.challenge # c
      BY <2>2, <2>5, VerdictIsKnown
    <3>2. boundTo'[v.challenge] = boundTo[v.challenge]
      BY <2>2, <3>1 DEF TypeOK
    <3> QED
      BY <2>2, <2>5, <3>2 DEF Tells
  <2>6. ASSUME NEW s \in Slots, flow[s].phase = "verified", NEW v \in Verdict,
               v = flow[s].verification, Tells(v)
        PROVE  Tells(v)'
    BY <2>5, <2>6, VerdictIsKnown DEF Ledger, RefsIssued
  <2>7. ASSUME NEW j \in CallIds \ {k}, calls[j] # NoCall, calls[j].kind = "verify",
               calls[j].answer \notin {Pending, Failed}, NEW v \in Verdict,
               v = calls[j].answer, v.challenge = calls[j].challenge.id, Tells(v)
        PROVE  Tells(v)'
    BY <2>5, <2>7, VerdictIsKnown DEF Ledger, RefsIssued
  <2> QED
    BY <2>2, <2>4, <2>6, <2>7, ServedKeepsVerdicts
<1>3. ASSUME NEW verdict \in {"verified", "denied"}, ServeVerify(k, verdict)
      PROVE  VerdictsInv'
  <2>1. PICK c : c = calls[k].challenge.id
    OBVIOUS
  <2>2. PICK result : result = [challenge |-> c, verdict |-> verdict]
    OBVIOUS
  <2>3. PICK status : status = IF verdict = "verified" THEN "AUTHORIZED" ELSE "DENIED"
    OBVIOUS
  <2>4. /\ calls[k] # NoCall /\ calls[k].kind = "verify" /\ Answer(k, result)
        /\ phase[c] = "open" /\ UNCHANGED boundTo
        /\ outcome' = [outcome EXCEPT ![boundTo[c]] = status]
    BY <1>3, <2>1, <2>2, <2>3 DEF ServeVerify, Settle, PendingCall, Open
  <2>5. c \in ChallengeIds
    BY <2>1, <2>4, KindsOfCalls DEF TypeOK, VerifyCall, Handle
  <2>6. /\ result \in Verdict /\ result.challenge = c /\ result.verdict = verdict
        /\ boundTo[c] \in DecisionIds
    BY <2>2, <2>4, <2>5 DEF Verdict, PromiseInv
  <2>7. [calls[k] EXCEPT !.answer = result] \in Call
    BY <2>4, <2>6, AnswersFit
  <2>8. boundTo[c] \in CallKnows(k)
    BY <2>1, <2>4, <2>6, VerdictIsKnown
  <2>9. ASSUME NEW v \in Verdict, Tells(v), boundTo[v.challenge] # boundTo[c]
        PROVE  Tells(v)'
    BY <2>4, <2>9 DEF Tells, TypeOK
  <2>10. ASSUME NEW s \in Slots, flow[s].phase = "verified", NEW v \in Verdict,
                v = flow[s].verification, Tells(v)
         PROVE  Tells(v)'
    <3>1. ~Panel(k, s)
      BY <2>4, <2>10 DEF VerdictsInv
    <3>2. boundTo[c] \notin SlotKnows(s)
      BY <2>8, <3>1 DEF Ledger, Exclusive
    <3> QED
      BY <2>6, <2>9, <2>10, <3>2, VerdictIsKnown
  <2>11. ASSUME NEW j \in CallIds \ {k}, calls[j] # NoCall, calls[j].kind = "verify",
                calls[j].answer \notin {Pending, Failed}, NEW v \in Verdict,
                v = calls[j].answer, v.challenge = calls[j].challenge.id, Tells(v)
         PROVE  Tells(v)'
    <3>1. boundTo[c] \notin CallKnows(j)
      BY <2>8 DEF Ledger, Exclusive
    <3> QED
      BY <2>6, <2>9, <2>11, <3>1, VerdictIsKnown
  <2>12. Tells(result)'
    BY <2>3, <2>4, <2>6 DEF Tells, TypeOK
  <2> QED
    BY <2>1, <2>4, <2>6, <2>7, <2>10, <2>11, <2>12, ServedKeepsVerdicts
<1>4. CASE ServeRefresh(k)
  <2>1. PICK result : result = [decision |-> calls[k].decision,
                                events |-> Events(calls[k].decision)]
    OBVIOUS
  <2>2. /\ calls[k] # NoCall /\ calls[k].kind = "refresh" /\ Answer(k, result)
        /\ UNCHANGED <<boundTo, outcome>>
    BY <1>4, <2>1 DEF ServeRefresh, PendingCall, Open, serverVars, promiseVars
  <2>3. calls[k].decision \in DecisionIds
    BY <2>2, KindsOfCalls DEF TypeOK, RefreshCall
  <2>4. result \in View
    BY <2>1, <2>3, EventsAreCounted DEF View
  <2>5. [calls[k] EXCEPT !.answer = result] \in Call
    BY <2>2, <2>4, AnswersFit
  <2>6. \A v : Tells(v)' <=> Tells(v)
    BY <2>2 DEF Tells
  <2> QED
    BY <2>2, <2>5, <2>6, ServedKeepsVerdicts
<1>5. CASE ServeReset(k)
  <2>1. /\ calls[k] # NoCall /\ calls[k].kind = "reset" /\ Answer(k, "done")
        /\ boundTo' = [c \in ChallengeIds |-> NoDecision]
    BY <1>5 DEF ServeReset, Wipe, PendingCall, Open
  <2>2. [calls[k] EXCEPT !.answer = "done"] \in Call
    BY <2>1, AnswersFit
  <2>3. ASSUME NEW v \in Verdict
        PROVE  Tells(v)'
    BY <2>1, VerdictIsKnown, WebClientConstants DEF Tells, WebClientAssumption
  <2> QED
    BY <2>1, <2>2, <2>3, ServedKeepsVerdicts
<1>6. CASE Fail(k)
  <2>1. /\ calls[k] # NoCall /\ calls[k].kind # "prompt" /\ Answer(k, Failed)
        /\ UNCHANGED <<boundTo, outcome>>
    BY <1>6 DEF Fail, serverVars, promiseVars
  <2>2. [calls[k] EXCEPT !.answer = Failed] \in Call
    BY <2>1, AnswersFit
  <2>3. \A v : Tells(v)' <=> Tells(v)
    BY <2>1 DEF Tells
  <2> QED
    BY <2>1, <2>2, <2>3, ServedKeepsVerdicts
<1> QED
  BY <1>1, <1>2, <1>3, <1>4, <1>5, <1>6 DEF Serve

-----------------------------------------------------------------------------
(* All steps together.                                                      *)

KnowledgeIInv == PanelsIInv /\ Ledger /\ VerdictsInv

LEMMA ServeKeepsLedger ==
    ASSUME PanelsIInv, Ledger, NEW k \in CallIds, Serve(k)
    PROVE  Ledger'
<1> USE DEF PanelsIInv, PanelsInv
<1>1. CASE ServeRefresh(k)
  <2>1. PICK result : result = [decision |-> calls[k].decision,
                                events |-> Events(calls[k].decision)]
    OBVIOUS
  <2>2. /\ calls[k] # NoCall /\ calls[k].kind = "refresh" /\ Answer(k, result)
        /\ UNCHANGED <<phase, boundTo>>
    BY <1>1, <2>1 DEF ServeRefresh, PendingCall, Open, serverVars, promiseVars
  <2>3. calls[k].decision \in DecisionIds
    BY <2>2, KindsOfCalls DEF TypeOK, RefreshCall
  <2>4. result \in View
    BY <2>1, <2>3, EventsAreCounted DEF View
  <2>5. result # Pending
    BY <2>4, WebClientConstants DEF WebClientAssumption
  <2>6. [calls[k] EXCEPT !.answer = result] \in Call
    BY <2>2, <2>4, AnswersFit
  <2> QED
    BY <2>2, <2>5, <2>6, AnswerForgets, ForgettingKeeps
<1>2. CASE Fail(k)
  <2>1. /\ calls[k] # NoCall /\ calls[k].kind # "prompt" /\ Answer(k, Failed)
        /\ UNCHANGED <<phase, boundTo>>
    BY <1>2 DEF Fail, serverVars, promiseVars
  <2>2. [calls[k] EXCEPT !.answer = Failed] \in Call
    BY <2>1, AnswersFit
  <2>3. Failed # Pending
    BY WebClientConstants DEF WebClientAssumption
  <2> QED
    BY <2>1, <2>2, <2>3, AnswerForgets, ForgettingKeeps
<1> QED
  BY <1>1, <1>2, ServeEvaluateKeeps, ServeCreateKeeps, ServeVerifyKeeps, ServeResetKeeps
     DEF Serve

LEMMA ReturnKeepsLedger ==
    ASSUME PanelsIInv, Ledger, VerdictsInv, NEW k \in CallIds, Return(k)
    PROVE  Ledger'
<1>1. Steps(k)
  BY EvaluateReturnsSteps, ResetReturnsSteps, CreateReturnsSteps, PromptReturnsSteps,
     VerifyReturnsSteps, RefreshReturnsSteps DEF Return, PanelsIInv, VerdictsInv
<1> QED
  BY <1>1, ForgettingKeeps, DownKeeps DEF Steps

\* A scenario, an evaluation or a reset that begins tells nobody anything.
LEMMA OpeningSteps ==
    ASSUME PanelsInv, NEW k \in CallIds,
           RunHero(k) \/ HandleReset(k) \/ \E s \in Slots : SubmitForm(k, s)
    PROVE  /\ Forgetting /\ UNCHANGED <<phase, boundTo, outcome, selected, slots, flow>>
           /\ \E x \in Call : /\ x.kind \in {"evaluate", "reset"} /\ x.answer = Pending
                              /\ calls' = [calls EXCEPT ![k] = x]
<1>1. /\ calls[k] = NoCall
      /\ UNCHANGED <<phase, boundTo, outcome, selected, slots, flow>>
  BY DEF RunHero, HandleReset, SubmitForm, Free, serverVars, promiseVars, appVars, panelVars
<1>2. ASSUME NEW s \in Slots, NEW hero \in BOOLEAN, NEW x, x = Evaluation(s, hero)
      PROVE  x \in Call /\ x.kind \in {"evaluate", "reset"} /\ x.answer = Pending
  BY <1>2 DEF Evaluation, Call, EvaluateCall
<1>3. PICK x \in Call : /\ x.kind \in {"evaluate", "reset"} /\ x.answer = Pending
                        /\ calls' = [calls EXCEPT ![k] = x]
  <2>1. CASE RunHero(k)
    <3>1. PICK s : s = IF slots["left"] = Empty THEN "left" ELSE "right"
      OBVIOUS
    <3>2. s \in Slots /\ calls' = [calls EXCEPT ![k] = Evaluation(s, TRUE)]
      BY <2>1, <3>1 DEF RunHero, Send, Slots
    <3> QED
      BY <1>2, <3>2
  <2>2. CASE HandleReset(k)
    <3>1. PICK x : x = [kind |-> "reset", answer |-> Pending]
      OBVIOUS
    <3>2. x \in Call /\ x.kind = "reset" /\ x.answer = Pending
      BY <3>1 DEF Call, ResetCall
    <3> QED
      BY <2>2, <3>1, <3>2 DEF HandleReset, Send
  <2>3. ASSUME NEW s \in Slots, SubmitForm(k, s)
        PROVE  \E x \in Call : /\ x.kind \in {"evaluate", "reset"} /\ x.answer = Pending
                              /\ calls' = [calls EXCEPT ![k] = x]
    <3>1. calls' = [calls EXCEPT ![k] = Evaluation(s, FALSE)]
      BY <2>3 DEF SubmitForm, Send
    <3> QED
      BY <1>2, <3>1
  <2> QED
    BY <2>1, <2>2, <2>3
<1>4. Forgetting
  BY <1>1, <1>3, SilentCalls, OpeningForgets DEF PanelsInv
<1> QED
  BY <1>1, <1>3, <1>4

LEMMA NextKeepsKnowledge ==
    ASSUME KnowledgeIInv, [Next]_vars
    PROVE  Ledger' /\ VerdictsInv'
<1> USE DEF KnowledgeIInv, PanelsIInv
<1>1. CASE UNCHANGED vars
  <2>1. UNCHANGED <<phase, boundTo, outcome, slots, flow, calls>>
    BY <1>1 DEF vars, serverVars, promiseVars, appVars, panelVars
  <2>2. Forgetting
    BY <2>1 DEF Forgetting, PanelForgets, CallForgets, Stays, Panel, PanelCall
  <2> QED
    BY <2>1, <2>2, ForgettingKeeps, NoVerdictComes
<1>2. ASSUME NEW k \in CallIds,
             RunHero(k) \/ HandleReset(k) \/ \E s \in Slots : SubmitForm(k, s)
      PROVE  Ledger' /\ VerdictsInv'
  <2>1. Forgetting /\ UNCHANGED <<boundTo, outcome, flow>>
    BY <1>2, OpeningSteps
  <2>2. PICK x \in Call : /\ x.kind \in {"evaluate", "reset"}
                          /\ calls' = [calls EXCEPT ![k] = x]
    BY <1>2, OpeningSteps
  <2> QED
    BY <2>1, <2>2, ForgettingKeeps, OneCallBringsNoVerdict
<1>3. ASSUME NEW k \in CallIds, NEW s \in Slots,
             Continue(k, s) \/ TryBlocked(k, s) \/ Fallback(k, s)
      PROVE  Ledger' /\ VerdictsInv'
  BY <1>3, Clicks, CreateIsUp, UpKeeps, ClicksKeepVerdicts DEF PanelsInv
<1>4. ASSUME NEW k \in CallIds, NEW s \in Slots, Verify(k, s)
      PROVE  Ledger' /\ VerdictsInv'
  BY <1>4, VerifyIsUp, UpKeeps, ClicksKeepVerdicts
<1>5. ASSUME NEW s \in Slots, ResetFlow(s)
      PROVE  Ledger' /\ VerdictsInv'
  <2>1. Ledger'
    BY <1>5, ResetFlowForgets, ForgettingKeeps DEF PanelsInv
  <2>2. flow' = [flow EXCEPT ![s] = IdleFlow] /\ UNCHANGED <<boundTo, outcome, calls>>
    BY <1>5 DEF ResetFlow, serverVars, promiseVars
  <2>3. \A t \in Slots : flow'[t] = flow[t] \/ flow'[t].phase # "verified"
    BY <2>2 DEF IdleFlow, PanelsInv, TypeOK
  <2> QED
    BY <2>1, <2>2, <2>3, NoVerdictComes
<1> QED
  BY <1>1, <1>2, <1>3, <1>4, <1>5, ServeKeepsLedger, ReturnKeepsLedger, ServeKeepsVerdicts,
     ReturnsKeepVerdicts DEF Next

\* The inductive invariant of what panels and requests know.
THEOREM KnowledgeInvariant == Spec => []KnowledgeIInv
<1>1. Init => Ledger /\ VerdictsInv
  <2> SUFFICES ASSUME Init PROVE Ledger /\ VerdictsInv
    OBVIOUS
  <2>1. /\ slots = [s \in Slots |-> Empty] /\ flow = [s \in Slots |-> IdleFlow]
        /\ calls = [k \in CallIds |-> NoCall]
    BY DEF Init
  <2>2. FlowHolds(IdleFlow) = {} /\ FlowRefs(IdleFlow) = {} /\ ViewNames(Empty) = {}
    BY DEF FlowHolds, FlowRefs, ViewNames, IdleFlow
  <2>3. \A k \in CallIds, s \in Slots : ~Panel(k, s) /\ ~Open(k, "verify")
    BY <2>1 DEF Panel, PanelCall, Open
  <2>4. \A s \in Slots : SlotKnows(s) = {} /\ flow[s].phase # "verified"
    BY <2>1, <2>2 DEF SlotKnows, BoundOf, IdleFlow
  <2>5. \A k \in CallIds : CallKnows(k) = {}
    BY <2>1, SilentCalls DEF CallKnows, BoundOf, CallSilent
  <2>6. Ledger
    BY <2>1, <2>2, <2>4, <2>5, SilentCalls
       DEF Ledger, RefsIssued, HoldersInv, Exclusive, CallSilent
  <2>7. VerdictsInv
    BY <2>1, <2>3, <2>4 DEF VerdictsInv, VerdictsMatch, Answered, Panel, PanelCall, Open
  <2> QED
    BY <2>6, <2>7
<1>2. KnowledgeIInv /\ PanelsIInv' /\ [Next]_vars => KnowledgeIInv'
  BY NextKeepsKnowledge DEF KnowledgeIInv
<1>3. Init => KnowledgeIInv
  BY <1>1, InitPanels DEF KnowledgeIInv
<1> QED
  BY <1>2, <1>3, PanelsInvariant, PTL DEF Spec

\* No challenge is verified twice: what the browser has verified, or prompts
\* for, is not settled, whatever got lost before.
THEOREM VerifiedAtMostOnce == Spec => []NeverVerifiedTwice
<1>1. KnowledgeIInv => NeverVerifiedTwice
  <2> SUFFICES ASSUME KnowledgeIInv, NEW k \in CallIds,
                      PendingCall(k, "verify") \/ Open(k, "prompt")
               PROVE  phase[calls[k].challenge.id] \in {"open", "wiped"}
    BY DEF NeverVerifiedTwice
  <2>1. calls[k] # NoCall /\ calls[k].kind \in {"prompt", "verify"}
    BY DEF PendingCall, Open
  <2>2. calls[k] \in PromptCall \cup VerifyCall
    BY <2>1, KindsOfCalls DEF KnowledgeIInv, PanelsIInv, PanelsInv, TypeOK
  <2>3. calls[k].answer = Pending /\ calls[k].challenge.id \in ChallengeIds
    BY <2>2 DEF PendingCall, Open, PromptCall, VerifyCall, Handle
  <2>4. calls[k].challenge.id \in CallHolds(calls[k])
    BY <2>1, <2>3 DEF CallHolds
  <2> QED
    BY <2>4 DEF KnowledgeIInv, Ledger, HoldersInv
<1> QED
  BY <1>1, KnowledgeInvariant, PTL

\* The status a panel at rest shows of its decision is the one in the database.
THEOREM StatusIsCurrent == Spec => []ShownStatusIsCurrent
<1>1. KnowledgeIInv => ShownStatusIsCurrent
  <2> SUFFICES ASSUME KnowledgeIInv, NEW s \in Slots, flow[s].phase = "verified",
                      boundTo[flow[s].verification.challenge] = Shown(s)
               PROVE  outcome[Shown(s)] = IF flow[s].verification.verdict = "verified"
                                          THEN "AUTHORIZED" ELSE "DENIED"
    BY DEF ShownStatusIsCurrent
  <2>1. slots[s] # Empty
    BY DEF KnowledgeIInv, PanelsIInv, PanelsInv, TypeOK, IdleFlow
  <2>2. Shown(s) \in DecisionIds
    BY <2>1 DEF KnowledgeIInv, PanelsIInv, PanelsInv, TypeOK, View, Shown
  <2> QED
    BY <2>2 DEF KnowledgeIInv, VerdictsInv, Tells
<1> QED
  BY <1>1, KnowledgeInvariant, PTL

-----------------------------------------------------------------------------
(* Traces.                                                                  *)

LEMMA KnownByName ==
    ASSUME TypeOK
    PROVE  /\ \A s \in Slots : slots[s] # Empty => Shown(s) \in SlotKnows(s)
           /\ \A k \in CallIds :
                 calls[k] # NoCall /\ calls[k].kind = "refresh" =>
                    calls[k].decision \in CallKnows(k)
           /\ \A k \in CallIds :
                 Answered(k, "evaluate") /\ calls[k].answer # Failed =>
                    calls[k].answer.decision \in CallKnows(k)
<1>1. ASSUME NEW s \in Slots, slots[s] # Empty
      PROVE  Shown(s) \in SlotKnows(s)
  BY <1>1 DEF TypeOK, View, Shown, SlotKnows, ViewNames
<1>2. ASSUME NEW k \in CallIds, calls[k] # NoCall, calls[k].kind = "refresh"
      PROVE  calls[k].decision \in CallKnows(k)
  <2>1. calls[k].decision \in DecisionIds
    BY <1>2, KindsOfCalls DEF TypeOK, RefreshCall
  <2> QED
    BY <1>2, <2>1 DEF CallKnows, CallNames
<1>3. ASSUME NEW k \in CallIds, Answered(k, "evaluate"), calls[k].answer # Failed
      PROVE  calls[k].answer.decision \in CallKnows(k)
  <2>1. calls[k] # NoCall /\ calls[k].kind = "evaluate" /\ calls[k].answer # Pending
    BY <1>3 DEF Answered, Open
  <2>2. calls[k] \in EvaluateCall
    BY <2>1, KindsOfCalls DEF TypeOK
  <2>3. calls[k].answer.decision \in DecisionIds
    BY <1>3, <2>1, <2>2 DEF EvaluateCall, View
  <2> QED
    BY <1>3, <2>1, <2>3 DEF CallKnows, CallNames, Delivered
<1> QED
  BY <1>1, <1>2, <1>3

\* Events are added to a decision, not taken away.
LEMMA EventsGrow ==
    ASSUME PromiseInv, PromiseInv', NEW d \in DecisionIds,
           \A c \in ChallengeIds :
              boundTo[c] = d =>
                 /\ boundTo'[c] = d
                 /\ phase[c] \in {"verified", "denied"} => phase'[c] \in {"verified", "denied"}
    PROVE  Events(d) \in Nat /\ Events(d)' \in Nat /\ Events(d) <= Events(d)'
<1>1. BoundTo(d) \subseteq BoundTo(d)' /\ Settled(d) \subseteq Settled(d)'
  BY DEF BoundTo, Settled
<1>2. IsFiniteSet(BoundTo(d)') /\ Settled(d)' \subseteq BoundTo(d)'
  BY DEF PromiseInv, Settled
<1>3. IsFiniteSet(Settled(d)')
  BY <1>2, FS_Subset
<1>4. /\ Cardinality(BoundTo(d)) \in Nat /\ Cardinality(BoundTo(d)') \in Nat
      /\ Cardinality(BoundTo(d)) <= Cardinality(BoundTo(d)')
  BY <1>1, <1>2, FS_Subset, FS_CardinalityType
<1>5. /\ Cardinality(Settled(d)) \in Nat /\ Cardinality(Settled(d)') \in Nat
      /\ Cardinality(Settled(d)) <= Cardinality(Settled(d)')
  BY <1>1, <1>3, FS_Subset, FS_CardinalityType
<1>6. Events(d) = Cardinality(BoundTo(d)) + Cardinality(Settled(d))
  BY DEF Events
<1>7. Events(d)' = Cardinality(BoundTo(d)') + Cardinality(Settled(d)')
  BY DEF Events
<1> QED
  BY <1>4, <1>5, <1>6, <1>7

MoreEvents(d) == Events(d) \in Nat /\ Events(d)' \in Nat /\ Events(d) <= Events(d)'

LEMMA ServeAddsEvents ==
    ASSUME PanelsIInv, PromiseInv', NEW k \in CallIds, Serve(k),
           NEW d \in DecisionIds, selected[d] \in Selections, outcome'[d] # "NONE"
    PROVE  outcome[d] # "NONE" /\ MoreEvents(d)
<1> USE DEF PanelsIInv, PanelsInv
<1>1. ASSUME NEW e \in DecisionIds, NEW f \in Selections, ServeEvaluate(k, e, f)
      PROVE  outcome[d] # "NONE" /\ MoreEvents(d)
  <2>1. /\ selected[e] = "undecided" /\ outcome' = [outcome EXCEPT ![e] = "PENDING"]
        /\ UNCHANGED <<phase, boundTo>>
    BY <1>1 DEF ServeEvaluate, Decide
  <2>2. d # e
    BY <2>1, WebClientConstants DEF WebClientAssumption
  <2>3. outcome'[d] = outcome[d]
    BY <2>1, <2>2 DEF TypeOK
  <2> QED
    BY <2>1, <2>3, EventsGrow DEF MoreEvents
<1>2. ASSUME NEW c \in ChallengeIds, NEW mode \in Modes, ServeCreate(k, c, mode)
      PROVE  outcome[d] # "NONE" /\ MoreEvents(d)
  <2>1. PICK e : e = calls[k].decision
    OBVIOUS
  <2>2. /\ phase[c] = "unused" /\ phase' = [phase EXCEPT ![c] = "open"]
        /\ boundTo' = [boundTo EXCEPT ![c] = e] /\ UNCHANGED outcome
    BY <1>2, <2>1 DEF ServeCreate, Issue
  <2>3. boundTo[c] # d
    BY <2>2 DEF PromiseInv
  <2>4. \A b \in ChallengeIds \ {c} : phase'[b] = phase[b] /\ boundTo'[b] = boundTo[b]
    BY <2>2 DEF TypeOK
  <2> QED
    BY <2>2, <2>3, <2>4, EventsGrow DEF MoreEvents
<1>3. ASSUME NEW verdict \in {"verified", "denied"}, ServeVerify(k, verdict)
      PROVE  outcome[d] # "NONE" /\ MoreEvents(d)
  <2>1. PICK c : c = calls[k].challenge.id
    OBVIOUS
  <2>2. PICK status : status = IF verdict = "verified" THEN "AUTHORIZED" ELSE "DENIED"
    OBVIOUS
  <2>3. /\ calls[k] # NoCall /\ calls[k].kind = "verify"
        /\ phase[c] = "open" /\ phase' = [phase EXCEPT ![c] = verdict]
        /\ outcome' = [outcome EXCEPT ![boundTo[c]] = status] /\ UNCHANGED boundTo
    BY <1>3, <2>1, <2>2 DEF ServeVerify, Settle, PendingCall, Open
  <2>4. c \in ChallengeIds
    BY <2>1, <2>3, KindsOfCalls DEF TypeOK, VerifyCall, Handle
  <2>5. outcome[boundTo[c]] # "NONE" /\ boundTo[c] \in DecisionIds
    BY <2>3, <2>4 DEF PromiseInv
  <2>6. outcome[d] # "NONE"
    BY <2>3, <2>5 DEF TypeOK
  <2>7. \A b \in ChallengeIds : phase'[b] = IF b = c THEN verdict ELSE phase[b]
    BY <2>3 DEF TypeOK
  <2> QED
    BY <2>3, <2>6, <2>7, EventsGrow DEF MoreEvents
<1>4. CASE ServeRefresh(k) \/ Fail(k)
  <2>1. UNCHANGED <<phase, boundTo, outcome>>
    BY <1>4 DEF ServeRefresh, Fail, serverVars, promiseVars
  <2> QED
    BY <2>1, EventsGrow DEF MoreEvents
<1>5. CASE ServeReset(k)
  <2>1. outcome' = [e \in DecisionIds |-> "NONE"]
    BY <1>5 DEF ServeReset, Wipe
  <2> QED
    BY <2>1
<1> QED
  BY <1>1, <1>2, <1>3, <1>4, <1>5 DEF Serve

\* What there is to show after a step.
LEMMA TracesInParts ==
    ASSUME \A s \in Slots : slots'[s] # Empty /\ outcome'[slots'[s].decision] # "NONE" =>
              \E e : e = slots'[s].decision /\ slots'[s].events <= Events(e)',
           \A k \in CallIds :
              /\ calls'[k] # NoCall /\ calls'[k].kind = "evaluate"
              /\ calls'[k].answer \notin {Pending, Failed}
              => calls'[k].answer.events = 0,
           \A k \in CallIds :
              /\ calls'[k] # NoCall /\ calls'[k].kind = "refresh"
              /\ calls'[k].answer \notin {Pending, Failed}
              => /\ outcome'[calls'[k].decision] # "NONE" =>
                       \E e : e = calls'[k].decision /\ calls'[k].answer.events <= Events(e)'
                 /\ \A s \in Slots :
                       Panel(k, s)' /\ slots'[s] # Empty
                          /\ slots'[s].decision = calls'[k].decision =>
                             slots'[s].events <= calls'[k].answer.events
    PROVE  TraceInv'
<1>1. \A s \in Slots : \A e : e = slots'[s].decision => Events(e)' = Events(Shown(s))'
  BY DEF Events, BoundTo, Settled, Shown
<1>2. \A k \in CallIds : \A e : e = calls'[k].decision => Events(e)' = Events(calls[k].decision)'
  BY DEF Events, BoundTo, Settled
<1> QED
  BY <1>1, <1>2 DEF TraceInv, Answered, Open, Shown

LEMMA ServedKeepsTraces ==
    ASSUME KnowledgeIInv, TraceInv, PromiseInv', NEW k \in CallIds, Serve(k),
           calls[k] # NoCall, NEW result, Answer(k, result),
           [calls[k] EXCEPT !.answer = result] \in Call,
           calls[k].kind = "evaluate" /\ result # Failed => result.events = 0,
           NEW d, calls[k].kind = "refresh" => d = calls[k].decision,
           calls[k].kind = "refresh" /\ result # Failed =>
              /\ outcome'[d] # "NONE" => result.events <= Events(d)'
              /\ \A s \in Slots :
                    slots[s] # Empty /\ Shown(s) = d => slots[s].events <= result.events
    PROVE  TraceInv'
<1> USE DEF KnowledgeIInv, PanelsIInv, PanelsInv
<1>1. PICK x : x = [calls[k] EXCEPT !.answer = result]
  OBVIOUS
<1>2. /\ calls'[k] = x /\ x.kind = calls[k].kind /\ x.answer = result
      /\ x.kind \in {"create", "refresh"} => x.decision = calls[k].decision
      /\ \A j \in CallIds \ {k} : calls'[j] = calls[j]
      /\ \A j \in CallIds, t \in Slots : Panel(j, t)' <=> Panel(j, t)
      /\ UNCHANGED <<slots, flow>>
  BY <1>1, AnsweredCall
<1>3. ASSUME NEW s \in Slots, slots[s] # Empty, NEW e, e = Shown(s), outcome'[e] # "NONE"
      PROVE  slots[s].events <= Events(e)'
  <2>1. e \in DecisionIds /\ selected[e] \in Selections /\ slots[s].events \in Nat
    BY <1>3 DEF TypeOK, View, Shown
  <2>2. outcome[e] # "NONE" /\ MoreEvents(e)
    BY <1>3, <2>1, ServeAddsEvents
  <2>3. slots[s].events <= Events(e)
    BY <1>3, <2>2 DEF TraceInv
  <2> QED
    BY <2>1, <2>2, <2>3 DEF MoreEvents
<1>4. ASSUME NEW j \in CallIds, calls'[j] # NoCall, calls'[j].kind = "evaluate",
             calls'[j].answer \notin {Pending, Failed}
      PROVE  calls'[j].answer.events = 0
  <2>1. CASE j = k
    BY <1>2, <1>4, <2>1
  <2>2. CASE j # k
    BY <1>2, <1>4, <2>2 DEF TraceInv, Answered, Open
  <2> QED
    BY <2>1, <2>2
<1>5. ASSUME NEW j \in CallIds, calls'[j] # NoCall, calls'[j].kind = "refresh",
             calls'[j].answer \notin {Pending, Failed}, NEW e, e = calls'[j].decision
      PROVE  /\ outcome'[e] # "NONE" => calls'[j].answer.events <= Events(e)'
             /\ \A s \in Slots :
                   Panel(j, s) /\ slots[s] # Empty /\ Shown(s) = e =>
                      slots[s].events <= calls'[j].answer.events
  <2>1. CASE j = k
    BY <1>2, <1>5, <2>1
  <2>2. CASE j # k
    <3>1. /\ calls[j] # NoCall /\ calls[j].kind = "refresh" /\ e = calls[j].decision
          /\ calls[j].answer \notin {Pending, Failed} /\ calls'[j] = calls[j]
      BY <1>2, <1>5, <2>2
    <3>2. calls[j] \in RefreshCall /\ CarriesDecided(calls[j])
      BY <3>1, KindsOfCalls DEF TypeOK, CallsDecided
    <3>3. /\ e \in DecisionIds /\ selected[e] \in Selections
          /\ calls[j].answer.events \in Nat
      BY <3>1, <3>2 DEF RefreshCall, CarriesDecided, View
    <3>4. /\ outcome[e] # "NONE" => calls[j].answer.events <= Events(e)
          /\ \A s \in Slots :
                Panel(j, s) /\ slots[s] # Empty /\ Shown(s) = e =>
                   slots[s].events <= calls[j].answer.events
      BY <3>1 DEF TraceInv, Answered, Open
    <3>5. outcome'[e] # "NONE" => calls[j].answer.events <= Events(e)'
      BY <3>3, <3>4, ServeAddsEvents DEF MoreEvents
    <3> QED
      BY <3>1, <3>4, <3>5
  <2> QED
    BY <2>1, <2>2
<1> QED
  <2>1. ASSUME NEW s \in Slots, slots'[s] # Empty, outcome'[slots'[s].decision] # "NONE"
        PROVE  \E e : e = slots'[s].decision /\ slots'[s].events <= Events(e)'
    <3>1. PICK e : e = Shown(s)
      OBVIOUS
    <3>2. e = slots'[s].decision /\ slots'[s] = slots[s]
      BY <1>2, <3>1 DEF Shown
    <3> QED
      BY <1>3, <2>1, <3>1, <3>2
  <2>2. ASSUME NEW j \in CallIds, calls'[j] # NoCall, calls'[j].kind = "refresh",
               calls'[j].answer \notin {Pending, Failed}
        PROVE  /\ outcome'[calls'[j].decision] # "NONE" =>
                     \E e : e = calls'[j].decision /\ calls'[j].answer.events <= Events(e)'
               /\ \A s \in Slots :
                     Panel(j, s)' /\ slots'[s] # Empty
                        /\ slots'[s].decision = calls'[j].decision =>
                           slots'[s].events <= calls'[j].answer.events
    <3>1. PICK e : e = calls'[j].decision
      OBVIOUS
    <3> QED
      BY <1>2, <1>5, <2>2, <3>1 DEF Shown
  <2> QED
    BY <1>4, <2>1, <2>2, TracesInParts

LEMMA ServeKeepsTraces ==
    ASSUME KnowledgeIInv, TraceInv, PromiseInv', NEW k \in CallIds, Serve(k)
    PROVE  TraceInv'
<1> USE DEF KnowledgeIInv, PanelsIInv, PanelsInv
<1>1. ASSUME NEW d \in DecisionIds, NEW f \in Selections, ServeEvaluate(k, d, f)
      PROVE  TraceInv'
  <2>1. PICK result : result = [decision |-> d, events |-> 0]
    OBVIOUS
  <2>2. calls[k] # NoCall /\ calls[k].kind = "evaluate" /\ Answer(k, result)
    BY <1>1, <2>1 DEF ServeEvaluate, PendingCall, Open
  <2>3. result \in View /\ result.events = 0
    BY <2>1 DEF View
  <2>4. [calls[k] EXCEPT !.answer = result] \in Call
    BY <2>2, <2>3, AnswersFit
  <2> QED
    BY <2>2, <2>3, <2>4, ServedKeepsTraces
<1>2. ASSUME NEW c \in ChallengeIds, NEW mode \in Modes, ServeCreate(k, c, mode)
      PROVE  TraceInv'
  <2>1. PICK result : result = [id |-> c, mode |-> mode]
    OBVIOUS
  <2>2. calls[k] # NoCall /\ calls[k].kind = "create" /\ Answer(k, result)
    BY <1>2, <2>1 DEF ServeCreate, PendingCall, Open
  <2>3. result \in Handle
    BY <2>1 DEF Handle
  <2>4. [calls[k] EXCEPT !.answer = result] \in Call
    BY <2>2, <2>3, AnswersFit
  <2> QED
    BY <2>2, <2>4, ServedKeepsTraces
<1>3. ASSUME NEW verdict \in {"verified", "denied"}, ServeVerify(k, verdict)
      PROVE  TraceInv'
  <2>1. PICK c : c = calls[k].challenge.id
    OBVIOUS
  <2>2. PICK result : result = [challenge |-> c, verdict |-> verdict]
    OBVIOUS
  <2>3. calls[k] # NoCall /\ calls[k].kind = "verify" /\ Answer(k, result)
    BY <1>3, <2>1, <2>2 DEF ServeVerify, PendingCall, Open
  <2>4. c \in ChallengeIds
    BY <2>1, <2>3, KindsOfCalls DEF TypeOK, VerifyCall, Handle
  <2>5. result \in Verdict
    BY <2>2, <2>4 DEF Verdict
  <2>6. [calls[k] EXCEPT !.answer = result] \in Call
    BY <2>3, <2>5, AnswersFit
  <2> QED
    BY <2>3, <2>6, ServedKeepsTraces
<1>4. CASE ServeRefresh(k)
  <2>1. PICK d : d = calls[k].decision
    OBVIOUS
  <2>2. PICK result : result = [decision |-> d, events |-> Events(d)]
    OBVIOUS
  <2>3. /\ calls[k] # NoCall /\ calls[k].kind = "refresh" /\ Answer(k, result)
        /\ outcome[d] # "NONE" /\ UNCHANGED <<phase, boundTo, outcome>>
    BY <1>4, <2>1, <2>2 DEF ServeRefresh, PendingCall, Open, serverVars, promiseVars
  <2>4. d \in DecisionIds
    BY <2>1, <2>3, KindsOfCalls DEF TypeOK, RefreshCall
  <2>5. Events(d) \in Nat /\ Events(d)' = Events(d)
    BY <2>3, <2>4, EventsAreCounted DEF Events, BoundTo, Settled
  <2>6. result \in View /\ result.events = Events(d)
    BY <2>2, <2>4, <2>5 DEF View
  <2>7. [calls[k] EXCEPT !.answer = result] \in Call
    BY <2>3, <2>6, AnswersFit
  <2>8. /\ result.events <= Events(d)'
        /\ \A s \in Slots :
              slots[s] # Empty /\ Shown(s) = d => slots[s].events <= result.events
    BY <2>3, <2>5, <2>6 DEF TraceInv
  <2> QED
    BY <2>1, <2>3, <2>7, <2>8, ServedKeepsTraces
<1>5. CASE ServeReset(k)
  <2>1. calls[k] # NoCall /\ calls[k].kind = "reset" /\ Answer(k, "done")
    BY <1>5 DEF ServeReset, PendingCall, Open
  <2>2. [calls[k] EXCEPT !.answer = "done"] \in Call
    BY <2>1, AnswersFit
  <2> QED
    BY <2>1, <2>2, ServedKeepsTraces
<1>6. CASE Fail(k)
  <2>1. calls[k] # NoCall /\ calls[k].kind # "prompt" /\ Answer(k, Failed)
    BY <1>6 DEF Fail
  <2>2. [calls[k] EXCEPT !.answer = Failed] \in Call
    BY <2>1, AnswersFit
  <2> QED
    BY <2>1, <2>2, ServedKeepsTraces
<1> QED
  BY <1>1, <1>2, <1>3, <1>4, <1>5, <1>6 DEF Serve

\* A step of the browser that shows and brings nothing new.
LEMMA NoTraceComes ==
    ASSUME TraceInv, UNCHANGED <<phase, boundTo, outcome>>,
           \A s \in Slots : slots'[s] = slots[s] \/ slots'[s] = Empty,
           \A k \in CallIds :
              /\ calls'[k] # NoCall /\ calls'[k].kind \in {"evaluate", "refresh"}
              /\ calls'[k].answer \notin {Pending, Failed}
              => /\ calls[k] # NoCall /\ calls'[k].kind = calls[k].kind
                 /\ calls'[k].answer = calls[k].answer
                 /\ calls'[k].kind = "refresh" =>
                       /\ calls'[k].decision = calls[k].decision
                       /\ \A s \in Slots : Panel(k, s)' => Panel(k, s)
    PROVE  TraceInv'
<1>1. \A d : Events(d)' = Events(d)
  BY DEF Events, BoundTo, Settled
<1>2. ASSUME NEW s \in Slots, slots'[s] # Empty, outcome'[slots'[s].decision] # "NONE"
      PROVE  \E e : e = slots'[s].decision /\ slots'[s].events <= Events(e)'
  <2>1. PICK e : e = Shown(s)
    OBVIOUS
  <2>2. slots'[s] = slots[s] /\ e = slots'[s].decision
    BY <1>2, <2>1 DEF Shown
  <2>3. slots[s].events <= Events(e)
    BY <1>2, <2>1, <2>2 DEF TraceInv
  <2> QED
    BY <1>1, <2>2, <2>3
<1>3. ASSUME NEW k \in CallIds, calls'[k] # NoCall, calls'[k].kind = "refresh",
             calls'[k].answer \notin {Pending, Failed}
      PROVE  /\ outcome'[calls'[k].decision] # "NONE" =>
                   \E e : e = calls'[k].decision /\ calls'[k].answer.events <= Events(e)'
             /\ \A s \in Slots :
                   Panel(k, s)' /\ slots'[s] # Empty
                      /\ slots'[s].decision = calls'[k].decision =>
                         slots'[s].events <= calls'[k].answer.events
  <2>1. PICK e : e = calls[k].decision
    OBVIOUS
  <2>2. /\ Answered(k, "refresh") /\ calls[k].answer # Failed
        /\ calls'[k].answer = calls[k].answer /\ calls'[k].decision = e
        /\ \A s \in Slots : Panel(k, s)' => Panel(k, s)
    BY <1>3, <2>1 DEF Answered, Open
  <2>3. /\ outcome[e] # "NONE" => calls[k].answer.events <= Events(e)
        /\ \A s \in Slots : Panel(k, s) /\ slots[s] # Empty /\ Shown(s) = e =>
                             slots[s].events <= calls[k].answer.events
    BY <2>1, <2>2 DEF TraceInv
  <2> QED
    BY <1>1, <2>2, <2>3 DEF Shown
<1>4. \A k \in CallIds :
         /\ calls'[k] # NoCall /\ calls'[k].kind = "evaluate"
         /\ calls'[k].answer \notin {Pending, Failed}
         => calls'[k].answer.events = 0
  BY DEF TraceInv, Answered, Open
<1> QED
  BY <1>2, <1>3, <1>4, TracesInParts

\* No slot loses events of the decision it shows.
NoneShrinks ==
    \A s \in Slots :
        slots[s] # Empty /\ slots'[s] # Empty /\ slots[s].decision = slots'[s].decision =>
           slots[s].events <= slots'[s].events

LEMMA KeptSlotsDoNotShrink ==
    ASSUME TypeOK, \A s \in Slots : slots'[s] = slots[s] \/ slots'[s] = Empty
    PROVE  NoneShrinks
BY DEF NoneShrinks, TypeOK, View

\* An answer that goes into a slot, where the decision it is about is shown
\* only if it is the slot's own panel that had it refreshed.
LEMMA SlotGetsAnswer ==
    ASSUME KnowledgeIInv, TraceInv, NEW k \in CallIds, NEW s \in Slots,
           calls' = [calls EXCEPT ![k] = NoCall], UNCHANGED <<phase, boundTo, outcome>>,
           NEW v \in View, v.decision \in CallKnows(k), slots' = [slots EXCEPT ![s] = v],
           outcome[v.decision] # "NONE" => v.events <= Events(v.decision),
           Panel(k, s) /\ slots[s] # Empty /\ Shown(s) = v.decision =>
              slots[s].events <= v.events
    PROVE  TraceInv' /\ NoneShrinks
<1> USE DEF KnowledgeIInv, PanelsIInv, PanelsInv
<1>1. \A d : Events(d)' = Events(d)
  BY DEF Events, BoundTo, Settled
<1>2. slots'[s] = v /\ \A t \in Slots \ {s} : slots'[t] = slots[t]
  BY DEF TypeOK
<1>3. /\ calls'[k] = NoCall
      /\ \A j \in CallIds \ {k} :
            calls'[j] = calls[j] /\ \A t \in Slots : Panel(j, t)' <=> Panel(j, t)
  BY OtherCalls
<1>4. ASSUME NEW t \in Slots, slots'[t] # Empty, outcome'[slots'[t].decision] # "NONE"
      PROVE  \E e : e = slots'[t].decision /\ slots'[t].events <= Events(e)'
  <2>1. CASE t = s
    BY <1>1, <1>2, <1>4, <2>1
  <2>2. CASE t # s
    <3>1. slots'[t] = slots[t]
      BY <1>2, <2>2
    <3>2. slots[t].events <= Events(slots[t].decision)
      BY <1>4, <3>1 DEF TraceInv, Shown
    <3> QED
      BY <1>1, <3>1, <3>2
  <2> QED
    BY <2>1, <2>2
<1>5. ASSUME NEW j \in CallIds, calls'[j] # NoCall, calls'[j].kind = "refresh",
             calls'[j].answer \notin {Pending, Failed}
      PROVE  /\ outcome'[calls'[j].decision] # "NONE" =>
                   \E e : e = calls'[j].decision /\ calls'[j].answer.events <= Events(e)'
             /\ \A t \in Slots :
                   Panel(j, t)' /\ slots'[t] # Empty
                      /\ slots'[t].decision = calls'[j].decision =>
                         slots'[t].events <= calls'[j].answer.events
  <2>1. PICK e : e = calls[j].decision
    OBVIOUS
  <2>2. /\ j # k /\ calls'[j] = calls[j] /\ Answered(j, "refresh")
        /\ calls[j].answer # Failed
    BY <1>3, <1>5 DEF Answered, Open
  <2>3. /\ outcome[e] # "NONE" => calls[j].answer.events <= Events(e)
        /\ \A t \in Slots : Panel(j, t) /\ slots[t] # Empty /\ Shown(t) = e =>
                             slots[t].events <= calls[j].answer.events
    BY <2>1, <2>2 DEF TraceInv
  <2>4. e \in CallKnows(j)
    BY <2>1, <2>2, KnownByName DEF Answered, Open
  <2>5. v.decision # e
    BY <2>2, <2>4 DEF Ledger, Exclusive
  <2>6. ASSUME NEW t \in Slots, Panel(j, t)', slots'[t] # Empty, slots'[t].decision = e
        PROVE  slots'[t].events <= calls[j].answer.events
    <3>1. t # s /\ slots'[t] = slots[t] /\ Panel(j, t)
      BY <1>2, <1>3, <2>2, <2>5, <2>6
    <3> QED
      BY <2>3, <2>6, <3>1 DEF Shown
  <2> QED
    BY <1>1, <2>1, <2>2, <2>3, <2>6
<1>6. \A j \in CallIds :
         /\ calls'[j] # NoCall /\ calls'[j].kind = "evaluate"
         /\ calls'[j].answer \notin {Pending, Failed}
         => calls'[j].answer.events = 0
  BY <1>3 DEF TraceInv, Answered, Open
<1>7. NoneShrinks
  <2> SUFFICES ASSUME NEW t \in Slots, slots[t] # Empty, slots'[t] # Empty,
                      slots[t].decision = slots'[t].decision
               PROVE  slots[t].events <= slots'[t].events
    BY DEF NoneShrinks
  <2>1. CASE t # s
    BY <1>2, <2>1 DEF TypeOK, View
  <2>2. CASE t = s
    <3>1. Shown(s) \in SlotKnows(s) /\ Shown(s) = v.decision
      BY <1>2, <2>2, KnownByName DEF Shown
    <3>2. Panel(k, s)
      BY <3>1 DEF Ledger, Exclusive
    <3> QED
      BY <1>2, <2>2, <3>1, <3>2
  <2> QED
    BY <2>1, <2>2
<1> QED
  BY <1>4, <1>5, <1>6, <1>7, TracesInParts

LEMMA ReturnsKeepTraces ==
    ASSUME KnowledgeIInv, TraceInv, NEW k \in CallIds, Return(k)
    PROVE  TraceInv' /\ NoneShrinks
<1> USE DEF KnowledgeIInv, PanelsIInv, PanelsInv
<1>0. ASSUME NEW x \in Call \cup {NoCall}, calls' = [calls EXCEPT ![k] = x],
             UNCHANGED <<phase, boundTo, outcome, slots>>,
             x # NoCall => x.kind \notin {"evaluate", "refresh"} \/ x.answer = Pending
      PROVE  TraceInv' /\ NoneShrinks
  <2>1. /\ calls'[k] = x
        /\ \A j \in CallIds \ {k} :
              calls'[j] = calls[j] /\ \A t \in Slots : Panel(j, t)' <=> Panel(j, t)
    BY <1>0, OtherCalls
  <2>2. TraceInv'
    BY <1>0, <2>1, NoTraceComes
  <2> QED
    BY <1>0, <2>2, KeptSlotsDoNotShrink
<1>1. CASE EvaluateReturns(k)
  <2>1. /\ Answered(k, "evaluate") /\ calls[k] # NoCall /\ calls[k].kind = "evaluate"
        /\ calls[k].answer # Pending
        /\ calls' = [calls EXCEPT ![k] = NoCall] /\ UNCHANGED <<phase, boundTo, outcome>>
    BY <1>1 DEF EvaluateReturns, Answered, Open, Send, serverVars, promiseVars
  <2>2. CASE calls[k].answer = Failed
    BY <1>0, <1>1, <2>1, <2>2 DEF EvaluateReturns
  <2>3. CASE calls[k].answer # Failed
    <3>1. PICK s : s = calls[k].slot
      OBVIOUS
    <3>2. PICK v : v = calls[k].answer
      OBVIOUS
    <3>3. calls[k] \in EvaluateCall
      BY <2>1, KindsOfCalls DEF TypeOK
    <3>4. s \in Slots /\ v \in View
      BY <2>1, <2>3, <3>1, <3>2, <3>3 DEF EvaluateCall
    <3>5. slots' = [slots EXCEPT ![s] = v] /\ v.decision \in CallKnows(k)
      BY <1>1, <2>1, <2>3, <3>1, <3>2, KnownByName DEF EvaluateReturns
    <3>6. v.events = 0 /\ v.decision \in DecisionIds
      BY <2>1, <2>3, <3>2, <3>4 DEF TraceInv, View
    <3>7. v.events <= Events(v.decision)
      BY <3>6, EventsAreCounted
    <3>8. ~Panel(k, s)
      BY <2>1 DEF Panel, PanelCall
    <3> QED
      BY <2>1, <3>4, <3>5, <3>7, <3>8, SlotGetsAnswer
  <2> QED
    BY <2>2, <2>3
<1>2. CASE RefreshReturns(k)
  <2>1. PICK s : s = calls[k].slot
    OBVIOUS
  <2>2. /\ Answered(k, "refresh") /\ calls[k] # NoCall /\ calls[k].kind = "refresh"
        /\ calls[k].answer # Pending
        /\ slots' = IF calls[k].answer = Failed \/ slots[s] = Empty THEN slots
                    ELSE [slots EXCEPT ![s] = calls[k].answer]
        /\ calls' = [calls EXCEPT ![k] = NoCall] /\ UNCHANGED <<phase, boundTo, outcome>>
    BY <1>2, <2>1 DEF RefreshReturns, Refreshed, Answered, Open, Send, serverVars, promiseVars
  <2>3. CASE calls[k].answer = Failed \/ slots[s] = Empty
    BY <1>0, <2>2, <2>3
  <2>4. CASE ~(calls[k].answer = Failed \/ slots[s] = Empty)
    <3>1. PICK v : v = calls[k].answer
      OBVIOUS
    <3>2. calls[k] \in RefreshCall /\ CarriesDecided(calls[k])
      BY <2>2, KindsOfCalls DEF TypeOK, CallsDecided
    <3>3. s \in Slots /\ v \in View /\ v.decision = calls[k].decision
      BY <2>1, <2>2, <2>4, <3>1, <3>2 DEF RefreshCall, CarriesDecided
    <3>4. slots' = [slots EXCEPT ![s] = v] /\ v.decision \in CallKnows(k)
      BY <2>2, <2>4, <3>1, <3>3, KnownByName
    <3>5. /\ outcome[v.decision] # "NONE" => v.events <= Events(v.decision)
          /\ Panel(k, s) /\ slots[s] # Empty /\ Shown(s) = v.decision =>
                slots[s].events <= v.events
      BY <2>2, <2>4, <3>1, <3>3 DEF TraceInv
    <3> QED
      BY <2>2, <3>3, <3>4, <3>5, SlotGetsAnswer
  <2> QED
    BY <2>3, <2>4
<1>3. CASE ResetReturns(k)
  <2>1. CASE calls[k].answer = Failed
    BY <1>0, <1>3, <2>1 DEF ResetReturns, Send, serverVars, promiseVars
  <2>2. CASE calls[k].answer # Failed
    <3>1. /\ slots' = [s \in Slots |-> Empty] /\ UNCHANGED <<phase, boundTo, outcome>>
          /\ calls' = [j \in CallIds |-> IF j = k THEN NoCall ELSE Unmounted(calls[j])]
      BY <1>3, <2>2 DEF ResetReturns, serverVars, promiseVars
    <3>2. ASSUME NEW j \in CallIds, calls'[j] # NoCall,
                 calls'[j].kind \in {"evaluate", "refresh"}
          PROVE  /\ calls[j] # NoCall /\ calls'[j].kind = calls[j].kind
                 /\ calls'[j].answer = calls[j].answer
                 /\ calls'[j].kind = "refresh" =>
                       /\ calls'[j].decision = calls[j].decision
                       /\ \A s \in Slots : Panel(j, s)' => Panel(j, s)
      <4>1. calls[j] \in Call \cup {NoCall} /\ calls'[j] = Unmounted(calls[j])
        BY <3>1, <3>2 DEF TypeOK
      <4>2. calls[j] # NoCall /\ calls[j] \in Call /\ calls'[j].kind = calls[j].kind
        BY <3>2, <4>1, UnmountedType
      <4>3. CASE calls[j].kind = "evaluate"
        BY <4>1, <4>2, <4>3, UnmountedType
      <4>4. CASE calls[j].kind = "refresh"
        <5>1. calls[j] \in RefreshCall /\ calls'[j] = [calls[j] EXCEPT !.mounted = FALSE]
          BY <4>1, <4>2, <4>4, KindsOfCalls, UnmountedType
        <5>2. /\ calls'[j].answer = calls[j].answer /\ calls'[j].decision = calls[j].decision
              /\ ~calls'[j].mounted
          BY <5>1 DEF RefreshCall
        <5> QED
          BY <4>2, <5>2 DEF Panel
      <4> QED
        BY <3>2, <4>2, <4>3, <4>4
    <3>3. \A s \in Slots : slots'[s] = Empty
      BY <3>1
    <3> QED
      BY <3>1, <3>2, <3>3, NoTraceComes, KeptSlotsDoNotShrink
  <2> QED
    BY <2>1, <2>2
<1>4. CASE CreateReturns(k) \/ (Reject(k) /\ UNCHANGED <<phase, boundTo, outcome, slots>>)
  BY <1>0, <1>4 DEF CreateReturns, Reject, Send, serverVars, promiseVars, appVars
<1>5. CASE PromptReturns(k)
  <2>1. /\ calls[k] # NoCall /\ calls[k].kind = "prompt"
        /\ UNCHANGED <<phase, boundTo, outcome, slots>>
    BY <1>5 DEF PromptReturns, Open, serverVars, promiseVars, appVars
  <2>2. CASE Reject(k)
    BY <1>4, <2>1, <2>2
  <2>3. CASE Send(k, [calls[k] EXCEPT !.kind = "verify"])
    <3>1. PICK x : x = [calls[k] EXCEPT !.kind = "verify"]
      OBVIOUS
    <3>2. calls[k] \in PromptCall
      BY <2>1, KindsOfCalls DEF TypeOK
    <3>3. x \in VerifyCall /\ x.kind = "verify"
      BY <3>1, <3>2 DEF PromptCall, VerifyCall
    <3> QED
      BY <1>0, <2>1, <2>3, <3>1, <3>3 DEF Send, Call
  <2> QED
    BY <1>5, <2>2, <2>3 DEF PromptReturns
<1>6. CASE VerifyReturns(k)
  <2>1. /\ calls[k] # NoCall /\ calls[k].kind = "verify"
        /\ UNCHANGED <<phase, boundTo, outcome, slots>>
    BY <1>6 DEF VerifyReturns, Answered, Open, serverVars, promiseVars, appVars
  <2>2. CASE calls[k].answer = Failed
    BY <1>4, <1>6, <2>1, <2>2 DEF VerifyReturns
  <2>3. CASE calls[k].answer # Failed
    <3>1. PICK x : x = Refresh(calls[k])
      OBVIOUS
    <3>2. calls[k] \in VerifyCall
      BY <2>1, KindsOfCalls DEF TypeOK
    <3>3. x \in RefreshCall /\ x.answer = Pending
      BY <3>1, <3>2 DEF Refresh, VerifyCall, RefreshCall
    <3>4. calls' = [calls EXCEPT ![k] = x]
      BY <1>6, <2>3, <3>1 DEF VerifyReturns, Send
    <3> QED
      BY <1>0, <2>1, <3>3, <3>4 DEF Call
  <2> QED
    BY <2>2, <2>3
<1> QED
  BY <1>1, <1>2, <1>3, <1>4, <1>5, <1>6 DEF Return

\* A step that leaves the slots and puts into the requests nothing that has
\* come back.
LEMMA OneCallBringsNoTrace ==
    ASSUME TypeOK, TraceInv, NEW k \in CallIds, NEW x \in Call,
           x.kind \notin {"evaluate", "refresh"} \/ x.answer = Pending,
           calls' = [calls EXCEPT ![k] = x], UNCHANGED <<phase, boundTo, outcome, slots>>
    PROVE  TraceInv' /\ NoneShrinks
<1>1. /\ calls'[k] = x
      /\ \A j \in CallIds \ {k} :
            calls'[j] = calls[j] /\ \A t \in Slots : Panel(j, t)' <=> Panel(j, t)
  BY OtherCalls
<1>2. TraceInv'
  BY <1>1, NoTraceComes
<1> QED
  BY <1>2, KeptSlotsDoNotShrink

LEMMA ClicksKeepTraces ==
    ASSUME PanelsInv, TraceInv, NEW k \in CallIds, NEW s \in Slots,
           \/ Continue(k, s) \/ TryBlocked(k, s) \/ Fallback(k, s)
           \/ Verify(k, s)
    PROVE  TraceInv' /\ NoneShrinks
<1> USE DEF PanelsInv
<1>1. CASE Continue(k, s) \/ TryBlocked(k, s) \/ Fallback(k, s)
  <2>1. PICK f \in AskedFactors, p \in BOOLEAN : slots[s] # Empty /\ Create(k, s, f, p)
    BY <1>1, Clicks
  <2>2. PICK x : x = [kind |-> "create", slot |-> s, mounted |-> TRUE,
                      decision |-> Shown(s), factor |-> f,
                      simulated |-> p, answer |-> Pending]
    OBVIOUS
  <2>3. calls' = [calls EXCEPT ![k] = x] /\ UNCHANGED <<phase, boundTo, outcome, slots>>
    BY <2>1, <2>2 DEF Create, Send, serverVars, promiseVars, appVars
  <2>4. Shown(s) \in DecisionIds
    BY <2>1 DEF TypeOK, View, Shown
  <2>5. x \in CreateCall /\ x.kind = "create"
    BY <2>2, <2>4 DEF CreateCall
  <2> QED
    BY <2>3, <2>5, OneCallBringsNoTrace DEF Call
<1>2. CASE Verify(k, s)
  <2>1. PICK x : x = [kind |-> IF flow[s].challenge.mode = "WEBAUTHN" THEN "prompt"
                               ELSE "verify",
                      slot |-> s, mounted |-> TRUE, seen |-> Shown(s),
                      challenge |-> flow[s].challenge, answer |-> Pending]
    OBVIOUS
  <2>2. /\ calls' = [calls EXCEPT ![k] = x] /\ UNCHANGED <<phase, boundTo, outcome, slots>>
        /\ slots[s] # Empty /\ flow[s].phase = "ready"
    BY <1>2, <2>1 DEF Verify, Send, serverVars, promiseVars, appVars
  <2>3. Shown(s) \in DecisionIds /\ flow[s].challenge \in Handle
    BY <2>2 DEF TypeOK, View, Shown, Flow
  <2>4. x \in PromptCall \cup VerifyCall /\ x.kind \in {"prompt", "verify"}
    BY <2>1, <2>3 DEF PromptCall, VerifyCall
  <2> QED
    BY <2>2, <2>4, OneCallBringsNoTrace DEF Call
<1> QED
  BY <1>1, <1>2

LEMMA NextKeepsTraces ==
    ASSUME KnowledgeIInv, TraceInv, PromiseInv', [Next]_vars
    PROVE  TraceInv' /\ NoneShrinks
<1> USE DEF KnowledgeIInv, PanelsIInv, PanelsInv
<1>1. ASSUME UNCHANGED <<phase, boundTo, outcome, slots, calls>>
      PROVE  TraceInv' /\ NoneShrinks
  <2>1. \A k \in CallIds, s \in Slots : Panel(k, s)' <=> Panel(k, s)
    BY <1>1 DEF Panel, PanelCall
  <2>2. TraceInv'
    BY <1>1, <2>1, NoTraceComes
  <2> QED
    BY <1>1, <2>2, KeptSlotsDoNotShrink
<1>2. CASE UNCHANGED vars
  BY <1>1, <1>2 DEF vars, serverVars, promiseVars, appVars
<1>3. ASSUME NEW s \in Slots, ResetFlow(s)
      PROVE  TraceInv' /\ NoneShrinks
  BY <1>1, <1>3 DEF ResetFlow, serverVars, promiseVars, appVars
<1>4. ASSUME NEW k \in CallIds,
             RunHero(k) \/ HandleReset(k) \/ \E s \in Slots : SubmitForm(k, s)
      PROVE  TraceInv' /\ NoneShrinks
  BY <1>4, OpeningSteps, OneCallBringsNoTrace
<1>5. ASSUME NEW k \in CallIds, Serve(k)
      PROVE  TraceInv' /\ NoneShrinks
  <2>1. UNCHANGED slots
    BY <1>5 DEF Serve, ServeEvaluate, ServeCreate, ServeVerify, ServeRefresh, ServeReset,
                Fail, Answer, appVars
  <2> QED
    BY <1>5, <2>1, ServeKeepsTraces, KeptSlotsDoNotShrink
<1> QED
  BY <1>2, <1>3, <1>4, <1>5, ClicksKeepTraces, ReturnsKeepTraces DEF Next

\* As long as a slot shows one decision its trace never loses events, whatever
\* order evaluations, refreshes and challenges come back in.
THEOREM TracesOnlyGrow == Spec => ShownTraceNeverShrinks
<1>1. Init => TraceInv
  <2> SUFFICES ASSUME Init PROVE TraceInv
    OBVIOUS
  <2>1. slots = [s \in Slots |-> Empty] /\ calls = [k \in CallIds |-> NoCall]
    BY DEF Init
  <2> QED
    BY <2>1 DEF TraceInv, Answered, Open
<1>2. /\ KnowledgeIInv /\ KnowledgeIInv' /\ TraceInv /\ [Next]_vars
      => TraceInv' /\ NoneShrinks
  BY NextKeepsTraces DEF KnowledgeIInv, PanelsIInv
<1>3. KnowledgeIInv /\ KnowledgeIInv' /\ TraceInv /\ [Next]_vars
      => [\A s \in Slots :
             ( /\ slots[s] # Empty
               /\ slots'[s] # Empty
               /\ slots[s].decision = slots'[s].decision )
             => slots[s].events <= slots'[s].events]_vars
  BY <1>2 DEF NoneShrinks
<1> QED
  BY <1>1, <1>2, <1>3, KnowledgeInvariant, PTL DEF Spec, ShownTraceNeverShrinks

=============================================================================
