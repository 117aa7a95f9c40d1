---------------------------- MODULE WebClientProofs ----------------------------
(***************************************************************************)
(* Proofs about WebClient for every number of decisions, challenges and    *)
(* requests in flight: types, and that the flags that disable the buttons  *)
(* tell the truth.  A panel has one request under way or none, as its busy *)
(* flag says; what it has under way is its own as long as it is mounted;   *)
(* and every request carries decisions that were taken (PanelsIInv).       *)
(* WebClientKnowledgeProofs goes on from here.                             *)
(***************************************************************************)
EXTENDS WebClient, FiniteSetTheorems, TLAPS

PanelCall(k) == calls[k] # NoCall /\ calls[k].kind \notin {"evaluate", "reset"}
Panel(k, s) == PanelCall(k) /\ calls[k].mounted /\ calls[k].slot = s
Heroes == {k \in CallIds : Open(k, "evaluate") /\ calls[k].hero}

\* The decisions requests carry were decided by the server, and a refresh
\* brings back the decision it asks for.
CarriesDecided(x) ==
    /\ x.kind = "evaluate" /\ x.answer \notin {Pending, Failed} =>
          selected[x.answer.decision] \in Selections
    /\ x.kind \in {"create", "refresh"} => selected[x.decision] \in Selections
    /\ x.kind \in {"prompt", "verify"} => selected[x.seen] \in Selections
    /\ x.kind = "refresh" /\ x.answer \notin {Pending, Failed} =>
          x.answer.decision = x.decision

CallsDecided == \A k \in CallIds : calls[k] # NoCall => CarriesDecided(calls[k])

\* A set of requests is one request or none.
OneIf(flag, S) ==
    /\ flag => \E k \in CallIds : S = {k}
    /\ ~flag => S = {}

\* The promise of the service as the tables show it: the challenges that are
\* neither unused nor wiped are those bound to a decision the server still has.
PromiseInv ==
    /\ \A c \in ChallengeIds :
          /\ phase[c] \in {"open", "verified", "denied"} <=> boundTo[c] \in DecisionIds
          /\ boundTo[c] \in DecisionIds => outcome[boundTo[c]] # "NONE"
    /\ \A d \in DecisionIds :
          /\ outcome[d] # "NONE" => selected[d] \in Selections
          /\ IsFiniteSet(BoundTo(d))

PanelsInv ==
    /\ TypeOK
    /\ \A s \in Slots : OneIf(busy[s], OfPanel(s))
    /\ OneIf(busyHero, Heroes)

-----------------------------------------------------------------------------
(* Types of requests.                                                       *)

\* The kind of a request determines its type.
LEMMA KindsOfCalls ==
    ASSUME NEW x \in Call
    PROVE  /\ x.kind = "evaluate" => x \in EvaluateCall
           /\ x.kind = "reset" => x \in ResetCall
           /\ x.kind = "create" => x \in CreateCall
           /\ x.kind = "prompt" => x \in PromptCall
           /\ x.kind = "verify" => x \in VerifyCall
           /\ x.kind = "refresh" => x \in RefreshCall
           /\ x.kind \in {"evaluate", "reset", "create", "prompt", "verify", "refresh"}
  BY DEF Call, EvaluateCall, ResetCall, CreateCall, PromptCall, VerifyCall, RefreshCall

\* Sending a request puts it into its place and leaves the others alone.
LEMMA SendEffect ==
    ASSUME TypeOK, NEW k \in CallIds, NEW x \in Call \cup {NoCall},
           calls' = [calls EXCEPT ![k] = x]
    PROVE  /\ calls' \in [CallIds -> Call \cup {NoCall}]
           /\ calls'[k] = x
           /\ \A j \in CallIds \ {k} : calls'[j] = calls[j]
  BY DEF TypeOK

\* An answer fills in the answer of its request.
LEMMA AnswerEffect ==
    ASSUME TypeOK, NEW k \in CallIds, calls[k] # NoCall, NEW result,
           [calls[k] EXCEPT !.answer = result] \in Call,
           calls' = [calls EXCEPT ![k].answer = result]
    PROVE  /\ calls' \in [CallIds -> Call \cup {NoCall}]
           /\ calls'[k] = [calls[k] EXCEPT !.answer = result]
           /\ \A j \in CallIds \ {k} : calls'[j] = calls[j]
<1>1. calls' = [calls EXCEPT ![k] = [calls[k] EXCEPT !.answer = result]]
  BY DEF TypeOK
<1> QED
  BY <1>1, SendEffect

\* A mounted request of a panel is the only one, and its slot shows something.
LEMMA PanelIsBusy ==
    ASSUME PanelsInv, NEW k \in CallIds, PanelCall(k), calls[k].mounted
    PROVE  /\ calls[k].slot \in Slots
           /\ OfPanel(calls[k].slot) = {k}
           /\ busy[calls[k].slot]
           /\ slots[calls[k].slot] # Empty
<1>1. calls[k] \in Call
  BY DEF PanelsInv, TypeOK, PanelCall
<1>2. calls[k].slot \in Slots
  BY <1>1, KindsOfCalls DEF PanelCall, CreateCall, PromptCall, VerifyCall, RefreshCall
<1>3. k \in OfPanel(calls[k].slot)
  BY <1>2 DEF OfPanel, PanelCall
<1>4. busy[calls[k].slot] /\ OfPanel(calls[k].slot) = {k}
  BY <1>2, <1>3 DEF PanelsInv, OneIf, TypeOK
<1> QED
  BY <1>2, <1>4 DEF PanelsInv, TypeOK

\* Steps that keep the panels' requests keep their flags right.
LEMMA PanelsKept ==
    ASSUME PanelsInv, TypeOK', UNCHANGED <<busy, busyHero>>,
           \A k \in CallIds, s \in Slots : Panel(k, s)' <=> Panel(k, s),
           Heroes' = Heroes
    PROVE  PanelsInv'
<1>1. \A s \in Slots : OfPanel(s)' = OfPanel(s)
  BY DEF OfPanel, Panel, PanelCall
<1> QED
  BY <1>1 DEF PanelsInv, OneIf

-----------------------------------------------------------------------------
(* The panels: clicks.                                                      *)

\* A scenario, an evaluation or a reset begins.
LEMMA RunHeroKeepsPanels ==
    ASSUME PanelsInv, NEW k \in CallIds, RunHero(k)
    PROVE  PanelsInv'
<1> USE WebClientConstants DEF WebClientAssumption
<1> DEFINE s0 == IF slots["left"] = Empty THEN "left" ELSE "right"
           call == Evaluation(s0, TRUE)
<1>1. /\ calls[k] = NoCall /\ ~busyHero /\ busyHero' = TRUE /\ submitting' = TRUE
      /\ calls' = [calls EXCEPT ![k] = call]
      /\ UNCHANGED <<phase, boundTo, outcome, selected, slots, flow, busy>>
  BY DEF RunHero, Free, Send, serverVars, promiseVars, panelVars
<1>2. /\ call \in Call /\ call.kind = "evaluate" /\ call.hero
      /\ call # NoCall
  <2>1. s0 \in Slots
    BY DEF Slots
  <2> HIDE DEF s0
  <2>2. call \in EvaluateCall /\ call.kind = "evaluate" /\ call.hero = TRUE
    BY <2>1 DEF Evaluation, EvaluateCall
  <2> QED
    BY <2>2 DEF Call
<1> HIDE DEF call
<1>3. /\ calls' \in [CallIds -> Call \cup {NoCall}]
      /\ calls'[k] = call
      /\ \A j \in CallIds \ {k} : calls'[j] = calls[j]
  BY <1>1, <1>2, SendEffect DEF PanelsInv
<1>4. TypeOK'
  BY <1>1, <1>3 DEF PanelsInv, TypeOK, Shown
<1>5. \A s \in Slots : OfPanel(s)' = OfPanel(s)
  BY <1>1, <1>2, <1>3 DEF OfPanel
<1>6. Heroes' = {k}
  BY <1>1, <1>2, <1>3 DEF Heroes, Open, PanelsInv, OneIf
<1> QED
  BY <1>1, <1>4, <1>5, <1>6 DEF PanelsInv, OneIf

LEMMA OpeningKeepsPanels ==
    ASSUME PanelsInv, NEW k \in CallIds, Free(k), NEW x \in Call,
           x.kind \in {"evaluate", "reset"}, x.kind = "evaluate" => ~x.hero,
           Send(k, x), submitting' \in BOOLEAN,
           UNCHANGED <<serverVars, slots, busyHero, panelVars>>
    PROVE  PanelsInv'
<1>1. /\ calls[k] = NoCall
      /\ calls' = [calls EXCEPT ![k] = x]
      /\ UNCHANGED <<phase, boundTo, outcome, selected, slots, flow, busy, busyHero>>
  BY DEF Free, Send, serverVars, promiseVars, panelVars
<1>2. x # NoCall
  BY WebClientConstants DEF WebClientAssumption
<1>3. /\ calls' \in [CallIds -> Call \cup {NoCall}]
      /\ calls'[k] = x
      /\ \A j \in CallIds \ {k} : calls'[j] = calls[j]
  BY <1>1, SendEffect DEF PanelsInv
<1>4. TypeOK'
  BY <1>1, <1>3 DEF PanelsInv, TypeOK, Shown
<1>5. \A j \in CallIds, s \in Slots : Panel(j, s)' <=> Panel(j, s)
  BY <1>1, <1>3 DEF Panel, PanelCall
<1>6. Heroes' = Heroes
  BY <1>1, <1>2, <1>3 DEF Heroes, Open
<1> QED
  BY <1>1, <1>4, <1>5, <1>6, PanelsKept

\* A panel that is not busy sends a request of its own and is busy.
LEMMA PanelSends ==
    ASSUME PanelsInv, NEW k \in CallIds, calls[k] = NoCall, NEW s \in Slots,
           ~busy[s], TypeOK', NEW x \in Call,
           x.kind \in {"create", "prompt", "verify"}, x.mounted, x.slot = s,
           calls' = [calls EXCEPT ![k] = x],
           busy' = [busy EXCEPT ![s] = TRUE],
           UNCHANGED busyHero
    PROVE  PanelsInv'
<1>1. x # NoCall
  BY WebClientConstants DEF WebClientAssumption
<1>2. /\ calls'[k] = x
      /\ \A j \in CallIds \ {k} : calls'[j] = calls[j]
  BY SendEffect DEF PanelsInv
<1>3. OfPanel(s)' = {k}
  BY <1>1, <1>2 DEF OfPanel, PanelsInv, OneIf
<1>4. \A t \in Slots \ {s} : OfPanel(t)' = OfPanel(t)
  BY <1>1, <1>2 DEF OfPanel
<1>5. Heroes' = Heroes
  BY <1>1, <1>2 DEF Heroes, Open
<1>6. busy'[s] /\ \A t \in Slots \ {s} : busy'[t] = busy[t]
  BY DEF PanelsInv, TypeOK
<1> QED
  BY <1>3, <1>4, <1>5, <1>6 DEF PanelsInv, OneIf

LEMMA CreateKeepsPanels ==
    ASSUME PanelsInv, NEW k \in CallIds, NEW s \in Slots, NEW f \in AskedFactors,
           NEW p \in BOOLEAN, slots[s] # Empty, ~busy[s], Create(k, s, f, p)
    PROVE  PanelsInv'
<1> USE WebClientConstants DEF WebClientAssumption
<1> DEFINE call == [kind |-> "create", slot |-> s, mounted |-> TRUE,
                    decision |-> Shown(s), factor |-> f,
                    simulated |-> p, answer |-> Pending]
           new == [IdleFlow EXCEPT !.factor = f, !.phase = "creating"]
<1>1. /\ calls[k] = NoCall
      /\ flow' = [flow EXCEPT ![s] = new]
      /\ busy' = [busy EXCEPT ![s] = TRUE]
      /\ calls' = [calls EXCEPT ![k] = call]
      /\ UNCHANGED <<phase, boundTo, outcome, selected, slots, submitting, busyHero>>
  BY DEF Create, Free, Send, serverVars, promiseVars, appVars
<1>2. Shown(s) \in DecisionIds
  BY DEF PanelsInv, TypeOK, View, Shown
<1>3. call \in Call /\ call.kind = "create" /\ call.mounted /\ call.slot = s
  BY <1>2 DEF Call, CreateCall
<1>4. new \in Flow /\ new.phase = "creating"
  BY DEF IdleFlow, Flow, FlowPhases
<1> HIDE DEF call, new
<1>5. calls' \in [CallIds -> Call \cup {NoCall}]
  BY <1>1, <1>3, SendEffect DEF PanelsInv
<1>6. TypeOK'
  BY <1>1, <1>4, <1>5 DEF PanelsInv, TypeOK, Shown
<1> QED
  BY <1>1, <1>3, <1>6, PanelSends

LEMMA VerifyKeepsPanels ==
    ASSUME PanelsInv, NEW k \in CallIds, NEW s \in Slots, Verify(k, s)
    PROVE  PanelsInv'
<1> USE WebClientConstants DEF WebClientAssumption
<1> DEFINE call == [kind |-> IF flow[s].challenge.mode = "WEBAUTHN" THEN "prompt"
                             ELSE "verify",
                    slot |-> s, mounted |-> TRUE, seen |-> Shown(s),
                    challenge |-> flow[s].challenge, answer |-> Pending]
           new == [flow[s] EXCEPT !.phase = "verifying", !.challenge = NoChallenge]
<1>1. /\ calls[k] = NoCall /\ slots[s] # Empty /\ ~busy[s] /\ flow[s].phase = "ready"
      /\ busy' = [busy EXCEPT ![s] = TRUE]
      /\ calls' = [calls EXCEPT ![k] = call]
      /\ UNCHANGED <<phase, boundTo, outcome, selected, slots, submitting, busyHero>>
  BY DEF Verify, Free, Send, serverVars, promiseVars, appVars
<1>2. flow' = [flow EXCEPT ![s] = new]
  <2>1. flow' = [flow EXCEPT ![s].phase = "verifying", ![s].challenge = NoChallenge]
    BY DEF Verify
  <2>2. flow \in [Slots -> Flow]
    BY DEF PanelsInv, TypeOK
  <2> QED
    BY <2>1, <2>2
<1>3. Shown(s) \in DecisionIds /\ flow[s] \in Flow /\ flow[s].challenge # NoChallenge
  BY <1>1 DEF PanelsInv, TypeOK, View, Shown
<1>4. flow[s].challenge \in Handle
  BY <1>3 DEF Flow
<1>5. /\ call \in Call /\ call.kind \in {"prompt", "verify"} /\ call.mounted
      /\ call.slot = s
  BY <1>3, <1>4 DEF Call, PromptCall, VerifyCall
<1>6. new \in Flow /\ new.phase = "verifying"
  BY <1>3 DEF Flow, FlowPhases
<1> HIDE DEF call, new
<1>7. calls' \in [CallIds -> Call \cup {NoCall}]
  BY <1>1, <1>5, SendEffect DEF PanelsInv
<1>8. TypeOK'
  BY <1>1, <1>2, <1>6, <1>7 DEF PanelsInv, TypeOK, Shown
<1> QED
  BY <1>1, <1>5, <1>8, PanelSends

LEMMA ResetFlowKeepsPanels ==
    ASSUME PanelsInv, NEW s \in Slots, ResetFlow(s)
    PROVE  PanelsInv'
<1> USE WebClientConstants DEF WebClientAssumption
<1>1. /\ slots[s] # Empty /\ flow' = [flow EXCEPT ![s] = IdleFlow]
      /\ UNCHANGED <<phase, boundTo, outcome, selected, slots, submitting, busyHero,
                     busy, calls>>
  BY DEF ResetFlow, serverVars, promiseVars, appVars
<1>2. IdleFlow \in Flow /\ IdleFlow.phase = "idle"
  BY DEF IdleFlow, Flow, FlowPhases
<1>3. TypeOK'
  BY <1>1, <1>2 DEF PanelsInv, TypeOK, Shown
<1>4. Heroes' = Heroes /\ \A j \in CallIds, t \in Slots : Panel(j, t)' <=> Panel(j, t)
  BY <1>1 DEF Heroes, Open, Panel, PanelCall
<1> QED
  BY <1>1, <1>3, <1>4, PanelsKept

-----------------------------------------------------------------------------
(* The panels: answers that come back.                                      *)

\* What a continuation makes of its panel, if that is still there.
LEMMA UpdateKeepsTypes ==
    ASSUME PanelsInv, NEW k \in CallIds, PanelCall(k), NEW f, NEW b \in BOOLEAN,
           Update(calls[k], f, b),
           calls[k].mounted => /\ f \in Flow
                               /\ f.phase = "ready" => f.challenge # NoChallenge
                               /\ f.phase = "verified" => f.verification # NoVerdict,
           calls' \in [CallIds -> Call \cup {NoCall}],
           slots' \in [Slots -> View \cup {Empty}],
           \A s \in Slots : /\ slots'[s] = Empty <=> slots[s] = Empty
                            /\ slots'[s] # Empty =>
                                  selected[slots'[s].decision] \in Selections,
           UNCHANGED <<phase, boundTo, outcome, selected, submitting, busyHero>>
    PROVE  TypeOK'
<1>1. CASE calls[k].mounted
  <2>1. calls[k].slot \in Slots /\ slots[calls[k].slot] # Empty
    BY <1>1, PanelIsBusy
  <2>2. /\ flow' = [flow EXCEPT ![calls[k].slot] = f]
        /\ busy' = [busy EXCEPT ![calls[k].slot] = b]
    BY <1>1 DEF Update
  <2> QED
    BY <1>1, <2>1, <2>2 DEF PanelsInv, TypeOK, Shown
<1>2. CASE ~calls[k].mounted
  <2>1. UNCHANGED <<flow, busy>>
    BY <1>2 DEF Update, panelVars
  <2> QED
    BY <2>1 DEF PanelsInv, TypeOK, Shown
<1> QED
  BY <1>1, <1>2

\* A request of a panel ends, and with it the panel is not busy any more.
LEMMA PanelEnds ==
    ASSUME PanelsInv, NEW k \in CallIds, PanelCall(k), NEW f,
           Update(calls[k], f, FALSE), TypeOK', UNCHANGED busyHero,
           calls' = [calls EXCEPT ![k] = NoCall]
    PROVE  PanelsInv'
<1>1. /\ calls'[k] = NoCall
      /\ \A j \in CallIds \ {k} : calls'[j] = calls[j]
  BY SendEffect DEF PanelsInv
<1>2. Heroes' = Heroes
  BY <1>1 DEF Heroes, Open, PanelCall
<1>3. CASE calls[k].mounted
  <2> DEFINE s == calls[k].slot
  <2>1. s \in Slots /\ OfPanel(s) = {k}
    BY <1>3, PanelIsBusy
  <2>2. ~busy'[s] /\ \A t \in Slots \ {s} : busy'[t] = busy[t]
    BY <1>3, <2>1 DEF Update, PanelsInv, TypeOK
  <2>3. \A t \in Slots \ {s} : OfPanel(t)' = OfPanel(t)
    BY <1>1, <2>1 DEF OfPanel
  <2>4. {j \in CallIds : /\ calls'[j] # NoCall
                         /\ calls'[j].kind \notin {"evaluate", "reset"}
                         /\ calls'[j].mounted
                         /\ calls'[j].slot = s} = {}
    BY <1>1, <2>1 DEF OfPanel
  <2>5. ASSUME NEW t \in Slots
        PROVE  OneIf(busy'[t], OfPanel(t)')
    <3>1. CASE t = s
      BY <2>2, <2>4, <3>1 DEF OneIf, OfPanel
    <3>2. CASE t # s
      BY <2>2, <2>3, <3>2 DEF OneIf, PanelsInv
    <3> QED
      BY <3>1, <3>2
  <2> QED
    BY <1>2, <2>5 DEF PanelsInv, OneIf
<1>4. CASE ~calls[k].mounted
  <2>1. UNCHANGED busy
    BY <1>4 DEF Update, panelVars
  <2>2. \A j \in CallIds, s \in Slots : Panel(j, s)' <=> Panel(j, s)
    BY <1>1, <1>4 DEF Panel, PanelCall
  <2> QED
    BY <1>2, <2>1, <2>2, PanelsKept
<1> QED
  BY <1>3, <1>4

\* A request of a panel goes on as another request of that panel, which keeps
\* being busy.
LEMMA PanelGoesOn ==
    ASSUME PanelsInv, NEW k \in CallIds, PanelCall(k), NEW x \in Call,
           x.kind \notin {"evaluate", "reset"}, x.mounted = calls[k].mounted,
           x.slot = calls[k].slot, TypeOK', UNCHANGED busyHero,
           \/ UNCHANGED busy
           \/ \E f : Update(calls[k], f, TRUE),
           calls' = [calls EXCEPT ![k] = x]
    PROVE  PanelsInv'
<1>1. x # NoCall
  BY WebClientConstants DEF WebClientAssumption
<1>2. /\ calls'[k] = x
      /\ \A j \in CallIds \ {k} : calls'[j] = calls[j]
  BY SendEffect DEF PanelsInv
<1>3. Heroes' = Heroes
  BY <1>1, <1>2 DEF Heroes, Open, PanelCall
<1>4. UNCHANGED busy
  <2>1. CASE calls[k].mounted
    BY <2>1, PanelIsBusy DEF Update, PanelsInv, TypeOK
  <2>2. CASE ~calls[k].mounted
    BY <2>2 DEF Update, panelVars
  <2> QED
    BY <2>1, <2>2
<1>5. \A j \in CallIds, s \in Slots : Panel(j, s)' <=> Panel(j, s)
  BY <1>1, <1>2 DEF Panel, PanelCall
<1> QED
  BY <1>3, <1>4, <1>5, PanelsKept

\* The answer to an evaluation changes a slot and ends the scenario it is of.
LEMMA EvaluateReturnsKeepsPanels ==
    ASSUME PanelsInv, CallsDecided, NEW k \in CallIds, EvaluateReturns(k)
    PROVE  PanelsInv'
<1>1. /\ calls[k] # NoCall /\ calls[k].kind = "evaluate" /\ calls[k].answer # Pending
      /\ slots' = IF calls[k].answer = Failed THEN slots
                  ELSE [slots EXCEPT ![calls[k].slot] = calls[k].answer]
      /\ submitting' = FALSE
      /\ busyHero' = IF calls[k].hero THEN FALSE ELSE busyHero
      /\ calls' = [calls EXCEPT ![k] = NoCall]
      /\ UNCHANGED <<phase, boundTo, outcome, selected, flow, busy>>
  BY DEF EvaluateReturns, Answered, Open, HeroEnds, Send, serverVars, promiseVars,
         panelVars
<1>2. calls[k] \in EvaluateCall
  BY <1>1, KindsOfCalls DEF PanelsInv, TypeOK
<1>3. calls[k].slot \in Slots /\ calls[k].hero \in BOOLEAN
         /\ (calls[k].answer # Failed => calls[k].answer \in View)
  BY <1>1, <1>2 DEF EvaluateCall
<1>4. /\ calls' \in [CallIds -> Call \cup {NoCall}] /\ calls'[k] = NoCall
      /\ \A j \in CallIds \ {k} : calls'[j] = calls[j]
  BY <1>1, SendEffect DEF PanelsInv
<1>5. TypeOK'
  <2>1. slots' \in [Slots -> View \cup {Empty}]
    BY <1>1, <1>3 DEF PanelsInv, TypeOK
  <2>2. ASSUME NEW s \in Slots
        PROVE  /\ slots'[s] # Empty => selected[slots'[s].decision] \in Selections
               /\ slots'[s] = Empty => slots[s] = Empty
    <3>1. CASE slots'[s] = slots[s]
      BY <3>1 DEF PanelsInv, TypeOK, Shown
    <3>2. CASE slots'[s] # slots[s]
      <4>1. calls[k].answer # Failed /\ slots'[s] = calls[k].answer
        BY <1>1, <3>2 DEF PanelsInv, TypeOK
      <4>2. slots'[s] # Empty
        BY <1>3, <4>1, WebClientConstants DEF WebClientAssumption
      <4> QED
        BY <1>1, <4>1, <4>2 DEF CallsDecided, CarriesDecided
    <3> QED
      BY <3>1, <3>2
  <2> QED
    BY <1>1, <1>3, <1>4, <2>1, <2>2 DEF PanelsInv, TypeOK, Shown
<1>6. \A s \in Slots : OfPanel(s)' = OfPanel(s)
  BY <1>1, <1>4 DEF OfPanel
<1>7. OneIf(busyHero, Heroes)'
  <2>1. Heroes' = Heroes \ {k}
    BY <1>1, <1>4 DEF Heroes, Open
  <2>2. CASE calls[k].hero
    <3>1. k \in Heroes
      BY <1>1, <2>2 DEF Heroes, Open
    <3>2. Heroes = {k}
      BY <3>1 DEF PanelsInv, OneIf, TypeOK
    <3> QED
      BY <1>1, <2>1, <2>2, <3>2 DEF OneIf
  <2>3. CASE ~calls[k].hero
    <3>1. Heroes' = Heroes /\ busyHero' = busyHero
      BY <1>1, <2>1, <2>3 DEF Heroes
    <3> QED
      BY <3>1 DEF PanelsInv, OneIf
  <2> QED
    BY <2>2, <2>3
<1> QED
  BY <1>1, <1>5, <1>6, <1>7 DEF PanelsInv, OneIf

\* A reset empties the slots and unmounts every panel.
LEMMA UnmountedType ==
    ASSUME NEW x \in Call \cup {NoCall}
    PROVE  /\ Unmounted(x) \in Call \cup {NoCall}
           /\ Unmounted(x) = NoCall <=> x = NoCall
           /\ x # NoCall =>
                /\ Unmounted(x).kind = x.kind
                /\ x.kind \in {"evaluate", "reset"} => Unmounted(x) = x
                /\ x.kind \notin {"evaluate", "reset"} =>
                      Unmounted(x) = [x EXCEPT !.mounted = FALSE]
<1> USE WebClientConstants DEF WebClientAssumption
<1>1. CASE x = NoCall
  BY <1>1 DEF Unmounted
<1>2. CASE x # NoCall /\ x.kind \in {"evaluate", "reset"}
  BY <1>2 DEF Unmounted
<1>3. CASE x # NoCall /\ x.kind \notin {"evaluate", "reset"}
  <2> DEFINE y == [x EXCEPT !.mounted = FALSE]
  <2>1. Unmounted(x) = y
    BY <1>3 DEF Unmounted
  <2>2. CASE x \in CreateCall
    <3>1. y \in CreateCall /\ y.kind = x.kind
      BY <2>2 DEF CreateCall
    <3> QED
      BY <1>3, <2>1, <3>1 DEF Call
  <2>3. CASE x \in PromptCall
    <3>1. y \in PromptCall /\ y.kind = x.kind
      BY <2>3 DEF PromptCall
    <3> QED
      BY <1>3, <2>1, <3>1 DEF Call
  <2>4. CASE x \in VerifyCall
    <3>1. y \in VerifyCall /\ y.kind = x.kind
      BY <2>4 DEF VerifyCall
    <3> QED
      BY <1>3, <2>1, <3>1 DEF Call
  <2>5. CASE x \in RefreshCall
    <3>1. y \in RefreshCall /\ y.kind = x.kind
      BY <2>5 DEF RefreshCall
    <3> QED
      BY <1>3, <2>1, <3>1 DEF Call
  <2> QED
    BY <1>3, <2>2, <2>3, <2>4, <2>5, KindsOfCalls
<1> QED
  BY <1>1, <1>2, <1>3

LEMMA ResetReturnsKeepsPanels ==
    ASSUME PanelsInv, NEW k \in CallIds, ResetReturns(k)
    PROVE  PanelsInv'
<1> USE WebClientConstants DEF WebClientAssumption
<1>1. /\ calls[k] # NoCall /\ calls[k].kind = "reset"
      /\ UNCHANGED <<phase, boundTo, outcome, selected, submitting, busyHero>>
  BY DEF ResetReturns, Answered, Open, serverVars, promiseVars
<1>2. CASE calls[k].answer = Failed
  <2>1. /\ calls' = [calls EXCEPT ![k] = NoCall]
        /\ UNCHANGED <<slots, flow, busy>>
    BY <1>2 DEF ResetReturns, Send, panelVars
  <2>2. /\ calls' \in [CallIds -> Call \cup {NoCall}] /\ calls'[k] = NoCall
        /\ \A j \in CallIds \ {k} : calls'[j] = calls[j]
    BY <2>1, SendEffect DEF PanelsInv
  <2>3. TypeOK'
    BY <1>1, <2>1, <2>2 DEF PanelsInv, TypeOK, Shown
  <2>4. Heroes' = Heroes /\ \A j \in CallIds, s \in Slots : Panel(j, s)' <=> Panel(j, s)
    BY <1>1, <2>2 DEF Heroes, Open, Panel, PanelCall
  <2> QED
    BY <1>1, <2>1, <2>3, <2>4, PanelsKept
<1>3. CASE calls[k].answer # Failed
  <2>1. /\ slots' = [s \in Slots |-> Empty]
        /\ flow' = [s \in Slots |-> IdleFlow]
        /\ busy' = [s \in Slots |-> FALSE]
        /\ calls' = [j \in CallIds |-> IF j = k THEN NoCall ELSE Unmounted(calls[j])]
    BY <1>3 DEF ResetReturns
  <2>2. \A j \in CallIds : calls[j] \in Call \cup {NoCall}
    BY DEF PanelsInv, TypeOK
  <2>3. calls' \in [CallIds -> Call \cup {NoCall}]
    BY <2>1, <2>2, UnmountedType
  <2>4. IdleFlow \in Flow /\ IdleFlow.phase = "idle"
    BY DEF IdleFlow, Flow, FlowPhases
  <2>5. TypeOK'
    BY <1>1, <2>1, <2>3, <2>4 DEF PanelsInv, TypeOK
  <2>6. \A j \in CallIds : PanelCall(j)' => ~calls'[j].mounted
    <3> SUFFICES ASSUME NEW j \in CallIds, calls'[j] # NoCall,
                        calls'[j].kind \notin {"evaluate", "reset"}
                 PROVE  ~calls'[j].mounted
      BY DEF PanelCall
    <3>1. j # k /\ calls'[j] = Unmounted(calls[j])
      BY <2>1
    <3>2. calls[j] # NoCall /\ calls[j].kind \notin {"evaluate", "reset"}
      BY <2>2, <3>1, UnmountedType
    <3>3. calls'[j] = [calls[j] EXCEPT !.mounted = FALSE]
      BY <2>2, <3>1, <3>2, UnmountedType
    <3>4. calls[j] \in CreateCall \cup PromptCall \cup VerifyCall \cup RefreshCall
      BY <2>2, <3>2, KindsOfCalls
    <3> QED
      BY <3>3, <3>4 DEF CreateCall, PromptCall, VerifyCall, RefreshCall
  <2>7. \A s \in Slots : OfPanel(s)' = {} /\ ~busy'[s]
    BY <2>1, <2>6 DEF OfPanel, PanelCall
  <2>8. Heroes' = Heroes
    BY <1>1, <2>1, <2>2, UnmountedType DEF Heroes, Open
  <2> QED
    BY <1>1, <2>5, <2>7, <2>8 DEF PanelsInv, OneIf
<1> QED
  BY <1>2, <1>3

\* A challenge, or the refusal of one, arrives.
LEMMA CreateReturnsKeepsPanels ==
    ASSUME PanelsInv, NEW k \in CallIds, CreateReturns(k)
    PROVE  PanelsInv'
<1> USE WebClientConstants DEF WebClientAssumption
<1> DEFINE now == flow[calls[k].slot]
           f == IF calls[k].answer = Failed THEN [now EXCEPT !.phase = "rejected"]
                ELSE [now EXCEPT !.challenge = calls[k].answer, !.phase = "ready"]
<1>1. /\ calls[k] # NoCall /\ calls[k].kind = "create" /\ calls[k].answer # Pending
      /\ Update(calls[k], f, FALSE)
      /\ calls' = [calls EXCEPT ![k] = NoCall]
      /\ UNCHANGED <<phase, boundTo, outcome, selected, slots, submitting, busyHero>>
  BY DEF CreateReturns, Answered, Open, Send, serverVars, promiseVars, appVars
<1>2. calls[k] \in CreateCall
  BY <1>1, KindsOfCalls DEF PanelsInv, TypeOK
<1>3. calls[k].slot \in Slots /\ (calls[k].answer # Failed => calls[k].answer \in Handle)
  BY <1>1, <1>2 DEF CreateCall
<1>4. now \in Flow
  BY <1>3 DEF PanelsInv, TypeOK
<1>5. /\ f \in Flow
      /\ f.phase = "ready" => f.challenge # NoChallenge
      /\ f.phase # "verified"
  <2>1. CASE calls[k].answer = Failed
    BY <1>4, <2>1 DEF Flow, FlowPhases
  <2>2. CASE calls[k].answer # Failed
    BY <1>3, <1>4, <2>2 DEF Flow, FlowPhases
  <2> QED
    BY <2>1, <2>2
<1> HIDE DEF f
<1>6. calls' \in [CallIds -> Call \cup {NoCall}]
  BY <1>1, SendEffect DEF PanelsInv
<1>7. PanelCall(k)
  BY <1>1 DEF PanelCall
<1>8. TypeOK'
  BY <1>1, <1>5, <1>6, <1>7, UpdateKeepsTypes DEF PanelsInv, TypeOK, Shown
<1> QED
  BY <1>1, <1>7, <1>8, PanelEnds

\* A verification fails, at the authenticator or at the server.
LEMMA RejectKeepsPanels ==
    ASSUME PanelsInv, NEW k \in CallIds, calls[k] # NoCall,
           calls[k].kind \in {"prompt", "verify"}, Reject(k),
           UNCHANGED <<serverVars, appVars>>
    PROVE  PanelsInv'
<1> DEFINE now == flow[calls[k].slot]
           f == Rejected(calls[k], now)
<1>1. /\ Update(calls[k], f, FALSE)
      /\ calls' = [calls EXCEPT ![k] = NoCall]
      /\ UNCHANGED <<phase, boundTo, outcome, selected, slots, submitting, busyHero>>
  BY DEF Reject, Send, serverVars, promiseVars, appVars
<1>2. calls[k] \in PromptCall \cup VerifyCall
  BY KindsOfCalls DEF PanelsInv, TypeOK
<1>3. now \in Flow
  BY <1>2 DEF PanelsInv, TypeOK, PromptCall, VerifyCall
<1>4. f \in Flow /\ f.phase = "rejected"
  BY <1>3 DEF Rejected, Flow, FlowPhases
<1> HIDE DEF f
<1>5. calls' \in [CallIds -> Call \cup {NoCall}]
  BY <1>1, SendEffect DEF PanelsInv
<1>6. PanelCall(k)
  BY DEF PanelCall
<1>7. TypeOK'
  BY <1>1, <1>4, <1>5, <1>6, UpdateKeepsTypes DEF PanelsInv, TypeOK, Shown
<1> QED
  BY <1>1, <1>6, <1>7, PanelEnds

\* The authenticator answers: the assertion goes to the server.
LEMMA PromptReturnsKeepsPanels ==
    ASSUME PanelsInv, NEW k \in CallIds, PromptReturns(k)
    PROVE  PanelsInv'
<1> USE WebClientConstants DEF WebClientAssumption
<1>1. /\ calls[k] # NoCall /\ calls[k].kind = "prompt"
      /\ UNCHANGED <<serverVars, appVars>>
      /\ \/ Reject(k)
         \/ Send(k, [calls[k] EXCEPT !.kind = "verify"]) /\ UNCHANGED panelVars
  BY DEF PromptReturns, Open
<1>2. CASE Reject(k)
  BY <1>1, <1>2, RejectKeepsPanels
<1>3. CASE Send(k, [calls[k] EXCEPT !.kind = "verify"]) /\ UNCHANGED panelVars
  <2> DEFINE x == [calls[k] EXCEPT !.kind = "verify"]
  <2>1. /\ calls' = [calls EXCEPT ![k] = x]
        /\ UNCHANGED <<phase, boundTo, outcome, selected, slots, submitting, busyHero,
                       flow, busy>>
    BY <1>1, <1>3 DEF Send, serverVars, promiseVars, appVars, panelVars
  <2>2. calls[k] \in PromptCall
    BY <1>1, KindsOfCalls DEF PanelsInv, TypeOK
  <2>3. x \in VerifyCall /\ x.kind = "verify" /\ x.mounted = calls[k].mounted
           /\ x.slot = calls[k].slot
    BY <2>2 DEF PromptCall, VerifyCall
  <2> HIDE DEF x
  <2>4. x \in Call
    BY <2>3 DEF Call
  <2>5. calls' \in [CallIds -> Call \cup {NoCall}]
    BY <2>1, <2>4, SendEffect DEF PanelsInv
  <2>6. TypeOK'
    BY <2>1, <2>5 DEF PanelsInv, TypeOK, Shown
  <2> QED
    BY <1>1, <2>1, <2>3, <2>4, <2>6, PanelGoesOn DEF PanelCall
<1> QED
  BY <1>1, <1>2, <1>3

\* The verdict arrives and the panel stays busy with the refresh.
LEMMA VerifyReturnsKeepsPanels ==
    ASSUME PanelsInv, NEW k \in CallIds, VerifyReturns(k)
    PROVE  PanelsInv'
<1> USE WebClientConstants DEF WebClientAssumption
<1>1. /\ calls[k] # NoCall /\ calls[k].kind = "verify" /\ calls[k].answer # Pending
      /\ UNCHANGED <<serverVars, appVars>>
  BY DEF VerifyReturns, Answered, Open
<1>2. CASE calls[k].answer = Failed
  BY <1>1, <1>2, RejectKeepsPanels DEF VerifyReturns
<1>3. CASE calls[k].answer # Failed
  <2> DEFINE now == flow[calls[k].slot]
             f == [now EXCEPT !.verification = calls[k].answer, !.phase = "verified"]
             x == Refresh(calls[k])
  <2>1. /\ Update(calls[k], f, TRUE)
        /\ calls' = [calls EXCEPT ![k] = x]
        /\ UNCHANGED <<phase, boundTo, outcome, selected, slots, submitting, busyHero>>
    BY <1>1, <1>3 DEF VerifyReturns, ShowVerdict, Send, serverVars, promiseVars, appVars
  <2>2. calls[k] \in VerifyCall
    BY <1>1, KindsOfCalls DEF PanelsInv, TypeOK
  <2>3. calls[k].slot \in Slots /\ calls[k].answer \in Verdict
    BY <1>1, <1>3, <2>2 DEF VerifyCall
  <2>4. now \in Flow
    BY <2>3 DEF PanelsInv, TypeOK
  <2>5. f \in Flow /\ f.phase = "verified" /\ f.verification # NoVerdict
    BY <2>3, <2>4 DEF Flow, FlowPhases
  <2>6. x \in RefreshCall /\ x.kind = "refresh" /\ x.mounted = calls[k].mounted
           /\ x.slot = calls[k].slot
    BY <2>2 DEF Refresh, VerifyCall, RefreshCall
  <2> HIDE DEF f, x
  <2>7. x \in Call
    BY <2>6 DEF Call
  <2>8. calls' \in [CallIds -> Call \cup {NoCall}]
    BY <2>1, <2>7, SendEffect DEF PanelsInv
  <2>9. PanelCall(k)
    BY <1>1 DEF PanelCall
  <2>10. TypeOK'
    BY <2>1, <2>5, <2>8, <2>9, UpdateKeepsTypes DEF PanelsInv, TypeOK, Shown
  <2> QED
    BY <2>1, <2>6, <2>7, <2>9, <2>10, PanelGoesOn
<1> QED
  BY <1>2, <1>3

\* The refreshed decision arrives.
LEMMA RefreshReturnsKeepsPanels ==
    ASSUME PanelsInv, CallsDecided, NEW k \in CallIds, RefreshReturns(k)
    PROVE  PanelsInv'
<1> USE WebClientConstants DEF WebClientAssumption
<1> DEFINE f == flow[calls[k].slot]
<1>1. /\ calls[k] # NoCall /\ calls[k].kind = "refresh" /\ calls[k].answer # Pending
      /\ slots' = IF calls[k].answer = Failed \/ slots[calls[k].slot] = Empty THEN slots
                  ELSE [slots EXCEPT ![calls[k].slot] = calls[k].answer]
      /\ Update(calls[k], f, FALSE)
      /\ calls' = [calls EXCEPT ![k] = NoCall]
      /\ UNCHANGED <<phase, boundTo, outcome, selected, submitting, busyHero>>
  BY DEF RefreshReturns, Refreshed, Answered, Open, Send, serverVars, promiseVars
<1>2. calls[k] \in RefreshCall
  BY <1>1, KindsOfCalls DEF PanelsInv, TypeOK
<1>3. calls[k].slot \in Slots /\ (calls[k].answer # Failed => calls[k].answer \in View)
  BY <1>1, <1>2 DEF RefreshCall
<1>4. calls' \in [CallIds -> Call \cup {NoCall}]
  BY <1>1, SendEffect DEF PanelsInv
<1>5. PanelCall(k)
  BY <1>1 DEF PanelCall
<1>6. slots' \in [Slots -> View \cup {Empty}]
  BY <1>1, <1>3 DEF PanelsInv, TypeOK
<1>7. ASSUME NEW s \in Slots
      PROVE  /\ slots'[s] = Empty <=> slots[s] = Empty
             /\ slots'[s] # Empty => selected[slots'[s].decision] \in Selections
  <2>1. CASE slots'[s] = slots[s]
    BY <2>1 DEF PanelsInv, TypeOK, Shown
  <2>2. CASE slots'[s] # slots[s]
    <3>1. /\ calls[k].answer # Failed /\ slots'[s] = calls[k].answer
          /\ slots[s] # Empty
      BY <1>1, <2>2 DEF PanelsInv, TypeOK
    <3> QED
      BY <1>1, <1>3, <3>1 DEF CallsDecided, CarriesDecided
  <2> QED
    BY <2>1, <2>2
<1>8. /\ f \in Flow
      /\ f.phase = "ready" => f.challenge # NoChallenge
      /\ f.phase = "verified" => f.verification # NoVerdict
  BY <1>3 DEF PanelsInv, TypeOK
<1> HIDE DEF f
<1>9. TypeOK'
  BY <1>1, <1>4, <1>5, <1>6, <1>7, <1>8, UpdateKeepsTypes
<1> QED
  BY <1>1, <1>5, <1>9, PanelEnds

-----------------------------------------------------------------------------
(* The panels: the server, and all steps together.                          *)

\* An answer on its way leaves the panels alone.
LEMMA ServedKeepsPanels ==
    ASSUME PanelsInv, NEW k \in CallIds, calls[k] # NoCall, NEW result,
           [calls[k] EXCEPT !.answer = result] \in Call, Answer(k, result),
           phase' \in [ChallengeIds -> Phases],
           boundTo' \in [ChallengeIds -> DecisionIds \cup {NoDecision}],
           outcome' \in [DecisionIds -> {"NONE", "PENDING", "AUTHORIZED", "DENIED"}],
           selected' \in [DecisionIds -> Selections \cup {"undecided"}],
           \A d \in DecisionIds : selected[d] \in Selections => selected'[d] \in Selections
    PROVE  PanelsInv'
<1> DEFINE x == [calls[k] EXCEPT !.answer = result]
<1>1. /\ calls' = [calls EXCEPT ![k].answer = result]
      /\ UNCHANGED <<slots, submitting, busyHero, flow, busy>>
  BY DEF Answer, appVars, panelVars
<1>2. /\ calls' \in [CallIds -> Call \cup {NoCall}] /\ calls'[k] = x
      /\ \A j \in CallIds \ {k} : calls'[j] = calls[j]
  BY <1>1, AnswerEffect DEF PanelsInv
<1>3. x # NoCall
  BY WebClientConstants DEF WebClientAssumption
<1>4. /\ x.kind = calls[k].kind
      /\ x.kind = "evaluate" => x.hero = calls[k].hero
      /\ x.kind \notin {"evaluate", "reset"} =>
            x.mounted = calls[k].mounted /\ x.slot = calls[k].slot
  <2>1. calls[k] \in Call
    BY DEF PanelsInv, TypeOK
  <2> QED
    BY <2>1 DEF Call, EvaluateCall, ResetCall, CreateCall, PromptCall, VerifyCall,
                RefreshCall
<1> HIDE DEF x
<1>5. TypeOK'
  BY <1>1, <1>2 DEF PanelsInv, TypeOK, Shown, View
<1>6. \A j \in CallIds, s \in Slots : Panel(j, s)' <=> Panel(j, s)
  BY <1>2, <1>3, <1>4 DEF Panel, PanelCall
<1>7. Heroes' = Heroes
  BY <1>2, <1>3, <1>4 DEF Heroes, Open
<1> QED
  BY <1>1, <1>5, <1>6, <1>7, PanelsKept

\* What the server may answer fits the request.
LEMMA AnswersFit ==
    ASSUME TypeOK, NEW k \in CallIds, calls[k] # NoCall, NEW result,
           \/ calls[k].kind \in {"evaluate", "refresh"} /\ result \in View
           \/ calls[k].kind = "create" /\ result \in Handle
           \/ calls[k].kind = "verify" /\ result \in Verdict
           \/ calls[k].kind = "reset" /\ result = "done"
           \/ calls[k].kind # "prompt" /\ result = Failed
    PROVE  [calls[k] EXCEPT !.answer = result] \in Call
<1> DEFINE x == [calls[k] EXCEPT !.answer = result]
<1>1. calls[k] \in Call
  BY DEF TypeOK
<1>2. CASE calls[k].kind = "evaluate"
  <2>1. calls[k] \in EvaluateCall
    BY <1>1, <1>2, KindsOfCalls
  <2>2. x \in EvaluateCall
    BY <1>2, <2>1 DEF EvaluateCall
  <2> QED
    BY <2>2 DEF Call
<1>3. CASE calls[k].kind = "reset"
  <2>1. calls[k] \in ResetCall
    BY <1>1, <1>3, KindsOfCalls
  <2>2. x \in ResetCall
    BY <1>3, <2>1 DEF ResetCall
  <2> QED
    BY <2>2 DEF Call
<1>4. CASE calls[k].kind = "create"
  <2>1. calls[k] \in CreateCall
    BY <1>1, <1>4, KindsOfCalls
  <2>2. x \in CreateCall
    BY <1>4, <2>1 DEF CreateCall
  <2> QED
    BY <2>2 DEF Call
<1>5. CASE calls[k].kind = "verify"
  <2>1. calls[k] \in VerifyCall
    BY <1>1, <1>5, KindsOfCalls
  <2>2. x \in VerifyCall
    BY <1>5, <2>1 DEF VerifyCall
  <2> QED
    BY <2>2 DEF Call
<1>6. CASE calls[k].kind = "refresh"
  <2>1. calls[k] \in RefreshCall
    BY <1>1, <1>6, KindsOfCalls
  <2>2. x \in RefreshCall
    BY <1>6, <2>1 DEF RefreshCall
  <2> QED
    BY <2>2 DEF Call
<1> QED
  BY <1>1, <1>2, <1>3, <1>4, <1>5, <1>6, KindsOfCalls

\* A decision has so many events.
LEMMA EventsAreCounted ==
    ASSUME PromiseInv, NEW d \in DecisionIds
    PROVE  Events(d) \in Nat
<1>1. IsFiniteSet(BoundTo(d)) /\ Settled(d) \subseteq BoundTo(d)
  BY DEF PromiseInv, Settled
<1>2. IsFiniteSet(Settled(d))
  BY <1>1, FS_Subset
<1> QED
  BY <1>1, <1>2, FS_CardinalityType DEF Events

LEMMA ServeKeepsPanels ==
    ASSUME PanelsInv, PromiseInv, NEW k \in CallIds, Serve(k)
    PROVE  PanelsInv'
<1> USE DEF PanelsInv
<1>1. ASSUME NEW d \in DecisionIds, NEW f \in Selections, ServeEvaluate(k, d, f)
      PROVE  PanelsInv'
  <2> DEFINE result == [decision |-> d, events |-> 0]
  <2>1. /\ calls[k] # NoCall /\ calls[k].kind = "evaluate" /\ Answer(k, result)
        /\ outcome' = [outcome EXCEPT ![d] = "PENDING"]
        /\ selected' = [selected EXCEPT ![d] = f]
        /\ UNCHANGED <<phase, boundTo>>
    BY <1>1 DEF ServeEvaluate, Decide, PendingCall, Open
  <2>2. result \in View
    BY DEF View
  <2> HIDE DEF result
  <2>3. [calls[k] EXCEPT !.answer = result] \in Call
    BY <2>1, <2>2, AnswersFit
  <2> QED
    BY <2>1, <2>3, ServedKeepsPanels DEF TypeOK
<1>2. ASSUME NEW c \in ChallengeIds, NEW mode \in Modes, ServeCreate(k, c, mode)
      PROVE  PanelsInv'
  <2> DEFINE result == [id |-> c, mode |-> mode]
  <2>1. /\ calls[k] # NoCall /\ calls[k].kind = "create" /\ Answer(k, result)
        /\ phase' = [phase EXCEPT ![c] = "open"]
        /\ boundTo' = [boundTo EXCEPT ![c] = calls[k].decision]
        /\ UNCHANGED <<outcome, selected>>
    BY <1>2 DEF ServeCreate, Issue, PendingCall, Open
  <2>2. result \in Handle
    BY DEF Handle
  <2> HIDE DEF result
  <2>3. [calls[k] EXCEPT !.answer = result] \in Call
    BY <2>1, <2>2, AnswersFit
  <2>4. calls[k] \in CreateCall
    BY <2>1, KindsOfCalls DEF TypeOK
  <2>5. calls[k].decision \in DecisionIds
    BY <2>4 DEF CreateCall
  <2> QED
    BY <2>1, <2>3, <2>5, ServedKeepsPanels DEF TypeOK, Phases
<1>3. ASSUME NEW verdict \in {"verified", "denied"}, ServeVerify(k, verdict)
      PROVE  PanelsInv'
  <2> DEFINE id == calls[k].challenge.id
             result == [challenge |-> id, verdict |-> verdict]
             status == IF verdict = "verified" THEN "AUTHORIZED" ELSE "DENIED"
  <2>1. /\ calls[k] # NoCall /\ calls[k].kind = "verify" /\ Answer(k, result)
        /\ phase' = [phase EXCEPT ![id] = verdict]
        /\ outcome' = [outcome EXCEPT ![boundTo[id]] = status]
        /\ UNCHANGED <<boundTo, selected>>
    BY <1>3 DEF ServeVerify, Settle, PendingCall, Open
  <2>2. calls[k] \in VerifyCall
    BY <2>1, KindsOfCalls DEF TypeOK
  <2>3. id \in ChallengeIds
    BY <2>2 DEF VerifyCall, Handle
  <2>4. result \in Verdict
    BY <2>3 DEF Verdict
  <2> HIDE DEF result, id
  <2>5. [calls[k] EXCEPT !.answer = result] \in Call
    BY <2>1, <2>4, AnswersFit
  <2> QED
    BY <2>1, <2>5, ServedKeepsPanels DEF TypeOK, Phases
<1>4. CASE ServeRefresh(k)
  <2> DEFINE d == calls[k].decision
             result == [decision |-> d, events |-> Events(d)]
  <2>1. /\ calls[k] # NoCall /\ calls[k].kind = "refresh" /\ Answer(k, result)
        /\ UNCHANGED <<phase, boundTo, outcome, selected>>
    BY <1>4 DEF ServeRefresh, PendingCall, Open, serverVars, promiseVars
  <2>2. d \in DecisionIds
    BY <2>1, KindsOfCalls DEF TypeOK, RefreshCall
  <2>3. result \in View
    BY <2>2, EventsAreCounted DEF View
  <2> HIDE DEF result
  <2>4. [calls[k] EXCEPT !.answer = result] \in Call
    BY <2>1, <2>3, AnswersFit
  <2> QED
    BY <2>1, <2>4, ServedKeepsPanels DEF TypeOK
<1>5. CASE ServeReset(k)
  <2>1. /\ calls[k] # NoCall /\ calls[k].kind = "reset" /\ Answer(k, "done")
        /\ phase' = [c \in ChallengeIds |->
                        IF phase[c] = "unused" THEN "unused" ELSE "wiped"]
        /\ boundTo' = [c \in ChallengeIds |-> NoDecision]
        /\ outcome' = [d \in DecisionIds |-> "NONE"]
        /\ UNCHANGED selected
    BY <1>5 DEF ServeReset, Wipe, PendingCall, Open
  <2>2. [calls[k] EXCEPT !.answer = "done"] \in Call
    BY <2>1, AnswersFit
  <2> QED
    BY <2>1, <2>2, ServedKeepsPanels DEF TypeOK, Phases
<1>6. CASE Fail(k)
  <2>1. /\ calls[k] # NoCall /\ calls[k].kind # "prompt" /\ Answer(k, Failed)
        /\ UNCHANGED <<phase, boundTo, outcome, selected>>
    BY <1>6 DEF Fail, serverVars, promiseVars
  <2>2. [calls[k] EXCEPT !.answer = Failed] \in Call
    BY <2>1, AnswersFit
  <2> QED
    BY <2>1, <2>2, ServedKeepsPanels DEF TypeOK
<1> QED
  BY <1>1, <1>2, <1>3, <1>4, <1>5, <1>6 DEF Serve

-----------------------------------------------------------------------------
(* Requests carry decided transactions only.                                *)

\* A decision, once taken, is not taken back, not even by a reset.
LEMMA DecidedStays ==
    ASSUME TypeOK, [Next]_vars, NEW d \in DecisionIds, selected[d] \in Selections
    PROVE  selected'[d] = selected[d]
<1> USE DEF serverVars
<1>1. CASE UNCHANGED vars
  BY <1>1 DEF vars
<1>2. ASSUME NEW k \in CallIds, Serve(k)
      PROVE  selected'[d] = selected[d]
  <2>1. "undecided" \notin Selections
    BY WebClientConstants DEF WebClientAssumption
  <2> QED
    BY <1>2, <2>1 DEF Serve, ServeEvaluate, ServeCreate, ServeVerify, ServeRefresh,
                      ServeReset, Fail, TypeOK
<1>3. ASSUME NEW k \in CallIds, Return(k)
      PROVE  selected'[d] = selected[d]
  BY <1>3 DEF Return, EvaluateReturns, ResetReturns, CreateReturns, PromptReturns,
              VerifyReturns, RefreshReturns
<1>4. ASSUME NEW k \in CallIds, RunHero(k) \/ HandleReset(k)
      PROVE  selected'[d] = selected[d]
  BY <1>4 DEF RunHero, HandleReset
<1>5. ASSUME NEW k \in CallIds, NEW s \in Slots,
             \/ SubmitForm(k, s) \/ Continue(k, s) \/ TryBlocked(k, s)
             \/ Fallback(k, s) \/ Verify(k, s)
      PROVE  selected'[d] = selected[d]
  BY <1>5 DEF SubmitForm, Continue, TryBlocked, Fallback, Verify, Create
<1>6. ASSUME NEW s \in Slots, ResetFlow(s)
      PROVE  selected'[d] = selected[d]
  BY <1>6 DEF ResetFlow
<1> QED
  BY <1>1, <1>2, <1>3, <1>4, <1>5, <1>6 DEF Next

\* The three buttons that ask for a challenge.
LEMMA Clicks ==
    ASSUME TypeOK, NEW k \in CallIds, NEW s \in Slots,
           Continue(k, s) \/ TryBlocked(k, s) \/ Fallback(k, s)
    PROVE  /\ slots[s] # Empty /\ ~busy[s]
           /\ \E f \in AskedFactors, p \in BOOLEAN : Create(k, s, f, p)
<1>1. CASE Continue(k, s)
  <2>1. /\ slots[s] # Empty /\ ~busy[s] /\ ChosenFactor(s) # "NONE"
        /\ Create(k, s, ChosenFactor(s),
                  ChosenFactor(s) = "PASSKEY" /\ ~WebAuthnAvailable)
    BY <1>1 DEF Continue
  <2>2. ChosenFactor(s) \in AskedFactors
    BY <2>1, WebClientConstants DEF TypeOK, ChosenFactor, AskedFactors, WebClientAssumption
  <2>3. (ChosenFactor(s) = "PASSKEY" /\ ~WebAuthnAvailable) \in BOOLEAN
    OBVIOUS
  <2> QED
    BY <2>1, <2>2, <2>3
<1>2. CASE TryBlocked(k, s)
  BY <1>2 DEF TryBlocked, AskedFactors
<1>3. CASE Fallback(k, s)
  BY <1>3 DEF Fallback, AskedFactors
<1> QED
  BY <1>1, <1>2, <1>3

\* One request changes, or none.
LEMMA OneCarriesDecided ==
    ASSUME TypeOK, CallsDecided, [Next]_vars, NEW k \in CallIds,
           NEW x \in Call \cup {NoCall},
           \A j \in CallIds \ {k} : calls'[j] = calls[j],
           calls'[k] = x, x # NoCall => CarriesDecided(x)'
    PROVE  CallsDecided'
<1>1. ASSUME NEW y \in Call, CarriesDecided(y)
      PROVE  CarriesDecided(y)'
  <2>1. \A d \in DecisionIds : selected[d] \in Selections => selected'[d] \in Selections
    BY DecidedStays
  <2> QED
    BY <1>1, <2>1 DEF CarriesDecided, Call, EvaluateCall, ResetCall, CreateCall, PromptCall,
                      VerifyCall, RefreshCall, View
<1>2. ASSUME NEW j \in CallIds, calls'[j] # NoCall, NEW y, y = calls'[j]
      PROVE  CarriesDecided(y)'
  <2>1. CASE j = k
    BY <1>2, <2>1
  <2>2. CASE j # k
    BY <1>1, <1>2, <2>2 DEF TypeOK, CallsDecided
  <2> QED
    BY <2>1, <2>2
<1> QED
  BY <1>2 DEF CallsDecided, CarriesDecided

\* The server answers with decided transactions.
LEMMA AnswerCarriesDecided ==
    ASSUME TypeOK, CallsDecided, [Next]_vars, NEW k \in CallIds, calls[k] # NoCall,
           NEW result, [calls[k] EXCEPT !.answer = result] \in Call,
           calls' = [calls EXCEPT ![k].answer = result],
           calls[k].kind = "evaluate" /\ result \notin {Pending, Failed} =>
              selected'[result.decision] \in Selections,
           calls[k].kind = "refresh" /\ result \notin {Pending, Failed} =>
              result.decision = calls[k].decision
    PROVE  CallsDecided'
<1>0. PICK x : x = [calls[k] EXCEPT !.answer = result]
  OBVIOUS
<1>1. calls'[k] = x /\ \A j \in CallIds \ {k} : calls'[j] = calls[j]
  BY <1>0, AnswerEffect
<1>2. \A d \in DecisionIds : selected[d] \in Selections => selected'[d] \in Selections
  BY DecidedStays
<1>3. calls[k] \in Call /\ CarriesDecided(calls[k])
  BY DEF TypeOK, CallsDecided
<1>4. /\ x.kind = calls[k].kind /\ x.answer = result
      /\ x.kind \in {"create", "refresh"} => x.decision = calls[k].decision
      /\ x.kind \in {"prompt", "verify"} => x.seen = calls[k].seen
  BY <1>0, <1>3 DEF Call, EvaluateCall, ResetCall, CreateCall, PromptCall, VerifyCall, RefreshCall
<1>5. /\ x.kind \in {"create", "refresh"} => calls[k].decision \in DecisionIds
      /\ x.kind \in {"prompt", "verify"} => calls[k].seen \in DecisionIds
  BY <1>3, <1>4, KindsOfCalls DEF CreateCall, PromptCall, VerifyCall, RefreshCall
<1>6. CarriesDecided(x)'
  BY <1>2, <1>3, <1>4, <1>5 DEF CarriesDecided
<1>7. x \in Call \cup {NoCall}
  BY <1>0
<1> QED
  BY <1>1, <1>6, <1>7, OneCarriesDecided

LEMMA ServeKeepsDecided ==
    ASSUME TypeOK, PromiseInv, CallsDecided, [Next]_vars, NEW k \in CallIds, Serve(k)
    PROVE  CallsDecided'
<1> USE DEF Answer
<1>1. ASSUME NEW d \in DecisionIds, NEW f \in Selections, ServeEvaluate(k, d, f)
      PROVE  CallsDecided'
  <2> DEFINE result == [decision |-> d, events |-> 0]
  <2>1. /\ calls[k] # NoCall /\ calls[k].kind = "evaluate"
        /\ calls' = [calls EXCEPT ![k].answer = result]
        /\ selected' = [selected EXCEPT ![d] = f]
    BY <1>1 DEF ServeEvaluate, PendingCall, Open
  <2>2. result \in View /\ selected'[result.decision] \in Selections
    BY <2>1 DEF View, TypeOK
  <2> HIDE DEF result
  <2>3. [calls[k] EXCEPT !.answer = result] \in Call
    BY <2>1, <2>2, AnswersFit
  <2> QED
    BY <2>1, <2>2, <2>3, AnswerCarriesDecided
<1>2. ASSUME NEW c \in ChallengeIds, NEW mode \in Modes, ServeCreate(k, c, mode)
      PROVE  CallsDecided'
  <2> DEFINE result == [id |-> c, mode |-> mode]
  <2>1. /\ calls[k] # NoCall /\ calls[k].kind = "create"
        /\ calls' = [calls EXCEPT ![k].answer = result]
    BY <1>2 DEF ServeCreate, PendingCall, Open
  <2>2. result \in Handle
    BY DEF Handle
  <2> HIDE DEF result
  <2>3. [calls[k] EXCEPT !.answer = result] \in Call
    BY <2>1, <2>2, AnswersFit
  <2> QED
    BY <2>1, <2>3, AnswerCarriesDecided
<1>3. ASSUME NEW verdict \in {"verified", "denied"}, ServeVerify(k, verdict)
      PROVE  CallsDecided'
  <2> DEFINE result == [challenge |-> calls[k].challenge.id, verdict |-> verdict]
  <2>1. /\ calls[k] # NoCall /\ calls[k].kind = "verify"
        /\ calls' = [calls EXCEPT ![k].answer = result]
    BY <1>3 DEF ServeVerify, PendingCall, Open
  <2>2. calls[k].challenge.id \in ChallengeIds
    BY <2>1, KindsOfCalls DEF TypeOK, VerifyCall, Handle
  <2>3. result \in Verdict
    BY <2>2 DEF Verdict
  <2> HIDE DEF result
  <2>4. [calls[k] EXCEPT !.answer = result] \in Call
    BY <2>1, <2>3, AnswersFit
  <2> QED
    BY <2>1, <2>4, AnswerCarriesDecided
<1>4. CASE ServeRefresh(k)
  <2> DEFINE d == calls[k].decision
             result == [decision |-> d, events |-> Events(d)]
  <2>1. /\ calls[k] # NoCall /\ calls[k].kind = "refresh"
        /\ calls' = [calls EXCEPT ![k].answer = result]
    BY <1>4 DEF ServeRefresh, PendingCall, Open
  <2>2. d \in DecisionIds
    BY <2>1, KindsOfCalls DEF TypeOK, RefreshCall
  <2>3. result \in View /\ result.decision = d
    BY <2>2, EventsAreCounted DEF View
  <2> HIDE DEF result
  <2>4. [calls[k] EXCEPT !.answer = result] \in Call
    BY <2>1, <2>3, AnswersFit
  <2> QED
    BY <2>1, <2>3, <2>4, AnswerCarriesDecided
<1>5. CASE ServeReset(k)
  <2>1. /\ calls[k] # NoCall /\ calls[k].kind = "reset"
        /\ calls' = [calls EXCEPT ![k].answer = "done"]
    BY <1>5 DEF ServeReset, PendingCall, Open
  <2>2. [calls[k] EXCEPT !.answer = "done"] \in Call
    BY <2>1, AnswersFit
  <2> QED
    BY <2>1, <2>2, AnswerCarriesDecided
<1>6. CASE Fail(k)
  <2>1. /\ calls[k] # NoCall /\ calls[k].kind # "prompt"
        /\ calls' = [calls EXCEPT ![k].answer = Failed]
    BY <1>6 DEF Fail
  <2>2. [calls[k] EXCEPT !.answer = Failed] \in Call
    BY <2>1, AnswersFit
  <2> QED
    BY <2>1, <2>2, AnswerCarriesDecided
<1> QED
  BY <1>1, <1>2, <1>3, <1>4, <1>5, <1>6 DEF Serve

LEMMA ReturnKeepsDecided ==
    ASSUME TypeOK, TypeOK', CallsDecided, [Next]_vars, NEW k \in CallIds, Return(k)
    PROVE  CallsDecided'
<1>1. ASSUME calls' = [calls EXCEPT ![k] = NoCall]
      PROVE  CallsDecided'
  BY <1>1, OneCarriesDecided DEF TypeOK
<1>2. ASSUME NEW x \in Call, calls' = [calls EXCEPT ![k] = x], CarriesDecided(x)'
      PROVE  CallsDecided'
  BY <1>2, OneCarriesDecided DEF TypeOK
<1>3. CASE EvaluateReturns(k) \/ CreateReturns(k) \/ RefreshReturns(k) \/ Reject(k)
  BY <1>1, <1>3 DEF EvaluateReturns, CreateReturns, RefreshReturns, Reject, Send
<1>4. CASE ResetReturns(k)
  <2>1. CASE calls[k].answer = Failed
    BY <1>1, <1>4, <2>1 DEF ResetReturns, Send
  <2>2. CASE calls[k].answer # Failed
    <3>1. calls' = [j \in CallIds |-> IF j = k THEN NoCall ELSE Unmounted(calls[j])]
      BY <1>4, <2>2 DEF ResetReturns
    <3>2. UNCHANGED selected
      BY <1>4 DEF ResetReturns, serverVars
    <3>3. ASSUME NEW j \in CallIds, calls'[j] # NoCall, NEW y, y = calls'[j]
          PROVE  CarriesDecided(y)'
      <4>1. j # k /\ y = Unmounted(calls[j]) /\ calls[j] \in Call \cup {NoCall}
        BY <3>1, <3>3 DEF TypeOK
      <4>2. calls[j] \in Call /\ CarriesDecided(calls[j])
        BY <3>3, <4>1, UnmountedType DEF CallsDecided
      <4>3. CASE calls[j].kind \in {"evaluate", "reset"}
        <5>1. y = calls[j]
          BY <4>1, <4>2, <4>3, UnmountedType, WebClientConstants DEF WebClientAssumption
        <5> QED
          BY <3>2, <4>2, <5>1 DEF CarriesDecided
      <4>4. CASE calls[j].kind \notin {"evaluate", "reset"}
        <5>1. y = [calls[j] EXCEPT !.mounted = FALSE]
          BY <4>1, <4>2, <4>4, UnmountedType, WebClientConstants DEF WebClientAssumption
        <5>2. /\ y.kind = calls[j].kind
              /\ y.kind \in {"create", "refresh"} => y.decision = calls[j].decision
              /\ y.kind \in {"prompt", "verify"} => y.seen = calls[j].seen
              /\ y.answer = calls[j].answer
          BY <4>2, <4>4, <5>1, KindsOfCalls
             DEF CreateCall, PromptCall, VerifyCall, RefreshCall
        <5> QED
          BY <3>2, <4>2, <5>2 DEF CarriesDecided
      <4> QED
        BY <4>3, <4>4
    <3> QED
      BY <3>3 DEF CallsDecided, CarriesDecided
  <2> QED
    BY <2>1, <2>2
<1>5. CASE PromptReturns(k)
  <2>1. CASE Reject(k)
    BY <1>3, <2>1
  <2>2. CASE Send(k, [calls[k] EXCEPT !.kind = "verify"])
    <3>0. PICK x : x = [calls[k] EXCEPT !.kind = "verify"]
      OBVIOUS
    <3>1. /\ calls' = [calls EXCEPT ![k] = x] /\ UNCHANGED selected
          /\ calls[k] # NoCall /\ calls[k].kind = "prompt"
      BY <1>5, <2>2, <3>0 DEF PromptReturns, Send, Open, serverVars
    <3>2. calls[k] \in PromptCall /\ CarriesDecided(calls[k])
      BY <3>1, KindsOfCalls DEF TypeOK, CallsDecided
    <3>3. x \in VerifyCall /\ x.kind = "verify" /\ x.seen = calls[k].seen
      BY <3>0, <3>2 DEF PromptCall, VerifyCall
    <3>4. x \in Call /\ CarriesDecided(x)'
      BY <3>1, <3>2, <3>3 DEF Call, CarriesDecided
    <3> QED
      BY <1>2, <3>1, <3>4
  <2> QED
    BY <1>5, <2>1, <2>2 DEF PromptReturns
<1>6. CASE VerifyReturns(k)
  <2>1. CASE calls[k].answer = Failed
    BY <1>3, <1>6, <2>1 DEF VerifyReturns
  <2>2. CASE calls[k].answer # Failed
    <3>0. PICK x : x = Refresh(calls[k])
      OBVIOUS
    <3>1. /\ calls' = [calls EXCEPT ![k] = x] /\ UNCHANGED selected
          /\ calls[k] # NoCall /\ calls[k].kind = "verify"
      BY <1>6, <2>2, <3>0 DEF VerifyReturns, Send, Answered, Open, serverVars
    <3>2. calls[k] \in VerifyCall /\ CarriesDecided(calls[k])
      BY <3>1, KindsOfCalls DEF TypeOK, CallsDecided
    <3>3. /\ x \in RefreshCall /\ x.kind = "refresh" /\ x.decision = calls[k].seen
          /\ x.answer = Pending
      BY <3>0, <3>2 DEF VerifyCall, RefreshCall, Refresh
    <3>4. x \in Call /\ CarriesDecided(x)'
      BY <3>1, <3>2, <3>3 DEF Call, CarriesDecided
    <3> QED
      BY <1>2, <3>1, <3>4
  <2> QED
    BY <2>1, <2>2
<1> QED
  BY <1>3, <1>4, <1>5, <1>6 DEF Return

LEMMA NextKeepsDecided ==
    ASSUME TypeOK, TypeOK', PromiseInv, CallsDecided, [Next]_vars
    PROVE  CallsDecided'
<1>1. CASE UNCHANGED vars
  BY <1>1 DEF vars, serverVars, CallsDecided, CarriesDecided
<1>2. ASSUME NEW k \in CallIds, NEW x \in Call, calls' = [calls EXCEPT ![k] = x],
             CarriesDecided(x)'
      PROVE  CallsDecided'
  BY <1>2, OneCarriesDecided DEF TypeOK
<1>3. ASSUME NEW k \in CallIds, NEW x \in Call, calls' = [calls EXCEPT ![k] = x],
             x.kind \in {"evaluate", "reset"}, x.answer = Pending
      PROVE  CallsDecided'
  BY <1>2, <1>3 DEF CarriesDecided
<1>4. ASSUME NEW s \in Slots, NEW hero \in BOOLEAN, NEW x, x = Evaluation(s, hero)
      PROVE  x \in Call /\ x.kind \in {"evaluate", "reset"} /\ x.answer = Pending
  BY <1>4 DEF Evaluation, Call, EvaluateCall
<1>5. ASSUME NEW k \in CallIds, RunHero(k)
      PROVE  CallsDecided'
  <2>1. PICK s : s = IF slots["left"] = Empty THEN "left" ELSE "right"
    OBVIOUS
  <2>2. s \in Slots /\ calls' = [calls EXCEPT ![k] = Evaluation(s, TRUE)]
    BY <1>5, <2>1 DEF RunHero, Send, Slots
  <2> QED
    BY <1>3, <1>4, <2>2
<1>6. ASSUME NEW k \in CallIds, HandleReset(k)
      PROVE  CallsDecided'
  <2>1. PICK x : x = [kind |-> "reset", answer |-> Pending]
    OBVIOUS
  <2>2. x \in Call /\ x.kind = "reset" /\ x.answer = Pending
    BY <2>1 DEF Call, ResetCall
  <2> QED
    BY <1>3, <1>6, <2>1, <2>2 DEF HandleReset, Send
<1>7. ASSUME NEW k \in CallIds, NEW s \in Slots, SubmitForm(k, s)
      PROVE  CallsDecided'
  <2>1. calls' = [calls EXCEPT ![k] = Evaluation(s, FALSE)]
    BY <1>7 DEF SubmitForm, Send
  <2> QED
    BY <1>3, <1>4, <2>1
<1>8. ASSUME NEW k \in CallIds, NEW s \in Slots, slots[s] # Empty, UNCHANGED serverVars,
             NEW x \in Call, calls' = [calls EXCEPT ![k] = x], x.answer = Pending,
             \/ x.kind = "create" /\ x.decision = Shown(s)
             \/ x.kind \in {"prompt", "verify"} /\ x.seen = Shown(s)
      PROVE  CallsDecided'
  BY <1>2, <1>8 DEF CarriesDecided, TypeOK, serverVars
<1>9. ASSUME NEW k \in CallIds, NEW s \in Slots,
             Continue(k, s) \/ TryBlocked(k, s) \/ Fallback(k, s)
      PROVE  CallsDecided'
  <2>1. slots[s] # Empty
    BY <1>9, Clicks
  <2>2. PICK f \in AskedFactors, p \in BOOLEAN : Create(k, s, f, p)
    BY <1>9, Clicks
  <2>3. PICK x : x = [kind |-> "create", slot |-> s, mounted |-> TRUE,
                      decision |-> Shown(s), factor |-> f,
                      simulated |-> p, answer |-> Pending]
    OBVIOUS
  <2>4. Shown(s) \in DecisionIds
    BY <2>1 DEF TypeOK, View, Shown
  <2>5. /\ x \in Call /\ x.kind = "create" /\ x.decision = Shown(s)
        /\ x.answer = Pending
    BY <2>3, <2>4 DEF Call, CreateCall
  <2>6. calls' = [calls EXCEPT ![k] = x] /\ UNCHANGED serverVars
    BY <2>2, <2>3 DEF Create, Send
  <2> QED
    BY <1>8, <2>1, <2>5, <2>6
<1>10. ASSUME NEW k \in CallIds, NEW s \in Slots, Verify(k, s)
       PROVE  CallsDecided'
  <2>1. PICK x : x = [kind |-> IF flow[s].challenge.mode = "WEBAUTHN" THEN "prompt"
                               ELSE "verify",
                      slot |-> s, mounted |-> TRUE, seen |-> Shown(s),
                      challenge |-> flow[s].challenge, answer |-> Pending]
    OBVIOUS
  <2>2. slots[s] # Empty /\ flow[s].phase = "ready" /\ flow[s] \in Flow
    BY <1>10 DEF Verify, TypeOK
  <2>3. Shown(s) \in DecisionIds /\ flow[s].challenge \in Handle
    BY <2>2 DEF TypeOK, View, Shown, Flow
  <2>4. /\ x \in Call /\ x.kind \in {"prompt", "verify"} /\ x.seen = Shown(s)
        /\ x.answer = Pending
    BY <2>1, <2>3 DEF Call, PromptCall, VerifyCall
  <2>5. calls' = [calls EXCEPT ![k] = x] /\ UNCHANGED serverVars
    BY <1>10, <2>1 DEF Verify, Send
  <2> QED
    BY <1>8, <2>2, <2>4, <2>5
<1>11. ASSUME NEW s \in Slots, ResetFlow(s)
       PROVE  CallsDecided'
  BY <1>11 DEF ResetFlow, serverVars, CallsDecided, CarriesDecided
<1> QED
  BY <1>1, <1>5, <1>6, <1>7, <1>9, <1>10, <1>11, ServeKeepsDecided, ReturnKeepsDecided
     DEF Next

-----------------------------------------------------------------------------
(* The promise of the service.                                              *)

LEMMA NextKeepsPromise ==
    ASSUME TypeOK, PromiseInv, [Next]_vars
    PROVE  PromiseInv'
<1> USE WebClientConstants DEF WebClientAssumption
<1>0. ASSUME UNCHANGED serverVars
      PROVE  PromiseInv'
  BY <1>0 DEF serverVars, promiseVars, PromiseInv, BoundTo
<1>1. ASSUME NEW k \in CallIds, NEW d \in DecisionIds, NEW f \in Selections,
             ServeEvaluate(k, d, f)
      PROVE  PromiseInv'
  <2>1. /\ outcome' = [outcome EXCEPT ![d] = "PENDING"]
        /\ selected' = [selected EXCEPT ![d] = f]
        /\ UNCHANGED <<phase, boundTo>>
    BY <1>1 DEF ServeEvaluate, Decide
  <2>2. \A e \in DecisionIds : BoundTo(e)' = BoundTo(e)
    BY <2>1 DEF BoundTo
  <2>3. ASSUME NEW e \in DecisionIds
        PROVE  /\ outcome[e] # "NONE" => outcome'[e] # "NONE"
               /\ outcome'[e] # "NONE" => outcome[e] # "NONE" \/ e = d
               /\ selected'[e] = IF e = d THEN f ELSE selected[e]
    BY <2>1 DEF TypeOK
  <2> QED
    BY <2>1, <2>2, <2>3 DEF PromiseInv
<1>2. ASSUME NEW k \in CallIds, NEW c \in ChallengeIds, NEW mode \in Modes,
             ServeCreate(k, c, mode)
      PROVE  PromiseInv'
  <2>1. PICK d : d = calls[k].decision
    OBVIOUS
  <2>2. /\ phase[c] = "unused" /\ outcome[d] # "NONE"
        /\ phase' = [phase EXCEPT ![c] = "open"]
        /\ boundTo' = [boundTo EXCEPT ![c] = d]
        /\ UNCHANGED <<outcome, selected>>
        /\ calls[k] # NoCall /\ calls[k].kind = "create"
    BY <1>2, <2>1 DEF ServeCreate, Issue, PendingCall, Open
  <2>3. d \in DecisionIds
    BY <2>1, <2>2, KindsOfCalls DEF TypeOK, CreateCall
  <2>4. ASSUME NEW e \in DecisionIds
        PROVE  IsFiniteSet(BoundTo(e)')
    <3>1. BoundTo(e)' \subseteq BoundTo(e) \cup {c}
      BY <2>2 DEF BoundTo, TypeOK
    <3>2. IsFiniteSet(BoundTo(e) \cup {c})
      BY FS_AddElement DEF PromiseInv
    <3> QED
      BY <3>1, <3>2, FS_Subset
  <2> QED
    BY <2>2, <2>3, <2>4 DEF PromiseInv, TypeOK
<1>3. ASSUME NEW k \in CallIds, NEW verdict \in {"verified", "denied"},
             ServeVerify(k, verdict)
      PROVE  PromiseInv'
  <2>1. PICK c : c = calls[k].challenge.id
    OBVIOUS
  <2>2. PICK status : status = IF verdict = "verified" THEN "AUTHORIZED" ELSE "DENIED"
    OBVIOUS
  <2>3. /\ phase[c] = "open"
        /\ phase' = [phase EXCEPT ![c] = verdict]
        /\ outcome' = [outcome EXCEPT ![boundTo[c]] = status]
        /\ UNCHANGED <<boundTo, selected>>
        /\ calls[k] # NoCall /\ calls[k].kind = "verify"
    BY <1>3, <2>1, <2>2 DEF ServeVerify, Settle, PendingCall, Open
  <2>4. c \in ChallengeIds
    BY <2>1, <2>3, KindsOfCalls DEF TypeOK, VerifyCall, Handle
  <2>5. status # "NONE"
    BY <2>2
  <2> QED
    BY <2>3, <2>4, <2>5 DEF PromiseInv, BoundTo, TypeOK
<1>4. ASSUME NEW k \in CallIds, ServeReset(k)
      PROVE  PromiseInv'
  <2>1. /\ phase' = [c \in ChallengeIds |->
                        IF phase[c] = "unused" THEN "unused" ELSE "wiped"]
        /\ boundTo' = [c \in ChallengeIds |-> NoDecision]
        /\ outcome' = [d \in DecisionIds |-> "NONE"]
    BY <1>4 DEF ServeReset, Wipe
  <2>2. \A d \in DecisionIds : BoundTo(d)' = {}
    BY <2>1 DEF BoundTo
  <2> QED
    BY <2>1, <2>2, FS_EmptySet DEF PromiseInv
<1>5. ASSUME NEW k \in CallIds, Serve(k)
      PROVE  PromiseInv'
  BY <1>0, <1>1, <1>2, <1>3, <1>4, <1>5 DEF Serve, ServeRefresh, Fail
<1>6. ASSUME NEW k \in CallIds, Return(k)
      PROVE  PromiseInv'
  BY <1>0, <1>6 DEF Return, EvaluateReturns, ResetReturns, CreateReturns, PromptReturns,
                    VerifyReturns, RefreshReturns
<1> QED
  BY <1>0, <1>5, <1>6 DEF Next, vars, RunHero, HandleReset, SubmitForm, Continue,
                          TryBlocked, Fallback, Verify, Create, ResetFlow

-----------------------------------------------------------------------------
(* What the panels and the buttons say.                                     *)

PanelsIInv == PanelsInv /\ PromiseInv /\ CallsDecided

LEMMA NextKeepsPanels ==
    ASSUME PanelsIInv, [Next]_vars
    PROVE  PanelsInv'
<1> USE DEF PanelsIInv
<1>1. CASE UNCHANGED vars
  BY <1>1 DEF vars, serverVars, promiseVars, appVars, panelVars, PanelsInv, TypeOK, Shown,
              OneIf, OfPanel, Heroes, Open
<1>2. ASSUME NEW k \in CallIds, HandleReset(k)
      PROVE  PanelsInv'
  <2>1. PICK x : x = [kind |-> "reset", answer |-> Pending]
    OBVIOUS
  <2>2. x \in Call /\ x.kind = "reset"
    BY <2>1 DEF Call, ResetCall
  <2> QED
    BY <1>2, <2>1, <2>2, OpeningKeepsPanels DEF HandleReset, appVars, PanelsInv, TypeOK
<1>3. ASSUME NEW k \in CallIds, NEW s \in Slots, SubmitForm(k, s)
      PROVE  PanelsInv'
  <2>1. PICK x : x = Evaluation(s, FALSE)
    OBVIOUS
  <2>2. x \in Call /\ x.kind = "evaluate" /\ ~x.hero
    BY <2>1 DEF Evaluation, Call, EvaluateCall
  <2> QED
    BY <1>3, <2>1, <2>2, OpeningKeepsPanels DEF SubmitForm
<1>4. ASSUME NEW k \in CallIds, NEW s \in Slots,
             Continue(k, s) \/ TryBlocked(k, s) \/ Fallback(k, s)
      PROVE  PanelsInv'
  BY <1>4, Clicks, CreateKeepsPanels DEF PanelsInv
<1>5. ASSUME NEW k \in CallIds, Return(k)
      PROVE  PanelsInv'
  BY <1>5, EvaluateReturnsKeepsPanels, ResetReturnsKeepsPanels, CreateReturnsKeepsPanels,
     PromptReturnsKeepsPanels, VerifyReturnsKeepsPanels, RefreshReturnsKeepsPanels
     DEF Return
<1> QED
  BY <1>1, <1>2, <1>3, <1>4, <1>5, RunHeroKeepsPanels, VerifyKeepsPanels,
     ResetFlowKeepsPanels, ServeKeepsPanels DEF Next

LEMMA InitPanels ==
    ASSUME Init
    PROVE  PanelsIInv
<1> USE DEF Init, PromiseInit
<1>1. TypeOK
  <2>1. IdleFlow \in Flow /\ IdleFlow.phase = "idle"
    BY DEF IdleFlow, Flow, FlowPhases
  <2> QED
    BY <2>1, WebClientConstants DEF TypeOK, Phases, WebClientAssumption
<1>2. PanelsInv
  BY <1>1 DEF PanelsInv, OneIf, OfPanel, Heroes, Open
<1>3. PromiseInv
  <2>1. \A d \in DecisionIds : BoundTo(d) = {}
    BY WebClientConstants DEF BoundTo, WebClientAssumption
  <2> QED
    BY <2>1, FS_EmptySet, WebClientConstants DEF PromiseInv, WebClientAssumption
<1> QED
  BY <1>2, <1>3 DEF PanelsIInv, CallsDecided

\* The inductive invariant of the panels and the buttons.
THEOREM PanelsInvariant == Spec => []PanelsIInv
<1>1. PanelsIInv /\ [Next]_vars => PanelsIInv'
  BY NextKeepsPanels, NextKeepsPromise, NextKeepsDecided DEF PanelsIInv, PanelsInv
<1> QED
  BY <1>1, InitPanels, PTL DEF Spec

\* Every variable keeps its type, slots show decided transactions only, flows
\* have what their phase needs and empty slots have no panel.
THEOREM TypeCorrect == Spec => []TypeOK
BY PanelsInvariant, PTL DEF PanelsIInv, PanelsInv

LEMMA OneOrNone ==
    ASSUME NEW flag \in BOOLEAN, NEW S, OneIf(flag, S)
    PROVE  Cardinality(S) = IF flag THEN 1 ELSE 0
BY FS_EmptySet, FS_Singleton DEF OneIf

\* A panel is busy exactly while one request of its own is under way.
THEOREM PanelsAreTruthful == Spec => []BusyIsTruthful
<1>1. PanelsIInv => BusyIsTruthful
  BY OneOrNone DEF PanelsIInv, PanelsInv, TypeOK, BusyIsTruthful
<1> QED
  BY <1>1, PanelsInvariant, PTL

\* A scenario's button is disabled exactly while one scenario is in flight.
THEOREM HeroesAreSingle == Spec => []OneHeroAtATime
<1>1. PanelsIInv => OneHeroAtATime
  BY OneOrNone DEF PanelsIInv, PanelsInv, TypeOK, OneHeroAtATime, Heroes
<1> QED
  BY <1>1, PanelsInvariant, PTL

-----------------------------------------------------------------------------
(* The server behind the browser.                                           *)

LEMMA StepsKeepPromise ==
    ASSUME TypeOK, [Next]_vars
    PROVE  [PromiseNext]_promiseVars
<1>1. ASSUME NEW k \in CallIds, NEW c \in ChallengeIds, NEW mode, ServeCreate(k, c, mode)
      PROVE  PromiseNext
  <2>1. calls[k] \in Call /\ calls[k].kind = "create"
    BY <1>1 DEF ServeCreate, PendingCall, Open, TypeOK
  <2>2. calls[k].decision \in DecisionIds
    BY <2>1, KindsOfCalls DEF CreateCall
  <2> QED
    BY <1>1, <2>2 DEF ServeCreate, PromiseNext
<1>2. ASSUME NEW k \in CallIds, NEW verdict \in {"verified", "denied"}, ServeVerify(k, verdict)
      PROVE  PromiseNext
  <2>1. calls[k] \in Call /\ calls[k].kind = "verify"
    BY <1>2 DEF ServeVerify, PendingCall, Open, TypeOK
  <2>2. calls[k].challenge.id \in ChallengeIds
    BY <2>1, KindsOfCalls DEF VerifyCall, Handle
  <2> QED
    BY <1>2, <2>2 DEF ServeVerify, PromiseNext
<1>3. ASSUME NEW k \in CallIds, Serve(k)
      PROVE  [PromiseNext]_promiseVars
  BY <1>1, <1>2, <1>3 DEF Serve, ServeEvaluate, ServeReset, ServeRefresh, Fail,
                          PromiseNext, serverVars
<1>4. ASSUME NEW k \in CallIds, Return(k)
      PROVE  UNCHANGED promiseVars
  BY <1>4 DEF Return, EvaluateReturns, ResetReturns, CreateReturns, PromptReturns,
              VerifyReturns, RefreshReturns, serverVars
<1>5. ASSUME NEW k \in CallIds, NEW s \in Slots,
             Continue(k, s) \/ TryBlocked(k, s) \/ Fallback(k, s)
      PROVE  UNCHANGED promiseVars
  BY <1>5 DEF Continue, TryBlocked, Fallback, Create, serverVars
<1>6. ASSUME NEW k \in CallIds, NEW s \in Slots,
             RunHero(k) \/ HandleReset(k) \/ SubmitForm(k, s) \/ Verify(k, s) \/ ResetFlow(s)
      PROVE  UNCHANGED promiseVars
  BY <1>6 DEF RunHero, HandleReset, SubmitForm, Verify, ResetFlow, serverVars
<1>7. CASE \E k \in CallIds : RunHero(k) \/ HandleReset(k)
  BY <1>7 DEF RunHero, HandleReset, serverVars
<1>8. CASE \E s \in Slots : ResetFlow(s)
  BY <1>8 DEF ResetFlow, serverVars
<1>9. CASE UNCHANGED vars
  BY <1>9 DEF vars, serverVars
<1> QED
  BY <1>3, <1>4, <1>5, <1>6, <1>7, <1>8, <1>9 DEF Next

\* The server the browser meets does what the challenge service promises, which
\* ServiceKeepsPromise of ChallengesProofs shows of the service itself: no
\* request of the browser has a challenge settled twice or without its decision.
THEOREM BrowserMeetsPromise == Spec => PromiseSpec
<1>1. Init => PromiseInit
  BY DEF Init
<1> QED
  BY <1>1, StepsKeepPromise, TypeCorrect, PTL DEF Spec, PromiseSpec

=============================================================================
