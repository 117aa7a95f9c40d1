------------------------------- MODULE WebClient -------------------------------
(***************************************************************************)
(* The browser: the two slots of App.tsx, the challenge flow of the        *)
(* ChallengePanel in each, and the requests they have in flight, against   *)
(* the promise of the challenge service (OneTimeChallenge, which           *)
(* Challenges is shown to keep).                                           *)
(*                                                                         *)
(* A handler runs up to its first await in the step of the click, and from *)
(* one await to the next in the step that delivers the answer; it still    *)
(* sees the slots as they were rendered when the click came.  The server   *)
(* works on a request, and any request or answer can get lost, in steps of *)
(* their own.  PASSKEY is the only factor that has an adapter.             *)
(***************************************************************************)
EXTENDS OneTimeChallenge, Naturals, FiniteSets

CONSTANTS
    CallIds,            \* requests in flight at once (bound)
    Selections,         \* selectedFactorId of the decisions that arrive
    WebAuthnAvailable,  \* isWebAuthnAvailable()
    Empty,              \* a slot that shows nothing
    NoCall, Pending, Failed,
    NoChallenge, NoVerdict

VARIABLES
    selected,           \* selectedFactorId of a decision, "undecided" before
    slots, submitting, busyHero,    \* App
    flow, busy,         \* ChallengePanel of each slot
    calls               \* requests in flight

serverVars == <<promiseVars, selected>>
appVars == <<slots, submitting, busyHero>>
panelVars == <<flow, busy>>
vars == <<serverVars, appVars, panelVars, calls>>

Slots == {"left", "right"}
Modes == {"SIMULATED", "WEBAUTHN"}
FlowPhases == {"idle", "creating", "ready", "verifying", "verified", "rejected"}

\* A factor a challenge is asked for: the selected one or one that is blocked.
AskedFactors == {"PASSKEY", "TOTP", "blocked"}

\* DecisionResponse as far as a slot keeps it, with the length of its trace.
View == [decision: DecisionIds, events: Nat]

\* CreateChallengeResponse and VerifyChallengeResponse.
Handle == [id: ChallengeIds, mode: Modes]
Verdict == [challenge: ChallengeIds, verdict: {"verified", "denied"}]

\* FlowState.
Flow == [phase: FlowPhases, factor: AskedFactors \cup {"none"},
         challenge: Handle \cup {NoChallenge},
         verification: Verdict \cup {NoVerdict}, interrupted: BOOLEAN]

\* Requests in flight, with the answer that is on its way back.  The prompt is
\* the authenticator's, between a challenge and its verification.
EvaluateCall == [kind: {"evaluate"}, slot: Slots, hero: BOOLEAN,
                 answer: View \cup {Pending, Failed}]
ResetCall == [kind: {"reset"}, answer: {"done", Pending, Failed}]
CreateCall == [kind: {"create"}, slot: Slots, mounted: BOOLEAN, decision: DecisionIds,
               factor: AskedFactors, simulated: BOOLEAN,
               answer: Handle \cup {Pending, Failed}]
PromptCall == [kind: {"prompt"}, slot: Slots, mounted: BOOLEAN, seen: DecisionIds,
               challenge: Handle, answer: {Pending}]
VerifyCall == [kind: {"verify"}, slot: Slots, mounted: BOOLEAN, seen: DecisionIds,
               challenge: Handle, answer: Verdict \cup {Pending, Failed}]
RefreshCall == [kind: {"refresh"}, slot: Slots, mounted: BOOLEAN, decision: DecisionIds,
                answer: View \cup {Pending, Failed}]

Call == EvaluateCall \cup ResetCall \cup CreateCall \cup PromptCall
          \cup VerifyCall \cup RefreshCall

WebClientAssumption ==
    /\ WebAuthnAvailable \in BOOLEAN
    /\ Selections \subseteq {"PASSKEY", "TOTP", "NONE"}
    /\ NoDecision \notin DecisionIds
    /\ Pending # Failed
    /\ {Pending, Failed} \cap (View \cup Handle \cup Verdict \cup {"done"}) = {}
    /\ Empty \notin View
    /\ NoCall \notin Call
    /\ NoChallenge \notin Handle
    /\ NoVerdict \notin Verdict

ASSUME WebClientConstants == WebClientAssumption

\* "challenge" and "verification" are kept in the phases whose buttons and texts
\* use them, "ready" and "verified".
IdleFlow == [phase |-> "idle", factor |-> "none", challenge |-> NoChallenge,
             verification |-> NoVerdict, interrupted |-> FALSE]

Init ==
    /\ PromiseInit
    /\ selected = [d \in DecisionIds |-> "undecided"]
    /\ slots = [s \in Slots |-> Empty]
    /\ submitting = FALSE
    /\ busyHero = FALSE
    /\ flow = [s \in Slots |-> IdleFlow]
    /\ busy = [s \in Slots |-> FALSE]
    /\ calls = [k \in CallIds |-> NoCall]

Send(k, call) == calls' = [calls EXCEPT ![k] = call]
Free(k) == calls[k] = NoCall
Open(k, kind) == calls[k] # NoCall /\ calls[k].kind = kind
Answered(k, kind) == Open(k, kind) /\ calls[k].answer # Pending

-----------------------------------------------------------------------------
(* App: evaluate, runHero, handleReset.                                     *)

Evaluation(slot, hero) ==
    [kind |-> "evaluate", slot |-> slot, hero |-> hero, answer |-> Pending]

\* A scenario goes to the left slot if that is empty, else to the right one.
RunHero(k) ==
    /\ Free(k)
    /\ ~busyHero
    /\ busyHero' = TRUE
    /\ submitting' = TRUE
    /\ Send(k, Evaluation(IF slots["left"] = Empty THEN "left" ELSE "right", TRUE))
    /\ UNCHANGED <<serverVars, panelVars, slots>>

SubmitForm(k, slot) ==
    /\ Free(k)
    /\ ~submitting
    /\ submitting' = TRUE
    /\ Send(k, Evaluation(slot, FALSE))
    /\ UNCHANGED <<serverVars, panelVars, slots, busyHero>>

\* evaluate's finally, for a scenario followed by the rest of runHero.
\* (HeroStaysBusy: with the rest of runHero left out when the request failed;
\* AnyEndsHero: with it in the finally of every evaluation.)
HeroStaysBusy(call) ==
    busyHero' = IF call.hero /\ call.answer # Failed THEN FALSE ELSE busyHero

AnyEndsHero(call) == busyHero' = FALSE

HeroEnds(call) == busyHero' = IF call.hero THEN FALSE ELSE busyHero

EvaluateReturns(k) ==
    /\ Answered(k, "evaluate")
    /\ slots' = IF calls[k].answer = Failed THEN slots
                ELSE [slots EXCEPT ![calls[k].slot] = calls[k].answer]
    /\ submitting' = FALSE
    /\ HeroEnds(calls[k])
    /\ Send(k, NoCall)
    /\ UNCHANGED <<serverVars, panelVars>>

HandleReset(k) ==
    /\ Free(k)
    /\ Send(k, [kind |-> "reset", answer |-> Pending])
    /\ UNCHANGED <<serverVars, appVars, panelVars>>

\* Emptying the slots unmounts their panels: what they have in flight goes on,
\* but no longer reaches a panel, not even one mounted later in the slot.
\* (StillMounted: as if it did.)
StillMounted(call) == call

Unmounted(call) ==
    IF call # NoCall /\ call.kind \notin {"evaluate", "reset"}
    THEN [call EXCEPT !.mounted = FALSE] ELSE call

ResetReturns(k) ==
    /\ Answered(k, "reset")
    /\ IF calls[k].answer = Failed
       THEN Send(k, NoCall) /\ UNCHANGED <<slots, panelVars>>
       ELSE /\ slots' = [s \in Slots |-> Empty]
            /\ flow' = [s \in Slots |-> IdleFlow]
            /\ busy' = [s \in Slots |-> FALSE]
            /\ calls' = [j \in CallIds |-> IF j = k THEN NoCall ELSE Unmounted(calls[j])]
    /\ UNCHANGED <<serverVars, submitting, busyHero>>

-----------------------------------------------------------------------------
(* ChallengePanel: create.                                                  *)

Shown(slot) == slots[slot].decision
ChosenFactor(slot) == selected[Shown(slot)]

\* setFlow and setBusy of a handler's continuation.
Update(call, f, b) ==
    IF call.mounted
    THEN /\ flow' = [flow EXCEPT ![call.slot] = f]
         /\ busy' = [busy EXCEPT ![call.slot] = b]
    ELSE UNCHANGED panelVars

Create(k, slot, factor, preferSimulated) ==
    /\ Free(k)
    /\ flow' = [flow EXCEPT ![slot] = [IdleFlow EXCEPT !.factor = factor, !.phase = "creating"]]
    /\ busy' = [busy EXCEPT ![slot] = TRUE]
    /\ Send(k, [kind |-> "create", slot |-> slot, mounted |-> TRUE,
                decision |-> Shown(slot), factor |-> factor,
                simulated |-> preferSimulated, answer |-> Pending])
    /\ UNCHANGED <<serverVars, appVars>>

\* "Continue with" the selected factor.
Continue(k, slot) ==
    /\ slots[slot] # Empty
    /\ ~busy[slot]
    /\ ChosenFactor(slot) # "NONE"
    /\ flow[slot].phase \notin {"verified", "creating"}
    /\ Create(k, slot, ChosenFactor(slot),
              ChosenFactor(slot) = "PASSKEY" /\ ~WebAuthnAvailable)

\* "Try ... anyway": a factor that is not eligible.
\* (TryEvenIfBusy: with the button left enabled.)
TryEvenIfBusy(k, slot) ==
    /\ slots[slot] # Empty
    /\ ChosenFactor(slot) # "NONE"
    /\ Create(k, slot, "blocked", FALSE)

TryBlocked(k, slot) ==
    /\ slots[slot] # Empty
    /\ ~busy[slot]
    /\ ChosenFactor(slot) # "NONE"
    /\ Create(k, slot, "blocked", FALSE)

\* "Use the simulated passkey instead", whatever the slot shows by now.
Fallback(k, slot) ==
    /\ slots[slot] # Empty
    /\ ~busy[slot]
    /\ flow[slot].phase = "rejected"
    /\ flow[slot].interrupted
    /\ flow[slot].factor = "PASSKEY"
    /\ Create(k, slot, "PASSKEY", TRUE)

CreateReturns(k) ==
    LET call == calls[k]
        now == flow[call.slot]
    IN  /\ Answered(k, "create")
        /\ Update(call, IF call.answer = Failed
                        THEN [now EXCEPT !.phase = "rejected"]
                        ELSE [now EXCEPT !.challenge = call.answer, !.phase = "ready"],
                  FALSE)
        /\ Send(k, NoCall)
        /\ UNCHANGED <<serverVars, appVars>>

\* The "Reset flow" button: a request in flight goes on.
ResetFlow(slot) ==
    /\ slots[slot] # Empty
    /\ flow[slot].phase # "idle"
    /\ flow' = [flow EXCEPT ![slot] = IdleFlow]
    /\ UNCHANGED <<serverVars, appVars, busy, calls>>

-----------------------------------------------------------------------------
(* ChallengePanel: verifySimulated, verifyWebAuthn.                         *)

\* "seen": what slots[slot] was in the render the click came from.
Verify(k, slot) ==
    /\ Free(k)
    /\ slots[slot] # Empty
    /\ ~busy[slot]
    /\ flow[slot].phase = "ready"
    /\ flow' = [flow EXCEPT ![slot].phase = "verifying", ![slot].challenge = NoChallenge]
    /\ busy' = [busy EXCEPT ![slot] = TRUE]
    /\ Send(k, [kind |-> IF flow[slot].challenge.mode = "WEBAUTHN" THEN "prompt" ELSE "verify",
                slot |-> slot, mounted |-> TRUE, seen |-> Shown(slot),
                challenge |-> flow[slot].challenge, answer |-> Pending])
    /\ UNCHANGED <<serverVars, appVars>>

\* The catch of both, and their finally.  (ReadyAgain: with the button offered
\* again; ForgetBusy: with the finally left out.)
ReadyAgain(call, now) ==
    [now EXCEPT !.phase = "ready", !.challenge = call.challenge]

Rejected(call, now) ==
    [now EXCEPT !.phase = "rejected",
                !.interrupted = @ \/ call.challenge.mode = "WEBAUTHN"]

ForgetBusy(k) ==
    /\ Update(calls[k], Rejected(calls[k], flow[calls[k].slot]), TRUE)
    /\ Send(k, NoCall)

Reject(k) ==
    /\ Update(calls[k], Rejected(calls[k], flow[calls[k].slot]), FALSE)
    /\ Send(k, NoCall)

\* startAuthentication ends: with an assertion, or by its time limit or the
\* user's refusal.
PromptReturns(k) ==
    /\ Open(k, "prompt")
    /\ \/ Reject(k)
       \/ Send(k, [calls[k] EXCEPT !.kind = "verify"]) /\ UNCHANGED panelVars
    /\ UNCHANGED <<serverVars, appVars>>

Refresh(call) ==
    [kind |-> "refresh", slot |-> call.slot, mounted |-> call.mounted,
     decision |-> call.seen, answer |-> Pending]

\* The verdict is shown, and onOutcome fetches the decision of the click.
\* (NotAwaited: with onOutcome not awaited.)
NotAwaited(call) ==
    Update(call, [flow[call.slot] EXCEPT !.verification = call.answer, !.phase = "verified"],
           FALSE)

ShowVerdict(call) ==
    Update(call, [flow[call.slot] EXCEPT !.verification = call.answer, !.phase = "verified"],
           TRUE)

VerifyReturns(k) ==
    /\ Answered(k, "verify")
    /\ IF calls[k].answer = Failed THEN Reject(k)
       ELSE ShowVerdict(calls[k]) /\ Send(k, Refresh(calls[k]))
    /\ UNCHANGED <<serverVars, appVars>>

\* refreshSlot's continuation, then the finally of the verification.
Refreshed(call) ==
    IF call.answer = Failed \/ slots[call.slot] = Empty THEN slots
    ELSE [slots EXCEPT ![call.slot] = call.answer]

RefreshReturns(k) ==
    /\ Answered(k, "refresh")
    /\ slots' = Refreshed(calls[k])
    /\ Update(calls[k], flow[calls[k].slot], FALSE)
    /\ Send(k, NoCall)
    /\ UNCHANGED <<serverVars, submitting, busyHero>>

-----------------------------------------------------------------------------
(* The server and the network.                                              *)

\* Trace events a decision has besides those of the engine: one per challenge
\* issued and one per challenge settled.
BoundTo(d) == {c \in ChallengeIds : boundTo[c] = d}
Settled(d) == {c \in BoundTo(d) : phase[c] \in {"verified", "denied"}}
Events(d) == Cardinality(BoundTo(d)) + Cardinality(Settled(d))

Answer(k, result) ==
    /\ calls' = [calls EXCEPT ![k].answer = result]
    /\ UNCHANGED <<appVars, panelVars>>

PendingCall(k, kind) == Open(k, kind) /\ calls[k].answer = Pending

ServeEvaluate(k, d, f) ==
    /\ PendingCall(k, "evaluate")
    /\ selected[d] = "undecided"
    /\ Decide(d)
    /\ selected' = [selected EXCEPT ![d] = f]
    /\ Answer(k, [decision |-> d, events |-> 0])

\* A challenge is issued for an eligible factor that has an adapter.
ServeCreate(k, c, mode) ==
    /\ PendingCall(k, "create")
    /\ calls[k].factor = "PASSKEY"
    /\ selected[calls[k].decision] = "PASSKEY"
    /\ calls[k].simulated => mode = "SIMULATED"
    /\ Issue(c, calls[k].decision)
    /\ Answer(k, [id |-> c, mode |-> mode])
    /\ UNCHANGED selected

\* simulatedOk verifies a simulated challenge; an assertion may be wrong.
ServeVerify(k, verdict) ==
    /\ PendingCall(k, "verify")
    /\ calls[k].challenge.mode = "SIMULATED" => verdict = "verified"
    /\ Settle(calls[k].challenge.id, verdict)
    /\ Answer(k, [challenge |-> calls[k].challenge.id, verdict |-> verdict])
    /\ UNCHANGED selected

ServeRefresh(k) ==
    /\ PendingCall(k, "refresh")
    /\ outcome[calls[k].decision] # "NONE"
    /\ Answer(k, [decision |-> calls[k].decision, events |-> Events(calls[k].decision)])
    /\ UNCHANGED serverVars

ServeReset(k) ==
    /\ PendingCall(k, "reset")
    /\ Wipe
    /\ Answer(k, "done")
    /\ UNCHANGED selected

\* A refusal of the server, or the loss of a request or of its answer.
Fail(k) ==
    /\ calls[k] # NoCall
    /\ calls[k].kind # "prompt"
    /\ calls[k].answer # Failed
    /\ Answer(k, Failed)
    /\ UNCHANGED serverVars

Serve(k) ==
    \/ \E d \in DecisionIds, f \in Selections : ServeEvaluate(k, d, f)
    \/ \E c \in ChallengeIds, mode \in Modes : ServeCreate(k, c, mode)
    \/ \E verdict \in {"verified", "denied"} : ServeVerify(k, verdict)
    \/ ServeRefresh(k)
    \/ ServeReset(k)
    \/ Fail(k)

Return(k) ==
    \/ EvaluateReturns(k)
    \/ ResetReturns(k)
    \/ CreateReturns(k)
    \/ PromptReturns(k)
    \/ VerifyReturns(k)
    \/ RefreshReturns(k)

Next ==
    \/ \E k \in CallIds : RunHero(k) \/ HandleReset(k)
    \/ \E k \in CallIds, slot \in Slots :
          \/ SubmitForm(k, slot)
          \/ Continue(k, slot)
          \/ TryBlocked(k, slot)
          \/ Fallback(k, slot)
          \/ Verify(k, slot)
    \/ \E slot \in Slots : ResetFlow(slot)
    \/ \E k \in CallIds : Serve(k) \/ Return(k)

\* The server, the network and the authenticator end everything some time, and
\* the browser delivers it.
Fairness == \A k \in CallIds : WF_vars(Serve(k)) /\ WF_vars(Return(k))

Spec == Init /\ [][Next]_vars /\ Fairness

-----------------------------------------------------------------------------
(* Properties.                                                              *)

\* Every variable has its type, a slot shows decided transactions only, a flow
\* has what its phase needs, and an empty slot has no panel.
TypeOK ==
    /\ phase \in [ChallengeIds -> Phases]
    /\ boundTo \in [ChallengeIds -> DecisionIds \cup {NoDecision}]
    /\ outcome \in [DecisionIds -> {"NONE", "PENDING", "AUTHORIZED", "DENIED"}]
    /\ selected \in [DecisionIds -> Selections \cup {"undecided"}]
    /\ slots \in [Slots -> View \cup {Empty}]
    /\ submitting \in BOOLEAN /\ busyHero \in BOOLEAN
    /\ flow \in [Slots -> Flow]
    /\ busy \in [Slots -> BOOLEAN]
    /\ calls \in [CallIds -> Call \cup {NoCall}]
    /\ \A s \in Slots :
          /\ slots[s] # Empty => selected[Shown(s)] \in Selections
          /\ flow[s].phase = "ready" => flow[s].challenge # NoChallenge
          /\ flow[s].phase = "verified" => flow[s].verification # NoVerdict
          /\ slots[s] = Empty => flow[s] = IdleFlow /\ ~busy[s]

\* The requests of the panel that a slot shows.
OfPanel(s) == {k \in CallIds : /\ calls[k] # NoCall
                               /\ calls[k].kind \notin {"evaluate", "reset"}
                               /\ calls[k].mounted
                               /\ calls[k].slot = s}

\* A panel says it is busy exactly while one request of its own is under way,
\* and never has two, whatever is reset or evaluated meanwhile.
BusyIsTruthful ==
    \A s \in Slots : Cardinality(OfPanel(s)) = IF busy[s] THEN 1 ELSE 0

\* A scenario's button is disabled exactly while one scenario is in flight.
OneHeroAtATime ==
    Cardinality({k \in CallIds : Open(k, "evaluate") /\ calls[k].hero})
      = IF busyHero THEN 1 ELSE 0

\* The transaction status a panel at rest shows of its decision is the one in
\* the database, however many challenges it took and answers got lost.
ShownStatusIsCurrent ==
    \A s \in Slots :
        LET shown == flow[s].verification
        IN  ( /\ flow[s].phase = "verified"
              /\ ~busy[s]
              /\ boundTo[shown.challenge] = Shown(s) )
            => outcome[Shown(s)] =
                  IF shown.verdict = "verified" THEN "AUTHORIZED" ELSE "DENIED"

\* The browser asks for the verification of a challenge at most once, answers
\* lost included: none it asks for has been settled before.
NeverVerifiedTwice ==
    \A k \in CallIds :
        PendingCall(k, "verify") \/ Open(k, "prompt") =>
            phase[calls[k].challenge.id] \in {"open", "wiped"}

\* As long as a slot shows one decision, its trace never loses events.
ShownTraceNeverShrinks ==
    [][\A s \in Slots :
          ( /\ slots[s] # Empty
            /\ slots'[s] # Empty
            /\ slots[s].decision = slots'[s].decision )
          => slots[s].events <= slots'[s].events]_vars

\* A scenario button does not stay disabled.
HeroSettles == busyHero ~> ~busyHero

\* Nor do the buttons of a panel.
PanelSettles == \A s \in Slots : busy[s] ~> ~busy[s]

\* App.tsx: a refresh is for "challenge outcome trace events".  It never puts
\* another decision into the slot.
RefreshKeepsDecision ==
    [][\A k \in CallIds :
          RefreshReturns(k) =>
             \A s \in Slots : slots[s] # Empty => slots'[s].decision = Shown(s)]_vars

=============================================================================
