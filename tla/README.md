# A TLA+ model of the threat-aware MFA service

This directory is a verification development of the repository beside it: TLA+
modules for the parts of the service that keep state or decide something, TLC
configurations that check them on small instances, and proofs of what matters
most for every size. The code is the reference throughout; where a document or
comment says something else, *Findings* names the difference.

## The system

An Express server over one SQLite file (`apps/api`), a pure decision engine
(`packages/decision-core`) with declarative policies
(`packages/policy-bundles`), shared zod contracts (`packages/contracts`) and a
React client (`apps/web`).

| Part | State | Operations |
|---|---|---|
| Decision service, `decisionService.ts` | `devices`, `sessions`, `transactions`, `decisions` and their children | `createDecision`: collect evidence, evaluate, persist |
| Decision engine, `decision-core` | none | `evaluateDecision`: evidence → risk, threats → trust → factors → selection → trace |
| Policies, `v1.ts`, `seed.ts` | `policy_bundles` (immutable) | lookup of the active bundle or of a version |
| Challenge service, `challengeService.ts` | `challenges`, `trace_events`, `transactions.status` | `createChallenge`, `verifyChallenge` |
| Passkeys, `webauthnService.ts` | `passkey_registrations`, `passkey_credentials`, `user_capabilities` | begin and complete a registration; begin and verify an authentication (inside the PASSKEY adapter) |
| Replay service, `replayService.ts` | `replays`, `replay_changes`, `decision_diffs` | `createReplay` EXACT or FORK, diff of source and product |
| Remediation, `remediationService.ts`, `verifyRemediation.ts` | `verified_remediations` | `verify` a factor: search for changes that make it eligible |
| Demo reset, `demoRoutes.ts` | — | empties the case tables in one transaction |
| Start of a process, `server.ts`, `migrate.ts`, `db/` | `schema_migrations`, `policy_bundles` | open the file, apply what is not applied, seed what is missing |
| HTTP shell, `app.ts`, `middleware/` | one rate limiter | routing, validation, error envelopes |
| Web client, `App.tsx`, `ChallengePanel.tsx`, `PasskeyPanel.tsx` | two slots, a challenge flow | fetch, refresh, reset |

The parts share the database and nothing else. The decision service writes what
the challenge service enforces (the status of every factor) and what replay and
remediation start from (evidence and failed requirements). A completed
registration switches a capability on that later decisions, replays and
remediations read. In the server nobody calls back and nobody sends messages:
the hard behaviour is **requests that overlap at an `await`**. Node.js runs a handler in
one piece up to an `await` and in one piece after it. `createChallenge`,
`verifyChallenge`, `beginRegistration` and `completeRegistration` have one
`await` each; every SQLite transaction lies inside one piece. Between the
pieces of one request any other request may run: a second verification of the
same challenge, a reset of all the tables, a registration of the same
authenticator. On top of that lifetimes run out, the process may stop, and the
world changes between a decision and its replay. The browser is the second
place where things overlap: every handler of the client awaits a request, whose
answer may come late, after another one's, or never. The third is the start: a
server and a `db:migrate`, or two servers, may work on one database file.

What makes each part correct:

* *Challenges*: settled at most once; the step that settles one sets the
  transaction's outcome and appends one event; authorized only through a
  verified challenge of that very decision, for a factor it holds eligible,
  answered in time; no rows of a decision that is gone.
* *Passkeys*: one credential per consumed ceremony, for the ceremony's user;
  capability and credential table agree; nothing replaced or re-opened.
* *Decisions and replays*: an exact replay tells the story of its source; a
  replay under the candidate policy can only restrict; one alarm more never
  opens a factor (1.0.0); SMS codes stay out after a SIM change.
* *Rule trace and diffs*: the trace alone tells what the decision's tables say;
  a section of a diff has changes only if something it is derived from changed.
* *Start*: every migration runs once, whole and in order; a server listens on a
  complete database only; after whatever went wrong, a start by itself works.
* *Remediation*: what it claims, a fork delivers; it asks for no more than is
  needed, unless all it asks for has been enabled since the decision.
* *Web client*: buttons tell the truth about requests in flight and come back; a
  challenge is verified once; what a panel says of a transaction is what the
  database holds.

The hazards behind these are listed in `PROJECT.json` line by line.

## The modules

| Module | Models | State ↔ code |
|---|---|---|
| `Passkeys` | registration ceremonies | `registrations`, `credentials` ↔ tables of `003_webauthn.sql`; `enrolled` ↔ the `PASSKEY_ENROLLED` rows; `regCall` ↔ what a handler remembers over its `await` |
| `Challenges` (extends `Passkeys`) | the challenge service and PASSKEY authentication | `decisions`, `status`, `trace`, `challenges` ↔ tables of `001_core.sql`; `createCall`, `verifyCall` ↔ handlers at their `await`; `drawn` ↔ `newId` repeats none |
| `OneTimeChallenge` | the abstract promise of the challenge service | a phase, an owner and an outcome; no handlers, tables or time |
| `PolicyV1` | the bundles 1.0.0 and 1.1.0 | constants of `v1.ts` |
| `DecisionCore` | the engine over any bundle of that shape | pure operators, one per function |
| `RuleTrace` (extends `DecisionCore`) | `buildTrace.ts`, `diffDecisions.ts` | pure operators: the events of each phase, the keys each section compares |
| `Remediation` (extends `DecisionCore`) | `verifyRemediation.ts` | pure operators |
| `Decisions` (extends the four above) | createDecision, createReplay, remediation, enrolment, reset | `decisions`, `replays`, `remediations`, `firstSeenAt`, `capabilities` ↔ tables |
| `WebClient` (extends `OneTimeChallenge`) | `App.tsx`, `ChallengePanel.tsx` | `slots`, `submitting`, `busyHero`, `flow`, `busy` ↔ React state; `calls` ↔ requests in flight |
| `Startup` | `server.ts`, `migrate.ts`, `connection.ts`, `seed.ts` | `db` ↔ what is committed of `schema_migrations`, the files' effects and `policy_bundles`; `writer` ↔ SQLite's write lock; `pc`, `passed`, `snapshot` ↔ where a process is, its list of applied files, what its seed transaction reads |
| `PasskeysProofs`, `ChallengesProofs`, `ChallengeLedgerProofs`, `StartupProofs`, `DecisionsProofs`, `DecisionClaimsProofs`, `WebClientProofs`, `WebClientKnowledgeProofs` | — | theorems |
| `MCChallenges`, `MCStartup`, `MCDecisions`, `MCWebClient` | — | instances for TLC |

One action stands for one piece of a handler: `StartVerify` is everything
`verifyChallenge` does before `await adapter.verifyChallenge`, `FinishVerify`
the transaction after it, `RefuseVerify` its roll-back. A request that is
refused before the `await` changes nothing and is no action. Requests in flight
sit in *slots* (`CreateCalls`, ...); a stop of the process (`Crash`) empties
the slots and leaves the tables. Handlers without `await` (decisions, replays,
remediation, reset) are one action each. A starting process has no `await`
either, but shares the file with other processes: in `Startup` an action is a
statement or what one transaction does under the lock.

The client composes with the *promise* of the challenge service rather than
with `Challenges` itself: `WebClient` moves the variables of `OneTimeChallenge`
by its own actions and keeps within it (`BrowserMeetsPromise`, proved in
`WebClientProofs`), and the refinement `PromiseKept`, proved in
`ChallengesProofs`, says that the server does no more than that either. A handler of
the client is one action per piece between awaits; a panel that is unmounted
lets its requests go on without effect; `seen` in a verification is the slot as
its click saw it, which the code keeps in a closure.

Abstractions worth knowing:

* Time is a clock that counts in steps the lifetimes can tell apart; a row's
  timestamps are clock values. Both lifetimes are five minutes in the code and
  are one constant, `Ttl`.
* A decision and its transaction are inserted and deleted together and are one
  to one, so both go by the decision's id.
* In `Challenges` the engine is replaced by the set `FactorMaps` of factor
  statuses it may persist; in `Decisions` it is `DecisionCore` itself.
* The WebAuthn library is external: an assertion holds if it was made for the
  challenge and origin at hand with a counter that advanced.
* Evidence values are "true", "null" and "false", which stands for all others;
  every rule of both bundles asks for `EQ true`. An item's position stands for
  its id and its provider.
* `using` in a stored decision and remediation is a history variable: the
  capabilities at that time, which the code does not store.
* In `WebClient` a request that the browser gives up (`Fail`) has been done by
  then or is never done. Banner, health, form and session fields are left out.
  PASSKEY is the only factor with an adapter, and eligible only if selected,
  because it is first in the order of both bundles.
* A panel's challenge and verdict are kept in the phases whose buttons and texts
  use them; the code leaves them in place where nothing reads them.
* The mock providers answer false always, so they are constants.
* SQLite is external: one writer at a time, a transaction is seen when it commits
  and lost when its process stops; one that begins with a write waits for the
  lock up to the busy timeout (`GiveUp`), one that has read before fails at once
  if somebody writes or has written (`FailInsert`). A migration file goes by its
  position in the sorted names and fails if its statements were executed before,
  as `CREATE TABLE` and the inserts of seed rows do. What a listening server
  writes later, to other tables, is left out.
* In `RuleTrace` a phase of the trace is a set of events, in which a rule goes by
  its record; order, ids and sequence numbers play no part in a diff. Items of
  evidence are compared by position, type, value and status; the two items of a
  type that can occur twice have different providers, which the code compares.

Each module also holds *variants* of some operators (named in the comment above
the original): the plausible bug a property is measured against. They take no
part in the specification.

## The runs

| Run | Question | Bounds |
|---|---|---|
| `challenges` | safety of the challenge service, refinement of `OneTimeChallenge` | 2 decisions, 2 challenges, 2 creations and 2 verifications at once, clock to 2 with lifetime 1, restarts |
| `challenges_passkey` | safety of registration, real ceremonies and their owners | 2 users, 2 credentials, 2 ceremonies, 2 registrations at once with 1 creation and 1 verification, 1 challenge, clock to 2 with lifetime 1, restarts |
| `challenges_live` | an answered challenge settles, a valid completion too | 1 decision, 1 challenge, 2 verifications and 2 registrations at once, 2 ceremonies for 1 authenticator, clock to the expiry, no restarts |
| `startup` | migrations and seed by several processes | 2 servers and the migration script, 3 files, 2 bundles, a new database or one with 1 file and 1 bundle, stops anywhere |
| `decisions` | the engine over all alarms, replays and forks; its trace and diffs | 64 combinations of overrides and payment data on a new or a known device, one replay with each single-alarm fork |
| `remediation` | claims of remediation and forks that try them; exact replays over time | 3 decisions, 2 replays, 1 claim about any factor, two points in time with a SIM window of one, enrolments, resets |
| `web_client` | the two slots, their panels and several challenges | 2 decisions, 2 challenges, 2 requests in flight |
| `web_live` | buttons come back | 1 decision, 1 challenge, 2 requests in flight |
| `counter`, `exact_replay`, `remediation_primary`, `web_stale_refresh` | see *Findings* | |

Two of a kind are enough where a property is about a pair: two verifications
race for a challenge, two challenges for a transaction, two registrations for an
authenticator; a third adds no new kind of order because every property speaks
of one row and the rows it refers to. A lifetime of 1 and a clock to 2 reaches
"before", "exactly at" and "after" the expiry. In `decisions` the inputs are
exhaustive for the alarms that requests can raise, and a fork changes one alarm
at a time, which is what `AlarmOnlyRestricts` is about. In `startup` two
processes contend while a third starts or stops; three files, as many as the
code has, are a first, a middle and a last. Ids and request slots
are interchangeable; the runs with liveness properties use no symmetry.

Deadlock is not an error in these models: the bounded instances run out of ids
and ticks, and a server without requests rests.

**Fairness.** In `Startup` a process that is running goes on (the operating system
schedules it); nobody has to start one, and it may be stopped at any point. In
the service: weak fairness of the second piece of every handler: the event loop
runs a continuation whose promise has settled. Nothing else is fair: no client
has to send anything, time need not pass, and the process may stop, which is why
the liveness runs exclude restarts (a handler that is lost is not resumed). In
`WebClient` the server and the network end every request and the browser
delivers the result: `fetch` resolves or rejects some time (a lost server closes
the connection), and an authenticator's prompt has a time limit in its options.
No click is fair.

**Liveness.** `VerificationSettles` and `CompletionSettles` say that a request
past its checks ends in a settled challenge or a consumed ceremony although
others interfere, and although the lifetime runs out in between: the code does
not check it a second time. `HeroSettles` and `PanelSettles` say that no failure
leaves a button disabled. `LoneStartSucceeds`: whatever crashes and races were
before, a process that is started while nobody else is starting gets through,
unless it is stopped or joined.

## What is proved

Every safety invariant and every action property that a passing run checks is
also a theorem, for every value of the constants that satisfies the modules'
assumptions (ids of different kinds are distinct, "no row" is no row, lifetimes
are positive, inputs are well-typed). `PROJECT.json` lists the theorems one by
one. Hardly any of the properties is inductive; what follows is what had to be
added, and why.

**Registrations** (`PasskeysProofs`): `RegistrationSafe`,
`RegistrationsStayFinal`, `OneCredentialPerCeremonyAlways`. `PasskeyInv` adds that
a completion at its `await` carries a time before the end of its ceremony's
lifetime (`CompletionsInTime`) and that nothing was begun in the future; without
the first, a commit after the `await` could store a credential that
`CredentialHasCeremony` refuses. The counting theorem needs no bound on the ids:
that both sets are finite is part of the invariant.

**The challenge service** (`ChallengesProofs`): `TypeCorrect`, `NothingOrphaned`,
`EligibilityEnforced`, `TracesHaveNoGaps`, `AuthorizationEarned`,
`StatusAndTraceAgree`, `SettledStaysFinal`, and `RegistrationSafeInServer`, which
carries the safety of registrations over to the server in which they are one
part (`NextIsPasskeyStep`: a step of the server is a step of `Passkeys` or leaves
its tables alone). `Inv` adds what creations and verifications carry over their
`await` (`CreationsSound`, `VerificationsSound`) and that all rows have drawn ids
(`IdsDrawn`: a reset must not make an id look unused). The lemmas
`NextSequenceIsLength`, `AppendKeepsGapless` and `SettlementEffect` hold what
several actions need. `ServiceKeepsPromise`: `Challenges` implements
`OneTimeChallenge`; initial states map to initial states, and every step to a
step or a stutter.

**Owners and the ledger** (`ChallengeLedgerProofs`): `AcceptedCredentialsOwned` and
`RealCeremoniesAnswerable` need that a *creation* at its `await` that chose the
real ceremony did so for a user who owns a credential (`CreationsOwned`); that it
still holds after the `await`, resets included, is because credentials are never
taken away. `LedgerIsExact` says that events and challenges match in number; its
invariant says so per code, for finite sets (`Matching`): an appended event has a
number above all others of its decision, so the sets grow by one together
(`AppendAddsOneEvent`).

**The start** (`StartupProofs`): `StartupTypeCorrect`, `MigrationsRunExactlyOnce`,
`ServersAreComplete` and `DatabaseGrowsInOrder`, for any number of processes,
files and bundles and any sound database to begin with (`StartupAssumption`). A
process works on a list of names that others may outdate, so the inductive
invariant says what the list is still worth: what a process has passed is
applied (`PassedIsApplied`), its next file exists while it applies one
(`ApplyingHasFile`), and whoever seeds or is ready has passed all files, over a
table that exists (`SeedingIsLast`, `ReadyIsComplete`, `TrackedFirst`). That two
processes do not execute one file twice then rests on the failing statement
(`Executes`) and on the roll-back.

**Decisions** (`DecisionsProofs`): `SmsStaysClosed`, `TracesTellOutcomes`,
`SelectionsAreBest` (the selected factor is eligible and first among the eligible
ones, which no run checks) and `ExactReplaysAgree`. `Inv` says that a decision's
outcome is the engine's of its own evidence, capabilities and version
(`DecisionsSound`), and that a replay's sections are the diff of the two decisions
it names, with the evidence it should have (`ReplaysSound`). These lemmas about
the engine hold of any evidence. `SmsBelowRisk` and `BundleOfVersion` use the two
policies, `SelectionIsBest` that the tie-breaker tells the factors apart
(`TieRanks`); the others hold under any bundle.

**What replays, diffs and remediations claim** (`DecisionClaimsProofs`) depends on
what evidence can be, and that on the folds that collect and override it.
`OverridesFold` gives a fold as a function on sets of positions, along which
`SetInduction` shows that a list of evidence is never empty and that only a SIM
change expires (`SoundEvidence`). `ClaimsInv` adds that to `Inv`, with how each
replay was made (`ReplaysMade`) and that each remediation is what `Remediation`
says of its decision (`ClaimsSound`). From it follow, for any evidence, forks and
times:

* `DecisionTypeCorrect`.
* `CandidateRestricts`: the bundles differ in one rule, which can degrade the
  integrity of credentials (`CandidateTrust`); 1.0.0 always trusts them, because
  there always is evidence, and SMS_OTP and PIN do not ask for it.
* `RemediationsDeliver`: between the claim and the fork a SIM change may have
  expired. A change to "false" makes the lists of then and now `Alike`: they
  differ only in how current their false items are, which no rule asks for, so
  the outcome is that of the claim.
* `RemediationsMinimal`: a recommendation merges at most three single changes, so
  a proper part is nothing, one of them or two of them (`PartOfThree`); the search
  has tried the latter before, in order of size, and taken none (`UntestedLeft`,
  `SmallerLeft`). Changing nothing it does not try. If that would do, the
  requirements that failed are capabilities which are on by now (`NothingWouldDo`),
  and the recommendation is one of them; conversely, enabling what is on is
  changing nothing. The theorem has no condition on capabilities and says exactly
  when a recommendation is too large.
* `DiffsFollowCauses`: a section without changes means equal keys, and equal keys
  in the sections it is derived from mean equal keys in it: `ThreatsFromInputs`,
  `TrustFromThreats`, `FactorsFromTrust`, `RiskFromInputs`,
  `SelectionFromFactors`, `TraceFromSections`.
* `AlarmsRestrict`: the alarms that conflict with a threat are severe, that is,
  they raise the risk to HIGH. There SMS_OTP and PIN fall short of the assurance,
  and no rule of 1.0.0 takes the trust that PASSKEY and TOTP ask for
  (`SevereAlarm`, `StrongFactorsTrusted`). Any other alarm can only strengthen
  threats (`SupportGrows`) and lower trust (`TrustFalls`).

**Panels** (`WebClientProofs`): `TypeCorrect`, `PanelsAreTruthful` and
`HeroesAreSingle`. `PanelsIInv` counts the requests behind a button (`OneIf`: one
if it is busy, else none), and says that what requests carry was decided by the
server (`CallsDecided`) and that its tables agree (`PromiseInv`). `BrowserMeetsPromise`:
with the types of requests, every step is one of `OneTimeChallenge` or a stutter.

**What panels know** (`WebClientKnowledgeProofs`): `VerifiedAtMostOnce`,
`StatusIsCurrent` and `TracesOnlyGrow`. These are about answers on their way, so
the invariant is about ownership: a challenge that can still be settled has one
holder, a panel or a request (`HoldersInv`), and a decision is known to one panel
and its request, or to one request (`Exclusive`). So nobody else can settle a
challenge of a decision that a panel shows, and the verdicts that are shown or on
their way tell its status (`VerdictsInv`). `TraceInv` adds that a refresh brings
no fewer events than its panel shows. Every step of the browser lets knowledge be
forgotten, hands it down from a request to a panel or up to a new one.

Only model-checked: `VerificationSettles`, `CompletionSettles`,
`LoneStartSucceeds`, `HeroSettles` and `PanelSettles`, because liveness under
fairness is beyond the prover; and the four runs with a violation, whose
properties do not hold.

## Findings

Where the code does something else than its documentation says:

* `counter`: a verified passkey challenge leaves the stored signature counter as
  it was (`challengeService.ts:184`); comments and README say it advances.
* `exact_replay`: an EXACT replay reads today's capabilities
  (`replayService.ts:81`), so after an enrolment it is not identical.
* `remediation_primary`: a threat that rests on its primary evidence alone is
  not remedied (`verifyRemediation.ts:118`), which its header promises.
* `web_stale_refresh`: the refresh after a verification writes the decision of
  the click into the slot, whatever it shows by then (`App.tsx:126`).

`ExactReplayAgrees`, `RemediationDelivers` and `MinimalUnlessEnabledSince` state
what does hold in the cases of replay and remediation, `ShownStatusIsCurrent` in that of the panels.

Seen while modelling, and part of the models as the code has it, but without a
run of their own:

* Remediation takes the failed requirements from the stored decision and the
  capabilities of today (`remediationService.ts:62`), while `verifyRemediation.ts:50`
  calls them "Source decision capabilities (the replay base)" and its header says
  that "only the minimal verified change sets are returned" (line 23). After an
  enrolment it recommends to enable `PASSKEY_ENROLLED`, which is on: the empty
  change would do. `MinimalUnlessEnabledSince` says that this happens, and only
  this; the `remediation` run reaches it.
* A MODERATE threat applies DISTRUST where the rule says so
  (`assessTrust.ts:67`); `THREAT_MODEL.md:12` says it degrades.
* Registered passkeys survive a demo reset (`demoRoutes.ts:30`), which
  `demo-script.md:97` says it clears.
* A ceremony the server denies puts the panel into the phase "verified"
  (`ChallengePanel.tsx:97`); `types.ts:29` says a failure is "rejected".
* A panel keeps its flow when its slot gets another decision (`App.tsx:214`), so
  "Challenge verified" may stand over a decision that has no challenge.
* Two processes that start together on a new database can both end with an
  error (`connection.ts:46`, `seed.ts:28`): one begins a file that the other has
  just applied, whose inserts take the lock and then fail on the rows that are
  there; meanwhile the other's seed, which has read before it writes, is refused.
  The next start succeeds.
* The event of a threat that rests on its primary evidence alone has no input
  references (`buildTrace.ts:83`), so that the link from evidence to threat,
  which `buildTrace.ts:11` says can be reconstructed, is in the policy's rules
  only. `TraceTellsOutcome` states what the events do tell.
* Capabilities a fork switches on or off show up in no INPUT section
  (`diffDecisions.ts:161`); a fork of a capability that no factor is short of has
  an empty diff.
* A second registration of one authenticator violates the primary key, whose
  error code is not the one the handler looks for (`webauthnService.ts:233`): the
  client gets an internal error instead of "already registered".
* An evaluation that answers after a reset shows a decision the database has
  lost (`App.tsx:57`).

## Not modelled, and why

* Zod validation, error envelopes, correlation ids, health, CORS: no state.
* The canonical hash and validation of bundles: pure, and bundles never change
  after the seed.
* Evidence values and payments beyond what rules tell apart; wording of reasons.
* The providers' real counterparts: the repository has only mocks.
* The legacy `mockSignalProvider.ts` and `evidenceRepository.ts`: no callers.
* Presentation in the web client, the requests of its passkey, replay and factor
  panels, demo data, the smoke script.

* The order in which a reset empties the tables: its statements run in one
  transaction without an `await`, so `Reset` is one step.

## Plan

In order of importance; the first three blocks are done.

1. `Passkeys`, `Challenges`, `OneTimeChallenge`, their runs and proofs;
   `DecisionCore`, `PolicyV1`, `Remediation`, `Decisions` and their runs;
   `WebClient` and its runs.
2. `Startup`, its run and proofs; `RuleTrace`, with the trace and the sections of
   the diff in `Decisions`; the first proofs about `Decisions`.
3. Proofs of all safety and action properties of the passing runs.
4. `Server`: `Challenges` with `PersistDecision` refined by the engine, so that
   policies, adapters and replays are checked together.
5. `WebClient`: the other panels (late remediation answers and their
   cancellation, replays, registrations), requests the server still works on
   after the browser has given them up.
