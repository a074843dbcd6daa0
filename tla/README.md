# PyInterviewBot in TLA+

PyInterviewBot interviews candidates over the phone and in the browser. A Rust
gateway receives HTTP requests, WebSocket connections and provider webhooks,
stores calls and scheduled actions in SQLite, and asks Twilio or Vapi to place
calls; a Rust voice runtime manages speech sessions; a Python service conducts
the interviews, deploys interview workflows and writes reports; a TypeScript
page is the candidate's client. This directory models the parts with state that
several actors change, model-checks them with TLC and proves some of their
invariants with TLAPS.

Paths below are relative to the repository; `PROJECT.json` gives, for each
definition, the lines it was translated from.

## 1. Inventory

| Component | Source | State | Operations |
|---|---|---|---|
| Call lifecycle | `interview-domain/src/call.rs`, `path_to` in `gateway/src/calls.rs` | one call session: state, version, last sequence, link | `transition`, `apply`, `link_provider_call`, `path_to` |
| Canonical call store | `gateway/src/calls.rs` (`CallWorkflow`) | tables `calls`, `call_transitions`, `call_events`, `unmatched_call_events`, behind one mutex | begin, register inbound, link and replay, apply state, purge |
| Call API and callbacks | `gateway/src/calls.rs`, `twilio.rs`, `native_voice.rs`, `main.rs` | in-flight handlers; the provider's phones | `POST /calls`, `POST /calls/{id}/end`, status webhooks, inbound webhook, start-up purges |
| Scheduler | `gateway/src/scheduler.rs` | table of actions with status, attempts, claim time | insert, cancel, claim due, dispatch, finish |
| Reminders | `gateway/src/reminders.rs` | none of its own; rows of the scheduler's table, each under a key | plan and insert what one request asks for |
| Browser interview | `gateway/src/ws_handler.rs`, `state_machine.rs`, `session.rs`, `vad.rs` | interview state machine, utterance buffers, session | one loop per socket: speak, listen, transcribe, ask the agent, recover |
| Twilio turns and messages | `gateway/src/twilio.rs` | none of its own; sessions of the AI service | TwiML turns, inbound and outbound messages |
| Twilio media stream | `media_socket` in `gateway/src/twilio.rs`, `vad.rs` | per socket: turn detector, utterance, what is played | play, barge-in, capture, transcribe, post, mu-law coding |
| Calendar, audit, AI client | `gateway/src/calendar.rs`, `audit.rs`, `ai_client.rs` | token cache; an append-only table | single HTTP requests |
| Voice runtime | `voice-runtime/src/runtime.rs`, `state.rs` | sessions with state, audio count, activity time; a capacity | start, speak, interrupt, send audio, poll, end, sweep |
| Speech studio | `voice-runtime/src/studio.rs`, `neural.rs` | table of sessions; per session the flags closed, cancelled, speaking and a recording | speak, interrupt, record, end, sweep |
| Managed calls | `voice-runtime/src/managed_call.rs`, `gateway/src/native_voice.rs` | session map with event queues, window of 4096 seen events | start, end, webhook, drain |
| Event dedup | `interview-domain/src/lib.rs` | seen set and states of channel sessions | accept an event once |
| Workflow lifecycle | `ai-service/.../workflow_*.py` | versions, deployments, approvals, test runs, routes | draft, test, approve, deploy, promote, roll back |
| AI interview sessions | `ai-service/.../main.py`, `agent.py`, `db.py`, `channels.py` | one row and transcript per session; the session of a candidate and channel; the reply to each event | start or resume, turn, complete, expire |
| Reports, documents, compliance | `ai-service/.../report*.py`, `documents.py`, `compliance.py` | derived data | transformations |
| Auth, rate limiting | `ai-service/.../auth*.py`, `rate_limit.py` | window of request times per client | check |
| Speech and model providers | `ai-service/.../providers/`, `asr.py`, `tts.py`, `llm.py` | none | requests with retries |
| Candidate client | `candidate-client/src/*.ts` | page state | user interface |

**How they interact.** Every call, whatever the provider, is one row of the call
store. `POST /calls` stores the row, awaits the provider, then links the row to
the id the provider gave. The provider reports what happens to the phone by
webhooks, at any time: before the link, late, twice, out of order. A report is
turned into a target state; `path_to` plans the legal transitions to it and the
store applies them. The scheduler polls its own table, into which reminders are
inserted, and calls the AI service;
the browser loop, the media stream and the Twilio turns call the AI service for
every turn, the last two through `channels.py`, which maps a candidate to a
session and an event to its reply; the AI service reads the workflow a session
was routed to. The webhook of managed calls feeds both the queue of its session
and the call store.

**What is hard.** State read before an await and used after it (`end_call`,
`fail_call`, the dialling handler); webhooks that race the handler they are
about; a transaction that replays a list of stored events; a process that dies
between storing, dialling and linking; a provider client that repeats a request
whose answer was lost; a scheduler claim that goes stale while its action is
still running; deployments that change under a routed session; a table of
sessions whose size is read, let go of and then relied on; flags of one speech
that several requests raise and lower one at a time; a webhook that is delivered
twice at once to a service that looks it up, takes a turn and only then records
it. `PROJECT.json`
lists each at its line.

**What makes each part correct.**

- lifecycle: plans are legal, shortest and skip no state; the search ends;
- store: the row and its transition log agree; an ended call stays ended; an
  event counts once; a provider call and an idempotency key belong to one call;
- API: a key dials once; nothing the provider said is lost or given to another
  call; an end that is recorded takes effect; a finished phone finishes its call;
- scheduler: an action is in one worker's hands; an outcome is final; it is
  performed again only after a failure; every action is settled;
- browser interview: handler and state machine agree; audio of one turn is never
  taken for another's, nor its start cut off; after a failure the interview goes
  on or the candidate is told;
- reminders: one action per reminder, however requests overlap or are repeated;
- media stream: no end of a turn is overheard, no audio left for another turn,
  the candidate's turn comes;
- voice runtime: capacity is respected and given back; the audio that was counted
  is what the provider took; no session is left running at the provider, or stuck
  speaking;
- studio: what was cut is not heard, what was not cut is not withdrawn;
- managed calls: an event counts once while the window holds it; none is lost on
  the way to the call store; no phone is forgotten;
- channel interviews: an event has one answer and is one turn; a candidate has
  one session; the transcript stays in order;
- workflows: production runs only what was tested and approved; a rollback
  restores a version that was in production.

## 2. Plan

In order of importance; each module composes or refines the ones above it.

1. `CallLifecycle`, `PathSearch`: the table and the search (done).
2. `CallStore` refining the abstract `CallRegister`; proofs in
   `CallStore_proofs` (done).
3. `ProviderEvents`, `CallGateway`: handlers, callbacks, crash; proofs in
   `CallGateway_proofs`, on top of the store's (done).
4. `Scheduler` and `Scheduler_proofs`: actions, workers, cancellation, stale
   claims, crash (done).
5. `InterviewSession`: the browser loop with its recoveries and the turn
   detector (done).
6. `WorkflowLifecycle` and its routing: versions, deployments, test runs,
   approvals, refining the abstract `ProductionRegister`; proofs in
   `WorkflowLifecycle_proofs` (done).
7. `VoiceRuntime`, `SpeechStudio`, `ManagedCalls`: capacity, flags, window; the
   first two refine the abstract `SessionPool`; proofs in `VoiceRuntime_proofs`
   and `NativeVoice_proofs` (done).
8. `ChannelInterview`: webhooks, sessions, turns, crash; `ChannelInterview_proofs`
   (done).
9. `MediaSocket`, sharing `TurnDetector` with `InterviewSession`: `Interviews` has
   them side by side, with `Interviews_proofs`; `MediaCodec`; `Reminders` on top of `Scheduler`, its theorems in
   `Scheduler_proofs` (done).
10. Every safety property that a run checks as a theorem (done, but for the search
   for a plan, which TLC explores completely: end of section 5).
11. What is left of the small parts: the rate limiter's window, the capabilities
   of the provider registry.

## 3. Modules

`CallLifecycle` (constant level). `Transition` is the `match` of
`CallState::transition`; `Hops` is the same table as a set. `PathTo` is what
`path_to` returns, stated declaratively as a shortest chain of hops;
`TakesExactly` and `Advance` are `CallSession::apply` along a plan, each step
with its own sequence number.

`PathSearch`. `path_to` as it runs: queue, seen list, one step per transition
tried. Its properties compare it with `PathTo`.

`CallStore`. One variable per table. A method of `CallWorkflow` holds the
connection mutex for its one transaction, so it is one action, with every table
it writes; `link_provider_call` is a begin, one step per replayed event and a
commit or rollback, with the transaction as the variable `txn`; every other
action needs `Unlocked`. A method that fails or finds nothing to do stutters.
`ApplyState` keeps the difference between what is logged (every step that
succeeds) and what is stored (the row, only if all succeed), because the code
has it; that the two never come apart is a theorem.

`CallRegister`. The abstract promise of the store: a call has a status that
moves along the lifecycle, events it has handled, at most one owner per provider
call. `CallStore` implements it (`ImplementsRegister`).

`ProviderEvents`. What Twilio and Vapi can report and the target and sequence
the gateway gives each.

`CallGateway`. An INSTANCE of the store plus handlers with program counters that
stand at their awaits, the provider's phones (external), callbacks in flight,
and crash, purge and restart. `MCCallGateway` and `MCCallStore` give TLC its
instances; `MCCallStore` holds the search beside the store.

Several MC modules hold more than one component side by side. A variable `scene`,
which never changes, says which of them runs; the others stay as they began.

`Scheduler`. The table of actions and one worker per gateway process, since two
gateways share the file while one replaces the other. `Requeue` and `Claim` are
the two statements of `claim_due` (its SELECT and UPDATEs are one transaction);
`Dispatch` is the provider's answer, which may be an error although the provider
performed the action; `FinishSent`, or `FinishRead` and `FinishError`, are
`finish`, which reads the row and updates it in two statements and never looks
at the status; `ClaimFails` and `FinishFails` are the errors the worker logs or
ignores. Statements take no time and a dispatch takes at most `DispatchTime`,
the clients' HTTP timeouts. Time is relative: a row keeps how long it is overdue
and how long ago it was claimed, so the clock needs no bound. `performed` (at
the provider) and `lost` (outcomes that were never recorded) are history.

`Reminders` extends `Scheduler` with the requests of `POST /reminders`: `Ahead`
and `Planned` are `plan_reminders`, the offsets that are not past and the list of
reminders made of them; `InsertNext` is one round of the handler's loop, which
either inserts an action or finds the one that has the key, whatever became of
it. A request takes no time, but other requests, the workers and a crash of the
gateway that serves it come between its inserts. `Schedule` is everything else
that happens to the table, inserts without a key included. `MCScheduler` has
three scenes: the scheduler of two gateways, requests for reminders one after
another, and requests that overlap.

`TurnDetector` (constant level). `Heard` is `push_pcm16_capturing` over a message
of frames, with the pre-roll ring, `Observed` is `push_pcm16` inside it, frame by
frame, and `Observe` is `observe_frame`. Audio is whole frames: what `ResetTurn`
leaves in the code, the rest of a frame in `frame_buf` and `leftover_byte` (less than
16 ms), is not there, and no property depends on it.

`InterviewSession`. `handle_socket` with `speak`, `listen_for_turn` and
`speak_recovery` as program counters, every return path with the events it
applies to the state machine. `illegal`
remembers that `apply` met an illegal transition, `goodbye` how the candidate
learned of the end.

`WorkflowLifecycle`. One workflow with its tables of versions, deployments, test
runs and approvals. Each mutating operation of `workflow_store.py` and
`workflow_lifecycle.py` runs in one `BEGIN IMMEDIATE` transaction, so it is one
action; the checks it makes inside the transaction are `ProductionChecks` and its
parts, one operator per Python function. A row is named by its place in its
table, which is what `created_at` orders and foreign keys point to. An operation
that raises, or answers with the row an idempotency key already names, stutters.
`RouteCheck`, `RouteFind` and `RoutePin` are the reads with which `start_session`
resolves a route, each in a connection of its own, and the insert of the session;
they interleave with everything else. What a draft says is a member of
`Contents`, and `Sound` are the contents that the mandatory suites accept: a test
run of anything else fails, a run of a sound one may fail too (its pinned
template may have moved on). The production binding comes from the process's
environment, so `Restart` may change it. Names, owners, roles and the audit
table are left out.

`MediaSocket`. `media_socket`: the handler of one telephone stream. `DecodeMedia`
names the one event of a message that it acts on, `AfterPlaying` what follows a
text. What arrives while it awaits the AI service stays in the socket. `Interviews`
has the browser's interview and, as an instance with constants of its own, the
telephone's; which of the two runs is its `scene`. The assumptions under which the
turn detector serves them are stated there.

`MediaCodec`. `linear_to_ulaw` and `ulaw_to_linear` on single samples, with the
bit operations as arithmetic.

`ChannelInterview`. One candidate on one channel: `bound` is the row of
`channel_sessions`, `recorded` the table of replies, `rows`, `turns`, `complete` and
`transcript` the sessions. A webhook request of the gateway becomes a request of
the ai-service with a program counter at each await: `Begin` is `start_or_resume`
with `agent.start_session`, `Submit` is `submit_message` with `take_turn`, read by
read and write by write. Requests overlap, since a retry does not wait for the
delivery it repeats; `Crash` leaves only the database. The history variables
`excused`, `messy` and `strays` name the events, turns and sessions for which
`OneTurnPerEvent`, `TurnsInOrder` and `NoStrayInterview` promise nothing, because
deliveries overlapped or broke off; `SameAnswer` and `RepliesStand` have no such
exception.

`SessionPool`. What a bounded table of sessions promises: admitted once, while
there is room; gone for good.

`VoiceRuntime`. `VoiceSessionRuntime` over a provider: each method is cut where it
awaits the provider or lets go of a lock, so `start_session` is a check, the
provider's answer, and an insert that checks again or undoes. `Legal` and `Applied`
are the session's state machine, `Meaning` what a provider event does to it;
`open` and `queue` are the provider's sessions and events, after the mock
provider. Callers, pollers and sweepers are tasks. `PollBegin` lets one task at a
time poll a session, as `poll_events`' callers do.

`SpeechStudio`. The studio's sessions. Its flags are atomics that are read and
written one at a time, so every load and store between two awaits is a step of its
own: `Ready`, `Raise`, `Check` and `Answer` of a speech, `Interrupt` and `Store` of
an interrupt, `EndCancels`, `EndLowers` and `EndRemoves` of an end.

`ManagedCalls`. `ManagedCallWorkflow` with its client's retries and the routes of
`native_voice.rs` that use it; `window` is `BoundedSeen`, a set and an order that
are updated together. `MCVoice` has the three kinds of session in scenes of their
own; it extends `StudioState`, the studio's state and promises, and has `SpeechStudio`,
what the studio does, as an instance. `VoiceLimits` holds the constants both tables
share. `MCInterrupt` is the runtime with a history of the
interrupts that were granted.

`ProductionRegister`. The abstract promise of the workflow: production serves
nothing, a version somebody approved, or one it served before, and a verdict is
never taken back. `WorkflowLifecycle` implements it (`ImplementsRegister`).

## 4. Runs

| Run | What it shows | Bounds |
|---|---|---|
| `store` | the search for a plan answers with what `PathTo` defines and skips no required state; log and row agree; links unique; ended is final; each event once, through replays; the store implements the register | search: all 256 pairs of states. Store: two calls, two provider calls (symmetric), one key, a callback and a local end, two waiting |
| `gateway_calls` | one key dials once; nothing lost, nothing given to another call | two requests, two interviews and one key (symmetric), two provider calls, one crash |
| `gateway_live` | a link is refused only for a second phone; a recorded end ends; a finished phone settles its call | one call, one repeated provider request, one end request, one crash |
| `scheduler` | claims exclusive; outcomes final; performances accounted for; every action is settled (`EveryActionSettles`); a reminder that was answered is one action (`RemindersKept`) | two actions, two attempts, stale after three ticks. Actions: two gateways, one fault. Reminders: one interview, two offsets, one gateway; one request at a time without failures, or two that overlap for one offset with one fault |
| `interview` | browser and telephone: handler and state machine agree; what is transcribed is one turn, whole (`UtterancesAreTurns`); no end of a turn overheard; the candidate's turn comes (`TurnsCome`) | speech of two frames; browser: messages of up to four frames, silence of one, pre-roll of five; telephone: messages of up to two, silence of two |
| `voice` | runtime: audio is counted and within limits; nothing is left running (`NothingLeftBehind`); no session is stuck speaking (`SpeechOver`); what is over stays over. Studio: an interrupt cuts just its speech, recordings fit (`StudioIsExact`). Both implement the pool (`ImplementsPool`, `StudioImplementsPool`). Managed calls: an event counts once per window and is stored, no phone is forgotten (`ManagedKeepsTrack`) | runtime: room for one session, two ids; two callers (symmetric), a poller, a sweeper; at most one event per poll, two events queued. Studio: room for one session, two ids, three clients, a sweeper. Managed: one session id, two phones, two starts, two webhooks, an end, a window of two |
| `channel` | one answer and one turn per event; one interview per candidate, with its question; the transcript in order, and the replies that were given standing through overlaps, failures and the crash (`TurnsKept`) | three requests, two events, two sessions (symmetric), two turns, five segments, one crash |
| `workflow` | one active deployment per environment, a key names one row (`UniqueRows`); production ran only what was tested and approved, artifact by artifact; sessions are pinned to proven content; disabled means stopped, and no route is found; production passes to its successor and stops only by being disabled, also through failed promotions (`ProductionGoesOn`); the workflow implements the register | one test run, one approval, two subjects (symmetric). Keys: two versions of one content, one key, one binding, three deployments, no route. Rollback: one version, sound or not, two bindings, four deployments, no keys, one route |
| `interview_recovery` | violated: see Findings | messages of one frame |
| `end_marks_cancelled` | violated: see Findings | one call, one end request |
| `interrupt_once` | violated: see Findings | one session, one caller, one poller, two events queued |
| `ulaw` | violated: see Findings | up to two of the samples 0, 100, 1000 and 10000 |

Two calls, provider calls and requests suffice for the properties that relate
two of them. An event has one identity, so "twice" needs no second copy: actions
repeat. `MaxArrivals` bounds the arrival numbers of waiting events (two or three
are enough for an order), `MaxRetries` and `MaxCrashes` bound the provider
client and the failures. Runs turn deadlock detection off because the system may
stop: when all requests are answered, all phones are over and the events and
UUIDs of the instance are used up, nothing is left to do. The store's two events
are the ones that overtake each other: a callback and the local end of a handler
that read the row before it. A candidate's phone reports no busy or no-answer
after it was answered (`PhoneEnds`), which is assumed of the provider.

The scheduler's constants stand for the code's: in ticks of 30 s these are a
back-off base of 1, claims stale after 10, batches of 4 and dispatches of at
most 2 (one or two requests with a timeout of 20 s); the instance keeps the
relation that matters, `Batch * DispatchTime < StaleAfter`, with 2, 1 and 3, and
two attempts for the code's three (the proofs hold for any number).
`MaxLate` only stops counting how long a row is overdue. In `InterviewSession`
the code's numbers are 13 frames of speech, 44 of silence (7 at least), 18 of
pre-roll and messages of about one frame; a message that ends one turn and
starts the next needs some 20, which a client may send although the shipped
ones do not: the instance shrinks all of them so that such messages exist.
`SpeechIsWhole` needs the pre-roll to hold the confirming run and, but for one
frame, the message that completes it (`PrerollSuffices`): with the code's numbers a
message of up to six frames, where the shipped clients and Twilio send 20 ms. The
instance, with its messages of four frames, is exactly at that limit.

A workflow's properties are about two things at a time, a version and another
one, or a deployment and the one it replaces. The scene "keys" has the two
versions, whose tests and approvals must not be taken for each other's; with one
content the hashes still differ, since they cover the version number. The scene
"rollback" has the four deployments it takes to deploy to the sandbox, promote,
fail or promote again, and roll back, under bindings that change.

Bounds of scenes are named in the MC modules: in `MCVoice` `OneSession` (the
runtime's scene with poller and sweeper has one session, since what they race for
is one session's state), `OnlyCallers` (the scene in which two ids compete for room
has neither), `FewClients` (the studio's sweeper and third
client work on one session, not at the same time) and `OnePhone` (webhooks come
for one phone at first). `Capacity`, the window of 4096 seen events, is smaller
than `MaxTaken`, so that events are forgotten and come again. The studio needs
three clients for two speeches and an interrupt between them. `ProviderReports`
emits only when the queue has room, which `MaxQueue` bounds. `SpeechOver` is about
the mock provider, the one provider of the crate, and needs a session to have one
poller.

Some properties are conjunctions, one for each promise that belongs together:
`NothingLeftBehind`, `TurnsKept`, `StudioIsExact`, `ManagedKeepsTrack`,
`UniqueRows` and `RemindersKept` stand in the modules of their components, and
`Interviews` joins the browser's and the telephone's (`UtterancesAreTurns`). The
type invariants (`TypeOK`, `ManagedTypeOK`) are theorems or parts of the proofs'
invariants, except that of `PathSearch`; no run of the project repeats them.

Three requests are a delivery, its retry and one other message, or three first
contacts; `MaxSegments` leaves room for the opening question and two turns, and
`MaxTurns` is reached within them. Twilio's messages are of
20 ms, so one is never longer than the silence that ends a turn: `NoTurnEndLost`
needs that (`MediaMessagesAreShort`), as `decode_media` reports only one event of a
message. `MaxCapture`
bounds the utterance, which the code does not bound. In the reminders' scenes an
offset of two ticks before an interview that starts in two is past, an offset of
one is ahead; the interview may be moved a tick. The scene of overlapping
requests has the retries and the fault, and the requests' gateway may crash.

**Faults.** An operator commented "Fault" stands before the definition whose
plausible slip it is; no specification uses it. `PROJECT.json` ("mutants") pairs
each property with one: put in the place of the definition it belongs to, it must
make TLC find the property violated in the property's own run.

**Fairness** (the liveness runs only). `CallGateway!FairSpec`: weak fairness of
the steps of an accepted handler: the async runtime keeps polling it. Weak
fairness of `Restart`: the service is supervised. Strong fairness of the first
delivery of each callback: providers deliver callbacks while the gateway is up,
which a crash interrupts. Nothing is assumed of clients, candidates, phones,
crashes or purges. `Scheduler!FairSpec`: weak fairness of each worker, of the
restart of each gateway and of `Tick`: a worker sleeps for a poll interval
between two batches (`asleep` until a `Tick` makes it `awake`), so no worker can
keep time from passing. `InterviewSession!
FairSpec` and `MediaSocket!FairSpec`: weak fairness of the handler's own steps,
since each request to the AI service ends or times out, and a text that is played
comes to its end; nothing is assumed of the candidate. The MC modules with scenes
state the same fairness of the same actions, each in its scene (`MCSpec`,
`Interviews!FairScenesSpec`).

## 5. Proofs

Everything below is `Spec => ...`, for every value of the constants that meets the
module's named assumption. Temporal steps are the last ones of each theorem; what
is proved at length is that an inductive invariant holds at first and is kept by
every action.

`CallStore_proofs`, for any sets of calls, provider calls, keys and events and from
`StoreAssumption`, after lemmas about the lifecycle (`PlanIsChain`: a plan is empty
or a chain of hops; `OnwardHops`, `ReachHasRoute`: how far plans reach):

- `TypeCorrect`: `TypeOK` always;
- `AuditTrail`: `AuditMatchesRow`. Not inductive alone: a commit installs the
  transaction's copies. `AuditInv` adds that an open transaction's row and log
  agree as well. The heart is `StepKeepsRecord` (steps along a plan keep a log a
  history) and `WholePlanOrNothing` (if the first step of a chain succeeds they
  all do, so logging before the row is updated is harmless; it needs
  `PlanIsChain` and that hops out of ended states do not exist);
- `LinksAreUnique`: `UniqueLinks`, with `LinkInv`: what was checked when the
  transaction began still holds when it commits, since the mutex keeps everybody
  else out;
- `EndsAreFinal`: `EndedIsFinal`, an action property. It needs the part of
  `LinkInv` about ended rows and `Issued`: a row's UUID was drawn before, so
  nothing is inserted over it;
- `EventsCountOnce`: `EachEventOnce`, an action property: a call's history grows
  only in a step that records events not recorded before, one of which explains its
  state, and what is recorded for a stored call stays. (One event may be recorded
  for two calls, and one that was applied by call id may still wait under its
  provider call: the store allows both, and a replay of it then adds nothing.) `TxnRemembers` says of an open transaction what it
  has replayed so far: the events it adds waited under its provider call, and its
  row is the stored one or what one of them makes of it;
- `StoreImplementsRegister`: `ImplementsRegister`. A commit may replay several
  events, so one step of the register has to stand for a plan made of plans:
  `LearnsStep` needs that the committed state is reachable from the stored one
  (`Reach`) and that what is reachable has a route the register accepts.

`CallGateway_proofs`, for any sets and limits and from `GatewayAssumption`. The
gateway uses the store by `INSTANCE`; `SP`, the same instance of `CallStore_proofs`,
brings the store's theorems, and a first section shows that both name the same
operators.

- `GatewayUsesStore`: `Spec => Store!Spec`, each handler's step is an operation of
  the store or leaves it alone; hence `StorePromisesHold`, log and links of the
  store under the gateway's handlers, crashes and purges. The mutex is respected
  by the handlers themselves (`HandlersInv`: a transaction is open only while its
  handler replays), so nothing is assumed of it;
- `GatewayTypeCorrect`;
- `KeysDialOnce`: `KeyDialsOnce`. `OwnCalls`: the handlers that were told to dial
  have a call each, under their key as long as it is stored; `DialsCounted`: a
  handler's phones are counted by the requests its provider client has sent. A
  key names one stored call, so at most `1 + MaxRetries` phones ring for it;
- `LinkRefusals`: `RefusedOnlyForSecondPhone`, from `Links` (a row is linked to a
  phone placed for it, or that it was registered for) and `TxnOwned` (the open
  transaction is that of the handler that replays);
- `CallsHearTheirPhones`: `NoCrossTalk`, from `HeardRight`: what is recorded, what
  is being replayed and what waits has arrived, about a phone of that call;
- `NoticesAreKept`: `NoticeNotLost`. `AllKept` follows an event from its arrival to
  the answer "linked": it is recorded, or waits under the provider call, or is
  among what the transaction has replayed or has left to replay;
- `RecordedEndsHaveEnded`: `RecordedEndEnds`, for any of the events that the two
  providers' statuses are read as (`ProviderEvents`): here the numbers matter. A
  plan of at most five steps from a status below the final ones ends at 44, and a
  final status has 50 (`FitsOutcome`); and a call that is active has been picked up
  (`PhonesTell`), so no report that nobody answered, which leads nowhere from
  there, will come. `EndsInv` says both of the rows, of the open transaction's too.

`Scheduler_proofs`, for any sets of actions, keys and gateways, any limits and any
number of faults, from `SchedulerAssumption`, and for the reminders from
`RemindersAssumption`:

- `ClaimsStayExclusive`: `TypeOK /\ ClaimsExclusive`. The argument is about time:
  `InTime` says that a claim is at most as old as the dispatches its worker has
  behind it in this batch, each at most `DispatchTime`, so with
  `Batch * DispatchTime < StaleAfter` no claim of a living worker is stale. The
  assumption is what the theorem is worth: a batch size or a timeout that breaks
  it breaks the property;
- `OutcomesAreFinal`: `OutcomeFinal`, from exclusive claims: whatever a worker
  writes, the row is still `dispatching` and its own;
- `PerformancesAccounted`: `PerformedAccounted`; the invariant counts, for a row in
  a worker's hands, the attempt that is under way;
- `RemindersAreActions`: `RemindersSpec => Spec`, the requests do to the table
  nothing that the scheduler does not allow, so the theorems above hold beside
  them;
- `RemindersAreKept`: `RemindersKept`. `KeysOK` says that a reminder's key is in one
  row, whichever request inserted it, and `Told` that a request has been told of
  stored actions of its own reminders, of all those its list no longer holds; so
  what is planned and what was answered are in bijection (`AnswersAreComplete`).

`WorkflowLifecycle_proofs`, for any contents, subjects, keys, bindings and bounds,
from `WorkflowAssumption`:

- `TypeCorrect`, `OneActiveDeployment`, `DisabledStaysStopped`,
  `ProductionIsProven` and `SessionsAreProven`, all from one invariant, `IInv`.
  What it adds is what promotion trusts without looking: a deployment's hash is
  that of its version, a passed test is of sound content (`TestsAreSound`), an
  approval has two people and names its version (`FourEyes`), and what a request
  being routed has found did run (`FoundRan`), although it may be disabled by
  now. The argument is that the tables are append-only: each operation shows
  `HistoryKept` and what it adds, and the lemma `Keeps` concludes;
- `RowsStayUnique`: `UniqueRows`, the active deployment and the row an idempotency
  key names; an operation that is given a key of its table appends nothing;
- `HistoryIsKept`: `[][HistoryKept]_vars`;
- `RoutesFindEnabled`: `FoundWhileEnabled`, an action property: disabling stops
  every deployment in its own transaction, so what a route still finds is not of
  a disabled workflow;
- `ProductionKeepsServing`: `ProductionGoesOn`, an action property: each row that is
  superseded has a successor that did not fail (`SuccessionStep`), and the one
  that serves gives way only to it or to `disable`;
- `WorkflowImplementsRegister`: `ImplementsRegister`. `Serving`, `Approved` and
  `Promoted` name the refinement mapping; a promotion needs `FourEyes` to find the
  version among the approved ones, and everything that activates a row needs
  `OneActive` to know that it replaces what was served.

`ChannelInterview_proofs`, for any events, requests, candidates, ids and bounds, from
`ChannelAssumption` (the bounds are naturals, a session has a turn at least; `None`
is no event, id or reply):

- `TypeCorrect`, with what a request knows where it stands (`RequestInv`), on which
  the others rest;
- `AnsweredAlike`: `SameAnswer`. A delivery answers with what it took as a turn only
  if its `INSERT` was the first; otherwise it re-reads the row. `AnswersStored` says
  so: what was answered is what is stored, and a stored reply is never replaced,
  so a set of answers has at most the one element;
- `OneInterviewAlways`: `OneInterview`. The invariant adds what ties a session to
  its request before it is bound: no two starts are given the same id
  (`StartsApart`), a start past its second statement has its question
  (`StartsSpoken`), and turns are taken in the bound session (`TurnsOfBound`). A
  stray session is then always in the hands of the start that will discard it, or
  of a start that broke off;
- `TakenAsOneTurn`: `OneTurnPerEvent`. `EventsOnce`: an event that is not excused is in
  the hands of one request at a time, of none once its reply is recorded, and what
  was said for it is in one place of one transcript;
- `WhatWasToldStands`: `RepliesStand`, with no exception. The candidate's transcript
  only grows (`OnwardStep`), so what a request holds at its place in a turn it goes
  on to hold (`Held`): its words are there, then the reply to them, then, if that
  closes the interview, the mark. It stores the reply after that, and an answer is
  what is stored;
- `TurnsKeepOrder`: `TurnsInOrder`, and with it `TurnsAreKept`: `TurnsKept`. `TurnInv`: while no two turns overlapped, the
  transcript is `Orderly`, and halfway through a turn it is as long as the place
  of the request that takes it says (`Halfway`).

`VoiceRuntime_proofs`, for any ids, tasks and limits, from `VoiceRuntimeAssumption`:

- `NothingLeaks`: `NothingLeftBehind`. The invariant adds `TasksKnow`: what a task
  between two awaits may still rely on about its session (the provider has it
  open, it is not in the table, it is closed). Most steps are mild: they neither
  start nor forget a session, and one lemma does for them all; the others are the
  opening at the provider, the insertion, the removal and the report of an end;
- `SpeechIsOver`: `SpeechOver`. `SpeechInv` follows the event that ends a speech
  from the call that will queue it through the queue to the poller that takes it,
  and needs that the poller is the only one;
- `AudioIsCounted`: `AudioAccounted`. `AudioInv` adds up what the provider has accepted
  and not yet counted: the bytes the tasks that await it carry;
- `OverStaysOver`: `OverIsOver`, an action property: every write to a state is
  guarded by the state read under the same lock, which the type of each step
  shows;
- `RuntimeImplementsPool`: `ImplementsPool`; the insertion checks the capacity again,
  and `StartsApart` keeps its id out of the pool's past.

`NativeVoice_proofs`, the studio and the managed calls. The studio, for any clients,
sessions, pieces and limits, from `StudioAssumption` (lengths are naturals):

- `StudioExact`: `StudioIsExact`. What it says of interrupts is about speeches that
  are alone in their session, so the invariant has `AloneIsAlone`; and
  `SpeechesHear`, that from the moment a speech cleared `cancelled`, a standing
  cancellation is its own and its own is still standing. Recordings fit, since
  their length is checked where they grow (`RecordingStep`);
- `StudioIsPool`: `StudioImplementsPool`.

The managed calls, for any sessions, phones, requests and limits, from
`ManagedAssumption`:

- `TypeCorrect`, with what each request knows where it stands (`ManagedInv`);
- `TrackIsKept`: `ManagedKeepsTrack`. The window is the last `Capacity` of the events
  that were taken, without repetition (`WindowSlides`: taking a new one drops the
  oldest, in the set as in the order); every event taken is stored, failed, or in
  the hands of its webhook (`EventsStayAccounted`); and a phone that is up is
  `Held`, by the table or a request, or its answer was lost (`PhonesNext`).

`Interviews_proofs`, the browser's interview and the telephone's, for any lengths of
speech, silence, pre-roll, utterances and messages, and messages of any content, from
`DetectorAssumption`, `SessionAssumption` and `MediaAssumption` (lengths are
naturals, of the detector positive) and two facts about them that the code and its
clients provide: `PrerollSuffices` and `MediaMessagesAreShort`. The browser's type
correctness and `EventsAreLegal` use neither.

What a handler learns from a message is a recursion over the message's frames
(`Observed`), so the proof is by induction over them: if a statement failed for some
number of frames it would fail for a least one (`LeastNumber`, from the library's
theorem that the naturals are well-founded), and `RecursionExists` shows that the
recursion defines a function in the first place. `HeardHears` is the outcome, one statement
(`Hears`) about `push_pcm16_capturing` from which everything else follows: what it
does to the flags, how long the capture grows, and that it keeps `Whole`. That is
the heart of the matter: while nothing is captured, the last frames of the pre-roll
are the run of voice that the detector has counted; once something is, the capture
holds a run long enough to confirm speech. `SeenNext` carries it over one frame and
`RingEnds` over the ring's forgetting. The browser's and the telephone's
detectors differ in one constant and are instances of the same operators
(`BrowserHears`, `MediaHears`).

- `TypeCorrect`: `InterviewSession`'s `TypeOK`. `AudioInv` bounds the capture by the
  limit, a message and the pre-roll, which is what `capture_audio` lets through
  before it checks;
- `EventsAreLegal`: `NoIllegalEvent`. `HandlerInv` says in which state the session is
  wherever the handler stands; that a turn ends only in the state that leaves it
  is `AudioInv`'s part: outside the candidate's turn nothing is captured and no
  speech is confirmed, so an end comes with the start before it;
- `UtterancesAreWhole`: `UtterancesAreTurns`, for both, from `PrerollSuffices`.
  `EachInterview` shows that side by side each of them takes its own steps and no
  others;
- `TurnEndsAreHeard`: `NoTurnEndLost`, from `MediaMessagesAreShort`: in a message no
  longer than the silence that ends a turn, speech that starts does not end, so no
  event hides another;
- `MediaTypeCorrect`: `MediaSocket`'s `TypeOK`.

Only model-checked: `PlansAreRight`, `MediaCodec` and liveness. The search for a plan
has no parameters but its two arguments, so TLC's exploration of all 256 pairs is
complete; that it is never stuck is stated with ENABLED, which the prover does not
handle. `MediaCodec` is there for its finding. Liveness (`EveryActionSettles`,
`PhoneOverSettles`, `TurnsCome`) is beyond the prover.

## 6. Findings

`end_marks_cancelled`: `docs/CALL_STATE.md` says `POST /calls/{id}/end` asks the
provider to end the call and marks it cancelled. `end_call` computes the
sequence of its event before it awaits the provider. A callback applied during
the await moves the call's sequence on, the event is then stale, and the handler
answers success with a call that has not ended. (It ends when the provider's
final callback comes, if it comes: `RecordedEndEnds`.)

`interview_recovery`: `speak_recovery` documents that after `Ok(true)` the caller
should keep going. After a failed transcription or agent turn the caller does
`continue`, whose loop condition takes a `next_text` that is already taken: the
handler returns and the socket closes right after the phrase that asked the
candidate to repeat, with no error or completion sent.

`interrupt_once`: `docs/ARCHITECTURE.md` lists "interruption idempotency" among what
the tests of the voice runtime cover, and the test `speak_and_interrupt_are_sequenced`
expects the second interrupt of a speech to answer false. It does, as long as
nobody polls. `speak` leaves a `SpeechStarted` in the provider's queue;
`handle_provider_event` applies it as `StartSpeaking` when it is polled, which is legal
from `Interrupted`. If the session was interrupted in between it is speaking again,
although its speech was cancelled, until the provider's `SpeechEnded` or
`SpeechInterrupted` is polled; an interrupt in that time answers true, cancels at
the provider again and publishes a second `SpeechInterrupted` for one speech. What
holds is `SpeechOver`: the session does not stay so.

`ulaw`: the README says that the media stream returns mu-law audio. The encoder
`linear_to_ulaw` takes `leading_zeros` of a 32-bit integer, as if it had eight
bits, so the exponent is always clamped to 0: every sample is sent as one of the
quietest sixteen levels, and 1000 is heard as 104. Its test only asks that the
result is not too loud.

## 7. Not modelled

Clocks are reduced to order. Requests refused before anything is stored,
callbacks whose store call fails with a database error, read-only queries and
the outcome labels of events are left out. In the workflow, the draft is one
value: two authors who change different fields of it at once, one of whom loses
(`workflow_api.py` merges outside the transaction), are not told apart. A
promotion or rollback answered with the deployment that already runs stores no
key, in the code as in the model, so its repetition may be carried out later; and
a session may be stored just after its workflow was disabled, since the route was
resolved before. No document says otherwise of either.

Some of what the modules do model is no property, since the code lets it happen and
no document excludes it; the properties leave it out by name. A repetition of a
message that arrives while the first delivery is in the agent's hands takes a
second turn (`excused`). Turns that overlap share a number and may set the counter
back, and a planner that fails leaves the candidate's words without a question
(`messy`). An error of the provider's client may be a lost reply: the call is then
closed as failed while its phone rings, and in `ManagedCalls` nobody knows the phone.
`PROJECT.json` has these as hazards without a property.

`channels.py` and `twilio.rs` know a telephone turn by its call and a hash of what
was said: a candidate who gives the same answer twice in one call is taken for a
retry, in the code as in the model, where an event has one identity. An interview
that is rescheduled keeps the reminders of its old time, and a cancelled or
failed reminder is not planned again. The webhook of managed calls answers
success although the call store refused an event (`failed` in `ManagedCalls`).
The utterance buffer of a media stream grows as long as the candidate speaks.
The event dedup of `interview-domain/src/lib.rs` is not used by the program. Of
the voice runtime, the events it publishes are left out, except where they change
a state; of the studio, what audio holds, and transcription; time is left out of
both, so a sweep may find any session idle. The mock is the one provider the
runtime has, and what `VoiceRuntime` says of a provider is what the mock does.
Evidence, documents, reports and compliance are transformations of finished
data; the rate limiter and the calendar's token cache are one value behind one
lock. The components marked `not_modelled`
in `PROJECT.json` wait for the plan's later steps, except those that are pure
I/O or user interface.
