# Formal model of the SPAM-RES calling platform

The repository is a sales-calling platform: a Fastify service (`services/cti-api`)
that dials lists of people for a rep, keeps Salesforce in step and relays texts and
calls; a second service (`services/outreach-api`) whose agent "Sam" writes emails,
answers replies and asks for AI calls; shared packages (database schema, contracts,
compliance firewall); and web, desktop and iOS clients.

Two kinds of code carry its logic, and both are modelled. The *power dialer* is one
rep, one list, one phone line and a crowd of request handlers, Twilio callbacks and
timers that act on the same two tables. The *workers* are job tables drained by ticks
that call Salesforce, Resend or Twilio, lose answers, crash, retry, and overlap at a
deploy or after a reaper's limit, and that promise to do each thing once.

## 1. Inventory

| component | state it keeps | operations | what is hard |
|---|---|---|---|
| dialer engine (`dialer/engine.ts`, `state.ts`) | `dialer_sessions.status`, `dialer_queue_items` | start, advance, pause, resume, skip, next, redial, end, stop, idle stop, take-callback, call outcome | no lock is held across an await; every handler works from a snapshot |
| Twilio callbacks (`routes/dialer.ts`) | none | AMD verdict, terminal status | late, duplicated and reordered delivery; callbacks caused by our own hang-ups |
| Twilio adapter (`twilio-telephony.ts`) | calls and rooms at Twilio | originate, bridge, hang up, end the room | a request is in flight while the row changes |
| contact history (`contact-history*.ts`) | `dialer_dial_attempts` | cadence verdict, `rolloverDue`, the in-flight check across runs | read before the transaction that uses it |
| run settings, queue creation | passes, run size, the rows | Start's cut of the queue; the build of the queue | boundary of the cut; settled-at-build rows |
| rep leg and room (`rep-legs.ts`, `join-guard.ts`, `routes/telephony.ts`, `cti-web/dialer-leg.ts`) | `rep_call_sid`, the rep-scoped conference | join, rejoin, replace, lose a leg | one room for all runs of a rep; the old leg's end arrives late |
| idle cut (`idle-runs.ts`) | none | re-check and stop | a dial starts after the re-check |
| nudge and rollover worker (`salesforce/followup-worker.ts`) | `followup_rollover_jobs` | nudge due retries, claim, process, back off and reap jobs | answers of Salesforce lost, reaped jobs still running, a job processed as it was listed |
| call log (`salesforce/sync.ts`, `routes/calls.ts`) | `calls`, `salesforce_sync_jobs` | disposition, enqueue, sync, sweeps, recording link | the rep dispositions while a sweep does; a callback is the last trigger there is |
| inbound texts (`sms/inbound-text-worker.ts`) | `inbound_messages`, `inbound_text_digests` | claim, Task, alert, close, batch digest | an alert is sent before its stamp; the digest must go once and last |
| Sam's outbox (`outreach-api/email/send.ts`, `outbox.ts`) | `email_messages`, conversations | queue, gates, claim, post, settle, events | gates are read before the post; the answer of a post is lost; Resend forgets keys |
| Sam's replies (`email/inbound.ts`, `events.ts`) | `resend_webhook_events`, replies | lease, fetch, store, decide, act, alert | a lease expires under a minutes-long writer |
| AI-call pace (`ai-calls/*`, `call-plans/*`, `dnc-hold.ts`) | `touches`, a lead's stage and plan | pick, resolve a kept key, claim, trigger, settle, skip, park, reap; hold, edit, approve, release | a request that timed out may have placed its call, and a person decides meanwhile |
| AI-call trigger (`ai-voice/routes-internal.ts`, `request-store.ts`, `service.ts`) | `ai_call_requests`, `ai_calls` | reserve, take over, find, insert, link, place, record, complete; sweep | a crash anywhere between the reservation and the answer; Twilio errs although it rings |
| AI voice bridge (`bridge.ts`, `registry.ts`) | the call in memory | stream, transfer, close once | a transfer against the end of the call |
| caller numbers (`pick-did.ts`, `sticky.ts`) | per-number counters | claim a number under its caps | counters at their limit |
| planner, firewall, reports, auth, clients | plans, logs, settings | decisions and views | boundaries of time windows |

The components meet at few places. The engine *calls* Twilio and Twilio *calls back*
by call id. The engine *writes* the dial log in the transactions that stamp and connect
a dial, and *reads* it at a miss. A miss *enqueues* a rollover job in the transaction that
settles it. A call's end, a disposition and a sweep *enqueue* its sync job. Sam's replies
*queue* rows of the outbox in the transaction that handles them, and the events queue
*writes* delivery states back. The pace of AI calls *asks* cti-api for a call over HTTP
under an idempotency key, and *reads* cti-api's request table before it drops one. `PROJECT.json` lists every component with its status, and
every hazard at its line.

What makes the engine correct: a person is rung once per row; one call is in flight per
run; a settled row stays settled; a run dials nobody more often than *Calls per person*
allows; a follow-up rolls over only when that many dials went unanswered; a stopped run is
over; every dial settles and a live run dials on. What makes a worker correct: whatever is
lost, dies or overlaps, the outside world sees each Task, email or call once (or
the code never learned of the first); nothing is marked done that was not done; what a
person decided meanwhile (a disposition, a stop, a take-over) is honoured; a settled job
stays settled and every job settles. What makes an AI call correct: one key, one call; the
lead is not rung again while an earlier call is on no touch; and a call that rang gets on the
touch it was made for.

## 2. Modules

| module | content |
|---|---|
| `DialerRun` | one run: session, queue, calls, callbacks, workers |
| `DialLedger` | the abstract promise: rows are queued, live, closed; placing a call needs a right granted once |
| `RolloverQueue` | the rollover jobs of followed-up people, by overlapping replicas |
| `CallLog` | one call's way to Salesforce: disposition, sync job, sweeps, link |
| `TextQueue` | inbound texts and the batch digest |
| `SamOutbox` | one conversation's emails, the ticks that send them, their gates and events |
| `SamReplies` | stored webhook events and the handling of a seller's reply |
| `AiTrigger` | one lead's AI calls: the pacer, the request store and handlers of cti-api, the decisions of people |
| `KeyedCalls` | the abstract promise of cti-api about AI calls: a key is asked for, rings at most once, is answered for good |
| `Workers` | cti-api's workers side by side: `RolloverQueue`, `CallLog`, `TextQueue` |
| `Outreach` | outreach-api's workers side by side: `SamReplies`, `AiTrigger` |
| `MCDialerRun`, `MCWorkers`, `MCOutbox`, `MCOutreach` | instances for TLC |
| `DialerRun_proofs`, `RolloverQueue_proofs`, `CallLog_proofs`, `TextQueue_proofs`, `SamOutbox_proofs`, `AiTrigger_proofs` | theorems of one component (`DialerRun_proofs`: also of `DialLedger`; `AiTrigger_proofs`: that it implements `KeyedCalls`, and `OwnCall`) |
| `Workers_proofs`, `Outreach_proofs` | theorems of the compositions (`Outreach_proofs`: also of `SamReplies`) |

### How `DialerRun` corresponds to the code

A *worker* is one execution of a handler. `pc` says which statement it performs next and
`job` holds what it read earlier and still relies on: the row it acts on, whether that row
had a call id, its snapshot of the pending rows, the request's clock (`due`), the outcome
it reports, what it decided about requeue and rollover. One step is one database statement,
one transaction, or one Twilio request. Postgres runs at READ COMMITTED, so a step sees and
changes the current tables, whatever the worker read before. A handler that throws goes
back to `idle` and changes nothing else.

* `st`, `sid`, `ended`, `canceled` are the columns `status`, `callId` (set or not),
  `prospectEndedAt`, `outcome = 'canceled'`; `row` holds the columns no statement rewrites
  (ordinal, person, attempt, redial, retry floor). Rows are named by insertion order.
* `log` is the row's entry in `dialer_dial_attempts`; `rolled` the people whose rollover
  was enqueued.
* `call`, `dials`, `msgs` are Twilio: the state of the row's call, how often it was
  placed, and the callbacks not delivered. A delivered callback may be delivered again.
* `lock` is the per-session advisory lock, shown only where it is held over several
  statements (take-callback; the claim is one step and waits for it).
* The advance is `ReadSession`, `LoadQueue`, then from `pick`: `RunOut`, `GateSkip`,
  `NoNumbers`, `Claim`; then `Originate`, `OriginateRefused` or `OriginateFailed`, and `Stamp`.
* Each button is its first read (`Skip`, `Stop`, ...) and its later writes (`SettleCurrent`,
  `ReleaseAtStop`, `SetStopped`, ...). The reaper of abandoned runs calls `stopSession`,
  so it is a `Stop`.
* A callback is `Deliver`, which looks the row up by call id, then `StampEnded`,
  `CutLate`, `Connect` and `Bridge`, or `ReadHistory` and `Miss`, and on into the advance.

Abstractions. The reasons of a miss collapse to `machine`, `ended` and `canceled`, all the
control tells apart. Every dial-time gate is one nondeterministic verdict about a person in
`Gated`. `unreachable` in the initial state stands for every row settled when the queue was
built. Where `find` meets two rows in flight the choice is nondeterministic (the query has
no order). A pair of reads issued together (`Promise.all`) is one step. A press that would
read, change nothing and return is left out. Take-callback's writes are guarded and commit
together, so they are one step after its reads. A row's write of `unreachable` inside the
advance is left out: queue creation leaves no pending row without a number.

Assumed of the surroundings: a hang-up request reaches Twilio and works;
`originate` either fails and placed no call or succeeds and answers; Twilio's callbacks
arrive only after the stamp of the call id (`LateCallbacks = TRUE`; with `FALSE` a callback
that overtakes the stamp is dropped by the code and `NoStuckDial` fails). The rep has no
other run.

### How the worker modules correspond to the code

All six follow one scheme. A step is one SQL statement or transaction, or one request to
Salesforce or Resend together with its answer. `pc` is the statement a tick
performs next; `mem` is what it read and still relies on (the row *as listed* or *as
claimed*, never the row as it is now). A write that is conditional in the code has that
condition as a guard on the current row; one that names only the id has none, and that is
where late writers do their damage. Failures are a budget (`Faults`, `MaxFaults`) of
- `lost`: the request took effect and its answer did not come back,
- `error` (`auth`, `reconnect`): the request had no effect and failed,
- `db` or `patch`: a statement failed, and the handler's own catch runs or fails too,
- `crash`: the process dies and its `pc` returns to `idle`, the tables as they are,
- `overrun` or `slow`: the tick outlives the reaper's limit or its lease.

Times are Booleans: `due` (the back-off is over), `old`/`stale` (the reaper's limit has
passed), `quiet` and `aged` (a sweep's waiting time has passed); they turn true at any moment
and back to false where the code writes the column they are computed from. Variables no
code can see (`unheard`, `raced`, `cut`, `escaped`, `excused`) record what excuses a
duplicate and are read by properties only. In `CallLog`, `raced` says that a disposition fell into
a window of a sync or sweep, or that two requests of the rep both passed the test for an
earlier disposition (`calls.ts:505-523`), after which the order of their writes and of their PATCHes may differ.

* `RolloverQueue` (`followup-worker.ts`, `followup-enqueue.ts`): `job` is the job table,
  `open` and `moved` the person's tasks in Salesforce, `copies` the follow-ups made. A tick
  reaps, lists (`batch`), claims by status and processes the job as listed: find the task,
  the day's set, the new day; create, stamp the id, complete each original, succeed.
  `up` is the set of replicas running, one or more of them. A replica in the middle
  of a job never outlives the reaper's limit (`STUCK_AFTER_MS`), as its comment claims
  (`followup-worker.ts:31-38`); the sum it rests on leaves out three reads, and what a slower
  replica could do is not shown.
* `CallLog` (`sync.ts`, `routes/calls.ts`): `call` is the calls row, `job` its sync job,
  `tasks` the Salesforce Tasks in order. Handlers are the rep's disposition and its inline
  push, the callbacks of recording and status; the tick is reaper, sync of one job request by
  request, the disposition sweep and the link sweep, in the tick's order. Two rows are excused by the
  code itself: a call that ended `failed` is no real dial and no sweep takes it, and a recording
  link whose field Salesforce rejects (`INVALID_FIELD`) is stamped as pushed without being on the Task, so
  that it does not clog the sweep. `CallLogged` (the call log's part of `QueuesDrain`) and `LinkReaches` say so.
* `TextQueue` (`inbound-text-worker.ts`): a tick reaps and gives up (`final`), claims due
  texts (`scan`), and takes each through match, create, stamp, alert, email, stamp, close;
  then the batch digest is queued, claimed by a conditional update, posted, and closed.
* `SamOutbox` (`send.ts`, `outbox.ts`, `events.ts`): `row` is the outbox, `known` what Resend
  remembers of the row's idempotency key and `copies` what it delivered. The gates are read
  in the code's order at the statements where it reads them (`facts`, `address`, `count`);
  `tenant` and `seller` change between them.
* `SamReplies` (`inbound.ts`, `inbound-decide.ts`, `events.ts`): `event` holds leases and
  attempts; a tick fetches the reply, looks it up, inserts it, and in one transaction under
  the reply's row `lock` decides, asks the writer and acts; then alerts and settles the event.

* `AiTrigger` composes two services. A *pacer* is one tick of `placeDueAiCalls` at one touch:
  `pc` is `settle` (`keptKeyFirst`), `gate`, `claim`, `send`, `wait`, `resolve` (a 409), `apply`,
  `finish`, and `mem` the candidate as listed and the answer. A *handler* is one request of
  cti-api: `arrive` (the reservation), `takeOver`, `find` (`crashedCall`), `check`, `insert`, `link`,
  `place`, `record` or `failRow`, `complete`. `request` is `ai_call_requests`, `calls` the
  `ai_calls` rows in order, `keys` the keys minted. `Resolved(k)` is `resolveKey`, and
  `Pending`, `Placed` and `Free` the three answers of `settleKeptKey`, which every skip, hold and
  retry asks first. A handler outlives a pacer that gives up or dies. The reasons of a
  refusal collapse to those `decideTrigger` treats alike (`system`, `later`, `final`, `park`).
  Plans are numbered; an edit makes the next one. Three times are taken from the code: a request
  on its way reaches the reservation within the 20 seconds of its timeout, a handler ends
  within ten minutes, a tick within the reaper's five. `overtaken` records the one hole left:
  `claimed_at` is the clock of the tick, read before the request leaves, so a slow tick's
  key can look older than it is; properties excuse such a key. `findCallSince` looks five seconds
  further back than the key (`FIND_SLACK_MS`). The model assumes that no other key's row falls in
  them: a lead's keys are reserved further apart than that, since a retry waits five minutes or more
  (`pacing-rules.ts:72-107`), the tick comes once a minute, and a new touch needs a person's approval.

### How the components are put together

A service starts one timer per worker (`services/cti-api/src/server.ts:138-146`) or one schedule per
job (`services/outreach-api/src/server.ts:122-167`). The workers of `Workers` share no table the
models show, so a step of the service is a step of one worker that leaves the variables of the others
alone: `WorkersNext` is the disjunction of the components' `Next`, each instanced with its own
variables and bounds. Replies and AI calls do meet: a reply that stops the seller exits the
lead's enrolment and a flag holds its calls (`conversations/store.ts:304-322`), and a call's result
may stop the seller. Each module allows at any moment what the other may do to it (`Exit`
and the refused claim in `AiTrigger`; the changes of `seller` in `SamReplies`), so a step of `OutreachNext` is a
step or a stutter of each, a transaction of both being a step of both. What is given up is the
cause: in the model the lead may also exit without a reply. `on`, fixed from the start, is the set of workers
that run in a behaviour, and `Together` the sets it is taken from: any, all of them included.
Two pairs exclude each other, because they are two instances over the same tables: single texts
and a batch of texts, and a lead called with many decisions of people (`people`) and one called
with every refusal (`outcomes`).

`AiTrigger` implements `KeyedCalls`. The book is `ai_calls` in order, of each row its key and
how often it rang; what a key was answered is the row of `ai_call_requests` once it is
`answered`, and "open" while it is a reservation; `asked` is how many rows `ai_calls` had when the key
was reserved. Pacers, handlers, leases, takeovers, links, lost answers, blocked and failed rows
are all steps that leave the book as it is.

What is abstracted: wording, addresses, matching of a sender to a person, Slack, and the
choice of a date. `CallLog` has one call, `SamReplies` one conversation and `AiTrigger` one
lead, because rows of different calls, conversations and leads share nothing the code reads here. Salesforce and Resend
are external: a request takes effect at most once per call, except that Resend ignores a
post whose key it remembers (24 hours; the code stops at 23).

## 3. Runs

Every bound is a CONSTANT of the cfg or of the MC module. Every run ends in states where
nothing is left to do, so deadlock is not checked.

| run | exercises | checks | result |
|---|---|---|---|
| `talk` | Skip, Next, Redial, End; redelivery, failed history read, refusal at the limit | `OneCallPerRun`, `NoStuckDial`, `RolloverEarned`, `SettledStays` | holds, 3.4 million states |
| `controls` | Stop, Pause, Resume, Start, idle cut, lost leg; no numbers, failure, refusal; a machine, run sizes | `TypeOK`, `Ownership` | holds, 2.0 million |
| `callback` | take-callback, Resume, Stop; crash, failed originate | `DialedOnce`, `NoExtraDial`, `FirstPassTotalFixed`, `KeepsLedger` | holds, 1.7 million |
| `live` | Skip, a refusal, under fairness, without symmetry | `NeverStalls`, `DialSettles` | holds, 170 thousand |
| `workers` | the queues towards Salesforce, one at a time | `CoveredByCopy`, `NoSecondCopyAlone`, `MovedWhole`, `JobStaysSettled` (rollover); `LoggedOnce`, `DispositionReaches`, `LinkReaches` (call log); `DigestOnce`, `TextToldOnce`, `NothingSilent` (texts); `WorkersTypeOK`, `QueuesDrain` (all) | holds, 631 thousand |
| `outbox` | two overlapping send ticks, in two parts | `TypeOK`, `SentOnce`, `CapHolds`, `AnswerHeld`, `StopHolds`, `RowForward`, `EmailSettles` | holds, 559 thousand |
| `outreach` | replies and AI calls, one at a time | `HandledOnce`, `OptOutHonoured`, `DoneMeansHandled` (replies); `OneCallPerKey`, `NoBlindCall`, `OwnCall`, `KeepsKeys` (AI calls); `OutreachTypeOK`, `OutreachSettles` (all) | holds, 798 thousand |
| `twocalls` | take-callback, Resume | `OneCallPerRun` | violated |
| `revived` | Stop, Pause, Resume | `StopStays` | violated |
| `dupcopy` | two replicas, one failed completion | `NoSecondCopy` | violated |
| `stranded` | one crash in the disposition request | `NotStranded` | violated |
| `overcap` | two answers at a cap of one, one lost answer | `NoFourth` | violated |

**Bounds of the dialer runs.** Two workers, two people. Two workers suffice for every race
the properties are about but one, since each is between two handlers (the one of three is told with
`RolloverHolds` in section 4, and lies outside that theorem's hypothesis); two people are a person who is
being dialed and the next one; `MaxRows` leaves room for every retry, redial and cancel copy that
the presses allow, since a copy needs a miss (at most one retry per original row) or a
press. `MaxRefusals` is 1 or 2 instead of 5, so that one fault reaches the limit or stays
below it.

**Bounds of `workers`.** A step of one worker leaves the others alone, so an interleaving of two
shows nothing that each alone does not, and would multiply the states: `Together` holds the
singletons, and each behaviour is of one worker while the others stay as they start. That the
invariants hold for every `Together` is proved (section 4). `rollover` has two
replicas, one job with two tasks of the day, two attempts, two faults and one task the rep
completes by hand: a crash or lost answer on either side of every write, and a second
replica that takes the job up. `text` has one text and two replicas; `batch` two texts
and one replica, enough for a digest that must wait for the other text; both have two
attempts and two faults. `calls` has the tick and one handler at a time, two
requests, two attempts and one fault; Salesforce may reject the field of the recording link at
every PATCH besides.

**Bounds of `outbox`.** `one`: one email, two ticks, two faults and one change by a person, the
seller, Resend or Salesforce at any moment (a practice conversation has one fault). `two`: two
answers at a cap of one, one fault, the only change being the seller given back to Sam.
**Bounds of `outreach`.** `reply`: one reply announced twice (a duplicate webhook), two ticks, one fault
and one change, two attempts. `people` and `outcomes`: one lead with two touches, one tick, two
handlers (a request given up and the one sent again), two keys, two attempts and one fault.
In `people` a person acts four times, which is what it takes to hold a lead, dismiss the flag
and approve it again, or to edit, approve and release a plan beside an old touch; in
`outcomes` once, with every refusal, park, exit and return to research. Two faults without
decisions, and two with the decisions of `people`, were checked as well (1.6 million states).

The five violations are disagreements between the code and its own comments:

* `twocalls`: the person whose dial was cancelled for a callback is queued again at their
  old ordinal behind a five-minute floor. If two advances start on either side of that
  floor (a Resume, and the nudge that the floor wakes), one picks the next person and the
  other the requeued one. Each claim re-checks its own row and the run, but not that
  nothing is in flight, and both dial.
* `revived`: Resume reads the status and writes it unconditionally. A Stop that ends in
  between is undone: the stopped run is active again.
* `dupcopy`: a replica lists a job; another claims it, makes and stamps the copy and fails to complete.
  The first then wins the claim of the retry, which re-checks only the status, and
  processes the row as it listed it: without the copy. The person gets a second follow-up
  though the first one's id is on the row.
* `stranded`: the disposition is committed in one statement and its sync enqueued in a later
  one. A crash in between leaves a call no sweep looks for, since the sweep takes
  a disposition to mean that somebody has enqueued it.
* `overcap`: the daily cap counts rows that are `sending`, `sent` or `delivered`. An email that
  Resend delivered but whose answer was lost goes back to `queued` for its retry, where it does not
  count, and the next one goes out over the cap.

`CapHolds` is what does hold: copies beyond the cap are those whose acceptance the tick never
recorded. In the same way `NoSecondCopyAlone`, `LoggedOnce` and `TextToldOnce` bound the
duplicates by the ids and answers that never reached the code, the at-least-once margin the
code's comments concede, and nothing more.

**Fairness.** `DialerRun`: a handler in progress takes its next step (the process runs and its
requests return); every call ends (Twilio caps calls) and every callback is delivered
(Twilio retries); time passes; and the nudge comes round while the softphone polls
(`PRESENCE_WINDOW_MS`), every five seconds. The code runs any number of handlers at once,
so with two workers a callback or a tick is given strong fairness: a free one comes again
and again. Crashes and failed originates are excluded from `live`: after either the code
leaves a row or a run waiting for the rep, and says nothing else. The workers need weak
fairness only: the tick is a timer that re-arms after every pass, a tick in progress
takes its next step (every request has a timeout and returns), and waits, leases and stale
limits pass. Faults and people have no fairness, nor has Twilio's callback of an AI call; faults are bounded, so liveness says what
happens when they stop. A rollover job is drained with crashes, since the reaper takes back what a dead
replica held.

Every property of a passing run has a mutant in `PROJECT.json`: an operator beside the
definition it replaces, marked `mutant:` in the module, that breaks the code as a plausible
slip would (a dropped guard, a read that is not repeated, a status not mapped).

## 4. Theorems

`DialerRun`, for any set of workers, any number of people and rows, any settings (`RunAssumption`):

* `TypeCorrect`: `Spec => []TypeOK`. One lemma per family of steps; the type invariant also
  says that rows are inserted in order and a worker at a step on a row has a row, without
  which the writes through `job` would not be typed.
* `SettledForGood`: `Spec => SettledStays`. Every write of `st` is one of a few moves
  (`AdvanceMoves`, `ButtonMoves`, `CallbackMoves`), and each is guarded or goes to a settled
  status.
* `OwnershipHolds`: `Spec => []Ownership`, the inductive invariant behind `DialedOnce`.
  `DialedOnce` alone is not inductive: it says nothing of a worker about to dial. Ownership
  adds that the holder of a row is unique, that its row has left the queue and has not
  rung, and that a queued row has never rung, so the rollback of a failed originate is safe.
* `NeverDialedTwice`: `Spec => []DialedOnce`.
* `RefinesLedger`: `Spec => KeepsLedger`, from type correctness and ownership: the initial
  states map to initial states of `DialLedger`, and each step to a grant, a ring, a
  hand-back, a close, a change of the run, or a stutter.
* `FirstPassTotalStays`: `Spec => FirstPassTotalFixed`, from `ReadyInv` (until Start the queue is as
  it was created, and the only handler under way is a Stop) and from what each insertion may write.
* `NeverDialedExtra`: `Spec => []NoExtraDial`. Counting rings is not inductive. `TriesInv` says that a
  person has one row of each attempt, redials and dials cancelled for a callback left out
  (`TriesOnce`); that a second attempt exists only in a run of two passes and once the first is
  settled (`SecondLast`); that a miss about to queue a retry is of a first attempt
  (`RetriesFirst`); and that a cancelled row stays settled, whatever Next and End write
  (`CanceledSettled`, `ClosesConnected`).
* `OneCallHolds`: `Spec => []OneCallPerRun` when take-callback is not among the operations; with it
  the formula is false (`twocalls`). No two advances exclude each other; they cannot
  choose differently. `OneInv` says that the rows still to ring are ordered alike for
  everyone (`Distinct`, `FloorsLast`), that the row in flight comes before all of them
  (`FlightFirst`), and that a worker about to claim one of them has all of them in its snapshot,
  so a stale snapshot holds no row that can still be claimed (`Snapshots`, `HolderSnaps`).
* `NoDialStuck`: `Spec => []NoStuckDial` under `LateCallbacks` and without crashes. `HeardInv` says
  that every dial is in somebody's hands: a claim's, a stamp's, Twilio's or a callback's. Both
  hypotheses are needed: the code drops a callback that comes before the stamp, and leaves
  the row of a handler that dies dialing until the rep presses a button.
* `RolloverHolds`: `Spec => []RolloverEarned` when the rep lacks Skip, or Redial, or both Next and End.
  `RollInv` carries what the history said (`Earned`) from the read to the transaction that
  settles the miss; `OnePlace` and `Reached` say why no dial of the same person connects
  in between. The hypothesis is needed. With three workers and the presses Next, Skip and Redial on
  one connected row, all of one person, TLC finds `RolloverEarned` violated in 31 states: Skip
  and Next both read the row, the prospect hangs up, Redial closes the row and queues a copy,
  Skip writes `skipped`, the copy is dialed and missed and its history shows nobody
  reached, Next's unconditional write (`engine.ts:820`) makes the row `done`, and the miss
  commits a rollover for somebody who was reached. `talk` offers all three buttons but two
  presses, so there the formula holds by its bounds.

* `RolloverQueue_proofs`: `CoveredByCopyHolds`, `NothingLeftOpen` and `JobStaysSettledHolds` for any
  number of overlapping replicas, from the invariant `Inv`: what a job's status says of the
  copy and of the open tasks (`JobInv`), what a replica at a step remembers and has made
  (`HoldInv`), that what it listed was pending or has moved on (`ListInv`), and that a
  job in hand is in one replica's hand (`OneHolder`; the claim by status and the reaper's
  limit, which exceeds any attempt). `NoSecondCopyAloneHolds` and `MovedWholeHolds` need
  more: `LoneInv` counts the copies of a replica that is alone, each either unheard of, or
  stamped, or about to be. `dupcopy` is why it must be alone.
* `SamOutbox_proofs`: `RowForwardHolds` from the moves each statement may make; `SentOnceHolds` from
  `KeyInv`, which relates Resend's memory of a key to the row's first attempt, its age, and
  the ages each tick read with its rows: a key is forgotten only when every tick that could
  still post under it knows that it is old; `StopHoldsAlways` from `StopInv`: after the stop, a tick past
  the facts has either seen it or is the one that had passed before. `CapHoldsAlways` from
  `CapInv`: the emails out and those a tick has counted and may still post never exceed the
  cap together, since a tick counts after its row is claimed and sees the rows of the others.
  `AnswerHeldAlways` from the moves of the statements that cancel an answer.
* `CallLog_proofs` (`CallAssumption`: finitely many replicas, which are not the handlers; a rep's
  choice is a disposition). `LoggedOnceHolds` from `LogInv`, which says of a replica alone that it
  knows every Task and post or has lost its id: before a create there is none, and after
  one it is on the row, in the replica's hand or unheard of. `DispositionReachesHolds` from
  `DispoInv`: outside the windows (`raced`) a sync holds the disposition of the row at each
  step up to its stamp, a correction carries the row's disposition to the Task of record, and
  a Task of record that does not show it has a correction on its way.
* `TextQueue_proofs` (`TextAssumption`), for any texts, replicas, limits and faults. `DigestOnceHolds` from
  `DigestInv`: one replica at most is past the claim of the digest, and none
  posts one that was delivered. `TriesCappedHolds` from `CapInv`: each create was paid for by
  the claim before it, even by replicas whose claim outlived its limit. `NothingSilentHolds` from
  `ToldInv`: what a replica remembers of a Task made or an alert owed stays true, however
  stale it is. `ToldOnceHolds` from `OnceInv`: while no claim on a text outlives its limit, one
  replica at most has business with it, remembers the row as it is, and the Tasks and
  emails beyond the first are those unheard of. `DigestAfterBatchHolds` from `BatchInv`: a
  text that is done or failed has no holder left to write it.
* `Outreach_proofs`: `HandledOnceHolds`, `OptOutHonouredHolds`, `DoneMeansHandledHolds` from the
  lock invariant: a lock is held only by a tick inside its transaction about that reply
  (`TicksInv`), and the timeline, the actions and the answers are counted by the two flags
  of the reply's row (`RepliesInv`).
* `AiTrigger_proofs`: `OneCallPerKeyHolds`, for any pacers, handlers, touches, refusals and bounds. Counting calls is not inductive: it says
  nothing of a handler about to insert one. `HandlerInv` says what a handler at a step has in
  hand (before the insert, no call of its key; after it, that call, and one that has not rung
  before `place`), `OneOwner` that a key is in one handler's hands (a reservation is
  taken over only when it is old, and a worked one is not: `Mine`, `AloneWithKey`), and
  `RequestsInv` that a reservation is older than its key's call, so that the search by date
  of `Find` misses none. It rests on the times of the module's header, which are guards
  of `Old`, not on a proof about clocks.

Each of these also has `TypeCorrect`. All are for any sets of workers, rows and faults and any
bounds under the module's named assumption; the prover's part says nothing about fairness.

The two services (`Workers_proofs`, `Outreach_proofs`). The theorems of a component are taken over
by instancing its proofs with the service's variables; what is proved beside is that every
behaviour of the service is a behaviour of each of its workers, whichever of them are `on` (the
lemmas named `...Run`: a step of the service is a step of this worker or a stutter), and that `on`
stays what it was, so that single texts and a batch never meet.

* `WorkersTyped`, `CallsLoggedOnce`, `DispositionsReach`, `DigestsOnce`, `TextsToldOnce`, `TextsNeverSilent`: the
  formulas the run `workers` checks, for any workers side by side, any replicas, texts, faults and
  bounds. `RolloversKept`: the four of the rollover worker, in the service.
* `OutreachTyped`, `CallsPlacedOnce` (`OneCallPerKey`), `KeyedCallsKept` (`KeepsKeys`) and `RepliesKept`
  (`HandledOnce`, `OptOutHonoured` and `DoneMeansHandled`): the same for `outreach`; and `CallsOwn`
  (`OwnCall`), while ticks do not overlap.

`KeepsKeysHolds`: `Spec => KeepsKeys`, and so `AiTrigger` implements `KeyedCalls`: each step of a
pacer, a handler, Twilio, the sweeper or a person maps to an `Ask`, an `Enter`, a `Ring`, a `Tell` or a
stutter. That a key has one entry, rings once and only while it is open comes from
`OneCallPerKey`, `HandlerInv` and `OneOwner`. What an answer may *name* needs `NamedInv`: the call a
handler is about to answer with, and the call linked to an open key, are newer than the reservation.
It is what the search by date of a crashed request's call must not break: a call it finds is
newer than `since`, and a row a handler inserts is newer than all there were.
The answer need not name a call of its own key; `KeyedCalls` does not say so, because
the code does not promise it: a reservation whose handler died before its insert is taken over, and the
search by record then finds whatever call the record has had since (`request-store.ts` and
`findCallSince` know the record, not the key).

`OwnCallHolds`: `Spec => []OwnCall` under `OneTick` (no two ticks overlap), for any touches, keys,
handlers, refusals, decisions and faults; `CallsOwn` is the same in the service. The search by record
may find another key's call; the theorem says that the touch it is then written on is still never
of the same plan as the touch the call was placed for (or that call's key was overtaken). `OwnCall`
speaks of touches already sent; what makes it inductive is `OwnInv`, in three parts.

* `BoardInv` looks ahead. `Coming(k)`: a call of this key may still be inserted, because a handler
  is past its checks, or before them and would find nothing. Such a key is held by its touch,
  unless the lead has ended or the key was overtaken (`HeldInv`); two touches that may still have
  a call are of two plans, since a release waits until none of its plan is open (`PlansInv`);
  so whatever is inserted is good for every key that is held, and a search that finds it is
  harmless (`SearchInv`).
* `ToldInv` follows a call from the row to the touch: each answer a handler is about to give, each
  stored answer and each link of an open key name a call that is good for the touches holding the key.
* `TicksInv` is where one tick matters. Before a key is dropped, nobody is at work on it: a tick
  that is past the kept key of its touch saw it free, and one that waits knows the only handler
  that has it. A second tick breaks just this (case 2 below).

Each step of the board is shown to be one of a few moves of a touch (`Keeps`, `Mints`, `Leaves`,
`Starts`) and each step of a handler to write only under its key (`Writes`), and `BoardInv` is
proved once for those moves (`BoardInvStays`).

Only model-checked, and why:

* `NoBlindCall`, which is false for other constants. `outreach` checks it with one tick at a time, two
  touches, two keys and one fault; TLC finds it violated in larger instances. With two
  overlapping ticks, (1) a second tick
  claims a touch under its kept key while the first request is still worked on, and `in_flight` answers
  use up its attempts: the touch is failed and its key dropped; a person dismisses, approves and
  releases before the lead's enrolment is ended, and the new touch rings beside the first
  call. `OwnCall`, too, is false with two ticks: (2) a tick that listed a touch before another claimed it parks it while
  it is being dialed (`parkPlan` fails a `dialing` touch too, `stage.ts:48`), and the search by
  record later finds the other key's call. With one tick, two faults and three
  touches, (3) a dead tick's request is still at cti-api's checks under an old plan, inserts a
  blocked row later than the new plan's call, and the search by record finds that row
  instead (`NoBlindCall`). So `NoBlindCall` says what the kept key protects when one replica runs and
  one thing goes wrong, and no more; `OwnCall` holds whatever goes wrong, as long as ticks do not
  overlap.
* Liveness (`NeverStalls`, `DialSettles`, `QueuesDrain`, `LinkReaches`, `EmailSettles`, `OutreachSettles`),
  which the prover cannot treat under fairness. `KeyedCalls` is a safety specification: that every key
  asked for is answered in the end is not stated (a reservation whose caller gave up may stay open until someone asks again).

## 5. Not modelled, and the plan

What is left, in the order of its worth:

1. `RepRoom`: several runs of one rep over the one-active index, the paused run that blocks
   a Start, the rep's legs (join, replace, lose) and the rep-scoped room. Composes with the
   session part of `DialerRun`. Theorem: at most one active run per rep.
2. `DialClaim`: claims of several runs on one person, keyed by number, with the in-flight
   check, and the per-number counters of `pick-did.ts`.
3. The ending of an AI call: a lead whose process dies between the settling of its touch and
   the end of its enrolment (`pace.ts:283`), the results tick, the one-closer rule of `ai-voice/registry.ts` against the
   transfer to a rep and the status callback.
4. Operators for the pure decisions (`runPosition`, `sessionCounts`, `cadenceVerdict`,
   the firewall's windows) against reference definitions.
5. Abstract specifications of the other workers (one Task or one email per row, with the
   duplicates it concedes) and proofs that `RolloverQueue`, `CallLog` and `SamOutbox` refine them, as `AiTrigger`
   refines `KeyedCalls`; `NoBlindCall` under
   the weakest hypotheses that make it inductive (one tick, and no request that outlives its plan).

Not planned: user interfaces, audio, prompts, Salesforce metadata, reports, auth and settings,
which are views or plain reads and writes with no protocol of their own; queue creation,
which is a pure build over Salesforce reads; the no-answer Chatter and connect workers,
whose claim, reap and retry loop around one post is that of `RolloverQueue` and `CallLog`.
