# TLA+ model of the superset-devin orchestrator

The service turns GitHub issues labelled `devin-fix` into Devin sessions, at most
one live session per SonarQube finding, and follows each session until it is
settled. These modules model what it does to its records, await by await, and
say when that is correct: TLC checks small instances, TLAPS proves the results
listed below for every value of the constants.

## 1. Inventory

| Component | State | Operations | Interacts with |
|---|---|---|---|
| Store, `app/store.py` | SQLite: `issues` (one row per finding), `dedup_events`, `counters` | `claim_finding`, `reclaim_finding`, `update`, `non_terminal`, `get_by_issue`, `increment` | every other part; one transaction at a time |
| Orchestrator, `app/orchestrator.py` | none between events | the gates, `handle_issue_event` (claim, maybe reclaim, create), `handle_pull_request_event` | Store, Devin API, GitHub, Poller |
| Poller, `app/poller.py` | its task; the snapshot of the running tick | `tick`, `poll_now`, `_poll_one`, `_next_gap`, `_check_timeout`, `_finalize`, `classify` | Store, Devin API; calls `on_terminal` |
| Webhook server, `app/webhook.py` | background tasks | signature, JSON and event gates, counters, `_dispatch`, `_dispatch_pull_request`, startup and shutdown | Orchestrator, Poller |
| Devin client, `app/devin_client.py` | none | `create_session` (POST, on 409 GET), `get_session`, `_request`, `_sleep_backoff` | Devin API |
| GitHub client, `app/github_client.py` | none | `issue_state`, `pull_request_state`, `comment` | GitHub |
| Finding parser, `app/findings.py` | none | `normalize`, `parse_finding`, `finding_key` | names the row a webhook is about |
| Metrics, `app/metrics.py` | the report file | `build_metrics`, `write_report` | Store (reads) |
| Scripted API, `simulator/fake_devin.py`, `scripts/simulate.py` | sessions, GET and POST counts | `_create`, `_get` | Devin client, through a transport |
| Settings, logging | none | | |

All coroutines share one asyncio loop, so code between two awaits is atomic and
the awaits are where things go wrong. What is hard here, and what makes each
part correct:

* **Claiming.** Two webhooks for one finding must not buy two sessions, and a
  claim must not be left with nobody to create its session. The claim is one
  transaction; the create that follows takes up to minutes and ends in a
  session, an error, or (crash, undecodable reply, a session another record
  holds) in nothing, until a redelivery resumes the claim. `CreatorOwnsClaim`,
  `ClaimKeepsCreator`, `OneSessionPerAttempt`, `ClaimAnswered`.
* **Naming.** Claims meet on a key parsed from free text.
  `OneLiveAttemptPerDefect`, `DuplicatesShareDefect`.
* **Reclaiming.** A refile of a settled finding asks GitHub one or two questions
  and then takes over the row it read before them, guarded by `updated_at`.
  `OnlySettledReplaced`, `SkipsMatchEvents`, `MergedFixWins`, `MergedSuccessWins`.
* **Taking webhooks in.** A delivery is answered before anything is claimed, and
  everything it was let in for is looked up again later. `WorkIsDelivered`,
  `ImplementsService`, `DryRunSpendsNothing`.
* **Polling.** A tick polls from a snapshot; webhooks poll out of band; replies
  overtake one another; the row may have been settled or reclaimed before the
  reply arrives. `ReportedOnce`, `OutcomeIsFinal`, `SettledIsFinal`,
  `ResultsAreOwn`, `RecordedHappened`, `OutcomeEvidenced`, `SnapshotIsFinal`.
* **Counting.** The report is drawn from rows that change under it.
  `ReportOnlyGrows`.
* **Time.** A claim grows stale, an attempt overdue; a call to an API that never
  answers must end; every tracked session must be settled, and not be asked
  about too often. `TrackedSettles`, `SettledInTime`, `CallEnds`, `FewPolls`.
* **Faults.** Lost requests and lost replies, 409s, 429s, 503s, restarts.
  `EndsAsScripted`, `RestartLosesNothing`, `FollowsLifecycle`.

`PROJECT.json` lists every hazard at its line, with the properties that cover it.

## 2. Modules

```
DevinSession      payloads of the Devin API, classify
  Store           tables, one operator per way out of each transaction
    Runtime       the coroutines (worker, pc), the tick, the world they await
      Orchestrator  handle_issue_event ... _create_session, pull request events
      PollLoop      tick, _poll_one, _check_timeout, _finalize
        Service     all of them on one store, Devin API, GitHub, clock, restarts;
                    most properties
          Metrics   the numbers of the report, as operators over the tables
            Intake  the webhook server in front of Service, findings parsed
                    from bodies (Findings)
  DevinClient     _request and create_session on a clock
    Schedule      the poller on the client's clock
      Simulation  client, poller and scripted API (FakeDevin) with faults

FindingLifecycle  abstract: free -> claimed -> working -> settled -> claimed ...
DevinAPI          abstract: what the models assume of the Devin API
Findings          parse_finding and finding_key over bodies as lines
FakeDevin         simulator/fake_devin.py, request by request

ServiceMC, IntakeMC, SimulationMC   values of the constants for TLC

ServiceProofs        types
  ClaimProofs        who may replace an attempt; the skips on the books
    OwnershipProofs  who may write a row, and what a step may make of it
      OutcomeProofs  reports, evidence, the totals of the report
        IntakeProofs the server: refinement, deliveries, defects, DRY_RUN
ClientProofs         calls end
  SimulationProofs   how and when sessions end, how often they are polled
SumProofs            induction over numbers and finite sets; sums
```

Indentation is EXTENDS. There are two families over `DevinSession`. `Service`
has every race, and no clock but "too old": the untimed half. `Simulation` has
the clock, one issue per finding and no pull request webhooks: the timed half.
What one half takes for granted the other shows: that a call ends in a reply or
an error (`CallEnds`), that a tracked session is polled again and settled in the
end (`SettledInTime`), that sessions move as `MayBecome` says (`FollowsAPI`, of
the scripted API).

### From code to model: the untimed half

| Code | Model |
|---|---|
| a coroutine between two awaits | one action; `worker[w].pc` names the request it waits for: `ask_pr`, `ask_issue` (GitHub), `post`, `adopt` (create_session), `get` (a poll) |
| a request | evaluated by the API at one moment (`ServePost`, `ServeGet` fix the `reply`), handled by the worker at a later one; it may be lost or fail at any time |
| `issues` row | `issues[k]`: issue, outcome, devin_id, pr_url, ACUs, created_at; `None` for no row |
| the record a coroutine read before its await | `worker[w].copy`, `tick[k]` |
| `updated_at` and `WHERE ... updated_at = ?` | `copies[k]`: the tasks whose copy of the row is still current; every write of the row empties it. (Two writes in one microsecond with one `time.time()` are not modelled.) |
| `created_at` | the number of the attempt it starts; a resumed claim keeps it, a reclaimed one gets the next |
| age over `SESSION_MAX_WAIT_SECONDS` | `overdue[k]`: attempts up to this number are too old; older attempts get there first |
| age over `STALE_CLAIM_SECONDS` | `k \in stale`, emptied by a write |
| `next_poll_at` | a tick polls any non-empty subset of `non_terminal()`: whatever the gaps, it is one of them, and a gap is bounded |
| `ORDER BY created_at` in a tick | any order |
| deterministic `devin_id` | the issue number; `session[n]` is the API's session for it, `HeldElsewhere` the UNIQUE index |
| pull request URL | the issue whose session opened it |
| GitHub's answers | chosen when the task takes them: merged if it was merged (`merged` only grows), else open, closed, unreachable, or (when `Undecodable`) one whose JSON raises, which ends the task with the skip standing |
| `on_terminal` | `reports[k]`, saturating at two, set back by a new attempt |
| exceptions that are not `DevinAPIError` (undecodable JSON, UNIQUE index) | `CreateUndecodable`, `PollUndecodable` (when `Undecodable`), `HeldElsewhere`: the task, or the tick, ends there |
| `POST /webhook` | `Refuse` (401, 400), `Fail` (500: JSON that is no object), `Ignore` (200, counted), `Accept` (200 and a background task): nothing is awaited between the body and the answer |
| a background task between its 200 and its first step | `inbox[t]`; `BeginIssue`, `BeginPoll` and `DropPull` are its first step, `lost` counts what a restart took |
| an issue's body | a sequence of lines with a label and a text; markdown emphasis and backticks are the functions `Unmarked` and `Unticked` |
| process dies | `Restart`: workers idle, tick, copies and inbox gone, tables and the world kept |

The Devin API of the untimed half is less tame than the scripted simulator: a
session may take any of the payloads in `Payloads` next, as long as ACUs do not
shrink, a pull request does not vanish and a session that exited or failed stays
so (`MayBecome`).

### From code to model: the timed half

| Code | Model |
|---|---|
| `time.time()`, `asyncio.sleep` | `now`, a natural number. It stands still while anybody has something to do, and never runs past the end of a sleep or a request's timeout: computing takes no time, waiting is exact |
| a call of the client | `call[c]`: `sent` until it is answered or `Timeout` is over (of a whole attempt; httpx bounds its phases, so a reply that trickles in is beyond the model), `asleep` in `_sleep_backoff`, then `done` or `failed`; `attempt` and `due` are the loop's |
| jitter | any whole delay between the backoff and a quarter more |
| `next_poll_at`, `poll_attempts` | columns of `record[f]` |
| the poller's loop | `loop`: resting until `wake`, or in a tick with `todo` left, `polling` one. The oldest record goes first |
| a transport that fails | `RequestLost` (it never arrives), or the API handles the request and the reply is lost |
| scenarios of `fake_devin.py` | `scenario[id]`, one step per GET; `MaxPolls` is where no scenario changes any more |
| a token the API refuses | `trial.token`; a reply that does not decode: `trial.garbled` |
| a restart | calls and loop gone, records kept; the new loop ticks at once |

## 3. Runs

| Run | Instance | Shows |
|---|---|---|
| `dedup` | 1 finding, 2 issues, 3 issue events, replies that may not decode, 1 restart, no PR webhooks, no late creates | a create owns its claim, a claim loses its create only to a restart or an unreadable reply and is resumed, one session per attempt, results are the attempt's own and final, the report's totals only grow, implements `FindingLifecycle` |
| `racing_polls` | behind the webhook server: 1 issue, 3 requests, PR webhooks, all payload classes, undecodable replies, 1 restart | one report per attempt; outcomes, ACUs and PRs are backed by the session; the server refines `Service` |
| `open_world` | 2 findings, an edited issue, late creates, a PR webhook, 1 restart, `TERMINAL_ON_PR` off, replies that decode | types, skip accounting, a claim loses its create only to the restart or to the UNIQUE index, only settled attempts are replaced |
| `progress` | 2 findings, an edited issue, 2 events, 1 restart, `FairSpec`, replies that decode | tracked sessions settle; a claim that is being created for gets its session or an error, unless the process dies or another record holds the session |
| `dry_run` | behind the webhook server with `DRY_RUN`: 4 issues with bodies laid out in the template's and other ways, 4 requests of 12 kinds, 1 restart | nothing is spent, no work is claimed that was not delivered, issues are duplicates exactly by their defect |
| `simulate` | 2 findings, 6 trials (casts of scenarios, a refused token, garbled sessions, up to 1 restart), clock up to 18 | calls end in time, sessions are settled by their deadline, the backoff is kept, faults do not show in the outcomes, the fake API is an API |
| `late_poll` (violation) | as `dedup`, with 1 PR webhook | a late reply writes on the next attempt's row |
| `late_acus` (violation) | 1 issue, 1 PR webhook | ACUs of a settled record change |
| `merged_fix` (violation) | 2 issues | a merged fix of a failed record does not win the dedup |
| `merge_race` (violation) | 2 issues | a merge between the two questions is missed |
| `slow_create` (violation) | 1 issue, `CreateOutlivesClaim` | a resumed claim's second create reopens a settled record, reported twice |
| `lost_claim` (violation) | 1 issue, 1 restart, `FairSpec` | a claim without a session is never answered after a restart |

**Bounds.** Of `Service`: `MaxIssueEvents`, `MaxPullEvents`, `MaxCrashes`, and
the `reports` counter that stops at two. Of `Intake`: `MaxDeliveries`. Of the
timed half: `Horizon`, `LastClaim`, `MaxPolls`, and the restarts of a trial. Two
tasks are enough for two webhooks to race each other and the poller; two issues
for a refile and a refile back; three issue events for claim, refile, and a third
that races. ACUs take the values 0 to 3 with a cap between. Tasks are symmetric
(symmetry is not used for liveness). In `simulate` the units are scaled so that
everything that can coincide does: a request may take as long as a rest, a
backoff, or half the longest gap; two attempts per request; every session must
be settled 4 units after its claim, which leaves room within the horizon for
`Deadline`. `SettledInTime` is an upper bound, not the least one: it adds the
longest gap, a rest, and the polls of all others in two ticks. No bound on a
count is needed by a proof: the theorems speak of any findings, tasks, webhooks,
restarts and delays.

Deadlock is checked in `simulate`: a clock that nobody lets move would be one.
In the other runs the bounds on events stop the model, and a service without
work is idle.

`CreateOutlivesClaim = FALSE` says that a create ends within
`STALE_CLAIM_SECONDS`, which is what the comment at `store.py:23-25` assumes;
`slow_create` and `open_world` drop it, since five attempts of 30 s and their
backoff take longer (`RequestBound`, doubled by a 409).

**Why properties are checked where they are.** `ResultsAreOwn`, `SettledIsFinal`
and `FollowsLifecycle` hold only without pull request webhooks (`late_poll` and
`late_acus` refute the first two with one), so they are checked in `dedup`; what
survives overlapping polls (`OutcomeIsFinal`, `ReportedOnce`) is checked in
`racing_polls`. `OutcomeEvidenced` needs payloads whose evidence lasts, which
those of `racing_polls` do. `ClaimKeepsCreator` is about steps, so that it still
says something of a claim after a restart: it names the three ways in which a
claim may lose its create (a restart, a reply that does not decode, the UNIQUE
index), and asks for the claim to be resumed. `dedup` has the first two and the
resuming, `open_world` the first and the third. `ReportOnlyGrows` carries its
conditions (only the poller polls, no late creates): the reply of a webhook's
poll may lower the ACUs of a settled record (`late_acus`), and a late create may
reopen one (`slow_create`). `TrackedSettles` and `ClaimAnswered` are stated for
replies that decode: a reply that never does keeps a record from its time limit,
and one to a create leaves its claim as it is.
`OneLiveAttemptPerDefect` speaks of bodies that say what the defect is in the
same terms and have a text for every field they name (see hazard
`findings.py:27` for the others).

### Fairness

`FairSpec` adds: a waiting worker is answered or its request fails (httpx has a
timeout, the client retries a bounded number of times: `CallEnds`); a ready
worker runs (asyncio is fair); a tick goes on to its next record; the poller
ticks again and a record that still runs is due again within
`POLL_BACKOFF_CAP_SECONDS` (strong fairness per record: it is not due while a
tick runs); time passes. Nothing is assumed of webhooks, restarts, sessions, or
of what an answer says; the liveness properties state themselves that answers
decode. The timed half needs no fairness: its liveness is stated
as deadlines.

## 4. Findings

Six runs refute a sentence of the documentation, a comment or a test; each is in
`PROJECT.json` with the quoted line. The common cause of three of them is a row
written by `finding_key` alone, from a copy read before an await: `update` has
no condition, only `reclaim_finding` has.

## 5. Proofs

Assumed: the named ASSUMEs on the constants (types, that `None` and `Poller` are
not members of the sets they are set apart from, and for the client that
`MaxDelay` bounds its sleeps), and what a theorem says itself after ASSUME. The
bounds on events and restarts are arbitrary numbers. Every safety property of a
passing run is stated by a theorem; the inductive invariants were checked with
TLC first.

### The service

**For all constants**, with late creates, pull request webhooks and restarts:

* `TypeCorrect` (`TypeOK`). `TypeOK` alone is not inductive, since a coroutine
  writes the row of the key it remembers. The invariant is
  `Shape == TypeOK /\ WorkersOnClaims /\ TickOnClaims`: a worker that waits, and
  a record of the running tick, belong to a row that exists.
* `SettledBeforeReplaced` (`OnlySettledReplaced`). `claim_finding` looks at the
  row it replaces; `reclaim_finding` does not. `CopiesCurrent` says that a copy
  whose `updated_at` still matches is a copy of this very row, settled, held by
  a task that waits for GitHub.
* `SkipsCounted` (`SkipsMatchEvents`). Beside the equation, `Accounting` says that
  the events are finite, their ids at most `event_seq`, and distinct; then the
  DELETE of `MAX(id)` removes exactly one event, provided that there is one,
  which is the last conjunct of `CopiesCurrent`.
* `ClaimsKeepCreators` (`ClaimKeepsCreator`). No more than `Shape` is needed, by
  cases of the step: whoever writes a row as claimed creates for it
  (`ClaimerCreates`, which is also why a delivery to a stale claim ends its being
  left), a create that ends writes a session or an error on its row or is one of
  the two that end in an exception (`KeptByCreates`), a poll opens no claim
  (`KeptByPolls`), and nothing else touches rows or creates.

**Where things are `Orderly`**: creates end before their claims are stale, and
the poll a webhook starts is not in flight over a claim of another issue, because
only the poller polls or because every finding has one issue. `Owned` says who
may write which row: its only creator while it has no session, whoever polls it
while it has one, a claim when it is settled; and what a poll has read is still
of the attempt on record (with the poller alone: still the record). Every step
then makes one of four moves of one row (`RowsMove`: opened, reopened, answered,
recorded), from which follow

* `CreatesHoldTheirClaims`, `ResultsStayOwn`, `OutcomeStays`,
* `ServiceFollowsLifecycle`: each move is a step of `FindingLifecycle` or a stutter,
* `AttemptsCostOne`: sessions start by POSTs only, for the attempt on record
  (`Starting`), so that the sessions of a finding, together with the issue of
  its running attempt, are no more than its attempts (`AttemptsCover`),
* `SettledStays`, if only the poller polls.

`late_poll`, `late_acus` and `slow_create` show that the conditions are needed.

**What overlapping polls leave intact** (`OutcomeProofs`). `Fates` says what a
step makes of a row and of its reports together.

* `AttemptsReportedOnce`: a report is made when a record with a session is
  settled, and only then.
* `RecordsAreReal` and `OutcomesAreEvident`. A reply is old by the time it is
  handled. `Since` is the closure of `MayBecome`: the session as it is now is one
  that the reply may have become (`RepliesGenuine`), so whatever lasts in the
  session's payloads passes from a reply to the session. What lasts is assumed of
  the external API: that a pull request stays in the payload
  (`PullRequestsStay`), that a failure, a fix and a finish do (`EvidenceLasts`).
  That ACUs do not shrink is part of `MayBecome`.
* `ReportGrows` (`ReportOnlyGrows`), for finitely many findings, where only the
  poller polls and creates end before their claims are stale: the reply a poll waits with is ahead of the record it will write
  (`RepliesAhead`), nothing else writes that record, and so no record loses what
  the report counts of it (`Gains`).

### The webhook server

`ServerImplementsService`, by cases: what it begins is a step of `Service`,
everything else a stutter. `ServedSkipsCounted` and `ServedSettledBeforeReplaced`
are inherited through it. `DryRunFree` and `ServedDryRunFree`: with `DRY_RUN`
every worker is idle after its step.

`WorkWasDelivered`, for finitely many tasks and findings, keeps books: no step
adds more to the attempts and skips on record, the waiting and the lost, taken
together, than to the deliveries. A claim adds one attempt or one skip, a reclaim
turns a skip into an attempt, and a row has had as many attempts as its
`created_at` says.

`DefectsHaveOneAttempt` and `DuplicatesAreOfDefect` follow from the parser: two
bodies that say the naming fields in the same terms have one key, and two with
one key have one name (`SameTermsSameKey`, `SameKeySameName`). They assume that a
body is edited only to what some delivery brings (`BodyIsDelivered`); the first,
that the bodies of one defect are in the same terms; the second, that every body
has a text for its fields and that equal names mean equal defects. The bodies of
`dry_run` meet these.

### The client and the simulation

`CallsEnd`: the invariant `OnTime` bounds the moment a call waits for by its
attempt number. `SimulationCallsEnd` is the same in the composition, and
`SimulationTyped` its types (`Sound`: what the loop polls, the calls and the rows
agree).

* `EndsScripted` (`EndsAsScripted`), from `Scripted`: an answer on its way is one
  the scenario has, of a session that exists, and a refused token never gets a
  session tracked.
* `FakeIsAPI` (`FollowsAPI`): the scripted API refines `DevinAPI`, from the
  monotony of the integer divisions that share out a scenario's ACUs. It assumes
  that no scenario ends as a session begins (`terminal_status` "new").
* `PollsAreFew` (`FewPolls`), from `Spaced`: a record polled n times is due again
  only after the sum of n gaps (`GapsAddUp`).
* `SettledOnTime` (`SettledInTime`), for finitely many findings. `Punctual` follows
  one record to its end: it comes due by `DueBy`, the rest before the tick that
  finds it due is over by `RestBy`, and from then on the time spent and what is
  left of the tick (`TickBy`) add up to no more than the deadline. `Ongoing` says
  that nobody waits for longer than it may. The theorem assumes
  `2 * RequestBound <= max_wait_seconds + backoff_cap_seconds`: a create that is
  answered 409 records its session up to two request bounds after `created_at`,
  from which the deadline counts. `simulate` meets it with equality; the
  service's own settings do amply (twice five attempts of 30 s and four sleeps,
  against an hour), unless the API asks for a `Retry-After` of many minutes.

### Sums

`SumProofs`. Induction is on sets of numbers (`CountingUp`) and recursion down a
rank given as a function (`AddsOnce`, `SumsExist`), since the library's theorems
take operators, which the provers cannot instantiate. From them: the sum of a
function over a finite set does not depend on the order in which the community
modules fold it (`SumOfRest`), what one change does to it (`SumChange`), and that
it grows with its terms and its set (`SumGrows`).

**Only model-checked.** Liveness, which is beyond the prover: `TrackedSettles`
and `ClaimAnswered`.

## 6. Not modelled

* Settings, logging, the wording of comments, prompts and reports, and free-text
  columns, tags and `terminal_at`; `status` and `status_detail` are written but
  never decide anything once stored.
* The report's ratios, elapsed times and per-session tables, and the file itself.
* The spelling variants the patterns of `findings.py` accept; the demo issues'
  texts; the simulator's GitHub and its second service on a cold store.
* Pull request webhooks and redeliveries in the timed half, and clock steps.
* The schema migration, and two processes on one database.

Hazards in `PROJECT.json` without a property, and why, in short: a resumed claim's
`created_at` is the first delivery's (`store.py:160`; attempts, not ages, are
modelled where claims are resumed); the report file (`poller.py:278`); a field
without a text takes the next line's (`findings.py:27`; modelled by `extract`, but
no promise in the repository says what should happen); a database used first with
`DRY_RUN` and then without (`store.py:182`; settings do not change in the model).
