# boustrategy in TLA+

boustrategy is an autonomous investment harness. Scheduled Python processes
gather evidence, let a language model author decisions, check them against a
policy, turn the approved ones into order intents, have them executed at a broker
by another model session, and publish the result. Almost everything that must
not go wrong goes through one SQLite file shared by many short-lived processes,
none of which trusts that the others are alive. These modules model that core:
who may write when, what the ledger of live orders may contain, what the
execution ticks may do to an account, when a holding is reviewed, which posts a
review may rely on, and what readers of the public pages find.

## The system

| Component | State | Operations | Interacts with |
|---|---|---|---|
| Runtime lease (`app/storage/runtime.py`) | `runtime_runs`, `runtime_attempts`, `runtime_leases` | save_run, claim, heartbeat, finish, expire, validate_fence | the worker, the scheduler and the operator call it; `reason/run.py` submits under its fence |
| Reasoning runs (`app/reason/run.py`, `app/storage/records.py`) | `reasoning_runs`, `reasoning_run_decisions` | prepare-live, submit, complete-live | wrapped by a runtime run; completed by `finish` or by hand |
| Review worker (`app/reason/worker.py`) | none of its own | one attempt: snapshot, author while the runner's poll loop beats, second pass, hold back, submit, ledger transaction, finish | lease, pipeline, snapshots, swap pairs, holding reviews |
| Schedules (`app/storage/schedules.py`, `app/reason/scheduler.py`) | schedule revisions, observations, occurrences | save, observe, record_due, pause, resume, validate_claim | claims runs for the worker |
| Decision pipeline and policy (`app/state`, `app/policy`, `app/orders`) | decision statuses, records, intents | process_decision | called inside submit's transaction |
| Broker ledger (`app/broker/lifecycle.py`, `app/storage/records.py`) | execution packets, execution records, lifecycle events | save packet, save record, append event | driven by the execution session through `app.broker.run` |
| Live executor (`app/broker/executor.py`, `session.py`) | `executions.jsonl`, `execution_sessions` | one tick: select, gate, open a session per intent, verify, log | reads intents, swap pairs and the ledger; starts agent sessions |
| Holding reviews and event reviews (`app/storage/holding_reviews.py`, `app/reason/events.py`, `app/triggers`) | thesis reviews, triggers, event causes | holdings_due, event_review_cause, evaluate_triggers; reviews are saved by the worker | prepares runs, demands answers of the worker |
| X digester (`app/x`) | posts, checkpoints, runs, routes, the digest files | cycle: fetch, export, route, render, verify | the worker waits for the digest of its day |
| Publication (`app/public`, `app/storage/publication_changes.py`) | change counters in the private database; a public store with rows, items, counts, portfolios and a checkpoint | publish, revoke, feed, detail | reads everything; its triggers run in everyone's transactions |
| Paper broker (`app/paper`) | paper account, fills | fill, mark | paper intents |
| Newsletters, prices, events, regime, crisis, watchlists | caches, regime snapshots, switches, held-back buys | daily collection runs, the worker's ledger transaction | feed the intake |
| Performance (`app/performance`) | observations | ingest, report | read by the publication |
| Dashboard, schemas, public UI, `ops/` | none | views and task definitions | |

The behaviours that are hard here are the same throughout. A process can be
killed between any two transactions, and several are, routinely, by the time
limits of their scheduled tasks. A worker can outlive its lease and still hold
its attempt id. Times are read before a write lock is obtained, or are claims of
a caller. Orders are placed by an agent whose session may end without a report.
Some facts that belong together are committed apart.

What each component has to get right:

* *lease*: one attempt at work per account; nothing of an older attempt after a
  newer one; a finished attempt and a successful run are final; the outcome of
  a run agrees with its decisions;
* *ledger*: a lifecycle only moves forward; what was placed had been reviewed in
  time under the same packet; one lifecycle per intent reaches the market;
* *executor*: an intent is ordered once; attempts are capped and spaced; a
  swap's buy follows its sale; an order the ledger does not know is reported; a
  tick ends;
* *schedules*: an occurrence is claimed at most once, never before it is due or
  while paused, and does not wait for ever;
* *pipeline and policy*: statuses, record and intent appear together; the daily
  limits hold over a whole day of decisions;
* *worker*: an attempt's writes are all under its fence, its lease outlives each
  of its steps, and it ends in a terminal status or an expiry;
* *holding reviews*: no holding is left unreviewed for long or beyond its stated
  range, and triggers do not call reviews one after the other;
* *X digester*: no post is skipped, none that was stored is forgotten, and no
  review relies on a digest that lacks one;
* *publication*: nothing is left behind the checkpoint of an incremental update,
  counts and pages agree with the rows, what was revoked stays away;
* *performance, paper*: positions agree with the rows they summarise.

## Modules

| Module | Models | Kind |
|---|---|---|
| `FencedWriter` | what a lease promises: one holder per scope, growing tokens, only the holder writes | abstract |
| `RuntimeLease` | `storage/runtime.py` and the entry points that write under its fence or beside it | detailed, implements `FencedWriter` |
| `RuntimeLease_proofs` | theorems about `RuntimeLease` | proofs |
| `OrderFate` | what the ledger promises about an intent: unseen, reviewed, working, ended; placed once | abstract |
| `BrokerLedger` | `broker/lifecycle.py`, `save_execution_packet`, `save_broker_execution_record` | detailed, implements `OrderFate` |
| `BrokerLedger_proofs` | theorems about `BrokerLedger` | proofs |
| `LiveExecutor` | `broker/executor.py` with an environment of session, broker and worker | detailed |
| `LiveExecutor_proofs` | theorems about `LiveExecutor` | proofs |
| `Schedule` | `storage/schedules.py`, `reason/scheduler.py` and the schedule commands of `reason/runtime.py` | detailed |
| `Schedule_proofs` | theorems about `Schedule` | proofs |
| `Decisions` | `state/pipeline.py`, the daily limits of `policy/decision_policy.py`, the submission loop of `reason/worker.py` | detailed |
| `Decisions_proofs` | theorems about `Decisions` | proofs |
| `ReviewWorker` | one attempt of `reason/worker.py` and its model's run by `reason/codex_runner.py`, in real time | detailed |
| `HoldingReviews` | `storage/holding_reviews.py`, `reason/events.py`, `triggers/evaluate.py` and the worker's checks of holdings | detailed |
| `Reviews_proofs` | theorems about `HoldingReviews` and about `ReviewWorker`, whose names differ for it | proofs |
| `XDigester` | `x/pipeline.py`, `x/run.py`, the storage of `x/posts.py` | detailed |
| `XDigester_proofs` | theorems about `XDigester` | proofs |
| `PublicSource` | the private database as the publisher sees it: its facts, the counters of `storage/publication_changes.py`, what may be projected | data and operators |
| `Publication` | `public/publication.py`, `public/activity.py`, `public/queries.py` over `PublicSource` | detailed, composes `PublicSource` |
| `Publication_proofs` | theorems about `Publication` | proofs |
| `MC...` | small instances for TLC | |

`PROJECT.json` maps every definition to the lines it stands for.

### RuntimeLease

| Variable | Code |
|---|---|
| `saved` | `runtime_runs` (prepared_at) |
| `attempts`, `lease` | `runtime_attempts`, `runtime_leases` |
| `decisions` | `decision_records` with a runtime attempt, in rowid order |
| `legacy`, `byHand`, `linked` | `reasoning_runs.result`, how it was completed, and links made by unfenced submissions |
| `completing`, `overtaken` | the `complete-live` commands that have read and not yet updated; history: the runs that got a decision by hand meanwhile |
| `clock` | real time; operations read it up to `MaxLag` ago |

Each function of the runtime, and each submission, is a `BEGIN IMMEDIATE`
transaction (`immediate`), so each is one action. `complete-live` is not: it calls
`complete_reasoning_run` in autocommit (`reason/run.py:568-572`), so its reads of
the result and the links (`records.py:118,139-145`) and its update (148-159),
which looks at the result again and not at the links, are two actions
(`ReadByHand`, `CompleteByHand`), with anything in between. A refused operation rolls back and is no step; that includes the sweep
of expired leases at the head of `claim`. Who calls is not modelled: any caller
that ever held an attempt id may use it at any time, which covers a slow worker,
a crashed one and the operator's `cancel`. What `validate_claim` refuses in
addition is a claim not taken. `failed`, `blocked`, `timed_out` and `canceled`
are one status, since the tables treat them alike; the text columns are left out.

### BrokerLedger

Packets, records and events are functions and a sequence of rows. All times are
arguments of the caller, so they are chosen freely. `save_*` functions read
before their transaction, but only rows that never change, and UNIQUE columns
settle races, so each is one action. Columns that are only compared for equality
with the intent's own (profile, ticker, side, notional, price) are left out:
every intent of the model has one profile. Replays of identical rows change
nothing. The `SUBMITTED` record and its event are two commands, as in the code.

### LiveExecutor

One trading day. A tick is a process with a program counter: it snapshots the
pending intents and the attempt history when it starts (`Start`), skips or opens
a session for each intent in its queue (`Skip`, `OpenSession`), and appends a
line when the session returned (`WriteLine`), possibly opening a second one at
once (`Again`). The queue is a set of intents with the code's order:
sales before buys, and within each by `created_at` (`Precedes`, `First`). The agent session, the broker and the review worker are the
environment. A session takes the steps of `docs/execution/EXECUTOR.md` and can
stop, fail or be cut off at each of them; it is honest about what it did. `Kill`
ends a process and its session at any point: the execution task has a 30 minute
limit and a session may take 12, so three sales are enough to reach it. An order
that filled leaves nothing for a rebuilt packet to buy or sell (`NothingLeft`),
so only an order still open can be duplicated. A scene gives the intents of the
day, how many orders the model looks at and which ticks may be killed, so that
what holds without kills is stated beside what holds with them. The post-fill
snapshot and the wording of skips and problems are left out.

### Schedule

| Variable | Code |
|---|---|
| `schedules` | the latest row of `schedule_revisions` per schedule; older ones are never read |
| `observations`, `occurrences` | `scheduler_observations`, `schedule_occurrences` |
| `prepared` | `runtime_runs` with an `occurrence_id` (UNIQUE) |
| `attempts` | `runtime_attempts` of the account; one is running at most, by its lease |
| `ticks` | an invocation of `execute_due`: the clock and schedule it read, and how far it is |
| `editors` | an operator who read a revision to write the next one |

A tick observes, polls, looks whether the account is busy, prepares and claims,
in transactions of their own. `record_due` never returns another day than the
tick's own, so a tick works for one occurrence. It may stop at each step:
a missing digest, a refused claim or a kill look alike to the tables. Operators
configure, pause, resume, observe, poll, prepare, start and retry by hand. Time
counts instants of days; a calendar says which days are sessions, and a plan at
which instant of a full or a half session the schedule is due. The preview is an
operator beside the poll, and a property says that they agree. Reasons are left
out: no decision reads them.

### Decisions

| Variable | Code |
|---|---|
| `statuses` | `status_events` of each decision |
| `records`, `evaluations`, `intents` | `decision_records`, `policy_evaluations`, `order_intents` |
| `pairs` | `swap_pairs` |
| `review` | `execute_attempt` from its first submission on: sales first, what was accepted, the pair it owes |

`submit_decision` is one transaction, so one action: record, evaluation, statuses
and intent, or a failed status. `Appended` and `CanAppend` are `append_status`
for a path of statuses. The counts the policy sees are taken from the intents of
the New York day for live profiles and of the UTC day for the paper account, as
in the two context functions. A draft carries whether it passes the rules that
look at it alone or at portfolio weights. A submission by hand may replay,
misdate or malform any decision; a review's ids carry its attempt and are new.
Reviews stop between any two transactions.

### ReviewWorker

| Variable | Code |
|---|---|
| `status`, `expires` | the attempt's row and its lease; `RuntimeLease` has the tables |
| `step`, `since`, `started`, `deadline` | where `execute_attempt` is, since when, when it claimed, when `run_codex` gives up |
| `kind`, `stale`, `pass`, `answer` | its local variables: mode and crisis, `stale_fallback`, which pass, the result |
| `todo`, `owed`, `rows`, `reviewed` | what it still submits, the row a decision still owes, what it saved |

The worker is one thread, so its steps follow each other; what is concurrent is
time and whoever ends the attempt. A step lasts any time up to a constant, and
the lease moves only where the code calls `heartbeat`: there is no thread for
it, the poll loop of `run_codex` beats every ten seconds and nothing does while
a snapshot is collected or the model's processes are ended. `Fail` stands for
every exception that is caught, with the sweep and the status that follow;
`Kill` for the task's time limit, a crash and an exception that is not caught.
An answer is reduced to whether something required is missing (`shortfall`),
whether holdings are unanswered (`gaps`), and which kinds of decision and
reviews it has. Reviews that would be skipped are not among them. Floors,
triage, calendar and citations are left out or part of the ledger's row.

### HoldingReviews

| Variable | Code |
|---|---|
| `price`, `close`, `crossed`, `moved` | the snapshots of `thesis_prices`, reduced to the last one and since when it is past each limit |
| `fired`, `news` | rows of `triggers`, and headlines that no review triaged |
| `held`, `sales` | the position, and its order intents by how far they got |
| `review` | the latest thesis review: when, its verdict, its range, the price, and whether a trigger caused it |
| `run`, `busy`, `causes` | the prepared run of each kind, whose attempt holds the account, the causes of today's event reviews |

One holding, and days of six instants: night, morning review, tick, midday
review, an afternoon of ticks and the pre-close review, and the time after the
close. When a review is prepared is a matter of settings, so a scene names its
slots, among the three of `ops/README.md:93-95` and one after the close, as the
retired `live-close` was, whose answers may not trade. The ticks keep away
from the code's own list of slots (`events.py:32`). `Pass` lets time go on and brings a
snapshot. `Prepare` prepares the scheduled run and `CheckEvents` an event run; `ClaimRun`,
`FinishRun` and `FailRun` are the attempt. A run remembers what was asked when it was
prepared, and its answer is checked against that, so two runs that wait for the
same lease answer the same reasons. `Reasons` follows `holdings_due` from top to
bottom. `Gap` is what `_review_shortfall` and `unreviewed_holdings` ask of the
holding; what they ask of anything else is the attribute `other` of an answer.
Scenes restrict the days, the prices and the answers.

### XDigester

| Variable | Code |
|---|---|
| `stored`, `checkpoint`, `reads` | `x_posts` by the cycle that fetched them, `x_fetch_checkpoints`, the month's reads |
| `run`, `finished` | `x_runs`, with the batch a run exported |
| `route`, `digest` | `x_route_decisions`, and the file of each day |
| `session` | the process at work, with its run and how far it is |
| `roster`, `labelled` | the active accounts, and posts a person reviewed |

A session starts or resumes the run of a slot, fetches page after page of each
account until the budget is at its floor, exports what nobody has judged since
the cutoff, has its model judge, routes, renders and verifies. It may die between
any two commits: a fetch has four of its own, where it reads from, what X bills,
the posts and what remains of the page, and it may fail at each account. A run
looks back to the start of the run that finished last, the very first one for
24 hours (`DayAgo`). Posts have an order
and a day; each post of an answer may reply to one other and quote another, and X
bills every one of these that it includes (`client.py:110-118,164-166`), so a page
costs up to three times its posts. Between sessions the count of reads may be set
to what X has (`SyncUsage`). What the guards of the budget give is therefore
`ReadsInBudget`: `MostReads`, or the count as it was set by hand. One
session is at work at a time: two of them would race for the digest file, which
`render` writes without a lock. Media, notes, signals and texts are left out.

### PublicSource and Publication

| Variable | Code |
|---|---|
| `src` | the private database: decisions, intents, events, evidence, runs, attempts, occurrences, execution sessions and digest models; `count` and `changed` are the counters and the change log of its triggers |
| `day`, `config` | the accounting clock, and whether the live profile is configured for publication |
| `pub` | the public store: decision rows with sequence and content, activity items and their ids, counts, portfolios, revision and checkpoint |
| `publisher` | for the watcher and a publication by hand: the snapshot it opened and the checkpoint it compared with |
| `reader` | a reader of the feed: high-water mark, cursor, revision, what it got |

`Sections`, `SelectedBy` and `Rebuilds` are the triggers, by table: which counter
a write moves, which decisions it marks, and whether it asks for a rebuild.
Every action of the source is one transaction of its program and applies them.
A publisher opens a read transaction (`Open`), reads the checkpoint of the store
(`Compare`) and then writes in one transaction (`Commit`), or dies. `Published`
chooses between the code's three paths: activity only, details, and details with
portfolios; details are partial unless the profiles changed or a rebuild was
asked for. Content is a record of what may differ: status, evidence, narrative,
links, and the models behind the decision (`ModelProvenance`), which come from tables
that no trigger watches. The activity's items keep their public id from publication to
publication, and that column is unique: a publication that would give a second
item an id that is taken is refused as a whole (`Refused`). The wording of narratives, the arithmetic of portfolios, the exports, the
short calls and the monitor are left out.

## Runs

| Run | Instance | Shows |
|---|---|---|
| `runtime_lease` | one account, two runs, one of them worked by hand too, three attempts, lag 1, leases of 1 tick, a day of 3 ticks | the inductive invariant (all that is proved of the tables), that a run's outcome agrees with its decisions up to what `complete-live` writes after it read, and refinement of `FencedWriter` |
| `broker_ledger` | two intents, two packets, records and orders, four events | the inductive invariant (latest event, one identity, placement after a timely review, one submission) and refinement of `OrderFate` |
| `executor` | one intent, two attempts, a back-off of 2, a close at 3, five instants; and a sale with the buy it funds, under ticks that may be killed | one order unless a tick is killed, capped and spaced attempts, unrecorded orders reported, a paired buy that waits for its sale, ticks that end |
| `schedule` | one tick and operators at work by hand, two revisions, two attempts, a full day of two instants and a half one; and two schedules with two operators | one attempt per occurrence and in its window, what waits follows the latest revision, the preview agrees with the poll, what was claimed or skipped is never written again, and no edit lifts a pause its author had not seen |
| `decisions` | four decisions, a quota of one, brakes of two buys and one sale, six drafts, two days | quotas and brakes over all submissions of a day, swaps that are funded, final outcomes |
| `review_worker` | one attempt, live, paper or in crisis, five answers, a lease and a stretched lease each one longer than they must be | the lease outlives every step, the attempt ends in time, no money goes in unearned, a ledger means that all is saved |
| `holding_reviews` | one holding from a Tuesday to the Monday after it, over a Thursday and a Friday with a report and a spike, and over a Wednesday with four prices, two ranges and four answers | no holding is unreviewed for more than six days, no clean review leaves it beyond its range, triggered reviews keep their distance |
| `x_digester` | two accounts with up to three posts; pages left open over a weekend, a Friday's failed run before the weekly one, a half day, a day whose count of reads is set by hand | no gap in what is stored of an account, no stored post forgotten, no digest relied on that lacks a post, reads within the budget and one page |
| `publication` | an approved live order with its source, a rejected one of the same run, a paper order; eight scenes of three to five events | nothing behind the checkpoint, counts that match the feed, pages of one snapshot, revoked decisions that stay away, and a store that catches up |
| `executor_killed`, `executor_unpaired`, `x_rerun` | | the code departs from what its comments and documents say, see below |

*Bounds.* The interesting cases of the lease need two runs of one account, an
attempt that loses its lease, its successor, and one more (three attempts), and
a clock that passes three leases; two saved decisions suffice to order
two writers. `MaxLag = 1` lets an operation see a time before that of a
committed one. One `complete-live` at a time (`MaxCommands`) is enough for anything
to come between its halves; two of them meet only in the update, which looks
at the result again. For the ledger, four events allow a complete lifecycle and one
event that contradicts it, or two lifecycles that compete; window 1 and times
0..2 put a submission before, inside and after its window. For the executor, two
attempts and a back-off of two instants give every order of cap, back-off and
rerun, and the close within the horizon moves the boundary since which attempts
count; two orders in a scene make a duplicate visible; `MaxLines` is never reached
by the code and only stops a tick that would write for ever. For the schedule, a day of two or three instants has an
instant before, at and after the due time, a grace of one crosses midnight, and
two revisions are a first one and an edit or a pause. A second tick adds nothing a
claim, poll or preparation by hand does not do to the first. For decisions, a quota of one below a brake of two lets an
ordinary buy, a swap's and an exceptional one meet both limits, and the fourth
decision is the sale; the days show what a limit counts. For the worker, a
collection of four instants outlasts an ordinary lease, a crisis limit of three
and a minimum of one allow both passes, and the horizon is beyond the longest
attempt, so that one that took longer would show. For holdings, a review that a
trigger calls at the last tick of a Tuesday is the one whose cooldown covers
two review points and then runs into a weekend, so the bound of `Fresh` is reached
and one instant less is violated; to keep that week small it has midday and
pre-close reviews only, while the theorem has any; the four prices are one beyond
each limit and one within all. For the digester, a page of one post is the smallest that can leave a rest,
five reads stop in the middle of an account, and a failed Friday before the
weekly run is the only case in which a cutoff moves by two runs. For the
publication, each scene has the events that meet in one mechanism (sources and
orders; pages; a wrapped run; a review whose order is executed; occurrences; revocation with rebuilds and profiles;
two publishers; two publishers of a run that gets wrapped), since all at once is out of reach; one decision of each kind is
enough, as the triggers treat each on its own, and the second of the same run
is there for what spreads to it. Constants that are
bounds are named as such in their declarations. Ids that nothing tells apart
are symmetric; symmetry is used only with invariants, action properties and
refinement of safety specifications. Deadlock checking is off throughout:
clocks and counters are bounded, so every instance stops.

*Fairness.* Two runs need any. `executor`: weak fairness of the steps of a
running tick; a process that runs keeps running, and `run_broker_session` ends a
session at its timeout. `publication`: weak fairness of the watcher, which loops
every five seconds and is started again by its supervisor; nothing of readers,
operators or a publication by hand. Nothing is assumed of the broker, the worker,
the start of a tick or a kill. The other modules state safety only: no caller is
obliged to call. `ReviewWorker` needs none either: time stops where the
worker is due to go on, so that it ends in time is an invariant.

## Where the code departs from what it says

* `executor_killed`: the attempt's line is written after the session. A tick
  killed in between leaves no trace in the attempt history, so the next session
  gets no recovery warning and can place a second order while the first is
  open. `executor.py:372-373` says a retry always checks. The row in
  `execution_sessions`, committed before the session, would show the attempt.
* `executor_unpaired`: a swap's buy is committed before its `swap_pairs` row. In
  between, or for good if the worker stops there, the buy looks like any other
  and is sent before its sale (`executor.py:267`).
* `x_rerun`: a failed run that is started again keeps its first `started_at`
  (`pipeline.py:91`) and takes the links a later run queued for its own; their
  second route decision breaks on the primary key outside the `try` that would
  mark the run failed. It stays `started`, is refused by every later `cycle`, and
  counts as incomplete for the reviews of its day.

Others were met while modelling and have no run of their own.

* A submission by hand that commits between the read and the update of a
  `complete-live` leaves a run `NO_ACTION` with a linked decision
  (`records.py:139-159`), which `complete_reasoning_run` itself refuses to write
  when it sees it. A second `complete-live`, or a worker's finish, in that place
  makes the update a no-op that is reported as a completion. `OutcomeMatchesLinks`
  states the first as its exception.
* The models behind a decision (`publication.py:491-528`) are read from
  `execution_sessions` (written by `executor.py:299-304`) and `x_digest_notes`
  (`x/pipeline.py:263-287`), two tables without a trigger
  (`publication_changes.py:6-29`). A session that ends without a packet, a record
  or an event, or a digest stamped after the review, changes what should be
  published of a decision and moves no counter: the row stays as it was until
  the decision changes otherwise or a rebuild is asked for, while the checkpoint
  says that nothing is behind. `docs/public-release.md:243` promises about five
  seconds. `CheckpointIsHonest` is stated up to these models (`Untraced`).
* The reads of a month can pass the "monthly ceiling" of `x/posts.py:8-12`: a fetch
  may start just above the floor of 100 and record a page of 100 posts with 200
  more that they refer to, 5199 of 5000. The spending limit at X, which that
  comment names as the last protection, is not modelled.
* `record_due` ignores sessions due before the latest revision
  (`schedules.py:204`). An occurrence that waits in its grace window when a
  revision is saved, for instance by a pause and resume, is neither claimed by a
  later poll nor skipped, and its row says `waiting` for ever;
  `docs/reasoning/RUNTIME.md:254-256` has "After grace they become skipped."
* `holdings_due` looks at the latest review only (`holding_reviews.py:361`), so
  an intact verdict lifts the demand to sell of an invalidated one, if the review
  with the gap is accepted at all; `worker.py:511-513` says "a later intact
  verdict doesn't lift that."
* The short calls are written only when the performance counter, the profiles or
  the day changed (`publication.py:994-995`), and a decision for the short
  watchlist moves `details` only (`publication_changes.py:7`). Its call is
  missing until the next price or valuation, while the monitor says current;
  `docs/public-release.md:243` promises about five seconds.
* A publisher reads the checkpoint before it has the write lock
  (`publication.py:244`). The watcher and a publication by hand can so overlap
  that the one with the older snapshot commits last and the other's partial
  update is lost until a row of it changes again (what is there instead was true
  once: `OverlapsInventNothing`). `CheckpointIsHonest` is
  therefore claimed while no two publishers were at work at once; counts and
  ids are checked with two as well. If a reasoning run was wrapped between their
  snapshots, the publication that commits later can even be refused, since its
  item for the run claims the public id that the other's item holds.
* `reviews_today` is a part of the portfolio row that only a publication of
  details redoes (`publication.py:946-993`), so a review that ended without a
  decision is missing from it until the next one.

The cap of two buys a tick is applied before buys that are capped or wait are
skipped, so two of those hold both places until the close (`executor.py:249-252`). After an
early close the attempts of the day no longer count, since intents live until
midnight (`executor.py:256`); the executor's properties are therefore stated
between two closes. And the immediate second session of a tick is newer than the
sentence about fifteen minutes in `ops/README.md:152-153`.
The paper quota counts intents whose UTC date is the New York day of the
submission (`paper/context.py:46`), so one made in the evening counts for the
next day; the limits in `QuotaHolds` are stated for live profiles only. One
accepted sale funds every candidate that names it (`worker.py:1222-1240`). The
limits on holdings and theme weight are checked against a snapshot, which has no
approved but unfilled buys.

With the code's numbers the longest crisis review, 2700 seconds of model, two
collections of up to ten minutes, thirty seconds of clean-up and its own work,
exceeds the 60 minutes of the review task (`install-runtime-tasks.ps1:101`), so
one can be killed during its submissions. What it saved by then stays, without a
ledger. Its attempt stays `running` until the next claim, `reconcile` or the
dashboard sweeps it. A second pass that fails or runs out of time also loses a
first answer that had only gaps and would have been accepted without the time
for a second one (`worker.py:1045-1062`).

## Proofs

The constants are unbounded in all theorems: any finite or infinite set of ids,
any lag, any horizon.

`RuntimeLease_proofs` proves `Spec => []IInv` and its consequences. None of the
safety properties is inductive alone. `OneRunningPerScope` needs
`LeaseMatchesAttempt`, which ties a running attempt to the lease of its scope;
`WritesFollowFences` needs `FencesUnique`, that no fence is ahead of its lease,
and that a valid fence belongs to the lease's current attempt (`FenceMeansHolder`);
`SuccessIsLast` needs `NumbersUnique` and `RunningIsLatest`, so that the attempt
a retry looks at is the one that succeeded. The sweep of expired leases occurs
inside two actions and is treated once, in the `Sweep...` lemmas.
`OutcomesHold` adds what the tables and the reasoning runs say of each other
(`OutcomeInv`): an outcome that was told was told by hand or by an attempt that
succeeded, and none follows such an attempt, so no link appears under it
afterwards. A `complete-live` under way agrees with what it read unless its run was
overtaken since, which is the exception of the property. The refinement
of `FencedWriter` maps a claim to an eviction of the swept scopes followed by
the acquisition, a reconcile or a finish to a release, and a submission to an
accepted write; heartbeats, preparation and the clock stutter.

`BrokerLedger_proofs` proves `Spec => []IInv` and, from it, every property the
ledger's run checks. The ledger compares a new event with the latest one only,
and finds that one by the callers' times. What makes this enough is that the
latest event of a lifecycle exists and is unique (`LatestExists`,
`LatestUnique`) and that an accepted event is not earlier than any of its
lifecycle (`AcceptedEvent`), so it becomes the latest (`AppendKeeps`).
`PlacedWasReviewed` needs `ReviewsAdmitted`: what a record finds in an old
review was checked against the packet when the review was written.
`OneSubmissionPerIntent` follows from `PlacedRecorded` and the uniqueness of an
intent's record, and needs no argument about the statuses. The refinement of
`OrderFate` maps `SaveRecord` to `Place` and an event to `Review`, `Work`, `End`
or, for a further partial fill, a stutter.

`Reviews_proofs` proves all that the worker's run checks, from two
assumptions: the ordinary lease is longer than a pulse, the clean-up and the
worker's own work, the stretched one longer than a collection and its own work.
The second part of each sum, `Work`, is an assumption about the machine: with
120, 10, 30, 720 and 620 seconds it may be up to 79. `InTime` says of each step
how much lease is left when it began and how long after the claim it can begin
(`StillToCome`, `Latest`); every action establishes the figures of the step it leads
to. `Content` says that what is saved and what is still to be submitted make up
what was accepted, which is what the ledger may then rely on.

Of holdings it proves every property their run checks, for any prices, ranges and
stretch of days. `RunStep` and `ReviewStep` say once what a step can do: leave a
run as it was prepared, end it or prepare it now; leave the last review or make
one of now. `Settled` needs `NamesTheRange`: a run names its range as missing or
the limits its price was beyond, cooldown or not. `TriggersAreSpaced` needs
`CooledRuns`: a run prepared in a cooldown, after the last review, names a trigger
only if the price moved since that review; a run that waited while another one
ended is the exception the property states. `Fresh` is the longest argument. A run
that does not name the schedule was prepared after a review that covers its
point or in a cooldown (`RunsAreDue`); from noon on, that point is today's or
yesterday's (`PointIsNear`); so after a clean midday review the last one is less
than a cooldown older than that noon (`CleanMiddays`, `KeptFresh`), and from one
weekday's close to the next there are three days at most. The cooldown is any
number of days from two on: with less, the points alone decide.

`Schedule_proofs` proves every property the schedule's run checks. The parts of
`TypeInv` beside the types say what the tables owe to time: an observed schedule
was saved, ticks and recorded occurrences are not ahead of the clock. Every step
is an edit, a claim, a poll's move of one occurrence, or leaves rows and attempts
alone (`Steps`), and `AttemptsInv` is the conjunction of `OncePerOccurrence` and
`FirstInWindow`, which is inductive under that case split: a waiting occurrence
carries the latest revision because an edit resets it, and is claimed only while
it waits. `CountdownAgrees` shows that what the preview takes for due and what a poll would
make ready both come down to today's session, past its due time and within its
grace (`TodayIsReady`, `Greatest`). `SettledIsFinal` uses the same case split: a
poll and an edit change rows that wait only, and a claim that finds one claimed
already, a retry, leaves it so. `NoneResumesBlindly` needs that an editor whose revision is still the latest has
seen it as it is (`EditorsFollow`).

`Decisions_proofs` proves every property the decisions' run checks. A decision
has one of five histories (`RowsOf`), so its first submission is its last word,
and a submission does nothing, fails, or writes all its rows (`Steps`). Reviews
are where strengthening is needed: `Remembers` says that the sales a review has
accepted are in the tables under its profile and day and that the buys it owes
a pair were funded by one of them, which is what backs the pair it writes later.
The quotas follow from the count the policy sees at each submission, over sets of
intents that are finite because each step adds one.

`LiveExecutor_proofs` proves `Spec => []IInv` for any number of executors: types,
an order of intents without repetition, sessions that work on an order that
exists (`Linked`), a ledger that calls an order filled only after the broker
filled some of it (`SaidIsSold`), and, if nothing is killed, that an order the
ledger does not know is in a line with a problem or its session is still to say
so (`Heard`). From it follow the types, `UnrecordedIsLoud` and
`PairedBuyFollowsSale`. The spacing of attempts and the single order are proved
with an assumption, `Alone`: one executor at a time. It is what Task Scheduler
grants its own task (`-MultipleInstances IgnoreNew`, `install-runtime-tasks.ps1:39`)
and nothing the code enforces: an executor started by hand beside a tick reads the
same history, and with two of them TLC finds both properties violated. `PacedInv` says that a tick's snapshot of the history is
still the history for the intents it has not come to, kills included;
`OnceInv` that, before the close and without kills, an intent the tick takes
for untried has no order.

`XDigester_proofs` proves every property the digester's run checks, over
`TablesInv`, the tables' types with what ties a run's status to the session at
work and to the list of finished runs. `DigestInv`: a day's digest is current, or
a run of the day is routed and not rendered, and what a session has rendered is
still current when it writes the statuses. `LostInv`: a post that waits was
stored after the start of *every* run that has finished, not of the last one
only, because the last one changes when a run is routed again. `GapInv`: a post
that is missing below a stored one is excused by the window, or still ahead in
the page that its account has open; a page is the upper end of what it is taken
from (`PageIsUpper`), and a place stays sound because posts and the day only go
on. The clock, the budget, the page size and the feeds are arbitrary.

`Publication_proofs` proves every safety property the publication's run checks,
for any decisions, runs, occurrences, publishers and readers.

* `CountsMatchFeed`, with the shape of the store: what is counted of a scope
  depends on the rows of that scope only (`CountsDependOnScope`), a revocation
  recounts its own scope and leaves the other, and a publication recounts what
  was counted before.
* `TypeOK` with `WellFormed`: a row has the creation of its decision, its links
  are ids of the activity, and a publisher's snapshot is an earlier source.
* `CheckpointIsHonest`: `Since(s, t)` relates two sources by what the counters
  of `t` say has not changed since `s`. Each operation of the source is such a
  step (one lemma each, from the rows it writes, `RowsName`), and the relation is
  reflexive and transitive. While publishers work one at a time, the store mirrors
  some earlier source `s` with `Since(s, src)` (`Reflects`), and a partial
  publication carries it over to the publisher's snapshot (`CommitMirrors`). That
  ids follow the items of an earlier source (`IdsOf`) is why such a publication is
  never refused (`NoneRefused`). Sessions and digest notes are the steps that
  leave every counter alone (`StartSessionSince`, `StampSince`): `Since` holds over
  them because it compares a decision up to its models.
* `PagesAreOneSnapshot`: what a reader has is the feed's newest rows down to its
  cursor, as long as no row below the high-water mark was rewritten (`Paging`).
* `RevokedStaysGone`: positions and rules lead to shown rows only
  (`SurfacesAreShown`).
* `OverlapsInventNothing` is about publishers that overlap, where
  `CheckpointIsHonest` says nothing. A history keeps every source, day and
  configuration there was; each row, item, portfolio, board and checkpoint of the
  store is the projection of one of them, and a row was eligible in it. The
  invariant adds that a publisher's snapshot is in the history (`Remembered`). An
  overlap can set parts of the store back to what was true earlier; it never
  publishes what was not. The history grows with every step and would multiply
  the states of the run, so no run checks this one.

So every safety property of every passing run is a theorem. Model-checked only:

* liveness (`CatchesUp` of the publication, the tick of the executor that ends),
  which the prover does not handle, as it does not handle `ENABLED`;
* what happens once a tick is killed or a pair's row is missing, by the runs
  that expect a violation.

The installed provers cannot instantiate the induction theorems of the library.
What little induction the proofs need is done by the least or greatest element
of a set of numbers, or by a smallest counterexample among finite sets, which
follow from the well-foundedness of the naturals without an operator as a
parameter. Lists that the code filters are stated by their places for the same
reason: the executor's history, and the list of finished runs.

## Plan

Done: all modules above, and a proof of every safety property of a passing run.

Next, in this order:

1. How far back an overlap of two publishers can set the store:
   `OverlapsInventNothing` bounds it by what was once true, not by how long ago.
2. Crisis mode, the held-back buys and the watchlists: their switches meet the
   worker's ledger transaction only.

Not modelled:

* rendering, prompts, HTTP and parsing (`dashboard`, `public/server.py`,
  `newsletters`, `reason/intake.py`, the public UI): their output is text, and
  the operations they call are modelled where they are defined;
* arithmetic on prices and returns (`broker/packet.py`, `paper/broker.py`,
  `performance`, `regime`): it is on floating point or decimals, with no
  protocol around it but an idempotent upsert;
* caches of external data (`prices`, `events`, `broker/collector.py`): what they
  answer, fail to answer or answer late is an input of the modules that read it;
* tables and migrations (`storage/database.py`): keys and unique columns appear
  as guards of the operations that meet them.

Known limits of what is modelled. `XDigester` excuses posts after two runs in a
row that ended without an export, one before the weekly run, or a day that passed
before the very first run ended: a cutoff reaches back one run or 24 hours, so
these are lost in the code, too (`covered` says when). Two
sessions of the digester at once are left out. `LiveExecutor` is written for any set
of executors, but its instances have one, and two of its theorems assume one (`Alone`): an
executor started by hand beside a tick reads the same intents, and both would
open a session. A
cancel whose time is older than a heartbeat committed meanwhile is refused in
`RuntimeLease` as in the code, and no property is about it.

`PROJECT.json` says of each component what is modelled and what is not.
