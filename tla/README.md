# A TLA+ model of the Echo agent governance server

This directory models and verifies the server of this repository (`src/main.py`
and `src/app/`): a registry of versioned assets (prompts, tools, guardrails, ...)
with change requests, reviews, evaluations and a CI gate in front of it, and the
machinery around it: an audit hash chain, outbound webhooks, a telemetry outbox,
a rate limiter, and the Python SDK (`src/sdk/`) whose clients retry their calls.

- `tlc -config X.cfg M` checks a run; `PROJECT.json` lists the runs, the mutants
  that show each property can fail, and the source lines of every definition.
- `tlapm M.tla` checks the proofs of M, for M in `NumberLemmas`,
  `GovernanceProofs`, `ActivationProofs`, `AuditProofs`, `WebhookProofs`,
  `TelemetryProofs`, `SdkProofs`, `RateProofs`.

## 1. Inventory

### How the program runs

Almost all handlers are synchronous functions that FastAPI runs in a thread
pool, each with a database session of its own (`get_db`); autoflush is off
(`main.py:69`), so what a handler adds is written at `COMMIT` or an explicit
`flush`, and a query does not see it before. The ORM writes only columns whose
value differs from the one loaded. The default database is SQLite: one writer at
a time, from its first write to `COMMIT`; reads see what is committed. The
compose file uses Postgres at READ COMMITTED. Three background loops (telemetry,
edit locks, webhooks) have sessions of their own. Handlers call each other only
as functions (`_activity`, `_enqueue_telemetry`, `_ensure_review_request`,
`_execute_evaluation`); everything else is shared tables, the limiter's buckets
and the two remote receivers. SDK clients are other processes: they see answers,
lose some of them, and repeat their requests.

| Component | State | Operations | What makes it hard | What makes it correct |
|---|---|---|---|---|
| Version lifecycle | `asset_versions.status` | create, activate, decide, review opened | overlapping activations, an activation on a stale approval, decisions that take a running version offline | one active version per asset, cleared, served or replaced in one step |
| Change requests, GitLab import | `change_requests` | create, import, webhook | several paths write the same change | each reviewed change has exactly one request |
| Reviews, comments | `review_requests`, assignments, blocking comments | create, decide, list, comment, alert | self-approval over several steps, decisions changed later, decisions that cross | only independent approvals count, each once, and the stored status follows from them |
| CI gate | reads all of the above | `ci_gate_check` | three sources of a verdict that overwrite each other | passes only what is cleared and evaluated |
| Guardrail engine | none | `evaluate_runtime_guardrails` | rule types, defaults, rules that raise | more rules never relax a decision |
| Evaluation engine | `evaluation_suites`, `evaluation_runs` | create suite, run | rounding at the threshold, stale runs | blocked calls count as failures |
| Audit chain | `activity_events` hashes | `_activity`, verify | read before lock, two events per transaction | no fork, no unnoticed edit |
| Webhooks | `webhook_deliveries`, subscriptions | fan-out, loop, flush, redeliver, test, update, delete | last writer wins, crash between POST and COMMIT, lost answers | the record says what happened, every delivery settles |
| Telemetry outbox | `telemetry_outbox` | enqueue, loop, flush, send now | the same, with batches and unbounded retries | the same |
| Rate limiter | buckets in memory | `check_rate_limit` | clock read before the lock | the cap holds, a refusal is justified |
| SDK client | attempts of a call | request loop, against the handlers that log, check, register and comment | retries of what was done, overlapping attempts, lost answers, failures after `COMMIT` | keyed rows are kept once, what the caller is told is so, every call ends |
| Auth, tenancy | context variables | token check, query filter | propagation between threads | not modelled, section 6 |
| Edit locks, incidents, tasks, users, metrics, migrations, dashboard | | | | not modelled, section 6 |

### The code as committed

Two accidents keep the application from starting as it is: `app/metrics.py`
has an indentation error (line 45), and two lines of `_deliver_one` stand at
module level in `app/webhooks.py:189-190`, where `delivery` is not defined. The
models take the handlers' bodies as they are meant, with these lines put right.
A third does not stop it from starting: `authenticate` is a synchronous
dependency, run in a worker thread, and the context variables it sets
(`app/auth.py:118`) do not reach the endpoint. Modules that depend on the tenant
in a handler model a handler that has one; `RateLimit` models that the limiter
never has.

## 2. Modules

| Module | Models | State and actions |
|---|---|---|
| `Gate` | the risk policy and the verdict of `ci_gate_check` | operators: `Policy`, `RecordVerdict`, `GateVerdict` |
| `Guardrails` | `evaluate_runtime_guardrails` | operators: `Blocks`, `AsksReview`, `Decision` |
| `Evaluation` | `_run_single_assertion`, `_execute_evaluation` | operators: `AssertionHolds`, `CasePasses`, `Scores`, `RunStatuses` |
| `Governance` | all handlers on versions, changes, reviews, suites, and the gate | a variable per table; an action per handler, which is one transaction |
| `GovernanceProperties` | what `Governance` is checked for, and the mapping to the registry | |
| `VersionRegistry` | abstract: the one version each asset serves | `Switch`, `Review` |
| `MCGovernance` | constants of the instances | |
| `VersionActivation` | create, activate and decide, statement by statement | committed rows and assignments, the write lock, a program counter per thread |
| `AuditChain` | `_activity` and `verify_chain` in interleaved transactions | the table, the write lock, pending inserts per thread |
| `WebhookDelivery` | deliveries to one subscription | committed rows, a session per worker, what the receiver saw |
| `TelemetryOutbox` | events for Datadog | committed rows, a session per worker, what Datadog accepted |
| `SdkClient` | `_request` of both clients and the handlers it calls, on top of `TelemetryOutbox` | a call per client, the state of each attempt on the server, committed rows |
| `RateLimit` | one path of the limiter | clock, buckets, threads between clock and lock |
| `NumberLemmas` | no code: facts about sets of numbers and sums over finite sets that the proofs share | |
| `GovernanceProofs` | theorems about `Governance` and `Guardrails` | |
| `ActivationProofs`, `AuditProofs`, `WebhookProofs`, `TelemetryProofs`, `SdkProofs`, `RateProofs` | theorems about `VersionActivation`, `AuditChain`, `WebhookDelivery`, `TelemetryOutbox`, `SdkClient`, `RateLimit` | |

`Governance` extends `Evaluation`, which extends `Guardrails`, which extends
`Gate`: the gate reads runs, and a run asks the guardrails. `VersionActivation`
is the same lifecycle at a finer grain: it shows where treating a handler as one
step is justified (`AtMostOneActive` under SQLite) and where it is not
(`ActivationTakesEffect`; decisions that cross). `SdkClient` extends
`TelemetryOutbox`: its handlers commit a row together with the events they
enqueue, and the flushers run beside them. `TelemetryOutbox` is at the same time
the abstract specification of that composition (`ImplementsOutbox`).

### Abstractions

*Governance.* One tenant. A `.first()` without an order returns any matching row.
Requests answered with an error change nothing and are no actions. No assignment
is the same as one that is pending. Assets exist beforehand; `Reviews` and
`Changes` bound how many rows are created. How a merge request is matched to a
change and an asset is a choice of the action. A version's guardrails and a
suite's cases are constants, because no endpoint edits them. Texts are sets of
words and a substring is a member. The score of a run is the nearest integer to a
quotient that Python computes in floating point (23 of 40 is 57.49999999999999 per
cent), so where it lies halfway between two integers either one is possible
(`Percents`); weights so large that the error reaches further are left out, and so
are negative or missing ones, which the code replaces by 1. Audit, telemetry, incident and task rows are
left out here: nothing that is modelled reads them.

*VersionActivation.* One asset whose versions are tags, each with a review
request if it is in `Reviewed` and exists at the start. A request is a status and
its assignments; `Required` approvals satisfy it, `MaxRows` bounds its
assignments. A reviewer decides `approved` or `rejected`: `changes_requested`
tallies like the latter, and `pending` like no decision. Blocking comments are
left to `Governance`. A lock error may come whenever a thread waits, which covers
timeouts and deadlocks. `crossed` (two decisions on a request overlapped) and
`raced` (a decision and an activation did) only observe.

*AuditChain.* The hash of an event is the sequence of records up to it, so it is
free of collisions. SQLite may use the id of an aborted row again, which only
renumbers the table.

*WebhookDelivery.* One subscription; `posts`, `acked`, `everOff` and `disturbed`
only observe. A delivery is `disturbed` once two workers hold it at the same time,
a user has it sent again, or an acceptance is lost with its answer, its `COMMIT` or
its worker. Deliveries stand for their `delivery_uuid`: that of a test that was sent
but not committed is not used again. A deleted subscription follows SQLite, which
does not enforce its foreign key.

*TelemetryOutbox.* `received` and `disturbed` only observe. Every handler enqueues for
Datadog, so the branch for other providers is not there. The write lock that a
`send_now` holds during its POST is left out: more interleavings than SQLite has.

*SdkClient.* Each client makes one call, to `runtime_check`, `log_execution`,
`create_change_request` or `create_comment`; the clients of a kind send the same
key (`request_id`, `commit_sha`, `idempotency_key`), the hard case. A handler is
the look-up of the key, then a `COMMIT` with the row and its events, then a
read-back that may fail. All retryable statuses (429 and 5xx) are one answer,
"5xx", all others that raise are "400". The delays between attempts are left
out: a repeat may come at any time, which includes every delay. A timed-out
handler runs on. `MaxOperations` is shared by calls, lost answers, refusals,
flush requests and failures, so every behaviour ends in a part in which nothing
fails any more. A handler that would need more event ids than `MaxEvents` fails
without a commit. `stored` stands for the tables, which a look-up reads; `made`
and `raced` only observe.

*RateLimit.* Time is counted in ticks, two to the second and four to the window.

## 3. Runs

| Run | Shows | Instance and why it is enough | Size |
|---|---|---|---|
| `governance_versions` | `AtMostOneActive`, `ApprovalIsBacked`, `ImplementsRegistry` | two assets, three versions (a pair that competes and one that must not be touched), one request, two interchangeable users (two approvals may be required) | 55k states |
| `governance_gate` | `TypeOK`, `NoSelfApproval`, `OneRequestPerReviewedChange`, `PassMeansCleared`, `UnclearedHighRiskBlocked` | one change and version, room for a second request, one user who may be author and reviewer beside the two webhooks; changes arrive pending or declared approved | 530k |
| `governance_evaluations` | `PassMeansEvaluated`, `BlockedCallsNeverShip` | two suites at a threshold of 80, of weights that round to 79 and that may round to 79 or 80, global or not, blocking or not; outputs good or missing; nobody decides | 292k, 60 s |
| `governance_guardrails` | violates `GuardrailsBlockedUntilApproved` | a guardrail asset and a low-risk change | |
| `activation_sqlite` | `TypeOK`, `AtMostOneActive`, `ActiveIsCleared`, `StatusFollowsDecisions`, `Answered` | two threads, two versions, one with a request of two reviewers who must both approve, SQLite: two activations, two decisions, or one of each may overlap, and a doubled approval would count | 1.2M, 160 s |
| `activation_stale` | violates `ActivationTakesEffect` | the same | |
| `audit_chain` | `TypeOK`, `LockedEventsLink`, `EditIsFlagged`, `VerdictIsStable` | two threads, five events, one edit: a fork needs two transactions and a predecessor | 400k |
| `audit_seed` | violates `UneditedChainIntact` | one handler that records twice | |
| `webhook_delivery` | `TypeOK`, `DeliveredMeansAcked`, `AttemptsWereMade`, `GivenUpForAReason`, `SentAgainForAReason`, `SettledForGood`, `EveryDeliverySettles` | two deliveries, two attempts, batch of one, the loop and a handler, three requests or failures: two workers may meet on a row, and a crash or a lost answer may come between their POSTs and their `COMMIT`s | 493k, 55 s |
| `telemetry_outbox` (module `SdkClient`) | of the outbox `SentMeansReceived`, `ResentForAReason`, `SettledForGood`, `EveryEventSettles`; of the calls `ClientTypeOK`, `KeptOnce`, `AnswersAreTrue`, `RepeatedForAReason`, `EveryCallEnds`, `ImplementsOutbox` | two clients with two attempts, so that attempts of one call and of two calls overlap; three events (one log call), batch of two, the loop and a handler, three requests or failures | 474k, 120 s |
| `rate_limit` | `TypeOK`, `WindowIsCapped`, `RefusedOnlyWhenFull`, `RoomSoonAfterRetry` | two threads, two tenants, a cap of two, a window of four ticks, eight ticks | 640k |
| `rate_limit_tenants` | violates `RefusedForOwnRequests` | the same | |

Bounds are constants: `Reviews`, `Changes`, `Suites`, `MaxRequired`, `Required`,
`MaxRows`, `MaxEvents`, `MaxEdits`, `MaxDeliveries`, `MaxAttempts` (a setting of the code
for deliveries and for clients), `MaxOperations`, `MaxTime`, `MaxDelay`. The proofs of
section 4 hold for any values of them. Where a
run says `CHECK_DEADLOCK FALSE`, the model ends when its bounds are used up.
Symmetry is used for users in `governance_versions` alone, which checks no liveness.

### Fairness

`WebhookDelivery` and `TelemetryOutbox`: the loop wakes up for ever (it catches
every exception but its cancellation), a worker that has loaded rows goes on
(requests have timeouts), backoffs end. Failures, and for telemetry restarts, are
bounded by `MaxOperations`: while the receiver refuses, nothing settles, and no code could make it.
`SdkClient`: as long as handlers run, some handler goes on (a thread pool makes
progress, though it may prefer one thread for ever), and as long as clients wait,
some answer is read or the time of some attempt is up (every request has a
timeout). No fairness of a single handler or client is assumed.
`VersionActivation`: a handler that was started runs on, because a wait for a
lock ends in an error at the latest. Nothing else assumes fairness.

### Disagreements found

Each is a run that must be violated and is quoted in `PROJECT.json`.

1. `governance_guardrails`: a guardrail change that "must be approved before
   deployment" gets *warn* when it declares a low or medium risk and has an
   unapproved review request (`main.py:2190`).
2. `activation_stale`: an activation is answered 200 and no version is active
   (`main.py:1890`).
3. `audit_seed`: two activities in one transaction break the chain, in the demo
   seed and in the GitLab webhook (`main.py:1056`).
4. `rate_limit_tenants`: all tenants share the bucket of a path
   (`app/ratelimit.py:36`).

Seen without a run: the user guide says other versions become `approved` on
activation (`USER_GUIDE.md:214`, `:272`, `:458`, `:466`), the code makes them
`deprecated`; it says low risk always passes (`:542`), the code has several
reasons to block it.

## 4. Proofs

The proofs hold for all values of the constants, from the assumptions that the
modules name (`GovernanceAssumption`, `ActivationAssumption`, ...) and nothing
else. The one that says most is `SuiteAssumption`: a suite has finitely many cases,
each of a positive weight, and a threshold from 0 to 100, which is what the request
models admit (`main.py:810`, `:817`) and the engine makes of a weight (`:1564`). Where a theorem holds on SQLite only, `Isolation = "sqlite"` is in its
statement. Each proof has the same shape: an invariant that is inductive
together with the types, one step per action, and `PTL` to conclude.

`GovernanceProofs`

- `TypeCorrect`: one lemma per group of handlers.
- `OneActive`: `AtMostOneActive` is inductive with types. Only few handlers write
  a status (`OnlyStatusWriters`), those that write "active" demote the others in
  the same step (`PromotedUnique`).
- `OneRequest`, `NobodyApprovesAlone`: from
  `GovernanceInv == References /\ OneRequestPerReviewedChange /\ NoSelfApproval`.
  `References` is needed because a decision looks at the author of the change
  only if the request's change exists, and because a request row must not be
  born with approvals. `Frame` says once for all actions what a step keeps:
  rows stay, their author and change stay, at most one request is added and
  only for a change that has none.
- `GatePassesOnlyCleared`, `GateBlocksUncleared`: consequences of the invariant,
  since nobody approved for themselves makes an approved tally a clearance
  (`TallyCleared`) and there is one request to find.
- `GatePassesOnlyEvaluated`: a consequence of the types and the verdict.
- `FewerObjectionsNeverStricter`: the verdict is monotone in the facts of a check,
  but for changes below high risk with an unapproved request, where the request
  replaces a block by a warning (the first disagreement above).
- `RefusedCallsNeverShip`: from `HopelessRunsFailed`, no run on record has passed
  where the guardrails block so many plain cases that the rest cannot reach the
  threshold. A blocked plain case never passes, so the passing ones are among the
  rest; a sum over fewer cases is no larger (`WeightOrder`), nor is what it rounds
  to (`PercentOrder`). The gate looks at the last run only, hence the invariant.
- `EveryRunIsScored`, `MorePassesNeverLower`: the score is defined, is between 0 and
  100, is 100 if every case passes, and a further case that passes never lowers it,
  although a tie may be rounded either way.
- `ApprovalsAreBacked`: only a decision makes a change or a version approved, and
  `NoSelfApproval` after the step makes its tally a clearance.
- `HandlersKeepRegistry`: the refinement of `VersionRegistry`. `AtMostOneActive`
  makes `Served` the one active version; a promotion is then `Switch`, a review
  opened or decided is `Review`, and everything else leaves the mapped state alone.
- `MoreRulesTighten`: rules added to a version that has some never relax the
  decision on a call. The first rule of a version may: it replaces the default.

`ActivationProofs`

- `OneActiveOnSqlite`: `AtMostOneActive` alone is not inductive; `LockInv` adds that
  the snapshot of whoever holds the write lock is current: what an UPDATE matched
  or demoted is exactly the set of other active versions.
- `ActiveOnesAreCleared` on either database: `ClearedInv` says that an activation
  past its check still has its approvals, and a decision past its load knows
  whether the version is active, unless the two overlapped (`raced`).
- `StatusesFollow` on either database: `DecidedInv` says that a decision with no
  other beside it on its request knows what the request will look like: the
  assignments it tallied are the committed ones with its own put in.

`AuditProofs`: `EditsAreFlagged` needs only that a hash covers the record it was
computed of, and holds on either database. `LockedOnesLink` and `VerdictStays` are
about SQLite, from `LinkInv`: whoever has inserted holds the lock, its rows are the
last ones, and a handler that wrote first has read the tail they follow.

`WebhookProofs`: `DeliveredWasAcked`, `AttemptsWereReal` and `DeadForAReason` from
`HonestInv`: not only the rows, but all that any session has loaded or computed is
honest about the POSTs made so far. That is what survives a last writer who puts
his stale row over a newer one. `SentOnce` and `SettledStays` from `RecordInv`, which
says of every delivery that was not `disturbed` that one worker at most holds it,
that it was undecided when loaded and still is in the table (or is a test without
a row yet), and that an acceptance, if there was one, is in its row or in that
worker's session. `HonestInv` alone does not keep a stale session from a settled
row; `RecordInv` does, because the batch is taken from undecided rows only. One
lemma per kind of step (`MarkTracks`, `TakeTracks`, `CommitsTrack`, ...) rests on
`TrackedStays`: nobody new holds the delivery and nothing about it is taken back.

`TelemetryProofs` and `SdkProofs`

- `OutboxInv` says of every event that is not disturbed where its one acceptance
  is recorded: in its row, or in the one session that holds it. The theorem
  `OutboxIsHonest` is about the outbox by itself.
- `CallsAreOutboxSteps` is the refinement: a call, a repeat, a lost answer is a
  request or nothing to the outbox, a commit enqueues its events all at once. The
  outbox theorems follow for the composition (`SentWasReceived`,
  `ResentOnlyForAReason`, `SettledStaysSettled`).
- `EveryKeyKeptOnce` from `KeptInv`: no two rows of a kind, and none while a handler
  is about to add one, unless look-ups raced or a constraint will refuse it.
- `CallersAreToldTheTruth` from `TruthInv`: an answer is true when it is given, and
  stays so until it is read, though other attempts commit in between.
- `RepeatsHaveAReason` from `RepeatInv`: attempts are made in order, and an answered
  one that stored a row ends the call or keeps every later one from storing.

`RateProofs`: `CapHolds`, `RefusalsHaveAReason` and `RetryAfterIsClose` from `LimitInv`:
the bucket holds the stamps of the last requests let through, in that order, those
before are older than the window, and stamps are out of order by `MaxDelay` at most.

`NumberLemmas`: every set of numbers has a smallest element (the first row of a
batch), by the well-foundedness of strict subsets; what follows for largest
elements and for the next free ids. And sums: the community modules define a sum over
a finite set by a recursion over choices, of which the provers can unfold only a step
at a time. `SumsUp` spells the recursion out as a function on subsets; by induction
over the number of elements (`SetInduction`, from the smallest element above), such
a function exists (`SumExists`), two of them agree (`SumUnique`), any element may be
added first (`SumAnyElement`), and the sum over two disjoint sets is that of the
parts (`SumDisjoint`).

Only model-checked: all liveness (`Answered`, `EveryDeliverySettles`,
`EveryEventSettles`, `EveryCallEnds`), which is out of the prover's reach. Every
other property of a run that passes is stated by a theorem. Induction over data
cannot be cited from the library here; the one that was needed, over the cases of
a suite, is done by hand in `NumberLemmas`.

## 5. How it was built, and what could follow

Written in this order: `Gate`, `Governance` with its properties and first proofs,
`VersionActivation`, `AuditChain`, `WebhookDelivery`, `RateLimit`, `Guardrails`
and `Evaluation`, `TelemetryOutbox`, `SdkClient` with the composition, the
assignments in `VersionActivation`, the proofs of section 4, and with the last of
them `disturbed` and its two properties in `WebhookDelivery`.

What could follow: the look-up of a request in `_ensure_review_request`
(`main.py:1209`) interleaved statement by statement, as `VersionActivation` does
for decisions; the Postgres order of audit events, with a weaker promise than
`VerdictIsStable`, which fails there; larger instances.

## 6. Not modelled

- *Tenancy and authentication.* The filter is a conjunct of every query, and a
  token check is a function of the request; one tenant and the roles as constants
  (`Deciders`) stand for them. What could go wrong is the propagation of the
  context variable, which as committed does not reach the endpoints (section 1).
- *Unregistered commits at the gate.* Their verdict is the flag `is_ai_related`.
- *Demo seed* but for its audit events (`audit_seed`). It inserts a version as
  active without demoting others of the asset, and `AtMostOneActive` does not
  speak of it.
- *Delays between attempts of a client*, `Retry-After` among them: `SdkClient`
  allows every delay, and has no time.
- *Edit locks*: nothing creates one, the loop deletes what is not there.
- *Incidents, tasks, users, connections*: rows that one handler writes and no
  decision reads, but for the review request that an alert opens.
- *Metrics, logging, tracing, migrations, dashboard, deployment, the command line
  and the models of the SDK*: no state that a property is about.
- *Locks held during a POST* (`test_subscription`, `send_now`): receivers have no
  speed in the models.
