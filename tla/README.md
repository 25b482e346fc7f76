# CrakHost Control — formal models and proofs

CrakHost Control sells and runs game and application servers. A Next.js panel
(`apps/panel`) keeps everything in PostgreSQL and drives Docker through one Go
agent per node (`services/craknode`). A once-a-minute cron container calls the
panel's internal routes. A Node worker (`apps/worker`) renews and suspends, and
a Python agent (`services/updater`) updates the installation.

This directory holds TLA+ models of that code, TLC configurations that check
them on small instances, and theorems that TLAPS proves for every instance.
Paths below are relative to the repository root, and `api/` stands for
`apps/panel/app/api/`, `lib/` for `apps/panel/lib/`.

## Running the checks

    tlc -workers 2 -config order_core.cfg MCOrderLifecycle.tla
    tlc -workers 2 -config node_core.cfg  MCNodeReservation.tla
    tlc -workers 2 -config updater_jobs.cfg MCUpdaterAgent.tla
    tlc -workers 2 -config recovery.cfg   MCAutoRecovery.tla
    tlc -workers 2 -config renewal.cfg    MCRenewalBilling.tla
    tlc -workers 2 -config accounts.cfg   MCAccountAccess.tla
    tlc -workers 2 -config mail_hosting.cfg MCMailHosting.tla
    tlc -workers 2 -config alert_mail.cfg MCAlertMail.tla
    tlc -workers 2 -config status_history.cfg MCStatusHistory.tla
    tlapm OrderLifecycleProofs.tla        (and the other *Proofs.tla)

`PROJECT.json` lists every run, the source lines each definition stands for, a
faulty variant of the code for each checked property, the hazards of the code,
and the theorems.

## Inventory

### Components, their state and how they interact

| Component | State | Operations | Talks to |
|---|---|---|---|
| Order lifecycle (`api/checkout`, `api/billing/orders/**`, `api/payments/test-card`, `api/admin/orders/**`, `api/internal/commerce/cleanup`, `lib/provisioning-reconcile.ts`) | `orders`, `invoices`, `wallet_transactions`, `users.credits`, one advisory lock per order | check out, pay, resume, retry, cancel, void, expire, reconcile | Provisioning; cron |
| Provisioning (`lib/provision.ts`) | `servers`, `allocations`, `orders.server_id` | find or insert a reservation, create or start a container, verify, clean up | Node agent; node tables |
| Node capacity (`lib/operations-settings.ts`, `api/admin/nodes/**`, `api/nodes/**`, `api/admin/operations`) | `nodes`, `system_settings['operations']`, one advisory lock per node | register, enable, disable, drain, undrain, save the operations form | Provisioning |
| Node agent (`services/craknode`) | Docker containers and volumes | create, start, stop, delete, status, files, backup, transfer | Docker |
| Automatic recovery (`lib/auto-recovery.ts`) and power actions (`api/servers/[id]/action`) | `desired_state`, recovery counters and cooldown | start or restart, suppress | Node agent; cron |
| Renewal worker (`apps/worker/index.mjs`) and staff suspension (`api/admin/servers/[id]/lifecycle`) | `billing_status`, `suspended`, `next_due_at`, renewal invoices, wallet | charge, suspend, renew, unsuspend | Node agent |
| Accounts (`lib/auth-challenges.ts`, `lib/auth.ts`, `api/auth/**`, `api/admin/users`) | `auth_challenges`, `sessions`, role and ban in `users` | register, issue, verify, consume, log in, ban, demote, delete | mail |
| Updater (`services/updater/server.py`) and its page (`lib/updater-agent.ts`, `DeploymentCenter.tsx`) | one job in a JSON state file, a history file, a child process | start, watch, report, restart a service, judge the host | Docker, alerts |
| Backups, files, transfer (`storage.go`, `transfer.go`, `lib/node-transfer.ts`) | archives, streams | back up, restore, move | Docker, other nodes |
| Alerts and status page (`lib/alert-evaluator.ts`, `api/internal/alerts/dispatch`, `lib/status-page.ts`) | `alert_dispatch_state`, `status_component_snapshots` | evaluate, dispatch, sample, prune, build | mail; node tables; the operations loop |
| Mail hosting (`api/admin/mail/hosting`, `services/crakmail`) | `mail_domains`, `mailboxes`, `mail_aliases` | save, disable, delete a domain; create, update, delete mailboxes and aliases | Postfix, which reads the tables |
| API keys, templates, UI, scripts | — | pass-through and presentation | — |

Components share state only through PostgreSQL. A handler is a sequence of
awaited calls: database statements, transactions and HTTP calls to a node. Two
handlers can interleave at every `await`, and what a handler read before one
may be stale after it. Locks are PostgreSQL advisory locks (session-level for
an order, transaction-level for a node) and row locks.

### What is hard in this code

* **Interleaving.** Checkout, resume, payment, staff retry, staff cancellation
  and two sweeps all write the same order. Only checkout, billing, the test
  card and resume take the order's lock.
* **Failure in the middle.** A panel crash drops the session lock but leaves
  the paid order, the reservation and the container. A node call times out at
  the panel and finishes on the node. Cleanup has its own failures.
* **Stale checks.** A resume tests the order before it has the lock. Node choice
  tests capacity, drain mode and heartbeat long before the reservation.
  Disabling a node counts its servers before it writes the row.
* **Money.** Debit, invoice and order move in one transaction or they do not; a
  refund must pair with exactly one debit.
* **Shared settings.** Drain mode lives inside a JSON value that another form
  rewrites as a whole.
* **Overlapping automation.** The cron container stops waiting after 45 seconds
  while the panel's sweep goes on; two workers can have one server in their
  lists; schedules, billing, owners, staff and recovery all start and stop the
  same container.
* **Two records of one fact.** The updater's process, its state file, its
  history and the page that polls it can each be behind the others, across a
  crash that kills them all. Wishes are recorded after the node has acted.
* **Statements without a transaction.** Mail hosting and the alert dispatch check,
  read and write in statements of their own. The loop gives up on a slow dispatch
  and asks for the next one beside it; page loads sample next to the loop.
* **Many judges of one measurement.** Scheduler, enable route, status page,
  alerts and the updater agent apply thresholds of their own to one heartbeat
  or one host.

The full list, with lines and the property that watches each, is under
`hazards` in `PROJECT.json`.

### What makes each component correct

* Order lifecycle: an order is charged at most once and refunded at most once;
  order, invoice and wallet rows agree; no server without payment; one live
  reservation per order; a refund is final; nothing stays in progress for ever.
* Node capacity: what was checked holds at the commit; a disabled node is empty;
  a drained node receives nothing.
  The choice of a node is safe and never prefers the worse of two hosts; what
  the panel reports of a node agrees with what the scheduler does with it.
* Recovery: a server stopped on purpose is not started on an outdated wish; at
  most three attempts in ten minutes; a pause after repeated failures is served;
  a server that should run, can be recovered and is selected again and again is.
* Renewal: one charge per period; one open invoice; what is due, and within
  the rows a tick reads, is settled; a suspended server is stopped in the end.
* Accounts: a code takes effect once, only a few guesses, the newest code is the
  only one; a reset and a ban end sessions; an administrator remains.
* Updater: one job at a time; a verdict that is true; a final state after every
  restart, which the page comes to show; a healthy verdict means a working host.
* Mail hosting: one primary domain at most, which moves in one step; a domain is
  not deleted with mailboxes that its deletion counted; an alias has the mailbox
  it was checked against, unless a deletion overtook it or was cut off.
* Alert mail: a dispatch alone forgets no mail and sends none early; a lasting
  critical alert is mailed about again and again, however dispatches overlap.
* Status history: pruning keeps each minute that is shown; old rows do not pile
  up; an open page comes to show a node that stays away.

## Modules

| Module | Content |
|---|---|
| `PaymentLedger` | Abstract: what the shop promises about money. One bill per checkout attempt, settled at most once for its price, returned at most once. |
| `OrderLifecycle` | The order routes, provisioning as they call it, the sweeps, the node's late answers and panel restarts. Implements `PaymentLedger`. |
| `MCOrderLifecycle` | Symmetry for TLC. |
| `OrderLifecycleProofs` | Inductive invariants and theorems about `OrderLifecycle`. |
| `NodeReservation` | Reservation under the node's locks against drain, disable, enable, registration, the operations form and server removal. |
| `MCNodeReservation` | Symmetry for TLC. |
| `NodeReservationProofs` | Inductive invariant and theorems about `NodeReservation`, and the theorems about the two function modules that extend it. |
| `NodeChoice` | Extends `NodeReservation`: pressure, disk policy, score and choice of a node, as functions of what its host measures. |
| `HeartbeatReports` | Extends `NodeReservation`: status page and alerts, as functions of heartbeats, components and incidents. |
| `UpdaterAgent` | Jobs of the agent, its files, threads, lock, crashes, service restarts, and the page that polls. |
| `HostHealth` | Extends `UpdaterAgent`: the host's health as the agent computes it, and the alerts the panel makes of it. |
| `AutoRecovery` | Recovery sweeps of one server beside everything else that starts and stops it. |
| `RenewalBilling` | The billing tick, staff suspension and recovery on servers of one owner. Implements `PaymentLedger`. |
| `AccountAccess` | Codes, sessions, bans and administrators. |
| `MailHosting` | Mail domains, mailboxes and aliases under concurrent requests of administrators. |
| `AlertMail` | Dispatches of alert mails, which may overlap, and the state they store. |
| `StatusHistory` | Samples of the status page by the loop and by page loads, their pruning, and the page. |
| `MCUpdaterAgent`, `MCAutoRecovery`, `MCRenewalBilling`, `MCAccountAccess`, `MCMailHosting`, `MCAlertMail`, `MCStatusHistory` | Inputs and symmetry for TLC. |
| `UpdaterAgentProofs`, `AutoRecoveryProofs`, `RenewalBillingProofs`, `AccountAccessProofs`, `MailHostingProofs` | Inductive invariants and theorems about these. |
| `OperationsLoopProofs` | Those of `AlertMail` and of `StatusHistory`, which the operations loop drives. |

An operator whose comment begins "Mutant" is a plausible bug of the operator
after it. No action uses it; it serves to show that the properties can fail.

### OrderLifecycle

An element of `Orders` is a checkout attempt, that is a (user, idempotency key)
pair of one customer. `status`, `method`, `link` and `invoice` are columns of
its order and invoice; `debits` and `refunds` count its wallet rows; `server`,
`payer` and `container` describe servers. A *request* is one run of a handler:
`pc` names its next awaited call, `kind` its route, `cur` and `srv` its order
and server.

| Code | Actions |
|---|---|
| `checkout`, `billing/orders`, `payments/test-card` | `StartStorefront`, `StartBilling`, `StartTestCard`, `InsertPendingOrder`, `InsertDueInvoice`, `TakeWalletPayment`, `TakeCardPayment`, `RefusePayment` |
| `billing/orders/[id]/resume` | `StartResume`, `TryLock`, `RecheckResume` |
| `withOrderProvisionLock` | `TryLock`, `Return`; released by `PanelRestart` |
| the common tail of these routes | `MarkProvisioning`, `ActivateOrder`, `RefundFailedOrder`, `KeepFinalOrder` |
| `admin/orders/[id]/retry` (no lock, no order id) | `ClaimRetry`, `FailRetry`, and `ActivateOrder` |
| `provisionServer` | `FindReservation`, `UnlinkDeleted`, `ReserveServer`, `ReserveFails`, `InspectRuntime`, `CreateContainer`, `StartContainer`, `VerifyRuntime`, `MarkServerRunning`, `CleanupContainer`, `RetireServer`, `QuarantineServer` |
| pay, cancel, void | `PayPendingOrder`, `CancelUnpaid`, `VoidDueInvoice` |
| commerce cleanup, reconciler | `ExpirePending`, `ReconcileActivate`, `ReconcileStale`, `ReconcileCancel` |
| user form, Docker, panel | `SetCredits`, `LateCreate`, `ContainerStops`, `PanelRestart` |

A transaction is one step, because its rows are locked and invisible until the
commit. Prices, names, mails, notifications, audit rows and the choice of a
node are left out. One customer is modelled: the routes compare nothing across
customers except node capacity, which is the other module's subject.

`FailureReasonNullable` describes the schema. As shipped it is FALSE:
`orders.failure_reason` is NOT NULL (`database/init.sql:253`), and the handlers'
last update writes NULL to it. With FALSE a checkout never becomes ACTIVE on its
own, so the runs that look at races after activation use TRUE, the schema the
handlers were written for; the others use FALSE, and the proofs cover both.

### NodeReservation

A server takes one unit of its node's capacity; the code compares memory, disk
and CPU alike in one statement. `ChooseNode` is `candidateNodes` plus the
scheduler, whose score is a free choice among nodes that pass the filters.
`LockNode`, `CheckNode`, `CheckDrain`, `InsertServer` are the statements of
`reserveServer`, with its transaction's two locks as `nodeLock` (advisory) and
`rowLock` (FOR UPDATE). `DrainNode` and `UndrainNode` are `setNodeDrain`, one
transaction under both locks. `DrainToDisable`, `CountServers` and `DisableNode`
are the three calls of the disable route, which hold nothing between them.
`AskUndrain` and `AskEnable` are the reads before the corresponding writes.
`Heartbeat` is registration (an upsert that waits for a locked row);
`HeartbeatExpires` is 120 seconds passing.

### NodeChoice and HeartbeatReports

`NodeReservation` lets a reservation aim at any node with room. `NodeChoice` is
what the code computes instead from one answer of each node: `PressureLevel`
(`performance.go`), `RuntimeOk` (`lib/node-capacity.ts`), `Score`
(`lib/node-scheduler.ts`) and `Wins` (`chooseNode`). Percentages are integers in
hundredths; the score keeps its clamps and its rounding to a tenth, because ties
come from there. `-1` is a reading that failed. `HeartbeatReports` has
`lib/status-page.ts` and the node part of `lib/alert-evaluator.ts`. Both extend
the reservation module so that their properties relate the functions to its
state: the nodes the query admits are those with room, and a node that
reservations may take is not reported as down.

### UpdaterAgent and HostHealth

| Code | Actions |
|---|---|
| `start_job` under LOCK | `Refuse`, `Launch`, `LaunchFails`, `Record`, `RecordFails` |
| `watch_process` | `Reap` (before LOCK), `Settle`, `LeaveUnsettled`, `NoteJob` |
| `normalized_state`, `/status`, `/health` | `Normalized`, `ReadStatus` |
| `restart_service` | `AllowRestart`, `RestartService`, `NoteRestart` (without LOCK) |
| `updater-agent.ts`, `DeploymentCenter` | `SendStart`, `GiveUp` (ten seconds), `Poll`, `Load` |
| systemd, the system's pids | `Crash`, `RestartAgent`, `ReusePid`, `FreePid`, `Exit` |

A job is a start request that was accepted. `lock` is held between the steps of
one handler or watcher only. The history file is read and written in two steps,
as `append_history` does, so two writers can lose an entry. `HostHealth` is
`collect_metrics`, its parsers and `evaluateAlerts` over hosts whose readings
may each fail; `HealthyMeansWorking` relates the verdict, the readings and the
alerts whenever the agent is up.

### AutoRecovery

`Select` is the sweep's list, `Confirm` the advisory lock with the fresh row,
`Probe`, `Attempt`, `Record`, `Mark`, `Act` and `Verify` the awaited calls of
`recoverOne`; every early return releases the lock (`Finish`). A failure is counted
in one statement (`Fail`) and its pause written in a later one (`Suppress`), and a
statement can fail (`Abort`) or the panel die (`Die`) between any two. The list's
order, its fifty rows and its conditions on node and status are left out: whether
`Select` takes the server is open, and nothing is assumed about it. `Ask` and `Keep`
are the node call and the update of the power and lifecycle routes.
`SaveSettings`, `AutomatedPower` (schedules, billing), `BillingSaves` and `Die`
complete the environment. `attempts` lists the ages of the recorded attempts,
newest first, and those that leave the window are dropped, since no query asks
for them; an insert that fails is swallowed, as in the code, and that attempt is
not counted. `revoked`, `owed` (what is left of a pause that failures have earned)
and `boot` are history variables.

### RenewalBilling

`PickDue` is one server of the tick's list, which ends after the fifty oldest due
dates: while `crowded`, a server has that many ahead of it (`PeriodEnds` may put
them there, `MakeRoom` ends it, and nothing says that it ends). `Renew`, `Suspend` and
`AlreadyRenewed` are the three ends of its transaction, under the row locks;
`CallNode`, `NodeRefuses` and `NoteRuntime` come after the commit and are lost
when `WorkerDies`. `AskLifecycle` and `KeepLifecycle` are the staff route.
`SeenHealthy` is the panel's recovery writing `running`. `BillOf` maps each
ended period to a bill of `PaymentLedger`. Renewal invoices belong to no order,
so the staff routes that void invoices do not reach them.

### AccountAccess

A request is idle or a record that says which statement comes next and what it
has read. An uncommitted transaction shows only by its row locks (`lock`), so
`Wake` is a request whose wait for a row ends. `overtaken`, `late` and `stale`
mark what another request has outdated in between; the properties say what
holds for the rest. `Replace` and `Insert` are the consumption of older codes
and the new one; `older` relates each unused code to the newer ones, the order
that a query by creation time sees. `Submit`, `Guess`, `Verify` and `Reset` are
the use of codes. `Save` and
`Purge` are the two statements of a ban. The body of a code, hashes, mail and
profile fields are left out; a code that was never mailed cannot be submitted.

### MailHosting

| Code | Actions |
|---|---|
| `saveDomain`, a transaction | `StartSave`, `ClearPrimary` (waits for the rows of others), `InsertDomain` (upsert, unique index, commit) |
| `setDomainEnabled`, `deleteDomain` | `SetDomainEnabled`, `CountBoxes`, `DropDomain` with its cascade |
| `createMailbox`, `updateMailbox`, `deleteMailbox` | `CheckDomain`, `InsertMailbox`; `ReadMailbox`, `WriteMailbox`; `DeleteMailbox`, `DeleteAliases` |
| `createAlias`, `deleteAlias` | `CheckSource`, `CheckTarget`, `InsertAlias`; `DeleteAlias` |
| `entrypoint.sh` of CrakMail; failures | `StartCrakmail`; `Fail` |

`desk` is what a request has read and has yet to do. The rows that a save has
cleared are `held` until its commit. `late` and `adrift` are history. An alias
request is late when its mailbox was deleted after it was checked; an alias is
adrift when a late request inserted it without a mailbox, when its mailbox's deletion
was cut off, or when the mailbox was younger than the count before its domain's
deletion. An alias that was inserted without the check, or outlived a deletion that
went through, is neither, and `AliasesHaveMailboxes` fails on it. Names, quotas,
passwords and DNS records are left out.

### AlertMail and StatusHistory

A dispatch is `Evaluate`, `ReadState`, `Mail`, `Save`: what it evaluated, the
state that the last dispatch stored, the mails, and the replacement of the state.
The loop asks every minute and waits thirty seconds, so dispatches overlap.
A condition of `Graded` has one key per severity, one of `Single` has one key.
Time has no end: mails are told apart by age, and `Tick` ages those stored, those
that a dispatch has read, and `last`, alike; ages beyond the interval are one.
`last`, `torn` and `alone` are history: the age of the last mail about a key, which
mails a crash or an overlap may have lost, and whether a dispatch has had company.
The two safety properties are about dispatches that ran alone, `CriticalIsMailed`
about all. The interval is one constant: what a change of `repeatHours` does to mails
made before it is left out.

In `StatusHistory` time has no end either: rows are told apart by age, and `Minute`
ages them. `Probe`, `EvaluateNodes`, `Insert` (one component at a time), `Prune` are
`recordPublicStatusSample`; `Build` and `Show` are the page. Only the loop probes.
Each may fail. Components are nodes; what several of them come to is in
`HeartbeatReports`.

## Runs

| Run | Instance | Shows |
|---|---|---|
| `order_core` | 1 order, 2 requests, 2 servers, 1 restart | Money, status, payers and reservations of one contested order; `OrderLifecycle` implements `PaymentLedger`. |
| `order_live` | 1 order, 2 requests, 1 restart, fair, schema as shipped | `PROVISIONING` ends. |
| `node_core` | 2 nodes, 2 requests, 1 staff session, 3 servers, capacity to 2; hosts, fleets and pages beside every threshold | Placement is safe at the commit; a disabled node is empty; the choice is safe and monotone; reports agree. |
| `updater_jobs` | 2 start requests, 1 service restart, 1 crash, 1 failed write, history of 2; hosts beside every threshold | One job, true verdicts and history; a job and the page that shows it settle; a host called healthy works. |
| `recovery` | 2 sweeps, 1 request, 2 attempts, Guard 1 < Window 2 < Cooldown 3, fair; about 361,000 states | Limits, cooldown and fresh wishes hold; a pause is served; a server that is selected again and again is recovered. |
| `renewal` | 1 server with or without fifty ahead of it, 2 workers, 1 staff call, 2 periods, fair | One charge per period, the ledger; what is due and among the first fifty is settled and a stop retried. |
| `accounts` | 2 users, 2 requests, 2 codes, 1 guess, 1 reset, 3 budgets of requests | Five properties of codes, sessions, bans and administrators. |
| `mail_hosting` | 2 requests, 2 domains of one address, 3 mailboxes | One primary domain; no counted mailbox goes with its domain; an alias has its mailbox unless a deletion overtook it or was cut off. |
| `alert_mail` | 2 dispatches, 1 condition with a key per severity, mails on or off, interval of 2 ticks, 1 crash, fair; about 497,000 states | A dispatch alone forgets no mail and repeats none early; under overlap a critical alert that lasts is mailed about again and again. |
| `status_history` | 1 node, the loop and 1 load, 1 minute shown, depth 2, 1 failure, fair | Shown minutes are kept; older ones do not pile up; the page comes to show a node that stays away. |
| `refunded_served` | violation | Finding 1. |
| `two_servers` | violation | Finding 2. |

Each module has a type invariant, `TypeOK`. It is a theorem (`TypeCorrect`) of
every module with state of its own, for every value of the constants, so the runs leave it out and
check what a type does not say.

**Bounds.** `MaxCredits` and `Price` are one unit, so a second payment is
refused unless a refund came between. Two requests per order are every pair of
handlers; both server rows are needed to see a second reservation. One restart
is enough for a crash at each step followed by a full recovery. In `node_core`
three servers against a capacity of at most two let both nodes fill up and two
requests meet on the last place. In `updater_jobs` a second job is what a late
watcher can confuse with the first, and a history of two is cut by the third
entry; in `recovery` the durations keep only their order, which is all the code
compares, and two attempts are the least with a first and a last. In `renewal`
two workers at one server are the contest; a second server multiplies the states
of fair behaviours past what TLC can hold, and the proofs cover any number. In
`accounts` the budgets let three codes, or two or three staff requests, be asked
for, so that an overtaken request and two staff requests in flight both occur.
In `mail_hosting` three mailboxes are a deleted one, its successor and one made
after a count; two domains are a primary and its rival. In `alert_mail` an
interval of two ticks tells a fresh mail, an older one and one that is due again from
each other, and the condition has a key of its own for critical; a second condition,
or warnings that are mailed about too, make the graph several times as large. For
conditions with one key the two safety properties are proved and not run. In
`status_history` a depth beyond the minute shown is what a missed pruning leaves;
a second load in flight multiplies the states of fair behaviours past what TLC
can hold.
The proofs drop all of these bounds. The inputs of the three function modules
are chosen at and beside each threshold of the code, with each reading failed.

**Deadlock** is checked in every run but `accounts`, where the budgets run out.
In the runs of mail, alerts and samples staff can always act and the loop asks;
in the order runs staff can always correct a balance, a node can always send a
heartbeat unless a reservation holds its row, which then can end, the agent's
state can always be read, time passes, and a wallet can be topped up or a
server suspended.

**Fairness** (`order_live`): weak fairness of each admitted request's next step,
because a handler always proceeds in Node's event loop and every node call has
a finite timeout (`lib/node.ts`); and of the reconciler, because
`docker-compose.production.yml` runs it every minute. Nobody is assumed to
arrive, pay, resume or retry, and neither Docker nor staff are fair. Under this
a paid order that never reached PROVISIONING stays PAID when the panel died in
between: the reconciler looks at PROVISIONING orders only. That is why the
liveness property is about PROVISIONING.

**Fairness elsewhere.**

* `updater_jobs`: a job ends, its handler and watcher threads run, systemd
  restarts the agent (`Restart=always` in `install-updater-agent.sh`), and a page
  that polls every two seconds gets through again and again (strong fairness,
  because polls are lost while the agent is down). No request and no crash is
  fair. `JobSettles` excepts a pid taken by another process for good, and a
  failed write of the state file.
* `recovery`: time passes, a sweep that has the server proceeds, and a node that
  is asked again and again answers in some sweep; neither panel nor database
  fails for ever (`boot` tells one failure from the next). That sweeps select the
  server is not fairness but the antecedent of `IsRecovered`, because the list
  does not promise it (see Observations).
* `renewal`: strong fairness of the tick's list as long as the server is among its
  fifty rows, of its transaction, of the node
  call and of the note after it: the worker ticks every thirty seconds, and may
  die at any step, though not each time at the same one. The worker's `fetch`
  has no timeout; a node that accepts and never answers would hold it, and the
  fairness assumes that this does not happen for ever.
* `alert_mail`: weak fairness of each dispatch and of time: the loop never stops
  asking (`docker-compose.production.yml`), and a mail ends, if only by the timeouts
  of `lib/mail.ts`. The alerts and the settings are not fair; crashes end.
* `status_history`: the loop samples, an open page loads again and again
  (`PublicStatusPage.tsx:28`), and time passes. Failures are not fair, and end.

## Findings

1. **A refunded order keeps its running server.** `checkout/route.ts:83` sets
   `failure_reason=null`, which the NOT NULL column refuses, after the server
   was started; the handler then refunds and tells the customer the server
   could not be provisioned.
2. **Two servers for one payment.** The staff retry takes no order lock and
   passes no order id, so between a checkout's payment and its first
   provisioning update it starts a second server. `docs/V027_RUNTIME_CHECKLIST.md`
   promises at most one.

## Observations

Met while modelling. Each is what a module does, in a comment or excepted by name
in a property. Where one is at odds with a text of the repository, it is quoted.

* A container that restarts for ever is of unknown state and raises nothing.
  Unreadable `meminfo` raises nothing at the panel, and counts as an empty host
  in the score, which prefers it. An answer of `/metrics` with a 5xx status is
  not an alert of its own.
* The updater's history can lose an entry to a concurrent service restart. A job
  whose record could not be written runs on unknown to the agent.
* A start of the recovery may follow a stop that was recorded after its fresh
  read. A schedule's stop records no wish, so recovery undoes it.
* A sweep takes fifty servers by oldest `last_recovery_at`
  (`lib/auto-recovery.ts:112`), never-recovered ones first, and a healthy result does
  not change that column. With fifty such servers that run well, every other one, and
  so one that crashed after an earlier recovery, is never looked at again. Neither is
  one whose node is disabled or silent (`:110`).
* The pause after three failures is written by a later statement than the count
  (`lib/auto-recovery.ts:86` and `:88`). A sweep that dies in between leaves the count
  without a pause, and the server is tried again before the next failure pauses it.
* A tick takes fifty servers by oldest due date (`apps/worker/index.mjs:12`). A
  suspended server that nobody pays for keeps its date and its place; fifty of them
  hide every later one, which is then neither renewed nor suspended.
* After a crash between a renewal's commit and its start call nobody starts the
  server for billing's sake; recovery may.
* A login that checked the password before a reset, or an e-mail verification
  during a ban, still gets its session afterwards.
* Two first requests for a code find no row to lock and leave two live codes.
  `AccountAccess` lets the statement that consumes older codes
  (`lib/auth-challenges.ts:44`) see rows that were committed while it waited for a
  lock. PostgreSQL takes its snapshot before, which matters with three requests at
  once; the run has two.
* Two administrators who ban or demote each other at once can both succeed.
* A save of a domain that was deleted meanwhile inserts it anew.
* An update of a mailbox writes back the fields it was not asked to change as it
  read them. Deleting a mailbox deletes the aliases of one that was made again
  under its address meanwhile. A start of CrakMail enables the domain of its
  environment even if staff disabled it.
* An alias is checked against its mailbox alone, once. When the destination's
  domain is disabled, the alias still resolves, to an address that CrakMail does
  not serve (`docs/crakmail.md:93`: "deliver only to enabled local CrakMail mailboxes").
* A dispatch that takes more than thirty seconds is overlapped by the next, which
  finds no trace of its mails and repeats them, although the form speaks of
  "deduplicated" notifications. A mail that failed or was skipped counts as sent.
  A condition with one key that turns critical is not mailed about again for it.
  A "resolved" mail also follows an alert that was never mailed about.
* A minute of maintenance is drawn as a failed one (`lib/status-page.ts:170`), so
  the title that `PublicStatusPage.tsx:135` has for it never appears.
* The reconciler asks only whether the linked row exists. Failed provisioning
  leaves the row, with status `deleted`, so an order can be ACTIVE without a
  server (`docs/releases/v0.59.1.md:5` speaks of a "real server").
* Saving the operations form replaces the JSON value that holds `drainNodes`
  (`api/admin/operations/route.ts:28`), so a drained node takes servers again.
* A slow evaluation overwrites the sample of a newer one, and a loop whose round
  takes longer than a minute leaves minutes without a sample.
* The two bounds of CrakNode's pressure levels overlap, so their order in
  `performance.go` matters.

## Theorems

`OrderLifecycleProofs` proves, for any sets of orders, requests and servers, any
price and bounds and both schemas: `TypeCorrect`, `LedgerCorrect`,
`StatusCorrect`, `MutualExclusion`, `ServersPaid`, `RefundsFinal` and
`LedgerRefinement`. The assumptions are those on the constants: the price is
positive, the bounds are natural numbers, null is not a row. The inductive
invariant `IInv` joins the type invariant with

* `RequestInv`: a request past the lock works on an order that was paid for, and
  one past the reservation has a server row. Without it no later step could be
  shown to write to something that exists.
* `InsertDueInv`: the request between the pending order and its due invoice is
  the only one, and the order may at most have been cancelled meanwhile.
* `LinkInv`, `MethodInv`, `PayerInv`: what a linked row, an existing order and an
  inserted server imply. The reconciler's sweep needs the first to be harmless.
* `LockInv`: a request inside the guarded part, retries excepted, holds the lock.
* the two properties `LedgerMatchesInvoice` and `StatusMatchesInvoice`
  themselves, which hold each other up: a payment is allowed only on an order
  whose status says its invoice is open.

Each conjunct has a lemma with one step per action that disturbs it.
`LedgerStep` shows that each step is a step of `PaymentLedger` or a stutter
under the mapping `BillOf`, which with the initial states gives the refinement.

The same module proves `OneReservation`: staff retries aside, an order
never has two live servers. The lock and the find before the reservation do not
give it alone, since a retry takes no lock and links its own server over one a
resume has just reserved. The argument is a second inductive invariant:

* `RetryInv`: an order has one retry at a time, because the status a claim
  writes is not claimable again before the retry ends or the money is back.
* `CheckoutInv`: at most one request enters provisioning without the recheck
  that a resume makes, the one that paid.
* `OwnerInv`: rows change hands only through the link. The row a retry works on
  is its own and not linked yet.
* `OverlapInv`: while a retry works on an order that is linked already, no resume
  stands between the recheck and the find.
* `KeptInv`: a reservation that was not retired is linked, or it was displaced by
  a retry's link. Then the order is ACTIVE, which keeps every further resume out,
  and nobody can unlink what displaced it; so no reservation is made again.

`NodeReservationProofs` proves `TypeCorrect`, `Placement` and `DisabledEmpty`
for any finite set of servers and any nodes, requests and staff sessions. The
invariant follows the transaction: a request in it holds the node's advisory
lock (`NodeLockInv`); past `CheckNode` it holds the row too, the node is enabled
and has room (`CheckedInv`); past `CheckDrain` the node is not in the drain list
(`NotDrainedInv`). Each fact survives because whoever could undo it needs one of
the two locks. `OneMore` and `OneLess` say what an inserted and a removed row do
to the sum. `DisabledEmpty` assumes `OneSession`, that staff sessions do not
overlap: with two, saving the operations form between the count and the write
of the disable route lets a server onto the node, and TLC finds that when the
instance has two sessions.

The second half of the module is about the two function modules, whose inputs the
runs sample. `ChoiceSafe` says that for any machines, plans and settings the node
that wins keeps its reserve and is under no critical pressure, and that it still
wins when no measurement of it is worse. Division by an unknown total is
what makes this hard for the provers, so `QuotientGrows`, `ClampGrows` and
`RatioGrows` carry the order through each operator, and the proof goes up the
score part by part; the penalty is monotone because `LessPressure` is. `Reports`
says the same of heartbeats and pages of any age and size: it is a comparison of
the windows of scheduler, enable route, page and alerts on one age.

`RenewalBillingProofs` proves `TypeCorrect`, `ChargedOnce`, `OpenOnce` and
`LedgerRefinement` for any servers, workers, staff, price and bounds. `IInv` is
the type invariant with the two properties and the bound of the balance: that
periods, payments and the due flag balance is what keeps `paid` within its type,
and that an open invoice is of a due period is what makes a renewal close it.
`LedgerStep` maps each transaction to a step of `PaymentLedger`; all else
stutters.

`AutoRecoveryProofs` proves `FreshWish`, `CooldownKept` and `PauseServed`. In
`IInv`, `Exclusive` says that only the holder of the advisory lock is past its
fresh read; so the cooldown can only be raised by the one sweep that leaves, and
nobody is left behind to break it. A wish withdrawn later puts every such sweep
into `revoked` at the same step. For the pause, `Paused` says that what is owed is
covered by the cooldown of the row, or the sweep that counted the failure still
stands before its second statement; then it has the lock, and nobody else gets past
the fresh read. A sweep or a panel that dies there takes the pause with it, which the
property's comment says. `AttemptsAreLimited` and `TypeCorrect` rest on a
second invariant, `Tallies`: the recorded attempts are ordered by age (`Ordered`),
so that "at most `MaxAttempts` in the window" is that the attempt after the first
`MaxAttempts` is too old, a fact about one element that survives both the passing
of time and a new attempt in front (`AgedEvents`). No sum has to be taken.

`UpdaterAgentProofs` proves `JobsExclude` and `VerdictsTrue`. `IInv` follows one
job through handler, process and watcher (`Stage`), ties LOCK to the handler or
watcher inside it (`Held`), and calls a state truthful if a verdict in it is
about a job that is over (`Truthful`), for the file and for the page: a page
can only have copied what was true, and a job that is over stays over.
`HistoryTrue` and `TypeCorrect` add `Ledger`: whatever list of entries there is,
on the disk or in the memory of a writer, tells of a job at most once, tells its
outcome, and only after its watcher is through (`Told`). It holds of a list that
is read, extended under LOCK, cut, or lost, and two writers who overlap can only
lose entries. `HealthyHosts` is about `HostHealth` alone, for any readings: the
lemmas on rounded percentages (`TenthsBelow`) turn each threshold of the verdict
into a bound on what the host has left, which the thresholds of the alerts meet.

`AccountAccessProofs` proves `CodesOnce`, `PasswordsRule`, `BansRule`,
`AdminsRemain` and `NewestRule` for any users, requests, codes and limits. `Base`
has the columns, the states of requests and `HeldCodes`: a code about to be used
is under its request's row lock. On it rest three more invariants:
`SessionInv` (a login on its way knows the current password or is marked late),
`AdminInv` (what a staff request counted is still so, or it is marked stale; the
account it is about exists) and `Covers` (whoever replaced a user's codes, and
was not overtaken, holds the lock of each that is left). `TypeCorrect` needs that
`older` stays a strict total order of the unused codes: `FewerOrdered` and
`OneMoreOrdered` say so of codes that go and of one put first or last.

`MailHostingProofs` proves `TypeCorrect`, `PrimaryIsUnique`, `AliasesTrue`,
`PrimaryMoves` and `BoxesAskedFor` for any requests, domains, addresses and
mailboxes. That one domain is primary is inductive once only live rows are
primary and only a save that makes its own domain primary holds others
(`PrimaryInv`): the unique index is consulted at the insert, after the rows held
have been cleared. `CountedInv` says that the mailboxes of a domain that is being
deleted are younger than the count, so a cascade leaves adrift only the aliases of
those. `CheckedInv` says that what an alias request has seen is still there unless it
is late: whoever deletes a mailbox marks every request that has seen it. So an alias is
inserted with its mailbox or late, and afterwards loses the mailbox only to a
deletion that is about to remove it, to one that was cut off, or to a cascade.

`OperationsLoopProofs` proves `TypeCorrect`, `Remembered` and `Spaced` of
`AlertMail` for any dispatches, conditions, settings and interval, and
`HistoryTypeCorrect`, `HistoryBounded` and `WindowKept` of `StatusHistory` for any
nodes, samplers, loads and minutes. Time ages all mails alike (`TickStep`), so two
that were of one age stay so. A dispatch that is alone has been the only
one since it read the state (`AloneInv`), so what it knows is still so: when it
has mailed, when the last mail was, and that a mail to come is due (`KnownInv`).
For the history, a row can only come of age with a minute that also ages the last
pruning.

Proofs have changed the models. `PressureLevel` had overlapping guards in a CASE,
of which the proof could not choose one: the code's `if ... else if` is an order.
`MailsAreRemembered` had an exception for a dispatch that has had company; the
proof did not use it, and it is gone. `RateLimit` and the order of codes were stated with
sums and sequences and are now stated with ages and a relation, which is also
nearer to the queries.

The assumptions are named in the modules. Besides bounds and null values they are:
`HostAssumption` (sizes are natural numbers, used and free blocks fit the disk);
`MachineAssumption`, `PlanAssumption`, `PolicyAssumption` (a host has a CPU; what
`performance.go` and `registration.go` report is a number or not measured);
`AgeAssumption`, `FleetAssumption`, `PageAssumption`, `IncidentAssumption` (the
words that the columns and `lib/status-page.ts:36-45` admit); `MailAssumption`,
`HostingAssumption` and the status history's `HistoryAssumption` (there is a
component, and rows are told apart for as long as they are shown).

Only model-checked: the liveness properties `ProvisioningSettles`, `JobSettles`,
`PageFollows`, `IsRecovered`, `DueIsSettled`, `StopIsRetried`, `CriticalIsMailed`
and `DownIsShown`. They rest on fairness and so on ENABLED, which these provers do
not handle. Every safety property that a run checks is a theorem, and so are
`OneProvisioner`, `OneOpenInvoice`, `PrimaryStepsDown` and the type invariants,
which no run checks.

## Not modelled

* Ports: chosen under the node's lock with the reservation, by a query.
* The database pool: each order lock keeps a client while its request needs
  others; ten at once can wait for each other. Listed as a hazard.
* Backups, files and transfer: streams between processes; what could go wrong is
  in bytes and in the operating system.
* The SMTP client, local SMTP settings, DNS records and probes of the mail page,
  and mail templates: conversions and calls without a decision that depends on
  another component. Percentages, latencies and the drawing of the status page.
* A configuration of the status page that cannot be read: the code goes on with
  defaults, under which the page is public.
* Consoles, templates, webhooks, API keys, audit, profile fields, the balance
  field of the user form, and all pages but the Deployment page.

The reasons are in `PROJECT.json` under `components`.

## What is left

1. A pool of connections composed with the order lock.
2. The crash between payment and the first provisioning update, as a liveness
   property of PAID orders once a sweep looks at them.
3. The balance field of the user form against concurrent payments.
4. The backup stream of `storage.go` as two processes and a pipe.
5. The ports of `lib/provision.ts` beside the reservation.
