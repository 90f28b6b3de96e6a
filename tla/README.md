# A TLA+ verification of ai-productivity-plugins

The repository is a marketplace of plugins for coding assistants.  Most of them are clients of
an external service; some keep state that several processes share, and those are what this
project is about: RemoteX, which hands out virtual machines to sessions, runs long SSH tasks
on them and drives web sites for an owner who watches, and the chain of release plugins, which
carry a capability gap or a release through decisions by mail, builds, gates and approvals to
its deployment.

Everything here is translated from the Python under `src/`.  Paths below are relative to
`src/plugins/`.

Contents

1. The system and its components
2. Modules, and how they correspond to the code
3. Runs: what is checked, and the bounds
4. Fairness
5. Proofs
6. Where the code and its documents disagree
7. What is only model-checked, and what is not modelled
8. What could come next

## 1. The system and its components

### RemoteX

Each assistant session runs its own server process.  The processes do not talk to each other:
they share files under one state directory, each replaced atomically, and file locks with a
timeout.

**VM queue** (`remotex/src/vm_queue.py`).  *State*: one JSON file with, for every machine
("host") and every service of a machine (`<host>::service::<name>`), an owner and a line of
waiters.  *Operations*: `request`, `claim`, `release`, `cancel`, `inspect`; `queue_leases.py`
makes two more edits (expiry and rollback).  A host excludes its services and the reverse
(`_scope_blockers`).  *Hard*: `_load_state` refuses a file with a duplicate waiter, a waiting
owner or conflicting owners, and then no VM operation works any more; lines must stay FIFO
whatever is cancelled, expired or rolled back; a host request must not be starved by services.

**Queue leases** (`remotex/src/queue_leases.py`).  *State*: a lease file next to the queue file,
and an operation lock per resource.  *Operations*: the tools `queue_status`, `queue_request`,
`queue_cancel`, `queue_acquire`, `queue_claim`, `queue_renew` (also as heartbeat),
`queue_recover_stale`, `queue_release`, and `leased_owner_operation`, under which the SSH tools
work on a machine.  *Interaction*: a tool is a sequence of sections, each under locks; several
tools let go of the operation lock between sections.  *Hard*: two files that are written one
after the other; a process that dies or times out between sections; leases that run out while
the owner works; sessions of one requester that act at the same time.  *Correct* means: one
requester at a time works on a machine or on its services, an owner loses its machine only by
its own doing or its own silence, and a silent owner does lose it.

**Resumable SSH tasks** (`remotex/src/task_manager.py`, `task_worker.py`).  *State*: a directory
per task with `spec.json`, `state.json`, `result.json` and `worker.pid`, shared without a lock.
*Operations*: `start` (which spawns a detached worker and waits for its acknowledgement),
`status`, `cancel`, `collect` with cleanup; the worker's `run`, in which an SSH process runs the
script (`execution.run_process`).  *Hard*: worker, starter, canceller and collector interleave file
by file; each can die between two files; a kill takes effect later than it returns; the SSH process
has a session of its own, so that nothing that happens to the worker happens to it.  *Correct*: a task
that is reported completed has no SSH process left; cleanup does not pull the directory from under the
worker; a failed start leaves no worker that goes on; nobody is told "running" for ever.  That the
script of a *cancelled* task has ended is not among these (section 6).

**Web authorization and recovery** (`web_site_service.py`, `web_task_service.py`,
`web_authorization*.py`, `web_channel.py`, `web_approval.py`, `web_recovery.py`).  *State*: per
session a service object with a channel to a browser worker, attempts and the requests of the
page; shared by all sessions of a user, a journal on disk of the origins that are reserved for
writes, with an integrity key beside it.  *Operations*: login, the owner's windows, `execute`,
the permits of the page's requests, closing; the upgrade of the journal and the owner's review of
a lost one.  *Hard*: tool calls, decisions, confirmed actions, the reader of the pipe and the
closing hook are threads of one service; the worker or the process may end anywhere; a journal
that was lost cannot be told from one that never was.  *Correct*: a write whose outcome is not
known keeps its origin closed to others until somebody has looked; what the owner withdrew is
never sent; what is known is given back.  Besides site sessions there is an older mode, granular
grants (`web_authorization.py`, `web_task_service.py`): every kind of request has a grant of its
own with a budget, which a later grant may replace.  There a budget that is carried over must not be spent
twice, and a grant the owner has revoked must not come back through a decision that is on its way.

**Adapters, credentials, profiles, host keys, reports** build command lines, edit a file in one
call or read logs.

### The release chain

**Release approval, one approver's role** (`release-approval/src/release_approval_mcp.py`,
`_service.py`, `_store.py`, `_page.py`, `_protocol.py`).  *State*: a SQLite database
(processed messages, requests, decisions with `superseded_by`, SMTP outcomes, audit events), the
file `page-state.json`, page objects in server processes.  *Operations*: the scheduled
`run_once` (authenticate and checkpoint requests, send decisions known to be unsent),
`open_page`, submissions to the page, `list_pending`.  *Interaction*: mails in, mails out; runs,
servers and handler threads share the database and the file.  *Hard*: a mail and the record of
its outcome are two steps; runs retry while pages submit; pages are rotated while a submission
is in flight; the processes die anywhere; requests expire.  *Correct*: what is mailed is
recorded, a nonce is used once, no decision without an authenticated request, a decision that
stands reaches the release group.

**Release approval verifier** (`release-approval-verifier/src`).  *State*: a database of role
snapshots, processed messages, decisions, reminder attempts, receipts, workflow events and a
hash-chained audit log.  *Operations*: `run_once` under a run lock: freeze the role snapshot,
ingest requests and replies, reconcile the decisions of an event into a receipt, remind, hand
over, revoke.  *Hard*: mails out of order and in duplicate; receipts that supersede each other
after a handoff was consumed; deaths between receipt and revocation event.  *Correct*: a
verified receipt rests on a current approval of every required role, a later rejection revokes
or holds, and nobody is reminded twice for one due date.

**R&D flywheel** (`rd-flywheel/src`).  *State*: events with a state (`RECEIVED` ... `COMPLETE`),
transitions, evidence, processed inputs, audit chain.  *Operations*: `run_once`, `retry_event`.
*Hard*: every transition is a transaction of its own, with calls of an agent and of a verifier
in between; a run may die at each.  *Correct*: no state without its evidence, no construction
without the governance decision, every accepted event goes on.

**Product release gate** (`product-release-gate/src`).  *State*: events with their manifests,
test results, authorizations, deployment records; in the target of the filesystem adapter the
content-addressed releases, the current pointer, deployment and rollback records.
*Operations*: the stages from submission to production report; `deploy`, `verify`, `rollback`,
`readback` under a target lock.  *Hard*: each record is written before and after the pointer it
describes, and calls are repeated with the same idempotency key after a death; the gate works on
a copy of the event file and saves it late, so that after a death only receipts tell what was
done.  *Correct*: a repeated deployment or rollback has the effect of one, the pointer names a
complete release that some record explains, stages happen in order, an event says "verified" only
while its release is live, the report is mailed once.

**Test submission, submission gate, pre-release, release gate** and the **shared workflow
core** (`test-submission`, `submission-gate`, `pre-release`, `release-gate`,
`../shared/release_workflow_core`).  *State*: an event file per event and round, records of
processed mails, pending mails, an audit chain; the state graph of `states.py`.  *Operations*:
`submit`, `create_request`, `run_once` of each stage.  *Interaction*: each stage reads the mails
of the one before it; a mail without a signature is taken as well and marked as unverified from there
on.  *Hard*: a mail is sent and the process dies before it is recorded, mails are read twice or out of
order, refused mails are retried, several testers write back whole copies of one task file.
*Correct*: what the release group is told rests on what was tested and built, and says truly whether
the submission gate has passed it; what one stage has passed reaches the next.

**The others** (GitLab, IMAP/SMTP, legacy SSH, WeCom usage, bulletin, time reminder, Lark CLI,
bootstrap and documentation tools) keep no state that processes share, with one exception: the
GitLab plugin provisions a Windows Runner through a protected journal (section 7).

## 2. Modules, and how they correspond to the code

| Module | Stands for | Uses |
|---|---|---|
| `VmQueue` | the queue file and every edit of it | - |
| `LeasedQueue` | every queue tool, with locks, leases and deaths | extends `VmQueue` |
| `ExclusiveAccess` | what the leased queue promises | instantiated by `LeasedQueue` |
| `TaskRunner` | one resumable SSH task | - |
| `WebJournal` | the recovery journal, its upgrade and the owner's review of a lost one | - |
| `WebSite` | the sessions under a site grant that share the journal | extends `WebJournal` |
| `WebGrants` | granular grants of one web session: proposals, replacement, permits, executions | - |
| `ApprovalRole` | one approver's side of one release request | - |
| `ApprovalVerifier` | the verifier of the replies of all roles, run after run | - |
| `ApprovalQuorum` | what the verifier promises the product gate | instantiated by `ApprovalVerifier` |
| `Flywheel` | the events of the R&D flywheel, transition by transition | - |
| `FilesystemRelease` | the filesystem adapter, write by write | - |
| `ReleaseOrder` | what the deployments on one target promise together | instantiated by `FilesystemRelease` |
| `ProductRelease` | the product gate from approval to the delivered report | extends `FilesystemRelease` |
| `SubmissionGate` | test-submission and the submission gate | - |
| `PreRelease` | pre-release and the event of the product gate | extends `SubmissionGate` |
| `ReleaseWorkflow` | the release gate, and the four stages together | extends `PreRelease` |
| `MC...` | small sets for TLC | extend the module |
| `RemoteXProofs` | theorems about `VmQueue`, `LeasedQueue` and `TaskRunner` | extends them |
| `ProductReleaseProofs` | theorems about `FilesystemRelease` and `ProductRelease` | extends them |
| `WorkflowProofs` | theorems about the four stages | extends `ReleaseWorkflow` |
| `ApprovalRoleProofs`, `ApprovalVerifierProofs`, `FlywheelProofs`, `WebGrantsProofs`, `WebSiteProofs` | theorems | extend the module |

Operators whose comment starts with `Bug:` or "A defect" are faulty variants of the definition
that follows them.  Nothing uses them; put in the place of that definition, each makes a property
fail, which shows that the property is sensitive to the code it is about.

**VmQueue.**  `owner` and `waiters` are the `resources` of the JSON file.  Every function of
`vm_queue.py` loads, changes and replaces the file under one lock, so it is one action: `Request`,
`Claim`, `Release`, `Cancel`; `Vacate` and `Requeue` are the edits of `queue_leases.py`.
Timestamps, reasons and views are left out.

**LeasedQueue.**  A process `p` runs one call at a time; `pc[p]` names the next section and
`call[p]` holds what the call has read (`active`, the live lease found by `_expire_locked`, is
kept across sections as the code keeps it).  `opLock` is the operation lock per resource,
`leaseLock` the lock of the lease file, which `_expire_locked` and `queue_recover_stale` hold
across the write of the queue file.  A section that reads and writes under locks which it takes
and releases is one action; `Pop` is separate from `Expire` and `Stale` because two files are
written and the process can die between them.  `queue_release`'s `_clear_lease` runs outside
the operation lock, as in the code.  A lease is a holder and a flag "live": lengths of leases
matter only through when they end, and `Tick` may end one at any time.  `Interrupt` is a death,
an exception or a lock timeout between any two sections.

**TaskRunner.**  `files` is the task directory, `starter` and `worker` the positions in `start`
and `run`, `script` the SSH process, `client[c]` the position of another process in `cancel` or
`collect`.  Each file operation, signal or look at a process is one action.  `dying` is a kill that
was sent: the worker may complete the operation it is in and nothing more.  The kill, and a death of
the worker, leave `script` alone (`start_new_session`, `execution.py:361`); it ends with
`run_process` or by itself (`SshEnds`), which stands also for the job object that ends it with its
worker on Windows.  `RemoveDirectory` may be followed by
a delayed write of a canceller, which creates the directory again, as `_write_json` does.

**WebJournal, WebSite.**  `key`, `version` and `pending` are the integrity key and the envelope
`uncertain-writes.json`; `review[p]` is the `RecoveryService` of process `p`, whose review
publishes a marker, writes its receipt and removes the marker in steps that a death may separate.
What a review has seen of the audit ledger is the `ledger` of its preview; `Fresh` is
`recheck_legacy_evidence`, which refuses when a record has come since.
`trusted` and `settledBy` are history variables: which losses an owner has accepted.  `svc[s]`
is one `SiteService` with its `Channel` and worker: tool calls, one thread per decision, one per
confirmed action, the reader of the pipe and the closing hook.  What a thread does between two
waits, under the service lock, is one action (a worker's answer to a preview is checked in one such
section, `PreviewAnswered`, and published in another, `Previewed`); `op` is the holder of
`operation_lock` and `line`
the command the worker is executing.  The clock appears as an alternative of each check: wherever
the code checks validity, the session may turn out to have expired, and is closed there.

**WebGrants.**  `req[r]` and `grant[r]` are the request and the grant that came of it, `session`
the worker's phase, the fences of broker and channel and `setup_hold`; `att[a]` is an attempt and
`journal` its entry in the recovery journal (here a set; `WebJournal` has what is behind it).
`call` is the position of the tool call, which holds `execute_lock` while it executes or proposes,
`decision` the thread that applies a decision, `window[r]` and `confirm[a]` the threads of the
windows, and `net` the reader of the pipe.  `broker.lock` is held by a decision from its check to
its publication; a revocation sets its fence without waiting for it, so `Fence` and `RevokeAction`
may come between any two steps.  A permit that was answered may still be on its way (`permits`)
when the grant is revoked, and is forwarded later (`Forward`) unless the channel is closed.  The
channel may be closed at any time (`CloseChannel`); the fence that its closing hook sets is a step of
its own (`SessionFenced`), and a call that waits may learn of the end in between (`WorkerLost`).

**ApprovalRole.**  `checkpoint`, `decidedAt`, `current` and `outcome` are the database,
`nonceFile` is `page-state.json`, `page` the page objects, `opener`, `post` and `scan` the
positions in `open_page`, `_handle_submission` and `run_once`.  A step is one transaction, one
mail or one update of the file.  `Mail(v, delivered, sent)` is what a caller may rely on in
`send_email`: the mail arrives or not, and the caller learns of it or not.  A decision's identity
in the store includes `decided_at` in whole seconds, hence `clock`.

**ApprovalVerifier.**  `reply` and `box` are the mails that were sent and that have arrived (in
any order, in duplicate); `event`, `validated`, `quarantined`, `current`, `receipts`, `flagged`
and `accepted` are the store; `handed` is what the product gate has accepted.  `run` is the
position in `run_once`: the mails are taken newest first, each in a transaction of its own, then
come the receipt (`Reconcile`), the withdrawal event, the audit, the handoff and its record, or
the reminders.  A run that dies starts over from the store.

**Flywheel.**  `state[e]` is the row of the event, `run` the position in `run_once`, `_advance_validated`,
`_process_decision`, `_process_evidence` or `retry_event`.  A step is one transaction of the
store, one frozen file or one call of the presenter, the verifiers or the agent.  `granted`,
`builds`, `claimed` and `verified` count transitions and builds, so that evidence of one build can
be told from that of another.

**FilesystemRelease.**  `current[t]`, `record[d]`, `rollback[d]` and `installed` are the files
under a target; `call[t]` is the operation that holds its lock.  Each write of a file is one
action, `Kill` may come between any two, `Damage` changes an installed release.  A pointer
carries a stamp, since `activated_at` makes two pointers to one release different.

**ProductRelease.**  `event` is the event file and `gate.copy` the copy a run works on: an
operation of `release_gate_production.py` changes the copy and saves it at its end (`Save`), while
`receipts`, `readback`, `report` and `delivery` are files of their own, written on the way.  The
adapter is the module `FilesystemRelease`, called for each stage on its own target; a run that
dies leaves its adapter working (`OrphanEnds`).  `world` is what changes outside: the approvals,
the credential, the availability of the adapters.

**SubmissionGate, PreRelease, ReleaseWorkflow.**  `submission`, `processed`, `pending`, `task`
and `rec` are the event files and records of the four stages, `passMails`, `requests` and
`announced` what they mailed to each other, `product` the one event of the product gate that all
rounds share.  `gateRun`, `op[t]`, `preRun` and `gate` are the positions of the runs and calls;
`op[t].copy` is the task file a `create_request` works on and writes back whole, without a lock, while
other testers do the same.  A pass becomes a task whether the submission gate has signed it
(`StoreTask`) or not (`StorePlainTask`: a machine event with any manifest that agrees with itself, or
a text without one); `origin` is the mark `_rebind_fallback_provenance` and the parser keep, from the
task through the request and the record to the notice.  `intent` stands for the inputs that a frozen
PASS binds, `output[r]` for the output directories that `build_final_release` has published.  A person
may write a request by hand (`PlainRequest`) or have the product gate check the event.

## 3. Runs: what is checked, and the bounds

| Run | Instance | Distinct states | Checks |
|---|---|---|---|
| `vm_queue` | 3 requesters, 1 host, 2 services | 19 216 | `NoOvertaking`, `HostServed` |
| `leased_queue` | 2 requesters, 2 processes, 1 machine, all tools | 144 881 | `OwnershipEnds`, `ImplementsQueue`, `ImplementsAccess`, `SilentOwnerYields` |
| `task_runner` | 2 clients | 2 704 | `CleanupAfterExit`, `StatusSettles` |
| `web_site` | 2 sessions of one origin, 1 action, 1 request of each page, 1 reviewing process, 1 loss, 1 death, 1 fault | 1 594 469 | `UnsettledFenced`, `ReservationReturned`, `HistoryReviewed`, `WithdrawnStays` |
| `web_grants` | 2 startup requests and 1 for a write, 2 attempts, 2 uses, 2 grants at once | 730 718 | `BudgetKept`, `RevocationLasts`, `WritesFenced`, `NoLateWrite` |
| `approval_role` | 1 server, 1 thread, 2 pages or 2 seconds, audit required | 473 372 | `MailedIsRecorded`, `SentMeansMailed`, `DecisionsAuthenticated`, `FirstDecisionMailed` |
| `verifier` | 2 roles, 1 required, 2 replies, 2 arrivals, 1 reminder, 1 death | 324 552 | `ReceiptChain`, `WithdrawalFlagged`, `ImplementsQuorum`, `DriftCloses`, `RepliesProcessed`, `VerifiedHandedOver` |
| `flywheel` | 2 events in 3 files and a broken file, 1 kind of evidence, 1 failed build, 1 change, 1 death | 419 390 | `ConsentPerBuild`, `DecisionTakenUp` |
| `adapter` | 1 target, 3 deployments, 2 kills | 219 411 | `PointerResolves`, `PassMeansRestored`, `ImplementsOrder` |
| `gate` | 3 stages, 1 kill, 1 death, 2 changes | 229 961 | `VerifiedIsLive`, `RolledBackIsRestored`, `ReportMailedOnce`, `Settles`, `MismatchEnds` |
| `workflow` | 2 rounds, 1 submitted, 1 with an unsigned pass, 1 tester, 2 jobs, 1 fault | 631 814 | `NotifiedIsProven`, `SentIsBuilt`, `PassReachesTester`, `RequestReachesGate` |
| `cancel_leaves_script` | 1 client | - | a counterexample to `CancelStopsScript` (section 6) |

What the properties say:

* **Queue.**  `NoOvertaking`: once *a* waits ahead of *b*, *b* neither gets in front nor becomes
  the owner while *a* waits.  `HostServed`: a waiting host request is served or given up,
  although services come and go.  `OwnershipEnds`: an owner loses its resource only by its own
  release or rollback, or because its own lease ran out; a lease that a former owner left in the
  file costs nobody anything.  `ImplementsQueue`: every section of every tool does to the queue
  file what one operation of `VmQueue` does, or nothing, wherever the tool is cut short.
  `ImplementsAccess`: machines and their services are worked on by one requester at a time.  The run
  has one machine without services; that a machine and its services exclude each other is checked in
  `MCLeasedScopes` and proved for every topology (`LeasedImplementsAccess`).
  `SilentOwnerYields`: a leased owner that falls silent loses the machine.
* **Tasks.**  `CleanupAfterExit`: whoever is about to remove the directory knows that the worker has
  exited, whoever else cancels or collects, and whatever of the worker's pid file and result is there.
  `StatusSettles`: a started task ends up finished, orphaned or removed.
* **Web.**  `UnsettledFenced`: as long as a write of a session may have taken effect and nobody
  knows, no other session holds its origin or could reserve it, until an owner has accepted the
  loss.  `ReservationReturned`: a session that has closed with every outcome known has given its
  reservation back.  `HistoryReviewed`: while an envelope is missing that once was, or might have
  been, nothing is reserved before a review has been committed.  `WithdrawnStays`: an action its
  owner has withdrawn is never permitted, wherever its thread is at that moment.
* **Granular grants.**  `BudgetKept`: what was taken under a grant and its replacements, with what
  the last of them still allows, stays within what the owner approved for each.
  `RevocationLasts`: no usable grant takes over from one whose revocation was complete, whatever
  decision was on its way.  `WritesFenced`: a write that left the worker stays in the journal until
  its outcome was read back, however the call that made it ended.  `NoLateWrite`: once the
  revocation of a grant, or of a confirmation, is complete, no write of it leaves the worker unless
  the whole session is being closed.
* **Approval.**  `MailedIsRecorded`: a decision is durable before it is mailed.
  `SentMeansMailed`: "SENT" rests on a delivered mail.  `DecisionsAuthenticated`: no decision
  without the durable authentication checkpoint.  `FirstDecisionMailed`: a decision that is not
  replaced is mailed before the request expires.
* **Verifier.**  `ReceiptChain`: the receipts form one chain, and the receipt a run works with is
  its last.  `WithdrawalFlagged`: a run never goes past a withdrawn approval without having
  recorded it.
  `ImplementsQuorum`: a release goes forward only at a moment at which every required role
  approves and none objects.  `DriftCloses`: nothing is handed over for a request whose mail
  changed after it was frozen.  `RepliesProcessed`: every mail is taken up, in spite of runs that
  die.  `VerifiedHandedOver`: a unanimous approval that lasts reaches the gate.
* **Flywheel.**  `ConsentPerBuild`: the agent is started at most once per verified decision, and
  the decision was asked for with the package that is frozen.
  `DecisionTakenUp`: an approved decision is taken up by a later run, whatever died before.
* **Product gate.**  `PointerResolves`: the current pointer never names a release that is not in
  place, nor one of another target.  `PassMeansRestored`: a rollback that passes leaves the
  target as it was before the deployment.  `ImplementsOrder`: the operations, killed and repeated
  as they may be, replace and restore releases in order.  `VerifiedIsLive`: an event is verified only while its
  release is in production.  `RolledBackIsRestored`: an event that is rolled back has left a target
  as it was and touched none behind it.  `ReportMailedOnce`: at most once, and delivered only if.
  `Settles`: an authorized release comes to an end while its credential is valid.  `MismatchEnds`: once
  the credential has lapsed, a release whose readback did not match is taken out of production or the
  event says that it could not be, although the run that read it back may have died (while the
  credential is valid it may stay there, section 6).
* **Workflow.**  `NotifiedIsProven`: the release group is told only of a pass whose round and
  manifest are those that the product gate has tested, built and checked; one that is marked as
  verified was passed by a job of the submission gate, whatever unsigned mails came before it.
  `SentIsBuilt`: a task that is ready to be sent, or sent, rests on material built from its own manifest
  with its own frozen inputs, and a sent task has its request in the mailbox, although calls and runs
  write back whole copies.  `PassReachesTester`, `RequestReachesGate`: a pass becomes a task and a
  request a record, although mails are refused and processes die; a ready task may be overwritten by
  an older copy of a second tester, and then the request is not promised.

**Why the bounds are enough.**  Requesters, processes, threads, pages, roles, deployments and
clients of one kind are interchangeable, and each property relates at most two of them (three for
a line in which one leaves from between two others, hence three requesters in `vm_queue`, and for
deployments that replace each other, hence three in `adapter`).  Two processes are two sides of a
race; a process that dies is free to run the next call, so two stand for any sequence of them.
One machine is enough for all tools because resources interact only through a host and its
services, which `MCLeasedScopes.cfg` has for the four tools through which resources change hands.
In `approval_role`, two pages are the old one and the new one of a rotation, two verdicts a
decision and the one that replaces it, and two seconds distinguish a repetition in the same second
from a later one; a second page *and* a second second are not combined (`OneBoundAtATime`).  In
`verifier`, the two replies are an approval and its withdrawal, or a decision of each role, one of
which is required; `MCVerifierReplies.cfg` has three replies of two required roles (2 237 222 states)
for the safety properties.  In `web_grants`, one startup grant is replaced by another and a write is
executed twice under one grant; `MCWebHold.cfg` has three startup requests with one use.
In `flywheel`, one event is in two files.  In `workflow`,
a second round exists as what a request can name wrongly, and an unsigned pass brings no manifest or
one that no job has passed.  One tester there is not enough for every interleaving of
`create_request`, which takes no lock: the two safety properties are therefore proved for any number of
testers (`NoticesAreProven`, `SentRestsOnBuild`), and `MCTwoTesters` has two.
With two testers, one round, no unsigned pass and no fault TLC confirms all four properties of the run
(1 508 336 states, too many to keep as a run).  One death each is enough
to cut any
operation anywhere and to see what the next run makes of it; `adapter` has two, because a repeated
operation can be killed in its turn.  All `Max...` constants are bounds on counters.  Where a
theorem is proved (section 5) no bound remains.

`CHECK_DEADLOCK FALSE` is set where the system may stop: a task that was removed, a request that
has expired, a release that is delivered and a workflow whose mails and jobs are used up have
nothing left to do.  The queue, the adapter and the flywheel check deadlock.

Further configurations are kept beside the runs: larger or differently shaped instances
(`MCLeasedScopes`: a machine and its service; `MCApprovalRole`: two threads and two pages;
`MCVerifierReplies`: three replies; `MCTwoTesters`: two testers) and the
counterexamples of section 6.

## 4. Fairness

* `FairQueueSpec` (`vm_queue`): the first waiter keeps claiming, because `queue_acquire` answers
  every waiter with `nextAction: wait-and-retry-acquire`; an owner lets go, itself or by its lease;
  rollbacks stop some time, because the lease file does not stay unwritable for ever.
* `FairSpec` of `LeasedQueue`: a running call goes on (its locks have timeouts), a lease runs
  out (`expiresAt`), and somebody retries `queue_acquire` for every resource (strong fairness,
  since the operation lock is not always free when it retries).  `<>[][QuietNext]_vars`: calls
  are cut short finitely often; with a retry that dies each time nothing could be promised.
* `FairTaskSpec` of `TaskRunner`: the worker goes on by itself, since `run_process` waits for the SSH
  process no longer than its timeout.
  No caller is assumed to do anything, and deaths are not restricted.
* `FairSpec` of `ApprovalRole`: the scheduler starts `run_once` again and again; a mail that is
  tried again and again is delivered and acknowledged some time (strong fairness of that outcome
  only); runs, but not servers or threads, are cut short finitely often.  The approver does not
  have to do anything.  `OneBoundAtATime` constrains only steps that no fairness asks for (opening
  a page, the clock), so that it cuts no behaviour a liveness property would have to consider.
* `FairSpec` of `ApprovalVerifier`: the scheduler starts runs for ever and a run that does not die
  ends (weak fairness); the cloud audit and the handoff to the gate work again and again, if not
  always (strong fairness of their success).  Nobody has to reply or to deliver a mail.
* `Spec` of `Flywheel`: weak fairness of a run's own steps; strong fairness of starting one, since
  an operator's retry may hold the lock.  No operator has to retry, nobody has to decide.
* `FairSpec` of `ProductRelease`: the scheduler starts a run after the other and an adapter that
  was started works or ends (its caller kills it after a timeout).  A credential may lapse and need not.
* `FairSpec` of `ReleaseWorkflow`: the scheduler of each stage starts a run after the other.
  Submitters, testers and jobs do not have to do anything, deaths and refused mails are bounded.
* `WebSite` and `WebGrants` state no fairness: what they promise is safety, and whether an owner
  answers is his.

## 5. Proofs

Every invariant and every action property that a run checks is also a theorem, for arbitrary
constants; only the liveness properties are not (section 7).  The assumptions are the named ones
of the modules: `QueueAssumption` (hosts and services are different things, each service has a
host, "nobody" is no requester), `ProcAssumption` ("no process" is no process, the tools are those
the code has), `RoleAssumption`, `VerifierAssumption` and `ReleaseAssumption` (bounds are natural
numbers, "none" is no verdict, server or deployment, required roles are roles and there is one, a
deployment has a target), `FlywheelAssumption` ("none" is neither an event nor a number),
`GrantsAssumption` (requests for startup resources are requests, "none" is neither a request nor an
attempt, bounds are positive), `JournalAssumption` and `SiteAssumption` (recovery identities are no
sessions, each session has an origin and its own attempts and requests), `GateAssumption` (three
stages, each with a deployment of its own), `SubmissionAssumption` (bounds are natural numbers, a round
is a positive one) and `PreAssumption` (inputs are positive numbers, unsigned passes are for rounds and
bring numbers).  The number of testers, clients or sessions is nowhere limited.
None assumes finiteness, except of what the code itself limits.

| Theorem | Establishes | Argument |
|---|---|---|
| `QueueLoadable` | `[](QueueTypeOK /\ StateLoadable)`: no sequence of operations writes a file that `_load_state` refuses | inductive as it stands; lemmas about `Append` and `RemoveFirst` on sequences without duplicates |
| `QueueFIFO`, `QueueNoPreemption` | `NoOvertaking`; ownership passes through "unowned" | from `QueueLoadable`, one case per operation; removing a third party from a line keeps the order of the others |
| `LeasedChecks` | `[](TypeOK /\ CheckStaysTrue)`: whoever works on a resource or is about to record a lease works for its present owner, although the check was made in an earlier section | `LeasedInv`, below |
| `LeasedImplementsQueue` | `ImplementsQueue` | every section is a `QueueStep` or leaves the queue alone, under `LeasedInv` |
| `LeasedOwnershipEnds`, `LeasedNotStolen` | `OwnershipEnds`; a live lease of the owner is never replaced by somebody else's | from `LeasedInv` |
| `LeasedImplementsAccess` | `ImplementsAccess`, through the mapping `Using` | from `LeasedInv` before and after the step |
| `TaskSafety`, with the corollaries `CleanupWaits`, `FailedStartIsSafe` | `CleanupAfterExit`; `CompletedIsOver`: a completed task has no SSH process left; `FailedStartStops`: a failed start leaves no worker that goes on | `TaskInv`, below |
| `RoleSafety`, with the corollaries `NoncesAreUsedOnce`, `SentIsMailed`, `DecisionsRestOnRequest` | the invariants of `ApprovalRole` | `RoleInv`, below |
| `VerifierSafety` | the decisions of the store are those of validated replies, and the receipt of a run agrees with them until its handoff | `IInv`, below |
| `VerifierImplementsQuorum`, `DriftIsFinal` | `ImplementsQuorum`, `DriftCloses` | from `VerifierSafety`; a mail that is ingested is a vote of the quorum, the handoff is its `GoForward` |
| `RoundInductive`, with the corollaries `VerifierTypes`, `ReceiptsChain`, `WithdrawalsFlagged`, `RemindersOrdered` | `ReceiptChain`, `WithdrawalFlagged`; reminders are numbered without gaps | `RoundInv`, below |
| `PointerAlwaysResolves`, `PassedIsRestored` | the invariants of the adapter | `AdapterInv`, below |
| `AdapterImplementsOrder` | `ImplementsOrder` | from `AdapterInv`: each write of the pointer is `GoLive` or `TakeBack`, the first write of a record is `Prepare` |
| `FlywheelSafety`, with the corollaries `ConsentIsPerBuild`, `CompletionIsProven` | `ConsentPerBuild`; `CompleteIsProven`: an event is complete with the proven evidence of its last build only | `IInv`, below |
| `ProtocolKept` | `TransitionsAllowed`: rows move along the transitions the controller lists, whoever dies where | from `FlywheelSafety`, one case per operation |
| `GrantsSafety`, with the corollaries `RevocationIsFinal`, `WritesStayFenced` | no grant takes over from a withdrawn one; a write stays in the journal until it was read back | `IInv`, below |
| `BudgetSafety`, `BudgetIsKept` | `BudgetKept`: a line of replacements stays within what was approved for each grant in it | `BudgetInv`, below |
| `WithdrawnIsNotWritten` | `NoLateWrite`: no write leaves after its grant or its confirmation was withdrawn, unless the whole session is fenced | from `GrantsSafety`: only the worker's `Forward` lets a write leave, and the invariant says what a permit rests on |
| `ReleaseInductive`, with the corollaries `ReleaseTypes`, `VerifiedHolds`, `RolledBackHolds`, `MailedOnce` | `VerifiedIsLive`, `RolledBackIsRestored`, `ReportMailedOnce` | the gate's `IInv`, below |
| `Inductive` (of `WebSiteProofs`), with the corollaries `OriginsFenced`, `ReservationsReturned` | `UnsettledFenced`, `ReservationReturned` | `IInv`, below |
| `HistoriesReviewed`, `WithdrawnStaysSo` | `HistoryReviewed`, `WithdrawnStays` | from `Inductive`, one case per kind of step |
| `WorkflowSafety`, `NoticesAreProven`, `SentRestsOnBuild` | `NotifiedIsProven`, `SentIsBuilt`, for any number of testers and any unsigned mails | `WorkflowInv` and `Grows`, below |

`LeasedInv` is `TypeOK /\ StateLoadable /\ LockDiscipline /\ CheckStaysTrue`.  `LockDiscipline`
is what makes `CheckStaysTrue` inductive: a process in a section where its check matters holds the
operation lock, and every section that could take the resource from its owner needs that lock.
`StateLoadable` enters with `ImplementsAccess`: a host and its services have different operation
locks, and only the queue file keeps both from being worked on at once.

`TaskInv` adds `Connected` to the invariants: the task's id, and with it `cancel` and `collect`,
exists only once `start()` has returned; `worker.pid` is there by then until the directory is
removed; the starter knows whether a worker exists; only a worker whose `run_process` has returned, and
that after its SSH process, reports a completed task.  Without it a collector could meet a worker
without a pid file, take it for gone and remove the directory under it.

`RoleInv` adds `PostsSound`, `ScanSound` and `PagesSound`: what each thread, run and opener holds
in its variables while it is between two steps is backed by the store (the decision it is about to
send is recorded, the mail it is about to report was delivered), and a page that is about to start
has no submissions yet.

The verifier's `IInv` adds `Agreement` to the types: from its reconciliation to its handoff the
receipt of a run says what the roles say, because nothing else writes decisions while the run
holds the lock; and a request at the handoff is frozen and has not drifted.

`RoundInv` is about the receipts.  Its parts are `Counted` (what is counted was validated) and
`Linked`: no two receipts say the same, each is superseded by the next, and only the last one can have
the decisions that
stand now.  The reason is that decisions never come back, because each is a mail that was not
counted before; hence a receipt that `record_receipt` finds again is the last one, and the one
before it is the only one that it can withdraw.  `RunLinked` carries this to the run that works with
them, wherever the run before it died.

`AdapterInv` adds `CallsSound` and `RecordsSound`: what an operation has established before its
present place (its release is installed, its record prepared, the pointer is the one the record
replaces), and that a record's previous release stays installed on the same target.  Without the
latter a rollback could restore a pointer to nothing.

The gate's `IInv` says what the files mean at any moment, since a run that dies forgets everything
but the event and the receipts, and leaves its adapter working.  `UntouchedSound`: as long as a stage
has no receipt, nothing has touched the targets behind it; without it a rollback could not know that
it restores all there is.  `ProductionSound`: the receipt of the last stage means that the release is
live and nothing that runs can change that, or that the event is `Doomed`, which means that it cannot
be verified any more (the credential has lapsed, the readback failed, the event is blocked).
`RunInv` says what a run, or the operation it has left behind, has still to do: the copy of a run that
works is the event but for what the run saves at its end, and an adapter that answers "pass" has left
its target as its caller will read it.  `DeliverySound` is why the report is mailed once: the attempt
is recorded before the mail and never made again.

The flywheel's `IInv` adds `PlaceSound`, `RowsSound` and `EvidencesSound` to the types.
`PlaceSound` says which state the row of the event is in at each place of the run: true because a
run holds the lock until it ends or dies, and an operator's retry takes the same lock.
`RowsSound` says what a row vouches for (a presented request is frozen and its mail went out; no
more builds than decisions), `EvidencesSound` that all evidence is that of the last build, which
is what lets `verify` compare counters of different steps.

The `IInv` of the grants adds `GrantsInv` and `ActionsInv` to the types.  `LineSound` ties each
request to the grants it replaces: they are marked replaced and none of them was withdrawn, which
a decision that is being published keeps because `_replacement_unchanged` looks again under the
publication lock.  `AttemptSound` says what a permit rests on: while the reader works for an attempt
or the worker holds its permit, either the channel is closed, over which nothing goes any more, or the
call waits for the worker, and the session is fenced unless neither the grant nor the confirmation was
withdrawn.  It holds because a revocation looks for the attempt after it has set its fence, and an
attempt is listed as executing before its command is sent.

`BudgetInv` generalises `BudgetKept` to what a step can keep: for each grant *s* of the line of *r*,
what was spent in the line from *s* on, with what *r* has left, is within what was approved for *s*.
A replacement extends every such sum by a grant that has spent nothing and gets what its source had
left; a use moves one from what is left to what is spent, and can only come from the last grant of a
line, because the others are marked replaced (`LineSound`).  `LineClosed` says that lines are finite
and contain the lines of their members.  What a sum over a set does when one element changes is
induction over finite sets; the theorems of the library for that take an operator as a parameter, so
the lemmas here use the well-foundedness of the strict subset ordering (`WFMin`) to show that the sum
is the number of pairs of a grant and one of its uses (`TotalUnits`).  `Cardinality` does the rest.

The `IInv` of the sites has three layers.  `ActionSound` and `ServiceSound` are about one session:
what was permitted is executing or has an outcome, what was withdrawn cannot be confirmed again, and
who may have written has reserved.  `EnvelopeSound` and `ReviewSound` are about the journal: an
envelope that is missing without an owner's acceptance does not come back except through a marker.
`ReservationSound`, `OriginSound` and `ReturnSound` tie the two: the entry of a reservation is in
the envelope, or the envelope is missing, or an owner has accepted its loss; of two sessions of one
origin only one is open with a reservation; a session that has closed has given back what it
could.  `ReviewSound` needs the ledger to be read again under the lock of the journal (`Fresh`):
what an owner accepts are the sessions recorded until then and no later one.

`WorkflowInv` follows a manifest from the mail it came in to the group that is told.  It is copied
from file to file by processes that take no lock, so that a copy may be old in everything that a task
file can lose: its status and its frozen PASS.  What the proof rests on is what no step takes back
(`Grows`): the manifests that passed, the directories that were built, the manifest and the origin of a
task, the requests that were sent and what the product gate has imported.  `CopyOf` says that the copy
of a call or of a retry agrees with the file in manifest and origin, `CallSound` that what the call may
still write is true whatever the others have written: past the import its manifest is the one of the
event, past the build the directory of its own inputs is there, after the mail its request is in the
mailbox.  Each of these lasts because it speaks only of what grows.

## 6. Where the code and its documents disagree

`cancel_leaves_script`: `cancel` signals the process group of the worker
(`remotex/src/task_manager.py:138`), but `run_process` starts the SSH process in a session of its own
(`remotex/src/execution.py:361`), and the worker has no handler for SIGTERM that would pass the signal
on.  The description of the tool says "Idempotently terminate the task worker and its SSH process tree."
(`remotex/src/task_manager.py:545`).  The run shows `CancelStopsScript` violated: the task is reported as
cancelled, the worker is gone, and the script goes on, without the time limit that the worker would have
kept for it.  On Windows the job object of the worker ends the SSH process; on other systems nothing does.

Other behaviours that a reader may not expect have a configuration each, with a counterexample:

* `MCReadbackLost` (`MismatchRollsBack`, with one death and fairness of the scheduler):
  `run_production_readback` writes the receipt of a mismatch before it rolls production back
  (`product-release-gate/src/release_gate_production.py:3296`).  When the run dies in between, later runs
  find the receipt and end with an error as long as the credential is valid, which it need not cease to
  be in the time the counterexample looks at; `product-release-gate/README.md:151` says that a mismatch
  "automatically invokes the bound full-production rollback".  Once the credential has lapsed, a later
  run does start the rollback (`release_gate_production.py:3252`), which is what `MismatchEnds` checks.
* `MCLeasedOrphan` (`OwnersAreLeased`): `queue_release` clears the lease after the operation lock
  is free (`remotex/src/queue_leases.py:495`).  Another session of the same requester that acquires
  in between keeps the machine and loses its lease; such an owner never expires.
* `MCTaskCancel` (`FinishedStays`): `cancel` looks for a result, kills, and writes "cancelled"
  (`remotex/src/task_manager.py:458`); a worker that finishes in between has its outcome replaced.
* `MCApprovalUnsent` (`UnsentIsKnown`): `_retry_unsent_decision` reads the latest SMTP outcome of
  the role, whichever decision it belongs to (`release-approval/src/release_approval_mcp.py:623`).
  A second decision that is recorded when its thread ends before an outcome is taken for sent;
  `FirstDecisionMailed` and `SentMeansMailed` speak of a first decision because of this.
* `CreatedAudited`, in place of `UnsentIsKnown` in that configuration: the message checkpoint is
  stored before `REQUEST_CREATED` is written (`release_approval_mcp.py:354`), and only new messages
  are audited.
* `UsedByItself`, likewise: `_consume_reserved_nonce` does not look whose
  `page-state.json` it marks (`release_approval_page.py:378`), so a submission in flight uses up
  the nonce of the page that has replaced its own.
* `MCVerifierOrder` (`LaterDecisionStands`): replies of one role that wait for the same run are
  ingested newest first, and the one ingested last, the oldest, supersedes the others
  (`release-approval-verifier/src/verifier_store.py:209`).
* `MCReleaseUndone` (`RollbackStays`): a `deploy` repeated after a completed rollback puts the
  release live again (`product-release-gate/src/filesystem_release_adapter.py:958`).
* `MCTwoTesters` (`FrozenStays` with two testers): `create_request` takes no lock
  (`pre-release/src/pre_release_controller.py:215`), so two calls for one task write whole copies over
  each other, and the later write of an earlier copy thaws a frozen PASS, replaces it by one with other
  inputs, or makes a sent task one that was never sent.  What was mailed stays true nevertheless:
  `NotifiedIsProven` and `SentIsBuilt` hold in the same configuration when `FrozenStays` is left out of
  it.  A ready request that is overwritten in this way is not sent, which is the exception in
  `RequestReachesGate`.
* The first mail of a round becomes its task (`pre_release_controller.py:525`), signed or not
  (`_parse_submission_message`, lines 571-587), and later ones are ignored.  An unsigned mail that
  comes first displaces the signed pass of the gate, and the round stays marked as unverified through
  request, record and notice.  `NotifiedIsProven` says what the mark is worth.
* `MCWebTwoActions` (`OneAction`): the late `_run` of a withdrawn action clears the
  `pending_action` of the action that has followed it (`remotex/src/web_site_service.py:284`), so
  that a third can begin beside the second.
* `MCWebHold` (`HoldWhilePending`): `_sync_setup_hold` looks for a pending replacement before it
  waits for `execute_lock` (`remotex/src/web_task_service.py:136`).  The window of an earlier request
  that is closed in between releases the worker while a newer replacement waits for its decision.
  Budgets are kept all the same, because `reserve` refuses while a replacement is pending.

## 7. What is only model-checked, and what is not modelled

Liveness (`HostServed`, `SilentOwnerYields`, `StatusSettles`, `FirstDecisionMailed`,
`RepliesProcessed`, `VerifiedHandedOver`, `DecisionTakenUp`, `Settles`, `MismatchEnds`,
`PassReachesTester`, `RequestReachesGate`) is checked by TLC only: it rests on fairness, which is
outside the prover's reach, as is `ENABLED`.  So is what a recursive definition computes for every
input; the modules with proofs use none.  `ProductRelease` is proved safe for one release, which is
what the module describes.

Some properties are defined and not in a run, because a theorem proves them (`StateLoadable`,
`NoPreemption`, `CheckStaysTrue`, `LeaseNotStolen`, `CompletedIsOver`, `FailedStartStops`,
`NonceSingleUse`, `TransitionsAllowed`, `CompleteIsProven`, `RemindersInOrder` and the type invariants of
the modules), or because they say little more than
an action of the model (`SealStaysTrue`).

Not modelled within the modelled components:

* reuse of process ids by the operating system (`remotex/src/task_manager.py:444`), and the limits on
  memory, time and output under which `run_process` puts the SSH process;
* in the material workflow, the contents of the final release: Manifest-R is its output directory, so
  that the digests in a signed request are not compared with it;
* `cleanup_sensitive_artifacts`, which removes files of earlier versions;
* the event log in the lease file and the idle check of `web:` resources (a call that may fail);
* the SQLite connection that handler threads and the main thread of one approval server share: a
  store operation is one step here, while the error path of one thread could roll back the
  transaction of another;
* failures of single writes of `page-state.json` and its checksums: reservation and release are
  one step each;
* the authentication of mails by header and challenge: a mail is authentic or not;
* the audit hash chains and the MACs of the web journal, which detect changes made outside the
  program;
* several requests in one run of the verifier, one after the other: a mail of one that raises
  stops the others until the next run;
* the product gate's own submission path, the contents of manifests and rule results, the SVN
  live handoff; signatures and the unified approval mail;
* in the web sessions: login, nonces and digests, read-only requests, idempotency keys;
* in `WebGrants`: grants with several items and their dependencies, actions that only read, limits
  on the bytes of a response, static resources (which are counted like the others), and the
  revisions of the startup protocol with their references and proposals, where the login is one
  step.

Components without a module:

* **Web initialization** (`web_initialization.py`, `web_initialization_v3.py`,
  `web_request_profiles.py`): validation, digests and references of proposed startup resources.
* **Configuration, setup, scheduler, CLI** of the approval plugins: parsing and installation of an
  OS timer; the scheduler is the fairness of the runs.
* **Shared workflow core**: pure checks of formats and digests.
* **RemoteX adapters, credentials, profiles, host keys, reports.**  Most of it builds command lines
  and edits one file in one call.  Three parts keep state over several calls and are left for
  later: `vmware_adapter.py` records the snapshots it has created, and a deletion that times out
  after it took effect leaves the record, under which a later snapshot of the same name may be
  deleted; `service_keys.py` deploys through a lock directory on the target, which stays behind
  when the caller dies; `host_keys.py` reads its registry and writes it back without a lock, after
  it has changed `known_hosts`.  The preflight receipts of `windows_guest.py` are only added to.
* **GitLab, provisioning of a Windows Runner.**  It creates a paused Runner, registers it, installs
  and starts a service and only then activates the Runner; a journal names the stage, a failure
  pauses the Runner again or rolls it back, and a later call resumes from the journal.  What may
  go wrong is an end of the process between two of these steps; left for later.
* **The rest of GitLab; IMAP/SMTP; legacy SSH; WeCom; bulletin, time reminder, Lark skills; bootstrap and
  documentation tools**: clients of external services, builders of command lines, and scripts that
  copy files.  They keep no state that processes share.

## 8. What could come next

1. `HostTools`: snapshots and their records, the deployment of service keys and the approval of
   host keys on one machine, with callers that die and commands that time out.
2. `RunnerProvisioning`: the journal of the GitLab plugin, with a death after each of its steps, the
   rollback and the resumption, and the Runner that must not be active without its receipt.
3. `SharedConnection`: several threads, one SQLite connection, and what a rollback takes along.
4. Several requests in one run of the verifier, and several roles of `ApprovalRole` composed with
   it through one mailbox.
