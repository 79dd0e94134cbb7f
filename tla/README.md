# AgentOps Dashboard: TLA+ specifications

AgentOps triages bug reports. A user submits a GitHub issue; a LangGraph graph of
LLM agents investigates it, may question the user twice, and writes a report; the
user can pause, redirect, resume and kill the job meanwhile. These modules
specify the parts of the repository where order, overlap and failure decide
whether that works: the graph; the life of a job between the API, the arq queue,
the worker and the graph; how jobs are admitted; what the browser learns of them;
the vector index of a repository; and the session of the user.

Paths below are relative to the repository root; `A/` is `src/agentops/`.

## 1. Inventory

| Component | Source | State it keeps | Operations | Talks to |
|---|---|---|---|---|
| Triage graph | `A/graph/**` | `BugTriageState` in the LangGraph checkpoint of thread `job_id` | one superstep per node: supervisor, four agents, `human_input`, writer | invoked by the worker; calls the LLM and the agent services |
| Control requests | `A/api/routers/jobs.py`, `A/graphql/schema.py`, `A/github/writeback.py` | `JobData` in Redis `job:<id>` (whole-record `get`/`setex`), `active_jobs:<owner>` | answer, pause, resume, redirect, kill, post comment, in REST and GraphQL | write the record; enqueue and abort arq tasks; publish |
| Worker | `A/worker.py`, `A/worker_middleware.py`, `A/events/interrupt.py` | the same record and counter; arq's keys | `run_triage`, `resume_graph`, `expire_human_input`, cron `job_timeout_cleaner`, error handler | drives the graph, enqueues the timer, publishes |
| Job admission | `create_job` in both APIs | `idempotency:*`, `active_jobs:<owner>`, record, `repo_index:*` | claim key, count, fetch issue, save, enqueue | worker (first task), codebase index |
| Event stream and transformer | `_sse_generator`, `job_events`, `A/events/transformer.py`, `src/frontend/src/store/jobStore.ts` | a Redis Pub/Sub channel per job; the browser's job map, log and subscriptions | publish, subscribe, snapshot, fold | worker and kill publish; browser folds |
| Codebase index | `A/tasks/codebase.py`, `A/api/routers/webhooks.py` | `index_lock:*`, `repo_index:*`, Chroma collection | build, update, webhook push | enqueued by admission and webhook; read by an agent |
| Authentication session | `A/api/routers/auth.py`, `A/auth/service.py`, `A/api/deps/auth.py`, `authStore.ts`, `App.tsx` | `oauth_state`, `auth_code:*`, `refresh_token:*`, `jti_blacklist:*` | login, callback, token exchange, refresh, logout | browser, GitHub OAuth |
| GitHub client | `A/github/client.py` | none | fetch issue, post comment, add labels | external |
| Agent services | `src/agents/*` | none | one LLM reply per request | graph |
| Metrics, LangSmith, DB models, pages, `A/tasks/triage.py` | | counters; unused tables; rendering; an unregistered task | | |

What is hard here:

- **Whole-record writes.** Every handler and task loads `job:<id>`, awaits other
  things and writes the whole record back. Nothing locks it.
- **Two owners of one thread.** The timer `expire_human_input` and
  `resume_graph` are different arq ids, so arq lets both drive one thread.
- **arq's silent no-op.** `enqueue_job` returns without effect while the id is
  queued, in progress or has a stored result. The code clears the result of
  `job_id` before it resumes, but cannot clear "in progress".
- **Abort is a flag.** `_abort_arq_job` writes to a set the worker reads later;
  with no such task the entry waits for the next task of that id.
- **Five guards over an LLM.** `route_from_supervisor` must hold against any
  sequence of decisions, interrupts, retries and restarts.
- **News before or after the fact.** The worker publishes and then saves, kill
  saves and then publishes, and Pub/Sub keeps nothing for a late subscriber.
- **Shared cookies.** Every tab's sign-in and sign-out moves the same two
  cookies, while requests that read them are under way.
- **Keys that expire** under those who rely on them: the owner's counter, the
  index lock and guard, the blacklist entry.
- **Cancellation.** `CancelledError` (abort, `job_timeout` of 300 s) passes
  `worker_error_handler`, which catches `Exception`.

What makes each component correct, in a sentence: the *graph* keeps its budget,
writes no unapproved report, asks only fresh questions and at most two, and comes
to rest; *job and worker* never leave a wait that cannot end, return the slot of
a finished job, give one question one answer and call a job done only with a
report; *admission* makes one job per issue, counted while it lives and leaving
nothing behind when refused; the *event stream* loses no ending or question and
takes no ending back; the *index* has one builder at a time and comes whatever
fails; a *session* is started once and is over after logout. `PROJECT.json` lists the hazards by
source line with the properties that cover each.

## 2. Plan

| Step | Modules | State |
|---|---|---|
| 1 | `GraphThread` (abstract thread), `TriageGraph` (implements it), `TriageGraphProofs` | done |
| 2 | `TriageJob`: record, requests, arq, worker, cleaner, thread used as `GraphThread`; `TriageJobProofs`, `TriageJobNewsProofs`, `TriageJobCalmProofs` | done, its safety properties proved |
| 3 | `OwnerQuota` (abstract), `JobAdmission` (implements it), `JobAdmissionProofs` | done, all its properties proved |
| 4 | `JobNews` (abstract, implemented by `TriageJob`), `EventTransformer`, `EventStream`, `EventStreamProofs` | done, its properties proved |
| 5 | `CodebaseIndex`, `CodebaseIndexProofs` | done, its safety proved |
| 6 | `AuthSession`, `AuthSessionProofs` | done, its properties proved |

Compositions: `TriageGraph` and `TriageJob` meet in `GraphThread`: the one
implements it, the other drives it. `TriageJob` and `EventStream` meet in
`JobNews` in the same way. `EventStream` also takes in `EventTransformer`.
`JobAdmission` refines `OwnerQuota`; it stands beside `TriageJob`, whose jobs it
creates and whose endings it keeps only as far as slot and key are concerned.

Every safety property a run checks, action properties and refinements included,
is now stated by a theorem. What could still be proved is more general forms of
three of them: the calm environment could admit a request while other handlers
are past their last save, and the job's theorems could say what a fault costs
(today they speak of behaviours up to the first one).

## 3. Modules and code

### GraphThread
What one LangGraph thread promises its users: absent, working, asking or
finished; a fresh start forgets everything, one resume value answers one
question, at most `MaxQuestions` are answered, and only a fresh start moves a
finished thread.

### TriageGraph
One action per node and per way the worker invokes the graph.

| TLA+ | Code |
|---|---|
| `Supervisor`, `InvokeSupervisor`, `ShouldSetHitl` | `supervisor_node`: two tries at the LLM, forced fallback, storing the question |
| `Route`, `G1`–`G5` | `route_from_supervisor`, guards in code order |
| `AgentNode(a)` | the four agent nodes: a finding, an iteration, and for the critic the verdict |
| `AskHuman`, `HumanAnswered` | `human_input_node` before and after `interrupt()` |
| `Writer`, `StreamEnds` | `writer_node`, edge to END |
| `StartFresh`, `Resume`, `Interrupted` | `run_triage`'s initial state, `Command(resume=...)`, an exception, cancellation or crash |

LLM and agent replies are any their schemas allow, invalid ones included.
Findings keep only the agent's name, exchanges the iteration at which the
question was decided and answered. `BugTriageState.paused` is left out: nothing
in the repository sets it, so `interrupt("manual_pause")` is unreachable; pausing
is a matter of the job record (see `TriageJob`).

### TriageJob
One job; every await that touches Redis, arq or the graph is one step. An actor
(request, arq task or cleaner) is a `pc`, the awaits it has still to make
(`todo`), its copy of the record (`data`), and for a task its loop's copy of the
thread and the resume value it carries. A handler's action is its load and guard;
`Save` writes the copy back, whatever happened to the record meanwhile.

| TLA+ | Code |
|---|---|
| `Answer`, `Pause`, `Resume`, `Redirect`, `Kill`, `PostComment`, `GqlPause`, `GqlResume` | the handlers; GraphQL's pause and resume lack the guards of REST's |
| `Save`, `Decrement`, `AbortTask`, `ClearResult`, `EnqueueResume`, `EnqueueTimeout`, `CallOut` | the awaits they share |
| `TaskStart`, `TaskFinish`, `TaskCancelled`, `Enqueued`, `Finished` | arq: start (or end at once, if aborted), result kept, cancellation, the no-op rule |
| `RunTriage`, `ResumeGraph`, `ExpireLoad`, `ExpirePeek`, `StreamBegin` | the three tasks up to the stream |
| `GraphCalls` … `GraphFails` | supersteps, as `GraphThread` allows them, committed from the loop's own copy |
| `FinalizeLoad`, `FinalizeCheck`, `FinalizeDone` | `_stream_and_finalize` after the stream |
| `HandleError` | `worker_error_handler` (it does not wrap `expire_human_input`) |
| `Clean` | `job_timeout_cleaner` |
| `TimerDue`, `WaitAges` | the clock: the deferred task is due, the wait is half an hour old, stored results expire |
| `WorkerCrash`, `TaskTimesOut` | process death (arq runs the tasks again), arq's `job_timeout`, at any await |

Abstractions. `waiting_since` is unset, recent or old. A question is its number.
Redirect instructions are written and never read, so only the enqueue remains.
Publishing is a step with no effect on this module's state: `Speech` reads off
what an actor is about to publish or save, and `NewsSpec` says that the whole
behaves as `JobNews`, on which `EventStream` builds. The GitHub
calls of `post_triage_comment` are one step that may fail. Requests a guard
refuses change nothing and are left out. Redis and arq calls do not fail. The
clock moves only when nothing is in progress: half an hour is longer than any
request, and than a task, which arq cuts at 300 s. The record's 24-hour expiry
is not modelled.

### OwnerQuota and JobAdmission
`OwnerQuota` is the promise: a job is let in only while fewer than `Limit` hold a
slot, every slot comes back once, and only a slip of the bookkeeping lets one
more in. `JobAdmission` is the code: requests and job ids are one set, since a
request draws its id before anything else.

| TLA+ | Code |
|---|---|
| `Claim`, `ReadExisting` | SET NX of `idempotency:*`; the GET of a duplicate |
| `Count`, `SetExpiry`, `Uncount`, `Release` | INCR and comparison, EXPIRE, DECR and DELETE before the 429 |
| `Fetch`, `SaveRecord`, `Enqueue` | `fetch_issue`, the record, `run_triage` |
| `EndLoad`, `EndSave`, `EndReturn`, `EndUnlock` | load and guard, save, DECR and key deletion of an ending: the job's task with its error handler, or the cleaner (`worker`), and `kill_job` (`kill`) |
| `RequestCut`, `EndCut` | an await that raises, a dead process, a cancelled task |
| `Revive` | an answer or GraphQL resume of a finished job |
| `CounterExpires`, `KeyExpires` | the counter's 24 hours, the key's |

Both `create_job` differ only in `created_at`. `holders` and `slips` are history:
who was counted and not yet given back, and how many slots the counter has lost
sight of. The key's 24 hours may end at any point of a job: nothing ends a pause
and each save renews the record, and a job cut at arq's 300 s stays `running`, so
both can be live when their key goes. `outlived` is the history of the jobs that
still needed theirs (`NeedsKey`). The record's own 24 hours are left out: it is
written after the key and renewed by every save.

### JobNews
What a job tells its channel. `waiting`, `done` and `failed` are published first
and saved second, `killed` the other way round, all other statuses are saved
without a word (`timed_out` among them: the cleaner never publishes), and a task
cut between its two steps leaves an announcement the record does not bear out.
`Restore` is the writing back of an old copy (redirect, post comment). Its
statuses `queued`, `running`, `pausing` and `paused` are one, `going`: no event
tells them apart. `TriageJob` implements it in both regimes and under faults.

### EventTransformer and EventStream
`EventTransformer` has the pure part: `Transform` gives the events of a LangGraph
callback, `Assign` the transformer's `_agents` after it. `EventStream` joins it
to `JobNews` and adds Pub/Sub, the two streams and the browser's store.

| TLA+ | Code |
|---|---|
| `EmitToken`, `EmitTool`, `ChainStart`, `ChainEnd` | the transformer's handlers |
| `NodeStarts` ... `ChainEnds`, `Reports` | the loop over `astream_events`: a callback, transformed and published |
| `Publish`, `JobMoves`, `JobSaves` | the steps of `JobNews` |
| `Open`, `Subscribe`, `Snapshot` | the page's load and `_ensureSubscription`; SUBSCRIBE of either stream; `job_events`' snapshot |
| `reached`, `current_node`, `Names` | the node the thread ended last, the one on record, and the saves that copy the first to the second (question, report, pause) |
| `CurrentSnapshot` | `JobSnapshotEvent` as `job_events` fills it |
| `Deliver`, `Fold` | a message through the stream into `processJobEvent` |
| `Drop` | a lost connection and the client's reconnect |

A viewer's `wire` is everything between Redis and the store, in order. `late` and
`missed` are what a tab cannot know: news published before it subscribed and
not yet saved, and news it will never get. `told` says whether its connection has
brought an `agent.spawned`: until then the node the store shows is the one on
record when the page was loaded or the snapshot taken, which in an invocation
after a question or a pause is an earlier one. Left out: the text of tokens, events
the store only logs, the store's optimistic updates by its own buttons, the root graph's callbacks
(they carry no node), old copies written back (`MayRestore` is FALSE: what they
restore is announced by nobody, so `NothingMissed` has nothing to say of them).
The writer's nodes have agents too, so its tokens go out as `agent.token`;
`output.token` and its section are reached only by a node without an agent.

### CodebaseIndex
One repository: `create_job`'s guard and enqueue, arq's keys of the job
`index:<repository>`, the build under its lock, and the push webhook.

| TLA+ | Code |
|---|---|
| `Reserve`, `EnqueueIndex`, `EnqueueTriage`, `RequestCut` | the end of `create_job` |
| `Push` | `github_webhook` and its LPUSH |
| `Acquire`, `WriteBegins`, `WriteEnds`, `BuildFails`, `Release` | `build_codebase_index` |
| `Start`, `Finish`, `CutShort`, `Crash` | arq: start, result, `job_timeout`, a dead worker |
| `GuardExpires`, `ResultExpires`, `ClaimExpires`, `LockLapses`, `LockOverrun` | times to live; `LockOverrun` is a build longer than the lock's hour |

A build makes no await between taking and releasing the lock, so arq's 300 s
strike only at the release (`CutShort`). `left` holds the workers that went away
without releasing; the lock of one of them, and of no other, lapses by itself.
`Push` on a queue with jobs is refused by Redis and changes nothing.

### AuthSession
One user, one browser with several tabs and its two cookies, Redis, and the
handlers under `/auth` with the `logout` mutation. A login's number stands for
its state, one-time code and refresh token.

| TLA+ | Code |
|---|---|
| `Login`, `ReturnFromGitHub`, `ConsumeState`, `AskGitHub`, `StoreGitHubToken`, `StoreCode` | `login`, `callback` |
| `SendCode`, `TakeCode`, `StoreRecord` | `AuthCallbackPage`, `exchange_token` |
| `Load`, `Restore`, `Refresh` | `ProtectedRoute`, `restoreSession`, `refresh_token` |
| `Logout`, `Authorize`, `Revoke`, `Afterwards`, `Forget` | `handleLogout` or the mutation; `get_current_user`, blacklist, refresh token |
| `Disconnect` | `delete_github_token` and its mutation |
| `Answer`, `Page` | cookies set or cleared, the page that follows |
| `Reload`, `Cut`, `Finds`, `Tick` | a page loaded again under way, a failing request, an expired key, the tokens' clock |

The access token of the code exchange is left out: the page navigates to the
dashboard, which loads anew and refreshes. A token ages on the clock; everything
else that expires may be gone whenever it is read.

External parts (arq, Redis, LangGraph and the browser) are marked as such in the map
and modelled from how the code uses them.

## 4. What the runs check

| Run | Instance | Shows |
|---|---|---|
| `triage_graph` | `MaxIterations` 4, `MaxTries` 2, deadlock checked | `BudgetKept`, `SuperstepsBounded`, `InvestigatorFirst`, `FreshQuestion`, `AtMostTwoExchanges`, `RejectionGate`; `InvocationEnds`; `ThreadSpec` (the graph implements `GraphThread`) |
| `job_calm` | `CalmSpec`, all eight requests, 4 of them, 2 questions | `SlotReturned`, `DoneHasReport`, `OneAnswerPerQuestion`, `ThreadSpec`, `NewsSpec` |
| `job_any_order` | `Spec`, 2 clients, every request but answer overlapping everything | `SlotReturned` |
| `job_faults` | `FairSpec`, an answer at any moment and one crash or time limit at any await | `WaitCanEnd`, `EveryWaitEnds`, `NewsSpec` |
| `admission` | 3 requests, 2 issues, limit 1, one mishap (a step cut short, a revival, the expiry of counter or key) | `CounterCounts`, `QuotaSpec`, `LiveHolds`, `OneJobPerIssue`, `NothingLeftBehind` |
| `events` | 1 task, 1 killer, 1 viewer on either stream, 2 nodes, chains 2 deep, 2 agents, 1 message under way beside a snapshot, 1 lost connection | `RunHasOwnAgent`, `TokensFiled`, `NothingMissed`, `EndingStays` |
| `index` | 2 requests, 2 workers, 2 faults, deadlock checked | `OneBuilder`, `NoLockLeft`, `IndexComes` |
| `session` | 2 tabs, 2 requests at a time, 2 logins, 2 tokens that live 2 ticks, a leeway of 1, a clock of 2, one fault | `OneSessionPerLogin`, `RevokedStaysRefused`, `EndedStaysEnded`, `SessionHasGitHub` |
| `terminal_is_final`, `answer_lost`, `second_timer`, `push_breaks_queue` | | disagreements with the documents, section 6 |

What some of the properties say, and where they stop:

- `OneAnswerPerQuestion` speaks of questions that were put. A task that a kill cut
  off before the interrupt leaves a thread about to ask; a job revived in that
  state hears its resume value as an answer to no question (`to` is 0), and may do
  so more than once.

- `NothingLeftBehind`: at rest a key names a job with a record and a slot belongs
  to a live job, *unless a request or an ending was cut short*: an exception in
  `fetch_issue` does leave key and slot taken for a day.
- `OneJobPerIssue` excepts issues of which a job was revived or outlived its key:
  a job still at work a day after its claim does get a second live one beside it.
- `CounterCounts` and `QuotaSpec` tie the counter to the slots held, less the
  slips: a slot returned twice, or a counter that expired under running jobs.
- `NothingMissed`: an open, drained stream has seen every ending and question
  but those in the worker's window between publish and save when it subscribed;
  the REST stream, which takes no snapshot, also lacks what was news before.
- `TokensFiled` holds for both streams from the first `agent.spawned` of a
  connection on. A page that comes in the middle of a node files the tokens before
  that under the node on record (or, on the REST stream, the one it showed), which may
  be another one (section 6).
- `IndexComes` supposes that jobs for the repository keep being submitted, and
  that no push has spoilt the queue.
- `RevokedStaysRefused` speaks of a token's own time. The blacklist entry lives
  900 s from the logout and the decoder allows 30 s beyond the expiry, so a token
  logged out in its first 30 s is accepted again at the end of the leeway;
  the run reaches that too.

**Regimes.** `Spec` lets a request arrive at any await of anything else.
`CalmSpec` lets one arrive when at most the job's own task is in progress, inside
the graph (where it spends nearly all its time), and runs its handler through;
worker tasks and the cleaner still overlap. The difference matters. Under `Spec`
with an answer, `OneAnswerPerQuestion` and `DoneHasReport` do not hold: the
answer and the timer both pass their guard before either writes, and each drives
the thread from its own copy, so the slower can put an older checkpoint over the
thread the faster has finished and called done. `SlotReturned` fails there too:
the answer's abort entry can cancel the timer's task between the save of its
final status and its decrement. `SlotReturned` says `active <= 0`, not `= 0`: a
job revived after its end, or timed out by the cleaner while the timer's task
runs, is counted down twice.

**Bounds.** `MaxIterations` 4 leaves room for the first investigator pass, two
questions and a rejected critique before the budget is spent; two tries give a
restart over any checkpoint. In `TriageJob` two questions are all the graph can
ask (`MaxExchanges`); four requests reach every pair of control loops
(pause/resume/pause, kill/revive/kill); two clients give every overlap of two
handlers; one fault at any await is a crash between any two steps. `MaxAsked`
bounds questions over restarts, so that a run_triage retried for ever is cut.
One job is enough: jobs share only the owner's counter, and `active` is this
job's part of it.

`Limit` 1 with three requests makes a refusal, a duplicate and a second job of
one issue meet; requests and issues are interchangeable, which the run uses as
symmetry. One viewer stands for all, because viewers change nothing another one
sees; two agents give a node run twice, a nested chain, or a second node, and the
tokens between them are not counted; the wire's
place holds a token, an ending or what gathers behind a snapshot when the connection
goes, and the job may go through a question into its next invocation meanwhile
(longer wires are the proofs' subject). Two workers give a lock lost to its
successor, two faults a crash and a failure in one build. Two tabs and two
requests under way give every overlap of two sign-ins, of a sign-out with a
refresh, and of one code sent twice; tabs and requests are symmetric. With a life of
two, the first tick passes between a logout and a check inside the token's own
time; the second takes a token into the leeway, its blacklist entry gone.
`MaxMishaps`, `MaxAgents`, `MaxWire`, `MaxDrops`, `MaxFaults`, `MaxLogins`,
`MaxTokens` and `MaxTime` only bound; the proofs hold for all values.

**Deadlock** is checked for the graph (a finished thread can be resumed) and the
index (a job can always be submitted). The other runs switch it off: a job in a
final status with its requests spent, an owner whose requests are over, a page
whose stream has ended and a clock at its bound all stop.

**Fairness.** `TriageGraph`: `WF(NodeStep)`, LangGraph's loop goes on while a
node is due; nothing is assumed of the worker, the human or the node failing.
`TriageJob`: weak fairness of each task and each coroutine's next await (the
event loops of worker and API run what is ready), of the cleaner (a cron job
every 15 minutes), and of the clock. No fairness for requests, faults or any
particular choice inside a task (which node fails, what the LLM says).
`CodebaseIndex`: weak fairness of each request's and each build's next await, of
a polling worker taking the job, and of every key's time to live; none for
submissions, pushes or faults, whose number `MaxFaults` bounds. The other modules
state safety only. `MaxRequests` makes requests stop eventually, which liveness needs: a user who
pauses and resumes for ever keeps a job waiting again and again.

## 5. What is proved

`TriageGraphProofs`, for every `MaxIterations` and `MaxTries` above zero:
`TypeCorrect`, `BudgetHolds`, `SuperstepBound`, `InvestigatorLeads`,
`QuestionsFresh`, `TwoQuestions`, `GateHolds` (each `Spec => []P` for the
property of the `triage_graph` run), and `ImplementsThread`
(`Spec => ThreadSpec`). The only assumptions are the two on the constants.

None of the properties is inductive alone. The invariant `IInv` adds what the
guards leave behind at each node: a node that costs an iteration is due only
while one is left (`BudgetInv`); supersteps lag two per iteration plus a `Lead`
that depends on the node (`SuperstepsInv`); an exchange implies a finding
(`FirstInv`); the reason the writer was chosen, carried from the routing to the
report (`GateInv`); an open interrupt is at `human_input` (`AskingInv`). Lemmas
state what `Route` returns and that its guards agree with `ShouldSetHitl`; that
agreement is what `FreshQuestion` rests on. One lemma per action shows that it
keeps `IInv`; `ImplementsThread` maps each step to a step of `GraphThread` or a
stutter from the same invariant.

`TriageJobProofs`, for any set of clients, any set of requests and any
`MaxRequests`, `MaxAsked` and `MaxFaults`: `TypeCorrect` and `WaitsAreComplete`
(`Spec => []WaitCanEnd`). The assumptions are those in `TriageJob`: the bounds
are natural numbers and the requests are among the eight kinds.

`WaitCanEnd` speaks of the record, but the record is overwritten from copies of
any age, so the invariant `IInv` says the same of the copy in every actor's hands
(`GoodActor`) and of what it can be made from: the checkpoint and every loop's
copy of the thread ask only a question that has been counted (`GoodThread`). It
survives stale copies because a good copy stays good as `asked` grows (lemma
`Grows`), which is the reason the lost updates of this code never produce a wait
that cannot end. `AwaitStepPreserves`, `RequestPreserves`, `TaskStepPreserves`
and the lemmas on cleaner, clock and crash give one case per action.

`TriageJobNewsProofs`, in the same generality: `ImplementsNews`
(`Spec => NewsSpec`), and with it `CalmSpec => NewsSpec`. Which step of `JobNews` an await is depends on
what the actor has still to do, and that is a sequence; `ShapeInv` (theorem
`ShapeHolds`) lists the sequences there are, the status of the copy that goes
with each, and that arq runs exactly the tasks that are somewhere in their
coroutine. From it lemmas name the await each list waits for (`TaskAwaits`,
`ClientAwaits`, `CleanerAwaits`) and what an accepted request or a task's step
leaves behind (`RequestShape`, `TaskMoves`); every later proof about the job
rests on those.

`TriageJobCalmProofs`, for any clients, requests and bounds, up to the first
fault (`faults = 0`). Beyond it none of them is true, TLC has a counterexample for
each: a crash between a final save and the decrement leaks the slot, and a task
that is retried, or was cut at its time limit, leaves a thread whose next driver
finds it elsewhere than the record says.

- `SlotComesBack`: `Spec => [](faults = 0 => SlotReturned)` when no answers are
  given. `SlotInv`: whenever the record or any actor's copy bears a final status,
  or main is to be aborted, the counter has been decremented or an actor still
  has the decrement on its list. Only an abort takes it off: main's comes
  from a kill, which decrements itself, and timeout's only from an answer. With
  answers it fails (section 4), hence the hypothesis.
- `CalmSlotComesBack`: in the calm environment with answers too. `OneBusy` (while
  a handler runs nothing else does, but main inside a node) gives `TimerSafe`: the
  timer's task is never running when it is aborted.
- `DoneIsFinished`, `GraphAlone`, `QuestionTakesOne` and
  `CalmSpec /\ [](faults = 0) => ThreadSpec` (`ImplementsThread`). All four need
  that one task at a time works on the thread, though arq lets both.
  `DriveInv` says so from the record: main and the timer are never both under
  way, a record that says `waiting` or `done` has no main task with work left, and
  a loop's copy is the checkpoint. It needs `ClientsInv`: a handler that runs
  alone still finds `running` on record when it enqueues `resume_graph`, and
  writes back no older copy. `HeardInv` adds that every answer went to a question
  already counted and that the one being asked has none. The calm hypothesis
  is necessary: under `Spec` an answer and the timer pass their guards together.

`JobAdmissionProofs`, for any finite set of requests, any issues, any limit and
any number of mishaps: `TypeCorrect`, `CounterIsRight`, `ImplementsQuota`
(`Spec => QuotaSpec`), `LiveJobsHold`, `OneJob` and `NothingLeft`. The counter is
tied to the holders by `CountInv` (a request not yet counted holds no slot, so
each INCR adds one; cardinalities from `FiniteSetTheorems`); the refinement maps
`Count` to `Admit`, `EndReturn` to `Return` or `Slip`, the expiry to `Slip`, all
else to a stutter. `LifeInv` orders a job's life (counted, saved, ended,
returned), `KeyInv` says who
owns an issue's key at each point of it, unless one of its jobs was revived or
outlived it, and
`RestInv` what may be on its way to giving key and slot back.

`CodebaseIndexProofs`, for any requests and workers and any number of faults:
`TypeCorrect`, `BuildsAlone` (`OneBuilder`) and `LockReleased` (`NoLockLeft`).
`OneBuilder` is not inductive: `BuilderHolds` adds that a build under way holds
the lock unless it has overrun, and `LeftIsOut` that a worker that went away is
not building, so that the lock which lapses is never that of a build under way.

`EventStreamProofs`, for any tasks, viewers, nodes and bounds: `TypeCorrect`,
`OwnAgent` (`RunHasOwnAgent`) and `EndingsStay` (`EndingStays`). `EndInv` says
that a tab which shows an ending is closed, and that a snapshot of a job that is
over travels only on a stream which ends with it.
`MissesNothing` (`NothingMissed`): `ToldInv` follows each piece of news from its
publication: it is on the tab's wire, or the tab is known to have come too late
for it, or (a kill) it is still to be published; and for a question, whether the
messages before it on the wire still leave the tab asking.
`FilesTokens`: `StreamSpec /\ []OneInside => []TokensFiled`. The page looks at the
node its store shows, so `FiledInv` computes what that will be when each token on
the wire is delivered: that of the last `agent.spawned` before it, or, on a page
that was told, the node shown now. It needs `ToldAfter`: a page is told only after
its snapshot, so that none is left on its wire to put a stale node back. `OneInside` (one task inside the graph at a
time) is needed: two tasks' tokens would mix on the channel. It is what
`GraphAlone` proves of the job.

`AuthSessionProofs`, for any number of tabs, requests, logins and tokens and any
life and leeway of a token: `TypeCorrect`, `OneSession`, `RevokedRefused`,
`EndedForGood` and `GitHubFirst`, all from one inductive invariant. `LoginInv`
follows a login from its state to its session: who holds it after a GETDEL holds
it alone. `SignedInv` says that only logins with a session are carried to a
logout, so that `StoreRecord`, whose login has none yet, never writes back a
record that was deleted. `TokenInv` bounds a token's expiry by the clock, which
is why an entry that lives as long as a new token outlives every older one.

Only model-checked: liveness (`InvocationEnds`, `EveryWaitEnds`, `IndexComes`),
which the proof system cannot do under fairness. Every invariant, action property
and refinement the passing runs check has its theorem, for all values of the
constants, under the hypotheses named above. TLC confirmed the larger inductive
invariants (`SlotInv`, `OneBusy`, `ClientsInv`, `DriveInv`, `HeardInv`, `ToldInv`,
`FiledInv`) on instances like those of the runs before they were proved.

## 6. Where code and documents disagree

Four are runs that end in a counterexample; `PROJECT.json` quotes the lines.

- **Terminal is not final.** Kill leaves `awaiting_human` set, and that flag is
  all `answer_job` tests: a job killed while waiting accepts an answer and runs
  again.
- **An accepted answer can be lost.** Between the save of `waiting` and the end
  of the task arq drops the enqueue; the job says `running` and nothing runs.
- **The second question has no timer** of its own when the first one's key is
  still in use. `job_timeout_cleaner` is what ends that wait (`EveryWaitEnds`).
- **A push breaks the queue.** The webhook LPUSHes JSON on `arq:queue`, arq's
  sorted set: with jobs queued it fails; without, it makes the key a list on
  which every later enqueue and poll fails.

Others met on the way, described here without a run of their own:

- `docs/prd/PRD-003-2` says only the iteration guard bypasses the critic's gate.
  A supervisor that says `end` before a report exists is sent to the writer by
  G4, before G5 looks at the verdict. (`RejectionGate` is what does hold.)
- `docs/prd/PRD-003` has an answer after the timer refused with 409. The timer's
  task leaves `awaiting_human` set, so it is accepted.
- `docs/prd/PRD-002` has `agent.token` appended to its agent's card, and `job_events`
  takes a snapshot to catch up. The store files a token under the node it shows,
  whatever agent it names, and the snapshot names the node on record, that of the
  last question or pause. A page that comes in the middle of a later node appends
  its tokens to that older card until the next `agent.spawned`.
- `create_job`'s docstring ("Idempotent within 24h per issue URL"): a duplicate
  may be answered with the id of a job that is then refused or never saved; a job
  still live a day after its claim gets a second one beside it; and a
  job that failed, was submitted again, revived and failed again deletes its
  successor's key.
- The active-job limit is lifted when the counter's 24 hours end under running
  jobs, and by every slot returned twice.
- Logout: `docs/prd/PRD-008-authentication.md` lists it under the refresh cookie,
  the code asks for a valid access token, so after 15 minutes it is refused and
  the next page load signs in again. The mutation never receives the refresh
  cookie (its path is `/auth`) and leaves the refresh token alone. With two logins
  in one browser, logout ends the login of the cookie, which need not be the
  tab's; an earlier login's refresh token stays valid for its week. Two sign-ins
  at once share one state cookie, and the first to return gets 403.

Behaviour worth knowing that no document speaks of: a crash between the save of a
final status and the decrement leaks the slot; a triage longer than arq's 300 s
leaves `running` for good; kill's abort entry, when no task is running, ends the
next `resume_graph` before it starts; after answer, pause, resume and a pause at
the second question the record shows the first question while the graph asks the
second; resume and redirect values are recorded as the human's answer when an
interrupt is pending. A page open on a job that the cleaner times out is never
told. `job.done` is published before the report is saved, so the query it
triggers in the browser may find none; and when the worker dies in between, the
page has closed its stream on a job that runs again. A build cut at arq's limit
keeps its lock for the hour, and each build adds its chunks to those already in
the collection.

## 7. Not modelled

`update_codebase_index` (only the webhook asks for it, in a form arq does not
read), and the contents of a collection. Agent services (stateless LLM chains,
represented by their possible replies), metrics and LangSmith forwarding (nothing
reads them back), database models (no handler writes them), page rendering and
the activity log, the store's optimistic updates, `A/tasks/triage.py` (not
registered with the worker), prompt texts, issue-URL parsing and report
formatting, the read-only queries of both APIs, the contents of tokens.

## 8. Running

    tlc -workers 2 -config TriageGraph.cfg TriageGraph
    tlc -workers 2 -config TriageJobCalm.cfg TriageJob
    tlc -workers 2 -config TriageJobAnyOrder.cfg TriageJob
    tlc -workers 2 -config TriageJobFaults.cfg TriageJob
    tlc -workers 2 -config MCJobAdmission.cfg MCJobAdmission
    tlc -workers 2 -config MCEventStream.cfg MCEventStream
    tlc -workers 2 -config CodebaseIndex.cfg CodebaseIndex
    tlc -workers 2 -config MCAuthSession.cfg MCAuthSession
    tlapm TriageGraphProofs.tla
    tlapm TriageJobProofs.tla
    tlapm TriageJobNewsProofs.tla
    tlapm TriageJobCalmProofs.tla
    tlapm JobAdmissionProofs.tla
    tlapm CodebaseIndexProofs.tla
    tlapm EventStreamProofs.tla
    tlapm AuthSessionProofs.tla

Each run takes from half a minute to three minutes, the proofs of `JobAdmission`
the longest. Operators whose comment begins "Mutated:" are broken variants of the
operator below them; substituting one makes TLC report the property
`PROJECT.json` pairs it with. No specification uses them.
