------------------------------ MODULE TriageJob ------------------------------
(***************************************************************************)
(* The life of one triage job: its JobData record in Redis, the request    *)
(* handlers of the REST and GraphQL APIs, the arq queue, the worker tasks  *)
(* run_triage, resume_graph and expire_human_input, and the cron cleaner.  *)
(*                                                                         *)
(* Every await on Redis, arq or the graph is one step.  An actor loads the *)
(* whole record, changes its copy, and later writes the whole copy back,   *)
(* so what other actors wrote in between is lost: that is how the code     *)
(* works (get ... setex), and what the interleavings here are about.  The  *)
(* awaits a handler has still to make after its guard are kept in todo.    *)
(*                                                                         *)
(* arq and LangGraph are modelled from how the code uses them.  The thread *)
(* follows GraphThread, which TriageGraph implements.  One job is enough:  *)
(* jobs share only the owner's counter, of which active is this job's part.*)
(* The 24-hour expiry of the record is not modelled.                       *)
(***************************************************************************)
EXTENDS Integers, Sequences, FiniteSets

CONSTANTS
    Clients,        \* requests that may be in progress at the same time
    Requests,       \* the kinds of request clients make, a subset of RequestKinds
    MaxRequests,    \* bound: requests in one behaviour
    MaxAsked,       \* bound: questions put to the human in one behaviour
    MaxFaults       \* bound: worker crashes and tasks that exceed arq's time limit

RequestKinds == {"answer", "pause", "resume", "redirect", "kill", "comment",
                 "gqlPause", "gqlResume"}

ASSUME RequestsAssumption == Requests \subseteq RequestKinds
ASSUME BoundsAssumption ==
    /\ MaxRequests \in Nat
    /\ MaxAsked \in Nat
    /\ MaxFaults \in Nat

Tasks == {"main", "timeout"}        \* arq job ids job_id and timeout:job_id
ASSUME ActorsAssumption == Clients \cap (Tasks \cup {"cleaner"}) = {}
Actors == Clients \cup Tasks \cup {"cleaner"}

MaxExchanges == 2

VARIABLES
    rec,            \* the record under job:<id>
    active,         \* this job's share of active_jobs:<owner>
    arq,            \* arq's keys for each task id
    checkpoint,     \* the graph thread's latest checkpoint
    asked,          \* questions the graph has put so far
    heard,          \* answers the graph recorded, and to which question
    act,            \* what each actor is doing
    requests, faults

vars == <<rec, active, arq, checkpoint, asked, heard, act, requests, faults>>

-----------------------------------------------------------------------------
(* Data.                                                                   *)

Terminal == {"killed", "done", "failed", "timed_out"}
Statuses == Terminal \cup {"queued", "running", "waiting", "pausing", "paused"}

(* JobData, without the fields no guard reads.  waiting_since is reduced   *)
(* to whether it is set and more than half an hour ago; question names the *)
(* question shown in pending_question, 0 for none; report stands for the   *)
(* report fields.                                                          *)
Record == [status : Statuses, paused : BOOLEAN, awaiting : BOOLEAN,
           since : {"unset", "recent", "old"}, question : Nat, report : BOOLEAN]

NewRecord == [status |-> "queued", paused |-> FALSE, awaiting |-> FALSE,
              since |-> "unset", question |-> 0, report |-> FALSE]

(* A checkpoint: where the thread stands, the exchanges completed, and the *)
(* question an interrupt is asking.  "calling" is "working" with           *)
(* human_input as the next node.                                           *)
Checkpoint == [thread : {"absent", "working", "calling", "asking", "finished"},
               answered : 0 .. MaxExchanges, question : Nat]

(* What resume_graph delivers to the interrupt.  question is the one the   *)
(* sender of an answer was shown.                                          *)
NoValue == [kind |-> "none", question |-> 0]
Values == [kind : {"none", "answer", "resume", "redirect", "timeout"}, question : Nat]

(* An arq message.                                                         *)
NoMessage == [fn |-> "none", value |-> NoValue]
Messages == [fn : {"none", "run_triage", "resume_graph", "expire_human_input"}, value : Values]

(* arq's keys for one id: the queued job (kept until it finishes), whether *)
(* it is in progress, its stored result, its entry in the abort set, and   *)
(* whether a deferred job is due.                                          *)
ArqKeys == [msg : Messages, running : BOOLEAN, result : BOOLEAN,
            abort : BOOLEAN, due : BOOLEAN]

(* An actor: where it is, the awaits left before that point, its copy of   *)
(* the record, and for a task its loop's copy of the thread and the resume *)
(* value in hand.                                                          *)
NoThread == [thread |-> "absent", answered |-> 0, question |-> 0]
Idle == [pc |-> "idle", todo |-> <<>>, data |-> NewRecord,
         loop |-> NoThread, value |-> NoValue]

Init ==
    /\ rec = NewRecord
    /\ active = 1
    /\ arq = [t \in Tasks |->
                [msg |-> IF t = "main" THEN [fn |-> "run_triage", value |-> NoValue] ELSE NoMessage,
                 running |-> FALSE, result |-> FALSE, abort |-> FALSE, due |-> FALSE]]
    /\ checkpoint = NoThread
    /\ asked = 0
    /\ heard = {}
    /\ act = [a \in Actors |-> Idle]
    /\ requests = 0
    /\ faults = 0

Quiet == \A a \in Actors : act[a] = Idle
-----------------------------------------------------------------------------
(* arq.                                                                    *)

(* enqueue_job does nothing while the id is queued, running or has a       *)
(* stored result.                                                          *)
Enqueued(t, msg) ==
    IF arq[t].msg = NoMessage /\ ~arq[t].result
    THEN [arq EXCEPT ![t].msg = msg, ![t].due = FALSE]
    ELSE arq

(* The keys of an id once arq has finished it, however it ended.           *)
Finished(t) ==
    [arq EXCEPT ![t] = [msg |-> NoMessage, running |-> FALSE, result |-> TRUE,
                        abort |-> FALSE, due |-> FALSE]]

-----------------------------------------------------------------------------
(* The awaits of the handlers after their guard, one at a time.            *)

(* The actor once the await at the head of its todo list is over; a        *)
(* request or a sweep with nothing left to do is over too.                 *)
After(a) ==
    LET left == Tail(act[a].todo) IN
    IF left = <<>> /\ a \notin Tasks THEN Idle ELSE [act[a] EXCEPT !.todo = left]

Awaits(a, await) == act[a].todo # <<>> /\ Head(act[a].todo) = await

(* setex of the actor's copy of the record.                                *)
Save(a) ==
    /\ Awaits(a, "save")
    /\ rec' = act[a].data
    /\ act' = [act EXCEPT ![a] = [After(a) EXCEPT !.data = NewRecord]]
    /\ UNCHANGED <<active, arq, checkpoint, asked, heard, requests, faults>>

(* DECR active_jobs:<owner>.                                               *)
Decrement(a) ==
    /\ Awaits(a, "decrement")
    /\ active' = active - 1
    /\ act' = [act EXCEPT ![a] = After(a)]
    /\ UNCHANGED <<rec, arq, checkpoint, asked, heard, requests, faults>>

(* _abort_arq_job: an entry in arq's abort set.                            *)
AbortOf == [main |-> "abort_main", timeout |-> "abort_timeout"]
AbortTask(a) ==
    /\ \E t \in Tasks : Awaits(a, AbortOf[t]) /\ arq' = [arq EXCEPT ![t].abort = TRUE]
    /\ act' = [act EXCEPT ![a] = After(a)]
    /\ UNCHANGED <<rec, active, checkpoint, asked, heard, requests, faults>>

(* _clear_arq_result.                                                      *)
ClearResult(a) ==
    /\ Awaits(a, "clear_result")
    /\ arq' = [arq EXCEPT !["main"].result = FALSE]
    /\ act' = [act EXCEPT ![a] = After(a)]
    /\ UNCHANGED <<rec, active, checkpoint, asked, heard, requests, faults>>

(* enqueue_job of resume_graph under the job's own id.                     *)
EnqueueResume(a) ==
    /\ Awaits(a, "enqueue_resume")
    /\ arq' = Enqueued("main", [fn |-> "resume_graph", value |-> act[a].value])
    /\ act' = [act EXCEPT ![a] = After(a)]
    /\ UNCHANGED <<rec, active, checkpoint, asked, heard, requests, faults>>

(* enqueue_job of expire_human_input, deferred for half an hour.           *)
EnqueueTimeout(a) ==
    /\ Awaits(a, "enqueue_timeout")
    /\ arq' = Enqueued("timeout", [fn |-> "expire_human_input",
                                   value |-> [kind |-> "timeout", question |-> 0]])
    /\ act' = [act EXCEPT ![a] = After(a)]
    /\ UNCHANGED <<rec, active, checkpoint, asked, heard, requests, faults>>

(* Awaits that leave this system's state alone: publishing an event, and   *)
(* the GitHub calls of post_triage_comment between its load and its save.  *)
CallOut(a) ==
    /\ \E await \in {"publish", "github"} : Awaits(a, await)
    /\ act' = [act EXCEPT ![a] = After(a)]
    /\ UNCHANGED <<rec, active, arq, checkpoint, asked, heard, requests, faults>>

(* A GitHub call raises: the handler ends without its save.                *)
GitHubFails(a) ==
    /\ Awaits(a, "github")
    /\ act' = [act EXCEPT ![a] = Idle]
    /\ UNCHANGED <<rec, active, arq, checkpoint, asked, heard, requests, faults>>

AwaitStep(a) ==
    \/ Save(a) \/ Decrement(a) \/ AbortTask(a) \/ ClearResult(a)
    \/ EnqueueResume(a) \/ EnqueueTimeout(a) \/ CallOut(a) \/ GitHubFails(a)

-----------------------------------------------------------------------------
(* Requests.  Each action is the load and the guard of a handler; data is  *)
(* what it will save, todo the awaits that follow, value what it sends to  *)
(* the graph.  Requests a guard turns away change nothing and are left out.*)

Accept(c, kind, data, todo, value) ==
    /\ kind \in Requests
    /\ act[c] = Idle
    /\ requests < MaxRequests
    /\ requests' = requests + 1
    /\ act' = [act EXCEPT ![c] = [Idle EXCEPT !.todo = todo, !.data = data, !.value = value]]
    /\ UNCHANGED <<rec, active, arq, checkpoint, asked, heard, faults>>

Unpaused == [rec EXCEPT !.status = "running", !.paused = FALSE]

(* answer_job, the same in both APIs.                                      *)
Answer(c) ==
    /\ rec.awaiting
    /\ Accept(c, "answer", [rec EXCEPT !.status = "running", !.awaiting = FALSE],
              <<"abort_timeout", "save", "clear_result", "enqueue_resume">>,
              [kind |-> "answer", question |-> rec.question])

(* pause_job of the REST API.                                              *)
Pause(c) ==
    /\ rec.status \notin Terminal
    /\ Accept(c, "pause", [rec EXCEPT !.status = "pausing", !.paused = TRUE],
              <<"save">>, NoValue)

(* resume_job of the REST API.                                             *)
Resume(c) ==
    /\ rec.status \notin Terminal
    /\ rec.paused
    /\ Accept(c, "resume", Unpaused, <<"save", "clear_result", "enqueue_resume">>,
              [kind |-> "resume", question |-> 0])

(* redirect_job, the same in both APIs.  The instruction is appended to a  *)
(* list of the record that nothing reads back.                             *)
Redirect(c) ==
    \/ /\ rec.paused
       /\ Accept(c, "redirect", Unpaused, <<"save", "clear_result", "enqueue_resume">>,
                 [kind |-> "redirect", question |-> 0])
    \/ /\ ~rec.paused
       /\ Accept(c, "redirect", rec, <<"save">>, NoValue)

(* Mutated: kill leaves the slot to the worker.                            *)
KillKeepsSlot(c) ==
    /\ rec.status \notin Terminal
    /\ Accept(c, "kill", [rec EXCEPT !.status = "killed"],
              <<"abort_main", "save", "publish">>, NoValue)

(* Mutated: kill is announced before it is saved.                          *)
KillSaysFirst(c) ==
    /\ rec.status \notin Terminal
    /\ Accept(c, "kill", [rec EXCEPT !.status = "killed"],
              <<"abort_main", "publish", "save", "decrement">>, NoValue)

(* kill_job, the same in both APIs.                                        *)
Kill(c) ==
    /\ rec.status \notin Terminal
    /\ Accept(c, "kill", [rec EXCEPT !.status = "killed"],
              <<"abort_main", "save", "publish", "decrement">>, NoValue)

(* post_triage_comment.  GraphQL lets the caller supply the comment, so    *)
(* the record need not hold a report.                                      *)
PostComment(c) == Accept(c, "comment", rec, <<"github", "save">>, NoValue)

(* The GraphQL mutations pause_job and resume_job test nothing.            *)
GqlPause(c) ==
    Accept(c, "gqlPause", [rec EXCEPT !.status = "pausing", !.paused = TRUE], <<"save">>, NoValue)

GqlResume(c) ==
    Accept(c, "gqlResume", Unpaused, <<"save", "clear_result", "enqueue_resume">>,
           [kind |-> "resume", question |-> 0])

Request(c) ==
    \/ Answer(c) \/ Pause(c) \/ Resume(c) \/ Redirect(c) \/ Kill(c)
    \/ PostComment(c) \/ GqlPause(c) \/ GqlResume(c)

-----------------------------------------------------------------------------
(* Worker tasks.                                                           *)

At(t, pc) == act[t].pc = pc /\ act[t].todo = <<>>

Goto(t, pc) == act' = [act EXCEPT ![t].pc = pc]

(* arq starts a task: a pending abort entry ends it before it begins.      *)
TaskStart(t) ==
    /\ arq[t].msg # NoMessage
    /\ ~arq[t].running
    /\ t = "timeout" => arq[t].due
    /\ IF arq[t].abort
       THEN arq' = Finished(t) /\ UNCHANGED act
       ELSE arq' = [arq EXCEPT ![t].running = TRUE] /\ Goto(t, "load")
    /\ UNCHANGED <<rec, active, checkpoint, asked, heard, requests, faults>>

(* run_triage up to its setex: a job in a final status is left alone.      *)
RunTriage(t) ==
    /\ At(t, "load")
    /\ arq[t].msg.fn = "run_triage"
    /\ IF rec.status \in Terminal
       THEN Goto(t, "finish")
       ELSE act' = [act EXCEPT ![t].pc = "stream", ![t].todo = <<"save">>,
                               ![t].data = [rec EXCEPT !.status = "running"]]
    /\ UNCHANGED <<rec, active, arq, checkpoint, asked, heard, requests, faults>>

(* resume_graph up to the stream.                                          *)
ResumeGraph(t) ==
    /\ At(t, "load")
    /\ arq[t].msg.fn = "resume_graph"
    /\ Goto(t, IF rec.status \in Terminal THEN "finish" ELSE "stream")
    /\ UNCHANGED <<rec, active, arq, checkpoint, asked, heard, requests, faults>>

(* Mutated: the timer does not mind that the wait is over.                 *)
ExpireLoadAnyStatus(t) ==
    /\ At(t, "load")
    /\ arq[t].msg.fn = "expire_human_input"
    /\ Goto(t, IF rec.status \notin Terminal THEN "peek" ELSE "finish")
    /\ UNCHANGED <<rec, active, arq, checkpoint, asked, heard, requests, faults>>

(* expire_human_input: first the record, then the thread.                  *)
ExpireLoad(t) ==
    /\ At(t, "load")
    /\ arq[t].msg.fn = "expire_human_input"
    /\ Goto(t, IF rec.status = "waiting" THEN "peek" ELSE "finish")
    /\ UNCHANGED <<rec, active, arq, checkpoint, asked, heard, requests, faults>>

ExpirePeek(t) ==
    /\ At(t, "peek")
    /\ Goto(t, IF checkpoint.thread \notin {"absent", "finished"} THEN "stream" ELSE "finish")
    /\ UNCHANGED <<rec, active, arq, checkpoint, asked, heard, requests, faults>>

(* astream_events: the loop loads the checkpoint.  run_triage's input      *)
(* overwrites it; a Command on a thread that was never started raises; on  *)
(* a finished thread it streams nothing.                                   *)
StreamBegin(t) ==
    LET fresh == arq[t].msg.fn = "run_triage"
        loop == IF fresh THEN [NoThread EXCEPT !.thread = "working"] ELSE checkpoint
        next == CASE loop.thread = "absent" -> "error"
                  [] loop.thread = "finished" -> "reload"
                  [] OTHER -> "graph"
    IN
    /\ At(t, "stream")
    /\ checkpoint' = loop
    /\ act' = [act EXCEPT ![t].pc = next, ![t].loop = IF next = "graph" THEN loop ELSE NoThread,
                          ![t].value = IF next = "graph" THEN arq[t].msg.value ELSE NoValue]
    /\ UNCHANGED <<rec, active, arq, asked, heard, requests, faults>>

(* The loop records a superstep: its own copy becomes the checkpoint.      *)
Advance(t, loop, pc) ==
    /\ checkpoint' = loop
    /\ act' = [act EXCEPT ![t].pc = pc, ![t].value = NoValue,
                          ![t].loop = IF pc = "graph" THEN loop ELSE NoThread]
    /\ UNCHANGED <<rec, active, arq, requests, faults>>

(* The supervisor chooses human_input.                                     *)
GraphCalls(t) ==
    LET g == act[t].loop IN
    /\ At(t, "graph")
    /\ act[t].value = NoValue
    /\ g.thread = "working"
    /\ g.answered < MaxExchanges
    /\ asked < MaxAsked
    /\ Advance(t, [g EXCEPT !.thread = "calling"], "graph")
    /\ UNCHANGED <<asked, heard>>

(* human_input with no value at hand: the interrupt ends the stream.       *)
GraphAsks(t) ==
    /\ At(t, "graph")
    /\ act[t].value = NoValue
    /\ act[t].loop.thread = "calling"
    /\ asked' = asked + 1
    /\ Advance(t, [act[t].loop EXCEPT !.thread = "asking", !.question = asked'], "reload")
    /\ UNCHANGED heard

(* human_input takes the resume value as the answer.  When the task before *)
(* was cut short the question may never have been put (question 0).        *)
GraphAnswered(t) ==
    LET g == act[t].loop IN
    /\ At(t, "graph")
    /\ act[t].value # NoValue
    /\ g.thread \in {"calling", "asking"}
    /\ heard' = heard \cup {[value |-> act[t].value, to |-> g.question]}
    /\ Advance(t, [thread |-> "working", answered |-> g.answered + 1, question |-> 0], "graph")
    /\ UNCHANGED asked

(* A value resumes a thread whose next node is another: nobody takes it.   *)
GraphValueDropped(t) ==
    /\ At(t, "graph")
    /\ act[t].value # NoValue
    /\ act[t].loop.thread = "working"
    /\ Advance(t, act[t].loop, "graph")
    /\ UNCHANGED <<asked, heard>>

GraphFinishes(t) ==
    /\ At(t, "graph")
    /\ act[t].value = NoValue
    /\ act[t].loop.thread = "working"
    /\ Advance(t, [act[t].loop EXCEPT !.thread = "finished"], "reload")
    /\ UNCHANGED <<asked, heard>>

(* A node other than human_input raises: the checkpoint stays before it.   *)
GraphFails(t) ==
    /\ At(t, "graph")
    /\ act[t].value = NoValue
    /\ act[t].loop.thread = "working"
    /\ act' = [act EXCEPT ![t].pc = "error", ![t].loop = NoThread]
    /\ UNCHANGED <<rec, active, arq, checkpoint, asked, heard, requests, faults>>

(* Mutated: the interrupt is not looked for.                               *)
FinalizeLoadUnchecked(t) ==
    /\ At(t, "reload")
    /\ CASE rec.status \in Terminal -> Goto(t, "finish")
         [] rec.status \notin Terminal /\ (rec.paused \/ rec.status = "pausing") ->
              act' = [act EXCEPT ![t].pc = "finish", ![t].todo = <<"save">>,
                                 ![t].data = [rec EXCEPT !.status = "paused"]]
         [] OTHER -> act' = [act EXCEPT ![t].pc = "collect", ![t].data = rec]
    /\ UNCHANGED <<rec, active, arq, checkpoint, asked, heard, requests, faults>>

(* _stream_and_finalize after the stream: the record is read again.        *)
FinalizeLoad(t) ==
    /\ At(t, "reload")
    /\ CASE rec.status \in Terminal -> Goto(t, "finish")
         [] rec.status \notin Terminal /\ (rec.paused \/ rec.status = "pausing") ->
              act' = [act EXCEPT ![t].pc = "finish", ![t].todo = <<"save">>,
                                 ![t].data = [rec EXCEPT !.status = "paused"]]
         [] OTHER -> act' = [act EXCEPT ![t].pc = "check", ![t].data = rec]
    /\ UNCHANGED <<rec, active, arq, checkpoint, asked, heard, requests, faults>>

(* Mutated: waiting_since is not set.                                      *)
FinalizeCheckUndated(t) ==
    /\ At(t, "check")
    /\ IF checkpoint.thread = "asking"
       THEN act' = [act EXCEPT
                      ![t].pc = "finish",
                      ![t].todo = <<"publish", "save", "enqueue_timeout">>,
                      ![t].data = [@ EXCEPT !.status = "waiting", !.awaiting = TRUE,
                                            !.question = checkpoint.question]]
       ELSE Goto(t, "collect")
    /\ UNCHANGED <<rec, active, arq, checkpoint, asked, heard, requests, faults>>

(* check_for_interrupt, and the awaits of the interrupt branch.            *)
FinalizeCheck(t) ==
    /\ At(t, "check")
    /\ IF checkpoint.thread = "asking"
       THEN act' = [act EXCEPT
                      ![t].pc = "finish",
                      ![t].todo = <<"publish", "save", "enqueue_timeout">>,
                      ![t].data = [@ EXCEPT !.status = "waiting", !.awaiting = TRUE,
                                            !.since = "recent", !.question = checkpoint.question]]
       ELSE Goto(t, "collect")
    /\ UNCHANGED <<rec, active, arq, checkpoint, asked, heard, requests, faults>>

(* Mutated: the status is saved and then published.                        *)
FinalizeDoneSavesFirst(t) ==
    /\ At(t, "collect")
    /\ act' = [act EXCEPT
                 ![t].pc = "finish",
                 ![t].todo = <<"save", "publish", "decrement">>,
                 ![t].data = [@ EXCEPT
                   !.status = "done",
                   !.report = act[t].data.report \/ checkpoint.thread = "finished"]]
    /\ UNCHANGED <<rec, active, arq, checkpoint, asked, heard, requests, faults>>

(* The other branch: the report is read from the graph, then published and *)
(* saved.                                                                  *)
FinalizeDone(t) ==
    /\ At(t, "collect")
    /\ act' = [act EXCEPT
                 ![t].pc = "finish",
                 ![t].todo = <<"publish", "save", "decrement">>,
                 ![t].data = [@ EXCEPT
                   !.status = "done",
                   !.report = act[t].data.report \/ checkpoint.thread = "finished"]]
    /\ UNCHANGED <<rec, active, arq, checkpoint, asked, heard, requests, faults>>

(* Mutated: a status that is no JobStatus.                                 *)
HandleErrorFreely(t) ==
    /\ At(t, "error")
    /\ IF arq[t].msg.fn = "expire_human_input" \/ rec.status \in Terminal
       THEN Goto(t, "finish")
       ELSE act' = [act EXCEPT ![t].pc = "finish",
                               ![t].todo = <<"publish", "save", "decrement">>,
                               ![t].data = [rec EXCEPT !.status = "error"]]
    /\ UNCHANGED <<rec, active, arq, checkpoint, asked, heard, requests, faults>>

(* worker_error_handler, which does not wrap expire_human_input.           *)
HandleError(t) ==
    /\ At(t, "error")
    /\ IF arq[t].msg.fn = "expire_human_input" \/ rec.status \in Terminal
       THEN Goto(t, "finish")
       ELSE act' = [act EXCEPT ![t].pc = "finish",
                               ![t].todo = <<"publish", "save", "decrement">>,
                               ![t].data = [rec EXCEPT !.status = "failed"]]
    /\ UNCHANGED <<rec, active, arq, checkpoint, asked, heard, requests, faults>>

TaskFinish(t) ==
    /\ At(t, "finish")
    /\ arq' = Finished(t)
    /\ act' = [act EXCEPT ![t] = Idle]
    /\ UNCHANGED <<rec, active, checkpoint, asked, heard, requests, faults>>

(* arq finds the running id in its abort set and cancels the coroutine at  *)
(* whatever await it is; CancelledError passes worker_error_handler.       *)
TaskCancelled(t) ==
    /\ arq[t].running
    /\ arq[t].abort
    /\ arq' = Finished(t)
    /\ act' = [act EXCEPT ![t] = Idle]
    /\ UNCHANGED <<rec, active, checkpoint, asked, heard, requests, faults>>

TaskStep(t) ==
    \/ TaskStart(t) \/ RunTriage(t) \/ ResumeGraph(t) \/ ExpireLoad(t) \/ ExpirePeek(t)
    \/ StreamBegin(t) \/ GraphCalls(t) \/ GraphAsks(t) \/ GraphAnswered(t)
    \/ GraphValueDropped(t) \/ GraphFinishes(t) \/ GraphFails(t) \/ FinalizeLoad(t) \/ FinalizeCheck(t)
    \/ FinalizeDone(t) \/ HandleError(t) \/ TaskFinish(t) \/ TaskCancelled(t)

-----------------------------------------------------------------------------
(* The cleaner, the clock and faults.                                      *)

(* Mutated: the cleaner forgets the slot.                                  *)
CleanKeepsSlot ==
    /\ act["cleaner"] = Idle
    /\ rec.status = "waiting"
    /\ rec.since = "old"
    /\ act' = [act EXCEPT !["cleaner"] =
                 [Idle EXCEPT !.todo = <<"save">>,
                              !.data = [rec EXCEPT !.status = "timed_out", !.awaiting = FALSE]]]
    /\ UNCHANGED <<rec, active, arq, checkpoint, asked, heard, requests, faults>>

(* Mutated: the cleaner spares records that await an answer.               *)
CleanUnawaited ==
    /\ act["cleaner"] = Idle
    /\ rec.status = "waiting"
    /\ rec.since = "old"
    /\ ~rec.awaiting
    /\ act' = [act EXCEPT !["cleaner"] =
                 [Idle EXCEPT !.todo = <<"save", "decrement">>,
                              !.data = [rec EXCEPT !.status = "timed_out", !.awaiting = FALSE]]]
    /\ UNCHANGED <<rec, active, arq, checkpoint, asked, heard, requests, faults>>

(* job_timeout_cleaner reaches this job and finds its wait too old.        *)
Clean ==
    /\ act["cleaner"] = Idle
    /\ rec.status = "waiting"
    /\ rec.since = "old"
    /\ act' = [act EXCEPT !["cleaner"] =
                 [Idle EXCEPT !.todo = <<"save", "decrement">>,
                              !.data = [rec EXCEPT !.status = "timed_out", !.awaiting = FALSE]]]
    /\ UNCHANGED <<rec, active, arq, checkpoint, asked, heard, requests, faults>>

(* The deferred task is due: half an hour after it was queued, or, when a  *)
(* question came while an earlier one's task was still queued, sooner.     *)
(* No request or task lasts as long as the clock's two actions.            *)
TimerDue ==
    /\ Quiet
    /\ arq["timeout"].msg # NoMessage
    /\ ~arq["timeout"].due
    /\ arq' = [arq EXCEPT !["timeout"].due = TRUE]
    /\ UNCHANGED <<rec, active, checkpoint, asked, heard, act, requests, faults>>

(* The wait is half an hour old, and results kept for an hour may be gone. *)
WaitAges ==
    /\ Quiet
    /\ rec.since = "recent"
    /\ arq["timeout"].msg # NoMessage => arq["timeout"].due
    /\ rec' = [rec EXCEPT !.since = "old"]
    /\ \E expired \in SUBSET {t \in Tasks : arq[t].result} :
         arq' = [t \in Tasks |-> [arq[t] EXCEPT !.result = @ /\ t \notin expired]]
    /\ UNCHANGED <<active, checkpoint, asked, heard, act, requests, faults>>

(* The worker process dies: its tasks are started again from their arq     *)
(* messages, the sweep is simply over.                                     *)
WorkerCrash ==
    /\ faults < MaxFaults
    /\ faults' = faults + 1
    /\ \E a \in Tasks \cup {"cleaner"} : act[a] # Idle
    /\ act' = [a \in Actors |-> IF a \in Clients THEN act[a] ELSE Idle]
    /\ arq' = [t \in Tasks |-> [arq[t] EXCEPT !.running = FALSE]]
    /\ UNCHANGED <<rec, active, checkpoint, asked, heard, requests>>

(* A task runs into arq's job_timeout, at whatever await it is: it is      *)
(* cancelled, which worker_error_handler lets pass, and not retried.       *)
TaskTimesOut(t) ==
    /\ faults < MaxFaults
    /\ faults' = faults + 1
    /\ arq[t].running
    /\ arq' = Finished(t)
    /\ act' = [act EXCEPT ![t] = Idle]
    /\ UNCHANGED <<rec, active, checkpoint, asked, heard, requests>>

ServerStep ==
    \/ \E t \in Tasks : TaskStep(t) \/ AwaitStep(t) \/ TaskTimesOut(t)
    \/ Clean \/ AwaitStep("cleaner") \/ TimerDue \/ WaitAges \/ WorkerCrash

Next ==
    \/ \E c \in Clients : Request(c) \/ AwaitStep(c)
    \/ ServerStep

Spec == Init /\ [][Next]_vars

(* The worker and the API run every coroutine that can go on, the cron     *)
(* cleaner runs every quarter of an hour, and time passes.                 *)
Fairness ==
    /\ \A t \in Tasks : WF_vars(TaskStep(t) \/ AwaitStep(t))
    /\ \A a \in Clients \cup {"cleaner"} : WF_vars(AwaitStep(a))
    /\ WF_vars(Clean) /\ WF_vars(TimerDue) /\ WF_vars(WaitAges)

FairSpec == Spec /\ Fairness

(* A calm environment: a request comes when nothing is in progress but the *)
(* job's own task inside a node of the graph, where it spends nearly all   *)
(* its time, and the handler runs on without interruption.  The worker's   *)
(* tasks and the cleaner still overlap as they please.                     *)
Calm == \A a \in Actors : act[a] = Idle \/ (a = "main" /\ At(a, "graph"))

CalmNext ==
    \/ \E c \in Clients : (Calm /\ Request(c)) \/ AwaitStep(c)
    \/ (\A c \in Clients : act[c] = Idle) /\ ServerStep

CalmSpec == Init /\ [][CalmNext]_vars

-----------------------------------------------------------------------------
(* Properties.                                                             *)

AwaitNames == {"save", "publish", "decrement", "abort_main", "abort_timeout",
               "clear_result", "enqueue_resume", "enqueue_timeout", "github"}
Pcs == {"idle", "load", "peek", "stream", "graph", "error", "reload", "check",
        "collect", "finish"}

Actor == [pc : Pcs, todo : Seq(AwaitNames), data : Record, loop : Checkpoint, value : Values]

(* Every variable has its type; the record only ever holds a JobStatus.    *)
TypeOK ==
    /\ rec \in Record
    /\ active \in Int
    /\ arq \in [Tasks -> ArqKeys]
    /\ checkpoint \in Checkpoint
    /\ asked \in Nat
    /\ heard \subseteq [value : Values, to : Nat]
    /\ act \in [Actors -> Actor]
    /\ requests \in 0 .. MaxRequests
    /\ faults \in 0 .. MaxFaults

(* A record that says waiting can be left again, whoever wrote it last and *)
(* from however old a copy: an answer is accepted, the cleaner can tell    *)
(* the age of the wait, and the question shown is one the graph has put.   *)
WaitCanEnd ==
    rec.status = "waiting" =>
        rec.awaiting /\ rec.since # "unset" /\ rec.question \in 1 .. asked

(* No wait lasts for ever, even when its timer was dropped, aborted or ran *)
(* into a failing node (expire_human_input reports nothing): the answer,   *)
(* the timer or, last, job_timeout_cleaner moves the record on.            *)
EveryWaitEnds == rec.status = "waiting" ~> rec.status # "waiting"

(* Once nothing is in progress, a job in a final status has given back its *)
(* slot of the owner's active_jobs counter, whichever of kill, the worker, *)
(* the error handler and the cleaner ended it.  (It may have done so more  *)
(* than once.)                                                             *)
SlotReturned == Quiet /\ rec.status \in Terminal => active <= 0

(* A done job carries the report of a thread that ran to its end: the      *)
(* branch after check_for_interrupt is never taken on a thread another     *)
(* task is still driving.                                                  *)
DoneHasReport == rec.status = "done" => rec.report /\ checkpoint.thread = "finished"

(* A question that was put takes one answer: the human's, the timer's and  *)
(* an unpause never both reach it.  (0 is no question but every one that a *)
(* kill cut off before it was put.)                                        *)
OneAnswerPerQuestion == \A h, k \in heard : h.to = k.to /\ h.to # 0 => h = k

(* The tasks use the job's graph thread as GraphThread says it may be      *)
(* used: one loop at a time, every value for one question.                 *)
Thread == INSTANCE GraphThread WITH
    thread <- IF checkpoint.thread = "calling" THEN "working" ELSE checkpoint.thread,
    answered <- checkpoint.answered,
    MaxQuestions <- MaxExchanges
ThreadSpec == Thread!Spec

(* The job speaks to its channel as JobNews says: tasks publish and then   *)
(* save, a kill saves and then publishes, nothing else is announced.       *)
Speech(a) ==
    LET todo == act[a].todo IN
    CASE a \in Tasks /\ todo # <<>> /\ Head(todo) \in {"publish", "save"}
                  /\ act[a].data.status \in {"waiting", "done", "failed"} ->
           [step |-> Head(todo), status |-> act[a].data.status]
      [] a \in Clients /\ (\E i \in DOMAIN todo : todo[i] = "publish") ->
           [step |-> IF Head(todo) = "publish" THEN "publish" ELSE "save", status |-> "killed"]
      [] OTHER -> [step |-> "none", status |-> "none"]

News == INSTANCE JobNews WITH
    status <- IF rec.status \in Terminal \cup {"waiting"} THEN rec.status ELSE "going",
    speaker <- [a \in Tasks \cup Clients |-> Speech(a)],
    streaming <- {t \in Tasks : act[t].pc = "graph"},
    MayRestore <- Requests \cap {"redirect", "comment"} # {}
NewsSpec == News!Spec

(* What the documents say and the code does not do.                        *)

(* "Terminal states: DONE, FAILED, CANCELLED."                             *)
TerminalIsFinal == [][rec.status \in Terminal => rec'.status = rec.status]_vars

(* An answer resumes the job: when nothing is in progress, a running job   *)
(* has a task queued that will carry it on.                                *)
RunningIsWorkedOn == Quiet /\ rec.status = "running" => arq["main"].msg # NoMessage

(* Half an hour's wait is bounded by the deferred expire_human_input: each *)
(* question being asked, and not yet half an hour old, has one queued that *)
(* the worker will run.                                                    *)
EveryWaitHasTimer ==
    Quiet /\ rec.status = "waiting" /\ rec.since = "recent" /\ checkpoint.thread = "asking" =>
        arq["timeout"].msg # NoMessage /\ ~arq["timeout"].abort

=============================================================================
