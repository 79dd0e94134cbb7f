--------------------------- MODULE TriageJobProofs ---------------------------
(***************************************************************************)
(* Two invariants of TriageJob for any number of clients and any bounds:   *)
(* the types, and that a record that says waiting can be left.             *)
(*                                                                         *)
(* The record is overwritten from copies of any age, so the invariant      *)
(* speaks of every copy: an actor that holds a waiting record holds a      *)
(* complete one.  That works because being complete only depends on the    *)
(* number of questions put so far, which never goes down.                  *)
(***************************************************************************)
EXTENDS TriageJob, SequenceTheorems, TLAPS

(* A record that, if it says waiting, can be left.                         *)
GoodRecord(r, n) ==
    /\ r \in Record
    /\ r.status = "waiting" => r.awaiting /\ r.since # "unset" /\ r.question \in 1 .. n

(* A thread that only asks a question it may ask and has counted.          *)
GoodThread(g, n) ==
    /\ g \in Checkpoint
    /\ g.thread \in {"calling", "asking"} => g.answered < MaxExchanges
    /\ g.thread = "asking" => g.question \in 1 .. n

GoodActor(x, n) ==
    /\ x \in Actor
    /\ GoodRecord(x.data, n)
    /\ GoodThread(x.loop, n)

ActorsInv == act \in [Actors -> Actor] /\ \A a \in Actors : GoodActor(act[a], asked)

IInv ==
    /\ TypeOK
    /\ GoodRecord(rec, asked)
    /\ GoodThread(checkpoint, asked)
    /\ ActorsInv

-----------------------------------------------------------------------------
(* More questions spoil nothing.                                           *)
LEMMA Grows ==
    ASSUME NEW n \in Nat, NEW m \in Nat, n <= m
    PROVE  /\ \A r : GoodRecord(r, n) => GoodRecord(r, m)
           /\ \A g : GoodThread(g, n) => GoodThread(g, m)
           /\ \A x : GoodActor(x, n) => GoodActor(x, m)
<1>1. \A k \in 1 .. n : k \in 1 .. m
  OBVIOUS
<1>2. \A r : GoodRecord(r, n) => GoodRecord(r, m)
  BY <1>1 DEF GoodRecord
<1>3. \A g : GoodThread(g, n) => GoodThread(g, m)
  BY <1>1 DEF GoodThread
<1>4. QED
  BY <1>2, <1>3 DEF GoodActor

MovesTo(a, x) == act' = [act EXCEPT ![a] = x]

(* One actor moves, and the others are as good as before.                  *)
LEMMA OneMoves ==
    ASSUME IInv, NEW a \in Actors, NEW x,
           asked' \in {asked, asked + 1},
           GoodActor(x, asked'),
           MovesTo(a, x)
    PROVE  ActorsInv'
<1>1. asked \in Nat /\ asked' \in Nat /\ asked <= asked'
  BY DEF IInv, TypeOK
<1>2. \A b \in Actors : GoodActor(act[b], asked')
  BY <1>1, Grows DEF IInv, ActorsInv
<1>3. act \in [Actors -> Actor] /\ x \in Actor
  BY DEF IInv, ActorsInv, GoodActor
<1>4. QED
  BY <1>2, <1>3 DEF ActorsInv, MovesTo

(* What a fresh actor holds.                                               *)
LEMMA IdleIsGood == \A n : GoodActor(Idle, n) /\ GoodRecord(NewRecord, n) /\ GoodThread(NoThread, n)
<1>1. NewRecord \in Record /\ NewRecord.status # "waiting"
  BY DEF NewRecord, Record, Statuses, Terminal
<1>2. NoThread \in Checkpoint /\ NoThread.thread = "absent"
  BY DEF NoThread, Checkpoint, MaxExchanges
<1>3. Idle \in Actor
  BY <1>1, <1>2, EmptySeq DEF Idle, Actor, Pcs, NoValue, Values
<1>4. Idle.data = NewRecord /\ Idle.loop = NoThread
  BY DEF Idle
<1>5. QED
  BY <1>1, <1>2, <1>3, <1>4 DEF GoodActor, GoodRecord, GoodThread

LEMMA ActorsAre ==
    /\ Clients \subseteq Actors
    /\ Tasks \subseteq Actors
    /\ "cleaner" \in Actors
  BY DEF Actors

-----------------------------------------------------------------------------
(* arq's keys, whichever way an action changes them.                       *)

LEMMA EnqueuedIsKeys ==
    ASSUME arq \in [Tasks -> ArqKeys], NEW t \in Tasks, NEW msg \in Messages
    PROVE  Enqueued(t, msg) \in [Tasks -> ArqKeys]
  BY DEF Enqueued, ArqKeys

LEMMA FinishedIsKeys ==
    ASSUME arq \in [Tasks -> ArqKeys], NEW t \in Tasks
    PROVE  Finished(t) \in [Tasks -> ArqKeys]
<1>1. NoMessage \in Messages
  BY DEF NoMessage, Messages, NoValue, Values
<1>2. QED
  BY <1>1 DEF Finished, ArqKeys

-----------------------------------------------------------------------------
(* The awaits of a handler.                                                *)

LEMMA AfterIsGood ==
    ASSUME NEW a \in Actors, NEW n, GoodActor(act[a], n), act[a].todo # <<>>
    PROVE  GoodActor(After(a), n)
<1>1. Tail(act[a].todo) \in Seq(AwaitNames)
  BY DEF GoodActor, Actor
<1>2. GoodActor([act[a] EXCEPT !.todo = Tail(act[a].todo)], n)
  BY <1>1 DEF GoodActor, Actor
<1>3. QED
  BY <1>2, IdleIsGood DEF After

(* Every await ends in the actor the handler goes on with, or in Idle.     *)
LEMMA AwaitKeepsActors ==
    ASSUME IInv, NEW a \in Actors, NEW await, Awaits(a, await), UNCHANGED asked,
           MovesTo(a, After(a))
    PROVE  ActorsInv'
<1>1. GoodActor(After(a), asked')
  BY AfterIsGood DEF Awaits, IInv, ActorsInv
<1>2. QED
  BY <1>1, OneMoves

LEMMA SavePreserves ==
    ASSUME IInv, NEW a \in Actors, Save(a)
    PROVE  IInv'
<1>1. /\ act[a].todo # <<>>
      /\ rec' = act[a].data
      /\ MovesTo(a, [After(a) EXCEPT !.data = NewRecord])
      /\ UNCHANGED <<active, arq, checkpoint, asked, heard, requests, faults>>
  BY DEF Save, Awaits, MovesTo
<1>2. GoodActor(act[a], asked)
  BY DEF IInv, ActorsInv
<1>3. GoodActor([After(a) EXCEPT !.data = NewRecord], asked')
  <2>1. PICK x : x = After(a)
    OBVIOUS
  <2>2. GoodActor(x, asked') /\ GoodRecord(NewRecord, asked')
    BY <1>1, <1>2, <2>1, AfterIsGood, IdleIsGood
  <2>3. GoodActor([x EXCEPT !.data = NewRecord], asked')
    BY <2>2 DEF GoodActor, Actor, GoodRecord
  <2>4. QED
    BY <2>1, <2>3
<1>4. ActorsInv'
  BY <1>1, <1>3, OneMoves
<1>5. GoodRecord(rec', asked')
  BY <1>1, <1>2 DEF GoodActor
<1>6. QED
  BY <1>1, <1>4, <1>5 DEF IInv, TypeOK, ActorsInv, GoodRecord

LEMMA AwaitStepPreserves ==
    ASSUME IInv, NEW a \in Actors, AwaitStep(a)
    PROVE  IInv'
<1>1. CASE Save(a)
  BY <1>1, SavePreserves
<1>2. CASE Decrement(a)
  <2>1. ActorsInv'
    BY <1>2, AwaitKeepsActors DEF Decrement, MovesTo
  <2>2. QED
    BY <1>2, <2>1 DEF Decrement, IInv, TypeOK, ActorsInv
<1>3. CASE AbortTask(a)
  <2>1. PICK t \in Tasks : Awaits(a, AbortOf[t]) /\ arq' = [arq EXCEPT ![t].abort = TRUE]
    BY <1>3 DEF AbortTask
  <2>2. ActorsInv'
    BY <1>3, <2>1, AwaitKeepsActors DEF AbortTask, MovesTo
  <2>3. arq' \in [Tasks -> ArqKeys]
    BY <2>1 DEF IInv, TypeOK, ArqKeys
  <2>4. QED
    BY <1>3, <2>2, <2>3 DEF AbortTask, IInv, TypeOK, ActorsInv
<1>4. CASE ClearResult(a)
  <2>1. ActorsInv'
    BY <1>4, AwaitKeepsActors DEF ClearResult, MovesTo
  <2>2. arq' \in [Tasks -> ArqKeys]
    BY <1>4 DEF ClearResult, IInv, TypeOK, ArqKeys
  <2>3. QED
    BY <1>4, <2>1, <2>2 DEF ClearResult, IInv, TypeOK, ActorsInv
<1>5. CASE EnqueueResume(a)
  <2>1. ActorsInv'
    BY <1>5, AwaitKeepsActors DEF EnqueueResume, MovesTo
  <2>2. [fn |-> "resume_graph", value |-> act[a].value] \in Messages
    BY DEF IInv, ActorsInv, GoodActor, Actor, Messages
  <2>3. arq' \in [Tasks -> ArqKeys]
    BY <1>5, <2>2, EnqueuedIsKeys DEF EnqueueResume, IInv, TypeOK, Tasks
  <2>4. QED
    BY <1>5, <2>1, <2>3 DEF EnqueueResume, IInv, TypeOK, ActorsInv
<1>6. CASE EnqueueTimeout(a)
  <2>1. ActorsInv'
    BY <1>6, AwaitKeepsActors DEF EnqueueTimeout, MovesTo
  <2>2. [fn |-> "expire_human_input", value |-> [kind |-> "timeout", question |-> 0]] \in Messages
    BY DEF Messages, Values
  <2>3. arq' \in [Tasks -> ArqKeys]
    BY <1>6, <2>2, EnqueuedIsKeys DEF EnqueueTimeout, IInv, TypeOK, Tasks
  <2>4. QED
    BY <1>6, <2>1, <2>3 DEF EnqueueTimeout, IInv, TypeOK, ActorsInv
<1>7. CASE CallOut(a)
  <2>1. ActorsInv'
    BY <1>7, AwaitKeepsActors DEF CallOut, MovesTo
  <2>2. QED
    BY <1>7, <2>1 DEF CallOut, IInv, TypeOK, ActorsInv
<1>8. CASE GitHubFails(a)
  <2>1. ActorsInv'
    <3>1. GoodActor(Idle, asked')
      BY IdleIsGood
    <3>2. MovesTo(a, Idle) /\ UNCHANGED asked
      BY <1>8 DEF GitHubFails, MovesTo
    <3>3. QED
      BY <3>1, <3>2, OneMoves
  <2>2. QED
    BY <1>8, <2>1 DEF GitHubFails, IInv, TypeOK, ActorsInv
<1>9. QED
  BY <1>1, <1>2, <1>3, <1>4, <1>5, <1>6, <1>7, <1>8 DEF AwaitStep

-----------------------------------------------------------------------------
(* The requests.  What a handler will save is good because what it loaded  *)
(* was: no request writes "waiting" itself.                                *)

LEMMA AcceptPreserves ==
    ASSUME IInv, NEW c \in Clients, NEW kind, NEW data, NEW todo, NEW value,
           Accept(c, kind, data, todo, value),
           GoodRecord(data, asked), todo \in Seq(AwaitNames), value \in Values
    PROVE  IInv'
<1>1. PICK x : x = [Idle EXCEPT !.todo = todo, !.data = data, !.value = value]
  OBVIOUS
<1>2. /\ MovesTo(c, x)
      /\ requests < MaxRequests /\ requests' = requests + 1
      /\ UNCHANGED <<rec, active, arq, checkpoint, asked, heard, faults>>
  BY <1>1 DEF Accept, MovesTo
<1>3. GoodActor(x, asked')
  <2>1. GoodActor(Idle, asked)
    BY IdleIsGood
  <2>2. QED
    BY <1>1, <1>2, <2>1 DEF GoodActor, Actor, GoodRecord
<1>4. ActorsInv'
  BY <1>2, <1>3, ActorsAre, OneMoves
<1>5. requests' \in 0 .. MaxRequests
  BY <1>2, BoundsAssumption DEF IInv, TypeOK
<1>6. QED
  BY <1>2, <1>4, <1>5 DEF IInv, TypeOK, ActorsInv

LEMMA RequestPreserves ==
    ASSUME IInv, NEW c \in Clients, Request(c)
    PROVE  IInv'
<1>1. rec \in Record /\ GoodRecord(rec, asked)
  BY DEF IInv, GoodRecord
<1>2. /\ NoValue \in Values
      /\ [kind |-> "answer", question |-> rec.question] \in Values
      /\ [kind |-> "resume", question |-> 0] \in Values
      /\ [kind |-> "redirect", question |-> 0] \in Values
  BY <1>1 DEF NoValue, Values, Record
<1>3. GoodRecord(Unpaused, asked)
  BY <1>1 DEF Unpaused, GoodRecord, Record, Statuses
<1>4. GoodRecord([rec EXCEPT !.status = "pausing", !.paused = TRUE], asked)
  BY <1>1 DEF GoodRecord, Record, Statuses
<1>5. /\ GoodRecord([rec EXCEPT !.status = "running", !.awaiting = FALSE], asked)
      /\ GoodRecord([rec EXCEPT !.status = "killed"], asked)
  BY <1>1 DEF GoodRecord, Record, Statuses, Terminal
<1>6. CASE Answer(c)
  <2>1. <<"abort_timeout", "save", "clear_result", "enqueue_resume">> \in Seq(AwaitNames)
    BY DEF AwaitNames
  <2>2. Accept(c, "answer", [rec EXCEPT !.status = "running", !.awaiting = FALSE],
               <<"abort_timeout", "save", "clear_result", "enqueue_resume">>,
               [kind |-> "answer", question |-> rec.question])
    BY <1>6 DEF Answer
  <2>3. QED
    BY <1>2, <1>5, <2>1, <2>2, AcceptPreserves, Zenon
<1>7. CASE Pause(c)
  <2>1. <<"save">> \in Seq(AwaitNames)
    BY DEF AwaitNames
  <2>2. Accept(c, "pause", [rec EXCEPT !.status = "pausing", !.paused = TRUE],
               <<"save">>, NoValue)
    BY <1>7 DEF Pause
  <2>3. QED
    BY <1>1, <1>2, <1>3, <1>4, <1>5, <2>1, <2>2, AcceptPreserves, Zenon
<1>8. CASE Resume(c)
  <2>1. <<"save", "clear_result", "enqueue_resume">> \in Seq(AwaitNames)
    BY DEF AwaitNames
  <2>2. Accept(c, "resume", Unpaused,
               <<"save", "clear_result", "enqueue_resume">>, [kind |-> "resume", question |-> 0])
    BY <1>8 DEF Resume
  <2>3. QED
    BY <1>1, <1>2, <1>3, <1>4, <1>5, <2>1, <2>2, AcceptPreserves, Zenon
<1>9. CASE Kill(c)
  <2>1. <<"abort_main", "save", "publish", "decrement">> \in Seq(AwaitNames)
    BY DEF AwaitNames
  <2>2. Accept(c, "kill", [rec EXCEPT !.status = "killed"],
               <<"abort_main", "save", "publish", "decrement">>, NoValue)
    BY <1>9 DEF Kill
  <2>3. QED
    BY <1>1, <1>2, <1>3, <1>4, <1>5, <2>1, <2>2, AcceptPreserves, Zenon
<1>10. CASE PostComment(c)
  <2>1. <<"github", "save">> \in Seq(AwaitNames)
    BY DEF AwaitNames
  <2>2. Accept(c, "comment", rec,
               <<"github", "save">>, NoValue)
    BY <1>10 DEF PostComment
  <2>3. QED
    BY <1>1, <1>2, <1>3, <1>4, <1>5, <2>1, <2>2, AcceptPreserves, Zenon
<1>11. CASE GqlPause(c)
  <2>1. <<"save">> \in Seq(AwaitNames)
    BY DEF AwaitNames
  <2>2. Accept(c, "gqlPause", [rec EXCEPT !.status = "pausing", !.paused = TRUE],
               <<"save">>, NoValue)
    BY <1>11 DEF GqlPause
  <2>3. QED
    BY <1>1, <1>2, <1>3, <1>4, <1>5, <2>1, <2>2, AcceptPreserves, Zenon
<1>12. CASE GqlResume(c)
  <2>1. <<"save", "clear_result", "enqueue_resume">> \in Seq(AwaitNames)
    BY DEF AwaitNames
  <2>2. Accept(c, "gqlResume", Unpaused,
               <<"save", "clear_result", "enqueue_resume">>, [kind |-> "resume", question |-> 0])
    BY <1>12 DEF GqlResume
  <2>3. QED
    BY <1>1, <1>2, <1>3, <1>4, <1>5, <2>1, <2>2, AcceptPreserves, Zenon
<1>13. CASE Redirect(c)
  <2>1. /\ <<"save", "clear_result", "enqueue_resume">> \in Seq(AwaitNames)
        /\ <<"save">> \in Seq(AwaitNames)
    BY DEF AwaitNames
  <2>2. \/ Accept(c, "redirect", Unpaused, <<"save", "clear_result", "enqueue_resume">>,
                  [kind |-> "redirect", question |-> 0])
        \/ Accept(c, "redirect", rec, <<"save">>, NoValue)
    BY <1>13 DEF Redirect
  <2>3. QED
    BY <1>1, <1>2, <1>3, <2>1, <2>2, AcceptPreserves, Zenon
<1>14. QED
  BY <1>6, <1>7, <1>8, <1>9, <1>10, <1>11, <1>12, <1>13 DEF Request

-----------------------------------------------------------------------------
(* The worker's tasks.                                                     *)

others == <<rec, active, arq, checkpoint, asked, heard, requests, faults>>

(* A step that moves one actor and nothing else.                           *)
LEMMA OnlyActorMoves ==
    ASSUME IInv, NEW a \in Actors, NEW x, MovesTo(a, x), GoodActor(x, asked), UNCHANGED others
    PROVE  IInv'
<1>1. ActorsInv'
  BY OneMoves DEF others
<1>2. QED
  BY <1>1 DEF others, IInv, TypeOK, ActorsInv

LEMMA GotoPreserves ==
    ASSUME IInv, NEW t \in Tasks, NEW pc \in Pcs, Goto(t, pc), UNCHANGED others
    PROVE  IInv'
<1>1. PICK x : x = [act[t] EXCEPT !.pc = pc]
  OBVIOUS
<1>2. t \in Actors /\ MovesTo(t, x)
  BY <1>1, ActorsAre DEF Goto, MovesTo
<1>3. GoodActor(act[t], asked)
  BY <1>2 DEF IInv, ActorsInv
<1>4. GoodActor(x, asked)
  BY <1>1, <1>3 DEF GoodActor, Actor
<1>5. QED
  BY <1>2, <1>4, OnlyActorMoves

(* A task goes on with a good record in hand and awaits ahead of it.       *)
LEMMA CarryOnPreserves ==
    ASSUME IInv, NEW t \in Tasks, NEW pc \in Pcs, NEW todo \in Seq(AwaitNames), NEW data,
           GoodRecord(data, asked), UNCHANGED others,
           MovesTo(t, [act[t] EXCEPT !.pc = pc, !.todo = todo, !.data = data])
    PROVE  IInv'
<1>1. PICK x : x = [act[t] EXCEPT !.pc = pc, !.todo = todo, !.data = data]
  OBVIOUS
<1>2. t \in Actors /\ MovesTo(t, x)
  BY <1>1, ActorsAre
<1>3. GoodActor(act[t], asked)
  BY <1>2 DEF IInv, ActorsInv
<1>4. GoodActor(x, asked)
  BY <1>1, <1>3 DEF GoodActor, Actor, GoodRecord
<1>5. QED
  BY <1>2, <1>4, OnlyActorMoves

(* A task ends, one way or another.                                        *)
LEMMA EndPreserves ==
    ASSUME IInv, NEW t \in Tasks, arq' = Finished(t), MovesTo(t, Idle),
           faults' \in 0 .. MaxFaults,
           UNCHANGED <<rec, active, checkpoint, asked, heard, requests>>
    PROVE  IInv'
<1>1. PICK x : x = Idle
  OBVIOUS
<1>2. GoodActor(x, asked')
  BY <1>1, IdleIsGood
<1>3. ActorsInv'
  BY <1>1, <1>2, ActorsAre, OneMoves
<1>4. arq' \in [Tasks -> ArqKeys]
  BY FinishedIsKeys DEF IInv, TypeOK
<1>5. QED
  BY <1>3, <1>4 DEF IInv, TypeOK, ActorsInv

LEMMA TaskStartPreserves ==
    ASSUME IInv, NEW t \in Tasks, TaskStart(t)
    PROVE  IInv'
<1>1. UNCHANGED <<rec, active, checkpoint, asked, heard, requests, faults>>
  BY DEF TaskStart
<1>2. arq' \in [Tasks -> ArqKeys]
  <2>1. arq \in [Tasks -> ArqKeys]
    BY DEF IInv, TypeOK
  <2>2. CASE arq' = Finished(t)
    BY <2>1, <2>2, FinishedIsKeys
  <2>3. CASE arq' = [arq EXCEPT ![t].running = TRUE]
    BY <2>1, <2>3 DEF ArqKeys
  <2>4. QED
    BY <2>2, <2>3 DEF TaskStart
<1>3. ActorsInv'
  <2>1. CASE UNCHANGED act
    BY <1>1, <2>1 DEF IInv, ActorsInv
  <2>2. CASE Goto(t, "load")
    <3>1. PICK x : x = [act[t] EXCEPT !.pc = "load"]
      OBVIOUS
    <3>2. t \in Actors /\ MovesTo(t, x)
      BY <2>2, <3>1, ActorsAre DEF Goto, MovesTo
    <3>3. GoodActor(x, asked')
      BY <1>1, <3>1, <3>2 DEF IInv, ActorsInv, GoodActor, Actor, Pcs
    <3>4. QED
      BY <1>1, <3>2, <3>3, OneMoves
  <2>3. QED
    BY <2>1, <2>2 DEF TaskStart
<1>4. QED
  BY <1>1, <1>2, <1>3 DEF IInv, TypeOK, ActorsInv

(* What run_triage, the timer and the finalizer may save.                  *)
LEMMA SavedIsGood ==
    ASSUME NEW n, NEW r, GoodRecord(r, n), NEW s \in Statuses, s # "waiting"
    PROVE  GoodRecord([r EXCEPT !.status = s], n)
  BY DEF GoodRecord, Record, Statuses, Terminal

LEMMA LoadPreserves ==
    ASSUME IInv, NEW t \in Tasks,
           RunTriage(t) \/ ResumeGraph(t) \/ ExpireLoad(t) \/ ExpirePeek(t)
    PROVE  IInv'
<1> USE DEF others
<1>1. CASE \E pc \in Pcs : Goto(t, pc) /\ UNCHANGED others
  BY <1>1, GotoPreserves
<1>2. CASE RunTriage(t) /\ rec.status \notin Terminal
  <2>1. PICK data : data = [rec EXCEPT !.status = "running"]
    OBVIOUS
  <2>2. GoodRecord(data, asked)
    BY <2>1, SavedIsGood DEF IInv, Statuses
  <2>3. MovesTo(t, [act[t] EXCEPT !.pc = "stream", !.todo = <<"save">>, !.data = data])
    BY <1>2, <2>1 DEF RunTriage, MovesTo
  <2>4. "stream" \in Pcs /\ <<"save">> \in Seq(AwaitNames) /\ UNCHANGED others
    BY <1>2 DEF Pcs, AwaitNames, RunTriage
  <2>5. QED
    BY <2>2, <2>3, <2>4, CarryOnPreserves
<1>3. QED
  <2>1. {"finish", "stream", "peek"} \subseteq Pcs
    BY DEF Pcs
  <2>2. QED
    BY <1>1, <1>2, <2>1 DEF RunTriage, ResumeGraph, ExpireLoad, ExpirePeek

(* The loop takes over the checkpoint, or starts the thread afresh.        *)
LEMMA StreamBeginPreserves ==
    ASSUME IInv, NEW t \in Tasks, StreamBegin(t)
    PROVE  IInv'
<1>1. t \in Actors /\ GoodActor(act[t], asked) /\ GoodThread(NoThread, asked)
  BY ActorsAre, IdleIsGood DEF IInv, ActorsInv
<1>2. GoodThread([NoThread EXCEPT !.thread = "working"], asked)
  BY <1>1 DEF GoodThread, Checkpoint
<1>3. PICK loop : loop = checkpoint' /\ GoodThread(loop, asked)
  BY <1>2 DEF StreamBegin, IInv
<1>4. PICK pc \in {"error", "reload", "graph"}, next \in {loop, NoThread},
           value \in {arq[t].msg.value, NoValue} :
        act' = [act EXCEPT ![t].pc = pc, ![t].loop = next, ![t].value = value]
  BY <1>3 DEF StreamBegin
<1>5. value \in Values
  BY <1>4 DEF IInv, TypeOK, ArqKeys, Messages, NoValue, Values
<1>6. PICK x : x = [act[t] EXCEPT !.pc = pc, !.loop = next, !.value = value]
  OBVIOUS
<1>7. GoodActor(x, asked)
  BY <1>1, <1>3, <1>4, <1>5, <1>6 DEF GoodActor, Actor, Pcs, GoodThread
<1>8. MovesTo(t, x) /\ UNCHANGED <<rec, active, arq, asked, heard, requests, faults>>
  BY <1>4, <1>6 DEF MovesTo, StreamBegin
<1>9. ActorsInv'
  BY <1>1, <1>7, <1>8, OneMoves
<1>10. QED
  BY <1>3, <1>8, <1>9 DEF IInv, TypeOK, ActorsInv, GoodThread

(* A superstep commits the loop's own copy.                                *)
LEMMA AdvancePreserves ==
    ASSUME IInv, NEW t \in Tasks, NEW loop, NEW pc \in {"graph", "reload"},
           Advance(t, loop, pc),
           asked' \in {asked, asked + 1},
           GoodThread(loop, asked'),
           heard' \subseteq [value : Values, to : Nat]
    PROVE  IInv'
<1>1. asked \in Nat /\ asked' \in Nat /\ asked <= asked'
  BY DEF IInv, TypeOK
<1>2. t \in Actors /\ GoodActor(act[t], asked') /\ GoodThread(NoThread, asked')
  BY <1>1, ActorsAre, IdleIsGood, Grows DEF IInv, ActorsInv
<1>3. NoValue \in Values
  BY DEF NoValue, Values
<1>4. PICK next : next = IF pc = "graph" THEN loop ELSE NoThread
  OBVIOUS
<1>5. PICK x : x = [act[t] EXCEPT !.pc = pc, !.value = NoValue, !.loop = next]
  OBVIOUS
<1>6. GoodActor(x, asked')
  BY <1>2, <1>3, <1>4, <1>5 DEF GoodActor, Actor, Pcs, GoodThread
<1>7. /\ MovesTo(t, x) /\ checkpoint' = loop
      /\ UNCHANGED <<rec, active, arq, requests, faults>>
  BY <1>4, <1>5 DEF MovesTo, Advance
<1>8. ActorsInv'
  BY <1>2, <1>6, <1>7, OneMoves
<1>9. GoodRecord(rec', asked')
  BY <1>1, <1>7, Grows DEF IInv
<1>10. QED
  BY <1>1, <1>7, <1>8, <1>9 DEF IInv, TypeOK, ActorsInv, GoodThread

LEMMA GraphPreserves ==
    ASSUME IInv, NEW t \in Tasks,
           \/ GraphCalls(t) \/ GraphAsks(t) \/ GraphAnswered(t)
           \/ GraphValueDropped(t) \/ GraphFinishes(t)
    PROVE  IInv'
<1>1. PICK g : g = act[t].loop
  OBVIOUS
<1>2. /\ GoodThread(g, asked)
      /\ act[t].value \in Values
      /\ heard \subseteq [value : Values, to : Nat]
      /\ asked \in Nat
  BY <1>1, ActorsAre DEF IInv, TypeOK, ActorsInv, GoodActor, Actor
<1>3. CASE GraphCalls(t)
  <2>1. PICK loop : loop = [g EXCEPT !.thread = "calling"]
    OBVIOUS
  <2>2. Advance(t, loop, "graph") /\ UNCHANGED <<asked, heard>> /\ g.answered < MaxExchanges
    BY <1>1, <1>3, <2>1 DEF GraphCalls
  <2>3. GoodThread(loop, asked')
    BY <1>2, <2>1, <2>2 DEF GoodThread, Checkpoint
  <2>4. QED
    BY <1>2, <2>2, <2>3, AdvancePreserves
<1>4. CASE GraphAsks(t)
  <2>1. PICK loop : loop = [g EXCEPT !.thread = "asking", !.question = asked']
    OBVIOUS
  <2>2. /\ Advance(t, loop, "reload") /\ UNCHANGED heard
        /\ asked' = asked + 1 /\ g.thread = "calling"
    BY <1>1, <1>4, <2>1 DEF GraphAsks
  <2>3. GoodThread(loop, asked')
    <3>1. g \in Checkpoint /\ g.answered < MaxExchanges
      BY <1>2, <2>2 DEF GoodThread
    <3>2. asked' \in Nat /\ asked' \in 1 .. asked'
      BY <1>2, <2>2
    <3>3. loop \in Checkpoint
      BY <2>1, <3>1, <3>2 DEF Checkpoint
    <3>4. loop.question = asked' /\ loop.answered = g.answered
      BY <2>1, <3>1 DEF Checkpoint
    <3>5. QED
      BY <3>1, <3>2, <3>3, <3>4 DEF GoodThread
  <2>4. QED
    BY <1>2, <2>2, <2>3, AdvancePreserves
<1>5. CASE GraphAnswered(t)
  <2>1. PICK loop : loop = [thread |-> "working", answered |-> g.answered + 1, question |-> 0]
    OBVIOUS
  <2>2. /\ Advance(t, loop, "graph") /\ UNCHANGED asked
        /\ g.thread \in {"calling", "asking"}
        /\ heard' = heard \cup {[value |-> act[t].value, to |-> g.question]}
    BY <1>1, <1>5, <2>1 DEF GraphAnswered
  <2>3. GoodThread(loop, asked')
    BY <1>2, <2>1, <2>2 DEF GoodThread, Checkpoint, MaxExchanges
  <2>4. heard' \subseteq [value : Values, to : Nat]
    <3>1. g.question \in Nat
      BY <1>2 DEF GoodThread, Checkpoint
    <3>2. [value |-> act[t].value, to |-> g.question] \in [value : Values, to : Nat]
      BY <1>2, <3>1
    <3>3. QED
      BY <1>2, <2>2, <3>2
  <2>5. QED
    BY <1>2, <2>2, <2>3, <2>4, AdvancePreserves
<1>6. CASE GraphValueDropped(t)
  <2>1. Advance(t, g, "graph") /\ UNCHANGED <<asked, heard>>
    BY <1>1, <1>6 DEF GraphValueDropped
  <2>2. QED
    BY <1>2, <2>1, AdvancePreserves
<1>7. CASE GraphFinishes(t)
  <2>1. PICK loop : loop = [g EXCEPT !.thread = "finished"]
    OBVIOUS
  <2>2. Advance(t, loop, "reload") /\ UNCHANGED <<asked, heard>>
    BY <1>1, <1>7, <2>1 DEF GraphFinishes
  <2>3. GoodThread(loop, asked')
    BY <1>2, <2>1, <2>2 DEF GoodThread, Checkpoint
  <2>4. QED
    BY <1>2, <2>2, <2>3, AdvancePreserves
<1>8. QED
  BY <1>3, <1>4, <1>5, <1>6, <1>7

LEMMA GraphFailsPreserves ==
    ASSUME IInv, NEW t \in Tasks, GraphFails(t)
    PROVE  IInv'
<1>1. PICK x : x = [act[t] EXCEPT !.pc = "error", !.loop = NoThread]
  OBVIOUS
<1>2. t \in Actors /\ GoodActor(act[t], asked) /\ GoodThread(NoThread, asked)
  BY ActorsAre, IdleIsGood DEF IInv, ActorsInv
<1>3. GoodActor(x, asked)
  BY <1>1, <1>2 DEF GoodActor, Actor, Pcs, GoodThread
<1>4. MovesTo(t, x) /\ UNCHANGED others
  BY <1>1 DEF MovesTo, GraphFails, others
<1>5. QED
  BY <1>2, <1>3, <1>4, OnlyActorMoves

(* After the stream.  FinalizeCheck is the one place that writes "waiting",*)
(* with a question the checkpoint is asking.                               *)
LEMMA FinalizePreserves ==
    ASSUME IInv, NEW t \in Tasks,
           FinalizeLoad(t) \/ FinalizeCheck(t) \/ FinalizeDone(t) \/ HandleError(t)
    PROVE  IInv'
<1> USE DEF others
<1>1. /\ GoodRecord(rec, asked) /\ GoodThread(checkpoint, asked)
      /\ GoodRecord(act[t].data, asked) /\ act \in [Actors -> Actor]
      /\ t \in Actors /\ act[t] \in Actor
  BY ActorsAre DEF IInv, ActorsInv, GoodActor
<1>2. UNCHANGED others
  BY DEF FinalizeLoad, FinalizeCheck, FinalizeDone, HandleError
<1>3. /\ {"finish", "check", "collect"} \subseteq Pcs
      /\ <<"save">> \in Seq(AwaitNames)
      /\ <<"publish", "save", "enqueue_timeout">> \in Seq(AwaitNames)
      /\ <<"publish", "save", "decrement">> \in Seq(AwaitNames)
  BY DEF Pcs, AwaitNames
<1>4. {"paused", "failed", "done"} \subseteq Statuses \ {"waiting"}
  BY DEF Statuses, Terminal
<1>5. CASE \E pc \in Pcs : Goto(t, pc)
  BY <1>2, <1>5, GotoPreserves
<1>6. CASE FinalizeLoad(t) /\ ~ \E pc \in Pcs : Goto(t, pc)
  <2>1. PICK data : data = [rec EXCEPT !.status = "paused"]
    OBVIOUS
  <2>2. GoodRecord(data, asked)
    BY <1>1, <1>4, <2>1, SavedIsGood
  <2>3. CASE MovesTo(t, [act[t] EXCEPT !.pc = "finish", !.todo = <<"save">>, !.data = data])
    BY <1>2, <1>3, <2>2, <2>3, CarryOnPreserves
  <2>4. CASE MovesTo(t, [act[t] EXCEPT !.pc = "check", !.data = rec])
    <3>1. PICK x : x = [act[t] EXCEPT !.pc = "check", !.data = rec]
      OBVIOUS
    <3>2. GoodActor(x, asked)
      BY <1>1, <1>3, <3>1 DEF IInv, ActorsInv, GoodActor, Actor, GoodRecord
    <3>3. QED
      BY <1>1, <1>2, <2>4, <3>1, <3>2, OnlyActorMoves
  <2>5. QED
    BY <1>3, <1>6, <2>1, <2>3, <2>4 DEF FinalizeLoad, MovesTo
<1>7. CASE FinalizeCheck(t) /\ checkpoint.thread = "asking"
  <2>1. PICK data : data = [act[t].data EXCEPT !.status = "waiting", !.awaiting = TRUE,
                              !.since = "recent", !.question = checkpoint.question]
    OBVIOUS
  <2>2. GoodRecord(data, asked)
    BY <1>1, <1>7, <2>1 DEF GoodRecord, GoodThread, Record, Checkpoint, Statuses
  <2>3. MovesTo(t, [act[t] EXCEPT !.pc = "finish",
                      !.todo = <<"publish", "save", "enqueue_timeout">>, !.data = data])
    BY <1>1, <1>7, <2>1 DEF FinalizeCheck, MovesTo
  <2>4. QED
    BY <1>2, <1>3, <2>2, <2>3, CarryOnPreserves
<1>8. CASE FinalizeDone(t)
  <2>1. PICK report : report = (act[t].data.report \/ checkpoint.thread = "finished")
    OBVIOUS
  <2>2. PICK data : data = [act[t].data EXCEPT !.status = "done", !.report = report]
    OBVIOUS
  <2>3. report \in BOOLEAN
    BY <1>1, <2>1 DEF GoodRecord, Record
  <2>4. GoodRecord(data, asked)
    BY <1>1, <1>4, <2>2, <2>3 DEF GoodRecord, Record
  <2>5. MovesTo(t, [act[t] EXCEPT !.pc = "finish",
                      !.todo = <<"publish", "save", "decrement">>, !.data = data])
    BY <1>1, <1>8, <2>1, <2>2 DEF FinalizeDone, MovesTo
  <2>6. QED
    BY <1>2, <1>3, <2>4, <2>5, CarryOnPreserves
<1>9. CASE HandleError(t) /\ ~ \E pc \in Pcs : Goto(t, pc)
  <2>1. PICK data : data = [rec EXCEPT !.status = "failed"]
    OBVIOUS
  <2>2. GoodRecord(data, asked)
    BY <1>1, <1>4, <2>1, SavedIsGood
  <2>3. MovesTo(t, [act[t] EXCEPT !.pc = "finish",
                      !.todo = <<"publish", "save", "decrement">>, !.data = data])
    BY <1>3, <1>9, <2>1 DEF HandleError, MovesTo
  <2>4. QED
    BY <1>2, <1>3, <2>2, <2>3, CarryOnPreserves
<1>10. QED
  BY <1>3, <1>5, <1>6, <1>7, <1>8, <1>9 DEF FinalizeCheck

LEMMA TaskStepPreserves ==
    ASSUME IInv, NEW t \in Tasks, TaskStep(t)
    PROVE  IInv'
<1>1. CASE TaskFinish(t) \/ TaskCancelled(t)
  <2>1. /\ arq' = Finished(t) /\ MovesTo(t, Idle)
        /\ UNCHANGED <<rec, active, checkpoint, asked, heard, requests, faults>>
    BY <1>1 DEF TaskFinish, TaskCancelled, MovesTo
  <2>2. faults' \in 0 .. MaxFaults
    BY <2>1 DEF IInv, TypeOK
  <2>3. QED
    BY <2>1, <2>2, EndPreserves
<1>2. QED
  BY <1>1, TaskStartPreserves, LoadPreserves, StreamBeginPreserves, GraphPreserves,
     GraphFailsPreserves, FinalizePreserves DEF TaskStep

-----------------------------------------------------------------------------
(* The cleaner, the clock and faults.                                      *)

LEMMA FaultIsCounted ==
    ASSUME IInv, faults < MaxFaults, faults' = faults + 1
    PROVE  faults' \in 0 .. MaxFaults
  BY BoundsAssumption DEF IInv, TypeOK

LEMMA CleanPreserves ==
    ASSUME IInv, Clean
    PROVE  IInv'
<1>1. PICK data : data = [rec EXCEPT !.status = "timed_out", !.awaiting = FALSE]
  OBVIOUS
<1>2. PICK x : x = [Idle EXCEPT !.todo = <<"save", "decrement">>, !.data = data]
  OBVIOUS
<1>3. GoodRecord(data, asked)
  BY <1>1 DEF IInv, GoodRecord, Record, Statuses, Terminal
<1>4. <<"save", "decrement">> \in Seq(AwaitNames) /\ GoodActor(Idle, asked)
  BY IdleIsGood DEF AwaitNames
<1>5. GoodActor(x, asked)
  BY <1>2, <1>3, <1>4 DEF GoodActor, Actor, GoodRecord
<1>6. MovesTo("cleaner", x) /\ UNCHANGED others
  BY <1>1, <1>2 DEF Clean, MovesTo, others
<1>7. QED
  BY <1>5, <1>6, ActorsAre, OnlyActorMoves

LEMMA ClockPreserves ==
    ASSUME IInv, TimerDue \/ WaitAges
    PROVE  IInv'
<1>1. UNCHANGED <<active, checkpoint, asked, heard, act, requests, faults>>
  BY DEF TimerDue, WaitAges
<1>2. arq' \in [Tasks -> ArqKeys]
  <2>1. arq \in [Tasks -> ArqKeys]
    BY DEF IInv, TypeOK
  <2>2. CASE TimerDue
    BY <2>1, <2>2 DEF TimerDue, ArqKeys
  <2>3. CASE WaitAges
    <3>1. PICK expired \in SUBSET {t \in Tasks : arq[t].result} :
            arq' = [t \in Tasks |-> [arq[t] EXCEPT !.result = @ /\ t \notin expired]]
      BY <2>3 DEF WaitAges
    <3>2. \A t \in Tasks : [arq[t] EXCEPT !.result = @ /\ t \notin expired] \in ArqKeys
      BY <2>1 DEF ArqKeys
    <3>3. QED
      BY <3>1, <3>2
  <2>4. QED
    BY <2>2, <2>3
<1>3. GoodRecord(rec', asked)
  BY DEF TimerDue, WaitAges, IInv, GoodRecord, Record
<1>4. QED
  BY <1>1, <1>2, <1>3 DEF IInv, TypeOK, ActorsInv, GoodRecord

LEMMA WorkerCrashPreserves ==
    ASSUME IInv, WorkerCrash
    PROVE  IInv'
<1>1. UNCHANGED <<rec, active, checkpoint, asked, heard, requests>>
  BY DEF WorkerCrash
<1>2. faults' \in 0 .. MaxFaults
  BY FaultIsCounted DEF WorkerCrash
<1>3. arq' \in [Tasks -> ArqKeys]
  BY DEF WorkerCrash, IInv, TypeOK, ArqKeys
<1>4. GoodActor(Idle, asked)
  BY IdleIsGood
<1>5. act' = [a \in Actors |-> IF a \in Clients THEN act[a] ELSE Idle]
  BY DEF WorkerCrash
<1>6. PICK idle : idle = Idle
  OBVIOUS
<1>7. ActorsInv'
  <2>1. \A a \in Actors : GoodActor(act'[a], asked)
    BY <1>4, <1>5, <1>6 DEF IInv, ActorsInv
  <2>2. \A a \in Actors : act'[a] \in Actor
    BY <2>1 DEF GoodActor
  <2>3. act' \in [Actors -> Actor]
    BY <1>5, <2>2
  <2>4. QED
    BY <1>1, <2>1, <2>3 DEF ActorsInv
<1>8. QED
  BY <1>1, <1>2, <1>3, <1>7 DEF IInv, TypeOK, ActorsInv

-----------------------------------------------------------------------------
LEMMA InitEstablishes == Init => IInv
<1> SUFFICES ASSUME Init PROVE IInv
  OBVIOUS
<1>1. /\ rec = NewRecord /\ active = 1 /\ checkpoint = NoThread /\ asked = 0
      /\ heard = {} /\ requests = 0 /\ faults = 0
  BY DEF Init
<1>2. GoodRecord(rec, asked) /\ GoodThread(checkpoint, asked)
  BY <1>1, IdleIsGood
<1>3. ActorsInv
  <2>1. act = [a \in Actors |-> Idle]
    BY DEF Init
  <2>2. PICK x : x = Idle /\ GoodActor(x, asked)
    BY IdleIsGood
  <2>3. QED
    BY <2>1, <2>2 DEF ActorsInv, GoodActor
<1>4. arq \in [Tasks -> ArqKeys]
  BY DEF Init, ArqKeys, Messages, NoMessage, NoValue, Values
<1>5. QED
  BY <1>1, <1>2, <1>3, <1>4, BoundsAssumption
  DEF IInv, TypeOK, ActorsInv, GoodRecord, GoodThread

LEMMA NextPreserves == IInv /\ [Next]_vars => IInv'
<1> SUFFICES ASSUME IInv, [Next]_vars PROVE IInv'
  OBVIOUS
<1>1. CASE UNCHANGED vars
  BY <1>1 DEF vars, IInv, TypeOK, ActorsInv
<1>2. CASE \E c \in Clients : Request(c) \/ AwaitStep(c)
  BY <1>2, RequestPreserves, AwaitStepPreserves, ActorsAre
<1>3. CASE ServerStep
  <2>1. CASE \E t \in Tasks : TaskStep(t) \/ AwaitStep(t)
    BY <2>1, TaskStepPreserves, AwaitStepPreserves, ActorsAre
  <2>2. CASE \E t \in Tasks : TaskTimesOut(t)
    <3>1. PICK t \in Tasks : TaskTimesOut(t)
      BY <2>2
    <3>2. faults' \in 0 .. MaxFaults
      BY <3>1, FaultIsCounted DEF TaskTimesOut
    <3>3. /\ arq' = Finished(t) /\ MovesTo(t, Idle)
          /\ UNCHANGED <<rec, active, checkpoint, asked, heard, requests>>
      BY <3>1 DEF TaskTimesOut, MovesTo
    <3>4. QED
      BY <3>2, <3>3, EndPreserves
  <2>3. CASE Clean \/ AwaitStep("cleaner") \/ TimerDue \/ WaitAges \/ WorkerCrash
    BY <2>3, CleanPreserves, AwaitStepPreserves, ActorsAre, ClockPreserves, WorkerCrashPreserves
  <2>4. QED
    BY <1>3, <2>1, <2>2, <2>3 DEF ServerStep
<1>4. QED
  BY <1>1, <1>2, <1>3 DEF Next

THEOREM InvariantHolds == Spec => []IInv
  BY InitEstablishes, NextPreserves, PTL DEF Spec

(* Every variable keeps its type, for any number of clients and any bounds *)
(* (TypeOK): the handlers and tasks only ever write a JobStatus, and no    *)
(* request or fault is counted past its bound.                             *)
THEOREM TypeCorrect == Spec => []TypeOK
<1>1. IInv => TypeOK
  BY DEF IInv
<1>2. QED
  BY <1>1, InvariantHolds, PTL

(* Whichever stale copy the record was last overwritten from, a wait on    *)
(* record can be answered and can be found too old by job_timeout_cleaner, *)
(* and shows a question the graph has put (WaitCanEnd).                    *)
THEOREM WaitsAreComplete == Spec => []WaitCanEnd
<1>1. IInv => WaitCanEnd
  BY DEF IInv, GoodRecord, WaitCanEnd
<1>2. QED
  BY <1>1, InvariantHolds, PTL

=============================================================================
