------------------------- MODULE TriageJobCalmProofs -------------------------
(***************************************************************************)
(* What TriageJob keeps as long as no task is lost: the owner's slot comes *)
(* back, and, in a calm environment, a done job has its report, a question *)
(* takes one answer, and the tasks use the graph thread as GraphThread     *)
(* says.                                                                   *)
(***************************************************************************)
EXTENDS TriageJobNewsProofs

-----------------------------------------------------------------------------
(* The slot.  Whoever gives a job a final status has the slot's return     *)
(* still on its list, or it has been returned.  Only an entry in the abort *)
(* set can take a task off its list: main's is made by a kill, which       *)
(* returns the slot itself, and timeout's must not find it running.        *)

Owes == {Kill4, Kill3, Kill2, End, SayEnd, SaveEnd}
Owed == \E a \in Actors : act[a].todo \in Owes
OwedByClient == \E c \in Clients : act[c].todo \in Owes
Ended == rec.status \in Terminal \/ \E a \in Actors : act[a].data.status \in Terminal

SlotInv ==
    /\ active <= 1
    /\ faults = 0 /\ Ended => active <= 0 \/ Owed
    /\ faults = 0 /\ arq["main"].abort => active <= 0 \/ OwedByClient

TimerSafe == arq["timeout"].running => ~arq["timeout"].abort

Returns(todo) == \E i \in DOMAIN todo : todo[i] = "decrement"

LEMMA WhoOwes ==
    \A todo \in {<<>>, OnlySave, SayWait, SaveWait, EndWait, Answer4, Resume3, Resume2, Resume1,
                 Comment2} : todo \notin Owes
  <1>1. Returns(Kill4) /\ Returns(Kill3) /\ Returns(Kill2)
    BY DEF Returns, Kill4, Kill3, Kill2
  <1>2. Returns(End) /\ Returns(SayEnd) /\ Returns(SaveEnd)
    BY DEF Returns, End, SayEnd, SaveEnd
  <1>3. ~Returns(<<>>) /\ ~Returns(OnlySave) /\ ~Returns(EndWait) /\ ~Returns(Resume1)
    BY DEF Returns, OnlySave, EndWait, Resume1
  <1>4. ~Returns(SaveWait) /\ ~Returns(Resume2) /\ ~Returns(Comment2)
    BY DEF Returns, SaveWait, Resume2, Comment2
  <1>5. ~Returns(SayWait) /\ ~Returns(Resume3)
    BY DEF Returns, SayWait, Resume3
  <1>6. ~Returns(Answer4)
    BY DEF Returns, Answer4
  <1> QED  BY <1>1, <1>2, <1>3, <1>4, <1>5, <1>6 DEF Owes

(* An actor moves on, takes nothing off its list, and does not touch the   *)
(* counter.                                                                *)
LEMMA SlotMove ==
    ASSUME TypeOK, SlotInv, NEW a \in Actors, NEW x, MovesTo(a, x), UNCHANGED <<active, faults>>,
           act[a].todo \in Owes => x.todo \in Owes,
           rec'.status \in Terminal \/ x.data.status \in Terminal => Ended \/ x.todo \in Owes,
           arq'["main"].abort => arq["main"].abort \/ (a \in Clients /\ x.todo \in Owes)
    PROVE  SlotInv'
  <1>1. act'[a] = x /\ \A b \in Actors : b # a => act'[b] = act[b]
    BY DEF TypeOK, MovesTo
  <1>2. Owed \/ x.todo \in Owes => Owed'
    BY <1>1 DEF Owed
  <1>3. OwedByClient \/ (a \in Clients /\ x.todo \in Owes) => OwedByClient'
    BY <1>1, ActorsAre DEF OwedByClient
  <1>4. Ended' => Ended \/ x.todo \in Owes
    BY <1>1 DEF Ended
  <1> QED  BY <1>2, <1>3, <1>4 DEF SlotInv

LEMMA SlotPaid == ASSUME TypeOK, SlotInv, active' = active - 1 PROVE SlotInv'
  BY DEF TypeOK, SlotInv

LEMMA SlotStays ==
    ASSUME TypeOK, SlotInv, UNCHANGED <<act, active, faults>>, rec'.status = rec.status,
           arq'["main"].abort => arq["main"].abort
    PROVE  SlotInv'
  BY DEF SlotInv, Owed, OwedByClient, Ended

LEMMA SlotTask ==
    ASSUME TypeOK, ShapeInv, SlotInv, TimerSafe, NEW t \in Tasks, TaskStep(t)
    PROVE  SlotInv'
  <1>1. t \in Actors /\ t \notin Clients /\ UNCHANGED <<rec, active, faults>>
    BY ActorsAre, Distinct, TaskMoves
  <1>2. arq \in [Tasks -> ArqKeys] /\ Idle.todo = <<>> /\ Idle.data.status = "queued"
    BY DEF TypeOK, Idle, NewRecord
  <1>3. arq' = Finished(t) => (arq'["main"].abort => arq["main"].abort)
    BY <1>2 DEF Finished, Tasks
  <1>4. CASE Ends(t) /\ act[t].todo = <<>>
    <2>1. MovesTo(t, Idle) /\ (arq'["main"].abort => arq["main"].abort)
      BY <1>3, <1>4 DEF Ends
    <2> QED  BY <1>1, <1>2, <1>4, <2>1, WhoOwes, SlotMove DEF Ended, Terminal
  <1>5. CASE Ends(t) /\ arq[t].abort /\ arq[t].running
    <2>1. t = "main" /\ ~arq'["main"].abort
      BY <1>2, <1>5 DEF Ends, TimerSafe, Tasks, Finished
    <2>2. act'[t] = Idle /\ \A b \in Actors : b # t => act'[b] = act[b]
      BY <1>1, <1>5 DEF Ends, TypeOK, MovesTo
    <2>3. OwedByClient => OwedByClient' /\ Owed'
      BY <1>1, <2>2, ActorsAre DEF OwedByClient, Owed
    <2> QED  BY <1>1, <1>5, <2>1, <2>3 DEF SlotInv
  <1>6. CASE Starts(t)
    <2>1. act[t].todo = <<>>
      BY <1>6 DEF Starts, ShapeInv, RunsInv, Idle
    <2>2. CASE UNCHANGED act /\ arq' = Finished(t)
      BY <1>1, <1>3, <2>2, SlotStays
    <2>3. ASSUME NEW x, MovesTo(t, x), x.todo = <<>>, x.data = act[t].data,
                 arq' = [arq EXCEPT ![t].running = TRUE]
          PROVE  SlotInv'
      <3>1. arq'["main"].abort => arq["main"].abort
        BY <1>2, <2>3 DEF Tasks, ArqKeys
      <3> QED  BY <1>1, <2>1, <2>3, <3>1, WhoOwes, SlotMove DEF Ended
    <2> QED  BY <1>6, <2>2, <2>3 DEF Starts
  <1>7. ASSUME NEW x, Walks(t, x) \/ Writes(t, x) \/ Speaks(t, x) PROVE SlotInv'
    <2>1. MovesTo(t, x) /\ UNCHANGED arq /\ act[t].todo = <<>>
      BY <1>7 DEF Walks, Writes, Speaks
    <2>2. x.data.status \in Terminal => Ended \/ x.todo \in Owes
      BY <1>1, <1>7 DEF Walks, Writes, Speaks, Ended, Owes, Terminal
    <2> QED  BY <1>1, <2>1, <2>2, WhoOwes, SlotMove DEF Ended
  <1>8. CASE GoesOn(t)
    BY <1>7, <1>8 DEF GoesOn
  <1> QED  BY <1>4, <1>5, <1>6, <1>8, TaskMoves DEF Ends

LEMMA SlotAwait ==
    ASSUME TypeOK, ShapeInv, SlotInv, NEW a \in Actors, AwaitStep(a)
    PROVE  SlotInv'
  <1> DEFINE Keeps == UNCHANGED <<active, faults>> /\ (arq'["main"].abort => arq["main"].abort)
  <1>1. arq \in [Tasks -> ArqKeys]
    BY DEF TypeOK
  <1>2. Save(a) \/ CallOut(a) \/ GitHubFails(a) => Keeps
    BY DEF Save, CallOut, GitHubFails
  <1>3. EnqueueTimeout(a) \/ ClearResult(a) \/ EnqueueResume(a) => Keeps /\ UNCHANGED rec
    BY <1>1 DEF EnqueueTimeout, ClearResult, EnqueueResume, Enqueued, Tasks, ArqKeys
  <1>4. AbortTask(a) => UNCHANGED <<active, faults, rec>>
    BY DEF AbortTask
  <1>5. CallOut(a) \/ GitHubFails(a) => UNCHANGED rec
    BY DEF CallOut, GitHubFails
  <1>6. Decrement(a) => SlotInv'
    BY SlotPaid DEF Decrement
  <1>7. Save(a) => rec' = act[a].data
    BY DEF Save
  <1>8. NewRecord.status \notin Terminal /\ Idle.data = NewRecord /\ Idle.todo = <<>>
    BY DEF NewRecord, Terminal, Idle
  <1>9. act[a].data.status \in Terminal \/ rec.status \in Terminal => Ended
    BY DEF Ended
  <1> HIDE DEF Keeps
  (* The actor goes on without its copy, or with the same one.             *)
  <1>10. ASSUME NEW x, MovesTo(a, x), Keeps, rec' \in {rec, act[a].data},
                x.data \in {NewRecord, act[a].data}, act[a].todo \in Owes => x.todo \in Owes
         PROVE  SlotInv'
    BY <1>8, <1>9, <1>10, SlotMove DEF Keeps
  <1>11. CASE a \in Tasks
    <2>1. ASSUME Save(a), NEW todo, MovesTo(a, LeftSaved(a, todo)),
                 act[a].todo \in Owes => todo \in Owes
          PROVE  SlotInv'
      BY <1>2, <1>7, <1>10, <2>1, LeftFields
    <2>2. ASSUME CallOut(a) \/ EnqueueTimeout(a), NEW todo, MovesTo(a, Left(a, todo)),
                 act[a].todo \in Owes => todo \in Owes
          PROVE  SlotInv'
      BY <1>2, <1>3, <1>5, <1>10, <2>2, LeftFields
    <2>3. CASE act[a].todo = OnlySave /\ Save(a) /\ MovesTo(a, LeftSaved(a, <<>>))
      BY <2>1, <2>3, WhoOwes
    <2>4. CASE act[a].todo = SaveWait /\ Save(a) /\ MovesTo(a, LeftSaved(a, EndWait))
      BY <2>1, <2>4, WhoOwes
    <2>5. CASE act[a].todo = SaveEnd /\ Save(a) /\ MovesTo(a, LeftSaved(a, End))
      BY <2>1, <2>5 DEF Owes
    <2>6. CASE act[a].todo = SayWait /\ CallOut(a) /\ MovesTo(a, Left(a, SaveWait))
      BY <2>2, <2>6, WhoOwes
    <2>7. CASE act[a].todo = SayEnd /\ CallOut(a) /\ MovesTo(a, Left(a, SaveEnd))
      BY <2>2, <2>7 DEF Owes
    <2>8. CASE act[a].todo = EndWait /\ EnqueueTimeout(a) /\ MovesTo(a, Left(a, <<>>))
      BY <2>2, <2>8, WhoOwes
    <2> QED  BY <1>6, <1>11, <2>3, <2>4, <2>5, <2>6, <2>7, <2>8, TaskAwaits
  <1>12. CASE a \in Clients
    <2>1. ASSUME Save(a), NEW todo, MovesTo(a, LeftSaved(a, todo)),
                 act[a].todo \in Owes => todo \in Owes
          PROVE  SlotInv'
      BY <1>2, <1>7, <1>10, <2>1, LeftFields
    <2>2. ASSUME CallOut(a) \/ ClearResult(a), NEW todo, MovesTo(a, Left(a, todo)),
                 act[a].todo \in Owes => todo \in Owes
          PROVE  SlotInv'
      BY <1>2, <1>3, <1>5, <1>10, <2>2, LeftFields
    <2>3. ASSUME Save(a) \/ EnqueueResume(a) \/ GitHubFails(a), MovesTo(a, Idle),
                 act[a].todo \notin Owes
          PROVE  SlotInv'
      BY <1>2, <1>3, <1>5, <1>7, <1>8, <1>10, <2>3
    <2>4. CASE act[a].todo = Kill4 /\ AbortTask(a) /\ MovesTo(a, Left(a, Kill3))
      <3>1. Left(a, Kill3).data = act[a].data /\ Left(a, Kill3).todo \in Owes
        BY LeftFields DEF Owes
      <3> QED  BY <1>4, <1>12, <2>4, <3>1, SlotMove
    <2>5. CASE act[a].todo = Answer4 /\ AbortTask(a) /\ MovesTo(a, Left(a, Resume3))
      <3>1. Left(a, Resume3).data = act[a].data
        BY LeftFields
      <3>2. arq'["main"].abort => arq["main"].abort
        <4>1. PICK t \in Tasks : Awaits(a, AbortOf[t]) /\ arq' = [arq EXCEPT ![t].abort = TRUE]
          BY <2>5 DEF AbortTask
        <4>2. t # "main"
          BY <2>5, <4>1, Todos DEF Awaits, AbortOf
        <4> QED  BY <1>1, <4>1, <4>2 DEF Tasks, ArqKeys
      <3> QED  BY <1>4, <1>9, <2>5, <3>1, <3>2, SlotMove, WhoOwes
    <2>6. CASE act[a].todo = Kill3 /\ Save(a) /\ MovesTo(a, LeftSaved(a, Kill2))
      BY <2>1, <2>6 DEF Owes
    <2>7. CASE act[a].todo = Kill2 /\ CallOut(a) /\ MovesTo(a, Left(a, End))
      BY <2>2, <2>7 DEF Owes
    <2>8. CASE act[a].todo = Resume3 /\ Save(a) /\ MovesTo(a, LeftSaved(a, Resume2))
      BY <2>1, <2>8, WhoOwes
    <2>9. CASE act[a].todo = Resume2 /\ ClearResult(a) /\ MovesTo(a, Left(a, Resume1))
      BY <2>2, <2>9, WhoOwes
    <2>10. CASE act[a].todo = Resume1 /\ EnqueueResume(a) /\ MovesTo(a, Idle)
      BY <2>3, <2>10, WhoOwes
    <2>11. CASE act[a].todo = OnlySave /\ Save(a) /\ MovesTo(a, Idle)
      BY <2>3, <2>11, WhoOwes
    <2>12. CASE act[a].todo = Comment2 /\ CallOut(a) /\ MovesTo(a, Left(a, OnlySave))
      BY <2>2, <2>12, WhoOwes
    <2>13. CASE act[a].todo = Comment2 /\ GitHubFails(a) /\ MovesTo(a, Idle)
      BY <2>3, <2>13, WhoOwes
    <2> QED
      BY <1>6, <1>12, <2>4, <2>5, <2>6, <2>7, <2>8, <2>9, <2>10, <2>11, <2>12, <2>13, ClientAwaits
  <1>13. CASE a = "cleaner"
    <2>1. CASE /\ act["cleaner"].todo = SaveEnd /\ Save("cleaner")
               /\ MovesTo("cleaner", LeftSaved("cleaner", End))
      <3>1. LeftSaved(a, End).data = NewRecord /\ LeftSaved(a, End).todo \in Owes
        BY LeftFields DEF Owes
      <3> QED  BY <1>2, <1>7, <1>10, <1>13, <2>1, <3>1
    <2> QED  BY <1>6, <1>13, <2>1, CleanerAwaits
  <1> QED  BY <1>11, <1>12, <1>13 DEF Actors

LEMMA SlotRequest ==
    ASSUME TypeOK, ShapeInv, SlotInv, NEW c \in Clients, Request(c)
    PROVE  SlotInv'
  <1>1. /\ c \in Actors /\ act[c].todo = <<>>
        /\ UNCHANGED <<rec, active, arq, faults>>
    BY ActorsAre, RequestShape DEF Idle
  <1>2. PICK x : /\ MovesTo(c, x)
                 /\ \/ x.todo = Kill4
                    \/ x.data = [rec EXCEPT !.status = "running", !.awaiting = FALSE]
                    \/ x.data = Unpaused
                    \/ x.data = [rec EXCEPT !.status = "pausing", !.paused = TRUE]
                    \/ x.data = rec
    BY RequestShape
  <1>3. x.data.status \in Terminal => Ended \/ x.todo \in Owes
    BY <1>2 DEF Ended, Owes, Terminal, Unpaused, TypeOK, Record
  <1> QED  BY <1>1, <1>2, <1>3, WhoOwes, SlotMove DEF Ended

LEMMA SlotNext ==
    ASSUME TypeOK, ShapeInv, SlotInv, TimerSafe, [Next]_vars
    PROVE  SlotInv'
  <1>1. ASSUME NEW c \in Clients, Request(c) \/ AwaitStep(c) PROVE SlotInv'
    BY <1>1, ActorsAre, SlotRequest, SlotAwait
  <1>2. ASSUME NEW t \in Tasks, TaskStep(t) \/ AwaitStep(t) PROVE SlotInv'
    BY <1>2, ActorsAre, SlotTask, SlotAwait
  <1>3. CASE AwaitStep("cleaner")
    BY <1>3, ActorsAre, SlotAwait
  <1>4. CASE WorkerCrash \/ \E t \in Tasks : TaskTimesOut(t)
    <2>1. UNCHANGED active /\ faults' # 0
      BY <1>4 DEF WorkerCrash, TaskTimesOut, TypeOK
    <2> QED  BY <2>1 DEF SlotInv
  <1>5. CASE Clean
    <2>1. PICK x : MovesTo("cleaner", x) /\ x.todo = SaveEnd
      BY <1>5, CleanShape
    <2>2. UNCHANGED <<rec, active, arq, faults>> /\ x.todo \in Owes
      BY <1>5, <2>1 DEF Clean, Owes
    <2> QED  BY <2>1, <2>2, ActorsAre, SlotMove DEF Ended
  <1>6. CASE TimerDue \/ WaitAges
    <2>1. UNCHANGED <<act, active, faults>> /\ rec'.status = rec.status
      BY <1>6 DEF TimerDue, WaitAges, TypeOK, Record
    <2>2. arq'["main"].abort => arq["main"].abort
      BY <1>6 DEF TimerDue, WaitAges, TypeOK, ArqKeys, Tasks
    <2> QED  BY <2>1, <2>2, SlotStays
  <1>7. CASE UNCHANGED vars
    BY <1>7, SlotStays DEF vars
  <1> QED  BY <1>1, <1>2, <1>3, <1>4, <1>5, <1>6, <1>7 DEF Next, ServerStep

LEMMA SlotInit == Init => SlotInv /\ TimerSafe
  BY ActorsAre DEF Init, SlotInv, TimerSafe, Ended, NewRecord, Idle, Terminal, Tasks

LEMMA SlotGives == SlotInv => (faults = 0 => SlotReturned)
  <1> SUFFICES ASSUME SlotInv, faults = 0, Quiet, rec.status \in Terminal PROVE active <= 0
    BY DEF SlotReturned
  <1>1. \A a \in Actors : act[a].todo = <<>>
    BY DEF Quiet, Idle
  <1>2. ~Owed
    BY <1>1, WhoOwes DEF Owed
  <1> QED  BY <1>2 DEF SlotInv, Ended

(* Without answers nothing is ever put into the abort set for timeout.     *)
NoAborts == ~arq["timeout"].abort /\ \A c \in Clients : act[c].todo # Answer4

(* The abort entries other than by AbortTask.                              *)
LEMMA AbortKept ==
    ASSUME TypeOK, [Next]_vars, \A a \in Actors : ~AbortTask(a)
    PROVE  \A t \in Tasks : arq'[t].abort => arq[t].abort
  <1>1. arq \in [Tasks -> ArqKeys]
    BY DEF TypeOK
  <1>2. CASE UNCHANGED arq
    BY <1>2
  <1>3. \A u \in Tasks : arq' = Finished(u) => \A t \in Tasks : arq'[t].abort => arq[t].abort
    BY <1>1 DEF Finished
  <1>4. ASSUME NEW u \in Tasks, NEW msg, arq' = Enqueued(u, msg)
        PROVE  \A t \in Tasks : arq'[t].abort => arq[t].abort
    BY <1>1, <1>4 DEF Enqueued, ArqKeys
  <1>5. ASSUME NEW a \in Actors, AwaitStep(a)
        PROVE  \A t \in Tasks : arq'[t].abort => arq[t].abort
    <2>1. CASE ClearResult(a)
      BY <1>1, <2>1 DEF ClearResult, ArqKeys
    <2>2. CASE EnqueueResume(a) \/ EnqueueTimeout(a)
      BY <1>4, <2>2 DEF EnqueueResume, EnqueueTimeout, Tasks
    <2> QED  BY <1>2, <1>5, <2>1, <2>2 DEF AwaitStep, Save, Decrement, CallOut, GitHubFails
  <1>6. ASSUME NEW t \in Tasks, TaskStart(t)
        PROVE  \A u \in Tasks : arq'[u].abort => arq[u].abort
    <2>1. CASE arq' = [arq EXCEPT ![t].running = TRUE]
      BY <1>1, <2>1 DEF ArqKeys
    <2> QED  BY <1>3, <1>6, <2>1 DEF TaskStart
  <1>7. ASSUME NEW t \in Tasks, TaskStep(t)
        PROVE  \A u \in Tasks : arq'[u].abort => arq[u].abort
    BY <1>2, <1>3, <1>6, <1>7
    DEF TaskStep, RunTriage, ResumeGraph, ExpireLoad, ExpirePeek, StreamBegin, GraphFails,
        FinalizeLoad, FinalizeCheck, FinalizeDone, HandleError, TaskFinish, TaskCancelled,
        GraphCalls, GraphAsks, GraphAnswered, GraphValueDropped, GraphFinishes, Advance
  <1>8. CASE TimerDue
    BY <1>1, <1>8 DEF TimerDue, ArqKeys
  <1>9. CASE WaitAges
    BY <1>1, <1>9 DEF WaitAges, ArqKeys
  <1>10. CASE WorkerCrash
    BY <1>1, <1>10 DEF WorkerCrash, ArqKeys
  <1>11. ASSUME NEW c \in Clients, Request(c) PROVE UNCHANGED arq
    BY <1>11 DEF Request, Answer, Pause, Resume, Redirect, Kill, PostComment, GqlPause, GqlResume,
                 Accept
  <1> QED
    BY <1>2, <1>3, <1>5, <1>7, <1>8, <1>9, <1>10, <1>11, ActorsAre
    DEF Next, ServerStep, Clean, TaskTimesOut, vars

LEMMA NoAbortsNext ==
    ASSUME "answer" \notin Requests, TypeOK, ShapeInv, NoAborts, [Next]_vars
    PROVE  NoAborts'
  <1>1. ASSUME NEW c \in Clients, NEW x, MovesTo(c, x), x.todo # Answer4
        PROVE  \A d \in Clients : act'[d].todo # Answer4
    BY <1>1, ActorsAre DEF MovesTo, TypeOK, NoAborts
  <1>2. ASSUME NEW a \in Actors, a \notin Clients, NEW x, MovesTo(a, x)
        PROVE  \A d \in Clients : act'[d].todo # Answer4
    BY <1>2, ActorsAre DEF MovesTo, TypeOK, NoAborts
  <1>3. Idle.todo # Answer4
    BY Todos DEF Idle
  <1>4. UNCHANGED act => \A d \in Clients : act'[d].todo # Answer4
    BY DEF NoAborts
  <1>5. \A d \in Clients : act'[d].todo # Answer4
    <2>1. ASSUME NEW c \in Clients, Request(c) PROVE \A d \in Clients : act'[d].todo # Answer4
      <3>1. PICK x : MovesTo(c, x) /\ x.todo \in {Kill4, Resume3, OnlySave, Comment2}
        BY <2>1, RequestShape
      <3> QED  BY <1>1, <3>1, Todos
    <2>2. ASSUME NEW c \in Clients, AwaitStep(c) PROVE \A d \in Clients : act'[d].todo # Answer4
      <3>1. ASSUME NEW todo, todo \in {Kill3, Kill2, End, Resume2, Resume1, OnlySave},
                   MovesTo(c, Left(c, todo)) \/ MovesTo(c, LeftSaved(c, todo))
            PROVE  \A d \in Clients : act'[d].todo # Answer4
        <4>1. todo # Answer4
          BY <3>1, Todos
        <4>2. Left(c, todo).todo # Answer4 /\ LeftSaved(c, todo).todo # Answer4
          BY <4>1, LeftFields, ActorsAre
        <4> QED  BY <1>1, <3>1, <4>2
      <3> QED  BY <1>1, <1>3, <2>2, <3>1, ClientAwaits DEF NoAborts
    <2>3. ASSUME NEW t \in Tasks, TaskStep(t) PROVE \A d \in Clients : act'[d].todo # Answer4
      BY <1>2, <1>4, <2>3, TaskMoves, ActorsAre, Distinct
      DEF Starts, Ends, GoesOn, Walks, Writes, Speaks
    <2>4. ASSUME NEW t \in Tasks, AwaitStep(t) PROVE \A d \in Clients : act'[d].todo # Answer4
      BY <1>2, <2>4, TaskAwaits, ActorsAre, Distinct
    <2>5. CASE Clean \/ AwaitStep("cleaner")
      BY <1>2, <2>5, CleanShape, CleanerAwaits, ActorsAre, Distinct
    <2>6. CASE WorkerCrash
      BY <2>6, ActorsAre DEF WorkerCrash, NoAborts
    <2>7. ASSUME NEW t \in Tasks, TaskTimesOut(t) PROVE \A d \in Clients : act'[d].todo # Answer4
      BY <1>2, <2>7, ActorsAre, Distinct DEF TaskTimesOut, MovesTo
    <2> QED
      BY <1>4, <2>1, <2>2, <2>3, <2>4, <2>5, <2>6, <2>7
      DEF Next, ServerStep, TimerDue, WaitAges, vars
  <1>6. ~arq'["timeout"].abort
    <2>1. CASE \A a \in Actors : ~AbortTask(a)
      BY <2>1, AbortKept DEF NoAborts, Tasks
    <2>2. ASSUME NEW a \in Actors, AbortTask(a) PROVE ~arq'["timeout"].abort
      <3>1. PICK t \in Tasks : Awaits(a, AbortOf[t]) /\ arq' = [arq EXCEPT ![t].abort = TRUE]
        BY <2>2 DEF AbortTask
      <3>2. AwaitStep(a)
        BY <2>2 DEF AwaitStep
      <3>3. Head(act[a].todo) = AbortOf[t] /\ AbortOf[t] \in {"abort_main", "abort_timeout"}
        BY <3>1 DEF Awaits, AbortOf, Tasks
      <3>4. a \in Clients
        <4>1. a \notin Tasks
          BY <3>2, <3>3, TaskAwaits, Todos
        <4>2. a # "cleaner"
          BY <3>2, <3>3, CleanerAwaits, Todos
        <4> QED  BY <4>1, <4>2 DEF Actors
      <3>5. act[a].todo = Kill4
        <4>1. act[a].todo \in {Kill4, Kill3, Kill2, End, Resume3, Resume2, Resume1, OnlySave, Comment2}
          BY <3>2, <3>4, ClientAwaits DEF NoAborts
        <4>2. /\ Head(Kill3) = "save" /\ Head(Kill2) = "publish" /\ Head(End) = "decrement"
              /\ Head(Resume3) = "save" /\ Head(Resume2) = "clear_result"
              /\ Head(Resume1) = "enqueue_resume" /\ Head(OnlySave) = "save"
              /\ Head(Comment2) = "github"
          BY Todos
        <4> QED  BY <3>3, <4>1, <4>2
      <3>6. t = "main"
        BY <3>3, <3>5, Todos DEF AbortOf, Tasks
      <3> QED  BY <3>1, <3>6 DEF NoAborts, TypeOK, ArqKeys, Tasks
    <2> QED  BY <2>1, <2>2
  <1> QED  BY <1>5, <1>6 DEF NoAborts

LEMMA NoAbortsInit == Init => NoAborts
  BY ActorsAre, Todos DEF Init, NoAborts, Idle, Tasks

(* When no answer is given (so no timer task is aborted), and no task is   *)
(* lost to a crash or a time limit, a job in a final status has returned   *)
(* its slot once nothing is in progress, however kills, pauses, resumes    *)
(* and comments interleave with the worker.                                *)
THEOREM SlotComesBack ==
    ASSUME "answer" \notin Requests
    PROVE  Spec => [](faults = 0 => SlotReturned)
  <1>1. Init => SlotInv /\ NoAborts
    BY SlotInit, NoAbortsInit
  <1>2. TypeOK /\ ShapeInv /\ SlotInv /\ NoAborts /\ [Next]_vars => SlotInv' /\ NoAborts'
    BY SlotNext, NoAbortsNext DEF TimerSafe, NoAborts
  <1>3. SlotInv => (faults = 0 => SlotReturned)
    BY SlotGives
  <1> QED  BY <1>1, <1>2, <1>3, TypeCorrect, ShapeHolds, PTL DEF Spec

-----------------------------------------------------------------------------
(* A calm environment.                                                     *)

(* While a handler runs, nothing else does but main inside a node.         *)
Resting(a) == act[a] = Idle \/ (a = "main" /\ At(a, "graph"))
OneBusy == \A c \in Clients : act[c] # Idle => \A a \in Actors : a # c => Resting(a)

LEMMA AwaitMovesOne ==
    ASSUME NEW a, AwaitStep(a)
    PROVE  (\E x : MovesTo(a, x)) /\ act[a] # Idle
  <1>1. act[a] # Idle
    BY WhichAwait DEF Idle
  <1>2. \E x : MovesTo(a, x)
    BY DEF AwaitStep, MovesTo, Save, Decrement, AbortTask, ClearResult, EnqueueResume,
           EnqueueTimeout, CallOut, GitHubFails
  <1> QED  BY <1>1, <1>2

LEMMA ServerSparesClients ==
    ASSUME TypeOK, ShapeInv, ServerStep, NEW c \in Clients
    PROVE  act'[c] = act[c]
  <1>1. c \in Actors /\ c \notin Tasks /\ c # "cleaner" /\ act \in [Actors -> Actor]
    BY ActorsAre, Distinct DEF TypeOK
  <1>2. ASSUME NEW a, a \in Tasks \cup {"cleaner"}, NEW x, MovesTo(a, x) PROVE act'[c] = act[c]
    BY <1>1, <1>2 DEF MovesTo
  <1>3. ASSUME NEW t \in Tasks, TaskStep(t) PROVE act'[c] = act[c]
    BY <1>2, <1>3, TaskMoves DEF Starts, Ends, GoesOn, Walks, Writes, Speaks
  <1>4. ASSUME NEW a \in Tasks \cup {"cleaner"}, AwaitStep(a) PROVE act'[c] = act[c]
    BY <1>2, <1>4, AwaitMovesOne
  <1>5. CASE Clean
    BY <1>2, <1>5, CleanShape
  <1>6. ASSUME NEW t \in Tasks, TaskTimesOut(t) PROVE act'[c] = act[c]
    BY <1>2, <1>6 DEF TaskTimesOut, MovesTo
  <1>7. CASE WorkerCrash
    BY <1>1, <1>7 DEF WorkerCrash
  <1> QED  BY <1>3, <1>4, <1>5, <1>6, <1>7 DEF ServerStep, TimerDue, WaitAges

LEMMA BusyNext ==
    ASSUME TypeOK, ShapeInv, OneBusy, [CalmNext]_vars
    PROVE  OneBusy'
  <1>1. act \in [Actors -> Actor] /\ \A c \in Clients : c \in Actors /\ c # "main"
    BY ActorsAre, Distinct DEF TypeOK, Tasks
  <1>2. ASSUME NEW c \in Clients, NEW x, MovesTo(c, x), \A a \in Actors : a # c => Resting(a)
        PROVE  OneBusy'
    <2>1. \A a \in Actors : a # c => act'[a] = act[a]
      BY <1>1, <1>2 DEF MovesTo
    <2>2. \A a \in Actors : a # c => Resting(a)'
      BY <1>2, <2>1 DEF Resting, At
    <2>3. \A d \in Clients : d # c => act'[d] = Idle
      BY <1>1, <1>2, <2>1 DEF Resting
    <2> QED  BY <2>2, <2>3 DEF OneBusy
  <1>3. ASSUME NEW c \in Clients, Calm, Request(c) PROVE OneBusy'
    <2>1. \E x : MovesTo(c, x)
      BY <1>3, RequestShape
    <2> QED  BY <1>2, <1>3, <2>1 DEF Calm, Resting
  <1>4. ASSUME NEW c \in Clients, AwaitStep(c) PROVE OneBusy'
    BY <1>2, <1>4, AwaitMovesOne DEF OneBusy
  <1>5. CASE (\A c \in Clients : act[c] = Idle) /\ ServerStep
    BY <1>5, ServerSparesClients DEF OneBusy
  <1>6. CASE UNCHANGED vars
    BY <1>6 DEF vars, OneBusy, Resting, At
  <1> QED  BY <1>3, <1>4, <1>5, <1>6 DEF CalmNext

(* A task starts only when it is not to be aborted.                        *)
LEMMA RunsUnaborted ==
    ASSUME TypeOK, ShapeInv, [Next]_vars, NEW t \in Tasks, arq'[t].running
    PROVE  arq[t].running \/ ~arq[t].abort
  <1>1. arq \in [Tasks -> ArqKeys]
    BY DEF TypeOK
  <1>2. CASE UNCHANGED arq
    BY <1>2
  <1>3. \A u \in Tasks : arq' = Finished(u) => arq[t].running
    BY <1>1 DEF Finished
  <1>4. ASSUME NEW a \in Actors, AwaitStep(a) PROVE arq[t].running
    BY <1>4, AwaitKeys DEF KeysKept
  <1>5. ASSUME NEW u \in Tasks, TaskStep(u) PROVE arq[t].running \/ ~arq[t].abort
    <2>1. CASE TaskStart(u)
      BY <1>1, <1>3, <2>1 DEF TaskStart, ArqKeys
    <2> QED
      BY <1>2, <1>3, <1>5, <2>1
      DEF TaskStep, RunTriage, ResumeGraph, ExpireLoad, ExpirePeek, StreamBegin, GraphFails,
          FinalizeLoad, FinalizeCheck, FinalizeDone, HandleError, TaskFinish, TaskCancelled,
          GraphCalls, GraphAsks, GraphAnswered, GraphValueDropped, GraphFinishes, Advance
  <1>6. CASE TimerDue
    BY <1>1, <1>6 DEF TimerDue, ArqKeys
  <1>7. CASE WaitAges
    BY <1>1, <1>7 DEF WaitAges, ArqKeys
  <1>8. CASE WorkerCrash
    BY <1>1, <1>8 DEF WorkerCrash, ArqKeys
  <1>9. ASSUME NEW c \in Clients, Request(c) PROVE UNCHANGED arq
    BY <1>9, RequestShape
  <1> QED
    BY <1>2, <1>3, <1>4, <1>5, <1>6, <1>7, <1>8, <1>9, ActorsAre
    DEF Next, ServerStep, Clean, TaskTimesOut, vars

(* Only a request aborts a task.                                           *)
LEMMA WhoAborts ==
    ASSUME TypeOK, ShapeInv, NEW a \in Actors, AbortTask(a)
    PROVE  a \in Clients /\ AwaitStep(a) /\ act[a] # Idle
  <1>1. AwaitStep(a)
    BY DEF AwaitStep
  <1>2. Head(act[a].todo) \in {"abort_main", "abort_timeout"}
    BY DEF AbortTask, Awaits, AbortOf, Tasks
  <1>3. a \notin Tasks
    BY <1>1, <1>2, TaskAwaits, Todos
  <1>4. a # "cleaner"
    BY <1>1, <1>2, CleanerAwaits, Todos
  <1> QED  BY <1>1, <1>3, <1>4, AwaitMovesOne DEF Actors

LEMMA CalmTimerNext ==
    ASSUME TypeOK, ShapeInv, OneBusy, TimerSafe, [CalmNext]_vars
    PROVE  TimerSafe'
  <1>1. [Next]_vars /\ "timeout" \in Tasks /\ "timeout" \in Actors
    BY ActorsAre DEF CalmNext, Next, Tasks
  <1>2. CASE \A a \in Actors : ~AbortTask(a)
    BY <1>1, <1>2, AbortKept, RunsUnaborted DEF TimerSafe
  <1>3. ASSUME NEW a \in Actors, AbortTask(a) PROVE TimerSafe'
    <2>1. a \in Clients /\ AwaitStep(a) /\ act[a] # Idle
      BY <1>3, WhoAborts
    <2>2. act["timeout"] = Idle
      BY <1>1, <2>1, Distinct DEF OneBusy, Resting
    <2>3. ~arq["timeout"].running
      BY <1>1, <2>2 DEF ShapeInv, RunsInv, Idle
    <2>4. arq'["timeout"].running = arq["timeout"].running
      BY <1>1, <2>1, AwaitKeys DEF KeysKept
    <2> QED  BY <2>3, <2>4 DEF TimerSafe
  <1> QED  BY <1>2, <1>3

LEMMA BusyInit == Init => OneBusy
  BY ActorsAre DEF Init, OneBusy

LEMMA CalmBasics == CalmSpec => [](TypeOK /\ ShapeInv /\ OneBusy /\ TimerSafe)
  <1>1. Init => OneBusy /\ TimerSafe
    BY BusyInit, SlotInit
  <1>2. TypeOK /\ ShapeInv /\ OneBusy /\ TimerSafe /\ [CalmNext]_vars => OneBusy' /\ TimerSafe'
    BY BusyNext, CalmTimerNext
  <1>3. CalmSpec => []TypeOK /\ []ShapeInv
    BY CalmIsSpec, TypeCorrect, ShapeHolds
  <1> QED  BY <1>1, <1>2, <1>3, PTL DEF CalmSpec

(* In a calm environment the slot comes back from every request, answers   *)
(* included: a timer task is never cancelled while it runs.                *)
THEOREM CalmSlotComesBack == CalmSpec => [](faults = 0 => SlotReturned)
  <1>1. Init => SlotInv
    BY SlotInit
  <1>2. TypeOK /\ ShapeInv /\ TimerSafe /\ SlotInv /\ [CalmNext]_vars => SlotInv'
    BY SlotNext DEF CalmNext, Next
  <1>3. SlotInv => (faults = 0 => SlotReturned)
    BY SlotGives
  <1> QED  BY <1>1, <1>2, <1>3, CalmBasics, PTL DEF CalmSpec

-----------------------------------------------------------------------------
(* One task at a time drives the thread.  main and timeout are never both  *)
(* under way: a record that says waiting has no main task that will still  *)
(* do anything, and only such a record lets the timer begin.               *)

Saves(x) == x.todo \in {OnlySave, SayWait, SaveWait, SayEnd, SaveEnd}
Works(x) == \/ x.pc \in {"peek", "stream", "graph", "error", "reload", "check", "collect"}
            \/ Saves(x)
Busy(t) == IF t = "main"
           THEN arq[t].msg # NoMessage /\ (act[t].pc # "finish" \/ Saves(act[t]))
           ELSE Works(act[t])

(* What a task relies on of the checkpoint g.                              *)
InSync(x, g) ==
    /\ x.pc = "graph" => x.loop = g
    /\ x.pc \in {"reload", "check", "collect"} => g.thread \in {"asking", "finished"}
    /\ x.pc = "collect" => g.thread = "finished"
    /\ Saves(x) /\ x.data.status = "done" => x.data.report /\ g.thread = "finished"

DriveInv ==
    /\ ~(Busy("main") /\ Busy("timeout"))
    /\ rec.status \in {"waiting", "done"} => ~Busy("main")
    /\ rec.status = "done" => ~Busy("timeout") /\ rec.report /\ checkpoint.thread = "finished"
    /\ \A t \in Tasks : InSync(act[t], checkpoint)

TimerMsg == arq["timeout"].msg.fn \in {"none", "expire_human_input"}

(* What a handler that runs alone finds where it left it.                  *)
ClientsInv ==
    \A c \in Clients :
        /\ act[c].todo \in {OnlySave, Comment2} => act[c].data = rec \/ act[c].data.status = "pausing"
        /\ act[c].todo \in {Resume2, Resume1} => rec.status = "running"

LEMMA IdleRests == ~Works(Idle) /\ ~Saves(Idle) /\ \A g : InSync(Idle, g)
  <1>1. Idle.pc = "idle" /\ Idle.todo = <<>>
    BY DEF Idle
  <1>2. ~Saves(Idle)
    BY <1>1, Todos DEF Saves
  <1> QED  BY <1>1, <1>2 DEF Works, InSync

LEMMA WorksIsBusy ==
    ASSUME ShapeInv, NEW t \in Tasks, Works(act[t])
    PROVE  Busy(t)
  <1>1. act[t].pc # "idle"
    BY IdleRests DEF ShapeInv, RunsInv
  <1>2. arq[t].msg # NoMessage
    BY <1>1 DEF ShapeInv, RunsInv
  <1> QED  BY <1>2 DEF Busy, Works

LEMMA RestsInSync ==
    ASSUME ShapeInv, NEW t \in Tasks, ~Busy(t)
    PROVE  \A g : InSync(act[t], g)
  <1>1. ~Works(act[t])
    BY WorksIsBusy
  <1> QED  BY <1>1 DEF Works, InSync

LEMMA SavesIs ==
    /\ <<>> \notin {OnlySave, SayWait, SaveWait, SayEnd, SaveEnd}
    /\ EndWait \notin {OnlySave, SayWait, SaveWait, SayEnd, SaveEnd}
    /\ End \notin {OnlySave, SayWait, SaveWait, SayEnd, SaveEnd}
  BY Todos, TodosDiffer

(* No task becomes busy, and the record and the checkpoint stay.           *)
LEMMA DriveMove ==
    ASSUME DriveInv, rec'.status = rec.status, rec'.report = rec.report, UNCHANGED checkpoint,
           \A t \in Tasks : Busy(t)' => Busy(t),
           \A t \in Tasks : InSync(act'[t], checkpoint')
    PROVE  DriveInv'
  <1>1. "main" \in Tasks /\ "timeout" \in Tasks
    BY DEF Tasks
  <1>2. \A t \in Tasks : InSync(act[t], checkpoint)'
    BY DEF InSync, Saves
  <1> QED  BY <1>1, <1>2 DEF DriveInv

(* The record is saved with a status that is neither waiting nor done.     *)
LEMMA DriveSave ==
    ASSUME DriveInv, rec'.status \notin {"waiting", "done"}, UNCHANGED checkpoint,
           \A t \in Tasks : Busy(t)' => Busy(t),
           \A t \in Tasks : InSync(act'[t], checkpoint')
    PROVE  DriveInv'
  <1>1. "main" \in Tasks /\ "timeout" \in Tasks
    BY DEF Tasks
  <1>2. \A t \in Tasks : InSync(act[t], checkpoint)'
    BY DEF InSync, Saves
  <1> QED  BY <1>1, <1>2 DEF DriveInv

(* A task that is under way takes a step: the other one is not.            *)
LEMMA DriveStep ==
    ASSUME TypeOK, ShapeInv, DriveInv, NEW t \in Tasks, Busy(t), NEW x, MovesTo(t, x),
           \A u \in Tasks : u # t => arq'[u].msg = arq[u].msg,
           UNCHANGED rec, InSync(x, checkpoint')
    PROVE  DriveInv'
  <1>1. "main" \in Tasks /\ "timeout" \in Tasks /\ \A u \in Tasks : u \in {"main", "timeout"}
    BY DEF Tasks
  <1>2. act'[t] = x /\ \A u \in Tasks : u # t => act'[u] = act[u]
    BY ActorsAre DEF TypeOK, MovesTo
  <1>3. rec.status # "done" /\ (t = "main" => rec.status # "waiting")
    BY <1>1 DEF DriveInv
  <1>4. ASSUME NEW u \in Tasks, u # t PROVE ~Busy(u) /\ ~Busy(u)' /\ InSync(act'[u], checkpoint')
    <2>1. ~Busy(u)
      BY <1>1, <1>4 DEF DriveInv
    <2>2. ~Busy(u)'
      BY <1>2, <1>4, <2>1 DEF Busy, Works, Saves
    <2> QED  BY <1>2, <1>4, <2>1, <2>2, RestsInSync
  <1>5. \A u \in Tasks : InSync(act[u], checkpoint)'
    BY <1>2, <1>4 DEF InSync, Saves
  <1> QED  BY <1>1, <1>3, <1>4, <1>5 DEF DriveInv

(* A task is over, is cut short, or never starts.                          *)
LEMMA DriveEnds ==
    ASSUME TypeOK, ShapeInv, DriveInv, UNCHANGED <<rec, checkpoint>>, NEW t \in Tasks,
           (act' = act /\ act[t] = Idle) \/ MovesTo(t, Idle), arq' = Finished(t)
    PROVE  DriveInv'
  <1>1. act'[t] = Idle /\ \A u \in Tasks : u # t => act'[u] = act[u]
    BY ActorsAre DEF TypeOK, MovesTo
  <1>2. arq'[t].msg = NoMessage /\ \A u \in Tasks : u # t => arq'[u] = arq[u]
    BY DEF TypeOK, Finished
  <1>3. ~Busy(t)'
    BY <1>1, <1>2, IdleRests DEF Busy, Works, Saves
  <1>4. \A u \in Tasks : Busy(u)' => Busy(u)
    BY <1>1, <1>2, <1>3 DEF Busy, Works, Saves
  <1>5. \A u \in Tasks : InSync(act'[u], checkpoint')
    BY <1>1, IdleRests DEF DriveInv
  <1> QED  BY <1>4, <1>5, DriveMove

(* main begins, and the timer does.                                        *)
LEMMA DriveBegins ==
    ASSUME TypeOK, ShapeInv, DriveInv, TimerMsg, NEW t \in Tasks,
           TaskStart(t) \/ RunTriage(t) \/ ResumeGraph(t) \/ ExpireLoad(t)
    PROVE  DriveInv'
  <1>1. /\ act[t] \in Actor /\ arq \in [Tasks -> ArqKeys] /\ t \in Actors
        /\ act \in [Actors -> Actor] /\ Tasks = {"main", "timeout"}
        /\ \A u \in Tasks : u \in Actors
    BY ActorsAre DEF TypeOK, Tasks
  <1>2. UNCHANGED <<rec, checkpoint>>
    BY DEF TaskStart, RunTriage, ResumeGraph, ExpireLoad
  <1>3. CASE TaskStart(t)
    <2>1. act[t] = Idle
      BY <1>3 DEF TaskStart, ShapeInv, RunsInv
    <2>2. CASE arq[t].abort
      BY <1>2, <1>3, <2>1, <2>2, DriveEnds DEF TaskStart
    <2>3. CASE ~arq[t].abort
      <3>1. PICK x : x = [act[t] EXCEPT !.pc = "load"]
        OBVIOUS
      <3>2. x.pc = "load" /\ x.todo = <<>> /\ MovesTo(t, x)
        BY <1>1, <1>3, <2>1, <2>3, <3>1 DEF TaskStart, Goto, MovesTo, Idle
      <3>3. act'[t] = x /\ \A u \in Tasks : u # t => act'[u] = act[u]
        BY <1>1, <3>2 DEF MovesTo
      <3>4. arq[t].msg # NoMessage /\ \A u \in Tasks : arq'[u].msg = arq[u].msg
        BY <1>1, <1>3, <2>3 DEF TaskStart, ArqKeys
      <3>5. ~Works(x) /\ \A g : InSync(x, g)
        BY <3>2, SavesIs DEF Works, Saves, InSync
      <3>6. \A u \in Tasks : Busy(u)' => Busy(u)
        <4>1. Busy(t)' => Busy(t)
          BY <2>1, <3>3, <3>4, <3>5 DEF Busy, Works, Saves, Idle
        <4> QED  BY <3>3, <3>4, <4>1 DEF Busy, Works, Saves
      <3>7. \A u \in Tasks : InSync(act'[u], checkpoint')
        BY <1>2, <3>3, <3>5 DEF DriveInv
      <3> QED  BY <1>2, <3>6, <3>7, DriveMove
    <2> QED  BY <2>2, <2>3
  <1>4. CASE RunTriage(t) \/ ResumeGraph(t)
    <2>1. t = "main"
      BY <1>1, <1>4 DEF RunTriage, ResumeGraph, TimerMsg
    <2>2. Busy(t)
      <3>1. act[t].pc = "load"
        BY <1>4 DEF RunTriage, ResumeGraph, At
      <3>2. arq[t].msg # NoMessage
        BY <1>1, <3>1 DEF ShapeInv, RunsInv
      <3> QED  BY <2>1, <3>1, <3>2 DEF Busy
    <2>3. CASE UNCHANGED arq /\ \E pc \in {"finish", "stream"} : At(t, "load") /\ Goto(t, pc)
      <3>1. PICK pc \in {"finish", "stream"} : Goto(t, pc)
        BY <2>3
      <3>2. PICK x : x = [act[t] EXCEPT !.pc = pc]
        OBVIOUS
      <3>3. MovesTo(t, x) /\ x.pc = pc /\ x.todo = <<>>
        BY <1>1, <2>3, <3>1, <3>2 DEF Goto, MovesTo, Actor, At
      <3>4. InSync(x, checkpoint')
        BY <3>3, SavesIs DEF InSync, Saves
      <3> QED  BY <1>2, <2>2, <2>3, <3>3, <3>4, DriveStep
    <2>4. CASE RunTriage(t) /\ rec.status \notin Terminal
      <3>1. PICK x : x = [act[t] EXCEPT !.pc = "stream", !.todo = <<"save">>,
                                        !.data = [rec EXCEPT !.status = "running"]]
        OBVIOUS
      <3>2. x.pc = "stream" /\ x.data.status = "running" /\ MovesTo(t, x) /\ UNCHANGED arq
        BY <1>1, <2>4, <3>1 DEF RunTriage, MovesTo, Actor, TypeOK, Record
      <3>3. InSync(x, checkpoint')
        BY <3>2 DEF InSync
      <3> QED  BY <1>2, <2>2, <3>2, <3>3, DriveStep
    <2> QED  BY <1>4, <2>3, <2>4 DEF RunTriage, ResumeGraph
  <1>5. CASE ExpireLoad(t)
    <2>1. PICK pc : pc = IF rec.status = "waiting" THEN "peek" ELSE "finish"
      OBVIOUS
    <2>2. PICK x : x = [act[t] EXCEPT !.pc = pc]
      OBVIOUS
    <2>3. MovesTo(t, x) /\ x.pc = pc /\ x.todo = <<>> /\ act[t].pc = "load" /\ UNCHANGED arq
      BY <1>1, <1>5, <2>1, <2>2 DEF ExpireLoad, Goto, MovesTo, Actor, At
    <2>4. \A g : InSync(x, g)
      BY <2>1, <2>3, SavesIs DEF InSync, Saves
    <2>5. CASE t = "main"
      <3>1. arq[t].msg # NoMessage
        BY <1>1, <2>3 DEF ShapeInv, RunsInv
      <3>2. Busy(t)
        BY <2>3, <2>5, <3>1 DEF Busy
      <3> QED  BY <1>2, <2>3, <2>4, <3>2, DriveStep
    <2>6. CASE t = "timeout"
      <3>1. act'[t] = x /\ \A u \in Tasks : u # t => act'[u] = act[u]
        BY <1>1, <2>3 DEF MovesTo
      <3>2. Busy("main")' = Busy("main")
        BY <1>1, <2>3, <2>6, <3>1 DEF Busy, Saves
      <3>3. Busy("timeout")' => rec.status = "waiting"
        BY <2>1, <2>3, <2>6, <3>1, SavesIs DEF Busy, Works, Saves
      <3>4. \A u \in Tasks : InSync(act[u], checkpoint)'
        BY <1>2, <2>4, <3>1 DEF DriveInv, InSync, Saves
      <3> QED  BY <1>2, <3>2, <3>3, <3>4 DEF DriveInv
    <2> QED  BY <1>1, <2>5, <2>6
  <1> QED  BY <1>3, <1>4, <1>5

(* The steps inside a task.                                                *)
Drives(t) ==
    StreamBegin(t) \/ GraphCalls(t) \/ GraphAsks(t) \/ GraphAnswered(t)
    \/ GraphValueDropped(t) \/ GraphFinishes(t)

LEMMA DriveThread ==
    ASSUME TypeOK, ShapeInv, DriveInv, NEW t \in Tasks, Drives(t)
    PROVE  DriveInv'
  <1>1. act[t] \in Actor /\ act \in [Actors -> Actor] /\ t \in Actors
    BY ActorsAre DEF TypeOK
  <1>2. act[t].pc \in {"stream", "graph"} /\ act[t].todo = <<>> /\ UNCHANGED <<rec, arq>>
    BY DEF Drives, StreamBegin, GraphCalls, GraphAsks, GraphAnswered, GraphValueDropped,
           GraphFinishes, Advance, At
  <1>3. Busy(t)
    BY <1>2, WorksIsBusy DEF Works
  <1>4. ASSUME NEW pc, NEW loop, NEW value,
               MovesTo(t, [act[t] EXCEPT !.pc = pc, !.value = value, !.loop = loop]),
               pc = "graph" => loop = checkpoint',
               pc = "reload" => checkpoint'.thread \in {"asking", "finished"},
               pc \in {"graph", "reload", "error"}
        PROVE  DriveInv'
    <2>1. PICK x : x = [act[t] EXCEPT !.pc = pc, !.value = value, !.loop = loop]
      OBVIOUS
    <2>2. x.pc = pc /\ x.loop = loop /\ x.todo = <<>> /\ MovesTo(t, x)
      BY <1>1, <1>2, <1>4, <2>1 DEF Actor
    <2>3. InSync(x, checkpoint')
      BY <1>4, <2>2, SavesIs DEF InSync, Saves
    <2> QED  BY <1>2, <1>3, <2>2, <2>3, DriveStep
  <1>5. CASE StreamBegin(t)
    <2> DEFINE fresh == arq[t].msg.fn = "run_triage"
               loop == IF fresh THEN [NoThread EXCEPT !.thread = "working"] ELSE checkpoint
               next == IF loop.thread = "absent" THEN "error"
                       ELSE IF loop.thread = "finished" THEN "reload" ELSE "graph"
    <2>1. checkpoint' = loop
      BY <1>5 DEF StreamBegin
    <2>2. act' = [act EXCEPT ![t].pc = next,
                             ![t].loop = IF next = "graph" THEN loop ELSE NoThread,
                             ![t].value = IF next = "graph" THEN arq[t].msg.value ELSE NoValue]
      BY <1>5 DEF StreamBegin
    <2>3. next \in {"graph", "reload", "error"} /\ (next = "reload" => loop.thread = "finished")
      OBVIOUS
    <2> HIDE DEF loop, next
    <2>4. MovesTo(t, [act[t] EXCEPT !.pc = next,
                        !.value = IF next = "graph" THEN arq[t].msg.value ELSE NoValue,
                        !.loop = IF next = "graph" THEN loop ELSE NoThread])
      BY <1>1, <2>2 DEF MovesTo, Actor
    <2> QED  BY <1>4, <2>1, <2>3, <2>4
  <1>6. ASSUME NEW loop, NEW pc \in {"graph", "reload"}, Advance(t, loop, pc),
               pc = "reload" => loop.thread \in {"asking", "finished"}
        PROVE  DriveInv'
    <2>1. checkpoint' = loop
      BY <1>6 DEF Advance
    <2>2. MovesTo(t, [act[t] EXCEPT !.pc = pc, !.value = NoValue,
                                    !.loop = IF pc = "graph" THEN loop ELSE NoThread])
      BY <1>1, <1>6 DEF Advance, MovesTo, Actor
    <2> QED  BY <1>4, <1>6, <2>1, <2>2
  <1>7. act[t].loop \in Checkpoint
    BY <1>1 DEF Actor
  <1>8. CASE GraphCalls(t)
    BY <1>6, <1>8 DEF GraphCalls
  <1>9. CASE GraphAsks(t)
    <2>1. PICK loop : loop = [act[t].loop EXCEPT !.thread = "asking", !.question = asked']
      OBVIOUS
    <2>2. loop.thread = "asking" /\ Advance(t, loop, "reload")
      BY <1>7, <1>9, <2>1 DEF GraphAsks, Checkpoint
    <2> QED  BY <1>6, <2>2
  <1>10. CASE GraphAnswered(t)
    BY <1>6, <1>10 DEF GraphAnswered
  <1>11. CASE GraphValueDropped(t)
    BY <1>6, <1>11 DEF GraphValueDropped
  <1>12. CASE GraphFinishes(t)
    <2>1. PICK loop : loop = [act[t].loop EXCEPT !.thread = "finished"]
      OBVIOUS
    <2>2. loop.thread = "finished" /\ Advance(t, loop, "reload")
      BY <1>7, <1>12, <2>1 DEF GraphFinishes, Checkpoint
    <2> QED  BY <1>6, <2>2
  <1> QED  BY <1>5, <1>8, <1>9, <1>10, <1>11, <1>12 DEF Drives

LEMMA DriveInside ==
    ASSUME TypeOK, ShapeInv, DriveInv, NEW t \in Tasks,
           ExpirePeek(t) \/ GraphFails(t) \/ FinalizeLoad(t) \/ FinalizeCheck(t)
           \/ FinalizeDone(t) \/ HandleError(t)
    PROVE  DriveInv'
  <1>1. act[t] \in Actor /\ act \in [Actors -> Actor] /\ t \in Actors /\ InSync(act[t], checkpoint)
    BY ActorsAre DEF TypeOK, DriveInv
  <1>2. /\ act[t].pc \in {"peek", "graph", "reload", "check", "collect", "error"}
        /\ act[t].todo = <<>> /\ UNCHANGED <<rec, arq, checkpoint>>
    BY DEF ExpirePeek, GraphFails, FinalizeLoad, FinalizeCheck, FinalizeDone, HandleError, At
  <1>3. Busy(t)
    BY <1>2, WorksIsBusy DEF Works
  <1>4. ASSUME NEW x, MovesTo(t, x), InSync(x, checkpoint) PROVE DriveInv'
    BY <1>2, <1>3, <1>4, DriveStep
  <1>5. ASSUME NEW pc, Goto(t, pc), pc \notin {"graph", "reload"},
               pc = "check" => checkpoint.thread \in {"asking", "finished"},
               pc = "collect" => checkpoint.thread = "finished"
        PROVE  DriveInv'
    <2>1. PICK x : x = [act[t] EXCEPT !.pc = pc]
      OBVIOUS
    <2>2. MovesTo(t, x) /\ x.pc = pc /\ x.todo = <<>>
      BY <1>1, <1>2, <1>5, <2>1 DEF Goto, MovesTo, Actor
    <2>3. InSync(x, checkpoint)
      BY <1>5, <2>2, SavesIs DEF InSync, Saves
    <2> QED  BY <1>4, <2>2, <2>3
  <1>6. ASSUME NEW x, MovesTo(t, x), x.pc = "finish",
               x.data.status = "done" => x.data.report /\ checkpoint.thread = "finished"
        PROVE  DriveInv'
    BY <1>4, <1>6 DEF InSync
  <1>7. CASE ExpirePeek(t)
    BY <1>5, <1>7 DEF ExpirePeek
  <1>8. CASE GraphFails(t)
    <2>1. PICK x : x = [act[t] EXCEPT !.pc = "error", !.loop = NoThread]
      OBVIOUS
    <2>2. MovesTo(t, x) /\ x.pc = "error" /\ x.todo = <<>>
      BY <1>1, <1>2, <1>8, <2>1 DEF GraphFails, MovesTo, Actor
    <2>3. InSync(x, checkpoint)
      BY <2>2, SavesIs DEF InSync, Saves
    <2> QED  BY <1>4, <2>2, <2>3
  <1>9. CASE FinalizeLoad(t)
    <2>1. CASE rec.status \in Terminal
      BY <1>5, <1>9, <2>1 DEF FinalizeLoad
    <2>2. CASE rec.status \notin Terminal /\ (rec.paused \/ rec.status = "pausing")
      <3>1. PICK x : x = [act[t] EXCEPT !.pc = "finish", !.todo = <<"save">>,
                                        !.data = [rec EXCEPT !.status = "paused"]]
        OBVIOUS
      <3>2. x.pc = "finish" /\ x.data.status = "paused"
        BY <1>1, <3>1 DEF Actor, TypeOK, Record
      <3>3. MovesTo(t, x)
        BY <1>1, <1>9, <2>2, <3>1 DEF FinalizeLoad, MovesTo
      <3> QED  BY <1>6, <3>2, <3>3
    <2>3. CASE rec.status \notin Terminal /\ ~(rec.paused \/ rec.status = "pausing")
      <3>1. PICK x : x = [act[t] EXCEPT !.pc = "check", !.data = rec]
        OBVIOUS
      <3>2. MovesTo(t, x) /\ x.pc = "check" /\ x.todo = <<>>
        BY <1>1, <1>2, <1>9, <2>3, <3>1 DEF FinalizeLoad, MovesTo, Actor
      <3>3. checkpoint.thread \in {"asking", "finished"}
        BY <1>1, <1>9 DEF FinalizeLoad, At, InSync
      <3>4. InSync(x, checkpoint)
        BY <3>2, <3>3, SavesIs DEF InSync, Saves
      <3> QED  BY <1>4, <3>2, <3>4
    <2> QED  BY <2>1, <2>2, <2>3
  <1>10. CASE FinalizeCheck(t)
    <2>1. CASE checkpoint.thread = "asking"
      <3>1. PICK data : data = [act[t].data EXCEPT !.status = "waiting", !.awaiting = TRUE,
                                    !.since = "recent", !.question = checkpoint.question]
        OBVIOUS
      <3>2. data.status = "waiting"
        BY <1>1, <3>1 DEF Actor, Record
      <3>3. PICK x : x = [act[t] EXCEPT !.pc = "finish", !.data = data,
                                        !.todo = <<"publish", "save", "enqueue_timeout">>]
        OBVIOUS
      <3>4. x.pc = "finish" /\ x.data.status = "waiting"
        BY <1>1, <3>2, <3>3 DEF Actor
      <3>5. MovesTo(t, x)
        BY <1>1, <1>10, <2>1, <3>1, <3>3 DEF FinalizeCheck, MovesTo
      <3> QED  BY <1>6, <3>4, <3>5
    <2>2. CASE checkpoint.thread # "asking"
      <3>1. checkpoint.thread = "finished"
        BY <1>1, <1>10, <2>2 DEF FinalizeCheck, At, InSync
      <3> QED  BY <1>5, <1>10, <2>2, <3>1 DEF FinalizeCheck
    <2> QED  BY <2>1, <2>2
  <1>11. CASE FinalizeDone(t)
    <2>1. PICK data : data = [act[t].data EXCEPT !.status = "done",
                                !.report = act[t].data.report \/ checkpoint.thread = "finished"]
      OBVIOUS
    <2>2. checkpoint.thread = "finished"
      BY <1>1, <1>11 DEF FinalizeDone, At, InSync
    <2>3. data.report
      BY <1>1, <2>1, <2>2 DEF Actor, Record
    <2>4. PICK x : x = [act[t] EXCEPT !.pc = "finish", !.data = data,
                                      !.todo = <<"publish", "save", "decrement">>]
      OBVIOUS
    <2>5. x.pc = "finish" /\ x.data = data
      BY <1>1, <2>4 DEF Actor
    <2>6. MovesTo(t, x)
      BY <1>1, <1>11, <2>1, <2>4 DEF FinalizeDone, MovesTo
    <2> QED  BY <1>6, <2>2, <2>3, <2>5, <2>6
  <1>12. CASE HandleError(t)
    <2>1. CASE arq[t].msg.fn = "expire_human_input" \/ rec.status \in Terminal
      BY <1>5, <1>12, <2>1 DEF HandleError
    <2>2. CASE ~(arq[t].msg.fn = "expire_human_input" \/ rec.status \in Terminal)
      <3>1. PICK x : x = [act[t] EXCEPT !.pc = "finish", !.todo = <<"publish", "save", "decrement">>,
                                        !.data = [rec EXCEPT !.status = "failed"]]
        OBVIOUS
      <3>2. x.pc = "finish" /\ x.data.status = "failed"
        BY <1>1, <3>1 DEF Actor, TypeOK, Record
      <3>3. MovesTo(t, x)
        BY <1>1, <1>12, <2>2, <3>1 DEF HandleError, MovesTo
      <3> QED  BY <1>6, <3>2, <3>3
    <2> QED  BY <2>1, <2>2
  <1> QED  BY <1>7, <1>8, <1>9, <1>10, <1>11, <1>12

LEMMA DriveTask ==
    ASSUME TypeOK, ShapeInv, DriveInv, TimerMsg, NEW t \in Tasks, TaskStep(t)
    PROVE  DriveInv'
  <1>1. CASE TaskFinish(t) \/ TaskCancelled(t)
    <2>1. MovesTo(t, Idle) /\ arq' = Finished(t) /\ UNCHANGED <<rec, checkpoint>>
      BY <1>1 DEF TaskFinish, TaskCancelled, MovesTo
    <2> QED  BY <2>1, DriveEnds
  <1> QED  BY <1>1, DriveBegins, DriveThread, DriveInside DEF TaskStep, Drives

(* The awaits of a task.                                                   *)
LEMMA DriveAwait ==
    ASSUME TypeOK, ShapeInv, DriveInv, NEW t \in Tasks, AwaitStep(t)
    PROVE  DriveInv'
  <1>1. /\ t \in Actors /\ TaskShape(act[t]) /\ InSync(act[t], checkpoint)
        /\ UNCHANGED checkpoint /\ arq \in [Tasks -> ArqKeys] /\ Tasks = {"main", "timeout"}
        /\ act \in [Actors -> Actor] /\ \A u \in Tasks : u \in Actors
    BY ActorsAre
    DEF ShapeInv, DriveInv, TypeOK, Tasks, AwaitStep, Save, Decrement, AbortTask, ClearResult,
        EnqueueResume, EnqueueTimeout, CallOut, GitHubFails
  <1>2. ASSUME NEW x, MovesTo(t, x), x.pc = "finish", ~Saves(x),
               arq'["main"].msg = arq["main"].msg
        PROVE  /\ ~Busy(t)' /\ \A u \in Tasks : Busy(u)' => Busy(u)
               /\ \A u \in Tasks : InSync(act'[u], checkpoint')
    <2>1. act'[t] = x /\ \A u \in Tasks : u # t => act'[u] = act[u]
      BY <1>1, <1>2 DEF MovesTo
    <2>2. ~Works(x) /\ InSync(x, checkpoint)
      BY <1>2 DEF Works, InSync
    <2>3. ~Busy(t)'
      BY <1>2, <2>1, <2>2 DEF Busy, Works, Saves
    <2>4. \A u \in Tasks : Busy(u)' => Busy(u)
      BY <1>1, <1>2, <2>1, <2>3 DEF Busy, Works, Saves
    <2> QED  BY <1>1, <2>1, <2>2, <2>3, <2>4 DEF DriveInv
  <1>3. ASSUME Save(t) PROVE rec' = act[t].data /\ UNCHANGED arq
    BY <1>3 DEF Save
  <1>4. ASSUME act[t].todo \in {OnlySave, SayWait, SaveWait, SayEnd, SaveEnd}
        PROVE  Saves(act[t]) /\ Busy(t)
    BY <1>4, WorksIsBusy DEF Saves, Works
  <1>5. CASE act[t].todo = OnlySave /\ Save(t) /\ MovesTo(t, LeftSaved(t, <<>>))
    <2>1. act[t].pc \in {"stream", "finish"} /\ act[t].data.status \in {"running", "paused"}
      BY <1>1, <1>5, StatusOf
    <2>2. PICK x : x = LeftSaved(t, <<>>)
      OBVIOUS
    <2>3. MovesTo(t, x) /\ x.pc = act[t].pc /\ ~Saves(x) /\ InSync(x, checkpoint)
      BY <1>1, <1>5, <2>1, <2>2, LeftFields, SavesIs DEF Saves, InSync
    <2>4. act'[t] = x /\ \A u \in Tasks : u # t => act'[u] = act[u]
      BY <1>1, <2>3 DEF MovesTo
    <2>5. \A u \in Tasks : Busy(u)' => Busy(u)
      BY <1>3, <1>4, <1>5, <2>4 DEF Busy, Works, Saves
    <2>6. \A u \in Tasks : InSync(act'[u], checkpoint')
      BY <1>1, <2>3, <2>4 DEF DriveInv
    <2>7. rec'.status \notin {"waiting", "done"}
      BY <1>3, <1>5, <2>1
    <2> QED  BY <1>1, <2>5, <2>6, <2>7, DriveSave
  <1>6. ASSUME act[t].todo \in {SaveWait, SaveEnd}, Save(t), NEW todo \in {EndWait, End},
               MovesTo(t, LeftSaved(t, todo))
        PROVE  DriveInv'
    <2>1. act[t].pc = "finish"
      BY <1>1, <1>6, StatusOf
    <2>2. PICK x : x = LeftSaved(t, todo)
      OBVIOUS
    <2>3. MovesTo(t, x) /\ x.pc = "finish" /\ ~Saves(x)
      BY <1>1, <1>6, <2>1, <2>2, LeftFields, SavesIs DEF Saves
    <2>4. /\ ~Busy(t)' /\ \A u \in Tasks : Busy(u)' => Busy(u)
          /\ \A u \in Tasks : InSync(act'[u], checkpoint')
      BY <1>2, <1>3, <1>6, <2>3
    <2>5. Saves(act[t]) /\ Busy(t)
      BY <1>4, <1>6
    <2>6. \A u \in Tasks : ~Busy(u)'
      BY <1>1, <2>4, <2>5 DEF DriveInv
    <2>7. rec'.status = "done" => rec'.report /\ checkpoint'.thread = "finished"
      BY <1>1, <1>3, <1>6, <2>5 DEF InSync
    <2>8. \A u \in Tasks : InSync(act[u], checkpoint)'
      BY <2>4 DEF InSync, Saves
    <2> QED  BY <1>1, <2>6, <2>7, <2>8 DEF DriveInv
  <1>7. ASSUME act[t].todo \in {SayWait, SayEnd}, CallOut(t), NEW todo \in {SaveWait, SaveEnd},
               MovesTo(t, Left(t, todo))
        PROVE  DriveInv'
    <2>1. act[t].pc = "finish"
      BY <1>1, <1>7, StatusOf
    <2>2. PICK x : x = Left(t, todo)
      OBVIOUS
    <2>3. MovesTo(t, x) /\ x.pc = "finish" /\ x.data = act[t].data
      BY <1>1, <1>7, <2>1, <2>2, LeftFields
    <2>4. Saves(act[t]) /\ Busy(t)
      BY <1>4, <1>7
    <2>5. InSync(x, checkpoint')
      BY <1>1, <2>3, <2>4 DEF InSync
    <2> QED  BY <1>1, <1>7, <2>3, <2>4, <2>5, DriveStep DEF CallOut
  <1>8. CASE /\ act[t].todo \in {EndWait, End}
             /\ EnqueueTimeout(t) \/ Decrement(t)
             /\ MovesTo(t, Left(t, <<>>))
    <2>1. act[t].pc = "finish"
      BY <1>1, <1>8, StatusOf
    <2>2. PICK x : x = Left(t, <<>>)
      OBVIOUS
    <2>3. MovesTo(t, x) /\ x.pc = "finish" /\ ~Saves(x)
      BY <1>1, <1>8, <2>1, <2>2, LeftFields, SavesIs DEF Saves
    <2>4. arq'["main"].msg = arq["main"].msg /\ UNCHANGED rec
      BY <1>1, <1>8 DEF EnqueueTimeout, Decrement, Enqueued, ArqKeys
    <2>5. /\ \A u \in Tasks : Busy(u)' => Busy(u)
          /\ \A u \in Tasks : InSync(act'[u], checkpoint')
      BY <1>2, <2>3, <2>4
    <2> QED  BY <1>1, <2>4, <2>5, DriveMove
  <1> QED  BY <1>5, <1>6, <1>7, <1>8, TaskAwaits

-----------------------------------------------------------------------------
(* What the handlers find.                                                 *)

(* The timeout id is only ever queued for expire_human_input.              *)
LEMMA TimerMsgNext ==
    ASSUME TypeOK, ShapeInv, TimerMsg, [Next]_vars
    PROVE  TimerMsg'
  <1>1. arq \in [Tasks -> ArqKeys] /\ "timeout" \in Tasks /\ "main" \in Tasks /\ NoMessage.fn = "none"
    BY DEF TypeOK, Tasks, NoMessage
  <1>2. CASE UNCHANGED arq
    BY <1>2 DEF TimerMsg
  <1>3. \A u \in Tasks : arq' = Finished(u) => TimerMsg'
    BY <1>1 DEF Finished, TimerMsg
  <1>4. ASSUME NEW a \in Actors, AwaitStep(a) PROVE TimerMsg'
    <2>1. CASE ClearResult(a) \/ AbortTask(a)
      BY <1>1, <2>1 DEF ClearResult, AbortTask, ArqKeys, TimerMsg
    <2>2. CASE EnqueueResume(a)
      BY <1>1, <2>2 DEF EnqueueResume, Enqueued, ArqKeys, TimerMsg
    <2>3. CASE EnqueueTimeout(a)
      <3>1. PICK msg : /\ msg = [fn |-> "expire_human_input",
                                 value |-> [kind |-> "timeout", question |-> 0]]
                       /\ arq' = Enqueued("timeout", msg)
        BY <2>3 DEF EnqueueTimeout
      <3>2. msg.fn = "expire_human_input"
        BY <3>1
      <3> QED  BY <1>1, <3>1, <3>2 DEF Enqueued, ArqKeys, TimerMsg
    <2> QED  BY <1>2, <1>4, <2>1, <2>2, <2>3 DEF AwaitStep, Save, Decrement, CallOut, GitHubFails
  <1>5. ASSUME NEW t \in Tasks, TaskStep(t) PROVE TimerMsg'
    <2>1. CASE TaskStart(t)
      <3>1. CASE arq' = [arq EXCEPT ![t].running = TRUE]
        BY <1>1, <3>1 DEF ArqKeys, TimerMsg
      <3> QED  BY <1>3, <2>1, <3>1 DEF TaskStart
    <2> QED
      BY <1>2, <1>3, <1>5, <2>1
      DEF TaskStep, RunTriage, ResumeGraph, ExpireLoad, ExpirePeek, StreamBegin, GraphFails,
          FinalizeLoad, FinalizeCheck, FinalizeDone, HandleError, TaskFinish, TaskCancelled,
          GraphCalls, GraphAsks, GraphAnswered, GraphValueDropped, GraphFinishes, Advance
  <1>6. CASE TimerDue
    BY <1>1, <1>6 DEF TimerDue, ArqKeys, TimerMsg
  <1>7. CASE WaitAges
    BY <1>1, <1>7 DEF WaitAges, ArqKeys, TimerMsg
  <1>8. CASE WorkerCrash
    BY <1>1, <1>8 DEF WorkerCrash, ArqKeys, TimerMsg
  <1>9. ASSUME NEW c \in Clients, Request(c) PROVE UNCHANGED arq
    BY <1>9, RequestShape
  <1> QED
    BY <1>2, <1>3, <1>4, <1>5, <1>6, <1>7, <1>8, <1>9, ActorsAre
    DEF Next, ServerStep, Clean, TaskTimesOut, vars

LEMMA TodosKeep ==
    /\ <<>> \notin {OnlySave, Comment2, Resume2, Resume1}
    /\ \A todo \in {Kill4, Kill3, Kill2, End, Answer4, Resume3} :
           todo \notin {OnlySave, Comment2, Resume2, Resume1}
    /\ \A todo \in {OnlySave, Comment2} : todo \notin {Resume2, Resume1}
  <1>1. /\ Head(OnlySave) = "save" /\ Head(Comment2) = "github" /\ Head(Resume2) = "clear_result"
        /\ Head(Resume1) = "enqueue_resume" /\ Head(Kill4) = "abort_main"
        /\ Head(Kill3) = "save" /\ Head(Kill2) = "publish" /\ Head(End) = "decrement"
        /\ Head(Answer4) = "abort_timeout" /\ Head(Resume3) = "save"
    BY Todos
  <1>2. <<>> \notin {OnlySave, Comment2, Resume2, Resume1}
    BY Todos
  <1>3. OnlySave # Kill3 /\ OnlySave # Resume3
    BY TodosDiffer
  <1> QED  BY <1>1, <1>2, <1>3

LEMMA ClientsNext ==
    ASSUME TypeOK, ShapeInv, OneBusy, ClientsInv, [CalmNext]_vars
    PROVE  ClientsInv'
  <1>1. act \in [Actors -> Actor] /\ (\A c \in Clients : c \in Actors) /\ Idle.todo = <<>>
    BY ActorsAre DEF TypeOK, Idle
  <1>2. (\A c \in Clients : act'[c] = Idle) => ClientsInv'
    BY <1>1, TodosKeep DEF ClientsInv
  (* One handler runs, and the others rest.                                *)
  <1>3. ASSUME NEW c \in Clients, \A a \in Actors : a # c => Resting(a), NEW x, MovesTo(c, x),
               x.todo \in {OnlySave, Comment2} => x.data = rec' \/ x.data.status = "pausing",
               x.todo \in {Resume2, Resume1} => rec'.status = "running"
        PROVE  ClientsInv'
    <2>1. act'[c] = x
      BY <1>1, <1>3 DEF MovesTo
    <2>2. ASSUME NEW d \in Clients, d # c PROVE act'[d].todo = <<>>
      <3>1. act'[d] = act[d] /\ act[d] = Idle
        BY <1>1, <1>3, <2>2, Distinct DEF MovesTo, Resting, Tasks
      <3> QED  BY <1>1, <3>1
    <2> QED  BY <1>3, <2>1, <2>2, TodosKeep DEF ClientsInv
  <1>4. ASSUME NEW c \in Clients, Calm, Request(c) PROVE ClientsInv'
    <2>1. PICK x : /\ MovesTo(c, x)
                   /\ \/ x.todo \in {Kill4, Answer4, Resume3}
                      \/ x.todo = OnlySave /\ x.data = [rec EXCEPT !.status = "pausing", !.paused = TRUE]
                      \/ x.todo \in {OnlySave, Comment2} /\ x.data = rec
      BY <1>4, RequestShape
    <2>2. UNCHANGED rec /\ rec \in Record
      BY <1>4, RequestShape DEF TypeOK
    <2>3. [rec EXCEPT !.status = "pausing", !.paused = TRUE].status = "pausing"
      BY <2>2 DEF Record
    <2>4. x.todo \notin {Resume2, Resume1}
      BY <2>1, TodosKeep
    <2>5. x.todo \in {OnlySave, Comment2} => x.data = rec' \/ x.data.status = "pausing"
      BY <2>1, <2>2, <2>3, TodosKeep
    <2> QED  BY <1>3, <1>4, <2>1, <2>4, <2>5 DEF Calm, Resting
  <1>5. ASSUME NEW c \in Clients, AwaitStep(c) PROVE ClientsInv'
    <2>1. \A a \in Actors : a # c => Resting(a)
      BY <1>5, AwaitMovesOne DEF OneBusy
    <2>2. ASSUME NEW x, MovesTo(c, x), x.todo \notin {OnlySave, Comment2, Resume2, Resume1}
          PROVE  ClientsInv'
      BY <1>3, <2>1, <2>2
    <2>3. ASSUME NEW todo, todo \in {Kill3, Kill2, End, Resume3},
                 MovesTo(c, Left(c, todo)) \/ MovesTo(c, LeftSaved(c, todo))
          PROVE  ClientsInv'
      <3>1. Left(c, todo).todo = todo /\ LeftSaved(c, todo).todo = todo
        BY <1>1, LeftFields
      <3>2. todo \notin {OnlySave, Comment2, Resume2, Resume1}
        BY <2>3, TodosKeep
      <3> QED  BY <2>2, <2>3, <3>1, <3>2
    <2>4. MovesTo(c, Idle) => ClientsInv'
      BY <1>1, <2>2, TodosKeep
    <2>5. CASE act[c].todo = Resume3 /\ Save(c) /\ MovesTo(c, LeftSaved(c, Resume2))
      <3>1. act[c].data.status = "running"
        BY <1>1, <2>5, StatusOf DEF ShapeInv
      <3>2. rec'.status = "running"
        BY <2>5, <3>1 DEF Save
      <3>3. LeftSaved(c, Resume2).todo = Resume2
        BY <1>1, LeftFields
      <3> QED  BY <1>3, <2>1, <2>5, <3>2, <3>3, TodosKeep
    <2>6. CASE act[c].todo = Resume2 /\ ClearResult(c) /\ MovesTo(c, Left(c, Resume1))
      <3>1. rec'.status = "running"
        BY <2>6 DEF ClientsInv, ClearResult
      <3>2. Left(c, Resume1).todo = Resume1
        BY <1>1, LeftFields
      <3> QED  BY <1>3, <2>1, <2>6, <3>1, <3>2, TodosKeep
    <2>7. CASE act[c].todo = Comment2 /\ CallOut(c) /\ MovesTo(c, Left(c, OnlySave))
      <3>1. act[c].data = rec' \/ act[c].data.status = "pausing"
        BY <2>7 DEF ClientsInv, CallOut
      <3>2. Left(c, OnlySave).todo = OnlySave /\ Left(c, OnlySave).data = act[c].data
        BY <1>1, LeftFields
      <3> QED  BY <1>3, <2>1, <2>7, <3>1, <3>2, TodosKeep
    <2> QED  BY <1>5, <2>3, <2>4, <2>5, <2>6, <2>7, ClientAwaits
  <1>6. CASE (\A c \in Clients : act[c] = Idle) /\ ServerStep
    BY <1>2, <1>6, ServerSparesClients
  <1>7. CASE UNCHANGED vars
    BY <1>7 DEF vars, ClientsInv
  <1> QED  BY <1>4, <1>5, <1>6, <1>7 DEF CalmNext

-----------------------------------------------------------------------------
(* One task at a time, concluded.                                          *)

(* A step of someone else leaves the tasks where they are.                 *)
LEMMA DriveBeside ==
    ASSUME DriveInv, UNCHANGED checkpoint, \A t \in Tasks : act'[t] = act[t],
           arq'["main"].msg = arq["main"].msg,
           \/ rec'.status = rec.status /\ rec'.report = rec.report
           \/ rec'.status \notin {"waiting", "done"}
    PROVE  DriveInv'
  <1>1. \A t \in Tasks : Busy(t)' => Busy(t)
    BY DEF Busy, Works, Saves
  <1>2. \A t \in Tasks : InSync(act'[t], checkpoint')
    BY DEF DriveInv
  <1> QED  BY <1>1, <1>2, DriveMove, DriveSave

LEMMA DriveClient ==
    ASSUME TypeOK, ShapeInv, OneBusy, ClientsInv, DriveInv, NEW c \in Clients, AwaitStep(c)
    PROVE  DriveInv'
  <1>1. /\ c \in Actors /\ c \notin Tasks /\ act \in [Actors -> Actor]
        /\ arq \in [Tasks -> ArqKeys] /\ Tasks = {"main", "timeout"}
        /\ \A t \in Tasks : t \in Actors
    BY ActorsAre, Distinct DEF TypeOK, Tasks
  <1>2. \A t \in Tasks : act'[t] = act[t]
    BY <1>1, AwaitMovesOne DEF MovesTo
  <1>3. UNCHANGED checkpoint
    BY DEF AwaitStep, Save, Decrement, AbortTask, ClearResult, EnqueueResume, EnqueueTimeout,
           CallOut, GitHubFails
  <1>4. CASE CallOut(c) \/ Decrement(c) \/ GitHubFails(c)
    BY <1>2, <1>3, <1>4, DriveBeside DEF CallOut, Decrement, GitHubFails
  <1>5. CASE AbortTask(c) \/ ClearResult(c)
    <2>1. arq'["main"].msg = arq["main"].msg /\ UNCHANGED rec
      BY <1>1, <1>5 DEF AbortTask, ClearResult, ArqKeys
    <2> QED  BY <1>2, <1>3, <2>1, DriveBeside
  <1>6. CASE Save(c) /\ act[c].todo \in {Kill3, Resume3, OnlySave}
    <2>1. UNCHANGED arq /\ rec' = act[c].data
      BY <1>6 DEF Save
    <2>2. CASE act[c].todo = OnlySave
      <3>1. rec' = rec \/ rec'.status = "pausing"
        BY <2>1, <2>2 DEF ClientsInv
      <3> QED  BY <1>2, <1>3, <2>1, <3>1, DriveBeside
    <2>3. CASE act[c].todo \in {Kill3, Resume3}
      <3>1. act[c].data.status \in {"killed", "running"}
        BY <2>3, StatusOf DEF ShapeInv
      <3> QED  BY <1>2, <1>3, <2>1, <3>1, DriveBeside
    <2> QED  BY <1>6, <2>2, <2>3
  (* A handler puts the job back to work after it has saved "running".     *)
  <1>7. CASE EnqueueResume(c) /\ act[c].todo = Resume1
    <2>1. UNCHANGED rec /\ rec.status = "running"
      BY <1>7 DEF EnqueueResume, ClientsInv
    <2>2. act["timeout"] = Idle
      BY <1>1, AwaitMovesOne DEF OneBusy, Resting
    <2>3. ~Busy("timeout")'
      BY <1>1, <1>2, <2>2, IdleRests DEF Busy, Works, Saves
    <2>4. \A t \in Tasks : InSync(act[t], checkpoint)'
      BY <1>2, <1>3 DEF DriveInv, InSync, Saves
    <2> QED  BY <2>1, <2>3, <2>4 DEF DriveInv
  <1> QED  BY <1>4, <1>5, <1>6, <1>7, ClientAwaits

(* Faults are not taken back.                                              *)
LEMMA FaultsStay == TypeOK /\ ShapeInv /\ [Next]_vars => (faults' = 0 => faults = 0)
  <1> SUFFICES ASSUME TypeOK, ShapeInv, [Next]_vars, faults' = 0 PROVE faults = 0
    OBVIOUS
  <1>1. ASSUME NEW a, AwaitStep(a) PROVE UNCHANGED faults
    BY <1>1 DEF AwaitStep, Save, Decrement, AbortTask, ClearResult, EnqueueResume,
                EnqueueTimeout, CallOut, GitHubFails
  <1>2. ASSUME NEW t \in Tasks, TaskStep(t) PROVE UNCHANGED faults
    BY <1>2, TaskMoves
  <1>3. ASSUME NEW c \in Clients, Request(c) PROVE UNCHANGED faults
    BY <1>3, RequestShape
  <1>4. CASE WorkerCrash \/ \E t \in Tasks : TaskTimesOut(t)
    BY <1>4 DEF WorkerCrash, TaskTimesOut, TypeOK
  <1> QED
    BY <1>1, <1>2, <1>3, <1>4 DEF Next, ServerStep, Clean, TimerDue, WaitAges, vars

LEMMA DriveNext ==
    ASSUME TypeOK, ShapeInv, OneBusy, TimerMsg, ClientsInv, faults = 0 => DriveInv, [CalmNext]_vars
    PROVE  (faults = 0 => DriveInv)'
  <1> SUFFICES ASSUME faults' = 0 PROVE DriveInv'
    OBVIOUS
  <1>1. CASE WorkerCrash \/ \E t \in Tasks : TaskTimesOut(t)
    BY <1>1 DEF WorkerCrash, TaskTimesOut, TypeOK
  <1>2. CASE ~(WorkerCrash \/ \E t \in Tasks : TaskTimesOut(t))
    <2>1. faults = 0
      BY FaultsStay DEF CalmNext, Next
    <2>2. DriveInv
      BY <2>1
    <2>3. ASSUME NEW c \in Clients, Request(c) PROVE DriveInv'
      <3>1. UNCHANGED <<rec, arq, checkpoint>> /\ \E x : MovesTo(c, x)
        BY <2>3, RequestShape
      <3>2. \A t \in Tasks : act'[t] = act[t]
        BY <3>1, ActorsAre, Distinct DEF MovesTo, TypeOK
      <3> QED  BY <2>2, <3>1, <3>2, DriveBeside
    <2>4. ASSUME NEW c \in Clients, AwaitStep(c) PROVE DriveInv'
      BY <2>2, <2>4, DriveClient
    <2>5. ASSUME NEW t \in Tasks, TaskStep(t) \/ AwaitStep(t) PROVE DriveInv'
      BY <2>2, <2>5, DriveTask, DriveAwait
    <2>6. CASE Clean \/ AwaitStep("cleaner")
      <3>1. UNCHANGED <<checkpoint, arq>>
        BY <2>6, CleanShape, CleanerAwaits DEF Save, Decrement
      <3>2. \A t \in Tasks : act'[t] = act[t]
        BY <2>6, CleanShape, CleanerAwaits, ActorsAre, Distinct DEF MovesTo, TypeOK
      <3>3. rec' = rec \/ rec'.status = "timed_out"
        <4>1. CASE Clean
          BY <4>1, CleanShape
        <4>2. CASE act["cleaner"].todo = SaveEnd /\ Save("cleaner")
          <5>1. act["cleaner"].data.status = "timed_out"
            BY <4>2, StatusOf DEF ShapeInv
          <5> QED  BY <4>2, <5>1 DEF Save
        <4>3. CASE Decrement("cleaner")
          BY <4>3 DEF Decrement
        <4> QED  BY <2>6, <4>1, <4>2, <4>3, CleanerAwaits
      <3> QED  BY <2>2, <3>1, <3>2, <3>3, DriveBeside
    <2>7. CASE TimerDue \/ WaitAges
      <3>1. UNCHANGED <<checkpoint, act>> /\ rec'.status = rec.status /\ rec'.report = rec.report
        BY <2>7 DEF TimerDue, WaitAges, TypeOK, Record
      <3>2. arq'["main"].msg = arq["main"].msg
        BY <2>7 DEF TimerDue, WaitAges, TypeOK, ArqKeys, Tasks
      <3> QED  BY <2>2, <3>1, <3>2, DriveBeside
    <2>8. CASE UNCHANGED vars
      BY <2>2, <2>8, DriveBeside DEF vars
    <2> QED
      BY <1>2, <2>3, <2>4, <2>5, <2>6, <2>7, <2>8 DEF CalmNext, ServerStep
  <1> QED  BY <1>1, <1>2

LEMMA DriveInit == Init => TimerMsg /\ ClientsInv /\ DriveInv
  <1> SUFFICES ASSUME Init PROVE TimerMsg /\ ClientsInv /\ DriveInv
    OBVIOUS
  <1>1. Idle.todo = <<>> /\ rec.status = "queued" /\ \A a \in Actors : act[a] = Idle
    BY DEF Init, Idle, NewRecord
  <1>2. TimerMsg
    BY DEF Init, TimerMsg, Tasks, NoMessage
  <1>3. ClientsInv
    BY <1>1, ActorsAre, TodosKeep DEF ClientsInv
  <1>4. ~Busy("timeout") /\ \A t \in Tasks : InSync(act[t], checkpoint)
    BY <1>1, ActorsAre, IdleRests DEF Busy, Tasks
  <1> QED  BY <1>1, <1>2, <1>3, <1>4 DEF DriveInv

LEMMA CalmDrives == CalmSpec => [](faults = 0 => DriveInv)
  <1>1. Init => TimerMsg /\ ClientsInv /\ (faults = 0 => DriveInv)
    BY DriveInit
  <1>2. TypeOK /\ ShapeInv /\ OneBusy /\ TimerMsg /\ ClientsInv /\ (faults = 0 => DriveInv)
        /\ [CalmNext]_vars => TimerMsg' /\ ClientsInv' /\ (faults = 0 => DriveInv)'
    BY TimerMsgNext, ClientsNext, DriveNext DEF CalmNext, Next
  <1> QED  BY <1>1, <1>2, CalmBasics, PTL DEF CalmSpec

(* In a calm environment, while no task is lost, resume_graph and the      *)
(* timer's task are never both inside the graph.  This is what FilesTokens *)
(* of EventStreamProofs supposes (its streaming are the tasks here).       *)
OneInGraph == \A t, u \in {v \in Tasks : act[v].pc = "graph"} : t = u

THEOREM GraphAlone == CalmSpec => [](faults = 0 => OneInGraph)
  <1>1. ShapeInv /\ DriveInv => OneInGraph
    <2> SUFFICES ASSUME ShapeInv, DriveInv, NEW t \in Tasks, NEW u \in Tasks,
                        act[t].pc = "graph", act[u].pc = "graph"
                 PROVE  t = u
      BY DEF OneInGraph
    <2>1. Busy(t) /\ Busy(u)
      BY WorksIsBusy DEF Works
    <2> QED  BY <2>1 DEF DriveInv, Tasks
  <1> QED  BY <1>1, CalmBasics, CalmDrives, PTL

(* In a calm environment, while no task is lost, a done job carries the    *)
(* report of a thread that ran to its end: _stream_and_finalize takes the  *)
(* branch after check_for_interrupt on no thread another task drives.      *)
THEOREM DoneIsFinished == CalmSpec => [](faults = 0 => DoneHasReport)
  <1>1. DriveInv => DoneHasReport
    BY DEF DriveInv, DoneHasReport
  <1> QED  BY <1>1, CalmDrives, PTL

-----------------------------------------------------------------------------
(* A question takes one answer.  Every answer went to a question that was  *)
(* put, and the one being asked now has none yet.                          *)

HeardInv ==
    /\ OneAnswerPerQuestion
    /\ \A h \in heard : h.to <= asked
    /\ checkpoint.question <= asked
    /\ checkpoint.thread = "asking" => \A h \in heard : h.to # checkpoint.question
    /\ checkpoint.thread # "asking" => checkpoint.question = 0

(* Only a task's stream moves the thread.                                  *)
LEMMA WhoDrives ==
    ASSUME TypeOK, ShapeInv, [Next]_vars, \A t \in Tasks : ~Drives(t)
    PROVE  UNCHANGED <<checkpoint, asked, heard>>
  <1>1. ASSUME NEW a, AwaitStep(a) PROVE UNCHANGED <<checkpoint, asked, heard>>
    BY <1>1 DEF AwaitStep, Save, Decrement, AbortTask, ClearResult, EnqueueResume,
                EnqueueTimeout, CallOut, GitHubFails
  <1>2. ASSUME NEW c \in Clients, Request(c) PROVE UNCHANGED <<checkpoint, asked, heard>>
    BY <1>2, RequestShape
  <1>3. ASSUME NEW t \in Tasks, TaskStep(t) PROVE UNCHANGED <<checkpoint, asked, heard>>
    BY <1>3 DEF TaskStep, Drives, TaskStart, RunTriage, ResumeGraph, ExpireLoad, ExpirePeek,
                GraphFails, FinalizeLoad, FinalizeCheck, FinalizeDone, HandleError, TaskFinish,
                TaskCancelled
  <1> QED
    BY <1>1, <1>2, <1>3
    DEF Next, ServerStep, TaskTimesOut, Clean, TimerDue, WaitAges, WorkerCrash, vars

(* The thread moves without an answer.                                     *)
LEMMA HeardMove ==
    ASSUME TypeOK, HeardInv, UNCHANGED heard, asked' \in {asked, asked + 1},
           \/ checkpoint' = checkpoint
           \/ checkpoint'.thread # "asking" /\ checkpoint'.question = 0
           \/ checkpoint'.thread = "asking" /\ checkpoint'.question = asked' /\ asked' = asked + 1
    PROVE  HeardInv'
  <1>1. asked \in Nat /\ checkpoint \in Checkpoint /\ \A h \in heard : h.to \in Nat
    BY DEF TypeOK
  <1>2. checkpoint.question \in Nat
    BY <1>1 DEF Checkpoint
  <1>3. OneAnswerPerQuestion' /\ \A h \in heard : h.to <= asked' /\ h.to # asked + 1
    BY <1>1 DEF HeardInv, OneAnswerPerQuestion
  <1>4. CASE checkpoint' = checkpoint
    BY <1>1, <1>2, <1>3, <1>4 DEF HeardInv
  <1>5. CASE checkpoint'.thread # "asking" /\ checkpoint'.question = 0
    BY <1>1, <1>3, <1>5 DEF HeardInv
  <1>6. CASE checkpoint'.thread = "asking" /\ checkpoint'.question = asked' /\ asked' = asked + 1
    BY <1>1, <1>3, <1>6 DEF HeardInv
  <1> QED  BY <1>4, <1>5, <1>6

LEMMA HeardNext ==
    ASSUME TypeOK, ShapeInv, DriveInv, HeardInv, [Next]_vars
    PROVE  HeardInv'
  <1>1. CASE \A t \in Tasks : ~Drives(t)
    BY <1>1, WhoDrives, HeardMove
  <1>2. ASSUME NEW t \in Tasks, Drives(t) PROVE HeardInv'
    <2>1. checkpoint \in Checkpoint /\ asked \in Nat /\ \A h \in heard : h.to \in Nat
      BY DEF TypeOK
    <2>2. act[t].pc = "graph" => act[t].loop = checkpoint
      BY DEF DriveInv, InSync
    <2>3. checkpoint.thread # "asking" => checkpoint.question = 0
      BY DEF HeardInv
    <2>4. CASE StreamBegin(t)
      <3>1. PICK loop : /\ loop = [NoThread EXCEPT !.thread = "working"]
                        /\ checkpoint' \in {loop, checkpoint}
        BY <2>4 DEF StreamBegin
      <3>2. loop.thread = "working" /\ loop.question = 0
        BY <3>1 DEF NoThread
      <3> QED  BY <2>4, <3>1, <3>2, HeardMove DEF StreamBegin
    <2>5. CASE GraphCalls(t)
      <3>1. PICK loop : loop = [checkpoint EXCEPT !.thread = "calling"] /\ checkpoint' = loop
        BY <2>2, <2>5 DEF GraphCalls, Advance, At
      <3>2. checkpoint.thread = "working"
        BY <2>2, <2>5 DEF GraphCalls, At
      <3>3. loop.thread = "calling" /\ loop.question = 0
        BY <2>1, <2>3, <3>1, <3>2 DEF Checkpoint
      <3> QED  BY <2>5, <3>1, <3>3, HeardMove DEF GraphCalls
    <2>6. CASE GraphAsks(t)
      <3>1. PICK loop : /\ loop = [checkpoint EXCEPT !.thread = "asking", !.question = asked']
                        /\ checkpoint' = loop
        BY <2>2, <2>6 DEF GraphAsks, Advance, At
      <3>2. loop.thread = "asking" /\ loop.question = asked'
        BY <2>1, <3>1 DEF Checkpoint
      <3> QED  BY <2>6, <3>1, <3>2, HeardMove DEF GraphAsks
    <2>7. CASE GraphAnswered(t)
      <3>1. PICK loop : /\ loop = [thread |-> "working", answered |-> checkpoint.answered + 1,
                                   question |-> 0]
                        /\ checkpoint' = loop
        BY <2>2, <2>7 DEF GraphAnswered, Advance, At
      <3>2. PICK h : h = [value |-> act[t].value, to |-> checkpoint.question]
        OBVIOUS
      <3>3. heard' = heard \cup {h} /\ UNCHANGED asked
        BY <2>2, <2>7, <3>2 DEF GraphAnswered, At
      <3>4. h.to = checkpoint.question /\ h.to <= asked
        BY <3>2 DEF HeardInv
      <3>5. h.to = 0 \/ \A k \in heard : k.to # h.to
        BY <2>3, <3>4 DEF HeardInv
      <3>6. OneAnswerPerQuestion'
        BY <3>3, <3>5 DEF HeardInv, OneAnswerPerQuestion
      <3>7. \A k \in heard' : k.to <= asked'
        BY <3>3, <3>4 DEF HeardInv
      <3>8. checkpoint'.thread = "working" /\ checkpoint'.question = 0
        BY <3>1
      <3> QED  BY <2>1, <3>3, <3>6, <3>7, <3>8 DEF HeardInv
    <2>8. CASE GraphValueDropped(t)
      BY <2>2, <2>8, HeardMove DEF GraphValueDropped, Advance, At
    <2>9. CASE GraphFinishes(t)
      <3>1. PICK loop : loop = [checkpoint EXCEPT !.thread = "finished"] /\ checkpoint' = loop
        BY <2>2, <2>9 DEF GraphFinishes, Advance, At
      <3>2. checkpoint.thread = "working"
        BY <2>2, <2>9 DEF GraphFinishes, At
      <3>3. loop.thread = "finished" /\ loop.question = 0
        BY <2>1, <2>3, <3>1, <3>2 DEF Checkpoint
      <3> QED  BY <2>9, <3>1, <3>3, HeardMove DEF GraphFinishes
    <2> QED  BY <1>2, <2>4, <2>5, <2>6, <2>7, <2>8, <2>9 DEF Drives
  <1> QED  BY <1>1, <1>2

LEMMA HeardInit == Init => HeardInv
  BY DEF Init, HeardInv, OneAnswerPerQuestion, NoThread

(* In a calm environment, while no task is lost, the human's answer, the   *)
(* timer's and an unpause never both reach a question that was put: the    *)
(* timer begins only on a record that says waiting, and then nothing else  *)
(* drives the thread.                                                      *)
THEOREM QuestionTakesOne == CalmSpec => [](faults = 0 => OneAnswerPerQuestion)
  <1>1. Init => (faults = 0 => HeardInv)
    BY HeardInit
  <1>2. TypeOK /\ ShapeInv /\ (faults = 0 => DriveInv) /\ (faults = 0 => HeardInv) /\ [CalmNext]_vars
        => (faults = 0 => HeardInv)'
    BY HeardNext, FaultsStay DEF CalmNext, Next
  <1>3. HeardInv => OneAnswerPerQuestion
    BY DEF HeardInv
  <1> QED  BY <1>1, <1>2, <1>3, CalmBasics, CalmDrives, PTL DEF CalmSpec

-----------------------------------------------------------------------------
(* The tasks use the thread as GraphThread says.                           *)

LEMMA ThreadNext ==
    ASSUME IInv, ShapeInv, DriveInv, [Next]_vars
    PROVE  [Thread!Next]_(Thread!threadVars)
  <1>1. TypeOK /\ checkpoint \in Checkpoint
    BY DEF IInv, TypeOK
  <1>2. UNCHANGED checkpoint => UNCHANGED Thread!threadVars
    BY DEF Thread!threadVars
  <1>3. CASE \A t \in Tasks : ~Drives(t)
    BY <1>1, <1>2, <1>3, WhoDrives
  <1>4. ASSUME NEW t \in Tasks, Drives(t) PROVE [Thread!Next]_(Thread!threadVars)
    <2>1. act[t].pc = "graph" => act[t].loop = checkpoint
      BY DEF DriveInv, InSync
    <2>2. checkpoint.thread \in {"calling", "asking"} => checkpoint.answered < MaxExchanges
      BY DEF IInv, GoodThread
    <2>3. CASE StreamBegin(t)
      <3>1. PICK loop : /\ loop = [NoThread EXCEPT !.thread = "working"]
                        /\ checkpoint' \in {loop, checkpoint}
        BY <2>3 DEF StreamBegin
      <3>2. loop.thread = "working" /\ loop.answered = 0
        BY <3>1 DEF NoThread
      <3>3. checkpoint' = loop => Thread!Begin
        BY <3>2 DEF Thread!Begin
      <3> QED  BY <1>2, <3>1, <3>3 DEF Thread!Next
    <2>4. CASE GraphCalls(t)
      <3>1. PICK loop : loop = [checkpoint EXCEPT !.thread = "calling"] /\ checkpoint' = loop
        BY <2>1, <2>4 DEF GraphCalls, Advance, At
      <3>2. checkpoint.thread = "working"
        BY <2>1, <2>4 DEF GraphCalls, At
      <3>3. loop.thread = "calling" /\ loop.answered = checkpoint.answered
        BY <1>1, <3>1 DEF Checkpoint
      <3> QED  BY <3>1, <3>2, <3>3 DEF Thread!threadVars
    <2>5. CASE GraphAsks(t)
      <3>1. PICK loop : /\ loop = [checkpoint EXCEPT !.thread = "asking", !.question = asked']
                        /\ checkpoint' = loop
        BY <2>1, <2>5 DEF GraphAsks, Advance, At
      <3>2. checkpoint.thread = "calling"
        BY <2>1, <2>5 DEF GraphAsks, At
      <3>3. loop.thread = "asking" /\ loop.answered = checkpoint.answered
        BY <1>1, <3>1 DEF Checkpoint
      <3>4. Thread!Ask
        BY <2>2, <3>1, <3>2, <3>3 DEF Thread!Ask
      <3> QED  BY <3>4 DEF Thread!Next
    <2>6. CASE GraphAnswered(t)
      <3>1. PICK loop : /\ loop = [thread |-> "working", answered |-> checkpoint.answered + 1,
                                   question |-> 0]
                        /\ checkpoint' = loop
        BY <2>1, <2>6 DEF GraphAnswered, Advance, At
      <3>2. checkpoint.thread \in {"calling", "asking"}
        BY <2>1, <2>6 DEF GraphAnswered, At
      <3>3. loop.thread = "working" /\ loop.answered = checkpoint.answered + 1
        BY <3>1
      <3>4. Thread!Answer
        BY <2>2, <3>1, <3>2, <3>3 DEF Thread!Answer
      <3> QED  BY <3>4 DEF Thread!Next
    <2>7. CASE GraphValueDropped(t)
      BY <1>2, <2>1, <2>7 DEF GraphValueDropped, Advance, At
    <2>8. CASE GraphFinishes(t)
      <3>1. PICK loop : loop = [checkpoint EXCEPT !.thread = "finished"] /\ checkpoint' = loop
        BY <2>1, <2>8 DEF GraphFinishes, Advance, At
      <3>2. checkpoint.thread = "working"
        BY <2>1, <2>8 DEF GraphFinishes, At
      <3>3. loop.thread = "finished" /\ loop.answered = checkpoint.answered
        BY <1>1, <3>1 DEF Checkpoint
      <3>4. Thread!Finish
        BY <3>1, <3>2, <3>3 DEF Thread!Finish
      <3> QED  BY <3>4 DEF Thread!Next
    <2> QED  BY <1>4, <2>3, <2>4, <2>5, <2>6, <2>7, <2>8 DEF Drives
  <1> QED  BY <1>3, <1>4

(* In a calm environment, while no task is lost, the job's tasks drive its *)
(* graph thread as GraphThread says: a question is put within the limit,   *)
(* each value answers one, and a thread that finished moves only when      *)
(* run_triage starts it afresh.                                            *)
THEOREM ImplementsThread == CalmSpec /\ [](faults = 0) => ThreadSpec
  <1>1. Init => Thread!Init
    BY DEF Init, NoThread, Thread!Init
  <1>2. IInv /\ ShapeInv /\ (faults = 0 => DriveInv) /\ faults = 0 /\ [CalmNext]_vars
        => [Thread!Next]_(Thread!threadVars)
    BY ThreadNext DEF CalmNext, Next
  <1>3. CalmSpec => []IInv
    BY CalmIsSpec, InvariantHolds
  <1> QED  BY <1>1, <1>2, <1>3, CalmBasics, CalmDrives, PTL DEF CalmSpec, ThreadSpec, Thread!Spec

=============================================================================
