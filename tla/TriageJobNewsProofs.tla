------------------------- MODULE TriageJobNewsProofs -------------------------
(***************************************************************************)
(* TriageJob implements JobNews, for any number of clients, any requests   *)
(* and any bounds.                                                         *)
(*                                                                         *)
(* What an actor has still to do tells what it is about to say: ShapeInv   *)
(* lists the todo lists there are and the statuses that go with them.      *)
(***************************************************************************)
EXTENDS TriageJobProofs

(* The todo lists of the tasks, the requests and the cleaner, each with    *)
(* what is left of it later.                                               *)
SayWait == <<"publish", "save", "enqueue_timeout">>
SaveWait == <<"save", "enqueue_timeout">>
EndWait == <<"enqueue_timeout">>
SayEnd == <<"publish", "save", "decrement">>
SaveEnd == <<"save", "decrement">>
End == <<"decrement">>
OnlySave == <<"save">>
Kill4 == <<"abort_main", "save", "publish", "decrement">>
Kill3 == <<"save", "publish", "decrement">>
Kill2 == <<"publish", "decrement">>
Answer4 == <<"abort_timeout", "save", "clear_result", "enqueue_resume">>
Resume3 == <<"save", "clear_result", "enqueue_resume">>
Resume2 == <<"clear_result", "enqueue_resume">>
Resume1 == <<"enqueue_resume">>
Comment2 == <<"github", "save">>

LEMMA Todos ==
    /\ SayWait # <<>> /\ Head(SayWait) = "publish" /\ Tail(SayWait) = SaveWait
    /\ SaveWait # <<>> /\ Head(SaveWait) = "save" /\ Tail(SaveWait) = EndWait
    /\ EndWait # <<>> /\ Head(EndWait) = "enqueue_timeout" /\ Tail(EndWait) = <<>>
    /\ SayEnd # <<>> /\ Head(SayEnd) = "publish" /\ Tail(SayEnd) = SaveEnd
    /\ SaveEnd # <<>> /\ Head(SaveEnd) = "save" /\ Tail(SaveEnd) = End
    /\ End # <<>> /\ Head(End) = "decrement" /\ Tail(End) = <<>>
    /\ OnlySave # <<>> /\ Head(OnlySave) = "save" /\ Tail(OnlySave) = <<>>
    /\ Kill4 # <<>> /\ Head(Kill4) = "abort_main" /\ Tail(Kill4) = Kill3
    /\ Kill3 # <<>> /\ Head(Kill3) = "save" /\ Tail(Kill3) = Kill2
    /\ Kill2 # <<>> /\ Head(Kill2) = "publish" /\ Tail(Kill2) = End
    /\ Answer4 # <<>> /\ Head(Answer4) = "abort_timeout" /\ Tail(Answer4) = Resume3
    /\ Resume3 # <<>> /\ Head(Resume3) = "save" /\ Tail(Resume3) = Resume2
    /\ Resume2 # <<>> /\ Head(Resume2) = "clear_result" /\ Tail(Resume2) = Resume1
    /\ Resume1 # <<>> /\ Head(Resume1) = "enqueue_resume" /\ Tail(Resume1) = <<>>
    /\ Comment2 # <<>> /\ Head(Comment2) = "github" /\ Tail(Comment2) = OnlySave
  <1>1. SayWait # <<>> /\ Head(SayWait) = "publish" /\ Tail(SayWait) = SaveWait
    BY DEF SaveWait, SayWait
  <1>2. SaveWait # <<>> /\ Head(SaveWait) = "save" /\ Tail(SaveWait) = EndWait
    BY DEF EndWait, SaveWait
  <1>3. EndWait # <<>> /\ Head(EndWait) = "enqueue_timeout" /\ Tail(EndWait) = <<>>
    BY DEF EndWait
  <1>4. SayEnd # <<>> /\ Head(SayEnd) = "publish" /\ Tail(SayEnd) = SaveEnd
    BY DEF SaveEnd, SayEnd
  <1>5. SaveEnd # <<>> /\ Head(SaveEnd) = "save" /\ Tail(SaveEnd) = End
    BY DEF End, SaveEnd
  <1>6. End # <<>> /\ Head(End) = "decrement" /\ Tail(End) = <<>>
    BY DEF End
  <1>7. OnlySave # <<>> /\ Head(OnlySave) = "save" /\ Tail(OnlySave) = <<>>
    BY DEF OnlySave
  <1>8. Kill4 # <<>> /\ Head(Kill4) = "abort_main" /\ Tail(Kill4) = Kill3
    BY DEF Kill3, Kill4
  <1>9. Kill3 # <<>> /\ Head(Kill3) = "save" /\ Tail(Kill3) = Kill2
    BY DEF Kill2, Kill3
  <1>10. Kill2 # <<>> /\ Head(Kill2) = "publish" /\ Tail(Kill2) = End
    BY DEF End, Kill2
  <1>11. Answer4 # <<>> /\ Head(Answer4) = "abort_timeout" /\ Tail(Answer4) = Resume3
    BY DEF Answer4, Resume3
  <1>12. Resume3 # <<>> /\ Head(Resume3) = "save" /\ Tail(Resume3) = Resume2
    BY DEF Resume2, Resume3
  <1>13. Resume2 # <<>> /\ Head(Resume2) = "clear_result" /\ Tail(Resume2) = Resume1
    BY DEF Resume1, Resume2
  <1>14. Resume1 # <<>> /\ Head(Resume1) = "enqueue_resume" /\ Tail(Resume1) = <<>>
    BY DEF Resume1
  <1>15. Comment2 # <<>> /\ Head(Comment2) = "github" /\ Tail(Comment2) = OnlySave
    BY DEF Comment2, OnlySave
  <1> QED  BY <1>1, <1>2, <1>3, <1>4, <1>5, <1>6, <1>7, <1>8,
              <1>9, <1>10, <1>11, <1>12, <1>13, <1>14, <1>15

(* No list is another one.                                                 *)
LEMMA TodosDiffer ==
    /\ OnlySave \notin {SayWait, SaveWait, EndWait, SayEnd, SaveEnd, End, Kill4, Kill3, Kill2,
                       Answer4, Resume3, Resume2, Resume1, Comment2}
    /\ SayWait # SayEnd /\ SaveWait # SaveEnd
    /\ SayEnd \notin {Kill4, Kill3, Kill2}
    /\ Kill4 # Kill3 /\ Kill2 # Kill3
    /\ SaveEnd \notin {Kill3, Resume3} /\ Kill3 # Resume3
  <1>1. /\ Len(OnlySave) = 1 /\ Len(SayWait) = 3 /\ Len(SaveWait) = 2 /\ Len(EndWait) = 1
        /\ Len(SayEnd) = 3 /\ Len(SaveEnd) = 2 /\ Len(End) = 1 /\ Len(Kill4) = 4 /\ Len(Kill3) = 3
        /\ Len(Kill2) = 2 /\ Len(Answer4) = 4 /\ Len(Resume3) = 3 /\ Len(Resume2) = 2
        /\ Len(Resume1) = 1 /\ Len(Comment2) = 2
    BY DEF OnlySave, SayWait, SaveWait, EndWait, SayEnd, SaveEnd, End, Kill4, Kill3, Kill2,
           Answer4, Resume3, Resume2, Resume1, Comment2
  <1>2. Tail(Tail(SayWait)) # Tail(Tail(SayEnd)) /\ Tail(SaveWait) # Tail(SaveEnd)
    BY Todos
  <1>3. Tail(SaveEnd) = End /\ Tail(Kill3) = Kill2 /\ Tail(Resume3) = Resume2 /\ Kill2 # Resume2
    BY Todos
  <1> QED  BY <1>1, <1>2, <1>3, Todos

Publishes(todo) == \E i \in DOMAIN todo : todo[i] = "publish"

LEMMA WhoPublishes ==
    /\ Publishes(Kill4) /\ Publishes(Kill3) /\ Publishes(Kill2)
    /\ ~Publishes(<<>>) /\ ~Publishes(End) /\ ~Publishes(OnlySave) /\ ~Publishes(Answer4)
    /\ ~Publishes(Resume3) /\ ~Publishes(Resume2) /\ ~Publishes(Resume1) /\ ~Publishes(Comment2)
  <1>1. Publishes(Kill4)
    BY DEF Publishes, Kill4
  <1>2. Publishes(Kill3)
    BY DEF Publishes, Kill3
  <1>3. Publishes(Kill2)
    BY DEF Publishes, Kill2
  <1>4. ~Publishes(<<>>)
    BY DEF Publishes
  <1>5. ~Publishes(End)
    BY DEF Publishes, End
  <1>6. ~Publishes(OnlySave)
    BY DEF Publishes, OnlySave
  <1>7. ~Publishes(Answer4)
    BY DEF Publishes, Answer4
  <1>8. ~Publishes(Resume3)
    BY DEF Publishes, Resume3
  <1>9. ~Publishes(Resume2)
    BY DEF Publishes, Resume2
  <1>10. ~Publishes(Resume1)
    BY DEF Publishes, Resume1
  <1>11. ~Publishes(Comment2)
    BY DEF Publishes, Comment2
  <1> QED  BY <1>1, <1>2, <1>3, <1>4, <1>5, <1>6, <1>7, <1>8, <1>9, <1>10, <1>11

(* Requests that may write back an old copy of the record.                 *)
Restores == Requests \cap {"redirect", "comment"} # {}

TaskShape(x) ==
    \/ x.todo = <<>>
    \/ x.todo = OnlySave /\ \/ x.pc = "stream" /\ x.data.status = "running"
                            \/ x.pc = "finish" /\ x.data.status = "paused"
    \/ x.pc = "finish" /\ x.todo \in {SayWait, SaveWait} /\ x.data.status = "waiting"
    \/ x.pc = "finish" /\ x.todo \in {SayEnd, SaveEnd} /\ x.data.status \in {"done", "failed"}
    \/ x.pc = "finish" /\ x.todo \in {EndWait, End}

ClientShape(x) ==
    \/ x = Idle
    \/ /\ x.pc = "idle"
       /\ \/ x.todo \in {Kill4, Kill3} /\ x.data.status = "killed"
          \/ x.todo \in {Kill2, End}
          \/ x.todo \in {Answer4, Resume3} /\ x.data.status = "running"
          \/ x.todo \in {Resume2, Resume1}
          \/ x.todo = OnlySave /\ (x.data.status = "pausing" \/ Restores)
          \/ x.todo = Comment2 /\ Restores

CleanerShape(x) ==
    \/ x = Idle
    \/ x.pc = "idle" /\ x.todo = SaveEnd /\ x.data.status = "timed_out"
    \/ x.pc = "idle" /\ x.todo = End

(* A task that arq runs is somewhere in its coroutine.                     *)
RunsInv(t) ==
    /\ arq[t].running <=> act[t].pc # "idle"
    /\ act[t].pc = "idle" => act[t] = Idle
    /\ arq[t].running => arq[t].msg # NoMessage

ShapeInv ==
    /\ \A t \in Tasks : TaskShape(act[t]) /\ RunsInv(t)
    /\ \A c \in Clients : ClientShape(act[c])
    /\ CleanerShape(act["cleaner"])

(* The list tells the status of the copy.                                  *)
LEMMA StatusOf ==
    /\ \A x : TaskShape(x) =>
          /\ x.todo = OnlySave => /\ x.pc \in {"stream", "finish"}
                                  /\ x.data.status \in {"running", "paused"}
          /\ x.todo \in {SayWait, SaveWait} => x.pc = "finish" /\ x.data.status = "waiting"
          /\ x.todo \in {SayEnd, SaveEnd} => x.pc = "finish" /\ x.data.status \in {"done", "failed"}
          /\ x.todo \in {EndWait, End} => x.pc = "finish"
    /\ \A x : ClientShape(x) =>
          /\ x.todo \in {Kill4, Kill3} => x.data.status = "killed"
          /\ x.todo \in {Answer4, Resume3} => x.data.status = "running"
          /\ x.todo = OnlySave => x.data.status = "pausing" \/ Restores
    /\ \A x : CleanerShape(x) => (x.todo = SaveEnd => x.data.status = "timed_out")
  <1>1. /\ Head(OnlySave) = "save" /\ Head(SayWait) = "publish" /\ Head(SaveWait) = "save"
        /\ Head(EndWait) = "enqueue_timeout" /\ Head(SayEnd) = "publish"
        /\ Head(SaveEnd) = "save" /\ Head(End) = "decrement" /\ Head(Kill4) = "abort_main"
        /\ Head(Kill3) = "save" /\ Head(Kill2) = "publish" /\ Head(Answer4) = "abort_timeout"
        /\ Head(Resume3) = "save" /\ Head(Resume2) = "clear_result"
        /\ Head(Resume1) = "enqueue_resume" /\ Head(Comment2) = "github"
    BY Todos
  <1>2. /\ <<>> \notin {OnlySave, SayWait, SaveWait, EndWait, SayEnd, SaveEnd, End}
        /\ <<>> \notin {Kill4, Kill3, Answer4, Resume3} /\ Idle.todo = <<>>
    BY Todos DEF Idle
  <1>3. SayWait # SayEnd /\ SaveWait # SaveEnd /\ Kill3 # Resume3
    BY TodosDiffer
  <1>4. OnlySave \notin {SayWait, SaveWait, EndWait, SayEnd, SaveEnd, End, Kill4, Kill3, Kill2,
                       Answer4, Resume3, Resume2, Resume1, Comment2}
    BY TodosDiffer
  <1>5. \A y \in {SayWait, SaveWait} : y \notin {SayEnd, SaveEnd, EndWait, End}
    BY <1>1, <1>3
  <1>6. \A y \in {SayEnd, SaveEnd} : y \notin {EndWait, End}
    BY <1>1
  <1>7. \A y \in {Kill4, Kill3} :
            y \notin {Kill2, End, Answer4, Resume3, Resume2, Resume1, Comment2}
    BY <1>1, <1>3
  <1>8. \A y \in {Answer4, Resume3} : y \notin {Kill2, End, Resume2, Resume1, Comment2}
    BY <1>1
  <1>10. ASSUME NEW x, TaskShape(x)
         PROVE  /\ x.todo = OnlySave => /\ x.pc \in {"stream", "finish"}
                                        /\ x.data.status \in {"running", "paused"}
                /\ x.todo \in {SayWait, SaveWait} => x.pc = "finish" /\ x.data.status = "waiting"
                /\ x.todo \in {SayEnd, SaveEnd} =>
                      x.pc = "finish" /\ x.data.status \in {"done", "failed"}
                /\ x.todo \in {EndWait, End} => x.pc = "finish"
    <2>1. x.todo = OnlySave => x.pc \in {"stream", "finish"} /\ x.data.status \in {"running", "paused"}
      BY <1>2, <1>4, <1>10 DEF TaskShape
    <2>2. x.todo \in {SayWait, SaveWait} => x.pc = "finish" /\ x.data.status = "waiting"
      BY <1>2, <1>4, <1>5, <1>10 DEF TaskShape
    <2>3. x.todo \in {SayEnd, SaveEnd} => x.pc = "finish" /\ x.data.status \in {"done", "failed"}
      BY <1>2, <1>4, <1>5, <1>6, <1>10 DEF TaskShape
    <2>4. x.todo \in {EndWait, End} => x.pc = "finish"
      BY <1>2, <1>4, <1>10 DEF TaskShape
    <2> QED  BY <2>1, <2>2, <2>3, <2>4
  <1>11. ASSUME NEW x, ClientShape(x)
         PROVE  /\ x.todo \in {Kill4, Kill3} => x.data.status = "killed"
                /\ x.todo \in {Answer4, Resume3} => x.data.status = "running"
                /\ x.todo = OnlySave => x.data.status = "pausing" \/ Restores
    <2>1. x.todo \in {Kill4, Kill3} => x.data.status = "killed"
      BY <1>2, <1>4, <1>7, <1>11 DEF ClientShape
    <2>2. x.todo \in {Answer4, Resume3} => x.data.status = "running"
      BY <1>2, <1>4, <1>7, <1>8, <1>11 DEF ClientShape
    <2>3. x.todo = OnlySave => x.data.status = "pausing" \/ Restores
      BY <1>2, <1>4, <1>11 DEF ClientShape
    <2> QED  BY <2>1, <2>2, <2>3
  <1>12. ASSUME NEW x, CleanerShape(x), x.todo = SaveEnd PROVE x.data.status = "timed_out"
    BY <1>1, <1>2, <1>12 DEF CleanerShape
  <1> QED  BY <1>10, <1>11, <1>12

-----------------------------------------------------------------------------
(* ShapeInv is an invariant.                                               *)

LEMMA Distinct ==
    /\ \A c \in Clients : c \notin Tasks /\ c # "cleaner"
    /\ "cleaner" \notin Tasks
    /\ \A t \in Tasks : t \notin Clients
  BY ActorsAssumption DEF Tasks

KeysKept ==
    \A t \in Tasks :
        /\ arq'[t].running = arq[t].running
        /\ arq[t].msg # NoMessage => arq'[t].msg # NoMessage

LEMMA ShapeMoves ==
    ASSUME TypeOK, ShapeInv, NEW a \in Actors, NEW x, MovesTo(a, x), KeysKept,
           a \in Tasks => TaskShape(x) /\ (x.pc = "idle" <=> act[a].pc = "idle")
                          /\ (x.pc = "idle" => x = Idle),
           a \in Clients => ClientShape(x),
           a = "cleaner" => CleanerShape(x)
    PROVE  ShapeInv'
  <1>1. act \in [Actors -> Actor]
    BY DEF TypeOK
  <1>2. act'[a] = x /\ \A b \in Actors : b # a => act'[b] = act[b]
    BY <1>1 DEF MovesTo
  <1>3. ASSUME NEW t \in Tasks PROVE TaskShape(act'[t]) /\ RunsInv(t)'
    <2>1. CASE t = a
      BY <1>2, <2>1 DEF ShapeInv, RunsInv, KeysKept
    <2>2. CASE t # a
      <3>1. act'[t] = act[t]
        BY <1>2, <2>2, ActorsAre
      <3> QED  BY <3>1 DEF ShapeInv, RunsInv, KeysKept
    <2> QED  BY <2>1, <2>2
  <1>4. ASSUME NEW c \in Clients PROVE ClientShape(act'[c])
    BY <1>2, ActorsAre DEF ShapeInv
  <1>5. CleanerShape(act'["cleaner"])
    BY <1>2, ActorsAre DEF ShapeInv
  <1> QED  BY <1>3, <1>4, <1>5 DEF ShapeInv, TaskShape, ClientShape, CleanerShape

(* The await at the head of the list is the one that ends.                 *)
LEMMA WhichAwait ==
    ASSUME NEW a, AwaitStep(a)
    PROVE  /\ act[a].todo # <<>>
           /\ \/ Head(act[a].todo) = "save" /\ Save(a)
              \/ Head(act[a].todo) = "decrement" /\ Decrement(a)
              \/ Head(act[a].todo) \in {"abort_main", "abort_timeout"} /\ AbortTask(a)
              \/ Head(act[a].todo) = "clear_result" /\ ClearResult(a)
              \/ Head(act[a].todo) = "enqueue_resume" /\ EnqueueResume(a)
              \/ Head(act[a].todo) = "enqueue_timeout" /\ EnqueueTimeout(a)
              \/ Head(act[a].todo) \in {"publish", "github"} /\ CallOut(a)
              \/ Head(act[a].todo) = "github" /\ GitHubFails(a)
  <1>1. CASE Save(a)
    BY <1>1 DEF Save, Awaits
  <1>2. CASE Decrement(a)
    BY <1>2 DEF Decrement, Awaits
  <1>3. CASE AbortTask(a)
    <2>1. PICK t \in Tasks : Awaits(a, AbortOf[t])
      BY <1>3 DEF AbortTask
    <2>2. AbortOf["main"] = "abort_main" /\ AbortOf["timeout"] = "abort_timeout"
      BY DEF AbortOf
    <2> QED  BY <1>3, <2>1, <2>2 DEF Awaits, Tasks
  <1>4. CASE ClearResult(a)
    BY <1>4 DEF ClearResult, Awaits
  <1>5. CASE EnqueueResume(a)
    BY <1>5 DEF EnqueueResume, Awaits
  <1>6. CASE EnqueueTimeout(a)
    BY <1>6 DEF EnqueueTimeout, Awaits
  <1>7. CASE CallOut(a)
    BY <1>7 DEF CallOut, Awaits
  <1>8. CASE GitHubFails(a)
    BY <1>8 DEF GitHubFails, Awaits
  <1> QED  BY <1>1, <1>2, <1>3, <1>4, <1>5, <1>6, <1>7, <1>8 DEF AwaitStep

(* The awaits of a task, one by one.                                       *)
Left(a, todo) == [act[a] EXCEPT !.todo = todo]
LeftSaved(a, todo) == [Left(a, todo) EXCEPT !.data = NewRecord]

LEMMA LeftFields ==
    ASSUME TypeOK, NEW a \in Actors, NEW todo
    PROVE  /\ Left(a, todo).pc = act[a].pc /\ Left(a, todo).todo = todo
           /\ Left(a, todo).data = act[a].data
           /\ LeftSaved(a, todo).pc = act[a].pc /\ LeftSaved(a, todo).todo = todo
           /\ LeftSaved(a, todo).data = NewRecord
  BY DEF TypeOK, Actor, Left, LeftSaved

LEMMA TaskAwaits ==
    ASSUME TypeOK, ShapeInv, NEW t \in Tasks, AwaitStep(t)
    PROVE  \/ /\ act[t].todo = OnlySave /\ Save(t)
              /\ MovesTo(t, LeftSaved(t, <<>>))
           \/ /\ act[t].todo = SaveWait /\ Save(t)
              /\ MovesTo(t, LeftSaved(t, EndWait))
           \/ /\ act[t].todo = SaveEnd /\ Save(t)
              /\ MovesTo(t, LeftSaved(t, End))
           \/ /\ act[t].todo = SayWait /\ CallOut(t) /\ MovesTo(t, Left(t, SaveWait))
           \/ /\ act[t].todo = SayEnd /\ CallOut(t) /\ MovesTo(t, Left(t, SaveEnd))
           \/ /\ act[t].todo = EndWait /\ EnqueueTimeout(t) /\ MovesTo(t, Left(t, <<>>))
           \/ /\ act[t].todo = End /\ Decrement(t) /\ MovesTo(t, Left(t, <<>>))
  <1>1. act[t].todo \in {OnlySave, SaveWait, SaveEnd, SayWait, SayEnd, EndWait, End}
    <2>1. act[t].todo # <<>>
      BY WhichAwait
    <2> QED  BY <2>1 DEF ShapeInv, TaskShape
  <1>2. After(t) = Left(t, Tail(act[t].todo))
    BY DEF After, Left
  <1>3. CASE act[t].todo \in {OnlySave, SaveWait, SaveEnd}
    <2>1. Head(act[t].todo) = "save"
      BY <1>3, Todos
    <2>2. Save(t)
      BY <2>1, WhichAwait
    <2>3. MovesTo(t, LeftSaved(t, Tail(act[t].todo)))
      BY <1>2, <2>2 DEF Save, MovesTo, LeftSaved
    <2> QED  BY <1>3, <2>2, <2>3, Todos
  <1>4. CASE act[t].todo \in {SayWait, SayEnd}
    <2>1. Head(act[t].todo) = "publish"
      BY <1>4, Todos
    <2>2. CallOut(t)
      BY <2>1, WhichAwait
    <2>3. MovesTo(t, Left(t, Tail(act[t].todo)))
      BY <1>2, <2>2 DEF CallOut, MovesTo
    <2> QED  BY <1>4, <2>2, <2>3, Todos
  <1>5. CASE act[t].todo = EndWait
    <2>1. Head(act[t].todo) = "enqueue_timeout"
      BY <1>5, Todos
    <2>2. EnqueueTimeout(t)
      BY <2>1, WhichAwait
    <2>3. MovesTo(t, Left(t, Tail(act[t].todo)))
      BY <1>2, <2>2 DEF EnqueueTimeout, MovesTo
    <2> QED  BY <1>5, <2>2, <2>3, Todos
  <1>6. CASE act[t].todo = End
    <2>1. Head(act[t].todo) = "decrement"
      BY <1>6, Todos
    <2>2. Decrement(t)
      BY <2>1, WhichAwait
    <2>3. MovesTo(t, Left(t, Tail(act[t].todo)))
      BY <1>2, <2>2 DEF Decrement, MovesTo
    <2> QED  BY <1>6, <2>2, <2>3, Todos
  <1> QED  BY <1>1, <1>3, <1>4, <1>5, <1>6

(* Those of the cleaner.                                                   *)
LEMMA CleanerAwaits ==
    ASSUME TypeOK, ShapeInv, AwaitStep("cleaner")
    PROVE  \/ /\ act["cleaner"].todo = SaveEnd /\ Save("cleaner")
              /\ MovesTo("cleaner", LeftSaved("cleaner", End))
           \/ /\ act["cleaner"].todo = End /\ Decrement("cleaner") /\ MovesTo("cleaner", Idle)
  <1>1. act["cleaner"].todo # <<>>
    BY WhichAwait
  <1>2. act["cleaner"].todo \in {SaveEnd, End}
    BY <1>1 DEF ShapeInv, CleanerShape, Idle
  <1>3. After("cleaner") = IF Tail(act["cleaner"].todo) = <<>> THEN Idle
                           ELSE Left("cleaner", Tail(act["cleaner"].todo))
    BY Distinct DEF After, Left
  <1>4. CASE act["cleaner"].todo = SaveEnd
    <2>1. Head(act["cleaner"].todo) = "save" /\ Tail(act["cleaner"].todo) = End /\ End # <<>>
      BY <1>4, Todos
    <2>2. Save("cleaner")
      BY <2>1, WhichAwait
    <2> QED  BY <1>3, <1>4, <2>1, <2>2 DEF Save, MovesTo, LeftSaved
  <1>5. CASE act["cleaner"].todo = End
    <2>1. Head(act["cleaner"].todo) = "decrement" /\ Tail(act["cleaner"].todo) = <<>>
      BY <1>5, Todos
    <2>2. Decrement("cleaner")
      BY <2>1, WhichAwait
    <2> QED  BY <1>3, <1>5, <2>1, <2>2 DEF Decrement, MovesTo
  <1> QED  BY <1>2, <1>4, <1>5

(* Those of a request.                                                     *)
LEMMA ClientAwaits ==
    ASSUME TypeOK, ShapeInv, NEW c \in Clients, AwaitStep(c)
    PROVE  \/ act[c].todo = Kill4 /\ AbortTask(c) /\ MovesTo(c, Left(c, Kill3))
           \/ /\ act[c].todo = Kill3 /\ Save(c)
              /\ MovesTo(c, LeftSaved(c, Kill2))
           \/ act[c].todo = Kill2 /\ CallOut(c) /\ MovesTo(c, Left(c, End))
           \/ act[c].todo = End /\ Decrement(c) /\ MovesTo(c, Idle)
           \/ act[c].todo = Answer4 /\ AbortTask(c) /\ MovesTo(c, Left(c, Resume3))
           \/ /\ act[c].todo = Resume3 /\ Save(c)
              /\ MovesTo(c, LeftSaved(c, Resume2))
           \/ act[c].todo = Resume2 /\ ClearResult(c) /\ MovesTo(c, Left(c, Resume1))
           \/ act[c].todo = Resume1 /\ EnqueueResume(c) /\ MovesTo(c, Idle)
           \/ act[c].todo = OnlySave /\ Save(c) /\ MovesTo(c, Idle)
           \/ act[c].todo = Comment2 /\ CallOut(c) /\ MovesTo(c, Left(c, OnlySave))
           \/ act[c].todo = Comment2 /\ GitHubFails(c) /\ MovesTo(c, Idle)
  <1>1. act[c].todo # <<>>
    BY WhichAwait
  <1>2. act[c].todo \in {Kill4, Kill3, Kill2, End, Answer4, Resume3, Resume2, Resume1,
                         OnlySave, Comment2}
    BY <1>1 DEF ShapeInv, ClientShape, Idle
  <1>3. After(c) = IF Tail(act[c].todo) = <<>> THEN Idle ELSE Left(c, Tail(act[c].todo))
    BY Distinct DEF After, Left
  <1>4. CASE act[c].todo \in {Kill4, Answer4}
    <2>1. Head(act[c].todo) \in {"abort_main", "abort_timeout"}
      BY <1>4, Todos
    <2>2. AbortTask(c)
      BY <2>1, WhichAwait
    <2>3. MovesTo(c, After(c))
      BY <2>2 DEF AbortTask, MovesTo
    <2> QED  BY <1>3, <1>4, <2>2, <2>3, Todos
  <1>5. CASE act[c].todo \in {Kill3, Resume3, OnlySave}
    <2>1. Head(act[c].todo) = "save"
      BY <1>5, Todos
    <2>2. Save(c)
      BY <2>1, WhichAwait
    <2>3. MovesTo(c, [After(c) EXCEPT !.data = NewRecord])
      BY <2>2 DEF Save, MovesTo
    <2>4. [Idle EXCEPT !.data = NewRecord] = Idle
      BY DEF Idle
    <2>5. CASE act[c].todo = OnlySave
      BY <1>3, <2>2, <2>3, <2>4, <2>5, Todos
    <2>6. CASE act[c].todo \in {Kill3, Resume3}
      <3>1. MovesTo(c, LeftSaved(c, Tail(act[c].todo)))
        BY <1>3, <2>3, <2>6, Todos DEF LeftSaved
      <3> QED  BY <2>2, <2>6, <3>1, Todos
    <2> QED  BY <1>5, <2>5, <2>6
  <1>6. CASE act[c].todo = Kill2
    <2>1. Head(act[c].todo) = "publish"
      BY <1>6, Todos
    <2>2. CallOut(c)
      BY <2>1, WhichAwait
    <2> QED  BY <1>3, <1>6, <2>2, Todos DEF CallOut, MovesTo
  <1>7. CASE act[c].todo = End
    <2>1. Head(act[c].todo) = "decrement"
      BY <1>7, Todos
    <2>2. Decrement(c)
      BY <2>1, WhichAwait
    <2> QED  BY <1>3, <1>7, <2>2, Todos DEF Decrement, MovesTo
  <1>8. CASE act[c].todo = Resume2
    <2>1. Head(act[c].todo) = "clear_result"
      BY <1>8, Todos
    <2>2. ClearResult(c)
      BY <2>1, WhichAwait
    <2> QED  BY <1>3, <1>8, <2>2, Todos DEF ClearResult, MovesTo
  <1>9. CASE act[c].todo = Resume1
    <2>1. Head(act[c].todo) = "enqueue_resume"
      BY <1>9, Todos
    <2>2. EnqueueResume(c)
      BY <2>1, WhichAwait
    <2> QED  BY <1>3, <1>9, <2>2, Todos DEF EnqueueResume, MovesTo
  <1>10. CASE act[c].todo = Comment2
    <2>1. Head(act[c].todo) = "github"
      BY <1>10, Todos
    <2>2. CallOut(c) \/ GitHubFails(c)
      BY <2>1, WhichAwait
    <2>3. Tail(act[c].todo) = OnlySave /\ OnlySave # <<>>
      BY <1>10, Todos
    <2>4. CASE CallOut(c)
      BY <1>3, <1>10, <2>3, <2>4 DEF CallOut, MovesTo
    <2>5. CASE GitHubFails(c)
      BY <1>10, <2>5 DEF GitHubFails, MovesTo
    <2> QED  BY <2>2, <2>4, <2>5
  <1> QED  BY <1>2, <1>4, <1>5, <1>6, <1>7, <1>8, <1>9, <1>10

LEMMA AwaitKeys ==
    ASSUME TypeOK, NEW a, AwaitStep(a)
    PROVE  KeysKept
  <1>1. arq \in [Tasks -> ArqKeys]
    BY DEF TypeOK
  <1>2. CASE arq' = arq
    BY <1>2 DEF KeysKept
  <1>3. CASE AbortTask(a)
    BY <1>1, <1>3 DEF AbortTask, KeysKept, ArqKeys
  <1>4. CASE ClearResult(a)
    BY <1>1, <1>4 DEF ClearResult, KeysKept, ArqKeys
  <1>5. ASSUME NEW u \in Tasks, NEW msg, msg.fn # "none", arq' = Enqueued(u, msg) PROVE KeysKept
    <2>1. msg # NoMessage
      BY <1>5 DEF NoMessage
    <2> QED  BY <1>1, <1>5, <2>1 DEF Enqueued, KeysKept, ArqKeys
  <1>6. CASE EnqueueResume(a)
    BY <1>5, <1>6 DEF EnqueueResume, Tasks
  <1>7. CASE EnqueueTimeout(a)
    BY <1>5, <1>7 DEF EnqueueTimeout, Tasks
  <1> QED
    BY <1>2, <1>3, <1>4, <1>6, <1>7 DEF AwaitStep, Save, Decrement, CallOut, GitHubFails

LEMMA AwaitShape ==
    ASSUME TypeOK, ShapeInv, NEW a \in Actors, AwaitStep(a)
    PROVE  ShapeInv'
  <1>1. KeysKept
    BY AwaitKeys
  <1>2. CASE a \in Tasks
    <2>1. TaskShape(act[a]) /\ act[a].pc # "idle" /\ RunsInv(a)
      <3>1. act[a].todo # <<>>
        BY WhichAwait
      <3> QED  BY <1>2, <3>1 DEF ShapeInv, TaskShape
    <2>2. ASSUME NEW x, MovesTo(a, x), TaskShape(x), x.pc = act[a].pc PROVE ShapeInv'
      BY <1>1, <1>2, <2>1, <2>2, Distinct, ShapeMoves
    <2>3. ASSUME NEW x, MovesTo(a, x), x.pc = act[a].pc, x.todo = <<>> PROVE ShapeInv'
      BY <2>2, <2>3 DEF TaskShape
    <2>4. ASSUME act[a].todo = OnlySave, MovesTo(a, LeftSaved(a, <<>>)) PROVE ShapeInv'
      BY <2>3, <2>4, LeftFields
    <2>5. ASSUME act[a].todo \in {EndWait, End}, MovesTo(a, Left(a, <<>>)) PROVE ShapeInv'
      BY <2>3, <2>5, LeftFields
    <2>6. ASSUME NEW todo \in {EndWait, End}, act[a].todo \in {SaveWait, SaveEnd},
                 MovesTo(a, LeftSaved(a, todo))
          PROVE  ShapeInv'
      <3>1. act[a].pc = "finish"
        BY <2>1, <2>6, StatusOf
      <3>2. TaskShape(LeftSaved(a, todo))
        BY <2>6, <3>1, LeftFields DEF TaskShape
      <3> QED  BY <2>2, <2>6, <3>2, LeftFields
    <2>7. ASSUME act[a].todo = SayWait, MovesTo(a, Left(a, SaveWait)) PROVE ShapeInv'
      <3>1. act[a].pc = "finish" /\ act[a].data.status = "waiting"
        BY <2>1, <2>7, StatusOf
      <3>2. TaskShape(Left(a, SaveWait))
        BY <3>1, LeftFields DEF TaskShape
      <3> QED  BY <2>2, <2>7, <3>2, LeftFields
    <2>8. ASSUME act[a].todo = SayEnd, MovesTo(a, Left(a, SaveEnd)) PROVE ShapeInv'
      <3>1. act[a].pc = "finish" /\ act[a].data.status \in {"done", "failed"}
        BY <2>1, <2>8, StatusOf
      <3>2. TaskShape(Left(a, SaveEnd))
        BY <3>1, LeftFields DEF TaskShape
      <3> QED  BY <2>2, <2>8, <3>2, LeftFields
    <2> QED  BY <1>2, <2>4, <2>5, <2>6, <2>7, <2>8, TaskAwaits
  <1>3. CASE a \in Clients
    <2>1. ClientShape(act[a]) /\ act[a] # Idle /\ act[a].pc = "idle"
      BY <1>3, WhichAwait DEF ShapeInv, ClientShape, Idle
    <2>2. ASSUME NEW x, MovesTo(a, x), ClientShape(x) PROVE ShapeInv'
      BY <1>1, <1>3, <2>2, Distinct, ShapeMoves
    <2>3. ASSUME MovesTo(a, Idle) PROVE ShapeInv'
      BY <2>2, <2>3 DEF ClientShape
    <2>4. ASSUME act[a].todo = Kill4, MovesTo(a, Left(a, Kill3)) PROVE ShapeInv'
      <3>1. act[a].data.status = "killed"
        BY <2>1, <2>4, StatusOf
      <3>2. ClientShape(Left(a, Kill3))
        BY <2>1, <3>1, LeftFields DEF ClientShape
      <3> QED  BY <2>2, <2>4, <3>2
    <2>5. ASSUME act[a].todo = Answer4, MovesTo(a, Left(a, Resume3)) PROVE ShapeInv'
      <3>1. act[a].data.status = "running"
        BY <2>1, <2>5, StatusOf
      <3>2. ClientShape(Left(a, Resume3))
        BY <2>1, <3>1, LeftFields DEF ClientShape
      <3> QED  BY <2>2, <2>5, <3>2
    <2>6. ASSUME act[a].todo = Comment2, MovesTo(a, Left(a, OnlySave)) PROVE ShapeInv'
      <3>1. Restores
        BY <2>1, <2>6, Todos, TodosDiffer DEF ClientShape
      <3>2. ClientShape(Left(a, OnlySave))
        BY <2>1, <3>1, LeftFields DEF ClientShape
      <3> QED  BY <2>2, <2>6, <3>2
    <2>7. ASSUME NEW todo \in {Kill2, Resume2}, MovesTo(a, LeftSaved(a, todo)) PROVE ShapeInv'
      <3>1. ClientShape(LeftSaved(a, todo))
        BY <2>1, LeftFields DEF ClientShape
      <3> QED  BY <2>2, <2>7, <3>1
    <2>8. ASSUME NEW todo \in {End, Resume1}, MovesTo(a, Left(a, todo)) PROVE ShapeInv'
      <3>1. ClientShape(Left(a, todo))
        BY <2>1, LeftFields DEF ClientShape
      <3> QED  BY <2>2, <2>8, <3>1
    <2> QED  BY <1>3, <2>3, <2>4, <2>5, <2>6, <2>7, <2>8, ClientAwaits
  <1>4. CASE a = "cleaner"
    <2>1. ASSUME NEW x, MovesTo(a, x), CleanerShape(x) PROVE ShapeInv'
      BY <1>1, <1>4, <2>1, Distinct, ShapeMoves
    <2>2. ASSUME MovesTo(a, Idle) PROVE ShapeInv'
      BY <2>1, <2>2 DEF CleanerShape
    <2>3. ASSUME MovesTo(a, LeftSaved(a, End)) PROVE ShapeInv'
      <3>1. act[a].pc = "idle"
        BY <1>4 DEF ShapeInv, CleanerShape, Idle
      <3>2. CleanerShape(LeftSaved(a, End))
        BY <3>1, LeftFields DEF CleanerShape
      <3> QED  BY <2>1, <2>3, <3>2
    <2> QED  BY <1>4, <2>2, <2>3, CleanerAwaits
  <1> QED  BY <1>2, <1>3, <1>4 DEF Actors

(* A request that is accepted.                                             *)
LEMMA RequestShape ==
    ASSUME TypeOK, ShapeInv, NEW c \in Clients, Request(c)
    PROVE  /\ ShapeInv'
           /\ act[c] = Idle /\ UNCHANGED <<rec, active, arq, checkpoint, asked, heard, faults>>
           /\ \E x : /\ MovesTo(c, x) /\ x.pc = "idle" /\ x.loop = NoThread
                     /\ \/ /\ x.todo = Kill4 /\ x.data = [rec EXCEPT !.status = "killed"]
                           /\ rec.status \notin Terminal
                        \/ /\ x.todo = Answer4 /\ "answer" \in Requests /\ rec.awaiting
                           /\ x.data = [rec EXCEPT !.status = "running", !.awaiting = FALSE]
                           /\ x.value = [kind |-> "answer", question |-> rec.question]
                        \/ /\ x.todo = Resume3 /\ x.data = Unpaused
                           /\ \E kind \in {"resume", "redirect"} :
                                 x.value = [kind |-> kind, question |-> 0]
                        \/ /\ x.todo = OnlySave
                           /\ x.data = [rec EXCEPT !.status = "pausing", !.paused = TRUE]
                        \/ x.todo \in {OnlySave, Comment2} /\ x.data = rec /\ Restores
  <1> DEFINE Shaped(x) ==
               /\ x.pc = "idle" /\ x.loop = NoThread
               /\ \/ /\ x.todo = Kill4 /\ x.data = [rec EXCEPT !.status = "killed"]
                     /\ rec.status \notin Terminal
                  \/ /\ x.todo = Answer4 /\ "answer" \in Requests /\ rec.awaiting
                     /\ x.data = [rec EXCEPT !.status = "running", !.awaiting = FALSE]
                     /\ x.value = [kind |-> "answer", question |-> rec.question]
                  \/ /\ x.todo = Resume3 /\ x.data = Unpaused
                     /\ \E kind \in {"resume", "redirect"} :
                           x.value = [kind |-> kind, question |-> 0]
                  \/ /\ x.todo = OnlySave
                     /\ x.data = [rec EXCEPT !.status = "pausing", !.paused = TRUE]
                  \/ x.todo \in {OnlySave, Comment2} /\ x.data = rec /\ Restores
             Accepted(x) == /\ MovesTo(c, x) /\ act[c] = Idle
                            /\ UNCHANGED <<rec, active, arq, checkpoint, asked, heard, faults>>
  <1>1. ASSUME NEW kind, NEW data, NEW todo, NEW value, Accept(c, kind, data, todo, value)
        PROVE  /\ kind \in Requests
               /\ \E x : /\ Accepted(x) /\ x.pc = "idle" /\ x.loop = NoThread
                         /\ x.todo = todo /\ x.data = data /\ x.value = value
    <2>1. PICK x : x = [Idle EXCEPT !.todo = todo, !.data = data, !.value = value]
      OBVIOUS
    <2>2. /\ x.pc = "idle" /\ x.loop = NoThread
          /\ x.todo = todo /\ x.data = data /\ x.value = value
      BY <2>1 DEF Idle
    <2>3. kind \in Requests /\ Accepted(x)
      BY <1>1, <2>1 DEF Accept, MovesTo
    <2> QED  BY <2>2, <2>3
  <1>2. \E x : Accepted(x) /\ Shaped(x)
    <2> HIDE DEF Accepted
    <2>1. CASE Answer(c)
      BY <1>1, <2>1 DEF Answer, Answer4
    <2>2. CASE Pause(c) \/ GqlPause(c)
      BY <1>1, <2>2 DEF Pause, GqlPause, OnlySave
    <2>3. CASE Resume(c) \/ GqlResume(c)
      BY <1>1, <2>3 DEF Resume, GqlResume, Resume3
    <2>4. CASE Redirect(c)
      BY <1>1, <2>4 DEF Redirect, Resume3, OnlySave, Restores
    <2>5. CASE Kill(c)
      BY <1>1, <2>5 DEF Kill, Kill4
    <2>6. CASE PostComment(c)
      BY <1>1, <2>6 DEF PostComment, Comment2, Restores
    <2> QED  BY <2>1, <2>2, <2>3, <2>4, <2>5, <2>6 DEF Request
  <1>3. PICK x : Accepted(x) /\ Shaped(x)
    BY <1>2
  <1>4. ClientShape(x)
    BY <1>3 DEF ClientShape, Unpaused, TypeOK, Record
  <1>5. KeysKept
    BY <1>3 DEF KeysKept
  <1>6. ShapeInv'
    BY <1>3, <1>4, <1>5, ActorsAre, Distinct, ShapeMoves
  <1> QED  BY <1>3, <1>6


(* How a step of a task moves it: it starts, is over, goes on with nothing *)
(* to say, is about to save quietly, or has decided what to say.           *)
Starts(t) ==
    /\ act[t].pc = "idle"
    /\ \/ UNCHANGED act /\ arq' = Finished(t)
       \/ /\ arq[t].msg # NoMessage /\ arq' = [arq EXCEPT ![t].running = TRUE]
          /\ \E x : /\ MovesTo(t, x) /\ x.pc = "load" /\ x.todo = <<>>
                  /\ x.data = act[t].data

Ends(t) ==
    /\ MovesTo(t, Idle) /\ arq' = Finished(t)
    /\ act[t].todo = <<>> \/ (arq[t].abort /\ arq[t].running)

Walks(t, x) ==
    /\ MovesTo(t, x) /\ UNCHANGED arq /\ act[t].todo = <<>> /\ x.todo = <<>>
    /\ act[t].pc # "idle" /\ x.pc # "idle" /\ x.data \in {act[t].data, rec}
    /\ x.pc = "graph" => act[t].pc \in {"stream", "graph"}

Writes(t, x) ==
    /\ MovesTo(t, x) /\ UNCHANGED arq /\ act[t].todo = <<>> /\ x.todo = OnlySave
    /\ act[t].pc \in {"load", "reload"}
    /\ \/ x.pc = "stream" /\ x.data.status = "running"
       \/ x.pc = "finish" /\ x.data.status = "paused"

Speaks(t, x) ==
    /\ MovesTo(t, x) /\ UNCHANGED arq /\ act[t].todo = <<>>
    /\ act[t].pc \in {"check", "collect", "error"} /\ x.pc = "finish"
    /\ \/ x.todo = SayWait /\ x.data.status = "waiting"
       \/ x.todo = SayEnd /\ x.data.status \in {"done", "failed"}

GoesOn(t) == \E x : Walks(t, x) \/ Writes(t, x) \/ Speaks(t, x)

LEMMA GotoWalks ==
    ASSUME TypeOK, NEW t \in Tasks, NEW from, NEW pc, At(t, from), Goto(t, pc), UNCHANGED arq,
           from # "idle", pc \notin {"idle", "graph"}
    PROVE  GoesOn(t)
  <1>1. PICK x : x = [act[t] EXCEPT !.pc = pc]
    OBVIOUS
  <1>2. act[t] \in Actor
    BY ActorsAre DEF TypeOK
  <1>3. MovesTo(t, x) /\ x.pc = pc /\ x.todo = act[t].todo /\ x.data = act[t].data
    BY <1>1, <1>2 DEF Goto, MovesTo, Actor
  <1> QED  BY <1>3 DEF GoesOn, Walks, At

LEMMA TaskMoves ==
    ASSUME TypeOK, ShapeInv, NEW t \in Tasks, TaskStep(t)
    PROVE  UNCHANGED <<rec, active, faults>> /\ (Starts(t) \/ Ends(t) \/ GoesOn(t))
  <1>1. /\ act[t] \in Actor /\ arq \in [Tasks -> ArqKeys] /\ t \in Actors
        /\ act \in [Actors -> Actor]
    BY ActorsAre DEF TypeOK
  <1>2. CASE TaskStart(t)
    <2>1. act[t] = Idle
      BY <1>2 DEF TaskStart, ShapeInv, RunsInv
    <2>2. act[t].pc = "idle" /\ act[t].todo = <<>>
      BY <2>1 DEF Idle
    <2>3. CASE arq[t].abort
      BY <1>2, <2>2, <2>3 DEF TaskStart, Starts
    <2>4. CASE ~arq[t].abort
      <3>1. PICK x : x = [act[t] EXCEPT !.pc = "load"]
        OBVIOUS
      <3>2. MovesTo(t, x) /\ x.pc = "load" /\ x.todo = <<>> /\ x.data = act[t].data
        BY <1>1, <1>2, <2>2, <2>4, <3>1 DEF TaskStart, Goto, MovesTo, Actor
      <3> QED  BY <1>2, <2>2, <2>4, <3>2 DEF TaskStart, Starts
    <2> QED  BY <1>2, <2>3, <2>4 DEF TaskStart
  <1>3. CASE RunTriage(t)
    <2>1. CASE rec.status \in Terminal
      BY <1>3, <2>1, GotoWalks DEF RunTriage
    <2>2. CASE rec.status \notin Terminal
      <3>1. PICK x : x = [act[t] EXCEPT !.pc = "stream", !.todo = <<"save">>,
                                        !.data = [rec EXCEPT !.status = "running"]]
        OBVIOUS
      <3>2. x.pc = "stream" /\ x.todo = OnlySave /\ x.data.status = "running"
        BY <1>1, <3>1 DEF Actor, OnlySave, TypeOK, Record
      <3>3. MovesTo(t, x)
        BY <1>1, <1>3, <2>2, <3>1 DEF RunTriage, MovesTo
      <3> QED  BY <1>3, <3>2, <3>3 DEF RunTriage, At, GoesOn, Writes
    <2> QED  BY <1>3, <2>1, <2>2 DEF RunTriage
  <1>4. CASE ResumeGraph(t)
    BY <1>4, GotoWalks DEF ResumeGraph
  <1>5. CASE ExpireLoad(t)
    BY <1>5, GotoWalks DEF ExpireLoad
  <1>6. CASE ExpirePeek(t)
    BY <1>6, GotoWalks DEF ExpirePeek
  <1>7. CASE StreamBegin(t)
    <2>1. \E pc \in {"error", "reload", "graph"} : \E loop, value :
             act' = [act EXCEPT ![t].pc = pc, ![t].loop = loop, ![t].value = value]
      BY <1>7 DEF StreamBegin
    <2>2. PICK pc \in {"error", "reload", "graph"} : \E loop, value :
             act' = [act EXCEPT ![t].pc = pc, ![t].loop = loop, ![t].value = value]
      BY <2>1
    <2>3. PICK loop, value :
             act' = [act EXCEPT ![t].pc = pc, ![t].loop = loop, ![t].value = value]
      BY <2>2
    <2>4. PICK x : x = [act[t] EXCEPT !.pc = pc, !.loop = loop, !.value = value]
      OBVIOUS
    <2>5. MovesTo(t, x) /\ x.pc = pc /\ x.todo = act[t].todo /\ x.data = act[t].data
      BY <1>1, <2>3, <2>4 DEF MovesTo, Actor
    <2> QED  BY <1>7, <2>5, <2>2 DEF StreamBegin, At, GoesOn, Walks
  <1>8. ASSUME NEW loop, NEW pc \in {"graph", "reload"}, At(t, "graph"), Advance(t, loop, pc)
        PROVE  GoesOn(t) /\ UNCHANGED <<rec, active, faults>>
    <2>1. PICK x : x = [act[t] EXCEPT !.pc = pc, !.value = NoValue,
                                      !.loop = IF pc = "graph" THEN loop ELSE NoThread]
      OBVIOUS
    <2>2. MovesTo(t, x) /\ x.pc = pc /\ x.todo = act[t].todo /\ x.data = act[t].data
      BY <1>1, <1>8, <2>1 DEF Advance, MovesTo, Actor
    <2> QED  BY <1>8, <2>2 DEF Advance, At, GoesOn, Walks
  <1>9. CASE GraphCalls(t) \/ GraphAsks(t) \/ GraphAnswered(t) \/ GraphValueDropped(t)
             \/ GraphFinishes(t)
    <2>1. At(t, "graph") /\ \E loop : Advance(t, loop, "graph") \/ Advance(t, loop, "reload")
      BY <1>9 DEF GraphCalls, GraphAsks, GraphAnswered, GraphValueDropped, GraphFinishes
    <2>2. PICK loop : Advance(t, loop, "graph") \/ Advance(t, loop, "reload")
      BY <2>1
    <2>3. CASE Advance(t, loop, "graph")
      BY <1>8, <2>1, <2>3
    <2>4. CASE Advance(t, loop, "reload")
      BY <1>8, <2>1, <2>4
    <2> QED  BY <2>2, <2>3, <2>4
  <1>10. CASE GraphFails(t)
    <2>1. PICK x : x = [act[t] EXCEPT !.pc = "error", !.loop = NoThread]
      OBVIOUS
    <2>2. MovesTo(t, x) /\ x.pc = "error" /\ x.todo = act[t].todo /\ x.data = act[t].data
      BY <1>1, <1>10, <2>1 DEF GraphFails, MovesTo, Actor
    <2> QED  BY <1>10, <2>2 DEF GraphFails, At, GoesOn, Walks
  <1>11. CASE FinalizeLoad(t)
    <2>1. CASE rec.status \in Terminal
      BY <1>11, <2>1, GotoWalks DEF FinalizeLoad
    <2>2. CASE rec.status \notin Terminal /\ (rec.paused \/ rec.status = "pausing")
      <3>1. PICK x : x = [act[t] EXCEPT !.pc = "finish", !.todo = <<"save">>,
                                        !.data = [rec EXCEPT !.status = "paused"]]
        OBVIOUS
      <3>2. x.pc = "finish" /\ x.todo = OnlySave /\ x.data.status = "paused"
        BY <1>1, <3>1 DEF Actor, OnlySave, TypeOK, Record
      <3>3. MovesTo(t, x)
        BY <1>1, <1>11, <2>2, <3>1 DEF FinalizeLoad, MovesTo
      <3> QED  BY <1>11, <3>2, <3>3 DEF FinalizeLoad, At, GoesOn, Writes
    <2>3. CASE rec.status \notin Terminal /\ ~(rec.paused \/ rec.status = "pausing")
      <3>1. PICK x : x = [act[t] EXCEPT !.pc = "check", !.data = rec]
        OBVIOUS
      <3>2. MovesTo(t, x) /\ x.pc = "check" /\ x.todo = act[t].todo /\ x.data = rec
        BY <1>1, <1>11, <2>3, <3>1 DEF FinalizeLoad, MovesTo, Actor
      <3> QED  BY <1>11, <3>2 DEF FinalizeLoad, At, GoesOn, Walks
    <2> QED  BY <1>11, <2>1, <2>2, <2>3
  <1>12. CASE FinalizeCheck(t)
    <2>1. CASE checkpoint.thread = "asking"
      <3>1. PICK data : data = [act[t].data EXCEPT !.status = "waiting", !.awaiting = TRUE,
                                    !.since = "recent", !.question = checkpoint.question]
        OBVIOUS
      <3>2. data.status = "waiting"
        BY <1>1, <3>1 DEF Actor, Record
      <3>3. PICK x : x = [act[t] EXCEPT !.pc = "finish", !.data = data,
                                        !.todo = <<"publish", "save", "enqueue_timeout">>]
        OBVIOUS
      <3>4. x.pc = "finish" /\ x.todo = SayWait /\ x.data.status = "waiting"
        BY <1>1, <3>2, <3>3 DEF Actor, SayWait
      <3>5. MovesTo(t, x)
        BY <1>1, <1>12, <2>1, <3>1, <3>3 DEF FinalizeCheck, MovesTo
      <3> QED  BY <1>12, <3>4, <3>5 DEF FinalizeCheck, At, GoesOn, Speaks
    <2>2. CASE checkpoint.thread # "asking"
      BY <1>12, <2>2, GotoWalks DEF FinalizeCheck
    <2> QED  BY <2>1, <2>2, <1>12 DEF FinalizeCheck
  <1>13. CASE FinalizeDone(t)
    <2>1. PICK data : data = [act[t].data EXCEPT !.status = "done",
                                !.report = act[t].data.report \/ checkpoint.thread = "finished"]
      OBVIOUS
    <2>2. data.status = "done"
      BY <1>1, <2>1 DEF Actor, Record
    <2>3. PICK x : x = [act[t] EXCEPT !.pc = "finish", !.data = data,
                                      !.todo = <<"publish", "save", "decrement">>]
      OBVIOUS
    <2>4. x.pc = "finish" /\ x.todo = SayEnd /\ x.data.status = "done"
      BY <1>1, <2>2, <2>3 DEF Actor, SayEnd
    <2>5. MovesTo(t, x)
      BY <1>1, <1>13, <2>1, <2>3 DEF FinalizeDone, MovesTo
    <2> QED  BY <1>13, <2>4, <2>5 DEF FinalizeDone, At, GoesOn, Speaks
  <1>14. CASE HandleError(t)
    <2>1. CASE arq[t].msg.fn = "expire_human_input" \/ rec.status \in Terminal
      BY <1>14, <2>1, GotoWalks DEF HandleError
    <2>2. CASE ~(arq[t].msg.fn = "expire_human_input" \/ rec.status \in Terminal)
      <3>1. PICK x : x = [act[t] EXCEPT !.pc = "finish", !.todo = <<"publish", "save", "decrement">>,
                                        !.data = [rec EXCEPT !.status = "failed"]]
        OBVIOUS
      <3>2. x.pc = "finish" /\ x.todo = SayEnd /\ x.data.status = "failed"
        BY <1>1, <3>1 DEF Actor, SayEnd, TypeOK, Record
      <3>3. MovesTo(t, x)
        BY <1>1, <1>14, <2>2, <3>1 DEF HandleError, MovesTo
      <3> QED  BY <1>14, <3>2, <3>3 DEF HandleError, At, GoesOn, Speaks
    <2> QED  BY <2>1, <2>2, <1>14 DEF HandleError
  <1>15. CASE TaskFinish(t) \/ TaskCancelled(t)
    BY <1>15 DEF TaskFinish, TaskCancelled, At, Ends, MovesTo
  <1> QED
    BY <1>2, <1>3, <1>4, <1>5, <1>6, <1>7, <1>9, <1>10, <1>11, <1>12, <1>13, <1>14, <1>15
    DEF TaskStep, RunTriage, ResumeGraph, ExpireLoad, ExpirePeek, StreamBegin, GraphFails,
        FinalizeLoad, FinalizeCheck, FinalizeDone, HandleError, TaskFinish, TaskCancelled,
        GraphCalls, GraphAsks, GraphAnswered, GraphValueDropped, GraphFinishes

LEMMA EndsShape ==
    ASSUME TypeOK, ShapeInv, NEW t \in Tasks,
           (act' = act /\ act[t] = Idle) \/ MovesTo(t, Idle),
           arq' = Finished(t)
    PROVE  ShapeInv'
  <1>1. act \in [Actors -> Actor] /\ arq \in [Tasks -> ArqKeys]
    BY DEF TypeOK
  <1>2. act'[t] = Idle /\ \A b \in Actors : b # t => act'[b] = act[b]
    BY <1>1, ActorsAre DEF MovesTo
  <1>3. ~arq'[t].running /\ \A u \in Tasks : u # t => arq'[u] = arq[u]
    BY <1>1 DEF Finished
  <1>4. ASSUME NEW u \in Tasks PROVE TaskShape(act'[u]) /\ RunsInv(u)'
    <2>1. CASE u = t
      BY <1>2, <1>3, <2>1 DEF TaskShape, RunsInv, Idle
    <2>2. CASE u # t
      <3>1. act'[u] = act[u] /\ arq'[u] = arq[u]
        BY <1>2, <1>3, <2>2, ActorsAre
      <3> QED  BY <3>1 DEF ShapeInv, RunsInv
    <2> QED  BY <2>1, <2>2
  <1>5. ASSUME NEW c \in Clients PROVE ClientShape(act'[c])
    BY <1>2, ActorsAre, Distinct DEF ShapeInv
  <1>6. CleanerShape(act'["cleaner"])
    BY <1>2, ActorsAre, Distinct DEF ShapeInv
  <1> QED  BY <1>4, <1>5, <1>6 DEF ShapeInv, TaskShape, ClientShape, CleanerShape

LEMMA TaskShapeKept ==
    ASSUME TypeOK, ShapeInv, NEW t \in Tasks, TaskStep(t)
    PROVE  ShapeInv'
  <1>1. /\ act \in [Actors -> Actor] /\ arq \in [Tasks -> ArqKeys] /\ t \in Actors
        /\ t \notin Clients /\ t # "cleaner"
    BY ActorsAre, Distinct DEF TypeOK
  <1>2. act[t].pc = "idle" => act[t] = Idle
    BY DEF ShapeInv, RunsInv
  <1>3. CASE Ends(t) \/ (act[t].pc = "idle" /\ UNCHANGED act /\ arq' = Finished(t))
    BY <1>2, <1>3, EndsShape DEF Ends
  <1>4. ASSUME act[t].pc = "idle", arq[t].msg # NoMessage, arq' = [arq EXCEPT ![t].running = TRUE],
               NEW x, MovesTo(t, x), x.pc = "load", x.todo = <<>>
        PROVE  ShapeInv'
    <2>1. act'[t] = x /\ \A b \in Actors : b # t => act'[b] = act[b]
      BY <1>1, <1>4 DEF MovesTo
    <2>2. /\ arq'[t].running /\ arq'[t].msg # NoMessage
          /\ \A u \in Tasks : u # t => arq'[u] = arq[u]
      BY <1>1, <1>4 DEF ArqKeys
    <2>3. ASSUME NEW u \in Tasks PROVE TaskShape(act'[u]) /\ RunsInv(u)'
      <3>1. CASE u = t
        BY <1>4, <2>1, <2>2, <3>1 DEF TaskShape, RunsInv
      <3>2. CASE u # t
        <4>1. act'[u] = act[u] /\ arq'[u] = arq[u]
          BY <2>1, <2>2, <3>2, ActorsAre
        <4> QED  BY <4>1 DEF ShapeInv, RunsInv
      <3> QED  BY <3>1, <3>2
    <2>4. ASSUME NEW c \in Clients PROVE ClientShape(act'[c])
      BY <2>1, ActorsAre, Distinct DEF ShapeInv
    <2>5. CleanerShape(act'["cleaner"])
      BY <2>1, ActorsAre, Distinct DEF ShapeInv
    <2> QED  BY <2>3, <2>4, <2>5 DEF ShapeInv, TaskShape, ClientShape, CleanerShape
  <1>5. ASSUME NEW x, Walks(t, x) \/ Writes(t, x) \/ Speaks(t, x) PROVE ShapeInv'
    <2>1. MovesTo(t, x) /\ UNCHANGED arq /\ x.pc # "idle" /\ act[t].pc # "idle"
      BY <1>5 DEF Walks, Writes, Speaks
    <2>2. TaskShape(x)
      BY <1>5 DEF Walks, Writes, Speaks, TaskShape
    <2>3. KeysKept
      BY <2>1 DEF KeysKept
    <2> QED  BY <1>1, <2>1, <2>2, <2>3, ShapeMoves
  <1>6. Starts(t) \/ Ends(t) \/ GoesOn(t)
    BY TaskMoves
  <1> QED  BY <1>3, <1>4, <1>5, <1>6 DEF Starts, GoesOn

LEMMA CrashShape ==
    ASSUME TypeOK, ShapeInv, WorkerCrash
    PROVE  ShapeInv'
  <1>1. \A a \in Actors : act'[a] = IF a \in Clients THEN act[a] ELSE Idle
    BY DEF WorkerCrash
  <1>2. arq' = [t \in Tasks |-> [arq[t] EXCEPT !.running = FALSE]]
    BY DEF WorkerCrash
  <1>3. ASSUME NEW t \in Tasks PROVE TaskShape(act'[t]) /\ RunsInv(t)'
    <2>1. act'[t] = Idle
      BY <1>1, ActorsAre, Distinct
    <2>2. ~arq'[t].running
      BY <1>2 DEF TypeOK, ArqKeys
    <2> QED  BY <2>1, <2>2 DEF TaskShape, RunsInv, Idle
  <1>4. ASSUME NEW c \in Clients PROVE ClientShape(act'[c])
    BY <1>1, ActorsAre, Distinct DEF ShapeInv
  <1>5. CleanerShape(act'["cleaner"])
    BY <1>1, ActorsAre, Distinct DEF CleanerShape
  <1> QED  BY <1>3, <1>4, <1>5 DEF ShapeInv, TaskShape, ClientShape, CleanerShape

LEMMA ClockShape ==
    ASSUME TypeOK, ShapeInv, TimerDue \/ WaitAges
    PROVE  ShapeInv' /\ UNCHANGED act
  <1>1. UNCHANGED act
    BY DEF TimerDue, WaitAges
  <1>2. arq \in [Tasks -> ArqKeys]
    BY DEF TypeOK
  <1>3. \A t \in Tasks : arq'[t].running = arq[t].running /\ arq'[t].msg = arq[t].msg
    <2>1. CASE TimerDue
      BY <1>2, <2>1 DEF TimerDue, Tasks, ArqKeys
    <2>2. CASE WaitAges
      <3>1. PICK expired : arq' = [t \in Tasks |-> [arq[t] EXCEPT !.result = @ /\ t \notin expired]]
        BY <2>2 DEF WaitAges
      <3> QED  BY <1>2, <3>1 DEF ArqKeys
    <2> QED  BY <2>1, <2>2
  <1> QED  BY <1>1, <1>3 DEF ShapeInv, TaskShape, ClientShape, CleanerShape, RunsInv

LEMMA CleanShape ==
    ASSUME TypeOK, ShapeInv, Clean
    PROVE  /\ ShapeInv' /\ act["cleaner"] = Idle
           /\ UNCHANGED <<rec, active, arq, checkpoint, asked, heard, requests, faults>>
           /\ \E x : /\ MovesTo("cleaner", x) /\ x.pc = "idle" /\ x.todo = SaveEnd
                     /\ x.data = [rec EXCEPT !.status = "timed_out", !.awaiting = FALSE]
  <1>1. PICK x : x = [Idle EXCEPT !.todo = <<"save", "decrement">>,
                        !.data = [rec EXCEPT !.status = "timed_out", !.awaiting = FALSE]]
    OBVIOUS
  <1>2. MovesTo("cleaner", x)
    BY <1>1 DEF Clean, MovesTo
  <1>3. /\ x.pc = "idle" /\ x.todo = SaveEnd
        /\ x.data = [rec EXCEPT !.status = "timed_out", !.awaiting = FALSE]
    BY <1>1 DEF Idle, SaveEnd
  <1>4. CleanerShape(x)
    BY <1>3 DEF CleanerShape, TypeOK, Record
  <1>5. KeysKept
    BY DEF Clean, KeysKept
  <1>6. ShapeInv'
    BY <1>2, <1>4, <1>5, ActorsAre, Distinct, ShapeMoves
  <1> QED  BY <1>2, <1>3, <1>6 DEF Clean

LEMMA InitShape == Init => ShapeInv
  <1> SUFFICES ASSUME Init PROVE ShapeInv
    OBVIOUS
  <1>1. \A a \in Actors : act[a] = Idle
    BY DEF Init
  <1>2. \A t \in Tasks : ~arq[t].running
    BY DEF Init
  <1>3. Idle.pc = "idle" /\ Idle.todo = <<>>
    BY DEF Idle
  <1>4. \A t \in Tasks : TaskShape(act[t]) /\ RunsInv(t)
    BY <1>1, <1>2, <1>3, ActorsAre DEF TaskShape, RunsInv
  <1> QED  BY <1>1, <1>4, ActorsAre DEF ShapeInv, ClientShape, CleanerShape

LEMMA NextShape == TypeOK /\ ShapeInv /\ [Next]_vars => ShapeInv'
  <1> SUFFICES ASSUME TypeOK, ShapeInv, [Next]_vars PROVE ShapeInv'
    OBVIOUS
  <1>1. ASSUME NEW c \in Clients, Request(c) \/ AwaitStep(c) PROVE ShapeInv'
    BY <1>1, RequestShape, AwaitShape, ActorsAre
  <1>2. ASSUME NEW t \in Tasks, TaskStep(t) \/ AwaitStep(t) PROVE ShapeInv'
    BY <1>2, TaskShapeKept, AwaitShape, ActorsAre
  <1>3. ASSUME NEW t \in Tasks, TaskTimesOut(t) PROVE ShapeInv'
    <2>1. MovesTo(t, Idle) /\ arq' = Finished(t)
      BY <1>3 DEF TaskTimesOut, MovesTo
    <2> QED  BY <2>1, EndsShape
  <1>4. CASE Clean \/ AwaitStep("cleaner") \/ TimerDue \/ WaitAges \/ WorkerCrash
    BY <1>4, CleanShape, AwaitShape, ActorsAre, ClockShape, CrashShape
  <1>5. CASE UNCHANGED vars
    BY <1>5 DEF vars, ShapeInv, TaskShape, ClientShape, CleanerShape, RunsInv
  <1> QED  BY <1>1, <1>2, <1>3, <1>4, <1>5 DEF Next, ServerStep

(* In every behaviour of the job, whatever overlaps or is cut short, what  *)
(* an actor has still to do is one of the lists above, with a copy of the  *)
(* record that bears the status the list goes with, and arq runs exactly   *)
(* the tasks that are under way.                                           *)
THEOREM ShapeHolds == Spec => []ShapeInv
  <1>1. Init => ShapeInv
    BY InitShape
  <1>2. TypeOK /\ ShapeInv /\ [Next]_vars => ShapeInv'
    BY NextShape
  <1>3. Spec => []TypeOK
    BY TypeCorrect
  <1> QED  BY <1>1, <1>2, <1>3, PTL DEF Spec

-----------------------------------------------------------------------------
(* What JobNews sees of a state.                                           *)

TaskSays(x) ==
    IF x.todo \in {SayWait, SayEnd} THEN [step |-> "publish", status |-> x.data.status]
    ELSE IF x.todo \in {SaveWait, SaveEnd} THEN [step |-> "save", status |-> x.data.status]
    ELSE News!Silent

ClientSays(x) ==
    IF x.todo \in {Kill4, Kill3} THEN [step |-> "save", status |-> "killed"]
    ELSE IF x.todo = Kill2 THEN [step |-> "publish", status |-> "killed"]
    ELSE News!Silent

Seen(r) == IF r.status \in Terminal \cup {"waiting"} THEN r.status ELSE "going"
Says == [a \in Tasks \cup Clients |-> Speech(a)]
Inside == {t \in Tasks : act[t].pc = "graph"}

SpeechOf(a, x) ==
    CASE a \in Tasks /\ x.todo # <<>> /\ Head(x.todo) \in {"publish", "save"}
                  /\ x.data.status \in {"waiting", "done", "failed"} ->
           [step |-> Head(x.todo), status |-> x.data.status]
      [] a \in Clients /\ Publishes(x.todo) ->
           [step |-> IF Head(x.todo) = "publish" THEN "publish" ELSE "save", status |-> "killed"]
      [] OTHER -> [step |-> "none", status |-> "none"]

LEMMA TaskSpeech ==
    ASSUME NEW t \in Tasks, NEW x, TaskShape(x)
    PROVE  SpeechOf(t, x) = TaskSays(x)
  <1>1. t \notin Clients
    BY Distinct
  <1>2. CASE x.todo = <<>>
    BY <1>1, <1>2, Todos DEF SpeechOf, TaskSays, News!Silent
  <1>3. CASE x.todo = OnlySave /\ x.data.status \in {"running", "paused"}
    BY <1>1, <1>3, TodosDiffer DEF SpeechOf, TaskSays, News!Silent
  <1>4. CASE x.todo \in {SayWait, SayEnd} /\ x.data.status \in {"waiting", "done", "failed"}
    BY <1>1, <1>4, Todos DEF SpeechOf, TaskSays
  <1>5. CASE x.todo \in {SaveWait, SaveEnd} /\ x.data.status \in {"waiting", "done", "failed"}
    <2>1. Head(x.todo) = "save" /\ x.todo # <<>> /\ x.todo \notin {SayWait, SayEnd}
      BY <1>5, Todos
    <2> QED  BY <1>1, <1>5, <2>1 DEF SpeechOf, TaskSays
  <1>6. CASE x.todo \in {EndWait, End}
    <2>1. /\ Head(x.todo) \notin {"publish", "save"}
          /\ x.todo \notin {SayWait, SayEnd, SaveWait, SaveEnd}
      BY <1>6, Todos
    <2> QED  BY <1>1, <2>1 DEF SpeechOf, TaskSays, News!Silent
  <1> QED  BY <1>2, <1>3, <1>4, <1>5, <1>6 DEF TaskShape

LEMMA ClientSpeech ==
    ASSUME NEW c \in Clients, NEW x, ClientShape(x)
    PROVE  SpeechOf(c, x) = ClientSays(x)
  <1>1. c \notin Tasks
    BY Distinct
  <1>2. CASE x.todo \in {Kill4, Kill3}
    <2>1. Head(x.todo) # "publish" /\ Publishes(x.todo)
      BY <1>2, Todos, WhoPublishes
    <2> QED  BY <1>1, <1>2, <2>1 DEF SpeechOf, ClientSays
  <1>3. CASE x.todo = Kill2
    <2>1. Head(x.todo) = "publish" /\ Publishes(x.todo) /\ x.todo \notin {Kill4, Kill3}
      BY <1>3, Todos, WhoPublishes
    <2> QED  BY <1>1, <1>3, <2>1 DEF SpeechOf, ClientSays
  <1>4. CASE x.todo \in {<<>>, End, OnlySave, Answer4, Resume3, Resume2, Resume1, Comment2}
    <2>1. ~Publishes(x.todo) /\ x.todo \notin {Kill4, Kill3, Kill2}
      BY <1>4, WhoPublishes
    <2> QED  BY <1>1, <2>1 DEF SpeechOf, ClientSays, News!Silent
  <1>5. Idle.todo = <<>>
    BY DEF Idle
  <1> QED  BY <1>2, <1>3, <1>4, <1>5 DEF ClientShape

LEMMA Speeches ==
    ASSUME ShapeInv, ShapeInv'
    PROVE  /\ \A t \in Tasks : Speech(t) = TaskSays(act[t]) /\ Speech(t)' = TaskSays(act'[t])
           /\ \A c \in Clients : Speech(c) = ClientSays(act[c]) /\ Speech(c)' = ClientSays(act'[c])
  <1>1. \A a : Speech(a) = SpeechOf(a, act[a])
    BY DEF Speech, SpeechOf, Publishes
  <1>2. \A a : Speech(a)' = SpeechOf(a, act'[a])
    BY DEF Speech, SpeechOf, Publishes
  <1>3. \A t \in Tasks : TaskShape(act[t]) /\ TaskShape(act'[t])
    BY DEF ShapeInv, TaskShape
  <1>4. \A c \in Clients : ClientShape(act[c]) /\ ClientShape(act'[c])
    BY DEF ShapeInv, ClientShape
  <1> QED  BY <1>1, <1>2, <1>3, <1>4, TaskSpeech, ClientSpeech

(* One actor moves.                                                        *)
LEMMA SaysOne ==
    ASSUME TypeOK, ShapeInv, ShapeInv', NEW a \in Actors, NEW x, MovesTo(a, x)
    PROVE  /\ a \in Tasks => /\ Says' = [Says EXCEPT ![a] = TaskSays(x)]
                             /\ Says[a] = TaskSays(act[a])
           /\ a \in Clients => /\ Says' = [Says EXCEPT ![a] = ClientSays(x)]
                               /\ Says[a] = ClientSays(act[a])
           /\ a = "cleaner" => Says' = Says
           /\ Inside' = IF a \in Tasks /\ x.pc = "graph" THEN Inside \cup {a}
                        ELSE Inside \ {a}
  <1>1. act'[a] = x /\ \A b \in Actors : b # a => act'[b] = act[b]
    BY DEF TypeOK, MovesTo
  <1>2. ASSUME NEW b \in Tasks \cup Clients, b # a PROVE Speech(b)' = Speech(b)
    BY <1>1, <1>2, Speeches, ActorsAre
  <1>3. Says = [b \in Tasks \cup Clients |-> Speech(b)] /\ Says' = [b \in Tasks \cup Clients |-> Speech(b)']
    BY DEF Says
  <1>4. a \in Tasks => /\ Says' = [Says EXCEPT ![a] = TaskSays(x)]
                       /\ Says[a] = TaskSays(act[a])
    BY <1>1, <1>2, <1>3, Speeches
  <1>5. a \in Clients => /\ Says' = [Says EXCEPT ![a] = ClientSays(x)]
                         /\ Says[a] = ClientSays(act[a])
    BY <1>1, <1>2, <1>3, Speeches
  <1>6. a = "cleaner" => Says' = Says
    BY <1>2, <1>3, Distinct
  <1>7. Inside' = IF a \in Tasks /\ x.pc = "graph" THEN Inside \cup {a} ELSE Inside \ {a}
    BY <1>1, ActorsAre DEF Inside
  <1> QED  BY <1>4, <1>5, <1>6, <1>7

-----------------------------------------------------------------------------
(* JobNews in these terms.                                                 *)

LEMMA NewsIs ==
    /\ Says = [a \in Tasks \cup Clients |-> Speech(a)]
    /\ (Seen(rec)' = Seen(rec) /\ Says' = Says /\ Inside' = Inside => UNCHANGED News!newsVars)
    /\ \A t \in Tasks :
         /\ Says[t] = News!Silent /\ t \notin Inside /\ Inside' = Inside \cup {t}
            /\ Seen(rec)' = Seen(rec) /\ Says' = Says => News!Enter(t)
         /\ \A s : t \notin Inside /\ Says[t] = News!Silent
                  /\ Says' = [Says EXCEPT ![t] = [step |-> "publish", status |-> s]]
                  /\ Seen(rec)' = Seen(rec) /\ Inside' = Inside => News!Decide(t, s)
         /\ \A s : Says[t] = [step |-> "publish", status |-> s]
                  /\ Says' = [Says EXCEPT ![t] = [step |-> "save", status |-> s]]
                  /\ Seen(rec)' = Seen(rec) /\ Inside' = Inside => News!Say(t, s)
         /\ \A s : Says[t] = [step |-> "save", status |-> s]
                  /\ Says' = [Says EXCEPT ![t] = News!Silent]
                  /\ Seen(rec)' = s /\ Inside' = Inside => News!Settle(t, s)
    /\ \A ts \in SUBSET Tasks :
         ts # {} /\ Says' = [a \in Tasks \cup Clients |-> IF a \in ts THEN News!Silent ELSE Says[a]]
         /\ Inside' = Inside \ ts /\ Seen(rec)' = Seen(rec) => News!Leave(ts)
    /\ \A c \in Clients :
         /\ Seen(rec) \notin Terminal /\ Says[c] = News!Silent
            /\ Says' = [Says EXCEPT ![c] = [step |-> "save", status |-> "killed"]]
            /\ Seen(rec)' = Seen(rec) /\ Inside' = Inside => News!Kill(c)
         /\ Says[c] = [step |-> "save", status |-> "killed"]
            /\ Says' = [Says EXCEPT ![c] = [step |-> "publish", status |-> "killed"]]
            /\ Seen(rec)' = "killed" /\ Inside' = Inside => News!KillSave(c)
         /\ Says[c] = [step |-> "publish", status |-> "killed"]
            /\ Says' = [Says EXCEPT ![c] = News!Silent]
            /\ Seen(rec)' = Seen(rec) /\ Inside' = Inside => News!KillSay(c)
    /\ (Seen(rec)' \in {"going", "timed_out"} /\ Says' = Says /\ Inside' = Inside => News!SaveQuietly)
    /\ (Restores /\ Seen(rec)' \in Terminal \cup {"going", "waiting"} /\ Says' = Says
        /\ Inside' = Inside => News!Restore)
  BY DEF Says, Seen, Inside, Restores, Terminal, News!Terminal, News!Statuses, News!Unannounced,
         News!newsVars, News!Enter, News!Decide, News!Say, News!Settle, News!Leave, News!Kill,
         News!KillSave, News!KillSay, News!SaveQuietly, News!Restore, News!Turns, News!Silent

NewsStep == [News!Next]_(News!newsVars)

LEMMA NewsSteps ==
    /\ UNCHANGED News!newsVars => NewsStep
    /\ \A t \in Tasks : News!Enter(t) => NewsStep
    /\ \A t \in Tasks, s \in {"waiting", "done", "failed"} :
         News!Decide(t, s) \/ News!Say(t, s) \/ News!Settle(t, s) => NewsStep
    /\ \A ts \in SUBSET Tasks : News!Leave(ts) => NewsStep
    /\ \A c \in Clients : News!Kill(c) \/ News!KillSave(c) \/ News!KillSay(c) => NewsStep
    /\ News!SaveQuietly => NewsStep
    /\ News!Restore => NewsStep
  BY DEF NewsStep, News!Next, News!TaskNews

(* What is saved with nothing more to say, and what is told.               *)
LEMMA SeenIs ==
    /\ \A r : r.status \in {"running", "paused", "pausing", "queued"} => Seen(r) = "going"
    /\ \A r : r.status \in Terminal \cup {"waiting"} => Seen(r) = r.status
    /\ \A r : Seen(r) \in Terminal \cup {"going", "waiting"}
  BY DEF Seen, Terminal

LEMMA SaysIs ==
    /\ \A x : x.todo \in {<<>>, OnlySave, EndWait, End} => TaskSays(x) = News!Silent
    /\ \A x : x.todo \in {SayWait, SayEnd} =>
                TaskSays(x) = [step |-> "publish", status |-> x.data.status]
    /\ \A x : x.todo \in {SaveWait, SaveEnd} =>
                TaskSays(x) = [step |-> "save", status |-> x.data.status]
    /\ \A x : x.todo \in {Kill4, Kill3} => ClientSays(x) = [step |-> "save", status |-> "killed"]
    /\ \A x : x.todo = Kill2 => ClientSays(x) = [step |-> "publish", status |-> "killed"]
    /\ \A x : x.todo \in {<<>>, End, OnlySave, Answer4, Resume3, Resume2, Resume1, Comment2} =>
                ClientSays(x) = News!Silent
  <1>1. \A y \in {<<>>, OnlySave, EndWait, End} : y \notin {SayWait, SayEnd, SaveWait, SaveEnd}
    <2>1. <<>> \notin {SayWait, SayEnd, SaveWait, SaveEnd}
      BY Todos
    <2>2. OnlySave \notin {SayWait, SayEnd, SaveWait, SaveEnd}
      BY TodosDiffer
    <2>3. Head(EndWait) = "enqueue_timeout" /\ Head(End) = "decrement"
      BY Todos
    <2>4. /\ Head(SayWait) = "publish" /\ Head(SayEnd) = "publish"
          /\ Head(SaveWait) = "save" /\ Head(SaveEnd) = "save"
      BY Todos
    <2>5. EndWait \notin {SayWait, SayEnd, SaveWait, SaveEnd}
      BY <2>3, <2>4
    <2>6. End \notin {SayWait, SayEnd, SaveWait, SaveEnd}
      BY <2>3, <2>4
    <2> QED  BY <2>1, <2>2, <2>5, <2>6
  <1>2. \A y \in {SaveWait, SaveEnd} : y \notin {SayWait, SayEnd}
    BY Todos
  <1>3. Kill2 \notin {Kill4, Kill3}
    BY Todos
  <1>4. \A y \in {<<>>, End, OnlySave, Answer4, Resume3, Resume2, Resume1, Comment2} :
           y \notin {Kill4, Kill3, Kill2}
    BY WhoPublishes
  <1>5. \A x : x.todo \in {<<>>, OnlySave, EndWait, End} => TaskSays(x) = News!Silent
    BY <1>1 DEF TaskSays
  <1>6. \A x : x.todo \in {SayWait, SayEnd} =>
                TaskSays(x) = [step |-> "publish", status |-> x.data.status]
    BY DEF TaskSays
  <1>7. \A x : x.todo \in {SaveWait, SaveEnd} =>
                TaskSays(x) = [step |-> "save", status |-> x.data.status]
    BY <1>2 DEF TaskSays
  <1>8. \A x : x.todo \in {Kill4, Kill3} => ClientSays(x) = [step |-> "save", status |-> "killed"]
    BY DEF ClientSays
  <1>9. \A x : x.todo = Kill2 => ClientSays(x) = [step |-> "publish", status |-> "killed"]
    BY <1>3 DEF ClientSays
  <1>10. \A x : x.todo \in {<<>>, End, OnlySave, Answer4, Resume3, Resume2, Resume1, Comment2} =>
                ClientSays(x) = News!Silent
    BY <1>4 DEF ClientSays
  <1> QED  BY <1>5, <1>6, <1>7, <1>8, <1>9, <1>10

LEMMA SaysStays == ASSUME NEW a \in Tasks \cup Clients, NEW m, Says' = [Says EXCEPT ![a] = m],
                          Says[a] = m
                   PROVE  Says' = Says
  BY DEF Says

(* A task is over, or cut short.                                           *)
LEMMA EndsNews ==
    ASSUME TypeOK, ShapeInv, ShapeInv', UNCHANGED rec, NEW t \in Tasks, MovesTo(t, Idle)
    PROVE  NewsStep
  <1>1. Idle.todo = <<>> /\ Idle.pc = "idle" /\ t \in Actors
    BY ActorsAre DEF Idle
  <1>2. Says' = [Says EXCEPT ![t] = News!Silent] /\ Inside' = Inside \ {t}
    BY <1>1, SaysOne, SaysIs
  <1>3. Says' = [a \in Tasks \cup Clients |-> IF a \in {t} THEN News!Silent ELSE Says[a]]
    BY <1>2 DEF Says
  <1>4. Seen(rec)' = Seen(rec)
    BY DEF Seen
  <1>5. News!Leave({t})
    BY <1>2, <1>3, <1>4, NewsIs
  <1> QED  BY <1>5, NewsSteps

LEMMA TaskNews ==
    ASSUME TypeOK, ShapeInv, ShapeInv', NEW t \in Tasks, TaskStep(t)
    PROVE  NewsStep
  <1>1. UNCHANGED rec /\ t \in Actors /\ Seen(rec)' = Seen(rec)
    BY TaskMoves, ActorsAre DEF Seen
  <1>2. CASE Ends(t)
    BY <1>1, <1>2, EndsNews DEF Ends
  <1>3. CASE UNCHANGED act
    <2>1. Says' = Says
      BY <1>3 DEF Says, Speech
    <2>2. Inside' = Inside
      BY <1>3 DEF Inside
    <2> QED  BY <1>1, <2>1, <2>2, NewsIs, NewsSteps
  <1>4. ASSUME NEW x, MovesTo(t, x), act[t].todo = <<>>, x.todo \in {<<>>, OnlySave}
        PROVE  Says' = Says /\ Says[t] = News!Silent
    <2>1. Says' = [Says EXCEPT ![t] = TaskSays(x)] /\ Says[t] = TaskSays(act[t])
      BY <1>1, <1>4, SaysOne
    <2>2. TaskSays(x) = News!Silent /\ TaskSays(act[t]) = News!Silent
      BY <1>4, SaysIs
    <2> QED  BY <2>1, <2>2, SaysStays
  <1>5. ASSUME NEW x, MovesTo(t, x), act[t].todo = <<>>, x.todo \in {<<>>, OnlySave},
               x.pc = "graph" => act[t].pc \in {"stream", "graph"}
        PROVE  NewsStep
    <2>1. Says' = Says /\ Says[t] = News!Silent
      BY <1>4, <1>5
    <2>2. CASE x.pc = "graph" /\ act[t].pc = "stream"
      <3>1. t \notin Inside /\ Inside' = Inside \cup {t}
        BY <1>1, <1>5, <2>2, SaysOne DEF Inside
      <3> QED  BY <1>1, <2>1, <3>1, NewsIs, NewsSteps
    <2>3. CASE x.pc = "graph" /\ act[t].pc = "graph"
      <3>1. Inside' = Inside
        BY <1>1, <1>5, <2>3, SaysOne DEF Inside
      <3> QED  BY <1>1, <2>1, <3>1, NewsIs, NewsSteps
    <2>4. CASE x.pc # "graph"
      <3>1. Inside' = Inside \ {t}
        BY <1>1, <1>5, <2>4, SaysOne
      <3>2. Says' = [a \in Tasks \cup Clients |-> IF a \in {t} THEN News!Silent ELSE Says[a]]
        BY <2>1 DEF Says
      <3>3. News!Leave({t})
        BY <1>1, <3>1, <3>2, NewsIs
      <3> QED  BY <3>3, NewsSteps
    <2> QED  BY <1>5, <2>2, <2>3, <2>4
  <1>6. ASSUME NEW x, Speaks(t, x) PROVE NewsStep
    <2>1. PICK s \in {"waiting", "done", "failed"} :
             x.data.status = s /\ x.todo \in {SayWait, SayEnd}
      BY <1>6 DEF Speaks
    <2>2. MovesTo(t, x) /\ act[t].todo = <<>> /\ act[t].pc # "graph" /\ x.pc = "finish"
      BY <1>6 DEF Speaks
    <2>3. /\ Says' = [Says EXCEPT ![t] = [step |-> "publish", status |-> s]]
          /\ Says[t] = News!Silent
      BY <1>1, <2>1, <2>2, SaysOne, SaysIs
    <2>4. Inside' = Inside /\ t \notin Inside
      BY <1>1, <2>2, SaysOne DEF Inside
    <2>5. News!Decide(t, s)
      BY <1>1, <2>3, <2>4, NewsIs
    <2> QED  BY <2>5, NewsSteps
  <1>7. CASE GoesOn(t)
    BY <1>5, <1>6, <1>7 DEF GoesOn, Walks, Writes
  <1>8. CASE Starts(t)
    <2>1. act[t].todo = <<>>
      BY <1>8 DEF Starts, ShapeInv, RunsInv, Idle
    <2> QED  BY <1>3, <1>5, <1>8, <2>1 DEF Starts
  <1> QED  BY <1>2, <1>7, <1>8, TaskMoves

LEMMA TaskAwaitNews ==
    ASSUME TypeOK, ShapeInv, ShapeInv', NEW t \in Tasks, AwaitStep(t)
    PROVE  NewsStep
  <1>1. t \in Actors /\ TaskShape(act[t])
    BY ActorsAre DEF ShapeInv
  <1>2. ASSUME NEW x, MovesTo(t, x), x.pc = act[t].pc PROVE Inside' = Inside
    BY <1>1, <1>2, SaysOne DEF Inside
  <1>3. CASE act[t].todo = OnlySave /\ Save(t) /\ MovesTo(t, LeftSaved(t, <<>>))
    <2>1. Says' = Says /\ Inside' = Inside
      BY <1>1, <1>2, <1>3, LeftFields, SaysOne, SaysIs, SaysStays
    <2>2. rec' = act[t].data /\ act[t].data.status \in {"running", "paused"}
      BY <1>1, <1>3, StatusOf DEF Save
    <2>3. Seen(rec)' = "going"
      BY <2>2 DEF Seen, Terminal
    <2> QED  BY <2>1, <2>3, NewsIs, NewsSteps
  <1>4. ASSUME NEW todo \in {EndWait, End}, act[t].todo \in {SaveWait, SaveEnd},
               Save(t), MovesTo(t, LeftSaved(t, todo))
        PROVE  NewsStep
    <2>1. PICK s \in {"waiting", "done", "failed"} : act[t].data.status = s
      BY <1>1, <1>4, StatusOf
    <2>2. /\ Says[t] = [step |-> "save", status |-> s]
          /\ Says' = [Says EXCEPT ![t] = News!Silent] /\ Inside' = Inside
      BY <1>1, <1>2, <1>4, <2>1, LeftFields, SaysOne, SaysIs
    <2>3. Seen(rec)' = s
      BY <1>4, <2>1 DEF Save, Seen, Terminal
    <2>4. News!Settle(t, s)
      BY <2>2, <2>3, NewsIs
    <2> QED  BY <2>4, NewsSteps
  <1>5. ASSUME NEW todo \in {SaveWait, SaveEnd}, act[t].todo \in {SayWait, SayEnd},
               CallOut(t), MovesTo(t, Left(t, todo))
        PROVE  NewsStep
    <2>1. PICK s \in {"waiting", "done", "failed"} : act[t].data.status = s
      BY <1>1, <1>5, StatusOf
    <2>2. /\ Says[t] = [step |-> "publish", status |-> s]
          /\ Says' = [Says EXCEPT ![t] = [step |-> "save", status |-> s]] /\ Inside' = Inside
      BY <1>1, <1>2, <1>5, <2>1, LeftFields, SaysOne, SaysIs
    <2>3. Seen(rec)' = Seen(rec)
      BY <1>5 DEF CallOut, Seen
    <2>4. News!Say(t, s)
      BY <2>2, <2>3, NewsIs
    <2> QED  BY <2>4, NewsSteps
  <1>6. CASE /\ act[t].todo \in {EndWait, End}
             /\ EnqueueTimeout(t) \/ Decrement(t)
             /\ MovesTo(t, Left(t, <<>>))
    <2>1. PICK x : x = Left(t, <<>>)
      OBVIOUS
    <2>2. x.todo = <<>> /\ x.pc = act[t].pc /\ MovesTo(t, x)
      BY <1>1, <1>6, <2>1, LeftFields
    <2>3. Says' = [Says EXCEPT ![t] = News!Silent] /\ Says[t] = News!Silent
      BY <1>1, <1>6, <2>2, SaysOne, SaysIs
    <2>4. Says' = Says /\ Inside' = Inside
      BY <1>2, <2>2, <2>3, SaysStays
    <2>5. Seen(rec)' = Seen(rec)
      BY <1>6 DEF EnqueueTimeout, Decrement, Seen
    <2> QED  BY <2>4, <2>5, NewsIs, NewsSteps
  <1> QED  BY <1>3, <1>4, <1>5, <1>6, TaskAwaits

LEMMA ClientNews ==
    ASSUME TypeOK, ShapeInv, ShapeInv', NEW c \in Clients, AwaitStep(c)
    PROVE  NewsStep
  <1>1. c \in Actors /\ c \notin Tasks /\ ClientShape(act[c]) /\ Idle.todo = <<>>
    BY ActorsAre, Distinct DEF ShapeInv, Idle
  <1>2. ASSUME NEW x, MovesTo(c, x)
        PROVE  /\ Inside' = Inside /\ Says[c] = ClientSays(act[c])
               /\ Says' = [Says EXCEPT ![c] = ClientSays(x)]
    BY <1>1, <1>2, SaysOne DEF Inside
  <1>3. ASSUME NEW x, MovesTo(c, x), ClientSays(x) = ClientSays(act[c])
        PROVE  Says' = Says /\ Inside' = Inside
    BY <1>2, <1>3, SaysStays
  <1>4. ASSUME NEW x, MovesTo(c, x), ClientSays(x) = ClientSays(act[c]), UNCHANGED rec
        PROVE  NewsStep
    <2>1. Seen(rec)' = Seen(rec)
      BY <1>4 DEF Seen
    <2> QED  BY <1>3, <1>4, <2>1, NewsIs, NewsSteps
  <1>5. CASE act[c].todo = Kill4 /\ AbortTask(c) /\ MovesTo(c, Left(c, Kill3))
    BY <1>1, <1>4, <1>5, LeftFields, SaysIs DEF AbortTask
  <1>6. CASE act[c].todo = Kill3 /\ Save(c) /\ MovesTo(c, LeftSaved(c, Kill2))
    <2>1. /\ Says[c] = [step |-> "save", status |-> "killed"] /\ Inside' = Inside
          /\ Says' = [Says EXCEPT ![c] = [step |-> "publish", status |-> "killed"]]
      BY <1>1, <1>2, <1>6, LeftFields, SaysIs
    <2>2. act[c].data.status = "killed"
      BY <1>1, <1>6, StatusOf
    <2>3. Seen(rec)' = "killed"
      BY <1>6, <2>2 DEF Save, Seen, Terminal
    <2>4. News!KillSave(c)
      BY <2>1, <2>3, NewsIs
    <2> QED  BY <2>4, NewsSteps
  <1>7. CASE act[c].todo = Kill2 /\ CallOut(c) /\ MovesTo(c, Left(c, End))
    <2>1. /\ Says[c] = [step |-> "publish", status |-> "killed"] /\ Inside' = Inside
          /\ Says' = [Says EXCEPT ![c] = News!Silent]
      BY <1>1, <1>2, <1>7, LeftFields, SaysIs
    <2>2. Seen(rec)' = Seen(rec)
      BY <1>7 DEF CallOut, Seen
    <2>3. News!KillSay(c)
      BY <2>1, <2>2, NewsIs
    <2> QED  BY <2>3, NewsSteps
  <1>8. CASE act[c].todo = End /\ Decrement(c) /\ MovesTo(c, Idle)
    BY <1>1, <1>4, <1>8, SaysIs DEF Decrement
  <1>9. CASE act[c].todo = Answer4 /\ AbortTask(c) /\ MovesTo(c, Left(c, Resume3))
    BY <1>1, <1>4, <1>9, LeftFields, SaysIs DEF AbortTask
  <1>10. CASE act[c].todo = Resume3 /\ Save(c) /\ MovesTo(c, LeftSaved(c, Resume2))
    <2>1. Says' = Says /\ Inside' = Inside
      BY <1>1, <1>3, <1>10, LeftFields, SaysIs
    <2>2. act[c].data.status = "running"
      BY <1>1, <1>10, StatusOf
    <2>3. Seen(rec)' = "going"
      BY <1>10, <2>2 DEF Save, Seen, Terminal
    <2> QED  BY <2>1, <2>3, NewsIs, NewsSteps
  <1>11. CASE act[c].todo = Resume2 /\ ClearResult(c) /\ MovesTo(c, Left(c, Resume1))
    BY <1>1, <1>4, <1>11, LeftFields, SaysIs DEF ClearResult
  <1>12. CASE act[c].todo = Resume1 /\ EnqueueResume(c) /\ MovesTo(c, Idle)
    BY <1>1, <1>4, <1>12, SaysIs DEF EnqueueResume
  <1>13. CASE act[c].todo = OnlySave /\ Save(c) /\ MovesTo(c, Idle)
    <2>1. Says' = Says /\ Inside' = Inside
      BY <1>1, <1>3, <1>13, SaysIs
    <2>2. act[c].data.status = "pausing" \/ Restores
      BY <1>1, <1>13, StatusOf
    <2>3. CASE act[c].data.status = "pausing"
      <3>1. Seen(rec)' = "going"
        BY <1>13, <2>3 DEF Save, Seen, Terminal
      <3> QED  BY <2>1, <3>1, NewsIs, NewsSteps
    <2>4. CASE Restores
      <3>1. Seen(rec)' \in Terminal \cup {"going", "waiting"}
        BY DEF Seen
      <3>2. News!Restore
        BY <2>1, <2>4, <3>1, NewsIs
      <3> QED  BY <3>2, NewsSteps
    <2> QED  BY <2>2, <2>3, <2>4
  <1>14. CASE act[c].todo = Comment2 /\ CallOut(c) /\ MovesTo(c, Left(c, OnlySave))
    BY <1>1, <1>4, <1>14, LeftFields, SaysIs DEF CallOut
  <1>15. CASE act[c].todo = Comment2 /\ GitHubFails(c) /\ MovesTo(c, Idle)
    BY <1>1, <1>4, <1>15, SaysIs DEF GitHubFails
  <1> QED
    BY <1>5, <1>6, <1>7, <1>8, <1>9, <1>10, <1>11, <1>12, <1>13, <1>14, <1>15, ClientAwaits

LEMMA RequestNews ==
    ASSUME TypeOK, ShapeInv, ShapeInv', NEW c \in Clients, Request(c)
    PROVE  NewsStep
  <1>1. c \in Actors /\ c \notin Tasks /\ act[c] = Idle /\ Idle.todo = <<>> /\ UNCHANGED rec
    BY ActorsAre, Distinct, RequestShape DEF Idle
  <1>2. PICK x : /\ MovesTo(c, x)
                 /\ \/ x.todo = Kill4 /\ rec.status \notin Terminal
                    \/ x.todo \in {Answer4, Resume3, OnlySave, Comment2}
    BY RequestShape
  <1>3. /\ Inside' = Inside /\ Says[c] = News!Silent
        /\ Says' = [Says EXCEPT ![c] = ClientSays(x)]
    BY <1>1, <1>2, SaysOne, SaysIs DEF Inside
  <1>4. Seen(rec)' = Seen(rec)
    BY <1>1 DEF Seen
  <1>5. CASE x.todo = Kill4 /\ rec.status \notin Terminal
    <2>1. Says' = [Says EXCEPT ![c] = [step |-> "save", status |-> "killed"]]
      <3>1. ClientSays(x) = [step |-> "save", status |-> "killed"]
        BY <1>5, SaysIs
      <3> QED  BY <1>3, <3>1
    <2>2. Seen(rec) \notin Terminal
      BY <1>5 DEF Seen, Terminal
    <2>3. News!Kill(c)
      BY <1>3, <1>4, <2>1, <2>2, NewsIs
    <2> QED  BY <2>3, NewsSteps
  <1>6. CASE x.todo \in {Answer4, Resume3, OnlySave, Comment2}
    <2>1. ClientSays(x) = News!Silent
      BY <1>6, SaysIs
    <2>2. Says' = Says
      BY <1>3, <2>1, SaysStays
    <2> QED  BY <1>3, <1>4, <2>2, NewsIs, NewsSteps
  <1> QED  BY <1>2, <1>5, <1>6

LEMMA CleanerNews ==
    ASSUME TypeOK, ShapeInv, ShapeInv', Clean \/ AwaitStep("cleaner")
    PROVE  NewsStep
  <1>1. "cleaner" \in Actors /\ "cleaner" \notin Tasks /\ CleanerShape(act["cleaner"])
    BY ActorsAre, Distinct DEF ShapeInv
  <1>2. ASSUME NEW x, MovesTo("cleaner", x) PROVE Says' = Says /\ Inside' = Inside
    BY <1>1, <1>2, SaysOne DEF Inside
  <1>3. ASSUME NEW x, MovesTo("cleaner", x), UNCHANGED rec PROVE NewsStep
    <2>1. Seen(rec)' = Seen(rec)
      BY <1>3 DEF Seen
    <2> QED  BY <1>2, <1>3, <2>1, NewsIs, NewsSteps
  <1>4. CASE Clean
    BY <1>3, <1>4, CleanShape
  <1>5. CASE act["cleaner"].todo = End /\ Decrement("cleaner") /\ MovesTo("cleaner", Idle)
    BY <1>3, <1>5 DEF Decrement
  <1>6. CASE /\ act["cleaner"].todo = SaveEnd /\ Save("cleaner")
             /\ MovesTo("cleaner", LeftSaved("cleaner", End))
    <2>1. act["cleaner"].data.status = "timed_out"
      BY <1>1, <1>6, StatusOf
    <2>2. Seen(rec)' = "timed_out"
      BY <1>6, <2>1 DEF Save, Seen, Terminal
    <2> QED  BY <1>2, <1>6, <2>2, NewsIs, NewsSteps
  <1> QED  BY <1>4, <1>5, <1>6, CleanerAwaits

LEMMA CrashNews ==
    ASSUME TypeOK, ShapeInv, ShapeInv', WorkerCrash
    PROVE  NewsStep
  <1>1. /\ \A a \in Actors : act'[a] = IF a \in Clients THEN act[a] ELSE Idle
        /\ UNCHANGED rec
    BY DEF WorkerCrash
  <1>2. Idle.todo = <<>> /\ Idle.pc = "idle" /\ TaskSays(Idle) = News!Silent
    BY SaysIs DEF Idle
  <1>3. \A t \in Tasks : Speech(t)' = News!Silent
    BY <1>1, <1>2, ActorsAre, Distinct, Speeches
  <1>4. \A c \in Clients : Speech(c)' = Speech(c) /\ c \notin Tasks
    BY <1>1, ActorsAre, Distinct, Speeches
  <1>5. Says' = [a \in Tasks \cup Clients |-> IF a \in Tasks THEN News!Silent ELSE Says[a]]
    <2>1. Says' = [a \in Tasks \cup Clients |-> Speech(a)']
      BY DEF Says
    <2> QED  BY <1>3, <1>4, <2>1 DEF Says
  <1>6. Inside' = Inside \ Tasks
    BY <1>1, <1>2, ActorsAre, Distinct DEF Inside
  <1>7. Seen(rec)' = Seen(rec) /\ Tasks # {}
    BY <1>1 DEF Seen, Tasks
  <1>8. News!Leave(Tasks)
    BY <1>5, <1>6, <1>7, NewsIs
  <1> QED  BY <1>8, NewsSteps

LEMMA ClockNews ==
    ASSUME TypeOK, UNCHANGED act, rec' = rec \/ rec' = [rec EXCEPT !.since = "old"]
    PROVE  NewsStep
  <1>1. Says' = Says /\ Inside' = Inside
    BY DEF Says, Speech, Inside
  <1>2. Seen(rec)' = Seen(rec)
    BY DEF Seen, TypeOK, Record
  <1> QED  BY <1>1, <1>2, NewsIs, NewsSteps

LEMMA NextNews ==
    ASSUME TypeOK, ShapeInv, ShapeInv', [Next]_vars
    PROVE  NewsStep
  <1>1. ASSUME NEW c \in Clients, Request(c) \/ AwaitStep(c) PROVE NewsStep
    BY <1>1, RequestNews, ClientNews
  <1>2. ASSUME NEW t \in Tasks, TaskStep(t) \/ AwaitStep(t) PROVE NewsStep
    BY <1>2, TaskNews, TaskAwaitNews
  <1>3. ASSUME NEW t \in Tasks, TaskTimesOut(t) PROVE NewsStep
    <2>1. MovesTo(t, Idle) /\ UNCHANGED rec
      BY <1>3 DEF TaskTimesOut, MovesTo
    <2> QED  BY <2>1, EndsNews
  <1>4. CASE Clean \/ AwaitStep("cleaner") \/ WorkerCrash
    BY <1>4, CleanerNews, CrashNews
  <1>5. CASE TimerDue \/ WaitAges \/ UNCHANGED vars
    BY <1>5, ClockNews DEF TimerDue, WaitAges, vars
  <1> QED  BY <1>1, <1>2, <1>3, <1>4, <1>5 DEF Next, ServerStep

LEMMA InitNews == Init => News!Init
  <1> SUFFICES ASSUME Init PROVE News!Init
    OBVIOUS
  <1>1. \A a \in Tasks \cup Clients : act[a] = Idle
    BY ActorsAre DEF Init
  <1>2. Idle.todo = <<>> /\ Idle.pc = "idle"
    BY DEF Idle
  <1>3. \A a \in Tasks \cup Clients : Speech(a) = News!Silent
    BY <1>1, <1>2, WhoPublishes DEF Speech, News!Silent, Publishes
  <1>4. rec.status = "queued"
    BY DEF Init, NewRecord
  <1> QED  BY <1>1, <1>2, <1>3, <1>4 DEF News!Init, Terminal

(* Whatever clients ask, however the worker's tasks are cut short and      *)
(* whatever stale copies are saved, a job announces waiting, done and      *)
(* failed before it saves them, killed after, and nothing else: TriageJob  *)
(* implements JobNews, on which the event stream is built.                 *)
THEOREM ImplementsNews == Spec => NewsSpec
  <1>1. Init => News!Init
    BY InitNews
  <1>2. TypeOK /\ ShapeInv /\ ShapeInv' /\ [Next]_vars => [News!Next]_(News!newsVars)
    BY NextNews DEF NewsStep
  <1> QED  BY <1>1, <1>2, TypeCorrect, ShapeHolds, PTL DEF Spec, NewsSpec, News!Spec

LEMMA CalmIsSpec == CalmSpec => Spec
  <1>1. [CalmNext]_vars => [Next]_vars
    BY DEF CalmNext, Next
  <1> QED  BY <1>1, PTL DEF CalmSpec, Spec

(* The same in a calm environment, where fewer things overlap.             *)
THEOREM CalmImplementsNews == CalmSpec => NewsSpec
  BY CalmIsSpec, ImplementsNews

=============================================================================
