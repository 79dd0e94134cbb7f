----------------------------- MODULE EventStream -----------------------------
(***************************************************************************)
(* The event channel of a job and those who watch it.  The job speaks as   *)
(* JobNews says, which TriageJob implements; while a task is inside the    *)
(* graph, EventTransformer's events are published too.  Redis Pub/Sub      *)
(* hands a message to whoever is subscribed at that moment and keeps none. *)
(* Old copies written back are left out: what they restore is no news.     *)
(*                                                                         *)
(* A viewer reads through the GraphQL subscription job_events, which takes *)
(* a snapshot of the record once subscribed, or through the REST stream,   *)
(* which does not; on the other side the browser's jobStore folds what     *)
(* arrives.  A viewer only looks: what its own buttons write into the      *)
(* store is left out.                                                      *)
(*                                                                         *)
(* The wire of a viewer is everything between Redis and its store, in      *)
(* order.  The root graph's own callbacks carry no node and change nothing *)
(* a viewer keeps; they are left out.                                      *)
(***************************************************************************)
EXTENDS Naturals, Sequences, JobNews, EventTransformer

CONSTANTS
    Viewers,
    MaxDepth,       \* bound: how deep chains nest in a node
    MaxAgents,      \* bound: agents spawned in one behaviour
    MaxWire,        \* bound: messages on their way to a viewer
    MaxDrops        \* bound: connections lost

ASSUME StreamBoundsAssumption ==
    /\ MaxDepth \in Nat \ {0} /\ MaxWire \in Nat \ {0}
    /\ MaxAgents \in Nat /\ MaxDrops \in Nat /\ ~MayRestore

VARIABLES
    chain,          \* of each task: what its graph is running
    agents,         \* of each task: its transformer's _agents
    spawned,        \* agents spawned; the source of fresh ids
    reached,        \* current_node of the thread
    current_node,   \* current_node of the record under job:<id>
    kind,           \* of each viewer: the API it uses
    tab,            \* of each viewer: its connection and what its store shows
    drops

stream == <<chain, agents, spawned, reached, current_node>>
viewing == <<kind, tab, drops>>
streamVars == <<newsVars, stream, viewing>>

-----------------------------------------------------------------------------
(* Data.                                                                   *)

(* The node a task runs, the depth of its nested chains, and the agents    *)
(* spawned since it began.                                                 *)
NoChain == [node |-> NoNode, depth |-> 0, ids |-> {}]

(* Mutated: a killed job is announced under a type no stream knows.        *)
StatusTypeOdd == [waiting |-> "graph.interrupt", done |-> "job.done",
                  failed |-> "job.failed", killed |-> "job.cancelled"]

StatusType == [waiting |-> "graph.interrupt", done |-> "job.done",
               failed |-> "job.failed", killed |-> "job.killed"]

(* Mutated: the streams go on after a kill.                                *)
EndTypesNoKill == {"job.done", "job.failed", "job.timed_out"}

(* The events that end a stream.                                           *)
EndTypes == {"job.done", "job.failed", "job.killed", "job.timed_out"}

StatusEvent(s) == [type |-> StatusType[s]]

(* JobSnapshotEvent.  Its awaiting_human counts when the status is waiting.*)
Snapshots == [type : {"job.snapshot"}, status : Statuses, node : Nodes \cup {NoNode}]
CurrentSnapshot == [type |-> "job.snapshot", status |-> status, node |-> current_node]

(* The agent events a store keeps more of than a line in its log, reduced  *)
(* to what it looks at.  A callback makes one at most, and nothing before. *)
Kept == {"agent.spawned", "agent.token", "output.token"}
Seen(events) ==
    IF events # <<>> /\ Head(events).type \in Kept
    THEN <<[type |-> Head(events).type, node |-> Head(events).node]>>
    ELSE <<>>

(* A tab: its connection, what is on the way to it, the fields of JobLocal *)
(* the events set, and three things it does not know: whether its          *)
(* connection has told it of a node, the news it came too late for, and    *)
(* the news it missed.                                                     *)
NewTab == [pc |-> "off", wire |-> <<>>, status |-> "going", asking |-> FALSE,
           node |-> NoNode, told |-> FALSE, late |-> {}, missed |-> {}]

StreamInit ==
    /\ Init
    /\ chain = [t \in Tasks |-> NoChain]
    /\ agents = [t \in Tasks |-> NoAgents]
    /\ spawned = 0
    /\ reached = NoNode
    /\ current_node = NoNode
    /\ kind \in [Viewers -> {"graphql", "sse"}]
    /\ tab = [v \in Viewers |-> NewTab]
    /\ drops = 0

-----------------------------------------------------------------------------
(* Publishing.                                                             *)

Subscribed(v) == tab[v].pc \in {"subscribed", "listening"}

Broadcast(events) ==
    /\ \A v \in Viewers : Len(tab[v].wire) < MaxWire
    /\ tab' = [v \in Viewers |->
                 IF Subscribed(v) THEN [tab[v] EXCEPT !.wire = @ \o events] ELSE tab[v]]

(* One turn of the loop over astream_events: a callback, transformed and   *)
(* published.                                                              *)
Reports(t, event, node, text, after) ==
    LET c == [event |-> event, node |-> node, text |-> text]
        seen == Seen(Transform(agents[t], c, spawned + 1))
    IN
    /\ t \in streaming
    /\ spawned' = IF event = "on_chain_start" THEN spawned + 1 ELSE spawned
    /\ spawned' <= MaxAgents
    /\ chain' = [chain EXCEPT ![t] = after]
    /\ agents' = [agents EXCEPT ![t] = Assign(@, c, spawned + 1)]
    /\ Broadcast(seen)
    /\ UNCHANGED <<newsVars, current_node, kind, drops>>

NodeStarts(t) ==
    /\ chain[t].depth = 0
    /\ \E n \in Nodes :
         Reports(t, "on_chain_start", n, FALSE,
                 [node |-> n, depth |-> 1, ids |-> {spawned + 1}])
    /\ UNCHANGED reached

(* A runnable inside the node reports under the node's name.               *)
ChainNests(t) ==
    /\ chain[t].depth \in 1 .. MaxDepth - 1
    /\ Reports(t, "on_chain_start", chain[t].node, FALSE,
               [chain[t] EXCEPT !.depth = @ + 1, !.ids = @ \cup {spawned + 1}])
    /\ UNCHANGED reached

ModelSays(t) ==
    /\ chain[t].depth > 0
    /\ \E event \in Says, text \in BOOLEAN :
         Reports(t, event, chain[t].node, text, chain[t])
    /\ UNCHANGED reached

ToolWorks(t) ==
    /\ chain[t].depth > 0
    /\ \E event \in {"on_tool_start", "on_tool_end"} :
         Reports(t, event, chain[t].node, FALSE, chain[t])
    /\ UNCHANGED reached

(* A node that ends returns its name as current_node, the supervisor alone *)
(* does not.                                                               *)
ChainEnds(t) ==
    /\ chain[t].depth > 0
    /\ \/ UNCHANGED reached
       \/ chain[t].depth = 1 /\ reached' = chain[t].node
    /\ Reports(t, "on_chain_end", chain[t].node, FALSE,
               IF chain[t].depth = 1 THEN NoChain ELSE [chain[t] EXCEPT !.depth = @ - 1])

(* The job's status is published: by the worker or by kill_job.            *)
Publish ==
    /\ \/ \E t \in Tasks, s \in TaskNews : Say(t, s) /\ Broadcast(<<StatusEvent(s)>>)
       \/ \E c \in Clients : KillSay(c) /\ Broadcast(<<StatusEvent("killed")>>)
    /\ UNCHANGED <<stream, kind, drops>>

(* run_triage enters with a fresh state, a resumed task with a command.  A *)
(* task outside the graph has no transformer.                              *)
JobMoves ==
    /\ \/ \E t \in Tasks : Enter(t) /\ reached' \in {NoNode, reached}
       \/ /\ \/ \E t \in Tasks, s \in TaskNews : Decide(t, s)
             \/ \E ts \in SUBSET Tasks : Leave(ts)
             \/ \E c \in Clients : Kill(c)
          /\ UNCHANGED reached
    /\ chain' = [t \in Tasks |-> IF t \in streaming' THEN chain[t] ELSE NoChain]
    /\ agents' = [t \in Tasks |-> IF t \in streaming' THEN agents[t] ELSE NoAgents]
    /\ UNCHANGED <<spawned, current_node, viewing>>

(* _stream_and_finalize saves the thread's current_node, when it has one,  *)
(* with a question, a report or a pause; every other save keeps what the   *)
(* record says.                                                            *)
Names == current_node' = IF reached = NoNode THEN current_node ELSE reached
JobSaves ==
    /\ \/ \E t \in Tasks, s \in {"waiting", "done"} : Settle(t, s) /\ Names
       \/ \E t \in Tasks : Settle(t, "failed") /\ UNCHANGED current_node
       \/ \E c \in Clients : KillSave(c) /\ UNCHANGED current_node
       \/ SaveQuietly /\ UNCHANGED current_node
       \/ /\ \E t \in Tasks : t \notin streaming /\ speaker[t] = Silent
          /\ SaveQuietly /\ status' = "going" /\ Names
    /\ UNCHANGED <<chain, agents, spawned, reached, viewing>>

-----------------------------------------------------------------------------
(* Viewing.                                                                *)

(* The statuses that a task has published and not saved yet.               *)
Window == {s \in TaskNews : \E t \in Tasks : Has(t, "save", s)}

Connects(v, from, new) ==
    /\ tab[v].pc = from
    /\ tab' = [tab EXCEPT ![v] = new]
    /\ UNCHANGED <<newsVars, stream, kind, drops>>

(* The page loads the job, and setJob subscribes unless it is over.        *)
Open(v) ==
    Connects(v, "off",
        [tab[v] EXCEPT !.pc = IF status \in Terminal THEN "closed" ELSE "opening",
                       !.status = status, !.asking = status = "waiting", !.node = current_node])

(* SUBSCRIBE.  The REST stream listens from here on.                       *)
Subscribe(v) ==
    Connects(v, "opening",
        IF kind[v] = "sse"
        THEN [tab[v] EXCEPT !.pc = "listening", !.missed = Window \cup ({status} \cap Announced)]
        ELSE [tab[v] EXCEPT !.pc = "subscribed", !.late = Window])

(* Mutated: what came between SUBSCRIBE and the snapshot is dropped.       *)
SnapshotAlone(v) ==
    LET new == [tab[v] EXCEPT !.late = {}, !.missed = tab[v].late \cap Window,
                              !.wire = <<CurrentSnapshot>>]
    IN  Connects(v, "subscribed",
            [new EXCEPT !.pc = IF status \in Terminal THEN "ending" ELSE "listening"])

(* Mutated: the snapshot is yielded after what has gathered.               *)
SnapshotLast(v) ==
    LET new == [tab[v] EXCEPT !.late = {}, !.missed = tab[v].late \cap Window]
    IN  Connects(v, "subscribed",
            IF status \in Terminal
            THEN [new EXCEPT !.pc = "ending", !.wire = <<CurrentSnapshot>>]
            ELSE [new EXCEPT !.pc = "listening", !.wire = @ \o <<CurrentSnapshot>>])

(* job_events reads the record and yields it before what the subscription  *)
(* has gathered meanwhile; of a job that is over it yields nothing else.   *)
Snapshot(v) ==
    LET new == [tab[v] EXCEPT !.late = {}, !.missed = tab[v].late \cap Window]
    IN  Connects(v, "subscribed",
            IF status \in Terminal
            THEN [new EXCEPT !.pc = "ending", !.wire = <<CurrentSnapshot>>]
            ELSE [new EXCEPT !.pc = "listening", !.wire = <<CurrentSnapshot>> \o @])

(* processJobEvent.  A token goes to the node the store shows, whatever    *)
(* agent it names; the text is left out.                                   *)
Fold(b, e) ==
    CASE e.type = "job.snapshot" ->
           [b EXCEPT !.status = e.status, !.asking = e.status = "waiting", !.node = e.node]
      [] e.type = "agent.spawned" ->
           [b EXCEPT !.status = "going", !.node = e.node, !.told = TRUE]
      [] e.type = "graph.interrupt" ->
           [b EXCEPT !.status = "waiting", !.asking = TRUE, !.missed = @ \ {"waiting"}]
      [] e.type = "job.done" -> [b EXCEPT !.status = "done"]
      [] e.type \in {"job.failed", "job.timed_out"} -> [b EXCEPT !.status = "failed"]
      [] e.type = "job.killed" -> [b EXCEPT !.status = "killed"]
      [] OTHER -> b

(* The next event reaches the store.  An ending closes the stream, and so  *)
(* does the snapshot of a job that is over.  Of a closed tab only the      *)
(* status matters.                                                         *)
Deliver(v) ==
    /\ tab[v].pc \in {"listening", "ending"}
    /\ tab[v].wire # <<>>
    /\ LET e == Head(tab[v].wire)
           new == Fold(tab[v], e)
       IN  Connects(v, tab[v].pc,
               IF e.type \in EndTypes \/ tab[v].pc = "ending"
               THEN [NewTab EXCEPT !.pc = "closed", !.status = new.status]
               ELSE [new EXCEPT !.wire = Tail(@)])

(* The connection is lost with all that was on the wire; the client        *)
(* connects again.                                                         *)
Drop(v) ==
    /\ drops < MaxDrops
    /\ drops' = drops + 1
    /\ tab[v].pc \in {"subscribed", "listening", "ending"}
    /\ tab' = [tab EXCEPT ![v] =
                 [@ EXCEPT !.pc = "opening", !.wire = <<>>, !.told = FALSE,
                           !.late = {}, !.missed = {}]]
    /\ UNCHANGED <<newsVars, stream, kind>>

-----------------------------------------------------------------------------

TaskReports(t) ==
    NodeStarts(t) \/ ChainNests(t) \/ ModelSays(t) \/ ToolWorks(t) \/ ChainEnds(t)

ViewerStep(v) == Open(v) \/ Subscribe(v) \/ Snapshot(v) \/ Deliver(v) \/ Drop(v)

StreamNext ==
    \/ Publish \/ JobMoves \/ JobSaves
    \/ \E t \in Tasks : TaskReports(t)
    \/ \E v \in Viewers : ViewerStep(v)

StreamSpec == StreamInit /\ [][StreamNext]_streamVars

-----------------------------------------------------------------------------
(* Properties.                                                             *)

Tabs == [pc : {"off", "opening", "subscribed", "listening", "ending", "closed"},
         wire : Seq([type : Kept, node : Nodes \cup {NoNode}]
                    \cup [type : EndTypes \cup {"graph.interrupt"}] \cup Snapshots),
         status : Statuses, asking : BOOLEAN, node : Nodes \cup {NoNode},
         told : BOOLEAN, late : SUBSET Announced, missed : SUBSET Announced]

(* Every variable of the stream has its type.                              *)
StreamTypeOK ==
    /\ status \in Statuses
    /\ speaker \in [Tasks \cup Clients -> [step : {"none", "publish", "save"},
                                          status : Announced \cup {"none"}]]
    /\ streaming \subseteq Tasks
    /\ chain \in [Tasks -> [node : Nodes \cup {NoNode}, depth : 0 .. MaxDepth, ids : SUBSET Nat]]
    /\ agents \in [Tasks -> Agents]
    /\ spawned \in 0 .. MaxAgents
    /\ reached \in Nodes \cup {NoNode}
    /\ current_node \in Nodes \cup {NoNode}
    /\ kind \in [Viewers -> {"graphql", "sse"}]
    /\ tab \in [Viewers -> Tabs]
    /\ drops \in 0 .. MaxDrops

(* What a node's chains and tools report goes under an agent spawned for   *)
(* this run of the node, never under one of an earlier run.                *)
RunHasOwnAgent ==
    \A t \in Tasks : chain[t].depth > 0 => agents[t][chain[t].node] \in chain[t].ids

(* Once an agent was spawned on a page's connection, every token is filed  *)
(* under the node that streamed it, though the store looks at no agent id  *)
(* and a snapshot may name any earlier node: it comes before what gathered *)
(* meanwhile, and a lost connection takes its messages with it.  (Before   *)
(* that a token may go to the node a question or a pause left on record.)  *)
Token(v) == tab[v].pc = "listening" /\ tab[v].wire # <<>>
            /\ Head(tab[v].wire).type \in {"agent.token", "output.token"}
TokensFiled ==
    \A v \in Viewers :
        Token(v) /\ tab[v].told => tab[v].node = Head(tab[v].wire).node

(* A stream that is open and drained, when nobody is about to speak, has   *)
(* not missed an ending or a question: subscribing before the snapshot     *)
(* leaves no gap but the worker's own, between its publish and its save.   *)
(* (The REST stream also misses what was news before it.  timed_out is     *)
(* never announced, nor what an old copy written back restores.)           *)
Endings == Announced \ {"waiting"}
Quiet == \A a \in Tasks \cup Clients : speaker[a] = Silent
NothingMissed ==
    \A v \in Viewers :
        Quiet /\ tab[v].pc = "listening" /\ tab[v].wire = <<>> =>
            /\ status \in Endings => tab[v].missed \cap Endings # {}
            /\ status = "waiting" => tab[v].asking \/ "waiting" \in tab[v].missed

(* What a tab shows as over stays over: the stream ends with the ending,   *)
(* so no event of a revived job reaches it.                                *)
EndingStays ==
    [][\A v \in Viewers : tab[v].status \in Terminal => tab'[v].status = tab[v].status]_streamVars

=============================================================================
