--------------------------- MODULE EventStreamProofs ---------------------------
(***************************************************************************)
(* EventStream for any number of tasks, viewers and nodes, and any bounds. *)
(*                                                                         *)
(* EndInv carries the result about endings: a tab that shows a job as over *)
(* is closed, because an ending closes the stream that brings it, and the  *)
(* snapshot of a job that is over is only sent on a stream that ends with  *)
(* it.  ToldInv carries the result about what a tab is told, and FiledInv  *)
(* the one about where a page files tokens.                                *)
(***************************************************************************)
EXTENDS EventStream, SequenceTheorems, TLAPS

Sent == [type : Kept, node : Nodes \cup {NoNode}]
        \cup [type : EndTypes \cup {"graph.interrupt"}] \cup Snapshots
ChainType == [node : Nodes \cup {NoNode}, depth : 0 .. MaxDepth, ids : SUBSET Nat]

(* A tab that shows an ending is closed, and none is sent a snapshot of a  *)
(* job that is over but one whose stream ends with it.                     *)
Fits(b) ==
    /\ b.status \in Terminal => b.pc = "closed"
    /\ b.pc # "ending" =>
          \A i \in 1 .. Len(b.wire) :
              b.wire[i].type = "job.snapshot" => b.wire[i].status \notin Terminal

EndInv == \A v \in Viewers : Fits(tab[v])

(* EndingStays, of one step.                                               *)
Stays == \A v \in Viewers : tab[v].status \in Terminal => tab'[v].status = tab[v].status

(* A chain under way is a node's.                                          *)
NodeInv == \A t \in Tasks : chain[t].depth > 0 => chain[t].node \in Nodes

Inv == StreamTypeOK /\ NodeInv /\ RunHasOwnAgent /\ EndInv

-----------------------------------------------------------------------------
(* Events.                                                                 *)

(* Everything the job says is an event of its own kind, and no snapshot.   *)
LEMMA StatusEvents ==
    ASSUME NEW s \in Announced
    PROVE  StatusEvent(s) \in Sent /\ StatusEvent(s).type # "job.snapshot"
  <1>1. StatusType[s] \in EndTypes \cup {"graph.interrupt"}
    BY DEF Announced, TaskNews, StatusType, EndTypes
  <1>2. StatusType[s] # "job.snapshot"
    BY <1>1 DEF EndTypes
  <1> QED  BY <1>1, <1>2 DEF StatusEvent, Sent

(* What an agent does is told in one event at most, under the node it runs *)
(* in.                                                                     *)
LEMMA SeenEvents ==
    ASSUME NEW a \in Agents, NEW id \in Nat, NEW node \in Nodes \cup {NoNode},
           NEW text \in BOOLEAN,
           NEW event \in Says \cup {"on_tool_start", "on_tool_end", "on_chain_start", "on_chain_end"}
    PROVE  LET seen == Seen(Transform(a, [event |-> event, node |-> node, text |-> text], id))
           IN  \/ seen = <<>>
               \/ \E e \in [type : Kept, node : Nodes \cup {NoNode}] : seen = <<e>>
  <1> DEFINE c == [event |-> event, node |-> node, text |-> text]
             events == Transform(a, c, id)
  <1>1. CASE events = <<>>
    BY <1>1 DEF Seen
  <1>2. CASE Head(events).type \notin Kept
    BY <1>2 DEF Seen
  <1>3. CASE events # <<>> /\ Head(events).type \in Kept
    <2>1. Head(events).node = node
      BY <1>3 DEF Transform, EmitToken, EmitTool, ChainStart, ChainEnd, AgentEvent, Says, Kept
    <2>2. [type |-> Head(events).type, node |-> Head(events).node]
              \in [type : Kept, node : Nodes \cup {NoNode}]
      BY <1>3, <2>1
    <2> QED  BY <1>3, <2>2 DEF Seen
  <1> QED  BY <1>1, <1>2, <1>3

(* A transformer's agents after a callback.                                *)
LEMMA AssignType ==
    ASSUME NEW a \in Agents, NEW id \in Nat, NEW c
    PROVE  Assign(a, c, id) \in Agents
  BY DEF Assign, Agents

(* A tab keeps its type, and its ending, when more is sent to it.          *)
LEMMA BroadcastKeeps ==
    ASSUME tab \in [Viewers -> Tabs], EndInv, NEW events \in Seq(Sent), Broadcast(events),
           \A i \in 1 .. Len(events) : events[i].type # "job.snapshot"
    PROVE  /\ tab' \in [Viewers -> Tabs] /\ EndInv'
           /\ \A v \in Viewers : tab'[v].status = tab[v].status
  <1> SUFFICES ASSUME NEW v \in Viewers
               PROVE  /\ tab'[v] \in Tabs
                      /\ tab'[v].status = tab[v].status /\ tab'[v].pc = tab[v].pc
                      /\ tab[v].pc # "ending" =>
                            \A i \in 1 .. Len(tab'[v].wire) :
                                tab'[v].wire[i].type = "job.snapshot" =>
                                    tab'[v].wire[i].status \notin Terminal
    <2>1. tab' = [v \in Viewers |-> tab'[v]]
      BY DEF Broadcast
    <2> QED  BY <2>1 DEF EndInv, Fits
  <1>1. tab[v] \in Tabs /\ tab[v].wire \in Seq(Sent)
    BY DEF Tabs, Sent
  <1>2. CASE ~Subscribed(v)
    BY <1>1, <1>2 DEF Broadcast, EndInv, Fits
  <1>3. CASE Subscribed(v)
    <2> DEFINE w == tab[v].wire \o events
    <2>1. tab'[v] = [tab[v] EXCEPT !.wire = w]
      BY <1>3 DEF Broadcast
    <2>2. w \in Seq(Sent)
      BY <1>1
    <2>3. tab'[v] \in Tabs /\ tab'[v].wire = w
      BY <1>1, <2>1, <2>2 DEF Tabs, Sent
    <2>4. tab'[v].status = tab[v].status /\ tab'[v].pc = tab[v].pc
      BY <1>1, <2>1 DEF Tabs
    <2>5. ASSUME tab[v].pc # "ending", NEW i \in 1 .. Len(w), w[i].type = "job.snapshot"
          PROVE  w[i].status \notin Terminal
      <3>1. /\ Len(w) = Len(tab[v].wire) + Len(events)
            /\ w[i] = IF i <= Len(tab[v].wire) THEN tab[v].wire[i]
                      ELSE events[i - Len(tab[v].wire)]
            /\ Len(tab[v].wire) \in Nat /\ Len(events) \in Nat
        BY <1>1
      <3>2. i <= Len(tab[v].wire)
        <4>1. CASE i > Len(tab[v].wire)
          <5>1. i - Len(tab[v].wire) \in 1 .. Len(events)
            <6> DEFINE m == Len(tab[v].wire)
                       k == Len(events)
            <6>1. m \in Nat /\ k \in Nat /\ i \in 1 .. m + k /\ i > m
              BY <3>1, <4>1
            <6> HIDE DEF m, k
            <6>2. i - m \in 1 .. k
              BY <6>1
            <6> QED  BY <6>2 DEF m, k
          <5> QED  BY <2>5, <3>1, <4>1, <5>1
        <4> QED  BY <3>1, <4>1
      <3> QED  BY <2>5, <3>1, <3>2 DEF EndInv, Fits
    <2> HIDE DEF w
    <2> QED  BY <2>3, <2>4, <2>5
  <1> QED  BY <1>2, <1>3

(* A tab that changes on its own.                                          *)
LEMMA ConnectKeeps ==
    ASSUME tab \in [Viewers -> Tabs], EndInv, NEW v \in Viewers, NEW new \in Tabs, Fits(new),
           tab' = [tab EXCEPT ![v] = new],
           tab[v].status \in Terminal => new.status = tab[v].status
    PROVE  tab' \in [Viewers -> Tabs] /\ EndInv' /\ Stays
  BY DEF EndInv, Stays

(* What the store makes of an event.                                       *)
LEMMA FoldKeeps ==
    ASSUME NEW b \in Tabs, NEW e \in Sent
    PROVE  /\ Fold(b, e) \in Tabs
           /\ Fold(b, e).pc = b.pc /\ Fold(b, e).wire = b.wire
           /\ \/ Fold(b, e).status \in {b.status, "going", "waiting"}
              \/ e.type \in EndTypes
              \/ e.type = "job.snapshot" /\ Fold(b, e).status = e.status
  <1> USE DEF Tabs
  <1>1. CASE e.type = "job.snapshot"
    <2>1. e.status \in Statuses /\ e.node \in Nodes \cup {NoNode}
      BY <1>1 DEF Sent, Snapshots, Kept, EndTypes
    <2> QED  BY <1>1, <2>1 DEF Fold
  <1>2. CASE e.type = "agent.spawned"
    <2>1. e.node \in Nodes \cup {NoNode} /\ "going" \in Statuses
      BY <1>2 DEF Sent, Snapshots, Kept, EndTypes, Statuses
    <2> QED  BY <1>2, <2>1 DEF Fold
  <1>3. CASE e.type = "graph.interrupt"
    BY <1>3 DEF Fold, Statuses
  <1>4. CASE e.type = "job.done"
    BY <1>4 DEF Fold, Statuses, Terminal, EndTypes
  <1>5. CASE e.type \in {"job.failed", "job.timed_out"}
    BY <1>5 DEF Fold, Statuses, Terminal, EndTypes
  <1>6. CASE e.type = "job.killed"
    BY <1>6 DEF Fold, Statuses, Terminal, EndTypes
  <1>7. CASE e.type \notin EndTypes \cup {"job.snapshot", "agent.spawned", "graph.interrupt"}
    BY <1>7 DEF Fold, EndTypes
  <1> QED  BY <1>1, <1>2, <1>3, <1>4, <1>5, <1>6, <1>7 DEF EndTypes

-----------------------------------------------------------------------------
(* What viewers do.                                                        *)

(* A viewer's step disturbs nobody else's.                                 *)
LEMMA ViewerKeeps ==
    ASSUME StreamTypeOK, EndInv, NEW v \in Viewers, ViewerStep(v)
    PROVE  /\ tab' \in [Viewers -> Tabs] /\ EndInv' /\ Stays
           /\ UNCHANGED <<newsVars, stream, kind>> /\ drops' \in 0 .. MaxDrops
  <1> DEFINE b == tab[v]
  <1>1. /\ tab \in [Viewers -> Tabs] /\ b \in Tabs /\ Fits(b)
        /\ b.wire \in Seq(Sent) /\ <<>> \in Seq(Sent)
        /\ status \in Statuses /\ current_node \in Nodes \cup {NoNode}
        /\ drops \in 0 .. MaxDrops /\ MaxDrops \in Nat
        /\ Window \subseteq Announced
    BY StreamBoundsAssumption DEF StreamTypeOK, EndInv, Tabs, Sent, Window, Announced
  <1>2. /\ UNCHANGED <<newsVars, stream, kind>> /\ drops' \in 0 .. MaxDrops
    BY <1>1 DEF ViewerStep, Open, Subscribe, Snapshot, Deliver, Drop, Connects
  <1>3. ASSUME NEW new \in Tabs, Fits(new), tab' = [tab EXCEPT ![v] = new],
               b.status \in Terminal => new.status = b.status
        PROVE  tab' \in [Viewers -> Tabs] /\ EndInv' /\ Stays
    BY <1>1, <1>3, ConnectKeeps
  <1> SUFFICES tab' \in [Viewers -> Tabs] /\ EndInv' /\ Stays
    BY <1>2
  <1>4. CASE Open(v)
    <2> DEFINE new == [b EXCEPT !.pc = IF status \in Terminal THEN "closed" ELSE "opening",
                                !.status = status, !.asking = status = "waiting",
                                !.node = current_node]
    <2>1. tab' = [tab EXCEPT ![v] = new] /\ b.pc = "off"
      BY <1>4 DEF Open, Connects
    <2>2. new \in Tabs /\ new.wire = b.wire /\ new.status = status
          /\ new.pc = (IF status \in Terminal THEN "closed" ELSE "opening")
      BY <1>1 DEF Tabs
    <2>3. Fits(new) /\ b.status \notin Terminal
      BY <1>1, <2>1, <2>2 DEF Fits
    <2> HIDE DEF new
    <2> QED  BY <1>3, <2>1, <2>2, <2>3
  <1>5. CASE Subscribe(v)
    <2> DEFINE new == IF kind[v] = "sse"
                      THEN [b EXCEPT !.pc = "listening",
                                     !.missed = Window \cup ({status} \cap Announced)]
                      ELSE [b EXCEPT !.pc = "subscribed", !.late = Window]
    <2>1. tab' = [tab EXCEPT ![v] = new] /\ b.pc = "opening"
      BY <1>5 DEF Subscribe, Connects
    <2>2. new \in Tabs /\ new.wire = b.wire /\ new.status = b.status
          /\ new.pc \in {"listening", "subscribed"}
      BY <1>1 DEF Tabs
    <2>3. Fits(new)
      BY <1>1, <2>1, <2>2 DEF Fits
    <2> HIDE DEF new
    <2> QED  BY <1>3, <2>1, <2>2, <2>3
  <1>6. CASE Snapshot(v)
    <2> DEFINE shot == CurrentSnapshot
               base == [b EXCEPT !.late = {}, !.missed = b.late \cap Window]
               w == <<shot>> \o b.wire
    <2>1. shot \in Sent /\ shot.type = "job.snapshot" /\ shot.status = status
      BY <1>1 DEF Sent, Snapshots, CurrentSnapshot
    <2>2. base \in Tabs /\ base.wire = b.wire /\ base.status = b.status /\ base.pc = b.pc
      BY <1>1 DEF Tabs
    <2>3. b.pc = "subscribed" /\ b.status \notin Terminal
      BY <1>1, <1>6 DEF Snapshot, Connects, Fits
    <2>4. CASE status \in Terminal
      <3> DEFINE new == [base EXCEPT !.pc = "ending", !.wire = <<shot>>]
      <3>1. tab' = [tab EXCEPT ![v] = new]
        BY <1>6, <2>4 DEF Snapshot, Connects
      <3>2. <<shot>> \in Seq(Sent)
        BY <2>1
      <3>3. new \in Tabs /\ new.status = b.status /\ new.pc = "ending"
        BY <2>2, <3>2 DEF Tabs, Sent
      <3>4. Fits(new)
        BY <2>3, <3>3 DEF Fits
      <3> HIDE DEF new
      <3> QED  BY <1>3, <2>3, <3>1, <3>3, <3>4
    <2>5. CASE status \notin Terminal
      <3> DEFINE new == [base EXCEPT !.pc = "listening", !.wire = w]
      <3>1. tab' = [tab EXCEPT ![v] = new]
        <4>1. tab' = [tab EXCEPT ![v] = [base EXCEPT !.pc = "listening", !.wire = <<shot>> \o @]]
          BY <1>6, <2>5 DEF Snapshot, Connects
        <4> QED  BY <2>2, <4>1
      <3>2. w \in Seq(Sent)
        BY <1>1, <2>1
      <3>3. /\ new \in Tabs /\ new.status = b.status /\ new.pc = "listening" /\ new.wire = w
        BY <2>2, <3>2 DEF Tabs, Sent
      <3>4. ASSUME NEW i \in 1 .. Len(w), w[i].type = "job.snapshot"
            PROVE  w[i].status \notin Terminal
        <4>1. /\ Len(b.wire) \in Nat /\ Len(w) = 1 + Len(b.wire)
              /\ w[i] = IF i = 1 THEN shot ELSE b.wire[i - 1]
          BY <1>1, <2>1
        <4>2. CASE i = 1
          BY <2>1, <2>5, <4>1, <4>2
        <4>3. CASE i # 1
          <5>1. i - 1 \in 1 .. Len(b.wire) /\ w[i] = b.wire[i - 1]
            BY <4>1, <4>3
          <5> QED  BY <1>1, <2>3, <3>4, <5>1 DEF Fits
        <4> QED  BY <4>2, <4>3
      <3>5. Fits(new)
        BY <2>3, <3>3, <3>4 DEF Fits
      <3> HIDE DEF new, w
      <3> QED  BY <1>3, <2>3, <3>1, <3>3, <3>5
    <2> QED  BY <2>4, <2>5
  <1>7. CASE Deliver(v)
    <2> DEFINE e == Head(b.wire)
               folded == Fold(b, e)
    <2>1. b.pc \in {"listening", "ending"} /\ b.wire # <<>> /\ b.status \notin Terminal
      BY <1>1, <1>7 DEF Deliver, Fits
    <2>2. e \in Sent /\ e = b.wire[1] /\ 1 \in 1 .. Len(b.wire)
      BY <1>1, <2>1
    <2>3. /\ folded \in Tabs /\ folded.pc = b.pc /\ folded.wire = b.wire
          /\ \/ folded.status \in {b.status, "going", "waiting"}
             \/ e.type \in EndTypes
             \/ e.type = "job.snapshot" /\ folded.status = e.status
      BY <1>1, <2>2, FoldKeeps
    <2>4. CASE e.type \in EndTypes \/ b.pc = "ending"
      <3> DEFINE new == [NewTab EXCEPT !.pc = "closed", !.status = folded.status]
      <3>1. tab' = [tab EXCEPT ![v] = new]
        BY <1>7, <2>4 DEF Deliver, Connects
      <3>2. folded.status \in Statuses
        BY <2>3 DEF Tabs
      <3> HIDE DEF folded
      <3>3. new \in Tabs /\ new.pc = "closed" /\ new.wire = <<>>
        BY <1>1, <3>2 DEF NewTab, Tabs, Sent
      <3> HIDE DEF new
      <3>4. Fits(new)
        BY <3>3 DEF Fits
      <3> QED  BY <1>3, <2>1, <3>1, <3>3, <3>4
    <2>5. CASE ~(e.type \in EndTypes \/ b.pc = "ending")
      <3> DEFINE new == [folded EXCEPT !.wire = Tail(@)]
      <3>1. tab' = [tab EXCEPT ![v] = new]
        BY <1>7, <2>5 DEF Deliver, Connects
      <3>2. Tail(b.wire) \in Seq(Sent)
        BY <1>1, <2>1
      <3>3. folded.status \notin Terminal
        BY <1>1, <2>1, <2>2, <2>3, <2>5 DEF Fits, Terminal
      <3> HIDE DEF folded
      <3>4. /\ new \in Tabs /\ new.pc = b.pc /\ new.status = folded.status
            /\ new.wire = Tail(b.wire)
        BY <2>3, <3>2 DEF Tabs, Sent
      <3> HIDE DEF new
      <3>5. \A i \in 1 .. Len(Tail(b.wire)) :
                i + 1 \in 1 .. Len(b.wire) /\ Tail(b.wire)[i] = b.wire[i + 1]
        BY <1>1, <2>1
      <3>6. Fits(new)
        BY <1>1, <2>5, <3>3, <3>4, <3>5 DEF Fits
      <3> QED  BY <1>3, <2>1, <3>1, <3>4, <3>6
    <2> QED  BY <2>4, <2>5
  <1>8. CASE Drop(v)
    <2> DEFINE new == [b EXCEPT !.pc = "opening", !.wire = <<>>, !.told = FALSE,
                                !.late = {}, !.missed = {}]
    <2>1. tab' = [tab EXCEPT ![v] = new]
          /\ b.pc \in {"subscribed", "listening", "ending"}
      BY <1>1, <1>8 DEF Drop
    <2>2. new \in Tabs /\ new.pc = "opening" /\ new.wire = <<>> /\ new.status = b.status
      BY <1>1 DEF Tabs, Sent
    <2>3. Fits(new)
      BY <1>1, <2>1, <2>2 DEF Fits
    <2> HIDE DEF new
    <2> QED  BY <1>3, <2>1, <2>2, <2>3
  <1> QED  BY <1>4, <1>5, <1>6, <1>7, <1>8 DEF ViewerStep

-----------------------------------------------------------------------------
(* What the job does.                                                      *)

(* A callback keeps the run's own agent: a chain start makes its new agent *)
(* one of the run's, and nothing else changes agents.                      *)
LEMMA ReportKeeps ==
    ASSUME Inv, NEW t \in Tasks, NEW node \in Nodes \cup {NoNode}, NEW text \in BOOLEAN,
           NEW event \in Says \cup {"on_tool_start", "on_tool_end", "on_chain_start", "on_chain_end"},
           NEW after \in ChainType, Reports(t, event, node, text, after),
           reached' \in Nodes \cup {NoNode},
           after.depth > 0 =>
               \/ event # "on_chain_start" /\ after.node = chain[t].node
                  /\ after.ids = chain[t].ids /\ chain[t].depth > 0
               \/ event = "on_chain_start" /\ node = after.node /\ node \in Nodes
                  /\ spawned + 1 \in after.ids
    PROVE  Inv' /\ Stays
  <1> DEFINE c == [event |-> event, node |-> node, text |-> text]
             seen == Seen(Transform(agents[t], c, spawned + 1))
  <1>1. /\ agents \in [Tasks -> Agents] /\ chain \in [Tasks -> ChainType]
        /\ spawned \in 0 .. MaxAgents /\ MaxAgents \in Nat /\ tab \in [Viewers -> Tabs]
        /\ spawned + 1 \in Nat
    BY StreamBoundsAssumption DEF Inv, StreamTypeOK, ChainType
  <1>2. /\ chain' = [chain EXCEPT ![t] = after]
        /\ agents' = [agents EXCEPT ![t] = Assign(@, c, spawned + 1)]
        /\ spawned' \in 0 .. MaxAgents
        /\ Broadcast(seen)
        /\ UNCHANGED <<newsVars, current_node, kind, drops>>
    BY <1>1 DEF Reports
  <1>3. seen \in Seq(Sent) /\ \A i \in 1 .. Len(seen) : seen[i].type # "job.snapshot"
    <2> HIDE DEF seen
    <2>1. CASE seen = <<>>
      <3>1. Len(seen) = 0 /\ seen \in Seq(Sent)
        BY <2>1
      <3> QED  BY <3>1
    <2>2. ASSUME NEW e \in [type : Kept, node : Nodes \cup {NoNode}], seen = <<e>>
          PROVE  seen \in Seq(Sent) /\ \A i \in 1 .. Len(seen) : seen[i].type # "job.snapshot"
      <3>1. e \in Sent /\ e.type # "job.snapshot"
        BY DEF Sent, Kept
      <3>2. Len(seen) = 1 /\ seen \in Seq(Sent) /\ seen[1] = e
        BY <2>2, <3>1
      <3> QED  BY <3>1, <3>2
    <2>3. seen = <<>> \/ \E e \in [type : Kept, node : Nodes \cup {NoNode}] : seen = <<e>>
      BY <1>1, SeenEvents DEF seen
    <2> QED  BY <2>1, <2>2, <2>3
  <1> HIDE DEF seen
  <1>4. tab' \in [Viewers -> Tabs] /\ EndInv' /\ Stays
    BY <1>1, <1>2, <1>3, BroadcastKeeps DEF Inv, Stays
  <1>5. Assign(agents[t], c, spawned + 1) \in Agents
    BY <1>1, AssignType
  <1>6. chain' \in [Tasks -> ChainType] /\ agents' \in [Tasks -> Agents]
    BY <1>1, <1>2, <1>5
  <1>7. StreamTypeOK'
    BY <1>2, <1>4, <1>6 DEF Inv, StreamTypeOK, ChainType, newsVars
  <1>8. RunHasOwnAgent'
    <2> SUFFICES ASSUME NEW s \in Tasks, chain'[s].depth > 0
                 PROVE  agents'[s][chain'[s].node] \in chain'[s].ids
      BY DEF RunHasOwnAgent
    <2>1. CASE s # t
      BY <1>1, <1>2, <2>1 DEF Inv, RunHasOwnAgent
    <2>2. CASE s = t
      <3>1. chain'[t] = after /\ agents'[t] = Assign(agents[t], c, spawned + 1)
        BY <1>1, <1>2
      <3>2. CASE event # "on_chain_start"
        <4>1. agents'[t] = agents[t]
          BY <3>1, <3>2 DEF Assign
        <4> QED  BY <2>2, <3>1, <3>2, <4>1 DEF Inv, RunHasOwnAgent
      <3>3. CASE event = "on_chain_start"
        <4>1. node = after.node /\ node \in Nodes /\ spawned + 1 \in after.ids
          BY <2>2, <3>1, <3>3
        <4>2. node # NoNode
          BY <4>1, NodesAssumption
        <4>3. agents'[t] = [agents[t] EXCEPT ![node] = spawned + 1]
          BY <3>1, <3>3, <4>2 DEF Assign
        <4>4. agents'[t][node] = spawned + 1
          BY <1>1, <4>1, <4>3 DEF Agents
        <4> QED  BY <2>2, <3>1, <4>1, <4>4
      <3> QED  BY <3>2, <3>3
    <2> QED  BY <2>1, <2>2
  <1>9. NodeInv'
    BY <1>1, <1>2 DEF Inv, NodeInv
  <1> QED  BY <1>4, <1>7, <1>8, <1>9 DEF Inv

(* Each callback of a task is such a report.                               *)
LEMMA TaskKeeps ==
    ASSUME Inv, NEW t \in Tasks, TaskReports(t)
    PROVE  Inv' /\ Stays
  <1>1. /\ chain[t] \in ChainType /\ spawned + 1 \in Nat /\ spawned \in Nat
        /\ chain[t].node \in Nodes \cup {NoNode} /\ chain[t].depth \in 0 .. MaxDepth
        /\ chain[t].ids \subseteq Nat /\ MaxDepth \in Nat \ {0}
        /\ reached \in Nodes \cup {NoNode}
    BY StreamBoundsAssumption DEF Inv, StreamTypeOK, ChainType
  <1>2. CASE NodeStarts(t)
    <2>1. PICK n \in Nodes :
            Reports(t, "on_chain_start", n, FALSE,
                    [node |-> n, depth |-> 1, ids |-> {spawned + 1}])
      BY <1>2 DEF NodeStarts
    <2>3. reached' = reached
      BY <1>2 DEF NodeStarts
    <2>2. [node |-> n, depth |-> 1, ids |-> {spawned + 1}] \in ChainType
      BY <1>1 DEF ChainType
    <2> QED  BY <1>1, <2>1, <2>2, <2>3, ReportKeeps
  <1>3. CASE ChainNests(t)
    <2> DEFINE after == [chain[t] EXCEPT !.depth = @ + 1, !.ids = @ \cup {spawned + 1}]
    <2>1. /\ chain[t].depth \in 1 .. MaxDepth - 1
          /\ Reports(t, "on_chain_start", chain[t].node, FALSE, after)
          /\ reached' = reached
      BY <1>3 DEF ChainNests
    <2>2. /\ after \in ChainType /\ after.node = chain[t].node
          /\ spawned + 1 \in after.ids
      <3>1. chain[t].depth + 1 \in 0 .. MaxDepth
        BY <1>1, <2>1
      <3>2. chain[t].ids \cup {spawned + 1} \in SUBSET Nat
        BY <1>1
      <3> QED  BY <1>1, <3>1, <3>2 DEF ChainType
    <2>3. chain[t].node \in Nodes
      BY <1>1, <2>1 DEF Inv, NodeInv
    <2> HIDE DEF after
    <2> QED  BY <1>1, <2>1, <2>2, <2>3, ReportKeeps
  <1>4. CASE ModelSays(t)
    BY <1>1, <1>4, ReportKeeps DEF ModelSays, Says
  <1>5. CASE ToolWorks(t)
    BY <1>1, <1>5, ReportKeeps DEF ToolWorks
  <1>6. CASE ChainEnds(t)
    <2> DEFINE after == IF chain[t].depth = 1 THEN NoChain ELSE [chain[t] EXCEPT !.depth = @ - 1]
    <2>1. chain[t].depth > 0 /\ Reports(t, "on_chain_end", chain[t].node, FALSE, after)
          /\ reached' \in Nodes \cup {NoNode}
      BY <1>1, <1>6 DEF ChainEnds
    <2>2. /\ after \in ChainType
          /\ after.depth > 0 => after.node = chain[t].node /\ after.ids = chain[t].ids
      BY <1>1, <2>1 DEF ChainType, NoChain
    <2> HIDE DEF after
    <2> QED  BY <1>1, <2>1, <2>2, ReportKeeps
  <1> QED  BY <1>2, <1>3, <1>4, <1>5, <1>6 DEF TaskReports

(* The job's own steps are no news to a tab but for what they broadcast.   *)
LEMMA JobKeeps ==
    ASSUME Inv, Publish \/ JobMoves \/ JobSaves
    PROVE  Inv' /\ Stays
  <1>1. /\ agents \in [Tasks -> Agents] /\ chain \in [Tasks -> ChainType]
        /\ tab \in [Viewers -> Tabs] /\ streaming \subseteq Tasks /\ status \in Statuses
        /\ reached \in Nodes \cup {NoNode} /\ current_node \in Nodes \cup {NoNode}
        /\ speaker \in [Tasks \cup Clients -> [step : {"none", "publish", "save"},
                                               status : Announced \cup {"none"}]]
    BY DEF Inv, StreamTypeOK, ChainType
  <1> DEFINE News == [step : {"none", "publish", "save"}, status : Announced \cup {"none"}]
             NewsOK == /\ status' \in Statuses
                       /\ speaker' \in [Tasks \cup Clients -> News]
                       /\ streaming' \subseteq Tasks
  <1>2. ASSUME NEW a \in Tasks \cup Clients, NEW from, NEW to \in News, Turns(a, from, to)
        PROVE  speaker' \in [Tasks \cup Clients -> News]
    BY <1>1, <1>2 DEF Turns
  <1>3. /\ TaskNews \subseteq Announced /\ "killed" \in Announced /\ Announced \subseteq Statuses
        /\ \A s \in Announced : \A step \in {"publish", "save"} : [step |-> step, status |-> s] \in News
        /\ Silent \in News
    BY DEF TaskNews, Announced, Statuses, Terminal, Silent
  <1>4. CASE Publish
    <2>1. PICK s \in Announced :
            /\ \/ \E t \in Tasks : s \in TaskNews /\ Say(t, s)
               \/ \E c \in Clients : KillSay(c)
            /\ Broadcast(<<StatusEvent(s)>>)
      BY <1>3, <1>4 DEF Publish
    <2>2. NewsOK
      <3>1. ASSUME NEW t \in Tasks, s \in TaskNews, Say(t, s)
            PROVE  NewsOK
        BY <1>1, <1>2, <1>3, <3>1 DEF Say
      <3>2. ASSUME NEW c \in Clients, KillSay(c)
            PROVE  NewsOK
        BY <1>1, <1>2, <1>3, <3>2 DEF KillSay
      <3> QED  BY <2>1, <3>1, <3>2
    <2>3. <<StatusEvent(s)>> \in Seq(Sent)
      BY StatusEvents
    <2>4. \A i \in 1 .. Len(<<StatusEvent(s)>>) : <<StatusEvent(s)>>[i].type # "job.snapshot"
      BY StatusEvents
    <2>5. tab' \in [Viewers -> Tabs] /\ EndInv' /\ Stays
      BY <1>1, <2>1, <2>3, <2>4, BroadcastKeeps DEF Inv, Stays
    <2>6. UNCHANGED <<chain, agents, spawned, reached, current_node, kind, drops>>
      BY <1>4 DEF Publish, stream
    <2>7. StreamTypeOK'
      BY <2>2, <2>5, <2>6 DEF Inv, StreamTypeOK
    <2> QED  BY <2>5, <2>6, <2>7 DEF Inv, NodeInv, RunHasOwnAgent
  <1>5. CASE JobMoves
    <2>1. NewsOK
      <3>1. ASSUME NEW t \in Tasks, Enter(t)
            PROVE  NewsOK
        BY <1>1, <3>1 DEF Enter
      <3>2. ASSUME NEW t \in Tasks, NEW s \in TaskNews, Decide(t, s)
            PROVE  NewsOK
        BY <1>1, <1>2, <1>3, <3>2 DEF Decide
      <3>3. ASSUME NEW ts \in SUBSET Tasks, Leave(ts)
            PROVE  NewsOK
        BY <1>1, <1>3, <3>3 DEF Leave
      <3>4. ASSUME NEW c \in Clients, Kill(c)
            PROVE  NewsOK
        BY <1>1, <1>2, <1>3, <3>4 DEF Kill
      <3> QED  BY <1>5, <3>1, <3>2, <3>3, <3>4 DEF JobMoves
    <2>2. /\ chain' = [t \in Tasks |-> IF t \in streaming' THEN chain[t] ELSE NoChain]
          /\ agents' = [t \in Tasks |-> IF t \in streaming' THEN agents[t] ELSE NoAgents]
          /\ reached' \in Nodes \cup {NoNode}
          /\ UNCHANGED <<spawned, current_node, kind, tab, drops>>
      BY <1>1, <1>5 DEF JobMoves, viewing
    <2>3. NoChain \in ChainType /\ NoChain.depth = 0 /\ NoAgents \in Agents
      BY StreamBoundsAssumption DEF NoChain, ChainType, NoAgents, Agents, NoAgent
    <2>4. chain' \in [Tasks -> ChainType] /\ agents' \in [Tasks -> Agents]
      BY <1>1, <2>2, <2>3
    <2>5. StreamTypeOK'
      BY <2>1, <2>2, <2>4 DEF Inv, StreamTypeOK, ChainType
    <2>6. NodeInv' /\ RunHasOwnAgent'
      BY <2>2, <2>3 DEF Inv, NodeInv, RunHasOwnAgent
    <2> QED  BY <2>2, <2>5, <2>6 DEF Inv, EndInv, Stays
  <1>6. CASE JobSaves
    <2>1. NewsOK
      <3>1. ASSUME NEW t \in Tasks, NEW s \in TaskNews, Settle(t, s)
            PROVE  NewsOK
        BY <1>1, <1>2, <1>3, <3>1 DEF Settle
      <3>2. ASSUME NEW c \in Clients, KillSave(c)
            PROVE  NewsOK
        BY <1>1, <1>2, <1>3, <3>2 DEF KillSave
      <3>3. CASE SaveQuietly
        BY <1>1, <3>3 DEF SaveQuietly, Unannounced, Statuses, Terminal
      <3> QED  BY <1>6, <3>1, <3>2, <3>3 DEF JobSaves, TaskNews
    <2>2. /\ UNCHANGED <<chain, agents, spawned, reached, kind, tab, drops>>
          /\ current_node' \in Nodes \cup {NoNode}
      BY <1>1, <1>6 DEF JobSaves, Names, viewing
    <2>3. StreamTypeOK'
      BY <2>1, <2>2 DEF Inv, StreamTypeOK
    <2> QED  BY <2>2, <2>3 DEF Inv, NodeInv, RunHasOwnAgent, EndInv, Stays
  <1> QED  BY <1>4, <1>5, <1>6

-----------------------------------------------------------------------------
(* The results.                                                            *)

(* At first no tab has been opened.                                        *)
LEMMA InitInv == StreamInit => Inv
  <1> SUFFICES ASSUME StreamInit PROVE Inv
    OBVIOUS
  <1>1. /\ <<>> \in Seq(Sent) /\ MaxDepth \in Nat /\ MaxAgents \in Nat /\ MaxDrops \in Nat
    BY StreamBoundsAssumption
  <1>2. NewTab \in Tabs /\ Fits(NewTab)
    BY <1>1 DEF NewTab, Tabs, Sent, Fits, Statuses, Terminal
  <1>3. NoChain \in ChainType /\ NoChain.depth = 0 /\ NoAgents \in Agents
    BY <1>1 DEF NoChain, ChainType, NoAgents, Agents, NoAgent
  <1>4. StreamTypeOK
    BY <1>1, <1>2, <1>3
    DEF StreamInit, Init, StreamTypeOK, ChainType, Statuses, Silent
  <1>5. NodeInv /\ RunHasOwnAgent /\ EndInv
    BY <1>2, <1>3 DEF StreamInit, NodeInv, RunHasOwnAgent, EndInv
  <1> QED  BY <1>4, <1>5 DEF Inv

(* The parts are kept by every step, and so is what a tab shows as over.   *)
LEMMA StepKeeps == Inv /\ [StreamNext]_streamVars => Inv' /\ Stays
  <1> SUFFICES ASSUME Inv, [StreamNext]_streamVars PROVE Inv' /\ Stays
    OBVIOUS
  <1>1. CASE UNCHANGED streamVars
    BY <1>1 DEF Inv, StreamTypeOK, NodeInv, RunHasOwnAgent, EndInv, Fits, Stays, streamVars,
                newsVars, stream, viewing
  <1>2. CASE Publish \/ JobMoves \/ JobSaves
    BY <1>2, JobKeeps
  <1>3. ASSUME NEW t \in Tasks, TaskReports(t)
        PROVE  Inv' /\ Stays
    BY <1>3, TaskKeeps
  <1>4. ASSUME NEW v \in Viewers, ViewerStep(v)
        PROVE  Inv' /\ Stays
    <2>1. /\ tab' \in [Viewers -> Tabs] /\ EndInv' /\ Stays
          /\ UNCHANGED <<newsVars, stream, kind>> /\ drops' \in 0 .. MaxDrops
      BY <1>4, ViewerKeeps DEF Inv
    <2>2. StreamTypeOK' /\ NodeInv' /\ RunHasOwnAgent'
      BY <2>1 DEF Inv, StreamTypeOK, NodeInv, RunHasOwnAgent, newsVars, stream
    <2> QED  BY <2>1, <2>2 DEF Inv
  <1> QED  BY <1>1, <1>2, <1>3, <1>4 DEF StreamNext

(* The parts together are inductive.                                       *)
THEOREM Inductive == StreamSpec => []Inv
  BY InitInv, StepKeeps, PTL DEF StreamSpec

(* Every variable of the stream has its type.                              *)
THEOREM TypeCorrect == StreamSpec => []StreamTypeOK
  <1>1. Inv => StreamTypeOK
    BY DEF Inv
  <1> QED  BY <1>1, Inductive, PTL

(* What a run of a node reports goes under an agent spawned for that run,  *)
(* however deep chains nest and however often the node has run before.     *)
THEOREM OwnAgent == StreamSpec => []RunHasOwnAgent
  <1>1. Inv => RunHasOwnAgent
    BY DEF Inv
  <1> QED  BY <1>1, Inductive, PTL

(* A tab that shows a job as over shows the same ending ever after,        *)
(* whatever the job does and however often connections are lost.           *)
THEOREM EndingsStay == StreamSpec => EndingStays
  <1>1. Inv /\ [StreamNext]_streamVars =>
          [\A v \in Viewers : tab[v].status \in Terminal => tab'[v].status = tab[v].status]_streamVars
    BY StepKeeps DEF Stays
  <1> QED  BY <1>1, Inductive, PTL DEF StreamSpec, EndingStays


-----------------------------------------------------------------------------
(* What a tab has been told.  ToldInv follows a piece of news from the     *)
(* moment it is published: it is on the wire, or the tab knows it came too *)
(* late for it, or (killed only) it is still to be published.              *)

Carries(w, types) == \E i \in 1 .. Len(w) : w[i].type \in types

(* The tab will show that the job asks, unless it knows it missed that.    *)
AskKnown(b) ==
    \/ Carries(b.wire, {"graph.interrupt"})
    \/ "waiting" \in b.missed
    \/ b.wire # <<>> /\ b.wire[1].type = "job.snapshot" /\ b.wire[1].status = "waiting"
    \/ (b.wire = <<>> \/ b.wire[1].type # "job.snapshot") /\ b.asking

(* Only the first thing on the wire is a snapshot, and none is before the  *)
(* stream has taken one.                                                   *)
WireFits(b) ==
    /\ b.pc \in {"off", "opening", "closed"} => b.wire = <<>>
    /\ \A i \in 1 .. Len(b.wire) :
          b.wire[i].type = "job.snapshot" => i = 1 /\ b.pc # "subscribed"

(* Between SUBSCRIBE and the snapshot: what is about to be saved.          *)
ToldSubscribed(b) ==
    \A t \in Tasks :
        /\ \A s \in {"done", "failed"} :
              Has(t, "save", s) => s \in b.late \/ Carries(b.wire, EndTypes)
        /\ Has(t, "save", "waiting") =>
              "waiting" \in b.late \/ Carries(b.wire, {"graph.interrupt"})

(* Listening: what is about to be saved, and what has been.                *)
ToldSaving(b) ==
    \A t \in Tasks :
        /\ \A s \in {"done", "failed"} :
              Has(t, "save", s) => s \in b.missed \/ Carries(b.wire, EndTypes)
        /\ Has(t, "save", "waiting") => AskKnown(b)

ToldSaved(b) ==
    /\ status \in Endings =>
          \/ b.missed \cap Endings # {}
          \/ Carries(b.wire, EndTypes)
          \/ status = "killed" /\ \E c \in Clients : Has(c, "publish", "killed")
    /\ status = "waiting" => AskKnown(b)

Told(b) ==
    /\ WireFits(b)
    /\ b.pc = "subscribed" => ToldSubscribed(b)
    /\ b.pc = "listening" => ToldSaving(b) /\ ToldSaved(b)

ToldInv == \A v \in Viewers : Told(tab[v])

(* What a wire carries stays on it until it is delivered.                  *)
LEMMA CarriesMore ==
    ASSUME NEW w \in Seq(Sent), NEW events \in Seq(Sent), NEW types,
           Carries(w, types) \/ Carries(events, types)
    PROVE  Carries(w \o events, types)
  <1>1. /\ Len(w) \in Nat /\ Len(events) \in Nat
        /\ Len(w \o events) = Len(w) + Len(events)
        /\ \A i \in 1 .. Len(w) : (w \o events)[i] = w[i]
        /\ \A i \in 1 .. Len(events) : (w \o events)[Len(w) + i] = events[i]
    OBVIOUS
  <1>2. CASE Carries(w, types)
    <2>1. PICK i \in 1 .. Len(w) : w[i].type \in types
      BY <1>2 DEF Carries
    <2>2. i \in 1 .. Len(w \o events) /\ (w \o events)[i] = w[i]
      BY <1>1
    <2> QED  BY <2>1, <2>2 DEF Carries
  <1>3. CASE Carries(events, types)
    <2>1. PICK i \in 1 .. Len(events) : events[i].type \in types
      BY <1>3 DEF Carries
    <2>2. Len(w) + i \in 1 .. Len(w \o events) /\ (w \o events)[Len(w) + i] = events[i]
      BY <1>1
    <2> QED  BY <2>1, <2>2 DEF Carries
  <1> QED  BY <1>2, <1>3

LEMMA CarriesOn ==
    ASSUME NEW w \in Seq(Sent), w # <<>>, NEW types, Carries(w, types), w[1].type \notin types
    PROVE  Carries(Tail(w), types)
  <1>1. PICK i \in 1 .. Len(w) : w[i].type \in types
    BY DEF Carries
  <1>2. i - 1 \in 1 .. Len(Tail(w)) /\ Tail(w)[i - 1] = w[i]
    BY <1>1
  <1> QED  BY <1>1, <1>2 DEF Carries

(* The first of a longer wire.                                             *)
LEMMA FirstOf ==
    ASSUME NEW w \in Seq(Sent), NEW events \in Seq(Sent),
           \A i \in 1 .. Len(events) : events[i].type # "job.snapshot"
    PROVE  /\ \A i \in 1 .. Len(w \o events) :
                  (w \o events)[i].type = "job.snapshot" =>
                      i \in 1 .. Len(w) /\ (w \o events)[i] = w[i]
           /\ w # <<>> => w \o events # <<>> /\ (w \o events)[1] = w[1]
           /\ w = <<>> /\ w \o events # <<>> => (w \o events)[1].type # "job.snapshot"
  <1>1. /\ Len(w) \in Nat /\ Len(events) \in Nat
        /\ Len(w \o events) = Len(w) + Len(events)
        /\ \A i \in 1 .. Len(w \o events) :
              (w \o events)[i] = IF i <= Len(w) THEN w[i] ELSE events[i - Len(w)]
    OBVIOUS
  <1>2. ASSUME NEW i \in 1 .. Len(w \o events), (w \o events)[i].type = "job.snapshot"
        PROVE  i \in 1 .. Len(w) /\ (w \o events)[i] = w[i]
    <2>1. CASE i > Len(w)
      <3>1. i - Len(w) \in 1 .. Len(events) /\ (w \o events)[i] = events[i - Len(w)]
        BY <1>1, <2>1
      <3> QED  BY <1>2, <3>1
    <2> QED  BY <1>1, <2>1
  <1>3. w # <<>> => w \o events # <<>> /\ (w \o events)[1] = w[1]
    OBVIOUS
  <1>4. w = <<>> /\ w \o events # <<>> => (w \o events)[1].type # "job.snapshot"
    <2>1. w = <<>> => w \o events = events
      OBVIOUS
    <2>2. events # <<>> => 1 \in 1 .. Len(events)
      OBVIOUS
    <2> QED  BY <2>1, <2>2
  <1> QED  BY <1>2, <1>3, <1>4

(* Publishing takes nothing away from what a tab was told.                 *)
LEMMA BroadcastTells ==
    ASSUME tab \in [Viewers -> Tabs], NEW v \in Viewers, WireFits(tab[v]),
           NEW events \in Seq(Sent), Broadcast(events),
           \A i \in 1 .. Len(events) : events[i].type # "job.snapshot"
    PROVE  /\ WireFits(tab'[v])
           /\ tab'[v].pc = tab[v].pc /\ tab'[v].late = tab[v].late
           /\ tab'[v].missed = tab[v].missed
           /\ \A types : Carries(tab[v].wire, types) => Carries(tab'[v].wire, types)
           /\ Subscribed(v) =>
                 \A types : Carries(events, types) => Carries(tab'[v].wire, types)
           /\ AskKnown(tab[v]) => AskKnown(tab'[v])
  <1>1. CASE ~Subscribed(v)
    BY <1>1 DEF Broadcast
  <1>2. CASE Subscribed(v)
    <2> DEFINE b == tab[v]
               w == b.wire \o events
    <2>1. b \in Tabs /\ b.wire \in Seq(Sent)
      BY DEF Tabs, Sent
    <2>2. tab'[v] = [b EXCEPT !.wire = w]
      BY <1>2 DEF Broadcast
    <2>3. /\ tab'[v].pc = b.pc /\ tab'[v].late = b.late /\ tab'[v].missed = b.missed
          /\ tab'[v].asking = b.asking /\ tab'[v].wire = w
      BY <2>1, <2>2 DEF Tabs
    <2>4. \A types : Carries(b.wire, types) \/ Carries(events, types) => Carries(w, types)
      BY <2>1, CarriesMore
    <2>5. /\ \A i \in 1 .. Len(w) :
                w[i].type = "job.snapshot" => i \in 1 .. Len(b.wire) /\ w[i] = b.wire[i]
          /\ b.wire # <<>> => w # <<>> /\ w[1] = b.wire[1]
          /\ b.wire = <<>> /\ w # <<>> => w[1].type # "job.snapshot"
      BY <2>1, FirstOf
    <2>6. b.pc \in {"subscribed", "listening"}
      BY <1>2 DEF Subscribed
    <2> HIDE DEF w
    <2>7. WireFits(tab'[v])
      BY <2>3, <2>5, <2>6 DEF WireFits
    <2>8. AskKnown(b) => AskKnown(tab'[v])
      BY <2>3, <2>4, <2>5 DEF AskKnown
    <2> QED  BY <2>3, <2>4, <2>7, <2>8
  <1> QED  BY <1>1, <1>2

(* A callback is no news of the status.                                    *)
LEMMA ReportTells ==
    ASSUME tab \in [Viewers -> Tabs], ToldInv, NEW events \in Seq(Sent), Broadcast(events),
           \A i \in 1 .. Len(events) : events[i].type # "job.snapshot",
           UNCHANGED newsVars
    PROVE  ToldInv'
  <1> SUFFICES ASSUME NEW v \in Viewers PROVE Told(tab[v])'
    BY DEF ToldInv
  <1>1. Told(tab[v]) /\ WireFits(tab[v])
    BY DEF ToldInv, Told
  <1>2. /\ WireFits(tab'[v])
        /\ tab'[v].pc = tab[v].pc /\ tab'[v].late = tab[v].late
        /\ tab'[v].missed = tab[v].missed
        /\ \A types : Carries(tab[v].wire, types) => Carries(tab'[v].wire, types)
        /\ AskKnown(tab[v]) => AskKnown(tab'[v])
    BY <1>1, BroadcastTells
  <1>3. ToldSubscribed(tab[v]) => ToldSubscribed(tab[v])'
    BY <1>2 DEF ToldSubscribed, Has, newsVars
  <1>4. ToldSaving(tab[v]) => ToldSaving(tab[v])'
    BY <1>2 DEF ToldSaving, Has, newsVars
  <1>5. ToldSaved(tab[v]) => ToldSaved(tab[v])'
    BY <1>2 DEF ToldSaved, Has, newsVars
  <1> QED  BY <1>1, <1>2, <1>3, <1>4, <1>5 DEF Told

(* What is published now reaches all who are subscribed; only afterwards   *)
(* is it about to be saved.                                                *)
LEMMA PublishTells ==
    ASSUME Inv, ToldInv, Publish
    PROVE  ToldInv'
  <1>1. /\ tab \in [Viewers -> Tabs]
        /\ speaker \in [Tasks \cup Clients -> [step : {"none", "publish", "save"},
                                               status : Announced \cup {"none"}]]
    BY DEF Inv, StreamTypeOK
  <1>2. PICK s \in Announced :
          /\ \/ s \in TaskNews /\ \E t \in Tasks : Say(t, s)
             \/ s = "killed" /\ \E c \in Clients : KillSay(c)
          /\ Broadcast(<<StatusEvent(s)>>)
    BY DEF Publish, Announced
  <1> DEFINE events == <<StatusEvent(s)>>
  <1>3. /\ events \in Seq(Sent)
        /\ \A i \in 1 .. Len(events) : events[i].type # "job.snapshot"
    BY StatusEvents
  <1>4. /\ s # "waiting" => Carries(events, EndTypes)
        /\ s = "waiting" => Carries(events, {"graph.interrupt"})
    <2>1. 1 \in 1 .. Len(events) /\ events[1] = StatusEvent(s)
      OBVIOUS
    <2>2. /\ s # "waiting" => StatusEvent(s).type \in EndTypes
          /\ s = "waiting" => StatusEvent(s).type = "graph.interrupt"
      BY DEF Announced, TaskNews, StatusEvent, StatusType, EndTypes
    <2> HIDE DEF events
    <2> QED  BY <2>1, <2>2 DEF Carries
  <1>5. /\ status' = status
        /\ \A t \in Tasks, x \in TaskNews : Has(t, "save", x)' => Has(t, "save", x) \/ x = s
        /\ s \in TaskNews =>
              \A c \in Clients : Has(c, "publish", "killed") => Has(c, "publish", "killed")'
    <2>1. ASSUME NEW t \in Tasks, s \in TaskNews, Say(t, s)
          PROVE  <1>5!:
      BY <1>1, <2>1 DEF Say, Turns, Has, TaskNews
    <2>2. ASSUME NEW c \in Clients, s = "killed", KillSay(c)
          PROVE  <1>5!:
      BY <1>1, <2>2, SpeakersAssumption DEF KillSay, Turns, Has, TaskNews, Silent
    <2> QED  BY <1>2, <2>1, <2>2
  <1> HIDE DEF events
  <1> SUFFICES ASSUME NEW v \in Viewers PROVE Told(tab[v])'
    BY DEF ToldInv
  <1>6. Told(tab[v]) /\ WireFits(tab[v])
    BY DEF ToldInv, Told
  <1>7. /\ WireFits(tab'[v])
        /\ tab'[v].pc = tab[v].pc /\ tab'[v].late = tab[v].late
        /\ tab'[v].missed = tab[v].missed
        /\ \A types : Carries(tab[v].wire, types) => Carries(tab'[v].wire, types)
        /\ Subscribed(v) => \A types : Carries(events, types) => Carries(tab'[v].wire, types)
        /\ AskKnown(tab[v]) => AskKnown(tab'[v])
    BY <1>1, <1>2, <1>3, <1>6, BroadcastTells DEF events
  <1>8. {"done", "failed", "waiting"} = TaskNews
    BY DEF TaskNews
  <1>9. CASE tab[v].pc = "subscribed"
    <2>1. Subscribed(v) /\ ToldSubscribed(tab[v])
      BY <1>6, <1>9 DEF Told, Subscribed
    <2>2. ToldSubscribed(tab[v])'
      BY <1>4, <1>5, <1>7, <1>8, <2>1 DEF ToldSubscribed
    <2> QED  BY <1>7, <1>9, <2>2 DEF Told
  <1>10. CASE tab[v].pc = "listening"
    <2>1. Subscribed(v) /\ ToldSaving(tab[v]) /\ ToldSaved(tab[v])
      BY <1>6, <1>10 DEF Told, Subscribed
    <2>2. s = "waiting" => AskKnown(tab'[v])
      BY <1>4, <1>7, <2>1 DEF AskKnown
    <2>3. ToldSaving(tab[v])'
      BY <1>4, <1>5, <1>7, <1>8, <2>1, <2>2 DEF ToldSaving
    <2>4. ToldSaved(tab[v])'
      <3>1. CASE s \in TaskNews
        BY <1>5, <1>7, <2>1, <3>1 DEF ToldSaved
      <3>2. CASE s = "killed"
        <4>1. Carries(tab'[v].wire, EndTypes)
          BY <1>4, <1>7, <2>1, <3>2
        <4> QED  BY <1>5, <1>7, <2>1, <4>1 DEF ToldSaved
      <3> QED  BY <1>2, <3>1, <3>2
    <2> QED  BY <1>7, <1>10, <2>3, <2>4 DEF Told
  <1> QED  BY <1>7, <1>9, <1>10 DEF Told

(* What is saved was about to be saved, or is a kill that is still to be   *)
(* published.                                                              *)
LEMMA JobTells ==
    ASSUME Inv, ToldInv, JobMoves \/ JobSaves
    PROVE  ToldInv'
  <1>1. /\ speaker \in [Tasks \cup Clients -> [step : {"none", "publish", "save"},
                                               status : Announced \cup {"none"}]]
        /\ Tasks \cap Clients = {}
    BY SpeakersAssumption DEF Inv, StreamTypeOK
  <1> DEFINE NoNewSave == \A t \in Tasks, x \in TaskNews : Has(t, "save", x)' => Has(t, "save", x)
             KillsGoOn == \A c \in Clients : Has(c, "publish", "killed") => Has(c, "publish", "killed")'
             Saved == \/ status' = status
                      \/ status' \in {"going", "timed_out"}
                      \/ \E t \in Tasks : Has(t, "save", status') /\ status' \in TaskNews
                      \/ status' = "killed" /\ \E c \in Clients : Has(c, "publish", "killed")'
  <1>2. tab' = tab
    BY DEF JobMoves, JobSaves, viewing
  <1>3. ASSUME JobMoves PROVE NoNewSave /\ KillsGoOn /\ Saved
    <2>1. ASSUME NEW t \in Tasks, Enter(t) PROVE NoNewSave /\ KillsGoOn /\ Saved
      BY <2>1 DEF Enter, Has
    <2>2. ASSUME NEW t \in Tasks, NEW s \in TaskNews, Decide(t, s)
          PROVE  NoNewSave /\ KillsGoOn /\ Saved
      BY <1>1, <2>2 DEF Decide, Turns, Has, TaskNews, Silent
    <2>3. ASSUME NEW ts \in SUBSET Tasks, Leave(ts) PROVE NoNewSave /\ KillsGoOn /\ Saved
      BY <1>1, <2>3 DEF Leave, Has, TaskNews, Silent
    <2>4. ASSUME NEW c \in Clients, Kill(c) PROVE NoNewSave /\ KillsGoOn /\ Saved
      BY <1>1, <2>4 DEF Kill, Turns, Has, TaskNews, Silent
    <2> HIDE DEF NoNewSave, KillsGoOn, Saved
    <2> QED  BY <1>3, <2>1, <2>2, <2>3, <2>4 DEF JobMoves
  <1>4. ASSUME JobSaves PROVE NoNewSave /\ KillsGoOn /\ Saved
    <2>1. ASSUME NEW t \in Tasks, NEW s \in TaskNews, Settle(t, s)
          PROVE  NoNewSave /\ KillsGoOn /\ Saved
      <3>1. speaker' = [speaker EXCEPT ![t] = Silent] /\ t \notin Clients
        BY <1>1, <2>1 DEF Settle, Turns
      <3>2. NoNewSave
        BY <1>1, <3>1 DEF Has, Silent
      <3>3. KillsGoOn
        BY <1>1, <3>1 DEF Has
      <3>4. Saved
        BY <2>1 DEF Settle, Turns, Has
      <3> QED  BY <3>2, <3>3, <3>4
    <2>2. ASSUME NEW c \in Clients, KillSave(c) PROVE NoNewSave /\ KillsGoOn /\ Saved
      <3>1. /\ speaker' = [speaker EXCEPT ![c] = [step |-> "publish", status |-> "killed"]]
            /\ speaker[c] = [step |-> "save", status |-> "killed"]
            /\ status' = "killed"
        BY <2>2 DEF KillSave, Turns
      <3>2. NoNewSave
        BY <1>1, <3>1 DEF Has
      <3>3. KillsGoOn /\ Has(c, "publish", "killed")'
        BY <1>1, <3>1 DEF Has
      <3>4. Saved
        BY <3>1, <3>3
      <3> QED  BY <3>2, <3>3, <3>4
    <2>3. CASE SaveQuietly
      BY <2>3 DEF SaveQuietly, Has, Unannounced
    <2> HIDE DEF NoNewSave, KillsGoOn, Saved
    <2> QED  BY <1>4, <2>1, <2>2, <2>3 DEF JobSaves, TaskNews
  <1>5. NoNewSave /\ KillsGoOn /\ Saved
    BY <1>3, <1>4
  <1> SUFFICES ASSUME NEW v \in Viewers PROVE Told(tab[v])'
    BY DEF ToldInv
  <1>6. Told(tab[v])
    BY DEF ToldInv
  <1>7. ToldSubscribed(tab[v]) => ToldSubscribed(tab[v])'
    BY <1>2, <1>5 DEF ToldSubscribed, TaskNews
  <1>8. ToldSaving(tab[v]) => ToldSaving(tab[v])'
    BY <1>2, <1>5 DEF ToldSaving, TaskNews
  <1>9. ToldSaving(tab[v]) /\ ToldSaved(tab[v]) => ToldSaved(tab[v])'
    <2> SUFFICES ASSUME ToldSaving(tab[v]), ToldSaved(tab[v]) PROVE ToldSaved(tab[v])'
      OBVIOUS
    <2>1. CASE status' = status
      BY <1>2, <1>5, <2>1 DEF ToldSaved
    <2>2. CASE status' \in {"going", "timed_out"}
      BY <2>2 DEF ToldSaved, Endings, Announced, TaskNews
    <2>3. ASSUME NEW t \in Tasks, Has(t, "save", status'), status' \in TaskNews
          PROVE  ToldSaved(tab[v])'
      <3>1. status' \in {"done", "failed", "waiting"} /\ {"done", "failed"} \subseteq Endings
        BY <2>3 DEF TaskNews, Endings, Announced
      <3>2. CASE status' = "waiting"
        BY <1>2, <2>3, <3>1, <3>2 DEF ToldSaving, ToldSaved, Endings
      <3>3. CASE status' \in {"done", "failed"}
        <4>1. status' \in tab[v].missed \/ Carries(tab[v].wire, EndTypes)
          BY <2>3, <3>3 DEF ToldSaving
        <4> QED  BY <1>2, <3>1, <3>3, <4>1 DEF ToldSaved
      <3> QED  BY <3>1, <3>2, <3>3
    <2>4. CASE status' = "killed" /\ \E c \in Clients : Has(c, "publish", "killed")'
      BY <2>4 DEF ToldSaved
    <2> QED  BY <1>5, <2>1, <2>2, <2>3, <2>4
  <1> QED  BY <1>2, <1>6, <1>7, <1>8, <1>9 DEF Told

(* What an event that ends nothing does to what a tab knows.               *)
LEMMA FoldTells ==
    ASSUME NEW b \in Tabs, NEW e \in Sent, e.type \notin EndTypes
    PROVE  /\ Fold(b, e) \in Tabs
           /\ Fold(b, e).pc = b.pc /\ Fold(b, e).wire = b.wire
           /\ Fold(b, e).missed \cap Endings = b.missed \cap Endings
           /\ e.type = "graph.interrupt" => Fold(b, e).asking
           /\ e.type # "graph.interrupt" => Fold(b, e).missed = b.missed
           /\ e.type = "job.snapshot" => Fold(b, e).asking = (e.status = "waiting")
           /\ e.type \notin {"job.snapshot", "graph.interrupt"} => Fold(b, e).asking = b.asking
  <1>1. Fold(b, e) \in Tabs /\ Fold(b, e).pc = b.pc /\ Fold(b, e).wire = b.wire
    BY FoldKeeps
  <1>2. CASE e.type = "graph.interrupt"
    BY <1>1, <1>2 DEF Fold, Tabs, Endings
  <1>3. CASE e.type = "job.snapshot"
    BY <1>1, <1>3 DEF Fold, Tabs
  <1>4. CASE e.type \notin {"job.snapshot", "graph.interrupt"}
    BY <1>1, <1>4 DEF Fold, Tabs, EndTypes
  <1> QED  BY <1>2, <1>3, <1>4

(* A viewer's step, when its tab is told as much as before.                *)
LEMMA ConnectTells ==
    ASSUME tab \in [Viewers -> Tabs], ToldInv, NEW v \in Viewers, NEW new, Told(new),
           tab' = [tab EXCEPT ![v] = new], UNCHANGED newsVars
    PROVE  ToldInv'
  <1> SUFFICES ASSUME NEW u \in Viewers PROVE Told(tab[u])'
    BY DEF ToldInv
  <1>1. Told(tab'[u])
    BY DEF ToldInv
  <1> QED
    BY <1>1 DEF Told, ToldSubscribed, ToldSaving, ToldSaved, Has, newsVars

LEMMA ViewerTells ==
    ASSUME Inv, ToldInv, NEW v \in Viewers, ViewerStep(v)
    PROVE  ToldInv'
  <1> DEFINE b == tab[v]
  <1>1. /\ tab \in [Viewers -> Tabs] /\ b \in Tabs /\ b.wire \in Seq(Sent)
        /\ status \in Statuses /\ current_node \in Nodes \cup {NoNode}
        /\ Told(b) /\ WireFits(b)
        /\ Window \subseteq Announced
    BY DEF Inv, StreamTypeOK, ToldInv, Told, Tabs, Sent, Window, Announced
  <1>2. UNCHANGED newsVars
    BY DEF ViewerStep, Open, Subscribe, Snapshot, Deliver, Drop, Connects
  <1>3. ASSUME NEW new, Told(new), tab' = [tab EXCEPT ![v] = new] PROVE ToldInv'
    BY <1>1, <1>2, <1>3, ConnectTells
  <1>5. \A t \in Tasks, s \in {"done", "failed", "waiting"} : Has(t, "save", s) => s \in Window
    BY DEF Window, TaskNews
  <1>6. CASE Open(v)
    <2> DEFINE new == [b EXCEPT !.pc = IF status \in Terminal THEN "closed" ELSE "opening",
                                !.status = status, !.asking = status = "waiting",
                                !.node = current_node]
    <2>1. tab' = [tab EXCEPT ![v] = new] /\ b.pc = "off"
      BY <1>6 DEF Open, Connects
    <2>2. new.pc \in {"opening", "closed"} /\ new.wire = <<>>
      BY <1>1, <2>1 DEF Tabs, WireFits
    <2> HIDE DEF new
    <2>3. Told(new)
      BY <2>2 DEF Told, WireFits
    <2> QED  BY <1>3, <2>1, <2>3
  <1>7. CASE Subscribe(v)
    <2>1. b.pc = "opening" /\ b.wire = <<>>
      BY <1>1, <1>7 DEF Subscribe, Connects, WireFits
    <2>2. CASE kind[v] = "sse"
      <3> DEFINE new == [b EXCEPT !.pc = "listening",
                                  !.missed = Window \cup ({status} \cap Announced)]
      <3>1. tab' = [tab EXCEPT ![v] = new]
        BY <1>7, <2>2 DEF Subscribe, Connects
      <3>2. /\ new.pc = "listening" /\ new.wire = <<>>
            /\ new.missed = Window \cup ({status} \cap Announced)
        BY <1>1, <2>1 DEF Tabs
      <3> HIDE DEF new
      <3>3. WireFits(new)
        BY <3>2 DEF WireFits
      <3>4. ToldSaving(new)
        BY <1>5, <3>2 DEF ToldSaving, AskKnown
      <3>5. ToldSaved(new)
        BY <3>2 DEF ToldSaved, AskKnown, Endings, Announced, TaskNews
      <3> QED  BY <1>3, <3>1, <3>2, <3>3, <3>4, <3>5 DEF Told
    <2>3. CASE kind[v] # "sse"
      <3> DEFINE new == [b EXCEPT !.pc = "subscribed", !.late = Window]
      <3>1. tab' = [tab EXCEPT ![v] = new]
        BY <1>7, <2>3 DEF Subscribe, Connects
      <3>2. new.pc = "subscribed" /\ new.wire = <<>> /\ new.late = Window
        BY <1>1, <2>1 DEF Tabs
      <3> HIDE DEF new
      <3>3. WireFits(new)
        BY <3>2 DEF WireFits
      <3>4. ToldSubscribed(new)
        BY <1>5, <3>2 DEF ToldSubscribed
      <3> QED  BY <1>3, <3>1, <3>2, <3>3, <3>4 DEF Told
    <2> QED  BY <2>2, <2>3
  <1>8. CASE Snapshot(v)
    <2> DEFINE shot == CurrentSnapshot
               w == <<shot>> \o b.wire
    <2>1. b.pc = "subscribed" /\ ToldSubscribed(b)
      BY <1>1, <1>8 DEF Snapshot, Connects, Told
    <2>2. shot \in Sent /\ <<shot>> \in Seq(Sent)
      BY <1>1 DEF CurrentSnapshot, Sent, Snapshots
    <2>3. CASE status \in Terminal
      <3> DEFINE new == [b EXCEPT !.late = {}, !.missed = b.late \cap Window,
                                  !.pc = "ending", !.wire = <<shot>>]
      <3>1. tab' = [tab EXCEPT ![v] = new]
        BY <1>8, <2>3 DEF Snapshot, Connects
      <3>2. new.pc = "ending" /\ new.wire = <<shot>>
        BY <1>1 DEF Tabs
      <3> HIDE DEF new, shot
      <3>3. Told(new)
        BY <2>2, <3>2 DEF Told, WireFits
      <3> QED  BY <1>3, <3>1, <3>3
    <2>4. CASE status \notin Terminal
      <3> DEFINE new == [b EXCEPT !.late = {}, !.missed = b.late \cap Window,
                                  !.pc = "listening", !.wire = w]
      <3>1. tab' = [tab EXCEPT ![v] = new]
        <4> DEFINE base == [b EXCEPT !.late = {}, !.missed = b.late \cap Window]
        <4>1. tab' = [tab EXCEPT ![v] = [base EXCEPT !.pc = "listening", !.wire = <<shot>> \o @]]
          BY <1>8, <2>4 DEF Snapshot, Connects
        <4>2. base.wire = b.wire
          BY <1>1 DEF Tabs
        <4> QED  BY <4>1, <4>2
      <3>2. new.pc = "listening" /\ new.wire = w /\ new.missed = b.late \cap Window
        BY <1>1 DEF Tabs
      <3>3. /\ \A types : Carries(b.wire, types) => Carries(w, types)
            /\ w # <<>> /\ w[1] = shot
            /\ \A i \in 1 .. Len(w) : i = 1 \/ (i - 1 \in 1 .. Len(b.wire) /\ w[i] = b.wire[i - 1])
        <4>1. \A types : Carries(b.wire, types) => Carries(w, types)
          BY <1>1, <2>2, CarriesMore
        <4>2. /\ Len(b.wire) \in Nat /\ Len(w) = Len(b.wire) + 1 /\ w \in Seq(Sent)
              /\ \A i \in 1 .. Len(w) : w[i] = IF i = 1 THEN shot ELSE b.wire[i - 1]
          BY <1>1, <2>2
        <4> HIDE DEF w
        <4>3. \A i \in 1 .. Len(w) : i = 1 \/ i - 1 \in 1 .. Len(b.wire)
          BY <4>2
        <4>4. w # <<>> /\ 1 \in 1 .. Len(w)
          BY <4>2
        <4> QED  BY <4>1, <4>2, <4>3, <4>4
      <3>4. shot.type = "job.snapshot" /\ shot.status = status
        BY DEF CurrentSnapshot
      <3> HIDE DEF new, w, shot
      <3>5. WireFits(new)
        <4>1. ASSUME NEW i \in 1 .. Len(w), w[i].type = "job.snapshot"
              PROVE  i = 1
          BY <1>1, <2>1, <3>3, <4>1 DEF WireFits
        <4> QED  BY <3>2, <4>1 DEF WireFits
      <3>6. ToldSaving(new)
        BY <1>5, <2>1, <3>2, <3>3 DEF ToldSubscribed, ToldSaving, AskKnown
      <3>7. ToldSaved(new)
        BY <2>4, <3>2, <3>3, <3>4
        DEF ToldSaved, AskKnown, Endings, Announced, TaskNews, Terminal
      <3> QED  BY <1>3, <3>1, <3>2, <3>5, <3>6, <3>7 DEF Told
    <2> QED  BY <2>3, <2>4
  <1>9. CASE Deliver(v)
    <2> DEFINE e == Head(b.wire)
               folded == Fold(b, e)
    <2>1. b.pc \in {"listening", "ending"} /\ b.wire # <<>>
      BY <1>9 DEF Deliver
    <2>2. e \in Sent /\ e = b.wire[1]
      BY <1>1, <2>1
    <2>3. CASE e.type \in EndTypes \/ b.pc = "ending"
      <3> DEFINE new == [NewTab EXCEPT !.pc = "closed", !.status = folded.status]
      <3>1. tab' = [tab EXCEPT ![v] = new]
        BY <1>9, <2>3 DEF Deliver, Connects
      <3>2. new.pc = "closed" /\ new.wire = <<>>
        BY DEF NewTab
      <3> HIDE DEF new
      <3>3. Told(new)
        BY <3>2 DEF Told, WireFits
      <3> QED  BY <1>3, <3>1, <3>3
    <2>4. CASE ~(e.type \in EndTypes \/ b.pc = "ending")
      <3> DEFINE new == [folded EXCEPT !.wire = Tail(@)]
                 w == Tail(b.wire)
      <3>1. tab' = [tab EXCEPT ![v] = new]
        BY <1>9, <2>4 DEF Deliver, Connects
      <3>2. /\ folded \in Tabs /\ folded.pc = "listening" /\ folded.wire = b.wire
            /\ folded.missed \cap Endings = b.missed \cap Endings
            /\ e.type = "graph.interrupt" => folded.asking
            /\ e.type # "graph.interrupt" => folded.missed = b.missed
            /\ e.type = "job.snapshot" => folded.asking = (e.status = "waiting")
            /\ e.type \notin {"job.snapshot", "graph.interrupt"} => folded.asking = b.asking
        BY <1>1, <2>1, <2>2, <2>4, FoldTells
      <3> HIDE DEF folded
      <3>3. /\ new.pc = "listening" /\ new.wire = w
            /\ new.missed = folded.missed /\ new.asking = folded.asking
        BY <3>2 DEF Tabs
      <3>4. /\ \A types : Carries(b.wire, types) /\ e.type \notin types => Carries(w, types)
            /\ \A i \in 1 .. Len(w) : i + 1 \in 1 .. Len(b.wire) /\ i + 1 # 1 /\ w[i] = b.wire[i + 1]
            /\ w # <<>> => 1 \in 1 .. Len(w)
        BY <1>1, <2>1, <2>2, CarriesOn
      <3> HIDE DEF new, w, e
      <3>5. \A i \in 1 .. Len(w) : w[i].type # "job.snapshot"
        BY <1>1, <3>4 DEF WireFits
      <3>6. ToldSaving(b) /\ ToldSaved(b)
        BY <1>1, <2>1, <2>4 DEF Told
      <3>7. AskKnown(b) => AskKnown(new)
        BY <2>1, <2>2, <3>2, <3>3, <3>4, <3>5 DEF AskKnown
      <3>8. {"done", "failed"} \subseteq Endings
        BY DEF Endings, Announced, TaskNews
      <3>9. ToldSaving(new)
        BY <2>4, <3>2, <3>3, <3>4, <3>6, <3>7, <3>8 DEF ToldSaving
      <3>10. ToldSaved(new)
        BY <2>4, <3>2, <3>3, <3>4, <3>6, <3>7 DEF ToldSaved
      <3>11. WireFits(new)
        BY <3>3, <3>5 DEF WireFits
      <3> QED  BY <1>3, <3>1, <3>3, <3>9, <3>10, <3>11 DEF Told
    <2> QED  BY <2>3, <2>4
  <1>10. CASE Drop(v)
    <2> DEFINE new == [b EXCEPT !.pc = "opening", !.wire = <<>>, !.told = FALSE,
                                !.late = {}, !.missed = {}]
    <2>1. tab' = [tab EXCEPT ![v] = new]
      BY <1>10 DEF Drop
    <2>2. new.pc = "opening" /\ new.wire = <<>>
      BY <1>1 DEF Tabs
    <2> HIDE DEF new
    <2>3. Told(new)
      BY <2>2 DEF Told, WireFits
    <2> QED  BY <1>3, <2>1, <2>3
  <1> QED  BY <1>6, <1>7, <1>8, <1>9, <1>10 DEF ViewerStep

(* What a callback becomes goes under the node it came from; a chain start *)
(* in a node, and it alone, spawns.                                        *)
Becomes(seen, event, node) ==
    \/ seen = <<>> /\ (event = "on_chain_start" => node = NoNode)
    \/ \E e \in [type : Kept, node : Nodes \cup {NoNode}] :
          /\ seen = <<e>> /\ e.node = node
          /\ e.type = "agent.spawned" <=> event = "on_chain_start"

LEMMA SeenOf ==
    ASSUME NEW a \in Agents, NEW id \in Nat, NEW node \in Nodes \cup {NoNode},
           NEW text \in BOOLEAN,
           NEW event \in Says \cup {"on_tool_start", "on_tool_end", "on_chain_start", "on_chain_end"}
    PROVE  Becomes(Seen(Transform(a, [event |-> event, node |-> node, text |-> text], id)),
                   event, node)
  <1> DEFINE c == [event |-> event, node |-> node, text |-> text]
             events == Transform(a, c, id)
  <1>1. CASE event = "on_chain_start"
    <2>1. events = IF node = NoNode THEN <<>> ELSE <<AgentEvent("agent.spawned", node, id)>>
      BY <1>1 DEF Transform, ChainStart, Says
    <2>2. CASE node = NoNode
      BY <1>1, <2>1, <2>2 DEF Seen, Becomes
    <2>3. CASE node # NoNode
      <3>1. Seen(events) = <<[type |-> "agent.spawned", node |-> node]>>
        BY <2>1, <2>3 DEF Seen, Kept, AgentEvent
      <3>2. [type |-> "agent.spawned", node |-> node] \in [type : Kept, node : Nodes \cup {NoNode}]
        BY DEF Kept
      <3> QED  BY <1>1, <3>1, <3>2 DEF Becomes
    <2> QED  BY <2>2, <2>3
  <1>2. CASE event # "on_chain_start"
    <2>1. CASE events = <<>> \/ Head(events).type \notin Kept
      BY <1>2, <2>1 DEF Seen, Becomes
    <2>2. CASE events # <<>> /\ Head(events).type \in Kept
      <3>1. Head(events).node = node /\ Head(events).type # "agent.spawned"
        <4>1. CASE event \in Says
          <5>1. events = EmitToken(a, c)
            BY <4>1 DEF Transform, Says
          <5>2. Head(events) = AgentEvent(IF a[node] # NoAgent THEN "agent.token" ELSE "output.token",
                                          node, a[node])
            BY <2>2, <5>1 DEF EmitToken
          <5>3. Head(events).node = node /\ Head(events).type \in {"agent.token", "output.token"}
            BY <5>2 DEF AgentEvent
          <5> QED  BY <5>3
        <4>2. CASE event \in {"on_tool_start", "on_tool_end"}
          BY <2>2, <4>2 DEF Transform, EmitTool, AgentEvent, Says
        <4>3. CASE event = "on_chain_end"
          <5>1. Head(events).type \in {"agent.done", "graph.node_complete"}
            BY <4>3 DEF Transform, ChainEnd, AgentEvent, Says
          <5> QED  BY <2>2, <5>1 DEF Kept
        <4> QED  BY <1>2, <4>1, <4>2, <4>3
      <3>2. [type |-> Head(events).type, node |-> node] \in [type : Kept, node : Nodes \cup {NoNode}]
        BY <2>2
      <3>3. Seen(events) = <<[type |-> Head(events).type, node |-> node]>>
        BY <2>2, <3>1 DEF Seen
      <3> QED  BY <1>2, <3>1, <3>2, <3>3 DEF Becomes
    <2> QED  BY <2>1, <2>2
  <1> QED  BY <1>1, <1>2

(* A task's report: an event at most.  A node that starts spawns; a token  *)
(* comes from the node that runs.                                          *)
Report(t, events, after) ==
    /\ t \in streaming /\ Broadcast(events) /\ UNCHANGED newsVars
    /\ chain' = [chain EXCEPT ![t] = after]
    /\ \/ events = <<>> /\ (after.depth > 0 => chain[t].depth > 0 /\ after.node = chain[t].node)
       \/ \E e \in [type : Kept, node : Nodes \cup {NoNode}] :
             /\ events = <<e>>
             /\ e.type = "agent.spawned" => after.depth > 0 /\ after.node = e.node
             /\ e.type # "agent.spawned" =>
                   /\ chain[t].depth > 0 /\ e.node = chain[t].node
                   /\ after.depth > 0 => after.node = chain[t].node

Reported(t) ==
    \E events \in Seq(Sent), after \in ChainType :
        /\ Report(t, events, after)
        /\ \A i \in 1 .. Len(events) : events[i].type # "job.snapshot"

LEMMA EachReport ==
    ASSUME Inv, NEW t \in Tasks, TaskReports(t)
    PROVE  Reported(t)
  <1>1. /\ chain[t] \in ChainType /\ spawned + 1 \in Nat
        /\ agents[t] \in Agents
        /\ chain[t].node \in Nodes \cup {NoNode} /\ chain[t].depth \in 0 .. MaxDepth
        /\ chain[t].depth > 0 => chain[t].node \in Nodes
        /\ MaxDepth \in Nat \ {0} /\ chain[t].ids \subseteq Nat /\ spawned \in Nat
    BY StreamBoundsAssumption DEF Inv, StreamTypeOK, ChainType, NodeInv
  <1>2. ASSUME NEW node \in Nodes \cup {NoNode}, NEW text \in BOOLEAN,
               NEW event \in Says \cup {"on_tool_start", "on_tool_end", "on_chain_start", "on_chain_end"},
               NEW after \in ChainType, Reports(t, event, node, text, after),
               event = "on_chain_start" =>
                   node # NoNode /\ after.depth > 0 /\ after.node = node,
               event # "on_chain_start" =>
                   /\ chain[t].depth > 0 /\ node = chain[t].node
                   /\ after.depth > 0 => after.node = chain[t].node
        PROVE  Reported(t)
    <2> DEFINE c == [event |-> event, node |-> node, text |-> text]
               seen == Seen(Transform(agents[t], c, spawned + 1))
    <2>1. /\ t \in streaming /\ chain' = [chain EXCEPT ![t] = after]
          /\ Broadcast(seen) /\ UNCHANGED newsVars
      BY <1>2 DEF Reports
    <2>2. Becomes(seen, event, node)
      BY <1>1, SeenOf
    <2> HIDE DEF seen
    <2>3. CASE seen = <<>> /\ (event = "on_chain_start" => node = NoNode)
      <3>1. Report(t, seen, after)
        BY <1>2, <2>1, <2>3 DEF Report
      <3>2. seen \in Seq(Sent) /\ Len(seen) = 0
        BY <2>3
      <3>3. \A i \in 1 .. Len(seen) : seen[i].type # "job.snapshot"
        BY <3>2
      <3> QED  BY <1>2, <3>1, <3>2, <3>3 DEF Reported
    <2>4. ASSUME NEW e \in [type : Kept, node : Nodes \cup {NoNode}],
                 seen = <<e>>, e.node = node,
                 e.type = "agent.spawned" <=> event = "on_chain_start"
          PROVE  Reported(t)
      <3>1. Report(t, seen, after)
        BY <1>2, <2>1, <2>4 DEF Report
      <3>2. e \in Sent /\ e.type # "job.snapshot"
        BY DEF Sent, Kept
      <3>3. Len(seen) = 1 /\ seen \in Seq(Sent) /\ seen[1] = e
        BY <2>4, <3>2
      <3> QED  BY <1>2, <3>1, <3>2, <3>3 DEF Reported
    <2> QED  BY <2>2, <2>3, <2>4 DEF Becomes
  <1>3. CASE NodeStarts(t)
    <2>1. PICK n \in Nodes :
            Reports(t, "on_chain_start", n, FALSE,
                    [node |-> n, depth |-> 1, ids |-> {spawned + 1}])
      BY <1>3 DEF NodeStarts
    <2> DEFINE after == [node |-> n, depth |-> 1, ids |-> {spawned + 1}]
    <2>2. after \in ChainType /\ after.depth > 0 /\ after.node = n
      BY <1>1 DEF ChainType
    <2>3. Reports(t, "on_chain_start", n, FALSE, after)
      BY <2>1
    <2> HIDE DEF after
    <2> QED  BY <1>2, <2>2, <2>3, NodesAssumption
  <1>4. CASE ChainNests(t)
    <2> DEFINE after == [chain[t] EXCEPT !.depth = @ + 1, !.ids = @ \cup {spawned + 1}]
    <2>1. /\ chain[t].depth \in 1 .. MaxDepth - 1
          /\ Reports(t, "on_chain_start", chain[t].node, FALSE, after)
      BY <1>4 DEF ChainNests
    <2>2. after \in ChainType /\ after.node = chain[t].node /\ after.depth > 0
      <3>1. chain[t].depth + 1 \in 0 .. MaxDepth /\ chain[t].depth + 1 > 0
        BY <1>1, <2>1
      <3>2. chain[t].ids \cup {spawned + 1} \in SUBSET Nat
        BY <1>1
      <3>3. after.depth = chain[t].depth + 1
        BY <1>1 DEF ChainType
      <3>4. after \in ChainType /\ after.node = chain[t].node
        BY <1>1, <3>1, <3>2 DEF ChainType
      <3> QED  BY <3>1, <3>3, <3>4
    <2>3. chain[t].node # NoNode
      BY <1>1, <2>1, NodesAssumption
    <2> HIDE DEF after
    <2> QED  BY <1>1, <1>2, <2>1, <2>2, <2>3
  <1>5. CASE ModelSays(t)
    <2>1. PICK event \in Says, text \in BOOLEAN : Reports(t, event, chain[t].node, text, chain[t])
      BY <1>5 DEF ModelSays
    <2>2. chain[t].depth > 0 /\ event # "on_chain_start"
      BY <1>5 DEF ModelSays, Says
    <2> QED  BY <1>1, <1>2, <2>1, <2>2
  <1>6. CASE ToolWorks(t)
    BY <1>1, <1>2, <1>6 DEF ToolWorks
  <1>7. CASE ChainEnds(t)
    <2> DEFINE after == IF chain[t].depth = 1 THEN NoChain ELSE [chain[t] EXCEPT !.depth = @ - 1]
    <2>1. chain[t].depth > 0 /\ Reports(t, "on_chain_end", chain[t].node, FALSE, after)
      BY <1>7 DEF ChainEnds
    <2>2. after \in ChainType /\ (after.depth > 0 => after.node = chain[t].node)
      BY <1>1, <2>1 DEF ChainType, NoChain
    <2> HIDE DEF after
    <2> QED  BY <1>1, <1>2, <2>1, <2>2
  <1> QED  BY <1>3, <1>4, <1>5, <1>6, <1>7 DEF TaskReports

(* ToldInv is inductive, given the rest.                                   *)
LEMMA ToldInit == StreamInit => ToldInv
  BY DEF StreamInit, Init, ToldInv, Told, WireFits, NewTab

LEMMA ToldStep == Inv /\ ToldInv /\ [StreamNext]_streamVars => ToldInv'
  <1> SUFFICES ASSUME Inv, ToldInv, [StreamNext]_streamVars PROVE ToldInv'
    OBVIOUS
  <1>1. CASE UNCHANGED streamVars
    BY <1>1 DEF ToldInv, Told, ToldSubscribed, ToldSaving, ToldSaved, Has, streamVars,
                newsVars, viewing
  <1>2. ASSUME NEW t \in Tasks, TaskReports(t) PROVE ToldInv'
    <2>1. PICK events \in Seq(Sent), after \in ChainType :
            /\ Report(t, events, after)
            /\ \A i \in 1 .. Len(events) : events[i].type # "job.snapshot"
      BY <1>2, EachReport DEF Reported
    <2>2. Broadcast(events) /\ UNCHANGED newsVars /\ tab \in [Viewers -> Tabs]
      BY <2>1 DEF Report, Inv, StreamTypeOK
    <2> QED  BY <2>1, <2>2, ReportTells
  <1> QED  BY <1>1, <1>2, PublishTells, JobTells, ViewerTells DEF StreamNext

(* An open stream that has delivered all it was sent has missed no ending  *)
(* and no question when nobody is about to speak: for any number of tasks, *)
(* clients and viewers, whatever connections are lost.                     *)
THEOREM MissesNothing == StreamSpec => []NothingMissed
  <1>1. Inv /\ ToldInv => NothingMissed
    <2> SUFFICES ASSUME ToldInv, NEW v \in Viewers, Quiet,
                        tab[v].pc = "listening", tab[v].wire = <<>>
                 PROVE  /\ status \in Endings => tab[v].missed \cap Endings # {}
                        /\ status = "waiting" => tab[v].asking \/ "waiting" \in tab[v].missed
      BY DEF NothingMissed
    <2>1. ToldSaved(tab[v])
      BY DEF ToldInv, Told
    <2>2. \A types : ~Carries(tab[v].wire, types)
      BY DEF Carries
    <2>3. \A c \in Clients : ~Has(c, "publish", "killed")
      BY DEF Quiet, Has, Silent
    <2> QED  BY <2>1, <2>2, <2>3 DEF ToldSaved, AskKnown
  <1> QED  BY <1>1, ToldInit, ToldStep, Inductive, PTL DEF StreamSpec

-----------------------------------------------------------------------------
(* Where a page files tokens.  It looks at the node its store shows, so   *)
(* FiledInv says what will be shown when a token is delivered: the node of *)
(* the last agent.spawned before it on the wire, or else, once the         *)
(* connection has told the page of one, the node shown now.  A snapshot    *)
(* may name any node; it comes before the page is told.  This takes one    *)
(* task inside the graph at a time.                                        *)

Tokens == {"agent.token", "output.token"}

(* Of what is before i on the wire, j was the last agent to be spawned.    *)
Governs(w, j, i) ==
    w[j].type = "agent.spawned" /\ \A k \in j + 1 .. i - 1 : w[k].type # "agent.spawned"

(* A token that is i-th on the wire of b goes to n, if the page was told   *)
(* of a node by then.                                                      *)
FiledAt(b, i, n) ==
    /\ \A j \in 1 .. i - 1 : Governs(b.wire, j, i) => b.wire[j].node = n
    /\ b.told /\ (\A j \in 1 .. i - 1 : b.wire[j].type # "agent.spawned") => b.node = n

WireFiled(b) ==
    \A i \in 1 .. Len(b.wire) : b.wire[i].type \in Tokens => FiledAt(b, i, b.wire[i].node)

NextFiled(b) ==
    \A t \in Tasks : chain[t].depth > 0 => FiledAt(b, Len(b.wire) + 1, chain[t].node)

(* A page is told after the snapshot of its connection.                    *)
ToldAfter(b) ==
    b.told => b.pc = "listening" /\ \A i \in 1 .. Len(b.wire) : b.wire[i].type # "job.snapshot"

Filed(b) ==
    /\ ToldAfter(b)
    /\ b.pc \in {"subscribed", "listening"} => WireFiled(b) /\ NextFiled(b)

ChainInside == \A t \in Tasks : chain[t].depth > 0 => t \in streaming
FiledInv == ChainInside /\ \A v \in Viewers : Filed(tab[v])

OneInside == \A t, u \in streaming : t = u

(* c is b with e put on its wire.                                          *)
IsSent(b, c, e) ==
    /\ c.pc = b.pc /\ c.node = b.node /\ c.told = b.told
    /\ Len(c.wire) = Len(b.wire) + 1 /\ c.wire[Len(b.wire) + 1] = e
    /\ \A k \in 1 .. Len(b.wire) : c.wire[k] = b.wire[k]

(* What is put on the wire behind it does not change where a token goes.   *)
LEMMA FiledBefore ==
    ASSUME NEW b \in Tabs, NEW c \in Tabs, NEW e, IsSent(b, c, e),
           NEW i \in 1 .. Len(b.wire) + 1, NEW n, FiledAt(b, i, n)
    PROVE  FiledAt(c, i, n)
  <1>1. Len(b.wire) \in Nat
    BY DEF Tabs
  <1>5. c.told = b.told /\ c.node = b.node /\ \A k \in 1 .. Len(b.wire) : c.wire[k] = b.wire[k]
    BY DEF IsSent
  <1>2. \A k \in 1 .. i - 1 : c.wire[k] = b.wire[k]
    BY <1>1, <1>5
  <1>3. ASSUME NEW j \in 1 .. i - 1, Governs(c.wire, j, i) PROVE c.wire[j].node = n
    <2>1. \A k \in j + 1 .. i - 1 : k \in 1 .. i - 1
      BY <1>1
    <2>2. Governs(b.wire, j, i)
      BY <1>2, <1>3, <2>1 DEF Governs
    <2> QED  BY <1>2, <2>2 DEF FiledAt
  <1>4. ASSUME c.told, \A j \in 1 .. i - 1 : c.wire[j].type # "agent.spawned"
        PROVE  c.node = n
    BY <1>2, <1>4, <1>5 DEF FiledAt
  <1> QED  BY <1>3, <1>4 DEF FiledAt

(* A token put on the wire next goes where it went, unless an agent was    *)
(* spawned; then it goes to that agent's node.                             *)
LEMMA FiledBehind ==
    ASSUME NEW b \in Tabs, NEW c \in Tabs, NEW e, IsSent(b, c, e),
           NEW n,
           e.type = "agent.spawned" => e.node = n,
           e.type # "agent.spawned" => FiledAt(b, Len(b.wire) + 1, n)
    PROVE  FiledAt(c, Len(c.wire) + 1, n)
  <1> DEFINE m == Len(b.wire) + 1
  <1>1. Len(b.wire) \in Nat /\ m \in Nat /\ m >= 1 /\ Len(c.wire) = m
        /\ c.told = b.told /\ c.node = b.node
    BY DEF Tabs, IsSent
  <1>2. c.wire[m] = e /\ \A k \in 1 .. m - 1 : c.wire[k] = b.wire[k]
    BY <1>1 DEF IsSent
  <1> HIDE DEF m
  <1>3. CASE e.type = "agent.spawned"
    <2>1. ASSUME NEW j \in 1 .. m, Governs(c.wire, j, m + 1) PROVE c.wire[j].node = n
      <3>1. j # m => m \in j + 1 .. (m + 1) - 1
        BY <1>1
      <3>2. j = m
        BY <1>2, <1>3, <2>1, <3>1 DEF Governs
      <3> QED  BY <1>2, <1>3, <3>2
    <2>2. m \in 1 .. m /\ c.wire[m].type = "agent.spawned" /\ (m + 1) - 1 = m
      BY <1>1, <1>2, <1>3
    <2> QED  BY <1>1, <2>1, <2>2 DEF FiledAt
  <1>4. CASE e.type # "agent.spawned"
    <2>1. FiledAt(b, m, n)
      BY <1>4 DEF m
    <2>2. ASSUME NEW j \in 1 .. m, Governs(c.wire, j, m + 1) PROVE c.wire[j].node = n
      <3>1. j # m
        BY <1>2, <1>4, <2>2 DEF Governs
      <3>2. j \in 1 .. m - 1 /\ \A k \in j + 1 .. m - 1 : k \in j + 1 .. (m + 1) - 1 /\ k \in 1 .. m - 1
        BY <1>1, <3>1
      <3>3. Governs(b.wire, j, m)
        BY <1>2, <2>2, <3>2 DEF Governs
      <3> QED  BY <1>2, <2>1, <3>2, <3>3 DEF FiledAt
    <2>3. ASSUME c.told, \A j \in 1 .. m : c.wire[j].type # "agent.spawned"
          PROVE  c.node = n
      <3>1. \A j \in 1 .. m - 1 : j \in 1 .. m
        BY <1>1
      <3>2. \A j \in 1 .. m - 1 : b.wire[j].type # "agent.spawned"
        BY <1>2, <2>3, <3>1
      <3> QED  BY <1>1, <2>1, <2>3, <3>2 DEF FiledAt
    <2>4. (m + 1) - 1 = m
      BY <1>1
    <2> QED  BY <1>1, <2>2, <2>3, <2>4 DEF FiledAt
  <1> QED  BY <1>3, <1>4

(* Delivering what is first on the wire changes nothing for the rest.      *)
LEMMA FiledOn ==
    ASSUME NEW b \in Tabs, NEW c \in Tabs, ToldAfter(b), b.wire # <<>>, c.wire = Tail(b.wire),
           b.wire[1].type = "agent.spawned" => c.node = b.wire[1].node,
           b.wire[1].type # "agent.spawned" => c.told = b.told,
           b.wire[1].type \notin {"agent.spawned", "job.snapshot"} => c.node = b.node,
           NEW i \in 2 .. Len(b.wire) + 1, NEW n, FiledAt(b, i, n)
    PROVE  FiledAt(c, i - 1, n)
  <1>1. /\ Len(b.wire) \in Nat /\ Len(b.wire) > 0
        /\ \A j \in 1 .. i - 2 : j + 1 \in 1 .. i - 1 /\ c.wire[j] = b.wire[j + 1]
        /\ i \in Nat
    BY DEF Tabs
  <1>2. ASSUME NEW j \in 1 .. i - 2, Governs(c.wire, j, i - 1) PROVE c.wire[j].node = n
    <2>1. \A k \in (j + 1) + 1 .. i - 1 : k - 1 \in j + 1 .. (i - 1) - 1 /\ k - 1 \in 1 .. i - 2 /\ (k - 1) + 1 = k
      BY <1>1
    <2>2. \A k \in (j + 1) + 1 .. i - 1 : b.wire[k].type # "agent.spawned"
      BY <1>1, <1>2, <2>1 DEF Governs
    <2>3. Governs(b.wire, j + 1, i)
      BY <1>1, <1>2, <2>2 DEF Governs
    <2> QED  BY <1>1, <2>3 DEF FiledAt
  <1>3. ASSUME c.told, \A j \in 1 .. i - 2 : c.wire[j].type # "agent.spawned"
        PROVE  c.node = n
    <2>1. \A k \in 2 .. i - 1 : k - 1 \in 1 .. i - 2 /\ (k - 1) + 1 = k
      BY <1>1
    <2>2. \A k \in 2 .. i - 1 : b.wire[k].type # "agent.spawned"
      BY <1>1, <1>3, <2>1
    <2>3. 1 \in 1 .. i - 1 /\ 1 + 1 = 2
      BY <1>1
    <2>4. CASE b.wire[1].type = "agent.spawned"
      <3>1. Governs(b.wire, 1, i)
        BY <2>2, <2>3, <2>4 DEF Governs
      <3> QED  BY <2>3, <2>4, <3>1 DEF FiledAt
    <2>5. CASE b.wire[1].type # "agent.spawned"
      <3>1. \A k \in 1 .. i - 1 : k = 1 \/ k \in 2 .. i - 1
        BY <1>1
      <3>2. \A k \in 1 .. i - 1 : b.wire[k].type # "agent.spawned"
        BY <2>2, <2>5, <3>1
      <3>3. b.told /\ b.wire[1].type # "job.snapshot"
        <4>1. b.told
          BY <1>3, <2>5
        <4>2. 1 \in 1 .. Len(b.wire)
          BY <1>1
        <4> QED  BY <4>1, <4>2 DEF ToldAfter
      <3>4. b.node = n
        BY <3>2, <3>3 DEF FiledAt
      <3> QED  BY <2>5, <3>3, <3>4
    <2> QED  BY <2>4, <2>5
  <1>4. (i - 1) - 1 = i - 2
    BY <1>1
  <1> QED  BY <1>2, <1>3, <1>4 DEF FiledAt

(* The snapshot goes before all that the subscription has gathered.        *)
LEMMA FiledAfresh ==
    ASSUME NEW b \in Tabs, NEW c \in Tabs, NEW shot, shot.type = "job.snapshot", ~c.told,
           Len(c.wire) = Len(b.wire) + 1, c.wire[1] = shot,
           \A k \in 1 .. Len(b.wire) : c.wire[k + 1] = b.wire[k],
           NEW i \in 1 .. Len(b.wire) + 1, NEW n, FiledAt(b, i, n)
    PROVE  FiledAt(c, i + 1, n)
  <1>1. Len(b.wire) \in Nat /\ i \in Nat /\ i >= 1 /\ (i + 1) - 1 = i
    BY DEF Tabs
  <1>2. ASSUME NEW j \in 1 .. i, Governs(c.wire, j, i + 1) PROVE c.wire[j].node = n
    <2>1. j # 1
      BY <1>2 DEF Governs
    <2>2. j - 1 \in 1 .. i - 1 /\ j - 1 \in 1 .. Len(b.wire) /\ (j - 1) + 1 = j
      BY <1>1, <2>1
    <2>3. \A k \in (j - 1) + 1 .. i - 1 : k + 1 \in j + 1 .. (i + 1) - 1 /\ k \in 1 .. Len(b.wire)
      BY <1>1
    <2>4. \A k \in (j - 1) + 1 .. i - 1 : b.wire[k].type # "agent.spawned"
      BY <1>2, <2>3 DEF Governs
    <2>5. c.wire[j] = b.wire[j - 1]
      BY <2>2
    <2>6. Governs(b.wire, j - 1, i)
      BY <1>2, <2>4, <2>5 DEF Governs
    <2> QED  BY <2>2, <2>5, <2>6 DEF FiledAt
  <1> QED  BY <1>1, <1>2 DEF FiledAt

(* What is published is filed, and what comes next will be.                *)
LEMMA BroadcastFiles ==
    ASSUME Inv, NEW v \in Viewers, Filed(tab[v]), NEW e \in Sent, Broadcast(<<e>>),
           e.type # "job.snapshot",
           e.type \in Tokens => \E t \in Tasks : chain[t].depth > 0 /\ chain[t].node = e.node,
           \A t \in Tasks : chain'[t].depth > 0 =>
               IF e.type = "agent.spawned" THEN e.node = chain'[t].node
               ELSE chain[t].depth > 0 /\ chain'[t].node = chain[t].node
    PROVE  Filed(tab[v])'
  <1> DEFINE b == tab[v]
             m == Len(b.wire) + 1
  <1>1. b \in Tabs /\ b.wire \in Seq(Sent) /\ Len(b.wire) \in Nat
    BY DEF Inv, StreamTypeOK, Tabs, Sent
  <1>4. PICK c : c = tab'[v]
    OBVIOUS
  <1>2. CASE ~Subscribed(v)
    <2>1. c = b
      BY <1>4, <1>2 DEF Broadcast
    <2> QED  BY <1>4, <1>2, <2>1 DEF Subscribed, Filed, ToldAfter
  <1>3. CASE Subscribed(v)
    <2>1. c = [b EXCEPT !.wire = b.wire \o <<e>>]
      BY <1>4, <1>3 DEF Broadcast
    <2>2. /\ b.wire \o <<e>> \in Seq(Sent) /\ Len(b.wire \o <<e>>) = m
          /\ (b.wire \o <<e>>)[m] = e
          /\ \A k \in 1 .. Len(b.wire) : (b.wire \o <<e>>)[k] = b.wire[k]
      BY <1>1
    <2>3. /\ c \in Tabs /\ c.pc = b.pc /\ c.node = b.node /\ c.told = b.told
          /\ Len(c.wire) = Len(b.wire) + 1
          /\ c.wire[Len(b.wire) + 1] = e
          /\ \A k \in 1 .. Len(b.wire) : c.wire[k] = b.wire[k]
      BY <1>1, <2>1, <2>2 DEF Tabs, Sent
    <2>9. IsSent(b, c, e)
      BY <2>3 DEF IsSent
    <2>4. WireFiled(b) /\ NextFiled(b) /\ ToldAfter(b)
      BY <1>3 DEF Filed, Subscribed
    <2> HIDE DEF b
    <2>10. ToldAfter(tab[v])'
      <3>1. ASSUME NEW i \in 1 .. Len(c.wire), b.told PROVE c.wire[i].type # "job.snapshot"
        <4>1. i = Len(b.wire) + 1 \/ i \in 1 .. Len(b.wire)
          BY <1>1, <2>3
        <4> QED  BY <2>3, <2>4, <3>1, <4>1 DEF ToldAfter
      <3> QED  BY <1>4, <2>3, <2>4, <3>1 DEF ToldAfter
    <2>5. ASSUME NEW i \in 1 .. m, c.wire[i].type \in Tokens
          PROVE  FiledAt(c, i, c.wire[i].node)
      <3>1. FiledAt(b, i, c.wire[i].node)
        <4>1. CASE i = m
          <5>1. c.wire[i] = e
            BY <2>3, <4>1
          <5>2. PICK t \in Tasks : chain[t].depth > 0 /\ chain[t].node = e.node
            BY <2>5, <5>1
          <5> QED  BY <2>4, <4>1, <5>1, <5>2 DEF NextFiled
        <4>2. CASE i # m
          <5>1. i \in 1 .. Len(b.wire)
            BY <1>1, <4>2
          <5> QED  BY <2>3, <2>4, <2>5, <5>1 DEF WireFiled
        <4> QED  BY <4>1, <4>2
      <3> QED  BY <1>1, <2>3, <2>9, <3>1, FiledBefore
    <2>6. ASSUME NEW t \in Tasks, chain'[t].depth > 0, NEW n, n = chain'[t].node
          PROVE  FiledAt(c, Len(c.wire) + 1, n)
      <3>1. e.type = "agent.spawned" => e.node = n
        BY <2>6
      <3>2. e.type # "agent.spawned" => FiledAt(b, Len(b.wire) + 1, n)
        BY <2>4, <2>6 DEF NextFiled
      <3>3. b \in Tabs /\ c \in Tabs
        BY <1>1, <2>3
      <3> QED  BY ONLY <2>9, <3>1, <3>2, <3>3, FiledBehind
    <2>7. WireFiled(tab[v])'
      <3>1. WireFiled(c)
        BY <2>3, <2>5 DEF WireFiled
      <3>2. WireFiled(tab'[v])
        BY ONLY <1>4, <3>1
      <3> QED  BY ONLY <3>2 DEF WireFiled, FiledAt, Governs
    <2>8. NextFiled(tab[v])'
      BY <1>4, <2>6 DEF NextFiled, FiledAt, Governs
    <2> QED  BY <2>7, <2>8, <2>10 DEF Filed
  <1> QED  BY <1>2, <1>3

LEMMA ReportFiles ==
    ASSUME Inv, FiledInv, OneInside, NEW t \in Tasks, TaskReports(t)
    PROVE  FiledInv'
  <1>1. PICK events \in Seq(Sent), after \in ChainType : Report(t, events, after)
    BY EachReport DEF Reported
  <1>2. /\ t \in streaming /\ UNCHANGED streaming /\ chain' = [chain EXCEPT ![t] = after]
        /\ chain \in [Tasks -> ChainType] /\ tab \in [Viewers -> Tabs]
    BY <1>1 DEF Report, newsVars, Inv, StreamTypeOK, ChainType
  <1>3. ChainInside'
    BY <1>2 DEF FiledInv, ChainInside
  <1>4. \A u \in Tasks : chain'[u].depth > 0 => u = t /\ chain'[u] = after
    BY <1>2 DEF FiledInv, ChainInside, OneInside
  <1> SUFFICES ASSUME NEW v \in Viewers PROVE Filed(tab[v])'
    BY <1>3 DEF FiledInv
  <1>5. Filed(tab[v])
    BY DEF FiledInv
  <1>6. CASE events = <<>> /\ (after.depth > 0 => chain[t].depth > 0 /\ after.node = chain[t].node)
    <2>1. tab[v] \in Tabs /\ tab[v].wire \in Seq(Sent) /\ tab[v].wire \o <<>> = tab[v].wire
      BY <1>2 DEF Tabs, Sent
    <2>2. tab'[v] = tab[v]
      BY <1>1, <1>6, <2>1 DEF Report, Broadcast, Tabs
    <2>3. WireFiled(tab[v]) => WireFiled(tab[v])'
      BY <2>2 DEF WireFiled, FiledAt, Governs
    <2>4. NextFiled(tab[v]) => NextFiled(tab[v])'
      BY <1>4, <1>6, <2>2 DEF NextFiled, FiledAt, Governs
    <2> QED  BY <1>5, <2>2, <2>3, <2>4 DEF Filed, ToldAfter
  <1>7. ASSUME NEW e \in [type : Kept, node : Nodes \cup {NoNode}],
               events = <<e>>,
               e.type = "agent.spawned" => after.depth > 0 /\ after.node = e.node,
               e.type # "agent.spawned" =>
                   /\ chain[t].depth > 0 /\ e.node = chain[t].node
                   /\ after.depth > 0 => after.node = chain[t].node
        PROVE  Filed(tab[v])'
    <2>1. e \in Sent /\ Broadcast(<<e>>) /\ e.type # "job.snapshot"
      BY <1>1, <1>7 DEF Sent, Kept, Report
    <2>2. e.type \in Tokens => chain[t].depth > 0 /\ chain[t].node = e.node
      BY <1>7 DEF Tokens
    <2>3. \A u \in Tasks : chain'[u].depth > 0 =>
               IF e.type = "agent.spawned" THEN e.node = chain'[u].node
               ELSE chain[u].depth > 0 /\ chain'[u].node = chain[u].node
      BY <1>4, <1>7
    <2> QED  BY <1>5, <2>1, <2>2, <2>3, BroadcastFiles
  <1> QED  BY <1>1, <1>6, <1>7 DEF Report

LEMMA JobFiles ==
    ASSUME Inv, FiledInv, Publish \/ JobMoves \/ JobSaves
    PROVE  FiledInv'
  <1>1. CASE Publish
    <2>1. PICK s \in Announced :
            /\ (\E t \in Tasks : Say(t, s)) \/ \E c \in Clients : KillSay(c)
            /\ Broadcast(<<StatusEvent(s)>>)
      BY <1>1 DEF Publish, Announced
    <2>2. UNCHANGED <<streaming, chain>>
      BY <1>1, <2>1 DEF Publish, Say, KillSay, stream
    <2>3. /\ StatusEvent(s) \in Sent
          /\ StatusEvent(s).type \notin Tokens \cup {"agent.spawned", "job.snapshot"}
      <3>1. StatusType[s] \in EndTypes \cup {"graph.interrupt"}
        BY DEF Announced, TaskNews, StatusType, EndTypes
      <3> QED  BY <3>1, StatusEvents DEF StatusEvent, EndTypes, Tokens
    <2>4. ASSUME NEW v \in Viewers PROVE Filed(tab[v])'
      BY <2>1, <2>2, <2>3, BroadcastFiles DEF FiledInv
    <2> QED  BY <2>2, <2>4 DEF FiledInv, ChainInside
  <1>2. CASE JobMoves
    <2>1. /\ chain' = [t \in Tasks |-> IF t \in streaming' THEN chain[t] ELSE NoChain]
          /\ tab' = tab /\ ~(NoChain.depth > 0)
      BY <1>2 DEF JobMoves, viewing, NoChain
    <2>2. \A t \in Tasks : chain'[t].depth > 0 => t \in streaming' /\ chain'[t] = chain[t]
      BY <2>1
    <2>3. ChainInside'
      BY <2>2 DEF ChainInside
    <2>4. ASSUME NEW v \in Viewers PROVE Filed(tab[v])'
      <3>1. WireFiled(tab[v]) => WireFiled(tab[v])'
        BY <2>1 DEF WireFiled, FiledAt, Governs
      <3>2. NextFiled(tab[v]) => NextFiled(tab[v])'
        BY <2>1, <2>2 DEF NextFiled, FiledAt, Governs
      <3> QED  BY <2>1, <3>1, <3>2 DEF FiledInv, Filed, ToldAfter
    <2> QED  BY <2>3, <2>4 DEF FiledInv
  <1>3. CASE JobSaves
    <2>1. UNCHANGED <<streaming, chain, tab>>
      BY <1>3 DEF JobSaves, Settle, KillSave, SaveQuietly, viewing
    <2> QED
      BY <2>1 DEF FiledInv, ChainInside, Filed, ToldAfter, WireFiled, NextFiled, FiledAt, Governs
  <1> QED  BY <1>1, <1>2, <1>3

(* A viewer's step, when its tab is filed as well as before.               *)
LEMMA ConnectFiles ==
    ASSUME tab \in [Viewers -> Tabs], FiledInv, NEW v \in Viewers, NEW new,
           Filed(new), tab' = [tab EXCEPT ![v] = new], UNCHANGED <<chain, streaming>>
    PROVE  FiledInv'
  <1>1. ChainInside'
    BY DEF FiledInv, ChainInside
  <1> SUFFICES ASSUME NEW u \in Viewers PROVE Filed(tab[u])'
    BY <1>1 DEF FiledInv
  <1>2. Filed(tab'[u])
    BY DEF FiledInv
  <1>3. /\ ToldAfter(tab'[u])
        /\ tab'[u].pc \in {"subscribed", "listening"} => WireFiled(tab'[u]) /\ NextFiled(tab'[u])
    BY <1>2 DEF Filed
  <1>4. WireFiled(tab'[u]) => WireFiled(tab[u])'
    BY DEF WireFiled, FiledAt, Governs
  <1>5. NextFiled(tab'[u]) => NextFiled(tab[u])'
    BY DEF NextFiled, FiledAt, Governs
  <1> QED  BY <1>3, <1>4, <1>5 DEF Filed, ToldAfter

LEMMA ViewerFiles ==
    ASSUME Inv, ToldInv, FiledInv, NEW v \in Viewers, ViewerStep(v)
    PROVE  FiledInv'
  <1> DEFINE b == tab[v]
  <1>1. /\ tab \in [Viewers -> Tabs] /\ b \in Tabs /\ b.wire \in Seq(Sent) /\ WireFits(b)
        /\ Len(b.wire) \in Nat
        /\ Filed(b) /\ ToldAfter(b)
        /\ status \in Statuses /\ current_node \in Nodes \cup {NoNode}
    BY DEF Inv, StreamTypeOK, ToldInv, Told, Tabs, Sent, FiledInv, Filed
  <1>2. UNCHANGED <<chain, streaming>>
    BY DEF ViewerStep, Open, Subscribe, Snapshot, Deliver, Drop, Connects, newsVars, stream
  <1>3. ASSUME NEW new, Filed(new), tab' = [tab EXCEPT ![v] = new]
        PROVE  FiledInv'
    BY <1>1, <1>2, <1>3, ConnectFiles
  <1>4. CASE Open(v)
    <2> DEFINE new == [b EXCEPT !.pc = IF status \in Terminal THEN "closed" ELSE "opening",
                                !.status = status, !.asking = status = "waiting",
                                !.node = current_node]
    <2>1. tab' = [tab EXCEPT ![v] = new] /\ b.pc = "off"
      BY <1>4 DEF Open, Connects
    <2>2. new.pc \in {"opening", "closed"} /\ ~new.told
      BY <1>1, <2>1 DEF Tabs, ToldAfter
    <2> HIDE DEF new
    <2>3. Filed(new)
      BY <2>2 DEF Filed, ToldAfter
    <2> QED  BY <1>3, <2>1, <2>3
  <1>5. CASE Subscribe(v)
    <2> DEFINE new == IF kind[v] = "sse"
                      THEN [b EXCEPT !.pc = "listening", !.missed = Window \cup ({status} \cap Announced)]
                      ELSE [b EXCEPT !.pc = "subscribed", !.late = Window]
    <2>1. tab' = [tab EXCEPT ![v] = new] /\ b.wire = <<>> /\ b.pc = "opening"
      BY <1>1, <1>5 DEF Subscribe, Connects, WireFits
    <2>2. new.wire = <<>> /\ Len(new.wire) = 0 /\ ~new.told
      BY <1>1, <2>1 DEF Tabs, ToldAfter
    <2> HIDE DEF new
    <2>3. WireFiled(new) /\ NextFiled(new) /\ ToldAfter(new)
      BY <2>2 DEF WireFiled, NextFiled, FiledAt, ToldAfter
    <2> QED  BY <1>3, <2>1, <2>3 DEF Filed
  <1>6. CASE Snapshot(v)
    <2> DEFINE shot == CurrentSnapshot
               w == <<shot>> \o b.wire
    <2>1. b.pc = "subscribed" /\ ~b.told
      BY <1>1, <1>6 DEF Snapshot, Connects, ToldAfter
    <2>2. shot \in Sent /\ <<shot>> \in Seq(Sent) /\ shot.type = "job.snapshot"
      BY <1>1 DEF CurrentSnapshot, Sent, Snapshots
    <2>3. CASE status \in Terminal
      <3> DEFINE new == [b EXCEPT !.late = {}, !.missed = b.late \cap Window,
                                  !.pc = "ending", !.wire = <<shot>>]
      <3>1. tab' = [tab EXCEPT ![v] = new]
        BY <1>6, <2>3 DEF Snapshot, Connects
      <3>2. new.pc = "ending" /\ ~new.told
        BY <1>1, <2>1 DEF Tabs
      <3> HIDE DEF new
      <3>3. Filed(new)
        BY <3>2 DEF Filed, ToldAfter
      <3> QED  BY <1>3, <3>1, <3>3
    <2>4. CASE status \notin Terminal
      <3> DEFINE new == [b EXCEPT !.late = {}, !.missed = b.late \cap Window,
                                  !.pc = "listening", !.wire = w]
      <3>1. tab' = [tab EXCEPT ![v] = new]
        <4> DEFINE base == [b EXCEPT !.late = {}, !.missed = b.late \cap Window]
        <4>1. tab' = [tab EXCEPT ![v] = [base EXCEPT !.pc = "listening", !.wire = <<shot>> \o @]]
          BY <1>6, <2>4 DEF Snapshot, Connects
        <4>2. base.wire = b.wire
          BY <1>1 DEF Tabs
        <4> QED  BY <4>1, <4>2
      <3>2. w \in Seq(Sent) /\ Len(w) = Len(b.wire) + 1 /\ w[1] = shot
            /\ \A k \in 1 .. Len(b.wire) : w[k + 1] = b.wire[k]
        BY <1>1, <2>2
      <3> HIDE DEF w, shot
      <3>3. b.late \cap Window \in SUBSET Announced
        BY <1>1 DEF Tabs
      <3>4. new \in Tabs /\ new.wire = w /\ new.pc = "listening" /\ ~new.told
        BY <1>1, <2>1, <3>2, <3>3 DEF Tabs, Sent
      <3> HIDE DEF new
      <3>5. Filed(new)
        <4>1. WireFiled(b) /\ NextFiled(b)
          BY <1>1, <2>1 DEF Filed
        <4>2. ASSUME NEW i \in 1 .. Len(b.wire) + 1, NEW n, FiledAt(b, i, n)
              PROVE  FiledAt(new, i + 1, n)
          BY <1>1, <2>2, <3>2, <3>4, <4>2, FiledAfresh
        <4>3. ASSUME NEW i \in 1 .. Len(w), w[i].type \in Tokens
              PROVE  FiledAt(new, i, w[i].node)
          <5>1. i # 1
            BY <2>2, <3>2, <4>3 DEF Tokens
          <5>2. i - 1 \in 1 .. Len(b.wire) /\ (i - 1) + 1 = i /\ i - 1 \in 1 .. Len(b.wire) + 1
            BY <1>1, <3>2, <5>1
          <5>3. w[i] = b.wire[i - 1]
            BY <3>2, <5>2
          <5>4. FiledAt(b, i - 1, w[i].node)
            BY <4>1, <4>3, <5>2, <5>3 DEF WireFiled
          <5> QED  BY <4>2, <5>2, <5>4
        <4>4. ASSUME NEW t \in Tasks, chain[t].depth > 0
              PROVE  FiledAt(new, Len(w) + 1, chain[t].node)
          <5>1. Len(b.wire) + 1 \in 1 .. Len(b.wire) + 1
            BY <1>1
          <5>2. FiledAt(b, Len(b.wire) + 1, chain[t].node)
            BY <4>1, <4>4 DEF NextFiled
          <5> QED  BY <3>2, <4>2, <5>1, <5>2
        <4> QED  BY <3>4, <4>3, <4>4 DEF Filed, ToldAfter, WireFiled, NextFiled
      <3> QED  BY <1>3, <3>1, <3>5
    <2> QED  BY <2>3, <2>4
  <1>7. CASE Deliver(v)
    <2> DEFINE e == Head(b.wire)
               folded == Fold(b, e)
    <2>1. b.pc \in {"listening", "ending"} /\ b.wire # <<>>
      BY <1>7 DEF Deliver
    <2>2. e \in Sent /\ e = b.wire[1]
      BY <1>1, <2>1
    <2>3. CASE e.type \in EndTypes \/ b.pc = "ending"
      <3> DEFINE new == [NewTab EXCEPT !.pc = "closed", !.status = folded.status]
      <3>1. tab' = [tab EXCEPT ![v] = new]
        BY <1>7, <2>3 DEF Deliver, Connects
      <3>2. new.pc = "closed" /\ ~new.told
        BY DEF NewTab
      <3> HIDE DEF new
      <3>3. Filed(new)
        BY <3>2 DEF Filed, ToldAfter
      <3> QED  BY <1>3, <3>1, <3>3
    <2>4. CASE ~(e.type \in EndTypes \/ b.pc = "ending")
      <3> DEFINE new == [folded EXCEPT !.wire = Tail(@)]
                 w == Tail(b.wire)
      <3>1. tab' = [tab EXCEPT ![v] = new]
        BY <1>7, <2>4 DEF Deliver, Connects
      <3>2. /\ folded \in Tabs /\ folded.pc = "listening" /\ folded.wire = b.wire
        BY <1>1, <2>1, <2>2, <2>4, FoldTells
      <3>3. /\ e.type = "agent.spawned" => folded.node = e.node
            /\ e.type # "agent.spawned" => folded.told = b.told
            /\ e.type \notin {"agent.spawned", "job.snapshot"} => folded.node = b.node
        BY <1>1, <2>4 DEF Fold, Tabs
      <3> HIDE DEF folded
      <3>4. /\ w \in Seq(Sent) /\ Len(w) = Len(b.wire) - 1
            /\ \A k \in 1 .. Len(w) : k + 1 \in 1 .. Len(b.wire) /\ w[k] = b.wire[k + 1]
        BY <1>1, <2>1
      <3>5. /\ new \in Tabs /\ new.pc = "listening" /\ new.wire = w
            /\ new.node = folded.node /\ new.told = folded.told
        BY <3>2, <3>4 DEF Tabs, Sent
      <3> HIDE DEF new, e
      <3>7. ToldAfter(new)
        BY <1>1, <3>4, <3>5 DEF ToldAfter, WireFits
      <3>6. Filed(new)
        <4>1. WireFiled(b) /\ NextFiled(b)
          BY <1>1, <2>1, <2>4 DEF Filed
        <4>2. ASSUME NEW i \in 2 .. Len(b.wire) + 1, NEW n, FiledAt(b, i, n)
              PROVE  FiledAt(new, i - 1, n)
          BY <1>1, <2>1, <2>2, <3>3, <3>5, <4>2, FiledOn
        <4> HIDE DEF w
        <4>3. ASSUME NEW i \in 1 .. Len(w), w[i].type \in Tokens
              PROVE  FiledAt(new, i, w[i].node)
          <5>1. i + 1 \in 2 .. Len(b.wire) + 1 /\ (i + 1) - 1 = i /\ i + 1 \in 1 .. Len(b.wire)
            BY <1>1, <3>4
          <5>2. FiledAt(b, i + 1, w[i].node)
            BY <3>4, <4>1, <4>3, <5>1 DEF WireFiled
          <5> QED  BY <4>2, <5>1, <5>2
        <4>4. ASSUME NEW t \in Tasks, chain[t].depth > 0
              PROVE  FiledAt(new, Len(w) + 1, chain[t].node)
          <5>1. Len(w) + 1 = (Len(b.wire) + 1) - 1 /\ Len(b.wire) + 1 \in 2 .. Len(b.wire) + 1
            BY <1>1, <3>4, <2>1
          <5>2. FiledAt(b, Len(b.wire) + 1, chain[t].node)
            BY <4>1, <4>4 DEF NextFiled
          <5> QED  BY <4>2, <5>1, <5>2
        <4> QED  BY <3>5, <3>7, <4>3, <4>4 DEF Filed, WireFiled, NextFiled
      <3> QED  BY <1>3, <3>1, <3>6
    <2> QED  BY <2>3, <2>4
  <1>8. CASE Drop(v)
    <2> DEFINE new == [b EXCEPT !.pc = "opening", !.wire = <<>>, !.told = FALSE,
                                !.late = {}, !.missed = {}]
    <2>1. tab' = [tab EXCEPT ![v] = new]
      BY <1>8 DEF Drop
    <2>2. new.pc = "opening" /\ ~new.told
      BY <1>1 DEF Tabs
    <2> HIDE DEF new
    <2>3. Filed(new)
      BY <2>2 DEF Filed, ToldAfter
    <2> QED  BY <1>3, <2>1, <2>3
  <1> QED  BY <1>4, <1>5, <1>6, <1>7, <1>8 DEF ViewerStep

LEMMA FiledInit == StreamInit => FiledInv
  BY DEF StreamInit, FiledInv, ChainInside, NoChain, Filed, ToldAfter, NewTab

LEMMA FiledStep ==
    Inv /\ ToldInv /\ FiledInv /\ OneInside /\ [StreamNext]_streamVars => FiledInv'
  <1> SUFFICES ASSUME Inv, ToldInv, FiledInv, OneInside, [StreamNext]_streamVars PROVE FiledInv'
    OBVIOUS
  <1>1. CASE UNCHANGED streamVars
    BY <1>1 DEF FiledInv, ChainInside, Filed, ToldAfter, WireFiled, NextFiled, FiledAt, Governs,
                streamVars, newsVars, stream, viewing
  <1> QED  BY <1>1, ReportFiles, JobFiles, ViewerFiles DEF StreamNext

(* While no two tasks are inside the graph at once, a page that its        *)
(* connection has told of a node shows the node a token comes from at the  *)
(* moment it files the token, through either API: though it does not look  *)
(* at the agent's id, whatever a snapshot said before, whatever            *)
(* connections are lost, and however many tasks take turns.                *)
THEOREM FilesTokens == StreamSpec /\ []OneInside => []TokensFiled
  <1>1. Inv /\ FiledInv => TokensFiled
    <2> SUFFICES ASSUME FiledInv, Inv, NEW v \in Viewers, Token(v), tab[v].told
                 PROVE  tab[v].node = Head(tab[v].wire).node
      BY DEF TokensFiled
    <2>1. tab[v].wire \in Seq(Sent)
      BY DEF Inv, StreamTypeOK, Tabs, Sent
    <2>2. 1 \in 1 .. Len(tab[v].wire) /\ Head(tab[v].wire) = tab[v].wire[1]
      BY <2>1 DEF Token
    <2>3. FiledAt(tab[v], 1, tab[v].wire[1].node)
      BY <2>2 DEF FiledInv, Filed, WireFiled, Tokens, Token
    <2> QED  BY <2>2, <2>3 DEF FiledAt
  <1> QED  BY <1>1, FiledInit, FiledStep, ToldInit, ToldStep, Inductive, PTL DEF StreamSpec

=============================================================================
