-------------------------- MODULE EventTransformer --------------------------
(***************************************************************************)
(* LangGraphEventTransformer: the callbacks LangGraph reports while a      *)
(* graph runs, turned into the events a job's channel carries.             *)
(*                                                                         *)
(* A callback is [event, node, text]: node is metadata["langgraph_node"],  *)
(* text whether a streamed chunk holds any.  agents is the transformer's   *)
(* _agents, from nodes to the id of the agent last spawned for them.  What *)
(* a token or a tool call says is left out, and so is the section of an    *)
(* output token, of which only the node it falls back to is kept.          *)
(***************************************************************************)
EXTENDS Naturals, Sequences

CONSTANTS Nodes, NoNode         \* the graph's nodes, and "" for no node

ASSUME NodesAssumption == NoNode \notin Nodes

NoAgent == 0
Agents == [Nodes \cup {NoNode} -> Nat]
NoAgents == [n \in Nodes \cup {NoNode} |-> NoAgent]

Says == {"on_chat_model_stream", "on_llm_stream"}
Callbacks == Says \cup {"on_tool_start", "on_tool_end", "on_chain_start", "on_chain_end"}

(* events/types.py.  A token's event carries its agent and not the node;   *)
(* node is kept here to tell where the token comes from.                   *)
AgentTypes == {"agent.spawned", "agent.token", "output.token", "agent.tool_call",
               "agent.tool_result", "agent.done", "graph.node_complete"}
AgentEvent(type, node, agent) == [type |-> type, node |-> node, agent |-> agent]

-----------------------------------------------------------------------------

(* _emit_token: the agent's, or the output's when the node has no agent.   *)
EmitToken(agents, c) ==
    IF ~c.text THEN <<>>
    ELSE << AgentEvent(IF agents[c.node] # NoAgent THEN "agent.token" ELSE "output.token",
                       c.node, agents[c.node]) >>

(* A tool at work is reported only under an agent.                         *)
EmitTool(type, agents, c) ==
    IF agents[c.node] = NoAgent THEN <<>>
    ELSE << AgentEvent(type, c.node, agents[c.node]) >>

ChainStart(c, id) ==
    IF c.node = NoNode THEN <<>> ELSE << AgentEvent("agent.spawned", c.node, id) >>

ChainEnd(agents, c) ==
    (IF agents[c.node] = NoAgent THEN <<>>
     ELSE << AgentEvent("agent.done", c.node, agents[c.node]) >>)
    \o << AgentEvent("graph.node_complete", c.node, NoAgent) >>

(* transform: the events a callback becomes; id is the uuid it may draw.   *)
Transform(agents, c, id) ==
    CASE c.event \in Says -> EmitToken(agents, c)
      [] c.event = "on_tool_start" -> EmitTool("agent.tool_call", agents, c)
      [] c.event = "on_tool_end" -> EmitTool("agent.tool_result", agents, c)
      [] c.event = "on_chain_start" -> ChainStart(c, id)
      [] c.event = "on_chain_end" -> ChainEnd(agents, c)

(* Mutated: a node keeps the agent it was given first.                     *)
AssignFirst(agents, c, id) ==
    IF c.event = "on_chain_start" /\ c.node # NoNode /\ agents[c.node] = NoAgent
    THEN [agents EXCEPT ![c.node] = id]
    ELSE agents

(* _agents after the callback: every chain start, nested ones included,    *)
(* gives its node a new agent.                                             *)
Assign(agents, c, id) ==
    IF c.event = "on_chain_start" /\ c.node # NoNode
    THEN [agents EXCEPT ![c.node] = id]
    ELSE agents

=============================================================================
