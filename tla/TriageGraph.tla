----------------------------- MODULE TriageGraph -----------------------------
(***************************************************************************)
(* The bug-triage graph (src/agentops/graph): a supervisor that asks an    *)
(* LLM where to go next, five routing guards that may overrule it, four    *)
(* agent nodes, a node that stops to question a human, and a writer.       *)
(* LangGraph runs one node per superstep and checkpoints after each.       *)
(*                                                                         *)
(* The LLM and the agents are outside the program: every reply their       *)
(* schemas allow is possible.  BugTriageState.paused is not a variable:    *)
(* initial_state leaves it False and nothing in the repository writes it,  *)
(* so the interrupt("manual_pause") of supervisor_node is never reached.   *)
(* BugTriageState.awaiting_human is written in the same two places as      *)
(* pending_exchange and is represented by it.                              *)
(***************************************************************************)
EXTENDS Integers, Sequences

CONSTANTS
    MaxIterations,   \* BugTriageState.max_iterations, 10 unless overridden
    MaxTries         \* times the worker may invoke the graph with the initial
                     \* state: arq retries a task lost in a crash

ASSUME MaxIterationsAssumption == MaxIterations \in Nat \ {0}
ASSUME MaxTriesAssumption == MaxTries \in Nat \ {0}

MaxExchanges == 2
Agents == {"investigator", "codebase_search", "web_search", "critic"}
Nodes == Agents \cup {"human_input", "writer"}
Verdicts == {"APPROVED", "REJECTED"}
None == "none"
NoQuestion == -1

(* SupervisorDecision.next_node, and a reply that fails its validation.    *)
Decisions == Nodes \cup {"end"}
Invalid == "invalid"

(* What Command(resume=...) carries to human_input; its content is only    *)
(* ever recorded.                                                          *)
Answers == {"human", "timeout"}

VARIABLES
    running,         \* an astream_events loop is driving the thread
    tries,           \* how often run_triage has started the graph
    pc,              \* the node the checkpoint says is next
    asking,          \* the checkpoint holds an unanswered interrupt
    resume,          \* resume value not yet consumed by an interrupt
    supersteps,      \* supersteps of the current invocation
    iterations, findings, critic, exchanges, pending, supervisorNext, report

control == <<running, tries, pc, asking, resume, supersteps>>
state == <<iterations, findings, critic, exchanges, pending, supervisorNext, report>>
vars == <<running, tries, pc, asking, resume, supersteps,
          iterations, findings, critic, exchanges, pending, supervisorNext, report>>

(* A completed question: when it was asked (the iteration the supervisor   *)
(* decided on it), when it was answered, and with what.                    *)
Exchange == [asked : Int, at : Nat, answer : Answers]

Init ==
    /\ running = FALSE
    /\ tries = 0
    /\ pc = None
    /\ asking = FALSE
    /\ resume = None
    /\ supersteps = 0
    /\ iterations = 0
    /\ findings = <<>>
    /\ critic = None
    /\ exchanges = <<>>
    /\ pending = NoQuestion
    /\ supervisorNext = None
    /\ report = FALSE

-----------------------------------------------------------------------------
(* The supervisor.                                                         *)

(* Mutated: the second invalid reply is returned as it is.                 *)
NoFallback(first, second) == IF first # Invalid THEN first ELSE second

(* _invoke_supervisor: one correction retry, then the forced fallback.     *)
InvokeSupervisor(first, second) ==
    IF first # Invalid THEN first
    ELSE IF second # Invalid THEN second
    ELSE "writer"

(* Mutated guards.                                                         *)
G1Dropped == FALSE
G2Late(d) == Len(exchanges) > MaxExchanges /\ d = "human_input"
G3Late == iterations > MaxIterations
G5Dropped(d) == FALSE

(* The guards of route_from_supervisor; d is the decision just stored.     *)
G1 == iterations = 0
G2(d) == Len(exchanges) >= MaxExchanges /\ d = "human_input"
G3 == iterations >= MaxIterations
G4(d) == d = "end" /\ ~report
G5(d) == critic = "REJECTED" /\ d = "writer" /\ iterations < MaxIterations

(* route_from_supervisor: the guards in the order the code tests them.     *)
Route(d) ==
    IF G1 THEN "investigator"
    ELSE IF G3 \/ G4(d) THEN "writer"
    ELSE IF G5(d) THEN "investigator"
    ELSE IF G2(d) THEN "codebase_search"
    ELSE IF d \in Nodes THEN d
    ELSE "writer"

(* Mutated: disagrees with guard G2 on how many questions are allowed.     *)
ShouldSetHitlOnce(decision) == decision = "human_input" /\ Len(exchanges) < 1

(* The question is stored only when no guard will divert it.               *)
ShouldSetHitl(decision) ==
    /\ decision = "human_input"
    /\ iterations < MaxIterations
    /\ Len(exchanges) < MaxExchanges

Supervisor ==
    /\ running
    /\ pc = "supervisor"
    /\ \E first, second \in Decisions \cup {Invalid} :
         LET decision == InvokeSupervisor(first, second) IN
         /\ supervisorNext' = decision
         /\ pending' = IF ShouldSetHitl(decision) THEN iterations ELSE pending
         /\ pc' = Route(decision)
    /\ supersteps' = supersteps + 1
    /\ resume' = None
    /\ UNCHANGED <<running, tries, asking, iterations, findings, critic, exchanges, report>>

-----------------------------------------------------------------------------
(* The other nodes.  Each returns to the supervisor, except the writer.    *)

(* Mutated: the critic's pass is not counted as an iteration.              *)
AgentNodeFreeCritic(a) ==
    /\ running
    /\ pc = a
    /\ findings' = Append(findings, a)
    /\ critic' \in IF a = "critic" THEN Verdicts ELSE {critic}
    /\ iterations' = IF a = "critic" THEN iterations ELSE iterations + 1
    /\ pc' = "supervisor"
    /\ supersteps' = supersteps + 1
    /\ resume' = None
    /\ UNCHANGED <<running, tries, asking, exchanges, pending, supervisorNext, report>>

(* investigator, codebase_search, web_search and critic append a finding;  *)
(* the critic also replaces the verdict the supervisor's guard reads.      *)
AgentNode(a) ==
    /\ running
    /\ pc = a
    /\ findings' = Append(findings, a)
    /\ critic' \in IF a = "critic" THEN Verdicts ELSE {critic}
    /\ iterations' = iterations + 1
    /\ pc' = "supervisor"
    /\ supersteps' = supersteps + 1
    /\ resume' = None
    /\ UNCHANGED <<running, tries, asking, exchanges, pending, supervisorNext, report>>

(* Mutated: the node polls for an answer instead of suspending the run.    *)
AskHumanPolls ==
    /\ running
    /\ pc = "human_input"
    /\ resume = None
    /\ asking' = TRUE
    /\ UNCHANGED <<running, tries, pc, resume, supersteps, state>>

(* human_input_node without a resume value: interrupt() raises, LangGraph  *)
(* saves the interrupt and the invocation ends.                            *)
AskHuman ==
    /\ running
    /\ pc = "human_input"
    /\ resume = None
    /\ asking' = TRUE
    /\ running' = FALSE
    /\ UNCHANGED <<tries, pc, resume, supersteps, state>>

(* human_input_node re-executed with a resume value.                       *)
HumanAnswered ==
    /\ running
    /\ pc = "human_input"
    /\ resume # None
    /\ exchanges' = Append(exchanges, [asked |-> pending, at |-> iterations, answer |-> resume])
    /\ pending' = NoQuestion
    /\ iterations' = iterations + 1
    /\ asking' = FALSE
    /\ resume' = None
    /\ pc' = "supervisor"
    /\ supersteps' = supersteps + 1
    /\ UNCHANGED <<running, tries, findings, critic, supervisorNext, report>>

Writer ==
    /\ running
    /\ pc = "writer"
    /\ report' = TRUE
    /\ pc' = "end"
    /\ supersteps' = supersteps + 1
    /\ resume' = None
    /\ UNCHANGED <<running, tries, asking, iterations, findings, critic, exchanges,
                   pending, supervisorNext>>

(* The stream ends because nothing is left to run.                         *)
StreamEnds ==
    /\ running
    /\ pc = "end"
    /\ running' = FALSE
    /\ resume' = None
    /\ UNCHANGED <<tries, pc, asking, supersteps, state>>

(* The node raises (an HTTP or schema error), the task is cancelled, or    *)
(* the worker dies: the checkpoint keeps the node as the next one.         *)
Interrupted ==
    /\ running
    /\ running' = FALSE
    /\ resume' = None
    /\ UNCHANGED <<tries, pc, asking, supersteps, state>>

-----------------------------------------------------------------------------
(* Invocations by the worker.                                              *)

(* Mutated: the input dictionary leaves out the list of human exchanges.   *)
StartFreshKeepsExchanges ==
    /\ ~running
    /\ tries < MaxTries
    /\ tries' = tries + 1
    /\ running' = TRUE
    /\ pc' = "supervisor"
    /\ asking' = FALSE
    /\ resume' = None
    /\ supersteps' = 0
    /\ iterations' = 0
    /\ findings' = <<>>
    /\ critic' = None
    /\ pending' = NoQuestion
    /\ supervisorNext' = None
    /\ report' = FALSE
    /\ UNCHANGED exchanges

(* run_triage streams the initial state: the whole thread starts over.     *)
StartFresh ==
    /\ ~running
    /\ tries < MaxTries
    /\ tries' = tries + 1
    /\ running' = TRUE
    /\ pc' = "supervisor"
    /\ asking' = FALSE
    /\ resume' = None
    /\ supersteps' = 0
    /\ iterations' = 0
    /\ findings' = <<>>
    /\ critic' = None
    /\ exchanges' = <<>>
    /\ pending' = NoQuestion
    /\ supervisorNext' = None
    /\ report' = FALSE

(* resume_graph and expire_human_input stream Command(resume=value).       *)
Resume(value) ==
    /\ ~running
    /\ pc # None
    /\ running' = TRUE
    /\ resume' = value
    /\ supersteps' = 0
    /\ UNCHANGED <<tries, pc, asking, state>>

NodeStep ==
    \/ Supervisor
    \/ \E a \in Agents : AgentNode(a)
    \/ AskHuman
    \/ HumanAnswered
    \/ Writer
    \/ StreamEnds

Next ==
    \/ NodeStep
    \/ Interrupted
    \/ StartFresh
    \/ \E v \in Answers : Resume(v)

(* LangGraph's loop keeps running while a node is due.  Nothing is assumed *)
(* of the worker, the human, crashes or node failures.                     *)
Spec == Init /\ [][Next]_vars /\ WF_vars(NodeStep)
-----------------------------------------------------------------------------
(* Properties.                                                             *)

TypeOK ==
    /\ running \in BOOLEAN
    /\ tries \in 0 .. MaxTries
    /\ pc \in Nodes \cup {"supervisor", "end", None}
    /\ asking \in BOOLEAN
    /\ resume \in Answers \cup {None}
    /\ supersteps \in Nat
    /\ iterations \in Nat
    /\ findings \in Seq(Agents)
    /\ critic \in Verdicts \cup {None}
    /\ exchanges \in Seq(Exchange)
    /\ pending \in Nat \cup {NoQuestion}
    /\ supervisorNext \in Decisions \cup {None}
    /\ report \in BOOLEAN

(* The iteration budget counts every agent finding and every human         *)
(* exchange exactly once, and is never overrun, whatever the LLM decides   *)
(* and however often the graph is stopped and resumed.                     *)
BudgetKept ==
    /\ iterations = Len(findings) + Len(exchanges)
    /\ iterations <= MaxIterations

(* One invocation takes at most a supervisor and a node superstep for each *)
(* iteration and for the writer: with max_iterations 10 that is 22, so a   *)
(* recursion limit of 25, the default LangGraph documents and the worker's *)
(* config leaves unset, never cuts an invocation short and fails the job.  *)
SuperstepsBounded == supersteps <= 2 * MaxIterations + 2

(* Nothing but the investigator runs before a finding of its own exists:   *)
(* web_search and critic read the investigator's finding, and every report *)
(* rests on one (guard G1).                                                *)
InvestigatorFirst ==
    /\ findings # <<>> => findings[1] = "investigator"
    /\ pc \in {"codebase_search", "web_search", "critic", "human_input", "writer", "end"}
         => findings # <<>>

(* The human is only ever asked the question of the supervisor decision    *)
(* that led to the node: human_input's fallback question is dead code, and *)
(* a question stored by a diverted decision (G1) is never asked.           *)
FreshQuestion ==
    /\ pc = "human_input" => pending = iterations
    /\ \A i \in DOMAIN exchanges : exchanges[i].asked = exchanges[i].at

(* The graph asks the human at most twice, and never stops for a third     *)
(* answer (guard G2, and the test in supervisor_node that must agree).     *)
AtMostTwoExchanges ==
    /\ Len(exchanges) <= MaxExchanges
    /\ pc = "human_input" => Len(exchanges) < MaxExchanges

(* A report is written over the critic's rejection only when the budget is *)
(* spent or the supervisor said "end"; in particular the forced fallback   *)
(* of a supervisor that cannot produce valid output does not bypass G5.    *)
RejectionGate ==
    report /\ critic = "REJECTED" => iterations >= MaxIterations \/ supervisorNext = "end"

(* Every invocation of the graph comes to rest, at an interrupt or at the  *)
(* end, without help from the human or the worker.                         *)
InvocationEnds == running ~> ~running

(* Seen from outside the graph is a GraphThread.                           *)
Thread == INSTANCE GraphThread WITH
    MaxQuestions <- MaxExchanges,
    thread <- CASE pc = None -> "absent"
                [] pc = "end" -> "finished"
                [] OTHER -> IF asking THEN "asking" ELSE "working",
    answered <- Len(exchanges)

ThreadSpec == Thread!Spec

=============================================================================
