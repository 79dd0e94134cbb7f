-------------------------- MODULE TriageGraphProofs --------------------------
(***************************************************************************)
(* The safety properties of TriageGraph for every iteration budget, from   *)
(* one inductive invariant, and the proof that the graph implements        *)
(* GraphThread.                                                            *)
(***************************************************************************)
EXTENDS TriageGraph, SequenceTheorems, TLAPS

(* Supersteps already taken when the node at pc is due, beyond the two     *)
(* that every completed iteration costs.                                   *)
Lead == IF pc \in Nodes THEN 1 ELSE IF pc = "end" THEN 2 ELSE 0

(* A node that consumes an iteration is only routed to while one is left.  *)
BudgetInv ==
    /\ iterations = Len(findings) + Len(exchanges)
    /\ iterations <= MaxIterations
    /\ pc \in Nodes \ {"writer"} => iterations < MaxIterations

SuperstepsInv == supersteps <= 2 * iterations + Lead

(* InvestigatorFirst, and what the supervisor needs to re-establish it.    *)
FirstInv ==
    /\ InvestigatorFirst
    /\ exchanges # <<>> => findings # <<>>

(* The writer is due, or has run, only on one of the three permitted       *)
(* routes.                                                                 *)
GateInv ==
    /\ report <=> pc = "end"
    /\ pc \in {"writer", "end"} /\ critic = "REJECTED"
         => iterations >= MaxIterations \/ supervisorNext = "end"

AskingInv == asking => pc = "human_input"

IInv ==
    /\ TypeOK
    /\ BudgetInv
    /\ SuperstepsInv
    /\ FirstInv
    /\ FreshQuestion
    /\ AtMostTwoExchanges
    /\ GateInv
    /\ AskingInv

-----------------------------------------------------------------------------
(* What route_from_supervisor can return, and what each answer implies.    *)

(* Whatever was decided, routing yields a node of the graph, never "end".  *)
LEMMA RouteInNodes ==
    ASSUME NEW d
    PROVE  Route(d) \in Nodes
  BY DEF Route, Nodes, Agents

(* The guards agree with the test under which supervisor_node stores the   *)
(* question, and no node other than the writer is reached once the budget  *)
(* is spent.                                                               *)
LEMMA RouteGuards ==
    ASSUME TypeOK, NEW d \in Decisions
    PROVE  /\ Route(d) # "writer" => iterations < MaxIterations
           /\ Route(d) = "human_input" => ShouldSetHitl(d) /\ iterations # 0
           /\ Route(d) # "investigator" => iterations # 0
           /\ Route(d) = "writer" /\ critic = "REJECTED"
                => iterations >= MaxIterations \/ d = "end"
  BY MaxIterationsAssumption
  DEF Route, G1, G2, G3, G4, G5, ShouldSetHitl, TypeOK, Decisions, Nodes, Agents,
      MaxExchanges

(* _invoke_supervisor always returns a decision.                           *)
LEMMA InvokeInDecisions ==
    ASSUME NEW first \in Decisions \cup {Invalid}, NEW second \in Decisions \cup {Invalid}
    PROVE  InvokeSupervisor(first, second) \in Decisions
  BY DEF InvokeSupervisor, Decisions, Nodes, Invalid

-----------------------------------------------------------------------------
LEMMA InitEstablishes == Init => IInv
<1> SUFFICES ASSUME Init PROVE IInv
  OBVIOUS
<1>1. /\ pc = None /\ resume = None /\ critic = None /\ supervisorNext = None
      /\ running = FALSE /\ asking = FALSE /\ report = FALSE
      /\ tries = 0 /\ supersteps = 0 /\ iterations = 0 /\ pending = NoQuestion
      /\ findings = <<>> /\ exchanges = <<>>
  BY DEF Init
<1>2. pc \notin Nodes \cup {"supervisor", "end"}
  BY <1>1 DEF None, Nodes, Agents
<1>3. TypeOK
  <2>1. tries \in 0 .. MaxTries
    BY <1>1, MaxTriesAssumption
  <2>2. findings \in Seq(Agents) /\ exchanges \in Seq(Exchange)
    BY <1>1, EmptySeq
  <2>3. QED
    BY <1>1, <2>1, <2>2 DEF TypeOK
<1>4. BudgetInv /\ AtMostTwoExchanges
  BY <1>1, <1>2, MaxIterationsAssumption DEF BudgetInv, AtMostTwoExchanges, MaxExchanges, Nodes
<1>5. SuperstepsInv
  BY <1>1, <1>2 DEF SuperstepsInv, Lead
<1>6. FirstInv /\ FreshQuestion /\ GateInv /\ AskingInv
  BY <1>1, <1>2 DEF FirstInv, InvestigatorFirst, FreshQuestion, GateInv, AskingInv, Nodes, Agents
<1>7. QED
  BY <1>3, <1>4, <1>5, <1>6 DEF IInv

(* The supervisor: the only step that moves pc to a node.                  *)
LEMMA SupervisorPreserves ==
    ASSUME IInv, Supervisor
    PROVE  IInv'
<1>1. PICK d \in Decisions :
         /\ supervisorNext' = d
         /\ pending' = IF ShouldSetHitl(d) THEN iterations ELSE pending
         /\ pc' = Route(d)
  BY InvokeInDecisions DEF Supervisor
<1>2. pc' \in Nodes
  BY <1>1, RouteInNodes
<1>3. /\ pc' # "writer" => iterations < MaxIterations
      /\ pc' = "human_input" => ShouldSetHitl(d) /\ iterations # 0
      /\ pc' # "investigator" => iterations # 0
      /\ pc' = "writer" /\ critic = "REJECTED" => iterations >= MaxIterations \/ d = "end"
  BY <1>1, RouteGuards DEF IInv
<1>4. /\ pc = "supervisor" /\ supersteps' = supersteps + 1 /\ resume' = None
      /\ UNCHANGED <<running, tries, asking, iterations, findings, critic, exchanges, report>>
  BY DEF Supervisor
<1>5. TypeOK'
  BY <1>1, <1>2, <1>4 DEF IInv, TypeOK, None, Nodes, Agents
<1>6. BudgetInv'
  BY <1>2, <1>3, <1>4 DEF IInv, BudgetInv, Nodes
<1>7. SuperstepsInv'
  BY <1>2, <1>4 DEF IInv, TypeOK, SuperstepsInv, Lead, Nodes, Agents
<1>8. FirstInv'
  <2>1. iterations # 0 => findings # <<>>
    BY DEF IInv, TypeOK, BudgetInv, FirstInv
  <2>2. QED
    BY <2>1, <1>2, <1>3, <1>4 DEF IInv, FirstInv, InvestigatorFirst
<1>9. FreshQuestion'
  BY <1>1, <1>3, <1>4 DEF IInv, FreshQuestion
<1>10. AtMostTwoExchanges'
  BY <1>3, <1>4 DEF IInv, AtMostTwoExchanges, ShouldSetHitl
<1>11. GateInv'
  BY <1>1, <1>2, <1>3, <1>4 DEF IInv, GateInv, Nodes, Agents
<1>12. AskingInv'
  BY <1>4 DEF IInv, AskingInv
<1>13. QED
  BY <1>5, <1>6, <1>7, <1>8, <1>9, <1>10, <1>11, <1>12 DEF IInv

(* An agent node.                                                          *)
LEMMA AgentNodePreserves ==
    ASSUME IInv, NEW a \in Agents, AgentNode(a)
    PROVE  IInv'
<1>1. /\ pc = a /\ pc' = "supervisor"
      /\ findings' = Append(findings, a)
      /\ iterations' = iterations + 1
      /\ supersteps' = supersteps + 1
      /\ resume' = None
      /\ UNCHANGED <<running, tries, asking, exchanges, pending, supervisorNext, report>>
  BY DEF AgentNode
<1>2. critic' \in Verdicts \cup {None}
  BY DEF AgentNode, IInv, TypeOK
<1>3. a \in Nodes /\ a \notin {"writer", "human_input", "supervisor", "end"}
  BY DEF Nodes, Agents
<1>4. /\ findings \in Seq(Agents)
      /\ findings' \in Seq(Agents)
      /\ findings' # <<>>
      /\ Len(findings') = Len(findings) + 1
      /\ findings # <<>> => findings'[1] = findings[1]
      /\ findings = <<>> => findings'[1] = a
  BY <1>1 DEF IInv, TypeOK
<1>5. TypeOK'
  BY <1>1, <1>2, <1>4 DEF IInv, TypeOK
<1>6. BudgetInv'
  <2>1. Len(findings) \in Nat /\ Len(exchanges) \in Nat /\ iterations \in Nat
    BY LenProperties DEF IInv, TypeOK
  <2>2. iterations < MaxIterations /\ pc' \notin Nodes
    BY <1>1, <1>3 DEF IInv, BudgetInv, Nodes, Agents
  <2>3. QED
    BY <1>1, <1>4, <2>1, <2>2, MaxIterationsAssumption DEF IInv, BudgetInv
<1>7. SuperstepsInv'
  BY <1>1, <1>3 DEF IInv, TypeOK, SuperstepsInv, Lead, Nodes, Agents
<1>8. FirstInv'
  <2>1. findings = <<>> => a = "investigator"
    BY <1>1 DEF IInv, FirstInv, InvestigatorFirst, Agents
  <2>2. QED
    BY <2>1, <1>1, <1>4 DEF IInv, FirstInv, InvestigatorFirst
<1>9. FreshQuestion' /\ AtMostTwoExchanges' /\ AskingInv'
  BY <1>1, <1>3 DEF IInv, FreshQuestion, AtMostTwoExchanges, AskingInv
<1>10. GateInv'
  BY <1>1, <1>3 DEF IInv, GateInv
<1>11. QED
  BY <1>5, <1>6, <1>7, <1>8, <1>9, <1>10 DEF IInv

(* The human's answer.                                                     *)
LEMMA HumanAnsweredPreserves ==
    ASSUME IInv, HumanAnswered
    PROVE  IInv'
<1> DEFINE e == [asked |-> pending, at |-> iterations, answer |-> resume]
<1>1. /\ pc = "human_input" /\ pc' = "supervisor"
      /\ exchanges' = Append(exchanges, e)
      /\ pending' = NoQuestion
      /\ iterations' = iterations + 1
      /\ supersteps' = supersteps + 1
      /\ asking' = FALSE /\ resume' = None
      /\ UNCHANGED <<running, tries, findings, critic, supervisorNext, report>>
  BY DEF HumanAnswered
<1>2. e \in Exchange /\ e.asked = e.at
  BY <1>1 DEF HumanAnswered, IInv, TypeOK, FreshQuestion, Exchange, NoQuestion
<1>3. /\ exchanges \in Seq(Exchange)
      /\ exchanges' \in Seq(Exchange)
      /\ Len(exchanges') = Len(exchanges) + 1
      /\ \A i \in DOMAIN exchanges' : i \in DOMAIN exchanges \/ exchanges'[i] = e
      /\ \A i \in DOMAIN exchanges : exchanges'[i] = exchanges[i]
  BY <1>1, <1>2 DEF IInv, TypeOK
<1>4. TypeOK'
  <2>1. TypeOK
    BY DEF IInv
  <2>2. iterations' \in Nat /\ supersteps' \in Nat
    BY <1>1, <2>1 DEF TypeOK
  <2>3. QED
    BY <1>1, <1>3, <2>1, <2>2 DEF TypeOK
<1>5. BudgetInv' /\ AtMostTwoExchanges'
  <2>1. Len(findings) \in Nat /\ Len(exchanges) \in Nat /\ iterations \in Nat
    BY LenProperties DEF IInv, TypeOK
  <2>2. iterations < MaxIterations /\ pc' \notin Nodes
    BY <1>1 DEF IInv, BudgetInv, Nodes, Agents
  <2>3. QED
    BY <1>1, <1>3, <2>1, <2>2, MaxIterationsAssumption
    DEF IInv, BudgetInv, AtMostTwoExchanges, MaxExchanges
<1>6. SuperstepsInv'
  BY <1>1 DEF IInv, TypeOK, SuperstepsInv, Lead, Nodes, Agents
<1>7. FirstInv'
  BY <1>1 DEF IInv, FirstInv, InvestigatorFirst
<1>8. FreshQuestion'
  BY <1>1, <1>2, <1>3 DEF IInv, FreshQuestion
<1>9. GateInv' /\ AskingInv'
  BY <1>1 DEF IInv, GateInv, AskingInv
<1>10. QED
  BY <1>4, <1>5, <1>6, <1>7, <1>8, <1>9 DEF IInv

(* The writer.                                                             *)
LEMMA WriterPreserves ==
    ASSUME IInv, Writer
    PROVE  IInv'
<1>1. /\ pc = "writer" /\ pc' = "end" /\ report' = TRUE
      /\ supersteps' = supersteps + 1 /\ resume' = None
      /\ UNCHANGED <<running, tries, asking, iterations, findings, critic, exchanges,
                     pending, supervisorNext>>
  BY DEF Writer
<1>2. TypeOK'
  BY <1>1 DEF IInv, TypeOK
<1>3. BudgetInv' /\ AtMostTwoExchanges'
  BY <1>1 DEF IInv, BudgetInv, AtMostTwoExchanges, Nodes, Agents
<1>4. SuperstepsInv'
  BY <1>1 DEF IInv, TypeOK, SuperstepsInv, Lead, Nodes, Agents
<1>5. FirstInv' /\ FreshQuestion' /\ GateInv' /\ AskingInv'
  BY <1>1 DEF IInv, FirstInv, InvestigatorFirst, FreshQuestion, GateInv, AskingInv
<1>6. QED
  BY <1>2, <1>3, <1>4, <1>5 DEF IInv

(* The start of a run resets the thread to its initial data.               *)
LEMMA StartFreshPreserves ==
    ASSUME IInv, StartFresh
    PROVE  IInv'
<1>1. /\ pc' = "supervisor" /\ running' = TRUE /\ tries' = tries + 1 /\ tries < MaxTries
      /\ resume' = None /\ critic' = None /\ supervisorNext' = None
      /\ asking' = FALSE /\ report' = FALSE
      /\ supersteps' = 0 /\ iterations' = 0 /\ pending' = NoQuestion
      /\ findings' = <<>> /\ exchanges' = <<>>
  BY DEF StartFresh
<1>2. "supervisor" \notin Nodes
  BY DEF Nodes, Agents
<1>3. TypeOK'
  <2>1. tries' \in 0 .. MaxTries
    BY <1>1, MaxTriesAssumption DEF IInv, TypeOK
  <2>2. findings' \in Seq(Agents) /\ exchanges' \in Seq(Exchange)
    BY <1>1, EmptySeq
  <2>3. QED
    BY <1>1, <2>1, <2>2 DEF TypeOK
<1>4. BudgetInv' /\ AtMostTwoExchanges'
  BY <1>1, <1>2, MaxIterationsAssumption DEF BudgetInv, AtMostTwoExchanges, MaxExchanges
<1>5. SuperstepsInv'
  BY <1>1, <1>2 DEF SuperstepsInv, Lead
<1>6. FirstInv' /\ FreshQuestion' /\ GateInv' /\ AskingInv'
  BY <1>1 DEF FirstInv, InvestigatorFirst, FreshQuestion, GateInv, AskingInv
<1>7. QED
  BY <1>3, <1>4, <1>5, <1>6 DEF IInv

(* The steps that leave the data and pc alone.                             *)
LEMMA ControlPreserves ==
    ASSUME IInv, \/ AskHuman \/ StreamEnds \/ Interrupted
                 \/ \E v \in Answers : Resume(v)
                 \/ UNCHANGED vars
    PROVE  IInv'
<1>1. /\ UNCHANGED <<tries, pc>> /\ UNCHANGED state
      /\ running' \in BOOLEAN
      /\ resume' \in Answers \cup {None}
      /\ asking' \in BOOLEAN
      /\ asking' => asking \/ pc = "human_input"
      /\ supersteps' \in {supersteps, 0}
  <2>1. CASE AskHuman
    BY <2>1 DEF AskHuman, IInv, TypeOK
  <2>2. CASE StreamEnds \/ Interrupted \/ \E v \in Answers : Resume(v)
    <3>1. /\ UNCHANGED <<tries, pc, asking>> /\ UNCHANGED state
          /\ running' \in BOOLEAN /\ resume' \in Answers \cup {None}
          /\ supersteps' \in {supersteps, 0}
      BY <2>2 DEF StreamEnds, Interrupted, Resume
    <3>2. asking \in BOOLEAN
      BY DEF IInv, TypeOK
    <3>3. QED
      BY <3>1, <3>2
  <2>3. CASE UNCHANGED vars
    BY <2>3 DEF vars, state, IInv, TypeOK
  <2>4. QED
    BY <2>1, <2>2, <2>3
<1>2. UNCHANGED <<iterations, findings, critic, exchanges, pending, supervisorNext, report>>
  BY <1>1 DEF state
<1>3. TypeOK'
  BY <1>1, <1>2 DEF IInv, TypeOK
<1>4. BudgetInv' /\ AtMostTwoExchanges' /\ FirstInv' /\ FreshQuestion' /\ GateInv' /\ AskingInv'
  BY <1>1, <1>2 DEF IInv, BudgetInv, AtMostTwoExchanges, FirstInv, InvestigatorFirst,
                    FreshQuestion, GateInv, AskingInv
<1>5. SuperstepsInv'
  <2>1. 0 <= 2 * iterations + Lead
    BY DEF IInv, TypeOK, Lead
  <2>2. Lead' = Lead
    BY <1>1 DEF Lead
  <2>3. QED
    BY <2>1, <2>2, <1>1, <1>2 DEF IInv, SuperstepsInv
<1>6. QED
  BY <1>3, <1>4, <1>5 DEF IInv

LEMMA StepPreserves == IInv /\ [Next]_vars => IInv'
<1> SUFFICES ASSUME IInv, [Next]_vars PROVE IInv'
  OBVIOUS
<1>1. CASE Supervisor
  BY <1>1, SupervisorPreserves
<1>2. ASSUME NEW a \in Agents, AgentNode(a) PROVE IInv'
  BY <1>2, AgentNodePreserves
<1>3. CASE HumanAnswered
  BY <1>3, HumanAnsweredPreserves
<1>4. CASE Writer
  BY <1>4, WriterPreserves
<1>5. CASE StartFresh
  BY <1>5, StartFreshPreserves
<1>6. CASE \/ AskHuman \/ StreamEnds \/ Interrupted
           \/ \E v \in Answers : Resume(v)
           \/ UNCHANGED vars
  BY <1>6, ControlPreserves
<1>7. QED
  BY <1>1, <1>2, <1>3, <1>4, <1>5, <1>6 DEF Next, NodeStep

(* The inductive invariant holds throughout every behaviour.               *)
THEOREM InductiveInvariant == Spec => []IInv
  BY InitEstablishes, StepPreserves, PTL DEF Spec

-----------------------------------------------------------------------------
(* The properties the runs check, for every iteration budget and any       *)
(* number of restarts.                                                     *)

(* Every variable keeps its type.                                          *)
THEOREM TypeCorrect == Spec => []TypeOK
  BY InductiveInvariant, PTL DEF IInv

(* The iteration budget is exact and is never overrun.                     *)
THEOREM BudgetHolds == Spec => []BudgetKept
<1>1. IInv => BudgetKept
  BY DEF IInv, BudgetInv, BudgetKept
<1>2. QED
  BY <1>1, InductiveInvariant, PTL

(* An invocation never needs more than 2 * max_iterations + 2 supersteps.  *)
THEOREM SuperstepBound == Spec => []SuperstepsBounded
<1>1. IInv => SuperstepsBounded
  BY MaxIterationsAssumption
  DEF IInv, TypeOK, BudgetInv, SuperstepsInv, SuperstepsBounded, Lead
<1>2. QED
  BY <1>1, InductiveInvariant, PTL

(* The investigator's finding comes first and is there whenever it is read.*)
THEOREM InvestigatorLeads == Spec => []InvestigatorFirst
  BY InductiveInvariant, PTL DEF IInv, FirstInv

(* The human is asked exactly the question the supervisor just decided on. *)
THEOREM QuestionsFresh == Spec => []FreshQuestion
  BY InductiveInvariant, PTL DEF IInv

(* No run of the graph asks the human a third time.                        *)
THEOREM TwoQuestions == Spec => []AtMostTwoExchanges
  BY InductiveInvariant, PTL DEF IInv

(* The critic's rejection is overruled on two routes only.                 *)
THEOREM GateHolds == Spec => []RejectionGate
<1>1. IInv => RejectionGate
  BY DEF IInv, GateInv, RejectionGate
<1>2. QED
  BY <1>1, InductiveInvariant, PTL

-----------------------------------------------------------------------------
(* Refinement.                                                             *)

LEMMA ThreadInit == Init => Thread!Init
<1> SUFFICES ASSUME Init PROVE Thread!Init
  OBVIOUS
<1>1. pc = None /\ exchanges = <<>> /\ Len(<<>>) = 0
  BY EmptySeq DEF Init
<1>2. (CASE pc = None -> "absent"
          [] pc = "end" -> "finished"
          [] OTHER -> IF asking THEN "asking" ELSE "working") = "absent"
  BY <1>1 DEF None
<1>3. QED
  BY <1>1, <1>2 DEF Thread!Init

LEMMA ThreadStep == IInv /\ [Next]_vars => [Thread!Next]_(Thread!threadVars)
<1> SUFFICES ASSUME IInv, [Next]_vars
             PROVE  [Thread!Next]_(Thread!threadVars)
  OBVIOUS
<1> USE DEF Thread!threadVars
<1>1. CASE Supervisor
  <2>1. PICK d \in Decisions : pc' = Route(d)
    BY <1>1, InvokeInDecisions DEF Supervisor
  <2>2. pc' \notin {None, "end"} /\ pc \notin {None, "end"}
    BY <1>1, <2>1, RouteInNodes DEF Supervisor, None, Nodes, Agents
  <2>3. UNCHANGED <<asking, exchanges>>
    BY <1>1 DEF Supervisor
  <2>4. QED
    BY <2>2, <2>3
<1>2. ASSUME NEW a \in Agents, AgentNode(a)
      PROVE  [Thread!Next]_(Thread!threadVars)
  <2>1. pc' \notin {None, "end"} /\ pc \notin {None, "end"}
    BY <1>2 DEF AgentNode, None, Agents
  <2>2. UNCHANGED <<asking, exchanges>>
    BY <1>2 DEF AgentNode
  <2>3. QED
    BY <2>1, <2>2
<1>3. CASE AskHuman
  <2>1. pc = "human_input" /\ UNCHANGED <<pc, exchanges>> /\ asking' = TRUE
    BY <1>3 DEF AskHuman, state
  <2>2. Len(exchanges) < MaxExchanges /\ pc \notin {None, "end"}
    BY <2>1 DEF IInv, AtMostTwoExchanges, None
  <2>3. CASE asking
    BY <2>1, <2>3
  <2>4. CASE ~asking
    BY <2>1, <2>2, <2>4 DEF Thread!Next, Thread!Ask
  <2>5. QED
    BY <2>3, <2>4
<1>4. CASE HumanAnswered
  <2>1. /\ pc \notin {None, "end"} /\ pc' \notin {None, "end"} /\ asking' = FALSE
        /\ Len(exchanges) < MaxExchanges
    BY <1>4 DEF HumanAnswered, IInv, AtMostTwoExchanges, None
  <2>2. Len(exchanges') = Len(exchanges) + 1
    BY <1>4 DEF HumanAnswered, IInv, TypeOK
  <2>3. QED
    BY <2>1, <2>2 DEF Thread!Next, Thread!Answer
<1>5. CASE Writer
  <2>1. pc = "writer" /\ pc' = "end" /\ UNCHANGED <<asking, exchanges>>
    BY <1>5 DEF Writer
  <2>2. asking = FALSE
    BY <2>1 DEF IInv, TypeOK, AskingInv
  <2>3. QED
    BY <2>1, <2>2 DEF Thread!Next, Thread!Finish, None
<1>6. CASE StreamEnds \/ Interrupted \/ \E v \in Answers : Resume(v)
  BY <1>6 DEF StreamEnds, Interrupted, Resume, state
<1>7. CASE StartFresh
  <2>1. pc' = "supervisor" /\ asking' = FALSE /\ exchanges' = <<>>
    BY <1>7 DEF StartFresh
  <2>2. Len(exchanges') = 0
    BY <2>1, EmptySeq
  <2>3. QED
    BY <2>1, <2>2 DEF Thread!Next, Thread!Begin, None
<1>8. CASE UNCHANGED vars
  BY <1>8 DEF vars
<1>9. QED
  BY <1>1, <1>2, <1>3, <1>4, <1>5, <1>6, <1>7, <1>8 DEF Next, NodeStep

(* The triage graph implements the abstract thread the job layer drives.   *)
THEOREM ImplementsThread == Spec => ThreadSpec
  BY ThreadInit, ThreadStep, InductiveInvariant, PTL
  DEF Spec, ThreadSpec, Thread!Spec

=============================================================================
