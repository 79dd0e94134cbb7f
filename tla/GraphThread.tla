----------------------------- MODULE GraphThread -----------------------------
(***************************************************************************)
(* What the rest of the system relies on of one LangGraph thread (one      *)
(* thread_id, the job's id): it can be started afresh, it may stop at an   *)
(* interrupt a bounded number of times, a resume value answers exactly one *)
(* question, and once it has finished only a fresh start moves it.         *)
(*                                                                         *)
(* TriageGraph implements this module; TriageJob drives threads through    *)
(* it.                                                                     *)
(***************************************************************************)
EXTENDS Naturals

CONSTANT MaxQuestions   \* a natural number: the supervisor's limit (guard G2)

VARIABLES
    thread,             \* "absent", "working", "asking" or "finished"
    answered            \* human exchanges completed since the last start

threadVars == <<thread, answered>>

Init ==
    /\ thread = "absent"
    /\ answered = 0

(* astream_events with an input dictionary: every channel is overwritten.  *)
Begin ==
    /\ thread' = "working"
    /\ answered' = 0

(* A node calls interrupt(): the thread waits for a resume value.          *)
Ask ==
    /\ thread = "working"
    /\ answered < MaxQuestions
    /\ thread' = "asking"
    /\ UNCHANGED answered

(* A resume value reaches the interrupt.  After a crash it may reach a     *)
(* question that was about to be asked, which is why "working" is allowed. *)
Answer ==
    /\ thread \in {"asking", "working"}
    /\ answered < MaxQuestions
    /\ thread' = "working"
    /\ answered' = answered + 1

Finish ==
    /\ thread = "working"
    /\ thread' = "finished"
    /\ UNCHANGED answered

Next == Begin \/ Ask \/ Answer \/ Finish

Spec == Init /\ [][Next]_threadVars

=============================================================================
