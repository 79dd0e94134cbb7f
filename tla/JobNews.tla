------------------------------- MODULE JobNews -------------------------------
(***************************************************************************)
(* What a job tells its event channel: the abstract specification that     *)
(* TriageJob implements and EventStream builds on.                         *)
(*                                                                         *)
(* Three statuses are the worker's news, published first and saved second; *)
(* killed is the requests', saved first and published second.  All other   *)
(* statuses are saved without a word.  A task that is cut between its two  *)
(* steps leaves an announcement the record does not bear out.              *)
(*                                                                         *)
(* queued, running, pausing and paused are all "going" here.               *)
(***************************************************************************)
CONSTANTS
    Tasks, Clients,
    MayRestore      \* TRUE: requests that write back an old copy are made

ASSUME SpeakersAssumption == Tasks \cap Clients = {} /\ MayRestore \in BOOLEAN

VARIABLES
    status,         \* of the record under job:<id>
    speaker,        \* of each task and client: the status it is making known
    streaming       \* tasks that are inside the graph

newsVars == <<status, speaker, streaming>>

Terminal == {"killed", "done", "failed", "timed_out"}
Statuses == Terminal \cup {"going", "waiting"}
TaskNews == {"waiting", "done", "failed"}
Announced == TaskNews \cup {"killed"}
Unannounced == {"going", "timed_out"}

Silent == [step |-> "none", status |-> "none"]
Has(a, step, s) == speaker[a] = [step |-> step, status |-> s]

Init ==
    /\ status = "going"
    /\ speaker = [a \in Tasks \cup Clients |-> Silent]
    /\ streaming = {}

-----------------------------------------------------------------------------

Turns(a, from, to) == speaker[a] = from /\ speaker' = [speaker EXCEPT ![a] = to]

(* A task enters the graph.                                                *)
Enter(t) ==
    /\ speaker[t] = Silent
    /\ t \notin streaming
    /\ streaming' = streaming \cup {t}
    /\ UNCHANGED <<status, speaker>>

(* The end of _stream_and_finalize, or worker_error_handler: what to say.  *)
Decide(t, s) ==
    /\ t \notin streaming
    /\ Turns(t, Silent, [step |-> "publish", status |-> s])
    /\ UNCHANGED <<status, streaming>>

Say(t, s) ==
    /\ Turns(t, [step |-> "publish", status |-> s], [step |-> "save", status |-> s])
    /\ UNCHANGED <<status, streaming>>

Settle(t, s) ==
    /\ Turns(t, [step |-> "save", status |-> s], Silent)
    /\ status' = s
    /\ UNCHANGED streaming

(* Tasks leave the graph, or are cut short wherever they are.              *)
Leave(ts) ==
    /\ ts # {}
    /\ speaker' = [a \in Tasks \cup Clients |-> IF a \in ts THEN Silent ELSE speaker[a]]
    /\ streaming' = streaming \ ts
    /\ UNCHANGED status

(* kill_job.                                                               *)
Kill(c) ==
    /\ status \notin Terminal
    /\ Turns(c, Silent, [step |-> "save", status |-> "killed"])
    /\ UNCHANGED <<status, streaming>>

KillSave(c) ==
    /\ Turns(c, [step |-> "save", status |-> "killed"], [step |-> "publish", status |-> "killed"])
    /\ status' = "killed"
    /\ UNCHANGED streaming

KillSay(c) ==
    /\ Turns(c, [step |-> "publish", status |-> "killed"], Silent)
    /\ UNCHANGED <<status, streaming>>

(* run_triage, an answer, pause, resume or the cleaner saves a status that *)
(* is no news.                                                             *)
SaveQuietly ==
    /\ status' \in Unannounced
    /\ UNCHANGED <<speaker, streaming>>

(* redirect_job or post_triage_comment writes back the copy it has read,   *)
(* whatever the record says by then.                                       *)
Restore ==
    /\ MayRestore
    /\ status' \in Statuses
    /\ UNCHANGED <<speaker, streaming>>

Next ==
    \/ \E t \in Tasks : Enter(t)
    \/ \E t \in Tasks, s \in TaskNews : Decide(t, s) \/ Say(t, s) \/ Settle(t, s)
    \/ \E ts \in SUBSET Tasks : Leave(ts)
    \/ \E c \in Clients : Kill(c) \/ KillSave(c) \/ KillSay(c)
    \/ SaveQuietly
    \/ Restore

Spec == Init /\ [][Next]_newsVars

=============================================================================
