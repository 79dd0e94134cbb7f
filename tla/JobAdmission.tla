---------------------------- MODULE JobAdmission ----------------------------
(***************************************************************************)
(* How jobs of one owner are admitted and how they leave: create_job of    *)
(* both APIs, await by await, and the steps of the endings that give back  *)
(* the slot and the idempotency key.  What a job does in between is        *)
(* TriageJob's subject; here its record is live or over.                   *)
(*                                                                         *)
(* A request draws its job id before anything else, so requests and job    *)
(* ids are the same set.  The two endings that can overlap on one job are  *)
(* called worker (the job's task or the cleaner) and kill (a request).     *)
(***************************************************************************)
EXTENDS Integers, FiniteSets

CONSTANTS
    Requests,       \* create_job requests, and the job ids they draw
    Issues,         \* issue URLs
    Limit,          \* _MAX_ACTIVE_JOBS_PER_OWNER
    NoJob,
    MaxMishaps      \* bound: awaits cut short, revivals, expiries

ASSUME RequestsAssumption == IsFiniteSet(Requests) /\ NoJob \notin Requests
ASSUME LimitAssumption == Limit \in Nat \ {0}
ASSUME MishapsAssumption == MaxMishaps \in Nat

VARIABLES
    key,            \* idempotency:<issue, owner>: the job id stored, or NoJob
    active,         \* active_jobs:<owner>, 0 when there is no such key
    ttl,            \* "set" when active_jobs:<owner> has an expiry
    pc, issue,      \* of each request: the await it is at, its issue
    record,         \* the status under job:<id>
    queued,         \* jobs whose run_triage was enqueued
    ending,         \* of each job and ender: the await the ender is at
    holders,        \* history: counted and not yet given back
    slips,          \* history: slots given back twice or lost to the expiry
    cut,            \* requests that stopped short, for good
    lost,           \* history: jobs with an ending that stopped short
    revived,        \* history: jobs that ran again after their end
    outlived,       \* history: jobs that still needed their key when it expired
    mishaps

requestVars == <<pc, issue>>
redisVars == <<key, active, ttl, record, queued>>
history == <<holders, slips, cut, lost, revived, outlived, mishaps>>
vars == <<requestVars, redisVars, ending, history>>

-----------------------------------------------------------------------------

Enders == {"worker", "kill"}
Statuses == {"none", "live", "ended", "failed"}     \* ended: done, killed, timed_out
Stages == {"idle", "save ended", "save failed", "return ended", "return failed", "unlock"}
Steps == {"new", "reading", "counting", "expiring", "uncounting", "releasing",
          "fetching", "saving", "queueing", "over"}

Init ==
    /\ key = [i \in Issues |-> NoJob]
    /\ active = 0
    /\ ttl = "none"
    /\ pc = [r \in Requests |-> "new"]
    /\ issue \in [Requests -> Issues]
    /\ record = [r \in Requests |-> "none"]
    /\ queued = {}
    /\ ending = [x \in Requests \X Enders |-> "idle"]
    /\ holders = {}
    /\ slips = 0
    /\ cut = {}
    /\ lost = {}
    /\ revived = {}
    /\ outlived = {}
    /\ mishaps = 0

-----------------------------------------------------------------------------
(* create_job.                                                             *)

Goes(r, from, to) == r \notin cut /\ pc[r] = from /\ pc' = [pc EXCEPT ![r] = to]

(* SET NX of the idempotency key.                                          *)
Claim(r) ==
    /\ IF key[issue[r]] = NoJob
       THEN Goes(r, "new", "counting") /\ key' = [key EXCEPT ![issue[r]] = r]
       ELSE Goes(r, "new", "reading") /\ UNCHANGED key
    /\ UNCHANGED <<issue, active, ttl, record, queued, ending, history>>

(* The key was taken: a GET of its own finds the job to answer with.  (By  *)
(* then the key may be gone; the answer is this request's own, unused id.) *)
ReadExisting(r) ==
    /\ Goes(r, "reading", "over")
    /\ UNCHANGED <<issue, ending, redisVars, history>>

(* Mutated: the comparison lets the count pass the limit by one.           *)
CountLate(r) ==
    /\ active' = active + 1
    /\ IF active > Limit
       THEN Goes(r, "counting", "uncounting") /\ UNCHANGED holders
       ELSE /\ Goes(r, "counting", IF active' = 1 THEN "expiring" ELSE "fetching")
            /\ holders' = holders \cup {r}
    /\ UNCHANGED <<issue, key, ttl, record, queued, ending, slips, cut, lost, revived, outlived, mishaps>>

(* INCR, and the comparison of its result.                                 *)
Count(r) ==
    /\ active' = active + 1
    /\ IF active' > Limit
       THEN Goes(r, "counting", "uncounting") /\ UNCHANGED holders
       ELSE /\ Goes(r, "counting", IF active' = 1 THEN "expiring" ELSE "fetching")
            /\ holders' = holders \cup {r}
    /\ UNCHANGED <<issue, key, ttl, record, queued, ending, slips, cut, lost, revived, outlived, mishaps>>

SetExpiry(r) ==
    /\ Goes(r, "expiring", "fetching")
    /\ ttl' = "set"
    /\ UNCHANGED <<issue, key, active, record, queued, ending, history>>

(* Mutated: the 429 is raised without giving the count back.               *)
UncountForgotten(r) ==
    /\ Goes(r, "uncounting", "releasing")
    /\ UNCHANGED <<issue, ending, redisVars, history>>

(* Over the limit: DECR, DELETE of the key, 429.                           *)
Uncount(r) ==
    /\ Goes(r, "uncounting", "releasing")
    /\ active' = active - 1
    /\ UNCHANGED <<issue, key, ttl, record, queued, ending, history>>

(* Mutated: the 429 is raised without deleting the key.                    *)
ReleaseForgotten(r) ==
    /\ Goes(r, "releasing", "over")
    /\ UNCHANGED <<issue, ending, redisVars, history>>

Release(r) ==
    /\ Goes(r, "releasing", "over")
    /\ key' = [key EXCEPT ![issue[r]] = NoJob]
    /\ UNCHANGED <<issue, active, ttl, record, queued, ending, history>>

(* fetch_issue: metadata, or none when GitHub refuses.                     *)
Fetch(r) ==
    /\ Goes(r, "fetching", "saving")
    /\ UNCHANGED <<issue, ending, redisVars, history>>

(* Mutated: a status outside JobStatus.                                    *)
SaveRecordFreely(r) ==
    /\ Goes(r, "saving", "queueing")
    /\ record' = [record EXCEPT ![r] = "new"]
    /\ UNCHANGED <<issue, key, active, ttl, queued, ending, history>>

SaveRecord(r) ==
    /\ Goes(r, "saving", "queueing")
    /\ record' = [record EXCEPT ![r] = "live"]
    /\ UNCHANGED <<issue, key, active, ttl, queued, ending, history>>

(* enqueue_job of run_triage, and the answer.  (The repository's index is  *)
(* queued just before: CodebaseIndex.)                                     *)
Enqueue(r) ==
    /\ Goes(r, "queueing", "over")
    /\ queued' = queued \cup {r}
    /\ UNCHANGED <<issue, key, active, ttl, record, ending, history>>

(* An await raises (fetch_issue lets everything but RequestFailed through) *)
(* or the API process dies: the request stops there and undoes nothing.    *)
RequestCut(r) ==
    /\ mishaps < MaxMishaps
    /\ mishaps' = mishaps + 1
    /\ pc[r] \notin {"new", "over"}
    /\ cut' = cut \cup {r}
    /\ UNCHANGED <<requestVars, redisVars, ending, holders, slips, lost, revived, outlived>>

RequestStep(r) ==
    \/ Claim(r) \/ ReadExisting(r) \/ Count(r) \/ SetExpiry(r) \/ Uncount(r) \/ Release(r)
    \/ Fetch(r) \/ SaveRecord(r) \/ Enqueue(r) \/ RequestCut(r)

-----------------------------------------------------------------------------
(* Endings.  Each loads the record, turns away from one that is over,      *)
(* saves its final status and returns the slot; after a failure the error  *)
(* handler then drops the idempotency key.                                 *)

Advances(j, e, from, to) ==
    ending[<<j, e>>] = from /\ ending' = [ending EXCEPT ![<<j, e>>] = to]

(* Mutated: the error handler drops the key before it saves the status.    *)
EndLoadUnlocks(j, e) ==
    /\ record[j] = "live"
    /\ \/ e = "kill" /\ Advances(j, e, "idle", "save ended") /\ UNCHANGED key
       \/ /\ e = "worker" /\ j \in queued
          /\ Advances(j, e, "idle", "save failed")
          /\ key' = [key EXCEPT ![issue[j]] = NoJob]
    /\ UNCHANGED <<requestVars, active, ttl, record, queued, history>>

(* _stream_and_finalize, worker_error_handler, job_timeout_cleaner, or     *)
(* kill_job: the load and its guard.                                       *)
EndLoad(j, e) ==
    /\ record[j] = "live"
    /\ \/ e = "kill" /\ Advances(j, e, "idle", "save ended")
       \/ /\ e = "worker" /\ j \in queued
          /\ \E how \in {"save ended", "save failed"} : Advances(j, e, "idle", how)
    /\ UNCHANGED <<requestVars, redisVars, history>>

(* Mutated: the final status is not saved.                                 *)
EndSaveForgotten(j, e) ==
    /\ \/ Advances(j, e, "save ended", "return ended")
       \/ Advances(j, e, "save failed", "return failed")
    /\ UNCHANGED <<requestVars, redisVars, history>>

EndSave(j, e) ==
    /\ \/ Advances(j, e, "save ended", "return ended") /\ record' = [record EXCEPT ![j] = "ended"]
       \/ Advances(j, e, "save failed", "return failed") /\ record' = [record EXCEPT ![j] = "failed"]
    /\ UNCHANGED <<requestVars, key, active, ttl, queued, history>>

(* DECR.  It is a slip when the slot was already returned.                 *)
EndReturn(j, e) ==
    /\ \/ Advances(j, e, "return ended", "idle")
       \/ Advances(j, e, "return failed", "unlock")
    /\ active' = active - 1
    /\ holders' = holders \ {j}
    /\ slips' = IF j \in holders THEN slips ELSE slips + 1
    /\ UNCHANGED <<requestVars, key, ttl, record, queued, cut, lost, revived, outlived, mishaps>>

(* DELETE of the key by the hash of the issue, whichever job it names.     *)
EndUnlock(j, e) ==
    /\ Advances(j, e, "unlock", "idle")
    /\ key' = [key EXCEPT ![issue[j]] = NoJob]
    /\ UNCHANGED <<requestVars, active, ttl, record, queued, history>>

(* The worker dies or the task is cancelled in the middle of its ending.   *)
EndCut(j, e) ==
    /\ mishaps < MaxMishaps
    /\ mishaps' = mishaps + 1
    /\ ending[<<j, e>>] # "idle"
    /\ ending' = [ending EXCEPT ![<<j, e>>] = "idle"]
    /\ lost' = lost \cup {j}
    /\ UNCHANGED <<requestVars, redisVars, holders, slips, cut, revived, outlived>>

EndStep(j, e) ==
    EndLoad(j, e) \/ EndSave(j, e) \/ EndReturn(j, e) \/ EndUnlock(j, e) \/ EndCut(j, e)

(* An answer or a GraphQL resume sets a finished job running again, with   *)
(* no slot.                                                                *)
Revive(j) ==
    /\ mishaps < MaxMishaps
    /\ mishaps' = mishaps + 1
    /\ record[j] \in {"ended", "failed"}
    /\ record' = [record EXCEPT ![j] = "live"]
    /\ queued' = queued \cup {j}
    /\ revived' = revived \cup {j}
    /\ UNCHANGED <<requestVars, key, active, ttl, ending, holders, slips, cut, lost, outlived>>

(* A day after the count last rose to 1, Redis drops the counter, whoever  *)
(* it counts.                                                              *)
CounterExpires ==
    /\ mishaps < MaxMishaps
    /\ mishaps' = mishaps + 1
    /\ ttl = "set"
    /\ ttl' = "none"
    /\ active' = 0
    /\ slips' = IF active > 0 THEN slips + active ELSE slips
    /\ UNCHANGED <<requestVars, key, record, queued, ending, holders, cut, lost, revived, outlived>>

(* A request between its claim and the end of its save, a live job, and a  *)
(* failed one whose error handler has yet to drop the key.                 *)
Claimed == {"counting", "expiring", "uncounting", "releasing", "fetching", "saving"}
Failing == {"save failed", "return failed", "unlock"}
NeedsKey(j) ==
    \/ pc[j] \in Claimed /\ j \notin cut
    \/ record[j] = "live"
    \/ ending[<<j, "worker">>] \in Failing

(* A day after its claim Redis drops the key, whatever became of the job:  *)
(* a pause has no end of its own, and a job cut in its task stays live.    *)
KeyExpires(i) ==
    /\ mishaps < MaxMishaps
    /\ mishaps' = mishaps + 1
    /\ key[i] # NoJob
    /\ key' = [key EXCEPT ![i] = NoJob]
    /\ outlived' = outlived \cup {j \in {key[i]} : NeedsKey(j)}
    /\ UNCHANGED <<requestVars, active, ttl, record, queued, ending,
                   holders, slips, cut, lost, revived>>

Next ==
    \/ \E r \in Requests : RequestStep(r) \/ Revive(r)
    \/ \E j \in Requests, e \in Enders : EndStep(j, e)
    \/ CounterExpires
    \/ \E i \in Issues : KeyExpires(i)

Spec == Init /\ [][Next]_vars

-----------------------------------------------------------------------------
(* Properties.                                                             *)

Overcounted == {r \in Requests : pc[r] = "uncounting"}
Quiet ==
    /\ \A r \in Requests \ cut : pc[r] \in {"new", "over"}
    /\ \A x \in Requests \X Enders : ending[x] = "idle"

(* Every variable has its type.                                            *)
TypeOK ==
    /\ key \in [Issues -> Requests \cup {NoJob}]
    /\ active \in Int
    /\ ttl \in {"none", "set"}
    /\ pc \in [Requests -> Steps]
    /\ issue \in [Requests -> Issues]
    /\ record \in [Requests -> Statuses]
    /\ queued \subseteq Requests
    /\ ending \in [Requests \X Enders -> Stages]
    /\ holders \subseteq Requests
    /\ slips \in Nat
    /\ cut \subseteq Requests
    /\ lost \subseteq Requests
    /\ revived \subseteq Requests
    /\ outlived \subseteq Requests
    /\ mishaps \in 0 .. MaxMishaps

(* active_jobs is the number of slots that are held, less the slots given  *)
(* back twice or lost to the expiry, plus the requests between the INCR    *)
(* that refuses them and their DECR; for that moment another request may   *)
(* be refused for a slot nobody holds, and never for longer.               *)
CounterCounts ==
    /\ Cardinality(holders) + Cardinality(Overcounted) - slips <= active
    /\ active <= Cardinality(holders) + Cardinality(Overcounted)

(* Only a holder's job is live, unless it was revived.                     *)
LiveHolds == {j \in Requests : record[j] = "live"} \subseteq holders \cup revived

(* Admission implements the quota: INCR before the comparison lets no two  *)
(* requests share the last slot, whatever overlaps.                        *)
Quota == INSTANCE OwnerQuota WITH Jobs <- Requests
QuotaSpec == Quota!Spec

(* At rest nothing is left of requests that were refused and of jobs that  *)
(* ended: every key names a job with a record, every slot belongs to a     *)
(* live job, unless an await was cut short.                                *)
NothingLeftBehind ==
    Quiet =>
        /\ \A i \in Issues : key[i] \in {NoJob} \cup cut \/ record[key[i]] # "none"
        /\ \A j \in holders : record[j] = "live" \/ j \in cut \cup lost

(* One issue has one live job, however submissions, the failure of the     *)
(* earlier job, the deletion of its key and the key's expiry interleave,   *)
(* unless a job of that very issue was revived or was still at work when   *)
(* its key expired.                                                        *)
Spoilt(i) == \E l \in revived \cup outlived : issue[l] = i
OneJobPerIssue ==
    \A j, k \in Requests :
        record[j] = "live" /\ record[k] = "live" /\ issue[j] = issue[k] =>
            j = k \/ Spoilt(issue[j])

=============================================================================
