---------------------------- MODULE CodebaseIndex ----------------------------
(***************************************************************************)
(* The vector index of one repository.  create_job asks for it, at most    *)
(* once in a day; an arq worker builds it under a Redis lock; a push       *)
(* webhook wants it brought up to date.  All keys are per repository, but  *)
(* for arq:queue, which every job of the system goes through.              *)
(*                                                                         *)
(* A build clones, chunks, embeds and writes without an await: its worker  *)
(* does nothing else meanwhile, and arq's limit of 300 seconds strikes at  *)
(* the next await, which is the release of the lock.                       *)
(*                                                                         *)
(* update_codebase_index is left out: only the webhook asks for it, in a   *)
(* form that no worker reads.                                              *)
(***************************************************************************)
EXTENDS Naturals, FiniteSets

CONSTANTS
    Requests,       \* callers of create_job
    Workers,
    Nobody,
    MaxFaults       \* bound: requests cut, builds failed or late, workers dead

ASSUME IndexAssumption == Nobody \notin Workers /\ MaxFaults \in Nat

VARIABLES
    guard,          \* repo_index:<repository> is set
    request,        \* of each request: what it does next
    queue,          \* arq:queue, the sorted set arq keeps its jobs in
    list,           \* arq:queue is a list, of what pushes left there
    keys,           \* arq's keys of the job index:<repository>
    lock,           \* index_lock:<collection>: whose token is in it
    work,           \* of each worker: what its build does next
    overran,        \* workers whose lock ran out while they were building
    left,           \* workers that went away without releasing it
    index,          \* the collection: absent, short of some chunks, or whole
    faults

asking == <<guard, request>>
arq == <<queue, list, keys>>
building == <<lock, work, overran, left, index>>
vars == <<asking, arq, building, faults>>

(* What is queued: the index, and "triage" for all other jobs.  A sorted   *)
(* set without members is no key at all.                                   *)
Jobs == {"index", "triage"}

ArqKeys == {"job", "running", "result"}

(* The steps of a build that is under the lock.                            *)
Locked == {"clone", "write", "release"}

Init ==
    /\ guard = FALSE
    /\ request = [r \in Requests |-> "idle"]
    /\ queue = {}
    /\ list = FALSE
    /\ keys = {}
    /\ lock = Nobody
    /\ work = [w \in Workers |-> "idle"]
    /\ overran = {}
    /\ left = {}
    /\ index = "absent"
    /\ faults = 0

(* The collection is there: get_codebase_retriever hands it to a search,   *)
(* short or whole.                                                         *)
Searchable == index # "absent"

Fault ==
    /\ faults < MaxFaults
    /\ faults' = faults + 1

-----------------------------------------------------------------------------
(* create_job, once it has saved the record.                               *)

Asks(r, from, to) == request[r] = from /\ request' = [request EXCEPT ![r] = to]

(* SET repo_index NX EX 86400.                                             *)
Reserve(r) ==
    /\ Asks(r, "idle", IF guard THEN "triage" ELSE "index")
    /\ guard' = TRUE
    /\ UNCHANGED <<arq, building, faults>>

(* enqueue_job with a fixed id does nothing while the job or its result is *)
(* there.  On a list it raises, though the job's key is written by then.   *)
EnqueueIndex(r) ==
    /\ \/ /\ keys \cap {"job", "result"} # {}
          /\ Asks(r, "index", "triage")
          /\ UNCHANGED arq
       \/ /\ keys \cap {"job", "result"} = {}
          /\ keys' = keys \cup {"job"}
          /\ \/ /\ list
                /\ Asks(r, "index", "idle")
                /\ UNCHANGED <<queue, list>>
             \/ /\ ~list
                /\ Asks(r, "index", "triage")
                /\ queue' = queue \cup {"index"}
                /\ UNCHANGED list
    /\ UNCHANGED <<guard, building, faults>>

EnqueueTriage(r) ==
    /\ Asks(r, "triage", "idle")
    /\ queue' = IF list THEN queue ELSE queue \cup {"triage"}
    /\ UNCHANGED <<guard, list, keys, building, faults>>

RequestCut(r) ==
    /\ Fault
    /\ request[r] # "idle"
    /\ Asks(r, request[r], "idle")
    /\ UNCHANGED <<guard, arq, building>>

(* github_webhook, of a push to the default branch: LPUSH, which fails on  *)
(* a sorted set and makes a list where there is no key.                    *)
Push ==
    /\ queue = {}
    /\ list' = TRUE
    /\ UNCHANGED <<asking, queue, keys, building, faults>>

-----------------------------------------------------------------------------
(* build_codebase_index in an arq worker.                                  *)

Does(w, from, to) == work[w] = from /\ work' = [work EXCEPT ![w] = to]

Start(w) ==
    /\ "index" \in queue
    /\ "running" \notin keys
    /\ Does(w, "idle", "lock")
    /\ keys' = keys \cup {"running"}
    /\ UNCHANGED <<asking, queue, list, lock, overran, left, index, faults>>

(* lock.acquire(blocking=False); a build that does not get it returns.     *)
Acquire(w) ==
    /\ \/ /\ lock = Nobody
          /\ Does(w, "lock", "clone")
          /\ lock' = w
          /\ overran' = overran \ {w}
          /\ left' = left \ {w}
       \/ /\ lock # Nobody
          /\ Does(w, "lock", "finish")
          /\ UNCHANGED <<lock, overran, left>>
    /\ UNCHANGED <<asking, arq, index, faults>>

(* The clone is chunked, and Chroma.from_documents begins: it creates the  *)
(* collection, and adds to the one that is there.                          *)
WriteBegins(w) ==
    /\ Does(w, "clone", "write")
    /\ index' = IF Searchable THEN index ELSE "short"
    /\ UNCHANGED <<asking, arq, lock, overran, left, faults>>

WriteEnds(w) ==
    /\ Does(w, "write", "release")
    /\ index' = "whole"
    /\ UNCHANGED <<asking, arq, lock, overran, left, faults>>

(* git, the embeddings or Chroma raise.                                    *)
BuildFails(w) ==
    /\ Fault
    /\ \E step \in {"clone", "write"} : Does(w, step, "release")
    /\ UNCHANGED <<asking, arq, lock, overran, left, index>>

(* Mutated: whatever token the lock holds, it is deleted.                  *)
ReleaseAny(w) ==
    /\ Does(w, "release", "finish")
    /\ lock' = Nobody
    /\ UNCHANGED <<asking, arq, overran, left, index, faults>>

(* Mutated: a build that has failed keeps the lock.                        *)
ReleaseIfWhole(w) ==
    /\ Does(w, "release", "finish")
    /\ lock' = IF lock = w /\ index = "whole" THEN Nobody ELSE lock
    /\ UNCHANGED <<asking, arq, overran, left, index, faults>>

(* lock.release in the finally: another's token is left alone.             *)
Release(w) ==
    /\ Does(w, "release", "finish")
    /\ lock' = IF lock = w THEN Nobody ELSE lock
    /\ UNCHANGED <<asking, arq, overran, left, index, faults>>

(* The build took longer than arq allows and is cancelled as it releases.  *)
CutShort(w) ==
    /\ Fault
    /\ Does(w, "release", "finish")
    /\ left' = left \cup {w}
    /\ UNCHANGED <<asking, arq, lock, overran, index>>

(* arq's finish_job, whoever queued the job last.  A failure is no reason  *)
(* to try again.                                                           *)
Finish(w) ==
    /\ Does(w, "finish", "idle")
    /\ queue' = queue \ {"index"}
    /\ keys' = (keys \ {"job", "running"}) \cup {"result"}
    /\ UNCHANGED <<asking, list, lock, overran, left, index, faults>>

(* Mutated: it is not started again.                                       *)
CrashForGood(w) ==
    /\ Fault
    /\ work[w] # "idle"
    /\ Does(w, work[w], "dead")
    /\ left' = IF work[w] \in Locked THEN left \cup {w} ELSE left
    /\ UNCHANGED <<asking, arq, lock, overran, index>>

(* A worker dies; the job is still queued.                                 *)
Crash(w) ==
    /\ Fault
    /\ work[w] # "idle"
    /\ Does(w, work[w], "idle")
    /\ left' = IF work[w] \in Locked THEN left \cup {w} ELSE left
    /\ UNCHANGED <<asking, arq, lock, overran, index>>

(* The triage jobs are done, by a worker that is not busy with the index.  *)
TriageDone ==
    /\ "triage" \in queue
    /\ \E w \in Workers : work[w] \notin Locked
    /\ queue' = queue \ {"triage"}
    /\ UNCHANGED <<asking, list, keys, building, faults>>

-----------------------------------------------------------------------------
(* Keys run out.                                                           *)

(* Mutated: the guard is for ever.                                         *)
GuardExpiresNever == FALSE /\ UNCHANGED vars

GuardExpires ==
    /\ guard
    /\ guard' = FALSE
    /\ UNCHANGED <<request, arq, building, faults>>

ResultExpires ==
    /\ "result" \in keys
    /\ keys' = keys \ {"result"}
    /\ UNCHANGED <<asking, queue, list, building, faults>>

(* The claim on a job outlives the steps that are short.                   *)
ClaimExpires ==
    /\ "running" \in keys
    /\ \A w \in Workers : work[w] \notin {"lock", "finish"}
    /\ keys' = keys \ {"running"}
    /\ UNCHANGED <<asking, queue, list, building, faults>>

(* timeout=3600: the lock of a worker that is gone, or of a build that     *)
(* takes longer than an hour.                                              *)
LockLapses ==
    /\ lock \in left
    /\ lock' = Nobody
    /\ UNCHANGED <<asking, arq, work, overran, left, index, faults>>

LockOverrun ==
    /\ Fault
    /\ lock # Nobody
    /\ lock \notin left
    /\ overran' = overran \cup {lock}
    /\ lock' = Nobody
    /\ UNCHANGED <<asking, arq, work, left, index>>

-----------------------------------------------------------------------------

RequestStep(r) == EnqueueIndex(r) \/ EnqueueTriage(r)
WorkerStep(w) == Acquire(w) \/ WriteBegins(w) \/ WriteEnds(w) \/ Release(w) \/ Finish(w)
Expiry == GuardExpires \/ ResultExpires \/ ClaimExpires \/ LockLapses

Next ==
    \/ \E r \in Requests : Reserve(r) \/ RequestStep(r) \/ RequestCut(r)
    \/ Push
    \/ \E w \in Workers : Start(w) \/ WorkerStep(w) \/ BuildFails(w) \/ CutShort(w) \/ Crash(w)
    \/ TriageDone
    \/ Expiry
    \/ LockOverrun

(* What is begun goes on, a worker that polls takes the job, and every key *)
(* that has a time to live runs out.  Nobody has to submit a job.          *)
Fairness ==
    /\ \A r \in Requests : WF_vars(RequestStep(r))
    /\ \A w \in Workers : WF_vars(WorkerStep(w))
    /\ WF_vars(\E w \in Workers : Start(w))
    /\ WF_vars(GuardExpires)
    /\ WF_vars(ResultExpires)
    /\ WF_vars(ClaimExpires)
    /\ WF_vars(LockLapses)

Spec == Init /\ [][Next]_vars
FairSpec == Spec /\ Fairness

-----------------------------------------------------------------------------
(* Properties.                                                             *)

(* Every variable has its type.                                            *)
TypeOK ==
    /\ guard \in BOOLEAN
    /\ request \in [Requests -> {"idle", "index", "triage"}]
    /\ queue \subseteq Jobs
    /\ list \in BOOLEAN
    /\ keys \subseteq ArqKeys
    /\ lock \in Workers \cup {Nobody}
    /\ work \in [Workers -> {"idle", "lock", "finish"} \cup Locked]
    /\ overran \subseteq Workers
    /\ left \subseteq Workers
    /\ index \in {"absent", "short", "whole"}
    /\ faults \in 0 .. MaxFaults

(* Two builds are never under way at once, unless one of them has outlived *)
(* its lock; and that one, when it ends, does not let a third one in.      *)
OneBuilder ==
    \A v, w \in Workers :
        work[v] \in Locked /\ work[w] \in Locked => v = w \/ v \in overran \/ w \in overran

(* The lock is held by a build that is under way, or else by a worker that *)
(* died or was cancelled before it could release it: a build that fails    *)
(* does not block the next one.                                            *)
NoLockLeft == lock # Nobody => work[lock] \in Locked \/ lock \in left

(* However builds fail, workers die and requests are cut, the repository   *)
(* is indexed in the end if jobs keep being submitted for it: the build    *)
(* that returned because of a dead worker's lock, or was never queued      *)
(* behind the guard, is made up for.  Only a push can stop it for good.    *)
IndexComes ==
    ([]<><<\E r \in Requests : Reserve(r)>>_vars) => <>(index = "whole" \/ list)

(* A build that create_job has given to arq is in arq's queue, also after  *)
(* a push was answered "queued".                                           *)
JobIsQueued == "job" \in keys => "index" \in queue

=============================================================================
