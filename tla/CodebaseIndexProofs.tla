------------------------- MODULE CodebaseIndexProofs -------------------------
(***************************************************************************)
(* CodebaseIndex, for any number of requests, workers and faults: its type *)
(* invariant, that two builds are under way at once only if one of them    *)
(* has outlived its lock, and that no build under way leaves it behind.    *)
(***************************************************************************)
EXTENDS CodebaseIndex, TLAPS

(* A build under way has the lock, or has had it for too long.             *)
BuilderHolds == \A w \in Workers : work[w] \in Locked => lock = w \/ w \in overran

(* Who has left it is not building.                                        *)
LeftIsOut == \A w \in left : work[w] \notin Locked

LockInv == BuilderHolds /\ NoLockLeft /\ LeftIsOut
IInv == TypeOK /\ LockInv

(* Nothing of this action is about the lock.                               *)
Aside == UNCHANGED building

LEMMA AsideKeeps ==
    ASSUME LockInv, Aside
    PROVE  LockInv'
BY DEF LockInv, BuilderHolds, NoLockLeft, LeftIsOut, Aside, building

(* A step of one task moves that task alone.                               *)
LEMMA OneMoves ==
    ASSUME TypeOK, NEW w \in Workers, NEW from, NEW to, Does(w, from, to)
    PROVE  /\ work[w] = from
           /\ work'[w] = to
           /\ \A v \in Workers : v # w => work'[v] = work[v]
BY DEF TypeOK, Does

LEMMA InitHolds == Init => IInv
<1> SUFFICES ASSUME Init
             PROVE  IInv
  OBVIOUS
<1>1. TypeOK
  <2>1. guard \in BOOLEAN /\ list \in BOOLEAN
    BY DEF Init
  <2>2. /\ request \in [Requests -> {"idle", "index", "triage"}]
        /\ work \in [Workers -> {"idle", "lock", "finish"} \cup Locked]
    BY DEF Init
  <2>3. faults \in 0 .. MaxFaults
    BY IndexAssumption DEF Init
  <2> QED
    BY <2>1, <2>2, <2>3 DEF Init, TypeOK
<1>2. \A w \in Workers : work[w] \notin Locked
  BY DEF Init, Locked
<1>3. LockInv
  BY <1>2 DEF Init, LockInv, BuilderHolds, NoLockLeft, LeftIsOut
<1> QED
  BY <1>1, <1>3 DEF IInv

-----------------------------------------------------------------------------
(* What the actions of a worker do to the lock.                            *)

LEMMA AcquireKeeps ==
    ASSUME IInv, NEW w \in Workers, Acquire(w)
    PROVE  LockInv'
<1>1. CASE Does(w, "lock", "clone") /\ lock = Nobody /\ lock' = w
           /\ overran' = overran \ {w} /\ left' = left \ {w}
  <2>1. /\ work'[w] = "clone"
        /\ \A v \in Workers : v # w => work'[v] = work[v]
    BY <1>1, OneMoves DEF IInv
  <2>2. BuilderHolds'
    <3> SUFFICES ASSUME NEW v \in Workers, work'[v] \in Locked
                 PROVE  lock' = v \/ v \in overran'
      BY DEF BuilderHolds
    <3>1. CASE v = w
      BY <1>1, <3>1
    <3>2. CASE v # w
      <4>1. lock = v \/ v \in overran
        BY <2>1, <3>2 DEF IInv, LockInv, BuilderHolds
      <4> QED
        BY <4>1, <1>1, <3>2, IndexAssumption
    <3> QED
      BY <3>1, <3>2
  <2>3. NoLockLeft'
    BY <2>1, <1>1 DEF NoLockLeft, Locked
  <2>4. LeftIsOut'
    BY <2>1, <1>1 DEF IInv, LockInv, TypeOK, LeftIsOut
  <2> QED
    BY <2>2, <2>3, <2>4 DEF LockInv
<1>2. CASE Does(w, "lock", "finish") /\ lock # Nobody /\ UNCHANGED <<lock, overran, left>>
  <2>1. /\ work[w] = "lock" /\ work'[w] = "finish"
        /\ \A v \in Workers : v # w => work'[v] = work[v]
    BY <1>2, OneMoves DEF IInv
  <2>2. BuilderHolds'
    BY <2>1, <1>2 DEF IInv, LockInv, BuilderHolds, Locked
  <2>3. NoLockLeft'
    BY <2>1, <1>2 DEF IInv, LockInv, TypeOK, NoLockLeft, Locked
  <2>4. LeftIsOut'
    BY <2>1, <1>2 DEF IInv, LockInv, TypeOK, LeftIsOut, Locked
  <2> QED
    BY <2>2, <2>3, <2>4 DEF LockInv
<1> QED
  BY <1>1, <1>2 DEF Acquire

(* Within the build, the lock is not touched.                              *)
LEMMA WithinKeeps ==
    ASSUME IInv, NEW w \in Workers, NEW from \in Locked, NEW to \in Locked,
           Does(w, from, to), UNCHANGED <<lock, overran, left>>
    PROVE  LockInv'
<1>1. /\ work[w] \in Locked /\ work'[w] \in Locked
      /\ \A v \in Workers : v # w => work'[v] = work[v]
  BY OneMoves DEF IInv
<1>2. BuilderHolds'
  BY <1>1 DEF IInv, LockInv, BuilderHolds
<1>3. NoLockLeft'
  BY <1>1 DEF IInv, LockInv, TypeOK, NoLockLeft
<1>4. LeftIsOut'
  BY <1>1 DEF IInv, LockInv, TypeOK, LeftIsOut
<1> QED
  BY <1>2, <1>3, <1>4 DEF LockInv

(* Outside of it too.                                                      *)
LEMMA OutsideKeeps ==
    ASSUME IInv, NEW w \in Workers, NEW from, NEW to, from \notin Locked, to \notin Locked,
           Does(w, from, to), UNCHANGED <<lock, overran, left>>
    PROVE  LockInv'
<1>1. /\ work[w] \notin Locked /\ work'[w] \notin Locked
      /\ \A v \in Workers : v # w => work'[v] = work[v]
  BY OneMoves DEF IInv
<1>2. BuilderHolds'
  BY <1>1 DEF IInv, LockInv, BuilderHolds
<1>3. NoLockLeft'
  BY <1>1 DEF IInv, LockInv, TypeOK, NoLockLeft
<1>4. LeftIsOut'
  BY <1>1 DEF IInv, LockInv, TypeOK, LeftIsOut
<1> QED
  BY <1>2, <1>3, <1>4 DEF LockInv

LEMMA ReleaseKeeps ==
    ASSUME IInv, NEW w \in Workers, Release(w)
    PROVE  LockInv'
<1>1. /\ work'[w] = "finish"
      /\ \A v \in Workers : v # w => work'[v] = work[v]
  BY OneMoves DEF IInv, Release
<1>2. /\ lock' = IF lock = w THEN Nobody ELSE lock
      /\ UNCHANGED <<overran, left>>
  BY DEF Release
<1>3. BuilderHolds'
  <2> SUFFICES ASSUME NEW v \in Workers, work'[v] \in Locked
               PROVE  lock' = v \/ v \in overran'
    BY DEF BuilderHolds
  <2>1. v # w
    BY <1>1 DEF Locked
  <2>2. lock = v \/ v \in overran
    BY <1>1, <2>1 DEF IInv, LockInv, BuilderHolds
  <2> QED
    BY <1>2, <2>1, <2>2
<1>4. NoLockLeft'
  <2> SUFFICES ASSUME lock' # Nobody
               PROVE  work'[lock'] \in Locked \/ lock' \in left'
    BY DEF NoLockLeft
  <2>1. lock' = lock /\ lock # w /\ lock \in Workers
    BY <1>2 DEF IInv, TypeOK
  <2> QED
    BY <1>1, <1>2, <2>1 DEF IInv, LockInv, NoLockLeft
<1>5. LeftIsOut'
  BY <1>1, <1>2 DEF IInv, LockInv, TypeOK, LeftIsOut, Locked
<1> QED
  BY <1>3, <1>4, <1>5 DEF LockInv

(* A worker goes away.                                                     *)
LEMMA GoneKeeps ==
    ASSUME IInv, NEW w \in Workers, NEW from, NEW to \in {"idle", "finish"},
           Does(w, from, to), UNCHANGED <<lock, overran>>,
           left' = IF from \in Locked THEN left \cup {w} ELSE left
    PROVE  LockInv'
<1>1. /\ work[w] = from /\ work'[w] = to /\ to \notin Locked
      /\ \A v \in Workers : v # w => work'[v] = work[v]
  BY OneMoves DEF IInv, Locked
<1>2. BuilderHolds'
  BY <1>1 DEF IInv, LockInv, BuilderHolds
<1>3. NoLockLeft'
  <2> SUFFICES ASSUME lock # Nobody
               PROVE  work'[lock] \in Locked \/ lock \in left'
    BY DEF NoLockLeft
  <2>1. lock \in Workers /\ (work[lock] \in Locked \/ lock \in left)
    BY DEF IInv, LockInv, TypeOK, NoLockLeft
  <2>2. CASE lock = w
    BY <1>1, <2>1, <2>2
  <2>3. CASE lock # w
    BY <1>1, <2>1, <2>3
  <2> QED
    BY <2>2, <2>3
<1>4. LeftIsOut'
  BY <1>1 DEF IInv, LockInv, TypeOK, LeftIsOut
<1> QED
  BY <1>2, <1>3, <1>4 DEF LockInv

(* A lock runs out: that of a worker that is gone, or of one that builds.  *)
LEMMA LapseKeeps ==
    ASSUME IInv, LockLapses
    PROVE  LockInv'
<1>1. lock \in left /\ lock' = Nobody /\ UNCHANGED <<work, overran, left>>
  BY DEF LockLapses
<1>2. BuilderHolds'
  BY <1>1 DEF IInv, LockInv, BuilderHolds, LeftIsOut
<1>3. NoLockLeft' /\ LeftIsOut'
  BY <1>1 DEF IInv, LockInv, NoLockLeft, LeftIsOut
<1> QED
  BY <1>2, <1>3 DEF LockInv

LEMMA OverrunKeeps ==
    ASSUME IInv, LockOverrun
    PROVE  LockInv'
<1>1. overran' = overran \cup {lock} /\ lock' = Nobody /\ UNCHANGED <<work, left>>
  BY DEF LockOverrun
<1>2. BuilderHolds'
  BY <1>1 DEF IInv, LockInv, BuilderHolds
<1>3. NoLockLeft' /\ LeftIsOut'
  BY <1>1 DEF IInv, LockInv, NoLockLeft, LeftIsOut
<1> QED
  BY <1>2, <1>3 DEF LockInv

-----------------------------------------------------------------------------
(* The inductive invariant.                                                *)

LEMMA TypeKept ==
    ASSUME TypeOK, [Next]_vars
    PROVE  TypeOK'
<1> USE IndexAssumption
<1>1. ASSUME NEW r \in Requests, Reserve(r) \/ RequestStep(r) \/ RequestCut(r)
      PROVE  TypeOK'
  <2>1. CASE Reserve(r)
    BY <2>1 DEF Reserve, Asks, TypeOK, arq, building
  <2>2. CASE EnqueueIndex(r)
    BY <2>2 DEF EnqueueIndex, Asks, TypeOK, arq, building, Jobs, ArqKeys
  <2>3. CASE EnqueueTriage(r)
    BY <2>3 DEF EnqueueTriage, Asks, TypeOK, building, Jobs
  <2>4. CASE RequestCut(r)
    BY <2>4 DEF RequestCut, Fault, Asks, TypeOK, arq, building
  <2> QED
    BY <1>1, <2>1, <2>2, <2>3, <2>4 DEF RequestStep
<1>2. CASE Push
  BY <1>2 DEF Push, TypeOK, asking, building
<1>3. ASSUME NEW w \in Workers, Start(w) \/ Finish(w)
      PROVE  TypeOK'
  BY <1>3 DEF Start, Finish, Does, TypeOK, asking, Jobs, ArqKeys, Locked
<1>4. ASSUME NEW w \in Workers, Acquire(w)
      PROVE  TypeOK'
  BY <1>4 DEF Acquire, Does, TypeOK, asking, arq, Locked
<1>5. ASSUME NEW w \in Workers, WriteBegins(w) \/ WriteEnds(w) \/ Release(w)
      PROVE  TypeOK'
  BY <1>5 DEF WriteBegins, WriteEnds, Release, Does, TypeOK, asking, arq, Locked
<1>6. ASSUME NEW w \in Workers, BuildFails(w) \/ CutShort(w) \/ Crash(w)
      PROVE  TypeOK'
  BY <1>6 DEF BuildFails, CutShort, Crash, Fault, Does, TypeOK, asking, arq, Locked
<1>7. CASE TriageDone
  BY <1>7 DEF TriageDone, TypeOK, asking, building
<1>8. CASE Expiry
  BY <1>8 DEF Expiry, GuardExpires, ResultExpires, ClaimExpires, LockLapses, TypeOK,
              asking, arq, building
<1>9. CASE LockOverrun
  BY <1>9 DEF LockOverrun, Fault, TypeOK, asking, arq
<1>10. CASE UNCHANGED vars
  BY <1>10 DEF vars, asking, arq, building, TypeOK
<1> QED
  BY <1>1, <1>2, <1>3, <1>4, <1>5, <1>6, <1>7, <1>8, <1>9, <1>10 DEF Next, WorkerStep

LEMMA LockInvKept ==
    ASSUME IInv, [Next]_vars
    PROVE  LockInv'
<1>1. ASSUME NEW r \in Requests, Reserve(r) \/ RequestStep(r) \/ RequestCut(r)
      PROVE  Aside
  BY <1>1 DEF Reserve, RequestStep, EnqueueIndex, EnqueueTriage, RequestCut, Aside
<1>2. Push \/ TriageDone \/ GuardExpires \/ ResultExpires \/ ClaimExpires => Aside
  BY DEF Push, TriageDone, GuardExpires, ResultExpires, ClaimExpires, Aside
<1>3. CASE Aside
  BY <1>3, AsideKeeps DEF IInv
<1>4. ASSUME NEW w \in Workers, Start(w) \/ WorkerStep(w) \/ BuildFails(w) \/ CutShort(w) \/ Crash(w)
      PROVE  LockInv'
  <2>1. CASE Start(w)
    BY <2>1, OutsideKeeps DEF Start, Locked
  <2>2. CASE Acquire(w)
    BY <2>2, AcquireKeeps
  <2>3. CASE WriteBegins(w)
    BY <2>3, WithinKeeps DEF WriteBegins, Locked
  <2>4. CASE WriteEnds(w)
    BY <2>4, WithinKeeps DEF WriteEnds, Locked
  <2>5. CASE Release(w)
    BY <2>5, ReleaseKeeps
  <2>6. CASE Finish(w)
    BY <2>6, OutsideKeeps DEF Finish, Locked
  <2>7. CASE BuildFails(w)
    BY <2>7, WithinKeeps DEF BuildFails, Locked
  <2>8. CASE CutShort(w)
    BY <2>8, GoneKeeps DEF CutShort, Locked
  <2>9. CASE Crash(w)
    BY <2>9, GoneKeeps DEF Crash
  <2> QED
    BY <1>4, <2>1, <2>2, <2>3, <2>4, <2>5, <2>6, <2>7, <2>8, <2>9 DEF WorkerStep
<1>5. CASE LockLapses
  BY <1>5, LapseKeeps
<1>6. CASE LockOverrun
  BY <1>6, OverrunKeeps
<1>7. UNCHANGED vars => Aside
  BY DEF vars, Aside
<1> QED
  BY <1>1, <1>2, <1>3, <1>4, <1>5, <1>6, <1>7 DEF Next, Expiry

LEMMA Invariance == Spec => []IInv
<1>1. Init => IInv
  BY InitHolds
<1>2. IInv /\ [Next]_vars => IInv'
  BY TypeKept, LockInvKept DEF IInv
<1> QED
  BY <1>1, <1>2, PTL DEF Spec

-----------------------------------------------------------------------------

(* Every variable has its type.                                            *)
THEOREM TypeCorrect == Spec => []TypeOK
<1>1. IInv => TypeOK
  BY DEF IInv
<1> QED
  BY <1>1, Invariance, PTL

(* Two builds are under way at once only if one has outlived its lock: the *)
(* lock is what keeps build_codebase_index alone, whatever arq does when   *)
(* its claim on the job expires.                                           *)
THEOREM BuildsAlone == Spec => []OneBuilder
<1>1. IInv => OneBuilder
  <2> SUFFICES ASSUME IInv, NEW v \in Workers, NEW w \in Workers,
                      work[v] \in Locked, work[w] \in Locked,
                      v \notin overran, w \notin overran
               PROVE  v = w
    BY DEF OneBuilder
  <2>1. lock = v /\ lock = w
    BY DEF IInv, LockInv, BuilderHolds
  <2> QED
    BY <2>1
<1> QED
  BY <1>1, Invariance, PTL

(* A lock that is set belongs to a build under way or to a worker that     *)
(* went away: no failure of a build leaves it behind.                      *)
THEOREM LockReleased == Spec => []NoLockLeft
<1>1. IInv => NoLockLeft
  BY DEF IInv, LockInv
<1> QED
  BY <1>1, Invariance, PTL

=============================================================================
