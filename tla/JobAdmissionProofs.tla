-------------------------- MODULE JobAdmissionProofs --------------------------
(***************************************************************************)
(* JobAdmission for any number of requests and issues and any limit.       *)
(*                                                                         *)
(* Four invariants carry the results.   CountInv relates the counter to    *)
(* the holders: a request that has not been counted yet holds no slot, so  *)
(* every INCR adds exactly one.  LifeInv orders a job's life: counted      *)
(* before it is saved, saved before it is ended, ended before its slot is  *)
(* returned.  KeyInv says who owns the key of an issue at each moment of   *)
(* that life, and RestInv what is still on its way to giving key and slot  *)
(* back.                                                                   *)
(***************************************************************************)
EXTENDS JobAdmission, FiniteSetTheorems, TLAPS

-----------------------------------------------------------------------------
(* Types.                                                                  *)

LEMMA TypeInit == Init => TypeOK
  BY MishapsAssumption DEF Init, TypeOK, Steps, Statuses, Stages

LEMMA TypeStep ==
    ASSUME TypeOK, [Next]_vars
    PROVE  TypeOK'
<1>1. ASSUME NEW r \in Requests, Claim(r) PROVE TypeOK'
  BY <1>1 DEF Claim, Goes, requestVars, redisVars, history, TypeOK, Steps
<1>2. ASSUME NEW r \in Requests, ReadExisting(r) PROVE TypeOK'
  BY <1>2 DEF ReadExisting, Goes, requestVars, redisVars, history, TypeOK, Steps
<1>3. ASSUME NEW r \in Requests, Count(r) PROVE TypeOK'
  BY <1>3 DEF Count, Goes, requestVars, redisVars, history, TypeOK, Steps
<1>4. ASSUME NEW r \in Requests, SetExpiry(r) PROVE TypeOK'
  BY <1>4 DEF SetExpiry, Goes, requestVars, redisVars, history, TypeOK, Steps
<1>5. ASSUME NEW r \in Requests, Uncount(r) PROVE TypeOK'
  BY <1>5 DEF Uncount, Goes, requestVars, redisVars, history, TypeOK, Steps
<1>6. ASSUME NEW r \in Requests, Release(r) PROVE TypeOK'
  BY <1>6 DEF Release, Goes, requestVars, redisVars, history, TypeOK, Steps
<1>7. ASSUME NEW r \in Requests, Fetch(r) PROVE TypeOK'
  BY <1>7 DEF Fetch, Goes, requestVars, redisVars, history, TypeOK, Steps
<1>8. ASSUME NEW r \in Requests, SaveRecord(r) PROVE TypeOK'
  BY <1>8 DEF SaveRecord, Goes, requestVars, redisVars, history, TypeOK, Steps, Statuses
<1>9. ASSUME NEW r \in Requests, Enqueue(r) PROVE TypeOK'
  BY <1>9 DEF Enqueue, Goes, requestVars, redisVars, history, TypeOK, Steps
<1>10. ASSUME NEW r \in Requests, RequestCut(r) PROVE TypeOK'
  BY <1>10, MishapsAssumption DEF RequestCut, requestVars, redisVars, history, TypeOK
<1>11. ASSUME NEW r \in Requests, Revive(r) PROVE TypeOK'
  BY <1>11, MishapsAssumption DEF Revive, requestVars, redisVars, history, TypeOK, Statuses
<1>12. ASSUME NEW j \in Requests, NEW e \in Enders, EndLoad(j, e) PROVE TypeOK'
  BY <1>12 DEF EndLoad, Advances, requestVars, redisVars, history, TypeOK, Stages
<1>13. ASSUME NEW j \in Requests, NEW e \in Enders, EndSave(j, e) PROVE TypeOK'
  BY <1>13 DEF EndSave, Advances, requestVars, redisVars, history, TypeOK, Statuses, Stages
<1>14. ASSUME NEW j \in Requests, NEW e \in Enders, EndReturn(j, e) PROVE TypeOK'
  <2>1. ending' \in [Requests \X Enders -> Stages]
    BY <1>14 DEF EndReturn, Advances, TypeOK, Stages
  <2>2. active' \in Int /\ slips' \in Nat
    <3>1. active \in Int /\ slips \in Nat
      BY DEF TypeOK
    <3>2. active' = active - 1 /\ slips' = IF j \in holders THEN slips ELSE slips + 1
      BY <1>14 DEF EndReturn
    <3>3. QED
      BY <3>1, <3>2
  <2>3. /\ holders' \subseteq Requests
        /\ UNCHANGED <<pc, issue, key, ttl, record, queued, cut, lost, revived, outlived, mishaps>>
    BY <1>14 DEF EndReturn, requestVars, TypeOK
  <2>4. QED
    BY <2>1, <2>2, <2>3 DEF TypeOK
<1>15. ASSUME NEW j \in Requests, NEW e \in Enders, EndUnlock(j, e) PROVE TypeOK'
  BY <1>15 DEF EndUnlock, Advances, requestVars, redisVars, history, TypeOK, Stages
<1>16. ASSUME NEW j \in Requests, NEW e \in Enders, EndCut(j, e) PROVE TypeOK'
  <2>1. ending' \in [Requests \X Enders -> Stages]
    BY <1>16 DEF EndCut, TypeOK, Stages
  <2>2. mishaps' \in 0 .. MaxMishaps
    <3>1. mishaps \in 0 .. MaxMishaps /\ mishaps < MaxMishaps /\ mishaps' = mishaps + 1
      BY <1>16 DEF EndCut, TypeOK
    <3>2. QED
      BY <3>1, MishapsAssumption
  <2>3. QED
    BY <1>16, <2>1, <2>2 DEF EndCut, requestVars, redisVars, TypeOK
<1>17. ASSUME CounterExpires PROVE TypeOK'
  BY <1>17, MishapsAssumption DEF CounterExpires, requestVars, redisVars, history, TypeOK
<1>18. ASSUME UNCHANGED vars PROVE TypeOK'
  BY <1>18 DEF vars, requestVars, redisVars, history, TypeOK
<1>19. ASSUME NEW r \in Requests, RequestStep(r) \/ Revive(r) PROVE TypeOK'
  BY <1>19, <1>1, <1>2, <1>3, <1>4, <1>5, <1>6, <1>7, <1>8, <1>9, <1>10, <1>11 DEF RequestStep
<1>20. ASSUME NEW j \in Requests, NEW e \in Enders, EndStep(j, e) PROVE TypeOK'
  BY <1>20, <1>12, <1>13, <1>14, <1>15, <1>16 DEF EndStep
<1>21. ASSUME NEW i \in Issues, KeyExpires(i) PROVE TypeOK'
  <2>1. mishaps' \in 0 .. MaxMishaps
    <3>1. mishaps \in 0 .. MaxMishaps /\ mishaps < MaxMishaps /\ mishaps' = mishaps + 1
      BY <1>21 DEF KeyExpires, TypeOK
    <3>2. QED
      BY <3>1, MishapsAssumption
  <2>2. key[i] \in Requests
    BY <1>21 DEF KeyExpires, TypeOK
  <2>3. key' \in [Issues -> Requests \cup {NoJob}] /\ outlived' \subseteq Requests
    BY <1>21, <2>2 DEF KeyExpires, TypeOK
  <2>4. QED
    BY <1>21, <2>1, <2>3 DEF KeyExpires, requestVars, TypeOK
<1>22. QED
  BY <1>17, <1>18, <1>19, <1>20, <1>21 DEF Next

(* Every variable of the admission keeps its type.                         *)
THEOREM TypeCorrect == Spec => []TypeOK
<1>1. QED
  BY TypeInit, TypeStep, PTL DEF Spec

-----------------------------------------------------------------------------
(* The counter.                                                            *)

Uncounted == {"new", "reading", "counting"}

CountInv ==
    /\ CounterCounts
    /\ \A r \in holders : pc[r] \notin Uncounted

LEMMA Finite ==
    ASSUME TypeOK
    PROVE  /\ IsFiniteSet(holders) /\ Cardinality(holders) \in Nat
           /\ IsFiniteSet(Overcounted) /\ Cardinality(Overcounted) \in Nat
<1>1. holders \in SUBSET Requests /\ Overcounted \in SUBSET Requests
  BY DEF TypeOK, Overcounted
<1>2. QED
  BY <1>1, RequestsAssumption, FS_Subset, FS_CardinalityType

LEMMA CountInit == Init => CountInv
<1>1. ASSUME Init PROVE holders = {} /\ Overcounted = {} /\ active = 0 /\ slips = 0
  BY <1>1 DEF Init, Overcounted
<1>2. QED
  BY <1>1, FS_EmptySet DEF CountInv, CounterCounts

(* A step of a request that is neither counted nor uncounted by it.        *)
LEMMA OtherMove ==
    ASSUME TypeOK, CountInv, NEW r \in Requests, NEW from, NEW to, Goes(r, from, to),
           from \in Uncounted \/ to \notin Uncounted,
           from # "uncounting", to # "uncounting",
           UNCHANGED <<active, holders, slips>>
    PROVE  CountInv'
<1>1. pc' = [pc EXCEPT ![r] = to] /\ pc[r] = from /\ pc \in [Requests -> Steps]
  BY DEF Goes, TypeOK
<1>2. Overcounted' = Overcounted
  BY <1>1 DEF Overcounted
<1>3. holders \subseteq Requests
  BY DEF TypeOK
<1>4. \A x \in holders : pc'[x] \notin Uncounted
  BY <1>1, <1>3 DEF CountInv
<1>5. CounterCounts'
  BY <1>2 DEF CountInv, CounterCounts
<1>6. QED
  BY <1>4, <1>5 DEF CountInv

(* A step that leaves requests, counter and holders alone.                 *)
LEMMA NoMove ==
    ASSUME CountInv, UNCHANGED <<pc, active, holders, slips>>
    PROVE  CountInv'
<1>1. Overcounted' = Overcounted
  BY DEF Overcounted
<1>2. QED
  BY <1>1 DEF CountInv, CounterCounts

LEMMA CountStep ==
    ASSUME TypeOK, CountInv, [Next]_vars
    PROVE  CountInv'
<1>1. ASSUME NEW r \in Requests, Claim(r) PROVE CountInv'
  <2>1. UNCHANGED <<active, holders, slips>>
    BY <1>1 DEF Claim, history
  <2>2. CASE Goes(r, "new", "counting")
    BY <2>1, <2>2, OtherMove DEF Uncounted
  <2>3. CASE Goes(r, "new", "reading")
    BY <2>1, <2>3, OtherMove DEF Uncounted
  <2>4. QED
    BY <1>1, <2>2, <2>3 DEF Claim
<1>2. ASSUME NEW r \in Requests, ReadExisting(r) PROVE CountInv'
  BY <1>2, OtherMove DEF ReadExisting, requestVars, redisVars, history, Uncounted
<1>3. ASSUME NEW r \in Requests, Count(r) PROVE CountInv'
  <2>1. /\ active \in Int /\ slips \in Nat /\ holders \subseteq Requests
        /\ pc \in [Requests -> Steps] /\ pc[r] = "counting" /\ r \notin holders
    BY <1>3 DEF TypeOK, CountInv, Uncounted, Count, Goes
  <2>2. CounterCounts
    BY DEF CountInv
  <2>3. active' = active + 1 /\ slips' = slips
    BY <1>3 DEF Count
  <2>4. CASE active' > Limit
    <3>1. pc' = [pc EXCEPT ![r] = "uncounting"] /\ holders' = holders
      BY <1>3, <2>4 DEF Count, Goes
    <3>2. Overcounted' = Overcounted \cup {r} /\ r \notin Overcounted
      BY <2>1, <3>1 DEF Overcounted
    <3>3. Cardinality(Overcounted') = Cardinality(Overcounted) + 1
      BY <3>2, Finite, FS_AddElement
    <3>4. CounterCounts'
      BY <2>1, <2>2, <2>3, <3>1, <3>3, Finite DEF CounterCounts
    <3>5. \A x \in holders : pc'[x] \notin Uncounted
      BY <2>1, <3>1 DEF CountInv, Uncounted
    <3>6. QED
      BY <3>1, <3>4, <3>5 DEF CountInv
  <2>5. CASE ~(active' > Limit)
    <3>1. PICK to \in {"expiring", "fetching"} : pc' = [pc EXCEPT ![r] = to]
      BY <1>3, <2>5 DEF Count, Goes
    <3>2. holders' = holders \cup {r}
      BY <1>3, <2>5 DEF Count
    <3>3. Overcounted' = Overcounted
      BY <2>1, <3>1 DEF Overcounted
    <3>4. Cardinality(holders') = Cardinality(holders) + 1
      BY <2>1, <3>2, Finite, FS_AddElement
    <3>5. CounterCounts'
      BY <2>1, <2>2, <2>3, <3>3, <3>4, Finite DEF CounterCounts
    <3>6. \A x \in holders' : pc'[x] \notin Uncounted
      BY <2>1, <3>1, <3>2 DEF CountInv, Uncounted
    <3>7. QED
      BY <3>5, <3>6 DEF CountInv
  <2>6. QED
    BY <2>4, <2>5
<1>4. ASSUME NEW r \in Requests, SetExpiry(r) PROVE CountInv'
  BY <1>4, OtherMove DEF SetExpiry, requestVars, redisVars, history, Uncounted
<1>5. ASSUME NEW r \in Requests, Uncount(r) PROVE CountInv'
  <2>1. /\ active \in Int /\ slips \in Nat /\ holders \subseteq Requests
        /\ pc \in [Requests -> Steps] /\ pc[r] = "uncounting"
        /\ pc' = [pc EXCEPT ![r] = "releasing"]
        /\ active' = active - 1 /\ holders' = holders /\ slips' = slips
    BY <1>5 DEF TypeOK, Uncount, Goes, history
  <2>2. CounterCounts
    BY DEF CountInv
  <2>3. Overcounted' = Overcounted \ {r} /\ r \in Overcounted
    BY <2>1 DEF Overcounted
  <2>4. Cardinality(Overcounted') = Cardinality(Overcounted) - 1
    BY <2>3, Finite, FS_RemoveElement
  <2>5. CounterCounts'
    BY <2>1, <2>2, <2>4, Finite DEF CounterCounts
  <2>6. \A x \in holders : pc'[x] \notin Uncounted
    BY <2>1 DEF CountInv, Uncounted
  <2>7. QED
    BY <2>1, <2>5, <2>6 DEF CountInv
<1>6. ASSUME NEW r \in Requests, Release(r) PROVE CountInv'
  BY <1>6, OtherMove DEF Release, requestVars, redisVars, history, Uncounted
<1>7. ASSUME NEW r \in Requests, Fetch(r) PROVE CountInv'
  BY <1>7, OtherMove DEF Fetch, requestVars, redisVars, history, Uncounted
<1>8. ASSUME NEW r \in Requests, SaveRecord(r) PROVE CountInv'
  BY <1>8, OtherMove DEF SaveRecord, requestVars, redisVars, history, Uncounted
<1>9. ASSUME NEW r \in Requests, Enqueue(r) PROVE CountInv'
  BY <1>9, OtherMove DEF Enqueue, requestVars, redisVars, history, Uncounted
<1>10. ASSUME NEW r \in Requests, RequestCut(r) PROVE CountInv'
  BY <1>10, NoMove DEF RequestCut, requestVars, redisVars, history
<1>11. ASSUME NEW r \in Requests, Revive(r) PROVE CountInv'
  BY <1>11, NoMove DEF Revive, requestVars, redisVars, history
<1>12. ASSUME NEW j \in Requests, NEW e \in Enders, EndLoad(j, e) PROVE CountInv'
  BY <1>12, NoMove DEF EndLoad, Advances, requestVars, redisVars, history
<1>13. ASSUME NEW j \in Requests, NEW e \in Enders, EndSave(j, e) PROVE CountInv'
  BY <1>13, NoMove DEF EndSave, Advances, requestVars, redisVars, history
<1>14. ASSUME NEW j \in Requests, NEW e \in Enders, EndReturn(j, e) PROVE CountInv'
  <2>1. /\ active \in Int /\ slips \in Nat /\ active' = active - 1
        /\ holders' = holders \ {j} /\ pc' = pc
        /\ slips' = IF j \in holders THEN slips ELSE slips + 1
    BY <1>14 DEF TypeOK, EndReturn, requestVars
  <2>2. CounterCounts
    BY DEF CountInv
  <2>3. Overcounted' = Overcounted
    BY <2>1 DEF Overcounted
  <2>4. Cardinality(holders') = IF j \in holders THEN Cardinality(holders) - 1 ELSE Cardinality(holders)
    BY <2>1, Finite, FS_RemoveElement
  <2>5. CounterCounts'
    <3>1. CASE j \in holders
      BY <2>1, <2>2, <2>3, <2>4, <3>1, Finite DEF CounterCounts
    <3>2. CASE j \notin holders
      BY <2>1, <2>2, <2>3, <2>4, <3>2, Finite DEF CounterCounts
    <3>3. QED
      BY <3>1, <3>2
  <2>6. \A x \in holders' : pc'[x] \notin Uncounted
    BY <2>1 DEF CountInv
  <2>7. QED
    BY <2>5, <2>6 DEF CountInv
<1>15. ASSUME NEW j \in Requests, NEW e \in Enders, EndUnlock(j, e) PROVE CountInv'
  BY <1>15, NoMove DEF EndUnlock, Advances, requestVars, redisVars, history
<1>16. ASSUME NEW j \in Requests, NEW e \in Enders, EndCut(j, e) PROVE CountInv'
  BY <1>16, NoMove DEF EndCut, requestVars, redisVars, history
<1>17. ASSUME CounterExpires PROVE CountInv'
  <2>1. /\ active \in Int /\ slips \in Nat /\ active' = 0
        /\ holders' = holders /\ pc' = pc
        /\ slips' = IF active > 0 THEN slips + active ELSE slips
    BY <1>17 DEF TypeOK, CounterExpires, requestVars
  <2>2. CounterCounts
    BY DEF CountInv
  <2>3. Overcounted' = Overcounted
    BY <2>1 DEF Overcounted
  <2>4. CounterCounts'
    BY <2>1, <2>2, <2>3, Finite DEF CounterCounts
  <2>5. QED
    BY <2>1, <2>4 DEF CountInv
<1>18. ASSUME UNCHANGED vars PROVE CountInv'
  BY <1>18, NoMove DEF vars, requestVars, redisVars, history
<1>19. ASSUME NEW r \in Requests, RequestStep(r) \/ Revive(r) PROVE CountInv'
  BY <1>19, <1>1, <1>2, <1>3, <1>4, <1>5, <1>6, <1>7, <1>8, <1>9, <1>10, <1>11 DEF RequestStep
<1>20. ASSUME NEW j \in Requests, NEW e \in Enders, EndStep(j, e) PROVE CountInv'
  BY <1>20, <1>12, <1>13, <1>14, <1>15, <1>16 DEF EndStep
<1>21. ASSUME NEW i \in Issues, KeyExpires(i) PROVE CountInv'
  BY <1>21, NoMove DEF KeyExpires, requestVars
<1>22. QED
  BY <1>17, <1>18, <1>19, <1>20, <1>21 DEF Next

LEMMA Counting == Spec => [](TypeOK /\ CountInv)
<1>1. Init => TypeOK /\ CountInv
  BY TypeInit, CountInit
<1>2. TypeOK /\ CountInv /\ [Next]_vars => TypeOK' /\ CountInv'
  BY TypeStep, CountStep
<1>3. QED
  BY <1>1, <1>2, PTL DEF Spec

(* active_jobs never counts a slot nobody holds, and falls short of the    *)
(* slots that are held only by those given back twice or lost to the       *)
(* counter's expiry, whatever overlaps and whatever is cut short.          *)
THEOREM CounterIsRight == Spec => []CounterCounts
<1>1. TypeOK /\ CountInv => CounterCounts
  BY DEF CountInv
<1>2. QED
  BY <1>1, Counting, PTL

LEMMA QuotaStep ==
    ASSUME TypeOK, CountInv, [Next]_vars
    PROVE  [Quota!Next]_<<holders, slips>>
<1>1. ASSUME NEW r \in Requests, Claim(r) PROVE [Quota!Next]_<<holders, slips>>
  BY <1>1 DEF Claim, history
<1>2. ASSUME NEW r \in Requests, ReadExisting(r) PROVE [Quota!Next]_<<holders, slips>>
  BY <1>2 DEF ReadExisting, history
<1>3. ASSUME NEW r \in Requests, Count(r) PROVE [Quota!Next]_<<holders, slips>>
  <2>1. CASE active' > Limit
    BY <1>3, <2>1 DEF Count
  <2>2. CASE ~(active' > Limit)
    <3>1. holders' = holders \cup {r} /\ slips' = slips
      BY <1>3, <2>2 DEF Count
    <3>2. r \notin holders
      BY <1>3 DEF CountInv, Uncounted, Count, Goes
    <3>3. active + 1 <= Limit
      <4>1. active \in Int /\ active' = active + 1
        BY <1>3 DEF TypeOK, Count
      <4>2. QED
        BY <2>2, <4>1, LimitAssumption
    <3>4. active \in Int /\ slips \in Nat
      BY DEF TypeOK
    <3>5. Cardinality(holders) + Cardinality(Overcounted) - slips <= active
      BY DEF CountInv, CounterCounts
    <3>6. Cardinality(holders) < Limit + slips
      BY <3>3, <3>4, <3>5, Finite, LimitAssumption
    <3>7. Quota!Cardinality(holders) = Cardinality(holders)
      BY DEF Quota!Cardinality, Cardinality
    <3>8. Quota!Admit(r)
      BY <3>1, <3>2, <3>6, <3>7 DEF Quota!Admit
    <3>9. QED
      BY <3>8 DEF Quota!Next
  <2>3. QED
    BY <2>1, <2>2
<1>4. ASSUME NEW r \in Requests, SetExpiry(r) PROVE [Quota!Next]_<<holders, slips>>
  BY <1>4 DEF SetExpiry, history
<1>5. ASSUME NEW r \in Requests, Uncount(r) PROVE [Quota!Next]_<<holders, slips>>
  BY <1>5 DEF Uncount, history
<1>6. ASSUME NEW r \in Requests, Release(r) PROVE [Quota!Next]_<<holders, slips>>
  BY <1>6 DEF Release, history
<1>7. ASSUME NEW r \in Requests, Fetch(r) PROVE [Quota!Next]_<<holders, slips>>
  BY <1>7 DEF Fetch, history
<1>8. ASSUME NEW r \in Requests, SaveRecord(r) PROVE [Quota!Next]_<<holders, slips>>
  BY <1>8 DEF SaveRecord, history
<1>9. ASSUME NEW r \in Requests, Enqueue(r) PROVE [Quota!Next]_<<holders, slips>>
  BY <1>9 DEF Enqueue, history
<1>10. ASSUME NEW r \in Requests, RequestCut(r) PROVE [Quota!Next]_<<holders, slips>>
  BY <1>10 DEF RequestCut, history
<1>11. ASSUME NEW r \in Requests, Revive(r) PROVE [Quota!Next]_<<holders, slips>>
  BY <1>11 DEF Revive, history
<1>12. ASSUME NEW j \in Requests, NEW e \in Enders, EndLoad(j, e) PROVE [Quota!Next]_<<holders, slips>>
  BY <1>12 DEF EndLoad, history
<1>13. ASSUME NEW j \in Requests, NEW e \in Enders, EndSave(j, e) PROVE [Quota!Next]_<<holders, slips>>
  BY <1>13 DEF EndSave, history
<1>14. ASSUME NEW j \in Requests, NEW e \in Enders, EndReturn(j, e) PROVE [Quota!Next]_<<holders, slips>>
  <2>1. CASE j \in holders
    <3>1. Quota!Return(j)
      BY <1>14, <2>1 DEF EndReturn, Quota!Return
    <3>2. QED
      BY <3>1 DEF Quota!Next
  <2>2. CASE j \notin holders
    <3>1. slips \in Nat /\ slips' = slips + 1 /\ holders' = holders
      BY <1>14, <2>2 DEF TypeOK, EndReturn
    <3>2. QED
      BY <3>1 DEF Quota!Next, Quota!Slip
  <2>3. QED
    BY <2>1, <2>2
<1>15. ASSUME NEW j \in Requests, NEW e \in Enders, EndUnlock(j, e) PROVE [Quota!Next]_<<holders, slips>>
  BY <1>15 DEF EndUnlock, history
<1>16. ASSUME NEW j \in Requests, NEW e \in Enders, EndCut(j, e) PROVE [Quota!Next]_<<holders, slips>>
  BY <1>16 DEF EndCut, history
<1>17. ASSUME CounterExpires PROVE [Quota!Next]_<<holders, slips>>
  <2>1. /\ active \in Int /\ slips \in Nat /\ holders' = holders
        /\ slips' = IF active > 0 THEN slips + active ELSE slips
    BY <1>17 DEF TypeOK, CounterExpires
  <2>2. slips' > slips \/ slips' = slips
    BY <2>1
  <2>3. QED
    BY <2>1, <2>2 DEF Quota!Next, Quota!Slip
<1>18. ASSUME UNCHANGED vars PROVE [Quota!Next]_<<holders, slips>>
  BY <1>18 DEF vars, history
<1>19. ASSUME NEW r \in Requests, RequestStep(r) \/ Revive(r) PROVE [Quota!Next]_<<holders, slips>>
  BY <1>19, <1>1, <1>2, <1>3, <1>4, <1>5, <1>6, <1>7, <1>8, <1>9, <1>10, <1>11 DEF RequestStep
<1>20. ASSUME NEW j \in Requests, NEW e \in Enders, EndStep(j, e) PROVE [Quota!Next]_<<holders, slips>>
  BY <1>20, <1>12, <1>13, <1>14, <1>15, <1>16 DEF EndStep
<1>21. ASSUME NEW i \in Issues, KeyExpires(i) PROVE [Quota!Next]_<<holders, slips>>
  BY <1>21 DEF KeyExpires
<1>22. QED
  BY <1>17, <1>18, <1>19, <1>20, <1>21 DEF Next

(* Admission implements OwnerQuota: a job is let in only while fewer than  *)
(* Limit slots are held, for every limit, beyond the slips.                *)
THEOREM ImplementsQuota == Spec => QuotaSpec
<1>1. Init => Quota!Init
  BY DEF Init, Quota!Init
<1>2. TypeOK /\ CountInv /\ [Next]_vars => [Quota!Next]_<<holders, slips>>
  BY QuotaStep
<1>3. QED
  BY <1>1, <1>2, Counting, PTL DEF Spec, QuotaSpec, Quota!Spec

-----------------------------------------------------------------------------
(* The life of a job.                                                      *)

Unsaved == {"new", "reading", "counting", "expiring", "uncounting", "releasing",
            "fetching", "saving"}
Counted == {"expiring", "fetching", "saving"}
Returning == {"return ended", "return failed", "unlock"}

Life(j) ==
    /\ pc[j] \in Unsaved => record[j] = "none"
    /\ pc[j] \notin Unsaved /\ record[j] = "none" => pc[j] = "over"
    /\ pc[j] \in Counted => j \in holders
    /\ record[j] = "live" => j \in holders \/ j \in revived
    /\ \A e \in Enders :
         /\ ending[<<j, e>>] # "idle" => record[j] # "none"
         /\ ending[<<j, e>>] \in Returning => record[j] \in {"ended", "failed"} \/ j \in revived
         /\ ending[<<j, e>>] \in Failing => e = "worker"

LifeInv == \A j \in Requests : Life(j)

(* A job that needs the key has it, on an issue that is not spoilt.        *)
KeyInv == \A j \in Requests : NeedsKey(j) /\ ~Spoilt(issue[j]) => key[issue[j]] = j

(* A key names a request that claimed it, and a slot has somebody who will *)
(* return it.                                                              *)
KeyNamesJob(i) ==
    key[i] # NoJob =>
        /\ issue[key[i]] = i
        /\ pc[key[i]] \notin {"new", "reading"}
        /\ pc[key[i]] = "over" => record[key[i]] # "none"
SlotHasOwner(j) ==
    \/ pc[j] \in Counted
    \/ record[j] = "live"
    \/ j \in lost
    \/ \E e \in Enders : ending[<<j, e>>] \in {"return ended", "return failed"}

RestInv ==
    /\ \A i \in Issues : KeyNamesJob(i)
    /\ \A j \in holders : SlotHasOwner(j)

LEMMA LifeInit == Init => LifeInv
  BY DEF Init, LifeInv, Life, Unsaved, Counted, Returning, Failing, Enders

(* Nothing changes for a job that a step is not about.                     *)
LEMMA LifeSame ==
    ASSUME NEW x \in Requests, Life(x),
           pc'[x] = pc[x], record'[x] = record[x],
           \A e \in Enders : ending'[<<x, e>>] = ending[<<x, e>>],
           x \in holders => x \in holders',
           revived \subseteq revived'
    PROVE  Life(x)'
  BY DEF Life

LEMMA LifeStep ==
    ASSUME TypeOK, CountInv, LifeInv, [Next]_vars
    PROVE  LifeInv'
<1>1. ASSUME NEW r \in Requests, Claim(r) PROVE LifeInv'
  <2>1. ASSUME NEW x \in Requests, x # r PROVE Life(x)'
    <3>1. /\ pc'[x] = pc[x] /\ record'[x] = record[x]
          /\ \A e \in Enders : ending'[<<x, e>>] = ending[<<x, e>>]
          /\ x \in holders => x \in holders'
          /\ revived \subseteq revived'
      BY <1>1, <2>1 DEF Claim, Goes, requestVars, redisVars, history, TypeOK
    <3>2. QED
      BY <2>1, <3>1, LifeSame DEF LifeInv
  <2>2. Life(r)'
    BY <1>1 DEF Claim, Goes, requestVars, redisVars, history, TypeOK, LifeInv, Life, Unsaved, Counted, Returning, Failing, Enders
  <2>3. QED
    BY <2>1, <2>2 DEF LifeInv
<1>2. ASSUME NEW r \in Requests, ReadExisting(r) PROVE LifeInv'
  <2>1. ASSUME NEW x \in Requests, x # r PROVE Life(x)'
    <3>1. /\ pc'[x] = pc[x] /\ record'[x] = record[x]
          /\ \A e \in Enders : ending'[<<x, e>>] = ending[<<x, e>>]
          /\ x \in holders => x \in holders'
          /\ revived \subseteq revived'
      BY <1>2, <2>1 DEF ReadExisting, Goes, requestVars, redisVars, history, TypeOK
    <3>2. QED
      BY <2>1, <3>1, LifeSame DEF LifeInv
  <2>2. Life(r)'
    BY <1>2 DEF ReadExisting, Goes, requestVars, redisVars, history, TypeOK, LifeInv, Life, Unsaved, Counted, Returning, Failing, Enders
  <2>3. QED
    BY <2>1, <2>2 DEF LifeInv
<1>3. ASSUME NEW r \in Requests, Count(r) PROVE LifeInv'
  <2>1. ASSUME NEW x \in Requests, x # r PROVE Life(x)'
    <3>1. /\ pc'[x] = pc[x] /\ record'[x] = record[x]
          /\ \A e \in Enders : ending'[<<x, e>>] = ending[<<x, e>>]
          /\ x \in holders => x \in holders'
          /\ revived \subseteq revived'
      BY <1>3, <2>1 DEF Count, Goes, requestVars, redisVars, history, TypeOK
    <3>2. QED
      BY <2>1, <3>1, LifeSame DEF LifeInv
  <2>2. Life(r)'
    BY <1>3 DEF Count, Goes, requestVars, redisVars, history, TypeOK, LifeInv, Life, Unsaved, Counted, Returning, Failing, Enders, CountInv, Uncounted
  <2>3. QED
    BY <2>1, <2>2 DEF LifeInv
<1>4. ASSUME NEW r \in Requests, SetExpiry(r) PROVE LifeInv'
  <2>1. ASSUME NEW x \in Requests, x # r PROVE Life(x)'
    <3>1. /\ pc'[x] = pc[x] /\ record'[x] = record[x]
          /\ \A e \in Enders : ending'[<<x, e>>] = ending[<<x, e>>]
          /\ x \in holders => x \in holders'
          /\ revived \subseteq revived'
      BY <1>4, <2>1 DEF SetExpiry, Goes, requestVars, redisVars, history, TypeOK
    <3>2. QED
      BY <2>1, <3>1, LifeSame DEF LifeInv
  <2>2. Life(r)'
    BY <1>4 DEF SetExpiry, Goes, requestVars, redisVars, history, TypeOK, LifeInv, Life, Unsaved, Counted, Returning, Failing, Enders
  <2>3. QED
    BY <2>1, <2>2 DEF LifeInv
<1>5. ASSUME NEW r \in Requests, Uncount(r) PROVE LifeInv'
  <2>1. ASSUME NEW x \in Requests, x # r PROVE Life(x)'
    <3>1. /\ pc'[x] = pc[x] /\ record'[x] = record[x]
          /\ \A e \in Enders : ending'[<<x, e>>] = ending[<<x, e>>]
          /\ x \in holders => x \in holders'
          /\ revived \subseteq revived'
      BY <1>5, <2>1 DEF Uncount, Goes, requestVars, redisVars, history, TypeOK
    <3>2. QED
      BY <2>1, <3>1, LifeSame DEF LifeInv
  <2>2. Life(r)'
    BY <1>5 DEF Uncount, Goes, requestVars, redisVars, history, TypeOK, LifeInv, Life, Unsaved, Counted, Returning, Failing, Enders
  <2>3. QED
    BY <2>1, <2>2 DEF LifeInv
<1>6. ASSUME NEW r \in Requests, Release(r) PROVE LifeInv'
  <2>1. ASSUME NEW x \in Requests, x # r PROVE Life(x)'
    <3>1. /\ pc'[x] = pc[x] /\ record'[x] = record[x]
          /\ \A e \in Enders : ending'[<<x, e>>] = ending[<<x, e>>]
          /\ x \in holders => x \in holders'
          /\ revived \subseteq revived'
      BY <1>6, <2>1 DEF Release, Goes, requestVars, redisVars, history, TypeOK
    <3>2. QED
      BY <2>1, <3>1, LifeSame DEF LifeInv
  <2>2. Life(r)'
    BY <1>6 DEF Release, Goes, requestVars, redisVars, history, TypeOK, LifeInv, Life, Unsaved, Counted, Returning, Failing, Enders
  <2>3. QED
    BY <2>1, <2>2 DEF LifeInv
<1>7. ASSUME NEW r \in Requests, Fetch(r) PROVE LifeInv'
  <2>1. ASSUME NEW x \in Requests, x # r PROVE Life(x)'
    <3>1. /\ pc'[x] = pc[x] /\ record'[x] = record[x]
          /\ \A e \in Enders : ending'[<<x, e>>] = ending[<<x, e>>]
          /\ x \in holders => x \in holders'
          /\ revived \subseteq revived'
      BY <1>7, <2>1 DEF Fetch, Goes, requestVars, redisVars, history, TypeOK
    <3>2. QED
      BY <2>1, <3>1, LifeSame DEF LifeInv
  <2>2. Life(r)'
    BY <1>7 DEF Fetch, Goes, requestVars, redisVars, history, TypeOK, LifeInv, Life, Unsaved, Counted, Returning, Failing, Enders
  <2>3. QED
    BY <2>1, <2>2 DEF LifeInv
<1>8. ASSUME NEW r \in Requests, SaveRecord(r) PROVE LifeInv'
  <2>1. ASSUME NEW x \in Requests, x # r PROVE Life(x)'
    <3>1. /\ pc'[x] = pc[x] /\ record'[x] = record[x]
          /\ \A e \in Enders : ending'[<<x, e>>] = ending[<<x, e>>]
          /\ x \in holders => x \in holders'
          /\ revived \subseteq revived'
      BY <1>8, <2>1 DEF SaveRecord, Goes, requestVars, redisVars, history, TypeOK
    <3>2. QED
      BY <2>1, <3>1, LifeSame DEF LifeInv
  <2>2. Life(r)'
    BY <1>8 DEF SaveRecord, Goes, requestVars, redisVars, history, TypeOK, LifeInv, Life, Unsaved, Counted, Returning, Failing, Enders
  <2>3. QED
    BY <2>1, <2>2 DEF LifeInv
<1>9. ASSUME NEW r \in Requests, Enqueue(r) PROVE LifeInv'
  <2>1. ASSUME NEW x \in Requests, x # r PROVE Life(x)'
    <3>1. /\ pc'[x] = pc[x] /\ record'[x] = record[x]
          /\ \A e \in Enders : ending'[<<x, e>>] = ending[<<x, e>>]
          /\ x \in holders => x \in holders'
          /\ revived \subseteq revived'
      BY <1>9, <2>1 DEF Enqueue, Goes, requestVars, redisVars, history, TypeOK
    <3>2. QED
      BY <2>1, <3>1, LifeSame DEF LifeInv
  <2>2. Life(r)'
    BY <1>9 DEF Enqueue, Goes, requestVars, redisVars, history, TypeOK, LifeInv, Life, Unsaved, Counted, Returning, Failing, Enders
  <2>3. QED
    BY <2>1, <2>2 DEF LifeInv
<1>10. ASSUME NEW r \in Requests, RequestCut(r) PROVE LifeInv'
  <2>1. ASSUME NEW x \in Requests, x # r PROVE Life(x)'
    <3>1. /\ pc'[x] = pc[x] /\ record'[x] = record[x]
          /\ \A e \in Enders : ending'[<<x, e>>] = ending[<<x, e>>]
          /\ x \in holders => x \in holders'
          /\ revived \subseteq revived'
      BY <1>10, <2>1 DEF RequestCut, requestVars, redisVars, history, TypeOK
    <3>2. QED
      BY <2>1, <3>1, LifeSame DEF LifeInv
  <2>2. Life(r)'
    BY <1>10 DEF RequestCut, requestVars, redisVars, history, TypeOK, LifeInv, Life, Unsaved, Counted, Returning, Failing, Enders
  <2>3. QED
    BY <2>1, <2>2 DEF LifeInv
<1>11. ASSUME NEW r \in Requests, Revive(r) PROVE LifeInv'
  <2>1. ASSUME NEW x \in Requests, x # r PROVE Life(x)'
    <3>1. /\ pc'[x] = pc[x] /\ record'[x] = record[x]
          /\ \A e \in Enders : ending'[<<x, e>>] = ending[<<x, e>>]
          /\ x \in holders => x \in holders'
          /\ revived \subseteq revived'
      BY <1>11, <2>1 DEF Revive, requestVars, redisVars, history, TypeOK
    <3>2. QED
      BY <2>1, <3>1, LifeSame DEF LifeInv
  <2>2. Life(r)'
    BY <1>11 DEF Revive, requestVars, redisVars, history, TypeOK, LifeInv, Life, Unsaved, Counted, Returning, Failing, Enders
  <2>3. QED
    BY <2>1, <2>2 DEF LifeInv
<1>12. ASSUME NEW j \in Requests, NEW e \in Enders, EndLoad(j, e) PROVE LifeInv'
  <2>1. ASSUME NEW x \in Requests, x # j PROVE Life(x)'
    <3>1. /\ pc'[x] = pc[x] /\ record'[x] = record[x]
          /\ \A e0 \in Enders : ending'[<<x, e0>>] = ending[<<x, e0>>]
          /\ x \in holders => x \in holders'
          /\ revived \subseteq revived'
      BY <1>12, <2>1 DEF EndLoad, Advances, requestVars, redisVars, history, TypeOK
    <3>2. QED
      BY <2>1, <3>1, LifeSame DEF LifeInv
  <2>2. Life(j)'
    <3>1. Life(j)
      BY DEF LifeInv
    <3>2. \A f \in Enders : f # e => ending'[<<j, f>>] = ending[<<j, f>>]
      BY <1>12 DEF EndLoad, Advances, TypeOK
    <3>3. /\ record[j] = "live" /\ UNCHANGED <<pc, record, holders, revived>>
          /\ ending'[<<j, e>>] \in {"save ended", "save failed"}
          /\ ending'[<<j, e>>] = "save failed" => e = "worker"
      BY <1>12 DEF EndLoad, Advances, TypeOK, requestVars, redisVars, history
    <3>4. QED
      BY <3>1, <3>2, <3>3 DEF Life, Unsaved, Counted, Returning, Failing
  <2>3. QED
    BY <2>1, <2>2 DEF LifeInv
<1>13. ASSUME NEW j \in Requests, NEW e \in Enders, EndSave(j, e) PROVE LifeInv'
  <2>1. ASSUME NEW x \in Requests, x # j PROVE Life(x)'
    <3>1. /\ pc'[x] = pc[x] /\ record'[x] = record[x]
          /\ \A e0 \in Enders : ending'[<<x, e0>>] = ending[<<x, e0>>]
          /\ x \in holders => x \in holders'
          /\ revived \subseteq revived'
      BY <1>13, <2>1 DEF EndSave, Advances, requestVars, redisVars, history, TypeOK
    <3>2. QED
      BY <2>1, <3>1, LifeSame DEF LifeInv
  <2>2. Life(j)'
    <3>1. Life(j)
      BY DEF LifeInv
    <3>2. \A f \in Enders : f # e => ending'[<<j, f>>] = ending[<<j, f>>]
      BY <1>13 DEF EndSave, Advances, TypeOK
    <3>3. /\ UNCHANGED <<pc, holders, revived>>
          /\ record'[j] \in {"ended", "failed"}
          /\ \/ ending[<<j, e>>] = "save ended" /\ ending'[<<j, e>>] = "return ended"
             \/ ending[<<j, e>>] = "save failed" /\ ending'[<<j, e>>] = "return failed"
      BY <1>13 DEF EndSave, Advances, TypeOK, requestVars, redisVars, history
    <3>4. QED
      BY <3>1, <3>2, <3>3 DEF Life, Unsaved, Counted, Returning, Failing
  <2>3. QED
    BY <2>1, <2>2 DEF LifeInv
<1>14. ASSUME NEW j \in Requests, NEW e \in Enders, EndReturn(j, e) PROVE LifeInv'
  <2>1. ASSUME NEW x \in Requests, x # j PROVE Life(x)'
    <3>1. /\ pc'[x] = pc[x] /\ record'[x] = record[x]
          /\ \A e0 \in Enders : ending'[<<x, e0>>] = ending[<<x, e0>>]
          /\ x \in holders => x \in holders'
          /\ revived \subseteq revived'
      BY <1>14, <2>1 DEF EndReturn, Advances, requestVars, redisVars, history, TypeOK
    <3>2. QED
      BY <2>1, <3>1, LifeSame DEF LifeInv
  <2>2. Life(j)'
    <3>1. Life(j)
      BY DEF LifeInv
    <3>2. \A f \in Enders : f # e => ending'[<<j, f>>] = ending[<<j, f>>]
      BY <1>14 DEF EndReturn, Advances, TypeOK
    <3>3. /\ UNCHANGED <<pc, record, revived>>
          /\ \/ ending[<<j, e>>] = "return ended" /\ ending'[<<j, e>>] = "idle"
             \/ ending[<<j, e>>] = "return failed" /\ ending'[<<j, e>>] = "unlock"
      BY <1>14 DEF EndReturn, Advances, TypeOK, requestVars, redisVars, history
    <3>4. QED
      BY <3>1, <3>2, <3>3 DEF Life, Unsaved, Counted, Returning, Failing
  <2>3. QED
    BY <2>1, <2>2 DEF LifeInv
<1>15. ASSUME NEW j \in Requests, NEW e \in Enders, EndUnlock(j, e) PROVE LifeInv'
  <2>1. ASSUME NEW x \in Requests, x # j PROVE Life(x)'
    <3>1. /\ pc'[x] = pc[x] /\ record'[x] = record[x]
          /\ \A e0 \in Enders : ending'[<<x, e0>>] = ending[<<x, e0>>]
          /\ x \in holders => x \in holders'
          /\ revived \subseteq revived'
      BY <1>15, <2>1 DEF EndUnlock, Advances, requestVars, redisVars, history, TypeOK
    <3>2. QED
      BY <2>1, <3>1, LifeSame DEF LifeInv
  <2>2. Life(j)'
    BY <1>15 DEF EndUnlock, Advances, requestVars, redisVars, history, TypeOK, LifeInv, Life, Unsaved, Counted, Returning, Failing, Enders
  <2>3. QED
    BY <2>1, <2>2 DEF LifeInv
<1>16. ASSUME NEW j \in Requests, NEW e \in Enders, EndCut(j, e) PROVE LifeInv'
  <2>1. ASSUME NEW x \in Requests, x # j PROVE Life(x)'
    <3>1. /\ pc'[x] = pc[x] /\ record'[x] = record[x]
          /\ \A e0 \in Enders : ending'[<<x, e0>>] = ending[<<x, e0>>]
          /\ x \in holders => x \in holders'
          /\ revived \subseteq revived'
      BY <1>16, <2>1 DEF EndCut, requestVars, redisVars, history, TypeOK
    <3>2. QED
      BY <2>1, <3>1, LifeSame DEF LifeInv
  <2>2. Life(j)'
    BY <1>16 DEF EndCut, requestVars, redisVars, history, TypeOK, LifeInv, Life, Unsaved, Counted, Returning, Failing, Enders
  <2>3. QED
    BY <2>1, <2>2 DEF LifeInv
<1>17. ASSUME CounterExpires PROVE LifeInv'
  BY <1>17 DEF CounterExpires, requestVars, redisVars, history, LifeInv, Life
<1>18. ASSUME UNCHANGED vars PROVE LifeInv'
  BY <1>18 DEF vars, requestVars, redisVars, history, LifeInv, Life
<1>19. ASSUME NEW r \in Requests, RequestStep(r) \/ Revive(r) PROVE LifeInv'
  BY <1>19, <1>1, <1>2, <1>3, <1>4, <1>5, <1>6, <1>7, <1>8, <1>9, <1>10, <1>11 DEF RequestStep
<1>20. ASSUME NEW j \in Requests, NEW e \in Enders, EndStep(j, e) PROVE LifeInv'
  BY <1>20, <1>12, <1>13, <1>14, <1>15, <1>16 DEF EndStep
<1>21. ASSUME NEW i \in Issues, KeyExpires(i) PROVE LifeInv'
  BY <1>21 DEF KeyExpires, requestVars, LifeInv, Life
<1>22. QED
  BY <1>17, <1>18, <1>19, <1>20, <1>21 DEF Next

LEMMA Living == Spec => [](TypeOK /\ CountInv /\ LifeInv)
<1>1. Init => LifeInv
  BY LifeInit
<1>2. TypeOK /\ CountInv /\ LifeInv /\ [Next]_vars => LifeInv'
  BY LifeStep
<1>3. QED
  BY <1>1, <1>2, Counting, PTL DEF Spec

(* Only the jobs that hold a slot are live, unless they were revived: no   *)
(* ending returns the slot before its final status is saved, and none      *)
(* comes before the slot was counted.                                      *)
THEOREM LiveJobsHold == Spec => []LiveHolds
<1>1. LifeInv => LiveHolds
  BY DEF LifeInv, Life, LiveHolds
<1>2. QED
  BY <1>1, Living, PTL

-----------------------------------------------------------------------------
(* Who owns the key of an issue.                                           *)

LEMMA KeyInit == Init => KeyInv
  BY DEF Init, KeyInv, NeedsKey, Claimed, Failing, Enders

LEMMA KeySame ==
    ASSUME KeyInv, \A x \in Requests : NeedsKey(x)' => NeedsKey(x),
           UNCHANGED <<key, issue>>, revived \subseteq revived', outlived \subseteq outlived'
    PROVE  KeyInv'
  BY DEF KeyInv, Spoilt

(* The job that has the key of its issue drops it and needs it no more.    *)
LEMMA KeyDropped ==
    ASSUME TypeOK, KeyInv, NEW j \in Requests, NeedsKey(j), ~NeedsKey(j)',
           \A x \in Requests : NeedsKey(x)' => NeedsKey(x),
           key' = [key EXCEPT ![issue[j]] = NoJob],
           UNCHANGED <<issue, revived, outlived>>
    PROVE  KeyInv'
<1>1. SUFFICES ASSUME NEW x \in Requests, NeedsKey(x)', ~Spoilt(issue[x])
               PROVE  key'[issue[x]] = x
  BY DEF KeyInv, Spoilt
<1>2. x # j /\ key[issue[x]] = x
  BY <1>1 DEF KeyInv
<1>3. issue[x] # issue[j]
  BY <1>1, <1>2 DEF KeyInv
<1>4. QED
  BY <1>2, <1>3 DEF TypeOK

LEMMA KeyStep ==
    ASSUME TypeOK, LifeInv, KeyInv, [Next]_vars
    PROVE  KeyInv'
<1>1. ASSUME NEW r \in Requests, Claim(r) PROVE KeyInv'
  <2>1. CASE key[issue[r]] = NoJob
    <3>1. SUFFICES ASSUME NEW x \in Requests, NeedsKey(x)', ~Spoilt(issue[x])'
                   PROVE  key'[issue'[x]] = x
      BY <1>1 DEF KeyInv, Spoilt, Claim
    <3>2. /\ pc' = [pc EXCEPT ![r] = "counting"] /\ key' = [key EXCEPT ![issue[r]] = r]
          /\ UNCHANGED <<issue, record, ending, cut, revived, outlived>>
      BY <1>1, <2>1 DEF Claim, Goes, history
    <3>3. issue[x] \in Issues /\ issue[r] \in Issues
      BY DEF TypeOK
    <3>4. CASE x = r
      BY <3>2, <3>3, <3>4 DEF TypeOK
    <3>5. CASE x # r
      <4>1. NeedsKey(x) /\ ~Spoilt(issue[x])
        BY <3>1, <3>2, <3>5 DEF NeedsKey, Spoilt, TypeOK
      <4>2. key[issue[x]] = x /\ x # NoJob
        BY <4>1, RequestsAssumption DEF KeyInv
      <4>3. QED
        BY <2>1, <3>2, <3>3, <4>2 DEF TypeOK
    <3>6. QED
      BY <3>4, <3>5
  <2>2. CASE key[issue[r]] # NoJob
    <3>1. /\ pc' = [pc EXCEPT ![r] = "reading"]
          /\ UNCHANGED <<key, issue, record, ending, cut, revived, outlived>>
      BY <1>1, <2>2 DEF Claim, Goes, history
    <3>2. \A x \in Requests : NeedsKey(x)' => NeedsKey(x)
      BY <3>1 DEF NeedsKey, Claimed, TypeOK
    <3>3. QED
      BY <3>1, <3>2, KeySame
  <2>3. QED
    BY <2>1, <2>2
<1>2. ASSUME NEW r \in Requests, ReadExisting(r) PROVE KeyInv'
  <2>1. UNCHANGED <<key, issue>> /\ revived \subseteq revived' /\ outlived \subseteq outlived'
    BY <1>2 DEF ReadExisting, Goes, requestVars, redisVars, history
  <2>2. \A x \in Requests : NeedsKey(x)' => NeedsKey(x)
    BY <1>2 DEF ReadExisting, Goes, requestVars, redisVars, history, TypeOK, NeedsKey, Claimed, Failing, Enders
  <2>3. QED
    BY <2>1, <2>2, KeySame
<1>3. ASSUME NEW r \in Requests, Count(r) PROVE KeyInv'
  <2>1. UNCHANGED <<key, issue>> /\ revived \subseteq revived' /\ outlived \subseteq outlived'
    BY <1>3 DEF Count, Goes, requestVars, redisVars, history
  <2>2. \A x \in Requests : NeedsKey(x)' => NeedsKey(x)
    BY <1>3 DEF Count, Goes, requestVars, redisVars, history, TypeOK, NeedsKey, Claimed, Failing, Enders
  <2>3. QED
    BY <2>1, <2>2, KeySame
<1>4. ASSUME NEW r \in Requests, SetExpiry(r) PROVE KeyInv'
  <2>1. UNCHANGED <<key, issue>> /\ revived \subseteq revived' /\ outlived \subseteq outlived'
    BY <1>4 DEF SetExpiry, Goes, requestVars, redisVars, history
  <2>2. \A x \in Requests : NeedsKey(x)' => NeedsKey(x)
    BY <1>4 DEF SetExpiry, Goes, requestVars, redisVars, history, TypeOK, NeedsKey, Claimed, Failing, Enders
  <2>3. QED
    BY <2>1, <2>2, KeySame
<1>5. ASSUME NEW r \in Requests, Uncount(r) PROVE KeyInv'
  <2>1. UNCHANGED <<key, issue>> /\ revived \subseteq revived' /\ outlived \subseteq outlived'
    BY <1>5 DEF Uncount, Goes, requestVars, redisVars, history
  <2>2. \A x \in Requests : NeedsKey(x)' => NeedsKey(x)
    BY <1>5 DEF Uncount, Goes, requestVars, redisVars, history, TypeOK, NeedsKey, Claimed, Failing, Enders
  <2>3. QED
    BY <2>1, <2>2, KeySame
<1>6. ASSUME NEW r \in Requests, Release(r) PROVE KeyInv'
  <2>1. /\ pc' = [pc EXCEPT ![r] = "over"] /\ key' = [key EXCEPT ![issue[r]] = NoJob]
        /\ UNCHANGED <<issue, record, ending, cut, revived, outlived>>
        /\ pc[r] = "releasing" /\ r \notin cut
    BY <1>6 DEF Release, Goes, history
  <2>2. NeedsKey(r)
    BY <2>1 DEF NeedsKey, Claimed
  <2>3. ~NeedsKey(r)'
    BY <2>1 DEF NeedsKey, Claimed, Failing, LifeInv, Life, Unsaved, Enders, TypeOK
  <2>4. \A x \in Requests : NeedsKey(x)' => NeedsKey(x)
    BY <2>1, <2>2 DEF NeedsKey, TypeOK
  <2>5. QED
    BY <2>1, <2>2, <2>3, <2>4, KeyDropped
<1>7. ASSUME NEW r \in Requests, Fetch(r) PROVE KeyInv'
  <2>1. UNCHANGED <<key, issue>> /\ revived \subseteq revived' /\ outlived \subseteq outlived'
    BY <1>7 DEF Fetch, Goes, requestVars, redisVars, history
  <2>2. \A x \in Requests : NeedsKey(x)' => NeedsKey(x)
    BY <1>7 DEF Fetch, Goes, requestVars, redisVars, history, TypeOK, NeedsKey, Claimed, Failing, Enders
  <2>3. QED
    BY <2>1, <2>2, KeySame
<1>8. ASSUME NEW r \in Requests, SaveRecord(r) PROVE KeyInv'
  <2>1. UNCHANGED <<key, issue>> /\ revived \subseteq revived' /\ outlived \subseteq outlived'
    BY <1>8 DEF SaveRecord, Goes, requestVars, redisVars, history
  <2>2. \A x \in Requests : NeedsKey(x)' => NeedsKey(x)
    BY <1>8 DEF SaveRecord, Goes, requestVars, redisVars, history, TypeOK, NeedsKey, Claimed, Failing, Enders
  <2>3. QED
    BY <2>1, <2>2, KeySame
<1>9. ASSUME NEW r \in Requests, Enqueue(r) PROVE KeyInv'
  <2>1. UNCHANGED <<key, issue>> /\ revived \subseteq revived' /\ outlived \subseteq outlived'
    BY <1>9 DEF Enqueue, Goes, requestVars, redisVars, history
  <2>2. \A x \in Requests : NeedsKey(x)' => NeedsKey(x)
    BY <1>9 DEF Enqueue, Goes, requestVars, redisVars, history, TypeOK, NeedsKey, Claimed, Failing, Enders
  <2>3. QED
    BY <2>1, <2>2, KeySame
<1>10. ASSUME NEW r \in Requests, RequestCut(r) PROVE KeyInv'
  <2>1. UNCHANGED <<key, issue>> /\ revived \subseteq revived' /\ outlived \subseteq outlived'
    BY <1>10 DEF RequestCut, requestVars, redisVars, history
  <2>2. \A x \in Requests : NeedsKey(x)' => NeedsKey(x)
    BY <1>10 DEF RequestCut, requestVars, redisVars, history, TypeOK, NeedsKey, Claimed, Failing, Enders
  <2>3. QED
    BY <2>1, <2>2, KeySame
<1>11. ASSUME NEW r \in Requests, Revive(r) PROVE KeyInv'
  <2>1. SUFFICES ASSUME NEW x \in Requests, NeedsKey(x)', ~Spoilt(issue[x])'
                 PROVE  key'[issue'[x]] = x
    BY <1>11 DEF KeyInv, Spoilt, Revive, requestVars
  <2>2. /\ record' = [record EXCEPT ![r] = "live"] /\ revived' = revived \cup {r}
        /\ UNCHANGED <<pc, issue, key, ending, cut, outlived>>
    BY <1>11 DEF Revive, requestVars
  <2>3. ~Spoilt(issue[x]) /\ x # r
    BY <2>1, <2>2 DEF Spoilt
  <2>4. NeedsKey(x)
    BY <2>1, <2>2, <2>3 DEF NeedsKey, TypeOK
  <2>5. QED
    BY <2>2, <2>3, <2>4 DEF KeyInv
<1>12. ASSUME NEW j \in Requests, NEW e \in Enders, EndLoad(j, e) PROVE KeyInv'
  <2>1. UNCHANGED <<key, issue>> /\ revived \subseteq revived' /\ outlived \subseteq outlived'
    BY <1>12 DEF EndLoad, Advances, requestVars, redisVars, history
  <2>2. \A x \in Requests : NeedsKey(x)' => NeedsKey(x)
    BY <1>12 DEF EndLoad, Advances, requestVars, redisVars, history, TypeOK, NeedsKey, Claimed, Failing, Enders
  <2>3. QED
    BY <2>1, <2>2, KeySame
<1>13. ASSUME NEW j \in Requests, NEW e \in Enders, EndSave(j, e) PROVE KeyInv'
  <2>1. UNCHANGED <<key, issue>> /\ revived \subseteq revived' /\ outlived \subseteq outlived'
    BY <1>13 DEF EndSave, Advances, requestVars, redisVars, history
  <2>2. \A x \in Requests : NeedsKey(x)' => NeedsKey(x)
    BY <1>13 DEF EndSave, Advances, requestVars, redisVars, history, TypeOK, NeedsKey, Claimed, Failing, Enders
  <2>3. QED
    BY <2>1, <2>2, KeySame
<1>14. ASSUME NEW j \in Requests, NEW e \in Enders, EndReturn(j, e) PROVE KeyInv'
  <2>1. UNCHANGED <<key, issue>> /\ revived \subseteq revived' /\ outlived \subseteq outlived'
    BY <1>14 DEF EndReturn, Advances, requestVars, redisVars, history
  <2>2. \A x \in Requests : NeedsKey(x)' => NeedsKey(x)
    BY <1>14 DEF EndReturn, Advances, requestVars, redisVars, history, TypeOK, NeedsKey, Claimed, Failing, Enders
  <2>3. QED
    BY <2>1, <2>2, KeySame
<1>15. ASSUME NEW j \in Requests, NEW e \in Enders, EndUnlock(j, e) PROVE KeyInv'
  <2>1. /\ ending[<<j, e>>] = "unlock" /\ ending' = [ending EXCEPT ![<<j, e>>] = "idle"]
        /\ key' = [key EXCEPT ![issue[j]] = NoJob]
        /\ UNCHANGED <<issue, record, pc, cut, revived, outlived>>
    BY <1>15 DEF EndUnlock, Advances, requestVars, history
  <2>2. /\ e = "worker" /\ record[j] # "none"
        /\ record[j] # "live" \/ j \in revived
    BY <2>1 DEF LifeInv, Life, Returning, Failing
  <2>3. NeedsKey(j)
    BY <2>1, <2>2 DEF NeedsKey, Failing
  <2>4. CASE j \in revived
    <3>1. SUFFICES ASSUME NEW x \in Requests, NeedsKey(x)', ~Spoilt(issue[x])'
                   PROVE  key'[issue'[x]] = x
      BY <2>1 DEF KeyInv, Spoilt
    <3>2. issue[x] # issue[j] /\ ~Spoilt(issue[x])
      BY <2>1, <2>4, <3>1 DEF Spoilt
    <3>3. NeedsKey(x)
      <4>1. x # j /\ ending'[<<x, "worker">>] = ending[<<x, "worker">>]
        BY <2>1, <3>2 DEF TypeOK
      <4>2. QED
        BY <2>1, <3>1, <4>1 DEF NeedsKey
    <3>4. QED
      BY <2>1, <3>2, <3>3 DEF KeyInv, TypeOK
  <2>5. CASE j \notin revived
    <3>1. ~NeedsKey(j)'
      BY <2>1, <2>2, <2>5 DEF NeedsKey, Claimed, Failing, LifeInv, Life, Unsaved, TypeOK
    <3>2. \A x \in Requests : NeedsKey(x)' => NeedsKey(x)
      <4>1. ASSUME NEW x \in Requests, x # j, NeedsKey(x)' PROVE NeedsKey(x)
        <5>1. ending'[<<x, "worker">>] = ending[<<x, "worker">>]
          BY <2>1, <4>1 DEF TypeOK
        <5>2. QED
          BY <2>1, <4>1, <5>1 DEF NeedsKey
      <4>2. QED
        BY <2>3, <4>1
    <3>3. QED
      BY <2>1, <2>3, <3>1, <3>2, KeyDropped
  <2>6. QED
    BY <2>4, <2>5
<1>16. ASSUME NEW j \in Requests, NEW e \in Enders, EndCut(j, e) PROVE KeyInv'
  <2>1. UNCHANGED <<key, issue>> /\ revived \subseteq revived' /\ outlived \subseteq outlived'
    BY <1>16 DEF EndCut, requestVars, redisVars, history
  <2>2. \A x \in Requests : NeedsKey(x)' => NeedsKey(x)
    BY <1>16 DEF EndCut, requestVars, redisVars, history, TypeOK, NeedsKey, Claimed, Failing, Enders
  <2>3. QED
    BY <2>1, <2>2, KeySame
<1>17. ASSUME CounterExpires PROVE KeyInv'
  <2>1. UNCHANGED <<key, issue>> /\ revived \subseteq revived' /\ outlived \subseteq outlived'
    BY <1>17 DEF CounterExpires, requestVars, redisVars, history
  <2>2. \A x \in Requests : NeedsKey(x)' => NeedsKey(x)
    BY <1>17 DEF CounterExpires, requestVars, redisVars, history, TypeOK, NeedsKey, Claimed, Failing, Enders
  <2>3. QED
    BY <2>1, <2>2, KeySame
<1>18. ASSUME UNCHANGED vars PROVE KeyInv'
  <2>1. UNCHANGED <<key, issue>> /\ revived \subseteq revived' /\ outlived \subseteq outlived'
    BY <1>18 DEF vars, requestVars, redisVars, history
  <2>2. \A x \in Requests : NeedsKey(x)' => NeedsKey(x)
    BY <1>18 DEF vars, requestVars, redisVars, history, TypeOK, NeedsKey, Claimed, Failing, Enders
  <2>3. QED
    BY <2>1, <2>2, KeySame
<1>19. ASSUME NEW r \in Requests, RequestStep(r) \/ Revive(r) PROVE KeyInv'
  BY <1>19, <1>1, <1>2, <1>3, <1>4, <1>5, <1>6, <1>7, <1>8, <1>9, <1>10, <1>11 DEF RequestStep
<1>20. ASSUME NEW j \in Requests, NEW e \in Enders, EndStep(j, e) PROVE KeyInv'
  BY <1>20, <1>12, <1>13, <1>14, <1>15, <1>16 DEF EndStep
<1>21. ASSUME NEW i \in Issues, KeyExpires(i) PROVE KeyInv'
  <2>1. SUFFICES ASSUME NEW x \in Requests, NeedsKey(x)', ~Spoilt(issue[x])'
                 PROVE  key'[issue'[x]] = x
    BY <1>21 DEF KeyInv, Spoilt, KeyExpires, requestVars
  <2>2. /\ key' = [key EXCEPT ![i] = NoJob] /\ key[i] \in Requests
        /\ outlived' = outlived \cup {j \in {key[i]} : NeedsKey(j)}
        /\ UNCHANGED <<pc, issue, record, ending, cut, revived>>
    BY <1>21 DEF KeyExpires, requestVars, TypeOK
  <2>3. NeedsKey(x) /\ ~Spoilt(issue[x])
    BY <2>1, <2>2 DEF NeedsKey, Spoilt
  <2>4. key[issue[x]] = x
    BY <2>3 DEF KeyInv
  <2>5. CASE issue[x] = i
    <3>1. x \in outlived'
      BY <2>2, <2>3, <2>4, <2>5
    <3>2. Spoilt(issue[x])'
      BY <2>2, <3>1 DEF Spoilt
    <3>3. QED
      BY <2>1, <3>2
  <2>6. CASE issue[x] # i
    BY <2>2, <2>4, <2>6 DEF TypeOK
  <2>7. QED
    BY <2>5, <2>6
<1>22. QED
  BY <1>17, <1>18, <1>19, <1>20, <1>21 DEF Next

(* One issue never has two live jobs, whatever submissions, failures, key  *)
(* deletions and expiries overlap, unless a job of that issue was revived  *)
(* or was still at work when its key expired.                              *)
THEOREM OneJob == Spec => []OneJobPerIssue
<1>1. Init => KeyInv
  BY KeyInit
<1>2. TypeOK /\ LifeInv /\ KeyInv /\ [Next]_vars => KeyInv'
  BY KeyStep
<1>3. KeyInv => OneJobPerIssue
  <2>1. SUFFICES ASSUME KeyInv, NEW j \in Requests, NEW k \in Requests,
                        record[j] = "live", record[k] = "live", issue[j] = issue[k],
                        ~Spoilt(issue[j])
                 PROVE  j = k
    BY DEF OneJobPerIssue
  <2>2. key[issue[j]] = j /\ key[issue[k]] = k
    BY <2>1 DEF KeyInv, NeedsKey
  <2>3. QED
    BY <2>1, <2>2
<1>4. QED
  BY <1>1, <1>2, <1>3, Living, PTL DEF Spec

-----------------------------------------------------------------------------
(* What is left at rest.                                                   *)

LEMMA RestInit == Init => RestInv
  BY DEF Init, RestInv, KeyNamesJob

(* A job a step does not carry to its end before the record, or back.      *)
KeyStable(x) ==
    /\ pc'[x] \in {"new", "reading"} => pc[x] \in {"new", "reading"}
    /\ pc'[x] = "over" /\ record'[x] = "none" =>
         pc[x] \in {"new", "reading"} \/ (pc[x] = "over" /\ record[x] = "none")

LEMMA KeyStays ==
    ASSUME TypeOK, NEW i \in Issues, KeyNamesJob(i), \A x \in Requests : KeyStable(x),
           UNCHANGED issue, key'[i] \in {key[i], NoJob}
    PROVE  KeyNamesJob(i)'
<1>1. CASE key'[i] = NoJob
  BY <1>1 DEF KeyNamesJob
<1>2. CASE key'[i] = key[i] /\ key[i] # NoJob
  <2>1. PICK x \in Requests : x = key[i]
    BY <1>2 DEF TypeOK
  <2>2. KeyStable(x)
    BY <2>1
  <2>3. QED
    BY <1>2, <2>1, <2>2 DEF KeyNamesJob, KeyStable
<1>3. QED
  BY <1>1, <1>2

LEMMA RestStep ==
    ASSUME TypeOK, CountInv, LifeInv, RestInv, [Next]_vars
    PROVE  RestInv'
<1>1. ASSUME NEW r \in Requests, Claim(r) PROVE RestInv'
  <2>1. \A i \in Issues : KeyNamesJob(i)'
    <3>1. SUFFICES ASSUME NEW i \in Issues PROVE KeyNamesJob(i)'
      OBVIOUS
    <3>2. UNCHANGED <<issue, record>> /\ KeyNamesJob(i) /\ r # NoJob
      BY <1>1, RequestsAssumption DEF Claim, RestInv
    <3>3. CASE key[issue[r]] = NoJob
      <4>1. pc' = [pc EXCEPT ![r] = "counting"] /\ key' = [key EXCEPT ![issue[r]] = r]
        BY <1>1, <3>3 DEF Claim, Goes
      <4>2. CASE i = issue[r]
        BY <3>2, <4>1, <4>2 DEF KeyNamesJob, TypeOK
      <4>3. CASE i # issue[r]
        <5>1. key'[i] = key[i]
          BY <4>1, <4>3 DEF TypeOK
        <5>2. \A x \in Requests : KeyStable(x)
          BY <3>2, <4>1 DEF KeyStable, TypeOK
        <5>3. QED
          BY <3>2, <5>1, <5>2, KeyStays
      <4>4. QED
        BY <4>2, <4>3
    <3>4. CASE key[issue[r]] # NoJob
      <4>1. pc' = [pc EXCEPT ![r] = "reading"] /\ key' = key /\ pc[r] = "new"
        BY <1>1, <3>4 DEF Claim, Goes
      <4>2. \A x \in Requests : KeyStable(x)
        BY <3>2, <4>1 DEF KeyStable, TypeOK
      <4>3. QED
        BY <3>2, <4>1, <4>2, KeyStays
    <3>5. QED
      BY <3>3, <3>4
  <2>2. \A x \in holders' : SlotHasOwner(x)'
    BY <1>1 DEF Claim, Goes, requestVars, redisVars, history, TypeOK, RestInv, SlotHasOwner, Counted
  <2>3. QED
    BY <2>1, <2>2 DEF RestInv
<1>2. ASSUME NEW r \in Requests, ReadExisting(r) PROVE RestInv'
  <2>1. \A i \in Issues : KeyNamesJob(i)'
    <3>1. UNCHANGED issue /\ \A i \in Issues : key'[i] \in {key[i], NoJob}
      BY <1>2 DEF ReadExisting, Goes, requestVars, redisVars, history, TypeOK
    <3>2. \A x \in Requests : KeyStable(x)
      BY <1>2 DEF ReadExisting, Goes, requestVars, redisVars, history, TypeOK, KeyStable
    <3>3. QED
      BY <3>1, <3>2, KeyStays DEF RestInv
  <2>2. \A x \in holders' : SlotHasOwner(x)'
    BY <1>2 DEF ReadExisting, Goes, requestVars, redisVars, history, TypeOK, RestInv, SlotHasOwner, Counted
  <2>3. QED
    BY <2>1, <2>2 DEF RestInv
<1>3. ASSUME NEW r \in Requests, Count(r) PROVE RestInv'
  <2>1. \A i \in Issues : KeyNamesJob(i)'
    <3>1. UNCHANGED issue /\ \A i \in Issues : key'[i] \in {key[i], NoJob}
      BY <1>3 DEF Count, Goes, requestVars, redisVars, history, TypeOK
    <3>2. \A x \in Requests : KeyStable(x)
      BY <1>3 DEF Count, Goes, requestVars, redisVars, history, TypeOK, KeyStable
    <3>3. QED
      BY <3>1, <3>2, KeyStays DEF RestInv
  <2>2. \A x \in holders' : SlotHasOwner(x)'
    <3>1. SUFFICES ASSUME NEW x \in holders' PROVE SlotHasOwner(x)'
      OBVIOUS
    <3>2. /\ UNCHANGED <<record, ending, lost>> /\ holders' \in {holders, holders \cup {r}}
          /\ \A y \in Requests : y # r => pc'[y] = pc[y]
          /\ holders' # holders => pc'[r] \in Counted
      BY <1>3 DEF Count, Goes, TypeOK, Counted
    <3>3. CASE x # r
      BY <3>1, <3>2, <3>3 DEF TypeOK, RestInv, SlotHasOwner
    <3>4. CASE x = r
      <4>1. r \notin holders
        BY <1>3 DEF CountInv, Uncounted, Count, Goes
      <4>2. QED
        BY <3>1, <3>2, <3>4, <4>1 DEF SlotHasOwner
    <3>5. QED
      BY <3>3, <3>4
  <2>3. QED
    BY <2>1, <2>2 DEF RestInv
<1>4. ASSUME NEW r \in Requests, SetExpiry(r) PROVE RestInv'
  <2>1. \A i \in Issues : KeyNamesJob(i)'
    <3>1. UNCHANGED issue /\ \A i \in Issues : key'[i] \in {key[i], NoJob}
      BY <1>4 DEF SetExpiry, Goes, requestVars, redisVars, history, TypeOK
    <3>2. \A x \in Requests : KeyStable(x)
      BY <1>4 DEF SetExpiry, Goes, requestVars, redisVars, history, TypeOK, KeyStable
    <3>3. QED
      BY <3>1, <3>2, KeyStays DEF RestInv
  <2>2. \A x \in holders' : SlotHasOwner(x)'
    BY <1>4 DEF SetExpiry, Goes, requestVars, redisVars, history, TypeOK, RestInv, SlotHasOwner, Counted
  <2>3. QED
    BY <2>1, <2>2 DEF RestInv
<1>5. ASSUME NEW r \in Requests, Uncount(r) PROVE RestInv'
  <2>1. \A i \in Issues : KeyNamesJob(i)'
    <3>1. UNCHANGED issue /\ \A i \in Issues : key'[i] \in {key[i], NoJob}
      BY <1>5 DEF Uncount, Goes, requestVars, redisVars, history, TypeOK
    <3>2. \A x \in Requests : KeyStable(x)
      BY <1>5 DEF Uncount, Goes, requestVars, redisVars, history, TypeOK, KeyStable
    <3>3. QED
      BY <3>1, <3>2, KeyStays DEF RestInv
  <2>2. \A x \in holders' : SlotHasOwner(x)'
    BY <1>5 DEF Uncount, Goes, requestVars, redisVars, history, TypeOK, RestInv, SlotHasOwner, Counted
  <2>3. QED
    BY <2>1, <2>2 DEF RestInv
<1>6. ASSUME NEW r \in Requests, Release(r) PROVE RestInv'
  <2>1. \A i \in Issues : KeyNamesJob(i)'
    <3>1. SUFFICES ASSUME NEW i \in Issues PROVE KeyNamesJob(i)'
      OBVIOUS
    <3>2. /\ UNCHANGED <<issue, record>> /\ KeyNamesJob(i)
          /\ pc' = [pc EXCEPT ![r] = "over"] /\ key' = [key EXCEPT ![issue[r]] = NoJob]
      BY <1>6 DEF Release, Goes, RestInv
    <3>3. CASE i = issue[r]
      BY <3>2, <3>3 DEF KeyNamesJob, TypeOK
    <3>4. CASE i # issue[r]
      <4>1. key'[i] = key[i]
        BY <3>2, <3>4 DEF TypeOK
      <4>2. CASE key[i] = NoJob
        BY <4>1, <4>2 DEF KeyNamesJob
      <4>3. CASE key[i] # NoJob
        <5>1. PICK x \in Requests : x = key[i]
          BY <4>3 DEF TypeOK
        <5>2. issue[x] = i /\ x # r
          BY <3>2, <3>4, <4>3, <5>1 DEF KeyNamesJob
        <5>3. pc'[x] = pc[x]
          BY <3>2, <5>2 DEF TypeOK
        <5>4. QED
          BY <3>2, <4>1, <4>3, <5>1, <5>3 DEF KeyNamesJob
      <4>4. QED
        BY <4>2, <4>3
    <3>5. QED
      BY <3>3, <3>4
  <2>2. \A x \in holders' : SlotHasOwner(x)'
    BY <1>6 DEF Release, Goes, requestVars, redisVars, history, TypeOK, RestInv, SlotHasOwner, Counted
  <2>3. QED
    BY <2>1, <2>2 DEF RestInv
<1>7. ASSUME NEW r \in Requests, Fetch(r) PROVE RestInv'
  <2>1. \A i \in Issues : KeyNamesJob(i)'
    <3>1. UNCHANGED issue /\ \A i \in Issues : key'[i] \in {key[i], NoJob}
      BY <1>7 DEF Fetch, Goes, requestVars, redisVars, history, TypeOK
    <3>2. \A x \in Requests : KeyStable(x)
      BY <1>7 DEF Fetch, Goes, requestVars, redisVars, history, TypeOK, KeyStable
    <3>3. QED
      BY <3>1, <3>2, KeyStays DEF RestInv
  <2>2. \A x \in holders' : SlotHasOwner(x)'
    BY <1>7 DEF Fetch, Goes, requestVars, redisVars, history, TypeOK, RestInv, SlotHasOwner, Counted
  <2>3. QED
    BY <2>1, <2>2 DEF RestInv
<1>8. ASSUME NEW r \in Requests, SaveRecord(r) PROVE RestInv'
  <2>1. \A i \in Issues : KeyNamesJob(i)'
    <3>1. UNCHANGED issue /\ \A i \in Issues : key'[i] \in {key[i], NoJob}
      BY <1>8 DEF SaveRecord, Goes, requestVars, redisVars, history, TypeOK
    <3>2. \A x \in Requests : KeyStable(x)
      BY <1>8 DEF SaveRecord, Goes, requestVars, redisVars, history, TypeOK, KeyStable
    <3>3. QED
      BY <3>1, <3>2, KeyStays DEF RestInv
  <2>2. \A x \in holders' : SlotHasOwner(x)'
    BY <1>8 DEF SaveRecord, Goes, requestVars, redisVars, history, TypeOK, RestInv, SlotHasOwner, Counted
  <2>3. QED
    BY <2>1, <2>2 DEF RestInv
<1>9. ASSUME NEW r \in Requests, Enqueue(r) PROVE RestInv'
  <2>1. \A i \in Issues : KeyNamesJob(i)'
    <3>1. UNCHANGED issue /\ \A i \in Issues : key'[i] \in {key[i], NoJob}
      BY <1>9 DEF Enqueue, Goes, requestVars, redisVars, history, TypeOK
    <3>2. \A x \in Requests : KeyStable(x)
      BY <1>9 DEF Enqueue, Goes, requestVars, redisVars, history, TypeOK, KeyStable, LifeInv, Life, Unsaved
    <3>3. QED
      BY <3>1, <3>2, KeyStays DEF RestInv
  <2>2. \A x \in holders' : SlotHasOwner(x)'
    BY <1>9 DEF Enqueue, Goes, requestVars, redisVars, history, TypeOK, RestInv, SlotHasOwner, Counted
  <2>3. QED
    BY <2>1, <2>2 DEF RestInv
<1>10. ASSUME NEW r \in Requests, RequestCut(r) PROVE RestInv'
  <2>1. \A i \in Issues : KeyNamesJob(i)'
    <3>1. UNCHANGED issue /\ \A i \in Issues : key'[i] \in {key[i], NoJob}
      BY <1>10 DEF RequestCut, requestVars, redisVars, history, TypeOK
    <3>2. \A x \in Requests : KeyStable(x)
      BY <1>10 DEF RequestCut, requestVars, redisVars, history, TypeOK, KeyStable
    <3>3. QED
      BY <3>1, <3>2, KeyStays DEF RestInv
  <2>2. \A x \in holders' : SlotHasOwner(x)'
    BY <1>10 DEF RequestCut, requestVars, redisVars, history, TypeOK, RestInv, SlotHasOwner, Counted
  <2>3. QED
    BY <2>1, <2>2 DEF RestInv
<1>11. ASSUME NEW r \in Requests, Revive(r) PROVE RestInv'
  <2>1. \A i \in Issues : KeyNamesJob(i)'
    <3>1. UNCHANGED issue /\ \A i \in Issues : key'[i] \in {key[i], NoJob}
      BY <1>11 DEF Revive, requestVars, redisVars, history, TypeOK
    <3>2. \A x \in Requests : KeyStable(x)
      BY <1>11 DEF Revive, requestVars, redisVars, history, TypeOK, KeyStable, LifeInv, Life, Unsaved
    <3>3. QED
      BY <3>1, <3>2, KeyStays DEF RestInv
  <2>2. \A x \in holders' : SlotHasOwner(x)'
    BY <1>11 DEF Revive, requestVars, redisVars, history, TypeOK, RestInv, SlotHasOwner, Counted
  <2>3. QED
    BY <2>1, <2>2 DEF RestInv
<1>12. ASSUME NEW j \in Requests, NEW e \in Enders, EndLoad(j, e) PROVE RestInv'
  <2>1. \A i \in Issues : KeyNamesJob(i)'
    <3>1. UNCHANGED issue /\ \A i \in Issues : key'[i] \in {key[i], NoJob}
      BY <1>12 DEF EndLoad, Advances, requestVars, redisVars, history, TypeOK
    <3>2. \A x \in Requests : KeyStable(x)
      BY <1>12 DEF EndLoad, Advances, requestVars, redisVars, history, TypeOK, KeyStable
    <3>3. QED
      BY <3>1, <3>2, KeyStays DEF RestInv
  <2>2. \A x \in holders' : SlotHasOwner(x)'
    <3>1. SUFFICES ASSUME NEW x \in holders' PROVE SlotHasOwner(x)'
      OBVIOUS
    <3>2. x \in holders /\ x \in Requests /\ SlotHasOwner(x) /\ UNCHANGED <<pc, lost>>
      BY <1>12 DEF EndLoad, Advances, requestVars, redisVars, history, TypeOK, RestInv
    <3>3. CASE x # j
      <4>1. record'[x] = record[x] /\ \A f \in Enders : ending'[<<x, f>>] = ending[<<x, f>>]
        BY <1>12, <3>2, <3>3 DEF EndLoad, Advances, requestVars, redisVars, history, TypeOK
      <4>2. QED
        BY <3>2, <4>1 DEF SlotHasOwner
    <3>4. CASE x = j
      <4>1. record[j] = "live" /\ record' = record
        BY <1>12 DEF EndLoad, redisVars
      <4>2. QED
        BY <3>4, <4>1 DEF SlotHasOwner
    <3>5. QED
      BY <3>3, <3>4
  <2>3. QED
    BY <2>1, <2>2 DEF RestInv
<1>13. ASSUME NEW j \in Requests, NEW e \in Enders, EndSave(j, e) PROVE RestInv'
  <2>1. \A i \in Issues : KeyNamesJob(i)'
    <3>1. UNCHANGED issue /\ \A i \in Issues : key'[i] \in {key[i], NoJob}
      BY <1>13 DEF EndSave, Advances, requestVars, redisVars, history, TypeOK
    <3>2. \A x \in Requests : KeyStable(x)
      BY <1>13 DEF EndSave, Advances, requestVars, redisVars, history, TypeOK, KeyStable, LifeInv, Life, Unsaved
    <3>3. QED
      BY <3>1, <3>2, KeyStays DEF RestInv
  <2>2. \A x \in holders' : SlotHasOwner(x)'
    <3>1. SUFFICES ASSUME NEW x \in holders' PROVE SlotHasOwner(x)'
      OBVIOUS
    <3>2. x \in holders /\ x \in Requests /\ SlotHasOwner(x) /\ UNCHANGED <<pc, lost>>
      BY <1>13 DEF EndSave, Advances, requestVars, redisVars, history, TypeOK, RestInv
    <3>3. CASE x # j
      <4>1. record'[x] = record[x] /\ \A f \in Enders : ending'[<<x, f>>] = ending[<<x, f>>]
        BY <1>13, <3>2, <3>3 DEF EndSave, Advances, requestVars, redisVars, history, TypeOK
      <4>2. QED
        BY <3>2, <4>1 DEF SlotHasOwner
    <3>4. CASE x = j
      <4>1. ending'[<<j, e>>] \in {"return ended", "return failed"}
        BY <1>13 DEF EndSave, Advances, TypeOK
      <4>2. QED
        BY <3>4, <4>1 DEF SlotHasOwner
    <3>5. QED
      BY <3>3, <3>4
  <2>3. QED
    BY <2>1, <2>2 DEF RestInv
<1>14. ASSUME NEW j \in Requests, NEW e \in Enders, EndReturn(j, e) PROVE RestInv'
  <2>1. \A i \in Issues : KeyNamesJob(i)'
    <3>1. UNCHANGED issue /\ \A i \in Issues : key'[i] \in {key[i], NoJob}
      BY <1>14 DEF EndReturn, Advances, requestVars, redisVars, history, TypeOK
    <3>2. \A x \in Requests : KeyStable(x)
      BY <1>14 DEF EndReturn, Advances, requestVars, redisVars, history, TypeOK, KeyStable
    <3>3. QED
      BY <3>1, <3>2, KeyStays DEF RestInv
  <2>2. \A x \in holders' : SlotHasOwner(x)'
    <3>1. SUFFICES ASSUME NEW x \in holders' PROVE SlotHasOwner(x)'
      OBVIOUS
    <3>2. x \in holders /\ x \in Requests /\ SlotHasOwner(x) /\ UNCHANGED <<pc, lost>>
      BY <1>14 DEF EndReturn, Advances, requestVars, redisVars, history, TypeOK, RestInv
    <3>3. CASE x # j
      <4>1. record'[x] = record[x] /\ \A f \in Enders : ending'[<<x, f>>] = ending[<<x, f>>]
        BY <1>14, <3>2, <3>3 DEF EndReturn, Advances, requestVars, redisVars, history, TypeOK
      <4>2. QED
        BY <3>2, <4>1 DEF SlotHasOwner
    <3>4. CASE x = j
      BY <1>14, <3>1, <3>4 DEF EndReturn
    <3>5. QED
      BY <3>3, <3>4
  <2>3. QED
    BY <2>1, <2>2 DEF RestInv
<1>15. ASSUME NEW j \in Requests, NEW e \in Enders, EndUnlock(j, e) PROVE RestInv'
  <2>1. \A i \in Issues : KeyNamesJob(i)'
    <3>1. UNCHANGED issue /\ \A i \in Issues : key'[i] \in {key[i], NoJob}
      BY <1>15 DEF EndUnlock, Advances, requestVars, redisVars, history, TypeOK
    <3>2. \A x \in Requests : KeyStable(x)
      BY <1>15 DEF EndUnlock, Advances, requestVars, redisVars, history, TypeOK, KeyStable
    <3>3. QED
      BY <3>1, <3>2, KeyStays DEF RestInv
  <2>2. \A x \in holders' : SlotHasOwner(x)'
    BY <1>15 DEF EndUnlock, Advances, requestVars, redisVars, history, TypeOK, RestInv, SlotHasOwner, Counted, Enders
  <2>3. QED
    BY <2>1, <2>2 DEF RestInv
<1>16. ASSUME NEW j \in Requests, NEW e \in Enders, EndCut(j, e) PROVE RestInv'
  <2>1. \A i \in Issues : KeyNamesJob(i)'
    <3>1. UNCHANGED issue /\ \A i \in Issues : key'[i] \in {key[i], NoJob}
      BY <1>16 DEF EndCut, requestVars, redisVars, history, TypeOK
    <3>2. \A x \in Requests : KeyStable(x)
      BY <1>16 DEF EndCut, requestVars, redisVars, history, TypeOK, KeyStable
    <3>3. QED
      BY <3>1, <3>2, KeyStays DEF RestInv
  <2>2. \A x \in holders' : SlotHasOwner(x)'
    BY <1>16 DEF EndCut, requestVars, redisVars, history, TypeOK, RestInv, SlotHasOwner, Counted, Enders
  <2>3. QED
    BY <2>1, <2>2 DEF RestInv
<1>17. ASSUME CounterExpires PROVE RestInv'
  <2>1. \A i \in Issues : KeyNamesJob(i)'
    <3>1. UNCHANGED issue /\ \A i \in Issues : key'[i] \in {key[i], NoJob}
      BY <1>17 DEF CounterExpires, requestVars, redisVars, history, TypeOK
    <3>2. \A x \in Requests : KeyStable(x)
      BY <1>17 DEF CounterExpires, requestVars, redisVars, history, TypeOK, KeyStable
    <3>3. QED
      BY <3>1, <3>2, KeyStays DEF RestInv
  <2>2. \A x \in holders' : SlotHasOwner(x)'
    BY <1>17 DEF CounterExpires, requestVars, redisVars, history, TypeOK, RestInv, SlotHasOwner, Counted
  <2>3. QED
    BY <2>1, <2>2 DEF RestInv
<1>18. ASSUME UNCHANGED vars PROVE RestInv'
  <2>1. \A i \in Issues : KeyNamesJob(i)'
    <3>1. UNCHANGED issue /\ \A i \in Issues : key'[i] \in {key[i], NoJob}
      BY <1>18 DEF vars, requestVars, redisVars, history, TypeOK
    <3>2. \A x \in Requests : KeyStable(x)
      BY <1>18 DEF vars, requestVars, redisVars, history, TypeOK, KeyStable
    <3>3. QED
      BY <3>1, <3>2, KeyStays DEF RestInv
  <2>2. \A x \in holders' : SlotHasOwner(x)'
    BY <1>18 DEF vars, requestVars, redisVars, history, TypeOK, RestInv, SlotHasOwner, Counted
  <2>3. QED
    BY <2>1, <2>2 DEF RestInv
<1>19. ASSUME NEW r \in Requests, RequestStep(r) \/ Revive(r) PROVE RestInv'
  BY <1>19, <1>1, <1>2, <1>3, <1>4, <1>5, <1>6, <1>7, <1>8, <1>9, <1>10, <1>11 DEF RequestStep
<1>20. ASSUME NEW j \in Requests, NEW e \in Enders, EndStep(j, e) PROVE RestInv'
  BY <1>20, <1>12, <1>13, <1>14, <1>15, <1>16 DEF EndStep
<1>21. ASSUME NEW i \in Issues, KeyExpires(i) PROVE RestInv'
  <2>1. \A k \in Issues : KeyNamesJob(k)'
    <3>1. UNCHANGED issue /\ \A k \in Issues : key'[k] \in {key[k], NoJob}
      BY <1>21 DEF KeyExpires, requestVars, TypeOK
    <3>2. \A x \in Requests : KeyStable(x)
      BY <1>21 DEF KeyExpires, requestVars, KeyStable
    <3>3. QED
      BY <3>1, <3>2, KeyStays DEF RestInv
  <2>2. \A x \in holders' : SlotHasOwner(x)'
    BY <1>21 DEF KeyExpires, requestVars, RestInv, SlotHasOwner
  <2>3. QED
    BY <2>1, <2>2 DEF RestInv
<1>22. QED
  BY <1>17, <1>18, <1>19, <1>20, <1>21 DEF Next

(* At rest, an admission that was refused and a job that ended have left   *)
(* neither a key nor a slot taken, unless an await was cut short.          *)
THEOREM NothingLeft == Spec => []NothingLeftBehind
<1>1. Init => RestInv
  BY RestInit
<1>2. TypeOK /\ CountInv /\ LifeInv /\ RestInv /\ [Next]_vars => RestInv'
  BY RestStep
<1>3. TypeOK /\ RestInv => NothingLeftBehind
  <2>1. SUFFICES ASSUME TypeOK, RestInv, Quiet
                 PROVE  /\ \A i \in Issues : key[i] \in {NoJob} \cup cut \/ record[key[i]] # "none"
                        /\ \A j \in holders : record[j] = "live" \/ j \in cut \cup lost
    BY DEF NothingLeftBehind
  <2>2. ASSUME NEW i \in Issues, key[i] \notin {NoJob} \cup cut PROVE record[key[i]] # "none"
    <3>1. key[i] \in Requests \ cut
      BY <2>1, <2>2 DEF TypeOK
    <3>2. pc[key[i]] \in {"new", "over"}
      BY <2>1, <3>1 DEF Quiet
    <3>3. QED
      BY <2>1, <2>2, <3>2 DEF RestInv, KeyNamesJob
  <2>3. ASSUME NEW j \in holders, j \notin cut \cup lost PROVE record[j] = "live"
    <3>1. j \in Requests \ cut /\ SlotHasOwner(j)
      BY <2>1, <2>3 DEF TypeOK, RestInv
    <3>2. pc[j] \in {"new", "over"} /\ \A e \in Enders : ending[<<j, e>>] = "idle"
      BY <2>1, <3>1 DEF Quiet
    <3>3. QED
      BY <2>3, <3>1, <3>2 DEF SlotHasOwner, Counted
  <2>4. QED
    BY <2>2, <2>3
<1>4. QED
  BY <1>1, <1>2, <1>3, Living, PTL DEF Spec

=============================================================================
