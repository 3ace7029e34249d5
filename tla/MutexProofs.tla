----------------------------- MODULE MutexProofs -----------------------------
(***************************************************************************)
(* The safety of the kernel mutex for any number of tasks and any nesting. *)
(* The inductive invariant is IInv: who possesses the mutex, who holds     *)
(* sched_lock, who is on the wait queue, and that a free mutex with        *)
(* sleepers has a rescuer.  One lemma per conjunct, one step per action.   *)
(***************************************************************************)
EXTENDS Mutex, SequenceTheorems, TLAPS

(* Most steps are first-order reasoning, which Zenon does; the steps that  *)
(* do arithmetic or compare functions name SMT.                            *)
USE Zenon

-----------------------------------------------------------------------------
(* What the wait-queue operations do to the set of queued tasks, and that  *)
(* they keep a task from being linked twice.                               *)

(* waitq_add of a task that is not on the queue. *)
LEMMA LinkProperties ==
    ASSUME NEW S, NEW q \in Seq(S), NEW t \in S,
           IsInjective(q), t \notin ToSet(q)
    PROVE  LET r == waitq_link(q, t) IN
           /\ r \in Seq(S)
           /\ r # <<>>
           /\ IsInjective(r)
           /\ ToSet(r) = ToSet(q) \cup {t}
<1> DEFINE r == waitq_link(q, t)
<1>1. /\ r \in Seq(S)
      /\ Len(r) = Len(q) + 1
      /\ r[1] = t
      /\ \A i \in 1..Len(q) : r[i + 1] = q[i]
  BY SMT DEF waitq_link, Cons
<1>2. r # <<>>
  BY <1>1, SMT
<1>3. IsInjective(r)
  <2> SUFFICES ASSUME NEW a \in 1..Len(r), NEW b \in 1..Len(r), r[a] = r[b]
               PROVE  a = b
    BY <1>1, SMT DEF IsInjective
  <2>1. CASE a = 1 /\ b = 1
    BY <2>1
  <2>2. CASE a > 1 /\ b > 1
    <3>1. a - 1 \in 1..Len(q) /\ b - 1 \in 1..Len(q)
      BY <1>1, <2>2, SMT
    <3>2. q[a - 1] = q[b - 1]
      BY <1>1, <3>1, <2>2, SMT
    <3> QED
      BY <3>1, <3>2, SMT DEF IsInjective
  <2>3. \A i \in 1..Len(r) : i > 1 => r[i] # t
    <3> SUFFICES ASSUME NEW i \in 1..Len(r), i > 1 PROVE r[i] # t
      OBVIOUS
    <3>1. i - 1 \in 1..Len(q) /\ r[i] = q[i - 1]
      BY <1>1, SMT
    <3> QED
      BY <3>1, SMT DEF ToSet
  <2> QED
    BY <2>1, <2>2, <2>3, <1>1, SMT
<1>4. ToSet(r) = ToSet(q) \cup {t}
  <2>1. ASSUME NEW x \in ToSet(r) PROVE x \in ToSet(q) \cup {t}
    <3> PICK i \in 1..Len(r) : x = r[i]
      BY <1>1, SMT DEF ToSet
    <3>1. i > 1 => i - 1 \in 1..Len(q) /\ r[i] = q[i - 1]
      BY <1>1, SMT
    <3> QED
      BY <3>1, <1>1, SMT DEF ToSet
  <2>2. ASSUME NEW x \in ToSet(q) PROVE x \in ToSet(r)
    <3> PICK i \in 1..Len(q) : x = q[i]
      BY SMT DEF ToSet
    <3>1. i + 1 \in 1..Len(r) /\ r[i + 1] = x
      BY <1>1, SMT
    <3> QED
      BY <3>1, <1>1, SMT DEF ToSet
  <2>3. t \in ToSet(r)
    BY <1>1, SMT DEF ToSet
  <2> QED
    BY <2>1, <2>2, <2>3
<1> QED
  BY <1>1, <1>2, <1>3, <1>4

(* waitq_pop_locked of a non-empty queue without dead tasks. *)
LEMMA PopProperties ==
    ASSUME NEW S, NEW q \in Seq(S), q # <<>>, IsInjective(q)
    PROVE  /\ Head(q) \in S
           /\ Head(q) \in ToSet(q)
           /\ Tail(q) \in Seq(S)
           /\ IsInjective(Tail(q))
           /\ ToSet(Tail(q)) = ToSet(q) \ {Head(q)}
<1> DEFINE r == Tail(q)
<1>1. /\ r \in Seq(S)
      /\ Len(q) \in Nat /\ Len(q) > 0
      /\ Len(r) = Len(q) - 1
      /\ Head(q) = q[1]
      /\ \A i \in 1..Len(r) : r[i] = q[i + 1]
  BY SMT
<1>2. Head(q) \in S /\ Head(q) \in ToSet(q)
  BY <1>1, SMT DEF ToSet
<1>3. IsInjective(r)
  BY <1>1, SMT DEF IsInjective
<1>4. ToSet(r) = ToSet(q) \ {Head(q)}
  <2>1. ASSUME NEW x \in ToSet(r) PROVE x \in ToSet(q) /\ x # Head(q)
    <3> PICK i \in 1..Len(r) : x = r[i]
      BY <1>1, SMT DEF ToSet
    <3>1. i + 1 \in 1..Len(q) /\ x = q[i + 1] /\ 1 \in 1..Len(q) /\ i + 1 # 1
      BY <1>1, SMT
    <3> QED
      BY <3>1, <1>1, SMT DEF ToSet, IsInjective
  <2>2. ASSUME NEW x \in ToSet(q), x # Head(q) PROVE x \in ToSet(r)
    <3> PICK i \in 1..Len(q) : x = q[i]
      BY SMT DEF ToSet
    <3>1. i - 1 \in 1..Len(r) /\ r[i - 1] = x
      BY <1>1, <2>2, SMT
    <3>2. DOMAIN r = 1..Len(r)
      BY <1>1, SMT
    <3> HIDE DEF r
    <3> QED
      BY <3>1, <3>2 DEF ToSet
  <2> QED
    BY <2>1, <2>2
<1> QED
  BY <1>1, <1>2, <1>3, <1>4

(* waitq_remove_locked, of a queued task and of any other. *)
LEMMA UnlinkProperties ==
    ASSUME NEW S, NEW q \in Seq(S), NEW t, IsInjective(q)
    PROVE  LET r == waitq_unlink(q, t) IN
           /\ r \in Seq(S)
           /\ IsInjective(r)
           /\ ToSet(r) = ToSet(q) \ {t}
<1> DEFINE r == waitq_unlink(q, t)
<1>1. CASE t \notin ToSet(q)
  <2>1. \A i \in 1..Len(q) : q[i] # t
    BY <1>1, SMT DEF ToSet
  <2>2. r = q
    BY <2>1 DEF waitq_unlink, RemoveFirst
  <2> HIDE DEF r
  <2>3. ToSet(q) = ToSet(q) \ {t}
    BY <1>1
  <2> QED
    BY <2>2, <2>3 DEF r
<1>2. CASE t \in ToSet(q)
  <2> PICK k \in 1..Len(q) : q[k] = t
    BY <1>2, SMT DEF ToSet
  <2>1. {i \in 1..Len(q) : q[i] = t} = {k}
    BY SMT DEF IsInjective
  <2>2. Min({k}) = k
    BY SMT DEF Min
  <2>3. SelectInSeq(q, LAMBDA v : v = t) = k
    BY <2>1, <2>2 DEF SelectInSeq
  <2>4. r = RemoveAt(q, k)
    BY <2>3 DEF waitq_unlink, RemoveFirst
  <2> HIDE DEF r
  <2>5. /\ r \in Seq(S)
        /\ Len(r) = Len(q) - 1
        /\ DOMAIN r = 1..Len(r)
        /\ \A i \in 1..Len(r) : r[i] = IF i < k THEN q[i] ELSE q[i + 1]
    <3> DEFINE front == SubSeq(q, 1, k - 1)
               back == SubSeq(q, k + 1, Len(q))
    <3>1. /\ front \in Seq(S)
          /\ Len(front) = k - 1
          /\ \A i \in 1..(k - 1) : front[i] = q[i]
      BY SubSeqProperties, SMT
    <3>2. /\ back \in Seq(S)
          /\ Len(back) = Len(q) - k
          /\ \A i \in 1..(Len(q) - k) : back[i] = q[k + i]
      BY SubSeqProperties, SMT
    <3>3. r = front \o back
      BY <2>4 DEF RemoveAt
    <3> HIDE DEF front, back
    <3>4. /\ r \in Seq(S)
          /\ Len(r) = Len(q) - 1
          /\ DOMAIN r = 1..Len(r)
          /\ \A i \in 1..Len(r) :
               r[i] = IF i <= k - 1 THEN front[i] ELSE back[i - (k - 1)]
      BY <3>1, <3>2, <3>3, SMT
    <3>5. ASSUME NEW i \in 1..Len(r)
          PROVE  r[i] = IF i < k THEN q[i] ELSE q[i + 1]
      <4>1. CASE i < k
        <5>1. i \in 1..(k - 1) /\ i <= k - 1
          BY <4>1, <3>4, SMT
        <5>2. r[i] = front[i]
          BY <5>1, <3>4
        <5>3. front[i] = q[i]
          BY <5>1, <3>1
        <5> QED
          BY <5>2, <5>3, <4>1
      <4>2. CASE i >= k
        <5>1. i - (k - 1) \in 1..(Len(q) - k) /\ k + (i - (k - 1)) = i + 1
          BY <4>2, <3>4, SMT
        <5>2. r[i] = back[i - (k - 1)]
          BY <4>2, <3>4, SMT
        <5>3. back[i - (k - 1)] = q[i + 1]
          BY <5>1, <3>2
        <5> QED
          BY <5>2, <5>3, <4>2, SMT
      <4> QED
        BY <4>1, <4>2, <3>4, SMT
    <3> QED
      BY <3>4, <3>5
  <2>6. IsInjective(r)
    <3> SUFFICES ASSUME NEW a \in 1..Len(r), NEW b \in 1..Len(r), r[a] = r[b]
                 PROVE  a = b
      BY <2>5 DEF IsInjective
    <3> DEFINE src(i) == IF i < k THEN i ELSE i + 1
    <3>1. ASSUME NEW i \in 1..Len(r) PROVE src(i) \in 1..Len(q)
      <4>1. Len(q) \in Nat /\ Len(r) = Len(q) - 1
        BY <2>5, SMT
      <4> QED
        BY <4>1, SMT
    <3>2. ASSUME NEW i \in 1..Len(r) PROVE r[i] = q[src(i)]
      <4>1. r[i] = IF i < k THEN q[i] ELSE q[i + 1]
        BY <2>5
      <4> QED
        BY <4>1
    <3>3. (src(a) = src(b)) => (a = b)
      BY <2>5, SMT
    <3> HIDE DEF src
    <3>4. q[src(a)] = q[src(b)]
      BY <3>2
    <3>5. src(a) \in DOMAIN q /\ src(b) \in DOMAIN q
      BY <3>1, SMT
    <3>6. src(a) = src(b)
      BY <3>4, <3>5 DEF IsInjective
    <3> QED
      BY <3>3, <3>6
  <2>7. ASSUME NEW x \in ToSet(r) PROVE x \in ToSet(q) \ {t}
    <3> PICK i \in 1..Len(r) : x = r[i]
      BY <2>5 DEF ToSet
    <3>1. \E j \in 1..Len(q) : x = q[j] /\ j # k
      BY <2>5, SMT
    <3> QED
      BY <3>1, SMT DEF ToSet, IsInjective
  <2>8. ASSUME NEW x \in ToSet(q) \ {t} PROVE x \in ToSet(r)
    <3> PICK i \in 1..Len(q) : x = q[i] /\ i # k
      BY SMT DEF ToSet
    <3>1. \E j \in 1..Len(r) : r[j] = x
      <4>1. CASE i < k
        BY <4>1, <2>5, SMT
      <4>2. CASE i > k
        <5>1. i - 1 \in 1..Len(r) /\ r[i - 1] = x
          BY <4>2, <2>5, SMT
        <5> QED
          BY <5>1
      <4> QED
        BY <4>1, <4>2, SMT
    <3> QED
      BY <3>1, <2>5 DEF ToSet
  <2> QED
    BY <2>5, <2>6, <2>7, <2>8 DEF r
<1> QED
  BY <1>1, <1>2

-----------------------------------------------------------------------------
(* Every step keeps the types. *)
LEMMA TypeStep ==
    ASSUME TypeOK, PossessionExact, QueueExact, [Next]_vars
    PROVE  TypeOK'
<1> USE TasksAssumption, CanBlockAssumption DEF TypeOK, PCs, lockVars, schedVars, boostVars
<1>1. ASSUME NEW t \in Tasks, LockCall(t) PROVE TypeOK'
  BY <1>1 DEF LockCall, Goto
<1>2. ASSUME NEW t \in Tasks, TryLockCall(t) PROVE TypeOK'
  BY <1>2 DEF TryLockCall, Goto
<1>3. ASSUME NEW t \in Tasks, TryLock(t) PROVE TypeOK'
  <2>1. CASE ~locked
    BY <2>1, <1>3 DEF TryLock
  <2>2. CASE locked /\ owner = t
    <3>1. held' = [held EXCEPT ![t] = @ + 1]
      BY <2>2, <1>3 DEF TryLock
    <3>2. held' \in [Tasks -> Nat]
      BY <3>1, <2>2, SMT
    <3>3. pc' \in [Tasks -> PCs] /\ depth' \in Nat
      BY <2>2, <1>3, SMT DEF TryLock
    <3> QED
      BY <3>2, <3>3, <1>3, <2>2 DEF TryLock
  <2>3. CASE locked /\ owner # t
    BY <2>3, <1>3 DEF TryLock
  <2> QED
    BY <2>1, <2>2, <2>3
<1>4. ASSUME NEW t \in Tasks, Unlock(t) PROVE TypeOK'
  <2>1. owner = t => held[t] \in Nat \ {0}
    BY SMT DEF PossessionExact
  <2>2. CASE ~locked \/ owner # t
    BY <2>2, <1>4, <2>1 DEF Unlock
  <2>3. CASE locked /\ owner = t /\ depth > 1
    <3>1. held' = [held EXCEPT ![t] = @ - 1]
      BY <2>3, <1>4 DEF Unlock
    <3>2. held' \in [Tasks -> Nat]
      BY <3>1, <2>3, <2>1, SMT
    <3> QED
      BY <3>1, <3>2, <2>3, <1>4, <2>1, SMT DEF Unlock
  <2>4. CASE locked /\ owner = t /\ depth <= 1
    <3>1. held' = [held EXCEPT ![t] = @ - 1]
      BY <2>4, <1>4 DEF Unlock
    <3>2. held' \in [Tasks -> Nat]
      BY <3>1, <2>4, <2>1, SMT
    <3>3. pc' = [pc EXCEPT ![t] = "release"]
      BY <2>4, <1>4, SMT DEF Unlock
    <3>4. pc' \in [Tasks -> PCs]
      BY <3>3
    <3>5. pi_boost' = [pi_boost EXCEPT ![t] = FALSE]
      BY <2>4, <1>4, SMT DEF Unlock
    <3>6. pi_boost' \in [Tasks -> BOOLEAN]
      BY <3>5
    <3>7. owner' = NoTask /\ depth' = 0 /\ UNCHANGED <<locked, schedVars, holder>>
      BY <2>4, <1>4, SMT DEF Unlock
    <3> QED
      BY <3>2, <3>4, <3>6, <3>7
  <2> QED
    BY <2>2, <2>3, <2>4, <1>4, SMT
<1>5. ASSUME NEW t \in Tasks, LockCas(t) PROVE TypeOK'
  BY <1>5 DEF LockCas, Goto
<1>6. ASSUME NEW t \in Tasks, TakeOwnership(t) PROVE TypeOK'
  BY <1>6, SMT DEF TakeOwnership, Goto
<1>7. ASSUME NEW t \in Tasks, LockRecursive(t) PROVE TypeOK'
  <2>1. CASE owner = t
    <3>1. held' = [held EXCEPT ![t] = @ + 1]
      BY <2>1, <1>7 DEF LockRecursive
    <3>2. held' \in [Tasks -> Nat]
      BY <3>1, <2>1, SMT
    <3> QED
      BY <3>1, <3>2, <2>1, <1>7, SMT DEF LockRecursive
  <2>2. CASE owner # t
    BY <2>2, <1>7 DEF LockRecursive
  <2> QED
    BY <2>1, <2>2
<1>8. ASSUME NEW t \in Tasks, LockSpin(t) PROVE TypeOK'
  BY <1>8 DEF LockSpin, Goto
<1>9. ASSUME NEW t \in Tasks, LockEnter(t) PROVE TypeOK'
  BY <1>9 DEF LockEnter, Goto
<1>10. ASSUME NEW t \in Tasks, LockEnqueue(t) PROVE TypeOK'
  <2>1. waitq_link(waiters, t) \in Seq(Tasks)
    BY SMT DEF waitq_link, Cons
  <2>2. CASE owner = t
    <3>1. held' = [held EXCEPT ![t] = @ + 1]
      BY <2>2, <1>10 DEF LockEnqueue
    <3>2. held' \in [Tasks -> Nat]
      BY <3>1, <2>2, <2>1, SMT
    <3>3. pc' \in [Tasks -> PCs] /\ depth' \in Nat /\ sched' = NoTask
      BY <2>2, <1>10, SMT DEF LockEnqueue
    <3>4. UNCHANGED <<locked, owner, waiters, tstate, queued, boostVars>>
      BY <2>2, <1>10 DEF LockEnqueue
    <3> QED
      BY <3>2, <3>3, <3>4
  <2>3. CASE owner # t
    BY <2>3, <1>10, <2>1 DEF LockEnqueue
  <2> QED
    BY <2>2, <2>3
<1>11. ASSUME NEW t \in Tasks, LockCasQueued(t) PROVE TypeOK'
  <2>1. waitq_unlink(waiters, t) \in Seq(Tasks)
    BY UnlinkProperties DEF QueueExact
  <2>2. CASE locked
    <3>1. holder' = [holder EXCEPT ![t] = owner]
      BY <2>2, <1>11 DEF LockCasQueued
    <3>2. pc' = [pc EXCEPT ![t] = "boost"]
      BY <2>2, <1>11 DEF LockCasQueued
    <3>3. UNCHANGED <<locked, waiters, tstate, queued, owner, depth, sched,
                      pi_boost, held>>
      BY <2>2, <1>11 DEF LockCasQueued
    <3> QED
      BY <3>1, <3>2, <3>3
  <2>3. CASE ~locked
    <3>1. waiters' \in Seq(Tasks) /\ locked' \in BOOLEAN
      BY <2>1, <2>3, <1>11 DEF LockCasQueued
    <3>2. queued' \in [Tasks -> BOOLEAN]
      BY <2>3, <1>11 DEF LockCasQueued
    <3>3. tstate' \in [Tasks -> {"READY", "RUNNING", "BLOCKED"}]
      BY <2>3, <1>11 DEF LockCasQueued
    <3>4. pc' \in [Tasks -> PCs]
      <4>1. pc' = [pc EXCEPT ![t] = "own2"]
        BY <2>3, <1>11 DEF LockCasQueued
      <4> QED
        BY <4>1
    <3>5. UNCHANGED <<holder, owner, depth, sched, pi_boost, held>>
      BY <2>3, <1>11 DEF LockCasQueued
    <3> QED
      BY <3>1, <3>2, <3>3, <3>4, <3>5
  <2> QED
    BY <2>2, <2>3
<1>12. ASSUME NEW t \in Tasks, TakeOwnershipQueued(t) PROVE TypeOK'
  BY <1>12, SMT DEF TakeOwnershipQueued, Goto
<1>13. ASSUME NEW t \in Tasks, LockBoost(t) PROVE TypeOK'
  BY <1>13 DEF LockBoost, Goto
<1>14. ASSUME NEW t \in Tasks, LockLeave(t) PROVE TypeOK'
  BY <1>14 DEF LockLeave, Goto
<1>15. ASSUME NEW t \in Tasks, LockAwake(t) PROVE TypeOK'
  BY <1>15 DEF LockAwake, Goto
<1>16. ASSUME NEW t \in Tasks, LockResume(t) PROVE TypeOK'
  BY <1>16 DEF LockResume, Goto
<1>17. ASSUME NEW t \in Tasks, UnlockRelease(t) PROVE TypeOK'
  BY <1>17 DEF UnlockRelease, Goto
<1>18. ASSUME NEW t \in Tasks, UnlockPeek(t) PROVE TypeOK'
  BY <1>18 DEF UnlockPeek, Goto
<1>19. ASSUME NEW t \in Tasks, UnlockWake(t) PROVE TypeOK'
  <2>1. CASE waiters = <<>>
    BY <2>1, <1>19 DEF UnlockWake, Goto
  <2>2. CASE waiters # <<>>
    <3>1. Head(waiters) \in Tasks /\ Tail(waiters) \in Seq(Tasks)
      BY <2>2, SMT
    <3> QED
      BY <2>2, <3>1, <1>19 DEF UnlockWake, Goto
  <2> QED
    BY <2>1, <2>2
<1>20. ASSUME NEW t \in Tasks, WakeTask(t) PROVE TypeOK'
  <2>1. waitq_unlink(waiters, t) \in Seq(Tasks)
    BY UnlinkProperties DEF QueueExact
  <2> QED
    BY <2>1, <1>20 DEF WakeTask
<1>21. CASE UNCHANGED vars
  BY <1>21 DEF vars
<1> QED
  BY <1>1, <1>2, <1>3, <1>4, <1>5, <1>6, <1>7, <1>8, <1>9, <1>10, <1>11,
     <1>12, <1>13, <1>14, <1>15, <1>16, <1>17, <1>18, <1>19, <1>20, <1>21
     DEF Next, LockStep, UnlockStep

(* Every step keeps possession exact. *)
LEMMA PossessionStep ==
    ASSUME TypeOK, PossessionExact, [Next]_vars
    PROVE  PossessionExact'
<1> USE TasksAssumption, CanBlockAssumption DEF TypeOK, PCs, PossessionExact, Possesses, lockVars, schedVars, boostVars
<1>1. ASSUME NEW t \in Tasks, LockCall(t) PROVE PossessionExact'
  BY <1>1, SMT DEF LockCall, Goto
<1>2. ASSUME NEW t \in Tasks, TryLockCall(t) PROVE PossessionExact'
  BY <1>2, SMT DEF TryLockCall, Goto
<1>3. ASSUME NEW t \in Tasks, TryLock(t) PROVE PossessionExact'
  BY <1>3, SMT DEF TryLock, Goto
<1>4. ASSUME NEW t \in Tasks, Unlock(t) PROVE PossessionExact'
  <2>1. CASE ~locked \/ owner # t
    BY <2>1, <1>4 DEF Unlock
  <2>2. CASE locked /\ owner = t /\ depth > 1
    <3>1. held' = [held EXCEPT ![t] = @ - 1]
      BY <2>2, <1>4 DEF Unlock
    <3>2. held' \in [Tasks -> Nat]
      BY <3>1, <2>2, SMT
    <3> QED
      BY <3>1, <3>2, <2>2, <1>4, SMT DEF Unlock
  <2>3. CASE locked /\ owner = t /\ depth <= 1
    <3>1. held' = [held EXCEPT ![t] = @ - 1]
      BY <2>3, <1>4 DEF Unlock
    <3>2. held' \in [Tasks -> Nat]
      BY <3>1, <2>3, SMT
    <3> QED
      BY <3>1, <3>2, <2>3, <1>4, SMT DEF Unlock
  <2> QED
    BY <2>1, <2>2, <2>3, SMT
<1>5. ASSUME NEW t \in Tasks, LockCas(t) PROVE PossessionExact'
  BY <1>5, SMT DEF LockCas, Goto
<1>6. ASSUME NEW t \in Tasks, TakeOwnership(t) PROVE PossessionExact'
  BY <1>6, SMT DEF TakeOwnership, Goto
<1>7. ASSUME NEW t \in Tasks, LockRecursive(t) PROVE PossessionExact'
  <2>1. CASE owner = t
    <3>1. held' = [held EXCEPT ![t] = @ + 1]
      BY <2>1, <1>7 DEF LockRecursive
    <3>2. held' \in [Tasks -> Nat]
      BY <3>1, <2>1, SMT
    <3> QED
      BY <3>1, <3>2, <2>1, <1>7, SMT DEF LockRecursive
  <2>2. CASE owner # t
    BY <2>2, <1>7, SMT DEF LockRecursive
  <2> QED
    BY <2>1, <2>2
<1>8. ASSUME NEW t \in Tasks, LockSpin(t) PROVE PossessionExact'
  BY <1>8, SMT DEF LockSpin, Goto
<1>9. ASSUME NEW t \in Tasks, LockEnter(t) PROVE PossessionExact'
  BY <1>9, SMT DEF LockEnter, Goto
<1>10. ASSUME NEW t \in Tasks, LockEnqueue(t) PROVE PossessionExact'
  BY <1>10, SMT DEF LockEnqueue, Goto
<1>11. ASSUME NEW t \in Tasks, LockCasQueued(t) PROVE PossessionExact'
  BY <1>11, SMT DEF LockCasQueued, Goto
<1>12. ASSUME NEW t \in Tasks, TakeOwnershipQueued(t) PROVE PossessionExact'
  BY <1>12, SMT DEF TakeOwnershipQueued, Goto
<1>13. ASSUME NEW t \in Tasks, LockBoost(t) PROVE PossessionExact'
  BY <1>13, SMT DEF LockBoost, Goto
<1>14. ASSUME NEW t \in Tasks, LockLeave(t) PROVE PossessionExact'
  BY <1>14, SMT DEF LockLeave, Goto
<1>15. ASSUME NEW t \in Tasks, LockAwake(t) PROVE PossessionExact'
  BY <1>15, SMT DEF LockAwake, Goto
<1>16. ASSUME NEW t \in Tasks, LockResume(t) PROVE PossessionExact'
  BY <1>16, SMT DEF LockResume, Goto
<1>17. ASSUME NEW t \in Tasks, UnlockRelease(t) PROVE PossessionExact'
  BY <1>17, SMT DEF UnlockRelease, Goto
<1>18. ASSUME NEW t \in Tasks, UnlockPeek(t) PROVE PossessionExact'
  BY <1>18, SMT DEF UnlockPeek, Goto
<1>19. ASSUME NEW t \in Tasks, UnlockWake(t) PROVE PossessionExact'
  BY <1>19, SMT DEF UnlockWake, Goto
<1>20. ASSUME NEW t \in Tasks, WakeTask(t) PROVE PossessionExact'
  BY <1>20 DEF WakeTask, Goto
<1>21. CASE UNCHANGED vars
  BY <1>21 DEF vars
<1> QED
  BY <1>1, <1>2, <1>3, <1>4, <1>5, <1>6, <1>7, <1>8, <1>9, <1>10, <1>11,
     <1>12, <1>13, <1>14, <1>15, <1>16, <1>17, <1>18, <1>19, <1>20, <1>21
     DEF Next, LockStep, UnlockStep

(* Every step keeps sched_lock exact. *)
LEMMA SchedLockStep ==
    ASSUME TypeOK, SchedLockExact, [Next]_vars
    PROVE  SchedLockExact'
<1> USE TasksAssumption, CanBlockAssumption DEF TypeOK, PCs, SchedLockExact, lockVars, schedVars, boostVars
<1>1. ASSUME NEW t \in Tasks, LockCall(t) PROVE SchedLockExact'
  BY <1>1 DEF LockCall, Goto
<1>2. ASSUME NEW t \in Tasks, TryLockCall(t) PROVE SchedLockExact'
  BY <1>2 DEF TryLockCall, Goto
<1>3. ASSUME NEW t \in Tasks, TryLock(t) PROVE SchedLockExact'
  BY <1>3 DEF TryLock, Goto
<1>4. ASSUME NEW t \in Tasks, Unlock(t) PROVE SchedLockExact'
  BY <1>4 DEF Unlock, Goto
<1>5. ASSUME NEW t \in Tasks, LockCas(t) PROVE SchedLockExact'
  BY <1>5 DEF LockCas, Goto
<1>6. ASSUME NEW t \in Tasks, TakeOwnership(t) PROVE SchedLockExact'
  BY <1>6 DEF TakeOwnership, Goto
<1>7. ASSUME NEW t \in Tasks, LockRecursive(t) PROVE SchedLockExact'
  BY <1>7, SMT DEF LockRecursive, Goto
<1>8. ASSUME NEW t \in Tasks, LockSpin(t) PROVE SchedLockExact'
  BY <1>8 DEF LockSpin, Goto
<1>9. ASSUME NEW t \in Tasks, LockEnter(t) PROVE SchedLockExact'
  BY <1>9 DEF LockEnter, Goto
<1>10. ASSUME NEW t \in Tasks, LockEnqueue(t) PROVE SchedLockExact'
  BY <1>10, SMT DEF LockEnqueue, Goto
<1>11. ASSUME NEW t \in Tasks, LockCasQueued(t) PROVE SchedLockExact'
  BY <1>11 DEF LockCasQueued, Goto
<1>12. ASSUME NEW t \in Tasks, TakeOwnershipQueued(t) PROVE SchedLockExact'
  BY <1>12 DEF TakeOwnershipQueued, Goto
<1>13. ASSUME NEW t \in Tasks, LockBoost(t) PROVE SchedLockExact'
  BY <1>13 DEF LockBoost, Goto
<1>14. ASSUME NEW t \in Tasks, LockLeave(t) PROVE SchedLockExact'
  BY <1>14 DEF LockLeave, Goto
<1>15. ASSUME NEW t \in Tasks, LockAwake(t) PROVE SchedLockExact'
  BY <1>15 DEF LockAwake, Goto
<1>16. ASSUME NEW t \in Tasks, LockResume(t) PROVE SchedLockExact'
  BY <1>16 DEF LockResume, Goto
<1>17. ASSUME NEW t \in Tasks, UnlockRelease(t) PROVE SchedLockExact'
  BY <1>17 DEF UnlockRelease, Goto
<1>18. ASSUME NEW t \in Tasks, UnlockPeek(t) PROVE SchedLockExact'
  BY <1>18 DEF UnlockPeek, Goto
<1>19. ASSUME NEW t \in Tasks, UnlockWake(t) PROVE SchedLockExact'
  BY <1>19 DEF UnlockWake, Goto
<1>20. ASSUME NEW t \in Tasks, WakeTask(t) PROVE SchedLockExact'
  BY <1>20 DEF WakeTask, Goto
<1>21. CASE UNCHANGED vars
  BY <1>21 DEF vars
<1> QED
  BY <1>1, <1>2, <1>3, <1>4, <1>5, <1>6, <1>7, <1>8, <1>9, <1>10, <1>11,
     <1>12, <1>13, <1>14, <1>15, <1>16, <1>17, <1>18, <1>19, <1>20, <1>21
     DEF Next, LockStep, UnlockStep

(* Every step keeps the wait queue, the flags and the task states in step. *)
LEMMA QueueStep ==
    ASSUME TypeOK, SchedLockExact, QueueExact, [Next]_vars
    PROVE  QueueExact'
<1> USE TasksAssumption DEF TypeOK, PCs, QueueExact, lockVars, schedVars, boostVars
<1>1. ASSUME NEW t \in Tasks, LockCall(t) PROVE QueueExact'
  BY <1>1 DEF LockCall, Goto
<1>2. ASSUME NEW t \in Tasks, TryLockCall(t) PROVE QueueExact'
  BY <1>2 DEF TryLockCall, Goto
<1>3. ASSUME NEW t \in Tasks, TryLock(t) PROVE QueueExact'
  BY <1>3 DEF TryLock, Goto
<1>4. ASSUME NEW t \in Tasks, Unlock(t) PROVE QueueExact'
  BY <1>4 DEF Unlock, Goto
<1>5. ASSUME NEW t \in Tasks, LockCas(t) PROVE QueueExact'
  BY <1>5, SMT DEF LockCas, Goto
<1>6. ASSUME NEW t \in Tasks, TakeOwnership(t) PROVE QueueExact'
  BY <1>6 DEF TakeOwnership, Goto
<1>7. ASSUME NEW t \in Tasks, LockRecursive(t) PROVE QueueExact'
  BY <1>7, SMT DEF LockRecursive, Goto
<1>8. ASSUME NEW t \in Tasks, LockSpin(t) PROVE QueueExact'
  BY <1>8 DEF LockSpin, Goto
<1>9. ASSUME NEW t \in Tasks, LockEnter(t) PROVE QueueExact'
  BY <1>9 DEF LockEnter, Goto
<1>10. ASSUME NEW t \in Tasks, LockEnqueue(t) PROVE QueueExact'
  <2>1. CASE owner = t
    BY <2>1, <1>10, SMT DEF LockEnqueue
  <2>2. CASE owner # t
    <3>1. pc[t] = "enq" /\ ~queued[t] /\ t \notin ToSet(waiters)
      BY <1>10 DEF LockEnqueue
    <3>2. waiters' = waitq_link(waiters, t)
      BY <3>1, <2>2, <1>10 DEF LockEnqueue
    <3>3. IsInjective(waiters') /\ ToSet(waiters') = ToSet(waiters) \cup {t}
      BY <3>1, <3>2, LinkProperties, SMT
    <3>4. /\ tstate' = [tstate EXCEPT ![t] = "BLOCKED"]
          /\ queued' = [queued EXCEPT ![t] = TRUE]
          /\ pc' = [pc EXCEPT ![t] = "cas2"]
      BY <2>2, <1>10 DEF LockEnqueue
    <3> QED
      BY <3>3, <3>4
  <2> QED
    BY <2>1, <2>2
<1>11. ASSUME NEW t \in Tasks, LockCasQueued(t) PROVE QueueExact'
  <2>1. CASE locked
    BY <2>1, <1>11, SMT DEF LockCasQueued
  <2>2. CASE ~locked
    <3>1. waiters' = waitq_unlink(waiters, t)
      BY <2>2, <1>11 DEF LockCasQueued
    <3>2. IsInjective(waiters') /\ ToSet(waiters') = ToSet(waiters) \ {t}
      BY <3>1, UnlinkProperties
    <3>3. /\ tstate' = [tstate EXCEPT ![t] = "RUNNING"]
          /\ queued' = [queued EXCEPT ![t] = FALSE]
          /\ pc' = [pc EXCEPT ![t] = "own2"]
      BY <2>2, <1>11 DEF LockCasQueued
    <3> QED
      BY <3>2, <3>3
  <2> QED
    BY <2>1, <2>2
<1>12. ASSUME NEW t \in Tasks, TakeOwnershipQueued(t) PROVE QueueExact'
  BY <1>12 DEF TakeOwnershipQueued, Goto
<1>13. ASSUME NEW t \in Tasks, LockBoost(t) PROVE QueueExact'
  BY <1>13 DEF LockBoost, Goto
<1>14. ASSUME NEW t \in Tasks, LockLeave(t) PROVE QueueExact'
  BY <1>14 DEF LockLeave, Goto
<1>15. ASSUME NEW t \in Tasks, LockAwake(t) PROVE QueueExact'
  BY <1>15 DEF LockAwake, Goto
<1>16. ASSUME NEW t \in Tasks, LockResume(t) PROVE QueueExact'
  BY <1>16, SMT DEF LockResume, Goto
<1>17. ASSUME NEW t \in Tasks, UnlockRelease(t) PROVE QueueExact'
  BY <1>17 DEF UnlockRelease, Goto
<1>18. ASSUME NEW t \in Tasks, UnlockPeek(t) PROVE QueueExact'
  BY <1>18 DEF UnlockPeek, Goto
<1>19. ASSUME NEW t \in Tasks, UnlockWake(t) PROVE QueueExact'
  <2>1. CASE waiters = <<>>
    BY <2>1, <1>19, SMT DEF UnlockWake, Goto
  <2>2. CASE waiters # <<>>
    <3> DEFINE w == Head(waiters)
    <3>1. w \in Tasks /\ w \in ToSet(waiters)
      BY <2>2, PopProperties
    <3>2. waiters' = Tail(waiters)
      BY <2>2, <1>19 DEF UnlockWake
    <3>3. IsInjective(waiters') /\ ToSet(waiters') = ToSet(waiters) \ {w}
      BY <2>2, <3>2, PopProperties
    <3>4. tstate[w] = "BLOCKED" /\ pc[w] = "asleep"
      BY <3>1, <1>19 DEF UnlockWake, SchedLockExact
    <3>5. /\ tstate' = [tstate EXCEPT ![w] = "READY"]
          /\ queued' = [queued EXCEPT ![w] = FALSE]
          /\ pc' = [pc EXCEPT ![t] = "out"]
          /\ pc[t] = "wake"
      BY <2>2, <3>4, <1>19 DEF UnlockWake, Goto
    <3> HIDE DEF w
    <3> QED
      BY <3>1, <3>3, <3>4, <3>5
  <2> QED
    BY <2>1, <2>2
<1>20. ASSUME NEW t \in Tasks, WakeTask(t) PROVE QueueExact'
  <2>1. waiters' = waitq_unlink(waiters, t)
    BY <1>20 DEF WakeTask
  <2>2. IsInjective(waiters') /\ ToSet(waiters') = ToSet(waiters) \ {t}
    BY <2>1, UnlinkProperties
  <2>3. /\ tstate' = [tstate EXCEPT ![t] = "READY"]
        /\ queued' = [queued EXCEPT ![t] = FALSE]
        /\ pc' = pc /\ tstate[t] = "BLOCKED" /\ sched = NoTask
    BY <1>20 DEF WakeTask
  <2>4. pc[t] \notin {"cas2", "boost", "leave"}
    BY <2>3 DEF SchedLockExact
  <2> QED
    BY <2>2, <2>3, <2>4
<1>21. CASE UNCHANGED vars
  BY <1>21 DEF vars
<1> QED
  BY <1>1, <1>2, <1>3, <1>4, <1>5, <1>6, <1>7, <1>8, <1>9, <1>10, <1>11,
     <1>12, <1>13, <1>14, <1>15, <1>16, <1>17, <1>18, <1>19, <1>20, <1>21
     DEF Next, LockStep, UnlockStep

(* Every step that ends a rescuer's errand takes the mutex, wakes a sleeper or finds none. *)
LEMMA NoLostWakeupStep ==
    ASSUME TypeOK, PossessionExact, SchedLockExact, QueueExact,
           NoLostWakeup, [Next]_vars
    PROVE  NoLostWakeup'
<1> USE TasksAssumption DEF TypeOK, PCs, NoLostWakeup, Rescuer, lockVars, schedVars, boostVars
<1>1. ASSUME NEW t \in Tasks, LockCall(t) PROVE NoLostWakeup'
  BY <1>1 DEF LockCall, Goto
<1>2. ASSUME NEW t \in Tasks, TryLockCall(t) PROVE NoLostWakeup'
  BY <1>2 DEF TryLockCall, Goto
<1>3. ASSUME NEW t \in Tasks, TryLock(t) PROVE NoLostWakeup'
  BY <1>3 DEF TryLock, Goto
<1>4. ASSUME NEW t \in Tasks, Unlock(t) PROVE NoLostWakeup'
  BY <1>4 DEF Unlock, Goto
<1>5. ASSUME NEW t \in Tasks, LockCas(t) PROVE NoLostWakeup'
  BY <1>5 DEF LockCas, Goto
<1>6. ASSUME NEW t \in Tasks, TakeOwnership(t) PROVE NoLostWakeup'
  BY <1>6 DEF TakeOwnership, Goto
<1>7. ASSUME NEW t \in Tasks, LockRecursive(t) PROVE NoLostWakeup'
  <2>1. CASE owner = t
    <3>1. locked' = TRUE
      BY <2>1, <1>7 DEF LockRecursive, PossessionExact, Possesses
    <3> QED
      BY <3>1
  <2>2. CASE owner # t
    <3>1. pc' = [pc EXCEPT ![t] = "spin"]
      BY <2>2, <1>7 DEF LockRecursive
    <3>2. pc'[t] = "spin"
      BY <3>1
    <3> QED
      BY <3>2
  <2> QED
    BY <2>1, <2>2
<1>8. ASSUME NEW t \in Tasks, LockSpin(t) PROVE NoLostWakeup'
  BY <1>8 DEF LockSpin, Goto
<1>9. ASSUME NEW t \in Tasks, LockEnter(t) PROVE NoLostWakeup'
  BY <1>9 DEF LockEnter, Goto
<1>10. ASSUME NEW t \in Tasks, LockEnqueue(t) PROVE NoLostWakeup'
  <2>1. CASE owner = t
    <3>1. locked' = TRUE
      BY <2>1, <1>10 DEF LockEnqueue, PossessionExact, Possesses
    <3> QED
      BY <3>1
  <2>2. CASE owner # t
    <3>1. pc' = [pc EXCEPT ![t] = "cas2"]
      BY <2>2, <1>10 DEF LockEnqueue
    <3>2. pc'[t] = "cas2"
      BY <3>1
    <3> QED
      BY <3>2
  <2> QED
    BY <2>1, <2>2
<1>11. ASSUME NEW t \in Tasks, LockCasQueued(t) PROVE NoLostWakeup'
  BY <1>11 DEF LockCasQueued, Goto
<1>12. ASSUME NEW t \in Tasks, TakeOwnershipQueued(t) PROVE NoLostWakeup'
  BY <1>12 DEF TakeOwnershipQueued, Goto
<1>13. ASSUME NEW t \in Tasks, LockBoost(t) PROVE NoLostWakeup'
  BY <1>13 DEF LockBoost, Goto
<1>14. ASSUME NEW t \in Tasks, LockLeave(t) PROVE NoLostWakeup'
  BY <1>14 DEF LockLeave, Goto
<1>15. ASSUME NEW t \in Tasks, LockAwake(t) PROVE NoLostWakeup'
  BY <1>15 DEF LockAwake, Goto
<1>16. ASSUME NEW t \in Tasks, LockResume(t) PROVE NoLostWakeup'
  BY <1>16 DEF LockResume, Goto
<1>17. ASSUME NEW t \in Tasks, UnlockRelease(t) PROVE NoLostWakeup'
  BY <1>17 DEF UnlockRelease, Goto
<1>18. ASSUME NEW t \in Tasks, UnlockPeek(t) PROVE NoLostWakeup'
  BY <1>18 DEF UnlockPeek, Goto
<1>19. ASSUME NEW t \in Tasks, UnlockWake(t) PROVE NoLostWakeup'
  <2>1. CASE waiters = <<>>
    BY <2>1, <1>19 DEF UnlockWake
  <2>2. CASE waiters # <<>>
    <3> DEFINE w == Head(waiters)
    <3>1. w \in Tasks /\ w \in ToSet(waiters)
      BY <2>2, PopProperties DEF QueueExact
    <3>2. tstate[w] = "BLOCKED" /\ pc[w] = "asleep" /\ w # t
      BY <3>1, <1>19 DEF UnlockWake, Goto, SchedLockExact, QueueExact
    <3>3. /\ tstate' = [tstate EXCEPT ![w] = "READY"]
          /\ pc' = [pc EXCEPT ![t] = "out"]
      BY <2>2, <3>2, <1>19 DEF UnlockWake, Goto
    <3> HIDE DEF w
    <3>4. pc'[w] = "asleep" /\ tstate'[w] # "BLOCKED"
      BY <3>1, <3>2, <3>3
    <3> QED
      BY <3>1, <3>4
  <2> QED
    BY <2>1, <2>2
<1>20. ASSUME NEW t \in Tasks, WakeTask(t) PROVE NoLostWakeup'
  <2>1. pc[t] = "asleep"
    BY <1>20 DEF WakeTask, SchedLockExact, QueueExact
  <2>2. pc'[t] = "asleep" /\ tstate'[t] # "BLOCKED"
    BY <2>1, <1>20 DEF WakeTask
  <2> QED
    BY <2>2
<1>21. CASE UNCHANGED vars
  BY <1>21 DEF vars
<1> QED
  BY <1>1, <1>2, <1>3, <1>4, <1>5, <1>6, <1>7, <1>8, <1>9, <1>10, <1>11,
     <1>12, <1>13, <1>14, <1>15, <1>16, <1>17, <1>18, <1>19, <1>20, <1>21
     DEF Next, LockStep, UnlockStep

(* Init establishes the inductive invariant. *)
LEMMA InitIInv == Init => IInv
<1> SUFFICES ASSUME Init PROVE IInv
  OBVIOUS
<1> USE TasksAssumption DEF Init
<1>1. TypeOK
  <2>1. waiters \in Seq(Tasks)
    BY SMT
  <2>2. pc \in [Tasks -> PCs]
    BY DEF PCs
  <2>3. queued \in [Tasks -> BOOLEAN] /\ pi_boost \in [Tasks -> BOOLEAN]
    OBVIOUS
  <2>4. held \in [Tasks -> Nat] /\ holder \in [Tasks -> Tasks \cup {NoTask}]
    OBVIOUS
  <2>5. tstate \in [Tasks -> {"READY", "RUNNING", "BLOCKED"}]
    OBVIOUS
  <2> QED
    BY <2>1, <2>2, <2>3, <2>4, <2>5 DEF TypeOK
<1>2. PossessionExact
  BY SMT DEF PossessionExact, Possesses
<1>3. SchedLockExact
  BY DEF SchedLockExact
<1>4. QueueExact
  BY SMT DEF QueueExact, IsInjective, ToSet
<1>5. NoLostWakeup
  BY DEF NoLostWakeup
<1> QED
  BY <1>1, <1>2, <1>3, <1>4, <1>5 DEF IInv

(* The inductive invariant holds throughout. *)
THEOREM IInvHolds == Spec => []IInv
<1>1. Init => IInv
  BY InitIInv
<1>2. IInv /\ [Next]_vars => IInv'
  <2> SUFFICES ASSUME IInv, [Next]_vars PROVE IInv'
    OBVIOUS
  <2> QED
    BY TypeStep, PossessionStep, SchedLockStep, QueueStep, NoLostWakeupStep
       DEF IInv
<1> QED
  BY <1>1, <1>2, PTL DEF Spec

(* mutex_lock, mutex_trylock and mutex_unlock keep every word of the mutex *)
(* and of its waiters well typed.                                          *)
THEOREM TypeCorrect == Spec => []TypeOK
<1>1. IInv => TypeOK
  BY DEF IInv
<1> QED
  BY <1>1, IInvHolds, PTL

(* However many tasks contend, through mutex_lock or mutex_trylock, at     *)
(* most one of them holds the mutex.                                       *)
THEOREM MutualExclusionHolds == Spec => []MutualExclusion
<1>1. IInv => MutualExclusion
  BY DEF IInv, PossessionExact, Possesses, MutualExclusion
<1> QED
  BY <1>1, IInvHolds, PTL

(* m->owner names the holder and m->depth counts its acquisitions, so that *)
(* mutex_unlock releases the mutex on the outermost call and on no other.  *)
THEOREM OwnerAndDepthHold == Spec => []OwnerAndDepthExact
<1>1. IInv => OwnerAndDepthExact
  BY DEF IInv, PossessionExact, Possesses, OwnerAndDepthExact
<1> QED
  BY <1>1, IInvHolds, PTL

(* mutex_unlock never leaves sleepers behind on a free mutex without some  *)
(* task on its way to wake one or to take the mutex itself.                *)
THEOREM NoLostWakeupHolds == Spec => []NoLostWakeup
<1>1. IInv => NoLostWakeup
  BY DEF IInv
<1> QED
  BY <1>1, IInvHolds, PTL

(* The wait queue holds every task that sleeps in mutex_lock, once. *)
THEOREM SleepersQueuedHolds == Spec => []SleepersQueued
<1>1. IInv => SleepersQueued
  BY DEF IInv, QueueExact, SleepersQueued
<1> QED
  BY <1>1, IInvHolds, PTL
==============================================================================
