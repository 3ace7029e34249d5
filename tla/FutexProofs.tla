---------------------------- MODULE FutexProofs ----------------------------
(***************************************************************************)
(* Proofs about Futex, for any sets of tasks, keys, values and bits.       *)
(***************************************************************************)
EXTENDS Futex, TLAPS

(* Most steps are first-order reasoning, which Zenon does; the steps that  *)
(* do arithmetic or compare functions name SMT.                            *)
USE Zenon

(* What the steps of a wait know of it.  While the task can be found by a  *)
(* key no wake has counted it; once it cannot, a wake or the sender of a   *)
(* signal is the reason, and timed_out remembers which.                    *)
CreditExact ==
    \A t \in Tasks :
        /\ pc[t] # "done" => result[t] = "none"
        /\ pc[t] \in {"out", "stored", "lock"} => ~credited[t]
        /\ pc[t] \in {"asleep", "resume"} =>
              IF waiting_queue[t] # NoKey THEN ~credited[t]
                                          ELSE credited[t] \/ interrupted[t]
        /\ pc[t] = "result" =>
              IF timed_out[t] THEN ~credited[t] ELSE credited[t] \/ interrupted[t]

(* A blocked task that was not moved waits on the key of its call, with a  *)
(* bitset that a wake with all bits meets; a task about to wake has a key. *)
KeyExact ==
    \A t \in Tasks :
        /\ pc[t] \in {"lock", "asleep"} => arg[t].bitset # {}
        /\ tstate[t] = "BLOCKED" /\ ~requeued[t] => waiting_queue[t] = arg[t].key
        /\ pc[t] = "stored" <=> stored[t] # NoKey

IInv ==
    /\ TypeOK
    /\ WaitConfined
    /\ SleeperFindable
    /\ ReturnHonest
    /\ CreditExact
    /\ KeyExact
    /\ NoStrandedSleeper

-----------------------------------------------------------------------------
(* NoCall is a call. *)
LEMMA NoCallType == NoCall \in Args
<1>1. PICK k \in Keys, v \in Values, o \in Timeouts : TRUE
  BY SomeCall
<1>2. [key |-> k, expected |-> v, bitset |-> {}, timeout |-> o] \in Args
  BY DEF Args
<1> QED
  BY <1>2 DEF NoCall

(* The tasks that a wake finds wait on its key. *)
LEMMA WaitersProperties ==
    ASSUME NEW k, NEW bits
    PROVE  /\ Waiters(k, bits) \subseteq Tasks
           /\ \A t \in Waiters(k, bits) : waiting_queue[t] = k
BY DEF Waiters

(* A choice of at most n tasks of a set is a subset of it. *)
LEMMA UpToSubset ==
    ASSUME NEW n, NEW S, NEW W \in UpTo(n, S)
    PROVE  W \subseteq S
BY DEF UpTo

(* Taking some waiters of a key out of their wait and moving others to     *)
(* another key, as wake and requeue do, keeps every part of the invariant. *)
(* What is left to the caller is the word: the waiters of a word just      *)
(* stored must all be taken.                                               *)
LEMMA WakeAndMoveKeeps ==
    ASSUME IInv,
           NEW W \in SUBSET Tasks, NEW R \in SUBSET Tasks, NEW k2 \in Keys \cup {NoKey},
           R = {} \/ k2 \in Keys,
           W \cap R = {},
           \A t \in W \cup R : waiting_queue[t] \in Keys,
           WakeAndMove(W, R, k2),
           pc' \in [Tasks -> {"out", "stored", "lock", "asleep", "resume", "result", "done"}],
           \A t \in Tasks :
               \/ pc'[t] = pc[t] /\ stored'[t] = stored[t]
               \/ pc[t] = "stored" /\ pc'[t] = "out" /\ stored'[t] = NoKey,
           stored' \in [Tasks -> Keys \cup {NoKey}],
           UNCHANGED <<word, pending, sender, arg, timed_out, result>>
    PROVE  /\ TypeOK' /\ WaitConfined' /\ SleeperFindable' /\ ReturnHonest'
           /\ CreditExact' /\ KeyExact'
<1> USE KeysAssumption
<1>1. TypeOK'
  BY DEF IInv, TypeOK, WakeAndMove
<1>2. WaitConfined'
  BY SMT DEF IInv, TypeOK, WakeAndMove, WaitConfined
<1>3. SleeperFindable'
  BY SMT DEF IInv, TypeOK, WakeAndMove, SleeperFindable
<1>4. ReturnHonest'
  BY SMT DEF IInv, TypeOK, WakeAndMove, ReturnHonest, CreditExact, WaitConfined
<1>5. CreditExact'
  <2>1. \A t \in W \cup R : waiting_queue[t] # NoKey /\ pc[t] \in {"asleep", "resume"}
    BY DEF IInv, WaitConfined
  <2>2. \A t \in Tasks : /\ credited'[t] <=> credited[t] \/ t \in W
                         /\ interrupted'[t] <=> interrupted[t]
                         /\ timed_out'[t] <=> timed_out[t]
                         /\ result'[t] = result[t]
    BY DEF WakeAndMove
  <2>3. \A t \in Tasks : /\ t \in W => waiting_queue'[t] = NoKey
                         /\ t \in R => waiting_queue'[t] # NoKey
                         /\ t \notin W \cup R => waiting_queue'[t] = waiting_queue[t]
    BY DEF WakeAndMove
  <2> QED
    BY <2>1, <2>2, <2>3, SMT DEF IInv, CreditExact
<1>6. KeyExact'
  BY DEF IInv, TypeOK, WakeAndMove, KeyExact
<1> QED
  BY <1>1, <1>2, <1>3, <1>4, <1>5, <1>6

-----------------------------------------------------------------------------
LEMMA InitIInv == Init => IInv
<1> SUFFICES ASSUME Init PROVE IInv
  OBVIOUS
<1>1. TypeOK
  BY NoCallType DEF Init, TypeOK
<1> QED
  BY <1>1 DEF Init, IInv, WaitConfined, SleeperFindable, ReturnHonest, CreditExact, KeyExact,
         NoStrandedSleeper

(* Every step of the system keeps the inductive invariant. *)
LEMMA NextIInv == IInv /\ [Next]_vars => IInv'
<1> SUFFICES ASSUME IInv, [Next]_vars PROVE IInv'
  OBVIOUS
<1> USE KeysAssumption, SignalledAssumption DEF userVars, waitVars, sigVars, callVars, ghostVars
<1> TypeOK
  BY DEF IInv
<1>1. ASSUME NEW t \in Tasks, WaitCall(t) PROVE IInv'
  <2>1. TypeOK'
    BY <1>1, SMT DEF TypeOK, Args, WaitCall, Goto
  <2>2. WaitConfined'
    BY <1>1 DEF IInv, TypeOK, WaitConfined, WaitCall, Goto
  <2>3. SleeperFindable'
    BY <1>1, SMT DEF IInv, TypeOK, SleeperFindable, WaitCall, Goto
  <2>4. ReturnHonest'
    BY <1>1 DEF IInv, TypeOK, ReturnHonest, CreditExact, WaitCall, Goto
  <2>5. CreditExact'
    BY <1>1, SMT DEF IInv, TypeOK, CreditExact, WaitConfined, SleeperFindable, WaitCall, Goto
  <2>6. KeyExact'
    <3>1. PICK a \in Args : a.bitset # {} /\ arg' = [arg EXCEPT ![t] = a]
      BY <1>1 DEF WaitCall
    <3>2. /\ pc' = [pc EXCEPT ![t] = "lock"]
          /\ pc[t] = "out"
          /\ UNCHANGED <<tstate, requeued, waiting_queue, stored>>
      BY <1>1 DEF WaitCall, Goto
    <3> QED
      BY <3>1, <3>2, SMT DEF IInv, TypeOK, KeyExact, SleeperFindable
  <2>7. NoStrandedSleeper'
    BY <1>1, SMT DEF IInv, TypeOK, NoStrandedSleeper, KeyExact, SleeperFindable, WaitCall, Goto
  <2> QED
    BY <2>1, <2>2, <2>3, <2>4, <2>5, <2>6, <2>7 DEF IInv
<1>2. ASSUME NEW t \in Tasks, WaitRefused(t) PROVE IInv'
  <2>1. TypeOK'
    BY <1>2, NoCallType DEF TypeOK, WaitRefused, Goto
  <2>2. WaitConfined'
    BY <1>2, SMT DEF IInv, TypeOK, WaitConfined, WaitRefused, Goto
  <2>3. SleeperFindable'
    BY <1>2, SMT DEF IInv, TypeOK, SleeperFindable, WaitRefused, Goto
  <2>4. ReturnHonest'
    BY <1>2, SMT DEF IInv, TypeOK, ReturnHonest, CreditExact, WaitRefused, Goto
  <2>5. CreditExact'
    BY <1>2, SMT DEF IInv, TypeOK, CreditExact, WaitConfined, SleeperFindable, WaitRefused, Goto
  <2>6. KeyExact'
    BY <1>2, SMT DEF IInv, TypeOK, KeyExact, SleeperFindable, WaitRefused, Goto
  <2>7. NoStrandedSleeper'
    BY <1>2, SMT DEF IInv, TypeOK, NoStrandedSleeper, KeyExact, SleeperFindable, WaitRefused, Goto
  <2> QED
    BY <2>1, <2>2, <2>3, <2>4, <2>5, <2>6, <2>7 DEF IInv
<1>3. ASSUME NEW t \in Tasks, WaitBlock(t) PROVE IInv'
  <2>1. TypeOK'
    BY <1>3 DEF TypeOK, Args, WaitBlock, Goto
  <2>2. WaitConfined'
    BY <1>3, SMT DEF IInv, TypeOK, WaitConfined, WaitBlock, Goto
  <2>3. SleeperFindable'
    <3>1. arg[t].key \in Keys
      BY DEF TypeOK, Args
    <3>2. in_sleep_queue'[t] <=> arg[t].timeout = "finite"
      BY <1>3 DEF TypeOK, WaitBlock
    <3>3. \A u \in Tasks \ {t} : in_sleep_queue'[u] = in_sleep_queue[u]
      BY <1>3 DEF TypeOK, WaitBlock
    <3>4. /\ pc' = [pc EXCEPT ![t] = "asleep"]
          /\ tstate' = [tstate EXCEPT ![t] = "BLOCKED"]
          /\ waiting_queue' = [waiting_queue EXCEPT ![t] = arg[t].key]
          /\ futex_bitset' = [futex_bitset EXCEPT ![t] = arg[t].bitset]
          /\ arg' = arg
      BY <1>3 DEF WaitBlock, Goto
    <3>5. \A u \in Tasks \ {t} :
              tstate'[u] = "BLOCKED" =>
                  /\ pc'[u] = "asleep"
                  /\ waiting_queue'[u] # NoKey
                  /\ futex_bitset'[u] = arg'[u].bitset
                  /\ in_sleep_queue'[u] <=> arg'[u].timeout = "finite"
      BY <3>3, <3>4, SMT DEF IInv, TypeOK, SleeperFindable
    <3>6. /\ pc'[t] = "asleep"
          /\ waiting_queue'[t] # NoKey
          /\ futex_bitset'[t] = arg'[t].bitset
          /\ in_sleep_queue'[t] <=> arg'[t].timeout = "finite"
      BY <3>1, <3>2, <3>4 DEF TypeOK
    <3> QED
      BY <3>5, <3>6 DEF SleeperFindable
  <2>4. ReturnHonest'
    BY <1>3 DEF IInv, TypeOK, ReturnHonest, CreditExact, WaitBlock, Goto
  <2>5. CreditExact'
    <3>1. arg[t].key # NoKey
      BY SMT DEF TypeOK, Args
    <3> QED
      BY <1>3, <3>1, SMT DEF IInv, TypeOK, CreditExact, WaitBlock, Goto
  <2>6. KeyExact'
    BY <1>3, SMT DEF IInv, TypeOK, KeyExact, WaitBlock, Goto
  <2>7. NoStrandedSleeper'
    BY <1>3, SMT DEF IInv, TypeOK, NoStrandedSleeper, KeyExact, SleeperFindable, WaitBlock, Goto
  <2> QED
    BY <2>1, <2>2, <2>3, <2>4, <2>5, <2>6, <2>7 DEF IInv
<1>4. ASSUME NEW t \in Tasks, WaitAwake(t) PROVE IInv'
  <2>1. TypeOK'
    BY <1>4, SMT DEF TypeOK, Args, WaitAwake, Goto
  <2>2. WaitConfined'
    BY <1>4 DEF IInv, TypeOK, WaitConfined, WaitAwake, Goto
  <2>3. SleeperFindable'
    BY <1>4, SMT DEF IInv, TypeOK, SleeperFindable, WaitAwake, Goto
  <2>4. ReturnHonest'
    BY <1>4 DEF IInv, TypeOK, ReturnHonest, CreditExact, WaitAwake, Goto
  <2>5. CreditExact'
    BY <1>4, SMT DEF IInv, TypeOK, CreditExact, WaitConfined, SleeperFindable, WaitAwake, Goto
  <2>6. KeyExact'
    BY <1>4, SMT DEF IInv, TypeOK, KeyExact, WaitAwake, Goto
  <2>7. NoStrandedSleeper'
    BY <1>4, SMT DEF IInv, TypeOK, NoStrandedSleeper, KeyExact, SleeperFindable, WaitAwake, Goto
  <2> QED
    BY <2>1, <2>2, <2>3, <2>4, <2>5, <2>6, <2>7 DEF IInv
<1>5. ASSUME NEW t \in Tasks, WaitResume(t) PROVE IInv'
  <2>1. TypeOK'
    BY <1>5, NoCallType DEF TypeOK, WaitResume, Goto
  <2>2. WaitConfined'
    BY <1>5 DEF IInv, TypeOK, WaitConfined, WaitResume, Goto
  <2>3. SleeperFindable'
    BY <1>5, SMT DEF IInv, TypeOK, SleeperFindable, WaitResume, Goto
  <2>4. ReturnHonest'
    BY <1>5 DEF IInv, TypeOK, ReturnHonest, CreditExact, WaitResume, Goto
  <2>5. CreditExact'
    <3>1. timed_out'[t] <=> waiting_queue[t] # NoKey
      BY <1>5 DEF TypeOK, WaitResume
    <3>2. \A u \in Tasks \ {t} : /\ timed_out'[u] = timed_out[u]
                                 /\ waiting_queue'[u] = waiting_queue[u]
                                 /\ pc'[u] = pc[u]
      BY <1>5 DEF TypeOK, WaitResume, Goto
    <3>3. /\ pc[t] = "resume"
          /\ pc'[t] = "result"
          /\ UNCHANGED <<result, credited, interrupted>>
      BY <1>5 DEF TypeOK, WaitResume, Goto
    <3> QED
      BY <3>1, <3>2, <3>3 DEF IInv, CreditExact
  <2>6. KeyExact'
    BY <1>5, SMT DEF IInv, TypeOK, KeyExact, SleeperFindable, WaitResume, Goto
  <2>7. NoStrandedSleeper'
    BY <1>5, SMT DEF IInv, TypeOK, NoStrandedSleeper, KeyExact, SleeperFindable, WaitResume, Goto
  <2> QED
    BY <2>1, <2>2, <2>3, <2>4, <2>5, <2>6, <2>7 DEF IInv
<1>6. ASSUME NEW t \in Tasks, WaitReturn(t) PROVE IInv'
  <2>1. TypeOK'
    BY <1>6 DEF TypeOK, Args, WaitReturn, Goto
  <2>2. WaitConfined'
    BY <1>6 DEF IInv, TypeOK, WaitConfined, WaitReturn, Goto
  <2>3. SleeperFindable'
    BY <1>6, SMT DEF IInv, TypeOK, SleeperFindable, WaitReturn, Goto
  <2>4. ReturnHonest'
    BY <1>6, SMT DEF IInv, TypeOK, ReturnHonest, CreditExact, WaitReturn, Goto
  <2>5. CreditExact'
    BY <1>6, SMT DEF IInv, TypeOK, CreditExact, WaitConfined, SleeperFindable, WaitReturn, Goto
  <2>6. KeyExact'
    BY <1>6 DEF IInv, TypeOK, KeyExact, WaitReturn, Goto
  <2>7. NoStrandedSleeper'
    BY <1>6, SMT DEF IInv, TypeOK, NoStrandedSleeper, KeyExact, SleeperFindable, WaitReturn, Goto
  <2> QED
    BY <2>1, <2>2, <2>3, <2>4, <2>5, <2>6, <2>7 DEF IInv
<1>7. ASSUME NEW t \in Tasks, Leave(t) PROVE IInv'
  <2>1. TypeOK'
    <3>1. pending' \in [Tasks -> BOOLEAN]
      BY <1>7 DEF TypeOK, Leave
    <3>2. /\ pc' = [pc EXCEPT ![t] = "out"]
          /\ timed_out' = [timed_out EXCEPT ![t] = FALSE]
          /\ result' = [result EXCEPT ![t] = "none"]
          /\ credited' = [credited EXCEPT ![t] = FALSE]
          /\ interrupted' = [interrupted EXCEPT ![t] = FALSE]
          /\ requeued' = [requeued EXCEPT ![t] = FALSE]
          /\ UNCHANGED <<word, stored, tstate, waiting_queue, futex_bitset, in_sleep_queue,
                         sender, arg>>
      BY <1>7 DEF Leave, Goto
    <3> QED
      BY <3>1, <3>2 DEF TypeOK
  <2>2. WaitConfined'
    BY <1>7 DEF IInv, TypeOK, WaitConfined, Leave, Goto
  <2>3. SleeperFindable'
    BY <1>7, SMT DEF IInv, TypeOK, SleeperFindable, Leave, Goto
  <2>4. ReturnHonest'
    BY <1>7, SMT DEF IInv, TypeOK, ReturnHonest, CreditExact, Leave, Goto
  <2>5. CreditExact'
    BY <1>7, SMT DEF IInv, TypeOK, CreditExact, WaitConfined, SleeperFindable, Leave, Goto
  <2>6. KeyExact'
    BY <1>7, SMT DEF IInv, TypeOK, KeyExact, SleeperFindable, Leave, Goto
  <2>7. NoStrandedSleeper'
    BY <1>7, SMT DEF IInv, TypeOK, NoStrandedSleeper, KeyExact, SleeperFindable, Leave, Goto
  <2> QED
    BY <2>1, <2>2, <2>3, <2>4, <2>5, <2>6, <2>7 DEF IInv
<1>8. ASSUME NEW t \in Tasks, Store(t) PROVE IInv'
  <2>1. TypeOK'
    BY <1>8, SMT DEF TypeOK, Args, Store, Goto
  <2>2. WaitConfined'
    BY <1>8 DEF IInv, TypeOK, WaitConfined, Store, Goto
  <2>3. SleeperFindable'
    BY <1>8, SMT DEF IInv, TypeOK, SleeperFindable, Store, Goto
  <2>4. ReturnHonest'
    BY <1>8 DEF IInv, TypeOK, ReturnHonest, CreditExact, Store, Goto
  <2>5. CreditExact'
    BY <1>8, SMT DEF IInv, TypeOK, CreditExact, WaitConfined, SleeperFindable, Store, Goto
  <2>6. KeyExact'
    BY <1>8, SMT DEF IInv, TypeOK, KeyExact, Store, Goto
  <2>7. NoStrandedSleeper'
    <3>1. PICK k \in Keys, v \in Values : /\ word' = [word EXCEPT ![k] = v]
                                          /\ stored' = [stored EXCEPT ![t] = k]
      BY <1>8 DEF Store
    <3>2. stored[t] = NoKey
      BY <1>8 DEF IInv, KeyExact, Store, Goto
    <3>3. \A u \in Tasks : arg[u].key \in Keys
      BY DEF TypeOK, Args
    <3>4. UNCHANGED <<tstate, requeued, arg>>
      BY <1>8 DEF Store
    <3> QED
      BY <3>1, <3>2, <3>3, <3>4 DEF IInv, TypeOK, NoStrandedSleeper
  <2> QED
    BY <2>1, <2>2, <2>3, <2>4, <2>5, <2>6, <2>7 DEF IInv
<1>9. ASSUME NEW t \in Tasks, Timeout(t) PROVE IInv'
  <2>1. TypeOK'
    BY <1>9 DEF TypeOK, Args, Timeout
  <2>2. WaitConfined'
    BY <1>9 DEF IInv, TypeOK, WaitConfined, Timeout
  <2>3. SleeperFindable'
    BY <1>9, SMT DEF IInv, TypeOK, SleeperFindable, Timeout
  <2>4. ReturnHonest'
    BY <1>9 DEF IInv, TypeOK, ReturnHonest, CreditExact, Timeout
  <2>5. CreditExact'
    BY <1>9 DEF IInv, TypeOK, CreditExact, WaitConfined, SleeperFindable, Timeout
  <2>6. KeyExact'
    BY <1>9 DEF IInv, TypeOK, KeyExact, Timeout
  <2>7. NoStrandedSleeper'
    BY <1>9, SMT DEF IInv, TypeOK, NoStrandedSleeper, KeyExact, SleeperFindable, Timeout
  <2> QED
    BY <2>1, <2>2, <2>3, <2>4, <2>5, <2>6, <2>7 DEF IInv
<1>10. ASSUME NEW t \in Signalled, SignalSet(t) PROVE IInv'
  <2>1. TypeOK'
    <3>1. pending' \in [Tasks -> BOOLEAN]
      BY <1>10 DEF TypeOK, SignalSet
    <3>2. sender' \in [Tasks -> {"none", "test", "wake"}]
      BY <1>10 DEF TypeOK, SignalSet
    <3>3. UNCHANGED <<word, stored, tstate, waiting_queue, futex_bitset, in_sleep_queue, pc, arg,
                      timed_out, result, credited, interrupted, requeued>>
      BY <1>10 DEF SignalSet
    <3> QED
      BY <3>1, <3>2, <3>3 DEF TypeOK
  <2>2. WaitConfined'
    BY <1>10 DEF IInv, TypeOK, WaitConfined, SignalSet
  <2>3. SleeperFindable'
    BY <1>10 DEF IInv, TypeOK, SleeperFindable, SignalSet
  <2>4. ReturnHonest'
    BY <1>10 DEF IInv, TypeOK, ReturnHonest, CreditExact, SignalSet
  <2>5. CreditExact'
    BY <1>10 DEF IInv, TypeOK, CreditExact, WaitConfined, SleeperFindable, SignalSet
  <2>6. KeyExact'
    BY <1>10 DEF IInv, TypeOK, KeyExact, SignalSet
  <2>7. NoStrandedSleeper'
    BY <1>10, SMT DEF IInv, TypeOK, NoStrandedSleeper, KeyExact, SleeperFindable, SignalSet
  <2> QED
    BY <2>1, <2>2, <2>3, <2>4, <2>5, <2>6, <2>7 DEF IInv
<1>11. ASSUME NEW t \in Signalled, SignalTest(t) PROVE IInv'
  <2>1. TypeOK'
    BY <1>11 DEF TypeOK, Args, SignalTest
  <2>2. WaitConfined'
    BY <1>11 DEF IInv, TypeOK, WaitConfined, SignalTest
  <2>3. SleeperFindable'
    BY <1>11 DEF IInv, TypeOK, SleeperFindable, SignalTest
  <2>4. ReturnHonest'
    BY <1>11 DEF IInv, TypeOK, ReturnHonest, CreditExact, SignalTest
  <2>5. CreditExact'
    BY <1>11 DEF IInv, TypeOK, CreditExact, WaitConfined, SleeperFindable, SignalTest
  <2>6. KeyExact'
    BY <1>11 DEF IInv, TypeOK, KeyExact, SignalTest
  <2>7. NoStrandedSleeper'
    BY <1>11, SMT DEF IInv, TypeOK, NoStrandedSleeper, KeyExact, SleeperFindable, SignalTest
  <2> QED
    BY <2>1, <2>2, <2>3, <2>4, <2>5, <2>6, <2>7 DEF IInv
<1>12. ASSUME NEW t \in Signalled, SignalWake(t) PROVE IInv'
  <2>1. TypeOK'
    BY <1>12 DEF TypeOK, Args, SignalWake, EndWait
  <2>2. WaitConfined'
    BY <1>12, SMT DEF IInv, TypeOK, WaitConfined, SignalWake, EndWait
  <2>3. SleeperFindable'
    BY <1>12, SMT DEF IInv, TypeOK, SleeperFindable, SignalWake, EndWait
  <2>4. ReturnHonest'
    BY <1>12, SMT DEF IInv, TypeOK, ReturnHonest, CreditExact, SignalWake, EndWait
  <2>5. CreditExact'
    BY <1>12, SMT DEF IInv, TypeOK, CreditExact, WaitConfined, SleeperFindable, SignalWake, EndWait
  <2>6. KeyExact'
    BY <1>12, SMT DEF IInv, TypeOK, KeyExact, SignalWake, EndWait
  <2>7. NoStrandedSleeper'
    BY <1>12, SMT DEF IInv, TypeOK, NoStrandedSleeper, KeyExact, SleeperFindable, SignalWake,
          EndWait
  <2> QED
    BY <2>1, <2>2, <2>3, <2>4, <2>5, <2>6, <2>7 DEF IInv
<1>13. ASSUME NEW t \in Signalled, Kill(t) PROVE IInv'
  <2>1. TypeOK'
    BY <1>13 DEF TypeOK, Args, Kill, EndWait
  <2>2. WaitConfined'
    BY <1>13, SMT DEF IInv, TypeOK, WaitConfined, Kill, EndWait
  <2>3. SleeperFindable'
    BY <1>13, SMT DEF IInv, TypeOK, SleeperFindable, Kill, EndWait
  <2>4. ReturnHonest'
    BY <1>13, SMT DEF IInv, TypeOK, ReturnHonest, CreditExact, Kill, EndWait
  <2>5. CreditExact'
    BY <1>13, SMT DEF IInv, TypeOK, CreditExact, WaitConfined, SleeperFindable, Kill, EndWait
  <2>6. KeyExact'
    BY <1>13, SMT DEF IInv, TypeOK, KeyExact, Kill, EndWait
  <2>7. NoStrandedSleeper'
    BY <1>13, SMT DEF IInv, TypeOK, NoStrandedSleeper, KeyExact, SleeperFindable, Kill, EndWait
  <2> QED
    BY <2>1, <2>2, <2>3, <2>4, <2>5, <2>6, <2>7 DEF IInv
<1>14. ASSUME NEW t \in Signalled, SignalTaken(t) PROVE IInv'
  <2>1. TypeOK'
    BY <1>14 DEF TypeOK, Args, SignalTaken
  <2>2. WaitConfined'
    BY <1>14 DEF IInv, TypeOK, WaitConfined, SignalTaken
  <2>3. SleeperFindable'
    BY <1>14 DEF IInv, TypeOK, SleeperFindable, SignalTaken
  <2>4. ReturnHonest'
    BY <1>14 DEF IInv, TypeOK, ReturnHonest, CreditExact, SignalTaken
  <2>5. CreditExact'
    BY <1>14 DEF IInv, TypeOK, CreditExact, WaitConfined, SleeperFindable, SignalTaken
  <2>6. KeyExact'
    BY <1>14 DEF IInv, TypeOK, KeyExact, SignalTaken
  <2>7. NoStrandedSleeper'
    BY <1>14, SMT DEF IInv, TypeOK, NoStrandedSleeper, KeyExact, SleeperFindable, SignalTaken
  <2> QED
    BY <2>1, <2>2, <2>3, <2>4, <2>5, <2>6, <2>7 DEF IInv
<1>15. ASSUME NEW t \in Tasks, Wake(t) PROVE IInv'
  <2>1. PICK k \in Keys, bits \in SUBSET Bits, n \in Counts :
            \E W \in UpTo(n, Waiters(k, bits)) : WakeAndMove(W, {}, k)
    BY <1>15 DEF Wake
  <2>2. PICK W \in UpTo(n, Waiters(k, bits)) : WakeAndMove(W, {}, k)
    BY <2>1
  <2>3. W \subseteq Tasks /\ \A u \in W : waiting_queue[u] = k
    BY UpToSubset, WaitersProperties
  <2>4. UNCHANGED <<word, stored, pending, sender, pc, arg, timed_out, result>>
    BY <1>15 DEF Wake
  <2>5. /\ TypeOK' /\ WaitConfined' /\ SleeperFindable' /\ ReturnHonest'
        /\ CreditExact' /\ KeyExact'
    BY <2>2, <2>3, <2>4, WakeAndMoveKeeps DEF TypeOK
  <2>6. NoStrandedSleeper'
    BY <2>2, <2>3, <2>4 DEF IInv, TypeOK, NoStrandedSleeper, WakeAndMove
  <2> QED
    BY <2>5, <2>6 DEF IInv
<1>16. ASSUME NEW t \in Tasks, Requeue(t) PROVE IInv'
  <2>1. PICK k \in Keys, k2 \in Keys, n \in Counts, m \in Counts :
            \E W \in UpTo(n, Waiters(k, Bits)) : \E R \in UpTo(m, Waiters(k, Bits) \ W) :
               WakeAndMove(W, R, k2)
    BY <1>16 DEF Requeue
  <2>2a. PICK W \in UpTo(n, Waiters(k, Bits)) :
            \E R \in UpTo(m, Waiters(k, Bits) \ W) : WakeAndMove(W, R, k2)
    BY <2>1
  <2>2. PICK R \in UpTo(m, Waiters(k, Bits) \ W) : WakeAndMove(W, R, k2)
    BY <2>2a
  <2>3. /\ W \subseteq Tasks
        /\ R \subseteq Tasks
        /\ W \cap R = {}
        /\ \A u \in W \cup R : waiting_queue[u] = k
    <3>1. W \subseteq Waiters(k, Bits) /\ R \subseteq Waiters(k, Bits) \ W
      BY UpToSubset
    <3> QED
      BY <3>1, WaitersProperties
  <2>4. UNCHANGED <<word, stored, pending, sender, pc, arg, timed_out, result>>
    BY <1>16 DEF Requeue
  <2>5. /\ TypeOK' /\ WaitConfined' /\ SleeperFindable' /\ ReturnHonest'
        /\ CreditExact' /\ KeyExact'
    BY <2>2, <2>3, <2>4, WakeAndMoveKeeps DEF TypeOK
  <2>6. NoStrandedSleeper'
    BY <2>2, <2>3, <2>4 DEF IInv, TypeOK, NoStrandedSleeper, WakeAndMove
  <2> QED
    BY <2>5, <2>6 DEF IInv
<1>17. ASSUME NEW t \in Tasks, WakeAll(t) PROVE IInv'
  <2> DEFINE W == Waiters(stored[t], Bits)
  <2>1. /\ pc[t] = "stored"
        /\ pc' = [pc EXCEPT ![t] = "out"]
        /\ stored' = [stored EXCEPT ![t] = NoKey]
        /\ WakeAndMove(W, {}, NoKey)
        /\ UNCHANGED <<word, pending, sender, arg, timed_out, result>>
    BY <1>17 DEF WakeAll, Goto
  <2>2. stored[t] \in Keys
    BY <2>1 DEF IInv, KeyExact, TypeOK
  <2>3. W \subseteq Tasks /\ \A u \in W : waiting_queue[u] \in Keys
    BY <2>2, WaitersProperties
  <2>4. \A u \in Tasks : /\ tstate[u] = "BLOCKED"
                         /\ ~requeued[u]
                         /\ stored[t] = arg[u].key
                         => u \in W
    BY SMT DEF IInv, KeyExact, SleeperFindable, TypeOK, Args, Waiters
  <2> HIDE DEF W
  <2>5. /\ TypeOK' /\ WaitConfined' /\ SleeperFindable' /\ ReturnHonest'
        /\ CreditExact' /\ KeyExact'
    BY <2>1, <2>3, WakeAndMoveKeeps DEF TypeOK
  <2>6. NoStrandedSleeper'
    BY <2>1, <2>3, <2>4 DEF IInv, TypeOK, NoStrandedSleeper, WakeAndMove
  <2> QED
    BY <2>5, <2>6 DEF IInv
<1>18. CASE UNCHANGED vars
  <2>1. TypeOK'
    BY <1>18 DEF IInv, vars, TypeOK
  <2>2. WaitConfined'
    BY <1>18 DEF IInv, vars, WaitConfined
  <2>3. SleeperFindable'
    BY <1>18 DEF IInv, vars, SleeperFindable
  <2>4. ReturnHonest'
    BY <1>18 DEF IInv, vars, ReturnHonest
  <2>5. CreditExact'
    BY <1>18 DEF IInv, vars, CreditExact
  <2>6. KeyExact'
    BY <1>18 DEF IInv, vars, KeyExact
  <2>7. NoStrandedSleeper'
    BY <1>18 DEF IInv, vars, NoStrandedSleeper
  <2> QED
    BY <2>1, <2>2, <2>3, <2>4, <2>5, <2>6, <2>7 DEF IInv
<1> QED
  BY <1>1, <1>2, <1>3, <1>4, <1>5, <1>6, <1>7, <1>8, <1>9, <1>10, <1>11, <1>12, <1>13, <1>14,
        <1>15, <1>16, <1>17, <1>18 DEF Next, WaitStep

-----------------------------------------------------------------------------
(* The inductive invariant holds in every reachable state. *)
THEOREM IInvHolds == Spec => []IInv
BY InitIInv, NextIInv, PTL DEF Spec

(* Every variable keeps its type. *)
THEOREM TypeCorrect == Spec => []TypeOK
<1>1. IInv => TypeOK
  BY DEF IInv
<1> QED
  BY <1>1, IInvHolds, PTL

(* task_futex_wait leaves neither a key nor a deadline behind. *)
THEOREM WaitConfinedHolds == Spec => []WaitConfined
<1>1. IInv => WaitConfined
  BY DEF IInv
<1> QED
  BY <1>1, IInvHolds, PTL

(* Wakes, requeues, signals and timers leave every blocked task findable. *)
THEOREM SleeperFindableHolds == Spec => []SleeperFindable
<1>1. IInv => SleeperFindable
  BY DEF IInv
<1> QED
  BY <1>1, IInvHolds, PTL

(* A wait that task_futex_wake_bitset counted never returns ETIMEDOUT, and *)
(* 0 is returned only to a wait that something ended.                      *)
THEOREM ReturnHonestHolds == Spec => []ReturnHonest
<1>1. IInv => ReturnHonest
  BY DEF IInv
<1> QED
  BY <1>1, IInvHolds, PTL

(* Testing the word and blocking in one sched_lock section loses no wake.  *)
THEOREM NoStrandedSleeperHolds == Spec => []NoStrandedSleeper
<1>1. IInv => NoStrandedSleeper
  BY DEF IInv
<1> QED
  BY <1>1, IInvHolds, PTL
=============================================================================
