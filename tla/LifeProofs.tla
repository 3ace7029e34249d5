----------------------------- MODULE LifeProofs -----------------------------
(***************************************************************************)
(* Proofs about Life for any number of tasks, killers and reaping CPUs.    *)
(*                                                                         *)
(* The three invariants rest on each other.  A task is freed only by a     *)
(* reaper that has seen join_refs = 0, and waited or a parent that is      *)
(* gone, while the task was dead (Releasing): nothing that happens to a    *)
(* dead task takes this back.  That the reaper may rely on it needs the    *)
(* counts to be exact, a child that is found and not yet marked to be      *)
(* unwaited (Handles), and a dead task to be in the hands of one reaper    *)
(* only (Custody), which is also why a parent that found the dead queue    *)
(* without its child is woken when the reaper puts the child back.         *)
(***************************************************************************)
EXTENDS Life, TLAPS

(* Most steps are first-order reasoning, which Zenon does; the steps that  *)
(* count or compare functions name SMT.                                    *)
USE Zenon

Reapers == Tasks \cup Workers
Senders == Tasks \cup Killers
SenderRecord == [at : {"idle", "send", "chld", "release"}, to : Tasks \cup {NoTask},
                 what : {"none", "kill", "sig", "stop", "cont"}]
ReaperRecord == [at : {"idle", "next", "again", "release"}, list : SUBSET Tasks,
                 keep : SUBSET Tasks, retry : BOOLEAN, cur : Tasks \cup {NoTask}]
States == {"none", "ready", "blocked", "stopped", "dead", "freed"}
PCs == {"user", "stopped", "gone", "pid", "pid_asleep", "pid_intr", "find", "prep",
        "any_asleep", "join", "join_asleep", "mark", "garbage", "reap"}

(* The types, in the groups in which the actions change them. *)
StateTypes == state \in [Tasks -> States] /\ queued \in [Tasks -> BOOLEAN]
TaskTypes == /\ ppid \in [Tasks -> Tasks \cup {NoTask}]
             /\ waited \in [Tasks -> BOOLEAN]
             /\ exit_pending \in [Tasks -> BOOLEAN]
             /\ pending \in [Tasks -> SUBSET {"sig", "stop"}]
JobTypes == job_event \in [Tasks -> 0 .. 2] /\ job_stopped \in [Tasks -> BOOLEAN]
JoinTypes == /\ join_refs \in [Tasks -> Nat]
             /\ join_target \in [Tasks -> Tasks \cup {NoTask}]
             /\ waiting_for_any_child \in [Tasks -> BOOLEAN]
CallTypes == /\ pc \in [Tasks -> PCs]
             /\ found \in [Tasks -> Tasks \cup {NoTask}]
             /\ again \in [Tasks -> BOOLEAN]
             /\ DOMAIN wait_options = Tasks
QueueTypes == /\ dead_queue \in SUBSET Tasks
              /\ reap_requested \in BOOLEAN
              /\ oncpu \in [Tasks -> BOOLEAN]
HolderTypes == /\ refs \in [Tasks -> Nat]
               /\ sender \in [Senders -> SenderRecord]
               /\ reaper \in [Reapers -> ReaperRecord]

TypeOK == /\ StateTypes /\ TaskTypes /\ JobTypes /\ JoinTypes /\ CallTypes
          /\ QueueTypes /\ HolderTypes

Joining == {"pid_asleep", "join_asleep"}
Calling == {"pid", "pid_asleep", "pid_intr", "join", "join_asleep", "mark"}

(* What the state of a task says about the place where it stands. *)
Place(t) ==
    /\ state[t] = "none" => pc[t] = "user"
    /\ state[t] = "blocked" => pc[t] \in Joining \cup {"any_asleep"}
    /\ state[t] = "stopped" => pc[t] = "stopped"
    /\ state[t] \in {"dead", "freed"} <=> pc[t] = "gone"
Places == \A t \in Tasks : Place(t)

(* What a task has entered in its fields of the join queues. *)
Entered(t) ==
    /\ pc[t] \in Joining => join_target[t] = found[t]
    /\ pc[t] \notin Joining \cup {"any_asleep"} => join_target[t] = NoTask
    /\ waiting_for_any_child[t] <=> pc[t] = "any_asleep"
    /\ queued[t] => pc[t] \in Joining
Entries == \A t \in Tasks : Entered(t)

(* The child that a call is about.  One that task_find_dead_child_of found *)
(* for the first time has not been waited for, until it is marked.         *)
Handle(t) ==
    /\ pc[t] \in Calling => /\ found[t] \in Tasks
                            /\ ppid[found[t]] = t
                            /\ state[found[t]] # "none"
    /\ pc[t] \in {"join", "join_asleep", "mark"} /\ ~again[t] => ~waited[found[t]]
Handles == \A t \in Tasks : Handle(t)

(* A parent has been forked before its children. *)
Births == \A c \in Tasks : ppid[c] \in Tasks => state[ppid[c]] # "none" /\ ppid[c] # c

(* A sender that is idle names no task, one that is not names a task that  *)
(* exists; a task only sends for itself.                                   *)
Sending(x) ==
    /\ sender[x].at = "idle" => sender[x].to = NoTask
    /\ sender[x].at # "idle" => /\ sender[x].to \in Tasks
                                /\ state[sender[x].to] # "none"
    /\ x \in Tasks => sender[x].at \in {"idle", "chld"}
Sendings == \A x \in Senders : Sending(x)

(* What a reaper has in its hands.  The three places do not overlap. *)
Held(x) == reaper[x].list \cup reaper[x].keep \cup {reaper[x].cur}
Hand(x) ==
    /\ reaper[x].at \in {"again", "release"} <=> reaper[x].cur \in Tasks
    /\ reaper[x].at = "idle" => reaper[x].list = {} /\ reaper[x].keep = {}
    /\ reaper[x].cur \notin reaper[x].list \cup reaper[x].keep
    /\ reaper[x].list \cap reaper[x].keep = {}

(* A dead task is on the dead queue or in the hands of one reaper, and     *)
(* nothing else is there.                                                  *)
Custody ==
    /\ \A x \in Reapers : Hand(x)
    /\ \A x \in Reapers : \A c \in Tasks : c \in Held(x) => state[c] = "dead" /\ c \notin dead_queue
    /\ \A x, y \in Reapers : \A c \in Tasks : c \in Held(x) /\ c \in Held(y) => x = y
    /\ \A c \in dead_queue : state[c] = "dead"
    /\ \A c \in Tasks : state[c] = "dead" =>
          c \in dead_queue \/ \E x \in Reapers : c \in Held(x)

(* What a reaper has seen of the task that it is about to free still holds. *)
Cleared(x) ==
    reaper[x].at = "release" =>
        /\ join_refs[reaper[x].cur] = 0
        /\ waited[reaper[x].cur] \/ ppid[reaper[x].cur] \notin AllTasks
Releasing == \A x \in Reapers : Cleared(x)

(* The parts of HandlesLive, NoMissedChild and RefsExact for one process. *)
LiveSender(k) == sender[k].at # "idle" => state[sender[k].to] # "freed"
LiveCall(t) ==
    /\ pc[t] \in Joining => state[found[t]] # "freed"
    /\ pc[t] \in {"join", "mark"} /\ ~again[t] => state[found[t]] # "freed"

Attended(t) ==
    /\ pc[t] = "any_asleep" =>
         /\ waiting_for_any_child[t]
         /\ \A c \in Children(t) :
              /\ ~task_stop_pending(t, c)
              /\ state[c] = "dead" => \E x \in Reapers : c \in Held(x)
    /\ pc[t] # "any_asleep" =>
         /\ queued[t] /\ join_target[t] = found[t]
         /\ state[found[t]] # "dead" /\ ~task_stop_pending(t, found[t])

Users(c) == {k \in Killers : sender[k].to = c}
Joiners(c) == {u \in Tasks : join_target[u] = c /\ ~waiting_for_any_child[u]}
RefsCounted == \A c \in Tasks : refs[c] = Cardinality(Users(c))
JoinsCounted == \A c \in Tasks : join_refs[c] = Cardinality(Joiners(c))

Live == (\A k \in Killers : LiveSender(k)) /\ (\A t \in Tasks : LiveCall(t))
Attention == \A t \in Tasks : state[t] = "blocked" => Attended(t)

IInv == /\ TypeOK /\ Places /\ Entries /\ Handles /\ Births /\ Sendings
        /\ Custody /\ Releasing /\ Live /\ Attention /\ RefsCounted /\ JoinsCounted

USE RootAssumption, KillersAssumption DEF Senders, Reapers

-----------------------------------------------------------------------------
(* The parts say what the invariants say. *)
LEMMA LiveIsHandlesLive == Live <=> HandlesLive
BY DEF Live, LiveSender, LiveCall, HandlesLive, Joining

LEMMA AttentionIsNoMissedChild == Attention <=> NoMissedChild
BY DEF Attention, Attended, NoMissedChild, Held

LEMMA CountsAreRefsExact == RefsCounted /\ JoinsCounted <=> RefsExact
BY DEF RefsCounted, JoinsCounted, RefsExact, Users, Joiners

-----------------------------------------------------------------------------
(* Counting with one element more or less, proved from the library below. *)
OneMoreLaw == \A K : IsFiniteSet(K) => \A S \in SUBSET K, x \in K : x \notin S =>
                Cardinality(S) \in Nat /\ Cardinality(S \cup {x}) = Cardinality(S) + 1
OneLessLaw == \A K : IsFiniteSet(K) => \A S \in SUBSET K : \A x \in S :
                Cardinality(S) \in Nat \ {0} /\ Cardinality(S \ {x}) = Cardinality(S) - 1
CountingLaws == OneMoreLaw /\ OneLessLaw /\ Cardinality({}) = 0

LEMMA OneMore ==
    ASSUME CountingLaws, NEW K, IsFiniteSet(K), NEW S \in SUBSET K, NEW x \in K, x \notin S
    PROVE  Cardinality(S) \in Nat /\ Cardinality(S \cup {x}) = Cardinality(S) + 1
BY DEF CountingLaws, OneMoreLaw

LEMMA OneLess ==
    ASSUME CountingLaws, NEW K, IsFiniteSet(K), NEW S \in SUBSET K, NEW x \in S
    PROVE  /\ Cardinality(S) \in Nat \ {0}
           /\ Cardinality(S \ {x}) = Cardinality(S) - 1
BY DEF CountingLaws, OneLessLaw

(* A task that a sender or a sleeper uses has a count above zero. *)
LEMMA UserCounts ==
    ASSUME CountingLaws, TypeOK, RefsCounted, NEW k \in Killers, sender[k].to \in Tasks
    PROVE  refs[sender[k].to] # 0
<1> DEFINE c == sender[k].to
<1>1. k \in Users(c) /\ Users(c) \in SUBSET Killers
  BY DEF Users
<1>2. Cardinality(Users(c)) # 0
  BY <1>1, OneLess, FiniteAssumption
<1> QED
  BY <1>2 DEF RefsCounted

LEMMA JoinerCounts ==
    ASSUME CountingLaws, TypeOK, JoinsCounted, NEW t \in Tasks, join_target[t] \in Tasks,
           ~waiting_for_any_child[t]
    PROVE  join_refs[join_target[t]] # 0
<1> DEFINE c == join_target[t]
<1>1. t \in Joiners(c) /\ Joiners(c) \in SUBSET Tasks
  BY DEF Joiners
<1>2. Cardinality(Joiners(c)) # 0
  BY <1>1, OneLess, FiniteAssumption
<1> QED
  BY <1>2 DEF JoinsCounted

-----------------------------------------------------------------------------
(***************************************************************************)
(* When a step leaves a part of the invariant alone.  In each lemma every  *)
(* process either has kept what its part speaks of, or has its part anew.  *)
(***************************************************************************)

(* No step brings a freed task back or changes the parent of a task that   *)
(* exists; a task exists for ever once it is forked.                       *)
Lasting ==
    \A c \in Tasks :
        /\ state[c] # "none" => state'[c] # "none" /\ ppid'[c] = ppid[c]
        /\ state[c] = "freed" => state'[c] = "freed"

(* The state of u stays, or u is woken. *)
Woke(u) == state'[u] = state[u] \/ (state[u] = "blocked" /\ state'[u] = "ready")

LEMMA PlacesKept ==
    ASSUME Places, \A u \in Tasks : (pc'[u] = pc[u] /\ Woke(u)) \/ Place(u)'
    PROVE  Places'
BY DEF Places, Place, Woke, Joining

LEMMA EntriesKept ==
    ASSUME Entries,
           \A u \in Tasks :
              \/ /\ pc'[u] = pc[u] /\ join_target'[u] = join_target[u] /\ found'[u] = found[u]
                 /\ waiting_for_any_child'[u] = waiting_for_any_child[u]
                 /\ queued'[u] => queued[u]
              \/ Entered(u)'
    PROVE  Entries'
BY DEF Entries, Entered

LEMMA HandlesKept ==
    ASSUME Handles, Lasting,
           \A u \in Tasks :
              \/ /\ pc'[u] = pc[u] /\ found'[u] = found[u] /\ again'[u] = again[u]
                 /\ pc[u] \in Calling => waited'[found[u]] = waited[found[u]]
              \/ Handle(u)'
    PROVE  Handles'
BY SMT DEF Handles, Handle, Lasting, Calling

LEMMA BirthsKept ==
    ASSUME TypeOK, Births, Lasting, ppid' = ppid
    PROVE  Births'
BY DEF Births, Lasting

LEMMA SendingsKept ==
    ASSUME TypeOK, Sendings, Lasting,
           \A x \in Senders : sender'[x] = sender[x] \/ Sending(x)'
    PROVE  Sendings'
BY SMT DEF Sendings, Sending, Lasting

LEMMA CustodyKept ==
    ASSUME TypeOK, Custody, reaper' = reaper, dead_queue' = dead_queue,
           \A c \in Tasks : state'[c] = "dead" <=> state[c] = "dead"
    PROVE  Custody'
BY DEF Custody, Hand, Held, TypeOK, QueueTypes

LEMMA ReleasingKept ==
    ASSUME TypeOK, Custody, Births, Releasing, Lasting,
           \A x \in Reapers : reaper'[x] = reaper[x] \/ Cleared(x)',
           \A c \in Tasks : state[c] = "dead" =>
              /\ join_refs[c] = 0 => join_refs'[c] = 0
              /\ waited[c] => waited'[c]
    PROVE  Releasing'
<1> SUFFICES ASSUME NEW x \in Reapers, reaper'[x] = reaper[x], reaper[x].at = "release"
             PROVE  /\ join_refs'[reaper[x].cur] = 0
                    /\ waited'[reaper[x].cur] \/ ppid'[reaper[x].cur] \notin AllTasks'
  BY DEF Releasing, Cleared
<1> DEFINE c == reaper[x].cur
<1>1. c \in Tasks /\ state[c] = "dead"
  BY DEF Custody, Hand, Held
<1>2. join_refs[c] = 0 /\ (waited[c] \/ ppid[c] \notin AllTasks)
  BY DEF Releasing, Cleared
<1>3. ppid'[c] = ppid[c]
  BY <1>1 DEF Lasting
<1>4. ppid[c] \notin AllTasks => ppid[c] \notin AllTasks'
  BY <1>1 DEF AllTasks, Births, Lasting
<1> QED
  BY <1>1, <1>2, <1>3, <1>4

LEMMA LiveKept ==
    ASSUME TypeOK, Live, Handles, Sendings,
           \A c \in Tasks : state'[c] = "freed" => state[c] = "freed",
           \A k \in Killers : \/ sender'[k].at # "idle" =>
                                    sender[k].at # "idle" /\ sender'[k].to = sender[k].to
                              \/ LiveSender(k)',
           \A u \in Tasks : \/ pc'[u] = pc[u] /\ found'[u] = found[u] /\ again'[u] = again[u]
                            \/ LiveCall(u)'
    PROVE  Live'
<1>1. ASSUME NEW k \in Killers PROVE LiveSender(k)'
  BY DEF Live, LiveSender, Sendings, Sending
<1>2. ASSUME NEW u \in Tasks PROVE LiveCall(u)'
  BY SMT DEF Live, LiveCall, Handles, Handle, Calling, Joining
<1> QED
  BY <1>1, <1>2 DEF Live

(* A sleeper whose call stands as it did, and a task without news. *)
SameSleep(u) ==
    /\ state[u] = "blocked" /\ queued'[u] = queued[u]
    /\ pc'[u] = pc[u] /\ found'[u] = found[u] /\ wait_options'[u] = wait_options[u]
    /\ join_target'[u] = join_target[u]
    /\ waiting_for_any_child'[u] = waiting_for_any_child[u]
NoNews(c) ==
    /\ ppid'[c] = ppid[c] /\ job_event'[c] \in {job_event[c], 0}
    /\ state'[c] \in {"dead", "stopped"} => state'[c] = state[c]
    /\ state[c] \in {"none", "freed"} => state'[c] \in {"none", "freed"}
Watches(u, c) == IF pc[u] = "any_asleep" THEN ppid'[c] = u ELSE c = found[u]

LEMMA AttendedKept ==
    ASSUME TypeOK, Places, Handles, NEW u \in Tasks, state[u] = "blocked" => Attended(u),
           SameSleep(u), \A c \in Tasks : Watches(u, c) => NoNews(c),
           \A c \in Tasks : Watches(u, c) /\ state'[c] = "dead" =>
              \A x \in Reapers : c \in Held(x) => c \in Held(x)'
    PROVE  Attended(u)'
<1>1. Attended(u) /\ pc'[u] = pc[u]
  BY DEF SameSleep
<1>2. CASE pc[u] = "any_asleep"
  <2>1. waiting_for_any_child'[u]
    BY <1>1, <1>2 DEF Attended, SameSleep
  <2>2. ASSUME NEW c \in Tasks, c \in Children(u)'
        PROVE  c \in Children(u) /\ NoNews(c)
    BY <1>2, <2>2 DEF Children, AllTasks, Watches, NoNews
  <2>3. ASSUME NEW c \in Tasks, c \in Children(u)'
        PROVE  ~task_stop_pending(u, c)'
    BY <1>1, <1>2, <2>2, <2>3, SMT DEF Attended, task_stop_pending, NoNews, SameSleep
  <2>4. ASSUME NEW c \in Tasks, c \in Children(u)', state'[c] = "dead"
        PROVE  \E x \in Reapers : c \in Held(x)'
    <3>1. c \in Children(u) /\ state[c] = "dead"
      BY <2>2, <2>4 DEF NoNews
    <3>2. PICK x \in Reapers : c \in Held(x)
      BY <1>1, <1>2, <3>1 DEF Attended
    <3>3. Watches(u, c)
      BY <1>2, <2>4 DEF Children, Watches
    <3> QED
      BY <2>4, <3>2, <3>3
  <2> QED
    BY <1>1, <1>2, <2>1, <2>3, <2>4 DEF Attended, Children, AllTasks
<1>3. CASE pc[u] # "any_asleep"
  <2>1. found[u] \in Tasks /\ NoNews(found[u])
    BY <1>3 DEF SameSleep, Places, Place, Handles, Handle, Joining, Calling, Watches
  <2>2. queued'[u] /\ join_target'[u] = found'[u] /\ found'[u] = found[u]
    BY <1>1, <1>3 DEF Attended, SameSleep
  <2>3. state'[found[u]] # "dead" /\ ~task_stop_pending(u, found[u])'
    BY <1>1, <1>3, <2>1, SMT DEF Attended, task_stop_pending, NoNews, SameSleep
  <2> QED
    BY <1>1, <1>3, <2>2, <2>3 DEF Attended, task_stop_pending
<1> QED
  BY <1>2, <1>3

LEMMA AttentionKept ==
    ASSUME TypeOK, Places, Handles, Attention, reaper' = reaper,
           \A u \in Tasks : state'[u] = "blocked" =>
              \/ SameSleep(u) /\ \A c \in Tasks : Watches(u, c) => NoNews(c)
              \/ Attended(u)'
    PROVE  Attention'
<1>1. ASSUME NEW u \in Tasks, state'[u] = "blocked", SameSleep(u),
             \A c \in Tasks : Watches(u, c) => NoNews(c)
      PROVE  Attended(u)'
  <2>1. \A c \in Tasks : \A x \in Reapers : c \in Held(x) => c \in Held(x)'
    BY DEF Held
  <2> QED
    BY <1>1, <2>1, AttendedKept DEF Attention
<1> QED
  BY <1>1 DEF Attention

LEMMA RefsKept ==
    ASSUME RefsCounted, refs' = refs, \A k \in Killers : sender'[k].to = sender[k].to
    PROVE  RefsCounted'
<1>1. ASSUME NEW c PROVE Users(c)' = Users(c)
  BY DEF Users
<1> QED
  BY <1>1 DEF RefsCounted

LEMMA JoinsKept ==
    ASSUME JoinsCounted, join_refs' = join_refs,
           \A u \in Tasks : /\ join_target'[u] = join_target[u]
                            /\ waiting_for_any_child'[u] = waiting_for_any_child[u]
    PROVE  JoinsCounted'
<1>1. ASSUME NEW c PROVE Joiners(c)' = Joiners(c)
  BY DEF Joiners
<1> QED
  BY <1>1 DEF JoinsCounted

-----------------------------------------------------------------------------
(***************************************************************************)
(* Steps of a task that change its call, marks and taken news only         *)
(***************************************************************************)
CallSame(u) == /\ pc'[u] = pc[u] /\ found'[u] = found[u] /\ again'[u] = again[u]
               /\ wait_options'[u] = wait_options[u]

LEMMA LocalKept ==
    ASSUME CountingLaws, IInv, NEW t \in Tasks, state[t] = "ready", TypeOK',
           UNCHANGED <<state, queued, ppid, refs, joinVars, dead_queue, sender, reaper>>,
           \A u \in Tasks \ {t} : CallSame(u),
           \A c \in Tasks : job_event'[c] \in {job_event[c], 0},
           \A c \in Tasks : waited'[c] = waited[c] \/ (waited'[c] /\ ppid[c] = t),
           pc'[t] \notin Joining \cup {"any_asleep", "gone"},
           pc[t] \notin Joining \cup {"any_asleep"},
           Handle(t)', LiveCall(t)'
    PROVE  IInv'
<1>1. /\ TypeOK /\ Places /\ Entries /\ Handles /\ Births /\ Sendings /\ Custody /\ Releasing
      /\ Live /\ Attention /\ RefsCounted /\ JoinsCounted
  BY DEF IInv
<1>2. Lasting
  BY DEF Lasting
<1>3. Place(t)'
  BY DEF Place
<1>4. Entered(t)'
  BY <1>1 DEF Entries, Entered, joinVars
<1>5. Places'
  BY <1>1, <1>3, PlacesKept DEF Woke, CallSame
<1>6. Entries'
  BY <1>1, <1>4, EntriesKept DEF CallSame, joinVars
<1>7. Handles'
  <2>1. ASSUME NEW u \in Tasks \ {t}, pc[u] \in Calling
        PROVE  waited'[found[u]] = waited[found[u]]
    BY <1>1, <2>1, SMT DEF Handles, Handle
  <2> QED
    BY <1>1, <1>2, <2>1, HandlesKept DEF CallSame
<1>8. Births'
  BY <1>1, <1>2, BirthsKept
<1>9. Sendings'
  BY <1>1, <1>2, SendingsKept
<1>10. Custody'
  BY <1>1, CustodyKept
<1>11. Releasing'
  BY <1>1, <1>2, ReleasingKept DEF joinVars
<1>12. Live'
  BY <1>1, LiveKept DEF CallSame
<1>13. Attention'
  <2>1. ASSUME NEW u \in Tasks, state'[u] = "blocked"
        PROVE  SameSleep(u) /\ \A c \in Tasks : NoNews(c)
    BY <2>1 DEF SameSleep, NoNews, CallSame, joinVars
  <2> QED
    BY <1>1, <2>1, AttentionKept
<1>14. RefsCounted' /\ JoinsCounted'
  BY <1>1, RefsKept, JoinsKept DEF joinVars
<1> QED
  BY <1>5, <1>6, <1>7, <1>8, <1>9, <1>10, <1>11, <1>12, <1>13, <1>14 DEF IInv

(* A task in the kernel or in user code that runs, and what its call       *)
(* fields may become.                                                      *)
LEMMA GotoTypes ==
    ASSUME CallTypes, NEW t \in Tasks, NEW l \in PCs, Goto(t, l),
           UNCHANGED <<wait_options, found, again>>
    PROVE  CallTypes' /\ pc'[t] = l /\ \A u \in Tasks \ {t} : CallSame(u)
BY DEF CallTypes, Goto, CallSame

LEMMA ReturnTypes ==
    ASSUME CallTypes, NEW t \in Tasks, Return(t)
    PROVE  CallTypes' /\ pc'[t] = "user" /\ \A u \in Tasks \ {t} : CallSame(u)
BY DEF CallTypes, Return, Goto, CallSame, PCs

(* The rest of the step of a task that ends a call or goes on in one. *)
LEMMA ReturnKept ==
    ASSUME CountingLaws, IInv, NEW t \in Tasks, Runs(t), Return(t),
           pc[t] \notin Joining \cup {"any_asleep"},
           UNCHANGED <<state, queued, taskVars, refs, pending, jobVars, joinVars, queueVars,
                       sender, reaper>>
    PROVE  IInv'
<1>1. CallTypes' /\ pc'[t] = "user" /\ \A u \in Tasks \ {t} : CallSame(u)
  BY ReturnTypes DEF IInv, TypeOK
<1>2. TypeOK'
  BY <1>1 DEF IInv, TypeOK, StateTypes, TaskTypes, JobTypes, JoinTypes, QueueTypes, HolderTypes,
              taskVars, jobVars, joinVars, queueVars
<1>3. Handle(t)' /\ LiveCall(t)' /\ pc'[t] \notin Joining \cup {"any_asleep", "gone"}
  BY <1>1 DEF Handle, LiveCall, Calling, Joining
<1> QED
  BY <1>1, <1>2, <1>3, LocalKept DEF Runs, taskVars, jobVars, queueVars

LEMMA SignalTakenKept ==
    ASSUME CountingLaws, IInv, NEW t \in Tasks, Runs(t), SignalTaken(t)
    PROVE  IInv'
<1>1. TypeOK'
  BY DEF IInv, TypeOK, StateTypes, TaskTypes, JobTypes, JoinTypes, CallTypes, QueueTypes,
         HolderTypes, taskVars, jobVars, joinVars, callVars, queueVars, SignalTaken
<1>2. Handle(t)' /\ LiveCall(t)' /\ pc'[t] = "user" /\ pc[t] = "user"
  BY DEF IInv, Handle, LiveCall, Calling, Joining, SignalTaken, callVars
<1> QED
  BY <1>1, <1>2, LocalKept
     DEF Runs, SignalTaken, CallSame, Joining, taskVars, jobVars, callVars, queueVars

LEMMA ResumeKept ==
    ASSUME CountingLaws, IInv, NEW t \in Tasks, Runs(t), Resume(t)
    PROVE  IInv'
<1>1. CallTypes' /\ pc'[t] = "user" /\ \A u \in Tasks \ {t} : CallSame(u)
  BY GotoTypes DEF IInv, TypeOK, Resume, PCs
<1>2. TypeOK'
  BY <1>1 DEF IInv, TypeOK, StateTypes, TaskTypes, JobTypes, JoinTypes, QueueTypes, HolderTypes,
              taskVars, jobVars, joinVars, queueVars, Resume
<1>3. Handle(t)' /\ LiveCall(t)' /\ pc[t] = "stopped"
  BY <1>1 DEF Handle, LiveCall, Calling, Joining, Resume
<1> QED
  BY <1>1, <1>2, <1>3, LocalKept DEF Runs, Resume, Joining, taskVars, jobVars, queueVars

LEMMA WaitCallKept ==
    ASSUME CountingLaws, IInv, NEW t \in Tasks, Runs(t), WaitCall(t)
    PROVE  IInv'
<1>1. /\ CallTypes' /\ \A u \in Tasks \ {t} : CallSame(u)
      /\ \/ pc'[t] = "find"
         \/ pc'[t] = "pid" /\ found'[t] \in Children(t)
  BY SMT DEF IInv, TypeOK, CallTypes, WaitCall, Goto, CallSame, PCs, Children, AllTasks
<1>2. TypeOK'
  BY <1>1 DEF IInv, TypeOK, StateTypes, TaskTypes, JobTypes, JoinTypes, QueueTypes, HolderTypes,
              taskVars, jobVars, joinVars, queueVars, WaitCall
<1>3. Handle(t)' /\ LiveCall(t)' /\ pc[t] = "user"
  BY <1>1 DEF Handle, LiveCall, Calling, Joining, WaitCall, Children, AllTasks, taskVars
<1> QED
  BY <1>1, <1>2, <1>3, LocalKept DEF Runs, WaitCall, Joining, taskVars, jobVars, queueVars

-----------------------------------------------------------------------------
(***************************************************************************)
(* The wait calls                                                          *)
(***************************************************************************)

(* A call takes the news of a child. *)
LEMMA TakenKept ==
    ASSUME CountingLaws, IInv, NEW t \in Tasks, Runs(t), pc[t] \notin Joining \cup {"any_asleep"},
           NEW c \in Tasks, TakeStop(c), Goto(t, "reap"),
           UNCHANGED <<state, queued, taskVars, refs, pending, joinVars, wait_options, found, again,
                       queueVars, sender, reaper>>
    PROVE  IInv'
<1>1. CallTypes' /\ pc'[t] = "reap" /\ \A u \in Tasks \ {t} : CallSame(u)
  BY GotoTypes DEF IInv, TypeOK, PCs
<1>2. JobTypes' /\ \A b \in Tasks : job_event'[b] \in {job_event[b], 0}
  BY SMT DEF IInv, TypeOK, JobTypes, TakeStop
<1>3. TypeOK'
  BY <1>1, <1>2 DEF IInv, TypeOK, StateTypes, TaskTypes, JoinTypes, QueueTypes,
                    HolderTypes, taskVars, joinVars, queueVars
<1>4. Handle(t)' /\ LiveCall(t)' /\ pc'[t] \notin Joining \cup {"any_asleep", "gone"}
  BY <1>1 DEF Handle, LiveCall, Calling, Joining
<1> QED
  BY <1>1, <1>2, <1>3, <1>4, LocalKept DEF Runs, taskVars, queueVars

(* A call marks a child as waited for. *)
LEMMA MarkedKept ==
    ASSUME CountingLaws, IInv, NEW t \in Tasks, Runs(t), pc[t] \notin Joining \cup {"any_asleep"},
           NEW c \in Tasks, ppid[c] = t, waited' = [waited EXCEPT ![c] = TRUE], Goto(t, "reap"),
           UNCHANGED <<state, queued, ppid, exit_pending, refs, pending, jobVars, joinVars,
                       wait_options, found, again, queueVars, sender, reaper>>
    PROVE  IInv'
<1>1. CallTypes' /\ pc'[t] = "reap" /\ \A u \in Tasks \ {t} : CallSame(u)
  BY GotoTypes DEF IInv, TypeOK, PCs
<1>2. TaskTypes' /\ \A b \in Tasks : waited'[b] = waited[b] \/ (waited'[b] /\ ppid[b] = t)
  BY DEF IInv, TypeOK, TaskTypes
<1>3. TypeOK'
  BY <1>1, <1>2 DEF IInv, TypeOK, StateTypes, JobTypes, JoinTypes, QueueTypes,
                    HolderTypes, jobVars, joinVars, queueVars
<1>4. Handle(t)' /\ LiveCall(t)' /\ pc'[t] \notin Joining \cup {"any_asleep", "gone"}
  BY <1>1 DEF Handle, LiveCall, Calling, Joining
<1> QED
  BY <1>1, <1>2, <1>3, <1>4, LocalKept DEF Runs, jobVars, queueVars

(* A call goes on at another place. *)
LEMMA MovedKept ==
    ASSUME CountingLaws, IInv, NEW t \in Tasks, Runs(t), NEW l \in {"find", "prep", "mark",
           "garbage"}, Goto(t, l),
           pc[t] \notin Joining \cup {"any_asleep"},
           l = "mark" => pc[t] = "join" /\ (again[t] \/ state[found[t]] # "freed"),
           UNCHANGED <<state, queued, taskVars, refs, pending, jobVars, joinVars, wait_options,
           found,
                       again, queueVars, sender, reaper>>
    PROVE  IInv'
<1>1. CallTypes' /\ pc'[t] = l /\ \A u \in Tasks \ {t} : CallSame(u)
  BY GotoTypes DEF IInv, TypeOK, PCs
<1>2. TypeOK'
  BY <1>1 DEF IInv, TypeOK, StateTypes, TaskTypes, JobTypes, JoinTypes, QueueTypes,
              HolderTypes, taskVars, jobVars, joinVars, queueVars
<1>3. Handle(t)'
  BY <1>1 DEF IInv, Handles, Handle, Calling, taskVars
<1>4. LiveCall(t)' /\ pc'[t] \notin Joining \cup {"any_asleep", "gone"}
  BY <1>1 DEF LiveCall, Joining
<1> QED
  BY <1>1, <1>2, <1>3, <1>4, LocalKept DEF Runs, taskVars, jobVars, queueVars

(* A call goes to sleep on the join queue of a child that is not dead. *)
LEMMA SleepKept ==
    ASSUME CountingLaws, IInv, NEW t \in Tasks, Runs(t), NEW l \in Joining, Goto(t, l),
           l = "join_asleep" => pc[t] = "join", pc[t] \in {"pid", "join"},
           SleepOn(t, found[t]), state[found[t]] \notin {"dead", "freed"},
           ~task_stop_pending(t, found[t]),
           UNCHANGED <<taskVars, refs, pending, jobVars, wait_options, found,
                       again, queueVars, sender, reaper>>
    PROVE  IInv'
<1> DEFINE c == found[t]
<1>0. /\ TypeOK /\ Places /\ Entries /\ Handles /\ Births /\ Sendings /\ Custody /\ Releasing
      /\ Live /\ Attention /\ RefsCounted /\ JoinsCounted
  BY DEF IInv
<1>1. CallTypes' /\ pc'[t] = l /\ \A u \in Tasks \ {t} : CallSame(u)
  BY GotoTypes DEF IInv, TypeOK, PCs, Joining
<1>2. c \in Tasks /\ ppid[c] = t /\ c # t /\ state[c] # "none"
  BY <1>0 DEF Handles, Handle, Calling, Births
<1>3. /\ StateTypes' /\ JoinTypes'
      /\ state'[t] = "blocked" /\ \A u \in Tasks \ {t} : state'[u] = state[u]
      /\ queued'[t] /\ \A u \in Tasks \ {t} : queued'[u] = queued[u]
      /\ join_target'[t] = c /\ \A u \in Tasks \ {t} : join_target'[u] = join_target[u]
      /\ join_refs'[c] = join_refs[c] + 1 /\ \A b \in Tasks \ {c} : join_refs'[b] = join_refs[b]
      /\ waiting_for_any_child' = waiting_for_any_child
  BY <1>0, <1>2, SMT DEF TypeOK, StateTypes, JoinTypes, SleepOn, States
<1>4. TypeOK'
  BY <1>0, <1>1, <1>3 DEF TypeOK, TaskTypes, JobTypes, QueueTypes,
              HolderTypes, taskVars, jobVars, queueVars
<1>5. Lasting
  BY <1>3 DEF Lasting, Runs, taskVars
<1>6. join_target[t] = NoTask /\ ~waiting_for_any_child[t]
  BY <1>0 DEF Entries, Entered, Joining
<1>7. Places'
  <2>1. Place(t)'
    BY <1>1, <1>3 DEF Place, Joining
  <2> QED
    BY <1>0, <1>1, <1>3, <2>1, PlacesKept DEF Woke, CallSame
<1>8. Entries'
  <2>1. Entered(t)'
    BY <1>1, <1>3, <1>6 DEF Entered, Joining
  <2> QED
    BY <1>0, <1>1, <1>3, <2>1, EntriesKept DEF CallSame
<1>9. Handles'
  <2>1. Handle(t)'
    BY <1>0, <1>1, <1>2, <1>5 DEF Handles, Handle, Joining, Lasting, taskVars
  <2> QED
    BY <1>0, <1>1, <1>5, <2>1, HandlesKept DEF CallSame, taskVars
<1>10. Births' /\ Sendings'
  BY <1>0, <1>5, BirthsKept, SendingsKept DEF taskVars
<1>11. Custody'
  BY <1>0, <1>3, CustodyKept DEF Runs, queueVars
<1>12. Releasing'
  BY <1>0, <1>3, <1>5, ReleasingKept DEF taskVars
<1>13. Live'
  <2>1. LiveCall(t)'
    BY <1>1, <1>2, <1>3 DEF LiveCall, Joining
  <2> QED
    BY <1>0, <1>1, <1>3, <2>1, LiveKept DEF CallSame
<1>14. Attention'
  <2>1. Attended(t)'
    <3>1. ~task_stop_pending(t, found[t])'
      BY <1>2, <1>3 DEF task_stop_pending, taskVars, jobVars
    <3> QED
      BY <1>1, <1>2, <1>3, <3>1 DEF Attended, Joining, task_stop_pending
  <2>2. ASSUME NEW u \in Tasks \ {t}, state'[u] = "blocked"
        PROVE  SameSleep(u) /\ \A b \in Tasks : Watches(u, b) => NoNews(b)
    <3>1. SameSleep(u)
      BY <1>1, <1>3, <2>2 DEF SameSleep, CallSame
    <3>2. \A b \in Tasks : NoNews(b)
      BY <1>3 DEF NoNews, taskVars, jobVars, Runs
    <3> QED
      BY <3>1, <3>2
  <2> QED
    BY <1>0, <2>1, <2>2, AttentionKept
<1>15. RefsCounted'
  BY <1>0, RefsKept
<1>16. JoinsCounted'
  <2>1. Joiners(c)' = Joiners(c) \cup {t} /\ t \notin Joiners(c)
    BY <1>2, <1>3, <1>6, SMT DEF Joiners
  <2>2. \A b \in Tasks \ {c} : Joiners(b)' = Joiners(b)
    BY <1>2, <1>3, <1>6, SMT DEF Joiners
  <2>3. Joiners(c) \in SUBSET Tasks
    BY DEF Joiners
  <2>4. Cardinality(Joiners(c)') = Cardinality(Joiners(c)) + 1
    BY <2>1, <2>3, OneMore, FiniteAssumption, SMT
  <2> QED
    BY <1>0, <1>2, <1>3, <2>2, <2>4, SMT DEF JoinsCounted
<1> QED
  BY <1>4, <1>7, <1>8, <1>9, <1>10, <1>11, <1>12, <1>13, <1>14, <1>15, <1>16 DEF IInv

(* A call that was asleep on a join queue leaves it. *)
LEMMA UnjoinKept ==
    ASSUME CountingLaws, IInv, NEW t \in Tasks, Runs(t), pc[t] \in Joining, Unjoin(t),
           CallTypes', \A u \in Tasks \ {t} : CallSame(u),
           JobTypes', \A b \in Tasks : job_event'[b] \in {job_event[b], 0},
           pc'[t] \notin Joining \cup {"any_asleep", "gone"}, Handle(t)', LiveCall(t)',
           UNCHANGED <<state, taskVars, refs, pending, queueVars, sender, reaper>>
    PROVE  IInv'
<1>0. /\ TypeOK /\ Places /\ Entries /\ Handles /\ Births /\ Sendings /\ Custody /\ Releasing
      /\ Live /\ Attention /\ RefsCounted /\ JoinsCounted
  BY DEF IInv
<1>1. PICK c \in Tasks : c = join_target[t] /\ ~waiting_for_any_child[t]
  BY <1>0 DEF Entries, Entered, Handles, Handle, Joining, Calling
<1>2. join_refs[c] # 0 /\ join_refs[c] \in Nat
  BY <1>0, <1>1, JoinerCounts DEF TypeOK, JoinTypes
<1>3. /\ queued' \in [Tasks -> BOOLEAN] /\ JoinTypes'
      /\ waiting_for_any_child' = waiting_for_any_child
      /\ ~queued'[t] /\ \A u \in Tasks \ {t} : queued'[u] = queued[u]
      /\ join_target'[t] = NoTask /\ \A u \in Tasks \ {t} : join_target'[u] = join_target[u]
      /\ join_refs'[c] = join_refs[c] - 1 /\ \A b \in Tasks \ {c} : join_refs'[b] = join_refs[b]
  BY <1>0, <1>1, <1>2, SMT DEF TypeOK, StateTypes, JoinTypes, Unjoin
<1>4. TypeOK'
  BY <1>0, <1>3 DEF TypeOK, StateTypes, TaskTypes, QueueTypes, HolderTypes, taskVars, queueVars
<1>5. Lasting
  BY DEF Lasting, taskVars
<1>6. Places'
  <2>1. Place(t)'
    BY DEF Place, Runs
  <2> QED
    BY <1>0, <2>1, PlacesKept DEF Woke, CallSame
<1>7. Entries'
  <2>1. Entered(t)'
    BY <1>1, <1>3 DEF Entered
  <2> QED
    BY <1>0, <1>3, <2>1, EntriesKept DEF CallSame
<1>8. Handles'
  BY <1>0, <1>5, HandlesKept DEF CallSame, taskVars
<1>9. Births' /\ Sendings' /\ Custody'
  BY <1>0, <1>5, BirthsKept, SendingsKept, CustodyKept DEF taskVars, queueVars
<1>10. Releasing'
  BY <1>0, <1>1, <1>2, <1>3, <1>5, ReleasingKept DEF taskVars
<1>11. Live'
  BY <1>0, LiveKept DEF CallSame
<1>12. Attention'
  <2>1. ASSUME NEW u \in Tasks, state'[u] = "blocked"
        PROVE  SameSleep(u) /\ \A b \in Tasks : Watches(u, b) => NoNews(b)
    <3>1. SameSleep(u)
      BY <1>3, <2>1 DEF SameSleep, CallSame, Runs
    <3>2. \A b \in Tasks : NoNews(b)
      BY DEF NoNews, taskVars
    <3> QED
      BY <3>1, <3>2
  <2> QED
    BY <1>0, <2>1, AttentionKept
<1>13. RefsCounted'
  BY <1>0, RefsKept
<1>14. JoinsCounted'
  <2>1. Joiners(c)' = Joiners(c) \ {t} /\ t \in Joiners(c)
    BY <1>1, <1>3 DEF Joiners
  <2>2. \A b \in Tasks \ {c} : Joiners(b)' = Joiners(b)
    BY <1>1, <1>3 DEF Joiners
  <2>3. Joiners(c) \in SUBSET Tasks
    BY DEF Joiners
  <2>4. Cardinality(Joiners(c)') = Cardinality(Joiners(c)) - 1
    BY <2>1, <2>3, OneLess, FiniteAssumption
  <2> QED
    BY <1>0, <1>1, <1>3, <2>2, <2>4 DEF JoinsCounted
<1> QED
  BY <1>4, <1>6, <1>7, <1>8, <1>9, <1>10, <1>11, <1>12, <1>13, <1>14 DEF IInv

LEMMA PidLockKept ==
    ASSUME CountingLaws, IInv, NEW t \in Tasks, Runs(t), PidLock(t)
    PROVE  IInv'
<1> DEFINE c == found[t]
<1>1. pc[t] = "pid" /\ pc[t] \notin Joining \cup {"any_asleep"}
  BY DEF PidLock, Joining
<1>2. c \in Tasks /\ ppid[c] = t
  BY <1>1 DEF IInv, Handles, Handle, Calling
<1>3. CASE c \notin Children(t)
  BY <1>1, <1>3, ReturnKept DEF PidLock, taskVars
<1>4. CASE c \in Children(t) /\ task_stop_pending(t, c)
  BY <1>1, <1>2, <1>4, TakenKept DEF PidLock, taskVars
<1>5. CASE c \in Children(t) /\ ~task_stop_pending(t, c) /\ state[c] = "dead"
  BY <1>1, <1>2, <1>5, MarkedKept DEF PidLock
<1>6. CASE c \in Children(t) /\ ~task_stop_pending(t, c) /\ state[c] # "dead"
  <2>1. CASE task_has_pending_signals(t)
    BY <1>1, <1>6, <2>1, ReturnKept DEF PidLock, taskVars
  <2>2. CASE ~task_has_pending_signals(t)
    <3>1. state[c] \notin {"dead", "freed"}
      BY <1>6 DEF Children, AllTasks
    <3> QED
      BY <1>1, <1>6, <2>2, <3>1, SleepKept DEF PidLock, Joining, taskVars
  <2> QED
    BY <2>1, <2>2
<1> QED
  BY <1>3, <1>4, <1>5, <1>6

LEMMA PidWokenKept ==
    ASSUME CountingLaws, IInv, NEW t \in Tasks, Runs(t), PidWoken(t)
    PROVE  IInv'
<1>1. pc[t] = "pid_asleep" /\ pc[t] \in Joining
  BY DEF PidWoken, Joining
<1>2. /\ CallTypes' /\ pc'[t] \in {"pid", "pid_intr"} /\ found'[t] = found[t]
      /\ \A u \in Tasks \ {t} : CallSame(u)
  BY DEF IInv, TypeOK, CallTypes, PCs, PidWoken, Goto, CallSame
<1>3. Handle(t)'
  BY <1>1, <1>2 DEF IInv, Handles, Handle, Calling, PidWoken, taskVars
<1>4. LiveCall(t)' /\ pc'[t] \notin Joining \cup {"any_asleep", "gone"}
  BY <1>2 DEF LiveCall, Joining
<1>5. JobTypes' /\ \A c \in Tasks : job_event'[c] \in {job_event[c], 0}
  BY DEF IInv, TypeOK, JobTypes, PidWoken, jobVars
<1> QED
  BY <1>1, <1>2, <1>3, <1>4, <1>5, UnjoinKept DEF PidWoken

LEMMA PidInterruptedKept ==
    ASSUME CountingLaws, IInv, NEW t \in Tasks, Runs(t), PidInterrupted(t)
    PROVE  IInv'
<1> DEFINE c == found[t]
<1>1. pc[t] = "pid_intr" /\ pc[t] \notin Joining \cup {"any_asleep"}
  BY DEF PidInterrupted, Joining
<1>2. c \in Tasks /\ ppid[c] = t
  BY <1>1 DEF IInv, Handles, Handle, Calling
<1>3. CASE c \in Children(t) /\ task_stop_pending(t, c)
  BY <1>1, <1>2, <1>3, TakenKept DEF PidInterrupted, taskVars
<1>4. CASE c \in Children(t) /\ ~task_stop_pending(t, c) /\ state[c] = "dead"
  BY <1>1, <1>2, <1>4, MarkedKept DEF PidInterrupted
<1>5. CASE c \in Children(t) => ~task_stop_pending(t, c) /\ state[c] # "dead"
  BY <1>1, <1>5, ReturnKept DEF PidInterrupted, taskVars
<1> QED
  BY <1>3, <1>4, <1>5

LEMMA FindChildKept ==
    ASSUME CountingLaws, IInv, NEW t \in Tasks, Runs(t), FindChild(t)
    PROVE  IInv'
<1>1. pc[t] = "find" /\ pc[t] \notin Joining \cup {"any_asleep"}
  BY DEF FindChild, Joining
<1>2. CASE Findable(t) = {}
  BY <1>1, <1>2, MovedKept DEF FindChild
<1>3. CASE Findable(t) # {}
  <2>1. PICK c \in Findable(t) : /\ found' = [found EXCEPT ![t] = c]
                                 /\ again' = [again EXCEPT ![t] = waited[c]]
    BY <1>3 DEF FindChild
  <2>2. c \in Tasks /\ ppid[c] = t /\ state[c] \notin {"none", "freed"}
    BY DEF Findable, Children, AllTasks, IInv, TypeOK, QueueTypes, Custody
  <2>3. /\ CallTypes' /\ pc'[t] = "join" /\ found'[t] = c /\ again'[t] = waited[c]
        /\ \A u \in Tasks \ {t} : CallSame(u)
    BY <1>3, <2>1, <2>2, SMT DEF IInv, TypeOK, CallTypes, TaskTypes, PCs, FindChild, Goto, CallSame
  <2>4. TypeOK'
    BY <2>3 DEF IInv, TypeOK, StateTypes, TaskTypes, JobTypes, JoinTypes, QueueTypes, HolderTypes,
                taskVars, jobVars, joinVars, queueVars, FindChild
  <2>5. Handle(t)' /\ LiveCall(t)' /\ pc'[t] \notin Joining \cup {"any_asleep", "gone"}
    BY <2>2, <2>3 DEF Handle, LiveCall, Calling, Joining, FindChild, taskVars
  <2> QED
    BY <1>1, <2>3, <2>4, <2>5, LocalKept DEF Runs, FindChild, taskVars, jobVars, queueVars
<1> QED
  BY <1>2, <1>3

LEMMA JoinKept ==
    ASSUME CountingLaws, IInv, NEW t \in Tasks, Runs(t), Join(t)
    PROVE  IInv'
<1> DEFINE c == found[t]
<1>1. pc[t] = "join" /\ pc[t] \notin Joining \cup {"any_asleep"}
  BY DEF Join, Joining
<1>2. c \in Tasks /\ ppid[c] = t
  BY <1>1 DEF IInv, Handles, Handle, Calling
<1>3. again[t] \/ state[c] # "freed"
  BY <1>1 DEF IInv, Live, LiveCall
<1> USE DEF Join
<1>4. CASE /\ task_stop_pending(t, c) /\ TakeStop(c) /\ Goto(t, "reap")
           /\ UNCHANGED <<state, queued, joinVars>>
  BY <1>1, <1>2, <1>4, TakenKept
<1>5. CASE Goto(t, "mark") /\ UNCHANGED <<state, queued, joinVars, jobVars>>
  BY <1>1, <1>3, <1>5, MovedKept
<1>6. CASE Goto(t, "garbage") /\ UNCHANGED <<state, queued, joinVars, jobVars>>
  BY <1>1, <1>6, MovedKept
<1>7. CASE /\ state[c] \notin {"dead", "freed"} /\ ~task_stop_pending(t, c)
           /\ SleepOn(t, c) /\ Goto(t, "join_asleep") /\ UNCHANGED jobVars
  BY <1>1, <1>7, SleepKept DEF Joining
<1> QED
  BY <1>4, <1>5, <1>6, <1>7

LEMMA JoinWokenKept ==
    ASSUME CountingLaws, IInv, NEW t \in Tasks, Runs(t), JoinWoken(t)
    PROVE  IInv'
<1> DEFINE c == found[t]
<1>1. pc[t] = "join_asleep" /\ pc[t] \in Joining
  BY DEF JoinWoken, Joining
<1>2. c \in Tasks
  BY <1>1 DEF IInv, Handles, Handle, Calling
<1>3. /\ CallTypes' /\ \A u \in Tasks \ {t} : CallSame(u)
      /\ \/ pc'[t] \in {"user", "reap"}
         \/ pc'[t] = "mark" /\ found'[t] = c /\ again'[t] = again[t] /\ state[c] = "dead"
  <2>1. CASE Return(t)
    BY <2>1, ReturnTypes DEF IInv, TypeOK
  <2>2. CASE Goto(t, "reap") /\ UNCHANGED <<wait_options, found, again>>
    BY <2>2, GotoTypes DEF IInv, TypeOK, PCs
  <2>3. CASE state[c] = "dead" /\ Goto(t, "mark") /\ UNCHANGED <<wait_options, found, again>>
    BY <2>3, GotoTypes DEF IInv, TypeOK, PCs
  <2> QED
    BY <2>1, <2>2, <2>3 DEF JoinWoken
<1>4. Handle(t)'
  BY <1>1, <1>3 DEF IInv, Handles, Handle, Calling, JoinWoken, taskVars
<1>5. LiveCall(t)' /\ pc'[t] \notin Joining \cup {"any_asleep", "gone"}
  BY <1>3 DEF LiveCall, Joining, JoinWoken
<1>6. JobTypes' /\ \A b \in Tasks : job_event'[b] \in {job_event[b], 0}
  BY <1>2, SMT DEF IInv, TypeOK, JobTypes, JoinWoken, TakeStop, jobVars
<1> QED
  BY <1>1, <1>3, <1>4, <1>5, <1>6, UnjoinKept DEF JoinWoken

LEMMA MarkKept ==
    ASSUME CountingLaws, IInv, NEW t \in Tasks, Runs(t), Mark(t)
    PROVE  IInv'
<1>1. pc[t] = "mark" /\ pc[t] \notin Joining \cup {"any_asleep"}
  BY DEF Mark, Joining
<1>2. found[t] \in Tasks /\ ppid[found[t]] = t
  BY <1>1 DEF IInv, Handles, Handle, Calling
<1> QED
  BY <1>1, <1>2, MarkedKept DEF Mark

(* The call for any child blocks: no child on the dead queue has news, so  *)
(* a dead child is in the hands of a reaper.                               *)
LEMMA SleepAnyKept ==
    ASSUME CountingLaws, IInv, NEW t \in Tasks, Runs(t), pc[t] = "prep", Findable(t) = {},
           NEW b \in Children(t), join_target' = [join_target EXCEPT ![t] = b],
           waiting_for_any_child' = [waiting_for_any_child EXCEPT ![t] = TRUE],
           state' = [state EXCEPT ![t] = "blocked"], Goto(t, "any_asleep"),
           UNCHANGED <<join_refs, wait_options, found, again, queued, taskVars, refs, pending,
                       jobVars, queueVars, sender, reaper>>
    PROVE  IInv'
<1>0. /\ TypeOK /\ Places /\ Entries /\ Handles /\ Births /\ Sendings /\ Custody /\ Releasing
      /\ Live /\ Attention /\ RefsCounted /\ JoinsCounted
  BY DEF IInv
<1>1. CallTypes' /\ pc'[t] = "any_asleep" /\ \A u \in Tasks \ {t} : CallSame(u)
  BY GotoTypes DEF IInv, TypeOK, PCs
<1>2. b \in Tasks
  BY DEF Children, AllTasks
<1>3. /\ StateTypes' /\ JoinTypes'
      /\ state'[t] = "blocked" /\ \A u \in Tasks \ {t} : state'[u] = state[u]
      /\ \A u \in Tasks \ {t} : /\ join_target'[u] = join_target[u]
                                /\ waiting_for_any_child'[u] = waiting_for_any_child[u]
      /\ waiting_for_any_child'[t]
  BY <1>0, <1>2 DEF TypeOK, StateTypes, JoinTypes, States
<1>4. TypeOK'
  BY <1>0, <1>1, <1>3 DEF TypeOK, TaskTypes, JobTypes, QueueTypes,
              HolderTypes, taskVars, jobVars, queueVars
<1>5. Lasting
  BY <1>3 DEF Lasting, Runs, taskVars
<1>6. join_target[t] = NoTask /\ ~waiting_for_any_child[t] /\ ~queued[t]
  BY <1>0 DEF Entries, Entered, Joining
<1>7. Places'
  <2>1. Place(t)'
    BY <1>1, <1>3 DEF Place
  <2> QED
    BY <1>0, <1>1, <1>3, <2>1, PlacesKept DEF Woke, CallSame
<1>8. Entries'
  <2>1. Entered(t)'
    BY <1>1, <1>3, <1>6 DEF Entered, Joining
  <2> QED
    BY <1>0, <1>1, <1>3, <2>1, EntriesKept DEF CallSame
<1>9. Handles'
  <2>1. Handle(t)'
    BY <1>1 DEF Handle, Calling
  <2> QED
    BY <1>0, <1>1, <1>5, <2>1, HandlesKept DEF CallSame, taskVars
<1>10. Births' /\ Sendings'
  BY <1>0, <1>5, BirthsKept, SendingsKept DEF taskVars
<1>11. Custody'
  BY <1>0, <1>3, CustodyKept DEF Runs, queueVars
<1>12. Releasing'
  BY <1>0, <1>5, ReleasingKept DEF taskVars
<1>13. Live'
  <2>1. LiveCall(t)'
    BY <1>1 DEF LiveCall, Joining
  <2> QED
    BY <1>0, <1>1, <1>3, <2>1, LiveKept DEF CallSame
<1>14. Attention'
  <2>1. ASSUME NEW c \in Tasks, c \in Children(t)'
        PROVE  /\ ~task_stop_pending(t, c)'
               /\ state'[c] = "dead" => \E x \in Reapers : c \in Held(x)'
    <3>1. c # t /\ c \in Children(t) /\ state'[c] = state[c]
      BY <1>0, <1>3, <2>1, SMT DEF Births, Children, AllTasks, taskVars
    <3>2. c \notin dead_queue /\ ~task_stop_pending(t, c)
      BY <3>1 DEF Findable, Children
    <3>3. ~task_stop_pending(t, c)'
      BY <3>1, <3>2 DEF task_stop_pending, taskVars, jobVars
    <3>4. state[c] = "dead" => \E x \in Reapers : c \in Held(x)
      BY <1>0, <3>2 DEF Custody
    <3> QED
      BY <3>1, <3>3, <3>4 DEF Held
  <2>2. Attended(t)'
    BY <1>1, <1>3, <2>1 DEF Attended, Children, AllTasks
  <2>3. ASSUME NEW u \in Tasks \ {t}, state'[u] = "blocked"
        PROVE  SameSleep(u) /\ \A c \in Tasks : Watches(u, c) => NoNews(c)
    <3>1. SameSleep(u)
      BY <1>1, <1>3, <2>3 DEF SameSleep, CallSame
    <3>2. \A c \in Tasks : NoNews(c)
      BY <1>3 DEF NoNews, taskVars, jobVars, Runs
    <3> QED
      BY <3>1, <3>2
  <2> QED
    BY <1>0, <2>2, <2>3, AttentionKept
<1>15. RefsCounted'
  BY <1>0, RefsKept
<1>16. JoinsCounted'
  <2>1. ASSUME NEW c \in Tasks PROVE Joiners(c)' = Joiners(c)
    BY <1>3, <1>6 DEF Joiners
  <2> QED
    BY <1>0, <2>1 DEF JoinsCounted
<1> QED
  BY <1>4, <1>7, <1>8, <1>9, <1>10, <1>11, <1>12, <1>13, <1>14, <1>15, <1>16 DEF IInv

LEMMA PrepareWaitAnyKept ==
    ASSUME CountingLaws, IInv, NEW t \in Tasks, Runs(t), PrepareWaitAny(t)
    PROVE  IInv'
<1>1. pc[t] = "prep" /\ pc[t] \notin Joining \cup {"any_asleep"}
  BY DEF PrepareWaitAny, Joining
<1> USE DEF PrepareWaitAny
<1>2. CASE Goto(t, "find") /\ UNCHANGED <<state, joinVars, wait_options, found, again>>
  BY <1>1, <1>2, MovedKept
<1>3. CASE Return(t) /\ UNCHANGED <<state, joinVars>>
  BY <1>1, <1>3, ReturnKept
<1>4. CASE /\ Findable(t) = {}
           /\ \E b \in Children(t) : join_target' = [join_target EXCEPT ![t] = b]
           /\ waiting_for_any_child' = [waiting_for_any_child EXCEPT ![t] = TRUE]
           /\ state' = [state EXCEPT ![t] = "blocked"]
           /\ Goto(t, "any_asleep")
           /\ UNCHANGED <<join_refs, wait_options, found, again>>
  BY <1>1, <1>4, SleepAnyKept
<1> QED
  BY <1>2, <1>3, <1>4

LEMMA FinishWaitAnyKept ==
    ASSUME CountingLaws, IInv, NEW t \in Tasks, Runs(t), FinishWaitAny(t)
    PROVE  IInv'
<1>0. /\ TypeOK /\ Places /\ Entries /\ Handles /\ Births /\ Sendings /\ Custody /\ Releasing
      /\ Live /\ Attention /\ RefsCounted /\ JoinsCounted
  BY DEF IInv
<1>1. CallTypes' /\ pc'[t] \in {"user", "find"} /\ \A u \in Tasks \ {t} : CallSame(u)
  <2>1. CASE Return(t)
    BY <1>0, <2>1, ReturnTypes DEF TypeOK
  <2>2. CASE Goto(t, "find") /\ UNCHANGED <<wait_options, found, again>>
    BY <1>0, <2>2, GotoTypes DEF TypeOK, PCs
  <2> QED
    BY <2>1, <2>2 DEF FinishWaitAny
<1>2. /\ JoinTypes' /\ join_target'[t] = NoTask /\ ~waiting_for_any_child'[t]
      /\ \A u \in Tasks \ {t} : /\ join_target'[u] = join_target[u]
                                /\ waiting_for_any_child'[u] = waiting_for_any_child[u]
      /\ join_refs' = join_refs
  BY <1>0 DEF TypeOK, JoinTypes, FinishWaitAny
<1>3. /\ state' = state /\ queued' = queued /\ ppid' = ppid /\ waited' = waited /\ refs' = refs
      /\ job_event' = job_event /\ dead_queue' = dead_queue /\ sender' = sender /\ reaper' = reaper
  BY DEF FinishWaitAny, taskVars, jobVars, queueVars
<1>4. TypeOK'
  BY <1>0, <1>1, <1>2 DEF TypeOK, StateTypes, TaskTypes, JobTypes, QueueTypes, HolderTypes,
                     FinishWaitAny, taskVars, jobVars, queueVars
<1>5. Lasting
  BY <1>3 DEF Lasting
<1>6. pc[t] = "any_asleep" /\ waiting_for_any_child[t] /\ ~queued[t]
  BY <1>0 DEF FinishWaitAny, Entries, Entered, Joining
<1>7. Places' /\ Entries'
  <2>1. Place(t)' /\ Entered(t)'
    BY <1>1, <1>2, <1>3, <1>6 DEF Place, Entered, Runs, Joining
  <2>2. Places'
    BY <1>0, <1>1, <1>3, <2>1, PlacesKept DEF Woke, CallSame
  <2> QED
    BY <1>0, <1>1, <1>2, <1>3, <2>1, <2>2, EntriesKept DEF CallSame
<1>8. Handles'
  <2>1. Handle(t)'
    BY <1>1 DEF Handle, Calling
  <2> QED
    BY <1>0, <1>1, <1>3, <1>5, <2>1, HandlesKept DEF CallSame
<1>9. Births' /\ Sendings' /\ Custody' /\ Releasing'
  BY <1>0, <1>2, <1>3, <1>5, BirthsKept, SendingsKept, CustodyKept, ReleasingKept
<1>10. Live'
  <2>1. LiveCall(t)'
    BY <1>1 DEF LiveCall, Joining
  <2> QED
    BY <1>0, <1>1, <1>3, <2>1, LiveKept DEF CallSame
<1>11. Attention'
  <2>1. ASSUME NEW u \in Tasks, state'[u] = "blocked"
        PROVE  SameSleep(u) /\ \A c \in Tasks : Watches(u, c) => NoNews(c)
    <3>1. SameSleep(u)
      BY <1>1, <1>2, <1>3, <2>1 DEF SameSleep, CallSame, Runs
    <3>2. \A c \in Tasks : NoNews(c)
      BY <1>3 DEF NoNews
    <3> QED
      BY <3>1, <3>2
  <2> QED
    BY <1>0, <1>3, <2>1, AttentionKept
<1>12. RefsCounted'
  BY <1>0, <1>3, RefsKept
<1>13. JoinsCounted'
  <2>1. ASSUME NEW c \in Tasks PROVE Joiners(c)' = Joiners(c)
    BY <1>2, <1>6 DEF Joiners
  <2> QED
    BY <1>0, <1>2, <2>1 DEF JoinsCounted
<1> QED
  BY <1>4, <1>7, <1>8, <1>9, <1>10, <1>11, <1>12, <1>13 DEF IInv

-----------------------------------------------------------------------------
(***************************************************************************)
(* Signals, stops and deaths                                               *)
(***************************************************************************)

(* The senders keep their references, whatever else they do. *)
SendersMove ==
    /\ \A x \in Senders : sender'[x] = sender[x] \/ Sending(x)'
    /\ \A k \in Killers : /\ sender'[k].to = sender[k].to
                          /\ sender'[k].at # "idle" => sender[k].at # "idle"

LEMMA AtMoves ==
    ASSUME TypeOK, Sendings, Lasting, NEW k \in Killers, NEW l \in {"chld", "release"},
           sender[k].at # "idle", At(k, l)
    PROVE  SendersMove /\ sender' \in [Senders -> SenderRecord]
<1>1. /\ sender' \in [Senders -> SenderRecord]
      /\ sender'[k].at = l /\ sender'[k].to = sender[k].to
      /\ \A x \in Senders \ {k} : sender'[x] = sender[x]
  BY SMT DEF TypeOK, HolderTypes, At, SenderRecord
<1>2. Sending(k)'
  BY <1>1 DEF Sendings, Sending, Lasting
<1> QED
  BY <1>1, <1>2 DEF SendersMove

(* Tasks are woken and signals change hands. *)
LEMMA WokenKept ==
    ASSUME CountingLaws, IInv, TypeOK', SendersMove,
           \A u \in Tasks : \/ state'[u] = state[u] /\ queued'[u] = queued[u]
                            \/ /\ state[u] \in {"ready", "stopped", "blocked"}
                               /\ state'[u] = "ready" /\ (queued'[u] => queued[u]),
           UNCHANGED <<ppid, waited, refs, joinVars, callVars, job_event, dead_queue, reaper>>
    PROVE  IInv'
<1>1. /\ TypeOK /\ Places /\ Entries /\ Handles /\ Births /\ Sendings /\ Custody /\ Releasing
      /\ Live /\ Attention /\ RefsCounted /\ JoinsCounted
  BY DEF IInv
<1>2. Lasting
  BY DEF Lasting
<1>3. Places'
  <2>1. ASSUME NEW u \in Tasks PROVE (pc'[u] = pc[u] /\ Woke(u)) \/ Place(u)'
    BY <1>1 DEF Places, Place, Woke, callVars
  <2> QED
    BY <1>1, <2>1, PlacesKept
<1>4. Entries'
  BY <1>1, EntriesKept DEF callVars, joinVars
<1>5. Handles'
  BY <1>1, <1>2, HandlesKept DEF callVars
<1>6. Births' /\ Sendings'
  BY <1>1, <1>2, BirthsKept, SendingsKept DEF SendersMove
<1>7. Custody'
  BY <1>1, CustodyKept
<1>8. Releasing'
  BY <1>1, <1>2, ReleasingKept DEF joinVars
<1>9. Live'
  BY <1>1, LiveKept DEF callVars, SendersMove
<1>10. Attention'
  <2>1. ASSUME NEW u \in Tasks, state'[u] = "blocked"
        PROVE  SameSleep(u) /\ \A c \in Tasks : Watches(u, c) => NoNews(c)
    <3>1. SameSleep(u)
      BY <2>1 DEF SameSleep, callVars, joinVars
    <3>2. \A c \in Tasks : NoNews(c)
      BY DEF NoNews
    <3> QED
      BY <3>1, <3>2
  <2> QED
    BY <1>1, <2>1, AttentionKept
<1>11. RefsCounted'
  BY <1>1, RefsKept DEF SendersMove
<1>12. JoinsCounted'
  BY <1>1, JoinsKept DEF joinVars
<1> QED
  BY <1>3, <1>4, <1>5, <1>6, <1>7, <1>8, <1>9, <1>10, <1>11, <1>12 DEF IInv

(* Who is told of a stop, a continuation or a death: after it no sleeper   *)
(* waits for news of t.                                                    *)
LEMMA AnnounceHeard ==
    ASSUME CountingLaws, IInv, NEW t \in Tasks, NEW s \in States, Announce(t, s), ppid' = ppid,
           s = "blocked" => state[t] = "blocked"
    PROVE  /\ StateTypes' /\ state'[t] = s
           /\ \A u \in Tasks : (u # t => Woke(u)) /\ (queued'[u] => queued[u])
           /\ \A u \in Tasks : state'[u] = "blocked" =>
                 state[u] = "blocked" /\ queued'[u] = queued[u] /\ ~Watches(u, t)
<1> DEFINE joined == {u \in Tasks : queued[u] /\ join_target[u] = t}
           woken == {u \in joined : state[u] = "blocked"} \cup WaitingParents({t})
<1>0. TypeOK /\ Places /\ Entries /\ Handles /\ Births /\ Attention
  BY DEF IInv
<1>1. /\ state' = [u \in Tasks |-> IF u = t THEN s ELSE IF u \in woken THEN "ready" ELSE state[u]]
      /\ queued' = [u \in Tasks |-> queued[u] /\ u \notin joined]
  BY DEF Announce
<1>2. woken \subseteq {u \in Tasks : state[u] = "blocked"}
  BY DEF WaitingParents
<1>3. StateTypes'
  BY <1>0, <1>1 DEF TypeOK, StateTypes, States
<1>4. state'[t] = s /\ \A u \in Tasks : (u # t => Woke(u)) /\ (queued'[u] => queued[u])
  BY <1>1, <1>2 DEF Woke
<1>5. ASSUME NEW u \in Tasks, state'[u] = "blocked"
      PROVE  state[u] = "blocked" /\ queued'[u] = queued[u] /\ ~Watches(u, t)
  <2>1. state[u] = "blocked" /\ Attended(u) /\ pc[u] \in Joining \cup {"any_asleep"}
    BY <1>0, <1>1, <1>5 DEF Attention, Places, Place
  <2>2. u = t => ~Watches(u, t)
    BY <1>0, <2>1, SMT DEF Watches, Births, Handles, Handle, Joining, Calling
  <2>3. CASE u # t
    <3>1. u \notin woken
      BY <1>1, <1>5, <2>3
    <3>2. ~Watches(u, t)
      <4>1. CASE pc[u] = "any_asleep"
        BY <2>1, <3>1, <4>1 DEF Attended, WaitingParents, Watches
      <4>2. CASE pc[u] # "any_asleep"
        BY <2>1, <3>1, <4>2 DEF Attended, Watches
      <4> QED
        BY <4>1, <4>2
    <3>3. u \notin joined
      BY <2>1, <3>1
    <3> QED
      BY <1>0, <1>1, <2>1, <3>2, <3>3 DEF TypeOK, StateTypes
  <2>4. CASE u = t
    <3>1. u \notin joined
      BY <1>0, <2>1, <2>2, <2>4 DEF Entries, Entered, Watches, Joining
    <3> QED
      BY <1>0, <1>1, <2>1, <2>2, <2>4, <3>1 DEF TypeOK, StateTypes
  <2> QED
    BY <2>3, <2>4
<1> QED
  BY <1>3, <1>4, <1>5

(* t stops, goes on or dies. *)
LEMMA AnnounceKept ==
    ASSUME CountingLaws, IInv, TypeOK', SendersMove, NEW t \in Tasks, NEW s \in States \ {"none",
           "freed"},
           Announce(t, s), state[t] \notin {"none", "dead", "freed"},
           s = "blocked" => state[t] = "blocked",
           \A u \in Tasks \ {t} : CallSame(u) /\ job_event'[u] = job_event[u],
           \/ CallSame(t)
           \/ pc'[t] \in {"gone", "stopped"} /\ pc[t] \notin Joining \cup {"any_asleep"},
           Place(t)', dead_queue' = IF s = "dead" THEN dead_queue \cup {t} ELSE dead_queue,
           UNCHANGED <<ppid, waited, refs, joinVars, reaper>>
    PROVE  IInv'
<1>0. /\ TypeOK /\ Places /\ Entries /\ Handles /\ Births /\ Sendings /\ Custody /\ Releasing
      /\ Live /\ Attention /\ RefsCounted /\ JoinsCounted
  BY DEF IInv
<1>1. /\ state'[t] = s
      /\ \A u \in Tasks : (u # t => Woke(u)) /\ (queued'[u] => queued[u])
      /\ \A u \in Tasks : state'[u] = "blocked" =>
            state[u] = "blocked" /\ queued'[u] = queued[u] /\ ~Watches(u, t)
  BY AnnounceHeard
<1>2. Lasting
  BY <1>1 DEF Lasting, Woke
<1>3. Places'
  BY <1>0, <1>1, PlacesKept DEF CallSame
<1>4. Entries'
  <2>1. CASE CallSame(t)
    BY <1>0, <1>1, <2>1, EntriesKept DEF CallSame, joinVars
  <2>2. CASE pc'[t] \in {"gone", "stopped"} /\ pc[t] \notin Joining \cup {"any_asleep"}
    <3>1. Entered(t)'
      BY <1>0, <1>1, <2>2 DEF Entries, Entered, Joining, joinVars
    <3> QED
      BY <1>0, <1>1, <3>1, EntriesKept DEF CallSame, joinVars
  <2> QED
    BY <2>1, <2>2
<1>5. CallSame(t) \/ (Handle(t)' /\ LiveCall(t)')
  BY DEF Handle, LiveCall, Calling, Joining
<1>6. Handles'
  BY <1>0, <1>2, <1>5, HandlesKept DEF CallSame
<1>7. Births' /\ Sendings'
  BY <1>0, <1>2, BirthsKept, SendingsKept DEF SendersMove
<1>8. Custody'
  <2>1. CASE s # "dead"
    BY <1>0, <1>1, <2>1, CustodyKept DEF Woke
  <2>2. CASE s = "dead"
    <3>1. \A x \in Reapers : Hand(x)' = Hand(x) /\ Held(x)' = Held(x)
      BY DEF Hand, Held
    <3>2. \A c \in Tasks : state'[c] = "dead" <=> state[c] = "dead" \/ c = t
      BY <1>1, <2>2 DEF Woke
    <3>3. dead_queue' = dead_queue \cup {t} /\ dead_queue \subseteq Tasks
      BY <1>0, <2>2 DEF TypeOK, QueueTypes
    <3>4. \A x \in Reapers : t \notin Held(x)
      BY <1>0 DEF Custody
    <3> QED
      BY <1>0, <3>1, <3>2, <3>3, <3>4, SMT DEF Custody
  <2> QED
    BY <2>1, <2>2
<1>9. Releasing'
  BY <1>0, <1>2, ReleasingKept DEF joinVars
<1>10. Live'
  BY <1>0, <1>1, <1>5, LiveKept DEF CallSame, SendersMove, Woke
<1>11. Attention'
  <2>1. ASSUME NEW u \in Tasks, state'[u] = "blocked"
        PROVE  SameSleep(u) /\ \A c \in Tasks : Watches(u, c) => NoNews(c)
    <3>1. CallSame(u)
      BY <2>1 DEF Place, Joining
    <3>2. SameSleep(u)
      BY <1>1, <2>1, <3>1 DEF SameSleep, CallSame, joinVars
    <3>3. \A c \in Tasks \ {t} : NoNews(c)
      BY <1>1 DEF NoNews, Woke
    <3> QED
      BY <1>1, <2>1, <3>2, <3>3
  <2> QED
    BY <1>0, <2>1, AttentionKept
<1>12. RefsCounted' /\ JoinsCounted'
  BY <1>0, RefsKept, JoinsKept DEF SendersMove, joinVars
<1> QED
  BY <1>3, <1>4, <1>6, <1>7, <1>8, <1>9, <1>10, <1>11, <1>12 DEF IInv

(* The tasks of a step: one that runs, and one that a sender names. *)
LEMMA SenderFacts ==
    ASSUME CountingLaws, IInv, NEW k \in Killers, sender[k].at # "idle",
           state[sender[k].to] # "dead"
    PROVE  /\ sender[k].to \in Tasks
           /\ state[sender[k].to] \in {"ready", "blocked", "stopped"}
<1>1. sender[k].to \in Tasks /\ state[sender[k].to] # "none"
  BY DEF IInv, Sendings, Sending
<1>2. state[sender[k].to] # "freed"
  BY DEF IInv, Live, LiveSender
<1> QED
  BY <1>1, <1>2 DEF IInv, TypeOK, StateTypes, States

(* A task that dies or stops sends for itself. *)
LEMMA SelfMoves ==
    ASSUME CountingLaws, IInv, Lasting, NEW t \in Tasks, state[t] = "ready", NEW w \in {"kill",
           "cont"},
           sender' = [sender EXCEPT ![t] = [at |-> "chld", to |-> t, what |-> w]]
    PROVE  SendersMove /\ sender' \in [Senders -> SenderRecord]
<1> DEFINE r == [at |-> "chld", to |-> t, what |-> w]
<1>1. r \in SenderRecord /\ r.at = "chld" /\ r.to = t
  BY DEF SenderRecord
<1>2. sender' = [sender EXCEPT ![t] = r] /\ sender \in [Senders -> SenderRecord]
  BY DEF IInv, TypeOK, HolderTypes
<1> HIDE DEF r
<1>3. /\ sender' \in [Senders -> SenderRecord] /\ sender'[t] = r
      /\ \A x \in Senders \ {t} : sender'[x] = sender[x]
  BY <1>1, <1>2, SMT
<1>4. Sending(t)'
  BY <1>1, <1>3 DEF Sending, Lasting
<1> QED
  BY <1>3, <1>4 DEF SendersMove

(* The parts of TypeOK that a step of Announce leaves. *)
LEMMA AnnounceLasts ==
    ASSUME CountingLaws, IInv, NEW t \in Tasks, NEW s \in States \ {"none", "freed"}, Announce(t,
           s),
           state[t] \notin {"none", "freed"}, UNCHANGED ppid
    PROVE  Lasting /\ StateTypes'
BY DEF Announce, Lasting, WaitingParents, IInv, TypeOK, StateTypes, States

(* Die, for Exit and for task_kill. *)
LEMMA DieKept ==
    ASSUME CountingLaws, IInv, NEW t \in Tasks, NEW on \in BOOLEAN, Die(t, on),
           state[t] \in {"ready", "stopped"}, pc[t] \in {"user", "stopped"},
           SendersMove, sender' \in [Senders -> SenderRecord],
           UNCHANGED <<taskVars, refs, pending, jobVars, joinVars, wait_options, found,
                       again, reap_requested, reaper>>
    PROVE  IInv'
<1>1. /\ Announce(t, "dead") /\ dead_queue' = dead_queue \cup {t}
      /\ oncpu' = [oncpu EXCEPT ![t] = on] /\ Goto(t, "gone")
  BY DEF Die
<1>2. CallTypes' /\ pc'[t] = "gone" /\ \A u \in Tasks \ {t} : CallSame(u)
  BY <1>1, GotoTypes DEF IInv, TypeOK, PCs
<1>3. StateTypes'
  BY <1>1, AnnounceLasts DEF States, taskVars
<1>4. TypeOK'
  BY <1>1, <1>2, <1>3 DEF IInv, TypeOK, TaskTypes, JobTypes, JoinTypes, QueueTypes, HolderTypes,
                          taskVars, jobVars, joinVars
<1>5. Place(t)'
  BY <1>1, <1>2 DEF Place, Announce
<1> QED
  BY <1>1, <1>2, <1>4, <1>5, AnnounceKept DEF States, Joining, taskVars, jobVars

LEMMA ExitKept ==
    ASSUME CountingLaws, IInv, NEW t \in Tasks, Runs(t), Exit(t)
    PROVE  IInv'
<1>1. Lasting
  BY AnnounceLasts DEF Exit, Die, Runs, States, taskVars
<1>2. SendersMove /\ sender' \in [Senders -> SenderRecord]
  BY <1>1, SelfMoves DEF Exit, Runs
<1> QED
  BY <1>2, DieKept DEF Exit, Runs

LEMMA SendKillDirectKept ==
    ASSUME CountingLaws, IInv, NEW k \in Killers, SendKillDirect(k)
    PROVE  IInv'
<1> DEFINE t == sender[k].to
<1>1. t \in Tasks /\ state[t] \in {"ready", "blocked", "stopped"}
  BY SenderFacts DEF SendKillDirect
<1>2. state[t] \in {"ready", "stopped"} /\ pc[t] \in {"user", "stopped"}
  BY <1>1 DEF SendKillDirect, KillDirect, Runs, IInv, Places, Place
<1>3. Lasting
  BY <1>1, AnnounceLasts DEF SendKillDirect, Die, States, taskVars
<1>4. SendersMove /\ sender' \in [Senders -> SenderRecord]
  BY <1>3, AtMoves DEF SendKillDirect, IInv
<1> HIDE DEF t
<1> QED
  BY <1>1, <1>2, <1>4, DieKept DEF SendKillDirect, t

LEMMA JobStopKept ==
    ASSUME CountingLaws, IInv, NEW t \in Tasks, Runs(t), JobStop(t)
    PROVE  IInv'
<1>1. Lasting /\ StateTypes'
  BY AnnounceLasts DEF JobStop, Runs, States, taskVars
<1>2. SendersMove /\ sender' \in [Senders -> SenderRecord]
  BY <1>1, SelfMoves DEF JobStop, Runs
<1>3. CallTypes' /\ pc'[t] = "stopped" /\ \A u \in Tasks \ {t} : CallSame(u)
  BY GotoTypes DEF JobStop, IInv, TypeOK, PCs
<1>4. JobTypes' /\ TaskTypes' /\ \A u \in Tasks \ {t} : job_event'[u] = job_event[u]
  BY SMT DEF JobStop, IInv, TypeOK, JobTypes, TaskTypes, taskVars
<1>5. TypeOK'
  BY <1>1, <1>2, <1>3, <1>4 DEF JobStop, IInv, TypeOK, JoinTypes, QueueTypes, HolderTypes,
                                joinVars, queueVars
<1>6. Place(t)'
  BY <1>3 DEF Place, Announce, JobStop
<1>7. pc[t] \notin Joining \cup {"any_asleep"} /\ state[t] = "ready"
  BY DEF JobStop, Joining, Runs
<1> QED
  BY <1>2, <1>3, <1>4, <1>5, <1>6, <1>7, AnnounceKept DEF JobStop, States, taskVars, queueVars

LEMMA SendContinueKept ==
    ASSUME CountingLaws, IInv, NEW k \in Killers, SendContinue(k)
    PROVE  IInv'
<1>1. PICK t \in Tasks : t = sender[k].to /\ state[t] \in {"ready", "blocked", "stopped"}
  BY SenderFacts DEF SendContinue
<1>2. TaskTypes'
  BY <1>1 DEF SendContinue, IInv, TypeOK, TaskTypes, taskVars
<1>3. CASE job_stopped[t]
  <2> DEFINE s == IF state[t] = "stopped" THEN "ready" ELSE state[t]
  <2>1. /\ s \in States \ {"none", "freed", "dead", "stopped"}
        /\ s = "blocked" => state[t] = "blocked"
    BY <1>1 DEF States
  <2>2. Announce(t, s)
    BY <1>1, <1>3 DEF SendContinue
  <2> HIDE DEF s
  <2>3. Lasting /\ StateTypes'
    BY <1>1, <2>1, <2>2, AnnounceLasts DEF SendContinue, taskVars
  <2>4. SendersMove /\ sender' \in [Senders -> SenderRecord]
    BY <1>1, <1>3, <2>3, AtMoves DEF SendContinue, IInv
  <2>5. JobTypes' /\ \A u \in Tasks \ {t} : job_event'[u] = job_event[u]
    <3>1. /\ job_stopped' = [job_stopped EXCEPT ![t] = FALSE]
          /\ job_event' = [job_event EXCEPT ![t] = 2]
      BY <1>1, <1>3 DEF SendContinue
    <3> QED
      BY <3>1, SMT DEF IInv, TypeOK, JobTypes
  <2>6. TypeOK'
    BY <1>2, <2>3, <2>4, <2>5 DEF SendContinue, IInv, TypeOK, JoinTypes, CallTypes, QueueTypes,
                                  HolderTypes, joinVars, callVars, queueVars
  <2>7. \A u \in Tasks : CallSame(u)
    BY DEF SendContinue, CallSame, callVars
  <2>8. Place(t)'
    <3>1. state'[t] = s /\ pc'[t] = pc[t]
      BY <2>2 DEF Announce, SendContinue, callVars
    <3> QED
      BY <1>1, <2>1, <3>1 DEF Place, IInv, Places
  <2>9. /\ dead_queue' = dead_queue
        /\ UNCHANGED <<ppid, waited, refs, joinVars, reaper>>
    BY DEF SendContinue, taskVars, queueVars
  <2> QED
    BY <1>1, <2>1, <2>2, <2>4, <2>5, <2>6, <2>7, <2>8, <2>9, AnnounceKept
<1>4. CASE ~job_stopped[t]
  <2>1. UNCHANGED <<jobVars, state, queued>>
    BY <1>1, <1>4 DEF SendContinue
  <2>2. Lasting
    BY <2>1 DEF Lasting, SendContinue, taskVars
  <2>3. SendersMove /\ sender' \in [Senders -> SenderRecord]
    BY <1>1, <1>4, <2>2, AtMoves DEF SendContinue, IInv
  <2>4. TypeOK'
    BY <1>2, <2>1, <2>3 DEF SendContinue, IInv, TypeOK, StateTypes, JobTypes, JoinTypes, CallTypes,
                       QueueTypes, HolderTypes, jobVars, joinVars, callVars, queueVars
  <2> QED
    BY <2>1, <2>3, <2>4, WokenKept DEF SendContinue, taskVars, jobVars, queueVars
<1> QED
  BY <1>3, <1>4

LEMMA SendKillDeferredKept ==
    ASSUME CountingLaws, IInv, NEW k \in Killers, SendKillDeferred(k)
    PROVE  IInv'
<1>1. PICK t \in Tasks : t = sender[k].to /\ state[t] \in {"ready", "blocked", "stopped"}
  BY SenderFacts DEF SendKillDeferred
<1>2. /\ exit_pending' = [exit_pending EXCEPT ![t] = TRUE]
      /\ state' = [state EXCEPT ![t] = "ready"] /\ queued' = [queued EXCEPT ![t] = FALSE]
  BY <1>1 DEF SendKillDeferred
<1>3. StateTypes' /\ TaskTypes'
  BY <1>2 DEF SendKillDeferred, IInv, TypeOK, StateTypes, TaskTypes, States
<1>4. \A u \in Tasks : \/ state'[u] = state[u] /\ queued'[u] = queued[u]
                       \/ /\ state[u] \in {"ready", "stopped", "blocked"}
                          /\ state'[u] = "ready" /\ (queued'[u] => queued[u])
  BY <1>1, <1>2 DEF IInv, TypeOK, StateTypes
<1>5. Lasting
  BY <1>4 DEF Lasting, SendKillDeferred
<1>6. SendersMove /\ sender' \in [Senders -> SenderRecord]
  BY <1>5, AtMoves DEF SendKillDeferred, IInv
<1>7. TypeOK'
  BY <1>3, <1>6 DEF SendKillDeferred, IInv, TypeOK, JobTypes, JoinTypes, CallTypes,
                    QueueTypes, HolderTypes, jobVars, joinVars, callVars, queueVars
<1> QED
  BY <1>4, <1>6, <1>7, WokenKept DEF SendKillDeferred, jobVars, queueVars

LEMMA WakeTaskEffect ==
    ASSUME StateTypes, NEW t \in Tasks, WakeTask(t)
    PROVE  /\ StateTypes'
           /\ \A u \in Tasks : \/ state'[u] = state[u] /\ queued'[u] = queued[u]
                               \/ /\ state[u] \in {"ready", "stopped", "blocked"}
                                  /\ state'[u] = "ready" /\ (queued'[u] => queued[u])
BY DEF StateTypes, WakeTask, States

LEMMA SendSignalKept ==
    ASSUME CountingLaws, IInv, NEW k \in Killers, SendSignal(k)
    PROVE  IInv'
<1>1. PICK t \in Tasks : t = sender[k].to
  BY SenderFacts DEF SendSignal
<1>2. /\ StateTypes'
      /\ \A u \in Tasks : \/ state'[u] = state[u] /\ queued'[u] = queued[u]
                          \/ /\ state[u] \in {"ready", "stopped", "blocked"}
                             /\ state'[u] = "ready" /\ (queued'[u] => queued[u])
  BY <1>1, WakeTaskEffect DEF SendSignal, IInv, TypeOK
<1>3. TaskTypes'
  BY <1>1 DEF SendSignal, IInv, TypeOK, TaskTypes, taskVars
<1>4. Lasting
  BY <1>2 DEF Lasting, SendSignal, taskVars
<1>5. SendersMove /\ sender' \in [Senders -> SenderRecord]
  BY <1>4, AtMoves DEF SendSignal, IInv
<1>6. TypeOK'
  BY <1>2, <1>3, <1>5 DEF SendSignal, IInv, TypeOK, JobTypes, JoinTypes, CallTypes,
                    QueueTypes, HolderTypes, jobVars, joinVars, callVars, queueVars
<1> QED
  BY <1>2, <1>5, <1>6, WokenKept DEF SendSignal, taskVars, jobVars, queueVars

LEMMA SendDeadKept ==
    ASSUME CountingLaws, IInv, NEW k \in Killers, SendDead(k)
    PROVE  IInv'
<1>1. Lasting
  BY DEF Lasting, SendDead, taskVars
<1>2. SendersMove /\ sender' \in [Senders -> SenderRecord]
  BY <1>1, AtMoves DEF SendDead, IInv
<1>3. TypeOK'
  BY <1>2 DEF SendDead, IInv, TypeOK, StateTypes, TaskTypes, JobTypes, JoinTypes, CallTypes,
              QueueTypes, HolderTypes, taskVars, jobVars, joinVars, callVars, queueVars
<1> QED
  BY <1>2, <1>3, WokenKept DEF SendDead, taskVars, jobVars, queueVars

LEMMA OffCpuKept ==
    ASSUME CountingLaws, IInv, NEW t \in Tasks, OffCpu(t)
    PROVE  IInv'
<1>1. SendersMove
  BY DEF SendersMove, OffCpu
<1>2. TypeOK'
  BY DEF OffCpu, IInv, TypeOK, StateTypes, TaskTypes, JobTypes, JoinTypes, CallTypes,
         QueueTypes, HolderTypes, taskVars, jobVars, joinVars, callVars
<1> QED
  BY <1>1, <1>2, WokenKept DEF OffCpu, taskVars, jobVars

LEMMA NotifyParentKept ==
    ASSUME CountingLaws, IInv, NEW x \in Senders, NotifyParent(x)
    PROVE  IInv'
<1> DEFINE p == ppid[sender[x].to]
<1>1. /\ StateTypes' /\ TaskTypes'
      /\ \A u \in Tasks : \/ state'[u] = state[u] /\ queued'[u] = queued[u]
                          \/ /\ state[u] \in {"ready", "stopped", "blocked"}
                             /\ state'[u] = "ready" /\ (queued'[u] => queued[u])
  <2>1. CASE p \in AllTasks /\ state[p] # "dead" /\ p \in Catches
    <3>1. p \in Tasks /\ WakeTask(p) /\ pending' = [pending EXCEPT ![p] = @ \cup {"sig"}]
      BY <2>1 DEF NotifyParent, AllTasks
    <3>2. TaskTypes'
      BY <3>1 DEF NotifyParent, IInv, TypeOK, TaskTypes, taskVars
    <3> HIDE DEF p
    <3> QED
      BY <3>1, <3>2, WakeTaskEffect DEF IInv, TypeOK
  <2>2. CASE ~(p \in AllTasks /\ state[p] # "dead" /\ p \in Catches)
    BY <2>2 DEF NotifyParent, IInv, TypeOK, StateTypes, TaskTypes, taskVars
  <2> QED
    BY <2>1, <2>2
<1>2. Lasting
  BY <1>1 DEF Lasting, NotifyParent, taskVars
<1>3. sender[x].at = "chld" /\ sender[x].to \in Tasks /\ state[sender[x].to] # "none"
  BY DEF NotifyParent, IInv, Sendings, Sending
<1>4. SendersMove /\ sender' \in [Senders -> SenderRecord]
  <2>1. CASE x \in Killers
    <3>1. /\ sender' \in [Senders -> SenderRecord]
          /\ sender'[x].at = "release" /\ sender'[x].to = sender[x].to
          /\ \A y \in Senders \ {x} : sender'[y] = sender[y]
      BY <2>1, SMT DEF NotifyParent, IInv, TypeOK, HolderTypes, SenderRecord
    <3>2. Sending(x)'
      BY <1>2, <1>3, <2>1, <3>1 DEF Sending, Lasting
    <3> QED
      BY <1>3, <3>1, <3>2 DEF SendersMove
  <2>2. CASE x \notin Killers
    <3>1. /\ sender' \in [Senders -> SenderRecord]
          /\ sender'[x].at = "idle" /\ sender'[x].to = NoTask
          /\ \A y \in Senders \ {x} : sender'[y] = sender[y]
      BY <2>2 DEF NotifyParent, IInv, TypeOK, HolderTypes, SenderRecord, NoSender
    <3>2. Sending(x)'
      BY <3>1 DEF Sending
    <3> QED
      BY <2>2, <3>1, <3>2 DEF SendersMove
  <2> QED
    BY <2>1, <2>2
<1>5. TypeOK'
  BY <1>1, <1>4 DEF NotifyParent, IInv, TypeOK, JobTypes, JoinTypes, CallTypes,
                    QueueTypes, HolderTypes, jobVars, joinVars, callVars
<1> QED
  BY <1>1, <1>4, <1>5, WokenKept DEF NotifyParent, taskVars, jobVars

(* References are taken and dropped. *)
LEMMA RefsMovedKept ==
    ASSUME CountingLaws, IInv, TypeOK', Sendings', RefsCounted', \A k \in Killers : LiveSender(k)',
           UNCHANGED <<state, queued, ppid, waited, joinVars, callVars, job_event, dead_queue,
                       reaper>>
    PROVE  IInv'
<1>1. /\ TypeOK /\ Places /\ Entries /\ Handles /\ Births /\ Sendings /\ Custody /\ Releasing
      /\ Live /\ Attention /\ JoinsCounted
  BY DEF IInv
<1>2. Lasting
  BY DEF Lasting
<1>3. Places' /\ Entries'
  BY <1>1, PlacesKept, EntriesKept DEF Woke, callVars, joinVars
<1>4. Handles' /\ Births' /\ Custody'
  BY <1>1, <1>2, HandlesKept, BirthsKept, CustodyKept DEF callVars
<1>5. Releasing'
  BY <1>1, <1>2, ReleasingKept DEF joinVars
<1>6. Live'
  BY <1>1, LiveKept DEF callVars
<1>7. Attention'
  <2>1. ASSUME NEW u \in Tasks, state'[u] = "blocked"
        PROVE  SameSleep(u) /\ \A c \in Tasks : NoNews(c)
    BY <2>1 DEF SameSleep, NoNews, callVars, joinVars
  <2> QED
    BY <1>1, <2>1, AttentionKept
<1>8. JoinsCounted'
  BY <1>1, JoinsKept DEF joinVars
<1> QED
  BY <1>3, <1>4, <1>5, <1>6, <1>7, <1>8 DEF IInv

LEMMA RetainKept ==
    ASSUME CountingLaws, IInv, NEW k \in Killers, Retain(k)
    PROVE  IInv'
<1>1. PICK s \in Sent :
         /\ s[1] \in AllTasks
         /\ refs' = [refs EXCEPT ![s[1]] = @ + 1]
         /\ sender' = [sender EXCEPT ![k] = [at |-> "send", to |-> s[1], what |-> s[2]]]
  BY DEF Retain
<1> DEFINE c == s[1]
           r == [at |-> "send", to |-> s[1], what |-> s[2]]
<1>2. c \in Tasks /\ state[c] \notin {"none", "freed"} /\ r \in SenderRecord
      /\ r.at = "send" /\ r.to = c
  BY <1>1, SentAssumption DEF AllTasks, SenderRecord
<1>3. sender' = [sender EXCEPT ![k] = r] /\ refs' = [refs EXCEPT ![c] = @ + 1]
  BY <1>1
<1> HIDE DEF r, c
<1>4. /\ sender' \in [Senders -> SenderRecord] /\ sender'[k] = r
      /\ \A x \in Senders \ {k} : sender'[x] = sender[x]
      /\ refs' \in [Tasks -> Nat] /\ refs'[c] = refs[c] + 1
      /\ \A b \in Tasks \ {c} : refs'[b] = refs[b]
  BY <1>2, <1>3, SMT DEF IInv, TypeOK, HolderTypes
<1>5. TypeOK'
  BY <1>4 DEF Retain, IInv, TypeOK, StateTypes, TaskTypes, JobTypes, JoinTypes, CallTypes,
              QueueTypes, HolderTypes, taskVars, jobVars, joinVars, callVars, queueVars
<1>6. Sendings'
  <2>1. Sending(k)'
    BY <1>2, <1>4 DEF Sending, Retain
  <2>2. Lasting
    BY DEF Lasting, Retain, taskVars
  <2> QED
    BY <1>4, <2>1, <2>2, SendingsKept DEF IInv
<1>7. \A j \in Killers : LiveSender(j)'
  BY <1>2, <1>4, SMT DEF IInv, Live, LiveSender, Retain
<1>8. RefsCounted'
  <2>1. k \notin Users(c) /\ Users(c) \in SUBSET Killers /\ Users(c)' = Users(c) \cup {k}
    BY <1>2, <1>4, SMT DEF Users, Retain, IInv, Sendings, Sending
  <2>2. \A b \in Tasks \ {c} : Users(b)' = Users(b)
    BY <1>2, <1>4, SMT DEF Users, Retain, IInv, Sendings, Sending
  <2>3. Cardinality(Users(c)') = Cardinality(Users(c)) + 1
    BY <2>1, OneMore, FiniteAssumption, SMT
  <2> QED
    BY <1>2, <1>4, <2>2, <2>3, SMT DEF IInv, RefsCounted
<1> QED
  BY <1>5, <1>6, <1>7, <1>8, RefsMovedKept DEF Retain, taskVars, jobVars, queueVars

LEMMA ReleaseKept ==
    ASSUME CountingLaws, IInv, NEW k \in Killers, Release(k)
    PROVE  IInv'
<1>1. PICK c \in Tasks : c = sender[k].to
  BY DEF Release, IInv, Sendings, Sending
<1>2. refs[c] \in Nat \ {0}
  BY <1>1, UserCounts DEF IInv, TypeOK, HolderTypes
<1>3. sender' = [sender EXCEPT ![k] = NoSender] /\ refs' = [refs EXCEPT ![c] = @ - 1]
  BY <1>1 DEF Release
<1>4. NoSender \in SenderRecord /\ NoSender.at = "idle" /\ NoSender.to = NoTask
  BY DEF NoSender, SenderRecord
<1>5. /\ sender' \in [Senders -> SenderRecord] /\ sender'[k] = NoSender
      /\ \A x \in Senders \ {k} : sender'[x] = sender[x]
      /\ refs' \in [Tasks -> Nat] /\ refs'[c] = refs[c] - 1
      /\ \A b \in Tasks \ {c} : refs'[b] = refs[b]
  BY <1>2, <1>3, <1>4, SMT DEF IInv, TypeOK, HolderTypes
<1>6. TypeOK'
  BY <1>5 DEF Release, IInv, TypeOK, StateTypes, TaskTypes, JobTypes, JoinTypes, CallTypes,
              QueueTypes, HolderTypes, taskVars, jobVars, joinVars, callVars, queueVars
<1>7. Sendings'
  <2>1. Sending(k)'
    BY <1>4, <1>5 DEF Sending
  <2>2. Lasting
    BY DEF Lasting, Release, taskVars
  <2> QED
    BY <1>5, <2>1, <2>2, SendingsKept DEF IInv
<1>8. \A j \in Killers : LiveSender(j)'
  BY <1>4, <1>5 DEF IInv, Live, LiveSender, Release
<1>9. RefsCounted'
  <2>1. k \in Users(c) /\ Users(c) \in SUBSET Killers /\ Users(c)' = Users(c) \ {k}
    BY <1>1, <1>4, <1>5 DEF Users
  <2>2. \A b \in Tasks \ {c} : Users(b)' = Users(b)
    BY <1>1, <1>4, <1>5 DEF Users
  <2>3. Cardinality(Users(c)') = Cardinality(Users(c)) - 1
    BY <2>1, OneLess, FiniteAssumption
  <2> QED
    BY <1>5, <2>2, <2>3 DEF IInv, RefsCounted
<1> QED
  BY <1>6, <1>7, <1>8, <1>9, RefsMovedKept DEF Release, taskVars, jobVars, queueVars

(* A parent is not blocked when it forks. *)
LEMMA ForkKept ==
    ASSUME CountingLaws, IInv, NEW t \in Tasks, Runs(t), Fork(t)
    PROVE  IInv'
<1>0. /\ TypeOK /\ Places /\ Entries /\ Handles /\ Births /\ Sendings /\ Custody /\ Releasing
      /\ Live /\ Attention /\ RefsCounted /\ JoinsCounted
  BY DEF IInv
<1>1. PICK c \in Tasks : /\ state[c] = "none"
                         /\ state' = [state EXCEPT ![c] = "ready"]
                         /\ ppid' = [ppid EXCEPT ![c] = t]
  BY DEF Fork
<1>2. /\ c # t /\ state[t] = "ready"
      /\ state'[c] = "ready" /\ \A b \in Tasks \ {c} : state'[b] = state[b]
      /\ ppid'[c] = t /\ \A b \in Tasks \ {c} : ppid'[b] = ppid[b]
  BY <1>0, <1>1 DEF Runs, TypeOK, StateTypes, TaskTypes
<1>3. TypeOK'
  BY <1>0, <1>1 DEF Fork, TypeOK, StateTypes, TaskTypes, JobTypes, JoinTypes, CallTypes, States,
                    QueueTypes, HolderTypes, jobVars, joinVars, callVars, queueVars
<1>4. Lasting
  BY <1>1, <1>2 DEF Lasting
<1>5. Places'
  <2>1. Place(c)'
    BY <1>0, <1>1, <1>2 DEF Places, Place, Fork, callVars
  <2> QED
    BY <1>0, <1>2, <2>1, PlacesKept DEF Woke, Fork, callVars
<1>6. Entries'
  BY <1>0, EntriesKept DEF Fork, callVars, joinVars
<1>7. Handles'
  BY <1>0, <1>4, HandlesKept DEF Fork, callVars
<1>8. Births'
  BY <1>0, <1>2 DEF Births
<1>9. Sendings'
  BY <1>0, <1>4, SendingsKept DEF Fork
<1>10. Custody'
  BY <1>0, <1>1, <1>2, CustodyKept DEF Fork, queueVars
<1>11. Releasing'
  BY <1>0, <1>4, ReleasingKept DEF Fork, joinVars
<1>12. Live'
  BY <1>0, <1>2, LiveKept DEF Fork, callVars
<1>13. Attention'
  <2>1. ASSUME NEW u \in Tasks, state'[u] = "blocked"
        PROVE  SameSleep(u) /\ \A b \in Tasks : Watches(u, b) => NoNews(b)
    <3>1. SameSleep(u) /\ u # t
      BY <1>2, <2>1 DEF SameSleep, Fork, callVars, joinVars
    <3>2. ~Watches(u, c)
      BY <1>0, <1>1, <1>2, <3>1, SMT DEF Watches, SameSleep, Places, Place, Handles, Handle,
            Joining, Calling
    <3>3. \A b \in Tasks \ {c} : NoNews(b)
      BY <1>2 DEF NoNews, Fork, jobVars
    <3> QED
      BY <3>1, <3>2, <3>3
  <2> QED
    BY <1>0, <2>1, AttentionKept DEF Fork
<1>14. RefsCounted' /\ JoinsCounted'
  BY <1>0, RefsKept, JoinsKept DEF Fork, joinVars
<1> QED
  BY <1>3, <1>5, <1>6, <1>7, <1>8, <1>9, <1>10, <1>11, <1>12, <1>13, <1>14 DEF IInv

-----------------------------------------------------------------------------
(***************************************************************************)
(* The reaper                                                              *)
(***************************************************************************)

(* A reaper detaches the dead queue, from task_deferred_work or at the end *)
(* of a wait call, which then returns.                                     *)
LEMMA DetachedKept ==
    ASSUME CountingLaws, IInv, NEW x \in Reapers, reaper[x].at = "idle", Detached(x),
           CallTypes', reap_requested' \in BOOLEAN,
           \A u \in Tasks : \/ CallSame(u)
                            \/ /\ state[u] = "ready" /\ pc'[u] = "user"
                               /\ pc[u] \notin Joining \cup {"any_asleep"},
           UNCHANGED <<state, queued, taskVars, refs, pending, jobVars, joinVars, oncpu, sender>>
    PROVE  IInv'
<1>0. /\ TypeOK /\ Places /\ Entries /\ Handles /\ Births /\ Sendings /\ Custody /\ Releasing
      /\ Live /\ Attention /\ RefsCounted /\ JoinsCounted
  BY DEF IInv
<1>1. /\ dead_queue' \in SUBSET Tasks /\ reaper' \in [Reapers -> ReaperRecord]
      /\ \A y \in Reapers \ {x} : reaper'[y] = reaper[y]
      /\ reaper'[x] # reaper[x] =>
            /\ reaper'[x].at = "next" /\ reaper'[x].list = dead_queue /\ reaper'[x].keep = {}
            /\ reaper'[x].cur = NoTask /\ dead_queue' = {}
      /\ reaper'[x] = reaper[x] => dead_queue' = dead_queue
  <2>1. CASE dead_queue = {}
    BY <1>0, <2>1 DEF Detached, TypeOK, QueueTypes, HolderTypes
  <2>2. CASE dead_queue # {}
    <3> DEFINE r == [NoReaper EXCEPT !.at = "next", !.list = dead_queue]
    <3>1. /\ r \in ReaperRecord /\ r.at = "next" /\ r.list = dead_queue /\ r.keep = {}
          /\ r.cur = NoTask
      BY <1>0 DEF NoReaper, ReaperRecord, TypeOK, QueueTypes
    <3>2. reaper' = [reaper EXCEPT ![x] = r] /\ dead_queue' = {}
      BY <2>2 DEF Detached
    <3> HIDE DEF r
    <3>3. /\ reaper' \in [Reapers -> ReaperRecord] /\ reaper'[x] = r
          /\ \A y \in Reapers \ {x} : reaper'[y] = reaper[y]
      BY <1>0, <3>1, <3>2 DEF TypeOK, HolderTypes
    <3> QED
      BY <3>1, <3>2, <3>3
  <2> QED
    BY <2>1, <2>2
<1>2. TypeOK'
  BY <1>0, <1>1 DEF TypeOK, StateTypes, TaskTypes, JobTypes, JoinTypes, QueueTypes, HolderTypes,
                    taskVars, jobVars, joinVars
<1>3. Lasting
  BY DEF Lasting, taskVars
<1>4. \A u \in Tasks : CallSame(u) \/ (Place(u)' /\ Entered(u)' /\ Handle(u)' /\ LiveCall(u)')
  BY <1>0 DEF Place, Entries, Entered, Handle, LiveCall, Calling, Joining, joinVars
<1>5. Places' /\ Entries' /\ Handles'
  BY <1>0, <1>3, <1>4, PlacesKept, EntriesKept, HandlesKept DEF CallSame, Woke, taskVars, joinVars
<1>6. Births' /\ Sendings'
  BY <1>0, <1>3, BirthsKept, SendingsKept DEF taskVars
<1>7. Custody'
  <2>1. reaper[x].list = {} /\ reaper[x].keep = {} /\ reaper[x].cur \notin Tasks
    BY <1>0 DEF Custody, Hand
  <2>2. CASE reaper'[x] = reaper[x]
    <3>1. dead_queue' = dead_queue /\ reaper' = reaper
      BY <1>0, <1>1, <2>2, SMT DEF TypeOK, HolderTypes
    <3> QED
      BY <1>0, <3>1, CustodyKept
  <2>3. CASE reaper'[x] # reaper[x]
    <3>1. \A y \in Reapers \ {x} : Hand(y)' /\ Held(y)' = Held(y)
      BY <1>0, <1>1, SMT DEF Custody, Hand, Held
    <3>2. Hand(x)' /\ \A c \in Tasks : c \in Held(x)' <=> c \in dead_queue
      BY <1>0, <1>1, <2>3 DEF Hand, Held, TypeOK, QueueTypes
    <3>3. dead_queue' = {} /\ dead_queue \subseteq Tasks /\ \A c \in Tasks : c \notin Held(x)
      BY <1>0, <1>1, <2>1, <2>3 DEF Held, TypeOK, QueueTypes
    <3> QED
      BY <1>0, <3>1, <3>2, <3>3, SMT DEF Custody
  <2> QED
    BY <2>2, <2>3
<1>8. Releasing'
  <2>1. reaper'[x] = reaper[x] \/ Cleared(x)'
    BY <1>1 DEF Cleared
  <2> QED
    BY <1>0, <1>1, <1>3, <2>1, ReleasingKept DEF taskVars, joinVars
<1>9. Live'
  BY <1>0, <1>4, LiveKept DEF CallSame
<1>10. Attention'
  <2>1. ASSUME NEW u \in Tasks, state'[u] = "blocked"
        PROVE  Attended(u)'
    <3>1. SameSleep(u)
      BY <2>1 DEF SameSleep, CallSame, joinVars
    <3>2. \A c \in Tasks : NoNews(c)
      BY DEF NoNews, taskVars, jobVars
    <3>3. \A c \in Tasks : \A y \in Reapers : c \in Held(y) => c \in Held(y)'
      BY <1>0, <1>1, SMT DEF Held, Custody, Hand
    <3> QED
      BY <1>0, <3>1, <3>2, <3>3, AttendedKept DEF Attention
  <2> QED
    BY <2>1 DEF Attention
<1>11. RefsCounted' /\ JoinsCounted'
  BY <1>0, RefsKept, JoinsKept DEF joinVars
<1> QED
  BY <1>2, <1>5, <1>6, <1>7, <1>8, <1>9, <1>10, <1>11 DEF IInv

LEMMA WaitReapsKept ==
    ASSUME CountingLaws, IInv, NEW t \in Tasks, Runs(t), WaitReaps(t)
    PROVE  IInv'
<1>1. CallTypes' /\ pc'[t] = "user" /\ \A u \in Tasks \ {t} : CallSame(u)
  BY ReturnTypes DEF IInv, TypeOK, WaitReaps
<1>2. state[t] = "ready" /\ pc[t] \notin Joining \cup {"any_asleep"} /\ reaper[t].at = "idle"
  BY DEF WaitReaps, Runs, Joining
<1>3. reap_requested' \in BOOLEAN
  BY DEF WaitReaps, IInv, TypeOK, QueueTypes
<1> QED
  BY <1>1, <1>2, <1>3, DetachedKept DEF WaitReaps

LEMMA DeferredWorkKept ==
    ASSUME CountingLaws, IInv, NEW w \in Workers, DeferredWork(w)
    PROVE  IInv'
<1>1. CallTypes' /\ \A u \in Tasks : CallSame(u)
  BY DEF IInv, TypeOK, CallTypes, CallSame, DeferredWork, callVars
<1> QED
  BY <1>1, DetachedKept DEF DeferredWork

(* A reaper moves a task from one hand to the other. *)
LEMMA HandMovedKept ==
    ASSUME CountingLaws, IInv, NEW x \in Reapers, TypeOK',
           \A y \in Reapers \ {x} : reaper'[y] = reaper[y],
           Hand(x)', Cleared(x)', \A c \in Tasks : c \in Held(x)' <=> c \in Held(x),
           UNCHANGED <<state, queued, ppid, waited, refs, joinVars, callVars, job_event,
                       dead_queue, sender>>
    PROVE  IInv'
<1>0. /\ TypeOK /\ Places /\ Entries /\ Handles /\ Births /\ Sendings /\ Custody /\ Releasing
      /\ Live /\ Attention /\ RefsCounted /\ JoinsCounted
  BY DEF IInv
<1>1. Lasting
  BY DEF Lasting
<1>2. Places' /\ Entries' /\ Handles'
  BY <1>0, <1>1, PlacesKept, EntriesKept, HandlesKept DEF Woke, joinVars, callVars
<1>3. Births' /\ Sendings'
  BY <1>0, <1>1, BirthsKept, SendingsKept
<1>4. \A y \in Reapers : Hand(y)' /\ \A c \in Tasks : c \in Held(y)' <=> c \in Held(y)
  BY <1>0, SMT DEF Custody, Hand, Held
<1>5. Custody'
  BY <1>0, <1>4 DEF Custody, TypeOK, QueueTypes
<1>6. Releasing'
  BY <1>0, <1>1, ReleasingKept DEF joinVars
<1>7. Live'
  BY <1>0, LiveKept DEF callVars
<1>8. Attention'
  <2>1. ASSUME NEW u \in Tasks, state'[u] = "blocked"
        PROVE  SameSleep(u) /\ \A c \in Tasks : NoNews(c)
    BY <2>1 DEF SameSleep, NoNews, callVars, joinVars
  <2> QED
    BY <1>0, <1>4, <2>1, AttendedKept DEF Attention
<1>9. RefsCounted' /\ JoinsCounted'
  BY <1>0, RefsKept, JoinsKept DEF joinVars
<1> QED
  BY <1>2, <1>3, <1>5, <1>6, <1>7, <1>8, <1>9 DEF IInv

(* What Keep does to the hands of a reaper. *)
LEMMA KeepEffect ==
    ASSUME TypeOK, Custody, NEW x \in Reapers, reaper[x].at \in {"again", "release"},
           NEW retry \in BOOLEAN, Keep(x, retry)
    PROVE  /\ reaper' \in [Reapers -> ReaperRecord]
           /\ \A y \in Reapers \ {x} : reaper'[y] = reaper[y]
           /\ Hand(x)' /\ Cleared(x)' /\ \A c \in Tasks : c \in Held(x)' <=> c \in Held(x)
<1>1. Hand(x) /\ reaper[x].cur \in Tasks
  BY DEF Custody, Hand
<1>2. reaper \in [Reapers -> ReaperRecord]
  BY DEF TypeOK, HolderTypes
<1>3. /\ reaper' \in [Reapers -> ReaperRecord]
      /\ \A y \in Reapers \ {x} : reaper'[y] = reaper[y]
      /\ reaper'[x].at = "next" /\ reaper'[x].keep = reaper[x].keep \cup {reaper[x].cur}
      /\ reaper'[x].list = reaper[x].list /\ reaper'[x].cur = NoTask
  <2> DEFINE later == reaper[x].retry \/ retry
             kept == reaper[x].keep \cup {reaper[x].cur}
             r == [reaper[x] EXCEPT !.at = "next", !.keep = kept, !.retry = later, !.cur = NoTask]
  <2>0. later \in BOOLEAN /\ reaper' = [reaper EXCEPT ![x] = r]
    BY DEF Keep
  <2>a. kept \in SUBSET Tasks
    BY <1>1, <1>2 DEF ReaperRecord
  <2> HIDE DEF later, kept
  <2>1. /\ r \in ReaperRecord /\ r.at = "next" /\ r.keep = kept
        /\ r.list = reaper[x].list /\ r.cur = NoTask
    <3>1. reaper[x] \in ReaperRecord
      BY <1>2
    <3>2. r \in ReaperRecord
      BY <2>0, <2>a, <3>1 DEF ReaperRecord
    <3> QED
      BY <3>1, <3>2 DEF ReaperRecord
  <2> HIDE DEF r
  <2>2. /\ reaper' \in [Reapers -> ReaperRecord] /\ reaper'[x] = r
        /\ \A y \in Reapers \ {x} : reaper'[y] = reaper[y]
    BY <1>2, <2>0, <2>1
  <2> QED
    BY <2>1, <2>2 DEF kept
<1>4. Hand(x)'
  BY <1>1, <1>2, <1>3, SMT DEF Hand, ReaperRecord
<1> QED
  BY <1>1, <1>3, <1>4 DEF Cleared, Held

LEMMA ReapLookKept ==
    ASSUME CountingLaws, IInv, NEW x \in Reapers, ReapLook(x)
    PROVE  IInv'
<1>1. PICK t \in reaper[x].list :
        LET inUse == oncpu[t] \/ join_refs[t] > 0 \/ queued[t] \/ refs[t] > 0
            zombie == ~waited[t] /\ ppid[t] \in AllTasks
        IN  reaper' = [reaper EXCEPT ![x] =
                          [reaper[x] EXCEPT !.list = reaper[x].list \ {t}, !.cur = t,
                                            !.retry = reaper[x].retry \/ oncpu[t],
                                            !.at = IF inUse \/ zombie THEN "again" ELSE "release"]]
  BY DEF ReapLook
<1>2. reaper \in [Reapers -> ReaperRecord] /\ Hand(x) /\ reaper[x].at = "next"
  BY DEF IInv, TypeOK, HolderTypes, Custody, ReapLook
<1>3. t \in Tasks /\ oncpu[t] \in BOOLEAN /\ join_refs[t] \in Nat
  BY <1>2 DEF ReaperRecord, IInv, TypeOK, QueueTypes, JoinTypes
<1>4. /\ reaper' \in [Reapers -> ReaperRecord]
      /\ \A y \in Reapers \ {x} : reaper'[y] = reaper[y]
      /\ reaper'[x].list = reaper[x].list \ {t} /\ reaper'[x].cur = t
      /\ reaper'[x].keep = reaper[x].keep /\ reaper'[x].at \in {"again", "release"}
      /\ reaper'[x].at = "release" => ~(join_refs[t] > 0) /\ ~(~waited[t] /\ ppid[t] \in AllTasks)
  <2> DEFINE inUse == oncpu[t] \/ join_refs[t] > 0 \/ queued[t] \/ refs[t] > 0
             zombie == ~waited[t] /\ ppid[t] \in AllTasks
             a == IF inUse \/ zombie THEN "again" ELSE "release"
             again_later == reaper[x].retry \/ oncpu[t]
             r == [reaper[x] EXCEPT !.list = reaper[x].list \ {t}, !.cur = t,
                                    !.retry = again_later, !.at = a]
  <2>1. /\ a \in {"again", "release"} /\ again_later \in BOOLEAN
        /\ a = "release" => ~(join_refs[t] > 0) /\ ~(~waited[t] /\ ppid[t] \in AllTasks)
    OBVIOUS
  <2>2. reaper' = [reaper EXCEPT ![x] = r]
    BY <1>1
  <2> HIDE DEF a, again_later
  <2>3. /\ r \in ReaperRecord /\ r.list = reaper[x].list \ {t} /\ r.cur = t
        /\ r.keep = reaper[x].keep /\ r.at = a
    <3>1. reaper[x] \in ReaperRecord
      BY <1>2
    <3>2. reaper[x].list \ {t} \in SUBSET Tasks
      BY <3>1 DEF ReaperRecord
    <3>3. r \in ReaperRecord
      BY <1>3, <2>1, <3>1, <3>2 DEF ReaperRecord
    <3> QED
      BY <3>1, <3>3 DEF ReaperRecord
  <2> HIDE DEF r
  <2>4. /\ reaper' \in [Reapers -> ReaperRecord] /\ reaper'[x] = r
        /\ \A y \in Reapers \ {x} : reaper'[y] = reaper[y]
    BY <1>2, <2>2, <2>3
  <2> QED
    BY <2>1, <2>3, <2>4
<1>5. Hand(x)'
  BY <1>2, <1>3, <1>4 DEF Hand
<1>6. \A c \in Tasks : c \in Held(x)' <=> c \in Held(x)
  BY <1>2, <1>4 DEF Hand, Held
<1>7. Cleared(x)'
  BY <1>3, <1>4, SMT DEF Cleared, ReapLook, reapUnchanged, taskVars, joinVars, AllTasks
<1>8. TypeOK'
  BY <1>4 DEF ReapLook, reapUnchanged, IInv, TypeOK, StateTypes, TaskTypes, JobTypes, JoinTypes,
              CallTypes, QueueTypes, HolderTypes, taskVars, jobVars, joinVars, callVars, queueVars
<1> QED
  BY <1>4, <1>5, <1>6, <1>7, <1>8, HandMovedKept
     DEF ReapLook, reapUnchanged, taskVars, jobVars, queueVars

LEMMA ReapAgainKept ==
    ASSUME CountingLaws, IInv, NEW x \in Reapers, ReapAgain(x)
    PROVE  IInv'
<1>1. Keep(x, join_refs[reaper[x].cur] > 0 \/ queued[reaper[x].cur] \/ refs[reaper[x].cur] > 0)
  BY DEF ReapAgain
<1>2. (join_refs[reaper[x].cur] > 0 \/ queued[reaper[x].cur] \/ refs[reaper[x].cur] > 0) \in BOOLEAN
  OBVIOUS
<1>3. /\ reaper' \in [Reapers -> ReaperRecord]
      /\ \A y \in Reapers \ {x} : reaper'[y] = reaper[y]
      /\ Hand(x)' /\ Cleared(x)' /\ \A c \in Tasks : c \in Held(x)' <=> c \in Held(x)
  BY <1>1, <1>2, KeepEffect DEF IInv, ReapAgain
<1>4. TypeOK'
  BY <1>3 DEF ReapAgain, reapUnchanged, IInv, TypeOK, StateTypes, TaskTypes, JobTypes, JoinTypes,
              CallTypes, QueueTypes, HolderTypes, taskVars, jobVars, joinVars, callVars, queueVars
<1> QED
  BY <1>3, <1>4, HandMovedKept DEF ReapAgain, reapUnchanged, taskVars, jobVars, queueVars

(* Nobody uses the task that the reaper frees. *)
LEMMA FreeKept ==
    ASSUME CountingLaws, IInv, NEW x \in Reapers, reaper[x].at = "release", refs[reaper[x].cur] = 0,
           state' = [state EXCEPT ![reaper[x].cur] = "freed"],
           reaper' = [reaper EXCEPT ![x] = [reaper[x] EXCEPT !.at = "next", !.cur = NoTask]],
           reapUnchanged, UNCHANGED queueVars
    PROVE  IInv'
<1>0. /\ TypeOK /\ Places /\ Entries /\ Handles /\ Births /\ Sendings /\ Custody /\ Releasing
      /\ Live /\ Attention /\ RefsCounted /\ JoinsCounted
  BY DEF IInv
<1>1. Hand(x) /\ reaper \in [Reapers -> ReaperRecord]
  BY <1>0 DEF Custody, TypeOK, HolderTypes
<1>2. PICK c \in Tasks : c = reaper[x].cur
  BY <1>1 DEF Hand
<1>3. state[c] = "dead" /\ join_refs[c] = 0 /\ (waited[c] \/ ppid[c] \notin AllTasks)
  BY <1>0, <1>2 DEF Custody, Held, Releasing, Cleared
<1>4. /\ state' \in [Tasks -> States] /\ state'[c] = "freed"
      /\ \A b \in Tasks \ {c} : state'[b] = state[b]
  BY <1>0, <1>2 DEF TypeOK, StateTypes, States
<1>5. /\ reaper' \in [Reapers -> ReaperRecord]
      /\ \A y \in Reapers \ {x} : reaper'[y] = reaper[y]
      /\ reaper'[x].at = "next" /\ reaper'[x].keep = reaper[x].keep
      /\ reaper'[x].list = reaper[x].list /\ reaper'[x].cur = NoTask
  <2> DEFINE r == [reaper[x] EXCEPT !.at = "next", !.cur = NoTask]
  <2>1. /\ r \in ReaperRecord /\ r.at = "next" /\ r.keep = reaper[x].keep
        /\ r.list = reaper[x].list /\ r.cur = NoTask
    <3>1. reaper[x] \in ReaperRecord
      BY <1>1
    <3> QED
      BY <3>1 DEF ReaperRecord
  <2>2. reaper' = [reaper EXCEPT ![x] = r]
    OBVIOUS
  <2> HIDE DEF r
  <2> QED
    BY <1>1, <2>1, <2>2
<1>6. /\ queued' = queued /\ ppid' = ppid /\ waited' = waited /\ refs' = refs
      /\ job_event' = job_event /\ dead_queue' = dead_queue /\ sender' = sender
      /\ UNCHANGED <<joinVars, callVars>>
  BY DEF reapUnchanged, taskVars, jobVars, queueVars
<1>7. TypeOK'
  BY <1>0, <1>4, <1>5 DEF TypeOK, StateTypes, TaskTypes, JobTypes, JoinTypes, CallTypes, QueueTypes,
        HolderTypes, reapUnchanged, taskVars, jobVars, joinVars, callVars, queueVars
<1>8. Lasting
  BY <1>3, <1>4, <1>6 DEF Lasting
<1>9. Places'
  <2>1. Place(c)'
    BY <1>0, <1>3, <1>4, <1>6 DEF Places, Place, callVars
  <2> QED
    BY <1>0, <1>4, <1>6, <2>1, PlacesKept DEF Woke, callVars
<1>10. Entries' /\ Handles'
  BY <1>0, <1>6, <1>8, EntriesKept, HandlesKept DEF joinVars, callVars
<1>11. Births' /\ Sendings'
  BY <1>0, <1>6, <1>8, BirthsKept, SendingsKept
<1>12. Custody'
  <2>1. /\ \A y \in Reapers \ {x} : Hand(y)' /\ Held(y)' = Held(y)
        /\ Hand(x)'
    BY <1>0, <1>1, <1>5, SMT DEF Custody, Hand, Held, ReaperRecord
  <2>2. \A b \in Tasks : b \in Held(x)' <=> b \in Held(x) /\ b # c
    BY <1>1, <1>2, <1>5 DEF Held, Hand
  <2>3. c \in Held(x) /\ \A y \in Reapers \ {x} : c \notin Held(y)
    BY <1>0, <1>2 DEF Custody, Held
  <2>4. c \notin dead_queue
    BY <1>0, <2>3 DEF Custody
  <2> QED
    BY <1>0, <1>4, <1>6, <2>1, <2>2, <2>3, <2>4, SMT DEF Custody, TypeOK, QueueTypes
<1>13. Releasing'
  <2>1. Cleared(x)'
    BY <1>5 DEF Cleared
  <2> QED
    BY <1>0, <1>5, <1>6, <1>8, <2>1, ReleasingKept DEF joinVars
<1>14. Live'
  <2>1. ASSUME NEW k \in Killers PROVE LiveSender(k)'
    <3>1. sender[k].at # "idle" => sender[k].to \in Tasks \ {c} /\ state[sender[k].to] # "freed"
      BY <1>0, <1>2, UserCounts DEF Sendings, Sending, Live, LiveSender
    <3> QED
      BY <1>4, <1>6, <3>1 DEF LiveSender
  <2>2. ASSUME NEW u \in Tasks PROVE LiveCall(u)'
    <3>1. ASSUME pc[u] \in Joining PROVE found[u] \in Tasks \ {c}
      <4>1. join_target[u] = found[u] /\ found[u] \in Tasks /\ ~waiting_for_any_child[u]
        BY <1>0, <3>1 DEF Entries, Entered, Handles, Handle, Joining, Calling
      <4> QED
        BY <1>0, <1>3, <4>1, JoinerCounts
    <3>2. ASSUME pc[u] \in {"join", "mark"}, ~again[u] PROVE found[u] \in Tasks \ {c}
      <4>1. found[u] \in Tasks /\ ppid[found[u]] = u /\ ~waited[found[u]]
        BY <1>0, <3>2 DEF Handles, Handle, Calling
      <4>2. u \in AllTasks
        BY <1>0, <3>2 DEF AllTasks, Places, Place
      <4> QED
        BY <1>3, <4>1, <4>2
    <3> QED
      BY <1>0, <1>4, <1>6, <3>1, <3>2 DEF Live, LiveCall, callVars
  <2> QED
    BY <2>1, <2>2 DEF Live
<1>15. Attention'
  <2>1. ASSUME NEW u \in Tasks, state'[u] = "blocked"
        PROVE  Attended(u)'
    <3>1. SameSleep(u)
      BY <1>4, <1>6, <2>1 DEF SameSleep, callVars, joinVars
    <3>2. \A b \in Tasks : NoNews(b)
      BY <1>3, <1>4, <1>6 DEF NoNews
    <3>3. \A b \in Tasks : state'[b] = "dead" => \A y \in Reapers : b \in Held(y) => b \in Held(y)'
      BY <1>2, <1>4, <1>5 DEF Held
    <3> QED
      BY <1>0, <3>1, <3>2, <3>3, AttendedKept DEF Attention
  <2> QED
    BY <2>1 DEF Attention
<1>16. RefsCounted' /\ JoinsCounted'
  BY <1>0, <1>6, RefsKept, JoinsKept DEF joinVars
<1> QED
  BY <1>7, <1>9, <1>10, <1>11, <1>12, <1>13, <1>14, <1>15, <1>16 DEF IInv

LEMMA ReapReleaseKept ==
    ASSUME CountingLaws, IInv, NEW x \in Reapers, ReapRelease(x)
    PROVE  IInv'
<1>1. CASE Keep(x, TRUE) /\ UNCHANGED state
  <2>1. /\ reaper' \in [Reapers -> ReaperRecord]
        /\ \A y \in Reapers \ {x} : reaper'[y] = reaper[y]
        /\ Hand(x)' /\ Cleared(x)' /\ \A c \in Tasks : c \in Held(x)' <=> c \in Held(x)
    BY <1>1, KeepEffect DEF IInv, ReapRelease
  <2>2. TypeOK'
    BY <1>1, <2>1 DEF ReapRelease, reapUnchanged, IInv, TypeOK, StateTypes, TaskTypes, JobTypes,
          JoinTypes, CallTypes, QueueTypes, HolderTypes, taskVars, jobVars, joinVars, callVars,
          queueVars
  <2> QED
    BY <1>1, <2>1, <2>2, HandMovedKept DEF ReapRelease, reapUnchanged, taskVars, jobVars, queueVars
<1>2. CASE ~(Keep(x, TRUE) /\ UNCHANGED state)
  BY <1>2, FreeKept DEF ReapRelease
<1> QED
  BY <1>1, <1>2

(* The queue is put back: a parent that waits for any child and has one    *)
(* among the tasks that come back is woken.                                *)
LEMMA ReapPutBackKept ==
    ASSUME CountingLaws, IInv, NEW x \in Reapers, ReapPutBack(x)
    PROVE  IInv'
<1>0. /\ TypeOK /\ Places /\ Entries /\ Handles /\ Births /\ Sendings /\ Custody /\ Releasing
      /\ Live /\ Attention /\ RefsCounted /\ JoinsCounted
  BY DEF IInv
<1> DEFINE keep == reaper[x].keep
<1>1. /\ Hand(x) /\ reaper \in [Reapers -> ReaperRecord]
      /\ reaper[x].at = "next" /\ reaper[x].list = {}
  BY <1>0 DEF Custody, TypeOK, HolderTypes, ReapPutBack
<1>2. keep \in SUBSET Tasks /\ \A c \in Tasks : c \in Held(x) <=> c \in keep
  BY <1>1 DEF Hand, Held, ReaperRecord
<1>3. /\ dead_queue' = dead_queue \cup keep /\ dead_queue' \in SUBSET Tasks
      /\ state' \in [Tasks -> States]
      /\ \A u \in Tasks : state'[u] = IF u \in WaitingParents(keep) THEN "ready" ELSE state[u]
  BY <1>0, <1>2 DEF ReapPutBack, TypeOK, StateTypes, QueueTypes, States
<1>4. \A u \in Tasks : Woke(u)
  BY <1>3 DEF Woke, WaitingParents
<1>5. /\ NoReaper \in ReaperRecord /\ NoReaper.at = "idle" /\ NoReaper.list = {}
      /\ NoReaper.keep = {} /\ NoReaper.cur = NoTask
  BY DEF NoReaper, ReaperRecord
<1>6. /\ reaper' \in [Reapers -> ReaperRecord] /\ reaper'[x] = NoReaper
      /\ \A y \in Reapers \ {x} : reaper'[y] = reaper[y]
  BY <1>1, <1>5 DEF ReapPutBack
<1>7. /\ queued' = queued /\ ppid' = ppid /\ waited' = waited /\ refs' = refs
      /\ job_event' = job_event /\ sender' = sender
      /\ UNCHANGED <<joinVars, callVars>>
  BY DEF ReapPutBack, reapUnchanged, taskVars, jobVars
<1>8. reap_requested' \in BOOLEAN
  BY DEF ReapPutBack
<1>9. TypeOK'
  BY <1>0, <1>3, <1>6, <1>8 DEF TypeOK, StateTypes, TaskTypes, JobTypes, JoinTypes, CallTypes,
        QueueTypes, HolderTypes, ReapPutBack, reapUnchanged, taskVars, jobVars, joinVars, callVars
<1>10. Lasting
  BY <1>4, <1>7 DEF Lasting, Woke
<1>11. Places' /\ Entries' /\ Handles'
  BY <1>0, <1>4, <1>7, <1>10, PlacesKept, EntriesKept, HandlesKept DEF joinVars, callVars
<1>12. Births' /\ Sendings'
  BY <1>0, <1>7, <1>10, BirthsKept, SendingsKept
<1>13. Custody'
  <2>1. \A y \in Reapers \ {x} : Hand(y)' /\ Held(y)' = Held(y)
    BY <1>0, <1>6 DEF Custody, Hand, Held
  <2>2. Hand(x)' /\ \A c \in Tasks : c \notin Held(x)'
    BY <1>5, <1>6 DEF Hand, Held
  <2>3. \A c \in Tasks : state'[c] = "dead" <=> state[c] = "dead"
    BY <1>4 DEF Woke
  <2> HIDE DEF keep
  <2> QED
    BY <1>0, <1>2, <1>3, <2>1, <2>2, <2>3, SMT DEF Custody, TypeOK, QueueTypes
<1>14. Releasing'
  <2>1. Cleared(x)'
    BY <1>5, <1>6 DEF Cleared
  <2> QED
    BY <1>0, <1>6, <1>7, <1>10, <2>1, ReleasingKept DEF joinVars
<1>15. Live'
  BY <1>0, <1>4, <1>7, LiveKept DEF Woke, callVars
<1>16. Attention'
  <2>1. ASSUME NEW u \in Tasks, state'[u] = "blocked"
        PROVE  Attended(u)'
    <3>1. SameSleep(u) /\ u \notin WaitingParents(keep)
      BY <1>3, <1>7, <2>1 DEF SameSleep, callVars, joinVars
    <3>2. \A c \in Tasks : NoNews(c)
      BY <1>4, <1>7 DEF NoNews, Woke
    <3>3. ASSUME NEW c \in Tasks, Watches(u, c), state'[c] = "dead", NEW y \in Reapers,
                 c \in Held(y)
          PROVE  c \in Held(y)'
      <4>1. state[c] = "dead" /\ Attended(u)
        BY <1>0, <1>4, <3>1, <3>3 DEF Woke, Attention, SameSleep
      <4>2. pc[u] = "any_asleep" /\ waiting_for_any_child[u] /\ ppid[c] = u
        BY <1>7, <3>3, <4>1 DEF Attended, Watches
      <4>3. c \notin keep
        BY <3>1, <4>2 DEF WaitingParents, SameSleep
      <4> QED
        BY <1>2, <1>6, <3>3, <4>3 DEF Held
    <3> QED
      BY <1>0, <3>1, <3>2, <3>3, AttendedKept DEF Attention
  <2> QED
    BY <2>1 DEF Attention
<1>17. RefsCounted' /\ JoinsCounted'
  BY <1>0, <1>7, RefsKept, JoinsKept DEF joinVars
<1> QED
  BY <1>9, <1>11, <1>12, <1>13, <1>14, <1>15, <1>16, <1>17 DEF IInv

-----------------------------------------------------------------------------
(* Only the first task exists, and nobody has a handle on it. *)
LEMMA InitKept ==
    ASSUME CountingLaws, Init PROVE IInv
<1>1. NoSender \in SenderRecord /\ NoReaper \in ReaperRecord
  BY DEF NoSender, NoReaper, SenderRecord, ReaperRecord
<1>2. TypeOK
  <2>1. StateTypes /\ TaskTypes /\ JobTypes /\ JoinTypes
    BY SMT DEF Init, StateTypes, TaskTypes, JobTypes, JoinTypes, States
  <2>2. CallTypes /\ QueueTypes
    BY DEF Init, CallTypes, QueueTypes, PCs
  <2>3. HolderTypes
    BY <1>1 DEF Init, HolderTypes
  <2> QED
    BY <2>1, <2>2, <2>3 DEF TypeOK
<1>3. \A t \in Tasks : /\ state[t] \in {"ready", "none"} /\ pc[t] = "user" /\ ppid[t] = NoTask
                       /\ join_target[t] = NoTask /\ ~waiting_for_any_child[t] /\ ~queued[t]
                       /\ refs[t] = 0 /\ join_refs[t] = 0
  BY DEF Init
<1>4. (\A x \in Senders : sender[x] = NoSender) /\ (\A x \in Reapers : reaper[x] = NoReaper)
  BY DEF Init
<1>5. Places /\ Entries /\ Handles /\ Births
  BY <1>3 DEF Places, Place, Entries, Entered, Handles, Handle, Births, Joining, Calling
<1>6. Sendings
  BY <1>4, SMT DEF Sendings, Sending, NoSender
<1>7. Custody
  <2>1. \A x \in Reapers : Hand(x) /\ Held(x) = {NoTask}
    BY <1>4, SMT DEF Hand, Held, NoReaper
  <2>2. dead_queue = {}
    BY DEF Init
  <2> QED
    BY <1>3, <2>1, <2>2 DEF Custody
<1>8. Releasing
  BY <1>4, SMT DEF Releasing, Cleared, NoReaper
<1>9. Live /\ Attention
  BY <1>3, <1>4, SMT DEF Live, LiveSender, LiveCall, Attention, NoSender, Joining
<1>10. \A c \in Tasks : Users(c) = {} /\ Joiners(c) = {}
  BY <1>3, <1>4, SMT DEF Users, Joiners, NoSender
<1>11. RefsCounted /\ JoinsCounted
  BY <1>3, <1>10 DEF RefsCounted, JoinsCounted, CountingLaws
<1> QED
  BY <1>2, <1>5, <1>6, <1>7, <1>8, <1>9, <1>11 DEF IInv

LEMMA StutterKept ==
    ASSUME CountingLaws, IInv, UNCHANGED vars PROVE IInv'
<1>0. UNCHANGED <<state, queued, taskVars, refs, pending, jobVars, joinVars, callVars, queueVars,
                  sender, reaper>>
  BY DEF vars
<1>1. TypeOK'
  BY <1>0 DEF IInv, TypeOK, StateTypes, TaskTypes, JobTypes, JoinTypes, CallTypes, QueueTypes,
        HolderTypes, taskVars, jobVars, joinVars, callVars, queueVars
<1>2. \A x \in Reapers : /\ Hand(x)' /\ Cleared(x)'
                         /\ \A c \in Tasks : c \in Held(x)' <=> c \in Held(x)
  BY <1>0 DEF Hand, Held, Cleared, IInv, Custody, Releasing, AllTasks, taskVars, joinVars
<1>3. reaper' \in [Reapers -> ReaperRecord]
  BY <1>1 DEF TypeOK, HolderTypes
<1>4. ASSUME NEW x \in Reapers PROVE IInv'
  BY <1>0, <1>1, <1>2, <1>3, HandMovedKept DEF taskVars, jobVars, queueVars
<1> QED
  BY <1>4

LEMMA StepKept ==
    ASSUME CountingLaws, IInv, [Next]_vars PROVE IInv'
<1>1. ASSUME NEW t \in Tasks, TaskStep(t) PROVE IInv'
  <2>1. Runs(t)
    BY <1>1 DEF TaskStep
  <2>2. CASE Fork(t) \/ Exit(t) \/ SignalTaken(t) \/ JobStop(t) \/ Resume(t) \/ WaitCall(t)
    BY <2>1, <2>2, ForkKept, ExitKept, SignalTakenKept, JobStopKept, ResumeKept, WaitCallKept
  <2>3. CASE PidLock(t) \/ PidWoken(t) \/ PidInterrupted(t)
    BY <2>1, <2>3, PidLockKept, PidWokenKept, PidInterruptedKept
  <2>4. CASE FindChild(t) \/ PrepareWaitAny(t) \/ FinishWaitAny(t)
    BY <2>1, <2>4, FindChildKept, PrepareWaitAnyKept, FinishWaitAnyKept
  <2>5. CASE Join(t) \/ JoinWoken(t) \/ Mark(t) \/ WaitReaps(t)
    BY <2>1, <2>5, JoinKept, JoinWokenKept, MarkKept, WaitReapsKept
  <2> QED
    BY <1>1, <2>2, <2>3, <2>4, <2>5 DEF TaskStep
<1>2. ASSUME NEW k \in Killers, KillerStep(k) PROVE IInv'
  BY <1>2, RetainKept, SendKillDeferredKept, SendKillDirectKept, SendSignalKept, SendContinueKept,
        SendDeadKept, ReleaseKept DEF KillerStep
<1>3. ASSUME NEW x \in Reapers, ReapStep(x) PROVE IInv'
  BY <1>3, ReapLookKept, ReapAgainKept, ReapReleaseKept, ReapPutBackKept DEF ReapStep
<1> QED
  BY <1>1, <1>2, <1>3, StutterKept, OffCpuKept, NotifyParentKept, DeferredWorkKept DEF Next

-----------------------------------------------------------------------------
(* What the counting takes from the library, whose operators on finite     *)
(* sets are those of FiniteSets.                                           *)
FST == INSTANCE FiniteSetTheorems

LEMMA SameFinite == \A S : FST!IsFiniteSet(S) <=> IsFiniteSet(S)
BY DEF FST!IsFiniteSet, IsFiniteSet

LEMMA SameCardinality == \A S : FST!Cardinality(S) = Cardinality(S)
BY DEF FST!Cardinality, Cardinality

LEMMA Laws == CountingLaws
<1> USE SameFinite, SameCardinality
<1>1. ASSUME NEW K, IsFiniteSet(K), NEW S \in SUBSET K
      PROVE  IsFiniteSet(S) /\ Cardinality(S) \in Nat
  BY <1>1, FST!FS_Subset, FST!FS_CardinalityType
<1>2. OneMoreLaw
  BY <1>1, FST!FS_AddElement DEF OneMoreLaw
<1>3. OneLessLaw
  <2> SUFFICES ASSUME NEW K, IsFiniteSet(K), NEW S \in SUBSET K, NEW x \in S
               PROVE  Cardinality(S) \in Nat \ {0} /\ Cardinality(S \ {x}) = Cardinality(S) - 1
    BY DEF OneLessLaw
  <2>1. Cardinality(S) \in Nat /\ Cardinality(S \ {x}) \in Nat
    BY <1>1
  <2>2. Cardinality(S \ {x}) = Cardinality(S) - 1
    BY <1>1, FST!FS_RemoveElement
  <2> QED
    BY <2>1, <2>2, SMT
<1>4. Cardinality({}) = 0
  BY FST!FS_EmptySet
<1> QED
  BY <1>2, <1>3, <1>4 DEF CountingLaws

(* The inductive invariant holds in every reachable state. *)
THEOREM Invariance == Spec => []IInv
<1>1. Init => IInv
  BY InitKept, Laws
<1>2. IInv /\ [Next]_vars => IInv'
  BY StepKept, Laws
<1> QED
  BY <1>1, <1>2, PTL DEF Spec

(* Every field of a task_t, of a caller of kill and of a reaper has its    *)
(* type: join_refs and process_refs in particular never go below zero when *)
(* task_join_done_locked and task_release count them down.                 *)
THEOREM TypeCorrect == Spec => []TypeOK
<1>1. IInv => TypeOK
  BY DEF IInv
<1> QED
  BY <1>1, Invariance, PTL

(* A task_t that task_retain has pinned for a signal, that a sleeper of    *)
(* task_join or task_wait_child_pid waits on, or that                      *)
(* task_find_dead_child_of has handed out for the first time, is not freed *)
(* by reap_dead_tasks.                                                     *)
THEOREM NoUseAfterFree == Spec => []HandlesLive
<1>1. IInv => HandlesLive
  BY LiveIsHandlesLive DEF IInv
<1> QED
  BY <1>1, Invariance, PTL

(* A parent that sleeps in a wait call is on the queue that wakes it, and  *)
(* what it waits for has not happened yet: the exit, stop or continue of a *)
(* child wakes it, or the reaper that has taken the child off the dead     *)
(* queue will when it puts the child back.                                 *)
THEOREM NoChildMissed == Spec => []NoMissedChild
<1>1. IInv => NoMissedChild
  BY AttentionIsNoMissedChild DEF IInv
<1> QED
  BY <1>1, Invariance, PTL

(* process_refs counts the callers between task_retain and task_release,   *)
(* join_refs the sleepers of task_join and task_wait_child_pid, whatever   *)
(* order they are woken, interrupted and killed in.                        *)
THEOREM CountsExact == Spec => []RefsExact
<1>1. IInv => RefsExact
  BY CountsAreRefsExact DEF IInv
<1> QED
  BY <1>1, Invariance, PTL
=============================================================================
