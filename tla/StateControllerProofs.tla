----------------------- MODULE StateControllerProofs -----------------------
(***************************************************************************)
(* Theorems about StateController, for every number of objects, processors *)
(* and tasks, every handling time and every kind and number of faults:     *)
(* type correctness, and the linear history of objects that only the       *)
(* controllers write.                                                      *)
(***************************************************************************)
EXTENDS StateController, TLAPS

TaskType ==
    [pc : {"ready", "handling", "done"}, proc : Procs, obj : Objects,
     snap : Version, age : 0..HandlingTime, again : BOOLEAN]

\* A row's owner and age after any of the operations on the queue table.
RowType == [by : Procs \cup {Nobody, Gone, Absent}, age : 0..ClaimTime + 1]

-----------------------------------------------------------------------------
(* The operators the actions are built from.                               *)

\* Time that passes keeps an age within its cap.
LEMMA OlderType ==
    ASSUME NEW cap \in Nat, NEW age \in 0..cap
    PROVE  Older(age, cap) \in 0..cap
BY DEF Older

\* A new row is a row of the queue table.
LEMMA RowIsRow ==
    ASSUME NEW by \in Procs \cup {Nobody, Gone, Absent}
    PROVE  Row(by) \in RowType
BY ConstantsAssumption DEF Row, RowType, ClaimTime

\* Queueing objects, deleting a processor's rows and a processor's end keep the
\* queue table well formed.
LEMMA QueueOpsType ==
    ASSUME NEW q \in [Objects -> RowType], NEW S, NEW p \in Procs
    PROVE  /\ QueueObjects(q, S) \in [Objects -> RowType]
           /\ DeleteQueuedObjects(q, S, p) \in [Objects -> RowType]
           /\ Orphaned(q, p) \in [Objects -> RowType]
<1>1. QueueObjects(q, S) \in [Objects -> RowType]
  BY RowIsRow DEF QueueObjects
<1>2. DeleteQueuedObjects(q, S, p) \in [Objects -> RowType]
  BY RowIsRow DEF DeleteQueuedObjects
<1>3. Orphaned(q, p) \in [Objects -> RowType]
  BY DEF Orphaned, RowType
<1> QED
  BY <1>1, <1>2, <1>3

\* The next version is a version.
LEMMA IncrementType ==
    ASSUME TypeOK, NEW v \in Version, NEW o \in Objects
    PROVE  Increment(v, o) \in Version
BY DEF TypeOK, Increment, Version

\* Writing a version keeps versions and histories well formed.
LEMMA WriteStateType ==
    ASSUME TypeOK, NEW o \in Objects, NEW new \in Version, WriteState(o, new)
    PROVE  /\ ver' \in [Objects -> Version]
           /\ history' \in [Objects -> Seq(Version)]
           /\ live' = live
<1>1. ver' \in [Objects -> Version]
  BY DEF TypeOK, WriteState
<1>2. history[o] \in Seq(Version)
  BY DEF TypeOK
<1>3. Append(history[o], new) \in Seq(Version)
  BY <1>2
<1>4. history' \in [Objects -> Seq(Version)]
  BY <1>3 DEF TypeOK, WriteState
<1> QED
  BY <1>1, <1>4 DEF WriteState

\* A task that is not free is a proper task.
LEMMA BusyTask ==
    ASSUME TypeOK, NEW s \in Slots, task[s].pc # "free"
    PROVE  task[s] \in TaskType
BY DEF TypeOK, TaskType, NoTask

\* A task that ends stays well formed.
LEMMA EndsType ==
    ASSUME TypeOK, NEW s \in Slots, task[s].pc # "free",
           NEW again \in BOOLEAN, Ends(s, again)
    PROVE  task' \in [Slots -> TaskType \cup {NoTask}]
<1>1. task[s] \in TaskType
  BY BusyTask
<1>2. [task[s] EXCEPT !.pc = "done", !.again = again] \in TaskType
  BY <1>1 DEF TaskType
<1>3. task \in [Slots -> TaskType \cup {NoTask}]
  BY DEF TypeOK, TaskType
<1> QED
  BY <1>2, <1>3 DEF Ends

\* A fault stays within the bound.
LEMMA FaultType ==
    ASSUME TypeOK, NEW kind, Fault(kind)
    PROVE  faults' \in 0..MaxFaults
BY ConstantsAssumption DEF TypeOK, Fault

-----------------------------------------------------------------------------
(* Type correctness.                                                       *)

\* The initial state is well typed.
LEMMA TypeInit == Init => TypeOK
<1> SUFFICES ASSUME Init PROVE TypeOK
  OBVIOUS
<1>1. queue \in [Objects -> RowType]
  BY RowIsRow DEF Init
<1>2. history \in [Objects -> Seq(Version)]
  BY DEF Init
<1>3. /\ ver \in [Objects -> Version] /\ direct \in [Objects -> Version]
      /\ live \subseteq Objects
  BY DEF Init, FirstVersion, NoVersion, Version
<1>4. pend \in [Procs -> [objs : SUBSET Objects, age : 0..HandlingTime]]
  BY ConstantsAssumption DEF Init, NoClaim
<1>5. faults \in 0..MaxFaults
  BY ConstantsAssumption DEF Init
<1> QED
  BY <1>1, <1>2, <1>3, <1>4, <1>5 DEF Init, TypeOK, RowType

\* What a task's step leaves alone keeps its type; the rest is each action's.
LEMMA TaskStepType ==
    ASSUME TypeOK, NEW s \in Slots, TaskStep(s)
    PROVE  TypeOK'
<1>0. task[s] \in TaskType
  BY BusyTask
     DEF TaskStep, Load, LoadMissing, TaskFails, Transition, TransitionAnswerLost,
         TransitionRejected, Invalidated, Settle, Deleted
<1>1. CASE Load(s)
  <2>1. ver[task[s].obj] \in Version
    BY <1>0 DEF TypeOK, TaskType
  <2>2. [task[s] EXCEPT !.pc = "handling", !.snap = ver[task[s].obj]] \in TaskType
    BY <1>0, <2>1 DEF TaskType
  <2>3. task' \in [Slots -> TaskType \cup {NoTask}]
    BY <1>1, <2>2 DEF Load, TypeOK, TaskType
  <2> QED
    BY <1>1, <2>3 DEF Load, TypeOK, TaskType, TaskVars, procVars, objVars
<1>2. CASE LoadMissing(s)
  <2>1. task' \in [Slots -> TaskType \cup {NoTask}]
    BY <1>2, EndsType DEF LoadMissing
  <2> QED
    BY <1>2, <2>1 DEF LoadMissing, TypeOK, TaskType, TaskVars, procVars, objVars
<1>3. CASE TaskFails(s)
  <2>1. task' \in [Slots -> TaskType \cup {NoTask}]
    BY <1>3, EndsType DEF TaskFails
  <2>2. faults' \in 0..MaxFaults
    BY <1>3, FaultType DEF TaskFails, TypeOK
  <2> QED
    BY <1>3, <2>1, <2>2 DEF TaskFails, TypeOK, TaskType, TaskVars, procVars, objVars
<1>4. ASSUME PersistState(s)
      PROVE  /\ ver' \in [Objects -> Version]
             /\ history' \in [Objects -> Seq(Version)]
             /\ direct' \in [Objects -> Version] /\ live' \subseteq Objects
  <2>1. Increment(task[s].snap, task[s].obj) \in Version
    BY <1>0, IncrementType DEF TaskType
  <2> QED
    BY <1>0, <1>4, <2>1, WriteStateType DEF PersistState, TypeOK, TaskType
<1>5. CASE Transition(s)
  <2>1. task' \in [Slots -> TaskType \cup {NoTask}]
    BY <1>5, EndsType DEF Transition
  <2>2. owed' \subseteq Objects
    BY <1>0, <1>5 DEF Transition, TypeOK, TaskType
  <2> QED
    BY <1>4, <1>5, <2>1, <2>2 DEF Transition, TypeOK, TaskType, TaskVars, procVars
<1>6. CASE TransitionAnswerLost(s)
  <2>1. task' \in [Slots -> TaskType \cup {NoTask}]
    BY <1>6, EndsType DEF TransitionAnswerLost
  <2>2. faults' \in 0..MaxFaults
    BY <1>6, FaultType DEF TransitionAnswerLost
  <2> QED
    BY <1>4, <1>6, <2>1, <2>2
       DEF TransitionAnswerLost, TypeOK, TaskType, TaskVars, procVars
<1>7. CASE TransitionRejected(s)
  <2>1. task' \in [Slots -> TaskType \cup {NoTask}]
    BY <1>7, EndsType DEF TransitionRejected
  <2>2. owed' \subseteq Objects
    BY <1>0, <1>7 DEF TransitionRejected, TypeOK, TaskType
  <2> QED
    BY <1>7, <2>1, <2>2
       DEF TransitionRejected, TypeOK, TaskType, TaskVars, procVars, objVars
<1>8. CASE Invalidated(s)
  <2>1. task' \in [Slots -> TaskType \cup {NoTask}]
    BY <1>8, EndsType DEF Invalidated
  <2>2. owed' \subseteq Objects
    BY <1>0, <1>8 DEF Invalidated, TypeOK, TaskType
  <2> QED
    BY <1>8, <2>1, <2>2 DEF Invalidated, TypeOK, TaskType, TaskVars, procVars, objVars
<1>9. CASE Settle(s)
  <2>1. task' \in [Slots -> TaskType \cup {NoTask}]
    BY <1>9, EndsType DEF Settle
  <2> QED
    BY <1>9, <2>1 DEF Settle, TypeOK, TaskType, TaskVars, procVars, objVars
<1>10. CASE Deleted(s)
  <2>1. task' \in [Slots -> TaskType \cup {NoTask}]
    BY <1>10, EndsType DEF Deleted
  <2> QED
    BY <1>10, <2>1 DEF Deleted, TypeOK, TaskType, TaskVars, procVars
<1> QED
  BY <1>1, <1>2, <1>3, <1>5, <1>6, <1>7, <1>8, <1>9, <1>10 DEF TaskStep

\* Collecting finished tasks moves objects of tasks to the two sets of a
\* processor and frees the tasks.
LEMMA CollectDoneType ==
    ASSUME TypeOK, NEW p \in Procs, CollectDone(p)
    PROVE  /\ completed' \in [Procs -> SUBSET Objects]
           /\ requeue' \in [Procs -> SUBSET Objects]
           /\ task' \in [Slots -> TaskType \cup {NoTask}]
<1>1. \A s \in Done(p) : task[s] \in TaskType
  BY BusyTask DEF Done, Tasks
<1>2. {task[s].obj : s \in Done(p)} \subseteq Objects
  BY <1>1 DEF TaskType
<1>3. {task[s].obj : s \in {d \in Done(p) : task[d].again}} \subseteq Objects
  BY <1>1 DEF TaskType
<1>4. completed' \in [Procs -> SUBSET Objects]
  BY <1>2 DEF CollectDone, TypeOK
<1>5. requeue' \in [Procs -> SUBSET Objects]
  BY <1>3 DEF CollectDone, TypeOK
<1>6. task' \in [Slots -> TaskType \cup {NoTask}]
  BY DEF CollectDone, TypeOK, TaskType
<1> QED
  BY <1>4, <1>5, <1>6

\* A new processor starts with nothing claimed or completed.
LEMMA RebornType ==
    ASSUME TypeOK, NEW p \in Procs, Reborn(p)
    PROVE  /\ pc' \in [Procs -> {"claim", "dispatch", "collect", "finalize", "drain"}]
           /\ pend' \in [Procs -> [objs : SUBSET Objects, age : 0..HandlingTime]]
           /\ completed' \in [Procs -> SUBSET Objects]
           /\ requeue' \in [Procs -> SUBSET Objects]
BY ConstantsAssumption DEF Reborn, TypeOK, NoClaim

\* The steps of a processor's loop keep every variable's type.
LEMMA ProcStepType ==
    ASSUME TypeOK, NEW p \in Procs, ProcStep(p)
    PROVE  TypeOK'
<1>0. /\ queue \in [Objects -> RowType]
      /\ task \in [Slots -> TaskType \cup {NoTask}]
  BY DEF TypeOK, RowType, TaskType
<1>f. Finalized(p) \in [Objects -> RowType]
  BY <1>0, QueueOpsType DEF Finalized
<1>1. CASE Claim(p)
  <2>1. PICK S \in SUBSET Claimable :
          /\ queue' = [o \in Objects |-> IF o \in S THEN Row(p) ELSE queue[o]]
          /\ pend' = [pend EXCEPT ![p] = [objs |-> S, age |-> 0]]
    BY <1>1 DEF Claim
  <2>2. S \subseteq Objects
    BY DEF Claimable
  <2>3. queue' \in [Objects -> RowType]
    BY <1>0, <2>1, RowIsRow
  <2>4. pend' \in [Procs -> [objs : SUBSET Objects, age : 0..HandlingTime]]
    BY <2>1, <2>2, ConstantsAssumption DEF TypeOK
  <2> QED
    BY <1>1, <2>3, <2>4 DEF Claim, TypeOK, RowType, objVars
<1>2. CASE ClaimNothing(p)
  BY <1>2 DEF ClaimNothing, TypeOK, objVars
<1>3. CASE Dispatch(p)
  <2>1. PICK f \in [pend[p].objs -> {s \in Slots : task[s].pc = "free"}] :
          task' = [s \in Slots |->
                     IF \E o \in pend[p].objs : f[o] = s
                     THEN NewTask(p, CHOOSE o \in pend[p].objs : f[o] = s, pend[p].age)
                     ELSE task[s]]
    BY <1>3 DEF Dispatch
  <2>2. pend[p].objs \subseteq Objects /\ pend[p].age \in 0..HandlingTime
    BY DEF TypeOK
  <2>3. \A o \in Objects : NewTask(p, o, pend[p].age) \in TaskType
    BY <2>2 DEF NewTask, TaskType, NoVersion, Version
  <2>4. ASSUME NEW s \in Slots
        PROVE  task'[s] \in TaskType \cup {NoTask}
    <3>1. CASE \E o \in pend[p].objs : f[o] = s
      <4>1. (CHOOSE o \in pend[p].objs : f[o] = s) \in Objects
        BY <3>1, <2>2
      <4> QED
        BY <2>1, <2>3, <3>1, <4>1
    <3>2. CASE ~ \E o \in pend[p].objs : f[o] = s
      BY <1>0, <2>1, <3>2
    <3> QED
      BY <3>1, <3>2
  <2>5. task' \in [Slots -> TaskType \cup {NoTask}]
    BY <2>1, <2>4
  <2>6. pend' \in [Procs -> [objs : SUBSET Objects, age : 0..HandlingTime]]
    BY <1>3, ConstantsAssumption DEF Dispatch, TypeOK, NoClaim
  <2> QED
    BY <1>3, <2>5, <2>6 DEF Dispatch, TypeOK, TaskType, objVars
<1>4. CASE ClaimTimeout(p)
  <2>1. faults' \in 0..MaxFaults
    BY <1>4, FaultType DEF ClaimTimeout, TypeOK
  <2>2. pend' \in [Procs -> [objs : SUBSET Objects, age : 0..HandlingTime]]
    BY <1>4, ConstantsAssumption DEF ClaimTimeout, TypeOK, NoClaim
  <2> QED
    BY <1>4, <2>1, <2>2 DEF ClaimTimeout, TypeOK, objVars
<1>5. CASE Collect(p)
  BY <1>5, CollectDoneType DEF Collect, TypeOK, TaskType, objVars
<1>6. CASE Finalize(p)
  <2>1. queue' \in [Objects -> RowType]
    BY <1>0, <1>f, <1>6 DEF Finalize
  <2> QED
    BY <1>6, <2>1 DEF Finalize, TypeOK, RowType, objVars
<1>7. CASE FinalizeFailed(p)
  BY <1>7, FaultType DEF FinalizeFailed, TypeOK, objVars
<1>8. CASE FinalizeAnswerLost(p)
  <2>1. queue' \in [Objects -> RowType]
    BY <1>f, <1>8 DEF FinalizeAnswerLost
  <2> QED
    BY <1>8, <2>1, FaultType DEF FinalizeAnswerLost, TypeOK, RowType, objVars
<1>9. CASE Stop(p)
  BY <1>9, FaultType DEF Stop, TypeOK, objVars
<1>10. CASE DrainCollect(p)
  BY <1>10, CollectDoneType DEF DrainCollect, TypeOK, TaskType, objVars
<1>11. CASE DrainFinish(p)
  <2>a. Orphaned(queue, p) \in [Objects -> RowType]
    BY <1>0, QueueOpsType
  <2>b. Orphaned(Finalized(p), p) \in [Objects -> RowType]
    BY <1>f, QueueOpsType
  <2>1. queue' \in [Objects -> RowType]
    BY <1>11, <2>a, <2>b DEF DrainFinish
  <2>2. faults' \in 0..MaxFaults
    BY <1>11, FaultType DEF DrainFinish, TypeOK
  <2> QED
    BY <1>11, <2>1, <2>2, RebornType DEF DrainFinish, TypeOK, RowType, objVars
<1>12. CASE Crash(p)
  <2>1. queue' \in [Objects -> RowType]
    BY <1>0, <1>12, QueueOpsType DEF Crash
  <2>2. task' \in [Slots -> TaskType \cup {NoTask}]
    BY <1>0, <1>12 DEF Crash
  <2> QED
    BY <1>12, <2>1, <2>2, RebornType, FaultType
       DEF Crash, TypeOK, RowType, TaskType, objVars
<1> QED
  BY <1>1, <1>2, <1>3, <1>4, <1>5, <1>6, <1>7, <1>8, <1>9, <1>10, <1>11, <1>12
     DEF ProcStep

\* Every step keeps every variable's type.
LEMMA TypeStep == TypeOK /\ [Next]_vars => TypeOK'
<1> SUFFICES ASSUME TypeOK, [Next]_vars PROVE TypeOK'
  OBVIOUS
<1>0. /\ queue \in [Objects -> RowType]
      /\ task \in [Slots -> TaskType \cup {NoTask}]
  BY DEF TypeOK, RowType, TaskType
<1>1. CASE ListObjects
  BY <1>1 DEF ListObjects, TypeOK, objVars, procVars
<1>2. CASE QueueListed
  <2>1. queue' \in [Objects -> RowType]
    BY <1>0, <1>2, RowIsRow DEF QueueListed, QueueObjects
  <2> QED
    BY <1>2, <2>1 DEF QueueListed, TypeOK, RowType, objVars, procVars
<1>3. ASSUME NEW o \in Objects, EnqueueObject(o) PROVE TypeOK'
  <2>1. queue' \in [Objects -> RowType]
    BY <1>0, <1>3, RowIsRow DEF EnqueueObject, QueueObjects
  <2> QED
    BY <1>3, <2>1 DEF EnqueueObject, TypeOK, RowType, objVars, procVars
<1>4. ASSUME NEW o \in Objects, Request(o) PROVE TypeOK'
  BY <1>4 DEF Request, TypeOK, objVars, procVars
<1>5. ASSUME NEW o \in Objects, DirectRead(o) PROVE TypeOK'
  BY <1>5 DEF DirectRead, TypeOK, procVars
<1>6. ASSUME NEW o \in Objects, DirectWrite(o) PROVE TypeOK'
  <2>1. Increment(direct[o], o) \in Version
    BY IncrementType DEF TypeOK
  <2>2. /\ ver' \in [Objects -> Version]
        /\ history' \in [Objects -> Seq(Version)]
        /\ live' \subseteq Objects
    BY <1>6, <2>1, WriteStateType DEF DirectWrite, TypeOK
  <2>3. direct' \in [Objects -> Version]
    BY <1>6 DEF DirectWrite, TypeOK, NoVersion, Version
  <2> QED
    BY <1>6, <2>2, <2>3 DEF DirectWrite, TypeOK, procVars
<1>7. ASSUME NEW o \in Objects, ForceDelete(o) PROVE TypeOK'
  BY <1>7 DEF ForceDelete, TypeOK, procVars
<1>8. ASSUME NEW p \in Procs, ProcStep(p) PROVE TypeOK'
  BY <1>8, ProcStepType
<1>9. ASSUME NEW s \in Slots, TaskStep(s) PROVE TypeOK'
  BY <1>9, TaskStepType
<1>10. CASE Tick
  <2>1. ClaimTime + 1 \in Nat /\ HandlingTime \in Nat
    BY ConstantsAssumption DEF ClaimTime
  <2>2. ASSUME NEW o \in Objects
        PROVE  [queue[o] EXCEPT !.age = Older(@, ClaimTime + 1)] \in RowType
    BY <1>0, <2>1, OlderType DEF RowType
  <2>3. queue' \in [Objects -> RowType]
    BY <1>0, <1>10, <2>2 DEF Tick
  <2>4. ASSUME NEW s \in Slots, Running(s)
        PROVE  [task[s] EXCEPT !.age = Older(@, HandlingTime)] \in TaskType
    <3>1. task[s] \in TaskType
      BY <2>4, BusyTask DEF Running
    <3>2. Older(task[s].age, HandlingTime) \in 0..HandlingTime
      BY <2>1, <3>1, OlderType DEF TaskType
    <3> QED
      BY <3>1, <3>2 DEF TaskType
  <2>5. task' \in [Slots -> TaskType \cup {NoTask}]
    BY <1>0, <1>10, <2>4 DEF Tick
  <2>6. ASSUME NEW p \in Procs
        PROVE  [pend[p] EXCEPT !.age = Older(@, HandlingTime)]
                  \in [objs : SUBSET Objects, age : 0..HandlingTime]
    BY <2>1, OlderType DEF TypeOK
  <2>7. pend' \in [Procs -> [objs : SUBSET Objects, age : 0..HandlingTime]]
    BY <1>10, <2>6 DEF Tick, TypeOK
  <2> QED
    BY <1>10, <2>3, <2>5, <2>7 DEF Tick, TypeOK, RowType, TaskType, objVars
<1>11. CASE UNCHANGED vars
  BY <1>11 DEF vars, TypeOK
<1> QED
  BY <1>1, <1>2, <1>3, <1>4, <1>5, <1>6, <1>7, <1>8, <1>9, <1>10, <1>11 DEF Next

\* Type correctness: whatever fails, ages stay within their caps, faults within
\* their bound, and every task that runs belongs to a processor and an object.
THEOREM TypeCorrect == Spec => []TypeOK
BY TypeInit, TypeStep, PTL DEF Spec

-----------------------------------------------------------------------------
(* The history of objects that only the controllers write.                 *)

\* The time of an object's version counts its writes.
TimeCountsWrites == \A o \in Objects : ver[o].time = Len(history[o])

\* No direct writer holds a version it has read.
NoDirectWriter == \A o \in Objects : direct[o] = NoVersion

\* HistoryIsLinear, made inductive: a write is decided by the version it replaces.
LinearInv == TypeOK /\ HistoryIsLinear /\ TimeCountsWrites /\ NoDirectWriter

\* Writing the increment of the present version is a step of LinearObjects and
\* extends the line of versions by one.
LEMMA WriteIsStep ==
    ASSUME LinearInv, NEW o \in Objects, o \in live,
           WriteState(o, Increment(ver[o], o))
    PROVE  Linear!Step(o) /\ HistoryIsLinear' /\ TimeCountsWrites'
<1> DEFINE new == Increment(ver[o], o)
<1>0. /\ ver \in [Objects -> Version]
      /\ history \in [Objects -> Seq(Version)]
      /\ history[o] \in Seq(Version) /\ ver[o] \in Version
      /\ Len(history[o]) = ver[o].num - 1 /\ ver[o].time = Len(history[o])
      /\ \A n \in 1..Len(history[o]) : history[o][n].num = n + 1
  BY DEF LinearInv, TypeOK, HistoryIsLinear, TimeCountsWrites
<1>a. ver[o].num \in Nat /\ Len(history[o]) \in Nat
  BY <1>0 DEF Version
<1>1. ver[o].num = Len(history[o]) + 1
  BY <1>0, <1>a
<1>2. new \in Version /\ new.num = ver[o].num + 1 /\ new.time = ver[o].time + 1
      /\ new = [num |-> ver[o].num + 1, time |-> ver[o].time + 1]
  BY <1>0, <1>a, <1>1, IncrementType DEF Increment, LinearInv, TypeOK
<1>3. /\ ver' = [ver EXCEPT ![o] = new]
      /\ history' = [history EXCEPT ![o] = Append(history[o], new)]
      /\ live' = live
  BY DEF WriteState
<1> HIDE DEF new
<1>4. /\ ver'[o] = new /\ history'[o] = Append(history[o], new)
      /\ \A r \in Objects \ {o} : ver'[r] = ver[r] /\ history'[r] = history[r]
  BY <1>0, <1>a, <1>1, <1>3
<1>5. /\ Len(history'[o]) = Len(history[o]) + 1
      /\ history'[o][Len(history[o]) + 1] = new
      /\ \A n \in 1..Len(history[o]) : history'[o][n] = history[o][n]
  <2> DEFINE h == history[o]
  <2>1. h \in Seq(Version) /\ new \in Version /\ history'[o] = Append(h, new)
    BY <1>0, <1>a, <1>1, <1>2, <1>4
  <2> HIDE DEF h
  <2>2. /\ Len(Append(h, new)) = Len(h) + 1
        /\ Append(h, new)[Len(h) + 1] = new
        /\ \A n \in 1..Len(h) : Append(h, new)[n] = h[n]
    BY <2>1
  <2> QED
    BY <2>1, <2>2 DEF h
<1>6. \A n \in 1..Len(history'[o]) : history'[o][n].num = n + 1
  <2> SUFFICES ASSUME NEW n \in 1..Len(history'[o]) PROVE history'[o][n].num = n + 1
    OBVIOUS
  <2>1. Len(history[o]) \in Nat
    BY <1>0, <1>a, <1>1
  <2>2. CASE n \in 1..Len(history[o])
    BY <1>0, <1>a, <1>1, <1>5, <2>2
  <2>3. CASE n = Len(history[o]) + 1
    BY <1>0, <1>a, <1>1, <1>2, <1>5, <2>3
  <2> QED
    BY <1>5, <2>1, <2>2, <2>3
<1>7. Len(history'[o]) = ver'[o].num - 1 /\ ver'[o].time = Len(history'[o])
  BY <1>0, <1>a, <1>1, <1>2, <1>4, <1>5
<1>8. HistoryIsLinear'
  BY <1>4, <1>6, <1>7 DEF HistoryIsLinear, LinearInv
<1>9. TimeCountsWrites'
  BY <1>4, <1>7 DEF TimeCountsWrites, LinearInv
<1>10. Linear!Step(o)
  BY <1>2, <1>3, <1>4 DEF Linear!Step
<1> QED
  BY <1>8, <1>9, <1>10

\* A committed transition writes the increment of the present version.
LEMMA PersistIsStep ==
    ASSUME LinearInv, NEW s \in Slots, task[s].pc # "free",
           StateIsCurrent(s), PersistState(s)
    PROVE  (\E o \in Objects : Linear!Step(o)) /\ HistoryIsLinear' /\ TimeCountsWrites'
<1>1. task[s].obj \in Objects /\ task[s].obj \in live
  BY BusyTask DEF LinearInv, StateIsCurrent, TaskType
<1>2. WriteState(task[s].obj, Increment(ver[task[s].obj], task[s].obj))
  BY DEF StateIsCurrent, PersistState
<1> QED
  BY <1>1, <1>2, WriteIsStep

\* Every step is a step of LinearObjects or leaves the objects alone, and keeps
\* the inductive invariant.
LEMMA LinearStep ==
    ASSUME DirectlyWritten = {}, LinearInv, [Next]_vars
    PROVE  LinearInv' /\ [Linear!Next]_(Linear!vars)
<1>t. TypeOK'
  BY TypeStep DEF LinearInv
<1>d. UNCHANGED direct
  <2>1. \A o \in Objects : ~DirectRead(o) /\ ~DirectWrite(o)
    BY DEF LinearInv, NoDirectWriter, DirectRead, DirectWrite
  <2> QED
    BY <2>1
       DEF Next, ListObjects, QueueListed, EnqueueObject, Request, ForceDelete,
           ProcStep, Claim, ClaimNothing, Dispatch, ClaimTimeout, Collect, Finalize,
           FinalizeFailed, FinalizeAnswerLost, Stop, DrainCollect, DrainFinish, Crash,
           TaskStep, Load, LoadMissing, TaskFails, Transition, TransitionAnswerLost,
           TransitionRejected, Invalidated, Settle, Deleted, PersistState, Tick,
           objVars, vars
<1>n. NoDirectWriter'
  BY <1>d DEF LinearInv, NoDirectWriter
<1>1. CASE UNCHANGED <<live, ver, history>>
  <2>1. HistoryIsLinear' /\ TimeCountsWrites'
    BY <1>1 DEF LinearInv, HistoryIsLinear, TimeCountsWrites
  <2> QED
    BY <1>1, <1>t, <1>n, <2>1 DEF LinearInv, Linear!vars
<1>2. ASSUME NEW o \in Objects, live' = live \ {o}, UNCHANGED <<ver, history>>
      PROVE  LinearInv' /\ [Linear!Next]_(Linear!vars)
  <2>1. HistoryIsLinear' /\ TimeCountsWrites'
    BY <1>2 DEF LinearInv, HistoryIsLinear, TimeCountsWrites
  <2>2. Linear!Next
    BY <1>2 DEF Linear!Next, Linear!Remove
  <2> QED
    BY <1>t, <1>n, <2>1, <2>2 DEF LinearInv
<1>3. ASSUME NEW s \in Slots, task[s].pc # "free", StateIsCurrent(s), PersistState(s)
      PROVE  LinearInv' /\ [Linear!Next]_(Linear!vars)
  <2>1. (\E o \in Objects : Linear!Step(o)) /\ HistoryIsLinear' /\ TimeCountsWrites'
    BY <1>3, PersistIsStep
  <2> QED
    BY <1>t, <1>n, <2>1 DEF LinearInv, Linear!Next
<1>4. ASSUME NEW o \in Objects, ForceDelete(o)
      PROVE  LinearInv' /\ [Linear!Next]_(Linear!vars)
  BY <1>2, <1>4 DEF ForceDelete
<1>5. ASSUME NEW s \in Slots, TaskStep(s)
      PROVE  LinearInv' /\ [Linear!Next]_(Linear!vars)
  <2>1. CASE Transition(s)
    BY <1>3, <2>1 DEF Transition
  <2>2. CASE TransitionAnswerLost(s)
    BY <1>3, <2>2 DEF TransitionAnswerLost
  <2>3. CASE Deleted(s)
    <3>1. task[s].obj \in Objects
      BY <2>3, BusyTask DEF LinearInv, Deleted, TaskType
    <3> QED
      BY <1>2, <2>3, <3>1 DEF Deleted
  <2>4. CASE \/ Load(s) \/ LoadMissing(s) \/ TaskFails(s)
             \/ TransitionRejected(s) \/ Invalidated(s) \/ Settle(s)
    BY <1>1, <2>4
       DEF Load, LoadMissing, TaskFails, TransitionRejected, Invalidated, Settle, objVars
  <2> QED
    BY <1>5, <2>1, <2>2, <2>3, <2>4 DEF TaskStep
<1>6. ASSUME NEW p \in Procs, ProcStep(p)
      PROVE  UNCHANGED <<live, ver, history>>
  BY <1>6
     DEF ProcStep, Claim, ClaimNothing, Dispatch, ClaimTimeout, Collect, Finalize,
         FinalizeFailed, FinalizeAnswerLost, Stop, DrainCollect, DrainFinish, Crash,
         objVars
<1>7. CASE \/ ListObjects \/ QueueListed \/ Tick
           \/ \E o \in Objects : EnqueueObject(o) \/ Request(o)
           \/ UNCHANGED vars
  BY <1>1, <1>7 DEF ListObjects, QueueListed, Tick, EnqueueObject, Request, objVars, vars
<1>8. ASSUME NEW o \in Objects PROVE ~DirectRead(o) /\ ~DirectWrite(o)
  BY DEF LinearInv, NoDirectWriter, DirectRead, DirectWrite
<1> QED
  BY <1>1, <1>4, <1>5, <1>6, <1>7, <1>8 DEF Next

\* The initial state satisfies the invariant and is one of LinearObjects.
LEMMA LinearInit == Init => LinearInv /\ Linear!Init
<1> SUFFICES ASSUME Init PROVE LinearInv /\ Linear!Init
  OBVIOUS
<1>1. TypeOK
  BY TypeInit
<1>2. \A o \in Objects : history[o] = <<>> /\ ver[o].num = 1 /\ ver[o].time = 0
  BY DEF Init, FirstVersion
<1>3. HistoryIsLinear /\ TimeCountsWrites
  BY <1>2 DEF HistoryIsLinear, TimeCountsWrites
<1>4. NoDirectWriter /\ Linear!Init
  BY DEF Init, NoDirectWriter, Linear!Init, FirstVersion
<1> QED
  BY <1>1, <1>3, <1>4 DEF LinearInv

\* Over every fault the model has, stale claims and late tasks included, an
\* object that only the controllers write goes through one line of versions: the
\* version comparison of persist_controller_state alone sees to that, not the
\* queue's claims.
THEOREM LinearHistory ==
    ASSUME DirectlyWritten = {}
    PROVE  Spec => []HistoryIsLinear
<1>1. LinearInv /\ [Next]_vars => LinearInv'
  BY LinearStep
<1>2. LinearInv => HistoryIsLinear
  BY DEF LinearInv
<1> QED
  BY LinearInit, <1>1, <1>2, PTL DEF Spec

\* The controllers of all processes together implement one sequential controller
\* per object.
THEOREM Refinement ==
    ASSUME DirectlyWritten = {}
    PROVE  Spec => ImplementsLinearObjects
<1>1. LinearInv /\ [Next]_vars => LinearInv' /\ [Linear!Next]_(Linear!vars)
  BY LinearStep
<1> QED
  BY LinearInit, <1>1, PTL DEF Spec, ImplementsLinearObjects, Linear!Spec

=============================================================================
