---------------------------- MODULE ClaimProofs ----------------------------
(***************************************************************************)
(* What the queue's claims achieve while deadlines are kept and the answer *)
(* to a finalization is not lost: an object has one handler at a time,     *)
(* finalizations find the rows they delete, and the follow-up of a step    *)
(* stays queued.  For every number of objects, processors, tasks and       *)
(* faults and every handling time.                                         *)
(***************************************************************************)
EXTENDS StateControllerProofs

\* Deadlines are kept, and a finalization is not reported as failed once it has
\* been committed.
Punctual == "late" \notin FaultKinds /\ "finalizeAnswer" \notin FaultKinds

-----------------------------------------------------------------------------
(* The inductive invariant: who has work on an object has claimed its row, *)
(* and the row is not older than the work.                                 *)

\* A running task's row is its processor's and no older than the task.
RunningHolds ==
    \A s \in Slots : Running(s) =>
        queue[task[s].obj].by = task[s].proc /\ queue[task[s].obj].age <= task[s].age

\* A finished task's row is its processor's and not stale.
DoneHolds ==
    \A s \in Slots : task[s].pc = "done" =>
        queue[task[s].obj].by = task[s].proc /\ queue[task[s].obj].age <= ClaimTime

\* So is the row of an object that awaits finalization.
CompletedHolds ==
    \A p \in Procs : \A o \in completed[p] :
        queue[o].by = p /\ queue[o].age <= ClaimTime

\* A claim that may still be dispatched is as young as its deadline says.
PendingHolds ==
    \A p \in Procs : pend[p].age < HandlingTime =>
        \A o \in pend[p].objs : queue[o].by = p /\ queue[o].age <= pend[p].age

\* Claims wait for dispatch only between the two.
PendingInDispatch ==
    \A p \in Procs : pc[p] # "dispatch" => pend[p].objs = {}

\* Two tasks have two objects.
OneTask ==
    \A s, t \in Slots :
        s # t /\ task[s].pc # "free" /\ task[t].pc # "free" => task[s].obj # task[t].obj

\* A processor has an object in one place: claimed, in a task, or completed.
TaskNotCompleted ==
    \A s \in Slots : task[s].pc # "free" => task[s].obj \notin completed[task[s].proc]

TaskNotPending ==
    \A s \in Slots : task[s].pc # "free" /\ pend[task[s].proc].age < HandlingTime =>
        task[s].obj \notin pend[task[s].proc].objs

CompletedNotPending ==
    \A p \in Procs : pend[p].age < HandlingTime => completed[p] \cap pend[p].objs = {}

ClaimInv ==
    /\ TypeOK
    /\ RunningHolds /\ DoneHolds /\ CompletedHolds
    /\ PendingHolds /\ PendingInDispatch
    /\ OneTask /\ TaskNotCompleted /\ TaskNotPending /\ CompletedNotPending

-----------------------------------------------------------------------------
(* Facts about one state or one step.                                      *)

\* Times and processors the constants stand for.
LEMMA Times ==
    /\ HandlingTime \in Nat /\ 0 < HandlingTime
    /\ ClaimTime \in Nat /\ HandlingTime <= ClaimTime
    /\ \A p \in Procs : p # Nobody /\ p # Gone /\ p # Absent
BY ConstantsAssumption DEF ClaimTime

\* A task that is not free has a claimed row that is not stale.
LEMMA BusyHolds ==
    ASSUME ClaimInv, NEW s \in Slots, task[s].pc # "free"
    PROVE  /\ task[s] \in TaskType /\ task[s].obj \in Objects /\ task[s].proc \in Procs
           /\ queue[task[s].obj].by = task[s].proc
           /\ queue[task[s].obj].age <= ClaimTime
<1>1. task[s] \in TaskType
  BY BusyTask DEF ClaimInv
<1>2. /\ task[s].obj \in Objects /\ task[s].proc \in Procs
      /\ task[s].age \in 0..HandlingTime /\ task[s].pc \in {"ready", "handling", "done"}
  BY <1>1 DEF TaskType
<1>3. queue[task[s].obj].age \in 0..ClaimTime + 1
  BY <1>2 DEF ClaimInv, TypeOK
<1>4. CASE task[s].pc = "done"
  BY <1>1, <1>2, <1>4 DEF ClaimInv, DoneHolds
<1>5. CASE Running(s)
  BY <1>1, <1>2, <1>3, <1>5, Times DEF ClaimInv, RunningHolds
<1> QED
  BY <1>2, <1>4, <1>5 DEF Running

\* No row that somebody works on can be claimed.
LEMMA ClaimedIsNotClaimable ==
    ASSUME TypeOK, NEW o \in Objects, NEW p \in Procs,
           queue[o].by = p, queue[o].age <= ClaimTime
    PROVE  o \notin Claimable
<1>1. queue[o].age \in 0..ClaimTime + 1 /\ ClaimTime \in Nat
  BY Times DEF TypeOK
<1> QED
  BY <1>1, Times DEF Claimable

\* Queueing objects leaves claimed rows alone.
LEMMA QueueObjectsKeeps ==
    ASSUME NEW q, NEW S, NEW o \in Objects, q[o].by # Absent
    PROVE  QueueObjects(q, S)[o] = q[o]
BY DEF QueueObjects

\* What a step of a task does to it and to everything the invariant is about.
LEMMA TaskStepShape ==
    ASSUME TypeOK, NEW s \in Slots, TaskStep(s)
    PROVE  /\ Running(s)
           /\ task'[s].obj = task[s].obj /\ task'[s].proc = task[s].proc
           /\ task'[s].age = task[s].age /\ task'[s].pc \in {"handling", "done"}
           /\ \A t \in Slots \ {s} : task'[t] = task[t]
           /\ UNCHANGED <<queue, pc, pend, completed, requeue>>
<1>1. Running(s)
  BY DEF TaskStep, Load, LoadMissing, TaskFails, Transition, TransitionAnswerLost,
         TransitionRejected, Invalidated, Settle, Deleted, Running
<1>2. task[s] \in TaskType /\ task \in [Slots -> TaskType \cup {NoTask}]
  BY <1>1, BusyTask DEF Running, TypeOK, TaskType
<1>3. UNCHANGED <<queue, pc, pend, completed, requeue>>
  BY DEF TaskStep, Load, LoadMissing, TaskFails, Transition, TransitionAnswerLost,
         TransitionRejected, Invalidated, Settle, Deleted, TaskVars, procVars
<1>4. CASE Load(s)
  BY <1>1, <1>2, <1>3, <1>4 DEF Load, TaskType
<1>5. ASSUME NEW again, Ends(s, again)
      PROVE  /\ task'[s].obj = task[s].obj /\ task'[s].proc = task[s].proc
             /\ task'[s].age = task[s].age /\ task'[s].pc = "done"
             /\ \A t \in Slots \ {s} : task'[t] = task[t]
  BY <1>2, <1>5 DEF Ends, TaskType
<1>6. CASE ~Load(s)
  <2>1. \E again \in BOOLEAN : Ends(s, again)
    BY <1>6 DEF TaskStep, LoadMissing, TaskFails, Transition, TransitionAnswerLost,
                TransitionRejected, Invalidated, Settle, Deleted
  <2> QED
    BY <1>1, <1>3, <1>5, <2>1
<1> QED
  BY <1>4, <1>6

-----------------------------------------------------------------------------
(* ClaimInv is inductive.                                                  *)

\* A step that takes up no work, drops some perhaps, and leaves the rows of what
\* it keeps alone.
NoNewWork ==
    /\ \A s \in Slots : task'[s].pc # "free" =>
         task'[s] = task[s] /\ queue'[task[s].obj] = queue[task[s].obj]
    /\ \A p \in Procs : \A o \in completed'[p] :
         o \in completed[p] /\ queue'[o] = queue[o]
    /\ \A p \in Procs : \A o \in pend'[p].objs :
         pend'[p] = pend[p] /\ (pend[p].age < HandlingTime => queue'[o] = queue[o])
    /\ \A p \in Procs : pc'[p] # "dispatch" => pend'[p].objs = {}

LEMMA NoNewWorkKeeps ==
    ASSUME ClaimInv, TypeOK', NoNewWork
    PROVE  ClaimInv'
<1>1. RunningHolds' /\ DoneHolds'
  BY DEF ClaimInv, NoNewWork, RunningHolds, DoneHolds, Running
<1>2. CompletedHolds' /\ PendingHolds' /\ PendingInDispatch'
  BY DEF ClaimInv, NoNewWork, CompletedHolds, PendingHolds, PendingInDispatch
<1>3. OneTask'
  BY DEF ClaimInv, NoNewWork, OneTask
<1>4. ASSUME NEW s \in Slots, task'[s].pc # "free"
      PROVE  task'[s] = task[s] /\ task[s].proc \in Procs /\ task[s].pc # "free"
  BY <1>4, BusyHolds DEF NoNewWork
<1>5. TaskNotCompleted'
  BY <1>4 DEF ClaimInv, NoNewWork, TaskNotCompleted
<1>6. TaskNotPending'
  BY <1>4 DEF ClaimInv, NoNewWork, TaskNotPending
<1>7. CompletedNotPending'
  BY DEF ClaimInv, NoNewWork, CompletedNotPending
<1> QED
  BY <1>1, <1>2, <1>3, <1>5, <1>6, <1>7 DEF ClaimInv

LEMMA ClaimInit == Init => ClaimInv
<1> SUFFICES ASSUME Init PROVE ClaimInv
  OBVIOUS
<1>1. /\ \A s \in Slots : task[s].pc = "free"
      /\ \A p \in Procs : completed[p] = {} /\ pend[p].objs = {}
  BY DEF Init, NoTask, NoClaim
<1> QED
  BY <1>1, TypeInit
     DEF ClaimInv, RunningHolds, DoneHolds, CompletedHolds, PendingHolds,
         PendingInDispatch, OneTask, TaskNotCompleted, TaskNotPending,
         CompletedNotPending, Running

\* A task that loads, fails or ends holds its row as before.
LEMMA TaskStepClaims ==
    ASSUME ClaimInv, TypeOK', NEW s \in Slots, TaskStep(s)
    PROVE  ClaimInv'
<1>1. /\ Running(s)
      /\ task'[s].obj = task[s].obj /\ task'[s].proc = task[s].proc
      /\ task'[s].age = task[s].age /\ task'[s].pc \in {"handling", "done"}
      /\ \A t \in Slots \ {s} : task'[t] = task[t]
      /\ UNCHANGED <<queue, pc, pend, completed, requeue>>
  BY TaskStepShape DEF ClaimInv
<1>2. task[s].pc # "free"
  BY <1>1 DEF Running
<1>3. queue[task[s].obj].by = task[s].proc /\ queue[task[s].obj].age <= ClaimTime
  BY <1>2, BusyHolds
<1>4. RunningHolds'
  <2>1. ASSUME NEW t \in Slots, Running(t)'
        PROVE  /\ Running(t) /\ task'[t].obj = task[t].obj
               /\ task'[t].proc = task[t].proc /\ task'[t].age = task[t].age
    BY <1>1, <2>1 DEF Running
  <2> QED
    BY <1>1, <2>1 DEF ClaimInv, RunningHolds
<1>5. DoneHolds'
  BY <1>1, <1>3 DEF ClaimInv, DoneHolds
<1>6. CompletedHolds' /\ PendingHolds' /\ PendingInDispatch' /\ CompletedNotPending'
  BY <1>1 DEF ClaimInv, CompletedHolds, PendingHolds, PendingInDispatch, CompletedNotPending
<1>7. \A t \in Slots : task'[t].pc # "free" =>
        task[t].pc # "free" /\ task'[t].obj = task[t].obj /\ task'[t].proc = task[t].proc
  BY <1>1, <1>2
<1>8. OneTask' /\ TaskNotCompleted' /\ TaskNotPending'
  BY <1>1, <1>7 DEF ClaimInv, OneTask, TaskNotCompleted, TaskNotPending
<1> QED
  BY <1>4, <1>5, <1>6, <1>8 DEF ClaimInv

\* A claim takes no row that somebody still works on.
LEMMA ClaimClaims ==
    ASSUME ClaimInv, TypeOK', NEW p \in Procs, Claim(p)
    PROVE  ClaimInv'
<1>1. PICK S \in SUBSET Claimable :
        /\ queue' = [o \in Objects |-> IF o \in S THEN Row(p) ELSE queue[o]]
        /\ pend' = [pend EXCEPT ![p] = [objs |-> S, age |-> 0]]
  BY DEF Claim
<1>2. /\ pc[p] = "claim" /\ pc' = [pc EXCEPT ![p] = "dispatch"]
      /\ task' = task /\ completed' = completed
  BY DEF Claim
<1>3. TypeOK /\ pend \in [Procs -> [objs : SUBSET Objects, age : 0..HandlingTime]]
      /\ pc \in [Procs -> {"claim", "dispatch", "collect", "finalize", "drain"}]
      /\ completed \in [Procs -> SUBSET Objects]
  BY DEF ClaimInv, TypeOK
<1>4. ASSUME NEW o \in Objects, NEW q \in Procs,
             queue[o].by = q, queue[o].age <= ClaimTime
      PROVE  o \notin S /\ queue'[o] = queue[o]
  BY <1>1, <1>3, <1>4, ClaimedIsNotClaimable
<1>5. ASSUME NEW s \in Slots, task[s].pc # "free"
      PROVE  /\ task[s].obj \notin S /\ queue'[task[s].obj] = queue[task[s].obj]
             /\ task[s].proc \in Procs
  BY <1>4, <1>5, BusyHolds
<1>6. ASSUME NEW q \in Procs, NEW o \in completed[q]
      PROVE  o \notin S /\ queue'[o] = queue[o]
  BY <1>3, <1>4 DEF ClaimInv, CompletedHolds
<1>7. ASSUME NEW q \in Procs, pend[q].age < HandlingTime, NEW o \in pend[q].objs
      PROVE  o \notin S /\ queue'[o] = queue[o]
  <2>1. o \in Objects /\ queue[o].by = q /\ queue[o].age <= pend[q].age
    BY <1>3, <1>7 DEF ClaimInv, PendingHolds
  <2>2. pend[q].age \in Nat /\ queue[o].age \in Nat
    BY <1>3, <2>1, Times DEF TypeOK
  <2>3. queue[o].age <= ClaimTime
    BY <1>7, <2>1, <2>2, Times
  <2> QED
    BY <1>4, <2>1, <2>3
<1>8. /\ pend'[p] = [objs |-> S, age |-> 0] /\ pc'[p] = "dispatch"
      /\ \A q \in Procs \ {p} : pend'[q] = pend[q] /\ pc'[q] = pc[q]
      /\ \A o \in S : o \in Objects /\ queue'[o] = [by |-> p, age |-> 0]
  BY <1>1, <1>2, <1>3 DEF Row, Claimable
<1>9. RunningHolds' /\ DoneHolds'
  BY <1>2, <1>5 DEF ClaimInv, RunningHolds, DoneHolds, Running
<1>10. CompletedHolds'
  BY <1>2, <1>6 DEF ClaimInv, CompletedHolds
<1>11. PendingHolds'
  <2> SUFFICES ASSUME NEW q \in Procs, pend'[q].age < HandlingTime, NEW o \in pend'[q].objs
               PROVE  queue'[o].by = q /\ queue'[o].age <= pend'[q].age
    BY DEF PendingHolds
  <2>1. CASE q = p
    BY <1>8, <2>1
  <2>2. CASE q # p
    <3>1. pend'[q] = pend[q]
      BY <1>8, <2>2
    <3>2. queue'[o] = queue[o]
      BY <1>7, <3>1
    <3> QED
      BY <3>1, <3>2 DEF ClaimInv, PendingHolds
  <2> QED
    BY <2>1, <2>2
<1>12. PendingInDispatch'
  BY <1>8 DEF ClaimInv, PendingInDispatch
<1>13. OneTask' /\ TaskNotCompleted'
  BY <1>2 DEF ClaimInv, OneTask, TaskNotCompleted
<1>14. TaskNotPending'
  BY <1>2, <1>5, <1>8 DEF ClaimInv, TaskNotPending
<1>15. CompletedNotPending'
  BY <1>2, <1>6, <1>8 DEF ClaimInv, CompletedNotPending
<1> QED
  BY <1>9, <1>10, <1>11, <1>12, <1>13, <1>14, <1>15 DEF ClaimInv

\* Each object of a claim gets one task, with the claim's age.
LEMMA DispatchClaims ==
    ASSUME ClaimInv, TypeOK', NEW p \in Procs, Dispatch(p)
    PROVE  ClaimInv'
<1>1. PICK f \in [pend[p].objs -> {s \in Slots : task[s].pc = "free"}] :
        /\ \A o, r \in pend[p].objs : f[o] = f[r] => o = r
        /\ task' = [s \in Slots |->
                      IF \E o \in pend[p].objs : f[o] = s
                      THEN NewTask(p, CHOOSE o \in pend[p].objs : f[o] = s, pend[p].age)
                      ELSE task[s]]
  BY DEF Dispatch
<1>2. /\ pc[p] = "dispatch" /\ pend[p].age < HandlingTime
      /\ pend' = [pend EXCEPT ![p] = NoClaim] /\ pc' = [pc EXCEPT ![p] = "collect"]
      /\ queue' = queue /\ completed' = completed
  BY DEF Dispatch
<1>3. TypeOK /\ pend \in [Procs -> [objs : SUBSET Objects, age : 0..HandlingTime]]
      /\ pc \in [Procs -> {"claim", "dispatch", "collect", "finalize", "drain"}]
  BY DEF ClaimInv, TypeOK
<1> DEFINE New(s) == \E o \in pend[p].objs : f[o] = s
<1>4. ASSUME NEW s \in Slots, New(s)
      PROVE  /\ task'[s].obj \in pend[p].objs /\ f[task'[s].obj] = s
             /\ task'[s].proc = p /\ task'[s].age = pend[p].age
             /\ task'[s].pc = "ready" /\ task[s].pc = "free"
  <2> DEFINE o == CHOOSE o \in pend[p].objs : f[o] = s
  <2>1. o \in pend[p].objs /\ f[o] = s
    BY <1>4
  <2>2. task'[s] = NewTask(p, o, pend[p].age)
    BY <1>1, <1>4
  <2> QED
    BY <1>1, <2>1, <2>2 DEF NewTask
<1>5. ASSUME NEW s \in Slots, ~New(s)
      PROVE  task'[s] = task[s]
  BY <1>1, <1>5
<1>6. /\ pend'[p].objs = {} /\ pc'[p] = "collect"
      /\ \A q \in Procs \ {p} : pend'[q] = pend[q] /\ pc'[q] = pc[q]
  BY <1>2, <1>3 DEF NoClaim
<1>7. \A o \in pend[p].objs : queue[o].by = p /\ queue[o].age <= pend[p].age
  BY <1>2 DEF ClaimInv, PendingHolds
<1> HIDE DEF New
<1>8. RunningHolds'
  <2> SUFFICES ASSUME NEW s \in Slots, Running(s)'
               PROVE  /\ queue'[task'[s].obj].by = task'[s].proc
                      /\ queue'[task'[s].obj].age <= task'[s].age
    BY DEF RunningHolds
  <2>1. CASE New(s)
    BY <1>2, <1>4, <1>7, <2>1
  <2>2. CASE ~New(s)
    BY <1>2, <1>5, <2>2 DEF ClaimInv, RunningHolds, Running
  <2> QED
    BY <2>1, <2>2
<1>9. DoneHolds'
  BY <1>2, <1>4, <1>5 DEF ClaimInv, DoneHolds
<1>10. CompletedHolds' /\ PendingHolds' /\ PendingInDispatch' /\ CompletedNotPending'
  BY <1>2, <1>6 DEF ClaimInv, CompletedHolds, PendingHolds, PendingInDispatch,
                    CompletedNotPending
<1>11. ASSUME NEW s \in Slots, ~New(s), task[s].pc # "free"
       PROVE  task[s].obj \notin pend[p].objs
  <2>1. CASE task[s].proc = p
    BY <1>2, <1>11, <2>1 DEF ClaimInv, TaskNotPending
  <2>2. CASE task[s].proc # p
    BY <1>7, <1>11, <2>2, BusyHolds
  <2> QED
    BY <2>1, <2>2
<1>12. OneTask'
  <2> SUFFICES ASSUME NEW s \in Slots, NEW t \in Slots, s # t,
                      task'[s].pc # "free", task'[t].pc # "free"
               PROVE  task'[s].obj # task'[t].obj
    BY DEF OneTask
  <2>1. CASE New(s) /\ New(t)
    BY <1>4, <2>1
  <2>2. CASE New(s) /\ ~New(t)
    BY <1>4, <1>5, <1>11, <2>2
  <2>3. CASE ~New(s) /\ New(t)
    BY <1>4, <1>5, <1>11, <2>3
  <2>4. CASE ~New(s) /\ ~New(t)
    BY <1>5, <2>4 DEF ClaimInv, OneTask
  <2> QED
    BY <2>1, <2>2, <2>3, <2>4
<1>13. TaskNotCompleted'
  <2>1. completed[p] \cap pend[p].objs = {}
    BY <1>2 DEF ClaimInv, CompletedNotPending
  <2> QED
    BY <1>2, <1>4, <1>5, <2>1 DEF ClaimInv, TaskNotCompleted
<1>14. TaskNotPending'
  <2> SUFFICES ASSUME NEW s \in Slots, task'[s].pc # "free",
                      pend'[task'[s].proc].age < HandlingTime
               PROVE  task'[s].obj \notin pend'[task'[s].proc].objs
    BY DEF TaskNotPending
  <2>1. CASE New(s)
    BY <1>4, <1>6, <2>1
  <2>2. CASE ~New(s)
    <3>1. task'[s] = task[s] /\ task[s].proc \in Procs
      BY <1>5, <2>2, BusyHolds
    <3> QED
      BY <1>6, <3>1 DEF ClaimInv, TaskNotPending
  <2> QED
    BY <2>1, <2>2
<1> QED
  BY <1>8, <1>9, <1>10, <1>12, <1>13, <1>14 DEF ClaimInv

\* Collecting a finished task moves its object to the completed ones.
LEMMA CollectClaims ==
    ASSUME ClaimInv, TypeOK', NEW p \in Procs, CollectDone(p),
           queue' = queue, pend' = pend,
           \A q \in Procs : pc'[q] = pc[q] \/ (pc[q] # "dispatch" /\ pc'[q] # "dispatch")
    PROVE  ClaimInv'
<1>1. /\ completed'[p] = completed[p] \cup {task[s].obj : s \in Done(p)}
      /\ \A q \in Procs \ {p} : completed'[q] = completed[q]
      /\ \A s \in Slots : task'[s] = IF s \in Done(p) THEN NoTask ELSE task[s]
  BY DEF ClaimInv, TypeOK, CollectDone
<1>2. ASSUME NEW s \in Done(p)
      PROVE  s \in Slots /\ task[s].pc = "done" /\ task[s].proc = p /\ task'[s].pc = "free"
  BY <1>1 DEF Done, Tasks, NoTask
<1>3. ASSUME NEW s \in Slots, task'[s].pc # "free"
      PROVE  task'[s] = task[s] /\ task[s].pc # "free" /\ s \notin Done(p)
             /\ task[s].proc \in Procs
  <2>1. task'[s] = task[s] /\ task[s].pc # "free" /\ s \notin Done(p)
    BY <1>1, <1>3 DEF NoTask
  <2> QED
    BY <2>1, BusyHolds
<1>4. RunningHolds' /\ DoneHolds'
  BY <1>3 DEF ClaimInv, RunningHolds, DoneHolds, Running
<1>5. CompletedHolds'
  <2> SUFFICES ASSUME NEW q \in Procs, NEW o \in completed'[q]
               PROVE  queue[o].by = q /\ queue[o].age <= ClaimTime
    BY DEF CompletedHolds
  <2>1. CASE o \in completed[q]
    BY <2>1 DEF ClaimInv, CompletedHolds
  <2>2. CASE o \notin completed[q]
    <3>1. q = p /\ \E s \in Done(p) : o = task[s].obj
      BY <1>1, <2>2
    <3> QED
      BY <1>2, <3>1 DEF ClaimInv, DoneHolds
  <2> QED
    BY <2>1, <2>2
<1>6. PendingHolds' /\ PendingInDispatch'
  BY DEF ClaimInv, PendingHolds, PendingInDispatch
<1>7. OneTask'
  BY <1>3 DEF ClaimInv, OneTask
<1>8. TaskNotCompleted'
  <2> SUFFICES ASSUME NEW s \in Slots, task'[s].pc # "free"
               PROVE  task[s].obj \notin completed'[task[s].proc]
    BY <1>3 DEF TaskNotCompleted
  <2>1. task[s].obj \notin completed[task[s].proc]
    BY <1>3 DEF ClaimInv, TaskNotCompleted
  <2>2. \A t \in Done(p) : task[t].obj # task[s].obj
    BY <1>2, <1>3 DEF ClaimInv, OneTask
  <2> QED
    BY <1>1, <1>3, <2>1, <2>2
<1>9. TaskNotPending'
  BY <1>3 DEF ClaimInv, TaskNotPending
<1>10. CompletedNotPending'
  <2> SUFFICES ASSUME NEW q \in Procs, pend[q].age < HandlingTime, NEW o \in completed'[q]
               PROVE  o \notin pend[q].objs
    BY DEF CompletedNotPending
  <2>1. CASE o \in completed[q]
    BY <2>1 DEF ClaimInv, CompletedNotPending
  <2>2. CASE o \notin completed[q]
    <3>1. q = p /\ \E s \in Done(p) : o = task[s].obj
      BY <1>1, <2>2
    <3> QED
      BY <1>2, <3>1 DEF ClaimInv, TaskNotPending
  <2> QED
    BY <2>1, <2>2
<1> QED
  BY <1>4, <1>5, <1>6, <1>7, <1>8, <1>9, <1>10 DEF ClaimInv

\* A finalization deletes no row of another processor and none of a task.
LEMMA FinalizedKeeps ==
    ASSUME TypeOK, NEW p \in Procs, NEW o \in Objects, NEW q \in Procs,
           queue[o].by = q, q # p \/ o \notin completed[p]
    PROVE  Finalized(p)[o] = queue[o]
<1>1. DeleteQueuedObjects(queue, completed[p], p)[o] = queue[o]
  BY DEF DeleteQueuedObjects
<1> QED
  BY <1>1, QueueObjectsKeeps, Times DEF Finalized

\* The end of a processor leaves the rows of the others alone.
LEMMA OrphanedKeeps ==
    ASSUME NEW q \in [Objects -> RowType], NEW p \in Procs, NEW o \in Objects, q[o].by # p
    PROVE  Orphaned(q, p)[o] = q[o]
BY DEF Orphaned, RowType

\* A processor that ends, with its last finalization or without, takes its work
\* with it.
LEMMA EndClaims ==
    ASSUME ClaimInv, TypeOK', NEW p \in Procs, NEW q \in [Objects -> RowType],
           queue' = Orphaned(q, p), Reborn(p),
           \A o \in Objects, r \in Procs \ {p} : queue[o].by = r => q[o] = queue[o],
           \A s \in Slots : task'[s].pc # "free" => task'[s] = task[s] /\ s \notin Tasks(p)
    PROVE  ClaimInv'
<1>1. /\ completed'[p] = {} /\ pend'[p].objs = {} /\ pc'[p] = "claim"
      /\ \A r \in Procs \ {p} :
            completed'[r] = completed[r] /\ pend'[r] = pend[r] /\ pc'[r] = pc[r]
  BY DEF ClaimInv, TypeOK, Reborn, NoClaim
<1>2. ASSUME NEW o \in Objects, NEW r \in Procs \ {p}, queue[o].by = r
      PROVE  queue'[o] = queue[o]
  BY <1>2, OrphanedKeeps
<1>3. ASSUME NEW s \in Slots, task'[s].pc # "free"
      PROVE  task'[s] = task[s] /\ queue'[task[s].obj] = queue[task[s].obj]
  <2>1. task'[s] = task[s] /\ task[s].pc # "free" /\ task[s].proc # p
    BY <1>3 DEF Tasks
  <2> QED
    BY <1>2, <2>1, BusyHolds
<1>4. ASSUME NEW r \in Procs, NEW o \in completed'[r]
      PROVE  o \in completed[r] /\ queue'[o] = queue[o]
  <2>1. r # p /\ o \in completed[r] /\ o \in Objects
    BY <1>1, <1>4 DEF ClaimInv, TypeOK
  <2> QED
    BY <1>2, <2>1 DEF ClaimInv, CompletedHolds
<1>5. ASSUME NEW r \in Procs, r # p, pend[r].age < HandlingTime, NEW o \in pend[r].objs
      PROVE  queue'[o] = queue[o]
  <2>1. o \in Objects /\ queue[o].by = r
    BY <1>5 DEF ClaimInv, TypeOK, PendingHolds
  <2> QED
    BY <1>2, <1>5, <2>1
<1>6. \A r \in Procs : pc'[r] # "dispatch" => pend'[r].objs = {}
  BY <1>1 DEF ClaimInv, PendingInDispatch
<1>7. NoNewWork
  BY <1>1, <1>3, <1>4, <1>5, <1>6 DEF NoNewWork
<1> QED
  BY <1>7, NoNewWorkKeeps

\* A finalization drops the completed objects and their rows.
LEMMA FinalizeClaims ==
    ASSUME ClaimInv, TypeOK', NEW p \in Procs, Finalize(p)
    PROVE  ClaimInv'
<1>1. /\ queue' = queue \/ queue' = Finalized(p)
      /\ completed' = [completed EXCEPT ![p] = {}]
      /\ pc[p] = "finalize" /\ pc' = [pc EXCEPT ![p] = "claim"]
      /\ task' = task /\ pend' = pend
  BY DEF Finalize
<1>2. TypeOK /\ completed \in [Procs -> SUBSET Objects]
      /\ pc \in [Procs -> {"claim", "dispatch", "collect", "finalize", "drain"}]
      /\ pend \in [Procs -> [objs : SUBSET Objects, age : 0..HandlingTime]]
  BY DEF ClaimInv, TypeOK
<1>3. ASSUME NEW o \in Objects, NEW q \in Procs, queue[o].by = q,
             q # p \/ o \notin completed[p]
      PROVE  queue'[o] = queue[o]
  BY <1>1, <1>2, <1>3, FinalizedKeeps
<1>4. ASSUME NEW s \in Slots, task[s].pc # "free"
      PROVE  /\ task[s].proc \in Procs
             /\ queue'[task[s].obj] = queue[task[s].obj]
  <2>1. task[s].obj \notin completed[task[s].proc]
    BY <1>4 DEF ClaimInv, TaskNotCompleted
  <2> QED
    BY <1>3, <1>4, <2>1, BusyHolds
<1>5. ASSUME NEW r \in Procs, NEW o \in completed'[r]
      PROVE  r # p /\ o \in completed[r] /\ queue'[o] = queue[o]
  <2>1. r # p /\ o \in completed[r] /\ o \in Objects
    BY <1>1, <1>2
  <2> QED
    BY <1>3, <2>1 DEF ClaimInv, CompletedHolds
<1>6. ASSUME NEW r \in Procs, pend[r].age < HandlingTime, NEW o \in pend[r].objs
      PROVE  queue'[o] = queue[o]
  <2>1. r # p
    BY <1>1, <1>6 DEF ClaimInv, PendingInDispatch
  <2>2. o \in Objects /\ queue[o].by = r
    BY <1>2, <1>6 DEF ClaimInv, PendingHolds
  <2> QED
    BY <1>3, <2>1, <2>2
<1>7. \A r \in Procs : pc'[r] # "dispatch" => pend'[r].objs = {}
  BY <1>1, <1>2 DEF ClaimInv, PendingInDispatch
<1>8. NoNewWork
  BY <1>1, <1>4, <1>5, <1>6, <1>7 DEF NoNewWork
<1> QED
  BY <1>8, NoNewWorkKeeps

\* Steps that change no claimed row and take up no work.
LEMMA QuietClaims ==
    ASSUME ClaimInv, TypeOK', task' = task, completed' = completed,
           \A o \in Objects : queue[o].by # Absent => queue'[o] = queue[o],
           \A p \in Procs : \/ pend'[p] = pend[p] /\ pc'[p] = pc[p]
                            \/ pend'[p].objs = {}
    PROVE  ClaimInv'
<1>1. ASSUME NEW o \in Objects, NEW p \in Procs, queue[o].by = p
      PROVE  queue'[o] = queue[o]
  BY <1>1, Times
<1>2. \A s \in Slots : task[s].pc # "free" => queue'[task[s].obj] = queue[task[s].obj]
  BY <1>1, BusyHolds
<1>3. \A p \in Procs : \A o \in completed[p] : queue'[o] = queue[o]
  BY <1>1 DEF ClaimInv, TypeOK, CompletedHolds
<1>4. \A p \in Procs : pend[p].age < HandlingTime =>
        \A o \in pend[p].objs : queue'[o] = queue[o]
  BY <1>1 DEF ClaimInv, TypeOK, PendingHolds
<1>5. \A p \in Procs : pc'[p] # "dispatch" => pend'[p].objs = {}
  BY DEF ClaimInv, PendingInDispatch
<1>6. NoNewWork
  BY <1>2, <1>3, <1>4, <1>5 DEF NoNewWork
<1> QED
  BY <1>6, NoNewWorkKeeps

\* While deadlines are kept, a row grows no older than the work on it.
LEMMA TickClaims ==
    ASSUME Punctual, ClaimInv, TypeOK', Tick
    PROVE  ClaimInv'
<1>1. /\ \A s \in Slots : Running(s) => task[s].age < HandlingTime
      /\ \A s \in Slots : task[s].pc = "done" => queue[task[s].obj].age < ClaimTime
      /\ \A p \in Procs, o \in Objects : o \in completed[p] => queue[o].age < ClaimTime
  BY DEF Punctual, Tick, OnTime
<1>2. /\ queue \in [Objects -> RowType]
      /\ pend \in [Procs -> [objs : SUBSET Objects, age : 0..HandlingTime]]
      /\ completed \in [Procs -> SUBSET Objects]
  BY DEF ClaimInv, TypeOK, RowType
<1>3. ASSUME NEW o \in Objects
      PROVE  /\ queue'[o].by = queue[o].by
             /\ queue[o].age \in Nat /\ queue'[o].age <= queue[o].age + 1
  <2>1. queue[o] \in RowType /\ ClaimTime \in Nat
    BY <1>2, Times
  <2>2. /\ queue'[o].by = queue[o].by
        /\ queue'[o].age = queue[o].age \/ queue'[o].age = Older(queue[o].age, ClaimTime + 1)
    BY <2>1 DEF Tick, RowType
  <2>3. queue[o].age \in Nat
    BY <2>1 DEF RowType
  <2> QED
    BY <2>1, <2>2, <2>3 DEF Older
<1>4. ASSUME NEW s \in Slots
      PROVE  /\ task'[s].pc = task[s].pc /\ task'[s].obj = task[s].obj
             /\ task'[s].proc = task[s].proc
             /\ Running(s) => task'[s].age = task[s].age + 1
  <2>1. CASE Running(s)
    <3>1. task[s] \in TaskType
      BY <2>1, BusyTask DEF Running, ClaimInv
    <3>2. task'[s] = [task[s] EXCEPT !.age = Older(task[s].age, HandlingTime)]
      BY <2>1 DEF Tick
    <3> QED
      BY <1>1, <2>1, <3>1, <3>2 DEF TaskType, Older
  <2>2. CASE ~Running(s)
    BY <2>2 DEF Tick
  <2> QED
    BY <2>1, <2>2
<1>5. ASSUME NEW p \in Procs
      PROVE  /\ pend'[p].objs = pend[p].objs /\ pc'[p] = pc[p]
             /\ completed'[p] = completed[p]
             /\ pend[p].age \in Nat /\ pend[p].age <= pend'[p].age
             /\ pc[p] = "dispatch" /\ pend[p].age < HandlingTime =>
                  pend'[p].age = pend[p].age + 1
  <2>1. pend[p] \in [objs : SUBSET Objects, age : 0..HandlingTime] /\ HandlingTime \in Nat
    BY <1>2, Times
  <2>2. pend'[p] = IF pc[p] = "dispatch"
                   THEN [pend[p] EXCEPT !.age = Older(pend[p].age, HandlingTime)]
                   ELSE pend[p]
    BY DEF Tick
  <2>3. /\ pend'[p].objs = pend[p].objs
        /\ pend'[p].age = IF pc[p] = "dispatch" THEN Older(pend[p].age, HandlingTime)
                          ELSE pend[p].age
    BY <2>1, <2>2
  <2>4. pend[p].age \in 0..HandlingTime
    BY <2>1
  <2>5. pc'[p] = pc[p] /\ completed'[p] = completed[p]
    BY DEF Tick
  <2> QED
    BY <2>1, <2>3, <2>4, <2>5 DEF Older
<1>6. RunningHolds'
  <2> SUFFICES ASSUME NEW s \in Slots, Running(s)
               PROVE  /\ queue'[task[s].obj].by = task[s].proc
                      /\ queue'[task[s].obj].age <= task'[s].age
    BY <1>4 DEF RunningHolds, Running
  <2>1. task[s].obj \in Objects /\ task[s].age \in Nat
    BY BusyTask, Times DEF ClaimInv, Running, TaskType
  <2>2. queue[task[s].obj].by = task[s].proc /\ queue[task[s].obj].age <= task[s].age
    BY DEF ClaimInv, RunningHolds
  <2>3. /\ queue'[task[s].obj].by = queue[task[s].obj].by
        /\ queue[task[s].obj].age \in Nat
        /\ queue'[task[s].obj].age <= queue[task[s].obj].age + 1
    BY <1>3, <2>1
  <2>4. queue'[task[s].obj].age \in Nat
    BY <2>1, Times DEF TypeOK
  <2> QED
    BY <1>4, <2>1, <2>2, <2>3, <2>4
<1>7. DoneHolds' /\ CompletedHolds'
  <2>1. ASSUME NEW o \in Objects, queue[o].age < ClaimTime
        PROVE  queue'[o].age <= ClaimTime
    <3>1. queue'[o].age \in Nat
      BY Times DEF TypeOK
    <3> QED
      BY <1>3, <2>1, <3>1, Times
  <2>2. DoneHolds'
    <3> SUFFICES ASSUME NEW s \in Slots, task[s].pc = "done"
                 PROVE  /\ queue'[task[s].obj].by = task[s].proc
                        /\ queue'[task[s].obj].age <= ClaimTime
      BY <1>4 DEF DoneHolds
    <3>1. task[s].obj \in Objects /\ queue[task[s].obj].by = task[s].proc
      BY BusyHolds
    <3> QED
      BY <1>1, <1>3, <2>1, <3>1
  <2>3. CompletedHolds'
    BY <1>1, <1>2, <1>3, <1>5, <2>1 DEF ClaimInv, CompletedHolds
  <2> QED
    BY <2>2, <2>3
<1>8. ASSUME NEW p \in Procs, pend'[p].age < HandlingTime
      PROVE  pend[p].age < HandlingTime
  <2>1. pend'[p].age \in Nat
    BY Times DEF TypeOK
  <2> QED
    BY <1>5, <1>8, <2>1, Times
<1>9. PendingHolds'
  <2> SUFFICES ASSUME NEW p \in Procs, pend'[p].age < HandlingTime, NEW o \in pend[p].objs
               PROVE  queue'[o].by = p /\ queue'[o].age <= pend'[p].age
    BY <1>5 DEF PendingHolds
  <2>1. /\ o \in Objects /\ pend[p].age < HandlingTime
        /\ queue[o].by = p /\ queue[o].age <= pend[p].age
    BY <1>2, <1>8 DEF ClaimInv, PendingHolds
  <2>2. pc[p] = "dispatch"
    BY DEF ClaimInv, PendingInDispatch
  <2>3. queue'[o].age \in Nat
    BY <2>1, Times DEF TypeOK
  <2> QED
    BY <1>3, <1>5, <2>1, <2>2, <2>3
<1>10. PendingInDispatch' /\ CompletedNotPending'
  BY <1>5, <1>8 DEF ClaimInv, PendingInDispatch, CompletedNotPending
<1>11. OneTask'
  BY <1>4 DEF ClaimInv, OneTask
<1>12. \A s \in Slots : task[s].pc # "free" => task[s].proc \in Procs
  BY BusyHolds
<1>13. TaskNotCompleted' /\ TaskNotPending'
  BY <1>4, <1>5, <1>8, <1>12 DEF ClaimInv, TaskNotCompleted, TaskNotPending
<1> QED
  BY <1>6, <1>7, <1>9, <1>10, <1>11, <1>13 DEF ClaimInv

\* Every step keeps the invariant.
LEMMA ClaimStep ==
    ASSUME Punctual, ClaimInv, [Next]_vars
    PROVE  ClaimInv'
<1>1. TypeOK /\ TypeOK'
  BY TypeStep DEF ClaimInv
<1>2. queue \in [Objects -> RowType]
  BY <1>1 DEF TypeOK, RowType
<1>3. CASE UNCHANGED vars
  BY <1>1, <1>3, QuietClaims DEF vars
<1>4. CASE \/ ListObjects
           \/ \E o \in Objects : Request(o) \/ DirectRead(o) \/ DirectWrite(o) \/ ForceDelete(o)
  <2>1. UNCHANGED <<queue, task, pc, pend, completed>>
    BY <1>4 DEF ListObjects, Request, DirectRead, DirectWrite, ForceDelete, procVars
  <2> QED
    BY <1>1, <2>1, QuietClaims
<1>5. CASE QueueListed \/ \E o \in Objects : EnqueueObject(o)
  <2>1. PICK S : queue' = QueueObjects(queue, S)
    BY <1>5 DEF QueueListed, EnqueueObject
  <2>2. UNCHANGED <<task, pc, pend, completed>>
    BY <1>5 DEF QueueListed, EnqueueObject, procVars
  <2> QED
    BY <1>1, <2>1, <2>2, QueueObjectsKeeps, QuietClaims
<1>6. ASSUME NEW p \in Procs, ProcStep(p)
      PROVE  ClaimInv'
  <2>1. CASE Claim(p)
    BY <1>1, <2>1, ClaimClaims
  <2>2. CASE Dispatch(p)
    BY <1>1, <2>2, DispatchClaims
  <2>3. CASE Finalize(p)
    BY <1>1, <2>3, FinalizeClaims
  <2>4. CASE Collect(p) \/ DrainCollect(p)
    <3>1. CollectDone(p) /\ queue' = queue /\ pend' = pend
      BY <2>4 DEF Collect, DrainCollect
    <3>2. \A q \in Procs : pc'[q] = pc[q] \/ (pc[q] # "dispatch" /\ pc'[q] # "dispatch")
      BY <1>1, <2>4 DEF Collect, DrainCollect, TypeOK
    <3> QED
      BY <1>1, <3>1, <3>2, CollectClaims
  <2>5. CASE ClaimNothing(p) \/ ClaimTimeout(p) \/ FinalizeFailed(p) \/ Stop(p)
    <3>1. UNCHANGED <<queue, task, completed>>
      BY <2>5 DEF ClaimNothing, ClaimTimeout, FinalizeFailed, Stop
    <3>2. \A q \in Procs \ {p} : pend'[q] = pend[q] /\ pc'[q] = pc[q]
      BY <1>1, <2>5 DEF ClaimNothing, ClaimTimeout, FinalizeFailed, Stop, TypeOK
    <3>3. pend'[p].objs = {}
      BY <1>1, <2>5 DEF ClaimNothing, ClaimTimeout, FinalizeFailed, Stop, TypeOK, NoClaim,
                        ClaimInv, PendingInDispatch
    <3> QED
      BY <1>1, <3>1, <3>2, <3>3, QuietClaims
  <2>6. ~FinalizeAnswerLost(p)
    BY DEF FinalizeAnswerLost, Fault, Punctual
  <2>7. CASE Crash(p)
    <3>1. \A s \in Slots : task'[s].pc # "free" => task'[s] = task[s] /\ s \notin Tasks(p)
      BY <2>7 DEF Crash, NoTask
    <3> QED
      BY <1>1, <1>2, <2>7, <3>1, EndClaims DEF Crash
  <2>8. CASE DrainFinish(p)
    <3>1. /\ task' = task /\ Tasks(p) = {} /\ Reborn(p)
          /\ queue' = Orphaned(Finalized(p), p) \/ queue' = Orphaned(queue, p)
      BY <2>8 DEF DrainFinish
    <3>2. Finalized(p) \in [Objects -> RowType]
      BY <1>2, QueueOpsType DEF Finalized
    <3>3. \A o \in Objects, r \in Procs \ {p} :
            queue[o].by = r => Finalized(p)[o] = queue[o]
      BY <1>1, FinalizedKeeps
    <3> QED
      BY <1>1, <1>2, <3>1, <3>2, <3>3, EndClaims
  <2> QED
    BY <1>6, <2>1, <2>2, <2>3, <2>4, <2>5, <2>6, <2>7, <2>8 DEF ProcStep
<1>7. ASSUME NEW s \in Slots, TaskStep(s)
      PROVE  ClaimInv'
  BY <1>1, <1>7, TaskStepClaims
<1>8. CASE Tick
  BY <1>1, <1>8, TickClaims
<1> QED
  BY <1>3, <1>4, <1>5, <1>6, <1>7, <1>8 DEF Next

\* As long as deadlines are kept and no finalization is mistaken for a failed one,
\* the claims of acquire_queued_objects are exclusive: whatever the number of
\* processors, crashes, failed claims and shutdowns, no two tasks handle an object
\* at once.
THEOREM OneHandler ==
    ASSUME Punctual
    PROVE  Spec => []SingleHandler
<1>1. ClaimInv /\ [Next]_vars => ClaimInv'
  BY ClaimStep
<1>2. ClaimInv => SingleHandler
  BY DEF ClaimInv, OneTask, SingleHandler, Running
<1> QED
  BY ClaimInit, <1>1, <1>2, PTL DEF Spec

\* Under the same conditions the assertion of finalize_completed_objects holds:
\* every object it completes still has a row claimed by its processor.
THEOREM FinalizeAssertion ==
    ASSUME Punctual
    PROVE  Spec => FinalizeDeletesAll
<1>1. ClaimInv /\ [Next]_vars => ClaimInv'
  BY ClaimStep
<1>2. ClaimInv => \A p \in Procs : Finalize(p) => \A o \in completed[p] : queue[o].by = p
  BY DEF ClaimInv, CompletedHolds
<1> QED
  BY ClaimInit, <1>1, <1>2, PTL DEF Spec, FinalizeDeletesAll

-----------------------------------------------------------------------------
(* The follow-up of a step.                                                *)

\* A task that handles an object has seen whatever was owed to it.
HandlingOwesNothing ==
    \A s \in Slots : task[s].pc = "handling" => task[s].obj \notin owed

\* What a finished task's object is owed, the task asks for ...
DoneAsksAgain ==
    \A s \in Slots : task[s].pc = "done" /\ task[s].obj \in owed \cap live => task[s].again

\* ... and so does the processor that has collected it.
CompletedAsksAgain ==
    \A p \in Procs : completed[p] \cap owed \cap live \subseteq requeue[p]

FollowInv ==
    ClaimInv /\ HandlingOwesNothing /\ DoneAsksAgain /\ CompletedAsksAgain
    /\ FollowUpIsQueued

LEMMA FollowInit == Init => FollowInv
BY ClaimInit
   DEF Init, FollowInv, HandlingOwesNothing, DoneAsksAgain, CompletedAsksAgain,
       FollowUpIsQueued, NoTask

\* A task's end leaves behind what its object is owed.
LEMMA TaskStepFollows ==
    ASSUME FollowInv, ClaimInv', NEW s \in Slots, TaskStep(s)
    PROVE  FollowInv'
<1>0. ClaimInv /\ TypeOK /\ TypeOK'
  BY DEF FollowInv, ClaimInv
<1>1. /\ Running(s)
      /\ task'[s].obj = task[s].obj /\ task'[s].proc = task[s].proc
      /\ task'[s].age = task[s].age /\ task'[s].pc \in {"handling", "done"}
      /\ \A t \in Slots \ {s} : task'[t] = task[t]
      /\ UNCHANGED <<queue, pc, pend, completed, requeue>>
  BY <1>0, TaskStepShape
<1> DEFINE o == task[s].obj
<1>2. /\ task[s].pc # "free" /\ task[s] \in TaskType
      /\ o \in Objects /\ task[s].proc \in Procs /\ queue[o].by = task[s].proc
  BY <1>0, <1>1, BusyHolds DEF Running
<1>3. live' \subseteq live /\ (owed' \ {o}) \subseteq owed
  BY DEF TaskStep, Load, LoadMissing, TaskFails, Transition, TransitionAnswerLost,
         TransitionRejected, Invalidated, Settle, Deleted, PersistState, WriteState, objVars
<1>4. \/ task'[s].pc = "handling" /\ o \notin owed'
      \/ task'[s].pc = "done" /\ (o \in owed' \cap live' => task'[s].again)
  <2>1. ASSUME NEW again \in BOOLEAN, Ends(s, again)
        PROVE  task'[s].pc = "done" /\ task'[s].again = again
    BY <1>0, <1>2, <2>1 DEF Ends, TypeOK, TaskType
  <2>2. CASE Load(s)
    BY <1>0, <1>2, <2>2 DEF Load, TypeOK, TaskType
  <2>3. CASE Transition(s) \/ TransitionRejected(s) \/ Invalidated(s)
    BY <2>1, <2>3 DEF Transition, TransitionRejected, Invalidated
  <2>4. CASE LoadMissing(s)
    BY <2>1, <2>4 DEF LoadMissing, objVars
  <2>5. CASE TransitionAnswerLost(s) \/ Settle(s) \/ Deleted(s)
    BY <2>1, <2>5 DEF TransitionAnswerLost, Settle, Deleted, FollowInv, HandlingOwesNothing
  <2>6. CASE TaskFails(s)
    BY <2>1, <2>6 DEF TaskFails, FollowInv, HandlingOwesNothing
  <2> QED
    BY <2>2, <2>3, <2>4, <2>5, <2>6 DEF TaskStep
<1>5. \A t \in Slots \ {s} : task[t].pc # "free" => task[t].obj # o
  BY <1>2 DEF FollowInv, ClaimInv, OneTask
<1>6. HandlingOwesNothing'
  BY <1>1, <1>3, <1>4, <1>5 DEF FollowInv, HandlingOwesNothing
<1>7. DoneAsksAgain'
  BY <1>1, <1>3, <1>4, <1>5 DEF FollowInv, DoneAsksAgain
<1>8. \A p \in Procs : o \notin completed[p]
  <2>1. o \notin completed[task[s].proc]
    BY <1>2 DEF FollowInv, ClaimInv, TaskNotCompleted
  <2> QED
    BY <1>2, <2>1 DEF FollowInv, ClaimInv, CompletedHolds
<1>9. CompletedAsksAgain'
  BY <1>1, <1>3, <1>8 DEF FollowInv, CompletedAsksAgain
<1>10. FollowUpIsQueued'
  BY <1>1, <1>2, <1>3, Times DEF FollowInv, FollowUpIsQueued
<1> QED
  BY <1>6, <1>7, <1>9, <1>10 DEF FollowInv

\* A finalization queues again what it deletes and somebody is owed.
LEMMA FinalizedFollows ==
    ASSUME FollowInv, NEW p \in Procs, NEW o \in owed \cap live
    PROVE  Finalized(p)[o].by # Absent
<1> DEFINE d == DeleteQueuedObjects(queue, completed[p], p)
<1>1. o \in Objects /\ queue[o].by # Absent
  BY DEF FollowInv, ClaimInv, TypeOK, FollowUpIsQueued
<1>2. CASE d[o].by # Absent
  <2>1. Finalized(p)[o] = d[o]
    BY <1>1, <1>2, QueueObjectsKeeps DEF Finalized
  <2> QED
    BY <1>2, <2>1
<1>3. CASE d[o].by = Absent
  <2>1. o \in completed[p]
    BY <1>1, <1>3 DEF DeleteQueuedObjects
  <2>2. o \in requeue[p]
    BY <2>1 DEF FollowInv, CompletedAsksAgain
  <2>3. Finalized(p)[o] = Row(Nobody)
    BY <1>1, <1>3, <2>2 DEF Finalized, QueueObjects
  <2> QED
    BY <2>3, ConstantsAssumption DEF Row
<1> QED
  BY <1>2, <1>3

\* The end of a processor removes no row.
LEMMA OrphanedFollows ==
    ASSUME NEW q \in [Objects -> RowType], NEW p \in Procs, NEW o \in Objects,
           q[o].by # Absent
    PROVE  Orphaned(q, p)[o].by # Absent
BY ConstantsAssumption DEF Orphaned, RowType

\* A step that takes up no work and keeps the rows of what is owed.
LEMMA QuietFollows ==
    ASSUME FollowInv, ClaimInv', live' \subseteq live, owed' = owed,
           \A s \in Slots : task'[s].pc \in {"handling", "done"} =>
               /\ task'[s].pc = task[s].pc /\ task'[s].obj = task[s].obj
               /\ task'[s].again = task[s].again,
           \A p \in Procs : \/ completed'[p] = completed[p] /\ requeue'[p] = requeue[p]
                            \/ completed'[p] = {},
           \A o \in owed \cap live : queue'[o].by # Absent
    PROVE  FollowInv'
<1>1. HandlingOwesNothing' /\ DoneAsksAgain'
  BY DEF FollowInv, HandlingOwesNothing, DoneAsksAgain
<1>2. CompletedAsksAgain' /\ FollowUpIsQueued'
  BY DEF FollowInv, CompletedAsksAgain, FollowUpIsQueued
<1> QED
  BY <1>1, <1>2 DEF FollowInv

\* Collecting a task keeps what it asks for.
LEMMA CollectFollows ==
    ASSUME FollowInv, ClaimInv', NEW p \in Procs, CollectDone(p),
           UNCHANGED <<queue, live, owed>>
    PROVE  FollowInv'
<1>1. /\ completed'[p] = completed[p] \cup {task[s].obj : s \in Done(p)}
      /\ requeue'[p] = requeue[p] \cup {task[s].obj : s \in {d \in Done(p) : task[d].again}}
      /\ \A q \in Procs \ {p} : completed'[q] = completed[q] /\ requeue'[q] = requeue[q]
      /\ \A s \in Slots : task'[s] = IF s \in Done(p) THEN NoTask ELSE task[s]
  BY DEF FollowInv, ClaimInv, TypeOK, CollectDone
<1>2. \A s \in Slots : task'[s].pc # "free" => task'[s] = task[s]
  BY <1>1 DEF NoTask
<1>3. HandlingOwesNothing' /\ DoneAsksAgain'
  BY <1>2 DEF FollowInv, HandlingOwesNothing, DoneAsksAgain
<1>4. ASSUME NEW s \in Done(p), task[s].obj \in owed \cap live
      PROVE  task[s].obj \in requeue'[p]
  <2>1. s \in Slots /\ task[s].pc = "done"
    BY DEF Done, Tasks
  <2>2. task[s].again
    BY <1>4, <2>1 DEF FollowInv, DoneAsksAgain
  <2> QED
    BY <1>1, <2>2
<1>5. CompletedAsksAgain'
  BY <1>1, <1>4 DEF FollowInv, CompletedAsksAgain
<1>6. FollowUpIsQueued'
  BY DEF FollowInv, FollowUpIsQueued
<1> QED
  BY <1>3, <1>5, <1>6 DEF FollowInv

LEMMA FollowStep ==
    ASSUME Punctual, FollowInv, [Next]_vars
    PROVE  FollowInv'
<1>1. ClaimInv /\ ClaimInv' /\ TypeOK /\ TypeOK'
  BY ClaimStep DEF FollowInv, ClaimInv
<1>2. queue \in [Objects -> RowType] /\ owed \subseteq Objects
  BY <1>1 DEF TypeOK, RowType
<1>3. \A o \in owed \cap live : o \in Objects /\ queue[o].by # Absent
  BY <1>2 DEF FollowInv, FollowUpIsQueued
<1>4. CASE \/ UNCHANGED vars \/ ListObjects \/ QueueListed
           \/ \E o \in Objects : \/ EnqueueObject(o) \/ Request(o)
                                 \/ DirectRead(o) \/ DirectWrite(o) \/ ForceDelete(o)
  <2>1. live' \subseteq live /\ UNCHANGED <<owed, task, completed, requeue>>
    BY <1>4 DEF vars, ListObjects, QueueListed, EnqueueObject, Request, DirectRead,
                DirectWrite, ForceDelete, WriteState, objVars, procVars
  <2>2. queue' = queue \/ \E S : queue' = QueueObjects(queue, S)
    BY <1>4 DEF vars, ListObjects, QueueListed, EnqueueObject, Request, DirectRead,
                DirectWrite, ForceDelete
  <2>3. \A o \in owed \cap live : queue'[o].by # Absent
    BY <1>3, <2>2, QueueObjectsKeeps
  <2> QED
    BY <1>1, <2>1, <2>3, QuietFollows
<1>5. ASSUME NEW p \in Procs, ProcStep(p)
      PROVE  FollowInv'
  <2>1. live' = live /\ owed' = owed
    BY <1>5
       DEF ProcStep, Claim, ClaimNothing, Dispatch, ClaimTimeout, Collect, Finalize,
           FinalizeFailed, FinalizeAnswerLost, Stop, DrainCollect, DrainFinish, Crash, objVars
  <2>2. CASE Claim(p)
    <3>1. UNCHANGED <<task, completed, requeue>>
      BY <2>2 DEF Claim
    <3>2. \A o \in Objects : queue'[o] = Row(p) \/ queue'[o] = queue[o]
      BY <2>2 DEF Claim
    <3>3. \A o \in owed \cap live : queue'[o].by # Absent
      BY <1>3, <3>2, Times DEF Row
    <3> QED
      BY <1>1, <2>1, <3>1, <3>3, QuietFollows
  <2>3. CASE Dispatch(p)
    <3>1. UNCHANGED <<queue, completed, requeue>>
      BY <2>3 DEF Dispatch
    <3>2. \A s \in Slots : task'[s].pc = "ready" \/ task'[s] = task[s]
      BY <2>3 DEF Dispatch, NewTask
    <3> QED
      BY <1>1, <1>3, <2>1, <3>1, <3>2, QuietFollows
  <2>4. CASE ClaimNothing(p) \/ ClaimTimeout(p) \/ FinalizeFailed(p) \/ Stop(p)
    <3>1. UNCHANGED <<queue, task, completed, requeue>>
      BY <2>4 DEF ClaimNothing, ClaimTimeout, FinalizeFailed, Stop
    <3> QED
      BY <1>1, <1>3, <2>1, <3>1, QuietFollows
  <2>5. CASE Collect(p) \/ DrainCollect(p)
    <3>1. CollectDone(p) /\ queue' = queue
      BY <2>5 DEF Collect, DrainCollect
    <3> QED
      BY <1>1, <2>1, <3>1, CollectFollows
  <2>6. CASE Finalize(p)
    <3>1. \A q \in Procs : \/ completed'[q] = completed[q] /\ requeue'[q] = requeue[q]
                           \/ completed'[q] = {}
      BY <1>1, <2>6 DEF Finalize, TypeOK
    <3>2. \A o \in owed \cap live : queue'[o].by # Absent
      BY <1>3, <2>6, FinalizedFollows DEF Finalize
    <3> QED
      BY <1>1, <2>1, <2>6, <3>1, <3>2, QuietFollows DEF Finalize
  <2>7. ~FinalizeAnswerLost(p)
    BY DEF FinalizeAnswerLost, Fault, Punctual
  <2>8. CASE DrainFinish(p) \/ Crash(p)
    <3>1. Reborn(p) /\ \A s \in Slots : task'[s].pc # "free" => task'[s] = task[s]
      BY <2>8 DEF DrainFinish, Crash, NoTask
    <3>2. \A q \in Procs : \/ completed'[q] = completed[q] /\ requeue'[q] = requeue[q]
                           \/ completed'[q] = {}
      BY <1>1, <3>1 DEF Reborn, TypeOK
    <3>3. queue' = Orphaned(queue, p) \/ queue' = Orphaned(Finalized(p), p)
      BY <2>8 DEF DrainFinish, Crash
    <3>4. Finalized(p) \in [Objects -> RowType]
      BY <1>2, QueueOpsType DEF Finalized
    <3>5. \A o \in owed \cap live : queue'[o].by # Absent
      BY <1>2, <1>3, <3>3, <3>4, FinalizedFollows, OrphanedFollows
    <3> QED
      BY <1>1, <2>1, <3>1, <3>2, <3>5, QuietFollows
  <2> QED
    BY <1>5, <2>2, <2>3, <2>4, <2>5, <2>6, <2>7, <2>8 DEF ProcStep
<1>6. ASSUME NEW s \in Slots, TaskStep(s)
      PROVE  FollowInv'
  BY <1>1, <1>6, TaskStepFollows
<1>7. CASE Tick
  <2>1. UNCHANGED <<live, owed, completed, requeue>>
    BY <1>7 DEF Tick, objVars
  <2>2. ASSUME NEW s \in Slots, task'[s].pc # "free"
        PROVE  /\ task'[s].pc = task[s].pc /\ task'[s].obj = task[s].obj
               /\ task'[s].again = task[s].again
    <3>1. CASE Running(s)
      <4>1. task[s] \in TaskType
        BY <1>1, <3>1, BusyTask DEF Running
      <4>2. task'[s] = [task[s] EXCEPT !.age = Older(task[s].age, HandlingTime)]
        BY <1>7, <3>1 DEF Tick
      <4> QED
        BY <4>1, <4>2 DEF TaskType
    <3>2. CASE ~Running(s)
      BY <1>7, <3>2 DEF Tick
    <3> QED
      BY <3>1, <3>2
  <2>3. \A o \in Objects : queue'[o].by = queue[o].by
    BY <1>2, <1>7 DEF Tick, RowType
  <2> QED
    BY <1>1, <1>3, <2>1, <2>2, <2>3, QuietFollows
<1> QED
  BY <1>4, <1>5, <1>6, <1>7 DEF Next

\* As long as deadlines are kept and no finalization is mistaken for a failed one,
\* the object of a committed step or of an invalidated iteration stays queued until
\* the next task has loaded it: deleting before queueing again, in one transaction
\* of finalize_completed_objects, is what it takes.
THEOREM FollowUpSafety ==
    ASSUME Punctual
    PROVE  Spec => []FollowUpIsQueued
<1>1. FollowInv /\ [Next]_vars => FollowInv'
  BY FollowStep
<1>2. FollowInv => FollowUpIsQueued
  BY DEF FollowInv
<1> QED
  BY FollowInit, <1>1, <1>2, PTL DEF Spec

=============================================================================
