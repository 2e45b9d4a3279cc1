-------------------------- MODULE StateController --------------------------
(***************************************************************************)
(* The state controller of one object type: crates/state-controller.       *)
(*                                                                         *)
(* Every API server runs a periodic enqueuer and a processor.  Objects to  *)
(* handle are rows of a queue table; a processor claims rows, spawns a     *)
(* handling task for each, collects finished tasks and finalizes them:     *)
(* their rows are deleted and, where the object made a step, queued again. *)
(* A task loads the object, runs the handler without a transaction, and    *)
(* commits the handler's decision if the object's controller state version *)
(* is still the one it loaded.                                             *)
(*                                                                         *)
(* Time is counted in ticks: rows and tasks carry their age.  Whatever can *)
(* go wrong is a fault, of a kind in FaultKinds and at most MaxFaults in a *)
(* behaviour.                                                              *)
(***************************************************************************)
EXTENDS Integers, Sequences, FiniteSets

CONSTANTS
    Objects, Procs,
    Slots,              \* task identities, at least MaxConcurrency per processor
    Nobody,             \* processed_by IS NULL
    Gone,               \* processed_by of a processor that no longer exists
    Absent,             \* no row
    Watched,            \* objects whose requests the ghost dirty follows
    MaxConcurrency,     \* max_concurrency
    HandlingTime,       \* max_object_handling_time, in ticks
    DirectlyWritten,    \* objects whose controller state others write, unguarded
    MaxWrites,          \* bound: controller state writes to an object
    MaxFaults,          \* bound: faults in a behaviour
    FaultKinds          \* which faults may happen, a subset of AllFaults

AllFaults == {"claim", "task", "commitAnswer", "finalize", "finalizeAnswer",
              "stop", "crash", "late"}

ASSUME ConstantsAssumption ==
    /\ {Nobody, Gone, Absent} \cap Procs = {}
    /\ Nobody # Gone /\ Nobody # Absent /\ Gone # Absent
    /\ MaxConcurrency \in Nat /\ HandlingTime \in Nat \ {0}
    /\ MaxWrites \in Nat /\ MaxFaults \in Nat
    /\ FaultKinds \subseteq AllFaults
    /\ Watched \subseteq Objects /\ DirectlyWritten \subseteq Objects

ClaimTime == 3 * HandlingTime       \* max_outdated of acquire_queued_objects

VARIABLES
    queue,      \* the queued objects table: processed_by and age of processing_started_at
    live,       \* objects that exist
    ver,        \* controller state version of an object
    history,    \* state history of an object: the versions persisted, in order
    task,       \* the handling tasks of all processors
    pc,         \* where the loop of a processor is
    pend,       \* rows claimed and not yet dispatched, and the age of the deadline
    completed,  \* completed_objects
    requeue,    \* requeue_objects
    direct,     \* the version a direct writer of the object has read
    listed,     \* what the periodic enqueuer listed and has not queued yet
    dirty,      \* ghost: objects with a request no handler has loaded yet
    owed,       \* ghost: objects that made a step or were invalidated, until a task follows up
    faults      \* bound: number of faults so far

objVars  == <<live, ver, history, direct>>
procVars == <<pc, pend, completed, requeue>>
vars == <<queue, live, ver, history, task, pc, pend, completed, requeue,
          direct, listed, dirty, owed, faults>>

\* A ConfigVersion: a number and the time of its write.  Distinct writes have
\* distinct times; the model counts them.
FirstVersion == [num |-> 1, time |-> 0]
NoVersion    == [num |-> 0, time |-> 0]

Row(by) == [by |-> by, age |-> 0]
NoTask  == [pc |-> "free", proc |-> Nobody, obj |-> Absent, snap |-> NoVersion,
            age |-> 0, again |-> FALSE]
NoClaim == [objs |-> {}, age |-> 0]

Init ==
    /\ queue = [o \in Objects |-> Row(Absent)]
    /\ live = Objects
    /\ ver = [o \in Objects |-> FirstVersion]
    /\ history = [o \in Objects |-> <<>>]
    /\ direct = [o \in Objects |-> NoVersion]
    /\ task = [s \in Slots |-> NoTask]
    /\ pc = [p \in Procs |-> "claim"]
    /\ pend = [p \in Procs |-> NoClaim]
    /\ completed = [p \in Procs |-> {}]
    /\ requeue = [p \in Procs |-> {}]
    /\ listed = {} /\ dirty = {} /\ owed = {}
    /\ faults = 0

Fault(kind) ==
    /\ kind \in FaultKinds /\ faults < MaxFaults
    /\ faults' = faults + 1

-----------------------------------------------------------------------------
(* The queue table: controller/db.rs.                                      *)

\* queue_objects: ON CONFLICT (object_id) DO NOTHING.
QueueObjects(q, S) ==
    [o \in Objects |-> IF o \in S /\ q[o].by = Absent THEN Row(Nobody) ELSE q[o]]

\* delete_queued_objects: only rows this processor has claimed.
DeleteQueuedObjects(q, S, p) ==
    [o \in Objects |-> IF o \in S /\ q[o].by = p THEN Row(Absent) ELSE q[o]]

\* Mutant: a claim is stale as soon as its handling deadline is reached.
ClaimableTooSoon ==
    {o \in Objects : \/ queue[o].by = Nobody
                     \/ queue[o].by # Absent /\ queue[o].age >= HandlingTime}

\* Mutant: claims do not expire.
ClaimableNeverStale == {o \in Objects : queue[o].by = Nobody}

\* WHERE processed_by IS NULL OR processing_started_at + max_outdated < now().
Claimable ==
    {o \in Objects : \/ queue[o].by = Nobody
                     \/ queue[o].by # Absent /\ queue[o].age > ClaimTime}

\* ORDER BY processing_started_at ASC ... LIMIT count.
OldestFirst(S, C) ==
    \A o \in S, r \in C \ S : queue[o].age >= queue[r].age

\* A processor that is gone leaves its claims behind under an id nobody uses.
Orphaned(q, p) == [o \in Objects |-> [q[o] EXCEPT !.by = IF @ = p THEN Gone ELSE @]]

-----------------------------------------------------------------------------
(* Enqueuing: controller/periodic_enqueuer.rs, controller/enqueuer.rs.     *)

\* enqueue_objects, first transaction.
ListObjects ==
    /\ listed = {}
    /\ listed' = live
    /\ UNCHANGED <<objVars, procVars, queue, task, dirty, owed, faults>>

\* enqueue_objects, second transaction: some of the objects may be gone by now.
QueueListed ==
    /\ listed # {}
    /\ queue' = QueueObjects(queue, listed)
    /\ listed' = {}
    /\ UNCHANGED <<objVars, procVars, task, dirty, owed, faults>>

\* Enqueuer::enqueue_object, from any other component.
EnqueueObject(o) ==
    /\ queue[o].by = Absent
    /\ queue' = QueueObjects(queue, {o})
    /\ UNCHANGED <<objVars, procVars, task, listed, dirty, owed, faults>>

\* A user asks for something of the object: the handler has to see it.
Request(o) ==
    /\ o \in Watched \cap live
    /\ dirty' = dirty \cup {o}
    /\ UNCHANGED <<objVars, procVars, queue, task, listed, owed, faults>>

\* ConfigVersion::increment.
Increment(v, o) == [num |-> v.num + 1, time |-> Len(history[o]) + 1]

\* The controller state and its history entry, in one transaction.
WriteState(o, new) ==
    /\ Len(history[o]) < MaxWrites
    /\ ver' = [ver EXCEPT ![o] = new]
    /\ history' = [history EXCEPT ![o] = Append(@, new)]
    /\ UNCHANGED live

\* A discovery or command path reads the object and decides on a new state ...
DirectRead(o) ==
    /\ o \in DirectlyWritten \cap live /\ direct[o] = NoVersion
    /\ direct' = [direct EXCEPT ![o] = ver[o]]
    /\ UNCHANGED <<live, ver, history, procVars, queue, task, listed, dirty, owed, faults>>

\* ... which it writes without comparing versions (machine::advance); the write
\* fails if the object is gone.
DirectWrite(o) ==
    /\ direct[o] # NoVersion
    /\ \/ o \in live /\ WriteState(o, Increment(direct[o], o))
       \/ o \notin live /\ UNCHANGED <<live, ver, history>>
    /\ direct' = [direct EXCEPT ![o] = NoVersion]
    /\ UNCHANGED <<procVars, queue, task, listed, dirty, owed, faults>>

\* An operator's force-delete removes the object, whatever its state.
ForceDelete(o) ==
    /\ o \in live
    /\ live' = live \ {o}
    /\ UNCHANGED <<ver, history, direct, procVars, queue, task, listed, dirty, owed, faults>>

-----------------------------------------------------------------------------
(* The processor loop: claim, dispatch, collect, finalize.                 *)

Tasks(p) == {s \in Slots : task[s].pc # "free" /\ task[s].proc = p}

RemainingCapacity(p) == MaxConcurrency - Cardinality(Tasks(p))

\* acquire_queued_objects.  The deadline's clock starts with the claim.
Claim(p) ==
    /\ pc[p] = "claim" /\ RemainingCapacity(p) > 0
    /\ \E S \in SUBSET Claimable :
         /\ Cardinality(S) <= RemainingCapacity(p)
         /\ S # Claimable => Cardinality(S) = RemainingCapacity(p)
         /\ OldestFirst(S, Claimable)
         /\ queue' = [o \in Objects |-> IF o \in S THEN Row(p) ELSE queue[o]]
         /\ pend' = [pend EXCEPT ![p] = [objs |-> S, age |-> 0]]
    /\ pc' = [pc EXCEPT ![p] = "dispatch"]
    /\ UNCHANGED <<objVars, task, completed, requeue, listed, dirty, owed, faults>>

ClaimNothing(p) ==
    /\ pc[p] = "claim" /\ RemainingCapacity(p) <= 0
    /\ pc' = [pc EXCEPT ![p] = "collect"]
    /\ UNCHANGED <<objVars, queue, task, pend, completed, requeue, listed, dirty, owed, faults>>

NewTask(p, o, age) ==
    [pc |-> "ready", proc |-> p, obj |-> o, snap |-> NoVersion, age |-> age,
     again |-> FALSE]

\* dispatch_object_handling_task for each claimed object; f names the tasks.
Dispatch(p) ==
    /\ pc[p] = "dispatch" /\ pend[p].age < HandlingTime
    /\ \E f \in [pend[p].objs -> {s \in Slots : task[s].pc = "free"}] :
         /\ \A o, r \in pend[p].objs : f[o] = f[r] => o = r
         /\ task' = [s \in Slots |->
                       IF \E o \in pend[p].objs : f[o] = s
                       THEN NewTask(p, CHOOSE o \in pend[p].objs : f[o] = s, pend[p].age)
                       ELSE task[s]]
    /\ pend' = [pend EXCEPT ![p] = NoClaim]
    /\ pc' = [pc EXCEPT ![p] = "collect"]
    /\ UNCHANGED <<objVars, queue, completed, requeue, listed, dirty, owed, faults>>

\* QueueClaimTimeout, or the answer to the claim is lost: the iteration ends
\* before it collects or finalizes, and the claim is left to expire.
ClaimTimeout(p) ==
    /\ pc[p] = "dispatch"
    /\ \/ pend[p].age >= HandlingTime /\ UNCHANGED faults
       \/ pend[p].age < HandlingTime /\ Fault("claim")
    /\ pend' = [pend EXCEPT ![p] = NoClaim]
    /\ pc' = [pc EXCEPT ![p] = "claim"]
    /\ UNCHANGED <<objVars, queue, task, completed, requeue, listed, dirty, owed>>

Done(p) == {s \in Tasks(p) : task[s].pc = "done"}

\* Mutant: a finished task is left behind with what it carried.
CollectDoneKeepsTask(p) ==
    /\ completed' = [completed EXCEPT ![p] = @ \cup {task[s].obj : s \in Done(p)}]
    /\ requeue' = [requeue EXCEPT ![p] =
                     @ \cup {task[s].obj : s \in {d \in Done(p) : task[d].again}}]
    /\ task' = [s \in Slots |-> IF s \in Done(p) THEN [task[s] EXCEPT !.pc = "free"]
                                ELSE task[s]]

\* process_object_handling_task_result for every finished task.
CollectDone(p) ==
    /\ completed' = [completed EXCEPT ![p] = @ \cup {task[s].obj : s \in Done(p)}]
    /\ requeue' = [requeue EXCEPT ![p] =
                     @ \cup {task[s].obj : s \in {d \in Done(p) : task[d].again}}]
    /\ task' = [s \in Slots |-> IF s \in Done(p) THEN NoTask ELSE task[s]]

\* wait_and_process_object_handling_task_completions.
Collect(p) ==
    /\ pc[p] = "collect"
    /\ CollectDone(p)
    /\ pc' = [pc EXCEPT ![p] = "finalize"]
    /\ UNCHANGED <<objVars, queue, pend, listed, dirty, owed, faults>>

\* Mutant: queues again before it deletes.
FinalizedQueueFirst(p) ==
    DeleteQueuedObjects(QueueObjects(queue, requeue[p]), completed[p], p)

\* The transaction of finalize_completed_objects.
Finalized(p) ==
    QueueObjects(DeleteQueuedObjects(queue, completed[p], p), requeue[p])

\* Mutant: completed_objects is not cleared.
FinalizeKeepsCompleted(p) ==
    /\ pc[p] = "finalize"
    /\ queue' = IF completed[p] = {} THEN queue ELSE Finalized(p)
    /\ requeue' = [requeue EXCEPT ![p] = {}]
    /\ pc' = [pc EXCEPT ![p] = "claim"]
    /\ UNCHANGED <<objVars, task, pend, completed, listed, dirty, owed, faults>>

\* finalize_completed_objects; with nothing completed it returns at once.
Finalize(p) ==
    /\ pc[p] = "finalize"
    /\ queue' = IF completed[p] = {} THEN queue ELSE Finalized(p)
    /\ completed' = [completed EXCEPT ![p] = {}]
    /\ requeue' = [requeue EXCEPT ![p] = {}]
    /\ pc' = [pc EXCEPT ![p] = "claim"]
    /\ UNCHANGED <<objVars, task, pend, listed, dirty, owed, faults>>

\* A database error: what was completed is kept for the next iteration.
FinalizeFailed(p) ==
    /\ pc[p] = "finalize" /\ completed[p] # {}
    /\ Fault("finalize")
    /\ pc' = [pc EXCEPT ![p] = "claim"]
    /\ UNCHANGED <<objVars, queue, task, pend, completed, requeue, listed, dirty, owed>>

\* The same, but the transaction did commit and only its answer was lost.
FinalizeAnswerLost(p) ==
    /\ pc[p] = "finalize" /\ completed[p] # {}
    /\ Fault("finalizeAnswer")
    /\ queue' = Finalized(p)
    /\ pc' = [pc EXCEPT ![p] = "claim"]
    /\ UNCHANGED <<objVars, task, pend, completed, requeue, listed, dirty, owed>>

\* Shutdown is requested: drain() claims nothing more.
Stop(p) ==
    /\ pc[p] = "claim" /\ Fault("stop")
    /\ pc' = [pc EXCEPT ![p] = "drain"]
    /\ UNCHANGED <<objVars, queue, task, pend, completed, requeue, listed, dirty, owed>>

DrainCollect(p) ==
    /\ pc[p] = "drain" /\ Done(p) # {}
    /\ CollectDone(p)
    /\ UNCHANGED <<objVars, queue, pc, pend, listed, dirty, owed, faults>>

\* A processor that has ended is replaced by one with an id of its own.
Reborn(p) ==
    /\ pc' = [pc EXCEPT ![p] = "claim"]
    /\ pend' = [pend EXCEPT ![p] = NoClaim]
    /\ completed' = [completed EXCEPT ![p] = {}]
    /\ requeue' = [requeue EXCEPT ![p] = {}]

\* The last finalization, which is not retried.
DrainFinish(p) ==
    /\ pc[p] = "drain" /\ Tasks(p) = {}
    /\ \/ queue' = Orphaned(Finalized(p), p) /\ UNCHANGED faults
       \/ queue' = Orphaned(queue, p) /\ Fault("finalize")
    /\ Reborn(p)
    /\ UNCHANGED <<objVars, task, listed, dirty, owed>>

\* The process dies: its tasks and whatever it remembered are lost.
Crash(p) ==
    /\ Fault("crash")
    /\ task' = [s \in Slots |-> IF s \in Tasks(p) THEN NoTask ELSE task[s]]
    /\ queue' = Orphaned(queue, p)
    /\ Reborn(p)
    /\ UNCHANGED <<objVars, listed, dirty, owed>>

-----------------------------------------------------------------------------
(* A handling task: process_object.                                        *)

TaskVars == <<procVars, queue, listed>>

Ends(s, again) ==
    task' = [task EXCEPT ![s] = [@ EXCEPT !.pc = "done", !.again = again]]

\* The first transaction: snapshot and controller state.
Load(s) ==
    /\ task[s].pc = "ready" /\ task[s].age < HandlingTime
    /\ task[s].obj \in live
    /\ task' = [task EXCEPT ![s] = [@ EXCEPT !.pc = "handling", !.snap = ver[task[s].obj]]]
    /\ dirty' = dirty \ {task[s].obj}
    /\ owed' = owed \ {task[s].obj}
    /\ UNCHANGED <<objVars, TaskVars, faults>>

\* The object is gone (MissingData).
LoadMissing(s) ==
    /\ task[s].pc = "ready" /\ task[s].obj \notin live
    /\ Ends(s, FALSE)
    /\ UNCHANGED <<objVars, TaskVars, dirty, owed, faults>>

\* Mutant: the state is written whatever the version.
StateIsAssumedCurrent(s) == task[s].obj \in live

\* Mutant: a removed object still has a state to compare with.
StateOutlivesObject(s) == ver[task[s].obj] = task[s].snap

\* persist_controller_state applies: the object exists at the loaded version.
StateIsCurrent(s) == task[s].obj \in live /\ ver[task[s].obj] = task[s].snap

\* persist_controller_state and persist_state_history in one transaction.
PersistState(s) ==
    /\ WriteState(task[s].obj, Increment(task[s].snap, task[s].obj))
    /\ UNCHANGED direct

\* StateHandlerOutcome::Transition, committed and acknowledged.
Transition(s) ==
    /\ task[s].pc = "handling"
    /\ StateIsCurrent(s)
    /\ PersistState(s)
    /\ owed' = owed \cup {task[s].obj}
    /\ Ends(s, TRUE)
    /\ UNCHANGED <<TaskVars, dirty, faults>>

\* The commit took effect but the deadline or a broken connection hid it:
\* next_state is not reported.
TransitionAnswerLost(s) ==
    /\ task[s].pc = "handling"
    /\ Fault("commitAnswer")
    /\ StateIsCurrent(s)
    /\ PersistState(s)
    /\ Ends(s, FALSE)
    /\ UNCHANGED <<TaskVars, dirty, owed>>

\* ConditionalWrite::NotApplied: everything is rolled back (IterationInvalidated).
TransitionRejected(s) ==
    /\ task[s].pc = "handling" /\ ~StateIsCurrent(s)
    /\ owed' = owed \cup {task[s].obj}
    /\ Ends(s, TRUE)
    /\ UNCHANGED <<objVars, TaskVars, dirty, faults>>

\* A queued write or the handler itself found its precondition gone.
Invalidated(s) ==
    /\ task[s].pc = "handling"
    /\ owed' = owed \cup {task[s].obj}
    /\ Ends(s, TRUE)
    /\ UNCHANGED <<objVars, TaskVars, dirty, faults>>

\* Wait, DoNothing, or a handler error: the controller state stays.
Settle(s) ==
    /\ task[s].pc = "handling"
    /\ Ends(s, FALSE)
    /\ UNCHANGED <<objVars, TaskVars, dirty, owed, faults>>

\* StateHandlerOutcome::Deleted: the handler's transaction removed the object.
Deleted(s) ==
    /\ task[s].pc = "handling"
    /\ live' = live \ {task[s].obj}
    /\ Ends(s, FALSE)
    /\ UNCHANGED <<ver, history, direct, TaskVars, dirty, owed, faults>>

\* The deadline passes (Timeout), or the database fails: the open transaction
\* is rolled back.
TaskFails(s) ==
    /\ task[s].pc \in {"ready", "handling"}
    /\ \/ task[s].age >= HandlingTime /\ UNCHANGED faults
       \/ task[s].age < HandlingTime /\ Fault("task")
    /\ Ends(s, FALSE)
    /\ owed' = IF task[s].pc = "ready" THEN owed \ {task[s].obj} ELSE owed
    /\ UNCHANGED <<objVars, TaskVars, dirty>>

-----------------------------------------------------------------------------
(* Time.                                                                   *)

Running(s) == task[s].pc \in {"ready", "handling"}

\* Deadlines fire and finalization gets through before the claim is stale.
\* With "late" among the faults (a paused process, a long database outage)
\* neither is guaranteed.
OnTime ==
    \/ "late" \in FaultKinds
    \/ /\ \A s \in Slots : Running(s) => task[s].age < HandlingTime
       /\ \A s \in Slots : task[s].pc = "done" => queue[task[s].obj].age < ClaimTime
       /\ \A p \in Procs, o \in Objects :
            o \in completed[p] => queue[o].age < ClaimTime

Older(age, cap) == IF age < cap THEN age + 1 ELSE age

Tick ==
    /\ OnTime
    /\ queue' = [o \in Objects |->
                   IF queue[o].by = Absent THEN queue[o]
                   ELSE [queue[o] EXCEPT !.age = Older(@, ClaimTime + 1)]]
    /\ task' = [s \in Slots |->
                  IF Running(s) THEN [task[s] EXCEPT !.age = Older(@, HandlingTime)]
                  ELSE task[s]]
    /\ pend' = [p \in Procs |->
                  IF pc[p] = "dispatch"
                  THEN [pend[p] EXCEPT !.age = Older(@, HandlingTime)] ELSE pend[p]]
    /\ UNCHANGED <<objVars, pc, completed, requeue, listed, dirty, owed, faults>>

ProcStep(p) ==
    \/ Claim(p) \/ ClaimNothing(p) \/ Dispatch(p) \/ ClaimTimeout(p)
    \/ Collect(p)
    \/ Finalize(p) \/ FinalizeFailed(p) \/ FinalizeAnswerLost(p)
    \/ Stop(p) \/ DrainCollect(p) \/ DrainFinish(p) \/ Crash(p)

TaskStep(s) ==
    \/ Load(s) \/ LoadMissing(s) \/ TaskFails(s)
    \/ Transition(s) \/ TransitionAnswerLost(s) \/ TransitionRejected(s)
    \/ Invalidated(s) \/ Settle(s) \/ Deleted(s)

Next ==
    \/ ListObjects \/ QueueListed
    \/ \E o \in Objects : \/ EnqueueObject(o) \/ Request(o)
                          \/ DirectRead(o) \/ DirectWrite(o) \/ ForceDelete(o)
    \/ \E p \in Procs : ProcStep(p)
    \/ \E s \in Slots : TaskStep(s)
    \/ Tick

Spec == Init /\ [][Next]_vars

ClaimOf(o)    == \E p \in Procs : Claim(p) /\ o \in pend'[p].objs
DispatchOf(o) == \E p \in Procs : o \in pend[p].objs /\ Dispatch(p)
LoadOf(o)     == \E s \in Slots : o = task[s].obj /\ Load(s)

\* The loops of processors and enqueuers run, tasks end (their deadline sees to
\* that), time passes, and an object's claims are not late and its tasks not
\* scheduled after the deadline every single time.  A row is not overtaken for
\* ever: the code's timestamps go on ordering rows whose ages the model has
\* capped.  Faults are finite in number by MaxFaults.
FairSpec ==
    /\ Spec
    /\ WF_vars(Tick) /\ WF_vars(ListObjects) /\ WF_vars(QueueListed)
    /\ \A p \in Procs :
         /\ WF_vars(Claim(p) \/ ClaimNothing(p))
         /\ WF_vars(Dispatch(p) \/ ClaimTimeout(p))
         /\ WF_vars(Collect(p))
         /\ WF_vars(Finalize(p))
         /\ WF_vars(DrainCollect(p) \/ DrainFinish(p))
    /\ \A s \in Slots : WF_vars(TaskStep(s))
    /\ \A o \in Objects :
         /\ SF_vars(ClaimOf(o)) /\ SF_vars(DispatchOf(o)) /\ SF_vars(LoadOf(o))

\* What the processors together do to an object's controller state.
Linear == INSTANCE LinearObjects

-----------------------------------------------------------------------------
(* Properties.                                                             *)

Version == [num : Nat, time : Nat]

\* The type of every variable: ages stay within their caps and only processors
\* that exist run tasks.
TypeOK ==
    /\ queue \in [Objects -> [by : Procs \cup {Nobody, Gone, Absent}, age : 0..ClaimTime + 1]]
    /\ live \subseteq Objects
    /\ ver \in [Objects -> Version]
    /\ history \in [Objects -> Seq(Version)]
    /\ direct \in [Objects -> Version]
    /\ task \in [Slots ->
          [pc : {"ready", "handling", "done"}, proc : Procs, obj : Objects,
           snap : Version, age : 0..HandlingTime, again : BOOLEAN] \cup {NoTask}]
    /\ pc \in [Procs -> {"claim", "dispatch", "collect", "finalize", "drain"}]
    /\ pend \in [Procs -> [objs : SUBSET Objects, age : 0..HandlingTime]]
    /\ completed \in [Procs -> SUBSET Objects]
    /\ requeue \in [Procs -> SUBSET Objects]
    /\ listed \subseteq Objects /\ dirty \subseteq Objects /\ owed \subseteq Objects
    /\ faults \in 0..MaxFaults

\* The state history of an object is one unbroken line of versions that ends in
\* its present version: no two iterations, on whatever processors and however
\* stale, persist the same step, skip one or step back.
HistoryIsLinear ==
    \A o \in Objects :
        /\ Len(history[o]) = ver[o].num - 1
        /\ \A n \in 1..Len(history[o]) : history[o][n].num = n + 1

\* Stale claims, late tasks, lost answers and crashes do not show in what the
\* objects go through: the controllers of all processes implement one sequential
\* controller per object, as long as nobody else writes its state.
ImplementsLinearObjects == Linear!Spec

\* "only a single controller will decide the next step for a single object": no
\* two tasks handle an object at the same time.
SingleHandler ==
    \A s, t \in Slots :
        s # t /\ Running(s) /\ Running(t) => task[s].obj # task[t].obj

\* After a step that its task knows to be committed, or an iteration that was
\* invalidated, the object stays queued until another task has loaded it or tried
\* to, across failed finalizations, crashes and takeovers: the follow-up does not
\* wait for the periodic enqueuer.
FollowUpIsQueued ==
    \A o \in owed \cap live : queue[o].by # Absent

\* A request is seen by a handler sooner or later, even if its wake-up was
\* swallowed by a claim or the processor that had claimed the object is gone.
RequestsAreSeen ==
    \A o \in Objects : (o \in dirty) ~> (o \notin dirty \/ o \notin live)

\* The assertion in finalize_completed_objects, "BUG: Not all objects have been
\* deleted from the database after cleanup".
FinalizeDeletesAll ==
    [][\A p \in Procs :
          Finalize(p) => \A o \in completed[p] : queue[o].by = p]_vars
=============================================================================
