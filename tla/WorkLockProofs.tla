--------------------------- MODULE WorkLockProofs ---------------------------
(***************************************************************************)
(* Proofs about WorkLock for every number of keys, processes and attempts, *)
(* every command buffer, timeout and wait: the types, the fencing          *)
(* invariant, the order of fenced writes, that the work lock implements    *)
(* FencedLease, and that a process's releases run before the acquires it   *)
(* asks for later.                                                         *)
(***************************************************************************)
EXTENDS WorkLock, TLAPS

\* The row's owner is an attempt at this key, granted in the key's present term.
OwnerTerm ==
    \A k \in Keys :
        row[k].owner # NoId =>
            key[row[k].owner] = k /\ termOf[row[k].owner] = term[k]

\* No write has been committed in a term that was not granted yet.
WrittenBound == \A k \in Keys : written[k] <= term[k]

IInv == TypeOK /\ FenceHoldsRow /\ OwnerTerm /\ WrittenBound

-----------------------------------------------------------------------------

LEMMA AgeFacts ==
    /\ MaxAge \in Nat /\ 0 \in 0..MaxAge
    /\ 0..MaxWait \subseteq 0..MaxAge
    /\ \A a \in 0..MaxAge : Older(a) \in 0..MaxAge
BY ConstantsAssumption DEF MaxAge, Older

LEMMA TypeInit == Init => TypeOK
<1>1. 0 \in 0..MaxAge  BY AgeFacts
<1>. QED  BY <1>1 DEF Init, TypeOK, NoRow, Idle, Running, Phases, Loops, Command

\* What every action assumes of the manager's command.
LEMMA RunningFacts ==
    ASSUME TypeOK, NEW p \in Procs, cur[p].op # "Idle"
    PROVE  /\ cur[p] \in [op : Ops, id : Ids, waited : 0..MaxWait]
           /\ cur[p].id \in Ids /\ cur[p].waited \in 0..MaxWait
           /\ cur[p].waited \in 0..MaxAge
BY AgeFacts DEF TypeOK, Running, Idle

\* The table's writes keep the table's types.
LEMMA UpsertType ==
    ASSUME TypeOK, NEW i \in Ids, NEW w \in 0..MaxAge, Upsert(i, w)
    PROVE  /\ row' \in [Keys -> [owner : Ids \cup {NoId}, age : 0..MaxAge]]
           /\ term' \in [Keys -> Nat]
           /\ termOf' \in [Ids -> Nat]
BY DEF TypeOK, Upsert

LEMMA DeleteRowType ==
    ASSUME TypeOK, NEW i \in Ids, DeleteRow(i)
    PROVE  row' \in [Keys -> [owner : Ids \cup {NoId}, age : 0..MaxAge]]
BY AgeFacts DEF TypeOK, DeleteRow, NoRow

LEMMA RefreshType ==
    ASSUME TypeOK, NEW i \in Ids, Refresh(i)
    PROVE  row' \in [Keys -> [owner : Ids \cup {NoId}, age : 0..MaxAge]]
BY AgeFacts DEF TypeOK, Refresh

LEMMA SendType ==
    ASSUME TypeOK, NEW p \in Procs, NEW op \in Ops, NEW i \in Ids, Send(p, op, i)
    PROVE  queue' \in [Procs -> Seq(Command)]
<1>1. [op |-> op, id |-> i] \in Command  BY DEF Command
<1>2. queue[p] \in Seq(Command)  BY DEF TypeOK
<1>3. Append(queue[p], [op |-> op, id |-> i]) \in Seq(Command)  BY <1>1, <1>2
<1>. QED  BY <1>3 DEF TypeOK, Send

LEMMA FinishType ==
    ASSUME TypeOK, NEW p \in Procs, Finish(p)
    PROVE  cur' \in [Procs -> Running]
BY DEF TypeOK, Finish, Running

LEMMA TypeCaller ==
    ASSUME TypeOK, NEW i \in Ids, CallerStep(i) \/ LoopStep(i)
    PROVE  TypeOK'
<1>h. home[i] \in Procs /\ key[i] \in Keys  BY DEF TypeOK
<1>1. CASE TryAcquireLock(i)
  <2>1. queue' \in [Procs -> Seq(Command)]
    BY <1>1, <1>h, SendType DEF TryAcquireLock, Ops
  <2>. QED  BY <1>1, <2>1 DEF TypeOK, TryAcquireLock, Phases, tableVars, callerVars
<1>2. CASE Abandon(i)
  BY <1>2 DEF TypeOK, Abandon, Phases, tableVars, callerVars, ghostVars
<1>3. CASE NewWorkLock(i)
  BY <1>3 DEF TypeOK, NewWorkLock, Phases, Loops, tableVars, callerVars, ghostVars
<1>4. CASE DropWorkLock(i)
  <2>1. queue' \in [Procs -> Seq(Command)]
    BY <1>4, <1>h, SendType DEF DropWorkLock, Ops
  <2>. QED  BY <1>4, <2>1 DEF TypeOK, DropWorkLock, Phases, tableVars, callerVars, ghostVars
<1>5. CASE FenceTransaction(i)
  BY <1>5 DEF TypeOK, FenceTransaction, tableVars, callerVars, ghostVars
<1>6. CASE CommitFenced(i)
  BY <1>6, <1>h DEF TypeOK, CommitFenced, tableVars, callerVars
<1>7. CASE RollbackFenced(i)
  BY <1>7 DEF TypeOK, RollbackFenced, tableVars, callerVars, ghostVars
<1>8. CASE LoopStop(i)
  BY <1>8 DEF TypeOK, LoopStop, Loops, tableVars, callerVars, ghostVars
<1>9. CASE LoopTick(i)
  BY <1>9 DEF TypeOK, LoopTick, Loops, tableVars, callerVars, ghostVars
<1>10. CASE LoopSend(i)
  <2>1. queue' \in [Procs -> Seq(Command)]
    BY <1>10, <1>h, SendType DEF LoopSend, Ops, TypeOK
  <2>. QED  BY <1>10, <2>1 DEF TypeOK, LoopSend, Loops, tableVars, callerVars, ghostVars
<1>. QED
  BY <1>1, <1>2, <1>3, <1>4, <1>5, <1>6, <1>7, <1>8, <1>9, <1>10 DEF CallerStep, LoopStep

LEMMA TypeManager ==
    ASSUME TypeOK, NEW p \in Procs, ManagerStep(p)
    PROVE  TypeOK'
<1>. DEFINE i == cur[p].id
<1>1. CASE Dequeue(p)
  <2>1. queue[p] \in Seq(Command) /\ queue[p] # <<>>
    BY <1>1 DEF TypeOK, Dequeue
  <2>2. Head(queue[p]) \in Command /\ Tail(queue[p]) \in Seq(Command)
    BY <2>1
  <2>3. queue' \in [Procs -> Seq(Command)]
    BY <1>1, <2>2 DEF TypeOK, Dequeue
  <2>4. 0 \in 0..MaxWait  BY ConstantsAssumption
  <2>5. cur' \in [Procs -> Running]
    BY <1>1, <2>2, <2>4 DEF TypeOK, Dequeue, Running, Command
  <2>. QED
    BY <1>1, <2>3, <2>5 DEF TypeOK, Dequeue, tableVars, callerVars, ghostVars
<1>2. CASE AcquireGranted(p)
  <2>1. i \in Ids /\ cur[p].waited \in 0..MaxAge
    BY <1>2, RunningFacts DEF AcquireGranted
  <2>2. Upsert(i, cur[p].waited)  BY <1>2 DEF AcquireGranted
  <2>3. cur' \in [Procs -> Running]  BY <1>2, FinishType DEF AcquireGranted
  <2>. QED
    BY <1>2, <2>1, <2>2, <2>3, UpsertType
       DEF TypeOK, AcquireGranted, Reply, Phases, callerVars, ghostVars
<1>3. CASE AcquireDenied(p)
  <2>1. i \in Ids  BY <1>3, RunningFacts DEF AcquireDenied
  <2>2. cur' \in [Procs -> Running]  BY <1>3, FinishType DEF AcquireDenied
  <2>. QED
    BY <1>3, <2>1, <2>2
       DEF TypeOK, AcquireDenied, Reply, Phases, tableVars, callerVars, ghostVars
<1>4. CASE AcquireFailed(p)
  <2>1. i \in Ids /\ cur[p].waited \in 0..MaxAge
    BY <1>4, RunningFacts DEF AcquireFailed
  <2>2. cur' \in [Procs -> Running]  BY <1>4, FinishType DEF AcquireFailed
  <2>3. CASE UNCHANGED tableVars
    BY <1>4, <2>1, <2>2, <2>3
       DEF TypeOK, AcquireFailed, Reply, Phases, tableVars, callerVars, ghostVars
  <2>4. CASE Upsert(i, cur[p].waited)
    BY <1>4, <2>1, <2>2, <2>4, UpsertType
       DEF TypeOK, AcquireFailed, Reply, Phases, callerVars, ghostVars
  <2>. QED  BY <1>4, <2>3, <2>4 DEF AcquireFailed
<1>5. CASE ReleaseLock(p)
  <2>1. i \in Ids  BY <1>5, RunningFacts DEF ReleaseLock
  <2>2. cur' \in [Procs -> Running]  BY <1>5, FinishType DEF ReleaseLock
  <2>3. row' \in [Keys -> [owner : Ids \cup {NoId}, age : 0..MaxAge]]
    BY <1>5, <2>1, DeleteRowType DEF ReleaseLock
  <2>. QED  BY <1>5, <2>2, <2>3 DEF TypeOK, ReleaseLock, callerVars, ghostVars
<1>6. CASE ReleaseFailed(p)
  <2>1. i \in Ids  BY <1>6, RunningFacts DEF ReleaseFailed
  <2>2. cur' \in [Procs -> Running]  BY <1>6, FinishType DEF ReleaseFailed
  <2>3. row' \in [Keys -> [owner : Ids \cup {NoId}, age : 0..MaxAge]]
    BY <1>6, <2>1, DeleteRowType DEF ReleaseFailed, TypeOK
  <2>. QED
    BY <1>6, <2>1, <2>2, <2>3 DEF TypeOK, ReleaseFailed, Phases, callerVars, ghostVars
<1>7. CASE KeepLockAlive(p)
  <2>1. i \in Ids  BY <1>7, RunningFacts DEF KeepLockAlive
  <2>2. cur' \in [Procs -> Running]  BY <1>7, FinishType DEF KeepLockAlive
  <2>3. row' \in [Keys -> [owner : Ids \cup {NoId}, age : 0..MaxAge]]
    BY <1>7, <2>1, RefreshType DEF KeepLockAlive
  <2>. QED
    BY <1>7, <2>1, <2>2, <2>3 DEF TypeOK, KeepLockAlive, Loops, callerVars, ghostVars
<1>8. CASE KeepLockAliveLost(p)
  <2>1. i \in Ids  BY <1>8, RunningFacts DEF KeepLockAliveLost
  <2>2. cur' \in [Procs -> Running]  BY <1>8, FinishType DEF KeepLockAliveLost
  <2>. QED
    BY <1>8, <2>1, <2>2 DEF TypeOK, KeepLockAliveLost, Loops, tableVars, callerVars, ghostVars
<1>9. CASE KeepLockAliveFailed(p)
  <2>1. i \in Ids  BY <1>9, RunningFacts DEF KeepLockAliveFailed
  <2>2. cur' \in [Procs -> Running]  BY <1>9, FinishType DEF KeepLockAliveFailed
  <2>3. row' \in [Keys -> [owner : Ids \cup {NoId}, age : 0..MaxAge]]
    BY <1>9, <2>1, RefreshType DEF KeepLockAliveFailed, TypeOK
  <2>. QED
    BY <1>9, <2>1, <2>2, <2>3 DEF TypeOK, KeepLockAliveFailed, Loops, callerVars, ghostVars
<1>. QED
  BY <1>1, <1>2, <1>3, <1>4, <1>5, <1>6, <1>7, <1>8, <1>9 DEF ManagerStep

LEMMA TypeCrash ==
    ASSUME TypeOK, NEW p \in Procs, Crash(p)
    PROVE  TypeOK'
<1>1. queue' \in [Procs -> Seq(Command)]  BY DEF TypeOK, Crash
<1>2. cur' \in [Procs -> Running]  BY DEF TypeOK, Crash, Running
<1>. QED
  BY <1>1, <1>2 DEF TypeOK, Crash, Phases, Loops, tableVars, callerVars, ghostVars

LEMMA TypeTick == TypeOK /\ Tick => TypeOK'
<1>. SUFFICES ASSUME TypeOK, Tick PROVE TypeOK'
  OBVIOUS
<1>1. row' \in [Keys -> [owner : Ids \cup {NoId}, age : 0..MaxAge]]
  <2>1. ASSUME NEW k \in Keys
        PROVE  [row[k] EXCEPT !.age = Older(@)] \in [owner : Ids \cup {NoId}, age : 0..MaxAge]
    <3>1. row[k] \in [owner : Ids \cup {NoId}, age : 0..MaxAge]  BY DEF TypeOK
    <3>2. Older(row[k].age) \in 0..MaxAge  BY <3>1, AgeFacts
    <3>. QED  BY <3>1, <3>2
  <2>. QED  BY <2>1 DEF TypeOK, Tick
<1>2. cur' \in [Procs -> Running]
  <2>1. ASSUME NEW p \in Procs, cur[p].op = "Acquire"
        PROVE  [cur[p] EXCEPT !.waited = @ + 1] \in Running
    <3>1. cur[p] \in [op : Ops, id : Ids, waited : 0..MaxWait]
      BY <2>1, RunningFacts
    <3>2. cur[p].waited # MaxWait  BY <2>1 DEF Tick, Overdue
    <3>3. cur[p].waited + 1 \in 0..MaxWait  BY <3>1, <3>2, ConstantsAssumption
    <3>. QED  BY <3>1, <3>3 DEF Running
  <2>. QED  BY <2>1 DEF TypeOK, Tick
<1>. QED  BY <1>1, <1>2 DEF TypeOK, Tick, callerVars, ghostVars

LEMMA TypeStep == TypeOK /\ [Next]_vars => TypeOK'
<1>1. TypeOK /\ UNCHANGED vars => TypeOK'  BY DEF TypeOK, vars
<1>. QED  BY <1>1, TypeCaller, TypeManager, TypeCrash, TypeTick DEF Next

\* Every variable keeps its type in every behaviour of the work lock: ages and
\* waits stay within their bounds and only attempts own rows.
THEOREM TypeCorrect == Spec => []TypeOK
BY TypeInit, TypeStep, PTL DEF Spec

-----------------------------------------------------------------------------
(* Fencing.  Only Upsert and DeleteRow change a row's owner, both only      *)
(* while no fence is open on the key, and only FenceTransaction opens one.  *)

LEMMA UpsertSafe ==
    ASSUME IInv, NEW i \in Ids, NEW w \in 0..MaxAge, ~Fenced(key[i]), Upsert(i, w),
           UNCHANGED <<key, fence, written>>
    PROVE  FenceHoldsRow' /\ OwnerTerm' /\ WrittenBound'
<1>1. FenceHoldsRow'
  BY DEF IInv, TypeOK, FenceHoldsRow, Fenced, Upsert
<1>2. OwnerTerm'
  <2>. SUFFICES ASSUME NEW k \in Keys, row'[k].owner # NoId
                PROVE  key'[row'[k].owner] = k /\ termOf'[row'[k].owner] = term'[k]
    BY DEF OwnerTerm
  <2>1. CASE k = key[i]
    BY <2>1 DEF IInv, TypeOK, Upsert
  <2>2. CASE k # key[i]
    <3>1. row'[k] = row[k] /\ term'[k] = term[k]
      BY <2>2 DEF IInv, TypeOK, Upsert
    <3>2. key[row[k].owner] = k /\ termOf[row[k].owner] = term[k]
      BY <3>1 DEF IInv, OwnerTerm
    <3>3. row[k].owner # i  BY <2>2, <3>2
    <3>. QED  BY <3>1, <3>2, <3>3 DEF IInv, TypeOK, Upsert
  <2>. QED  BY <2>1, <2>2
<1>3. WrittenBound'
  BY DEF IInv, TypeOK, WrittenBound, Upsert
<1>. QED  BY <1>1, <1>2, <1>3

LEMMA DeleteRowSafe ==
    ASSUME IInv, NEW i \in Ids, row[key[i]].owner = i => ~Fenced(key[i]),
           DeleteRow(i), UNCHANGED <<key, fence, written, term, termOf>>
    PROVE  FenceHoldsRow' /\ OwnerTerm' /\ WrittenBound'
<1>1. FenceHoldsRow'
  BY DEF IInv, TypeOK, FenceHoldsRow, Fenced, DeleteRow
<1>2. OwnerTerm'
  BY DEF IInv, TypeOK, OwnerTerm, DeleteRow, NoRow
<1>3. WrittenBound'
  BY DEF IInv, TypeOK, WrittenBound
<1>. QED  BY <1>1, <1>2, <1>3

\* A step that changes no owner, no term and no write, and opens no fence.
LEMMA QuietSafe ==
    ASSUME IInv, \A k \in Keys : row'[k].owner = row[k].owner,
           fence' \subseteq fence, UNCHANGED <<key, written, term, termOf>>
    PROVE  FenceHoldsRow' /\ OwnerTerm' /\ WrittenBound'
BY DEF IInv, TypeOK, FenceHoldsRow, OwnerTerm, WrittenBound

LEMMA RefreshQuiet ==
    ASSUME TypeOK, NEW i \in Ids, Refresh(i)
    PROVE  \A k \in Keys : row'[k].owner = row[k].owner
BY DEF TypeOK, Refresh

LEMMA TickQuiet ==
    ASSUME TypeOK, Tick
    PROVE  \A k \in Keys : row'[k].owner = row[k].owner
BY DEF TypeOK, Tick

LEMMA SafeCaller ==
    ASSUME IInv, NEW i \in Ids, CallerStep(i) \/ LoopStep(i)
    PROVE  FenceHoldsRow' /\ OwnerTerm' /\ WrittenBound'
<1>. USE DEF tableVars, callerVars, ghostVars
<1>1. CASE FenceTransaction(i)
  BY <1>1 DEF IInv, TypeOK, FenceTransaction, FenceHoldsRow, OwnerTerm, WrittenBound
<1>2. CASE CommitFenced(i)
  <2>1. row[key[i]].owner = i /\ i # NoId /\ key[i] \in Keys
    BY <1>2, ConstantsAssumption DEF IInv, FenceHoldsRow, CommitFenced, TypeOK
  <2>2. termOf[i] = term[key[i]]  BY <2>1 DEF IInv, OwnerTerm
  <2>3. WrittenBound'
    BY <1>2, <2>1, <2>2 DEF IInv, TypeOK, WrittenBound, CommitFenced
  <2>. QED
    BY <1>2, <2>3 DEF IInv, TypeOK, CommitFenced, FenceHoldsRow, OwnerTerm
<1>3. CASE RollbackFenced(i)
  BY <1>3, QuietSafe DEF RollbackFenced
<1>4. CASE TryAcquireLock(i) \/ Abandon(i) \/ NewWorkLock(i) \/ DropWorkLock(i)
  BY <1>4, QuietSafe DEF TryAcquireLock, Abandon, NewWorkLock, DropWorkLock
<1>5. CASE LoopStep(i)
  BY <1>5, QuietSafe DEF LoopStep, LoopStop, LoopTick, LoopSend
<1>. QED  BY <1>1, <1>2, <1>3, <1>4, <1>5 DEF CallerStep

LEMMA SafeManager ==
    ASSUME IInv, NEW p \in Procs, ManagerStep(p)
    PROVE  FenceHoldsRow' /\ OwnerTerm' /\ WrittenBound'
<1>. DEFINE i == cur[p].id
<1>. USE DEF tableVars, callerVars, ghostVars
<1>t. TypeOK  BY DEF IInv
<1>r. cur[p].op # "Idle" => i \in Ids /\ cur[p].waited \in 0..MaxAge
  BY <1>t, RunningFacts
<1>1. CASE Dequeue(p)
  BY <1>1, QuietSafe DEF Dequeue
<1>2. CASE AcquireGranted(p)
  BY <1>2, <1>r, UpsertSafe DEF AcquireGranted
<1>3. CASE AcquireDenied(p)
  BY <1>3, QuietSafe DEF AcquireDenied
<1>4. CASE AcquireFailed(p)
  <2>1. CASE UNCHANGED tableVars
    BY <1>4, <2>1, QuietSafe DEF AcquireFailed
  <2>2. CASE ~Fenced(key[i]) /\ Upsert(i, cur[p].waited)
    BY <1>4, <1>r, <2>2, UpsertSafe DEF AcquireFailed
  <2>. QED  BY <1>4, <2>1, <2>2 DEF AcquireFailed
<1>5. CASE ReleaseLock(p)
  BY <1>5, <1>r, DeleteRowSafe DEF ReleaseLock
<1>6. CASE ReleaseFailed(p)
  <2>1. CASE UNCHANGED row
    BY <1>6, <2>1, QuietSafe DEF ReleaseFailed
  <2>2. CASE ~Fenced(key[i]) /\ DeleteRow(i)
    BY <1>6, <1>r, <2>2, DeleteRowSafe DEF ReleaseFailed
  <2>. QED  BY <1>6, <2>1, <2>2 DEF ReleaseFailed
<1>7. CASE KeepLockAlive(p)
  BY <1>7, <1>t, <1>r, RefreshQuiet, QuietSafe DEF KeepLockAlive
<1>8. CASE KeepLockAliveLost(p)
  BY <1>8, QuietSafe DEF KeepLockAliveLost
<1>9. CASE KeepLockAliveFailed(p)
  <2>1. \A k \in Keys : row'[k].owner = row[k].owner
    BY <1>9, <1>t, <1>r, RefreshQuiet DEF KeepLockAliveFailed
  <2>. QED  BY <1>9, <2>1, QuietSafe DEF KeepLockAliveFailed
<1>. QED
  BY <1>1, <1>2, <1>3, <1>4, <1>5, <1>6, <1>7, <1>8, <1>9 DEF ManagerStep

LEMMA IInvInit == Init => IInv
BY TypeInit, ConstantsAssumption
   DEF Init, IInv, FenceHoldsRow, OwnerTerm, WrittenBound, NoRow

LEMMA IInvStep == IInv /\ [Next]_vars => IInv'
<1>. SUFFICES ASSUME IInv, [Next]_vars PROVE IInv'
  OBVIOUS
<1>1. TypeOK'  BY TypeStep DEF IInv
<1>2. CASE UNCHANGED vars
  BY <1>1, <1>2, QuietSafe DEF IInv, vars
<1>3. CASE Tick
  BY <1>1, <1>3, TickQuiet, QuietSafe DEF IInv, Tick, callerVars, ghostVars
<1>4. ASSUME NEW p \in Procs, Crash(p) PROVE IInv'
  BY <1>1, <1>4, QuietSafe DEF IInv, Crash, tableVars, callerVars, ghostVars
<1>5. ASSUME NEW p \in Procs, ManagerStep(p) PROVE IInv'
  BY <1>1, <1>5, SafeManager DEF IInv
<1>6. ASSUME NEW i \in Ids, CallerStep(i) \/ LoopStep(i) PROVE IInv'
  BY <1>1, <1>6, SafeCaller DEF IInv
<1>. QED  BY <1>2, <1>3, <1>4, <1>5, <1>6 DEF Next

LEMMA IInvInvariant == Spec => []IInv
BY IInvInit, IInvStep, PTL DEF Spec

\* While a transaction fenced by fence_transaction is open, the lock's row
\* names its worker, whatever expiries, takeovers, drops and crashes happen.
THEOREM FenceSafety == Spec => []FenceHoldsRow
BY IInvInvariant, PTL DEF IInv

-----------------------------------------------------------------------------
(* Steps of the work lock as steps of the fenced lease.                    *)

LEMMA CommitIsWrite ==
    ASSUME IInv, NEW i \in Ids, CommitFenced(i)
    PROVE  /\ row[key[i]].owner = i /\ i # NoId /\ key[i] \in Keys
           /\ written' = [written EXCEPT ![key[i]] = term[key[i]]]
<1>1. row[key[i]].owner = i /\ i # NoId /\ key[i] \in Keys
  BY ConstantsAssumption DEF IInv, FenceHoldsRow, CommitFenced, TypeOK
<1>2. termOf[i] = term[key[i]]  BY <1>1 DEF IInv, OwnerTerm
<1>. QED  BY <1>1, <1>2 DEF CommitFenced

\* Only the commit of a fenced transaction changes what was written.
LEMMA WrittenStep ==
    ASSUME IInv, [Next]_vars
    PROVE  written' = written \/ \E i \in Ids : CommitFenced(i)
BY DEF Next, vars, ManagerStep, CallerStep, LoopStep, Tick, Crash, Dequeue,
       AcquireGranted, AcquireDenied, AcquireFailed, ReleaseLock, ReleaseFailed,
       KeepLockAlive, KeepLockAliveLost, KeepLockAliveFailed, TryAcquireLock,
       Abandon, NewWorkLock, DropWorkLock, FenceTransaction, RollbackFenced,
       LoopStop, LoopTick, LoopSend, ghostVars

\* Fenced writes commit in the order in which the lock was granted.
THEOREM FencedWriteOrder == Spec => FencedWritesInOrder
<1>1. IInv /\ [Next]_vars => [\A k \in Keys : written'[k] >= written[k]]_vars
  <2>. SUFFICES ASSUME IInv, [Next]_vars, NEW k \in Keys
                PROVE  written'[k] >= written[k]
    OBVIOUS
  <2>1. written[k] \in Nat /\ term[k] \in Nat /\ written[k] <= term[k]
    BY DEF IInv, TypeOK, WrittenBound
  <2>2. CASE written' = written  BY <2>1, <2>2
  <2>3. ASSUME NEW i \in Ids, CommitFenced(i) PROVE written'[k] >= written[k]
    <3>1. written' = [written EXCEPT ![key[i]] = term[key[i]]]
      BY <2>3, CommitIsWrite
    <3>2. written \in [Keys -> Nat]  BY DEF IInv, TypeOK
    <3>3. written'[k] = IF k = key[i] THEN term[k] ELSE written[k]
      BY <3>1, <3>2
    <3>. QED  BY <2>1, <3>3
  <2>. QED  BY <2>2, <2>3, WrittenStep
<1>. QED  BY <1>1, IInvInvariant, PTL DEF Spec, FencedWritesInOrder

LEMMA QuietIsStutter ==
    ASSUME \A k \in Keys : row'[k].owner = row[k].owner, UNCHANGED <<term, written>>
    PROVE  UNCHANGED Lease!vars
BY DEF Lease!vars

LEMMA UpsertIsGrant ==
    ASSUME IInv, NEW i \in Ids, NEW w \in 0..MaxAge, Upsert(i, w), UNCHANGED written
    PROVE  Lease!Next
<1>1. key[i] \in Keys  BY DEF IInv, TypeOK
<1>2. Lease!Grant(key[i], i)
  BY <1>1 DEF IInv, TypeOK, Upsert, Lease!Grant
<1>. QED  BY <1>1, <1>2 DEF Lease!Next

LEMMA DeleteRowIsRelease ==
    ASSUME IInv, NEW i \in Ids, DeleteRow(i), UNCHANGED <<term, written>>
    PROVE  [Lease!Next]_(Lease!vars)
<1>1. key[i] \in Keys /\ i # NoId  BY ConstantsAssumption DEF IInv, TypeOK
<1>2. CASE row[key[i]].owner = i
  <2>1. PICK k \in Keys : k = key[i]  BY <1>1
  <2>2. Lease!Release(k)
    BY <1>1, <1>2, <2>1 DEF IInv, TypeOK, DeleteRow, NoRow, Lease!Release
  <2>. QED  BY <2>2 DEF Lease!Next
<1>3. CASE row[key[i]].owner # i
  <2>1. \A k \in Keys : row'[k].owner = row[k].owner
    BY <1>3 DEF IInv, TypeOK, DeleteRow
  <2>2. UNCHANGED Lease!vars  BY <2>1, QuietIsStutter
  <2>. QED  BY <2>2
<1>. QED  BY <1>2, <1>3

LEMMA ManagerRefines ==
    ASSUME IInv, NEW p \in Procs, ManagerStep(p)
    PROVE  [Lease!Next]_(Lease!vars)
<1>. DEFINE i == cur[p].id
<1>. USE DEF tableVars, callerVars, ghostVars
<1>t. TypeOK  BY DEF IInv
<1>r. cur[p].op # "Idle" => i \in Ids /\ cur[p].waited \in 0..MaxAge
  BY <1>t, RunningFacts
<1>1. CASE Dequeue(p) \/ AcquireDenied(p) \/ KeepLockAliveLost(p)
  BY <1>1, QuietIsStutter DEF Dequeue, AcquireDenied, KeepLockAliveLost
<1>2. CASE AcquireGranted(p)
  BY <1>2, <1>r, UpsertIsGrant DEF AcquireGranted
<1>3. CASE AcquireFailed(p)
  BY <1>3, <1>r, UpsertIsGrant, QuietIsStutter DEF AcquireFailed
<1>4. CASE ReleaseLock(p)
  BY <1>4, <1>r, DeleteRowIsRelease DEF ReleaseLock
<1>5. CASE ReleaseFailed(p)
  BY <1>5, <1>r, DeleteRowIsRelease, QuietIsStutter DEF ReleaseFailed
<1>6. CASE KeepLockAlive(p)
  BY <1>6, <1>t, <1>r, RefreshQuiet, QuietIsStutter DEF KeepLockAlive
<1>7. CASE KeepLockAliveFailed(p)
  BY <1>7, <1>t, <1>r, RefreshQuiet, QuietIsStutter DEF KeepLockAliveFailed
<1>. QED
  BY <1>1, <1>2, <1>3, <1>4, <1>5, <1>6, <1>7 DEF ManagerStep

LEMMA CallerRefines ==
    ASSUME IInv, NEW i \in Ids, CallerStep(i) \/ LoopStep(i)
    PROVE  [Lease!Next]_(Lease!vars)
<1>. USE DEF tableVars, callerVars, ghostVars
<1>1. CASE CommitFenced(i)
  <2>1. PICK k \in Keys : k = key[i]  BY <1>1, CommitIsWrite
  <2>2. Lease!Write(k)
    BY <1>1, <2>1, CommitIsWrite DEF CommitFenced, Lease!Write
  <2>. QED  BY <2>2 DEF Lease!Next
<1>2. CASE ~CommitFenced(i)
  BY <1>2, QuietIsStutter
     DEF CallerStep, LoopStep, TryAcquireLock, Abandon, NewWorkLock, DropWorkLock,
         FenceTransaction, RollbackFenced, LoopStop, LoopTick, LoopSend
<1>. QED  BY <1>1, <1>2

\* The work lock implements the fenced lease: whatever managers, keepalive
\* loops, expiries and crashes do, only the present holder's writes commit.
THEOREM Refinement == Spec => ImplementsFencedLease
<1>1. Init => Lease!Init
  BY DEF Init, NoRow, Lease!Init
<1>2. IInv /\ [Next]_vars => [Lease!Next]_(Lease!vars)
  <2>. SUFFICES ASSUME IInv, [Next]_vars PROVE [Lease!Next]_(Lease!vars)
    OBVIOUS
  <2>1. CASE UNCHANGED vars  BY <2>1, QuietIsStutter DEF vars
  <2>2. CASE Tick
    BY <2>2, TickQuiet, QuietIsStutter DEF IInv, Tick, ghostVars
  <2>3. ASSUME NEW p \in Procs, Crash(p) PROVE [Lease!Next]_(Lease!vars)
    BY <2>3, QuietIsStutter DEF Crash, tableVars, ghostVars
  <2>. QED  BY <2>1, <2>2, <2>3, ManagerRefines, CallerRefines DEF Next
<1>. QED
  BY <1>1, <1>2, IInvInvariant, PTL DEF Spec, ImplementsFencedLease, Lease!Spec

-----------------------------------------------------------------------------
(* The order of commands.  A manager's line is the command that it executes *)
(* and those that are queued behind it.                                     *)

Line(p) == 0..Len(queue[p])
At(p, n) == IF n = 0 THEN cur[p] ELSE queue[p][n]
IsAcquire(c, i) == c.op = "Acquire" /\ c.id = i

\* An attempt's commands go to the manager of its process.
HomeLine ==
    \A p \in Procs : \A n \in Line(p) : At(p, n).op # "Idle" => home[At(p, n).id] = p

\* An attempt stands in line with one acquire, and the caller has no lock yet.
AcquireOnce ==
    \A p \in Procs, i \in Ids : \A n \in Line(p) : IsAcquire(At(p, n), i) =>
        /\ phase[i] \in {"requested", "closed"}
        /\ \A m \in Line(p) : IsAcquire(At(p, m), i) => m = n

\* What an attempt has seen dropped is of its process and stays dropped.
SeenDropped ==
    \A i \in Ids : \A d \in seen[i] :
        d \in Ids /\ home[d] = home[i] /\ phase[d] \in {"dropped", "closed"}

\* The release of a dropped lock that is still in the table is in line,
DropInLine ==
    \A p \in Procs, d \in Ids :
        home[d] = p /\ phase[d] = "dropped" /\ row[key[d]].owner = d =>
            \E m \in Line(p) : IsRelease(At(p, m), d)

\* and ahead of every acquire that was called after the drop.
ReleaseAhead ==
    \A p \in Procs, i \in Ids : \A n \in Line(p) : IsAcquire(At(p, n), i) =>
        \A d \in seen[i] : phase[d] = "dropped" /\ row[key[d]].owner = d =>
            \E m \in Line(p) : m < n /\ IsRelease(At(p, m), d)

FifoInv == HomeLine /\ AcquireOnce /\ SeenDropped /\ DropInLine /\ ReleaseAhead

LEMMA FifoInit == Init => FifoInv
<1>. SUFFICES ASSUME Init PROVE FifoInv
  OBVIOUS
<1>1. \A p \in Procs : Line(p) = {0} /\ At(p, 0) = Idle
  BY DEF Init, Line, At
<1>2. \A i \in Ids : phase[i] = "unused" /\ seen[i] = {}
  BY DEF Init
<1>. QED
  BY <1>1, <1>2 DEF FifoInv, HomeLine, AcquireOnce, SeenDropped, DropInLine, ReleaseAhead,
                    Idle, IsAcquire, IsRelease

\* A step that sends nothing and takes nothing from a queue; it may finish
\* commands.
LEMMA NothingSent ==
    ASSUME TypeOK, FifoInv, UNCHANGED <<queue, key, home, seen>>,
           \A p \in Procs : \/ cur'[p].op = cur[p].op /\ cur'[p].id = cur[p].id
                            \/ cur'[p] = Idle,
           \A i \in Ids :
              /\ phase'[i] = "dropped" => phase[i] = "dropped"
              /\ phase[i] \in {"dropped", "closed"} => phase'[i] \in {"dropped", "closed"}
              /\ phase[i] \in {"requested", "closed"} =>
                    \/ phase'[i] \in {"requested", "closed"}
                    \/ IsAcquire(cur[home[i]], i) /\ cur'[home[i]] = Idle
              /\ phase'[i] = "dropped" /\ row'[key[i]].owner = i =>
                    /\ row[key[i]].owner = i
                    /\ IsRelease(cur[home[i]], i) => cur'[home[i]] # Idle
    PROVE  FifoInv'
<1>1. \A p \in Procs : Line(p)' = Line(p)  BY DEF Line
<1>2. \A p \in Procs : \A n \in Line(p) :
         \/ At(p, n)'.op = At(p, n).op /\ At(p, n)'.id = At(p, n).id
         \/ n = 0 /\ cur'[p] = Idle /\ At(p, n)'.op = "Idle"
  BY DEF At, Idle
<1>3. HomeLine'
  BY <1>1, <1>2 DEF FifoInv, HomeLine
<1>4. \A p \in Procs, i \in Ids : \A n \in Line(p) :
         /\ IsAcquire(At(p, n)', i) => IsAcquire(At(p, n), i)
         /\ IsRelease(At(p, n), i) => IsRelease(At(p, n)', i) \/ (n = 0 /\ cur'[p] = Idle)
  BY <1>2 DEF IsAcquire, IsRelease
<1>5. AcquireOnce'
  <2>. SUFFICES ASSUME NEW p \in Procs, NEW i \in Ids, NEW n \in Line(p), IsAcquire(At(p, n)', i)
                PROVE  /\ phase'[i] \in {"requested", "closed"}
                       /\ \A m \in Line(p) : IsAcquire(At(p, m)', i) => m = n
    BY <1>1 DEF AcquireOnce
  <2>1. IsAcquire(At(p, n), i)  BY <1>4
  <2>2. /\ phase[i] \in {"requested", "closed"}
        /\ \A m \in Line(p) : IsAcquire(At(p, m), i) => m = n
    BY <2>1 DEF FifoInv, AcquireOnce
  <2>3. home[i] = p  BY <2>1 DEF FifoInv, HomeLine, IsAcquire
  <2>4. ASSUME IsAcquire(cur[p], i), cur'[p] = Idle PROVE FALSE
    <3>1. 0 \in Line(p) /\ At(p, 0) = cur[p] /\ At(p, 0)' = cur'[p]
      BY DEF Line, At, TypeOK
    <3>2. n = 0  BY <2>2, <2>4, <3>1
    <3>. QED  BY <2>4, <3>1, <3>2 DEF IsAcquire, Idle
  <2>. QED  BY <1>4, <2>2, <2>3, <2>4
<1>6. SeenDropped'
  BY DEF FifoInv, SeenDropped
<1>7. DropInLine'
  <2>. SUFFICES ASSUME NEW p \in Procs, NEW d \in Ids, home[d] = p, phase'[d] = "dropped",
                       row'[key[d]].owner = d
                PROVE  \E m \in Line(p) : IsRelease(At(p, m)', d)
    BY <1>1 DEF DropInLine
  <2>1. phase[d] = "dropped" /\ row[key[d]].owner = d
        /\ (IsRelease(cur[p], d) => cur'[p] # Idle)
    OBVIOUS
  <2>2. PICK m \in Line(p) : IsRelease(At(p, m), d)
    BY <2>1 DEF FifoInv, DropInLine
  <2>. QED  BY <1>4, <2>1, <2>2 DEF At
<1>8. ReleaseAhead'
  <2>. SUFFICES ASSUME NEW p \in Procs, NEW i \in Ids, NEW n \in Line(p), IsAcquire(At(p, n)', i),
                       NEW d \in seen[i], phase'[d] = "dropped", row'[key[d]].owner = d
                PROVE  \E m \in Line(p) : m < n /\ IsRelease(At(p, m)', d)
    BY <1>1 DEF ReleaseAhead
  <2>1. IsAcquire(At(p, n), i) /\ home[i] = p  BY <1>4 DEF FifoInv, HomeLine, IsAcquire
  <2>2. d \in Ids /\ home[d] = p  BY <2>1 DEF FifoInv, SeenDropped
  <2>3. phase[d] = "dropped" /\ row[key[d]].owner = d
        /\ (IsRelease(cur[p], d) => cur'[p] # Idle)
    BY <2>2
  <2>4. PICK m \in Line(p) : m < n /\ IsRelease(At(p, m), d)
    BY <2>1, <2>3 DEF FifoInv, ReleaseAhead
  <2>. QED  BY <1>4, <2>2, <2>3, <2>4 DEF At
<1>. QED  BY <1>3, <1>5, <1>6, <1>7, <1>8 DEF FifoInv

\* A command that is sent stands at the end of its line.
LEMMA SendLine ==
    ASSUME TypeOK, NEW p \in Procs, NEW op \in Ops, NEW i \in Ids, Send(p, op, i), UNCHANGED cur
    PROVE  \E l \in Nat :
              /\ \A q \in Procs : q # p => Line(q)' = Line(q)
              /\ Line(p)' = Line(p) \cup {l} /\ \A n \in Line(p) : n < l
              /\ \A q \in Procs : \A n \in Line(q) : At(q, n)' = At(q, n)
              /\ At(p, l)' = [op |-> op, id |-> i]
<1>1. queue \in [Procs -> Seq(Command)] /\ queue[p] \in Seq(Command)  BY DEF TypeOK
<1>. DEFINE c == [op |-> op, id |-> i]
            l == Len(queue[p]) + 1
<1>2. c \in Command  BY DEF Command
<1>3. queue'[p] = Append(queue[p], c) /\ \A q \in Procs : q # p => queue'[q] = queue[q]
  BY <1>1 DEF Send
<1>. HIDE DEF c
<1>4. /\ Len(queue[p]) \in Nat /\ Len(queue'[p]) = Len(queue[p]) + 1
      /\ \A n \in 1..Len(queue[p]) : queue'[p][n] = queue[p][n]
      /\ queue'[p][Len(queue[p]) + 1] = c
  BY <1>1, <1>2, <1>3
<1>5. \A q \in Procs : q # p => Line(q)' = Line(q)
  BY <1>3 DEF Line
<1>6. l \in Nat /\ Line(p)' = Line(p) \cup {l} /\ \A n \in Line(p) : n < l
  BY <1>4 DEF Line
<1>7. ASSUME NEW q \in Procs, NEW n \in Line(q) PROVE At(q, n)' = At(q, n)
  <2>1. CASE q # p  BY <1>3, <2>1 DEF At
  <2>2. CASE q = p  BY <1>4, <2>2 DEF At, Line
  <2>. QED  BY <2>1, <2>2
<1>8. ASSUME NEW k \in Nat, k = l PROVE At(p, k)' = c
  BY <1>4, <1>8 DEF At
<1>9. PICK k \in Nat : k = l  BY <1>6
<1>. HIDE DEF l
<1>10. /\ Line(p)' = Line(p) \cup {k} /\ \A n \in Line(p) : n < k
       /\ At(p, k)' = c
  BY <1>6, <1>8, <1>9
<1>. QED  BY <1>5, <1>7, <1>10 DEF c

LEMMA FifoTryAcquire ==
    ASSUME TypeOK, FifoInv, NEW i \in Ids, TryAcquireLock(i)
    PROVE  FifoInv'
<1>. USE DEF tableVars, callerVars
<1>0. PICK p \in Procs : p = home[i]  BY DEF TypeOK
<1>1. /\ phase[i] = "unused" /\ Send(p, "Acquire", i)
      /\ UNCHANGED <<row, key, home, cur>>
      /\ phase'[i] = "requested" /\ \A j \in Ids : j # i => phase'[j] = phase[j]
      /\ seen'[i] = {d \in Ids : home[d] = p /\ phase[d] = "dropped"}
      /\ \A j \in Ids : j # i => seen'[j] = seen[j]
  BY <1>0 DEF TryAcquireLock, TypeOK
<1>2. PICK l \in Nat :
         /\ \A q \in Procs : q # p => Line(q)' = Line(q)
         /\ Line(p)' = Line(p) \cup {l} /\ \A n \in Line(p) : n < l
         /\ \A q \in Procs : \A n \in Line(q) : At(q, n)' = At(q, n)
         /\ At(p, l)' = [op |-> "Acquire", id |-> i]
  BY <1>1, SendLine DEF Ops
<1>3. \A q \in Procs : \A n \in Line(q) : ~IsAcquire(At(q, n), i)
  BY <1>1 DEF FifoInv, AcquireOnce
<1>4. \A q \in Procs : \A n \in Line(q)' :
         (n \in Line(q) /\ At(q, n)' = At(q, n)) \/ (q = p /\ n = l)
  <2>. SUFFICES ASSUME NEW q \in Procs
                PROVE  \A n \in Line(q)' : n \in Line(q) \/ (q = p /\ n = l)
    BY <1>2
  <2>1. q # p => Line(q)' = Line(q)  BY <1>2
  <2>2. q = p => Line(q)' = Line(q) \cup {l}  BY <1>2
  <2>. QED  BY <2>1, <2>2
<1>5. IsAcquire(At(p, l)', i) /\ \A j \in Ids : j # i => ~IsAcquire(At(p, l)', j)
  BY <1>2 DEF IsAcquire
<1>6. HomeLine'
  <2>. SUFFICES ASSUME NEW q \in Procs, NEW n \in Line(q)', At(q, n)'.op # "Idle"
                PROVE  home[At(q, n)'.id] = q
    BY <1>1 DEF HomeLine
  <2>1. CASE n \in Line(q) /\ At(q, n)' = At(q, n)  BY <2>1 DEF FifoInv, HomeLine
  <2>2. CASE q = p /\ n = l  BY <1>0, <1>2, <2>2
  <2>. QED  BY <1>4, <2>1, <2>2
<1>7. AcquireOnce'
  <2>. SUFFICES ASSUME NEW q \in Procs, NEW j \in Ids, NEW n \in Line(q)', IsAcquire(At(q, n)', j)
                PROVE  /\ phase'[j] \in {"requested", "closed"}
                       /\ \A m \in Line(q)' : IsAcquire(At(q, m)', j) => m = n
    BY DEF AcquireOnce
  <2>1. CASE j = i
    <3>1. \A m \in Line(q)' : IsAcquire(At(q, m)', i) => m = l
      BY <1>3, <1>4
    <3>. QED  BY <1>1, <2>1, <3>1
  <2>2. CASE j # i
    <3>1. \A m \in Line(q)' : IsAcquire(At(q, m)', j) =>
             m \in Line(q) /\ IsAcquire(At(q, m), j)
      BY <1>4, <1>5, <2>2
    <3>. QED  BY <1>1, <2>2, <3>1 DEF FifoInv, AcquireOnce
  <2>. QED  BY <2>1, <2>2
<1>8. SeenDropped'
  <2>. SUFFICES ASSUME NEW j \in Ids, NEW d \in seen'[j]
                PROVE  d \in Ids /\ home[d] = home[j] /\ phase'[d] \in {"dropped", "closed"}
    BY <1>1 DEF SeenDropped
  <2>1. d \in Ids /\ home[d] = home[j] /\ phase[d] \in {"dropped", "closed"}
    BY <1>0, <1>1 DEF FifoInv, SeenDropped
  <2>. QED  BY <1>1, <2>1
<1>9. DropInLine'
  <2>. SUFFICES ASSUME NEW q \in Procs, NEW d \in Ids, home[d] = q, phase'[d] = "dropped",
                       row[key[d]].owner = d
                PROVE  \E m \in Line(q)' : IsRelease(At(q, m)', d)
    BY <1>1 DEF DropInLine
  <2>1. PICK m \in Line(q) : IsRelease(At(q, m), d)
    BY <1>1 DEF FifoInv, DropInLine
  <2>. QED  BY <1>2, <2>1
<1>10. ReleaseAhead'
  <2>. SUFFICES ASSUME NEW q \in Procs, NEW j \in Ids, NEW n \in Line(q)', IsAcquire(At(q, n)', j),
                       NEW d \in seen'[j], phase'[d] = "dropped", row[key[d]].owner = d
                PROVE  \E m \in Line(q)' : m < n /\ IsRelease(At(q, m)', d)
    BY <1>1 DEF ReleaseAhead
  <2>1. CASE j = i
    <3>1. q = p /\ n = l  BY <1>3, <1>4, <2>1
    <3>2. d \in Ids /\ home[d] = p /\ phase[d] = "dropped"  BY <1>1, <2>1
    <3>3. PICK m \in Line(p) : IsRelease(At(p, m), d)
      BY <3>2 DEF FifoInv, DropInLine
    <3>. QED  BY <1>2, <3>1, <3>3
  <2>2. CASE j # i
    <3>1. n \in Line(q) /\ IsAcquire(At(q, n), j)
      BY <1>4, <1>5, <2>2
    <3>2. d \in seen[j] /\ d \in Ids  BY <1>1, <2>2 DEF FifoInv, SeenDropped
    <3>3. phase[d] = "dropped"  BY <1>1, <3>2
    <3>4. PICK m \in Line(q) : m < n /\ IsRelease(At(q, m), d)
      BY <3>1, <3>2, <3>3 DEF FifoInv, ReleaseAhead
    <3>. QED  BY <1>2, <3>4
  <2>. QED  BY <2>1, <2>2
<1>. QED  BY <1>6, <1>7, <1>8, <1>9, <1>10 DEF FifoInv

\* Releases and keepalives are sent; a release only when its lock is dropped.
LEMMA FifoSend ==
    ASSUME TypeOK, FifoInv, NEW i \in Ids, NEW op \in {"Release", "Keepalive"},
           Send(home[i], op, i), UNCHANGED <<row, key, home, cur, seen>>,
           \A j \in Ids : j # i => phase'[j] = phase[j],
           \/ phase'[i] = phase[i]
           \/ op = "Release" /\ phase[i] = "held" /\ phase'[i] = "dropped"
    PROVE  FifoInv'
<1>0. PICK p \in Procs : p = home[i]  BY DEF TypeOK
<1>1. PICK l \in Nat :
         /\ \A q \in Procs : q # p => Line(q)' = Line(q)
         /\ Line(p)' = Line(p) \cup {l} /\ \A n \in Line(p) : n < l
         /\ \A q \in Procs : \A n \in Line(q) : At(q, n)' = At(q, n)
         /\ At(p, l)' = [op |-> op, id |-> i]
  BY <1>0, SendLine DEF Ops
<1>2. \A q \in Procs : \A n \in Line(q)' :
         (n \in Line(q) /\ At(q, n)' = At(q, n)) \/ (q = p /\ n = l)
  <2>. SUFFICES ASSUME NEW q \in Procs
                PROVE  \A n \in Line(q)' : n \in Line(q) \/ (q = p /\ n = l)
    BY <1>1
  <2>1. q # p => Line(q)' = Line(q)  BY <1>1
  <2>2. q = p => Line(q)' = Line(q) \cup {l}  BY <1>1
  <2>. QED  BY <2>1, <2>2
<1>3. \A q \in Procs, j \in Ids : \A n \in Line(q)' :
         IsAcquire(At(q, n)', j) => n \in Line(q) /\ IsAcquire(At(q, n), j)
  BY <1>1, <1>2 DEF IsAcquire
<1>4. HomeLine'
  <2>. SUFFICES ASSUME NEW q \in Procs, NEW n \in Line(q)', At(q, n)'.op # "Idle"
                PROVE  home[At(q, n)'.id] = q
    BY DEF HomeLine
  <2>1. CASE n \in Line(q) /\ At(q, n)' = At(q, n)  BY <2>1 DEF FifoInv, HomeLine
  <2>2. CASE q = p /\ n = l  BY <1>0, <1>1, <2>2
  <2>. QED  BY <1>2, <2>1, <2>2
<1>5. AcquireOnce'
  <2>. SUFFICES ASSUME NEW q \in Procs, NEW j \in Ids, NEW n \in Line(q)', IsAcquire(At(q, n)', j)
                PROVE  /\ phase'[j] \in {"requested", "closed"}
                       /\ \A m \in Line(q)' : IsAcquire(At(q, m)', j) => m = n
    BY DEF AcquireOnce
  <2>1. /\ phase[j] \in {"requested", "closed"}
        /\ \A m \in Line(q) : IsAcquire(At(q, m), j) => m = n
    BY <1>3 DEF FifoInv, AcquireOnce
  <2>. QED  BY <1>3, <2>1
<1>6. SeenDropped'
  BY DEF FifoInv, SeenDropped
<1>7. DropInLine'
  <2>. SUFFICES ASSUME NEW q \in Procs, NEW d \in Ids, home[d] = q, phase'[d] = "dropped",
                       row[key[d]].owner = d
                PROVE  \E m \in Line(q)' : IsRelease(At(q, m)', d)
    BY DEF DropInLine
  <2>1. CASE phase[d] = "dropped"
    <3>1. PICK m \in Line(q) : IsRelease(At(q, m), d)
      BY <2>1 DEF FifoInv, DropInLine
    <3>. QED  BY <1>1, <3>1
  <2>2. CASE phase[d] # "dropped"
    <3>1. d = i /\ op = "Release" /\ q = p  BY <1>0, <2>2
    <3>. QED  BY <1>1, <3>1 DEF IsRelease
  <2>. QED  BY <2>1, <2>2
<1>8. ReleaseAhead'
  <2>. SUFFICES ASSUME NEW q \in Procs, NEW j \in Ids, NEW n \in Line(q)', IsAcquire(At(q, n)', j),
                       NEW d \in seen[j], phase'[d] = "dropped", row[key[d]].owner = d
                PROVE  \E m \in Line(q)' : m < n /\ IsRelease(At(q, m)', d)
    BY DEF ReleaseAhead
  <2>1. n \in Line(q) /\ IsAcquire(At(q, n), j)  BY <1>3
  <2>2. d \in Ids /\ phase[d] = "dropped"
    BY DEF FifoInv, SeenDropped
  <2>3. PICK m \in Line(q) : m < n /\ IsRelease(At(q, m), d)
    BY <2>1, <2>2 DEF FifoInv, ReleaseAhead
  <2>. QED  BY <1>1, <2>3
<1>. QED  BY <1>4, <1>5, <1>6, <1>7, <1>8 DEF FifoInv

\* The first of the queue moves to the front; an acquire that nobody waits for
\* is left out.
LEMMA FifoDequeue ==
    ASSUME TypeOK, FifoInv, NEW p \in Procs, Dequeue(p)
    PROVE  FifoInv'
<1>. USE DEF tableVars, callerVars, ghostVars
<1>1. queue[p] \in Seq(Command) /\ queue[p] # <<>> /\ cur[p].op = "Idle"
  BY DEF TypeOK, Dequeue
<1>2. UNCHANGED <<row, key, home, phase, seen>>  BY DEF Dequeue
<1>3. queue'[p] = Tail(queue[p])
      /\ \A q \in Procs : q # p => queue'[q] = queue[q] /\ cur'[q] = cur[q]
  BY DEF TypeOK, Dequeue
<1>4. /\ Len(queue[p]) \in Nat \ {0} /\ Len(Tail(queue[p])) = Len(queue[p]) - 1
      /\ \A n \in 1..(Len(queue[p]) - 1) : Tail(queue[p])[n] = queue[p][n + 1]
      /\ Head(queue[p]) = queue[p][1]
  BY <1>1
<1>5. \/ cur'[p].op = queue[p][1].op /\ cur'[p].id = queue[p][1].id
      \/ cur'[p] = Idle /\ queue[p][1].op = "Acquire"
  <2>. DEFINE c == Head(queue[p])
  <2>1. cur' = [cur EXCEPT ![p] = IF c.op = "Acquire" /\ phase[c.id] = "closed" THEN Idle
                                   ELSE [op |-> c.op, id |-> c.id, waited |-> 0]]
    BY DEF Dequeue
  <2>. HIDE DEF c
  <2>2. CASE c.op = "Acquire" /\ phase[c.id] = "closed"
    <3>1. cur'[p] = Idle  BY <2>1, <2>2 DEF TypeOK
    <3>. QED  BY <1>4, <2>2, <3>1 DEF c
  <2>3. CASE ~(c.op = "Acquire" /\ phase[c.id] = "closed")
    <3>1. cur'[p] = [op |-> c.op, id |-> c.id, waited |-> 0]  BY <2>1, <2>3 DEF TypeOK
    <3>2. cur'[p].op = c.op /\ cur'[p].id = c.id  BY <3>1
    <3>. QED  BY <1>4, <3>2 DEF c
  <2>. QED  BY <2>2, <2>3
<1>6. ASSUME NEW q \in Procs, NEW n \in Line(q)'
      PROVE  \E m \in Line(q) :
                /\ \/ At(q, n)'.op = At(q, m).op /\ At(q, n)'.id = At(q, m).id
                   \/ At(q, n)'.op = "Idle"
                /\ m = IF q = p THEN n + 1 ELSE n
  <2>1. CASE q # p
    <3>1. n \in Line(q) /\ At(q, n)' = At(q, n)  BY <1>3, <2>1 DEF Line, At
    <3>. QED  BY <2>1, <3>1
  <2>2. CASE q = p
    <3>1. n \in 0..(Len(queue[p]) - 1)  BY <1>3, <1>4, <2>2 DEF Line
    <3>2. n + 1 \in Line(p) /\ At(p, n + 1) = queue[p][n + 1]
      BY <1>4, <3>1 DEF Line, At
    <3>3. CASE n = 0
      <4>1. At(p, n)' = cur'[p] /\ At(p, n + 1) = queue[p][1]  BY <3>2, <3>3 DEF At
      <4>. QED  BY <1>5, <2>2, <3>2, <4>1 DEF Idle
    <3>4. CASE n # 0
      <4>1. At(p, n)' = queue[p][n + 1]  BY <1>3, <1>4, <3>1, <3>4 DEF At
      <4>. QED  BY <2>2, <3>2, <4>1
    <3>. QED  BY <3>3, <3>4
  <2>. QED  BY <2>1, <2>2
<1>7. ASSUME NEW q \in Procs, NEW d \in Ids, NEW m \in Line(q), IsRelease(At(q, m), d)
      PROVE  \E n \in Line(q)' : /\ IsRelease(At(q, n)', d)
                                 /\ m = IF q = p THEN n + 1 ELSE n
  <2>1. CASE q # p
    <3>1. m \in Line(q)' /\ At(q, m)' = At(q, m)  BY <1>3, <2>1 DEF Line, At
    <3>. QED  BY <1>7, <2>1, <3>1
  <2>2. CASE q = p
    <3>1. m \in 1..Len(queue[p]) /\ At(p, m) = queue[p][m]
      BY <1>1, <1>4, <1>7, <2>2 DEF Line, At, IsRelease
    <3>2. PICK n \in Nat : n = m - 1  BY <1>4, <3>1
    <3>3. n \in Line(p)' /\ n + 1 = m  BY <1>3, <1>4, <3>1, <3>2 DEF Line
    <3>4. CASE n = 0
      <4>1. At(p, n)' = cur'[p]  BY <3>4 DEF At
      <4>2. queue[p][1].op = "Release"  BY <1>7, <2>2, <3>1, <3>3, <3>4 DEF IsRelease
      <4>. QED  BY <1>5, <1>7, <2>2, <3>1, <3>3, <3>4, <4>1, <4>2 DEF IsRelease
    <3>5. CASE n # 0
      <4>1. At(p, n)' = queue[p][n + 1]  BY <1>3, <1>4, <3>1, <3>2, <3>5 DEF At
      <4>. QED  BY <1>7, <2>2, <3>1, <3>3, <4>1
    <3>. QED  BY <3>4, <3>5
  <2>. QED  BY <2>1, <2>2
<1>8. \A q \in Procs, i \in Ids : \A n \in Line(q)' : IsAcquire(At(q, n)', i) =>
         \E m \in Line(q) : IsAcquire(At(q, m), i) /\ m = IF q = p THEN n + 1 ELSE n
  BY <1>6 DEF IsAcquire
<1>9. \A q \in Procs : Line(q) \subseteq Nat /\ Line(q)' \subseteq Nat
  BY DEF Line
<1>10. HomeLine'
  <2>. SUFFICES ASSUME NEW q \in Procs, NEW n \in Line(q)', At(q, n)'.op # "Idle"
                PROVE  home[At(q, n)'.id] = q
    BY <1>2 DEF HomeLine
  <2>1. PICK m \in Line(q) : At(q, n)'.op = At(q, m).op /\ At(q, n)'.id = At(q, m).id
    BY <1>6
  <2>. QED  BY <2>1 DEF FifoInv, HomeLine
<1>11. AcquireOnce'
  <2>. SUFFICES ASSUME NEW q \in Procs, NEW i \in Ids, NEW n \in Line(q)', IsAcquire(At(q, n)', i)
                PROVE  /\ phase[i] \in {"requested", "closed"}
                       /\ \A m \in Line(q)' : IsAcquire(At(q, m)', i) => m = n
    BY <1>2 DEF AcquireOnce
  <2>1. PICK x \in Line(q) : IsAcquire(At(q, x), i) /\ x = IF q = p THEN n + 1 ELSE n
    BY <1>8
  <2>2. ASSUME NEW m \in Line(q)', IsAcquire(At(q, m)', i) PROVE m = n
    <3>1. PICK y \in Line(q) : IsAcquire(At(q, y), i) /\ y = IF q = p THEN m + 1 ELSE m
      BY <1>8, <2>2
    <3>2. y = x  BY <2>1, <3>1 DEF FifoInv, AcquireOnce
    <3>. QED  BY <1>9, <2>1, <3>1, <3>2
  <2>. QED  BY <2>1, <2>2 DEF FifoInv, AcquireOnce
<1>12. SeenDropped'
  BY <1>2 DEF FifoInv, SeenDropped
<1>13. DropInLine'
  <2>. SUFFICES ASSUME NEW q \in Procs, NEW d \in Ids, home[d] = q, phase[d] = "dropped",
                       row[key[d]].owner = d
                PROVE  \E m \in Line(q)' : IsRelease(At(q, m)', d)
    BY <1>2 DEF DropInLine
  <2>1. PICK m \in Line(q) : IsRelease(At(q, m), d)
    BY DEF FifoInv, DropInLine
  <2>. QED  BY <1>7, <2>1
<1>14. ReleaseAhead'
  <2>. SUFFICES ASSUME NEW q \in Procs, NEW i \in Ids, NEW n \in Line(q)', IsAcquire(At(q, n)', i),
                       NEW d \in seen[i], phase[d] = "dropped", row[key[d]].owner = d
                PROVE  \E m \in Line(q)' : m < n /\ IsRelease(At(q, m)', d)
    BY <1>2 DEF ReleaseAhead
  <2>1. PICK x \in Line(q) : IsAcquire(At(q, x), i) /\ x = IF q = p THEN n + 1 ELSE n
    BY <1>8
  <2>2. d \in Ids  BY DEF FifoInv, SeenDropped
  <2>3. PICK y \in Line(q) : y < x /\ IsRelease(At(q, y), d)
    BY <2>1 DEF FifoInv, ReleaseAhead
  <2>4. PICK m \in Line(q)' : /\ IsRelease(At(q, m)', d)
                              /\ y = IF q = p THEN m + 1 ELSE m
    BY <1>7, <2>2, <2>3
  <2>5. m < n  BY <1>9, <2>1, <2>3, <2>4
  <2>. QED  BY <2>4, <2>5
<1>. QED  BY <1>10, <1>11, <1>12, <1>13, <1>14 DEF FifoInv

\* A manager that finishes a command has executed the front of its line.
LEMMA FinishFront ==
    ASSUME TypeOK, FifoInv, NEW p \in Procs, cur[p].op # "Idle", Finish(p)
    PROVE  /\ cur[p].id \in Ids /\ home[cur[p].id] = p
           /\ cur[p].op = "Acquire" => phase[cur[p].id] \in {"requested", "closed"}
           /\ cur'[p] = Idle
           /\ \A q \in Procs : q # p => cur'[q] = cur[q]
<1>1. cur[p].id \in Ids  BY RunningFacts
<1>2. 0 \in Line(p) /\ At(p, 0) = cur[p]  BY DEF Line, At, TypeOK
<1>3. home[cur[p].id] = p  BY <1>2 DEF FifoInv, HomeLine
<1>4. cur[p].op = "Acquire" => phase[cur[p].id] \in {"requested", "closed"}
  BY <1>1, <1>2 DEF FifoInv, AcquireOnce, IsAcquire
<1>5. cur'[p] = Idle /\ \A q \in Procs : q # p => cur'[q] = cur[q]
  BY DEF Finish, TypeOK
<1>. QED  BY <1>1, <1>3, <1>4, <1>5

\* Whom the table names after each of its writes.
LEMMA RowOwners ==
    ASSUME TypeOK, NEW i \in Ids, NEW j \in Ids
    PROVE  /\ \A w : Upsert(i, w) /\ j # i /\ row'[key[j]].owner = j => row[key[j]].owner = j
           /\ DeleteRow(i) /\ row'[key[j]].owner = j => row[key[j]].owner = j /\ j # i
           /\ Refresh(i) /\ row'[key[j]].owner = j => row[key[j]].owner = j
<1>1. /\ row \in [Keys -> [owner : Ids \cup {NoId}, age : 0..MaxAge]]
      /\ key[i] \in Keys /\ key[j] \in Keys
  BY DEF TypeOK
<1>2. ASSUME NEW w, Upsert(i, w), j # i, row'[key[j]].owner = j
      PROVE  row[key[j]].owner = j
  <2>1. row' = [row EXCEPT ![key[i]] = [owner |-> i, age |-> w]]  BY <1>2 DEF Upsert
  <2>2. CASE key[j] = key[i]
    <3>1. row'[key[j]] = [owner |-> i, age |-> w]  BY <1>1, <2>1, <2>2
    <3>. QED  BY <1>2, <3>1
  <2>3. CASE key[j] # key[i]  BY <1>1, <1>2, <2>1, <2>3
  <2>. QED  BY <2>2, <2>3
<1>3. ASSUME DeleteRow(i), row'[key[j]].owner = j PROVE row[key[j]].owner = j /\ j # i
  <2>1. NoId # j  BY ConstantsAssumption
  <2>2. CASE key[j] = key[i]
    <3>1. row'[key[i]] = IF row[key[i]].owner = i THEN NoRow ELSE row[key[i]]
      BY <1>1, <1>3 DEF DeleteRow
    <3>. QED  BY <1>3, <2>1, <2>2, <3>1 DEF NoRow
  <2>3. CASE key[j] # key[i]
    <3>1. row'[key[j]] = row[key[j]]  BY <1>1, <1>3, <2>3 DEF DeleteRow
    <3>. QED  BY <1>3, <2>3, <3>1
  <2>. QED  BY <2>2, <2>3
<1>4. ASSUME Refresh(i), row'[key[j]].owner = j PROVE row[key[j]].owner = j
  BY <1>1, <1>4 DEF Refresh
<1>. QED  BY <1>2, <1>3, <1>4

LEMMA FifoAcquire ==
    ASSUME TypeOK, FifoInv, NEW p \in Procs,
           AcquireGranted(p) \/ AcquireDenied(p) \/ AcquireFailed(p)
    PROVE  FifoInv'
<1>. DEFINE i == cur[p].id
<1>1. /\ cur[p].op = "Acquire" /\ Finish(p) /\ UNCHANGED <<queue, key, home, seen>>
      /\ (row' = row \/ Upsert(i, cur[p].waited))
      /\ (Reply(i, "replied") \/ Reply(i, "closed"))
  BY DEF AcquireGranted, AcquireDenied, AcquireFailed, tableVars, callerVars, ghostVars
<1>2. /\ i \in Ids /\ home[i] = p /\ phase[i] \in {"requested", "closed"}
      /\ cur'[p] = Idle /\ \A q \in Procs : q # p => cur'[q] = cur[q]
  BY <1>1, FinishFront
<1>. HIDE DEF i
<1>3. phase'[i] \in {"replied", "closed"} /\ \A j \in Ids : j # i => phase'[j] = phase[j]
  BY <1>1, <1>2 DEF Reply, TypeOK
<1>4. \A j \in Ids : j # i /\ row'[key[j]].owner = j => row[key[j]].owner = j
  BY <1>1, <1>2, RowOwners
<1>5. IsAcquire(cur[p], i)  BY <1>1 DEF IsAcquire, i
<1>6. \A j \in Ids : IsRelease(cur[home[j]], j) => cur'[home[j]] # Idle
  <2>1. \A q \in Procs : cur[q].op = "Release" => cur'[q].op = "Release"
    BY <1>1, <1>2
  <2>. QED  BY <2>1 DEF IsRelease, Idle, TypeOK
<1>7. \A q \in Procs : (cur'[q].op = cur[q].op /\ cur'[q].id = cur[q].id) \/ cur'[q] = Idle
  BY <1>2
<1>8. \A j \in Ids :
         /\ phase'[j] = "dropped" => phase[j] = "dropped"
         /\ phase[j] \in {"dropped", "closed"} => phase'[j] \in {"dropped", "closed"}
         /\ phase[j] \in {"requested", "closed"} =>
               \/ phase'[j] \in {"requested", "closed"}
               \/ IsAcquire(cur[home[j]], j) /\ cur'[home[j]] = Idle
         /\ phase'[j] = "dropped" /\ row'[key[j]].owner = j => row[key[j]].owner = j
  <2>. TAKE j \in Ids
  <2>1. CASE j = i
    <3>1. phase[i] = "closed" => phase'[i] = "closed"  BY <1>1, <1>2 DEF Reply, TypeOK
    <3>. QED  BY <1>2, <1>3, <1>5, <2>1, <3>1
  <2>2. CASE j # i  BY <1>3, <1>4, <2>2
  <2>. QED  BY <2>1, <2>2
<1>. QED  BY <1>1, <1>6, <1>7, <1>8, NothingSent

LEMMA FifoRelease ==
    ASSUME TypeOK, FifoInv, NEW p \in Procs, ReleaseLock(p) \/ ReleaseFailed(p)
    PROVE  FifoInv'
<1>. DEFINE i == cur[p].id
<1>1. /\ cur[p].op = "Release" /\ Finish(p) /\ UNCHANGED <<queue, key, home, seen>>
      /\ (row' = row \/ DeleteRow(i))
      /\ \/ phase' = phase /\ DeleteRow(i)
         \/ phase' = [phase EXCEPT ![i] = "closed"]
  BY DEF ReleaseLock, ReleaseFailed, tableVars, callerVars, ghostVars
<1>2. /\ i \in Ids /\ home[i] = p
      /\ cur'[p] = Idle /\ \A q \in Procs : q # p => cur'[q] = cur[q]
  BY <1>1, FinishFront
<1>. HIDE DEF i
<1>3. /\ \A j \in Ids : phase'[j] = phase[j] \/ phase'[j] = "closed"
      /\ DeleteRow(i) \/ phase'[i] = "closed"
  BY <1>1, <1>2 DEF TypeOK
<1>4. /\ \A j \in Ids : row'[key[j]].owner = j => row[key[j]].owner = j
      /\ DeleteRow(i) => row'[key[i]].owner # i
  BY <1>1, <1>2, RowOwners
<1>5. \A j \in Ids : j # i /\ IsRelease(cur[home[j]], j) => cur'[home[j]] # Idle
  <2>1. \A q \in Procs : cur[q].op = "Release" /\ cur[q].id # i => cur'[q].op = "Release"
    BY <1>1, <1>2 DEF i
  <2>. QED  BY <2>1 DEF IsRelease, Idle, TypeOK
<1>. QED  BY <1>1, <1>2, <1>3, <1>4, <1>5, NothingSent

LEMMA FifoKeepalive ==
    ASSUME TypeOK, FifoInv, NEW p \in Procs,
           KeepLockAlive(p) \/ KeepLockAliveLost(p) \/ KeepLockAliveFailed(p)
    PROVE  FifoInv'
<1>1. /\ cur[p].op = "Keepalive" /\ Finish(p) /\ UNCHANGED <<queue, key, home, seen, phase>>
      /\ (row' = row \/ Refresh(cur[p].id))
  BY DEF KeepLockAlive, KeepLockAliveLost, KeepLockAliveFailed, tableVars, callerVars, ghostVars
<1>2. cur[p].id \in Ids /\ cur'[p] = Idle /\ \A q \in Procs : q # p => cur'[q] = cur[q]
  BY <1>1, FinishFront
<1>3. \A j \in Ids : row'[key[j]].owner = j => row[key[j]].owner = j
  BY <1>1, <1>2, RowOwners
<1>4. \A j \in Ids : IsRelease(cur[home[j]], j) => cur'[home[j]] # Idle
  <2>1. \A q \in Procs : cur[q].op = "Release" => cur'[q].op = "Release"
    BY <1>1, <1>2
  <2>. QED  BY <2>1 DEF IsRelease, Idle, TypeOK
<1>. QED  BY <1>1, <1>2, <1>3, <1>4, NothingSent

\* A crash empties the line and closes what its callers held.
LEMMA FifoCrash ==
    ASSUME TypeOK, FifoInv, NEW p \in Procs, Crash(p)
    PROVE  FifoInv'
<1>1. UNCHANGED <<row, key, home, seen>>
  BY DEF Crash, tableVars, callerVars, ghostVars
<1>2. /\ queue'[p] = <<>> /\ cur'[p] = Idle
      /\ \A q \in Procs : q # p => queue'[q] = queue[q] /\ cur'[q] = cur[q]
  BY DEF Crash, TypeOK
<1>3. \A i \in Ids : /\ home[i] # p => phase'[i] = phase[i]
                     /\ home[i] = p => phase'[i] \in {"unused", "closed"}
                     /\ phase[i] \in {"dropped", "closed"} => phase'[i] \in {"dropped", "closed"}
  BY DEF Crash
<1>4. \A n \in Line(p)' : At(p, n)' = Idle
  BY <1>2 DEF Line, At
<1>5. \A q \in Procs : q # p => Line(q)' = Line(q) /\ \A n : At(q, n)' = At(q, n)
  BY <1>2 DEF Line, At
<1>6. \A q \in Procs, i \in Ids : \A n \in Line(q)' : IsAcquire(At(q, n)', i) => q # p
  BY <1>4 DEF IsAcquire, Idle
<1>7. HomeLine'
  <2>. SUFFICES ASSUME NEW q \in Procs, NEW n \in Line(q)', At(q, n)'.op # "Idle"
                PROVE  home[At(q, n)'.id] = q
    BY <1>1 DEF HomeLine
  <2>1. q # p  BY <1>4 DEF Idle
  <2>. QED  BY <1>5, <2>1 DEF FifoInv, HomeLine
<1>8. AcquireOnce'
  <2>. SUFFICES ASSUME NEW q \in Procs, NEW i \in Ids, NEW n \in Line(q)', IsAcquire(At(q, n)', i)
                PROVE  /\ phase'[i] \in {"requested", "closed"}
                       /\ \A m \in Line(q)' : IsAcquire(At(q, m)', i) => m = n
    BY DEF AcquireOnce
  <2>1. q # p  BY <1>6
  <2>2. n \in Line(q) /\ IsAcquire(At(q, n), i)  BY <1>5, <2>1
  <2>3. home[i] = q  BY <2>2 DEF FifoInv, HomeLine, IsAcquire
  <2>. QED  BY <1>3, <1>5, <2>1, <2>2, <2>3 DEF FifoInv, AcquireOnce
<1>9. SeenDropped'
  BY <1>1, <1>3 DEF FifoInv, SeenDropped
<1>10. DropInLine'
  <2>. SUFFICES ASSUME NEW q \in Procs, NEW d \in Ids, home[d] = q, phase'[d] = "dropped",
                       row[key[d]].owner = d
                PROVE  \E m \in Line(q)' : IsRelease(At(q, m)', d)
    BY <1>1 DEF DropInLine
  <2>1. q # p /\ phase[d] = "dropped"  BY <1>3
  <2>2. PICK m \in Line(q) : IsRelease(At(q, m), d)
    BY <2>1 DEF FifoInv, DropInLine
  <2>. QED  BY <1>5, <2>1, <2>2
<1>11. ReleaseAhead'
  <2>. SUFFICES ASSUME NEW q \in Procs, NEW i \in Ids, NEW n \in Line(q)', IsAcquire(At(q, n)', i),
                       NEW d \in seen[i], phase'[d] = "dropped", row[key[d]].owner = d
                PROVE  \E m \in Line(q)' : m < n /\ IsRelease(At(q, m)', d)
    BY <1>1 DEF ReleaseAhead
  <2>1. q # p  BY <1>6
  <2>2. n \in Line(q) /\ IsAcquire(At(q, n), i)  BY <1>5, <2>1
  <2>3. d \in Ids  BY DEF FifoInv, SeenDropped
  <2>4. phase[d] = "dropped"  BY <1>3, <2>3
  <2>5. PICK m \in Line(q) : m < n /\ IsRelease(At(q, m), d)
    BY <2>2, <2>4 DEF FifoInv, ReleaseAhead
  <2>. QED  BY <1>5, <2>1, <2>5
<1>. QED  BY <1>7, <1>8, <1>9, <1>10, <1>11 DEF FifoInv

LEMMA FifoTick ==
    ASSUME TypeOK, FifoInv, Tick
    PROVE  FifoInv'
<1>1. UNCHANGED <<queue, key, home, seen, phase>>
  BY DEF Tick, callerVars, ghostVars
<1>2. \A p \in Procs : cur'[p].op = cur[p].op /\ cur'[p].id = cur[p].id
  BY DEF Tick, TypeOK, Running, Idle
<1>3. \A k \in Keys : row'[k].owner = row[k].owner
  BY DEF Tick, TypeOK
<1>4. \A j \in Ids : key[j] \in Keys /\ (IsRelease(cur[home[j]], j) => cur'[home[j]] # Idle)
  BY <1>2 DEF IsRelease, Idle, TypeOK
<1>. QED  BY <1>1, <1>2, <1>3, <1>4, NothingSent

\* Steps of callers and loops that change no command, row or drop.
LEMMA FifoQuiet ==
    ASSUME TypeOK, FifoInv, UNCHANGED <<row, queue, cur, key, home, seen>>,
           \A i \in Ids : \/ phase'[i] = phase[i]
                          \/ phase[i] \in {"requested", "replied"} /\ phase'[i] = "closed"
                          \/ phase[i] = "replied" /\ phase'[i] = "held"
    PROVE  FifoInv'
<1>1. \A j \in Ids : IsRelease(cur[home[j]], j) => cur'[home[j]] # Idle
  BY DEF IsRelease, Idle
<1>2. \A i \in Ids :
         /\ phase'[i] = "dropped" => phase[i] = "dropped"
         /\ phase[i] \in {"dropped", "closed"} => phase'[i] \in {"dropped", "closed"}
         /\ phase[i] \in {"requested", "closed"} => phase'[i] \in {"requested", "closed"}
  OBVIOUS
<1>. QED  BY <1>1, <1>2, NothingSent

LEMMA FifoStep == TypeOK /\ FifoInv /\ [Next]_vars => FifoInv'
<1>. SUFFICES ASSUME TypeOK, FifoInv, [Next]_vars PROVE FifoInv'
  OBVIOUS
<1>. USE DEF tableVars, callerVars, ghostVars
<1>1. ASSUME NEW p \in Procs, ManagerStep(p) PROVE FifoInv'
  BY <1>1, FifoDequeue, FifoAcquire, FifoRelease, FifoKeepalive DEF ManagerStep
<1>2. ASSUME NEW p \in Procs, Crash(p) PROVE FifoInv'
  BY <1>2, FifoCrash
<1>3. ASSUME NEW i \in Ids, CallerStep(i) PROVE FifoInv'
  <2>1. CASE TryAcquireLock(i)  BY <2>1, FifoTryAcquire
  <2>2. CASE Abandon(i)  BY <2>2, FifoQuiet DEF Abandon, TypeOK
  <2>3. CASE NewWorkLock(i)  BY <2>3, FifoQuiet DEF NewWorkLock, TypeOK
  <2>4. CASE DropWorkLock(i)
    <3>1. /\ Send(home[i], "Release", i) /\ UNCHANGED <<row, key, home, cur, seen>>
          /\ phase[i] = "held" /\ phase'[i] = "dropped"
          /\ \A j \in Ids : j # i => phase'[j] = phase[j]
      BY <2>4 DEF DropWorkLock, TypeOK
    <3>. QED  BY <3>1, FifoSend
  <2>5. CASE FenceTransaction(i) \/ CommitFenced(i) \/ RollbackFenced(i)
    BY <2>5, FifoQuiet DEF FenceTransaction, CommitFenced, RollbackFenced
  <2>. QED  BY <1>3, <2>1, <2>2, <2>3, <2>4, <2>5 DEF CallerStep
<1>4. ASSUME NEW i \in Ids, LoopStep(i) PROVE FifoInv'
  <2>1. UNCHANGED <<row, key, home, cur, seen, phase>>
        /\ (UNCHANGED queue \/ Send(home[i], "Keepalive", i))
    BY <1>4 DEF LoopStep, LoopStop, LoopTick, LoopSend
  <2>2. CASE UNCHANGED queue  BY <2>1, <2>2, FifoQuiet
  <2>3. CASE Send(home[i], "Keepalive", i)  BY <2>1, <2>3, FifoSend
  <2>. QED  BY <2>1, <2>2, <2>3
<1>5. CASE UNCHANGED vars  BY <1>5, FifoQuiet DEF vars
<1>. QED  BY <1>1, <1>2, <1>3, <1>4, <1>5, FifoTick DEF Next

LEMMA FifoInvariant == Spec => []FifoInv
<1>1. Spec => []TypeOK  BY TypeCorrect
<1>. QED  BY <1>1, FifoInit, FifoStep, PTL DEF Spec

\* A dropped WorkLock whose row is still in the table has its release queued or
\* running (Drop sends it outside the command buffer), however full the buffer
\* and however many attempts there are.
THEOREM DropReleases == Spec => []DroppedLockIsReleased
<1>1. TypeOK /\ FifoInv => DroppedLockIsReleased
  <2>. SUFFICES ASSUME TypeOK, FifoInv, NEW i \in Ids,
                       phase[i] = "dropped", row[key[i]].owner = i
                PROVE  \/ IsRelease(cur[home[i]], i)
                       \/ \E n \in 1..Len(queue[home[i]]) : IsRelease(queue[home[i]][n], i)
    BY DEF DroppedLockIsReleased
  <2>1. PICK p \in Procs : p = home[i]  BY DEF TypeOK
  <2>2. PICK m \in Line(p) : IsRelease(At(p, m), i)  BY <2>1 DEF FifoInv, DropInLine
  <2>3. m # 0 => m \in 1..Len(queue[p])  BY DEF Line, TypeOK
  <2>. QED  BY <2>1, <2>2, <2>3 DEF At
<1>. QED  BY <1>1, TypeCorrect, FifoInvariant, PTL

\* When a manager runs an acquire, every lock that its process dropped before
\* the call is out of the table: releases and acquires share one FIFO.
THEOREM ReleasesFirst == Spec => []ReleaseBeforeNextAcquire
<1>1. TypeOK /\ FifoInv => ReleaseBeforeNextAcquire
  <2>. SUFFICES ASSUME TypeOK, FifoInv, NEW p \in Procs, cur[p].op = "Acquire",
                       NEW d \in seen[cur[p].id], phase[d] = "dropped", row[key[d]].owner = d
                PROVE  FALSE
    BY DEF ReleaseBeforeNextAcquire
  <2>1. cur[p].id \in Ids  BY RunningFacts
  <2>2. 0 \in Line(p) /\ At(p, 0) = cur[p]  BY DEF Line, At, TypeOK
  <2>3. PICK m \in Line(p) : m < 0  BY <2>1, <2>2 DEF FifoInv, ReleaseAhead, IsAcquire
  <2>. QED  BY <2>3 DEF Line, TypeOK
<1>. QED  BY <1>1, TypeCorrect, FifoInvariant, PTL
=============================================================================
