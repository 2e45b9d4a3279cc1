------------------------------ MODULE WorkLock ------------------------------
(***************************************************************************)
(* The work lock: crates/api-db/src/work_lock_manager.rs.                  *)
(*                                                                         *)
(* A row of the table work_locks is a lease on a unit of work.  Every      *)
(* process runs one manager task that executes lock commands one at a time *)
(* from a FIFO; callers get a WorkLock whose keepalive loop refreshes the  *)
(* row through the same FIFO, and whose Drop queues a release.             *)
(*                                                                         *)
(* Every call of try_acquire_lock is an "attempt", named by the uuid the   *)
(* database would give it (worker_id DEFAULT gen_random_uuid()).           *)
(* Time is relative: a row remembers the age of its last_keepalive and a   *)
(* running statement how long ago its now() was taken.                     *)
(***************************************************************************)
EXTENDS Integers, Sequences, FiniteSets

CONSTANTS
    Keys,               \* work keys
    Procs,              \* processes, each with one manager
    Ids,                \* attempts: the uuids the database hands out
    NoId,               \* "no such row" / "no attempt"
    CommandBufferSize,  \* COMMAND_BUFFER_SIZE
    Timeout,            \* KeepaliveConfig::timeout, in ticks
    MaxWait             \* bound: ticks an acquiring statement may be blocked

ASSUME ConstantsAssumption ==
    /\ NoId \notin Ids
    /\ CommandBufferSize \in Nat /\ Timeout \in Nat /\ MaxWait \in Nat

VARIABLES
    row,        \* work_locks: per key its worker_id and the age of last_keepalive
    queue,      \* cmd_tx/cmd_rx of each manager: queued commands
    cur,        \* the command each manager is executing, and the age of its now()
    phase,      \* what the caller of an attempt holds
    key, home,  \* the work key and the process of an attempt
    loop,       \* where the keepalive loop of an attempt's WorkLock is
    fence,      \* attempts with an open transaction fenced by fence_transaction
    term,       \* ghost: how often a key has been granted
    termOf,     \* ghost: the term an attempt was granted
    written,    \* ghost: the term of the last committed fenced write of a key
    seen        \* ghost: attempts of the same process dropped before this one began

tableVars  == <<row, term, termOf>>
ghostVars  == <<written, seen>>
callerVars == <<key, home>>
vars == <<row, queue, cur, phase, key, home, loop, fence, term, termOf, written, seen>>

MaxAge == Timeout + 1 + MaxWait     \* ages above it are indistinguishable

Phases == {"unused", "requested", "replied", "held", "dropped", "closed"}
Loops  == {"none", "select", "send", "wait"}
Ops    == {"Acquire", "Release", "Keepalive"}

Command == [op : Ops, id : Ids]
Idle    == [op |-> "Idle", id |-> NoId, waited |-> 0]
Running == [op : Ops, id : Ids, waited : 0..MaxWait] \cup {Idle}
NoRow   == [owner |-> NoId, age |-> 0]

Init ==
    /\ row = [k \in Keys |-> NoRow]
    /\ queue = [p \in Procs |-> <<>>]
    /\ cur = [p \in Procs |-> Idle]
    /\ phase = [i \in Ids |-> "unused"]
    /\ key \in [Ids -> Keys]
    /\ home \in [Ids -> Procs]
    /\ loop = [i \in Ids |-> "none"]
    /\ fence = {}
    /\ term = [k \in Keys |-> 0]
    /\ termOf = [i \in Ids |-> 0]
    /\ written = [k \in Keys |-> 0]
    /\ seen = [i \in Ids |-> {}]

-----------------------------------------------------------------------------
(* The handle: what callers and keepalive loops put on the FIFO.           *)

\* Bounded commands hold a semaphore permit from send to recv.
SlotsUsed(p) ==
    Cardinality({n \in 1..Len(queue[p]) : queue[p][n].op # "Release"})

HasSlot(p) == SlotsUsed(p) < CommandBufferSize

Send(p, op, i) ==
    queue' = [queue EXCEPT ![p] = Append(@, [op |-> op, id |-> i])]

\* try_acquire_lock: without a slot the call fails and nothing changes.
TryAcquireLock(i) ==
    /\ phase[i] = "unused"
    /\ HasSlot(home[i])
    /\ phase' = [phase EXCEPT ![i] = "requested"]
    /\ seen' = [seen EXCEPT ![i] = {d \in Ids : home[d] = home[i] /\ phase[d] = "dropped"}]
    /\ Send(home[i], "Acquire", i)
    /\ UNCHANGED <<tableVars, callerVars, cur, loop, fence, written>>

\* The caller's future is dropped (a timeout) before the worker_id reaches it.
Abandon(i) ==
    /\ phase[i] \in {"requested", "replied"}
    /\ phase' = [phase EXCEPT ![i] = "closed"]
    /\ UNCHANGED <<tableVars, callerVars, ghostVars, queue, cur, loop, fence>>

\* WorkLock::new: the caller has its lock and the keepalive loop is spawned.
NewWorkLock(i) ==
    /\ phase[i] = "replied"
    /\ phase' = [phase EXCEPT ![i] = "held"]
    /\ loop' = [loop EXCEPT ![i] = "select"]
    /\ UNCHANGED <<tableVars, callerVars, ghostVars, queue, cur, fence>>

\* Mutant: the release needs a command slot like every other command.
DropWorkLockBounded(i) ==
    /\ phase[i] = "held"
    /\ phase' = [phase EXCEPT ![i] = "dropped"]
    /\ IF HasSlot(home[i]) THEN Send(home[i], "Release", i) ELSE UNCHANGED queue
    /\ UNCHANGED <<tableVars, callerVars, ghostVars, cur, loop, fence>>

\* Drop, and release(): stop the loop and queue the release, slot or no slot.
DropWorkLock(i) ==
    /\ phase[i] = "held"
    /\ phase' = [phase EXCEPT ![i] = "dropped"]
    /\ Send(home[i], "Release", i)
    /\ UNCHANGED <<tableVars, callerVars, ghostVars, cur, loop, fence>>

\* The loop's select! is biased: a dropped WorkLock ends it before a tick can.
LoopStop(i) ==
    /\ loop[i] = "select" /\ phase[i] # "held"
    /\ loop' = [loop EXCEPT ![i] = "none"]
    /\ UNCHANGED <<tableVars, callerVars, ghostVars, queue, cur, phase, fence>>

\* Mutant: the loop does not look at its stop channel.
LoopTickDeaf(i) ==
    /\ loop[i] = "select"
    /\ loop' = [loop EXCEPT ![i] = "send"]
    /\ UNCHANGED <<tableVars, callerVars, ghostVars, queue, cur, phase, fence>>

LoopTick(i) ==
    /\ loop[i] = "select" /\ phase[i] = "held"
    /\ loop' = [loop EXCEPT ![i] = "send"]
    /\ UNCHANGED <<tableVars, callerVars, ghostVars, queue, cur, phase, fence>>

\* keep_lock_alive on the handle; without a slot the loop reports and goes on.
LoopSend(i) ==
    /\ loop[i] = "send"
    /\ \/ /\ HasSlot(home[i])
          /\ Send(home[i], "Keepalive", i)
          /\ loop' = [loop EXCEPT ![i] = "wait"]
       \/ /\ ~HasSlot(home[i])
          /\ loop' = [loop EXCEPT ![i] = "select"]
          /\ UNCHANGED queue
    /\ UNCHANGED <<tableVars, callerVars, ghostVars, cur, phase, fence>>

-----------------------------------------------------------------------------
(* run_loop: the manager of process p.                                     *)

\* Mutant: releases and bounded commands arrive on channels of their own.
DequeueAnyOrder(p) ==
    /\ cur[p].op = "Idle"
    /\ \E n \in 1..Len(queue[p]) :
         LET c == queue[p][n] IN
           /\ cur' = [cur EXCEPT ![p] =
                        IF c.op = "Acquire" /\ phase[c.id] = "closed"
                        THEN Idle
                        ELSE [op |-> c.op, id |-> c.id, waited |-> 0]]
           /\ queue' = [queue EXCEPT ![p] =
                          SubSeq(@, 1, n - 1) \o SubSeq(@, n + 1, Len(@))]
    /\ UNCHANGED <<tableVars, callerVars, ghostVars, phase, loop, fence>>

\* recv returns the slot; an acquire nobody waits for is skipped.
Dequeue(p) ==
    /\ cur[p].op = "Idle" /\ queue[p] # <<>>
    /\ LET c == Head(queue[p]) IN
         cur' = [cur EXCEPT ![p] =
                   IF c.op = "Acquire" /\ phase[c.id] = "closed"
                   THEN Idle
                   ELSE [op |-> c.op, id |-> c.id, waited |-> 0]]
    /\ queue' = [queue EXCEPT ![p] = Tail(@)]
    /\ UNCHANGED <<tableVars, callerVars, ghostVars, phase, loop, fence>>

Finish(p) == cur' = [cur EXCEPT ![p] = Idle]

\* Mutant: the fence reads the row without locking it.
FencedNever(k) == FALSE

\* FOR KEY SHARE holds off every statement that deletes the row or changes
\* its worker_id, and no other.
Fenced(k) == \E f \in fence : key[f] = k

\* WHERE last_keepalive + timeout < now(), with the now() of the statement.
Takeable(k, waited) ==
    \/ row[k].owner = NoId
    \/ row[k].age > Timeout + waited

\* The upsert: SET worker_id = EXCLUDED.worker_id, last_keepalive = now().
Upsert(i, waited) ==
    /\ row' = [row EXCEPT ![key[i]] = [owner |-> i, age |-> waited]]
    /\ term' = [term EXCEPT ![key[i]] = @ + 1]
    /\ termOf' = [termOf EXCEPT ![i] = term[key[i]] + 1]

\* A reply only matters to a caller that still listens.
Reply(i, to) ==
    phase' = [phase EXCEPT ![i] = IF @ = "requested" THEN to ELSE @]

\* try_acquire_lock succeeds: Ok(Some(worker_id)).
AcquireGranted(p) ==
    /\ cur[p].op = "Acquire"
    /\ LET i == cur[p].id IN
         /\ ~Fenced(key[i]) /\ Takeable(key[i], cur[p].waited)
         /\ Upsert(i, cur[p].waited)
         /\ Reply(i, "replied")
    /\ Finish(p)
    /\ UNCHANGED <<callerVars, ghostVars, queue, loop, fence>>

\* Ok(None): WorkAlreadyLocked.
AcquireDenied(p) ==
    /\ cur[p].op = "Acquire"
    /\ LET i == cur[p].id IN
         /\ ~Fenced(key[i]) /\ ~Takeable(key[i], cur[p].waited)
         /\ Reply(i, "closed")
    /\ Finish(p)
    /\ UNCHANGED <<tableVars, callerVars, ghostVars, queue, loop, fence>>

\* A database error: the statement did not take effect, or it did and the
\* connection failed before the answer came back.
AcquireFailed(p) ==
    /\ cur[p].op = "Acquire"
    /\ LET i == cur[p].id IN
         /\ \/ UNCHANGED tableVars
            \/ /\ ~Fenced(key[i]) /\ Takeable(key[i], cur[p].waited)
               /\ Upsert(i, cur[p].waited)
         /\ Reply(i, "closed")
    /\ Finish(p)
    /\ UNCHANGED <<callerVars, ghostVars, queue, loop, fence>>

\* DELETE ... WHERE work_key = $1 AND worker_id = $2.
DeleteRow(i) ==
    row' = [row EXCEPT ![key[i]] = IF @.owner = i THEN NoRow ELSE @]

ReleaseLock(p) ==
    /\ cur[p].op = "Release"
    /\ LET i == cur[p].id IN
         /\ row[key[i]].owner = i => ~Fenced(key[i])
         /\ DeleteRow(i)
    /\ Finish(p)
    /\ UNCHANGED <<callerVars, ghostVars, queue, phase, loop, fence, term, termOf>>

\* The delete fails, or its answer is lost; it is not retried and a row it left
\* behind has to expire.
ReleaseFailed(p) ==
    /\ cur[p].op = "Release"
    /\ LET i == cur[p].id IN
         /\ phase' = [phase EXCEPT ![i] = "closed"]
         /\ UNCHANGED row \/ (~Fenced(key[i]) /\ DeleteRow(i))
    /\ Finish(p)
    /\ UNCHANGED <<callerVars, ghostVars, queue, loop, fence, term, termOf>>

\* Mutant: the keepalive is dated one tick ahead.
RefreshAhead(i) == row' = [row EXCEPT ![key[i]] = [@ EXCEPT !.age = -1]]

\* UPDATE last_keepalive = now() WHERE work_key = $1 AND worker_id = $2.
Refresh(i) == row' = [row EXCEPT ![key[i]] = [@ EXCEPT !.age = 0]]

KeepLockAlive(p) ==
    /\ cur[p].op = "Keepalive"
    /\ LET i == cur[p].id IN
         /\ row[key[i]].owner = i
         /\ Refresh(i)
         /\ loop' = [loop EXCEPT ![i] = "select"]
    /\ Finish(p)
    /\ UNCHANGED <<callerVars, ghostVars, queue, phase, fence, term, termOf>>

\* No row was updated: LockLost ends the loop; the holder is not told.
KeepLockAliveLost(p) ==
    /\ cur[p].op = "Keepalive"
    /\ LET i == cur[p].id IN
         /\ row[key[i]].owner # i
         /\ loop' = [loop EXCEPT ![i] = "none"]
    /\ Finish(p)
    /\ UNCHANGED <<tableVars, callerVars, ghostVars, queue, phase, fence>>

KeepLockAliveFailed(p) ==
    /\ cur[p].op = "Keepalive"
    /\ LET i == cur[p].id IN
         /\ loop' = [loop EXCEPT ![i] = "select"]
         /\ \/ UNCHANGED row
            \/ row[key[i]].owner = i /\ Refresh(i)
    /\ Finish(p)
    /\ UNCHANGED <<callerVars, ghostVars, queue, phase, fence, term, termOf>>

-----------------------------------------------------------------------------
(* Fenced transactions, crashes and the clock.                             *)

\* A statement that has been blocked for MaxWait ticks: the clock and new
\* fences wait for it (the bound on how long a fence may block an acquire).
Overdue(p) == cur[p].op = "Acquire" /\ cur[p].waited = MaxWait

\* Mutant: the fence does not ask whose row it is.
FenceTransactionAnyWorker(i) ==
    /\ phase[i] = "held" /\ i \notin fence
    /\ row[key[i]].owner # NoId
    /\ \A p \in Procs : ~Overdue(p)
    /\ fence' = fence \cup {i}
    /\ UNCHANGED <<tableVars, callerVars, ghostVars, queue, cur, phase, loop>>

\* Mutant: the fence takes its lock but ignores an empty result.
FenceTransactionUnchecked(i) ==
    /\ phase[i] = "held" /\ i \notin fence
    /\ \A p \in Procs : ~Overdue(p)
    /\ fence' = fence \cup {i}
    /\ UNCHANGED <<tableVars, callerVars, ghostVars, queue, cur, phase, loop>>

\* fence_transaction: the row must still name this worker; expired or not.
FenceTransaction(i) ==
    /\ phase[i] = "held" /\ i \notin fence
    /\ row[key[i]].owner = i
    /\ \A p \in Procs : ~Overdue(p)
    /\ fence' = fence \cup {i}
    /\ UNCHANGED <<tableVars, callerVars, ghostVars, queue, cur, phase, loop>>

\* The fenced transaction commits its writes and lets go of the row.
CommitFenced(i) ==
    /\ i \in fence
    /\ fence' = fence \ {i}
    /\ written' = [written EXCEPT ![key[i]] = termOf[i]]
    /\ UNCHANGED <<tableVars, callerVars, queue, cur, phase, loop, seen>>

RollbackFenced(i) ==
    /\ i \in fence
    /\ fence' = fence \ {i}
    /\ UNCHANGED <<tableVars, callerVars, ghostVars, queue, cur, phase, loop>>

\* The process dies: queued commands, handles, loops and transactions go with
\* it, the rows stay.
Crash(p) ==
    /\ queue' = [queue EXCEPT ![p] = <<>>]
    /\ cur' = [cur EXCEPT ![p] = Idle]
    /\ phase' = [i \in Ids |-> IF home[i] = p /\ phase[i] # "unused"
                               THEN "closed" ELSE phase[i]]
    /\ loop' = [i \in Ids |-> IF home[i] = p THEN "none" ELSE loop[i]]
    /\ fence' = {i \in fence : home[i] # p}
    /\ UNCHANGED <<tableVars, callerVars, ghostVars>>

Older(a) == IF a < MaxAge THEN a + 1 ELSE a

\* Time passes for every row and for every statement in progress.
Tick ==
    /\ \A p \in Procs : ~Overdue(p)
    /\ row' = [k \in Keys |-> IF row[k].owner = NoId THEN row[k]
                              ELSE [row[k] EXCEPT !.age = Older(@)]]
    /\ cur' = [p \in Procs |-> IF cur[p].op = "Acquire"
                               THEN [cur[p] EXCEPT !.waited = @ + 1]
                               ELSE cur[p]]
    /\ UNCHANGED <<callerVars, ghostVars, queue, phase, loop, fence, term, termOf>>

ManagerStep(p) ==
    \/ Dequeue(p)
    \/ AcquireGranted(p) \/ AcquireDenied(p) \/ AcquireFailed(p)
    \/ ReleaseLock(p) \/ ReleaseFailed(p)
    \/ KeepLockAlive(p) \/ KeepLockAliveLost(p) \/ KeepLockAliveFailed(p)

CallerStep(i) ==
    \/ TryAcquireLock(i) \/ Abandon(i) \/ NewWorkLock(i) \/ DropWorkLock(i)
    \/ FenceTransaction(i) \/ CommitFenced(i) \/ RollbackFenced(i)

LoopStep(i) == LoopStop(i) \/ LoopTick(i) \/ LoopSend(i)

Next ==
    \/ \E p \in Procs : ManagerStep(p) \/ Crash(p)
    \/ \E i \in Ids : CallerStep(i) \/ LoopStep(i)
    \/ Tick

Spec == Init /\ [][Next]_vars

\* Time passes; a statement that is no longer blocked completes; and fenced
\* transactions end (they are "short and free of external I/O").  No caller,
\* keepalive loop or queue is assumed to make progress.
FairSpec ==
    /\ Spec
    /\ WF_vars(Tick)
    /\ \A p \in Procs : WF_vars(AcquireGranted(p) \/ AcquireDenied(p))
    /\ \A i \in Ids : WF_vars(CommitFenced(i) \/ RollbackFenced(i))

\* What the lock promises, stated without managers, queues and clocks.
Lease == INSTANCE FencedLease WITH owner <- [k \in Keys |-> row[k].owner]

-----------------------------------------------------------------------------
(* Properties.                                                             *)

\* The type of every variable; a manager's command and a row's age are in
\* their ranges.
TypeOK ==
    /\ row \in [Keys -> [owner : Ids \cup {NoId}, age : 0..MaxAge]]
    /\ queue \in [Procs -> Seq(Command)]
    /\ cur \in [Procs -> Running]
    /\ phase \in [Ids -> Phases]
    /\ key \in [Ids -> Keys]
    /\ home \in [Ids -> Procs]
    /\ loop \in [Ids -> Loops]
    /\ fence \subseteq Ids
    /\ term \in [Keys -> Nat]
    /\ termOf \in [Ids -> Nat]
    /\ written \in [Keys -> Nat]
    /\ seen \in [Ids -> SUBSET Ids]

\* While a transaction fenced by fence_transaction is open, the row still names
\* its worker: no takeover, release or crash of another process replaced it,
\* even when the lease has expired or the WorkLock was dropped meanwhile.
FenceHoldsRow == \A i \in fence : row[key[i]].owner = i

\* Fenced writes of one key commit in the order in which the lock was granted:
\* a worker that lost its lease never writes after its successor did.
FencedWritesInOrder == [][\A k \in Keys : written'[k] >= written[k]]_vars

IsRelease(c, i) == c.op = "Release" /\ c.id = i

\* A WorkLock that was dropped leaves its row behind only while its release is
\* still queued or running (a failed release and a crash aside): Drop does not
\* lose the release when the command buffer is full.
DroppedLockIsReleased ==
    \A i \in Ids :
        phase[i] = "dropped" /\ row[key[i]].owner = i =>
            \/ IsRelease(cur[home[i]], i)
            \/ \E n \in 1..Len(queue[home[i]]) : IsRelease(queue[home[i]][n], i)

\* "the next call to try_acquire_lock is guaranteed to be processed after the
\* lock is released": when an acquire runs, no lock that its process dropped
\* before the call is still in the table.
ReleaseBeforeNextAcquire ==
    \A p \in Procs :
        cur[p].op = "Acquire" =>
            \A d \in seen[cur[p].id] :
                phase[d] = "dropped" => row[key[d]].owner # d

\* A row whose WorkLock no longer exists (crash, lost release, abandoned call)
\* does not stay: it is deleted, taken over or becomes takeable, so whatever is
\* left of the keepalive loop cannot keep it alive for ever.
OrphanRunsOut ==
    \A i \in Ids :
        (row[key[i]].owner = i /\ phase[i] \in {"dropped", "closed"})
            ~> (row[key[i]].owner # i \/ row[key[i]].age > Timeout)

\* The lock implements the fenced lease: every step grants, ends or uses the
\* lease of at most one key, and only the present holder's writes commit.
ImplementsFencedLease == Lease!Spec
=============================================================================
