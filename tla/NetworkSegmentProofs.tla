------------------------ MODULE NetworkSegmentProofs ------------------------
(***************************************************************************)
(* Theorems about NetworkSegment, for every number of segments, names,     *)
(* pool values, instances and handlers: type correctness, the accounts of  *)
(* the pool, and that segments are drained resources.                      *)
(***************************************************************************)
EXTENDS NetworkSegment, TLAPS

-----------------------------------------------------------------------------
(* The inductive invariant.                                                *)

\* Whoever allocates keeps away those who count, and the other way round.
TableLock == ~(ExclusiveHeld /\ ShareHeld)

\* Addresses and configurations refer to existing segments.
ReferencesResolve == \A p \in addrs \cup refs : Exists(p[2])

\* Transactions that have begun are about a segment.
Targets ==
    /\ \A i \in Instances : alloc[i].pc # "idle" => alloc[i].seg \in Segments
    /\ marker.pc # "idle" => marker.seg \in Segments

\* What an allocation has validated stays usable until it commits.
ValidatedStays ==
    \A i \in Instances : alloc[i].pc = "validated" =>
        Exists(alloc[i].seg) /\ alloc[i].seg \notin marked

\* Only segments that were asked to go drain.
DrainsOnRequest == \A s \in Segments : state[s] \in {"Drain", "DBDelete"} => s \in marked

\* A handler's snapshot: its segment exists or has existed, and a request that
\* it has seen is still there.
SnapshotKept(k) ==
    h[k].pc # "idle" =>
        /\ h[k].seg \in Segments /\ state[h[k].seg] # "Unborn"
        /\ h[k].pc = "drained" => h[k].state = "Drain"
        /\ h[k].pc = "drained" => h[k].next \in {"Drain", "DBDelete"}
        /\ h[k].pc = "final" => h[k].state = "DBDelete"
        /\ Exists(h[k].seg) /\ (h[k].marked \/ h[k].state \in {"Drain", "DBDelete"})
              => h[k].seg \in marked

\* A handler that is about to delete a segment: nobody uses the segment, and
\* the handler releases its pool value if it has one.
AboutToDelete(k) ==
    h[k].pc = "final" =>
        /\ \A i \in Instances : <<i, h[k].seg>> \notin addrs \cup refs
        /\ Exists(h[k].seg) => h[k].releases = (vni[h[k].seg] # None)

HandlersSafe == \A k \in Handlers : SnapshotKept(k) /\ AboutToDelete(k)

\* Only segments with a name take a pool value.
ValuesNamed ==
    \A s \in Segments : /\ vni[s] # None => name[s] # None
                        /\ state[s] = "Unborn" => vni[s] = None

UseInv == TableLock /\ ReferencesResolve /\ Targets /\ ValidatedStays /\ DrainsOnRequest
Inv == TypeOK /\ UseInv /\ HandlersSafe /\ ValuesNamed /\ PoolAccounts

-----------------------------------------------------------------------------
(* Types.                                                                  *)

\* The initial state is well typed.
LEMMA InitType ==
    ASSUME Init
    PROVE  TypeOK
BY DEF Init, TypeOK, Phases, Live, Exists, Free, Idle

HandlerType ==
    [pc : {"idle", "loaded", "drained", "final"}, seg : Segments \cup {None}, state : Phases,
     marked : BOOLEAN, current : BOOLEAN, next : Phases, releases : BOOLEAN]

\* A handler that has ended has its type.
LEMMA IdleType == Idle \in HandlerType
BY DEF Idle, HandlerType, Phases, Live

\* A transition, committed or refused, keeps the types and what exists.
LEMMA PersistType ==
    ASSUME TypeOK, NEW k \in Handlers, h[k].seg \in Segments, NEW new \in Live, PersistState(k, new)
    PROVE  /\ TypeOK'
           /\ \A s \in Segments : Exists(s)' <=> Exists(s)
           /\ \A s \in Segments : state'[s] = "Unborn" <=> state[s] = "Unborn"
<1> DEFINE s == h[k].seg
           ok == h[k].current /\ Exists(s)
<1>1. /\ state' = IF ok THEN [state EXCEPT ![s] = new] ELSE state
      /\ due' = IF ok /\ new = "Drain" THEN due \ {s} ELSE due
      /\ h' = [j \in Handlers |->
                  IF j = k THEN Idle
                  ELSE IF ok /\ h[j].seg = s THEN [h[j] EXCEPT !.current = FALSE]
                  ELSE h[j]]
      /\ UNCHANGED <<marked, generated, name, vni, pool, addrs, refs, ifaces, alloc, marker>>
  BY DEF PersistState
<1>2. state' \in [Segments -> Phases]
  BY <1>1 DEF TypeOK, Phases
<1>3. \A r \in Segments : Exists(r)' <=> Exists(r)
  BY <1>1 DEF TypeOK, Exists
<1>4. \A r \in Segments : state'[r] = "Unborn" <=> state[r] = "Unborn"
  BY <1>1 DEF TypeOK, Exists, Live
<1>5. h' \in [Handlers -> HandlerType]
  <2>1. ASSUME NEW j \in Handlers PROVE h'[j] \in HandlerType
    <3>1. h[j] \in HandlerType
      BY DEF TypeOK, HandlerType
    <3>2. [h[j] EXCEPT !.current = FALSE] \in HandlerType
      BY <3>1 DEF HandlerType
    <3> QED
      BY <1>1, <3>1, <3>2, IdleType
  <2> QED
    BY <1>1, <2>1
<1>6. marked' \subseteq {r \in Segments : Exists(r)'}
  BY <1>1, <1>3 DEF TypeOK
<1> QED
  BY <1>1, <1>2, <1>3, <1>4, <1>5, <1>6 DEF TypeOK, HandlerType

\* The steps of the API and of instances keep the types.
LEMMA ApiType ==
    ASSUME TypeOK, ReferencesResolve, Targets,
           \/ \E s \in Segments, n \in Names, v \in Vnis : Create(s, n, v)
           \/ \E i \in Instances, s \in Segments : CreateGenerated(i, s) \/ AllocLock(i, s)
           \/ \E i \in Instances : AllocRead(i) \/ AllocCommit(i) \/ AllocAbort(i)
           \/ \E i \in Instances, S \in SUBSET Segments : ReleaseSegments(i, S)
           \/ \E s \in Segments : AddInterface(s) \/ RemoveInterface(s) \/ MarkCheck(s)
           \/ MarkCommit
    PROVE  TypeOK'
<1>1. ASSUME NEW s \in Segments, NEW n \in Names, NEW v \in Vnis, Create(s, n, v) PROVE TypeOK'
  BY <1>1 DEF Create, TypeOK, Phases, Live, Exists
<1>2. ASSUME NEW i \in Instances, NEW s \in Segments, CreateGenerated(i, s) PROVE TypeOK'
  BY <1>2 DEF CreateGenerated, TypeOK, Phases, Live, Exists
<1>3. ASSUME NEW i \in Instances, NEW s \in Segments, AllocLock(i, s) PROVE TypeOK'
  BY <1>3 DEF AllocLock, TypeOK, Exists
<1>4. ASSUME NEW i \in Instances, AllocRead(i) PROVE TypeOK'
  BY <1>4 DEF AllocRead, TypeOK, Exists, Free
<1>5. ASSUME NEW i \in Instances, AllocCommit(i) PROVE TypeOK'
  BY <1>5 DEF AllocCommit, TypeOK, Exists, Free, Targets
<1>6. ASSUME NEW i \in Instances, AllocAbort(i) PROVE TypeOK'
  BY <1>6 DEF AllocAbort, TypeOK, Exists, Free
<1>7. ASSUME NEW i \in Instances, NEW S \in SUBSET Segments, ReleaseSegments(i, S) PROVE TypeOK'
  <2>1. \A s \in S : Exists(s)
    <3> TAKE s \in S
    <3>1. <<i, s>> \in addrs \cup refs
      BY <1>7 DEF ReleaseSegments
    <3>2. Exists(<<i, s>>[2])
      BY <3>1 DEF ReferencesResolve
    <3> QED
      BY <3>2
  <2>2. marked' \subseteq {s \in Segments : Exists(s)'}
    BY <1>7, <2>1 DEF ReleaseSegments, TypeOK, Exists
  <2> QED
    BY <1>7, <2>2 DEF ReleaseSegments, TypeOK
<1>8. ASSUME NEW s \in Segments, AddInterface(s) \/ RemoveInterface(s) PROVE TypeOK'
  BY <1>8 DEF AddInterface, RemoveInterface, TypeOK, Exists
<1>9. ASSUME NEW s \in Segments, MarkCheck(s) PROVE TypeOK'
  BY <1>9 DEF MarkCheck, TypeOK, Exists
<1>10. CASE MarkCommit
  BY <1>10 DEF MarkCommit, TypeOK, Exists, Free, Targets
<1> QED
  BY <1>1, <1>2, <1>3, <1>4, <1>5, <1>6, <1>7, <1>8, <1>9, <1>10

\* The steps of handlers and of the clock keep the types.
LEMMA HandlerStepType ==
    ASSUME TypeOK, HandlersSafe,
           \/ \E k \in Handlers, s \in Segments : Load(k, s)
           \/ \E k \in Handlers : HandlerStep(k)
           \/ \E s \in Segments : DrainPeriodEnds(s)
    PROVE  TypeOK'
<1>1. ASSUME NEW k \in Handlers, NEW s \in Segments, Load(k, s) PROVE TypeOK'
  <2>1. h' \in [Handlers -> HandlerType]
    BY <1>1 DEF Load, TypeOK, HandlerType
  <2> QED
    BY <1>1, <2>1 DEF Load, TypeOK, HandlerType, Exists
<1>2. ASSUME NEW k \in Handlers, HandlerStep(k) PROVE TypeOK'
  <2>0. h[k].pc # "idle" => h[k].seg \in Segments
    BY DEF HandlersSafe, SnapshotKept
  <2>1. CASE HandleProvisioning(k)
    BY <2>0, <2>1, PersistType DEF HandleProvisioning, Live
  <2>2. CASE HandleReady(k)
    BY <2>0, <2>2, PersistType DEF HandleReady, Live
  <2>3. CASE HandleReadyUnmarked(k)
    BY <2>3, IdleType DEF HandleReadyUnmarked, Drop, TypeOK, Exists, HandlerType
  <2>4. CASE DrainCheck(k)
    <3>1. h' \in [Handlers -> HandlerType]
      BY <2>4, IdleType DEF DrainCheck, Drop, TypeOK, HandlerType, Phases, Live
    <3> QED
      BY <2>4, <3>1 DEF DrainCheck, TypeOK, HandlerType, Exists
  <2>5. CASE DrainCommit(k)
    BY <2>0, <2>5, PersistType DEF DrainCommit, HandlersSafe, SnapshotKept, Live
  <2>6. CASE FinalCheck(k)
    <3>1. h' \in [Handlers -> HandlerType]
      <4>1. h[k] \in HandlerType
        BY DEF TypeOK, HandlerType
      <4>2. [h[k] EXCEPT !.pc = "final", !.releases = Releases(h[k].seg)] \in HandlerType
        BY <4>1 DEF HandlerType, Releases
      <4> QED
        BY <2>6, <4>2, IdleType DEF FinalCheck, TypeOK, HandlerType
    <3> QED
      BY <2>6, <3>1 DEF FinalCheck, TypeOK, HandlerType, Exists
  <2>7. CASE FinalDelete(k)
    <3>1. h' \in [Handlers -> HandlerType]
      BY <2>7, IdleType DEF FinalDelete, Drop, TypeOK, HandlerType
    <3>2. pool' \in [Vnis -> Names \cup {None}]
      BY <2>7 DEF FinalDelete, TypeOK
    <3>3. state' \in [Segments -> Phases] /\ marked' \subseteq {s \in Segments : Exists(s)'}
      BY <2>0, <2>7 DEF FinalDelete, TypeOK, Exists, Phases
    <3> QED
      BY <2>7, <3>1, <3>2, <3>3 DEF FinalDelete, TypeOK, HandlerType
  <2> QED
    BY <1>2, <2>1, <2>2, <2>3, <2>4, <2>5, <2>6, <2>7 DEF HandlerStep
<1>3. ASSUME NEW s \in Segments, DrainPeriodEnds(s) PROVE TypeOK'
  BY <1>3 DEF DrainPeriodEnds, TypeOK, Exists
<1> QED
  BY <1>1, <1>2, <1>3

-----------------------------------------------------------------------------
(* Segments and those who use them.                                        *)

\* What a segment is used for depends on a few variables only.
LEMMA UseFrame ==
    ASSUME UseInv, UNCHANGED <<state, marked, addrs, refs, alloc, marker>>,
           \A k \in Handlers : h'[k].pc \in {"drained", "final"} => h[k].pc \in {"drained", "final"}
    PROVE  UseInv'
BY DEF UseInv, TableLock, ReferencesResolve, Targets, ValidatedStays, DrainsOnRequest,
       ExclusiveHeld, ShareHeld, Exists

\* Creation.
LEMMA CreateKeepsUse ==
    ASSUME TypeOK, UseInv,
           \/ \E s \in Segments, n \in Names, v \in Vnis : Create(s, n, v)
           \/ \E i \in Instances, s \in Segments : CreateGenerated(i, s)
    PROVE  UseInv'
<1> USE DEF UseInv, TableLock, ReferencesResolve, Targets, ValidatedStays, DrainsOnRequest,
            ExclusiveHeld, ShareHeld
<1>1. ASSUME NEW s \in Segments, NEW n \in Names, NEW v \in Vnis, Create(s, n, v) PROVE UseInv'
  BY <1>1 DEF Create, TypeOK, Exists, Live
<1>2. ASSUME NEW i \in Instances, NEW s \in Segments, CreateGenerated(i, s) PROVE UseInv'
  <2>1. \A r \in Segments : Exists(r) \/ r = s => Exists(r)'
    BY <1>2 DEF CreateGenerated, TypeOK, Exists, Live
  <2>2. ReferencesResolve'
    <3>1. ASSUME NEW p \in addrs' \cup refs' PROVE Exists(p[2])'
      <4>1. p \in addrs \cup refs \/ p = <<i, s>>
        BY <1>2, <3>1 DEF CreateGenerated
      <4>2. p \in Instances \X Segments
        BY <4>1 DEF TypeOK
      <4> QED
        BY <2>1, <4>1, <4>2
    <3> QED
      BY <3>1
  <2>3. ValidatedStays' /\ DrainsOnRequest'
    BY <1>2, <2>1 DEF CreateGenerated, TypeOK
  <2> QED
    BY <1>2, <2>2, <2>3 DEF CreateGenerated
<1> QED
  BY <1>1, <1>2

\* Allocation.
LEMMA AllocKeepsUse ==
    ASSUME TypeOK, UseInv,
           \/ \E i \in Instances, s \in Segments : AllocLock(i, s)
           \/ \E i \in Instances : AllocRead(i) \/ AllocCommit(i) \/ AllocAbort(i)
    PROVE  UseInv'
<1> USE DEF UseInv, TableLock, Targets, ValidatedStays, DrainsOnRequest,
            ExclusiveHeld, ShareHeld
<1>1. ASSUME NEW i \in Instances, NEW s \in Segments, AllocLock(i, s) PROVE UseInv'
  BY <1>1 DEF AllocLock, TypeOK, Exists, ReferencesResolve
<1>2. ASSUME NEW i \in Instances, AllocRead(i) PROVE UseInv'
  BY <1>2 DEF AllocRead, Usable, TypeOK, Exists, Live, Free, ReferencesResolve
<1>3. ASSUME NEW i \in Instances, AllocCommit(i) PROVE UseInv'
  <2>1. ReferencesResolve'
    <3>1. ASSUME NEW p \in addrs' \cup refs' PROVE Exists(p[2])'
      <4>1. p \in addrs \cup refs \/ p = <<i, alloc[i].seg>>
        BY <1>3, <3>1 DEF AllocCommit
      <4> QED
        BY <1>3, <4>1 DEF AllocCommit, ReferencesResolve, Exists
    <3> QED
      BY <3>1 DEF ReferencesResolve
  <2> QED
    BY <1>3, <2>1 DEF AllocCommit, TypeOK, Exists, Free
<1>4. ASSUME NEW i \in Instances, AllocAbort(i) PROVE UseInv'
  BY <1>4 DEF AllocAbort, TypeOK, Exists, Free, ReferencesResolve
<1> QED
  BY <1>1, <1>2, <1>3, <1>4

\* Release, interfaces and the request to delete.
LEMMA RequestKeepsUse ==
    ASSUME TypeOK, UseInv,
           \/ \E i \in Instances, S \in SUBSET Segments : ReleaseSegments(i, S)
           \/ \E s \in Segments : AddInterface(s) \/ RemoveInterface(s) \/ MarkCheck(s)
           \/ MarkCommit
    PROVE  UseInv'
<1> USE DEF UseInv, TableLock, ReferencesResolve, Targets, ValidatedStays, DrainsOnRequest,
            ExclusiveHeld, ShareHeld
<1>1. ASSUME NEW i \in Instances, NEW S \in SUBSET Segments, ReleaseSegments(i, S) PROVE UseInv'
  BY <1>1 DEF ReleaseSegments, TypeOK, Exists
<1>2. ASSUME NEW s \in Segments, AddInterface(s) \/ RemoveInterface(s) PROVE UseInv'
  BY <1>2 DEF AddInterface, RemoveInterface, Exists
<1>3. ASSUME NEW s \in Segments, MarkCheck(s) PROVE UseInv'
  BY <1>3 DEF MarkCheck, Exists
<1>4. CASE MarkCommit
  BY <1>4 DEF MarkCommit, Exists, Free
<1> QED
  BY <1>1, <1>2, <1>3, <1>4

\* A transition to a state in which segments drain is one of a marked segment.
LEMMA PersistKeepsUse ==
    ASSUME TypeOK, UseInv, NEW k \in Handlers, h[k].seg \in Segments, NEW new \in Live,
           new \in {"Drain", "DBDelete"} /\ Exists(h[k].seg) => h[k].seg \in marked,
           PersistState(k, new)
    PROVE  UseInv'
<1>1. \A s \in Segments : Exists(s)' <=> Exists(s)
  BY PersistType
<1>2. UNCHANGED <<marked, addrs, refs, alloc, marker>>
  BY DEF PersistState
<1>3. \A j \in Handlers : h'[j].pc \in {"drained", "final"} => h[j].pc \in {"drained", "final"}
  BY DEF PersistState, Idle, TypeOK
<1>4. TableLock'
  BY <1>2, <1>3 DEF UseInv, TableLock, ExclusiveHeld, ShareHeld
<1>5. ReferencesResolve'
  BY <1>1, <1>2 DEF UseInv, ReferencesResolve, TypeOK
<1>6. ValidatedStays' /\ Targets'
  BY <1>1, <1>2 DEF UseInv, ValidatedStays, Targets
<1>7. DrainsOnRequest'
  BY DEF PersistState, UseInv, DrainsOnRequest, TypeOK
<1> QED
  BY <1>4, <1>5, <1>6, <1>7 DEF UseInv

\* The handlers and the clock.
LEMMA HandlersKeepUse ==
    ASSUME TypeOK, UseInv, HandlersSafe,
           \/ \E k \in Handlers, s \in Segments : Load(k, s)
           \/ \E k \in Handlers : HandlerStep(k)
           \/ \E s \in Segments : DrainPeriodEnds(s)
    PROVE  UseInv'
<1>1. ASSUME NEW k \in Handlers, NEW s \in Segments, Load(k, s) PROVE UseInv'
  BY <1>1, UseFrame DEF Load, TypeOK
<1>2. ASSUME NEW k \in Handlers, HandlerStep(k) PROVE UseInv'
  <2>0. SnapshotKept(k) /\ AboutToDelete(k)
    BY DEF HandlersSafe
  <2>1. CASE HandleProvisioning(k)
    BY <2>0, <2>1, PersistKeepsUse DEF HandleProvisioning, SnapshotKept, Live
  <2>2. CASE HandleReady(k)
    BY <2>0, <2>2, PersistKeepsUse DEF HandleReady, SnapshotKept, Live
  <2>3. CASE HandleReadyUnmarked(k)
    BY <2>3, UseFrame DEF HandleReadyUnmarked, Drop, Idle, TypeOK
  <2>4. CASE DrainCheck(k)
    BY <2>4 DEF DrainCheck, Drop, Idle, TypeOK, UseInv, TableLock, ReferencesResolve, Targets,
                ValidatedStays, DrainsOnRequest, ExclusiveHeld, Exists
  <2>5. CASE DrainCommit(k)
    BY <2>0, <2>5, PersistKeepsUse DEF DrainCommit, SnapshotKept, Live
  <2>6. CASE FinalCheck(k)
    BY <2>6 DEF FinalCheck, UseInv, TableLock, ReferencesResolve, Targets,
                ValidatedStays, DrainsOnRequest, ExclusiveHeld, Exists
  <2>7. CASE FinalDelete(k)
    <3>1. /\ h[k].seg \in Segments /\ ~ExclusiveHeld
          /\ \A i \in Instances : <<i, h[k].seg>> \notin addrs \cup refs
      BY <2>0, <2>7 DEF FinalDelete, SnapshotKept, AboutToDelete, UseInv, TableLock, ShareHeld
    <3>2. UNCHANGED <<addrs, refs, alloc, marker>>
      BY <2>7 DEF FinalDelete
    <3>3. TableLock' /\ Targets'
      BY <3>1, <3>2 DEF UseInv, TableLock, Targets, ExclusiveHeld
    <3>4. ReferencesResolve'
      <4>1. ASSUME NEW p \in addrs \cup refs PROVE Exists(p[2])'
        <5>1. p \in Instances \X Segments /\ Exists(p[2])
          BY <4>1 DEF TypeOK, UseInv, ReferencesResolve
        <5>2. p[2] # h[k].seg
          BY <3>1, <4>1, <5>1
        <5> QED
          BY <2>7, <5>1, <5>2 DEF FinalDelete, TypeOK, Exists
      <4> QED
        BY <3>2, <4>1 DEF ReferencesResolve
    <3>5. ValidatedStays'
      BY <3>1, <3>2 DEF ValidatedStays, ExclusiveHeld, TypeOK
    <3>6. DrainsOnRequest'
      BY <2>7 DEF FinalDelete, UseInv, DrainsOnRequest, TypeOK
    <3> QED
      BY <3>3, <3>4, <3>5, <3>6 DEF UseInv
  <2> QED
    BY <1>2, <2>1, <2>2, <2>3, <2>4, <2>5, <2>6, <2>7 DEF HandlerStep
<1>3. ASSUME NEW s \in Segments, DrainPeriodEnds(s) PROVE UseInv'
  BY <1>3, UseFrame DEF DrainPeriodEnds
<1> QED
  BY <1>1, <1>2, <1>3

-----------------------------------------------------------------------------
(* What handlers know.                                                     *)

\* Segments do not come back, keep their pool value, and keep the mark until
\* they go.
Onward ==
    \A s \in Segments : state[s] # "Unborn" =>
        /\ state'[s] # "Unborn" /\ vni'[s] = vni[s]
        /\ Exists(s)' => Exists(s)
        /\ s \in marked /\ Exists(s)' => s \in marked'

\* Nobody takes a segment into use that a handler is about to delete.
NoNewUsers(k) ==
    h[k].pc = "final" =>
        \A i \in Instances : <<i, h[k].seg>> \in addrs' \cup refs' => <<i, h[k].seg>> \in addrs \cup refs

SameHandler(k) ==
    /\ h'[k].pc = h[k].pc /\ h'[k].seg = h[k].seg /\ h'[k].state = h[k].state
    /\ h'[k].marked = h[k].marked /\ h'[k].next = h[k].next /\ h'[k].releases = h[k].releases

\* A handler to which nothing happens keeps its knowledge.
LEMMA KeptHandler ==
    ASSUME TypeOK, NEW k \in Handlers, SnapshotKept(k), AboutToDelete(k),
           Onward, NoNewUsers(k), SameHandler(k)
    PROVE  SnapshotKept(k)' /\ AboutToDelete(k)'
<1>1. CASE h[k].pc = "idle"
  BY <1>1 DEF SnapshotKept, AboutToDelete, SameHandler
<1>2. CASE h[k].pc # "idle"
  <2>1. h[k].seg \in Segments /\ state[h[k].seg] # "Unborn"
    BY <1>2 DEF SnapshotKept
  <2>2. SnapshotKept(k)'
    BY <1>2, <2>1 DEF SnapshotKept, Onward, SameHandler
  <2>3. AboutToDelete(k)'
    BY <2>1 DEF AboutToDelete, Onward, NoNewUsers, SameHandler
  <2> QED
    BY <2>2, <2>3
<1> QED
  BY <1>1, <1>2

\* A handler that has ended knows nothing.
LEMMA EndedHandler ==
    ASSUME NEW k \in Handlers, h'[k].pc = "idle"
    PROVE  SnapshotKept(k)' /\ AboutToDelete(k)'
BY DEF SnapshotKept, AboutToDelete

\* The API and instances leave what handlers know true.
LEMMA ApiKeepsHandlers ==
    ASSUME TypeOK, UseInv, HandlersSafe,
           \/ \E s \in Segments, n \in Names, v \in Vnis : Create(s, n, v)
           \/ \E i \in Instances, s \in Segments : CreateGenerated(i, s) \/ AllocLock(i, s)
           \/ \E i \in Instances : AllocRead(i) \/ AllocCommit(i) \/ AllocAbort(i)
           \/ \E i \in Instances, S \in SUBSET Segments : ReleaseSegments(i, S)
           \/ \E s \in Segments : AddInterface(s) \/ RemoveInterface(s) \/ MarkCheck(s)
           \/ MarkCommit
    PROVE  HandlersSafe'
<1>1. h' = h
  BY DEF Create, CreateGenerated, AllocLock, AllocRead, AllocCommit, AllocAbort,
         ReleaseSegments, AddInterface, RemoveInterface, MarkCheck, MarkCommit
<1>2. Onward
  <2>1. ASSUME NEW s \in Segments, NEW n \in Names, NEW v \in Vnis, Create(s, n, v) PROVE Onward
    BY <2>1 DEF Create, Onward, TypeOK, Exists
  <2>2. ASSUME NEW i \in Instances, NEW s \in Segments, CreateGenerated(i, s) PROVE Onward
    BY <2>2 DEF CreateGenerated, Onward, TypeOK, Exists
  <2>3. CASE state' = state /\ vni' = vni /\ marked \subseteq marked'
    BY <2>3 DEF Onward, Exists
  <2> QED
    BY <2>1, <2>2, <2>3 DEF AllocLock, AllocRead, AllocCommit, AllocAbort,
         ReleaseSegments, AddInterface, RemoveInterface, MarkCheck, MarkCommit
<1>3. ASSUME NEW k \in Handlers PROVE NoNewUsers(k)
  <2>0. h[k].pc = "final" =>
            h[k].seg \in Segments /\ state[h[k].seg] # "Unborn" /\ ~ExclusiveHeld
    BY DEF HandlersSafe, SnapshotKept, UseInv, TableLock, ShareHeld
  <2>1. ASSUME NEW i \in Instances, NEW s \in Segments, CreateGenerated(i, s) PROVE NoNewUsers(k)
    BY <2>0, <2>1 DEF CreateGenerated, NoNewUsers
  <2>2. ASSUME NEW i \in Instances, AllocCommit(i) PROVE NoNewUsers(k)
    BY <2>0, <2>2 DEF AllocCommit, ExclusiveHeld, NoNewUsers
  <2>3. CASE addrs' \subseteq addrs /\ refs' \subseteq refs
    BY <2>3 DEF NoNewUsers
  <2> QED
    BY <2>1, <2>2, <2>3 DEF Create, AllocLock, AllocRead, AllocAbort,
         ReleaseSegments, AddInterface, RemoveInterface, MarkCheck, MarkCommit
<1>4. ASSUME NEW k \in Handlers PROVE SnapshotKept(k)' /\ AboutToDelete(k)'
  BY <1>1, <1>2, <1>3, KeptHandler DEF HandlersSafe, SameHandler
<1> QED
  BY <1>4 DEF HandlersSafe

\* A handler's own steps: it learns only what is so, and what it does to a
\* segment leaves what the others know true.
LEMMA HandlersKeepHandlers ==
    ASSUME TypeOK, UseInv, HandlersSafe, PoolAccounts,
           \/ \E k \in Handlers, s \in Segments : Load(k, s)
           \/ \E k \in Handlers : HandlerStep(k)
           \/ \E s \in Segments : DrainPeriodEnds(s)
    PROVE  HandlersSafe'
<1>1. UNCHANGED <<addrs, refs, vni>>
  BY DEF Load, HandlerStep, DrainPeriodEnds, HandleProvisioning, HandleReady,
         HandleReadyUnmarked, DrainCheck, DrainCommit, FinalCheck, FinalDelete, PersistState
<1>2. \A k \in Handlers : NoNewUsers(k)
  BY <1>1 DEF NoNewUsers
<1>3. ASSUME NEW s \in Segments, DrainPeriodEnds(s) PROVE HandlersSafe'
  <2>1. Onward /\ h' = h
    BY <1>3 DEF DrainPeriodEnds, Onward, Exists
  <2> QED
    BY <1>2, <2>1, KeptHandler DEF HandlersSafe, SameHandler
<1>4. ASSUME NEW k \in Handlers, NEW s \in Segments, Load(k, s) PROVE HandlersSafe'
  <2>1. Onward
    BY <1>4 DEF Load, Onward, Exists
  <2>2. ASSUME NEW j \in Handlers \ {k} PROVE SnapshotKept(j)' /\ AboutToDelete(j)'
    BY <1>2, <1>4, <2>1, KeptHandler DEF Load, TypeOK, HandlersSafe, SameHandler
  <2>3. SnapshotKept(k)' /\ AboutToDelete(k)'
    BY <1>4 DEF Load, TypeOK, SnapshotKept, AboutToDelete, Exists, Live, UseInv, DrainsOnRequest
  <2> QED
    BY <2>2, <2>3 DEF HandlersSafe
<1>5. ASSUME NEW k \in Handlers, h[k].pc # "idle", NEW new \in Live, PersistState(k, new)
      PROVE  HandlersSafe'
  <2>0. h[k].seg \in Segments
    BY <1>5 DEF HandlersSafe, SnapshotKept
  <2>1. Onward
    BY <1>1, <1>5, <2>0, PersistType DEF PersistState, Onward
  <2>2. ASSUME NEW j \in Handlers \ {k} PROVE SnapshotKept(j)' /\ AboutToDelete(j)'
    <3>1. SameHandler(j)
      BY <1>5 DEF PersistState, SameHandler, TypeOK
    <3> QED
      BY <1>2, <2>1, <3>1, KeptHandler DEF HandlersSafe
  <2>3. h'[k].pc = "idle"
    BY <1>5 DEF PersistState, Idle
  <2> QED
    BY <2>2, <2>3, EndedHandler DEF HandlersSafe
<1>6. ASSUME NEW k \in Handlers, HandlerStep(k) PROVE HandlersSafe'
  <2>0. SnapshotKept(k) /\ AboutToDelete(k)
    BY DEF HandlersSafe
  <2>1. CASE HandleProvisioning(k)
    BY <1>5, <2>1 DEF HandleProvisioning, Live
  <2>2. CASE HandleReady(k)
    BY <1>5, <2>2 DEF HandleReady, Live
  <2>3. CASE DrainCommit(k)
    BY <1>5, <2>0, <2>3 DEF DrainCommit, SnapshotKept, Live
  <2>4. ASSUME UNCHANGED <<state, marked>>, NEW new, h' = [h EXCEPT ![k] = new],
               SnapshotKept(k)', AboutToDelete(k)'
        PROVE  HandlersSafe'
    <3>1. Onward
      BY <1>1, <2>4 DEF Onward, Exists
    <3>2. ASSUME NEW j \in Handlers \ {k} PROVE SnapshotKept(j)' /\ AboutToDelete(j)'
      BY <1>2, <2>4, <3>1, KeptHandler DEF TypeOK, HandlersSafe, SameHandler
    <3> QED
      BY <2>4, <3>2 DEF HandlersSafe
  <2>5. CASE HandleReadyUnmarked(k)
    <3>1. h' = [h EXCEPT ![k] = Idle] /\ h'[k].pc = "idle"
      BY <2>5 DEF HandleReadyUnmarked, Drop, Idle, TypeOK
    <3> QED
      BY <2>4, <2>5, <3>1, EndedHandler DEF HandleReadyUnmarked
  <2>6. CASE DrainCheck(k)
    <3>1. CASE h' = [h EXCEPT ![k] = Idle]
      <4>1. h'[k].pc = "idle"
        BY <3>1 DEF Idle, TypeOK
      <4> QED
        BY <2>4, <2>6, <3>1, <4>1, EndedHandler DEF DrainCheck
    <3>2. ASSUME NEW next \in {"Drain", "DBDelete"},
                 h' = [h EXCEPT ![k].pc = "drained", ![k].next = next]
          PROVE  HandlersSafe'
      <4>1. h' = [h EXCEPT ![k] = [h[k] EXCEPT !.pc = "drained", !.next = next]]
        BY <3>2 DEF TypeOK
      <4>2. SnapshotKept(k)' /\ AboutToDelete(k)'
        BY <2>0, <2>6, <4>1 DEF DrainCheck, SnapshotKept, AboutToDelete, TypeOK, Exists
      <4> QED
        BY <2>4, <2>6, <4>1, <4>2 DEF DrainCheck
    <3> QED
      BY <2>6, <3>1, <3>2 DEF DrainCheck, Drop
  <2>7. CASE FinalCheck(k)
    <3>1. CASE HasAllocations(h[k].seg)
      <4>1. h' = [h EXCEPT ![k] = Idle] /\ h'[k].pc = "idle"
        BY <2>7, <3>1 DEF FinalCheck, Idle, TypeOK
      <4> QED
        BY <2>4, <2>7, <4>1, EndedHandler DEF FinalCheck
    <3>2. CASE ~HasAllocations(h[k].seg)
      <4>1. h' = [h EXCEPT ![k] = [h[k] EXCEPT !.pc = "final", !.releases = Releases(h[k].seg)]]
        BY <2>7, <3>2 DEF FinalCheck
      <4>2. Exists(h[k].seg) => Releases(h[k].seg) = (vni[h[k].seg] # None)
        BY <2>0, <2>7 DEF FinalCheck, SnapshotKept, Releases, PoolAccounts
      <4>3. \A i \in Instances : <<i, h[k].seg>> \notin addrs \cup refs
        BY <3>2 DEF HasAllocations
      <4>4. /\ h'[k].pc = "final" /\ h'[k].seg = h[k].seg /\ h'[k].state = h[k].state
            /\ h'[k].marked = h[k].marked /\ h'[k].releases = Releases(h[k].seg)
        BY <4>1 DEF TypeOK
      <4>5. UNCHANGED <<state, marked>>
        BY <2>7 DEF FinalCheck
      <4>6. AboutToDelete(k)'
        BY <1>1, <4>2, <4>3, <4>4, <4>5 DEF AboutToDelete, Exists
      <4>7. SnapshotKept(k)'
        BY <2>0, <2>7, <4>4, <4>5 DEF FinalCheck, SnapshotKept, Exists
      <4> QED
        BY <2>4, <4>1, <4>5, <4>6, <4>7
    <3> QED
      BY <3>1, <3>2
  <2>8. CASE FinalDelete(k)
    <3>1. Onward
      BY <1>1, <2>8 DEF FinalDelete, Onward, TypeOK, Exists, Live
    <3>2. ASSUME NEW j \in Handlers \ {k} PROVE SnapshotKept(j)' /\ AboutToDelete(j)'
      BY <1>2, <2>8, <3>1, KeptHandler DEF FinalDelete, Drop, TypeOK, HandlersSafe, SameHandler
    <3>3. h'[k].pc = "idle"
      BY <2>8 DEF FinalDelete, Drop, Idle, TypeOK
    <3> QED
      BY <3>2, <3>3, EndedHandler DEF HandlersSafe
  <2> QED
    BY <1>6, <2>1, <2>2, <2>3, <2>5, <2>6, <2>7, <2>8 DEF HandlerStep
<1> QED
  BY <1>3, <1>4, <1>6

-----------------------------------------------------------------------------
(* The pool.                                                               *)

\* Steps that neither create nor delete leave the accounts as they are.
LEMMA PoolFrame ==
    ASSUME TypeOK, ValuesNamed, PoolAccounts, UNCHANGED <<name, vni, pool>>,
           \A s \in Segments : Exists(s)' <=> Exists(s),
           \A s \in Segments : state'[s] = "Unborn" <=> state[s] = "Unborn"
    PROVE  ValuesNamed' /\ PoolAccounts'
BY DEF ValuesNamed, PoolAccounts

\* A value that is free belongs to no segment: the new one gets it alone.
LEMMA CreateKeepsPool ==
    ASSUME TypeOK, ValuesNamed, PoolAccounts,
           NEW s \in Segments, NEW n \in Names, NEW v \in Vnis, Create(s, n, v)
    PROVE  ValuesNamed' /\ PoolAccounts'
<1>1. \A r \in Segments : Exists(r)' <=> Exists(r) \/ r = s
  BY DEF Create, TypeOK, Exists, Live
<1>2. /\ ~Exists(s) /\ vni'[s] = v /\ name'[s] = n /\ pool'[v] = n
      /\ \A r \in Segments \ {s} : vni'[r] = vni[r] /\ name'[r] = name[r] /\ state'[r] = state[r]
      /\ \A w \in Vnis \ {v} : pool'[w] = pool[w]
      /\ pool[v] = None
  BY DEF Create, TypeOK, Exists, Live
<1>4. n # None /\ v # None
  BY NoneAssumption
<1>3. \A r \in Segments : Exists(r) => vni[r] # v
  BY <1>2, <1>4 DEF ValuesNamed, PoolAccounts
<1>5. ValuesNamed'
  BY <1>1, <1>2, <1>4 DEF ValuesNamed, Exists, Live
<1>6. PoolAccounts'
  <2>1. \A r \in Segments : Exists(r)' /\ vni'[r] # None => pool'[vni'[r]] = name'[r]
    BY <1>1, <1>2, <1>3 DEF PoolAccounts, TypeOK
  <2>2. \A r, t \in Segments :
            Exists(r)' /\ Exists(t)' /\ vni'[r] = vni'[t] /\ vni'[r] # None => r = t
    BY <1>1, <1>2, <1>3 DEF PoolAccounts
  <2>3. \A w \in Vnis : pool'[w] # None => \E r \in Segments : Exists(r)' /\ vni'[r] = w
    BY <1>1, <1>2 DEF PoolAccounts
  <2> QED
    BY <2>1, <2>2, <2>3 DEF PoolAccounts
<1> QED
  BY <1>5, <1>6

\* A generated segment has no value.
LEMMA CreateGeneratedKeepsPool ==
    ASSUME TypeOK, ValuesNamed, PoolAccounts,
           NEW i \in Instances, NEW s \in Segments, CreateGenerated(i, s)
    PROVE  ValuesNamed' /\ PoolAccounts'
<1>1. \A r \in Segments : Exists(r)' <=> Exists(r) \/ r = s
  BY DEF CreateGenerated, TypeOK, Exists, Live
<1>2. vni[s] = None /\ UNCHANGED <<name, vni, pool>>
  BY DEF CreateGenerated, ValuesNamed
<1>3. ValuesNamed'
  BY <1>2 DEF CreateGenerated, ValuesNamed, TypeOK
<1>4. PoolAccounts'
  BY <1>1, <1>2 DEF PoolAccounts
<1> QED
  BY <1>3, <1>4

\* The deletion of a segment frees the value of this segment and no other.
LEMMA FinalDeleteKeepsPool ==
    ASSUME TypeOK, ValuesNamed, PoolAccounts, NEW k \in Handlers,
           SnapshotKept(k), AboutToDelete(k), FinalDelete(k)
    PROVE  ValuesNamed' /\ PoolAccounts'
<1> DEFINE s == h[k].seg
<1>0. s \in Segments /\ h[k].pc = "final" /\ UNCHANGED <<name, vni>>
  BY DEF SnapshotKept, FinalDelete
<1>1. CASE ~(Exists(s) /\ s \notin ifaces)
  <2>1. state' = state /\ pool' = pool
    BY <1>1 DEF FinalDelete
  <2> QED
    BY <1>0, <2>1, PoolFrame DEF Exists
<1>2. CASE Exists(s) /\ s \notin ifaces
  <2>1. \A r \in Segments : Exists(r)' <=> Exists(r) /\ r # s
    BY <1>0, <1>2 DEF FinalDelete, TypeOK, Exists, Live
  <2>2. h[k].releases = (vni[s] # None)
    BY <1>0, <1>2 DEF AboutToDelete
  <2>3. vni[s] = None => pool' = pool
    BY <1>2, <2>2 DEF FinalDelete
  <2>4. vni[s] # None => pool' = [pool EXCEPT ![vni[s]] = None]
    BY <1>2, <2>2 DEF FinalDelete
  <2>5. ValuesNamed'
    BY <1>0, <1>2 DEF FinalDelete, ValuesNamed, TypeOK
  <2>6. \A r \in Segments : Exists(r)' /\ vni[r] # None => vni[r] # vni[s] /\ pool'[vni[r]] = name[r]
    BY <1>0, <1>2, <2>1, <2>3, <2>4 DEF PoolAccounts, TypeOK
  <2>7. \A v \in Vnis : pool'[v] # None => pool[v] # None /\ v # vni[s]
    BY <1>0, <2>3, <2>4, NoneAssumption DEF TypeOK
  <2>8. PoolAccounts'
    BY <1>0, <2>1, <2>6, <2>7 DEF PoolAccounts
  <2> QED
    BY <2>5, <2>8
<1> QED
  BY <1>1, <1>2

\* Every step keeps the accounts.
LEMMA NextKeepsPool ==
    ASSUME TypeOK, HandlersSafe, ValuesNamed, PoolAccounts, [Next]_vars
    PROVE  ValuesNamed' /\ PoolAccounts'
<1>1. CASE UNCHANGED <<state, name, vni, pool>>
  BY <1>1, PoolFrame DEF Exists
<1>2. ASSUME NEW k \in Handlers, HandlerStep(k) PROVE ValuesNamed' /\ PoolAccounts'
  <2>0. SnapshotKept(k) /\ AboutToDelete(k)
    BY DEF HandlersSafe
  <2>1. ASSUME h[k].pc # "idle", NEW new \in Live, PersistState(k, new)
        PROVE  ValuesNamed' /\ PoolAccounts'
    BY <2>0, <2>1, PersistType, PoolFrame DEF PersistState, SnapshotKept
  <2>2. CASE HandleProvisioning(k) \/ HandleReady(k) \/ DrainCommit(k)
    BY <2>0, <2>1, <2>2 DEF HandleProvisioning, HandleReady, DrainCommit, SnapshotKept, Live
  <2>3. CASE HandleReadyUnmarked(k) \/ DrainCheck(k) \/ FinalCheck(k)
    BY <1>1, <2>3 DEF HandleReadyUnmarked, DrainCheck, FinalCheck
  <2>4. CASE FinalDelete(k)
    BY <2>0, <2>4, FinalDeleteKeepsPool
  <2> QED
    BY <1>2, <2>2, <2>3, <2>4 DEF HandlerStep
<1>3. CASE UNCHANGED vars
  BY <1>1, <1>3 DEF vars
<1>4. CASE \/ \E i \in Instances, s \in Segments : AllocLock(i, s)
           \/ \E i \in Instances : AllocRead(i) \/ AllocCommit(i) \/ AllocAbort(i)
           \/ \E i \in Instances, S \in SUBSET Segments : ReleaseSegments(i, S)
           \/ \E s \in Segments : AddInterface(s) \/ RemoveInterface(s) \/ MarkCheck(s)
           \/ MarkCommit
           \/ \E k \in Handlers, s \in Segments : Load(k, s)
           \/ \E s \in Segments : DrainPeriodEnds(s)
  BY <1>1, <1>4 DEF AllocLock, AllocRead, AllocCommit, AllocAbort, ReleaseSegments,
                    AddInterface, RemoveInterface, MarkCheck, MarkCommit, Load, DrainPeriodEnds
<1> QED
  BY <1>2, <1>3, <1>4, CreateKeepsPool, CreateGeneratedKeepsPool DEF Next

-----------------------------------------------------------------------------
(* The invariant.                                                          *)

\* The invariant holds at first and is kept by every step.
LEMMA InvHolds == Spec => []Inv
<1>1. Init => Inv
  <2> SUFFICES ASSUME Init PROVE Inv
    OBVIOUS
  <2>1. UseInv /\ HandlersSafe /\ ValuesNamed /\ PoolAccounts
    BY NoneAssumption
       DEF Init, UseInv, TableLock, ReferencesResolve, Targets, ValidatedStays, DrainsOnRequest,
           ExclusiveHeld, ShareHeld, HandlersSafe, SnapshotKept, AboutToDelete, ValuesNamed,
           PoolAccounts, Free, Idle, Exists, Live
  <2> QED
    BY <2>1, InitType DEF Inv
<1>2. Inv /\ [Next]_vars => Inv'
  <2> SUFFICES ASSUME Inv, [Next]_vars PROVE Inv'
    OBVIOUS
  <2>0. TypeOK /\ UseInv /\ HandlersSafe /\ ValuesNamed /\ PoolAccounts
        /\ ReferencesResolve /\ Targets
    BY DEF Inv, UseInv
  <2>1. ValuesNamed' /\ PoolAccounts'
    BY <2>0, NextKeepsPool
  <2>2. CASE \/ \E s \in Segments, n \in Names, v \in Vnis : Create(s, n, v)
             \/ \E i \in Instances, s \in Segments : CreateGenerated(i, s) \/ AllocLock(i, s)
             \/ \E i \in Instances : AllocRead(i) \/ AllocCommit(i) \/ AllocAbort(i)
             \/ \E i \in Instances, S \in SUBSET Segments : ReleaseSegments(i, S)
             \/ \E s \in Segments : AddInterface(s) \/ RemoveInterface(s) \/ MarkCheck(s)
             \/ MarkCommit
    <3>1. TypeOK'
      BY <2>0, <2>2, ApiType
    <3>2. HandlersSafe'
      BY <2>0, <2>2, ApiKeepsHandlers
    <3>3. UseInv'
      BY <2>0, <2>2, CreateKeepsUse, AllocKeepsUse, RequestKeepsUse
    <3> QED
      BY <2>1, <3>1, <3>2, <3>3 DEF Inv
  <2>3. CASE \/ \E k \in Handlers, s \in Segments : Load(k, s)
             \/ \E k \in Handlers : HandlerStep(k)
             \/ \E s \in Segments : DrainPeriodEnds(s)
    BY <2>0, <2>1, <2>3, HandlerStepType, HandlersKeepUse, HandlersKeepHandlers DEF Inv
  <2>4. CASE UNCHANGED vars
    BY <2>0, <2>1, <2>4
       DEF vars, Inv, TypeOK, UseInv, TableLock, ReferencesResolve, Targets, ValidatedStays,
           DrainsOnRequest, ExclusiveHeld, ShareHeld, HandlersSafe, SnapshotKept, AboutToDelete,
           Exists
  <2> QED
    BY <2>2, <2>3, <2>4 DEF Next
<1> QED
  BY <1>1, <1>2, PTL DEF Spec

\* Type correctness of rows, transactions and handlers; only segments that
\* exist are marked for deletion.
THEOREM TypeCorrect == Spec => []TypeOK
<1>1. Inv => TypeOK
  BY DEF Inv
<1> QED
  BY <1>1, InvHolds, PTL

\* The pool and the segments agree, although the owner of a value is a name
\* that several segments may have, and handlers of deleted segments may be
\* under way.
THEOREM PoolSafety == Spec => []PoolAccounts
<1>1. Inv => PoolAccounts
  BY DEF Inv
<1> QED
  BY <1>1, InvHolds, PTL

-----------------------------------------------------------------------------
(* Segments are drained resources.                                         *)

phaseBar == [s \in Segments |-> PhaseOf(s)]
usersBar == [s \in Segments |-> UsersOf(s)]

\* A segment's phase and users depend on the rows alone.
LEMMA DrainedFrame ==
    ASSUME \A s \in Segments : Exists(s)' <=> Exists(s),
           \A s \in Segments : state'[s] = "Unborn" <=> state[s] = "Unborn",
           TypeOK, TypeOK', UNCHANGED <<marked, addrs, refs>>
    PROVE  phaseBar' = phaseBar /\ usersBar' = usersBar
<1>1. \A s \in Segments : PhaseOf(s)' = PhaseOf(s)
  BY DEF PhaseOf, TypeOK, Phases, Exists, Live
<1>2. \A s \in Segments : UsersOf(s)' = UsersOf(s)
  BY DEF UsersOf
<1> QED
  BY <1>1, <1>2 DEF phaseBar, usersBar

\* Creation lets a segment appear, with its first user if it was generated.
LEMMA CreateAppears ==
    ASSUME Inv, NEW s \in Segments, state[s] = "Unborn", state'[s] \in Live, s \notin marked',
           \A r \in Segments \ {s} : state'[r] = state[r],
           marked' = marked,
           \A i \in Instances, r \in Segments \ {s} :
              <<i, r>> \in addrs' \cup refs' <=> <<i, r>> \in addrs \cup refs
    PROVE  Drained!Appear(s)
<1>1. phaseBar[s] = "unborn" /\ phaseBar' = [phaseBar EXCEPT ![s] = "open"]
  <2>1. phaseBar[s] = "unborn" /\ phaseBar'[s] = "open"
    BY DEF phaseBar, PhaseOf, Live
  <2>2. \A r \in Segments \ {s} : phaseBar'[r] = phaseBar[r]
    BY DEF phaseBar, PhaseOf
  <2> QED
    BY <2>1, <2>2 DEF phaseBar
<1>2. \A r \in Segments \ {s} : UsersOf(r)' = UsersOf(r)
  BY DEF UsersOf
<1>3. UsersOf(s)' \in SUBSET Instances
  BY DEF UsersOf
<1>4. usersBar' = [usersBar EXCEPT ![s] = UsersOf(s)']
  <2>1. \A r \in Segments \ {s} : usersBar'[r] = usersBar[r]
    BY <1>2 DEF usersBar, UsersOf
  <2>2. usersBar'[s] = UsersOf(s)'
    BY DEF usersBar
  <2> QED
    BY <2>1, <2>2 DEF usersBar
<1> QED
  BY <1>1, <1>3, <1>4 DEF Drained!Appear, phaseBar, usersBar

\* An allocation takes a segment into use that is open.
LEMMA AllocUses ==
    ASSUME Inv, NEW i \in Instances, AllocCommit(i)
    PROVE  Drained!Use
<1> DEFINE s == alloc[i].seg
<1>1. s \in Segments /\ Exists(s) /\ s \notin marked
  BY DEF AllocCommit, Inv, UseInv, Targets, ValidatedStays
<1>2. phaseBar' = phaseBar /\ phaseBar[s] = "open"
  BY <1>1 DEF AllocCommit, phaseBar, PhaseOf, Exists, Live
<1>3. /\ addrs \subseteq addrs' /\ addrs' \subseteq addrs \cup {<<i, s>>}
      /\ refs \subseteq refs' /\ refs' \subseteq refs \cup {<<i, s>>}
  BY DEF AllocCommit
<1>4. ASSUME NEW r \in Segments
      PROVE  /\ usersBar[r] \subseteq usersBar'[r] /\ usersBar'[r] \subseteq Instances
             /\ usersBar'[r] # usersBar[r] => phaseBar[r] = "open"
  <2>1. r # s => usersBar'[r] = usersBar[r]
    BY <1>3 DEF usersBar, UsersOf
  <2>2. usersBar[r] \subseteq usersBar'[r] /\ usersBar'[r] \subseteq Instances
    BY <1>3 DEF usersBar, UsersOf
  <2> QED
    BY <1>2, <2>1, <2>2
<1>5. usersBar' = [r \in Segments |-> usersBar'[r]]
  BY DEF usersBar
<1> QED
  BY <1>2, <1>4, <1>5 DEF Drained!Use, phaseBar, usersBar

\* Releases and requests only take users away and close segments.
LEMMA RequestCloses ==
    ASSUME Inv, state' = state, addrs' \subseteq addrs, refs' \subseteq refs,
           marked \subseteq marked'
    PROVE  Drained!LeaveAndClose
<1>1. ASSUME NEW r \in Segments PROVE usersBar'[r] \subseteq usersBar[r]
  BY DEF usersBar, UsersOf
<1>2. ASSUME NEW r \in Segments
      PROVE  phaseBar'[r] = phaseBar[r] \/ (phaseBar[r] = "open" /\ phaseBar'[r] = "closed")
  BY DEF phaseBar, PhaseOf
<1>3. /\ usersBar' = [r \in Segments |-> usersBar'[r]]
      /\ phaseBar' = [r \in Segments |-> phaseBar'[r]]
  BY DEF usersBar, phaseBar
<1> QED
  BY <1>1, <1>2, <1>3 DEF Drained!LeaveAndClose, phaseBar, usersBar

\* A segment disappears after its request, when nobody uses it.
LEMMA DeleteDisappears ==
    ASSUME Inv, NEW k \in Handlers, FinalDelete(k), Exists(h[k].seg), h[k].seg \notin ifaces
    PROVE  h[k].seg \in Segments /\ Drained!Disappear(h[k].seg)
<1> DEFINE s == h[k].seg
<1>1. SnapshotKept(k) /\ AboutToDelete(k) /\ h[k].pc = "final"
  BY DEF Inv, HandlersSafe, FinalDelete
<1>2. s \in Segments /\ s \in marked
  BY <1>1 DEF SnapshotKept
<1>3. /\ state' = [state EXCEPT ![s] = "Gone"] /\ marked' = marked \ {s}
      /\ UNCHANGED <<addrs, refs>>
  BY DEF FinalDelete
<1>4. phaseBar[s] = "closed" /\ phaseBar' = [phaseBar EXCEPT ![s] = "gone"]
  <2>1. phaseBar[s] = "closed" /\ phaseBar'[s] = "gone"
    BY <1>2, <1>3 DEF phaseBar, PhaseOf, Inv, TypeOK, Exists, Live
  <2>2. \A r \in Segments \ {s} : phaseBar'[r] = phaseBar[r]
    BY <1>2, <1>3 DEF phaseBar, PhaseOf, Inv, TypeOK
  <2> QED
    BY <2>1, <2>2 DEF phaseBar
<1>5. usersBar[s] = {} /\ usersBar' = usersBar
  BY <1>1, <1>2, <1>3 DEF usersBar, UsersOf, AboutToDelete
<1> QED
  BY <1>2, <1>4, <1>5 DEF Drained!Disappear, phaseBar, usersBar

\* The steps of a handler.
LEMMA HandlerRefines ==
    ASSUME Inv, Inv', NEW k \in Handlers, HandlerStep(k)
    PROVE  [Drained!DNext]_(Drained!dvars)
<1>0. /\ SnapshotKept(k) /\ TypeOK /\ TypeOK'
  BY DEF Inv, HandlersSafe
<1>1. ASSUME UNCHANGED <<state, marked, addrs, refs>> PROVE UNCHANGED Drained!dvars
  BY <1>0, <1>1, DrainedFrame DEF Exists, Drained!dvars, phaseBar, usersBar
<1>2. ASSUME h[k].pc # "idle", NEW new \in Live, PersistState(k, new)
      PROVE  UNCHANGED Drained!dvars
  <2>1. UNCHANGED <<marked, addrs, refs>>
    BY <1>2 DEF PersistState
  <2> QED
    BY <1>0, <1>2, <2>1, PersistType, DrainedFrame
       DEF SnapshotKept, Drained!dvars, phaseBar, usersBar
<1>3. CASE HandleProvisioning(k) \/ HandleReady(k) \/ DrainCommit(k)
  BY <1>0, <1>2, <1>3 DEF HandleProvisioning, HandleReady, DrainCommit, SnapshotKept, Live
<1>4. CASE HandleReadyUnmarked(k) \/ DrainCheck(k) \/ FinalCheck(k)
  BY <1>1, <1>4 DEF HandleReadyUnmarked, DrainCheck, FinalCheck
<1>5. CASE FinalDelete(k)
  <2>1. CASE Exists(h[k].seg) /\ h[k].seg \notin ifaces
    BY <1>5, <2>1, DeleteDisappears DEF Drained!DNext
  <2>2. CASE ~(Exists(h[k].seg) /\ h[k].seg \notin ifaces)
    BY <1>1, <1>5, <2>2 DEF FinalDelete
  <2> QED
    BY <2>1, <2>2
<1> QED
  BY <1>3, <1>4, <1>5 DEF HandlerStep

\* Segments are drained resources: no instance takes a segment into use whose
\* deletion was requested, and no segment disappears under an instance.  The
\* lock on instance_addresses and the counts under it carry the argument,
\* also when several handlers work on one segment.
THEOREM Refinement == Spec => ImplementsDrainedResource
<1>1. Init => Drained!DInit
  BY DEF Init, Drained!DInit, PhaseOf, UsersOf
<1>2. Inv /\ Inv' /\ [Next]_vars => [Drained!DNext]_(Drained!dvars)
  <2> SUFFICES ASSUME Inv, Inv', [Next]_vars PROVE [Drained!DNext]_(Drained!dvars)
    OBVIOUS
  <2>0. TypeOK /\ TypeOK'
    BY DEF Inv
  <2>1. ASSUME UNCHANGED <<state, marked, addrs, refs>> PROVE UNCHANGED Drained!dvars
    BY <2>0, <2>1, DrainedFrame DEF Exists, Drained!dvars, phaseBar, usersBar
  <2>2. ASSUME NEW s \in Segments, NEW n \in Names, NEW v \in Vnis, Create(s, n, v)
        PROVE  Drained!Appear(s)
    BY <2>0, <2>2, CreateAppears DEF Create, TypeOK, Exists, Live
  <2>3. ASSUME NEW i \in Instances, NEW s \in Segments, CreateGenerated(i, s)
        PROVE  Drained!Appear(s)
    BY <2>0, <2>3, CreateAppears DEF CreateGenerated, TypeOK, Exists, Live
  <2>4. ASSUME NEW i \in Instances, NEW S \in SUBSET Segments, ReleaseSegments(i, S)
        PROVE  Drained!LeaveAndClose
    BY <2>4, RequestCloses DEF ReleaseSegments
  <2>5. CASE MarkCommit
    BY <2>5, RequestCloses DEF MarkCommit, Drained!DNext
  <2>6. CASE \/ UNCHANGED vars
             \/ \E i \in Instances, s \in Segments : AllocLock(i, s)
             \/ \E i \in Instances : AllocRead(i) \/ AllocAbort(i)
             \/ \E s \in Segments : AddInterface(s) \/ RemoveInterface(s) \/ MarkCheck(s)
             \/ \E k \in Handlers, s \in Segments : Load(k, s)
             \/ \E s \in Segments : DrainPeriodEnds(s)
    BY <2>1, <2>6 DEF vars, AllocLock, AllocRead, AllocAbort, AddInterface, RemoveInterface,
                      MarkCheck, Load, DrainPeriodEnds
  <2> QED
    BY <2>2, <2>3, <2>4, <2>5, <2>6, AllocUses, HandlerRefines DEF Next, Drained!DNext
<1> QED
  BY <1>1, <1>2, InvHolds, PTL DEF Spec, ImplementsDrainedResource, Drained!DSpec
=============================================================================
