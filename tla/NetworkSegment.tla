--------------------------- MODULE NetworkSegment ---------------------------
(***************************************************************************)
(* The life of network segments: creation with a VNI (and VLAN id) from a  *)
(* resource pool, address allocation by instances, the request to delete,  *)
(* and the controller that drains and finally deletes a segment            *)
(* (network-segment-controller/src/handler.rs, api-db/src/                 *)
(* network_segment.rs, instance_address.rs, resource_pool.rs).             *)
(*                                                                         *)
(* Every transaction that reads before it writes is split at the reads.    *)
(* instance_addresses and instances hold no foreign key to                 *)
(* network_segments: what keeps a referenced segment alive is the table    *)
(* lock on instance_addresses, exclusive for an allocation and shared for  *)
(* whoever counts allocations.  Two handlers may work on the same segment, *)
(* as after a claim that expired.                                          *)
(***************************************************************************)
EXTENDS Naturals, FiniteSets

CONSTANTS Segments,    \* segment ids; an id is never used again
          Names,       \* segment names; not unique in the database
          Vnis,        \* values of the pool (VNI and VLAN id are alike)
          Instances,   \* tenants of addresses
          Handlers,    \* concurrent state handlers
          None         \* no value

ASSUME NoneAssumption == None \notin Names \cup Vnis \cup Segments

VARIABLES
    state,      \* controller_state, "Unborn" before and "Gone" after the row
    marked,     \* segments with a deletion timestamp
    due,        \* segments whose delete_at has passed
    generated,  \* segments made for an interface on a VPC prefix
    name,       \* config.name, the owner of the pool value
    vni,        \* status.vni / status.vlan_id
    pool,       \* resource_pool: the owner of each value, None if free
    addrs,      \* rows of instance_addresses
    refs,       \* segments named by current or pending instance configs
    ifaces,     \* segments with rows in machine_interfaces
    alloc,      \* the allocating transaction of each instance
    marker,     \* the transaction of one delete request
    h           \* the handlers and what each one has read

vars == <<state, marked, due, generated, name, vni, pool, addrs, refs,
          ifaces, alloc, marker, h>>

Live == {"Provisioning", "Ready", "Drain", "DBDelete"}
Exists(s) == state[s] \in Live

\* segment_has_allocations: machine interfaces, instance addresses, or a
\* configuration; the last protects prefixes assigned by SLAAC, which have
\* no address row.
HasAllocations(s) ==
    \/ s \in ifaces
    \/ \E i \in Instances : <<i, s>> \in addrs \cup refs

Free == [pc |-> "idle", seg |-> None]
Idle == [pc |-> "idle", seg |-> None, state |-> "Gone", marked |-> FALSE,
         current |-> FALSE, next |-> "Gone", releases |-> FALSE]

\* Mutant: the allocation does not lock the table.
NothingLocked == FALSE

\* The modes in which instance_addresses is locked.
ExclusiveHeld == \E i \in Instances : alloc[i].pc # "idle"
ShareHeld == \/ marker.pc # "idle"
             \/ \E k \in Handlers : h[k].pc \in {"drained", "final"}

Init ==
    /\ state = [s \in Segments |-> "Unborn"]
    /\ marked = {} /\ due = {} /\ generated = {}
    /\ name = [s \in Segments |-> None]
    /\ vni = [s \in Segments |-> None]
    /\ pool = [v \in Vnis |-> None]
    /\ addrs = {} /\ refs = {} /\ ifaces = {}
    /\ alloc = [i \in Instances |-> Free]
    /\ marker = Free
    /\ h = [k \in Handlers |-> Idle]

-----------------------------------------------------------------------------
(* Creation.                                                               *)

\* save: a value of the pool for the name, then the row; the segments of the
\* configuration file start in Ready.  (An underlay segment takes no value,
\* like a generated one.)
Create(s, n, v) ==
    /\ state[s] = "Unborn"
    /\ pool[v] = None
    /\ pool' = [pool EXCEPT ![v] = n]
    /\ \E initial \in {"Provisioning", "Ready"} : state' = [state EXCEPT ![s] = initial]
    /\ name' = [name EXCEPT ![s] = n]
    /\ vni' = [vni EXCEPT ![s] = v]
    /\ UNCHANGED <<marked, due, generated, addrs, refs, ifaces, alloc,
                   marker, h>>

\* A segment generated for an interface on a VPC prefix starts in Ready and
\* takes nothing from the pools.  It commits with the instance's reference.
CreateGenerated(i, s) ==
    /\ state[s] = "Unborn"
    /\ ~ExclusiveHeld /\ ~ShareHeld
    /\ state' = [state EXCEPT ![s] = "Ready"]
    /\ generated' = generated \cup {s}
    /\ \E slaac \in BOOLEAN :
          addrs' = IF slaac THEN addrs ELSE addrs \cup {<<i, s>>}
    /\ refs' = refs \cup {<<i, s>>}
    /\ UNCHANGED <<marked, due, name, vni, pool, ifaces, alloc, marker, h>>

-----------------------------------------------------------------------------
(* Allocation of addresses to an instance.                                 *)

\* lock_table_for_allocation waits for every other lock on the table.
AllocLock(i, s) ==
    /\ alloc[i].pc = "idle"
    /\ ~ExclusiveHeld /\ ~ShareHeld
    /\ alloc' = [alloc EXCEPT ![i] = [pc |-> "locked", seg |-> s]]
    /\ UNCHANGED <<state, marked, due, generated, name, vni, pool, addrs,
                   refs, ifaces, marker, h>>

Usable(s) == state[s] = "Ready" /\ s \notin marked

\* find_by and validate: unknown, deleted and unready segments are refused.
AllocRead(i) ==
    /\ alloc[i].pc = "locked"
    /\ alloc' = [alloc EXCEPT ![i] =
                    IF Usable(@.seg) THEN [@ EXCEPT !.pc = "validated"] ELSE Free]
    /\ UNCHANGED <<state, marked, due, generated, name, vni, pool, addrs,
                   refs, ifaces, marker, h>>

\* The rows and the configuration become visible together.
AllocCommit(i) ==
    /\ alloc[i].pc = "validated"
    /\ \E slaac \in BOOLEAN :
          addrs' = IF slaac THEN addrs ELSE addrs \cup {<<i, alloc[i].seg>>}
    /\ refs' = refs \cup {<<i, alloc[i].seg>>}
    /\ alloc' = [alloc EXCEPT ![i] = Free]
    /\ UNCHANGED <<state, marked, due, generated, name, vni, pool, ifaces,
                   marker, h>>

AllocAbort(i) ==
    /\ alloc[i].pc # "idle"
    /\ alloc' = [alloc EXCEPT ![i] = Free]
    /\ UNCHANGED <<state, marked, due, generated, name, vni, pool, addrs,
                   refs, ifaces, marker, h>>

\* An instance gives up some segments (ReleaseOldResources) or all of them
\* (instance::delete); generated ones are marked without validation in the
\* same transaction.  Deleting address rows waits for an allocation's lock.
ReleaseSegments(i, S) ==
    /\ ~ExclusiveHeld
    /\ S # {} /\ \A s \in S : <<i, s>> \in refs
    /\ addrs' = addrs \ ({i} \X S)
    /\ refs' = refs \ ({i} \X S)
    /\ marked' = marked \cup (S \cap generated)
    /\ UNCHANGED <<state, due, generated, name, vni, pool, ifaces, alloc,
                   marker, h>>

\* DHCP creates machine interfaces on any existing segment, also on one
\* marked for deletion; the foreign key is all that it checks.
AddInterface(s) ==
    /\ Exists(s) /\ s \notin ifaces
    /\ ifaces' = ifaces \cup {s}
    /\ UNCHANGED <<state, marked, due, generated, name, vni, pool, addrs,
                   refs, alloc, marker, h>>

RemoveInterface(s) ==
    /\ s \in ifaces
    /\ ifaces' = ifaces \ {s}
    /\ UNCHANGED <<state, marked, due, generated, name, vni, pool, addrs,
                   refs, alloc, marker, h>>

-----------------------------------------------------------------------------
(* The request to delete.                                                  *)

\* mark_as_deleted counts the three kinds of references first; the counts
\* keep a shared lock until the transaction ends.
MarkCheck(s) ==
    /\ marker.pc = "idle"
    /\ ~ExclusiveHeld
    /\ Exists(s)
    /\ ~HasAllocations(s)
    /\ marker' = [pc |-> "counted", seg |-> s]
    /\ UNCHANGED <<state, marked, due, generated, name, vni, pool, addrs,
                   refs, ifaces, alloc, h>>

\* Mutant: the number of updated rows is not looked at.
MarkCommitBlind ==
    /\ marker.pc = "counted"
    /\ marked' = marked \cup {marker.seg}
    /\ marker' = Free
    /\ UNCHANGED <<state, due, generated, name, vni, pool, addrs, refs,
                   ifaces, alloc, h>>

\* The UPDATE fails if the controller has deleted the row meanwhile.
MarkCommit ==
    /\ marker.pc = "counted"
    /\ marked' = IF Exists(marker.seg) THEN marked \cup {marker.seg} ELSE marked
    /\ marker' = Free
    /\ UNCHANGED <<state, due, generated, name, vni, pool, addrs, refs,
                   ifaces, alloc, h>>

-----------------------------------------------------------------------------
(* The state handler.                                                      *)

\* A handler loads a snapshot of the segment.
Load(k, s) ==
    /\ h[k].pc = "idle"
    /\ Exists(s)
    /\ h' = [h EXCEPT ![k] = [pc |-> "loaded", seg |-> s, state |-> state[s],
                              marked |-> s \in marked, current |-> TRUE,
                              next |-> state[s], releases |-> FALSE]]
    /\ UNCHANGED <<state, marked, due, generated, name, vni, pool, addrs,
                   refs, ifaces, alloc, marker>>

Drop(k) == h' = [h EXCEPT ![k] = Idle]

\* Handler k commits its transition if no other transition of the segment
\* has committed since it loaded the snapshot (try_update_controller_state
\* compares the version, which every transition increments).
PersistState(k, new) ==
    LET s == h[k].seg
        ok == h[k].current /\ Exists(s) IN
    /\ state' = IF ok THEN [state EXCEPT ![s] = new] ELSE state
    /\ due' = IF ok /\ new = "Drain" THEN due \ {s} ELSE due
    /\ h' = [j \in Handlers |->
                IF j = k THEN Idle
                ELSE IF ok /\ h[j].seg = s THEN [h[j] EXCEPT !.current = FALSE]
                ELSE h[j]]
    /\ UNCHANGED <<marked, generated, name, vni, pool, addrs, refs, ifaces,
                   alloc, marker>>

\* Provisioning is left at once.
HandleProvisioning(k) ==
    /\ h[k].pc = "loaded" /\ h[k].state = "Provisioning"
    /\ PersistState(k, "Ready")

\* Ready: a segment marked for deletion starts to drain.
HandleReady(k) ==
    /\ h[k].pc = "loaded" /\ h[k].state = "Ready"
    /\ h[k].marked
    /\ PersistState(k, "Drain")

HandleReadyUnmarked(k) ==
    /\ h[k].pc = "loaded" /\ h[k].state = "Ready"
    /\ ~h[k].marked
    /\ Drop(k)
    /\ UNCHANGED <<state, marked, due, generated, name, vni, pool, addrs,
                   refs, ifaces, alloc, marker>>

\* Mutant: the handler arms delete_at also when it only has to wait.
DrainCheckRearms(k) ==
    LET s == h[k].seg IN
    /\ h[k].pc = "loaded" /\ h[k].state = "Drain"
    /\ ~ExclusiveHeld
    /\ h' = [h EXCEPT ![k].pc = "drained",
                      ![k].next = IF ~HasAllocations(s) /\ s \in due
                                    THEN "DBDelete" ELSE "Drain"]
    /\ UNCHANGED <<state, marked, due, generated, name, vni, pool, addrs,
                   refs, ifaces, alloc, marker>>

\* DrainAllocatedIps: allocations re-arm delete_at; none and delete_at
\* passed, the row may go.  The check's lock is kept until the commit.
DrainCheck(k) ==
    LET s == h[k].seg IN
    /\ h[k].pc = "loaded" /\ h[k].state = "Drain"
    /\ ~ExclusiveHeld
    /\ IF HasAllocations(s)
         THEN h' = [h EXCEPT ![k].pc = "drained", ![k].next = "Drain"]
         ELSE IF s \in due
           THEN h' = [h EXCEPT ![k].pc = "drained", ![k].next = "DBDelete"]
           ELSE Drop(k)
    /\ UNCHANGED <<state, marked, due, generated, name, vni, pool, addrs,
                   refs, ifaces, alloc, marker>>

DrainCommit(k) ==
    /\ h[k].pc = "drained"
    /\ PersistState(k, h[k].next)

\* release gives a value back only if the owner is still the expected one.
Releases(s) == vni[s] # None /\ pool[vni[s]] = name[s]

\* The entry stays locked by the transaction that releases it.
PoolEntryLocked(v) ==
    \E j \in Handlers : h[j].pc = "final" /\ h[j].releases /\ vni[h[j].seg] = v

\* DBDelete: release the pool values, then final_delete counts again.
FinalCheck(k) ==
    LET s == h[k].seg IN
    /\ h[k].pc = "loaded" /\ h[k].state = "DBDelete"
    /\ ~ExclusiveHeld
    /\ vni[s] # None => ~PoolEntryLocked(vni[s])
    /\ h' = [h EXCEPT ![k] = IF HasAllocations(s) THEN Idle
                             ELSE [@ EXCEPT !.pc = "final", !.releases = Releases(s)]]
    /\ UNCHANGED <<state, marked, due, generated, name, vni, pool, addrs,
                   refs, ifaces, alloc, marker>>

\* Mutant: a DELETE that finds no row is taken for a success.
FinalDeleteBlind(k) ==
    LET s == h[k].seg
        ok == s \notin ifaces IN
    /\ h[k].pc = "final"
    /\ state' = IF ok THEN [state EXCEPT ![s] = "Gone"] ELSE state
    /\ pool' = IF ok /\ h[k].releases THEN [pool EXCEPT ![vni[s]] = None] ELSE pool
    /\ marked' = IF ok THEN marked \ {s} ELSE marked
    /\ due' = IF ok THEN due \ {s} ELSE due
    /\ Drop(k)
    /\ UNCHANGED <<generated, name, vni, addrs, refs, ifaces, alloc, marker>>

\* The row is deleted and the transaction commits.  A row that another
\* handler has deleted, or one a machine interface refers to, makes the
\* DELETE fail, and the release of the pool value is rolled back with it.
\* A Deleted outcome compares no version.
FinalDelete(k) ==
    LET s == h[k].seg
        ok == Exists(s) /\ s \notin ifaces IN
    /\ h[k].pc = "final"
    /\ state' = IF ok THEN [state EXCEPT ![s] = "Gone"] ELSE state
    /\ pool' = IF ok /\ h[k].releases THEN [pool EXCEPT ![vni[s]] = None] ELSE pool
    /\ marked' = IF ok THEN marked \ {s} ELSE marked
    /\ due' = IF ok THEN due \ {s} ELSE due
    /\ Drop(k)
    /\ UNCHANGED <<generated, name, vni, addrs, refs, ifaces, alloc, marker>>

\* The clock passes delete_at.
DrainPeriodEnds(s) ==
    /\ state[s] = "Drain" /\ s \notin due
    /\ due' = due \cup {s}
    /\ UNCHANGED <<state, marked, generated, name, vni, pool, addrs, refs,
                   ifaces, alloc, marker, h>>

HandlerStep(k) ==
    \/ HandleProvisioning(k) \/ HandleReady(k) \/ HandleReadyUnmarked(k)
    \/ DrainCheck(k) \/ DrainCommit(k) \/ FinalCheck(k) \/ FinalDelete(k)

Next ==
    \/ \E s \in Segments, n \in Names, v \in Vnis : Create(s, n, v)
    \/ \E i \in Instances, s \in Segments : CreateGenerated(i, s)
    \/ \E i \in Instances, s \in Segments : AllocLock(i, s)
    \/ \E i \in Instances : AllocRead(i) \/ AllocCommit(i) \/ AllocAbort(i)
    \/ \E i \in Instances, S \in SUBSET Segments : ReleaseSegments(i, S)
    \/ \E s \in Segments : AddInterface(s) \/ RemoveInterface(s)
    \/ \E s \in Segments : MarkCheck(s)
    \/ MarkCommit
    \/ \E k \in Handlers, s \in Segments : Load(k, s)
    \/ \E k \in Handlers : HandlerStep(k)
    \/ \E s \in Segments : DrainPeriodEnds(s)

Spec == Init /\ [][Next]_vars

(***************************************************************************)
(* Fairness: the controller takes up every segment again and again and its *)
(* steps run; PostgreSQL grants table locks in the order of the requests,  *)
(* so that a handler that waits is not overtaken forever; transactions     *)
(* that hold a lock end; time passes.  A handler that fails is not a step  *)
(* of its own: its transaction is rolled back, and what it has done is as  *)
(* if it had never loaded the segment.                                     *)
(***************************************************************************)
Fairness ==
    /\ \A s \in Segments : /\ SF_vars(\E k \in Handlers : Load(k, s))
                          /\ WF_vars(DrainPeriodEnds(s))
    /\ SF_vars(\E k \in Handlers : HandlerStep(k))
    /\ \A i \in Instances : WF_vars(AllocRead(i) \/ AllocCommit(i))
    /\ WF_vars(MarkCommit)

FairSpec == Spec /\ Fairness

-----------------------------------------------------------------------------
(* Properties.                                                             *)

Phases == Live \cup {"Unborn", "Gone"}

TypeOK ==
    /\ state \in [Segments -> Phases]
    /\ marked \subseteq {s \in Segments : Exists(s)}
    /\ due \subseteq Segments /\ generated \subseteq Segments
    /\ name \in [Segments -> Names \cup {None}]
    /\ vni \in [Segments -> Vnis \cup {None}]
    /\ pool \in [Vnis -> Names \cup {None}]
    /\ addrs \subseteq Instances \X Segments
    /\ refs \subseteq Instances \X Segments
    /\ ifaces \subseteq Segments
    /\ alloc \in [Instances -> [pc : {"idle", "locked", "validated"},
                                seg : Segments \cup {None}]]
    /\ marker \in [pc : {"idle", "counted"}, seg : Segments \cup {None}]
    /\ h \in [Handlers -> [pc : {"idle", "loaded", "drained", "final"},
                            seg : Segments \cup {None},
                            state : Phases, marked : BOOLEAN,
                            current : BOOLEAN, next : Phases,
                            releases : BOOLEAN]]

(***************************************************************************)
(* The pool and the segments agree: the value of every segment is          *)
(* allocated to its name, no two segments share a value, and no value is   *)
(* allocated to a segment that is gone.  Ownership is not a generation     *)
(* (resource_pool.rs:511): a late handler of a deleted segment must not    *)
(* release the value of a new segment with the same name.                  *)
(***************************************************************************)
PoolAccounts ==
    /\ \A s \in Segments : Exists(s) /\ vni[s] # None => pool[vni[s]] = name[s]
    /\ \A s, t \in Segments :
          Exists(s) /\ Exists(t) /\ vni[s] = vni[t] /\ vni[s] # None => s = t
    /\ \A v \in Vnis : pool[v] # None =>
          \E s \in Segments : Exists(s) /\ vni[s] = v

(***************************************************************************)
(* The segments are drained resources whose users are the instances: no    *)
(* address or configuration is given on a segment whose deletion was       *)
(* requested, and none outlives its segment.  No foreign key says so: it   *)
(* rests on the order of the lock on instance_addresses, the reads and the *)
(* second count of final_delete.                                           *)
(***************************************************************************)
PhaseOf(s) ==
    IF state[s] = "Unborn" THEN "unborn"
    ELSE IF state[s] = "Gone" THEN "gone"
    ELSE IF s \in marked THEN "closed" ELSE "open"

UsersOf(s) == {i \in Instances : <<i, s>> \in addrs \cup refs}

Drained == INSTANCE DrainedResource
    WITH Resources <- Segments, Users <- Instances,
         phase <- [s \in Segments |-> PhaseOf(s)],
         users <- [s \in Segments |-> UsersOf(s)]

ImplementsDrainedResource == Drained!DSpec

(***************************************************************************)
(* A segment whose deletion was requested is deleted once nothing uses it  *)
(* any more.                                                               *)
(***************************************************************************)
RequestedDeletionHappens ==
    \A s \in Segments :
        (<>[](s \in marked => ~HasAllocations(s))) =>
            [](s \in marked => <>(s \notin marked))
=============================================================================
