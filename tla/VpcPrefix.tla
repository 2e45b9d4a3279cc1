----------------------------- MODULE VpcPrefix -----------------------------
(***************************************************************************)
(* VPC prefixes: the batches that allocate linknets from them for the      *)
(* interfaces of new or updated instances, the request to delete one, and  *)
(* the controller that drains and deletes it (api-core/src/instance/       *)
(* mod.rs, api-db/src/vpc_prefix.rs, vpc-prefix-controller/src/handler.rs).*)
(*                                                                         *)
(* A batch locks the rows of several prefixes and keeps the locks until it *)
(* commits; the order in which it takes them is what keeps two batches     *)
(* from waiting for each other.  The advisory lock of tenant_prefix_overlap*)
(* serializes the batches of servers that take it; this module does not    *)
(* rely on it, as the allocation code says of itself.                      *)
(*                                                                         *)
(* All prefixes are of ONE VPC.  The code orders the work by (VPC, family, *)
(* prefix); here prefixes are numbers in the order of (family, id), IPv4   *)
(* first.  Batches over several VPCs are not modelled.  The candidates of  *)
(* an interface are tried in this order, so that a set and its least       *)
(* element stand for the list and the position in it.  The order in which  *)
(* the interfaces that wait for one prefix are served is left open.        *)
(***************************************************************************)
EXTENDS PrefixAllocator

CONSTANTS V4, V6,         \* the prefixes of each family
          Size,           \* linknets of a prefix
          Batches,        \* allocating transactions
          MaxInterfaces,  \* interfaces of a batch
          MaxAttempts,    \* PREFIX_ALLOCATION_TOTAL_ATTEMPTS
          MaxDirect,      \* linknets taken by writers that lock nothing
          Handlers        \* concurrent state handlers

VpcPrefixes == V4 \cup V6

ASSUME ConstantsAssumption ==
    /\ VpcPrefixes \subseteq Nat /\ IsFiniteSet(VpcPrefixes)
    /\ \A p \in V4, q \in V6 : p < q
    /\ Size \in Nat \ {0} /\ MaxInterfaces \in Nat /\ MaxAttempts \in Nat \ {0}
    /\ MaxDirect \in Nat
    /\ None \notin Batches \cup VpcPrefixes

VARIABLES
    state,     \* controller_state, "Unborn" before and "Gone" after the row
    marked,    \* prefixes with a deletion timestamp
    due,       \* prefixes whose delete_at has passed
    cursor,    \* last_used_prefix: the linknet used last, or None
    rows,      \* network_prefixes: <<prefix, linknet, owner>>
    direct,    \* linknets of other rows, which refer to no VPC prefix
    lock,      \* the batch that has locked the row of a prefix
    txn,       \* the batches
    h          \* the handlers and what each one has read

vars == <<state, marked, due, cursor, rows, direct, lock, txn, h>>

Linknets == 0 .. Size - 1
Adopted(p, c) == <<None, p * Size + c>>
Owners == (Batches \X (1 .. MaxInterfaces))
              \cup {Adopted(p, c) : p \in VpcPrefixes, c \in Linknets}
Exists(p) == state[p] \notin {"Unborn", "Gone"}

NoPending == [p \in VpcPrefixes |-> {}]
NewTxn == [pc |-> "idle", pending |-> NoPending, linknet |-> None,
           attempts |-> 0, new |-> {}, cursor |-> [p \in VpcPrefixes |-> None]]
Idle == [pc |-> "idle", p |-> None, state |-> "Gone", marked |-> FALSE,
         next |-> "Gone", current |-> FALSE]

Init ==
    /\ state = [p \in VpcPrefixes |-> "Unborn"]
    /\ marked = {} /\ due = {}
    /\ cursor = [p \in VpcPrefixes |-> None]
    /\ rows = {} /\ direct = {}
    /\ lock = [p \in VpcPrefixes |-> None]
    /\ txn = [b \in Batches |-> NewTxn]
    /\ h = [k \in Handlers |-> Idle]

\* A new prefix adopts the segments of its VPC that lie in its range; those
\* without a VPC stay as they are.
Create(p) ==
    /\ state[p] = "Unborn"
    /\ state' = [state EXCEPT ![p] = "Provisioning"]
    /\ \E A \in SUBSET {d \in direct : d[1] = p} :
          /\ rows' = rows \cup {<<p, d[2], Adopted(p, d[2])>> : d \in A}
          /\ direct' = direct \ A
    /\ UNCHANGED <<marked, due, cursor, lock, txn, h>>

-----------------------------------------------------------------------------
(* A batch of allocations.                                                 *)

\* Mutant: a prefix that is marked for deletion is still given out.
ActiveIfThere(p) == Exists(p)

\* A prefix that can be allocated from.
Active(p) == Exists(p) /\ p \notin marked

\* What an interface asks for: any prefix of the VPC or a certain one, and
\* for a dual-stack interface the same of the other family.
Selections(F) == {F} \cup {{p} : p \in F}
Interfaces == [v4 : Selections(V4), v6 : Selections(V6) \cup {{}}]

\* Plan: the candidates are read without a lock and never read again.  Every
\* interface has a linknet of the first family and perhaps one of the other.
Plan(b, ifs) ==
    LET Work(i, S) == [iface |-> i, candidates |-> {p \in S : Active(p)}]
        works == {Work(i, ifs[i].v4) : i \in DOMAIN ifs} \cup
                 {Work(i, ifs[i].v6) : i \in {j \in DOMAIN ifs : ifs[j].v6 # {}}}
    IN  /\ txn[b].pc = "idle"
        /\ \A w \in works : w.candidates # {}
        /\ txn' = [txn EXCEPT ![b] = [NewTxn EXCEPT !.pc = "run",
              !.pending = [p \in VpcPrefixes |-> {w \in works : Min(w.candidates) = p}]]]
        /\ UNCHANGED <<state, marked, due, cursor, rows, direct, lock, h>>

Waiting(b) == {p \in VpcPrefixes : txn[b].pending[p] # {}}

\* Mutant: the interfaces of a group are served in the caller's order.
CallerOrder(b) ==
    LET Group == IF Waiting(b) \cap V4 # {} THEN Waiting(b) \cap V4 ELSE Waiting(b)
    IN  CHOOSE p \in Group : \E w \in txn[b].pending[p] :
            \A q \in Group : \A v \in txn[b].pending[q] : w.iface <= v.iface

\* Mutant: the last entry of the map is taken.
LastCandidate(b) == Max(Waiting(b))

\* pending.pop_first, group after group.
Candidate(b) == Min(Waiting(b))

\* Mutant: the row is read without FOR NO KEY UPDATE.
NeverLocked(b, p) == TRUE

Lockable(b, p) == lock[p] \in {None, b}

\* The row locks that b would hold if the savepoint on p were rolled back.
Kept(b, p) == \E r \in txn[b].new : r[1] = p
Rollback(b, p) == IF Kept(b, p) THEN lock ELSE [lock EXCEPT ![p] = None]

Unlocked(b) == [p \in VpcPrefixes |-> IF lock[p] = b THEN None ELSE lock[p]]

\* Mutant: a failed batch does not end its transaction.
FailKeepsLocks(b) ==
    /\ txn' = [txn EXCEPT ![b] = [NewTxn EXCEPT !.pc = "ended"]]
    /\ UNCHANGED lock

\* An error rolls the whole batch back.
Fail(b) ==
    /\ txn' = [txn EXCEPT ![b] = [NewTxn EXCEPT !.pc = "ended"]]
    /\ lock' = Unlocked(b)

Taken(p) == {c \in Linknets : <<p, c>> \in direct \/ \E o \in Owners : <<p, c, o>> \in rows}

\* next_free_prefix on what is committed and what b itself has inserted.
NextFree(b, p) ==
    LET occupied == Taken(p) \cup {r[2] : r \in {x \in txn[b].new : x[1] = p}}
        last == IF Kept(b, p) THEN txn[b].cursor[p] ELSE cursor[p]
    IN  NextFit(Linknets \ occupied, IF last = None THEN 0 ELSE (last + 1) % Size)

Found(b) ==
    LET p == Candidate(b)
    IN  /\ txn[b].pc = "run" /\ Waiting(b) # {}
        /\ Lockable(b, p) /\ Active(p) /\ NextFree(b, p) # None
        /\ lock' = [lock EXCEPT ![p] = b]
        /\ txn' = [txn EXCEPT ![b].pc = "chosen", ![b].linknet = NextFree(b, p)]
        /\ UNCHANGED <<state, marked, due, cursor, rows, direct, h>>

\* Mutant: the work stays with the candidate that is exhausted.
StayWithCandidate(b, p) == txn[b].pending

\* advance_prefix_work for all that wait for p.
Advance(b, p) ==
    LET moved == {[w EXCEPT !.candidates = @ \ {p}] : w \in txn[b].pending[p]}
    IN  [q \in VpcPrefixes |-> IF q = p THEN {}
                               ELSE txn[b].pending[q] \cup {w \in moved : Min(w.candidates) = q}]

\* The candidate is exhausted or was deleted: its savepoint is rolled back,
\* and whatever has no other candidate fails the batch.  The next candidate
\* has all its attempts.
Unavailable(b) ==
    LET p == Candidate(b)
    IN  /\ txn[b].pc = "run" /\ Waiting(b) # {}
        /\ Lockable(b, p) /\ (~Active(p) \/ NextFree(b, p) = None)
        /\ IF \E w \in txn[b].pending[p] : w.candidates = {p}
           THEN Fail(b)
           ELSE /\ txn' = [txn EXCEPT ![b].pending = Advance(b, p), ![b].attempts = 0]
                /\ UNCHANGED lock
        /\ UNCHANGED <<state, marked, due, cursor, rows, direct, h>>

\* The exclusion constraint refuses a linknet that was taken after the read.
Conflict(b) == txn[b].linknet \in Taken(Candidate(b))

Insert(b) ==
    LET p == Candidate(b)
    IN  /\ txn[b].pc = "chosen" /\ ~Conflict(b)
        /\ \E w \in txn[b].pending[p] :
              txn' = [txn EXCEPT ![b].pc = "run", ![b].attempts = 0, ![b].linknet = None,
                                 ![b].pending[p] = @ \ {w},
                                 ![b].cursor[p] = txn[b].linknet,
                                 ![b].new = @ \cup {<<p, txn[b].linknet, <<b, w.iface>>>>}]
        /\ UNCHANGED <<state, marked, due, cursor, rows, direct, lock, h>>

Retry(b) ==
    /\ txn[b].pc = "chosen" /\ Conflict(b)
    /\ IF txn[b].attempts + 1 = MaxAttempts
       THEN Fail(b)
       ELSE /\ txn' = [txn EXCEPT ![b].pc = "run", ![b].linknet = None, ![b].attempts = @ + 1]
            /\ lock' = Rollback(b, Candidate(b))
    /\ UNCHANGED <<state, marked, due, cursor, rows, direct, h>>

Commit(b) ==
    /\ txn[b].pc = "run" /\ Waiting(b) = {}
    /\ rows' = rows \cup txn[b].new
    /\ cursor' = [p \in VpcPrefixes |-> IF Kept(b, p) THEN txn[b].cursor[p] ELSE cursor[p]]
    /\ txn' = [txn EXCEPT ![b] = [NewTxn EXCEPT !.pc = "ended"]]
    /\ lock' = Unlocked(b)
    /\ UNCHANGED <<state, marked, due, direct, h>>

Abort(b) ==
    /\ txn[b].pc \in {"run", "chosen"}
    /\ Fail(b)
    /\ UNCHANGED <<state, marked, due, cursor, rows, direct, h>>

\* A segment with a prefix of its own; rows of two writers never overlap.
DirectInsert(p, c) ==
    /\ Cardinality(direct) + Cardinality({r \in rows : r[3][1] = None}) < MaxDirect
    /\ c \notin Taken(p)
    /\ \A b \in Batches : \A r \in txn[b].new : ~(r[1] = p /\ r[2] = c)
    /\ direct' = direct \cup {<<p, c>>}
    /\ UNCHANGED <<state, marked, due, cursor, rows, lock, txn, h>>

\* A segment is deleted with its prefixes of both families.
ReleaseSegment(o) ==
    /\ \E r \in rows : r[3] = o
    /\ rows' = {r \in rows : r[3] # o}
    /\ UNCHANGED <<state, marked, due, cursor, direct, lock, txn, h>>

-----------------------------------------------------------------------------
(* Deletion.                                                               *)

\* mark_as_deleted waits for the row lock.
MarkAsDeleted(p) ==
    /\ Active(p) /\ lock[p] = None
    /\ marked' = marked \cup {p}
    /\ UNCHANGED <<state, due, cursor, rows, direct, lock, txn, h>>

Load(k, p) ==
    /\ h[k].pc = "idle" /\ Exists(p)
    /\ h' = [h EXCEPT ![k] = [pc |-> "loaded", p |-> p, state |-> state[p],
                              marked |-> p \in marked, next |-> "Gone", current |-> TRUE]]
    /\ UNCHANGED <<state, marked, due, cursor, rows, direct, lock, txn>>

HasReferences(p) == \E r \in rows : r[1] = p

\* Mutant: the deadline is looked at before the references.
DeadlineFirst(refs, over) == IF over THEN "DBDelete" ELSE IF refs THEN "Drain" ELSE "wait"

\* Mutant: delete_at is set again whenever it has not passed.
DrainRearms(refs, over) == IF refs \/ ~over THEN "Drain" ELSE "DBDelete"

\* DrainNetworkPrefixes: references set delete_at again.
DrainNext(refs, over) == IF refs THEN "Drain" ELSE IF over THEN "DBDelete" ELSE "wait"

NextState(k) ==
    CASE h[k].state = "Provisioning" -> IF h[k].marked THEN "Drain" ELSE "Ready"
      [] h[k].state = "Ready" -> IF h[k].marked THEN "Drain" ELSE "wait"
      [] h[k].state = "Drain" -> DrainNext(HasReferences(h[k].p), h[k].p \in due)
      [] h[k].state = "DBDelete" -> "Gone"

Decide(k) ==
    /\ h[k].pc = "loaded"
    /\ h' = [h EXCEPT ![k] = IF NextState(k) = "wait" THEN Idle
                             ELSE [@ EXCEPT !.pc = "decided", !.next = NextState(k)]]
    /\ UNCHANGED <<state, marked, due, cursor, rows, direct, lock, txn>>

\* try_update_controller_state compares the version: another handler of the
\* same prefix may have been faster.
PersistState(k) ==
    LET p == h[k].p
    IN  /\ h[k].pc = "decided" /\ h[k].next # "Gone"
        /\ lock[p] = None
        /\ IF h[k].current /\ Exists(p)
           THEN /\ state' = [state EXCEPT ![p] = h[k].next]
                /\ due' = due \ {p}
                /\ h' = [j \in Handlers |-> IF j = k THEN Idle
                            ELSE IF h[j].p = p THEN [h[j] EXCEPT !.current = FALSE] ELSE h[j]]
           ELSE /\ h' = [h EXCEPT ![k] = Idle]
                /\ UNCHANGED <<state, due>>
        /\ UNCHANGED <<marked, cursor, rows, direct, lock, txn>>

\* final_delete; the foreign key of network_prefixes would refuse it.
FinalDelete(k) ==
    LET p == h[k].p
    IN  /\ h[k].pc = "decided" /\ h[k].next = "Gone"
        /\ lock[p] = None
        /\ state' = IF HasReferences(p) THEN state ELSE [state EXCEPT ![p] = "Gone"]
        /\ h' = [h EXCEPT ![k] = Idle]
        /\ UNCHANGED <<marked, due, cursor, rows, direct, lock, txn>>

DrainPeriodEnds(p) ==
    /\ state[p] = "Drain" /\ p \notin due
    /\ due' = due \cup {p}
    /\ UNCHANGED <<state, marked, cursor, rows, direct, lock, txn, h>>

-----------------------------------------------------------------------------
BatchStep(b) == Found(b) \/ Unavailable(b) \/ Insert(b) \/ Retry(b) \/ Commit(b)
HandlerStep(k) == Decide(k) \/ PersistState(k) \/ FinalDelete(k)

Next ==
    \/ \E p \in VpcPrefixes : Create(p) \/ MarkAsDeleted(p) \/ DrainPeriodEnds(p)
    \/ \E b \in Batches, n \in 1 .. MaxInterfaces :
          \E ifs \in [1 .. n -> Interfaces] : Plan(b, ifs)
    \/ \E b \in Batches : BatchStep(b) \/ Abort(b)
    \/ \E p \in VpcPrefixes, c \in Linknets : DirectInsert(p, c)
    \/ \E o \in Owners : ReleaseSegment(o)
    \/ \E k \in Handlers : HandlerStep(k)
    \/ \E k \in Handlers, p \in VpcPrefixes : Load(k, p)

Spec == Init /\ [][Next]_vars

(***************************************************************************)
(* Fairness: a batch goes on until it ends, every prefix is taken up by    *)
(* some handler again and again, handlers get past their row lock, and the *)
(* clock runs.  Users need not do anything.  A handler that fails is not a *)
(* step of its own: what it has done is as if it had never loaded.         *)
(***************************************************************************)
FairSpec ==
    /\ Spec
    /\ \A b \in Batches : WF_vars(BatchStep(b))
    /\ \A k \in Handlers : WF_vars(HandlerStep(k))
    /\ \A p \in VpcPrefixes : /\ SF_vars(\E k \in Handlers : Load(k, p))
                             /\ WF_vars(DrainPeriodEnds(p))

-----------------------------------------------------------------------------
(* Properties.                                                             *)

States == {"Unborn", "Provisioning", "Ready", "Drain", "DBDelete", "Gone"}
Works == [iface : 1 .. MaxInterfaces, candidates : SUBSET VpcPrefixes]
Rows == VpcPrefixes \X Linknets \X Owners

TypeOK ==
    /\ state \in [VpcPrefixes -> States]
    /\ marked \subseteq VpcPrefixes /\ due \subseteq VpcPrefixes
    /\ cursor \in [VpcPrefixes -> Linknets \cup {None}]
    /\ rows \subseteq Rows /\ direct \subseteq VpcPrefixes \X Linknets
    /\ lock \in [VpcPrefixes -> Batches \cup {None}]
    /\ txn \in [Batches -> [pc : {"idle", "run", "chosen", "ended"},
                            pending : [VpcPrefixes -> SUBSET Works],
                            linknet : Linknets \cup {None}, attempts : 0 .. MaxAttempts - 1,
                            new : SUBSET Rows, cursor : [VpcPrefixes -> Linknets \cup {None}]]]
    /\ \A b \in Batches, p \in VpcPrefixes : lock[p] = b => txn[b].pc \in {"run", "chosen"}
    /\ h \in [Handlers -> [pc : {"idle", "loaded", "decided"}, p : VpcPrefixes \cup {None},
                           state : States, marked : BOOLEAN, next : States, current : BOOLEAN]]

(***************************************************************************)
(* Batches never wait for each other in a circle: in every set of batches  *)
(* there is one that waits for none of the set (instance/mod.rs:1434).     *)
(***************************************************************************)
NoWaitCycle ==
    LET Blocked(b, B) == /\ txn[b].pc = "run" /\ Waiting(b) # {}
                         /\ lock[Candidate(b)] \in B \ {b}
    IN  \A B \in SUBSET Batches : B # {} => \E b \in B : ~Blocked(b, B)

(***************************************************************************)
(* A linknet that a batch has chosen is not taken by another batch before  *)
(* it is inserted: only a writer outside of the protocol can make an       *)
(* insert fail (instance/mod.rs:879).                                      *)
(***************************************************************************)
ChosenStaysFree ==
    \A b \in Batches : txn[b].pc = "chosen" =>
        \A o \in Owners : <<Candidate(b), txn[b].linknet, o>> \notin rows

(***************************************************************************)
(* The second family of an interface comes when the segment of the first   *)
(* is there, to which it is attached (instance/mod.rs:1504).               *)
(***************************************************************************)
PrimaryFirst ==
    \A b \in Batches : (txn[b].pc = "chosen" /\ Candidate(b) \in V6) =>
        \A w \in txn[b].pending[Candidate(b)] :
            \E r \in txn[b].new : r[1] \in V4 /\ r[3] = <<b, w.iface>>

(***************************************************************************)
(* When a prefix is in DBDelete nothing refers to it any more, although    *)
(* the handler does not look again: final_delete never meets the foreign   *)
(* key.                                                                    *)
(***************************************************************************)
DeleteMeetsNoReference == \A p \in VpcPrefixes : state[p] = "DBDelete" => ~HasReferences(p)

\* What the prefixes are to their users.
Phase(p) == IF state[p] = "Unborn" THEN "unborn"
            ELSE IF state[p] = "Gone" THEN "gone"
            ELSE IF p \in marked THEN "closed" ELSE "open"
UsersOf(p) == {r[3] : r \in {x \in rows : x[1] = p}}

Drained == INSTANCE DrainedResource WITH
    Resources <- VpcPrefixes, Users <- Owners,
    phase <- [p \in VpcPrefixes |-> Phase(p)], users <- [p \in VpcPrefixes |-> UsersOf(p)]

(***************************************************************************)
(* They are drained resources: no batch takes a prefix into use after its  *)
(* deletion was requested, and it goes when the last linknet has gone.     *)
(***************************************************************************)
ImplementsDrainedResource == Drained!DSpec

(***************************************************************************)
(* A prefix that was asked to go and is no longer referred to is deleted.  *)
(***************************************************************************)
RequestedDeletionHappens ==
    \A p \in VpcPrefixes : (p \in marked /\ []~HasReferences(p)) ~> state[p] = "Gone"

(***************************************************************************)
(* Every batch ends.                                                       *)
(***************************************************************************)
BatchesEnd == \A b \in Batches : txn[b].pc = "run" ~> txn[b].pc = "ended"
=============================================================================
