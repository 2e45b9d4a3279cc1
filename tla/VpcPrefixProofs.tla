-------------------------- MODULE VpcPrefixProofs --------------------------
(***************************************************************************)
(* Theorems about VpcPrefix, for every set of prefixes, every size of a    *)
(* prefix, and any number of batches, interfaces, attempts and handlers:   *)
(* type correctness, the absence of wait cycles, what a batch has chosen,  *)
(* the order of the two families, and that prefixes are drained resources. *)
(***************************************************************************)
EXTENDS VpcPrefix, TLAPS, FiniteSetTheorems, WellFoundedInduction

-----------------------------------------------------------------------------
(* The inductive invariant.                                                *)

\* A locked prefix can be allocated from, and the batch that has locked it
\* never goes back behind it.
LocksAscend(b) ==
    \A p \in VpcPrefixes : lock[p] = b =>
        /\ txn[b].pc \in {"run", "chosen"}
        /\ Active(p)
        /\ \A q \in Waiting(b) : p <= q

\* Works wait for the first of their candidates, which are of one family.
WorksSorted(b) ==
    \A p \in VpcPrefixes : \A w \in txn[b].pending[p] :
        /\ p \in w.candidates
        /\ \A q \in w.candidates : p <= q
        /\ w.candidates \subseteq V4 \/ w.candidates \subseteq V6

\* A batch holds the locks of the prefixes it has inserted into.
InsertedLocked(b) == \A r \in txn[b].new : lock[r[1]] = b

\* Each interface that waits for its second family waits for the first one
\* as well or has it.
Primary(b, i) ==
    \/ \E p \in V4 : \E w \in txn[b].pending[p] : w.iface = i
    \/ \E r \in txn[b].new : r[1] \in V4 /\ r[3] = <<b, i>>
SecondaryWaits(b) == \A p \in V6 : \A w \in txn[b].pending[p] : Primary(b, w.iface)

\* What a batch has chosen is in a prefix that it has locked.
ChosenLocked(b) ==
    txn[b].pc = "chosen" => /\ Waiting(b) # {} /\ lock[Candidate(b)] = b
                            /\ txn[b].linknet \in Linknets

BatchSafe(b) == /\ LocksAscend(b) /\ WorksSorted(b) /\ InsertedLocked(b)
                /\ SecondaryWaits(b) /\ ChosenLocked(b)
BatchInv == \A b \in Batches : BatchSafe(b)

\* Only prefixes that were asked to go drain, and nobody asks for one that has
\* never been there.
DrainsOnRequest ==
    \A p \in VpcPrefixes : /\ state[p] \in {"Drain", "DBDelete"} => p \in marked
                           /\ p \in marked => state[p] # "Unborn"

\* A handler's snapshot is of a prefix that was there, a request that it has
\* seen is still there, and what it has decided follows from it.
SnapshotKept(k) ==
    h[k].pc # "idle" =>
        /\ h[k].p \in VpcPrefixes /\ state[h[k].p] # "Unborn"
        /\ h[k].state \in {"Provisioning", "Ready", "Drain", "DBDelete"}
        /\ h[k].marked \/ h[k].state \in {"Drain", "DBDelete"} => h[k].p \in marked
DecisionHolds(k) ==
    h[k].pc = "decided" =>
        /\ h[k].next \in {"Ready", "Drain", "DBDelete", "Gone"}
        /\ h[k].next # "Ready" => h[k].p \in marked
        /\ h[k].next = "DBDelete" => ~HasReferences(h[k].p)

HandlersSafe == \A k \in Handlers : SnapshotKept(k) /\ DecisionHolds(k)

Inv == /\ TypeOK /\ BatchInv /\ ChosenStaysFree
       /\ DrainsOnRequest /\ HandlersSafe /\ DeleteMeetsNoReference

-----------------------------------------------------------------------------
(* The operators.                                                          *)

\* Every set of numbers has a least element, and Min is it.
LEMMA LeastNat ==
  ASSUME NEW S \in SUBSET Nat, S # {}
  PROVE  Min(S) \in S /\ \A x \in S : Min(S) <= x
<1>1. PICK x \in S : \A y \in S : ~(<<y, x>> \in OpToRel(<, Nat))
  <2> DEFINE R == OpToRel(<, Nat)
  <2>1. IsWellFoundedOn(R, Nat)
    BY NatLessThanWellFounded
  <2> HIDE DEF R
  <2>2. \E x \in S : \A y \in S : ~(<<y, x>> \in R)
    BY <2>1, WFMin
  <2> QED
    BY <2>2 DEF R
<1>2. \A y \in S : x <= y
  <2> SUFFICES ASSUME NEW y \in S PROVE x <= y
    OBVIOUS
  <2>1. ~(y < x)
    BY <1>1 DEF OpToRel
  <2> QED
    BY <2>1
<1> QED
  BY <1>2 DEF Min

LEMMA PrefixFacts ==
  /\ VpcPrefixes \in SUBSET Nat /\ IsFiniteSet(VpcPrefixes)
  /\ None \notin VpcPrefixes /\ None \notin Batches
  /\ V4 \subseteq VpcPrefixes /\ V6 \subseteq VpcPrefixes
  /\ \A p \in V4, q \in V6 : p < q
  /\ \A p \in VpcPrefixes : p \in V4 \/ p \in V6
  /\ \A p \in V4 : p \notin V6
<1>1. \A p \in V4 : p \notin V6
  <2> SUFFICES ASSUME NEW p \in V4, p \in V6 PROVE FALSE
    OBVIOUS
  <2>1. p \in Nat /\ p < p
    BY ConstantsAssumption DEF VpcPrefixes
  <2> QED
    BY <2>1
<1> QED
  BY <1>1, ConstantsAssumption DEF VpcPrefixes

\* The candidate is the least prefix that a batch still waits for.
LEMMA CandidateIsLeast ==
  ASSUME NEW b, Waiting(b) # {}
  PROVE  /\ Candidate(b) \in VpcPrefixes /\ txn[b].pending[Candidate(b)] # {}
         /\ Candidate(b) \in Waiting(b)
         /\ \A q \in Waiting(b) : Candidate(b) <= q
<1>1. Waiting(b) \in SUBSET Nat
  BY PrefixFacts DEF Waiting
<1>2. Min(Waiting(b)) \in Waiting(b) /\ \A q \in Waiting(b) : Min(Waiting(b)) <= q
  BY <1>1, LeastNat
<1> QED
  BY <1>2 DEF Candidate, Waiting

\* next_free_prefix returns a linknet that neither a committed row nor the
\* batch itself uses.
LEMMA NextFreeIsFree ==
  ASSUME NEW b \in Batches, NEW p \in VpcPrefixes, NextFree(b, p) # None
  PROVE  NextFree(b, p) \in Linknets /\ NextFree(b, p) \notin Taken(p)
<1> DEFINE occupied == Taken(p) \cup {r[2] : r \in {x \in txn[b].new : x[1] = p}}
           last == IF Kept(b, p) THEN txn[b].cursor[p] ELSE cursor[p]
           start == IF last = None THEN 0 ELSE (last + 1) % Size
           free == Linknets \ occupied
           upper == {i \in free : i >= start}
<1>1. NextFree(b, p) = IF free = {} THEN None ELSE Min(IF upper # {} THEN upper ELSE free)
  BY DEF NextFree, NextFit
<1>2. free \in SUBSET Nat /\ upper \in SUBSET Nat
  BY ConstantsAssumption DEF Linknets
<1>3. free # {}
  BY <1>1
<1>4. CASE upper # {}
  BY <1>1, <1>2, <1>3, <1>4, LeastNat
<1>5. CASE upper = {}
  BY <1>1, <1>2, <1>3, <1>5, LeastNat
<1> QED
  BY <1>4, <1>5

\* A batch whose works do not change waits for the same prefixes.
LEMMA SameWaiting ==
  ASSUME NEW b, txn'[b].pending = txn[b].pending
  PROVE  Waiting(b)' = Waiting(b) /\ Candidate(b)' = Candidate(b)
<1>1. Waiting(b)' = Waiting(b)
  BY DEF Waiting
<1> QED
  BY <1>1 DEF Candidate

-----------------------------------------------------------------------------
(* The steps of batches.                                                   *)

Txns == [pc : {"idle", "run", "chosen", "ended"}, pending : [VpcPrefixes -> SUBSET Works],
         linknet : Linknets \cup {None}, attempts : 0 .. MaxAttempts - 1,
         new : SUBSET Rows, cursor : [VpcPrefixes -> Linknets \cup {None}]]

\* A step of b changes no other batch, and no lock but its own.
OnlyOwn(b) ==
    /\ \A c \in Batches : c # b => txn'[c] = txn[c]
    /\ \A p \in VpcPrefixes :
          lock'[p] = lock[p] \/ (lock[p] \in {None, b} /\ lock'[p] \in {None, b})

LEMMA BatchTypes ==
  ASSUME TypeOK
  PROVE  /\ txn \in [Batches -> Txns]
         /\ lock \in [VpcPrefixes -> Batches \cup {None}]
BY DEF TypeOK, Txns

LEMMA OthersKept ==
  ASSUME TypeOK, BatchInv, NEW b \in Batches, OnlyOwn(b), NEW c \in Batches, c # b,
         UNCHANGED <<state, marked>>
  PROVE  BatchSafe(c)'
<1>0. txn'[c] = txn[c] /\ c # None
  BY PrefixFacts DEF OnlyOwn
<1>1. Waiting(c)' = Waiting(c) /\ Candidate(c)' = Candidate(c)
  BY <1>0, SameWaiting
<1>2. \A p \in VpcPrefixes : lock'[p] = c <=> lock[p] = c
  BY <1>0 DEF OnlyOwn
<1>3. BatchSafe(c)
  BY DEF BatchInv
<1>4. LocksAscend(c)'
  BY <1>0, <1>1, <1>2, <1>3 DEF BatchSafe, LocksAscend, Active, Exists
<1>5. WorksSorted(c)' /\ SecondaryWaits(c)'
  BY <1>0, <1>3 DEF BatchSafe, WorksSorted, SecondaryWaits, Primary
<1>6. InsertedLocked(c)'
  <2>1. \A r \in txn[c].new : r[1] \in VpcPrefixes
    BY BatchTypes DEF Txns, Rows
  <2> QED
    BY <1>0, <1>2, <1>3, <2>1 DEF BatchSafe, InsertedLocked
<1>7. ChosenLocked(c)'
  BY <1>0, <1>1, <1>2, <1>3, CandidateIsLeast DEF BatchSafe, ChosenLocked
<1> QED
  BY <1>4, <1>5, <1>6, <1>7 DEF BatchSafe

LEMMA OwnStep ==
  ASSUME TypeOK, BatchInv, NEW b \in Batches, OnlyOwn(b), BatchSafe(b)',
         UNCHANGED <<state, marked>>
  PROVE  BatchInv'
BY OthersKept DEF BatchInv

LEMMA NewTxnType == NewTxn \in Txns /\ [NewTxn EXCEPT !.pc = "ended"] \in Txns
<1>1. NoPending \in [VpcPrefixes -> SUBSET Works]
  BY DEF NoPending
<1> QED
  BY <1>1, ConstantsAssumption DEF NewTxn, Txns

\* The end of a batch releases all of its locks.
LEMMA FailSafe ==
  ASSUME TypeOK, BatchInv, NEW b \in Batches, Fail(b), UNCHANGED <<state, marked>>
  PROVE  /\ txn' \in [Batches -> Txns] /\ lock' \in [VpcPrefixes -> Batches \cup {None}]
         /\ txn'[b].pc = "ended" /\ OnlyOwn(b) /\ BatchInv'
<1>0. b # None
  BY PrefixFacts
<1>1. txn' \in [Batches -> Txns] /\ lock' \in [VpcPrefixes -> Batches \cup {None}]
  BY BatchTypes, NewTxnType DEF Fail, Unlocked
<1>2. txn'[b] = [NewTxn EXCEPT !.pc = "ended"]
  BY BatchTypes DEF Fail
<1>3. /\ txn'[b].pc = "ended" /\ txn'[b].new = {}
      /\ \A p \in VpcPrefixes : txn'[b].pending[p] = {}
  BY <1>2 DEF NewTxn, NoPending
<1>4. OnlyOwn(b)
  BY BatchTypes DEF OnlyOwn, Fail, Unlocked
<1>5. \A p \in VpcPrefixes : lock'[p] # b
  BY <1>0 DEF Fail, Unlocked
<1>6. BatchSafe(b)'
  BY <1>3, <1>5, PrefixFacts DEF BatchSafe, LocksAscend, WorksSorted, InsertedLocked,
                                 SecondaryWaits, ChosenLocked
<1> QED
  BY <1>1, <1>3, <1>4, <1>6, OwnStep

\* What a step of a batch has to establish.
StepSafe(b) ==
    /\ txn' \in [Batches -> Txns]
    /\ lock' \in [VpcPrefixes -> Batches \cup {None}]
    /\ OnlyOwn(b)
    /\ BatchInv'

LEMMA PlanSafe ==
  ASSUME TypeOK, BatchInv, NEW b \in Batches, NEW n \in 1 .. MaxInterfaces,
         NEW ifs \in [1 .. n -> Interfaces], Plan(b, ifs)
  PROVE  StepSafe(b) /\ txn'[b].pc = "run"
<1> DEFINE Work(i, S) == [iface |-> i, candidates |-> {p \in S : Active(p)}]
           firsts == {Work(i, ifs[i].v4) : i \in DOMAIN ifs}
           seconds == {Work(i, ifs[i].v6) : i \in {j \in DOMAIN ifs : ifs[j].v6 # {}}}
           works == firsts \cup seconds
           pending == [p \in VpcPrefixes |-> {w \in works : Min(w.candidates) = p}]
           t == [NewTxn EXCEPT !.pc = "run", !.pending = pending]
<1>0. /\ txn[b].pc = "idle"
      /\ \A w \in works : w.candidates # {}
      /\ txn' = [txn EXCEPT ![b] = t]
      /\ UNCHANGED <<state, marked, due, cursor, rows, direct, lock, h>>
  BY DEF Plan
<1>1. \A i \in 1 .. n : i \in 1 .. MaxInterfaces /\ ifs[i].v4 \subseteq V4 /\ ifs[i].v6 \subseteq V6
  BY ConstantsAssumption DEF Interfaces, Selections
<1>2. \A w \in firsts : w \in Works /\ w.candidates \subseteq V4
  <2> SUFFICES ASSUME NEW i \in 1 .. n
               PROVE  /\ Work(i, ifs[i].v4) \in Works
                      /\ Work(i, ifs[i].v4).candidates \subseteq V4
    OBVIOUS
  <2>1. {p \in ifs[i].v4 : Active(p)} \subseteq V4 /\ i \in 1 .. MaxInterfaces
    BY <1>1
  <2> QED
    BY <2>1, PrefixFacts DEF Works
<1>3. \A w \in seconds : /\ w \in Works /\ w.candidates \subseteq V6
                         /\ \E v \in firsts : v.iface = w.iface
  <2> SUFFICES ASSUME NEW i \in 1 .. n
               PROVE  /\ Work(i, ifs[i].v6) \in Works
                      /\ Work(i, ifs[i].v6).candidates \subseteq V6
                      /\ \E v \in firsts : v.iface = Work(i, ifs[i].v6).iface
    OBVIOUS
  <2>1. {p \in ifs[i].v6 : Active(p)} \subseteq V6 /\ i \in 1 .. MaxInterfaces
    BY <1>1
  <2>2. Work(i, ifs[i].v4) \in firsts /\ Work(i, ifs[i].v4).iface = Work(i, ifs[i].v6).iface
    OBVIOUS
  <2> QED
    BY <2>1, <2>2, PrefixFacts DEF Works
<1> HIDE DEF firsts, seconds
<1>4. \A w \in works : /\ w.candidates \subseteq Nat
                       /\ Min(w.candidates) \in w.candidates
                       /\ \A q \in w.candidates : Min(w.candidates) <= q
  <2> SUFFICES ASSUME NEW w \in works
               PROVE  /\ w.candidates \subseteq Nat /\ Min(w.candidates) \in w.candidates
                      /\ \A q \in w.candidates : Min(w.candidates) <= q
    OBVIOUS
  <2>1. w.candidates # {} /\ w.candidates \in SUBSET Nat
    BY <1>0, <1>2, <1>3, PrefixFacts
  <2> QED
    BY <2>1, LeastNat
<1>5. pending \in [VpcPrefixes -> SUBSET Works]
  BY <1>2, <1>3
<1>6. t \in Txns
  BY <1>5, NewTxnType DEF Txns
<1>7. txn' \in [Batches -> Txns] /\ OnlyOwn(b)
  BY <1>0, <1>6, BatchTypes DEF OnlyOwn
<1>8. txn'[b] = t
  BY <1>0, BatchTypes
<1>9. txn'[b].pc = "run" /\ txn'[b].pending = pending /\ txn'[b].new = {}
  BY <1>8 DEF NewTxn
<1>10. \A p \in VpcPrefixes : lock'[p] # b
  BY <1>0 DEF BatchInv, BatchSafe, LocksAscend
<1>11. WorksSorted(b)'
  <2> SUFFICES ASSUME NEW p \in VpcPrefixes, NEW w \in pending[p]
               PROVE  /\ p \in w.candidates /\ \A q \in w.candidates : p <= q
                      /\ w.candidates \subseteq V4 \/ w.candidates \subseteq V6
    BY <1>9 DEF WorksSorted
  <2>1. w \in works /\ Min(w.candidates) = p
    OBVIOUS
  <2> QED
    BY <2>1, <1>2, <1>3, <1>4
<1>12. SecondaryWaits(b)'
  <2> SUFFICES ASSUME NEW p \in V6, NEW w \in pending[p]
               PROVE  \E q \in V4 : \E v \in pending[q] : v.iface = w.iface
    BY <1>9 DEF SecondaryWaits, Primary
  <2>1. w \in works /\ Min(w.candidates) = p
    BY PrefixFacts
  <2>2. w \in seconds
    <3>1. p \in w.candidates /\ p \notin V4
      BY <1>4, <2>1, PrefixFacts
    <3> QED
      BY <1>2, <2>1, <3>1
  <2>3. PICK v \in firsts : v.iface = w.iface
    BY <1>3, <2>2
  <2>4. Min(v.candidates) \in V4
    BY <1>2, <1>4
  <2> QED
    BY <2>3, <2>4, PrefixFacts
<1>13. BatchSafe(b)'
  BY <1>9, <1>10, <1>11, <1>12 DEF BatchSafe, LocksAscend, InsertedLocked, ChosenLocked
<1> QED
  BY <1>0, <1>7, <1>9, <1>13, OwnStep, BatchTypes DEF StepSafe

LEMMA FoundSafe ==
  ASSUME TypeOK, BatchInv, NEW b \in Batches, Found(b)
  PROVE  /\ StepSafe(b)
         /\ Candidate(b)' = Candidate(b) /\ txn'[b].linknet \notin Taken(Candidate(b))
<1> DEFINE p == Candidate(b)
<1>0. /\ txn[b].pc = "run" /\ Waiting(b) # {}
      /\ lock[p] \in {None, b} /\ Active(p) /\ NextFree(b, p) # None
      /\ lock' = [lock EXCEPT ![p] = b]
      /\ txn' = [txn EXCEPT ![b].pc = "chosen", ![b].linknet = NextFree(b, p)]
      /\ UNCHANGED <<state, marked, due, cursor, rows, direct, h>>
  BY DEF Found, Lockable
<1>1. p \in VpcPrefixes /\ p \in Waiting(b) /\ \A q \in Waiting(b) : p <= q
  BY <1>0, CandidateIsLeast
<1> HIDE DEF p
<1>2. NextFree(b, p) \in Linknets /\ NextFree(b, p) \notin Taken(p)
  BY <1>0, <1>1, NextFreeIsFree
<1>3. /\ txn'[b].pc = "chosen" /\ txn'[b].linknet = NextFree(b, p)
      /\ txn'[b].pending = txn[b].pending /\ txn'[b].new = txn[b].new
  BY <1>0, BatchTypes DEF Txns
<1>4. Waiting(b)' = Waiting(b) /\ Candidate(b)' = Candidate(b)
  BY <1>3, SameWaiting
<1>5. txn' \in [Batches -> Txns] /\ lock' \in [VpcPrefixes -> Batches \cup {None}]
  <2>1. [txn[b] EXCEPT !.pc = "chosen", !.linknet = NextFree(b, p)] \in Txns
    BY <1>2, BatchTypes DEF Txns
  <2>2. txn' = [txn EXCEPT ![b] = [txn[b] EXCEPT !.pc = "chosen", !.linknet = NextFree(b, p)]]
    BY <1>0, BatchTypes
  <2> QED
    BY <1>0, <2>1, <2>2, BatchTypes
<1>6. OnlyOwn(b)
  BY <1>0, <1>1, BatchTypes DEF OnlyOwn
<1>7. BatchSafe(b)
  BY DEF BatchInv
<1>8. LocksAscend(b)'
  BY <1>0, <1>1, <1>3, <1>4, <1>7, BatchTypes DEF BatchSafe, LocksAscend, Active, Exists
<1>9. WorksSorted(b)' /\ SecondaryWaits(b)'
  BY <1>3, <1>7 DEF BatchSafe, WorksSorted, SecondaryWaits, Primary
<1>10. InsertedLocked(b)'
  BY <1>0, <1>3, <1>7, BatchTypes DEF BatchSafe, InsertedLocked, Txns, Rows
<1>11. ChosenLocked(b)'
  BY <1>0, <1>1, <1>2, <1>3, <1>4, BatchTypes DEF ChosenLocked, p, Linknets
<1> QED
  BY <1>0, <1>2, <1>3, <1>4, <1>5, <1>6, <1>8, <1>9, <1>10, <1>11, OwnStep
  DEF BatchSafe, StepSafe, p

\* Works that move on wait for a later candidate of the same family.
LEMMA AdvanceMovesOn ==
  ASSUME TypeOK, NEW b \in Batches, WorksSorted(b), NEW p \in VpcPrefixes,
         ~ \E w \in txn[b].pending[p] : w.candidates = {p}
  PROVE  /\ Advance(b, p) \in [VpcPrefixes -> SUBSET Works]
         /\ \A q \in VpcPrefixes : \A v \in Advance(b, p)[q] :
               \/ v \in txn[b].pending[q] /\ q # p
               \/ \E w \in txn[b].pending[p] :
                     /\ p < q /\ q \in v.candidates /\ v.iface = w.iface
                     /\ \A x \in v.candidates : q <= x
                     /\ v.candidates \subseteq w.candidates
         /\ \A w \in txn[b].pending[p] : \E q \in w.candidates :
               \E v \in Advance(b, p)[q] : v.iface = w.iface
         /\ \A q \in VpcPrefixes : q # p => txn[b].pending[q] \subseteq Advance(b, p)[q]
<1> DEFINE Less(w) == [w EXCEPT !.candidates = @ \ {p}]
           moved == {Less(w) : w \in txn[b].pending[p]}
           A == [q \in VpcPrefixes |->
                    IF q = p THEN {}
                    ELSE txn[b].pending[q] \cup {w \in moved : Min(w.candidates) = q}]
<1>0. Advance(b, p) = A
  BY DEF Advance
<1>1. \A q \in VpcPrefixes : txn[b].pending[q] \subseteq Works
  BY BatchTypes DEF Txns
<1>2. \A w \in txn[b].pending[p] :
         /\ Less(w) \in Works /\ Less(w).iface = w.iface
         /\ Less(w).candidates = w.candidates \ {p}
         /\ Min(Less(w).candidates) \in Less(w).candidates
         /\ \A x \in Less(w).candidates : Min(Less(w).candidates) <= x
         /\ p < Min(Less(w).candidates)
         /\ Min(Less(w).candidates) \in VpcPrefixes /\ Min(Less(w).candidates) # p
  <2> SUFFICES ASSUME NEW w \in txn[b].pending[p]
               PROVE  /\ Less(w) \in Works /\ Less(w).iface = w.iface
                      /\ Less(w).candidates = w.candidates \ {p}
                      /\ Min(Less(w).candidates) \in Less(w).candidates
                      /\ \A x \in Less(w).candidates : Min(Less(w).candidates) <= x
                      /\ p < Min(Less(w).candidates)
                      /\ Min(Less(w).candidates) \in VpcPrefixes
                      /\ Min(Less(w).candidates) # p
    OBVIOUS
  <2>1. w \in Works /\ w.candidates \subseteq VpcPrefixes
    BY <1>1 DEF Works
  <2>2. Less(w) \in Works /\ Less(w).iface = w.iface /\ Less(w).candidates = w.candidates \ {p}
    BY <2>1 DEF Works
  <2> HIDE DEF Less
  <2>3. p \in w.candidates /\ w.candidates # {p} /\ \A x \in w.candidates : p <= x
    BY DEF WorksSorted
  <2>4. Less(w).candidates \in SUBSET Nat /\ Less(w).candidates # {}
    BY <2>1, <2>2, <2>3, PrefixFacts
  <2>5. /\ Min(Less(w).candidates) \in Less(w).candidates
        /\ \A x \in Less(w).candidates : Min(Less(w).candidates) <= x
    BY <2>4, LeastNat
  <2> DEFINE m == Min(Less(w).candidates)
  <2> HIDE DEF m
  <2>6. m \in w.candidates /\ m # p
    BY <2>2, <2>5 DEF m
  <2>7. m \in VpcPrefixes
    BY <2>1, <2>6
  <2>8. p < m
    <3>1. p \in Nat /\ m \in Nat
      BY <2>7, PrefixFacts
    <3> QED
      BY <2>3, <2>6, <3>1
  <2>9. /\ p < Min(Less(w).candidates) /\ Min(Less(w).candidates) \in VpcPrefixes
        /\ Min(Less(w).candidates) # p
    BY <2>6, <2>7, <2>8 DEF m
  <2> QED
    BY <2>2, <2>5, <2>9
<1> HIDE DEF Less
<1>3. A \in [VpcPrefixes -> SUBSET Works]
  BY <1>1, <1>2
<1>4. \A q \in VpcPrefixes : \A v \in A[q] :
         \/ v \in txn[b].pending[q] /\ q # p
         \/ \E w \in txn[b].pending[p] :
               /\ p < q /\ q \in v.candidates /\ v.iface = w.iface
               /\ \A x \in v.candidates : q <= x
               /\ v.candidates \subseteq w.candidates
  <2> SUFFICES ASSUME NEW q \in VpcPrefixes, NEW v \in A[q], ~(v \in txn[b].pending[q] /\ q # p)
               PROVE  \E w \in txn[b].pending[p] :
                         /\ p < q /\ q \in v.candidates /\ v.iface = w.iface
                         /\ \A x \in v.candidates : q <= x
                         /\ v.candidates \subseteq w.candidates
    OBVIOUS
  <2>1. PICK w \in txn[b].pending[p] : v = Less(w) /\ Min(Less(w).candidates) = q
    OBVIOUS
  <2> QED
    BY <1>2, <2>1
<1>5. \A w \in txn[b].pending[p] : \E q \in w.candidates : \E v \in A[q] : v.iface = w.iface
  <2> SUFFICES ASSUME NEW w \in txn[b].pending[p]
               PROVE  \E q \in w.candidates : \E v \in A[q] : v.iface = w.iface
    OBVIOUS
  <2>1. Less(w) \in A[Min(Less(w).candidates)]
    BY <1>2
  <2>2. Less(w).iface = w.iface /\ Min(Less(w).candidates) \in w.candidates
    BY <1>2
  <2> HIDE DEF A
  <2> QED
    BY <2>1, <2>2
<1>6. \A q \in VpcPrefixes : q # p => txn[b].pending[q] \subseteq A[q]
  OBVIOUS
<1> HIDE DEF A
<1> QED
  BY <1>0, <1>3, <1>4, <1>5, <1>6

LEMMA UnavailableSafe ==
  ASSUME TypeOK, BatchInv, NEW b \in Batches, Unavailable(b)
  PROVE  StepSafe(b) /\ txn'[b].pc # "chosen"
<1> DEFINE p == Candidate(b)
<1>0. /\ txn[b].pc = "run" /\ Waiting(b) # {}
      /\ IF \E w \in txn[b].pending[p] : w.candidates = {p}
         THEN Fail(b)
         ELSE /\ txn' = [txn EXCEPT ![b].pending = Advance(b, p)]
              /\ UNCHANGED lock
      /\ UNCHANGED <<state, marked, due, cursor, rows, direct, h>>
  BY DEF Unavailable
<1>1. /\ p \in VpcPrefixes /\ p \in Waiting(b) /\ txn[b].pending[p] # {}
      /\ \A q \in Waiting(b) : p <= q
  BY <1>0, CandidateIsLeast
<1> HIDE DEF p
<1>2. CASE \E w \in txn[b].pending[p] : w.candidates = {p}
  BY <1>0, <1>2, FailSafe DEF StepSafe
<1>3. CASE ~ \E w \in txn[b].pending[p] : w.candidates = {p}
  <2>0. BatchSafe(b)
    BY DEF BatchInv
  <2>1. /\ Advance(b, p) \in [VpcPrefixes -> SUBSET Works]
        /\ \A q \in VpcPrefixes : \A v \in Advance(b, p)[q] :
              \/ v \in txn[b].pending[q] /\ q # p
              \/ \E w \in txn[b].pending[p] :
                    /\ p < q /\ q \in v.candidates /\ v.iface = w.iface
                    /\ \A x \in v.candidates : q <= x
                    /\ v.candidates \subseteq w.candidates
        /\ \A w \in txn[b].pending[p] : \E q \in w.candidates :
              \E v \in Advance(b, p)[q] : v.iface = w.iface
        /\ \A q \in VpcPrefixes : q # p => txn[b].pending[q] \subseteq Advance(b, p)[q]
    BY <1>1, <1>3, <2>0, AdvanceMovesOn DEF BatchSafe
  <2>2. txn' = [txn EXCEPT ![b] = [txn[b] EXCEPT !.pending = Advance(b, p)]] /\ lock' = lock
    BY <1>0, <1>3, BatchTypes
  <2>3. [txn[b] EXCEPT !.pending = Advance(b, p)] \in Txns
    <3> DEFINE A == Advance(b, p)
    <3>1. txn[b] \in Txns /\ A \in [VpcPrefixes -> SUBSET Works]
      BY <2>1, BatchTypes
    <3> HIDE DEF A
    <3>2. [txn[b] EXCEPT !.pending = A] \in Txns
      BY <3>1 DEF Txns
    <3> QED
      BY <3>2 DEF A
  <2>4. txn' \in [Batches -> Txns] /\ lock' \in [VpcPrefixes -> Batches \cup {None}] /\ OnlyOwn(b)
    BY <2>2, <2>3, BatchTypes DEF OnlyOwn
  <2>5. /\ txn'[b].pc = "run" /\ txn'[b].pending = Advance(b, p) /\ txn'[b].new = txn[b].new
    BY <1>0, <2>2, BatchTypes DEF Txns
  <2>6. \A q \in Waiting(b)' : p <= q
    <3> SUFFICES ASSUME NEW q \in VpcPrefixes, Advance(b, p)[q] # {} PROVE p <= q
      BY <2>5 DEF Waiting
    <3>1. PICK v \in Advance(b, p)[q] : TRUE
      OBVIOUS
    <3>2. p < q \/ q \in Waiting(b)
      BY <2>1, <3>1 DEF Waiting
    <3> QED
      BY <1>1, <3>2, PrefixFacts
  <2>7. LocksAscend(b)'
    <3> SUFFICES ASSUME NEW x \in VpcPrefixes, lock[x] = b, NEW q \in Waiting(b)'
                 PROVE  x <= q
      BY <1>0, <2>0, <2>2, <2>5 DEF BatchSafe, LocksAscend, Active, Exists
    <3>1. x <= p
      BY <1>1, <2>0 DEF BatchSafe, LocksAscend
    <3>2. q \in VpcPrefixes
      BY DEF Waiting
    <3> QED
      BY <1>1, <2>6, <3>1, <3>2, PrefixFacts
  <2>8. WorksSorted(b)'
    <3> SUFFICES ASSUME NEW q \in VpcPrefixes, NEW v \in Advance(b, p)[q]
                 PROVE  /\ q \in v.candidates /\ \A x \in v.candidates : q <= x
                        /\ v.candidates \subseteq V4 \/ v.candidates \subseteq V6
      BY <2>5 DEF WorksSorted
    <3>1. CASE v \in txn[b].pending[q]
      BY <2>0, <3>1 DEF BatchSafe, WorksSorted
    <3>2. ASSUME NEW w \in txn[b].pending[p], q \in v.candidates,
                 \A x \in v.candidates : q <= x, v.candidates \subseteq w.candidates
          PROVE  /\ q \in v.candidates /\ \A x \in v.candidates : q <= x
                 /\ v.candidates \subseteq V4 \/ v.candidates \subseteq V6
      BY <1>1, <2>0, <3>2 DEF BatchSafe, WorksSorted
    <3> QED
      BY <2>1, <3>1, <3>2
  <2>9. SecondaryWaits(b)'
    <3> SUFFICES ASSUME NEW q \in V6, NEW v \in Advance(b, p)[q]
                 PROVE  \/ \E x \in V4 : \E u \in Advance(b, p)[x] : u.iface = v.iface
                        \/ \E r \in txn[b].new : r[1] \in V4 /\ r[3] = <<b, v.iface>>
      BY <2>5 DEF SecondaryWaits, Primary
    <3>1. Primary(b, v.iface)
      <4>1. CASE v \in txn[b].pending[q]
        BY <2>0, <4>1 DEF BatchSafe, SecondaryWaits
      <4>2. ASSUME NEW w \in txn[b].pending[p], v.iface = w.iface, q \in v.candidates,
                   v.candidates \subseteq w.candidates
            PROVE  Primary(b, v.iface)
        <5>1. p \in V6
          <6>1. p \in w.candidates /\ (w.candidates \subseteq V4 \/ w.candidates \subseteq V6)
            BY <1>1, <2>0 DEF BatchSafe, WorksSorted
          <6>2. q \in w.candidates /\ q \notin V4
            BY <4>2, PrefixFacts
          <6> QED
            BY <6>1, <6>2
        <5> QED
          BY <2>0, <4>2, <5>1 DEF BatchSafe, SecondaryWaits
      <4> QED
        BY <2>1, <4>1, <4>2, PrefixFacts
    <3>2. ASSUME NEW x \in V4, NEW u \in txn[b].pending[x], u.iface = v.iface
          PROVE  \E y \in V4 : \E z \in Advance(b, p)[y] : z.iface = v.iface
      <4>1. CASE x # p
        BY <2>1, <3>2, <4>1, PrefixFacts
      <4>2. CASE x = p
        <5>1. PICK y \in u.candidates : \E z \in Advance(b, p)[y] : z.iface = u.iface
          BY <2>1, <4>2
        <5>2. y \in V4
          <6>1. x \in u.candidates /\ (u.candidates \subseteq V4 \/ u.candidates \subseteq V6)
            BY <2>0, PrefixFacts DEF BatchSafe, WorksSorted
          <6>2. x \notin V6
            BY PrefixFacts
          <6> QED
            BY <6>1, <6>2
        <5> QED
          BY <3>2, <5>1, <5>2
      <4> QED
        BY <4>1, <4>2
    <3> QED
      BY <3>1, <3>2 DEF Primary
  <2>10. InsertedLocked(b)' /\ ChosenLocked(b)'
    BY <2>0, <2>2, <2>5 DEF BatchSafe, InsertedLocked, ChosenLocked
  <2> QED
    BY <1>0, <2>4, <2>5, <2>7, <2>8, <2>9, <2>10, OwnStep DEF BatchSafe, StepSafe
<1> QED
  BY <1>2, <1>3

LEMMA InsertSafe ==
  ASSUME TypeOK, BatchInv, NEW b \in Batches, Insert(b)
  PROVE  StepSafe(b) /\ txn'[b].pc # "chosen"
<1> DEFINE p == Candidate(b)
           c == txn[b].linknet
<1>0. txn[b].pc = "chosen" /\ UNCHANGED <<state, marked, due, cursor, rows, direct, lock, h>>
  BY DEF Insert
<1>1. PICK w \in txn[b].pending[p] :
         txn' = [txn EXCEPT ![b].pc = "run", ![b].attempts = 0, ![b].linknet = None,
                            ![b].pending[p] = @ \ {w}, ![b].cursor[p] = c,
                            ![b].new = @ \cup {<<p, c, <<b, w.iface>>>>}]
  BY DEF Insert
<1>2. BatchSafe(b) /\ txn[b] \in Txns
  BY BatchTypes DEF BatchInv
<1>3. Waiting(b) # {} /\ lock[p] = b /\ c \in Linknets
  BY <1>0, <1>2 DEF BatchSafe, ChosenLocked
<1>4. p \in VpcPrefixes
  BY <1>3, CandidateIsLeast
<1> DEFINE row == <<p, c, <<b, w.iface>>>>
           P == [txn[b].pending EXCEPT ![p] = txn[b].pending[p] \ {w}]
           C == [txn[b].cursor EXCEPT ![p] = c]
           N == txn[b].new \cup {row}
           t == [txn[b] EXCEPT !.pc = "run", !.attempts = 0, !.linknet = None,
                               !.pending = P, !.cursor = C, !.new = N]
<1> HIDE DEF p, c
<1>5. row \in Rows
  <2>1. w.iface \in 1 .. MaxInterfaces
    BY <1>2, <1>4 DEF Txns, Works
  <2>2. <<b, w.iface>> \in Owners
    BY <2>1 DEF Owners
  <2> QED
    BY <1>3, <1>4, <2>2 DEF Rows
<1> HIDE DEF row
<1>6. t \in Txns
  <2>1. P \in [VpcPrefixes -> SUBSET Works]
    BY <1>2, <1>4 DEF Txns
  <2>2. C \in [VpcPrefixes -> Linknets \cup {None}]
    BY <1>2, <1>3, <1>4 DEF Txns
  <2>3. N \in SUBSET Rows
    BY <1>2, <1>5 DEF Txns
  <2>4. 0 \in 0 .. MaxAttempts - 1
    BY ConstantsAssumption
  <2> HIDE DEF P, C, N
  <2> QED
    BY <1>2, <2>1, <2>2, <2>3, <2>4 DEF Txns
<1>7. txn' = [txn EXCEPT ![b] = t]
  BY <1>1, <1>4, BatchTypes DEF row, Txns
<1>8. /\ t.pc = "run" /\ t.new = txn[b].new \cup {row}
      /\ t.pending = [txn[b].pending EXCEPT ![p] = @ \ {w}]
  <2> HIDE DEF P, C, N
  <2>1. t.pc = "run" /\ t.new = N /\ t.pending = P
    BY <1>2 DEF Txns
  <2> QED
    BY <2>1 DEF N, P
<1> HIDE DEF t
<1>9. txn' \in [Batches -> Txns] /\ lock' \in [VpcPrefixes -> Batches \cup {None}] /\ OnlyOwn(b)
  BY <1>0, <1>6, <1>7, BatchTypes DEF OnlyOwn
<1>10. /\ txn'[b].pc = "run" /\ txn'[b].new = txn[b].new \cup {row}
       /\ txn'[b].pending = [txn[b].pending EXCEPT ![p] = @ \ {w}]
  BY <1>7, <1>8, BatchTypes
<1>11. \A q \in VpcPrefixes : txn'[b].pending[q] = IF q = p THEN txn[b].pending[p] \ {w}
                                                    ELSE txn[b].pending[q]
  BY <1>2, <1>4, <1>10 DEF Txns
<1>12. Waiting(b)' \subseteq Waiting(b)
  BY <1>11 DEF Waiting
<1>13. LocksAscend(b)'
  BY <1>0, <1>2, <1>10, <1>12 DEF BatchSafe, LocksAscend, Active, Exists
<1>14. WorksSorted(b)'
  <2> SUFFICES ASSUME NEW q \in VpcPrefixes, NEW v \in txn'[b].pending[q]
               PROVE  /\ q \in v.candidates /\ \A x \in v.candidates : q <= x
                      /\ v.candidates \subseteq V4 \/ v.candidates \subseteq V6
    BY DEF WorksSorted
  <2>1. v \in txn[b].pending[q]
    BY <1>11
  <2> QED
    BY <1>2, <2>1 DEF BatchSafe, WorksSorted
<1>15. InsertedLocked(b)' /\ ChosenLocked(b)'
  BY <1>0, <1>2, <1>3, <1>10 DEF BatchSafe, InsertedLocked, ChosenLocked, row
<1>16. SecondaryWaits(b)'
  <2> SUFFICES ASSUME NEW q \in V6, NEW v \in txn'[b].pending[q]
               PROVE  \/ \E x \in V4 : \E u \in txn'[b].pending[x] : u.iface = v.iface
                      \/ \E r \in txn'[b].new : r[1] \in V4 /\ r[3] = <<b, v.iface>>
    BY DEF SecondaryWaits, Primary
  <2>1. v \in txn[b].pending[q]
    BY <1>11, PrefixFacts
  <2>2. Primary(b, v.iface)
    BY <1>2, <2>1 DEF BatchSafe, SecondaryWaits
  <2>3. ASSUME NEW x \in V4, NEW u \in txn[b].pending[x], u.iface = v.iface
        PROVE  \/ \E y \in V4 : \E z \in txn'[b].pending[y] : z.iface = v.iface
               \/ \E r \in txn'[b].new : r[1] \in V4 /\ r[3] = <<b, v.iface>>
    <3>1. CASE x = p /\ u = w
      <4>1. row \in txn'[b].new /\ row[1] \in V4 /\ row[3] = <<b, v.iface>>
        BY <1>10, <2>3, <3>1 DEF row
      <4> QED
        BY <4>1
    <3>2. CASE ~(x = p /\ u = w)
      <4>1. u \in txn'[b].pending[x]
        BY <1>11, <3>2, PrefixFacts
      <4> QED
        BY <2>3, <4>1
    <3> QED
      BY <3>1, <3>2
  <2>4. ASSUME NEW r \in txn[b].new, r[1] \in V4, r[3] = <<b, v.iface>>
        PROVE  \E y \in txn'[b].new : y[1] \in V4 /\ y[3] = <<b, v.iface>>
    BY <1>10, <2>4
  <2> QED
    BY <2>2, <2>3, <2>4 DEF Primary
<1> QED
  BY <1>0, <1>9, <1>10, <1>13, <1>14, <1>15, <1>16, OwnStep DEF BatchSafe, StepSafe

LEMMA RetrySafe ==
  ASSUME TypeOK, BatchInv, NEW b \in Batches, Retry(b)
  PROVE  StepSafe(b) /\ txn'[b].pc # "chosen"
<1> DEFINE p == Candidate(b)
<1>0. /\ txn[b].pc = "chosen"
      /\ IF txn[b].attempts + 1 = MaxAttempts
         THEN Fail(b)
         ELSE /\ txn' = [txn EXCEPT ![b].pc = "run", ![b].linknet = None, ![b].attempts = @ + 1]
              /\ lock' = Rollback(b, p)
      /\ UNCHANGED <<state, marked, due, cursor, rows, direct, h>>
  BY DEF Retry
<1>1. BatchSafe(b) /\ txn[b] \in Txns
  BY BatchTypes DEF BatchInv
<1>2. Waiting(b) # {} /\ lock[p] = b
  BY <1>0, <1>1 DEF BatchSafe, ChosenLocked
<1>3. p \in VpcPrefixes
  BY <1>2, CandidateIsLeast
<1> HIDE DEF p
<1>4. CASE txn[b].attempts + 1 = MaxAttempts
  BY <1>0, <1>4, FailSafe DEF StepSafe
<1>5. CASE txn[b].attempts + 1 # MaxAttempts
  <2> DEFINE t == [txn[b] EXCEPT !.pc = "run", !.linknet = None, !.attempts = txn[b].attempts + 1]
  <2>1. t \in Txns
    <3>1. txn[b].attempts + 1 \in 0 .. MaxAttempts - 1
      BY <1>1, <1>5, ConstantsAssumption DEF Txns
    <3> QED
      BY <1>1, <3>1 DEF Txns
  <2>2. txn' = [txn EXCEPT ![b] = t] /\ lock' = Rollback(b, p)
    BY <1>0, <1>5, BatchTypes
  <2>3. t.pc = "run" /\ t.pending = txn[b].pending /\ t.new = txn[b].new
    BY <1>1 DEF Txns
  <2> HIDE DEF t
  <2>4. txn'[b] = t
    BY <2>2, BatchTypes
  <2>5. \A q \in VpcPrefixes : \/ lock'[q] = lock[q]
                               \/ q = p /\ ~Kept(b, p) /\ lock'[q] = None
    <3>1. CASE Kept(b, p)
      BY <2>2, <3>1 DEF Rollback
    <3>2. CASE ~Kept(b, p)
      BY <2>2, <3>2, BatchTypes DEF Rollback
    <3> QED
      BY <3>1, <3>2
  <2>6. txn' \in [Batches -> Txns] /\ lock' \in [VpcPrefixes -> Batches \cup {None}]
    BY <2>1, <2>2, BatchTypes DEF Rollback
  <2>7. OnlyOwn(b)
    BY <1>2, <2>2, <2>5, BatchTypes DEF OnlyOwn
  <2>8. Waiting(b)' = Waiting(b)
    BY <2>3, <2>4, SameWaiting
  <2>9. LocksAscend(b)'
    BY <1>0, <1>1, <2>3, <2>4, <2>5, <2>8, PrefixFacts DEF BatchSafe, LocksAscend, Active, Exists
  <2>10. WorksSorted(b)' /\ SecondaryWaits(b)'
    BY <1>1, <2>3, <2>4 DEF BatchSafe, WorksSorted, SecondaryWaits, Primary
  <2>11. InsertedLocked(b)'
    <3> SUFFICES ASSUME NEW r \in txn[b].new PROVE lock'[r[1]] = b
      BY <2>3, <2>4 DEF InsertedLocked
    <3>1. r[1] \in VpcPrefixes
      BY <1>1 DEF Txns, Rows
    <3>2. lock[r[1]] = b /\ (r[1] = p => Kept(b, p))
      BY <1>1 DEF BatchSafe, InsertedLocked, Kept
    <3> QED
      BY <2>5, <3>1, <3>2
  <2>12. ChosenLocked(b)'
    BY <2>3, <2>4 DEF ChosenLocked
  <2> QED
    BY <1>0, <2>3, <2>4, <2>6, <2>7, <2>9, <2>10, <2>11, <2>12, OwnStep DEF BatchSafe, StepSafe
<1> QED
  BY <1>4, <1>5

-----------------------------------------------------------------------------
(* The invariant is inductive.                                             *)

Snapshots == [pc : {"idle", "loaded", "decided"}, p : VpcPrefixes \cup {None},
              state : States, marked : BOOLEAN, next : States, current : BOOLEAN]
StoreType ==
    /\ state \in [VpcPrefixes -> States]
    /\ marked \subseteq VpcPrefixes /\ due \subseteq VpcPrefixes
    /\ cursor \in [VpcPrefixes -> Linknets \cup {None}]
    /\ rows \subseteq Rows /\ direct \subseteq VpcPrefixes \X Linknets
BatchType == txn \in [Batches -> Txns] /\ lock \in [VpcPrefixes -> Batches \cup {None}]
HandlerType == h \in [Handlers -> Snapshots]

LEMMA TypeParts ==
  ASSUME TypeOK
  PROVE  StoreType /\ BatchType /\ HandlerType
BY DEF TypeOK, StoreType, BatchType, HandlerType, Txns, Snapshots

LEMMA TypeWhole ==
  ASSUME StoreType, BatchType, HandlerType, BatchInv
  PROVE  TypeOK
BY DEF TypeOK, StoreType, BatchType, HandlerType, Txns, Snapshots, BatchInv, BatchSafe, LocksAscend

LEMMA TypeNext ==
  ASSUME StoreType', BatchType', HandlerType', BatchInv'
  PROVE  TypeOK'
BY DEF TypeOK, StoreType, BatchType, HandlerType, Txns, Snapshots, BatchInv, BatchSafe, LocksAscend

\* Steps of others leave batches alone unless they disturb a locked prefix.
LEMMA BatchesFrame ==
  ASSUME BatchInv, UNCHANGED <<txn, lock>>,
         \A p \in VpcPrefixes : lock[p] \in Batches /\ Active(p) => Active(p)'
  PROVE  BatchInv' /\ \A b \in Batches : Candidate(b)' = Candidate(b)
<1> SUFFICES ASSUME NEW b \in Batches PROVE BatchSafe(b)' /\ Candidate(b)' = Candidate(b)
  BY DEF BatchInv
<1>1. BatchSafe(b)
  BY DEF BatchInv
<1>2. Waiting(b)' = Waiting(b) /\ Candidate(b)' = Candidate(b)
  BY SameWaiting
<1>3. LocksAscend(b)'
  BY <1>1, <1>2 DEF BatchSafe, LocksAscend
<1>4. WorksSorted(b)' /\ InsertedLocked(b)' /\ SecondaryWaits(b)' /\ ChosenLocked(b)'
  BY <1>1, <1>2 DEF BatchSafe, WorksSorted, InsertedLocked, SecondaryWaits, Primary, ChosenLocked
<1> QED
  BY <1>2, <1>3, <1>4 DEF BatchSafe

\* Steps that leave a handler alone do not make its decision wrong.
LEMMA HandlerFrame ==
  ASSUME NEW k \in Handlers, SnapshotKept(k), DecisionHolds(k), h'[k] = h[k],
         marked \subseteq marked',
         \A p \in VpcPrefixes : state[p] # "Unborn" => state'[p] # "Unborn",
         \A p \in VpcPrefixes : p \in marked /\ HasReferences(p)' => HasReferences(p)
  PROVE  SnapshotKept(k)' /\ DecisionHolds(k)'
BY DEF SnapshotKept, DecisionHolds

LEMMA ChosenFrame ==
  ASSUME ChosenStaysFree, NEW b \in Batches, txn'[b] = txn[b], Candidate(b)' = Candidate(b),
         \A o \in Owners : txn[b].pc = "chosen" /\ <<Candidate(b), txn[b].linknet, o>> \in rows'
                               => <<Candidate(b), txn[b].linknet, o>> \in rows
  PROVE  txn'[b].pc = "chosen" =>
             \A o \in Owners : <<Candidate(b)', txn'[b].linknet, o>> \notin rows'
BY DEF ChosenStaysFree

LEMMA InitHolds == Init => Inv
<1> SUFFICES ASSUME Init PROVE Inv
  OBVIOUS
<1>1. /\ \A b \in Batches : txn[b] = NewTxn
      /\ \A p \in VpcPrefixes : lock[p] = None /\ state[p] = "Unborn"
      /\ \A k \in Handlers : h[k] = Idle
  BY DEF Init
<1>2. /\ NewTxn.pc = "idle" /\ NewTxn.new = {}
      /\ \A p \in VpcPrefixes : NewTxn.pending[p] = {}
  BY DEF NewTxn, NoPending
<1>3. BatchInv
  BY <1>1, <1>2, PrefixFacts DEF BatchInv, BatchSafe, LocksAscend, WorksSorted, InsertedLocked,
                                 SecondaryWaits, ChosenLocked
<1>4. ChosenStaysFree
  BY <1>1, <1>2 DEF ChosenStaysFree
<1>5. DrainsOnRequest /\ HandlersSafe /\ DeleteMeetsNoReference
  BY <1>1 DEF DrainsOnRequest, HandlersSafe, SnapshotKept, DecisionHolds, DeleteMeetsNoReference,
              Idle, Init
<1>6. StoreType
  BY DEF Init, StoreType, States
<1>7. BatchType
  BY NewTxnType DEF Init, BatchType
<1>8. HandlerType
  BY DEF Init, HandlerType, Snapshots, Idle, States
<1> QED
  BY <1>3, <1>4, <1>5, <1>6, <1>7, <1>8, TypeWhole DEF Inv

\* A step of a batch that commits nothing.
LEMMA BatchKeeps ==
  ASSUME Inv, NEW b \in Batches, StepSafe(b),
         UNCHANGED <<state, marked, due, cursor, rows, direct, h>>,
         txn'[b].pc = "chosen" => /\ Candidate(b)' = Candidate(b)
                                  /\ txn'[b].linknet \notin Taken(Candidate(b))
  PROVE  Inv'
<1>1. StoreType' /\ BatchType' /\ HandlerType' /\ BatchInv'
  BY TypeParts DEF Inv, StoreType, BatchType, HandlerType, StepSafe
<1>2. TypeOK'
  BY <1>1, TypeNext
<1>3. ChosenStaysFree'
  <2> SUFFICES ASSUME NEW c \in Batches, txn'[c].pc = "chosen", NEW o \in Owners
               PROVE  <<Candidate(c)', txn'[c].linknet, o>> \notin rows
    BY DEF ChosenStaysFree
  <2>1. CASE c = b
    <3>1. txn'[b].linknet \in Linknets
      BY <1>1, <2>1 DEF BatchInv, BatchSafe, ChosenLocked
    <3> QED
      BY <2>1, <3>1 DEF Taken
  <2>2. CASE c # b
    <3>1. txn'[c] = txn[c]
      BY <2>2 DEF StepSafe, OnlyOwn
    <3>2. Candidate(c)' = Candidate(c)
      BY <3>1, SameWaiting
    <3> QED
      BY <3>1, <3>2 DEF Inv, ChosenStaysFree
  <2> QED
    BY <2>1, <2>2
<1>4. DrainsOnRequest' /\ DeleteMeetsNoReference'
  BY DEF Inv, DrainsOnRequest, DeleteMeetsNoReference, HasReferences
<1>5. HandlersSafe'
  BY DEF Inv, HandlersSafe, SnapshotKept, DecisionHolds, HasReferences
<1> QED
  BY <1>1, <1>2, <1>3, <1>4, <1>5 DEF Inv

\* A batch commits only rows of prefixes that it has locked.
LEMMA CommitIsLocked ==
  ASSUME TypeOK, BatchInv, NEW b \in Batches, NEW r \in txn[b].new
  PROVE  r \in Rows /\ r[1] \in VpcPrefixes /\ lock[r[1]] = b /\ Active(r[1])
<1>1. r \in Rows /\ r[1] \in VpcPrefixes
  BY BatchTypes DEF Txns, Rows
<1>2. lock[r[1]] = b
  BY DEF BatchInv, BatchSafe, InsertedLocked
<1> QED
  BY <1>1, <1>2 DEF BatchInv, BatchSafe, LocksAscend

LEMMA CommitKeeps ==
  ASSUME Inv, NEW b \in Batches, Commit(b)
  PROVE  Inv'
<1>0. TypeOK /\ BatchInv /\ Fail(b) /\ UNCHANGED <<state, marked, due, direct, h>>
      /\ rows' = rows \cup txn[b].new
  BY DEF Inv, Commit, Fail
<1>1. BatchType' /\ txn'[b].pc = "ended" /\ OnlyOwn(b) /\ BatchInv'
  BY <1>0, FailSafe DEF BatchType
<1>2. StoreType' /\ HandlerType'
  <2>1. rows' \subseteq Rows
    BY <1>0, TypeParts, CommitIsLocked DEF StoreType
  <2>2. cursor' \in [VpcPrefixes -> Linknets \cup {None}]
    <3>1. txn[b].cursor \in [VpcPrefixes -> Linknets \cup {None}]
      BY <1>0, BatchTypes DEF Txns
    <3> QED
      BY <1>0, <3>1, TypeParts DEF Commit, StoreType
  <2> QED
    BY <1>0, <2>1, <2>2, TypeParts DEF StoreType, HandlerType
<1>3. TypeOK'
  BY <1>1, <1>2, TypeNext
<1>4. \A p \in VpcPrefixes : p \in marked /\ HasReferences(p)' => HasReferences(p)
  BY <1>0, CommitIsLocked DEF HasReferences, Active
<1>5. ChosenStaysFree'
  <2> SUFFICES ASSUME NEW c \in Batches, txn'[c].pc = "chosen", NEW o \in Owners
               PROVE  <<Candidate(c)', txn'[c].linknet, o>> \notin rows'
    BY DEF ChosenStaysFree
  <2>1. c # b /\ txn'[c] = txn[c]
    BY <1>1 DEF OnlyOwn
  <2>2. Candidate(c)' = Candidate(c)
    BY <2>1, SameWaiting
  <2>3. lock[Candidate(c)] = c
    BY <1>0, <2>1 DEF BatchInv, BatchSafe, ChosenLocked
  <2>4. <<Candidate(c), txn[c].linknet, o>> \notin txn[b].new
    BY <1>0, <2>1, <2>3, CommitIsLocked
  <2> QED
    BY <1>0, <2>1, <2>2, <2>4 DEF Inv, ChosenStaysFree
<1>6. DrainsOnRequest' /\ DeleteMeetsNoReference'
  BY <1>0, <1>4 DEF Inv, DrainsOnRequest, DeleteMeetsNoReference
<1>7. HandlersSafe'
  BY <1>0, <1>4, HandlerFrame DEF Inv, HandlersSafe
<1> QED
  BY <1>1, <1>3, <1>5, <1>6, <1>7 DEF Inv

\* A step of another actor: it takes no row of a marked prefix and leaves
\* the locked prefixes alone.
LEMMA OthersKeep ==
  ASSUME Inv, UNCHANGED <<txn, lock>>, StoreType', HandlerType',
         \A p \in VpcPrefixes : lock[p] \in Batches /\ Active(p) => Active(p)',
         \A b \in Batches, o \in Owners :
            txn[b].pc = "chosen" /\ <<Candidate(b), txn[b].linknet, o>> \in rows'
                => <<Candidate(b), txn[b].linknet, o>> \in rows,
         DrainsOnRequest', DeleteMeetsNoReference', HandlersSafe'
  PROVE  Inv'
<1>1. BatchInv' /\ \A b \in Batches : Candidate(b)' = Candidate(b)
  BY BatchesFrame DEF Inv
<1>2. BatchType'
  BY TypeParts DEF Inv, BatchType
<1>3. TypeOK'
  BY <1>1, <1>2, TypeNext
<1>4. ChosenStaysFree'
  BY <1>1 DEF Inv, ChosenStaysFree
<1> QED
  BY <1>1, <1>3, <1>4 DEF Inv

LEMMA CreateKeeps ==
  ASSUME Inv, NEW p \in VpcPrefixes, Create(p)
  PROVE  Inv'
<1>0. /\ state[p] = "Unborn" /\ state' = [state EXCEPT ![p] = "Provisioning"]
      /\ UNCHANGED <<marked, due, cursor, lock, txn, h>>
  BY DEF Create
<1>1. PICK A \in SUBSET {d \in direct : d[1] = p} :
         /\ rows' = rows \cup {<<p, d[2], Adopted(p, d[2])>> : d \in A}
         /\ direct' = direct \ A
  BY DEF Create
<1>2. StoreType /\ HandlerType /\ BatchInv
  BY TypeParts DEF Inv
<1>3. StoreType' /\ HandlerType'
  <2>1. \A d \in A : <<p, d[2], Adopted(p, d[2])>> \in Rows
    <3> SUFFICES ASSUME NEW d \in A PROVE <<p, d[2], Adopted(p, d[2])>> \in Rows
      OBVIOUS
    <3>1. d[2] \in Linknets
      BY <1>2 DEF StoreType
    <3>2. Adopted(p, d[2]) \in Owners
      BY <3>1 DEF Owners
    <3> QED
      BY <3>1, <3>2 DEF Rows
  <2>2. rows' \subseteq Rows /\ direct' \subseteq VpcPrefixes \X Linknets
    BY <1>1, <1>2, <2>1 DEF StoreType
  <2> QED
    BY <1>0, <1>2, <2>2 DEF StoreType, HandlerType, States
<1>4. \A q \in VpcPrefixes :
         q # p => state'[q] = state[q] /\ (HasReferences(q)' => HasReferences(q))
  BY <1>0, <1>1, <1>2 DEF StoreType, HasReferences
<1>5. state'[p] = "Provisioning" /\ p \notin marked
  BY <1>0, <1>2 DEF StoreType, Inv, DrainsOnRequest
<1>6. \A q \in VpcPrefixes : lock[q] \in Batches /\ Active(q) => q # p /\ Active(q)'
  BY <1>0, <1>4 DEF Active, Exists
<1>7. ASSUME NEW b \in Batches, NEW o \in Owners, txn[b].pc = "chosen",
             <<Candidate(b), txn[b].linknet, o>> \in rows'
      PROVE  <<Candidate(b), txn[b].linknet, o>> \in rows
  <2>1. Candidate(b) \in VpcPrefixes /\ lock[Candidate(b)] = b
    BY <1>2, <1>7, CandidateIsLeast DEF BatchInv, BatchSafe, ChosenLocked
  <2>2. Candidate(b) # p
    BY <1>0, <1>2, <2>1 DEF BatchInv, BatchSafe, LocksAscend, Active, Exists
  <2> QED
    BY <1>1, <1>7, <2>2
<1>8. DrainsOnRequest' /\ DeleteMeetsNoReference'
  BY <1>0, <1>4, <1>5 DEF Inv, DrainsOnRequest, DeleteMeetsNoReference
<1>9. HandlersSafe'
  BY <1>0, <1>4, <1>5, HandlerFrame DEF Inv, HandlersSafe
<1> QED
  BY <1>0, <1>3, <1>6, <1>7, <1>8, <1>9, OthersKeep

LEMMA DirectKeeps ==
  ASSUME Inv, NEW p \in VpcPrefixes, NEW c \in Linknets, DirectInsert(p, c)
  PROVE  Inv'
<1>0. /\ direct' = direct \cup {<<p, c>>}
      /\ UNCHANGED <<state, marked, due, cursor, rows, lock, txn, h>>
  BY DEF DirectInsert
<1>1. StoreType' /\ HandlerType'
  BY <1>0, TypeParts DEF Inv, StoreType, HandlerType
<1>2. DrainsOnRequest' /\ DeleteMeetsNoReference' /\ HandlersSafe'
  BY <1>0 DEF Inv, DrainsOnRequest, DeleteMeetsNoReference, HandlersSafe, SnapshotKept,
              DecisionHolds, HasReferences
<1> QED
  BY <1>0, <1>1, <1>2, OthersKeep DEF Active, Exists

LEMMA ReleaseKeeps ==
  ASSUME Inv, NEW o \in Owners, ReleaseSegment(o)
  PROVE  Inv'
<1>0. rows' \subseteq rows /\ UNCHANGED <<state, marked, due, cursor, direct, lock, txn, h>>
  BY DEF ReleaseSegment
<1>1. StoreType' /\ HandlerType'
  BY <1>0, TypeParts DEF Inv, StoreType, HandlerType
<1>2. \A p : HasReferences(p)' => HasReferences(p)
  BY <1>0 DEF HasReferences
<1>3. DrainsOnRequest' /\ DeleteMeetsNoReference'
  BY <1>0, <1>2 DEF Inv, DrainsOnRequest, DeleteMeetsNoReference
<1>4. HandlersSafe'
  BY <1>0, <1>2, HandlerFrame DEF Inv, HandlersSafe
<1> QED
  BY <1>0, <1>1, <1>3, <1>4, OthersKeep DEF Active, Exists

LEMMA MarkKeeps ==
  ASSUME Inv, NEW p \in VpcPrefixes, MarkAsDeleted(p)
  PROVE  Inv'
<1>0. /\ Active(p) /\ lock[p] = None /\ marked' = marked \cup {p}
      /\ UNCHANGED <<state, due, cursor, rows, direct, lock, txn, h>>
  BY DEF MarkAsDeleted
<1>1. StoreType' /\ HandlerType'
  BY <1>0, TypeParts DEF Inv, StoreType, HandlerType
<1>2. \A q \in VpcPrefixes : lock[q] \in Batches /\ Active(q) => Active(q)'
  BY <1>0, PrefixFacts DEF Active, Exists
<1>3. DrainsOnRequest' /\ DeleteMeetsNoReference'
  BY <1>0 DEF Inv, DrainsOnRequest, DeleteMeetsNoReference, HasReferences, Active, Exists
<1>4. HandlersSafe'
  BY <1>0, HandlerFrame DEF Inv, HandlersSafe, HasReferences
<1> QED
  BY <1>0, <1>1, <1>2, <1>3, <1>4, OthersKeep

LEMMA DrainEndsKeeps ==
  ASSUME Inv, NEW p \in VpcPrefixes, DrainPeriodEnds(p)
  PROVE  Inv'
<1>0. due' = due \cup {p} /\ UNCHANGED <<state, marked, cursor, rows, direct, lock, txn, h>>
  BY DEF DrainPeriodEnds
<1>1. StoreType' /\ HandlerType'
  BY <1>0, TypeParts DEF Inv, StoreType, HandlerType
<1>2. DrainsOnRequest' /\ DeleteMeetsNoReference' /\ HandlersSafe'
  BY <1>0 DEF Inv, DrainsOnRequest, DeleteMeetsNoReference, HandlersSafe, SnapshotKept,
              DecisionHolds, HasReferences
<1> QED
  BY <1>0, <1>1, <1>2, OthersKeep DEF Active, Exists

LEMMA LoadKeeps ==
  ASSUME Inv, NEW k \in Handlers, NEW p \in VpcPrefixes, Load(k, p)
  PROVE  Inv'
<1> DEFINE s == [pc |-> "loaded", p |-> p, state |-> state[p],
                 marked |-> p \in marked, next |-> "Gone", current |-> TRUE]
<1>0. /\ Exists(p) /\ h' = [h EXCEPT ![k] = s]
      /\ UNCHANGED <<state, marked, due, cursor, rows, direct, lock, txn>>
  BY DEF Load
<1>1. StoreType /\ HandlerType
  BY TypeParts DEF Inv
<1>2. s \in Snapshots /\ state[p] \in States
  <2>1. (p \in marked) \in BOOLEAN
    OBVIOUS
  <2>2. state[p] \in States
    BY <1>1 DEF StoreType
  <2> QED
    BY <2>1, <2>2 DEF Snapshots, States
<1>3. /\ s.pc = "loaded" /\ s.p = p /\ s.state = state[p] /\ s.marked = (p \in marked)
  OBVIOUS
<1> HIDE DEF s
<1>4. StoreType' /\ HandlerType'
  BY <1>0, <1>1, <1>2 DEF StoreType, HandlerType
<1>5. h'[k] = s /\ \A j \in Handlers : j # k => h'[j] = h[j]
  BY <1>0, <1>1 DEF HandlerType
<1>6. SnapshotKept(k)' /\ DecisionHolds(k)'
  <2>1. state[p] \in {"Provisioning", "Ready", "Drain", "DBDelete"}
    BY <1>0, <1>2 DEF Exists, States
  <2>2. state[p] \in {"Drain", "DBDelete"} => p \in marked
    BY DEF Inv, DrainsOnRequest
  <2> QED
    BY <1>0, <1>3, <1>5, <2>1, <2>2 DEF SnapshotKept, DecisionHolds
<1>7. DrainsOnRequest' /\ DeleteMeetsNoReference'
  BY <1>0 DEF Inv, DrainsOnRequest, DeleteMeetsNoReference, HasReferences
<1>8. ASSUME NEW j \in Handlers, j # k PROVE SnapshotKept(j)' /\ DecisionHolds(j)'
  BY <1>0, <1>5, <1>8, HandlerFrame DEF Inv, HandlersSafe, HasReferences
<1>9. HandlersSafe'
  BY <1>6, <1>8 DEF HandlersSafe
<1> QED
  BY <1>0, <1>4, <1>7, <1>9, OthersKeep DEF Active, Exists

\* What the handler decides follows from its snapshot and the references.
LEMMA NextStateSound ==
  ASSUME Inv, NEW k \in Handlers, h[k].pc = "loaded", NextState(k) # "wait"
  PROVE  /\ NextState(k) \in {"Ready", "Drain", "DBDelete", "Gone"}
         /\ NextState(k) # "Ready" => h[k].p \in marked
         /\ NextState(k) = "DBDelete" => ~HasReferences(h[k].p)
<1>1. SnapshotKept(k) /\ h[k].marked \in BOOLEAN
  BY TypeParts DEF Inv, HandlersSafe, HandlerType, Snapshots
<1>2. CASE h[k].state = "Provisioning"
  BY <1>1, <1>2 DEF SnapshotKept, NextState
<1>3. CASE h[k].state = "Ready"
  BY <1>1, <1>3 DEF SnapshotKept, NextState
<1>4. CASE h[k].state = "Drain"
  BY <1>1, <1>4 DEF SnapshotKept, NextState, DrainNext
<1>5. CASE h[k].state = "DBDelete"
  BY <1>1, <1>5 DEF SnapshotKept, NextState
<1> QED
  BY <1>1, <1>2, <1>3, <1>4, <1>5 DEF SnapshotKept

LEMMA IdleSafe ==
  ASSUME NEW k \in Handlers, h'[k] = Idle
  PROVE  Idle \in Snapshots /\ SnapshotKept(k)' /\ DecisionHolds(k)'
BY DEF Idle, Snapshots, States, SnapshotKept, DecisionHolds

LEMMA DecideKeeps ==
  ASSUME Inv, NEW k \in Handlers, Decide(k)
  PROVE  Inv'
<1> DEFINE s == [h[k] EXCEPT !.pc = "decided", !.next = NextState(k)]
<1>0. /\ h[k].pc = "loaded"
      /\ h' = [h EXCEPT ![k] = IF NextState(k) = "wait" THEN Idle ELSE s]
      /\ UNCHANGED <<state, marked, due, cursor, rows, direct, lock, txn>>
  BY DEF Decide
<1>1. StoreType /\ HandlerType
  BY TypeParts DEF Inv
<1>2. \A j \in Handlers : j # k => h'[j] = h[j]
  BY <1>0, <1>1 DEF HandlerType
<1>3. ASSUME NEW j \in Handlers, j # k PROVE SnapshotKept(j)' /\ DecisionHolds(j)'
  BY <1>0, <1>2, <1>3, HandlerFrame DEF Inv, HandlersSafe, HasReferences
<1>4. HandlerType' /\ SnapshotKept(k)' /\ DecisionHolds(k)'
  <2>1. CASE NextState(k) = "wait"
    <3>1. h' = [h EXCEPT ![k] = Idle] /\ h'[k] = Idle
      BY <1>0, <1>1, <2>1 DEF HandlerType
    <3> QED
      BY <1>1, <3>1, IdleSafe DEF HandlerType
  <2>2. CASE NextState(k) # "wait"
    <3>1. /\ NextState(k) \in {"Ready", "Drain", "DBDelete", "Gone"}
          /\ NextState(k) # "Ready" => h[k].p \in marked
          /\ NextState(k) = "DBDelete" => ~HasReferences(h[k].p)
      BY <1>0, <2>2, NextStateSound
    <3>2. h[k] \in Snapshots
      BY <1>1 DEF HandlerType
    <3>3. s \in Snapshots
      BY <3>1, <3>2 DEF Snapshots, States
    <3>4. /\ s.pc = "decided" /\ s.p = h[k].p /\ s.state = h[k].state /\ s.marked = h[k].marked
          /\ s.next = NextState(k)
      BY <3>2 DEF Snapshots
    <3> HIDE DEF s
    <3>5. h' = [h EXCEPT ![k] = s] /\ h'[k] = s
      BY <1>0, <1>1, <2>2 DEF HandlerType
    <3>6. SnapshotKept(k)
      BY DEF Inv, HandlersSafe
    <3> QED
      BY <1>0, <1>1, <3>1, <3>3, <3>4, <3>5, <3>6
      DEF HandlerType, SnapshotKept, DecisionHolds, HasReferences
  <2> QED
    BY <2>1, <2>2
<1>5. StoreType' /\ DrainsOnRequest' /\ DeleteMeetsNoReference'
  BY <1>0, <1>1 DEF Inv, StoreType, DrainsOnRequest, DeleteMeetsNoReference, HasReferences
<1>6. HandlersSafe'
  BY <1>3, <1>4 DEF HandlersSafe
<1> QED
  BY <1>0, <1>4, <1>5, <1>6, OthersKeep DEF Active, Exists

LEMMA PersistKeeps ==
  ASSUME Inv, NEW k \in Handlers, PersistState(k)
  PROVE  Inv'
<1> DEFINE p == h[k].p
<1>0. /\ h[k].pc = "decided" /\ h[k].next # "Gone" /\ lock[p] = None
      /\ IF h[k].current /\ Exists(p)
         THEN /\ state' = [state EXCEPT ![p] = h[k].next]
              /\ due' = due \ {p}
              /\ h' = [j \in Handlers |-> IF j = k THEN Idle
                          ELSE IF h[j].p = p THEN [h[j] EXCEPT !.current = FALSE] ELSE h[j]]
         ELSE /\ h' = [h EXCEPT ![k] = Idle]
              /\ UNCHANGED <<state, due>>
      /\ UNCHANGED <<marked, cursor, rows, direct, lock, txn>>
  BY DEF PersistState
<1>1. StoreType /\ HandlerType
  BY TypeParts DEF Inv
<1>2. /\ p \in VpcPrefixes /\ state[p] # "Unborn"
      /\ h[k].next \in {"Ready", "Drain", "DBDelete"}
      /\ h[k].next # "Ready" => p \in marked
      /\ h[k].next = "DBDelete" => ~HasReferences(p)
  BY <1>0 DEF Inv, HandlersSafe, SnapshotKept, DecisionHolds
<1> DEFINE n == h[k].next
<1> HIDE DEF p, n
<1>3. CASE h[k].current /\ Exists(p)
  <2>1. state' = [state EXCEPT ![p] = n] /\ due' = due \ {p}
    BY <1>0, <1>3 DEF n
  <2>2. /\ state'[p] = n /\ n \in {"Ready", "Drain", "DBDelete"}
        /\ \A q \in VpcPrefixes : q # p => state'[q] = state[q]
    BY <1>1, <1>2, <2>1 DEF StoreType, n
  <2>3. ASSUME NEW j \in Handlers, j # k
        PROVE  /\ h'[j] \in Snapshots /\ h'[j].pc = h[j].pc /\ h'[j].p = h[j].p
               /\ h'[j].state = h[j].state /\ h'[j].marked = h[j].marked /\ h'[j].next = h[j].next
    <3>1. h[j] \in Snapshots
      BY <1>1 DEF HandlerType
    <3>2. h'[j] = h[j] \/ h'[j] = [h[j] EXCEPT !.current = FALSE]
      BY <1>0, <1>3, <2>3
    <3> QED
      BY <3>1, <3>2 DEF Snapshots
  <2>4. h'[k] = Idle /\ h' = [j \in Handlers |-> h'[j]]
    BY <1>0, <1>3
  <2>5. StoreType'
    BY <1>0, <1>1, <2>1, <2>2 DEF StoreType, States
  <2>6. HandlerType'
    BY <2>3, <2>4, IdleSafe DEF HandlerType
  <2>7. ASSUME NEW j \in Handlers, j # k PROVE SnapshotKept(j)' /\ DecisionHolds(j)'
    <3>1. SnapshotKept(j) /\ DecisionHolds(j)
      BY DEF Inv, HandlersSafe
    <3>2. \A q \in VpcPrefixes : state[q] # "Unborn" => state'[q] # "Unborn"
      BY <2>2
    <3>3. \A q : HasReferences(q)' = HasReferences(q)
      BY <1>0 DEF HasReferences
    <3> QED
      BY <1>0, <2>3, <2>7, <3>1, <3>2, <3>3 DEF SnapshotKept, DecisionHolds
  <2>8. HandlersSafe'
    BY <2>4, <2>7, IdleSafe DEF HandlersSafe
  <2>9. DrainsOnRequest' /\ DeleteMeetsNoReference'
    <3>1. \A q : HasReferences(q)' = HasReferences(q)
      BY <1>0 DEF HasReferences
    <3> QED
      BY <1>0, <1>2, <2>2, <3>1 DEF Inv, DrainsOnRequest, DeleteMeetsNoReference, n
  <2>10. \A q \in VpcPrefixes : lock[q] \in Batches /\ Active(q) => Active(q)'
    BY <1>0, <2>2, PrefixFacts DEF Active, Exists
  <2> QED
    BY <1>0, <2>5, <2>6, <2>8, <2>9, <2>10, OthersKeep
<1>4. CASE ~(h[k].current /\ Exists(p))
  <2>1. h' = [h EXCEPT ![k] = Idle] /\ UNCHANGED <<state, due>>
    BY <1>0, <1>4
  <2>2. h'[k] = Idle /\ \A j \in Handlers : j # k => h'[j] = h[j]
    BY <1>1, <2>1 DEF HandlerType
  <2>3. StoreType' /\ HandlerType'
    BY <1>0, <1>1, <2>1, <2>2, IdleSafe DEF StoreType, HandlerType
  <2>4. ASSUME NEW j \in Handlers, j # k PROVE SnapshotKept(j)' /\ DecisionHolds(j)'
    BY <1>0, <2>1, <2>2, <2>4, HandlerFrame DEF Inv, HandlersSafe, HasReferences
  <2>5. HandlersSafe'
    BY <2>2, <2>4, IdleSafe DEF HandlersSafe
  <2>6. DrainsOnRequest' /\ DeleteMeetsNoReference'
    BY <1>0, <2>1 DEF Inv, DrainsOnRequest, DeleteMeetsNoReference, HasReferences
  <2> QED
    BY <1>0, <2>1, <2>3, <2>5, <2>6, OthersKeep DEF Active, Exists
<1> QED
  BY <1>3, <1>4

LEMMA FinalDeleteKeeps ==
  ASSUME Inv, NEW k \in Handlers, FinalDelete(k)
  PROVE  Inv'
<1> DEFINE p == h[k].p
<1>0. /\ h[k].pc = "decided" /\ lock[p] = None
      /\ state' = IF HasReferences(p) THEN state ELSE [state EXCEPT ![p] = "Gone"]
      /\ h' = [h EXCEPT ![k] = Idle]
      /\ UNCHANGED <<marked, due, cursor, rows, direct, lock, txn>>
  BY DEF FinalDelete
<1>1. StoreType /\ HandlerType
  BY TypeParts DEF Inv
<1>2. p \in VpcPrefixes /\ state[p] # "Unborn"
  BY <1>0 DEF Inv, HandlersSafe, SnapshotKept
<1> HIDE DEF p
<1>3. /\ state' \in [VpcPrefixes -> States]
      /\ \A q \in VpcPrefixes : state'[q] = state[q] \/ (q = p /\ state'[q] = "Gone")
  BY <1>0, <1>1, <1>2 DEF StoreType, States
<1>4. h'[k] = Idle /\ \A j \in Handlers : j # k => h'[j] = h[j]
  BY <1>0, <1>1 DEF HandlerType
<1>5. StoreType' /\ HandlerType'
  BY <1>0, <1>1, <1>3, <1>4, IdleSafe DEF StoreType, HandlerType
<1>6. ASSUME NEW j \in Handlers, j # k PROVE SnapshotKept(j)' /\ DecisionHolds(j)'
  BY <1>0, <1>3, <1>4, <1>6, HandlerFrame DEF Inv, HandlersSafe, HasReferences
<1>7. HandlersSafe'
  BY <1>4, <1>6, IdleSafe DEF HandlersSafe
<1>8. DrainsOnRequest' /\ DeleteMeetsNoReference'
  BY <1>0, <1>2, <1>3 DEF Inv, DrainsOnRequest, DeleteMeetsNoReference, HasReferences
<1>9. \A q \in VpcPrefixes : lock[q] \in Batches /\ Active(q) => Active(q)'
  BY <1>0, <1>3, PrefixFacts DEF Active, Exists
<1> QED
  BY <1>0, <1>5, <1>7, <1>8, <1>9, OthersKeep

LEMMA InvStep == Inv /\ [Next]_vars => Inv'
<1> SUFFICES ASSUME Inv, [Next]_vars PROVE Inv'
  OBVIOUS
<1>0. TypeOK /\ BatchInv
  BY DEF Inv
<1>1. ASSUME NEW b \in Batches, NEW n \in 1 .. MaxInterfaces,
             NEW ifs \in [1 .. n -> Interfaces], Plan(b, ifs)
      PROVE  Inv'
  BY <1>0, <1>1, PlanSafe, BatchKeeps DEF Plan
<1>2. ASSUME NEW b \in Batches, Found(b) PROVE Inv'
  BY <1>0, <1>2, FoundSafe, BatchKeeps DEF Found
<1>3. ASSUME NEW b \in Batches, Unavailable(b) PROVE Inv'
  BY <1>0, <1>3, UnavailableSafe, BatchKeeps DEF Unavailable
<1>4. ASSUME NEW b \in Batches, Insert(b) PROVE Inv'
  BY <1>0, <1>4, InsertSafe, BatchKeeps DEF Insert
<1>5. ASSUME NEW b \in Batches, Retry(b) PROVE Inv'
  BY <1>0, <1>5, RetrySafe, BatchKeeps DEF Retry
<1>6. ASSUME NEW b \in Batches, Abort(b) PROVE Inv'
  <2>1. StepSafe(b) /\ txn'[b].pc # "chosen"
    BY <1>0, <1>6, FailSafe DEF Abort, StepSafe
  <2> QED
    BY <1>6, <2>1, BatchKeeps DEF Abort
<1>7. CASE UNCHANGED vars
  <2>1. StoreType' /\ HandlerType'
    BY <1>0, <1>7, TypeParts DEF vars, StoreType, HandlerType
  <2>2. DrainsOnRequest' /\ DeleteMeetsNoReference' /\ HandlersSafe'
    BY <1>7 DEF vars, Inv, DrainsOnRequest, DeleteMeetsNoReference, HandlersSafe, SnapshotKept,
                DecisionHolds, HasReferences
  <2> QED
    BY <1>7, <2>1, <2>2, OthersKeep DEF vars, Active, Exists
<1>8. ASSUME NEW p \in VpcPrefixes, Create(p) \/ MarkAsDeleted(p) \/ DrainPeriodEnds(p) PROVE Inv'
  BY <1>8, CreateKeeps, MarkKeeps, DrainEndsKeeps
<1>9. ASSUME NEW k \in Handlers, HandlerStep(k) PROVE Inv'
  BY <1>9, DecideKeeps, PersistKeeps, FinalDeleteKeeps DEF HandlerStep
<1>10. ASSUME NEW b \in Batches, BatchStep(b) PROVE Inv'
  BY <1>2, <1>3, <1>4, <1>5, <1>10, CommitKeeps DEF BatchStep
<1> QED
  BY <1>1, <1>6, <1>7, <1>8, <1>9, <1>10, DirectKeeps, ReleaseKeeps, LoadKeeps DEF Next

\* The invariant holds in every state of the specification.
LEMMA InvHolds == Spec => []Inv
BY InitHolds, InvStep, PTL DEF Spec

-----------------------------------------------------------------------------
(* The theorems.                                                           *)

(***************************************************************************)
(* Type correctness; only running batches hold row locks, so that Fail and *)
(* Commit forget none (api-core/src/instance/mod.rs).                      *)
(***************************************************************************)
THEOREM TypeCorrect == Spec => []TypeOK
<1>1. Inv => TypeOK
  BY DEF Inv
<1> QED
  BY <1>1, InvHolds, PTL

\* How many prefixes come after p.
Above(p) == {q \in VpcPrefixes : q > p}

LEMMA AboveShrinks ==
  ASSUME NEW p \in VpcPrefixes, NEW q \in VpcPrefixes, p < q
  PROVE  Cardinality(Above(p)) \in Nat /\ Cardinality(Above(q)) < Cardinality(Above(p))
<1>1. Above(p) \in SUBSET VpcPrefixes /\ Above(q) \in SUBSET Above(p) /\ Above(q) # Above(p)
  <2>0. p \in Nat /\ q \in Nat
    BY PrefixFacts
  <2>1. \A x \in Above(q) : x \in Above(p)
    BY <2>0, PrefixFacts DEF Above
  <2>2. q \in Above(p) /\ q \notin Above(q)
    BY <2>0 DEF Above
  <2> QED
    BY <2>1, <2>2 DEF Above
<1>2. IsFiniteSet(Above(p))
  BY <1>1, PrefixFacts, FS_Subset
<1>3. IsFiniteSet(Above(q)) /\ Cardinality(Above(q)) <= Cardinality(Above(p))
      /\ Cardinality(Above(q)) # Cardinality(Above(p))
  BY <1>1, <1>2, FS_Subset
<1>4. Cardinality(Above(p)) \in Nat /\ Cardinality(Above(q)) \in Nat
  BY <1>2, <1>3, FS_CardinalityType
<1> QED
  BY <1>3, <1>4

LEMMA NoCycle == Inv => NoWaitCycle
<1> DEFINE Blocked(b, B) == /\ txn[b].pc = "run" /\ Waiting(b) # {}
                            /\ lock[Candidate(b)] \in B \ {b}
<1> SUFFICES ASSUME Inv, NEW B \in SUBSET Batches, B # {}, \A b \in B : Blocked(b, B)
             PROVE  FALSE
  BY DEF NoWaitCycle
<1> DEFINE Rank(b) == Cardinality(Above(Candidate(b)))
           Ranks == {Rank(b) : b \in B}
<1>1. \A b \in B : /\ Candidate(b) \in VpcPrefixes /\ Candidate(b) \in Waiting(b)
                   /\ lock[Candidate(b)] \in B \ {b} /\ Rank(b) \in Nat
  <2> SUFFICES ASSUME NEW b \in B
               PROVE  /\ Candidate(b) \in VpcPrefixes /\ Candidate(b) \in Waiting(b)
                      /\ lock[Candidate(b)] \in B \ {b} /\ Rank(b) \in Nat
    OBVIOUS
  <2>1. Candidate(b) \in VpcPrefixes /\ Candidate(b) \in Waiting(b)
    BY CandidateIsLeast
  <2>2. IsFiniteSet(Above(Candidate(b)))
    BY PrefixFacts, FS_Subset DEF Above
  <2> QED
    BY <2>1, <2>2, FS_CardinalityType
<1>2. \A b \in B : \E c \in B : Rank(c) < Rank(b)
  <2> SUFFICES ASSUME NEW b \in B PROVE \E c \in B : Rank(c) < Rank(b)
    OBVIOUS
  <2> DEFINE c == lock[Candidate(b)]
  <2>1. c \in B /\ c # b /\ c \in Batches
    BY <1>1
  <2>2. Candidate(c) \in VpcPrefixes /\ Candidate(c) \in Waiting(c) /\ lock[Candidate(c)] # c
    BY <1>1, <2>1
  <2>3. Candidate(b) <= Candidate(c)
    BY <1>1, <2>1, <2>2 DEF Inv, BatchInv, BatchSafe, LocksAscend
  <2>4. Candidate(b) # Candidate(c)
    BY <2>2
  <2>5. Candidate(b) < Candidate(c)
    <3>1. Candidate(b) \in Nat /\ Candidate(c) \in Nat
      BY <1>1, <2>2, PrefixFacts
    <3> QED
      BY <2>3, <2>4, <3>1
  <2> QED
    BY <1>1, <2>1, <2>2, <2>5, AboveShrinks
<1> HIDE DEF Rank
<1>3. Ranks \in SUBSET Nat /\ Ranks # {}
  BY <1>1
<1>4. Min(Ranks) \in Ranks /\ \A x \in Ranks : Min(Ranks) <= x
  BY <1>3, LeastNat
<1>5. PICK b \in B : Min(Ranks) = Rank(b)
  BY <1>4
<1>6. PICK c \in B : Rank(c) < Rank(b)
  BY <1>2
<1>7. Rank(c) \in Ranks /\ Rank(c) \in Nat /\ Rank(b) \in Nat
  BY <1>1
<1> QED
  BY <1>4, <1>5, <1>6, <1>7

(***************************************************************************)
(* Batches never wait for each other in a circle: each one waits for a     *)
(* prefix that comes after all those it has locked, so that along the      *)
(* waits the prefixes ascend (instance/mod.rs:1434).                       *)
(***************************************************************************)
THEOREM DeadlockFree == Spec => []NoWaitCycle
BY NoCycle, InvHolds, PTL

(***************************************************************************)
(* No batch takes the linknet that another one has chosen before it is     *)
(* inserted (instance/mod.rs:879).                                         *)
(***************************************************************************)
THEOREM ChosenSafe == Spec => []ChosenStaysFree
<1>1. Inv => ChosenStaysFree
  BY DEF Inv
<1> QED
  BY <1>1, InvHolds, PTL

LEMMA FirstFamily == Inv => PrimaryFirst
<1> SUFFICES ASSUME Inv, NEW b \in Batches, txn[b].pc = "chosen", Candidate(b) \in V6,
                    NEW w \in txn[b].pending[Candidate(b)]
             PROVE  \E r \in txn[b].new : r[1] \in V4 /\ r[3] = <<b, w.iface>>
  BY DEF PrimaryFirst
<1>1. BatchSafe(b)
  BY DEF Inv, BatchInv
<1>2. \A q \in Waiting(b) : Candidate(b) <= q
  BY <1>1, CandidateIsLeast DEF BatchSafe, ChosenLocked
<1>3. Primary(b, w.iface)
  BY <1>1 DEF BatchSafe, SecondaryWaits
<1>4. ASSUME NEW p \in V4, NEW v \in txn[b].pending[p] PROVE FALSE
  <2>1. p \in Waiting(b) /\ p < Candidate(b) /\ p \in Nat /\ Candidate(b) \in Nat
    BY PrefixFacts DEF Waiting
  <2> QED
    BY <1>2, <2>1
<1> QED
  BY <1>3, <1>4 DEF Primary

(***************************************************************************)
(* The second family of an interface is attached to a segment that the     *)
(* first one has made (instance/mod.rs:1504).                              *)
(***************************************************************************)
THEOREM FamiliesInOrder == Spec => []PrimaryFirst
BY FirstFamily, InvHolds, PTL

(***************************************************************************)
(* A prefix in DBDelete has no reference although it is not looked for any *)
(* more (vpc-prefix-controller/src/handler.rs).                            *)
(***************************************************************************)
THEOREM DeleteSafe == Spec => []DeleteMeetsNoReference
<1>1. Inv => DeleteMeetsNoReference
  BY DEF Inv
<1> QED
  BY <1>1, InvHolds, PTL

-----------------------------------------------------------------------------
(* Prefixes are drained resources.                                         *)

phaseBar == [p \in VpcPrefixes |-> Phase(p)]
usersBar == [p \in VpcPrefixes |-> UsersOf(p)]

LEMMA DrainedFrame ==
  ASSUME UNCHANGED <<marked, rows>>,
         \A p \in VpcPrefixes : /\ state'[p] = "Unborn" <=> state[p] = "Unborn"
                                /\ state'[p] = "Gone" <=> state[p] = "Gone"
  PROVE  UNCHANGED Drained!dvars
<1>1. \A p \in VpcPrefixes : Phase(p)' = Phase(p) /\ UsersOf(p)' = UsersOf(p)
  BY DEF Phase, UsersOf
<1>2. phaseBar' = phaseBar /\ usersBar' = usersBar
  BY <1>1 DEF phaseBar, usersBar
<1> QED
  BY <1>2 DEF Drained!dvars, phaseBar, usersBar

LEMMA CreateAppears ==
  ASSUME Inv, Inv', NEW p \in VpcPrefixes, Create(p)
  PROVE  Drained!Appear(p)
<1>0. /\ state[p] = "Unborn" /\ state' = [state EXCEPT ![p] = "Provisioning"]
      /\ UNCHANGED marked
  BY DEF Create
<1>1. \A r \in rows' : r \in rows \/ r[1] = p
  BY DEF Create
<1>2. rows \subseteq rows'
  BY DEF Create
<1>3. state \in [VpcPrefixes -> States] /\ p \notin marked /\ rows' \subseteq Rows
  BY <1>0 DEF Inv, TypeOK, DrainsOnRequest
<1>4. phaseBar[p] = "unborn" /\ phaseBar' = [phaseBar EXCEPT ![p] = "open"]
  <2>1. phaseBar[p] = "unborn" /\ phaseBar'[p] = "open"
    BY <1>0, <1>3 DEF phaseBar, Phase
  <2>2. \A r \in VpcPrefixes \ {p} : phaseBar'[r] = phaseBar[r]
    BY <1>0, <1>3 DEF phaseBar, Phase
  <2> QED
    BY <2>1, <2>2 DEF phaseBar
<1>5. usersBar' = [usersBar EXCEPT ![p] = UsersOf(p)']
  <2>1. \A r \in VpcPrefixes \ {p} : usersBar'[r] = usersBar[r]
    BY <1>1, <1>2 DEF usersBar, UsersOf
  <2>2. usersBar'[p] = UsersOf(p)'
    BY DEF usersBar
  <2> QED
    BY <2>1, <2>2 DEF usersBar
<1>6. UsersOf(p)' \in SUBSET Owners
  BY <1>3 DEF UsersOf, Rows
<1> QED
  BY <1>4, <1>5, <1>6 DEF Drained!Appear, phaseBar, usersBar

\* A batch takes prefixes into use that are open: it has locked them.
LEMMA CommitUses ==
  ASSUME Inv, Inv', NEW b \in Batches, Commit(b)
  PROVE  Drained!Use
<1>0. rows' = rows \cup txn[b].new /\ UNCHANGED <<state, marked>>
  BY DEF Commit
<1>1. TypeOK /\ BatchInv /\ rows' \subseteq Rows
  BY DEF Inv, TypeOK
<1>2. phaseBar' = phaseBar
  BY <1>0 DEF phaseBar, Phase
<1>3. ASSUME NEW p \in VpcPrefixes
      PROVE  /\ usersBar[p] \subseteq usersBar'[p] /\ usersBar'[p] \subseteq Owners
             /\ usersBar'[p] # usersBar[p] => phaseBar[p] = "open"
  <2>1. usersBar[p] \subseteq usersBar'[p]
    BY <1>0 DEF usersBar, UsersOf
  <2>2. usersBar'[p] \subseteq Owners
    BY <1>1 DEF usersBar, UsersOf, Rows
  <2>3. ASSUME usersBar'[p] # usersBar[p] PROVE phaseBar[p] = "open"
    <3>1. PICK r \in txn[b].new : r[1] = p
      BY <1>0, <2>3 DEF usersBar, UsersOf
    <3>2. Active(p)
      BY <1>1, <3>1, CommitIsLocked
    <3> QED
      BY <3>2 DEF phaseBar, Phase, Active, Exists
  <2> QED
    BY <2>1, <2>2, <2>3
<1>4. usersBar' = [p \in VpcPrefixes |-> usersBar'[p]]
  BY DEF usersBar
<1> QED
  BY <1>2, <1>3, <1>4 DEF Drained!Use, phaseBar, usersBar

LEMMA RequestCloses ==
  ASSUME rows' \subseteq rows, UNCHANGED state, marked \subseteq marked'
  PROVE  Drained!LeaveAndClose
<1>1. ASSUME NEW p \in VpcPrefixes PROVE usersBar'[p] \subseteq usersBar[p]
  BY DEF usersBar, UsersOf
<1>2. ASSUME NEW p \in VpcPrefixes
      PROVE  phaseBar'[p] = phaseBar[p] \/ (phaseBar[p] = "open" /\ phaseBar'[p] = "closed")
  BY DEF phaseBar, Phase
<1>3. /\ usersBar' = [p \in VpcPrefixes |-> usersBar'[p]]
      /\ phaseBar' = [p \in VpcPrefixes |-> phaseBar'[p]]
  BY DEF usersBar, phaseBar
<1> QED
  BY <1>1, <1>2, <1>3 DEF Drained!LeaveAndClose, phaseBar, usersBar

LEMMA FinalDeleteRefines ==
  ASSUME Inv, NEW k \in Handlers, FinalDelete(k)
  PROVE  [Drained!DNext]_(Drained!dvars)
<1> DEFINE p == h[k].p
<1>0. /\ h[k].pc = "decided" /\ h[k].next = "Gone"
      /\ state' = IF HasReferences(p) THEN state ELSE [state EXCEPT ![p] = "Gone"]
      /\ UNCHANGED <<marked, rows>>
  BY DEF FinalDelete
<1>1. state \in [VpcPrefixes -> States] /\ SnapshotKept(k) /\ DecisionHolds(k)
  BY DEF Inv, TypeOK, HandlersSafe
<1>2. p \in VpcPrefixes /\ p \in marked /\ state[p] # "Unborn"
  BY <1>0, <1>1 DEF SnapshotKept, DecisionHolds
<1> HIDE DEF p
<1>3. CASE HasReferences(p) \/ state[p] = "Gone"
  BY <1>0, <1>1, <1>2, <1>3, DrainedFrame
<1>4. CASE ~HasReferences(p) /\ state[p] # "Gone"
  <2>0. state' = [state EXCEPT ![p] = "Gone"]
    BY <1>0, <1>4
  <2>1. phaseBar[p] = "closed" /\ phaseBar'[p] = "gone"
    BY <1>0, <1>1, <1>2, <1>4, <2>0 DEF phaseBar, Phase
  <2>2. \A r \in VpcPrefixes \ {p} : phaseBar'[r] = phaseBar[r]
    BY <1>0, <1>1, <1>2, <2>0 DEF phaseBar, Phase
  <2>3. phaseBar' = [phaseBar EXCEPT ![p] = "gone"]
    BY <2>1, <2>2 DEF phaseBar
  <2>4. usersBar[p] = {} /\ usersBar' = usersBar
    BY <1>0, <1>2, <1>4 DEF usersBar, UsersOf, HasReferences
  <2>5. Drained!Disappear(p)
    BY <2>1, <2>3, <2>4, <1>2 DEF Drained!Disappear, phaseBar, usersBar
  <2> QED
    BY <1>2, <2>5 DEF Drained!DNext
<1> QED
  BY <1>3, <1>4

LEMMA PersistRefines ==
  ASSUME Inv, NEW k \in Handlers, PersistState(k)
  PROVE  UNCHANGED Drained!dvars
<1> DEFINE p == h[k].p
<1>0. /\ h[k].pc = "decided" /\ h[k].next # "Gone" /\ UNCHANGED <<marked, rows>>
      /\ \/ Exists(p) /\ state' = [state EXCEPT ![p] = h[k].next]
         \/ UNCHANGED state
  BY DEF PersistState
<1>1. state \in [VpcPrefixes -> States] /\ SnapshotKept(k) /\ DecisionHolds(k)
  BY DEF Inv, TypeOK, HandlersSafe
<1>2. p \in VpcPrefixes /\ h[k].next \in {"Ready", "Drain", "DBDelete"}
  BY <1>0, <1>1 DEF SnapshotKept, DecisionHolds
<1> HIDE DEF p
<1> QED
  BY <1>0, <1>1, <1>2, DrainedFrame DEF Exists

(***************************************************************************)
(* VPC prefixes are drained resources: no batch takes one into use after   *)
(* its deletion was requested, because mark_as_deleted and the batch take  *)
(* the same row lock, and none disappears while a linknet refers to it,    *)
(* also when several handlers work on one prefix.                          *)
(***************************************************************************)
THEOREM Refinement == Spec => ImplementsDrainedResource
<1>1. Init => Drained!DInit
  BY DEF Init, Drained!DInit, Phase, UsersOf
<1>2. Inv /\ Inv' /\ [Next]_vars => [Drained!DNext]_(Drained!dvars)
  <2> SUFFICES ASSUME Inv, Inv', [Next]_vars PROVE [Drained!DNext]_(Drained!dvars)
    OBVIOUS
  <2>1. ASSUME UNCHANGED <<state, marked, rows>> PROVE UNCHANGED Drained!dvars
    BY <2>1, DrainedFrame
  <2>2. CASE \/ UNCHANGED vars
             \/ \E p \in VpcPrefixes : DrainPeriodEnds(p)
             \/ \E b \in Batches, n \in 1 .. MaxInterfaces :
                   \E ifs \in [1 .. n -> Interfaces] : Plan(b, ifs)
             \/ \E b \in Batches : Found(b) \/ Unavailable(b) \/ Insert(b) \/ Retry(b) \/ Abort(b)
             \/ \E p \in VpcPrefixes, c \in Linknets : DirectInsert(p, c)
             \/ \E k \in Handlers : Decide(k)
             \/ \E k \in Handlers, p \in VpcPrefixes : Load(k, p)
    <3>1. UNCHANGED <<state, marked, rows>>
      BY <2>2 DEF vars, DrainPeriodEnds, Plan, Found, Unavailable, Insert, Retry, Abort,
                  DirectInsert, Decide, Load
    <3> QED
      BY <2>1, <3>1
  <2>3. ASSUME NEW p \in VpcPrefixes, MarkAsDeleted(p) PROVE Drained!LeaveAndClose
    BY <2>3, RequestCloses DEF MarkAsDeleted
  <2>4. ASSUME NEW o \in Owners, ReleaseSegment(o) PROVE Drained!LeaveAndClose
    BY <2>4, RequestCloses DEF ReleaseSegment
  <2> QED
    BY <2>2, <2>3, <2>4, CreateAppears, CommitUses, PersistRefines, FinalDeleteRefines
    DEF Next, BatchStep, HandlerStep, Drained!DNext
<1> QED
  BY <1>1, <1>2, InvHolds, PTL DEF Spec, ImplementsDrainedResource, Drained!DSpec
=============================================================================
