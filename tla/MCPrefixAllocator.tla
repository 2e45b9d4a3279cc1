------------------------- MODULE MCPrefixAllocator -------------------------
(***************************************************************************)
(* PrefixAllocator on every set of used networks, of any length, inside,   *)
(* across and outside of the parent, and every cursor, compared with       *)
(* definitions that look at each child.                                    *)
(***************************************************************************)
EXTENDS PrefixAllocator

CONSTANTS SpaceBits,   \* the address space has 2^SpaceBits addresses
          ParentBits, ChildBits,
          MaxUsed      \* how many networks are in use

ASSUME BitsAssumption ==
    /\ SpaceBits \in 0 .. 128 /\ ParentBits \in Nat /\ ChildBits \in Nat
    /\ ChildBits <= ParentBits /\ ParentBits < SpaceBits
    /\ None \notin Nat

VARIABLES used,     \* the networks in use
          cursor    \* last_used_prefix

Networks == UNION {{[lo |-> k * Pow2[b], bits |-> b] : k \in 0 .. (Pow2[SpaceBits - b] - 1)} :
                        b \in 0 .. SpaceBits}
Parent == [lo |-> Pow2[ParentBits], bits |-> ParentBits]

Init == used = {} /\ cursor = None

Insert(n) == /\ n \notin used /\ Cardinality(used) < MaxUsed
             /\ used' = used \cup {n}
             /\ UNCHANGED cursor
Withdraw(n) == /\ n \in used
               /\ used' = used \ {n}
               /\ UNCHANGED cursor
MoveCursor(n) == /\ cursor' = n
                 /\ UNCHANGED used

Next == \E n \in Networks : Insert(n) \/ Withdraw(n) \/ MoveCursor(n)
Spec == Init /\ [][Next]_<<used, cursor>>

Total == Pow2[ParentBits - ChildBits]
Child(i) == [lo |-> Parent.lo + i * Pow2[ChildBits], bits |-> ChildBits]
FreeChildren == {i \in 0 .. Total - 1 : \A u \in used : ~networks_overlap(u, Child(i))}

(***************************************************************************)
(* next_free_prefix returns the free child that comes first when counting  *)
(* cyclically from the one after the cursor, and reports exhaustion only   *)
(* if there is no free child: the wrap and the scan lose none.             *)
(***************************************************************************)
NextFreeIsNextFit ==
    LET index == NextFit(FreeChildren, start_index(Parent, ChildBits, cursor))
    IN  next_free_prefix(Parent, ChildBits, cursor, used)
            = IF index = None THEN None ELSE Child(index)

(***************************************************************************)
(* The other users of the same ranges agree with the allocator on what is  *)
(* free: the utilization that is reported is the number of children it     *)
(* regards as taken, and a linknet that a caller asked for is accepted     *)
(* exactly if it is one of the free children.                              *)
(***************************************************************************)
FreeIsAgreed ==
    /\ occupied_prefix_count(Parent, ChildBits, used) = Total - Cardinality(FreeChildren)
    /\ \A n \in Networks : n.bits = ChildBits =>
          validate_desired_prefix(Parent, n, used) = \E i \in FreeChildren : n = Child(i)
=============================================================================
