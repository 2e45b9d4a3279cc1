-------------------------- MODULE PrefixAllocator --------------------------
(***************************************************************************)
(* How a linknet is chosen from a VPC prefix: the occupied ranges become   *)
(* intervals of child indexes, and a scan finds the first index after the  *)
(* persisted cursor that no interval covers (api-core/src/network_segment/ *)
(* allocate.rs, api-db/src/network_prefix.rs).                             *)
(*                                                                         *)
(* An IP network is [lo, bits]: the addresses lo .. lo + 2^bits - 1, with  *)
(* lo a multiple of 2^bits.  Addresses stay far below the width of u128.   *)
(* Loops over intervals are recursive functions of the number of intervals *)
(* that they have seen.                                                    *)
(***************************************************************************)
EXTENDS Naturals, FiniteSets, Sequences, SequencesExt

CONSTANT None    \* no index, no network

Pow2[n \in 0 .. 128] == IF n = 0 THEN 1 ELSE 2 * Pow2[n - 1]

broadcast(net) == net.lo + Pow2[net.bits] - 1
contains(net, addr) == net.lo <= addr /\ addr <= broadcast(net)
networks_overlap(a, b) == contains(a, b.lo) \/ contains(b, a.lo)

Before(i, j) == i[1] < j[1] \/ (i[1] = j[1] /\ i[2] < j[2])

\* The first and last child of each used network, clipped to the parent and
\* sorted; intervals may overlap.  (Equal intervals count once.)
occupied_prefix_intervals(parent, childBits, used) ==
    LET first(u) == IF u.lo > parent.lo THEN u.lo ELSE parent.lo
        last(u) == IF broadcast(u) < broadcast(parent) THEN broadcast(u) ELSE broadcast(parent)
        Index(addr) == (addr - parent.lo) \div Pow2[childBits]
        intervals == {<<Index(first(u)), Index(last(u))>> :
                          u \in {v \in used : first(v) <= last(v)}}
    IN  CHOOSE s \in SetToSeqs(intervals) :
            \A m, n \in DOMAIN s : m < n => Before(s[m], s[n])

\* Mutant: an interval that begins at the candidate does not cover it.
FirstUnoccupiedAtStart(occupied, from, to) ==
    LET Scan(s, i) ==
            IF s.done \/ i[2] < s.candidate THEN s
            ELSE IF i[1] >= s.candidate THEN [s EXCEPT !.done = TRUE]
            ELSE IF i[2] + 1 > to THEN [candidate |-> None, done |-> TRUE]
            ELSE [s EXCEPT !.candidate = i[2] + 1]
        scan[n \in 0 .. Len(occupied)] ==
            IF n = 0 THEN [candidate |-> from, done |-> FALSE]
            ELSE Scan(scan[n - 1], occupied[n])
    IN  IF from > to THEN None ELSE scan[Len(occupied)].candidate

\* The loop's state after the interval i: where it is, and whether it has
\* returned.
Scan(s, i, to) ==
    IF s.done \/ i[2] < s.candidate THEN s
    ELSE IF i[1] > s.candidate THEN [s EXCEPT !.done = TRUE]
    ELSE IF i[2] + 1 > to THEN [candidate |-> None, done |-> TRUE]
    ELSE [s EXCEPT !.candidate = i[2] + 1]

first_unoccupied_index(occupied, from, to) ==
    LET scan[n \in 0 .. Len(occupied)] ==
            IF n = 0 THEN [candidate |-> from, done |-> FALSE]
            ELSE Scan(scan[n - 1], occupied[n], to)
    IN  IF from > to THEN None ELSE scan[Len(occupied)].candidate

\* What a scan with a wrap is to find: the first free index from the start
\* on, or else the first of all.
NextFit(free, start) ==
    LET upper == {i \in free : i >= start}
    IN  IF free = {} THEN None ELSE Min(IF upper # {} THEN upper ELSE free)

\* From the start to the end, then from zero to the start.
next_fit(occupied, start, total) ==
    LET upper == first_unoccupied_index(occupied, start, total - 1)
    IN  IF upper # None THEN upper
        ELSE IF start = 0 THEN None ELSE first_unoccupied_index(occupied, 0, start - 1)

\* Where the search begins: after the linknet used last, which may have
\* another length or lie outside of the prefix.
start_index(parent, childBits, cursor) ==
    IF cursor # None /\ contains(parent, broadcast(cursor))
    THEN ((broadcast(cursor) - parent.lo) \div Pow2[childBits] + 1)
             % Pow2[parent.bits - childBits]
    ELSE 0

next_free_prefix(parent, childBits, cursor, used) ==
    LET index == next_fit(occupied_prefix_intervals(parent, childBits, used),
                          start_index(parent, childBits, cursor),
                          Pow2[parent.bits - childBits])
    IN  IF index = None THEN None
        ELSE [lo |-> parent.lo + index * Pow2[childBits], bits |-> childBits]

validate_desired_prefix(parent, desired, used) ==
    /\ contains(parent, desired.lo)
    /\ \A u \in used : networks_overlap(u, parent) => ~networks_overlap(u, desired)

\* Mutant: an interval inside of the current one shortens it.
CountTakesLastEnd(parent, childBits, used) ==
    LET intervals == occupied_prefix_intervals(parent, childBits, used)
        Merge(s, i) == IF i[1] <= s.end + 1
                       THEN [s EXCEPT !.end = i[2]]
                       ELSE [sum |-> s.sum + s.end - s.start + 1, start |-> i[1], end |-> i[2]]
        merged[n \in 1 .. Len(intervals)] ==
            IF n = 1 THEN [sum |-> 0, start |-> intervals[1][1], end |-> intervals[1][2]]
            ELSE Merge(merged[n - 1], intervals[n])
        all == merged[Len(intervals)]
    IN  IF intervals = <<>> THEN 0 ELSE all.sum + all.end - all.start + 1

\* Overlapping and adjacent intervals grow into one; the others are summed up.
Merge(s, i) ==
    IF i[1] <= s.end + 1 THEN [s EXCEPT !.end = IF i[2] > @ THEN i[2] ELSE @]
    ELSE [sum |-> s.sum + s.end - s.start + 1, start |-> i[1], end |-> i[2]]

\* How many children are occupied, which is reported as utilization.
occupied_prefix_count(parent, childBits, used) ==
    LET intervals == occupied_prefix_intervals(parent, childBits, used)
        merged[n \in 1 .. Len(intervals)] ==
            IF n = 1 THEN [sum |-> 0, start |-> intervals[1][1], end |-> intervals[1][2]]
            ELSE Merge(merged[n - 1], intervals[n])
        all == merged[Len(intervals)]
    IN  IF intervals = <<>> THEN 0 ELSE all.sum + all.end - all.start + 1
=============================================================================
