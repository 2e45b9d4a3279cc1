----------------------- MODULE PrefixAllocatorProofs -----------------------
(***************************************************************************)
(* The choice of a linknet is right for all networks: the loops over       *)
(* intervals compute what looking at every child would.  Facts about what  *)
(* a loop has done after n intervals are proved by considering the least   *)
(* number for which they fail.                                             *)
(***************************************************************************)
EXTENDS MCPrefixAllocator, TLAPS, FiniteSetTheorems, WellFoundedInduction

-----------------------------------------------------------------------------
(* Numbers and loops.                                                      *)

\* Every set of numbers has a least element, and Min is it.
LEMMA LeastNat ==
    ASSUME NEW S \in SUBSET Nat, S # {}
    PROVE  Min(S) \in S /\ \A x \in S : Min(S) <= x
<1>. DEFINE R == OpToRel(<, Nat)
<1>1. IsWellFoundedOn(R, Nat)  BY NatLessThanWellFounded
<1>. HIDE DEF R
<1>2. PICK x \in S : \A y \in S : ~(<<y, x>> \in R)  BY <1>1, WFMin
<1>3. \A y \in S : ~(y < x)  BY <1>2 DEF R, OpToRel
<1>4. \A y \in S : x <= y  BY <1>3
<1>. QED  BY <1>4 DEF Min

\* A set of numbers that has a, and with n also n + 1, has all from a on.
LEMMA Upwards ==
    ASSUME NEW a \in Nat, NEW b \in Nat, NEW T \in SUBSET Nat,
           a \in T, \A n \in a .. b : n \in T /\ n # b => n + 1 \in T
    PROVE  \A n \in a .. b : n \in T
<1>. DEFINE F == {n \in a .. b : n \notin T}
<1>. SUFFICES ASSUME F # {} PROVE FALSE
  OBVIOUS
<1>1. F \in SUBSET Nat  OBVIOUS
<1>2. Min(F) \in F /\ \A x \in F : Min(F) <= x  BY <1>1, LeastNat
<1>3. PICK m \in F : \A x \in F : m <= x  BY <1>2
<1>4. m \in a .. b /\ m \notin T /\ m # a /\ m - 1 \in a .. b /\ m - 1 # b
  OBVIOUS
<1>5. m - 1 \notin F  BY <1>3, <1>4
<1>6. m - 1 \in T  BY <1>4, <1>5
<1>7. (m - 1) + 1 \in T  BY <1>4, <1>6
<1>. QED  BY <1>4, <1>7

\* The history of a loop that takes step n from the state after n - 1 steps.
IsRun(f, a, b, S, s0, step) ==
    /\ f \in [a .. b -> S] /\ f[a] = s0
    /\ \A n \in (a + 1) .. b : f[n] = step[n][f[n - 1]]

\* Every loop has a history.
LEMMA LoopRuns ==
    ASSUME NEW a \in Nat, NEW b \in Nat, a <= b, NEW S, NEW s0 \in S,
           NEW step \in [a .. b -> [S -> S]]
    PROVE  \E f : IsRun(f, a, b, S, s0, step)
<1>. DEFINE Run(f, k) == /\ f \in [a .. k -> S] /\ f[a] = s0
                         /\ \A n \in (a + 1) .. k : f[n] = step[n][f[n - 1]]
            T == {k \in Nat : \E f : Run(f, k)}
<1>1. a \in T
  <2>. DEFINE f == [n \in a .. a |-> s0]
  <2>1. Run(f, a)  OBVIOUS
  <2>. QED  BY <2>1
<1>2. ASSUME NEW k \in a .. b, k \in T, k # b PROVE k + 1 \in T
  <2>1. PICK g : Run(g, k)  BY <1>2
  <2>. DEFINE f == [n \in a .. (k + 1) |-> IF n = k + 1 THEN step[k + 1][g[k]] ELSE g[n]]
  <2>2. g[k] \in S /\ k + 1 \in a .. b  BY <1>2, <2>1
  <2>3. step[k + 1][g[k]] \in S  BY <2>2
  <2>4. f \in [a .. (k + 1) -> S] /\ f[a] = s0  BY <2>1, <2>3
  <2>5. \A n \in (a + 1) .. (k + 1) : f[n] = step[n][f[n - 1]]
    <3>. TAKE n \in (a + 1) .. (k + 1)
    <3>1. CASE n = k + 1
      <4>1. f[n] = step[k + 1][g[k]] /\ f[n - 1] = g[k]  BY <3>1
      <4>. QED  BY <3>1, <4>1
    <3>2. CASE n # k + 1
      <4>1. n \in (a + 1) .. k  BY <3>2
      <4>2. f[n] = g[n] /\ f[n - 1] = g[n - 1]  BY <4>1
      <4>. QED  BY <2>1, <4>1, <4>2
    <3>. QED  BY <3>1, <3>2
  <2>6. Run(f, k + 1)  BY <2>4, <2>5
  <2>. HIDE DEF f, Run
  <2>. QED  BY <2>6
<1>3. b \in T
  <2>. HIDE DEF T
  <2>1. T \in SUBSET Nat  BY DEF T
  <2>2. \A n \in a .. b : n \in T /\ n # b => n + 1 \in T  BY <1>2
  <2>3. \A n \in a .. b : n \in T  BY <1>1, <2>1, <2>2, Upwards
  <2>. QED  BY <2>3
<1>4. PICK f : Run(f, b)  BY <1>3
<1>5. IsRun(f, a, b, S, s0, step)  BY <1>4 DEF IsRun
<1>. QED  BY <1>5

-----------------------------------------------------------------------------
(* Powers of two.                                                          *)

LEMMA Pow2Def ==
    Pow2 = [n \in 0 .. 128 |-> IF n = 0 THEN 1 ELSE 2 * Pow2[n - 1]]
<1>. DEFINE step == [n \in 0 .. 128 |-> [x \in Nat |-> 2 * x]]
<1>1. step \in [0 .. 128 -> [Nat -> Nat]]  OBVIOUS
<1>2. PICK f : IsRun(f, 0, 128, Nat, 1, step)
  <2>. HIDE DEF step
  <2>1. 0 \in Nat /\ 128 \in Nat /\ 0 <= 128 /\ 1 \in Nat  OBVIOUS
  <2>. QED  BY <1>1, <2>1, LoopRuns, Zenon
<1>3. f \in [0 .. 128 -> Nat] /\ f[0] = 1
  BY <1>2 DEF IsRun
<1>4. \A n \in 1 .. 128 : f[n] = 2 * f[n - 1]
  <2>. TAKE n \in 1 .. 128
  <2>1. n - 1 \in 0 .. 128 /\ n \in 0 .. 128 /\ n \in (0 + 1) .. 128  OBVIOUS
  <2>2. f[n - 1] \in Nat  BY <1>3, <2>1
  <2>3. step[n][f[n - 1]] = 2 * f[n - 1]  BY <2>1, <2>2
  <2>4. f[n] = step[n][f[n - 1]]
    <3>. HIDE DEF step
    <3>. QED  BY <1>2, <2>1 DEF IsRun
  <2>. QED  BY <2>3, <2>4
<1>5. f = [n \in 0 .. 128 |-> IF n = 0 THEN 1 ELSE 2 * f[n - 1]]
  BY <1>3, <1>4
<1>. QED  BY <1>5 DEF Pow2

LEMMA Pow2Positive == \A n \in 0 .. 128 : Pow2[n] \in Nat \ {0}
<1>. DEFINE T == {n \in 0 .. 128 : Pow2[n] \in Nat \ {0}}
<1>1. Pow2[0] = 1 /\ \A n \in 1 .. 128 : Pow2[n] = 2 * Pow2[n - 1]  BY Pow2Def
<1>2. 0 \in T  BY <1>1
<1>3. ASSUME NEW n \in 0 .. 128, n \in T, n # 128 PROVE n + 1 \in T
  <2>1. n + 1 \in 1 .. 128 /\ (n + 1) - 1 = n  BY <1>3
  <2>2. Pow2[n + 1] = 2 * Pow2[n]  BY <1>1, <2>1
  <2>3. Pow2[n] \in Nat \ {0}  BY <1>3
  <2>. QED  BY <2>1, <2>2, <2>3
<1>4. T \in SUBSET Nat  OBVIOUS
<1>. HIDE DEF T
<1>5. \A n \in 0 .. 128 : n \in T  BY <1>2, <1>3, <1>4, Upwards
<1>. QED  BY <1>5 DEF T

LEMMA Pow2Sum ==
    ASSUME NEW a \in Nat, NEW b \in Nat, a + b <= 128
    PROVE  Pow2[a + b] = Pow2[a] * Pow2[b]
<1>. DEFINE T == {n \in 0 .. b : Pow2[a + n] = Pow2[a] * Pow2[n]}
<1>1. Pow2[0] = 1 /\ \A n \in 1 .. 128 : Pow2[n] = 2 * Pow2[n - 1]  BY Pow2Def
<1>2. Pow2[a] \in Nat  BY Pow2Positive
<1>3. 0 \in T  BY <1>1, <1>2
<1>4. ASSUME NEW n \in 0 .. b, n \in T, n # b PROVE n + 1 \in T
  <2>1. n + 1 \in 1 .. 128 /\ (n + 1) - 1 = n /\ a + n + 1 \in 1 .. 128 /\ (a + n + 1) - 1 = a + n
        /\ n \in 0 .. 128 /\ a + n \in 0 .. 128
    BY <1>4
  <2>2. Pow2[n + 1] = 2 * Pow2[n] /\ Pow2[a + n + 1] = 2 * Pow2[a + n]  BY <1>1, <2>1
  <2>3. Pow2[n] \in Nat /\ Pow2[a + n] \in Nat  BY <2>1, Pow2Positive
  <2>4. Pow2[a + n] = Pow2[a] * Pow2[n]  BY <1>4
  <2>5. 2 * (Pow2[a] * Pow2[n]) = Pow2[a] * (2 * Pow2[n])  BY <1>2, <2>3
  <2>6. Pow2[a + (n + 1)] = Pow2[a] * Pow2[n + 1]  BY <2>2, <2>4, <2>5
  <2>. QED  BY <1>4, <2>6
<1>5. T \in SUBSET Nat  OBVIOUS
<1>. HIDE DEF T
<1>6. \A n \in 0 .. b : n \in T  BY <1>3, <1>4, <1>5, Upwards
<1>. QED  BY <1>6 DEF T

-----------------------------------------------------------------------------
(* The scan.                                                               *)

\* Intervals that do not begin before those that precede them.
InOrder(occupied) ==
    /\ occupied \in Seq(Nat \X Nat)
    /\ \A n \in 1 .. Len(occupied) : occupied[n][1] <= occupied[n][2]
    /\ \A m, n \in 1 .. Len(occupied) : m < n => occupied[m][1] <= occupied[n][1]

\* One of the first k intervals covers x.
Covers(occupied, k, x) ==
    \E n \in 1 .. k : occupied[n][1] <= x /\ x <= occupied[n][2]

ScanState == [candidate : Nat \cup {None}, done : BOOLEAN]

LEMMA ScanType ==
    ASSUME NEW s \in ScanState, NEW i \in Nat \X Nat, NEW to \in Nat
    PROVE  Scan(s, i, to) \in ScanState
<1>1. i[2] + 1 \in Nat  OBVIOUS
<1>2. [s EXCEPT !.done = TRUE] \in ScanState  BY DEF ScanState
<1>3. [candidate |-> None, done |-> TRUE] \in ScanState  BY DEF ScanState
<1>4. [s EXCEPT !.candidate = i[2] + 1] \in ScanState  BY <1>1 DEF ScanState
<1>. QED  BY <1>2, <1>3, <1>4 DEF Scan

\* The loop of first_unoccupied_index.
LEMMA ScanDef ==
    ASSUME NEW occupied, InOrder(occupied), NEW from \in Nat, NEW to \in Nat, from <= to
    PROVE  \E scan :
              /\ scan[0] = [candidate |-> from, done |-> FALSE]
              /\ \A n \in 1 .. Len(occupied) : scan[n] = Scan(scan[n - 1], occupied[n], to)
              /\ first_unoccupied_index(occupied, from, to) = scan[Len(occupied)].candidate
<1>. DEFINE N == Len(occupied)
            s0 == [candidate |-> from, done |-> FALSE]
            step == [n \in 0 .. N |-> [s \in ScanState |->
                        IF n = 0 THEN s0 ELSE Scan(s, occupied[n], to)]]
<1>1. N \in Nat /\ \A n \in 1 .. N : occupied[n] \in Nat \X Nat  BY DEF InOrder
<1>. HIDE DEF N
<1>2. s0 \in ScanState  BY DEF ScanState
<1>. HIDE DEF s0
<1>3. step \in [0 .. N -> [ScanState -> ScanState]]
  BY <1>1, <1>2, ScanType
<1>4. PICK f : IsRun(f, 0, N, ScanState, s0, step)
  <2>. HIDE DEF step
  <2>1. 0 \in Nat /\ 0 <= N  BY <1>1
  <2>. QED  BY <1>1, <1>2, <1>3, <2>1, LoopRuns, Zenon
<1>5. f \in [0 .. N -> ScanState] /\ f[0] = s0  BY <1>4 DEF IsRun
<1>6. \A n \in 1 .. N : f[n] = Scan(f[n - 1], occupied[n], to)
  <2>. TAKE n \in 1 .. N
  <2>1. n - 1 \in 0 .. N /\ n \in 0 .. N /\ n \in (0 + 1) .. N /\ n # 0  BY <1>1
  <2>2. f[n - 1] \in ScanState  BY <1>5, <2>1
  <2>3. step[n][f[n - 1]] = Scan(f[n - 1], occupied[n], to)  BY <2>1, <2>2
  <2>4. f[n] = step[n][f[n - 1]]
    <3>. HIDE DEF step
    <3>. QED  BY <1>4, <2>1 DEF IsRun
  <2>. QED  BY <2>3, <2>4
<1>. DEFINE g == CHOOSE scan : scan = [n \in 0 .. N |-> IF n = 0 THEN s0
                                        ELSE Scan(scan[n - 1], occupied[n], to)]
<1>7. f = [n \in 0 .. N |-> IF n = 0 THEN s0 ELSE Scan(f[n - 1], occupied[n], to)]
  BY <1>1, <1>5, <1>6
<1>8. g = [n \in 0 .. N |-> IF n = 0 THEN s0 ELSE Scan(g[n - 1], occupied[n], to)]
  BY <1>7
<1>9. first_unoccupied_index(occupied, from, to) = g[N].candidate
  BY DEF first_unoccupied_index, N, s0
<1>. HIDE DEF g
<1>10. g[0] = s0 /\ \A n \in 1 .. N : g[n] = Scan(g[n - 1], occupied[n], to)
  BY <1>1, <1>8
<1>. QED  BY <1>9, <1>10 DEF N, s0

\* What the loop knows after n intervals: all indexes before the candidate are
\* covered and the candidate is not, by no interval at all if the loop has
\* returned it; and all are covered if it has returned nothing.
ScanKnows(occupied, from, to, n, s) ==
    /\ s \in ScanState
    /\ s.candidate = None => s.done /\ \A x \in from .. to : Covers(occupied, n, x)
    /\ s.candidate # None =>
          /\ s.candidate \in from .. to
          /\ \A x \in from .. to : x < s.candidate => Covers(occupied, n, x)
          /\ ~Covers(occupied, IF s.done THEN Len(occupied) ELSE n, s.candidate)

LEMMA ScanStep ==
    ASSUME NEW occupied, InOrder(occupied), NEW from \in Nat, NEW to \in Nat, from <= to,
           NEW n \in 1 .. Len(occupied), NEW s, ScanKnows(occupied, from, to, n - 1, s)
    PROVE  ScanKnows(occupied, from, to, n, Scan(s, occupied[n], to))
<1>. DEFINE i == occupied[n]
            t == Scan(s, i, to)
<1>1. Len(occupied) \in Nat /\ n \in Nat /\ i \in Nat \X Nat /\ i[1] \in Nat /\ i[2] \in Nat /\ i[1] <= i[2]
  BY DEF InOrder
<1>2. s \in ScanState  BY DEF ScanKnows
<1>3. t \in ScanState  BY <1>1, <1>2, ScanType
<1>4. \A x : Covers(occupied, n - 1, x) => Covers(occupied, n, x)
  BY <1>1 DEF Covers
<1>5. \A x : ~Covers(occupied, n - 1, x) /\ ~(i[1] <= x /\ x <= i[2]) => ~Covers(occupied, n, x)
  BY <1>1 DEF Covers
<1>6. \A x : i[1] <= x /\ x <= i[2] => Covers(occupied, n, x)
  BY <1>1 DEF Covers
<1>. DEFINE c == s.candidate
<1>7. CASE s.done
  <2>1. t = s  BY <1>7 DEF Scan
  <2>. QED  BY <1>2, <1>4, <1>7, <2>1 DEF ScanKnows
<1>8. CASE ~s.done
  <2>1. c \in from .. to /\ c \in Nat /\ c # None
        /\ (\A x \in from .. to : x < c => Covers(occupied, n - 1, x))
        /\ ~Covers(occupied, n - 1, c)
    BY <1>8, BitsAssumption DEF ScanKnows
  <2>2. CASE i[2] < c
    <3>1. t = s  BY <2>2 DEF Scan
    <3>2. ~Covers(occupied, n, c)  BY <1>1, <1>5, <2>1, <2>2
    <3>. QED  BY <1>2, <1>4, <1>8, <2>1, <3>1, <3>2 DEF ScanKnows
  <2>3. CASE ~(i[2] < c) /\ i[1] > c
    <3>1. t = [s EXCEPT !.done = TRUE]  BY <1>8, <2>3 DEF Scan
    <3>2. t.done /\ t.candidate = c  BY <1>2, <3>1 DEF ScanState
    <3>3. ~Covers(occupied, Len(occupied), c)
      <4>. SUFFICES ASSUME NEW m \in 1 .. Len(occupied),
                           occupied[m][1] <= c, c <= occupied[m][2]
                    PROVE  FALSE
        BY DEF Covers
      <4>1. m \in 1 .. (n - 1) => Covers(occupied, n - 1, c)  BY DEF Covers
      <4>2. m = n \/ n < m  BY <1>1, <2>1, <4>1
      <4>3. occupied[m] \in Nat \X Nat /\ occupied[m][1] \in Nat /\ i[1] <= occupied[m][1]
        BY <1>1, <4>2 DEF InOrder
      <4>. QED  BY <1>1, <2>1, <2>3, <4>3
    <3>. QED  BY <1>3, <1>4, <2>1, <3>2, <3>3 DEF ScanKnows
  <2>4. CASE ~(i[2] < c) /\ ~(i[1] > c) /\ i[2] + 1 > to
    <3>1. t = [candidate |-> None, done |-> TRUE]  BY <1>8, <2>4 DEF Scan
    <3>2. t.done /\ t.candidate = None  BY <3>1
    <3>3. \A x \in from .. to : Covers(occupied, n, x)
      BY <1>1, <1>4, <1>6, <2>1, <2>4
    <3>. QED  BY <1>3, <3>2, <3>3 DEF ScanKnows
  <2>5. CASE ~(i[2] < c) /\ ~(i[1] > c) /\ ~(i[2] + 1 > to)
    <3>1. t = [s EXCEPT !.candidate = i[2] + 1]  BY <1>8, <2>5 DEF Scan
    <3>2. t.done = FALSE /\ t.candidate = i[2] + 1  BY <1>2, <1>8, <3>1 DEF ScanState
    <3>3. i[2] + 1 \in from .. to /\ i[2] + 1 # None  BY <1>1, <2>1, <2>5, BitsAssumption
    <3>4. \A x \in from .. to : x < i[2] + 1 => Covers(occupied, n, x)
      BY <1>1, <1>4, <1>6, <2>1, <2>5
    <3>5. ~Covers(occupied, n, i[2] + 1)
      <4>. SUFFICES ASSUME NEW m \in 1 .. n,
                           occupied[m][1] <= i[2] + 1, i[2] + 1 <= occupied[m][2]
                    PROVE  FALSE
        BY DEF Covers
      <4>1. m \in 1 .. Len(occupied) /\ m < n /\ m \in 1 .. (n - 1)  BY <1>1
      <4>2. occupied[m] \in Nat \X Nat /\ occupied[m][1] \in Nat /\ occupied[m][2] \in Nat
        BY <4>1 DEF InOrder
      <4>3. occupied[m][1] <= i[1]  BY <4>1 DEF InOrder
      <4>4. occupied[m][1] <= c /\ c <= occupied[m][2]  BY <1>1, <2>1, <2>5, <4>2, <4>3
      <4>. QED  BY <2>1, <4>1, <4>4 DEF Covers
    <3>. QED  BY <1>3, <3>2, <3>3, <3>4, <3>5 DEF ScanKnows
  <2>. QED  BY <2>2, <2>3, <2>4, <2>5
<1>. QED  BY <1>7, <1>8

\* Which indexes of from .. to no interval covers.
Uncovered(occupied, from, to) ==
    {x \in from .. to : ~Covers(occupied, Len(occupied), x)}

\* first_unoccupied_index returns the least index of its range that no interval
\* covers, and None only if there is none: for every list of intervals in
\* order, also where they overlap or contain each other.
THEOREM ScanFindsFirst ==
    ASSUME NEW occupied, InOrder(occupied), NEW from \in Nat, NEW to \in Nat
    PROVE  first_unoccupied_index(occupied, from, to) =
              IF Uncovered(occupied, from, to) = {} THEN None
              ELSE Min(Uncovered(occupied, from, to))
<1>. DEFINE N == Len(occupied)
            U == Uncovered(occupied, from, to)
<1>1. N \in Nat  BY DEF InOrder
<1>2. U \in SUBSET Nat  BY DEF Uncovered
<1>3. CASE from > to
  <2>1. U = {}  BY <1>3 DEF Uncovered
  <2>2. first_unoccupied_index(occupied, from, to) = None  BY <1>3 DEF first_unoccupied_index
  <2>. QED  BY <2>1, <2>2
<1>4. CASE from <= to
  <2>1. PICK scan :
           /\ scan[0] = [candidate |-> from, done |-> FALSE]
           /\ \A n \in 1 .. N : scan[n] = Scan(scan[n - 1], occupied[n], to)
           /\ first_unoccupied_index(occupied, from, to) = scan[N].candidate
    BY <1>4, ScanDef
  <2>. DEFINE T == {n \in 0 .. N : ScanKnows(occupied, from, to, n, scan[n])}
  <2>2. 0 \in T
    <3>1. scan[0] \in ScanState /\ scan[0].done = FALSE /\ scan[0].candidate = from
      BY <2>1 DEF ScanState
    <3>2. from # None  BY BitsAssumption
    <3>3. ~Covers(occupied, 0, from)  BY DEF Covers
    <3>. QED  BY <1>1, <1>4, <3>1, <3>2, <3>3 DEF ScanKnows
  <2>3. ASSUME NEW n \in 0 .. N, n \in T, n # N PROVE n + 1 \in T
    <3>1. n + 1 \in 1 .. N /\ (n + 1) - 1 = n /\ n + 1 \in 0 .. N  BY <1>1, <2>3
    <3>2. scan[n + 1] = Scan(scan[n], occupied[n + 1], to)  BY <2>1, <3>1
    <3>3. ScanKnows(occupied, from, to, (n + 1) - 1, scan[n])  BY <2>3, <3>1
    <3>4. ScanKnows(occupied, from, to, n + 1, scan[n + 1])
      BY <1>4, <3>1, <3>2, <3>3, ScanStep
    <3>. QED  BY <3>1, <3>4
  <2>4. T \in SUBSET Nat  BY <1>1
  <2>. HIDE DEF T
  <2>5. \A n \in 0 .. N : n \in T  BY <1>1, <2>2, <2>3, <2>4, Upwards
  <2>6. ScanKnows(occupied, from, to, N, scan[N])  BY <1>1, <2>5 DEF T
  <2>. DEFINE c == scan[N].candidate
  <2>7. CASE c = None
    <3>1. U = {}  BY <2>6, <2>7 DEF ScanKnows, Uncovered
    <3>. QED  BY <2>1, <2>7, <3>1
  <2>8. CASE c # None
    <3>1. c \in U /\ \A x \in U : ~(x < c)
      BY <2>6, <2>8 DEF ScanKnows, Uncovered
    <3>2. Min(U) \in U /\ \A x \in U : Min(U) <= x  BY <1>2, <3>1, LeastNat
    <3>3. c = Min(U)  BY <1>2, <3>1, <3>2
    <3>. QED  BY <2>1, <3>1, <3>3
  <2>. QED  BY <2>7, <2>8
<1>. QED  BY <1>3, <1>4

\* next_fit, with its wrap, is NextFit of the indexes that no interval covers.
LEMMA NextFitFinds ==
    ASSUME NEW occupied, InOrder(occupied), NEW total \in Nat \ {0}, NEW start \in 0 .. (total - 1)
    PROVE  next_fit(occupied, start, total) = NextFit(Uncovered(occupied, 0, total - 1), start)
<1>. DEFINE U == Uncovered(occupied, 0, total - 1)
            above == Uncovered(occupied, start, total - 1)
            below == Uncovered(occupied, 0, start - 1)
<1>1. U \in SUBSET Nat /\ above \in SUBSET Nat  BY DEF Uncovered
<1>2. above = {i \in U : i >= start}  BY DEF Uncovered
<1>3. below = {i \in U : ~(i >= start)}  BY DEF Uncovered
<1>4. first_unoccupied_index(occupied, start, total - 1) = IF above = {} THEN None ELSE Min(above)
  BY ScanFindsFirst
<1>5. start # 0 => first_unoccupied_index(occupied, 0, start - 1)
                      = IF below = {} THEN None ELSE Min(below)
  <2>. SUFFICES ASSUME start # 0
                PROVE  first_unoccupied_index(occupied, 0, start - 1)
                          = IF below = {} THEN None ELSE Min(below)
    OBVIOUS
  <2>1. 0 \in Nat /\ start - 1 \in Nat  OBVIOUS
  <2>. QED  BY <2>1, ScanFindsFirst
<1>. HIDE DEF U, above, below
<1>6. CASE above # {}
  <2>1. Min(above) \in Nat  BY <1>1, <1>6, LeastNat
  <2>2. Min(above) # None  BY <2>1, BitsAssumption
  <2>3. U # {}  BY <1>2, <1>6
  <2>. QED  BY <1>2, <1>4, <1>6, <2>2, <2>3 DEF next_fit, NextFit, U
<1>7. CASE above = {}
  <2>1. below = U  BY <1>2, <1>3, <1>7
  <2>2. start = 0 => U = {}  BY <1>1, <1>2, <1>7
  <2>3. next_fit(occupied, start, total) = IF U = {} THEN None ELSE Min(U)
    BY <1>4, <1>5, <1>7, <2>1, <2>2 DEF next_fit
  <2>4. NextFit(U, start) = IF U = {} THEN None ELSE Min(U)
    BY <1>2, <1>7 DEF NextFit
  <2>. QED  BY <2>3, <2>4 DEF U
<1>. QED  BY <1>6, <1>7

-----------------------------------------------------------------------------
(* Sorting.                                                                *)

Ascends(s) == \A m, n \in DOMAIN s : m < n => Before(s[m], s[n])

\* Some pair of a set comes before all others.
LEMMA LeastPair ==
    ASSUME NEW I \in SUBSET (Nat \X Nat), I # {}
    PROVE  \E x \in I : \A y \in I : y # x => Before(x, y)
<1>. DEFINE A == {y[1] : y \in I}
<1>1. A \in SUBSET Nat /\ A # {}  OBVIOUS
<1>2. PICK a \in A : \A z \in A : a <= z  BY <1>1, LeastNat
<1>. DEFINE B == {y[2] : y \in {z \in I : z[1] = a}}
<1>3. B \in SUBSET Nat /\ B # {}  OBVIOUS
<1>4. PICK b \in B : \A z \in B : b <= z  BY <1>3, LeastNat
<1>5. PICK x \in I : x[1] = a /\ x[2] = b  BY <1>4
<1>6. ASSUME NEW y \in I, y # x PROVE Before(x, y)
  <2>1. y \in Nat \X Nat /\ x \in Nat \X Nat  OBVIOUS
  <2>2. y[1] \in A /\ a <= y[1] /\ y[1] \in Nat /\ a \in Nat  BY <1>1, <1>2
  <2>3. CASE y[1] = a
    <3>1. y[2] \in B /\ b <= y[2] /\ y[2] \in Nat /\ b \in Nat  BY <1>3, <1>4, <2>3
    <3>2. x[2] # y[2]  BY <1>5, <1>6, <2>1, <2>3
    <3>. QED  BY <1>5, <2>3, <3>1, <3>2 DEF Before
  <2>4. CASE y[1] # a  BY <1>5, <2>2, <2>4 DEF Before
  <2>. QED  BY <2>3, <2>4
<1>. QED  BY <1>6

\* Finitely many pairs can be listed in order.
LEMMA SortExists ==
    ASSUME NEW I \in SUBSET (Nat \X Nat), IsFiniteSet(I)
    PROVE  \E s \in SetToSeqs(I) : Ascends(s)
<1>. DEFINE Sorts(n) == \A J \in SUBSET (Nat \X Nat) : IsFiniteSet(J) /\ Cardinality(J) = n =>
                           \E s \in [1 .. n -> J] : Ascends(s)
            T == {n \in Nat : Sorts(n)}
            N == Cardinality(I)
<1>1. N \in Nat  BY FS_CardinalityType
<1>2. 0 \in T
  <2>. SUFFICES ASSUME NEW J \in SUBSET (Nat \X Nat), IsFiniteSet(J), Cardinality(J) = 0
                PROVE  \E s \in [1 .. 0 -> J] : Ascends(s)
    OBVIOUS
  <2>. DEFINE s == [n \in 1 .. 0 |-> CHOOSE x \in J : TRUE]
  <2>1. s \in [1 .. 0 -> J] /\ Ascends(s)  BY DEF Ascends
  <2>. QED  BY <2>1
<1>3. ASSUME NEW n \in 0 .. N, n \in T, n # N PROVE n + 1 \in T
  <2>. SUFFICES ASSUME NEW J \in SUBSET (Nat \X Nat), IsFiniteSet(J), Cardinality(J) = n + 1
                PROVE  \E s \in [1 .. (n + 1) -> J] : Ascends(s)
    OBVIOUS
  <2>1. J # {}  BY FS_EmptySet
  <2>2. PICK x \in J : \A y \in J : y # x => Before(x, y)  BY <2>1, LeastPair
  <2>3. IsFiniteSet(J \ {x}) /\ Cardinality(J \ {x}) = n
    <3>1. IsFiniteSet(J \ {x}) /\ Cardinality(J \ {x}) = Cardinality(J) - 1
      BY FS_RemoveElement
    <3>2. n \in Nat  BY <1>1
    <3>. QED  BY <3>1, <3>2
  <2>4. PICK s \in [1 .. n -> J \ {x}] : Ascends(s)  BY <1>3, <2>3
  <2>. DEFINE t == [m \in 1 .. (n + 1) |-> IF m = 1 THEN x ELSE s[m - 1]]
  <2>5. \A m \in 2 .. (n + 1) : m - 1 \in 1 .. n /\ s[m - 1] \in J \ {x} /\ t[m] = s[m - 1]
    OBVIOUS
  <2>6. t \in [1 .. (n + 1) -> J] /\ t[1] = x  BY <2>5
  <2>. HIDE DEF t
  <2>7. Ascends(t)
    <3>. SUFFICES ASSUME NEW i \in 1 .. (n + 1), NEW j \in 1 .. (n + 1), i < j
                  PROVE  Before(t[i], t[j])
      BY <2>6 DEF Ascends
    <3>1. CASE i = 1  BY <2>2, <2>5, <2>6, <3>1
    <3>2. CASE i # 1
      <4>1. i \in 2 .. (n + 1) /\ j \in 2 .. (n + 1) /\ i - 1 < j - 1  BY <3>2
      <4>. QED  BY <2>4, <2>5, <4>1 DEF Ascends
    <3>. QED  BY <3>1, <3>2
  <2>. QED  BY <2>6, <2>7
<1>4. T \in SUBSET Nat  OBVIOUS
<1>5. N \in T
  <2>. HIDE DEF T, N
  <2>1. \A n \in 0 .. N : n \in T  BY <1>1, <1>2, <1>3, <1>4, Upwards
  <2>. QED  BY <1>1, <2>1
<1>6. PICK s \in [1 .. N -> I] : Ascends(s)  BY <1>5
<1>7. \A i, j \in 1 .. N : i # j => s[i] # s[j]
  <2>. SUFFICES ASSUME NEW i \in 1 .. N, NEW j \in 1 .. N, i < j PROVE s[i] # s[j]
    BY <1>1
  <2>1. Before(s[i], s[j]) /\ s[i] \in Nat \X Nat /\ s[j] \in Nat \X Nat  BY <1>6 DEF Ascends
  <2>. QED  BY <2>1 DEF Before
<1>. QED  BY <1>6, <1>7 DEF SetToSeqs

-----------------------------------------------------------------------------
(* The intervals.                                                          *)

\* The part of a network that lies in the parent, and the children it covers.
ClipFirst(parent, u) == IF u.lo > parent.lo THEN u.lo ELSE parent.lo
ClipLast(parent, u) ==
    IF broadcast(u) < broadcast(parent) THEN broadcast(u) ELSE broadcast(parent)
Index(parent, childBits, addr) == (addr - parent.lo) \div Pow2[childBits]
Interval(parent, childBits, u) ==
    <<Index(parent, childBits, ClipFirst(parent, u)), Index(parent, childBits, ClipLast(parent, u))>>
Inside(parent, nets) == {v \in nets : ClipFirst(parent, v) <= ClipLast(parent, v)}
Intervals(parent, childBits, nets) ==
    {Interval(parent, childBits, u) : u \in Inside(parent, nets)}

\* A network: its address and the length of its host part.
AnyNetwork == [lo : Nat, bits : 0 .. 128]

LEMMA IntervalType ==
    ASSUME NEW parent \in AnyNetwork, NEW childBits \in 0 .. 128,
           NEW nets \in SUBSET AnyNetwork, NEW u \in Inside(parent, nets)
    PROVE  /\ Interval(parent, childBits, u) \in Nat \X Nat
           /\ Interval(parent, childBits, u)[1] <= Interval(parent, childBits, u)[2]
<1>. DEFINE c == Pow2[childBits]
            a == ClipFirst(parent, u) - parent.lo
            b == ClipLast(parent, u) - parent.lo
<1>1. c \in Nat \ {0} /\ Pow2[parent.bits] \in Nat \ {0} /\ Pow2[u.bits] \in Nat \ {0}
  BY Pow2Positive DEF AnyNetwork, Inside
<1>2. a \in Nat /\ b \in Nat /\ a <= b
  BY <1>1 DEF AnyNetwork, Inside, ClipFirst, ClipLast, broadcast
<1>. HIDE DEF a, b, c
<1>3. a \div c \in Nat /\ b \div c \in Nat /\ a \div c <= b \div c
  BY <1>1, <1>2
<1>. QED  BY <1>3 DEF Interval, Index, a, b, c

\* occupied_prefix_intervals lists the intervals in order, each once.
LEMMA IntervalsListed ==
    ASSUME NEW parent \in AnyNetwork, NEW childBits \in 0 .. 128,
           NEW nets \in SUBSET AnyNetwork, IsFiniteSet(nets)
    PROVE  LET list == occupied_prefix_intervals(parent, childBits, nets)
               I == Intervals(parent, childBits, nets)
           IN  /\ InOrder(list)
               /\ \A n \in 1 .. Len(list) : list[n] \in I
               /\ \A e \in I : \E n \in 1 .. Len(list) : list[n] = e
<1>. DEFINE list == occupied_prefix_intervals(parent, childBits, nets)
            I == Intervals(parent, childBits, nets)
            U == Inside(parent, nets)
            f == [u \in U |-> Interval(parent, childBits, u)]
<1>1. I \in SUBSET (Nat \X Nat) /\ \A e \in I : e[1] <= e[2]
  BY IntervalType DEF Intervals
<1>2. IsFiniteSet(I)
  <2>1. IsFiniteSet(U)  BY FS_Subset DEF Inside
  <2>2. f \in Surjection(U, I)  BY DEF Surjection, Intervals
  <2>. HIDE DEF f, U, I
  <2>. QED  BY <2>1, <2>2, FS_Surjection
<1>3. list = CHOOSE s \in SetToSeqs(I) : Ascends(s)
  BY DEF occupied_prefix_intervals, Ascends, Intervals, Inside, Interval, Index, ClipFirst, ClipLast
<1>. HIDE DEF list, I
<1>4. list \in SetToSeqs(I) /\ Ascends(list)
  <2>1. \E s \in SetToSeqs(I) : Ascends(s)  BY <1>1, <1>2, SortExists
  <2>. QED  BY <1>3, <2>1
<1>. DEFINE N == Cardinality(I)
<1>5. N \in Nat  BY <1>2, FS_CardinalityType
<1>6. list \in [1 .. N -> I] /\ list \in Seq(Nat \X Nat) /\ Len(list) = N /\ DOMAIN list = 1 .. N
  <2>1. list \in [1 .. N -> I]  BY <1>4 DEF SetToSeqs
  <2>2. list \in [1 .. N -> Nat \X Nat]  BY <1>1, <2>1
  <2>. HIDE DEF N
  <2>3. list \in Seq(Nat \X Nat)  BY <1>5, <2>2
  <2>4. Len(list) = N  BY <1>5, <2>2, <2>3
  <2>. QED  BY <2>1, <2>2, <2>3, <2>4
<1>7. \A e \in I : \E n \in 1 .. N : list[n] = e
  <2>1. list \in Injection(1 .. N, I)  BY <1>4, <1>6 DEF SetToSeqs, Injection, IsInjective
  <2>2. IsFiniteSet(1 .. N) /\ Cardinality(1 .. N) = N  BY <1>5, FS_Interval
  <2>3. list \in Surjection(1 .. N, I)  BY <1>2, <2>1, <2>2, FS_Injection
  <2>. QED  BY <2>3 DEF Surjection
<1>8. InOrder(list)
  <2>1. \A n \in 1 .. N : list[n] \in I /\ list[n][1] <= list[n][2]  BY <1>1, <1>6
  <2>2. \A m, n \in 1 .. N : m < n => list[m][1] <= list[n][1]
    <3>. SUFFICES ASSUME NEW m \in 1 .. N, NEW n \in 1 .. N, m < n PROVE list[m][1] <= list[n][1]
      OBVIOUS
    <3>1. Before(list[m], list[n])  BY <1>4, <1>6 DEF Ascends
    <3>2. list[m] \in Nat \X Nat /\ list[n] \in Nat \X Nat  BY <1>1, <1>6
    <3>. QED  BY <3>1, <3>2 DEF Before
  <2>. QED  BY <1>6, <2>1, <2>2 DEF InOrder
<1>. QED  BY <1>6, <1>7, <1>8 DEF list, I

\* Which multiples of c a quotient lies between.
LEMMA DivFacts ==
    ASSUME NEW c \in Nat \ {0}, NEW i \in Nat, NEW z \in Nat
    PROVE  /\ z \div c <= i <=> z < i * c + c
           /\ i <= z \div c <=> i * c <= z
<1>. DEFINE q == z \div c
<1>1. q \in Nat /\ q * c <= z /\ z < q * c + c  OBVIOUS
<1>. HIDE DEF q
<1>2. i <= q => i * c <= q * c  BY <1>1
<1>3. q <= i => q * c <= i * c  BY <1>1
<1>4. q < i => q * c + c <= i * c
  <2>1. q < i => (q + 1) * c <= i * c  BY <1>1
  <2>2. (q + 1) * c = q * c + c  BY <1>1
  <2>. QED  BY <2>1, <2>2
<1>5. i < q => i * c + c <= q * c
  <2>1. i < q => (i + 1) * c <= q * c  BY <1>1
  <2>2. (i + 1) * c = i * c + c  OBVIOUS
  <2>. QED  BY <2>1, <2>2
<1>6. q * c \in Nat /\ i * c \in Nat  BY <1>1
<1>7. q <= i <=> z < i * c + c  BY <1>1, <1>3, <1>5, <1>6
<1>8. i <= q <=> i * c <= z  BY <1>1, <1>2, <1>4, <1>6
<1>. QED  BY <1>7, <1>8 DEF q

\* A child of the parent.
ChildOf(parent, childBits, i) == [lo |-> parent.lo + i * Pow2[childBits], bits |-> childBits]

\* A network overlaps a child exactly if the network lies in part in the parent
\* and its interval has the child's index.
LEMMA OverlapIsCovered ==
    ASSUME NEW parent \in AnyNetwork, NEW childBits \in 0 .. 128, childBits <= parent.bits,
           NEW u \in AnyNetwork, NEW i \in 0 .. (Pow2[parent.bits - childBits] - 1)
    PROVE  networks_overlap(u, ChildOf(parent, childBits, i)) <=>
              /\ ClipFirst(parent, u) <= ClipLast(parent, u)
              /\ Interval(parent, childBits, u)[1] <= i
              /\ i <= Interval(parent, childBits, u)[2]
<1>. DEFINE c == Pow2[childBits]
            t == Pow2[parent.bits - childBits]
            p == parent.lo
            a == u.lo
            b == a + Pow2[u.bits] - 1
            e == p + Pow2[parent.bits] - 1
            l == p + i * c
<1>1. c \in Nat \ {0} /\ t \in Nat \ {0} /\ p \in Nat /\ a \in Nat /\ b \in Nat /\ a <= b
  <2>1. u.bits \in 0 .. 128 /\ parent.bits - childBits \in 0 .. 128 /\ p \in Nat /\ a \in Nat
    BY DEF AnyNetwork
  <2>2. Pow2[u.bits] \in Nat \ {0} /\ c \in Nat \ {0} /\ t \in Nat \ {0}
    BY <2>1, Pow2Positive
  <2>. HIDE DEF a, p, c, t
  <2>. QED  BY <2>1, <2>2
<1>2. Pow2[parent.bits] = t * c
  <2>1. parent.bits - childBits \in Nat /\ (parent.bits - childBits) + childBits = parent.bits
        /\ parent.bits <= 128
    BY DEF AnyNetwork
  <2>. QED  BY <2>1, Pow2Sum
<1>3. e = p + t * c - 1  BY <1>2
<1>4. i \in Nat /\ i < t  BY <1>1
<1>. HIDE DEF c, t
<1>5. i * c \in Nat /\ t * c \in Nat /\ i * c + c <= t * c
  <2>1. i + 1 <= t  BY <1>1, <1>4
  <2>2. (i + 1) * c <= t * c  BY <1>1, <1>4, <2>1
  <2>3. (i + 1) * c = i * c + c  BY <1>1, <1>4
  <2>. QED  BY <1>1, <1>4, <2>2, <2>3
<1>6. networks_overlap(u, ChildOf(parent, childBits, i)) <=> a <= l + c - 1 /\ l <= b
  <2>1. networks_overlap(u, ChildOf(parent, childBits, i)) <=>
           (a <= l /\ l <= b) \/ (l <= a /\ a <= l + c - 1)
    BY DEF networks_overlap, contains, broadcast, ChildOf, c
  <2>2. l \in Nat  BY <1>1, <1>5
  <2>. HIDE DEF l, a, b
  <2>. QED  BY <1>1, <2>1, <2>2
<1>. DEFINE x == ClipFirst(parent, u)
            y == ClipLast(parent, u)
<1>7. /\ x = IF a > p THEN a ELSE p
      /\ y = IF b < e THEN b ELSE e
  BY DEF ClipFirst, ClipLast, broadcast
<1>8. e \in Nat /\ x - p \in Nat  BY <1>1, <1>3, <1>5, <1>7
<1>9. ASSUME NEW z \in Nat
      PROVE  (z \div c <= i <=> z < i * c + c) /\ (i <= z \div c <=> i * c <= z)
  BY <1>1, <1>4, DivFacts
<1>10. /\ Interval(parent, childBits, u)[1] = (x - p) \div c
       /\ Interval(parent, childBits, u)[2] = (y - p) \div c
  BY DEF Interval, Index, c
<1>. HIDE DEF x, y
<1>11. CASE x <= y
  <2>1. y - p \in Nat /\ y \in Nat /\ x \in Nat  BY <1>1, <1>7, <1>8, <1>11
  <2>2. /\ (x - p) \div c <= i <=> x - p < i * c + c
        /\ i <= (y - p) \div c <=> i * c <= y - p
    BY <1>8, <1>9, <2>1
  <2>3. x - p < i * c + c <=> a <= l + c - 1  BY <1>1, <1>5, <1>7
  <2>4. i * c <= y - p <=> l <= b  BY <1>1, <1>3, <1>5, <1>7, <1>8
  <2>. HIDE DEF l, a, b
  <2>. QED  BY <1>6, <1>10, <1>11, <2>2, <2>3, <2>4 DEF x, y
<1>12. CASE ~(x <= y)
  <2>1. b < p \/ a > e  BY <1>1, <1>3, <1>5, <1>7, <1>8, <1>12
  <2>2. ~(a <= l + c - 1 /\ l <= b)  BY <1>1, <1>3, <1>5, <1>8, <2>1
  <2>. QED  BY <1>6, <1>12, <2>2 DEF x, y
<1>. QED  BY <1>11, <1>12

-----------------------------------------------------------------------------
(* The choice.                                                             *)

\* The children that overlap with no network in use.
FreeOf(parent, childBits, nets) ==
    {i \in 0 .. (Pow2[parent.bits - childBits] - 1) :
        \A u \in nets : ~networks_overlap(u, ChildOf(parent, childBits, i))}

LEMMA TotalPositive ==
    ASSUME NEW parent \in AnyNetwork, NEW childBits \in 0 .. 128, childBits <= parent.bits
    PROVE  Pow2[parent.bits - childBits] \in Nat \ {0}
<1>1. parent.bits - childBits \in 0 .. 128  BY DEF AnyNetwork
<1>. QED  BY <1>1, Pow2Positive

\* They are the ones that no interval covers.
LEMMA FreeIsUncovered ==
    ASSUME NEW parent \in AnyNetwork, NEW childBits \in 0 .. 128, childBits <= parent.bits,
           NEW nets \in SUBSET AnyNetwork, IsFiniteSet(nets)
    PROVE  FreeOf(parent, childBits, nets) =
              Uncovered(occupied_prefix_intervals(parent, childBits, nets),
                        0, Pow2[parent.bits - childBits] - 1)
<1>. DEFINE list == occupied_prefix_intervals(parent, childBits, nets)
            t == Pow2[parent.bits - childBits]
<1>1. /\ \A n \in 1 .. Len(list) : list[n] \in Intervals(parent, childBits, nets)
      /\ \A e \in Intervals(parent, childBits, nets) : \E n \in 1 .. Len(list) : list[n] = e
  BY IntervalsListed
<1>. HIDE DEF list
<1>2. ASSUME NEW i \in 0 .. (t - 1)
      PROVE  (\E u \in nets : networks_overlap(u, ChildOf(parent, childBits, i)))
                <=> Covers(list, Len(list), i)
  <2>1. \A u \in nets : networks_overlap(u, ChildOf(parent, childBits, i)) <=>
           u \in Inside(parent, nets) /\ Interval(parent, childBits, u)[1] <= i
              /\ i <= Interval(parent, childBits, u)[2]
    BY OverlapIsCovered DEF Inside
  <2>2. Inside(parent, nets) \subseteq nets  BY DEF Inside
  <2>3. ASSUME NEW u \in nets, networks_overlap(u, ChildOf(parent, childBits, i))
        PROVE  Covers(list, Len(list), i)
    <3>1. u \in Inside(parent, nets) /\ Interval(parent, childBits, u)[1] <= i
             /\ i <= Interval(parent, childBits, u)[2]
      BY <2>1, <2>3
    <3>2. Interval(parent, childBits, u) \in Intervals(parent, childBits, nets)
      BY <3>1 DEF Intervals
    <3>3. PICK n \in 1 .. Len(list) : list[n] = Interval(parent, childBits, u)
      BY <1>1, <3>2
    <3>. QED  BY <3>1, <3>3 DEF Covers
  <2>4. ASSUME Covers(list, Len(list), i)
        PROVE  \E u \in nets : networks_overlap(u, ChildOf(parent, childBits, i))
    <3>1. PICK n \in 1 .. Len(list) : list[n][1] <= i /\ i <= list[n][2]
      BY <2>4 DEF Covers
    <3>2. PICK u \in Inside(parent, nets) : list[n] = Interval(parent, childBits, u)
      BY <1>1 DEF Intervals
    <3>. QED  BY <2>1, <2>2, <3>1, <3>2
  <2>. QED  BY <2>3, <2>4
<1>. QED  BY <1>2 DEF FreeOf, Uncovered, list

LEMMA StartInRange ==
    ASSUME NEW parent \in AnyNetwork, NEW childBits \in 0 .. 128, childBits <= parent.bits,
           NEW last \in AnyNetwork \cup {None}
    PROVE  start_index(parent, childBits, last) \in 0 .. (Pow2[parent.bits - childBits] - 1)
<1>. DEFINE c == Pow2[childBits]
            t == Pow2[parent.bits - childBits]
            z == broadcast(last) - parent.lo
<1>1. c \in Nat \ {0} /\ t \in Nat \ {0}  BY TotalPositive, Pow2Positive
<1>2. CASE last # None /\ contains(parent, broadcast(last))
  <2>1. last.lo \in Nat /\ last.bits \in 0 .. 128 /\ parent.lo \in Nat  BY <1>2 DEF AnyNetwork
  <2>2. broadcast(last) \in Nat  BY <2>1, Pow2Positive DEF broadcast
  <2>3. z \in Nat  BY <1>2, <2>1, <2>2 DEF contains
  <2>. HIDE DEF c, t, z
  <2>4. z \div c \in Nat  BY <1>1, <2>3
  <2>5. (z \div c + 1) % t \in 0 .. (t - 1)  BY <1>1, <2>4
  <2>. QED  BY <1>2, <2>5 DEF start_index, c, t, z
<1>3. CASE ~(last # None /\ contains(parent, broadcast(last)))
  BY <1>1, <1>3 DEF start_index
<1>. QED  BY <1>2, <1>3

\* next_free_prefix returns the child that comes first, cyclically from the one
\* after the linknet used last, among those that overlap with no network in use;
\* it returns None only if there is no such child.  The networks may have any
\* length and lie inside of, across and outside of the parent.
THEOREM NextFreeCorrect ==
    ASSUME NEW parent \in AnyNetwork, NEW childBits \in 0 .. 128, childBits <= parent.bits,
           NEW nets \in SUBSET AnyNetwork, IsFiniteSet(nets), NEW last \in AnyNetwork \cup {None}
    PROVE  LET index == NextFit(FreeOf(parent, childBits, nets),
                                start_index(parent, childBits, last))
           IN  next_free_prefix(parent, childBits, last, nets) =
                  IF index = None THEN None ELSE ChildOf(parent, childBits, index)
<1>. DEFINE list == occupied_prefix_intervals(parent, childBits, nets)
            t == Pow2[parent.bits - childBits]
            start == start_index(parent, childBits, last)
<1>1. InOrder(list)  BY IntervalsListed
<1>2. t \in Nat \ {0}  BY TotalPositive
<1>3. start \in 0 .. (t - 1)  BY StartInRange
<1>4. FreeOf(parent, childBits, nets) = Uncovered(list, 0, t - 1)  BY FreeIsUncovered
<1>. HIDE DEF list, t, start
<1>5. next_fit(list, start, t) = NextFit(FreeOf(parent, childBits, nets), start)
  BY <1>1, <1>2, <1>3, <1>4, NextFitFinds
<1>. QED  BY <1>5 DEF next_free_prefix, ChildOf, list, t, start

-----------------------------------------------------------------------------
(* The networks of the address space.                                      *)

Inv == used \in SUBSET Networks /\ IsFiniteSet(used) /\ cursor \in Networks \cup {None}

LEMMA InvHolds == Spec => []Inv
<1>1. Init => Inv  BY FS_EmptySet DEF Init, Inv
<1>2. Inv /\ [Next]_<<used, cursor>> => Inv'
  <2>. SUFFICES ASSUME Inv, [Next]_<<used, cursor>> PROVE Inv'
    OBVIOUS
  <2>1. ASSUME NEW n \in Networks, Insert(n) PROVE Inv'
    BY <2>1, FS_AddElement DEF Inv, Insert
  <2>2. ASSUME NEW n \in Networks, Withdraw(n) PROVE Inv'
    BY <2>2, FS_RemoveElement DEF Inv, Withdraw
  <2>3. ASSUME NEW n \in Networks, MoveCursor(n) PROVE Inv'
    BY <2>3 DEF Inv, MoveCursor
  <2>4. CASE UNCHANGED <<used, cursor>>  BY <2>4 DEF Inv
  <2>. QED  BY <2>1, <2>2, <2>3, <2>4 DEF Next
<1>. QED  BY <1>1, <1>2, PTL DEF Spec

LEMMA NetworkFacts ==
    /\ Networks \subseteq AnyNetwork
    /\ Parent \in AnyNetwork /\ Parent.bits = ParentBits /\ Parent.lo = Pow2[ParentBits]
    /\ ChildBits \in 0 .. 128 /\ ChildBits <= Parent.bits
<1>1. SpaceBits \in 0 .. 128 /\ ParentBits \in 0 .. 128 /\ ChildBits \in 0 .. 128
      /\ ChildBits <= ParentBits
  BY BitsAssumption
<1>2. ASSUME NEW b \in 0 .. SpaceBits, NEW k \in 0 .. (Pow2[SpaceBits - b] - 1)
      PROVE  [lo |-> k * Pow2[b], bits |-> b] \in AnyNetwork
  <2>1. b \in 0 .. 128 /\ SpaceBits - b \in 0 .. 128  BY <1>1
  <2>2. Pow2[b] \in Nat /\ Pow2[SpaceBits - b] \in Nat  BY <2>1, Pow2Positive
  <2>3. k \in Nat  BY <2>2
  <2>4. k * Pow2[b] \in Nat  BY <2>2, <2>3
  <2>. QED  BY <2>1, <2>4 DEF AnyNetwork
<1>3. Pow2[ParentBits] \in Nat  BY <1>1, Pow2Positive
<1>4. Networks \subseteq AnyNetwork  BY <1>2 DEF Networks
<1>5. Parent \in AnyNetwork /\ Parent.bits = ParentBits /\ Parent.lo = Pow2[ParentBits]
  BY <1>1, <1>3 DEF Parent, AnyNetwork
<1>. QED  BY <1>1, <1>4, <1>5

LEMMA FreeChildrenAreFree == FreeChildren = FreeOf(Parent, ChildBits, used)
BY NetworkFacts DEF FreeChildren, FreeOf, Total, Child, ChildOf

\* next_free_prefix is next fit, in an address space of any size up to 128 bits,
\* for a parent and children of any length, with any number of networks in use.
THEOREM AllocationCorrect == Spec => []NextFreeIsNextFit
<1>1. Inv => NextFreeIsNextFit
  <2>. SUFFICES ASSUME Inv PROVE NextFreeIsNextFit
    OBVIOUS
  <2>. DEFINE start == start_index(Parent, ChildBits, cursor)
              index == NextFit(FreeOf(Parent, ChildBits, used), start)
  <2>1. used \in SUBSET AnyNetwork /\ IsFiniteSet(used) /\ cursor \in AnyNetwork \cup {None}
    BY NetworkFacts DEF Inv
  <2>2. next_free_prefix(Parent, ChildBits, cursor, used) =
           IF index = None THEN None ELSE ChildOf(Parent, ChildBits, index)
    BY <2>1, NetworkFacts, NextFreeCorrect
  <2>. QED  BY <2>2, FreeChildrenAreFree DEF NextFreeIsNextFit, Child, ChildOf
<1>. QED  BY <1>1, InvHolds, PTL

-----------------------------------------------------------------------------
(* The count.                                                              *)

\* The loop of occupied_prefix_count.
LEMMA MergeDef ==
    ASSUME NEW parent, NEW childBits, NEW nets, NEW list,
           list = occupied_prefix_intervals(parent, childBits, nets), InOrder(list), list # <<>>
    PROVE  \E merged :
              /\ merged[1] = [sum |-> 0, start |-> list[1][1], end |-> list[1][2]]
              /\ \A n \in 2 .. Len(list) : merged[n] = Merge(merged[n - 1], list[n])
              /\ occupied_prefix_count(parent, childBits, nets) =
                    merged[Len(list)].sum + merged[Len(list)].end - merged[Len(list)].start + 1
<1>. DEFINE N == Len(list)
            S == [sum : Int, start : Int, end : Int]
            s0 == [sum |-> 0, start |-> list[1][1], end |-> list[1][2]]
            step == [n \in 1 .. N |-> [s \in S |-> Merge(s, list[n])]]
<1>1. N \in Nat /\ 1 <= N /\ \A n \in 1 .. N : list[n] \in Nat \X Nat  BY DEF InOrder
<1>2. s0 \in S  BY <1>1
<1>. HIDE DEF N
<1>3. ASSUME NEW s \in S, NEW i \in Nat \X Nat PROVE Merge(s, i) \in S
  <2>1. [s EXCEPT !.end = IF i[2] > s.end THEN i[2] ELSE s.end] \in S  OBVIOUS
  <2>2. [sum |-> s.sum + s.end - s.start + 1, start |-> i[1], end |-> i[2]] \in S  OBVIOUS
  <2>. QED  BY <2>1, <2>2 DEF Merge
<1>. HIDE DEF S, s0
<1>4. step \in [1 .. N -> [S -> S]]  BY <1>1, <1>3
<1>5. PICK f : IsRun(f, 1, N, S, s0, step)
  <2>. HIDE DEF step
  <2>1. 1 \in Nat  OBVIOUS
  <2>. QED  BY <1>1, <1>2, <1>4, <2>1, LoopRuns, Zenon
<1>6. f \in [1 .. N -> S] /\ f[1] = s0  BY <1>5 DEF IsRun
<1>7. \A n \in 2 .. N : f[n] = Merge(f[n - 1], list[n])
  <2>. TAKE n \in 2 .. N
  <2>1. n - 1 \in 1 .. N /\ n \in 1 .. N /\ n \in (1 + 1) .. N  BY <1>1
  <2>2. f[n - 1] \in S  BY <1>6, <2>1
  <2>3. step[n][f[n - 1]] = Merge(f[n - 1], list[n])  BY <2>1, <2>2
  <2>4. f[n] = step[n][f[n - 1]]
    <3>. HIDE DEF step
    <3>. QED  BY <1>5, <2>1 DEF IsRun
  <2>. QED  BY <2>3, <2>4
<1>. DEFINE g == CHOOSE merged : merged = [n \in 1 .. N |-> IF n = 1 THEN s0
                                              ELSE Merge(merged[n - 1], list[n])]
<1>8. f = [n \in 1 .. N |-> IF n = 1 THEN s0 ELSE Merge(f[n - 1], list[n])]
  BY <1>1, <1>6, <1>7
<1>9. g = [n \in 1 .. N |-> IF n = 1 THEN s0 ELSE Merge(g[n - 1], list[n])]
  BY <1>8
<1>10. occupied_prefix_count(parent, childBits, nets) = g[N].sum + g[N].end - g[N].start + 1
  BY DEF occupied_prefix_count, N, s0
<1>. HIDE DEF g
<1>11. g[1] = s0 /\ \A n \in 2 .. N : g[n] = Merge(g[n - 1], list[n])
  BY <1>1, <1>9
<1>. QED  BY <1>10, <1>11 DEF N, s0

Covered(list, n) == {x \in Nat : Covers(list, n, x)}

\* After n intervals, start .. end is what is covered from start on, and sum is
\* the number of indexes covered before.
MergeKnows(list, n, s) ==
    /\ s.start \in Nat /\ s.end \in Nat /\ s.sum \in Nat
    /\ s.start <= s.end /\ s.start <= list[n][1]
    /\ \A x \in Nat : x >= s.start => (Covers(list, n, x) <=> x <= s.end)
    /\ IsFiniteSet({x \in Covered(list, n) : x < s.start})
    /\ Cardinality({x \in Covered(list, n) : x < s.start}) = s.sum

\* A set of numbers below a bound, together with an interval from the bound on.
LEMMA AddInterval ==
    ASSUME NEW X \in SUBSET Nat, IsFiniteSet(X), NEW a \in Nat, NEW b \in Nat, a <= b,
           \A x \in X : x < a
    PROVE  IsFiniteSet(X \cup (a .. b)) /\ Cardinality(X \cup (a .. b)) = Cardinality(X) + b - a + 1
<1>1. IsFiniteSet(a .. b) /\ Cardinality(a .. b) = b - a + 1  BY FS_Interval
<1>2. X \cap (a .. b) = {}  OBVIOUS
<1>3. Cardinality(X \cap (a .. b)) = 0  BY <1>2, FS_EmptySet
<1>4. Cardinality(X) \in Nat  BY FS_CardinalityType
<1>5. /\ IsFiniteSet(X \cup (a .. b))
      /\ Cardinality(X \cup (a .. b)) =
            Cardinality(X) + Cardinality(a .. b) - Cardinality(X \cap (a .. b))
  BY <1>1, FS_Union
<1>. QED  BY <1>1, <1>3, <1>4, <1>5

LEMMA MergeStep ==
    ASSUME NEW list, InOrder(list), NEW n \in 2 .. Len(list), NEW s,
           s \in [sum : Int, start : Int, end : Int], MergeKnows(list, n - 1, s)
    PROVE  MergeKnows(list, n, Merge(s, list[n])) /\ Merge(s, list[n]) \in [sum : Int, start : Int, end : Int]
<1>. DEFINE i == list[n]
            t == Merge(s, i)
            X == {x \in Covered(list, n - 1) : x < s.start}
<1>1. Len(list) \in Nat /\ n \in Nat /\ n \in 1 .. Len(list) /\ n - 1 \in 1 .. Len(list) /\ n - 1 < n
  BY DEF InOrder
<1>2. i \in Nat \X Nat /\ i[1] \in Nat /\ i[2] \in Nat /\ i[1] <= i[2] /\ list[n - 1] \in Nat \X Nat
  BY <1>1 DEF InOrder
<1>3. list[n - 1][1] <= i[1]  BY <1>1 DEF InOrder
<1>4. \A x : Covers(list, n, x) <=> Covers(list, n - 1, x) \/ (i[1] <= x /\ x <= i[2])
  BY <1>1 DEF Covers
<1>5. /\ s.start \in Nat /\ s.end \in Nat /\ s.sum \in Nat /\ s.start <= s.end
      /\ s.start <= i[1]
      /\ \A x \in Nat : x >= s.start => (Covers(list, n - 1, x) <=> x <= s.end)
      /\ IsFiniteSet(X) /\ Cardinality(X) = s.sum
  BY <1>2, <1>3 DEF MergeKnows
<1>6. CASE i[1] <= s.end + 1
  <2>. DEFINE end == IF i[2] > s.end THEN i[2] ELSE s.end
  <2>1. t = [s EXCEPT !.end = end]  BY <1>6 DEF Merge
  <2>2. /\ t \in [sum : Int, start : Int, end : Int]
        /\ t.start = s.start /\ t.sum = s.sum /\ t.end = end
    BY <1>2, <2>1
  <2>3. {x \in Covered(list, n) : x < s.start} = X
    BY <1>2, <1>4, <1>5 DEF Covered
  <2>4. \A x \in Nat : x >= s.start => (Covers(list, n, x) <=> x <= end)
    BY <1>2, <1>4, <1>5, <1>6
  <2>5. end \in Nat /\ s.start <= end  BY <1>2, <1>5
  <2>. HIDE DEF end, t, X
  <2>6. MergeKnows(list, n, t)  BY <1>5, <2>2, <2>3, <2>4, <2>5 DEF MergeKnows
  <2>. QED  BY <2>2, <2>6 DEF t
<1>7. CASE ~(i[1] <= s.end + 1)
  <2>1. t = [sum |-> s.sum + s.end - s.start + 1, start |-> i[1], end |-> i[2]]
    BY <1>7 DEF Merge
  <2>2. /\ t \in [sum : Int, start : Int, end : Int]
        /\ t.start = i[1] /\ t.sum = s.sum + s.end - s.start + 1 /\ t.end = i[2]
    BY <1>2, <1>5, <2>1
  <2>3. {x \in Covered(list, n) : x < i[1]} = X \cup (s.start .. s.end)
    BY <1>2, <1>4, <1>5, <1>7 DEF Covered
  <2>4. ASSUME NEW x \in Nat, x >= i[1] PROVE Covers(list, n, x) <=> x <= i[2]
    <3>1. x >= s.start /\ ~(x <= s.end)  BY <1>2, <1>5, <1>7, <2>4
    <3>2. ~Covers(list, n - 1, x)  BY <1>5, <3>1
    <3>. QED  BY <1>4, <2>4, <3>2
  <2>5. X \in SUBSET Nat /\ \A x \in X : x < s.start  BY DEF Covered
  <2>6. IsFiniteSet(X \cup (s.start .. s.end))
        /\ Cardinality(X \cup (s.start .. s.end)) = s.sum + s.end - s.start + 1
    <3>. HIDE DEF X
    <3>. QED  BY <1>5, <2>5, AddInterval
  <2>7. s.sum + s.end - s.start + 1 \in Nat  BY <1>5
  <2>. HIDE DEF t, X
  <2>8. \A x \in Nat : x >= t.start => (Covers(list, n, x) <=> x <= t.end)  BY <2>2, <2>4
  <2>9. {x \in Covered(list, n) : x < t.start} = X \cup (s.start .. s.end)  BY <2>2, <2>3
  <2>10. t.start \in Nat /\ t.end \in Nat /\ t.sum \in Nat /\ t.start <= t.end /\ t.start <= list[n][1]
    BY <1>2, <2>2, <2>7
  <2>11. MergeKnows(list, n, t)
    <3>1. IsFiniteSet({x \in Covered(list, n) : x < t.start})  BY <2>6, <2>9
    <3>2. Cardinality({x \in Covered(list, n) : x < t.start}) = t.sum  BY <2>2, <2>6, <2>9
    <3>. HIDE DEF i
    <3>. QED  BY <2>8, <2>10, <3>1, <3>2 DEF MergeKnows
  <2>. QED  BY <2>2, <2>11 DEF t
<1>. QED  BY <1>6, <1>7

\* The result of the loop is the number of indexes that are covered.
LEMMA MergeCounts ==
    ASSUME NEW list, InOrder(list), list # <<>>, NEW merged,
           merged[1] = [sum |-> 0, start |-> list[1][1], end |-> list[1][2]],
           \A n \in 2 .. Len(list) : merged[n] = Merge(merged[n - 1], list[n])
    PROVE  LET all == merged[Len(list)]
           IN  /\ IsFiniteSet(Covered(list, Len(list)))
               /\ all.sum + all.end - all.start + 1 = Cardinality(Covered(list, Len(list)))
<1>. DEFINE N == Len(list)
            S == [sum : Int, start : Int, end : Int]
            T == {n \in 1 .. N : merged[n] \in S /\ MergeKnows(list, n, merged[n])}
<1>1. N \in Nat /\ 1 <= N /\ \A n \in 1 .. N : list[n] \in Nat \X Nat /\ list[n][1] <= list[n][2]
  BY DEF InOrder
<1>2. 1 \in T
  <2>. DEFINE s == merged[1]
  <2>1. list[1][1] \in Nat /\ list[1][2] \in Nat /\ list[1][1] <= list[1][2]  BY <1>1
  <2>2. s \in S /\ s.sum = 0 /\ s.start = list[1][1] /\ s.end = list[1][2]  BY <2>1
  <2>3. \A x : Covers(list, 1, x) <=> list[1][1] <= x /\ x <= list[1][2]  BY DEF Covers
  <2>4. {x \in Covered(list, 1) : x < s.start} = {}  BY <2>1, <2>2, <2>3 DEF Covered
  <2>. HIDE DEF s
  <2>5. \A x \in Nat : x >= s.start => (Covers(list, 1, x) <=> x <= s.end)  BY <2>1, <2>2, <2>3
  <2>6. MergeKnows(list, 1, s)
    <3>1. IsFiniteSet({x \in Covered(list, 1) : x < s.start})
          /\ Cardinality({x \in Covered(list, 1) : x < s.start}) = s.sum
      BY <2>2, <2>4, FS_EmptySet
    <3>2. s.start \in Nat /\ s.end \in Nat /\ s.sum \in Nat /\ s.start <= s.end
          /\ s.start <= list[1][1]
      BY <2>1, <2>2
    <3>. QED  BY <2>5, <3>1, <3>2 DEF MergeKnows
  <2>. QED  BY <1>1, <2>2, <2>6 DEF s
<1>3. ASSUME NEW n \in 1 .. N, n \in T, n # N PROVE n + 1 \in T
  <2>1. n + 1 \in 2 .. N /\ (n + 1) - 1 = n /\ n + 1 \in 1 .. N  BY <1>1, <1>3
  <2>2. merged[n] \in S /\ MergeKnows(list, n, merged[n])  BY <1>3
  <2>3. merged[n + 1] = Merge(merged[n], list[n + 1])  BY <2>1
  <2>4. MergeKnows(list, n + 1, merged[n + 1]) /\ merged[n + 1] \in S
    BY <2>1, <2>2, <2>3, MergeStep
  <2>. QED  BY <2>1, <2>4
<1>4. T \in SUBSET Nat  BY <1>1
<1>. DEFINE all == merged[N]
<1>5. MergeKnows(list, N, all)
  <2>. HIDE DEF T, N
  <2>1. \A n \in 1 .. N : n \in T  BY <1>1, <1>2, <1>3, <1>4, Upwards
  <2>. QED  BY <1>1, <2>1 DEF T
<1>. DEFINE X == {x \in Covered(list, N) : x < all.start}
<1>6. /\ all.start \in Nat /\ all.end \in Nat /\ all.sum \in Nat /\ all.start <= all.end
      /\ \A x \in Nat : x >= all.start => (Covers(list, N, x) <=> x <= all.end)
      /\ IsFiniteSet(X) /\ Cardinality(X) = all.sum
  BY <1>5 DEF MergeKnows
<1>. HIDE DEF all, N
<1>7. X \in SUBSET Nat /\ \A x \in X : x < all.start  BY DEF Covered
<1>8. Covered(list, N) = X \cup (all.start .. all.end)  BY <1>6 DEF Covered
<1>. HIDE DEF X
<1>9. /\ IsFiniteSet(X \cup (all.start .. all.end))
      /\ Cardinality(X \cup (all.start .. all.end)) = all.sum + all.end - all.start + 1
  BY <1>6, <1>7, AddInterval
<1>. QED  BY <1>8, <1>9 DEF N, all

\* An interval ends before the number of children.
LEMMA IntervalBelowTotal ==
    ASSUME NEW parent \in AnyNetwork, NEW childBits \in 0 .. 128, childBits <= parent.bits,
           NEW nets \in SUBSET AnyNetwork, NEW u \in Inside(parent, nets)
    PROVE  Interval(parent, childBits, u)[2] <= Pow2[parent.bits - childBits] - 1
<1>. DEFINE c == Pow2[childBits]
            t == Pow2[parent.bits - childBits]
            z == ClipLast(parent, u) - parent.lo
<1>1. c \in Nat \ {0} /\ t \in Nat \ {0}  BY TotalPositive, Pow2Positive
<1>2. Pow2[parent.bits] = t * c
  <2>1. parent.bits - childBits \in Nat /\ (parent.bits - childBits) + childBits = parent.bits
        /\ parent.bits <= 128
    BY DEF AnyNetwork
  <2>. QED  BY <2>1, Pow2Sum
<1>3. z \in Nat /\ z <= Pow2[parent.bits] - 1
  <2>1. u \in AnyNetwork /\ Pow2[parent.bits] \in Nat \ {0} /\ Pow2[u.bits] \in Nat \ {0}
    BY Pow2Positive DEF AnyNetwork, Inside
  <2>. QED  BY <2>1 DEF AnyNetwork, Inside, ClipFirst, ClipLast, broadcast
<1>. HIDE DEF c, t, z
<1>4. t - 1 \in Nat /\ (t - 1) * c + c = t * c  BY <1>1
<1>5. z < (t - 1) * c + c  BY <1>1, <1>2, <1>3, <1>4
<1>6. z \div c <= t - 1  BY <1>1, <1>3, <1>4, <1>5, DivFacts
<1>. QED  BY <1>6 DEF Interval, Index, c, t, z

\* occupied_prefix_count is the number of children that overlap with a network
\* in use, each counted once however many networks it overlaps with.
THEOREM CountCorrect ==
    ASSUME NEW parent \in AnyNetwork, NEW childBits \in 0 .. 128, childBits <= parent.bits,
           NEW nets \in SUBSET AnyNetwork, IsFiniteSet(nets)
    PROVE  occupied_prefix_count(parent, childBits, nets) =
              Pow2[parent.bits - childBits] - Cardinality(FreeOf(parent, childBits, nets))
<1>. DEFINE list == occupied_prefix_intervals(parent, childBits, nets)
            t == Pow2[parent.bits - childBits]
            free == FreeOf(parent, childBits, nets)
            N == Len(list)
<1>1. InOrder(list) /\ \A n \in 1 .. N : list[n] \in Intervals(parent, childBits, nets)
  BY IntervalsListed
<1>2. t \in Nat \ {0}  BY TotalPositive
<1>3. free = Uncovered(list, 0, t - 1)  BY FreeIsUncovered
<1>4. \A n \in 1 .. N : list[n] \in Nat \X Nat /\ list[n][2] <= t - 1
  <2>1. \A e \in Intervals(parent, childBits, nets) : e[2] <= t - 1
    BY IntervalBelowTotal DEF Intervals
  <2>. QED  BY <1>1, <2>1 DEF InOrder
<1>5. Covered(list, N) = (0 .. (t - 1)) \ free
  <2>. HIDE DEF list, t, free, N
  <2>1. ASSUME NEW x \in Nat, Covers(list, N, x) PROVE x \in 0 .. (t - 1)
    BY <1>2, <1>4, <2>1 DEF Covers
  <2>. QED  BY <1>2, <1>3, <2>1 DEF Covered, Uncovered, N
<1>6. /\ IsFiniteSet(0 .. (t - 1)) /\ Cardinality(0 .. (t - 1)) = t
  <2>. HIDE DEF t
  <2>1. 0 \in Int /\ t - 1 \in Int /\ ~(0 > t - 1) /\ (t - 1) - 0 + 1 = t  BY <1>2
  <2>. QED  BY <2>1, FS_Interval
<1>7. IsFiniteSet(free) /\ free \subseteq 0 .. (t - 1)
  <2>1. free \subseteq 0 .. (t - 1)  BY <1>3 DEF Uncovered
  <2>. QED  BY <1>6, <2>1, FS_Subset
<1>. HIDE DEF list, t, free
<1>8. Cardinality(Covered(list, N)) = t - Cardinality(free)
  <2>1. Cardinality((0 .. (t - 1)) \ free) =
           Cardinality(0 .. (t - 1)) - Cardinality((0 .. (t - 1)) \cap free)
    BY <1>6, FS_Difference
  <2>2. (0 .. (t - 1)) \cap free = free  BY <1>7
  <2>. QED  BY <1>5, <1>6, <2>1, <2>2
<1>9. occupied_prefix_count(parent, childBits, nets) = Cardinality(Covered(list, N))
  <2>1. CASE list = <<>>
    <3>1. occupied_prefix_count(parent, childBits, nets) = 0
      BY <2>1 DEF occupied_prefix_count, list
    <3>2. Covered(list, N) = {}  BY <2>1 DEF Covered, Covers
    <3>. QED  BY <3>1, <3>2, FS_EmptySet
  <2>2. CASE list # <<>>
    <3>1. PICK merged :
             /\ merged[1] = [sum |-> 0, start |-> list[1][1], end |-> list[1][2]]
             /\ \A n \in 2 .. Len(list) : merged[n] = Merge(merged[n - 1], list[n])
             /\ occupied_prefix_count(parent, childBits, nets) =
                   merged[Len(list)].sum + merged[Len(list)].end - merged[Len(list)].start + 1
      BY <1>1, <2>2, MergeDef DEF list
    <3>. QED  BY <1>1, <2>2, <3>1, MergeCounts
  <2>. QED  BY <2>1, <2>2
<1>. QED  BY <1>8, <1>9 DEF t, free

-----------------------------------------------------------------------------
(* The linknets a caller asks for.                                         *)

\* A network of the space that has the length of a child and lies in the parent
\* is a child.
LEMMA AlignedIsChild ==
    ASSUME NEW n \in Networks, n.bits = ChildBits
    PROVE  contains(Parent, n.lo) <=> \E i \in 0 .. (Total - 1) : n = Child(i)
<1>. DEFINE c == Pow2[ChildBits]
            t == Total
<1>1. c \in Nat \ {0} /\ t \in Nat \ {0} /\ Pow2[ParentBits] = t * c
  <2>1. ParentBits - ChildBits \in 0 .. 128 /\ (ParentBits - ChildBits) + ChildBits = ParentBits
        /\ ParentBits <= 128 /\ ChildBits \in 0 .. 128 /\ ParentBits - ChildBits \in Nat
    BY BitsAssumption
  <2>2. c \in Nat \ {0} /\ t \in Nat \ {0}  BY <2>1, Pow2Positive DEF Total
  <2>3. Pow2[(ParentBits - ChildBits) + ChildBits] = t * c
    <3>1. ChildBits \in Nat /\ (ParentBits - ChildBits) + ChildBits <= 128  BY <2>1
    <3>2. Pow2[(ParentBits - ChildBits) + ChildBits] = Pow2[ParentBits - ChildBits] * Pow2[ChildBits]
      BY <2>1, <3>1, Pow2Sum, Zenon
    <3>. QED  BY <3>2 DEF Total
  <2>. QED  BY <2>1, <2>2, <2>3
<1>2. PICK k \in Nat : n = [lo |-> k * c, bits |-> ChildBits]
  <2>1. PICK b \in 0 .. SpaceBits : \E k \in 0 .. (Pow2[SpaceBits - b] - 1) :
           n = [lo |-> k * Pow2[b], bits |-> b]
    BY DEF Networks
  <2>2. b = ChildBits /\ SpaceBits - b \in 0 .. 128  BY <2>1, BitsAssumption
  <2>3. Pow2[SpaceBits - b] \in Nat  BY <2>2, Pow2Positive
  <2>. QED  BY <2>1, <2>2, <2>3
<1>3. contains(Parent, n.lo) <=> t * c <= k * c /\ k * c <= t * c + t * c - 1
  BY <1>1, <1>2 DEF contains, broadcast, Parent
<1>4. \A i : Child(i) = [lo |-> t * c + i * c, bits |-> ChildBits]
  BY <1>1 DEF Child, Parent
<1>. HIDE DEF c, t
<1>5. t * c \in Nat /\ k * c \in Nat  BY <1>1, <1>2
<1>6. ASSUME NEW i \in 0 .. (t - 1), n = Child(i) PROVE contains(Parent, n.lo)
  <2>1. k * c = t * c + i * c  BY <1>2, <1>4, <1>6
  <2>2. i * c \in Nat /\ i * c + c <= t * c
    <3>1. i + 1 <= t /\ i \in Nat  BY <1>1
    <3>2. (i + 1) * c <= t * c  BY <1>1, <3>1
    <3>3. (i + 1) * c = i * c + c  BY <1>1, <3>1
    <3>. QED  BY <1>1, <3>1, <3>2, <3>3
  <2>. QED  BY <1>1, <1>3, <1>5, <2>1, <2>2
<1>7. ASSUME contains(Parent, n.lo) PROVE \E i \in 0 .. (t - 1) : n = Child(i)
  <2>1. t * c <= k * c /\ k * c < t * c + t * c  BY <1>3, <1>5, <1>7
  <2>2. t <= k
    <3>1. k < t => k * c + c <= t * c
      <4>1. k < t => (k + 1) * c <= t * c  BY <1>1
      <4>2. (k + 1) * c = k * c + c  BY <1>1
      <4>. QED  BY <4>1, <4>2
    <3>. QED  BY <1>1, <1>5, <2>1, <3>1
  <2>3. k < t + t
    <3>1. t + t <= k => (t + t) * c <= k * c  BY <1>1
    <3>2. (t + t) * c = t * c + t * c  BY <1>1
    <3>. QED  BY <1>1, <1>5, <2>1, <3>1, <3>2
  <2>4. k - t \in 0 .. (t - 1)  BY <1>1, <2>2, <2>3
  <2>5. t * c + (k - t) * c = k * c  BY <1>1, <2>2
  <2>. QED  BY <1>2, <1>4, <2>4, <2>5
<1>. QED  BY <1>6, <1>7 DEF t

\* A network that overlaps with a child overlaps with the parent, so the
\* prefilter of validate_desired_prefix drops no conflict.
LEMMA ChildOverlapsParent ==
    ASSUME NEW u \in AnyNetwork, NEW i \in 0 .. (Total - 1), networks_overlap(u, Child(i))
    PROVE  networks_overlap(u, Parent)
<1>1. Parent \in AnyNetwork /\ Parent.bits = ParentBits /\ ChildBits \in 0 .. 128
      /\ ChildBits <= Parent.bits /\ Child(i) = ChildOf(Parent, ChildBits, i)
  BY NetworkFacts DEF Child, ChildOf
<1>2. ClipFirst(Parent, u) <= ClipLast(Parent, u)
  BY <1>1, OverlapIsCovered DEF Total
<1>3. u.lo \in Nat /\ broadcast(u) \in Nat /\ u.lo <= broadcast(u)
      /\ Parent.lo \in Nat /\ broadcast(Parent) \in Nat /\ Parent.lo <= broadcast(Parent)
  BY <1>1, Pow2Positive DEF AnyNetwork, broadcast
<1>. QED  BY <1>2, <1>3 DEF ClipFirst, ClipLast, networks_overlap, contains

\* The reported utilization and the check of an explicit request agree with
\* the allocator on which children are free, in every address space.
THEOREM AgreementCorrect == Spec => []FreeIsAgreed
<1>1. Inv => FreeIsAgreed
  <2>. SUFFICES ASSUME Inv PROVE FreeIsAgreed
    OBVIOUS
  <2>1. used \in SUBSET AnyNetwork /\ IsFiniteSet(used)  BY NetworkFacts DEF Inv
  <2>2. occupied_prefix_count(Parent, ChildBits, used) = Total - Cardinality(FreeChildren)
    BY <2>1, NetworkFacts, FreeChildrenAreFree, CountCorrect DEF Total
  <2>3. ASSUME NEW n \in Networks, n.bits = ChildBits
        PROVE  validate_desired_prefix(Parent, n, used) = \E i \in FreeChildren : n = Child(i)
    <3>1. CASE contains(Parent, n.lo)
      <4>1. PICK i \in 0 .. (Total - 1) : n = Child(i)  BY <2>3, <3>1, AlignedIsChild
      <4>2. validate_desired_prefix(Parent, n, used) = \A u \in used : ~networks_overlap(u, n)
        BY <2>1, <3>1, <4>1, ChildOverlapsParent DEF validate_desired_prefix
      <4>3. (\A u \in used : ~networks_overlap(u, n)) = \E j \in FreeChildren : n = Child(j)
        BY <4>1 DEF FreeChildren
      <4>. QED  BY <4>2, <4>3
    <3>2. CASE ~contains(Parent, n.lo)
      <4>1. ~\E i \in 0 .. (Total - 1) : n = Child(i)  BY <2>3, <3>2, AlignedIsChild
      <4>. QED  BY <3>2, <4>1 DEF validate_desired_prefix, FreeChildren
    <3>. QED  BY <3>1, <3>2
  <2>. QED  BY <2>2, <2>3 DEF FreeIsAgreed
<1>. QED  BY <1>1, InvHolds, PTL
=============================================================================
