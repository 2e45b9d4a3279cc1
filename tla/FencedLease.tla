---------------------------- MODULE FencedLease ----------------------------
(***************************************************************************)
(* What the work lock promises to code that fences its transactions with   *)
(* WorkLock::fence_transaction.  A key has at most one holder; a holder's  *)
(* lease may end at any time and for any reason; each grant opens a new    *)
(* term; and a fenced write that commits belongs to the present term.      *)
(* What a holder does outside fenced transactions is not constrained: the  *)
(* work lock is a lease, not a fencing token.                              *)
(***************************************************************************)
EXTENDS Integers

CONSTANTS Keys, Ids, NoId

VARIABLES
    owner,      \* the holder of each key, or NoId
    term,       \* how often each key has been granted
    written     \* the term of the last write committed under each key

vars == <<owner, term, written>>

Init ==
    /\ owner = [k \in Keys |-> NoId]
    /\ term = [k \in Keys |-> 0]
    /\ written = [k \in Keys |-> 0]

\* A new term, after nobody's or after that of a holder that lost its lease.
Grant(k, i) ==
    /\ owner' = [owner EXCEPT ![k] = i]
    /\ term' = [term EXCEPT ![k] = @ + 1]
    /\ UNCHANGED written

Release(k) ==
    /\ owner[k] # NoId
    /\ owner' = [owner EXCEPT ![k] = NoId]
    /\ UNCHANGED <<term, written>>

Write(k) ==
    /\ owner[k] # NoId
    /\ written' = [written EXCEPT ![k] = term[k]]
    /\ UNCHANGED <<owner, term>>

Next ==
    \E k \in Keys :
        \/ \E i \in Ids : Grant(k, i)
        \/ Release(k)
        \/ Write(k)

Spec == Init /\ [][Next]_vars
=============================================================================
