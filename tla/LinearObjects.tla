--------------------------- MODULE LinearObjects ---------------------------
(***************************************************************************)
(* What the state controllers of all processes together do to the objects  *)
(* of a type: each object goes from one controller state version to the    *)
(* next, every step is recorded in its history, and a removed object stays *)
(* as it is.                                                               *)
(***************************************************************************)
EXTENDS Integers, Sequences

CONSTANT Objects

VARIABLES
    live,       \* objects that exist
    ver,        \* controller state version: its number and the time of its write
    history     \* versions entered, in order

vars == <<live, ver, history>>

Init ==
    /\ live = Objects
    /\ ver = [o \in Objects |-> [num |-> 1, time |-> 0]]
    /\ history = [o \in Objects |-> <<>>]

\* One decision, based on the present version.
Step(o) ==
    /\ o \in live
    /\ ver' = [ver EXCEPT ![o] = [num |-> @.num + 1, time |-> @.time + 1]]
    /\ history' = [history EXCEPT ![o] = Append(@, ver'[o])]
    /\ UNCHANGED live

Remove(o) ==
    /\ live' = live \ {o}
    /\ UNCHANGED <<ver, history>>

Next == \E o \in Objects : Step(o) \/ Remove(o)

Spec == Init /\ [][Next]_vars
=============================================================================
