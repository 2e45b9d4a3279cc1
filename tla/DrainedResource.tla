-------------------------- MODULE DrainedResource --------------------------
(***************************************************************************)
(* What the lifecycle of a deletable network resource promises to its      *)
(* users: a resource can be taken into use only until its deletion is      *)
(* requested, and it disappears only after the request and when the last   *)
(* user has left.                                                          *)
(***************************************************************************)
CONSTANTS Resources, Users

VARIABLES phase,   \* "unborn", "open", "closed" (deletion requested), "gone"
          users    \* who uses each resource

dvars == <<phase, users>>

DInit ==
    /\ phase = [r \in Resources |-> "unborn"]
    /\ users = [r \in Resources |-> {}]

\* A resource appears, perhaps already in use by the one who made it.
Appear(r) ==
    /\ phase[r] = "unborn"
    /\ phase' = [phase EXCEPT ![r] = "open"]
    /\ \E U \in SUBSET Users : users' = [users EXCEPT ![r] = U]

\* One transaction may take several resources into use.
Use ==
    /\ \A r \in Resources :
          /\ users[r] \subseteq users'[r] /\ users'[r] \subseteq Users
          /\ users'[r] # users[r] => phase[r] = "open"
    /\ users' = [r \in Resources |-> users'[r]]
    /\ UNCHANGED phase

\* One transaction may take a user off several resources and request the
\* deletion of some of them.
LeaveAndClose ==
    /\ \A r \in Resources : users'[r] \subseteq users[r]
    /\ \A r \in Resources :
          \/ phase'[r] = phase[r]
          \/ phase[r] = "open" /\ phase'[r] = "closed"
    /\ users' = [r \in Resources |-> users'[r]]
    /\ phase' = [r \in Resources |-> phase'[r]]

Disappear(r) ==
    /\ phase[r] = "closed" /\ users[r] = {}
    /\ phase' = [phase EXCEPT ![r] = "gone"]
    /\ UNCHANGED users

DNext ==
    \/ \E r \in Resources : Appear(r) \/ Disappear(r)
    \/ Use \/ LeaveAndClose

DSpec == DInit /\ [][DNext]_dvars
=============================================================================
