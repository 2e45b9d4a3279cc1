------------------------- MODULE IbMembershipProofs -------------------------
(***************************************************************************)
(* Theorems about IbMembership, for every number of hosts, partitions,     *)
(* forced deletions, resets and faults: type correctness, and that no      *)
(* membership that UFM has or may still get is forgotten, but for those    *)
(* that a reset takes from an instance in use.                             *)
(***************************************************************************)
EXTENDS IbMembership, TLAPS

-----------------------------------------------------------------------------
(* The inductive invariant.                                                *)

Covered(m) == m \in retired \/ Owned(m) \/ m \in lost

\* What a pass has read of a host counts like what UFM has: a bind may come
\* of it.
SeenCovered ==
    \A h \in Hosts, p \in Partitions :
        pass.seen[h].expected = p => Covered(<<h, p>>)

BindsCovered ==
    /\ \A m \in pass.bind : Covered(m)
    /\ \A m \in Memberships : pass.call = <<"bind", m>> => Covered(m)
    /\ \A m \in Memberships : <<"bind", m>> \in late => Covered(m)

FabricCovered == \A m \in ufm : Covered(m)

\* The membership of an instance is recorded as soon as the instance is to go
\* or its host is deleted by force, and the controller terminates only
\* instances that are to go, unless the host is reset.
RecordedOnExit ==
    \A h \in Hosts :
        /\ inst[h] \in {"deleted", "unbound"} => <<h, cfg[h]>> \in retired
        /\ hs[h] = "ForceDeletion" /\ cfg[h] # None => <<h, cfg[h]>> \in retired
        /\ hs[h] = "WaitingForNetworkReconfig" => inst[h] = "deleted"

Inv == TypeOK /\ RecordedOnExit /\ FabricCovered /\ BindsCovered /\ SeenCovered

-----------------------------------------------------------------------------
(* Types.                                                                  *)

\* The end of a pass is well typed.
LEMMA NoPassType == NoPass \in Passes
<1>1. NothingSeen \in [Hosts -> [known : BOOLEAN, expected : Partitions \cup {None},
                                 alert : BOOLEAN, obs : Observations]]
  BY DEF NothingSeen, NotObserved, Observations
<1> QED
  BY <1>1 DEF NoPass, Passes

\* The initial state is well typed.
LEMMA InitType ==
    ASSUME Init
    PROVE  TypeOK
BY NoPassType, ConstantsAssumption DEF Init, TypeOK, NotObserved, Observations

\* A fault is one less of those that may come.
LEMMA FaultType ==
    ASSUME TypeOK, Fault
    PROVE  left' \in [force : Nat, reset : Nat, faults : Nat]
BY DEF TypeOK, Fault

\* The membership of a configuration.
LEMMA MembershipType ==
    ASSUME TypeOK, NEW h \in Hosts
    PROVE  Membership(h) \subseteq Memberships
BY DEF TypeOK, Membership, Memberships

\* The transactions of the API keep the types.
LEMMA ApiType ==
    ASSUME TypeOK, NEW h \in Hosts, Api(h)
    PROVE  TypeOK'
<1>0. Membership(h) \subseteq Memberships
  BY MembershipType
<1>1. ASSUME NEW p \in Partitions, Allocate(h, p) PROVE TypeOK'
  BY <1>1, ConstantsAssumption DEF Allocate, TypeOK
<1>2. ASSUME NEW p \in Partitions, UpdateConfig(h, p) PROVE TypeOK'
  BY <1>0, <1>2, ConstantsAssumption DEF UpdateConfig, TypeOK
<1>3. CASE Release(h)
  BY <1>0, <1>3 DEF Release, TypeOK
<1>4. CASE ForceDelete(h)
  BY <1>0, <1>4 DEF ForceDelete, TypeOK
<1>5. CASE ForceDeleteMarks(h)
  BY <1>5 DEF ForceDeleteMarks, TypeOK
<1>6. CASE ForceDeleteUnbinds(h)
  BY <1>6 DEF ForceDeleteUnbinds, TypeOK
<1>7. CASE ForceDeleteRemoves(h)
  BY <1>7 DEF ForceDeleteRemoves, TypeOK, NotObserved, Observations
<1>8. CASE Ingest(h)
  BY <1>8 DEF Ingest, TypeOK
<1>9. CASE ForceDeleteUnbindFails(h)
  <2>1. left' \in [force : Nat, reset : Nat, faults : Nat]
    BY <1>9, FaultType DEF ForceDeleteUnbindFails
  <2>2. late' \subseteq Calls
    BY <1>0, <1>9 DEF ForceDeleteUnbindFails, TypeOK, Calls
  <2> QED
    BY <1>9, <2>1, <2>2 DEF ForceDeleteUnbindFails, TypeOK
<1> QED
  BY <1>1, <1>2, <1>3, <1>4, <1>5, <1>6, <1>7, <1>8, <1>9 DEF Api

\* The steps of the machine controller keep the types.
LEMMA ControllerType ==
    ASSUME TypeOK, NEW h \in Hosts, StartReset(h) \/ Controller(h)
    PROVE  TypeOK'
<1>1. CASE SwitchToTenant(h)
  BY <1>1 DEF SwitchToTenant, TypeOK
<1>2. CASE TenantNetworkReady(h)
  BY <1>2 DEF TenantNetworkReady, TypeOK
<1>3. CASE SwitchToAdmin(h)
  BY <1>3 DEF SwitchToAdmin, TypeOK
<1>4. CASE Terminate(h)
  BY <1>4 DEF Terminate, TypeOK
<1>5. CASE StartReset(h)
  BY <1>5 DEF StartReset, TypeOK
<1>6. CASE ResetToAdmin(h)
  BY <1>6 DEF ResetToAdmin, TypeOK
<1>7. CASE ResetDeletesInstance(h)
  BY <1>7, MembershipType DEF ResetDeletesInstance, TypeOK
<1>8. CASE ResetEnds(h)
  BY <1>8 DEF ResetEnds, TypeOK
<1> QED
  BY <1>1, <1>2, <1>3, <1>4, <1>5, <1>6, <1>7, <1>8 DEF Controller

-----------------------------------------------------------------------------
(* The pass of the monitor.                                                *)

\* What a pass derives from its data.
LEMMA RecordedType ==
    ASSUME TypeOK, NEW h \in Hosts
    PROVE  /\ Observed(h) \in Observations
           /\ Needs(h) \subseteq Memberships
           /\ Missing(h) \subseteq Needs(h)
           /\ Unexpected(h) \subseteq Memberships
<1>1. Observed(h) \in Observations
  BY DEF TypeOK, Observed, Observations, Associated
<1>2. Needs(h) \subseteq Memberships
  BY DEF Needs, Memberships
<1>3. Missing(h) \subseteq Needs(h)
  BY DEF Missing
<1>4. Unexpected(h) \subseteq Memberships
  BY <1>1 DEF Unexpected, Observations, Memberships
<1> QED
  BY <1>1, <1>2, <1>3, <1>4

\* The steps of a pass up to its calls keep the types.
LEMMA ReadingType ==
    ASSUME TypeOK,
           \/ LoadHosts \/ LoadFabric \/ LoadFabricInPart \/ FindRetired \/ Reconciled
           \/ \E h \in Hosts : Record(h)
           \/ \E m \in Memberships : Reconcile(m) \/ RereadFails(m)
    PROVE  TypeOK'
<1>1. CASE LoadHosts
  <2>1. pass'.seen \in [Hosts -> [known : BOOLEAN, expected : Partitions \cup {None},
                                  alert : BOOLEAN, obs : Observations]]
    BY <1>1 DEF LoadHosts, NoPass, NothingSeen, NotObserved, Observations, Expected, TypeOK
  <2>2. pass' \in Passes
    BY <1>1, <2>1, NoPassType DEF LoadHosts, Passes
  <2> QED
    BY <1>1, <2>2 DEF LoadHosts, host, TypeOK
<1>2. CASE LoadFabric
  BY <1>2 DEF LoadFabric, host, TypeOK, Passes, Known
<1>3. CASE LoadFabricInPart
  <2>1. pass' \in Passes
    <3>1. PICK ports \in SUBSET Hosts :
             \/ pass' = [pass EXCEPT !.at = "record", !.ports = ports, !.parts = TRUE,
                                     !.data = ufm, !.todo = Known]
             \/ pass' = [pass EXCEPT !.at = "record", !.ports = ports, !.todo = Known]
      BY <1>3 DEF LoadFabricInPart
    <3>2. Known \subseteq Hosts
      BY DEF Known
    <3>3. pass \in Passes /\ ufm \subseteq Memberships
      BY DEF TypeOK
    <3> QED
      BY <3>1, <3>2, <3>3 DEF Passes
  <2>2. left' \in [force : Nat, reset : Nat, faults : Nat]
    BY <1>3, FaultType DEF LoadFabricInPart
  <2> QED
    BY <1>3, <2>1, <2>2 DEF LoadFabricInPart, host, TypeOK
<1>4. CASE FindRetired
  BY <1>4 DEF FindRetired, host, TypeOK, Passes
<1>5. CASE Reconciled
  <2>1. pass' = [NoPass EXCEPT !.at = "apply", !.bind = pass.bind, !.unbind = pass.unbind]
    BY <1>5 DEF Reconciled
  <2>2. pass \in Passes
    BY DEF TypeOK
  <2>3. pass' \in Passes
    BY <2>1, <2>2, NoPassType DEF Passes
  <2> QED
    BY <1>5, <2>3 DEF Reconciled, host, TypeOK
<1>6. ASSUME NEW h \in Hosts, Record(h) PROVE TypeOK'
  <2>0. /\ Observed(h) \in Observations
        /\ Needs(h) \subseteq Memberships
        /\ Missing(h) \subseteq Needs(h)
        /\ Unexpected(h) \subseteq Memberships
    BY RecordedType
  <2>1. pass' \in Passes
    <3>1. pass \in Passes
      BY DEF TypeOK
    <3>2. CASE pass' = [pass EXCEPT !.todo = @ \ {h}]
      BY <3>1, <3>2 DEF Passes
    <3>3. CASE pass' = [pass EXCEPT !.todo = @ \ {h},
                          !.needed = @ \cup (IF h \in pass.ports THEN Needs(h) ELSE {}),
                          !.bind = @ \cup Missing(h), !.unbind = @ \cup Unexpected(h)]
      BY <2>0, <3>1, <3>3 DEF Passes
    <3> QED
      BY <1>6, <3>2, <3>3 DEF Record
  <2>2. obs' \in [Hosts -> Observations]
    BY <1>6, <2>0 DEF Record, TypeOK
  <2>3. alert' \in [Hosts -> BOOLEAN]
    BY <1>6 DEF Record, TypeOK
  <2> QED
    BY <1>6, <2>1, <2>2, <2>3 DEF Record, host, TypeOK
<1>7. ASSUME NEW m \in Memberships, Reconcile(m) PROVE TypeOK'
  <2>1. pass \in Passes
    BY DEF TypeOK
  <2>2. CASE pass' = [pass EXCEPT !.found = @ \ {m}, !.unbind = @ \ {m}]
    <3>1. pass' \in Passes
      BY <2>1, <2>2 DEF Passes
    <3> QED
      BY <1>7, <3>1 DEF Reconcile, host, TypeOK
  <2>3. CASE pass' = [pass EXCEPT !.found = @ \ {m}, !.bind = @ \ {m}, !.unbind = @ \ {m},
                        !.call = IF m \in pass.data THEN <<"unbind", m>> ELSE None]
    <3>1. pass' \in Passes
      BY <2>1, <2>3 DEF Passes, Calls
    <3> QED
      BY <1>7, <3>1 DEF Reconcile, host, TypeOK
  <2> QED
    BY <1>7, <2>2, <2>3 DEF Reconcile
<1>8. ASSUME NEW m \in Memberships, RereadFails(m) PROVE TypeOK'
  <2>1. left' \in [force : Nat, reset : Nat, faults : Nat]
    BY <1>8, FaultType DEF RereadFails
  <2> QED
    BY <1>8, <2>1 DEF RereadFails, host, TypeOK, Passes
<1> QED
  BY <1>1, <1>2, <1>3, <1>4, <1>5, <1>6, <1>7, <1>8

\* The calls to UFM and the end of a pass keep the types.
LEMMA CallingType ==
    ASSUME TypeOK,
           \/ CallEnds \/ CallFails \/ EndPass \/ AbortPass
           \/ \E m \in Memberships : Bind(m) \/ Unbind(m)
           \/ \E c \in late : LateCall(c)
    PROVE  TypeOK'
<1>1. CASE CallEnds
  <2>1. pass.call \in Calls /\ ufm' \subseteq Memberships
    BY <1>1 DEF CallEnds, Done, TypeOK, Passes, Calls
  <2>2. pass' \in Passes
    BY <1>1 DEF CallEnds, TypeOK, Passes
  <2> QED
    BY <1>1, <2>1, <2>2 DEF CallEnds, host, TypeOK
<1>2. CASE CallFails
  <2>1. left' \in [force : Nat, reset : Nat, faults : Nat]
    BY <1>2, FaultType DEF CallFails
  <2> QED
    BY <1>2, <2>1 DEF CallFails, host, TypeOK, Passes
<1>3. CASE EndPass
  BY <1>3, NoPassType DEF EndPass, host, TypeOK
<1>4. CASE AbortPass
  <2>1. left' \in [force : Nat, reset : Nat, faults : Nat]
    BY <1>4, FaultType DEF AbortPass
  <2>2. late' \subseteq Calls
    BY <1>4 DEF AbortPass, TypeOK, Passes
  <2> QED
    BY <1>4, <2>1, <2>2, NoPassType DEF AbortPass, host, TypeOK
<1>5. ASSUME NEW m \in Memberships, Bind(m) PROVE TypeOK'
  BY <1>5 DEF Bind, host, TypeOK, Passes, Calls
<1>6. ASSUME NEW m \in Memberships, Unbind(m) PROVE TypeOK'
  BY <1>6 DEF Unbind, host, TypeOK, Passes, Calls
<1>7. ASSUME NEW c \in late, LateCall(c) PROVE TypeOK'
  BY <1>7 DEF LateCall, Done, host, TypeOK, Calls
<1> QED
  BY <1>1, <1>2, <1>3, <1>4, <1>5, <1>6, <1>7

\* Every step keeps the types.
LEMMA NextType ==
    ASSUME TypeOK, [Next]_vars
    PROVE  TypeOK'
<1>1. ASSUME NEW h \in Hosts, Api(h) \/ StartReset(h) \/ Controller(h) PROVE TypeOK'
  BY <1>1, ApiType, ControllerType
<1>2. CASE Monitor
  BY <1>2, ReadingType, CallingType DEF Monitor
<1>3. CASE LoadFabricInPart \/ \E m \in Memberships : RereadFails(m)
  BY <1>3, ReadingType
<1>4. CASE CallFails \/ AbortPass \/ \E c \in late : LateCall(c)
  BY <1>4, CallingType
<1>5. CASE UNCHANGED vars
  BY <1>5 DEF vars, TypeOK
<1> QED
  BY <1>1, <1>2, <1>3, <1>4, <1>5 DEF Next

\* Type correctness: hosts, tables, calls and the pass of the monitor have their
\* types, and a host has a configuration exactly while it has an instance.
THEOREM TypeCorrect == Spec => []TypeOK
<1>1. Init => TypeOK
  BY InitType
<1>2. TypeOK /\ [Next]_vars => TypeOK'
  BY NextType
<1> QED
  BY <1>1, <1>2, PTL DEF Spec

-----------------------------------------------------------------------------
(* No membership is forgotten.                                             *)

\* An instance that is expected to have a membership owns it or has had it
\* recorded.
LEMMA ExpectedCovered ==
    ASSUME TypeOK, RecordedOnExit, NEW h \in Hosts, NEW p \in Partitions, Expected(h) = p
    PROVE  Covered(<<h, p>>)
BY ConstantsAssumption DEF TypeOK, RecordedOnExit, Expected, Covered, Owned

\* What the API and the controller do to a host keeps every membership
\* covered or notes that it is lost, records what else goes, and binds nothing.
HostStep(h) ==
    /\ \A m \in Memberships : Covered(m) => Covered(m)'
    /\ RecordedOnExit'
    /\ ufm' \subseteq ufm
    /\ late' \subseteq late \cup ({"unbind"} \X Memberships)
    /\ UNCHANGED pass

\* The transactions of the API are such steps.
LEMMA ApiCovers ==
    ASSUME TypeOK, RecordedOnExit, NEW h \in Hosts, Api(h)
    PROVE  HostStep(h)
<1> USE DEF HostStep, Covered, Owned, RecordedOnExit, Memberships
<1>1. ASSUME NEW p \in Partitions, Allocate(h, p) PROVE HostStep(h)
  BY <1>1 DEF Allocate, TypeOK
<1>2. ASSUME NEW p \in Partitions, UpdateConfig(h, p) PROVE HostStep(h)
  BY <1>2, ConstantsAssumption DEF UpdateConfig, Membership, TypeOK
<1>3. CASE Release(h)
  BY <1>3 DEF Release, Membership, TypeOK
<1>4. CASE ForceDelete(h)
  BY <1>4 DEF ForceDelete, Membership, TypeOK
<1>5. CASE ForceDeleteMarks(h)
  BY <1>5 DEF ForceDeleteMarks, TypeOK
<1>6. CASE ForceDeleteUnbinds(h)
  BY <1>6 DEF ForceDeleteUnbinds, TypeOK
<1>7. CASE ForceDeleteRemoves(h)
  BY <1>7 DEF ForceDeleteRemoves, TypeOK
<1>8. CASE Ingest(h)
  BY <1>8 DEF Ingest, TypeOK
<1>9. CASE ForceDeleteUnbindFails(h)
  <2>1. late' \subseteq late \cup ({"unbind"} \X Memberships)
    BY <1>9, MembershipType DEF ForceDeleteUnbindFails
  <2> QED
    BY <1>9, <2>1 DEF ForceDeleteUnbindFails, TypeOK
<1> QED
  BY <1>1, <1>2, <1>3, <1>4, <1>5, <1>6, <1>7, <1>8, <1>9 DEF Api

\* So are the steps of the machine controller: but for a reset it removes only
\* instances whose membership was recorded when they were released.
LEMMA ControllerCovers ==
    ASSUME TypeOK, RecordedOnExit, NEW h \in Hosts, StartReset(h) \/ Controller(h)
    PROVE  HostStep(h)
<1> USE DEF HostStep, Covered, Owned, RecordedOnExit, Memberships
<1>1. CASE SwitchToTenant(h)
  BY <1>1 DEF SwitchToTenant, TypeOK
<1>2. CASE TenantNetworkReady(h)
  BY <1>2 DEF TenantNetworkReady, TypeOK
<1>3. CASE SwitchToAdmin(h)
  BY <1>3 DEF SwitchToAdmin, TypeOK
<1>4. CASE Terminate(h)
  BY <1>4 DEF Terminate, TypeOK
<1>5. CASE StartReset(h)
  BY <1>5 DEF StartReset, TypeOK
<1>6. CASE ResetToAdmin(h)
  BY <1>6 DEF ResetToAdmin, TypeOK
<1>7. CASE ResetDeletesInstance(h)
  BY <1>7, ConstantsAssumption DEF ResetDeletesInstance, Membership, TypeOK
<1>8. CASE ResetEnds(h)
  BY <1>8 DEF ResetEnds, TypeOK
<1> QED
  BY <1>1, <1>2, <1>3, <1>4, <1>5, <1>6, <1>7, <1>8 DEF Controller

\* A step on a host keeps what the fabric, the calls and the pass rest on.
LEMMA HostKeeps ==
    ASSUME Inv, NEW h \in Hosts, HostStep(h)
    PROVE  FabricCovered' /\ BindsCovered' /\ SeenCovered'
<1>0. /\ \A m \in Memberships : Covered(m) => Covered(m)'
      /\ ufm' \subseteq ufm /\ pass' = pass
      /\ late' \subseteq late \cup ({"unbind"} \X Memberships)
      /\ ufm \subseteq Memberships /\ pass.bind \subseteq Memberships
  BY DEF HostStep, Inv, TypeOK, Passes
<1>1. FabricCovered'
  BY <1>0 DEF Inv, FabricCovered
<1>2. BindsCovered'
  BY <1>0 DEF Inv, BindsCovered
<1>3. SeenCovered'
  BY <1>0 DEF Inv, SeenCovered, Memberships
<1> QED
  BY <1>1, <1>2, <1>3

\* A step of the monitor or of UFM changes neither hosts nor records.
LEMMA MonitorKeeps ==
    ASSUME Inv, UNCHANGED <<host, retired, lost>>
    PROVE  RecordedOnExit' /\ \A m : Covered(m)' <=> Covered(m)
BY DEF Inv, host, RecordedOnExit, Covered, Owned

\* Reading: a pass only intends binds that it has seen expected.
LEMMA ReadingCovers ==
    ASSUME Inv,
           \/ LoadHosts \/ LoadFabric \/ LoadFabricInPart \/ FindRetired \/ Reconciled
           \/ \E h \in Hosts : Record(h)
           \/ \E m \in Memberships : Reconcile(m) \/ RereadFails(m)
    PROVE  RecordedOnExit' /\ FabricCovered' /\ BindsCovered' /\ SeenCovered'
<1>0. /\ UNCHANGED <<host, retired, lost, ufm, late>>
      /\ pass \in Passes
  BY DEF LoadHosts, LoadFabric, LoadFabricInPart, FindRetired, Reconciled, Record, Reconcile,
         RereadFails, Inv, TypeOK
<1>1. RecordedOnExit' /\ \A m : Covered(m)' <=> Covered(m)
  BY <1>0, MonitorKeeps
<1>2. FabricCovered'
  BY <1>0, <1>1 DEF Inv, FabricCovered
<1>3. CASE LoadHosts
  <2>1. pass'.bind = {} /\ pass'.call = None
    BY <1>3 DEF LoadHosts, NoPass
  <2>2. BindsCovered'
    BY <1>0, <1>1, <2>1, ConstantsAssumption DEF Inv, BindsCovered, Memberships
  <2>3. ASSUME NEW h \in Hosts, NEW p \in Partitions, pass'.seen[h].expected = p
        PROVE  Covered(<<h, p>>)'
    <3>1. Expected(h) = p
      BY <1>3, <2>3, ConstantsAssumption DEF LoadHosts, NoPass, NothingSeen
    <3> QED
      BY <1>1, <3>1, ExpectedCovered DEF Inv
  <2>4. SeenCovered'
    BY <2>3 DEF SeenCovered
  <2> QED
    BY <1>1, <1>2, <2>2, <2>4
<1>4. ASSUME pass'.seen \in {pass.seen, NothingSeen},
             \A m \in pass'.bind : m \in pass.bind \/ \E h \in Hosts : m \in Needs(h),
             pass'.call \in {pass.call, None} \cup ({"unbind"} \X Memberships)
      PROVE  BindsCovered' /\ SeenCovered'
  <2>1. \A h \in Hosts : \A m \in Needs(h) : Covered(m)
    BY DEF Inv, SeenCovered, Needs
  <2>2. \A m \in pass'.bind : Covered(m)'
    BY <1>1, <1>4, <2>1 DEF Inv, BindsCovered
  <2>3. \A m \in Memberships : pass'.call = <<"bind", m>> => Covered(m)'
    BY <1>1, <1>4, ConstantsAssumption DEF Inv, BindsCovered, Memberships
  <2>4. BindsCovered'
    BY <1>0, <1>1, <2>2, <2>3 DEF Inv, BindsCovered
  <2>5. SeenCovered'
    BY <1>1, <1>4, ConstantsAssumption DEF Inv, SeenCovered, NothingSeen
  <2> QED
    BY <2>4, <2>5
<1>5. CASE LoadFabric \/ LoadFabricInPart \/ FindRetired \/ Reconciled
  <2>1. /\ pass'.seen \in {pass.seen, NothingSeen}
        /\ pass'.bind = pass.bind /\ pass'.call \in {pass.call, None}
    BY <1>0, <1>5 DEF LoadFabric, LoadFabricInPart, FindRetired, Reconciled, Passes, NoPass
  <2> QED
    BY <1>1, <1>2, <1>4, <2>1
<1>6. ASSUME NEW h \in Hosts, Record(h)
      PROVE  RecordedOnExit' /\ FabricCovered' /\ BindsCovered' /\ SeenCovered'
  <2>1. /\ pass'.seen = pass.seen /\ pass'.call = pass.call
        /\ pass'.bind \in {pass.bind, pass.bind \cup Missing(h)}
    BY <1>0, <1>6 DEF Record, Passes
  <2>2. Missing(h) \subseteq Needs(h)
    BY DEF Missing
  <2> QED
    BY <1>1, <1>2, <1>4, <2>1, <2>2
<1>7. ASSUME NEW m \in Memberships, Reconcile(m) \/ RereadFails(m)
      PROVE  RecordedOnExit' /\ FabricCovered' /\ BindsCovered' /\ SeenCovered'
  <2>1. /\ pass'.seen = pass.seen
        /\ pass'.bind \subseteq pass.bind
        /\ pass'.call \in {pass.call, None, <<"unbind", m>>}
    <3>1. CASE pass' = [pass EXCEPT !.found = @ \ {m}, !.unbind = @ \ {m}]
      BY <1>0, <3>1 DEF Passes
    <3>2. CASE pass' = [pass EXCEPT !.found = @ \ {m}, !.bind = @ \ {m}, !.unbind = @ \ {m},
                          !.call = IF m \in pass.data THEN <<"unbind", m>> ELSE None]
      BY <1>0, <3>2 DEF Passes
    <3>3. CASE pass' = [pass EXCEPT !.found = @ \ {m}, !.bind = @ \ {m}, !.unbind = @ \ {m}]
      BY <1>0, <3>3 DEF Passes
    <3> QED
      BY <1>7, <3>1, <3>2, <3>3 DEF Reconcile, RereadFails
  <2> QED
    BY <1>1, <1>2, <1>4, <1>7, <2>1
<1> QED
  BY <1>3, <1>5, <1>6, <1>7

\* Calling: a bind moves from the intentions to the call, from there to UFM or
\* to the calls given up, and from those to UFM.
LEMMA CallingCovers ==
    ASSUME Inv,
           \/ CallEnds \/ CallFails \/ EndPass \/ AbortPass
           \/ \E m \in Memberships : Bind(m) \/ Unbind(m)
           \/ \E c \in late : LateCall(c)
    PROVE  RecordedOnExit' /\ FabricCovered' /\ BindsCovered' /\ SeenCovered'
<1>0. /\ UNCHANGED <<host, retired, lost>>
      /\ pass \in Passes /\ late \subseteq Calls
  BY DEF CallEnds, CallFails, EndPass, AbortPass, Bind, Unbind, LateCall, Inv, TypeOK
<1>1. RecordedOnExit' /\ \A m : Covered(m)' <=> Covered(m)
  BY <1>0, MonitorKeeps
<1>2. SeenCovered'
  <2>1. pass' = NoPass \/ pass'.seen = pass.seen
    BY <1>0 DEF CallEnds, CallFails, EndPass, AbortPass, Bind, Unbind, LateCall, Passes
  <2>2. \A h \in Hosts : NoPass.seen[h].expected = None
    BY DEF NoPass, NothingSeen
  <2> QED
    BY <1>1, <2>1, <2>2, ConstantsAssumption DEF Inv, SeenCovered
<1>3. ASSUME NEW c \in Calls, Done(c), \A m \in Memberships : c = <<"bind", m>> => Covered(m)
      PROVE  FabricCovered'
  BY <1>1, <1>3 DEF Done, Inv, FabricCovered, Calls
<1>4. CASE CallEnds
  <2>1. /\ pass.call \in Calls /\ Done(pass.call)
        /\ pass'.bind = pass.bind /\ pass'.call = None /\ late' = late
    BY <1>0, <1>4 DEF CallEnds, Passes
  <2>2. FabricCovered'
    BY <1>3, <2>1 DEF Inv, BindsCovered
  <2>3. BindsCovered'
    BY <1>1, <2>1, ConstantsAssumption DEF Inv, BindsCovered, Memberships
  <2> QED
    BY <1>1, <1>2, <2>2, <2>3
<1>5. ASSUME NEW c \in late, LateCall(c)
      PROVE  RecordedOnExit' /\ FabricCovered' /\ BindsCovered' /\ SeenCovered'
  <2>1. c \in Calls /\ Done(c) /\ pass' = pass /\ late' \subseteq late
    BY <1>0, <1>5 DEF LateCall
  <2>2. FabricCovered'
    BY <1>3, <1>5, <2>1 DEF Inv, BindsCovered
  <2>3. BindsCovered'
    BY <1>1, <2>1 DEF Inv, BindsCovered
  <2> QED
    BY <1>1, <1>2, <2>2, <2>3
<1>6. ASSUME ufm' = ufm, late' \subseteq late \cup {pass.call}, pass'.bind \subseteq pass.bind,
             \/ pass'.call = None
             \/ \E m \in pass.bind : pass'.call = <<"bind", m>>
             \/ \E m \in Memberships : pass'.call = <<"unbind", m>>
      PROVE  RecordedOnExit' /\ FabricCovered' /\ BindsCovered' /\ SeenCovered'
  <2>1. FabricCovered'
    BY <1>1, <1>6 DEF Inv, FabricCovered
  <2>2. \A m \in pass'.bind : Covered(m)'
    BY <1>1, <1>6 DEF Inv, BindsCovered
  <2>3. \A m \in Memberships : pass'.call = <<"bind", m>> => Covered(m)'
    BY <1>1, <1>6, ConstantsAssumption DEF Inv, BindsCovered, Memberships
  <2>4. \A m \in Memberships : <<"bind", m>> \in late' => Covered(m)'
    BY <1>1, <1>6 DEF Inv, BindsCovered
  <2> QED
    BY <1>1, <1>2, <2>1, <2>2, <2>3, <2>4 DEF BindsCovered
<1>7. CASE CallFails \/ EndPass \/ AbortPass
  <2>1. /\ ufm' = ufm /\ late' \subseteq late \cup {pass.call}
        /\ pass'.bind \subseteq pass.bind /\ pass'.call = None
    BY <1>0, <1>7 DEF CallFails, EndPass, AbortPass, NoPass, Passes
  <2> QED
    BY <1>6, <2>1
<1>8. ASSUME NEW m \in Memberships, Bind(m) \/ Unbind(m)
      PROVE  RecordedOnExit' /\ FabricCovered' /\ BindsCovered' /\ SeenCovered'
  <2>1. /\ ufm' = ufm /\ late' = late /\ pass'.bind \subseteq pass.bind
        /\ \/ m \in pass.bind /\ pass'.call = <<"bind", m>>
           \/ pass'.call = <<"unbind", m>>
    BY <1>0, <1>8 DEF Bind, Unbind, Passes
  <2> QED
    BY <1>6, <1>8, <2>1
<1> QED
  BY <1>4, <1>5, <1>7, <1>8

\* The invariant holds at first and is kept by every step.
LEMMA InvHolds == Spec => []Inv
<1>1. Init => Inv
  BY InitType, ConstantsAssumption
     DEF Init, Inv, RecordedOnExit, FabricCovered, BindsCovered, SeenCovered, NoPass,
         NothingSeen, Memberships
<1>2. Inv /\ [Next]_vars => Inv'
  <2> SUFFICES ASSUME Inv, [Next]_vars PROVE Inv'
    OBVIOUS
  <2>0. TypeOK'
    BY NextType DEF Inv
  <2>1. ASSUME NEW h \in Hosts, Api(h) \/ StartReset(h) \/ Controller(h) PROVE Inv'
    <3>1. HostStep(h)
      BY <2>1, ApiCovers, ControllerCovers DEF Inv
    <3> QED
      BY <2>0, <3>1, HostKeeps DEF HostStep, Inv
  <2>2. CASE Monitor
    BY <2>0, <2>2, ReadingCovers, CallingCovers DEF Monitor, Inv
  <2>3. CASE LoadFabricInPart \/ \E m \in Memberships : RereadFails(m)
    BY <2>0, <2>3, ReadingCovers DEF Inv
  <2>4. CASE CallFails \/ AbortPass \/ \E c \in late : LateCall(c)
    BY <2>0, <2>4, CallingCovers DEF Inv
  <2>5. CASE UNCHANGED vars
    BY <2>0, <2>5 DEF vars, Inv, RecordedOnExit, FabricCovered, BindsCovered, SeenCovered,
                      Covered, Owned
  <2> QED
    BY <2>1, <2>2, <2>3, <2>4, <2>5 DEF Next
<1> QED
  BY <1>1, <1>2, PTL DEF Spec

\* Whatever UFM has or may still get is owned by an instance, recorded as
\* retired, or was taken by a reset from an instance in use, however passes,
\* transactions, resets, faults and late calls interleave.  So a reset
\* (reset.rs:104) is the only way to lose track of a membership.
THEOREM NothingForgotten == Spec => []NoForgottenMembership
<1>1. Inv => NoForgottenMembership
  BY DEF Inv, FabricCovered, BindsCovered, Covered, NoForgottenMembership, Possible
<1> QED
  BY <1>1, InvHolds, PTL
=============================================================================
