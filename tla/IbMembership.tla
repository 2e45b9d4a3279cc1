---------------------------- MODULE IbMembership ----------------------------
(***************************************************************************)
(* The InfiniBand memberships of hosts: the fabric monitor that binds and  *)
(* unbinds ports at the fabric's manager (UFM), the transactions that give *)
(* an instance its partition or take it away, the records of memberships   *)
(* that are retired, and the part of the machine controller that waits for *)
(* the monitor (ib-fabric/src/lib.rs, api-db/src/retired_ib_membership.rs, *)
(* api-core/src/handlers/instance.rs, machine-controller/src/handler.rs    *)
(* and handler/reset.rs).                                                  *)
(*                                                                         *)
(* UFM takes no part in a database transaction: a pass of the monitor acts *)
(* on what it has read, and a call to UFM may take effect long after the   *)
(* caller has given it up.  Each host has one port on one fabric, and      *)
(* every partition exists and has its own PKey, so a membership is a host  *)
(* with a partition.                                                       *)
(***************************************************************************)
EXTENDS Naturals

CONSTANTS Hosts, Partitions,
          MaxForce,    \* forced deletions of a host
          MaxReset,    \* resets of a host
          MaxFaults,   \* passes that fail or lack data, and late calls
          None         \* no partition, no call

ASSUME ConstantsAssumption ==
    /\ MaxForce \in Nat /\ MaxReset \in Nat /\ MaxFaults \in Nat
    /\ None \notin Partitions
    /\ None \notin {"bind", "unbind"} \X (Hosts \X Partitions)

VARIABLES
    hs,       \* managed state of a host; "Gone" if it has no row
    admin,    \* use_admin_network
    inst,     \* "none", "live", "deleted", or "unbound" during a forced deletion
    cfg,      \* the partition in the instance's InfiniBand configuration
    obs,      \* infiniband_status_observation
    alert,    \* IbCleanupPending
    retired,  \* the table retired_ib_memberships
    ufm,      \* the memberships UFM has
    late,     \* calls given up that UFM may still carry out
    pass,     \* the monitor's pass
    left,     \* how many forced deletions, resets and faults may still come
    lost      \* history, read by no action: memberships that a reset took from
              \* an instance without a record, until an instance has them again

host == <<hs, admin, inst, cfg>>
vars == <<hs, admin, inst, cfg, obs, alert, retired, ufm, late, pass, left,
          lost>>

Memberships == Hosts \X Partitions
Calls == {"bind", "unbind"} \X Memberships

\* A port is missing from the observation until the first one is written,
\* unseen if UFM did not report it, opaque if UFM reported the port and not
\* the partitions, and seen otherwise.
NotObserved == [port |-> "missing", pkeys |-> {}]
Observations == [port : {"missing", "unseen", "opaque", "seen"}, pkeys : SUBSET Partitions]

NothingSeen == [h \in Hosts |-> [known |-> FALSE, expected |-> None, alert |-> FALSE,
                                 obs |-> NotObserved]]
NoPass == [at |-> "idle", seen |-> NothingSeen, ports |-> {}, parts |-> FALSE, data |-> {},
           todo |-> {}, needed |-> {}, bind |-> {}, unbind |-> {}, found |-> {}, call |-> None]

Init ==
    /\ hs = [h \in Hosts |-> "Available"] /\ admin = [h \in Hosts |-> TRUE]
    /\ inst = [h \in Hosts |-> "none"] /\ cfg = [h \in Hosts |-> None]
    /\ obs = [h \in Hosts |-> NotObserved] /\ alert = [h \in Hosts |-> FALSE]
    /\ retired = {} /\ ufm = {} /\ late = {}
    /\ pass = NoPass
    /\ left = [force |-> MaxForce, reset |-> MaxReset, faults |-> MaxFaults]
    /\ lost = {}

Fault == /\ left.faults > 0
         /\ left' = [left EXCEPT !.faults = @ - 1]

-----------------------------------------------------------------------------
(* The API.  Each is one transaction that holds the locks on the host or   *)
(* on the instance.                                                        *)

\* ib_memberships_from_config
Membership(h) == IF cfg[h] = None THEN {} ELSE {<<h, cfg[h]>>}

\* remove_for_reuse after the configuration is written.
Allocate(h, p) ==
    /\ hs[h] = "Available" /\ inst[h] = "none" /\ ~alert[h]
    /\ inst' = [inst EXCEPT ![h] = "live"]
    /\ cfg' = [cfg EXCEPT ![h] = p]
    /\ retired' = retired \ {<<h, p>>}
    /\ lost' = lost \ {<<h, p>>}
    /\ UNCHANGED <<hs, admin, obs, alert, ufm, late, pass, left>>

\* Mutant: the membership that the update takes away is not recorded.
UpdateConfigUnrecorded(h, p) ==
    /\ hs[h] = "Ready" /\ inst[h] = "live" /\ p # cfg[h]
    /\ cfg' = [cfg EXCEPT ![h] = p]
    /\ retired' = retired \ {<<h, p>>}
    /\ lost' = lost \ {<<h, p>>}
    /\ UNCHANGED <<hs, admin, inst, obs, alert, ufm, late, pass, left>>

\* update_instance_infiniband_config
UpdateConfig(h, p) ==
    /\ hs[h] = "Ready" /\ inst[h] = "live" /\ p # cfg[h]
    /\ cfg' = [cfg EXCEPT ![h] = p]
    /\ retired' = (retired \cup Membership(h)) \ {<<h, p>>}
    /\ lost' = lost \ {<<h, p>>}
    /\ UNCHANGED <<hs, admin, inst, obs, alert, ufm, late, pass, left>>

\* release_one_instance
Release(h) ==
    /\ inst[h] = "live"
    /\ retired' = retired \cup Membership(h)
    /\ inst' = [inst EXCEPT ![h] = "deleted"]
    /\ UNCHANGED <<hs, admin, cfg, obs, alert, ufm, late, pass, left, lost>>

\* admin_force_delete_machine, first transaction.
ForceDelete(h) ==
    /\ hs[h] \notin {"ForceDeletion", "Gone"} /\ left.force > 0
    /\ left' = [left EXCEPT !.force = @ - 1]
    /\ hs' = [hs EXCEPT ![h] = "ForceDeletion"]
    /\ retired' = retired \cup Membership(h)
    /\ UNCHANGED <<admin, inst, cfg, obs, alert, ufm, late, pass, lost>>

\* force_delete_instance: the mark ...
ForceDeleteMarks(h) ==
    /\ hs[h] = "ForceDeletion" /\ inst[h] = "live"
    /\ inst' = [inst EXCEPT ![h] = "deleted"]
    /\ UNCHANGED <<hs, admin, cfg, obs, alert, retired, ufm, late, pass, left, lost>>

\* ... unbind_all_instance_ib_ports ...
ForceDeleteUnbinds(h) ==
    /\ hs[h] = "ForceDeletion" /\ inst[h] = "deleted"
    /\ ufm' = ufm \ Membership(h)
    /\ inst' = [inst EXCEPT ![h] = "unbound"]
    /\ UNCHANGED <<hs, admin, cfg, obs, alert, retired, late, pass, left, lost>>

\* ... which fails, now or with an unbind that UFM carries out later, and the
\* caller tries again ...
ForceDeleteUnbindFails(h) ==
    /\ hs[h] = "ForceDeletion" /\ inst[h] = "deleted"
    /\ Fault
    /\ late' = late \cup {<<"unbind", m>> : m \in Membership(h)}
    /\ UNCHANGED <<hs, admin, inst, cfg, obs, alert, retired, ufm, pass, lost>>

\* ... and the instance and the host are deleted.
ForceDeleteRemoves(h) ==
    /\ hs[h] = "ForceDeletion" /\ inst[h] \in {"none", "unbound"}
    /\ hs' = [hs EXCEPT ![h] = "Gone"]
    /\ inst' = [inst EXCEPT ![h] = "none"]
    /\ cfg' = [cfg EXCEPT ![h] = None]
    /\ obs' = [obs EXCEPT ![h] = NotObserved]
    /\ alert' = [alert EXCEPT ![h] = FALSE]
    /\ UNCHANGED <<admin, retired, ufm, late, pass, left, lost>>

\* The host is discovered again, with the same ports.
Ingest(h) ==
    /\ hs[h] = "Gone"
    /\ hs' = [hs EXCEPT ![h] = "Available"]
    /\ admin' = [admin EXCEPT ![h] = TRUE]
    /\ UNCHANGED <<inst, cfg, obs, alert, retired, ufm, late, pass, left, lost>>

-----------------------------------------------------------------------------
(* The machine controller, as far as it moves the host between the admin   *)
(* and the tenant network and waits for InfiniBand (see InstanceNetwork).  *)

SwitchToTenant(h) ==
    /\ hs[h] = "Available" /\ inst[h] # "none"
    /\ hs' = [hs EXCEPT ![h] = "WaitingForNetworkConfig"]
    /\ admin' = [admin EXCEPT ![h] = FALSE]
    /\ UNCHANGED <<inst, cfg, obs, alert, retired, ufm, late, pass, left, lost>>

\* Mutant: a release does not cut the wait short.
TenantNetworkReadyAlwaysSynced(h) ==
    /\ hs[h] = "WaitingForNetworkConfig"
    /\ obs[h] = [port |-> "seen", pkeys |-> {cfg[h]}]
    /\ hs' = [hs EXCEPT ![h] = "Ready"]
    /\ UNCHANGED <<admin, inst, cfg, obs, alert, retired, ufm, late, pass, left, lost>>

\* ib_config_synced(.., true)
TenantNetworkReady(h) ==
    /\ hs[h] = "WaitingForNetworkConfig"
    /\ inst[h] = "deleted" \/ obs[h] = [port |-> "seen", pkeys |-> {cfg[h]}]
    /\ hs' = [hs EXCEPT ![h] = "Ready"]
    /\ UNCHANGED <<admin, inst, cfg, obs, alert, retired, ufm, late, pass, left, lost>>

SwitchToAdmin(h) ==
    /\ hs[h] = "Ready" /\ inst[h] = "deleted"
    /\ hs' = [hs EXCEPT ![h] = "WaitingForNetworkReconfig"]
    /\ admin' = [admin EXCEPT ![h] = TRUE]
    /\ UNCHANGED <<inst, cfg, obs, alert, retired, ufm, late, pass, left, lost>>

\* Mutant: the configuration outlives the instance.
TerminateKeepsConfig(h) ==
    /\ hs[h] = "WaitingForNetworkReconfig"
    /\ obs[h].port # "missing" /\ obs[h].pkeys = {}
    /\ alert' = [alert EXCEPT ![h] = @ \/ obs[h].port # "seen"]
    /\ hs' = [hs EXCEPT ![h] = "Available"]
    /\ inst' = [inst EXCEPT ![h] = "none"]
    /\ UNCHANGED <<admin, cfg, obs, retired, ufm, late, pass, left, lost>>

\* ib_config_synced(.., false): without an observation the controller waits,
\* with an observation that does not know it leaves the port to the monitor.
Terminate(h) ==
    /\ hs[h] = "WaitingForNetworkReconfig"
    /\ obs[h].port # "missing" /\ obs[h].pkeys = {}
    /\ alert' = [alert EXCEPT ![h] = @ \/ obs[h].port # "seen"]
    /\ hs' = [hs EXCEPT ![h] = "Available"]
    /\ inst' = [inst EXCEPT ![h] = "none"]
    /\ cfg' = [cfg EXCEPT ![h] = None]
    /\ UNCHANGED <<admin, obs, retired, ufm, late, pass, left, lost>>

\* managed_host_reset_needed: an operator may have a host reset in any state,
\* and with --allow-reset-with-instance while its instance is in use.
StartReset(h) ==
    /\ hs[h] \notin {"Reset", "ForceDeletion", "Gone"} /\ left.reset > 0
    /\ left' = [left EXCEPT !.reset = @ - 1]
    /\ hs' = [hs EXCEPT ![h] = "Reset"]
    /\ UNCHANGED <<admin, inst, cfg, obs, alert, retired, ufm, late, pass, lost>>

\* handle_deleting_instance first switches the host to the admin network ...
ResetToAdmin(h) ==
    /\ hs[h] = "Reset" /\ inst[h] # "none" /\ ~admin[h]
    /\ admin' = [admin EXCEPT ![h] = TRUE]
    /\ UNCHANGED <<hs, inst, cfg, obs, alert, retired, ufm, late, pass, left, lost>>

\* ... and, when the DPUs have applied that, deletes the instance.  It neither
\* records the membership nor waits for InfiniBand nor raises the alert.
ResetDeletesInstance(h) ==
    /\ hs[h] = "Reset" /\ inst[h] # "none" /\ admin[h]
    /\ inst' = [inst EXCEPT ![h] = "none"]
    /\ cfg' = [cfg EXCEPT ![h] = None]
    /\ lost' = lost \cup (Membership(h) \ retired)
    /\ UNCHANGED <<hs, admin, obs, alert, retired, ufm, late, pass, left>>

\* Cleanup, the deletion of the DPF resources and the way through discovery.
ResetEnds(h) ==
    /\ hs[h] = "Reset" /\ inst[h] = "none"
    /\ hs' = [hs EXCEPT ![h] = "Available"]
    /\ UNCHANGED <<admin, inst, cfg, obs, alert, retired, ufm, late, pass, left, lost>>

-----------------------------------------------------------------------------
(* The fabric monitor.  run_single_iteration holds a work lock, so there   *)
(* is one pass at a time; one that has lost the lock differs from late     *)
(* calls only in that it still finds out how they end.                     *)

\* get_all_snapshots: what record_machine_infiniband_status_observation uses
\* of a host.  An instance to be deleted still has its configuration.
Expected(h) == IF ~admin[h] /\ inst[h] # "none" THEN cfg[h] ELSE None

LoadHosts ==
    /\ pass.at = "idle"
    /\ pass' = [NoPass EXCEPT !.at = "fabric",
                  !.seen = [h \in Hosts |-> IF hs[h] = "Gone" THEN NothingSeen[h]
                                            ELSE [known |-> TRUE, expected |-> Expected(h),
                                                  alert |-> alert[h], obs |-> obs[h]]]]
    /\ UNCHANGED <<host, obs, alert, retired, ufm, late, left, lost>>

Known == {h \in Hosts : pass.seen[h].known}

\* load_single_fabric_data, ...
LoadFabric ==
    /\ pass.at = "fabric"
    /\ pass' = [pass EXCEPT !.at = "record", !.ports = Hosts, !.parts = TRUE, !.data = ufm,
                            !.todo = Known]
    /\ UNCHANGED <<host, obs, alert, retired, ufm, late, left, lost>>

\* ... where UFM may fail to report some ports, or any partition.
LoadFabricInPart ==
    /\ pass.at = "fabric"
    /\ Fault
    /\ \E ports \in SUBSET Hosts :
          \/ pass' = [pass EXCEPT !.at = "record", !.ports = ports, !.parts = TRUE,
                                  !.data = ufm, !.todo = Known]
          \/ pass' = [pass EXCEPT !.at = "record", !.ports = ports, !.todo = Known]
    /\ UNCHANGED <<host, obs, alert, retired, ufm, late, lost>>

Associated(h) == {p \in Partitions : <<h, p>> \in pass.data}
Observed(h) == IF h \notin pass.ports THEN [port |-> "unseen", pkeys |-> {}]
               ELSE IF ~pass.parts THEN [port |-> "opaque", pkeys |-> {}]
               ELSE [port |-> "seen", pkeys |-> Associated(h)]
Needs(h) == {<<h, p>> : p \in {pass.seen[h].expected} \cap Partitions}
Missing(h) == IF Observed(h).port = "seen" THEN Needs(h) \ pass.data ELSE {}

\* Mutant: the membership that is expected is not spared.
UnexpectedAll(h) == {<<h, p>> : p \in Observed(h).pkeys}

Unexpected(h) == {<<h, p>> : p \in Observed(h).pkeys} \ Needs(h)

\* record_machine_infiniband_status_observation.  An observation that equals
\* the last one is not written; if one cannot be written because the host is
\* gone, there is no report.
Record(h) ==
    LET changed == Observed(h) # pass.seen[h].obs
        cleared == pass.seen[h].alert /\ Missing(h) \cup Unexpected(h) = {}
    IN
    /\ pass.at = "record" /\ h \in pass.todo
    /\ alert' = [alert EXCEPT ![h] = @ /\ ~cleared]
    /\ IF changed /\ hs[h] = "Gone"
         THEN /\ pass' = [pass EXCEPT !.todo = @ \ {h}]
              /\ UNCHANGED obs
         ELSE /\ pass' = [pass EXCEPT !.todo = @ \ {h},
                            !.needed = @ \cup (IF h \in pass.ports THEN Needs(h) ELSE {}),
                            !.bind = @ \cup Missing(h), !.unbind = @ \cup Unexpected(h)]
              /\ obs' = IF changed THEN [obs EXCEPT ![h] = Observed(h)] ELSE obs
    /\ UNCHANGED <<host, retired, ufm, late, left, lost>>

\* find_recorded_candidates
FindRetired ==
    /\ pass.at = "record" /\ pass.todo = {}
    /\ pass' = [pass EXCEPT !.at = "reconcile", !.found = retired \cap (pass.data \cup pass.needed)]
    /\ UNCHANGED <<host, obs, alert, retired, ufm, late, left, lost>>

\* Mutant: the reread looks at the configuration alone.
StillNeededByConfig(m) == cfg[m[1]] = m[2]

\* membership_is_still_needed, on the host's row and under its lock.
StillNeeded(m) ==
    LET h == m[1] IN
    /\ hs[h] \notin {"Gone", "ForceDeletion"}
    /\ obs[h].port \in {"opaque", "seen"}
    /\ ~admin[h] /\ inst[h] = "live" /\ cfg[h] = m[2]

\* reconcile_retired_memberships, for one of those found.
Reconcile(m) ==
    /\ pass.at = "reconcile" /\ m \in pass.found /\ pass.call = None
    /\ IF pass.seen[m[1]].known /\ StillNeeded(m)
         THEN pass' = [pass EXCEPT !.found = @ \ {m}, !.unbind = @ \ {m}]
         ELSE pass' = [pass EXCEPT !.found = @ \ {m}, !.bind = @ \ {m}, !.unbind = @ \ {m},
                         !.call = IF m \in pass.data THEN <<"unbind", m>> ELSE None]
    /\ UNCHANGED <<host, obs, alert, retired, ufm, late, left, lost>>

\* The reread fails: nothing is done about the membership in this pass.
RereadFails(m) ==
    /\ pass.at = "reconcile" /\ m \in pass.found /\ pass.call = None
    /\ pass.seen[m[1]].known
    /\ Fault
    /\ pass' = [pass EXCEPT !.found = @ \ {m}, !.bind = @ \ {m}, !.unbind = @ \ {m}]
    /\ UNCHANGED <<host, obs, alert, retired, ufm, late, lost>>

\* The rest of the pass uses nothing but the changes to make.
Reconciled ==
    /\ pass.at = "reconcile" /\ pass.found = {} /\ pass.call = None
    /\ pass' = [NoPass EXCEPT !.at = "apply", !.bind = pass.bind, !.unbind = pass.unbind]
    /\ UNCHANGED <<host, obs, alert, retired, ufm, late, left, lost>>

\* apply_guid_pkey_changes: the binds of a host come before its unbinds.
Bind(m) ==
    /\ pass.at = "apply" /\ pass.call = None /\ m \in pass.bind
    /\ pass' = [pass EXCEPT !.bind = @ \ {m}, !.call = <<"bind", m>>]
    /\ UNCHANGED <<host, obs, alert, retired, ufm, late, left, lost>>

Unbind(m) ==
    /\ pass.at = "apply" /\ pass.call = None /\ m \in pass.unbind
    /\ \A b \in pass.bind : b[1] # m[1]
    /\ pass' = [pass EXCEPT !.unbind = @ \ {m}, !.call = <<"unbind", m>>]
    /\ UNCHANGED <<host, obs, alert, retired, ufm, late, left, lost>>

\* UFM carries out a call.
Done(c) == ufm' = IF c[1] = "bind" THEN ufm \cup {c[2]} ELSE ufm \ {c[2]}

CallEnds ==
    /\ pass.call # None
    /\ Done(pass.call)
    /\ pass' = [pass EXCEPT !.call = None]
    /\ UNCHANGED <<host, obs, alert, retired, late, left, lost>>

\* An error; the pass goes on.  The call is lost, or takes effect later.
CallFails ==
    /\ pass.call # None
    /\ Fault
    /\ late' \in {late, late \cup {pass.call}}
    /\ pass' = [pass EXCEPT !.call = None]
    /\ UNCHANGED <<host, obs, alert, retired, ufm, lost>>

LateCall(c) ==
    /\ c \in late
    /\ Done(c)
    /\ late' = late \ {c}
    /\ UNCHANGED <<host, obs, alert, retired, pass, left, lost>>

EndPass ==
    /\ pass.at = "apply" /\ pass.call = None /\ pass.bind = {} /\ pass.unbind = {}
    /\ pass' = NoPass
    /\ UNCHANGED <<host, obs, alert, retired, ufm, late, left, lost>>

\* A query fails, or the process stops.
AbortPass ==
    /\ pass.at # "idle"
    /\ Fault
    /\ late' = late \cup ({pass.call} \ {None})
    /\ pass' = NoPass
    /\ UNCHANGED <<host, obs, alert, retired, ufm, lost>>

-----------------------------------------------------------------------------
Monitor == \/ LoadHosts \/ LoadFabric \/ FindRetired \/ Reconciled \/ CallEnds \/ EndPass
           \/ \E h \in Hosts : Record(h)
           \/ \E m \in Memberships : Reconcile(m) \/ Bind(m) \/ Unbind(m)

Controller(h) == \/ SwitchToTenant(h) \/ TenantNetworkReady(h) \/ SwitchToAdmin(h) \/ Terminate(h)
                 \/ ResetToAdmin(h) \/ ResetDeletesInstance(h) \/ ResetEnds(h)

Api(h) == \/ \E p \in Partitions : Allocate(h, p) \/ UpdateConfig(h, p)
          \/ Release(h) \/ ForceDelete(h) \/ ForceDeleteMarks(h) \/ ForceDeleteUnbinds(h)
          \/ ForceDeleteUnbindFails(h) \/ ForceDeleteRemoves(h) \/ Ingest(h)

Next == \/ \E h \in Hosts : Api(h) \/ StartReset(h) \/ Controller(h)
        \/ Monitor \/ LoadFabricInPart \/ CallFails \/ AbortPass
        \/ \E m \in Memberships : RereadFails(m)
        \/ \E c \in late : LateCall(c)

Spec == Init /\ [][Next]_vars

\* The monitor runs its passes, and the controller handles every host, again
\* and again.  Nobody has to call the API or to ask for a reset.
FairSpec == /\ Spec
            /\ WF_vars(Monitor)
            /\ \A h \in Hosts : WF_vars(Controller(h))

-----------------------------------------------------------------------------
(* Properties.                                                             *)

Passes ==
    [at : {"idle", "fabric", "record", "reconcile", "apply"},
     seen : [Hosts -> [known : BOOLEAN, expected : Partitions \cup {None}, alert : BOOLEAN,
                       obs : Observations]],
     ports : SUBSET Hosts, parts : BOOLEAN, data : SUBSET Memberships, todo : SUBSET Hosts,
     needed : SUBSET Memberships, bind : SUBSET Memberships, unbind : SUBSET Memberships,
     found : SUBSET Memberships, call : Calls \cup {None}]

TypeOK ==
    /\ hs \in [Hosts -> {"Available", "WaitingForNetworkConfig", "Ready",
                         "WaitingForNetworkReconfig", "Reset", "ForceDeletion", "Gone"}]
    /\ admin \in [Hosts -> BOOLEAN] /\ alert \in [Hosts -> BOOLEAN]
    /\ inst \in [Hosts -> {"none", "live", "deleted", "unbound"}]
    /\ cfg \in [Hosts -> Partitions \cup {None}]
    /\ \A h \in Hosts : inst[h] = "none" <=> cfg[h] = None
    /\ obs \in [Hosts -> Observations]
    /\ retired \subseteq Memberships /\ ufm \subseteq Memberships /\ late \subseteq Calls
    /\ pass \in Passes
    /\ left \in [force : Nat, reset : Nat, faults : Nat]
    /\ lost \subseteq Memberships

\* The membership of an instance that is to stay, and whether it is due now.
Owned(m) == inst[m[1]] = "live" /\ cfg[m[1]] = m[2] /\ hs[m[1]] # "ForceDeletion"
Wanted(m) == Owned(m) /\ ~admin[m[1]]

\* Memberships that UFM has, or gets if calls and passes under way go on.
Possible == ufm \cup pass.bind \cup {m \in Memberships : <<"bind", m>> \in late \cup {pass.call}}

(***************************************************************************)
(* Whatever UFM has or may still get, also from a pass that works on a     *)
(* host as it was before its release or deletion, or from a call that was  *)
(* given up, is the membership of an instance or is recorded as retired,   *)
(* so that the monitor can remove it even if the host has no row left.     *)
(* The one exception is a membership that a reset took from an instance    *)
(* that had not been released: reset.rs:104 records nothing.               *)
(***************************************************************************)
NoForgottenMembership ==
    \A m \in Possible : m \in retired \/ Owned(m) \/ m \in lost

(***************************************************************************)
(* A membership that no instance has any more is gone in the end and       *)
(* stays away, whether the host is in use, released, reset, stuck in a     *)
(* forced deletion, or gone: no pass undoes what another one did.  What a  *)
(* reset left without a record is removed only if the host does not stay   *)
(* deleted, for then nothing leads to its port.                            *)
(***************************************************************************)
StrayIsRemoved ==
    \A m \in Memberships :
        <>[](~Owned(m) /\ (m \in lost => hs[m[1]] # "Gone")) => <>[](m \notin ufm)

(***************************************************************************)
(* The membership that an instance wants is bound in the end and stays     *)
(* bound, although it may have been retired before and old calls may still *)
(* remove it.                                                              *)
(***************************************************************************)
WantedIsBound ==
    \A m \in Memberships : <>[]Wanted(m) => <>[](m \in ufm)

(***************************************************************************)
(* A release comes to its end: the monitor and the controller, which waits *)
(* for the ports to be in no partition, do not wait for each other.        *)
(***************************************************************************)
ReleaseEnds ==
    \A h \in Hosts : inst[h] = "deleted" ~> inst[h] = "none" \/ hs[h] = "ForceDeletion"

(***************************************************************************)
(* "The alert is set when cleanup is required and cleared once the monitor *)
(* confirms that every GUID has been removed from UFM-side partitions."    *)
(***************************************************************************)
ClearedWhenRemoved ==
    [][\A h \in Hosts : alert[h] /\ ~alert'[h] /\ hs'[h] # "Gone"
            => \A p \in Partitions : <<h, p>> \notin ufm]_vars
=============================================================================
