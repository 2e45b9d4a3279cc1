--------------------------- MODULE InstanceNetwork ---------------------------
(***************************************************************************)
(* The network of an instance on one host: the API that allocates, updates *)
(* and releases it, the machine controller that takes the host through its *)
(* states, the agents on the host's DPUs, and the segments generated for   *)
(* its interfaces (api-core/src/handlers/instance.rs and dpu.rs,           *)
(* machine-controller/src/handler.rs and handler/reset.rs,                 *)
(* agent/src/main_loop.rs).                                                *)
(*                                                                         *)
(* Nobody tells the controller what a DPU forwards but the DPU's own       *)
(* reports: a segment may be released when every DPU has acknowledged a    *)
(* configuration without it.  The life of a segment after its release is   *)
(* that of DrainedResource, which NetworkSegment implements.               *)
(***************************************************************************)
EXTENDS Naturals, FiniteSets

CONSTANTS DPUs,        \* the DPUs of the host
          Segments,    \* generated segments; an id is never used again
          Updaters,    \* concurrent calls of UpdateInstanceConfig
          MaxReprovision,  \* reprovision, firmware and custom iPXE requests
          MaxReset,    \* requests to reset the host
          MaxForce,    \* forced deletions of the host
          MaxFail,     \* failures of a DPU agent to apply a configuration
          MaxDisturbances,  \* all of these together
          None         \* no segment

ASSUME ConstantsAssumption ==
    /\ MaxReprovision \in Nat /\ MaxReset \in Nat
    /\ MaxForce \in Nat /\ MaxFail \in Nat
    /\ MaxDisturbances \in Nat
    /\ IsFiniteSet(DPUs)
    /\ None \notin Segments

VARIABLES
    hs,         \* managed state of the host
    admin,      \* use_admin_network of the host
    hver,       \* version of the host's network config
    inst,       \* "none", "live", or "deleted" (release requested)
    cfg,        \* network config: the segment of each DPU's interface
    nver,       \* network_config_version; versions of two instances differ
    cver,       \* config_version, which every API update compares
    req,        \* update_network_config_request: [old, new], both empty if none
    seg,        \* "unborn", "live", "marked" or "gone"
    upd,        \* the updating transactions and what each one has read
    reprov,     \* a reprovision or custom iPXE boot is requested
    reset,      \* a reset is requested and not started
    left,       \* how many such requests and failures may still come
    snap,       \* the snapshot of the controller's present iteration
    conf,       \* DPU: the configuration fetched last
    applied,    \* DPU: the segment that is forwarded
    rep,        \* DPU: the versions the next report acknowledges
    obs         \* network_status_observation: the last report received

api == <<inst, cver, upd>>
host == <<hs, admin, hver, cfg, nver, reprov>>
requests == <<reprov, reset, left>>
dpu == <<conf, applied, rep, obs>>
vars == <<hs, admin, hver, inst, cfg, nver, cver, req, seg, upd, reprov,
          reset, left, snap, conf, applied, rep, obs>>

Configs == [DPUs -> Segments \cup {None}]
NoConfig == [d \in DPUs |-> None]
NoRequest == [old |-> NoConfig, new |-> NoConfig]
SegmentsOf(c) == {c[d] : d \in DPUs} \ {None}
Pending == req # NoRequest

\* Current and pending configurations; each has its address rows.
Referenced == SegmentsOf(cfg) \cup SegmentsOf(req.old) \cup SegmentsOf(req.new)

NoSnapshot == [on |-> FALSE, deleted |-> FALSE, pending |-> FALSE,
               reprov |-> FALSE, reset |-> FALSE, hostSynced |-> FALSE, instanceSynced |-> FALSE]
NotReading == [on |-> FALSE, cver |-> 0, cfg |-> NoConfig]

Init ==
    /\ hs = "Available" /\ admin = TRUE /\ hver = 1
    /\ inst = "none" /\ cfg = NoConfig /\ nver = 0 /\ cver = 0 /\ req = NoRequest
    /\ seg = [g \in Segments |-> "unborn"]
    /\ upd = [u \in Updaters |-> NotReading]
    /\ reprov = FALSE /\ reset = FALSE
    /\ left = [reprovision |-> MaxReprovision, reset |-> MaxReset,
               force |-> MaxForce, fail |-> MaxFail, all |-> MaxDisturbances]
    /\ snap = NoSnapshot
    /\ conf = [d \in DPUs |-> [h |-> 1, n |-> 0, seg |-> None]]
    /\ applied = [d \in DPUs |-> None]
    /\ rep = [d \in DPUs |-> [h |-> 1, n |-> 0]]
    /\ obs = [d \in DPUs |-> [h |-> 1, n |-> 0]]

Disturb(kind) == /\ left[kind] > 0 /\ left["all"] > 0
                 /\ left' = [left EXCEPT ![kind] = @ - 1, !["all"] = @ - 1]

-----------------------------------------------------------------------------
(* API.                                                                    *)

\* Configurations in which every interface keeps its segment, goes, or gets
\* a new one, given that the interfaces of old keep theirs.
ConfigsFrom(old) ==
    {c \in Configs :
        /\ SegmentsOf(c) # {}
        /\ \A d \in DPUs : c[d] \in {None, old[d]} \/ seg[c[d]] = "unborn"
        /\ \A d, e \in DPUs : c[d] = c[e] /\ c[d] # None => d = e}

Generate(c) == seg' = [g \in Segments |-> IF g \in SegmentsOf(c) /\ seg[g] = "unborn"
                                            THEN "live" ELSE seg[g]]

AllocateInstance(c) ==
    /\ hs = "Available" /\ inst = "none"
    /\ inst' = "live"
    /\ cfg' = c
    /\ Generate(c)
    /\ nver' = nver + 1
    /\ cver' = cver + 1
    /\ UNCHANGED <<hs, admin, hver, req, upd, requests, snap, dpu>>

\* An update is refused unless the host is in Assigned/Ready and no other
\* update is pending.  The snapshot is read without a lock.
UpdateRead(u) ==
    /\ ~upd[u].on
    /\ hs = "Ready" /\ inst = "live" /\ ~Pending
    /\ upd' = [upd EXCEPT ![u] = [on |-> TRUE, cver |-> cver, cfg |-> cfg]]
    /\ UNCHANGED <<host, inst, cver, req, seg, reset, left, snap, dpu>>

\* trigger_update_network_config_request compares the pending request and
\* the deletion, update_config the version; the resources copied from the
\* old configuration must still be usable.
UpdateAccepted(u) ==
    /\ inst = "live" /\ ~Pending
    /\ cver = upd[u].cver

UpdateCommit(u, c) ==
    /\ upd[u].on
    /\ UpdateAccepted(u)
    /\ c # upd[u].cfg
    /\ \A g \in SegmentsOf(c) : seg[g] \in {"unborn", "live"}
    /\ req' = [old |-> upd[u].cfg, new |-> c]
    /\ Generate(c)
    /\ cver' = cver + 1
    /\ upd' = [upd EXCEPT ![u] = NotReading]
    /\ UNCHANGED <<host, inst, reset, left, snap, dpu>>

UpdateAbort(u) ==
    /\ upd[u].on
    /\ upd' = [upd EXCEPT ![u] = NotReading]
    /\ UNCHANGED <<host, inst, cver, req, seg, reset, left, snap, dpu>>

ReleaseInstance ==
    /\ inst = "live"
    /\ inst' = "deleted"
    /\ UNCHANGED <<host, cver, upd, req, seg, reset, left, snap, dpu>>

RequestReprovision ==
    /\ inst = "live" /\ ~reprov /\ Disturb("reprovision")
    /\ reprov' = TRUE
    /\ UNCHANGED <<hs, admin, hver, cfg, nver, api, req, seg, reset, snap, dpu>>

RequestReset ==
    /\ hs # "ForceDeletion" /\ ~reset /\ Disturb("reset")
    /\ reset' = TRUE
    /\ UNCHANGED <<host, api, req, seg, snap, dpu>>

\* A new state of the host; the iteration that works on the old one is over.
To(s) == hs' = s /\ snap' = NoSnapshot

\* admin_force_delete_machine puts the host out of the controller's hands:
\* the new state version refuses what the present iteration wants to write.
ForceDelete ==
    /\ hs # "ForceDeletion" /\ Disturb("force")
    /\ To("ForceDeletion")
    /\ UNCHANGED <<admin, hver, cfg, nver, api, req, seg, reprov, reset, dpu>>

Mark(S) == seg' = [g \in Segments |-> IF g \in S THEN "marked" ELSE seg[g]]

\* force_delete_instance: after the mark no update is accepted, and what it
\* has read of the configurations stays true.
ForceDeleteMarks ==
    /\ hs = "ForceDeletion" /\ inst = "live"
    /\ inst' = "deleted"
    /\ UNCHANGED <<host, cver, upd, req, seg, reset, left, snap, dpu>>

ForceDeleteInstance ==
    /\ hs = "ForceDeletion" /\ inst = "deleted"
    /\ inst' = "none" /\ cfg' = NoConfig /\ req' = NoRequest
    /\ Mark(Referenced)
    /\ UNCHANGED <<hs, admin, hver, nver, cver, upd, requests, snap, dpu>>

-----------------------------------------------------------------------------
(* DPU agent.                                                              *)

\* get_managed_host_network_config
OnAdmin(d) == \/ admin \/ cfg[d] = None
              \/ hs = "WaitingForNetworkSegmentToBeReady"

Fetch(d) ==
    /\ conf' = [conf EXCEPT ![d] =
                  IF OnAdmin(d) THEN [h |-> hver, n |-> 0, seg |-> None]
                                ELSE [h |-> hver, n |-> nver, seg |-> cfg[d]]]
    /\ UNCHANGED <<host, api, req, seg, reset, left, snap, applied, rep, obs>>

Apply(d) ==
    /\ applied' = [applied EXCEPT ![d] = conf[d].seg]
    /\ rep' = [rep EXCEPT ![d] = [h |-> conf[d].h, n |-> conf[d].n]]
    /\ UNCHANGED <<host, api, req, seg, reset, left, snap, conf, obs>>

\* HBN, DHCP or the restart of OVS fails, before or after the new
\* configuration has taken effect: the report acknowledges nothing.
ApplyFails(d) ==
    /\ Disturb("fail")
    /\ applied' \in {applied, [applied EXCEPT ![d] = conf[d].seg]}
    /\ rep' = [rep EXCEPT ![d] = [h |-> 0, n |-> 0]]
    /\ UNCHANGED <<host, api, req, seg, reset, snap, conf, obs>>

\* record_dpu_network_status
Report(d) ==
    /\ obs' = [obs EXCEPT ![d] = rep[d]]
    /\ UNCHANGED <<host, api, req, seg, reset, left, snap, conf, applied, rep>>

-----------------------------------------------------------------------------
(* Machine controller.  An iteration works on the snapshot it has loaded;  *)
(* what it writes is refused if the host's state has changed meanwhile.    *)

HostSynced == \A d \in DPUs : obs[d].h = hver

\* check_instance_network_synced_and_dpu_healthy: the DPUs that report an
\* instance configuration are those with interfaces, and all report this one.
InstanceSynced ==
    /\ Cardinality({d \in DPUs : obs[d].n # 0}) = Cardinality({d \in DPUs : cfg[d] # None})
    /\ \A d \in DPUs : obs[d].n # 0 => obs[d].n = nver

Load ==
    /\ ~snap.on /\ hs # "ForceDeletion"
    /\ snap' = [on |-> TRUE, deleted |-> inst = "deleted", pending |-> Pending,
                reprov |-> reprov, reset |-> reset, hostSynced |-> HostSynced,
                instanceSynced |-> InstanceSynced]
    /\ UNCHANGED <<host, api, req, seg, reset, left, dpu>>

\* The iteration in state s.  A reset preempts them all.
In(s) == snap.on /\ hs = s /\ ~(snap.reset /\ hs # "Reset")

\* The host's Ready state has found an instance.
StartAssignment ==
    /\ In("Available") /\ inst # "none"
    /\ To("WaitingForNetworkSegmentToBeReady")
    /\ UNCHANGED <<admin, hver, cfg, nver, api, req, seg, requests, dpu>>

SwitchToTenant ==
    /\ In("WaitingForNetworkSegmentToBeReady")
    /\ \A g \in SegmentsOf(cfg) : seg[g] = "live"
    /\ admin' = FALSE /\ hver' = hver + 1
    /\ To("WaitingForNetworkConfig")
    /\ UNCHANGED <<cfg, nver, api, req, seg, requests, dpu>>

NetworkConfigured ==
    /\ In("WaitingForNetworkConfig")
    /\ snap.deleted \/ (snap.hostSynced /\ snap.instanceSynced)
    /\ To("WaitingForRebootToReady")
    /\ UNCHANGED <<admin, hver, cfg, nver, api, req, seg, requests, dpu>>

RebootToReady ==
    /\ In("WaitingForRebootToReady")
    /\ To("Ready")
    /\ UNCHANGED <<admin, hver, cfg, nver, api, req, seg, requests, dpu>>

\* Mutant: updates of an instance that is to be released are not started.
StartUpdateUnlessDeleted ==
    /\ In("Ready") /\ snap.pending /\ ~snap.deleted
    /\ To("UpdateWaitingForNetworkSegmentToBeReady")
    /\ UNCHANGED <<admin, hver, cfg, nver, api, req, seg, requests, dpu>>

\* Ready: a pending update has the first priority.
StartUpdate ==
    /\ In("Ready") /\ snap.pending
    /\ To("UpdateWaitingForNetworkSegmentToBeReady")
    /\ UNCHANGED <<admin, hver, cfg, nver, api, req, seg, requests, dpu>>

LeaveReady ==
    /\ In("Ready") /\ ~snap.pending
    /\ snap.deleted \/ snap.reprov
    /\ To("HostPlatformConfiguration")
    /\ UNCHANGED <<admin, hver, cfg, nver, api, req, seg, requests, dpu>>

\* HostPlatformConfiguration to BootingWithDiscoveryImage: a release goes on
\* to the admin network ...
BootedForRelease ==
    /\ In("HostPlatformConfiguration") /\ snap.deleted
    /\ To("SwitchToAdminNetwork")
    /\ UNCHANGED <<admin, hver, cfg, nver, api, req, seg, requests, dpu>>

\* ... reprovisioning ends in Ready, a custom iPXE boot in the reboot.
Reprovisioned ==
    /\ In("HostPlatformConfiguration") /\ reprov
    /\ reprov' = FALSE
    /\ \E s \in {"Ready", "WaitingForRebootToReady"} : To(s)
    /\ UNCHANGED <<admin, hver, cfg, nver, api, req, seg, reset, left, dpu>>

\* Mutant: the configuration of an instance that is to be released is not
\* written any more.
PromoteConfigIfLive ==
    /\ In("UpdateWaitingForNetworkSegmentToBeReady") /\ inst = "live"
    /\ \A g \in SegmentsOf(req.new) : seg[g] = "live"
    /\ cfg' = req.new
    /\ nver' = nver + 1
    /\ To("UpdateWaitingForConfigSynced")
    /\ UNCHANGED <<admin, hver, api, req, seg, requests, dpu>>

PromoteConfig ==
    /\ In("UpdateWaitingForNetworkSegmentToBeReady")
    /\ \A g \in SegmentsOf(req.new) : seg[g] = "live"
    /\ cfg' = req.new
    /\ nver' = nver + 1
    /\ To("UpdateWaitingForConfigSynced")
    /\ UNCHANGED <<admin, hver, api, req, seg, requests, dpu>>

\* Mutant: only the instance's version is looked at.
UpdateSyncedInstanceOnly == snap.instanceSynced

\* The receipts of all DPUs, also of those that lose their interface: one
\* that failed to go back to the admin network acknowledges nothing.
UpdateSynced == snap.hostSynced /\ snap.instanceSynced

ConfigSynced ==
    /\ In("UpdateWaitingForConfigSynced") /\ UpdateSynced
    /\ To("UpdateReleaseOldResources")
    /\ UNCHANGED <<admin, hver, cfg, nver, api, req, seg, requests, dpu>>

\* Mutant: segments that both configurations use are released too.
ReleaseAllOldResources ==
    /\ In("UpdateReleaseOldResources") /\ UpdateSynced
    /\ Mark(SegmentsOf(req.old))
    /\ req' = NoRequest
    /\ To("Ready")
    /\ UNCHANGED <<admin, hver, cfg, nver, api, requests, dpu>>

\* Mutant: the request is dropped and nothing is released.
ReleaseNothing ==
    /\ In("UpdateReleaseOldResources") /\ UpdateSynced
    /\ req' = NoRequest
    /\ To("Ready")
    /\ UNCHANGED <<admin, hver, cfg, nver, api, seg, requests, dpu>>

ReleaseOldResources ==
    /\ In("UpdateReleaseOldResources") /\ UpdateSynced
    /\ Mark(SegmentsOf(req.old) \ SegmentsOf(req.new))
    /\ req' = NoRequest
    /\ To("Ready")
    /\ UNCHANGED <<admin, hver, cfg, nver, api, requests, dpu>>

\* Mutant: the host's version stays the same.
SwitchToAdminSameVersion ==
    /\ In("SwitchToAdminNetwork")
    /\ admin' = TRUE /\ UNCHANGED hver
    /\ To("WaitingForNetworkReconfig")
    /\ UNCHANGED <<cfg, nver, api, req, seg, requests, dpu>>

SwitchToAdminNetwork ==
    /\ In("SwitchToAdminNetwork")
    /\ admin' = TRUE /\ hver' = hver + 1
    /\ To("WaitingForNetworkReconfig")
    /\ UNCHANGED <<cfg, nver, api, req, seg, requests, dpu>>

\* Mutant: the configuration outlives the instance.
DeleteInstanceKeepsConfig ==
    /\ inst' = "none" /\ UNCHANGED cfg /\ req' = NoRequest
    /\ Mark(SegmentsOf(cfg))

\* instance::delete takes the pending request with the row; the segments
\* that are released are those of the current configuration.
DeleteInstance ==
    /\ inst' = "none" /\ cfg' = NoConfig /\ req' = NoRequest
    /\ Mark(SegmentsOf(cfg))

Terminate ==
    /\ In("WaitingForNetworkReconfig") /\ snap.hostSynced
    /\ DeleteInstance
    /\ To("Cleanup")
    /\ UNCHANGED <<admin, hver, nver, cver, upd, requests, dpu>>

\* Measuring, cleanup, validation: back to the pool of free hosts.
CleanedUp ==
    /\ In("Cleanup")
    /\ To("Available")
    /\ UNCHANGED <<admin, hver, cfg, nver, api, req, seg, requests, dpu>>

StartReset ==
    /\ snap.on /\ snap.reset /\ hs # "Reset"
    /\ reset' = FALSE
    /\ To("Reset")
    /\ UNCHANGED <<admin, hver, cfg, nver, api, req, seg, reprov, left, dpu>>

ResetToAdmin ==
    /\ In("Reset") /\ inst # "none" /\ ~admin
    /\ admin' = TRUE /\ hver' = hver + 1
    /\ To("Reset")
    /\ UNCHANGED <<cfg, nver, api, req, seg, requests, dpu>>

ResetDeletesInstance ==
    /\ In("Reset") /\ inst # "none" /\ admin /\ snap.hostSynced
    /\ DeleteInstance
    /\ To("Cleanup")
    /\ UNCHANGED <<admin, hver, nver, cver, upd, requests, dpu>>

ResetWithoutInstance ==
    /\ In("Reset") /\ inst = "none"
    /\ To("Cleanup")
    /\ UNCHANGED <<admin, hver, cfg, nver, api, req, seg, requests, dpu>>

\* Wait, DoNothing, an error or a lost process.
IterationEnds ==
    /\ snap.on
    /\ snap' = NoSnapshot
    /\ UNCHANGED <<host, api, req, seg, reset, left, dpu>>

Transition ==
    \/ StartAssignment \/ SwitchToTenant \/ NetworkConfigured \/ RebootToReady
    \/ StartUpdate \/ LeaveReady \/ BootedForRelease \/ Reprovisioned
    \/ PromoteConfig \/ ConfigSynced \/ ReleaseOldResources
    \/ SwitchToAdminNetwork \/ Terminate \/ CleanedUp
    \/ StartReset \/ ResetToAdmin \/ ResetDeletesInstance \/ ResetWithoutInstance

\* The segment controller deletes a released segment that nothing refers to.
SegmentDeleted(g) ==
    /\ seg[g] = "marked" /\ g \notin Referenced
    /\ seg' = [seg EXCEPT ![g] = "gone"]
    /\ UNCHANGED <<host, api, req, reset, left, snap, dpu>>

Next ==
    \/ \E c \in ConfigsFrom(NoConfig) : AllocateInstance(c)
    \/ \E u \in Updaters : UpdateRead(u) \/ UpdateAbort(u)
    \/ \E u \in Updaters : \E c \in ConfigsFrom(upd[u].cfg) : UpdateCommit(u, c)
    \/ ReleaseInstance \/ RequestReprovision \/ RequestReset
    \/ ForceDelete \/ ForceDeleteMarks \/ ForceDeleteInstance
    \/ \E d \in DPUs : Fetch(d) \/ Apply(d) \/ ApplyFails(d) \/ Report(d)
    \/ Load \/ Transition \/ IterationEnds
    \/ \E g \in Segments : SegmentDeleted(g)

Spec == Init /\ [][Next]_vars

(***************************************************************************)
(* Fairness: the controller takes up the host again and again and its      *)
(* iterations get somewhere; the agents poll, apply and report; a forced   *)
(* deletion that has begun is finished.  Users need not do anything.       *)
(***************************************************************************)
FairSpec ==
    /\ Spec
    /\ WF_vars(Load) /\ SF_vars(Transition) /\ WF_vars(IterationEnds)
    /\ WF_vars(ForceDeleteMarks) /\ WF_vars(ForceDeleteInstance)
    /\ \A d \in DPUs : WF_vars(Fetch(d)) /\ WF_vars(Apply(d)) /\ WF_vars(Report(d))

-----------------------------------------------------------------------------
(* Properties.                                                             *)

States == {"Available", "WaitingForNetworkSegmentToBeReady",
           "WaitingForNetworkConfig", "WaitingForRebootToReady", "Ready",
           "HostPlatformConfiguration", "UpdateWaitingForNetworkSegmentToBeReady",
           "UpdateWaitingForConfigSynced", "UpdateReleaseOldResources",
           "SwitchToAdminNetwork", "WaitingForNetworkReconfig", "Cleanup",
           "Reset", "ForceDeletion"}
Receipts == [h : Nat, n : Nat]

TypeOK ==
    /\ hs \in States /\ admin \in BOOLEAN /\ hver \in Nat
    /\ inst \in {"none", "live", "deleted"}
    /\ cfg \in Configs /\ nver \in Nat /\ cver \in Nat
    /\ (inst = "none") = (cfg = NoConfig)
    /\ req \in [old : Configs, new : Configs]
    /\ seg \in [Segments -> {"unborn", "live", "marked", "gone"}]
    /\ upd \in [Updaters -> [on : BOOLEAN, cver : Nat, cfg : Configs]]
    /\ reprov \in BOOLEAN /\ reset \in BOOLEAN
    /\ left \in [reprovision : Nat, reset : Nat, force : Nat, fail : Nat, all : Nat]
    /\ snap \in [on : BOOLEAN, deleted : BOOLEAN, pending : BOOLEAN,
                 reprov : BOOLEAN, reset : BOOLEAN, hostSynced : BOOLEAN,
                 instanceSynced : BOOLEAN]
    /\ conf \in [DPUs -> [h : Nat, n : Nat, seg : Segments \cup {None}]]
    /\ applied \in Configs
    /\ rep \in [DPUs -> Receipts] /\ obs \in [DPUs -> Receipts]

(***************************************************************************)
(* No DPU forwards a segment that has been released: the receipts that the *)
(* controller waits for (handler.rs:9848, 9459) really mean that the DPU   *)
(* has dropped it.  Forced deletion does not wait for the DPUs.            *)
(***************************************************************************)
ForwardedSegmentsLive ==
    hs # "ForceDeletion" =>
        \A d \in DPUs : applied[d] # None => seg[applied[d]] = "live"

(***************************************************************************)
(* A host that is free or on its way back to the pool is on the admin      *)
(* network: its DPUs forward nothing of the last tenant.                   *)
(***************************************************************************)
FreeHostIsOnAdmin ==
    hs \in {"Cleanup", "Available", "WaitingForNetworkSegmentToBeReady"} =>
        applied = NoConfig

(***************************************************************************)
(* Whatever a current or pending configuration refers to is there and not  *)
(* about to be deleted.                                                    *)
(***************************************************************************)
ReferencedSegmentsLive == \A g \in Referenced : seg[g] = "live"

(***************************************************************************)
(* Every generated segment that is not released belongs to a current or    *)
(* pending configuration: nobody else would ever release it.               *)
(***************************************************************************)
Orphan(g) == seg[g] = "live" /\ g \notin Referenced
NoOrphanSegment == \A g \in Segments : ~Orphan(g)

(***************************************************************************)
(* It is only the deletion of an instance whose update is pending that     *)
(* leaves a segment without an owner: whatever else happens, updates that  *)
(* overlap a release, a reset or a forced deletion hand every segment on   *)
(* or release it.                                                          *)
(***************************************************************************)
SegmentsAreHandedOn ==
    [][\A g \in Segments :
          Orphan(g)' => Orphan(g) \/ (Pending /\ inst' = "none")]_vars

(***************************************************************************)
(* A requested change of the network comes to its end.                     *)
(***************************************************************************)
UpdateSettles == Pending ~> ~Pending

(***************************************************************************)
(* An instance whose release was requested is removed.                     *)
(***************************************************************************)
ReleaseCompletes == inst = "deleted" ~> inst = "none"
=============================================================================
