----------------------- MODULE InstanceNetworkProofs -----------------------
(***************************************************************************)
(* Theorems about InstanceNetwork, for every number of DPUs, segments,     *)
(* updates, disturbances and failures: type correctness, that no DPU       *)
(* forwards a released segment, that a free host forwards nothing, that    *)
(* referenced segments live, and that segments are handed on.              *)
(***************************************************************************)
EXTENDS InstanceNetwork, FiniteSetTheorems, TLAPS

-----------------------------------------------------------------------------
(* The inductive invariant.                                                *)

\* Versions start at 1; 0 acknowledges nothing.
Positive == hver >= 1 /\ (inst # "none" => nver >= 1)

Updating == {"UpdateWaitingForNetworkSegmentToBeReady", "UpdateWaitingForConfigSynced",
             "UpdateReleaseOldResources"}
Promoted == {"UpdateWaitingForConfigSynced", "UpdateReleaseOldResources"}
BeforeReady == {"Available", "WaitingForNetworkSegmentToBeReady", "WaitingForNetworkConfig",
                "Cleanup"}

\* A pending request is one of the present instance, and it starts from the
\* configuration that is in use.
RequestInv ==
    /\ Pending => inst # "none" /\ req.new # NoConfig
    /\ Pending => cfg = req.old \/ hs \in Promoted \cup {"Reset", "ForceDeletion"}
    /\ hs \in Promoted => cfg = req.new
    /\ hs \in Updating => Pending
    /\ hs \in BeforeReady => ~Pending

\* An update whose version still matches has read the present configuration
\* of an instance that was ready and has no other update.
UpdaterInv ==
    \A u \in Updaters : upd[u].on =>
        /\ upd[u].cver <= cver
        /\ upd[u].cver = cver /\ inst # "none" =>
              ~Pending /\ upd[u].cfg = cfg /\ hs \notin BeforeReady

\* The state of the host and its network.
AdminInv ==
    /\ hs \in {"Available", "WaitingForNetworkSegmentToBeReady", "WaitingForNetworkReconfig",
               "Cleanup"} => admin
    /\ hs \in {"WaitingForNetworkConfig", "WaitingForRebootToReady", "Ready",
               "HostPlatformConfiguration", "SwitchToAdminNetwork"} \cup Updating => ~admin
    /\ hs = "Cleanup" => inst = "none"
    /\ inst = "none" => /\ hs \in {"Available", "Cleanup", "Reset", "ForceDeletion"}
                        /\ admin \/ hs = "ForceDeletion"

ControlInv == Positive /\ RequestInv /\ UpdaterInv /\ AdminInv

\* What DPU d is to fetch, apply and acknowledge.
WantedN(d) == IF OnAdmin(d) THEN 0 ELSE nver
WantedSeg(d) == IF OnAdmin(d) THEN None ELSE cfg[d]
Current(x, d) == x.h = hver /\ x.n = WantedN(d)

\* Versions are not ahead of the host's and the instance's, and a DPU has the
\* instance's present version only if it has an interface.
VersionInv(x, d) ==
    /\ x.h <= hver /\ x.n <= nver
    /\ x.h = hver /\ x.n # 0 => ~admin /\ (x.n = nver => cfg[d] # None)

\* From fetching to the report: what is acknowledged has been applied.
PipelineInv(d) ==
    /\ Current(conf[d], d) => conf[d].seg = WantedSeg(d)
    /\ Current(rep[d], d) => Current(conf[d], d) /\ applied[d] = WantedSeg(d)
    /\ Current(obs[d], d) =>
          /\ Current(conf[d], d) /\ applied[d] = WantedSeg(d)
          /\ rep[d].h = 0 \/ Current(rep[d], d)

ReceiptInv(d) ==
    VersionInv(conf[d], d) /\ VersionInv(rep[d], d) /\ VersionInv(obs[d], d) /\ PipelineInv(d)

\* DPU d has what it is to have; it may fail to do it again.
Settled(d) ==
    /\ Current(conf[d], d) /\ conf[d].seg = WantedSeg(d) /\ applied[d] = WantedSeg(d)
    /\ rep[d].h = 0 \/ Current(rep[d], d)
    /\ obs[d].h = 0 \/ Current(obs[d], d)

AllSettled == \A d \in DPUs : Settled(d)

\* A snapshot tells the truth about what cannot be taken back.
SnapshotInv ==
    snap.on =>
        /\ hs # "ForceDeletion"
        /\ snap.deleted => inst = "deleted"
        /\ snap.pending => Pending
        /\ snap.hostSynced /\ (admin \/ snap.instanceSynced) => AllSettled

\* A host without an instance, and an instance that may be updated, have
\* DPUs that are settled.
SettledInv ==
    /\ hs \in {"Available", "WaitingForNetworkSegmentToBeReady", "Cleanup"} => AllSettled
    /\ inst = "none" => AllSettled
    /\ /\ hs \in {"WaitingForRebootToReady", "Ready", "HostPlatformConfiguration",
                  "UpdateWaitingForNetworkSegmentToBeReady"}
       /\ inst = "live" \/ Pending
       => AllSettled

\* DPU d has fetched and forwards segments of its own interface only.
OwnInv(d) ==
    /\ conf[d].seg \in {None, cfg[d], req.old[d]}
    /\ applied[d] \in {None, cfg[d], req.old[d]}

\* Forced deletion waits for no DPU.
DpuInv ==
    hs # "ForceDeletion" =>
        (\A d \in DPUs : ReceiptInv(d) /\ OwnInv(d)) /\ SettledInv

Inv == TypeOK /\ ControlInv /\ SnapshotInv /\ DpuInv /\ ReferencedSegmentsLive

-----------------------------------------------------------------------------
(* Types.                                                                  *)

LeftType == [reprovision : Nat, reset : Nat, force : Nat, fail : Nat, all : Nat]
SnapType == [on : BOOLEAN, deleted : BOOLEAN, pending : BOOLEAN, reprov : BOOLEAN,
             reset : BOOLEAN, hostSynced : BOOLEAN, instanceSynced : BOOLEAN]

\* A disturbance uses up one of the budget.
LEMMA DisturbType ==
    ASSUME left \in LeftType, NEW kind \in {"reprovision", "reset", "force", "fail"}, Disturb(kind)
    PROVE  left' \in LeftType
<1> DEFINE Kinds == {"reprovision", "reset", "force", "fail", "all"}
<1>1. LeftType = [Kinds -> Nat]
  BY DEF LeftType
<1>2. left' \in [Kinds -> Nat]
  BY <1>1 DEF Disturb
<1> QED
  BY <1>1, <1>2

\* Configurations refer to something only if they have a segment.
LEMMA NoConfigIsEmpty ==
    /\ NoConfig \in Configs
    /\ NoRequest \in [old : Configs, new : Configs]
    /\ \A c \in Configs : SegmentsOf(c) # {} => c # NoConfig
    /\ SegmentsOf(NoConfig) = {}
BY DEF NoConfig, NoRequest, Configs, SegmentsOf

\* The initial state is well typed.
LEMMA InitType ==
    ASSUME Init
    PROVE  TypeOK
<1>1. /\ NoConfig \in Configs /\ req \in [old : Configs, new : Configs] /\ applied \in Configs
      /\ upd \in [Updaters -> [on : BOOLEAN, cver : Nat, cfg : Configs]]
  BY NoConfigIsEmpty DEF Init, NotReading, NoConfig
<1>2. left \in LeftType /\ snap \in SnapType
  BY ConstantsAssumption DEF Init, LeftType, SnapType, NoSnapshot
<1>3. conf \in [DPUs -> [h : Nat, n : Nat, seg : Segments \cup {None}]]
  BY DEF Init
<1>4. rep \in [DPUs -> Receipts] /\ obs \in [DPUs -> Receipts]
  BY DEF Init, Receipts
<1> QED
  BY <1>1, <1>2, <1>3, <1>4 DEF Init, TypeOK, States, LeftType, SnapType

\* The steps of the API keep the types.
LEMMA ApiType ==
    ASSUME TypeOK, RequestInv,
           \/ \E c \in ConfigsFrom(NoConfig) : AllocateInstance(c)
           \/ \E u \in Updaters : UpdateRead(u) \/ UpdateAbort(u)
           \/ \E u \in Updaters : \E c \in ConfigsFrom(upd[u].cfg) : UpdateCommit(u, c)
           \/ ReleaseInstance \/ RequestReprovision \/ RequestReset
           \/ ForceDelete \/ ForceDeleteMarks \/ ForceDeleteInstance
    PROVE  TypeOK'
<1> USE NoConfigIsEmpty
<1>1. ASSUME NEW c \in ConfigsFrom(NoConfig), AllocateInstance(c) PROVE TypeOK'
  <2>1. c \in Configs /\ c # NoConfig
    BY DEF ConfigsFrom
  <2> QED
    BY <1>1, <2>1 DEF AllocateInstance, Generate, TypeOK, requests, dpu
<1>2. ASSUME NEW u \in Updaters, UpdateRead(u) \/ UpdateAbort(u) PROVE TypeOK'
  <2>1. upd' \in [Updaters -> [on : BOOLEAN, cver : Nat, cfg : Configs]]
    <3>1. NotReading \in [on : BOOLEAN, cver : Nat, cfg : Configs]
      BY DEF NotReading
    <3>2. [on |-> TRUE, cver |-> cver, cfg |-> cfg] \in [on : BOOLEAN, cver : Nat, cfg : Configs]
      BY DEF TypeOK
    <3>3. upd \in [Updaters -> [on : BOOLEAN, cver : Nat, cfg : Configs]]
      BY DEF TypeOK
    <3> QED
      BY <1>2, <3>1, <3>2, <3>3 DEF UpdateRead, UpdateAbort
  <2> QED
    BY <1>2, <2>1 DEF UpdateRead, UpdateAbort, TypeOK, host, dpu
<1>3. ASSUME NEW u \in Updaters, NEW c \in ConfigsFrom(upd[u].cfg), UpdateCommit(u, c) PROVE TypeOK'
  <2>1. upd' \in [Updaters -> [on : BOOLEAN, cver : Nat, cfg : Configs]]
    BY <1>3 DEF UpdateCommit, NotReading, TypeOK
  <2>2. req' \in [old : Configs, new : Configs]
    BY <1>3 DEF UpdateCommit, TypeOK, ConfigsFrom
  <2> QED
    BY <1>3, <2>1, <2>2 DEF UpdateCommit, Generate, TypeOK, host, dpu
<1>4. CASE ReleaseInstance \/ ForceDeleteMarks
  BY <1>4 DEF ReleaseInstance, ForceDeleteMarks, TypeOK, host, dpu
<1>5. CASE RequestReprovision
  BY <1>5, DisturbType DEF RequestReprovision, TypeOK, api, dpu, LeftType
<1>6. CASE RequestReset
  BY <1>6, DisturbType DEF RequestReset, TypeOK, api, host, dpu, LeftType
<1>7. CASE ForceDelete
  BY <1>7, DisturbType DEF ForceDelete, To, NoSnapshot, States, TypeOK, api, dpu, LeftType
<1>8. CASE ForceDeleteInstance
  BY <1>8 DEF ForceDeleteInstance, Mark, TypeOK, requests, dpu
<1> QED
  BY <1>1, <1>2, <1>3, <1>4, <1>5, <1>6, <1>7, <1>8

\* The steps of the DPUs keep the types.
LEMMA DpuType ==
    ASSUME TypeOK, NEW d \in DPUs, Fetch(d) \/ Apply(d) \/ ApplyFails(d) \/ Report(d)
    PROVE  TypeOK'
<1>1. CASE Fetch(d)
  <2>1. conf' \in [DPUs -> [h : Nat, n : Nat, seg : Segments \cup {None}]]
    BY <1>1 DEF Fetch, TypeOK, Configs
  <2> QED
    BY <1>1, <2>1 DEF Fetch, TypeOK, host, api
<1>2. CASE Apply(d)
  <2>1. applied' \in Configs /\ rep' \in [DPUs -> Receipts]
    BY <1>2 DEF Apply, TypeOK, Configs, Receipts
  <2> QED
    BY <1>2, <2>1 DEF Apply, TypeOK, host, api
<1>3. CASE ApplyFails(d)
  <2>1. applied' \in Configs /\ rep' \in [DPUs -> Receipts]
    BY <1>3 DEF ApplyFails, TypeOK, Configs, Receipts
  <2>2. left' \in LeftType
    BY <1>3, DisturbType DEF ApplyFails, TypeOK, LeftType
  <2> QED
    BY <1>3, <2>1, <2>2 DEF ApplyFails, TypeOK, host, api, LeftType
<1>4. CASE Report(d)
  BY <1>4 DEF Report, TypeOK, host, api
<1> QED
  BY <1>1, <1>2, <1>3, <1>4

\* The controllers' steps keep the types.
LEMMA ControllerType ==
    ASSUME TypeOK, RequestInv,
           Load \/ Transition \/ IterationEnds \/ \E g \in Segments : SegmentDeleted(g)
    PROVE  TypeOK'
<1> USE NoConfigIsEmpty
<1>1. CASE Load
  <2>1. snap' \in SnapType
    BY <1>1 DEF Load, SnapType, TypeOK, Pending, HostSynced, InstanceSynced
  <2> QED
    BY <1>1, <2>1 DEF Load, TypeOK, SnapType, host, api, dpu
<1>2. CASE IterationEnds
  BY <1>2 DEF IterationEnds, NoSnapshot, TypeOK, host, api, dpu
<1>3. ASSUME NEW g \in Segments, SegmentDeleted(g) PROVE TypeOK'
  BY <1>3 DEF SegmentDeleted, TypeOK, host, api, dpu
<1>4. CASE Transition
  <2>0. NoSnapshot \in SnapType
    BY DEF NoSnapshot, SnapType
  <2>1. CASE \/ StartAssignment \/ NetworkConfigured \/ RebootToReady \/ StartUpdate \/ LeaveReady
             \/ BootedForRelease \/ Reprovisioned \/ ConfigSynced \/ CleanedUp \/ StartReset
             \/ ResetWithoutInstance
    BY <2>0, <2>1 DEF StartAssignment, NetworkConfigured, RebootToReady, StartUpdate, LeaveReady,
         BootedForRelease, Reprovisioned, ConfigSynced, CleanedUp, StartReset, ResetWithoutInstance,
         To, States, TypeOK, SnapType, api, requests, dpu
  <2>2. CASE SwitchToTenant \/ SwitchToAdminNetwork \/ ResetToAdmin
    <3>1. /\ hver' = hver + 1 /\ admin' \in BOOLEAN /\ hs' \in States /\ snap' = NoSnapshot
          /\ UNCHANGED <<cfg, nver, api, req, seg, requests, dpu>>
      BY <2>2 DEF SwitchToTenant, SwitchToAdminNetwork, ResetToAdmin, To, States
    <3> QED
      BY <2>0, <3>1 DEF TypeOK, SnapType, api, requests, dpu
  <2>3. CASE PromoteConfig
    <3>1. inst # "none" /\ req.new # NoConfig
      BY <2>3 DEF PromoteConfig, In, RequestInv, Updating
    <3> QED
      BY <2>0, <2>3, <3>1 DEF PromoteConfig, To, States, TypeOK, SnapType, api, requests, dpu
  <2>4. CASE ReleaseOldResources
    BY <2>0, <2>4 DEF ReleaseOldResources, Mark, To, States, TypeOK, SnapType, api, requests, dpu
  <2>5. CASE Terminate \/ ResetDeletesInstance
    BY <2>0, <2>5 DEF Terminate, ResetDeletesInstance, DeleteInstance, Mark, To, States, TypeOK,
         SnapType, requests, dpu
  <2> QED
    BY <1>4, <2>1, <2>2, <2>3, <2>4, <2>5 DEF Transition
<1> QED
  BY <1>1, <1>2, <1>3, <1>4

-----------------------------------------------------------------------------
(* Requests, updates and the states of the host.                           *)

\* Most steps leave the instance and the host's state alone.
LEMMA ControlFrame ==
    ASSUME ControlInv, UNCHANGED <<hs, admin, hver, inst, cfg, nver, cver, req, upd>>
    PROVE  ControlInv'
BY DEF ControlInv, Positive, RequestInv, UpdaterInv, AdminInv, Pending

\* The steps of the API.
LEMMA ApiKeepsControl ==
    ASSUME TypeOK, ControlInv,
           \/ \E c \in ConfigsFrom(NoConfig) : AllocateInstance(c)
           \/ \E u \in Updaters : UpdateRead(u) \/ UpdateAbort(u)
           \/ \E u \in Updaters : \E c \in ConfigsFrom(upd[u].cfg) : UpdateCommit(u, c)
           \/ ReleaseInstance \/ RequestReprovision \/ RequestReset
           \/ ForceDelete \/ ForceDeleteMarks \/ ForceDeleteInstance
    PROVE  ControlInv'
<1> USE DEF ControlInv, Positive, AdminInv, Pending
<1>1. ASSUME NEW c \in ConfigsFrom(NoConfig), AllocateInstance(c) PROVE ControlInv'
  <2>1. UpdaterInv'
    BY <1>1 DEF AllocateInstance, UpdaterInv, TypeOK
  <2>2. RequestInv'
    BY <1>1 DEF AllocateInstance, RequestInv, Updating, Promoted, BeforeReady
  <2> QED
    BY <1>1, <2>1, <2>2 DEF AllocateInstance, Updating, TypeOK
<1>2. ASSUME NEW u \in Updaters, UpdateRead(u) PROVE ControlInv'
  <2>1. UpdaterInv'
    BY <1>2 DEF UpdateRead, UpdaterInv, TypeOK, host, BeforeReady
  <2>2. RequestInv'
    BY <1>2 DEF UpdateRead, RequestInv, host
  <2> QED
    BY <1>2, <2>1, <2>2 DEF UpdateRead, host
<1>3. ASSUME NEW u \in Updaters, UpdateAbort(u) PROVE ControlInv'
  <2>1. UpdaterInv'
    BY <1>3 DEF UpdateAbort, UpdaterInv, NotReading, TypeOK, host
  <2>2. RequestInv'
    BY <1>3 DEF UpdateAbort, RequestInv, host
  <2> QED
    BY <1>3, <2>1, <2>2 DEF UpdateAbort, host
<1>4. ASSUME NEW u \in Updaters, NEW c \in ConfigsFrom(upd[u].cfg), UpdateCommit(u, c)
      PROVE  ControlInv'
  <2>1. inst = "live" /\ ~Pending /\ upd[u].cfg = cfg /\ hs \notin BeforeReady /\ hs \notin Updating
    BY <1>4 DEF UpdateCommit, UpdateAccepted, UpdaterInv, RequestInv
  <2>2. c # NoConfig
    BY NoConfigIsEmpty DEF ConfigsFrom
  <2>3. req'.old = cfg /\ req'.new = c /\ UNCHANGED <<hs, cfg, inst>>
    BY <1>4, <2>1 DEF UpdateCommit, host
  <2>4. RequestInv'
    BY <2>1, <2>2, <2>3 DEF RequestInv, Updating, Promoted
  <2>5. UpdaterInv'
    BY <1>4 DEF UpdateCommit, UpdaterInv, NotReading, TypeOK
  <2> QED
    BY <1>4, <2>4, <2>5 DEF UpdateCommit, host
<1>5. CASE ReleaseInstance \/ ForceDeleteMarks
  BY <1>5 DEF ReleaseInstance, ForceDeleteMarks, RequestInv, UpdaterInv, host
<1>6. CASE RequestReprovision \/ RequestReset
  BY <1>6, ControlFrame DEF RequestReprovision, RequestReset, host, api
<1>7. CASE ForceDelete
  BY <1>7 DEF ForceDelete, To, RequestInv, UpdaterInv, Updating, Promoted, BeforeReady, api
<1>8. CASE ForceDeleteInstance
  BY <1>8 DEF ForceDeleteInstance, RequestInv, UpdaterInv, Updating, Promoted, BeforeReady
<1> QED
  BY <1>1, <1>2, <1>3, <1>4, <1>5, <1>6, <1>7, <1>8

\* The transitions of the machine controller.
LEMMA TransitionKeepsControl ==
    ASSUME TypeOK, ControlInv, SnapshotInv, Transition
    PROVE  ControlInv'
<1> USE DEF ControlInv, Positive, AdminInv, Pending, In, To, Updating, Promoted, BeforeReady
<1>1. CASE StartAssignment
  BY <1>1 DEF StartAssignment, RequestInv, UpdaterInv, api
<1>2. CASE SwitchToTenant
  BY <1>2 DEF SwitchToTenant, RequestInv, UpdaterInv, TypeOK, api
<1>3. CASE NetworkConfigured \/ RebootToReady
  BY <1>3 DEF NetworkConfigured, RebootToReady, RequestInv, UpdaterInv, api
<1>4. CASE StartUpdate
  BY <1>4 DEF StartUpdate, SnapshotInv, RequestInv, UpdaterInv, api
<1>5. CASE LeaveReady \/ BootedForRelease \/ Reprovisioned
  BY <1>5 DEF LeaveReady, BootedForRelease, Reprovisioned, RequestInv, UpdaterInv, api
<1>6. CASE PromoteConfig
  BY <1>6 DEF PromoteConfig, RequestInv, UpdaterInv, TypeOK, api
<1>7. CASE ConfigSynced
  BY <1>7 DEF ConfigSynced, RequestInv, UpdaterInv, api
<1>8. CASE ReleaseOldResources
  BY <1>8 DEF ReleaseOldResources, RequestInv, UpdaterInv, api
<1>9. CASE SwitchToAdminNetwork \/ ResetToAdmin
  BY <1>9 DEF SwitchToAdminNetwork, ResetToAdmin, RequestInv, UpdaterInv, TypeOK, api
<1>10. CASE Terminate \/ ResetDeletesInstance
  BY <1>10 DEF Terminate, ResetDeletesInstance, DeleteInstance, RequestInv, UpdaterInv
<1>11. CASE CleanedUp
  BY <1>11 DEF CleanedUp, RequestInv, UpdaterInv, api
<1>12. CASE StartReset
  BY <1>12 DEF StartReset, SnapshotInv, RequestInv, UpdaterInv, api
<1>13. CASE ResetWithoutInstance
  BY <1>13 DEF ResetWithoutInstance, RequestInv, UpdaterInv, api
<1> QED
  BY <1>1, <1>2, <1>3, <1>4, <1>5, <1>6, <1>7, <1>8, <1>9, <1>10, <1>11, <1>12, <1>13
     DEF Transition

-----------------------------------------------------------------------------
(* The DPUs and their receipts.                                            *)

\* In every state of the host a DPU is off the tenant's network for one of
\* two reasons.
LEMMA OnAdminIs ==
    ASSUME AdminInv, NEW d \in DPUs
    PROVE  OnAdmin(d) <=> admin \/ cfg[d] = None
BY DEF AdminInv, OnAdmin

\* What is known of a DPU depends on what it is to have and on its own state.
LEMMA SameWanted ==
    ASSUME AdminInv, AdminInv', UNCHANGED <<admin, hver, cfg, nver, dpu>>, NEW d \in DPUs
    PROVE  /\ ReceiptInv(d) => ReceiptInv(d)'
           /\ Settled(d) => Settled(d)'
<1>1. OnAdmin(d)' <=> OnAdmin(d)
  BY OnAdminIs, AdminInv' DEF OnAdmin, AdminInv
<1> QED
  BY <1>1 DEF dpu, ReceiptInv, VersionInv, PipelineInv, Settled, Current, WantedN, WantedSeg

\* On the admin network the instance does not matter.
LEMMA AdminWanted ==
    ASSUME TypeOK, admin, UNCHANGED <<admin, hver, dpu>>, nver' \in Nat, nver' >= nver, NEW d \in DPUs
    PROVE  /\ ReceiptInv(d) => ReceiptInv(d)'
           /\ Settled(d) => Settled(d)'
<1>1. OnAdmin(d)' /\ OnAdmin(d)
  BY DEF OnAdmin
<1>2. conf[d].n \in Nat /\ rep[d].n \in Nat /\ obs[d].n \in Nat /\ nver \in Nat
  BY DEF TypeOK, Receipts
<1>3. Settled(d) => Settled(d)'
  BY <1>1 DEF dpu, Settled, Current, WantedN, WantedSeg
<1>4. PipelineInv(d) => PipelineInv(d)'
  BY <1>1 DEF dpu, PipelineInv, Current, WantedN, WantedSeg
<1>5. /\ VersionInv(conf[d], d) => VersionInv(conf[d], d)'
      /\ VersionInv(rep[d], d) => VersionInv(rep[d], d)'
      /\ VersionInv(obs[d], d) => VersionInv(obs[d], d)'
  BY <1>2 DEF dpu, VersionInv
<1> QED
  BY <1>3, <1>4, <1>5 DEF ReceiptInv

\* Nobody has acknowledged a version of the host that is new.
LEMMA NewHostVersion ==
    ASSUME TypeOK, hver' = hver + 1, UNCHANGED <<nver, dpu>>, NEW d \in DPUs, ReceiptInv(d)
    PROVE  ReceiptInv(d)'
<1>1. /\ conf[d].h \in Nat /\ rep[d].h \in Nat /\ obs[d].h \in Nat /\ hver \in Nat
      /\ UNCHANGED <<conf[d], rep[d], obs[d], applied[d]>>
  BY DEF TypeOK, Receipts, dpu
<1>2. conf[d].h < hver' /\ rep[d].h < hver' /\ obs[d].h < hver'
  BY <1>1 DEF ReceiptInv, VersionInv
<1> QED
  BY <1>1, <1>2 DEF ReceiptInv, VersionInv, PipelineInv, Current

\* Nobody has acknowledged a promoted configuration, also not the return of
\* an interface to the admin network: all had settled on the old one.
LEMMA NewConfig ==
    ASSUME TypeOK, AdminInv, AdminInv', Positive, inst # "none", ~admin,
           UNCHANGED <<admin, hver, dpu>>, nver' = nver + 1, NEW d \in DPUs,
           Settled(d), ReceiptInv(d)
    PROVE  ReceiptInv(d)'
<1>1. /\ OnAdmin(d) <=> cfg[d] = None
      /\ OnAdmin(d)' <=> cfg'[d] = None
  BY OnAdminIs, AdminInv' DEF OnAdmin, AdminInv
<1>2. /\ conf[d].n \in Nat /\ rep[d].n \in Nat /\ obs[d].n \in Nat /\ nver \in Nat
      /\ conf[d].h \in Nat /\ rep[d].h \in Nat /\ obs[d].h \in Nat /\ hver \in Nat
      /\ nver >= 1 /\ hver >= 1
      /\ UNCHANGED <<conf[d], rep[d], obs[d], applied[d]>>
  BY DEF TypeOK, Receipts, Positive, dpu
<1>3. conf[d].n # nver' /\ rep[d].n # nver' /\ obs[d].n # nver'
  BY <1>2 DEF ReceiptInv, VersionInv
<1>4. VersionInv(conf[d], d)' /\ VersionInv(rep[d], d)' /\ VersionInv(obs[d], d)'
  BY <1>2, <1>3 DEF ReceiptInv, VersionInv
<1>5. CASE cfg'[d] # None
  BY <1>1, <1>2, <1>3, <1>4, <1>5 DEF ReceiptInv, PipelineInv, Current, WantedN
<1>6. CASE cfg'[d] = None /\ cfg[d] = None
  BY <1>1, <1>2, <1>4, <1>6 DEF ReceiptInv, PipelineInv, Current, WantedN, WantedSeg
<1>7. CASE cfg'[d] = None /\ cfg[d] # None
  <2>1. conf[d].n = nver /\ (rep[d].h = 0 \/ rep[d].n = nver) /\ (obs[d].h = 0 \/ obs[d].n = nver)
    BY <1>1, <1>7 DEF Settled, Current, WantedN
  <2>2. ~Current(conf[d], d)' /\ ~Current(rep[d], d)' /\ ~Current(obs[d], d)'
    BY <1>1, <1>2, <1>7, <2>1 DEF Current, WantedN
  <2> QED
    BY <1>4, <2>2 DEF ReceiptInv, PipelineInv
<1> QED
  BY <1>5, <1>6, <1>7

\* What a DPU does brings it nearer to what it is to have, or leaves a receipt
\* that acknowledges nothing.
LEMMA DpuStep ==
    ASSUME TypeOK, Positive, NEW d \in DPUs, NEW e \in DPUs, ReceiptInv(e),
           Fetch(d) \/ Apply(d) \/ ApplyFails(d) \/ Report(d)
    PROVE  /\ ReceiptInv(e)'
           /\ Settled(e) => Settled(e)'
           /\ OwnInv(e) => OwnInv(e)'
<1>0. /\ UNCHANGED <<hs, admin, hver, cfg, nver, req>>
      /\ WantedN(e)' = WantedN(e) /\ WantedSeg(e)' = WantedSeg(e)
  BY DEF Fetch, Apply, ApplyFails, Report, host, WantedN, WantedSeg, OnAdmin
<1>1. ASSUME UNCHANGED <<conf[e], applied[e], rep[e], obs[e]>>
      PROVE  /\ ReceiptInv(e)'
             /\ Settled(e) => Settled(e)'
             /\ OwnInv(e) => OwnInv(e)'
  BY <1>0, <1>1 DEF ReceiptInv, VersionInv, PipelineInv, Settled, OwnInv, Current
<1>2. CASE e # d
  BY <1>1, <1>2 DEF Fetch, Apply, ApplyFails, Report, TypeOK, Configs
<1>3. CASE e = d /\ Fetch(d)
  <2>1. /\ UNCHANGED <<applied, rep, obs>>
        /\ conf'[e].h = hver /\ conf'[e].n = WantedN(e) /\ conf'[e].seg = WantedSeg(e)
    BY <1>3 DEF Fetch, TypeOK, WantedN, WantedSeg
  <2>2. VersionInv(conf[e], e)'
    BY <1>0, <2>1 DEF VersionInv, WantedN, OnAdmin, TypeOK
  <2>3. VersionInv(rep[e], e)' /\ VersionInv(obs[e], e)'
    BY <1>0, <2>1 DEF ReceiptInv, VersionInv
  <2>4. WantedSeg(e) \in {None, cfg[e]}
    BY DEF WantedSeg
  <2> QED
    BY <1>0, <2>1, <2>2, <2>3, <2>4 DEF ReceiptInv, PipelineInv, Settled, OwnInv, Current
<1>4. CASE e = d /\ Apply(d)
  <2>1. /\ UNCHANGED <<conf, obs>> /\ applied'[e] = conf[e].seg
        /\ rep'[e].h = conf[e].h /\ rep'[e].n = conf[e].n
    BY <1>4 DEF Apply, TypeOK, Configs
  <2> QED
    BY <1>0, <2>1 DEF ReceiptInv, VersionInv, PipelineInv, Settled, OwnInv, Current
<1>5. CASE e = d /\ ApplyFails(d)
  <2>1. /\ UNCHANGED <<conf, obs>> /\ applied'[e] \in {applied[e], conf[e].seg}
        /\ rep'[e].h = 0 /\ rep'[e].n = 0
    BY <1>5 DEF ApplyFails, TypeOK, Configs
  <2>2. hver # 0 /\ hver \in Nat /\ nver \in Nat
    BY DEF Positive, TypeOK
  <2> QED
    BY <1>0, <2>1, <2>2 DEF ReceiptInv, VersionInv, PipelineInv, Settled, OwnInv, Current
<1>6. CASE e = d /\ Report(d)
  <2>1. UNCHANGED <<conf, applied, rep>> /\ obs'[e] = rep[e]
    BY <1>6 DEF Report, TypeOK
  <2> QED
    BY <1>0, <2>1 DEF ReceiptInv, VersionInv, PipelineInv, Settled, OwnInv, Current
<1> QED
  BY <1>2, <1>3, <1>4, <1>5, <1>6

\* What the controller takes for synchronised is settled.  A DPU without an
\* interface cannot have the instance's version, so equal numbers of DPUs are
\* equal sets of DPUs.
LEMMA SyncedIsSettled ==
    ASSUME TypeOK, AdminInv, \A d \in DPUs : ReceiptInv(d),
           HostSynced, admin \/ InstanceSynced
    PROVE  AllSettled
<1>1. ASSUME NEW d \in DPUs, Current(obs[d], d) PROVE Settled(d)
  BY <1>1 DEF ReceiptInv, PipelineInv, Settled
<1>2. CASE admin
  <2>1. ASSUME NEW d \in DPUs PROVE Current(obs[d], d)
    BY <1>2 DEF HostSynced, ReceiptInv, VersionInv, Current, WantedN, OnAdmin
  <2> QED
    BY <1>1, <2>1 DEF AllSettled
<1>3. CASE ~admin /\ InstanceSynced
  <2> DEFINE Telling == {d \in DPUs : obs[d].n # 0}
             Having == {d \in DPUs : cfg[d] # None}
  <2>1. Telling \subseteq Having
    BY <1>3 DEF InstanceSynced, HostSynced, ReceiptInv, VersionInv
  <2>2. IsFiniteSet(Having)
    BY FS_Subset, ConstantsAssumption
  <2>3. Cardinality(Telling) = Cardinality(Having)
    BY <1>3 DEF InstanceSynced
  <2>4. Telling = Having
    BY <2>1, <2>2, <2>3, FS_Subset
  <2>5. ASSUME NEW d \in DPUs PROVE Current(obs[d], d)
    <3>1. OnAdmin(d) <=> cfg[d] = None
      BY <1>3, OnAdminIs
    <3>2. d \in Telling <=> cfg[d] # None
      BY <2>4
    <3>3. obs[d].h = hver /\ (obs[d].n # 0 => obs[d].n = nver)
      BY <1>3 DEF InstanceSynced, HostSynced
    <3> QED
      BY <3>1, <3>2, <3>3 DEF Current, WantedN
  <2> QED
    BY <1>1, <2>5 DEF AllSettled
<1> QED
  BY <1>2, <1>3

\* Steps that change neither a configuration nor a DPU.
LEMMA QuietStep ==
    ASSUME ControlInv, ControlInv', DpuInv, hs # "ForceDeletion",
           UNCHANGED <<admin, hver, cfg, nver, req, dpu>>
    PROVE  /\ \A d \in DPUs : ReceiptInv(d)' /\ OwnInv(d)'
           /\ AllSettled => AllSettled'
<1>1. AdminInv /\ AdminInv'
  BY DEF ControlInv
<1>2. ASSUME NEW d \in DPUs
      PROVE  /\ ReceiptInv(d)' /\ OwnInv(d)'
             /\ Settled(d) => Settled(d)'
  BY <1>1, SameWanted DEF DpuInv, OwnInv, dpu
<1> QED
  BY <1>2 DEF AllSettled

\* The steps of the API.
LEMMA ApiKeepsDpus ==
    ASSUME TypeOK, ControlInv, ControlInv', SnapshotInv, DpuInv,
           \/ \E c \in ConfigsFrom(NoConfig) : AllocateInstance(c)
           \/ \E u \in Updaters : UpdateRead(u) \/ UpdateAbort(u)
           \/ \E u \in Updaters : \E c \in ConfigsFrom(upd[u].cfg) : UpdateCommit(u, c)
           \/ ReleaseInstance \/ RequestReprovision \/ RequestReset
           \/ ForceDelete \/ ForceDeleteMarks \/ ForceDeleteInstance
    PROVE  SnapshotInv' /\ DpuInv'
<1>1. ASSUME NEW c \in ConfigsFrom(NoConfig), AllocateInstance(c) PROVE SnapshotInv' /\ DpuInv'
  <2>1. /\ hs = "Available" /\ inst = "none" /\ admin /\ AllSettled
        /\ UNCHANGED <<hs, admin, hver, req, snap, dpu>> /\ nver' = nver + 1 /\ inst' = "live"
    BY <1>1 DEF AllocateInstance, ControlInv, AdminInv, DpuInv, SettledInv
  <2>2. nver \in Nat /\ nver' \in Nat /\ nver' >= nver
    BY <2>1 DEF TypeOK
  <2>3. ASSUME NEW d \in DPUs PROVE ReceiptInv(d)' /\ Settled(d)'
    BY <2>1, <2>2, AdminWanted DEF DpuInv, AllSettled
  <2>4. ASSUME NEW d \in DPUs PROVE OwnInv(d)'
    BY <2>1 DEF AllSettled, Settled, WantedSeg, OnAdmin, OwnInv, dpu
  <2>5. AllSettled'
    BY <2>3 DEF AllSettled
  <2>6. SnapshotInv'
    BY <2>1, <2>5 DEF SnapshotInv, Pending
  <2> QED
    BY <2>3, <2>4, <2>5, <2>6 DEF DpuInv, SettledInv
<1>2. ASSUME NEW u \in Updaters, UpdateRead(u) \/ UpdateAbort(u) PROVE SnapshotInv' /\ DpuInv'
  <2>1. UNCHANGED <<hs, admin, hver, cfg, nver, inst, req, snap, dpu>>
    BY <1>2 DEF UpdateRead, UpdateAbort, host
  <2> QED
    BY <2>1, QuietStep DEF SnapshotInv, DpuInv, SettledInv, Pending
<1>3. ASSUME NEW u \in Updaters, NEW c \in ConfigsFrom(upd[u].cfg), UpdateCommit(u, c)
      PROVE  SnapshotInv' /\ DpuInv'
  <2>1. /\ inst = "live" /\ ~Pending /\ upd[u].cfg = cfg /\ hs \notin BeforeReady
        /\ UNCHANGED <<hs, admin, hver, cfg, nver, inst, snap, dpu>> /\ req'.old = cfg
    BY <1>3 DEF UpdateCommit, UpdateAccepted, ControlInv, UpdaterInv, host
  <2>2. AdminInv /\ AdminInv'
    BY DEF ControlInv
  <2>3. CASE hs = "ForceDeletion"
    BY <2>1, <2>3 DEF SnapshotInv, DpuInv
  <2>4. CASE hs # "ForceDeletion"
    <3>1. ASSUME NEW d \in DPUs PROVE ReceiptInv(d)' /\ (Settled(d) => Settled(d)')
      BY <2>1, <2>2, <2>4, SameWanted DEF DpuInv
    <3>2. AllSettled => AllSettled'
      BY <3>1 DEF AllSettled
    <3>3. ASSUME NEW d \in DPUs PROVE OwnInv(d)'
      <4>1. req.old[d] = None
        BY <2>1 DEF Pending, NoRequest, NoConfig
      <4> QED
        BY <2>1, <2>4, <4>1 DEF DpuInv, OwnInv, dpu
    <3>4. SettledInv'
      BY <2>1, <2>4, <3>2 DEF DpuInv, SettledInv
    <3>5. SnapshotInv'
      BY <2>1, <3>2 DEF SnapshotInv
    <3> QED
      BY <3>1, <3>3, <3>4, <3>5 DEF DpuInv
  <2> QED
    BY <2>3, <2>4
<1>4. CASE ReleaseInstance
  <2>1. UNCHANGED <<hs, admin, hver, cfg, nver, req, snap, dpu>> /\ inst = "live" /\ inst' = "deleted"
    BY <1>4 DEF ReleaseInstance, host
  <2> QED
    BY <2>1, QuietStep DEF SnapshotInv, DpuInv, SettledInv, Pending
<1>5. CASE RequestReprovision \/ RequestReset
  <2>1. UNCHANGED <<hs, admin, hver, cfg, nver, inst, req, snap, dpu>>
    BY <1>5 DEF RequestReprovision, RequestReset, host, api
  <2> QED
    BY <2>1, QuietStep DEF SnapshotInv, DpuInv, SettledInv, Pending
<1>6. CASE ForceDelete
  BY <1>6 DEF ForceDelete, To, NoSnapshot, SnapshotInv, DpuInv
<1>7. CASE ForceDeleteMarks \/ ForceDeleteInstance
  BY <1>7 DEF ForceDeleteMarks, ForceDeleteInstance, SnapshotInv, DpuInv, host
<1> QED
  BY <1>1, <1>2, <1>3, <1>4, <1>5, <1>6, <1>7

\* The steps of the DPUs, and the controllers' steps that are no transitions.
LEMMA OthersKeepDpus ==
    ASSUME TypeOK, ControlInv, ControlInv', SnapshotInv, DpuInv,
           \/ \E d \in DPUs : Fetch(d) \/ Apply(d) \/ ApplyFails(d) \/ Report(d)
           \/ Load \/ IterationEnds \/ \E g \in Segments : SegmentDeleted(g)
    PROVE  SnapshotInv' /\ DpuInv'
<1>1. ASSUME NEW d \in DPUs, Fetch(d) \/ Apply(d) \/ ApplyFails(d) \/ Report(d)
      PROVE  SnapshotInv' /\ DpuInv'
  <2>1. UNCHANGED <<hs, admin, hver, cfg, nver, inst, req, snap>>
    BY <1>1 DEF Fetch, Apply, ApplyFails, Report, host, api
  <2>2. CASE hs # "ForceDeletion"
    <3>1. ASSUME NEW e \in DPUs PROVE ReceiptInv(e)' /\ OwnInv(e)' /\ (Settled(e) => Settled(e)')
      BY <1>1, <2>2, DpuStep DEF ControlInv, DpuInv
    <3>2. AllSettled => AllSettled'
      BY <3>1 DEF AllSettled
    <3> QED
      BY <2>1, <2>2, <3>1, <3>2 DEF SnapshotInv, DpuInv, SettledInv, Pending
  <2>3. CASE hs = "ForceDeletion"
    BY <2>1, <2>3 DEF SnapshotInv, DpuInv
  <2> QED
    BY <2>2, <2>3
<1>2. CASE Load
  <2>1. /\ UNCHANGED <<hs, admin, hver, cfg, nver, inst, req, dpu>> /\ hs # "ForceDeletion"
        /\ snap' = [on |-> TRUE, deleted |-> inst = "deleted", pending |-> Pending,
                    reprov |-> reprov, reset |-> reset, hostSynced |-> HostSynced,
                    instanceSynced |-> InstanceSynced]
    BY <1>2 DEF Load, host, api
  <2>2. HostSynced /\ (admin \/ InstanceSynced) => AllSettled
    BY <2>1, SyncedIsSettled DEF ControlInv, DpuInv
  <2>3. DpuInv' /\ (AllSettled => AllSettled')
    BY <2>1, QuietStep DEF DpuInv, SettledInv, Pending
  <2>4. SnapshotInv'
    BY <2>1, <2>2, <2>3 DEF SnapshotInv, Pending
  <2> QED
    BY <2>3, <2>4
<1>3. CASE IterationEnds
  <2>1. UNCHANGED <<hs, admin, hver, cfg, nver, inst, req, dpu>> /\ snap' = NoSnapshot
    BY <1>3 DEF IterationEnds, host, api
  <2> QED
    BY <2>1, QuietStep DEF SnapshotInv, NoSnapshot, DpuInv, SettledInv, Pending
<1>4. ASSUME NEW g \in Segments, SegmentDeleted(g) PROVE SnapshotInv' /\ DpuInv'
  <2>1. UNCHANGED <<hs, admin, hver, cfg, nver, inst, req, snap, dpu>>
    BY <1>4 DEF SegmentDeleted, host, api
  <2> QED
    BY <2>1, QuietStep DEF SnapshotInv, DpuInv, SettledInv, Pending
<1> QED
  BY <1>1, <1>2, <1>3, <1>4

\* The transitions of the machine controller.
LEMMA TransitionKeepsDpus ==
    ASSUME TypeOK, ControlInv, ControlInv', SnapshotInv, DpuInv, Transition
    PROVE  SnapshotInv' /\ DpuInv'
<1>0. snap.on /\ hs # "ForceDeletion" /\ snap' = NoSnapshot /\ hs' # "ForceDeletion"
  BY DEF Transition, In, To, SnapshotInv, StartAssignment, SwitchToTenant, NetworkConfigured,
         RebootToReady, StartUpdate, LeaveReady, BootedForRelease, Reprovisioned, PromoteConfig,
         ConfigSynced, ReleaseOldResources, SwitchToAdminNetwork, Terminate, CleanedUp, StartReset,
         ResetToAdmin, ResetDeletesInstance, ResetWithoutInstance
<1>1. SnapshotInv'
  BY <1>0 DEF SnapshotInv, NoSnapshot
<1>2. ASSUME SettledInv', \A d \in DPUs : ReceiptInv(d)' /\ OwnInv(d)' PROVE DpuInv'
  BY <1>2 DEF DpuInv
<1>3. (\A d \in DPUs : ReceiptInv(d) /\ OwnInv(d)) /\ SettledInv /\ AdminInv /\ AdminInv'
  BY <1>0 DEF DpuInv, ControlInv
<1>5. CASE \/ StartAssignment \/ NetworkConfigured \/ RebootToReady \/ StartUpdate \/ LeaveReady
           \/ BootedForRelease \/ Reprovisioned \/ ConfigSynced \/ CleanedUp \/ StartReset
           \/ ResetWithoutInstance
  <2>1. UNCHANGED <<admin, hver, cfg, nver, inst, req, dpu>>
    BY <1>5 DEF StartAssignment, NetworkConfigured, RebootToReady, StartUpdate, LeaveReady,
         BootedForRelease, Reprovisioned, ConfigSynced, CleanedUp, StartReset,
         ResetWithoutInstance, api
  <2>2. (\A d \in DPUs : ReceiptInv(d)' /\ OwnInv(d)') /\ (AllSettled => AllSettled')
    BY <1>0, <2>1, QuietStep
  <2>3. SettledInv'
    <3>1. CASE NetworkConfigured
      <4>1. snap.deleted => inst = "deleted" /\ ~Pending
        BY <1>0, <3>1 DEF NetworkConfigured, In, SnapshotInv, ControlInv, RequestInv, BeforeReady
      <4>2. ~snap.deleted => AllSettled
        BY <1>0, <3>1 DEF NetworkConfigured, SnapshotInv
      <4> QED
        BY <1>3, <2>1, <2>2, <3>1, <4>1, <4>2 DEF NetworkConfigured, To, SettledInv, Pending
    <3>2. CASE StartAssignment \/ CleanedUp
      BY <1>3, <2>1, <2>2, <3>2 DEF StartAssignment, CleanedUp, In, To, SettledInv
    <3>3. CASE RebootToReady \/ StartUpdate \/ LeaveReady \/ Reprovisioned
      BY <1>3, <2>1, <2>2, <3>3 DEF RebootToReady, StartUpdate, LeaveReady, Reprovisioned,
           In, To, SettledInv, Pending
    <3>4. CASE BootedForRelease \/ ConfigSynced \/ StartReset \/ ResetWithoutInstance
      BY <1>3, <2>1, <2>2, <3>4 DEF BootedForRelease, ConfigSynced, StartReset,
           ResetWithoutInstance, In, To, SettledInv, Pending
    <3> QED
      BY <1>5, <3>1, <3>2, <3>3, <3>4
  <2> QED
    BY <1>1, <1>2, <2>2, <2>3
<1>6. CASE SwitchToTenant \/ SwitchToAdminNetwork \/ ResetToAdmin
  <2>1. /\ hver' = hver + 1 /\ UNCHANGED <<cfg, nver, inst, req, dpu>>
        /\ hs' \in {"WaitingForNetworkConfig", "WaitingForNetworkReconfig", "Reset"}
    BY <1>6 DEF SwitchToTenant, SwitchToAdminNetwork, ResetToAdmin, To, api
  <2>2. inst # "none"
    BY <1>3, <1>6 DEF SwitchToTenant, SwitchToAdminNetwork, ResetToAdmin, In, AdminInv
  <2>3. ASSUME NEW d \in DPUs PROVE ReceiptInv(d)' /\ OwnInv(d)'
    BY <1>3, <2>1, NewHostVersion DEF OwnInv, dpu
  <2>4. SettledInv'
    BY <2>1, <2>2 DEF SettledInv
  <2> QED
    BY <1>1, <1>2, <2>3, <2>4
<1>7. CASE PromoteConfig
  <2>1. /\ hs = "UpdateWaitingForNetworkSegmentToBeReady" /\ hs' = "UpdateWaitingForConfigSynced"
        /\ cfg' = req.new /\ nver' = nver + 1 /\ UNCHANGED <<admin, hver, inst, req, dpu>>
    BY <1>7 DEF PromoteConfig, In, To, api
  <2>2. Pending /\ inst # "none" /\ ~admin /\ Positive
    BY <2>1 DEF ControlInv, RequestInv, AdminInv, Updating
  <2>3. AllSettled /\ cfg = req.old
    BY <1>3, <2>1, <2>2 DEF SettledInv, ControlInv, RequestInv, Promoted
  <2>4. ASSUME NEW d \in DPUs PROVE ReceiptInv(d)' /\ OwnInv(d)'
    <3>1. Settled(d) /\ ReceiptInv(d) /\ OwnInv(d)
      BY <1>3, <2>3 DEF AllSettled
    <3>2. ReceiptInv(d)'
      BY <1>3, <2>1, <2>2, <3>1, NewConfig
    <3>3. OwnInv(d)'
      BY <2>1, <2>3, <3>1 DEF OwnInv, dpu
    <3> QED
      BY <3>2, <3>3
  <2>5. SettledInv'
    BY <2>1, <2>2 DEF SettledInv
  <2> QED
    BY <1>1, <1>2, <2>4, <2>5
<1>8. CASE ReleaseOldResources
  <2>1. /\ hs = "UpdateReleaseOldResources" /\ hs' = "Ready" /\ snap.hostSynced /\ snap.instanceSynced
        /\ UNCHANGED <<admin, hver, cfg, nver, inst, dpu>>
    BY <1>8 DEF ReleaseOldResources, UpdateSynced, In, To, api
  <2>2. AllSettled /\ ~admin
    BY <1>0, <1>3, <2>1 DEF SnapshotInv, AdminInv, Updating
  <2>3. ASSUME NEW d \in DPUs PROVE ReceiptInv(d)' /\ Settled(d)' /\ OwnInv(d)'
    <3>1. ReceiptInv(d)' /\ Settled(d)'
      BY <1>3, <2>1, <2>2, SameWanted DEF AllSettled
    <3>2. OwnInv(d)'
      BY <2>1, <2>2 DEF AllSettled, Settled, WantedSeg, OwnInv, dpu
    <3> QED
      BY <3>1, <3>2
  <2> QED
    BY <1>1, <1>2, <2>3 DEF AllSettled, SettledInv
<1>9. CASE Terminate \/ ResetDeletesInstance
  <2>1. /\ admin /\ snap.hostSynced /\ hs' = "Cleanup" /\ UNCHANGED <<admin, hver, nver, dpu>>
    BY <1>3, <1>9 DEF Terminate, ResetDeletesInstance, In, To, AdminInv
  <2>2. AllSettled
    BY <1>0, <2>1 DEF SnapshotInv
  <2>3. ASSUME NEW d \in DPUs PROVE ReceiptInv(d)' /\ Settled(d)' /\ OwnInv(d)'
    <3>1. ReceiptInv(d)' /\ Settled(d)'
      BY <1>3, <2>1, <2>2, AdminWanted DEF AllSettled, TypeOK
    <3>2. OwnInv(d)'
      BY <2>1, <2>2 DEF AllSettled, Settled, WantedSeg, OnAdmin, OwnInv, dpu
    <3> QED
      BY <3>1, <3>2
  <2> QED
    BY <1>1, <1>2, <2>3 DEF AllSettled, SettledInv
<1> QED
  BY <1>5, <1>6, <1>7, <1>8, <1>9 DEF Transition

-----------------------------------------------------------------------------
(* Segments and the configurations that refer to them.                     *)

\* What a step has to do with the segments so that those it refers to live,
\* and nothing that lives loses its owner.
HandsOn(g) == Orphan(g)' => Orphan(g) \/ (Pending /\ inst' = "none")

\* Steps that touch neither.
LEMMA SegmentFrame ==
    ASSUME ReferencedSegmentsLive, UNCHANGED <<cfg, req, seg>>
    PROVE  ReferencedSegmentsLive' /\ \A g \in Segments : HandsOn(g)
BY DEF ReferencedSegmentsLive, HandsOn, Orphan, Referenced, SegmentsOf

\* A segment that is created belongs to the configuration it is created for.
LEMMA GenerateKeepsSegments ==
    ASSUME TypeOK, ReferencedSegmentsLive, NEW c \in Configs, Generate(c),
           \A g \in SegmentsOf(c) : seg[g] \in {"unborn", "live"},
           Referenced' = Referenced \cup SegmentsOf(c), Referenced \subseteq Segments
    PROVE  ReferencedSegmentsLive' /\ \A g \in Segments : HandsOn(g)
<1>1. SegmentsOf(c) \subseteq Segments
  BY DEF SegmentsOf, Configs
<1>2. \A g \in Segments : seg'[g] = IF g \in SegmentsOf(c) /\ seg[g] = "unborn"
                                    THEN "live" ELSE seg[g]
  BY DEF Generate
<1> QED
  BY <1>1, <1>2 DEF ReferencedSegmentsLive, HandsOn, Orphan

\* What is no longer referred to is marked.
LEMMA MarkKeepsSegments ==
    ASSUME TypeOK, ReferencedSegmentsLive, NEW S, Mark(S), Referenced \subseteq Segments,
           Referenced' \subseteq Referenced \ S,
           Referenced \ S \subseteq Referenced' \/ (Pending /\ inst' = "none")
    PROVE  ReferencedSegmentsLive' /\ \A g \in Segments : HandsOn(g)
<1>1. \A g \in Segments : seg'[g] = IF g \in S THEN "marked" ELSE seg[g]
  BY DEF Mark
<1> QED
  BY <1>1 DEF ReferencedSegmentsLive, HandsOn, Orphan

\* Configurations refer to segments.
LEMMA ReferencedType ==
    ASSUME TypeOK
    PROVE  Referenced \subseteq Segments
BY DEF TypeOK, Referenced, SegmentsOf, Configs

\* Every step keeps what is referred to, and hands on the rest.
LEMMA StepKeepsSegments ==
    ASSUME TypeOK, ControlInv, ReferencedSegmentsLive, Next
    PROVE  ReferencedSegmentsLive' /\ \A g \in Segments : HandsOn(g)
<1> DEFINE Goal == ReferencedSegmentsLive' /\ \A g \in Segments : HandsOn(g)
<1>0. Referenced \subseteq Segments
  BY ReferencedType
<1>1. ASSUME NEW c \in ConfigsFrom(NoConfig), AllocateInstance(c) PROVE Goal
  <2>1. c \in Configs /\ \A g \in SegmentsOf(c) : seg[g] = "unborn"
    BY DEF ConfigsFrom, SegmentsOf, NoConfig
  <2>2. cfg = NoConfig /\ req = NoRequest
    BY <1>1 DEF AllocateInstance, TypeOK, ControlInv, RequestInv, Pending
  <2>3. Referenced' = Referenced \cup SegmentsOf(c)
    BY <1>1, <2>2, NoConfigIsEmpty DEF AllocateInstance, Referenced, NoRequest
  <2> QED
    BY <1>0, <1>1, <2>1, <2>3, GenerateKeepsSegments DEF AllocateInstance
<1>2. ASSUME NEW u \in Updaters, NEW c \in ConfigsFrom(upd[u].cfg), UpdateCommit(u, c) PROVE Goal
  <2>1. c \in Configs
    BY DEF ConfigsFrom
  <2>2. req = NoRequest /\ upd[u].cfg = cfg
    BY <1>2 DEF UpdateCommit, UpdateAccepted, ControlInv, UpdaterInv, Pending
  <2>3. Referenced' = Referenced \cup SegmentsOf(c)
    BY <1>2, <2>2, NoConfigIsEmpty DEF UpdateCommit, Referenced, NoRequest, host
  <2> QED
    BY <1>0, <1>2, <2>1, <2>3, GenerateKeepsSegments DEF UpdateCommit
<1>3. CASE PromoteConfig
  <2>1. cfg = req.old /\ cfg' = req.new /\ UNCHANGED <<req, seg>>
    BY <1>3 DEF PromoteConfig, In, ControlInv, RequestInv, Updating, Promoted
  <2>2. Referenced' = Referenced
    BY <2>1 DEF Referenced
  <2> QED
    BY <2>1, <2>2 DEF ReferencedSegmentsLive, HandsOn, Orphan
<1>4. CASE ReleaseOldResources
  <2>1. cfg = req.new /\ cfg' = cfg /\ req' = NoRequest
        /\ Mark(SegmentsOf(req.old) \ SegmentsOf(req.new))
    BY <1>4 DEF ReleaseOldResources, In, ControlInv, RequestInv, Promoted
  <2>2. Referenced' = SegmentsOf(req.new) /\ Referenced = SegmentsOf(req.new) \cup SegmentsOf(req.old)
    BY <2>1, NoConfigIsEmpty DEF Referenced, NoRequest
  <2> QED
    BY <1>0, <2>1, <2>2, MarkKeepsSegments
<1>5. CASE Terminate \/ ResetDeletesInstance
  <2>1. inst' = "none" /\ cfg' = NoConfig /\ req' = NoRequest /\ Mark(SegmentsOf(cfg))
    BY <1>5 DEF Terminate, ResetDeletesInstance, DeleteInstance
  <2>2. Referenced' = {}
    BY <2>1, NoConfigIsEmpty DEF Referenced, NoRequest
  <2>3. ~Pending => Referenced = SegmentsOf(cfg)
    BY NoConfigIsEmpty DEF Pending, Referenced, NoRequest
  <2> QED
    BY <1>0, <2>1, <2>2, <2>3, MarkKeepsSegments
<1>6. CASE ForceDeleteInstance
  <2>1. cfg' = NoConfig /\ req' = NoRequest /\ Mark(Referenced)
    BY <1>6 DEF ForceDeleteInstance
  <2>2. Referenced' = {}
    BY <2>1, NoConfigIsEmpty DEF Referenced, NoRequest
  <2> QED
    BY <1>0, <2>1, <2>2, MarkKeepsSegments
<1>7. ASSUME NEW g \in Segments, SegmentDeleted(g) PROVE Goal
  <2>1. /\ UNCHANGED <<cfg, req>> /\ seg' = [seg EXCEPT ![g] = "gone"] /\ g \notin Referenced
    BY <1>7 DEF SegmentDeleted, host
  <2>2. Referenced' = Referenced
    BY <2>1 DEF Referenced
  <2> QED
    BY <1>0, <2>1, <2>2 DEF TypeOK, ReferencedSegmentsLive, HandsOn, Orphan
<1>8. CASE \/ \E u \in Updaters : UpdateRead(u) \/ UpdateAbort(u)
           \/ ReleaseInstance \/ RequestReprovision \/ RequestReset
           \/ ForceDelete \/ ForceDeleteMarks
           \/ \E d \in DPUs : Fetch(d) \/ Apply(d) \/ ApplyFails(d) \/ Report(d)
           \/ Load \/ IterationEnds
  BY <1>8, SegmentFrame
     DEF UpdateRead, UpdateAbort, ReleaseInstance, RequestReprovision, RequestReset, ForceDelete,
         ForceDeleteMarks, Fetch, Apply, ApplyFails, Report, Load, IterationEnds, host
<1>9. CASE \/ StartAssignment \/ SwitchToTenant \/ NetworkConfigured \/ RebootToReady \/ StartUpdate
           \/ LeaveReady \/ BootedForRelease \/ Reprovisioned \/ ConfigSynced
           \/ SwitchToAdminNetwork \/ CleanedUp \/ StartReset \/ ResetToAdmin \/ ResetWithoutInstance
  BY <1>9, SegmentFrame
     DEF StartAssignment, SwitchToTenant, NetworkConfigured, RebootToReady, StartUpdate,
         LeaveReady, BootedForRelease, Reprovisioned, ConfigSynced, SwitchToAdminNetwork, CleanedUp,
         StartReset, ResetToAdmin, ResetWithoutInstance
<1> QED
  BY <1>1, <1>2, <1>3, <1>4, <1>5, <1>6, <1>7, <1>8, <1>9 DEF Next, Transition

-----------------------------------------------------------------------------
(* The invariant and what follows from it.                                 *)

\* The invariant holds at first and is kept by every step.
LEMMA InvHolds == Spec => []Inv
<1>1. Init => Inv
  <2> SUFFICES ASSUME Init PROVE Inv
    OBVIOUS
  <2>1. TypeOK
    BY InitType
  <2>2. ControlInv
    BY DEF Init, ControlInv, Positive, RequestInv, UpdaterInv, AdminInv, Pending, NotReading,
           Updating, Promoted, BeforeReady
  <2>3. SnapshotInv
    BY DEF Init, SnapshotInv, NoSnapshot
  <2>4. ASSUME NEW d \in DPUs PROVE OnAdmin(d) /\ ReceiptInv(d) /\ OwnInv(d) /\ Settled(d)
    BY DEF Init, OnAdmin, ReceiptInv, VersionInv, PipelineInv, OwnInv, Settled, Current, WantedN,
           WantedSeg
  <2>5. DpuInv
    BY <2>4 DEF DpuInv, SettledInv, AllSettled
  <2>6. ReferencedSegmentsLive
    BY NoConfigIsEmpty DEF Init, ReferencedSegmentsLive, Referenced, NoRequest
  <2> QED
    BY <2>1, <2>2, <2>3, <2>5, <2>6 DEF Inv
<1>2. Inv /\ [Next]_vars => Inv'
  <2> SUFFICES ASSUME Inv, [Next]_vars PROVE Inv'
    OBVIOUS
  <2>0. TypeOK /\ ControlInv /\ RequestInv /\ SnapshotInv /\ DpuInv /\ ReferencedSegmentsLive
    BY DEF Inv, ControlInv
  <2>1. CASE Next
    <3>1. ReferencedSegmentsLive'
      BY <2>0, <2>1, StepKeepsSegments
    <3>2. CASE \/ \E c \in ConfigsFrom(NoConfig) : AllocateInstance(c)
               \/ \E u \in Updaters : UpdateRead(u) \/ UpdateAbort(u)
               \/ \E u \in Updaters : \E c \in ConfigsFrom(upd[u].cfg) : UpdateCommit(u, c)
               \/ ReleaseInstance \/ RequestReprovision \/ RequestReset
               \/ ForceDelete \/ ForceDeleteMarks \/ ForceDeleteInstance
      <4>1. TypeOK'
        BY <2>0, <3>2, ApiType
      <4>2. ControlInv'
        BY <2>0, <3>2, ApiKeepsControl
      <4>3. SnapshotInv' /\ DpuInv'
        BY <2>0, <3>2, <4>2, ApiKeepsDpus
      <4> QED
        BY <3>1, <4>1, <4>2, <4>3 DEF Inv
    <3>3. CASE Transition
      <4>1. TypeOK'
        BY <2>0, <3>3, ControllerType
      <4>2. ControlInv'
        BY <2>0, <3>3, TransitionKeepsControl
      <4>3. SnapshotInv' /\ DpuInv'
        BY <2>0, <3>3, <4>2, TransitionKeepsDpus
      <4> QED
        BY <3>1, <4>1, <4>2, <4>3 DEF Inv
    <3>4. CASE \/ \E d \in DPUs : Fetch(d) \/ Apply(d) \/ ApplyFails(d) \/ Report(d)
               \/ Load \/ IterationEnds \/ \E g \in Segments : SegmentDeleted(g)
      <4>1. TypeOK'
        BY <2>0, <3>4, DpuType, ControllerType
      <4>2. ControlInv'
        BY <2>0, <3>4, ControlFrame
           DEF Fetch, Apply, ApplyFails, Report, Load, IterationEnds, SegmentDeleted, host, api
      <4>3. SnapshotInv' /\ DpuInv'
        BY <2>0, <3>4, <4>2, OthersKeepDpus
      <4> QED
        BY <3>1, <4>1, <4>2, <4>3 DEF Inv
    <3> QED
      BY <2>1, <3>2, <3>3, <3>4 DEF Next
  <2>2. CASE UNCHANGED vars
    <3>1. UNCHANGED <<hs, admin, hver, inst, cfg, nver, cver, req, seg, upd, snap, dpu>>
      BY <2>2 DEF vars, dpu
    <3>2. TypeOK'
      BY <2>0, <2>2 DEF vars, TypeOK
    <3>3. ControlInv'
      BY <2>0, <3>1, ControlFrame
    <3>4. ReferencedSegmentsLive'
      BY <2>0, <3>1, SegmentFrame
    <3>5. SnapshotInv' /\ DpuInv'
      BY <2>0, <3>1, <3>3, QuietStep DEF SnapshotInv, DpuInv, SettledInv, Pending
    <3> QED
      BY <3>2, <3>3, <3>4, <3>5 DEF Inv
  <2> QED
    BY <2>1, <2>2
<1> QED
  BY <1>1, <1>2, PTL DEF Spec

\* Type correctness; an instance has a configuration, and a host without an
\* instance has none.
THEOREM TypeCorrect == Spec => []TypeOK
<1>1. Inv => TypeOK
  BY DEF Inv
<1> QED
  BY <1>1, InvHolds, PTL

\* Current and pending configurations refer to segments that live, whatever
\* updates, releases, resets and forced deletions overlap.
THEOREM ReferencesSafe == Spec => []ReferencedSegmentsLive
<1>1. Inv => ReferencedSegmentsLive
  BY DEF Inv
<1> QED
  BY <1>1, InvHolds, PTL

\* No DPU forwards a segment that has been released, however late and however
\* often its agent fetches, applies, fails and reports.
THEOREM ForwardingSafe == Spec => []ForwardedSegmentsLive
<1>1. Inv => ForwardedSegmentsLive
  <2> SUFFICES ASSUME Inv, hs # "ForceDeletion", NEW d \in DPUs, applied[d] # None
               PROVE  seg[applied[d]] = "live"
    BY DEF ForwardedSegmentsLive
  <2>1. applied[d] \in {cfg[d], req.old[d]}
    BY DEF Inv, DpuInv, OwnInv
  <2>2. applied[d] \in Referenced
    BY <2>1 DEF Referenced, SegmentsOf
  <2> QED
    BY <2>2 DEF Inv, ReferencedSegmentsLive
<1> QED
  BY <1>1, InvHolds, PTL

\* A host that is free, or on its way to or from the pool of free hosts,
\* forwards nothing of a tenant.
THEOREM FreeHostSafe == Spec => []FreeHostIsOnAdmin
<1>1. Inv => FreeHostIsOnAdmin
  <2> SUFFICES ASSUME Inv, hs \in {"Cleanup", "Available", "WaitingForNetworkSegmentToBeReady"}
               PROVE  applied = NoConfig
    BY DEF FreeHostIsOnAdmin
  <2>1. admin /\ AllSettled
    BY DEF Inv, ControlInv, AdminInv, DpuInv, SettledInv
  <2>2. \A d \in DPUs : applied[d] = None
    BY <2>1 DEF AllSettled, Settled, WantedSeg, OnAdmin
  <2> QED
    BY <2>2 DEF Inv, TypeOK, Configs, NoConfig
<1> QED
  BY <1>1, InvHolds, PTL

\* A segment loses its owner only when an instance is deleted whose update is
\* pending.
THEOREM HandedOn == Spec => SegmentsAreHandedOn
<1>1. Inv /\ [Next]_vars =>
        [\A g \in Segments : Orphan(g)' => Orphan(g) \/ (Pending /\ inst' = "none")]_vars
  BY StepKeepsSegments DEF Inv, HandsOn
<1> QED
  BY <1>1, InvHolds, PTL DEF Spec, SegmentsAreHandedOn
=============================================================================
