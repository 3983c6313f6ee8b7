----------------------------- MODULE CleanupApi -----------------------------
(***************************************************************************)
(* The API cleanup path of src/scripts/synology_cleanup.py: fetch the      *)
(* Synology CSI volume handles from Kubernetes, log in to the DSM web API, *)
(* list LUNs and targets, classify every LUN whose uuid is not an active   *)
(* handle as orphaned and every "k8s-csi" target whose name is not the     *)
(* name of an active LUN as orphaned, then (after confirmation) delete the *)
(* orphan targets and then the orphan LUNs one by one.                     *)
(*                                                                         *)
(* A LUN is a model value standing for its uuid; a target is named after   *)
(* at most one LUN (the CSI driver names both alike), and Csi are the      *)
(* targets whose name starts with "k8s-csi".  The NAS holds Luns and       *)
(* Targets when the script starts, apart from the Fresh LUNs (and the      *)
(* targets named after them) that the CSI driver creates while the script  *)
(* runs if Concurrent holds: first the LUN and its target, then the PV.    *)
(***************************************************************************)
EXTENDS FiniteSets

CONSTANTS
    Luns,        \* LUNs on the NAS, by uuid
    Targets,     \* targets on the NAS
    Csi,         \* targets whose name starts with "k8s-csi"
    NamedAfter,  \* NamedAfter[t]: the LUN whose name target t bears, or NoLun
    NoLun,
    Failed,      \* get_k8s_active_pvs returned None
    Fresh,       \* LUNs the CSI driver creates during the run
    Concurrent   \* the CSI driver provisions while the script runs

ASSUME /\ Csi \subseteq Targets
       /\ NamedAfter \in [Targets -> Luns \cup {NoLun}]
       /\ Fresh \subseteq Luns /\ Concurrent \in BOOLEAN

VARIABLES
    pc,
    pvs,            \* the volume handles the cluster uses (its truth)
    active_uuids,   \* what get_k8s_active_pvs returned
    luns,           \* what list_luns returned
    targets,        \* what list_targets returned
    orphan_luns,    \* LUNs still to delete
    orphan_targets, \* targets still to delete
    nasLuns,        \* LUNs that exist on the NAS
    nasTargets      \* targets that exist on the NAS

vars == <<pc, pvs, active_uuids, luns, targets, orphan_luns, orphan_targets,
          nasLuns, nasTargets>>

Steps == {"pvs", "login", "list", "confirm", "targets", "luns", "done"}

TypeOK ==
    /\ pc \in Steps
    /\ pvs \subseteq Luns
    /\ active_uuids \in (SUBSET Luns) \cup {Failed}
    /\ luns \subseteq Luns
    /\ targets \subseteq Targets
    /\ orphan_luns \subseteq Luns
    /\ orphan_targets \subseteq Targets
    /\ nasLuns \subseteq Luns
    /\ nasTargets \subseteq Targets

-----------------------------------------------------------------------------
\* (mutant: the test compares the LUN's name, which equals no handle)
IsActive_ByName(l) == FALSE

\* `uuid in active_uuids`, the test both the classification and delete_lun
\* make.
IsActive(l) == l \in active_uuids

\* Step 3: LUNs whose uuid is no active handle, and the names of the others.
OrphanLuns(ls) == {l \in ls : ~IsActive(l)}
ActiveLunNames(ls) == ls \ OrphanLuns(ls)

\* Step 4: a k8s-csi target goes unless it bears the name of an active LUN
\* (a name of an orphan LUN, or of no listed LUN at all, both mark it).
OrphanTargets(ts, ls) ==
    {t \in ts : t \in Csi /\ NamedAfter[t] \notin ActiveLunNames(ls)}

Init ==
    /\ pc = "pvs"
    /\ pvs \in SUBSET (Luns \ Fresh)
    /\ active_uuids = {}
    /\ luns = {}
    /\ targets = {}
    /\ orphan_luns = {}
    /\ orphan_targets = {}
    /\ nasLuns = Luns \ Fresh
    /\ nasTargets = {t \in Targets : NamedAfter[t] \notin Fresh}

\* get_k8s_active_pvs: kubectl get pv; None on any failure aborts main().
FetchPvs ==
    /\ pc = "pvs"
    /\ \/ active_uuids' = pvs /\ pc' = "login"
       \/ active_uuids' = Failed /\ pc' = "done"
    /\ UNCHANGED <<pvs, luns, targets, orphan_luns, orphan_targets, nasLuns,
                   nasTargets>>

\* login; sys.exit(1) when it fails.
Login ==
    /\ pc = "login"
    /\ pc' \in {"list", "done"}
    /\ UNCHANGED <<pvs, active_uuids, luns, targets, orphan_luns,
                   orphan_targets, nasLuns, nasTargets>>

\* list_luns and list_targets each return [] when the API answers
\* success=false; the classification follows, and "Nothing to do." returns.
ListAndClassify ==
    /\ pc = "list"
    /\ luns' \in {nasLuns, {}}
    /\ targets' \in {nasTargets, {}}
    /\ orphan_luns' = OrphanLuns(luns')
    /\ orphan_targets' = OrphanTargets(targets', luns')
    /\ pc' = IF orphan_luns' = {} /\ orphan_targets' = {} THEN "done"
             ELSE "confirm"
    /\ UNCHANGED <<pvs, active_uuids, nasLuns, nasTargets>>

\* input("Type 'yes' to proceed: ").
Confirm ==
    /\ pc = "confirm"
    /\ pc' \in {"targets", "done"}
    /\ UNCHANGED <<pvs, active_uuids, luns, targets, orphan_luns,
                   orphan_targets, nasLuns, nasTargets>>

\* Phase 1, one delete_target call: success removes it; the busy code
\* 18990710 or any other error is counted as failed and the loop goes on.
DeleteTarget ==
    /\ pc = "targets"
    /\ \E t \in orphan_targets :
          /\ nasTargets' \in {nasTargets \ {t}, nasTargets}
          /\ orphan_targets' = orphan_targets \ {t}
    /\ UNCHANGED <<pc, pvs, active_uuids, luns, targets, orphan_luns, nasLuns>>

TargetsDone ==
    /\ pc = "targets"
    /\ orphan_targets = {}
    /\ pc' = "luns"
    /\ UNCHANGED <<pvs, active_uuids, luns, targets, orphan_luns,
                   orphan_targets, nasLuns, nasTargets>>

\* Phase 2, one delete_lun call: it refuses an active uuid ("CRITICAL ...
\* SKIPPING"), otherwise the API call succeeds or fails.
DeleteLun ==
    /\ pc = "luns"
    /\ \E l \in orphan_luns :
          /\ nasLuns' \in IF IsActive(l) THEN {nasLuns}
                          ELSE {nasLuns \ {l}, nasLuns}
          /\ orphan_luns' = orphan_luns \ {l}
    /\ UNCHANGED <<pc, pvs, active_uuids, luns, targets, orphan_targets,
                   nasTargets>>

LunsDone ==
    /\ pc = "luns"
    /\ orphan_luns = {}
    /\ pc' = "done"
    /\ UNCHANGED <<pvs, active_uuids, luns, targets, orphan_luns,
                   orphan_targets, nasLuns, nasTargets>>

\* The CSI driver's CreateVolume: the LUN and the target named after it ...
ProvisionStart ==
    /\ Concurrent
    /\ \E l \in Fresh \ nasLuns :
          /\ nasLuns' = nasLuns \cup {l}
          /\ nasTargets' = nasTargets \cup {t \in Targets : NamedAfter[t] = l}
    /\ UNCHANGED <<pc, pvs, active_uuids, luns, targets, orphan_luns,
                   orphan_targets>>

\* ... then the PV, whose volume handle is the LUN's uuid.
ProvisionEnd ==
    /\ Concurrent
    /\ \E l \in (Fresh \cap nasLuns) \ pvs : pvs' = pvs \cup {l}
    /\ UNCHANGED <<pc, active_uuids, luns, targets, orphan_luns,
                   orphan_targets, nasLuns, nasTargets>>

Next ==
    \/ ProvisionStart \/ ProvisionEnd
    \/ FetchPvs \/ Login \/ ListAndClassify \/ Confirm
    \/ DeleteTarget \/ TargetsDone \/ DeleteLun \/ LunsDone

Spec == Init /\ [][Next]_vars

-----------------------------------------------------------------------------
\* The LUN of a volume the cluster uses.
InUse(l) == l \in pvs

(* No LUN of a volume in use is deleted: whatever the API lists or fails to *)
(* list, a LUN whose uuid is an active CSI handle stays on the NAS.         *)
NoActiveLunDeleted ==
    \A l \in Luns : InUse(l) => l \in nasLuns

(* No target of a volume in use is deleted: a target named after a LUN      *)
(* whose uuid is an active handle stays on the NAS.                         *)
NoActiveTargetDeleted ==
    \A t \in Targets : NamedAfter[t] # NoLun /\ InUse(NamedAfter[t]) =>
                          t \in nasTargets
=============================================================================
