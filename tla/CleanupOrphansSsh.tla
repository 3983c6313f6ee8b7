-------------------------- MODULE CleanupOrphansSsh --------------------------
(***************************************************************************)
(* src/scripts/synology/cleanup_orphans.py --execute: list the cluster's   *)
(* PersistentVolumes, read iscsi_lun.conf and iscsi_target.conf, call a    *)
(* LUN orphaned when its name without "k8s-csi-" is no PV's name, and for  *)
(* each orphan: unmap it from the target of its name (a failure only       *)
(* warns), delete the LUN (a failure counts as failed), delete the target  *)
(* (a failure only warns), and count it deleted.                           *)
(*                                                                         *)
(* A volume v stands for PV "pvc-v", LUN "k8s-csi-pvc-v" and the target of *)
(* the same name.  The Synology CSI driver creates the LUN and target of a *)
(* volume first and the PV object afterwards; a volume whose PV is gone    *)
(* for good leaves an orphan.  Concurrent says whether volumes may be      *)
(* provisioned while the script runs (including one under way when it     *)
(* starts).  ReadsFail says whether a cat may come back empty: sudo_cmd    *)
(* returns the status, and main() drops it.                                *)
(***************************************************************************)
EXTENDS FiniteSets

CONSTANTS
    Vols,        \* volumes
    Concurrent,  \* the CSI driver may provision while the script runs
    ReadsFail,   \* a cat may return empty output
    None

ASSUME Concurrent \in BOOLEAN /\ ReadsFail \in BOOLEAN

VolStates == {"none", "provisioning", "bound", "orphan"}

VARIABLES
    pc,          \* where main() is
    vol,         \* vol[v]: where volume v is in its life
    lun,         \* lun[v]: the LUN of v exists on the NAS
    tgt,         \* tgt[v]: the target of v exists on the NAS
    mapped,      \* mapped[v]: the LUN of v is mapped to its target
    pvs,         \* k8s_pv_names
    lunsRead,    \* the LUNs in the iscsi_lun.conf read
    tgtsRead,    \* target_by_name
    todo,        \* orphans not yet handled
    cur,         \* the orphan in hand
    deleted,     \* orphans counted in `success`
    failed       \* orphans counted in `fail`

vars == <<pc, vol, lun, tgt, mapped, pvs, lunsRead, tgtsRead, todo, cur,
          deleted, failed>>
nas == <<lun, tgt, mapped>>

TypeOK ==
    /\ pc \in {"fetch", "read", "classify", "pick", "unmap", "lun_delete",
               "target_delete", "done", "exit"}
    /\ vol \in [Vols -> VolStates]
    /\ lun \in [Vols -> BOOLEAN] /\ tgt \in [Vols -> BOOLEAN]
    /\ mapped \in [Vols -> BOOLEAN]
    /\ pvs \subseteq Vols /\ lunsRead \subseteq Vols /\ tgtsRead \subseteq Vols
    /\ todo \subseteq Vols /\ cur \in Vols \cup {None}
    /\ deleted \subseteq Vols /\ failed \subseteq Vols

\* sudo_cmd(..., "cat ...") with the status dropped.
CatResults(s) == IF ReadsFail THEN {s, {}} ELSE {s}

\* (mutant: the PV name is compared with the LUN name, prefix and all)
Orphaned_NoStrip(ls, ps) == ls

\* name.removeprefix("k8s-csi-") not in k8s_pv_names
Orphaned(ls, ps) == ls \ ps

-----------------------------------------------------------------------------
Init ==
    /\ pc = "fetch"
    /\ vol \in [Vols -> VolStates]
    \* a volume has its LUN, target and mapping from the start of its
    \* provisioning on
    /\ lun = [v \in Vols |-> vol[v] # "none"]
    /\ tgt = lun
    /\ mapped = lun
    /\ pvs = {} /\ lunsRead = {} /\ tgtsRead = {} /\ todo = {}
    /\ cur = None /\ deleted = {} /\ failed = {}

\* kubectl get pv: the names of the PVs; check_output raises on failure.
\* A volume whose CreateVolume is still under way has no PV yet.
FetchPvs ==
    /\ pc = "fetch"
    /\ \/ pvs' = {v \in Vols : vol[v] = "bound"} /\ pc' = "read"
       \/ pc' = "exit" /\ UNCHANGED pvs
    /\ UNCHANGED <<vol, nas, lunsRead, tgtsRead, todo, cur, deleted, failed>>

\* get_ssh_client (a failed connect raises) and the three cats; the names
\* found in iscsi_target.conf give target_by_name.
ReadConfs ==
    /\ pc = "read"
    /\ \/ /\ lunsRead' \in CatResults({v \in Vols : lun[v]})
          /\ tgtsRead' \in CatResults({v \in Vols : tgt[v]})
          /\ pc' = "classify"
       \/ pc' = "exit" /\ UNCHANGED <<lunsRead, tgtsRead>>
    /\ UNCHANGED <<vol, nas, pvs, todo, cur, deleted, failed>>

\* The orphan list; `if not orphaned: return`.
Classify ==
    /\ pc = "classify"
    /\ todo' = Orphaned(lunsRead, pvs)
    /\ pc' = IF todo' = {} THEN "done" ELSE "pick"
    /\ UNCHANGED <<vol, nas, pvs, lunsRead, tgtsRead, cur, deleted, failed>>

\* `for name, uuid in sorted(orphaned)`, tid = target_by_name.get(name, "").
Pick ==
    /\ pc = "pick"
    /\ \/ \E v \in todo :
            /\ todo' = todo \ {v}
            /\ cur' = v
            /\ pc' = IF v \in tgtsRead THEN "unmap" ELSE "lun_delete"
       \/ todo = {} /\ pc' = "done" /\ UNCHANGED <<todo, cur>>
    /\ UNCHANGED <<vol, nas, pvs, lunsRead, tgtsRead, deleted, failed>>

\* synoiscsiwebapi target unmap_lun; a failure only warns.
Unmap ==
    /\ pc = "unmap"
    /\ mapped' \in {[mapped EXCEPT ![cur] = FALSE], mapped}
    /\ pc' = "lun_delete"
    /\ UNCHANGED <<vol, lun, tgt, pvs, lunsRead, tgtsRead, todo, cur, deleted,
                   failed>>

\* synoiscsiwebapi lun delete; a failure counts in `fail` and skips the
\* target.
LunDelete ==
    /\ pc = "lun_delete"
    /\ \/ /\ lun' = [lun EXCEPT ![cur] = FALSE]
          /\ pc' = IF cur \in tgtsRead THEN "target_delete" ELSE "pick"
          /\ deleted' = IF cur \in tgtsRead THEN deleted ELSE deleted \cup {cur}
          /\ UNCHANGED failed
       \/ /\ failed' = failed \cup {cur} /\ pc' = "pick"
          /\ UNCHANGED <<lun, deleted>>
    /\ UNCHANGED <<vol, tgt, mapped, pvs, lunsRead, tgtsRead, todo, cur>>

\* synoiscsiwebapi target delete; a failure only warns; then success += 1.
TargetDelete ==
    /\ pc = "target_delete"
    /\ tgt' \in {[tgt EXCEPT ![cur] = FALSE], tgt}
    /\ deleted' = deleted \cup {cur}
    /\ pc' = "pick"
    /\ UNCHANGED <<vol, lun, mapped, pvs, lunsRead, tgtsRead, todo, cur, failed>>

\* The CSI driver's CreateVolume: LUN, target and mapping first ...
ProvisionStart ==
    /\ Concurrent \/ pc = "fetch"
    /\ \E v \in Vols :
         /\ vol[v] = "none"
         /\ vol' = [vol EXCEPT ![v] = "provisioning"]
         /\ lun' = [lun EXCEPT ![v] = TRUE]
         /\ tgt' = [tgt EXCEPT ![v] = TRUE]
         /\ mapped' = [mapped EXCEPT ![v] = TRUE]
    /\ UNCHANGED <<pc, pvs, lunsRead, tgtsRead, todo, cur, deleted, failed>>

\* ... and the PV object once it returns.
ProvisionEnd ==
    /\ Concurrent \/ pc = "fetch"
    /\ \E v \in Vols :
         /\ vol[v] = "provisioning"
         /\ vol' = [vol EXCEPT ![v] = "bound"]
    /\ UNCHANGED <<pc, nas, pvs, lunsRead, tgtsRead, todo, cur, deleted, failed>>

\* The steps of main() itself, apart from the CSI driver's.
ScriptStep ==
    \/ FetchPvs \/ ReadConfs \/ Classify \/ Pick \/ Unmap \/ LunDelete
    \/ TargetDelete

Next == ScriptStep \/ ProvisionStart \/ ProvisionEnd

Spec == Init /\ [][Next]_vars

-----------------------------------------------------------------------------
(* Properties                                                               *)

(* No live LUN is deleted: the LUN of a volume that has a PV, or whose      *)
(* provisioning is under way, stays on the NAS.  Only volumes orphaned for  *)
(* good may lose their LUN.                                                 *)
NoLiveLunDeleted ==
    \A v \in Vols : vol[v] \in {"provisioning", "bound"} => lun[v]
=============================================================================
