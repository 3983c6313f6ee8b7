---------------------------- MODULE PruneSession ----------------------------
(***************************************************************************)
(* The two file-editing prune scripts run by an operator one after the     *)
(* other, in either order, against one NAS: synology_prune_zombies.py      *)
(* drops the targets of PVs that are gone and their mappings,              *)
(* synology_prune_orphans.py drops the targets and LUNs no mapping names.  *)
(* They share the pkg-iscsi service and its three files; each keeps its    *)
(* own locals.  DSM maps targets to LUNs before the first run, or at any   *)
(* time if Concurrent.                                                     *)
(***************************************************************************)
EXTENDS FiniteSets

CONSTANTS Tids, Uuids, Vols, TidVol, None,
          Concurrent, ReadsFail, StopFails, WritesFail

VARIABLES
    script,     \* the script running, or "idle"
    ran,        \* the scripts run so far
    pvs,        \* the PV file given to prune_zombies
    \* the NAS
    svc, memT, memL, memM, diskT, diskL, diskM,
    \* synology_prune_orphans.py
    opc, oout, orphanT, orphanU,
    \* synology_prune_zombies.py
    zpc, zout, readT, readM, zombies

O == INSTANCE PruneOrphans WITH pc <- opc, outcome <- oout
Z == INSTANCE PruneZombies

Scripts == {"orphans", "zombies"}

nasVars == <<svc, memT, memL, memM, diskT, diskL, diskM>>
oVars == <<opc, oout, orphanT, orphanU>>
zVars == <<zpc, zout, readT, readM, zombies>>
vars == <<script, ran, pvs, nasVars, oVars, zVars>>

TypeOK ==
    /\ script \in Scripts \cup {"idle"} /\ ran \subseteq Scripts
    /\ O!TypeOK /\ Z!TypeOK

OInit(p, o, t, u) == p = "connect" /\ o = "running" /\ t = {} /\ u = {}
ZInit(p, o, t, m, z) == p = "connect" /\ o = "running" /\ t = {} /\ m = {}
                        /\ z = {}

-----------------------------------------------------------------------------
(* Any consistent set of files, loaded by the service or not.              *)
Init ==
    /\ script = "idle" /\ ran = {}
    /\ pvs \in SUBSET Vols
    /\ svc \in {"running", "stopped"}
    /\ diskT \in SUBSET Tids /\ diskL \in SUBSET Uuids
    /\ diskM \in SUBSET (diskT \X diskL)
    /\ memT = diskT /\ memL = diskL /\ memM = diskM
    /\ OInit(opc, oout, orphanT, orphanU)
    /\ ZInit(zpc, zout, readT, readM, zombies)

\* The operator starts a script not run yet.
Start ==
    /\ script = "idle"
    /\ \E s \in Scripts \ ran : script' = s /\ ran' = ran \cup {s}
    /\ UNCHANGED <<pvs, nasVars, oVars, zVars>>

OrphansStep ==
    /\ script = "orphans"
    /\ \/ O!Connect \/ O!FindOrphans \/ O!Stop \/ O!CleanTargets
       \/ O!CleanLuns \/ O!Start
    /\ UNCHANGED <<script, ran, pvs, zVars>>

ZombiesStep ==
    /\ script = "zombies" /\ Z!Next
    /\ UNCHANGED <<script, ran, oVars>>

\* main() has returned or raised; its locals go with its process.
Finish ==
    /\ \/ /\ script = "orphans" /\ opc = "done"
          /\ OInit(opc', oout', orphanT', orphanU') /\ UNCHANGED zVars
       \/ /\ script = "zombies" /\ zpc = "done"
          /\ ZInit(zpc', zout', readT', readM', zombies') /\ UNCHANGED oVars
    /\ script' = "idle"
    /\ UNCHANGED <<ran, pvs, nasVars>>

\* DSM maps a target to a LUN.
NasMap ==
    /\ Concurrent \/ ran = {}
    /\ O!NasMap
    /\ UNCHANGED <<script, ran, pvs, zVars>>

Next == Start \/ OrphansStep \/ ZombiesStep \/ Finish \/ NasMap

Spec == Init /\ [][Next]_vars

-----------------------------------------------------------------------------
(* Properties                                                               *)

(* Between the runs, whichever script ran first and whatever step of it     *)
(* failed, every mapping in iscsi_mapping.conf names a target and a LUN    *)
(* that exist.  (prune_zombies writes the target file before the mapping   *)
(* file, so inside its run the two disagree for one step.)                 *)
FilesConsistentBetweenRuns == script = "idle" => O!FilesConsistent
=============================================================================
