---------------------------- MODULE PruneOrphans ----------------------------
(***************************************************************************)
(* src/scripts/synology_prune_orphans.py: read the target, LUN and mapping *)
(* files, call every target whose tid and every LUN whose uuid no mapping  *)
(* names an orphan, stop pkg-iscsi, then for each of the target and LUN    *)
(* files re-read it, drop the orphan blocks and upload and swap the        *)
(* result, and start pkg-iscsi.                                            *)
(*                                                                         *)
(* A file is the set of identifiers of its blocks (targets: tids, LUNs:    *)
(* uuids, mappings: <<tid, uuid>> pairs); that clean_conf_file drops       *)
(* exactly the blocks of the given identifiers, and nothing else, is       *)
(* checked line by line in BlockFilter.  upload_and_swap is taken as one   *)
(* step with its three outcomes: the cleaned file is installed, a chunk    *)
(* or the decode fails and it raises, or the unawaited cp fails.  Its      *)
(* chunk-level races are those of repair_iscsi_conf.py (RepairConf).       *)
(*                                                                         *)
(* The NAS's pkg-iscsi keeps the configuration in memory and writes it     *)
(* back when it stops; while it runs, the DSM/CSI side may map a target to *)
(* a LUN, which it writes to the mapping file.  Concurrent says whether    *)
(* that may happen while the script runs or only before it starts.         *)
(* ReadsFail says whether a `sudo cat` may come back empty:                *)
(* run_ssh_command never looks at the exit status.                        *)
(***************************************************************************)
EXTENDS FiniteSets

CONSTANTS
    Tids,        \* target ids
    Uuids,       \* LUN uuids
    Concurrent,  \* the NAS may change its mappings while the script runs
    ReadsFail    \* a cat may return empty output

ASSUME Concurrent \in BOOLEAN /\ ReadsFail \in BOOLEAN

Pairs == Tids \X Uuids

VARIABLES
    pc,          \* where main() is
    outcome,     \* how main() ended
    svc,         \* pkg-iscsi: "running" or "stopped"
    memT, memL, memM,     \* the configuration the service holds
    diskT, diskL, diskM,  \* iscsi_target.conf, iscsi_lun.conf, iscsi_mapping.conf
    orphanT,     \* orphan_tids
    orphanU      \* orphan_uuids

vars == <<pc, outcome, svc, memT, memL, memM, diskT, diskL, diskM,
          orphanT, orphanU>>
mem == <<memT, memL, memM>>
disk == <<diskT, diskL, diskM>>

Steps == {"connect", "find", "stop", "targets", "luns", "start", "done"}

TypeOK ==
    /\ pc \in Steps
    /\ outcome \in {"running", "no_connection", "clean", "exception", "done"}
    /\ svc \in {"running", "stopped"}
    /\ memT \subseteq Tids /\ diskT \subseteq Tids /\ orphanT \subseteq Tids
    /\ memL \subseteq Uuids /\ diskL \subseteq Uuids /\ orphanU \subseteq Uuids
    /\ memM \subseteq Pairs /\ diskM \subseteq Pairs

\* Every mapping names a target and a LUN that exist.
Consistent(t, l, m) == \A p \in m : p[1] \in t /\ p[2] \in l

-----------------------------------------------------------------------------
(* Helpers                                                                  *)

\* run_ssh_command(client, "cat ...", sudo=True): stdout, whatever the
\* exit status.
CatResults(f) == IF ReadsFail THEN {f, {}} ELSE {f}

\* (mutant: the target side is checked against the mapped uuids)
OrphanTids_ByUuid(t, m) == t \ {p[2] : p \in m}

\* get_orphans: the tids / uuids of the files read that no mapping line
\* names.
OrphanTids(t, m) == t \ {p[1] : p \in m}
OrphanUuids(l, m) == l \ {p[2] : p \in m}

\* clean_conf_file followed by `if new_lines: upload_and_swap`, for a file f
\* that the re-read returned as `read`, dropping the blocks of `ids`: the
\* possible new contents of f and whether upload_and_swap returned or raised.
\* Nothing is uploaded when no block was removed (None) or when every block
\* was (an empty list).
Installs(f, read, ids) ==
    IF read \cap ids = {} \/ read \subseteq ids
    THEN {[ok |-> TRUE, file |-> f]}              \* None or []: no upload
    ELSE {[ok |-> TRUE, file |-> read \ ids],     \* swapped in
          [ok |-> TRUE, file |-> f],              \* the unawaited cp failed
          [ok |-> FALSE, file |-> f]}             \* a chunk or the decode failed

Return(o) == pc' = "done" /\ outcome' = o

-----------------------------------------------------------------------------
Init ==
    /\ pc = "connect"
    /\ outcome = "running"
    /\ svc \in {"running", "stopped"}
    /\ diskT \in SUBSET Tids
    /\ diskL \in SUBSET Uuids
    /\ diskM \in SUBSET (diskT \X diskL)
    /\ memT = diskT /\ memL = diskL /\ memM = diskM
    /\ orphanT = {} /\ orphanU = {}

\* client.connect, not guarded: a failure raises out of main().
Connect ==
    /\ pc = "connect"
    /\ \/ pc' = "find" /\ UNCHANGED outcome
       \/ Return("no_connection")
    /\ UNCHANGED <<svc, mem, disk, orphanT, orphanU>>

\* get_orphans, then `if not orphan_tids and not orphan_uuids: return`.
\* The three files are read while the service is still running.
FindOrphans ==
    /\ pc = "find"
    /\ \E t \in CatResults(diskT), l \in CatResults(diskL),
          m \in CatResults(diskM) :
           /\ orphanT' = OrphanTids(t, m)
           /\ orphanU' = OrphanUuids(l, m)
    /\ IF orphanT' = {} /\ orphanU' = {}
       THEN Return("clean")
       ELSE pc' = "stop" /\ UNCHANGED outcome
    /\ UNCHANGED <<svc, mem, disk>>

\* systemctl stop, not waited for, then sleep(5): a running service writes
\* its configuration back as it stops, or the stop failed.
Stop ==
    /\ pc = "stop"
    /\ \/ svc = "running" /\ svc' = "stopped"
          /\ diskT' = memT /\ diskL' = memL /\ diskM' = memM
       \/ UNCHANGED <<svc, disk>>
    /\ pc' = "targets"
    /\ UNCHANGED <<outcome, mem, orphanT, orphanU>>

\* `if orphan_tids:` clean_conf_file(TARGET_CONF_PATH, ...) re-reads the file,
\* and upload_and_swap if it removed a block.  A raise ends main().
CleanTargets ==
    /\ pc = "targets"
    /\ \E read \in CatResults(diskT) :
         \E r \in IF orphanT = {}
                  THEN {[ok |-> TRUE, file |-> diskT]}
                  ELSE Installs(diskT, read, orphanT) :
            /\ diskT' = r.file
            /\ IF r.ok THEN pc' = "luns" /\ UNCHANGED outcome
                       ELSE Return("exception")
    /\ UNCHANGED <<svc, mem, diskL, diskM, orphanT, orphanU>>

\* The same for LUN_CONF_PATH and orphan_uuids.
CleanLuns ==
    /\ pc = "luns"
    /\ \E read \in CatResults(diskL) :
         \E r \in IF orphanU = {}
                  THEN {[ok |-> TRUE, file |-> diskL]}
                  ELSE Installs(diskL, read, orphanU) :
            /\ diskL' = r.file
            /\ IF r.ok THEN pc' = "start" /\ UNCHANGED outcome
                       ELSE Return("exception")
    /\ UNCHANGED <<svc, mem, diskT, diskM, orphanT, orphanU>>

\* systemctl start, not waited for: a stopped service loads the files, or
\* the start failed; then "Done.".
Start ==
    /\ pc = "start"
    /\ \/ svc = "stopped" /\ svc' = "running"
          /\ memT' = diskT /\ memL' = diskL /\ memM' = diskM
       \/ UNCHANGED <<svc, mem>>
    /\ Return("done")
    /\ UNCHANGED <<disk, orphanT, orphanU>>

\* The NAS maps an existing target to an existing LUN and writes the
\* mapping file.
NasMap ==
    /\ svc = "running"
    /\ Concurrent \/ pc = "connect"
    /\ \E p \in (memT \X memL) \ memM :
         /\ memM' = memM \cup {p}
         /\ diskM' = memM'
    /\ UNCHANGED <<pc, outcome, svc, memT, memL, diskT, diskL, orphanT, orphanU>>

Next ==
    \/ Connect \/ FindOrphans \/ Stop \/ CleanTargets \/ CleanLuns \/ Start
    \/ NasMap

Spec == Init /\ [][Next]_vars

-----------------------------------------------------------------------------
(* Properties                                                               *)

(* The three files stay consistent: whatever main() has done so far, every  *)
(* mapping in iscsi_mapping.conf names a target in iscsi_target.conf and a  *)
(* LUN in iscsi_lun.conf.  The script only drops blocks it found unmapped,  *)
(* so a dangling mapping means it dropped a block that was in use.          *)
FilesConsistent == Consistent(diskT, diskL, diskM)
=============================================================================
