---------------------------- MODULE PruneZombies ----------------------------
(***************************************************************************)
(* src/scripts/synology_prune_zombies.py (not --dry-run), taken as the     *)
(* code reads: the module docstring opened at line 8 is never closed, so   *)
(* the file does not parse as shipped.  main() reads iscsi_target.conf and *)
(* iscsi_mapping.conf, calls a target a zombie when its iqn contains       *)
(* "pvc-" and none of the uuids of the PV file, asks for confirmation,     *)
(* backs up both files, stops pkg-iscsi, writes back the kept target       *)
(* blocks and the mapping blocks whose tid is not a zombie's, and starts   *)
(* pkg-iscsi.                                                              *)
(*                                                                         *)
(* Files and the service are as in PruneOrphans.  TidVol[t] is the PV     *)
(* uuid that target t's iqn carries, or None for a non-CSI target; `pvs`   *)
(* is the set of uuids in the PV file.  run_ssh_command raises on a        *)
(* non-zero exit, so a failed cat or cp ends main() before any change.     *)
(* The stop and the start fall back to synoservice and only print when     *)
(* both fail; StopFails and WritesFail say whether the stop may fail and   *)
(* whether a write (echo | base64 -d | tee) may fail, which raises.        *)
(***************************************************************************)
EXTENDS FiniteSets

CONSTANTS
    Tids, Uuids, Vols,
    TidVol,      \* the PV uuid in each target's iqn, or None
    None,
    StopFails,
    WritesFail

ASSUME TidVol \in [Tids -> Vols \cup {None}]
ASSUME StopFails \in BOOLEAN /\ WritesFail \in BOOLEAN

Pairs == Tids \X Uuids

VARIABLES
    zpc,         \* where main() is
    zout,        \* how main() ended
    pvs,         \* valid_uuids, from the PV file
    svc, memT, memL, memM, diskT, diskL, diskM,
    readT,       \* the target blocks parsed
    readM,       \* the mapping blocks parsed
    zombies      \* zombie_tids

zvars == <<zpc, zout, readT, readM, zombies>>
nas == <<svc, memT, memL, memM, diskT, diskL, diskM>>

TypeOK ==
    /\ zpc \in {"connect", "read", "confirm", "backup", "stop", "targets",
                "mappings", "start", "done"}
    /\ zout \in {"running", "error", "clean", "aborted", "exception", "done"}
    /\ pvs \subseteq Vols /\ svc \in {"running", "stopped"}
    /\ memT \subseteq Tids /\ diskT \subseteq Tids /\ readT \subseteq Tids
    /\ memL \subseteq Uuids /\ diskL \subseteq Uuids
    /\ memM \subseteq Pairs /\ diskM \subseteq Pairs /\ readM \subseteq Pairs
    /\ zombies \subseteq Tids

\* Step 4: "pvc-" in iqn, and no valid uuid is a substring of it.
Zombie(t, p) == TidVol[t] # None /\ TidVol[t] \notin p

\* (mutant: step 5 keeps the mappings of the zombie tids too)
KeptMappings_NoFilter(m, z) == m

\* Step 5: the mapping blocks whose tid is not a zombie's.
KeptMappings(m, z) == {q \in m : q[1] \notin z}

\* The outcomes of a command that may fail.
Outcomes(fails) == IF fails THEN {TRUE, FALSE} ELSE {TRUE}

ZReturn(o) == zpc' = "done" /\ zout' = o

-----------------------------------------------------------------------------
Init ==
    /\ zpc = "connect" /\ zout = "running"
    /\ pvs \in SUBSET Vols
    /\ svc \in {"running", "stopped"}
    /\ diskT \in SUBSET Tids /\ diskL \in SUBSET Uuids
    /\ diskM \in SUBSET (diskT \X diskL)
    /\ memT = diskT /\ memL = diskL /\ memM = diskM
    /\ readT = {} /\ readM = {} /\ zombies = {}

\* Steps 1-2: the PV file and the credentials are checked (exit(1)), and
\* client.connect raises on failure.
Connect ==
    /\ zpc = "connect"
    /\ \/ zpc' = "read" /\ UNCHANGED zout
       \/ ZReturn("error")
    /\ UNCHANGED <<pvs, nas, readT, readM, zombies>>

\* Steps 3-4: the two sudo cats (a failure raises), parse, classify;
\* `if not zombie_tids: return`.
ReadConfs ==
    /\ zpc = "read"
    /\ \/ /\ readT' = diskT /\ readM' = diskM
          /\ zombies' = {t \in diskT : Zombie(t, pvs)}
          /\ IF zombies' = {} THEN ZReturn("clean")
             ELSE zpc' = "confirm" /\ UNCHANGED zout
       \/ ZReturn("exception") /\ UNCHANGED <<readT, readM, zombies>>
    /\ UNCHANGED <<pvs, nas>>

\* Step 5's prompt: anything but "y" aborts.
Confirm ==
    /\ zpc = "confirm"
    /\ \/ zpc' = "backup" /\ UNCHANGED zout
       \/ ZReturn("aborted")
    /\ UNCHANGED <<pvs, nas, readT, readM, zombies>>

\* Steps 6-7: the two cp backups; a failed cp raises.
Backup ==
    /\ zpc = "backup"
    /\ \/ zpc' = "stop" /\ UNCHANGED zout
       \/ ZReturn("exception")
    /\ UNCHANGED <<pvs, nas, readT, readM, zombies>>

\* systemctl stop, else synoservice --stop, waited for; failures only
\* print.  A running service writes its configuration back as it stops.
Stop ==
    /\ zpc = "stop"
    /\ \E ok \in Outcomes(StopFails) :
         IF ok /\ svc = "running"
         THEN svc' = "stopped"
              /\ diskT' = memT /\ diskL' = memL /\ diskM' = memM
         ELSE UNCHANGED <<svc, diskT, diskL, diskM>>
    /\ zpc' = "targets"
    /\ UNCHANGED <<zout, pvs, memT, memL, memM, readT, readM, zombies>>

\* write_remote_file(TARGET_CONF_PATH, new_target_conf): the kept blocks
\* as parsed at step 3, or a raise.
WriteTargets ==
    /\ zpc = "targets"
    /\ \E ok \in Outcomes(WritesFail) :
         IF ok THEN diskT' = readT \ zombies /\ zpc' = "mappings"
                    /\ UNCHANGED zout
         ELSE ZReturn("exception") /\ UNCHANGED diskT
    /\ UNCHANGED <<pvs, svc, memT, memL, memM, diskL, diskM, readT, readM,
                   zombies>>

\* write_remote_file(MAPPING_CONF_PATH, new_mapping_conf).
WriteMappings ==
    /\ zpc = "mappings"
    /\ \E ok \in Outcomes(WritesFail) :
         IF ok THEN diskM' = KeptMappings(readM, zombies) /\ zpc' = "start"
                    /\ UNCHANGED zout
         ELSE ZReturn("exception") /\ UNCHANGED diskM
    /\ UNCHANGED <<pvs, svc, memT, memL, memM, diskT, diskL, readT, readM,
                   zombies>>

\* systemctl start, else synoservice --start; failures only print.  A
\* stopped service loads the files; then "Done.".
Start ==
    /\ zpc = "start"
    /\ \/ svc = "stopped" /\ svc' = "running"
          /\ memT' = diskT /\ memL' = diskL /\ memM' = diskM
       \/ UNCHANGED <<svc, memT, memL, memM>>
    /\ ZReturn("done")
    /\ UNCHANGED <<pvs, diskT, diskL, diskM, readT, readM, zombies>>

Next ==
    \/ Connect \/ ReadConfs \/ Confirm \/ Backup \/ Stop \/ WriteTargets
    \/ WriteMappings \/ Start

Spec == Init /\ [][Next]_<<zvars, pvs, nas>>
=============================================================================
