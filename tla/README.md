# TLA+ models of the Synology iSCSI repair scripts

The scripts under `src/scripts/` keep a Synology NAS's iSCSI objects in line
with the Kubernetes volumes that use them. The objects are LUNs, targets
and the mappings between them. The scripts do this in two ways:

* **Through the DSM web API**: list the objects, classify them against the
  cluster's PersistentVolumes, and delete, create or map them.
  Scripts: `synology_cleanup.py`, `synology_rebind_luns.py`,
  `synology/rebind_luns.py`.
* **By editing the NAS's configuration files over SSH**. The files are
  `/usr/syno/etc/iscsi_target.conf`, `iscsi_lun.conf` and
  `iscsi_mapping.conf`. The steps are: stop `pkg-iscsi`, read a file, drop
  blocks, upload the result in base64 chunks, decode it, swap it in, and
  start the service. Scripts: `repair_iscsi_conf.py`,
  `synology_prune_orphans.py`, `synology_prune_zombies.py`,
  `synology/force_delete_target.py`. The SSH CLI scripts
  `synology/cleanup_orphans.py` and `synology/rebind_luns_ssh.py` drive the
  NAS's own tools instead of editing the files.

Every script runs once, in one thread, against one NAS. The concurrency
comes from the environment:

* **pkg-iscsi keeps its configuration in memory.** It writes that
  configuration back to the files when it stops and loads the files when it
  starts. This is why the scripts stop the service before editing.
* **The NAS's other clients change objects while a script runs.** These are
  the CSI driver and DSM.
* **Remote commands can be late.** Many are issued with paramiko's
  `exec_command` and never waited for, so they can still be running when
  the next command starts.
* **Remote commands fail silently.** Their exit status is often never read.

## Inventory

| Part | Source | State it changes | Operations | What is hard |
|---|---|---|---|---|
| Block filter | `synology_prune_orphans.py` `clean_conf_file` 104-161; the same loop in `repair_iscsi_conf.py` 74-110 | the list of output lines | one pass over the lines with a pending block; flush at each header and at the end | the last block (flush), a header-less prefix, a header that is itself a hit |
| Recovery repair | `repair_iscsi_conf.py` | the service, the config file, the backup, two temp files | connect, stop, read, filter, rm temps, chunk upload, decode, backup, swap, start | unawaited stop/rm/cp/chmod, unchecked stop and backup, early returns after the stop, leftovers of an earlier run |
| API cleanup | `synology_cleanup.py` | LUNs and targets on the NAS | fetch PVs, login, list, classify, confirm, delete targets, delete LUNs | a listing failure read as "empty", stale PV set, busy targets |
| Orphan pruning | `synology_prune_orphans.py` | three config files, the service | read three files, classify by the mapping file, stop, re-read, clean, upload, swap, start | orphans computed before the stop, unchecked cats, unawaited stop/rm/cp |
| Zombie pruning | `synology_prune_zombies.py` | target and mapping files | parse, backup, stop, write, start | does not parse as Python (the docstring opened at line 8 is never closed) |
| Forced target delete | `synology/force_delete_target.py` | target file, service | stop, sftp read, drop the block whose header contains the IQN, sftp write, start | substring match, in-place write, exception path leaves the service down |
| Rebind (API) | `synology_rebind_luns.py`, `synology/rebind_luns.py` | targets and mappings | delete recovery targets, map, delete + recreate | a target deleted and not recreated; list failures unchecked |
| Rebind / cleanup (CLI) | `synology/rebind_luns_ssh.py`, `synology/cleanup_orphans.py` | mappings, LUNs, targets | map_lun; unmap, lun delete, target delete | only some results checked |
| Audit, enable, listings | `synology/audit_luns.py`, `enable_targets.py`, `list_targets.py`, `synology_check_*.py` | none, except enable_targets (target enabled flag) | classification and reports | multi-key lines, prefix stripping |

Properties each part should have:

* **Block filter.** The output is exactly the kept blocks, verbatim and in
  order. The return value is `None` exactly when nothing was removed.
* **Repair.**
  * Only whole configurations are ever written to the config file.
  * The backup holds the pre-edit file.
  * The service is left running.
  * The original stays recoverable.
  * After "Done!" the service runs the file's configuration.
* **API cleanup.** Neither the LUN nor the target of a volume in use is
  ever deleted.
* **Pruning.** The three files stay consistent: every mapping names a
  target and a LUN that exist.

## Modules

| Module | Models | State | Actions |
|---|---|---|---|
| `BlockFilter` | `clean_conf_file` lines 104-161 | `lines`, `i`, `current_block`, `remove_block`, `new_lines`, `removed_count`, `done`, `result` | `ScanHeader` (header branch, including the flush of the previous block), `ScanBody`, `FlushLast` (the final flush and the return); also `synology_prune_zombies.py`'s `parse_target_conf` (the RECURSIVE `ParseFrom`) and its rebuild `RebuiltTargetConf` as operators over the same `lines` |
| `RepairConf` | `repair_iscsi_conf.py` `main` | `pc`, `outcome`, `svc`, `mem`, `disk`, `backup`, `tmpB64`, `tmpOut`, `content`, `newContent`, `chunk`, `pending` | one action per step of `main`, plus `RunPendingRm` and `RunPendingSwap` for unawaited commands that land late |
| `CleanupApi` | `synology_cleanup.py` | `pc`, `pvs`, `active_uuids`, `luns`, `targets`, `orphan_luns`, `orphan_targets`, `nasLuns`, `nasTargets` | `FetchPvs`, `Login`, `ListAndClassify`, `Confirm`, `DeleteTarget`, `TargetsDone`, `DeleteLun`, `LunsDone`; environment `ProvisionStart`, `ProvisionEnd` (the CSI driver creating a `Fresh` LUN and its target, then its PV) |
| `PruneOrphans` | `synology_prune_orphans.py` `main`, `get_orphans`, `clean_conf_file` + `upload_and_swap` | `pc`, `outcome`, `svc`, the service's three configs `memT/L/M`, the three files `diskT/L/M`, `orphanT`, `orphanU` | `Connect`, `FindOrphans`, `Stop`, `CleanTargets`, `CleanLuns`, `Start`; environment `NasMap` |
| `ForceDeleteTarget` | `synology/force_delete_target.py` | `pc`, `outcome`, `svc`, `mem`, `disk` (lines), `content`, `new_lines` | `Connect`, `Stop`, `Read`, `Filter`, `Write`, `Start`; the section loop is the RECURSIVE operator `Drop` |
| `RebindApi` | `synology_rebind_luns.py` | `pc`, `phase`, `cur`, `nas` (target records), `lunNames`, `todo`, `lun_map`, `free`, `failed`, `broken` (ghost: what needed fixing) | `Login`, `List`, `Pick`, `DeleteRecovery`, `MapLun`, `DeleteTarget`, `CreateTarget`, `Finish`; the API wrappers' effect on the NAS is the operators `delete_target`, `create_target`, `map_lun_to_target` |
| `CleanupOrphansSsh` | `synology/cleanup_orphans.py --execute` | `pc`, `vol` (volume life: none/provisioning/bound/orphan), `lun`, `tgt`, `mapped`, `pvs`, `lunsRead`, `tgtsRead`, `todo`, `cur`, `deleted`, `failed` | `FetchPvs`, `ReadConfs`, `Classify`, `Pick`, `Unmap`, `LunDelete`, `TargetDelete` (together `ScriptStep`); environment `ProvisionStart`, `ProvisionEnd` |
| `RebindLunsSsh` | `synology/rebind_luns_ssh.py` | `rpc`, `lun`, `tgt`, `mapped`, `lunsR`, `mapR`, `tmapR`, `orphans`, `reported`, `alarm` | `Connect`, `ReadConfs` (three reads, `Orphans`), `Repair` (map_lun, or a FAILED/SKIP line), `Summary` |
| `EnableTargets` | `synology/enable_targets.py` | `epc`, `tgt`, `enabled`, `order` (section order in the file), `tids`, `reported`, `alarm` | `Connect`, `ReadScan` (the parse loop is the RECURSIVE `Scan` over `Sections`), `Enable`, `Verify` |
| `SshRepairs` | the three CLI scripts above, run one after another against one NAS | `script`, `ran`, the NAS's objects, each script's locals | `Start`, `CleanupStep`, `RebindStep`, `EnableStep`, `Finish`, `Provision` |
| `RebindLuns` | `synology/rebind_luns.py` | `pc`, `nas` (target records), `todo`, `luns`, `mapped_lun_ids`, `free`, `reported` | `Login`, `List`, `Scan`, `Orphaned`, `Create`, `Finish`; the wrappers as `delete_target`, `create_target` (`map_lun_to_target` is never called) |
| `PruneZombies` | `synology_prune_zombies.py` `main` (as the code reads; the file has an unclosed docstring) | `zpc`, `zout`, `pvs` (uuids in the PV file), the service and three files as in `PruneOrphans`, `readT`, `readM`, `zombies` | `Connect`, `ReadConfs` (parse and `Zombie` classification), `Confirm`, `Backup`, `Stop`, `WriteTargets`, `WriteMappings` (`KeptMappings`), `Start` |
| `PruneSession` | `synology_prune_orphans.py` and `synology_prune_zombies.py` run one after the other against one NAS | `script`, `ran`, `pvs`, the NAS, each script's locals | `Start`, `OrphansStep`, `ZombiesStep`, `Finish`, `NasMap` |
| `ServiceConfig` | the abstract contract of a file-editing repair with pkg-iscsi (spec 4.3) | `svc`, `mem`, `disk` | `StopFlush`, `StartLoad`, `EditFile` |

### Composition

`SshRepairs` takes `CleanupOrphansSsh`, `RebindLunsSsh` and
`EnableTargets` as named `INSTANCE`s over shared NAS variables: `lun`,
`tgt`, `mapped` and `enabled`, plus the order of the sections in
`iscsi_target.conf`. Each script keeps its own locals. The operator starts
the scripts one at a time, in any order, and runs each once. A script's step
leaves the other scripts' locals unchanged. `Finish` resets the locals of
the script that ended, because they go away with its process. A failed
`lun delete` of the cleanup script counts as reported, since it prints a
`FAIL:` line. The CSI driver
provisions volumes between runs. With `Concurrent`, it can also provision
during a run.

`PruneSession` composes `PruneOrphans` and `PruneZombies` the same way.
They share the service and its three files. DSM may map a target to a LUN
before the first run (or at any time with `Concurrent`). The zombie script
reads the PV file `pvs`, fixed for the session.

### Refinement

`ServiceConfig` states what a file-editing repair promises. The service
flushes its configuration to the file when it stops and loads the file when
it starts. The repair changes the file only while the service is stopped,
by an edit `Edit(f)` of the file as it is at that moment.
`ForceDeleteTarget` instantiates it with `svc`, `mem` and `disk` as they are.
`Edit` is `Edits`, the prefixes of the filtered file, because the sftp write
is in place and may stop part-way. `ImplementsServiceConfig == SC!Spec` is
checked as a property. The script's own steps (connect, read, filter) are
stuttering steps of the contract. This holds because
`force_delete_target.py` waits for the stop's exit status and returns
before the read if it failed. With the check dropped (mutant
`Stop_NoCheck`), the write lands on a running service's file, and TLC finds
the contract broken.

Each `MC*.tla` fixes the constants with model values, and each `.cfg` picks
the question.

### Abstractions

**Configurations.**
* In `RepairConf`, a configuration is a sequence of distinct blocks.
  `Recovery` are the blocks with a line containing "recovery".
* In `PruneOrphans`, a file is the set of identifiers of its blocks.
* Both rely on `BlockFilter`. It checks, for every file of up to 5 lines,
  that the line loop removes exactly the blocks the identifiers name.
* `ForceDeleteTarget` keeps the lines. They are headers (the section named,
  or another) or body lines. Its loop is checked against a reference over
  all files of up to 4 lines.
* `PruneZombies` takes files as sets of blocks too. Its line-level parse
  and rebuild are checked in `BlockFilter`, with a "hit" body line standing
  for a zombie's `iqn=` line.

**Uploads.** One base64 chunk carries one block.
* A transfer that stops early leaves a prefix.
* An empty cleaned file gives no chunk at all.
* `PruneOrphans` takes `upload_and_swap` as one step with its three outcomes:
  * the cleaned file is installed;
  * it raises;
  * the unawaited `cp` fails.

  Its chunk-level behaviour is the same code as in `repair_iscsi_conf.py` and
  is checked there.

**The service.**
* `systemctl stop` writes the in-memory configuration to the file.
* `systemctl start` loads the file, or leaves a running service as it is.
* A failed stop or start changes nothing.
* The 5-second sleep after the stop is taken to be enough whenever the stop
  succeeds.

**Unawaited commands.**
* With `Overtake = FALSE`, such a command has finished before the next one
  runs.
* With `Overtake = TRUE`, it stays in `pending` and may run at any later
  point.

**Remote commands and API calls.**
* Every remote command and every API call may fail.
* A `cat` whose status is dropped may return empty output (`ReadsFail`).
* A list call whose `success` is never read may return an empty list
  (`ListsFail`).

**The environment.**
* The NAS may map a target to a LUN (`NasMap`).
* The CSI driver provisions a volume LUN-first (`ProvisionStart`), and the
  PV object appears later (`ProvisionEnd`).
* `Concurrent` says whether these steps may fall inside a run. Without it,
  they happen only before the run starts.

## Runs

| Run | Cfg | Expect | Checks | Shows |
|---|---|---|---|---|
| blockfilter_lun | MCBlockFilter.cfg | pass | TypeOK, FilterIsBlockwise, RebuildIsBlockwise | `clean_conf_file` equals the block-level reference (`ExpectedLines`, `ExpectedRemoved`) on all 5-line files over {plain header, hit header, plain body, hit body, indented body}; the zombie script's parse and rebuild write back exactly the stripped lines of the non-zombie blocks, dropping any preamble |
| repair | MCRepairConfRaces.cfg | pass | TypeOK | every step, with every command able to fail, the rm/cp landing late and an earlier run's leftovers in place, keeps the contents, the pending commands and the outcome well-formed; it is the run that fires the late `rm` and `cp` |
| repair_stale_service | MCRepairConfStaleService.cfg | violation | ServiceRunsFileConfig | a failed stop (line 49) goes unnoticed; "Done!" is printed with the old configuration still live, and a later stop writes it back |
| repair_rm_race | MCRepairConfRmRace.cfg | violation | WritesAreWhole | the unawaited rm (line 130) lets an earlier run's leftover base64 be decoded and installed |
| cleanup_provision_race | MCCleanupApi.cfg | violation | NoActiveLunDeleted | the CSI driver creates l2 after the PV fetch (line 132): the LUN is listed, classified orphaned, and deleted once its PV exists, because `delete_lun`'s recheck (line 115) uses the same stale `active_uuids` |
| cleanup_list_failure | MCCleanupApiListFailure.cfg | violation | NoActiveTargetDeleted | `list_luns` returns `[]` on failure (line 88): every CSI target is "orphaned" and deleted |
| prune_session | MCPruneSession.cfg | pass | FilesConsistentBetweenRuns | orphans and zombies pruned one after the other, in either order, from any consistent files and PV file, with every other command able to fail: between runs every mapping names a target and a LUN that exist |
| force_delete | MCForceDeleteTarget.cfg | pass | SectionFilterIsBlockwise, ServiceRunsFileConfig, ImplementsServiceConfig | the section loop drops exactly the sections whose name contains the IQN part; because this script checks its stop and start, a True return means the edit is live, and the script implements `ServiceConfig` |
| rebind_api | MCRebindApi.cfg | pass | NoSilentLoss | each LUN whose target lost its mapping ends mapped to a target of its name or is reported, whichever map/delete/create fails and in any list order |
| ssh_repairs | MCSshRepairs.cfg | pass | ServedOrReported | whatever order the three CLI scripts run in, with a volume possibly mid-provisioning, empty cats and failing commands: afterwards every bound volume with a LUN and a target is mapped and enabled, or a FAIL/FAILED/SKIP line or a run error was printed |
| ssh_provision_race | MCSshRepairsProvision.cfg | violation | NoLiveLunDeleted | a volume whose CreateVolume is under way when `cleanup_orphans.py` starts has its LUN and no PV; the LUN is classified orphaned (line 100) and deleted |
| rebind_luns_recovery | MCRebindLunsRecovery.cfg | violation | LunsServedOrReported | `synology/rebind_luns.py` counts a recovery target's LUN as mapped (line 144) and then deletes the target (line 149): the LUN ends with no target, and nothing is printed about it |

Each passing property has a mutant in `PROJECT.json`. A mutant is a
plausible bug in the definition the property depends on. Examples:

* the header branch does not reset `remove_block`;
* the last block is never flushed;
* the rm removes the wrong path;
* the zombie script keeps the zombies' mappings;
* the section loop does not reset on another header;
* the stop's status is not checked;
* the target is recreated without its LUN;
* the prefix is not stripped before the PV comparison;
* the enabled= scan never decides on the last section;
* `parse_target_conf` does not append the block it is reading when the
  input ends.

TLC finds each mutant's property violated.

Other disagreements came up while modelling that are not kept as runs:

* the no-op return at line 112 of `repair_iscsi_conf.py` leaves the
  service stopped;
* its backup cp is unchecked;
* `force_delete_target.py` writes in place;
* `synology_rebind_luns.py` reads a failed list as empty;
* `cleanup_orphans.py` counts a LUN as deleted although its target delete
  failed;
* `synology/rebind_luns.py` reads a failed target list as empty and
  creates a second target for LUNs that are still mapped;
* a concurrent mapping during `synology_prune_orphans.py` is left dangling;
* the backup cp of `repair_iscsi_conf.py` fails and the swap then
  overwrites the only copy of the configuration read;
* in `synology_prune_zombies.py`, a failed mapping-file write after the
  target file was written leaves mappings of deleted targets;
* its stop failures only print, so the running service later writes the
  zombies back;
* a silent stop failure in `synology_prune_orphans.py`, followed by a DSM
  mapping write after the run, leaves a mapping of a removed target.

They are recorded with their lines under "hazards" in `PROJECT.json`.

### Bounds

* **BlockFilter.**
  * Files have up to 5 lines over 4 line kinds.
  * This covers a header-less prefix, two or three blocks, a hit in the
    last block, and a hit header followed by a plain body.
  * For the zombie rebuild, it covers a zombie block first, in the middle
    and last, and two zombie lines in one block.
  * The indented body line, whose `strip()` is the plain one, shows that
    the rebuild writes stripped lines: kept blocks are not byte-for-byte,
    as spec 8 asks, once a line is indented or ends in "\r". A file with
    lines before its first header loses them. Both are recorded as a
    hazard at `synology_prune_zombies.py:84`.
* **RepairConf.**
  * Files have up to 3 blocks, drawn from two ordinary blocks and one
    recovery block.
  * Leftovers of an earlier run are none, a recovery-only file, or an
    ordinary one.
  * This is the smallest setting where a cleaned file differs from both
    the original and a leftover.
* **CleanupApi.**
  * 2 CSI LUNs with a target each, plus a foreign target.
  * The cluster may use any subset of the LUNs that exist.
  * In `cleanup_provision_race`, l2 and its target are created during the
    run (`Fresh`, `Concurrent`); in `cleanup_list_failure` nothing is.
* **PruneOrphans.**
  * 2 targets and 2 LUNs, with any consistent set of mappings.
  * This is enough for an orphan and a mapped object to exist side by side.
* **PruneSession.**
  * 3 targets: a non-CSI one and one for each of 2 PVs. 2 LUNs.
  * Any consistent files and any subset of the PVs in the PV file.
  * This covers a zombie, a live CSI target and a non-CSI target at once,
    a zombie that is also an orphan, and either script running first.
* **ForceDeleteTarget.**
  * Files have up to 4 lines over {named header, other header, body}.
  * This covers a header-less prefix, a named section between two others,
    and two named sections.
* **RebindApi.**
  * Two CSI targets and a recovery target.
  * Every mix of mapped, unmapped and LUN-less targets.
  * The recovery target may hold a LUN.
  * There are two ids for replacements, enough for both CSI targets to be
    recreated.
* **SshRepairs** (holds CleanupOrphansSsh, RebindLunsSsh, EnableTargets).
  * Three volumes, each in any stage of its life.
  * Each volume's LUN has any combination of target, mapping and enabled
    flag.
  * The target file's sections can come in any order.
  * This is enough for a bound, an orphaned and a provisioning volume at
    once, and for a disabled target to be the last section of the file.
* **RebindLuns.**
  * A CSI target and a recovery target.
  * Two LUNs, each held by any of the targets or by none.
  * Two ids for new targets.

Symmetry is used only over interchangeable model values:

* the ordinary blocks in RepairConf;
* tids and uuids, separately, in PruneOrphans;
* the volumes in SshRepairs. This stays sound with the section order as a
  state variable, because permuting the volumes permutes the sequence with
  them.

### Fairness

No run assumes fairness, and no liveness property is checked. The scripts
are single-threaded loops over finite lists, but not one of their remote
calls (paramiko `exec_command` reads, `requests` calls) sets a timeout, so
nothing in the code guarantees that `main` takes its next step: a NAS that
accepts a connection and never answers blocks it for good. This is listed
as a hazard at `synology_rebind_luns.py:43`. Every cfg says
`CHECK_DEADLOCK FALSE`, because the final state of `main` (or of the last
script of a session) has no successor.

`MCPruneSession.cfg` permutes the LUN uuids only; the tids differ in which
PV their iqn carries.

## Not modelled, and why

* **`audit_luns.py`, `synology_check_luns.py`, `list_targets.py`,
  `synology_check_targets.py`.** These are read-only reports. They print or
  save a classification and change nothing on the NAS, so they have no
  state for a model to guard. They share hazards that matter only for
  what an operator then does by hand: a non-CSI LUN reported as orphaned, a
  hard-coded `ACTIVE_LUNS` in `synology_check_luns.py`, and an unchecked
  `cat` in `audit_luns.py`. The same classification by prefix stripping is modelled
  where it deletes, in `CleanupOrphansSsh`.
* **Dead code.** `restart_iscsi_service` in `synology_prune_zombies.py` is
  never called.
* **The `--dry-run` branches.** They only print.
* **Line parsing of `key=value`.** In `get_orphans`, `"tid=" in line` and
  `split("=")[1]` are abstracted to one identifier per block. Mis-parsing
  of multi-key lines is a listed hazard with no property. It would need
  lines as strings.
* **Two runs of a script at once.** The spec leaves mutual exclusion to
  the operator.
* **A stop that flushes after the 5-second sleep.** `RepairConf`'s stop
  has taken effect or failed by the end of the sleep; a late flush racing
  the read and the swap is a listed hazard with no property.

## Left open

* **A refinement from `RepairConf` to `ServiceConfig`.** TLC would find it
  violated through the unchecked stop at line 49, which
  `repair_stale_service` already shows. Every run slot is in use.
* **A refinement from the prune scripts to `ServiceConfig`.** The
  unchecked stop of `synology_prune_orphans.py` (line 212) breaks it in
  the same way. The listed hazard records the trace.
* **Liveness.** Termination of the scripts would need the NAS to answer
  every call, which the code does not enforce (see Fairness).
