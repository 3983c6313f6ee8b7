----------------------------- MODULE RepairConf -----------------------------
(***************************************************************************)
(* The file-editing repair path of src/scripts/repair_iscsi_conf.py:       *)
(* stop pkg-iscsi, read iscsi_target.conf, drop every block with a         *)
(* "recovery" line, upload the result in base64 chunks to /tmp, decode it, *)
(* back up the original, copy the decoded file over it, start pkg-iscsi.   *)
(*                                                                         *)
(* A configuration is a sequence of blocks (model values); the filter is   *)
(* the block-level form of the line loop, whose equivalence with it is     *)
(* checked in BlockFilter.  One base64 chunk carries one block, so a       *)
(* transfer cut short leaves a prefix of the blocks and an empty cleaned   *)
(* file yields no chunk at all.                                            *)
(*                                                                         *)
(* The environment is the NAS: the pkg-iscsi service keeps a configuration *)
(* in memory and writes it back to the file when it stops (the code's      *)
(* "Stop Service to prevent overwrite on exit"), and loads the file when   *)
(* it starts.  Every remote command may fail.  Commands the script issues  *)
(* with exec_command and never waits for are either finished before the    *)
(* next command starts (Overtake = FALSE) or may still be pending and run  *)
(* at any later moment (Overtake = TRUE).                                  *)
(***************************************************************************)
EXTENDS Naturals, Sequences, SequencesExt

CONSTANTS
    Blocks,      \* blocks of iscsi_target.conf
    Recovery,    \* blocks with a line containing "recovery"
    MaxBlocks,   \* bound on the blocks of a file
    NoFile,      \* a path that does not exist
    Leftovers,   \* what an earlier run may have left in the backup and /tmp
    Overtake     \* unawaited commands may run after later ones

ASSUME /\ Recovery \subseteq Blocks
       /\ MaxBlocks \in Nat
       /\ Overtake \in BOOLEAN
       /\ NoFile \in Leftovers

\* The configurations a file can hold: no block twice.
Configs == {c \in SeqOf(Blocks, MaxBlocks) : IsInjective(c)}

\* What a file may end up holding once uploads are mixed with leftovers.
Contents == SeqOf(Blocks, 2 * MaxBlocks)

VARIABLES
    pc,          \* where main() is
    outcome,     \* how main() returned
    svc,         \* pkg-iscsi: "running" or "stopped"
    mem,         \* the configuration the service holds
    disk,        \* REMOTE_PATH /usr/syno/etc/iscsi_target.conf
    backup,      \* BACKUP_PATH ...conf.bak_recovery_fix
    tmpB64,      \* /tmp/iscsi_target.b64
    tmpOut,      \* /tmp/iscsi_target.conf_cleaned
    content,     \* what `sudo cat` returned
    newContent,  \* cleaned_content
    chunk,       \* next chunk of the upload loop
    pending      \* unawaited commands that have not run yet

vars == <<pc, outcome, svc, mem, disk, backup, tmpB64, tmpOut, content,
          newContent, chunk, pending>>

Steps == {"connect", "stop", "read", "filter", "rm", "upload", "decode",
          "backup", "swap", "start", "done"}
Outcomes == {"running", "no_connection", "read_failed", "nothing_removed",
             "upload_failed", "decode_failed", "done"}
Files == Contents \cup {NoFile}

TypeOK ==
    /\ pc \in Steps
    /\ outcome \in Outcomes
    /\ svc \in {"running", "stopped"}
    /\ mem \in Contents
    /\ disk \in Contents
    /\ backup \in Files
    /\ tmpB64 \in Files
    /\ tmpOut \in Files
    /\ content \in Contents
    /\ newContent \in Contents
    /\ chunk \in 1..(2 * MaxBlocks + 1)
    /\ pending \subseteq {"rm", "swap"}

-----------------------------------------------------------------------------
(* The pkg-iscsi service.                                                   *)

\* systemctl stop: a running service writes its configuration back on exit.
SvcStop ==
    IF svc = "running"
    THEN svc' = "stopped" /\ disk' = mem /\ UNCHANGED mem
    ELSE UNCHANGED <<svc, mem, disk>>

\* systemctl start: a stopped service loads the file; a running one is left
\* as it is.
SvcStart ==
    IF svc = "stopped"
    THEN svc' = "running" /\ mem' = disk /\ UNCHANGED disk
    ELSE UNCHANGED <<svc, mem, disk>>

-----------------------------------------------------------------------------
(* The block-level result of the filter loop (lines 74-110).                *)

NotRecovery(blk) == blk \notin Recovery

Cleaned(c) == SelectSeq(c, NotRecovery)

RemovedCount(c) == Len(c) - Len(Cleaned(c))

Return(o) == pc' = "done" /\ outcome' = o

-----------------------------------------------------------------------------
Init ==
    /\ pc = "connect"
    /\ outcome = "running"
    \* an earlier run may have left the service stopped
    /\ svc \in {"running", "stopped"}
    /\ disk \in Configs
    \* a running service may hold changes it has not written yet
    /\ mem \in IF svc = "running" THEN Configs ELSE {disk}
    \* a backup from an earlier run, or none
    /\ backup \in Leftovers
    /\ tmpB64 \in Leftovers
    /\ tmpOut \in Leftovers
    /\ content = << >>
    /\ newContent = << >>
    /\ chunk = 1
    /\ pending = {}

\* client.connect; on failure main() returns before touching anything.
Connect ==
    /\ pc = "connect"
    /\ \/ pc' = "stop" /\ UNCHANGED outcome
       \/ Return("no_connection")
    /\ UNCHANGED <<svc, mem, disk, backup, tmpB64, tmpOut, content,
                   newContent, chunk, pending>>

\* systemctl stop, exit status never read, then sleep(5): the stop either
\* has taken effect by the end of the sleep or it failed.
Stop ==
    /\ pc = "stop"
    /\ \/ SvcStop
       \/ UNCHANGED <<svc, mem, disk>>
    /\ pc' = "read"
    /\ UNCHANGED <<outcome, backup, tmpB64, tmpOut, content, newContent,
                   chunk, pending>>

\* sudo cat; an empty stdout (failed read or empty file) ends main().
Read ==
    /\ pc = "read"
    /\ \/ content' = disk
       \/ content' = << >>
    /\ IF content' = << >> THEN Return("read_failed") ELSE pc' = "filter" /\ UNCHANGED outcome
    /\ UNCHANGED <<svc, mem, disk, backup, tmpB64, tmpOut, newContent, chunk,
                   pending>>

\* The filter loop and `if removed_count == 0: return`.
Filter ==
    /\ pc = "filter"
    /\ newContent' = Cleaned(content)
    /\ IF RemovedCount(content) = 0
       THEN Return("nothing_removed")
       ELSE pc' = "rm" /\ UNCHANGED outcome
    /\ UNCHANGED <<svc, mem, disk, backup, tmpB64, tmpOut, content, chunk,
                   pending>>

\* (mutant: rm names REMOTE_PATH instead of the temp files)
RmTemps_WrongPath ==
    /\ pc = "rm"
    /\ disk' = NoFile
    /\ pc' = "upload"
    /\ UNCHANGED <<outcome, svc, mem, backup, tmpB64, tmpOut, content,
                   newContent, chunk, pending>>

\* rm of both temp files, not waited for.
RmTemps ==
    /\ pc = "rm"
    /\ IF Overtake
       THEN pending' = pending \cup {"rm"} /\ UNCHANGED <<tmpB64, tmpOut>>
       ELSE tmpB64' = NoFile /\ tmpOut' = NoFile /\ UNCHANGED pending
    /\ pc' = "upload"
    /\ UNCHANGED <<outcome, svc, mem, disk, backup, content, newContent, chunk>>

\* One `echo '<chunk>' >> temp_b64`, exit status checked.
UploadChunk ==
    /\ pc = "upload"
    /\ chunk <= Len(newContent)
    /\ \/ /\ tmpB64' = Append(IF tmpB64 = NoFile THEN << >> ELSE tmpB64,
                             newContent[chunk])
          /\ chunk' = chunk + 1
          /\ UNCHANGED <<pc, outcome>>
       \/ Return("upload_failed") /\ UNCHANGED <<tmpB64, chunk>>
    /\ UNCHANGED <<svc, mem, disk, backup, tmpOut, content, newContent, pending>>

UploadDone ==
    /\ pc = "upload"
    /\ chunk > Len(newContent)
    /\ pc' = "decode"
    /\ UNCHANGED <<outcome, svc, mem, disk, backup, tmpB64, tmpOut, content,
                   newContent, chunk, pending>>

\* base64 -d temp_b64 > temp_remote, exit status checked.  The redirect
\* creates temp_remote first; a missing input or a failure part-way leaves a
\* prefix of the output there.
Decode ==
    /\ pc = "decode"
    /\ \/ /\ tmpB64 # NoFile
          /\ tmpOut' = tmpB64
          /\ pc' = "backup"
          /\ UNCHANGED outcome
       \/ /\ tmpOut' \in IF tmpB64 = NoFile THEN {<< >>}
                         ELSE {SubSeq(tmpB64, 1, n) : n \in 0..(Len(tmpB64) - 1)}
          /\ Return("decode_failed")
    /\ UNCHANGED <<svc, mem, disk, backup, tmpB64, content, newContent, chunk,
                   pending>>

\* sudo cp REMOTE_PATH BACKUP_PATH; its output is printed, its status not read.
Backup ==
    /\ pc = "backup"
    /\ \/ backup' = disk
       \/ UNCHANGED backup
    /\ pc' = "swap"
    /\ UNCHANGED <<outcome, svc, mem, disk, tmpB64, tmpOut, content,
                   newContent, chunk, pending>>

\* The copy of temp_remote over REMOTE_PATH: cp fails on a missing source.
CopyOver ==
    \/ tmpOut # NoFile /\ disk' = tmpOut
    \/ UNCHANGED disk

\* sudo cp temp_remote REMOTE_PATH and chmod 644, neither waited for.
Swap ==
    /\ pc = "swap"
    /\ IF Overtake
       THEN pending' = pending \cup {"swap"} /\ UNCHANGED disk
       ELSE CopyOver /\ UNCHANGED pending
    /\ pc' = "start"
    /\ UNCHANGED <<outcome, svc, mem, backup, tmpB64, tmpOut, content,
                   newContent, chunk>>

\* systemctl start, output printed, status not read; then "Done!".
Start ==
    /\ pc = "start"
    /\ \/ SvcStart
       \/ UNCHANGED <<svc, mem, disk>>
    /\ Return("done")
    /\ UNCHANGED <<backup, tmpB64, tmpOut, content, newContent, chunk, pending>>

\* A pending rm finally runs.
RunPendingRm ==
    /\ "rm" \in pending
    /\ tmpB64' = NoFile
    /\ tmpOut' = NoFile
    /\ pending' = pending \ {"rm"}
    /\ UNCHANGED <<pc, outcome, svc, mem, disk, backup, content, newContent, chunk>>

\* A pending cp over REMOTE_PATH finally runs.
RunPendingSwap ==
    /\ "swap" \in pending
    /\ CopyOver
    /\ pending' = pending \ {"swap"}
    /\ UNCHANGED <<pc, outcome, svc, mem, backup, tmpB64, tmpOut, content,
                   newContent, chunk>>

Next ==
    \/ Connect \/ Stop \/ Read \/ Filter \/ RmTemps \/ UploadChunk
    \/ UploadDone \/ Decode \/ Backup \/ Swap \/ Start
    \/ RunPendingRm \/ RunPendingSwap

Spec == Init /\ [][Next]_vars

-----------------------------------------------------------------------------
(* Properties                                                               *)

(* Whole writes: every change to iscsi_target.conf writes either the       *)
(* service's own configuration (its flush on stop) or the complete cleaned  *)
(* version of what the script read, never a truncated or mixed upload.     *)
(* This is what the chunk and decode exit-status checks and the rm of the   *)
(* temp files are for.                                                      *)
WritesAreWhole ==
    [][disk' # disk => disk' = mem \/ disk' = Cleaned(content)]_disk

(* A successful run takes effect: when main() prints "Done!" and the        *)
(* service runs, it runs the configuration that is in the file.             *)
ServiceRunsFileConfig ==
    outcome = "done" /\ svc = "running" => mem = disk
=============================================================================
