---------------------------- MODULE ServiceConfig ----------------------------
(***************************************************************************)
(* What a file-editing repair promises about pkg-iscsi and its             *)
(* configuration file (spec 4.3, "Safe Mutator"): the service writes the   *)
(* configuration it holds to the file when it stops and loads the file     *)
(* when it starts, and the repair changes the file only while the service  *)
(* is stopped, by an edit of the file as it is at that moment.  Edit(f) is *)
(* the set of files an edit of f may leave: the repair's result and, where *)
(* the write can fail part-way, what that leaves.                          *)
(***************************************************************************)
CONSTANTS
    Files,      \* the possible file contents
    Edit(_)     \* Edit(f): the files an edit of f may leave

VARIABLES svc, mem, disk

vars == <<svc, mem, disk>>

Init ==
    /\ svc \in {"running", "stopped"}
    /\ disk \in Files
    /\ mem = disk

\* systemctl stop of a running service: it writes its configuration back.
StopFlush ==
    /\ svc = "running"
    /\ svc' = "stopped" /\ disk' = mem /\ UNCHANGED mem

\* systemctl start of a stopped service: it loads the file.
StartLoad ==
    /\ svc = "stopped"
    /\ svc' = "running" /\ mem' = disk /\ UNCHANGED disk

\* The repair writes the file, the service being stopped.
EditFile ==
    /\ svc = "stopped"
    /\ disk' \in Edit(disk)
    /\ UNCHANGED <<svc, mem>>

Next == StopFlush \/ StartLoad \/ EditFile

Spec == Init /\ [][Next]_vars
=============================================================================
