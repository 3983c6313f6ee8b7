-------------------------- MODULE ForceDeleteTarget --------------------------
(***************************************************************************)
(* src/scripts/synology/force_delete_target.py: stop pkg-iscsi (checked),  *)
(* read iscsi_target.conf over sftp, drop every section whose name         *)
(* contains the given IQN part, write the file back in place over sftp and *)
(* start pkg-iscsi (checked).  If no section matches, it starts the        *)
(* service without waiting and returns False.  Any exception after the     *)
(* connect ends in `return False` and leaves the service as it is.         *)
(*                                                                         *)
(* The file is a sequence of lines.  A line is a header (the whole line   *)
(* is "[name]") or not; Matching are the headers whose section name       *)
(* contains target_iqn.  The service keeps the configuration in memory,   *)
(* writes it to the file when it stops and loads the file when it starts. *)
(* sftp.open(path, 'w') truncates the file and then writes it; a failure  *)
(* part-way leaves a prefix of the new content.                           *)
(***************************************************************************)
EXTENDS Naturals, Sequences, SequencesExt

CONSTANTS
    Lines,      \* the line values a file is made of
    Headers,    \* lines matching ^\[(.*)\]$
    Matching,   \* headers whose section name contains target_iqn
    MaxLen      \* bound on the lines of a file

ASSUME /\ Matching \subseteq Headers /\ Headers \subseteq Lines
       /\ MaxLen \in Nat

Files == SeqOf(Lines, MaxLen)

VARIABLES
    pc,         \* where force_delete_target() is
    outcome,    \* its return value and path
    svc,        \* pkg-iscsi: "running" or "stopped"
    mem,        \* the configuration the service holds
    disk,       \* /usr/syno/etc/iscsi_target.conf
    content,    \* config_content.splitlines()
    new_lines

vars == <<pc, outcome, svc, mem, disk, content, new_lines>>

Outcomes == {"running", "error", "stop_failed", "not_found", "start_failed",
             "success"}

TypeOK ==
    /\ pc \in {"connect", "stop", "read", "filter", "write", "start", "done"}
    /\ outcome \in Outcomes
    /\ svc \in {"running", "stopped"}
    /\ mem \in Files /\ disk \in Files
    /\ content \in Files /\ new_lines \in Files

-----------------------------------------------------------------------------
(* The section loop, lines 40-60, as an operator: Drop(ls, in) is what the *)
(* loop appends for the lines ls when it enters them with                  *)
(* in_target_block = in.                                                   *)

\* (mutant: a non-matching header does not end the block being dropped)
RECURSIVE Drop_NoReset(_, _)
Drop_NoReset(ls, in) ==
    IF ls = << >> THEN << >>
    ELSE LET l == Head(ls) IN
         IF l \in Matching THEN Drop_NoReset(Tail(ls), TRUE)
         ELSE IF in THEN Drop_NoReset(Tail(ls), in)
         ELSE <<l>> \o Drop_NoReset(Tail(ls), in)

RECURSIVE Drop(_, _)
Drop(ls, in) ==
    IF ls = << >> THEN << >>
    ELSE LET l == Head(ls) IN
         IF l \in Matching THEN Drop(Tail(ls), TRUE)        \* continue
         ELSE LET in2 == IF l \in Headers THEN FALSE ELSE in IN
              IF in2 THEN Drop(Tail(ls), in2)
              ELSE <<l>> \o Drop(Tail(ls), in2)

\* target_found
Found(ls) == \E j \in 1..Len(ls) : ls[j] \in Matching

Return(o) == pc' = "done" /\ outcome' = o

\* systemctl start: a stopped service loads the file; a running one is left
\* as it is.
SvcStart ==
    IF svc = "stopped"
    THEN svc' = "running" /\ mem' = disk
    ELSE UNCHANGED <<svc, mem>>

-----------------------------------------------------------------------------
Init ==
    /\ pc = "connect"
    /\ outcome = "running"
    /\ svc \in {"running", "stopped"}
    /\ disk \in Files
    /\ mem = disk
    /\ content = << >>
    /\ new_lines = << >>

\* client.connect; an exception goes to `except: return False`.
Connect ==
    /\ pc = "connect"
    /\ \/ pc' = "stop" /\ UNCHANGED outcome
       \/ Return("error")
    /\ UNCHANGED <<svc, mem, disk, content, new_lines>>

\* (mutant: the stop's exit status is not checked)
Stop_NoCheck ==
    /\ pc = "stop"
    /\ \/ svc' = "stopped" /\ disk' = mem
       \/ UNCHANGED <<svc, disk>>
    /\ pc' = "read"
    /\ UNCHANGED <<outcome, mem, content, new_lines>>

\* synosystemctl stop pkg-iscsi, exit status checked.  The service writes
\* its configuration back as it stops.
Stop ==
    /\ pc = "stop"
    /\ \/ /\ svc' = "stopped" /\ disk' = mem
          /\ pc' = "read" /\ UNCHANGED outcome
       \/ Return("stop_failed") /\ UNCHANGED <<svc, disk>>
    /\ UNCHANGED <<mem, content, new_lines>>

\* sftp read; an exception leaves the service stopped.
Read ==
    /\ pc = "read"
    /\ \/ content' = disk /\ pc' = "filter" /\ UNCHANGED outcome
       \/ Return("error") /\ UNCHANGED content
    /\ UNCHANGED <<svc, mem, disk, new_lines>>

\* The section loop; if no section matched, start the service without
\* waiting for it and return False.
Filter ==
    /\ pc = "filter"
    /\ new_lines' = Drop(content, FALSE)
    /\ IF Found(content)
       THEN pc' = "write" /\ UNCHANGED <<outcome, svc, mem>>
       ELSE /\ Return("not_found")
            /\ \/ SvcStart
               \/ UNCHANGED <<svc, mem>>
    /\ UNCHANGED <<disk, content>>

\* sftp.open(path, 'w').write(...): the whole file, or an exception part-way
\* that leaves a prefix.
Write ==
    /\ pc = "write"
    /\ \/ disk' = new_lines /\ pc' = "start" /\ UNCHANGED outcome
       \/ /\ disk' \in {SubSeq(new_lines, 1, n) : n \in 0..(Len(new_lines) - 1)}
          /\ Return("error")
    /\ UNCHANGED <<svc, mem, content, new_lines>>

\* synosystemctl start pkg-iscsi, exit status checked.
Start ==
    /\ pc = "start"
    /\ \/ SvcStart /\ Return("success")
       \/ Return("start_failed") /\ UNCHANGED <<svc, mem>>
    /\ UNCHANGED <<disk, content, new_lines>>

Next == Connect \/ Stop \/ Read \/ Filter \/ Write \/ Start

Spec == Init /\ [][Next]_vars

-----------------------------------------------------------------------------
(* Reference: a line is dropped exactly when the last header at or before  *)
(* it is a matching one.                                                    *)

Dropped(c, j) ==
    \E k \in 1..j : /\ c[k] \in Matching
                    /\ \A m \in (k + 1)..j : c[m] \notin Headers

Expected(c) ==
    LET idx == SetToSortSeq({j \in 1..Len(c) : ~Dropped(c, j)}, <)
    IN  [n \in 1..Len(idx) |-> c[idx[n]]]

-----------------------------------------------------------------------------
(* Properties                                                               *)

(* The section loop drops whole sections: once it has run, new_lines are   *)
(* the lines of the file read minus exactly the sections whose name         *)
(* contains target_iqn, the rest verbatim and in order (a header-less      *)
(* prefix included).                                                        *)
SectionFilterIsBlockwise ==
    pc \notin {"filter"} => new_lines = Expected(content)

(* A True return means the edit is live: the service runs, and runs the     *)
(* configuration in the file, which is what the checked stop and start are  *)
(* for.                                                                     *)
ServiceRunsFileConfig ==
    outcome = "success" => svc = "running" /\ mem = disk

\* The edits force_delete_target makes: the filtered file, or a prefix of it
\* when the write fails part-way.
Edits(f) == {SubSeq(Drop(f, FALSE), 1, n) : n \in 0..Len(Drop(f, FALSE))}

SC == INSTANCE ServiceConfig WITH Files <- Files, Edit <- Edits

(* force_delete_target implements the service contract: every change to    *)
(* the file or the service is the service's own write-back on stop, its     *)
(* load on start, or an edit of the file as it then is, made while the      *)
(* service is stopped.  The checked stop is what keeps the write from       *)
(* landing under a running service, and the read after the stop is what    *)
(* keeps the edit from working on a stale copy.                             *)
ImplementsServiceConfig == SC!Spec
=============================================================================
