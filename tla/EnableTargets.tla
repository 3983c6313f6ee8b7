---------------------------- MODULE EnableTargets ----------------------------
(***************************************************************************)
(* src/scripts/synology/enable_targets.py: read iscsi_target.conf (exit    *)
(* status checked), collect the tids of the sections with enabled=no, and  *)
(* run `synoiscsiwebapi target enable <tid>` for each, counting failures.  *)
(*                                                                         *)
(* A target is named by its volume v.  The file lists the existing targets *)
(* in the order `order`; a section carries its tid and its enabled flag.   *)
(* The scan keeps the section it is in as (tid, enabled) and decides on it *)
(* when the next header comes or the file ends.  `reported` and `alarm`    *)
(* are as in RebindLunsSsh: a FAILED line for a target, an error for the   *)
(* whole run.                                                              *)
(***************************************************************************)
EXTENDS Sequences, SequencesExt

CONSTANTS Vols, None

VARIABLES
    epc,        \* where main() is
    tgt,        \* tgt[v]: the target of v exists
    enabled,    \* enabled[v]: its section says enabled=yes
    order,      \* the order of the sections in iscsi_target.conf
    tids,       \* disabled tids not yet enabled
    reported,
    alarm

vars == <<epc, tgt, enabled, order, tids, reported, alarm>>

TypeOK ==
    /\ epc \in {"connect", "read", "loop", "done", "exit"}
    /\ tgt \in [Vols -> BOOLEAN] /\ enabled \in [Vols -> BOOLEAN]
    /\ order \in SetToSeqs(Vols)
    /\ tids \subseteq Vols /\ reported \subseteq Vols /\ alarm \in BOOLEAN

\* The sections of the file, in order.
Sections ==
    LET exists(v) == tgt[v]
    IN  [i \in 1..Len(SelectSeq(order, exists)) |->
            LET v == SelectSeq(order, exists)[i]
            IN  [tid |-> v, en |-> IF enabled[v] THEN "yes" ELSE "no"]]

\* The section in hand, if it is disabled.
Flush(cur) == IF cur # None /\ cur.en = "no" THEN {cur.tid} ELSE {}

\* (mutant: the last section is never decided on)
RECURSIVE Scan_NoLast(_, _)
Scan_NoLast(secs, cur) ==
    IF secs = << >> THEN {}
    ELSE Flush(cur) \cup Scan_NoLast(Tail(secs), Head(secs))

\* The parse loop: a header decides on the section in hand and starts a new
\* one; the end of the file decides on the last.
RECURSIVE Scan(_, _)
Scan(secs, cur) ==
    IF secs = << >> THEN Flush(cur)
    ELSE Flush(cur) \cup Scan(Tail(secs), Head(secs))

-----------------------------------------------------------------------------
Init ==
    /\ epc = "connect"
    /\ tgt \in [Vols -> BOOLEAN]
    /\ enabled \in {f \in [Vols -> BOOLEAN] : \A v \in Vols : f[v] => tgt[v]}
    /\ order \in SetToSeqs(Vols)
    /\ tids = {} /\ reported = {} /\ alarm = FALSE

\* client.connect, not guarded: a failure ends the script with a traceback.
Connect ==
    /\ epc = "connect"
    /\ \/ epc' = "read" /\ UNCHANGED alarm
       \/ epc' = "exit" /\ alarm' = TRUE
    /\ UNCHANGED <<tgt, enabled, order, tids, reported>>

\* The cat, `if status != 0: exit(1)`, the scan, and `if not tids: return`.
ReadScan ==
    /\ epc = "read"
    /\ \/ /\ tids' = Scan(Sections, None)
          /\ epc' = IF tids' = {} THEN "done" ELSE "loop"
          /\ UNCHANGED alarm
       \/ epc' = "exit" /\ alarm' = TRUE /\ UNCHANGED tids
    /\ UNCHANGED <<tgt, enabled, order, reported>>

\* `target enable <tid>`: success, or a FAILED line.
Enable ==
    /\ epc = "loop"
    /\ \E t \in tids :
         /\ tids' = tids \ {t}
         /\ \/ enabled' = [enabled EXCEPT ![t] = TRUE] /\ UNCHANGED reported
            \/ reported' = reported \cup {t} /\ UNCHANGED enabled
    /\ UNCHANGED <<epc, tgt, order, alarm>>

\* The tally and the grep of the enabled= lines, which only print.
Verify ==
    /\ epc = "loop" /\ tids = {}
    /\ epc' = "done"
    /\ UNCHANGED <<tgt, enabled, order, tids, reported, alarm>>

Next == Connect \/ ReadScan \/ Enable \/ Verify

Spec == Init /\ [][Next]_vars
=============================================================================
