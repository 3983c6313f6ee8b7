---------------------------- MODULE RebindLunsSsh ----------------------------
(***************************************************************************)
(* src/scripts/synology/rebind_luns_ssh.py (not --dry-run): read           *)
(* iscsi_lun.conf, iscsi_target.conf and iscsi_mapping.conf, call a LUN    *)
(* orphaned when no mapping section names its lun_id, and map every        *)
(* orphaned LUN to the target of its name with                            *)
(* `synoiscsiwebapi target map_lun`.                                       *)
(*                                                                         *)
(* A volume v stands for its LUN, the target of the same name and the      *)
(* mapping between them; lun, tgt and mapped say which of them exist on    *)
(* the NAS.  read_remote_file falls back from cat to sudo cat and returns  *)
(* "" when both fail, after printing an error: a failed read is an empty   *)
(* file plus a printed error.  `reported` are the volumes the script       *)
(* printed a FAILED or SKIP line for, `alarm` whether it printed an error  *)
(* about the whole run (or died with one).                                 *)
(***************************************************************************)
EXTENDS FiniteSets

CONSTANTS Vols

VARIABLES
    rpc,        \* where main() is
    lun, tgt, mapped,
    lunsR,      \* the LUN sections read
    mapR,       \* mapped_lun_ids
    tmapR,      \* target_map: the targets read, by name
    orphans,    \* orphans not yet handled
    reported,   \* volumes with a printed FAILED / SKIP line
    alarm       \* an error about the whole run was printed

rvars == <<rpc, lunsR, mapR, tmapR, orphans>>
vars == <<rvars, lun, tgt, mapped, reported, alarm>>

TypeOK ==
    /\ rpc \in {"connect", "read", "loop", "done", "exit"}
    /\ lun \in [Vols -> BOOLEAN] /\ tgt \in [Vols -> BOOLEAN]
    /\ mapped \in [Vols -> BOOLEAN]
    /\ lunsR \subseteq Vols /\ mapR \subseteq Vols /\ tmapR \subseteq Vols
    /\ orphans \subseteq Vols /\ reported \subseteq Vols /\ alarm \in BOOLEAN

\* read_remote_file over run_command: the file, or "" and an error line.
ReadResults(s) == {[ok |-> TRUE, val |-> s], [ok |-> FALSE, val |-> {}]}

\* (mutant: a LUN counts as orphaned when a mapping does name it)
Orphans_Inverted(l, m) == l \cap m

\* Step 3: the LUN sections whose lun_id is not in mapped_lun_ids.
Orphans(l, m) == l \ m

-----------------------------------------------------------------------------
Init ==
    /\ rpc = "connect"
    /\ lun \in [Vols -> BOOLEAN]
    /\ tgt \in [Vols -> BOOLEAN]
    /\ mapped \in {f \in [Vols -> BOOLEAN] : \A v \in Vols : f[v] => lun[v] /\ tgt[v]}
    /\ lunsR = {} /\ mapR = {} /\ tmapR = {} /\ orphans = {}
    /\ reported = {} /\ alarm = FALSE

\* get_ssh_client: a failed connect prints and exits(1).
Connect ==
    /\ rpc = "connect"
    /\ \/ rpc' = "read" /\ UNCHANGED alarm
       \/ rpc' = "exit" /\ alarm' = TRUE
    /\ UNCHANGED <<lunsR, mapR, tmapR, orphans, lun, tgt, mapped, reported>>

\* The three reads, parse_ini, target_map, mapped_lun_ids and the orphan
\* list; `if not orphans: return`.
ReadConfs ==
    /\ rpc = "read"
    /\ \E l \in ReadResults({v \in Vols : lun[v]}),
          t \in ReadResults({v \in Vols : tgt[v]}),
          m \in ReadResults({v \in Vols : mapped[v]}) :
         /\ lunsR' = l.val /\ tmapR' = t.val /\ mapR' = m.val
         /\ alarm' = (alarm \/ ~(l.ok /\ t.ok /\ m.ok))
    /\ orphans' = Orphans(lunsR', mapR')
    /\ rpc' = IF orphans' = {} THEN "done" ELSE "loop"
    /\ UNCHANGED <<lun, tgt, mapped, reported>>

\* One orphan: `target map_lun tid uuid` if a target of its name was read
\* (SUCCESS, or a FAILED line), else a SKIP line.
Repair ==
    /\ rpc = "loop"
    /\ \E v \in orphans :
         /\ orphans' = orphans \ {v}
         /\ IF v \in tmapR
            THEN \/ mapped' = [mapped EXCEPT ![v] = TRUE] /\ UNCHANGED reported
                 \/ reported' = reported \cup {v} /\ UNCHANGED mapped
            ELSE reported' = reported \cup {v} /\ UNCHANGED mapped
    /\ UNCHANGED <<rpc, lunsR, mapR, tmapR, lun, tgt, alarm>>

\* The loop is over: the summary.
Summary ==
    /\ rpc = "loop" /\ orphans = {}
    /\ rpc' = "done"
    /\ UNCHANGED <<lunsR, mapR, tmapR, orphans, lun, tgt, mapped, reported, alarm>>

Next == Connect \/ ReadConfs \/ Repair \/ Summary

Spec == Init /\ [][Next]_vars
=============================================================================
