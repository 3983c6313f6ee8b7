------------------------------ MODULE RebindLuns ------------------------------
(***************************************************************************)
(* src/scripts/synology/rebind_luns.py (not --dry-run): log in, list the   *)
(* targets and LUNs, and in one pass over the targets collect the LUNs     *)
(* they map into mapped_lun_ids and delete every target whose name         *)
(* contains "recovery-target"; then create a target "kube-<name>" for      *)
(* every listed LUN not in mapped_lun_ids.                                 *)
(*                                                                         *)
(* A target is a record [id, rec, lun]: rec says whether its name contains *)
(* "recovery-target", lun is the LUN in its mapped_lun_list or None.  The  *)
(* list calls never look at "success": when ListsFail a failed list reads  *)
(* as empty.  `reported` are the LUNs the script printed a FAILED line     *)
(* for.                                                                    *)
(***************************************************************************)
EXTENDS FiniteSets

CONSTANTS
    Tids,       \* targets on the NAS when the script starts
    NewTids,    \* ids the NAS may give to created targets
    Luns,       \* the LUNs on the NAS
    Recovery,   \* targets whose name contains "recovery-target"
    None,
    ListsFail

ASSUME Recovery \subseteq Tids /\ ListsFail \in BOOLEAN

Target == [id : Tids \cup NewTids, rec : BOOLEAN, lun : Luns \cup {None}]

VARIABLES
    pc,         \* "login", "list", "scan", "create", "done", "exit"
    nas,        \* the targets on the NAS
    todo,       \* listed targets not yet scanned, then orphans not yet handled
    luns,       \* the listed LUNs
    mapped_lun_ids,
    free,       \* ids not yet used
    reported    \* LUNs with a printed FAILED line

vars == <<pc, nas, todo, luns, mapped_lun_ids, free, reported>>

TypeOK ==
    /\ pc \in {"login", "list", "scan", "create", "done", "exit"}
    /\ nas \subseteq Target /\ todo \subseteq Target \cup Luns
    /\ luns \subseteq Luns /\ mapped_lun_ids \subseteq Luns
    /\ free \subseteq NewTids /\ reported \subseteq Luns

\* list_targets / list_luns: data.get("data", {}).get(..., []).
Listed(s) == IF ListsFail THEN {s, {}} ELSE {s}

\* What each API call does on the NAS when it answers success=true.
\* delete_target: method=delete, target_id_list=[id].
delete_target(n, t) == n \ {t}

\* create_target: method=create, lun_id_list=[lun_id]; the new target is
\* named "kube-<lun name>", so it is never a recovery target.
create_target(n, id, l) == n \cup {[id |-> id, rec |-> FALSE, lun |-> l]}

-----------------------------------------------------------------------------
Init ==
    /\ pc = "login"
    /\ nas \in {{[id |-> t, rec |-> t \in Recovery, lun |-> f[t]] : t \in Tids} :
                  f \in [Tids -> Luns \cup {None}]}
    /\ todo = {} /\ luns = {} /\ mapped_lun_ids = {}
    /\ free = NewTids /\ reported = {}

\* login(); on failure exit(1).
Login ==
    /\ pc = "login"
    /\ pc' \in {"list", "exit"}
    /\ UNCHANGED <<nas, todo, luns, mapped_lun_ids, free, reported>>

\* list_targets and list_luns; an exception exits(1).
List ==
    /\ pc = "list"
    /\ \/ /\ todo' \in Listed(nas)
          /\ luns' \in Listed(Luns)
          /\ pc' = "scan"
       \/ pc' = "exit" /\ UNCHANGED <<todo, luns>>
    /\ UNCHANGED <<nas, mapped_lun_ids, free, reported>>

\* One target of `for t in targets`: its LUNs join mapped_lun_ids, and a
\* recovery target is deleted (the response is only printed).
Scan ==
    /\ pc = "scan"
    /\ \E t \in todo :
         /\ todo' = todo \ {t}
         /\ mapped_lun_ids' = mapped_lun_ids \cup ({t.lun} \ {None})
         /\ IF t.rec THEN nas' \in {delete_target(nas, t), nas} ELSE UNCHANGED nas
    /\ UNCHANGED <<pc, luns, free, reported>>

\* orphaned_luns: the listed LUNs no listed target maps.
Orphaned ==
    /\ pc = "scan" /\ todo = {}
    /\ todo' = luns \ mapped_lun_ids
    /\ pc' = "create"
    /\ UNCHANGED <<nas, luns, mapped_lun_ids, free, reported>>

\* create_target("kube-<name>", iqn, lun_id): SUCCESS, or a FAILED line.
Create ==
    /\ pc = "create"
    /\ \E l \in todo :
         /\ todo' = todo \ {l}
         /\ \/ \E id \in free :
                 /\ nas' = create_target(nas, id, l)
                 /\ free' = free \ {id}
                 /\ UNCHANGED reported
            \/ reported' = reported \cup {l} /\ UNCHANGED <<nas, free>>
    /\ UNCHANGED <<pc, luns, mapped_lun_ids>>

Finish ==
    /\ pc = "create" /\ todo = {}
    /\ pc' = "done"
    /\ UNCHANGED <<nas, todo, luns, mapped_lun_ids, free, reported>>

Next == Login \/ List \/ Scan \/ Orphaned \/ Create \/ Finish

Spec == Init /\ [][Next]_vars

-----------------------------------------------------------------------------
(* Properties                                                               *)

(* The script's purpose, "recreate missing targets": when it has finished,  *)
(* every LUN on the NAS is mapped by a target on the NAS, or the script     *)
(* printed a FAILED line for it.                                            *)
LunsServedOrReported ==
    pc = "done" =>
        \A l \in Luns : (\E t \in nas : t.lun = l) \/ l \in reported
=============================================================================
