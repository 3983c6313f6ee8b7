------------------------------ MODULE RebindApi ------------------------------
(***************************************************************************)
(* src/scripts/synology_rebind_luns.py (not --dry-run): log in, list the   *)
(* targets and LUNs, and for each listed target: delete it if its name     *)
(* contains "recovery-target"; skip it if it has a mapping; otherwise, if  *)
(* a LUN has its name, map that LUN to it, and if the map fails delete the *)
(* target and create a new one with the same name and IQN holding the LUN.*)
(*                                                                         *)
(* A target is a record [id, name, lun]: lun is the name of the LUN mapped *)
(* to it, or None (mapping_index == -1).  LUNs are known by name (lun_map).*)
(* Every API call succeeds or fails; the list calls never look at          *)
(* "success", so a failed list reads as empty when ListsFail.              *)
(***************************************************************************)
EXTENDS FiniteSets

CONSTANTS
    Tids,       \* targets on the NAS when the script starts
    NewTids,    \* ids the NAS may give to created targets
    Names,      \* LUN names (the CSI names targets after their LUN)
    TName,      \* TName[t]: the name of target t
    Recovery,   \* targets whose name contains "recovery-target"
    None,
    ListsFail   \* a list call may answer success=false

ASSUME /\ Recovery \subseteq Tids
       /\ TName \in [Tids -> Names]
       /\ ListsFail \in BOOLEAN

Ids == Tids \cup NewTids
Target == [id : Ids, name : Names, lun : Names \cup {None}]

VARIABLES
    pc,         \* "login", "list", "loop", "done"; "exit" after exit(1)
    phase,      \* step of the target in hand: "pick", "recovery", "map",
                \* "delete", "create"
    cur,        \* the target in hand
    nas,        \* the targets on the NAS
    lunNames,   \* the LUNs on the NAS
    todo,       \* listed targets not yet handled
    lun_map,    \* names of the listed LUNs
    free,       \* ids not yet used
    failed,     \* names reported as "Cannot fix" / "Recreate Failed"
    broken      \* names whose unmapped target had a LUN when the run began

vars == <<pc, phase, cur, nas, lunNames, todo, lun_map, free, failed, broken>>

TypeOK ==
    /\ pc \in {"login", "list", "loop", "done", "exit"}
    /\ phase \in {"pick", "recovery", "map", "delete", "create"}
    /\ cur \in Target \cup {None}
    /\ nas \subseteq Target /\ todo \subseteq Target
    /\ lunNames \subseteq Names /\ lun_map \subseteq Names
    /\ free \subseteq NewTids
    /\ failed \subseteq Names /\ broken \subseteq Names

\* The targets that the loop tries to rebind: not a recovery target, no
\* mapping, and a LUN of the same name.
Unmapped(ts, lns) ==
    {t.name : t \in {u \in ts : u.id \notin Recovery /\ u.lun = None
                                /\ u.name \in lns}}

\* list_targets / list_luns: data.get("data", {}).get(..., []).
Listed(s) == IF ListsFail THEN {s, {}} ELSE {s}

Next_(p) == phase' = p

\* What each API call does on the NAS when it answers success=true.
\* delete_target: method=delete, target_id_list=[id].
delete_target(n, t) == n \ {t}

\* create_target: method=create with name, iqn and lun_id_list=[lun_id].
create_target(n, id, name, lun) ==
    n \cup {[id |-> id, name |-> name, lun |-> lun]}

\* map_lun_to_target: method=set on the target, lun_id_list=[lun_id].
map_lun_to_target(n, t, lun) == (n \ {t}) \cup {[t EXCEPT !.lun = lun]}

-----------------------------------------------------------------------------
Init ==
    /\ pc = "login"
    /\ phase = "pick"
    /\ cur = None
    /\ lunNames \in SUBSET Names
    \* a recovery target may hold a LUN; another target holds its own, or none
    /\ nas \in {{[id |-> t, name |-> TName[t], lun |-> f[t]] : t \in Tids} :
                  f \in {g \in [Tids -> Names \cup {None}] :
                           \A t \in Tids : g[t] \in {None} \cup
                               (IF t \in Recovery THEN lunNames
                                ELSE {TName[t]} \cap lunNames)}}
    /\ todo = {}
    /\ lun_map = {}
    /\ free = NewTids
    /\ failed = {}
    /\ broken = Unmapped(nas, lunNames)

\* login(); on failure exit(1).
Login ==
    /\ pc = "login"
    /\ pc' \in {"list", "exit"}
    /\ UNCHANGED <<phase, cur, nas, lunNames, todo, lun_map, free, failed, broken>>

\* list_targets, list_luns, lun_map = {name: lun_id}.
List ==
    /\ pc = "list"
    /\ todo' \in Listed(nas)
    /\ lun_map' \in Listed(lunNames)
    /\ pc' = "loop"
    /\ UNCHANGED <<phase, cur, nas, lunNames, free, failed, broken>>

\* The head of `for t in targets`: recovery targets are deleted, mapped
\* targets and targets without a same-named LUN are skipped.
Pick ==
    /\ pc = "loop" /\ phase = "pick"
    /\ \E t \in todo :
         /\ todo' = todo \ {t}
         /\ cur' = t
         /\ phase' = CASE t.id \in Recovery  -> "recovery"
                       [] t.lun # None       -> "pick"
                       [] t.name \in lun_map -> "map"
                       [] OTHER              -> "pick"
    /\ UNCHANGED <<pc, nas, lunNames, lun_map, free, failed, broken>>

\* delete_target of a recovery target; a failure is printed and the loop
\* goes on.
DeleteRecovery ==
    /\ phase = "recovery"
    /\ nas' \in {delete_target(nas, cur), nas}
    /\ Next_("pick")
    /\ UNCHANGED <<pc, cur, lunNames, todo, lun_map, free, failed, broken>>

\* map_lun_to_target; on failure, delete and recreate.
MapLun ==
    /\ phase = "map"
    /\ \/ nas' = map_lun_to_target(nas, cur, cur.name)
          /\ Next_("pick")
       \/ UNCHANGED nas /\ Next_("delete")
    /\ UNCHANGED <<pc, cur, lunNames, todo, lun_map, free, failed, broken>>

\* delete_target; on failure "Cannot fix this target".
DeleteTarget ==
    /\ phase = "delete"
    /\ \/ nas' = delete_target(nas, cur) /\ Next_("create") /\ UNCHANGED failed
       \/ UNCHANGED nas /\ failed' = failed \cup {cur.name} /\ Next_("pick")
    /\ UNCHANGED <<pc, cur, lunNames, todo, lun_map, free, broken>>

\* (mutant: the replacement target is created without lun_id_list)
CreateTarget_NoLun ==
    /\ phase = "create"
    /\ \/ \E id \in free :
            /\ nas' = nas \cup {[id |-> id, name |-> cur.name, lun |-> None]}
            /\ free' = free \ {id}
            /\ UNCHANGED failed
       \/ UNCHANGED <<nas, free>> /\ failed' = failed \cup {cur.name}
    /\ Next_("pick")
    /\ UNCHANGED <<pc, cur, lunNames, todo, lun_map, broken>>

\* create_target(name, iqn, lun_id); on failure "Target deleted but not
\* recreated".
CreateTarget ==
    /\ phase = "create"
    /\ \/ \E id \in free :
            /\ nas' = create_target(nas, id, cur.name, cur.name)
            /\ free' = free \ {id}
            /\ UNCHANGED failed
       \/ UNCHANGED <<nas, free>> /\ failed' = failed \cup {cur.name}
    /\ Next_("pick")
    /\ UNCHANGED <<pc, cur, lunNames, todo, lun_map, broken>>

\* The loop is over; the summary is printed.
Finish ==
    /\ pc = "loop" /\ phase = "pick" /\ todo = {}
    /\ pc' = "done"
    /\ UNCHANGED <<phase, cur, nas, lunNames, todo, lun_map, free, failed, broken>>

Next ==
    \/ Login \/ List \/ Pick \/ DeleteRecovery \/ MapLun \/ DeleteTarget
    \/ CreateTarget \/ Finish

Spec == Init /\ [][Next]_vars

-----------------------------------------------------------------------------
(* Properties                                                               *)

(* No silent loss (spec 4.4): when the script has finished, every LUN whose *)
(* target had lost its mapping is mapped again to a target of its name, or  *)
(* the script printed that it could not fix it.                             *)
NoSilentLoss ==
    pc = "done" =>
        \A n \in broken :
            \/ \E t \in nas : t.name = n /\ t.lun = n
            \/ n \in failed

=============================================================================
