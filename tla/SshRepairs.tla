----------------------------- MODULE SshRepairs -----------------------------
(***************************************************************************)
(* The three CLI scripts of src/scripts/synology/ that act on the NAS's    *)
(* live objects through synoiscsiwebapi, run by an operator one after the  *)
(* other in any order against one NAS: cleanup_orphans.py --execute        *)
(* deletes the LUNs and targets of volumes whose PV is gone,               *)
(* rebind_luns_ssh.py maps unmapped LUNs to the target of their name, and  *)
(* enable_targets.py enables disabled targets.  They share the NAS's       *)
(* objects; each keeps its own locals.  The CSI driver provisions volumes  *)
(* between the runs (while one runs only if Concurrent).                   *)
(***************************************************************************)
EXTENDS FiniteSets, SequencesExt

CONSTANTS Vols, None, Concurrent, ReadsFail

VARIABLES
    script,     \* the script running, or "idle"
    ran,        \* the scripts run so far
    \* the NAS
    vol, lun, tgt, mapped, enabled, order,
    \* cleanup_orphans.py
    cpc, pvs, lunsRead, tgtsRead, todo, cur, deleted, failed,
    \* rebind_luns_ssh.py
    rpc, lunsR, mapR, tmapR, orphans,
    \* enable_targets.py
    epc, tids,
    \* what the last two printed
    reported, alarm

C == INSTANCE CleanupOrphansSsh WITH pc <- cpc
R == INSTANCE RebindLunsSsh
E == INSTANCE EnableTargets

Scripts == {"cleanup", "rebind", "enable"}

nasVars == <<vol, lun, tgt, mapped, enabled, order>>
cVars == <<cpc, pvs, lunsRead, tgtsRead, todo, cur, deleted, failed>>
rVars == <<rpc, lunsR, mapR, tmapR, orphans>>
eVars == <<epc, tids>>
vars == <<script, ran, nasVars, cVars, rVars, eVars, reported, alarm>>

TypeOK ==
    /\ script \in Scripts \cup {"idle"} /\ ran \subseteq Scripts
    /\ C!TypeOK /\ R!TypeOK /\ E!TypeOK

-----------------------------------------------------------------------------
CInit(c, p, lr, tr, td, cu, d, f) ==
    c = "fetch" /\ p = {} /\ lr = {} /\ tr = {} /\ td = {} /\ cu = None
    /\ d = {} /\ f = {}
RInit(r, l, m, t, o) ==
    r = "connect" /\ l = {} /\ m = {} /\ t = {} /\ o = {}
EInit(e, t) == e = "connect" /\ t = {}

(* A volume that has a LUN may have a target, and then a mapping and an    *)
(* enabled flag, in any combination: what the scripts are there to repair. *)
Init ==
    /\ script = "idle" /\ ran = {}
    /\ vol \in [Vols -> C!VolStates]
    /\ lun = [v \in Vols |-> vol[v] # "none"]
    /\ tgt \in {f \in [Vols -> BOOLEAN] : \A v \in Vols : f[v] => lun[v]}
    /\ mapped \in {f \in [Vols -> BOOLEAN] : \A v \in Vols : f[v] => tgt[v]}
    /\ enabled \in {f \in [Vols -> BOOLEAN] : \A v \in Vols : f[v] => tgt[v]}
    /\ order \in SetToSeqs(Vols)
    /\ CInit(cpc, pvs, lunsRead, tgtsRead, todo, cur, deleted, failed)
    /\ RInit(rpc, lunsR, mapR, tmapR, orphans)
    /\ EInit(epc, tids)
    /\ reported = {} /\ alarm = FALSE

\* The operator starts a script not run yet.
Start ==
    /\ script = "idle"
    /\ \E s \in Scripts \ ran : script' = s /\ ran' = ran \cup {s}
    /\ UNCHANGED <<nasVars, cVars, rVars, eVars, reported, alarm>>

\* A failed lun delete prints "FAIL: lun delete <name>".
CleanupStep ==
    /\ script = "cleanup" /\ C!ScriptStep
    /\ reported' = reported \cup failed'
    /\ UNCHANGED <<script, ran, enabled, order, rVars, eVars, alarm>>

RebindStep ==
    /\ script = "rebind" /\ R!Next
    /\ UNCHANGED <<script, ran, vol, enabled, order, cVars, eVars>>

EnableStep ==
    /\ script = "enable" /\ E!Next
    /\ UNCHANGED <<script, ran, vol, lun, mapped, cVars, rVars>>

\* The script has returned or exited; its locals go with its process.
Finish ==
    /\ \/ script = "cleanup" /\ cpc \in {"done", "exit"} /\ CInit(cpc', pvs', lunsRead', tgtsRead', todo', cur', deleted',
                   failed')
          /\ UNCHANGED <<rVars, eVars>>
       \/ script = "rebind" /\ rpc \in {"done", "exit"} /\ RInit(rpc', lunsR', mapR', tmapR', orphans')
          /\ UNCHANGED <<cVars, eVars>>
       \/ script = "enable" /\ epc \in {"done", "exit"} /\ EInit(epc', tids')
          /\ UNCHANGED <<cVars, rVars>>
    /\ script' = "idle"
    /\ UNCHANGED <<ran, nasVars, reported, alarm>>

\* The CSI driver creates a volume (its target enabled) or binds its PV.
Provision ==
    /\ Concurrent \/ script = "idle"
    /\ \/ C!ProvisionStart /\ enabled' = [v \in Vols |-> enabled[v] \/ tgt'[v]]
       \/ C!ProvisionEnd /\ UNCHANGED enabled
    /\ UNCHANGED <<script, ran, order, rVars, eVars, reported, alarm>>

Next == Start \/ CleanupStep \/ RebindStep \/ EnableStep \/ Finish \/ Provision

Spec == Init /\ [][Next]_vars

-----------------------------------------------------------------------------
(* Properties                                                               *)

(* cleanup_orphans.py deletes no live LUN, whichever of the other scripts   *)
(* ran before it.                                                           *)
NoLiveLunDeleted == C!NoLiveLunDeleted

(* No silent failure: once all three scripts have run, every volume with a  *)
(* PV whose LUN and target exist is served (mapped and enabled), or a       *)
(* script printed a FAILED/SKIP line for it, or an error about its run.     *)
ServedOrReported ==
    script = "idle" /\ ran = Scripts =>
        \A v \in Vols :
            vol[v] = "bound" /\ lun[v] /\ tgt[v] =>
                (mapped[v] /\ enabled[v]) \/ v \in reported \/ alarm
=============================================================================
