---------------------------- MODULE MCAdministration ----------------------------
(***************************************************************************)
(* What administrators do while others work, for TLC: a restore of the     *)
(* database behind its barrier (RestoreBarrier), assets merged and         *)
(* unmerged (AssetMerge), accounts, projects and the restore of the        *)
(* control database (ControlPlane), and the storage prepared at the start  *)
(* of a server (StorageSplit).  In the model they share nothing, so a      *)
(* behaviour is about one of them, chosen at the start; the others stay in *)
(* their initial state.                                                    *)
(***************************************************************************)
EXTENDS RestoreBarrier, AssetMerge, ControlPlane, StorageSplit, TLC

CONSTANTS i1, i2, i3, r1, b1, na, nb, nc, v1, v2, a1, a2, u1, p1, c1, s1, s2, d1, d2

VARIABLE about

administrationVars == <<about, barrierVars, assetVars, controlVars, splitVars>>

AdministrationInit ==
    /\ about \in {"a restore", "assets", "the control database", "the storage"}
    /\ BarrierInit /\ AssetInit /\ ControlInit /\ SplitInit
    /\ legacy => about = "the storage"

\* Everything within the bound was imported and edited, and nothing waits.
AllEnded ==
    about = "assets" /\ writes = MaxWrites /\ requests = {} /\ UNCHANGED administrationVars

AdministrationNext ==
    \/ /\ about = "a restore" /\ BarrierNext
       /\ UNCHANGED <<about, assetVars, controlVars, splitVars>>
    \/ /\ about = "assets" /\ AssetNext
       /\ UNCHANGED <<about, barrierVars, controlVars, splitVars>>
    \/ /\ about = "the control database" /\ ControlNext
       /\ UNCHANGED <<about, barrierVars, assetVars, splitVars>>
    \/ /\ about = "the storage" /\ SplitNext
       /\ UNCHANGED <<about, barrierVars, assetVars, controlVars>>
    \/ AllEnded

AdministrationSpec == AdministrationInit /\ [][AdministrationNext]_administrationVars

\* Three machines, and a second vulnerability of one of them.
ScannedRows == <<<<na, v1>>, <<nb, v1>>, <<nb, v2>>, <<nc, v1>>>>
=============================================================================
