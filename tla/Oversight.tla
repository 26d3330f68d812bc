----------------------------- MODULE Oversight ------------------------------
(***************************************************************************)
(* The parts that watch over the store, which share nothing but the audit  *)
(* sink: a behaviour is one of the review desk, the custody of the         *)
(* cluster's events, the backup catalog, the posture of the schema or the  *)
(* drift scans.                                                            *)
(***************************************************************************)
EXTENDS ReviewDesk, Custody, BackupCatalog, Posture, DriftWatch

VARIABLE office

oversightVars == <<deskVars, custodyVars, catalogVars, postureVars, driftVars, office>>

OversightInit ==
    /\ DeskInit /\ CustodyInit /\ CatalogInit /\ PostureInit /\ DriftInit
    /\ office \in {"desk", "custody", "catalog", "posture", "drift"}

-----------------------------------------------------------------------------
AtDesk ==
    /\ office = "desk" /\ DeskNext
    /\ UNCHANGED <<custodyVars, catalogVars, postureVars, driftVars, office>>

AtCustody ==
    /\ office = "custody" /\ CustodyNext
    /\ UNCHANGED <<deskVars, catalogVars, postureVars, driftVars, office>>

AtCatalog ==
    /\ office = "catalog" /\ CatalogNext
    /\ UNCHANGED <<deskVars, custodyVars, postureVars, driftVars, office>>

AtPosture ==
    /\ office = "posture" /\ PostureNext
    /\ UNCHANGED <<deskVars, custodyVars, catalogVars, driftVars, office>>

AtDrift(A) ==
    /\ office = "drift" /\ A
    /\ UNCHANGED <<deskVars, custodyVars, catalogVars, postureVars, office>>

OversightNext == AtDesk \/ AtCustody \/ AtCatalog \/ AtPosture \/ AtDrift(DriftNext)

(***************************************************************************)
(* Fairness: the thread of the drift scheduler runs.                       *)
(***************************************************************************)
OversightSpec ==
    /\ OversightInit /\ [][OversightNext]_oversightVars
    /\ WF_oversightVars(AtDrift(Round))

OversightTypeOK == DeskTypeOK /\ CustodyTypeOK /\ CatalogTypeOK /\ PostureTypeOK /\ DriftTypeOK

(***************************************************************************)
(* StopsWhenAsked: the drift scheduler stops once it is asked to, whatever *)
(* it is doing and whatever fails.                                         *)
(***************************************************************************)
StopsWhenAsked == stop ~> loop = "stopped"

(***************************************************************************)
(* ReportsHold: what the watchers report can be relied on, in spite of     *)
(* captures over a drifted schema, failing queries and a sink that refuses *)
(* records: an attested posture has its controls, a counted alert is on    *)
(* record, a tenant that was not scanned is reported as such, and a shift  *)
(* of writes is never graded higher than it can be.                        *)
(***************************************************************************)
ReportsHold == AttestedHolds /\ CountedIsEvident /\ NoFalseCalm /\ ShiftNeverHigh
=============================================================================
