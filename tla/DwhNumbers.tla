----------------------------- MODULE DwhNumbers -----------------------------
(***************************************************************************)
(* The sequential parts of dwh, one of them at a time: main around its     *)
(* threads, the numbers of a transfer, the scaling of a figure and the     *)
(* difference of two clock values.  None touches another's variables, so   *)
(* every behaviour of this module is one of the part it starts.            *)
(***************************************************************************)
EXTENDS DwhMain, DwhData, DwhScale, DwhTimespec

VARIABLE part   \* the part that runs

Init ==
  /\ part \in {"main", "data", "scale", "timespec"}
  /\ MainInit /\ DataInit /\ ScaleInit /\ TimespecInit
  /\ part # "data" => maxMem = 0 /\ maxFileSize = 0 /\ maxIOSize = 1
  /\ part # "scale" => fn = "binary" /\ orig = 0
  /\ part # "timespec" => x = Zero /\ y = Zero

MainPart  == part = "main" /\ MainNext /\ UNCHANGED <<part, dataVars, scaleVars, timespecVars>>
DataPart  == part = "data" /\ DataNext /\ UNCHANGED <<part, mainVars, scaleVars, timespecVars>>
ScalePart == part = "scale" /\ ScaleNext /\ UNCHANGED <<part, mainVars, dataVars, timespecVars>>
TimespecPart ==
  part = "timespec" /\ timespec_elapsed /\ UNCHANGED <<part, mainVars, dataVars, scaleVars>>
Over ==
  /\ (part = "scale" /\ done) \/ (part = "timespec" /\ called)
  /\ UNCHANGED <<part, mainVars, dataVars, scaleVars, timespecVars>>

Next == MainPart \/ DataPart \/ ScalePart \/ TimespecPart \/ Over

Spec ==
  /\ Init /\ [][Next]_<<part, mainVars, dataVars, scaleVars, timespecVars>>
  /\ WF_mainVars(part = "main" /\ MainStep)

(* Types of the variables of main and of a transfer. *)
TypeOK == MainTypeOK /\ DataTypeOK
=============================================================================
