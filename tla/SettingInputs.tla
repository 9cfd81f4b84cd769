---------------------------- MODULE SettingInputs -----------------------------
(***************************************************************************)
(* A life of the configuration: flags, the file at boot, the reloads.        *)
(***************************************************************************)
EXTENDS Inputs

S == INSTANCE Settings WITH None <- Absent

\* S!ReportTellsTheTruth of one life.
ReportTellsTheTruth == Is("life") => S!ReportTellsTheTruth(input[2], input[3], input[4])
=============================================================================
