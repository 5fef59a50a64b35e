---------------------------- MODULE MCDiskDrive ----------------------------
(***************************************************************************)
(* Bounds for DiskDrive: two drives, sectors of two bytes, two tracks of   *)
(* two sectors, the track counter wrapping after the second.  The file     *)
(* behind drive 0 lacks the last sector, so that it can be read past its   *)
(* end.  Thirteen calls write a sector twice and read it back, with a      *)
(* selection or a step in between.                                         *)
(***************************************************************************)
EXTENDS DiskDrive

MCDrives == {0, 1}
MCFileSectors == 0 .. 2
MCBuilds == BOOLEAN
MCControls ==
    {{"STEP_IN"}, {"STEP_OUT"}, {"STEP_IN", "STEP_OUT"}, {"HEAD_LOAD", "WE"}}
=============================================================================
