------------------------------ MODULE MCFloppy ------------------------------
(***************************************************************************)
(* Floppy with disks of two cylinders of three sectors a side: a transfer  *)
(* can end before the track does, at its end, and after either head.       *)
(***************************************************************************)
EXTENDS Floppy

MCConfigs == {{}, {0}, {1}, {0, 1}}
=============================================================================
