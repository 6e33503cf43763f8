------------------------ MODULE MCLinuxFileAccess ------------------------
(* A small instance of LinuxFileAccess for TLC.                           *)
EXTENDS LinuxFileAccess, TLC
==========================================================================
