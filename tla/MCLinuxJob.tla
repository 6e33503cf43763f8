----------------------------- MODULE MCLinuxJob -----------------------------
(* Small instances of LinuxJob for TLC.                                      *)
EXTENDS LinuxJob, TLC
=============================================================================
