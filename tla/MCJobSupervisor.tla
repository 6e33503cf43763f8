--------------------------- MODULE MCJobSupervisor ---------------------------
(* Small instances of JobSupervisor for TLC: a root and the processes it     *)
(* may fork.                                                                *)
EXTENDS JobSupervisor, TLC
=============================================================================
