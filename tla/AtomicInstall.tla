---- MODULE AtomicInstall ----
(***************************************************************************)
(* What installing promises to whoever boots from the disk: there is       *)
(* nothing on it, or one complete system, and a system once installed      *)
(* stays as it is.                                                         *)
(***************************************************************************)
CONSTANTS
    Systems,   \* the complete systems an installation can put on the disk
    Nothing    \* an empty disk; not among Systems

VARIABLE system

Init == system = Nothing

Install == system = Nothing /\ system' \in Systems

Spec == Init /\ [][Install]_system
====
