---------------------------- MODULE MCCoordinator ----------------------------
(***************************************************************************)
(* Coordinator for TLC: the symmetry of the processes.  An update over     *)
(* SSH, with its restarts, is in MCUpdate.                                 *)
(***************************************************************************)
EXTENDS Coordinator, TLC

InstallerSymmetry == Permutations(Installers)
=============================================================================
