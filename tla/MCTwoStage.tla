----------------------------- MODULE MCTwoStage -----------------------------
(***************************************************************************)
(* PartTwoStage for TLC: several records, resumed in any order; or one     *)
(* record, with old scripts that overlap with the resumed run, from the    *)
(* command line or under the coordinator.                                  *)
(***************************************************************************)
EXTENDS PartTwoStage

VARIABLE use  \* how the installer is used

One == INSTANCE PartTwoStage WITH Overlap <- TRUE
Coordinated == INSTANCE PartTwoStage WITH Overlap <- TRUE, Gui <- TRUE

MCInit == Init /\ use \in {"several", "one", "coordinated"}
MCNext ==
    /\ UNCHANGED use
    /\ \/ use = "several" /\ Next
       \/ use = "one" /\ One!Next /\ OneRecord'
       \/ use = "coordinated" /\ Coordinated!Next /\ OneRecord'

MCSpec == MCInit /\ [][MCNext]_<<vars, use>>
=============================================================================
