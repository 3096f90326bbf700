---------------------------- MODULE MCUninstall ----------------------------
(***************************************************************************)
(* Uninstall for TLC, with a note of whether a script of a dead process    *)
(* was ever left running beside the next one.                              *)
(***************************************************************************)
EXTENDS Uninstall

VARIABLE alone  \* so far every script had ended when the computer was started again

MCInit == Init /\ alone = TRUE

Disturbs == host.pc = "off" /\ host'.pc = "deciding" /\ scripts["orphan"] # NoScript

MCNext == Next /\ alone' = (alone /\ ~Disturbs)

MCSpec == MCInit /\ [][MCNext]_<<vars, alone>>

\* The boot loader is never sent to a slot that holds no complete worker, as long as no
\* script outlives its computer until that is started again (TrialIsBootable).
TrialIsBootableAlone == alone => TrialIsBootable

\* A completed removal has both tables restored, the whole partition in use, the reset
\* consumed and both slots Android's, under the same condition (CompletedIsRemoved).
CompletedIsRemovedAlone == alone => CompletedIsRemoved
\* A script starts only with what it staged in its directory, and is sent again only as its
\* user asked (ArmIsStaged, RunsAreAsked).
ArmsAsAsked == ArmIsStaged /\ RunsAreAsked
=============================================================================
