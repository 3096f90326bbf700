--------------------------- MODULE EffectJournal ---------------------------
(***************************************************************************)
(* What the installer promises of a plan made of NumEffects device writes  *)
(* that cannot be repeated: each is begun at most once, in the plan's      *)
(* order, none before its predecessor is known to be on the device, and    *)
(* the plan is reported complete, for good, only when all of them are.     *)
(***************************************************************************)
EXTENDS Naturals

CONSTANT NumEffects

VARIABLES
    attempts,  \* how often each write was begun
    outcome,   \* what is on the device
    complete   \* whether the plan was reported complete

journal == <<attempts, outcome, complete>>

Writes == 1..NumEffects

Init ==
    /\ attempts = [e \in Writes |-> 0]
    /\ outcome = [e \in Writes |-> "untouched"]
    /\ complete = FALSE

Begin(e) ==
    /\ attempts[e] = 0
    /\ \A d \in Writes : d < e => outcome[d] = "written"
    /\ attempts' = [attempts EXCEPT ![e] = 1]
    /\ outcome' = [outcome EXCEPT ![e] = "torn"]
    /\ UNCHANGED complete

Finish(e) ==
    /\ outcome[e] = "torn"
    /\ outcome' = [outcome EXCEPT ![e] = "written"]
    /\ UNCHANGED <<attempts, complete>>

Report ==
    /\ \A e \in Writes : outcome[e] = "written"
    /\ complete' = TRUE
    /\ UNCHANGED <<attempts, outcome>>

Next == Report \/ \E e \in Writes : Begin(e) \/ Finish(e)

Spec == Init /\ [][Next]_journal
=============================================================================
