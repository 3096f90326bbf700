----------------------------- MODULE MCSession -----------------------------
(***************************************************************************)
(* Several devices behind one address, for TLC: Session with two phones    *)
(* and a record, or one phone and two records; or Mu300Update.             *)
(***************************************************************************)
EXTENDS Session, TLC

CONSTANTS
    Second,    \* a phone that runs Android alone until it is switched off, and has no record:
               \* it only comes to the address of the first
    Other,     \* a second record, planned after the first
    FewBoots   \* how often the one phone of two records starts

ASSUME FewBootsAssumption == FewBoots \in Nat /\ FewBoots <= MaxBoots

VARIABLES
    use,               \* how the installer is used, or "mu300"
    device, host, run  \* of Mu300Update

muVars == <<device, host, run>>

One == INSTANCE Session WITH Phones <- Phones \ {Second}, Records <- Records \cup {Other},
    Methods <- Methods \cap {"tf"}, MaxBoots <- FewBoots

Mu == INSTANCE Mu300Update WITH
    Devices <- {"d1", "d2"}, Runs <- {"gui", "cli"}, Gui <- {"gui"}, Capacities <- {1, 2}, MaxBoots <- 2

ASSUME MuAssumption == Mu!GuiAssumption /\ Mu!BoundAssumption

Blank(p) == phone[p].slotB.does = None /\ phone[p].root.is = None

\* The address of a mu300 leads to the first device, which may suit the package or not.
MuInit ==
    /\ Mu!Init
    /\ host = "d1" /\ device["d2"].suits /\ \A d \in DOMAIN device : device[d].capacity = 1

MCInit ==
    /\ MuInit
    /\ \/ use = "phones" /\ Init /\ Blank(Second)
       \/ use = "records" /\ One!Init
       \/ use = "mu300" /\ Init /\ \A p \in Phones : Blank(p)
    /\ IF use = "mu300" THEN device["d2"].mode = "legacy"
       ELSE \A d \in DOMAIN device : device[d].mode = "part" /\ device[d].suits

MCNext ==
    /\ UNCHANGED use
    /\ \/ /\ use = "phones" /\ Next /\ UNCHANGED muVars
          /\ phone'[Second].boot = 1 /\ \A r \in Records : rec'[r].home # Second
       \/ /\ use = "records" /\ One!Next /\ UNCHANGED muVars
          /\ rec'[Other] # NoRecord => \A r \in Records : rec'[r] # NoRecord
       \/ use = "mu300" /\ Mu!Next /\ UNCHANGED vars /\ device'["d2"].found

MCSpec == MCInit /\ [][MCNext]_<<use, vars, muVars>>

\* On the other family of devices an update changes the device and the hidden area that it
\* was planned for, and is complete only when the new system was started (the properties of
\* Mu300Update).
UpdatesPlanned == Mu!ChangesOnlyPlanned /\ [](Mu!CommitsReviewedLayout /\ Mu!CompletedIsStarted)
=============================================================================
