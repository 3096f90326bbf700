------------------------------- MODULE Hotfix -------------------------------
(***************************************************************************)
(* The repair of an installation package on the computer: an overlay made  *)
(* by hotfix.py is extracted over the package, apply_hotfix.py checks both *)
(* and brings the manifest up to date, and inspect_package decides whether *)
(* the package may be used.                                                *)
(*                                                                         *)
(* Extraction and application may be interrupted anywhere and repeated,    *)
(* with this or another overlay; one of them runs at a time.  A file that  *)
(* was being written is torn.  Every overlay ships the same host programs  *)
(* and a backend whose dependencies change from release to release.        *)
(***************************************************************************)
EXTENDS Naturals

CONSTANTS
    Patches, \* overlays, by date
    Deps     \* dependencies of the Windows backend

PatchesAssumption == Patches \subseteq Nat \ {0}

VARIABLES
    ships,    \* the dependencies in the package, 0, and in each overlay
    file,     \* the files, each by the release it is from
    manifest, \* its checksums, and the overlay it is of
    manifests, \* those that were kept
    members,  \* members of an archive still to be extracted
    from,     \* the archive
    applier,  \* where the applier is
    obsolete, \* files it has still to remove
    removed   \* files that it removed, in this or an earlier attempt

vars == <<ships, file, manifest, manifests, members, from, applier, obsolete, removed>>
package == <<file, manifest, manifests, removed>>
extraction == <<members, from>>

\* Payloads of the device; a program for another system; the Windows programs and backend.
Unpatched == {"payload", "mac"}
Host == {"exe", "backend"}
Backend == {"backend"} \cup Deps
Names == Unpatched \cup Host \cup Deps \cup {"patch"}

\* Releases of a file.
Original == 0
None == 100
Torn == 101
Releases == {Original} \cup Patches
Contents == Releases \cup {None, Torn}

\* build_patch: the files an overlay names in patch.json.
Files(p) == Host \cup ships[p]
Shipped == Unpatched \cup Host \cup ships[Original]
Listed == DOMAIN manifest.list
Manifest(list, id) == [list |-> list, id |-> id]
AsShipped == Manifest([n \in Shipped |-> Original], Original)

\* The overlay whose patch.json is there, if it is whole.
Overlay == file["patch"]

-----------------------------------------------------------------------------
(* Extraction *)

Extract(p) ==
    /\ applier = "off" /\ members = {}
    /\ members' = Files(p) \cup {"patch"} /\ from' = p
    /\ UNCHANGED <<ships, package, applier, obsolete>>

Member(n) ==
    /\ n \in members
    /\ file' = [file EXCEPT ![n] = from]
    /\ members' = members \ {n} /\ removed' = removed \ {n}
    /\ UNCHANGED <<ships, manifest, manifests, from, applier, obsolete>>

\* The extraction is interrupted in a file.
Interrupt(n) ==
    /\ n \in members
    /\ file' = [file EXCEPT ![n] = Torn]
    /\ members' = {} /\ removed' = removed \ {n}
    /\ UNCHANGED <<ships, manifest, manifests, from, applier, obsolete>>

-----------------------------------------------------------------------------
(* Application *)

Goto(p) == applier' = p /\ UNCHANGED <<ships, package, extraction, obsolete>>

OverlayWhole == Overlay \in Patches /\ \A n \in Files(Overlay) : file[n] = Overlay

\* Variant: whatever was applied before.
AnyAge == TRUE

\* The overlay is not older than the one applied.
NotOlder == manifest.id <= Overlay

\* Variant: every file of the package must still be there.
OthersPresent == \A n \in Listed \ (Files(Overlay) \cup {"patch"}) : file[n] = manifest.list[n]

\* What the overlay does not replace is as the manifest says; a part of the backend may be
\* missing, since an earlier attempt removes what is obsolete.
OthersWhole ==
    \A n \in Listed \ (Files(Overlay) \cup {"patch"}) :
        file[n] = manifest.list[n] \/ (n \in Backend /\ file[n] = None)

\* Everything is checked before anything is changed.
Check ==
    /\ applier = "off" /\ members = {}
    /\ Goto(IF OverlayWhole /\ NotOlder /\ OthersWhole THEN "keep" ELSE "refused")

\* The manifest as it is, unless a file of its name is there.
Keep ==
    /\ applier = "keep"
    /\ IF \E k \in manifests : k.manifest = manifest
       THEN UNCHANGED manifests /\ applier' = "kept"
       ELSE manifests' = manifests \cup {[manifest |-> manifest, whole |-> FALSE]} /\ applier' = "keeping"
    /\ UNCHANGED <<ships, file, manifest, removed, extraction, obsolete>>

KeepRest ==
    /\ applier = "keeping"
    /\ manifests' = {IF k.manifest = manifest THEN [k EXCEPT !.whole = TRUE] ELSE k : k \in manifests}
    /\ applier' = "kept"
    /\ UNCHANGED <<ships, file, manifest, removed, extraction, obsolete>>

\* Variant: whatever the overlay does not have.
ObsoleteOfAll == Listed \ Files(Overlay)

\* Parts of the recorded backend that the overlay's backend does not have.
Obsolete == (Listed \cap Backend) \ Files(Overlay)

Collect ==
    /\ applier = "kept"
    /\ obsolete' = Obsolete /\ applier' = "remove"
    /\ UNCHANGED <<ships, package, extraction>>

Remove(n) ==
    /\ applier = "remove" /\ n \in obsolete
    /\ obsolete' = obsolete \ {n}
    /\ file' = [file EXCEPT ![n] = None] /\ removed' = removed \cup {n}
    /\ UNCHANGED <<ships, manifest, manifests, extraction, applier>>

\* Variant: what was removed stays in the list.
Added == [n \in Listed \cup Files(Overlay) \cup {"patch"} |->
             IF n \in Files(Overlay) \cup {"patch"} THEN Overlay ELSE manifest.list[n]]

\* The new checksums: without what was removed, with what the overlay brought.
Updated == [n \in (Listed \ Obsolete) \cup Files(Overlay) \cup {"patch"} |->
               IF n \in Files(Overlay) \cup {"patch"} THEN Overlay ELSE manifest.list[n]]

\* In one step, from a file beside it.
Replace ==
    /\ applier = "remove" /\ obsolete = {}
    /\ manifest' = Manifest(Updated, Overlay) /\ applier' = "done"
    /\ UNCHANGED <<ships, file, manifests, removed, extraction, obsolete>>

\* The window is closed.
Kill ==
    /\ applier \notin {"off", "done", "refused"}
    /\ applier' = "off" /\ obsolete' = {}
    /\ UNCHANGED <<ships, package, extraction>>

Read == applier \in {"done", "refused"} /\ Goto("off")

-----------------------------------------------------------------------------

\* Variant: the payloads of the device only.
PayloadsMatch == file["payload"] = manifest.list["payload"]

\* inspect_package: every file of the manifest.
Accepts == \A n \in Listed : file[n] = manifest.list[n]

Init ==
    /\ ships \in [Releases -> SUBSET Deps]
    /\ file = [n \in Names |-> IF n \in Shipped THEN Original ELSE None]
    /\ manifest = AsShipped
    /\ manifests = {} /\ members = {} /\ from = Original /\ applier = "off" /\ obsolete = {} /\ removed = {}

User == \/ \E p \in Patches : Extract(p)
        \/ \E n \in Names : Member(n) \/ Interrupt(n)
        \/ Kill \/ Read
Applier == \/ Check \/ Keep \/ KeepRest \/ Collect
           \/ \E n \in Deps : Remove(n)
           \/ Replace
Next == User \/ Applier

Spec == Init /\ [][Next]_vars

-----------------------------------------------------------------------------
(* Properties *)

\* Every variable holds what its declaration says; a finished applier has left nothing undone.
TypeOK ==
    /\ file \in [Names -> Contents] /\ from \in Releases
    /\ Listed \subseteq Names /\ manifest.id \in Releases
    /\ \A n \in Listed : manifest.list[n] \in Releases
    /\ members \subseteq Names /\ obsolete \subseteq Deps /\ removed \subseteq Deps
    /\ applier \in {"off", "keep", "keeping", "kept", "remove", "done", "refused"}
    /\ applier # "remove" => obsolete = {}
    /\ \A n \in removed : file[n] = None

\* A repaired package can be used, however often extraction and application were
\* interrupted before: "supports repeated application".
CompletedIsAccepted == applier = "done" => Accepts

\* A package that is accepted has its Windows programs and backend from one release, the one
\* its manifest names, and its payloads from the original.
AcceptedIsOneRelease ==
    Accepts => /\ \A n \in (Host \cup Deps) \cap Listed : file[n] = manifest.id
               /\ \A n \in Unpatched : file[n] = Original

\* What an earlier attempt removed is no reason to refuse the next one: the overlay is not
\* whole or older, or a file is not the package's, or missing and not by the applier.
RefusedForCause ==
    applier = "refused" =>
        \/ ~OverlayWhole \/ manifest.id > Overlay
        \/ \E n \in Listed \ (Files(Overlay) \cup {"patch"}) :
              file[n] # manifest.list[n] /\ n \notin removed

\* A manifest is never replaced by an older one.
NeverOlder == [][manifest'.id >= manifest.id]_vars

\* After a repair the manifest of the package as it was shipped is there, whole: the applier
\* "retains the original manifest".
\* Does not hold: README, section 10.
OriginalKept == manifest.id # Original => [manifest |-> AsShipped, whole |-> TRUE] \in manifests
=============================================================================
