---------------------------- MODULE ReleaseStore ----------------------------
(***************************************************************************)
(* What the releases directory and the `current` symlink of a site promise *)
(* to the web server and the workers that read them, whatever commands     *)
(* run: a release is only ever added as the newest one, `current` only     *)
(* ever moves to a release that is on disk, and a release is only ever     *)
(* removed while `current` points elsewhere.                               *)
(***************************************************************************)
EXTENDS Naturals

CONSTANT ReleaseIds         \* identifiers, ordered like the timestamps

VARIABLES releases,         \* the releases on disk
          current           \* where the symlink points, 0 before the first

storeVars == <<releases, current>>

StoreInit == releases = {} /\ current = 0

Add(r) ==
  /\ \A s \in releases : s < r
  /\ releases' = releases \cup {r}
  /\ UNCHANGED current

Switch(r) ==
  /\ r \in releases
  /\ current' = r
  /\ UNCHANGED releases

Drop(r) ==
  /\ r \in releases
  /\ r # current
  /\ releases' = releases \ {r}
  /\ UNCHANGED current

StoreNext == \E r \in ReleaseIds : Add(r) \/ Switch(r) \/ Drop(r)

StoreSpec == StoreInit /\ [][StoreNext]_storeVars

=============================================================================
