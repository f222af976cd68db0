----------------------------- MODULE MCWorkspace -----------------------------
(***************************************************************************)
(* The properties of the workspace, and the instance TLC checks.           *)
(***************************************************************************)
EXTENDS Workspace, TLC

WorkspaceSymmetry ==
    Permutations(File) \cup Permutations(Slot) \cup Permutations(Name) \cup Permutations(Lease)

(* Every slot that is taken is the storage of exactly one file that has a    *)
(* name or a descriptor, and every such file has one: no sequence of         *)
(* overwrites, deletions of open files, duplicated descriptors and failed    *)
(* imports loses a slot or gives one to two files (opfs-workspace.ts         *)
(* detach(), rename(), close(), endImport()).                                *)
SlotsAccounted ==
    /\ \A s \in Slot : slot[s] = "taken" <=>
          \E f \in File : /\ file[f].slot = s /\ ~Dead(f)
                          /\ \A g \in File \ {f} : file[g].slot # s
    /\ \A f \in File : ~Dead(f) => file[f].slot # NoSlot

(* No file ever inherits the bytes of another: a slot that is free is empty  *)
(* (opfs-workspace.ts SlotPool, truncateExactly()).                          *)
FreeSlotsAreEmpty == \A s \in dirty : slot[s] # "free"

(* A file offered for download is whole: nothing written to it was lost, no  *)
(* import stopped half-way under its name, and its generation tells these    *)
(* bytes from any it had before (opfs-workspace.ts "STAGING, NOT             *)
(* STREAMING", generation).                                                  *)
ReadyIsWhole ==
    \A f \in File : Exists(f) /\ file[f].name # Staging /\ State(f) = "ready"
        => ~file[f].lost /\ ~file[f].part /\ ~file[f].stale

(* While a download reads a file nothing changes, removes or replaces it,    *)
(* whatever was open when it began (opfs-workspace.ts openLease(): "during   *)
(* it the file must be unchanged").                                          *)
LeasedIsFrozen ==
    \A l \in Lease : lease[l].of # NoFile
        => /\ Exists(lease[l].of) /\ file[lease[l].of].writers = 0
           /\ ~lease[l].torn
=============================================================================
