------------------------------ MODULE Workspace ------------------------------
(***************************************************************************)
(* The disk-backed /workspace of an interpreter (browser-python,           *)
(* worker/opfs-workspace.ts): Python's files on a pool of OPFS slots, the  *)
(* leases downloads read through and the import that writes into it.       *)
(*                                                                         *)
(* One Worker, synchronous callbacks: an action is one call from Python or *)
(* one request of the page.  Directories hold no slot and are left out.    *)
(* Any call into the browser's storage may fail.  Bytes are abstracted to  *)
(* what the properties tell apart:                                         *)
(*   lost   bytes that were written are not all there                      *)
(*   part   an import has not brought all its bytes yet                    *)
(*   stale  the bytes changed after the last bump of the generation        *)
(*   torn   the bytes changed since the lease was taken                    *)
(***************************************************************************)
EXTENDS Integers, FiniteSets

CONSTANTS
    Name,        \* the names files have
    Slot,        \* the pool
    File,        \* bound: file nodes that exist at once
    Lease,       \* bound: leases open at once
    MaxOpen,     \* bound: descriptors of a kind open on one file
    NoName, NoSlot, NoFile, Staging

ASSUME WorkspaceAssumption ==
    /\ IsFiniteSet(Slot) /\ MaxOpen \in Nat \ {0}
    /\ NoName \notin Name /\ Staging \notin Name /\ Staging # NoName
    /\ NoSlot \notin Slot /\ NoFile \notin File

VARIABLES
    slot,   \* free, taken or retired
    dirty,  \* the slots whose file on disk is not empty
    file,   \* the file nodes
    lease,  \* the open leases
    imp     \* the import under way

workspaceVars == <<slot, dirty, file, lease, imp>>

NoNode == [name |-> NoName, slot |-> NoSlot, readers |-> 0, writers |-> 0, failed |-> FALSE,
           unlinked |-> FALSE, lost |-> FALSE, part |-> FALSE, stale |-> FALSE]
NoLease == [of |-> NoFile, torn |-> FALSE]
NoImport == [of |-> NoFile, target |-> NoName, whole |-> FALSE]

Init ==
    /\ slot = [s \in Slot |-> "free"]
    /\ dirty = {}
    /\ file = [f \in File |-> NoNode]
    /\ lease = [l \in Lease |-> NoLease]
    /\ imp = NoImport

-----------------------------------------------------------------------------
Opens(f) == file[f].readers + file[f].writers
Exists(f) == file[f].name # NoName
Dead(f) == ~Exists(f) /\ Opens(f) = 0
Leases(f) == {l \in Lease : lease[l].of = f}
Named(n) == {f \in File : file[f].name = n}

\* ArtifactInfo.state
State(f) ==
    CASE file[f].failed                                     -> "failed"
      [] ~file[f].failed /\ Leases(f) # {}                  -> "transferring"
      [] ~file[f].failed /\ Leases(f) = {} /\ Opens(f) > 0  -> "open"
      [] OTHER                                              -> "ready"

\* What a change of f's bytes, and a bump of its generation, leave.
Changed(node) == [node EXCEPT !.stale = TRUE]
Bumped(node) == [node EXCEPT !.stale = FALSE]
Failed(node) == [node EXCEPT !.failed = TRUE]

Torn(f) == [l \in Lease |-> IF lease[l].of = f THEN [lease[l] EXCEPT !.torn = TRUE] ELSE lease[l]]

(* Mutant: a slot goes back to the pool whether or not it could be emptied. *)
Releases_Unchecked(s) ==
    /\ slot' = [slot EXCEPT ![s] = "free"]
    /\ dirty' \in {dirty, dirty \ {s}}

(* SlotPool.  A slot that cannot be emptied is withdrawn for good.          *)
Releases(s) ==
    \/ slot' = [slot EXCEPT ![s] = "free"] /\ dirty' = dirty \ {s}
    \/ slot' = [slot EXCEPT ![s] = "retired"] /\ UNCHANGED dirty

KeepSlots == UNCHANGED <<slot, dirty>>

(* detach(): the slot goes back now, or with the last descriptor.           *)
Detached(f, files) ==
    IF Opens(f) > 0
      THEN /\ file' = [files EXCEPT ![f].name = NoName, ![f].unlinked = TRUE]
           /\ KeepSlots
      ELSE /\ file' = [files EXCEPT ![f] = NoNode]
           /\ Releases(files[f].slot)

-----------------------------------------------------------------------------
(* Python.  It may delete an import's staging file (a whole tree removed),  *)
(* and does nothing else with that hidden name.                             *)
InReach(f) == Exists(f) /\ file[f].name # Staging

\* open() of a name nothing has, for writing: the slot first, then the node.
CreateNode(f, n, s) ==
    /\ Dead(f) /\ Named(n) = {}
    /\ slot[s] = "free"
    /\ slot' = [slot EXCEPT ![s] = "taken"]
    /\ file' = [file EXCEPT ![f] = [NoNode EXCEPT !.name = n, !.slot = s, !.writers = 1,
                                                  !.part = (n = Staging)]]

Create(f, n, s) ==
    /\ n # Staging
    /\ CreateNode(f, n, s)
    /\ UNCHANGED <<dirty, lease, imp>>

\* take() finds a slot that cannot be emptied: withdrawn, and the call fails.
TakeFails(s) ==
    /\ slot[s] = "free"
    /\ slot' = [slot EXCEPT ![s] = "retired"]
    /\ UNCHANGED <<dirty, file, lease, imp>>

OpenRead(f) ==
    /\ InReach(f) /\ file[f].readers < MaxOpen
    /\ file' = [file EXCEPT ![f].readers = @ + 1]
    /\ UNCHANGED <<slot, dirty, lease, imp>>

\* For writing, emptying the file first or not; refused while it is leased.
OpenWrite(f, truncates) ==
    /\ InReach(f) /\ Leases(f) = {} /\ file[f].writers < MaxOpen
    /\ LET node == IF truncates THEN Bumped(file[f]) ELSE file[f]
       IN file' = [file EXCEPT ![f] = [node EXCEPT !.writers = @ + 1]]
    /\ dirty' = IF truncates THEN dirty \ {file[f].slot} ELSE dirty
    /\ UNCHANGED <<slot, lease, imp>>

\* os.truncate(), or the emptying of an open(): what it leaves is unknown
\* when it fails, and then the open fails too.
Truncate(f) ==
    /\ InReach(f) /\ Leases(f) = {}
    /\ \/ file' = [file EXCEPT ![f] = Bumped(@)]
       \/ file' = [file EXCEPT ![f] = [Failed(Changed(@)) EXCEPT !.lost = TRUE]]
    /\ UNCHANGED <<slot, dirty, lease, imp>>

Dup(f) ==
    /\ imp.of # f
    /\ \/ /\ file[f].readers \in 1..(MaxOpen - 1)
          /\ file' = [file EXCEPT ![f].readers = @ + 1]
       \/ /\ file[f].writers \in 1..(MaxOpen - 1)
          /\ file' = [file EXCEPT ![f].writers = @ + 1]
    /\ UNCHANGED <<slot, dirty, lease, imp>>

\* A short write is a full disk: the file has failed, and so has the call.
Writes(f, ok) ==
    /\ file[f].writers > 0
    /\ lease' = Torn(f)
    /\ dirty' = dirty \cup {file[f].slot}
    /\ file' = [file EXCEPT ![f] =
                   IF ok THEN Bumped(Changed(@)) ELSE [Failed(Changed(@)) EXCEPT !.lost = TRUE]]
    /\ UNCHANGED slot

Write(f) ==
    /\ imp.of # f
    /\ \E ok \in BOOLEAN : Writes(f, ok)
    /\ UNCHANGED imp

Closing(f, kind) ==
    IF kind = "read" THEN [file[f] EXCEPT !.readers = @ - 1] ELSE [file[f] EXCEPT !.writers = @ - 1]

\* The last close gives an unlinked file's slot back; of any other file it
\* flushes the bytes, and may fail to.
Closes(f, kind) ==
    /\ kind = "read" => file[f].readers > 0
    /\ kind = "write" => file[f].writers > 0
    /\ IF Opens(f) > 1
         THEN file' = [file EXCEPT ![f] = Closing(f, kind)] /\ KeepSlots
         ELSE IF file[f].unlinked
           THEN file' = [file EXCEPT ![f] = NoNode] /\ Releases(file[f].slot)
           ELSE /\ \E flushed \in BOOLEAN :
                     file' = [file EXCEPT ![f] =
                         IF flushed THEN Closing(f, kind)
                         ELSE [Failed(Closing(f, kind)) EXCEPT !.lost = TRUE]]
                /\ KeepSlots

Close(f, kind) ==
    /\ imp.of # f
    /\ Closes(f, kind)
    /\ UNCHANGED <<lease, imp>>

\* A read or an explicit flush that fails marks the file, and says so to Python.
ReadFails(f) ==
    /\ Opens(f) > 0 /\ imp.of # f /\ ~file[f].failed
    /\ file' = [file EXCEPT ![f] = Failed(@)]
    /\ UNCHANGED <<slot, dirty, lease, imp>>

Unlink(f) ==
    /\ Exists(f) /\ Leases(f) = {}
    /\ Detached(f, file)
    /\ UNCHANGED <<lease, imp>>

(* Mutant: what had the name only loses it.                                 *)
Renames_KeepsOld(f, n) ==
    /\ Leases(f) = {}
    /\ \A g \in Named(n) \ {f} : Leases(g) = {}
    /\ file' = [g \in File |->
          IF g = f THEN Bumped([file[f] EXCEPT !.name = n])
          ELSE IF g \in Named(n) THEN NoNode ELSE file[g]]
    /\ KeepSlots /\ UNCHANGED lease

\* os.rename() and os.replace(): what had the name loses its slot as an
\* unlinked file does.
Renames(f, n) ==
    /\ Leases(f) = {}
    /\ \A g \in Named(n) \ {f} : Leases(g) = {}
    /\ LET moved == [file EXCEPT ![f] = Bumped([@ EXCEPT !.name = n])]
       IN IF Named(n) \subseteq {f}
            THEN file' = moved /\ KeepSlots
            ELSE \E g \in Named(n) \ {f} : Detached(g, moved)
    /\ UNCHANGED lease

Rename(f, n) ==
    /\ InReach(f)
    /\ Renames(f, n)
    /\ UNCHANGED imp

-----------------------------------------------------------------------------
(* The page.                                                                *)

\* list() and stat(): a size the browser will not say fails the file.
SizeUnreadable(f) ==
    /\ Exists(f) /\ ~file[f].failed
    /\ file' = [file EXCEPT ![f] = Bumped(Failed(@))]
    /\ UNCHANGED <<slot, dirty, lease, imp>>

(* Mutant: a lease on a file somebody holds open.                           *)
OpenLease_WhileOpen(l, f) ==
    /\ lease[l].of = NoFile
    /\ InReach(f) /\ ~file[f].failed
    /\ lease' = [lease EXCEPT ![l] = [NoLease EXCEPT !.of = f]]
    /\ UNCHANGED <<slot, dirty, file, imp>>

OpenLease(l, f) ==
    /\ lease[l].of = NoFile
    /\ InReach(f) /\ ~file[f].failed /\ Opens(f) = 0
    /\ lease' = [lease EXCEPT ![l] = [NoLease EXCEPT !.of = f]]
    /\ UNCHANGED <<slot, dirty, file, imp>>

CloseLease(l) ==
    /\ lease[l].of # NoFile
    /\ lease' = [lease EXCEPT ![l] = NoLease]
    /\ UNCHANGED <<slot, dirty, file, imp>>

Delete(f) ==
    /\ Opens(f) = 0
    /\ Unlink(f)

\* A name that is free, or that may be replaced now.
BeginImport(f, n, s) ==
    /\ imp.of = NoFile
    /\ \A g \in Named(n) : Opens(g) = 0 /\ Leases(g) = {}
    /\ CreateNode(f, Staging, s)
    /\ imp' = [of |-> f, target |-> n, whole |-> FALSE]
    /\ UNCHANGED <<dirty, lease>>

WriteImport ==
    /\ imp.of # NoFile /\ ~imp.whole
    /\ \E ok, last \in BOOLEAN :
          /\ Writes(imp.of, ok)
          /\ imp' = [imp EXCEPT !.whole = ok /\ last]

(* Mutant: an import is committed although its flush failed or bytes lack.  *)
MayCommit_Unchecked ==
    /\ Exists(imp.of)
    /\ \A g \in Named(imp.target) : Leases(g) = {}

\* endImport() closes the staged file and looks it up again.  Committed, it is
\* renamed into place, unless Python deleted it, it is not whole, a write or
\* the flush failed, or a download holds what it would replace.
MayCommit ==
    /\ imp.whole /\ Exists(imp.of) /\ ~file[imp.of].failed
    /\ \A g \in Named(imp.target) : Leases(g) = {}

CommitImport ==
    /\ imp.of # NoFile /\ MayCommit
    /\ LET placed == [file EXCEPT ![imp.of] =
                         Bumped([@ EXCEPT !.name = imp.target, !.writers = 0, !.part = ~imp.whole])]
       IN IF Named(imp.target) = {}
            THEN file' = placed /\ KeepSlots
            ELSE \E g \in Named(imp.target) : Detached(g, placed)
    /\ imp' = NoImport
    /\ UNCHANGED lease

\* Otherwise, or when it is abandoned, nothing is left of it.
DropImport ==
    /\ imp.of # NoFile
    /\ file' = [file EXCEPT ![imp.of] = NoNode]
    /\ Releases(file[imp.of].slot)
    /\ imp' = NoImport
    /\ UNCHANGED lease

-----------------------------------------------------------------------------
Python(f) ==
    \/ \E n \in Name, s \in Slot : Create(f, n, s)
    \/ OpenRead(f) \/ \E truncates \in BOOLEAN : OpenWrite(f, truncates)
    \/ Truncate(f) \/ Dup(f) \/ Write(f)
    \/ \E kind \in {"read", "write"} : Close(f, kind)
    \/ ReadFails(f) \/ Unlink(f) \/ \E n \in Name : Rename(f, n)

Page(f) ==
    \/ SizeUnreadable(f) \/ Delete(f)
    \/ \E l \in Lease : OpenLease(l, f)
    \/ \E n \in Name, s \in Slot : BeginImport(f, n, s)

Next ==
    \/ \E f \in File : Python(f) \/ Page(f)
    \/ \E l \in Lease : CloseLease(l)
    \/ \E s \in Slot : TakeFails(s)
    \/ WriteImport \/ CommitImport \/ DropImport

Spec == Init /\ [][Next]_workspaceVars
=============================================================================
