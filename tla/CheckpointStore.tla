-------------------------- MODULE CheckpointStore --------------------------
(***************************************************************************)
(* Checkpoints of sleeping sessions (browser-python/src/session/           *)
(* checkpoint.ts): a directory per session in the origin private file      *)
(* system, a data file per workspace file, and the manifest written last.  *)
(* A Web Lock per checkpoint says that a living document still owns it;    *)
(* opening a store removes the checkpoints nobody owns.                    *)
(*                                                                         *)
(* A file is a name together with its bytes.  `damaged` is what a digest,  *)
(* a size or the seal of the manifest will no longer match.                *)
(***************************************************************************)
EXTENDS Naturals, FiniteSets

CONSTANTS Id,        \* checkpoint ids: the sessions
          File,      \* workspace files
          Nobody

VARIABLES
    disk,    \* the checkpoint directories: they outlive every document
    owner    \* who holds the Web Lock of a checkpoint (`owned`)

storeVars == <<disk, owner>>

Directory == [exists : BOOLEAN, plan : SUBSET File, data : SUBSET File,
              manifest : BOOLEAN, writing : BOOLEAN, marked : BOOLEAN,
              damaged : {"nothing", "manifest", "file"}]

Absent == [exists |-> FALSE, plan |-> {}, data |-> {}, manifest |-> FALSE,
           writing |-> FALSE, marked |-> FALSE, damaged |-> "nothing"]

StoreTypeOK(Page) ==
    /\ disk \in [Id -> Directory]
    /\ owner \in [Id -> Page \cup {Nobody}]

StoreInit ==
    /\ disk = [i \in Id |-> Absent]
    /\ owner = [i \in Id |-> Nobody]

(* begin(): own the checkpoint, remove what is left of an older one, create *)
(* the directory.                                                           *)
MayOwn(i, p) == owner[i] \in {Nobody, p}
BeginAt(i, p, plan) ==
    /\ MayOwn(i, p)
    /\ disk' = [disk EXCEPT ![i] = [Absent EXCEPT !.exists = TRUE, !.plan = plan]]
    /\ owner' = [owner EXCEPT ![i] = p]

(* file(): one planned file, closed with the size it was planned with.      *)
SaveFile(i, f) ==
    /\ disk[i].exists
    /\ disk' = [disk EXCEPT ![i].data = @ \cup {f}]
    /\ UNCHANGED owner

(* commit(): refused until every planned file was closed; the manifest is   *)
(* opened, and it is there once it is closed.                               *)
AllSaved(i) == disk[i].data = disk[i].plan
OpenManifest(i) ==
    /\ disk[i].exists
    /\ disk' = [disk EXCEPT ![i].writing = TRUE]
    /\ UNCHANGED owner
CloseManifest(i) ==
    /\ disk[i].writing
    /\ disk' = [disk EXCEPT ![i].writing = FALSE, ![i].manifest = TRUE]
    /\ UNCHANGED owner

(* discard(), abort(): remove the directory - which the browser refuses,    *)
(* and the code ignores, while a file in it is being written - and give up  *)
(* its ownership.                                                           *)
DiscardAt(i) ==
    /\ disk' = IF disk[i].writing THEN disk ELSE [disk EXCEPT ![i] = Absent]
    /\ owner' = [owner EXCEPT ![i] = Nobody]
AbortAt(i) ==
    /\ disk' = [disk EXCEPT ![i] = Absent]
    /\ owner' = [owner EXCEPT ![i] = Nobody]

(* read(): what the verified manifest says, or why there is none.           *)
ReadOutcome(i) ==
    CASE ~disk[i].exists                     -> "corrupt"
      [] disk[i].exists /\ disk[i].marked    -> "quarantined"
      [] disk[i].exists /\ ~disk[i].marked
            /\ ~(disk[i].manifest /\ disk[i].damaged # "manifest") -> "corrupt"
      [] OTHER                               -> "ok"

(* quarantine(): marked, kept and refused.  Creates the directory.          *)
QuarantineAt(i) ==
    /\ disk' = [disk EXCEPT ![i].exists = TRUE, ![i].marked = TRUE]
    /\ UNCHANGED owner

(* Opening a store: each abandoned checkpoint goes, under its own lock.     *)
SweepAt(i) ==
    /\ disk[i].exists
    /\ owner[i] = Nobody
    /\ disk' = [disk EXCEPT ![i] = Absent]
    /\ UNCHANGED owner

(* The environment: the manifest or a stored file changes.                  *)
DamageAt(i) ==
    /\ disk[i].manifest
    /\ disk[i].damaged = "nothing"
    /\ \E what \in {"manifest"} \cup {"file" : f \in disk[i].data} :
          disk' = [disk EXCEPT ![i].damaged = what]
    /\ UNCHANGED owner
=============================================================================
