----------------------------- MODULE MCSessions -----------------------------
(***************************************************************************)
(* The properties of the sessions of a page, and the instances TLC checks. *)
(***************************************************************************)
EXTENDS SessionController, TLC

Symmetry == Permutations(Session)

-----------------------------------------------------------------------------
(* The refinement.  A session's files are kept from the moment its          *)
(* manifest is on disk until the front end gets them back.                  *)
Stored(s) ==
    \/ ctl[s].pc = "sleepDispose"
    \/ ctl[s].state \in {"asleep", "wake-error", "waking", "restoring"}

(* Once they are listed they are frozen: a worker that dies loses them only *)
(* if the checkpoint is not finished without it.                            *)
Frozen(s) == ctl[s].pc \in {"begin", "save", "manifest"}

PlaceOf(s) ==
    CASE Closed(s)                                                          -> "closed"
      [] ~Closed(s) /\ Stored(s) /\ ~itp[s].attached                        -> "kept"
      [] ~Closed(s) /\ Stored(s) /\ itp[s].attached                         -> "handed"
      [] ~Closed(s) /\ ~Stored(s) /\ (WorkerAlive(itp[s].eng) \/ Frozen(s)) -> "live"
      [] OTHER                                                              -> "none"

FilesOf(s) ==
    IF PlaceOf(s) \notin {"live", "handed"} THEN {}
    ELSE IF WorkerAlive(itp[s].eng) \/ ~Frozen(s) THEN itp[s].ws
    ELSE IF ctl[s].pc = "begin" THEN ctl[s].list ELSE disk[s].plan

CheckpointOf(s) ==
    IF PlaceOf(s) \in {"kept", "handed"} /\ disk[s].exists /\ disk[s].manifest
      THEN disk[s].data ELSE {}

(* What is damaged once it was read does not matter to this wake.           *)
Intact(s) ==
    \/ PlaceOf(s) # "kept"
    \/ disk[s].damaged = "nothing"
    \/ /\ ctl[s].pc \in {"boot", "restore"}
       /\ disk[s].damaged = "manifest" \/ disk[s].plan \subseteq itp[s].ws

Promise(s) == INSTANCE SessionPromise WITH
    place <- PlaceOf(s), files <- FilesOf(s), saved <- CheckpointOf(s), intact <- Intact(s)

(* What the mapping reads of a session; a step that leaves it alone is a    *)
(* stutter of the promise, and need not be looked at further.               *)
Untouched(s) == UNCHANGED <<ctl[s], itp[s], disk[s]>>

(* A session wakes with exactly the files it fell asleep with, before any   *)
(* code can run in it; failed wakes, reclaims by other sessions, sweeps by  *)
(* other pages and dying workers do not cost it a file (controller.ts       *)
(* sleep(), #boot(), checkpoint.ts).                                        *)
FilesKept ==
    /\ \A s \in Session : Promise(s)!PromiseInit
    /\ [][\A s \in Session :
            Untouched(s) \/ [Promise(s)!PromiseNext]_(Promise(s)!promiseVars)]_vars

-----------------------------------------------------------------------------
(* From the moment the files to save are listed until the interpreter stops *)
(* nothing runs in it, nor waits for its turn: #open() refuses what comes   *)
(* after quiesce(), and the listing is queued behind what came before it    *)
(* (browser-python.ts #open(), #submit(); controller.ts sleep()).           *)
NothingRunsOnceListed ==
    \A s \in Session :
        ctl[s].pc \in {"begin", "save", "manifest"} => itp[s].eng # "busy" /\ ~itp[s].typed

(* Sessions at rest hold no slot unless they have an interpreter, and no    *)
(* session ever holds two: nothing a start, a crash, a reclaim or a close   *)
(* acquired is left behind (slots.ts, #releaseSlot()).                      *)
NoSlotLeaked ==
    \A s \in Session :
        /\ Cardinality(HeldBy(s)) <= 1
        /\ ctl[s].pc = "idle" /\ ctl[s].closing \in {"no", "done"} /\ ~ctl[s].reserved
              /\ HeldBy(s) # {}
           => ctl[s].state \in {"ready", "busy"}

(* Sessions that are not crashed run no more interpreters than the page has *)
(* slots for (slots.ts, MAX_LIVE_INTERPRETERS).                             *)
WithinCapacity ==
    Cardinality({s \in Session : WorkerAlive(itp[s].eng) /\ ctl[s].state # "crashed"})
        <= Capacity

(* A checkpoint with a manifest has every file of its plan, after any crash *)
(* or failure at any step of writing it (checkpoint.ts: "written LAST").    *)
ManifestMeansComplete ==
    \A s \in Session : disk[s].manifest => disk[s].data = disk[s].plan

(* Code holds the operation up: its own session's, or that of the session   *)
(* it has asked to sleep.                                                   *)
HeldUp(s) ==
    \/ WaitsForCode(s)
    \/ resv[s].at = "waiting" /\ WaitsForCode(resv[s].cur.by)

(* A session is never stuck changing its state, unless code that does not   *)
(* end holds it up: each operation comes to an end, reclaims across         *)
(* documents included, and so does close() beside it, whatever runs         *)
(* (controller.ts #exclusive(), slots.ts reserve()).                        *)
OperationsEnd ==
    \A s \in Session :
        /\ []<>(ctl[s].pc = "idle") \/ <>[]HeldUp(s)
        /\ ctl[s].closing # "no" ~> ctl[s].closing = "done"

-----------------------------------------------------------------------------
(* What comments say and the code does not always do; see the README.       *)

(* controller.ts, sleep(): "Refused - and nothing changes - when code is    *)
(* running, a file is open in Python, or the files cannot be kept."         *)
NoCodeWhileSleeping ==
    \A s \in Session : ctl[s].state = "sleeping" => itp[s].eng # "busy" /\ ~itp[s].pyopen

(* controller.ts, of a restart that failed: "No live interpreter: its       *)
(* reservation goes too."                                                   *)
NoInterpreterWithoutSlot ==
    \A s \in Session : WorkerAlive(itp[s].eng) => HeldBy(s) # {}

(* controller.ts, close(): "Stop the interpreter and delete any checkpoint. *)
(* Terminal."                                                               *)
ClosedKeepsNoCheckpoint ==
    \A s \in Session :
        ctl[s].closing = "done" /\ ctl[s].pc = "idle" /\ ~ctl[s].gone => ~disk[s].exists

(* controller.ts: "any live state -> crashed (the worker died)".            *)
ReadyHasInterpreter ==
    \A s \in Session : Live(s) => WorkerAlive(itp[s].eng)
=============================================================================
