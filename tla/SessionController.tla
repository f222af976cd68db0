-------------------------- MODULE SessionController --------------------------
(***************************************************************************)
(* The sessions of one page (browser-python/src/session/controller.ts)     *)
(* over their slots and their checkpoints.  Every await of an operation is *)
(* a value of pc; between two of them the user, the other sessions, the    *)
(* interpreter's worker, the store of another page and the browser act.    *)
(***************************************************************************)
EXTENDS SlotBroker, FiniteSetsExt

CONSTANTS File, Nobody,
          MaxGrants       \* bound: slots granted before a session may ask again

VARIABLES
    disk, owner,   \* the checkpoint store
    ctl,           \* the controller of each session
    itp            \* its interpreter: the engine and what runs in it

store == INSTANCE CheckpointStore WITH Id <- Session

vars == <<brokerVars, disk, owner, ctl, itp>>

Page == Session \cup {Document}

ASSUME NobodyAssumption == Nobody \notin Page

SessionState == {"configured", "starting", "restoring", "ready", "busy", "sleeping", "asleep",
                 "waking", "wake-error", "crashed", "closed"}

(* Where the pending operation (#pending) is suspended, and, apart from it, *)
(* where close() is, which excludes nobody.                                 *)
BootAt == {"predispose", "reserve", "read", "boot", "restore", "starter", "discard",
           "unwind"}
SleepAt == {"quiesce", "quiesced", "list", "begin", "save", "manifest",
            "abort", "sleepDispose"}
RestartAt == {"restartReserve", "restartBoot", "restartStarter"}
PendingAt == {"idle"} \cup BootAt \cup SleepAt \cup RestartAt
ClosingAt == {"no", "dispose", "discard", "done"}

EngineState == {"none", "starting", "ready", "busy", "error"}
WorkerAlive(e) == e \in {"starting", "ready", "busy"}

TypeOK ==
    /\ BrokerTypeOK
    /\ store!StoreTypeOK(Page)
    /\ ctl \in [Session -> [state : SessionState, pc : PendingAt, waking : BOOLEAN,
                            corrupt : BOOLEAN, closing : ClosingAt, slot : Nat,
                            reserved : BOOLEAN, gone : BOOLEAN, list : SUBSET File]]
    /\ itp \in [Session -> [eng : EngineState, dying : BOOLEAN, attached : BOOLEAN,
                            quiesced : BOOLEAN, typed : BOOLEAN, behind : BOOLEAN,
                            pyopen : BOOLEAN, ws : SUBSET File]]

(* typed: the front end submitted something that has not begun to run;      *)
(* behind: what the pending operation asks the engine is queued behind it.  *)
NoInterpreter == [eng |-> "none", dying |-> FALSE, attached |-> FALSE, quiesced |-> FALSE,
                  typed |-> FALSE, behind |-> FALSE, pyopen |-> FALSE, ws |-> {}]
Configured == [state |-> "configured", pc |-> "idle", waking |-> FALSE, corrupt |-> FALSE,
               closing |-> "no", slot |-> 0, reserved |-> FALSE, gone |-> FALSE, list |-> {}]

(* A chooser may have reserved a slot before its session existed.           *)
Init ==
    /\ scoped \in BOOLEAN
    /\ resv = [s \in Session |-> NoCall]
    /\ store!StoreInit
    /\ itp = [s \in Session |-> NoInterpreter]
    /\ \E chosen \in {{}} \cup {{s} : s \in Session} :
          /\ held = {[by |-> s, n |-> 1, claimed |-> FALSE] : s \in chosen}
          /\ issued = [s \in Session |-> IF s \in chosen THEN 1 ELSE 0]
          /\ ctl = [s \in Session |-> [Configured EXCEPT !.reserved = s \in chosen]]

Live(s) == ctl[s].state \in {"ready", "busy"}
Closed(s) == ctl[s].state = "closed"
(* holder.idle()                                                            *)
Idle == {s \in Session : ctl[s].state = "ready" /\ ctl[s].pc = "idle" /\ ~ctl[s].gone}
MayAskAgain ==
    MapThenSumSet(LAMBDA s : issued[s], Session)
        + Cardinality({s \in Session : resv[s].at \notin {"none", "granted", "denied"}}) < MaxGrants
(* #set(): a closed session stays closed.                                   *)
SetTo(s, state) == IF Closed(s) THEN "closed" ELSE state
At(s, pc) == ctl[s].pc = pc /\ ~ctl[s].gone

Move(s, pc) == ctl' = [ctl EXCEPT ![s].pc = pc]
Settle(s, state) == ctl' = [ctl EXCEPT ![s].pc = "idle", ![s].waking = FALSE,
                                       ![s].corrupt = FALSE, ![s].state = SetTo(s, state)]

(* #releaseSlot() within a step that leaves the broker's calls alone.       *)
ReleaseSlot(s) ==
    /\ held' = Without(s)
    /\ UNCHANGED <<scoped, issued, resv>>

(* #drop(): the front end's engine is detached, its slot goes with it, and  *)
(* disposeAsync() lets the worker shut down in its own time.                *)
Dropped(s) == [NoInterpreter EXCEPT !.dying = itp[s].dying \/ WorkerAlive(itp[s].eng)]
NewEngine(s, attach) == [NoInterpreter EXCEPT !.eng = "starting", !.attached = attach]

-----------------------------------------------------------------------------
(* #boot(): start() and wake().                                             *)

(* The part before the first await: a dead engine goes first.  A slot that  *)
(* was reserved for the session is claimed instead of asking for one.       *)
BootCall(s, waking, fields) ==
    IF itp[s].eng # "none"
      THEN /\ ctl' = [ctl EXCEPT ![s] = [fields EXCEPT !.pc = "predispose", !.waking = waking,
                                                       !.slot = 0]]
           /\ itp' = [itp EXCEPT ![s] = Dropped(s)]
           /\ held' = IF fields.slot # 0 THEN Without(s) ELSE held
           /\ UNCHANGED <<issued, resv>>
      ELSE /\ ctl' = [ctl EXCEPT ![s] = [fields EXCEPT !.pc = "reserve", !.waking = waking,
                                                       !.reserved = FALSE]]
           /\ UNCHANGED itp
           /\ IF fields.reserved
                THEN /\ held' = {[r EXCEPT !.claimed = @ \/ r.by = s] : r \in held}
                     /\ resv' = [resv EXCEPT ![s] = [NoCall EXCEPT !.at = "granted"]]
                     /\ UNCHANGED issued
                ELSE ReserveCall(s)

Start(s) ==
    /\ At(s, "idle")
    /\ ctl[s].state \in {"configured", "crashed"}
    /\ MayAskAgain
    /\ BootCall(s, FALSE, ctl[s])
    /\ UNCHANGED <<scoped, disk, owner>>

Wake(s) ==
    /\ At(s, "idle")
    /\ ctl[s].state \in {"asleep", "wake-error"}
    /\ MayAskAgain
    /\ BootCall(s, TRUE, ctl[s])
    /\ UNCHANGED <<scoped, disk, owner>>

DeadEngineGone(s) ==
    /\ At(s, "predispose")
    /\ ~itp[s].dying
    /\ ReserveCall(s)
    /\ Move(s, "reserve")
    /\ UNCHANGED <<scoped, disk, owner, itp>>

(* No slot: a waking session stays asleep, a starting one what it was.      *)
NoSlotToBoot(s) ==
    /\ At(s, "reserve")
    /\ resv[s].at = "denied"
    /\ resv' = [resv EXCEPT ![s] = NoCall]
    /\ Settle(s, IF ctl[s].waking THEN "asleep" ELSE ctl[s].state)
    /\ UNCHANGED <<scoped, held, issued, disk, owner, itp>>

(* Mutant: the slot that comes too late is kept.                            *)
SlotTooLate_Keeps(s) ==
    /\ ctl[s].pc \in {"reserve", "restartReserve"}
    /\ ~ctl[s].gone
    /\ resv[s].at = "granted"
    /\ Closed(s)
    /\ resv' = [resv EXCEPT ![s] = NoCall]
    /\ Settle(s, "closed")
    /\ UNCHANGED <<scoped, held, issued, disk, owner, itp>>

(* Closed while the slot was being reserved: it is given back.              *)
SlotTooLate(s) ==
    /\ ctl[s].pc \in {"reserve", "restartReserve"}
    /\ ~ctl[s].gone
    /\ resv[s].at = "granted"
    /\ Closed(s)
    /\ resv' = [resv EXCEPT ![s] = NoCall]
    /\ held' = Without(s)
    /\ Settle(s, "closed")
    /\ UNCHANGED <<scoped, issued, disk, owner, itp>>

SlotToBoot(s) ==
    /\ At(s, "reserve")
    /\ resv[s].at = "granted"
    /\ ~Closed(s)
    /\ resv' = [resv EXCEPT ![s] = NoCall]
    /\ ctl' = [ctl EXCEPT ![s].slot = issued[s],
                          ![s].state = IF ctl[s].waking THEN "waking" ELSE "starting",
                          ![s].pc = IF ctl[s].waking THEN "read" ELSE "boot"]
    /\ itp' = IF ctl[s].waking THEN itp ELSE [itp EXCEPT ![s] = [NewEngine(s, TRUE) EXCEPT
                                                                   !.dying = itp[s].dying]]
    /\ UNCHANGED <<scoped, held, issued, disk, owner>>

(* Mutant: the front end gets the engine before its files are back.         *)
ManifestRead_Attaches(s) ==
    /\ At(s, "read")
    /\ store!ReadOutcome(s) = "ok"
    /\ ~Closed(s)
    /\ Move(s, "boot")
    /\ itp' = [itp EXCEPT ![s] = NewEngine(s, TRUE)]
    /\ UNCHANGED <<brokerVars, disk, owner>>

(* The manifest verified: only now is there an engine, and the front end    *)
(* does not get it yet.                                                     *)
ManifestRead(s) ==
    /\ At(s, "read")
    /\ store!ReadOutcome(s) = "ok"
    /\ ~Closed(s)
    /\ Move(s, "boot")
    /\ itp' = [itp EXCEPT ![s] = NewEngine(s, FALSE)]
    /\ UNCHANGED <<brokerVars, disk, owner>>

(* engine.start() resolved.  A new engine was attached before: the starter, *)
(* if there is one, takes its turn behind what was submitted meanwhile.     *)
Booted(s) ==
    /\ At(s, "boot")
    /\ itp[s].eng = "starting"
    /\ ~Closed(s)
    /\ \E runStarter \in BOOLEAN :
          itp' = [itp EXCEPT ![s].eng = "ready", ![s].behind = runStarter /\ itp[s].typed]
    /\ ctl' = [ctl EXCEPT ![s].pc = IF ctl[s].waking THEN "restore" ELSE "starter",
                          ![s].state = IF ctl[s].waking THEN "restoring" ELSE @]
    /\ UNCHANGED <<brokerVars, disk, owner>>

(* One file verified as it streams into the workspace.                      *)
FileRestored(s) ==
    /\ At(s, "restore")
    /\ itp[s].eng = "ready"
    /\ ~Closed(s)
    /\ disk[s].exists /\ disk[s].damaged # "file"
    /\ \E f \in disk[s].data \ itp[s].ws : itp' = [itp EXCEPT ![s].ws = @ \cup {f}]
    /\ UNCHANGED <<brokerVars, disk, owner, ctl>>

(* Every file of the manifest is back: the front end gets the engine.       *)
Restored(s) ==
    /\ At(s, "restore")
    /\ disk[s].plan \subseteq itp[s].ws
    /\ ~Closed(s)
    /\ itp' = [itp EXCEPT ![s].attached = TRUE]
    /\ Move(s, "starter")
    /\ UNCHANGED <<brokerVars, disk, owner>>

(* The starter ran in the interpreter, or there is none.                    *)
StarterDone(s) ==
    /\ At(s, "starter")
    /\ WorkerAlive(itp[s].eng) /\ ~itp[s].behind
    /\ ~Closed(s)
    /\ IF ctl[s].waking THEN Move(s, "discard") ELSE Settle(s, "ready")
    /\ UNCHANGED <<brokerVars, disk, owner, itp>>

CheckpointDiscarded(s) ==
    /\ At(s, "discard")
    /\ store!DiscardAt(s)
    /\ Settle(s, "ready")
    /\ UNCHANGED <<brokerVars, itp>>

(* The catch block: no store, an unreadable or damaged checkpoint, a worker *)
(* that did not come up or went away, a starter that failed, a close().     *)
BootFails(s, corrupt) ==
    /\ ctl' = [ctl EXCEPT ![s].pc = "unwind", ![s].slot = 0, ![s].corrupt = corrupt]
    /\ itp' = [itp EXCEPT ![s] = Dropped(s)]
    /\ held' = Without(s)
    /\ UNCHANGED <<scoped, issued, resv, disk, owner>>

ReadFails(s) ==
    /\ At(s, "read")
    /\ \/ /\ store!ReadOutcome(s) = "corrupt"
          /\ BootFails(s, TRUE)
       \/ BootFails(s, FALSE)                        \* quarantined, io, closed

RestoreFails(s) ==
    /\ At(s, "restore")
    /\ \/ /\ disk[s].damaged = "file"
          /\ BootFails(s, TRUE)
       \/ BootFails(s, FALSE)                        \* io, the worker, closed

StartFails(s) ==
    /\ ctl[s].pc \in {"boot", "starter"}
    /\ ~ctl[s].gone
    /\ BootFails(s, FALSE)

(* Closed while the store deleted the checkpoint: the last check.           *)
Unwound(s) ==
    /\ At(s, "unwind")
    /\ ~itp[s].dying
    /\ IF ctl[s].waking /\ ctl[s].corrupt
         THEN store!QuarantineAt(s)
         ELSE UNCHANGED <<disk, owner>>
    /\ Settle(s, IF ctl[s].waking THEN "wake-error" ELSE "crashed")
    /\ UNCHANGED <<brokerVars, itp>>

-----------------------------------------------------------------------------
(* restart()                                                                *)

RestartEngine(s) ==
    /\ ctl' = [ctl EXCEPT ![s].state = SetTo(s, "starting"), ![s].pc = "restartBoot",
                          ![s].slot = IF @ = 0 THEN issued[s] ELSE @]
    /\ itp' = [itp EXCEPT ![s] = [NewEngine(s, itp[s].attached) EXCEPT !.dying = itp[s].dying]]

Restart(s) ==
    /\ At(s, "idle")
    /\ itp[s].eng # "none"
    /\ Live(s) \/ ctl[s].state = "crashed"
    /\ MayAskAgain
    /\ IF ctl[s].slot = 0
         THEN /\ ReserveCall(s)
              /\ Move(s, "restartReserve")
              /\ UNCHANGED itp
         ELSE /\ RestartEngine(s)
              /\ UNCHANGED <<held, issued, resv>>
    /\ UNCHANGED <<scoped, disk, owner>>

SlotToRestart(s) ==
    /\ At(s, "restartReserve")
    /\ resv[s].at = "granted"
    /\ ~Closed(s)
    /\ resv' = [resv EXCEPT ![s] = NoCall]
    /\ RestartEngine(s)
    /\ UNCHANGED <<scoped, held, issued, disk, owner>>

NoSlotToRestart(s) ==
    /\ At(s, "restartReserve")
    /\ resv[s].at = "denied"
    /\ resv' = [resv EXCEPT ![s] = NoCall]
    /\ Settle(s, "crashed")
    /\ UNCHANGED <<scoped, held, issued, disk, owner, itp>>

Restarted(s) ==
    /\ At(s, "restartBoot")
    /\ itp[s].eng = "starting"
    /\ \E runStarter \in BOOLEAN :
          itp' = [itp EXCEPT ![s].eng = "ready", ![s].behind = runStarter /\ itp[s].typed]
    /\ Move(s, "restartStarter")
    /\ UNCHANGED <<brokerVars, disk, owner>>

RestartDone(s) ==
    /\ At(s, "restartStarter")
    /\ WorkerAlive(itp[s].eng) /\ ~itp[s].behind
    /\ Settle(s, "ready")
    /\ UNCHANGED <<brokerVars, disk, owner, itp>>

(* The slot goes back whatever failed: the worker, or the starter in a      *)
(* worker that is up.                                                       *)
RestartFails(s) ==
    /\ \/ At(s, "restartBoot") /\ itp[s].eng # "starting" /\ UNCHANGED itp
       \/ /\ At(s, "restartBoot") /\ itp[s].eng = "starting"
          /\ itp' = [itp EXCEPT ![s].eng = "error", ![s].typed = FALSE]
       \/ At(s, "restartStarter") /\ itp' = [itp EXCEPT ![s].behind = FALSE]
    /\ ctl' = [ctl EXCEPT ![s].pc = "idle", ![s].slot = 0, ![s].state = SetTo(s, "crashed")]
    /\ ReleaseSlot(s)
    /\ UNCHANGED <<disk, owner>>

-----------------------------------------------------------------------------
(* sleep()                                                                  *)

SleepCall(s) == ctl' = [ctl EXCEPT ![s].pc = "quiesce"]

Sleep(s) ==
    /\ s \in Idle
    /\ itp[s].eng # "none"
    /\ SleepCall(s)
    /\ UNCHANGED <<brokerVars, disk, owner, itp>>

(* A reservation asks the holder of a slot to sleep.                        *)
AskToSleep(s, t) ==
    /\ resv[s].at = "asking" /\ ~ctl[s].gone
    /\ t \in resv[s].cands
    /\ MaySleep(t, Idle)
    /\ itp[t.by].eng # "none"
    /\ SleepCall(t.by)
    /\ resv' = [resv EXCEPT ![s].at = "waiting", ![s].cur = t]
    /\ UNCHANGED <<scoped, held, issued, disk, owner, itp>>

(* No store, or a look of quiesce() finds code running, a transfer or an    *)
(* open file: refused, and nothing changes.  The second look comes with the *)
(* files that were asked for.                                               *)
SleepRefused(s) ==
    /\ ctl[s].pc \in {"quiesce", "quiesced"} /\ ~itp[s].behind
    /\ ~ctl[s].gone
    /\ Settle(s, ctl[s].state)
    /\ resv' = Answered(s, FALSE)
    /\ UNCHANGED <<scoped, held, issued, disk, owner, itp>>

(* quiesce(): nothing runs, and the files are asked for, behind what was    *)
(* submitted: executions() does not count what waits for its turn.          *)
QuiesceAsked(s) ==
    /\ At(s, "quiesce")
    /\ itp[s].eng = "ready"
    /\ Move(s, "quiesced")
    /\ itp' = [itp EXCEPT ![s].behind = itp[s].typed]
    /\ UNCHANGED <<brokerVars, disk, owner>>

(* When they have come nothing runs and no file is open.  What still waits  *)
(* is not counted again; the session's own listing goes behind it.          *)
Quiesced(s) ==
    /\ At(s, "quiesced")
    /\ itp[s].eng = "ready" /\ ~itp[s].behind
    /\ ~itp[s].pyopen
    /\ itp' = [itp EXCEPT ![s].quiesced = TRUE, ![s].behind = itp[s].typed]
    /\ ctl' = [ctl EXCEPT ![s].pc = "list", ![s].state = SetTo(s, "sleeping")]
    /\ UNCHANGED <<brokerVars, disk, owner>>

(* Mutant: the listing is not queued behind what was submitted before it.   *)
Listed_PastTheQueue(s) ==
    /\ At(s, "list")
    /\ WorkerAlive(itp[s].eng)
    /\ ctl' = [ctl EXCEPT ![s].pc = "begin", ![s].list = itp[s].ws]
    /\ UNCHANGED <<brokerVars, disk, owner, itp>>

(* The committed files: one that is open is not among them.                 *)
Listed(s) ==
    /\ At(s, "list")
    /\ itp[s].eng = "ready" /\ ~itp[s].behind
    /\ ctl' = [ctl EXCEPT ![s].pc = "begin", ![s].list = itp[s].ws]
    /\ UNCHANGED <<brokerVars, disk, owner, itp>>

Begun(s) ==
    /\ At(s, "begin")
    /\ store!BeginAt(s, PageOf(s), ctl[s].list)
    /\ ctl' = [ctl EXCEPT ![s].pc = "save", ![s].list = {}]
    /\ UNCHANGED <<brokerVars, itp>>

FileSaved(s) ==
    /\ At(s, "save")
    /\ itp[s].eng = "ready"
    /\ \E f \in disk[s].plan \ disk[s].data : store!SaveFile(s, f)
    /\ UNCHANGED <<brokerVars, ctl, itp>>

(* Mutant: the manifest is written before every file is closed.             *)
ManifestOpened_Early(s) ==
    /\ At(s, "save")
    /\ store!OpenManifest(s)
    /\ Move(s, "manifest")
    /\ UNCHANGED <<brokerVars, itp>>

ManifestOpened(s) ==
    /\ At(s, "save")
    /\ store!AllSaved(s)
    /\ store!OpenManifest(s)
    /\ Move(s, "manifest")
    /\ UNCHANGED <<brokerVars, itp>>

(* The manifest is on disk: only now does the interpreter stop.             *)
Committed(s) ==
    /\ At(s, "manifest")
    /\ store!CloseManifest(s)
    /\ itp' = [itp EXCEPT ![s] = Dropped(s)]
    /\ ctl' = [ctl EXCEPT ![s].pc = "sleepDispose", ![s].slot = 0]
    /\ ReleaseSlot(s)

(* Mutant: whoever asked is not told.                                       *)
FellAsleep_Silently(s) ==
    /\ At(s, "sleepDispose")
    /\ ~itp[s].dying
    /\ Settle(s, "asleep")
    /\ UNCHANGED <<brokerVars, disk, owner, itp>>

(* disposeAsync() is over.  The holder has slept: whoever asked it goes on. *)
FellAsleep(s) ==
    /\ At(s, "sleepDispose")
    /\ ~itp[s].dying
    /\ Settle(s, "asleep")
    /\ resv' = Answered(s, TRUE)
    /\ UNCHANGED <<scoped, held, issued, disk, owner, itp>>

(* Anything fails while saving - storage, a limit, the quota, the worker:   *)
(* what was written is removed, and the session stays awake.                *)
SaveFails(s) ==
    /\ ctl[s].pc \in {"list", "begin", "save", "manifest"} /\ ~itp[s].behind
    /\ ~ctl[s].gone
    /\ ctl' = [ctl EXCEPT ![s].pc = "abort", ![s].list = {}]
    /\ IF ctl[s].pc \in {"save", "manifest"}
         THEN store!AbortAt(s)
         ELSE UNCHANGED <<disk, owner>>
    /\ UNCHANGED <<brokerVars, itp>>

StayedAwake(s) ==
    /\ At(s, "abort")
    /\ itp' = [itp EXCEPT ![s].quiesced = FALSE]
    /\ Settle(s, "ready")
    /\ resv' = Answered(s, FALSE)
    /\ UNCHANGED <<scoped, held, issued, disk, owner>>

-----------------------------------------------------------------------------
(* close(): whatever is pending.                                            *)

Close(s) ==
    /\ ~ctl[s].gone
    /\ ~Closed(s)
    /\ ctl' = [ctl EXCEPT ![s].state = "closed", ![s].closing = "dispose",
                          ![s].reserved = FALSE, ![s].slot = 0]
    /\ itp' = [itp EXCEPT ![s] = Dropped(s)]
    /\ held' = IF ctl[s].reserved \/ ctl[s].slot # 0 THEN Without(s) ELSE held
    /\ UNCHANGED <<scoped, issued, resv, disk, owner>>

CloseDisposed(s) ==
    /\ ctl[s].closing = "dispose" /\ ~ctl[s].gone
    /\ ~itp[s].dying
    /\ ctl' = [ctl EXCEPT ![s].closing = "discard"]
    /\ UNCHANGED <<brokerVars, disk, owner, itp>>

CloseDiscarded(s) ==
    /\ ctl[s].closing = "discard" /\ ~ctl[s].gone
    /\ store!DiscardAt(s)
    /\ ctl' = [ctl EXCEPT ![s].closing = "done"]
    /\ UNCHANGED <<brokerVars, itp>>

-----------------------------------------------------------------------------
(* The interpreter and the browser.                                         *)

(* The front end submits to the engine it has attached, unless a checkpoint *)
(* holds it: #open() looks now, and never again.  What is submitted before  *)
(* the last of it has begun is one piece with it, and what is submitted     *)
(* while code runs, and has to wait for it, counts when the code has ended. *)
Type(s) ==
    /\ itp[s].eng \in {"starting", "ready"} /\ itp[s].attached /\ ~itp[s].quiesced
    /\ ~itp[s].typed /\ ~ctl[s].gone
    /\ itp' = [itp EXCEPT ![s].typed = TRUE]
    /\ UNCHANGED <<brokerVars, disk, owner, ctl>>

(* Its turn has come: code runs, and is counted from now on.  Which files   *)
(* it leaves open shows when it ends ...                                    *)
RunCode(s) ==
    /\ itp[s].eng = "ready" /\ itp[s].typed /\ ~ctl[s].gone
    /\ itp' = [itp EXCEPT ![s].eng = "busy", ![s].typed = FALSE, ![s].pyopen = FALSE]
    /\ ctl' = [ctl EXCEPT ![s].state = IF Live(s) THEN "busy" ELSE @]
    /\ UNCHANGED <<brokerVars, disk, owner>>

(* ... or it was a command that never is: a file deleted, a buffer cleared. *)
CommandDone(s) ==
    /\ itp[s].eng = "ready" /\ itp[s].typed /\ ~ctl[s].gone
    /\ \E ws \in SUBSET itp[s].ws :
          itp' = [itp EXCEPT ![s].typed = FALSE, ![s].behind = FALSE, ![s].ws = ws]
    /\ UNCHANGED <<brokerVars, disk, owner, ctl>>

(* The code ends, having written a file, deleted one or left one open.      *)
CodeEnds(s) ==
    /\ itp[s].eng = "busy" /\ ~ctl[s].gone
    /\ \E ws \in SUBSET File, open \in BOOLEAN :
          itp' = [itp EXCEPT ![s].eng = "ready", ![s].behind = FALSE, ![s].ws = ws,
                             ![s].pyopen = open]
    /\ ctl' = [ctl EXCEPT ![s].state = IF Live(s) THEN "ready" ELSE @]
    /\ UNCHANGED <<brokerVars, disk, owner>>

(* The worker dies: onEngineState() acts on it in a live session only.      *)
WorkerDies(s) ==
    /\ WorkerAlive(itp[s].eng) /\ ~ctl[s].gone
    /\ itp' = [itp EXCEPT ![s].eng = "error", ![s].typed = FALSE, ![s].behind = FALSE,
                           ![s].ws = {}, ![s].pyopen = FALSE]
    /\ IF Live(s)
         THEN /\ ctl' = [ctl EXCEPT ![s].state = "crashed", ![s].slot = 0]
              /\ ReleaseSlot(s)
         ELSE UNCHANGED <<ctl, brokerVars>>
    /\ UNCHANGED <<disk, owner>>

(* disposeAsync(): the worker answered, or its time is over.                *)
WorkerGone(s) ==
    /\ itp[s].dying
    /\ itp' = [itp EXCEPT ![s].dying = FALSE]
    /\ UNCHANGED <<brokerVars, disk, owner, ctl>>

(* A document goes away with everything in it; its locks are released.      *)
PageKilled(p) ==
    LET dead == {s \in Session : PageOf(s) = p} IN
    /\ \E s \in dead : ~ctl[s].gone
    /\ ctl' = [s \in Session |-> IF s \in dead THEN [Configured EXCEPT !.gone = TRUE,
                                                        !.state = "closed", !.closing = "done"]
                                               ELSE ctl[s]]
    /\ itp' = [s \in Session |-> IF s \in dead THEN NoInterpreter ELSE itp[s]]
    /\ held' = {r \in held : r.by \notin dead}
    /\ resv' = [s \in Session |-> IF s \in dead THEN NoCall ELSE resv[s]]
    /\ owner' = [s \in Session |-> IF s \in dead THEN Nobody ELSE owner[s]]
    /\ disk' = [s \in Session |-> IF s \in dead THEN [disk[s] EXCEPT !.writing = FALSE]
                                                ELSE disk[s]]
    /\ UNCHANGED <<scoped, issued>>

Swept(s) ==
    /\ store!SweepAt(s)
    /\ UNCHANGED <<brokerVars, ctl, itp>>

Damaged(s) ==
    /\ store!DamageAt(s)
    /\ UNCHANGED <<brokerVars, ctl, itp>>

-----------------------------------------------------------------------------
(* The broker's own steps, for the sessions that wait in it.                *)
Brokering(s) ==
    /\ ~ctl[s].gone
    /\ \/ TakeOrGather(s, Idle)
       \/ \E t \in resv[s].cands : Decline(s, t, Idle)
       \/ GiveUpWaiting(s)
       \/ RetryTake(s)
       \/ Exhausted(s)
    /\ UNCHANGED <<disk, owner, ctl, itp>>

Asking(s) == \E t \in resv[s].cands : AskToSleep(s, t)

User(s) == Start(s) \/ Wake(s) \/ Restart(s) \/ Sleep(s) \/ Close(s) \/ Type(s)

(* The engine's queue moves on by itself.                                   *)
Queue(s) == RunCode(s) \/ CommandDone(s)

Boot(s) ==
    \/ DeadEngineGone(s) \/ NoSlotToBoot(s) \/ SlotTooLate(s) \/ SlotToBoot(s)
    \/ ManifestRead(s) \/ Booted(s) \/ FileRestored(s) \/ Restored(s)
    \/ StarterDone(s) \/ CheckpointDiscarded(s) \/ ReadFails(s) \/ RestoreFails(s)
    \/ StartFails(s) \/ Unwound(s)
Restarting(s) ==
    SlotToRestart(s) \/ NoSlotToRestart(s) \/ Restarted(s) \/ RestartDone(s) \/ RestartFails(s)
Sleeping(s) ==
    \/ SleepRefused(s) \/ QuiesceAsked(s) \/ Quiesced(s) \/ Listed(s)
    \/ Begun(s) \/ FileSaved(s) \/ ManifestOpened(s) \/ Committed(s) \/ FellAsleep(s)
    \/ SaveFails(s) \/ StayedAwake(s)
Closing(s) == CloseDisposed(s) \/ CloseDiscarded(s)

Next ==
    \/ \E s \in Session :
          \/ User(s) \/ Boot(s) \/ Restarting(s) \/ Sleeping(s) \/ Closing(s)
          \/ Brokering(s) \/ Asking(s)
          \/ Queue(s) \/ CodeEnds(s) \/ WorkerDies(s) \/ WorkerGone(s) \/ Swept(s) \/ Damaged(s)
    \/ \E p \in Page : PageKilled(p)

Spec == Init /\ [][Next]_vars

(* The operation waits for code: the starter, which is code itself, or what *)
(* runs before a listing.  No timer bounds either wait.                     *)
WaitsForCode(s) ==
    /\ WorkerAlive(itp[s].eng)
    /\ \/ ctl[s].pc \in {"starter", "restartStarter"}
       \/ itp[s].behind /\ itp[s].eng = "busy"

(* What goes on without the user: the operations, the broker, the worker's  *)
(* answers.  Reclaims are chained, first come first served, so a session    *)
(* whose turn comes again and again gets it.  Nothing makes running code    *)
(* end, the starter included, or a file become readable.                    *)
Fairness ==
    \A s \in Session :
        /\ WF_vars(~WaitsForCode(s) /\ (Boot(s) \/ Restarting(s) \/ Sleeping(s)))
        /\ WF_vars(Queue(s))
        /\ WF_vars(Closing(s))
        /\ SF_vars(Brokering(s) \/ Asking(s))
        /\ WF_vars(WorkerGone(s))

FairSpec == Spec /\ Fairness
=============================================================================
