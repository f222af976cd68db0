------------------------------- MODULE Engine -------------------------------
(***************************************************************************)
(* The engine of a page (packages/browser-python, browser-python.ts): it   *)
(* boots a Worker with a Python interpreter, sends it the page's commands  *)
(* in order, and replaces it when it is restarted or dies.                 *)
(*                                                                         *)
(* An interpreter is named by the boot that made it: generation, worker    *)
(* and WorkerSession live and die together, so "alive and current" is      *)
(* eng.worker = k.  A command is named by its place in #submissions.       *)
(*                                                                         *)
(* JavaScript runs to completion.  A message of the worker or a timer is   *)
(* taken only when no continuation waits (Quiet).  The page's own calls    *)
(* come between any two continuations: status listeners run inside them.   *)
(***************************************************************************)
EXTENDS Integers, Sequences, FiniteSets

CONSTANTS
    MaxOps,      \* bound: the commands the page submits
    MaxBoots,    \* bound: the interpreters the engine starts
    Owner,       \* the consoles that push lines
    Nobody,      \* no console is mid-statement
    HasStartup,  \* the host configured a startupSource
    Kinds        \* the kinds of command a run submits

ASSUME EngineAssumption ==
    /\ MaxOps \in Nat \ {0} /\ MaxBoots \in Nat \ {0}
    /\ Nobody \notin Owner /\ HasStartup \in BOOLEAN
    /\ Kinds \subseteq {"push", "run", "cell", "clear", "delete", "list", "import", "quiesce"}

VARIABLES
    eng,     \* the engine's fields
    boot,    \* each #boot() attempt
    op,      \* each submitted command, in submission order
    wire,    \* between page and current worker: requests not run, replies not read
    buffer,  \* the consoles whose lines are in the interpreter's partial statement
    ran      \* the last command Python executed, and the interpreter that did

engineVars == <<eng, boot, op, wire, buffer, ran>>

Op == 1..MaxOps
Boot == 1..MaxBoots
NoBoot == 0

(* Mutant: a push lets the next command through once it is posted.          *)
Releasing_Push == {"run", "list", "quiesce", "push"}

\* list stands for artifacts(), readArtifact() and complete() too.
Counted == {"push", "run", "cell"}
Releasing == {"run", "list", "quiesce"}
\* Built by engine-sessions.ts, which is imported when their turn has come.
Lazy == {"cell", "import"}

EngineState == {"idle", "loading", "ready", "busy", "error", "disposed"}
Rejection == {"none", "restarted", "failed", "disposed"}
BootPhase == {"unused", "init", "startup", "winning", "won", "failing", "lost"}
OpPhase == {"unused", "queued", "gate", "loading", "sent", "answered", "done"}
Answer == {"none", "ok", "incomplete", "failed"}

\* What is left of a command, and of one not submitted yet.
Blank(pc) == [pc |-> pc, kind |-> "list", by |-> Nobody, at |-> NoBoot, gate |-> NoBoot,
              dropped |-> FALSE, err |-> "none", answer |-> "none"]

Init ==
    /\ eng = [state |-> "idle", worker |-> NoBoot, start |-> NoBoot,
              owner |-> Nobody, quiesced |-> FALSE]
    /\ boot = [k \in Boot |-> [pc |-> "unused", err |-> "none"]]
    /\ op = [o \in Op |-> Blank("unused")]
    /\ wire = [todo |-> <<>>, back |-> <<>>]
    /\ buffer = {}
    /\ ran = [op |-> 0, for |-> NoBoot, in |-> NoBoot]

-----------------------------------------------------------------------------
(* Queue, counters and continuations.                                      *)
InFlight == {o \in Op : op[o].pc = "sent"}
Busy == {o \in InFlight : op[o].kind \in Counted}
QueuedCells ==
    {o \in Op : op[o].kind = "cell" /\ op[o].pc \in {"queued", "gate"} /\ ~op[o].dropped}
Imports == {o \in Op : op[o].kind = "import" /\ op[o].pc \notin {"unused", "done"}}
Executions == Cardinality(Busy) + Cardinality(QueuedCells)
Idling == Executions = 0 /\ Imports = {}

\* The chain lets the next one through: settled, or released once posted.
LetsThrough(o) ==
    \/ op[o].pc = "done"
    \/ op[o].kind \in Releasing /\ op[o].pc \in {"sent", "answered"}

(* Mutant: commands do not wait for each other.                             *)
HasTurn_Unchained(o) == op[o].pc = "queued"

HasTurn(o) == op[o].pc = "queued" /\ \A p \in Op : p = o - 1 => LetsThrough(p)
GateOpen(o) == op[o].pc = "gate" /\ boot[op[o].gate].pc \in {"won", "lost"}

Quiet ==
    /\ \A k \in Boot : boot[k].err = "none" /\ boot[k].pc \notin {"winning", "failing"}
    /\ \A o \in Op : op[o].err = "none" /\ op[o].pc # "answered"
                     /\ ~HasTurn(o) /\ ~GateOpen(o)

Awaiting(k) == boot[k].pc \in {"init", "startup"} /\ boot[k].err = "none"

BootsRejected(why) == [k \in Boot |-> IF Awaiting(k) THEN [boot[k] EXCEPT !.err = why] ELSE boot[k]]
(* Mutant: requests in flight are forgotten, not rejected.                  *)
OpsRejected_Forgotten(why) == op

OpsRejected(why) ==
    [o \in Op |-> IF o \in InFlight /\ op[o].err = "none" THEN [op[o] EXCEPT !.err = why] ELSE op[o]]

TornDown(e) == [e EXCEPT !.worker = NoBoot]
NoWire == [todo |-> <<>>, back |-> <<>>]

\* terminate() ends the worker, with whatever it had not run or reported.
WorkerGone == wire' = NoWire /\ buffer' = {} /\ UNCHANGED ran

Done(o) == op' = [op EXCEPT ![o] = Blank("done")]

-----------------------------------------------------------------------------
(* The life of an interpreter.                                             *)
NextBoot == 1 + Cardinality({k \in Boot : boot[k].pc # "unused"})

\* #boot() as far as its first await, adopted: a new worker, or a factory
\* that throws.  `before` and `waiting` are what the caller left.
Boots(before, waiting) ==
    /\ NextBoot \in Boot
    /\ \/ /\ eng' = [before EXCEPT !.state = "loading", !.worker = NextBoot,
                                   !.start = NextBoot, !.quiesced = FALSE]
          /\ boot' = [waiting EXCEPT ![NextBoot].pc = "init"]
       \/ /\ eng' = [TornDown(before) EXCEPT !.state = "error", !.start = NextBoot,
                                             !.quiesced = FALSE]
          /\ boot' = [waiting EXCEPT ![NextBoot].pc = "failing"]

Start ==
    /\ eng.state # "disposed" /\ eng.start = NoBoot
    /\ Boots(eng, boot)
    /\ WorkerGone /\ UNCHANGED op

Restart ==
    /\ eng.state # "disposed"
    /\ Boots([TornDown(eng) EXCEPT !.owner = Nobody], BootsRejected("restarted"))
    /\ op' = OpsRejected("restarted")
    /\ WorkerGone

\* disposeAsync() comes here too, after the worker's answer or its timeout.
Dispose ==
    /\ eng.state # "disposed"
    /\ boot' = BootsRejected("disposed")
    /\ op' = OpsRejected("disposed")
    /\ eng' = [TornDown(eng) EXCEPT !.state = "disposed", !.start = NoBoot]
    /\ WorkerGone

\* #onFatal(): every request is rejected, the worker goes, start() may be
\* called again.
Fatal ==
    /\ op' = OpsRejected("failed")
    /\ eng' = [TornDown(eng) EXCEPT !.state = "error", !.start = NoBoot]
    /\ WorkerGone

WorkerDies ==
    /\ Quiet /\ eng.worker # NoBoot
    /\ boot' = BootsRejected("failed")
    /\ Fatal

(* Mutant: the timer minds only the current worker.                         *)
StartTimesOut_Current(k) ==
    /\ Quiet /\ boot[k].pc = "init" /\ eng.worker = k
    /\ boot' = BootsRejected("failed")
    /\ Fatal

\* The timer of the `ready` request: it is not tied to the current worker.
StartTimesOut(k) ==
    /\ Quiet /\ boot[k].pc = "init"
    /\ boot' = BootsRejected("failed")
    /\ Fatal

Ready(k) ==
    /\ boot' = [boot EXCEPT ![k].pc = "winning"]
    /\ eng' = [eng EXCEPT !.state = "ready"]

InterpreterReady(k) ==
    /\ Quiet /\ boot[k].pc = "init" /\ eng.worker = k
    /\ \/ HasStartup /\ boot' = [boot EXCEPT ![k].pc = "startup"] /\ UNCHANGED eng
       \/ ~HasStartup /\ Ready(k)
    /\ UNCHANGED <<op, wire, buffer, ran>>

StartupRan(k) ==
    /\ Quiet /\ boot[k].pc = "startup" /\ eng.worker = k
    /\ Ready(k)
    /\ UNCHANGED <<op, wire, buffer, ran>>

(* Mutant: a failed start leaves its worker alive.                          *)
StartFailed_KeepsWorker(k) ==
    /\ boot' = [boot EXCEPT ![k].pc = "failing", ![k].err = "none"]
    /\ eng' = [eng EXCEPT !.state = IF @ \in {"disposed", "error"} THEN @ ELSE "error"]
    /\ UNCHANGED <<op, wire, buffer, ran>>

\* #failStart() after a failure that is not "restarted": whatever worker is
\* current goes, and the state with it unless the failure was announced.
StartFailed(k) ==
    /\ boot' = [boot EXCEPT ![k].pc = "failing", ![k].err = "none"]
    /\ eng' = [TornDown(eng) EXCEPT !.state =
                  IF @ \in {"disposed", "error"} THEN @ ELSE "error"]
    /\ WorkerGone /\ UNCHANGED op

StartupFailed(k) ==
    /\ Quiet /\ boot[k].pc = "startup" /\ eng.worker = k
    /\ StartFailed(k)

BootRejected(k) == boot[k].err \in {"failed", "disposed"} /\ StartFailed(k)

BootSuperseded(k) ==
    /\ boot[k].err = "restarted"
    /\ boot' = [boot EXCEPT ![k].pc = "failing", ![k].err = "none"]
    /\ UNCHANGED <<eng, op, wire, buffer, ran>>

\* The attempt's promise settles; a failed one is not memoised.
BootSettles(k) ==
    /\ \/ /\ boot[k].pc = "winning"
          /\ boot' = [boot EXCEPT ![k].pc = "won"]
          /\ UNCHANGED eng
       \/ /\ boot[k].pc = "failing"
          /\ boot' = [boot EXCEPT ![k].pc = "lost"]
          /\ eng' = [eng EXCEPT !.start = IF @ = k THEN NoBoot ELSE @]
    /\ UNCHANGED <<op, wire, buffer, ran>>

-----------------------------------------------------------------------------
(* A command, from its submission to its promise.                          *)
NextOp == 1 + Cardinality({o \in Op : op[o].pc # "unused"})

\* Refused at once: new work while a checkpoint holds the engine, and
\* quiesce() while something runs, is queued or is copied in.
MaySubmit(kind) ==
    /\ ~eng.quiesced \/ kind = "list"
    /\ kind = "quiesce" => Idling

Submit(kind, by) ==
    /\ NextOp \in Op
    /\ MaySubmit(kind)
    /\ op' = [op EXCEPT ![NextOp].pc = "queued", ![NextOp].kind = kind,
                        ![NextOp].by = by, ![NextOp].at = eng.worker]
    /\ UNCHANGED <<eng, boot, wire, buffer, ran>>

CancelQueuedCells ==
    /\ QueuedCells # {}
    /\ op' = [o \in Op |-> IF o \in QueuedCells THEN [op[o] EXCEPT !.dropped = TRUE] ELSE op[o]]
    /\ UNCHANGED <<eng, boot, wire, buffer, ran>>

\* Its turn: it waits for the boot that is current now, or is refused.
Turn(o) ==
    /\ HasTurn(o)
    /\ IF eng.state \in {"error", "disposed"} \/ eng.start = NoBoot
         THEN Done(o)
         ELSE op' = [op EXCEPT ![o].pc = "gate", ![o].gate = eng.start]
    /\ UNCHANGED <<eng, boot, wire, buffer, ran>>

(* Mutant: a command goes to whatever is current.                           *)
SessionOf_Current(o) == eng.worker

\* captured ?? current
SessionOf(o) == IF op[o].at # NoBoot THEN op[o].at ELSE eng.worker

MayRun(o) ==
    /\ boot[op[o].gate].pc = "won"
    /\ eng.state # "disposed" /\ eng.worker # NoBoot
    /\ SessionOf(o) = eng.worker

MidStatement(o) == op[o].kind = "push" /\ eng.owner \notin {Nobody, op[o].by}

Refused(o) ==
    /\ GateOpen(o)
    /\ ~MayRun(o) \/ MidStatement(o)
    /\ Done(o)
    /\ UNCHANGED <<eng, boot, wire, buffer, ran>>

\* A cell or an import waits for the module that builds its requests, bound
\* to this interpreter.  The cell is no longer queued, and not yet counted.
Handed(o) ==
    /\ GateOpen(o)
    /\ MayRun(o) /\ op[o].kind \in Lazy
    /\ op' = [op EXCEPT ![o].pc = "loading", ![o].gate = eng.worker]
    /\ UNCHANGED <<eng, boot, wire, buffer, ran>>

\* The module did not load, or finds the cell cancelled before its turn.
Abandoned(o) ==
    /\ op[o].pc = "loading"
    /\ Done(o)
    /\ UNCHANGED <<eng, boot, wire, buffer, ran>>

\* #whileBusy() counts a command for as long as its request is in flight.
Counting(o) ==
    eng' = [eng EXCEPT !.state =
               IF op[o].kind \in Counted /\ Busy = {} /\ @ = "ready" THEN "busy" ELSE @]

Posted(o) ==
    /\ \/ GateOpen(o) /\ MayRun(o) /\ ~MidStatement(o) /\ op[o].kind \notin Lazy
       \/ op[o].pc = "loading" /\ op[o].gate = eng.worker /\ ~op[o].dropped
    /\ op' = [op EXCEPT ![o].pc = "sent", ![o].gate = NoBoot]
    /\ wire' = [wire EXCEPT !.todo = Append(@, o)]
    /\ Counting(o)
    /\ UNCHANGED <<boot, buffer, ran>>

\* Its interpreter was replaced while the module loaded: #request() rejects,
\* and nothing is posted.
Orphaned(o) ==
    /\ op[o].pc = "loading" /\ op[o].gate # eng.worker /\ ~op[o].dropped
    /\ op' = [op EXCEPT ![o].pc = "sent", ![o].gate = NoBoot, ![o].err = "restarted"]
    /\ Counting(o)
    /\ UNCHANGED <<boot, wire, buffer, ran>>

\* The worker takes requests one at a time, in the order they came.
WorkerRuns ==
    /\ wire.todo # <<>> /\ boot[eng.worker].pc # "init"
    /\ LET o == Head(wire.todo)
       IN \E a \in IF op[o].kind = "push" THEN {"ok", "incomplete", "failed"} ELSE {"ok", "failed"} :
          /\ wire' = [todo |-> Tail(wire.todo), back |-> Append(wire.back, [op |-> o, answer |-> a])]
          /\ ran' = [op |-> o, for |-> op[o].at, in |-> eng.worker]
          /\ buffer' = CASE op[o].kind = "push" /\ a = "incomplete" -> buffer \cup {op[o].by}
                         [] op[o].kind = "push" /\ a = "ok"         -> {}
                         [] op[o].kind = "clear" /\ a = "ok"        -> {}
                         [] OTHER                                   -> buffer
    /\ UNCHANGED <<eng, boot, op>>

(* Mutant: any request keeps the engine busy.                               *)
NoLongerBusy_AnyRequest(o) ==
    eng' = [eng EXCEPT !.state = IF InFlight = {o} /\ @ = "busy" THEN "ready" ELSE @]

\* #whileBusy() gives the state back when the last counted command is through.
NoLongerBusy(o) ==
    eng' = [eng EXCEPT !.state = IF Busy = {o} /\ @ = "busy" THEN "ready" ELSE @]

ReplyRead ==
    /\ Quiet /\ wire.back # <<>>
    /\ LET reply == Head(wire.back)
       IN /\ op' = [op EXCEPT ![reply.op].pc = "answered", ![reply.op].answer = reply.answer]
          /\ NoLongerBusy(reply.op)
    /\ wire' = [wire EXCEPT !.back = Tail(@)]
    /\ UNCHANGED <<boot, buffer, ran>>

RejectionRead(o) ==
    /\ op[o].err # "none"
    /\ op' = [op EXCEPT ![o].pc = "answered", ![o].err = "none", ![o].answer = "failed"]
    /\ NoLongerBusy(o)
    /\ UNCHANGED <<boot, wire, buffer, ran>>

\* What the command does with its answer before its promise settles: a push
\* passes the statement on, a clear frees it, and quiesce() looks again (the
\* listing it asked for may show a file open, and then it has no effect).
Settle(o) ==
    /\ op[o].pc = "answered"
    /\ LET answered == op[o].answer # "failed"
       IN \/ /\ op[o].kind = "push" /\ answered
             /\ eng' = [eng EXCEPT !.owner = IF op[o].answer = "incomplete" THEN op[o].by ELSE Nobody]
          \/ /\ op[o].kind = "clear" /\ answered
             /\ eng' = [eng EXCEPT !.owner = Nobody]
          \/ /\ op[o].kind = "quiesce" /\ answered
             /\ eng' = [eng EXCEPT !.quiesced = @ \/ Idling]
          \/ /\ ~answered \/ op[o].kind \notin {"push", "clear"}
             /\ UNCHANGED eng
    /\ Done(o)
    /\ UNCHANGED <<boot, wire, buffer, ran>>

\* The caller of quiesce() gives up the checkpoint.
Unquiesce ==
    /\ eng.quiesced
    /\ eng' = [eng EXCEPT !.quiesced = FALSE]
    /\ UNCHANGED <<boot, op, wire, buffer, ran>>

-----------------------------------------------------------------------------
PageCall ==
    \/ Start \/ Restart \/ Dispose \/ Unquiesce \/ CancelQueuedCells
    \/ \E kind \in Kinds \ {"push"} : Submit(kind, Nobody)
    \/ "push" \in Kinds /\ \E by \in Owner : Submit("push", by)

Continuation ==
    \/ \E k \in Boot : BootRejected(k) \/ BootSuperseded(k) \/ BootSettles(k)
    \/ \E o \in Op : Turn(o) \/ Refused(o) \/ Handed(o) \/ Abandoned(o) \/ Posted(o)
                     \/ Orphaned(o) \/ RejectionRead(o) \/ Settle(o)

WorkerMessage ==
    \/ \E k \in Boot : InterpreterReady(k) \/ StartupRan(k) \/ StartupFailed(k)
    \/ WorkerRuns \/ ReplyRead

Failure == WorkerDies \/ \E k \in Boot : StartTimesOut(k)

Next == PageCall \/ Continuation \/ WorkerMessage \/ Failure

Spec == Init /\ [][Next]_engineVars

(* Continuations run, a worker that is alive answers, and a start that gets *)
(* no answer times out: the code schedules all three.  That Python code     *)
(* ends by itself is the one assumption about the page.                     *)
FairSpec ==
    /\ Spec
    /\ WF_engineVars(Continuation)
    /\ WF_engineVars(WorkerRuns) /\ WF_engineVars(ReplyRead)
    /\ \A k \in Boot : /\ WF_engineVars(StartTimesOut(k))
                       /\ WF_engineVars(StartupRan(k) \/ StartupFailed(k))
=============================================================================
