------------------------------ MODULE MCEngine ------------------------------
(***************************************************************************)
(* The properties of the engine, and the instances TLC checks.             *)
(***************************************************************************)
EXTENDS Engine, TLC

ConsoleSymmetry == Permutations(Owner)

TypeOK ==
    /\ eng \in [state : EngineState, worker : Boot \cup {NoBoot}, start : Boot \cup {NoBoot},
                owner : Owner \cup {Nobody}, quiesced : BOOLEAN]
    /\ boot \in [Boot -> [pc : BootPhase, err : Rejection]]
    /\ op \in [Op -> [pc : OpPhase, kind : Kinds \cup {"list"}, by : Owner \cup {Nobody},
                      at : Boot \cup {NoBoot}, gate : Boot \cup {NoBoot},
                      dropped : BOOLEAN, err : Rejection, answer : Answer]]
    /\ wire.todo \in Seq(Op)
    /\ \A i \in DOMAIN wire.back : wire.back[i] \in [op : Op, answer : Answer]
    /\ buffer \subseteq Owner
    /\ ran \in [op : Op \cup {0}, for : Boot \cup {NoBoot}, in : Boot \cup {NoBoot}]

(* Python runs the page's commands in the order they were submitted, and    *)
(* none twice, whatever is restarted in between (browser-python.ts          *)
(* #submit: "their ORDER is the program").                                  *)
InProgramOrder == [][ran' # ran => ran'.op > ran.op]_engineVars

(* A command written against one interpreter never runs in its replacement  *)
(* (browser-python.ts #submit: "must never be retargeted").                 *)
NeverRetargeted == ran.for \in {NoBoot, ran.in}

(* The one line buffer holds lines of one console only (browser-python.ts   *)
(* push()).                                                                 *)
OneStatement == Cardinality(buffer) <= 1

(* Between two tasks the engine says ready or busy only of an interpreter   *)
(* that is there and came up, and has none once it says error or disposed.  *)
StateIsTrue ==
    Quiet => /\ eng.state \in {"ready", "busy"} => eng.worker # NoBoot /\ boot[eng.worker].pc = "won"
             /\ eng.state \in {"idle", "error", "disposed"} => eng.worker = NoBoot

(* The engine never stays busy for nothing: between two tasks a counted      *)
(* command is at the worker whenever "busy" is said, whatever rejected or   *)
(* outlived the ones before it (browser-python.ts #whileBusy).              *)
NeverStuckBusy == Quiet /\ eng.state = "busy" => Busy # {}

(* Every command's promise settles: answered, refused or rejected.          *)
EveryCommandSettles == \A o \in Op : op[o].pc = "queued" ~> op[o].pc = "done"

(* Every start settles.                                                     *)
EveryStartSettles == \A k \in Boot : boot[k].pc = "init" ~> boot[k].pc \in {"won", "lost"}

-----------------------------------------------------------------------------
(* What comments say and the code does not always do; see the README.       *)

(* No command runs in an interpreter before the host's startup code did     *)
(* (browser-python.ts #boot, l.1184).                                       *)
StartupFirst == [][ran' # ran => boot[ran'.in].pc \in {"winning", "won"}]_engineVars

(* A start that lost its race leaves its successor's worker alone           *)
(* (browser-python.ts #failStart).                                          *)
SuccessorKept ==
    [][\A k \in Boot : boot[k].pc \in {"init", "startup"} /\ boot'[k].pc = "failing"
          => eng.worker \in {NoBoot, k} \/ eng'.worker = eng.worker]_engineVars

(* While a checkpoint holds the engine nothing executes (browser-python.ts  *)
(* #open, engine-sessions.ts quiesce()).                                    *)
QuiescedIsIdle == Quiet /\ eng.quiesced => Busy = {}

(* A line is refused only when another console's lines are in the buffer    *)
(* (browser-python.ts push()).                                              *)
RefusedOnlyMidStatement ==
    [][\A o \in Op : Refused(o) /\ MayRun(o) /\ MidStatement(o) => eng.owner \in buffer]_engineVars
=============================================================================
