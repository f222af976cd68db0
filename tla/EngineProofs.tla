---------------------------- MODULE EngineProofs ----------------------------
(***************************************************************************)
(* Proofs about the engine of a page, for any number of commands, of       *)
(* interpreters and of consoles, with and without startup code.            *)
(*                                                                         *)
(* The inductive invariant has a part per thing the engine keeps in step:  *)
(* its state and the attempt behind its worker (BootsOK), the chain of     *)
(* commands (ChainOK), what is between page and worker (WireOK) and the    *)
(* one line buffer (LinesOK).                                              *)
(***************************************************************************)
EXTENDS MCEngine, SequenceTheorems, FiniteSetTheorems, TLAPS

EngineRec == [state : EngineState, worker : Boot \cup {NoBoot}, start : Boot \cup {NoBoot},
              owner : Owner \cup {Nobody}, quiesced : BOOLEAN]
BootRec == [pc : BootPhase, err : Rejection]
OpRec == [pc : OpPhase, kind : Kinds \cup {"list"}, by : Owner \cup {Nobody},
          at : Boot \cup {NoBoot}, gate : Boot \cup {NoBoot},
          dropped : BOOLEAN, err : Rejection, answer : Answer]
Reply == [op : Op, answer : Answer]
RanRec == [op : Op \cup {0}, for : Boot \cup {NoBoot}, in : Boot \cup {NoBoot}]

Types ==
    /\ eng \in EngineRec
    /\ boot \in [Boot -> BootRec]
    /\ op \in [Op -> OpRec]
    /\ wire \in [todo : Seq(Op), back : Seq(Reply)]
    /\ buffer \subseteq Owner
    /\ ran \in RanRec

\* The attempts, and the commands, that were made are the first so many.
Attempts(n) == \A k \in Boot : boot[k].pc # "unused" <=> k <= n
Submitted(n) == \A o \in Op : op[o].pc # "unused" <=> o <= n

\* Only an attempt that waits is rejected, and what the engine says of its
\* worker is what came of the attempt that made it.
BootsOK ==
    /\ \E n \in 0..MaxBoots : Attempts(n)
    /\ \A k \in Boot : boot[k].err # "none" => boot[k].pc \in {"init", "startup"}
    /\ eng.state \in {"ready", "busy"} =>
          eng.worker # NoBoot /\ boot[eng.worker].pc \in {"winning", "won"}
    /\ eng.state \in {"idle", "error", "disposed"} => eng.worker = NoBoot

Begun(o) == op[o].pc \notin {"unused", "queued"}

\* A command that waits for its module is bound to an interpreter, and no
\* other than the one it was written against.
Bound(o) ==
    op[o].pc = "loading" => op[o].kind \in Lazy /\ op[o].at \in {NoBoot, op[o].gate}

\* A command that has had its turn was let through by all before it.
ChainOK ==
    /\ \E n \in 0..MaxOps : Submitted(n)
    /\ \A o \in Op, p \in Op : p < o /\ Begun(o) => LetsThrough(p)
    /\ \A o \in Op : op[o].err # "none" => op[o].pc = "sent"
    /\ \A o \in Op : op[o].kind = "push" => op[o].by \in Owner
    /\ \A o \in Op : Bound(o)
    /\ eng.state = "busy" => Busy # {}

Waiting(o) == \E i \in 1..Len(wire.todo) : wire.todo[i] = o
Answered(o) == \E i \in 1..Len(wire.back) : wire.back[i].op = o

\* Python has run what it has a reply for, and nothing of what waits.
WireOK ==
    /\ \A i, j \in 1..Len(wire.todo) : i < j => wire.todo[i] < wire.todo[j]
    /\ \A i, j \in 1..Len(wire.back) : i < j => wire.back[i].op < wire.back[j].op
    /\ \A i \in 1..Len(wire.todo) : ran.op < wire.todo[i]
    /\ \A i \in 1..Len(wire.back) : wire.back[i].op <= ran.op
    /\ \A o \in Op : Waiting(o) \/ Answered(o) => op[o].pc = "sent" /\ op[o].err = "none"
    /\ \A o \in Op : Waiting(o) => op[o].at \in {NoBoot, eng.worker}
    /\ ran.op # 0 => op[ran.op].pc \in {"sent", "answered", "done"}
    /\ ran.for \in {NoBoot, ran.in}

\* The commands that move the line buffer, and what it holds once answered.
Talks(o) == op[o].kind \in {"push", "clear"}
Outcome(o, answer) ==
    /\ answer \in {"ok", "incomplete", "failed"}
    /\ answer = "failed" => buffer \subseteq {eng.owner}
    /\ answer = "incomplete" => op[o].kind = "push" /\ buffer \subseteq {op[o].by}
    /\ answer = "ok" => buffer = {}

\* The buffer is its owner's while no command that moves it is on its way;
\* such a command is alone, and passes the buffer on.
LinesOK ==
    /\ (\A o \in Op : Talks(o) => op[o].pc \notin {"sent", "answered"}) => buffer \subseteq {eng.owner}
    /\ \A o \in Op : Talks(o) /\ Waiting(o) =>
          /\ buffer \subseteq {eng.owner}
          /\ op[o].kind = "push" => eng.owner \in {Nobody, op[o].by}
    /\ \A i \in 1..Len(wire.back) :
          Talks(wire.back[i].op) => Outcome(wire.back[i].op, wire.back[i].answer)
    /\ \A o \in Op : Talks(o) /\ op[o].pc = "answered" => Outcome(o, op[o].answer)
    /\ \A o \in Op : Talks(o) /\ op[o].pc = "sent" /\ ~Waiting(o) /\ ~Answered(o) => buffer = {}

IInv == Types /\ BootsOK /\ ChainOK /\ WireOK /\ LinesOK

USE DEF Op, Boot, NoBoot

-----------------------------------------------------------------------------
(* The next attempt and the next command are new.                           *)

LEMMA CountFirst ==
    ASSUME NEW max \in Nat, NEW n \in 0..max
    PROVE  Cardinality({k \in 1..max : k <= n}) = n
<1>1. {k \in 1..max : k <= n} = 1..n
  OBVIOUS
<1>2. Cardinality(1..n) = n
  BY FS_Interval
<1> QED BY <1>1, <1>2

LEMMA NextBootIsNew ==
    ASSUME IInv
    PROVE  /\ NextBoot \in Nat \ {0}
           /\ NextBoot \in Boot => boot[NextBoot].pc = "unused" /\ Attempts(NextBoot - 1)
<1>1. PICK n \in 0..MaxBoots : Attempts(n)
  BY DEF IInv, BootsOK
<1>2. {k \in Boot : boot[k].pc # "unused"} = {k \in 1..MaxBoots : k <= n}
  BY <1>1 DEF Attempts
<1>3. NextBoot = 1 + n
  BY <1>2, CountFirst, EngineAssumption DEF NextBoot
<1> QED BY <1>1, <1>3 DEF Attempts

LEMMA NextOpIsNew ==
    ASSUME IInv
    PROVE  /\ NextOp \in Nat \ {0}
           /\ NextOp \in Op => op[NextOp].pc = "unused" /\ Submitted(NextOp - 1)
<1>1. PICK n \in 0..MaxOps : Submitted(n)
  BY DEF IInv, ChainOK
<1>2. {o \in Op : op[o].pc # "unused"} = {k \in 1..MaxOps : k <= n}
  BY <1>1 DEF Submitted
<1>3. NextOp = 1 + n
  BY <1>2, CountFirst, EngineAssumption DEF NextOp
<1> QED BY <1>1, <1>3 DEF Submitted

-----------------------------------------------------------------------------
(* Steps in the life of an interpreter: commands stay where they are.       *)

\* Commands keep their place; those at a worker that goes may be rejected.
OpsAlike ==
    \A o \in Op :
        /\ op'[o].pc = op[o].pc /\ op'[o].kind = op[o].kind /\ op'[o].by = op[o].by
        /\ op'[o].at = op[o].at /\ op'[o].gate = op[o].gate /\ op'[o].answer = op[o].answer
        /\ op'[o].err # op[o].err => op[o].pc = "sent" /\ WorkerGone

PageAlike ==
    /\ UNCHANGED <<wire, buffer, ran>>
    /\ eng'.worker = eng.worker /\ eng'.owner = eng.owner

LEMMA ChainStays ==
    ASSUME IInv, OpsAlike, eng'.state = "busy" => eng.state = "busy"
    PROVE  ChainOK'
<1> USE DEF IInv, OpsAlike
<1>1. \E n \in 0..MaxOps : Submitted(n)'
  BY DEF ChainOK, Submitted
<1>2. (\A o \in Op, p \in Op : p < o /\ Begun(o) => LetsThrough(p))'
  <2>1. \A o \in Op : (Begun(o)' <=> Begun(o)) /\ (LetsThrough(o)' <=> LetsThrough(o))
    BY DEF Begun, LetsThrough
  <2> QED BY <2>1 DEF ChainOK
<1>3. /\ (\A o \in Op : op[o].err # "none" => op[o].pc = "sent")'
      /\ (\A o \in Op : op[o].kind = "push" => op[o].by \in Owner)'
      /\ (\A o \in Op : Bound(o))'
  BY DEF ChainOK, Bound
<1>4. Busy' = Busy
  BY DEF Busy, InFlight
<1> QED BY <1>1, <1>2, <1>3, <1>4 DEF ChainOK

LEMMA RanStays ==
    ASSUME IInv, OpsAlike, ran' = ran
    PROVE  /\ ran'.op # 0 => op'[ran'.op].pc \in {"sent", "answered", "done"}
           /\ ran'.for \in {NoBoot, ran'.in}
<1>1. ran.op \in Op \cup {0}
  BY DEF IInv, Types, RanRec
<1> QED BY <1>1 DEF IInv, WireOK, OpsAlike

LEMMA GoneWire ==
    ASSUME IInv, OpsAlike, WorkerGone
    PROVE  WireOK' /\ LinesOK'
<1>1. Len(wire'.todo) = 0 /\ Len(wire'.back) = 0 /\ buffer' = {} /\ ran' = ran
  BY EmptySeq DEF WorkerGone, NoWire
<1>2. 1..Len(wire'.todo) = {} /\ 1..Len(wire'.back) = {}
  BY <1>1
<1>3. \A o \in Op : ~Waiting(o)' /\ ~Answered(o)'
  BY <1>2 DEF Waiting, Answered
<1>4. WireOK'
  BY <1>1, <1>2, <1>3, RanStays DEF WireOK
<1>5. LinesOK'
  BY <1>1, <1>2, <1>3 DEF IInv, OpsAlike, LinesOK, Outcome, Talks
<1> QED BY <1>4, <1>5

LEMMA SameWire ==
    ASSUME IInv, OpsAlike, PageAlike, ~WorkerGone
    PROVE  WireOK' /\ LinesOK'
<1>1. \A o \in Op : (Waiting(o)' <=> Waiting(o)) /\ (Answered(o)' <=> Answered(o))
  BY DEF PageAlike, Waiting, Answered
<1>2. \A o \in Op : op'[o].err = op[o].err
  BY DEF OpsAlike
<1>3. WireOK'
  <2>1. UNCHANGED <<wire, ran>> /\ eng'.worker = eng.worker
    BY DEF PageAlike
  <2>2. \A o \in Op : op'[o].pc = op[o].pc /\ op'[o].at = op[o].at
    BY DEF OpsAlike
  <2> QED BY <1>1, <1>2, <2>1, <2>2, RanStays DEF IInv, WireOK
<1>4. \A o \in Op, a \in Answer : (Talks(o)' <=> Talks(o)) /\ (Outcome(o, a)' <=> Outcome(o, a))
  BY DEF OpsAlike, PageAlike, Talks, Outcome
<1>5. LinesOK'
  <2>1. \A i \in 1..Len(wire.back) : wire.back[i].op \in Op /\ wire.back[i].answer \in Answer
    <3>1. wire.back \in Seq(Reply)
      BY DEF IInv, Types
    <3>2. \A i \in 1..Len(wire.back) : wire.back[i] \in Reply
      BY <3>1, LenProperties
    <3> QED BY <3>2 DEF Reply
  <2>2. \A o \in Op : op[o].answer \in Answer
    BY DEF IInv, Types, OpRec
  <2> QED BY <1>1, <1>4, <2>1, <2>2 DEF IInv, OpsAlike, PageAlike, LinesOK
<1> QED BY <1>3, <1>5

LEMMA LifeStep ==
    ASSUME IInv, Types', BootsOK', OpsAlike, eng'.state = "busy" => eng.state = "busy",
           WorkerGone \/ PageAlike
    PROVE  IInv'
<1>1. ChainOK'
  BY ChainStays
<1>2. WireOK' /\ LinesOK'
  BY GoneWire, SameWire
<1> QED BY <1>1, <1>2 DEF IInv

LEMMA BootsRejects ==
    ASSUME IInv, NEW why \in Rejection
    PROVE  /\ BootsRejected(why) \in [Boot -> BootRec]
           /\ \A k \in Boot :
                 /\ BootsRejected(why)[k].pc = boot[k].pc
                 /\ BootsRejected(why)[k].err # boot[k].err => boot[k].pc \in {"init", "startup"}
<1> SUFFICES ASSUME NEW k \in Boot
             PROVE  LET r == IF Awaiting(k) THEN [boot[k] EXCEPT !.err = why] ELSE boot[k]
                    IN  /\ r \in BootRec /\ r.pc = boot[k].pc
                        /\ r.err # boot[k].err => boot[k].pc \in {"init", "startup"}
  BY DEF BootsRejected
<1>1. boot[k] \in BootRec
  BY DEF IInv, Types
<1> QED BY <1>1 DEF BootRec, Awaiting

LEMMA OpsRejects ==
    ASSUME IInv, NEW why \in Rejection, op' = OpsRejected(why), WorkerGone
    PROVE  op' \in [Op -> OpRec] /\ OpsAlike
<1>1. \A o \in Op : op[o] \in OpRec
  BY DEF IInv, Types
<1>2. \A o \in Op : op'[o] = IF o \in InFlight /\ op[o].err = "none"
                               THEN [op[o] EXCEPT !.err = why] ELSE op[o]
  BY DEF OpsRejected
<1>3. \A o \in Op : op'[o] \in OpRec
  <2> TAKE o \in Op
  <2> DEFINE r == op[o]
  <2>1. r \in OpRec /\ op'[o] \in {r, [r EXCEPT !.err = why]}
    BY <1>1, <1>2
  <2> HIDE DEF r
  <2>2. [r EXCEPT !.err = why] \in OpRec
    BY <2>1 DEF OpRec
  <2> QED BY <2>1, <2>2
<1>4. op' \in [Op -> OpRec]
  BY <1>3 DEF OpsRejected
<1>5. OpsAlike
  BY <1>1, <1>2 DEF OpsAlike, InFlight, OpRec
<1> QED BY <1>4, <1>5

LEMMA OpsUnchanged ==
    ASSUME IInv, UNCHANGED op
    PROVE  op' \in [Op -> OpRec] /\ OpsAlike
BY DEF IInv, Types, OpsAlike

LEMMA WireTyped ==
    ASSUME IInv, WorkerGone \/ UNCHANGED <<wire, buffer, ran>>
    PROVE  /\ wire' \in [todo : Seq(Op), back : Seq(Reply)]
           /\ buffer' \subseteq Owner /\ ran' \in RanRec
<1>1. <<>> \in Seq(Op) /\ <<>> \in Seq(Reply)
  BY EmptySeq
<1>2. CASE WorkerGone
  <2>1. [todo |-> <<>>, back |-> <<>>] \in [todo : Seq(Op), back : Seq(Reply)]
    BY <1>1
  <2> QED BY <1>2, <2>1 DEF IInv, Types, WorkerGone, NoWire
<1>3. CASE UNCHANGED <<wire, buffer, ran>>
  BY <1>3 DEF IInv, Types
<1> QED BY <1>2, <1>3

\* #boot() from what its caller left of the engine and of the attempts.
LEMMA BootingKeeps ==
    ASSUME IInv, WorkerGone, op' \in [Op -> OpRec], OpsAlike,
           NEW before \in EngineRec, NEW waiting \in [Boot -> BootRec],
           \A k \in Boot :
              /\ waiting[k].pc = boot[k].pc
              /\ waiting[k].err # boot[k].err => boot[k].pc \in {"init", "startup"},
           Boots(before, waiting)
    PROVE  IInv'
<1>0. PICK n \in Boot : n = NextBoot
  BY DEF Boots
<1>1. n \in Boot /\ boot[n].pc = "unused" /\ Attempts(n - 1)
  BY <1>0, NextBootIsNew
<1>2. \A k \in Boot : waiting[k].err # "none" => waiting[k].pc \in {"init", "startup"}
  BY DEF IInv, BootsOK
<1>3. waiting[n].err = "none" /\ waiting[n].pc = "unused"
  BY <1>1, <1>2
<1>4. \/ /\ eng' = [before EXCEPT !.state = "loading", !.worker = n, !.start = n, !.quiesced = FALSE]
         /\ boot' = [waiting EXCEPT ![n].pc = "init"]
      \/ /\ eng' = [TornDown(before) EXCEPT !.state = "error", !.start = n, !.quiesced = FALSE]
         /\ boot' = [waiting EXCEPT ![n].pc = "failing"]
  BY <1>0 DEF Boots
<1>5. eng' \in EngineRec
  BY <1>1, <1>4 DEF EngineRec, EngineState, TornDown
<1>6. /\ boot' \in [Boot -> BootRec]
      /\ boot'[n].err = "none" /\ boot'[n].pc \in {"init", "failing"}
      /\ \A k \in Boot \ {n} : boot'[k] = waiting[k]
  <2>1. PICK pc \in {"init", "failing"} : boot' = [waiting EXCEPT ![n].pc = pc]
    BY <1>4
  <2>2. waiting[n] \in BootRec /\ [waiting[n] EXCEPT !.pc = pc] \in BootRec
    BY <1>1 DEF BootRec, BootPhase
  <2>3. boot'[n] = [waiting[n] EXCEPT !.pc = pc] /\ \A k \in Boot \ {n} : boot'[k] = waiting[k]
    BY <1>1, <2>1
  <2>4. boot'[n].err = waiting[n].err /\ boot'[n].pc = pc
    BY <2>2, <2>3 DEF BootRec
  <2> QED BY <1>1, <1>3, <2>1, <2>2, <2>3, <2>4
<1>7. /\ eng'.state \in {"loading", "error"}
      /\ eng'.state = "error" => eng'.worker = NoBoot
  BY <1>4 DEF EngineRec, TornDown
<1>8. BootsOK'
  <2>1. n \in 0..MaxBoots /\ Attempts(n)'
    BY <1>1, <1>6, EngineAssumption DEF Attempts
  <2> QED BY <1>2, <1>6, <1>7, <2>1 DEF BootsOK
<1>9. Types'
  BY <1>5, <1>6, WireTyped DEF Types
<1> QED BY <1>7, <1>8, <1>9, LifeStep

LEMMA KeepsStart == ASSUME IInv, Start PROVE IInv'
<1>1. eng \in EngineRec /\ boot \in [Boot -> BootRec]
  BY DEF IInv, Types
<1> QED BY <1>1, OpsUnchanged, BootingKeeps DEF Start

LEMMA KeepsRestart == ASSUME IInv, Restart PROVE IInv'
<1>1. [TornDown(eng) EXCEPT !.owner = Nobody] \in EngineRec
  BY DEF IInv, Types, TornDown, EngineRec
<1>2. "restarted" \in Rejection
  BY DEF Rejection
<1> QED BY <1>1, <1>2, BootsRejects, OpsRejects, BootingKeeps DEF Restart

\* A worker that goes takes the state with it; attempts are at most rejected.
LEMMA EndKeeps ==
    ASSUME IInv, WorkerGone, op' \in [Op -> OpRec], OpsAlike, eng' \in EngineRec,
           eng'.state \in {"error", "disposed"}, eng'.worker = NoBoot,
           NEW why \in Rejection, boot' = BootsRejected(why)
    PROVE  IInv'
<1>1. /\ boot' \in [Boot -> BootRec]
      /\ \A k \in Boot :
            /\ boot'[k].pc = boot[k].pc
            /\ boot'[k].err # boot[k].err => boot[k].pc \in {"init", "startup"}
  BY BootsRejects
<1>2. BootsOK'
  <2>1. \A k \in Boot : boot'[k].err # "none" => boot'[k].pc \in {"init", "startup"}
    BY <1>1 DEF IInv, BootsOK
  <2>2. \E n \in 0..MaxBoots : Attempts(n)'
    <3>1. PICK n \in 0..MaxBoots : Attempts(n)
      BY DEF IInv, BootsOK
    <3>2. Attempts(n)'
      BY <1>1, <3>1 DEF Attempts
    <3> QED BY <3>2
  <2> QED BY <2>1, <2>2 DEF BootsOK
<1>3. Types'
  BY <1>1, WireTyped DEF Types
<1> QED BY <1>2, <1>3, LifeStep

LEMMA KeepsDispose == ASSUME IInv, Dispose PROVE IInv'
<1>1. "disposed" \in Rejection
  BY DEF Rejection
<1>2. eng' \in EngineRec /\ eng'.state = "disposed" /\ eng'.worker = NoBoot
  BY DEF Dispose, IInv, Types, TornDown, EngineRec, EngineState
<1> QED BY <1>1, <1>2, OpsRejects, EndKeeps DEF Dispose

LEMMA FatalKeeps ==
    ASSUME IInv, Fatal, boot' = BootsRejected("failed")
    PROVE  IInv'
<1>1. "failed" \in Rejection
  BY DEF Rejection
<1>2. eng' \in EngineRec /\ eng'.state = "error" /\ eng'.worker = NoBoot
  BY DEF Fatal, IInv, Types, TornDown, EngineRec, EngineState
<1> QED BY <1>1, <1>2, OpsRejects, EndKeeps DEF Fatal

LEMMA KeepsFailure == ASSUME IInv, Failure PROVE IInv'
BY FatalKeeps DEF Failure, WorkerDies, StartTimesOut

\* One attempt moves on.
AttemptMoves(k, pc, err) ==
    /\ boot'[k] = [boot[k] EXCEPT !.pc = pc, !.err = err]
    /\ \A j \in Boot \ {k} : boot'[j] = boot[j]

LEMMA AttemptKeeps ==
    ASSUME IInv, NEW k \in Boot, boot[k].pc # "unused",
           NEW pc \in BootPhase \ {"unused"}, NEW err \in Rejection,
           boot' \in [Boot -> BootRec], AttemptMoves(k, pc, err),
           err # "none" => pc \in {"init", "startup"},
           eng' \in EngineRec, op' \in [Op -> OpRec], OpsAlike,
           eng'.state = "busy" => eng.state = "busy", WorkerGone \/ PageAlike,
           eng'.state \in {"ready", "busy"} =>
              eng'.worker # NoBoot /\ boot'[eng'.worker].pc \in {"winning", "won"},
           eng'.state \in {"idle", "error", "disposed"} => eng'.worker = NoBoot
    PROVE  IInv'
<1>1. boot'[k].pc = pc /\ boot'[k].err = err
  BY DEF AttemptMoves, IInv, Types, BootRec
<1>2. \E n \in 0..MaxBoots : Attempts(n)'
  <2>1. PICK n \in 0..MaxBoots : Attempts(n)
    BY DEF IInv, BootsOK
  <2>2. Attempts(n)'
    BY <1>1, <2>1 DEF Attempts, AttemptMoves
  <2> QED BY <2>2
<1>3. \A j \in Boot : boot'[j].err # "none" => boot'[j].pc \in {"init", "startup"}
  <2>1. \A j \in Boot \ {k} : boot'[j] = boot[j]
    BY DEF AttemptMoves
  <2> QED BY <1>1, <2>1 DEF IInv, BootsOK
<1>4. BootsOK'
  BY <1>2, <1>3 DEF BootsOK
<1>5. Types'
  BY WireTyped DEF Types, PageAlike
<1> QED BY <1>4, <1>5, LifeStep

\* The same in terms of the update the actions write.
LEMMA AttemptUpdated ==
    ASSUME IInv, NEW k \in Boot, NEW pc \in BootPhase, NEW err \in Rejection,
           \/ boot' = [boot EXCEPT ![k].pc = pc] /\ err = boot[k].err
           \/ boot' = [boot EXCEPT ![k].pc = pc, ![k].err = err]
    PROVE  boot' \in [Boot -> BootRec] /\ AttemptMoves(k, pc, err)
<1>1. boot \in [Boot -> BootRec] /\ boot[k] \in BootRec
  BY DEF IInv, Types
<1>2. [boot[k] EXCEPT !.pc = pc, !.err = err] \in BootRec
  BY <1>1 DEF BootRec
<1>3. /\ boot'[k] = [boot[k] EXCEPT !.pc = pc, !.err = err]
      /\ \A j \in Boot \ {k} : boot'[j] = boot[j]
  <2>1. CASE boot' = [boot EXCEPT ![k].pc = pc] /\ err = boot[k].err
    <3>1. boot'[k] = [boot[k] EXCEPT !.pc = pc]
      BY <1>1, <2>1
    <3>2. [boot[k] EXCEPT !.pc = pc] = [boot[k] EXCEPT !.pc = pc, !.err = err]
      BY <1>1, <2>1 DEF BootRec
    <3> QED BY <1>1, <2>1, <3>1, <3>2
  <2>2. CASE boot' = [boot EXCEPT ![k].pc = pc, ![k].err = err]
    BY <1>1, <2>2
  <2> QED BY <2>1, <2>2
<1>4. boot' \in [Boot -> BootRec]
  BY <1>1, <1>2, <1>3
<1> QED BY <1>3, <1>4 DEF AttemptMoves

LEMMA ReadyKeeps ==
    ASSUME IInv, NEW k \in Boot, Ready(k), eng.worker = k, boot[k].pc \in {"init", "startup"},
           boot[k].err = "none", UNCHANGED <<op, wire, buffer, ran>>
    PROVE  IInv'
<1>1. boot' \in [Boot -> BootRec] /\ AttemptMoves(k, "winning", "none")
  BY AttemptUpdated DEF Ready, BootPhase, Rejection
<1>2. boot'[k].pc = "winning"
  BY <1>1 DEF AttemptMoves, IInv, Types, BootRec
<1>3. /\ eng' \in EngineRec /\ eng'.state = "ready" /\ eng'.worker = k /\ eng'.owner = eng.owner
  BY DEF Ready, IInv, Types, EngineRec, EngineState
<1> QED BY <1>1, <1>2, <1>3, OpsUnchanged, AttemptKeeps DEF PageAlike, BootPhase, Rejection

LEMMA KeepsInterpreterReady ==
    ASSUME IInv, NEW k \in Boot, InterpreterReady(k)
    PROVE  IInv'
<1>0. boot[k].err = "none"
  BY DEF InterpreterReady, Quiet
<1>1. CASE Ready(k)
  BY <1>0, <1>1, ReadyKeeps DEF InterpreterReady
<1>2. CASE boot' = [boot EXCEPT ![k].pc = "startup"] /\ UNCHANGED eng
  <2>1. boot' \in [Boot -> BootRec] /\ AttemptMoves(k, "startup", "none")
    BY <1>0, <1>2, AttemptUpdated DEF BootPhase, Rejection
  <2>2. eng.state \notin {"ready", "busy"}
    BY DEF InterpreterReady, IInv, BootsOK
  <2>3. eng' \in EngineRec /\ PageAlike
    BY <1>2 DEF IInv, Types, InterpreterReady, PageAlike
  <2> QED BY <1>2, <2>1, <2>2, <2>3, OpsUnchanged, AttemptKeeps
          DEF InterpreterReady, BootPhase, Rejection, IInv, BootsOK
<1> QED BY <1>1, <1>2 DEF InterpreterReady

LEMMA KeepsStartupRan ==
    ASSUME IInv, NEW k \in Boot, StartupRan(k)
    PROVE  IInv'
BY ReadyKeeps DEF StartupRan, Quiet

\* An attempt fails: its worker goes, and the state with it.
LEMMA StartFailedKeeps ==
    ASSUME IInv, NEW k \in Boot, boot[k].pc \in {"init", "startup"}, StartFailed(k)
    PROVE  IInv'
<1>1. boot' \in [Boot -> BootRec] /\ AttemptMoves(k, "failing", "none")
  BY AttemptUpdated DEF StartFailed, BootPhase, Rejection
<1>2. eng' \in EngineRec /\ eng'.state \in {"disposed", "error"} /\ eng'.worker = NoBoot
  BY DEF StartFailed, IInv, Types, TornDown, EngineRec, EngineState
<1> QED BY <1>1, <1>2, OpsUnchanged, AttemptKeeps DEF StartFailed, BootPhase, Rejection

LEMMA KeepsStartupFailed ==
    ASSUME IInv, NEW k \in Boot, StartupFailed(k)
    PROVE  IInv'
BY StartFailedKeeps DEF StartupFailed

LEMMA KeepsBootRejected ==
    ASSUME IInv, NEW k \in Boot, BootRejected(k)
    PROVE  IInv'
BY StartFailedKeeps DEF BootRejected, IInv, BootsOK

LEMMA KeepsBootSuperseded ==
    ASSUME IInv, NEW k \in Boot, BootSuperseded(k)
    PROVE  IInv'
<1>1. boot[k].pc \in {"init", "startup"}
  BY DEF BootSuperseded, IInv, BootsOK
<1>2. boot' \in [Boot -> BootRec] /\ AttemptMoves(k, "failing", "none")
  BY AttemptUpdated DEF BootSuperseded, BootPhase, Rejection
<1>3. eng' = eng /\ eng' \in EngineRec /\ PageAlike
  BY DEF BootSuperseded, IInv, Types, PageAlike
<1>4. eng.state \in {"ready", "busy"} =>
         eng.worker # NoBoot /\ eng.worker \in Boot \ {k} /\ boot[eng.worker].pc \in {"winning", "won"}
  BY <1>1 DEF IInv, BootsOK, Types, EngineRec
<1> QED BY <1>1, <1>2, <1>3, <1>4, OpsUnchanged, AttemptKeeps
        DEF BootSuperseded, BootPhase, Rejection, IInv, BootsOK, AttemptMoves

LEMMA KeepsBootSettles ==
    ASSUME IInv, NEW k \in Boot, BootSettles(k)
    PROVE  IInv'
<1>0. boot[k].err = "none" /\ boot[k] \in BootRec
  BY DEF BootSettles, IInv, BootsOK, Types, BootRec, Rejection
<1>1. PICK pc \in {"won", "lost"} :
         /\ boot' = [boot EXCEPT ![k].pc = pc]
         /\ pc = "won" <=> boot[k].pc = "winning"
         /\ boot[k].pc \in {"winning", "failing"}
  BY DEF BootSettles
<1>2. boot' \in [Boot -> BootRec] /\ AttemptMoves(k, pc, "none")
  BY <1>0, <1>1, AttemptUpdated DEF BootPhase, Rejection
<1>3. boot'[k].pc = pc
  BY <1>0, <1>2 DEF AttemptMoves, BootRec
<1>4. eng' \in EngineRec /\ eng'.state = eng.state /\ PageAlike
  BY DEF BootSettles, IInv, Types, EngineRec, PageAlike
<1>5. eng.state \in {"ready", "busy"} =>
         eng.worker # NoBoot /\ boot'[eng.worker].pc \in {"winning", "won"}
  BY <1>1, <1>2, <1>3 DEF IInv, BootsOK, Types, EngineRec, AttemptMoves
<1> QED BY <1>1, <1>2, <1>3, <1>4, <1>5, OpsUnchanged, AttemptKeeps
        DEF BootSettles, BootPhase, Rejection, IInv, BootsOK, PageAlike

LEMMA BootsStay ==
    ASSUME IInv, UNCHANGED boot, eng'.worker = eng.worker,
           eng'.state = eng.state \/ {eng.state, eng'.state} \subseteq {"ready", "busy"}
    PROVE  BootsOK'
<1>1. \E n \in 0..MaxBoots : Attempts(n)'
  BY DEF IInv, BootsOK, Attempts
<1> QED BY <1>1 DEF IInv, BootsOK

LEMMA KeepsUnquiesce == ASSUME IInv, Unquiesce PROVE IInv'
<1>1. eng' \in EngineRec /\ eng'.state = eng.state /\ eng'.worker = eng.worker /\ PageAlike
  BY DEF Unquiesce, IInv, Types, EngineRec, PageAlike
<1>2. BootsOK'
  BY <1>1, BootsStay DEF Unquiesce
<1>3. Types'
  BY <1>1 DEF Unquiesce, IInv, Types
<1> QED BY <1>1, <1>2, <1>3, OpsUnchanged, LifeStep DEF Unquiesce

LEMMA KeepsCancelQueuedCells == ASSUME IInv, CancelQueuedCells PROVE IInv'
<1>1. op' \in [Op -> OpRec] /\ OpsAlike
  <2>1. \A o \in Op :
           op'[o] = IF o \in QueuedCells THEN [op[o] EXCEPT !.dropped = TRUE] ELSE op[o]
    BY DEF CancelQueuedCells
  <2>2. \A o \in Op :
           /\ op'[o] \in OpRec /\ op'[o].pc = op[o].pc /\ op'[o].kind = op[o].kind
           /\ op'[o].by = op[o].by /\ op'[o].at = op[o].at /\ op'[o].gate = op[o].gate
           /\ op'[o].answer = op[o].answer /\ op'[o].err = op[o].err
    <3> TAKE o \in Op
    <3> DEFINE r == op[o]
    <3>1. r \in OpRec /\ op'[o] \in {r, [r EXCEPT !.dropped = TRUE]}
      BY <2>1 DEF IInv, Types
    <3> HIDE DEF r
    <3>2. op'[o] \in OpRec /\ op'[o].pc = r.pc /\ op'[o].kind = r.kind /\ op'[o].by = r.by
          /\ op'[o].at = r.at /\ op'[o].gate = r.gate /\ op'[o].answer = r.answer
          /\ op'[o].err = r.err
      BY <3>1 DEF OpRec
    <3> QED BY <3>2 DEF r
  <2> QED BY <2>2 DEF CancelQueuedCells, OpsAlike
<1>2. BootsOK'
  BY BootsStay DEF CancelQueuedCells
<1>3. Types' /\ PageAlike
  BY <1>1 DEF CancelQueuedCells, IInv, Types, PageAlike
<1> QED BY <1>1, <1>2, <1>3, LifeStep DEF CancelQueuedCells

-----------------------------------------------------------------------------
(* Steps of one command.                                                    *)

CommandMoves(o) ==
    /\ op' \in [Op -> OpRec]
    /\ \A p \in Op \ {o} : op'[p] = op[p]

LEMMA TurnChain ==
    ASSUME IInv, NEW o \in Op, HasTurn(o), NEW p \in Op, p < o
    PROVE  LetsThrough(p)
<1>1. CASE p = o - 1
  BY <1>1 DEF HasTurn
<1>2. CASE p < o - 1
  <2>1. o - 1 \in Op /\ LetsThrough(o - 1)
    BY <1>2, EngineAssumption DEF HasTurn
  <2>2. Begun(o - 1)
    BY <2>1 DEF LetsThrough, Begun
  <2> QED BY <1>2, <2>1, <2>2 DEF IInv, ChainOK
<1> QED BY <1>1, <1>2, EngineAssumption

\* A command whose turn it is finds no push and no clear on its way.
LEMMA GateAlone ==
    ASSUME IInv, NEW o \in Op, op[o].pc \in {"gate", "loading"}, NEW p \in Op, Talks(p)
    PROVE  op[p].pc \notin {"sent", "answered"}
<1>1. SUFFICES ASSUME op[p].pc \in {"sent", "answered"} PROVE FALSE
  OBVIOUS
<1>2. Begun(o) /\ Begun(p) /\ p # o
  BY <1>1 DEF Begun
<1>3. CASE p < o
  BY <1>1, <1>2, <1>3 DEF IInv, ChainOK, LetsThrough, Talks, Releasing
<1>4. CASE o < p
  BY <1>2, <1>4 DEF IInv, ChainOK, LetsThrough
<1> QED BY <1>2, <1>3, <1>4, EngineAssumption

LEMMA OneTalks ==
    ASSUME IInv, NEW o \in Op, NEW p \in Op, Talks(o), Talks(p),
           op[o].pc \in {"sent", "answered"}, op[p].pc \in {"sent", "answered"}
    PROVE  o = p
<1>1. Begun(o) /\ Begun(p) /\ ~LetsThrough(o) /\ ~LetsThrough(p)
  BY DEF Begun, LetsThrough, Talks, Releasing
<1>2. ~(o < p) /\ ~(p < o)
  BY <1>1 DEF IInv, ChainOK
<1> QED BY <1>2, EngineAssumption

LEMMA ChainMoves ==
    ASSUME IInv, NEW o \in Op, CommandMoves(o),
           op[o].pc # "unused", op'[o].pc # "unused",
           LetsThrough(o) => LetsThrough(o)', Begun(o)' => Begun(o) \/ HasTurn(o),
           op'[o].err # "none" => op'[o].pc = "sent",
           op'[o].kind = "push" => op'[o].by \in Owner,
           op'[o].pc = "loading" =>
              op'[o].kind \in Lazy /\ op'[o].at \in {NoBoot, op'[o].gate},
           eng'.state = "busy" => Busy' # {}
    PROVE  ChainOK'
<1> USE DEF CommandMoves
<1>1. \E n \in 0..MaxOps : Submitted(n)'
  <2>1. PICK n \in 0..MaxOps : Submitted(n)
    BY DEF IInv, ChainOK
  <2>2. Submitted(n)'
    BY <2>1 DEF Submitted
  <2> QED BY <2>2
<1>2. \A p \in Op : LetsThrough(p) => LetsThrough(p)'
  BY DEF LetsThrough
<1>3. \A p \in Op, q \in Op : q < p /\ Begun(p)' => LetsThrough(q)'
  <2> SUFFICES ASSUME NEW p \in Op, NEW q \in Op, q < p, Begun(p)'
               PROVE  LetsThrough(q)
    BY <1>2
  <2>1. Begun(p) \/ HasTurn(p)
    BY DEF Begun
  <2> QED BY <2>1, TurnChain DEF IInv, ChainOK
<1>4. /\ \A p \in Op : op'[p].err # "none" => op'[p].pc = "sent"
      /\ \A p \in Op : op'[p].kind = "push" => op'[p].by \in Owner
      /\ \A p \in Op : Bound(p)'
  BY DEF IInv, ChainOK, Bound
<1> QED BY <1>1, <1>3, <1>4 DEF ChainOK

LEMMA WireMoves ==
    ASSUME IInv, NEW o \in Op, CommandMoves(o), UNCHANGED <<wire, ran>>,
           eng'.worker = eng.worker, ~Waiting(o), ~Answered(o),
           op[o].pc \in {"sent", "answered", "done"} => op'[o].pc \in {"sent", "answered", "done"}
    PROVE  WireOK'
<1>1. \A p \in Op : (Waiting(p)' <=> Waiting(p)) /\ (Answered(p)' <=> Answered(p))
  BY DEF Waiting, Answered
<1>2. \A p \in Op : Waiting(p) \/ Answered(p) => op'[p] = op[p]
  BY DEF CommandMoves
<1>3. ran'.op # 0 => op'[ran'.op].pc \in {"sent", "answered", "done"}
  BY DEF IInv, Types, RanRec, WireOK, CommandMoves
<1> QED BY <1>1, <1>2, <1>3 DEF IInv, WireOK

LEMMA RepliesTyped ==
    ASSUME IInv
    PROVE  \A i \in 1..Len(wire.back) : wire.back[i].op \in Op /\ wire.back[i].answer \in Answer
<1>1. wire.back \in Seq(Reply)
  BY DEF IInv, Types
<1>2. \A i \in 1..Len(wire.back) : wire.back[i] \in Reply
  BY <1>1, LenProperties
<1> QED BY <1>2 DEF Reply

LEMMA LinesMove ==
    ASSUME IInv, NEW o \in Op, CommandMoves(o), UNCHANGED <<wire, buffer>>,
           eng'.owner = eng.owner, ~Waiting(o), ~Answered(o),
           Talks(o) => op[o].pc \notin {"sent", "answered"},
           Talks(o)' => op'[o].pc \notin {"sent", "answered"}
    PROVE  LinesOK'
<1>1. \A p \in Op : (Waiting(p)' <=> Waiting(p)) /\ (Answered(p)' <=> Answered(p))
  BY DEF Waiting, Answered
<1>2. \A p \in Op \ {o} :
         /\ op'[p] = op[p] /\ (Talks(p)' <=> Talks(p))
         /\ \A a \in Answer : Outcome(p, a)' <=> Outcome(p, a)
  BY DEF CommandMoves, Talks, Outcome
<1>3. \A i \in 1..Len(wire.back) : wire.back[i].op # o
  BY DEF Answered
<1>4. \A p \in Op : op[p].answer \in Answer
  BY DEF IInv, Types, OpRec
<1>5. ASSUME \A p \in Op : Talks(p)' => op'[p].pc \notin {"sent", "answered"}
      PROVE  buffer' \subseteq {eng'.owner}
  <2>1. \A p \in Op : Talks(p) => op[p].pc \notin {"sent", "answered"}
    BY <1>2, <1>5 DEF Talks
  <2>2. buffer \subseteq {eng.owner}
    BY <2>1 DEF IInv, LinesOK
  <2> QED BY <2>2
<1>6. ASSUME NEW p \in Op, Talks(p)', Waiting(p)'
      PROVE  /\ buffer' \subseteq {eng'.owner}
             /\ op'[p].kind = "push" => eng'.owner \in {Nobody, op'[p].by}
  <2>1. p # o /\ Waiting(p) /\ Talks(p) /\ op'[p] = op[p]
    BY <1>1, <1>2, <1>6 DEF Talks
  <2> QED BY <2>1 DEF IInv, LinesOK
<1>7. (\A i \in 1..Len(wire.back) :
          Talks(wire.back[i].op) => Outcome(wire.back[i].op, wire.back[i].answer))'
  BY <1>2, <1>3, RepliesTyped DEF IInv, LinesOK
<1>8. (\A p \in Op : Talks(p) /\ op[p].pc = "answered" => Outcome(p, op[p].answer))'
  BY <1>2, <1>4 DEF IInv, LinesOK
<1>9. ASSUME NEW p \in Op, Talks(p)', op'[p].pc = "sent", ~Waiting(p)', ~Answered(p)'
      PROVE  buffer' = {}
  <2>1. p # o /\ ~Waiting(p) /\ ~Answered(p) /\ Talks(p) /\ op'[p] = op[p]
    BY <1>1, <1>2, <1>9 DEF Talks
  <2>2. op[p].pc = "sent"
    BY <1>9, <2>1
  <2> QED BY <2>1, <2>2 DEF IInv, LinesOK
<1> QED BY <1>5, <1>6, <1>7, <1>8, <1>9 DEF LinesOK

\* A command that is over, or has not begun: nothing at the worker is its own.
LEMMA NotAtWorker ==
    ASSUME IInv, NEW o \in Op, op[o].pc # "sent" \/ op[o].err # "none"
    PROVE  ~Waiting(o) /\ ~Answered(o)
BY DEF IInv, WireOK

LEMMA DoneKeeps ==
    ASSUME IInv, NEW o \in Op, Done(o), op[o].pc \in {"queued", "gate", "loading", "answered"},
           op[o].pc = "queued" => HasTurn(o),
           op[o].pc = "answered" => ~Talks(o),
           eng' \in EngineRec, eng'.state = eng.state, eng'.worker = eng.worker,
           eng'.owner = eng.owner, UNCHANGED <<boot, wire, buffer, ran>>
    PROVE  IInv'
<1>1. Blank("done") \in OpRec
  BY DEF Blank, OpRec, OpPhase, Rejection, Answer
<1>2. CommandMoves(o) /\ op'[o] = Blank("done")
  BY <1>1 DEF Done, IInv, Types, CommandMoves
<1>3. op'[o].pc = "done" /\ op'[o].err = "none" /\ op'[o].kind = "list"
  BY <1>2 DEF Blank
<1>4. ~Waiting(o) /\ ~Answered(o)
  BY NotAtWorker
<1>5. Busy' = Busy
  BY <1>2, <1>3 DEF Busy, InFlight, CommandMoves
<1>6. ChainOK'
  BY <1>2, <1>3, <1>5, ChainMoves DEF IInv, ChainOK, LetsThrough, Begun
<1>7. WireOK'
  BY <1>2, <1>3, <1>4, WireMoves
<1>8. LinesOK'
  BY <1>2, <1>3, <1>4, LinesMove DEF Talks
<1>9. BootsOK'
  BY BootsStay
<1> QED BY <1>2, <1>6, <1>7, <1>8, <1>9 DEF IInv, Types, CommandMoves

LEMMA KeepsTurn ==
    ASSUME IInv, NEW o \in Op, Turn(o)
    PROVE  IInv'
<1>1. HasTurn(o) /\ op[o].pc = "queued"
  BY DEF Turn, HasTurn
<1>2. CASE Done(o)
  BY <1>1, <1>2, DoneKeeps DEF Turn, IInv, Types
<1>3. CASE op' = [op EXCEPT ![o].pc = "gate", ![o].gate = eng.start]
  <2>0. op[o] \in OpRec /\ eng \in EngineRec
    BY DEF IInv, Types
  <2> DEFINE r == [op[o] EXCEPT !.pc = "gate", !.gate = eng.start]
  <2>1. /\ r \in OpRec /\ r.pc = "gate" /\ r.kind = op[o].kind /\ r.by = op[o].by
        /\ r.err = op[o].err
    BY <2>0 DEF OpRec, OpPhase, EngineRec
  <2>2. CommandMoves(o) /\ op'[o] = r
    BY <1>3, <2>1 DEF IInv, Types, CommandMoves
  <2> HIDE DEF r
  <2>3. ~Waiting(o) /\ ~Answered(o)
    BY <1>1, NotAtWorker
  <2>4. op[o].err = "none"
    BY <1>1 DEF IInv, ChainOK
  <2>5. Busy' = Busy
    BY <1>1, <2>1, <2>2 DEF Busy, InFlight, CommandMoves
  <2>6. ChainOK'
    BY <1>1, <2>1, <2>2, <2>4, <2>5, ChainMoves DEF Turn, IInv, ChainOK, LetsThrough, Begun
  <2>7. WireOK'
    BY <1>1, <2>1, <2>2, <2>3, WireMoves DEF Turn
  <2>8. LinesOK'
    BY <1>1, <2>1, <2>2, <2>3, LinesMove DEF Turn, Talks
  <2>9. BootsOK'
    BY BootsStay DEF Turn
  <2> QED BY <2>2, <2>6, <2>7, <2>8, <2>9 DEF Turn, IInv, Types, CommandMoves
<1> QED BY <1>2, <1>3 DEF Turn

LEMMA KeepsRefused ==
    ASSUME IInv, NEW o \in Op, Refused(o)
    PROVE  IInv'
BY DoneKeeps DEF Refused, GateOpen, IInv, Types

LEMMA KeepsAbandoned ==
    ASSUME IInv, NEW o \in Op, Abandoned(o)
    PROVE  IInv'
BY DoneKeeps DEF Abandoned, IInv, Types

\* It waits for its module, bound to the interpreter that is current.
LEMMA KeepsHanded ==
    ASSUME IInv, NEW o \in Op, Handed(o)
    PROVE  IInv'
<1>1. /\ op[o].pc = "gate" /\ op[o].at \in {NoBoot, eng.worker} /\ op[o].kind \in Lazy
      /\ UNCHANGED <<eng, boot, wire, buffer, ran>>
  BY DEF Handed, GateOpen, MayRun, SessionOf
<1>2. op[o] \in OpRec /\ eng \in EngineRec
  BY DEF IInv, Types
<1> DEFINE r == [op[o] EXCEPT !.pc = "loading", !.gate = eng.worker]
<1>3. /\ r \in OpRec /\ r.pc = "loading" /\ r.kind = op[o].kind /\ r.by = op[o].by
      /\ r.err = op[o].err /\ r.at = op[o].at /\ r.gate = eng.worker
  BY <1>2 DEF OpRec, OpPhase, EngineRec
<1>4. CommandMoves(o) /\ op'[o] = r
  BY <1>3 DEF Handed, IInv, Types, CommandMoves
<1> HIDE DEF r
<1>5. ~Waiting(o) /\ ~Answered(o) /\ op[o].err = "none"
  BY <1>1, NotAtWorker DEF IInv, ChainOK
<1>6. Busy' = Busy
  BY <1>1, <1>3, <1>4 DEF Busy, InFlight, CommandMoves
<1>7. ChainOK'
  BY <1>1, <1>3, <1>4, <1>5, <1>6, ChainMoves DEF IInv, ChainOK, LetsThrough, Begun
<1>8. WireOK'
  BY <1>1, <1>3, <1>4, <1>5, WireMoves
<1>9. LinesOK'
  BY <1>1, <1>3, <1>4, <1>5, LinesMove DEF Talks
<1>10. BootsOK'
  BY <1>1, BootsStay
<1> QED BY <1>1, <1>4, <1>7, <1>8, <1>9, <1>10 DEF IInv, Types, CommandMoves

\* A new command: it is queued, and behind all that were submitted before.
LEMMA KeepsSubmit ==
    ASSUME IInv, NEW kind \in Kinds, NEW by \in Owner \cup {Nobody},
           kind = "push" => by \in Owner, Submit(kind, by)
    PROVE  IInv'
<1>0. PICK n \in Op : n = NextOp
  BY DEF Submit
<1>1. op[n].pc = "unused" /\ Submitted(n - 1)
  BY <1>0, NextOpIsNew
<1>2. op[n] \in OpRec /\ eng \in EngineRec /\ op \in [Op -> OpRec]
  BY DEF IInv, Types
<1> DEFINE r == [op[n] EXCEPT !.pc = "queued", !.kind = kind, !.by = by, !.at = eng.worker]
<1>3. r \in OpRec /\ r.pc = "queued" /\ r.kind = kind /\ r.by = by /\ r.err = op[n].err
  BY <1>2 DEF OpRec, OpPhase, EngineRec
<1>4. op' = [op EXCEPT ![n].pc = "queued", ![n].kind = kind, ![n].by = by, ![n].at = eng.worker]
  BY <1>0 DEF Submit
<1>5. op'[n] = r /\ (\A p \in Op \ {n} : op'[p] = op[p]) /\ DOMAIN op' = Op
  BY <1>2, <1>4
<1> HIDE DEF r
<1>6. CommandMoves(n)
  <2>1. op' = [p \in Op |-> op'[p]]
    BY <1>2, <1>4
  <2>2. \A p \in Op : op'[p] \in OpRec
    BY <1>2, <1>3, <1>5
  <2>3. op' \in [Op -> OpRec]
    BY <2>1, <2>2
  <2> QED BY <1>5, <2>3 DEF CommandMoves
<1>7. ~Waiting(n) /\ ~Answered(n)
  BY <1>1, NotAtWorker
<1>8. ChainOK'
  <2>1. n \in 0..MaxOps /\ Submitted(n)'
    BY <1>1, <1>3, <1>5, EngineAssumption DEF Submitted
  <2>2. ASSUME NEW p \in Op, NEW q \in Op, q < p, Begun(p)'
        PROVE  LetsThrough(q)'
    <3>1. p # n /\ Begun(p)
      BY <1>3, <1>5, <2>2 DEF Begun
    <3>2. LetsThrough(q)
      BY <2>2, <3>1 DEF IInv, ChainOK
    <3>3. q # n
      BY <1>1, <3>2 DEF LetsThrough
    <3> QED BY <1>5, <3>2, <3>3 DEF LetsThrough
  <2>3. \A p \in Op : op'[p].err # "none" => op'[p].pc = "sent"
    BY <1>1, <1>3, <1>5 DEF IInv, ChainOK
  <2>4. \A p \in Op : op'[p].kind = "push" => op'[p].by \in Owner
    BY <1>3, <1>5 DEF IInv, ChainOK
  <2>5. \A p \in Op : Bound(p)'
    BY <1>3, <1>5 DEF IInv, ChainOK, Bound
  <2>6. Busy' = Busy
    BY <1>1, <1>3, <1>5 DEF Busy, InFlight
  <2>7. eng' = eng
    BY DEF Submit
  <2> QED BY <2>1, <2>2, <2>3, <2>4, <2>5, <2>6, <2>7 DEF IInv, ChainOK
<1>9. WireOK'
  BY <1>1, <1>6, <1>7, WireMoves DEF Submit
<1>10. LinesOK'
  BY <1>1, <1>3, <1>5, <1>6, <1>7, LinesMove DEF Submit, Talks
<1>11. BootsOK'
  BY BootsStay DEF Submit
<1> QED BY <1>6, <1>8, <1>9, <1>10, <1>11 DEF Submit, IInv, Types, CommandMoves

LEMMA HeadAndTail ==
    ASSUME NEW S, NEW s \in Seq(S), s # <<>>
    PROVE  /\ Len(s) \in Nat \ {0} /\ s[1] \in S /\ Head(s) = s[1]
           /\ Tail(s) \in Seq(S) /\ Len(Tail(s)) = Len(s) - 1
           /\ \A i \in 1..(Len(s) - 1) : Tail(s)[i] = s[i + 1]
BY HeadTailProperties, LenProperties, EmptySeq

\* A counted command that is answered leaves "busy" to the others, if any.
LEMMA AnswerKeepsState ==
    ASSUME IInv, NEW o \in Op, CommandMoves(o), op'[o].pc = "answered", NoLongerBusy(o), UNCHANGED boot
    PROVE  /\ eng' \in EngineRec /\ eng'.worker = eng.worker /\ eng'.owner = eng.owner
           /\ eng'.state = "busy" => Busy' # {}
           /\ BootsOK'
<1>1. /\ eng' \in EngineRec /\ eng'.worker = eng.worker /\ eng'.owner = eng.owner
      /\ eng'.state = IF Busy = {o} /\ eng.state = "busy" THEN "ready" ELSE eng.state
  BY DEF NoLongerBusy, IInv, Types, EngineRec, EngineState
<1>2. ASSUME eng'.state = "busy" PROVE Busy' # {}
  <2>1. eng.state = "busy" /\ Busy # {o}
    BY <1>1, <1>2
  <2>2. Busy # {}
    BY <2>1 DEF IInv, ChainOK
  <2>3. PICK p \in Busy : p # o
    BY <2>1, <2>2
  <2>4. p \in Busy'
    BY <2>3 DEF Busy, InFlight, CommandMoves
  <2> QED BY <2>4
<1>3. BootsOK'
  BY <1>1, BootsStay
<1> QED BY <1>1, <1>2, <1>3

LEMMA AnswerChain ==
    ASSUME IInv, NEW o \in Op, CommandMoves(o), op[o].pc = "sent",
           op'[o].pc = "answered", op'[o].err = "none", op'[o].kind = op[o].kind, op'[o].by = op[o].by,
           eng'.state = "busy" => Busy' # {}
    PROVE  ChainOK'
<1>1. LetsThrough(o) => LetsThrough(o)'
  BY DEF LetsThrough
<1>2. Begun(o)
  BY DEF Begun
<1> QED BY <1>1, <1>2, ChainMoves DEF IInv, ChainOK

LEMMA AnswerTyped ==
    ASSUME IInv, NEW o \in Op, NEW answer \in Answer,
           \/ op' = [op EXCEPT ![o].pc = "answered", ![o].answer = answer] /\ op[o].err = "none"
           \/ op' = [op EXCEPT ![o].pc = "answered", ![o].err = "none", ![o].answer = answer]
    PROVE  /\ CommandMoves(o)
           /\ op'[o].pc = "answered" /\ op'[o].answer = answer /\ op'[o].err = "none"
           /\ op'[o].kind = op[o].kind /\ op'[o].by = op[o].by
<1> DEFINE r == [op[o] EXCEPT !.pc = "answered", !.err = "none", !.answer = answer]
<1>1. op \in [Op -> OpRec] /\ op[o] \in OpRec
  BY DEF IInv, Types
<1>2. /\ r \in OpRec /\ r.pc = "answered" /\ r.answer = answer /\ r.err = "none"
      /\ r.kind = op[o].kind /\ r.by = op[o].by
  BY <1>1 DEF OpRec, OpPhase, Rejection
<1>3. op'[o] = r /\ (\A p \in Op \ {o} : op'[p] = op[p]) /\ op' = [p \in Op |-> op'[p]]
  <2>1. CASE op' = [op EXCEPT ![o].pc = "answered", ![o].answer = answer] /\ op[o].err = "none"
    <3>1. op'[o] = [op[o] EXCEPT !.pc = "answered", !.answer = answer]
      BY <1>1, <2>1
    <3>2. [op[o] EXCEPT !.pc = "answered", !.answer = answer] = r
      BY <1>1, <2>1 DEF OpRec
    <3> QED BY <1>1, <2>1, <3>1, <3>2
  <2>2. CASE op' = [op EXCEPT ![o].pc = "answered", ![o].err = "none", ![o].answer = answer]
    BY <1>1, <2>2
  <2> QED BY <2>1, <2>2
<1> HIDE DEF r
<1>4. op' \in [Op -> OpRec]
  BY <1>1, <1>2, <1>3
<1> QED BY <1>2, <1>3, <1>4 DEF CommandMoves

LEMMA KeepsRejectionRead ==
    ASSUME IInv, NEW o \in Op, RejectionRead(o)
    PROVE  IInv'
<1>1. op[o].pc = "sent" /\ op[o].err # "none"
  BY DEF RejectionRead, IInv, ChainOK
<1>2. /\ CommandMoves(o)
      /\ op'[o].pc = "answered" /\ op'[o].answer = "failed" /\ op'[o].err = "none"
      /\ op'[o].kind = op[o].kind /\ op'[o].by = op[o].by
  BY AnswerTyped DEF RejectionRead, Answer
<1>3. /\ eng' \in EngineRec /\ eng'.worker = eng.worker /\ eng'.owner = eng.owner
      /\ eng'.state = "busy" => Busy' # {}
      /\ BootsOK'
  BY <1>2, AnswerKeepsState DEF RejectionRead
<1>4. ~Waiting(o) /\ ~Answered(o)
  BY <1>1, NotAtWorker
<1>5. ChainOK'
  BY <1>1, <1>2, <1>3, AnswerChain
<1>6. WireOK'
  BY <1>2, <1>3, <1>4, WireMoves DEF RejectionRead
<1>7. LinesOK'
  <2>1. CASE ~Talks(o)
    BY <1>2, <1>3, <1>4, <2>1, LinesMove DEF RejectionRead, Talks
  <2>2. CASE Talks(o)
    <3>1. buffer' = {}
      BY <1>1, <1>4, <2>2 DEF IInv, LinesOK, RejectionRead
    <3>2. \A p \in Op \ {o} : Talks(p) => op[p].pc \notin {"sent", "answered"}
      BY <1>1, <2>2, OneTalks
    <3>3. \A p \in Op \ {o} : Talks(p)' => op'[p].pc \notin {"sent", "answered"}
      BY <1>2, <3>2 DEF CommandMoves, Talks
    <3>4. wire' = wire /\ \A p \in Op : (Waiting(p)' <=> Waiting(p)) /\ (Answered(p)' <=> Answered(p))
      BY DEF RejectionRead, Waiting, Answered
    <3>5. \A i \in 1..Len(wire.back) : wire.back[i].op \in Op \ {o} /\ op[wire.back[i].op].pc = "sent"
      BY <1>4, RepliesTyped DEF Answered, IInv, WireOK
    <3>6. \A p \in Op : Waiting(p) => op[p].pc = "sent" /\ p # o
      BY <1>4 DEF IInv, WireOK
    <3>7. \A p \in Op : op'[p].pc = "answered" /\ Talks(p)' => p = o
      BY <3>3
    <3>8. Outcome(o, "failed")'
      BY <3>1 DEF Outcome
    <3>9. \A i \in 1..Len(wire.back) : ~Talks(wire.back[i].op)'
      BY <1>2, <3>3, <3>4, <3>5 DEF CommandMoves
    <3>10. \A p \in Op : Waiting(p) => ~Talks(p)'
      BY <1>2, <3>3, <3>6 DEF CommandMoves
    <3> QED BY <1>2, <3>1, <3>4, <3>7, <3>8, <3>9, <3>10 DEF LinesOK
  <2> QED BY <2>1, <2>2
<1> QED BY <1>2, <1>3, <1>5, <1>6, <1>7 DEF RejectionRead, IInv, Types, CommandMoves

\* A push passes the buffer on, a clear frees it, and no other command
\* touches it.
LEMMA KeepsSettle ==
    ASSUME IInv, NEW o \in Op, Settle(o)
    PROVE  IInv'
<1>1. op[o].pc = "answered" /\ Done(o) /\ UNCHANGED <<boot, wire, buffer, ran>>
  BY DEF Settle
<1>2. eng \in EngineRec /\ op[o] \in OpRec
  BY DEF IInv, Types
<1>3. eng' \in EngineRec /\ eng'.state = eng.state /\ eng'.worker = eng.worker
  <2>1. (eng.quiesced \/ Idling) \in BOOLEAN
    BY <1>2 DEF EngineRec, Idling
  <2> DEFINE q == eng.quiesced \/ Idling
  <2>2. eng' \in {eng, [eng EXCEPT !.owner = op[o].by], [eng EXCEPT !.owner = Nobody],
                  [eng EXCEPT !.quiesced = q]}
    BY DEF Settle
  <2>3. q \in BOOLEAN
    BY <2>1
  <2> HIDE DEF q
  <2>4. op[o].by \in Owner \cup {Nobody}
    BY <1>2 DEF OpRec
  <2> QED BY <1>2, <2>2, <2>3, <2>4 DEF EngineRec
<1>4. CASE ~Talks(o)
  <2>1. eng'.owner = eng.owner
    BY <1>2, <1>4 DEF Settle, Talks, EngineRec
  <2> QED BY <1>1, <1>3, <1>4, <2>1, DoneKeeps
<1>5. CASE Talks(o)
  <2>1. Blank("done") \in OpRec
    BY DEF Blank, OpRec, OpPhase, Rejection, Answer
  <2>2. CommandMoves(o) /\ op'[o] = Blank("done")
    BY <1>1, <2>1 DEF Done, IInv, Types, CommandMoves
  <2>3. op'[o].pc = "done" /\ op'[o].err = "none" /\ op'[o].kind = "list"
    BY <2>2 DEF Blank
  <2>4. ~Waiting(o) /\ ~Answered(o)
    BY <1>1, NotAtWorker
  <2>5. Busy' = Busy
    BY <1>1, <2>2, <2>3 DEF Busy, InFlight, CommandMoves
  <2>6. ChainOK'
    BY <1>1, <1>3, <2>2, <2>3, <2>5, ChainMoves DEF IInv, ChainOK, LetsThrough, Begun
  <2>7. WireOK'
    BY <1>1, <1>3, <2>2, <2>3, <2>4, WireMoves
  <2>8. LinesOK'
    <3>1. Outcome(o, op[o].answer)
      BY <1>1, <1>5 DEF IInv, LinesOK
    <3>2. op[o].answer = "failed" => buffer \subseteq {eng.owner} /\ eng' = eng
      BY <1>5, <3>1 DEF Outcome, Settle, Talks
    <3>3. op[o].answer = "incomplete" => buffer \subseteq {op[o].by} /\ eng'.owner = op[o].by
      BY <1>2, <3>1 DEF Outcome, Settle, EngineRec
    <3>4. op[o].answer = "ok" => buffer = {}
      BY <3>1 DEF Outcome
    <3>5. op[o].answer # "none"
      BY <3>1 DEF Outcome
    <3>6. buffer' \subseteq {eng'.owner}
      BY <1>1, <1>2, <3>2, <3>3, <3>4, <3>5 DEF OpRec, Answer
    <3>7. \A p \in Op : Talks(p)' => op'[p].pc \notin {"sent", "answered"}
      <4>1. \A p \in Op \ {o} : Talks(p) => op[p].pc \notin {"sent", "answered"}
        BY <1>1, <1>5, OneTalks
      <4> QED BY <2>2, <2>3, <4>1 DEF CommandMoves, Talks
    <3>8. \A p \in Op : Waiting(p)' \/ Answered(p)' => ~Talks(p)'
      <4>1. \A p \in Op : Waiting(p)' \/ Answered(p)' => Waiting(p) \/ Answered(p)
        BY <1>1 DEF Waiting, Answered
      <4>2. \A p \in Op : Waiting(p) \/ Answered(p) => op'[p].pc = "sent"
        BY <2>2, <2>4 DEF IInv, WireOK, CommandMoves
      <4> QED BY <3>7, <4>1, <4>2
    <3>9. \A i \in 1..Len(wire.back) : ~Talks(wire.back[i].op)'
      BY <1>1, <3>8, RepliesTyped DEF Answered
    <3> QED BY <1>1, <3>6, <3>7, <3>8, <3>9 DEF LinesOK
  <2>9. BootsOK'
    BY <1>1, <1>3, BootsStay
  <2> QED BY <1>1, <1>3, <2>2, <2>6, <2>7, <2>8, <2>9 DEF IInv, Types, CommandMoves
<1> QED BY <1>4, <1>5

LEMMA KeepsReplyRead == ASSUME IInv, ReplyRead PROVE IInv'
<1> DEFINE n == Len(wire.back)
<1>1. wire \in [todo : Seq(Op), back : Seq(Reply)] /\ wire.back \in Seq(Reply)
  BY DEF IInv, Types
<1>2. /\ n \in Nat \ {0} /\ wire.back[1] \in Reply /\ Head(wire.back) = wire.back[1]
      /\ Tail(wire.back) \in Seq(Reply) /\ Len(Tail(wire.back)) = n - 1
      /\ \A i \in 1..(n - 1) : Tail(wire.back)[i] = wire.back[i + 1]
  BY <1>1, HeadAndTail DEF ReplyRead
<1>3. PICK o \in Op, a \in Answer : wire.back[1].op = o /\ wire.back[1].answer = a
  BY <1>2 DEF Reply
<1>4. Answered(o) /\ op[o].pc = "sent" /\ op[o].err = "none"
  BY <1>2, <1>3 DEF IInv, WireOK, Answered
<1>5. /\ op' = [op EXCEPT ![o].pc = "answered", ![o].answer = a]
      /\ NoLongerBusy(o) /\ UNCHANGED <<boot, buffer, ran>>
  BY <1>2, <1>3 DEF ReplyRead
<1>6. wire'.todo = wire.todo /\ wire'.back = Tail(wire.back)
  BY <1>1 DEF ReplyRead
<1>7. wire' \in [todo : Seq(Op), back : Seq(Reply)]
  BY <1>1, <1>2 DEF ReplyRead
<1>8. /\ CommandMoves(o)
      /\ op'[o].pc = "answered" /\ op'[o].answer = a /\ op'[o].err = "none"
      /\ op'[o].kind = op[o].kind /\ op'[o].by = op[o].by
  BY <1>4, <1>5, AnswerTyped
<1>9. /\ eng' \in EngineRec /\ eng'.worker = eng.worker /\ eng'.owner = eng.owner
      /\ eng'.state = "busy" => Busy' # {}
      /\ BootsOK'
  BY <1>5, <1>8, AnswerKeepsState
<1>10. ChainOK'
  BY <1>4, <1>8, <1>9, AnswerChain
\* What is left of the replies is what was behind the first.
<1>11. Len(wire'.back) = n - 1 /\ \A i \in 1..(n - 1) : wire'.back[i] = wire.back[i + 1] /\ i + 1 \in 1..n
  BY <1>2, <1>6
<1> HIDE DEF n
<1>12. \A i, j \in 1..n : i < j => wire.back[i].op < wire.back[j].op
  BY DEF IInv, WireOK, n
<1>13. \A i \in 1..(n - 1) : wire'.back[i].op \in Op \ {o}
  <2> TAKE i \in 1..(n - 1)
  <2>1. wire.back[1].op < wire.back[i + 1].op
    BY <1>2, <1>11, <1>12
  <2>2. wire.back[i + 1].op \in Op
    BY <1>11, RepliesTyped DEF n
  <2> QED BY <1>3, <1>11, <2>1, <2>2, EngineAssumption
<1>14. \A p \in Op : Waiting(p)' <=> Waiting(p)
  BY <1>6 DEF Waiting
<1>15. \A p \in Op : Answered(p)' <=> Answered(p) /\ p # o
  <2> TAKE p \in Op
  <2>1. ASSUME NEW i \in 1..n, wire.back[i].op = p, p # o PROVE Answered(p)'
    <3>1. i - 1 \in 1..(n - 1) /\ i = (i - 1) + 1
      BY <1>2, <1>3, <2>1
    <3>2. wire'.back[i - 1] = wire.back[i]
      BY <1>11, <3>1
    <3> QED BY <1>11, <2>1, <3>1, <3>2 DEF Answered
  <2>2. ASSUME NEW i \in 1..(n - 1), wire'.back[i].op = p PROVE Answered(p) /\ p # o
    BY <1>11, <1>13, <2>2 DEF Answered, n
  <2> QED BY <1>11, <2>1, <2>2 DEF Answered, n
<1>16. ~Waiting(o)
  <2>1. ran.op >= o /\ ran.op \in Nat
    BY <1>2, <1>3, EngineAssumption DEF IInv, WireOK, Types, RanRec, n
  <2> QED BY <2>1 DEF IInv, WireOK, Waiting
<1>17. WireOK'
  <2>1. \A i, j \in 1..(n - 1) : i < j => wire'.back[i].op < wire'.back[j].op
    <3> TAKE i, j \in 1..(n - 1)
    <3>1. i + 1 \in 1..n /\ j + 1 \in 1..n /\ (i < j => i + 1 < j + 1)
      BY <1>2, <1>11
    <3>2. i < j => wire.back[i + 1].op < wire.back[j + 1].op
      BY <1>12, <3>1
    <3> QED BY <1>11, <3>2
  <2>2. \A i \in 1..(n - 1) : wire'.back[i].op <= ran.op
    BY <1>11 DEF IInv, WireOK, n
  <2>3. \A p \in Op : Waiting(p)' \/ Answered(p)' => op'[p] = op[p] /\ (Waiting(p) \/ Answered(p))
    BY <1>8, <1>14, <1>15, <1>16 DEF CommandMoves
  <2>4. ran'.op # 0 => op'[ran'.op].pc \in {"sent", "answered", "done"}
    BY <1>5, <1>8 DEF IInv, Types, RanRec, WireOK, CommandMoves
  <2>5. /\ ran' = ran /\ wire'.todo = wire.todo /\ eng'.worker = eng.worker
        /\ Len(wire'.back) = n - 1
    BY <1>5, <1>6, <1>9, <1>11
  <2>6. \A p \in Op : Waiting(p)' \/ Answered(p)' => op'[p].pc = "sent" /\ op'[p].err = "none"
    BY <2>3 DEF IInv, WireOK
  <2>7. \A p \in Op : Waiting(p)' => op'[p].at \in {NoBoot, eng.worker}
    BY <1>14, <2>3 DEF IInv, WireOK
  <2> QED BY <2>1, <2>2, <2>4, <2>5, <2>6, <2>7 DEF IInv, WireOK
<1>18. LinesOK'
  <2>1. \A p \in Op : (Talks(p)' <=> Talks(p)) /\ \A b \in Answer : Outcome(p, b)' <=> Outcome(p, b)
    BY <1>5, <1>8, <1>9 DEF CommandMoves, Talks, Outcome
  <2>2. \A p \in Op \ {o} : op'[p] = op[p]
    BY <1>8 DEF CommandMoves
  <2>3. ASSUME \A p \in Op : Talks(p)' => op'[p].pc \notin {"sent", "answered"}
        PROVE  buffer' \subseteq {eng'.owner}
    <3>1. \A p \in Op : Talks(p) => op[p].pc \notin {"sent", "answered"}
      BY <1>8, <2>1, <2>2, <2>3
    <3> QED BY <1>5, <1>9, <3>1 DEF IInv, LinesOK
  <2>4. ASSUME NEW p \in Op, Talks(p)', Waiting(p)'
        PROVE  /\ buffer' \subseteq {eng'.owner}
               /\ op'[p].kind = "push" => eng'.owner \in {Nobody, op'[p].by}
    <3>1. p # o /\ Waiting(p) /\ Talks(p)
      BY <1>14, <1>16, <2>1, <2>4
    <3> QED BY <1>5, <1>9, <2>2, <3>1 DEF IInv, LinesOK
  <2>5. ASSUME NEW i \in 1..(n - 1), Talks(wire.back[i].op)'
        PROVE  Outcome(wire.back[i].op, wire.back[i].answer)'
    <3>1. PICK p \in Op, b \in Answer : p = wire'.back[i].op /\ b = wire'.back[i].answer
      BY <1>11, RepliesTyped DEF n
    <3>2. Talks(p)'
      BY <2>5, <3>1 DEF Talks
    <3>3. Outcome(p, b)
      BY <1>11, <2>1, <3>1, <3>2 DEF IInv, LinesOK, n
    <3>4. Outcome(p, b)'
      BY <2>1, <3>3
    <3> QED BY <3>1, <3>4 DEF Outcome
  <2>6. ASSUME NEW p \in Op, Talks(p)', op'[p].pc = "answered"
        PROVE  Outcome(p, op[p].answer)'
    <3>1. PICK b \in Answer : b = op'[p].answer
      BY <1>8 DEF CommandMoves, OpRec
    <3>2. Outcome(p, b)
      <4>1. Talks(p)
        BY <2>1, <2>6
      <4>2. CASE p = o
        BY <1>2, <1>3, <1>8, <3>1, <4>1, <4>2 DEF IInv, LinesOK, n
      <4>3. CASE p # o
        BY <2>2, <2>6, <3>1, <4>1, <4>3 DEF IInv, LinesOK
      <4> QED BY <4>2, <4>3
    <3>3. Outcome(p, b)'
      BY <2>1, <3>2
    <3> QED BY <3>1, <3>3 DEF Outcome
  <2>7. ASSUME NEW p \in Op, Talks(p)', op'[p].pc = "sent", ~Waiting(p)', ~Answered(p)'
        PROVE  buffer' = {}
    <3>1. p # o /\ ~Waiting(p) /\ ~Answered(p) /\ Talks(p) /\ op'[p] = op[p]
      BY <1>8, <1>14, <1>15, <2>1, <2>2, <2>7
    <3>2. op[p].pc = "sent"
      BY <2>7, <3>1
    <3> QED BY <1>5, <3>1, <3>2 DEF IInv, LinesOK
  <2> QED BY <1>11, <2>3, <2>4, <2>5, <2>6, <2>7 DEF LinesOK
<1> QED BY <1>5, <1>7, <1>8, <1>9, <1>10, <1>17, <1>18 DEF IInv, Types, CommandMoves

\* What is at the worker, or was, came before the command that is let through.
LEMMA BeforeGate ==
    ASSUME IInv, NEW o \in Op, op[o].pc \in {"gate", "loading"}
    PROVE  /\ \A p \in Op : Begun(p) => p <= o
           /\ \A i \in 1..Len(wire.todo) : wire.todo[i] < o
           /\ ran.op < o
<1>1. ASSUME NEW p \in Op, Begun(p) PROVE p <= o
  <2>1. ~LetsThrough(o)
    BY DEF LetsThrough
  <2> QED BY <1>1, <2>1, EngineAssumption DEF IInv, ChainOK
<1>2. ASSUME NEW i \in 1..Len(wire.todo) PROVE wire.todo[i] < o
  <2>1. wire.todo \in Seq(Op)
    BY DEF IInv, Types
  <2>2. wire.todo[i] \in Op
    BY <2>1, LenProperties
  <2>3. op[wire.todo[i]].pc = "sent"
    BY <2>2 DEF IInv, WireOK, Waiting
  <2>4. wire.todo[i] <= o /\ wire.todo[i] # o
    BY <1>1, <2>2, <2>3 DEF Begun
  <2> QED BY <2>2, <2>4, EngineAssumption
<1>3. ran.op < o
  <2>1. CASE ran.op = 0
    BY <2>1, EngineAssumption
  <2>2. CASE ran.op \in Op
    <3>1. op[ran.op].pc \in {"sent", "answered", "done"}
      BY <2>2, EngineAssumption DEF IInv, WireOK
    <3>2. ran.op <= o /\ ran.op # o
      BY <1>1, <2>2, <3>1 DEF Begun
    <3> QED BY <2>2, <3>2, EngineAssumption
  <2> QED BY <2>1, <2>2 DEF IInv, Types, RanRec
<1> QED BY <1>1, <1>2, <1>3

\* #whileBusy() says "busy" for a command that is counted, if any.
LEMMA CountingKeeps ==
    ASSUME IInv, NEW o \in Op, CommandMoves(o), Counting(o), UNCHANGED boot,
           op[o].pc # "sent", op'[o].pc = "sent", op'[o].kind = op[o].kind
    PROVE  /\ eng' \in EngineRec /\ eng'.worker = eng.worker /\ eng'.owner = eng.owner
           /\ eng'.state = "busy" => Busy' # {}
           /\ BootsOK'
<1>1. /\ eng' \in EngineRec /\ eng'.worker = eng.worker /\ eng'.owner = eng.owner
      /\ eng'.state = IF op[o].kind \in Counted /\ Busy = {} /\ eng.state = "ready"
                      THEN "busy" ELSE eng.state
  BY DEF Counting, IInv, Types, EngineRec, EngineState
<1>2. ASSUME eng'.state = "busy" PROVE Busy' # {}
  <2>1. CASE eng.state = "busy"
    <3>1. PICK p \in Busy : TRUE
      BY <2>1 DEF IInv, ChainOK
    <3>2. p # o /\ p \in Busy'
      BY <3>1 DEF Busy, InFlight, CommandMoves
    <3> QED BY <3>2
  <2>2. CASE eng.state # "busy"
    <3>1. op[o].kind \in Counted
      BY <1>1, <1>2, <2>2
    <3>2. o \in Busy'
      BY <3>1 DEF Busy, InFlight
    <3> QED BY <3>2
  <2> QED BY <2>1, <2>2
<1>3. BootsOK'
  BY <1>1, BootsStay
<1> QED BY <1>1, <1>2, <1>3

LEMMA KeepsOrphaned ==
    ASSUME IInv, NEW o \in Op, Orphaned(o)
    PROVE  IInv'
<1>1. /\ op[o].pc = "loading" /\ Counting(o) /\ UNCHANGED <<boot, wire, buffer, ran>>
      /\ op[o].kind \in Lazy
  BY DEF Orphaned, IInv, ChainOK, Bound
<1>2. op[o] \in OpRec
  BY DEF IInv, Types
<1> DEFINE r == [op[o] EXCEPT !.pc = "sent", !.gate = NoBoot, !.err = "restarted"]
<1>3. r \in OpRec /\ r.pc = "sent" /\ r.kind = op[o].kind /\ r.by = op[o].by
  BY <1>2 DEF OpRec, OpPhase, Rejection
<1>4. CommandMoves(o) /\ op'[o] = r
  BY <1>3 DEF Orphaned, IInv, Types, CommandMoves
<1> HIDE DEF r
<1>5. ~Waiting(o) /\ ~Answered(o)
  BY <1>1, NotAtWorker
<1>6. /\ eng' \in EngineRec /\ eng'.worker = eng.worker /\ eng'.owner = eng.owner
      /\ eng'.state = "busy" => Busy' # {}
      /\ BootsOK'
  BY <1>1, <1>3, <1>4, CountingKeeps
<1>7. ChainOK'
  BY <1>1, <1>3, <1>4, <1>6, ChainMoves DEF IInv, ChainOK, LetsThrough, Begun
<1>8. WireOK'
  BY <1>1, <1>3, <1>4, <1>5, <1>6, WireMoves
<1>9. LinesOK'
  BY <1>1, <1>3, <1>4, <1>5, <1>6, LinesMove DEF Talks, Lazy
<1> QED BY <1>1, <1>4, <1>6, <1>7, <1>8, <1>9 DEF IInv, Types, CommandMoves

LEMMA KeepsPosted ==
    ASSUME IInv, NEW o \in Op, Posted(o)
    PROVE  IInv'
<1>1. /\ op[o].pc \in {"gate", "loading"} /\ op[o].at \in {NoBoot, eng.worker}
      /\ UNCHANGED <<boot, buffer, ran>>
  BY DEF Posted, GateOpen, MayRun, SessionOf, IInv, ChainOK, Bound
<1>2. op[o] \in OpRec /\ eng \in EngineRec /\ op \in [Op -> OpRec] /\ wire.todo \in Seq(Op)
      /\ wire \in [todo : Seq(Op), back : Seq(Reply)]
  BY DEF IInv, Types
<1> DEFINE r == [op[o] EXCEPT !.pc = "sent", !.gate = NoBoot]
<1>3. /\ r \in OpRec /\ r.pc = "sent" /\ r.kind = op[o].kind /\ r.by = op[o].by
      /\ r.err = op[o].err /\ r.at = op[o].at
  BY <1>2 DEF OpRec, OpPhase
<1>4. CommandMoves(o) /\ op'[o] = r
  BY <1>2, <1>3 DEF Posted, CommandMoves
<1> HIDE DEF r
<1>5. op[o].err = "none"
  BY <1>1 DEF IInv, ChainOK
<1>6. /\ eng' \in EngineRec /\ eng'.worker = eng.worker /\ eng'.owner = eng.owner
      /\ eng'.state = "busy" => Busy' # {}
      /\ BootsOK'
  BY <1>1, <1>3, <1>4, CountingKeeps DEF Posted
<1>7. op[o].kind = "push" => eng.owner \in {Nobody, op[o].by}
  BY DEF Posted, MidStatement, IInv, ChainOK, Bound, Lazy
<1>8. ChainOK'
  <2>1. Begun(o) /\ ~LetsThrough(o)
    BY <1>1 DEF Begun, LetsThrough
  <2> QED BY <1>1, <1>3, <1>4, <1>5, <1>6, <2>1, ChainMoves DEF IInv, ChainOK
<1> DEFINE n == Len(wire.todo)
<1>9. /\ wire'.todo \in Seq(Op) /\ wire'.back = wire.back /\ n \in Nat /\ Len(wire'.todo) = n + 1
      /\ wire'.todo[n + 1] = o /\ \A i \in 1..n : wire'.todo[i] = wire.todo[i]
      /\ wire' \in [todo : Seq(Op), back : Seq(Reply)]
  <2>1. wire' = [wire EXCEPT !.todo = Append(wire.todo, o)]
    BY DEF Posted
  <2>2. /\ Append(wire.todo, o) \in Seq(Op) /\ n \in Nat /\ Len(Append(wire.todo, o)) = n + 1
        /\ Append(wire.todo, o)[n + 1] = o
        /\ \A i \in 1..n : Append(wire.todo, o)[i] = wire.todo[i]
    BY <1>2, AppendProperties, LenProperties
  <2> QED BY <1>2, <2>1, <2>2
<1>10. \A i, j \in 1..n : i < j => wire.todo[i] < wire.todo[j]
  BY DEF IInv, WireOK
<1>11. \A i \in 1..n : wire.todo[i] < o /\ ran.op < wire.todo[i]
  BY <1>1, BeforeGate DEF IInv, WireOK
<1>12. \A p \in Op : Waiting(p)' <=> Waiting(p) \/ p = o
  <2>1. \A p \in Op : Waiting(p) <=> \E i \in 1..n : wire.todo[i] = p
    BY DEF Waiting
  <2>2. \A p \in Op : Waiting(p)' <=> \E i \in 1..(n + 1) : wire'.todo[i] = p
    BY <1>9 DEF Waiting
  <2> HIDE DEF n
  <2>3. \A i \in 1..(n + 1) : i = n + 1 \/ i \in 1..n
    BY <1>9
  <2>4. n + 1 \in 1..(n + 1) /\ \A i \in 1..n : i \in 1..(n + 1)
    BY <1>9
  <2> QED BY <1>9, <2>1, <2>2, <2>3, <2>4
<1> HIDE DEF n
<1>13. (\A p \in Op : Answered(p)' <=> Answered(p)) /\ ~Answered(o) /\ ~Waiting(o)
  BY <1>1, <1>9, NotAtWorker DEF Answered
<1>14. WireOK'
  <2>1. \A i, j \in 1..(n + 1) : i < j => wire'.todo[i] < wire'.todo[j]
    <3> TAKE i, j \in 1..(n + 1)
    <3> HAVE i < j
    <3>1. i \in 1..n /\ (j \in 1..n \/ j = n + 1)
      BY <1>9
    <3> QED BY <1>9, <1>10, <1>11, <3>1
  <2>2. \A i \in 1..(n + 1) : ran.op < wire'.todo[i]
    <3> TAKE i \in 1..(n + 1)
    <3>1. i \in 1..n \/ i = n + 1
      BY <1>9
    <3> QED BY <1>1, <1>9, <1>11, <3>1, BeforeGate
  <2>3. \A p \in Op : Waiting(p)' \/ Answered(p)' => op'[p].pc = "sent" /\ op'[p].err = "none"
    BY <1>3, <1>4, <1>5, <1>12, <1>13 DEF IInv, WireOK, CommandMoves
  <2>4. \A p \in Op : Waiting(p)' => op'[p].at \in {NoBoot, eng.worker}
    BY <1>1, <1>3, <1>4, <1>12 DEF IInv, WireOK, CommandMoves
  <2>5. ran'.op # 0 => op'[ran'.op].pc \in {"sent", "answered", "done"}
    BY <1>1, <1>3, <1>4 DEF IInv, Types, RanRec, WireOK, CommandMoves
  <2> QED BY <1>1, <1>6, <1>9, <2>1, <2>2, <2>3, <2>4, <2>5 DEF IInv, WireOK
<1>15. LinesOK'
  <2>1. \A p \in Op \ {o} : op'[p] = op[p] /\ (Talks(p) => op[p].pc \notin {"sent", "answered"})
    BY <1>1, <1>4, GateAlone DEF CommandMoves
  <2>2. buffer \subseteq {eng.owner}
    BY <1>1, GateAlone DEF IInv, LinesOK
  <2>3. \A p \in Op \ {o} : Talks(p)' => op'[p].pc \notin {"sent", "answered"}
    BY <2>1 DEF Talks
  <2>4. ASSUME NEW p \in Op, Talks(p)', Waiting(p)'
        PROVE  op'[p].kind = "push" => eng'.owner \in {Nobody, op'[p].by}
    <3>1. op'[p].pc = "sent"
      BY <1>14, <2>4 DEF WireOK
    <3>2. p = o
      BY <2>3, <2>4, <3>1
    <3> QED BY <1>3, <1>4, <1>6, <1>7, <3>2
  <2>5. ASSUME NEW i \in 1..Len(wire.back), Talks(wire.back[i].op)' PROVE FALSE
    <3>1. PICK p \in Op : p = wire.back[i].op /\ Answered(p)
      BY RepliesTyped DEF Answered
    <3>2. p # o /\ op[p].pc = "sent" /\ Talks(p)'
      BY <1>9, <1>13, <2>5, <3>1 DEF IInv, WireOK, Talks
    <3> QED BY <2>1, <2>3, <3>2
  <2>6. \A p \in Op : Talks(p)' /\ op'[p].pc = "answered" => FALSE
    BY <1>3, <1>4, <2>3
  <2>7. \A p \in Op : Talks(p)' /\ op'[p].pc = "sent" => Waiting(p)'
    BY <1>12, <2>3
  <2>8. buffer' \subseteq {eng'.owner} /\ Len(wire'.back) = Len(wire.back)
    BY <1>1, <1>6, <1>9, <2>2
  <2> QED BY <2>4, <2>5, <2>6, <2>7, <2>8 DEF LinesOK
<1> QED BY <1>1, <1>4, <1>6, <1>8, <1>9, <1>14, <1>15 DEF IInv, Types, CommandMoves

\* The line buffer after the worker has run command o with this answer.
BufferAfter(o, a) ==
    /\ op[o].kind = "push" /\ a = "incomplete" => buffer' = buffer \cup {op[o].by}
    /\ op[o].kind \in {"push", "clear"} /\ a = "ok" => buffer' = {}
    /\ ~Talks(o) \/ a = "failed" => buffer' = buffer

LEMMA KeepsWorkerRuns == ASSUME IInv, WorkerRuns PROVE IInv'
<1> DEFINE n == Len(wire.todo)
           m == Len(wire.back)
<1>0. UNCHANGED <<eng, boot, op>>
  BY DEF WorkerRuns
<1>1. /\ wire \in [todo : Seq(Op), back : Seq(Reply)] /\ wire.todo \in Seq(Op)
      /\ wire.back \in Seq(Reply) /\ wire.todo # <<>>
  BY DEF IInv, Types, WorkerRuns
<1>2. /\ n \in Nat \ {0} /\ wire.todo[1] \in Op /\ Head(wire.todo) = wire.todo[1]
      /\ Tail(wire.todo) \in Seq(Op) /\ Len(Tail(wire.todo)) = n - 1
      /\ \A i \in 1..(n - 1) : Tail(wire.todo)[i] = wire.todo[i + 1]
  BY <1>1, HeadAndTail
<1>3. PICK o \in Op, a \in {"ok", "incomplete", "failed"} :
         /\ o = wire.todo[1] /\ (a = "incomplete" => op[o].kind = "push")
         /\ wire' = [todo |-> Tail(wire.todo), back |-> Append(wire.back, [op |-> o, answer |-> a])]
         /\ ran' = [op |-> o, for |-> op[o].at, in |-> eng.worker]
         /\ BufferAfter(o, a)
  <2>1. PICK a \in IF op[wire.todo[1]].kind = "push" THEN {"ok", "incomplete", "failed"} ELSE {"ok", "failed"} :
         /\ wire' = [todo |-> Tail(wire.todo),
                     back |-> Append(wire.back, [op |-> wire.todo[1], answer |-> a])]
         /\ ran' = [op |-> wire.todo[1], for |-> op[wire.todo[1]].at, in |-> eng.worker]
         /\ buffer' = CASE op[wire.todo[1]].kind = "push" /\ a = "incomplete" -> buffer \cup {op[wire.todo[1]].by}
                         [] op[wire.todo[1]].kind = "push" /\ a = "ok"         -> {}
                         [] op[wire.todo[1]].kind = "clear" /\ a = "ok"        -> {}
                         [] OTHER                                   -> buffer
    BY <1>2 DEF WorkerRuns
  <2> DEFINE o == wire.todo[1]
  <2>2. BufferAfter(o, a)
    BY <2>1, Zenon DEF BufferAfter, Talks
  <2> QED BY <1>2, <2>1, <2>2
<1>4. [op |-> o, answer |-> a] \in Reply
  BY <1>3 DEF Reply, Answer
<1>5. /\ wire'.todo = Tail(wire.todo) /\ wire'.back \in Seq(Reply) /\ m \in Nat
      /\ Len(wire'.back) = m + 1 /\ wire'.back[m + 1] = [op |-> o, answer |-> a]
      /\ \A i \in 1..m : wire'.back[i] = wire.back[i]
  <2>1. /\ wire'.todo = Tail(wire.todo) /\ wire'.back = Append(wire.back, [op |-> o, answer |-> a])
    BY <1>3
  <2>2. /\ Append(wire.back, [op |-> o, answer |-> a]) \in Seq(Reply) /\ m \in Nat
        /\ Len(Append(wire.back, [op |-> o, answer |-> a])) = m + 1
        /\ Append(wire.back, [op |-> o, answer |-> a])[m + 1] = [op |-> o, answer |-> a]
        /\ \A i \in 1..m : Append(wire.back, [op |-> o, answer |-> a])[i] = wire.back[i]
    BY <1>1, <1>4, AppendProperties, LenProperties
  <2> QED BY <2>1, <2>2
<1>6. ran'.op = o /\ ran'.for = op[o].at /\ ran'.in = eng.worker
  BY <1>3
<1>7. Waiting(o) /\ op[o].pc = "sent" /\ op[o].err = "none" /\ op[o].at \in {NoBoot, eng.worker}
  BY <1>2, <1>3 DEF IInv, WireOK, Waiting
<1>8. Types'
  <2>1. wire' \in [todo : Seq(Op), back : Seq(Reply)]
    BY <1>2, <1>3, <1>5
  <2>2. op[o] \in OpRec /\ eng \in EngineRec
    BY DEF IInv, Types
  <2>3. ran' \in RanRec
    BY <1>3, <2>2 DEF RanRec, OpRec, EngineRec
  <2>4. buffer' \subseteq Owner
    BY <1>3 DEF BufferAfter, Talks, IInv, Types, ChainOK
  <2> QED BY <1>0, <2>1, <2>3, <2>4 DEF IInv, Types
<1>9. \A i, j \in 1..n : i < j => wire.todo[i] < wire.todo[j]
  BY DEF IInv, WireOK
<1>10. \A i \in 1..(n - 1) :
          /\ i + 1 \in 1..n /\ wire'.todo[i] = wire.todo[i + 1]
          /\ o < wire'.todo[i]
  <2> TAKE i \in 1..(n - 1)
  <2>1. i + 1 \in 1..n /\ 1 \in 1..n /\ 1 < i + 1
    BY <1>2
  <2>2. wire'.todo[i] = wire.todo[i + 1]
    BY <1>2, <1>5
  <2>3. wire.todo[1] < wire.todo[i + 1]
    BY <1>9, <2>1
  <2> QED BY <1>3, <2>1, <2>2, <2>3
<1>11. ran.op < o /\ ran.op \in Nat
  BY <1>2, <1>3, EngineAssumption DEF IInv, WireOK, Types, RanRec
<1>12. \A i \in 1..m : wire.back[i].op < o /\ wire.back[i].op \in Op
  <2> TAKE i \in 1..m
  <2>1. wire.back[i].op \in Op /\ wire.back[i].op <= ran.op
    BY RepliesTyped DEF IInv, WireOK
  <2> QED BY <1>11, <2>1, EngineAssumption
<1>13. Len(wire'.todo) = n - 1
  BY <1>2, <1>5
<1> HIDE DEF n, m
<1>14. \A p \in Op : Waiting(p)' <=> Waiting(p) /\ p # o
  <2> TAKE p \in Op
  <2>1. ASSUME NEW i \in 1..n, wire.todo[i] = p, p # o PROVE Waiting(p)'
    <3>1. i - 1 \in 1..(n - 1) /\ i = (i - 1) + 1
      BY <1>2, <1>3, <2>1
    <3>2. wire'.todo[i - 1] = wire.todo[i]
      BY <1>10, <3>1
    <3> QED BY <1>13, <2>1, <3>1, <3>2 DEF Waiting
  <2>2. ASSUME NEW i \in 1..(n - 1), wire'.todo[i] = p PROVE Waiting(p) /\ p # o
    <3>1. o < p /\ i + 1 \in 1..n /\ wire.todo[i + 1] = p
      BY <1>10, <2>2
    <3>2. p # o
      BY <3>1, EngineAssumption
    <3> QED BY <3>1, <3>2 DEF Waiting, n
  <2> QED BY <1>13, <2>1, <2>2 DEF Waiting, n
<1>15. \A p \in Op : Answered(p)' <=> Answered(p) \/ p = o
  <2>1. \A p \in Op : Answered(p) <=> \E i \in 1..m : wire.back[i].op = p
    BY DEF Answered, m
  <2>2. \A p \in Op : Answered(p)' <=> \E i \in 1..(m + 1) : wire'.back[i].op = p
    BY <1>5 DEF Answered
  <2>3. \A i \in 1..(m + 1) : i = m + 1 \/ i \in 1..m
    BY <1>5
  <2>4. m + 1 \in 1..(m + 1) /\ \A i \in 1..m : i \in 1..(m + 1)
    BY <1>5
  <2>5. wire'.back[m + 1].op = o
    BY <1>5
  <2> QED BY <1>5, <2>1, <2>2, <2>3, <2>4, <2>5
<1>16. ~Answered(o)
  BY <1>12, EngineAssumption DEF Answered, m
<1>17. WireOK'
  <2>1. \A i, j \in 1..(n - 1) : i < j => wire'.todo[i] < wire'.todo[j]
    <3> TAKE i, j \in 1..(n - 1)
    <3>1. i + 1 \in 1..n /\ j + 1 \in 1..n /\ (i < j => i + 1 < j + 1)
      BY <1>2, <1>10
    <3>2. i < j => wire.todo[i + 1] < wire.todo[j + 1]
      BY <1>9, <3>1
    <3> QED BY <1>10, <3>2
  <2>2. \A i, j \in 1..(m + 1) : i < j => wire'.back[i].op < wire'.back[j].op
    <3> TAKE i, j \in 1..(m + 1)
    <3> HAVE i < j
    <3>1. i \in 1..m /\ (j \in 1..m \/ j = m + 1)
      BY <1>5
    <3>2. \A h, k \in 1..m : h < k => wire.back[h].op < wire.back[k].op
      BY DEF IInv, WireOK, m
    <3>3. wire'.back[m + 1].op = o
      BY <1>5
    <3> QED BY <1>5, <1>12, <3>1, <3>2, <3>3
  <2>3. \A i \in 1..(n - 1) : ran'.op < wire'.todo[i]
    BY <1>6, <1>10
  <2>4. \A i \in 1..(m + 1) : wire'.back[i].op <= ran'.op
    <3> TAKE i \in 1..(m + 1)
    <3>1. i \in 1..m \/ i = m + 1
      BY <1>5
    <3>2. wire'.back[m + 1].op = o
      BY <1>5
    <3>3. CASE i \in 1..m
      BY <1>5, <1>6, <1>12, <3>3, EngineAssumption
    <3>4. CASE i = m + 1
      BY <1>6, <3>2, <3>4, EngineAssumption
    <3> QED BY <3>1, <3>3, <3>4
  <2>5. \A p \in Op : Waiting(p)' \/ Answered(p)' => op[p].pc = "sent" /\ op[p].err = "none"
    BY <1>7, <1>14, <1>15 DEF IInv, WireOK
  <2>6. \A p \in Op : Waiting(p)' => op[p].at \in {NoBoot, eng.worker}
    BY <1>14 DEF IInv, WireOK
  <2>7. op'[ran'.op].pc \in {"sent", "answered", "done"} /\ ran'.for \in {NoBoot, ran'.in}
    BY <1>0, <1>6, <1>7
  <2> QED BY <1>0, <1>5, <1>13, <2>1, <2>2, <2>3, <2>4, <2>5, <2>6, <2>7 DEF WireOK
<1>18. LinesOK'
  <2>1. CASE ~Talks(o)
    <3>1. buffer' = buffer
      BY <1>3, <2>1 DEF BufferAfter
    <3>2. \A p \in Op, b \in Answer : Outcome(p, b)' <=> Outcome(p, b)
      BY <1>0, <3>1 DEF Outcome
    <3>3. ASSUME NEW i \in 1..(m + 1), Talks(wire.back[i].op)'
          PROVE  Outcome(wire.back[i].op, wire.back[i].answer)'
      <4>1. i \in 1..m /\ wire'.back[i] = wire.back[i]
        BY <1>0, <1>5, <2>1, <3>3 DEF Talks
      <4>2. PICK p \in Op, b \in Answer : p = wire.back[i].op /\ b = wire.back[i].answer
        BY <4>1, RepliesTyped DEF m
      <4>3. Outcome(p, b)
        BY <1>0, <3>3, <4>1, <4>2 DEF IInv, LinesOK, m, Talks
      <4>4. Outcome(p, b)'
        BY <3>2, <4>3
      <4> QED BY <4>1, <4>2, <4>4 DEF Outcome
    <3>4. ASSUME NEW p \in Op, Talks(p)', op'[p].pc = "answered" PROVE Outcome(p, op[p].answer)'
      <4>1. PICK b \in Answer : b = op[p].answer
        BY DEF IInv, Types, OpRec
      <4>2. Outcome(p, b)
        BY <1>0, <3>4, <4>1 DEF IInv, LinesOK, Talks
      <4>3. Outcome(p, b)'
        BY <3>2, <4>2
      <4> QED BY <1>0, <4>1, <4>3 DEF Outcome
    <3>5. \A p \in Op : Talks(p) => (Waiting(p)' <=> Waiting(p)) /\ (Answered(p)' <=> Answered(p))
      BY <1>14, <1>15, <2>1
    <3>6. \A p \in Op : Talks(p)' <=> Talks(p)
      BY <1>0 DEF Talks
    <3> QED BY <1>0, <1>5, <3>1, <3>3, <3>4, <3>5, <3>6 DEF IInv, LinesOK
  <2>2. CASE Talks(o)
    <3>1. \A p \in Op \ {o} : Talks(p) => op[p].pc \notin {"sent", "answered"}
      BY <1>7, <2>2, OneTalks
    <3>2. buffer \subseteq {eng.owner} /\ (op[o].kind = "push" => eng.owner \in {Nobody, op[o].by})
      BY <1>7, <2>2 DEF IInv, LinesOK
    <3>3. Outcome(o, a)'
      <4>1. CASE a = "ok"
        BY <1>0, <1>3, <2>2, <4>1 DEF BufferAfter, Outcome, Talks
      <4>2. CASE a = "failed"
        BY <1>0, <1>3, <3>2, <4>2 DEF BufferAfter, Outcome
      <4>3. CASE a = "incomplete"
        <5>1. op[o].kind = "push" /\ buffer' = buffer \cup {op[o].by}
          BY <1>3, <4>3 DEF BufferAfter
        <5>2. buffer \subseteq {op[o].by}
          BY <3>2, <5>1, EngineAssumption DEF IInv, Types
        <5> QED BY <1>0, <4>3, <5>1, <5>2 DEF Outcome
      <4> QED BY <4>1, <4>2, <4>3
    <3>4. ASSUME NEW i \in 1..(m + 1), Talks(wire.back[i].op)'
          PROVE  Outcome(wire.back[i].op, wire.back[i].answer)'
      <4>1. CASE i \in 1..m
        <5>1. PICK p \in Op : p = wire.back[i].op /\ Answered(p)
          BY <4>1, RepliesTyped DEF m, Answered
        <5>2. p # o /\ op[p].pc = "sent" /\ Talks(p)
          BY <1>0, <1>5, <1>16, <3>4, <4>1, <5>1 DEF IInv, WireOK, Talks
        <5> QED BY <3>1, <5>2
      <4>2. CASE i = m + 1
        <5>1. wire'.back[i].op = o /\ wire'.back[i].answer = a
          BY <1>5, <4>2
        <5> QED BY <3>3, <5>1 DEF Outcome
      <4> QED BY <1>5, <4>1, <4>2
    <3>5. \A p \in Op : Talks(p)' /\ op'[p].pc \in {"sent", "answered"} => p = o
      BY <1>0, <3>1 DEF Talks
    <3>6. Talks(o)' /\ op'[o].pc = "sent" /\ ~Waiting(o)' /\ Answered(o)'
      BY <1>0, <1>7, <1>14, <1>15, <2>2 DEF Talks
    <3>7. \A p \in Op : Waiting(p)' => ~Talks(p)'
      BY <1>17, <3>5, <3>6 DEF WireOK
    <3> QED BY <1>5, <3>4, <3>5, <3>6, <3>7 DEF LinesOK
  <2> QED BY <2>1, <2>2
<1>19. ChainOK'
  BY <1>0 DEF IInv, ChainOK, Submitted, Begun, Bound, LetsThrough, Busy, InFlight
<1>20. BootsOK'
  BY <1>0, BootsStay
<1> QED BY <1>8, <1>17, <1>18, <1>19, <1>20 DEF IInv

-----------------------------------------------------------------------------
(* Every step keeps the invariant; what it implies.                         *)

LEMMA EngineInit == Init => IInv
<1> SUFFICES ASSUME Init PROVE IInv
  OBVIOUS
<1>1. <<>> \in Seq(Op) /\ <<>> \in Seq(Reply) /\ Len(<<>>) = 0
  BY EmptySeq
<1>2. Blank("unused") \in OpRec
  BY DEF Blank, OpRec, OpPhase, Rejection, Answer
<1>3. Types
  <2>1. eng \in EngineRec /\ boot \in [Boot -> BootRec] /\ buffer \subseteq Owner /\ ran \in RanRec
    BY DEF Init, EngineRec, EngineState, BootRec, BootPhase, Rejection, RanRec
  <2>2. op \in [Op -> OpRec]
    BY <1>2 DEF Init
  <2>3. wire \in [todo : Seq(Op), back : Seq(Reply)]
    BY <1>1 DEF Init
  <2> QED BY <2>1, <2>2, <2>3 DEF Types
<1>4. BootsOK
  <2>1. 0 \in 0..MaxBoots /\ Attempts(0)
    BY EngineAssumption DEF Init, Attempts
  <2> QED BY <2>1 DEF Init, BootsOK
<1>5. ChainOK
  <2>1. 0 \in 0..MaxOps /\ Submitted(0)
    BY EngineAssumption DEF Init, Blank, Submitted
  <2> QED BY <2>1 DEF Init, Blank, ChainOK, Begun, Bound
<1>6. 1..Len(wire.todo) = {} /\ 1..Len(wire.back) = {}
  BY <1>1 DEF Init
<1>7. WireOK
  BY <1>6 DEF Init, WireOK, Waiting, Answered
<1>8. LinesOK
  BY <1>6 DEF Init, LinesOK, Waiting, Answered, Blank, Talks
<1> QED BY <1>3, <1>4, <1>5, <1>7, <1>8 DEF IInv

LEMMA KeepsPageCall == ASSUME IInv, PageCall PROVE IInv'
<1>1. CASE \E kind \in Kinds \ {"push"} : Submit(kind, Nobody)
  BY <1>1, KeepsSubmit
<1>2. CASE "push" \in Kinds /\ \E by \in Owner : Submit("push", by)
  BY <1>2, KeepsSubmit
<1> QED BY <1>1, <1>2, KeepsStart, KeepsRestart, KeepsDispose, KeepsUnquiesce,
           KeepsCancelQueuedCells DEF PageCall

LEMMA KeepsNext == ASSUME IInv, [Next]_engineVars PROVE IInv'
<1>1. CASE Continuation
  BY <1>1, KeepsBootRejected, KeepsBootSuperseded, KeepsBootSettles, KeepsTurn, KeepsRefused,
     KeepsHanded, KeepsAbandoned, KeepsPosted, KeepsOrphaned, KeepsRejectionRead, KeepsSettle DEF Continuation
<1>2. CASE WorkerMessage
  BY <1>2, KeepsInterpreterReady, KeepsStartupRan, KeepsStartupFailed, KeepsWorkerRuns,
     KeepsReplyRead DEF WorkerMessage
<1>3. CASE UNCHANGED engineVars
  <2>1. UNCHANGED <<eng, boot, op, wire, buffer, ran>>
    BY <1>3 DEF engineVars
  <2>2. Types' /\ PageAlike
    BY <2>1 DEF IInv, Types, PageAlike
  <2> QED BY <2>1, <2>2, BootsStay, OpsUnchanged, LifeStep
<1> QED BY <1>1, <1>2, <1>3, KeepsPageCall, KeepsFailure DEF Next

LEMMA EngineInvariant == Spec => []IInv
<1>1. IInv /\ [Next]_engineVars => IInv'
  BY KeepsNext
<1> QED BY EngineInit, <1>1, PTL DEF Spec

(* The engine's records stay what the code declares them to be.              *)
THEOREM EngineTypeOK == Spec => []TypeOK
<1>1. IInv => TypeOK
  <2> SUFFICES ASSUME IInv PROVE TypeOK
    OBVIOUS
  <2>1. wire.back \in Seq(Reply) /\ wire.todo \in Seq(Op)
    BY DEF IInv, Types
  <2>2. \A i \in DOMAIN wire.back : wire.back[i] \in [op : Op, answer : Answer]
    BY <2>1, LenProperties DEF Reply
  <2> QED BY <2>1, <2>2 DEF IInv, Types, TypeOK, EngineRec, BootRec, OpRec, RanRec
<1> QED BY EngineInvariant, <1>1, PTL

(* A command written against one interpreter never runs in its replacement,  *)
(* however often the engine is restarted between its submission and its turn *)
(* (browser-python.ts #submit).                                              *)
THEOREM CommandsNeverRetargeted == Spec => []NeverRetargeted
<1>1. IInv => NeverRetargeted
  BY DEF IInv, WireOK, NeverRetargeted
<1> QED BY EngineInvariant, <1>1, PTL

(* Between two tasks the engine calls itself ready or busy only with a live  *)
(* interpreter that came up, and has none in idle, error and disposed        *)
(* (browser-python.ts #boot, #failStart, #onFatal).                          *)
THEOREM StateStaysTrue == Spec => []StateIsTrue
<1>1. IInv => StateIsTrue
  BY DEF IInv, Types, EngineRec, BootsOK, StateIsTrue, Quiet
<1> QED BY EngineInvariant, <1>1, PTL

(* "busy" is said only while a counted command is at the worker              *)
(* (browser-python.ts #whileBusy).                                           *)
THEOREM BusyStaysDue == Spec => []NeverStuckBusy
<1>1. IInv => NeverStuckBusy
  BY DEF IInv, ChainOK, NeverStuckBusy
<1> QED BY EngineInvariant, <1>1, PTL

(* However many consoles push lines, and whatever is interrupted, the line   *)
(* buffer of the interpreter holds lines of one of them (browser-python.ts   *)
(* push()).                                                                  *)
THEOREM BufferStaysOneStatement == Spec => []OneStatement
<1>1. IInv => OneStatement
  <2> SUFFICES ASSUME IInv PROVE OneStatement
    OBVIOUS
  <2>1. \E x : buffer \subseteq {x}
    <3>1. CASE \A o \in Op : Talks(o) => op[o].pc \notin {"sent", "answered"}
      BY <3>1 DEF IInv, LinesOK
    <3>2. ASSUME NEW o \in Op, Talks(o), op[o].pc = "answered" PROVE \E x : buffer \subseteq {x}
      BY <3>2 DEF IInv, LinesOK, Outcome
    <3>3. ASSUME NEW o \in Op, Talks(o), op[o].pc = "sent" PROVE \E x : buffer \subseteq {x}
      <4>1. CASE Waiting(o)
        BY <3>3, <4>1 DEF IInv, LinesOK
      <4>2. CASE Answered(o)
        <5>1. \E a : Outcome(o, a)
          BY <3>3, <4>2 DEF IInv, LinesOK, Answered
        <5> QED BY <5>1 DEF Outcome
      <4>3. CASE ~Waiting(o) /\ ~Answered(o)
        BY <3>3, <4>3 DEF IInv, LinesOK
      <4> QED BY <4>1, <4>2, <4>3
    <3> QED BY <3>1, <3>2, <3>3
  <2>2. PICK x : buffer \subseteq {x}
    BY <2>1
  <2>3. IsFiniteSet({x}) /\ Cardinality({x}) = 1
    BY FS_Singleton
  <2>4. Cardinality(buffer) <= 1
    BY <2>2, <2>3, FS_Subset
  <2> QED BY <2>4 DEF OneStatement
<1> QED BY EngineInvariant, <1>1, PTL

(* Python runs the page's commands in the order they were submitted, and     *)
(* none twice, whatever is restarted in between (browser-python.ts #submit). *)
THEOREM ProgramOrderKept == Spec => InProgramOrder
<1>1. IInv /\ [Next]_engineVars => [ran' # ran => ran'.op > ran.op]_engineVars
  <2> SUFFICES ASSUME IInv, [Next]_engineVars, ran' # ran PROVE ran'.op > ran.op
    OBVIOUS
  <2>1. WorkerRuns
    BY DEF Next, engineVars, PageCall, Continuation, WorkerMessage, Failure, Start, Restart,
       Dispose, Unquiesce, CancelQueuedCells, Submit, BootRejected, BootSuperseded, BootSettles,
       Turn, Refused, Handed, Abandoned, Posted, Orphaned, RejectionRead, Settle, InterpreterReady, StartupRan, StartupFailed,
       StartFailed, ReplyRead, WorkerDies, StartTimesOut, Fatal, WorkerGone
  <2>2. wire.todo \in Seq(Op) /\ wire.todo # <<>>
    BY <2>1 DEF IInv, Types, WorkerRuns
  <2>3. Len(wire.todo) \in Nat \ {0} /\ wire.todo[1] \in Op /\ Head(wire.todo) = wire.todo[1]
    BY <2>2, HeadAndTail
  <2>4. ran'.op = wire.todo[1]
    BY <2>1, <2>3 DEF WorkerRuns
  <2>5. ran.op < wire.todo[1] /\ ran.op \in Nat
    BY <2>3, EngineAssumption DEF IInv, Types, RanRec, WireOK
  <2> QED BY <2>3, <2>4, <2>5, EngineAssumption
<1> QED BY EngineInvariant, <1>1, PTL DEF Spec, InProgramOrder
=============================================================================
