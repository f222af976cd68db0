--------------------------- MODULE SessionsProofs ---------------------------
(***************************************************************************)
(* Proofs about the sessions of a page, for any number of sessions, slots  *)
(* and workspace files, with and without a shared scope.                   *)
(*                                                                         *)
(* The inductive invariant says for each session which states and which    *)
(* engine go with the await its operation is suspended at (Row), that a    *)
(* slot is held exactly while something will give it back (SlotsOK), and   *)
(* where the files of a session are while its interpreter does not have    *)
(* them (FilesOK).                                                         *)
(***************************************************************************)
EXTENDS MCSessions, FiniteSetTheorems, TLAPS

CtlRec == [state : SessionState, pc : PendingAt, waking : BOOLEAN,
           corrupt : BOOLEAN, closing : ClosingAt, slot : Nat,
           reserved : BOOLEAN, gone : BOOLEAN, list : SUBSET File]
ItpRec == [eng : EngineState, dying : BOOLEAN, attached : BOOLEAN,
           quiesced : BOOLEAN, typed : BOOLEAN, behind : BOOLEAN,
           pyopen : BOOLEAN, ws : SUBSET File]
CallRec == [at : CallPhase, cands : SUBSET Ticket, cur : Ticket \cup {NoReservation}]
HeldRec == [by : Session, n : Nat, claimed : BOOLEAN]
DirRec == [exists : BOOLEAN, plan : SUBSET File, data : SUBSET File,
           manifest : BOOLEAN, writing : BOOLEAN, marked : BOOLEAN,
           damaged : {"nothing", "manifest", "file"}]

Types ==
    /\ scoped \in BOOLEAN
    /\ held \subseteq HeldRec
    /\ issued \in [Session -> Nat]
    /\ resv \in [Session -> CallRec]
    /\ disk \in [Session -> DirRec]
    /\ owner \in [Session -> Page \cup {Nobody}]
    /\ ctl \in [Session -> CtlRec]
    /\ itp \in [Session -> ItpRec]

\* A slot is held, and by whom it will be given back.
HasSlot(s) == ctl[s].reserved \/ ctl[s].slot # 0 \/ resv[s].at = "granted"

SlotsOK ==
    /\ IsFiniteSet(held) /\ Cardinality(held) <= Capacity
    /\ \A q, r \in held : q.by = r.by => q = r
    /\ \A s \in Session : HasSlot(s) <=> HeldBy(s) # {}
    /\ \A s \in Session : ctl[s].reserved \/ resv[s].at = "granted" => issued[s] # 0

\* The awaits at which an operation has a slot, and those before it has one.
Holding == {"read", "boot", "restore", "starter", "discard", "restartBoot", "restartStarter",
            "list", "begin", "save", "manifest", "abort"}
Saving == {"list", "begin", "save", "manifest", "abort"}

\* What the controller's record says of itself: c is open.
OpenRow(c) ==
    /\ c.closing = "no" /\ ~c.gone
    /\ c.pc = "idle" => c.state \in {"configured", "ready", "busy", "asleep", "wake-error", "crashed"}
    /\ c.pc \in {"predispose", "reserve"} =>
          c.state \in (IF c.waking THEN {"asleep", "wake-error"} ELSE {"configured", "crashed"})
    /\ c.pc = "restartReserve" => c.state = "crashed"
    /\ c.pc = "read" => c.waking /\ c.state = "waking"
    /\ c.pc = "boot" => c.state = IF c.waking THEN "waking" ELSE "starting"
    /\ c.pc \in {"restore", "discard"} => c.waking /\ c.state = "restoring"
    /\ c.pc = "starter" => c.state = IF c.waking THEN "restoring" ELSE "starting"
    /\ c.pc = "unwind" => c.state \in (IF c.waking THEN {"waking", "restoring"} ELSE {"starting"})
    /\ c.pc \in {"restartBoot", "restartStarter"} => c.state = "starting"
    /\ c.pc \in {"quiesce", "quiesced"} => c.state \in {"ready", "busy", "crashed"}
    /\ c.pc \in Saving \cup {"sleepDispose"} <=> c.state = "sleeping"
    /\ c.slot # 0 <=> c.state \in {"ready", "busy"} \/ c.pc \in Holding

\* Which interpreter goes with it.
EngineRow(c, i) ==
    /\ c.pc \in {"predispose", "reserve", "read", "unwind", "sleepDispose"} => i.eng = "none"
    /\ c.state \in {"configured", "asleep", "wake-error"} => i.eng = "none"
    /\ c.pc \in {"quiesce", "quiesced"} /\ c.state = "crashed" => i.eng = "error"
    /\ c.state = "sleeping" => i.eng # "starting" /\ (WorkerAlive(i.eng) => i.quiesced)
    /\ c.pc = "list" =>
          ~(i.typed /\ i.eng = "busy") /\ (i.typed \/ i.eng = "busy" => i.behind)
    /\ c.pc \in {"begin", "save", "manifest"} => ~i.typed /\ i.eng # "busy"
    /\ i.typed => i.attached
    /\ WorkerAlive(i.eng) => c.slot # 0 \/ c.state = "crashed"
    /\ i.eng = "busy" => i.attached
    /\ i.eng = "none" => ~i.attached
    /\ c.pc \in {"boot", "restore"} => i.eng # "none"
    /\ c.waking /\ c.pc \in {"boot", "restore"} => ~i.attached
    /\ c.waking /\ c.pc \in {"starter", "discard"} => i.attached

Row(c, i, call) ==
    /\ call # "none" => c.pc \in {"reserve", "restartReserve"}
    /\ c.reserved => c.state = "configured" /\ c.pc = "idle" /\ c.slot = 0
    /\ c.state = "closed" => i.eng = "none" /\ ~i.typed /\ c.slot = 0 /\ ~c.reserved
    /\ c.gone => c.state = "closed" /\ c.pc = "idle"
    /\ c.state # "closed" => OpenRow(c) /\ EngineRow(c, i)

\* A checkpoint with a manifest, or with one being written, is complete.
DirOK(d) ==
    /\ d.manifest \/ d.writing => d.data = d.plan
    /\ d.damaged = "file" => d.data # {}

\* Files that are kept: in the checkpoint, which its session still owns.
KeptStates == {"asleep", "wake-error", "waking", "restoring"}

FilesOK(c, i, d, owned) ==
    c.state # "closed" =>
        /\ c.pc = "begin" /\ WorkerAlive(i.eng) => c.list = i.ws
        /\ c.pc \in {"save", "manifest"} =>
              /\ owned /\ d.exists /\ ~d.manifest /\ d.damaged = "nothing"
              /\ WorkerAlive(i.eng) => i.ws = d.plan
        /\ c.pc = "sleepDispose" \/ c.state \in KeptStates =>
              owned /\ d.exists /\ d.manifest
        /\ c.waking /\ c.pc \in {"boot", "restore"} => i.ws \subseteq d.data

SessionOK(s) ==
    /\ Row(ctl[s], itp[s], resv[s].at)
    /\ DirOK(disk[s])
    /\ FilesOK(ctl[s], itp[s], disk[s], owner[s] = PageOf(s))

IInv == Types /\ SlotsOK /\ \A s \in Session : SessionOK(s)
USE DEF Holding, Saving, KeptStates, WorkerAlive, At, Closed

-----------------------------------------------------------------------------
(* The refinement mapping of MCSessions, of a session whose records are c,  *)
(* i and d.                                                                 *)

PlaceIn(c, i) ==
    IF c.state = "closed" THEN "closed"
    ELSE IF c.pc = "sleepDispose" \/ c.state \in KeptStates
      THEN IF i.attached THEN "handed" ELSE "kept"
    ELSE IF WorkerAlive(i.eng) \/ c.pc \in {"begin", "save", "manifest"} THEN "live"
    ELSE "none"

FilesIn(c, i, d) ==
    IF PlaceIn(c, i) \notin {"live", "handed"} THEN {}
    ELSE IF WorkerAlive(i.eng) \/ c.pc \notin {"begin", "save", "manifest"} THEN i.ws
    ELSE IF c.pc = "begin" THEN c.list ELSE d.plan

SavedIn(c, i, d) ==
    IF PlaceIn(c, i) \in {"kept", "handed"} /\ d.exists /\ d.manifest THEN d.data ELSE {}

IntactIn(c, i, d) ==
    \/ PlaceIn(c, i) # "kept"
    \/ d.damaged = "nothing"
    \/ /\ c.pc \in {"boot", "restore"}
       /\ d.damaged = "manifest" \/ d.plan \subseteq i.ws

USE DEF PlaceIn, FilesIn, SavedIn, IntactIn

\* From one state of the promise to the next: the steps of SessionPromise.
PromiseStep(from, f, v, b, to, f2, v2, b2) ==
    \/ from = to /\ f2 = f /\ v2 = v /\ (b2 <=> b)
    \/ from = "none" /\ to = "live" /\ f2 = {} /\ v2 = v /\ (b2 <=> b)
    \/ from \in {"live", "handed"} /\ to = from /\ f2 \in SUBSET File /\ v2 = v /\ (b2 <=> b)
    \/ from = "live" /\ to = "none" /\ f2 = {} /\ v2 = v /\ (b2 <=> b)
    \/ from = "live" /\ to = "kept" /\ v2 = f /\ f2 = {} /\ b2
    \/ from = "kept" /\ to = "handed" /\ b /\ b2 /\ f2 = v /\ v2 = v
    \/ from = "handed" /\ to = "kept" /\ f2 = {} /\ v2 = v
    \/ from = "handed" /\ ((to = "live" /\ f2 = f) \/ (to = "none" /\ f2 = {})) /\ v2 = {} /\ b2
    \/ from = "kept" /\ to = "kept" /\ ~b2 /\ f2 = f /\ v2 = v
    \/ from # "closed" /\ to = "closed" /\ f2 = {} /\ v2 = {} /\ b2

Honours(c0, i0, d0, c, i, d) ==
    PromiseStep(PlaceIn(c0, i0), FilesIn(c0, i0, d0), SavedIn(c0, i0, d0), IntactIn(c0, i0, d0),
                PlaceIn(c, i), FilesIn(c, i, d), SavedIn(c, i, d), IntactIn(c, i, d))

Promised(s) == Honours(ctl[s], itp[s], disk[s], ctl'[s], itp'[s], disk'[s])

\* What every step is proved to be.
Sound == IInv' /\ \A s \in Session : Promised(s)

LEMMA HonoursSame == ASSUME NEW c, NEW i, NEW d PROVE Honours(c, i, d, c, i, d)
BY DEF Honours, PromiseStep

LEMMA HonoursClosed ==
  ASSUME NEW c0, NEW i0, NEW d0, NEW c, NEW i, NEW d, c0.state = "closed", c.state = "closed"
  PROVE  Honours(c0, i0, d0, c, i, d)
BY DEF Honours, PromiseStep

\* Files that stay kept do not become intact again.
LEMMA HonoursKept ==
  ASSUME NEW c0, NEW i0, NEW d0, NEW c, NEW i, NEW d,
         PlaceIn(c0, i0) = "kept", PlaceIn(c, i) = "kept", SavedIn(c, i, d) = SavedIn(c0, i0, d0),
         IntactIn(c, i, d) => IntactIn(c0, i0, d0)
  PROVE  Honours(c0, i0, d0, c, i, d)
<1>1. FilesIn(c0, i0, d0) = {} /\ FilesIn(c, i, d) = {} OBVIOUS
<1> HIDE DEF PlaceIn, FilesIn, SavedIn, IntactIn
<1> QED BY <1>1 DEF Honours, PromiseStep

LEMMA FilesHanded ==
  ASSUME NEW c, NEW i, NEW d, PlaceIn(c, i) = "handed", c.pc \notin {"begin", "save", "manifest"}
  PROVE  FilesIn(c, i, d) = i.ws
OBVIOUS

-----------------------------------------------------------------------------
(* A step of one session: what it may do to the broker ...                  *)

BrokerOK ==
    /\ held \subseteq HeldRec
    /\ issued \in [Session -> Nat]
    /\ resv \in [Session -> CallRec]
    /\ IsFiniteSet(held) /\ Cardinality(held) <= Capacity
    /\ \A q, r \in held : q.by = r.by => q = r

SameCall(t) ==
    /\ resv'[t].at = "granted" <=> resv[t].at = "granted"
    /\ resv'[t].at # "none" => resv[t].at # "none"
    /\ issued'[t] = issued[t]

BrokerFrame(s) ==
    /\ scoped' = scoped
    /\ \A t \in Session \ {s} : SameCall(t) /\ (HeldBy(t)' # {} <=> HeldBy(t) # {})

LEMMA BrokerIsOK == ASSUME IInv PROVE BrokerOK
BY DEF IInv, Types, SlotsOK, BrokerOK

\* Nothing, or only the call of the session itself.
LEMMA BrokerKept ==
  ASSUME IInv, NEW s \in Session, NEW call \in CallRec, scoped' = scoped,
         held' = held, issued' = issued, resv' = [resv EXCEPT ![s] = call]
  PROVE  /\ BrokerOK' /\ BrokerFrame(s)
         /\ resv'[s] = call /\ HeldBy(s)' = HeldBy(s) /\ issued'[s] = issued[s]
BY DEF IInv, Types, SlotsOK, BrokerOK, BrokerFrame, SameCall, HeldBy

\* A slot given back.
LEMMA BrokerReleased ==
  ASSUME IInv, NEW s \in Session, NEW call \in CallRec, scoped' = scoped,
         held' = Without(s), issued' = issued, resv' = [resv EXCEPT ![s] = call]
  PROVE  /\ BrokerOK' /\ BrokerFrame(s)
         /\ resv'[s] = call /\ HeldBy(s)' = {} /\ issued'[s] = issued[s]
<1>1. IsFiniteSet(held') /\ Cardinality(held') \in Nat /\ Cardinality(held') <= Cardinality(held)
  <2>1. Without(s) \in SUBSET held BY DEF Without
  <2>2. IsFiniteSet(held) BY DEF IInv, SlotsOK
  <2> QED BY <2>1, <2>2, FS_Subset, FS_CardinalityType
<1>2. Cardinality(held) <= Capacity /\ Cardinality(held) \in Nat /\ Capacity \in Nat
  BY FS_CardinalityType, CapacityAssumption DEF IInv, SlotsOK
<1>3. Cardinality(held') <= Capacity BY <1>1, <1>2
<1>4. held' \subseteq held BY DEF Without
<1>5. BrokerOK' BY <1>1, <1>3, <1>4 DEF IInv, Types, SlotsOK, BrokerOK
<1>6. ASSUME NEW t \in Session, t # s PROVE HeldBy(t)' = HeldBy(t)
  BY <1>6 DEF HeldBy, Without
<1> QED BY <1>5, <1>6 DEF BrokerFrame, SameCall, HeldBy, Without, IInv, Types

\* A slot taken.
LEMMA BrokerGranted ==
  ASSUME IInv, NEW s \in Session, HeldBy(s) = {}, scoped' = scoped, GrantTo(s, resv)
  PROVE  /\ BrokerOK' /\ BrokerFrame(s)
         /\ resv'[s].at = "granted" /\ HeldBy(s)' # {} /\ issued'[s] \in Nat \ {0}
<1> DEFINE r == [by |-> s, n |-> issued[s] + 1, claimed |-> TRUE]
<1>1. held' = held \cup {r} /\ FreeSlot BY DEF GrantTo
<1>2. r \in HeldRec /\ r.by = s BY DEF HeldRec, IInv, Types
<1> HIDE DEF r
<1>3. IsFiniteSet(held') /\ Cardinality(held') <= Capacity
  <2>1. IsFiniteSet(held) /\ Cardinality(held) \in Nat /\ Capacity \in Nat
    BY FS_CardinalityType, CapacityAssumption DEF IInv, SlotsOK
  <2>2. r \notin held BY <1>2 DEF HeldBy
  <2>3. IsFiniteSet(held \cup {r}) /\ Cardinality(held \cup {r}) = Cardinality(held) + 1
    BY <2>1, <2>2, FS_AddElement
  <2>4. Cardinality(held) < Capacity BY <1>1 DEF FreeSlot
  <2>5. Cardinality(held) + 1 <= Capacity BY <2>1, <2>4
  <2> QED BY <1>1, <2>3, <2>5
<1>4. \A x \in held : x.by # s BY DEF HeldBy
<1>5. /\ issued' = [issued EXCEPT ![s] = @ + 1]
      /\ resv' = [resv EXCEPT ![s] = [NoCall EXCEPT !.at = "granted"]]
  BY DEF GrantTo
<1>6. [NoCall EXCEPT !.at = "granted"] \in CallRec /\ [NoCall EXCEPT !.at = "granted"].at = "granted"
  BY DEF NoCall, CallRec, CallPhase
<1>7. BrokerOK'
  BY <1>1, <1>2, <1>3, <1>4, <1>5, <1>6 DEF IInv, Types, SlotsOK, BrokerOK
<1>8. ASSUME NEW t \in Session, t # s PROVE HeldBy(t)' = HeldBy(t)
  BY <1>1, <1>2, <1>8 DEF HeldBy
<1>9. r \in HeldBy(s)' BY <1>1, <1>2 DEF HeldBy
<1> QED BY <1>5, <1>6, <1>7, <1>8, <1>9 DEF BrokerFrame, SameCall, IInv, Types

\* A slot that was reserved ahead claimed: each reservation stays who it is.
LEMMA BrokerClaimed ==
  ASSUME IInv, NEW s \in Session, scoped' = scoped, issued' = issued,
         held' = {[r EXCEPT !.claimed = @ \/ r.by = s] : r \in held},
         resv' = [resv EXCEPT ![s] = [NoCall EXCEPT !.at = "granted"]]
  PROVE  /\ BrokerOK' /\ BrokerFrame(s)
         /\ resv'[s].at = "granted" /\ issued'[s] = issued[s]
         /\ HeldBy(s)' # {} <=> HeldBy(s) # {}
<1> DEFINE f == [r \in held |-> [r EXCEPT !.claimed = @ \/ r.by = s]]
<1>1. \A r \in held : f[r] \in HeldRec /\ f[r].by = r.by
  BY DEF IInv, Types, HeldRec
<1>2. held' = {f[r] : r \in held} BY DEF f
<1>3. f \in [held -> held'] BY <1>2 DEF f
<1> HIDE DEF f
<1>4. f \in Surjection(held, held')
  <2>1. \A y \in held' : \E x \in held : f[x] = y BY <1>2
  <2> QED BY <1>3, <2>1 DEF Surjection
<1>6. IsFiniteSet(held') /\ Cardinality(held') <= Capacity
  <2>1. IsFiniteSet(held) /\ Cardinality(held) \in Nat /\ Capacity \in Nat
        /\ Cardinality(held) <= Capacity
    BY FS_CardinalityType, CapacityAssumption DEF IInv, SlotsOK
  <2>2. IsFiniteSet(held') /\ Cardinality(held') <= Cardinality(held)
    BY <1>4, <2>1, FS_Surjection
  <2> QED BY <2>1, <2>2, FS_CardinalityType
<1>7. [NoCall EXCEPT !.at = "granted"] \in CallRec /\ [NoCall EXCEPT !.at = "granted"].at = "granted"
  BY DEF NoCall, CallRec, CallPhase
<1>8. \A q, r \in held : q.by = r.by => q = r  BY DEF IInv, SlotsOK
<1>9. \A q, r \in held' : q.by = r.by => q = r  BY <1>1, <1>2, <1>8
<1>10. BrokerOK'
  <2>1. held' \subseteq HeldRec BY <1>1, <1>2
  <2> QED BY <2>1, <1>6, <1>7, <1>9 DEF BrokerOK, IInv, Types
<1>11. ASSUME NEW t \in Session PROVE HeldBy(t)' # {} <=> HeldBy(t) # {}
  <2>1. \A r \in held : r.by = t => f[r] \in HeldBy(t)'  BY <1>1, <1>2 DEF HeldBy
  <2>2. \A q \in HeldBy(t)' : \E r \in held : q = f[r] /\ r.by = t  BY <1>1, <1>2 DEF HeldBy
  <2> QED BY <2>1, <2>2 DEF HeldBy
<1> QED BY <1>7, <1>10, <1>11 DEF BrokerFrame, SameCall, IInv, Types

\* The end of a sleep tells whoever asked for it.
LEMMA BrokerAnswered ==
  ASSUME IInv, NEW s \in Session, NEW slept \in BOOLEAN, scoped' = scoped,
         held' = held, issued' = issued, resv' = Answered(s, slept)
  PROVE  /\ BrokerOK' /\ \A t \in Session : SameCall(t)
         /\ HeldBy(s)' = HeldBy(s) /\ BrokerFrame(s)
<1>1. ASSUME NEW t \in Session
      PROVE  /\ resv'[t] \in CallRec
             /\ resv'[t].at = "granted" <=> resv[t].at = "granted"
             /\ resv'[t].at # "none" <=> resv[t].at # "none"
  <2>1. resv[t] \in CallRec BY DEF IInv, Types
  <2>2. CASE resv[t].at = "waiting" /\ resv[t].cur.by = s
    <3> DEFINE c1 == [resv[t] EXCEPT !.at = "retry"]
               c2 == [resv[t] EXCEPT !.at = "asking", !.cands = resv[t].cands \ {resv[t].cur},
                                     !.cur = NoReservation]
    <3>1. c1 \in CallRec /\ c1.at = "retry" BY <2>1 DEF CallRec, CallPhase
    <3>2. c2 \in CallRec /\ c2.at = "asking" BY <2>1 DEF CallRec, CallPhase
    <3>3. NextCandidate(resv, t)[t] = c2 BY DEF NextCandidate, IInv, Types
    <3>4. resv'[t] = IF slept THEN c1 ELSE c2 BY <2>2, <3>3 DEF Answered
    <3> QED BY <2>2, <3>1, <3>2, <3>4
  <2>3. CASE ~(resv[t].at = "waiting" /\ resv[t].cur.by = s)
    BY <2>1, <2>3 DEF Answered
  <2> QED BY <2>2, <2>3
<1>2. resv' \in [Session -> CallRec]
  <2>1. DOMAIN resv' = Session BY DEF Answered
  <2>2. resv' = [t \in Session |-> resv'[t]] BY DEF Answered
  <2> QED BY <1>1, <2>2
<1> QED BY <1>1, <1>2 DEF BrokerOK, BrokerFrame, SameCall, HeldBy, IInv, Types, SlotsOK
\* reserve() called by a session that holds no slot.
LEMMA BrokerReserved ==
  ASSUME IInv, NEW s \in Session, HeldBy(s) = {}, scoped' = scoped, ReserveCall(s)
  PROVE  /\ BrokerOK' /\ BrokerFrame(s)
         /\ resv'[s].at = "granted" <=> HeldBy(s)' # {}
         /\ resv'[s].at = "granted" => issued'[s] # 0
<1>1. CASE GrantTo(s, resv) BY <1>1, BrokerGranted
<1>2. CASE /\ resv' = [resv EXCEPT ![s] = [NoCall EXCEPT !.at = "queued"]]
           /\ UNCHANGED <<held, issued>>
  <2>1. [NoCall EXCEPT !.at = "queued"] \in CallRec /\ [NoCall EXCEPT !.at = "queued"].at = "queued"
    BY DEF NoCall, CallRec, CallPhase
  <2> QED BY <1>2, <2>1, BrokerKept
<1> QED BY <1>1, <1>2 DEF ReserveCall

(* ... to the session itself, whose records become c, i and d ...           *)
Becomes(s, c, i) ==
    /\ c \in CtlRec /\ i \in ItpRec
    /\ ctl' = [ctl EXCEPT ![s] = c]
    /\ itp' = [itp EXCEPT ![s] = i]

Stores(s, d, o) ==
    /\ d \in DirRec /\ o \in Page \cup {Nobody}
    /\ disk' = [disk EXCEPT ![s] = d]
    /\ owner' = [owner EXCEPT ![s] = o]

(* ... and so to the page.                                                  *)
LEMMA SessionMove ==
  ASSUME IInv, NEW s \in Session, NEW c, NEW i, NEW d, NEW o,
         Becomes(s, c, i), Stores(s, d, o),
         BrokerOK', BrokerFrame(s),
         HeldBy(s)' # {} <=> c.reserved \/ c.slot # 0 \/ resv'[s].at = "granted",
         c.reserved \/ resv'[s].at = "granted" => issued'[s] # 0,
         Row(c, i, resv'[s].at), DirOK(d), FilesOK(c, i, d, o = PageOf(s)),
         Honours(ctl[s], itp[s], disk[s], c, i, d)
  PROVE  Sound
<1>1. /\ ctl' \in [Session -> CtlRec] /\ itp' \in [Session -> ItpRec]
      /\ disk' \in [Session -> DirRec] /\ owner' \in [Session -> Page \cup {Nobody}]
      /\ ctl'[s] = c /\ itp'[s] = i /\ disk'[s] = d /\ owner'[s] = o
      /\ \A t \in Session \ {s} :
            ctl'[t] = ctl[t] /\ itp'[t] = itp[t] /\ disk'[t] = disk[t] /\ owner'[t] = owner[t]
  BY DEF Becomes, Stores, IInv, Types
<1>2. scoped' = scoped /\ scoped' \in BOOLEAN BY DEF BrokerFrame, IInv, Types
<1>3. Types' BY <1>1, <1>2 DEF Types, BrokerOK
<1>4. \A t \in Session : PageOf(t)' = PageOf(t) BY <1>2 DEF PageOf
<1>5. SessionOK(s)' BY <1>1, <1>4 DEF SessionOK
<1>6. ASSUME NEW t \in Session, t # s PROVE SessionOK(t)'
  <2>1. SessionOK(t) BY DEF IInv
  <2>2. resv'[t].at # "none" => resv[t].at # "none" BY <1>6 DEF BrokerFrame, SameCall
  <2>3. Row(ctl[t], itp[t], resv[t].at)' BY <1>1, <1>6, <2>1, <2>2 DEF SessionOK, Row
  <2> QED BY <1>1, <1>4, <1>6, <2>1, <2>3 DEF SessionOK
<1>7. SlotsOK'
  <2>1. ASSUME NEW t \in Session
        PROVE  /\ (HasSlot(t) <=> HeldBy(t) # {})'
               /\ (ctl[t].reserved \/ resv[t].at = "granted" => issued[t] # 0)'
    <3>1. CASE t = s BY <1>1, <3>1 DEF HasSlot
    <3>2. CASE t # s
      <4>1. /\ resv'[t].at = "granted" <=> resv[t].at = "granted"
            /\ issued'[t] = issued[t]
            /\ HeldBy(t)' # {} <=> HeldBy(t) # {}
        BY <3>2 DEF BrokerFrame, SameCall
      <4>2. HasSlot(t) <=> HeldBy(t) # {} BY DEF IInv, SlotsOK
      <4>3. ctl[t].reserved \/ resv[t].at = "granted" => issued[t] # 0 BY DEF IInv, SlotsOK
      <4> QED BY <1>1, <3>2, <4>1, <4>2, <4>3 DEF HasSlot
    <3> QED BY <3>1, <3>2
  <2> QED BY <2>1 DEF SlotsOK, BrokerOK
<1>8. ASSUME NEW t \in Session PROVE Promised(t)
  <2>1. CASE t = s BY <1>1, <2>1 DEF Promised
  <2>2. CASE t # s BY <1>1, <2>2, HonoursSame DEF Promised
  <2> QED BY <2>1, <2>2
<1> QED BY <1>3, <1>5, <1>6, <1>7, <1>8 DEF IInv, Sound

\* Neither the broker nor the store.
LEMMA QuietMove ==
  ASSUME IInv, NEW s \in Session, NEW c, NEW i, Becomes(s, c, i),
         UNCHANGED <<brokerVars, disk, owner>>,
         c.reserved = ctl[s].reserved, c.slot # 0 <=> ctl[s].slot # 0,
         Row(c, i, resv[s].at), FilesOK(c, i, disk[s], owner[s] = PageOf(s)),
         Honours(ctl[s], itp[s], disk[s], c, i, disk[s])
  PROVE  Sound
<1>1. resv[s] \in CallRec /\ resv' = [resv EXCEPT ![s] = resv[s]]
  BY DEF brokerVars, IInv, Types
<1>2. BrokerOK' /\ BrokerFrame(s) /\ HeldBy(s)' = HeldBy(s) /\ resv'[s] = resv[s]
      /\ issued'[s] = issued[s]
  BY <1>1, BrokerKept DEF brokerVars
<1>3. Stores(s, disk[s], owner[s]) BY DEF Stores, IInv, Types
<1>4. DirOK(disk[s]) BY DEF IInv, SessionOK
<1>5. /\ HasSlot(s) <=> HeldBy(s) # {}
      /\ ctl[s].reserved \/ resv[s].at = "granted" => issued[s] # 0
  BY DEF IInv, SlotsOK
<1> QED BY <1>2, <1>3, <1>4, <1>5, SessionMove DEF HasSlot

\* What the invariant says of one session.
LEMMA Known ==
  ASSUME IInv, NEW s \in Session
  PROVE  /\ ctl[s] \in CtlRec /\ itp[s] \in ItpRec /\ disk[s] \in DirRec /\ resv[s] \in CallRec
         /\ owner[s] \in Page \cup {Nobody} /\ issued[s] \in Nat
         /\ Row(ctl[s], itp[s], resv[s].at) /\ DirOK(disk[s])
         /\ FilesOK(ctl[s], itp[s], disk[s], owner[s] = PageOf(s))
         /\ HasSlot(s) <=> HeldBy(s) # {}
         /\ ctl[s].reserved \/ resv[s].at = "granted" => issued[s] # 0
BY DEF IInv, Types, SessionOK, SlotsOK

LEMMA SameItp == ASSUME IInv, NEW s \in Session, NEW c, c \in CtlRec,
                        ctl' = [ctl EXCEPT ![s] = c], UNCHANGED itp
                 PROVE  Becomes(s, c, itp[s])
BY DEF Becomes, IInv, Types

-----------------------------------------------------------------------------
(* The broker.                                                              *)

LEMMA NoSlotWhileReserving ==
  ASSUME IInv, NEW s \in Session, ctl[s].pc \in {"reserve", "restartReserve"}
  PROVE  ctl[s].slot = 0 /\ ~ctl[s].reserved /\ (HeldBy(s) # {} <=> resv[s].at = "granted")
<1>1. Row(ctl[s], itp[s], resv[s].at) /\ (HasSlot(s) <=> HeldBy(s) # {}) /\ ctl[s] \in CtlRec
  BY Known
<1>2. ctl[s].slot = 0 /\ ~ctl[s].reserved BY <1>1 DEF Row, OpenRow, CtlRec
<1> QED BY <1>1, <1>2 DEF HasSlot

LEMMA BrokerMove ==
  ASSUME IInv, NEW s \in Session, resv[s].at # "none",
         UNCHANGED <<disk, owner, ctl, itp>>, BrokerOK', BrokerFrame(s),
         HeldBy(s)' # {} <=> resv'[s].at = "granted",
         resv'[s].at = "granted" => issued'[s] # 0
  PROVE  Sound
<1>1. Row(ctl[s], itp[s], resv[s].at) BY Known
<1>2. ctl[s].pc \in {"reserve", "restartReserve"} BY <1>1 DEF Row
<1>3. Row(ctl[s], itp[s], resv'[s].at) BY <1>1, <1>2 DEF Row
<1>4. Becomes(s, ctl[s], itp[s]) /\ Stores(s, disk[s], owner[s])
  BY DEF Becomes, Stores, IInv, Types
<1> QED BY <1>2, <1>3, <1>4, HonoursSame, Known, NoSlotWhileReserving, SessionMove

LEMMA CallMove ==
  ASSUME IInv, NEW s \in Session, resv[s].at \notin {"none", "granted"},
         NEW call \in CallRec, call.at # "granted",
         UNCHANGED <<scoped, held, issued, disk, owner, ctl, itp>>,
         resv' = [resv EXCEPT ![s] = call]
  PROVE  Sound
<1>1. ctl[s].pc \in {"reserve", "restartReserve"} BY Known DEF Row
<1>2. HeldBy(s) = {} BY <1>1, NoSlotWhileReserving
<1> QED BY <1>2, BrokerKept, BrokerMove

LEMMA KeepsBrokering == ASSUME IInv, NEW s \in Session, Brokering(s) PROVE Sound
<1>1. resv[s] \in CallRec BY Known
<1>2. UNCHANGED <<disk, owner, ctl, itp>> BY DEF Brokering
<1>3. ASSUME resv[s].at \notin {"none", "granted"}, UNCHANGED scoped, GrantTo(s, resv) PROVE Sound
  <2>1. HeldBy(s) = {} BY <1>3, Known, NoSlotWhileReserving DEF Row
  <2> QED BY <1>2, <1>3, <2>1, BrokerGranted, BrokerMove
<1>4. ASSUME resv[s].at \notin {"none", "granted"}, UNCHANGED <<scoped, held, issued>>,
             resv' = NextCandidate(resv, s)
      PROVE  Sound
  <2> DEFINE call == [resv[s] EXCEPT !.at = "asking", !.cands = resv[s].cands \ {resv[s].cur},
                                     !.cur = NoReservation]
  <2>1. call \in CallRec /\ call.at = "asking" BY <1>1 DEF CallRec, CallPhase
  <2>2. resv' = [resv EXCEPT ![s] = call] BY <1>4 DEF NextCandidate
  <2> HIDE DEF call
  <2> QED BY <1>2, <1>4, <2>1, <2>2, CallMove
<1>5. CASE TakeOrGather(s, Idle)
  <2>1. CASE GrantTo(s, resv) BY <1>3, <1>5, <2>1 DEF TakeOrGather
  <2>2. ASSUME UNCHANGED <<held, issued>>,
               NEW cands \in SUBSET Ticket,
               resv' = [resv EXCEPT ![s] = [at |-> "asking", cands |-> cands, cur |-> NoReservation]]
        PROVE  Sound
    <3> DEFINE call == [at |-> "asking", cands |-> cands, cur |-> NoReservation]
    <3>2. call \in CallRec /\ call.at = "asking" BY DEF CallRec, CallPhase
    <3> HIDE DEF call
    <3> QED BY <1>2, <1>5, <2>2, <3>2, CallMove DEF TakeOrGather, call
  <2>3. CASE ~GrantTo(s, resv)
    <3> DEFINE offers == {TicketOf(r) : r \in {x \in held : x.claimed /\ x.by \in Idle}}
               local == {t \in offers : PageOf(t.by) = PageOf(s)}
    <3>1. PICK remote \in SUBSET (offers \ local) :
             resv' = [resv EXCEPT ![s] = [at |-> "asking", cands |-> local \cup remote,
                                          cur |-> NoReservation]]
      BY <1>5, <2>3 DEF TakeOrGather
    <3>2. offers \subseteq Ticket BY DEF TicketOf, Ticket, IInv, Types, HeldRec
    <3>3. UNCHANGED <<held, issued>> BY <1>5, <2>3 DEF TakeOrGather
    <3> HIDE DEF offers
    <3>4. local \cup remote \in SUBSET Ticket BY <3>2
    <3> HIDE DEF local
    <3> QED BY <3>1, <3>3, <3>4, <2>2
  <2> QED BY <2>1, <2>3
<1>6. ASSUME NEW t \in resv[s].cands, Decline(s, t, Idle) PROVE Sound
  <2> DEFINE call == [resv[s] EXCEPT !.cands = resv[s].cands \ {t}]
  <2>1. call \in CallRec /\ call.at = "asking" BY <1>1, <1>6 DEF CallRec, CallPhase, Decline
  <2>2. resv' = [resv EXCEPT ![s] = call] BY <1>6 DEF Decline
  <2> HIDE DEF call
  <2> QED BY <1>2, <1>6, <2>1, <2>2, CallMove DEF Decline
<1>7. CASE GiveUpWaiting(s) BY <1>4, <1>7 DEF GiveUpWaiting
<1>8. CASE RetryTake(s) BY <1>3, <1>4, <1>8 DEF RetryTake
<1>9. CASE Exhausted(s)
  <2> DEFINE call == [NoCall EXCEPT !.at = "denied"]
  <2>1. call \in CallRec /\ call.at = "denied" BY DEF CallRec, CallPhase, NoCall
  <2> HIDE DEF call
  <2> QED BY <1>2, <1>9, <2>1, CallMove DEF Exhausted, call
<1> QED BY <1>5, <1>6, <1>7, <1>8, <1>9 DEF Brokering

-----------------------------------------------------------------------------
(* What the common updates make of a session's records.                     *)

SameBut(c, d) ==
    /\ c.corrupt = d.corrupt /\ c.closing = d.closing /\ c.slot = d.slot
    /\ c.reserved = d.reserved /\ c.gone = d.gone /\ c.list = d.list

SameInterpreter(i, j) ==
    /\ i.eng = j.eng /\ i.dying = j.dying /\ i.attached = j.attached
    /\ i.quiesced = j.quiesced /\ i.pyopen = j.pyopen /\ i.ws = j.ws

LEMMA Moved ==
  ASSUME IInv, NEW s \in Session, NEW pc \in PendingAt, Move(s, pc)
  PROVE  \E c \in CtlRec :
            /\ ctl' = [ctl EXCEPT ![s] = c]
            /\ c.pc = pc /\ c.state = ctl[s].state /\ c.waking = ctl[s].waking
            /\ SameBut(c, ctl[s])
<1> DEFINE c == [ctl[s] EXCEPT !.pc = pc]
<1>1. ctl[s] \in CtlRec BY Known
<1>2. c \in CtlRec /\ c.pc = pc /\ c.state = ctl[s].state /\ c.waking = ctl[s].waking
      /\ SameBut(c, ctl[s])
  BY <1>1 DEF CtlRec, SameBut
<1>3. ctl' = [ctl EXCEPT ![s] = c] BY DEF Move
<1> HIDE DEF c
<1> QED BY <1>2, <1>3

LEMMA Settled ==
  ASSUME IInv, NEW s \in Session, NEW state \in SessionState, Settle(s, state)
  PROVE  \E c \in CtlRec :
            /\ ctl' = [ctl EXCEPT ![s] = c]
            /\ c.pc = "idle" /\ c.state = SetTo(s, state) /\ ~c.waking
            /\ c.closing = ctl[s].closing /\ c.slot = ctl[s].slot
            /\ c.reserved = ctl[s].reserved /\ c.gone = ctl[s].gone
<1> DEFINE new == SetTo(s, state)
           c == [ctl[s] EXCEPT !.pc = "idle", !.waking = FALSE, !.corrupt = FALSE, !.state = new]
<1>1. ctl[s] \in CtlRec BY Known
<1>2. new \in SessionState BY DEF SetTo, SessionState
<1>3. ctl' = [ctl EXCEPT ![s] = c] BY DEF Settle
<1> HIDE DEF new
<1>4. c \in CtlRec /\ c.pc = "idle" /\ c.state = new /\ ~c.waking
      /\ c.closing = ctl[s].closing /\ c.slot = ctl[s].slot
      /\ c.reserved = ctl[s].reserved /\ c.gone = ctl[s].gone
  BY <1>1, <1>2 DEF CtlRec, PendingAt
<1> HIDE DEF c
<1> QED BY <1>3, <1>4 DEF new

LEMMA DroppedIs ==
  ASSUME IInv, NEW s \in Session
  PROVE  /\ Dropped(s) \in ItpRec /\ Dropped(s).eng = "none" /\ ~Dropped(s).attached
         /\ ~Dropped(s).quiesced /\ ~Dropped(s).typed /\ ~Dropped(s).pyopen
         /\ Dropped(s).ws = {}
<1> DEFINE dying == itp[s].dying \/ WorkerAlive(itp[s].eng)
<1>1. dying \in BOOLEAN BY Known DEF ItpRec
<1>2. Dropped(s) = [NoInterpreter EXCEPT !.dying = dying] BY DEF Dropped
<1> HIDE DEF dying
<1> QED BY <1>1, <1>2 DEF NoInterpreter, ItpRec, EngineState

\* An engine that starts, attached to the front end or not.
LEMMA NewEngineIs ==
  ASSUME NEW s, NEW attach \in BOOLEAN, NEW dying \in BOOLEAN
  PROVE  LET i == [NewEngine(s, attach) EXCEPT !.dying = dying]
         IN  /\ i \in ItpRec /\ i.eng = "starting" /\ i.attached = attach
             /\ ~i.quiesced /\ ~i.typed /\ ~i.pyopen /\ i.ws = {}
             /\ NewEngine(s, attach) \in ItpRec
             /\ NewEngine(s, attach).eng = "starting" /\ NewEngine(s, attach).attached = attach
             /\ ~NewEngine(s, attach).quiesced /\ ~NewEngine(s, attach).typed
             /\ ~NewEngine(s, attach).pyopen
             /\ NewEngine(s, attach).ws = {}
BY DEF NewEngine, NoInterpreter, ItpRec, EngineState

-----------------------------------------------------------------------------
(* sleep().                                                                 *)

LEMMA SleepCalled ==
  ASSUME IInv, NEW s \in Session, s \in Idle, itp[s].eng # "none", SleepCall(s)
  PROVE  \E c \in CtlRec :
            /\ ctl' = [ctl EXCEPT ![s] = c]
            /\ c.slot = ctl[s].slot /\ c.reserved = ctl[s].reserved
            /\ Row(c, itp[s], resv[s].at)
            /\ FilesOK(c, itp[s], disk[s], owner[s] = PageOf(s))
            /\ Honours(ctl[s], itp[s], disk[s], c, itp[s], disk[s])
<1>1. Move(s, "quiesce") BY DEF SleepCall, Move
<1>2. PICK c \in CtlRec :
            /\ ctl' = [ctl EXCEPT ![s] = c]
            /\ c.pc = "quiesce" /\ c.state = ctl[s].state /\ c.waking = ctl[s].waking
            /\ SameBut(c, ctl[s])
  BY <1>1, Moved DEF PendingAt, SleepAt
<1>3. ctl[s].state = "ready" /\ ctl[s].pc = "idle" /\ ~ctl[s].gone BY DEF Idle
<1>4. Row(c, itp[s], resv[s].at)
  BY <1>2, <1>3, Known DEF SameBut, Row, OpenRow, EngineRow
<1>5. FilesOK(c, itp[s], disk[s], owner[s] = PageOf(s))
  BY <1>2, <1>3, Known DEF SameBut, FilesOK
<1>6. Honours(ctl[s], itp[s], disk[s], c, itp[s], disk[s])
  BY <1>2, <1>3 DEF SameBut, Honours, PromiseStep
<1> QED BY <1>2, <1>4, <1>5, <1>6 DEF SameBut

LEMMA KeepsSleep == ASSUME IInv, NEW s \in Session, Sleep(s) PROVE Sound
<1>1. PICK c \in CtlRec :
            /\ ctl' = [ctl EXCEPT ![s] = c]
            /\ c.slot = ctl[s].slot /\ c.reserved = ctl[s].reserved
            /\ Row(c, itp[s], resv[s].at)
            /\ FilesOK(c, itp[s], disk[s], owner[s] = PageOf(s))
            /\ Honours(ctl[s], itp[s], disk[s], c, itp[s], disk[s])
  BY SleepCalled DEF Sleep
<1> QED BY <1>1, SameItp, QuietMove DEF Sleep

LEMMA KeepsAskToSleep ==
  ASSUME IInv, NEW s \in Session, NEW t \in resv[s].cands, AskToSleep(s, t)
  PROVE  Sound
<1> DEFINE h == t.by
<1>1. resv[s] \in CallRec /\ t \in Ticket BY Known DEF CallRec
<1>2. h \in Session /\ h \in Idle /\ itp[h].eng # "none" /\ SleepCall(h)
  BY <1>1 DEF AskToSleep, MaySleep, Ticket
<1> HIDE DEF h
<1>3. PICK c \in CtlRec :
            /\ ctl' = [ctl EXCEPT ![h] = c]
            /\ c.slot = ctl[h].slot /\ c.reserved = ctl[h].reserved
            /\ Row(c, itp[h], resv[h].at)
            /\ FilesOK(c, itp[h], disk[h], owner[h] = PageOf(h))
            /\ Honours(ctl[h], itp[h], disk[h], c, itp[h], disk[h])
  BY <1>2, SleepCalled
<1>4. h # s BY <1>2, Known DEF Idle, Row, AskToSleep
<1> DEFINE call == [resv[s] EXCEPT !.at = "waiting", !.cur = t]
<1>5. call \in CallRec /\ call.at = "waiting" BY <1>1 DEF CallRec, CallPhase
<1>6. resv' = [resv EXCEPT ![s] = call] BY DEF AskToSleep
<1> HIDE DEF call
<1>7. BrokerOK' /\ BrokerFrame(h) /\ resv'[h] = resv[h] /\ HeldBy(h)' = HeldBy(h)
      /\ issued'[h] = issued[h]
  BY <1>2, <1>4, <1>5, <1>6
     DEF AskToSleep, IInv, Types, SlotsOK, BrokerOK, BrokerFrame, SameCall, HeldBy
<1>8. Becomes(h, c, itp[h]) /\ Stores(h, disk[h], owner[h])
  BY <1>2, <1>3 DEF AskToSleep, Becomes, Stores, IInv, Types
<1> QED BY <1>2, <1>3, <1>7, <1>8, Known, SessionMove DEF HasSlot

LEMMA KeepsQuiesceAsked == ASSUME IInv, NEW s \in Session, QuiesceAsked(s) PROVE Sound
<1> DEFINE typed == itp[s].typed
           i == [itp[s] EXCEPT !.behind = typed]
<1>1. itp' = [itp EXCEPT ![s] = i] /\ UNCHANGED <<brokerVars, disk, owner>>
  BY DEF QuiesceAsked
<1>2. typed \in BOOLEAN BY Known DEF ItpRec
<1>3. i \in ItpRec /\ SameInterpreter(i, itp[s]) /\ i.typed = itp[s].typed
  BY <1>2, Known DEF ItpRec, SameInterpreter
<1> HIDE DEF typed, i
<1>4. PICK c \in CtlRec :
            /\ ctl' = [ctl EXCEPT ![s] = c]
            /\ c.pc = "quiesced" /\ c.state = ctl[s].state /\ c.waking = ctl[s].waking
            /\ SameBut(c, ctl[s])
  BY Moved DEF QuiesceAsked, PendingAt, SleepAt
<1>5. Row(c, i, resv[s].at)
  BY <1>3, <1>4, Known DEF QuiesceAsked, SameBut, SameInterpreter, Row, OpenRow, EngineRow
<1>6. FilesOK(c, i, disk[s], owner[s] = PageOf(s))
  BY <1>3, <1>4, Known DEF QuiesceAsked, SameBut, SameInterpreter, FilesOK, Row, OpenRow
<1>7. Honours(ctl[s], itp[s], disk[s], c, i, disk[s])
  BY <1>3, <1>4, Known
     DEF Honours, PromiseStep, QuiesceAsked, SameBut, SameInterpreter, Row, OpenRow
<1>8. Becomes(s, c, i) BY <1>1, <1>3, <1>4 DEF Becomes
<1> QED BY <1>1, <1>4, <1>5, <1>6, <1>7, <1>8, QuietMove DEF SameBut

\* A sleep refused, or over: its session answers those who asked it.
LEMMA AnsweringMove ==
  ASSUME IInv, NEW s \in Session, NEW slept \in BOOLEAN, NEW c, NEW i, Becomes(s, c, i),
         UNCHANGED <<scoped, held, issued, disk, owner>>, resv' = Answered(s, slept),
         c.reserved = ctl[s].reserved, c.slot = ctl[s].slot,
         ctl[s].pc \notin {"reserve", "restartReserve"},
         Row(c, i, "none"), FilesOK(c, i, disk[s], owner[s] = PageOf(s)),
         Honours(ctl[s], itp[s], disk[s], c, i, disk[s])
  PROVE  Sound
<1>1. resv[s].at = "none" BY Known DEF Row
<1>2. BrokerOK' /\ SameCall(s) /\ HeldBy(s)' = HeldBy(s) /\ BrokerFrame(s)
  BY BrokerAnswered
<1>3. Stores(s, disk[s], owner[s]) BY DEF Stores, IInv, Types
<1>4. resv'[s].at = "none" BY <1>1, <1>2 DEF SameCall
<1> QED BY <1>1, <1>2, <1>3, <1>4, Known, SessionMove DEF HasSlot, SameCall

LEMMA KeepsSleepRefused == ASSUME IInv, NEW s \in Session, SleepRefused(s) PROVE Sound
<1>1. PICK c \in CtlRec :
            /\ ctl' = [ctl EXCEPT ![s] = c]
            /\ c.pc = "idle" /\ c.state = ctl[s].state /\ ~c.waking
            /\ c.closing = ctl[s].closing /\ c.slot = ctl[s].slot
            /\ c.reserved = ctl[s].reserved /\ c.gone = ctl[s].gone
  BY Known, Settled DEF SleepRefused, CtlRec, SetTo
<1>2. Row(c, itp[s], "none")
  BY <1>1, Known DEF SleepRefused, Row, OpenRow, EngineRow
<1>3. FilesOK(c, itp[s], disk[s], owner[s] = PageOf(s))
  BY <1>1, Known DEF SleepRefused, FilesOK, Row, OpenRow
<1>4. Honours(ctl[s], itp[s], disk[s], c, itp[s], disk[s])
  BY <1>1, Known
     DEF Honours, PromiseStep, SleepRefused, Row, OpenRow
<1> QED BY <1>1, <1>2, <1>3, <1>4, SameItp, AnsweringMove DEF SleepRefused

LEMMA KeepsQuiesced == ASSUME IInv, NEW s \in Session, Quiesced(s) PROVE Sound
<1> DEFINE new == SetTo(s, "sleeping")
           c == [ctl[s] EXCEPT !.pc = "list", !.state = new]
           typed == itp[s].typed
           i == [itp[s] EXCEPT !.quiesced = TRUE, !.behind = typed]
<1>1. ctl' = [ctl EXCEPT ![s] = c] /\ itp' = [itp EXCEPT ![s] = i]
  BY DEF Quiesced
<1>2. new \in SessionState /\ new = IF ctl[s].state = "closed" THEN "closed" ELSE "sleeping"
  BY DEF SetTo, SessionState
<1> HIDE DEF new
<1>3. c \in CtlRec /\ c.pc = "list" /\ c.state = new /\ c.waking = ctl[s].waking
      /\ SameBut(c, ctl[s])
  BY <1>2, Known DEF CtlRec, PendingAt, SleepAt, SameBut
<1>4. i \in ItpRec /\ i.eng = itp[s].eng /\ i.quiesced /\ i.pyopen = itp[s].pyopen
      /\ i.attached = itp[s].attached /\ i.ws = itp[s].ws
      /\ i.typed = itp[s].typed /\ i.behind = itp[s].typed
  <2>1. typed \in BOOLEAN BY Known DEF ItpRec
  <2>2. i.behind = typed BY Known DEF ItpRec
  <2> HIDE DEF typed
  <2>3. i \in ItpRec /\ i.eng = itp[s].eng /\ i.quiesced /\ i.pyopen = itp[s].pyopen
        /\ i.attached = itp[s].attached /\ i.ws = itp[s].ws /\ i.typed = itp[s].typed
    BY <2>1, Known DEF ItpRec
  <2> QED BY <2>2, <2>3 DEF typed
<1> HIDE DEF c, i, typed
<1>5. Row(c, i, resv[s].at)
  <2>1. Row(ctl[s], itp[s], resv[s].at) /\ At(s, "quiesced") /\ itp[s].eng = "ready" /\ ~itp[s].pyopen
    BY Known DEF Quiesced
  <2>2. CASE Closed(s) BY <1>2, <1>3, <1>4, <2>1, <2>2 DEF SameBut, Row
  <2>3. CASE ~Closed(s)
    <3>1. OpenRow(c) BY <1>2, <1>3, <2>1, <2>3 DEF SameBut, Row, OpenRow, EngineRow
    <3>2. EngineRow(c, i) BY <1>2, <1>3, <1>4, <2>1, <2>3 DEF SameBut, Row, OpenRow, EngineRow
    <3> QED BY <1>2, <1>3, <1>4, <2>1, <2>3, <3>1, <3>2 DEF SameBut, Row
  <2> QED BY <2>2, <2>3
<1>6. FilesOK(c, i, disk[s], owner[s] = PageOf(s))
  BY <1>2, <1>3, <1>4, Known DEF Quiesced, SameBut, FilesOK
<1>7. Becomes(s, c, i) BY <1>1, <1>3, <1>4 DEF Becomes
<1>8. UNCHANGED <<brokerVars, disk, owner>> BY DEF Quiesced
<1>9. Honours(ctl[s], itp[s], disk[s], c, i, disk[s])
  BY <1>2, <1>3, <1>4, Known
     DEF Honours, PromiseStep, Quiesced, SameBut, Row, OpenRow
<1> QED BY <1>3, <1>5, <1>6, <1>7, <1>8, <1>9, QuietMove DEF SameBut

LEMMA KeepsListed == ASSUME IInv, NEW s \in Session, Listed(s) PROVE Sound
<1> DEFINE ws == itp[s].ws
           c == [ctl[s] EXCEPT !.pc = "begin", !.list = ws]
<1>1. ctl' = [ctl EXCEPT ![s] = c] BY DEF Listed
<1>2. ws \in SUBSET File BY Known DEF ItpRec
<1> HIDE DEF ws
<1>3. c \in CtlRec /\ c.pc = "begin" /\ c.list = ws
      /\ c.state = ctl[s].state /\ c.waking = ctl[s].waking /\ c.closing = ctl[s].closing
      /\ c.slot = ctl[s].slot /\ c.reserved = ctl[s].reserved /\ c.gone = ctl[s].gone
  BY <1>2, Known DEF CtlRec, PendingAt, SleepAt
<1> HIDE DEF c
<1>4. Row(c, itp[s], resv[s].at)
  BY <1>3, Known DEF Listed, Row, OpenRow, EngineRow, ItpRec
<1>5. FilesOK(c, itp[s], disk[s], owner[s] = PageOf(s))
  BY <1>3, Known DEF Listed, FilesOK, Row, OpenRow, ws
<1>6. Becomes(s, c, itp[s]) BY <1>1, <1>3, SameItp DEF Listed
<1>7. Honours(ctl[s], itp[s], disk[s], c, itp[s], disk[s])
  BY <1>3, Known
     DEF Honours, PromiseStep, Listed, Row, OpenRow
<1> QED BY <1>3, <1>4, <1>5, <1>6, <1>7, QuietMove DEF Listed

-----------------------------------------------------------------------------
(* The store.                                                               *)

\* A step of a session's checkpoint that leaves the broker alone.
LEMMA StoreMove ==
  ASSUME IInv, NEW s \in Session, NEW c, NEW i, NEW d, NEW o,
         Becomes(s, c, i), Stores(s, d, o), UNCHANGED brokerVars,
         c.reserved = ctl[s].reserved, c.slot # 0 <=> ctl[s].slot # 0,
         Row(c, i, resv[s].at), DirOK(d), FilesOK(c, i, d, o = PageOf(s)),
         Honours(ctl[s], itp[s], disk[s], c, i, d)
  PROVE  Sound
<1>1. resv[s] \in CallRec /\ resv' = [resv EXCEPT ![s] = resv[s]]
  BY DEF brokerVars, IInv, Types
<1>2. BrokerOK' /\ BrokerFrame(s) /\ HeldBy(s)' = HeldBy(s) /\ resv'[s] = resv[s]
      /\ issued'[s] = issued[s]
  BY <1>1, BrokerKept DEF brokerVars
<1> QED BY <1>2, Known, SessionMove DEF HasSlot

\* The page of a session can own its checkpoint.
LEMMA PageIsPage == ASSUME NEW s \in Session PROVE PageOf(s) \in Page
BY DEF PageOf, Page

LEMMA AbsentIs == store!Absent \in DirRec /\ DirOK(store!Absent)
BY DEF store!Absent, DirRec, DirOK

LEMMA KeepsBegun == ASSUME IInv, NEW s \in Session, Begun(s) PROVE Sound
<1> DEFINE plan == ctl[s].list
           c == [ctl[s] EXCEPT !.pc = "save", !.list = {}]
           d == [store!Absent EXCEPT !.exists = TRUE, !.plan = plan]
<1>1. /\ ctl' = [ctl EXCEPT ![s] = c] /\ disk' = [disk EXCEPT ![s] = d]
      /\ owner' = [owner EXCEPT ![s] = PageOf(s)] /\ UNCHANGED <<brokerVars, itp>>
  BY DEF Begun, store!BeginAt
<1>2. plan \in SUBSET File BY Known DEF CtlRec
<1> HIDE DEF plan
<1>3. c \in CtlRec /\ c.pc = "save"
      /\ c.state = ctl[s].state /\ c.waking = ctl[s].waking /\ c.closing = ctl[s].closing
      /\ c.slot = ctl[s].slot /\ c.reserved = ctl[s].reserved /\ c.gone = ctl[s].gone
  BY Known DEF CtlRec, PendingAt, SleepAt
<1>4. d \in DirRec /\ d.exists /\ d.plan = plan /\ ~d.manifest /\ ~d.writing
      /\ d.damaged = "nothing"
  BY <1>2 DEF DirRec, store!Absent
<1> HIDE DEF c, d
<1>5. Row(c, itp[s], resv[s].at) BY <1>3, Known DEF Begun, Row, OpenRow, EngineRow
<1>6. DirOK(d) BY <1>4 DEF DirOK
<1>7. FilesOK(c, itp[s], d, TRUE)
  BY <1>3, <1>4, Known DEF Begun, FilesOK, Row, OpenRow, plan
<1>8. Becomes(s, c, itp[s]) /\ Stores(s, d, PageOf(s))
  BY <1>1, <1>3, <1>4, SameItp, PageIsPage DEF Stores
<1>9. Honours(ctl[s], itp[s], disk[s], c, itp[s], d)
  BY <1>3, <1>4, Known
     DEF Honours, PromiseStep, Begun, FilesOK, plan, Row, OpenRow
<1> QED BY <1>1, <1>3, <1>5, <1>6, <1>7, <1>8, <1>9, StoreMove

LEMMA KeepsFileSaved == ASSUME IInv, NEW s \in Session, FileSaved(s) PROVE Sound
<1> DEFINE old == disk[s]
<1>1. old \in DirRec /\ DirOK(old) /\ At(s, "save") BY Known DEF FileSaved
<1>2. PICK f \in old.plan \ old.data :
         disk' = [disk EXCEPT ![s] = [old EXCEPT !.data = old.data \cup {f}]]
  BY DEF FileSaved, store!SaveFile
<1> HIDE DEF old
<1> DEFINE d == [old EXCEPT !.data = old.data \cup {f}]
<1>3. d \in DirRec /\ d.exists = old.exists /\ d.plan = old.plan /\ d.manifest = old.manifest
      /\ d.writing = old.writing /\ d.damaged = old.damaged /\ d.data # {}
  BY <1>1, <1>2 DEF DirRec
<1> HIDE DEF d
<1>4. ~old.manifest /\ ~old.writing BY <1>1, <1>2 DEF DirOK
<1>5. DirOK(d) BY <1>3, <1>4 DEF DirOK
<1>6. FilesOK(ctl[s], itp[s], d, owner[s] = PageOf(s))
  BY <1>1, <1>3, Known DEF FilesOK, old
<1>7. Becomes(s, ctl[s], itp[s]) BY DEF FileSaved, Becomes, IInv, Types
<1>8. Stores(s, d, owner[s]) BY <1>2, <1>3 DEF FileSaved, store!SaveFile, Stores, IInv, Types, d
<1>9. Honours(ctl[s], itp[s], disk[s], ctl[s], itp[s], d)
  BY <1>1, <1>3, Known
     DEF Honours, PromiseStep, old, Row, OpenRow
<1> QED BY <1>5, <1>6, <1>7, <1>8, <1>9, Known, StoreMove DEF FileSaved

LEMMA KeepsManifestOpened == ASSUME IInv, NEW s \in Session, ManifestOpened(s) PROVE Sound
<1> DEFINE d == [disk[s] EXCEPT !.writing = TRUE]
<1>1. disk' = [disk EXCEPT ![s] = d] /\ disk[s].data = disk[s].plan
      /\ UNCHANGED <<owner, itp, brokerVars>> /\ At(s, "save")
  BY DEF ManifestOpened, store!OpenManifest, store!AllSaved
<1>2. d \in DirRec /\ d.exists = disk[s].exists /\ d.plan = disk[s].plan /\ d.data = disk[s].data
      /\ d.manifest = disk[s].manifest /\ d.damaged = disk[s].damaged
  BY Known DEF DirRec
<1> HIDE DEF d
<1>3. PICK c \in CtlRec :
            /\ ctl' = [ctl EXCEPT ![s] = c]
            /\ c.pc = "manifest" /\ c.state = ctl[s].state /\ c.waking = ctl[s].waking
            /\ SameBut(c, ctl[s])
  BY Moved DEF ManifestOpened, PendingAt, SleepAt
<1>4. DirOK(d) BY <1>1, <1>2, Known DEF DirOK
<1>5. Row(c, itp[s], resv[s].at) BY <1>1, <1>3, Known DEF SameBut, Row, OpenRow, EngineRow
<1>6. FilesOK(c, itp[s], d, owner[s] = PageOf(s))
  BY <1>1, <1>2, <1>3, Known DEF SameBut, FilesOK
<1>7. Becomes(s, c, itp[s]) BY <1>1, <1>3, SameItp
<1>8. Stores(s, d, owner[s]) BY <1>1, <1>2 DEF Stores, IInv, Types
<1>9. Honours(ctl[s], itp[s], disk[s], c, itp[s], d)
  BY <1>1, <1>2, <1>3, Known
     DEF Honours, PromiseStep, SameBut, Row, OpenRow
<1> QED BY <1>1, <1>3, <1>4, <1>5, <1>6, <1>7, <1>8, <1>9, StoreMove DEF SameBut

\* A step that gives the session's slot back.
LEMMA ReleaseMove ==
  ASSUME IInv, NEW s \in Session, NEW c, NEW i, NEW d, NEW o,
         Becomes(s, c, i), Stores(s, d, o), ReleaseSlot(s),
         resv[s].at # "granted", ~c.reserved, c.slot = 0,
         Row(c, i, resv[s].at), DirOK(d), FilesOK(c, i, d, o = PageOf(s)),
         Honours(ctl[s], itp[s], disk[s], c, i, d)
  PROVE  Sound
<1>1. resv[s] \in CallRec /\ resv' = [resv EXCEPT ![s] = resv[s]]
  BY DEF ReleaseSlot, IInv, Types
<1>2. BrokerOK' /\ BrokerFrame(s) /\ HeldBy(s)' = {} /\ resv'[s] = resv[s]
      /\ issued'[s] = issued[s]
  BY <1>1, BrokerReleased DEF ReleaseSlot
<1> QED BY <1>2, SessionMove

LEMMA KeepsCommitted == ASSUME IInv, NEW s \in Session, Committed(s) PROVE Sound
<1> DEFINE d == [disk[s] EXCEPT !.writing = FALSE, !.manifest = TRUE]
           c == [ctl[s] EXCEPT !.pc = "sleepDispose", !.slot = 0]
           i == Dropped(s)
<1>1. /\ disk' = [disk EXCEPT ![s] = d] /\ ctl' = [ctl EXCEPT ![s] = c]
      /\ itp' = [itp EXCEPT ![s] = i] /\ UNCHANGED owner
      /\ disk[s].writing /\ At(s, "manifest") /\ ReleaseSlot(s)
  BY DEF Committed, store!CloseManifest
<1>2. d \in DirRec /\ d.exists = disk[s].exists /\ d.plan = disk[s].plan /\ d.data = disk[s].data
      /\ d.damaged = disk[s].damaged /\ d.manifest
  BY Known DEF DirRec
<1>3. c \in CtlRec /\ c.pc = "sleepDispose" /\ c.slot = 0
      /\ c.state = ctl[s].state /\ c.waking = ctl[s].waking /\ c.closing = ctl[s].closing
      /\ c.reserved = ctl[s].reserved /\ c.gone = ctl[s].gone
  BY Known DEF CtlRec, PendingAt, SleepAt
<1>4. i \in ItpRec /\ i.eng = "none" /\ ~i.attached /\ ~i.typed /\ ~i.pyopen BY DroppedIs
<1> HIDE DEF d, c, i
<1>5. DirOK(d) BY <1>1, <1>2, Known DEF DirOK
<1>6. Row(c, i, resv[s].at) /\ ~c.reserved /\ resv[s].at # "granted"
  BY <1>1, <1>3, <1>4, Known DEF Row, OpenRow, EngineRow
<1>7. FilesOK(c, i, d, owner[s] = PageOf(s))
  BY <1>1, <1>2, <1>3, <1>4, Known DEF FilesOK
<1>8. Becomes(s, c, i) /\ Stores(s, d, owner[s])
  BY <1>1, <1>2, <1>3, <1>4 DEF Becomes, Stores, IInv, Types
<1>9. Honours(ctl[s], itp[s], disk[s], c, i, d)
  BY <1>1, <1>2, <1>3, <1>4, Known
     DEF Honours, PromiseStep, FilesOK, DirOK, Row, OpenRow
<1> QED BY <1>1, <1>3, <1>5, <1>6, <1>7, <1>8, <1>9, ReleaseMove

LEMMA KeepsFellAsleep == ASSUME IInv, NEW s \in Session, FellAsleep(s) PROVE Sound
<1>1. PICK c \in CtlRec :
            /\ ctl' = [ctl EXCEPT ![s] = c]
            /\ c.pc = "idle" /\ c.state = SetTo(s, "asleep") /\ ~c.waking
            /\ c.closing = ctl[s].closing /\ c.slot = ctl[s].slot
            /\ c.reserved = ctl[s].reserved /\ c.gone = ctl[s].gone
  BY Settled DEF FellAsleep, SessionState
<1>2. Row(c, itp[s], "none")
  BY <1>1, Known DEF FellAsleep, Row, OpenRow, EngineRow, SetTo
<1>3. FilesOK(c, itp[s], disk[s], owner[s] = PageOf(s))
  BY <1>1, Known DEF FellAsleep, FilesOK, SetTo
<1>4. Honours(ctl[s], itp[s], disk[s], c, itp[s], disk[s])
  BY <1>1, Known
     DEF Honours, PromiseStep, FellAsleep, SetTo, Row, OpenRow, EngineRow
<1> QED BY <1>1, <1>2, <1>3, <1>4, SameItp, AnsweringMove DEF FellAsleep

LEMMA KeepsSaveFails == ASSUME IInv, NEW s \in Session, SaveFails(s) PROVE Sound
<1> DEFINE c == [ctl[s] EXCEPT !.pc = "abort", !.list = {}]
<1>1. /\ ctl' = [ctl EXCEPT ![s] = c] /\ UNCHANGED <<brokerVars, itp>>
      /\ ctl[s].pc \in {"list", "begin", "save", "manifest"} /\ ~ctl[s].gone
  BY DEF SaveFails
<1>2. c \in CtlRec /\ c.pc = "abort"
      /\ c.state = ctl[s].state /\ c.waking = ctl[s].waking /\ c.closing = ctl[s].closing
      /\ c.slot = ctl[s].slot /\ c.reserved = ctl[s].reserved /\ c.gone = ctl[s].gone
  BY Known DEF CtlRec, PendingAt, SleepAt
<1> HIDE DEF c
<1>3. Row(c, itp[s], resv[s].at) BY <1>1, <1>2, Known DEF Row, OpenRow, EngineRow
<1>4. ASSUME NEW d \in DirRec, NEW o
      PROVE  FilesOK(c, itp[s], d, o = PageOf(s)) /\ Honours(ctl[s], itp[s], disk[s], c, itp[s], d)
  <2>1. FilesOK(c, itp[s], d, o = PageOf(s))
    BY <1>1, <1>2, <1>3, Known DEF FilesOK, Row, OpenRow
  <2>2. Honours(ctl[s], itp[s], disk[s], c, itp[s], d)
    BY <1>1, <1>2, Known DEF Honours, PromiseStep, FilesOK, Row, OpenRow
  <2> QED BY <2>1, <2>2
<1>5. Becomes(s, c, itp[s]) BY <1>1, <1>2, SameItp
<1>6. \E d \in DirRec, o \in Page \cup {Nobody} : Stores(s, d, o) /\ DirOK(d)
  <2>1. CASE ctl[s].pc \in {"save", "manifest"}
    <3>1. Stores(s, store!Absent, Nobody)
      BY <2>1, AbsentIs DEF SaveFails, store!AbortAt, Stores
    <3> QED BY <3>1, AbsentIs DEF Stores
  <2>2. CASE ctl[s].pc \notin {"save", "manifest"}
    <3>1. Stores(s, disk[s], owner[s]) BY <2>2 DEF SaveFails, Stores, IInv, Types
    <3> QED BY <3>1, Known
  <2> QED BY <2>1, <2>2
<1> QED BY <1>1, <1>2, <1>3, <1>4, <1>5, <1>6, StoreMove

LEMMA KeepsStayedAwake == ASSUME IInv, NEW s \in Session, StayedAwake(s) PROVE Sound
<1> DEFINE i == [itp[s] EXCEPT !.quiesced = FALSE]
<1>1. itp' = [itp EXCEPT ![s] = i] /\ UNCHANGED <<scoped, held, issued, disk, owner>>
      /\ resv' = Answered(s, FALSE) /\ At(s, "abort")
  BY DEF StayedAwake
<1>2. i \in ItpRec /\ i.eng = itp[s].eng /\ i.attached = itp[s].attached
      /\ i.typed = itp[s].typed /\ i.ws = itp[s].ws
  BY Known DEF ItpRec
<1> HIDE DEF i
<1>3. PICK c \in CtlRec :
            /\ ctl' = [ctl EXCEPT ![s] = c]
            /\ c.pc = "idle" /\ c.state = SetTo(s, "ready") /\ ~c.waking
            /\ c.closing = ctl[s].closing /\ c.slot = ctl[s].slot
            /\ c.reserved = ctl[s].reserved /\ c.gone = ctl[s].gone
  BY Settled DEF StayedAwake, SessionState
<1>4. Row(c, i, "none") BY <1>1, <1>2, <1>3, Known DEF Row, OpenRow, EngineRow, SetTo
<1>5. FilesOK(c, i, disk[s], owner[s] = PageOf(s))
  BY <1>1, <1>2, <1>3, Known DEF FilesOK, SetTo
<1>6. Becomes(s, c, i) BY <1>1, <1>2, <1>3 DEF Becomes
<1>7. Honours(ctl[s], itp[s], disk[s], c, i, disk[s])
  BY <1>1, <1>2, <1>3, Known
     DEF Honours, PromiseStep, SetTo, Row, OpenRow
<1> QED BY <1>1, <1>3, <1>4, <1>5, <1>6, <1>7, AnsweringMove

LEMMA KeepsSleeping == ASSUME IInv, NEW s \in Session, Sleeping(s) PROVE Sound
BY KeepsSleepRefused, KeepsQuiesceAsked, KeepsQuiesced, KeepsListed, KeepsBegun, KeepsFileSaved,
   KeepsManifestOpened, KeepsCommitted, KeepsFellAsleep, KeepsSaveFails, KeepsStayedAwake
   DEF Sleeping

-----------------------------------------------------------------------------
(* close(), the browser, and the interpreter.                               *)

LEMMA KeepsClose == ASSUME IInv, NEW s \in Session, Close(s) PROVE Sound
<1> DEFINE c == [ctl[s] EXCEPT !.state = "closed", !.closing = "dispose",
                               !.reserved = FALSE, !.slot = 0]
           i == Dropped(s)
<1>1. /\ ctl' = [ctl EXCEPT ![s] = c] /\ itp' = [itp EXCEPT ![s] = i]
      /\ UNCHANGED <<scoped, issued, resv, disk, owner>> /\ ~ctl[s].gone
      /\ held' = IF ctl[s].reserved \/ ctl[s].slot # 0 THEN Without(s) ELSE held
  BY DEF Close
<1>2. c \in CtlRec /\ c.state = "closed" /\ c.slot = 0 /\ ~c.reserved
      /\ c.pc = ctl[s].pc /\ c.gone = ctl[s].gone
  BY Known DEF CtlRec, SessionState, ClosingAt
<1>3. i \in ItpRec /\ i.eng = "none" /\ ~i.typed BY DroppedIs
<1> HIDE DEF c, i
<1>4. Row(c, i, resv[s].at) BY <1>1, <1>2, <1>3, Known DEF Row
<1>5. FilesOK(c, i, disk[s], owner[s] = PageOf(s)) BY <1>2 DEF FilesOK
<1>6. Becomes(s, c, i) /\ Stores(s, disk[s], owner[s])
  BY <1>1, <1>2, <1>3 DEF Becomes, Stores, IInv, Types
<1>7. resv[s] \in CallRec /\ resv' = [resv EXCEPT ![s] = resv[s]]
  BY <1>1 DEF IInv, Types
<1>8. Honours(ctl[s], itp[s], disk[s], c, i, disk[s])
  BY <1>2, <1>3, Known
     DEF Honours, PromiseStep, Row
<1>9. CASE ctl[s].reserved \/ ctl[s].slot # 0
  <2>1. BrokerOK' /\ BrokerFrame(s) /\ HeldBy(s)' = {} /\ resv'[s] = resv[s]
    BY <1>1, <1>7, <1>9, BrokerReleased
  <2>2. resv[s].at # "granted"
    BY <1>9, Known, NoSlotWhileReserving DEF Row
  <2> QED BY <1>2, <1>4, <1>5, <1>6, <1>8, <2>1, <2>2, Known, SessionMove
<1>10. CASE ~(ctl[s].reserved \/ ctl[s].slot # 0)
  <2>1. BrokerOK' /\ BrokerFrame(s) /\ HeldBy(s)' = HeldBy(s) /\ resv'[s] = resv[s]
        /\ issued'[s] = issued[s]
    BY <1>1, <1>7, <1>10, BrokerKept
  <2> QED BY <1>2, <1>4, <1>5, <1>6, <1>8, <1>10, <2>1, Known, SessionMove DEF HasSlot
<1> QED BY <1>9, <1>10

LEMMA KeepsCloseDisposed == ASSUME IInv, NEW s \in Session, CloseDisposed(s) PROVE Sound
<1> DEFINE c == [ctl[s] EXCEPT !.closing = "discard"]
<1>1. ctl' = [ctl EXCEPT ![s] = c] /\ UNCHANGED <<brokerVars, disk, owner, itp>>
      /\ ctl[s].closing = "dispose"
  BY DEF CloseDisposed
<1>2. c \in CtlRec /\ c.pc = ctl[s].pc /\ c.state = ctl[s].state /\ c.slot = ctl[s].slot
      /\ c.reserved = ctl[s].reserved /\ c.gone = ctl[s].gone
  BY Known DEF CtlRec, ClosingAt
<1> HIDE DEF c
<1>3. ctl[s].state = "closed" BY <1>1, Known DEF Row, OpenRow
<1>4. Row(c, itp[s], resv[s].at) BY <1>2, <1>3, Known DEF Row
<1>5. FilesOK(c, itp[s], disk[s], owner[s] = PageOf(s)) BY <1>2, <1>3 DEF FilesOK
<1>6. Honours(ctl[s], itp[s], disk[s], c, itp[s], disk[s])
  BY <1>2, <1>3
     DEF Honours, PromiseStep
<1> QED BY <1>1, <1>2, <1>4, <1>5, <1>6, SameItp, QuietMove

\* What the store does to one checkpoint when it is discarded.
LEMMA Discarded ==
  ASSUME IInv, NEW s \in Session, store!DiscardAt(s)
  PROVE  \E d \in DirRec : Stores(s, d, Nobody) /\ DirOK(d)
<1>1. CASE disk[s].writing
  <2>1. Stores(s, disk[s], Nobody)
    BY <1>1 DEF store!DiscardAt, Stores, IInv, Types
  <2> QED BY <2>1, Known
<1>2. CASE ~disk[s].writing
  <2>1. Stores(s, store!Absent, Nobody) BY <1>2, AbsentIs DEF store!DiscardAt, Stores
  <2> QED BY <2>1, AbsentIs
<1> QED BY <1>1, <1>2

LEMMA KeepsCloseDiscarded == ASSUME IInv, NEW s \in Session, CloseDiscarded(s) PROVE Sound
<1> DEFINE c == [ctl[s] EXCEPT !.closing = "done"]
<1>1. ctl' = [ctl EXCEPT ![s] = c] /\ UNCHANGED <<brokerVars, itp>>
      /\ ctl[s].closing = "discard" /\ store!DiscardAt(s)
  BY DEF CloseDiscarded
<1>2. c \in CtlRec /\ c.pc = ctl[s].pc /\ c.state = ctl[s].state /\ c.slot = ctl[s].slot
      /\ c.reserved = ctl[s].reserved /\ c.gone = ctl[s].gone
  BY Known DEF CtlRec, ClosingAt
<1> HIDE DEF c
<1>3. ctl[s].state = "closed" BY <1>1, Known DEF Row, OpenRow
<1>4. Row(c, itp[s], resv[s].at) BY <1>2, <1>3, Known DEF Row
<1>5. PICK d \in DirRec : Stores(s, d, Nobody) /\ DirOK(d) BY <1>1, Discarded
<1>6. FilesOK(c, itp[s], d, Nobody = PageOf(s)) BY <1>2, <1>3 DEF FilesOK
<1>7. Becomes(s, c, itp[s]) BY <1>1, <1>2, SameItp
<1>8. Honours(ctl[s], itp[s], disk[s], c, itp[s], d)
  BY <1>2, <1>3
     DEF Honours, PromiseStep
<1> QED BY <1>1, <1>2, <1>4, <1>5, <1>6, <1>7, <1>8, StoreMove

\* The queue of the engine: something submitted, ...
LEMMA KeepsType == ASSUME IInv, NEW s \in Session, Type(s) PROVE Sound
<1> DEFINE i == [itp[s] EXCEPT !.typed = TRUE]
<1>1. /\ itp' = [itp EXCEPT ![s] = i] /\ UNCHANGED <<brokerVars, disk, owner, ctl>>
      /\ WorkerAlive(itp[s].eng) /\ itp[s].attached /\ ~itp[s].quiesced
  BY DEF Type
<1>2. i \in ItpRec /\ SameInterpreter(i, itp[s]) /\ i.behind = itp[s].behind
  BY Known DEF ItpRec, SameInterpreter
<1> HIDE DEF i
<1>3. Becomes(s, ctl[s], i) BY <1>1, <1>2 DEF Becomes, IInv, Types
<1>4. Row(ctl[s], i, resv[s].at)
  BY <1>1, <1>2, Known DEF SameInterpreter, Row, OpenRow, EngineRow
<1>5. FilesOK(ctl[s], i, disk[s], owner[s] = PageOf(s))
  BY <1>2, Known DEF SameInterpreter, FilesOK
<1>6. Honours(ctl[s], itp[s], disk[s], ctl[s], i, disk[s])
  BY <1>2 DEF SameInterpreter, Honours, PromiseStep
<1> QED BY <1>1, <1>3, <1>4, <1>5, <1>6, QuietMove

\* ... code that begins, also in a session that is falling asleep, ...
LEMMA KeepsRunCode == ASSUME IInv, NEW s \in Session, RunCode(s) PROVE Sound
<1> DEFINE new == IF Live(s) THEN "busy" ELSE ctl[s].state
           c == [ctl[s] EXCEPT !.state = new]
           i == [itp[s] EXCEPT !.eng = "busy", !.typed = FALSE, !.pyopen = FALSE]
<1>1. /\ ctl' = [ctl EXCEPT ![s] = c] /\ itp' = [itp EXCEPT ![s] = i]
      /\ UNCHANGED <<brokerVars, disk, owner>>
      /\ itp[s].eng = "ready" /\ itp[s].typed /\ ~ctl[s].gone
  BY DEF RunCode
<1>2. new \in SessionState /\ new = IF Live(s) THEN "busy" ELSE ctl[s].state
  BY Known DEF SessionState, CtlRec
<1> HIDE DEF new
<1>3. c \in CtlRec /\ c.pc = ctl[s].pc /\ c.state = new /\ c.waking = ctl[s].waking
      /\ SameBut(c, ctl[s])
  BY <1>2, Known DEF CtlRec, SameBut
<1>4. i \in ItpRec /\ i.eng = "busy" /\ ~i.typed /\ i.attached = itp[s].attached
      /\ ~i.pyopen /\ i.ws = itp[s].ws /\ i.quiesced = itp[s].quiesced
      /\ i.behind = itp[s].behind
  BY Known DEF ItpRec, EngineState
<1> HIDE DEF c, i
<1>5. ctl[s].state # "closed" BY <1>1, Known DEF Row
<1>6. itp[s].attached /\ ctl[s].pc \notin {"begin", "save", "manifest"}
  BY <1>1, <1>5, Known DEF Row, EngineRow
<1>7. OpenRow(c) BY <1>1, <1>2, <1>3, <1>5, Known DEF Row, OpenRow, Live, SameBut
<1>8. EngineRow(c, i)
  BY <1>1, <1>2, <1>3, <1>4, <1>5, <1>6, Known DEF Row, OpenRow, EngineRow, Live, SameBut
<1>9. Row(c, i, resv[s].at)
  BY <1>1, <1>2, <1>3, <1>4, <1>5, <1>7, <1>8, Known DEF Row, OpenRow, EngineRow, SameBut, Live
<1>10. FilesOK(c, i, disk[s], owner[s] = PageOf(s))
  BY <1>1, <1>2, <1>3, <1>4, Known DEF FilesOK, Live, SameBut
<1>11. Becomes(s, c, i) BY <1>1, <1>3, <1>4 DEF Becomes
<1>12. Honours(ctl[s], itp[s], disk[s], c, i, disk[s])
  BY <1>1, <1>2, <1>3, <1>4, <1>5, <1>6, Known
     DEF Honours, PromiseStep, Live, SameBut, Row, OpenRow, EngineRow
<1> QED BY <1>1, <1>3, <1>9, <1>10, <1>11, <1>12, QuietMove DEF SameBut

\* ... or a command that is over at once.
LEMMA KeepsCommandDone == ASSUME IInv, NEW s \in Session, CommandDone(s) PROVE Sound
<1>1. PICK ws \in SUBSET itp[s].ws :
         itp' = [itp EXCEPT ![s].typed = FALSE, ![s].behind = FALSE, ![s].ws = ws]
  BY DEF CommandDone
<1> DEFINE i == [itp[s] EXCEPT !.typed = FALSE, !.behind = FALSE, !.ws = ws]
<1>2. /\ itp' = [itp EXCEPT ![s] = i] /\ UNCHANGED <<brokerVars, disk, owner, ctl>>
      /\ itp[s].eng = "ready" /\ itp[s].typed
  BY <1>1 DEF CommandDone
<1>3. ws \in SUBSET File BY Known DEF ItpRec
<1>4. i \in ItpRec /\ i.eng = "ready" /\ ~i.typed /\ i.attached = itp[s].attached
      /\ i.quiesced = itp[s].quiesced
  BY <1>2, <1>3, Known DEF ItpRec
<1> HIDE DEF i
<1>5. ctl[s].state # "closed" BY <1>2, Known DEF Row
<1>6. itp[s].attached /\ ctl[s].pc \notin {"begin", "save", "manifest"}
  BY <1>2, <1>5, Known DEF Row, EngineRow
<1>7. Becomes(s, ctl[s], i) BY <1>2, <1>4 DEF Becomes, IInv, Types
<1>8. Row(ctl[s], i, resv[s].at)
  BY <1>2, <1>4, <1>5, <1>6, Known DEF Row, OpenRow, EngineRow
<1>9. FilesOK(ctl[s], i, disk[s], owner[s] = PageOf(s))
  BY <1>2, <1>4, <1>5, <1>6, Known DEF FilesOK, Row, OpenRow, EngineRow
<1>10. Honours(ctl[s], itp[s], disk[s], ctl[s], i, disk[s])
  BY <1>2, <1>4, <1>5, <1>6, Known
     DEF Honours, PromiseStep, ItpRec, Row, OpenRow, EngineRow
<1> QED BY <1>2, <1>7, <1>8, <1>9, <1>10, QuietMove

LEMMA KeepsQueue == ASSUME IInv, NEW s \in Session, Queue(s) PROVE Sound
BY KeepsRunCode, KeepsCommandDone DEF Queue

LEMMA KeepsCodeEnds == ASSUME IInv, NEW s \in Session, CodeEnds(s) PROVE Sound
<1>1. PICK ws \in SUBSET File, open \in BOOLEAN :
         itp' = [itp EXCEPT ![s].eng = "ready", ![s].behind = FALSE, ![s].ws = ws,
                            ![s].pyopen = open]
  BY DEF CodeEnds
<1> DEFINE new == IF Live(s) THEN "ready" ELSE ctl[s].state
           c == [ctl[s] EXCEPT !.state = new]
           i == [itp[s] EXCEPT !.eng = "ready", !.behind = FALSE, !.ws = ws, !.pyopen = open]
<1>2. /\ ctl' = [ctl EXCEPT ![s] = c] /\ itp' = [itp EXCEPT ![s] = i]
      /\ UNCHANGED <<brokerVars, disk, owner>> /\ itp[s].eng = "busy" /\ ~ctl[s].gone
  BY <1>1 DEF CodeEnds
<1>3. new \in SessionState /\ new = IF Live(s) THEN "ready" ELSE ctl[s].state
  BY Known DEF SessionState, CtlRec
<1> HIDE DEF new
<1>4. c \in CtlRec /\ c.pc = ctl[s].pc /\ c.state = new /\ c.waking = ctl[s].waking
      /\ SameBut(c, ctl[s])
  BY <1>3, Known DEF CtlRec, SameBut
<1>5. i \in ItpRec /\ i.eng = "ready" /\ i.attached = itp[s].attached
      /\ i.typed = itp[s].typed /\ i.quiesced = itp[s].quiesced
  BY Known DEF ItpRec, EngineState
<1> HIDE DEF c, i
<1>6. /\ ctl[s].state # "closed" /\ ctl[s].pc \notin {"begin", "save", "manifest"}
      /\ itp[s].attached /\ (ctl[s].pc = "list" => ~itp[s].typed)
  BY <1>2, Known DEF Row, EngineRow
<1>7. OpenRow(c) BY <1>2, <1>3, <1>4, <1>6, Known DEF Row, OpenRow, Live, SameBut
<1>8. EngineRow(c, i)
  BY <1>2, <1>3, <1>4, <1>5, <1>6, Known DEF Row, OpenRow, EngineRow, Live, SameBut
<1>9. Row(c, i, resv[s].at)
  BY <1>2, <1>3, <1>4, <1>5, <1>6, <1>7, <1>8, Known DEF Row, Live, SameBut
<1>10. FilesOK(c, i, disk[s], owner[s] = PageOf(s))
  BY <1>2, <1>3, <1>4, <1>5, <1>6, Known DEF FilesOK, Live, SameBut, Row, OpenRow, EngineRow
<1>11. Becomes(s, c, i) BY <1>2, <1>4, <1>5 DEF Becomes
<1>12. Honours(ctl[s], itp[s], disk[s], c, i, disk[s])
  BY <1>2, <1>3, <1>4, <1>5, <1>6, Known
     DEF Honours, PromiseStep, Live, SameBut, ItpRec, Row, OpenRow, EngineRow
<1> QED BY <1>2, <1>4, <1>9, <1>10, <1>11, <1>12, QuietMove DEF SameBut

LEMMA KeepsWorkerGone == ASSUME IInv, NEW s \in Session, WorkerGone(s) PROVE Sound
<1> DEFINE i == [itp[s] EXCEPT !.dying = FALSE]
<1>1. /\ itp' = [itp EXCEPT ![s] = i] /\ UNCHANGED <<brokerVars, disk, owner, ctl>>
  BY DEF WorkerGone
<1>2. i \in ItpRec /\ i.eng = itp[s].eng /\ i.attached = itp[s].attached
      /\ i.quiesced = itp[s].quiesced /\ i.pyopen = itp[s].pyopen /\ i.ws = itp[s].ws
      /\ i.typed = itp[s].typed /\ i.behind = itp[s].behind
  BY Known DEF ItpRec
<1> HIDE DEF i
<1>3. Becomes(s, ctl[s], i) BY <1>1, <1>2 DEF Becomes, IInv, Types
<1>4. Row(ctl[s], i, resv[s].at) BY <1>2, Known DEF Row, EngineRow
<1>5. FilesOK(ctl[s], i, disk[s], owner[s] = PageOf(s)) BY <1>2, Known DEF FilesOK
<1>6. Honours(ctl[s], itp[s], disk[s], ctl[s], i, disk[s])
  BY <1>2
     DEF Honours, PromiseStep
<1> QED BY <1>1, <1>3, <1>4, <1>5, <1>6, QuietMove

LEMMA KeepsWorkerDies == ASSUME IInv, NEW s \in Session, WorkerDies(s) PROVE Sound
<1> DEFINE i == [itp[s] EXCEPT !.eng = "error", !.typed = FALSE, !.behind = FALSE,
                              !.ws = {}, !.pyopen = FALSE]
<1>1. itp' = [itp EXCEPT ![s] = i] /\ UNCHANGED <<disk, owner>>
      /\ WorkerAlive(itp[s].eng) /\ ~ctl[s].gone
  BY DEF WorkerDies
<1>2. i \in ItpRec /\ i.eng = "error" /\ i.attached = itp[s].attached /\ ~i.typed /\ i.ws = {}
  BY Known DEF ItpRec, EngineState
<1> HIDE DEF i
<1>3. CASE Live(s)
  <2> DEFINE c == [ctl[s] EXCEPT !.state = "crashed", !.slot = 0]
  <2>1. ctl' = [ctl EXCEPT ![s] = c] /\ ReleaseSlot(s) BY <1>3 DEF WorkerDies
  <2>2. c \in CtlRec /\ c.state = "crashed" /\ c.slot = 0 /\ c.pc = ctl[s].pc
        /\ c.waking = ctl[s].waking /\ c.closing = ctl[s].closing
        /\ c.reserved = ctl[s].reserved /\ c.gone = ctl[s].gone
    BY Known DEF CtlRec, SessionState
  <2> HIDE DEF c
  <2>3. Row(c, i, resv[s].at) /\ ~c.reserved /\ resv[s].at # "granted"
    BY <1>2, <1>3, <2>2, Known DEF Row, OpenRow, EngineRow, Live
  <2>4. FilesOK(c, i, disk[s], owner[s] = PageOf(s))
    BY <1>2, <1>3, <2>2, Known DEF FilesOK, Live, Row, OpenRow
  <2>5. Becomes(s, c, i) /\ Stores(s, disk[s], owner[s])
    BY <1>1, <1>2, <2>1, <2>2 DEF Becomes, Stores, IInv, Types
  <2>6. Honours(ctl[s], itp[s], disk[s], c, i, disk[s])
    BY <1>1, <1>2, <1>3, <2>2, Known DEF Honours, PromiseStep, Live, Row, OpenRow
  <2> QED BY <2>1, <2>2, <2>3, <2>4, <2>5, <2>6, Known, ReleaseMove
<1>4. CASE ~Live(s)
  <2>1. UNCHANGED <<ctl, brokerVars>> BY <1>4 DEF WorkerDies
  <2>2. Row(ctl[s], i, resv[s].at)
    BY <1>1, <1>2, <1>4, Known DEF Row, OpenRow, EngineRow, Live
  <2>3. FilesOK(ctl[s], i, disk[s], owner[s] = PageOf(s))
    BY <1>2, Known DEF FilesOK
  <2>4. Becomes(s, ctl[s], i) BY <1>1, <1>2, <2>1 DEF Becomes, IInv, Types
  <2>5. Honours(ctl[s], itp[s], disk[s], ctl[s], i, disk[s])
    BY <1>1, <1>2, Known DEF Honours, PromiseStep, FilesOK, DirOK, Row, OpenRow, EngineRow
  <2> QED BY <1>1, <2>1, <2>2, <2>3, <2>4, <2>5, QuietMove
<1> QED BY <1>3, <1>4

\* Only a checkpoint nobody owns is swept, and files that are kept have an owner.
LEMMA KeepsSwept == ASSUME IInv, NEW s \in Session, Swept(s) PROVE Sound
<1>1. /\ disk' = [disk EXCEPT ![s] = store!Absent] /\ UNCHANGED <<brokerVars, ctl, itp, owner>>
      /\ owner[s] = Nobody
  BY DEF Swept, store!SweepAt
<1>2. owner[s] # PageOf(s) BY <1>1, PageIsPage, NobodyAssumption
<1>3. Becomes(s, ctl[s], itp[s]) /\ Stores(s, store!Absent, owner[s])
  BY <1>1, AbsentIs DEF Becomes, Stores, IInv, Types
<1>4. FilesOK(ctl[s], itp[s], store!Absent, owner[s] = PageOf(s))
  BY <1>2, Known DEF FilesOK, Row, OpenRow
<1>5. Honours(ctl[s], itp[s], disk[s], ctl[s], itp[s], store!Absent)
  BY <1>2, Known
     DEF Honours, PromiseStep, FilesOK, Row, OpenRow
<1> QED BY <1>1, <1>3, <1>4, <1>5, AbsentIs, Known, StoreMove

LEMMA KeepsDamaged == ASSUME IInv, NEW s \in Session, Damaged(s) PROVE Sound
<1>1. /\ UNCHANGED <<brokerVars, ctl, itp, owner>>
      /\ disk[s].manifest /\ disk[s].damaged = "nothing"
  BY DEF Damaged, store!DamageAt
<1>2. PICK what \in {"manifest", "file"} :
         /\ disk' = [disk EXCEPT ![s].damaged = what]
         /\ what = "file" => disk[s].data # {}
  BY DEF Damaged, store!DamageAt
<1> DEFINE d == [disk[s] EXCEPT !.damaged = what]
<1>3. d \in DirRec /\ d.exists = disk[s].exists /\ d.plan = disk[s].plan /\ d.data = disk[s].data
      /\ d.manifest = disk[s].manifest /\ d.writing = disk[s].writing /\ d.damaged = what
  BY Known DEF DirRec
<1>4. disk' = [disk EXCEPT ![s] = d] BY <1>2
<1> HIDE DEF d
<1>5. DirOK(d) BY <1>2, <1>3, Known DEF DirOK
<1>6. FilesOK(ctl[s], itp[s], d, owner[s] = PageOf(s)) BY <1>1, <1>3, Known DEF FilesOK
<1>7. Becomes(s, ctl[s], itp[s]) /\ Stores(s, d, owner[s])
  BY <1>1, <1>3, <1>4 DEF Becomes, Stores, IInv, Types
<1>8. Honours(ctl[s], itp[s], disk[s], ctl[s], itp[s], d)
  BY <1>1, <1>2, <1>3, Known
     DEF Honours, PromiseStep
<1> QED BY <1>1, <1>5, <1>6, <1>7, <1>8, Known, StoreMove

\* A document that goes away takes its sessions and their slots with it.
LEMMA KeepsPageKilled == ASSUME IInv, NEW p \in Page, PageKilled(p) PROVE Sound
<1> DEFINE dead == {s \in Session : PageOf(s) = p}
           gone == [Configured EXCEPT !.gone = TRUE, !.state = "closed", !.closing = "done"]
           dir(s) == [disk[s] EXCEPT !.writing = FALSE]
<1>1. /\ ctl' = [s \in Session |-> IF s \in dead THEN gone ELSE ctl[s]]
      /\ itp' = [s \in Session |-> IF s \in dead THEN NoInterpreter ELSE itp[s]]
      /\ held' = {r \in held : r.by \notin dead}
      /\ resv' = [s \in Session |-> IF s \in dead THEN NoCall ELSE resv[s]]
      /\ owner' = [s \in Session |-> IF s \in dead THEN Nobody ELSE owner[s]]
      /\ disk' = [s \in Session |-> IF s \in dead THEN dir(s) ELSE disk[s]]
      /\ UNCHANGED <<scoped, issued>>
  BY DEF PageKilled
<1>2. gone \in CtlRec /\ gone.state = "closed" /\ gone.pc = "idle" /\ gone.slot = 0 /\ ~gone.reserved
  BY DEF Configured, CtlRec, SessionState, PendingAt, ClosingAt
<1>3. NoInterpreter \in ItpRec /\ NoInterpreter.eng = "none" /\ ~NoInterpreter.typed
  BY DEF NoInterpreter, ItpRec, EngineState
<1>4. NoCall \in CallRec /\ NoCall.at = "none" BY DEF NoCall, CallRec, CallPhase
<1>5. ASSUME NEW s \in Session
      PROVE  dir(s) \in DirRec /\ dir(s).plan = disk[s].plan /\ dir(s).data = disk[s].data
             /\ dir(s).manifest = disk[s].manifest /\ dir(s).damaged = disk[s].damaged
             /\ ~dir(s).writing
  <2>1. disk[s] \in DirRec BY Known
  <2> QED BY <2>1 DEF DirRec
<1> HIDE DEF gone, dir, dead
<1>6. Types'
  <2>1. Types BY DEF IInv
  <2>2. held' \subseteq held BY <1>1
  <2>3. /\ ctl' \in [Session -> CtlRec] /\ itp' \in [Session -> ItpRec]
        /\ resv' \in [Session -> CallRec] /\ disk' \in [Session -> DirRec]
        /\ owner' \in [Session -> Page \cup {Nobody}]
    BY <1>1, <1>2, <1>3, <1>4, <1>5, <2>1 DEF Types
  <2> QED BY <1>1, <2>1, <2>2, <2>3 DEF Types
<1>7. SlotsOK'
  <2>1. IsFiniteSet(held') /\ Cardinality(held') <= Capacity
    <3>1. held' \in SUBSET held BY <1>1
    <3>2. IsFiniteSet(held) /\ Cardinality(held) \in Nat /\ Capacity \in Nat
          /\ Cardinality(held) <= Capacity
      BY FS_CardinalityType, CapacityAssumption DEF IInv, SlotsOK
    <3>3. IsFiniteSet(held') /\ Cardinality(held') <= Cardinality(held)
      BY <3>1, <3>2, FS_Subset
    <3> QED BY <3>2, <3>3, FS_CardinalityType
  <2>2. ASSUME NEW s \in Session
        PROVE  /\ (HasSlot(s) <=> HeldBy(s) # {})'
               /\ (ctl[s].reserved \/ resv[s].at = "granted" => issued[s] # 0)'
    <3>1. CASE s \in dead
      <4>1. HeldBy(s)' = {} BY <1>1, <3>1 DEF HeldBy
      <4> QED BY <1>1, <1>2, <1>4, <3>1, <4>1 DEF HasSlot
    <3>2. CASE s \notin dead
      <4>1. HeldBy(s)' = HeldBy(s) BY <1>1, <3>2 DEF HeldBy
      <4> QED BY <1>1, <3>2, <4>1, Known DEF HasSlot
    <3> QED BY <3>1, <3>2
  <2>3. \A q, r \in held' : q.by = r.by => q = r BY <1>1 DEF IInv, SlotsOK
  <2> QED BY <2>1, <2>2, <2>3 DEF SlotsOK
<1>8. ASSUME NEW s \in Session PROVE SessionOK(s)'
  <2>1. PageOf(s)' = PageOf(s) BY <1>1 DEF PageOf
  <2>2. CASE s \in dead
    <3>1. ctl'[s] = gone /\ itp'[s] = NoInterpreter /\ disk'[s] = dir(s) /\ resv'[s] = NoCall
      BY <1>1, <2>2
    <3>2. Row(gone, NoInterpreter, "none") /\ DirOK(dir(s))
      BY <1>2, <1>3, <1>5, Known DEF Row, DirOK
    <3>3. FilesOK(gone, NoInterpreter, dir(s), owner'[s] = PageOf(s)') BY <1>2 DEF FilesOK
    <3> QED BY <1>4, <3>1, <3>2, <3>3 DEF SessionOK
  <2>3. CASE s \notin dead
    <3>1. ctl'[s] = ctl[s] /\ itp'[s] = itp[s] /\ disk'[s] = disk[s] /\ resv'[s] = resv[s]
          /\ owner'[s] = owner[s]
      BY <1>1, <2>3
    <3> QED BY <2>1, <3>1, Known DEF SessionOK
  <2> QED BY <2>2, <2>3
<1>9. ASSUME NEW s \in Session PROVE Promised(s)
  <2>1. CASE s \in dead
    <3>1. ctl'[s] = gone BY <1>1, <2>1
    <3>2. Honours(ctl[s], itp[s], disk[s], gone, itp'[s], disk'[s])
      BY <1>2 DEF Honours, PromiseStep
    <3> QED BY <3>1, <3>2 DEF Promised
  <2>2. CASE s \notin dead
    <3>1. ctl'[s] = ctl[s] /\ itp'[s] = itp[s] /\ disk'[s] = disk[s] BY <1>1, <2>2
    <3> QED BY <3>1, HonoursSame DEF Promised
  <2> QED BY <2>1, <2>2
<1> QED BY <1>6, <1>7, <1>8, <1>9 DEF IInv, Sound

-----------------------------------------------------------------------------
(* start(), wake().                                                         *)

\* The part of #boot() before its first await.
LEMMA KeepsBootCall ==
  ASSUME IInv, NEW s \in Session, NEW waking \in BOOLEAN, At(s, "idle"),
         ctl[s].state \in (IF waking THEN {"asleep", "wake-error"} ELSE {"configured", "crashed"}),
         BootCall(s, waking, ctl[s]), UNCHANGED <<scoped, disk, owner>>
  PROVE  Sound
<1>1. Row(ctl[s], itp[s], resv[s].at) /\ resv[s].at = "none" /\ ctl[s].slot = 0
  BY Known DEF Row, OpenRow
<1>2. Stores(s, disk[s], owner[s]) BY DEF Stores, IInv, Types
<1>3. CASE itp[s].eng # "none"
  <2> DEFINE c == [ctl[s] EXCEPT !.pc = "predispose", !.waking = waking, !.slot = 0]
             i == Dropped(s)
  <2>1. /\ ctl' = [ctl EXCEPT ![s] = c] /\ itp' = [itp EXCEPT ![s] = i]
        /\ held' = IF ctl[s].slot # 0 THEN Without(s) ELSE held
        /\ UNCHANGED <<issued, resv>>
    BY <1>3 DEF BootCall
  <2>2. UNCHANGED brokerVars BY <1>1, <2>1 DEF brokerVars
  <2>3. c \in CtlRec /\ c.pc = "predispose" /\ c.waking = waking /\ c.slot = 0
        /\ c.state = ctl[s].state /\ c.closing = ctl[s].closing
        /\ c.reserved = ctl[s].reserved /\ c.gone = ctl[s].gone
    BY Known DEF CtlRec, PendingAt, BootAt
  <2>4. i \in ItpRec /\ i.eng = "none" /\ ~i.attached /\ ~i.typed BY DroppedIs
  <2> HIDE DEF c, i
  <2>5. ctl[s].state = "crashed" /\ ~waking BY <1>1, <1>3 DEF Row, EngineRow
  <2>6. Row(c, i, resv[s].at)
    BY <1>1, <2>3, <2>4, <2>5 DEF Row, OpenRow, EngineRow
  <2>7. FilesOK(c, i, disk[s], owner[s] = PageOf(s)) BY <2>3, <2>5 DEF FilesOK
  <2>8. Becomes(s, c, i) BY <2>1, <2>3, <2>4 DEF Becomes
  <2>9. Honours(ctl[s], itp[s], disk[s], c, i, disk[s])
    BY <2>3, <2>4, <2>5, Known DEF Honours, PromiseStep, Row, OpenRow
  <2> QED BY <1>1, <2>2, <2>3, <2>6, <2>7, <2>8, <2>9, QuietMove
<1>4. CASE itp[s].eng = "none"
  <2> DEFINE c == [ctl[s] EXCEPT !.pc = "reserve", !.waking = waking, !.reserved = FALSE]
  <2>1. /\ ctl' = [ctl EXCEPT ![s] = c] /\ UNCHANGED itp
        /\ IF ctl[s].reserved
             THEN /\ held' = {[r EXCEPT !.claimed = @ \/ r.by = s] : r \in held}
                  /\ resv' = [resv EXCEPT ![s] = [NoCall EXCEPT !.at = "granted"]]
                  /\ UNCHANGED issued
             ELSE ReserveCall(s)
    BY <1>4 DEF BootCall
  <2>2. c \in CtlRec /\ c.pc = "reserve" /\ c.waking = waking /\ ~c.reserved
        /\ c.state = ctl[s].state /\ c.closing = ctl[s].closing
        /\ c.slot = ctl[s].slot /\ c.gone = ctl[s].gone
    BY Known DEF CtlRec, PendingAt, BootAt
  <2> HIDE DEF c
  <2>3. ASSUME NEW call PROVE Row(c, itp[s], call)
    BY <1>1, <1>4, <2>2 DEF Row, OpenRow, EngineRow
  <2>4. FilesOK(c, itp[s], disk[s], owner[s] = PageOf(s))
    BY <2>2, Known DEF FilesOK
  <2>5. Becomes(s, c, itp[s]) /\ Honours(ctl[s], itp[s], disk[s], c, itp[s], disk[s])
    BY <2>1, <2>2, SameItp DEF Honours, PromiseStep
  <2>6. CASE ctl[s].reserved
    <3>1. /\ held' = {[r EXCEPT !.claimed = @ \/ r.by = s] : r \in held}
          /\ resv' = [resv EXCEPT ![s] = [NoCall EXCEPT !.at = "granted"]]
          /\ UNCHANGED <<issued, scoped>>
      BY <2>1, <2>6
    <3>2. BrokerOK' /\ BrokerFrame(s) /\ resv'[s].at = "granted" /\ issued'[s] = issued[s]
          /\ (HeldBy(s)' # {} <=> HeldBy(s) # {})
      BY <3>1, BrokerClaimed
    <3> QED BY <1>2, <2>2, <2>3, <2>4, <2>5, <2>6, <3>2, Known, SessionMove DEF HasSlot
  <2>7. CASE ~ctl[s].reserved
    <3>1. HeldBy(s) = {} BY <1>1, <2>7, Known DEF HasSlot
    <3>2. /\ BrokerOK' /\ BrokerFrame(s)
          /\ resv'[s].at = "granted" <=> HeldBy(s)' # {}
          /\ resv'[s].at = "granted" => issued'[s] # 0
      BY <2>1, <2>7, <3>1, BrokerReserved
    <3>3. Row(c, itp[s], resv'[s].at) BY <2>3
    <3>4. ~c.reserved /\ c.slot = 0 BY <1>1, <2>2
    <3> QED BY <1>1, <1>2, <2>4, <2>5, <3>2, <3>3, <3>4, Known, SessionMove
  <2> QED BY <2>6, <2>7
<1> QED BY <1>3, <1>4

LEMMA KeepsStart == ASSUME IInv, NEW s \in Session, Start(s) PROVE Sound
BY KeepsBootCall DEF Start

LEMMA KeepsWake == ASSUME IInv, NEW s \in Session, Wake(s) PROVE Sound
BY KeepsBootCall DEF Wake

LEMMA KeepsDeadEngineGone == ASSUME IInv, NEW s \in Session, DeadEngineGone(s) PROVE Sound
<1>1. At(s, "predispose") /\ ReserveCall(s) /\ UNCHANGED <<scoped, disk, owner, itp>>
  BY DEF DeadEngineGone
<1>2. PICK c \in CtlRec :
            /\ ctl' = [ctl EXCEPT ![s] = c]
            /\ c.pc = "reserve" /\ c.state = ctl[s].state /\ c.waking = ctl[s].waking
            /\ SameBut(c, ctl[s])
  BY Moved DEF DeadEngineGone, PendingAt, BootAt
<1>3. ctl[s].slot = 0 /\ ~ctl[s].reserved /\ HeldBy(s) = {}
  BY <1>1, Known DEF Row, OpenRow, HasSlot
<1>4. /\ BrokerOK' /\ BrokerFrame(s)
      /\ resv'[s].at = "granted" <=> HeldBy(s)' # {}
      /\ resv'[s].at = "granted" => issued'[s] # 0
  BY <1>1, <1>3, BrokerReserved
<1>5. ASSUME NEW call PROVE Row(c, itp[s], call)
  BY <1>1, <1>2, <1>3, Known DEF SameBut, Row, OpenRow, EngineRow
<1>6. FilesOK(c, itp[s], disk[s], owner[s] = PageOf(s)) BY <1>1, <1>2, Known DEF SameBut, FilesOK
<1>7. Becomes(s, c, itp[s]) /\ Stores(s, disk[s], owner[s])
  BY <1>1, <1>2, SameItp DEF Stores, IInv, Types
<1>8. Honours(ctl[s], itp[s], disk[s], c, itp[s], disk[s])
  BY <1>1, <1>2, Known
     DEF Honours, PromiseStep, SameBut, Row, OpenRow, EngineRow
<1> QED BY <1>2, <1>3, <1>4, <1>5, <1>6, <1>7, <1>8, Known, SessionMove DEF SameBut

LEMMA NoCallIs == NoCall \in CallRec /\ NoCall.at = "none"
BY DEF NoCall, CallRec, CallPhase

\* The answer of reserve() taken: a slot, which is the session's from here, or none.
CallOver(s) ==
    /\ ctl[s].pc \in {"reserve", "restartReserve"}
    /\ resv' = [resv EXCEPT ![s] = NoCall]
    /\ UNCHANGED <<scoped, held, issued, disk, owner>>

LEMMA AnswerMove ==
  ASSUME IInv, NEW s \in Session, NEW c, NEW i, CallOver(s), Becomes(s, c, i),
         c.slot # 0 <=> resv[s].at = "granted", ~c.reserved,
         Row(c, i, "none"), FilesOK(c, i, disk[s], owner[s] = PageOf(s)),
         Honours(ctl[s], itp[s], disk[s], c, i, disk[s])
  PROVE  Sound
<1>1. BrokerOK' /\ BrokerFrame(s) /\ resv'[s] = NoCall /\ HeldBy(s)' = HeldBy(s)
  BY BrokerKept, NoCallIs DEF CallOver
<1>2. Stores(s, disk[s], owner[s]) BY DEF CallOver, Stores, IInv, Types
<1> QED BY <1>1, <1>2, Known, NoCallIs, NoSlotWhileReserving, SessionMove DEF CallOver

LEMMA KeepsNoSlotToBoot == ASSUME IInv, NEW s \in Session, NoSlotToBoot(s) PROVE Sound
<1> DEFINE state == IF ctl[s].waking THEN "asleep" ELSE ctl[s].state
<1>1. state \in SessionState BY Known DEF SessionState, CtlRec
<1>2. PICK c \in CtlRec :
            /\ ctl' = [ctl EXCEPT ![s] = c]
            /\ c.pc = "idle" /\ c.state = SetTo(s, state) /\ ~c.waking
            /\ c.closing = ctl[s].closing /\ c.slot = ctl[s].slot
            /\ c.reserved = ctl[s].reserved /\ c.gone = ctl[s].gone
  BY <1>1, Settled DEF NoSlotToBoot
<1>3. Row(c, itp[s], "none")
  BY <1>2, Known DEF NoSlotToBoot, Row, OpenRow, EngineRow, SetTo
<1>4. FilesOK(c, itp[s], disk[s], owner[s] = PageOf(s))
  BY <1>2, Known DEF NoSlotToBoot, FilesOK, SetTo, Row, OpenRow
<1>5. Becomes(s, c, itp[s]) BY <1>2, SameItp DEF NoSlotToBoot
<1>6. CallOver(s) /\ resv[s].at = "denied" BY DEF NoSlotToBoot, CallOver
<1>7. c.slot = 0 /\ ~c.reserved BY <1>2, <1>6, NoSlotWhileReserving DEF CallOver
<1>8. Honours(ctl[s], itp[s], disk[s], c, itp[s], disk[s])
  <2>1. At(s, "reserve") BY DEF NoSlotToBoot
  <2>2. CASE Closed(s) BY <1>2, <2>2, HonoursClosed DEF SetTo
  <2>3. CASE ~Closed(s) /\ ctl[s].waking
    <3>1. PlaceIn(ctl[s], itp[s]) = "kept" /\ PlaceIn(c, itp[s]) = "kept" /\ c.pc = "idle"
      BY <1>2, <2>1, <2>3, Known DEF SetTo, Row, OpenRow, EngineRow
    <3>2. /\ SavedIn(c, itp[s], disk[s]) = SavedIn(ctl[s], itp[s], disk[s])
          /\ IntactIn(c, itp[s], disk[s]) => IntactIn(ctl[s], itp[s], disk[s])
      BY <3>1
    <3> QED BY <3>1, <3>2, HonoursKept
  <2>4. CASE ~Closed(s) /\ ~ctl[s].waking
    <3>1. c.state = ctl[s].state /\ c.pc = "idle" BY <1>2, <2>4 DEF SetTo
    <3> QED BY <2>1, <2>4, <3>1, Known DEF Honours, PromiseStep, Row, OpenRow
  <2> QED BY <2>2, <2>3, <2>4
<1> QED BY <1>3, <1>4, <1>5, <1>6, <1>7, <1>8, AnswerMove

LEMMA KeepsSlotTooLate == ASSUME IInv, NEW s \in Session, SlotTooLate(s) PROVE Sound
<1>1. PICK c \in CtlRec :
            /\ ctl' = [ctl EXCEPT ![s] = c]
            /\ c.pc = "idle" /\ c.state = SetTo(s, "closed") /\ ~c.waking
            /\ c.closing = ctl[s].closing /\ c.slot = ctl[s].slot
            /\ c.reserved = ctl[s].reserved /\ c.gone = ctl[s].gone
  BY Settled DEF SlotTooLate, SessionState
<1>2. Row(c, itp[s], "none") /\ c.slot = 0 /\ ~c.reserved
  BY <1>1, Known DEF SlotTooLate, Row, SetTo
<1>3. FilesOK(c, itp[s], disk[s], owner[s] = PageOf(s)) BY <1>1 DEF SlotTooLate, FilesOK, SetTo
<1>4. BrokerOK' /\ BrokerFrame(s) /\ resv'[s] = NoCall /\ HeldBy(s)' = {}
  BY BrokerReleased, NoCallIs DEF SlotTooLate
<1>5. Becomes(s, c, itp[s]) /\ Stores(s, disk[s], owner[s])
  BY <1>1, SameItp DEF SlotTooLate, Stores, IInv, Types
<1>6. Honours(ctl[s], itp[s], disk[s], c, itp[s], disk[s])
  BY <1>1
     DEF Honours, PromiseStep, SlotTooLate, SetTo
<1> QED BY <1>2, <1>3, <1>4, <1>5, <1>6, Known, NoCallIs, SessionMove

LEMMA KeepsSlotToBoot == ASSUME IInv, NEW s \in Session, SlotToBoot(s) PROVE Sound
<1> DEFINE n == issued[s]
           state == IF ctl[s].waking THEN "waking" ELSE "starting"
           pc == IF ctl[s].waking THEN "read" ELSE "boot"
           c == [ctl[s] EXCEPT !.slot = n, !.state = state, !.pc = pc]
           dying == itp[s].dying
           i == IF ctl[s].waking THEN itp[s]
                ELSE [NewEngine(s, TRUE) EXCEPT !.dying = dying]
<1>1. /\ At(s, "reserve") /\ resv[s].at = "granted" /\ ~Closed(s)
      /\ resv' = [resv EXCEPT ![s] = NoCall]
      /\ UNCHANGED <<scoped, held, issued, disk, owner>>
  BY DEF SlotToBoot
<1>2. ctl' = [ctl EXCEPT ![s] = c] BY DEF SlotToBoot
<1>3. itp' = [itp EXCEPT ![s] = i] BY DEF SlotToBoot, IInv, Types
<1>4. n \in Nat /\ n # 0 BY <1>1, Known
<1>5. state \in SessionState /\ pc \in PendingAt
      /\ state = (IF ctl[s].waking THEN "waking" ELSE "starting")
      /\ pc = (IF ctl[s].waking THEN "read" ELSE "boot")
  BY DEF SessionState, PendingAt, BootAt
<1>6. dying \in BOOLEAN BY Known DEF ItpRec
<1> HIDE DEF n, state, pc, dying
<1>7. c \in CtlRec /\ c.pc = pc /\ c.state = state /\ c.slot = n /\ c.waking = ctl[s].waking
      /\ c.closing = ctl[s].closing /\ c.reserved = ctl[s].reserved /\ c.gone = ctl[s].gone
  BY <1>4, <1>5, Known DEF CtlRec
<1>8. /\ i \in ItpRec
      /\ ctl[s].waking => i = itp[s]
      /\ ~ctl[s].waking => i.eng = "starting" /\ i.attached /\ ~i.typed /\ i.ws = {}
  BY <1>6, Known, NewEngineIs
<1> HIDE DEF c, i
<1>9. Row(c, i, "none") /\ ~c.reserved
  BY <1>1, <1>4, <1>5, <1>7, <1>8, Known DEF Row, OpenRow, EngineRow
<1>10. FilesOK(c, i, disk[s], owner[s] = PageOf(s))
  BY <1>1, <1>5, <1>7, <1>8, Known DEF FilesOK, Row, OpenRow
<1>11. Becomes(s, c, i) BY <1>2, <1>3, <1>7, <1>8 DEF Becomes
<1>12. CallOver(s) BY <1>1 DEF CallOver
<1>13. c.slot # 0 BY <1>4, <1>7
<1>14. Honours(ctl[s], itp[s], disk[s], c, i, disk[s])
  BY <1>1, <1>5, <1>7, <1>8, Known
     DEF Honours, PromiseStep, Row, OpenRow, EngineRow
<1> QED BY <1>1, <1>9, <1>10, <1>11, <1>12, <1>13, <1>14, AnswerMove

LEMMA ReadIsOk ==
  ASSUME NEW s \in Session, store!ReadOutcome(s) = "ok", disk[s].exists
  PROVE  disk[s].damaged # "manifest"
<1> SUFFICES ASSUME disk[s].damaged = "manifest" PROVE FALSE OBVIOUS
<1>1. CASE disk[s].marked BY <1>1, Zenon DEF store!ReadOutcome
<1>2. CASE ~disk[s].marked BY <1>2, Zenon DEF store!ReadOutcome
<1> QED BY <1>1, <1>2

LEMMA KeepsManifestRead == ASSUME IInv, NEW s \in Session, ManifestRead(s) PROVE Sound
<1> DEFINE i == NewEngine(s, FALSE)
<1>1. itp' = [itp EXCEPT ![s] = i] /\ UNCHANGED <<brokerVars, disk, owner>>
      /\ At(s, "read") /\ ~Closed(s)
  BY DEF ManifestRead
<1>2. i \in ItpRec /\ i.eng = "starting" /\ ~i.attached /\ ~i.typed /\ i.ws = {}
  BY NewEngineIs
<1> HIDE DEF i
<1>3. PICK c \in CtlRec :
            /\ ctl' = [ctl EXCEPT ![s] = c]
            /\ c.pc = "boot" /\ c.state = ctl[s].state /\ c.waking = ctl[s].waking
            /\ SameBut(c, ctl[s])
  BY Moved DEF ManifestRead, PendingAt, BootAt
<1>4. Row(c, i, resv[s].at)
  BY <1>1, <1>2, <1>3, Known DEF SameBut, Row, OpenRow, EngineRow
<1>5. FilesOK(c, i, disk[s], owner[s] = PageOf(s))
  BY <1>1, <1>2, <1>3, Known DEF SameBut, FilesOK, Row, OpenRow
<1>6. Becomes(s, c, i) BY <1>1, <1>2, <1>3 DEF Becomes
<1>7. Honours(ctl[s], itp[s], disk[s], c, i, disk[s])
  <2>1. ctl[s].state = "waking" /\ c.state = "waking" /\ ~itp[s].attached /\ ~i.attached
    BY <1>1, <1>2, <1>3, Known DEF Row, OpenRow, EngineRow
  <2>2. PlaceIn(ctl[s], itp[s]) = "kept" /\ PlaceIn(c, i) = "kept" BY <1>3, <2>1
  <2>3. disk[s].damaged # "manifest"
    BY <1>1, <2>1, ReadIsOk, Known DEF FilesOK, ManifestRead
  <2>4. disk[s].data = disk[s].plan /\ (disk[s].damaged = "file" => disk[s].data # {})
    BY <1>1, <2>1, Known DEF FilesOK, DirOK
  <2>5. ~(disk[s].damaged = "file" /\ disk[s].plan \subseteq i.ws) BY <1>2, <2>4
  <2>6. IntactIn(c, i, disk[s]) => IntactIn(ctl[s], itp[s], disk[s])
    BY <2>2, <2>3, <2>5, Known DEF DirRec
  <2>7. SavedIn(c, i, disk[s]) = SavedIn(ctl[s], itp[s], disk[s]) BY <2>2
  <2> QED BY <2>2, <2>6, <2>7, HonoursKept
<1> QED BY <1>1, <1>3, <1>4, <1>5, <1>6, <1>7, QuietMove DEF SameBut

LEMMA KeepsBooted == ASSUME IInv, NEW s \in Session, Booted(s) PROVE Sound
<1>0. PICK runStarter \in BOOLEAN :
         itp' = [itp EXCEPT ![s].eng = "ready", ![s].behind = runStarter /\ itp[s].typed]
  BY DEF Booted
<1> DEFINE pc == IF ctl[s].waking THEN "restore" ELSE "starter"
           state == IF ctl[s].waking THEN "restoring" ELSE ctl[s].state
           c == [ctl[s] EXCEPT !.pc = pc, !.state = state]
           waits == runStarter /\ itp[s].typed
           i == [itp[s] EXCEPT !.eng = "ready", !.behind = waits]
<1>1. /\ ctl' = [ctl EXCEPT ![s] = c] /\ itp' = [itp EXCEPT ![s] = i]
      /\ UNCHANGED <<brokerVars, disk, owner>>
      /\ At(s, "boot") /\ itp[s].eng = "starting" /\ ~Closed(s)
  BY <1>0 DEF Booted
<1>2. /\ pc \in PendingAt /\ state \in SessionState
      /\ pc = (IF ctl[s].waking THEN "restore" ELSE "starter")
      /\ state = (IF ctl[s].waking THEN "restoring" ELSE ctl[s].state)
  BY Known DEF PendingAt, BootAt, SessionState, CtlRec
<1> HIDE DEF pc, state
<1>3. c \in CtlRec /\ c.pc = pc /\ c.state = state /\ c.waking = ctl[s].waking
      /\ SameBut(c, ctl[s])
  BY <1>2, Known DEF CtlRec, SameBut
<1>4. i \in ItpRec /\ i.eng = "ready" /\ i.attached = itp[s].attached /\ i.ws = itp[s].ws
      /\ i.typed = itp[s].typed
  <2>1. waits \in BOOLEAN OBVIOUS
  <2> HIDE DEF waits
  <2> QED BY <2>1, Known DEF ItpRec, EngineState
<1> HIDE DEF c, i
<1>5. Row(c, i, resv[s].at)
  BY <1>1, <1>2, <1>3, <1>4, Known DEF SameBut, Row, OpenRow, EngineRow
<1>6. FilesOK(c, i, disk[s], owner[s] = PageOf(s))
  BY <1>1, <1>2, <1>3, <1>4, Known DEF SameBut, FilesOK, Row, OpenRow
<1>7. Becomes(s, c, i) BY <1>1, <1>3, <1>4 DEF Becomes
<1>8. Honours(ctl[s], itp[s], disk[s], c, i, disk[s])
  BY <1>1, <1>2, <1>3, <1>4, Known
     DEF Honours, PromiseStep, SameBut, Row, OpenRow, EngineRow
<1> QED BY <1>1, <1>3, <1>5, <1>6, <1>7, <1>8, QuietMove DEF SameBut

LEMMA KeepsFileRestored == ASSUME IInv, NEW s \in Session, FileRestored(s) PROVE Sound
<1>1. PICK f \in disk[s].data \ itp[s].ws : itp' = [itp EXCEPT ![s].ws = @ \cup {f}]
  BY DEF FileRestored
<1> DEFINE ws == itp[s].ws \cup {f}
           i == [itp[s] EXCEPT !.ws = ws]
<1>2. /\ itp' = [itp EXCEPT ![s] = i] /\ UNCHANGED <<brokerVars, disk, owner, ctl>>
      /\ At(s, "restore") /\ itp[s].eng = "ready" /\ ~Closed(s)
  BY <1>1 DEF FileRestored
<1>3. ws \in SUBSET File /\ (itp[s].ws \subseteq disk[s].data => ws \subseteq disk[s].data)
  BY <1>1, Known DEF ItpRec, DirRec
<1> HIDE DEF ws
<1>4. i \in ItpRec /\ i.eng = itp[s].eng /\ i.attached = itp[s].attached
      /\ i.quiesced = itp[s].quiesced /\ i.typed = itp[s].typed /\ i.behind = itp[s].behind
      /\ i.ws = ws
  BY <1>3, Known DEF ItpRec
<1> HIDE DEF i
<1>5. Becomes(s, ctl[s], i) BY <1>2, <1>4 DEF Becomes, IInv, Types
<1>6. Row(ctl[s], i, resv[s].at) BY <1>4, Known DEF Row, EngineRow
<1>7. FilesOK(ctl[s], i, disk[s], owner[s] = PageOf(s))
  BY <1>2, <1>3, <1>4, Known DEF FilesOK
<1>8. Honours(ctl[s], itp[s], disk[s], ctl[s], i, disk[s])
  <2>1. ctl[s].state = "restoring" /\ ~itp[s].attached /\ ~i.attached
    BY <1>2, <1>4, Known DEF Row, OpenRow, EngineRow
  <2>2. PlaceIn(ctl[s], itp[s]) = "kept" /\ PlaceIn(ctl[s], i) = "kept" BY <2>1
  <2>3. disk[s].damaged \in {"nothing", "manifest"} BY Known DEF FileRestored, DirRec
  <2>4. IntactIn(ctl[s], itp[s], disk[s]) BY <1>2, <2>3
  <2>5. SavedIn(ctl[s], i, disk[s]) = SavedIn(ctl[s], itp[s], disk[s]) BY <2>2
  <2> QED BY <2>2, <2>4, <2>5, HonoursKept
<1> QED BY <1>2, <1>5, <1>6, <1>7, <1>8, QuietMove

LEMMA KeepsRestored == ASSUME IInv, NEW s \in Session, Restored(s) PROVE Sound
<1> DEFINE i == [itp[s] EXCEPT !.attached = TRUE]
<1>1. itp' = [itp EXCEPT ![s] = i] /\ UNCHANGED <<brokerVars, disk, owner>>
      /\ At(s, "restore") /\ ~Closed(s)
  BY DEF Restored
<1>2. i \in ItpRec /\ i.eng = itp[s].eng /\ i.attached /\ i.ws = itp[s].ws
      /\ i.typed = itp[s].typed
  BY Known DEF ItpRec
<1> HIDE DEF i
<1>3. PICK c \in CtlRec :
            /\ ctl' = [ctl EXCEPT ![s] = c]
            /\ c.pc = "starter" /\ c.state = ctl[s].state /\ c.waking = ctl[s].waking
            /\ SameBut(c, ctl[s])
  BY Moved DEF Restored, PendingAt, BootAt
<1>4. Row(c, i, resv[s].at)
  BY <1>1, <1>2, <1>3, Known DEF SameBut, Row, OpenRow, EngineRow
<1>5. FilesOK(c, i, disk[s], owner[s] = PageOf(s))
  BY <1>1, <1>2, <1>3, Known DEF SameBut, FilesOK, Row, OpenRow
<1>6. Becomes(s, c, i) BY <1>1, <1>2, <1>3 DEF Becomes
<1>7. Honours(ctl[s], itp[s], disk[s], c, i, disk[s])
  <2>1. ctl[s].state = "restoring" /\ ~itp[s].attached /\ c.state = "restoring" /\ ctl[s].waking
    BY <1>1, <1>3, Known DEF Row, OpenRow, EngineRow
  <2>2. PlaceIn(ctl[s], itp[s]) = "kept" /\ PlaceIn(c, i) = "handed" BY <1>2, <1>3, <2>1
  <2>3. disk[s].exists /\ disk[s].manifest /\ disk[s].data = disk[s].plan
        /\ itp[s].ws \subseteq disk[s].data /\ disk[s].plan \subseteq itp[s].ws
    BY <1>1, <2>1, Known DEF FilesOK, DirOK, Restored
  <2>4. SavedIn(ctl[s], itp[s], disk[s]) = disk[s].data /\ SavedIn(c, i, disk[s]) = disk[s].data
    <3> HIDE DEF PlaceIn
    <3> QED BY <2>2, <2>3
  <2>5. FilesIn(c, i, disk[s]) = i.ws BY <1>3, <2>2, FilesHanded
  <2>6. i.ws = disk[s].data
    <3>1. i.ws \subseteq disk[s].data /\ disk[s].data \subseteq i.ws BY <1>2, <2>3
    <3> HIDE DEF PlaceIn, FilesIn, SavedIn, IntactIn
    <3> QED BY <3>1
  <2>7. IntactIn(c, i, disk[s])
    <3> HIDE DEF PlaceIn
    <3> QED BY <2>2
  <2>8. IntactIn(ctl[s], itp[s], disk[s]) BY <1>1, <2>3
  <2> HIDE DEF PlaceIn, FilesIn, SavedIn, IntactIn
  <2> QED BY <2>2, <2>4, <2>5, <2>6, <2>7, <2>8 DEF Honours, PromiseStep
<1> QED BY <1>1, <1>3, <1>4, <1>5, <1>6, <1>7, QuietMove DEF SameBut

LEMMA KeepsStarterDone == ASSUME IInv, NEW s \in Session, StarterDone(s) PROVE Sound
<1>1. UNCHANGED <<brokerVars, disk, owner, itp>> /\ At(s, "starter") /\ ~Closed(s)
  BY DEF StarterDone
<1>2. CASE ctl[s].waking
  <2>1. PICK c \in CtlRec :
            /\ ctl' = [ctl EXCEPT ![s] = c]
            /\ c.pc = "discard" /\ c.state = ctl[s].state /\ c.waking = ctl[s].waking
            /\ SameBut(c, ctl[s])
    BY <1>2, Moved DEF StarterDone, PendingAt, BootAt
  <2>2. Row(c, itp[s], resv[s].at)
    BY <1>1, <1>2, <2>1, Known DEF SameBut, Row, OpenRow, EngineRow
  <2>3. FilesOK(c, itp[s], disk[s], owner[s] = PageOf(s))
    BY <1>1, <2>1, Known DEF SameBut, FilesOK
  <2>4. Honours(ctl[s], itp[s], disk[s], c, itp[s], disk[s])
    BY <1>1, <2>1 DEF SameBut, Honours, PromiseStep
  <2> QED BY <1>1, <2>1, <2>2, <2>3, <2>4, SameItp, QuietMove DEF SameBut
<1>3. CASE ~ctl[s].waking
  <2>1. PICK c \in CtlRec :
            /\ ctl' = [ctl EXCEPT ![s] = c]
            /\ c.pc = "idle" /\ c.state = SetTo(s, "ready") /\ ~c.waking
            /\ c.closing = ctl[s].closing /\ c.slot = ctl[s].slot
            /\ c.reserved = ctl[s].reserved /\ c.gone = ctl[s].gone
    BY <1>3, Settled DEF StarterDone, SessionState
  <2>2. Row(c, itp[s], resv[s].at)
    BY <1>1, <1>3, <2>1, Known DEF Row, OpenRow, EngineRow, SetTo
  <2>3. FilesOK(c, itp[s], disk[s], owner[s] = PageOf(s)) BY <1>1, <2>1 DEF FilesOK, SetTo
  <2>4. Honours(ctl[s], itp[s], disk[s], c, itp[s], disk[s])
    BY <1>1, <1>3, <2>1, Known DEF SetTo, Honours, PromiseStep, Row, OpenRow
  <2> QED BY <1>1, <2>1, <2>2, <2>3, <2>4, SameItp, QuietMove
<1> QED BY <1>2, <1>3

LEMMA KeepsCheckpointDiscarded ==
  ASSUME IInv, NEW s \in Session, CheckpointDiscarded(s) PROVE Sound
<1>1. UNCHANGED <<brokerVars, itp>> /\ At(s, "discard") /\ store!DiscardAt(s)
  BY DEF CheckpointDiscarded
<1>2. PICK c \in CtlRec :
          /\ ctl' = [ctl EXCEPT ![s] = c]
          /\ c.pc = "idle" /\ c.state = SetTo(s, "ready") /\ ~c.waking
          /\ c.closing = ctl[s].closing /\ c.slot = ctl[s].slot
          /\ c.reserved = ctl[s].reserved /\ c.gone = ctl[s].gone
  BY Settled DEF CheckpointDiscarded, SessionState
<1>3. PICK d \in DirRec : Stores(s, d, Nobody) /\ DirOK(d) BY <1>1, Discarded
<1>4. Row(c, itp[s], resv[s].at)
  BY <1>1, <1>2, Known DEF Row, OpenRow, EngineRow, SetTo
<1>5. FilesOK(c, itp[s], d, Nobody = PageOf(s)) BY <1>2 DEF FilesOK, SetTo
<1>6. Becomes(s, c, itp[s]) BY <1>1, <1>2, SameItp
<1>7. Honours(ctl[s], itp[s], disk[s], c, itp[s], d)
  <2>1. CASE Closed(s) BY <1>2, <2>1, HonoursClosed DEF SetTo
  <2>2. CASE ~Closed(s)
    <3>1. ctl[s].state = "restoring" /\ itp[s].attached /\ c.state = "ready"
      BY <1>1, <1>2, <2>2, Known DEF SetTo, Row, OpenRow, EngineRow
    <3>2. PlaceIn(ctl[s], itp[s]) = "handed" /\ FilesIn(ctl[s], itp[s], disk[s]) = itp[s].ws
      <4>1. PlaceIn(ctl[s], itp[s]) = "handed" BY <3>1
      <4> QED BY <1>1, <4>1, FilesHanded
    <3>3. PlaceIn(c, itp[s]) = IF WorkerAlive(itp[s].eng) THEN "live" ELSE "none"
      BY <1>2, <3>1
    <3>4. FilesIn(c, itp[s], d) = IF WorkerAlive(itp[s].eng) THEN itp[s].ws ELSE {}
      BY <3>3
    <3>5. SavedIn(c, itp[s], d) = {} /\ IntactIn(c, itp[s], d) BY <3>3
    <3>6. IntactIn(ctl[s], itp[s], disk[s])
      <4> HIDE DEF PlaceIn
      <4> QED BY <3>2
    <3> HIDE DEF PlaceIn, FilesIn, SavedIn, IntactIn
    <3>7. CASE WorkerAlive(itp[s].eng)
      BY <3>2, <3>3, <3>4, <3>5, <3>6, <3>7 DEF Honours, PromiseStep
    <3>8. CASE ~WorkerAlive(itp[s].eng)
      BY <3>2, <3>3, <3>4, <3>5, <3>6, <3>8 DEF Honours, PromiseStep
    <3> QED BY <3>7, <3>8
  <2> QED BY <2>1, <2>2
<1> QED BY <1>1, <1>2, <1>3, <1>4, <1>5, <1>6, <1>7, StoreMove

LEMMA KeepsBootFails ==
  ASSUME IInv, NEW s \in Session, NEW corrupt \in BOOLEAN, BootFails(s, corrupt),
         ctl[s].pc \in {"read", "boot", "restore", "starter"}
  PROVE  Sound
<1> DEFINE c == [ctl[s] EXCEPT !.pc = "unwind", !.slot = 0, !.corrupt = corrupt]
           i == Dropped(s)
<1>1. /\ ctl' = [ctl EXCEPT ![s] = c] /\ itp' = [itp EXCEPT ![s] = i]
      /\ ReleaseSlot(s) /\ UNCHANGED <<disk, owner>>
  BY DEF BootFails, ReleaseSlot
<1>2. c \in CtlRec /\ c.pc = "unwind" /\ c.slot = 0
      /\ c.state = ctl[s].state /\ c.waking = ctl[s].waking /\ c.closing = ctl[s].closing
      /\ c.reserved = ctl[s].reserved /\ c.gone = ctl[s].gone
  BY Known DEF CtlRec, PendingAt, BootAt
<1>3. i \in ItpRec /\ i.eng = "none" /\ ~i.attached /\ ~i.typed BY DroppedIs
<1> HIDE DEF c, i
<1>4. Row(c, i, resv[s].at) /\ ~c.reserved /\ resv[s].at # "granted"
  BY <1>2, <1>3, Known DEF Row, OpenRow, EngineRow
<1>5. FilesOK(c, i, disk[s], owner[s] = PageOf(s)) BY <1>2, <1>3, Known DEF FilesOK
<1>6. Becomes(s, c, i) /\ Stores(s, disk[s], owner[s])
  BY <1>1, <1>2, <1>3 DEF Becomes, Stores, IInv, Types
<1>7. Honours(ctl[s], itp[s], disk[s], c, i, disk[s])
  BY <1>2, <1>3, Known
     DEF Honours, PromiseStep, FilesOK, Row, OpenRow, EngineRow
<1> QED BY <1>1, <1>2, <1>4, <1>5, <1>6, <1>7, Known, ReleaseMove

LEMMA KeepsUnwound == ASSUME IInv, NEW s \in Session, Unwound(s) PROVE Sound
<1> DEFINE state == IF ctl[s].waking THEN "wake-error" ELSE "crashed"
<1>1. UNCHANGED <<brokerVars, itp>> /\ At(s, "unwind") /\ state \in SessionState
  BY DEF Unwound, SessionState
<1>2. PICK c \in CtlRec :
          /\ ctl' = [ctl EXCEPT ![s] = c]
          /\ c.pc = "idle" /\ c.state = SetTo(s, state) /\ ~c.waking
          /\ c.closing = ctl[s].closing /\ c.slot = ctl[s].slot
          /\ c.reserved = ctl[s].reserved /\ c.gone = ctl[s].gone
  BY <1>1, Settled DEF Unwound
<1>3. \E d \in DirRec :
         /\ Stores(s, d, owner[s]) /\ DirOK(d)
         /\ d.manifest = disk[s].manifest /\ (disk[s].exists => d.exists)
         /\ d.data = disk[s].data /\ d.damaged = disk[s].damaged
  <2>1. CASE ctl[s].waking /\ ctl[s].corrupt
    <3> DEFINE d == [disk[s] EXCEPT !.exists = TRUE, !.marked = TRUE]
    <3>1. disk' = [disk EXCEPT ![s] = d] /\ UNCHANGED owner
      BY <2>1 DEF Unwound, store!QuarantineAt
    <3>2. d \in DirRec /\ d.exists /\ d.plan = disk[s].plan /\ d.data = disk[s].data
          /\ d.manifest = disk[s].manifest /\ d.writing = disk[s].writing
          /\ d.damaged = disk[s].damaged
      BY Known DEF DirRec
    <3> HIDE DEF d
    <3>3. DirOK(d) BY <3>2, Known DEF DirOK
    <3>4. Stores(s, d, owner[s]) BY <3>1, <3>2 DEF Stores, IInv, Types
    <3> QED BY <3>2, <3>3, <3>4
  <2>2. CASE ~(ctl[s].waking /\ ctl[s].corrupt)
    <3>1. Stores(s, disk[s], owner[s]) BY <2>2 DEF Unwound, Stores, IInv, Types
    <3> QED BY <3>1, Known
  <2> QED BY <2>1, <2>2
<1>4. PICK d \in DirRec :
         /\ Stores(s, d, owner[s]) /\ DirOK(d)
         /\ d.manifest = disk[s].manifest /\ (disk[s].exists => d.exists)
         /\ d.data = disk[s].data /\ d.damaged = disk[s].damaged
  BY <1>3
<1>5. Row(c, itp[s], resv[s].at)
  BY <1>1, <1>2, Known DEF Row, OpenRow, EngineRow, SetTo
<1>6. FilesOK(c, itp[s], d, owner[s] = PageOf(s))
  BY <1>1, <1>2, <1>4, Known DEF FilesOK, SetTo, Row, OpenRow
<1>7. Becomes(s, c, itp[s]) BY <1>1, <1>2, SameItp
<1>8. Honours(ctl[s], itp[s], disk[s], c, itp[s], d)
  <2>1. CASE Closed(s) BY <1>2, <2>1, HonoursClosed DEF SetTo
  <2>2. CASE ~Closed(s) /\ ctl[s].waking
    <3>1. ctl[s].state \in {"waking", "restoring"} /\ ~itp[s].attached /\ c.state = "wake-error"
      BY <1>1, <1>2, <2>2, Known DEF SetTo, Row, OpenRow, EngineRow
    <3>2. PlaceIn(ctl[s], itp[s]) = "kept" /\ PlaceIn(c, itp[s]) = "kept" BY <3>1
    <3>3. disk[s].exists /\ disk[s].manifest BY <2>2, <3>1, Known DEF FilesOK
    <3>4. SavedIn(c, itp[s], d) = SavedIn(ctl[s], itp[s], disk[s])
      BY <1>4, <3>2, <3>3
    <3>5. IntactIn(c, itp[s], d) => IntactIn(ctl[s], itp[s], disk[s])
      BY <1>2, <1>4, <3>2
    <3> QED BY <3>2, <3>4, <3>5, HonoursKept
  <2>3. CASE ~Closed(s) /\ ~ctl[s].waking
    <3>1. ctl[s].state = "starting" /\ itp[s].eng = "none" /\ c.state = "crashed" /\ c.pc = "idle"
      BY <1>1, <1>2, <2>3, Known DEF SetTo, Row, OpenRow, EngineRow
    <3> QED BY <1>1, <3>1 DEF Honours, PromiseStep
  <2> QED BY <2>1, <2>2, <2>3
<1> QED BY <1>1, <1>2, <1>4, <1>5, <1>6, <1>7, <1>8, StoreMove

LEMMA KeepsBoot == ASSUME IInv, NEW s \in Session, Boot(s) PROVE Sound
<1>1. ASSUME ReadFails(s) \/ RestoreFails(s) \/ StartFails(s) PROVE Sound
  BY <1>1, KeepsBootFails DEF ReadFails, RestoreFails, StartFails
<1> QED
  BY <1>1, KeepsDeadEngineGone, KeepsNoSlotToBoot, KeepsSlotTooLate, KeepsSlotToBoot,
     KeepsManifestRead, KeepsBooted, KeepsFileRestored, KeepsRestored, KeepsStarterDone,
     KeepsCheckpointDiscarded, KeepsUnwound
     DEF Boot

-----------------------------------------------------------------------------
(* restart().                                                               *)

LEMMA RestartedEngine ==
  ASSUME IInv, NEW s \in Session, RestartEngine(s)
  PROVE  \E c \in CtlRec, i \in ItpRec :
            /\ Becomes(s, c, i)
            /\ c.pc = "restartBoot" /\ c.state = SetTo(s, "starting") /\ c.waking = ctl[s].waking
            /\ c.slot = (IF ctl[s].slot = 0 THEN issued[s] ELSE ctl[s].slot)
            /\ c.closing = ctl[s].closing /\ c.reserved = ctl[s].reserved /\ c.gone = ctl[s].gone
            /\ i.eng = "starting" /\ ~i.typed /\ i.ws = {}
<1> DEFINE state == SetTo(s, "starting")
           n == IF ctl[s].slot = 0 THEN issued[s] ELSE ctl[s].slot
           attach == itp[s].attached
           dying == itp[s].dying
           c == [ctl[s] EXCEPT !.state = state, !.pc = "restartBoot", !.slot = n]
           i == [NewEngine(s, attach) EXCEPT !.dying = dying]
<1>1. ctl' = [ctl EXCEPT ![s] = c] /\ itp' = [itp EXCEPT ![s] = i]
  BY DEF RestartEngine
<1>2. state \in SessionState /\ n \in Nat /\ attach \in BOOLEAN /\ dying \in BOOLEAN
  BY Known DEF SetTo, SessionState, CtlRec, ItpRec
<1> HIDE DEF state, n, attach, dying
<1>3. c \in CtlRec /\ c.pc = "restartBoot" /\ c.state = state /\ c.slot = n
      /\ c.waking = ctl[s].waking /\ c.closing = ctl[s].closing
      /\ c.reserved = ctl[s].reserved /\ c.gone = ctl[s].gone
  BY <1>2, Known DEF CtlRec, PendingAt, RestartAt
<1>4. i \in ItpRec /\ i.eng = "starting" /\ ~i.typed /\ i.ws = {} BY <1>2, NewEngineIs
<1> HIDE DEF c, i
<1>5. Becomes(s, c, i) BY <1>1, <1>3, <1>4 DEF Becomes
<1> QED BY <1>3, <1>4, <1>5 DEF state, n

LEMMA KeepsRestart == ASSUME IInv, NEW s \in Session, Restart(s) PROVE Sound
<1>1. /\ At(s, "idle") /\ itp[s].eng # "none" /\ (Live(s) \/ ctl[s].state = "crashed")
      /\ UNCHANGED <<scoped, disk, owner>>
  BY DEF Restart
<1>2. Stores(s, disk[s], owner[s]) BY <1>1 DEF Stores, IInv, Types
<1>3. resv[s].at = "none" /\ ~ctl[s].reserved BY <1>1, Known DEF Row, Live
<1>4. CASE ctl[s].slot = 0
  <2>1. ReserveCall(s) /\ Move(s, "restartReserve") /\ UNCHANGED itp
    BY <1>4 DEF Restart
  <2>2. PICK c \in CtlRec :
            /\ ctl' = [ctl EXCEPT ![s] = c]
            /\ c.pc = "restartReserve" /\ c.state = ctl[s].state /\ c.waking = ctl[s].waking
            /\ SameBut(c, ctl[s])
    BY <2>1, Moved DEF PendingAt, RestartAt
  <2>3. HeldBy(s) = {} BY <1>3, <1>4, Known DEF HasSlot
  <2>4. /\ BrokerOK' /\ BrokerFrame(s)
        /\ resv'[s].at = "granted" <=> HeldBy(s)' # {}
        /\ resv'[s].at = "granted" => issued'[s] # 0
    BY <1>1, <2>1, <2>3, BrokerReserved
  <2>5. ctl[s].state = "crashed" BY <1>1, <1>4, Known DEF Row, OpenRow, Live
  <2>6. Row(c, itp[s], resv'[s].at)
    BY <1>1, <1>3, <1>4, <2>2, <2>5, Known DEF SameBut, Row, OpenRow, EngineRow
  <2>7. FilesOK(c, itp[s], disk[s], owner[s] = PageOf(s)) BY <2>2, <2>5 DEF FilesOK
  <2>8. ~c.reserved /\ c.slot = 0 BY <1>3, <1>4, <2>2 DEF SameBut
  <2>9. Becomes(s, c, itp[s]) BY <2>1, <2>2, SameItp
  <2>10. Honours(ctl[s], itp[s], disk[s], c, itp[s], disk[s])
    BY <1>1, <2>2, <2>5 DEF SameBut, Honours, PromiseStep
  <2> QED BY <1>2, <2>4, <2>6, <2>7, <2>8, <2>9, <2>10, Known, SessionMove
<1>5. CASE ctl[s].slot # 0
  <2>1. RestartEngine(s) /\ UNCHANGED brokerVars
    BY <1>1, <1>5 DEF Restart, brokerVars
  <2>2. PICK c \in CtlRec, i \in ItpRec :
            /\ Becomes(s, c, i)
            /\ c.pc = "restartBoot" /\ c.state = SetTo(s, "starting") /\ c.waking = ctl[s].waking
            /\ c.slot = (IF ctl[s].slot = 0 THEN issued[s] ELSE ctl[s].slot)
            /\ c.closing = ctl[s].closing /\ c.reserved = ctl[s].reserved /\ c.gone = ctl[s].gone
            /\ i.eng = "starting" /\ ~i.typed /\ i.ws = {}
    BY <2>1, RestartedEngine
  <2>3. c.state = "starting" BY <1>1, <2>2 DEF SetTo, Live
  <2>4. Row(c, i, resv[s].at)
    BY <1>1, <1>3, <1>5, <2>2, <2>3, Known DEF Row, OpenRow, EngineRow, Live
  <2>5. FilesOK(c, i, disk[s], owner[s] = PageOf(s)) BY <2>2, <2>3 DEF FilesOK
  <2>6. Honours(ctl[s], itp[s], disk[s], c, i, disk[s])
    BY <1>1, <2>2, <2>3, Known DEF Honours, PromiseStep, Live, Row, OpenRow
  <2> QED BY <1>1, <1>5, <2>1, <2>2, <2>4, <2>5, <2>6, QuietMove
<1> QED BY <1>4, <1>5

LEMMA KeepsSlotToRestart == ASSUME IInv, NEW s \in Session, SlotToRestart(s) PROVE Sound
<1>1. CallOver(s) /\ At(s, "restartReserve") /\ resv[s].at = "granted" /\ ~Closed(s)
      /\ RestartEngine(s)
  BY DEF SlotToRestart, CallOver
<1>2. PICK c \in CtlRec, i \in ItpRec :
          /\ Becomes(s, c, i)
          /\ c.pc = "restartBoot" /\ c.state = SetTo(s, "starting") /\ c.waking = ctl[s].waking
          /\ c.slot = (IF ctl[s].slot = 0 THEN issued[s] ELSE ctl[s].slot)
          /\ c.closing = ctl[s].closing /\ c.reserved = ctl[s].reserved /\ c.gone = ctl[s].gone
          /\ i.eng = "starting" /\ ~i.typed /\ i.ws = {}
  BY <1>1, RestartedEngine
<1>3. c.state = "starting" /\ c.slot # 0 /\ ~c.reserved
  BY <1>1, <1>2, Known, NoSlotWhileReserving DEF SetTo
<1>4. Row(c, i, "none") BY <1>1, <1>2, <1>3, Known DEF Row, OpenRow, EngineRow
<1>5. FilesOK(c, i, disk[s], owner[s] = PageOf(s)) BY <1>2, <1>3 DEF FilesOK
<1>6. Honours(ctl[s], itp[s], disk[s], c, i, disk[s])
  BY <1>1, <1>2, <1>3, Known
     DEF Honours, PromiseStep, Row, OpenRow, EngineRow
<1> QED BY <1>1, <1>2, <1>3, <1>4, <1>5, <1>6, AnswerMove

LEMMA KeepsNoSlotToRestart == ASSUME IInv, NEW s \in Session, NoSlotToRestart(s) PROVE Sound
<1>1. CallOver(s) /\ At(s, "restartReserve") /\ resv[s].at = "denied" /\ UNCHANGED itp
  BY DEF NoSlotToRestart, CallOver
<1>2. PICK c \in CtlRec :
          /\ ctl' = [ctl EXCEPT ![s] = c]
          /\ c.pc = "idle" /\ c.state = SetTo(s, "crashed") /\ ~c.waking
          /\ c.closing = ctl[s].closing /\ c.slot = ctl[s].slot
          /\ c.reserved = ctl[s].reserved /\ c.gone = ctl[s].gone
  BY Settled DEF NoSlotToRestart, SessionState
<1>3. c.slot = 0 /\ ~c.reserved BY <1>1, <1>2, NoSlotWhileReserving
<1>4. Row(c, itp[s], "none")
  BY <1>1, <1>2, <1>3, Known DEF Row, OpenRow, EngineRow, SetTo
<1>5. FilesOK(c, itp[s], disk[s], owner[s] = PageOf(s)) BY <1>2 DEF FilesOK, SetTo
<1>6. Becomes(s, c, itp[s]) BY <1>1, <1>2, SameItp
<1>7. Honours(ctl[s], itp[s], disk[s], c, itp[s], disk[s])
  BY <1>1, <1>2, Known
     DEF Honours, PromiseStep, SetTo, Row, OpenRow, EngineRow
<1> QED BY <1>1, <1>3, <1>4, <1>5, <1>6, <1>7, AnswerMove

LEMMA KeepsRestarted == ASSUME IInv, NEW s \in Session, Restarted(s) PROVE Sound
<1>0. PICK runStarter \in BOOLEAN :
         itp' = [itp EXCEPT ![s].eng = "ready", ![s].behind = runStarter /\ itp[s].typed]
  BY DEF Restarted
<1> DEFINE waits == runStarter /\ itp[s].typed
           i == [itp[s] EXCEPT !.eng = "ready", !.behind = waits]
<1>1. itp' = [itp EXCEPT ![s] = i] /\ UNCHANGED <<brokerVars, disk, owner>>
      /\ At(s, "restartBoot") /\ itp[s].eng = "starting"
  BY <1>0 DEF Restarted
<1>2. i \in ItpRec /\ i.eng = "ready" /\ i.attached = itp[s].attached /\ i.ws = itp[s].ws
      /\ i.typed = itp[s].typed
  <2>1. waits \in BOOLEAN OBVIOUS
  <2> HIDE DEF waits
  <2> QED BY <2>1, Known DEF ItpRec, EngineState
<1> HIDE DEF i
<1>3. PICK c \in CtlRec :
            /\ ctl' = [ctl EXCEPT ![s] = c]
            /\ c.pc = "restartStarter" /\ c.state = ctl[s].state /\ c.waking = ctl[s].waking
            /\ SameBut(c, ctl[s])
  BY Moved DEF Restarted, PendingAt, RestartAt
<1>4. Row(c, i, resv[s].at)
  BY <1>1, <1>2, <1>3, Known DEF SameBut, Row, OpenRow, EngineRow
<1>5. FilesOK(c, i, disk[s], owner[s] = PageOf(s))
  BY <1>1, <1>2, <1>3, Known DEF SameBut, FilesOK, Row, OpenRow
<1>6. Becomes(s, c, i) BY <1>1, <1>2, <1>3 DEF Becomes
<1>7. Honours(ctl[s], itp[s], disk[s], c, i, disk[s])
  BY <1>1, <1>2, <1>3, Known
     DEF Honours, PromiseStep, SameBut, Row, OpenRow, EngineRow
<1> QED BY <1>1, <1>3, <1>4, <1>5, <1>6, <1>7, QuietMove DEF SameBut

LEMMA KeepsRestartDone == ASSUME IInv, NEW s \in Session, RestartDone(s) PROVE Sound
<1>1. UNCHANGED <<brokerVars, disk, owner, itp>> /\ At(s, "restartStarter")
      /\ WorkerAlive(itp[s].eng)
  BY DEF RestartDone
<1>2. PICK c \in CtlRec :
          /\ ctl' = [ctl EXCEPT ![s] = c]
          /\ c.pc = "idle" /\ c.state = SetTo(s, "ready") /\ ~c.waking
          /\ c.closing = ctl[s].closing /\ c.slot = ctl[s].slot
          /\ c.reserved = ctl[s].reserved /\ c.gone = ctl[s].gone
  BY Settled DEF RestartDone, SessionState
<1>3. Row(c, itp[s], resv[s].at)
  BY <1>1, <1>2, Known DEF Row, OpenRow, EngineRow, SetTo
<1>4. FilesOK(c, itp[s], disk[s], owner[s] = PageOf(s)) BY <1>2 DEF FilesOK, SetTo
<1>5. Honours(ctl[s], itp[s], disk[s], c, itp[s], disk[s])
  BY <1>1, <1>2, Known
     DEF Honours, PromiseStep, SetTo, Row, OpenRow, EngineRow
<1> QED BY <1>1, <1>2, <1>3, <1>4, <1>5, SameItp, QuietMove

LEMMA KeepsRestartFails == ASSUME IInv, NEW s \in Session, RestartFails(s) PROVE Sound
<1> DEFINE state == SetTo(s, "crashed")
           c == [ctl[s] EXCEPT !.pc = "idle", !.slot = 0, !.state = state]
           failed == [itp[s] EXCEPT !.eng = "error", !.typed = FALSE]
           passed == [itp[s] EXCEPT !.behind = FALSE]
<1>1. /\ ctl' = [ctl EXCEPT ![s] = c] /\ ReleaseSlot(s) /\ UNCHANGED <<disk, owner>>
      /\ ctl[s].pc \in {"restartBoot", "restartStarter"} /\ ~ctl[s].gone
  BY DEF RestartFails
<1>2. state \in SessionState /\ state = IF ctl[s].state = "closed" THEN "closed" ELSE "crashed"
  BY DEF SetTo, SessionState
<1> HIDE DEF state
<1>3. c \in CtlRec /\ c.pc = "idle" /\ c.slot = 0 /\ c.state = state
      /\ c.waking = ctl[s].waking /\ c.closing = ctl[s].closing
      /\ c.reserved = ctl[s].reserved /\ c.gone = ctl[s].gone
  BY <1>2, Known DEF CtlRec, PendingAt
<1>4. /\ failed \in ItpRec /\ failed.eng = "error" /\ failed.attached = itp[s].attached
      /\ ~failed.typed
      /\ passed \in ItpRec /\ SameInterpreter(passed, itp[s]) /\ passed.typed = itp[s].typed
  BY Known DEF ItpRec, EngineState, SameInterpreter
<1> HIDE DEF c, failed, passed
<1>5. \E i \in ItpRec :
         /\ Becomes(s, c, i)
         /\ \/ SameInterpreter(i, itp[s]) /\ i.typed = itp[s].typed
            \/ i = failed /\ itp[s].eng = "starting"
  <2>1. CASE /\ itp' = [itp EXCEPT ![s].eng = "error", ![s].typed = FALSE]
             /\ itp[s].eng = "starting"
    <3>1. itp' = [itp EXCEPT ![s] = failed] BY <2>1 DEF failed
    <3> QED BY <1>1, <1>3, <1>4, <2>1, <3>1 DEF Becomes
  <2>2. CASE UNCHANGED itp
    <3>1. Becomes(s, c, itp[s]) BY <1>1, <1>3, <2>2, SameItp
    <3> QED BY <3>1, Known DEF SameInterpreter
  <2>3. CASE itp' = [itp EXCEPT ![s].behind = FALSE]
    <3>1. itp' = [itp EXCEPT ![s] = passed] BY <2>3 DEF passed
    <3> QED BY <1>1, <1>3, <1>4, <3>1 DEF Becomes
  <2> QED BY <2>1, <2>2, <2>3 DEF RestartFails
<1>6. PICK i \in ItpRec :
         /\ Becomes(s, c, i)
         /\ \/ SameInterpreter(i, itp[s]) /\ i.typed = itp[s].typed
            \/ i = failed /\ itp[s].eng = "starting"
  BY <1>5
<1>7. Row(c, i, resv[s].at) /\ ~c.reserved /\ resv[s].at # "granted"
  BY <1>1, <1>2, <1>3, <1>4, <1>6, Known DEF Row, OpenRow, EngineRow, SameInterpreter
<1>8. FilesOK(c, i, disk[s], owner[s] = PageOf(s)) BY <1>2, <1>3 DEF FilesOK
<1>9. Stores(s, disk[s], owner[s]) BY <1>1 DEF Stores, IInv, Types
<1>10. Honours(ctl[s], itp[s], disk[s], c, i, disk[s])
  BY <1>1, <1>2, <1>3, <1>4, <1>6, Known
     DEF Honours, PromiseStep, Row, OpenRow, EngineRow, SameInterpreter
<1> QED BY <1>1, <1>3, <1>6, <1>7, <1>8, <1>9, <1>10, Known, ReleaseMove

LEMMA KeepsRestarting == ASSUME IInv, NEW s \in Session, Restarting(s) PROVE Sound
BY KeepsSlotToRestart, KeepsNoSlotToRestart, KeepsRestarted, KeepsRestartDone, KeepsRestartFails
   DEF Restarting

-----------------------------------------------------------------------------
(* Every step, and so every behaviour.                                      *)

LEMMA KeepsUser == ASSUME IInv, NEW s \in Session, User(s) PROVE Sound
BY KeepsStart, KeepsWake, KeepsRestart, KeepsSleep, KeepsClose, KeepsType DEF User

LEMMA KeepsAsking == ASSUME IInv, NEW s \in Session, Asking(s) PROVE Sound
BY KeepsAskToSleep DEF Asking

LEMMA KeepsClosing == ASSUME IInv, NEW s \in Session, Closing(s) PROVE Sound
BY KeepsCloseDisposed, KeepsCloseDiscarded DEF Closing

LEMMA KeepsNext == IInv /\ [Next]_vars => Sound
<1> SUFFICES ASSUME IInv, [Next]_vars PROVE Sound OBVIOUS
<1>1. CASE UNCHANGED vars
  <2>1. IInv'
    BY <1>1 DEF vars, brokerVars, IInv, Types, SlotsOK, SessionOK, HasSlot, HeldBy, PageOf
  <2>2. \A s \in Session : Promised(s) BY <1>1, HonoursSame DEF vars, Promised
  <2> QED BY <2>1, <2>2 DEF Sound
<1>2. ASSUME NEW s \in Session,
             \/ User(s) \/ Boot(s) \/ Restarting(s) \/ Sleeping(s) \/ Closing(s)
             \/ Brokering(s) \/ Asking(s)
      PROVE  Sound
  BY <1>2, KeepsUser, KeepsBoot, KeepsRestarting, KeepsSleeping, KeepsClosing, KeepsBrokering,
     KeepsAsking
<1>3. ASSUME NEW s \in Session,
             \/ Queue(s) \/ CodeEnds(s) \/ WorkerDies(s) \/ WorkerGone(s)
             \/ Swept(s) \/ Damaged(s)
      PROVE  Sound
  BY <1>3, KeepsQueue, KeepsCodeEnds, KeepsWorkerDies, KeepsWorkerGone, KeepsSwept, KeepsDamaged
<1>4. ASSUME NEW p \in Page, PageKilled(p) PROVE Sound BY <1>4, KeepsPageKilled
<1> QED BY <1>1, <1>2, <1>3, <1>4 DEF Next

LEMMA SessionsInit == Init => IInv
<1> SUFFICES ASSUME Init PROVE IInv OBVIOUS
<1>1. PICK chosen \in {{}} \cup {{s} : s \in Session} :
          /\ held = {[by |-> s, n |-> 1, claimed |-> FALSE] : s \in chosen}
          /\ issued = [s \in Session |-> IF s \in chosen THEN 1 ELSE 0]
          /\ ctl = [s \in Session |-> [Configured EXCEPT !.reserved = s \in chosen]]
  BY DEF Init
<1>2. /\ scoped \in BOOLEAN /\ resv = [s \in Session |-> NoCall]
      /\ itp = [s \in Session |-> NoInterpreter]
      /\ disk = [s \in Session |-> store!Absent] /\ owner = [s \in Session |-> Nobody]
  BY DEF Init, store!StoreInit
<1>3. ASSUME NEW s \in Session
      PROVE  /\ ctl[s] \in CtlRec /\ ctl[s].state = "configured" /\ ctl[s].pc = "idle"
             /\ ~ctl[s].waking /\ ctl[s].closing = "no" /\ ctl[s].slot = 0 /\ ~ctl[s].gone
             /\ (ctl[s].reserved <=> s \in chosen)
  <2> DEFINE b == s \in chosen
  <2>1. b \in BOOLEAN /\ ctl[s] = [Configured EXCEPT !.reserved = b] BY <1>1
  <2> HIDE DEF b
  <2>2. /\ Configured \in CtlRec /\ Configured.state = "configured" /\ Configured.pc = "idle"
        /\ ~Configured.waking /\ Configured.closing = "no" /\ Configured.slot = 0
        /\ ~Configured.gone
    BY DEF Configured, CtlRec, SessionState, PendingAt, ClosingAt
  <2>3. /\ ctl[s] \in CtlRec /\ ctl[s].state = "configured" /\ ctl[s].pc = "idle"
        /\ ~ctl[s].waking /\ ctl[s].closing = "no" /\ ctl[s].slot = 0 /\ ~ctl[s].gone
        /\ ctl[s].reserved = b
    BY <2>1, <2>2 DEF CtlRec
  <2> QED BY <2>3 DEF b
<1>4. NoInterpreter \in ItpRec /\ NoInterpreter.eng = "none" /\ ~NoInterpreter.attached
      /\ ~NoInterpreter.typed
  BY DEF NoInterpreter, ItpRec, EngineState
<1>5. chosen = {} \/ \E s \in Session : chosen = {s} BY <1>1
<1>6. Types
  <2>1. held \subseteq HeldRec
    <3>1. chosen \subseteq Session BY <1>5
    <3>2. \A s \in Session : [by |-> s, n |-> 1, claimed |-> FALSE] \in HeldRec
      BY DEF HeldRec
    <3> QED BY <1>1, <3>1, <3>2
  <2>2. ctl \in [Session -> CtlRec]
    <3>1. ctl = [s \in Session |-> ctl[s]] BY <1>1
    <3> QED BY <1>3, <3>1
  <2> QED BY <1>1, <1>2, <1>4, <2>1, <2>2, NoCallIs, AbsentIs DEF Types
<1>7. SlotsOK
  <2>1. IsFiniteSet(held) /\ Cardinality(held) <= Capacity
    <3>1. CASE chosen = {}
      <4>1. held = {} BY <1>1, <3>1
      <4> QED BY <4>1, FS_EmptySet, CapacityAssumption
    <3>2. CASE \E s \in Session : chosen = {s}
      <4>1. PICK s \in Session : chosen = {s} BY <3>2
      <4>2. held = {[by |-> s, n |-> 1, claimed |-> FALSE]} BY <1>1, <4>1
      <4>3. IsFiniteSet(held) /\ Cardinality(held) = 1 BY <4>2, FS_Singleton
      <4> QED BY <4>3, CapacityAssumption
    <3> QED BY <1>5, <3>1, <3>2
  <2>2. \A q, r \in held : q.by = r.by => q = r BY <1>1
  <2>3. ASSUME NEW s \in Session PROVE HeldBy(s) # {} <=> s \in chosen
    <3>1. s \in chosen => [by |-> s, n |-> 1, claimed |-> FALSE] \in HeldBy(s)
      BY <1>1 DEF HeldBy
    <3>2. \A r \in HeldBy(s) : s \in chosen BY <1>1 DEF HeldBy
    <3> QED BY <3>1, <3>2
  <2>4. ASSUME NEW s \in Session
        PROVE  /\ HasSlot(s) <=> HeldBy(s) # {}
               /\ ctl[s].reserved \/ resv[s].at = "granted" => issued[s] # 0
    BY <1>1, <1>2, <1>3, <2>3, NoCallIs DEF HasSlot
  <2> QED BY <2>1, <2>2, <2>4 DEF SlotsOK
<1>8. ASSUME NEW s \in Session PROVE SessionOK(s)
  <2>1. itp[s] = NoInterpreter /\ resv[s] = NoCall /\ disk[s] = store!Absent BY <1>2
  <2>2. Row(ctl[s], NoInterpreter, "none")
    BY <1>3, <1>4 DEF Row, OpenRow, EngineRow
  <2>3. FilesOK(ctl[s], NoInterpreter, store!Absent, owner[s] = PageOf(s))
    BY <1>3 DEF FilesOK
  <2> QED BY <2>1, <2>2, <2>3, NoCallIs, AbsentIs DEF SessionOK
<1> QED BY <1>6, <1>7, <1>8 DEF IInv

THEOREM SessionsInv == Spec => []IInv
<1>1. IInv /\ [Next]_vars => IInv' BY KeepsNext DEF Sound
<1> QED BY <1>1, SessionsInit, PTL DEF Spec

-----------------------------------------------------------------------------
(* What MCSessions states.                                                  *)

\* The variables of a page's sessions have their types (SessionController.tla).
THEOREM SessionsTypeOK == Spec => []TypeOK
<1>1. IInv => TypeOK
  <2> SUFFICES ASSUME IInv PROVE TypeOK OBVIOUS
  <2>1. Types BY DEF IInv
  <2>2. BrokerTypeOK BY <2>1 DEF Types, BrokerTypeOK, HeldRec, CallRec
  <2>3. store!StoreTypeOK(Page) BY <2>1 DEF Types, store!StoreTypeOK, store!Directory, DirRec
  <2> QED BY <2>1, <2>2, <2>3 DEF TypeOK, Types, CtlRec, ItpRec
<1> QED BY <1>1, SessionsInv, PTL

\* However a save is interrupted, a manifest on disk has every file of its plan
\* (checkpoint.ts, commit()).
THEOREM ManifestLast == Spec => []ManifestMeansComplete
<1>1. IInv => ManifestMeansComplete BY DEF IInv, SessionOK, DirOK, ManifestMeansComplete
<1> QED BY <1>1, SessionsInv, PTL

\* From the listing of the files to save until the interpreter stops nothing runs in
\* it and nothing waits for its turn, whatever was submitted before #open() refused
\* (browser-python.ts, #open() and #submit(); controller.ts, sleep()).
THEOREM FrozenOnceListed == Spec => []NothingRunsOnceListed
<1>1. ASSUME IInv, NEW s \in Session, ctl[s].pc \in {"begin", "save", "manifest"}
      PROVE  itp[s].eng # "busy" /\ ~itp[s].typed
  <2>1. Row(ctl[s], itp[s], resv[s].at) BY <1>1, Known
  <2>2. CASE Closed(s) BY <2>1, <2>2 DEF Row
  <2>3. CASE ~Closed(s) BY <1>1, <2>1, <2>3 DEF Row, EngineRow
  <2> QED BY <2>2, <2>3
<1>2. IInv => NothingRunsOnceListed BY <1>1 DEF NothingRunsOnceListed
<1> QED BY <1>2, SessionsInv, PTL

\* A slot that was acquired is in use, or was given back (slots.ts; controller.ts,
\* #releaseSlot()).
THEOREM SlotsGivenBack == Spec => []NoSlotLeaked
<1>1. ASSUME IInv, NEW s \in Session PROVE Cardinality(HeldBy(s)) <= 1
  <2>1. CASE HeldBy(s) = {} BY <2>1, FS_EmptySet
  <2>2. CASE HeldBy(s) # {}
    <3>1. PICK r \in HeldBy(s) : TRUE BY <2>2
    <3>2. \A q \in HeldBy(s) : q = r
      <4>1. \A x, y \in held : x.by = y.by => x = y BY <1>1 DEF IInv, SlotsOK
      <4> QED BY <3>1, <4>1 DEF HeldBy
    <3>3. HeldBy(s) = {r} BY <3>1, <3>2
    <3>4. Cardinality(HeldBy(s)) = 1 BY <3>3, FS_Singleton
    <3> QED BY <3>4
  <2> QED BY <2>1, <2>2
<1>2. ASSUME IInv, NEW s \in Session, ctl[s].pc = "idle", ~ctl[s].reserved, HeldBy(s) # {}
      PROVE  ctl[s].state \in {"ready", "busy"}
  <2>1. ctl[s].slot # 0 BY <1>2, Known DEF HasSlot, Row
  <2> QED BY <1>2, <2>1, Known DEF Row, OpenRow
<1>3. IInv => NoSlotLeaked BY <1>1, <1>2 DEF NoSlotLeaked
<1> QED BY <1>3, SessionsInv, PTL

\* A page never runs more interpreters than it has slots, crashed sessions apart
\* (slots.ts, MAX_LIVE_INTERPRETERS).
THEOREM CapacityKept == Spec => []WithinCapacity
<1>1. IInv => WithinCapacity
  <2> SUFFICES ASSUME IInv PROVE WithinCapacity OBVIOUS
  <2> DEFINE live == {s \in Session : WorkerAlive(itp[s].eng) /\ ctl[s].state # "crashed"}
             f == [s \in live |-> CHOOSE r \in held : r.by = s]
  <2>1. ASSUME NEW s \in live PROVE f[s] \in held /\ f[s].by = s
    <3>1. ctl[s].slot # 0 BY <2>1, Known DEF Row, EngineRow
    <3>2. HeldBy(s) # {} BY <2>1, <3>1, Known DEF HasSlot
    <3>3. \E r \in held : r.by = s BY <3>2 DEF HeldBy
    <3> QED BY <3>3
  <2>2. f \in Injection(live, held)
    <3>1. f \in [live -> held] BY <2>1
    <3> HIDE DEF f, live
    <3>2. \A s, t \in live : f[s] = f[t] => s = t BY <2>1
    <3> QED BY <3>1, <3>2 DEF Injection, IsInjective
  <2>3. IsFiniteSet(held) /\ Cardinality(held) <= Capacity /\ Cardinality(held) \in Nat
        /\ Capacity \in Nat
    BY FS_CardinalityType, CapacityAssumption DEF IInv, SlotsOK
  <2> HIDE DEF f, live
  <2>4. IsFiniteSet(live) /\ Cardinality(live) <= Cardinality(held)
    BY <2>2, <2>3, FS_Injection
  <2>5. Cardinality(live) <= Capacity BY <2>3, <2>4, FS_CardinalityType
  <2> QED BY <2>5 DEF WithinCapacity, live
<1> QED BY <1>1, SessionsInv, PTL

-----------------------------------------------------------------------------
(* The refinement: each step of a session keeps its promise.                *)

\* The mapping of MCSessions, of the records of one session.
LEMMA MappingIs ==
  ASSUME NEW s \in Session
  PROVE  /\ PlaceOf(s) = PlaceIn(ctl[s], itp[s])
         /\ FilesOf(s) = FilesIn(ctl[s], itp[s], disk[s])
         /\ CheckpointOf(s) = SavedIn(ctl[s], itp[s], disk[s])
         /\ Intact(s) <=> IntactIn(ctl[s], itp[s], disk[s])
<1>1. PlaceOf(s) = PlaceIn(ctl[s], itp[s])
  <2>1. CASE Closed(s) BY <2>1, Zenon DEF PlaceOf
  <2>2. CASE ~Closed(s) /\ Stored(s) /\ ~itp[s].attached
    BY <2>2, Zenon DEF PlaceOf, Stored, Closed, KeptStates
  <2>3. CASE ~Closed(s) /\ Stored(s) /\ itp[s].attached
    BY <2>3, Zenon DEF PlaceOf, Stored, Closed, KeptStates
  <2>4. CASE ~Closed(s) /\ ~Stored(s) /\ (WorkerAlive(itp[s].eng) \/ Frozen(s))
    BY <2>4, Zenon DEF PlaceOf, Stored, Frozen, Closed, KeptStates
  <2>5. CASE ~Closed(s) /\ ~Stored(s) /\ ~(WorkerAlive(itp[s].eng) \/ Frozen(s))
    BY <2>5, Zenon DEF PlaceOf, Stored, Frozen, Closed, KeptStates
  <2> QED BY <2>1, <2>2, <2>3, <2>4, <2>5
<1> HIDE DEF PlaceIn
<1>2. FilesOf(s) = FilesIn(ctl[s], itp[s], disk[s]) BY <1>1 DEF FilesOf, Frozen
<1>3. CheckpointOf(s) = SavedIn(ctl[s], itp[s], disk[s]) BY <1>1 DEF CheckpointOf
<1>4. Intact(s) <=> IntactIn(ctl[s], itp[s], disk[s]) BY <1>1 DEF Intact
<1> QED BY <1>1, <1>2, <1>3, <1>4

LEMMA MappingNext ==
  ASSUME NEW s \in Session
  PROVE  /\ PlaceOf(s)' = PlaceIn(ctl'[s], itp'[s])
         /\ FilesOf(s)' = FilesIn(ctl'[s], itp'[s], disk'[s])
         /\ CheckpointOf(s)' = SavedIn(ctl'[s], itp'[s], disk'[s])
         /\ Intact(s)' <=> IntactIn(ctl'[s], itp'[s], disk'[s])
<1>1. /\ PlaceOf(s) = PlaceIn(ctl[s], itp[s])
      /\ FilesOf(s) = FilesIn(ctl[s], itp[s], disk[s])
      /\ CheckpointOf(s) = SavedIn(ctl[s], itp[s], disk[s])
      /\ Intact(s) <=> IntactIn(ctl[s], itp[s], disk[s])
  BY MappingIs
<1> HIDE DEF PlaceIn, FilesIn, SavedIn, IntactIn
<1>2. (/\ PlaceOf(s) = PlaceIn(ctl[s], itp[s])
       /\ FilesOf(s) = FilesIn(ctl[s], itp[s], disk[s])
       /\ CheckpointOf(s) = SavedIn(ctl[s], itp[s], disk[s])
       /\ Intact(s) <=> IntactIn(ctl[s], itp[s], disk[s]))'
  BY <1>1, PTL
<1> QED BY <1>2

LEMMA PromisedIs ==
  ASSUME NEW s \in Session, Promised(s)
  PROVE  PromiseStep(PlaceOf(s), FilesOf(s), CheckpointOf(s), Intact(s),
                     PlaceOf(s)', FilesOf(s)', CheckpointOf(s)', Intact(s)')
<1> HIDE DEF PlaceIn, FilesIn, SavedIn, IntactIn
<1> QED BY MappingIs, MappingNext DEF Promised, Honours, PromiseStep

LEMMA PromiseKept ==
  ASSUME NEW s \in Session, Promised(s)
  PROVE  [Promise(s)!PromiseNext]_(Promise(s)!promiseVars)
<1> HIDE DEF PlaceIn, FilesIn, SavedIn, IntactIn
<1>1. Intact(s) \in BOOLEAN /\ Intact(s)' \in BOOLEAN BY DEF Intact
<1> QED BY <1>1, PromisedIs
     DEF PromiseStep, Promise!PromiseNext, Promise!Begin, Promise!Work, Promise!Handle,
         Promise!Lose, Promise!FallAsleep, Promise!GiveBack, Promise!TakeBack, Promise!Awake,
         Promise!Spoil, Promise!Shut, Promise!Go, Promise!promiseVars

\* A session wakes with exactly the files it fell asleep with, before any code can
\* run in it, whatever fails, reclaims, sweeps or dies meanwhile (controller.ts,
\* sleep() and #boot(); checkpoint.ts).
THEOREM SessionsKeepPromise == Spec => FilesKept
<1>1. ASSUME Init, NEW s \in Session PROVE Promise(s)!PromiseInit
  <2>1. ctl[s].state = "configured" /\ ctl[s].pc = "idle"
    <3>1. PICK chosen \in {{}} \cup {{t} : t \in Session} :
              ctl = [t \in Session |-> [Configured EXCEPT !.reserved = t \in chosen]]
      BY <1>1 DEF Init
    <3>2. ctl[s] = [Configured EXCEPT !.reserved = s \in chosen] BY <3>1
    <3> QED BY <3>2 DEF Configured
  <2>2. itp[s].eng = "none" /\ disk[s].damaged = "nothing"
    BY <1>1 DEF Init, NoInterpreter, store!StoreInit, store!Absent
  <2>3. PlaceIn(ctl[s], itp[s]) = "none" BY <2>1, <2>2
  <2>4. /\ FilesIn(ctl[s], itp[s], disk[s]) = {} /\ SavedIn(ctl[s], itp[s], disk[s]) = {}
        /\ IntactIn(ctl[s], itp[s], disk[s])
    BY <2>3
  <2> HIDE DEF PlaceIn, FilesIn, SavedIn, IntactIn
  <2> QED BY <2>3, <2>4, MappingIs DEF Promise!PromiseInit
<1>2. Init => \A s \in Session : Promise(s)!PromiseInit BY <1>1
<1>3. ASSUME IInv, [Next]_vars
      PROVE  [\A s \in Session :
                 Untouched(s) \/ [Promise(s)!PromiseNext]_(Promise(s)!promiseVars)]_vars
  <2>1. \A s \in Session : [Promise(s)!PromiseNext]_(Promise(s)!promiseVars)
    BY <1>3, KeepsNext, PromiseKept DEF Sound
  <2> QED BY <2>1
<1> QED BY <1>2, <1>3, SessionsInv, PTL DEF Spec, FilesKept
=============================================================================
