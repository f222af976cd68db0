------------------------------ MODULE LeaseProofs ------------------------------
(***************************************************************************)
(* That a lease once dead stays dead, that a drain cancels only what is    *)
(* dead, that every block has an owner, and that the counters of the gate  *)
(* count the transitions in flight: for every value of the constants.      *)
(***************************************************************************)
EXTENDS AuthClientProofs, FiniteSetTheorems, FunctionTheorems, SequenceTheorems

USE DEF bindVars, queueVars, peerVars, serverVars

------------------------------------------------------------------------------
(* The inductive invariant *)

\* Every operation in progress began before the current generation.
Quiet == \A o \in Ops : Active(o) => op[o].lease < gate.generation

\* A transition that will release its block without a new generation has had one:
\* nothing that began before it is current, and while it blocks nothing begins.
LeaseInv ==
    /\ \A o \in Ops : op[o].lease <= gate.generation
    /\ Ending # {} => Quiet
    /\ logout.pc = "finishing" => Quiet

\* Who holds which block.
BlockInv ==
    /\ Ending \subseteq gate.blockers
    /\ logout.pc # "idle" => "logout" \in gate.blockers
    /\ recoveryBlocks \subseteq PeerKeys \union {"terminalFailure"}
    /\ "pendingRevocation" \in gate.blockers => registry.pending # {}

\* What an operation is doing while it has a job in the queue.
OwnKinds == {"save", "end", "logout"}

JobOwned(j, local, logoutPc) ==
    /\ j.kind = "save" => local[j.who].pc \in {"saving", "undoing"}
    /\ j.kind = "end" => local[j.who].pc = "ending" /\ j.who \in Refreshers
    /\ j.kind = "logout" => logoutPc = "clearing"

\* A job of an operation of this tab is the only one of that operation, which waits
\* for it.
QueueInv ==
    /\ \A i \in DOMAIN queue : JobOwned(queue[i], op, logout.pc)
    /\ \A i, j \in DOMAIN queue :
         queue[i].kind \in OwnKinds /\ queue[j].kind = queue[i].kind
             /\ queue[i].who = queue[j].who => i = j

\* The logouts of other tabs whose clear is queued, or over and not settled.
DueLogouts ==
    {j \in {queue[i] : i \in DOMAIN queue} \union {s.job : s \in settling} :
         j.kind = "peerLogout"}

\* An operation of another tab that is tracked blocks and is of this epoch.  One whose
\* logout is due is retired, and blocks in a later epoch only what is over.
PeerInv ==
    /\ \A k \in TrackedKeys : /\ k \in gate.blockers /\ k \notin retired
                              /\ tracked[k].epoch = peerEpoch
    /\ \A j \in DueLogouts : /\ j.who \in retired
                             /\ j.who \in gate.blockers /\ j.epoch # peerEpoch => Quiet

\* The credentials that the tab knows, and those that one of its operations knows.
Common == {storage, degraded} \union registry.candidates \union registry.pending
              \union logout.invalidate
Of(o) == {op[o].got, op[o].known, op[o].held} \union op[o].invalidate

\* A credential that has just arrived is known to its operation alone, which is why
\* disowning it settles no other revocation.
FreshPcs == {"answered", "disowning"}

FreshInv ==
    /\ \A t \in Common : t <= minted
    /\ \A o \in Ops : \A t \in Of(o) : t <= minted
    /\ \A o \in Ops : op[o].pc \in FreshPcs =>
          /\ op[o].got \notin Common
          /\ op[o].got \notin {op[o].known, op[o].held} \union op[o].invalidate
          /\ \A q \in Ops \ {o} : op[o].got \notin Of(q)

\* A reservation, cancelled or not, belongs to an operation that will give it back.
SlotPcs == {"posted", "answered", "rejected", "rechecked", "dropped", "disowning",
            "saving", "undoing", "saved", "saveFailed", "announcing", "ending", "revoking"}

SlotInv == \A o \in registry.reserved \union registry.cancelled : op[o].pc \in SlotPcs

------------------------------------------------------------------------------
(* What the actions do to the operation that takes them *)

\* Only o moves, between these program counters, keeping its lease unless it ends or
\* begins, and learning at most the credentials of S.
Moves(o, from, to, S) ==
    /\ op \in [Ops -> OpType] /\ op' \in [Ops -> OpType]
    /\ \A q \in Ops \ {o} : op'[q] = op[q]
    /\ op[o].pc \in from /\ op'[o].pc \in to
    /\ \/ op'[o].lease = op[o].lease
       \/ op'[o].pc = "idle" /\ op'[o].lease = 0
       \/ op[o].pc \in {"idle", "returned"}
    /\ Of(o)' \subseteq Of(o) \union S \union {None}

\* An operation that ends or steps to a program counter learns nothing.
LEMMA MovesStep ==
    ASSUME TypeInv, NEW o \in Ops, NEW pc \in Pcs, Step(o, pc)
    PROVE  /\ Moves(o, {op[o].pc}, {pc}, {})
           /\ op'[o].got = op[o].got /\ Of(o)' = Of(o)
<1>1. op \in [Ops -> OpType]
  BY DEF TypeInv, TypeOK
<1> DEFINE rec == [op[o] EXCEPT !.pc = pc]
<1>2. /\ rec \in OpType /\ rec.pc = pc /\ rec.lease = op[o].lease /\ rec.got = op[o].got
      /\ rec.known = op[o].known /\ rec.held = op[o].held
      /\ rec.invalidate = op[o].invalidate
  BY <1>1 DEF OpType
<1>3. op' = [op EXCEPT ![o] = rec]
  BY DEF Step
<1> HIDE DEF rec
<1>4. op' \in [Ops -> OpType] /\ op'[o] = rec /\ \A q \in Ops \ {o} : op'[q] = op[q]
  BY <1>1, <1>2, <1>3
<1>5. Of(o)' = Of(o)
  BY <1>2, <1>4 DEF Of
<1> QED BY <1>1, <1>2, <1>4, <1>5 DEF Moves

LEMMA MovesEnd ==
    ASSUME TypeInv, NEW o \in Ops, op' = [op EXCEPT ![o] = NoOp]
    PROVE  Moves(o, {op[o].pc}, {"idle"}, {})
<1>1. op \in [Ops -> OpType] /\ NoOp \in OpType
  BY NoOpTyped DEF TypeInv, TypeOK
<1>2. op' \in [Ops -> OpType] /\ op'[o] = NoOp /\ \A q \in Ops \ {o} : op'[q] = op[q]
  BY <1>1
<1>3. /\ NoOp.pc = "idle" /\ NoOp.lease = 0 /\ NoOp.got = None /\ NoOp.known = None
      /\ NoOp.held = None /\ NoOp.invalidate = {}
  BY DEF NoOp
<1> QED BY <1>1, <1>2, <1>3 DEF Moves, Of

LEMMA MovesReturn ==
    ASSUME TypeInv, NEW o \in Ops, NEW t \in Of(o), t \in MaybeToken, Return(o, t)
    PROVE  Moves(o, {op[o].pc}, {"returned"}, {})
<1> DEFINE rec == [NoOp EXCEPT !.pc = "returned", !.lease = op[o].lease, !.got = t]
<1>1. op \in [Ops -> OpType]
  BY DEF TypeInv, TypeOK
<1>2. /\ rec.pc = "returned" /\ rec.lease = op[o].lease /\ rec.got = t /\ rec.known = None
      /\ rec.held = None /\ rec.invalidate = {}
  BY DEF NoOp
<1>3. op' = [op EXCEPT ![o] = rec]
  BY DEF Return
<1>4. op' \in [Ops -> OpType]
  BY QuietReturn
<1> HIDE DEF rec
<1>5. op'[o] = rec /\ \A q \in Ops \ {o} : op'[q] = op[q]
  BY <1>1, <1>3
<1>6. Of(o)' = {t, None}
  BY <1>2, <1>5 DEF Of
<1> QED BY <1>1, <1>2, <1>4, <1>5, <1>6 DEF Moves

------------------------------------------------------------------------------
(* Leases *)

\* Nothing begins, and what goes on keeps its lease.
Continues ==
    \A q \in Ops : /\ op'[q].lease \in {op[q].lease, 0}
                   /\ Active(q)' => Active(q) /\ op'[q].lease = op[q].lease

\* The step of CutOffStaysCutOff.
CutStep == \A o \in Ops : Active(o) /\ ~Valid(o) /\ Active(o)' => ~Valid(o)'

LEMMA MoveContinues ==
    ASSUME NEW o \in Ops, NEW from, NEW to, NEW S, Moves(o, from, to, S),
           from \intersect {"idle", "returned"} = {}
    PROVE  Continues
BY DEF Moves, Continues, Active

\* Within a generation: no transition begins, and the last block is released only when
\* everything in progress is older than the generation.
LEMMA LeaseKept ==
    ASSUME TypeInv, LeaseInv, Continues, gate'.generation = gate.generation,
           Ending' \subseteq Ending, logout'.pc = "finishing" => logout.pc = "finishing",
           Blocked(gate) => Blocked(gate') \/ Quiet
    PROVE  LeaseInv' /\ CutStep /\ (Quiet => Quiet')
<1>1. gate.generation \in Nat /\ \A q \in Ops : op[q].lease \in Nat
  BY DEF TypeInv, TypeOK, GateType, OpType
<1>2. \A q \in Ops : op'[q].lease <= gate'.generation
  BY <1>1 DEF Continues, LeaseInv
<1>3. Quiet => Quiet'
  BY DEF Quiet, Continues
<1>4. LeaseInv'
  BY <1>2, <1>3 DEF LeaseInv
<1>5. ASSUME NEW q \in Ops, Active(q), ~Valid(q), Active(q)' PROVE ~Valid(q)'
  <2>1. op'[q].lease = op[q].lease
    BY <1>5 DEF Continues
  <2>2. CASE op[q].lease # gate.generation
    BY <2>1, <2>2 DEF Valid, StillValid
  <2>3. CASE op[q].lease = gate.generation
    <3>1. Blocked(gate) /\ ~Quiet
      BY <1>1, <1>5, <2>3 DEF Valid, StillValid, Quiet
    <3> QED BY <3>1 DEF Valid, StillValid
  <2> QED BY <2>2, <2>3
<1> QED BY <1>3, <1>4, <1>5 DEF CutStep

\* A new generation: every lease is older.
LEMMA LeaseRenewed ==
    ASSUME TypeInv, LeaseInv, Continues, gate'.generation = gate.generation + 1
    PROVE  LeaseInv' /\ CutStep /\ Quiet'
<1>1. gate.generation \in Nat /\ \A q \in Ops : op[q].lease \in Nat
  BY DEF TypeInv, TypeOK, GateType, OpType
<1>2. \A q \in Ops : op'[q].lease < gate'.generation /\ op'[q].lease <= gate'.generation
  BY <1>1 DEF Continues, LeaseInv
<1>3. LeaseInv' /\ Quiet'
  BY <1>1, <1>2 DEF LeaseInv, Quiet
<1>4. CutStep
  BY <1>1, <1>2 DEF CutStep, Valid, StillValid
<1> QED BY <1>3, <1>4

\* An operation begins, which it does only in a tab that is open.
LEMMA LeaseBegun ==
    ASSUME TypeInv, LeaseInv, BlockInv, ~Blocked(gate), gate' = gate, logout' = logout,
           NEW o \in Ops, NEW rec \in OpType, rec.lease = gate.generation,
           rec.pc \notin EndPcs, op[o].pc \in {"idle", "returned"},
           op' = [op EXCEPT ![o] = rec]
    PROVE  LeaseInv' /\ CutStep /\ Ending = {} /\ Ending' = {}
<1>1. Ending = {} /\ logout.pc = "idle"
  BY DEF BlockInv, Blocked
<1>2. op'[o] = rec /\ \A q \in Ops \ {o} : op'[q] = op[q]
  BY DEF TypeInv, TypeOK
<1>3. gate.generation \in Nat
  BY DEF TypeInv, TypeOK, GateType
<1>4. Ending' = {}
  BY <1>1, <1>2 DEF Ending, Ops
<1>5. LeaseInv'
  BY <1>1, <1>2, <1>3, <1>4 DEF LeaseInv
<1>6. CutStep
  BY <1>2 DEF CutStep, Active, Valid
<1> QED BY <1>1, <1>4, <1>5, <1>6

------------------------------------------------------------------------------
(* The storage queue *)

LEMMA JobTypes ==
    ASSUME TypeInv
    PROVE  /\ \A i \in DOMAIN queue : queue[i] \in JobType
           /\ \A j \in JobType : /\ j.kind \in {"save", "end"} => j.who \in Ops
                                 /\ j.kind \in {"peerClear", "peerLogout"} => j.who \in PeerKeys
                                 /\ j.kind = "logout" => j.who = "logout"
<1>1. \A i \in DOMAIN queue : queue[i] \in JobType
  BY DEF TypeInv, TypeOK
<1> QED BY <1>1 DEF JobType

\* An operation that has no job in the queue moves, or one that has goes on waiting for
\* it.
LEMMA QueueKept ==
    ASSUME TypeInv, QueueInv, NEW o \in Ops, NEW from, NEW to, NEW S, Moves(o, from, to, S),
           \/ from \intersect {"saving", "undoing", "ending"} = {}
           \/ from = {"saving"} /\ to = {"undoing"}
           \/ op'[o].pc = op[o].pc,
           queue' = queue, logout' = logout
    PROVE  QueueInv'
<1>1. \A i \in DOMAIN queue : JobOwned(queue[i], op', logout'.pc)
  BY JobTypes DEF QueueInv, JobOwned, Moves
<1> QED BY <1>1 DEF QueueInv, JobOwned

\* The logout, or nobody, moves.
LEMMA QueueUntouched ==
    ASSUME QueueInv, op' = op, queue' = queue,
           logout.pc = "clearing" => logout'.pc = "clearing"
    PROVE  QueueInv'
BY DEF QueueInv, JobOwned

\* A job is added: one of another tab, or one whose owner has none.
LEMMA QueueAppended ==
    ASSUME TypeInv, QueueInv, NEW job \in JobType, queue' = Append(queue, job),
           \A i \in DOMAIN queue : JobOwned(queue[i], op', logout'.pc),
           JobOwned(job, op', logout'.pc),
           \A i \in DOMAIN queue :
              job.kind \in OwnKinds => queue[i].kind # job.kind \/ queue[i].who # job.who
    PROVE  QueueInv'
<1>1. queue \in Seq(JobType)
  BY DEF TypeInv, TypeOK
<1>2. /\ DOMAIN queue' = 1..(Len(queue) + 1) /\ DOMAIN queue = 1..Len(queue)
      /\ \A i \in DOMAIN queue : queue'[i] = queue[i]
      /\ queue'[Len(queue) + 1] = job
      /\ Len(queue) \in Nat
  BY <1>1
<1>3. \A i \in DOMAIN queue' : i \in DOMAIN queue \/ i = Len(queue) + 1
  BY <1>2
<1>4. \A i \in DOMAIN queue' : JobOwned(queue'[i], op', logout'.pc)
  BY <1>2, <1>3 DEF JobOwned
<1>5. \A i, j \in DOMAIN queue' :
         queue'[i].kind \in OwnKinds /\ queue'[j].kind = queue'[i].kind
             /\ queue'[i].who = queue'[j].who => i = j
  BY <1>2, <1>3 DEF QueueInv
<1> QED BY <1>4, <1>5 DEF QueueInv, JobOwned

\* The head is done.  What its owner does next disturbs no other job.
LEMMA QueueShortened ==
    ASSUME TypeInv, QueueInv, queue # <<>>, queue' = Tail(queue),
           \A i \in DOMAIN queue : i # 1 => JobOwned(queue[i], op', logout'.pc)
    PROVE  QueueInv'
<1>1. queue \in Seq(JobType) /\ Len(queue) \in Nat \ {0}
  BY DEF TypeInv, TypeOK
<1>2. /\ DOMAIN queue' = 1..(Len(queue) - 1) /\ DOMAIN queue = 1..Len(queue)
      /\ \A i \in DOMAIN queue' : queue'[i] = queue[i + 1] /\ i + 1 \in DOMAIN queue
                                  /\ i + 1 # 1
  BY <1>1
<1>3. \A i \in DOMAIN queue' : JobOwned(queue'[i], op', logout'.pc)
  BY <1>2 DEF JobOwned
<1>4. \A i, j \in DOMAIN queue' :
         queue'[i].kind \in OwnKinds /\ queue'[j].kind = queue'[i].kind
             /\ queue'[i].who = queue'[j].who => i = j
  <2> SUFFICES ASSUME NEW i \in DOMAIN queue', NEW j \in DOMAIN queue',
                      queue'[i].kind \in OwnKinds, queue'[j].kind = queue'[i].kind,
                      queue'[i].who = queue'[j].who
               PROVE  i = j
    OBVIOUS
  <2>1. i + 1 = j + 1
    BY <1>2 DEF QueueInv
  <2>2. i \in Nat /\ j \in Nat
    BY <1>1, <1>2
  <2> QED BY <2>1, <2>2
<1> QED BY <1>3, <1>4 DEF QueueInv, JobOwned

\* When the owner of the head takes it and moves, no other job is its own.
LEMMA HeadMoves ==
    ASSUME TypeInv, QueueInv, NEW kind \in {"save", "end"}, NextJob(kind),
           NEW from, NEW to, NEW S, Moves(Head(queue).who, from, to, S),
           queue' = Tail(queue), logout' = logout
    PROVE  QueueInv'
<1> DEFINE o == Head(queue).who
<1>1. /\ queue # <<>> /\ 1 \in DOMAIN queue /\ queue[1] = Head(queue)
      /\ Head(queue).kind = kind
  BY DEF NextJob, TypeInv, TypeOK
<1>2. \A i \in DOMAIN queue : i # 1 => JobOwned(queue[i], op', logout'.pc)
  <2> SUFFICES ASSUME NEW i \in DOMAIN queue, i # 1 PROVE JobOwned(queue[i], op', logout'.pc)
    OBVIOUS
  <2>1. queue[i].kind \in {"save", "end"} => queue[i].who \in Ops \ {o}
    BY <1>1, JobTypes DEF QueueInv, JobOwned, OwnKinds
  <2> QED BY <2>1 DEF QueueInv, JobOwned, Moves
<1> QED BY <1>1, <1>2, QueueShortened

------------------------------------------------------------------------------
(* The logouts of other tabs *)

LEMMA DueTypes ==
    ASSUME TypeInv
    PROVE  /\ \A j \in DueLogouts : j \in JobType /\ j.who \in PeerKeys
           /\ \A k \in PeerKeys : PeerLogoutDue(k) <=> \E j \in DueLogouts : j.who = k
<1>1. \A s \in settling : s.job \in JobType
  BY DEF TypeInv, TypeOK
<1>2. \A j \in DueLogouts : j \in JobType /\ j.who \in PeerKeys
  BY <1>1, JobTypes DEF DueLogouts
<1>3. \A k \in PeerKeys : PeerLogoutDue(k) <=> \E j \in DueLogouts : j.who = k
  BY DEF PeerLogoutDue, PeerJobs, DueLogouts
<1> QED BY <1>2, <1>3

LEMMA DueSame ==
    queue' = queue /\ settling' = settling => DueLogouts' = DueLogouts
BY DEF DueLogouts

LEMMA DueAppended ==
    ASSUME TypeInv, NEW job, queue' = Append(queue, job), settling' = settling
    PROVE  DueLogouts' = DueLogouts \union {j \in {job} : j.kind = "peerLogout"}
<1>1. queue \in Seq(JobType) /\ Len(queue) \in Nat
  BY DEF TypeInv, TypeOK
<1>2. {queue'[i] : i \in DOMAIN queue'} = {queue[i] : i \in DOMAIN queue} \union {job}
  <2>1. /\ DOMAIN queue' = 1..(Len(queue) + 1) /\ DOMAIN queue = 1..Len(queue)
        /\ \A i \in DOMAIN queue : queue'[i] = queue[i]
        /\ queue'[Len(queue) + 1] = job
    BY <1>1
  <2>2. \A i \in DOMAIN queue' : i \in DOMAIN queue \/ i = Len(queue) + 1
    BY <1>1, <2>1
  <2>3. DOMAIN queue \subseteq DOMAIN queue' /\ Len(queue) + 1 \in DOMAIN queue'
    BY <1>1, <2>1
  <2> QED BY <2>1, <2>2, <2>3
<1> QED BY <1>2 DEF DueLogouts

\* The head leaves the queue, for settling if it was another tab's.
LEMMA DueShortened ==
    ASSUME TypeInv, queue # <<>>, queue' = Tail(queue),
           \/ settling' = settling /\ Head(queue).kind # "peerLogout"
           \/ \E c : settling' = settling \union {[job |-> Head(queue), cleared |-> c]}
    PROVE  DueLogouts' = DueLogouts
<1>1. queue \in Seq(JobType) /\ Len(queue) \in Nat \ {0}
  BY DEF TypeInv, TypeOK
<1>2. {queue[i] : i \in DOMAIN queue} = {queue'[i] : i \in DOMAIN queue'} \union {Head(queue)}
  <2>1. /\ DOMAIN queue' = 1..(Len(queue) - 1) /\ DOMAIN queue = 1..Len(queue)
        /\ \A i \in DOMAIN queue' : queue'[i] = queue[i + 1] /\ i + 1 \in DOMAIN queue
        /\ queue[1] = Head(queue) /\ 1 \in DOMAIN queue
    BY <1>1
  <2>2. \A i \in DOMAIN queue \ {1} : i - 1 \in DOMAIN queue' /\ queue'[i - 1] = queue[i]
    BY <1>1, <2>1
  <2>3. ASSUME NEW i \in DOMAIN queue
        PROVE  queue[i] \in {queue'[n] : n \in DOMAIN queue'} \union {Head(queue)}
    BY <2>1, <2>2
  <2>4. ASSUME NEW i \in DOMAIN queue' PROVE queue'[i] \in {queue[n] : n \in DOMAIN queue}
    BY <2>1
  <2>5. Head(queue) \in {queue[n] : n \in DOMAIN queue}
    BY <2>1
  <2> QED BY <2>3, <2>4, <2>5
<1> DEFINE Q == {queue[i] : i \in DOMAIN queue}
           R == {s.job : s \in settling}
<1>3. /\ DueLogouts' = {j \in Q' \union R' : j.kind = "peerLogout"}
      /\ DueLogouts = {j \in Q \union R : j.kind = "peerLogout"}
  BY DEF DueLogouts
<1>4. Q = Q' \union {Head(queue)}
  BY <1>2
<1>5. CASE settling' = settling /\ Head(queue).kind # "peerLogout"
  <2>1. R' = R
    BY <1>5
  <2> HIDE DEF Q, R
  <2> QED BY <1>3, <1>4, <1>5, <2>1
<1>6. CASE \E c : settling' = settling \union {[job |-> Head(queue), cleared |-> c]}
  <2>1. PICK c : settling' = settling \union {[job |-> Head(queue), cleared |-> c]}
    BY <1>6
  <2> DEFINE e == [job |-> Head(queue), cleared |-> c]
  <2>2. e.job = Head(queue) /\ settling' = settling \union {e}
    BY <2>1
  <2> HIDE DEF e
  <2>3. R' = R \union {Head(queue)}
    BY <2>2
  <2> HIDE DEF Q, R
  <2> QED BY <1>3, <1>4, <2>3
<1> QED BY <1>5, <1>6

LEMMA PeerKept ==
    ASSUME TypeInv, PeerInv, tracked' = tracked, retired' = retired, peerEpoch' = peerEpoch,
           DueLogouts' \subseteq DueLogouts,
           gate'.blockers \intersect PeerKeys = gate.blockers \intersect PeerKeys,
           (Quiet => Quiet') \/ gate'.blockers = {}
    PROVE  PeerInv'
<1>1. \A k \in TrackedKeys' : /\ k \in gate'.blockers /\ k \notin retired'
                              /\ tracked'[k].epoch = peerEpoch'
  BY DEF PeerInv, TrackedKeys
<1>2. \A j \in DueLogouts' : /\ j.who \in retired'
                             /\ j.who \in gate'.blockers /\ j.epoch # peerEpoch' => Quiet'
  BY DueTypes DEF PeerInv
<1> QED BY <1>1, <1>2 DEF PeerInv

------------------------------------------------------------------------------
(* Credentials *)

LEMMA TokensKnown ==
    ASSUME TypeInv, FreshInv
    PROVE  /\ \A t \in Common \union {None} : t \in Nat /\ t <= minted
           /\ \A q \in Ops : \A t \in Of(q) : t \in Nat /\ t <= minted
           /\ minted \in Nat
<1>1. None = 0 /\ minted \in Nat
  BY DEF None, TypeInv, TypeOK
<1>2. /\ \A t \in Common \union {None} : t \in Nat /\ t <= minted
      /\ \A q \in Ops : \A t \in Of(q) : t \in Nat /\ t <= minted
  <2>1. Tokens \subseteq Nat /\ MaybeToken \subseteq Nat
    BY DEF MaybeToken, Tokens, None
  <2>2. Common \subseteq Nat
    BY <2>1 DEF Common, TypeInv, TypeOK, RegistryType, LogoutType
  <2>3. ASSUME NEW q \in Ops PROVE Of(q) \subseteq Nat
    <3>1. op[q] \in OpType
      BY DEF TypeInv, TypeOK
    <3> QED BY <2>1, <3>1 DEF Of, OpType
  <2>4. \A t \in Common \union {None} : t \in Nat /\ t <= minted
    <3>1. \A t \in Common : t \in Nat /\ t <= minted
      BY <2>2 DEF FreshInv
    <3>2. None \in Nat /\ None <= minted
      BY <1>1
    <3> QED BY <3>1, <3>2
  <2>5. \A q \in Ops : \A t \in Of(q) : t \in Nat /\ t <= minted
    BY <2>3 DEF FreshInv
  <2> QED BY <2>4, <2>5
<1> QED BY <1>1, <1>2

\* Whatever moves credentials the tab knows already leaves the new ones unknown.
LEMMA FreshKept ==
    ASSUME TypeInv, FreshInv, NEW o \in Ops, NEW from, NEW to, NEW S, Moves(o, from, to, S),
           to \intersect FreshPcs = {}, S \subseteq Common,
           Common' \subseteq Common \union Of(o) \union {None},
           minted' \in Nat, minted <= minted'
    PROVE  FreshInv'
<1>1. /\ \A t \in Common \union {None} : t \in Nat /\ t <= minted
      /\ \A q \in Ops : \A t \in Of(q) : t \in Nat /\ t <= minted
      /\ minted \in Nat
  BY TokensKnown
<1>2. \A q \in Ops \ {o} : Of(q)' = Of(q) /\ op'[q] = op[q]
  BY DEF Moves, Of
<1>3. Of(o)' \subseteq Of(o) \union Common \union {None}
  BY DEF Moves
<1> HIDE DEF Of, Common
<1>4. \A t \in Common' : t <= minted'
  BY <1>1
<1>5. ASSUME NEW q \in Ops, NEW t \in Of(q)' PROVE t <= minted'
  <2>1. t \in Nat /\ t <= minted
    BY <1>1, <1>2, <1>3, <1>5
  <2> QED BY <1>1, <2>1
<1>6. ASSUME NEW q \in Ops, op'[q].pc \in FreshPcs
      PROVE  /\ op'[q].got \notin Common'
             /\ op'[q].got \notin {op'[q].known, op'[q].held} \union op'[q].invalidate
             /\ \A p \in Ops \ {q} : op'[q].got \notin Of(p)'
  <2>1. q # o /\ op[q].pc \in FreshPcs /\ op'[q] = op[q]
    BY <1>2, <1>6 DEF Moves
  <2>2. op[q].got # None
    BY <2>1 DEF TypeInv, HoldsToken, FreshPcs, Tokens, None
  <2>3. op[q].got \notin Common \union Of(o) \union {None}
    BY <2>1, <2>2 DEF FreshInv
  <2>4. \A p \in Ops \ {q} : op[q].got \notin Of(p)'
    BY <1>2, <1>3, <2>1, <2>3 DEF FreshInv
  <2> QED BY <2>1, <2>3, <2>4 DEF FreshInv
<1> QED BY <1>4, <1>5, <1>6 DEF FreshInv, Of

\* One that has arrived stays unknown while its operation goes on to disown it.
LEMMA FreshStays ==
    ASSUME TypeInv, FreshInv, NEW o \in Ops, op[o].pc \in FreshPcs, NEW pc \in Pcs,
           Step(o, pc), Common' \subseteq Common \union {None}, minted' = minted
    PROVE  FreshInv'
<1>1. /\ \A t \in Common \union {None} : t \in Nat /\ t <= minted
      /\ op \in [Ops -> OpType]
  BY TokensKnown DEF TypeInv, TypeOK
<1>2. \A q \in Ops : op[q].pc \in FreshPcs => op[q].got # None
  BY DEF TypeInv, HoldsToken, FreshPcs, Tokens, None
<1>3. ASSUME NEW q \in Ops
      PROVE  /\ op'[q].got = op[q].got /\ op'[q].known = op[q].known
             /\ op'[q].held = op[q].held /\ op'[q].invalidate = op[q].invalidate
             /\ op'[q].pc \in FreshPcs => op[q].pc \in FreshPcs
  BY <1>1 DEF Step, OpType
<1>4. \A q \in Ops : Of(q)' = Of(q)
  BY <1>3 DEF Of
<1>5. \A t \in Common' : t <= minted'
  BY <1>1
<1>6. \A q \in Ops : \A t \in Of(q)' : t <= minted'
  BY <1>4 DEF FreshInv
<1>7. ASSUME NEW q \in Ops, op'[q].pc \in FreshPcs
      PROVE  /\ op'[q].got \notin Common'
             /\ op'[q].got \notin {op'[q].known, op'[q].held} \union op'[q].invalidate
             /\ \A p \in Ops \ {q} : op'[q].got \notin Of(p)'
  <2>1. op[q].pc \in FreshPcs /\ op'[q].got = op[q].got
    BY <1>3, <1>7
  <2>2. op[q].got \notin Common \union {None}
    BY <1>2, <2>1 DEF FreshInv
  <2>3. op[q].got \notin {op[q].known, op[q].held} \union op[q].invalidate
    BY <2>1 DEF FreshInv
  <2>4. \A p \in Ops \ {q} : op[q].got \notin Of(p)
    BY <2>1 DEF FreshInv
  <2> QED BY <1>3, <1>4, <2>1, <2>2, <2>3, <2>4
<1> QED BY <1>5, <1>6, <1>7 DEF FreshInv, Of

\* When no operation moves, credentials only go from one place to another.
LEMMA FreshUntouched ==
    ASSUME TypeInv, FreshInv, op' = op, Common' \subseteq Common \union {None},
           minted' = minted
    PROVE  FreshInv'
<1>1. \A t \in Common' : t <= minted'
  BY TokensKnown
<1>2. \A q \in Ops : Of(q)' = Of(q)
  BY DEF Of
<1>3. \A q \in Ops : op[q].pc \in FreshPcs => op[q].got # None
  BY DEF TypeInv, HoldsToken, FreshPcs, Tokens, None
<1>4. ASSUME NEW q \in Ops, op[q].pc \in FreshPcs
      PROVE  /\ op[q].got \notin Common'
             /\ op[q].got \notin {op[q].known, op[q].held} \union op[q].invalidate
             /\ \A p \in Ops \ {q} : op[q].got \notin Of(p)
  BY <1>3, <1>4 DEF FreshInv
<1> QED BY <1>1, <1>2, <1>4 DEF FreshInv, Of

------------------------------------------------------------------------------
(* Slots of the registry, and the owners of the blocks *)

Slots == registry.reserved \union registry.cancelled

LEMMA SlotKept ==
    ASSUME TypeInv, SlotInv, NEW o \in Ops, NEW from, NEW to, NEW S, Moves(o, from, to, S),
           Slots' \subseteq Slots \union {o}, to \subseteq SlotPcs \/ o \notin Slots'
    PROVE  SlotInv'
<1>1. Slots \subseteq Ops
  BY DEF Slots, TypeInv, TypeOK, RegistryType
<1> QED BY <1>1 DEF SlotInv, Slots, Moves

\* An operation cut off before stays cut off, and one that holds a slot is in progress.
LEMMA DeadKept ==
    ASSUME TypeInv, TypeInv', SlotInv, SlotInv', CancelledIsDead, CutStep,
           registry'.cancelled \subseteq registry.cancelled \/ Quiet' \/ Blocked(gate)'
    PROVE  CancelledIsDead'
<1> SUFFICES ASSUME NEW o \in registry'.cancelled PROVE ~Valid(o)'
  BY DEF CancelledIsDead
<1>1. o \in Ops /\ Active(o)'
  BY DEF TypeInv, TypeOK, RegistryType, SlotInv, SlotPcs, Active
<1>2. CASE registry'.cancelled \subseteq registry.cancelled
  <2>1. Active(o) /\ ~Valid(o)
    BY <1>2 DEF CancelledIsDead, SlotInv, SlotPcs, Active
  <2> QED BY <1>1, <2>1 DEF CutStep
<1>3. CASE Quiet'
  <2>1. op'[o].lease \in Nat /\ gate'.generation \in Nat
    BY <1>1 DEF TypeInv, TypeOK, OpType, GateType
  <2> QED BY <1>1, <1>3, <2>1 DEF Quiet, Valid, StillValid
<1>4. CASE Blocked(gate)'
  BY <1>4 DEF Valid, StillValid
<1> QED BY <1>2, <1>3, <1>4

LEMMA OwnersKept ==
    ASSUME TypeInv, BlockInv, NoOrphanBlock, gate' = gate,
           recoveryBlocks' = recoveryBlocks, Ending' = Ending,
           logout.pc = "idle" <=> logout'.pc = "idle",
           registry'.pending = registry.pending, tracked' = tracked,
           DueLogouts' = DueLogouts
    PROVE  BlockInv' /\ NoOrphanBlock'
<1>1. BlockInv'
  BY DEF BlockInv
<1>2. TrackedKeys' = TrackedKeys
  BY DEF TrackedKeys
<1>3. \A k \in PeerKeys : PeerLogoutDue(k)' <=> \E j \in DueLogouts : j.who = k
  BY DEF PeerLogoutDue, PeerJobs, DueLogouts
<1>4. \A k \in PeerKeys : PeerLogoutDue(k)' <=> PeerLogoutDue(k)
  BY <1>3, DueTypes
<1> QED BY <1>1, <1>2, <1>4 DEF NoOrphanBlock

------------------------------------------------------------------------------
(* The inductive invariant, and the step that keeps it *)

IInv == /\ TypeInv /\ LeaseInv /\ BlockInv /\ QueueInv /\ PeerInv /\ FreshInv /\ SlotInv
        /\ NoOrphanBlock /\ CancelledIsDead

Kept == /\ LeaseInv' /\ BlockInv' /\ QueueInv' /\ PeerInv' /\ FreshInv' /\ SlotInv'
        /\ NoOrphanBlock' /\ CancelledIsDead' /\ CutStep

\* An operation takes a step and leaves the gate, the logout and the other tabs as they
\* are.
Calm == UNCHANGED <<gate, recoveryBlocks, logout, tracked, retired, peerEpoch, settling>>

CalmStep(o, from, to, S) ==
    /\ Moves(o, from, to, S) /\ Calm
    /\ from \intersect {"idle", "returned"} = {}
    /\ Ending' = Ending
    /\ registry'.pending = registry.pending
    /\ registry'.cancelled \subseteq registry.cancelled \/ Quiet
    /\ Slots' \subseteq Slots \union {o}
    /\ to \subseteq SlotPcs \/ o \notin Slots'

LEMMA CalmStepKeeps ==
    ASSUME IInv, TypeInv', NEW o \in Ops, NEW from, NEW to, NEW S, CalmStep(o, from, to, S),
           FreshInv', QueueInv', DueLogouts' = DueLogouts
    PROVE  Kept
<1>1. Continues
  BY MoveContinues DEF CalmStep
<1>2. LeaseInv' /\ CutStep /\ (Quiet => Quiet')
  BY <1>1, LeaseKept DEF CalmStep, Calm, IInv
<1>3. BlockInv' /\ NoOrphanBlock'
  BY OwnersKept DEF CalmStep, Calm, IInv
<1>4. PeerInv'
  BY <1>2, PeerKept DEF CalmStep, Calm, IInv
<1>5. SlotInv'
  BY SlotKept DEF CalmStep, IInv
<1>6. CancelledIsDead'
  BY <1>2, <1>5, DeadKept DEF CalmStep, IInv
<1> QED BY <1>2, <1>3, <1>4, <1>5, <1>6 DEF Kept

\* Program counters of an operation that waits for a job of its own or ends a session.
JobPcs == {"saving", "undoing", "ending", "revoking"}

Aside == Calm /\ queue' = queue

\* One that has no job, and leaves the queue as it is too.
OwnStep(o, from, to, S) ==
    /\ Moves(o, from, to, S) /\ Aside
    /\ from \intersect ({"idle", "returned"} \union JobPcs) = {}
    /\ to \intersect EndPcs = {}
    /\ registry'.pending = registry.pending
    /\ registry'.cancelled \subseteq registry.cancelled
    /\ Slots' \subseteq Slots \union {o}
    /\ to \subseteq SlotPcs \/ o \notin Slots'

LEMMA OwnStepKeeps ==
    ASSUME IInv, TypeInv', NEW o \in Ops, NEW from, NEW to, NEW S, OwnStep(o, from, to, S),
           FreshInv'
    PROVE  Kept
<1>1. Ending' = Ending
  BY DEF OwnStep, Ending, Moves, JobPcs, EndPcs, Ops
<1>2. CalmStep(o, from, to, S)
  BY <1>1 DEF OwnStep, CalmStep, Aside
<1>3. DueLogouts' = DueLogouts
  BY DueSame DEF OwnStep, Aside, Calm
<1>4. QueueInv'
  BY QueueKept DEF OwnStep, Aside, Calm, IInv, JobPcs
<1> QED BY <1>2, <1>3, <1>4, CalmStepKeeps

\* The same, when nothing new is learnt and no credential is new.
LEMMA OwnStepPlain ==
    ASSUME IInv, TypeInv', NEW o \in Ops, NEW from, NEW to, NEW S, OwnStep(o, from, to, S),
           to \intersect FreshPcs = {}, S \subseteq Common,
           Common' \subseteq Common \union Of(o) \union {None},
           minted' \in Nat, minted <= minted'
    PROVE  Kept
<1>1. FreshInv'
  BY FreshKept DEF OwnStep, IInv
<1> QED BY <1>1, OwnStepKeeps

\* A record that keeps its lease and knows nothing but what it knew and S.
LEMMA MovesTo ==
    ASSUME TypeInv, NEW o \in Ops, NEW rec \in OpType, NEW S,
           rec.lease = op[o].lease \/ op[o].pc \in {"idle", "returned"},
           {rec.got, rec.known, rec.held} \union rec.invalidate \subseteq Of(o) \union S \union {None},
           op' = [op EXCEPT ![o] = rec]
    PROVE  Moves(o, {op[o].pc}, {rec.pc}, S)
<1>1. op \in [Ops -> OpType]
  BY DEF TypeInv, TypeOK
<1>2. op' \in [Ops -> OpType] /\ op'[o] = rec /\ \A q \in Ops \ {o} : op'[q] = op[q]
  BY <1>1
<1>3. Of(o)' = {rec.got, rec.known, rec.held} \union rec.invalidate
  BY <1>2 DEF Of
<1> QED BY <1>1, <1>2, <1>3 DEF Moves

\* Where the tab keeps credentials, apart from the registry and the logout.
Stores(known) == {storage', degraded'} \subseteq {storage, degraded, None} \union known

\* An operation ends, and gives back the slot it may have had.
LEMMA LeaveKeeps ==
    ASSUME IInv, TypeInv', NEW o \in Ops, NEW to \in {"idle", "returned"},
           Moves(o, {op[o].pc}, {to}, {}), Aside,
           op[o].pc \notin {"idle", "returned"} \union JobPcs,
           \/ registry' = registry /\ op[o].pc \notin SlotPcs
           \/ registry' = ReleaseReservation(registry, o),
           Stores(Of(o)), minted' = minted
    PROVE  Kept
<1>1. registry \in RegistryType(Ops, Tokens) /\ minted \in Nat
  BY DEF IInv, TypeInv, TypeOK
<1>2. /\ registry'.pending = registry.pending /\ registry'.candidates = registry.candidates
      /\ registry'.cancelled \subseteq registry.cancelled
      /\ Slots' \subseteq Slots /\ o \notin Slots'
  <2>1. CASE registry' = registry /\ op[o].pc \notin SlotPcs
    BY <2>1 DEF Slots, IInv, SlotInv
  <2>2. CASE registry' = ReleaseReservation(registry, o)
    BY <1>1, <2>2, SlotEffects DEF Slots
  <2> QED BY <2>1, <2>2
<1>3. OwnStep(o, {op[o].pc}, {to}, {})
  BY <1>2 DEF OwnStep, EndPcs
<1>4. Common' \subseteq Common \union Of(o) \union {None}
  BY <1>2 DEF Common, Stores, Aside, Calm
<1>5. {to} \intersect EndPcs = {} /\ {to} \intersect FreshPcs = {}
  BY DEF EndPcs, FreshPcs
<1> QED BY <1>1, <1>3, <1>4, <1>5, OwnStepPlain

\* An operation goes on, and its slot stays as it is.
LEMMA GoOnKeeps ==
    ASSUME IInv, TypeInv', NEW o \in Ops, NEW to \in Pcs, NEW S, Moves(o, {op[o].pc}, {to}, S), Aside,
           op[o].pc \notin {"idle", "returned"} \union JobPcs,
           to \notin EndPcs \union FreshPcs, to \in SlotPcs \/ op[o].pc \notin SlotPcs,
           registry' = registry, Stores({}), S \subseteq Common,
           minted' \in Nat, minted <= minted'
    PROVE  Kept
<1>1. Slots' = Slots
  BY DEF Slots
<1>2. to \in SlotPcs \/ o \notin Slots'
  BY <1>1 DEF Slots, IInv, SlotInv
<1>3. OwnStep(o, {op[o].pc}, {to}, S)
  BY <1>1, <1>2 DEF OwnStep
<1>4. Common' \subseteq Common \union {None}
  BY DEF Common, Stores, Aside, Calm
<1> QED BY <1>3, <1>4, OwnStepPlain

------------------------------------------------------------------------------
(* Operations up to the request *)

LEMMA KeepsReadStorage ==
    ASSUME IInv, TypeInv', NEW o \in Ops, ReadStorage(o) PROVE Kept
<1>1. Aside /\ Stores({}) /\ minted' = minted /\ minted \in Nat /\ minted <= minted'
  <2>1. minted' = minted /\ minted \in Nat
    BY DEF ReadStorage, IInv, TypeInv, TypeOK
  <2> QED BY <2>1 DEF ReadStorage, Aside, Calm, Stores
<1>2. op[o].pc \in LoadPcs /\ op[o].pc \notin {"idle", "returned"} \union JobPcs
  BY DEF ReadStorage, LoadPcs, JobPcs
<1>3. ASSUME Throw(o), op[o].pc # "rejected" PROVE Kept
  <2>1. Moves(o, {op[o].pc}, {"idle"}, {}) /\ registry' = ReleaseReservation(registry, o)
    BY <1>3, MovesEnd DEF Throw, IInv
  <2>2. Stores(Of(o))
    BY <1>1 DEF Stores
  <2> QED BY <1>1, <1>2, <2>1, <2>2, LeaveKeeps
<1>4. ASSUME NEW pp \in {"read", "loaded", "reloaded", "rechecked", "updated"},
             NEW t \in {storage, None},
             pp = "rechecked" <=> op[o].pc = "rejected",
             op' = [op EXCEPT ![o].pc = pp, ![o].got = t], UNCHANGED registry
      PROVE  Kept
  <2> DEFINE rec == [op[o] EXCEPT !.pc = pp, !.got = t]
  <2>1. /\ op[o] \in OpType /\ pp \in Pcs /\ t \in MaybeToken
        /\ pp \notin EndPcs \union FreshPcs
    BY DEF IInv, TypeInv, TypeOK, Pcs, RefreshPcs, LockedPcs, EndPcs, FreshPcs, MaybeToken
  <2>2. /\ rec \in OpType /\ rec.pc = pp /\ rec.known = op[o].known /\ rec.got = t
        /\ rec.held = op[o].held /\ rec.invalidate = op[o].invalidate
        /\ rec.lease = op[o].lease
    BY <2>1 DEF OpType
  <2>3. op' = [op EXCEPT ![o] = rec]
    BY <1>4 DEF IInv, TypeInv, TypeOK
  <2> HIDE DEF rec
  <2>4. Moves(o, {op[o].pc}, {pp}, {storage})
    BY <2>2, <2>3, MovesTo DEF Of, IInv
  <2>5. pp \in SlotPcs \/ op[o].pc \notin SlotPcs
    BY <1>2, <1>4 DEF SlotPcs, LoadPcs
  <2>6. {storage} \subseteq Common
    BY DEF Common
  <2> QED BY <1>1, <1>2, <1>4, <2>1, <2>4, <2>5, <2>6, GoOnKeeps
<1>5. /\ AnswerOf[op[o].pc] \in {"read", "loaded", "reloaded", "rechecked", "updated"}
      /\ AnswerOf[op[o].pc] = "rechecked" <=> op[o].pc = "rejected"
  BY <1>2 DEF LoadPcs, AnswerOf
<1>6. CASE op' = [op EXCEPT ![o].pc = AnswerOf[@], ![o].got = storage] /\ UNCHANGED registry
  BY <1>4, <1>5, <1>6
<1>7. CASE /\ op[o].pc = "rejected" /\ UNCHANGED registry
           /\ op' = [op EXCEPT ![o].pc = "rechecked", ![o].got = None]
  BY <1>4, <1>7
<1> QED BY <1>3, <1>6, <1>7 DEF ReadStorage

\* Beginning to load keeps the record, but for what the memory mirror gives it.
LEMMA LoadKeeps ==
    ASSUME TypeInv, NEW o \in Ops, NEW pc \in {"loading", "reloading"}
    PROVE  /\ BeginLoad(o, pc) \in OpType
           /\ BeginLoad(o, pc).pc \in {pc, AnswerOf[pc]}
           /\ BeginLoad(o, pc).known = op[o].known /\ BeginLoad(o, pc).held = op[o].held
           /\ BeginLoad(o, pc).got \in {degraded, None}
           /\ BeginLoad(o, pc).invalidate = op[o].invalidate
           /\ BeginLoad(o, pc).lease = op[o].lease
<1>1. op[o] \in OpType
  BY DEF TypeInv, TypeOK
<1> DEFINE loaded(pp, t) == [op[o] EXCEPT !.pc = pp, !.got = t]
<1>2. \A pp, t : /\ loaded(pp, t).got = t /\ loaded(pp, t).held = op[o].held
                 /\ loaded(pp, t).invalidate = op[o].invalidate
                 /\ loaded(pp, t).lease = op[o].lease
  BY <1>1 DEF OpType
<1>3. BeginLoad(o, pc) \in {loaded(AnswerOf[pc], degraded), loaded(pc, None)}
  BY DEF BeginLoad
<1> HIDE DEF loaded
<1>4. /\ BeginLoad(o, pc).got \in {degraded, None} /\ BeginLoad(o, pc).held = op[o].held
      /\ BeginLoad(o, pc).invalidate = op[o].invalidate
      /\ BeginLoad(o, pc).lease = op[o].lease
  BY <1>2, <1>3
<1> QED BY <1>4, LoadStarts

LEMMA KeepsGotToken ==
    ASSUME IInv, TypeInv', NEW r \in Refreshers, GotToken(r) PROVE Kept
<1>1. /\ Aside /\ Stores({}) /\ Stores(Of(r)) /\ registry' = registry
      /\ minted' = minted /\ minted \in Nat /\ minted <= minted'
  <2>1. minted' = minted /\ minted \in Nat
    BY DEF GotToken, IInv, TypeInv, TypeOK
  <2> QED BY <2>1 DEF GotToken, Aside, Calm, Stores
<1>2. op[r].pc = "read" /\ op[r].pc \notin {"idle", "returned"} \union JobPcs \union SlotPcs
  BY DEF GotToken, JobPcs, SlotPcs
<1>3. r \in Ops /\ op[r] \in OpType /\ TypeInv
  BY DEF Ops, IInv, TypeInv, TypeOK
<1>4. CASE op' = [op EXCEPT ![r] = NoOp]
  BY <1>1, <1>2, <1>3, <1>4, MovesEnd, LeaveKeeps
<1>5. CASE Return(r, op[r].got)
  <2>1. op[r].got \in Of(r) /\ op[r].got \in MaybeToken
    BY <1>3 DEF Of, OpType
  <2> QED BY <1>1, <1>2, <1>3, <1>5, <2>1, MovesReturn, LeaveKeeps
<1>6. CASE op' = [op EXCEPT ![r] = [BeginLoad(r, "loading") EXCEPT !.held = op[r].got]]
  <2> DEFINE b == BeginLoad(r, "loading")
             rec == [b EXCEPT !.held = op[r].got]
  <2>1. /\ b \in OpType /\ b.pc \in {"loading", "loaded"} /\ b.known = op[r].known
        /\ b.got \in {degraded, None} /\ b.invalidate = op[r].invalidate
        /\ b.lease = op[r].lease
    BY <1>3, LoadKeeps DEF AnswerOf
  <2> HIDE DEF b
  <2>2. /\ rec \in OpType /\ rec.pc = b.pc /\ rec.known = b.known /\ rec.got = b.got
        /\ rec.invalidate = b.invalidate /\ rec.lease = b.lease /\ rec.held = op[r].got
    BY <1>3, <2>1 DEF OpType
  <2>3. op' = [op EXCEPT ![r] = rec]
    BY <1>6 DEF b
  <2> HIDE DEF rec
  <2>4. Moves(r, {op[r].pc}, {rec.pc}, {degraded})
    BY <1>3, <2>1, <2>2, <2>3, MovesTo DEF Of
  <2>5. rec.pc \in Pcs /\ rec.pc \notin EndPcs \union FreshPcs /\ {degraded} \subseteq Common
    BY <2>1, <2>2 DEF Pcs, RefreshPcs, EndPcs, FreshPcs, Common
  <2> QED BY <1>1, <1>2, <1>3, <2>4, <2>5, GoOnKeeps
<1> QED BY <1>4, <1>5, <1>6 DEF GotToken

LEMMA KeepsLoaded ==
    ASSUME IInv, TypeInv', NEW r \in Refreshers, Loaded(r) PROVE Kept
<1>1. /\ Aside /\ Stores({}) /\ Stores(Of(r)) /\ registry' = registry
      /\ minted' = minted /\ minted \in Nat /\ minted <= minted'
  <2>1. minted' = minted /\ minted \in Nat
    BY DEF Loaded, IInv, TypeInv, TypeOK
  <2> QED BY <2>1 DEF Loaded, Aside, Calm, Stores
<1>2. op[r].pc = "loaded" /\ op[r].pc \notin {"idle", "returned"} \union JobPcs \union SlotPcs
  BY DEF Loaded, JobPcs, SlotPcs
<1>3. r \in Ops /\ op[r] \in OpType /\ TypeInv
  BY DEF Ops, IInv, TypeInv, TypeOK
<1>4. CASE op' = [op EXCEPT ![r] = NoOp]
  BY <1>1, <1>2, <1>3, <1>4, MovesEnd, LeaveKeeps
<1>5. CASE op' = [op EXCEPT ![r].pc = "locking", ![r].known = op[r].got]
  <2> DEFINE rec == [op[r] EXCEPT !.pc = "locking", !.known = op[r].got]
  <2>1. /\ "locking" \in Pcs /\ "locking" \notin EndPcs \union FreshPcs
    BY DEF Pcs, RefreshPcs, EndPcs, FreshPcs
  <2>2. /\ rec \in OpType /\ rec.pc = "locking" /\ rec.known = op[r].got
        /\ rec.got = op[r].got /\ rec.invalidate = op[r].invalidate
        /\ rec.lease = op[r].lease /\ rec.held = op[r].held
    BY <1>3, <2>1 DEF OpType
  <2>3. op' = [op EXCEPT ![r] = rec]
    BY <1>3, <1>5 DEF TypeInv, TypeOK
  <2> HIDE DEF rec
  <2>4. Moves(r, {op[r].pc}, {"locking"}, {})
    BY <1>3, <2>2, <2>3, MovesTo DEF Of
  <2> QED BY <1>1, <1>2, <1>3, <2>1, <2>4, GoOnKeeps
<1> QED BY <1>4, <1>5 DEF Loaded

LEMMA KeepsLockAcquired ==
    ASSUME IInv, TypeInv', NEW r \in Refreshers, LockAcquired(r) PROVE Kept
<1>1. /\ Aside /\ Stores({}) /\ Stores(Of(r)) /\ registry' = registry
      /\ minted' = minted /\ minted \in Nat /\ minted <= minted'
  <2>1. minted' = minted /\ minted \in Nat
    BY DEF LockAcquired, IInv, TypeInv, TypeOK
  <2> QED BY <2>1 DEF LockAcquired, Aside, Calm, Stores
<1>2. op[r].pc = "locking" /\ op[r].pc \notin {"idle", "returned"} \union JobPcs \union SlotPcs
  BY DEF LockAcquired, JobPcs, SlotPcs
<1>3. r \in Ops /\ TypeInv
  BY DEF Ops, IInv
<1>4. CASE op' = [op EXCEPT ![r] = NoOp]
  BY <1>1, <1>2, <1>3, <1>4, MovesEnd, LeaveKeeps
<1>5. CASE op' = [op EXCEPT ![r] = BeginLoad(r, "reloading")]
  <2> DEFINE b == BeginLoad(r, "reloading")
  <2>1. /\ b \in OpType /\ b.pc \in {"reloading", "reloaded"} /\ b.known = op[r].known
        /\ b.got \in {degraded, None} /\ b.invalidate = op[r].invalidate
        /\ b.lease = op[r].lease /\ b.held = op[r].held
    BY <1>3, LoadKeeps DEF AnswerOf
  <2>2. op' = [op EXCEPT ![r] = b]
    BY <1>5
  <2> HIDE DEF b
  <2>3. Moves(r, {op[r].pc}, {b.pc}, {degraded})
    BY <1>3, <2>1, <2>2, MovesTo DEF Of
  <2>4. b.pc \in Pcs /\ b.pc \notin EndPcs \union FreshPcs /\ {degraded} \subseteq Common
    BY <2>1 DEF Pcs, RefreshPcs, LockedPcs, EndPcs, FreshPcs, Common
  <2> QED BY <1>1, <1>2, <1>3, <2>3, <2>4, GoOnKeeps
<1> QED BY <1>4, <1>5 DEF LockAcquired

LEMMA KeepsTokenUpdated ==
    ASSUME IInv, TypeInv', NEW u \in Updates, TokenUpdated(u) PROVE Kept
<1>1. Aside /\ Stores(Of(u)) /\ registry' = registry /\ minted' = minted
  BY DEF TokenUpdated, Aside, Calm, Stores
<1>2. op[u].pc = "updated" /\ op[u].pc \notin {"idle", "returned"} \union JobPcs \union SlotPcs
  BY DEF TokenUpdated, JobPcs, SlotPcs
<1>3. u \in Ops /\ TypeInv /\ op' = [op EXCEPT ![u] = NoOp]
  BY DEF Ops, IInv, TokenUpdated
<1> QED BY <1>1, <1>2, <1>3, MovesEnd, LeaveKeeps

------------------------------------------------------------------------------
(* The request, and its answer *)

\* A credential that has just been minted is unknown to everything in the tab.
LEMMA FreshArrived ==
    ASSUME TypeInv, TypeInv', FreshInv, NEW o \in Ops,
           op' = [op EXCEPT ![o].pc = "answered", ![o].got = minted + 1],
           minted' = minted + 1, Common' = Common
    PROVE  /\ FreshInv'
           /\ Moves(o, {op[o].pc}, {"answered"}, {minted + 1})
<1> DEFINE rec == [op[o] EXCEPT !.pc = "answered", !.got = minted + 1]
<1>1. /\ \A t \in Common : t \in Nat /\ t <= minted
      /\ \A q \in Ops : \A t \in Of(q) : t \in Nat /\ t <= minted
      /\ minted \in Nat
  BY TokensKnown
<1>2. op \in [Ops -> OpType] /\ op[o] \in OpType
  BY DEF TypeInv, TypeOK
<1>3. /\ rec.pc = "answered" /\ rec.got = minted + 1 /\ rec.lease = op[o].lease
      /\ rec.known = op[o].known /\ rec.held = op[o].held
      /\ rec.invalidate = op[o].invalidate
  BY <1>2 DEF OpType
<1>4. op' = [op EXCEPT ![o] = rec]
  BY <1>2
<1> HIDE DEF rec
<1>5. /\ op'[o] = rec /\ \A q \in Ops \ {o} : op'[q] = op[q]
  BY <1>2, <1>4
<1>6. /\ Of(o)' \subseteq Of(o) \union {minted + 1}
      /\ \A q \in Ops \ {o} : Of(q)' = Of(q)
      /\ {op[o].known, op[o].held} \union op[o].invalidate \subseteq Of(o)
  BY <1>3, <1>5 DEF Of
<1>7. Moves(o, {op[o].pc}, {"answered"}, {minted + 1})
  <2>1. op' \in [Ops -> OpType]
    BY DEF TypeInv, TypeOK
  <2> QED BY <1>2, <1>3, <1>5, <1>6, <2>1 DEF Moves
<1> HIDE DEF Of, Common
<1>8. \A t \in Common' : t <= minted'
  BY <1>1
<1>9. ASSUME NEW q \in Ops, NEW t \in Of(q)' PROVE t <= minted'
  <2>1. t \in Of(q) \/ t = minted + 1
    BY <1>6, <1>9
  <2> QED BY <1>1, <2>1
<1>10. minted + 1 \notin Common /\ \A q \in Ops : minted + 1 \notin Of(q)
  BY <1>1
<1>11. ASSUME NEW q \in Ops, op'[q].pc \in FreshPcs
       PROVE  /\ op'[q].got \notin Common'
              /\ op'[q].got \notin {op'[q].known, op'[q].held} \union op'[q].invalidate
              /\ \A p \in Ops \ {q} : op'[q].got \notin Of(p)'
  <2>1. CASE q = o
    <3>1. op'[q].got = minted + 1
      BY <1>3, <1>5, <2>1
    <3>2. /\ op'[q].known = op[o].known /\ op'[q].held = op[o].held
          /\ op'[q].invalidate = op[o].invalidate
      BY <1>3, <1>5, <2>1
    <3>3. minted + 1 \notin {op[o].known, op[o].held} \union op[o].invalidate
      BY <1>6, <1>10
    <3>4. \A p \in Ops \ {o} : minted + 1 \notin Of(p)'
      BY <1>6, <1>10
    <3>5. op'[q].got \notin Common'
      BY <1>10, <3>1
    <3>6. op'[q].got \notin {op'[q].known, op'[q].held} \union op'[q].invalidate
      BY <3>1, <3>2, <3>3
    <3>7. \A p \in Ops \ {q} : op'[q].got \notin Of(p)'
      BY <2>1, <3>1, <3>4
    <3> QED BY <3>5, <3>6, <3>7
  <2>2. CASE q # o
    <3>1. op'[q] = op[q] /\ op[q].got \in Of(q)
      BY <1>5, <2>2 DEF Of
    <3>2. op[q].got # minted + 1
      BY <1>10, <3>1
    <3>3. \A p \in Ops \ {q} : op[q].got \notin Of(p)'
      BY <1>6, <1>11, <3>1, <3>2 DEF FreshInv
    <3>4. /\ op[q].got \notin Common
          /\ op[q].got \notin {op[q].known, op[q].held} \union op[q].invalidate
      BY <1>11, <3>1 DEF FreshInv
    <3>5. op'[q].got \notin Common'
      <4>1. op[q].got \notin Common'
        BY <3>4
      <4> QED BY <3>1, <4>1
    <3>6. op'[q].got \notin {op'[q].known, op'[q].held} \union op'[q].invalidate
      BY <3>1, <3>4
    <3>7. \A p \in Ops \ {q} : op'[q].got \notin Of(p)'
      BY <3>1, <3>3
    <3> QED BY <3>5, <3>6, <3>7
  <2> QED BY <2>1, <2>2
<1>12. FreshInv'
  BY <1>8, <1>9, <1>11 DEF FreshInv, Of
<1> QED BY <1>7, <1>12

LEMMA KeepsServe ==
    ASSUME IInv, TypeInv', NEW o \in Ops, Serve(o) PROVE Kept
<1>1. Aside /\ Stores({}) /\ registry' = registry
  BY DEF Serve, Aside, Calm, Stores
<1>2. /\ op[o].pc = "posted" /\ op[o].pc \notin {"idle", "returned"} \union JobPcs
      /\ TypeInv
  BY DEF Serve, JobPcs, IInv
<1>3. minted \in Nat /\ minted <= minted + 1 /\ minted <= minted /\ minted + 1 \in Nat
  BY <1>2 DEF TypeInv, TypeOK
<1>4. ASSUME NEW pc \in {"dropped", "rejected"}, Step(o, pc),
             minted' \in {minted, minted + 1}
      PROVE  Kept
  <2>1. pc \in Pcs /\ pc \in SlotPcs /\ pc \notin EndPcs \union FreshPcs
    BY DEF Pcs, RefreshPcs, LockedPcs, SlotPcs, EndPcs, FreshPcs
  <2>2. Moves(o, {op[o].pc}, {pc}, {})
    BY <1>2, <1>4, <2>1, MovesStep
  <2>3. minted' \in Nat /\ minted <= minted'
    BY <1>3, <1>4
  <2> QED BY <1>1, <1>2, <2>1, <2>2, <2>3, GoOnKeeps
<1>5. ASSUME NEW parent, Answer(o, parent) PROVE Kept
  <2>1. minted' = minted + 1
    BY <1>5 DEF Answer, Mint
  <2>2. CASE Step(o, "dropped")
    BY <1>4, <2>1, <2>2
  <2>3. CASE op' = [op EXCEPT ![o].pc = "answered", ![o].got = minted + 1]
    <3>1. Common' = Common
      BY <1>1 DEF Common, Aside, Calm, Serve
    <3>2. FreshInv' /\ Moves(o, {op[o].pc}, {"answered"}, {minted + 1})
      BY <1>2, <2>1, <2>3, <3>1, FreshArrived DEF IInv
    <3>3. OwnStep(o, {op[o].pc}, {"answered"}, {minted + 1})
      BY <1>1, <1>2, <3>2 DEF OwnStep, EndPcs, Slots, SlotPcs
    <3>4. {"answered"} \intersect EndPcs = {}
      BY DEF EndPcs
    <3> QED BY <3>2, <3>3, <3>4, OwnStepKeeps
  <2> QED BY <1>5, <2>2, <2>3 DEF Answer
<1>6. CASE Step(o, "rejected") /\ UNCHANGED serverVars
  BY <1>4, <1>6
<1>7. CASE Step(o, "dropped") /\ UNCHANGED serverVars
  BY <1>4, <1>7
<1> QED BY <1>5, <1>6, <1>7 DEF Serve

------------------------------------------------------------------------------
(* From the answer to the caller *)

\* Ending with an error gives the slot back.
LEMMA ThrowKeeps ==
    ASSUME IInv, TypeInv', NEW o \in Ops, Throw(o), Aside,
           op[o].pc \notin {"idle", "returned"} \union JobPcs,
           Stores(Of(o)), minted' = minted
    PROVE  Kept
<1>1. Moves(o, {op[o].pc}, {"idle"}, {}) /\ registry' = ReleaseReservation(registry, o)
  BY MovesEnd DEF Throw, IInv
<1> QED BY <1>1, LeaveKeeps

\* Its credential has become the session's: the slot goes, and the event is emitted.
LEMMA AdoptedKeeps ==
    ASSUME IInv, TypeInv', NEW o \in Ops, NEW bound, Adopted(o, bound), Aside,
           op[o].pc \notin {"idle", "returned"} \union JobPcs,
           Stores(Of(o)), minted' = minted
    PROVE  Kept
<1>1. registry \in RegistryType(Ops, Tokens) /\ minted \in Nat /\ minted <= minted
  BY DEF IInv, TypeInv, TypeOK
<1>2. registry' = ReleaseHandle(registry, o, op[o].got) /\ Step(o, "announcing")
  BY DEF Adopted
<1>3. /\ registry'.pending = registry.pending
      /\ registry'.candidates \subseteq registry.candidates
      /\ registry'.cancelled \subseteq registry.cancelled /\ Slots' \subseteq Slots
  BY <1>1, <1>2, HandleEffects DEF Slots
<1>4. /\ "announcing" \in Pcs /\ {"announcing"} \subseteq SlotPcs
      /\ {"announcing"} \intersect EndPcs = {} /\ {"announcing"} \intersect FreshPcs = {}
  BY DEF Pcs, RefreshPcs, LockedPcs, SlotPcs, EndPcs, FreshPcs
<1>5. Moves(o, {op[o].pc}, {"announcing"}, {})
  BY <1>2, <1>4, MovesStep DEF IInv
<1>6. OwnStep(o, {op[o].pc}, {"announcing"}, {})
  BY <1>3, <1>4, <1>5 DEF OwnStep
<1>7. Common' \subseteq Common \union Of(o) \union {None}
  BY <1>3 DEF Common, Stores, Aside, Calm
<1> QED BY <1>1, <1>4, <1>6, <1>7, OwnStepPlain

LEMMA KeepsSaved ==
    ASSUME IInv, TypeInv', NEW o \in Ops, Saved(o) PROVE Kept
<1>1. Aside /\ Stores(Of(o)) /\ minted' = minted
  BY DEF Saved, Aside, Calm, Stores
<1>2. op[o].pc \notin {"idle", "returned"} \union JobPcs
  BY DEF Saved, JobPcs
<1>3. CASE Adopted(o, op[o].got)
  BY <1>1, <1>2, <1>3, AdoptedKeeps
<1>4. CASE Throw(o)
  BY <1>1, <1>2, <1>4, ThrowKeeps
<1> QED BY <1>3, <1>4 DEF Saved

LEMMA KeepsSaveFailed ==
    ASSUME IInv, TypeInv', NEW o \in Ops, SaveFailed(o) PROVE Kept
<1>1. Aside /\ Stores(Of(o)) /\ minted' = minted
  <2>1. degraded' \in {degraded, op[o].got}
    BY DEF SaveFailed
  <2> QED BY <2>1 DEF SaveFailed, Aside, Calm, Stores, Of
<1>2. op[o].pc \notin {"idle", "returned"} \union JobPcs
  BY DEF SaveFailed, JobPcs
<1>3. CASE Adopted(o, binding)
  BY <1>1, <1>2, <1>3, AdoptedKeeps
<1>4. CASE Throw(o)
  BY <1>1, <1>2, <1>4, ThrowKeeps
<1> QED BY <1>3, <1>4 DEF SaveFailed

LEMMA KeepsAnnounced ==
    ASSUME IInv, TypeInv', NEW o \in Ops, Announced(o) PROVE Kept
<1>1. /\ Aside /\ Stores(Of(o)) /\ minted' = minted
      /\ registry' = ReleaseReservation(registry, o)
  BY DEF Announced, Aside, Calm, Stores
<1>2. op[o].pc \notin {"idle", "returned"} \union JobPcs /\ TypeInv
  BY DEF Announced, JobPcs, IInv
<1>3. CASE Return(o, op[o].got)
  <2>1. op[o].got \in Of(o) /\ op[o].got \in MaybeToken
    BY <1>2 DEF Of, TypeInv, TypeOK, OpType
  <2> QED BY <1>1, <1>2, <1>3, <2>1, MovesReturn, LeaveKeeps
<1>4. CASE op' = [op EXCEPT ![o] = NoOp]
  BY <1>1, <1>2, <1>4, MovesEnd, LeaveKeeps
<1> QED BY <1>3, <1>4 DEF Announced

LEMMA KeepsDropped ==
    ASSUME IInv, TypeInv', NEW o \in Ops, Dropped(o) PROVE Kept
<1>1. /\ Aside /\ Stores(Of(o)) /\ minted' = minted
      /\ registry' = ReleaseReservation(registry, o)
  BY DEF Dropped, Aside, Calm, Stores
<1>2. op[o].pc \notin {"idle", "returned"} \union JobPcs /\ TypeInv
  BY DEF Dropped, JobPcs, IInv
<1>3. CASE Return(o, op[o].held)
  <2>1. op[o].held \in Of(o) /\ op[o].held \in MaybeToken
    BY <1>2 DEF Of, TypeInv, TypeOK, OpType
  <2> QED BY <1>1, <1>2, <1>3, <2>1, MovesReturn, LeaveKeeps
<1>4. CASE op' = [op EXCEPT ![o] = NoOp]
  BY <1>1, <1>2, <1>4, MovesEnd, LeaveKeeps
<1> QED BY <1>3, <1>4 DEF Dropped

------------------------------------------------------------------------------
(* The gate changes *)

LEMMA SyncEffects ==
    ASSUME NEW g \in GateType(Blocks), NEW reg
    PROVE  LET h == SyncPending(g, reg)
               b == {"pendingRevocation"} IN
           /\ h \in GateType(Blocks) /\ h.generation = g.generation
           /\ h.blockers = IF reg.pending # {} THEN g.blockers \union b ELSE g.blockers \ b
           /\ h.retained = IF reg.pending # {} THEN g.retained \union b ELSE g.retained \ b
<1>1. "pendingRevocation" \in Blocks
  BY DEF Blocks
<1>2. CASE reg.pending # {}
  BY <1>1, <1>2, GateClosed, GateEffects DEF SyncPending
<1>3. CASE reg.pending = {}
  BY <1>1, <1>3, GateClosed, GateEffects DEF SyncPending
<1> QED BY <1>2, <1>3

LEMMA SyncBounds ==
    ASSUME NEW g \in GateType(Blocks), NEW reg
    PROVE  /\ SyncPending(g, reg) \in GateType(Blocks)
           /\ SyncPending(g, reg).generation = g.generation
           /\ SyncPending(g, reg).blockers \subseteq g.blockers \union {"pendingRevocation"}
           /\ g.blockers \subseteq SyncPending(g, reg).blockers \union {"pendingRevocation"}
           /\ "pendingRevocation" \in SyncPending(g, reg).blockers => reg.pending # {}
           /\ g.retained \intersect SyncPending(g, reg).blockers
                 \subseteq SyncPending(g, reg).retained
<1> DEFINE h == SyncPending(g, reg)
           b == {"pendingRevocation"}
<1>1. /\ h \in GateType(Blocks) /\ h.generation = g.generation
      /\ h.blockers = IF reg.pending # {} THEN g.blockers \union b ELSE g.blockers \ b
      /\ h.retained = IF reg.pending # {} THEN g.retained \union b ELSE g.retained \ b
  BY SyncEffects
<1> HIDE DEF h
<1>2. CASE reg.pending # {}
  BY <1>1, <1>2 DEF h
<1>3. CASE reg.pending = {}
  BY <1>1, <1>3 DEF h
<1> QED BY <1>2, <1>3

\* The names of the blocks are different ones.
LEMMA BlockNames ==
    /\ \A r \in Refreshers : r \notin PeerKeys /\ r \in Ops
    /\ \A b \in Refreshers \union PeerKeys :
         b \notin {"logout", "logoutFailed", "pendingRevocation", "terminalFailure"}
BY ConstantsAssumption DEF Ops

PeerOwned(k) == \/ k \in recoveryBlocks /\ k \in gate.retained
                \/ k \in TrackedKeys
                \/ PeerLogoutDue(k)

LEMMA PeersOwned ==
    ASSUME TypeInv, BlockInv, NoOrphanBlock, NEW k \in PeerKeys, k \in gate.blockers
    PROVE  PeerOwned(k)
<1>1. k \notin Ending /\ k \notin {"logout", "logoutFailed", "pendingRevocation"}
  BY BlockNames DEF Ending
<1> QED BY <1>1 DEF NoOrphanBlock, PeerOwned

LEMMA PeersOwnedKept ==
    ASSUME TypeInv, BlockInv, NoOrphanBlock, tracked' = tracked, DueLogouts' = DueLogouts,
           gate'.blockers \intersect PeerKeys \subseteq gate.blockers,
           gate.retained \intersect gate'.blockers \subseteq gate'.retained,
           recoveryBlocks \intersect gate'.blockers \subseteq recoveryBlocks'
    PROVE  \A k \in PeerKeys \intersect gate'.blockers : PeerOwned(k)'
<1> SUFFICES ASSUME NEW k \in PeerKeys, k \in gate'.blockers PROVE PeerOwned(k)'
  OBVIOUS
<1>1. PeerOwned(k)
  BY PeersOwned
<1>2. TrackedKeys' = TrackedKeys
  BY DEF TrackedKeys
<1>3. PeerLogoutDue(k) => PeerLogoutDue(k)'
  <2>1. PeerLogoutDue(k)' <=> \E j \in DueLogouts : j.who = k
    BY DEF PeerLogoutDue, PeerJobs, DueLogouts
  <2> QED BY <2>1, DueTypes
<1> QED BY <1>1, <1>2, <1>3 DEF PeerOwned

LEMMA LogoutOwned ==
    ASSUME TypeInv, BlockInv, NoOrphanBlock
    PROVE  "logout" \in gate.blockers <=> logout.pc # "idle"
<1>1. "logout" \notin Ending /\ "logout" \notin PeerKeys
  BY BlockNames DEF Ending
<1>2. "logout" \notin recoveryBlocks /\ "logout" \notin TrackedKeys
  BY <1>1 DEF BlockInv, TrackedKeys
<1> QED BY <1>1, <1>2 DEF NoOrphanBlock, BlockInv

\* Blocks are taken and released, and each has an owner.
LEMMA OwnersHeld ==
    ASSUME TypeInv, BlockInv, NoOrphanBlock,
           gate'.blockers \subseteq
               gate.blockers \union {"logout", "pendingRevocation"} \union Ending'
                   \union PeerKeys \union (gate'.retained \intersect
                                             (recoveryBlocks' \union {"logoutFailed"})),
           gate.retained \intersect gate'.blockers \subseteq gate'.retained,
           "pendingRevocation" \in gate'.blockers => registry'.pending # {},
           "logout" \in gate'.blockers <=> logout'.pc # "idle",
           Ending' \subseteq gate'.blockers, Ending \intersect gate'.blockers \subseteq Ending',
           recoveryBlocks \intersect gate'.blockers \subseteq recoveryBlocks',
           recoveryBlocks' \subseteq PeerKeys \union {"terminalFailure"},
           \A k \in PeerKeys \intersect gate'.blockers : PeerOwned(k)'
    PROVE  BlockInv' /\ NoOrphanBlock'
<1>1. BlockInv'
  BY DEF BlockInv
<1>2. ASSUME NEW b \in gate'.blockers
      PROVE  (\/ b \in Ending
              \/ b = "logout" /\ logout.pc # "idle"
              \/ b = "logoutFailed" /\ b \in gate.retained
              \/ b = "pendingRevocation" /\ registry.pending # {}
              \/ b \in recoveryBlocks /\ b \in gate.retained
              \/ b \in TrackedKeys
              \/ b \in PeerKeys /\ PeerLogoutDue(b))'
  <2>1. CASE b \in PeerKeys
    BY <1>2, <2>1 DEF PeerOwned
  <2>2. CASE b \in {"logout", "pendingRevocation"} \union Ending'
    BY <1>2, <2>2
  <2>3. CASE b \notin PeerKeys \union {"logout", "pendingRevocation"} \union Ending'
    <3>1. CASE b \in gate'.retained \intersect (recoveryBlocks' \union {"logoutFailed"})
      BY <3>1
    <3>2. CASE b \in gate.blockers
      <4>1. b \notin Ending /\ b \notin TrackedKeys
        BY <1>2, <2>3 DEF TrackedKeys
      <4>2. b \in gate.retained /\ (b = "logoutFailed" \/ b \in recoveryBlocks)
        BY <2>3, <3>2, <4>1 DEF NoOrphanBlock
      <4> QED BY <1>2, <4>2
    <3> QED BY <1>2, <2>3, <3>1, <3>2
  <2> QED BY <2>1, <2>2, <2>3
<1> QED BY <1>1, <1>2 DEF NoOrphanBlock

------------------------------------------------------------------------------
(* A credential arrives *)

\* An operation that has no job queues one, and waits for it.
LEMMA JobAppended ==
    ASSUME TypeInv, QueueInv, NEW o \in Ops, NEW from, NEW to, NEW S, Moves(o, from, to, S),
           from \intersect {"saving", "undoing", "ending"} = {},
           NEW kind \in {"save", "end"}, Enqueue(Job(kind, o, 0)),
           JobOwned(Job(kind, o, 0), op', logout.pc),
           logout' = logout, settling' = settling
    PROVE  QueueInv' /\ DueLogouts' = DueLogouts
<1> DEFINE job == Job(kind, o, 0)
<1>1. job \in JobType /\ job.kind = kind /\ job.who = o
  BY DEF Job, JobType
<1>2. queue' = Append(queue, job) /\ JobOwned(job, op', logout.pc)
  BY DEF Enqueue
<1> HIDE DEF job
<1>3. \A i \in DOMAIN queue : queue[i].kind \in {"save", "end"} => queue[i].who \in Ops \ {o}
  BY JobTypes DEF QueueInv, JobOwned, Moves
<1>4. \A i \in DOMAIN queue : JobOwned(queue[i], op', logout'.pc)
  BY <1>3 DEF QueueInv, JobOwned, Moves
<1>5. QueueInv'
  BY <1>1, <1>2, <1>3, <1>4, QueueAppended
<1>6. DueLogouts' = DueLogouts
  BY <1>1, <1>2, DueAppended
<1> QED BY <1>5, <1>6

LEMMA SaveQueued ==
    ASSUME TypeInv, QueueInv, NEW o \in Ops, op[o].pc \in FreshPcs, BeginSave(o),
           logout' = logout, settling' = settling
    PROVE  /\ Moves(o, {op[o].pc}, {"saving"}, {})
           /\ QueueInv' /\ DueLogouts' = DueLogouts
<1>1. "saving" \in Pcs
  BY DEF Pcs, RefreshPcs, LockedPcs
<1>2. Moves(o, {op[o].pc}, {"saving"}, {})
  BY <1>1, MovesStep DEF BeginSave
<1>3. JobOwned(Job("save", o, 0), op', logout.pc)
  BY <1>2 DEF JobOwned, Job, Moves
<1>4. {op[o].pc} \intersect {"saving", "undoing", "ending"} = {}
  BY DEF FreshPcs
<1>5. QueueInv' /\ DueLogouts' = DueLogouts
  BY <1>2, <1>3, <1>4, JobAppended DEF BeginSave
<1> QED BY <1>2, <1>5

LEMMA KeepsAnswered ==
    ASSUME IInv, TypeInv', NEW o \in Ops, Answered(o) PROVE Kept
<1> DEFINE t == op[o].got
           reg == Register(registry, o, t)
<1>1. /\ registry \in RegistryType(Ops, Tokens) /\ t \in Tokens /\ TypeInv
      /\ minted' = minted /\ minted \in Nat /\ minted <= minted
  BY DEF Answered, IInv, TypeInv, TypeOK, HoldsToken
<1>2. Calm /\ Stores({})
  BY DEF Answered, Calm, Stores
<1>3. op[o].pc = "answered" /\ op[o].pc \in FreshPcs
  BY DEF Answered, FreshPcs
<1>4. CASE registry' = reg /\ BeginSave(o)
  <2>1. /\ Moves(o, {op[o].pc}, {"saving"}, {})
        /\ QueueInv' /\ DueLogouts' = DueLogouts
    BY <1>2, <1>3, <1>4, SaveQueued DEF Calm, IInv
  <2>2. /\ registry'.pending = registry.pending
        /\ registry'.candidates \subseteq registry.candidates \union {t}
        /\ registry'.cancelled = registry.cancelled /\ Slots' \subseteq Slots
    BY <1>1, <1>4, HandleEffects DEF Slots
  <2>3. CalmStep(o, {op[o].pc}, {"saving"}, {})
    BY <1>2, <1>3, <2>1, <2>2 DEF CalmStep, Moves, Ending, EndPcs, Ops, SlotPcs
  <2>4. Common' \subseteq Common \union Of(o) \union {None}
    BY <1>2, <2>2 DEF Common, Of, Stores, Calm
  <2>5. FreshInv'
    BY <1>1, <2>1, <2>4, FreshKept DEF FreshPcs, IInv
  <2> QED BY <2>1, <2>3, <2>5, CalmStepKeeps
<1>5. CASE registry' = ReleaseHandle(reg, o, t) /\ Step(o, "disowning") /\ UNCHANGED queueVars
  <2>1. /\ registry'.pending = registry.pending
        /\ registry'.candidates \subseteq registry.candidates
        /\ registry'.cancelled \subseteq registry.cancelled /\ Slots' \subseteq Slots
    <3>1. reg \in RegistryType(Ops, Tokens)
      BY <1>1, HandlesClosed
    <3>2. /\ reg.pending = registry.pending /\ reg.cancelled = registry.cancelled
          /\ reg.candidates = registry.candidates \union {t}
          /\ reg.reserved = registry.reserved \ {o}
      BY <1>1, HandleEffects
    <3> HIDE DEF reg
    <3> QED BY <1>5, <3>1, <3>2, HandleEffects DEF Slots
  <2>2. "disowning" \in Pcs
    BY DEF Pcs, RefreshPcs, LockedPcs
  <2>3. Moves(o, {op[o].pc}, {"disowning"}, {}) /\ op'[o].got = t /\ Of(o)' = Of(o)
    BY <1>1, <1>5, <2>2, MovesStep
  <2>4. OwnStep(o, {op[o].pc}, {"disowning"}, {})
    BY <1>2, <1>3, <1>5, <2>1, <2>3 DEF OwnStep, Aside, JobPcs, EndPcs, SlotPcs
  <2>5. Common' \subseteq Common \union {None}
    BY <1>2, <2>1 DEF Common, Stores, Calm
  <2>6. FreshInv'
    BY <1>1, <1>3, <1>5, <2>2, <2>5, FreshStays DEF IInv
  <2> QED BY <2>4, <2>6, OwnStepKeeps
<1> QED BY <1>4, <1>5 DEF Answered

------------------------------------------------------------------------------
(* Steps within a generation, and steps to the next one *)

LEMMA NobodyMoves ==
    ASSUME TypeInv, op' = op
    PROVE  Continues /\ Ending' = Ending
BY DEF Continues, Active, Ending

LEMMA SameGeneration ==
    ASSUME IInv, TypeInv', Continues, gate'.generation = gate.generation,
           Ending' \subseteq Ending, logout'.pc = "finishing" => logout.pc = "finishing",
           Blocked(gate) => Blocked(gate') \/ Quiet,
           tracked' = tracked, retired' = retired, peerEpoch' = peerEpoch,
           DueLogouts' \subseteq DueLogouts,
           gate'.blockers \intersect PeerKeys = gate.blockers \intersect PeerKeys,
           registry'.cancelled \subseteq registry.cancelled \/ Quiet \/ Blocked(gate'),
           BlockInv', NoOrphanBlock', QueueInv', FreshInv', SlotInv'
    PROVE  Kept
<1>1. LeaseInv' /\ CutStep /\ (Quiet => Quiet')
  BY LeaseKept DEF IInv
<1>2. PeerInv'
  BY <1>1, PeerKept DEF IInv
<1>3. Blocked(gate') <=> Blocked(gate)'
  BY DEF Blocked
<1>4. CancelledIsDead'
  BY <1>1, <1>3, DeadKept DEF IInv
<1> QED BY <1>1, <1>2, <1>4 DEF Kept

LEMMA NextGeneration ==
    ASSUME IInv, TypeInv', Continues, gate'.generation = gate.generation + 1,
           PeerInv', BlockInv', NoOrphanBlock', QueueInv', FreshInv', SlotInv'
    PROVE  Kept
<1>1. LeaseInv' /\ CutStep /\ Quiet'
  BY LeaseRenewed DEF IInv
<1>2. CancelledIsDead'
  BY <1>1, DeadKept DEF IInv
<1> QED BY <1>1, <1>2 DEF Kept

\* Revoking the credential that has arrived settles no other revocation: no block is
\* released with it.
LEMMA KeepsDisowned ==
    ASSUME IInv, TypeInv', NEW o \in Ops, Disowned(o) PROVE Kept
<1> DEFINE t == op[o].got
<1>1. /\ registry \in RegistryType(Ops, Tokens) /\ gate \in GateType(Blocks)
      /\ TypeInv /\ minted' = minted /\ minted \in Nat /\ minted <= minted
  BY DEF Disowned, Revoke, IInv, TypeInv, TypeOK
<1>2. PICK F \in SUBSET {t} :
         LET reg == Retained(registry, {t}, F) IN
         /\ gate' = SyncPending(gate, reg)
         /\ \/ registry' = reg /\ BeginSave(o)
            \/ /\ registry' = ReleaseReservation(reg, o)
               /\ op' = [op EXCEPT ![o] = NoOp] /\ UNCHANGED queueVars
  BY DEF Disowned
<1> DEFINE reg == Retained(registry, {t}, F)
<1>3. /\ op[o].pc = "disowning" /\ op[o].pc \in FreshPcs
      /\ UNCHANGED <<recoveryBlocks, storage, degraded, logout, tracked, retired, peerEpoch,
                     settling>>
  BY DEF Disowned, FreshPcs
<1>4. t \notin registry.pending
  BY <1>3 DEF IInv, FreshInv, Common
<1>5. /\ reg.pending = registry.pending \union F /\ reg.cancelled = registry.cancelled
      /\ reg.candidates = registry.candidates /\ reg.reserved = registry.reserved
      /\ reg \in RegistryType(Ops, Tokens)
  <2>1. F \in SUBSET Tokens
    BY <1>3 DEF IInv, TypeInv, HoldsToken
  <2> QED BY <1>1, <1>4, <2>1, RetainedEffects, RetainedClosed
<1> HIDE DEF reg
<1>6. /\ registry'.pending = reg.pending /\ registry'.candidates = registry.candidates
      /\ registry'.cancelled \subseteq registry.cancelled /\ Slots' \subseteq Slots
  <2>1. registry' \in {reg, ReleaseReservation(reg, o)}
    BY <1>2 DEF reg
  <2> QED BY <1>5, <2>1, SlotEffects DEF Slots
<1>7. gate' = SyncPending(gate, reg)
  BY <1>2 DEF reg
<1>8. PICK to \in {"saving", "idle"} :
         /\ Moves(o, {op[o].pc}, {to}, {}) /\ QueueInv' /\ DueLogouts' = DueLogouts
         /\ to = "idle" => o \notin Slots'
  <2>1. CASE BeginSave(o)
    BY <1>3, <2>1, SaveQueued DEF IInv
  <2>2. CASE /\ registry' = ReleaseReservation(reg, o)
             /\ op' = [op EXCEPT ![o] = NoOp] /\ UNCHANGED queueVars
    <3>1. Moves(o, {op[o].pc}, {"idle"}, {}) /\ DueLogouts' = DueLogouts
      BY <1>1, <1>3, <2>2, MovesEnd, DueSame
    <3>2. QueueInv'
      BY <1>3, <2>2, <3>1, QueueKept DEF IInv
    <3>3. o \notin Slots'
      BY <1>5, <2>2, SlotEffects DEF Slots
    <3> QED BY <3>1, <3>2, <3>3
  <2> QED BY <1>2, <2>1, <2>2 DEF reg
<1>9. Continues /\ Ending' = Ending
  <2>1. Continues
    BY <1>3, <1>8, MoveContinues
  <2> QED BY <1>3, <1>8, <2>1 DEF Moves, Ending, EndPcs, Ops
<1>10. /\ gate'.generation = gate.generation
       /\ gate.blockers \subseteq gate'.blockers
       /\ gate'.blockers \subseteq gate.blockers \union {"pendingRevocation"}
       /\ "pendingRevocation" \in gate'.blockers => registry'.pending # {}
       /\ gate.retained \intersect gate'.blockers \subseteq gate'.retained
  <2> DEFINE b == {"pendingRevocation"}
  <2>1. /\ gate'.generation = gate.generation
        /\ gate'.blockers = IF reg.pending # {} THEN gate.blockers \union b ELSE gate.blockers \ b
        /\ gate'.retained = IF reg.pending # {} THEN gate.retained \union b ELSE gate.retained \ b
    BY <1>1, <1>7, SyncEffects
  <2>2. "pendingRevocation" \in gate.blockers => reg.pending # {}
    BY <1>5 DEF IInv, BlockInv
  <2>3. CASE reg.pending # {}
    BY <1>6, <2>1, <2>3
  <2>4. CASE reg.pending = {}
    BY <1>6, <2>1, <2>2, <2>4
  <2> QED BY <2>3, <2>4
<1>11. gate'.blockers \intersect PeerKeys = gate.blockers \intersect PeerKeys
  BY <1>10, BlockNames
<1>12. \A k \in PeerKeys \intersect gate'.blockers : PeerOwned(k)'
  BY <1>3, <1>8, <1>10, <1>11, PeersOwnedKept DEF IInv
<1>13. "logout" \in gate'.blockers <=> logout'.pc # "idle"
  BY <1>3, <1>10, LogoutOwned DEF IInv
<1>14. BlockInv' /\ NoOrphanBlock'
  BY <1>3, <1>9, <1>10, <1>12, <1>13, OwnersHeld DEF IInv, BlockInv
<1>15. FreshInv'
  <2>1. Common' \subseteq Common \union Of(o) \union {None}
    BY <1>3, <1>5, <1>6 DEF Common, Of
  <2> QED BY <1>1, <1>8, <2>1, FreshKept DEF FreshPcs, IInv
<1>16. SlotInv'
  BY <1>6, <1>8, SlotKept DEF SlotPcs, IInv
<1> QED
  BY <1>3, <1>6, <1>8, <1>9, <1>10, <1>11, <1>14, <1>15, <1>16, SameGeneration DEF Blocked

------------------------------------------------------------------------------
(* A refresh ends its session *)

LEMMA SessionEndKeeps ==
    ASSUME IInv, TypeInv', NEW r \in Refreshers, op[r].pc \in {"reloaded", "rechecked"},
           EndSession(r),
           UNCHANGED <<recoveryBlocks, registry, storage, logout, peerVars, serverVars>>
    PROVE  Kept
<1>1. /\ r \in Ops /\ r \in Blocks /\ op[r] \in OpType /\ gate \in GateType(Blocks)
      /\ TypeInv /\ minted \in Nat /\ minted <= minted
  BY DEF Ops, Blocks, IInv, TypeInv, TypeOK
<1>2. /\ gate'.generation = gate.generation + 1
      /\ gate'.blockers = gate.blockers \union {r} /\ gate'.retained = gate.retained
  <2> DEFINE b == BlockLocal(gate, r)
  <2>1. b \in GateType(Blocks) /\ Terminate(b) \in GateType(Blocks)
    BY <1>1, GateClosed
  <2>2. /\ b.generation = gate.generation /\ b.blockers = gate.blockers \union {r}
        /\ b.retained = gate.retained
    BY <1>1, GateEffects
  <2>3. gate' = BeginPendingOp(Terminate(b))
    BY DEF EndSession, EndWith
  <2> HIDE DEF b
  <2>4. /\ Terminate(b).generation = b.generation + 1 /\ Terminate(b).blockers = b.blockers
        /\ Terminate(b).retained = b.retained
    BY <1>1, <2>1, GateEffects
  <2> QED BY <1>1, <2>1, <2>2, <2>3, <2>4, GateEffects
<1>3. Moves(r, {op[r].pc}, {"ending"}, {})
  <2> DEFINE rec == [op[r] EXCEPT !.pc = "ending", !.invalidate = {op[r].known}]
  <2>1. op' = [op EXCEPT ![r] = rec]
    BY <1>1 DEF EndSession, EndWith, TypeInv, TypeOK
  <2>2. /\ rec.pc = "ending" /\ rec.invalidate = {op[r].known} /\ rec.lease = op[r].lease
        /\ rec.got = op[r].got /\ rec.held = op[r].held /\ rec.known = op[r].known
    BY <1>1 DEF OpType
  <2>3. rec \in OpType
    <3>1. op[r].known \in Tokens
      BY DEF IInv, TypeInv, HoldsToken, KnownPcs
    <3> QED BY <1>1, <3>1 DEF OpType, Pcs, RefreshPcs, LockedPcs, EndPcs
  <2> HIDE DEF rec
  <2> QED BY <1>1, <2>1, <2>2, <2>3, MovesTo DEF Of
<1>4. Continues
  BY <1>1, <1>3, MoveContinues
<1>5. Ending' = Ending \union {r}
  BY <1>1, <1>3 DEF Moves, Ending, EndPcs, Ops
<1>6. QueueInv' /\ DueLogouts' = DueLogouts
  <2>1. Enqueue(Job("end", r, 0))
    BY DEF EndSession, EndWith
  <2>2. JobOwned(Job("end", r, 0), op', logout.pc)
    BY <1>3 DEF JobOwned, Job, Moves
  <2>3. {op[r].pc} \intersect {"saving", "undoing", "ending"} = {}
    OBVIOUS
  <2> QED BY <1>1, <1>3, <2>1, <2>2, <2>3, JobAppended DEF IInv
<1>7. LeaseInv' /\ Quiet'
  BY <1>1, <1>2, <1>4, LeaseRenewed DEF IInv
<1>8. gate'.blockers \intersect PeerKeys = gate.blockers \intersect PeerKeys
  BY <1>2, BlockNames
<1>9. PeerInv'
  BY <1>1, <1>6, <1>7, <1>8, PeerKept DEF IInv
<1>10. \A k \in PeerKeys \intersect gate'.blockers : PeerOwned(k)'
  BY <1>1, <1>2, <1>6, <1>8, PeersOwnedKept DEF IInv
<1>11. /\ "logout" \in gate'.blockers <=> logout'.pc # "idle"
       /\ "pendingRevocation" \in gate'.blockers => registry'.pending # {}
  BY <1>1, <1>2, LogoutOwned, BlockNames DEF IInv, BlockInv
<1>12. BlockInv' /\ NoOrphanBlock'
  BY <1>1, <1>2, <1>5, <1>10, <1>11, OwnersHeld DEF IInv, BlockInv
<1>13. FreshInv'
  <2>1. Common' \subseteq Common \union Of(r) \union {None}
    BY DEF Common, EndSession, EndWith
  <2> QED BY <1>1, <1>3, <2>1, FreshKept DEF FreshPcs, IInv
<1>14. SlotInv'
  BY <1>1, <1>3, SlotKept DEF Slots, SlotPcs, IInv
<1> QED BY <1>2, <1>4, <1>6, <1>9, <1>12, <1>13, <1>14, NextGeneration

LEMMA KeepsReloaded ==
    ASSUME IInv, TypeInv', NEW r \in Refreshers, Reloaded(r) PROVE Kept
<1>1. /\ r \in Ops /\ op[r] \in OpType /\ registry \in RegistryType(Ops, Tokens)
      /\ TypeInv /\ minted \in Nat /\ minted <= minted
  BY DEF Ops, IInv, TypeInv, TypeOK
<1>2. /\ op[r].pc = "reloaded"
      /\ op[r].pc \notin {"idle", "returned"} \union JobPcs \union SlotPcs
      /\ UNCHANGED <<recoveryBlocks, storage, logout, peerVars, serverVars>>
  BY DEF Reloaded, JobPcs, SlotPcs
<1>3. CASE EndSession(r) /\ UNCHANGED registry
  BY <1>2, <1>3, SessionEndKeeps
<1>4. CASE UNCHANGED <<gate, degraded, queueVars, ended>>
  <2>1. Aside /\ Stores(Of(r))
    BY <1>2, <1>4 DEF Aside, Calm, Stores
  <2>2. CASE op' = [op EXCEPT ![r] = NoOp] /\ UNCHANGED registry
    BY <1>1, <1>2, <2>1, <2>2, MovesEnd, LeaveKeeps
  <2>3. CASE Return(r, op[r].got) /\ UNCHANGED registry
    <3>1. op[r].got \in Of(r) /\ op[r].got \in MaybeToken
      BY <1>1 DEF Of, OpType
    <3> QED BY <1>1, <1>2, <2>1, <2>3, <3>1, MovesReturn, LeaveKeeps
  <2>4. CASE /\ registry' = Reserve(registry, r)
             /\ op' = [op EXCEPT ![r].pc = "posted", ![r].known = op[r].got]
    <3> DEFINE rec == [op[r] EXCEPT !.pc = "posted", !.known = op[r].got]
    <3>1. "posted" \in Pcs
      BY DEF Pcs, RefreshPcs, LockedPcs
    <3>2. /\ rec \in OpType /\ rec.pc = "posted" /\ rec.known = op[r].got
          /\ rec.got = op[r].got /\ rec.held = op[r].held
          /\ rec.invalidate = op[r].invalidate /\ rec.lease = op[r].lease
      BY <1>1, <3>1 DEF OpType
    <3>3. op' = [op EXCEPT ![r] = rec]
      BY <1>1, <2>4 DEF TypeInv, TypeOK
    <3> HIDE DEF rec
    <3>4. Moves(r, {op[r].pc}, {"posted"}, {})
      BY <1>1, <3>2, <3>3, MovesTo DEF Of
    <3>5. /\ registry'.pending = registry.pending /\ registry'.cancelled = registry.cancelled
          /\ registry'.candidates = registry.candidates /\ Slots' = Slots \union {r}
      BY <1>1, <2>4, SlotEffects DEF Slots
    <3>6. OwnStep(r, {op[r].pc}, {"posted"}, {})
      BY <1>2, <2>1, <3>4, <3>5 DEF OwnStep, EndPcs, SlotPcs
    <3>7. Common' \subseteq Common \union Of(r) \union {None}
      BY <2>1, <3>5 DEF Common, Stores, Aside, Calm
    <3> QED BY <1>1, <1>2, <3>6, <3>7, OwnStepPlain DEF FreshPcs
  <2> QED BY <1>4, <2>2, <2>3, <2>4, <1>3 DEF Reloaded
<1> QED BY <1>3, <1>4 DEF Reloaded

LEMMA KeepsRechecked ==
    ASSUME IInv, TypeInv', NEW r \in Refreshers, Rechecked(r) PROVE Kept
<1>1. r \in Ops /\ TypeInv /\ minted \in Nat /\ minted <= minted
  BY DEF Ops, IInv, TypeInv, TypeOK
<1>2. /\ op[r].pc = "rechecked" /\ op[r].pc \notin {"idle", "returned"} \union JobPcs
      /\ UNCHANGED <<recoveryBlocks, storage, logout, peerVars, serverVars>>
  BY DEF Rechecked, JobPcs
<1>3. CASE EndSession(r) /\ UNCHANGED registry
  BY <1>2, <1>3, SessionEndKeeps
<1>4. CASE Throw(r) /\ UNCHANGED <<gate, degraded, queueVars, ended>>
  <2>1. Aside /\ Stores(Of(r))
    BY <1>2, <1>4 DEF Aside, Calm, Stores
  <2> QED BY <1>1, <1>2, <1>4, <2>1, ThrowKeeps
<1>5. CASE /\ degraded' = None /\ Step(r, "announcing")
           /\ UNCHANGED <<gate, registry, queueVars, ended>>
  <2>1. Aside /\ Stores({})
    BY <1>2, <1>5 DEF Aside, Calm, Stores
  <2>2. /\ "announcing" \in Pcs /\ "announcing" \in SlotPcs
        /\ "announcing" \notin EndPcs \union FreshPcs
    BY DEF Pcs, RefreshPcs, LockedPcs, SlotPcs, EndPcs, FreshPcs
  <2>3. Moves(r, {op[r].pc}, {"announcing"}, {})
    BY <1>1, <1>5, <2>2, MovesStep
  <2> QED BY <1>1, <1>2, <1>5, <2>1, <2>2, <2>3, GoOnKeeps
<1> QED BY <1>3, <1>4, <1>5 DEF Rechecked

\* The block of a transition goes when everything in progress is older than it.
LEMMA KeepsEndRevoked ==
    ASSUME IInv, TypeInv', NEW r \in Refreshers, EndRevoked(r) PROVE Kept
<1>1. /\ r \in Ops /\ r \in Blocks /\ op[r] \in OpType /\ gate \in GateType(Blocks)
      /\ registry \in RegistryType(Ops, Tokens)
      /\ TypeInv /\ minted \in Nat /\ minted <= minted /\ minted' = minted
  BY DEF EndRevoked, Revoke, Ops, Blocks, IInv, TypeInv, TypeOK
<1>2. PICK F \in SUBSET op[r].invalidate :
         LET reg == Retained(registry, op[r].invalidate, F)
             g   == EndPendingOp(SyncPending(gate, reg)) IN
         /\ registry' = ReleaseReservation(reg, r)
         /\ gate' = ReleaseLocal(IF op[r].clearFailed
                                 THEN RetainTerminalFailure(g) ELSE g, r)
  BY DEF EndRevoked
<1> DEFINE reg == Retained(registry, op[r].invalidate, F)
           s == SyncPending(gate, reg)
           g == EndPendingOp(s)
           h == IF op[r].clearFailed THEN RetainTerminalFailure(g) ELSE g
           failed == IF op[r].clearFailed THEN {"terminalFailure"} ELSE {}
<1>3. /\ op[r].pc = "revoking" /\ op' = [op EXCEPT ![r] = NoOp]
      /\ UNCHANGED <<storage, degraded, logout, queue, tracked, retired, peerEpoch, settling>>
      /\ recoveryBlocks' = recoveryBlocks \union failed
  BY DEF EndRevoked
<1>4. /\ reg.pending = (registry.pending \ op[r].invalidate) \union F
      /\ reg.cancelled = registry.cancelled /\ reg.candidates = registry.candidates
      /\ reg.reserved = registry.reserved /\ reg \in RegistryType(Ops, Tokens)
  <2>1. F \in SUBSET Tokens
    BY <1>1 DEF OpType
  <2> QED BY <1>1, <2>1, RetainedEffects, RetainedClosed
<1>5. registry' = ReleaseReservation(reg, r) /\ gate' = ReleaseLocal(h, r)
  BY <1>2
<1> HIDE DEF reg
<1>6. /\ registry'.pending = reg.pending /\ registry'.candidates = registry.candidates
      /\ registry'.cancelled \subseteq registry.cancelled
      /\ Slots' \subseteq Slots /\ r \notin Slots'
  BY <1>4, <1>5, SlotEffects DEF Slots
<1>7. /\ s \in GateType(Blocks) /\ s.generation = gate.generation
      /\ s.blockers \subseteq gate.blockers \union {"pendingRevocation"}
      /\ gate.blockers \subseteq s.blockers \union {"pendingRevocation"}
      /\ "pendingRevocation" \in s.blockers => reg.pending # {}
      /\ gate.retained \intersect s.blockers \subseteq s.retained
  BY <1>1, SyncBounds
<1> HIDE DEF s
<1>8. /\ g \in GateType(Blocks) /\ g.generation = s.generation
      /\ g.blockers = s.blockers /\ g.retained = s.retained
  BY <1>1, <1>7, GateClosed, GateEffects
<1> HIDE DEF g
<1>9. /\ h \in GateType(Blocks) /\ h.generation = g.generation
      /\ h.blockers = g.blockers \union failed /\ h.retained = g.retained \union failed
  <2>1. "terminalFailure" \in Blocks
    BY DEF Blocks
  <2> QED BY <1>8, <2>1, GateClosed, GateEffects DEF RetainTerminalFailure
<1> HIDE DEF h
<1>10. /\ gate'.generation = h.generation
       /\ gate'.blockers = h.blockers \ {r} /\ gate'.retained = h.retained \ {r}
  BY <1>1, <1>5, <1>9, GateEffects
<1>11. /\ failed \subseteq {"terminalFailure"}
       /\ r \notin {"logout", "logoutFailed", "pendingRevocation", "terminalFailure"}
       /\ r \notin PeerKeys
  BY BlockNames
<1> HIDE DEF failed
<1>12. Moves(r, {op[r].pc}, {"idle"}, {})
  BY <1>1, <1>3, MovesEnd
<1>13. Continues /\ Ending' = Ending \ {r} /\ r \in Ending
  <2>1. Continues
    BY <1>1, <1>3, <1>12, MoveContinues
  <2> QED BY <1>1, <1>3, <1>12, <2>1 DEF Moves, Ending, EndPcs, Ops
<1>14. Quiet
  BY <1>13 DEF IInv, LeaseInv
<1>15. QueueInv' /\ DueLogouts' = DueLogouts
  <2>1. {op[r].pc} \intersect {"saving", "undoing", "ending"} = {}
    BY <1>3
  <2> QED BY <1>1, <1>3, <1>12, <2>1, QueueKept, DueSame DEF IInv
<1>16. gate'.blockers \intersect PeerKeys = gate.blockers \intersect PeerKeys
  BY <1>7, <1>8, <1>9, <1>10, <1>11, BlockNames
<1>17. gate.retained \intersect gate'.blockers \subseteq gate'.retained
  <2>1. ASSUME NEW b \in gate.retained, b \in gate'.blockers PROVE b \in gate'.retained
    BY <1>7, <1>8, <1>9, <1>10, <2>1
  <2> QED BY <2>1
<1>18. \A k \in PeerKeys \intersect gate'.blockers : PeerOwned(k)'
  BY <1>1, <1>3, <1>15, <1>16, <1>17, PeersOwnedKept DEF IInv
<1>19. /\ "logout" \in gate'.blockers <=> logout'.pc # "idle"
       /\ "pendingRevocation" \in gate'.blockers => registry'.pending # {}
  <2>1. "logout" \in gate.blockers <=> logout.pc # "idle"
    BY <1>1, LogoutOwned DEF IInv
  <2> QED BY <1>3, <1>6, <1>7, <1>8, <1>9, <1>10, <1>11, <2>1
<1>20. BlockInv' /\ NoOrphanBlock'
  <2>1. gate'.blockers \subseteq gate.blockers \union {"pendingRevocation"}
                         \union (gate'.retained \intersect recoveryBlocks')
    BY <1>3, <1>7, <1>8, <1>9, <1>10, <1>11
  <2>2. Ending' \subseteq gate'.blockers
    <3>1. Ending \subseteq Refreshers /\ Ending \subseteq gate.blockers
      BY DEF Ending, IInv, BlockInv
    <3> QED BY <1>7, <1>8, <1>9, <1>10, <1>13, <3>1, BlockNames
  <2>3. Ending \intersect gate'.blockers \subseteq Ending'
    BY <1>10, <1>13
  <2>4. /\ recoveryBlocks \subseteq recoveryBlocks'
        /\ recoveryBlocks' \subseteq PeerKeys \union {"terminalFailure"}
    BY <1>3, <1>11 DEF IInv, BlockInv
  <2> QED BY <1>17, <1>18, <1>19, <2>1, <2>2, <2>3, <2>4, OwnersHeld DEF IInv
<1>21. FreshInv'
  <2>1. Common' \subseteq Common \union Of(r) \union {None}
    <3>1. registry'.pending \subseteq registry.pending \union Of(r)
      BY <1>4, <1>6 DEF Of
    <3> QED BY <1>3, <1>6, <3>1 DEF Common
  <2> QED BY <1>1, <1>12, <2>1, FreshKept DEF FreshPcs, IInv
<1>22. SlotInv'
  BY <1>1, <1>6, <1>12, SlotKept DEF IInv
<1>23. gate'.generation = gate.generation
  BY <1>7, <1>8, <1>9, <1>10
<1> QED
  BY <1>3, <1>6, <1>13, <1>14, <1>15, <1>16, <1>20, <1>21, <1>22, <1>23, SameGeneration

------------------------------------------------------------------------------
(* Nobody moves *)

\* No operation moves, and no credential is new: the stores may lose what they held.
LEMMA StandsStill ==
    ASSUME IInv, TypeInv', op' = op, registry' = registry, Aside, Stores({}),
           minted' = minted
    PROVE  Kept
<1>1. Continues /\ Ending' = Ending
  BY NobodyMoves DEF IInv
<1>2. DueLogouts' = DueLogouts
  BY DueSame DEF Aside, Calm
<1>3. BlockInv' /\ NoOrphanBlock'
  BY <1>1, <1>2, OwnersKept DEF IInv, Aside, Calm
<1>4. QueueInv'
  BY QueueUntouched DEF IInv, Aside, Calm
<1>5. FreshInv'
  <2>1. Common' \subseteq Common \union {None}
    BY DEF Common, Stores, Aside, Calm
  <2> QED BY <2>1, FreshUntouched DEF IInv
<1>6. SlotInv'
  <2>1. SlotInv
    BY DEF IInv
  <2>2. registry'.reserved = registry.reserved /\ registry'.cancelled = registry.cancelled
    OBVIOUS
  <2> QED BY <2>1, <2>2 DEF SlotInv
<1> QED BY <1>1, <1>2, <1>3, <1>4, <1>5, <1>6, SameGeneration DEF Aside, Calm

------------------------------------------------------------------------------
(* Operations begin *)

LEMMA BeginKeeps ==
    ASSUME IInv, TypeInv', NEW o \in Ops, op[o].pc \in {"idle", "returned"},
           ~Blocked(gate), Aside, Stores({}), minted' = minted,
           NEW rec \in OpType, rec.lease = gate.generation, op' = [op EXCEPT ![o] = rec],
           rec.pc \notin EndPcs \union FreshPcs,
           {rec.got, rec.known, rec.held} \union rec.invalidate \subseteq Common \union {None},
           \/ registry' = registry
           \/ registry' = Reserve(registry, o) /\ rec.pc \in SlotPcs
    PROVE  Kept
<1>1. /\ registry \in RegistryType(Ops, Tokens) /\ TypeInv
      /\ minted \in Nat /\ minted <= minted
  BY DEF IInv, TypeInv, TypeOK
<1>2. /\ registry'.pending = registry.pending /\ registry'.cancelled = registry.cancelled
      /\ registry'.candidates = registry.candidates
      /\ Slots' \subseteq Slots \union {o}
      /\ rec.pc \in SlotPcs \/ o \notin Slots'
  <2>1. CASE registry' = registry
    BY <2>1 DEF Slots, SlotPcs, IInv, SlotInv
  <2>2. CASE registry' = Reserve(registry, o) /\ rec.pc \in SlotPcs
    BY <1>1, <2>2, SlotEffects DEF Slots
  <2> QED BY <2>1, <2>2
<1>3. Moves(o, {op[o].pc}, {rec.pc}, Common)
  BY <1>1, MovesTo
<1>4. LeaseInv' /\ CutStep /\ Ending' = Ending
  BY LeaseBegun DEF IInv, Aside, Calm
<1>5. DueLogouts' = DueLogouts
  BY DueSame DEF Aside, Calm
<1>6. BlockInv' /\ NoOrphanBlock'
  BY <1>1, <1>2, <1>4, <1>5, OwnersKept DEF IInv, Aside, Calm
<1>7. QueueInv'
  BY <1>3, QueueKept DEF IInv, Aside, Calm
<1>8. PeerInv'
  <2>1. gate'.blockers = {}
    BY DEF Blocked, Aside, Calm
  <2> QED BY <1>5, <2>1, PeerKept DEF IInv, Aside, Calm
<1>9. FreshInv'
  <2>1. Common' \subseteq Common \union Of(o) \union {None}
    BY <1>2 DEF Common, Stores, Aside, Calm
  <2> QED BY <1>1, <1>3, <2>1, FreshKept DEF IInv
<1>10. SlotInv'
  <2>1. {rec.pc} \subseteq SlotPcs \/ o \notin Slots'
    BY <1>2
  <2>2. SlotInv /\ TypeInv
    BY DEF IInv
  <2>3. Slots' \subseteq Slots \union {o}
    BY <1>2
  <2> QED BY <1>3, <2>1, <2>2, <2>3, SlotKept
<1>11. CancelledIsDead'
  BY <1>2, <1>4, <1>10, DeadKept DEF IInv
<1> QED BY <1>4, <1>6, <1>7, <1>8, <1>9, <1>10, <1>11 DEF Kept

LEMMA KeepsCall ==
    ASSUME IInv, TypeInv', NEW r \in Refreshers, NEW pc \in {"reading", "loading"},
           Call(r, pc)
    PROVE  Kept
<1> DEFINE fresh == [NoOp EXCEPT !.lease = gate.generation]
           rec == IF degraded # None THEN [fresh EXCEPT !.pc = AnswerOf[pc], !.got = degraded]
                                     ELSE [fresh EXCEPT !.pc = pc]
<1>1. r \in Ops /\ gate.generation \in Nat /\ degraded \in MaybeToken
  BY DEF Ops, IInv, TypeInv, TypeOK, GateType
<1>2. /\ fresh \in OpType /\ fresh.lease = gate.generation /\ fresh.got = None
      /\ fresh.known = None /\ fresh.held = None /\ fresh.invalidate = {}
  BY <1>1, NoOpTyped DEF OpType, NoOp
<1> HIDE DEF fresh
<1>3. AnswerOf[pc] \in {"read", "loaded"}
  BY DEF AnswerOf
<1>4. \A pp \in {"read", "loaded", "reading", "loading"} :
         pp \in Pcs /\ pp \notin EndPcs \union FreshPcs
  BY DEF Pcs, RefreshPcs, LockedPcs, EndPcs, FreshPcs
<1>5. /\ rec \in OpType /\ rec.pc \in {"read", "loaded", "reading", "loading"}
      /\ rec.lease = gate.generation /\ rec.got \in {degraded, None}
      /\ rec.known = None /\ rec.held = None /\ rec.invalidate = {}
  BY <1>1, <1>2, <1>3, <1>4 DEF OpType
<1>6. op' = [op EXCEPT ![r] = rec]
  BY DEF Call, fresh
<1> HIDE DEF rec
<1>7. {rec.got, rec.known, rec.held} \union rec.invalidate \subseteq Common \union {None}
  BY <1>5 DEF Common
<1>8. /\ op[r].pc \in {"idle", "returned"} /\ ~Blocked(gate) /\ Aside /\ Stores({})
      /\ minted' = minted /\ registry' = registry
  BY DEF Call, Aside, Calm, Stores
<1> QED BY <1>1, <1>4, <1>5, <1>6, <1>7, <1>8, BeginKeeps

LEMMA KeepsCallbackCall ==
    ASSUME IInv, TypeInv', NEW c \in Callbacks, CallbackCall(c) PROVE Kept
<1> DEFINE rec == [NoOp EXCEPT !.pc = "posted", !.lease = gate.generation]
<1>1. c \in Ops /\ gate.generation \in Nat
  BY DEF Ops, IInv, TypeInv, TypeOK, GateType
<1>2. /\ op[c].pc \in {"idle", "returned"} /\ ~Blocked(gate) /\ Aside /\ Stores({})
      /\ minted' = minted
  BY DEF CallbackCall, Aside, Calm, Stores
<1>3. "posted" \in Pcs /\ "posted" \in SlotPcs /\ "posted" \notin EndPcs \union FreshPcs
  BY DEF Pcs, RefreshPcs, LockedPcs, SlotPcs, EndPcs, FreshPcs
<1>4. CASE UNCHANGED <<op, registry>>
  BY <1>1, <1>2, <1>4, StandsStill
<1>5. CASE registry' = Reserve(registry, c) /\ op' = [op EXCEPT ![c] = rec]
  <2>1. /\ rec \in OpType /\ rec.pc = "posted" /\ rec.lease = gate.generation
        /\ rec.got = None /\ rec.known = None /\ rec.held = None /\ rec.invalidate = {}
    BY <1>1, <1>3, NoOpTyped DEF OpType, NoOp
  <2> HIDE DEF rec
  <2>2. {rec.got, rec.known, rec.held} \union rec.invalidate \subseteq Common \union {None}
    BY <2>1
  <2> QED BY <1>1, <1>2, <1>3, <1>5, <2>1, <2>2, BeginKeeps
<1> QED BY <1>4, <1>5 DEF CallbackCall

LEMMA KeepsOnTokenUpdated ==
    ASSUME IInv, TypeInv', NEW u \in Updates, OnTokenUpdated(u) PROVE Kept
<1> DEFINE rec == [NoOp EXCEPT !.pc = "updating", !.lease = gate.generation]
<1>1. u \in Ops /\ gate.generation \in Nat
  BY DEF Ops, IInv, TypeInv, TypeOK, GateType
<1>2. /\ op[u].pc \in {"idle", "returned"} /\ ~Blocked(gate) /\ Aside /\ Stores({})
      /\ minted' = minted /\ registry' = registry
  BY DEF OnTokenUpdated, Aside, Calm, Stores
<1>3. "updating" \in Pcs /\ "updating" \notin EndPcs \union FreshPcs
  BY DEF Pcs, RefreshPcs, LockedPcs, EndPcs, FreshPcs
<1>4. /\ rec \in OpType /\ rec.pc = "updating" /\ rec.lease = gate.generation
      /\ rec.got = None /\ rec.known = None /\ rec.held = None /\ rec.invalidate = {}
  BY <1>1, <1>3, NoOpTyped DEF OpType, NoOp
<1>5. op' = [op EXCEPT ![u] = rec]
  BY DEF OnTokenUpdated
<1> HIDE DEF rec
<1>6. {rec.got, rec.known, rec.held} \union rec.invalidate \subseteq Common \union {None}
  BY <1>4
<1> QED BY <1>1, <1>2, <1>3, <1>4, <1>5, <1>6, BeginKeeps

------------------------------------------------------------------------------
(* The storage queue moves *)

LEMMA HeadOwned ==
    ASSUME TypeInv, QueueInv, NEW kind, NextJob(kind)
    PROVE  /\ queue # <<>> /\ 1 \in DOMAIN queue /\ queue[1] = Head(queue)
           /\ Head(queue) \in JobType /\ Head(queue).kind = kind
           /\ JobOwned(Head(queue), op, logout.pc)
<1>1. /\ queue # <<>> /\ 1 \in DOMAIN queue /\ queue[1] = Head(queue)
      /\ Head(queue) \in JobType /\ Head(queue).kind = kind
  BY DEF NextJob, TypeInv, TypeOK
<1> QED BY <1>1 DEF QueueInv

LEMMA SaveStepKeeps ==
    ASSUME IInv, TypeInv', NextJob("save"), NEW to \in {"saved", "saveFailed", "undoing"},
           op[Head(queue).who].pc \in {"saving", "undoing"}, Step(Head(queue).who, to),
           \/ queue' = Tail(queue)
           \/ queue' = queue /\ op[Head(queue).who].pc = "saving" /\ to = "undoing",
           Calm, Stores(Of(Head(queue).who)), registry' = registry, minted' = minted
    PROVE  Kept
<1> DEFINE o == Head(queue).who
<1>1. /\ o \in Ops /\ queue # <<>> /\ Head(queue).kind = "save"
      /\ TypeInv /\ minted \in Nat /\ minted <= minted
  <2>1. TypeInv /\ QueueInv /\ minted \in Nat /\ minted <= minted
    BY DEF IInv, TypeInv, TypeOK
  <2>2. queue # <<>> /\ Head(queue) \in JobType /\ Head(queue).kind = "save"
    BY <2>1, HeadOwned
  <2>3. o \in Ops
    BY <2>1, <2>2, JobTypes
  <2> QED BY <2>1, <2>2, <2>3
<1> HIDE DEF o
<1>2. /\ to \in Pcs /\ to \notin EndPcs \union FreshPcs /\ to \in SlotPcs
      /\ op[o].pc \notin {"idle", "returned"} \union EndPcs
  BY DEF Pcs, RefreshPcs, LockedPcs, EndPcs, FreshPcs, SlotPcs, o
<1>3. Moves(o, {op[o].pc}, {to}, {})
  BY <1>1, <1>2, MovesStep DEF o
<1>4. QueueInv' /\ DueLogouts' = DueLogouts
  <2>1. CASE queue' = Tail(queue)
    <3>1. QueueInv'
      BY <1>1, <1>3, <2>1, HeadMoves DEF o, Calm, IInv
    <3>2. DueLogouts' = DueLogouts
      BY <1>1, <2>1, DueShortened DEF Calm
    <3> QED BY <3>1, <3>2
  <2>2. CASE queue' = queue /\ op[o].pc = "saving" /\ to = "undoing"
    BY <1>1, <1>3, <2>2, QueueKept, DueSame DEF Calm, IInv
  <2> QED BY <2>1, <2>2 DEF o
<1>5. Slots' = Slots
  BY DEF Slots
<1>6. CalmStep(o, {op[o].pc}, {to}, {})
  BY <1>1, <1>2, <1>3, <1>5 DEF CalmStep, Moves, Ending, Ops
<1>7. FreshInv'
  <2>1. Common' \subseteq Common \union Of(o) \union {None}
    BY DEF Common, Stores, Calm, o
  <2> QED BY <1>1, <1>2, <1>3, <2>1, FreshKept DEF IInv
<1> QED BY <1>1, <1>4, <1>6, <1>7, CalmStepKeeps

LEMMA KeepsStartSave ==
    ASSUME IInv, TypeInv', StartSave PROVE Kept
<1>1. /\ NextJob("save") /\ Calm /\ Stores({}) /\ Stores(Of(Head(queue).who))
      /\ registry' = registry /\ minted' = minted
  BY DEF StartSave, Calm, Stores
<1>2. CASE UNCHANGED <<queue, op>>
  BY <1>1, <1>2, StandsStill DEF Aside
<1>3. CASE Dequeue /\ Step(Head(queue).who, "saveFailed")
  <2>1. op[Head(queue).who].pc \in {"saving", "undoing"}
    BY <1>1, HeadOwned DEF JobOwned, IInv
  <2>2. queue' = Tail(queue)
    BY <1>3 DEF Dequeue
  <2> QED BY <1>1, <1>3, <2>1, <2>2, SaveStepKeeps
<1> QED BY <1>2, <1>3 DEF StartSave

LEMMA KeepsFinishSave ==
    ASSUME IInv, TypeInv', FinishSave PROVE Kept
<1> DEFINE o == Head(queue).who
<1>1. /\ NextJob("save") /\ op[o].pc = "saving" /\ Calm /\ Stores(Of(o))
      /\ registry' = registry /\ minted' = minted
  <2>1. storage' \in {storage, op[o].got}
    BY DEF FinishSave
  <2> QED BY <2>1 DEF FinishSave, Calm, Stores, Of
<1>2. CASE Dequeue /\ Step(o, "saved")
  BY <1>1, <1>2, SaveStepKeeps DEF Dequeue
<1>3. CASE Step(o, "undoing") /\ UNCHANGED queueVars
  BY <1>1, <1>3, SaveStepKeeps
<1>4. CASE Dequeue /\ Step(o, "saveFailed")
  BY <1>1, <1>4, SaveStepKeeps DEF Dequeue
<1>5. \/ Dequeue /\ Step(o, "saved")
      \/ Step(o, "undoing") /\ UNCHANGED queueVars
      \/ Dequeue /\ Step(o, "saveFailed")
  BY DEF FinishSave, SaveLanded, SaveRejected, Valid
<1> QED BY <1>2, <1>3, <1>4, <1>5

LEMMA KeepsUndoSave ==
    ASSUME IInv, TypeInv', UndoSave PROVE Kept
<1>1. /\ NextJob("save") /\ op[Head(queue).who].pc \in {"saving", "undoing"}
      /\ Calm /\ Stores(Of(Head(queue).who)) /\ registry' = registry /\ minted' = minted
      /\ queue' = Tail(queue) /\ Step(Head(queue).who, "saveFailed")
  BY DEF UndoSave, Calm, Stores, Dequeue
<1> QED BY <1>1, SaveStepKeeps

\* The drain of a refresh that ends its session cancels what began before it.
LEMMA KeepsStartEnd ==
    ASSUME IInv, TypeInv', StartEnd PROVE Kept
<1> DEFINE o == Head(queue).who
           rec == [op[o] EXCEPT !.invalidate = @ \union Drained(registry)]
<1>1. /\ o \in Refreshers /\ o \in Ops /\ op[o].pc = "ending" /\ op[o] \in OpType
      /\ registry \in RegistryType(Ops, Tokens)
      /\ TypeInv /\ minted' = minted /\ minted \in Nat /\ minted <= minted
  BY HeadOwned DEF StartEnd, JobOwned, Ops, IInv, TypeInv, TypeOK
<1>2. /\ op' = [op EXCEPT ![o] = rec] /\ registry' = AfterDrain(registry)
      /\ Calm /\ Stores({}) /\ queue' = queue
  BY <1>1 DEF StartEnd, TypeInv, TypeOK, Calm, Stores
<1> HIDE DEF o
<1>3. Drained(registry) \subseteq Tokens /\ Drained(registry) \subseteq Common
  BY <1>1, DrainClosed DEF Drained, Common
<1>4. /\ rec \in OpType /\ rec.pc = "ending" /\ rec.lease = op[o].lease
      /\ rec.got = op[o].got /\ rec.known = op[o].known /\ rec.held = op[o].held
      /\ rec.invalidate = op[o].invalidate \union Drained(registry)
  BY <1>1, <1>3 DEF OpType
<1> HIDE DEF rec
<1>5. Moves(o, {op[o].pc}, {"ending"}, Drained(registry))
  <2>1. {rec.got, rec.known, rec.held} \union rec.invalidate
            \subseteq Of(o) \union Drained(registry) \union {None}
    BY <1>4 DEF Of
  <2>2. Moves(o, {op[o].pc}, {rec.pc}, Drained(registry))
    BY <1>1, <1>2, <1>4, <2>1, MovesTo
  <2> QED BY <1>4, <2>2
<1>6. /\ registry'.pending = registry.pending /\ registry'.candidates \subseteq registry.candidates
      /\ Slots' = Slots
  BY <1>1, <1>2, DrainEffects DEF Slots
<1>7. Quiet
  <2>1. o \in Ending
    BY <1>1 DEF Ending, EndPcs
  <2> QED BY <2>1 DEF IInv, LeaseInv
<1>8. Ending' = Ending
  BY <1>1, <1>5 DEF Moves, Ending, Ops
<1>9. CalmStep(o, {op[o].pc}, {"ending"}, Drained(registry))
  BY <1>1, <1>2, <1>5, <1>6, <1>7, <1>8 DEF CalmStep, SlotPcs
<1>10. QueueInv' /\ DueLogouts' = DueLogouts
  <2>1. op'[o].pc = op[o].pc
    BY <1>1, <1>5 DEF Moves
  <2> QED BY <1>1, <1>2, <1>5, <2>1, QueueKept, DueSame DEF Calm, IInv
<1>11. FreshInv'
  <2>1. Common' \subseteq Common \union Of(o) \union {None}
    BY <1>2, <1>6 DEF Common, Stores, Calm
  <2> QED BY <1>1, <1>3, <1>5, <2>1, FreshKept DEF FreshPcs, IInv
<1> QED BY <1>1, <1>9, <1>10, <1>11, CalmStepKeeps

LEMMA KeepsFinishEnd ==
    ASSUME IInv, TypeInv', FinishEnd PROVE Kept
<1> DEFINE o == Head(queue).who
<1>1. /\ o \in Refreshers /\ o \in Ops /\ op[o].pc = "ending" /\ op[o] \in OpType
      /\ queue # <<>> /\ Head(queue).kind = "end" /\ NextJob("end")
      /\ TypeInv /\ minted' = minted /\ minted \in Nat /\ minted <= minted
  BY HeadOwned DEF FinishEnd, JobOwned, Ops, IInv, TypeInv, TypeOK
<1>2. PICK cleared \in BOOLEAN :
         /\ storage' = IF cleared THEN None ELSE storage
         /\ op' = [op EXCEPT ![o].pc = "revoking", ![o].clearFailed = ~cleared]
  BY DEF FinishEnd
<1> DEFINE rec == [op[o] EXCEPT !.pc = "revoking", !.clearFailed = ~cleared]
<1>3. Calm /\ Stores({}) /\ registry' = registry /\ queue' = Tail(queue)
  BY <1>2 DEF FinishEnd, Dequeue, Calm, Stores
<1>4. op' = [op EXCEPT ![o] = rec]
  BY <1>1, <1>2 DEF TypeInv, TypeOK
<1>5. "revoking" \in Pcs
  BY DEF Pcs, RefreshPcs, LockedPcs, EndPcs
<1>6. /\ rec \in OpType /\ rec.pc = "revoking" /\ rec.lease = op[o].lease
      /\ rec.got = op[o].got /\ rec.known = op[o].known /\ rec.held = op[o].held
      /\ rec.invalidate = op[o].invalidate
  BY <1>1, <1>5 DEF OpType
<1> HIDE DEF rec
<1>7. Moves(o, {op[o].pc}, {"revoking"}, {})
  <2>1. {rec.got, rec.known, rec.held} \union rec.invalidate
            \subseteq Of(o) \union {} \union {None}
    BY <1>6 DEF Of
  <2>2. Moves(o, {op[o].pc}, {rec.pc}, {})
    BY <1>1, <1>4, <1>6, <2>1, MovesTo
  <2> QED BY <1>6, <2>2
<1>8. QueueInv' /\ DueLogouts' = DueLogouts
  BY <1>1, <1>3, <1>7, HeadMoves, DueShortened DEF Calm, IInv
<1>9. Ending' = Ending
  BY <1>1, <1>7 DEF Moves, Ending, EndPcs, Ops
<1>10. CalmStep(o, {op[o].pc}, {"revoking"}, {})
  BY <1>1, <1>3, <1>7, <1>9 DEF CalmStep, Slots, SlotPcs
<1>11. FreshInv'
  <2>1. Common' \subseteq Common \union Of(o) \union {None}
    BY <1>3 DEF Common, Stores, Calm
  <2> QED BY <1>1, <1>7, <2>1, FreshKept DEF FreshPcs, IInv
<1> QED BY <1>1, <1>8, <1>10, <1>11, CalmStepKeeps

------------------------------------------------------------------------------
(* The logout of this tab *)

\* Its drain cancels what is outstanding while it blocks.
LEMMA KeepsStartLogoutClear ==
    ASSUME IInv, TypeInv', StartLogoutClear PROVE Kept
<1>1. /\ TypeInv /\ registry \in RegistryType(Ops, Tokens) /\ logout \in LogoutType
      /\ QueueInv
  BY DEF IInv, TypeInv, TypeOK
<1>2. NextJob("logout")
  BY DEF StartLogoutClear
<1>3. logout.pc = "clearing"
  <2>1. JobOwned(Head(queue), op, logout.pc) /\ Head(queue).kind = "logout"
    BY <1>1, <1>2, HeadOwned
  <2> QED BY <2>1 DEF JobOwned
<1>4. PICK read \in {None, storage} :
         logout' = [logout EXCEPT !.invalidate = @ \union Drained(registry)
                                                      \union ({read} \ {None})]
  BY DEF StartLogoutClear
<1>5. /\ logout'.pc = "clearing"
      /\ logout'.invalidate = logout.invalidate \union Drained(registry)
                                                \union ({read} \ {None})
  BY <1>1, <1>3, <1>4 DEF LogoutType
<1>6. /\ op' = op /\ queue' = queue /\ gate' = gate /\ registry' = AfterDrain(registry)
      /\ UNCHANGED <<recoveryBlocks, storage, degraded, tracked, retired, peerEpoch,
                     settling, minted>>
  BY DEF StartLogoutClear
<1>7. /\ registry'.pending = registry.pending /\ registry'.candidates = {}
      /\ Slots' = Slots
  BY <1>1, <1>6, DrainEffects DEF Slots
<1>8. Continues /\ Ending' = Ending
  BY <1>1, <1>6, NobodyMoves
<1>9. DueLogouts' = DueLogouts
  BY <1>6, DueSame
<1>10. BlockInv' /\ NoOrphanBlock'
  BY <1>1, <1>3, <1>5, <1>6, <1>7, <1>8, <1>9, OwnersKept DEF IInv
<1>11. QueueInv'
  BY <1>1, <1>5, <1>6, QueueUntouched
<1>12. FreshInv'
  <2>1. Common' \subseteq Common \union {None}
    BY <1>5, <1>6, <1>7 DEF Common, Drained
  <2> QED BY <1>1, <1>6, <2>1, FreshUntouched DEF IInv
<1>13. SlotInv'
  <2>1. \A o \in Slots : op[o].pc \in SlotPcs
    BY DEF IInv, SlotInv, Slots
  <2>2. \A o \in Slots' : op'[o].pc \in SlotPcs
    BY <1>6, <1>7, <2>1
  <2> QED BY <2>2 DEF SlotInv, Slots
<1>14. Blocked(gate')
  BY <1>3, <1>6 DEF IInv, BlockInv, Blocked
<1> QED
  BY <1>5, <1>6, <1>8, <1>9, <1>10, <1>11, <1>12, <1>13, <1>14, SameGeneration

LEMMA KeepsFinishLogoutClear ==
    ASSUME IInv, TypeInv', FinishLogoutClear PROVE Kept
<1>1. /\ TypeInv /\ QueueInv /\ logout \in LogoutType /\ registry \in RegistryType(Ops, Tokens)
  BY DEF IInv, TypeInv, TypeOK
<1>2. /\ NextJob("logout") /\ queue' = Tail(queue) /\ op' = op /\ gate' = gate
      /\ UNCHANGED <<recoveryBlocks, registry, degraded, tracked, retired, peerEpoch,
                     settling, minted>>
  BY DEF FinishLogoutClear, Dequeue
<1>3. /\ queue # <<>> /\ 1 \in DOMAIN queue /\ queue[1] = Head(queue)
      /\ Head(queue) \in JobType /\ Head(queue).kind = "logout" /\ logout.pc = "clearing"
  <2>1. /\ queue # <<>> /\ 1 \in DOMAIN queue /\ queue[1] = Head(queue)
        /\ Head(queue) \in JobType /\ Head(queue).kind = "logout"
        /\ JobOwned(Head(queue), op, logout.pc)
    BY <1>1, <1>2, HeadOwned
  <2> QED BY <2>1 DEF JobOwned
<1>4. PICK cleared \in BOOLEAN :
         /\ storage' = IF cleared THEN None ELSE storage
         /\ logout' = [logout EXCEPT !.pc = "revoking", !.clearFailed = ~cleared]
  BY DEF FinishLogoutClear
<1>5. logout'.pc = "revoking" /\ logout'.invalidate = logout.invalidate
  BY <1>1, <1>4 DEF LogoutType
<1>6. QueueInv'
  <2>1. ASSUME NEW i \in DOMAIN queue, i # 1 PROVE JobOwned(queue[i], op', logout'.pc)
    <3>1. queue[i].kind # "logout"
      <4>1. queue[i] \in JobType
        BY <1>1, JobTypes
      <4>2. queue[i].kind = "logout" => queue[i].who = Head(queue).who
        BY <1>1, <1>3, <4>1, JobTypes
      <4> QED BY <1>1, <1>3, <2>1, <4>2 DEF QueueInv, OwnKinds
    <3> QED BY <1>1, <1>2, <3>1 DEF QueueInv, JobOwned
  <2> QED BY <1>1, <1>2, <1>3, <2>1, QueueShortened
<1>7. DueLogouts' = DueLogouts
  BY <1>1, <1>2, <1>3, DueShortened
<1>8. Continues /\ Ending' = Ending
  BY <1>1, <1>2, NobodyMoves
<1>9. BlockInv' /\ NoOrphanBlock'
  BY <1>1, <1>2, <1>3, <1>5, <1>7, <1>8, OwnersKept DEF IInv
<1>10. FreshInv'
  <2>1. Common' \subseteq Common \union {None}
    BY <1>2, <1>4, <1>5 DEF Common
  <2> QED BY <1>1, <1>2, <2>1, FreshUntouched DEF IInv
<1>11. SlotInv'
  BY <1>2 DEF IInv, SlotInv
<1> QED
  BY <1>2, <1>5, <1>6, <1>7, <1>8, <1>9, <1>10, <1>11, SameGeneration

\* The clear that another tab asked for is over.
LEMMA KeepsPeerClear ==
    ASSUME IInv, TypeInv', PeerClear PROVE Kept
<1>1. TypeInv /\ QueueInv
  BY DEF IInv
<1>2. /\ NextJob("peerClear") \/ NextJob("peerLogout")
      /\ queue' = Tail(queue) /\ op' = op /\ gate' = gate
      /\ UNCHANGED <<recoveryBlocks, registry, degraded, logout, tracked, retired,
                     peerEpoch, minted>>
  BY DEF PeerClear, Dequeue
<1>3. queue # <<>>
  BY <1>2 DEF NextJob
<1>4. PICK cleared \in BOOLEAN :
         /\ storage' = IF cleared THEN None ELSE storage
         /\ settling' = settling \union {[job |-> Head(queue), cleared |-> cleared]}
  BY DEF PeerClear
<1>5. QueueInv'
  <2>1. ASSUME NEW i \in DOMAIN queue, i # 1 PROVE JobOwned(queue[i], op', logout'.pc)
    BY <1>1, <1>2 DEF QueueInv, JobOwned
  <2> QED BY <1>1, <1>2, <1>3, <2>1, QueueShortened
<1>6. DueLogouts' = DueLogouts
  <2>1. \E c : settling' = settling \union {[job |-> Head(queue), cleared |-> c]}
    BY <1>4
  <2> QED BY <1>1, <1>2, <1>3, <2>1, DueShortened
<1>7. Continues /\ Ending' = Ending
  BY <1>1, <1>2, NobodyMoves
<1>8. BlockInv' /\ NoOrphanBlock'
  BY <1>1, <1>2, <1>6, <1>7, OwnersKept DEF IInv
<1>9. FreshInv'
  <2>1. Common' \subseteq Common \union {None}
    BY <1>2, <1>4 DEF Common
  <2> QED BY <1>1, <1>2, <2>1, FreshUntouched DEF IInv
<1>10. SlotInv'
  BY <1>2 DEF IInv, SlotInv
<1> QED
  BY <1>2, <1>5, <1>6, <1>7, <1>8, <1>9, <1>10, SameGeneration

LEMMA KeepsLogoutRevoked ==
    ASSUME IInv, TypeInv', LogoutRevoked PROVE Kept
<1>1. /\ TypeInv /\ logout \in LogoutType /\ registry \in RegistryType(Ops, Tokens)
      /\ gate \in GateType(Blocks)
  BY DEF IInv, TypeInv, TypeOK
<1>2. PICK F \in SUBSET logout.invalidate :
         /\ Revoke(logout.invalidate, F)
         /\ registry' = Retained(registry, logout.invalidate, F)
         /\ gate' = IF logout.invalidate = {} THEN gate ELSE SyncPending(gate, registry')
         /\ logout' = [logout EXCEPT !.pc = "settling",
                                     !.complete = F = {} /\ ~logout.clearFailed]
  BY DEF LogoutRevoked
<1>3. /\ logout.pc = "revoking" /\ op' = op /\ queue' = queue
      /\ UNCHANGED <<recoveryBlocks, storage, degraded, tracked, retired, peerEpoch, settling>>
  BY DEF LogoutRevoked
<1>4. /\ minted' = minted /\ logout'.pc = "settling"
      /\ logout'.invalidate = logout.invalidate
  BY <1>1, <1>2 DEF Revoke, LogoutType
<1>5. /\ registry'.pending = (registry.pending \ logout.invalidate) \union F
      /\ registry'.cancelled = registry.cancelled /\ registry'.candidates = registry.candidates
      /\ registry'.reserved = registry.reserved
  BY <1>1, <1>2, RetainedEffects
<1>6. /\ gate'.generation = gate.generation
      /\ gate'.blockers \subseteq gate.blockers \union {"pendingRevocation"}
      /\ gate.blockers \subseteq gate'.blockers \union {"pendingRevocation"}
      /\ "pendingRevocation" \in gate'.blockers => registry'.pending # {}
      /\ gate.retained \intersect gate'.blockers \subseteq gate'.retained
  <2>1. CASE logout.invalidate = {}
    <3>1. registry'.pending = registry.pending /\ gate' = gate
      BY <1>2, <1>5, <2>1
    <3> QED BY <3>1 DEF IInv, BlockInv
  <2>2. CASE logout.invalidate # {}
    <3>1. gate' = SyncPending(gate, registry')
      BY <1>2, <2>2
    <3> QED BY <1>1, <3>1, SyncBounds
  <2> QED BY <2>1, <2>2
<1>7. Continues /\ Ending' = Ending
  BY <1>1, <1>3, NobodyMoves
<1>8. QueueInv' /\ DueLogouts' = DueLogouts
  BY <1>3, QueueUntouched, DueSame DEF IInv
<1>9. gate'.blockers \intersect PeerKeys = gate.blockers \intersect PeerKeys
  BY <1>6, BlockNames
<1>10. \A k \in PeerKeys \intersect gate'.blockers : PeerOwned(k)'
  BY <1>3, <1>6, <1>8, <1>9, PeersOwnedKept DEF IInv
<1>11. "logout" \in gate'.blockers <=> logout'.pc # "idle"
  BY <1>3, <1>4, <1>6, LogoutOwned DEF IInv
<1>12. BlockInv' /\ NoOrphanBlock'
  <2>1. Ending' \subseteq gate'.blockers
    <3>1. Ending \subseteq Refreshers /\ Ending \subseteq gate.blockers
      BY DEF Ending, IInv, BlockInv
    <3> QED BY <1>6, <1>7, <3>1, BlockNames
  <2> QED BY <1>3, <1>6, <1>7, <1>10, <1>11, <2>1, OwnersHeld DEF IInv, BlockInv
<1>13. FreshInv'
  <2>1. Common' \subseteq Common \union {None}
    BY <1>3, <1>4, <1>5 DEF Common
  <2> QED BY <1>3, <1>4, <2>1, FreshUntouched DEF IInv
<1>14. SlotInv'
  <2>1. SlotInv
    BY DEF IInv
  <2> QED BY <1>3, <1>5, <2>1 DEF SlotInv
<1>15. Blocked(gate')
  BY <1>4, <1>11 DEF Blocked
<1> QED
  BY <1>3, <1>4, <1>5, <1>6, <1>7, <1>8, <1>9, <1>12, <1>13, <1>14, <1>15, SameGeneration

LEMMA KeepsLogoutFinished ==
    ASSUME IInv, TypeInv', LogoutFinished PROVE Kept
<1>1. TypeInv /\ gate \in GateType(Blocks) /\ "logout" \in Blocks
  BY DEF IInv, TypeInv, TypeOK, Blocks
<1>2. /\ logout.pc = "finishing" /\ op' = op /\ queue' = queue
      /\ gate' = ReleaseLocal(gate, "logout") /\ logout' = NoLogout
      /\ UNCHANGED <<recoveryBlocks, registry, storage, degraded, tracked, retired,
                     peerEpoch, settling, minted>>
  BY DEF LogoutFinished
<1>3. logout'.pc = "idle" /\ logout'.invalidate = {}
  BY <1>2 DEF NoLogout
<1>4. /\ gate'.generation = gate.generation /\ gate'.blockers = gate.blockers \ {"logout"}
      /\ gate'.retained = gate.retained \ {"logout"}
  BY <1>1, <1>2, GateEffects
<1>5. Quiet
  BY <1>2 DEF IInv, LeaseInv
<1>6. Continues /\ Ending' = Ending
  BY <1>1, <1>2, NobodyMoves
<1>7. QueueInv' /\ DueLogouts' = DueLogouts
  BY <1>2, QueueUntouched, DueSame DEF IInv
<1>8. /\ gate'.blockers \intersect PeerKeys = gate.blockers \intersect PeerKeys
      /\ gate.retained \intersect gate'.blockers \subseteq gate'.retained
  BY <1>4, BlockNames
<1>9. \A k \in PeerKeys \intersect gate'.blockers : PeerOwned(k)'
  BY <1>2, <1>7, <1>8, PeersOwnedKept DEF IInv
<1>10. BlockInv' /\ NoOrphanBlock'
  <2>1. Ending' \subseteq gate'.blockers
    <3>1. Ending \subseteq Refreshers /\ Ending \subseteq gate.blockers
      BY DEF Ending, IInv, BlockInv
    <3> QED BY <1>4, <1>6, <3>1, BlockNames
  <2>2. "logout" \in gate'.blockers <=> logout'.pc # "idle"
    BY <1>3, <1>4
  <2>3. "pendingRevocation" \in gate'.blockers => registry'.pending # {}
    BY <1>2, <1>4 DEF IInv, BlockInv
  <2> QED BY <1>2, <1>4, <1>6, <1>8, <1>9, <2>1, <2>2, <2>3, OwnersHeld DEF IInv, BlockInv
<1>11. FreshInv'
  <2>1. Common' \subseteq Common \union {None}
    BY <1>2, <1>3 DEF Common
  <2> QED BY <1>2, <2>1, FreshUntouched DEF IInv
<1>12. SlotInv'
  BY <1>2 DEF IInv, SlotInv
<1> QED
  BY <1>2, <1>3, <1>4, <1>5, <1>6, <1>7, <1>8, <1>10, <1>11, <1>12, SameGeneration

\* A logout begins: it blocks, and may queue its clear.
LEMMA LogoutQueued ==
    ASSUME IInv, NEW g, StartLogout(g), op' = op, settling' = settling
    PROVE  /\ QueueInv' /\ DueLogouts' = DueLogouts
           /\ logout'.pc \in {"rejecting", "clearing"}
           /\ logout'.invalidate \subseteq {degraded} /\ degraded' \in {degraded, None}
<1>1. /\ TypeInv /\ QueueInv /\ logout.pc = "idle"
  BY DEF IInv, StartLogout
<1>2. CASE logout' = [NoLogout EXCEPT !.pc = "rejecting"] /\ UNCHANGED <<degraded, queueVars>>
  <2>1. logout'.pc = "rejecting" /\ logout'.invalidate = {}
    BY <1>2 DEF NoLogout
  <2>2. QueueInv'
    BY <1>1, <1>2, QueueUntouched
  <2> QED BY <1>2, <2>1, <2>2, DueSame
<1>3. CASE /\ logout' = [NoLogout EXCEPT !.pc = "clearing", !.invalidate = {degraded} \ {None}]
           /\ degraded' = None /\ Enqueue(Job("logout", "logout", 0))
  <2> DEFINE job == Job("logout", "logout", 0)
  <2>1. logout'.pc = "clearing" /\ logout'.invalidate = {degraded} \ {None}
    BY <1>3 DEF NoLogout
  <2>2. job \in JobType /\ job.kind = "logout" /\ job.who = "logout"
    BY DEF Job, JobType
  <2>3. queue' = Append(queue, job)
    BY <1>3 DEF Enqueue
  <2> HIDE DEF job
  <2>4. \A i \in DOMAIN queue : queue[i].kind # "logout"
    BY <1>1 DEF QueueInv, JobOwned
  <2>5. \A i \in DOMAIN queue : JobOwned(queue[i], op', logout'.pc)
    BY <1>1, <2>4 DEF QueueInv, JobOwned
  <2>6. JobOwned(job, op', logout'.pc)
    BY <2>1, <2>2 DEF JobOwned
  <2>7. QueueInv'
    BY <1>1, <2>2, <2>3, <2>4, <2>5, <2>6, QueueAppended
  <2>8. DueLogouts' = DueLogouts
    BY <1>1, <2>2, <2>3, DueAppended
  <2> QED BY <1>3, <2>1, <2>7, <2>8
<1> QED BY <1>2, <1>3 DEF StartLogout

LEMMA KeepsLogoutCall ==
    ASSUME IInv, TypeInv', LogoutCall PROVE Kept
<1>1. /\ TypeInv /\ gate \in GateType(Blocks) /\ "logout" \in Blocks
  BY DEF IInv, TypeInv, TypeOK, Blocks
<1>2. /\ StartLogout(gate) /\ op' = op /\ gate' = BlockLocal(gate, "logout")
      /\ UNCHANGED <<recoveryBlocks, registry, storage, tracked, retired, peerEpoch,
                     settling, minted>>
  BY DEF LogoutCall, StartLogout
<1>3. /\ gate'.generation = gate.generation /\ gate'.blockers = gate.blockers \union {"logout"}
      /\ gate'.retained = gate.retained
  BY <1>1, <1>2, GateEffects
<1>4. /\ QueueInv' /\ DueLogouts' = DueLogouts /\ logout'.pc \in {"rejecting", "clearing"}
      /\ logout'.invalidate \subseteq {degraded} /\ degraded' \in {degraded, None}
  BY <1>2, LogoutQueued
<1>5. Continues /\ Ending' = Ending
  BY <1>1, <1>2, NobodyMoves
<1>6. gate'.blockers \intersect PeerKeys = gate.blockers \intersect PeerKeys
  BY <1>3, BlockNames
<1>7. \A k \in PeerKeys \intersect gate'.blockers : PeerOwned(k)'
  BY <1>2, <1>3, <1>4, <1>6, PeersOwnedKept DEF IInv
<1>8. BlockInv' /\ NoOrphanBlock'
  BY <1>2, <1>3, <1>4, <1>5, <1>7, OwnersHeld DEF IInv, BlockInv
<1>9. FreshInv'
  <2>1. Common' \subseteq Common \union {None}
    BY <1>2, <1>4 DEF Common
  <2> QED BY <1>2, <2>1, FreshUntouched DEF IInv
<1>10. SlotInv'
  BY <1>2 DEF IInv, SlotInv
<1> QED
  BY <1>2, <1>3, <1>4, <1>5, <1>6, <1>8, <1>9, <1>10, SameGeneration DEF Blocked

\* A logout is over: a new generation comes before any of its blocks goes, and what a
\* completed one releases it also forgets.
LEMMA KeepsLogoutSettled ==
    ASSUME IInv, TypeInv', LogoutSettled PROVE Kept
<1> DEFINE g == Terminate(gate)
<1>1. /\ TypeInv /\ gate \in GateType(Blocks) /\ logout \in LogoutType
      /\ "logoutFailed" \in Blocks
  BY DEF IInv, TypeInv, TypeOK, Blocks
<1>2. /\ logout.pc \in {"settling", "rejecting"}
      /\ logout' = [logout EXCEPT !.pc = "finishing"]
      /\ UNCHANGED <<registry, storage, degraded, queue, op, settling, minted>>
  BY DEF LogoutSettled, ResolveAllRecoveryBlocks
<1>3. logout'.pc = "finishing" /\ logout'.invalidate = logout.invalidate
  BY <1>1, <1>2 DEF LogoutType
<1>4. /\ g \in GateType(Blocks) /\ g.generation = gate.generation + 1
      /\ g.blockers = gate.blockers /\ g.retained = gate.retained
  BY <1>1, GateClosed, GateEffects
<1>5. \/ gate' = g /\ UNCHANGED <<recoveryBlocks, peerVars>>
      \/ ResolveAllRecoveryBlocks(g)
      \/ gate' = BlockRetained(g, "logoutFailed") /\ UNCHANGED <<recoveryBlocks, peerVars>>
  BY DEF LogoutSettled
<1> HIDE DEF g
<1>6. Continues /\ Ending' = Ending
  BY <1>1, <1>2, NobodyMoves
<1>7. QueueInv' /\ DueLogouts' = DueLogouts
  BY <1>2, QueueUntouched, DueSame DEF IInv
<1>8. FreshInv'
  <2>1. Common' = Common
    BY <1>2, <1>3 DEF Common
  <2> QED BY <1>2, <2>1, FreshUntouched DEF IInv
<1>9. SlotInv'
  BY <1>2 DEF IInv, SlotInv
<1>10. "logout" \in gate.blockers /\ Ending \subseteq Refreshers /\ Ending \subseteq gate.blockers
  BY <1>2 DEF IInv, BlockInv, Ending
<1>11. CASE /\ UNCHANGED <<recoveryBlocks, peerVars>>
            /\ gate' = g \/ gate' = BlockRetained(g, "logoutFailed")
  <2>1. /\ gate'.generation = gate.generation + 1
        /\ gate.blockers \subseteq gate'.blockers
        /\ gate'.blockers \subseteq gate.blockers \union ({"logoutFailed"} \intersect gate'.retained)
        /\ gate.retained \subseteq gate'.retained
    <3>1. CASE gate' = g
      BY <1>4, <3>1
    <3>2. CASE gate' = BlockRetained(g, "logoutFailed")
      BY <1>1, <1>4, <3>2, GateEffects
    <3> QED BY <1>11, <3>1, <3>2
  <2>2. gate'.blockers \intersect PeerKeys = gate.blockers \intersect PeerKeys
    BY <2>1, BlockNames
  <2>3. LeaseInv' /\ Quiet'
    BY <1>1, <1>6, <2>1, LeaseRenewed DEF IInv
  <2>4. PeerInv'
    BY <1>7, <1>11, <2>2, <2>3, PeerKept DEF IInv
  <2>5. \A k \in PeerKeys \intersect gate'.blockers : PeerOwned(k)'
    BY <1>7, <1>11, <2>1, <2>2, PeersOwnedKept DEF IInv
  <2>6. /\ "logout" \in gate'.blockers <=> logout'.pc # "idle"
        /\ "pendingRevocation" \in gate'.blockers => registry'.pending # {}
    BY <1>2, <1>3, <1>10, <2>1 DEF IInv, BlockInv
  <2>7. BlockInv' /\ NoOrphanBlock'
    BY <1>6, <1>10, <1>11, <2>1, <2>5, <2>6, OwnersHeld DEF IInv, BlockInv
  <2> QED BY <1>6, <1>7, <1>8, <1>9, <2>1, <2>4, <2>7, NextGeneration
<1>12. CASE ResolveAllRecoveryBlocks(g)
  <2> DEFINE h == Release(g, ResolvedBlocks)
  <2>1. /\ h \in GateType(Blocks) /\ h.generation = g.generation
        /\ h.blockers = g.blockers \ ResolvedBlocks /\ h.retained = g.retained \ ResolvedBlocks
    BY <1>1, <1>4, GateClosed, GateEffects
  <2>2. /\ gate' = SyncPending(h, registry) /\ recoveryBlocks' = {}
        /\ tracked' = [k \in PeerKeys |-> Untracked]
        /\ retired' = retired \union TrackedKeys
    BY <1>12 DEF ResolveAllRecoveryBlocks
  <2> HIDE DEF h
  <2>3. /\ gate'.generation = h.generation
        /\ gate'.blockers \subseteq h.blockers \union {"pendingRevocation"}
        /\ h.blockers \subseteq gate'.blockers \union {"pendingRevocation"}
        /\ "pendingRevocation" \in gate'.blockers => registry.pending # {}
        /\ h.retained \intersect gate'.blockers \subseteq gate'.retained
    BY <2>1, <2>2, SyncBounds
  <2>4. /\ ResolvedBlocks \subseteq PeerKeys \union {"logoutFailed", "terminalFailure"}
        /\ recoveryBlocks \subseteq ResolvedBlocks /\ TrackedKeys \subseteq ResolvedBlocks
    BY DEF ResolvedBlocks, TrackedKeys, IInv, BlockInv
  <2>5. TrackedKeys' = {}
    BY <2>2 DEF TrackedKeys, Untracked
  <2>6. LeaseInv' /\ Quiet' /\ gate'.generation = gate.generation + 1
    BY <1>1, <1>4, <1>6, <2>1, <2>3, LeaseRenewed DEF IInv
  <2>7. PeerInv'
    BY <1>7, <2>2, <2>5, <2>6 DEF IInv, PeerInv
  <2>8. /\ gate'.blockers \subseteq gate.blockers \union {"pendingRevocation"}
        /\ gate.retained \intersect gate'.blockers \subseteq gate'.retained
        /\ recoveryBlocks \intersect gate'.blockers = {}
        /\ gate'.blockers \intersect TrackedKeys = {}
        /\ "logout" \in gate'.blockers
        /\ Ending \subseteq gate'.blockers
    <3>1. "pendingRevocation" \notin ResolvedBlocks /\ "logout" \notin ResolvedBlocks
      BY <2>4, BlockNames
    <3>2. Ending \intersect ResolvedBlocks = {} /\ "pendingRevocation" \notin Ending
      BY <1>10, <2>4, BlockNames
    <3>3. \A b \in gate'.blockers : b \in gate.blockers \union {"pendingRevocation"}
      BY <1>4, <2>1, <2>3
    <3>4. \A b \in gate'.blockers : b \notin ResolvedBlocks
      BY <2>1, <2>3, <3>1
    <3>5. \A b \in gate.retained \intersect gate'.blockers : b \in gate'.retained
      BY <1>4, <2>1, <2>3, <3>4
    <3> QED BY <1>4, <1>10, <2>1, <2>3, <2>4, <3>1, <3>2, <3>3, <3>4, <3>5
  <2>9. ASSUME NEW k \in PeerKeys \intersect gate'.blockers PROVE PeerOwned(k)'
    <3>1. k \in gate.blockers
      BY <2>8, BlockNames
    <3>2. PeerOwned(k)
      BY <1>1, <3>1, PeersOwned DEF IInv
    <3>3. PeerLogoutDue(k)
      BY <2>8, <3>2 DEF PeerOwned
    <3>4. PeerLogoutDue(k)'
      BY <1>2, <3>3 DEF PeerLogoutDue, PeerJobs
    <3> QED BY <3>4 DEF PeerOwned
  <2>10. /\ "logout" \in gate'.blockers <=> logout'.pc # "idle"
         /\ "pendingRevocation" \in gate'.blockers => registry'.pending # {}
    BY <1>2, <1>3, <2>3, <2>8
  <2>11. BlockInv' /\ NoOrphanBlock'
    BY <1>6, <2>2, <2>8, <2>9, <2>10, OwnersHeld DEF IInv
  <2> QED BY <1>6, <1>7, <1>8, <1>9, <2>6, <2>7, <2>11, NextGeneration
<1> QED BY <1>5, <1>11, <1>12

------------------------------------------------------------------------------
(* Login *)

\* A tab that may log in is tracking nobody.
LEMMA LoginRetires ==
    ASSUME IInv, ~Blocked(gate), RetirePeerOperations
    PROVE  /\ Ending = {} /\ logout.pc = "idle" /\ TrackedKeys' = {}
           /\ retired \subseteq retired' /\ settling' = settling
<1>1. Ending = {} /\ logout.pc = "idle"
  BY DEF IInv, BlockInv, Blocked
<1>2. \A k \in PeerKeys : ~tracked[k].on
  BY DEF IInv, PeerInv, TrackedKeys, Blocked
<1>3. /\ retired \subseteq retired' /\ settling' = settling
      /\ \A k \in PeerKeys : tracked'[k] \in {tracked[k], Untracked}
  BY DEF RetirePeerOperations
<1>4. \A k \in PeerKeys : ~tracked'[k].on
  BY <1>2, <1>3 DEF Untracked
<1> QED BY <1>1, <1>3, <1>4 DEF TrackedKeys

\* No block is left but the one that the cancelled login's logout takes.
LEMMA LoginKeeps ==
    ASSUME IInv, TypeInv', ~Blocked(gate), RetirePeerOperations, op' = op,
           gate'.generation = gate.generation + 1,
           \/ gate'.blockers = {} /\ logout' = logout
           \/ gate'.blockers = {"logout"} /\ logout'.pc \in {"rejecting", "clearing"},
           UNCHANGED <<recoveryBlocks, registry, storage, minted>>,
           logout'.invalidate \subseteq logout.invalidate \union {degraded},
           degraded' \in {degraded, None}, QueueInv', DueLogouts' = DueLogouts
    PROVE  Kept
<1>1. /\ TypeInv /\ Ending = {} /\ logout.pc = "idle" /\ TrackedKeys' = {}
      /\ retired \subseteq retired' /\ settling' = settling
  BY LoginRetires DEF IInv
<1>2. Continues /\ Ending' = {}
  BY <1>1, NobodyMoves
<1>3. LeaseInv' /\ Quiet'
  BY <1>1, <1>2, LeaseRenewed DEF IInv
<1>4. PeerInv'
  BY <1>1, <1>3 DEF IInv, PeerInv
<1>5. BlockInv' /\ NoOrphanBlock'
  <2>1. recoveryBlocks' \subseteq PeerKeys \union {"terminalFailure"}
    BY DEF IInv, BlockInv
  <2>2. CASE gate'.blockers = {} /\ logout' = logout
    BY <1>1, <1>2, <2>1, <2>2 DEF BlockInv, NoOrphanBlock
  <2>3. CASE gate'.blockers = {"logout"} /\ logout'.pc \in {"rejecting", "clearing"}
    BY <1>1, <1>2, <2>1, <2>3 DEF BlockInv, NoOrphanBlock
  <2> QED BY <2>2, <2>3
<1>6. FreshInv'
  <2>1. Common' \subseteq Common \union {None}
    BY DEF Common
  <2> QED BY <2>1, FreshUntouched DEF IInv
<1>7. SlotInv'
  BY DEF IInv, SlotInv
<1> QED BY <1>2, <1>4, <1>5, <1>6, <1>7, NextGeneration

LEMMA KeepsBeginLogin ==
    ASSUME IInv, TypeInv', BeginLogin PROVE Kept
<1>1. TypeInv /\ gate \in GateType(Blocks) /\ "logout" \in Blocks
  BY DEF IInv, TypeInv, TypeOK, Blocks
<1>2. /\ ~Blocked(gate) /\ RetirePeerOperations /\ op' = op /\ gate' = Reset(gate)
      /\ UNCHANGED <<recoveryBlocks, registry, storage, degraded, minted, logout, queue>>
  BY DEF BeginLogin, LoginAllowed
<1>3. gate'.generation = gate.generation + 1 /\ gate'.blockers = {}
  BY <1>1, <1>2, GateEffects DEF Blocked
<1>4. QueueInv' /\ DueLogouts' = DueLogouts
  BY <1>2, QueueUntouched, DueSame DEF IInv, RetirePeerOperations
<1>5. logout'.invalidate \subseteq logout.invalidate \union {degraded}
  BY <1>2
<1> QED BY <1>2, <1>3, <1>4, <1>5, LoginKeeps

LEMMA KeepsLoginCancelled ==
    ASSUME IInv, TypeInv', LoginCancelled PROVE Kept
<1> DEFINE g == Reset(gate)
<1>1. /\ TypeInv /\ gate \in GateType(Blocks) /\ "logout" \in Blocks
  BY DEF IInv, TypeInv, TypeOK, Blocks
<1>2. /\ ~Blocked(gate) /\ RetirePeerOperations /\ op' = op
      /\ StartLogout(g) /\ gate' = BlockLocal(g, "logout")
      /\ UNCHANGED <<recoveryBlocks, registry, storage, minted>> /\ settling' = settling
  BY DEF LoginCancelled, LoginAllowed, StartLogout, RetirePeerOperations
<1>3. /\ g \in GateType(Blocks) /\ g.generation = gate.generation + 1 /\ g.blockers = {}
  BY <1>1, <1>2, GateClosed, GateEffects DEF Blocked
<1> HIDE DEF g
<1>4. gate'.generation = gate.generation + 1 /\ gate'.blockers = {"logout"}
  BY <1>1, <1>2, <1>3, GateEffects
<1>5. /\ QueueInv' /\ DueLogouts' = DueLogouts /\ logout'.pc \in {"rejecting", "clearing"}
      /\ logout'.invalidate \subseteq {degraded} /\ degraded' \in {degraded, None}
  BY <1>2, LogoutQueued
<1> QED BY <1>2, <1>4, <1>5, LoginKeeps

------------------------------------------------------------------------------
(* The operations of other tabs *)

\* Within a generation, when what the tab tracks of other tabs changes.
LEMMA PeersMove ==
    ASSUME IInv, TypeInv', op' = op, gate'.generation = gate.generation, logout' = logout,
           UNCHANGED <<registry, storage, minted>>, degraded' \in {degraded, None},
           Blocked(gate) => Blocked(gate') \/ Quiet,
           PeerInv', BlockInv', NoOrphanBlock', QueueInv'
    PROVE  Kept
<1>1. Continues /\ Ending' = Ending
  BY NobodyMoves DEF IInv
<1>2. LeaseInv' /\ CutStep
  BY <1>1, LeaseKept DEF IInv
<1>3. FreshInv'
  <2>1. Common' \subseteq Common \union {None}
    BY DEF Common
  <2> QED BY <2>1, FreshUntouched DEF IInv
<1>4. SlotInv'
  BY DEF IInv, SlotInv
<1>5. CancelledIsDead'
  BY <1>2, <1>4, DeadKept DEF IInv
<1> QED BY <1>2, <1>3, <1>4, <1>5 DEF Kept

\* A message of another tab blocks, and queues a clear.
LEMMA PeerBlockEffects ==
    ASSUME TypeInv, NEW k \in PeerKeys, BlockForPeer(k)
    PROVE  /\ gate'.generation = gate.generation /\ gate'.retained = gate.retained
           /\ gate'.blockers = gate.blockers \union {k}
<1> DEFINE b == Block(gate, k)
<1>1. gate \in GateType(Blocks) /\ k \in Blocks
  BY DEF TypeInv, TypeOK, Blocks
<1>2. b \in GateType(Blocks) /\ gate' = BeginPendingOp(b)
  BY <1>1, GateClosed DEF BlockForPeer
<1>3. /\ b.generation = gate.generation /\ b.blockers = gate.blockers \union {k}
      /\ b.retained = gate.retained
  BY <1>1, GateEffects
<1> HIDE DEF b
<1> QED BY <1>1, <1>2, <1>3, GateEffects

LEMMA PeerBlocks ==
    ASSUME IInv, TypeInv', NEW k \in PeerKeys, BlockForPeer(k), op' = op, logout' = logout,
           UNCHANGED <<recoveryBlocks, registry, storage, minted, settling>>,
           degraded' \in {degraded, None},
           NEW kind \in {"peerClear", "peerLogout"}, NEW epoch \in Nat,
           Enqueue(Job(kind, k, epoch)), PeerInv',
           TrackedKeys \subseteq TrackedKeys' \union {k},
           kind = "peerClear" => k \in TrackedKeys'
    PROVE  Kept
<1> DEFINE job == Job(kind, k, epoch)
<1>1. /\ TypeInv /\ QueueInv /\ gate \in GateType(Blocks) /\ k \in Blocks
  BY DEF IInv, TypeInv, TypeOK, Blocks
<1>2. /\ gate'.generation = gate.generation /\ gate'.blockers = gate.blockers \union {k}
      /\ gate'.retained = gate.retained
  BY <1>1, PeerBlockEffects
<1>3. job \in JobType /\ job.kind = kind /\ job.who = k
  BY DEF Job, JobType
<1>4. queue' = Append(queue, job)
  BY DEF Enqueue
<1> HIDE DEF job
<1>5. QueueInv'
  <2>1. \A i \in DOMAIN queue : JobOwned(queue[i], op', logout'.pc)
    BY <1>1 DEF QueueInv
  <2>2. JobOwned(job, op', logout'.pc) /\ job.kind \notin OwnKinds
    BY <1>3 DEF JobOwned, OwnKinds
  <2> QED BY <1>1, <1>3, <1>4, <2>1, <2>2, QueueAppended
<1>6. DueLogouts' = DueLogouts \union {j \in {job} : j.kind = "peerLogout"}
  BY <1>1, <1>4, DueAppended
<1>7. ASSUME NEW q \in PeerKeys, q \in gate'.blockers PROVE PeerOwned(q)'
  <2>1. PeerLogoutDue(q)' <=> \E j \in DueLogouts' : j.who = q
    BY DEF PeerLogoutDue, PeerJobs, DueLogouts
  <2>2. CASE q = k
    <3>1. kind = "peerLogout" => job \in DueLogouts'
      BY <1>3, <1>6
    <3> QED BY <1>3, <2>1, <2>2, <3>1 DEF PeerOwned
  <2>3. CASE q # k
    <3>1. PeerOwned(q)
      BY <1>1, <1>2, <1>7, <2>3, PeersOwned DEF IInv
    <3>2. PeerLogoutDue(q) => PeerLogoutDue(q)'
      BY <1>1, <1>6, <2>1, DueTypes
    <3> QED BY <1>2, <2>3, <3>1, <3>2 DEF PeerOwned
  <2> QED BY <2>2, <2>3
<1>8. Ending' = Ending
  BY <1>1, NobodyMoves
<1>9. BlockInv' /\ NoOrphanBlock'
  <2>1. "logout" \in gate'.blockers <=> logout'.pc # "idle"
    BY <1>1, <1>2, LogoutOwned, BlockNames DEF IInv
  <2>2. "pendingRevocation" \in gate'.blockers => registry'.pending # {}
    BY <1>2, BlockNames DEF IInv, BlockInv
  <2> QED BY <1>2, <1>7, <1>8, <2>1, <2>2, OwnersHeld DEF IInv, BlockInv
<1> QED BY <1>2, <1>5, <1>9, PeersMove DEF Blocked

LEMMA KeepsOnSessionCleared ==
    ASSUME IInv, TypeInv', NEW k \in PeerKeys, OnSessionCleared(k) PROVE Kept
<1>1. /\ TypeInv /\ gate \in GateType(Blocks) /\ k \in Blocks /\ peerEpoch \in Nat
      /\ tracked \in [PeerKeys -> TrackType]
  BY DEF IInv, TypeInv, TypeOK, Blocks
<1>2. /\ BlockForPeer(k) /\ op' = op /\ logout' = logout /\ degraded' = None
      /\ Enqueue(Job("peerClear", k, peerEpoch)) /\ k \notin retired
      /\ UNCHANGED <<recoveryBlocks, registry, storage, minted, settling, retired, peerEpoch>>
      /\ tracked' = [tracked EXCEPT ![k] = [on |-> TRUE, epoch |-> peerEpoch,
                                            settled |-> FALSE]]
  BY DEF OnSessionCleared
<1>3. /\ tracked'[k].on /\ tracked'[k].epoch = peerEpoch
      /\ \A q \in PeerKeys \ {k} : tracked'[q] = tracked[q]
  BY <1>1, <1>2
<1>4. TrackedKeys' = TrackedKeys \union {k}
  BY <1>3 DEF TrackedKeys
<1>5. gate'.generation = gate.generation /\ gate'.blockers = gate.blockers \union {k}
  BY <1>1, <1>2, PeerBlockEffects
<1>6. DueLogouts' = DueLogouts
  <2>1. queue' = Append(queue, Job("peerClear", k, peerEpoch)) /\ settling' = settling
    BY <1>2 DEF Enqueue
  <2>2. Job("peerClear", k, peerEpoch).kind = "peerClear"
    BY DEF Job
  <2> QED BY <1>1, <2>1, <2>2, DueAppended
<1>7. PeerInv'
  <2>1. Quiet => Quiet'
    BY <1>2, <1>5 DEF Quiet, Active
  <2>2. \A q \in TrackedKeys' : /\ q \in gate'.blockers /\ q \notin retired'
                                /\ tracked'[q].epoch = peerEpoch'
    BY <1>2, <1>3, <1>4, <1>5 DEF IInv, PeerInv, TrackedKeys
  <2>3. \A j \in DueLogouts : j.who \in retired /\ j.who # k
    BY <1>2 DEF IInv, PeerInv
  <2>4. \A j \in DueLogouts' :
           /\ j.who \in retired'
           /\ j.who \in gate'.blockers /\ j.epoch # peerEpoch' => Quiet'
    BY <1>2, <1>5, <1>6, <2>1, <2>3 DEF IInv, PeerInv
  <2> QED BY <2>2, <2>4 DEF PeerInv
<1> QED BY <1>1, <1>2, <1>4, <1>7, PeerBlocks

LEMMA KeepsOnLogout ==
    ASSUME IInv, TypeInv', NEW k \in PeerKeys, OnLogout(k) PROVE Kept
<1> DEFINE epoch == IF tracked[k].on THEN tracked[k].epoch ELSE peerEpoch
           job == Job("peerLogout", k, epoch)
<1>1. TypeInv /\ peerEpoch \in Nat /\ tracked \in [PeerKeys -> TrackType]
  BY DEF IInv, TypeInv, TypeOK
<1>2. /\ BlockForPeer(k) /\ op' = op /\ logout' = logout /\ degraded' = None
      /\ Enqueue(Job("peerLogout", k, epoch)) /\ k \notin retired
      /\ UNCHANGED <<recoveryBlocks, registry, storage, minted, settling, peerEpoch>>
      /\ tracked' = [tracked EXCEPT ![k] = Untracked] /\ retired' = retired \union {k}
  BY DEF OnLogout
<1>3. epoch = peerEpoch
  BY DEF IInv, PeerInv, TrackedKeys
<1>4. ~tracked'[k].on /\ \A q \in PeerKeys \ {k} : tracked'[q] = tracked[q]
  BY <1>1, <1>2 DEF Untracked
<1>5. TrackedKeys' = TrackedKeys \ {k}
  BY <1>4 DEF TrackedKeys
<1>6. gate'.generation = gate.generation /\ gate'.blockers = gate.blockers \union {k}
  BY <1>1, <1>2, PeerBlockEffects
<1>7. queue' = Append(queue, job) /\ job.who = k /\ job.epoch = peerEpoch
  BY <1>2, <1>3 DEF Enqueue, Job
<1> HIDE DEF job, epoch
<1>8. DueLogouts' \subseteq DueLogouts \union {job}
  BY <1>1, <1>2, <1>7, DueAppended
<1>9. PeerInv'
  <2>1. Quiet => Quiet'
    BY <1>2, <1>6 DEF Quiet, Active
  <2>2. \A q \in TrackedKeys' : /\ q \in gate'.blockers /\ q \notin retired'
                                /\ tracked'[q].epoch = peerEpoch'
    BY <1>2, <1>4, <1>5, <1>6 DEF IInv, PeerInv, TrackedKeys
  <2>3. \A j \in DueLogouts : j.who \in retired /\ j.who # k
    BY <1>2 DEF IInv, PeerInv
  <2>4. \A j \in DueLogouts :
           /\ j.who \in retired'
           /\ j.who \in gate'.blockers /\ j.epoch # peerEpoch' => Quiet'
    BY <1>2, <1>6, <2>1, <2>3 DEF IInv, PeerInv
  <2>5. job.who \in retired' /\ job.epoch = peerEpoch'
    BY <1>2, <1>7
  <2> QED BY <1>8, <2>2, <2>4, <2>5 DEF PeerInv
<1>10. TrackedKeys \subseteq TrackedKeys' \union {k}
  BY <1>5
<1> QED BY <1>1, <1>2, <1>3, <1>9, <1>10, PeerBlocks

\* What a continuation takes out of settling is due no more.
LEMMA DueSettled ==
    ASSUME NEW s \in settling, settling' = settling \ {s}, queue' = queue
    PROVE  /\ DueLogouts' \subseteq DueLogouts /\ DueLogouts \subseteq DueLogouts' \union {s.job}
           /\ s.job.kind # "peerLogout" => DueLogouts' = DueLogouts
           /\ s.job.kind = "peerLogout" => s.job \in DueLogouts
BY DEF DueLogouts

LEMMA KeepsPeerClearSettled ==
    ASSUME IInv, TypeInv', NEW k \in PeerKeys, PeerClearSettled(k) PROVE Kept
<1> DEFINE g == EndPendingOp(gate)
<1>1. /\ TypeInv /\ gate \in GateType(Blocks) /\ k \in Blocks
      /\ tracked \in [PeerKeys -> TrackType]
  BY DEF IInv, TypeInv, TypeOK, Blocks
<1>2. PICK s \in settling : s.job.kind = "peerClear" /\ settling' = settling \ {s}
  BY DEF PeerClearSettled
<1>3. /\ op' = op /\ logout' = logout /\ queue' = queue
      /\ UNCHANGED <<registry, storage, degraded, minted, retired, peerEpoch>>
      /\ tracked' = [tracked EXCEPT ![k].settled = tracked[k].on]
  BY DEF PeerClearSettled
<1>4. \/ gate' = g /\ recoveryBlocks' = recoveryBlocks
      \/ RetainPeerBlock(g, k)
  BY DEF PeerClearSettled
<1>5. /\ g \in GateType(Blocks) /\ g.generation = gate.generation
      /\ g.blockers = gate.blockers /\ g.retained = gate.retained
  BY <1>1, GateClosed, GateEffects
<1> HIDE DEF g
<1>6. /\ gate'.generation = gate.generation /\ gate'.blockers = gate.blockers
      /\ gate.retained \subseteq gate'.retained
      /\ recoveryBlocks \subseteq recoveryBlocks'
      /\ recoveryBlocks' \subseteq PeerKeys \union {"terminalFailure"}
  <2>1. recoveryBlocks \subseteq PeerKeys \union {"terminalFailure"}
    BY DEF IInv, BlockInv
  <2>2. CASE gate' = g /\ recoveryBlocks' = recoveryBlocks
    BY <1>5, <2>1, <2>2
  <2>3. CASE RetainPeerBlock(g, k)
    BY <1>1, <1>5, <2>1, <2>3, GateEffects DEF RetainPeerBlock
  <2> QED BY <1>4, <2>2, <2>3
<1>7. \A q \in PeerKeys : tracked'[q].on = tracked[q].on /\ tracked'[q].epoch = tracked[q].epoch
  BY <1>1, <1>3 DEF TrackType
<1>8. TrackedKeys' = TrackedKeys
  BY <1>7 DEF TrackedKeys
<1>9. DueLogouts' = DueLogouts
  BY <1>2, <1>3, DueSettled
<1>10. PeerInv'
  <2>1. Quiet => Quiet'
    BY <1>3, <1>6 DEF Quiet, Active
  <2> QED BY <1>3, <1>6, <1>7, <1>8, <1>9, <2>1 DEF IInv, PeerInv, TrackedKeys
<1>11. QueueInv'
  BY <1>3, QueueUntouched DEF IInv
<1>12. ASSUME NEW q \in PeerKeys, q \in gate'.blockers PROVE PeerOwned(q)'
  <2>1. PeerLogoutDue(q)' <=> \E j \in DueLogouts' : j.who = q
    BY DEF PeerLogoutDue, PeerJobs, DueLogouts
  <2>2. PeerOwned(q) /\ (PeerLogoutDue(q) => PeerLogoutDue(q)')
    BY <1>1, <1>6, <1>9, <1>12, <2>1, PeersOwned, DueTypes DEF IInv
  <2> QED BY <1>6, <1>8, <2>2 DEF PeerOwned
<1>13. BlockInv' /\ NoOrphanBlock'
  <2>1. "logout" \in gate'.blockers <=> logout'.pc # "idle"
    BY <1>1, <1>3, <1>6, LogoutOwned DEF IInv
  <2>2. Ending' = Ending
    BY <1>1, <1>3, NobodyMoves
  <2> QED BY <1>3, <1>6, <1>12, <2>1, <2>2, OwnersHeld DEF IInv, BlockInv
<1> QED BY <1>3, <1>6, <1>10, <1>11, <1>13, PeersMove DEF Blocked

\* A peer's logout is over: its block goes only when what it blocked is cut off.
LEMMA KeepsPeerLogoutSettled ==
    ASSUME IInv, TypeInv', NEW k \in PeerKeys, PeerLogoutSettled(k) PROVE Kept
<1> DEFINE g == EndPendingOp(gate)
           t == Terminate(g)
<1>1. /\ TypeInv /\ gate \in GateType(Blocks) /\ k \in Blocks
  BY DEF IInv, TypeInv, TypeOK, Blocks
<1>2. PICK s \in settling :
         /\ s.job.kind = "peerLogout" /\ s.job.who = k /\ settling' = settling \ {s}
         /\ \/ /\ s.job.epoch # peerEpoch
               /\ gate' = Release(g, {k}) /\ UNCHANGED recoveryBlocks
            \/ gate' = Release(t, {k}) /\ UNCHANGED recoveryBlocks
            \/ RetainPeerBlock(g, k)
  BY DEF PeerLogoutSettled, PeerLogoutOver
<1>3. /\ op' = op /\ logout' = logout /\ queue' = queue
      /\ UNCHANGED <<registry, storage, degraded, minted, tracked, retired, peerEpoch>>
  BY DEF PeerLogoutSettled
<1>4. /\ g \in GateType(Blocks) /\ g.generation = gate.generation
      /\ g.blockers = gate.blockers /\ g.retained = gate.retained
  BY <1>1, GateClosed, GateEffects
<1> HIDE DEF g
<1>5. /\ t \in GateType(Blocks) /\ t.generation = gate.generation + 1
      /\ t.blockers = gate.blockers /\ t.retained = gate.retained
  BY <1>1, <1>4, GateClosed, GateEffects
<1> HIDE DEF t
<1>6. /\ s.job \in DueLogouts /\ DueLogouts' \subseteq DueLogouts
      /\ DueLogouts \subseteq DueLogouts' \union {s.job}
  BY <1>2, <1>3, DueSettled
<1>7. k \in retired /\ k \notin TrackedKeys /\ TrackedKeys' = TrackedKeys
  BY <1>2, <1>3, <1>6 DEF IInv, PeerInv, TrackedKeys
<1>8. Continues /\ Ending' = Ending /\ QueueInv'
  BY <1>1, <1>3, NobodyMoves, QueueUntouched DEF IInv
<1>9. /\ gate.blockers \ {k} \subseteq gate'.blockers /\ gate'.blockers \subseteq gate.blockers
      /\ gate.retained \intersect gate'.blockers \subseteq gate'.retained
      /\ recoveryBlocks \subseteq recoveryBlocks'
      /\ recoveryBlocks' \subseteq PeerKeys \union {"terminalFailure"}
      /\ k \in gate'.blockers => k \in recoveryBlocks' /\ k \in gate'.retained
  <2>1. recoveryBlocks \subseteq PeerKeys \union {"terminalFailure"}
    BY DEF IInv, BlockInv
  <2>2. CASE gate' = Release(g, {k}) /\ recoveryBlocks' = recoveryBlocks
    BY <1>1, <1>4, <2>1, <2>2, GateEffects
  <2>3. CASE gate' = Release(t, {k}) /\ recoveryBlocks' = recoveryBlocks
    BY <1>1, <1>5, <2>1, <2>3, GateEffects
  <2>4. CASE RetainPeerBlock(g, k)
    BY <1>1, <1>4, <2>1, <2>4, GateEffects DEF RetainPeerBlock
  <2> QED BY <1>2, <2>2, <2>3, <2>4
<1>10. ASSUME NEW q \in PeerKeys, q \in gate'.blockers PROVE PeerOwned(q)'
  <2>1. CASE q = k
    BY <1>9, <1>10, <2>1 DEF PeerOwned
  <2>2. CASE q # k
    <3>1. PeerLogoutDue(q)' <=> \E j \in DueLogouts' : j.who = q
      BY DEF PeerLogoutDue, PeerJobs, DueLogouts
    <3>2. PeerOwned(q)
      BY <1>1, <1>9, <1>10, PeersOwned DEF IInv
    <3>3. PeerLogoutDue(q) => PeerLogoutDue(q)'
      BY <1>1, <1>2, <1>6, <2>2, <3>1, DueTypes
    <3> QED BY <1>7, <1>9, <1>10, <3>2, <3>3 DEF PeerOwned
  <2> QED BY <2>1, <2>2
<1>11. BlockInv' /\ NoOrphanBlock'
  <2>1. "logout" \in gate'.blockers <=> logout'.pc # "idle"
    BY <1>1, <1>3, <1>9, LogoutOwned, BlockNames DEF IInv
  <2>2. Ending' \subseteq gate'.blockers
    <3>1. Ending \subseteq Refreshers /\ Ending \subseteq gate.blockers
      BY DEF Ending, IInv, BlockInv
    <3> QED BY <1>8, <1>9, <3>1, BlockNames
  <2> QED BY <1>3, <1>8, <1>9, <1>10, <2>1, <2>2, OwnersHeld DEF IInv, BlockInv
<1>12. ASSUME Quiet => Quiet' PROVE PeerInv'
  <2>1. \A q \in TrackedKeys' : /\ q \in gate'.blockers /\ q \notin retired'
                                /\ tracked'[q].epoch = peerEpoch'
    BY <1>3, <1>7, <1>9 DEF IInv, PeerInv
  <2>2. \A j \in DueLogouts' :
           /\ j.who \in retired'
           /\ j.who \in gate'.blockers /\ j.epoch # peerEpoch' => Quiet'
    BY <1>3, <1>6, <1>9, <1>12 DEF IInv, PeerInv
  <2> QED BY <2>1, <2>2 DEF PeerInv
<1>13. ASSUME gate'.generation = gate.generation, k \in gate'.blockers \/ k \notin gate.blockers \/ Quiet
       PROVE  Kept
  <2>1. PeerInv'
    BY <1>3, <1>12, <1>13 DEF Quiet, Active
  <2>2. Blocked(gate) => Blocked(gate') \/ Quiet
    BY <1>9, <1>13 DEF Blocked
  <2> QED BY <1>3, <1>8, <1>11, <1>13, <2>1, <2>2, PeersMove
<1>14. CASE s.job.epoch # peerEpoch /\ gate' = Release(g, {k})
  <2>1. gate'.generation = gate.generation
    BY <1>1, <1>4, <1>14, GateEffects
  <2>2. k \notin gate.blockers \/ Quiet
    BY <1>2, <1>6, <1>14 DEF IInv, PeerInv
  <2> QED BY <1>13, <2>1, <2>2
<1>15. CASE gate' = Release(t, {k})
  <2>1. gate'.generation = gate.generation + 1
    BY <1>1, <1>5, <1>15, GateEffects
  <2>2. PeerInv'
    BY <1>1, <1>8, <1>12, <2>1, LeaseRenewed DEF IInv
  <2>3. FreshInv' /\ SlotInv'
    <3>1. Common' = Common
      BY <1>3 DEF Common
    <3> QED BY <1>1, <1>3, <3>1, FreshUntouched DEF IInv, SlotInv
  <2> QED BY <1>8, <1>11, <2>1, <2>2, <2>3, NextGeneration
<1>16. CASE RetainPeerBlock(g, k)
  <2>1. gate'.generation = gate.generation /\ gate'.blockers = gate.blockers
    BY <1>1, <1>4, <1>16, GateEffects DEF RetainPeerBlock
  <2> QED BY <1>13, <2>1
<1> QED BY <1>2, <1>14, <1>15, <1>16

------------------------------------------------------------------------------
(* The environment, and steps that change nothing here *)

LEMMA KeepsPeerBegins ==
    ASSUME IInv, TypeInv', NEW k \in PeerKeys, PeerBegins(k) PROVE Kept
<1>1. /\ op' = op /\ registry' = registry /\ Aside /\ minted' = minted /\ degraded' = degraded
      /\ storage' \in {storage, None}
  BY DEF PeerBegins, Aside, Calm
<1> QED BY <1>1, StandsStill DEF Stores

LEMMA KeepsExpire ==
    ASSUME IInv, TypeInv', NEW t \in Tokens, Expire(t) PROVE Kept
<1>1. op' = op /\ registry' = registry /\ Aside /\ Stores({}) /\ minted' = minted
  BY DEF Expire, Aside, Calm, Stores
<1> QED BY <1>1, StandsStill

\* The credential that another tab has rotated into storage is new to this one.
LEMMA KeepsPeerRotates ==
    ASSUME IInv, TypeInv', PeerRotates PROVE Kept
<1>1. /\ op' = op /\ registry' = registry /\ gate' = gate /\ logout' = logout /\ queue' = queue
      /\ UNCHANGED <<recoveryBlocks, degraded, tracked, retired, peerEpoch, settling>>
      /\ minted' = minted + 1 /\ storage' = minted + 1
  BY DEF PeerRotates
<1>2. /\ \A t \in Common \union {None} : t \in Nat /\ t <= minted
      /\ \A q \in Ops : \A t \in Of(q) : t \in Nat /\ t <= minted
      /\ minted \in Nat
  BY TokensKnown DEF IInv
<1>3. Continues /\ Ending' = Ending
  BY <1>1, NobodyMoves DEF IInv
<1>4. QueueInv' /\ DueLogouts' = DueLogouts
  BY <1>1, QueueUntouched, DueSame DEF IInv
<1>5. BlockInv' /\ NoOrphanBlock'
  BY <1>1, <1>3, <1>4, OwnersKept DEF IInv
<1>6. FreshInv'
  <2>1. Common' \subseteq Common \union {minted + 1}
    BY <1>1 DEF Common
  <2>2. \A q \in Ops : Of(q)' = Of(q) /\ op'[q] = op[q] /\ op[q].got \in Of(q)
    BY <1>1 DEF Of
  <2>3. \A t \in Common' : t <= minted'
    BY <1>1, <1>2, <2>1
  <2>4. \A q \in Ops : \A t \in Of(q)' : t <= minted'
    BY <1>1, <1>2, <2>2
  <2>5. \A q \in Ops : op[q].got # minted + 1
    BY <1>2, <2>2
  <2>6. \A q \in Ops : op[q].pc \in FreshPcs => op[q].got \notin Common'
    BY <2>1, <2>5 DEF IInv, FreshInv
  <2>7. \A q \in Ops : op[q].pc \in FreshPcs =>
           /\ op[q].got \notin {op[q].known, op[q].held} \union op[q].invalidate
           /\ \A p \in Ops \ {q} : op[q].got \notin Of(p)
    BY DEF IInv, FreshInv
  <2> QED BY <2>2, <2>3, <2>4, <2>6, <2>7 DEF FreshInv
<1>7. SlotInv'
  BY <1>1 DEF IInv, SlotInv
<1> QED BY <1>1, <1>3, <1>4, <1>5, <1>6, <1>7, SameGeneration

LEMMA KeepsNothing ==
    ASSUME IInv, TypeInv', UNCHANGED vars PROVE Kept
<1>1. op' = op /\ registry' = registry /\ Aside /\ Stores({}) /\ minted' = minted
  BY DEF vars, Aside, Calm, Stores
<1> QED BY <1>1, StandsStill

------------------------------------------------------------------------------
(* The theorems *)

LEMMA InitIInv == Init => IInv
<1> SUFFICES ASSUME Init PROVE IInv
  OBVIOUS
<1>1. TypeInv
  BY TypeInit
<1>2. /\ gate.generation = 0 /\ gate.blockers = {} /\ recoveryBlocks = {}
      /\ registry.reserved = {} /\ registry.candidates = {} /\ registry.pending = {}
      /\ registry.cancelled = {}
  BY DEF Init, NewGate, NewRegistry
<1>3. /\ logout.pc = "idle" /\ logout.invalidate = {} /\ queue = <<>> /\ settling = {}
      /\ storage \in {None, 1} /\ degraded = None /\ minted = storage /\ None = 0
  BY DEF Init, NoLogout, None
<1>4. \A o \in Ops : /\ op[o].pc = "idle" /\ op[o].lease = 0 /\ op[o].got = None
                     /\ op[o].known = None /\ op[o].held = None /\ op[o].invalidate = {}
  BY DEF Init, NoOp
<1>5. Ending = {}
  BY <1>4 DEF Ending, EndPcs, Ops
<1>6. TrackedKeys = {} /\ DueLogouts = {}
  BY <1>3 DEF TrackedKeys, DueLogouts, Init, Untracked
<1>7. LeaseInv /\ BlockInv /\ NoOrphanBlock /\ SlotInv /\ CancelledIsDead
  BY <1>2, <1>3, <1>4, <1>5 DEF LeaseInv, BlockInv, NoOrphanBlock, SlotInv, CancelledIsDead
<1>8. QueueInv /\ PeerInv
  BY <1>3, <1>6 DEF QueueInv, PeerInv
<1>9. FreshInv
  <2>1. \A t \in Common : t <= minted
    BY <1>2, <1>3 DEF Common
  <2>2. \A o \in Ops : \A t \in Of(o) : t <= minted
    BY <1>3, <1>4 DEF Of
  <2>3. \A o \in Ops : op[o].pc \notin FreshPcs
    BY <1>4 DEF FreshPcs
  <2> QED BY <2>1, <2>2, <2>3 DEF FreshInv
<1> QED BY <1>1, <1>7, <1>8, <1>9 DEF IInv

LEMMA ContinueKeeps ==
    ASSUME IInv, TypeInv', NEW o \in Ops, Continue(o) PROVE Kept
<1>1. CASE o \in Refreshers /\ (\/ GotToken(o) \/ Loaded(o) \/ LockAcquired(o) \/ Reloaded(o)
                                \/ Rechecked(o) \/ EndRevoked(o))
  BY <1>1, KeepsGotToken, KeepsLoaded, KeepsLockAcquired, KeepsReloaded, KeepsRechecked,
     KeepsEndRevoked
<1>2. CASE ReadStorage(o) \/ (o \in Updates /\ TokenUpdated(o))
  BY <1>2, KeepsReadStorage, KeepsTokenUpdated
<1>3. CASE \/ Answered(o) \/ Disowned(o) \/ Saved(o) \/ SaveFailed(o) \/ Announced(o)
           \/ Dropped(o)
  BY <1>3, KeepsAnswered, KeepsDisowned, KeepsSaved, KeepsSaveFailed, KeepsAnnounced,
     KeepsDropped
<1> QED BY <1>1, <1>2, <1>3 DEF Continue

LEMMA IInvNext ==
    ASSUME IInv, [Next]_vars PROVE IInv' /\ CutStep
<1>1. TypeInv'
  BY TypeNext DEF IInv
<1>2. Kept
  <2>1. CASE Application
    BY <1>1, <2>1, KeepsBeginLogin, KeepsLoginCancelled, KeepsLogoutCall, KeepsCall,
       KeepsCallbackCall DEF Application, GetTokenCall, RefreshCall
  <2>2. CASE \E o \in Ops : Continue(o)
    BY <1>1, <2>2, ContinueKeeps
  <2>3. CASE StorageStep
    BY <1>1, <2>3, KeepsStartSave, KeepsFinishSave, KeepsUndoSave, KeepsStartEnd,
       KeepsFinishEnd, KeepsStartLogoutClear, KeepsFinishLogoutClear, KeepsPeerClear
       DEF StorageStep
  <2>4. CASE LogoutStep
    BY <1>1, <2>4, KeepsLogoutRevoked, KeepsLogoutSettled, KeepsLogoutFinished
       DEF LogoutStep
  <2>5. CASE \E k \in PeerKeys : PeerClearSettled(k) \/ PeerLogoutSettled(k)
    BY <1>1, <2>5, KeepsPeerClearSettled, KeepsPeerLogoutSettled
  <2>6. CASE Environment
    BY <1>1, <2>6, KeepsServe, KeepsExpire, KeepsPeerRotates, KeepsPeerBegins,
       KeepsOnSessionCleared, KeepsOnLogout, KeepsOnTokenUpdated DEF Environment
  <2>7. CASE UNCHANGED vars
    BY <1>1, <2>7, KeepsNothing
  <2> QED BY <2>1, <2>2, <2>3, <2>4, <2>5, <2>6, <2>7 DEF Next
<1> QED BY <1>1, <1>2 DEF Kept, IInv

LEMMA Inductive == Spec => []IInv
<1>1. IInv /\ [Next]_vars => IInv'
  BY IInvNext
<1> QED BY InitIInv, <1>1, PTL DEF Spec

\* An operation that a logout, a terminal refresh, another tab or a login has cut off
\* never becomes valid again: whatever releases the last block of a transition comes
\* after a new generation (terminate() and reset() of session.ts, and the callers of
\* its releases in client.ts).
THEOREM LeasesStayDead == Spec => CutOffStaysCutOff
<1>1. IInv /\ [Next]_vars => [CutStep]_vars
  BY IInvNext
<1> QED BY Inductive, <1>1, PTL DEF Spec, CutOffStaysCutOff, CutStep

\* What a drain cancels is dead already, even when the drain runs after a login.
THEOREM CancelledDead == Spec => []CancelledIsDead
<1>1. IInv => CancelledIsDead
  BY DEF IInv
<1> QED BY Inductive, <1>1, PTL

\* Every block of the gate has an owner that can release it.
THEOREM BlocksOwned == Spec => []NoOrphanBlock
<1>1. IInv => NoOrphanBlock
  BY DEF IInv
<1> QED BY Inductive, <1>1, PTL

------------------------------------------------------------------------------
(* The counters of the gate *)

PeerKinds == {"peerClear", "peerLogout"}
Same(i, j) == i.kind = j.kind /\ i.who = j.who

\* What a message of another tab is refused for, once it has been honoured.
NotedBy(j, over, track) == j.who \in over \/ (j.kind = "peerClear" /\ track[j.who].on)
Noted(j) == NotedBy(j, retired, tracked)
NotedNext(j) == NotedBy(j, retired', tracked')

\* A message of another tab is honoured once: one job in the queue, or one clear that
\* is over, until it is settled.
OnceInv ==
    /\ \A i \in DOMAIN queue : queue[i].kind \in PeerKinds => Noted(queue[i])
    /\ \A s \in settling : s.job.kind \in PeerKinds /\ Noted(s.job)
    /\ \A i, j \in DOMAIN queue :
         queue[i].kind \in PeerKinds /\ Same(queue[i], queue[j]) => i = j
    /\ \A i \in DOMAIN queue, s \in settling : ~Same(queue[i], s.job)

CountInv ==
    /\ IsFiniteSet(Ending) /\ IsFiniteSet(settling)
    /\ OnceInv /\ GateAccounting

\* The methods of the gate that count, and those that do not.
LEMMA CountEffects ==
    ASSUME NEW g \in GateType(Blocks), NEW b \in Blocks, NEW B, NEW reg
    PROVE  /\ \A h \in {Block(g, b), Release(g, B), BlockRetained(g, b), Retain(g, b),
                        Terminate(g), Reset(g), SyncPending(g, reg)} :
                 /\ h \in GateType(Blocks)
                 /\ h.localBlocks = g.localBlocks /\ h.pendingOps = g.pendingOps
           /\ /\ BlockLocal(g, b).localBlocks = g.localBlocks + 1
              /\ BlockLocal(g, b).pendingOps = g.pendingOps
              /\ BlockLocal(g, b) \in GateType(Blocks)
           /\ /\ g.localBlocks # 0 => ReleaseLocal(g, b).localBlocks = g.localBlocks - 1
              /\ ReleaseLocal(g, b).pendingOps = g.pendingOps
              /\ ReleaseLocal(g, b) \in GateType(Blocks)
           /\ /\ BeginPendingOp(g).localBlocks = g.localBlocks
              /\ BeginPendingOp(g).pendingOps = g.pendingOps + 1
              /\ BeginPendingOp(g) \in GateType(Blocks)
           /\ /\ EndPendingOp(g).localBlocks = g.localBlocks
              /\ g.pendingOps # 0 => EndPendingOp(g).pendingOps = g.pendingOps - 1
              /\ EndPendingOp(g) \in GateType(Blocks)
<1>1. \A h \in GateType(Blocks), c \in Blocks : \A C :
         /\ Block(h, c).localBlocks = h.localBlocks /\ Block(h, c).pendingOps = h.pendingOps
         /\ Release(h, C).localBlocks = h.localBlocks /\ Release(h, C).pendingOps = h.pendingOps
  BY DEF GateType, Block, Release
<1>2. \A h \in GateType(Blocks), c \in Blocks : Block(h, c) \in GateType(Blocks)
  BY DEF GateType, Block
<1>3. \A h \in GateType(Blocks), c \in Blocks :
         /\ BlockRetained(h, c).localBlocks = h.localBlocks
         /\ BlockRetained(h, c).pendingOps = h.pendingOps
  BY <1>1, <1>2 DEF GateType, BlockRetained
<1>4. /\ Retain(g, b).localBlocks = g.localBlocks /\ Retain(g, b).pendingOps = g.pendingOps
      /\ Terminate(g).localBlocks = g.localBlocks /\ Terminate(g).pendingOps = g.pendingOps
  BY DEF GateType, Retain, Terminate
<1>5. Reset(g).localBlocks = g.localBlocks /\ Reset(g).pendingOps = g.pendingOps
  BY <1>4, GateClosed DEF GateType, Reset
<1>6. "pendingRevocation" \in Blocks
  BY DEF Blocks
<1>7. SyncPending(g, reg) \in GateType(Blocks)
  BY SyncEffects
<1>8. /\ SyncPending(g, reg).localBlocks = g.localBlocks
      /\ SyncPending(g, reg).pendingOps = g.pendingOps
  BY <1>1, <1>3, <1>6 DEF SyncPending
<1>9. /\ BlockLocal(g, b).localBlocks = g.localBlocks + 1
      /\ BlockLocal(g, b).pendingOps = g.pendingOps
  BY <1>1, <1>2 DEF GateType, BlockLocal
<1>10. Release(g, {b}) \in GateType(Blocks)
  BY DEF GateType, Release
<1>11. /\ g.localBlocks # 0 => ReleaseLocal(g, b).localBlocks = g.localBlocks - 1
       /\ ReleaseLocal(g, b).pendingOps = g.pendingOps
  BY <1>1, <1>10 DEF GateType, ReleaseLocal, MinusOne
<1>12. /\ BeginPendingOp(g).localBlocks = g.localBlocks
       /\ BeginPendingOp(g).pendingOps = g.pendingOps + 1
       /\ EndPendingOp(g).localBlocks = g.localBlocks
       /\ g.pendingOps # 0 => EndPendingOp(g).pendingOps = g.pendingOps - 1
  BY DEF GateType, BeginPendingOp, EndPendingOp, MinusOne
<1> QED BY <1>1, <1>3, <1>4, <1>5, <1>7, <1>8, <1>9, <1>11, <1>12, GateClosed

------------------------------------------------------------------------------
(* The jobs of other tabs in a queue *)

PeerJobsOf(q) == {i \in DOMAIN q : q[i].kind \in PeerKinds}

LEMMA PeerJobsAre == PeerJobs = PeerJobsOf(queue)
BY DEF PeerJobs, PeerJobsOf, PeerKinds

LEMMA PeerJobsFinite ==
    ASSUME NEW S, NEW q \in Seq(S)
    PROVE  IsFiniteSet(PeerJobsOf(q)) /\ Cardinality(PeerJobsOf(q)) \in Nat
<1>1. DOMAIN q = 1..Len(q) /\ Len(q) \in Nat
  OBVIOUS
<1>2. IsFiniteSet(1..Len(q))
  BY <1>1, FS_Interval
<1>3. PeerJobsOf(q) \in SUBSET (1..Len(q))
  BY <1>1 DEF PeerJobsOf
<1>4. IsFiniteSet(PeerJobsOf(q))
  BY <1>2, <1>3, FS_Subset
<1> QED BY <1>4, FS_CardinalityType

LEMMA PeerJobsAppended ==
    ASSUME NEW S, NEW q \in Seq(S), NEW j \in S
    PROVE  Cardinality(PeerJobsOf(Append(q, j))) =
              Cardinality(PeerJobsOf(q)) + IF j.kind \in PeerKinds THEN 1 ELSE 0
<1> DEFINE n == Len(q) + 1
<1>1. /\ DOMAIN Append(q, j) = 1..n /\ DOMAIN q = 1..Len(q) /\ Len(q) \in Nat
      /\ \A i \in DOMAIN q : Append(q, j)[i] = q[i]
      /\ Append(q, j)[n] = j
  BY AppendProperties
<1>2. 1..n = 1..Len(q) \cup {n} /\ n \notin 1..Len(q)
  BY <1>1
<1>3. PeerJobsOf(Append(q, j)) =
         IF j.kind \in PeerKinds THEN PeerJobsOf(q) \cup {n} ELSE PeerJobsOf(q)
  <2> HIDE DEF n
  <2> QED BY <1>1, <1>2 DEF PeerJobsOf
<1>4. n \notin PeerJobsOf(q)
  BY <1>1, <1>2 DEF PeerJobsOf
<1>5. IsFiniteSet(PeerJobsOf(q)) /\ Cardinality(PeerJobsOf(q)) \in Nat
  BY PeerJobsFinite
<1>6. Cardinality(PeerJobsOf(q) \cup {n}) = Cardinality(PeerJobsOf(q)) + 1
  BY <1>4, <1>5, FS_AddElement
<1> QED BY <1>3, <1>5, <1>6

LEMMA PeerJobsTail ==
    ASSUME NEW S, NEW q \in Seq(S), q # <<>>
    PROVE  Cardinality(PeerJobsOf(q)) =
              Cardinality(PeerJobsOf(Tail(q))) + IF Head(q).kind \in PeerKinds THEN 1 ELSE 0
<1> DEFINE A == PeerJobsOf(Tail(q))
           B == PeerJobsOf(q) \ {1}
           f == [i \in A |-> i + 1]
<1>1. /\ Tail(q) \in Seq(S) /\ Len(q) \in Nat \ {0} /\ DOMAIN q = 1..Len(q)
      /\ DOMAIN Tail(q) = 1..(Len(q) - 1)
      /\ \A i \in DOMAIN Tail(q) : Tail(q)[i] = q[i + 1]
      /\ Head(q) = q[1]
  BY HeadTailProperties
<1>2. A \subseteq Nat /\ \A i \in Nat : i \in A <=> i + 1 \in B
  BY <1>1 DEF PeerJobsOf
<1>3. \A k \in B : k \in Nat /\ k # 0 /\ k # 1
  BY <1>1 DEF PeerJobsOf
<1> HIDE DEF A, B
<1>4. \A k \in B : k - 1 \in A /\ f[k - 1] = k
  <2> TAKE k \in B
  <2>1. k - 1 \in Nat /\ (k - 1) + 1 = k
    BY <1>3
  <2>2. k - 1 \in A
    BY <1>2, <2>1
  <2> QED BY <2>1, <2>2
<1>5. f \in Bijection(A, B)
  <2>1. f \in [A -> B]
    BY <1>2
  <2>2. \A i, j \in A : f[i] = f[j] => i = j
    BY <1>2
  <2>3. \A k \in B : \E i \in A : f[i] = k
    BY <1>4
  <2> HIDE DEF f
  <2> QED BY <2>1, <2>2, <2>3, Fun_IsBij
<1>6. IsFiniteSet(A) /\ Cardinality(A) \in Nat
  BY <1>1, PeerJobsFinite DEF A
<1>7. Cardinality(B) = Cardinality(A)
  <2>1. ExistsBijection(A, B)
    BY <1>5 DEF ExistsBijection
  <2> QED BY <1>6, <2>1, FS_Bijection
<1>8. IsFiniteSet(PeerJobsOf(q)) /\ Cardinality(PeerJobsOf(q)) \in Nat
  BY PeerJobsFinite
<1>9. Cardinality(B) = IF 1 \in PeerJobsOf(q) THEN Cardinality(PeerJobsOf(q)) - 1
                       ELSE Cardinality(PeerJobsOf(q))
  BY <1>8, FS_RemoveElement DEF B
<1>10. 1 \in PeerJobsOf(q) <=> Head(q).kind \in PeerKinds
  BY <1>1 DEF PeerJobsOf
<1> QED BY <1>6, <1>7, <1>8, <1>9, <1>10 DEF A

------------------------------------------------------------------------------
(* What a kind of step does to the counters *)

LEMMA ReleaseCounts ==
    ASSUME NEW g \in GateType(Blocks), NEW B
    PROVE  LET h == Release(g, B) IN
           h \in GateType(Blocks) /\ h.localBlocks = g.localBlocks /\ h.pendingOps = g.pendingOps
BY DEF GateType, Release

LEMMA SyncCounts ==
    ASSUME NEW g \in GateType(Blocks), NEW reg
    PROVE  LET h == SyncPending(g, reg) IN
           h \in GateType(Blocks) /\ h.localBlocks = g.localBlocks /\ h.pendingOps = g.pendingOps
<1>1. "pendingRevocation" \in Blocks
  BY DEF Blocks
<1> QED BY <1>1, CountEffects

LEMMA BlockCounts ==
    ASSUME NEW g \in GateType(Blocks), NEW b \in Blocks
    PROVE  LET h == BlockRetained(g, b) IN
           h \in GateType(Blocks) /\ h.localBlocks = g.localBlocks /\ h.pendingOps = g.pendingOps
BY CountEffects

\* No message is honoured, and none is settled.
CalmQueue ==
    \/ queue' = queue
    \/ \E job \in JobType : job.kind \notin PeerKinds /\ queue' = Append(queue, job)
    \/ queue # <<>> /\ Head(queue).kind \notin PeerKinds /\ queue' = Tail(queue)

\* What is honoured stays so.
NotesKept ==
    \A k \in PeerKeys : /\ k \in retired => k \in retired'
                        /\ tracked[k].on => k \in retired' \/ tracked'[k].on

LEMMA NotedStays ==
    ASSUME TypeInv, NotesKept, NEW j \in JobType, j.kind \in PeerKinds, Noted(j)
    PROVE  NotedNext(j)
<1>1. j.who \in PeerKeys
  BY JobTypes DEF PeerKinds
<1> QED BY <1>1 DEF Noted, NotedNext, NotedBy, NotesKept

LEMMA OnceStays ==
    ASSUME TypeInv, OnceInv, NotesKept, settling' = settling, CalmQueue
    PROVE  OnceInv' /\ Cardinality(PeerJobs') = Cardinality(PeerJobs)
<1>1. queue \in Seq(JobType) /\ \A s \in settling : s.job \in JobType
  BY DEF TypeInv, TypeOK
<1>2. \A i \in DOMAIN queue : queue[i] \in JobType
  BY <1>1
<1>3. \A s \in settling : s.job.kind \in PeerKinds /\ NotedNext(s.job)
  BY <1>1, NotedStays DEF OnceInv
<1>4. \A i \in DOMAIN queue : queue[i].kind \in PeerKinds => NotedNext(queue[i])
  BY <1>2, NotedStays DEF OnceInv
<1>5. CASE queue' = queue
  BY <1>3, <1>4, <1>5 DEF OnceInv, PeerJobs, Noted, NotedNext
<1>6. ASSUME NEW job \in JobType, job.kind \notin PeerKinds, queue' = Append(queue, job)
      PROVE  OnceInv' /\ Cardinality(PeerJobs') = Cardinality(PeerJobs)
  <2>1. /\ DOMAIN queue' = 1..(Len(queue) + 1) /\ DOMAIN queue = 1..Len(queue)
        /\ \A i \in DOMAIN queue : queue'[i] = queue[i]
        /\ queue'[Len(queue) + 1] = job /\ Len(queue) \in Nat
    BY <1>1, <1>6, AppendProperties
  <2>2. \A i \in DOMAIN queue' : i \in DOMAIN queue \/ i = Len(queue) + 1
    BY <2>1
  <2>3. \A i \in DOMAIN queue' : queue'[i].kind \in PeerKinds =>
           i \in DOMAIN queue /\ queue'[i] = queue[i]
    BY <1>6, <2>1, <2>2
  <2>4. \A i \in DOMAIN queue' : queue'[i].kind \in PeerKinds => NotedNext(queue'[i])
    BY <1>4, <2>3
  <2>5. \A i, j \in DOMAIN queue' :
           queue'[i].kind \in PeerKinds /\ Same(queue'[i], queue'[j]) => i = j
    BY <2>3 DEF OnceInv, Same
  <2>6. \A i \in DOMAIN queue', s \in settling : ~Same(queue'[i], s.job)
    BY <1>3, <2>3 DEF OnceInv, Same
  <2>7. OnceInv'
    BY <1>3, <2>4, <2>5, <2>6 DEF OnceInv, Noted, NotedNext
  <2>8. Cardinality(PeerJobsOf(Append(queue, job))) = Cardinality(PeerJobsOf(queue))
    <3>1. Cardinality(PeerJobsOf(queue)) \in Nat
      BY <1>1, PeerJobsFinite
    <3> QED BY <1>1, <1>6, <3>1, PeerJobsAppended
  <2>9. PeerJobs' = PeerJobsOf(Append(queue, job)) /\ PeerJobs = PeerJobsOf(queue)
    BY <1>6 DEF PeerJobs, PeerJobsOf, PeerKinds
  <2> QED BY <2>7, <2>8, <2>9
<1>7. CASE queue # <<>> /\ Head(queue).kind \notin PeerKinds /\ queue' = Tail(queue)
  <2>1. /\ Len(queue) \in Nat \ {0} /\ DOMAIN queue = 1..Len(queue)
        /\ DOMAIN queue' = 1..(Len(queue) - 1)
        /\ \A i \in DOMAIN queue' : queue'[i] = queue[i + 1] /\ i + 1 \in DOMAIN queue
                                    /\ i \in Nat
    BY <1>1, <1>7, HeadTailProperties
  <2>2. \A i \in DOMAIN queue' : queue'[i].kind \in PeerKinds => NotedNext(queue'[i])
    BY <1>4, <2>1
  <2>3. \A i, j \in DOMAIN queue' :
           queue'[i].kind \in PeerKinds /\ Same(queue'[i], queue'[j]) => i = j
    <3> SUFFICES ASSUME NEW i \in DOMAIN queue', NEW j \in DOMAIN queue',
                        queue'[i].kind \in PeerKinds, Same(queue'[i], queue'[j])
                 PROVE  i = j
      OBVIOUS
    <3>1. i + 1 = j + 1
      BY <2>1 DEF OnceInv
    <3> QED BY <2>1, <3>1
  <2>4. \A i \in DOMAIN queue', s \in settling : ~Same(queue'[i], s.job)
    BY <2>1 DEF OnceInv
  <2>5. OnceInv'
    BY <1>3, <2>2, <2>3, <2>4 DEF OnceInv, Noted, NotedNext
  <2>6. Cardinality(PeerJobsOf(queue)) = Cardinality(PeerJobsOf(Tail(queue)))
    <3>1. Tail(queue) \in Seq(JobType)
      BY <1>1, <1>7, HeadTailProperties
    <3>2. Cardinality(PeerJobsOf(Tail(queue))) \in Nat
      BY <3>1, PeerJobsFinite
    <3> QED BY <1>1, <1>7, <3>2, PeerJobsTail
  <2>7. PeerJobs' = PeerJobsOf(Tail(queue)) /\ PeerJobs = PeerJobsOf(queue)
    BY <1>7 DEF PeerJobs, PeerJobsOf, PeerKinds
  <2> QED BY <2>5, <2>6, <2>7
<1> QED BY <1>5, <1>6, <1>7 DEF CalmQueue

GateSteady == gate'.localBlocks = gate.localBlocks /\ gate'.pendingOps = gate.pendingOps

\* Nothing that counts begins or ends.
LEMMA CountStays ==
    ASSUME TypeInv, CountInv, GateSteady, Ending' = Ending,
           logout'.pc = "idle" <=> logout.pc = "idle",
           settling' = settling, NotesKept, CalmQueue
    PROVE  CountInv'
<1>1. OnceInv' /\ Cardinality(PeerJobs') = Cardinality(PeerJobs)
  BY OnceStays DEF CountInv
<1> QED BY <1>1 DEF CountInv, GateAccounting, GateSteady

\* One operation moves, into or out of no transition.
LEMMA EndingStays ==
    ASSUME NEW o \in Ops, op \in [Ops -> OpType], NEW rec, op' = [op EXCEPT ![o] = rec],
           rec.pc \in EndPcs <=> op[o].pc \in EndPcs
    PROVE  Ending' = Ending
<1>1. \A q \in Refreshers : q \in Ops /\ op'[q] = IF q = o THEN rec ELSE op[q]
  BY DEF Ops
<1> QED BY <1>1 DEF Ending

\* An operation steps, and leaves all that counts as it is.
LEMMA OpCounts ==
    ASSUME TypeInv, CountInv, NEW o \in Ops, NEW rec, op' = [op EXCEPT ![o] = rec],
           rec.pc \in EndPcs <=> op[o].pc \in EndPcs,
           GateSteady, logout' = logout, CalmQueue,
           UNCHANGED <<tracked, retired, settling>>
    PROVE  CountInv'
<1>1. Ending' = Ending
  BY EndingStays DEF TypeInv, TypeOK
<1>2. NotesKept
  BY DEF NotesKept
<1> QED BY <1>1, <1>2, CountStays

\* Nobody steps.
LEMMA NobodyCounts ==
    ASSUME TypeInv, CountInv, op' = op, GateSteady,
           logout'.pc = "idle" <=> logout.pc = "idle", CalmQueue, NotesKept, settling' = settling
    PROVE  CountInv'
<1>1. Ending' = Ending
  BY DEF Ending
<1> QED BY <1>1, CountStays

\* No operation enters or leaves a transition.
EndSame == \A q \in Ops : op'[q].pc \in EndPcs <=> op[q].pc \in EndPcs

\* All that counts but the operations is left alone.
Uncounted == UNCHANGED <<gate, logout, queue, tracked, retired, settling>>

LEMMA Quietly ==
    ASSUME TypeInv, CountInv, Uncounted, EndSame PROVE CountInv'
<1>1. Ending' = Ending
  BY DEF Ending, EndSame, Ops
<1> QED BY <1>1, CountStays DEF Uncounted, GateSteady, NotesKept, CalmQueue

LEMMA EndSameAt ==
    ASSUME TypeInv, NEW o \in Ops, NEW rec, op' = [op EXCEPT ![o] = rec],
           rec.pc \in EndPcs <=> op[o].pc \in EndPcs
    PROVE  EndSame
BY DEF EndSame, TypeInv, TypeOK

\* What an operation may become without entering a transition.
LEMMA EndSameOf ==
    ASSUME TypeInv, NEW o \in Ops, op[o].pc \notin EndPcs
    PROVE  /\ \A pc \in Pcs \ EndPcs : Step(o, pc) => EndSame
           /\ op' = [op EXCEPT ![o] = NoOp] => EndSame
           /\ \A t : Return(o, t) => EndSame
<1>1. op[o] \in OpType /\ op \in [Ops -> OpType]
  BY DEF TypeInv, TypeOK
<1>2. \A pc \in Pcs \ EndPcs : Step(o, pc) => EndSame
  <2> SUFFICES ASSUME NEW pc \in Pcs \ EndPcs, Step(o, pc) PROVE EndSame
    OBVIOUS
  <2> DEFINE rec == [op[o] EXCEPT !.pc = pc]
  <2>1. rec.pc = pc /\ op' = [op EXCEPT ![o] = rec]
    BY <1>1 DEF OpType, Step
  <2> HIDE DEF rec
  <2> QED BY <2>1, EndSameAt
<1>3. op' = [op EXCEPT ![o] = NoOp] => EndSame
  <2>1. NoOp.pc \notin EndPcs
    BY DEF NoOp, EndPcs
  <2> QED BY <2>1, EndSameAt
<1>4. ASSUME NEW t, Return(o, t) PROVE EndSame
  <2> DEFINE rec == [NoOp EXCEPT !.pc = "returned", !.lease = op[o].lease, !.got = t]
  <2>1. rec.pc \notin EndPcs /\ op' = [op EXCEPT ![o] = rec]
    BY <1>4 DEF NoOp, EndPcs, Return
  <2> HIDE DEF rec
  <2> QED BY <2>1, EndSameAt
<1> QED BY <1>2, <1>3, <1>4

\* The program counters that a load ends at are of no transition.
LEMMA LoadsEnd == \A pc \in LoadPcs : AnswerOf[pc] \in Pcs \ EndPcs /\ pc \in Pcs \ EndPcs
BY DEF LoadPcs, AnswerOf, Pcs, RefreshPcs, LockedPcs, EndPcs

------------------------------------------------------------------------------
(* The actions that do not count *)

LEMMA CountCall ==
    ASSUME TypeInv, CountInv, NEW r \in Refreshers, NEW pc \in LoadPcs, Call(r, pc)
    PROVE  CountInv'
<1> DEFINE fresh == [NoOp EXCEPT !.lease = gate.generation]
           rec == IF degraded # None THEN [fresh EXCEPT !.pc = AnswerOf[pc], !.got = degraded]
                  ELSE [fresh EXCEPT !.pc = pc]
<1>1. rec.pc \in {AnswerOf[pc], pc}
  BY DEF NoOp
<1>2. op' = [op EXCEPT ![r] = rec] /\ Uncounted /\ op[r].pc \notin EndPcs
  BY DEF Call, Uncounted, EndPcs
<1> HIDE DEF rec
<1>3. rec.pc \notin EndPcs /\ r \in Ops
  BY <1>1, LoadsEnd DEF Ops
<1> QED BY <1>2, <1>3, EndSameAt, Quietly

LEMMA CountCallbackCall ==
    ASSUME TypeInv, CountInv, NEW c \in Callbacks, CallbackCall(c) PROVE CountInv'
<1> DEFINE rec == [NoOp EXCEPT !.pc = "posted", !.lease = gate.generation]
<1>1. rec.pc \notin EndPcs /\ op[c].pc \notin EndPcs /\ c \in Ops /\ Uncounted
  BY DEF NoOp, EndPcs, CallbackCall, Ops, Uncounted
<1>2. op' = op \/ op' = [op EXCEPT ![c] = rec]
  BY DEF CallbackCall
<1> HIDE DEF rec
<1>3. EndSame
  BY <1>1, <1>2, EndSameAt DEF EndSame
<1> QED BY <1>1, <1>3, Quietly

LEMMA CountServe ==
    ASSUME TypeInv, CountInv, NEW o \in Ops, Serve(o) PROVE CountInv'
<1>1. op[o] \in OpType /\ op[o].pc \notin EndPcs /\ Uncounted
  BY DEF TypeInv, TypeOK, Serve, EndPcs, Uncounted
<1> DEFINE rec == [op[o] EXCEPT !.pc = "answered", !.got = minted + 1]
<1>2. rec.pc = "answered"
  BY <1>1 DEF OpType
<1>3. op' = [op EXCEPT ![o] = rec] \/ Step(o, "dropped") \/ Step(o, "rejected")
  BY DEF Serve, Answer
<1> HIDE DEF rec
<1>4. rec.pc \notin EndPcs /\ {"dropped", "rejected"} \subseteq Pcs \ EndPcs
  BY <1>2 DEF EndPcs, Pcs, RefreshPcs, LockedPcs
<1>5. EndSame
  BY <1>1, <1>3, <1>4, EndSameAt, EndSameOf
<1> QED BY <1>1, <1>5, Quietly

LEMMA CountReadStorage ==
    ASSUME TypeInv, CountInv, NEW o \in Ops, ReadStorage(o) PROVE CountInv'
<1>1. op[o] \in OpType /\ op[o].pc \in LoadPcs /\ Uncounted
  BY DEF TypeInv, TypeOK, ReadStorage, Uncounted
<1> DEFINE read == [op[o] EXCEPT !.pc = AnswerOf[@], !.got = storage]
           missed == [op[o] EXCEPT !.pc = "rechecked", !.got = None]
<1>2. read.pc = AnswerOf[op[o].pc] /\ missed.pc = "rechecked"
  BY <1>1 DEF OpType
<1>3. \/ op' = [op EXCEPT ![o] = read] \/ op' = [op EXCEPT ![o] = missed]
      \/ op' = [op EXCEPT ![o] = NoOp]
  BY DEF ReadStorage, Throw
<1> HIDE DEF read, missed
<1>4. read.pc \notin EndPcs /\ missed.pc \notin EndPcs /\ op[o].pc \notin EndPcs
  BY <1>1, <1>2, LoadsEnd DEF EndPcs
<1>5. EndSame
  BY <1>3, <1>4, EndSameAt, EndSameOf
<1> QED BY <1>1, <1>5, Quietly

\* An operation goes on to a load, or not.
LEMMA BeginLoadPc ==
    ASSUME TypeInv, NEW o \in Ops, NEW pc \in LoadPcs
    PROVE  BeginLoad(o, pc).pc \notin EndPcs
<1>1. op[o] \in OpType
  BY DEF TypeInv, TypeOK
<1>2. BeginLoad(o, pc).pc \in {AnswerOf[pc], pc}
  BY <1>1 DEF BeginLoad, OpType
<1> QED BY <1>2, LoadsEnd

LEMMA CountGotToken ==
    ASSUME TypeInv, CountInv, NEW r \in Refreshers, GotToken(r) PROVE CountInv'
<1>1. r \in Ops /\ op[r].pc \notin EndPcs /\ Uncounted /\ "loading" \in LoadPcs
  BY DEF Ops, GotToken, EndPcs, Uncounted, LoadPcs
<1> DEFINE load == BeginLoad(r, "loading")
           rec == [load EXCEPT !.held = op[r].got]
<1>2. rec.pc = load.pc
  BY <1>1 DEF TypeInv, TypeOK, BeginLoad, OpType
<1>3. load.pc \notin EndPcs
  BY <1>1, BeginLoadPc
<1>4. op' = [op EXCEPT ![r] = NoOp] \/ Return(r, op[r].got) \/ op' = [op EXCEPT ![r] = rec]
  BY DEF GotToken
<1> HIDE DEF rec, load
<1>5. EndSame
  BY <1>1, <1>2, <1>3, <1>4, EndSameAt, EndSameOf
<1> QED BY <1>1, <1>5, Quietly

LEMMA CountLoaded ==
    ASSUME TypeInv, CountInv, NEW r \in Refreshers, Loaded(r) PROVE CountInv'
<1>1. r \in Ops /\ op[r].pc \notin EndPcs /\ Uncounted /\ op[r] \in OpType
  BY DEF Ops, Loaded, EndPcs, Uncounted, TypeInv, TypeOK
<1> DEFINE rec == [op[r] EXCEPT !.pc = "locking", !.known = op[r].got]
<1>2. rec.pc \notin EndPcs
  BY <1>1 DEF OpType, EndPcs
<1>3. op' = [op EXCEPT ![r] = NoOp] \/ op' = [op EXCEPT ![r] = rec]
  BY DEF Loaded
<1> HIDE DEF rec
<1>4. EndSame
  BY <1>1, <1>2, <1>3, EndSameAt, EndSameOf
<1> QED BY <1>1, <1>4, Quietly

LEMMA CountLockAcquired ==
    ASSUME TypeInv, CountInv, NEW r \in Refreshers, LockAcquired(r) PROVE CountInv'
<1>1. r \in Ops /\ op[r].pc \notin EndPcs /\ Uncounted /\ "reloading" \in LoadPcs
  BY DEF Ops, LockAcquired, EndPcs, Uncounted, LoadPcs
<1>2. op' = [op EXCEPT ![r] = BeginLoad(r, "reloading")] \/ op' = [op EXCEPT ![r] = NoOp]
  BY DEF LockAcquired
<1>3. BeginLoad(r, "reloading").pc \notin EndPcs
  BY <1>1, BeginLoadPc
<1>4. EndSame
  BY <1>1, <1>2, <1>3, EndSameAt, EndSameOf
<1> QED BY <1>1, <1>4, Quietly

\* After the save, or without one.
LEMMA CountLast ==
    ASSUME TypeInv, CountInv, NEW o \in Ops,
           Saved(o) \/ SaveFailed(o) \/ Announced(o) \/ Dropped(o)
    PROVE  CountInv'
<1>1. op[o].pc \notin EndPcs /\ Uncounted /\ "announcing" \in Pcs \ EndPcs
  BY DEF Saved, SaveFailed, Announced, Dropped, EndPcs, Pcs, RefreshPcs, LockedPcs, Uncounted
<1>2. \/ Step(o, "announcing") \/ op' = [op EXCEPT ![o] = NoOp]
      \/ Return(o, op[o].got) \/ Return(o, op[o].held)
  BY DEF Saved, SaveFailed, Announced, Dropped, Adopted, Throw
<1>3. EndSame
  BY <1>1, <1>2, EndSameOf
<1> QED BY <1>1, <1>3, Quietly

LEMMA CountUpdates ==
    ASSUME TypeInv, CountInv, NEW u \in Updates, OnTokenUpdated(u) \/ TokenUpdated(u)
    PROVE  CountInv'
<1> DEFINE rec == [NoOp EXCEPT !.pc = "updating", !.lease = gate.generation]
<1>1. u \in Ops /\ op[u].pc \notin EndPcs /\ Uncounted /\ rec.pc \notin EndPcs
  BY DEF Ops, OnTokenUpdated, TokenUpdated, EndPcs, Uncounted, NoOp
<1>2. op' = [op EXCEPT ![u] = rec] \/ op' = [op EXCEPT ![u] = NoOp]
  BY DEF OnTokenUpdated, TokenUpdated
<1> HIDE DEF rec
<1>3. EndSame
  BY <1>1, <1>2, EndSameAt, EndSameOf
<1> QED BY <1>1, <1>3, Quietly

LEMMA CountAbroad ==
    ASSUME TypeInv, CountInv,
           (\E t \in Tokens : Expire(t)) \/ PeerRotates \/ (\E k \in PeerKeys : PeerBegins(k))
              \/ UNCHANGED vars
    PROVE  CountInv'
<1>1. Uncounted /\ op' = op
  BY DEF Expire, PeerRotates, PeerBegins, vars, Uncounted
<1> QED BY <1>1, Quietly DEF EndSame

------------------------------------------------------------------------------
(* The storage queue *)

LEMMA SaveAppended ==
    ASSUME NEW o \in Ops, NEW kind \in {"save", "end"}, Enqueue(Job(kind, o, 0))
    PROVE  CalmQueue
<1> DEFINE job == Job(kind, o, 0)
<1>1. job \in JobType /\ job.kind \notin PeerKinds
  BY DEF Job, JobType, PeerKinds
<1>2. queue' = Append(queue, job)
  BY DEF Enqueue
<1> HIDE DEF job
<1> QED BY <1>1, <1>2 DEF CalmQueue

LEMMA CountAnswered ==
    ASSUME TypeInv, CountInv, NEW o \in Ops, Answered(o) PROVE CountInv'
<1>1. /\ op[o].pc \notin EndPcs /\ GateSteady /\ logout' = logout
      /\ UNCHANGED <<tracked, retired, settling>> /\ {"saving", "disowning"} \subseteq Pcs \ EndPcs
  BY DEF Answered, EndPcs, GateSteady, Pcs, RefreshPcs, LockedPcs
<1>2. (Step(o, "saving") /\ CalmQueue) \/ (Step(o, "disowning") /\ CalmQueue)
  BY SaveAppended DEF Answered, BeginSave, CalmQueue
<1>3. EndSame
  BY <1>1, <1>2, EndSameOf
<1>4. Ending' = Ending
  BY <1>3 DEF EndSame, Ending, Ops
<1> QED BY <1>1, <1>2, <1>4, CountStays DEF NotesKept

LEMMA CountDisowned ==
    ASSUME TypeInv, CountInv, NEW o \in Ops, Disowned(o) PROVE CountInv'
<1>1. /\ op[o].pc \notin EndPcs /\ logout' = logout
      /\ UNCHANGED <<tracked, retired, settling>> /\ "saving" \in Pcs \ EndPcs
  BY DEF Disowned, EndPcs, Pcs, RefreshPcs, LockedPcs
<1>2. PICK reg : gate' = SyncPending(gate, reg)
  BY DEF Disowned
<1>3. GateSteady
  <2>1. gate \in GateType(Blocks) /\ "logout" \in Blocks
    BY DEF TypeInv, TypeOK, Blocks
  <2> QED BY <1>2, <2>1, CountEffects DEF GateSteady
<1>4. (Step(o, "saving") /\ CalmQueue) \/ (op' = [op EXCEPT ![o] = NoOp] /\ CalmQueue)
  BY SaveAppended DEF Disowned, BeginSave, CalmQueue
<1>5. EndSame
  BY <1>1, <1>4, EndSameOf
<1>6. Ending' = Ending
  BY <1>5 DEF EndSame, Ending, Ops
<1> QED BY <1>1, <1>3, <1>4, <1>6, CountStays DEF NotesKept

LEMMA HeadTaken ==
    ASSUME TypeInv, NEW kind \in OwnKinds, NextJob(kind), queue' = Tail(queue)
    PROVE  CalmQueue
BY DEF NextJob, OwnKinds, PeerKinds, CalmQueue

LEMMA CountSaves ==
    ASSUME TypeInv, QueueInv, CountInv, StartSave \/ FinishSave \/ UndoSave PROVE CountInv'
<1> DEFINE o == Head(queue).who
<1>1. NextJob("save") /\ o \in Ops /\ op[o].pc \in {"saving", "undoing"}
  <2>1. NextJob("save")
    BY DEF StartSave, FinishSave, UndoSave
  <2> QED BY <2>1, HeadOwned, JobTypes DEF JobOwned
<1>2. /\ GateSteady /\ logout' = logout /\ UNCHANGED <<tracked, retired, settling>>
      /\ {"saved", "saveFailed", "undoing"} \subseteq Pcs \ EndPcs /\ op[o].pc \notin EndPcs
  BY <1>1 DEF StartSave, FinishSave, UndoSave, EndPcs, GateSteady, Pcs, RefreshPcs, LockedPcs
<1>3. queue' = queue \/ queue' = Tail(queue)
  BY DEF StartSave, FinishSave, UndoSave, SaveLanded, SaveRejected, Dequeue
<1>4. CalmQueue
  BY <1>1, <1>3, HeadTaken DEF CalmQueue, OwnKinds
<1>5. op' = op \/ Step(o, "saved") \/ Step(o, "saveFailed") \/ Step(o, "undoing")
  BY DEF StartSave, FinishSave, UndoSave, SaveLanded, SaveRejected
<1> HIDE DEF o
<1>6. EndSame
  <2>1. op' = op => EndSame
    BY DEF EndSame
  <2> QED BY <1>1, <1>2, <1>5, <2>1, EndSameOf
<1>7. Ending' = Ending
  BY <1>6 DEF EndSame, Ending, Ops
<1> QED BY <1>2, <1>4, <1>7, CountStays DEF NotesKept

\* A transition drains the registry, and has its clear.
LEMMA CountEnds ==
    ASSUME TypeInv, QueueInv, CountInv, StartEnd \/ FinishEnd PROVE CountInv'
<1> DEFINE o == Head(queue).who
<1>1. NextJob("end") /\ o \in Ops /\ op[o].pc = "ending" /\ op[o] \in OpType
  <2>1. NextJob("end")
    BY DEF StartEnd, FinishEnd
  <2>2. o \in Ops /\ op[o].pc = "ending"
    BY <2>1, HeadOwned, JobTypes DEF JobOwned
  <2> QED BY <2>1, <2>2 DEF TypeInv, TypeOK
<1>2. /\ GateSteady /\ logout' = logout /\ UNCHANGED <<tracked, retired, settling>>
      /\ queue' = queue \/ queue' = Tail(queue)
  BY DEF StartEnd, FinishEnd, Dequeue, GateSteady
<1>3. CalmQueue
  BY <1>1, <1>2, HeadTaken DEF CalmQueue, OwnKinds
<1>4. EndSame
  <2> DEFINE drained == [op[o] EXCEPT !.invalidate = @ \union Drained(registry)]
  <2>1. drained.pc = "ending"
    BY <1>1 DEF OpType
  <2>2. ASSUME NEW cleared \in BOOLEAN
        PROVE  [op[o] EXCEPT !.pc = "revoking", !.clearFailed = ~cleared].pc = "revoking"
    BY <1>1 DEF OpType
  <2>3. \/ op' = [op EXCEPT ![o] = drained]
        \/ \E cleared \in BOOLEAN :
              op' = [op EXCEPT ![o] = [op[o] EXCEPT !.pc = "revoking", !.clearFailed = ~cleared]]
    BY <1>1 DEF StartEnd, FinishEnd, TypeInv, TypeOK
  <2>4. op[o].pc \in EndPcs /\ "revoking" \in EndPcs
    BY <1>1 DEF EndPcs
  <2> HIDE DEF drained, o
  <2> QED BY <1>1, <2>1, <2>2, <2>3, <2>4, EndSameAt
<1>5. Ending' = Ending
  BY <1>4 DEF EndSame, Ending, Ops
<1> QED BY <1>2, <1>3, <1>5, CountStays DEF NotesKept

LEMMA CountLogoutClear ==
    ASSUME TypeInv, QueueInv, CountInv, StartLogoutClear \/ FinishLogoutClear PROVE CountInv'
<1>1. NextJob("logout") /\ logout.pc = "clearing"
  <2>1. NextJob("logout")
    BY DEF StartLogoutClear, FinishLogoutClear
  <2> QED BY <2>1, HeadOwned DEF JobOwned
<1>2. /\ GateSteady /\ op' = op /\ UNCHANGED <<tracked, retired, settling>>
      /\ queue' = queue \/ queue' = Tail(queue)
  BY DEF StartLogoutClear, FinishLogoutClear, Dequeue, GateSteady
<1>3. CalmQueue
  BY <1>1, <1>2, HeadTaken DEF CalmQueue, OwnKinds
<1>4. logout'.pc \in {"clearing", "revoking"}
  <2>1. logout \in LogoutType
    BY DEF TypeInv, TypeOK
  <2> QED BY <1>1, <2>1 DEF StartLogoutClear, FinishLogoutClear, LogoutType
<1> QED BY <1>1, <1>2, <1>3, <1>4, NobodyCounts DEF NotesKept

LEMMA CountLogoutRevoked ==
    ASSUME TypeInv, CountInv, LogoutRevoked PROVE CountInv'
<1>1. op' = op /\ CalmQueue /\ UNCHANGED <<tracked, retired, settling>>
  BY DEF LogoutRevoked, CalmQueue
<1>2. logout.pc = "revoking" /\ logout'.pc = "settling"
  BY DEF LogoutRevoked, TypeInv, TypeOK, LogoutType
<1>3. gate' = gate \/ \E reg : gate' = SyncPending(gate, reg)
  BY DEF LogoutRevoked
<1>4. GateSteady
  <2>1. gate \in GateType(Blocks) /\ "logout" \in Blocks
    BY DEF TypeInv, TypeOK, Blocks
  <2> QED BY <1>3, <2>1, CountEffects DEF GateSteady
<1> QED BY <1>1, <1>2, <1>4, NobodyCounts DEF NotesKept

LEMMA CountLogoutSettled ==
    ASSUME TypeInv, CountInv, LogoutSettled PROVE CountInv'
<1> DEFINE g == Terminate(gate)
<1>1. op' = op /\ CalmQueue /\ settling' = settling
  BY DEF LogoutSettled, ResolveAllRecoveryBlocks, CalmQueue
<1>2. logout.pc # "idle" /\ logout'.pc = "finishing"
  BY DEF LogoutSettled, TypeInv, TypeOK, LogoutType
<1>3. NotesKept
  BY DEF LogoutSettled, ResolveAllRecoveryBlocks, NotesKept, TrackedKeys
<1>4. \/ gate' = g \/ gate' = BlockRetained(g, "logoutFailed")
      \/ gate' = SyncPending(Release(g, ResolvedBlocks), registry)
  BY DEF LogoutSettled, ResolveAllRecoveryBlocks
<1>5. GateSteady
  <2>1. gate \in GateType(Blocks) /\ "logoutFailed" \in Blocks
    BY DEF TypeInv, TypeOK, Blocks
  <2>2. g \in GateType(Blocks) /\ g.localBlocks = gate.localBlocks /\ g.pendingOps = gate.pendingOps
    BY <2>1, CountEffects
  <2> HIDE DEF g
  <2> DEFINE h == Release(g, ResolvedBlocks)
  <2>3. h \in GateType(Blocks) /\ h.localBlocks = g.localBlocks /\ h.pendingOps = g.pendingOps
    BY <2>2, ReleaseCounts
  <2> HIDE DEF h
  <2>4. /\ SyncPending(h, registry).localBlocks = h.localBlocks
        /\ SyncPending(h, registry).pendingOps = h.pendingOps
        /\ BlockRetained(g, "logoutFailed").localBlocks = g.localBlocks
        /\ BlockRetained(g, "logoutFailed").pendingOps = g.pendingOps
    BY <2>1, <2>2, <2>3, BlockCounts, SyncCounts
  <2> QED BY <1>4, <2>2, <2>3, <2>4 DEF GateSteady, h
<1> QED BY <1>1, <1>2, <1>3, <1>5, NobodyCounts

------------------------------------------------------------------------------
(* What counts *)

LEMMA CountTypes ==
    ASSUME TypeInv, CountInv
    PROVE  /\ gate \in GateType(Blocks) /\ gate.localBlocks \in Nat /\ gate.pendingOps \in Nat
           /\ Cardinality(Ending) \in Nat /\ Cardinality(settling) \in Nat
           /\ Cardinality(PeerJobs) \in Nat
<1>1. queue \in Seq(JobType)
  BY DEF TypeInv, TypeOK
<1>2. Cardinality(PeerJobs) \in Nat
  BY <1>1, PeerJobsFinite, PeerJobsAre
<1> QED BY <1>2, FS_CardinalityType DEF CountInv, TypeInv, TypeOK, GateType

LEMMA RetireNotes ==
    ASSUME TypeInv, RetirePeerOperations PROVE NotesKept /\ settling' = settling
BY DEF RetirePeerOperations, NotesKept, SettledKeys, TrackedKeys

LEMMA CountBeginLogin ==
    ASSUME TypeInv, CountInv, BeginLogin PROVE CountInv'
<1>1. op' = op /\ CalmQueue /\ logout' = logout /\ gate' = Reset(gate)
  BY DEF BeginLogin, CalmQueue
<1>2. NotesKept /\ settling' = settling
  BY RetireNotes DEF BeginLogin
<1>3. GateSteady
  <2>1. gate \in GateType(Blocks) /\ "logout" \in Blocks
    BY DEF TypeInv, TypeOK, Blocks
  <2> QED BY <1>1, <2>1, CountEffects DEF GateSteady
<1> QED BY <1>1, <1>2, <1>3, NobodyCounts

\* logout() blocks, with the gate as it is or as the login left it.
LEMMA CountLogoutStarts ==
    ASSUME TypeInv, CountInv, NEW g \in GateType(Blocks),
           g.localBlocks = gate.localBlocks, g.pendingOps = gate.pendingOps,
           StartLogout(g), op' = op, NotesKept, settling' = settling
    PROVE  CountInv'
<1>1. logout.pc = "idle" /\ logout'.pc # "idle"
  BY DEF StartLogout, NoLogout
<1>2. CalmQueue
  <2> DEFINE job == Job("logout", "logout", 0)
  <2>1. job \in JobType /\ job.kind \notin PeerKinds
    BY DEF Job, JobType, PeerKinds
  <2>2. queue' = queue \/ queue' = Append(queue, job)
    BY DEF StartLogout, Enqueue
  <2> HIDE DEF job
  <2> QED BY <2>1, <2>2 DEF CalmQueue
<1>3. gate'.localBlocks = gate.localBlocks + 1 /\ gate'.pendingOps = gate.pendingOps
  <2>1. "logout" \in Blocks /\ gate' = BlockLocal(g, "logout")
    BY DEF Blocks, StartLogout
  <2> QED BY <2>1, CountEffects
<1>4. OnceInv' /\ Cardinality(PeerJobs') = Cardinality(PeerJobs)
  BY <1>2, OnceStays DEF CountInv
<1>5. Ending' = Ending
  BY DEF Ending
<1> QED BY <1>1, <1>3, <1>4, <1>5, CountTypes DEF CountInv, GateAccounting

LEMMA CountLogoutCall ==
    ASSUME TypeInv, CountInv, LogoutCall PROVE CountInv'
<1>1. /\ gate \in GateType(Blocks) /\ StartLogout(gate) /\ op' = op /\ NotesKept
      /\ settling' = settling
  BY DEF LogoutCall, TypeInv, TypeOK, NotesKept
<1> QED BY <1>1, CountLogoutStarts

LEMMA CountLoginCancelled ==
    ASSUME TypeInv, CountInv, LoginCancelled PROVE CountInv'
<1> DEFINE g == Reset(gate)
<1>1. op' = op /\ NotesKept /\ settling' = settling /\ StartLogout(g)
  BY RetireNotes DEF LoginCancelled
<1>2. /\ g \in GateType(Blocks) /\ g.localBlocks = gate.localBlocks
      /\ g.pendingOps = gate.pendingOps
  <2>1. gate \in GateType(Blocks) /\ "logout" \in Blocks
    BY DEF TypeInv, TypeOK, Blocks
  <2> QED BY <2>1, CountEffects
<1> HIDE DEF g
<1> QED BY <1>1, <1>2, CountLogoutStarts

LEMMA CountLogoutFinished ==
    ASSUME TypeInv, CountInv, LogoutFinished PROVE CountInv'
<1>1. /\ logout.pc # "idle" /\ logout'.pc = "idle" /\ op' = op /\ queue' = queue
      /\ UNCHANGED <<tracked, retired, settling>> /\ gate' = ReleaseLocal(gate, "logout")
  BY DEF LogoutFinished, NoLogout
<1>2. gate.localBlocks = Cardinality(Ending) + 1
  BY <1>1 DEF CountInv, GateAccounting
<1>3. gate'.localBlocks = Cardinality(Ending) /\ gate'.pendingOps = gate.pendingOps
  <2>1. "logout" \in Blocks /\ gate.localBlocks # 0
    BY <1>2, CountTypes DEF Blocks
  <2> QED BY <1>1, <1>2, <2>1, CountTypes, CountEffects
<1>4. OnceInv' /\ Cardinality(PeerJobs') = Cardinality(PeerJobs)
  BY <1>1, OnceStays DEF CountInv, CalmQueue, NotesKept
<1>5. Ending' = Ending
  BY <1>1 DEF Ending
<1> QED BY <1>1, <1>3, <1>4, <1>5, CountTypes DEF CountInv, GateAccounting

\* A refresh begins to end its session.
LEMMA CountEndSession ==
    ASSUME TypeInv, CountInv, NEW r \in Refreshers, op[r].pc \notin EndPcs, EndSession(r),
           UNCHANGED <<logout, tracked, retired, settling>>
    PROVE  CountInv'
<1>0. r \in Ops /\ op \in [Ops -> OpType] /\ r \in Blocks
  BY DEF Ops, TypeInv, TypeOK, Blocks
<1>1. Ending' = Ending \cup {r} /\ r \notin Ending
  <2> DEFINE rec == [op[r] EXCEPT !.pc = "ending", !.invalidate = {op[r].known}]
  <2>1. rec.pc \in EndPcs /\ op' = [op EXCEPT ![r] = rec]
    BY <1>0 DEF OpType, EndSession, EndWith, EndPcs
  <2> HIDE DEF rec
  <2>2. \A q \in Refreshers : q \in Ops /\ op'[q] = IF q = r THEN rec ELSE op[q]
    BY <1>0, <2>1 DEF Ops
  <2> QED BY <2>1, <2>2 DEF Ending
<1>2. /\ IsFiniteSet(Ending') /\ Cardinality(Ending') = Cardinality(Ending) + 1
  BY <1>1, FS_AddElement DEF CountInv
<1>3. /\ gate'.localBlocks = gate.localBlocks + 1 /\ gate'.pendingOps = gate.pendingOps + 1
  <2> DEFINE g == BlockLocal(gate, r)
             h == Terminate(g)
  <2>1. /\ g \in GateType(Blocks) /\ g.localBlocks = gate.localBlocks + 1
        /\ g.pendingOps = gate.pendingOps
    BY <1>0, CountTypes, CountEffects
  <2> HIDE DEF g
  <2>2. /\ h \in GateType(Blocks) /\ h.localBlocks = g.localBlocks
        /\ h.pendingOps = g.pendingOps
    BY <1>0, <2>1, CountEffects
  <2> HIDE DEF h
  <2>3. gate' = BeginPendingOp(h)
    BY DEF EndSession, EndWith, g, h
  <2> QED BY <1>0, <2>1, <2>2, <2>3, CountEffects
<1>4. CalmQueue
  BY <1>0, SaveAppended DEF EndSession, EndWith
<1>5. OnceInv' /\ Cardinality(PeerJobs') = Cardinality(PeerJobs)
  BY <1>4, OnceStays DEF CountInv, NotesKept
<1> QED BY <1>2, <1>3, <1>5, CountTypes DEF CountInv, GateAccounting

LEMMA CountReloaded ==
    ASSUME TypeInv, CountInv, NEW r \in Refreshers, Reloaded(r) PROVE CountInv'
<1>1. /\ r \in Ops /\ op[r].pc \notin EndPcs /\ op[r] \in OpType
      /\ UNCHANGED <<logout, tracked, retired, settling>>
  BY DEF Ops, TypeInv, TypeOK, Reloaded, EndPcs
<1>2. CASE EndSession(r)
  BY <1>1, <1>2, CountEndSession
<1>3. CASE ~EndSession(r)
  <2> DEFINE rec == [op[r] EXCEPT !.pc = "posted", !.known = op[r].got]
  <2>1. rec.pc \notin EndPcs
    BY <1>1 DEF OpType, EndPcs
  <2>2. /\ Uncounted
        /\ op' = [op EXCEPT ![r] = NoOp] \/ Return(r, op[r].got) \/ op' = [op EXCEPT ![r] = rec]
    BY <1>3 DEF Reloaded, Uncounted
  <2> HIDE DEF rec
  <2>3. EndSame
    BY <1>1, <2>1, <2>2, EndSameAt, EndSameOf
  <2> QED BY <2>2, <2>3, Quietly
<1> QED BY <1>2, <1>3

LEMMA CountRechecked ==
    ASSUME TypeInv, CountInv, NEW r \in Refreshers, Rechecked(r) PROVE CountInv'
<1>1. /\ r \in Ops /\ op[r].pc \notin EndPcs /\ "announcing" \in Pcs \ EndPcs
      /\ UNCHANGED <<logout, tracked, retired, settling>>
  BY DEF Ops, Rechecked, EndPcs, Pcs, RefreshPcs, LockedPcs
<1>2. CASE EndSession(r)
  BY <1>1, <1>2, CountEndSession
<1>3. CASE ~EndSession(r)
  <2>1. Uncounted /\ (op' = [op EXCEPT ![r] = NoOp] \/ Step(r, "announcing"))
    BY <1>3 DEF Rechecked, Uncounted, Throw
  <2>2. EndSame
    BY <1>1, <2>1, EndSameOf
  <2> QED BY <2>1, <2>2, Quietly
<1> QED BY <1>2, <1>3

\* It has ended.
LEMMA CountEndRevoked ==
    ASSUME TypeInv, CountInv, NEW r \in Refreshers, EndRevoked(r) PROVE CountInv'
<1>0. /\ r \in Ops /\ op \in [Ops -> OpType] /\ r \in Blocks /\ r \in Ending
      /\ queue' = queue /\ UNCHANGED <<logout, tracked, retired, settling>>
  BY DEF Ops, TypeInv, TypeOK, Blocks, EndRevoked, Ending, EndPcs
<1>1. Ending' = Ending \ {r}
  <2>1. op' = [op EXCEPT ![r] = NoOp] /\ NoOp.pc \notin EndPcs
    BY DEF EndRevoked, NoOp, EndPcs
  <2>2. \A q \in Refreshers : q \in Ops /\ op'[q] = IF q = r THEN NoOp ELSE op[q]
    BY <1>0, <2>1 DEF Ops
  <2> QED BY <2>1, <2>2 DEF Ending
<1>2. /\ IsFiniteSet(Ending') /\ Cardinality(Ending') = Cardinality(Ending) - 1
  BY <1>0, <1>1, FS_RemoveElement DEF CountInv
<1>3. Cardinality(Ending) # 0
  <2>1. Ending # {} /\ IsFiniteSet(Ending)
    BY <1>0 DEF CountInv
  <2> QED BY <2>1, FS_EmptySet
<1>4. gate.localBlocks # 0 /\ gate.pendingOps # 0
  BY <1>3, CountTypes DEF CountInv, GateAccounting
<1>5. /\ gate'.localBlocks = gate.localBlocks - 1 /\ gate'.pendingOps = gate.pendingOps - 1
  <2>1. PICK reg : gate' = LET g == EndPendingOp(SyncPending(gate, reg))
                           IN ReleaseLocal(IF op[r].clearFailed THEN RetainTerminalFailure(g) ELSE g, r)
    BY DEF EndRevoked
  <2> DEFINE s == SyncPending(gate, reg)
             g == EndPendingOp(s)
             h == IF op[r].clearFailed THEN RetainTerminalFailure(g) ELSE g
  <2>2. /\ s \in GateType(Blocks) /\ s.localBlocks = gate.localBlocks
        /\ s.pendingOps = gate.pendingOps
    BY CountTypes, SyncCounts
  <2> HIDE DEF s
  <2>3. /\ g \in GateType(Blocks) /\ g.localBlocks = gate.localBlocks
        /\ g.pendingOps = gate.pendingOps - 1
    BY <1>0, <1>4, <2>2, CountEffects
  <2> HIDE DEF g
  <2>4. h \in GateType(Blocks) /\ h.localBlocks = g.localBlocks /\ h.pendingOps = g.pendingOps
    <3>1. "terminalFailure" \in Blocks
      BY DEF Blocks
    <3> QED BY <2>3, <3>1, BlockCounts DEF RetainTerminalFailure
  <2> HIDE DEF h
  <2>5. gate' = ReleaseLocal(h, r)
    BY <2>1 DEF h, g, s
  <2> QED BY <1>0, <1>4, <2>3, <2>4, <2>5, CountEffects
<1>6. OnceInv' /\ Cardinality(PeerJobs') = Cardinality(PeerJobs)
  BY <1>0, OnceStays DEF CountInv, CalmQueue, NotesKept
<1> QED BY <1>0, <1>2, <1>5, <1>6, CountTypes DEF CountInv, GateAccounting

------------------------------------------------------------------------------
(* The messages of other tabs *)

\* A message that is not refused is not one that is in the queue, or settling.
LEMMA CountHonoured ==
    ASSUME TypeInv, CountInv, NEW k \in PeerKeys, NEW kind \in PeerKinds, NEW epoch \in Nat,
           k \notin retired, kind = "peerClear" => ~tracked[k].on,
           BlockForPeer(k), Enqueue(Job(kind, k, epoch)), op' = op,
           logout' = logout, settling' = settling, NotesKept, NotedNext(Job(kind, k, epoch))
    PROVE  CountInv'
<1> DEFINE job == Job(kind, k, epoch)
           n == Len(queue) + 1
<1>1. job \in JobType /\ job.kind = kind /\ job.who = k
  BY DEF Job, JobType, PeerKinds
<1>2. queue \in Seq(JobType) /\ queue' = Append(queue, job) /\ Ending' = Ending
  BY DEF TypeInv, TypeOK, Enqueue, Ending
<1>3. NotedNext(job)
  OBVIOUS
<1> HIDE DEF job
<1>4. /\ DOMAIN queue' = 1..n /\ DOMAIN queue = 1..Len(queue) /\ Len(queue) \in Nat
      /\ \A i \in DOMAIN queue : queue'[i] = queue[i] /\ queue[i] \in JobType
      /\ queue'[n] = job
  BY <1>1, <1>2, AppendProperties
<1>5. \A i \in DOMAIN queue' : i \in DOMAIN queue \/ i = n
  BY <1>4
<1>6. \A j : Noted(j) => ~Same(j, job) /\ ~Same(job, j)
  BY <1>1 DEF Noted, NotedBy, Same
<1>7. \A i \in DOMAIN queue : ~Same(queue[i], job) /\ ~Same(job, queue[i])
  BY <1>1, <1>6 DEF CountInv, OnceInv, Same
<1>8. \A s \in settling : s.job \in JobType /\ s.job.kind \in PeerKinds /\ ~Same(job, s.job)
  BY <1>6 DEF CountInv, OnceInv, TypeInv, TypeOK
<1>9. OnceInv'
  <2>1. \A i \in DOMAIN queue' : queue'[i].kind \in PeerKinds => NotedNext(queue'[i])
    BY <1>3, <1>4, <1>5, NotedStays DEF CountInv, OnceInv
  <2>2. \A s \in settling : s.job.kind \in PeerKinds /\ NotedNext(s.job)
    BY <1>8, NotedStays DEF CountInv, OnceInv
  <2>3. \A i, j \in DOMAIN queue' :
           queue'[i].kind \in PeerKinds /\ Same(queue'[i], queue'[j]) => i = j
    BY <1>4, <1>5, <1>7 DEF CountInv, OnceInv
  <2>4. \A i \in DOMAIN queue', s \in settling : ~Same(queue'[i], s.job)
    BY <1>4, <1>5, <1>8 DEF CountInv, OnceInv
  <2> QED BY <2>1, <2>2, <2>3, <2>4 DEF OnceInv, Noted, NotedNext
<1>10. Cardinality(PeerJobs') = Cardinality(PeerJobs) + 1
  <2>1. PeerJobs' = PeerJobsOf(Append(queue, job)) /\ PeerJobs = PeerJobsOf(queue)
    BY <1>2 DEF PeerJobs, PeerJobsOf, PeerKinds
  <2> QED BY <1>1, <1>2, <2>1, PeerJobsAppended
<1>11. gate'.localBlocks = gate.localBlocks /\ gate'.pendingOps = gate.pendingOps + 1
  <2> DEFINE g == Block(gate, k)
  <2>1. k \in Blocks /\ gate' = BeginPendingOp(g)
    BY DEF Blocks, BlockForPeer
  <2>2. /\ g \in GateType(Blocks) /\ g.localBlocks = gate.localBlocks
        /\ g.pendingOps = gate.pendingOps
    BY <2>1, CountTypes, CountEffects
  <2> HIDE DEF g
  <2> QED BY <2>1, <2>2, CountEffects
<1> QED BY <1>2, <1>9, <1>10, <1>11, CountTypes DEF CountInv, GateAccounting

LEMMA CountOnSessionCleared ==
    ASSUME TypeInv, CountInv, NEW k \in PeerKeys, OnSessionCleared(k) PROVE CountInv'
<1> DEFINE job == Job("peerClear", k, peerEpoch)
<1>1. /\ k \notin retired /\ ~tracked[k].on /\ BlockForPeer(k) /\ Enqueue(job)
      /\ op' = op /\ logout' = logout /\ settling' = settling /\ retired' = retired
      /\ "peerClear" \in PeerKinds /\ peerEpoch \in Nat
  BY DEF OnSessionCleared, PeerKinds, TypeInv, TypeOK
<1>2. /\ \A q \in PeerKeys : q # k => tracked'[q] = tracked[q]
      /\ tracked'[k].on
  BY DEF OnSessionCleared, TypeInv, TypeOK
<1>3. NotesKept
  BY <1>1, <1>2 DEF NotesKept
<1>4. NotedNext(job)
  BY <1>2 DEF NotedNext, NotedBy, Job
<1> QED BY <1>1, <1>3, <1>4, CountHonoured

LEMMA CountOnLogout ==
    ASSUME TypeInv, CountInv, NEW k \in PeerKeys, OnLogout(k) PROVE CountInv'
<1> DEFINE epoch == IF tracked[k].on THEN tracked[k].epoch ELSE peerEpoch
           job == Job("peerLogout", k, epoch)
<1>1. /\ k \notin retired /\ BlockForPeer(k) /\ Enqueue(job)
      /\ op' = op /\ logout' = logout /\ settling' = settling /\ retired' = retired \union {k}
      /\ "peerLogout" \in PeerKinds /\ epoch \in Nat
  BY DEF OnLogout, PeerKinds, TypeInv, TypeOK, TrackType
<1>2. \A q \in PeerKeys : q # k => tracked'[q] = tracked[q]
  BY DEF OnLogout, TypeInv, TypeOK
<1>3. NotesKept
  BY <1>1, <1>2 DEF NotesKept
<1>4. NotedNext(job)
  BY <1>1 DEF NotedNext, NotedBy, Job
<1> HIDE DEF epoch
<1> QED BY <1>1, <1>3, <1>4, CountHonoured

\* Its clear is over: it leaves the queue and is to be settled.
LEMMA CountPeerClear ==
    ASSUME TypeInv, CountInv, PeerClear PROVE CountInv'
<1> DEFINE job == Head(queue)
<1>1. PICK cleared \in BOOLEAN : settling' = settling \union {[job |-> job, cleared |-> cleared]}
  BY DEF PeerClear
<1> DEFINE s == [job |-> job, cleared |-> cleared]
<1>2. /\ queue \in Seq(JobType) /\ queue # <<>> /\ queue' = Tail(queue) /\ job.kind \in PeerKinds
      /\ UNCHANGED <<gate, op, logout, tracked, retired>>
  BY DEF PeerClear, TypeInv, TypeOK, Dequeue, NextJob, PeerKinds
<1>3. /\ Len(queue) \in Nat \ {0} /\ DOMAIN queue = 1..Len(queue) /\ 1 \in DOMAIN queue
      /\ DOMAIN queue' = 1..(Len(queue) - 1) /\ queue[1] = job
      /\ \A i \in DOMAIN queue' : queue'[i] = queue[i + 1] /\ i + 1 \in DOMAIN queue
                                  /\ i \in Nat /\ i + 1 # 1
  BY <1>2, HeadTailProperties
<1>4. s.job = job
  OBVIOUS
<1> HIDE DEF job
<1>5. s \notin settling
  <2>1. \A t \in settling : ~Same(queue[1], t.job)
    BY <1>3 DEF CountInv, OnceInv
  <2> QED BY <1>3, <1>4, <2>1 DEF Same
<1> HIDE DEF s
<1>6. /\ IsFiniteSet(settling') /\ Cardinality(settling') = Cardinality(settling) + 1
  BY <1>1, <1>5, FS_AddElement DEF CountInv, s
<1>7. Cardinality(PeerJobs) = Cardinality(PeerJobs') + 1
  <2>1. PeerJobs' = PeerJobsOf(Tail(queue)) /\ PeerJobs = PeerJobsOf(queue)
    BY <1>2 DEF PeerJobs, PeerJobsOf, PeerKinds
  <2> QED BY <1>2, <2>1, PeerJobsTail DEF job
<1>8. Cardinality(PeerJobs') \in Nat
  <2>1. queue' \in Seq(JobType)
    BY <1>2, HeadTailProperties
  <2>2. PeerJobs' = PeerJobsOf(queue')
    BY DEF PeerJobs, PeerJobsOf, PeerKinds
  <2> QED BY <2>1, <2>2, PeerJobsFinite
<1>9. OnceInv'
  <2>1. \A i \in DOMAIN queue' : queue'[i].kind \in PeerKinds => Noted(queue'[i])
    BY <1>3 DEF CountInv, OnceInv
  <2>2. \A t \in settling' : t.job.kind \in PeerKinds /\ Noted(t.job)
    <3>1. job.kind \in PeerKinds /\ Noted(job)
      BY <1>2, <1>3 DEF CountInv, OnceInv
    <3> QED BY <1>1, <1>4, <3>1 DEF CountInv, OnceInv, s
  <2>3. \A i, j \in DOMAIN queue' :
           queue'[i].kind \in PeerKinds /\ Same(queue'[i], queue'[j]) => i = j
    <3> SUFFICES ASSUME NEW i \in DOMAIN queue', NEW j \in DOMAIN queue',
                        queue'[i].kind \in PeerKinds, Same(queue'[i], queue'[j])
                 PROVE  i = j
      OBVIOUS
    <3>1. i + 1 = j + 1
      BY <1>3 DEF CountInv, OnceInv
    <3> QED BY <1>3, <3>1
  <2>4. \A i \in DOMAIN queue', t \in settling' : ~Same(queue'[i], t.job)
    <3> SUFFICES ASSUME NEW i \in DOMAIN queue', NEW t \in settling', Same(queue'[i], t.job)
                 PROVE  FALSE
      OBVIOUS
    <3>1. CASE t \in settling
      BY <1>3, <3>1 DEF CountInv, OnceInv
    <3>2. CASE t = s
      <4>1. Same(queue[1], queue[i + 1])
        BY <1>3, <1>4, <3>2 DEF Same
      <4>2. 1 = i + 1
        BY <1>2, <1>3, <4>1 DEF CountInv, OnceInv
      <4> QED BY <1>3, <4>2
    <3> QED BY <1>1, <3>1, <3>2 DEF s
  <2> QED BY <1>2, <2>1, <2>2, <2>3, <2>4 DEF OnceInv, Noted
<1>10. Ending' = Ending
  BY <1>2 DEF Ending
<1> QED BY <1>2, <1>6, <1>7, <1>8, <1>9, <1>10, CountTypes DEF CountInv, GateAccounting

\* A clear is settled.
LEMMA CountSettled ==
    ASSUME TypeInv, CountInv, NEW s \in settling, settling' = settling \ {s},
           op' = op, queue' = queue, logout' = logout, NotesKept,
           gate'.localBlocks = gate.localBlocks,
           gate.pendingOps # 0 => gate'.pendingOps = gate.pendingOps - 1
    PROVE  CountInv'
<1>1. /\ IsFiniteSet(settling') /\ Cardinality(settling') = Cardinality(settling) - 1
      /\ Cardinality(settling) # 0
  BY FS_RemoveElement, FS_EmptySet DEF CountInv
<1>2. gate.pendingOps # 0
  BY <1>1, CountTypes DEF CountInv, GateAccounting
<1>3. OnceInv'
  <2>1. \A t \in settling : t.job \in JobType
    BY DEF TypeInv, TypeOK
  <2>2. \A i \in DOMAIN queue : queue[i].kind \in PeerKinds => NotedNext(queue[i])
    BY JobTypes, NotedStays DEF CountInv, OnceInv
  <2>3. \A t \in settling : t.job.kind \in PeerKinds /\ NotedNext(t.job)
    BY <2>1, NotedStays DEF CountInv, OnceInv
  <2> QED BY <2>2, <2>3 DEF CountInv, OnceInv, Noted, NotedNext
<1>4. Ending' = Ending /\ PeerJobs' = PeerJobs
  BY DEF Ending, PeerJobs
<1> QED BY <1>1, <1>2, <1>3, <1>4, CountTypes DEF CountInv, GateAccounting

\* What settling does to the gate.
LEMMA SettledGate ==
    ASSUME TypeInv, CountInv, NEW k \in PeerKeys,
           LET g == EndPendingOp(gate) IN
           gate' \in {g, Retain(g, k), Release(g, {k}), PeerLogoutOver(g, k)}
    PROVE  /\ gate'.localBlocks = gate.localBlocks
           /\ gate.pendingOps # 0 => gate'.pendingOps = gate.pendingOps - 1
<1> DEFINE g == EndPendingOp(gate)
<1>1. /\ g \in GateType(Blocks) /\ g.localBlocks = gate.localBlocks /\ k \in Blocks
      /\ gate.pendingOps # 0 => g.pendingOps = gate.pendingOps - 1
  <2>1. k \in Blocks /\ gate \in GateType(Blocks)
    BY CountTypes DEF Blocks
  <2> QED BY <2>1, CountEffects
<1>2. gate' \in {g, Retain(g, k), Release(g, {k}), Release(Terminate(g), {k})}
  BY DEF PeerLogoutOver
<1> HIDE DEF g
<1>3. /\ Terminate(g) \in GateType(Blocks) /\ Terminate(g).localBlocks = g.localBlocks
      /\ Terminate(g).pendingOps = g.pendingOps
      /\ Retain(g, k).localBlocks = g.localBlocks /\ Retain(g, k).pendingOps = g.pendingOps
  BY <1>1, CountEffects
<1>4. /\ Release(g, {k}).localBlocks = g.localBlocks
      /\ Release(g, {k}).pendingOps = g.pendingOps
      /\ Release(Terminate(g), {k}).localBlocks = g.localBlocks
      /\ Release(Terminate(g), {k}).pendingOps = g.pendingOps
  BY <1>1, <1>3, ReleaseCounts
<1> QED BY <1>1, <1>2, <1>3, <1>4

LEMMA CountPeerClearSettled ==
    ASSUME TypeInv, CountInv, NEW k \in PeerKeys, PeerClearSettled(k) PROVE CountInv'
<1>1. PICK s \in settling :
         /\ settling' = settling \ {s}
         /\ tracked' = [tracked EXCEPT ![k].settled = tracked[k].on]
         /\ LET g == EndPendingOp(gate) IN gate' \in {g, Retain(g, k)}
         /\ UNCHANGED <<op, queue, logout, retired>>
  BY DEF PeerClearSettled, RetainPeerBlock
<1>2. \A q \in PeerKeys : tracked'[q].on = tracked[q].on
  BY <1>1 DEF TypeInv, TypeOK, TrackType
<1>3. NotesKept
  BY <1>1, <1>2 DEF NotesKept
<1>4. /\ gate'.localBlocks = gate.localBlocks
      /\ gate.pendingOps # 0 => gate'.pendingOps = gate.pendingOps - 1
  BY <1>1, SettledGate
<1> QED BY <1>1, <1>3, <1>4, CountSettled

LEMMA CountPeerLogoutSettled ==
    ASSUME TypeInv, CountInv, NEW k \in PeerKeys, PeerLogoutSettled(k) PROVE CountInv'
<1>1. PICK s \in settling :
         /\ settling' = settling \ {s}
         /\ LET g == EndPendingOp(gate)
            IN gate' \in {Retain(g, k), Release(g, {k}), PeerLogoutOver(g, k)}
         /\ UNCHANGED <<op, queue, logout, tracked, retired>>
  BY DEF PeerLogoutSettled, RetainPeerBlock
<1>2. NotesKept
  BY <1>1 DEF NotesKept
<1>3. /\ gate'.localBlocks = gate.localBlocks
      /\ gate.pendingOps # 0 => gate'.pendingOps = gate.pendingOps - 1
  BY <1>1, SettledGate
<1> QED BY <1>1, <1>2, <1>3, CountSettled

------------------------------------------------------------------------------
LEMMA CountInit == Init => CountInv
<1> SUFFICES ASSUME Init PROVE CountInv
  OBVIOUS
<1>1. \A o \in Ops : op[o].pc = "idle"
  BY DEF Init, NoOp
<1>2. Ending = {} /\ settling = {} /\ queue = <<>> /\ PeerJobs = {}
  BY <1>1 DEF Init, Ending, EndPcs, Ops, PeerJobs
<1>3. gate.localBlocks = 0 /\ gate.pendingOps = 0 /\ logout.pc = "idle"
  BY DEF Init, NewGate, NoLogout
<1> QED BY <1>2, <1>3, FS_EmptySet DEF CountInv, OnceInv, GateAccounting

LEMMA CountContinue ==
    ASSUME TypeInv, CountInv, NEW o \in Ops, Continue(o) PROVE CountInv'
<1>1. CASE o \in Refreshers /\ (\/ GotToken(o) \/ Loaded(o) \/ LockAcquired(o) \/ Reloaded(o)
                                \/ Rechecked(o) \/ EndRevoked(o))
  BY <1>1, CountGotToken, CountLoaded, CountLockAcquired, CountReloaded, CountRechecked,
     CountEndRevoked
<1>2. CASE \/ ReadStorage(o) \/ Answered(o) \/ Disowned(o)
           \/ Saved(o) \/ SaveFailed(o) \/ Announced(o) \/ Dropped(o)
  BY <1>2, CountReadStorage, CountAnswered, CountDisowned, CountLast
<1>3. CASE o \in Updates /\ TokenUpdated(o)
  BY <1>3, CountUpdates
<1> QED BY <1>1, <1>2, <1>3 DEF Continue

LEMMA CountNext == IInv /\ CountInv /\ [Next]_vars => CountInv'
<1> SUFFICES ASSUME IInv, CountInv, [Next]_vars PROVE CountInv'
  OBVIOUS
<1>0. TypeInv /\ QueueInv
  BY DEF IInv
<1>1. CASE Application
  <2>1. "reading" \in LoadPcs /\ "loading" \in LoadPcs
    BY DEF LoadPcs
  <2> QED BY <1>0, <1>1, <2>1, CountBeginLogin, CountLoginCancelled, CountLogoutCall, CountCall,
             CountCallbackCall DEF Application, GetTokenCall, RefreshCall
<1>2. CASE \E o \in Ops : Continue(o)
  BY <1>0, <1>2, CountContinue
<1>3. CASE StorageStep
  BY <1>0, <1>3, CountSaves, CountEnds, CountLogoutClear, CountPeerClear DEF StorageStep
<1>4. CASE LogoutStep
  BY <1>0, <1>4, CountLogoutRevoked, CountLogoutSettled, CountLogoutFinished DEF LogoutStep
<1>5. CASE \E k \in PeerKeys : PeerClearSettled(k) \/ PeerLogoutSettled(k)
  BY <1>0, <1>5, CountPeerClearSettled, CountPeerLogoutSettled
<1>6. CASE Environment
  <2>1. CASE \/ \E t \in Tokens : Expire(t)
             \/ PeerRotates
             \/ \E k \in PeerKeys : PeerBegins(k)
    BY <1>0, <2>1, CountAbroad
  <2>2. CASE \E k \in PeerKeys : OnSessionCleared(k) \/ OnLogout(k)
    BY <1>0, <2>2, CountOnSessionCleared, CountOnLogout
  <2>3. CASE (\E o \in Ops : Serve(o)) \/ (\E u \in Updates : OnTokenUpdated(u))
    BY <1>0, <2>3, CountServe, CountUpdates
  <2> QED BY <1>6, <2>1, <2>2, <2>3 DEF Environment
<1>7. CASE UNCHANGED vars
  BY <1>0, <1>7, CountAbroad
<1> QED BY <1>1, <1>2, <1>3, <1>4, <1>5, <1>6, <1>7 DEF Next

\* The two counters count exactly the transitions in flight, whatever fails, is cancelled
\* or is told by other tabs meanwhile (localBlocks and pendingOps of session.ts).
THEOREM CountersExact == Spec => []GateAccounting
<1>1. CountInv => GateAccounting
  BY DEF CountInv
<1> QED BY CountInit, CountNext, Inductive, <1>1, PTL DEF Spec

==============================================================================
