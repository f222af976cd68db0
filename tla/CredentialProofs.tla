--------------------------- MODULE CredentialProofs ---------------------------
(***************************************************************************)
(* That nothing of a session that is over is ever read by an open tab, or  *)
(* handed to a caller; that no credential is lost from sight; and that     *)
(* another tab's logout clears no newer session: for every value of the    *)
(* constants.                                                              *)
(*                                                                         *)
(* A session may end while its credential is being saved, while a clear is *)
(* under way or after one failed, and may end here because another tab has *)
(* ended it.  The invariant says, of each moment in between, what still    *)
(* keeps the tab shut.                                                     *)
(***************************************************************************)
EXTENDS LeaseProofs

USE DEF bindVars, queueVars, peerVars, serverVars

------------------------------------------------------------------------------
(* Sessions that are over *)

\* A credential of a session that nothing has ended.
UnendedIn(t, born, end) == t # None => born[t] >= end
Unended(t) == UnendedIn(t, bornIn, ended)
UnendedNext(t) == UnendedIn(t, bornIn', ended')

\* A save has started, and its storage has not answered.
Saving == running /\ NextJob("save")

\* Another tab's logout is over, and its clear failed.
PeerClearFailed ==
    \E k \in PeerKeys : /\ k \in gate.blockers /\ k \in recoveryBlocks /\ k \in retired
                        /\ \A j \in DueLogouts : j.who # k

EndFailed(r) == op[r].pc = "revoking" /\ op[r].clearFailed

\* What keeps the tab shut while its storage holds a credential of an ended session: a
\* clear that is still to come, or one that failed and whose block only a completed
\* logout releases.
ShutForStorage ==
    \/ "terminalFailure" \in gate.blockers
    \/ "logoutFailed" \in gate.blockers
    \/ \E r \in Refreshers : op[r].pc = "ending" \/ EndFailed(r)
    \/ PeerClearFailed

\* Generations.  A logout of another tab whose clear failed ends the session and leaves
\* the generation to the logout that will release its block.
AgeInv ==
    /\ ended <= gate.generation + 1
    /\ ended = gate.generation + 1 => PeerClearFailed
    /\ \A t \in Tokens : bornIn[t] <= gate.generation

SavePcs == {"saving", "undoing", "saved", "saveFailed", "announcing"}

\* What an operation of the generation may serve is of a session that is not over.
ServesUnended(o) ==
    Active(o) /\ op[o].lease = gate.generation => Unended(op[o].got) /\ Unended(op[o].held)

ServedInv ==
    /\ Unended(degraded)
    /\ ended <= gate.generation => \A o \in Ops : ServesUnended(o)
    /\ \A o \in Ops : op[o].pc \in SavePcs => op[o].got # None

\* What storage holds, and what a save under way is about to put there.
StoredInv ==
    /\ ~Unended(storage) => ShutForStorage
    /\ ~Unended(storage) /\ ended <= gate.generation => Quiet
    /\ running => queue # <<>>
    /\ Saving /\ ~Unended(op[Head(queue).who].got) => \E r \in Refreshers : op[r].pc = "ending"

\* A logout empties the mirror, then storage, and then nothing is saved until it is over.
LogoutInv ==
    /\ logout.pc \in {"clearing", "revoking", "settling"} => degraded = None
    /\ logout.pc \in {"revoking", "settling"} =>
          ~Saving /\ (logout.clearFailed \/ storage = None)
    /\ logout.pc = "settling" /\ logout.complete => ~logout.clearFailed

\* And so does the logout of another tab, as long as it is of this session.
PeerLogoutInv ==
    /\ \A j \in DueLogouts :
          /\ j.epoch <= peerEpoch
          /\ j.epoch = peerEpoch => j.who \in gate.blockers /\ degraded = None
    /\ \A s \in settling : s.job.kind = "peerLogout" /\ s.job.epoch = peerEpoch =>
          ~Saving /\ (s.cleared => storage = None)
    /\ \A s, t \in settling : Same(s.job, t.job) => s = t

SessionInv == AgeInv /\ ServedInv /\ StoredInv /\ LogoutInv /\ PeerLogoutInv

\* What is known before a step, and after it.
Ground == IInv /\ CountInv /\ SessionInv /\ IInv' /\ CountInv'

LEMMA GroundTypes ==
    ASSUME Ground
    PROVE  /\ TypeInv /\ TypeInv' /\ LeaseInv /\ LeaseInv'
           /\ gate.generation \in Nat /\ gate'.generation \in Nat
           /\ ended \in Nat /\ ended' \in Nat
           /\ \A t \in Tokens : bornIn[t] \in Nat /\ bornIn'[t] \in Nat
           /\ \A o \in Ops : /\ op[o] \in OpType /\ op'[o] \in OpType
                             /\ op[o].lease \in Nat /\ op'[o].lease \in Nat
                             /\ op[o].lease <= gate.generation
                             /\ op'[o].lease <= gate'.generation
                             /\ op[o].got \in MaybeToken /\ op[o].held \in MaybeToken
           /\ gate \in GateType(Blocks) /\ gate' \in GateType(Blocks)
           /\ queue \in Seq(JobType)
<1>1. TypeInv /\ TypeInv' /\ LeaseInv /\ LeaseInv'
  BY DEF Ground, IInv
<1>2. TypeOK /\ TypeOK'
  BY <1>1 DEF TypeInv
<1>3. /\ gate.generation \in Nat /\ gate'.generation \in Nat
      /\ gate \in GateType(Blocks) /\ gate' \in GateType(Blocks)
  BY <1>2 DEF TypeOK, GateType
<1>4. /\ ended \in Nat /\ ended' \in Nat /\ queue \in Seq(JobType)
      /\ \A t \in Tokens : bornIn[t] \in Nat /\ bornIn'[t] \in Nat
  BY <1>2 DEF TypeOK
<1>5. \A o \in Ops : /\ op[o] \in OpType /\ op'[o] \in OpType
  BY <1>2 DEF TypeOK
<1>6. \A o \in Ops : /\ op[o].lease \in Nat /\ op'[o].lease \in Nat
                     /\ op[o].got \in MaybeToken /\ op[o].held \in MaybeToken
  BY <1>5 DEF OpType
<1>7. \A o \in Ops : /\ op[o].lease <= gate.generation
                     /\ op'[o].lease <= gate'.generation
  BY <1>1 DEF LeaseInv
<1> QED BY <1>1, <1>3, <1>4, <1>5, <1>6, <1>7

\* The tab is shut as long as storage may hold what it must not serve.
LEMMA ShutBlocks == ASSUME IInv, ShutForStorage PROVE Blocked(gate)
<1>1. ASSUME NEW r \in Refreshers, op[r].pc \in EndPcs PROVE Blocked(gate)
  BY <1>1 DEF IInv, BlockInv, Ending, Blocked
<1>2. (PeerClearFailed \/ "terminalFailure" \in gate.blockers
         \/ "logoutFailed" \in gate.blockers) => Blocked(gate)
  BY DEF PeerClearFailed, Blocked
<1> QED BY <1>1, <1>2 DEF ShutForStorage, EndFailed, EndPcs

\* In an open tab nothing is over.
LEMMA OpenTab ==
    ASSUME Ground, ~Blocked(gate)
    PROVE  /\ ended <= gate.generation /\ Unended(storage) /\ Unended(degraded)
           /\ ~PeerClearFailed /\ ~ShutForStorage
           /\ \A r \in Refreshers : op[r].pc \notin EndPcs
           /\ logout.pc = "idle"
           /\ \A j \in DueLogouts : j.epoch # peerEpoch
<1>1. ~ShutForStorage /\ ~PeerClearFailed
  BY ShutBlocks DEF Ground, ShutForStorage
<1>2. Unended(storage) /\ Unended(degraded)
  BY <1>1 DEF Ground, SessionInv, StoredInv, ServedInv
<1>3. ended <= gate.generation
  BY <1>1, GroundTypes DEF Ground, SessionInv, AgeInv
<1>4. logout.pc = "idle" /\ \A j \in DueLogouts : j.epoch # peerEpoch
  BY DEF Ground, IInv, BlockInv, SessionInv, PeerLogoutInv, Blocked
<1>5. \A r \in Refreshers : op[r].pc \notin EndPcs
  BY DEF Ground, IInv, BlockInv, Blocked, Ending
<1> QED BY <1>1, <1>2, <1>3, <1>4, <1>5

------------------------------------------------------------------------------
(* The parts of the invariant, each under the steps that keep it *)

LEMMA FailedStays ==
    ASSUME \A k \in PeerKeys : k \in gate.blockers => k \in gate'.blockers,
           recoveryBlocks \subseteq recoveryBlocks', retired \subseteq retired',
           \A j \in DueLogouts' : j \in DueLogouts \/ j.who \notin retired
    PROVE  PeerClearFailed => PeerClearFailed'
<1> SUFFICES ASSUME NEW k \in PeerKeys, k \in gate.blockers, k \in recoveryBlocks, k \in retired,
                    \A j \in DueLogouts : j.who # k
             PROVE  PeerClearFailed'
  BY DEF PeerClearFailed
<1>1. k \in gate'.blockers /\ k \in recoveryBlocks' /\ k \in retired'
  OBVIOUS
<1>2. \A j \in DueLogouts' : j.who # k
  OBVIOUS
<1> QED BY <1>1, <1>2 DEF PeerClearFailed

\* Within a generation nothing ends, and what is minted is of it or of an older one.
LEMMA AgeStays ==
    ASSUME Ground, ended' = ended, gate'.generation = gate.generation,
           \A t \in Tokens : bornIn'[t] = bornIn[t] \/ bornIn'[t] <= gate.generation,
           PeerClearFailed => PeerClearFailed'
    PROVE  AgeInv'
<1>1. AgeInv
  BY DEF Ground, SessionInv
<1>2. \A t \in Tokens : bornIn'[t] <= gate'.generation
  BY <1>1 DEF AgeInv
<1> QED BY <1>1, <1>2 DEF AgeInv

\* A new generation, whether it ends sessions or not.
LEMMA AgeRenewed ==
    ASSUME Ground, ended' \in {ended, gate.generation + 1},
           gate'.generation = gate.generation + 1, bornIn' = bornIn
    PROVE  AgeInv'
<1>1. AgeInv
  BY DEF Ground, SessionInv
<1>2. \A t \in Tokens : bornIn'[t] <= gate'.generation
  BY <1>1, GroundTypes DEF AgeInv
<1>3. ended' <= gate'.generation
  BY <1>1, GroundTypes DEF AgeInv
<1>4. ended' # gate'.generation + 1 /\ ended' <= gate'.generation + 1
  BY <1>3, GroundTypes
<1> QED BY <1>2, <1>4 DEF AgeInv

\* The credentials that were minted keep what they were born in.
Remembers == \A t \in Tokens : t <= minted => bornIn'[t] = bornIn[t]

LEMMA KnownStay ==
    ASSUME Ground, Remembers, ended' = ended
    PROVE  /\ \A t \in Common \union {None} : Unended(t) <=> UnendedNext(t)
           /\ \A q \in Ops : \A t \in Of(q) : Unended(t) <=> UnendedNext(t)
<1>1. TypeInv /\ FreshInv /\ IInv
  BY DEF Ground, IInv
<1>2. /\ \A t \in Common \union {None} : t <= minted
      /\ \A q \in Ops : \A t \in Of(q) : t <= minted
  BY <1>1, TokensKnown
<1>3. /\ \A t \in Common : t \in Tokens \/ t = None
      /\ \A q \in Ops : \A t \in Of(q) : t \in Tokens \/ t = None
  <2>1. \A t \in Common : t \in Tokens \/ t = None
    BY <1>1 DEF Common, TypeInv, TypeOK, RegistryType, LogoutType, MaybeToken
  <2>2. \A q \in Ops : \A t \in Of(q) : t \in Tokens \/ t = None
    BY GroundTypes DEF Of, OpType, MaybeToken
  <2> QED BY <2>1, <2>2
<1>4. ASSUME NEW t, t \in Tokens \/ t = None, t <= minted PROVE Unended(t) <=> UnendedNext(t)
  BY <1>4 DEF Unended, UnendedNext, UnendedIn, Remembers
<1> QED BY <1>2, <1>3, <1>4 DEF Unended, UnendedNext, UnendedIn

\* What the operations of M become.
Serves(M) ==
    \A q \in M :
       /\ op'[q].pc \in SavePcs => op'[q].got # None
       /\ Active(q)' /\ op'[q].lease = gate.generation /\ ended <= gate.generation =>
             UnendedNext(op'[q].got) /\ UnendedNext(op'[q].held)

LEMMA ServedStays ==
    ASSUME Ground, Remembers, ended' = ended, gate'.generation = gate.generation,
           UnendedNext(degraded'),
           NEW M \in SUBSET Ops, \A q \in Ops \ M : op'[q] = op[q], Serves(M)
    PROVE  ServedInv'
<1>1. ServedInv
  BY DEF Ground, SessionInv
<1>2. Unended(degraded)'
  BY DEF Unended, UnendedNext
<1>3. ASSUME NEW q \in Ops, op'[q].pc \in SavePcs PROVE op'[q].got # None
  BY <1>1, <1>3 DEF Serves, ServedInv
<1>4. ASSUME NEW q \in Ops, Active(q)', op'[q].lease = gate'.generation, ended' <= gate'.generation
      PROVE  Unended(op[q].got)' /\ Unended(op[q].held)'
  <2>1. CASE q \in M
    BY <1>4, <2>1 DEF Serves, Unended, UnendedNext
  <2>2. CASE q \notin M
    <3>1. op'[q] = op[q] /\ Active(q) /\ ServesUnended(q)
      BY <1>1, <1>4, <2>2 DEF Active, ServedInv
    <3>2. Unended(op[q].got) /\ Unended(op[q].held)
      BY <1>4, <3>1 DEF ServesUnended
    <3>3. op[q].got \in Of(q) /\ op[q].held \in Of(q)
      BY DEF Of
    <3>4. UnendedNext(op[q].got) /\ UnendedNext(op[q].held)
      BY <3>2, <3>3, KnownStay
    <3> QED BY <3>1, <3>4 DEF Unended, UnendedNext
  <2> QED BY <2>1, <2>2
<1> QED BY <1>2, <1>3, <1>4 DEF ServedInv, ServesUnended

\* In a new generation every operation in progress is of an older one.
LEMMA ServedRenewed ==
    ASSUME Ground, bornIn' = bornIn, gate'.generation = gate.generation + 1,
           degraded' = None \/ (degraded' = degraded /\ ended' = ended),
           Continues, \A q \in Ops : op'[q].pc \in SavePcs => op'[q].got # None
    PROVE  ServedInv' /\ Quiet'
<1>1. \A q \in Ops : Active(q)' => op'[q].lease < gate'.generation
  BY GroundTypes DEF Continues
<1>2. Unended(degraded)'
  BY DEF Ground, SessionInv, ServedInv, Unended, UnendedIn
<1>3. \A q \in Ops : ServesUnended(q)'
  BY <1>1, GroundTypes DEF ServesUnended
<1> QED BY <1>1, <1>2, <1>3 DEF ServedInv, Quiet

\* A step that leaves the head of the queue where it is.
QueueGoesOn ==
    running' = running /\ (queue' = queue \/ \E job \in JobType : queue' = Append(queue, job))

LEMMA SavingStays ==
    ASSUME Ground, QueueGoesOn
    PROVE  /\ running' => queue' # <<>>
           /\ Saving' <=> Saving
           /\ Saving => Head(queue') = Head(queue)
<1>1. running => queue # <<>>
  BY DEF Ground, SessionInv, StoredInv
<1>2. CASE queue' = queue
  BY <1>1, <1>2 DEF QueueGoesOn, Saving, NextJob
<1>3. ASSUME NEW job \in JobType, queue' = Append(queue, job)
      PROVE  /\ queue' # <<>> /\ queue # <<>> => Head(queue') = Head(queue)
  BY <1>3, GroundTypes
<1> QED BY <1>1, <1>2, <1>3 DEF QueueGoesOn, Saving, NextJob

\* The operation of a save under way.
LEMMA SaverKnown ==
    ASSUME Ground, Saving
    PROVE  /\ Head(queue).who \in Ops
           /\ op[Head(queue).who].pc \in {"saving", "undoing"}
           /\ op[Head(queue).who].got \in Of(Head(queue).who)
<1>1. NextJob("save") /\ TypeInv /\ QueueInv
  BY DEF Saving, Ground, IInv
<1> QED BY <1>1, HeadOwned, JobTypes DEF JobOwned, Of

\* No clear comes to its end, and no block that stands for one is released.
ClearsStay ==
    /\ \A b \in {"terminalFailure", "logoutFailed"} :
          b \in gate.blockers => b \in gate'.blockers
    /\ \A r \in Refreshers : op[r].pc \in EndPcs =>
          op'[r].pc = op[r].pc /\ op'[r].clearFailed = op[r].clearFailed
    /\ PeerClearFailed => PeerClearFailed'

LEMMA ShutStays == ASSUME ClearsStay PROVE ShutForStorage => ShutForStorage'
<1>1. ASSUME NEW r \in Refreshers, op[r].pc = "ending" \/ EndFailed(r)
      PROVE  op'[r].pc = "ending" \/ EndFailed(r)'
  BY <1>1 DEF ClearsStay, EndPcs, EndFailed
<1> QED BY <1>1 DEF ClearsStay, ShutForStorage

LEMMA StoredStays ==
    ASSUME Ground, Remembers, ended' = ended, gate'.generation = gate.generation,
           \/ UnendedNext(storage')
           \/ ShutForStorage' /\ Quiet'
           \/ /\ storage' = storage \/ (Unended(storage) => UnendedNext(storage'))
              /\ ShutForStorage => ShutForStorage'
              /\ (Quiet => Quiet') \/ ~Blocked(gate),
           \/ ~Saving' /\ (running' => queue' # <<>>)
           \/ /\ QueueGoesOn
              /\ Saving => op'[Head(queue).who].got = op[Head(queue).who].got
              /\ \A r \in Refreshers : op[r].pc = "ending" => op'[r].pc = "ending"
    PROVE  StoredInv'
<1>1. StoredInv
  BY DEF Ground, SessionInv
<1>2. ASSUME ~Unended(storage)' PROVE ShutForStorage' /\ (ended' <= gate'.generation => Quiet')
  <2>1. ~UnendedNext(storage')
    BY <1>2 DEF Unended, UnendedNext
  <2>2. CASE ShutForStorage' /\ Quiet'
    BY <2>2
  <2>3. CASE /\ storage' = storage \/ (Unended(storage) => UnendedNext(storage'))
             /\ ShutForStorage => ShutForStorage'
             /\ (Quiet => Quiet') \/ ~Blocked(gate)
    <3>1. storage \in Common
      BY DEF Common
    <3>2. ~Unended(storage)
      BY <2>1, <2>3, <3>1, KnownStay
    <3>3. ShutForStorage /\ Blocked(gate)
      BY <1>1, <3>2, ShutBlocks DEF StoredInv, Ground
    <3> QED BY <1>1, <2>3, <3>2, <3>3 DEF StoredInv
  <2> QED BY <2>1, <2>2, <2>3
<1>3. ASSUME Saving', ~Unended(op[Head(queue).who].got)'
      PROVE  \E r \in Refreshers : op'[r].pc = "ending"
  <2>1. Saving /\ Head(queue') = Head(queue)
    BY <1>3, SavingStays
  <2> DEFINE o == Head(queue).who
  <2>2. ~UnendedNext(op[o].got)
    BY <1>3, <2>1 DEF Unended, UnendedNext
  <2>3. ~Unended(op[o].got)
    BY <2>1, <2>2, SaverKnown, KnownStay
  <2> QED BY <1>1, <1>3, <2>1, <2>3 DEF StoredInv
<1> QED BY <1>2, <1>3, SavingStays DEF StoredInv

LEMMA LogoutStays ==
    ASSUME Ground, logout' = logout, storage' \in {storage, None} \/ Saving \/ storage # None,
           degraded' \in {degraded, None} \/ ~Blocked(gate), Saving' => Saving \/ ~Blocked(gate)
    PROVE  LogoutInv'
<1>1. CASE logout.pc = "idle"
  BY <1>1 DEF LogoutInv
<1>2. CASE logout.pc # "idle"
  <2>1. Blocked(gate)
    BY <1>2 DEF Ground, IInv, BlockInv, Blocked
  <2> QED BY <2>1 DEF Ground, SessionInv, LogoutInv
<1> QED BY <1>1, <1>2

LEMMA PeerLogoutStays ==
    ASSUME Ground, storage' \in {storage, None} \/ Saving \/ storage # None,
           degraded' \in {degraded, None} \/ ~Blocked(gate), Saving' => Saving \/ ~Blocked(gate),
           settling' \subseteq settling, DueLogouts' \subseteq DueLogouts,
           peerEpoch' = peerEpoch,
           \A j \in DueLogouts' : j.who \in gate.blockers => j.who \in gate'.blockers
    PROVE  PeerLogoutInv'
<1>1. PeerLogoutInv
  BY DEF Ground, SessionInv
<1>2. ASSUME NEW j \in DueLogouts'
      PROVE  /\ j.epoch <= peerEpoch'
             /\ j.epoch = peerEpoch' => j.who \in gate'.blockers /\ degraded' = None
  <2>1. /\ j \in DueLogouts /\ j.epoch <= peerEpoch
        /\ j.epoch = peerEpoch => j.who \in gate.blockers /\ degraded = None
    BY <1>1, <1>2 DEF PeerLogoutInv
  <2> QED BY <1>2, <2>1 DEF Blocked
<1>3. ASSUME NEW s \in settling', s.job.kind = "peerLogout", s.job.epoch = peerEpoch'
      PROVE  ~Saving' /\ (s.cleared => storage' = None)
  <2>1. s \in settling /\ s.job \in DueLogouts
    BY <1>3 DEF DueLogouts
  <2>2. Blocked(gate)
    BY <1>1, <1>3, <2>1 DEF PeerLogoutInv, Blocked
  <2>3. ~Saving /\ (s.cleared => storage = None)
    BY <1>1, <1>3, <2>1 DEF PeerLogoutInv
  <2> QED BY <2>2, <2>3
<1>4. \A s, t \in settling' : Same(s.job, t.job) => s = t
  BY <1>1 DEF PeerLogoutInv
<1> QED BY <1>2, <1>3, <1>4 DEF PeerLogoutInv

\* In a new epoch no logout of another tab is of this session.
LEMMA PeerEpochMoves ==
    ASSUME Ground, peerEpoch' = peerEpoch + 1, settling' = settling, DueLogouts' = DueLogouts
    PROVE  PeerLogoutInv'
<1>1. PeerLogoutInv /\ peerEpoch \in Nat
  BY DEF Ground, SessionInv, IInv, TypeInv, TypeOK
<1>2. \A j \in DueLogouts : j.epoch \in Nat /\ j.epoch <= peerEpoch
  <2>1. \A j \in DueLogouts : j \in JobType
    BY DueTypes, GroundTypes
  <2> QED BY <1>1, <2>1 DEF PeerLogoutInv, JobType
<1>3. \A j \in DueLogouts' : j.epoch <= peerEpoch' /\ j.epoch # peerEpoch'
  BY <1>1, <1>2
<1>4. \A s \in settling' : s.job.kind = "peerLogout" => s.job \in DueLogouts'
  BY DEF DueLogouts
<1> QED BY <1>1, <1>3, <1>4 DEF PeerLogoutInv

\* A step of the operations of M within a generation, that neither waits for storage nor
\* ends a session.
LEMMA SessionStays ==
    ASSUME Ground, ended' = ended, gate'.generation = gate.generation,
           \A t \in Tokens : bornIn'[t] = bornIn[t] \/ (t = minted + 1 /\ bornIn'[t] <= gate.generation),
           storage' \in {storage, None},
           UnendedNext(degraded'), degraded' \in {degraded, None} \/ ~Blocked(gate),
           QueueGoesOn, DueLogouts' = DueLogouts,
           NEW M \in SUBSET Ops, \A q \in Ops \ M : op'[q] = op[q], Serves(M),
           \A q \in M : op[q].pc \notin EndPcs \union {"saving", "undoing"},
           (Quiet => Quiet') \/ ~Blocked(gate),
           gate.blockers \subseteq gate'.blockers \union {"pendingRevocation"},
           recoveryBlocks \subseteq recoveryBlocks', settling' \subseteq settling,
           UNCHANGED <<retired, peerEpoch, logout>>
    PROVE  SessionInv'
<1>1. \A k \in PeerKeys : k \in gate.blockers => k \in gate'.blockers
  BY BlockNames
<1>2. PeerClearFailed => PeerClearFailed'
  BY <1>1, FailedStays
<1>3. AgeInv'
  BY <1>2, AgeStays
<1>4. Remembers
  <2>1. minted \in Nat /\ Tokens \subseteq Nat
    BY DEF Ground, IInv, TypeInv, TypeOK, Tokens
  <2> QED BY <2>1 DEF Remembers
<1>5. ServedInv'
  BY <1>4, ServedStays
<1>6. ClearsStay
  <2>1. \A r \in Refreshers : op[r].pc \in EndPcs => r \in Ops \ M
    BY DEF Ops
  <2> QED BY <1>2, <2>1 DEF ClearsStay
<1>7. Saving => Head(queue).who \in Ops \ M
  BY SaverKnown
<1>8. StoredInv'
  <2>1. ShutForStorage => ShutForStorage'
    BY <1>6, ShutStays
  <2>2. \A r \in Refreshers : op[r].pc = "ending" => op'[r].pc = "ending"
    BY <1>6 DEF ClearsStay, EndPcs
  <2>3. storage' # storage => UnendedNext(storage')
    BY DEF UnendedNext, UnendedIn
  <2> QED BY <1>4, <1>7, <2>1, <2>2, <2>3, StoredStays
<1>9. LogoutInv' /\ PeerLogoutInv'
  <2>1. \A j \in DueLogouts' : j.who \in gate.blockers => j.who \in gate'.blockers
    BY <1>1, DueTypes, GroundTypes
  <2> QED BY <2>1, SavingStays, LogoutStays, PeerLogoutStays
<1> QED BY <1>3, <1>5, <1>8, <1>9 DEF SessionInv

------------------------------------------------------------------------------
(* The steps of one operation *)

\* The rest of the tab stands still, but for the mirror.
Tame ==
    /\ UNCHANGED <<gate, recoveryBlocks, storage, queue, running, logout, retired, peerEpoch,
                   settling, bornIn, ended>>
    /\ degraded' \in {degraded, None}

\* An operation ends, goes on with what it knows or reads, or begins in an open tab.
Becomes(o, rec) ==
    \/ rec.pc \in {"idle", "returned"}
    \/ /\ rec.pc \in SavePcs => rec.got # None
       /\ \/ /\ Active(o) /\ rec.lease = op[o].lease
             /\ rec.got \in {op[o].got, storage, degraded, None}
             /\ rec.held \in {op[o].held, op[o].got}
          \/ ~Blocked(gate) /\ rec.got \in {degraded, None} /\ rec.held = None

LEMMA OpStays ==
    ASSUME Ground, Tame, NEW o \in Ops, op[o].pc \notin EndPcs \union {"saving", "undoing"},
           NEW rec, op' = [op EXCEPT ![o] = rec], Becomes(o, rec)
    PROVE  SessionInv'
<1>1. op'[o] = rec /\ \A q \in Ops \ {o} : op'[q] = op[q]
  BY GroundTypes DEF TypeInv, TypeOK
<1>2. ServedInv /\ StoredInv
  BY DEF Ground, SessionInv
<1>3. /\ Unended(degraded) /\ Unended(None)
      /\ \A t : Unended(t) <=> UnendedNext(t)
  BY <1>2 DEF ServedInv, Unended, UnendedNext, UnendedIn, Tame
<1>4. UnendedNext(degraded')
  BY <1>3 DEF Tame
<1>5. Serves({o})
  <2>1. rec.pc \in SavePcs => rec.got # None
    BY DEF Becomes, SavePcs
  <2>2. ASSUME rec.pc \notin {"idle", "returned"}, rec.lease = gate.generation,
               ended <= gate.generation
        PROVE  Unended(rec.got) /\ Unended(rec.held)
    <3>1. CASE ~Blocked(gate) /\ rec.got \in {degraded, None} /\ rec.held = None
      BY <1>3, <3>1
    <3>2. CASE /\ Active(o) /\ rec.lease = op[o].lease
               /\ rec.got \in {op[o].got, storage, degraded, None}
               /\ rec.held \in {op[o].held, op[o].got}
      <4>1. Unended(op[o].got) /\ Unended(op[o].held)
        BY <1>2, <2>2, <3>2 DEF ServedInv, ServesUnended
      <4>2. Unended(storage)
        BY <1>2, <2>2, <3>2, GroundTypes DEF StoredInv, Quiet
      <4> QED BY <1>3, <3>2, <4>1, <4>2
    <3> QED BY <2>2, <3>1, <3>2 DEF Becomes
  <2> QED BY <1>1, <1>3, <2>1, <2>2 DEF Serves, Active
<1>6. (Quiet => Quiet') \/ ~Blocked(gate)
  BY <1>1 DEF Quiet, Becomes, Active, Tame
<1>7. DueLogouts' = DueLogouts /\ QueueGoesOn
  BY DueSame DEF Tame, QueueGoesOn
<1> QED BY <1>1, <1>4, <1>5, <1>6, <1>7, SessionStays DEF Tame

\* It ends, or moves on with what it has.
LEMMA StepStays ==
    ASSUME Ground, Tame, NEW o \in Ops, Active(o),
           op[o].pc \notin EndPcs \union {"saving", "undoing"},
           \/ \E pc \in Pcs : Step(o, pc) /\ (pc \in SavePcs => op[o].got # None)
           \/ op' = [op EXCEPT ![o] = NoOp]
           \/ \E t : Return(o, t)
    PROVE  SessionInv'
<1>1. op[o] \in OpType
  BY GroundTypes
<1>2. ASSUME NEW pc \in Pcs, Step(o, pc), pc \in SavePcs => op[o].got # None PROVE SessionInv'
  <2> DEFINE rec == [op[o] EXCEPT !.pc = pc]
  <2>1. /\ rec.pc = pc /\ rec.lease = op[o].lease /\ rec.got = op[o].got
        /\ rec.held = op[o].held
    BY <1>1 DEF OpType
  <2>2. op' = [op EXCEPT ![o] = rec]
    BY <1>2 DEF Step
  <2> HIDE DEF rec
  <2>3. Becomes(o, rec)
    BY <1>2, <2>1 DEF Becomes
  <2> QED BY <2>2, <2>3, OpStays
<1>3. CASE op' = [op EXCEPT ![o] = NoOp]
  <2>1. Becomes(o, NoOp)
    BY NoOpTyped DEF Becomes
  <2> QED BY <1>3, <2>1, OpStays
<1>4. ASSUME NEW t, Return(o, t) PROVE SessionInv'
  <2> DEFINE rec == [NoOp EXCEPT !.pc = "returned", !.lease = op[o].lease, !.got = t]
  <2>1. rec.pc = "returned" /\ op' = [op EXCEPT ![o] = rec]
    BY <1>4 DEF Return, NoOp
  <2> HIDE DEF rec
  <2>2. Becomes(o, rec)
    BY <2>1 DEF Becomes
  <2> QED BY <2>1, <2>2, OpStays
<1> QED BY <1>2, <1>3, <1>4

LEMMA SessionCall ==
    ASSUME Ground, NEW r \in Refreshers, NEW pc \in {"reading", "loading"}, Call(r, pc)
    PROVE  SessionInv'
<1> DEFINE fresh == [NoOp EXCEPT !.lease = gate.generation]
           rec == IF degraded # None THEN [fresh EXCEPT !.pc = AnswerOf[pc], !.got = degraded]
                  ELSE [fresh EXCEPT !.pc = pc]
<1>1. rec.pc \in {AnswerOf[pc], pc} /\ rec.got \in {degraded, None} /\ rec.held = None
  BY DEF NoOp
<1>2. /\ op' = [op EXCEPT ![r] = rec] /\ Tame /\ ~Blocked(gate) /\ r \in Ops
      /\ op[r].pc \notin EndPcs \union {"saving", "undoing"}
  BY DEF Call, Tame, EndPcs, Ops
<1>3. AnswerOf[pc] \notin SavePcs /\ pc \notin SavePcs
  BY DEF AnswerOf, SavePcs
<1> HIDE DEF rec
<1>4. Becomes(r, rec)
  BY <1>1, <1>2, <1>3 DEF Becomes
<1> QED BY <1>2, <1>4, OpStays

LEMMA SessionCallbackCall ==
    ASSUME Ground, NEW c \in Callbacks, CallbackCall(c) PROVE SessionInv'
<1> DEFINE rec == [NoOp EXCEPT !.pc = "posted", !.lease = gate.generation]
<1>1. /\ rec.pc = "posted" /\ rec.got = None /\ rec.held = None
      /\ Tame /\ ~Blocked(gate) /\ c \in Ops
      /\ op[c].pc \notin EndPcs \union {"saving", "undoing"}
  BY DEF NoOp, CallbackCall, Tame, EndPcs, Ops
<1>2. op' = op \/ op' = [op EXCEPT ![c] = rec]
  BY DEF CallbackCall
<1> HIDE DEF rec
<1>3. CASE op' = [op EXCEPT ![c] = rec]
  <2>1. Becomes(c, rec)
    BY <1>1 DEF Becomes, SavePcs
  <2> QED BY <1>1, <1>3, <2>1, OpStays
<1>4. CASE op' = op
  <2>1. op' = [op EXCEPT ![c] = op[c]]
    BY <1>4, GroundTypes DEF TypeInv, TypeOK
  <2>2. Becomes(c, op[c])
    BY DEF CallbackCall, Becomes
  <2> QED BY <1>1, <2>1, <2>2, OpStays
<1> QED BY <1>2, <1>3, <1>4

LEMMA SessionOnTokenUpdated ==
    ASSUME Ground, NEW u \in Updates, OnTokenUpdated(u) PROVE SessionInv'
<1> DEFINE rec == [NoOp EXCEPT !.pc = "updating", !.lease = gate.generation]
<1>1. /\ rec.pc = "updating" /\ rec.got = None /\ rec.held = None
      /\ Tame /\ ~Blocked(gate) /\ u \in Ops /\ op' = [op EXCEPT ![u] = rec]
      /\ op[u].pc \notin EndPcs \union {"saving", "undoing"}
  BY DEF NoOp, OnTokenUpdated, Tame, EndPcs, Ops
<1> HIDE DEF rec
<1>2. Becomes(u, rec)
  BY <1>1 DEF Becomes, SavePcs
<1> QED BY <1>1, <1>2, OpStays

LEMMA SessionReadStorage ==
    ASSUME Ground, NEW o \in Ops, ReadStorage(o) PROVE SessionInv'
<1>1. /\ op[o] \in OpType /\ op[o].pc \in LoadPcs /\ Tame /\ Active(o)
      /\ op[o].pc \notin EndPcs \union {"saving", "undoing"}
  BY GroundTypes DEF ReadStorage, Tame, LoadPcs, EndPcs, Active
<1>2. ASSUME NEW pc \in {AnswerOf[op[o].pc], "rechecked"}, NEW t \in {storage, None},
             op' = [op EXCEPT ![o].pc = pc, ![o].got = t]
      PROVE  SessionInv'
  <2> DEFINE rec == [op[o] EXCEPT !.pc = pc, !.got = t]
  <2>1. /\ rec.pc = pc /\ rec.got = t /\ rec.lease = op[o].lease /\ rec.held = op[o].held
    BY <1>1 DEF OpType
  <2>2. op' = [op EXCEPT ![o] = rec]
    BY <1>2
  <2>4. pc \notin SavePcs
    BY <1>1 DEF LoadPcs, AnswerOf, SavePcs
  <2> HIDE DEF rec
  <2>3. Becomes(o, rec)
    BY <1>1, <2>1, <2>4 DEF Becomes
  <2> QED BY <1>1, <2>2, <2>3, OpStays
<1>3. CASE op' = [op EXCEPT ![o] = NoOp]
  BY <1>1, <1>3, StepStays
<1>4. \/ op' = [op EXCEPT ![o].pc = AnswerOf[@], ![o].got = storage]
      \/ op' = [op EXCEPT ![o].pc = "rechecked", ![o].got = None]
      \/ op' = [op EXCEPT ![o] = NoOp]
  BY DEF ReadStorage, Throw
<1> QED BY <1>2, <1>3, <1>4

\* What a load begins with.
LEMMA BeginLoadIs ==
    ASSUME Ground, NEW o \in Ops, NEW pc \in {"loading", "reloading"}
    PROVE  /\ BeginLoad(o, pc).pc \in {AnswerOf[pc], pc}
           /\ BeginLoad(o, pc).got \in {degraded, None}
           /\ BeginLoad(o, pc).lease = op[o].lease /\ BeginLoad(o, pc).held = op[o].held
           /\ BeginLoad(o, pc).pc \notin SavePcs
           /\ BeginLoad(o, pc) \in OpType
<1>1. op[o] \in OpType
  BY GroundTypes
<1>2. /\ BeginLoad(o, pc).pc \in {AnswerOf[pc], pc}
      /\ BeginLoad(o, pc).got \in {degraded, None}
      /\ BeginLoad(o, pc).lease = op[o].lease /\ BeginLoad(o, pc).held = op[o].held
  BY <1>1 DEF BeginLoad, OpType
<1>3. AnswerOf[pc] \notin SavePcs /\ pc \notin SavePcs
  BY DEF AnswerOf, SavePcs
<1>4. BeginLoad(o, pc) \in OpType
  BY LoadKeeps, GroundTypes
<1> QED BY <1>2, <1>3, <1>4

LEMMA SessionGotToken ==
    ASSUME Ground, NEW r \in Refreshers, GotToken(r) PROVE SessionInv'
<1>1. /\ r \in Ops /\ op[r] \in OpType /\ Tame /\ Active(r)
      /\ op[r].pc \notin EndPcs \union {"saving", "undoing"}
  BY GroundTypes DEF GotToken, Tame, EndPcs, Active, Ops
<1> DEFINE load == BeginLoad(r, "loading")
           rec == [load EXCEPT !.held = op[r].got]
<1>2. CASE op' = [op EXCEPT ![r] = rec]
  <2>1. /\ load \in OpType /\ load.pc \notin SavePcs /\ load.got \in {degraded, None}
        /\ load.lease = op[r].lease
    BY <1>1, BeginLoadIs
  <2> HIDE DEF load
  <2>2. /\ rec.pc = load.pc /\ rec.got = load.got /\ rec.lease = load.lease
        /\ rec.held = op[r].got
    BY <2>1 DEF OpType
  <2> HIDE DEF rec
  <2>3. Becomes(r, rec)
    BY <1>1, <2>1, <2>2 DEF Becomes
  <2> QED BY <1>1, <1>2, <2>3, OpStays
<1>3. CASE (op' = [op EXCEPT ![r] = NoOp]) \/ Return(r, op[r].got)
  BY <1>1, <1>3, StepStays
<1> QED BY <1>2, <1>3 DEF GotToken

LEMMA SessionLoaded ==
    ASSUME Ground, NEW r \in Refreshers, Loaded(r) PROVE SessionInv'
<1>1. /\ r \in Ops /\ op[r] \in OpType /\ Tame /\ Active(r)
      /\ op[r].pc \notin EndPcs \union {"saving", "undoing"}
  BY GroundTypes DEF Loaded, Tame, EndPcs, Active, Ops
<1> DEFINE rec == [op[r] EXCEPT !.pc = "locking", !.known = op[r].got]
<1>2. CASE op' = [op EXCEPT ![r] = rec]
  <2>1. /\ rec.pc = "locking" /\ rec.got = op[r].got /\ rec.lease = op[r].lease
        /\ rec.held = op[r].held
    BY <1>1 DEF OpType
  <2> HIDE DEF rec
  <2>2. Becomes(r, rec)
    BY <1>1, <2>1 DEF Becomes, SavePcs
  <2> QED BY <1>1, <1>2, <2>2, OpStays
<1>3. CASE op' = [op EXCEPT ![r] = NoOp]
  BY <1>1, <1>3, StepStays
<1> QED BY <1>2, <1>3 DEF Loaded

LEMMA SessionLockAcquired ==
    ASSUME Ground, NEW r \in Refreshers, LockAcquired(r) PROVE SessionInv'
<1>1. /\ r \in Ops /\ Tame /\ Active(r)
      /\ op[r].pc \notin EndPcs \union {"saving", "undoing"}
  BY DEF LockAcquired, Tame, EndPcs, Active, Ops
<1> DEFINE load == BeginLoad(r, "reloading")
<1>2. CASE op' = [op EXCEPT ![r] = load]
  <2>1. /\ load.pc \notin SavePcs /\ load.got \in {degraded, None}
        /\ load.lease = op[r].lease /\ load.held = op[r].held
    BY <1>1, BeginLoadIs
  <2> HIDE DEF load
  <2>2. Becomes(r, load)
    BY <1>1, <2>1 DEF Becomes
  <2> QED BY <1>1, <1>2, <2>2, OpStays
<1>3. CASE op' = [op EXCEPT ![r] = NoOp]
  BY <1>1, <1>3, StepStays
<1> QED BY <1>2, <1>3 DEF LockAcquired

\* A reload that finds a session: the request, the token, or nothing.
LEMMA SessionReloaded ==
    ASSUME Ground, NEW r \in Refreshers, Reloaded(r), op[r].got # None PROVE SessionInv'
<1>1. /\ r \in Ops /\ op[r] \in OpType /\ Tame /\ Active(r)
      /\ op[r].pc \notin EndPcs \union {"saving", "undoing"}
  BY GroundTypes DEF Reloaded, Tame, EndPcs, Active, Ops
<1> DEFINE rec == [op[r] EXCEPT !.pc = "posted", !.known = op[r].got]
<1>2. CASE op' = [op EXCEPT ![r] = rec]
  <2>1. /\ rec.pc = "posted" /\ rec.got = op[r].got /\ rec.lease = op[r].lease
        /\ rec.held = op[r].held
    BY <1>1 DEF OpType
  <2> HIDE DEF rec
  <2>2. Becomes(r, rec)
    BY <1>1, <2>1 DEF Becomes, SavePcs
  <2> QED BY <1>1, <1>2, <2>2, OpStays
<1>3. CASE (op' = [op EXCEPT ![r] = NoOp]) \/ Return(r, op[r].got)
  BY <1>1, <1>3, StepStays
<1> QED BY <1>2, <1>3 DEF Reloaded

\* After the request, when nothing is left to save.
LEMMA SessionLast ==
    ASSUME Ground, NEW o \in Ops, Saved(o) \/ Announced(o) \/ Dropped(o) PROVE SessionInv'
<1>1. /\ Tame /\ Active(o)
      /\ op[o].pc \notin EndPcs \union {"saving", "undoing"}
      /\ op[o].pc \in SavePcs => op[o].got # None
  BY DEF Saved, Announced, Dropped, Tame, EndPcs, Active, Ground, SessionInv, ServedInv
<1>2. "announcing" \in Pcs
  BY DEF Pcs, RefreshPcs, LockedPcs
<1>3. \/ Step(o, "announcing") /\ op[o].pc = "saved"
      \/ op' = [op EXCEPT ![o] = NoOp]
      \/ Return(o, op[o].got) \/ Return(o, op[o].held)
  BY DEF Saved, Announced, Dropped, Adopted, Throw
<1>4. op[o].pc = "saved" => op[o].got # None
  BY <1>1 DEF SavePcs
<1> QED BY <1>1, <1>2, <1>3, <1>4, StepStays

LEMMA SessionTokenUpdated ==
    ASSUME Ground, NEW u \in Updates, TokenUpdated(u) PROVE SessionInv'
<1>1. /\ Tame /\ Active(u) /\ u \in Ops /\ op' = [op EXCEPT ![u] = NoOp]
      /\ op[u].pc \notin EndPcs \union {"saving", "undoing"}
  BY DEF TokenUpdated, Tame, EndPcs, Active, Ops
<1> QED BY <1>1, StepStays

\* The loser of a rotation, that ends no session.
LEMMA SessionRechecked ==
    ASSUME Ground, NEW r \in Refreshers, Rechecked(r), ~EndSession(r) PROVE SessionInv'
<1>1. /\ r \in Ops /\ Active(r) /\ Tame
      /\ op[r].pc \notin EndPcs \union {"saving", "undoing"}
  BY DEF Rechecked, Tame, EndPcs, Active, Ops
<1>2. "announcing" \in Pcs
  BY DEF Pcs, RefreshPcs, LockedPcs
<1>3. \/ op' = [op EXCEPT ![r] = NoOp]
      \/ Step(r, "announcing") /\ op[r].got # None
  BY DEF Rechecked, Throw
<1> QED BY <1>1, <1>2, <1>3, StepStays

\* An operation that waits for its answer or its revocation moves on, perhaps to its save.
LEMMA JobOrNot ==
    ASSUME Ground, NEW o \in Ops, settling' = settling,
           UNCHANGED queueVars \/ Enqueue(Job("save", o, 0))
    PROVE  QueueGoesOn /\ DueLogouts' = DueLogouts
<1>1. CASE UNCHANGED queueVars
  BY <1>1, DueSame DEF QueueGoesOn
<1>2. CASE Enqueue(Job("save", o, 0))
  <2> DEFINE job == Job("save", o, 0)
  <2>1. job \in JobType /\ job.kind = "save"
    BY DEF Job, JobType
  <2>2. queue' = Append(queue, job) /\ running' = running
    BY <1>2 DEF Enqueue
  <2> HIDE DEF job
  <2>3. DueLogouts' = DueLogouts \union {j \in {job} : j.kind = "peerLogout"}
    BY <2>2, DueAppended, GroundTypes
  <2> QED BY <2>1, <2>2, <2>3 DEF QueueGoesOn
<1> QED BY <1>1, <1>2

\* It keeps its lease and what it has, or it ends.
LEMMA KeepsServing ==
    ASSUME Ground, Remembers, ended' = ended, NEW o \in Ops, NEW rec,
           op' = [op EXCEPT ![o] = rec], Active(o),
           \/ rec.pc = "idle"
           \/ /\ rec.lease = op[o].lease /\ rec.got = op[o].got /\ rec.held = op[o].held
              /\ rec.pc \in SavePcs => rec.got # None
    PROVE  Serves({o}) /\ \A q \in Ops \ {o} : op'[q] = op[q]
<1>1. op'[o] = rec /\ \A q \in Ops \ {o} : op'[q] = op[q]
  BY GroundTypes DEF TypeInv, TypeOK
<1>2. op'[o].pc \in SavePcs => op'[o].got # None
  BY <1>1 DEF SavePcs
<1>3. ASSUME Active(o)', op'[o].lease = gate.generation, ended <= gate.generation
      PROVE  UnendedNext(op'[o].got) /\ UnendedNext(op'[o].held)
  <2>1. /\ rec.lease = op[o].lease /\ rec.got = op[o].got /\ rec.held = op[o].held
    BY <1>1, <1>3 DEF Active
  <2>2. Unended(op[o].got) /\ Unended(op[o].held)
    BY <1>1, <1>3, <2>1 DEF Ground, SessionInv, ServedInv, ServesUnended
  <2>3. op[o].got \in Of(o) /\ op[o].held \in Of(o)
    BY DEF Of
  <2>4. UnendedNext(op[o].got) /\ UnendedNext(op[o].held)
    BY <2>2, <2>3, KnownStay
  <2> QED BY <1>1, <2>1, <2>4
<1> QED BY <1>1, <1>2, <1>3 DEF Serves

\* The same, when it steps to a program counter.
LEMMA StepServes ==
    ASSUME Ground, Remembers, ended' = ended, NEW o \in Ops, Active(o),
           \/ \E pc \in Pcs : Step(o, pc) /\ (pc \in SavePcs => op[o].got # None)
           \/ op' = [op EXCEPT ![o] = NoOp]
    PROVE  Serves({o}) /\ \A q \in Ops \ {o} : op'[q] = op[q]
<1>1. CASE op' = [op EXCEPT ![o] = NoOp]
  BY <1>1, NoOpTyped, KeepsServing
<1>2. ASSUME NEW pc \in Pcs, Step(o, pc), pc \in SavePcs => op[o].got # None
      PROVE  Serves({o}) /\ \A q \in Ops \ {o} : op'[q] = op[q]
  <2> DEFINE rec == [op[o] EXCEPT !.pc = pc]
  <2>1. /\ rec.pc = pc /\ rec.lease = op[o].lease /\ rec.got = op[o].got
        /\ rec.held = op[o].held
    BY GroundTypes DEF OpType
  <2>2. op' = [op EXCEPT ![o] = rec]
    BY <1>2 DEF Step
  <2> HIDE DEF rec
  <2> QED BY <1>2, <2>1, <2>2, KeepsServing
<1> QED BY <1>1, <1>2

LEMMA StepQuiet ==
    ASSUME Ground, NEW o \in Ops, Active(o), gate'.generation = gate.generation,
           (\E pc \in Pcs : Step(o, pc)) \/ op' = [op EXCEPT ![o] = NoOp]
    PROVE  Quiet => Quiet'
<1>1. TypeInv
  BY GroundTypes
<1>2. CASE op' = [op EXCEPT ![o] = NoOp]
  BY <1>1, <1>2, NoOpTyped DEF Quiet, Active, TypeInv, TypeOK
<1>3. ASSUME NEW pc \in Pcs, Step(o, pc) PROVE Quiet => Quiet'
  <2>1. Moves(o, {op[o].pc}, {pc}, {})
    BY <1>1, <1>3, MovesStep
  <2> QED BY <2>1 DEF Moves, Quiet, Active
<1> QED BY <1>2, <1>3

LEMMA SessionAnswered ==
    ASSUME Ground, NEW o \in Ops, Answered(o) PROVE SessionInv'
<1>1. /\ Active(o) /\ op[o].pc = "answered" /\ bornIn' = bornIn /\ ended' = ended
      /\ UNCHANGED <<gate, storage, degraded, recoveryBlocks, retired, peerEpoch, settling,
                     logout>>
      /\ op[o].pc \notin EndPcs \union {"saving", "undoing"}
  BY DEF Answered, Active, EndPcs
<1>2. op[o].got # None
  BY <1>1, GroundTypes DEF TypeInv, HoldsToken, Tokens, None
<1>3. "saving" \in Pcs /\ "disowning" \in Pcs
  BY DEF Pcs, RefreshPcs, LockedPcs
<1>4. /\ Step(o, "saving") \/ Step(o, "disowning")
      /\ UNCHANGED queueVars \/ Enqueue(Job("save", o, 0))
  BY DEF Answered, BeginSave
<1>5. Remembers
  BY <1>1 DEF Remembers
<1>6. Serves({o}) /\ \A q \in Ops \ {o} : op'[q] = op[q]
  BY <1>1, <1>2, <1>3, <1>4, <1>5, StepServes
<1>7. Quiet => Quiet'
  BY <1>1, <1>3, <1>4, StepQuiet
<1>8. QueueGoesOn /\ DueLogouts' = DueLogouts
  BY <1>1, <1>4, JobOrNot
<1>9. UnendedNext(degraded')
  BY <1>1 DEF Ground, SessionInv, ServedInv, Unended, UnendedNext
<1> QED BY <1>1, <1>6, <1>7, <1>8, <1>9, SessionStays

LEMMA SessionDisowned ==
    ASSUME Ground, NEW o \in Ops, Disowned(o) PROVE SessionInv'
<1>1. /\ Active(o) /\ op[o].pc = "disowning" /\ ended' = ended
      /\ UNCHANGED <<storage, degraded, recoveryBlocks, retired, peerEpoch, settling, logout>>
      /\ op[o].pc \notin EndPcs \union {"saving", "undoing"}
  BY DEF Disowned, Active, EndPcs
<1>a. bornIn' = bornIn
  BY DEF Disowned, Revoke
<1>2. op[o].got # None
  BY <1>1, GroundTypes DEF TypeInv, HoldsToken, Tokens, None
<1>3. "saving" \in Pcs
  BY DEF Pcs, RefreshPcs, LockedPcs
<1>4. /\ Step(o, "saving") \/ op' = [op EXCEPT ![o] = NoOp]
      /\ UNCHANGED queueVars \/ Enqueue(Job("save", o, 0))
  BY DEF Disowned, BeginSave
<1>b. PICK reg : gate' = SyncPending(gate, reg)
  BY DEF Disowned
<1>c. /\ gate'.generation = gate.generation
      /\ gate.blockers \subseteq gate'.blockers \union {"pendingRevocation"}
  BY <1>b, SyncBounds, GroundTypes
<1>5. Remembers
  BY <1>a DEF Remembers
<1>6. Serves({o}) /\ \A q \in Ops \ {o} : op'[q] = op[q]
  BY <1>1, <1>2, <1>3, <1>4, <1>5, StepServes
<1>7. Quiet => Quiet'
  BY <1>1, <1>c, <1>3, <1>4, StepQuiet
<1>8. QueueGoesOn /\ DueLogouts' = DueLogouts
  BY <1>1, <1>4, JobOrNot
<1>9. UnendedNext(degraded')
  BY <1>1, <1>a DEF Ground, SessionInv, ServedInv, Unended, UnendedNext
<1> QED BY <1>1, <1>a, <1>c, <1>6, <1>7, <1>8, <1>9, SessionStays

\* The credential that storage refused is the mirror's, if it is of this session.
LEMMA SessionSaveFailed ==
    ASSUME Ground, NEW o \in Ops, SaveFailed(o) PROVE SessionInv'
<1>1. CASE Valid(o) /\ degraded' = op[o].got /\ Step(o, "announcing")
  <2>1. /\ Active(o) /\ op[o].pc = "saveFailed" /\ bornIn' = bornIn /\ ended' = ended
        /\ UNCHANGED <<gate, storage, queue, running, recoveryBlocks, retired, peerEpoch,
                       settling, logout>>
        /\ op[o].pc \notin EndPcs \union {"saving", "undoing"}
    BY DEF SaveFailed, Active, EndPcs
  <2>2. ~Blocked(gate) /\ op[o].lease = gate.generation
    BY <1>1 DEF Valid, StillValid
  <2>3. op[o].got # None /\ Unended(op[o].got)
    BY <2>1, <2>2, OpenTab DEF Ground, SessionInv, ServedInv, ServesUnended, SavePcs
  <2>4. UnendedNext(degraded')
    BY <1>1, <2>1, <2>3 DEF Unended, UnendedNext
  <2>5. "announcing" \in Pcs /\ Remembers
    BY <2>1 DEF Pcs, RefreshPcs, LockedPcs, Remembers
  <2>6. Serves({o}) /\ \A q \in Ops \ {o} : op'[q] = op[q]
    BY <1>1, <2>1, <2>3, <2>5, StepServes
  <2>7. QueueGoesOn /\ DueLogouts' = DueLogouts
    BY <2>1, DueSame DEF QueueGoesOn
  <2> QED BY <2>1, <2>2, <2>4, <2>6, <2>7, SessionStays
<1>2. CASE Throw(o) /\ UNCHANGED <<degraded, bindVars>>
  <2>1. /\ Tame /\ Active(o) /\ op' = [op EXCEPT ![o] = NoOp]
        /\ op[o].pc \notin EndPcs \union {"saving", "undoing"}
    BY <1>2 DEF SaveFailed, Tame, Active, EndPcs, Throw
  <2> QED BY <2>1, StepStays
<1> QED BY <1>1, <1>2 DEF SaveFailed, Adopted

\* The server mints for the generation that asked, or does not answer.
LEMMA SessionServe ==
    ASSUME Ground, NEW o \in Ops, Serve(o) PROVE SessionInv'
<1>1. /\ Active(o) /\ op[o].pc = "posted" /\ ended' = ended
      /\ UNCHANGED <<gate, storage, degraded, queue, running, recoveryBlocks, retired, peerEpoch,
                     settling, logout>>
      /\ op[o].pc \notin EndPcs \union {"saving", "undoing"}
  BY DEF Serve, Active, EndPcs
<1>2. {"dropped", "rejected"} \subseteq Pcs /\ "dropped" \notin SavePcs /\ "rejected" \notin SavePcs
  BY DEF Pcs, RefreshPcs, LockedPcs, SavePcs
<1>3. QueueGoesOn /\ DueLogouts' = DueLogouts
  BY <1>1, DueSame DEF QueueGoesOn
<1>4. ASSUME Step(o, "dropped") \/ Step(o, "rejected"), bornIn' = bornIn PROVE SessionInv'
  <2>1. Tame
    BY <1>1, <1>4 DEF Tame
  <2> QED BY <1>1, <1>2, <1>4, <2>1, StepStays
<1>5. ASSUME NEW parent, Answer(o, parent) PROVE SessionInv'
  <2>a. minted \in 0..MaxTokens /\ bornIn \in [Tokens -> Nat] /\ minted < MaxTokens
    BY <1>5, GroundTypes DEF Answer, Mint, TypeInv, TypeOK
  <2>1. minted \in Nat /\ minted + 1 \in Tokens /\ Tokens \subseteq Nat
    BY <2>a, ConstantsAssumption DEF Tokens
  <2>2. /\ \A t \in Tokens : t # minted + 1 => bornIn'[t] = bornIn[t]
        /\ bornIn'[minted + 1] = op[o].lease
    BY <1>5, <2>a, <2>1 DEF Answer, Mint
  <2>3. Remembers
    BY <2>1, <2>2 DEF Remembers
  <2>4. \A t \in Tokens :
           bornIn'[t] = bornIn[t] \/ (t = minted + 1 /\ bornIn'[t] <= gate.generation)
    BY <2>2, GroundTypes
  <2>5. UnendedNext(degraded')
    <3>1. degraded \in Common /\ Unended(degraded)
      BY DEF Common, Ground, SessionInv, ServedInv
    <3> QED BY <1>1, <2>3, <3>1, KnownStay
  <2>6. CASE Step(o, "dropped")
    <3>1. Serves({o}) /\ \A q \in Ops \ {o} : op'[q] = op[q]
      BY <1>1, <1>2, <2>3, <2>6, StepServes
    <3>2. Quiet => Quiet'
      BY <1>1, <1>2, <2>6, StepQuiet
    <3> QED BY <1>1, <1>3, <2>4, <2>5, <3>1, <3>2, SessionStays
  <2>7. CASE op' = [op EXCEPT ![o].pc = "answered", ![o].got = minted + 1]
    <3> DEFINE rec == [op[o] EXCEPT !.pc = "answered", !.got = minted + 1]
    <3>1. /\ rec.pc = "answered" /\ rec.got = minted + 1 /\ rec.lease = op[o].lease
          /\ rec.held = op[o].held
      BY GroundTypes DEF OpType
    <3>2. op' = [op EXCEPT ![o] = rec]
      BY <2>7
    <3> HIDE DEF rec
    <3>3. op'[o] = rec /\ \A q \in Ops \ {o} : op'[q] = op[q]
      BY <3>2, GroundTypes DEF TypeInv, TypeOK
    <3>4. ASSUME op'[o].lease = gate.generation, ended <= gate.generation
          PROVE  UnendedNext(op'[o].got) /\ UnendedNext(op'[o].held)
      <4>1. Unended(op[o].held) /\ op[o].held \in Of(o)
        BY <1>1, <3>1, <3>3, <3>4 DEF Ground, SessionInv, ServedInv, ServesUnended, Of
      <4>2. UnendedNext(op[o].held)
        BY <1>1, <2>3, <4>1, KnownStay
      <4>3. UnendedNext(minted + 1)
        BY <1>1, <2>2, <3>1, <3>3, <3>4 DEF UnendedNext, UnendedIn
      <4> QED BY <3>1, <3>3, <4>2, <4>3
    <3>5. Serves({o})
      BY <3>1, <3>3, <3>4 DEF Serves, SavePcs
    <3>6. Quiet => Quiet'
      BY <1>1, <3>1, <3>3 DEF Quiet, Active
    <3> QED BY <1>1, <1>3, <2>4, <2>5, <3>3, <3>5, <3>6, SessionStays
  <2> QED BY <1>5, <2>6, <2>7 DEF Answer
<1> QED BY <1>4, <1>5 DEF Serve

------------------------------------------------------------------------------
(* A refresh ends its session *)

LEMMA SessionEndSession ==
    ASSUME Ground, NEW r \in Refreshers, op[r].pc \in {"reloaded", "rechecked"}, EndSession(r),
           UNCHANGED <<recoveryBlocks, storage, logout, peerVars, bornIn>>
    PROVE  SessionInv'
<1>1. /\ r \in Ops /\ r \in Blocks /\ op[r] \in OpType /\ gate \in GateType(Blocks)
      /\ TypeInv
  BY GroundTypes DEF Ops, Blocks
<1>2. /\ gate'.generation = gate.generation + 1 /\ gate'.blockers = gate.blockers \union {r}
  <2> DEFINE b == BlockLocal(gate, r)
  <2>1. b \in GateType(Blocks) /\ Terminate(b) \in GateType(Blocks)
    BY <1>1, GateClosed
  <2>2. b.generation = gate.generation /\ b.blockers = gate.blockers \union {r}
    BY <1>1, GateEffects
  <2>3. gate' = BeginPendingOp(Terminate(b))
    BY DEF EndSession, EndWith
  <2> HIDE DEF b
  <2>4. Terminate(b).generation = b.generation + 1 /\ Terminate(b).blockers = b.blockers
    BY <1>1, <2>1, GateEffects
  <2> QED BY <1>1, <2>1, <2>2, <2>3, <2>4, GateEffects
<1> DEFINE rec == [op[r] EXCEPT !.pc = "ending", !.invalidate = {op[r].known}]
<1>3. /\ op' = [op EXCEPT ![r] = rec] /\ degraded' = None /\ ended' = gate.generation + 1
      /\ Enqueue(Job("end", r, 0))
  BY <1>1 DEF EndSession, EndWith, TypeInv, TypeOK
<1>4. rec.pc = "ending" /\ rec.lease = op[r].lease
  BY <1>1 DEF OpType
<1> HIDE DEF rec
<1>5. /\ op'[r].pc = "ending" /\ op'[r].lease = op[r].lease
      /\ \A q \in Ops \ {r} : op'[q] = op[q]
  BY <1>1, <1>3, <1>4 DEF TypeInv, TypeOK
<1>6. Continues
  BY <1>1, <1>5 DEF Continues, Active
<1>7. \A q \in Ops : op'[q].pc \in SavePcs => op'[q].got # None
  BY <1>5 DEF Ground, SessionInv, ServedInv, SavePcs
<1>8. AgeInv' /\ ServedInv' /\ Quiet'
  BY <1>2, <1>3, <1>6, <1>7, AgeRenewed, ServedRenewed
<1>9. QueueGoesOn /\ DueLogouts' = DueLogouts
  <2> DEFINE job == Job("end", r, 0)
  <2>1. job \in JobType /\ job.kind = "end"
    BY <1>1 DEF Job, JobType
  <2>2. queue' = Append(queue, job) /\ running' = running
    BY <1>3 DEF Enqueue
  <2> HIDE DEF job
  <2>3. DueLogouts' = DueLogouts \union {j \in {job} : j.kind = "peerLogout"}
    BY <1>1, <2>2, DueAppended
  <2> QED BY <2>1, <2>2, <2>3 DEF QueueGoesOn
<1>10. StoredInv'
  BY <1>5, <1>8, <1>9, SavingStays DEF StoredInv, ShutForStorage
<1>11. LogoutInv' /\ PeerLogoutInv'
  BY <1>2, <1>3, <1>9, SavingStays, LogoutStays, PeerLogoutStays
<1> QED BY <1>8, <1>10, <1>11 DEF SessionInv

\* Its transition is over: the block of a clear that failed takes the place of its own.
LEMMA SessionEndRevoked ==
    ASSUME Ground, NEW r \in Refreshers, EndRevoked(r) PROVE SessionInv'
<1>1. /\ r \in Ops /\ r \in Blocks /\ gate \in GateType(Blocks) /\ op[r].pc = "revoking"
      /\ TypeInv /\ op' = [op EXCEPT ![r] = NoOp]
      /\ UNCHANGED <<storage, degraded, queue, running, logout, retired, peerEpoch, settling,
                     ended>>
  BY GroundTypes DEF EndRevoked, Ops, Blocks
<1>2. bornIn' = bornIn /\ recoveryBlocks \subseteq recoveryBlocks'
  BY DEF EndRevoked, Revoke
<1>3. PICK reg : LET g == EndPendingOp(SyncPending(gate, reg)) IN
         gate' = ReleaseLocal(IF op[r].clearFailed THEN RetainTerminalFailure(g) ELSE g, r)
  BY DEF EndRevoked
<1> DEFINE s == SyncPending(gate, reg)
           g == EndPendingOp(s)
           h == IF op[r].clearFailed THEN RetainTerminalFailure(g) ELSE g
<1>4. gate' = ReleaseLocal(h, r)
  BY <1>3
<1>5. /\ s \in GateType(Blocks) /\ s.generation = gate.generation
      /\ gate.blockers \subseteq s.blockers \union {"pendingRevocation"}
  BY <1>1, SyncBounds
<1> HIDE DEF s
<1>6. g \in GateType(Blocks) /\ g.generation = s.generation /\ g.blockers = s.blockers
  BY <1>1, <1>5, GateClosed, GateEffects
<1> HIDE DEF g
<1>7. /\ h \in GateType(Blocks) /\ h.generation = g.generation /\ g.blockers \subseteq h.blockers
      /\ op[r].clearFailed => "terminalFailure" \in h.blockers
  <2>1. "terminalFailure" \in Blocks
    BY DEF Blocks
  <2> QED BY <1>6, <2>1, GateClosed, GateEffects DEF RetainTerminalFailure
<1> HIDE DEF h
<1>8. gate'.generation = gate.generation /\ gate'.blockers = h.blockers \ {r}
  BY <1>1, <1>4, <1>5, <1>6, <1>7, GateEffects
<1>9. /\ gate.blockers \subseteq gate'.blockers \union {"pendingRevocation", r}
      /\ op[r].clearFailed => "terminalFailure" \in gate'.blockers
  BY <1>5, <1>6, <1>7, <1>8, BlockNames
<1>10. \A k \in PeerKeys : k \in gate.blockers => k \in gate'.blockers
  BY <1>9, BlockNames
<1>11. op'[r] = NoOp /\ \A q \in Ops \ {r} : op'[q] = op[q]
  BY <1>1 DEF TypeInv, TypeOK
<1>12. Quiet /\ Quiet'
  <2>1. Quiet
    BY <1>1, GroundTypes DEF LeaseInv, Ending, EndPcs
  <2> QED BY <1>1, <1>8, <2>1, StepQuiet DEF Active
<1>13. Remembers /\ DueLogouts' = DueLogouts
  BY <1>1, <1>2, DueSame DEF Remembers
<1>14. PeerClearFailed => PeerClearFailed'
  BY <1>1, <1>2, <1>10, <1>13, FailedStays
<1>15. AgeInv'
  BY <1>1, <1>2, <1>8, <1>14, AgeStays
<1>16. ServedInv'
  <2>1. Serves({r}) /\ \A q \in Ops \ {r} : op'[q] = op[q]
    BY <1>1, <1>13, StepServes DEF Active
  <2>2. UnendedNext(degraded')
    BY <1>1, <1>2 DEF Ground, SessionInv, ServedInv, Unended, UnendedNext
  <2> QED BY <1>1, <1>8, <1>13, <2>1, <2>2, ServedStays
<1>17. StoredInv'
  <2>1. \A q \in Refreshers \ {r} : q \in Ops /\ op'[q] = op[q]
    BY <1>11 DEF Ops
  <2>2. ASSUME NEW q \in Refreshers, op[q].pc = "ending" \/ EndFailed(q)
        PROVE  ShutForStorage'
    <3>1. CASE q = r
      <4>1. "terminalFailure" \in gate'.blockers
        BY <1>1, <1>9, <2>2, <3>1 DEF EndFailed
      <4> QED BY <4>1 DEF ShutForStorage
    <3>2. CASE q # r
      <4>1. op'[q].pc = "ending" \/ EndFailed(q)'
        BY <2>1, <2>2, <3>2 DEF EndFailed
      <4> QED BY <4>1 DEF ShutForStorage
    <3> QED BY <3>1, <3>2
  <2>3. ASSUME NEW b \in {"terminalFailure", "logoutFailed"}, b \in gate.blockers
        PROVE  b \in gate'.blockers
    BY <1>9, <2>3, BlockNames
  <2>4. ShutForStorage => ShutForStorage'
    BY <1>14, <2>2, <2>3 DEF ShutForStorage
  <2>5. \A q \in Refreshers : op[q].pc = "ending" => op'[q].pc = "ending"
    BY <1>1, <2>1
  <2>6. Saving => op'[Head(queue).who].got = op[Head(queue).who].got
    BY <1>1, <1>11, SaverKnown
  <2>7. QueueGoesOn
    BY <1>1 DEF QueueGoesOn
  <2> QED BY <1>1, <1>8, <1>12, <1>13, <2>4, <2>5, <2>6, <2>7, StoredStays
<1>18. LogoutInv' /\ PeerLogoutInv'
  <2>1. Saving' => Saving
    BY <1>1 DEF Saving, NextJob
  <2>2. \A j \in DueLogouts' : j.who \in gate.blockers => j.who \in gate'.blockers
    BY <1>1, <1>10, <1>13, DueTypes
  <2> QED BY <1>1, <1>13, <2>1, <2>2, LogoutStays, PeerLogoutStays
<1> QED BY <1>15, <1>16, <1>17, <1>18 DEF SessionInv

------------------------------------------------------------------------------
(* The storage queue moves *)

\* Nothing is minted and nothing ends.
LEMMA SameAge ==
    ASSUME bornIn' = bornIn, ended' = ended
    PROVE  Remembers /\ \A t : Unended(t) <=> UnendedNext(t)
BY DEF Remembers, Unended, UnendedNext

\* What a job leaves alone.
JobLeaves == UNCHANGED <<gate, recoveryBlocks, degraded, retired, peerEpoch, bornIn, ended>>

LEMMA JobStays ==
    ASSUME Ground, JobLeaves, DueLogouts' = DueLogouts,
           NEW M \in SUBSET Ops, \A q \in Ops \ M : op'[q] = op[q], Serves(M)
    PROVE  AgeInv' /\ ServedInv' /\ (PeerClearFailed => PeerClearFailed')
<1>1. Remembers /\ UnendedNext(degraded')
  BY SameAge DEF JobLeaves, Ground, SessionInv, ServedInv
<1>2. PeerClearFailed => PeerClearFailed'
  BY FailedStays DEF JobLeaves
<1>3. AgeInv'
  BY <1>2, AgeStays DEF JobLeaves
<1>4. ServedInv'
  BY <1>1, ServedStays DEF JobLeaves
<1> QED BY <1>2, <1>3, <1>4

\* The operation whose save is at the head of the queue.
LEMMA SaverIs ==
    ASSUME Ground, NextJob("save"), NEW o, o = Head(queue).who
    PROVE  /\ o \in Ops /\ op[o].pc \in {"saving", "undoing"} /\ Active(o)
           /\ op[o].pc \notin EndPcs /\ op[o].got # None /\ op[o].got \in Of(o)
           /\ queue # <<>> /\ Head(queue).kind = "save"
<1>1. TypeInv /\ QueueInv
  BY DEF Ground, IInv
<1>2. /\ o \in Ops /\ op[o].pc \in {"saving", "undoing"} /\ queue # <<>>
      /\ Head(queue).kind = "save"
  BY <1>1, HeadOwned, JobTypes DEF JobOwned
<1>3. op[o].got # None
  BY <1>2 DEF Ground, SessionInv, ServedInv, SavePcs
<1> QED BY <1>2, <1>3 DEF Active, EndPcs, Of

\* The head leaves the queue, and is not another tab's.
LEMMA HeadLeaves ==
    ASSUME Ground, queue # <<>>, Head(queue).kind # "peerLogout", Dequeue, settling' = settling
    PROVE  ~Saving' /\ ~running' /\ DueLogouts' = DueLogouts
<1>1. queue' = Tail(queue) /\ running' = FALSE
  BY DEF Dequeue
<1>2. DueLogouts' = DueLogouts
  BY <1>1, DueShortened, GroundTypes
<1> QED BY <1>1, <1>2 DEF Saving

\* The operation that saves moves; what it has stays what it was.
LEMMA SaverMoves ==
    ASSUME Ground, JobLeaves, NextJob("save"),
           NEW to \in {"saved", "saveFailed", "undoing"}, Step(Head(queue).who, to),
           DueLogouts' = DueLogouts
    PROVE  /\ AgeInv' /\ ServedInv' /\ (Quiet => Quiet')
           /\ ShutForStorage => ShutForStorage'
           /\ \A r \in Refreshers : op[r].pc = "ending" => op'[r].pc = "ending"
           /\ op'[Head(queue).who].got = op[Head(queue).who].got
<1> DEFINE o == Head(queue).who
<1>1. /\ o \in Ops /\ Active(o) /\ op[o].pc \notin EndPcs /\ op[o].got # None
  BY SaverIs
<1>2. to \in Pcs
  BY DEF Pcs, RefreshPcs, LockedPcs
<1> HIDE DEF o
<1>3. Step(o, to)
  BY DEF o
<1>4. Remembers /\ ended' = ended
  BY SameAge DEF JobLeaves
<1>5. Serves({o}) /\ \A q \in Ops \ {o} : op'[q] = op[q]
  BY <1>1, <1>2, <1>3, <1>4, StepServes
<1>6. AgeInv' /\ ServedInv' /\ (PeerClearFailed => PeerClearFailed')
  BY <1>1, <1>5, JobStays
<1>7. Quiet => Quiet'
  BY <1>1, <1>2, <1>3, StepQuiet DEF JobLeaves
<1>8. \A r \in Refreshers : op[r].pc \in EndPcs => op'[r] = op[r]
  <2>1. \A r \in Refreshers : op[r].pc \in EndPcs => r \in Ops \ {o}
    BY <1>1 DEF Ops
  <2> QED BY <1>5, <2>1
<1>9. ShutForStorage => ShutForStorage'
  <2>1. ClearsStay
    BY <1>6, <1>8 DEF ClearsStay, JobLeaves
  <2> QED BY <2>1, ShutStays
<1>10. op'[o].got = op[o].got
  BY <1>1, <1>2, <1>3, MovesStep, GroundTypes
<1> QED BY <1>6, <1>7, <1>8, <1>9, <1>10 DEF EndPcs, o

\* A save that fails, is refused or is undone.
LEMMA SaveOver ==
    ASSUME Ground, JobLeaves, NextJob("save"), Dequeue, Step(Head(queue).who, "saveFailed"),
           storage' \in {storage, None}, logout' = logout, settling' = settling
    PROVE  SessionInv'
<1>1. /\ queue # <<>> /\ Head(queue).kind # "peerLogout"
  BY SaverIs
<1>2. ~Saving' /\ ~running' /\ DueLogouts' = DueLogouts
  BY <1>1, HeadLeaves
<1>3. AgeInv' /\ ServedInv' /\ (Quiet => Quiet') /\ (ShutForStorage => ShutForStorage')
  BY <1>2, SaverMoves
<1>4. StoredInv'
  <2>1. storage' # storage => UnendedNext(storage')
    BY DEF UnendedNext, UnendedIn
  <2>2. Remembers
    BY SameAge DEF JobLeaves
  <2> QED BY <1>2, <1>3, <2>1, <2>2, StoredStays DEF JobLeaves
<1>5. LogoutInv' /\ PeerLogoutInv'
  BY <1>2, LogoutStays, PeerLogoutStays DEF JobLeaves
<1> QED BY <1>3, <1>4, <1>5 DEF SessionInv

\* A save starts in an open tab only.
LEMMA SessionStartSave == ASSUME Ground, StartSave PROVE SessionInv'
<1> DEFINE o == Head(queue).who
<1>1. /\ NextJob("save") /\ JobLeaves /\ storage' = storage /\ logout' = logout
      /\ settling' = settling
  BY DEF StartSave, JobLeaves
<1>2. CASE Valid(o) /\ running' = TRUE /\ UNCHANGED <<queue, op>>
  <2>1. /\ o \in Ops /\ Active(o) /\ queue # <<>>
    BY <1>1, SaverIs
  <2>2. ~Blocked(gate) /\ op[o].lease = gate.generation
    BY <1>2 DEF Valid, StillValid
  <2>3. Unended(op[o].got)
    BY <2>1, <2>2, OpenTab DEF Ground, SessionInv, ServedInv, ServesUnended
  <2>4. DueLogouts' = DueLogouts
    BY <1>1, <1>2, DueSame
  <2>5. AgeInv' /\ ServedInv' /\ (PeerClearFailed => PeerClearFailed')
    <3>1. Serves({})
      BY DEF Serves
    <3> QED BY <1>1, <1>2, <2>4, <3>1, JobStays
  <2>6. StoredInv'
    <3>1. Unended(storage)
      BY <2>2, OpenTab
    <3>2. Unended(storage)' /\ Unended(op[Head(queue).who].got)'
      BY <1>1, <1>2, <2>3, <3>1, SameAge DEF JobLeaves, Unended, UnendedNext
    <3> QED BY <1>2, <2>1, <3>2 DEF StoredInv
  <2>7. LogoutInv' /\ PeerLogoutInv'
    BY <1>1, <2>2, <2>4, LogoutStays, PeerLogoutStays DEF JobLeaves
  <2> QED BY <2>5, <2>6, <2>7 DEF SessionInv
<1>3. CASE Dequeue /\ Step(o, "saveFailed")
  BY <1>1, <1>3, SaveOver
<1> QED BY <1>2, <1>3 DEF StartSave

\* A save that lands when its session is over lands in a tab that is shut, by the
\* refresh that will clear it after all.
LEMMA SessionFinishSave == ASSUME Ground, FinishSave PROVE SessionInv'
<1> DEFINE o == Head(queue).who
<1>1. /\ NextJob("save") /\ Saving /\ JobLeaves /\ logout' = logout /\ settling' = settling
      /\ op[o].pc = "saving" /\ storage' \in {storage, op[o].got}
  BY DEF FinishSave, JobLeaves, Saving
<1>2. /\ o \in Ops /\ Active(o) /\ queue # <<>> /\ Head(queue).kind # "peerLogout"
      /\ op[o].got # None
  BY <1>1, SaverIs
<1>3. Remembers /\ \A t : Unended(t) <=> UnendedNext(t)
  BY <1>1, SameAge DEF JobLeaves
<1>4. CASE Valid(o) /\ storage' = op[o].got /\ Dequeue /\ Step(o, "saved")
  <2>1. ~Blocked(gate) /\ op[o].lease = gate.generation
    BY <1>4 DEF Valid, StillValid
  <2>2. UnendedNext(storage')
    BY <1>2, <1>3, <1>4, <2>1, OpenTab DEF Ground, SessionInv, ServedInv, ServesUnended
  <2>3. ~Saving' /\ ~running' /\ DueLogouts' = DueLogouts
    BY <1>1, <1>2, <1>4, HeadLeaves
  <2>4. AgeInv' /\ ServedInv'
    BY <1>1, <1>4, <2>3, SaverMoves
  <2>5. StoredInv'
    BY <1>1, <1>3, <2>2, <2>3, StoredStays DEF JobLeaves
  <2>6. LogoutInv' /\ PeerLogoutInv'
    BY <1>1, <2>3, LogoutStays, PeerLogoutStays DEF JobLeaves
  <2> QED BY <2>4, <2>5, <2>6 DEF SessionInv
<1>5. CASE storage' = op[o].got /\ Step(o, "undoing") /\ UNCHANGED queueVars
  <2>1. DueLogouts' = DueLogouts /\ QueueGoesOn /\ Saving'
    BY <1>1, <1>5, DueSame DEF QueueGoesOn, Saving, NextJob
  <2>2. /\ AgeInv' /\ ServedInv' /\ (Quiet => Quiet')
        /\ \A r \in Refreshers : op[r].pc = "ending" => op'[r].pc = "ending"
        /\ op'[o].got = op[o].got
    BY <1>1, <1>5, <2>1, SaverMoves
  <2>3. UnendedNext(storage') \/ (ShutForStorage' /\ Quiet')
    <3>1. CASE Unended(op[o].got)
      BY <1>3, <1>5, <3>1
    <3>2. CASE ~Unended(op[o].got)
      <4>1. PICK r \in Refreshers : op[r].pc = "ending"
        BY <1>1, <3>2 DEF Ground, SessionInv, StoredInv
      <4>2. Quiet
        BY <4>1, GroundTypes DEF LeaseInv, Ending, EndPcs
      <4> QED BY <2>2, <4>1, <4>2 DEF ShutForStorage
    <3> QED BY <3>1, <3>2
  <2>4. StoredInv'
    BY <1>1, <1>3, <2>1, <2>2, <2>3, StoredStays DEF JobLeaves
  <2>5. LogoutInv' /\ PeerLogoutInv'
    BY <1>1, <2>1, LogoutStays, PeerLogoutStays DEF JobLeaves
  <2> QED BY <2>2, <2>4, <2>5 DEF SessionInv
<1>6. CASE storage' = storage /\ Dequeue /\ Step(o, "saveFailed")
  BY <1>1, <1>6, SaveOver
<1>7. \/ Valid(o) /\ storage' = op[o].got /\ Dequeue /\ Step(o, "saved")
      \/ storage' = op[o].got /\ Step(o, "undoing") /\ UNCHANGED queueVars
      \/ storage' = storage /\ Dequeue /\ Step(o, "saveFailed")
  BY DEF FinishSave, SaveLanded, SaveRejected
<1> QED BY <1>4, <1>5, <1>6, <1>7

LEMMA SessionUndoSave == ASSUME Ground, UndoSave PROVE SessionInv'
<1>1. /\ NextJob("save") /\ JobLeaves /\ Dequeue /\ Step(Head(queue).who, "saveFailed")
      /\ storage' \in {storage, None} /\ logout' = logout /\ settling' = settling
  BY DEF UndoSave, JobLeaves
<1> QED BY <1>1, SaveOver

\* No operation moves, and no block that stands for a clear that failed goes.
LEMMA NobodyActs ==
    ASSUME op' = op, gate'.generation = gate.generation, PeerClearFailed => PeerClearFailed',
           \A b \in {"terminalFailure", "logoutFailed"} :
              b \in gate.blockers => b \in gate'.blockers
    PROVE  /\ ShutForStorage => ShutForStorage'
           /\ Quiet => Quiet'
           /\ \A r \in Refreshers : op[r].pc = "ending" => op'[r].pc = "ending"
           /\ Serves({}) /\ \A q \in Ops \ {} : op'[q] = op[q]
<1>1. ClearsStay
  BY DEF ClearsStay
<1>2. Quiet => Quiet'
  BY DEF Quiet, Active
<1>3. Serves({})
  BY DEF Serves
<1> QED BY <1>1, <1>2, <1>3, ShutStays

\* A refresh that ends its session drains the registry, and has storage cleared.
LEMMA SessionEndJobs == ASSUME Ground, StartEnd \/ FinishEnd PROVE SessionInv'
<1> DEFINE o == Head(queue).who
<1>1. /\ NextJob("end") /\ JobLeaves /\ logout' = logout /\ settling' = settling
  BY DEF StartEnd, FinishEnd, JobLeaves
<1>2. TypeInv /\ QueueInv
  BY DEF Ground, IInv
<1>3. /\ o \in Refreshers /\ o \in Ops /\ op[o] \in OpType /\ op[o].pc = "ending"
      /\ queue # <<>> /\ Head(queue).kind = "end"
  <2>1. queue # <<>> /\ Head(queue).kind = "end" /\ JobOwned(Head(queue), op, logout.pc)
    BY <1>1, <1>2, HeadOwned
  <2>2. o \in Refreshers /\ op[o].pc = "ending"
    BY <2>1 DEF JobOwned
  <2> QED BY <2>1, <2>2, GroundTypes DEF Ops
<1>4. Remembers /\ Quiet
  <2>1. Quiet
    BY <1>3, GroundTypes DEF LeaseInv, Ending, EndPcs
  <2> QED BY <1>1, <2>1, SameAge DEF JobLeaves
<1> HIDE DEF o
<1>5. ASSUME NEW rec, op' = [op EXCEPT ![o] = rec], rec.pc \in {"ending", "revoking"},
             rec.lease = op[o].lease, rec.got = op[o].got, rec.held = op[o].held,
             DueLogouts' = DueLogouts
      PROVE  /\ AgeInv' /\ ServedInv' /\ Quiet' /\ (PeerClearFailed => PeerClearFailed')
             /\ op'[o] = rec /\ \A q \in Ops \ {o} : op'[q] = op[q]
  <2>1. rec.pc \notin SavePcs
    BY <1>5 DEF SavePcs
  <2>a. ended' = ended /\ Active(o)
    BY <1>1, <1>3 DEF Active, JobLeaves
  <2>2. Serves({o}) /\ \A q \in Ops \ {o} : op'[q] = op[q]
    BY <1>3, <1>4, <1>5, <2>1, <2>a, KeepsServing
  <2>3. op'[o] = rec
    BY <1>2, <1>3, <1>5 DEF TypeInv, TypeOK
  <2>4. AgeInv' /\ ServedInv' /\ (PeerClearFailed => PeerClearFailed')
    BY <1>1, <1>3, <1>5, <2>2, JobStays
  <2>5. Quiet'
    BY <1>1, <1>3, <1>4, <1>5, <2>2, <2>3 DEF Quiet, Active, JobLeaves
  <2> QED BY <2>2, <2>3, <2>4, <2>5
<1>6. CASE StartEnd
  <2> DEFINE rec == [op[o] EXCEPT !.invalidate = @ \union Drained(registry)]
  <2>1. /\ op' = [op EXCEPT ![o] = rec] /\ queue' = queue /\ storage' = storage
    BY <1>2, <1>3, <1>6 DEF StartEnd, o, TypeInv, TypeOK
  <2>2. /\ rec.pc = "ending" /\ rec.lease = op[o].lease /\ rec.got = op[o].got
        /\ rec.held = op[o].held /\ rec.clearFailed = op[o].clearFailed
    BY <1>3 DEF OpType
  <2> HIDE DEF rec
  <2>3. DueLogouts' = DueLogouts
    BY <1>1, <2>1, DueSame
  <2>4. /\ AgeInv' /\ ServedInv' /\ Quiet' /\ (PeerClearFailed => PeerClearFailed')
        /\ op'[o] = rec /\ \A q \in Ops \ {o} : op'[q] = op[q]
    BY <1>5, <2>1, <2>2, <2>3
  <2>5. ShutForStorage'
    BY <1>3, <2>2, <2>4 DEF ShutForStorage
  <2>6. ~Saving' /\ queue' # <<>>
    BY <1>3, <2>1 DEF Saving, NextJob
  <2>7. StoredInv'
    BY <1>1, <1>4, <2>4, <2>5, <2>6, StoredStays DEF JobLeaves
  <2>8. LogoutInv' /\ PeerLogoutInv'
    BY <1>1, <2>1, <2>3, <2>6, LogoutStays, PeerLogoutStays DEF JobLeaves
  <2> QED BY <2>4, <2>7, <2>8 DEF SessionInv
<1>7. CASE FinishEnd
  <2>1. PICK cleared \in BOOLEAN :
           /\ storage' = IF cleared THEN None ELSE storage
           /\ op' = [op EXCEPT ![o].pc = "revoking", ![o].clearFailed = ~cleared]
    BY <1>7 DEF FinishEnd, o
  <2> DEFINE rec == [op[o] EXCEPT !.pc = "revoking", !.clearFailed = ~cleared]
  <2>2. op' = [op EXCEPT ![o] = rec]
    BY <1>2, <1>3, <2>1 DEF TypeInv, TypeOK
  <2>3. /\ rec.pc = "revoking" /\ rec.lease = op[o].lease /\ rec.got = op[o].got
        /\ rec.held = op[o].held /\ rec.clearFailed = ~cleared
    BY <1>3 DEF OpType
  <2> HIDE DEF rec
  <2>4. ~Saving' /\ ~running' /\ DueLogouts' = DueLogouts
    BY <1>1, <1>3, <1>7, HeadLeaves DEF FinishEnd
  <2>5. /\ AgeInv' /\ ServedInv' /\ Quiet' /\ (PeerClearFailed => PeerClearFailed')
        /\ op'[o] = rec /\ \A q \in Ops \ {o} : op'[q] = op[q]
    BY <1>5, <2>2, <2>3, <2>4
  <2>6. UnendedNext(storage') \/ ShutForStorage'
    <3>1. CASE cleared
      BY <2>1, <3>1 DEF UnendedNext, UnendedIn
    <3>2. CASE ~cleared
      <4>1. op'[o].pc = "revoking" /\ op'[o].clearFailed
        BY <2>3, <2>5, <3>2
      <4> QED BY <1>3, <4>1 DEF ShutForStorage, EndFailed
    <3> QED BY <3>1, <3>2
  <2>7. StoredInv'
    BY <1>1, <1>4, <2>4, <2>5, <2>6, StoredStays DEF JobLeaves
  <2>8. LogoutInv' /\ PeerLogoutInv'
    BY <1>1, <2>1, <2>4, LogoutStays, PeerLogoutStays DEF JobLeaves
  <2> QED BY <2>5, <2>7, <2>8 DEF SessionInv
<1> QED BY <1>6, <1>7

\* A logout drains the registry, and has storage cleared, behind every save.
LEMMA SessionLogoutClear ==
    ASSUME Ground, StartLogoutClear \/ FinishLogoutClear PROVE SessionInv'
<1>1. /\ NextJob("logout") /\ JobLeaves /\ settling' = settling /\ op' = op
      /\ storage' \in {storage, None}
  BY DEF StartLogoutClear, FinishLogoutClear, JobLeaves
<1>2. /\ queue # <<>> /\ Head(queue).kind = "logout" /\ logout.pc = "clearing"
      /\ logout \in LogoutType
  <2>1. TypeInv /\ QueueInv /\ logout \in LogoutType
    BY DEF Ground, IInv, TypeInv, TypeOK
  <2>2. queue # <<>> /\ Head(queue).kind = "logout" /\ JobOwned(Head(queue), op, logout.pc)
    BY <1>1, <2>1, HeadOwned
  <2> QED BY <2>1, <2>2 DEF JobOwned
<1>3. degraded = None /\ degraded' = None
  BY <1>1, <1>2 DEF JobLeaves, Ground, SessionInv, LogoutInv
<1>4. /\ ~Saving' /\ (running' => queue' # <<>>) /\ DueLogouts' = DueLogouts
  <2>1. CASE StartLogoutClear
    BY <1>1, <1>2, <2>1, DueSame DEF StartLogoutClear, Saving, NextJob
  <2>2. CASE FinishLogoutClear
    BY <1>1, <1>2, <2>2, HeadLeaves DEF FinishLogoutClear
  <2> QED BY <2>1, <2>2
<1>5. LogoutInv'
  <2>1. CASE StartLogoutClear
    <3>1. logout'.pc = "clearing"
      BY <1>2, <2>1 DEF StartLogoutClear, LogoutType
    <3> QED BY <1>3, <3>1 DEF LogoutInv
  <2>2. CASE FinishLogoutClear
    <3>1. PICK cleared \in BOOLEAN :
             /\ storage' = IF cleared THEN None ELSE storage
             /\ logout' = [logout EXCEPT !.pc = "revoking", !.clearFailed = ~cleared]
      BY <2>2 DEF FinishLogoutClear
    <3>2. logout'.pc = "revoking" /\ (logout'.clearFailed \/ storage' = None)
      BY <1>2, <3>1 DEF LogoutType
    <3> QED BY <1>3, <1>4, <3>2 DEF LogoutInv
  <2> QED BY <2>1, <2>2
<1>6. PeerClearFailed => PeerClearFailed'
  BY <1>1, <1>4, FailedStays DEF JobLeaves
<1>7. /\ ShutForStorage => ShutForStorage'
      /\ Quiet => Quiet'
      /\ Serves({}) /\ \A q \in Ops \ {} : op'[q] = op[q]
  BY <1>1, <1>6, NobodyActs DEF JobLeaves
<1>8. AgeInv' /\ ServedInv'
  BY <1>1, <1>4, <1>7, JobStays
<1>9. StoredInv'
  <2>1. storage' # storage => UnendedNext(storage')
    BY <1>1 DEF UnendedNext, UnendedIn
  <2>2. Remembers
    BY <1>1, SameAge DEF JobLeaves
  <2> QED BY <1>1, <1>4, <1>7, <2>1, <2>2, StoredStays DEF JobLeaves
<1>10. PeerLogoutInv'
  BY <1>1, <1>4, PeerLogoutStays DEF JobLeaves
<1> QED BY <1>5, <1>8, <1>9, <1>10 DEF SessionInv

\* The clear that another tab asked for is over: storage is empty, or the outcome says
\* that it may not be.
LEMMA SessionPeerClear == ASSUME Ground, PeerClear PROVE SessionInv'
<1>1. /\ JobLeaves /\ op' = op /\ logout' = logout /\ storage' \in {storage, None}
      /\ NextJob("peerClear") \/ NextJob("peerLogout")
      /\ queue' = Tail(queue) /\ running' = FALSE
  BY DEF PeerClear, JobLeaves, Dequeue
<1>2. PICK cleared \in BOOLEAN :
         /\ storage' = IF cleared THEN None ELSE storage
         /\ settling' = settling \union {[job |-> Head(queue), cleared |-> cleared]}
  BY DEF PeerClear
<1>3. /\ queue # <<>> /\ Head(queue) = queue[1] /\ 1 \in DOMAIN queue
  <2>1. TypeInv /\ QueueInv
    BY DEF Ground, IInv
  <2> QED BY <1>1, <2>1, HeadOwned
<1>4. ~Saving' /\ ~running' /\ DueLogouts' = DueLogouts
  <2>1. \E c : settling' = settling \union {[job |-> Head(queue), cleared |-> c]}
    BY <1>2
  <2>2. DueLogouts' = DueLogouts
    BY <1>1, <1>3, <2>1, DueShortened, GroundTypes
  <2> QED BY <1>1, <2>2 DEF Saving
<1>5. PeerClearFailed => PeerClearFailed'
  BY <1>1, <1>4, FailedStays DEF JobLeaves
<1>6. /\ ShutForStorage => ShutForStorage'
      /\ Quiet => Quiet'
      /\ Serves({}) /\ \A q \in Ops \ {} : op'[q] = op[q]
  BY <1>1, <1>5, NobodyActs DEF JobLeaves
<1>7. AgeInv' /\ ServedInv'
  BY <1>1, <1>4, <1>6, JobStays
<1>8. StoredInv'
  <2>1. storage' # storage => UnendedNext(storage')
    BY <1>1 DEF UnendedNext, UnendedIn
  <2>2. Remembers
    BY <1>1, SameAge DEF JobLeaves
  <2> QED BY <1>1, <1>4, <1>6, <2>1, <2>2, StoredStays DEF JobLeaves
<1>9. LogoutInv'
  BY <1>1, <1>4, LogoutStays DEF JobLeaves
<1>10. PeerLogoutInv'
  <2> DEFINE e == [job |-> Head(queue), cleared |-> cleared]
  <2>1. e.job = queue[1] /\ e.cleared = cleared /\ settling' = settling \union {e}
    BY <1>2, <1>3
  <2> HIDE DEF e
  <2>2. \A s \in settling : ~Same(e.job, s.job) /\ ~Same(s.job, e.job)
    <3>1. \A s \in settling : ~Same(queue[1], s.job)
      BY <1>3 DEF Ground, CountInv, OnceInv
    <3> QED BY <2>1, <3>1 DEF Same
  <2>3. PeerLogoutInv
    BY DEF Ground, SessionInv
  <2>4. \A j \in DueLogouts' :
           /\ j.epoch <= peerEpoch'
           /\ j.epoch = peerEpoch' => j.who \in gate'.blockers /\ degraded' = None
    BY <1>1, <1>4, <2>3 DEF JobLeaves, PeerLogoutInv
  <2>5. \A s \in settling' : s.job.kind = "peerLogout" /\ s.job.epoch = peerEpoch' =>
           ~Saving' /\ (s.cleared => storage' = None)
    BY <1>1, <1>2, <1>4, <2>1, <2>3 DEF JobLeaves, PeerLogoutInv
  <2>6. \A s, t \in settling' : Same(s.job, t.job) => s = t
    BY <2>1, <2>2, <2>3 DEF PeerLogoutInv
  <2> QED BY <2>4, <2>5, <2>6 DEF PeerLogoutInv
<1> QED BY <1>7, <1>8, <1>9, <1>10 DEF SessionInv

------------------------------------------------------------------------------
(* logout(), and login *)

\* A logout that begins empties the mirror before it queues its clear.
LEMMA LogoutOpens ==
    ASSUME Ground, NEW g, StartLogout(g), op' = op, settling' = settling
    PROVE  /\ QueueGoesOn /\ DueLogouts' = DueLogouts /\ LogoutInv'
           /\ degraded' \in {degraded, None}
<1>1. DueLogouts' = DueLogouts /\ degraded' \in {degraded, None}
  BY LogoutQueued DEF Ground
<1>2. CASE logout' = [NoLogout EXCEPT !.pc = "rejecting"] /\ UNCHANGED <<degraded, queueVars>>
  <2>1. logout'.pc = "rejecting" /\ QueueGoesOn
    BY <1>2 DEF NoLogout, QueueGoesOn
  <2> QED BY <1>1, <2>1 DEF LogoutInv
<1>3. CASE /\ logout' = [NoLogout EXCEPT !.pc = "clearing", !.invalidate = {degraded} \ {None}]
           /\ degraded' = None /\ Enqueue(Job("logout", "logout", 0))
  <2>1. logout'.pc = "clearing"
    BY <1>3 DEF NoLogout
  <2>2. Job("logout", "logout", 0) \in JobType
    BY DEF Job, JobType
  <2>3. QueueGoesOn
    BY <1>3, <2>2 DEF Enqueue, QueueGoesOn
  <2> QED BY <1>1, <1>3, <2>1, <2>3 DEF LogoutInv
<1> QED BY <1>2, <1>3 DEF StartLogout

LEMMA SessionLogoutCall == ASSUME Ground, LogoutCall PROVE SessionInv'
<1>1. /\ StartLogout(gate) /\ op' = op /\ settling' = settling /\ gate' = BlockLocal(gate, "logout")
      /\ UNCHANGED <<recoveryBlocks, storage, retired, peerEpoch, bornIn, ended>>
  BY DEF LogoutCall, StartLogout
<1>2. gate'.generation = gate.generation /\ gate'.blockers = gate.blockers \union {"logout"}
  <2>1. gate \in GateType(Blocks) /\ "logout" \in Blocks
    BY GroundTypes DEF Blocks
  <2> QED BY <1>1, <2>1, GateEffects
<1>3. /\ QueueGoesOn /\ DueLogouts' = DueLogouts /\ LogoutInv' /\ degraded' \in {degraded, None}
  BY <1>1, LogoutOpens
<1>4. PeerClearFailed => PeerClearFailed'
  BY <1>1, <1>2, <1>3, FailedStays
<1>5. /\ ShutForStorage => ShutForStorage'
      /\ Quiet => Quiet'
      /\ \A r \in Refreshers : op[r].pc = "ending" => op'[r].pc = "ending"
      /\ Serves({}) /\ \A q \in Ops \ {} : op'[q] = op[q]
  BY <1>1, <1>2, <1>4, NobodyActs
<1>6. Remembers /\ \A t : Unended(t) <=> UnendedNext(t)
  BY <1>1, SameAge
<1>7. AgeInv'
  BY <1>1, <1>2, <1>4, AgeStays
<1>8. ServedInv'
  <2>1. UnendedNext(degraded')
    BY <1>3, <1>6 DEF Ground, SessionInv, ServedInv, UnendedNext, UnendedIn
  <2> QED BY <1>1, <1>2, <1>5, <1>6, <2>1, ServedStays
<1>9. StoredInv'
  BY <1>1, <1>2, <1>3, <1>5, <1>6, StoredStays
<1>10. PeerLogoutInv'
  <2>1. \A j \in DueLogouts' : j.who \in gate.blockers => j.who \in gate'.blockers
    BY <1>2
  <2> QED BY <1>1, <1>3, <2>1, SavingStays, PeerLogoutStays
<1> QED BY <1>3, <1>7, <1>8, <1>9, <1>10 DEF SessionInv

\* A login finds the tab open, and leaves what it holds to the new generation.
LEMMA LoginStays ==
    ASSUME Ground, ~Blocked(gate), gate'.generation = gate.generation + 1, op' = op,
           RetirePeerOperations, UNCHANGED <<storage, bornIn, ended>>,
           degraded' \in {degraded, None}, QueueGoesOn, DueLogouts' = DueLogouts, LogoutInv'
    PROVE  SessionInv'
<1>1. peerEpoch' = peerEpoch + 1 /\ settling' = settling
  BY DEF RetirePeerOperations
<1>2. AgeInv'
  BY AgeRenewed
<1>3. ServedInv'
  <2>1. Continues
    BY DEF Continues, Active
  <2>2. \A q \in Ops : op'[q].pc \in SavePcs => op'[q].got # None
    BY DEF Ground, SessionInv, ServedInv
  <2> QED BY <2>1, <2>2, ServedRenewed
<1>4. StoredInv'
  <2>2. Unended(storage)'
    BY OpenTab DEF Unended
  <2>3. ASSUME Saving' PROVE Unended(op[Head(queue).who].got)'
    <3>1. Saving /\ Head(queue') = Head(queue)
      BY <2>3, SavingStays
    <3>2. \A r \in Refreshers : op[r].pc # "ending"
      BY OpenTab DEF EndPcs
    <3>3. Unended(op[Head(queue).who].got)
      BY <3>1, <3>2 DEF Ground, SessionInv, StoredInv
    <3> QED BY <3>1, <3>3 DEF Unended
  <2> QED BY <2>2, <2>3, SavingStays DEF StoredInv
<1>5. PeerLogoutInv'
  BY <1>1, PeerEpochMoves
<1> QED BY <1>2, <1>3, <1>4, <1>5 DEF SessionInv

LEMMA SessionBeginLogin == ASSUME Ground, BeginLogin PROVE SessionInv'
<1>1. /\ ~Blocked(gate) /\ RetirePeerOperations /\ op' = op /\ gate' = Reset(gate)
      /\ UNCHANGED <<storage, bornIn, ended, logout>> /\ degraded' = degraded
      /\ queue' = queue /\ running' = running /\ settling' = settling
  BY DEF BeginLogin, LoginAllowed, RetirePeerOperations
<1>2. gate'.generation = gate.generation + 1
  <2>1. gate \in GateType(Blocks) /\ "logout" \in Blocks
    BY GroundTypes DEF Blocks
  <2> QED BY <1>1, <2>1, GateEffects
<1>3. DueLogouts' = DueLogouts /\ QueueGoesOn
  BY <1>1, DueSame DEF QueueGoesOn
<1>4. LogoutInv'
  BY <1>1, OpenTab DEF LogoutInv
<1> QED BY <1>1, <1>2, <1>3, <1>4, LoginStays

LEMMA SessionLoginCancelled == ASSUME Ground, LoginCancelled PROVE SessionInv'
<1> DEFINE g == Reset(gate)
<1>1. /\ ~Blocked(gate) /\ RetirePeerOperations /\ op' = op
      /\ StartLogout(g) /\ gate' = BlockLocal(g, "logout")
      /\ UNCHANGED <<storage, bornIn, ended>> /\ settling' = settling
  BY DEF LoginCancelled, LoginAllowed, StartLogout, RetirePeerOperations
<1>2. gate \in GateType(Blocks) /\ "logout" \in Blocks
  BY GroundTypes DEF Blocks
<1>3. g \in GateType(Blocks) /\ g.generation = gate.generation + 1
  BY <1>2, GateClosed, GateEffects
<1> HIDE DEF g
<1>4. gate'.generation = gate.generation + 1
  BY <1>1, <1>2, <1>3, GateEffects
<1>5. QueueGoesOn /\ DueLogouts' = DueLogouts /\ LogoutInv' /\ degraded' \in {degraded, None}
  BY <1>1, LogoutOpens
<1> QED BY <1>1, <1>4, <1>5, LoginStays

\* A round of revocations: storage and the blocks of the other transitions stay.
LEMMA SessionLogoutRevoked == ASSUME Ground, LogoutRevoked PROVE SessionInv'
<1>1. /\ op' = op /\ logout.pc = "revoking" /\ logout \in LogoutType /\ gate \in GateType(Blocks)
      /\ UNCHANGED <<recoveryBlocks, storage, degraded, queue, running, settling, retired,
                     peerEpoch, ended>>
  BY GroundTypes DEF LogoutRevoked, TypeInv, TypeOK
<1>2. PICK F \in SUBSET logout.invalidate :
         /\ Revoke(logout.invalidate, F)
         /\ gate' = IF logout.invalidate = {} THEN gate ELSE SyncPending(gate, registry')
         /\ logout' = [logout EXCEPT !.pc = "settling",
                                     !.complete = F = {} /\ ~logout.clearFailed]
  BY DEF LogoutRevoked
<1>3. bornIn' = bornIn
  BY <1>2 DEF Revoke
<1>4. /\ gate'.generation = gate.generation
      /\ gate.blockers \subseteq gate'.blockers \union {"pendingRevocation"}
  BY <1>1, <1>2, SyncBounds
<1>5. QueueGoesOn /\ DueLogouts' = DueLogouts
  BY <1>1, DueSame DEF QueueGoesOn
<1>6. \A k \in PeerKeys : k \in gate.blockers => k \in gate'.blockers
  BY <1>4, BlockNames
<1>7. PeerClearFailed => PeerClearFailed'
  BY <1>1, <1>5, <1>6, FailedStays
<1>8. /\ ShutForStorage => ShutForStorage'
      /\ Quiet => Quiet'
      /\ \A r \in Refreshers : op[r].pc = "ending" => op'[r].pc = "ending"
      /\ Serves({}) /\ \A q \in Ops \ {} : op'[q] = op[q]
  BY <1>1, <1>4, <1>7, NobodyActs
<1>9. Remembers /\ \A t : Unended(t) <=> UnendedNext(t)
  BY <1>1, <1>3, SameAge
<1>10. AgeInv'
  BY <1>1, <1>3, <1>4, <1>7, AgeStays
<1>11. ServedInv'
  <2>1. UnendedNext(degraded')
    BY <1>1, <1>9 DEF Ground, SessionInv, ServedInv
  <2> QED BY <1>1, <1>4, <1>8, <1>9, <2>1, ServedStays
<1>12. StoredInv'
  BY <1>1, <1>4, <1>5, <1>8, <1>9, StoredStays
<1>13. LogoutInv'
  <2>1. /\ logout'.pc = "settling" /\ logout'.clearFailed = logout.clearFailed
        /\ logout'.complete => ~logout'.clearFailed
    BY <1>1, <1>2 DEF LogoutType
  <2>2. degraded = None /\ ~Saving /\ (logout.clearFailed \/ storage = None)
    BY <1>1 DEF Ground, SessionInv, LogoutInv
  <2> QED BY <1>1, <1>5, <2>1, <2>2, SavingStays DEF LogoutInv
<1>14. PeerLogoutInv'
  <2>1. \A j \in DueLogouts' : j.who \in gate.blockers => j.who \in gate'.blockers
    BY <1>5, <1>6, DueTypes, GroundTypes
  <2> QED BY <1>1, <1>5, <2>1, SavingStays, PeerLogoutStays
<1> QED BY <1>10, <1>11, <1>12, <1>13, <1>14 DEF SessionInv

LEMMA SessionLogoutFinished == ASSUME Ground, LogoutFinished PROVE SessionInv'
<1>1. /\ op' = op /\ gate' = ReleaseLocal(gate, "logout") /\ logout' = NoLogout
      /\ UNCHANGED <<recoveryBlocks, storage, degraded, queue, running, settling, retired,
                     peerEpoch, bornIn, ended>>
  BY DEF LogoutFinished
<1>2. gate'.generation = gate.generation /\ gate'.blockers = gate.blockers \ {"logout"}
  <2>1. gate \in GateType(Blocks) /\ "logout" \in Blocks
    BY GroundTypes DEF Blocks
  <2> QED BY <1>1, <2>1, GateEffects
<1>3. QueueGoesOn /\ DueLogouts' = DueLogouts
  BY <1>1, DueSame DEF QueueGoesOn
<1>4. \A k \in PeerKeys : k \in gate.blockers => k \in gate'.blockers
  BY <1>2, BlockNames
<1>5. PeerClearFailed => PeerClearFailed'
  BY <1>1, <1>3, <1>4, FailedStays
<1>6. /\ ShutForStorage => ShutForStorage'
      /\ Quiet => Quiet'
      /\ \A r \in Refreshers : op[r].pc = "ending" => op'[r].pc = "ending"
      /\ Serves({}) /\ \A q \in Ops \ {} : op'[q] = op[q]
  BY <1>1, <1>2, <1>5, NobodyActs
<1>7. Remembers /\ \A t : Unended(t) <=> UnendedNext(t)
  BY <1>1, SameAge
<1>8. AgeInv'
  BY <1>1, <1>2, <1>5, AgeStays
<1>9. ServedInv'
  <2>1. UnendedNext(degraded')
    BY <1>1, <1>7 DEF Ground, SessionInv, ServedInv
  <2> QED BY <1>1, <1>2, <1>6, <1>7, <2>1, ServedStays
<1>10. StoredInv'
  BY <1>1, <1>2, <1>3, <1>6, <1>7, StoredStays
<1>11. LogoutInv'
  BY <1>1 DEF LogoutInv, NoLogout
<1>12. PeerLogoutInv'
  <2>1. \A j \in DueLogouts' : j.who \in gate.blockers => j.who \in gate'.blockers
    BY <1>3, <1>4, DueTypes, GroundTypes
  <2> QED BY <1>1, <1>3, <2>1, SavingStays, PeerLogoutStays
<1> QED BY <1>8, <1>9, <1>10, <1>11, <1>12 DEF SessionInv

\* A logout that was not refused ends every session: storage is empty, or its block says
\* that it may not be.
LEMMA SessionLogoutSettled == ASSUME Ground, LogoutSettled PROVE SessionInv'
<1> DEFINE g == Terminate(gate)
<1>1. /\ gate \in GateType(Blocks) /\ logout \in LogoutType /\ "logoutFailed" \in Blocks
  BY GroundTypes DEF TypeInv, TypeOK, Blocks
<1>2. /\ logout' = [logout EXCEPT !.pc = "finishing"] /\ op' = op
      /\ UNCHANGED <<storage, degraded, queue, running, settling, bornIn>>
  BY DEF LogoutSettled, ResolveAllRecoveryBlocks
<1>3. /\ g \in GateType(Blocks) /\ g.generation = gate.generation + 1
      /\ g.blockers = gate.blockers
  BY <1>1, GateClosed, GateEffects
<1>4. \/ /\ gate' = g
         /\ UNCHANGED <<recoveryBlocks, retired, peerEpoch, ended>>
      \/ /\ logout.pc = "settling" /\ logout.complete
         /\ ResolveAllRecoveryBlocks(g) /\ ended' = g.generation
      \/ /\ logout.pc = "settling" /\ ~logout.complete
         /\ gate' = BlockRetained(g, "logoutFailed") /\ ended' = g.generation
         /\ UNCHANGED <<recoveryBlocks, retired, peerEpoch>>
  BY DEF LogoutSettled
<1> HIDE DEF g
<1>5. gate'.generation = gate.generation + 1
  <2>1. CASE gate' = g
    BY <1>3, <2>1
  <2>2. CASE ResolveAllRecoveryBlocks(g)
    <3> DEFINE h == Release(g, ResolvedBlocks)
    <3>1. h \in GateType(Blocks) /\ h.generation = g.generation
      BY <1>1, <1>3, GateClosed, GateEffects
    <3>2. gate' = SyncPending(h, registry)
      BY <2>2 DEF ResolveAllRecoveryBlocks
    <3> HIDE DEF h
    <3> QED BY <1>3, <3>1, <3>2, SyncBounds
  <2>3. CASE gate' = BlockRetained(g, "logoutFailed")
    BY <1>1, <1>3, <2>3, GateEffects
  <2> QED BY <1>4, <2>1, <2>2, <2>3
<1>6. QueueGoesOn /\ DueLogouts' = DueLogouts
  BY <1>2, DueSame DEF QueueGoesOn
<1>7. Continues /\ \A q \in Ops : op'[q].pc \in SavePcs => op'[q].got # None
  BY <1>2 DEF Continues, Active, Ground, SessionInv, ServedInv
<1>8. LogoutInv'
  <2>1. logout'.pc = "finishing"
    BY <1>1, <1>2 DEF LogoutType
  <2> QED BY <2>1 DEF LogoutInv
<1>9. logout.pc = "settling" => degraded = None /\ ~Saving
  BY DEF Ground, SessionInv, LogoutInv
<1>10. AgeInv'
  BY <1>2, <1>3, <1>4, <1>5, AgeRenewed
<1>11. ServedInv' /\ Quiet'
  BY <1>2, <1>4, <1>5, <1>7, <1>9, ServedRenewed
<1>12. CASE gate' = g /\ UNCHANGED <<recoveryBlocks, retired, peerEpoch, ended>>
  <2>1. PeerClearFailed => PeerClearFailed'
    BY <1>3, <1>6, <1>12, FailedStays
  <2>2. ClearsStay
    BY <1>2, <1>3, <1>12, <2>1 DEF ClearsStay
  <2>3. ShutForStorage => ShutForStorage'
    BY <2>2, ShutStays
  <2>4. \A t : Unended(t) <=> UnendedNext(t)
    BY <1>2, <1>12, SameAge
  <2>5. ~Unended(storage)' => ShutForStorage'
    BY <1>2, <2>3, <2>4 DEF Ground, SessionInv, StoredInv, Unended, UnendedNext
  <2>6. ASSUME Saving', ~Unended(op[Head(queue).who].got)'
        PROVE  \E r \in Refreshers : op'[r].pc = "ending"
    <3>1. Saving /\ ~Unended(op[Head(queue).who].got)
      BY <1>2, <1>6, <2>4, <2>6, SavingStays DEF Unended, UnendedNext
    <3> QED BY <1>2, <3>1 DEF Ground, SessionInv, StoredInv
  <2>7. StoredInv'
    BY <1>6, <1>11, <2>5, <2>6, SavingStays DEF StoredInv
  <2>8. PeerLogoutInv'
    BY <1>2, <1>3, <1>6, <1>12, SavingStays, PeerLogoutStays
  <2> QED BY <1>8, <1>10, <1>11, <2>7, <2>8 DEF SessionInv
<1>13. CASE logout.pc = "settling" /\ logout.complete /\ ResolveAllRecoveryBlocks(g)
  <2>1. storage = None
    BY <1>13 DEF Ground, SessionInv, LogoutInv
  <2>2. StoredInv'
    BY <1>2, <1>6, <1>9, <1>13, <2>1, SavingStays DEF StoredInv, Unended, UnendedIn
  <2>3. PeerLogoutInv'
    BY <1>2, <1>6, <1>13, PeerEpochMoves DEF ResolveAllRecoveryBlocks
  <2> QED BY <1>8, <1>10, <1>11, <2>2, <2>3 DEF SessionInv
<1>14. CASE /\ logout.pc = "settling" /\ gate' = BlockRetained(g, "logoutFailed")
            /\ UNCHANGED <<recoveryBlocks, retired, peerEpoch>>
  <2>1. gate'.blockers = gate.blockers \union {"logoutFailed"}
    BY <1>1, <1>3, <1>14, GateEffects
  <2>2. ShutForStorage'
    BY <2>1 DEF ShutForStorage
  <2>3. StoredInv'
    BY <1>6, <1>9, <1>11, <1>14, <2>2, SavingStays DEF StoredInv
  <2>4. PeerLogoutInv'
    BY <1>2, <1>6, <1>14, <2>1, SavingStays, PeerLogoutStays
  <2> QED BY <1>8, <1>10, <1>11, <2>3, <2>4 DEF SessionInv
<1> QED BY <1>4, <1>12, <1>13, <1>14

------------------------------------------------------------------------------
(* The other tabs, and the steps that change nothing here *)

\* Nobody moves, and nothing that the invariant is about but a clear, a block that is
\* taken or a continuation that is over.
LEMMA NobodyStays ==
    ASSUME Ground, op' = op, gate'.generation = gate.generation, gate.blockers \subseteq gate'.blockers,
           storage' \in {storage, None}, degraded' \in {degraded, None},
           QueueGoesOn, DueLogouts' = DueLogouts, recoveryBlocks \subseteq recoveryBlocks',
           settling' \subseteq settling,
           UNCHANGED <<bornIn, ended, retired, peerEpoch, logout>>
    PROVE  SessionInv'
<1>1. Serves({}) /\ \A q \in Ops \ {} : op'[q] = op[q]
  BY DEF Serves
<1>2. Quiet => Quiet'
  BY DEF Quiet, Active
<1>3. UnendedNext(degraded')
  BY DEF Ground, SessionInv, ServedInv, Unended, UnendedNext, UnendedIn
<1> QED BY <1>1, <1>2, <1>3, SessionStays

LEMMA SessionNothing ==
    ASSUME Ground, UNCHANGED vars \/ \E t \in Tokens : Expire(t) PROVE SessionInv'
<1>1. UNCHANGED <<op, gate, storage, degraded, queue, running, settling, recoveryBlocks, bornIn,
                  ended, retired, peerEpoch, logout>>
  BY DEF vars, Expire
<1>2. DueLogouts' = DueLogouts /\ QueueGoesOn
  BY <1>1, DueSame DEF QueueGoesOn
<1> QED BY <1>1, <1>2, NobodyStays

LEMMA SessionPeerBegins ==
    ASSUME Ground, NEW k \in PeerKeys, PeerBegins(k) PROVE SessionInv'
<1>1. /\ UNCHANGED <<op, gate, degraded, queue, running, settling, recoveryBlocks, bornIn,
                     ended, retired, peerEpoch, logout>>
      /\ storage' \in {storage, None}
  BY DEF PeerBegins
<1>2. DueLogouts' = DueLogouts /\ QueueGoesOn
  BY <1>1, DueSame DEF QueueGoesOn
<1> QED BY <1>1, <1>2, NobodyStays

\* What another tab rotates stays the session's that it was.
LEMMA SessionPeerRotates == ASSUME Ground, PeerRotates PROVE SessionInv'
<1>1. /\ UNCHANGED <<op, gate, degraded, queue, running, settling, recoveryBlocks,
                     ended, retired, peerEpoch, logout>>
      /\ storage' = minted + 1 /\ bornIn' = [bornIn EXCEPT ![minted + 1] = bornIn[storage]]
      /\ minted < MaxTokens /\ storage \in live
  BY DEF PeerRotates
<1>2. /\ minted \in Nat /\ minted + 1 \in Tokens /\ storage \in Tokens /\ storage # None
      /\ Tokens \subseteq Nat /\ bornIn \in [Tokens -> Nat] /\ minted + 1 # None
  <2>1. minted \in 0..MaxTokens /\ live \subseteq Tokens /\ bornIn \in [Tokens -> Nat]
    BY GroundTypes DEF TypeInv, TypeOK
  <2> QED BY <1>1, <2>1, ConstantsAssumption DEF Tokens, None
<1>3. /\ \A t \in Tokens : t # minted + 1 => bornIn'[t] = bornIn[t]
      /\ bornIn'[minted + 1] = bornIn[storage]
  BY <1>1, <1>2
<1>4. Remembers
  BY <1>2, <1>3 DEF Remembers
<1>5. DueLogouts' = DueLogouts /\ QueueGoesOn
  BY <1>1, DueSame DEF QueueGoesOn
<1>6. PeerClearFailed => PeerClearFailed'
  BY <1>1, <1>5, FailedStays
<1>7. /\ ShutForStorage => ShutForStorage'
      /\ Quiet => Quiet'
      /\ \A r \in Refreshers : op[r].pc = "ending" => op'[r].pc = "ending"
      /\ Serves({}) /\ \A q \in Ops \ {} : op'[q] = op[q]
  BY <1>1, <1>6, NobodyActs
<1>8. AgeInv'
  <2>1. bornIn[storage] <= gate.generation
    BY <1>2 DEF Ground, SessionInv, AgeInv
  <2>2. \A t \in Tokens : bornIn'[t] = bornIn[t] \/ bornIn'[t] <= gate.generation
    BY <1>3, <2>1
  <2> QED BY <1>1, <1>6, <2>2, AgeStays
<1>9. ServedInv'
  <2>1. degraded \in Common /\ Unended(degraded)
    BY DEF Common, Ground, SessionInv, ServedInv
  <2>2. UnendedNext(degraded')
    BY <1>1, <1>4, <2>1, KnownStay
  <2> QED BY <1>1, <1>4, <1>7, <2>2, ServedStays
<1>10. StoredInv'
  <2>1. Unended(storage) => UnendedNext(storage')
    BY <1>1, <1>2, <1>3 DEF Unended, UnendedNext, UnendedIn
  <2> QED BY <1>1, <1>4, <1>5, <1>7, <2>1, StoredStays
<1>11. LogoutInv'
  BY <1>1, <1>2, <1>5, SavingStays, LogoutStays
<1>12. PeerLogoutInv'
  BY <1>1, <1>2, <1>5, SavingStays, PeerLogoutStays
<1> QED BY <1>8, <1>9, <1>10, <1>11, <1>12 DEF SessionInv

\* A peer's message empties the mirror, and queues a clear.
LEMMA PeerQueues ==
    ASSUME Ground, NEW k \in PeerKeys, NEW kind \in {"peerClear", "peerLogout"}, NEW epoch \in Nat,
           Enqueue(Job(kind, k, epoch)), settling' = settling
    PROVE  /\ QueueGoesOn
           /\ kind = "peerClear" => DueLogouts' = DueLogouts
           /\ \A j \in DueLogouts' : j \in DueLogouts \/ (j.who = k /\ j.epoch = epoch)
<1> DEFINE job == Job(kind, k, epoch)
<1>1. /\ job \in JobType /\ job.kind = kind /\ job.who = k /\ job.epoch = epoch
      /\ queue' = Append(queue, job) /\ running' = running
  BY DEF Job, JobType, Enqueue
<1> HIDE DEF job
<1>2. DueLogouts' = DueLogouts \union {j \in {job} : j.kind = "peerLogout"}
  BY <1>1, DueAppended, GroundTypes
<1> QED BY <1>1, <1>2 DEF QueueGoesOn

LEMMA SessionOnSessionCleared ==
    ASSUME Ground, NEW k \in PeerKeys, OnSessionCleared(k) PROVE SessionInv'
<1>1. /\ UNCHANGED <<op, storage, settling, recoveryBlocks, bornIn, ended, retired, peerEpoch,
                     logout>>
      /\ BlockForPeer(k) /\ degraded' = None /\ Enqueue(Job("peerClear", k, peerEpoch))
      /\ peerEpoch \in Nat
  BY GroundTypes DEF OnSessionCleared, TypeInv, TypeOK
<1>2. gate'.generation = gate.generation /\ gate'.blockers = gate.blockers \union {k}
  BY <1>1, PeerBlockEffects, GroundTypes
<1>3. QueueGoesOn /\ DueLogouts' = DueLogouts
  BY <1>1, PeerQueues
<1> QED BY <1>1, <1>2, <1>3, NobodyStays

\* A logout that no one has heard of before is of this epoch, and blocks.
LEMMA SessionOnLogout ==
    ASSUME Ground, NEW k \in PeerKeys, OnLogout(k) PROVE SessionInv'
<1> DEFINE epoch == IF tracked[k].on THEN tracked[k].epoch ELSE peerEpoch
<1>1. /\ UNCHANGED <<op, storage, settling, recoveryBlocks, bornIn, ended, peerEpoch, logout>>
      /\ BlockForPeer(k) /\ degraded' = None /\ Enqueue(Job("peerLogout", k, epoch))
      /\ k \notin retired /\ retired' = retired \union {k} /\ peerEpoch \in Nat
  BY GroundTypes DEF OnLogout, TypeInv, TypeOK
<1>2. epoch = peerEpoch
  BY DEF Ground, IInv, PeerInv, TrackedKeys
<1> HIDE DEF epoch
<1>3. gate'.generation = gate.generation /\ gate'.blockers = gate.blockers \union {k}
  BY <1>1, PeerBlockEffects, GroundTypes
<1>4. /\ QueueGoesOn
      /\ \A j \in DueLogouts' : j \in DueLogouts \/ (j.who = k /\ j.epoch = peerEpoch)
  BY <1>1, <1>2, PeerQueues
<1>5. PeerClearFailed => PeerClearFailed'
  BY <1>1, <1>3, <1>4, FailedStays
<1>6. /\ ShutForStorage => ShutForStorage'
      /\ Quiet => Quiet'
      /\ \A r \in Refreshers : op[r].pc = "ending" => op'[r].pc = "ending"
      /\ Serves({}) /\ \A q \in Ops \ {} : op'[q] = op[q]
  BY <1>1, <1>3, <1>5, NobodyActs
<1>7. Remembers /\ UnendedNext(degraded')
  BY <1>1, SameAge DEF UnendedNext, UnendedIn
<1>8. AgeInv' /\ ServedInv'
  BY <1>1, <1>3, <1>5, <1>6, <1>7, AgeStays, ServedStays
<1>9. StoredInv'
  BY <1>1, <1>3, <1>4, <1>6, <1>7, StoredStays
<1>10. LogoutInv'
  BY <1>1, <1>4, SavingStays, LogoutStays
<1>11. PeerLogoutInv'
  <2>1. PeerLogoutInv
    BY DEF Ground, SessionInv
  <2>2. \A j \in DueLogouts' :
           /\ j.epoch <= peerEpoch'
           /\ j.epoch = peerEpoch' => j.who \in gate'.blockers /\ degraded' = None
    BY <1>1, <1>3, <1>4, <2>1 DEF PeerLogoutInv
  <2>3. Saving' <=> Saving
    BY <1>4, SavingStays
  <2> QED BY <1>1, <2>1, <2>2, <2>3 DEF PeerLogoutInv
<1> QED BY <1>8, <1>9, <1>10, <1>11 DEF SessionInv

LEMMA SessionPeerClearSettled ==
    ASSUME Ground, NEW k \in PeerKeys, PeerClearSettled(k) PROVE SessionInv'
<1> DEFINE g == EndPendingOp(gate)
<1>1. /\ UNCHANGED <<op, storage, degraded, queue, running, bornIn, ended, retired, peerEpoch,
                     logout>>
      /\ \/ gate' = g /\ recoveryBlocks' = recoveryBlocks
         \/ RetainPeerBlock(g, k)
  BY DEF PeerClearSettled
<1>2. PICK s \in settling : s.job.kind = "peerClear" /\ settling' = settling \ {s}
  BY DEF PeerClearSettled
<1>3. DueLogouts' = DueLogouts /\ QueueGoesOn
  BY <1>1, <1>2, DueSettled DEF QueueGoesOn
<1>4. gate \in GateType(Blocks) /\ k \in Blocks
  BY GroundTypes DEF Blocks
<1>5. g \in GateType(Blocks) /\ g.generation = gate.generation /\ g.blockers = gate.blockers
  BY <1>4, GateClosed, GateEffects
<1> HIDE DEF g
<1>6. /\ gate'.generation = gate.generation /\ gate'.blockers = gate.blockers
      /\ recoveryBlocks \subseteq recoveryBlocks'
  BY <1>1, <1>4, <1>5, GateEffects DEF RetainPeerBlock
<1> QED BY <1>1, <1>2, <1>3, <1>6, NobodyStays

\* The logout of another tab ends the session here, if it is of this epoch: storage is
\* empty, or its block stays until a logout of this tab has cleared it.
LEMMA SessionPeerLogoutSettled ==
    ASSUME Ground, NEW k \in PeerKeys, PeerLogoutSettled(k) PROVE SessionInv'
<1> DEFINE g == EndPendingOp(gate)
           t == Terminate(g)
<1>1. /\ UNCHANGED <<op, storage, degraded, queue, running, bornIn, retired, peerEpoch, logout>>
  BY DEF PeerLogoutSettled
<1>2. PICK s \in settling :
         /\ s.job.kind = "peerLogout" /\ s.job.who = k /\ settling' = settling \ {s}
         /\ \/ /\ s.job.epoch # peerEpoch
               /\ gate' = Release(g, {k}) /\ UNCHANGED <<recoveryBlocks, ended>>
            \/ /\ s.job.epoch = peerEpoch /\ s.cleared
               /\ gate' = Release(t, {k}) /\ ended' = gate.generation + 1
               /\ UNCHANGED recoveryBlocks
            \/ /\ s.job.epoch = peerEpoch /\ ~s.cleared
               /\ RetainPeerBlock(g, k) /\ ended' = gate.generation + 1
  BY DEF PeerLogoutSettled, PeerLogoutOver
<1>3. gate \in GateType(Blocks) /\ k \in Blocks
  BY GroundTypes DEF Blocks
<1>4. g \in GateType(Blocks) /\ g.generation = gate.generation /\ g.blockers = gate.blockers
  BY <1>3, GateClosed, GateEffects
<1> HIDE DEF g
<1>5. t \in GateType(Blocks) /\ t.generation = gate.generation + 1 /\ t.blockers = gate.blockers
  BY <1>3, <1>4, GateClosed, GateEffects
<1> HIDE DEF t
<1>6. DueLogouts' \subseteq DueLogouts /\ s.job \in DueLogouts /\ settling' \subseteq settling
  BY <1>1, <1>2, DueSettled
<1>7. \A j \in DueLogouts' : j.who # k
  <2>1. ASSUME NEW i \in DOMAIN queue, queue[i].kind = "peerLogout" PROVE queue[i].who # k
    BY <1>2, <2>1 DEF Ground, CountInv, OnceInv, Same
  <2>2. ASSUME NEW u \in settling, u # s, u.job.kind = "peerLogout" PROVE u.job.who # k
    BY <1>2, <2>2 DEF Ground, SessionInv, PeerLogoutInv, Same
  <2> QED BY <1>1, <1>2, <2>1, <2>2 DEF DueLogouts
<1>8. PeerLogoutInv
  BY DEF Ground, SessionInv
<1>9. QueueGoesOn /\ (Saving' <=> Saving)
  BY <1>1, SavingStays DEF QueueGoesOn
<1>10. LogoutInv'
  BY <1>1, <1>9, LogoutStays
<1>11. k \notin {"terminalFailure", "logoutFailed"}
  BY BlockNames
<1>12. ASSUME gate.blockers \ {k} \subseteq gate'.blockers PROVE PeerLogoutInv'
  <2>1. \A j \in DueLogouts' : j.who \in gate.blockers => j.who \in gate'.blockers
    BY <1>7, <1>12
  <2> QED BY <1>1, <1>6, <1>9, <2>1, PeerLogoutStays
<1>13. s.job.epoch = peerEpoch =>
          /\ k \in gate.blockers /\ degraded = None /\ ~Saving /\ (s.cleared => storage = None)
  BY <1>2, <1>6, <1>8 DEF PeerLogoutInv
<1>14. CASE gate' = Release(g, {k}) /\ UNCHANGED <<recoveryBlocks, ended>>
  <2>1. gate'.generation = gate.generation /\ gate'.blockers = gate.blockers \ {k}
    BY <1>3, <1>4, <1>14, GateEffects
  <2>2. PeerClearFailed => PeerClearFailed'
    <3>1. ASSUME NEW q \in PeerKeys, q \in gate.blockers, q \in recoveryBlocks, q \in retired,
                 \A j \in DueLogouts : j.who # q
          PROVE  PeerClearFailed'
      <4>1. q # k
        BY <1>2, <1>6, <3>1
      <4>2. q \in gate'.blockers /\ q \in recoveryBlocks' /\ q \in retired'
        BY <1>1, <1>14, <2>1, <3>1, <4>1
      <4>3. \A j \in DueLogouts' : j.who # q
        BY <1>6, <3>1
      <4> QED BY <4>2, <4>3 DEF PeerClearFailed
    <3> QED BY <3>1 DEF PeerClearFailed
  <2>3. /\ ShutForStorage => ShutForStorage'
        /\ Quiet => Quiet'
        /\ \A r \in Refreshers : op[r].pc = "ending" => op'[r].pc = "ending"
        /\ Serves({}) /\ \A q \in Ops \ {} : op'[q] = op[q]
    BY <1>1, <1>11, <2>1, <2>2, NobodyActs
  <2>4. Remembers /\ \A u : Unended(u) <=> UnendedNext(u)
    BY <1>1, <1>14, SameAge
  <2>5. AgeInv'
    BY <1>1, <1>14, <2>1, <2>2, AgeStays
  <2>6. ServedInv'
    <3>1. UnendedNext(degraded')
      BY <1>1, <2>4 DEF Ground, SessionInv, ServedInv
    <3> QED BY <1>1, <1>14, <2>1, <2>3, <2>4, <3>1, ServedStays
  <2>7. StoredInv'
    BY <1>1, <1>9, <1>14, <2>1, <2>3, <2>4, StoredStays
  <2> QED BY <1>10, <1>12, <2>1, <2>5, <2>6, <2>7 DEF SessionInv
<1>15. CASE /\ s.job.epoch = peerEpoch /\ s.cleared
            /\ gate' = Release(t, {k}) /\ ended' = gate.generation + 1
  <2>1. gate'.generation = gate.generation + 1 /\ gate'.blockers = gate.blockers \ {k}
    BY <1>3, <1>5, <1>15, GateEffects
  <2>2. degraded' = None /\ storage' = None /\ ~Saving' /\ (running' => queue' # <<>>)
    BY <1>1, <1>9, <1>13, <1>15, SavingStays
  <2>3. Continues /\ \A q \in Ops : op'[q].pc \in SavePcs => op'[q].got # None
    BY <1>1 DEF Continues, Active, Ground, SessionInv, ServedInv
  <2>4. AgeInv' /\ ServedInv'
    BY <1>1, <1>15, <2>1, <2>2, <2>3, AgeRenewed, ServedRenewed
  <2>5. StoredInv'
    BY <2>2 DEF StoredInv, Unended, UnendedIn
  <2> QED BY <1>10, <1>12, <2>1, <2>4, <2>5 DEF SessionInv
<1>16. CASE /\ s.job.epoch = peerEpoch /\ ~s.cleared
            /\ RetainPeerBlock(g, k) /\ ended' = gate.generation + 1
  <2>1. /\ gate'.generation = gate.generation /\ gate'.blockers = gate.blockers
        /\ k \in recoveryBlocks'
    BY <1>3, <1>4, <1>16, GateEffects DEF RetainPeerBlock
  <2>2. degraded' = None /\ ~Saving' /\ (running' => queue' # <<>>)
    BY <1>1, <1>9, <1>13, <1>16, SavingStays
  <2>3. k \in retired'
    BY <1>1, <1>2, <1>6 DEF Ground, IInv, PeerInv
  <2>4. PeerClearFailed'
    BY <1>7, <1>13, <1>16, <2>1, <2>3 DEF PeerClearFailed
  <2>5. AgeInv'
    BY <1>1, <1>16, <2>1, <2>4, GroundTypes DEF Ground, SessionInv, AgeInv
  <2>6. ~(ended' <= gate'.generation)
    BY <1>16, <2>1, GroundTypes
  <2>7. ServedInv'
    BY <1>1, <2>2, <2>6 DEF Ground, SessionInv, ServedInv, Unended, UnendedIn
  <2>8. StoredInv'
    BY <2>2, <2>4, <2>6 DEF StoredInv, ShutForStorage
  <2> QED BY <1>10, <1>12, <2>1, <2>5, <2>7, <2>8 DEF SessionInv
<1> QED BY <1>2, <1>14, <1>15, <1>16

------------------------------------------------------------------------------
(* Every step *)

LEMMA SessionInit == Init => SessionInv
<1> SUFFICES ASSUME Init PROVE SessionInv
  OBVIOUS
<1>1. /\ gate.generation = 0 /\ gate.blockers = {} /\ recoveryBlocks = {}
      /\ storage \in {None, 1} /\ degraded = None /\ ended = 0
      /\ queue = <<>> /\ running = FALSE /\ settling = {} /\ logout.pc = "idle"
      /\ peerEpoch = 0
  BY DEF Init, NewGate, NoLogout
<1>2. \A t \in Tokens : bornIn[t] = 0
  BY DEF Init
<1>3. \A o \in Ops : op[o].pc = "idle"
  BY DEF Init, NoOp
<1>4. DueLogouts = {} /\ ~Saving
  BY <1>1 DEF DueLogouts, Saving
<1>5. Unended(storage) /\ Unended(degraded)
  <2>1. 1 \in Tokens
    BY ConstantsAssumption DEF Tokens
  <2> QED BY <1>1, <1>2, <2>1 DEF Unended, UnendedIn
<1>6. AgeInv
  BY <1>1, <1>2 DEF AgeInv
<1>7. ServedInv
  BY <1>3, <1>5 DEF ServedInv, ServesUnended, Active, SavePcs
<1>8. StoredInv
  BY <1>1, <1>4, <1>5 DEF StoredInv
<1>9. LogoutInv /\ PeerLogoutInv
  BY <1>1, <1>4 DEF LogoutInv, PeerLogoutInv
<1> QED BY <1>6, <1>7, <1>8, <1>9 DEF SessionInv

LEMMA SessionContinue == ASSUME Ground, NEW o \in Ops, Continue(o) PROVE SessionInv'
<1>1. ASSUME o \in Refreshers, Reloaded(o) PROVE SessionInv'
  <2>1. CASE op[o].got # None
    BY <1>1, <2>1, SessionReloaded
  <2>2. CASE op[o].got = None
    <3>1. /\ op[o].pc \in {"reloaded", "rechecked"} /\ EndSession(o)
          /\ UNCHANGED <<recoveryBlocks, storage, logout, peerVars, bornIn>>
      BY <1>1, <2>2 DEF Reloaded
    <3> QED BY <1>1, <3>1, SessionEndSession
  <2> QED BY <2>1, <2>2
<1>2. ASSUME o \in Refreshers, Rechecked(o) PROVE SessionInv'
  <2>1. CASE ~EndSession(o)
    BY <1>2, <2>1, SessionRechecked
  <2>2. CASE EndSession(o)
    <3>1. /\ op[o].pc \in {"reloaded", "rechecked"}
          /\ UNCHANGED <<recoveryBlocks, storage, logout, peerVars, bornIn>>
      BY <1>2 DEF Rechecked
    <3> QED BY <1>2, <2>2, <3>1, SessionEndSession
  <2> QED BY <2>1, <2>2
<1>3. CASE o \in Refreshers /\ (GotToken(o) \/ Loaded(o) \/ LockAcquired(o) \/ EndRevoked(o))
  BY <1>3, SessionGotToken, SessionLoaded, SessionLockAcquired, SessionEndRevoked
<1>4. CASE ReadStorage(o) \/ (o \in Updates /\ TokenUpdated(o))
  BY <1>4, SessionReadStorage, SessionTokenUpdated
<1>5. CASE \/ Answered(o) \/ Disowned(o) \/ Saved(o) \/ SaveFailed(o) \/ Announced(o)
           \/ Dropped(o)
  BY <1>5, SessionAnswered, SessionDisowned, SessionLast, SessionSaveFailed
<1> QED BY <1>1, <1>2, <1>3, <1>4, <1>5 DEF Continue

LEMMA SessionNext == ASSUME Ground, [Next]_vars PROVE SessionInv'
<1>1. CASE Application
  BY <1>1, SessionBeginLogin, SessionLoginCancelled, SessionLogoutCall, SessionCall,
     SessionCallbackCall DEF Application, GetTokenCall, RefreshCall
<1>2. CASE \E o \in Ops : Continue(o)
  BY <1>2, SessionContinue
<1>3. CASE StorageStep
  BY <1>3, SessionStartSave, SessionFinishSave, SessionUndoSave, SessionEndJobs,
     SessionLogoutClear, SessionPeerClear DEF StorageStep
<1>4. CASE LogoutStep
  BY <1>4, SessionLogoutRevoked, SessionLogoutSettled, SessionLogoutFinished DEF LogoutStep
<1>5. CASE \E k \in PeerKeys : PeerClearSettled(k) \/ PeerLogoutSettled(k)
  BY <1>5, SessionPeerClearSettled, SessionPeerLogoutSettled
<1>6. CASE Environment
  <2>1. CASE (\E o \in Ops : Serve(o)) \/ (\E u \in Updates : OnTokenUpdated(u))
    BY <2>1, SessionServe, SessionOnTokenUpdated
  <2>2. CASE PeerRotates \/ (\E t \in Tokens : Expire(t))
    BY <2>2, SessionPeerRotates, SessionNothing
  <2>3. CASE \E k \in PeerKeys : PeerBegins(k) \/ OnSessionCleared(k) \/ OnLogout(k)
    BY <2>3, SessionPeerBegins, SessionOnSessionCleared, SessionOnLogout
  <2> QED BY <1>6, <2>1, <2>2, <2>3 DEF Environment
<1>7. CASE UNCHANGED vars
  BY <1>7, SessionNothing
<1> QED BY <1>1, <1>2, <1>3, <1>4, <1>5, <1>6, <1>7 DEF Next

LEMMA GroundNext ==
    ASSUME IInv, CountInv, SessionInv, [Next]_vars PROVE Ground /\ SessionInv'
<1>1. Ground
  BY IInvNext, CountNext DEF Ground
<1> QED BY <1>1, SessionNext

LEMMA SessionsHold == Spec => [](IInv /\ CountInv /\ SessionInv)
<1>1. Init => IInv /\ CountInv /\ SessionInv
  BY InitIInv, CountInit, SessionInit
<1>2. IInv /\ CountInv /\ SessionInv /\ [Next]_vars => IInv' /\ CountInv' /\ SessionInv'
  BY GroundNext DEF Ground
<1> QED BY <1>1, <1>2, PTL DEF Spec

\* Whatever an open tab may read, in storage or in the memory mirror, is of a session that
\* no logout, terminal refresh or logout of another tab has ended: late saves and their
\* undoing, failed clears and messages that come twice included (persist(),
\* endSessionLocally(), runLogout() and onCrossTab() of client.ts).
THEOREM EndedUnreadable == Spec => []EndedStaysUnreadable
<1>1. ASSUME IInv, SessionInv, ~Blocked(gate) PROVE Unended(storage) /\ Unended(degraded)
  BY <1>1, ShutBlocks DEF SessionInv, StoredInv, ServedInv
<1>2. IInv /\ CountInv /\ SessionInv => EndedStaysUnreadable
  BY <1>1 DEF EndedStaysUnreadable, Unended, UnendedIn
<1> QED BY SessionsHold, <1>2, PTL

------------------------------------------------------------------------------
(* What the callers are handed *)

\* An operation returns in the generation of its lease, with a credential that it has.
Hands(o) ==
    Valid(o) /\ Active(o) /\ op'[o].got \in {op[o].got, op[o].held} \ {None}

HandsOver ==
    \A q \in Ops : op[q].pc # "returned" /\ op'[q].pc = "returned" => Hands(q)

LEMMA NoReturn ==
    ASSUME TypeInv, NEW o,
           \/ op' = op
           \/ op' = [op EXCEPT ![o] = NoOp]
           \/ \E rec : op' = [op EXCEPT ![o] = rec] /\ rec.pc # "returned"
           \/ \E pc \in Pcs \ {"returned"} : Step(o, pc)
    PROVE  HandsOver
<1> SUFFICES ASSUME NEW q \in Ops, op[q].pc # "returned" PROVE op'[q].pc # "returned"
  BY DEF HandsOver
<1>1. op[q] \in OpType /\ op \in [Ops -> OpType]
  BY DEF TypeInv, TypeOK
<1>2. CASE op' = [op EXCEPT ![o] = NoOp]
  BY <1>1, <1>2, NoOpTyped
<1>3. ASSUME NEW rec, op' = [op EXCEPT ![o] = rec], rec.pc # "returned"
      PROVE  op'[q].pc # "returned"
  BY <1>1, <1>3
<1>4. ASSUME NEW pc \in Pcs \ {"returned"}, Step(o, pc) PROVE op'[q].pc # "returned"
  BY <1>1, <1>4 DEF Step, OpType
<1> QED BY <1>2, <1>3, <1>4

LEMMA HandsReturn ==
    ASSUME TypeInv, NEW o \in Ops, NEW t \in {op[o].got, op[o].held} \ {None}, Return(o, t),
           Valid(o), Active(o)
    PROVE  HandsOver
<1>1. op'[o].got = t /\ \A q \in Ops \ {o} : op'[q] = op[q]
  BY DEF Return, NoOp, TypeInv, TypeOK
<1> QED BY <1>1 DEF HandsOver, Hands

LEMMA HandsContinue == ASSUME Ground, NEW o \in Ops, Continue(o) PROVE HandsOver
<1>1. TypeInv /\ op[o] \in OpType
  BY GroundTypes
<1>2. {"disowning", "saving", "announcing", "dropped"} \subseteq Pcs \ {"returned"}
  BY DEF Pcs, RefreshPcs, LockedPcs
<1>3. CASE ReadStorage(o)
  <2>1. ASSUME NEW pc \in {AnswerOf[op[o].pc], "rechecked"}, NEW t,
               op' = [op EXCEPT ![o].pc = pc, ![o].got = t]
        PROVE  HandsOver
    <3> DEFINE rec == [op[o] EXCEPT !.pc = pc, !.got = t]
    <3>1. pc # "returned"
      BY <1>3 DEF ReadStorage, LoadPcs, AnswerOf
    <3>2. rec.pc # "returned" /\ op' = [op EXCEPT ![o] = rec]
      BY <1>1, <2>1, <3>1 DEF OpType
    <3> HIDE DEF rec
    <3> QED BY <1>1, <3>2, NoReturn
  <2>2. \/ op' = [op EXCEPT ![o].pc = AnswerOf[@], ![o].got = storage]
        \/ op' = [op EXCEPT ![o].pc = "rechecked", ![o].got = None]
        \/ op' = [op EXCEPT ![o] = NoOp]
    BY <1>3 DEF ReadStorage, Throw
  <2> QED BY <1>1, <2>1, <2>2, NoReturn
<1>4. ASSUME o \in Refreshers, GotToken(o) PROVE HandsOver
  <2> DEFINE load == BeginLoad(o, "loading")
             rec == [load EXCEPT !.held = op[o].got]
  <2>1. load \in OpType /\ load.pc # "returned"
    <3>1. load \in OpType /\ load.pc \in {AnswerOf["loading"], "loading"}
      BY BeginLoadIs
    <3>2. AnswerOf["loading"] = "loaded"
      BY DEF AnswerOf
    <3> HIDE DEF load
    <3> QED BY <3>1, <3>2
  <2> HIDE DEF load
  <2>2. rec.pc # "returned"
    BY <2>1 DEF OpType
  <2>3. \/ op' = [op EXCEPT ![o] = NoOp] \/ op' = [op EXCEPT ![o] = rec]
        \/ Valid(o) /\ op[o].got # None /\ Return(o, op[o].got)
    BY <1>4 DEF GotToken, load
  <2> HIDE DEF rec
  <2>4. Active(o)
    BY <1>4 DEF GotToken, Active
  <2> QED BY <1>1, <2>2, <2>3, <2>4, NoReturn, HandsReturn
<1>5. ASSUME o \in Refreshers, Loaded(o) PROVE HandsOver
  <2> DEFINE rec == [op[o] EXCEPT !.pc = "locking", !.known = op[o].got]
  <2>1. rec.pc # "returned"
    BY <1>1 DEF OpType
  <2>2. op' = [op EXCEPT ![o] = NoOp] \/ op' = [op EXCEPT ![o] = rec]
    BY <1>1, <1>5 DEF Loaded, TypeInv, TypeOK
  <2> HIDE DEF rec
  <2> QED BY <1>1, <2>1, <2>2, NoReturn
<1>6. ASSUME o \in Refreshers, LockAcquired(o) PROVE HandsOver
  <2> DEFINE load == BeginLoad(o, "reloading")
  <2>1. load.pc # "returned"
    <3>1. load.pc \in {AnswerOf["reloading"], "reloading"}
      BY BeginLoadIs
    <3>2. AnswerOf["reloading"] = "reloaded"
      BY DEF AnswerOf
    <3> HIDE DEF load
    <3> QED BY <3>1, <3>2
  <2>2. op' = [op EXCEPT ![o] = NoOp] \/ op' = [op EXCEPT ![o] = load]
    BY <1>6 DEF LockAcquired
  <2> HIDE DEF load
  <2> QED BY <1>1, <2>1, <2>2, NoReturn
<1>7. ASSUME EndSession(o) PROVE HandsOver
  <2> DEFINE rec == [op[o] EXCEPT !.pc = "ending", !.invalidate = {op[o].known}]
  <2>1. rec.pc # "returned"
    BY <1>1 DEF OpType
  <2>2. op' = [op EXCEPT ![o] = rec]
    BY <1>1, <1>7 DEF EndSession, EndWith, TypeInv, TypeOK
  <2> HIDE DEF rec
  <2> QED BY <1>1, <2>1, <2>2, NoReturn
<1>8. ASSUME o \in Refreshers, Reloaded(o) PROVE HandsOver
  <2> DEFINE rec == [op[o] EXCEPT !.pc = "posted", !.known = op[o].got]
  <2>1. rec.pc # "returned"
    BY <1>1 DEF OpType
  <2>2. \/ EndSession(o)
        \/ op' = [op EXCEPT ![o] = NoOp] \/ op' = [op EXCEPT ![o] = rec]
        \/ Valid(o) /\ op[o].got # None /\ Return(o, op[o].got)
    BY <1>1, <1>8 DEF Reloaded, TypeInv, TypeOK
  <2> HIDE DEF rec
  <2>3. Active(o)
    BY <1>8 DEF Reloaded, Active
  <2> QED BY <1>1, <1>7, <2>1, <2>2, <2>3, NoReturn, HandsReturn
<1>9. CASE /\ o \in Refreshers
           /\ Rechecked(o) \/ EndRevoked(o)
  <2>1. EndSession(o) \/ op' = [op EXCEPT ![o] = NoOp] \/ Step(o, "announcing")
    BY <1>9 DEF Rechecked, EndRevoked, Throw
  <2> QED BY <1>1, <1>2, <1>7, <2>1, NoReturn
<1>10. CASE \/ Answered(o) \/ Disowned(o) \/ Saved(o) \/ SaveFailed(o)
            \/ o \in Updates /\ TokenUpdated(o)
  <2>1. \/ op' = [op EXCEPT ![o] = NoOp]
        \/ Step(o, "announcing") \/ Step(o, "saving") \/ Step(o, "disowning")
    BY <1>10 DEF Answered, Disowned, Saved, SaveFailed, Adopted, BeginSave, Throw, TokenUpdated
  <2> QED BY <1>1, <1>2, <2>1, NoReturn
<1>11. CASE Announced(o) \/ Dropped(o)
  <2>1. op[o].pc = "announcing" => op[o].got # None
    BY DEF Ground, SessionInv, ServedInv, SavePcs
  <2>2. \/ op' = [op EXCEPT ![o] = NoOp]
        \/ \E t \in {op[o].got, op[o].held} \ {None} : Return(o, t) /\ Valid(o)
    BY <1>11, <2>1 DEF Announced, Dropped
  <2>3. Active(o)
    BY <1>11 DEF Announced, Dropped, Active
  <2> QED BY <1>1, <2>2, <2>3, NoReturn, HandsReturn
<1> QED BY <1>3, <1>4, <1>5, <1>6, <1>8, <1>9, <1>10, <1>11 DEF Continue

LEMMA HandsNext == ASSUME Ground, [Next]_vars PROVE HandsOver
<1>1. TypeInv /\ op \in [Ops -> OpType]
  BY GroundTypes DEF TypeInv, TypeOK
<1>2. CASE op' = op
  BY <1>1, <1>2, NoReturn
<1>3. ASSUME NEW r \in Refreshers, NEW pc \in {"reading", "loading"}, Call(r, pc)
      PROVE  HandsOver
  <2> DEFINE fresh == [NoOp EXCEPT !.lease = gate.generation]
             rec == IF degraded # None THEN [fresh EXCEPT !.pc = AnswerOf[pc], !.got = degraded]
                    ELSE [fresh EXCEPT !.pc = pc]
  <2>1. rec.pc # "returned"
    <3>1. rec.pc \in {AnswerOf[pc], pc}
      BY DEF NoOp
    <3>2. AnswerOf[pc] # "returned"
      BY DEF AnswerOf
    <3> QED BY <3>1, <3>2
  <2>2. op' = [op EXCEPT ![r] = rec]
    BY <1>3 DEF Call
  <2> HIDE DEF rec
  <2> QED BY <1>1, <2>1, <2>2, NoReturn
<1>4. ASSUME NEW o, NEW pc \in {"posted", "updating"},
             op' = op \/ op' = [op EXCEPT ![o] = [NoOp EXCEPT !.pc = pc, !.lease = gate.generation]]
      PROVE  HandsOver
  <2> DEFINE rec == [NoOp EXCEPT !.pc = pc, !.lease = gate.generation]
  <2>1. rec.pc # "returned" /\ (op' = op \/ op' = [op EXCEPT ![o] = rec])
    BY <1>4 DEF NoOp
  <2> HIDE DEF rec
  <2> QED BY <1>1, <2>1, NoReturn
<1>5. CASE Application
  BY <1>2, <1>3, <1>4, <1>5 DEF Application, GetTokenCall, RefreshCall, CallbackCall, BeginLogin,
     LoginCancelled, LogoutCall
<1>6. CASE \E o \in Ops : Continue(o)
  BY <1>6, HandsContinue
<1>7. CASE StorageStep
  <2> DEFINE o == Head(queue).who
  <2>1. {"saved", "saveFailed", "undoing"} \subseteq Pcs \ {"returned"}
    BY DEF Pcs, RefreshPcs, LockedPcs
  <2>2. CASE StartSave \/ FinishSave \/ UndoSave
    <3>1. op' = op \/ Step(o, "saved") \/ Step(o, "saveFailed") \/ Step(o, "undoing")
      BY <2>2 DEF StartSave, FinishSave, UndoSave, SaveLanded, SaveRejected
    <3> QED BY <1>1, <2>1, <3>1, NoReturn
  <2>3. ASSUME StartEnd \/ FinishEnd, NEW q \in Ops PROVE op'[q].pc \in {op[q].pc, "revoking"}
    <3>1. op[q] \in OpType
      BY <1>1
    <3>2. CASE StartEnd
      BY <1>1, <3>1, <3>2 DEF StartEnd, OpType
    <3>3. CASE FinishEnd
      BY <1>1, <3>1, <3>3 DEF FinishEnd, OpType
    <3> QED BY <2>3, <3>2, <3>3
  <2>4. CASE StartLogoutClear \/ FinishLogoutClear \/ PeerClear
    BY <1>2, <2>4 DEF StartLogoutClear, FinishLogoutClear, PeerClear
  <2> QED BY <1>7, <2>2, <2>3, <2>4 DEF StorageStep, HandsOver
<1>8. CASE LogoutStep
  BY <1>2, <1>8 DEF LogoutStep, LogoutRevoked, LogoutSettled, LogoutFinished
<1>9. CASE \E k \in PeerKeys : PeerClearSettled(k) \/ PeerLogoutSettled(k)
  BY <1>2, <1>9 DEF PeerClearSettled, PeerLogoutSettled
<1>10. ASSUME NEW o \in Ops, Serve(o) PROVE HandsOver
  <2> DEFINE rec == [op[o] EXCEPT !.pc = "answered", !.got = minted + 1]
  <2>1. rec.pc # "returned"
    BY <1>1 DEF OpType
  <2>2. op' = [op EXCEPT ![o] = rec] \/ Step(o, "dropped") \/ Step(o, "rejected")
    BY <1>1, <1>10 DEF Serve, Answer
  <2> HIDE DEF rec
  <2>3. {"dropped", "rejected"} \subseteq Pcs \ {"returned"}
    BY DEF Pcs, RefreshPcs, LockedPcs
  <2> QED BY <1>1, <2>1, <2>2, <2>3, NoReturn
<1>11. CASE Environment
  BY <1>2, <1>4, <1>10, <1>11 DEF Environment, Expire, PeerRotates, PeerBegins, OnSessionCleared,
     OnLogout, OnTokenUpdated
<1>12. CASE UNCHANGED vars
  BY <1>2, <1>12 DEF vars
<1> QED BY <1>5, <1>6, <1>7, <1>8, <1>9, <1>11, <1>12 DEF Next

\* What getToken(), refresh() or handleCallback() hands to its caller was minted for the
\* session of the call: of none that has ended, and of none begun since (the leases that
\* client.ts asserts after every await).
THEOREM ReturnsInSession == Spec => ReturnedInSession
<1> DEFINE InSession ==
       \A o \in Ops : op[o].pc # "returned" /\ op'[o].pc = "returned" =>
          bornIn[op'[o].got] \in ended..op[o].lease
<1>1. ASSUME Ground, [Next]_vars PROVE InSession
  <2> SUFFICES ASSUME NEW o \in Ops, op[o].pc # "returned", op'[o].pc = "returned"
               PROVE  bornIn[op'[o].got] \in ended..op[o].lease
    OBVIOUS
  <2> DEFINE t == op'[o].got
  <2>1. Valid(o) /\ Active(o) /\ t \in {op[o].got, op[o].held} \ {None}
    BY <1>1, HandsNext DEF HandsOver, Hands
  <2>2. ~Blocked(gate) /\ op[o].lease = gate.generation
    BY <2>1 DEF Valid, StillValid
  <2>3. Unended(op[o].got) /\ Unended(op[o].held)
    BY <1>1, <2>1, <2>2, OpenTab DEF Ground, SessionInv, ServedInv, ServesUnended
  <2>4. t \in Tokens
    BY <1>1, <2>1, GroundTypes DEF MaybeToken
  <2>5. bornIn[t] >= ended /\ t # None
    BY <2>1, <2>3 DEF Unended, UnendedIn
  <2>6. bornIn[t] <= gate.generation
    BY <1>1, <2>4 DEF Ground, SessionInv, AgeInv
  <2>7. bornIn[t] \in Nat /\ ended \in Nat /\ gate.generation \in Nat
    BY <1>1, <2>4, GroundTypes
  <2> HIDE DEF t
  <2>8. bornIn[t] \in ended..op[o].lease
    BY <2>2, <2>5, <2>6, <2>7
  <2> QED BY <2>8 DEF t
<1>2. IInv /\ CountInv /\ SessionInv /\ [Next]_vars => [InSession]_vars
  BY <1>1, GroundNext
<1> HIDE DEF InSession
<1>3. Spec => [][InSession]_vars
  BY SessionsHold, <1>2, PTL DEF Spec
<1> QED BY <1>3 DEF InSession, ReturnedInSession

------------------------------------------------------------------------------
(* Custody of credentials *)

\* Which transitions hold what they were asked to revoke, and that a logout which has
\* had its revocations outlives none of them alone.
CustodyInv ==
    /\ \A o \in Ops : op[o].pc \notin EndPcs => op[o].invalidate = {}
    /\ logout.pc \in {"idle", "rejecting"} => logout.invalidate = {}
    /\ logout.pc \in {"settling", "finishing"} =>
          logout.invalidate \intersect live \subseteq registry.pending

\* What an operation accounts for by itself.
Carries(o, t) == t \in op[o].invalidate \/ (op[o].pc \in FreshPcs /\ op[o].got = t)
CarriesNext(o, t) == t \in op'[o].invalidate \/ (op'[o].pc \in FreshPcs /\ op'[o].got = t)

\* The operation that saved t takes it for the session's.
Adopts(t) == \E o \in Ops : op[o].pc = "saved" /\ op'[o].pc = "announcing" /\ op[o].got = t

CustodyStep ==
    \A t \in live \intersect live' :
       t \in Accounted => t \in Accounted' \union {storage', degraded'} \/ Adopts(t)

LEMMA AccountedIs ==
    ASSUME NEW t
    PROVE  /\ t \in Accounted <=> \/ t \in registry.candidates \union registry.pending
                                  \/ t \in logout.invalidate
                                  \/ \E o \in Ops : Carries(o, t)
           /\ t \in Accounted' <=> \/ t \in registry'.candidates \union registry'.pending
                                   \/ t \in logout'.invalidate
                                   \/ \E o \in Ops : CarriesNext(o, t)
<1>1. t \in Accounted <=> \/ t \in registry.candidates \union registry.pending
                          \/ t \in logout.invalidate
                          \/ \E o \in Ops : Carries(o, t)
  <2> DEFINE bags == UNION {op[o].invalidate : o \in Ops}
             fresh == {op[o].got : o \in {q \in Ops : op[q].pc \in {"answered", "disowning"}}}
  <2>1. t \in bags <=> \E o \in Ops : t \in op[o].invalidate
    OBVIOUS
  <2>2. t \in fresh <=> \E o \in Ops : op[o].pc \in FreshPcs /\ op[o].got = t
    BY DEF FreshPcs
  <2>3. t \in Accounted <=> \/ t \in registry.candidates \/ t \in registry.pending
                           \/ t \in logout.invalidate \/ t \in bags \/ t \in fresh
    BY DEF Accounted
  <2> HIDE DEF bags, fresh
  <2> QED BY <2>1, <2>2, <2>3 DEF Carries
<1>2. t \in Accounted' <=> \/ t \in registry'.candidates \union registry'.pending
                          \/ t \in logout'.invalidate
                          \/ \E o \in Ops : CarriesNext(o, t)
  <2> DEFINE bags == UNION {op'[o].invalidate : o \in Ops}
             fresh == {op'[o].got : o \in {q \in Ops : op'[q].pc \in {"answered", "disowning"}}}
  <2>1. t \in bags <=> \E o \in Ops : t \in op'[o].invalidate
    OBVIOUS
  <2>2. t \in fresh <=> \E o \in Ops : op'[o].pc \in FreshPcs /\ op'[o].got = t
    BY DEF FreshPcs
  <2>3. t \in Accounted' <=> \/ t \in registry'.candidates \/ t \in registry'.pending
                           \/ t \in logout'.invalidate \/ t \in bags \/ t \in fresh
    BY DEF Accounted
  <2> HIDE DEF bags, fresh
  <2> QED BY <2>1, <2>2, <2>3 DEF CarriesNext
<1> QED BY <1>1, <1>2

\* The server revives nothing.
Revives == \E t \in live' : t \notin live /\ t <= minted

\* What a logout accounts for was minted before.
LEMMA LogoutKnows ==
    ASSUME Ground, NEW t \in logout.invalidate \union registry.pending \union registry.candidates
    PROVE  t <= minted
BY DEF Ground, IInv, FreshInv, Common

LEMMA LogoutRests ==
    ASSUME Ground, CustodyInv, logout' = logout, ~Revives,
           \A t \in registry.pending : t \in live' => t \in registry'.pending
    PROVE  /\ logout'.pc \in {"idle", "rejecting"} => logout'.invalidate = {}
           /\ logout'.pc \in {"settling", "finishing"} =>
                 logout'.invalidate \intersect live' \subseteq registry'.pending
BY LogoutKnows DEF CustodyInv, Revives

\* Only o moves, and it carries nothing.
Aloof(o) ==
    /\ \A q \in Ops \ {o} : op'[q] = op[q]
    /\ op[o].pc \notin FreshPcs \union EndPcs /\ op'[o].pc \notin EndPcs
    /\ op'[o].invalidate \in {{}, op[o].invalidate}

\* The registry keeps its credentials.
Holds == registry'.candidates = registry.candidates /\ registry'.pending = registry.pending

LEMMA AloofRec ==
    ASSUME Ground, NEW o \in Ops, op[o].pc \notin FreshPcs \union EndPcs, NEW rec,
           op' = [op EXCEPT ![o] = rec], rec.pc \notin EndPcs,
           rec.invalidate \in {{}, op[o].invalidate}
    PROVE  Aloof(o)
<1>1. op'[o] = rec /\ \A q \in Ops \ {o} : op'[q] = op[q]
  BY GroundTypes DEF TypeInv, TypeOK
<1> QED BY <1>1 DEF Aloof

LEMMA AloofStep ==
    ASSUME Ground, NEW o \in Ops, op[o].pc \notin FreshPcs \union EndPcs,
           \/ \E pc \in Pcs \ EndPcs : Step(o, pc)
           \/ op' = [op EXCEPT ![o] = NoOp]
           \/ \E t : Return(o, t)
    PROVE  Aloof(o)
<1>1. op[o] \in OpType
  BY GroundTypes
<1>2. ASSUME NEW pc \in Pcs \ EndPcs, Step(o, pc) PROVE Aloof(o)
  <2> DEFINE rec == [op[o] EXCEPT !.pc = pc]
  <2>1. rec.pc = pc /\ rec.invalidate = op[o].invalidate
    BY <1>1 DEF OpType
  <2>2. op' = [op EXCEPT ![o] = rec]
    BY <1>2 DEF Step
  <2> HIDE DEF rec
  <2> QED BY <2>1, <2>2, AloofRec
<1>3. CASE op' = [op EXCEPT ![o] = NoOp]
  <2>1. NoOp.pc = "idle" /\ NoOp.invalidate = {} /\ "idle" \notin EndPcs
    BY DEF NoOp, EndPcs
  <2> QED BY <1>3, <2>1, AloofRec
<1>4. ASSUME NEW t, Return(o, t) PROVE Aloof(o)
  <2> DEFINE rec == [NoOp EXCEPT !.pc = "returned", !.lease = op[o].lease, !.got = t]
  <2>1. rec.pc = "returned" /\ rec.invalidate = {} /\ op' = [op EXCEPT ![o] = rec]
    BY <1>4 DEF Return, NoOp
  <2>2. "returned" \notin EndPcs
    BY DEF EndPcs
  <2> HIDE DEF rec
  <2> QED BY <2>1, <2>2, AloofRec
<1> QED BY <1>2, <1>3, <1>4

LEMMA AloofKeeps ==
    ASSUME Ground, CustodyInv, NEW o \in Ops, Aloof(o), Holds, logout' = logout, ~Revives
    PROVE  CustodyInv' /\ CustodyStep
<1>1. op[o].invalidate = {} /\ op'[o].invalidate = {}
  BY DEF Aloof, CustodyInv
<1>2. \A q \in Ops : op'[q].pc \notin EndPcs => op'[q].invalidate = {}
  BY <1>1 DEF Aloof, CustodyInv
<1>3. CustodyInv'
  BY <1>2, LogoutRests DEF CustodyInv, Holds
<1>4. ASSUME NEW t, t \in Accounted PROVE t \in Accounted'
  <2>1. \A q \in Ops : Carries(q, t) => CarriesNext(q, t)
    BY <1>1 DEF Carries, CarriesNext, Aloof
  <2> QED BY <1>4, <2>1, AccountedIs DEF Holds
<1> QED BY <1>3, <1>4 DEF CustodyStep

\* Nobody moves.
LEMMA NobodyDrops ==
    ASSUME Ground, CustodyInv, op' = op, Holds, ~Revives,
           \/ logout' = logout
           \/ logout.pc = "idle" /\ logout'.pc = "rejecting" /\ logout'.invalidate = {}
           \/ logout.pc = "idle" /\ logout'.pc = "clearing"
    PROVE  CustodyInv' /\ CustodyStep
<1>1. CustodyInv'
  <2>1. CASE logout' = logout
    BY <2>1, LogoutRests DEF CustodyInv, Holds
  <2>2. CASE logout' # logout
    BY <2>2 DEF CustodyInv
  <2> QED BY <2>1, <2>2
<1>2. logout.invalidate \subseteq logout'.invalidate
  BY DEF CustodyInv
<1>3. ASSUME NEW t, t \in Accounted PROVE t \in Accounted'
  <2>1. \A q \in Ops : Carries(q, t) => CarriesNext(q, t)
    BY DEF Carries, CarriesNext
  <2> QED BY <1>2, <1>3, <2>1, AccountedIs DEF Holds
<1> QED BY <1>1, <1>3 DEF CustodyStep

------------------------------------------------------------------------------
(* What each action does to custody *)

Keeps == CustodyInv' /\ CustodyStep

LEMMA RegistryKeeps ==
    ASSUME Ground
    PROVE  /\ registry \in RegistryType(Ops, Tokens)
           /\ registry' = registry => Holds
           /\ \A o \in Ops : \/ registry' = ReleaseReservation(registry, o)
                             \/ registry' = Reserve(registry, o)
                 => Holds
<1>1. registry \in RegistryType(Ops, Tokens)
  BY GroundTypes DEF TypeInv, TypeOK
<1>2. ASSUME NEW o \in Ops, \/ registry' = ReleaseReservation(registry, o)
                            \/ registry' = Reserve(registry, o)
      PROVE  Holds
  BY <1>1, <1>2, SlotEffects DEF Holds
<1> QED BY <1>1, <1>2 DEF Holds

\* An operation begins.
LEMMA CustodyCall ==
    ASSUME Ground, CustodyInv, NEW r \in Refreshers, NEW pc \in {"reading", "loading"},
           Call(r, pc)
    PROVE  Keeps
<1> DEFINE fresh == [NoOp EXCEPT !.lease = gate.generation]
           rec == IF degraded # None THEN [fresh EXCEPT !.pc = AnswerOf[pc], !.got = degraded]
                  ELSE [fresh EXCEPT !.pc = pc]
<1>1. rec.pc \in {AnswerOf[pc], pc} /\ rec.invalidate = {}
  BY DEF NoOp
<1>2. /\ op' = [op EXCEPT ![r] = rec] /\ r \in Ops
      /\ op[r].pc \notin FreshPcs \union EndPcs
      /\ Holds /\ logout' = logout /\ ~Revives
  BY DEF Call, FreshPcs, EndPcs, Ops, Holds, Revives
<1>3. AnswerOf[pc] \notin EndPcs /\ pc \notin EndPcs
  BY DEF AnswerOf, EndPcs
<1> HIDE DEF rec
<1>4. Aloof(r)
  BY <1>1, <1>2, <1>3, AloofRec
<1> QED BY <1>2, <1>4, AloofKeeps DEF Keeps

LEMMA CustodyBegins ==
    ASSUME Ground, CustodyInv,
           \/ \E c \in Callbacks : CallbackCall(c)
           \/ \E u \in Updates : OnTokenUpdated(u)
    PROVE  Keeps
<1>1. PICK o \in Ops, pc \in {"posted", "updating"} :
         /\ op[o].pc \notin FreshPcs \union EndPcs
         /\ op' = op \/ op' = [op EXCEPT ![o] = [NoOp EXCEPT !.pc = pc, !.lease = gate.generation]]
         /\ registry' = registry \/ registry' = Reserve(registry, o)
         /\ logout' = logout /\ ~Revives
  BY DEF CallbackCall, OnTokenUpdated, FreshPcs, EndPcs, Ops, Revives
<1>2. Holds
  BY <1>1, RegistryKeeps
<1> DEFINE rec == [NoOp EXCEPT !.pc = pc, !.lease = gate.generation]
<1>3. rec.pc = pc /\ rec.invalidate = {} /\ pc \notin EndPcs
  BY DEF NoOp, EndPcs
<1>4. op' = op \/ op' = [op EXCEPT ![o] = rec]
  BY <1>1
<1> HIDE DEF rec
<1>5. CASE op' = op
  BY <1>1, <1>2, <1>5, NobodyDrops DEF Keeps
<1>6. CASE op' = [op EXCEPT ![o] = rec]
  <2>1. Aloof(o)
    BY <1>1, <1>3, <1>6, AloofRec
  <2> QED BY <1>1, <1>2, <2>1, AloofKeeps DEF Keeps
<1> QED BY <1>4, <1>5, <1>6

LEMMA CustodyReadStorage ==
    ASSUME Ground, CustodyInv, NEW o \in Ops, ReadStorage(o) PROVE Keeps
<1>1. /\ op[o] \in OpType /\ op[o].pc \in LoadPcs
      /\ op[o].pc \notin FreshPcs \union EndPcs
      /\ logout' = logout /\ ~Revives
  BY GroundTypes DEF ReadStorage, LoadPcs, FreshPcs, EndPcs, Revives
<1>2. Holds
  BY RegistryKeeps DEF ReadStorage, Throw
<1>3. ASSUME NEW pc \in {AnswerOf[op[o].pc], "rechecked"}, NEW t,
             op' = [op EXCEPT ![o].pc = pc, ![o].got = t]
      PROVE  Aloof(o)
  <2> DEFINE rec == [op[o] EXCEPT !.pc = pc, !.got = t]
  <2>1. rec.pc = pc /\ rec.invalidate = op[o].invalidate /\ op' = [op EXCEPT ![o] = rec]
    BY <1>1, <1>3 DEF OpType
  <2>2. pc \notin EndPcs
    BY <1>1 DEF LoadPcs, AnswerOf, EndPcs
  <2> HIDE DEF rec
  <2> QED BY <1>1, <2>1, <2>2, AloofRec
<1>4. \/ op' = [op EXCEPT ![o].pc = AnswerOf[@], ![o].got = storage]
      \/ op' = [op EXCEPT ![o].pc = "rechecked", ![o].got = None]
      \/ op' = [op EXCEPT ![o] = NoOp]
  BY DEF ReadStorage, Throw
<1>5. Aloof(o)
  BY <1>1, <1>3, <1>4, AloofStep
<1> QED BY <1>1, <1>2, <1>5, AloofKeeps DEF Keeps

LEMMA CustodyLoads ==
    ASSUME Ground, CustodyInv, NEW r \in Refreshers,
           GotToken(r) \/ Loaded(r) \/ LockAcquired(r) \/ (Reloaded(r) /\ op[r].got # None)
    PROVE  Keeps
<1>1. /\ r \in Ops /\ op[r] \in OpType
      /\ op[r].pc \notin FreshPcs \union EndPcs
      /\ logout' = logout /\ ~Revives
  BY GroundTypes DEF GotToken, Loaded, LockAcquired, Reloaded, FreshPcs, EndPcs, Ops, Revives
<1>2. Holds
  <2>1. registry' = registry \/ registry' = Reserve(registry, r)
    BY DEF GotToken, Loaded, LockAcquired, Reloaded
  <2> QED BY <1>1, <2>1, RegistryKeeps
<1> DEFINE load(pc) == BeginLoad(r, pc)
<1>3. ASSUME NEW pc \in {"loading", "reloading"}
      PROVE  load(pc).pc \notin EndPcs /\ load(pc).invalidate = op[r].invalidate
                /\ load(pc) \in OpType
  <2>1. load(pc).invalidate = op[r].invalidate
    BY <1>1 DEF BeginLoad, OpType
  <2>2. load(pc).pc \in {AnswerOf[pc], pc} /\ load(pc) \in OpType
    BY <1>1, BeginLoadIs
  <2>3. AnswerOf[pc] \notin EndPcs /\ pc \notin EndPcs
    BY DEF AnswerOf, EndPcs
  <2> QED BY <2>1, <2>2, <2>3
<1>4. ASSUME op' = [op EXCEPT ![r] = [load("loading") EXCEPT !.held = op[r].got]]
      PROVE  Aloof(r)
  <2> DEFINE rec == [load("loading") EXCEPT !.held = op[r].got]
  <2> HIDE DEF load
  <2>1. rec.pc = load("loading").pc /\ rec.invalidate = load("loading").invalidate
    BY <1>3 DEF OpType
  <2>2. op' = [op EXCEPT ![r] = rec]
    BY <1>4
  <2> HIDE DEF rec
  <2> QED BY <1>1, <1>3, <2>1, <2>2, AloofRec
<1>5. ASSUME op' = [op EXCEPT ![r] = load("reloading")] PROVE Aloof(r)
  <2> HIDE DEF load
  <2> QED BY <1>1, <1>3, <1>5, AloofRec
<1>6. ASSUME NEW pc \in {"locking", "posted"},
             op' = [op EXCEPT ![r].pc = pc, ![r].known = op[r].got]
      PROVE  Aloof(r)
  <2> DEFINE rec == [op[r] EXCEPT !.pc = pc, !.known = op[r].got]
  <2>1. rec.pc = pc /\ rec.invalidate = op[r].invalidate /\ op' = [op EXCEPT ![r] = rec]
    BY <1>1, <1>6 DEF OpType
  <2>2. pc \notin EndPcs
    BY DEF EndPcs
  <2> HIDE DEF rec
  <2> QED BY <1>1, <2>1, <2>2, AloofRec
<1>7. ASSUME op' = [op EXCEPT ![r] = NoOp] \/ Return(r, op[r].got) PROVE Aloof(r)
  BY <1>1, <1>7, AloofStep
<1>8. \/ op' = [op EXCEPT ![r] = NoOp] \/ Return(r, op[r].got)
      \/ op' = [op EXCEPT ![r] = [load("loading") EXCEPT !.held = op[r].got]]
      \/ op' = [op EXCEPT ![r] = load("reloading")]
      \/ \E pc \in {"locking", "posted"} : op' = [op EXCEPT ![r].pc = pc, ![r].known = op[r].got]
  BY DEF GotToken, Loaded, LockAcquired, Reloaded
<1> HIDE DEF load
<1>9. Aloof(r)
  BY <1>4, <1>5, <1>6, <1>7, <1>8
<1> QED BY <1>1, <1>2, <1>9, AloofKeeps DEF Keeps

\* What is left of an operation after the request, when its credential is not concerned.
LEMMA CustodyLast ==
    ASSUME Ground, CustodyInv, NEW o \in Ops,
           \/ Announced(o) \/ Dropped(o) \/ (o \in Updates /\ TokenUpdated(o))
           \/ (o \in Refreshers /\ Rechecked(o) /\ ~EndSession(o))
    PROVE  Keeps
<1>1. /\ op[o].pc \notin FreshPcs \union EndPcs /\ logout' = logout /\ ~Revives
  BY DEF Announced, Dropped, TokenUpdated, Rechecked, FreshPcs, EndPcs, Revives
<1>2. Holds
  <2>1. registry' = registry \/ registry' = ReleaseReservation(registry, o)
    BY DEF Announced, Dropped, TokenUpdated, Rechecked, Throw
  <2> QED BY <2>1, RegistryKeeps
<1>3. "announcing" \in Pcs \ EndPcs
  BY DEF Pcs, RefreshPcs, LockedPcs, EndPcs
<1>4. \/ op' = [op EXCEPT ![o] = NoOp] \/ Step(o, "announcing")
      \/ Return(o, op[o].got) \/ Return(o, op[o].held)
  BY DEF Announced, Dropped, TokenUpdated, Rechecked, Throw
<1>5. Aloof(o)
  BY <1>1, <1>3, <1>4, AloofStep
<1> QED BY <1>1, <1>2, <1>5, AloofKeeps DEF Keeps

\* One operation moves; what the tab accounts for changes hands at most.
LEMMA OneMoves ==
    ASSUME Ground, CustodyInv, NEW o \in Ops, \A q \in Ops \ {o} : op'[q] = op[q],
           op'[o].pc \notin EndPcs => op'[o].invalidate = {},
           logout' = logout, ~Revives,
           \A t \in registry.pending : t \in live' => t \in registry'.pending,
           \A t \in live \intersect live' :
              t \in registry.candidates \/ Carries(o, t) =>
                 \/ t \in registry'.candidates \union registry'.pending
                 \/ t \in {storage', degraded'} \/ CarriesNext(o, t) \/ Adopts(t)
    PROVE  Keeps
<1>1. \A q \in Ops : op'[q].pc \notin EndPcs => op'[q].invalidate = {}
  BY DEF CustodyInv
<1>2. CustodyInv'
  BY <1>1, LogoutRests DEF CustodyInv
<1>3. ASSUME NEW t \in live \intersect live', t \in Accounted
      PROVE  t \in Accounted' \union {storage', degraded'} \/ Adopts(t)
  <2>1. \A q \in Ops \ {o} : Carries(q, t) => CarriesNext(q, t)
    BY DEF Carries, CarriesNext
  <2> QED BY <1>3, <2>1, AccountedIs
<1> QED BY <1>2, <1>3 DEF CustodyStep, Keeps

LEMMA StepIs ==
    ASSUME Ground, NEW o \in Ops, NEW pc \in Pcs, Step(o, pc)
    PROVE  /\ op'[o].pc = pc /\ op'[o].got = op[o].got /\ op'[o].invalidate = op[o].invalidate
           /\ op'[o].lease = op[o].lease /\ op'[o].known = op[o].known
           /\ \A q \in Ops \ {o} : op'[q] = op[q]
<1> DEFINE rec == [op[o] EXCEPT !.pc = pc]
<1>1. /\ rec.pc = pc /\ rec.invalidate = op[o].invalidate /\ rec.got = op[o].got
      /\ rec.lease = op[o].lease /\ rec.known = op[o].known
  BY GroundTypes DEF OpType
<1>2. op' = [op EXCEPT ![o] = rec]
  BY DEF Step
<1> HIDE DEF rec
<1>3. op'[o] = rec /\ \A q \in Ops \ {o} : op'[q] = op[q]
  BY <1>2, GroundTypes DEF TypeInv, TypeOK
<1> QED BY <1>1, <1>3

LEMMA EndIs ==
    ASSUME Ground, NEW o \in Ops, op' = [op EXCEPT ![o] = NoOp]
    PROVE  /\ op'[o].pc = "idle" /\ op'[o].invalidate = {} /\ op'[o].got = None
           /\ \A q \in Ops \ {o} : op'[q] = op[q]
<1>1. op'[o] = NoOp /\ \A q \in Ops \ {o} : op'[q] = op[q]
  BY GroundTypes DEF TypeInv, TypeOK
<1> QED BY <1>1 DEF NoOp

LEMMA CustodyServe ==
    ASSUME Ground, CustodyInv, NEW o \in Ops, Serve(o) PROVE Keeps
<1>1. /\ op[o].pc = "posted" /\ registry' = registry /\ logout' = logout
      /\ op[o].pc \notin FreshPcs \union EndPcs
  BY DEF Serve, FreshPcs, EndPcs
<1>2. ~Revives
  <2>1. minted \in Nat
    BY GroundTypes DEF TypeInv, TypeOK
  <2> QED BY <2>1 DEF Serve, Answer, Mint, Revives
<1>3. "dropped" \in Pcs \ EndPcs /\ "rejected" \in Pcs \ EndPcs /\ "answered" \notin EndPcs
  BY DEF Pcs, RefreshPcs, LockedPcs, EndPcs
<1>4. ASSUME op' = [op EXCEPT ![o].pc = "answered", ![o].got = minted + 1] PROVE Aloof(o)
  <2> DEFINE rec == [op[o] EXCEPT !.pc = "answered", !.got = minted + 1]
  <2>1. rec.pc = "answered" /\ rec.invalidate = op[o].invalidate /\ op' = [op EXCEPT ![o] = rec]
    BY <1>4, GroundTypes DEF OpType
  <2> HIDE DEF rec
  <2> QED BY <1>1, <1>3, <2>1, AloofRec
<1>5. \/ op' = [op EXCEPT ![o].pc = "answered", ![o].got = minted + 1]
      \/ Step(o, "dropped") \/ Step(o, "rejected")
  BY DEF Serve, Answer
<1>6. Aloof(o)
  BY <1>1, <1>3, <1>4, <1>5, AloofStep
<1> QED BY <1>1, <1>2, <1>6, AloofKeeps, RegistryKeeps DEF Keeps

LEMMA CustodySaves ==
    ASSUME Ground, CustodyInv, StartSave \/ FinishSave \/ UndoSave PROVE Keeps
<1> DEFINE o == Head(queue).who
<1>1. /\ o \in Ops /\ op[o].pc \notin FreshPcs \union EndPcs
      /\ registry' = registry /\ logout' = logout /\ ~Revives
  BY SaverIs DEF StartSave, FinishSave, UndoSave, FreshPcs, EndPcs, Revives
<1>2. {"saved", "saveFailed", "undoing"} \subseteq Pcs \ EndPcs
  BY DEF Pcs, RefreshPcs, LockedPcs, EndPcs
<1>3. op' = op \/ Step(o, "saved") \/ Step(o, "saveFailed") \/ Step(o, "undoing")
  BY DEF StartSave, FinishSave, UndoSave, SaveLanded, SaveRejected
<1> HIDE DEF o
<1>4. CASE op' = op
  BY <1>1, <1>4, NobodyDrops, RegistryKeeps DEF Keeps
<1>5. CASE op' # op
  <2>1. Aloof(o)
    BY <1>1, <1>2, <1>3, <1>5, AloofStep
  <2> QED BY <1>1, <2>1, AloofKeeps, RegistryKeeps DEF Keeps
<1> QED BY <1>4, <1>5

LEMMA CustodySaved ==
    ASSUME Ground, CustodyInv, NEW o \in Ops, Saved(o) \/ SaveFailed(o) PROVE Keeps
<1>1. /\ op[o].pc \in {"saved", "saveFailed"} /\ logout' = logout /\ ~Revives
      /\ op[o].pc \notin FreshPcs \union EndPcs
      /\ op[o].invalidate = {}
  BY DEF Saved, SaveFailed, FreshPcs, EndPcs, CustodyInv, Revives
<1>2. CASE Throw(o)
  <2>1. Aloof(o)
    BY <1>1, <1>2, AloofStep DEF Throw
  <2>2. Holds
    BY <1>2, RegistryKeeps DEF Throw
  <2> QED BY <1>1, <2>1, <2>2, AloofKeeps DEF Keeps
<1>3. CASE ~Throw(o)
  <2>1. /\ Step(o, "announcing") /\ registry' = ReleaseHandle(registry, o, op[o].got)
        /\ op[o].pc = "saveFailed" => degraded' = op[o].got
    BY <1>3 DEF Saved, SaveFailed, Adopted
  <2>2. /\ registry'.candidates = registry.candidates \ {op[o].got}
        /\ registry'.pending = registry.pending
    BY <2>1, HandleEffects, RegistryKeeps
  <2>3. "announcing" \in Pcs \ EndPcs
    BY DEF Pcs, RefreshPcs, LockedPcs, EndPcs
  <2>4. /\ op'[o].pc = "announcing" /\ op'[o].invalidate = {}
        /\ \A q \in Ops \ {o} : op'[q] = op[q]
    BY <1>1, <2>1, <2>3, StepIs
  <2>5. ASSUME NEW t, t \in registry.candidates \/ Carries(o, t)
        PROVE  t \in registry'.candidates \/ t = degraded' \/ Adopts(t)
    <3>1. t \in registry.candidates
      BY <1>1, <2>5 DEF Carries
    <3>2. CASE t = op[o].got /\ op[o].pc = "saved"
      BY <2>4, <3>2 DEF Adopts
    <3> QED BY <1>1, <2>1, <2>2, <3>1, <3>2
  <2> QED BY <1>1, <2>2, <2>3, <2>4, <2>5, OneMoves
<1> QED BY <1>2, <1>3

LEMMA CustodyAnswered ==
    ASSUME Ground, CustodyInv, NEW o \in Ops, Answered(o) PROVE Keeps
<1> DEFINE t == op[o].got
           reg == Register(registry, o, t)
<1>1. /\ op[o].pc = "answered" /\ logout' = logout /\ ~Revives
      /\ op[o].invalidate = {}
  BY DEF Answered, EndPcs, CustodyInv, Revives
<1>2. t \in Tokens /\ t \notin registry.candidates
  <2>1. t \in Tokens
    BY <1>1, GroundTypes DEF TypeInv, HoldsToken
  <2>2. t \notin Common
    BY <1>1 DEF Ground, IInv, FreshInv, FreshPcs
  <2> QED BY <2>1, <2>2 DEF Common
<1>3. /\ reg \in RegistryType(Ops, Tokens)
      /\ reg.candidates = registry.candidates \union {t} /\ reg.pending = registry.pending
  BY <1>2, RegistryKeeps, HandlesClosed, HandleEffects
<1>4. {"saving", "disowning"} \subseteq Pcs \ EndPcs
  BY DEF Pcs, RefreshPcs, LockedPcs, EndPcs
<1>5. \/ registry' = reg /\ Step(o, "saving")
      \/ registry' = ReleaseHandle(reg, o, t) /\ Step(o, "disowning")
  BY DEF Answered, BeginSave
<1>6. \A u : Carries(o, u) => u = t
  BY <1>1 DEF Carries
<1> HIDE DEF reg
<1>7. CASE registry' = reg /\ Step(o, "saving")
  <2>1. op'[o].pc = "saving" /\ op'[o].invalidate = {} /\ \A q \in Ops \ {o} : op'[q] = op[q]
    BY <1>1, <1>4, <1>7, StepIs
  <2> QED BY <1>1, <1>3, <1>4, <1>6, <1>7, <2>1, OneMoves
<1>8. CASE registry' = ReleaseHandle(reg, o, t) /\ Step(o, "disowning")
  <2>1. /\ op'[o].pc = "disowning" /\ op'[o].invalidate = {} /\ op'[o].got = t
        /\ \A q \in Ops \ {o} : op'[q] = op[q]
    BY <1>1, <1>4, <1>8, StepIs
  <2>2. registry'.candidates = reg.candidates \ {t} /\ registry'.pending = registry.pending
    BY <1>3, <1>8, HandleEffects
  <2>3. registry'.candidates = registry.candidates
    BY <1>2, <1>3, <2>2
  <2>4. CarriesNext(o, t)
    BY <2>1 DEF CarriesNext, FreshPcs
  <2> HIDE DEF t
  <2> QED BY <1>1, <1>4, <1>6, <2>1, <2>2, <2>3, <2>4, OneMoves
<1> QED BY <1>5, <1>7, <1>8

\* A round of revocations: what is not confirmed is retained, the rest is dead.
LEMMA RevokedOrRetained ==
    ASSUME Ground, NEW S \in SUBSET Tokens, NEW F \in SUBSET S, Revoke(S, F),
           registry'.pending = Retained(registry, S, F).pending,
           registry'.candidates = Retained(registry, S, F).candidates
    PROVE  /\ ~Revives /\ registry'.candidates = registry.candidates
           /\ \A t \in live' : t \in registry.pending \union S => t \in registry'.pending
<1>1. /\ registry'.pending = (registry.pending \ S) \union F
      /\ registry'.candidates = registry.candidates
  BY RegistryKeeps, RetainedEffects
<1>2. live' = live \ (S \ F)
  BY DEF Revoke
<1> QED BY <1>1, <1>2 DEF Revives

LEMMA CustodyDisowned ==
    ASSUME Ground, CustodyInv, NEW o \in Ops, Disowned(o) PROVE Keeps
<1> DEFINE t == op[o].got
<1>1. /\ op[o].pc = "disowning" /\ logout' = logout /\ op[o].invalidate = {}
  BY DEF Disowned, EndPcs, CustodyInv
<1>2. {t} \in SUBSET Tokens
  BY <1>1, GroundTypes DEF TypeInv, HoldsToken
<1>3. PICK F \in SUBSET {t} :
         LET reg == Retained(registry, {t}, F) IN
         /\ Revoke({t}, F)
         /\ \/ registry' = reg /\ BeginSave(o)
            \/ registry' = ReleaseReservation(reg, o) /\ op' = [op EXCEPT ![o] = NoOp]
  BY <1>1 DEF Disowned
<1> DEFINE reg == Retained(registry, {t}, F)
<1>4. reg \in RegistryType(Ops, Tokens)
  BY <1>2, RegistryKeeps, RetainedClosed
<1> HIDE DEF reg
<1>5. registry' = reg \/ registry' = ReleaseReservation(reg, o)
  BY <1>3 DEF reg
<1>6. registry'.pending = reg.pending /\ registry'.candidates = reg.candidates
  BY <1>4, <1>5, SlotEffects
<1>7. /\ ~Revives /\ registry'.candidates = registry.candidates
      /\ \A u \in live' : u \in registry.pending \union {t} => u \in registry'.pending
  <2>1. Revoke({t}, F)
    BY <1>3
  <2> HIDE DEF t
  <2> QED BY <1>2, <1>6, <2>1, RevokedOrRetained DEF reg
<1>8. "saving" \in Pcs \ EndPcs /\ "idle" \notin EndPcs
  BY DEF Pcs, RefreshPcs, LockedPcs, EndPcs
<1>9. Step(o, "saving") \/ op' = [op EXCEPT ![o] = NoOp]
  BY <1>3 DEF BeginSave
<1>10. /\ op'[o].invalidate = {} /\ \A q \in Ops \ {o} : op'[q] = op[q]
  BY <1>1, <1>8, <1>9, StepIs, EndIs
<1>11. \A u : Carries(o, u) => u = t
  BY <1>1 DEF Carries
<1> HIDE DEF t
<1> QED BY <1>1, <1>7, <1>10, <1>11, OneMoves

LEMMA CustodyEndSession ==
    ASSUME Ground, CustodyInv, NEW r \in Refreshers, EndSession(r),
           op[r].pc \in {"reloaded", "rechecked"}, UNCHANGED <<registry, logout, serverVars>>
    PROVE  Keeps
<1> DEFINE rec == [op[r] EXCEPT !.pc = "ending", !.invalidate = {op[r].known}]
<1>1. r \in Ops /\ op[r] \in OpType /\ op \in [Ops -> OpType]
  BY GroundTypes DEF Ops, TypeInv, TypeOK
<1>2. op' = [op EXCEPT ![r] = rec]
  BY <1>1 DEF EndSession, EndWith
<1>3. rec.pc = "ending"
  BY <1>1 DEF OpType
<1> HIDE DEF rec
<1>4. op'[r].pc \in EndPcs /\ \A q \in Ops \ {r} : op'[q] = op[q]
  BY <1>1, <1>2, <1>3 DEF EndPcs
<1>5. \A t : ~Carries(r, t)
  BY <1>1 DEF Carries, CustodyInv, FreshPcs, EndPcs
<1>6. ~Revives
  BY DEF Revives
<1> QED BY <1>1, <1>4, <1>5, <1>6, OneMoves

LEMMA CustodyEndRevoked ==
    ASSUME Ground, CustodyInv, NEW r \in Refreshers, EndRevoked(r) PROVE Keeps
<1> DEFINE S == op[r].invalidate
<1>1. /\ r \in Ops /\ op[r].pc = "revoking" /\ logout' = logout /\ S \in SUBSET Tokens
      /\ op' = [op EXCEPT ![r] = NoOp]
  BY GroundTypes DEF EndRevoked, Ops, OpType
<1>2. PICK F \in SUBSET S :
         Revoke(S, F) /\ registry' = ReleaseReservation(Retained(registry, S, F), r)
  BY DEF EndRevoked
<1> DEFINE reg == Retained(registry, S, F)
<1>3. reg \in RegistryType(Ops, Tokens)
  <2>1. F \in SUBSET Tokens
    BY <1>1
  <2> HIDE DEF S
  <2> QED BY <2>1, RegistryKeeps, RetainedClosed
<1>4. registry'.pending = reg.pending /\ registry'.candidates = reg.candidates
  <2> HIDE DEF reg
  <2> QED BY <1>2, <1>3, SlotEffects DEF reg
<1>5. /\ ~Revives /\ registry'.candidates = registry.candidates
      /\ \A u \in live' : u \in registry.pending \union S => u \in registry'.pending
  <2> HIDE DEF S
  <2> QED BY <1>1, <1>2, <1>4, RevokedOrRetained DEF S
<1>6. /\ op'[r].invalidate = {} /\ \A q \in Ops \ {r} : op'[q] = op[q]
  BY <1>1, EndIs
<1>7. \A u : Carries(r, u) => u \in S
  BY <1>1 DEF Carries, FreshPcs
<1> HIDE DEF S
<1> QED BY <1>1, <1>5, <1>6, <1>7, OneMoves

\* The drain hands over what is in the registry.
LEMMA CustodyEndJobs ==
    ASSUME Ground, CustodyInv, StartEnd \/ FinishEnd PROVE Keeps
<1> DEFINE o == Head(queue).who
<1>1. /\ o \in Ops /\ op[o].pc = "ending" /\ op[o] \in OpType /\ op \in [Ops -> OpType]
      /\ logout' = logout /\ ~Revives
  BY HeadOwned, GroundTypes
     DEF StartEnd, FinishEnd, JobOwned, Ops, Ground, IInv, TypeInv, TypeOK, Revives
<1>2. CASE StartEnd
  <2> DEFINE rec == [op[o] EXCEPT !.invalidate = @ \union Drained(registry)]
  <2>1. /\ op' = [op EXCEPT ![o] = rec] /\ registry' = AfterDrain(registry)
    BY <1>1, <1>2 DEF StartEnd
  <2>2. /\ rec.pc = "ending" /\ rec.invalidate = op[o].invalidate \union Drained(registry)
    BY <1>1 DEF OpType
  <2> HIDE DEF o, rec
  <2>3. op'[o] = rec /\ \A q \in Ops \ {o} : op'[q] = op[q]
    BY <1>1, <2>1
  <2>4. registry'.pending = registry.pending
    BY <2>1, RegistryKeeps, DrainEffects
  <2>5. ASSUME NEW t, t \in registry.candidates \/ Carries(o, t) PROVE CarriesNext(o, t)
    BY <1>1, <2>2, <2>3, <2>5 DEF Carries, CarriesNext, FreshPcs, Drained
  <2>6. op'[o].pc \in EndPcs
    BY <2>2, <2>3 DEF EndPcs
  <2> QED BY <1>1, <2>3, <2>4, <2>5, <2>6, OneMoves
<1>3. CASE FinishEnd
  <2>1. PICK cleared \in BOOLEAN :
           op' = [op EXCEPT ![o].pc = "revoking", ![o].clearFailed = ~cleared]
    BY <1>3 DEF FinishEnd
  <2> DEFINE rec == [op[o] EXCEPT !.pc = "revoking", !.clearFailed = ~cleared]
  <2>2. /\ rec.pc = "revoking" /\ rec.invalidate = op[o].invalidate
        /\ op' = [op EXCEPT ![o] = rec]
    BY <1>1, <2>1 DEF OpType
  <2>3. registry' = registry
    BY <1>3 DEF FinishEnd
  <2> HIDE DEF o, rec
  <2>4. op'[o] = rec /\ \A q \in Ops \ {o} : op'[q] = op[q]
    BY <1>1, <2>2
  <2>5. \A t : Carries(o, t) => CarriesNext(o, t)
    BY <1>1, <2>2, <2>4 DEF Carries, CarriesNext, FreshPcs
  <2>6. op'[o].pc \in EndPcs
    BY <2>2, <2>4 DEF EndPcs
  <2> QED BY <1>1, <2>3, <2>4, <2>5, <2>6, OneMoves
<1> QED BY <1>2, <1>3

------------------------------------------------------------------------------
(* The logout hands on what it was asked to revoke *)

\* Nobody moves but the logout.
LEMMA LogoutMoves ==
    ASSUME Ground, CustodyInv, op' = op, ~Revives,
           logout'.pc \in {"idle", "rejecting"} => logout'.invalidate = {},
           logout'.pc \in {"settling", "finishing"} =>
              logout'.invalidate \intersect live' \subseteq registry'.pending,
           \A t \in live \intersect live' :
              t \in registry.candidates \union registry.pending \union logout.invalidate =>
                 t \in registry'.candidates \union registry'.pending \union logout'.invalidate
    PROVE  Keeps
<1>1. CustodyInv'
  BY DEF CustodyInv
<1>2. ASSUME NEW t \in live \intersect live', t \in Accounted PROVE t \in Accounted'
  <2>1. \A q \in Ops : Carries(q, t) => CarriesNext(q, t)
    BY DEF Carries, CarriesNext
  <2> QED BY <1>2, <2>1, AccountedIs
<1> QED BY <1>1, <1>2 DEF CustodyStep, Keeps

LEMMA CustodyLogoutStarts ==
    ASSUME Ground, CustodyInv, LogoutCall \/ LoginCancelled PROVE Keeps
<1>1. /\ op' = op /\ registry' = registry /\ ~Revives
      /\ logout.pc = "idle" /\ logout.invalidate = {}
  BY DEF LogoutCall, LoginCancelled, StartLogout, CustodyInv, Revives
<1>2. \/ logout'.pc = "rejecting" /\ logout'.invalidate = {}
      \/ logout'.pc = "clearing"
  BY DEF LogoutCall, LoginCancelled, StartLogout, NoLogout
<1> QED BY <1>1, <1>2, LogoutMoves

LEMMA CustodyLogoutClear ==
    ASSUME Ground, CustodyInv, StartLogoutClear \/ FinishLogoutClear PROVE Keeps
<1>1. /\ op' = op /\ ~Revives /\ logout.pc = "clearing" /\ logout \in LogoutType
  BY HeadOwned, GroundTypes
     DEF StartLogoutClear, FinishLogoutClear, JobOwned, Ground, IInv, TypeInv, TypeOK, Revives
<1>2. CASE StartLogoutClear
  <2>1. PICK read \in {None, storage} :
           logout' = [logout EXCEPT !.invalidate = @ \union Drained(registry)
                                                      \union ({read} \ {None})]
    BY <1>2 DEF StartLogoutClear
  <2>2. /\ logout'.pc = "clearing"
        /\ logout.invalidate \union Drained(registry) \subseteq logout'.invalidate
    BY <1>1, <2>1 DEF LogoutType
  <2> QED BY <1>1, <2>2, LogoutMoves DEF Drained
<1>3. CASE FinishLogoutClear
  <2>1. registry' = registry /\ logout'.pc = "revoking" /\ logout'.invalidate = logout.invalidate
    BY <1>1, <1>3 DEF FinishLogoutClear, LogoutType
  <2> QED BY <1>1, <2>1, LogoutMoves
<1> QED BY <1>2, <1>3

LEMMA CustodyLogoutStep ==
    ASSUME Ground, CustodyInv, LogoutRevoked \/ LogoutSettled \/ LogoutFinished PROVE Keeps
<1>1. op' = op /\ logout \in LogoutType
  BY GroundTypes DEF LogoutRevoked, LogoutSettled, LogoutFinished, TypeInv, TypeOK
<1>2. CASE LogoutRevoked
  <2> DEFINE S == logout.invalidate
  <2>1. PICK F \in SUBSET S : Revoke(S, F) /\ registry' = Retained(registry, S, F)
    BY <1>2 DEF LogoutRevoked
  <2>2. logout'.pc = "settling" /\ logout'.invalidate = S
    BY <1>1, <1>2 DEF LogoutRevoked, LogoutType
  <2>3. S \in SUBSET Tokens
    BY <1>1 DEF LogoutType
  <2> HIDE DEF S
  <2>4. /\ ~Revives /\ registry'.candidates = registry.candidates
        /\ \A u \in live' : u \in registry.pending \union S => u \in registry'.pending
    BY <2>1, <2>3, RevokedOrRetained
  <2> QED BY <1>1, <2>2, <2>4, LogoutMoves DEF S
<1>3. CASE LogoutSettled
  <2>1. /\ logout'.pc = "finishing" /\ logout'.invalidate = logout.invalidate
        /\ registry' = registry /\ ~Revives /\ live' = live
        /\ logout.pc \in {"settling", "rejecting"}
    BY <1>1, <1>3 DEF LogoutSettled, LogoutType, Revives
  <2>2. logout.invalidate \intersect live \subseteq registry.pending
    BY <2>1 DEF CustodyInv
  <2> QED BY <1>1, <2>1, <2>2, LogoutMoves
<1>4. CASE LogoutFinished
  <2>1. /\ logout'.pc = "idle" /\ logout'.invalidate = {} /\ registry' = registry
        /\ live' = live /\ ~Revives
    BY <1>4 DEF LogoutFinished, NoLogout, Revives
  <2>2. logout.invalidate \intersect live \subseteq registry.pending
    BY <1>4 DEF LogoutFinished, CustodyInv
  <2> QED BY <1>1, <2>1, <2>2, LogoutMoves
<1> QED BY <1>2, <1>3, <1>4

------------------------------------------------------------------------------
(* Every step keeps custody *)

LEMMA CustodyInit == Init => CustodyInv
<1> SUFFICES ASSUME Init PROVE CustodyInv
  OBVIOUS
<1>1. logout.pc = "idle" /\ logout.invalidate = {}
  BY DEF Init, NoLogout
<1>2. \A o \in Ops : op[o].invalidate = {}
  BY DEF Init, NoOp
<1> QED BY <1>1, <1>2 DEF CustodyInv

LEMMA CustodyContinue == ASSUME Ground, CustodyInv, NEW o \in Ops, Continue(o) PROVE Keeps
<1>1. ASSUME o \in Refreshers, Reloaded(o), op[o].got = None PROVE Keeps
  <2>1. /\ op[o].pc \in {"reloaded", "rechecked"} /\ EndSession(o)
        /\ UNCHANGED <<registry, logout, serverVars>>
    BY <1>1 DEF Reloaded
  <2> QED BY <1>1, <2>1, CustodyEndSession
<1>2. ASSUME o \in Refreshers, Rechecked(o), EndSession(o) PROVE Keeps
  <2>1. /\ op[o].pc \in {"reloaded", "rechecked"} /\ registry' = registry
        /\ UNCHANGED <<logout, serverVars>>
    <3> DEFINE rec == [op[o] EXCEPT !.pc = "ending", !.invalidate = {op[o].known}]
    <3>1. op[o] \in OpType /\ op \in [Ops -> OpType]
      BY GroundTypes DEF TypeInv, TypeOK
    <3>2. rec.pc = "ending" /\ op' = [op EXCEPT ![o] = rec]
      BY <1>2, <3>1 DEF EndSession, EndWith, OpType
    <3> HIDE DEF rec
    <3>3. op'[o].pc = "ending"
      BY <3>1, <3>2
    <3>4. ~Throw(o)
      BY <3>3, EndIs DEF Throw
    <3>5. registry' = registry /\ op[o].pc = "rechecked"
      BY <1>2, <3>4, Zenon DEF Rechecked
    <3>6. UNCHANGED <<logout, serverVars>>
      BY <1>2 DEF Rechecked
    <3> QED BY <3>5, <3>6
  <2> QED BY <1>2, <2>1, CustodyEndSession
<1>3. ASSUME o \in Refreshers, GotToken(o) \/ Loaded(o) \/ LockAcquired(o) \/ Reloaded(o)
      PROVE  Keeps
  BY <1>1, <1>3, CustodyLoads
<1>4. ASSUME o \in Refreshers, Rechecked(o) \/ EndRevoked(o) PROVE Keeps
  BY <1>2, <1>4, CustodyLast, CustodyEndRevoked
<1>5. CASE \/ Announced(o) \/ Dropped(o) \/ (o \in Updates /\ TokenUpdated(o))
  BY <1>5, CustodyLast
<1>7. CASE ReadStorage(o)
  BY <1>7, CustodyReadStorage
<1>8. CASE Saved(o) \/ SaveFailed(o)
  BY <1>8, CustodySaved
<1>6. CASE Answered(o) \/ Disowned(o)
  BY <1>6, CustodyAnswered, CustodyDisowned
<1> QED BY <1>3, <1>4, <1>5, <1>6, <1>7, <1>8 DEF Continue

LEMMA CustodyNext == ASSUME Ground, CustodyInv, [Next]_vars PROVE Keeps
<1>1. CASE Application
  <2>1. CASE BeginLogin
    <3>1. op' = op /\ registry' = registry /\ logout' = logout /\ ~Revives
      BY <2>1 DEF BeginLogin, Revives
    <3> QED BY <3>1, NobodyDrops, RegistryKeeps DEF Keeps
  <2>2. CASE LoginCancelled \/ LogoutCall
    BY <2>2, CustodyLogoutStarts
  <2>3. CASE \/ \E r \in Refreshers : GetTokenCall(r) \/ RefreshCall(r)
             \/ \E c \in Callbacks : CallbackCall(c)
    BY <2>3, CustodyCall, CustodyBegins DEF GetTokenCall, RefreshCall
  <2> QED BY <1>1, <2>1, <2>2, <2>3 DEF Application
<1>2. CASE \E o \in Ops : Continue(o)
  BY <1>2, CustodyContinue
<1>3. CASE StorageStep
  <2>1. CASE PeerClear
    <3>1. op' = op /\ registry' = registry /\ logout' = logout /\ ~Revives
      BY <2>1 DEF PeerClear, Revives
    <3> QED BY <3>1, NobodyDrops, RegistryKeeps DEF Keeps
  <2> QED BY <1>3, <2>1, CustodySaves, CustodyEndJobs, CustodyLogoutClear DEF StorageStep
<1>4. CASE LogoutStep
  BY <1>4, CustodyLogoutStep DEF LogoutStep
<1>5. CASE \E k \in PeerKeys : PeerClearSettled(k) \/ PeerLogoutSettled(k)
  <2>1. op' = op /\ registry' = registry /\ logout' = logout /\ ~Revives
    BY <1>5 DEF PeerClearSettled, PeerLogoutSettled, Revives
  <2> QED BY <2>1, NobodyDrops, RegistryKeeps DEF Keeps
<1>6. CASE Environment
  <2>1. CASE (\E o \in Ops : Serve(o)) \/ (\E u \in Updates : OnTokenUpdated(u))
    BY <2>1, CustodyServe, CustodyBegins
  <2>2. CASE \/ PeerRotates \/ (\E t \in Tokens : Expire(t))
             \/ \E k \in PeerKeys : PeerBegins(k) \/ OnSessionCleared(k) \/ OnLogout(k)
    <3>1. op' = op /\ registry' = registry /\ logout' = logout
      BY <2>2 DEF PeerRotates, Expire, PeerBegins, OnSessionCleared, OnLogout
    <3>2. minted \in Nat
      BY GroundTypes DEF TypeInv, TypeOK
    <3>3. live' \subseteq live \/ live' \subseteq live \union {minted + 1}
      BY <2>2 DEF PeerRotates, Expire, PeerBegins, OnSessionCleared, OnLogout
    <3>4. ~Revives
      BY <3>2, <3>3 DEF Revives
    <3> QED BY <3>1, <3>4, NobodyDrops, RegistryKeeps DEF Keeps
  <2> QED BY <1>6, <2>1, <2>2 DEF Environment
<1>7. CASE UNCHANGED vars
  <2>1. op' = op /\ registry' = registry /\ logout' = logout /\ ~Revives
    BY <1>7 DEF vars, Revives
  <2> QED BY <2>1, NobodyDrops, RegistryKeeps DEF Keeps
<1> QED BY <1>1, <1>2, <1>3, <1>4, <1>5, <1>6, <1>7 DEF Next

LEMMA CustodyHolds == Spec => [](IInv /\ CountInv /\ SessionInv /\ CustodyInv)
<1>1. Init => IInv /\ CountInv /\ SessionInv /\ CustodyInv
  BY InitIInv, CountInit, SessionInit, CustodyInit
<1>2. IInv /\ CountInv /\ SessionInv /\ CustodyInv /\ [Next]_vars
         => IInv' /\ CountInv' /\ SessionInv' /\ CustodyInv'
  BY GroundNext, CustodyNext DEF Ground, Keeps
<1> QED BY <1>1, <1>2, PTL DEF Spec

\* A credential that is alive at the server and that the page accounts for leaves its
\* custody in one way only: the operation that saved it takes it for the session's.
CustodyEndsByAdoption ==
    [][\A t \in live \intersect live' :
          t \in Accounted => t \in Accounted' \union {storage', degraded'} \/ Adopts(t)]_vars

\* No drain, no orphan's revocation, no save that fails or is undone, no logout that fails
\* half way and no message of another tab loses a credential that is alive: each hands on
\* what it held (drainForInvalidation(), retain(), revokeWithOutcomes() of client.ts).
THEOREM CustodyHandedOn == Spec => CustodyEndsByAdoption
<1>1. IInv /\ CountInv /\ SessionInv /\ CustodyInv /\ [Next]_vars => [CustodyStep]_vars
  BY GroundNext, CustodyNext DEF Ground, Keeps
<1>2. Spec => [][CustodyStep]_vars
  BY CustodyHolds, <1>1, PTL DEF Spec
<1> QED BY <1>2 DEF CustodyStep, CustodyEndsByAdoption

------------------------------------------------------------------------------
(* The sessions that another tab's clear spares *)

\* Another tab's operation keeps this tab shut, and began after the session of this tab.
Held(i) == queue[i].who \in gate.blockers /\ StartedAfterOurSession(queue[i].who)

\* A logout has passed it: storage is empty, and no save that comes before it can start.
Overtaken(i) ==
    /\ storage = None /\ ~Saving
    /\ \A j \in DOMAIN queue : j < i /\ queue[j].kind = "save" => ~Valid(queue[j].who)

NewerInv ==
    /\ \A i \in PeerJobs : Held(i) \/ Overtaken(i)
    /\ \A k \in TrackedKeys : StartedAfterOurSession(k)
    /\ \A k \in PeerKeys : ~peer[k].begun =>
          ~tracked[k].on /\ \A i \in PeerJobs : queue[i].who # k

\* The clear of a peer operation comes before its logout, which is its last job.
OrderInv ==
    /\ \A i, j \in PeerJobs :
          queue[i].kind = "peerLogout" /\ queue[j].kind = "peerClear"
              /\ queue[i].who = queue[j].who => j < i
    /\ \A s \in settling : s.job.kind = "peerLogout" =>
          \A i \in PeerJobs : queue[i].who # s.job.who

\* Where the jobs of the queue were, up to i.
Shifted(i, d) == \A j \in 1..i : j + d \in DOMAIN queue /\ queue'[j] = queue[j + d]

LEMMA TailShifts ==
    ASSUME Ground, queue # <<>>, queue' = Tail(queue)
    PROVE  \A i \in DOMAIN queue' : Shifted(i, 1)
<1>1. queue \in Seq(JobType) /\ Len(queue) \in Nat \ {0}
  BY GroundTypes
<1>2. /\ DOMAIN queue' = 1..(Len(queue) - 1) /\ DOMAIN queue = 1..Len(queue)
      /\ \A i \in DOMAIN queue' : queue'[i] = queue[i + 1] /\ i + 1 \in DOMAIN queue
  BY <1>1
<1>3. \A i \in DOMAIN queue' : \A j \in 1..i : j \in DOMAIN queue'
  BY <1>1, <1>2
<1> QED BY <1>2, <1>3 DEF Shifted

LEMMA QueueGrows ==
    ASSUME Ground, NEW job, queue' = Append(queue, job)
    PROVE  /\ DOMAIN queue' = DOMAIN queue \union {Len(queue) + 1}
           /\ queue'[Len(queue) + 1] = job /\ Len(queue) + 1 \notin DOMAIN queue
           /\ \A i \in DOMAIN queue : Shifted(i, 0) /\ i < Len(queue) + 1 /\ queue'[i] = queue[i]
<1>1. queue \in Seq(JobType) /\ Len(queue) \in Nat /\ DOMAIN queue = 1..Len(queue)
  BY GroundTypes
<1>2. /\ DOMAIN queue' = 1..(Len(queue) + 1)
      /\ \A i \in DOMAIN queue : queue'[i] = queue[i]
      /\ queue'[Len(queue) + 1] = job
  BY <1>1
<1>3. \A i \in DOMAIN queue : \A j \in 1..i : j \in DOMAIN queue /\ j + 0 = j
  BY <1>1
<1>4. \A i \in DOMAIN queue : Shifted(i, 0)
  BY <1>2, <1>3 DEF Shifted
<1> QED BY <1>1, <1>2, <1>4

\* No save starts ahead of what has been overtaken.
SavesLater(d) ==
    /\ storage' \in {None, storage} \/ Saving
    /\ Saving' => Saving \/ (d = 0 /\ NextJob("save") /\ Valid(Head(queue).who))

LEMMA OvertakenStays ==
    ASSUME Ground, CutStep, NEW d \in {0, 1}, SavesLater(d), NEW i \in DOMAIN queue',
           i \in Nat \ {0}, Shifted(i, d), Overtaken(i + d), queue'[i].kind # "save"
    PROVE  Overtaken(i)'
<1>1. \A j \in DOMAIN queue' : j \in Nat \ {0}
  BY DEF Ground, IInv, TypeInv, TypeOK
<1>2. storage' = None
  BY DEF Overtaken, SavesLater
<1>3. ~Saving'
  <2> SUFFICES ASSUME Saving' PROVE FALSE
    OBVIOUS
  <2>1. d = 0 /\ NextJob("save") /\ Valid(Head(queue).who)
    BY DEF Overtaken, SavesLater
  <2>2. 1 \in DOMAIN queue /\ queue[1] = Head(queue) /\ Head(queue).kind = "save"
    BY <2>1, HeadOwned DEF Ground, IInv
  <2>3. queue'[1] = queue[1]
    BY <2>1 DEF Shifted
  <2>4. 1 < i
    BY <2>2, <2>3
  <2> QED BY <2>1, <2>2, <2>4 DEF Overtaken
<1>4. ASSUME NEW j \in DOMAIN queue', j < i, queue'[j].kind = "save"
      PROVE  ~StillValid(gate', op'[queue'[j].who].lease)
  <2>1. j + d \in DOMAIN queue /\ queue'[j] = queue[j + d] /\ j + d < i + d
    BY <1>1, <1>4 DEF Shifted
  <2>2. PICK o \in Ops : o = queue[j + d].who
    BY <1>4, <2>1, JobTypes, GroundTypes
  <2>6. ~Valid(o)
    BY <1>4, <2>1, <2>2 DEF Overtaken
  <2>3. /\ op[o].pc \in {"saving", "undoing"} /\ op'[o].pc \in {"saving", "undoing"}
    BY <1>4, <2>1, <2>2 DEF Ground, IInv, QueueInv, JobOwned
  <2>4. ~Valid(o)'
    BY <2>3, <2>6 DEF CutStep, Active
  <2>5. queue'[j].who = o
    BY <2>1, <2>2
  <2> QED BY <2>4, <2>5 DEF Valid
<1> QED BY <1>2, <1>3, <1>4 DEF Overtaken, Valid

\* What another tab's operation says of the session of this tab goes on being so.
StillEarlier ==
    /\ \A k \in PeerKeys : peer[k].begun => peer'[k] = peer[k]
    /\ established' \in {established, 0} \/ ~Blocked(gate)

LEMMA EarlierStays ==
    ASSUME StillEarlier, Blocked(gate), NEW k \in PeerKeys, peer[k].begun,
           StartedAfterOurSession(k)
    PROVE  StartedAfterOurSession(k)'
BY DEF StillEarlier, StartedAfterOurSession

\* The blocks of other tabs stay as long as their jobs wait.
BlocksStay ==
    \A k \in PeerKeys : k \in gate.blockers =>
       k \in gate'.blockers \/ \A i \in PeerJobs : queue[i].who # k

LEMMA JobWaits ==
    ASSUME Ground, NewerInv, CutStep, StillEarlier, BlocksStay, NEW d \in {0, 1}, SavesLater(d),
           NEW i \in PeerJobsOf(queue'), Shifted(i, d)
    PROVE  Held(i)' \/ Overtaken(i)'
<1>1. i \in DOMAIN queue' /\ i \in Nat \ {0} /\ queue'[i].kind \in PeerKinds
  BY DEF PeerJobsOf, Ground, IInv, TypeInv, TypeOK
<1>2. i + d \in PeerJobs /\ queue'[i] = queue[i + d] /\ queue[i + d].who \in PeerKeys
  BY <1>1, JobTypes, GroundTypes DEF Shifted, PeerJobs, PeerKinds
<1>5. PICK k \in PeerKeys : k = queue[i + d].who
  BY <1>2
<1>3. CASE Held(i + d)
  <2>1. Blocked(gate) /\ k \in gate.blockers /\ StartedAfterOurSession(k)
    BY <1>3, <1>5 DEF Held, Blocked
  <2>2. peer[k].begun
    BY <1>2, <1>5 DEF NewerInv
  <2>3. queue'[i].who = k
    BY <1>2, <1>5
  <2>4. StartedAfterOurSession(k)'
    BY <2>1, <2>2, EarlierStays
  <2> QED BY <1>2, <1>5, <2>1, <2>3, <2>4 DEF Held, BlocksStay, StartedAfterOurSession
<1>4. CASE Overtaken(i + d)
  BY <1>1, <1>4, OvertakenStays DEF PeerKinds
<1> QED BY <1>2, <1>3, <1>4 DEF NewerInv

\* What is tracked goes on being tracked, or is not any more.
LEMMA TrackedWait ==
    ASSUME Ground, NewerInv, StillEarlier,
           NEW k \in PeerKeys, tracked'[k].on, tracked[k].on
    PROVE  StartedAfterOurSession(k)'
<1>1. k \in TrackedKeys /\ peer[k].begun
  BY DEF TrackedKeys, NewerInv
<1>2. Blocked(gate) /\ StartedAfterOurSession(k)
  BY <1>1 DEF NewerInv, Ground, IInv, PeerInv, Blocked
<1> QED BY <1>1, <1>2, EarlierStays

\* A step that honours no message of another tab.
LEMMA NewerStays ==
    ASSUME Ground, NewerInv, OrderInv, CutStep, StillEarlier, BlocksStay,
           \A k \in PeerKeys : peer[k].begun => peer'[k].begun,
           \A k \in PeerKeys : tracked'[k].on => tracked[k].on,
           settling' \subseteq settling,
           NEW d \in {0, 1}, SavesLater(d), \A i \in PeerJobsOf(queue') : Shifted(i, d)
    PROVE  NewerInv' /\ OrderInv'
<1>1. PeerJobs' = PeerJobsOf(queue')
  BY DEF PeerJobs, PeerJobsOf, PeerKinds
<1>2. ASSUME NEW i \in PeerJobs'
      PROVE  /\ i \in Nat \ {0} /\ i + d \in PeerJobs /\ queue'[i] = queue[i + d]
             /\ queue'[i].who \in PeerKeys
  <2>1. i \in DOMAIN queue' /\ i \in Nat \ {0} /\ queue'[i].kind \in PeerKinds
    BY <1>1, <1>2 DEF PeerJobsOf, Ground, IInv, TypeInv, TypeOK
  <2>2. Shifted(i, d)
    BY <1>1, <1>2
  <2> QED BY <2>1, <2>2, JobTypes, GroundTypes DEF Shifted, PeerJobs, PeerKinds
<1>3. \A i \in PeerJobs' : Held(i)' \/ Overtaken(i)'
  BY <1>1, JobWaits
<1>4. \A k \in TrackedKeys' : StartedAfterOurSession(k)'
  BY TrackedWait DEF TrackedKeys
<1>5. \A k \in PeerKeys : ~peer'[k].begun =>
         ~tracked'[k].on /\ \A i \in PeerJobs' : queue'[i].who # k
  BY <1>2 DEF NewerInv
<1>6. NewerInv'
  <2>1. \A i \in PeerJobs' : Held(i)' \/ Overtaken(i)'
    BY <1>3
  <2> QED BY <1>4, <1>5, <2>1 DEF NewerInv
<1>7. OrderInv'
  <2>1. ASSUME NEW i \in PeerJobs', NEW j \in PeerJobs', queue'[i].who = queue'[j].who,
               queue'[i].kind = "peerLogout", queue'[j].kind = "peerClear"
        PROVE  j < i
    <3>1. j + d < i + d
      BY <1>2, <2>1 DEF OrderInv
    <3> QED BY <1>2, <3>1
  <2>2. ASSUME NEW s \in settling', s.job.kind = "peerLogout", NEW i \in PeerJobs'
        PROVE  queue'[i].who # s.job.who
    BY <1>2, <2>2 DEF OrderInv
  <2> QED BY <2>1, <2>2 DEF OrderInv
<1> QED BY <1>6, <1>7

\* No message of another tab is queued, and a save that starts belongs to the session.
QueueCalm ==
    \/ /\ running' = running
       /\ \/ queue' = queue
          \/ \E job \in JobType : job.kind \notin PeerKinds /\ queue' = Append(queue, job)
    \/ queue # <<>> /\ queue' = Tail(queue) /\ ~running'
    \/ queue' = queue /\ (NextJob("save") => Valid(Head(queue).who))

\* A step of this tab alone.
Homely ==
    /\ UNCHANGED <<peer, settling, tracked>>
    /\ storage' \in {None, storage} \/ Saving
    /\ established' \in {established, 0} \/ ~Blocked(gate)
    /\ BlocksStay /\ QueueCalm

Spares == NewerInv' /\ OrderInv'

LEMMA CalmShifts ==
    ASSUME Ground, QueueCalm, storage' \in {None, storage} \/ Saving
    PROVE  \E d \in {0, 1} : SavesLater(d) /\ \A i \in PeerJobsOf(queue') : Shifted(i, d)
<1>1. CASE running' = running /\ \E job \in JobType :
              job.kind \notin PeerKinds /\ queue' = Append(queue, job)
  <2>1. PICK job \in JobType : job.kind \notin PeerKinds /\ queue' = Append(queue, job)
    BY <1>1
  <2>2. Saving' => Saving
    BY <1>1, SavingStays DEF QueueGoesOn
  <2>3. \A i \in PeerJobsOf(queue') : i \in DOMAIN queue
    BY <2>1, QueueGrows DEF PeerJobsOf
  <2>4. \A i \in PeerJobsOf(queue') : Shifted(i, 0)
    BY <2>1, <2>3, QueueGrows
  <2> QED BY <2>2, <2>4 DEF SavesLater
<1>2. CASE queue' = queue
  <2>1. \A i \in DOMAIN queue : Shifted(i, 0)
    <3>1. \A i \in DOMAIN queue : \A j \in 1..i : j + 0 = j /\ j \in DOMAIN queue
      BY GroundTypes
    <3> QED BY <1>2, <3>1 DEF Shifted
  <2>2. Saving' => Saving \/ (NextJob("save") /\ Valid(Head(queue).who))
    BY <1>2 DEF QueueCalm, Saving, NextJob
  <2> QED BY <1>2, <2>1, <2>2 DEF SavesLater, PeerJobsOf
<1>3. CASE queue # <<>> /\ queue' = Tail(queue) /\ ~running'
  <2>1. \A i \in DOMAIN queue' : Shifted(i, 1)
    BY <1>3, TailShifts
  <2>2. ~Saving'
    BY <1>3 DEF Saving
  <2> QED BY <2>1, <2>2 DEF SavesLater, PeerJobsOf
<1> QED BY <1>1, <1>2, <1>3 DEF QueueCalm

LEMMA HomelyKeeps ==
    ASSUME Ground, NewerInv, OrderInv, CutStep, Homely
    PROVE  Spares
<1>1. PICK d \in {0, 1} : SavesLater(d) /\ \A i \in PeerJobsOf(queue') : Shifted(i, d)
  BY CalmShifts DEF Homely
<1>2. StillEarlier
  BY DEF Homely, StillEarlier
<1> QED BY <1>1, <1>2, NewerStays DEF Homely, Spares

------------------------------------------------------------------------------
(* The steps of this tab spare a newer session *)

\* The gate, the storage and the other tabs are left alone.
LEMMA HomelyQuiet ==
    ASSUME UNCHANGED <<gate, storage, established, peer, settling, tracked>>, QueueCalm
    PROVE  Homely
BY DEF Homely, BlocksStay

LEMMA NewerCalls ==
    ASSUME \/ \E r \in Refreshers : GetTokenCall(r) \/ RefreshCall(r)
           \/ \E c \in Callbacks : CallbackCall(c)
           \/ \E o \in Ops : Serve(o)
           \/ \E u \in Updates : OnTokenUpdated(u)
           \/ \E t \in Tokens : Expire(t)
           \/ UNCHANGED vars
    PROVE  Homely
<1>1. UNCHANGED <<gate, storage, established, peer, settling, tracked, queue, running>>
  BY DEF GetTokenCall, RefreshCall, Call, CallbackCall, Serve, OnTokenUpdated, Expire, vars
<1> QED BY <1>1, HomelyQuiet DEF QueueCalm

LEMMA NewerReads ==
    ASSUME NEW o \in Ops, \/ ReadStorage(o) \/ GotToken(o) \/ Loaded(o) \/ LockAcquired(o)
                          \/ Announced(o) \/ Dropped(o) \/ TokenUpdated(o)
    PROVE  Homely
<1>1. UNCHANGED <<gate, storage, established, peer, settling, tracked, queue, running>>
  BY DEF ReadStorage, GotToken, Loaded, LockAcquired, Announced, Dropped, TokenUpdated,
         AdoptLoaded
<1> QED BY <1>1, HomelyQuiet DEF QueueCalm

LEMMA NewerSaved ==
    ASSUME NEW o \in Ops, Saved(o) \/ SaveFailed(o)
    PROVE  Homely
<1>1. /\ UNCHANGED <<gate, storage, peer, settling, tracked, queue, running>>
      /\ established' = established \/ Valid(o)
  BY DEF Saved, SaveFailed, Adopted
<1> QED BY <1>1 DEF Homely, BlocksStay, QueueCalm, Valid, StillValid

LEMMA NewerJob ==
    ASSUME NEW kind \in OwnKinds, NEW o \in Ops \union {"logout"}, Job(kind, o, 0) \in JobType,
           Enqueue(Job(kind, o, 0))
    PROVE  QueueCalm
<1>1. Job(kind, o, 0).kind \notin PeerKinds
  BY DEF Job, OwnKinds, PeerKinds
<1> QED BY <1>1 DEF QueueCalm, Enqueue

LEMMA NewerAnswered ==
    ASSUME Ground, NEW o \in Ops, Answered(o) PROVE Homely
<1>1. UNCHANGED <<gate, storage, established, peer, settling, tracked>>
  BY DEF Answered
<1>2. Job("save", o, 0) \in JobType
  BY DEF Job, JobType
<1>3. QueueCalm
  <2>1. Enqueue(Job("save", o, 0)) \/ (queue' = queue /\ running' = running)
    BY DEF Answered, BeginSave
  <2> QED BY <1>2, <2>1, NewerJob DEF OwnKinds, QueueCalm
<1> QED BY <1>1, <1>3, HomelyQuiet

LEMMA SyncKeepsPeers ==
    ASSUME NEW g \in GateType(Blocks), NEW reg, NEW k \in PeerKeys, k \in g.blockers
    PROVE  k \in SyncPending(g, reg).blockers
BY SyncBounds, BlockNames

LEMMA NewerDisowned ==
    ASSUME Ground, NEW o \in Ops, Disowned(o) PROVE Homely
<1>1. UNCHANGED <<storage, established, peer, settling, tracked>>
  BY DEF Disowned
<1>2. Job("save", o, 0) \in JobType
  BY DEF Job, JobType
<1>3. QueueCalm
  <2>1. Enqueue(Job("save", o, 0)) \/ (queue' = queue /\ running' = running)
    BY DEF Disowned, BeginSave
  <2> QED BY <1>2, <2>1, NewerJob DEF OwnKinds, QueueCalm
<1>4. BlocksStay
  <2>1. PICK reg : gate' = SyncPending(gate, reg)
    BY DEF Disowned
  <2> QED BY <2>1, SyncKeepsPeers, GroundTypes DEF BlocksStay
<1> QED BY <1>1, <1>3, <1>4 DEF Homely

LEMMA NewerEnds ==
    ASSUME Ground, NEW r \in Refreshers, Reloaded(r) \/ Rechecked(r) PROVE Homely
<1>1. UNCHANGED <<storage, established, peer, settling, tracked>>
  BY DEF Reloaded, Rechecked, AdoptLoaded
<1>2. EndSession(r) \/ (UNCHANGED <<gate, queue, running>>)
  BY DEF Reloaded, Rechecked
<1>3. CASE EndSession(r)
  <2>1. /\ gate' = BeginPendingOp(Terminate(BlockLocal(gate, r)))
        /\ Enqueue(Job("end", r, 0))
    BY <1>3 DEF EndSession, EndWith
  <2>2. r \in Ops /\ r \in Blocks /\ Job("end", r, 0) \in JobType
    BY DEF Ops, Blocks, Job, JobType
  <2>3. QueueCalm
    BY <2>1, <2>2, NewerJob DEF OwnKinds
  <2>4. BlocksStay
    <3> DEFINE g == BlockLocal(gate, r)
               h == Terminate(g)
    <3>1. g \in GateType(Blocks) /\ g.blockers = gate.blockers \union {r}
      BY <2>2, GateClosed, GateEffects, GroundTypes
    <3> HIDE DEF g
    <3>2. h \in GateType(Blocks) /\ h.blockers = g.blockers
      BY <2>2, <3>1, GateClosed, GateEffects
    <3> HIDE DEF h
    <3>3. BeginPendingOp(h).blockers = h.blockers
      BY <2>2, <3>2, GateEffects
    <3> QED BY <2>1, <3>1, <3>2, <3>3 DEF BlocksStay, g, h
  <2> QED BY <1>1, <2>3, <2>4 DEF Homely
<1>4. CASE UNCHANGED <<gate, queue, running>>
  BY <1>1, <1>4, HomelyQuiet DEF QueueCalm
<1> QED BY <1>2, <1>3, <1>4

LEMMA NewerEndRevoked ==
    ASSUME Ground, NEW r \in Refreshers, EndRevoked(r) PROVE Homely
<1>1. UNCHANGED <<storage, established, peer, settling, tracked, queue, running>>
  BY DEF EndRevoked
<1>2. PICK reg : LET g == EndPendingOp(SyncPending(gate, reg)) IN
         gate' = ReleaseLocal(IF op[r].clearFailed THEN RetainTerminalFailure(g) ELSE g, r)
  BY DEF EndRevoked
<1>3. BlocksStay
  <2> DEFINE s == SyncPending(gate, reg)
             g == EndPendingOp(s)
             h == IF op[r].clearFailed THEN RetainTerminalFailure(g) ELSE g
  <2>1. s \in GateType(Blocks) /\ \A k \in PeerKeys : k \in gate.blockers => k \in s.blockers
    BY SyncKeepsPeers, SyncBounds, GroundTypes
  <2>2. r \in Blocks /\ "terminalFailure" \in Blocks /\ r \notin PeerKeys
    BY BlockNames DEF Blocks
  <2> HIDE DEF s
  <2>3. g \in GateType(Blocks) /\ g.blockers = s.blockers
    BY <2>1, <2>2, GateClosed, GateEffects
  <2> HIDE DEF g
  <2>4. h \in GateType(Blocks) /\ g.blockers \subseteq h.blockers
    BY <2>2, <2>3, GateClosed, GateEffects DEF RetainTerminalFailure
  <2>5. gate' = ReleaseLocal(h, r)
    BY <1>2 DEF h, g, s
  <2> HIDE DEF h
  <2>6. gate'.blockers = h.blockers \ {r}
    BY <2>2, <2>4, <2>5, GateEffects
  <2> QED BY <2>1, <2>2, <2>3, <2>4, <2>6 DEF BlocksStay
<1> QED BY <1>1, <1>3 DEF Homely, QueueCalm

LEMMA NewerContinue == ASSUME Ground, NEW o \in Ops, Continue(o) PROVE Homely
<1>1. CASE \/ ReadStorage(o) \/ GotToken(o) \/ Loaded(o) \/ LockAcquired(o)
           \/ Announced(o) \/ Dropped(o) \/ TokenUpdated(o)
  BY <1>1, NewerReads
<1>2. CASE Saved(o) \/ SaveFailed(o) \/ Answered(o) \/ Disowned(o)
  BY <1>2, NewerSaved, NewerAnswered, NewerDisowned
<1>3. CASE o \in Refreshers /\ (Reloaded(o) \/ Rechecked(o) \/ EndRevoked(o))
  BY <1>3, NewerEnds, NewerEndRevoked
<1> QED BY <1>1, <1>2, <1>3 DEF Continue

\* The jobs of this tab.
LEMMA NewerStorage ==
    ASSUME Ground, \/ StartSave \/ FinishSave \/ UndoSave \/ StartEnd \/ FinishEnd
                   \/ StartLogoutClear \/ FinishLogoutClear
    PROVE  Homely
<1>1. UNCHANGED <<gate, established, peer, settling, tracked>>
  BY DEF StartSave, FinishSave, UndoSave, StartEnd, FinishEnd, StartLogoutClear,
         FinishLogoutClear
<1>2. storage' \in {None, storage} \/ Saving
  BY DEF StartSave, FinishSave, UndoSave, StartEnd, FinishEnd, StartLogoutClear,
         FinishLogoutClear, Saving
<1>3. QueueCalm
  <2>1. CASE StartSave
    BY <2>1 DEF StartSave, Dequeue, NextJob, QueueCalm
  <2>2. CASE FinishSave \/ UndoSave
    BY <2>2 DEF FinishSave, UndoSave, SaveLanded, SaveRejected, Dequeue, NextJob, QueueCalm
  <2>3. CASE StartEnd \/ StartLogoutClear
    BY <2>3 DEF StartEnd, StartLogoutClear, NextJob, QueueCalm
  <2>4. CASE FinishEnd \/ FinishLogoutClear
    BY <2>4 DEF FinishEnd, FinishLogoutClear, Dequeue, NextJob, QueueCalm
  <2> QED BY <2>1, <2>2, <2>3, <2>4
<1> QED BY <1>1, <1>2, <1>3 DEF Homely, BlocksStay

------------------------------------------------------------------------------
(* The logout, and a login *)

LEMMA LogoutStartsCalm ==
    ASSUME NEW g, StartLogout(g) PROVE QueueCalm
<1>1. Job("logout", "logout", 0) \in JobType
  BY DEF Job, JobType
<1>2. (queue' = queue /\ running' = running) \/ Enqueue(Job("logout", "logout", 0))
  BY DEF StartLogout
<1> QED BY <1>1, <1>2, NewerJob DEF OwnKinds, QueueCalm

LEMMA NewerLogout ==
    ASSUME Ground, \/ LogoutCall \/ LogoutRevoked \/ LogoutFinished
                   \/ (LogoutSettled /\ ~(logout.pc = "settling" /\ logout.complete))
    PROVE  Homely
<1>1. UNCHANGED <<storage, established, peer, settling, tracked>>
  BY DEF LogoutCall, LogoutRevoked, LogoutFinished, LogoutSettled
<1>2. QueueCalm
  BY LogoutStartsCalm DEF LogoutCall, LogoutRevoked, LogoutFinished, LogoutSettled, QueueCalm
<1>3. {"logout", "logoutFailed"} \subseteq Blocks /\ "logout" \notin PeerKeys
  BY BlockNames DEF Blocks
<1>4. BlocksStay
  <2>1. CASE LogoutCall
    <3>1. gate' = BlockLocal(gate, "logout")
      BY <2>1 DEF LogoutCall, StartLogout
    <3> QED BY <1>3, <3>1, GateEffects, GroundTypes DEF BlocksStay
  <2>2. CASE LogoutRevoked
    <3>1. gate' = gate \/ gate' = SyncPending(gate, registry')
      BY <2>2 DEF LogoutRevoked
    <3> QED BY <3>1, SyncKeepsPeers, GroundTypes DEF BlocksStay
  <2>3. CASE LogoutFinished
    <3>1. gate' = ReleaseLocal(gate, "logout")
      BY <2>3 DEF LogoutFinished
    <3>2. gate'.blockers = gate.blockers \ {"logout"}
      BY <1>3, <3>1, GateEffects, GroundTypes
    <3> QED BY <1>3, <3>2 DEF BlocksStay
  <2>4. CASE LogoutSettled /\ ~(logout.pc = "settling" /\ logout.complete)
    <3> DEFINE g == Terminate(gate)
    <3>1. gate' = g \/ gate' = BlockRetained(g, "logoutFailed")
      BY <2>4 DEF LogoutSettled
    <3>2. g \in GateType(Blocks) /\ g.blockers = gate.blockers
      BY <1>3, GateClosed, GateEffects, GroundTypes
    <3> HIDE DEF g
    <3>3. gate.blockers \subseteq gate'.blockers
      BY <1>3, <3>1, <3>2, GateEffects
    <3> QED BY <3>3 DEF BlocksStay
  <2> QED BY <2>1, <2>2, <2>3, <2>4
<1> QED BY <1>1, <1>2, <1>4 DEF Homely

\* A logout that completes has emptied storage, and nothing that was queued before it
\* is of its generation.
LEMMA NewerLogoutSettled ==
    ASSUME Ground, NewerInv, OrderInv, LogoutSettled, logout.pc = "settling", logout.complete
    PROVE  Spares
<1>1. /\ UNCHANGED <<storage, peer, settling, queue, running, op>> /\ established' = 0
      /\ \A k \in PeerKeys : ~tracked'[k].on
      /\ gate' = SyncPending(Release(Terminate(gate), ResolvedBlocks), registry)
  BY DEF LogoutSettled, ResolveAllRecoveryBlocks, Untracked
<1>2. storage = None /\ ~Saving
  BY DEF Ground, SessionInv, LogoutInv
<1>3. gate'.generation = gate.generation + 1
  <2> DEFINE g == Terminate(gate)
             h == Release(g, ResolvedBlocks)
  <2>1. "logoutFailed" \in Blocks
    BY DEF Blocks
  <2>2. g \in GateType(Blocks) /\ g.generation = gate.generation + 1
    BY <2>1, GateClosed, GateEffects, GroundTypes
  <2> HIDE DEF g
  <2>3. h \in GateType(Blocks) /\ h.generation = g.generation
    BY <2>1, <2>2, GateEffects, ReleaseCounts
  <2>4. gate' = SyncPending(h, registry)
    BY <1>1 DEF h, g
  <2> HIDE DEF h
  <2> QED BY <2>2, <2>3, <2>4, SyncBounds
<1>4. \A o \in Ops : ~StillValid(gate', op'[o].lease)
  BY <1>1, <1>3, GroundTypes DEF StillValid
<1>5. PeerJobs' = PeerJobs
  BY <1>1 DEF PeerJobs
<1>6. ~Saving'
  BY <1>1, <1>2 DEF Saving, NextJob
<1>7. ASSUME NEW i \in PeerJobs' PROVE Overtaken(i)'
  <2>1. \A j \in DOMAIN queue : queue[j].kind = "save" => queue[j].who \in Ops
    BY JobTypes, GroundTypes
  <2> QED BY <1>1, <1>2, <1>4, <1>6, <2>1 DEF Overtaken, Valid
<1>8. NewerInv'
  <2>1. \A i \in PeerJobs' : Held(i)' \/ Overtaken(i)'
    BY <1>7
  <2>2. TrackedKeys' = {}
    BY <1>1 DEF TrackedKeys
  <2>3. \A k \in PeerKeys : ~peer'[k].begun =>
           ~tracked'[k].on /\ \A i \in PeerJobs' : queue'[i].who # k
    BY <1>1, <1>5 DEF NewerInv
  <2> QED BY <2>1, <2>2, <2>3 DEF NewerInv
<1>9. OrderInv'
  BY <1>1, <1>5 DEF OrderInv
<1> QED BY <1>8, <1>9 DEF Spares

\* A tab that may log in waits for no other tab.
LEMMA NewerLogin ==
    ASSUME Ground, NewerInv, OrderInv, CutStep, BeginLogin \/ LoginCancelled
    PROVE  Spares
<1>1. ~Blocked(gate) /\ gate.pendingOps = 0
  <2>1. gate.pendingOps \in Nat
    BY GroundTypes DEF GateType
  <2> QED BY <2>1 DEF BeginLogin, LoginCancelled, LoginAllowed, LifecycleBusy
<1>2. PeerJobs = {} /\ settling = {}
  <2>1. IsFiniteSet(PeerJobs) /\ Cardinality(PeerJobs) \in Nat
    BY PeerJobsFinite, PeerJobsAre, GroundTypes
  <2>2. IsFiniteSet(settling) /\ IsFiniteSet(Ending) /\ GateAccounting
    BY DEF Ground, CountInv
  <2>3. Cardinality(settling) \in Nat /\ Cardinality(Ending) \in Nat
    BY <2>2, FS_CardinalityType
  <2>4. Cardinality(PeerJobs) = 0 /\ Cardinality(settling) = 0
    BY <1>1, <2>1, <2>2, <2>3 DEF GateAccounting
  <2> QED BY <2>1, <2>2, <2>4, FS_EmptySet
<1>3. /\ UNCHANGED <<storage, established, peer, settling>>
      /\ \A k \in PeerKeys : tracked'[k].on => tracked[k].on
      /\ QueueCalm
  <2>1. QueueCalm
    BY LogoutStartsCalm DEF BeginLogin, LoginCancelled, QueueCalm
  <2>2. RetirePeerOperations /\ UNCHANGED <<storage, established>>
    BY DEF BeginLogin, LoginCancelled
  <2>3. \A k \in PeerKeys : tracked'[k].on => tracked[k].on
    BY <2>2 DEF RetirePeerOperations, Untracked
  <2> QED BY <2>1, <2>2, <2>3 DEF RetirePeerOperations
<1>4. PICK d \in {0, 1} : SavesLater(d) /\ \A i \in PeerJobsOf(queue') : Shifted(i, d)
  BY <1>3, CalmShifts
<1>5. StillEarlier /\ BlocksStay
  BY <1>1, <1>3 DEF StillEarlier, BlocksStay, Blocked
<1> QED BY <1>3, <1>4, <1>5, NewerStays DEF Spares

------------------------------------------------------------------------------
(* The messages of other tabs *)

\* A message that is honoured is about a session that is not newer, and blocks.
LEMMA NewerHonoured ==
    ASSUME Ground, NewerInv, OrderInv, CutStep, NEW k \in PeerKeys, NEW kind \in PeerKinds,
           NEW epoch \in Nat, BlockForPeer(k), Enqueue(Job(kind, k, epoch)),
           peer[k].begun, k \notin retired, StartedAfterOurSession(k),
           UNCHANGED <<peer, settling, established, storage>>,
           \A q \in PeerKeys : tracked'[q].on => tracked[q].on \/ q = k
    PROVE  Spares
<1> DEFINE job == Job(kind, k, epoch)
           n == Len(queue) + 1
<1>1. job.kind = kind /\ job.who = k /\ queue' = Append(queue, job) /\ running' = running
      /\ job \in JobType
  BY DEF Job, Enqueue, JobType, PeerKinds
<1> HIDE DEF job
<1>2. /\ DOMAIN queue' = DOMAIN queue \union {n} /\ queue'[n] = job /\ n \notin DOMAIN queue
      /\ \A i \in DOMAIN queue : Shifted(i, 0) /\ i < n /\ queue'[i] = queue[i]
  BY <1>1, QueueGrows
<1>3. gate'.blockers = gate.blockers \union {k}
  BY PeerBlockEffects DEF Ground, IInv
<1>4. StillEarlier /\ BlocksStay /\ StartedAfterOurSession(k)'
  BY <1>3 DEF StillEarlier, BlocksStay, StartedAfterOurSession
<1>5. SavesLater(0)
  BY <1>1, SavingStays DEF SavesLater, QueueGoesOn
<1>6. \A i \in PeerJobs' : \/ i \in PeerJobs /\ i \in PeerJobsOf(queue') /\ Shifted(i, 0)
                              /\ queue'[i] = queue[i] /\ i < n
                           \/ i = n /\ queue'[i].who = k /\ queue'[i].kind = kind
  BY <1>1, <1>2 DEF PeerJobs, PeerJobsOf, PeerKinds
<1> HIDE DEF n
<1>7. \A i \in PeerJobs' : Held(i)' \/ Overtaken(i)'
  <2> SUFFICES ASSUME NEW i \in PeerJobs' PROVE Held(i)' \/ Overtaken(i)'
    OBVIOUS
  <2>1. CASE i = n /\ queue'[i].who = k
    BY <1>3, <1>4, <2>1 DEF Held, StartedAfterOurSession
  <2>2. CASE i \in PeerJobsOf(queue') /\ Shifted(i, 0)
    BY <1>4, <1>5, <2>2, JobWaits
  <2> QED BY <1>6, <2>1, <2>2
<1>8. NewerInv'
  <2>1. \A q \in TrackedKeys' : StartedAfterOurSession(q)'
    BY <1>4, TrackedWait DEF TrackedKeys
  <2>2. ASSUME NEW q \in PeerKeys, ~peer'[q].begun
        PROVE  ~tracked'[q].on /\ \A i \in PeerJobs' : queue'[i].who # q
    <3>1. q # k /\ ~tracked[q].on /\ \A i \in PeerJobs : queue[i].who # q
      BY <2>2 DEF NewerInv
    <3> QED BY <1>6, <3>1
  <2> QED BY <1>7, <2>1, <2>2 DEF NewerInv
<1>9. \A i \in PeerJobs : queue[i].kind = "peerLogout" => queue[i].who # k
  BY DEF Ground, CountInv, OnceInv, Noted, NotedBy, PeerJobs, PeerKinds
<1>10. \A s \in settling : s.job.kind = "peerLogout" => s.job.who # k
  BY DEF Ground, CountInv, OnceInv, Noted, NotedBy
<1>11. OrderInv'
  <2>1. ASSUME NEW i \in PeerJobs', NEW j \in PeerJobs', queue'[i].who = queue'[j].who,
               queue'[i].kind = "peerLogout", queue'[j].kind = "peerClear"
        PROVE  j < i
    <3>1. CASE i = n
      BY <1>6, <2>1, <3>1
    <3>2. CASE i # n
      <4>1. i \in PeerJobs /\ queue'[i] = queue[i] /\ queue[i].who # k
        BY <1>6, <1>9, <2>1, <3>2
      <4>2. j \in PeerJobs /\ queue'[j] = queue[j]
        BY <1>6, <2>1, <4>1
      <4> QED BY <2>1, <4>1, <4>2 DEF OrderInv
    <3> QED BY <3>1, <3>2
  <2>2. ASSUME NEW s \in settling', s.job.kind = "peerLogout", NEW i \in PeerJobs'
        PROVE  queue'[i].who # s.job.who
    BY <1>6, <1>10, <2>2 DEF OrderInv
  <2> QED BY <2>1, <2>2 DEF OrderInv
<1> QED BY <1>8, <1>11 DEF Spares

LEMMA NewerMessages ==
    ASSUME Ground, NewerInv, OrderInv, CutStep, ~SharedCredential, NEW k \in PeerKeys,
           OnSessionCleared(k) \/ OnLogout(k)
    PROVE  Spares
<1>1. peerEpoch \in Nat /\ \A q \in PeerKeys : tracked[q].epoch \in Nat
  BY GroundTypes DEF TypeInv, TypeOK, TrackType
<1>2. PICK kind \in PeerKinds, epoch \in Nat : Enqueue(Job(kind, k, epoch))
  BY <1>1 DEF OnSessionCleared, OnLogout, PeerKinds
<1>3. /\ BlockForPeer(k) /\ peer[k].begun /\ k \notin retired
      /\ UNCHANGED <<peer, settling, established, storage>>
      /\ tracked[k].on \/ StartedAfterOurSession(k)
  BY DEF OnSessionCleared, OnLogout, MessageTargetsThisSession
<1>4. StartedAfterOurSession(k)
  BY <1>3 DEF NewerInv, TrackedKeys
<1>5. \A q \in PeerKeys : tracked'[q].on => tracked[q].on \/ q = k
  <2>1. \/ tracked' = [tracked EXCEPT ![k] = [on |-> TRUE, epoch |-> peerEpoch, settled |-> FALSE]]
        \/ tracked' = [tracked EXCEPT ![k] = Untracked]
    BY DEF OnSessionCleared, OnLogout
  <2>2. tracked \in [PeerKeys -> TrackType]
    BY GroundTypes DEF TypeInv, TypeOK
  <2> QED BY <2>1, <2>2
<1> QED BY <1>2, <1>3, <1>4, <1>5, NewerHonoured

\* The clear of another tab is over: its operation has no other job, or its logout.
LEMMA NewerPeerClear ==
    ASSUME Ground, NewerInv, OrderInv, CutStep, PeerClear
    PROVE  Spares
<1>1. /\ queue # <<>> /\ queue' = Tail(queue) /\ ~running' /\ storage' \in {None, storage}
      /\ UNCHANGED <<gate, established, peer, tracked>>
      /\ Head(queue).kind \in PeerKinds
  BY DEF PeerClear, Dequeue, NextJob, PeerKinds
<1>2. PICK c : settling' = settling \union {[job |-> Head(queue), cleared |-> c]}
  BY DEF PeerClear
<1>3. \A i \in DOMAIN queue' : Shifted(i, 1)
  BY <1>1, TailShifts
<1>4. SavesLater(1) /\ StillEarlier /\ BlocksStay
  BY <1>1 DEF SavesLater, StillEarlier, BlocksStay, Saving
<1>5. \A i \in PeerJobs' : Held(i)' \/ Overtaken(i)'
  <2>1. PeerJobs' = PeerJobsOf(queue')
    BY DEF PeerJobs, PeerJobsOf, PeerKinds
  <2>2. \A i \in PeerJobsOf(queue') : Shifted(i, 1)
    BY <1>3 DEF PeerJobsOf
  <2> QED BY <1>4, <2>1, <2>2, JobWaits
<1>6. \A i \in PeerJobs' : i \in Nat \ {0} /\ i + 1 \in PeerJobs /\ queue'[i] = queue[i + 1]
  <2>1. \A i \in PeerJobs' : i \in DOMAIN queue' /\ i \in Nat \ {0}
                             /\ queue'[i].kind \in PeerKinds
    BY DEF PeerJobs, PeerKinds, Ground, IInv, TypeInv, TypeOK
  <2> QED BY <1>3, <2>1 DEF Shifted, PeerJobs, PeerKinds
<1>7. 1 \in PeerJobs /\ queue[1] = Head(queue)
  BY <1>1, GroundTypes DEF PeerJobs, PeerKinds
<1>8. NewerInv'
  <2>1. \A k \in TrackedKeys' : StartedAfterOurSession(k)'
    BY <1>1, <1>4, TrackedWait DEF TrackedKeys
  <2>2. \A k \in PeerKeys : ~peer'[k].begun =>
           ~tracked'[k].on /\ \A i \in PeerJobs' : queue'[i].who # k
    BY <1>1, <1>6 DEF NewerInv
  <2> QED BY <1>5, <2>1, <2>2 DEF NewerInv
<1>9. OrderInv'
  <2>1. ASSUME NEW i \in PeerJobs', NEW j \in PeerJobs', queue'[i].who = queue'[j].who,
               queue'[i].kind = "peerLogout", queue'[j].kind = "peerClear"
        PROVE  j < i
    <3>1. j + 1 < i + 1
      BY <1>6, <2>1 DEF OrderInv
    <3> QED BY <1>6, <3>1
  <2>2. ASSUME NEW s \in settling', s.job.kind = "peerLogout", NEW i \in PeerJobs'
        PROVE  queue'[i].who # s.job.who
    <3>1. CASE s \in settling
      BY <1>6, <2>2, <3>1 DEF OrderInv
    <3>2. CASE s \notin settling
      <4>1. s.job = queue[1]
        BY <1>2, <1>7, <3>2
      <4> SUFFICES ASSUME queue[i + 1].who = queue[1].who PROVE FALSE
        BY <1>6, <4>1
      <4>2. i + 1 # 1 /\ ~(i + 1 < 1) /\ i + 1 \in DOMAIN queue /\ 1 \in DOMAIN queue
        BY <1>6, <1>7 DEF PeerJobs
      <4>3. queue[i + 1].kind # "peerClear"
        BY <1>6, <1>7, <2>2, <4>1, <4>2 DEF OrderInv
      <4>4. queue[i + 1].kind = "peerLogout"
        BY <1>6, <4>3 DEF PeerJobs
      <4>5. Same(queue[1], queue[i + 1]) /\ queue[1].kind \in PeerKinds
        BY <2>2, <4>1, <4>4 DEF Same, PeerKinds
      <4> QED BY <4>2, <4>5 DEF Ground, CountInv, OnceInv
    <3> QED BY <3>1, <3>2
  <2> QED BY <2>1, <2>2 DEF OrderInv
<1> QED BY <1>8, <1>9 DEF Spares

\* What a clear that is over leaves of its block.
LEMMA NewerSettled ==
    ASSUME Ground, NewerInv, OrderInv, CutStep, NEW k \in PeerKeys,
           PeerClearSettled(k) \/ PeerLogoutSettled(k)
    PROVE  Spares
<1> DEFINE g == EndPendingOp(gate)
           h == Terminate(g)
<1>1. PICK s \in settling :
         /\ s.job.who = k /\ settling' = settling \ {s}
         /\ \/ gate' = g \/ gate' = Retain(g, k)
            \/ s.job.kind = "peerLogout" /\ (gate' = Release(g, {k}) \/ gate' = Release(h, {k}))
  BY DEF PeerClearSettled, PeerLogoutSettled, RetainPeerBlock, PeerLogoutOver
<1>2. /\ UNCHANGED <<storage, peer, queue, running>> /\ established' \in {established, 0}
      /\ \A q \in PeerKeys : tracked'[q].on => tracked[q].on
  <2>1. /\ UNCHANGED <<storage, peer, queue, running>> /\ established' \in {established, 0}
        /\ tracked' = tracked \/ tracked' = [tracked EXCEPT ![k].settled = tracked[k].on]
    BY DEF PeerClearSettled, PeerLogoutSettled, ForgetBinding
  <2>2. tracked \in [PeerKeys -> TrackType]
    BY GroundTypes DEF TypeInv, TypeOK
  <2> QED BY <2>1, <2>2 DEF TrackType
<1>3. k \in Blocks
  BY DEF Blocks
<1>4. g \in GateType(Blocks) /\ g.blockers = gate.blockers
  BY <1>3, GateClosed, GateEffects, GroundTypes
<1> HIDE DEF g
<1>5. h \in GateType(Blocks) /\ h.blockers = gate.blockers
  BY <1>3, <1>4, GateClosed, GateEffects
<1> HIDE DEF h
<1>6. gate'.blockers = gate.blockers
      \/ (s.job.kind = "peerLogout" /\ gate'.blockers = gate.blockers \ {k})
  BY <1>1, <1>3, <1>4, <1>5, GateEffects
<1>7. BlocksStay
  BY <1>1, <1>6 DEF BlocksStay, OrderInv
<1>8. StillEarlier /\ QueueCalm
  BY <1>2 DEF StillEarlier, QueueCalm
<1>9. PICK d \in {0, 1} : SavesLater(d) /\ \A i \in PeerJobsOf(queue') : Shifted(i, d)
  BY <1>2, <1>8, CalmShifts
<1>10. settling' \subseteq settling
  BY <1>1
<1> QED BY <1>2, <1>7, <1>8, <1>9, <1>10, NewerStays DEF Spares

\* A logout that begins in another tab has sent nothing yet.
LEMMA NewerPeerBegins ==
    ASSUME Ground, NewerInv, OrderInv, CutStep, ~SharedCredential, NEW k \in PeerKeys,
           PeerBegins(k)
    PROVE  Spares
<1>1. /\ UNCHANGED <<gate, established, tracked, settling, queue, running>>
      /\ storage' = storage /\ ~peer[k].begun
      /\ peer' = [peer EXCEPT ![k] = [begun |-> TRUE, version |-> None, startedAt |-> clock]]
  BY DEF PeerBegins
<1>2. peer \in [PeerKeys -> PeerType]
  BY GroundTypes DEF TypeInv, TypeOK
<1>3. StillEarlier /\ BlocksStay /\ QueueCalm
  BY <1>1, <1>2 DEF StillEarlier, BlocksStay, QueueCalm
<1>4. PICK d \in {0, 1} : SavesLater(d) /\ \A i \in PeerJobsOf(queue') : Shifted(i, d)
  BY <1>1, <1>3, CalmShifts
<1>5. \A q \in PeerKeys : peer[q].begun => peer'[q].begun
  BY <1>3 DEF StillEarlier
<1> QED BY <1>1, <1>3, <1>4, <1>5, NewerStays DEF Spares

------------------------------------------------------------------------------
(* Every step spares a newer session *)

LEMMA NewerInit == Init => NewerInv /\ OrderInv
<1> SUFFICES ASSUME Init PROVE NewerInv /\ OrderInv
  OBVIOUS
<1>1. PeerJobs = {} /\ settling = {} /\ \A k \in PeerKeys : ~tracked[k].on
  BY DEF Init, PeerJobs, Untracked
<1> QED BY <1>1 DEF NewerInv, OrderInv, TrackedKeys

LEMMA NewerNext ==
    ASSUME ~SharedCredential, Ground, NewerInv, OrderInv, [Next]_vars PROVE Spares
<1>1. CutStep
  BY IInvNext DEF Ground
<1>2. CASE Application
  BY <1>1, <1>2, NewerCalls, NewerLogout, NewerLogin, HomelyKeeps DEF Application
<1>3. CASE \E o \in Ops : Continue(o)
  BY <1>1, <1>3, NewerContinue, HomelyKeeps
<1>4. CASE StorageStep
  BY <1>1, <1>4, NewerStorage, NewerPeerClear, HomelyKeeps DEF StorageStep
<1>5. CASE LogoutStep
  BY <1>1, <1>5, NewerLogout, NewerLogoutSettled, HomelyKeeps DEF LogoutStep
<1>6. CASE \E k \in PeerKeys : PeerClearSettled(k) \/ PeerLogoutSettled(k)
  BY <1>1, <1>6, NewerSettled
<1>7. CASE Environment
  <2>1. ~PeerRotates
    BY DEF PeerRotates
  <2> QED BY <1>1, <1>7, <2>1, NewerCalls, NewerMessages, NewerPeerBegins, HomelyKeeps
          DEF Environment
<1>8. CASE UNCHANGED vars
  BY <1>1, <1>8, NewerCalls, HomelyKeeps
<1> QED BY <1>2, <1>3, <1>4, <1>5, <1>6, <1>7, <1>8 DEF Next

\* A clear that another tab asked for reaches storage only if no session that this tab
\* established since the operation of that tab began is there: whatever logouts and
\* logins of its own have passed in between (messageTargetsThisSession() and the queue of
\* client.ts), where every tab keeps its own credential.
THEOREM NewerSpared == ~SharedCredential /\ Spec => NewerSessionSurvives
<1> SUFFICES ASSUME ~SharedCredential PROVE Spec => NewerSessionSurvives
  OBVIOUS
<1>1. Init => IInv /\ CountInv /\ SessionInv /\ NewerInv /\ OrderInv
  BY InitIInv, CountInit, SessionInit, NewerInit
<1>2. IInv /\ CountInv /\ SessionInv /\ NewerInv /\ OrderInv /\ [Next]_vars
         => IInv' /\ CountInv' /\ SessionInv' /\ NewerInv' /\ OrderInv'
  BY GroundNext, NewerNext DEF Ground, Spares
<1> DEFINE Step1 == ~running /\ storage' = None /\ 1 \in PeerJobs /\ queue' = Tail(queue) =>
         LET k == Head(queue).who IN
         \A c \in Callbacks : Established(c) =>
            \/ established = 0 \/ peer[k].startedAt >= established
            \/ SharedCredential /\ peer[k].version = storage
<1>3. IInv /\ NewerInv => Step1
  <2> SUFFICES ASSUME IInv, NewerInv, 1 \in PeerJobs, NEW c \in Callbacks, Established(c)
               PROVE  StartedAfterOurSession(Head(queue).who)
    BY DEF StartedAfterOurSession
  <2>1. queue[1] = Head(queue)
    BY DEF IInv, TypeInv, TypeOK
  <2>2. ~Overtaken(1)
    BY DEF Overtaken, Established
  <2> QED BY <2>1, <2>2 DEF NewerInv, Held
<1>4. IInv /\ NewerInv /\ [Next]_vars => [Step1]_vars
  BY <1>3
<1> HIDE DEF Step1
<1>5. Spec => [][Step1]_vars
  BY <1>1, <1>2, <1>4, PTL DEF Spec
<1> QED BY <1>5 DEF Step1, NewerSessionSurvives
==============================================================================
