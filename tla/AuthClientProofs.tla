-------------------------- MODULE AuthClientProofs --------------------------
(***************************************************************************)
(* Proofs of what AuthClientProps states, for every value of the           *)
(* constants.                                                              *)
(***************************************************************************)
EXTENDS AuthClientProps, TLAPS

------------------------------------------------------------------------------
(* The gate and the registry: what each operator returns, for every set of   *)
(* names, of owners and of values.                                           *)

\* Every method of SessionGate leaves a gate, and a counter never goes below zero.
LEMMA GateClosed ==
    ASSUME NEW Names, NEW g \in GateType(Names), NEW b \in Names, NEW B
    PROVE  /\ Block(g, b) \in GateType(Names)
           /\ Release(g, B) \in GateType(Names)
           /\ BlockLocal(g, b) \in GateType(Names)
           /\ ReleaseLocal(g, b) \in GateType(Names)
           /\ BlockRetained(g, b) \in GateType(Names)
           /\ Retain(g, b) \in GateType(Names)
           /\ BeginPendingOp(g) \in GateType(Names)
           /\ EndPendingOp(g) \in GateType(Names)
           /\ Terminate(g) \in GateType(Names)
           /\ Reset(g) \in GateType(Names)
<1>1. Block(g, b) \in GateType(Names)
  BY DEF GateType, Block
<1>2. Release(g, B) \in GateType(Names)
  BY DEF GateType, Release
<1>a. \A h \in GateType(Names) :
         /\ [h EXCEPT !.localBlocks = @ + 1] \in GateType(Names)
         /\ [h EXCEPT !.localBlocks = MinusOne(@)] \in GateType(Names)
         /\ [h EXCEPT !.retained = @ \union {b}] \in GateType(Names)
  BY DEF GateType, MinusOne
<1>3. BlockLocal(g, b) \in GateType(Names)
  BY <1>1, <1>a DEF BlockLocal
<1>b. Release(g, {b}) \in GateType(Names)
  BY DEF GateType, Release
<1>4. ReleaseLocal(g, b) \in GateType(Names)
  BY <1>b, <1>a DEF ReleaseLocal
<1>5. BlockRetained(g, b) \in GateType(Names)
  BY <1>1, <1>a DEF BlockRetained
<1>6. Retain(g, b) \in GateType(Names)
  BY DEF GateType, Retain
<1>7. BeginPendingOp(g) \in GateType(Names) /\ EndPendingOp(g) \in GateType(Names)
  BY DEF GateType, BeginPendingOp, EndPendingOp, MinusOne
<1>8. Terminate(g) \in GateType(Names)
  BY DEF GateType, Terminate
<1>9. Reset(g) \in GateType(Names)
  <2> DEFINE h == Terminate(g)
             K == IF g.localBlocks # 0 THEN h.blockers ELSE h.blockers \intersect g.retained
  <2>1. h \in GateType(Names)  BY <1>8
  <2> HIDE DEF h
  <2>2. K \in SUBSET Names  BY <2>1 DEF GateType
  <2> HIDE DEF K
  <2>3. [h EXCEPT !.blockers = K] \in GateType(Names)  BY <2>1, <2>2 DEF GateType
  <2> QED BY <2>3 DEF Reset, h, K
<1> QED BY <1>1, <1>2, <1>3, <1>4, <1>5, <1>6, <1>7, <1>8, <1>9

\* What each method does to the generation, the blocks and the retained blocks: the
\* facts about the gate that invariants are proved from.
LEMMA GateEffects ==
    ASSUME NEW Names, NEW g \in GateType(Names), NEW b \in Names, NEW B
    PROVE  /\ /\ Block(g, b).generation = g.generation
              /\ Block(g, b).blockers = g.blockers \union {b}
              /\ Block(g, b).retained = g.retained
           /\ /\ Release(g, B).generation = g.generation
              /\ Release(g, B).blockers = g.blockers \ B
              /\ Release(g, B).retained = g.retained \ B
           /\ /\ BlockLocal(g, b).generation = g.generation
              /\ BlockLocal(g, b).blockers = g.blockers \union {b}
              /\ BlockLocal(g, b).retained = g.retained
           /\ /\ ReleaseLocal(g, b).generation = g.generation
              /\ ReleaseLocal(g, b).blockers = g.blockers \ {b}
              /\ ReleaseLocal(g, b).retained = g.retained \ {b}
           /\ /\ BlockRetained(g, b).generation = g.generation
              /\ BlockRetained(g, b).blockers = g.blockers \union {b}
              /\ BlockRetained(g, b).retained = g.retained \union {b}
           /\ /\ Retain(g, b).generation = g.generation
              /\ Retain(g, b).blockers = g.blockers
              /\ Retain(g, b).retained = g.retained \union ({b} \intersect g.blockers)
           /\ /\ BeginPendingOp(g).generation = g.generation
              /\ BeginPendingOp(g).blockers = g.blockers
              /\ BeginPendingOp(g).retained = g.retained
           /\ /\ EndPendingOp(g).generation = g.generation
              /\ EndPendingOp(g).blockers = g.blockers
              /\ EndPendingOp(g).retained = g.retained
           /\ /\ Terminate(g).generation = g.generation + 1
              /\ Terminate(g).blockers = g.blockers
              /\ Terminate(g).retained = g.retained
           /\ /\ Reset(g).generation = g.generation + 1
              /\ Reset(g).blockers \subseteq g.blockers
              /\ Reset(g).retained = g.retained
<1>1. /\ Block(g, b).generation = g.generation
      /\ Block(g, b).blockers = g.blockers \union {b}
      /\ Block(g, b).retained = g.retained
  BY DEF GateType, Block
<1>2. /\ Release(g, B).generation = g.generation
      /\ Release(g, B).blockers = g.blockers \ B
      /\ Release(g, B).retained = g.retained \ B
  BY DEF GateType, Release
<1>3. /\ BlockLocal(g, b).generation = g.generation
      /\ BlockLocal(g, b).blockers = g.blockers \union {b}
      /\ BlockLocal(g, b).retained = g.retained
  BY DEF GateType, Block, BlockLocal
<1>4. /\ ReleaseLocal(g, b).generation = g.generation
      /\ ReleaseLocal(g, b).blockers = g.blockers \ {b}
      /\ ReleaseLocal(g, b).retained = g.retained \ {b}
  BY DEF GateType, Release, ReleaseLocal
<1>5. /\ BlockRetained(g, b).generation = g.generation
      /\ BlockRetained(g, b).blockers = g.blockers \union {b}
      /\ BlockRetained(g, b).retained = g.retained \union {b}
  BY DEF GateType, Block, BlockRetained
<1>6. /\ Retain(g, b).generation = g.generation
      /\ Retain(g, b).blockers = g.blockers
      /\ Retain(g, b).retained = g.retained \union ({b} \intersect g.blockers)
  BY DEF GateType, Retain
<1>7. /\ BeginPendingOp(g).generation = g.generation
      /\ BeginPendingOp(g).blockers = g.blockers
      /\ BeginPendingOp(g).retained = g.retained
      /\ EndPendingOp(g).generation = g.generation
      /\ EndPendingOp(g).blockers = g.blockers
      /\ EndPendingOp(g).retained = g.retained
  BY DEF GateType, BeginPendingOp, EndPendingOp
<1>8. /\ Terminate(g).generation = g.generation + 1
      /\ Terminate(g).blockers = g.blockers
      /\ Terminate(g).retained = g.retained
  BY DEF GateType, Terminate
<1>9. /\ Reset(g).generation = g.generation + 1
      /\ Reset(g).blockers \subseteq g.blockers
      /\ Reset(g).retained = g.retained
  BY DEF GateType, Terminate, Reset
<1> QED BY <1>1, <1>2, <1>3, <1>4, <1>5, <1>6, <1>7, <1>8, <1>9

-----------------------------------------------------------------------------
(* The registry.                                                            *)

\* Every method of CredentialRegistry leaves a registry, whatever it held.
LEMMA SlotsClosed ==
    ASSUME NEW Owners, NEW Values, NEW reg \in RegistryType(Owners, Values), NEW o \in Owners
    PROVE  /\ Reserve(reg, o) \in RegistryType(Owners, Values)
           /\ ReleaseReservation(reg, o) \in RegistryType(Owners, Values)
<1>1. Reserve(reg, o) \in RegistryType(Owners, Values)
  BY DEF RegistryType, Reserve
<1>2. ReleaseReservation(reg, o) \in RegistryType(Owners, Values)
  BY DEF RegistryType, ReleaseReservation
<1> QED BY <1>1, <1>2

LEMMA HandlesClosed ==
    ASSUME NEW Owners, NEW Values, NEW reg \in RegistryType(Owners, Values),
           NEW o \in Owners, NEW t \in Values
    PROVE  /\ Register(reg, o, t) \in RegistryType(Owners, Values)
           /\ ReleaseHandle(reg, o, t) \in RegistryType(Owners, Values)
<1>1. Register(reg, o, t) \in RegistryType(Owners, Values)
  BY DEF RegistryType, Register
<1>2. ReleaseHandle(reg, o, t) \in RegistryType(Owners, Values)
  BY DEF RegistryType, ReleaseHandle
<1> QED BY <1>1, <1>2

LEMMA RetainedClosed ==
    ASSUME NEW Owners, NEW Values, NEW reg \in RegistryType(Owners, Values),
           NEW S, NEW F \in SUBSET Values
    PROVE  Retained(reg, S, F) \in RegistryType(Owners, Values)
BY DEF RegistryType, Retained

LEMMA DrainClosed ==
    ASSUME NEW Owners, NEW Values, NEW reg \in RegistryType(Owners, Values)
    PROVE  AfterDrain(reg) \in RegistryType(Owners, Values) /\ Drained(reg) \subseteq Values
<1>1. AfterDrain(reg) \in RegistryType(Owners, Values)
  BY DEF RegistryType, AfterDrain
<1>2. Drained(reg) \subseteq Values
  BY DEF RegistryType, Drained
<1> QED BY <1>1, <1>2

\* What each method does to the four parts of the registry: the facts that invariants
\* are proved from.
LEMMA SlotEffects ==
    ASSUME NEW Owners, NEW Values, NEW reg \in RegistryType(Owners, Values), NEW o
    PROVE  /\ /\ Reserve(reg, o).reserved = reg.reserved \union {o}
              /\ Reserve(reg, o).candidates = reg.candidates
              /\ Reserve(reg, o).pending = reg.pending
              /\ Reserve(reg, o).cancelled = reg.cancelled
           /\ /\ ReleaseReservation(reg, o).reserved = reg.reserved \ {o}
              /\ ReleaseReservation(reg, o).candidates = reg.candidates
              /\ ReleaseReservation(reg, o).pending = reg.pending
              /\ ReleaseReservation(reg, o).cancelled = reg.cancelled \ {o}
BY DEF RegistryType, Reserve, ReleaseReservation

LEMMA HandleEffects ==
    ASSUME NEW Owners, NEW Values, NEW reg \in RegistryType(Owners, Values), NEW o, NEW t
    PROVE  /\ /\ Register(reg, o, t).reserved = reg.reserved \ {o}
              /\ Register(reg, o, t).candidates = reg.candidates \union {t}
              /\ Register(reg, o, t).pending = reg.pending
              /\ Register(reg, o, t).cancelled = reg.cancelled
           /\ /\ ReleaseHandle(reg, o, t).reserved = reg.reserved \ {o}
              /\ ReleaseHandle(reg, o, t).candidates = reg.candidates \ {t}
              /\ ReleaseHandle(reg, o, t).pending = reg.pending
              /\ ReleaseHandle(reg, o, t).cancelled = reg.cancelled \ {o}
BY DEF RegistryType, Register, ReleaseHandle

LEMMA RetainedEffects ==
    ASSUME NEW Owners, NEW Values, NEW reg \in RegistryType(Owners, Values), NEW S, NEW F
    PROVE  /\ Retained(reg, S, F).reserved = reg.reserved
           /\ Retained(reg, S, F).candidates = reg.candidates
           /\ Retained(reg, S, F).pending = (reg.pending \ S) \union F
           /\ Retained(reg, S, F).cancelled = reg.cancelled
BY DEF RegistryType, Retained

LEMMA DrainEffects ==
    ASSUME NEW Owners, NEW Values, NEW reg \in RegistryType(Owners, Values)
    PROVE  /\ AfterDrain(reg).reserved = {}
           /\ AfterDrain(reg).candidates = {}
           /\ AfterDrain(reg).pending = reg.pending
           /\ AfterDrain(reg).cancelled = reg.cancelled \union reg.reserved
BY DEF RegistryType, AfterDrain

------------------------------------------------------------------------------
(* The types *)

USE DEF bindVars, queueVars, peerVars, serverVars

\* Where an operation is about to use the credential it rotates, or one it was
\* given, it has one: what the types of known and got, which admit None, leave open.
KnownPcs == {"locking", "reloading", "reloaded", "posted", "rejected", "rechecked"}

HoldsToken ==
    /\ \A r \in Refreshers : op[r].pc \in KnownPcs => op[r].known \in Tokens
    /\ \A o \in Ops : op[o].pc \in {"answered", "disowning"} => op[o].got \in Tokens

TypeInv == TypeOK /\ HoldsToken

LEMMA TypeInit == Init => TypeInv
<1> SUFFICES ASSUME Init PROVE TypeInv
  OBVIOUS
<1> USE ConstantsAssumption DEF Init
<1>1. gate \in GateType(Blocks)
  BY DEF GateType, NewGate
<1>2. registry \in RegistryType(Ops, Tokens)
  BY DEF RegistryType, NewRegistry
<1>3. storage \in MaybeToken /\ degraded \in MaybeToken /\ binding \in MaybeToken
  BY DEF MaybeToken, Tokens, None
<1>4. NoOp \in OpType
  BY DEF NoOp, OpType, Pcs, MaybeToken
<1>5. op \in [Ops -> OpType]
  BY <1>4
<1>6. logout \in LogoutType
  BY DEF NoLogout, LogoutType, LogoutPcs
<1>7. peer \in [PeerKeys -> PeerType] /\ tracked \in [PeerKeys -> TrackType]
  BY DEF PeerType, TrackType, Untracked, MaybeToken
<1>8. queue \in Seq(JobType)
  OBVIOUS
<1>9. minted \in 0..MaxTokens /\ live \subseteq Tokens
  BY DEF Tokens, None
<1>10. bornIn \in [Tokens -> Nat] /\ calls \in 0..MaxCalls
  OBVIOUS
<1>11. TypeOK
  BY <1>1, <1>2, <1>3, <1>5, <1>6, <1>7, <1>8, <1>9, <1>10, Zenon DEF TypeOK
<1>12. \A o \in Ops : op[o].pc = "idle"
  BY DEF NoOp
<1>13. HoldsToken
  BY <1>12 DEF HoldsToken, KnownPcs, Ops
<1> QED BY <1>11, <1>13 DEF TypeInv

\* The bound on calls is one the type knows.
LEMMA OneMoreCall ==
    ASSUME calls \in 0..MaxCalls, calls < MaxCalls, calls' = calls + 1
    PROVE  calls' \in 0..MaxCalls
<1>1. MaxCalls \in Nat  BY ConstantsAssumption
<1> QED BY <1>1

\* Moving an operation to a program counter at which nothing is asked of known and
\* got keeps every record typed, and what the other operations hold.
QuietPcs == Pcs \ (KnownPcs \union {"answered", "disowning"})

LEMMA OpStep ==
    ASSUME TypeInv, NEW o \in Ops, NEW rec \in OpType,
           o \in Refreshers /\ rec.pc \in KnownPcs => rec.known \in Tokens,
           rec.pc \in {"answered", "disowning"} => rec.got \in Tokens,
           op' = [op EXCEPT ![o] = rec]
    PROVE  op' \in [Ops -> OpType] /\ HoldsToken'
<1>1. op' \in [Ops -> OpType]
  BY DEF TypeInv, TypeOK
<1>2. \A q \in Ops : op'[q] = (IF q = o THEN rec ELSE op[q])
  BY DEF TypeInv, TypeOK
<1>3. HoldsToken'
  BY <1>2 DEF TypeInv, HoldsToken, Ops
<1> QED BY <1>1, <1>3

LEMMA QuietStep ==
    ASSUME TypeInv, NEW o \in Ops, NEW rec \in OpType, rec.pc \in QuietPcs,
           op' = [op EXCEPT ![o] = rec]
    PROVE  op' \in [Ops -> OpType] /\ HoldsToken'
BY OpStep DEF QuietPcs

LEMMA QuietPc ==
    ASSUME TypeInv, NEW o \in Ops, NEW pc \in QuietPcs, Step(o, pc)
    PROVE  op' \in [Ops -> OpType] /\ HoldsToken'
<1> DEFINE rec == [op[o] EXCEPT !.pc = pc]
<1>1. rec \in OpType /\ rec.pc = pc
  BY DEF TypeInv, TypeOK, OpType, QuietPcs
<1>2. op' = [op EXCEPT ![o] = rec]
  BY DEF Step
<1> HIDE DEF rec
<1> QED BY <1>1, <1>2, QuietStep

LEMMA NoOpTyped == NoOp \in OpType /\ NoOp.pc = "idle" /\ "idle" \in QuietPcs
BY DEF NoOp, OpType, Pcs, MaybeToken, QuietPcs, KnownPcs

LEMMA QuietReturn ==
    ASSUME TypeInv, NEW o \in Ops, NEW t \in MaybeToken, Return(o, t)
    PROVE  op' \in [Ops -> OpType] /\ HoldsToken'
<1> DEFINE rec == [NoOp EXCEPT !.pc = "returned", !.lease = op[o].lease, !.got = t]
<1>1. op[o].lease \in Nat
  BY DEF TypeInv, TypeOK, OpType
<1>2. rec \in OpType /\ rec.pc = "returned"
  BY <1>1 DEF NoOp, OpType, Pcs, MaybeToken
<1>3. op' = [op EXCEPT ![o] = rec]
  BY DEF Return
<1>4. "returned" \in QuietPcs
  BY DEF QuietPcs, Pcs, KnownPcs
<1> HIDE DEF rec
<1> QED BY <1>2, <1>3, <1>4, QuietStep

LEMMA QuietEnd ==
    ASSUME TypeInv, NEW o \in Ops, op' = [op EXCEPT ![o] = NoOp]
    PROVE  op' \in [Ops -> OpType] /\ HoldsToken'
BY NoOpTyped, QuietStep

\* What stays as it is stays typed.
LEMMA QuietThrow ==
    ASSUME TypeInv, NEW o \in Ops, Throw(o)
    PROVE  op' \in [Ops -> OpType] /\ HoldsToken' /\ registry' \in RegistryType(Ops, Tokens)
<1>1. op' \in [Ops -> OpType] /\ HoldsToken'
  BY QuietEnd DEF Throw
<1>2. registry' \in RegistryType(Ops, Tokens)
  BY SlotsClosed DEF Throw, TypeInv, TypeOK
<1> QED BY <1>1, <1>2

------------------------------------------------------------------------------
(* The type invariant, action by action *)
LEMMA TypeBeginLogin ==
    ASSUME TypeInv, BeginLogin PROVE TypeInv'
<1>1. gate' \in GateType(Blocks)
  BY GateClosed DEF Blocks, TypeInv, TypeOK, BeginLogin
<1>2. tracked' \in [PeerKeys -> TrackType] /\ retired' \subseteq PeerKeys /\ peerEpoch' \in Nat
  BY DEF TypeInv, TypeOK, BeginLogin, RetirePeerOperations, TrackType, Untracked,
         SettledKeys, TrackedKeys
<1>3. calls' \in 0..MaxCalls
  BY OneMoreCall DEF TypeInv, TypeOK, BeginLogin
<1> QED
  BY <1>1, <1>2, <1>3 DEF TypeInv, TypeOK, HoldsToken, BeginLogin, RetirePeerOperations

LEMMA TypeCallbackCall ==
    ASSUME TypeInv, NEW c \in Callbacks, CallbackCall(c) PROVE TypeInv'
<1>1. calls' \in 0..MaxCalls /\ txn' \in BOOLEAN
  BY OneMoreCall DEF TypeInv, TypeOK, CallbackCall
<1>2. CASE UNCHANGED <<op, registry>>
  BY <1>1, <1>2 DEF TypeInv, TypeOK, HoldsToken, CallbackCall
<1>3. CASE ~UNCHANGED <<op, registry>>
  <2> DEFINE rec == [NoOp EXCEPT !.pc = "posted", !.lease = gate.generation]
  <2>1. gate.generation \in Nat
    BY DEF TypeInv, TypeOK, GateType
  <2>2. rec \in OpType /\ rec.pc = "posted"
    BY <2>1 DEF NoOp, OpType, Pcs, RefreshPcs, LockedPcs, MaybeToken
  <2>3. op' = [op EXCEPT ![c] = rec] /\ registry' = Reserve(registry, c)
    BY <1>3 DEF CallbackCall
  <2> HIDE DEF rec
  <2>4. c \in Ops /\ c \notin Refreshers
    BY ConstantsAssumption DEF Ops
  <2>5. op' \in [Ops -> OpType] /\ HoldsToken'
    BY <2>2, <2>3, <2>4, OpStep
  <2>6. registry' \in RegistryType(Ops, Tokens)
    BY <2>3, <2>4, SlotsClosed DEF TypeInv, TypeOK
  <2> QED
    BY <1>1, <2>5, <2>6 DEF TypeInv, TypeOK, CallbackCall
<1> QED BY <1>2, <1>3

\* What beginLoad() leaves of an operation that starts to load.
LEMMA LoadStarts ==
    ASSUME TypeInv, NEW o \in Ops, NEW pc \in {"loading", "reloading"}
    PROVE  /\ BeginLoad(o, pc) \in OpType
           /\ BeginLoad(o, pc).pc \in {pc, AnswerOf[pc]}
           /\ BeginLoad(o, pc).known = op[o].known
<1>1. AnswerOf["loading"] = "loaded" /\ AnswerOf["reloading"] = "reloaded"
  BY DEF AnswerOf
<1>2. op[o] \in OpType /\ degraded \in MaybeToken /\ None \in MaybeToken
  BY DEF TypeInv, TypeOK, MaybeToken
<1>3. \A pp \in Pcs, t \in MaybeToken : 
          /\ [op[o] EXCEPT !.pc = pp, !.got = t] \in OpType
          /\ [op[o] EXCEPT !.pc = pp, !.got = t].pc = pp
          /\ [op[o] EXCEPT !.pc = pp, !.got = t].known = op[o].known
  BY <1>2 DEF OpType
<1>4. pc \in Pcs /\ AnswerOf[pc] \in Pcs
  BY <1>1 DEF Pcs, RefreshPcs, LockedPcs
<1> QED BY <1>2, <1>3, <1>4 DEF BeginLoad

LEMMA TypeCall ==
    ASSUME TypeInv, NEW r \in Refreshers, NEW pc \in {"reading", "loading"}, Call(r, pc)
    PROVE  TypeInv'
<1> DEFINE fresh == [NoOp EXCEPT !.lease = gate.generation]
           rec == IF degraded # None THEN [fresh EXCEPT !.pc = AnswerOf[pc], !.got = degraded]
                                     ELSE [fresh EXCEPT !.pc = pc]
<1>1. calls' \in 0..MaxCalls
  BY OneMoreCall DEF TypeInv, TypeOK, Call
<1>2. gate.generation \in Nat /\ degraded \in MaybeToken
  BY DEF TypeInv, TypeOK, GateType
<1>3. fresh \in OpType
  BY <1>2, NoOpTyped DEF OpType
<1> HIDE DEF fresh
<1>4. AnswerOf[pc] \in {"read", "loaded"}
  BY DEF AnswerOf
<1>5. \A pp \in {"read", "loaded", "reading", "loading"} : pp \in QuietPcs /\ pp \in Pcs
  BY DEF QuietPcs, Pcs, RefreshPcs, LockedPcs, KnownPcs
<1>6. rec \in OpType /\ rec.pc \in QuietPcs
  BY <1>2, <1>3, <1>4, <1>5 DEF OpType
<1>7. op' = [op EXCEPT ![r] = rec]
  BY DEF Call, fresh
<1> HIDE DEF rec
<1>8. op' \in [Ops -> OpType] /\ HoldsToken'
  BY <1>6, <1>7, QuietStep DEF Ops
<1> QED BY <1>1, <1>8 DEF TypeInv, TypeOK, Call

LEMMA TypeReadStorage ==
    ASSUME TypeInv, NEW o \in Ops, ReadStorage(o) PROVE TypeInv'
<1>1. CASE Throw(o)
  BY <1>1, QuietThrow DEF TypeInv, TypeOK, ReadStorage
<1>2. ASSUME NEW pp \in {"read", "loaded", "reloaded", "rechecked", "updated"},
             NEW t \in MaybeToken,
             pp \in {"reloaded", "rechecked"} => op[o].pc \in KnownPcs,
             op' = [op EXCEPT ![o].pc = pp, ![o].got = t], UNCHANGED registry
      PROVE  TypeInv'
  <2> DEFINE rec == [op[o] EXCEPT !.pc = pp, !.got = t]
  <2>1. op[o] \in OpType /\ pp \in Pcs
    BY DEF TypeInv, TypeOK, Pcs, RefreshPcs, LockedPcs
  <2>2. rec \in OpType /\ rec.pc = pp /\ rec.known = op[o].known
    BY <2>1 DEF OpType
  <2>3. op' = [op EXCEPT ![o] = rec]
    BY <1>2 DEF TypeInv, TypeOK
  <2> HIDE DEF rec
  <2>4. o \in Refreshers /\ rec.pc \in KnownPcs => rec.known \in Tokens
    <3>1. pp \in KnownPcs => pp \in {"reloaded", "rechecked"}
      BY DEF KnownPcs
    <3> QED BY <1>2, <2>2, <3>1 DEF TypeInv, HoldsToken
  <2>5. rec.pc \notin {"answered", "disowning"}
    BY <2>2
  <2>6. op' \in [Ops -> OpType] /\ HoldsToken'
    BY <2>2, <2>3, <2>4, <2>5, OpStep
  <2> QED BY <1>2, <2>6 DEF TypeInv, TypeOK, ReadStorage
<1>3. op[o].pc \in LoadPcs =>
        /\ AnswerOf[op[o].pc] \in {"read", "loaded", "reloaded", "rechecked", "updated"}
        /\ AnswerOf[op[o].pc] \in {"reloaded", "rechecked"} => op[o].pc \in KnownPcs
  BY DEF LoadPcs, AnswerOf, KnownPcs
<1>4. storage \in MaybeToken /\ None \in MaybeToken
  BY DEF TypeInv, TypeOK, MaybeToken
<1>5. CASE op' = [op EXCEPT ![o].pc = AnswerOf[@], ![o].got = storage] /\ UNCHANGED registry
  BY <1>2, <1>3, <1>4, <1>5 DEF ReadStorage
<1>6. CASE /\ op[o].pc = "rejected" /\ UNCHANGED registry
           /\ op' = [op EXCEPT ![o].pc = "rechecked", ![o].got = None]
  BY <1>2, <1>4, <1>6 DEF KnownPcs
<1> QED BY <1>1, <1>5, <1>6 DEF ReadStorage

LEMMA LoadAdopted ==
    ASSUME TypeInv, NEW o \in Ops, AdoptLoaded(o)
    PROVE  binding' \in MaybeToken /\ established' \in Nat /\ clock' \in Nat
BY DEF AdoptLoaded, TypeInv, TypeOK, OpType

LEMMA TypeGotToken ==
    ASSUME TypeInv, NEW r \in Refreshers, GotToken(r) PROVE TypeInv'
<1>1. r \in Ops /\ op[r] \in OpType /\ op[r].got \in MaybeToken
  BY DEF Ops, TypeInv, TypeOK, OpType
<1>2. op' \in [Ops -> OpType] /\ HoldsToken'
  <2>1. CASE op' = [op EXCEPT ![r] = NoOp]
    BY <1>1, <2>1, QuietEnd
  <2>2. CASE Return(r, op[r].got)
    BY <1>1, <2>2, QuietReturn
  <2>3. CASE op' = [op EXCEPT ![r] = [BeginLoad(r, "loading") EXCEPT !.held = op[r].got]]
    <3>1. BeginLoad(r, "loading") \in OpType
          /\ BeginLoad(r, "loading").pc \in {"loading", AnswerOf["loading"]}
      BY <1>1, LoadStarts
    <3>2. \A b \in OpType : /\ [b EXCEPT !.held = op[r].got] \in OpType
                            /\ [b EXCEPT !.held = op[r].got].pc = b.pc
      BY <1>1 DEF OpType
    <3>3. {"loading", AnswerOf["loading"]} \subseteq QuietPcs
      BY DEF AnswerOf, QuietPcs, Pcs, RefreshPcs, LockedPcs, KnownPcs
    <3> QED BY <1>1, <2>3, <3>1, <3>2, <3>3, QuietStep
  <2> QED BY <2>1, <2>2, <2>3 DEF GotToken
<1> QED BY <1>1, <1>2, LoadAdopted DEF TypeInv, TypeOK, GotToken

LEMMA TypeLoaded ==
    ASSUME TypeInv, NEW r \in Refreshers, Loaded(r) PROVE TypeInv'
<1>1. r \in Ops /\ op[r] \in OpType
  BY DEF Ops, TypeInv, TypeOK
<1>2. op' \in [Ops -> OpType] /\ HoldsToken'
  <2>1. CASE op' = [op EXCEPT ![r] = NoOp]
    BY <1>1, <2>1, QuietEnd
  <2>2. CASE /\ op[r].got # None
             /\ op' = [op EXCEPT ![r].pc = "locking", ![r].known = op[r].got]
    <3> DEFINE rec == [op[r] EXCEPT !.pc = "locking", !.known = op[r].got]
    <3>1. rec \in OpType /\ rec.pc = "locking" /\ rec.known = op[r].got
      BY <1>1 DEF OpType, Pcs, RefreshPcs
    <3>2. op' = [op EXCEPT ![r] = rec]
      BY <1>1, <2>2 DEF TypeInv, TypeOK
    <3>3. op[r].got \in Tokens
      BY <1>1, <2>2 DEF OpType, MaybeToken
    <3> HIDE DEF rec
    <3> QED BY <1>1, <3>1, <3>2, <3>3, OpStep
  <2> QED BY <2>1, <2>2 DEF Loaded
<1> QED BY <1>1, <1>2, LoadAdopted DEF TypeInv, TypeOK, Loaded

LEMMA TypeLockAcquired ==
    ASSUME TypeInv, NEW r \in Refreshers, LockAcquired(r) PROVE TypeInv'
<1> DEFINE b == BeginLoad(r, "reloading")
<1>1. r \in Ops /\ op[r].known \in Tokens
  BY DEF Ops, TypeInv, HoldsToken, KnownPcs, LockAcquired
<1>2. b \in OpType /\ b.known \in Tokens /\ b.pc \in {"reloading", "reloaded"}
  <2>1. AnswerOf["reloading"] = "reloaded"
    BY DEF AnswerOf
  <2> QED BY <1>1, <2>1, LoadStarts
<1> HIDE DEF b
<1>3. op' \in [Ops -> OpType] /\ HoldsToken'
  <2>1. CASE op' = [op EXCEPT ![r] = NoOp]
    BY <1>1, <2>1, QuietEnd
  <2>2. CASE op' = [op EXCEPT ![r] = b]
    BY <1>1, <1>2, <2>2, OpStep
  <2> QED BY <2>1, <2>2 DEF LockAcquired, b
<1> QED BY <1>3 DEF TypeInv, TypeOK, LockAcquired

LEMMA JobQueued ==
    ASSUME TypeInv, NEW job \in JobType, Enqueue(job)
    PROVE  queue' \in Seq(JobType) /\ running' \in BOOLEAN
BY DEF Enqueue, TypeInv, TypeOK

LEMMA SessionEnds ==
    ASSUME TypeInv, NEW r \in Refreshers, op[r].known \in Tokens, EndSession(r)
    PROVE  /\ gate' \in GateType(Blocks)
           /\ degraded' \in MaybeToken
           /\ op' \in [Ops -> OpType] /\ HoldsToken'
           /\ queue' \in Seq(JobType) /\ running' \in BOOLEAN
           /\ ended' \in Nat
<1>1. r \in Ops /\ r \in Blocks /\ op[r] \in OpType
  BY DEF Ops, Blocks, TypeInv, TypeOK
<1>2. gate' \in GateType(Blocks)
  <2>1. Terminate(BlockLocal(gate, r)) \in GateType(Blocks)
    BY <1>1, GateClosed DEF TypeInv, TypeOK
  <2> QED BY <1>1, <2>1, GateClosed DEF EndSession, EndWith
<1>3. op' \in [Ops -> OpType] /\ HoldsToken'
  <2> DEFINE rec == [op[r] EXCEPT !.pc = "ending", !.invalidate = {op[r].known}]
  <2>1. rec \in OpType /\ rec.pc = "ending"
    BY <1>1 DEF OpType, Pcs, RefreshPcs, LockedPcs, EndPcs
  <2>2. op' = [op EXCEPT ![r] = rec]
    BY <1>1 DEF TypeInv, TypeOK, EndSession, EndWith
  <2>3. "ending" \in QuietPcs
    BY DEF QuietPcs, Pcs, RefreshPcs, LockedPcs, EndPcs, KnownPcs
  <2> HIDE DEF rec
  <2> QED BY <1>1, <2>1, <2>2, <2>3, QuietStep
<1>4. queue' \in Seq(JobType) /\ running' \in BOOLEAN
  BY <1>1 DEF EndSession, EndWith, Enqueue, Job, JobType, TypeInv, TypeOK
<1>5. ended' \in Nat /\ degraded' \in MaybeToken
  BY DEF EndSession, EndWith, TypeInv, TypeOK, GateType, MaybeToken
<1> QED BY <1>2, <1>3, <1>4, <1>5

LEMMA TypeReloaded ==
    ASSUME TypeInv, NEW r \in Refreshers, Reloaded(r) PROVE TypeInv'
<1>1. r \in Ops /\ op[r] \in OpType /\ op[r].known \in Tokens
  BY DEF Ops, TypeInv, TypeOK, HoldsToken, KnownPcs, Reloaded
<1>2. CASE EndSession(r) /\ UNCHANGED registry
  BY <1>1, <1>2, SessionEnds, LoadAdopted DEF TypeInv, TypeOK, Reloaded
<1>3. CASE UNCHANGED <<gate, degraded, queueVars, ended>>
  <2>1. op' \in [Ops -> OpType] /\ HoldsToken' /\ registry' \in RegistryType(Ops, Tokens)
    <3>1. CASE op' = [op EXCEPT ![r] = NoOp] /\ UNCHANGED registry
      BY <1>1, <3>1, QuietEnd DEF TypeInv, TypeOK
    <3>2. CASE Return(r, op[r].got) /\ UNCHANGED registry
      BY <1>1, <3>2, QuietReturn DEF TypeInv, TypeOK, OpType
    <3>3. CASE /\ op[r].got # None
               /\ registry' = Reserve(registry, r)
               /\ op' = [op EXCEPT ![r].pc = "posted", ![r].known = op[r].got]
      <4> DEFINE rec == [op[r] EXCEPT !.pc = "posted", !.known = op[r].got]
      <4>1. rec \in OpType /\ rec.pc = "posted" /\ rec.known = op[r].got
        BY <1>1 DEF OpType, Pcs, RefreshPcs, LockedPcs
      <4>2. op' = [op EXCEPT ![r] = rec]
        BY <1>1, <3>3 DEF TypeInv, TypeOK
      <4>3. op[r].got \in Tokens
        BY <1>1, <3>3 DEF OpType, MaybeToken
      <4>4. registry' \in RegistryType(Ops, Tokens)
        BY <1>1, <3>3, SlotsClosed DEF TypeInv, TypeOK
      <4> HIDE DEF rec
      <4> QED BY <1>1, <4>1, <4>2, <4>3, <4>4, OpStep
    <3>4. CASE EndSession(r) /\ UNCHANGED registry
      BY <1>1, <3>4, SessionEnds DEF TypeInv, TypeOK
    <3> QED BY <3>1, <3>2, <3>3, <3>4 DEF Reloaded
  <2> QED BY <1>1, <1>3, <2>1, LoadAdopted DEF TypeInv, TypeOK, Reloaded
<1> QED BY <1>2, <1>3 DEF Reloaded

LEMMA TokenMinted ==
    ASSUME TypeInv, NEW o \in Ops, NEW parent, Mint(o, parent)
    PROVE  /\ minted + 1 \in Tokens /\ minted' \in 0..MaxTokens
           /\ live' \subseteq Tokens /\ bornIn' \in [Tokens -> Nat]
<1>1. MaxTokens \in Nat /\ minted \in 0..MaxTokens /\ minted < MaxTokens
  BY ConstantsAssumption DEF TypeInv, TypeOK, Mint
<1>2. minted + 1 \in Tokens /\ minted' \in 0..MaxTokens
  BY <1>1 DEF Mint, Tokens
<1>3. op[o].lease \in Nat
  BY DEF TypeInv, TypeOK, OpType
<1> QED BY <1>2, <1>3 DEF Mint, TypeInv, TypeOK

LEMMA TypeServe ==
    ASSUME TypeInv, NEW o \in Ops, Serve(o) PROVE TypeInv'
<1>1. op[o] \in OpType /\ (o \in Refreshers => op[o].known \in Tokens)
  BY DEF TypeInv, TypeOK, HoldsToken, KnownPcs, Serve
<1>2. {"answered", "dropped", "rejected"} \subseteq Pcs
      /\ "dropped" \in QuietPcs /\ "answered" \notin KnownPcs
      /\ "rejected" \notin {"answered", "disowning"}
  BY DEF Pcs, RefreshPcs, LockedPcs, QuietPcs, KnownPcs
<1>3. ASSUME NEW parent, Answer(o, parent) PROVE TypeInv'
  <2>1. Mint(o, parent)
    BY <1>3 DEF Answer
  <2>2. /\ minted + 1 \in Tokens /\ minted' \in 0..MaxTokens
        /\ live' \subseteq Tokens /\ bornIn' \in [Tokens -> Nat]
    BY <2>1, TokenMinted
  <2>4. op' \in [Ops -> OpType] /\ HoldsToken'
    <3>1. CASE Step(o, "dropped")
      BY <1>2, <3>1, QuietPc
    <3>2. CASE op' = [op EXCEPT ![o].pc = "answered", ![o].got = minted + 1]
      <4> DEFINE rec == [op[o] EXCEPT !.pc = "answered", !.got = minted + 1]
      <4>1. rec \in OpType /\ rec.pc = "answered" /\ rec.got = minted + 1
        BY <1>1, <1>2, <2>2 DEF OpType, MaybeToken
      <4>2. op' = [op EXCEPT ![o] = rec]
        BY <1>1, <3>2 DEF TypeInv, TypeOK
      <4> HIDE DEF rec
      <4> QED BY <1>2, <2>2, <4>1, <4>2, OpStep
    <3> QED BY <1>3, <3>1, <3>2 DEF Answer
  <2> QED BY <2>2, <2>4 DEF TypeInv, TypeOK, Serve
<1>4. CASE /\ o \in Refreshers /\ op[o].known \notin live
           /\ Step(o, "rejected") /\ UNCHANGED serverVars
  <2> DEFINE rec == [op[o] EXCEPT !.pc = "rejected"]
  <2>1. rec \in OpType /\ rec.pc = "rejected" /\ rec.known = op[o].known
    BY <1>1, <1>2 DEF OpType
  <2>2. op' = [op EXCEPT ![o] = rec]
    BY <1>1, <1>4 DEF Step, TypeInv, TypeOK
  <2> HIDE DEF rec
  <2>3. op' \in [Ops -> OpType] /\ HoldsToken'
    BY <1>1, <1>2, <1>4, <2>1, <2>2, OpStep
  <2> QED BY <1>4, <2>3 DEF TypeInv, TypeOK, Serve
<1>5. CASE Step(o, "dropped") /\ UNCHANGED serverVars
  BY <1>2, <1>5, QuietPc DEF TypeInv, TypeOK, Serve
<1> QED BY <1>3, <1>4, <1>5 DEF Serve

LEMMA TypeExpire ==
    ASSUME TypeInv, NEW t \in Tokens, Expire(t) PROVE TypeInv'
BY DEF Expire, TypeInv, TypeOK, HoldsToken

LEMMA SaveBegins ==
    ASSUME TypeInv, NEW o \in Ops, BeginSave(o)
    PROVE  /\ op' \in [Ops -> OpType] /\ HoldsToken'
           /\ queue' \in Seq(JobType) /\ running' \in BOOLEAN
<1>1. "saving" \in QuietPcs
  BY DEF QuietPcs, Pcs, RefreshPcs, LockedPcs, KnownPcs
<1>2. op' \in [Ops -> OpType] /\ HoldsToken'
  BY <1>1, QuietPc DEF BeginSave
<1>3. queue' \in Seq(JobType) /\ running' \in BOOLEAN
  BY DEF BeginSave, Enqueue, Job, JobType, TypeInv, TypeOK
<1> QED BY <1>2, <1>3

LEMMA TypeAnswered ==
    ASSUME TypeInv, NEW o \in Ops, Answered(o) PROVE TypeInv'
<1> DEFINE t == op[o].got
           reg == Register(registry, o, t)
<1>1. op[o] \in OpType /\ t \in Tokens
  BY DEF TypeInv, TypeOK, HoldsToken, Answered
<1>2. reg \in RegistryType(Ops, Tokens) /\ ReleaseHandle(registry, o, t) \in RegistryType(Ops, Tokens)
  BY <1>1, HandlesClosed DEF TypeInv, TypeOK
<1>3. CASE registry' = reg /\ BeginSave(o)
  BY <1>2, <1>3, SaveBegins DEF Answered, TypeInv, TypeOK
<1>4. CASE /\ registry' = ReleaseHandle(registry, o, t)
           /\ Step(o, "disowning") /\ UNCHANGED queueVars
  <2> DEFINE rec == [op[o] EXCEPT !.pc = "disowning"]
  <2>1. rec \in OpType /\ rec.pc = "disowning" /\ rec.got = t
    BY <1>1 DEF OpType, Pcs, RefreshPcs, LockedPcs
  <2>2. op' = [op EXCEPT ![o] = rec] /\ "disowning" \notin KnownPcs
    BY <1>1, <1>4 DEF Step, TypeInv, TypeOK, KnownPcs
  <2> HIDE DEF rec
  <2>3. op' \in [Ops -> OpType] /\ HoldsToken'
    BY <1>1, <2>1, <2>2, OpStep
  <2> QED BY <1>2, <1>4, <2>3 DEF Answered, TypeInv, TypeOK
<1>5. \/ registry' = reg /\ BeginSave(o)
      \/ registry' = ReleaseHandle(registry, o, t) /\ Step(o, "disowning") /\ UNCHANGED queueVars
  BY DEF Answered, Valid, WasCancelled, Register, ReleaseHandle, MicrotaskDue
<1> QED BY <1>3, <1>4, <1>5

LEMMA PendingSynced ==
    ASSUME TypeInv, NEW g \in GateType(Blocks), NEW reg
    PROVE  SyncPending(g, reg) \in GateType(Blocks)
<1>1. "pendingRevocation" \in Blocks
  BY DEF Blocks
<1> QED BY <1>1, GateClosed DEF SyncPending

LEMMA TypeDisowned ==
    ASSUME TypeInv, NEW o \in Ops, Disowned(o) PROVE TypeInv'
<1> PICK F \in SUBSET {op[o].got} :
         LET reg == Retained(registry, {op[o].got}, F) IN
         /\ Revoke({op[o].got}, F)
         /\ gate' = SyncPending(gate, reg)
         /\ IF StillValid(gate', op[o].lease)
            THEN registry' = reg /\ BeginSave(o)
            ELSE /\ registry' = ReleaseReservation(reg, o)
                 /\ op' = [op EXCEPT ![o] = NoOp]
                 /\ UNCHANGED queueVars
  BY DEF Disowned
<1> DEFINE reg == Retained(registry, {op[o].got}, F)
<1>1. F \in SUBSET Tokens
  BY DEF TypeInv, HoldsToken, Disowned
<1>2. reg \in RegistryType(Ops, Tokens)
  BY <1>1, RetainedClosed DEF TypeInv, TypeOK
<1>3. gate' \in GateType(Blocks)
  BY PendingSynced DEF TypeInv, TypeOK
<1>4. live' \subseteq Tokens /\ UNCHANGED <<minted, bornIn>>
  BY DEF Revoke, TypeInv, TypeOK
<1>5. CASE registry' = reg /\ BeginSave(o)
  BY <1>2, <1>3, <1>4, <1>5, SaveBegins DEF Disowned, TypeInv, TypeOK
<1>6. CASE registry' = ReleaseReservation(reg, o) /\ op' = [op EXCEPT ![o] = NoOp] /\ UNCHANGED queueVars
  <2>1. registry' \in RegistryType(Ops, Tokens)
    BY <1>2, <1>6, SlotsClosed
  <2> QED BY <1>3, <1>4, <1>6, <2>1, QuietEnd DEF Disowned, TypeInv, TypeOK
<1> QED BY <1>5, <1>6

LEMMA CredentialAdopted ==
    ASSUME TypeInv, NEW o \in Ops, NEW bound \in MaybeToken, Adopted(o, bound),
           op[o].pc \in QuietPcs
    PROVE  /\ op' \in [Ops -> OpType] /\ HoldsToken'
           /\ registry' \in RegistryType(Ops, Tokens)
           /\ binding' \in MaybeToken /\ established' \in Nat /\ clock' \in Nat
<1>1. op[o] \in OpType /\ op[o].got \in MaybeToken
  BY DEF TypeInv, TypeOK, OpType
<1>2. "announcing" \in QuietPcs
  BY DEF QuietPcs, Pcs, RefreshPcs, LockedPcs, KnownPcs
<1>3. op' \in [Ops -> OpType] /\ HoldsToken'
  BY <1>2, QuietPc DEF Adopted
<1>4. registry' \in RegistryType(Ops, Tokens)
  BY DEF Adopted, ReleaseHandle, RegistryType, TypeInv, TypeOK
<1>5. binding' \in MaybeToken /\ established' \in Nat /\ clock' \in Nat
  BY <1>1 DEF Adopted, TypeInv, TypeOK
<1> QED BY <1>3, <1>4, <1>5

LEMMA TypeSaved ==
    ASSUME TypeInv, NEW o \in Ops, Saved(o) PROVE TypeInv'
<1>1. op[o].got \in MaybeToken /\ op[o].pc \in QuietPcs
  BY DEF Saved, QuietPcs, Pcs, RefreshPcs, LockedPcs, KnownPcs, TypeInv, TypeOK, OpType
<1>2. degraded' \in MaybeToken
  BY DEF Saved, MaybeToken
<1>3. CASE Adopted(o, op[o].got)
  BY <1>1, <1>2, <1>3, CredentialAdopted DEF Saved, TypeInv, TypeOK
<1>4. CASE Throw(o) /\ binding' = op[o].got /\ UNCHANGED <<established, clock>>
  BY <1>1, <1>2, <1>4, QuietThrow DEF Saved, TypeInv, TypeOK
<1> QED BY <1>3, <1>4 DEF Saved, Valid

LEMMA TypeSaveFailed ==
    ASSUME TypeInv, NEW o \in Ops, SaveFailed(o) PROVE TypeInv'
<1>1. op[o].got \in MaybeToken /\ op[o].pc \in QuietPcs
  BY DEF SaveFailed, QuietPcs, Pcs, RefreshPcs, LockedPcs, KnownPcs, TypeInv, TypeOK, OpType
<1>2. CASE degraded' = op[o].got /\ Adopted(o, binding)
  <2>1. binding \in MaybeToken
    BY DEF TypeInv, TypeOK
  <2> QED BY <1>1, <1>2, <2>1, CredentialAdopted DEF SaveFailed, TypeInv, TypeOK
<1>3. CASE Throw(o) /\ UNCHANGED <<degraded, bindVars>>
  BY <1>3, QuietThrow DEF SaveFailed, TypeInv, TypeOK
<1> QED BY <1>2, <1>3 DEF SaveFailed, Valid

LEMMA TypeAnnounced ==
    ASSUME TypeInv, NEW o \in Ops, Announced(o) PROVE TypeInv'
<1>1. op[o].got \in MaybeToken
  BY DEF TypeInv, TypeOK, OpType
<1>2. op' \in [Ops -> OpType] /\ HoldsToken'
  BY <1>1, QuietReturn, QuietEnd DEF Announced
<1>3. registry' \in RegistryType(Ops, Tokens)
  BY SlotsClosed DEF Announced, TypeInv, TypeOK
<1> QED BY <1>2, <1>3 DEF Announced, TypeInv, TypeOK

LEMMA TypeDropped ==
    ASSUME TypeInv, NEW o \in Ops, Dropped(o) PROVE TypeInv'
<1>1. op[o].held \in MaybeToken
  BY DEF TypeInv, TypeOK, OpType
<1>2. op' \in [Ops -> OpType] /\ HoldsToken'
  BY <1>1, QuietReturn, QuietEnd DEF Dropped
<1>3. registry' \in RegistryType(Ops, Tokens)
  BY SlotsClosed DEF Dropped, TypeInv, TypeOK
<1> QED BY <1>2, <1>3 DEF Dropped, TypeInv, TypeOK

LEMMA TypeRechecked ==
    ASSUME TypeInv, NEW r \in Refreshers, Rechecked(r) PROVE TypeInv'
<1>1. r \in Ops /\ op[r].known \in Tokens
  BY DEF Ops, TypeInv, HoldsToken, KnownPcs, Rechecked
<1>2. CASE Throw(r) /\ UNCHANGED <<gate, degraded, queueVars, ended>>
  BY <1>1, <1>2, QuietThrow DEF Rechecked, TypeInv, TypeOK
<1>3. CASE /\ degraded' = None /\ Step(r, "announcing")
           /\ UNCHANGED <<gate, registry, queueVars, ended>>
  <2>1. "announcing" \in QuietPcs /\ None \in MaybeToken
    BY DEF QuietPcs, Pcs, RefreshPcs, LockedPcs, KnownPcs, MaybeToken
  <2> QED BY <1>1, <1>3, <2>1, QuietPc DEF Rechecked, TypeInv, TypeOK
<1>4. CASE EndSession(r) /\ UNCHANGED registry
  BY <1>1, <1>4, SessionEnds DEF Rechecked, TypeInv, TypeOK
<1> QED BY <1>2, <1>3, <1>4 DEF Rechecked, Valid

LEMMA TypeEndRevoked ==
    ASSUME TypeInv, NEW r \in Refreshers, EndRevoked(r) PROVE TypeInv'
<1> PICK F \in SUBSET op[r].invalidate :
         LET reg == Retained(registry, op[r].invalidate, F)
             g   == EndPendingOp(SyncPending(gate, reg)) IN
         /\ Revoke(op[r].invalidate, F)
         /\ registry' = ReleaseReservation(reg, r)
         /\ gate' = ReleaseLocal(IF op[r].clearFailed
                                 THEN RetainTerminalFailure(g) ELSE g, r)
  BY DEF EndRevoked
<1> DEFINE reg == Retained(registry, op[r].invalidate, F)
           g   == EndPendingOp(SyncPending(gate, reg))
<1>1. r \in Ops /\ r \in Blocks /\ "terminalFailure" \in Blocks /\ F \in SUBSET Tokens
  BY DEF Ops, Blocks, TypeInv, TypeOK, OpType
<1>2. reg \in RegistryType(Ops, Tokens)
  BY <1>1, RetainedClosed DEF TypeInv, TypeOK
<1>3. registry' \in RegistryType(Ops, Tokens)
  BY <1>1, <1>2, SlotsClosed
<1>4. SyncPending(gate, reg) \in GateType(Blocks)
  BY PendingSynced DEF TypeInv, TypeOK
<1>5. g \in GateType(Blocks)
  BY <1>1, <1>4, GateClosed
<1>6. RetainTerminalFailure(g) \in GateType(Blocks)
  BY <1>1, <1>5, GateClosed DEF RetainTerminalFailure
<1>7. gate' \in GateType(Blocks)
  BY <1>1, <1>5, <1>6, GateClosed
<1>8. live' \subseteq Tokens /\ UNCHANGED <<minted, bornIn>>
  BY DEF Revoke, TypeInv, TypeOK
<1>9. recoveryBlocks' \subseteq Blocks
  BY <1>1 DEF EndRevoked, TypeInv, TypeOK
<1>10. op' \in [Ops -> OpType] /\ HoldsToken'
  BY <1>1, QuietEnd DEF EndRevoked
<1> QED BY <1>3, <1>7, <1>8, <1>9, <1>10 DEF EndRevoked, TypeInv, TypeOK

LEMMA LogoutStarts ==
    ASSUME TypeInv, NEW g \in GateType(Blocks), StartLogout(g)
    PROVE  /\ gate' \in GateType(Blocks) /\ logout' \in LogoutType
           /\ degraded' \in MaybeToken
           /\ queue' \in Seq(JobType) /\ running' \in BOOLEAN
<1>1. gate' \in GateType(Blocks)
  <2>1. "logout" \in Blocks
    BY DEF Blocks
  <2> QED BY <2>1, GateClosed DEF StartLogout
<1>2. {degraded} \ {None} \in SUBSET Tokens
  BY DEF TypeInv, TypeOK, MaybeToken
<1>3. \A S \in SUBSET Tokens : [NoLogout EXCEPT !.pc = "clearing", !.invalidate = S] \in LogoutType
  BY DEF NoLogout, LogoutType, LogoutPcs
<1>4. [NoLogout EXCEPT !.pc = "rejecting"] \in LogoutType
  BY DEF NoLogout, LogoutType, LogoutPcs
<1>5. logout' \in LogoutType
  BY <1>2, <1>3, <1>4 DEF StartLogout
<1>6. degraded' \in MaybeToken
  BY DEF StartLogout, TypeInv, TypeOK, MaybeToken
<1>7. queue' \in Seq(JobType) /\ running' \in BOOLEAN
  <2>1. CASE UNCHANGED queueVars
    BY <2>1 DEF TypeInv, TypeOK
  <2>2. CASE Enqueue(Job("logout", "logout", 0))
    <3>1. Job("logout", "logout", 0) \in JobType
      BY DEF Job, JobType
    <3> QED BY <2>2, <3>1, JobQueued
  <2> QED BY <2>1, <2>2 DEF StartLogout
<1> QED BY <1>1, <1>5, <1>6, <1>7

LEMMA TypeLogoutCall ==
    ASSUME TypeInv, LogoutCall PROVE TypeInv'
<1>1. gate \in GateType(Blocks)
  BY DEF TypeInv, TypeOK
<1>2. calls' \in 0..MaxCalls
  BY OneMoreCall DEF LogoutCall, TypeInv, TypeOK
<1> QED
  BY <1>1, <1>2, LogoutStarts DEF LogoutCall, TypeInv, TypeOK, HoldsToken

LEMMA PeersRetired ==
    ASSUME TypeInv, RetirePeerOperations
    PROVE  /\ tracked' \in [PeerKeys -> TrackType] /\ retired' \subseteq PeerKeys
           /\ peerEpoch' \in Nat /\ UNCHANGED <<peer, settling>>
BY DEF TypeInv, TypeOK, RetirePeerOperations, TrackType, Untracked, SettledKeys, TrackedKeys

LEMMA TypeLoginCancelled ==
    ASSUME TypeInv, LoginCancelled PROVE TypeInv'
<1>1. Reset(gate) \in GateType(Blocks)
  BY GateClosed DEF Blocks, TypeInv, TypeOK
<1>2. calls' \in 0..MaxCalls
  BY OneMoreCall DEF LoginCancelled, TypeInv, TypeOK
<1>3. /\ gate' \in GateType(Blocks) /\ logout' \in LogoutType
      /\ degraded' \in MaybeToken
      /\ queue' \in Seq(JobType) /\ running' \in BOOLEAN
  BY <1>1, LogoutStarts DEF LoginCancelled
<1>4. /\ tracked' \in [PeerKeys -> TrackType] /\ retired' \subseteq PeerKeys
      /\ peerEpoch' \in Nat /\ UNCHANGED <<peer, settling>>
  BY PeersRetired DEF LoginCancelled
<1> QED
  BY <1>2, <1>3, <1>4 DEF LoginCancelled, TypeInv, TypeOK, HoldsToken

LEMMA TypeLogoutRevoked ==
    ASSUME TypeInv, LogoutRevoked PROVE TypeInv'
<1> PICK F \in SUBSET logout.invalidate :
         /\ Revoke(logout.invalidate, F)
         /\ registry' = Retained(registry, logout.invalidate, F)
         /\ gate' = IF logout.invalidate = {} THEN gate ELSE SyncPending(gate, registry')
         /\ logout' = [logout EXCEPT !.pc = "settling",
                                     !.complete = F = {} /\ ~logout.clearFailed]
  BY DEF LogoutRevoked
<1>1. logout \in LogoutType /\ F \in SUBSET Tokens
  BY DEF TypeInv, TypeOK, LogoutType
<1>2. registry' \in RegistryType(Ops, Tokens)
  BY <1>1, RetainedClosed DEF TypeInv, TypeOK
<1>3. gate' \in GateType(Blocks)
  BY PendingSynced DEF TypeInv, TypeOK
<1>4. logout' \in LogoutType
  <2>1. \A b \in BOOLEAN : [logout EXCEPT !.pc = "settling", !.complete = b] \in LogoutType
    BY <1>1 DEF LogoutType, LogoutPcs
  <2>2. (F = {} /\ ~logout.clearFailed) \in BOOLEAN
    OBVIOUS
  <2> QED BY <2>1, <2>2
<1>5. live' \subseteq Tokens /\ UNCHANGED <<minted, bornIn>>
  BY DEF Revoke, TypeInv, TypeOK
<1> QED BY <1>2, <1>3, <1>4, <1>5 DEF LogoutRevoked, TypeInv, TypeOK, HoldsToken

LEMMA TypeLogoutSettled ==
    ASSUME TypeInv, LogoutSettled PROVE TypeInv'
<1> DEFINE g == Terminate(gate)
<1>1. g \in GateType(Blocks) /\ "logoutFailed" \in Blocks
  BY GateClosed DEF Blocks, TypeInv, TypeOK
<1>2. g.generation \in Nat
  BY <1>1 DEF GateType
<1>3. logout' \in LogoutType
  BY DEF LogoutSettled, TypeInv, TypeOK, LogoutType, LogoutPcs
<1>4. CASE gate' = g /\ UNCHANGED <<recoveryBlocks, bindVars, peerVars, ended>>
  BY <1>1, <1>3, <1>4 DEF LogoutSettled, TypeInv, TypeOK, HoldsToken
<1>5. CASE ResolveAllRecoveryBlocks(g) /\ ended' = g.generation
  <2>1. Release(g, ResolvedBlocks) \in GateType(Blocks)
    BY <1>1, GateClosed
  <2>2. gate' \in GateType(Blocks)
    BY <1>5, <2>1, PendingSynced DEF ResolveAllRecoveryBlocks
  <2>3. /\ recoveryBlocks' \subseteq Blocks
        /\ tracked' \in [PeerKeys -> TrackType] /\ retired' \subseteq PeerKeys
        /\ peerEpoch' \in Nat
    BY <1>5 DEF ResolveAllRecoveryBlocks, TrackType, Untracked, TrackedKeys, TypeInv, TypeOK
  <2>4. binding' \in MaybeToken /\ established' \in Nat
    BY <1>5 DEF ResolveAllRecoveryBlocks, MaybeToken
  <2> QED BY <1>2, <1>3, <1>5, <2>2, <2>3, <2>4
          DEF LogoutSettled, ResolveAllRecoveryBlocks, TypeInv, TypeOK, HoldsToken
<1>6. CASE /\ gate' = BlockRetained(g, "logoutFailed")
           /\ ended' = g.generation
           /\ UNCHANGED <<recoveryBlocks, bindVars, peerVars>>
  <2>1. gate' \in GateType(Blocks)
    BY <1>1, <1>6, GateClosed
  <2> QED BY <1>2, <1>3, <1>6, <2>1 DEF LogoutSettled, TypeInv, TypeOK, HoldsToken
<1> QED BY <1>4, <1>5, <1>6 DEF LogoutSettled

LEMMA TypeLogoutFinished ==
    ASSUME TypeInv, LogoutFinished PROVE TypeInv'
<1>1. gate' \in GateType(Blocks)
  BY GateClosed DEF LogoutFinished, Blocks, TypeInv, TypeOK
<1>2. logout' \in LogoutType
  BY DEF LogoutFinished, NoLogout, LogoutType, LogoutPcs
<1> QED BY <1>1, <1>2 DEF LogoutFinished, TypeInv, TypeOK, HoldsToken

LEMMA JobDone ==
    ASSUME TypeInv, NEW kind, NextJob(kind)
    PROVE  /\ Head(queue) \in JobType /\ Tail(queue) \in Seq(JobType)
           /\ kind \in {"save", "end"} => Head(queue).who \in Ops
           /\ kind \in {"peerClear", "peerLogout"} => Head(queue).who \in PeerKeys
           /\ Dequeue => queue' \in Seq(JobType) /\ running' \in BOOLEAN
<1>1. Head(queue) \in JobType /\ Tail(queue) \in Seq(JobType) /\ Head(queue).kind = kind
  BY DEF NextJob, TypeInv, TypeOK
<1>2. kind \in {"save", "end"} => Head(queue).who \in Ops
  BY <1>1 DEF JobType
<1>3. kind \in {"peerClear", "peerLogout"} => Head(queue).who \in PeerKeys
  BY <1>1 DEF JobType
<1>4. Dequeue => queue' \in Seq(JobType) /\ running' \in BOOLEAN
  BY <1>1 DEF Dequeue
<1> QED BY <1>1, <1>2, <1>3, <1>4

LEMMA QuietSavePcs == {"saved", "saveFailed", "undoing", "revoking"} \subseteq QuietPcs
BY DEF QuietPcs, Pcs, RefreshPcs, LockedPcs, EndPcs, KnownPcs

LEMMA TypeStartSave ==
    ASSUME TypeInv, StartSave PROVE TypeInv'
<1> DEFINE o == Head(queue).who
<1>1. o \in Ops /\ (Dequeue => queue' \in Seq(JobType) /\ running' \in BOOLEAN)
  BY JobDone DEF StartSave
<1>2. CASE running' = TRUE /\ UNCHANGED <<queue, op>>
  BY <1>2 DEF StartSave, TypeInv, TypeOK, HoldsToken
<1>3. CASE Dequeue /\ Step(o, "saveFailed")
  BY <1>1, <1>3, QuietPc, QuietSavePcs DEF StartSave, TypeInv, TypeOK
<1> QED BY <1>2, <1>3 DEF StartSave, Valid

LEMMA TypeFinishSave ==
    ASSUME TypeInv, FinishSave PROVE TypeInv'
<1> DEFINE o == Head(queue).who
<1>1. o \in Ops /\ (Dequeue => queue' \in Seq(JobType) /\ running' \in BOOLEAN)
  BY JobDone DEF FinishSave
<1>2. storage' \in MaybeToken
  BY <1>1 DEF FinishSave, TypeInv, TypeOK, OpType
<1>3. \/ Dequeue /\ Step(o, "saved")
      \/ Step(o, "undoing") /\ UNCHANGED queueVars
      \/ Dequeue /\ Step(o, "saveFailed")
  BY DEF FinishSave, SaveLanded, SaveRejected, Valid
<1>4. CASE Dequeue /\ Step(o, "saved")
  BY <1>1, <1>2, <1>4, QuietPc, QuietSavePcs DEF FinishSave, TypeInv, TypeOK
<1>5. CASE Step(o, "undoing") /\ UNCHANGED queueVars
  BY <1>1, <1>2, <1>5, QuietPc, QuietSavePcs DEF FinishSave, TypeInv, TypeOK
<1>6. CASE Dequeue /\ Step(o, "saveFailed")
  BY <1>1, <1>2, <1>6, QuietPc, QuietSavePcs DEF FinishSave, TypeInv, TypeOK
<1> QED BY <1>3, <1>4, <1>5, <1>6

LEMMA TypeUndoSave ==
    ASSUME TypeInv, UndoSave PROVE TypeInv'
<1>1. Head(queue).who \in Ops /\ queue' \in Seq(JobType) /\ running' \in BOOLEAN
  BY JobDone DEF UndoSave
<1>2. storage' \in MaybeToken
  BY DEF UndoSave, TypeInv, TypeOK, MaybeToken
<1> QED BY <1>1, <1>2, QuietPc, QuietSavePcs DEF UndoSave, TypeInv, TypeOK

LEMMA TypeStartEnd ==
    ASSUME TypeInv, StartEnd PROVE TypeInv'
<1> DEFINE o == Head(queue).who
           rec == [op[o] EXCEPT !.invalidate = @ \union Drained(registry)]
<1>1. o \in Ops
  BY JobDone DEF StartEnd
<1>2. registry' \in RegistryType(Ops, Tokens) /\ Drained(registry) \subseteq Tokens
  BY DrainClosed DEF StartEnd, TypeInv, TypeOK
<1>3. op[o] \in OpType
  BY <1>1 DEF TypeInv, TypeOK
<1>4. rec \in OpType /\ rec.pc = op[o].pc /\ rec.known = op[o].known /\ rec.got = op[o].got
  BY <1>2, <1>3 DEF OpType
<1>5. op' = [op EXCEPT ![o] = rec]
  BY <1>1 DEF StartEnd, TypeInv, TypeOK
<1> HIDE DEF rec
<1>6. op' \in [Ops -> OpType] /\ HoldsToken'
  BY <1>1, <1>4, <1>5, OpStep DEF TypeInv, HoldsToken
<1> QED BY <1>2, <1>6 DEF StartEnd, TypeInv, TypeOK

LEMMA TypeFinishEnd ==
    ASSUME TypeInv, FinishEnd PROVE TypeInv'
<1> DEFINE o == Head(queue).who
<1>1. o \in Ops /\ queue' \in Seq(JobType) /\ running' \in BOOLEAN
  BY JobDone DEF FinishEnd
<1>2. op[o] \in OpType
  BY <1>1 DEF TypeInv, TypeOK
<1>3. PICK cleared \in BOOLEAN :
         /\ storage' = IF cleared THEN None ELSE storage
         /\ op' = [op EXCEPT ![o].pc = "revoking", ![o].clearFailed = ~cleared]
  BY DEF FinishEnd
<1> DEFINE rec == [op[o] EXCEPT !.pc = "revoking", !.clearFailed = ~cleared]
<1>4. rec \in OpType /\ rec.pc = "revoking"
  BY <1>2, QuietSavePcs DEF OpType, QuietPcs
<1>5. op' = [op EXCEPT ![o] = rec]
  BY <1>1, <1>3 DEF TypeInv, TypeOK
<1> HIDE DEF rec
<1>6. op' \in [Ops -> OpType] /\ HoldsToken'
  BY <1>1, <1>4, <1>5, QuietStep, QuietSavePcs
<1>7. storage' \in MaybeToken
  BY <1>3 DEF TypeInv, TypeOK, MaybeToken
<1> QED BY <1>1, <1>6, <1>7 DEF FinishEnd, TypeInv, TypeOK

LEMMA TypeStartLogoutClear ==
    ASSUME TypeInv, StartLogoutClear PROVE TypeInv'
<1>1. PICK read \in {None, storage} :
         logout' = [logout EXCEPT !.invalidate = @ \union Drained(registry)
                                                      \union ({read} \ {None})]
  BY DEF StartLogoutClear
<1>2. registry' \in RegistryType(Ops, Tokens) /\ Drained(registry) \subseteq Tokens
  BY DrainClosed DEF StartLogoutClear, TypeInv, TypeOK
<1>3. {read} \ {None} \subseteq Tokens
  BY DEF TypeInv, TypeOK, MaybeToken
<1>4. logout' \in LogoutType
  BY <1>1, <1>2, <1>3 DEF LogoutType, TypeInv, TypeOK
<1> QED BY <1>2, <1>4 DEF StartLogoutClear, TypeInv, TypeOK, HoldsToken

LEMMA TypeFinishLogoutClear ==
    ASSUME TypeInv, FinishLogoutClear PROVE TypeInv'
<1>1. PICK cleared \in BOOLEAN :
         /\ storage' = IF cleared THEN None ELSE storage
         /\ logout' = [logout EXCEPT !.pc = "revoking", !.clearFailed = ~cleared]
  BY DEF FinishLogoutClear
<1>2. logout' \in LogoutType
  BY <1>1 DEF LogoutType, LogoutPcs, TypeInv, TypeOK
<1>3. storage' \in MaybeToken
  BY <1>1 DEF MaybeToken, TypeInv, TypeOK
<1>4. queue' \in Seq(JobType) /\ running' \in BOOLEAN
  BY JobDone DEF FinishLogoutClear
<1> QED BY <1>2, <1>3, <1>4 DEF FinishLogoutClear, TypeInv, TypeOK, HoldsToken

LEMMA TypePeerClear ==
    ASSUME TypeInv, PeerClear PROVE TypeInv'
<1>1. PICK cleared \in BOOLEAN :
         /\ storage' = IF cleared THEN None ELSE storage
         /\ settling' = settling \union {[job |-> Head(queue), cleared |-> cleared]}
  BY DEF PeerClear
<1>2. Head(queue) \in JobType /\ queue' \in Seq(JobType) /\ running' \in BOOLEAN
  BY JobDone DEF PeerClear
<1>3. settling' \subseteq [job : JobType, cleared : BOOLEAN]
  BY <1>1, <1>2 DEF TypeInv, TypeOK
<1>4. storage' \in MaybeToken
  BY <1>1 DEF MaybeToken, TypeInv, TypeOK
<1> QED BY <1>2, <1>3, <1>4 DEF PeerClear, TypeInv, TypeOK, HoldsToken

LEMMA PeerBlocked ==
    ASSUME TypeInv, NEW k \in PeerKeys, BlockForPeer(k)
    PROVE  gate' \in GateType(Blocks)
<1>1. Block(gate, k) \in GateType(Blocks) /\ k \in Blocks
  BY GateClosed DEF Blocks, TypeInv, TypeOK
<1> QED BY <1>1, GateClosed DEF BlockForPeer

LEMMA TypeOnSessionCleared ==
    ASSUME TypeInv, NEW k \in PeerKeys, OnSessionCleared(k) PROVE TypeInv'
<1>1. gate' \in GateType(Blocks)
  BY PeerBlocked DEF OnSessionCleared
<1>2. Job("peerClear", k, peerEpoch) \in JobType
  BY DEF Job, JobType, TypeInv, TypeOK
<1>3. queue' \in Seq(JobType) /\ running' \in BOOLEAN
  BY <1>2, JobQueued DEF OnSessionCleared
<1>4. tracked' \in [PeerKeys -> TrackType]
  BY DEF OnSessionCleared, TrackType, TypeInv, TypeOK
<1> QED BY <1>1, <1>3, <1>4 DEF OnSessionCleared, TypeInv, TypeOK, HoldsToken, MaybeToken

LEMMA TypeOnLogout ==
    ASSUME TypeInv, NEW k \in PeerKeys, OnLogout(k) PROVE TypeInv'
<1> DEFINE e == IF tracked[k].on THEN tracked[k].epoch ELSE peerEpoch
<1>1. gate' \in GateType(Blocks)
  BY PeerBlocked DEF OnLogout
<1>2. e \in Nat
  BY DEF TrackType, TypeInv, TypeOK
<1>3. Job("peerLogout", k, e) \in JobType
  BY <1>2 DEF Job, JobType
<1>4. queue' \in Seq(JobType) /\ running' \in BOOLEAN
  BY <1>3, JobQueued DEF OnLogout
<1>5. tracked' \in [PeerKeys -> TrackType] /\ retired' \subseteq PeerKeys
  BY DEF OnLogout, TrackType, Untracked, TypeInv, TypeOK
<1> QED BY <1>1, <1>4, <1>5 DEF OnLogout, TypeInv, TypeOK, HoldsToken, MaybeToken

LEMMA PeerBlockRetained ==
    ASSUME NEW k \in PeerKeys, NEW g \in GateType(Blocks), recoveryBlocks \subseteq Blocks,
           RetainPeerBlock(g, k)
    PROVE  gate' \in GateType(Blocks) /\ recoveryBlocks' \subseteq Blocks
<1>1. k \in Blocks
  BY DEF Blocks
<1> QED BY <1>1, GateClosed DEF RetainPeerBlock

LEMMA BindingForgotten ==
    ForgetBinding => binding' \in MaybeToken /\ established' \in Nat /\ UNCHANGED clock
BY DEF ForgetBinding, MaybeToken

LEMMA TypePeerClearSettled ==
    ASSUME TypeInv, NEW k \in PeerKeys, PeerClearSettled(k) PROVE TypeInv'
<1> DEFINE g == EndPendingOp(gate)
<1>1. g \in GateType(Blocks) /\ recoveryBlocks \subseteq Blocks
  BY GateClosed DEF Blocks, TypeInv, TypeOK
<1>2. tracked' \in [PeerKeys -> TrackType] /\ settling' \subseteq settling
  <2>1. tracked[k] \in TrackType
    BY DEF TypeInv, TypeOK
  <2>2. [tracked[k] EXCEPT !.settled = tracked[k].on] \in TrackType
    BY <2>1 DEF TrackType
  <2>3. tracked' = [tracked EXCEPT ![k].settled = tracked[k].on]
    BY DEF PeerClearSettled
  <2> QED BY <2>2, <2>3 DEF PeerClearSettled, TypeInv, TypeOK
<1>3. CASE gate' = g /\ UNCHANGED <<recoveryBlocks, bindVars>>
  BY <1>1, <1>2, <1>3 DEF PeerClearSettled, TypeInv, TypeOK, HoldsToken
<1>4. CASE gate' = g /\ ForgetBinding /\ UNCHANGED recoveryBlocks
  BY <1>1, <1>2, <1>4, BindingForgotten DEF PeerClearSettled, TypeInv, TypeOK, HoldsToken
<1>5. CASE RetainPeerBlock(g, k) /\ UNCHANGED bindVars
  BY <1>1, <1>2, <1>5, PeerBlockRetained DEF PeerClearSettled, TypeInv, TypeOK, HoldsToken
<1> QED BY <1>3, <1>4, <1>5 DEF PeerClearSettled

LEMMA TypePeerLogoutSettled ==
    ASSUME TypeInv, NEW k \in PeerKeys, PeerLogoutSettled(k) PROVE TypeInv'
<1> DEFINE g == EndPendingOp(gate)
<1>1. g \in GateType(Blocks) /\ recoveryBlocks \subseteq Blocks /\ k \in Blocks
  BY GateClosed DEF Blocks, TypeInv, TypeOK
<1>2. Release(g, {k}) \in GateType(Blocks) /\ Terminate(g) \in GateType(Blocks)
  BY <1>1, GateClosed
<1>3. PeerLogoutOver(g, k) \in GateType(Blocks)
  BY <1>1, <1>2, GateClosed DEF PeerLogoutOver
<1>4. settling' \subseteq settling /\ gate.generation + 1 \in Nat
  BY DEF PeerLogoutSettled, GateType, TypeInv, TypeOK
<1>5. CASE gate' = Release(g, {k}) /\ UNCHANGED <<recoveryBlocks, bindVars, ended>>
  BY <1>2, <1>4, <1>5 DEF PeerLogoutSettled, TypeInv, TypeOK, HoldsToken
<1>6. CASE /\ gate' = PeerLogoutOver(g, k) /\ ended' = gate.generation + 1
           /\ ForgetBinding /\ UNCHANGED recoveryBlocks
  BY <1>3, <1>4, <1>6, BindingForgotten DEF PeerLogoutSettled, TypeInv, TypeOK, HoldsToken
<1>7. CASE /\ RetainPeerBlock(g, k) /\ ended' = gate.generation + 1 /\ UNCHANGED bindVars
  BY <1>1, <1>4, <1>7, PeerBlockRetained DEF PeerLogoutSettled, TypeInv, TypeOK, HoldsToken
<1> QED BY <1>5, <1>6, <1>7 DEF PeerLogoutSettled

LEMMA TypeOnTokenUpdated ==
    ASSUME TypeInv, NEW u \in Updates, OnTokenUpdated(u) PROVE TypeInv'
<1> DEFINE rec == [NoOp EXCEPT !.pc = "updating", !.lease = gate.generation]
<1>1. u \in Ops /\ gate.generation \in Nat
  BY DEF Ops, GateType, TypeInv, TypeOK
<1>2. "updating" \in QuietPcs /\ "updating" \in Pcs
  BY DEF QuietPcs, Pcs, RefreshPcs, LockedPcs, KnownPcs
<1>3. rec \in OpType /\ rec.pc = "updating"
  BY <1>1, <1>2, NoOpTyped DEF OpType
<1>4. op' = [op EXCEPT ![u] = rec]
  BY DEF OnTokenUpdated
<1> HIDE DEF rec
<1>5. op' \in [Ops -> OpType] /\ HoldsToken'
  BY <1>1, <1>2, <1>3, <1>4, QuietStep
<1> QED BY <1>5 DEF OnTokenUpdated, TypeInv, TypeOK

LEMMA TypeTokenUpdated ==
    ASSUME TypeInv, NEW u \in Updates, TokenUpdated(u) PROVE TypeInv'
<1>1. u \in Ops
  BY DEF Ops
<1>2. op' \in [Ops -> OpType] /\ HoldsToken'
  BY <1>1, QuietEnd DEF TokenUpdated
<1>3. binding' \in MaybeToken /\ established' \in Nat /\ clock' \in Nat
  BY <1>1, LoadAdopted DEF TokenUpdated, TypeInv, TypeOK
<1> QED BY <1>2, <1>3 DEF TokenUpdated, TypeInv, TypeOK

LEMMA TypePeerBegins ==
    ASSUME TypeInv, NEW k \in PeerKeys, PeerBegins(k) PROVE TypeInv'
<1>1. PICK v \in {None, storage} :
         /\ peer' = [peer EXCEPT ![k] = [begun |-> TRUE, version |-> v, startedAt |-> clock]]
         /\ storage' = IF v = None THEN storage ELSE None
         /\ live' = live \ {v}
  BY DEF PeerBegins
<1>2. v \in MaybeToken /\ storage' \in MaybeToken
  BY <1>1 DEF MaybeToken, TypeInv, TypeOK
<1>3. peer' \in [PeerKeys -> PeerType]
  BY <1>1, <1>2 DEF PeerType, TypeInv, TypeOK
<1>4. live' \subseteq Tokens
  BY <1>1 DEF TypeInv, TypeOK
<1> QED BY <1>2, <1>3, <1>4 DEF PeerBegins, TypeInv, TypeOK, HoldsToken

LEMMA TypePeerRotates ==
    ASSUME TypeInv, PeerRotates PROVE TypeInv'
<1>1. MaxTokens \in Nat /\ minted \in 0..MaxTokens /\ minted < MaxTokens
  BY ConstantsAssumption DEF PeerRotates, TypeInv, TypeOK
<1>2. minted' \in Tokens /\ minted' \in 0..MaxTokens
  BY <1>1 DEF PeerRotates, Tokens
<1>3. storage' \in MaybeToken /\ live' \subseteq Tokens
  BY <1>2 DEF PeerRotates, MaybeToken, TypeInv, TypeOK
<1>4. bornIn' \in [Tokens -> Nat]
  BY DEF PeerRotates, TypeInv, TypeOK
<1> QED BY <1>2, <1>3, <1>4 DEF PeerRotates, TypeInv, TypeOK, HoldsToken

LEMMA TypeStutter ==
    ASSUME TypeInv, UNCHANGED vars PROVE TypeInv'
BY DEF vars, TypeInv, TypeOK, HoldsToken

------------------------------------------------------------------------------
(* Every step, by the groups of Next *)

LEMMA TypeContinue ==
    ASSUME TypeInv, NEW o \in Ops, Continue(o) PROVE TypeInv'
BY TypeReadStorage, TypeGotToken, TypeLoaded, TypeLockAcquired, TypeReloaded,
   TypeRechecked, TypeEndRevoked, TypeAnswered, TypeDisowned, TypeSaved, TypeSaveFailed,
   TypeAnnounced, TypeDropped, TypeTokenUpdated
   DEF Continue

LEMMA TypeStorageStep ==
    ASSUME TypeInv, StorageStep PROVE TypeInv'
BY TypeStartSave, TypeFinishSave, TypeUndoSave, TypeStartEnd, TypeFinishEnd,
   TypeStartLogoutClear, TypeFinishLogoutClear, TypePeerClear
   DEF StorageStep

LEMMA TypeApplication ==
    ASSUME TypeInv, Application PROVE TypeInv'
BY TypeBeginLogin, TypeLoginCancelled, TypeLogoutCall, TypeCall, TypeCallbackCall
   DEF Application, GetTokenCall, RefreshCall

LEMMA TypeEnvironment ==
    ASSUME TypeInv, Environment PROVE TypeInv'
BY TypeServe, TypeExpire, TypePeerRotates, TypePeerBegins, TypeOnSessionCleared,
   TypeOnLogout, TypeOnTokenUpdated
   DEF Environment

LEMMA TypeNext == TypeInv /\ [Next]_vars => TypeInv'
<1> SUFFICES ASSUME TypeInv, [Next]_vars PROVE TypeInv'
  OBVIOUS
<1>1. CASE Application  BY <1>1, TypeApplication
<1>2. CASE \E o \in Ops : Continue(o)  BY <1>2, TypeContinue
<1>3. CASE StorageStep  BY <1>3, TypeStorageStep
<1>4. CASE LogoutStep
  BY <1>4, TypeLogoutRevoked, TypeLogoutSettled, TypeLogoutFinished DEF LogoutStep
<1>5. CASE \E k \in PeerKeys : PeerClearSettled(k) \/ PeerLogoutSettled(k)
  BY <1>5, TypePeerClearSettled, TypePeerLogoutSettled
<1>6. CASE Environment  BY <1>6, TypeEnvironment
<1>7. CASE UNCHANGED vars  BY <1>7, TypeStutter
<1> QED BY <1>1, <1>2, <1>3, <1>4, <1>5, <1>6, <1>7 DEF Next

\* Every variable of the client keeps its type, for any number of operations, other
\* tabs, credentials and calls: in particular no step sends, stores, revokes or hands
\* over "no credential" where the code has a credential in hand.
THEOREM TypeCorrect == Spec => []TypeOK
<1>1. TypeInv => TypeOK
  BY DEF TypeInv
<1> QED BY TypeInit, TypeNext, <1>1, PTL DEF Spec
==============================================================================
