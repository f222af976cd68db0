------------------------------ MODULE AuthClient ------------------------------
(***************************************************************************)
(* The credential lifecycle of one tab of ts-oidc-auth-client              *)
(* (src/client.ts), in the browser code-flow topology: a TokenStorage that *)
(* JavaScript reads, a token endpoint that rotates, other tabs.            *)
(*                                                                         *)
(* A step runs from one await to the next: JavaScript runs it without      *)
(* interruption, and every other step of the tab, the server and the other *)
(* tabs may come between two of them.  What an operation keeps in local    *)
(* variables across an await is its record in op.                          *)
(*                                                                         *)
(* Credentials are numbered in the order the server mints them: 0 is none. *)
(* Split access and refresh values, expiry times and texts are abstracted: *)
(* a branch on them is a free choice.                                      *)
(***************************************************************************)
EXTENDS Naturals, Sequences, FiniteSets, SessionGate, CredentialRegistry

CONSTANTS
    Refreshers,        \* calls of refresh() and getToken() in this tab
    Callbacks,         \* calls of handleCallback() in this tab
    Updates,           \* deliveries of token-updated to this tab
    PeerKeys,          \* lifecycle operations of other tabs: (tabId, operationId)
    SharedCredential,  \* topology: shared-credential, else per-tab
    UseNavLocks,       \* refresh under navigator.locks, else the in-page chain
    LoginOverSession,  \* the application may log in while it has a credential
    MaxTracked,        \* capacity of the registry
    MaxTokens,         \* bound: credentials the server mints
    MaxCalls           \* bound: calls the application makes

None == 0
Tokens == 1..MaxTokens
MaybeToken == Tokens \union {None}

Ops == Refreshers \union Callbacks \union Updates

\* The names of the blocks of the gate, by who owns them.
Blocks == Refreshers \union PeerKeys
              \union {"logout", "logoutFailed", "pendingRevocation", "terminalFailure"}

ASSUME ConstantsAssumption ==
    /\ MaxTracked \in Nat \ {0} /\ MaxTokens \in Nat \ {0} /\ MaxCalls \in Nat
    /\ SharedCredential \in BOOLEAN /\ UseNavLocks \in BOOLEAN
    /\ LoginOverSession \in BOOLEAN
    /\ Refreshers \intersect Callbacks = {}
    /\ (Refreshers \union Callbacks) \intersect Updates = {}
    /\ Ops \intersect PeerKeys = {}
    /\ (Refreshers \union PeerKeys) \intersect
           {"logout", "logoutFailed", "pendingRevocation", "terminalFailure"} = {}

VARIABLES
    gate,            \* SessionGate
    recoveryBlocks,  \* blocks only a completed logout releases
    registry,        \* CredentialRegistry
    storage,         \* the credential in TokenStorage
    degraded,        \* memory mirror of a credential that could not be saved
    binding,         \* currentSessionVersion
    established,     \* sessionEstablishedAt, 0 when there is no trusted epoch
    clock,           \* time, counted in sessions established by this tab
    txn,             \* a login transaction is stored
    queue, running,  \* storageMutation: jobs in order; the head has started
    op,              \* local state of each operation of Ops
    logout,          \* local state of the logout in flight, if there is one
    peer,            \* what the messages of each peer operation say
    tracked,         \* peerOperations
    retired,         \* retiredPeerOperations
    peerEpoch,
    settling,        \* peer clears that are over and whose continuation is due
    minted, live,    \* the server: credentials minted so far, and still valid
    bornIn,          \* generation whose operation caused each credential
    ended,           \* every session begun before this generation is over
    calls            \* calls made so far

bindVars   == <<binding, established, clock>>
queueVars  == <<queue, running>>
peerVars   == <<peer, tracked, retired, peerEpoch, settling>>
serverVars == <<minted, live, bornIn>>

vars == <<gate, recoveryBlocks, registry, storage, degraded, bindVars, txn,
          queueVars, op, logout, peerVars, serverVars, ended, calls>>

------------------------------------------------------------------------------
(* Operations and their program counters *)

\* Waiting for storage.load(), and having its answer.
LoadPcs  == {"reading", "loading", "reloading", "rejected", "updating"}
AnswerOf == [reading |-> "read", loading |-> "loaded", reloading |-> "reloaded",
             rejected |-> "rechecked", updating |-> "updated"]

\* Inside withCrossTabLock(); EndPcs: inside endSessionLocally().
EndPcs    == {"ending", "revoking"}
LockedPcs == {"reloading", "reloaded", "posted", "answered", "rejected", "rechecked",
              "dropped", "disowning", "saving", "undoing", "saved", "saveFailed",
              "announcing"} \union EndPcs
RefreshPcs == LockedPcs \union {"loading", "loaded", "locking"}

Pcs == RefreshPcs \union {"idle", "reading", "read", "updating", "updated", "returned"}

OpType ==
    [pc : Pcs, lease : Nat,
     held  : MaybeToken,        \* what getToken() read before it refreshed
     known : MaybeToken,        \* start, then current: the credential being rotated
     got   : MaybeToken,        \* last credential loaded or minted
     invalidate : SUBSET Tokens,
     clearFailed : BOOLEAN]

NoOp == [pc |-> "idle", lease |-> 0, held |-> None, known |-> None, got |-> None,
         invalidate |-> {}, clearFailed |-> FALSE]

LogoutPcs == {"idle", "rejecting", "clearing", "revoking", "settling", "finishing"}
LogoutType == [pc : LogoutPcs, invalidate : SUBSET Tokens, clearFailed : BOOLEAN,
               complete : BOOLEAN]
NoLogout == [pc |-> "idle", invalidate |-> {}, clearFailed |-> FALSE, complete |-> FALSE]

JobType  == [kind : {"save", "end"}, who : Ops, epoch : {0}]
                \union [kind : {"logout"}, who : {"logout"}, epoch : {0}]
                \union [kind : {"peerClear", "peerLogout"}, who : PeerKeys, epoch : Nat]
Job(kind, who, epoch) == [kind |-> kind, who |-> who, epoch |-> epoch]

PeerType  == [begun : BOOLEAN, version : MaybeToken, startedAt : Nat]
TrackType == [on : BOOLEAN, epoch : Nat, settled : BOOLEAN]
Untracked == [on |-> FALSE, epoch |-> 0, settled |-> FALSE]
TrackedKeys == {k \in PeerKeys : tracked[k].on}

Valid(o) == StillValid(gate, op[o].lease)

\* A continuation that is due without waiting for anything.  JavaScript runs all of
\* these before it takes an answer of the network or a message of another tab.
MicrotaskDue ==
    \/ \E o \in Ops : op[o].pc \in {"saved", "saveFailed", "announcing"}
    \/ logout.pc \in {"rejecting", "settling", "finishing"}
    \/ settling # {}

Step(o, pc)   == op' = [op EXCEPT ![o].pc = pc]
Return(o, t)  == op' = [op EXCEPT ![o] = [NoOp EXCEPT !.pc = "returned",
                                             !.lease = op[o].lease, !.got = t]]
Enqueue(job) == queue' = Append(queue, job) /\ UNCHANGED running
Dequeue      == queue' = Tail(queue) /\ running' = FALSE
NextJob(kind) == queue # <<>> /\ Head(queue).kind = kind

\* The operation throws; the finally of its reservation frees the slot.
Throw(o) == /\ op' = [op EXCEPT ![o] = NoOp]
            /\ registry' = ReleaseReservation(registry, o)

\* loadToken() answers from the memory mirror when there is one.
BeginLoad(o, pc) ==
    IF degraded # None THEN [op[o] EXCEPT !.pc = AnswerOf[pc], !.got = degraded]
                       ELSE [op[o] EXCEPT !.pc = pc, !.got = None]

\* adoptObservedSession() of what a load answered.
AdoptLoaded(o) ==
    /\ binding' = IF op[o].got # None THEN op[o].got ELSE binding
    /\ UNCHANGED <<established, clock>>

\* Mutant: nothing lifts the block once the pending credentials are gone.
SyncPending_NeverLifts(g, reg) ==
    IF reg.pending # {} THEN BlockRetained(g, "pendingRevocation") ELSE g

\* Fail closed exactly as long as a credential is known to be live and unrevoked.
SyncPending(g, reg) ==
    IF reg.pending # {} THEN BlockRetained(g, "pendingRevocation")
                        ELSE Release(g, {"pendingRevocation"})

\* A round of revocations of S in which exactly those of F are not confirmed.
Revoke(S, F) == live' = live \ (S \ F) /\ UNCHANGED <<minted, bornIn>>

------------------------------------------------------------------------------
(* Login *)

LoginAllowed == ~LifecycleBusy(gate) /\ ~Blocked(gate)

SettledKeys == {k \in TrackedKeys : tracked[k].settled}

RetirePeerOperations ==
    /\ peerEpoch' = peerEpoch + 1
    /\ retired' = retired \union SettledKeys
    /\ tracked' = [k \in PeerKeys |-> IF k \in SettledKeys THEN Untracked ELSE tracked[k]]
    /\ UNCHANGED <<peer, settling>>

BeginLogin ==
    /\ calls < MaxCalls /\ calls' = calls + 1
    /\ LoginAllowed
    /\ txn' = TRUE
    /\ gate' = Reset(gate)
    /\ RetirePeerOperations
    /\ UNCHANGED <<recoveryBlocks, registry, storage, degraded, bindVars, queueVars, op,
                   logout, serverVars, ended>>

\* The transaction is spent whatever the response carries; a refused response, an
\* expired transaction and a full registry all throw before the exchange.
CallbackCall(c) ==
    /\ calls < MaxCalls /\ calls' = calls + 1
    /\ op[c].pc \in {"idle", "returned"}
    /\ ~Blocked(gate)
    /\ LoginOverSession \/ (storage = None /\ degraded = None)
    /\ txn /\ txn' = FALSE
    /\ \/ UNCHANGED <<op, registry>>
       \/ /\ CanReserve(registry, MaxTracked)
          /\ registry' = Reserve(registry, c)
          /\ op' = [op EXCEPT ![c] = [NoOp EXCEPT !.pc = "posted",
                                                  !.lease = gate.generation]]
    /\ UNCHANGED <<gate, recoveryBlocks, storage, degraded, bindVars, queueVars, logout,
                   peerVars, serverVars, ended>>

------------------------------------------------------------------------------
(* The server *)

Mint(o, parent) ==
    /\ minted < MaxTokens
    /\ minted' = minted + 1
    /\ live' = (live \ parent) \union {minted + 1}
    /\ bornIn' = [bornIn EXCEPT ![minted + 1] = op[o].lease]

\* The answer to a request that mints arrives, or it does not although the server
\* has minted.  parent: the credential a rotation consumes.
Answer(o, parent) ==
    /\ Mint(o, parent)
    /\ \/ op' = [op EXCEPT ![o].pc = "answered", ![o].got = minted + 1]
       \/ Step(o, "dropped")

\* POST /token rotates a credential that is alive, refuses one that is not, and
\* may fail without doing either.  GET /callback mints or fails.
Serve(o) ==
    /\ op[o].pc = "posted"
    /\ \/ o \in Refreshers /\ op[o].known \in live /\ Answer(o, {op[o].known})
       \/ o \in Callbacks /\ Answer(o, {})
       \/ /\ o \in Refreshers /\ op[o].known \notin live
          /\ Step(o, "rejected") /\ UNCHANGED serverVars
       \/ Step(o, "dropped") /\ UNCHANGED serverVars
    /\ UNCHANGED <<gate, recoveryBlocks, registry, storage, degraded, bindVars, txn,
                   queueVars, logout, peerVars, ended, calls>>

\* The server forgets a credential: it expired, or the session ended there.
Expire(t) ==
    /\ t \in live
    /\ live' = live \ {t}
    /\ UNCHANGED <<gate, recoveryBlocks, registry, storage, degraded, bindVars, txn,
                   queueVars, op, logout, peerVars, minted, bornIn, ended, calls>>

------------------------------------------------------------------------------
(* getToken() and refresh() up to the request *)

\* refreshWithOutcome(): one rotation at a time within a generation; a caller that
\* would be the second one waits for the first or shares its outcome.
MayRefresh(n) == \A r \in Refreshers : op[r].pc \in RefreshPcs => op[r].lease # n

Call(r, pc) ==
    /\ calls < MaxCalls /\ calls' = calls + 1
    /\ op[r].pc \in {"idle", "returned"}
    /\ ~Blocked(gate)
    /\ LET fresh == [NoOp EXCEPT !.lease = gate.generation] IN
       op' = [op EXCEPT ![r] = IF degraded # None
                               THEN [fresh EXCEPT !.pc = AnswerOf[pc], !.got = degraded]
                               ELSE [fresh EXCEPT !.pc = pc]]
    /\ UNCHANGED <<gate, recoveryBlocks, registry, storage, degraded, bindVars, txn,
                   queueVars, logout, peerVars, serverVars, ended>>

GetTokenCall(r) == Call(r, "reading")
RefreshCall(r)  == MayRefresh(gate.generation) /\ Call(r, "loading")

\* storage.load() takes its value at any moment and delivers it at a later one; it
\* may also reject, which only the 401 path survives.
ReadStorage(o) ==
    /\ op[o].pc \in LoadPcs
    /\ op[o].pc = "rejected" => ~MicrotaskDue
    /\ \/ /\ op' = [op EXCEPT ![o].pc = AnswerOf[@], ![o].got = storage]
          /\ UNCHANGED registry
       \/ /\ op[o].pc = "rejected"
          /\ op' = [op EXCEPT ![o].pc = "rechecked", ![o].got = None]
          /\ UNCHANGED registry
       \/ op[o].pc # "rejected" /\ Throw(o)
    /\ UNCHANGED <<gate, recoveryBlocks, storage, degraded, bindVars, txn, queueVars,
                   logout, peerVars, serverVars, ended, calls>>

\* Mutant: the lease is not revalidated after the load.
GotToken_NoLease(r) ==
    /\ op[r].pc = "read"
    /\ AdoptLoaded(r)
    /\ IF op[r].got = None THEN op' = [op EXCEPT ![r] = NoOp] ELSE Return(r, op[r].got)
    /\ UNCHANGED <<gate, recoveryBlocks, registry, storage, degraded, txn, queueVars,
                   logout, peerVars, serverVars, ended, calls>>

\* getToken() has its token: it returns it, or goes on to refresh.
GotToken(r) ==
    /\ op[r].pc = "read"
    /\ AdoptLoaded(r)
    /\ \/ /\ ~Valid(r) \/ op[r].got = None
          /\ op' = [op EXCEPT ![r] = NoOp]
       \/ Valid(r) /\ op[r].got # None /\ Return(r, op[r].got)
       \/ /\ Valid(r) /\ op[r].got # None /\ MayRefresh(op[r].lease)
          /\ op' = [op EXCEPT ![r] = [BeginLoad(r, "loading") EXCEPT !.held = op[r].got]]
    /\ UNCHANGED <<gate, recoveryBlocks, registry, storage, degraded, txn, queueVars,
                   logout, peerVars, serverVars, ended, calls>>

\* doRefresh() has its start token; one that cannot be refreshed throws.
Loaded(r) ==
    /\ op[r].pc = "loaded"
    /\ AdoptLoaded(r)
    /\ \/ op' = [op EXCEPT ![r] = NoOp]
       \/ /\ Valid(r) /\ op[r].got # None
          /\ op' = [op EXCEPT ![r].pc = "locking", ![r].known = op[r].got]
    /\ UNCHANGED <<gate, recoveryBlocks, registry, storage, degraded, txn, queueVars,
                   logout, peerVars, serverVars, ended, calls>>

\* navigator.locks: one holder.  The in-page chain is one per generation, which
\* MayRefresh already keeps to one.
LockFree == UseNavLocks => \A r \in Refreshers : op[r].pc \notin LockedPcs

LockAcquired(r) ==
    /\ op[r].pc = "locking" /\ LockFree
    /\ op' = [op EXCEPT ![r] = IF Valid(r) THEN BeginLoad(r, "reloading") ELSE NoOp]
    /\ UNCHANGED <<gate, recoveryBlocks, registry, storage, degraded, bindVars, txn,
                   queueVars, logout, peerVars, serverVars, ended, calls>>

\* What r does from gate g before its first await, when known is what it rotated.
EndWith(r, g, known) ==
    /\ gate' = BeginPendingOp(g)
    /\ degraded' = None
    /\ op' = [op EXCEPT ![r].pc = "ending", ![r].invalidate = {known}]
    /\ Enqueue(Job("end", r, 0))
    /\ ended' = gate.generation + 1

\* Mutant: the transition starts without a new generation.
EndSession_SameGeneration(r) == EndWith(r, BlockLocal(gate, r), op[r].known)

\* Mutant: it is seeded with what was read last, which may be nothing.
EndSession_OfLatest(r) == EndWith(r, Terminate(BlockLocal(gate, r)), op[r].got)

\* endSessionLocally(): a new generation, a block of its own, the credential it knows.
EndSession(r) == EndWith(r, Terminate(BlockLocal(gate, r)), op[r].known)

\* Under the lock, with the credential read again.
Reloaded(r) ==
    /\ op[r].pc = "reloaded"
    /\ AdoptLoaded(r)
    /\ \/ op[r].got = None /\ EndSession(r) /\ UNCHANGED registry
       \/ /\ op[r].got # None
          /\ \/ op' = [op EXCEPT ![r] = NoOp] /\ UNCHANGED registry
             \/ Valid(r) /\ Return(r, op[r].got) /\ UNCHANGED registry
             \/ /\ Valid(r) /\ CanReserve(registry, MaxTracked)
                /\ registry' = Reserve(registry, r)
                /\ op' = [op EXCEPT ![r].pc = "posted", ![r].known = op[r].got]
          /\ UNCHANGED <<gate, degraded, queueVars, ended>>
    /\ UNCHANGED <<recoveryBlocks, storage, txn, logout, peerVars, serverVars, calls>>

------------------------------------------------------------------------------
(* From the answer of the server to the answer of the caller *)

BeginSave(o) == Step(o, "saving") /\ Enqueue(Job("save", o, 0))

\* Mutant: the lease is checked before the credential is registered.
Answered_LeaseFirst(o) ==
    /\ op[o].pc = "answered" /\ ~MicrotaskDue
    /\ \/ /\ Valid(o)
          /\ registry' = Register(registry, o, op[o].got)
          /\ BeginSave(o)
       \/ /\ ~Valid(o)
          /\ Throw(o)
          /\ UNCHANGED queueVars
    /\ UNCHANGED <<gate, recoveryBlocks, storage, degraded, bindVars, txn, logout,
                   peerVars, serverVars, ended, calls>>

\* The credential is registered before the lease is checked.  For a session that
\* is over it is an orphan: the slot is freed, and only then is it revoked.
Answered(o) ==
    /\ op[o].pc = "answered" /\ ~MicrotaskDue
    /\ LET t == op[o].got
           reg == Register(registry, o, t) IN
       \/ /\ Valid(o) /\ ~WasCancelled(reg, o)
          /\ registry' = reg
          /\ BeginSave(o)
       \/ /\ ~Valid(o) \/ WasCancelled(reg, o)
          /\ registry' = ReleaseHandle(reg, o, t)
          /\ Step(o, "disowning")
          /\ UNCHANGED queueVars
    /\ UNCHANGED <<gate, recoveryBlocks, storage, degraded, bindVars, txn, logout,
                   peerVars, serverVars, ended, calls>>

\* disownOrphanCredential() has its revocation outcome.  The assertion after it is
\* expected to throw; were the lease valid, the operation would go on.
Disowned(o) ==
    /\ op[o].pc = "disowning" /\ ~MicrotaskDue
    /\ \E F \in SUBSET {op[o].got} :
         LET reg == Retained(registry, {op[o].got}, F) IN
         /\ Revoke({op[o].got}, F)
         /\ gate' = SyncPending(gate, reg)
         /\ IF StillValid(gate', op[o].lease)
            THEN registry' = reg /\ BeginSave(o)
            ELSE /\ registry' = ReleaseReservation(reg, o)
                 /\ op' = [op EXCEPT ![o] = NoOp]
                 /\ UNCHANGED queueVars
    /\ UNCHANGED <<recoveryBlocks, storage, degraded, bindVars, txn, logout, peerVars,
                   ended, calls>>

\* The operation's credential is now the session's: the slot is free, and a
\* callback establishes the session.
Adopted(o, bound) ==
    /\ registry' = ReleaseHandle(registry, o, op[o].got)
    /\ Step(o, "announcing")
    /\ IF o \in Callbacks
       THEN /\ binding' = op[o].got
            /\ clock' = clock + 1
            /\ established' = clock + 1
       ELSE /\ binding' = bound
            /\ UNCHANGED <<established, clock>>

\* persist() resolved: the mirror is dropped and the credential observed, and
\* only then is the lease asserted.
Saved(o) ==
    /\ op[o].pc = "saved"
    /\ degraded' = None
    /\ \/ Valid(o) /\ Adopted(o, op[o].got)
       \/ /\ ~Valid(o)
          /\ Throw(o)
          /\ binding' = op[o].got
          /\ UNCHANGED <<established, clock>>
    /\ UNCHANGED <<gate, recoveryBlocks, storage, txn, queueVars, logout, peerVars,
                   serverVars, ended, calls>>

\* The save rejected: a storage-contract violation and an ended session rethrow,
\* anything else leaves the credential in the memory mirror.
SaveFailed(o) ==
    /\ op[o].pc = "saveFailed"
    /\ \/ Valid(o) /\ degraded' = op[o].got /\ Adopted(o, binding)
       \/ Throw(o) /\ UNCHANGED <<degraded, bindVars>>
    /\ UNCHANGED <<gate, recoveryBlocks, storage, txn, queueVars, logout, peerVars,
                   serverVars, ended, calls>>

\* The event has been emitted, and a listener may have ended the session.
Announced(o) ==
    /\ op[o].pc = "announcing"
    /\ registry' = ReleaseReservation(registry, o)
    /\ IF Valid(o) THEN Return(o, op[o].got) ELSE op' = [op EXCEPT ![o] = NoOp]
    /\ UNCHANGED <<gate, recoveryBlocks, storage, degraded, bindVars, txn, queueVars,
                   logout, peerVars, serverVars, ended, calls>>

\* No answer, or one that is neither a credential nor terminal.  getToken() falls
\* back to the token it holds if its session is still the current one.
Dropped(o) ==
    /\ op[o].pc = "dropped" /\ ~MicrotaskDue
    /\ registry' = ReleaseReservation(registry, o)
    /\ \/ op' = [op EXCEPT ![o] = NoOp]
       \/ op[o].held # None /\ Valid(o) /\ Return(o, op[o].held)
    /\ UNCHANGED <<gate, recoveryBlocks, storage, degraded, bindVars, txn, queueVars,
                   logout, peerVars, serverVars, ended, calls>>

\* A 401, with storage read once more: the loser of a rotation returns what the
\* winner stored, otherwise the session is over.
Rechecked(r) ==
    /\ op[r].pc = "rechecked"
    /\ \/ ~Valid(r) /\ Throw(r) /\ UNCHANGED <<gate, degraded, queueVars, ended>>
       \/ /\ Valid(r) /\ op[r].got # None /\ op[r].got # op[r].known
          /\ degraded' = None
          /\ Step(r, "announcing")
          /\ UNCHANGED <<gate, registry, queueVars, ended>>
       \/ /\ Valid(r) /\ op[r].got \in {None, op[r].known}
          /\ EndSession(r)
          /\ UNCHANGED registry
    /\ UNCHANGED <<recoveryBlocks, storage, bindVars, txn, logout, peerVars, serverVars,
                   calls>>

\* Mutant: a clear that failed opens the tab again.
RetainTerminalFailure_Opens(g) == g

RetainTerminalFailure(g) == BlockRetained(g, "terminalFailure")

\* endSessionLocally() from the outcome of its revocations to its end.
EndRevoked(r) ==
    /\ op[r].pc = "revoking" /\ ~MicrotaskDue
    /\ \E F \in SUBSET op[r].invalidate :
         LET reg == Retained(registry, op[r].invalidate, F)
             g   == EndPendingOp(SyncPending(gate, reg)) IN
         /\ Revoke(op[r].invalidate, F)
         /\ registry' = ReleaseReservation(reg, r)
         /\ gate' = ReleaseLocal(IF op[r].clearFailed
                                 THEN RetainTerminalFailure(g) ELSE g, r)
    /\ recoveryBlocks' = recoveryBlocks \union
           (IF op[r].clearFailed THEN {"terminalFailure"} ELSE {})
    /\ op' = [op EXCEPT ![r] = NoOp]
    /\ UNCHANGED <<storage, degraded, bindVars, txn, queueVars, logout, peerVars, ended,
                   calls>>

------------------------------------------------------------------------------
(* logout() *)

\* Blocks before its first await; then a pre-flight check fails, or the mirror is
\* taken and the clear queued.
StartLogout(g) ==
    /\ logout.pc = "idle"
    /\ gate' = BlockLocal(g, "logout")
    /\ \/ /\ logout' = [NoLogout EXCEPT !.pc = "rejecting"]
          /\ UNCHANGED <<degraded, queueVars>>
       \/ /\ logout' = [NoLogout EXCEPT !.pc = "clearing",
                                        !.invalidate = {degraded} \ {None}]
          /\ degraded' = None
          /\ Enqueue(Job("logout", "logout", 0))

LogoutCall ==
    /\ calls < MaxCalls /\ calls' = calls + 1
    /\ StartLogout(gate)
    /\ UNCHANGED <<recoveryBlocks, registry, storage, bindVars, txn, op, peerVars,
                   serverVars, ended>>

\* login() whose login-started listener calls logout(): the gate has been reset,
\* and the transaction is taken back.
LoginCancelled ==
    /\ calls < MaxCalls /\ calls' = calls + 1
    /\ LoginAllowed
    /\ RetirePeerOperations
    /\ StartLogout(Reset(gate))
    /\ txn' = FALSE
    /\ UNCHANGED <<recoveryBlocks, registry, storage, bindVars, op, serverVars, ended>>

\* A credential survives in the registry unless its revocation was confirmed.
LogoutRevoked ==
    /\ logout.pc = "revoking" /\ ~MicrotaskDue
    /\ \E F \in SUBSET logout.invalidate :
         /\ Revoke(logout.invalidate, F)
         /\ registry' = Retained(registry, logout.invalidate, F)
         /\ gate' = IF logout.invalidate = {} THEN gate ELSE SyncPending(gate, registry')
         /\ logout' = [logout EXCEPT !.pc = "settling",
                                     !.complete = F = {} /\ ~logout.clearFailed]
    /\ UNCHANGED <<recoveryBlocks, storage, degraded, bindVars, txn, queueVars, op,
                   peerVars, ended, calls>>

\* Mutant: the peer operations are forgotten and their blocks are not.
ResolvedBlocks_KeepsPeers == {"logoutFailed"} \union recoveryBlocks

ResolvedBlocks == {"logoutFailed"} \union recoveryBlocks \union TrackedKeys

\* A logout that completes releases every fail-closed state of this client.
ResolveAllRecoveryBlocks(g) ==
    /\ gate' = SyncPending(Release(g, ResolvedBlocks), registry)
    /\ recoveryBlocks' = {}
    /\ tracked' = [k \in PeerKeys |-> Untracked]
    /\ retired' = retired \union TrackedKeys
    /\ peerEpoch' = peerEpoch + 1
    /\ binding' = None /\ established' = 0
    /\ UNCHANGED <<peer, settling, clock>>

LogoutSettled ==
    /\ logout.pc \in {"settling", "rejecting"}
    /\ logout' = [logout EXCEPT !.pc = "finishing"]
    /\ LET g == Terminate(gate) IN
       \/ /\ logout.pc = "rejecting"
          /\ gate' = g
          /\ UNCHANGED <<recoveryBlocks, bindVars, peerVars, ended>>
       \/ /\ logout.pc = "settling" /\ logout.complete
          /\ ResolveAllRecoveryBlocks(g)
          /\ ended' = g.generation
       \/ /\ logout.pc = "settling" /\ ~logout.complete
          /\ gate' = BlockRetained(g, "logoutFailed")
          /\ ended' = g.generation
          /\ UNCHANGED <<recoveryBlocks, bindVars, peerVars>>
    /\ UNCHANGED <<registry, storage, degraded, txn, queueVars, op, serverVars, calls>>

LogoutFinished ==
    /\ logout.pc = "finishing"
    /\ gate' = ReleaseLocal(gate, "logout")
    /\ logout' = NoLogout
    /\ UNCHANGED <<recoveryBlocks, registry, storage, degraded, bindVars, txn, queueVars,
                   op, peerVars, serverVars, ended, calls>>

------------------------------------------------------------------------------
(* runStorageMutation(): one job at a time, in order.  A job starts, and ends    *)
(* when the storage has answered.                                               *)

StartSave ==
    /\ ~running /\ NextJob("save")
    /\ LET o == Head(queue).who IN
       \/ Valid(o) /\ running' = TRUE /\ UNCHANGED <<queue, op>>
       \/ ~Valid(o) /\ Dequeue /\ Step(o, "saveFailed")
    /\ UNCHANGED <<gate, recoveryBlocks, registry, storage, degraded, bindVars, txn, logout,
                   peerVars, serverVars, ended, calls>>

\* A session that ended during the save has it undone, in the same job.
SaveLanded(o) == IF Valid(o) THEN Dequeue /\ Step(o, "saved")
                             ELSE Step(o, "undoing") /\ UNCHANGED queueVars

\* Mutant: a rejected mutation poisons the chain, and no job after it starts.
SaveRejected_Poisons(o) == Step(o, "saveFailed") /\ UNCHANGED queueVars

SaveRejected(o) == Dequeue /\ Step(o, "saveFailed")

FinishSave ==
    /\ running /\ NextJob("save")
    /\ LET o == Head(queue).who IN
       /\ op[o].pc = "saving"
       /\ \/ storage' = op[o].got /\ SaveLanded(o)
          \/ SaveRejected(o) /\ UNCHANGED storage
    /\ UNCHANGED <<gate, recoveryBlocks, registry, degraded, bindVars, txn, logout,
                   peerVars, serverVars, ended, calls>>

UndoSave ==
    /\ running /\ NextJob("save")
    /\ op[Head(queue).who].pc = "undoing"
    /\ storage' \in {None, storage}
    /\ Dequeue /\ Step(Head(queue).who, "saveFailed")
    /\ UNCHANGED <<gate, recoveryBlocks, registry, degraded, bindVars, txn, logout,
                   peerVars, serverVars, ended, calls>>

\* Both transitions drain the registry inside their job, before the clear.
StartEnd ==
    /\ ~running /\ NextJob("end") /\ running' = TRUE /\ UNCHANGED queue
    /\ op' = [op EXCEPT ![Head(queue).who].invalidate = @ \union Drained(registry)]
    /\ registry' = AfterDrain(registry)
    /\ UNCHANGED <<gate, recoveryBlocks, storage, degraded, bindVars, txn, logout,
                   peerVars, serverVars, ended, calls>>

FinishEnd ==
    /\ running /\ NextJob("end") /\ Dequeue
    /\ \E cleared \in BOOLEAN :
         /\ storage' = IF cleared THEN None ELSE storage
         /\ op' = [op EXCEPT ![Head(queue).who].pc = "revoking",
                             ![Head(queue).who].clearFailed = ~cleared]
    /\ UNCHANGED <<gate, recoveryBlocks, registry, degraded, bindVars, txn, logout,
                   peerVars, serverVars, ended, calls>>

\* Storage that cannot be read is still cleared: what it held is forgotten.
StartLogoutClear ==
    /\ ~running /\ NextJob("logout") /\ running' = TRUE /\ UNCHANGED queue
    /\ \E read \in {None, storage} :
         logout' = [logout EXCEPT !.invalidate = @ \union Drained(registry)
                                                      \union ({read} \ {None})]
    /\ registry' = AfterDrain(registry)
    /\ UNCHANGED <<gate, recoveryBlocks, storage, degraded, bindVars, txn, op,
                   peerVars, minted, live, bornIn, ended, calls>>

FinishLogoutClear ==
    /\ running /\ NextJob("logout") /\ Dequeue
    /\ \E cleared \in BOOLEAN :
         /\ storage' = IF cleared THEN None ELSE storage
         /\ logout' = [logout EXCEPT !.pc = "revoking", !.clearFailed = ~cleared]
    /\ UNCHANGED <<gate, recoveryBlocks, registry, degraded, bindVars, txn, op,
                   peerVars, serverVars, ended, calls>>

PeerClear ==
    /\ ~running /\ (NextJob("peerClear") \/ NextJob("peerLogout")) /\ Dequeue
    /\ \E cleared \in BOOLEAN :
         /\ storage' = IF cleared THEN None ELSE storage
         /\ settling' = settling \union {[job |-> Head(queue), cleared |-> cleared]}
    /\ UNCHANGED <<gate, recoveryBlocks, registry, degraded, bindVars, txn, op, logout,
                   peer, tracked, retired, peerEpoch, serverVars, ended, calls>>

------------------------------------------------------------------------------
(* onCrossTab() *)

\* Mutant: the epoch of this tab's session is not consulted.
StartedAfterOurSession_Always(k) == peer[k].begun

StartedAfterOurSession(k) == established = 0 \/ peer[k].startedAt >= established

\* Mutant: every message is honoured.
MessageTargetsThisSession_Always(k) == peer[k].begun

\* The fingerprint identifies the session only where every tab reads one
\* credential; elsewhere time is all there is.
MessageTargetsThisSession(k) ==
    IF SharedCredential
    THEN IF peer[k].version # None THEN binding \in {None, peer[k].version}
                                   ELSE binding = None /\ StartedAfterOurSession(k)
    ELSE StartedAfterOurSession(k)

\* Mutant: a logout is no operation of its own when its session-cleared is tracked.
BlockForPeer_SharesPending(k) ==
    gate' = IF tracked[k].on THEN Block(gate, k) ELSE BeginPendingOp(Block(gate, k))

BlockForPeer(k) == gate' = BeginPendingOp(Block(gate, k))

OnSessionCleared(k) ==
    /\ ~MicrotaskDue
    /\ peer[k].begun /\ k \notin retired /\ ~tracked[k].on
    /\ MessageTargetsThisSession(k)
    /\ BlockForPeer(k)
    /\ tracked' = [tracked EXCEPT ![k] = [on |-> TRUE, epoch |-> peerEpoch, settled |-> FALSE]]
    /\ degraded' = None
    /\ Enqueue(Job("peerClear", k, peerEpoch))
    /\ UNCHANGED <<recoveryBlocks, registry, storage, bindVars, txn, op, logout, peer,
                   retired, peerEpoch, settling, serverVars, ended, calls>>

OnLogout(k) ==
    /\ ~MicrotaskDue
    /\ peer[k].begun /\ k \notin retired
    /\ tracked[k].on \/ MessageTargetsThisSession(k)
    /\ BlockForPeer(k)
    /\ tracked' = [tracked EXCEPT ![k] = Untracked]
    /\ retired' = retired \union {k}
    /\ degraded' = None
    /\ Enqueue(Job("peerLogout", k, IF tracked[k].on THEN tracked[k].epoch ELSE peerEpoch))
    /\ UNCHANGED <<recoveryBlocks, registry, storage, bindVars, txn, op, logout, peer,
                   peerEpoch, settling, serverVars, ended, calls>>

ForgetBinding == binding' = None /\ established' = 0 /\ UNCHANGED clock

\* Mutant: a clear that failed opens the tab again.
RetainPeerBlock_Opens(g, k) == gate' = Release(g, {k}) /\ UNCHANGED recoveryBlocks

RetainPeerBlock(g, k) == /\ gate' = Retain(g, k)
                         /\ recoveryBlocks' = recoveryBlocks \union {k}

\* Mutant: the block goes and the generation stays.
PeerLogoutOver_SameGeneration(g, k) == Release(g, {k})

\* A peer's logout that cleared storage: every lease is stale before its block goes.
PeerLogoutOver(g, k) == Release(Terminate(g), {k})

\* The continuations of a peer's clear.  Once the epoch has moved the operation is
\* not this session's any more.
PeerClearSettled(k) ==
    \E s \in settling :
        /\ s.job.kind = "peerClear" /\ s.job.who = k
        /\ settling' = settling \ {s}
        /\ tracked' = [tracked EXCEPT ![k].settled = tracked[k].on]
        /\ LET g == EndPendingOp(gate) IN
           \/ /\ s.job.epoch # peerEpoch
              /\ gate' = g /\ UNCHANGED <<recoveryBlocks, bindVars>>
           \/ /\ s.job.epoch = peerEpoch /\ s.cleared
              /\ gate' = g /\ ForgetBinding /\ UNCHANGED recoveryBlocks
           \/ /\ s.job.epoch = peerEpoch /\ ~s.cleared
              /\ RetainPeerBlock(g, k) /\ UNCHANGED bindVars
        /\ UNCHANGED <<registry, storage, degraded, txn, queueVars, op, logout, peer,
                       retired, peerEpoch, serverVars, ended, calls>>

PeerLogoutSettled(k) ==
    \E s \in settling :
        /\ s.job.kind = "peerLogout" /\ s.job.who = k
        /\ settling' = settling \ {s}
        /\ LET g == EndPendingOp(gate) IN
           \/ /\ s.job.epoch # peerEpoch
              /\ gate' = Release(g, {k}) /\ UNCHANGED <<recoveryBlocks, bindVars, ended>>
           \/ /\ s.job.epoch = peerEpoch /\ s.cleared
              /\ gate' = PeerLogoutOver(g, k)
              /\ ended' = gate.generation + 1
              /\ ForgetBinding /\ UNCHANGED recoveryBlocks
           \/ /\ s.job.epoch = peerEpoch /\ ~s.cleared
              /\ RetainPeerBlock(g, k)
              /\ ended' = gate.generation + 1
              /\ UNCHANGED bindVars
        /\ UNCHANGED <<registry, storage, degraded, txn, queueVars, op, logout, peer,
                       tracked, retired, peerEpoch, serverVars, calls>>

\* token-updated: the lease is captured before the read, and what the read finds is
\* adopted only if it is what the message announced.
OnTokenUpdated(u) ==
    /\ ~MicrotaskDue
    /\ op[u].pc = "idle"
    /\ ~Blocked(gate)
    /\ SharedCredential
    /\ op' = [op EXCEPT ![u] = [NoOp EXCEPT !.pc = "updating", !.lease = gate.generation]]
    /\ UNCHANGED <<gate, recoveryBlocks, registry, storage, degraded, bindVars, txn,
                   queueVars, logout, peerVars, serverVars, ended, calls>>

TokenUpdated(u) ==
    /\ op[u].pc = "updated"
    /\ op' = [op EXCEPT ![u] = NoOp]
    /\ \/ UNCHANGED bindVars
       \/ Valid(u) /\ AdoptLoaded(u)
    /\ UNCHANGED <<gate, recoveryBlocks, registry, storage, degraded, txn, queueVars,
                   logout, peerVars, serverVars, ended, calls>>

------------------------------------------------------------------------------
(* The other tabs *)

\* A logout begins in another tab.  Where the credential is shared it reads it,
\* clears it, and has it revoked.
PeerBegins(k) ==
    /\ ~peer[k].begun
    /\ \E v \in IF SharedCredential THEN {None, storage} ELSE {None} :
         /\ peer' = [peer EXCEPT ![k] = [begun |-> TRUE, version |-> v, startedAt |-> clock]]
         /\ storage' = IF v = None THEN storage ELSE None
         /\ live' = live \ {v}
    /\ UNCHANGED <<gate, recoveryBlocks, registry, degraded, bindVars, txn, queueVars, op,
                   logout, tracked, retired, peerEpoch, settling, minted, bornIn,
                   ended, calls>>

\* Another tab rotates the shared credential, under the lock where there is one.
PeerRotates ==
    /\ SharedCredential /\ PeerKeys # {} /\ LockFree
    /\ storage \in live /\ minted < MaxTokens
    /\ minted' = minted + 1
    /\ storage' = minted'
    /\ live' = (live \ {storage}) \union {minted'}
    /\ bornIn' = [bornIn EXCEPT ![minted + 1] = bornIn[storage]]
    /\ UNCHANGED <<gate, recoveryBlocks, registry, degraded, bindVars, txn, queueVars, op,
                   logout, peerVars, ended, calls>>

------------------------------------------------------------------------------

\* The page opens with or without a stored credential, and possibly at the callback
\* of a login begun before.
Init ==
    /\ gate = NewGate /\ recoveryBlocks = {}
    /\ registry = NewRegistry
    /\ storage \in {None, 1} /\ degraded = None
    /\ binding = None /\ established = 0 /\ clock = 0
    /\ txn \in BOOLEAN
    /\ queue = <<>> /\ running = FALSE
    /\ op = [o \in Ops |-> NoOp]
    /\ logout = NoLogout
    /\ peer = [k \in PeerKeys |-> [begun |-> FALSE, version |-> None, startedAt |-> 0]]
    /\ tracked = [k \in PeerKeys |-> Untracked]
    /\ retired = {} /\ peerEpoch = 0 /\ settling = {}
    /\ minted = storage /\ live = {storage} \ {None}
    /\ bornIn = [t \in Tokens |-> 0]
    /\ ended = 0 /\ calls = 0

Application ==
    \/ BeginLogin \/ LoginCancelled \/ LogoutCall
    \/ \E r \in Refreshers : GetTokenCall(r) \/ RefreshCall(r)
    \/ \E c \in Callbacks : CallbackCall(c)

\* Steps that the tab owes to what it has begun.
Continue(o) ==
    \/ ReadStorage(o)
    \/ o \in Refreshers /\ (\/ GotToken(o) \/ Loaded(o) \/ LockAcquired(o) \/ Reloaded(o)
                            \/ Rechecked(o) \/ EndRevoked(o))
    \/ Answered(o) \/ Disowned(o) \/ Saved(o) \/ SaveFailed(o) \/ Announced(o) \/ Dropped(o)
    \/ o \in Updates /\ TokenUpdated(o)

StorageStep == \/ StartSave \/ FinishSave \/ UndoSave \/ StartEnd \/ FinishEnd
               \/ StartLogoutClear \/ FinishLogoutClear \/ PeerClear

LogoutStep == LogoutRevoked \/ LogoutSettled \/ LogoutFinished

Environment ==
    \/ \E o \in Ops : Serve(o)
    \/ \E t \in Tokens : Expire(t)
    \/ PeerRotates
    \/ \E k \in PeerKeys : PeerBegins(k) \/ OnSessionCleared(k) \/ OnLogout(k)
    \/ \E u \in Updates : OnTokenUpdated(u)

Next ==
    \/ Application
    \/ \E o \in Ops : Continue(o)
    \/ StorageStep
    \/ LogoutStep
    \/ \E k \in PeerKeys : PeerClearSettled(k) \/ PeerLogoutSettled(k)
    \/ Environment

Spec == Init /\ [][Next]_vars

\* Another tab holds navigator.locks for as long as it likes.
LockOwed == ~UseNavLocks \/ PeerKeys = {}

\* Continuations run, storage answers, and the headers of /token come or its timer
\* aborts the request.  The timer is cleared then: nothing makes the body of the
\* answer end, nor, in another tab, the lock come free.  Nothing is owed by the
\* application or by GET /callback, which has no timer.
Fairness ==
    /\ \A o \in Ops : WF_vars(op[o].pc \notin {"answered", "locking"} /\ Continue(o))
    /\ \A r \in {q \in Refreshers : LockOwed} : WF_vars(LockAcquired(r))
    /\ \A r \in Refreshers : WF_vars(Serve(r))
    /\ WF_vars(StorageStep)
    /\ WF_vars(LogoutStep)
    /\ \A k \in PeerKeys : WF_vars(PeerClearSettled(k)) /\ WF_vars(PeerLogoutSettled(k))

FairSpec == Spec /\ Fairness
==============================================================================
