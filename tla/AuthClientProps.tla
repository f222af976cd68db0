--------------------------- MODULE AuthClientProps ---------------------------
(***************************************************************************)
(* What the credential lifecycle of AuthClient promises.                   *)
(***************************************************************************)
EXTENDS AuthClient

\* The types of the variables, as client.ts declares its fields.
TypeOK ==
    /\ gate \in GateType(Blocks)
    /\ recoveryBlocks \subseteq Blocks
    /\ registry \in RegistryType(Ops, Tokens)
    /\ storage \in MaybeToken /\ degraded \in MaybeToken
    /\ binding \in MaybeToken /\ established \in Nat /\ clock \in Nat
    /\ txn \in BOOLEAN
    /\ queue \in Seq(JobType) /\ running \in BOOLEAN
    /\ op \in [Ops -> OpType]
    /\ logout \in LogoutType
    /\ peer \in [PeerKeys -> PeerType]
    /\ tracked \in [PeerKeys -> TrackType]
    /\ retired \subseteq PeerKeys /\ peerEpoch \in Nat
    /\ settling \subseteq [job : JobType, cleared : BOOLEAN]
    /\ minted \in 0..MaxTokens /\ live \subseteq Tokens
    /\ bornIn \in [Tokens -> Nat]
    /\ ended \in Nat /\ calls \in 0..MaxCalls

------------------------------------------------------------------------------
(* Leases *)

Active(o) == op[o].pc \notin {"idle", "returned"}

\* An operation that a logout, a terminal 401, a peer's message or a new login has
\* cut off never becomes valid again, however the blocks are released afterwards:
\* releasing the last block of a transition is always preceded by a new generation
\* (SessionGate.lease(), terminate(), reset(), and every releaser of client.ts).
CutOffStaysCutOff ==
    [][\A o \in Ops : Active(o) /\ ~Valid(o) /\ Active(o)' => ~Valid(o)']_vars

\* A reservation that a drain cancelled belongs to an operation whose lease is dead.
\* The drain happens inside a queued storage step, long after the transition began,
\* and a login may have come between (drainForInvalidation(), wasCancelled()).
CancelledIsDead == \A o \in registry.cancelled : ~Valid(o)

\* Whenever the tab serves anything at all, what it can read from storage or from the
\* memory mirror belongs to a session that no completed or failed logout, terminal
\* refresh or peer logout has ended: failed clears, late saves and their undoing
\* included (persist(), endSessionLocally(), runLogout(), onCrossTab()).
EndedStaysUnreadable ==
    ~Blocked(gate) => \A t \in {storage, degraded} \ {None} : bornIn[t] >= ended

\* The credential getToken(), refresh() or handleCallback() hands to its caller was
\* minted neither for a session that has ended nor for one begun after the call.
ReturnedInSession ==
    [][\A o \in Ops : op[o].pc # "returned" /\ op'[o].pc = "returned" =>
          bornIn[op'[o].got] \in ended..op[o].lease]_vars

------------------------------------------------------------------------------
(* The gate *)

Ending == {r \in Refreshers : op[r].pc \in EndPcs}

PeerJobs == {i \in DOMAIN queue : queue[i].kind \in {"peerClear", "peerLogout"}}

\* The two counters of the gate count exactly the transitions in flight, on every
\* path: a leak would refuse every later login, a double decrement admit one too soon
\* (localBlocks and pendingOps of session.ts, the finally blocks of client.ts).
GateAccounting ==
    /\ gate.localBlocks = Cardinality(Ending) + (IF logout.pc = "idle" THEN 0 ELSE 1)
    /\ gate.pendingOps = Cardinality(Ending) + Cardinality(PeerJobs) + Cardinality(settling)

PeerLogoutDue(k) ==
    \/ \E i \in PeerJobs : queue[i].kind = "peerLogout" /\ queue[i].who = k
    \/ \E s \in settling : s.job.kind = "peerLogout" /\ s.job.who = k

\* Every block has an owner that can release it: a transition still running, a peer's
\* operation still tracked or being settled, or a failure that the next completed
\* logout resolves (recoveryBlocks, logoutFailureBlock, pendingRevocationBlock).  A
\* block nobody owns would disable the tab until it is reloaded.
NoOrphanBlock ==
    \A b \in gate.blockers :
       \/ b \in Ending
       \/ b = "logout" /\ logout.pc # "idle"
       \/ b = "logoutFailed" /\ b \in gate.retained
       \/ b = "pendingRevocation" /\ registry.pending # {}
       \/ b \in recoveryBlocks /\ b \in gate.retained
       \/ b \in TrackedKeys
       \/ b \in PeerKeys /\ PeerLogoutDue(b)

------------------------------------------------------------------------------
(* Custody of credentials *)

Accounted == registry.candidates \union registry.pending \union logout.invalidate
             \union (UNION {op[o].invalidate : o \in Ops})
             \union {op[o].got : o \in {q \in Ops : op[q].pc \in {"answered", "disowning"}}}

\* A credential that is alive at the server and that the page accounts for, from the
\* answer that brought it to the confirmation of its revocation, is never dropped: it
\* stays accounted for until it is dead or is the one the page serves (register(),
\* release(), retain(), drainForInvalidation(), revokeWithOutcomes()).
KeepsCustody ==
    [][\A t \in live \intersect live' :
          t \in Accounted => t \in Accounted' \union {storage', degraded'}]_vars

\* When a logout completes, announcing that every credential is gone, no credential
\* that the page minted and nobody confirmed revoked is outside the registry.
LogoutLeavesNothingUntracked ==
    [][logout.pc = "revoking" /\ logout'.pc = "settling" /\ logout'.complete =>
          \A o \in Ops : op[o].pc = "disowning" /\ op[o].got \in live =>
              op[o].got \in registry.candidates \union registry.pending]_vars

------------------------------------------------------------------------------
(* Which session is ended *)

\* A refresh that finds its session over ends that session, never one established
\* since: doRefresh() under the lock and the 401 branch of postRefreshExchange().
OnlyOwnSessionEnded ==
    [][\A r \in Refreshers : op[r].pc \notin EndPcs /\ op'[r].pc \in EndPcs =>
          \A t \in {storage, degraded} \ {None} : bornIn[t] <= op[r].lease]_vars

\* The loser of a concurrent rotation, told 401, returns a credential newer than the
\* one the server rejected, not an older one that is still in storage.
RecheckReturnsWinner ==
    [][\A r \in Refreshers : op[r].pc = "rechecked" /\ op'[r].pc = "announcing" =>
          op'[r].got > op[r].known]_vars

\* After a 401, only the credential that the server has just rejected is cleared: a
\* credential that another tab has rotated into storage is not.
OnlyRejectedCleared ==
    [][\A r \in Refreshers : op[r].pc = "rechecked" /\ op'[r].pc = "ending" =>
          storage \in {None, op[r].known}]_vars

\* The session of storage is the one that callback c has completed.
Established(c) == op[c].pc \in {"announcing", "returned"} /\ storage # None /\ op[c].got = storage

\* What a peer's message clears is not a session that this tab demonstrably
\* established after the peer's operation began (messageTargetsThisSession(), the
\* retired operations and the epochs): by fingerprint where the credential is shared,
\* by time elsewhere, even when the message waited while a logout and a login passed.
NewerSessionSurvives ==
    [][~running /\ storage' = None /\ 1 \in PeerJobs /\ queue' = Tail(queue) =>
         LET k == Head(queue).who IN
         \A c \in Callbacks : Established(c) =>
            \/ established = 0 \/ peer[k].startedAt >= established
            \/ SharedCredential /\ peer[k].version = storage]_vars

------------------------------------------------------------------------------
(* Progress, under FairSpec *)

\* A transition that has begun comes to an end, whatever storage, the revocations and
\* the other tabs do: nobody stays refused by lifecycleBusy() for ever.
TransitionsSettle == LifecycleBusy(gate) ~> ~LifecycleBusy(gate)

\* Waits that no timer of client.ts ends: for the body of an answer, and for the lock
\* while another tab, or a call that waits for such a body, may hold it.
WaitsOutside(r) ==
    \/ op[r].pc = "answered"
    \/ /\ op[r].pc = "locking" /\ UseNavLocks
       /\ PeerKeys # {} \/ \E q \in Refreshers : op[q].pc = "answered"

\* A call of refresh() or getToken() is answered, through the contested lock, the
\* rotation, the storage queue and the end of its session: only a body that does not
\* end holds it up, or the lock behind one (withCrossTabLock(), persist(), and the
\* timer of /token, cleared before the body is read).
RefreshersSettle == \A r \in Refreshers : []<>~Active(r) \/ <>[]WaitsOutside(r)
==============================================================================
