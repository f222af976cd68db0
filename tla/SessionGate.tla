----------------------------- MODULE SessionGate -----------------------------
(***************************************************************************)
(* The session lifecycle gate of ts-oidc-auth-client (src/session.ts).     *)
(*                                                                         *)
(* The gate is a value: a record that the client's modules keep in one of  *)
(* their variables and change only through the operators below, one for    *)
(* each method of class SessionGate.  A block is a fresh symbol in the     *)
(* code; here it is the name of the holder that took it, which is as       *)
(* unique, because no holder takes a second block while it has one.        *)
(***************************************************************************)
EXTENDS Naturals, FiniteSets

NewGate ==
    [generation  |-> 0,
     blockers    |-> {},
     retained    |-> {},
     localBlocks |-> 0,
     pendingOps  |-> 0]

GateType(Blocks) ==
    [generation  : Nat,
     blockers    : SUBSET Blocks,
     retained    : SUBSET Blocks,
     localBlocks : Nat,
     pendingOps  : Nat]

------------------------------------------------------------------------------
(* Reads *)

Blocked(g) == g.blockers # {}

\* Some operation is still deciding whether the credential is gone.
LifecycleBusy(g) == g.localBlocks > 0 \/ g.pendingOps > 0

\* Mutant: only the blocks are looked at.
StillValid_AnyGeneration(g, n) == ~Blocked(g)

\* What SessionLease.valid() answers for a lease captured at generation n.
StillValid(g, n) == n = g.generation /\ ~Blocked(g)

------------------------------------------------------------------------------
(* Changes *)

MinusOne(n) == IF n = 0 THEN 0 ELSE n - 1

Block(g, b) == [g EXCEPT !.blockers = @ \union {b}]

Release(g, B) == [g EXCEPT !.blockers = @ \ B, !.retained = @ \ B]

BlockLocal(g, b) == [Block(g, b) EXCEPT !.localBlocks = @ + 1]

\* Mutant: the block goes and the count stays.
ReleaseLocal_KeepsCount(g, b) == Release(g, {b})

ReleaseLocal(g, b) == [Release(g, {b}) EXCEPT !.localBlocks = MinusOne(@)]

BlockRetained(g, b) == [Block(g, b) EXCEPT !.retained = @ \union {b}]

\* Promote a block that is still held; a released one stays released.
Retain(g, b) == [g EXCEPT !.retained = @ \union ({b} \intersect g.blockers)]

BeginPendingOp(g) == [g EXCEPT !.pendingOps = @ + 1]

\* Mutant: a decrement that is missing.
EndPendingOp_Missing(g) == g

EndPendingOp(g) == [g EXCEPT !.pendingOps = MinusOne(@)]

Terminate(g) == [g EXCEPT !.generation = @ + 1]

\* A new login: stales every lease, and drops the blocks nobody retains unless
\* a local operation holds one.
Reset(g) ==
    [Terminate(g) EXCEPT !.blockers = IF g.localBlocks # 0 THEN @ ELSE @ \intersect g.retained]
==============================================================================
