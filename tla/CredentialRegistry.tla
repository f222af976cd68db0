------------------------- MODULE CredentialRegistry -------------------------
(***************************************************************************)
(* The registry of credentials a page still has to account for             *)
(* (src/recovery.ts, class CredentialRegistry), as a value with one        *)
(* operator for each method.                                               *)
(*                                                                         *)
(* A handle is a fresh symbol per credential-producing operation.  An      *)
(* operation has at most one outstanding reservation, so a reserved or     *)
(* cancelled handle is named by its operation; a registered handle holds   *)
(* exactly one credential, and every credential the server mints is        *)
(* distinct, so a candidate is named by its credential.                    *)
(***************************************************************************)
EXTENDS Naturals, FiniteSets

NewRegistry ==
    [reserved |-> {}, candidates |-> {}, pending |-> {}, cancelled |-> {}]

RegistryType(Ops, Tokens) ==
    [reserved   : SUBSET Ops,
     candidates : SUBSET Tokens,
     pending    : SUBSET Tokens,
     cancelled  : SUBSET Ops]

------------------------------------------------------------------------------

InUse(reg) ==
    Cardinality(reg.reserved) + Cardinality(reg.candidates) + Cardinality(reg.pending)

\* reserve() throws when this is false.
CanReserve(reg, maxTracked) == InUse(reg) < maxTracked

Reserve(reg, o) == [reg EXCEPT !.reserved = @ \union {o}]

\* The slot moves from reserved to registered; cancellation is not consulted.
Register(reg, o, t) ==
    [reg EXCEPT !.reserved = @ \ {o}, !.candidates = @ \union {t}]

\* Mutant: the cancellation outlives the operation.
ReleaseReservation_KeepsMark(reg, o) == [reg EXCEPT !.reserved = @ \ {o}]

ReleaseReservation(reg, o) ==
    [reg EXCEPT !.reserved = @ \ {o}, !.cancelled = @ \ {o}]

ReleaseHandle(reg, o, t) ==
    [reg EXCEPT !.reserved   = @ \ {o},
                !.candidates = @ \ {t},
                !.cancelled  = @ \ {o}]

WasCancelled(reg, o) == o \in reg.cancelled

\* Mutant: a revocation that was not confirmed is forgotten.
Retained_Forgets(reg, S, F) == [reg EXCEPT !.pending = @ \ S]

\* retain() each of F, forget() the rest of S: what a round of revocations of S
\* leaves when exactly those in F were not confirmed.
Retained(reg, S, F) == [reg EXCEPT !.pending = (@ \ S) \union F]

\* What a logout has to invalidate, and what is left once it has taken it:
\* candidates go, pending stays, outstanding reservations are cancelled.
Drained(reg) == reg.candidates \union reg.pending

AfterDrain(reg) ==
    [reg EXCEPT !.candidates = {},
                !.cancelled  = @ \union reg.reserved,
                !.reserved   = {}]
==============================================================================
