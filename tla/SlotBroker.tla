----------------------------- MODULE SlotBroker -----------------------------
(***************************************************************************)
(* Live-interpreter slots (browser-python/src/session/slots.ts).  A page   *)
(* runs at most Capacity interpreters; a reservation that finds no slot    *)
(* free puts idle holders to sleep, one after the other, until one slot is *)
(* free for it.  Slots are anonymous here: what counts is the reservation  *)
(* that holds one, and that is also what a request to sleep names.         *)
(*                                                                         *)
(* The documents of one page either share their slots through Web Locks    *)
(* and a BroadcastChannel (scoped), or there is one document with a table  *)
(* of its own.                                                             *)
(***************************************************************************)
EXTENDS Naturals, FiniteSets

CONSTANTS Session,       \* the sessions of the page
          Document,      \* the one document of an unscoped broker
          Capacity,      \* slots
          NoReservation

ASSUME CapacityAssumption == Capacity \in Nat \ {0}

VARIABLES
    scoped,   \* whether the sessions are frames of their own with a shared scope
    held,     \* the reservations that hold a slot: [by, n, claimed]
    issued,   \* reservations a session has been granted so far
    resv      \* where each session's call of reserve() has got to

brokerVars == <<scoped, held, issued, resv>>

PageOf(s) == IF scoped THEN s ELSE Document

(* The identity of a reservation: `reservation`, a random id in the code.   *)
Ticket == [by : Session, n : Nat]
TicketOf(r) == [by |-> r.by, n |-> r.n]

(* queued: behind `reclaiming`; asking: working through the candidates;     *)
(* waiting: a candidate was asked to sleep; retry: it slept.                *)
CallPhase == {"none", "queued", "asking", "waiting", "retry", "granted", "denied"}

NoCall == [at |-> "none", cands |-> {}, cur |-> NoReservation]

BrokerTypeOK ==
    /\ scoped \in BOOLEAN
    /\ held \subseteq [by : Session, n : Nat, claimed : BOOLEAN]
    /\ issued \in [Session -> Nat]
    /\ \A s \in Session :
          /\ resv[s].at \in CallPhase
          /\ resv[s].cands \subseteq Ticket
          /\ resv[s].cur \in Ticket \cup {NoReservation}

FreeSlot == Cardinality(held) < Capacity
HeldBy(s) == {r \in held : r.by = s}

(* take() or tryLock() succeeded, and held() entered the holder.            *)
GrantTo(s, call) ==
    /\ FreeSlot
    /\ held' = held \cup {[by |-> s, n |-> issued[s] + 1, claimed |-> TRUE]}
    /\ issued' = [issued EXCEPT ![s] = @ + 1]
    /\ resv' = [call EXCEPT ![s] = [NoCall EXCEPT !.at = "granted"]]

(* reserve(): a document with a table of its own takes a free slot in the   *)
(* call; every other reservation goes through the chain of reclaims.        *)
ReserveCall(s) ==
    IF ~scoped /\ FreeSlot
      THEN GrantTo(s, resv)
      ELSE /\ resv' = [resv EXCEPT ![s] = [NoCall EXCEPT !.at = "queued"]]
           /\ UNCHANGED <<held, issued>>

(* release(): idempotent, and only the reservation's own entry goes.        *)
Without(s) == {r \in held : r.by # s}

(* "One reclaim at a time": reserveOrReclaim() chains behind the document's *)
(* reclaim in progress.                                                     *)
Reclaiming == {"asking", "waiting", "retry"}
ReclaimTurn(s) ==
    \A t \in Session \ {s} : PageOf(t) = PageOf(s) => resv[t].at \notin Reclaiming

(* Nothing free: the idle holders here, and those of other documents that   *)
(* answered within the offer window.                                        *)
TakeOrGather(s, idle) ==
    /\ resv[s].at = "queued"
    /\ ReclaimTurn(s)
    /\ UNCHANGED scoped
    /\ \/ GrantTo(s, resv)
       \/ /\ ~FreeSlot
          /\ LET offers == {TicketOf(r) : r \in {x \in held : x.claimed /\ x.by \in idle}}
                 local  == {t \in offers : PageOf(t.by) = PageOf(s)}
             IN \E remote \in SUBSET (offers \ local) :
                   resv' = [resv EXCEPT ![s] =
                              [at |-> "asking", cands |-> local \cup remote,
                               cur |-> NoReservation]]
          /\ UNCHANGED <<held, issued>>

(* sleepHolder(): only while the reservation named still holds its slot and *)
(* its holder is idle.                                                      *)
MaySleep(t, idle) == t.by \in idle /\ \E r \in held : r.claimed /\ TicketOf(r) = t

NextCandidate(call, s) ==
    [call EXCEPT ![s] = [call[s] EXCEPT !.at = "asking", !.cands = @ \ {call[s].cur},
                                        !.cur = NoReservation]]

(* The holder answered: everyone who asked it to sleep goes on.             *)
Answered(t, slept) ==
    [s \in Session |->
        IF resv[s].at = "waiting" /\ resv[s].cur.by = t
          THEN IF slept THEN [resv[s] EXCEPT !.at = "retry"]
                        ELSE NextCandidate(resv, s)[s]
          ELSE resv[s]]

(* A candidate that is busy by now, or whose reservation ended, declines.   *)
Decline(s, t, idle) ==
    /\ resv[s].at = "asking"
    /\ t \in resv[s].cands
    /\ ~MaySleep(t, idle)
    /\ resv' = [resv EXCEPT ![s].cands = @ \ {t}]
    /\ UNCHANGED <<scoped, held, issued>>

(* The 60 s a sleeping holder of another document is given are over.        *)
GiveUpWaiting(s) ==
    /\ resv[s].at = "waiting"
    /\ PageOf(resv[s].cur.by) # PageOf(s)
    /\ resv' = NextCandidate(resv, s)
    /\ UNCHANGED <<scoped, held, issued>>

(* Mutant: a holder that slept is a slot that is free.                      *)
RetryTake_Trusting(s) ==
    /\ resv[s].at = "retry"
    /\ held' = held \cup {[by |-> s, n |-> issued[s] + 1, claimed |-> TRUE]}
    /\ issued' = [issued EXCEPT ![s] = @ + 1]
    /\ resv' = [resv EXCEPT ![s] = [NoCall EXCEPT !.at = "granted"]]
    /\ UNCHANGED scoped

(* After a candidate slept: 20 attempts to take a slot, then the next one.  *)
RetryTake(s) ==
    /\ resv[s].at = "retry"
    /\ UNCHANGED scoped
    /\ \/ GrantTo(s, resv)
       \/ /\ ~FreeSlot
          /\ resv' = NextCandidate(resv, s)
          /\ UNCHANGED <<held, issued>>

(* Every slot is held by code that is running.                              *)
Exhausted(s) ==
    /\ resv[s].at = "asking"
    /\ resv[s].cands = {}
    /\ resv' = [resv EXCEPT ![s] = [NoCall EXCEPT !.at = "denied"]]
    /\ UNCHANGED <<scoped, held, issued>>
=============================================================================
