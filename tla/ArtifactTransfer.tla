-------------------------- MODULE ArtifactTransfer --------------------------
(***************************************************************************)
(* Downloads of workspace files (browser-python.ts streamArtifact(),       *)
(* artifact-stream.ts): chunks pulled from the worker through a lease and  *)
(* written to a destination somebody else controls, while the caller       *)
(* cancels, the worker dies and the interpreter is replaced.               *)
(*                                                                         *)
(* An action is the code between two awaits, a message the worker serves   *)
(* or one the page receives.  A chunk is its position; the file does not   *)
(* change under a lease (Workspace, LeasedIsFrozen).                       *)
(***************************************************************************)
EXTENDS Integers, Sequences, FiniteSets, FiniteSetsExt

CONSTANTS
    Transfer,
    MaxSize,      \* bound: chunks in a file
    Windows,      \* chunk requests a transfer may have outstanding, by choice of the caller
    Budget,       \* chunks the transfers of the engine may hold in all
    MaxWorkers    \* bound: workers, the first and its replacements

ASSUME TransferAssumption ==
    /\ IsFiniteSet(Transfer)
    /\ MaxSize \in Nat /\ MaxWorkers \in Nat \ {0}
    /\ Windows \subseteq 1..4 /\ Budget \in Nat

VARIABLES
    worker,    \* the current worker, and the leases its workspace has open
    wire,      \* requests on their way to it, in order
    reply,     \* its replies, in order
    reserved,  \* #reservedBytes, in chunks
    tr         \* the downloads

transferVars == <<worker, wire, reply, reserved, tr>>

\* A lease id is a counter of its worker: a replacement issues the same ones.
NewWorker(n) == [id |-> n, alive |-> TRUE, leases |-> {}, last |-> 0]

NoTransfer ==
    [pc |-> "idle", session |-> 0, size |-> 0, acquired |-> "no", lease |-> 0,
     leaseClosed |-> FALSE, handedOff |-> FALSE, failed |-> FALSE, committing |-> FALSE,
     settled |-> "no", result |-> "none", window |-> 0, requested |-> 0, inFlight |-> <<>>,
     written |-> 0, got |-> <<>>]

Init ==
    /\ worker = NewWorker(1)
    /\ wire = <<>> /\ reply = <<>> /\ reserved = 0
    /\ tr = [t \in Transfer |-> NoTransfer]

-----------------------------------------------------------------------------
Current(t) == worker.alive /\ worker.id = tr[t].session

\* The awaits of a transfer that a failure interrupts: race().
Racing == {"opening", "pulling", "writing"}
Live == {t \in Transfer : tr[t].pc \notin {"idle", "done"}}

\* fail(): a cancellation comes too late once the destination is closing.
FailedBy(rec, cancels) == [rec EXCEPT !.failed = @ \/ ~(cancels /\ rec.committing)]

\* Mutant: a close that failed is followed by an abort.
Finishing_Twice(rec, kind) == [rec EXCEPT !.pc = kind, !.settled = kind]

\* finish(): close() or abort() of the destination, once.
Finishing(rec, kind) == [rec EXCEPT !.pc = kind, !.settled = IF @ = "no" THEN kind ELSE @]

Aborts(rec) == Finishing([rec EXCEPT !.failed = TRUE], "abort")
Commits(rec) == Finishing([rec EXCEPT !.committing = TRUE], "close")

\* Requests as the worker gets them.
Addressed(msgs, t, session) ==
    [i \in DOMAIN msgs |-> [kind |-> msgs[i].kind, lease |-> msgs[i].lease, at |-> msgs[i].at,
                            from |-> t, session |-> session]]

\* Mutant: what a transfer sends goes to whatever worker there is.
Sent_ToAny(t, msgs) ==
    IF worker.alive THEN wire \o Addressed(msgs, t, worker.id) ELSE wire

\* #request(): addressed to the session of the transfer or to nobody.
Sent(t, msgs) ==
    IF Current(t) THEN wire \o Addressed(msgs, t, tr[t].session) ELSE wire

\* releaseLease(): at most once, and nothing before there is a lease.
Released(t, rec) ==
    IF rec.lease # 0 /\ ~rec.leaseClosed
      THEN /\ tr' = [tr EXCEPT ![t] = [rec EXCEPT !.leaseClosed = TRUE]]
           /\ wire' = Sent(t, <<[kind |-> "close", lease |-> rec.lease, at |-> 0]>>)
      ELSE /\ tr' = [tr EXCEPT ![t] = rec]
           /\ UNCHANGED wire

-----------------------------------------------------------------------------
\* Mutant: a transfer is admitted while any of the budget is left.
Fits_Any(window) == reserved < Budget

\* Everything up to the first await; the queue of the engine comes next.
Fits(window) == reserved + window <= Budget

Start(t, size, window, aborted) ==
    /\ tr[t].pc = "idle"
    /\ LET admitted == worker.alive /\ Fits(window)
           reserves == IF admitted THEN window ELSE 0
           begun == [NoTransfer EXCEPT !.session = worker.id, !.size = size,
                                       !.pc = "opening", !.window = reserves]
       IN /\ tr' = [tr EXCEPT ![t] = IF admitted /\ ~aborted
                                        THEN [begun EXCEPT !.acquired = "queued"]
                                        ELSE Aborts(begun)]
          /\ reserved' = reserved + reserves
    /\ UNCHANGED <<worker, wire, reply>>

\* The acquisition goes on in the background of a transfer that was cancelled.
Refused(rec) == [rec EXCEPT !.acquired = "refused", !.failed = @ \/ rec.pc = "opening"]

Turn(t) ==
    /\ tr[t].acquired = "queued"
    /\ IF Current(t)
         THEN /\ wire' = Sent(t, <<[kind |-> "open", lease |-> 0, at |-> 0]>>)
              /\ tr' = [tr EXCEPT ![t].acquired = "sent"]
         ELSE /\ tr' = [tr EXCEPT ![t] = Refused(@)]
              /\ UNCHANGED wire
    /\ UNCHANGED <<worker, reply, reserved>>

-----------------------------------------------------------------------------
(* The worker serves one request.  It may refuse any: the file is open, not *)
(* there, or cannot be read; and it refuses those of another session.       *)
Answers(msg, kind, lease) ==
    reply' = Append(reply, [kind |-> kind, to |-> msg.from, session |-> worker.id,
                            lease |-> lease, at |-> msg.at])

Refuses(msg) ==
    /\ Answers(msg, IF msg.kind = "open" THEN "no lease" ELSE "no chunk", msg.lease)
    /\ UNCHANGED worker

ServeOpen(msg) ==
    /\ msg.kind = "open" /\ msg.session = worker.id
    /\ worker' = [worker EXCEPT !.last = @ + 1,
                                !.leases = @ \cup {[id |-> worker.last + 1, of |-> msg.from]}]
    /\ Answers(msg, "lease", worker.last + 1)

ServeChunk(msg) ==
    /\ msg.kind = "chunk" /\ msg.session = worker.id
    /\ \E l \in worker.leases : l.id = msg.lease
    /\ Answers(msg, "chunk", msg.lease)
    /\ UNCHANGED worker

ServeClose(msg) ==
    /\ msg.kind = "close"
    /\ worker' = IF msg.session = worker.id
                   THEN [worker EXCEPT !.leases = {l \in @ : l.id # msg.lease}]
                   ELSE worker
    /\ UNCHANGED reply

Serve ==
    /\ wire # <<>>
    /\ LET msg == Head(wire)
       IN \/ ServeOpen(msg) \/ ServeChunk(msg) \/ ServeClose(msg)
          \/ msg.kind # "close" /\ Refuses(msg)
    /\ wire' = Tail(wire)
    /\ UNCHANGED <<reserved, tr>>

-----------------------------------------------------------------------------
(* The page receives one reply.                                             *)

\* Mutant: a lease that arrives after the cleanup is recorded and forgotten.
Claims_Late(t, lease) ==
    /\ tr' = [tr EXCEPT ![t].acquired = "granted", ![t].lease = lease]
    /\ UNCHANGED wire

\* claimLease(): closed at once if the cleanup has begun.
Claims(t, lease) ==
    LET claimed == [tr[t] EXCEPT !.acquired = "granted", !.lease = lease]
    IN IF tr[t].handedOff THEN Released(t, claimed)
       ELSE tr' = [tr EXCEPT ![t] = claimed] /\ UNCHANGED wire

\* validateChunk()
Valid(t, msg) ==
    /\ msg.kind = "chunk"
    /\ msg.session = tr[t].session /\ msg.lease = tr[t].lease

Chunked(t, msg) ==
    /\ tr' = [tr EXCEPT ![t].inFlight =
                 [i \in DOMAIN @ |-> IF @[i].at # msg.at THEN @[i]
                                     ELSE [@[i] EXCEPT !.is = IF Valid(t, msg) THEN "here" ELSE "bad",
                                                       !.from = msg.session]]]
    /\ UNCHANGED wire

Receive ==
    /\ reply # <<>>
    /\ LET msg == Head(reply) IN
         \/ msg.kind = "lease" /\ Claims(msg.to, msg.lease)
         \/ msg.kind = "no lease" /\ tr' = [tr EXCEPT ![msg.to] = Refused(@)] /\ UNCHANGED wire
         \/ msg.kind \in {"chunk", "no chunk"} /\ Chunked(msg.to, msg)
    /\ reply' = Tail(reply)
    /\ UNCHANGED <<worker, reserved>>

-----------------------------------------------------------------------------
(* The transfer, from one await to the next.                                *)
ChunkRequests(rec, n) ==
    [i \in 1..n |-> [kind |-> "chunk", lease |-> rec.lease, at |-> rec.requested + i - 1]]

Requests(t, rec, n) ==
    /\ tr' = [tr EXCEPT ![t] = [rec EXCEPT
                 !.pc = "pulling", !.requested = @ + n,
                 !.inFlight = @ \o [i \in 1..n |-> [at |-> rec.requested + i - 1,
                                                     is |-> "asked", from |-> 0]]]]
    /\ wire' = Sent(t, ChunkRequests(rec, n))

\* All is written: only the destination's close is left.  The progress callback
\* may throw.
Committing(t, rec) ==
    /\ \/ tr' = [tr EXCEPT ![t] = Commits(rec)]
       \/ tr' = [tr EXCEPT ![t] = Aborts([rec EXCEPT !.committing = TRUE])]
    /\ UNCHANGED wire

Opened(t) ==
    /\ tr[t].pc = "opening" /\ tr[t].acquired = "granted" /\ ~tr[t].failed /\ Current(t)
    /\ IF tr[t].size = 0 THEN Committing(t, tr[t])
       ELSE Requests(t, tr[t], Min({tr[t].size, tr[t].window}))
    /\ UNCHANGED <<worker, reply, reserved>>

\* The next chunk goes to the destination, in its place.
Pull(t) ==
    LET rec == tr[t]
        next == Head(rec.inFlight)
    IN /\ rec.pc = "pulling" /\ ~rec.failed /\ Current(t)
       /\ next.is # "asked"
       /\ tr' = [tr EXCEPT ![t] =
             IF next.is = "here" /\ next.at = rec.written
               THEN [rec EXCEPT !.pc = "writing", !.inFlight = Tail(@),
                                !.got = Append(@, [at |-> next.at, session |-> next.from])]
               ELSE Aborts(rec)]
       /\ UNCHANGED <<worker, wire, reply, reserved>>

\* Mutant: a download ends with the last reply, not with the last byte.
Wrote_Short(t) ==
    LET rec == [tr[t] EXCEPT !.written = @ + 1]
    IN /\ tr[t].pc = "writing" /\ ~rec.failed /\ Current(t)
       /\ IF rec.inFlight = <<>> THEN Committing(t, rec)
          ELSE Requests(t, rec, IF rec.requested < rec.size THEN 1 ELSE 0)
       /\ UNCHANGED <<worker, reply, reserved>>

Wrote(t) ==
    LET rec == [tr[t] EXCEPT !.written = @ + 1]
    IN /\ tr[t].pc = "writing" /\ ~rec.failed /\ Current(t)
       /\ IF rec.inFlight = <<>> /\ rec.requested = rec.size THEN Committing(t, rec)
          ELSE Requests(t, rec, IF rec.requested < rec.size THEN 1 ELSE 0)
       /\ UNCHANGED <<worker, reply, reserved>>

\* The destination's write, or the progress callback, throws.
WriteFails(t) ==
    /\ tr[t].pc = "writing" /\ ~tr[t].failed
    /\ tr' = [tr EXCEPT ![t] = Aborts(@)]
    /\ UNCHANGED <<worker, wire, reply, reserved>>

\* Mutant: a write under way is waited for.
Interrupted_NotWriting(t) ==
    /\ tr[t].pc \in Racing \ {"writing"}
    /\ tr[t].failed \/ ~Current(t)
    /\ tr' = [tr EXCEPT ![t] = Aborts(@)]
    /\ UNCHANGED <<worker, wire, reply, reserved>>

\* Whatever it was waiting for is left behind.
Interrupted(t) ==
    /\ tr[t].pc \in Racing
    /\ tr[t].failed \/ ~Current(t)
    /\ tr' = [tr EXCEPT ![t] = Aborts(@)]
    /\ UNCHANGED <<worker, wire, reply, reserved>>

\* What is left of a transfer that is over: the acquisition may still need it.
LeftOf(rec) ==
    [NoTransfer EXCEPT !.session = rec.session, !.acquired = rec.acquired,
                       !.lease = rec.lease, !.leaseClosed = rec.leaseClosed]

Over(rec, result) ==
    [LeftOf(rec) EXCEPT !.pc = "done", !.result = result, !.handedOff = TRUE,
                        !.settled = rec.settled]

\* Mutant: the lease is closed by the cleanup of a download that succeeded only.
Unwound_KeepsLease(t, rec, result) ==
    /\ tr' = [tr EXCEPT ![t] = Over(rec, result)]
    /\ reserved' = reserved - rec.window
    /\ UNCHANGED <<worker, reply, wire>>

\* The cleanup: every step of it, whatever another one does.
Unwound(t, rec, result) ==
    /\ Released(t, Over(rec, result))
    /\ reserved' = reserved - rec.window
    /\ UNCHANGED <<worker, reply>>

\* close() returns; or it throws or its time is over, and abort() is not tried.
Closes(t) ==
    /\ tr[t].pc = "close"
    /\ \/ Unwound(t, tr[t], "ok")
       \/ Unwound(t, Finishing([tr[t] EXCEPT !.failed = TRUE], "abort"), "failed")

\* abort() returns, throws, or its time is over.
AbortEnds(t) ==
    /\ tr[t].pc = "abort"
    /\ Unwound(t, tr[t], "failed")

-----------------------------------------------------------------------------
\* The caller's signal.
Cancel(t) ==
    /\ t \in Live
    /\ tr' = [tr EXCEPT ![t] = FailedBy(@, TRUE)]
    /\ UNCHANGED <<worker, wire, reply, reserved>>

\* rejectAll(): the requests under way and the transfers.
Rejected(cancels) ==
    [t \in Transfer |->
        LET rec == IF tr[t].acquired = "sent" THEN Refused(tr[t]) ELSE tr[t]
        IN IF t \in Live THEN FailedBy(rec, cancels) ELSE rec]

Restart ==
    /\ worker.id < MaxWorkers
    /\ tr' = Rejected(TRUE)
    /\ worker' = NewWorker(worker.id + 1)
    /\ wire' = <<>> /\ reply' = <<>>
    /\ UNCHANGED reserved

WorkerDies ==
    /\ worker.alive
    /\ tr' = Rejected(FALSE)
    /\ worker' = [worker EXCEPT !.alive = FALSE, !.leases = {}]
    /\ wire' = <<>> /\ reply' = <<>>
    /\ UNCHANGED reserved

-----------------------------------------------------------------------------
Cleanup(t) == Interrupted(t) \/ Closes(t) \/ AbortEnds(t)

Next ==
    \/ \E t \in Transfer :
          \/ \E size \in 0..MaxSize, window \in Windows, aborted \in BOOLEAN : Start(t, size, window, aborted)
          \/ Turn(t) \/ Opened(t) \/ Pull(t) \/ Wrote(t) \/ WriteFails(t)
          \/ Cleanup(t) \/ Cancel(t)
    \/ Serve \/ Receive \/ Restart \/ WorkerDies

Spec == Init /\ [][Next]_transferVars

\* The engine's own continuations and timers run.  Nothing is assumed of the
\* destination, and of the worker only that it serves what it is sent.
FairSpec ==
    /\ Spec
    /\ \A t \in Transfer : WF_transferVars(Cleanup(t)) /\ WF_transferVars(Turn(t))
    /\ WF_transferVars(Serve) /\ WF_transferVars(Receive)
=============================================================================
