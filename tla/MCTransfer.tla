----------------------------- MODULE MCTransfer -----------------------------
(***************************************************************************)
(* The properties of downloads, and the instance TLC checks.               *)
(***************************************************************************)
EXTENDS ArtifactTransfer

(* A destination that was asked to close has every chunk of the file, once,  *)
(* in order and from one interpreter: no cancellation, restart, refused      *)
(* chunk or late reply leaves a truncated file under the name                *)
(* (browser-python.ts streamArtifact(): "a destination closed after a        *)
(* failure looks finished").                                                 *)
ClosedIsWhole ==
    \A t \in Live : tr[t].settled = "close" =>
        tr[t].got = [i \in 1..tr[t].size |-> [at |-> i - 1, session |-> tr[t].session]]

(* "Exactly one of close and abort happens, exactly once": no later step     *)
(* settles a destination otherwise, no transfer is over before, and none is   *)
(* reported as done whose destination was aborted.                           *)
SettledOnce ==
    [][\A t \in Transfer :
          /\ tr[t].settled # "no" => tr'[t].settled = tr[t].settled
          /\ tr'[t].pc = "done" => tr'[t].settled # "no"
          /\ tr'[t].result = "ok" => tr'[t].settled = "close"]_transferVars

(* A granted lease is never ownerless, whatever the order of its reply, the  *)
(* cancellation and the cleanup (claimLease(), releaseLease(), handedOff):   *)
(* its reply is on its way, its transfer will close it, or the close is sent. *)
LeaseOwned ==
    \A l \in worker.leases :
        \/ tr[l.of].pc # "done" /\ tr[l.of].lease = l.id /\ ~tr[l.of].leaseClosed
        \/ \E i \in DOMAIN reply : reply[i].kind = "lease" /\ reply[i].lease = l.id
        \/ \E i \in DOMAIN wire : wire[i].kind = "close" /\ wire[i].lease = l.id

(* No transfer frees the lease of another: lease ids start again with every  *)
(* worker, and a close of the last interpreter's must not reach the next     *)
(* (#closeLease(): "a close sent to whatever Worker is current would free    *)
(* somebody else's lease").                                                  *)
OnlyOwnLease ==
    [][\A l \in worker.leases :
          worker'.id = worker.id /\ worker'.alive /\ l \notin worker'.leases
              => tr[l.of].handedOff]_transferVars

(* What transfers hold outside the worker is reserved, and within the        *)
(* budget of the engine (#reserveTransfer()): a place of the budget for each *)
(* chunk a transfer may hold, and no transfer holds more than it may.        *)
Held(t) == Len(tr[t].inFlight) + IF tr[t].pc = "writing" THEN 1 ELSE 0
Places == {p \in Transfer \X (1..Budget) : p[2] <= tr[p[1]].window}

WithinBudget ==
    /\ reserved = Cardinality(Places)
    /\ reserved <= Budget
    /\ \A t \in Transfer : Held(t) <= tr[t].window

(* A transfer that has failed, was cancelled or is closing its destination   *)
(* ends, even when the worker never answers again and the destination never  *)
(* returns (race(), finish() and its timer).                                 *)
CancelledEnds ==
    \A t \in Transfer : tr[t].failed \/ tr[t].committing ~> tr[t].pc = "done"

(* A file that was downloaded, or was to be, is not frozen for ever: every   *)
(* lease of a transfer that is over is given back.                           *)
LeasesReturn ==
    \A t \in Transfer : tr[t].pc = "done" ~> \A l \in worker.leases : l.of # t
=============================================================================
