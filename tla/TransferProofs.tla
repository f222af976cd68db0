--------------------------- MODULE TransferProofs ---------------------------
(***************************************************************************)
(* Proofs about downloads, for any number of transfers and replacements of *)
(* the worker, files of any size and any window.                           *)
(*                                                                         *)
(* What a transfer may be is said of one record; a step changes one        *)
(* transfer (TransferMoves) or marks several (TransfersMarked).            *)
(***************************************************************************)
EXTENDS MCTransfer, SequenceTheorems, FiniteSetTheorems, TLAPS

Chunk == [at : Nat, is : {"asked", "here", "bad"}, from : Nat]
Got == [at : Nat, session : Nat]

Rec == [pc : {"idle", "opening", "pulling", "writing", "close", "abort", "done"},
        session : Nat, size : Nat, acquired : {"no", "queued", "sent", "granted", "refused"},
        lease : Nat, leaseClosed : BOOLEAN, handedOff : BOOLEAN, failed : BOOLEAN,
        committing : BOOLEAN, settled : {"no", "close", "abort"},
        result : {"none", "ok", "failed"}, window : Nat, requested : Nat,
        inFlight : Seq(Chunk), written : Nat, got : Seq(Got)]

Query == [kind : {"open", "chunk", "close"}, lease : Nat, at : Nat]
Request == [kind : {"open", "chunk", "close"}, lease : Nat, at : Nat,
            from : Transfer, session : Nat]
Reply == [kind : {"lease", "no lease", "chunk", "no chunk"}, to : Transfer,
          session : Nat, lease : Nat, at : Nat]

MessagesOK ==
    /\ worker \in [id : Nat, alive : BOOLEAN, last : Nat, leases : SUBSET [id : Nat, of : Transfer]]
    /\ wire \in Seq(Request)
    /\ reply \in Seq(Reply)

\* The first n chunks of a file, from the interpreter of session s.
Prefix(n, s) == [i \in 1..n |-> [at |-> i - 1, session |-> s]]

\* What has come for a transfer, and is not refused, is of its interpreter.
FlightOK(flight, session) ==
    \A i \in 1..Len(flight) : flight[i].is = "here" => flight[i].from = session

\* A destination is settled when the transfer stops racing; until then what
\* was requested is what was written, what is being written and what is on its
\* way, and what the destination has is the beginning of the file.
TransferOK(r) ==
    /\ r \in Rec
    /\ r.pc \in Racing \cup {"idle"} <=> r.settled = "no"
    /\ r.pc = "close" => r.settled = "close"
    /\ r.pc = "abort" => r.settled = "abort"
    /\ r.result = "ok" => r.pc = "done" /\ r.settled = "close"
    /\ r.pc = "opening" =>
          r.requested = 0 /\ Len(r.inFlight) = 0 /\ r.written = 0 /\ r.window > 0
    /\ r.pc \in Racing => r.requested <= r.size /\ FlightOK(r.inFlight, r.session)
    /\ r.pc = "pulling" => Len(r.inFlight) > 0
    /\ r.pc \in {"opening", "pulling"} =>
          r.requested = r.written + Len(r.inFlight) /\ r.got = Prefix(r.written, r.session)
    /\ r.pc = "writing" =>
          /\ r.requested = r.written + 1 + Len(r.inFlight)
          /\ r.got = Prefix(r.written + 1, r.session)
    /\ r.pc = "close" => r.got = Prefix(r.size, r.session)

IInv ==
    /\ MessagesOK
    /\ tr \in [Transfer -> Rec]
    /\ \A t \in Transfer : TransferOK(tr[t])

-----------------------------------------------------------------------------
(* Sequences.                                                               *)

LEMMA EmptyTyped == \A S : <<>> \in Seq(S) /\ Len(<<>>) = 0
BY EmptySeq

LEMMA PrefixEmpty == \A s : Prefix(0, s) = <<>>
BY DEF Prefix

LEMMA PrefixGrows ==
    ASSUME NEW n \in Nat, NEW s \in Nat
    PROVE  /\ Prefix(n, s) \in Seq(Got) /\ Len(Prefix(n, s)) = n
           /\ Append(Prefix(n, s), [at |-> n, session |-> s]) = Prefix(n + 1, s)
<1>1. ASSUME NEW m \in Nat PROVE Prefix(m, s) \in Seq(Got) /\ Len(Prefix(m, s)) = m
  <2>1. Prefix(m, s) \in [1..m -> Got]  BY DEF Prefix, Got
  <2>2. Prefix(m, s) \in Seq(Got)  BY <2>1, SeqDef
  <2> QED BY <2>1, <2>2
<1> DEFINE longer == Append(Prefix(n, s), [at |-> n, session |-> s])
<1>2. [at |-> n, session |-> s] \in Got
  BY DEF Got
<1>3. /\ longer \in Seq(Got) /\ Len(longer) = n + 1 /\ longer[n + 1] = [at |-> n, session |-> s]
      /\ \A i \in 1..n : longer[i] = Prefix(n, s)[i]
  <2> DEFINE shorter == Prefix(n, s)
             next == [at |-> n, session |-> s]
  <2>1. shorter \in Seq(Got) /\ Len(shorter) = n /\ next \in Got
    BY <1>1, <1>2
  <2> HIDE DEF shorter, next
  <2>2. /\ Append(shorter, next) \in Seq(Got) /\ Len(Append(shorter, next)) = n + 1
        /\ Append(shorter, next)[n + 1] = next
        /\ \A i \in 1..n : Append(shorter, next)[i] = shorter[i]
    BY <2>1, AppendProperties
  <2> QED BY <2>2 DEF shorter, next
<1>4. Prefix(n + 1, s) \in Seq(Got) /\ Len(Prefix(n + 1, s)) = n + 1
  BY <1>1
<1>5. \A i \in 1..(n + 1) : longer[i] = Prefix(n + 1, s)[i]
  <2> HIDE DEF longer
  <2> TAKE i \in 1..(n + 1)
  <2>0. i = n + 1 \/ i \in 1..n
    OBVIOUS
  <2>1. CASE i = n + 1  BY <2>1, <1>3 DEF Prefix
  <2>2. CASE i \in 1..n  BY <2>2, <1>3 DEF Prefix
  <2> QED BY <2>0, <2>1, <2>2
<1>6. longer = Prefix(n + 1, s)
  <2> HIDE DEF longer
  <2> QED BY <1>3, <1>4, <1>5, SeqEqual
<1> QED BY <1>1, <1>6

LEMMA SentTyped ==
    ASSUME MessagesOK, NEW t \in Transfer, tr[t].session \in Nat,
           NEW n \in Nat, NEW msgs \in [1..n -> Query]
    PROVE  Sent(t, msgs) \in Seq(Request)
<1> DEFINE m == Addressed(msgs, t, tr[t].session)
<1>1. m \in [1..n -> Request]
  BY DEF Addressed, Query, Request
<1>2. m \in Seq(Request)
  BY <1>1, SeqDef
<1>3. wire \in Seq(Request)
  BY DEF MessagesOK
<1>4. wire \o m \in Seq(Request)
  <2> HIDE DEF m
  <2> QED BY <1>2, <1>3, ConcatProperties
<1> QED BY <1>3, <1>4 DEF Sent

LEMMA OneSent ==
    ASSUME MessagesOK, NEW t \in Transfer, tr[t].session \in Nat, NEW q \in Query
    PROVE  Sent(t, <<q>>) \in Seq(Request)
<1>1. <<q>> \in [1..1 -> Query]
  OBVIOUS
<1> QED BY <1>1, SentTyped

-----------------------------------------------------------------------------
(* What a kind of step does to the transfers.                               *)

\* A record that differs in what TransferOK does not speak of.
Alike(q, r) ==
    /\ r \in Rec
    /\ r.pc = q.pc /\ r.settled = q.settled /\ r.result = q.result /\ r.session = q.session
    /\ r.size = q.size /\ r.requested = q.requested /\ r.written = q.written /\ r.got = q.got
    /\ r.window = q.window /\ r.inFlight = q.inFlight

LEMMA AlikeOK == ASSUME NEW q, NEW r, TransferOK(q), Alike(q, r) PROVE TransferOK(r)
BY DEF TransferOK, Alike

\* Once settled, settled so for ever.
Settles(q, r) == q.settled # "no" => r.settled = q.settled

LEMMA TransferMoves ==
    ASSUME IInv, NEW t \in Transfer, NEW r, TransferOK(r), Settles(tr[t], r),
           tr' = [tr EXCEPT ![t] = r], MessagesOK'
    PROVE  IInv' /\ \A u \in Transfer : Settles(tr[u], tr'[u])
<1>1. tr \in [Transfer -> Rec] /\ r \in Rec
  BY DEF IInv, TransferOK
<1>2. tr' \in [Transfer -> Rec] /\ tr'[t] = r /\ \A u \in Transfer : u # t => tr'[u] = tr[u]
  BY <1>1
<1> QED BY <1>2 DEF IInv, Settles

LEMMA TransfersMarked ==
    ASSUME IInv, MessagesOK', tr' \in [Transfer -> Rec], \A t \in Transfer : Alike(tr[t], tr'[t])
    PROVE  IInv' /\ \A u \in Transfer : Settles(tr[u], tr'[u])
BY AlikeOK DEF IInv, Alike, Settles

LEMMA TransfersStay ==
    ASSUME IInv, MessagesOK', tr' = tr
    PROVE  IInv' /\ \A u \in Transfer : Settles(tr[u], tr'[u])
BY DEF IInv, Settles

Keeps == IInv' /\ \A u \in Transfer : Settles(tr[u], tr'[u])

LEMMA Facts ==
    ASSUME IInv, NEW t \in Transfer
    PROVE  tr \in [Transfer -> Rec] /\ tr[t] \in Rec /\ TransferOK(tr[t]) /\ MessagesOK
BY DEF IInv

\* The end of the race is an abort, or a close of a destination that has all.
LEMMA AbortOK ==
    ASSUME NEW r \in Rec, r.settled = "no", r.result # "ok"
    PROVE  TransferOK(Aborts(r))
<1> DEFINE q == Aborts(r)
<1>1. q \in Rec /\ q.pc = "abort" /\ q.settled = "abort" /\ q.result = r.result
  BY DEF Aborts, Finishing, Rec
<1> HIDE DEF q
<1>2. TransferOK(q)
  BY <1>1 DEF TransferOK, Racing
<1> QED BY <1>2 DEF q

LEMMA CommitOK ==
    ASSUME NEW r \in Rec, r.settled = "no", r.result # "ok", r.got = Prefix(r.size, r.session)
    PROVE  TransferOK(Commits(r))
<1> DEFINE q == Commits(r)
<1>1. /\ q \in Rec /\ q.pc = "close" /\ q.settled = "close" /\ q.result = r.result
      /\ q.got = r.got /\ q.size = r.size /\ q.session = r.session
  BY DEF Commits, Finishing, Rec
<1> HIDE DEF q
<1>2. TransferOK(q)
  BY <1>1 DEF TransferOK, Racing
<1> QED BY <1>2 DEF q

-----------------------------------------------------------------------------
(* The transfer's own steps.                                                *)

LEMMA NoTransferOK == NoTransfer \in Rec
BY EmptyTyped DEF NoTransfer, Rec

LEMMA KeepsStart ==
    ASSUME IInv, NEW t \in Transfer, NEW size \in 0..MaxSize, NEW window \in Windows,
           NEW aborted \in BOOLEAN, Start(t, size, window, aborted)
    PROVE  Keeps
<1> DEFINE admitted == worker.alive /\ Fits(window)
           reserves == IF admitted THEN window ELSE 0
           begun == [NoTransfer EXCEPT !.session = worker.id, !.size = size,
                                       !.pc = "opening", !.window = reserves]
           r == IF admitted /\ ~aborted THEN [begun EXCEPT !.acquired = "queued"]
                ELSE Aborts(begun)
<1> USE TransferAssumption
<1>1. tr' = [tr EXCEPT ![t] = r] /\ UNCHANGED <<worker, wire, reply>> /\ tr[t].pc = "idle"
  BY DEF Start
<1>2. reserves \in Nat /\ worker.id \in Nat /\ size \in Nat
  BY Facts DEF MessagesOK
<1>3. /\ begun \in Rec /\ begun.pc = "opening" /\ begun.settled = "no" /\ begun.result = "none"
      /\ begun.requested = 0 /\ begun.inFlight = <<>> /\ begun.written = 0 /\ begun.got = <<>>
      /\ begun.window = reserves /\ begun.size \in Nat
  <2> HIDE DEF reserves
  <2> QED BY <1>2, NoTransferOK DEF NoTransfer, Rec
<1> HIDE DEF begun
<1>4. TransferOK(Aborts(begun))
  BY <1>3, AbortOK
<1>5. ASSUME admitted PROVE TransferOK([begun EXCEPT !.acquired = "queued"])
  <2> DEFINE q == [begun EXCEPT !.acquired = "queued"]
  <2>1. /\ q \in Rec /\ q.pc = "opening" /\ q.settled = "no" /\ q.result = "none"
        /\ q.requested = 0 /\ q.inFlight = <<>> /\ q.written = 0 /\ q.got = <<>>
        /\ q.window = reserves /\ q.size \in Nat
    BY <1>3 DEF Rec
  <2>0. reserves \in Nat /\ reserves > 0
    BY <1>5
  <2> HIDE DEF q
  <2>2. TransferOK(q)
    BY <2>0, <2>1, EmptyTyped, PrefixEmpty DEF TransferOK, Racing, FlightOK
  <2> QED BY <2>2 DEF q
<1>6. TransferOK(r)
  BY <1>4, <1>5
<1>7. Settles(tr[t], r)
  BY <1>1, Facts DEF TransferOK, Settles
<1> HIDE DEF r
<1> QED BY <1>1, <1>6, <1>7, Facts, TransferMoves DEF MessagesOK, Keeps

LEMMA RefusedAlike == ASSUME NEW r \in Rec PROVE Alike(r, Refused(r))
<1> DEFINE b == r.failed \/ r.pc = "opening"
<1>1. b \in BOOLEAN /\ Refused(r) = [r EXCEPT !.acquired = "refused", !.failed = b]
  BY DEF Refused
<1> HIDE DEF b
<1> QED BY <1>1 DEF Alike, Rec

LEMMA FailedAlike ==
    ASSUME NEW r \in Rec, NEW cancels \in BOOLEAN PROVE Alike(r, FailedBy(r, cancels))
<1> DEFINE b == r.failed \/ ~(cancels /\ r.committing)
<1>1. b \in BOOLEAN /\ FailedBy(r, cancels) = [r EXCEPT !.failed = b]
  BY DEF FailedBy
<1> HIDE DEF b
<1> QED BY <1>1 DEF Alike, Rec

LEMMA KeepsTurn ==
    ASSUME IInv, NEW t \in Transfer, Turn(t) PROVE Keeps
<1>1. tr \in [Transfer -> Rec] /\ tr[t] \in Rec /\ MessagesOK
  BY Facts
<1>2. PICK r \in {[tr[t] EXCEPT !.acquired = "sent"], Refused(tr[t])} : tr' = [tr EXCEPT ![t] = r]
  BY DEF Turn
<1>3. Alike(tr[t], r)
  <2>1. Alike(tr[t], [tr[t] EXCEPT !.acquired = "sent"])
    BY <1>1 DEF Alike, Rec
  <2> QED BY <1>1, <1>2, <2>1, RefusedAlike
<1>4. tr' \in [Transfer -> Rec] /\ tr'[t] = r /\ \A u \in Transfer : u # t => tr'[u] = tr[u]
  BY <1>1, <1>2, <1>3 DEF Alike
<1>5. \A u \in Transfer : Alike(tr[u], tr'[u])
  BY <1>1, <1>3, <1>4 DEF Alike
<1>6. MessagesOK'
  <2>1. [kind |-> "open", lease |-> 0, at |-> 0] \in Query
    BY DEF Query
  <2>2. tr[t].session \in Nat
    BY <1>1 DEF Rec
  <2>3. Sent(t, <<[kind |-> "open", lease |-> 0, at |-> 0]>>) \in Seq(Request)
    BY <1>1, <2>1, <2>2, OneSent
  <2> QED BY <1>1, <2>3 DEF Turn, MessagesOK
<1> QED BY <1>4, <1>5, <1>6, TransfersMarked DEF Keeps

\* n more chunks are asked for.
LEMMA RequestsKeep ==
    ASSUME IInv, NEW t \in Transfer, NEW rec \in Rec, NEW n \in Nat, Requests(t, rec, n),
           tr[t].session \in Nat,
           tr[t].settled = "no", rec.settled = "no", rec.result # "ok",
           rec.requested = rec.written + Len(rec.inFlight),
           rec.got = Prefix(rec.written, rec.session),
           rec.requested + n <= rec.size, Len(rec.inFlight) + n > 0,
           FlightOK(rec.inFlight, rec.session),
           UNCHANGED <<worker, reply>>
    PROVE  Keeps
<1> DEFINE asked == [i \in 1..n |-> [at |-> rec.requested + i - 1, is |-> "asked", from |-> 0]]
           flight == rec.inFlight \o asked
           r == [rec EXCEPT !.pc = "pulling", !.requested = @ + n, !.inFlight = @ \o asked]
<1>0. rec.requested \in Nat /\ rec.lease \in Nat /\ rec.inFlight \in Seq(Chunk) /\ rec.written \in Nat
  BY DEF Rec
<1>1. asked \in [1..n -> Chunk]
  BY <1>0 DEF Chunk
<1>2. asked \in Seq(Chunk) /\ Len(asked) = n
  BY <1>1, SeqDef
<1>3. flight \in Seq(Chunk) /\ Len(flight) = Len(rec.inFlight) + n /\ FlightOK(flight, rec.session)
  <2> DEFINE before == rec.inFlight
  <2>1. Len(before) \in Nat /\ before \in Seq(Chunk) /\ FlightOK(before, rec.session)
    BY <1>0, LenProperties
  <2>2. \A i \in 1..n : asked[i].is # "here"
    OBVIOUS
  <2> HIDE DEF asked, before
  <2>3. /\ before \o asked \in Seq(Chunk) /\ Len(before \o asked) = Len(before) + n
        /\ \A i \in 1..(Len(before) + n) : (before \o asked)[i] =
              IF i <= Len(before) THEN before[i] ELSE asked[i - Len(before)]
    <3>1. asked \in Seq(Chunk) /\ before \in Seq(Chunk)
      BY <1>2, <2>1
    <3>2. /\ before \o asked \in Seq(Chunk) /\ Len(before \o asked) = Len(before) + Len(asked)
          /\ \A i \in 1..(Len(before) + Len(asked)) : (before \o asked)[i] =
                IF i <= Len(before) THEN before[i] ELSE asked[i - Len(before)]
      BY <3>1, ConcatProperties
    <3>3. Len(asked) = n
      BY <1>2
    <3> QED BY <3>2, <3>3
  <2>4. FlightOK(before \o asked, rec.session)
    <3> SUFFICES ASSUME NEW i \in 1..(Len(before) + n), (before \o asked)[i].is = "here"
                 PROVE  (before \o asked)[i].from = rec.session
      BY <2>3 DEF FlightOK
    <3>1. CASE i <= Len(before)
      BY <2>1, <2>3, <3>1 DEF FlightOK
    <3>2. CASE ~(i <= Len(before))
      <4>1. i - Len(before) \in 1..n
        BY <2>1, <3>2
      <4> QED BY <2>2, <2>3, <3>2, <4>1
    <3> QED BY <3>1, <3>2
  <2> QED BY <2>3, <2>4 DEF before
<1>4. tr' = [tr EXCEPT ![t] = r]
  BY DEF Requests
<1>5. /\ r \in Rec /\ r.pc = "pulling" /\ r.requested = rec.requested + n
      /\ r.inFlight = flight /\ r.written = rec.written /\ r.got = rec.got
      /\ r.settled = rec.settled /\ r.result = rec.result /\ r.session = rec.session
      /\ r.size = rec.size
  <2>1. r = [rec EXCEPT !.pc = "pulling", !.requested = rec.requested + n, !.inFlight = flight]
    OBVIOUS
  <2>2. rec.requested + n \in Nat
    BY <1>0
  <2> HIDE DEF flight, asked, r
  <2> QED BY <1>3, <2>1, <2>2 DEF Rec
<1> HIDE DEF r, flight, asked
<1>6. TransferOK(r)
  <2>1. Len(rec.inFlight) \in Nat
    BY <1>0, LenProperties
  <2>2. r.requested = r.written + Len(r.inFlight)
    <3> DEFINE k == Len(rec.inFlight)
               w == rec.written
    <3>1. r.requested = (w + k) + n /\ r.written = w /\ Len(r.inFlight) = k + n
      BY <1>3, <1>5
    <3>2. k \in Nat /\ w \in Nat
      BY <1>0, <2>1
    <3> HIDE DEF k, w
    <3> QED BY <3>1, <3>2
  <2>3. r.requested <= r.size /\ Len(r.inFlight) > 0
    BY <1>3, <1>5
  <2> QED BY <1>3, <1>5, <2>2, <2>3 DEF TransferOK, Racing
<1>7. MessagesOK'
  <2>1. ChunkRequests(rec, n) \in [1..n -> Query]
    BY <1>0 DEF ChunkRequests, Query
  <2>2. Sent(t, ChunkRequests(rec, n)) \in Seq(Request)
    BY <2>1, Facts, SentTyped
  <2> QED BY <2>2, Facts DEF Requests, MessagesOK
<1>8. Settles(tr[t], r)
  BY DEF Settles
<1> QED BY <1>4, <1>6, <1>7, <1>8, TransferMoves DEF Keeps

LEMMA CommittingKeeps ==
    ASSUME IInv, NEW t \in Transfer, NEW rec \in Rec, Committing(t, rec),
           tr[t].settled = "no", rec.settled = "no", rec.result # "ok",
           rec.got = Prefix(rec.size, rec.session),
           UNCHANGED <<worker, reply>>
    PROVE  Keeps
<1> DEFINE late == [rec EXCEPT !.committing = TRUE]
<1>1. late \in Rec /\ late.settled = "no" /\ late.result # "ok"
  BY DEF Rec
<1>2. TransferOK(Commits(rec)) /\ TransferOK(Aborts(late))
  <2> HIDE DEF late
  <2> QED BY <1>1, CommitOK, AbortOK
<1>3. PICK r \in {Commits(rec), Aborts(late)} : tr' = [tr EXCEPT ![t] = r]
  BY DEF Committing
<1>4. TransferOK(r) /\ Settles(tr[t], r)
  BY <1>2, <1>3 DEF Settles
<1>5. MessagesOK'
  BY Facts DEF Committing, MessagesOK
<1> QED BY <1>3, <1>4, <1>5, TransferMoves DEF Keeps

LEMMA KeepsOpened ==
    ASSUME IInv, NEW t \in Transfer, Opened(t) PROVE Keeps
<1> DEFINE rec == tr[t]
<1>1. rec \in Rec /\ TransferOK(rec) /\ rec.pc = "opening"
  BY Facts DEF Opened
<1>2. /\ rec.settled = "no" /\ rec.result # "ok"
      /\ rec.requested = rec.written + Len(rec.inFlight)
      /\ rec.got = Prefix(rec.written, rec.session) /\ rec.written = 0
      /\ rec.requested = 0 /\ Len(rec.inFlight) = 0 /\ rec.window > 0
      /\ FlightOK(rec.inFlight, rec.session)
  BY <1>1 DEF TransferOK, Racing
<1>3. rec.session \in Nat /\ rec.size \in Nat /\ rec.window \in Nat
  BY <1>1 DEF Rec
<1>4. UNCHANGED <<worker, reply>>
  BY DEF Opened
<1>5. CASE rec.size = 0
  <2>1. Committing(t, rec)
    BY <1>5 DEF Opened
  <2> QED BY <1>1, <1>2, <1>4, <1>5, <2>1, CommittingKeeps
<1>6. CASE rec.size # 0
  <2> DEFINE n == Min({rec.size, rec.window})
  <2>1. n \in {rec.size, rec.window} /\ n <= rec.size
    <3>1. \E x \in {rec.size, rec.window} : \A y \in {rec.size, rec.window} : x =< y
      BY <1>3
    <3> HIDE DEF rec
    <3> QED BY <3>1 DEF Min
  <2>2. Requests(t, rec, n)
    BY <1>6 DEF Opened
  <2> HIDE DEF n
  <2>3. n \in Nat /\ rec.requested + n <= rec.size /\ Len(rec.inFlight) + n > 0
    BY <1>2, <1>3, <1>6, <2>1
  <2> QED BY <1>1, <1>2, <1>3, <1>4, <2>2, <2>3, RequestsKeep
<1> QED BY <1>5, <1>6

LEMMA KeepsPull ==
    ASSUME IInv, NEW t \in Transfer, Pull(t) PROVE Keeps
<1> DEFINE rec == tr[t]
           next == Head(rec.inFlight)
           r == [rec EXCEPT !.pc = "writing", !.inFlight = Tail(@),
                            !.got = Append(@, [at |-> next.at, session |-> next.from])]
<1>1. rec \in Rec /\ TransferOK(rec) /\ rec.pc = "pulling" /\ MessagesOK
  BY Facts DEF Pull
<1>2. /\ rec.settled = "no" /\ rec.result # "ok"
      /\ rec.requested = rec.written + Len(rec.inFlight)
      /\ rec.got = Prefix(rec.written, rec.session)
      /\ rec.requested <= rec.size /\ Len(rec.inFlight) > 0
      /\ FlightOK(rec.inFlight, rec.session)
  BY <1>1 DEF TransferOK, Racing
<1>3. MessagesOK'
  BY <1>1 DEF Pull, MessagesOK
<1>4. CASE tr' = [tr EXCEPT ![t] = Aborts(rec)]
  <2>1. TransferOK(Aborts(rec)) /\ Settles(tr[t], Aborts(rec))
    BY <1>1, <1>2, AbortOK DEF Settles
  <2> QED BY <1>3, <1>4, <2>1, TransferMoves DEF Keeps
<1>5. CASE /\ tr' = [tr EXCEPT ![t] = r] /\ rec.inFlight # <<>>
           /\ next.is = "here" /\ next.at = rec.written
  <2>1. rec.written \in Nat /\ rec.session \in Nat /\ rec.inFlight \in Seq(Chunk)
    BY <1>1 DEF Rec
  <2> DEFINE rest == Tail(rec.inFlight)
             more == Append(rec.got, [at |-> next.at, session |-> next.from])
  <2>2. /\ rest \in Seq(Chunk) /\ Len(rest) = Len(rec.inFlight) - 1 /\ Len(rec.inFlight) \in Nat
        /\ \A i \in 1..Len(rest) : rest[i] = rec.inFlight[i + 1]
    BY <1>5, <2>1, HeadTailProperties, LenProperties
  <2>8. next = rec.inFlight[1]
    BY <2>1
  <2>9. next.from = rec.session
    BY <1>2, <1>5, <2>2, <2>8 DEF FlightOK
  <2>10. FlightOK(rest, rec.session)
    <3> DEFINE flight == rec.inFlight
    <3>1. FlightOK(flight, rec.session) /\ Len(rest) = Len(flight) - 1 /\ Len(flight) \in Nat
          /\ \A i \in 1..Len(rest) : rest[i] = flight[i + 1]
      BY <1>2, <2>2
    <3> HIDE DEF rest, flight
    <3> QED BY <3>1 DEF FlightOK
  <2>3. more = Prefix(rec.written + 1, rec.session) /\ more \in Seq(Got)
    <3>1. more = Append(Prefix(rec.written, rec.session), [at |-> rec.written, session |-> rec.session])
      BY <1>2, <1>5, <2>9
    <3> DEFINE w == rec.written
               c == rec.session
    <3>2. w \in Nat /\ c \in Nat /\ more = Append(Prefix(w, c), [at |-> w, session |-> c])
      BY <2>1, <3>1
    <3>3. more = Prefix(w + 1, c) /\ Prefix(w + 1, c) \in Seq(Got)
      <4> HIDE DEF more, w, c
      <4>1. w + 1 \in Nat
        BY <3>2
      <4> QED BY <3>2, <4>1, PrefixGrows
    <3> QED BY <3>3
  <2>4. r = [rec EXCEPT !.pc = "writing", !.inFlight = rest, !.got = more]
    OBVIOUS
  <2> HIDE DEF rest, more, r
  <2>5. /\ r \in Rec /\ r.pc = "writing" /\ r.inFlight = rest /\ r.got = more
        /\ r.written = rec.written /\ r.requested = rec.requested /\ r.session = rec.session
        /\ r.settled = rec.settled /\ r.result = rec.result /\ r.size = rec.size
    BY <1>1, <2>2, <2>3, <2>4 DEF Rec
  <2>6. r.requested = r.written + 1 + Len(r.inFlight)
    <3> DEFINE k == Len(rec.inFlight)
               w == rec.written
    <3>1. r.requested = w + k /\ r.written = w /\ Len(r.inFlight) = k - 1 /\ k \in Nat /\ w \in Nat
      BY <1>2, <2>1, <2>2, <2>5
    <3> HIDE DEF k, w
    <3> QED BY <3>1
  <2>7. TransferOK(r) /\ Settles(tr[t], r)
    BY <1>2, <2>3, <2>5, <2>6, <2>10 DEF TransferOK, Racing, Settles
  <2> QED BY <1>3, <1>5, <2>7, TransferMoves DEF Keeps
<1>6. rec.inFlight # <<>>
  BY <1>2, EmptyTyped
<1>7. tr' = [tr EXCEPT ![t] = IF next.is = "here" /\ next.at = rec.written THEN r ELSE Aborts(rec)]
  BY DEF Pull
<1> HIDE DEF r
<1> QED BY <1>4, <1>5, <1>6, <1>7

LEMMA KeepsWrote ==
    ASSUME IInv, NEW t \in Transfer, Wrote(t) PROVE Keeps
<1> DEFINE old == tr[t]
           rec == [tr[t] EXCEPT !.written = @ + 1]
<1>1. old \in Rec /\ TransferOK(old) /\ old.pc = "writing"
  BY Facts DEF Wrote
<1>2. /\ old.settled = "no" /\ old.result # "ok"
      /\ old.requested = old.written + 1 + Len(old.inFlight)
      /\ old.got = Prefix(old.written + 1, old.session)
      /\ old.requested <= old.size /\ FlightOK(old.inFlight, old.session)
  BY <1>1 DEF TransferOK, Racing
<1>3. old.written \in Nat /\ old.requested \in Nat /\ old.session \in Nat /\ old.inFlight \in Seq(Chunk)
  BY <1>1 DEF Rec
<1>4. /\ rec \in Rec /\ rec.written = old.written + 1 /\ rec.requested = old.requested
      /\ rec.inFlight = old.inFlight /\ rec.got = old.got /\ rec.session = old.session
      /\ rec.size = old.size /\ rec.settled = old.settled /\ rec.result = old.result
  <2>1. rec = [old EXCEPT !.written = old.written + 1] /\ old.written + 1 \in Nat
    BY <1>3
  <2> HIDE DEF rec
  <2> QED BY <1>1, <2>1 DEF Rec
<1>5. IF rec.inFlight = <<>> /\ rec.requested = rec.size
        THEN Committing(t, rec)
        ELSE Requests(t, rec, IF rec.requested < rec.size THEN 1 ELSE 0)
  BY DEF Wrote
<1>6. UNCHANGED <<worker, reply>>
  BY DEF Wrote
<1> HIDE DEF rec
<1>7. CASE rec.inFlight = <<>> /\ rec.requested = rec.size
  <2>1. rec.written = rec.size
    BY <1>2, <1>3, <1>4, <1>7, EmptyTyped
  <2>2. rec.got = Prefix(rec.size, rec.session)
    BY <1>2, <1>4, <2>1
  <2> QED BY <1>2, <1>4, <1>5, <1>6, <1>7, <2>2, CommittingKeeps
<1>8. CASE ~(rec.inFlight = <<>> /\ rec.requested = rec.size)
  <2> DEFINE n == IF rec.requested < rec.size THEN 1 ELSE 0
  <2>1. n \in Nat /\ Requests(t, rec, n)
    BY <1>5, <1>8
  <2>2. /\ rec.requested = rec.written + Len(rec.inFlight) /\ rec.got = Prefix(rec.written, rec.session)
        /\ FlightOK(rec.inFlight, rec.session)
    BY <1>2, <1>4
  <2>3. rec.requested + n <= rec.size /\ Len(rec.inFlight) + n > 0
    <3>1. rec.requested \in Nat /\ rec.size \in Nat /\ rec.requested <= rec.size
      BY <1>2, <1>4 DEF Rec
    <3>2. Len(rec.inFlight) \in Nat /\ (rec.inFlight # <<>> => Len(rec.inFlight) > 0)
      BY <1>3, <1>4, EmptySeq, LenProperties
    <3> DEFINE k == Len(rec.inFlight)
               q == rec.requested
               z == rec.size
    <3>3. q \in Nat /\ z \in Nat /\ q <= z /\ k \in Nat /\ (q = z => k > 0)
      BY <1>8, <3>1, <3>2
    <3>4. n = IF q < z THEN 1 ELSE 0
      OBVIOUS
    <3>5. q + n <= z /\ k + n > 0
      <4> HIDE DEF k, q, z, n
      <4> QED BY <3>3, <3>4
    <3> QED BY <3>5
  <2> HIDE DEF n
  <2> QED BY <1>2, <1>3, <1>4, <1>6, <2>1, <2>2, <2>3, RequestsKeep
<1> QED BY <1>7, <1>8

LEMMA RaceAborts ==
    ASSUME IInv, NEW t \in Transfer, tr[t].pc \in Racing, tr' = [tr EXCEPT ![t] = Aborts(tr[t])],
           UNCHANGED <<worker, wire, reply>>
    PROVE  Keeps
<1>1. tr[t] \in Rec /\ TransferOK(tr[t]) /\ MessagesOK
  BY Facts
<1>2. tr[t].settled = "no" /\ tr[t].result # "ok"
  BY <1>1 DEF TransferOK, Racing
<1>3. TransferOK(Aborts(tr[t])) /\ Settles(tr[t], Aborts(tr[t]))
  BY <1>1, <1>2, AbortOK DEF Settles
<1>4. MessagesOK'
  BY <1>1 DEF MessagesOK
<1> QED BY <1>3, <1>4, TransferMoves DEF Keeps

LEMMA KeepsWriteFails == ASSUME IInv, NEW t \in Transfer, WriteFails(t) PROVE Keeps
<1>1. tr \in [Transfer -> Rec]
  BY Facts
<1> QED BY <1>1, RaceAborts DEF WriteFails, Racing

LEMMA KeepsInterrupted == ASSUME IInv, NEW t \in Transfer, Interrupted(t) PROVE Keeps
<1>1. tr \in [Transfer -> Rec]
  BY Facts
<1> QED BY <1>1, RaceAborts DEF Interrupted

\* A close of the lease is sent, or there is none to send.
LEMMA ReleasedSends ==
    ASSUME IInv, NEW t \in Transfer, NEW rec \in Rec, Released(t, rec),
           UNCHANGED <<worker, reply>>
    PROVE  /\ MessagesOK'
           /\ tr' \in {[tr EXCEPT ![t] = rec], [tr EXCEPT ![t] = [rec EXCEPT !.leaseClosed = TRUE]]}
<1>1. tr \in [Transfer -> Rec] /\ tr[t] \in Rec /\ MessagesOK
  BY Facts
<1>2. tr[t].session \in Nat /\ rec.lease \in Nat
  BY <1>1 DEF Rec
<1>3. [kind |-> "close", lease |-> rec.lease, at |-> 0] \in Query
  BY <1>2 DEF Query
<1>4. Sent(t, <<[kind |-> "close", lease |-> rec.lease, at |-> 0]>>) \in Seq(Request)
  BY <1>1, <1>2, <1>3, OneSent
<1> QED BY <1>1, <1>4 DEF Released, MessagesOK

LEMMA OverTyped ==
    ASSUME NEW rec \in Rec, NEW result \in {"none", "ok", "failed"}
    PROVE  /\ Over(rec, result) \in Rec
           /\ Over(rec, result).pc = "done" /\ Over(rec, result).settled = rec.settled
           /\ Over(rec, result).result = result
<1> DEFINE kept == LeftOf(rec)
<1>1. /\ rec.settled \in {"no", "close", "abort"} /\ rec.session \in Nat /\ rec.lease \in Nat
      /\ rec.acquired \in {"no", "queued", "sent", "granted", "refused"}
      /\ rec.leaseClosed \in BOOLEAN
  BY DEF Rec
<1>2. kept \in Rec
  BY <1>1, NoTransferOK DEF LeftOf, Rec
<1>3. Over(rec, result) = [kept EXCEPT !.pc = "done", !.result = result, !.handedOff = TRUE,
                                       !.settled = rec.settled]
  BY DEF Over
<1> HIDE DEF kept
<1> QED BY <1>1, <1>2, <1>3 DEF Rec

LEMMA UnwoundKeeps ==
    ASSUME IInv, NEW t \in Transfer, NEW rec \in Rec, NEW result \in {"ok", "failed"},
           Unwound(t, rec, result), Settles(tr[t], rec),
           rec.settled # "no", result = "ok" => rec.settled = "close"
    PROVE  Keeps
<1> DEFINE over == Over(rec, result)
           closed == [over EXCEPT !.leaseClosed = TRUE]
<1>1. /\ over \in Rec /\ over.pc = "done" /\ over.settled = rec.settled /\ over.result = result
  BY OverTyped
<1> HIDE DEF over
<1>2. closed \in Rec /\ closed.pc = "done" /\ closed.settled = rec.settled /\ closed.result = result
  BY <1>1 DEF Rec
<1> HIDE DEF closed
<1>3. TransferOK(over) /\ TransferOK(closed)
  BY <1>1, <1>2 DEF TransferOK, Racing
<1>4. Released(t, over) /\ UNCHANGED <<worker, reply>>
  BY DEF Unwound, over
<1>5. MessagesOK' /\ tr' \in {[tr EXCEPT ![t] = over], [tr EXCEPT ![t] = closed]}
  BY <1>1, <1>4, ReleasedSends DEF closed
<1>6. Settles(tr[t], over) /\ Settles(tr[t], closed)
  BY <1>1, <1>2 DEF Settles
<1> QED BY <1>3, <1>5, <1>6, TransferMoves DEF Keeps

LEMMA KeepsCloses == ASSUME IInv, NEW t \in Transfer, Closes(t) PROVE Keeps
<1> DEFINE rec == tr[t]
           failing == Finishing([rec EXCEPT !.failed = TRUE], "abort")
<1>1. rec \in Rec /\ rec.settled = "close"
  BY Facts DEF Closes, TransferOK
<1>2. failing \in Rec /\ failing.settled = "close"
  BY <1>1 DEF Finishing, Rec
<1>3. Settles(tr[t], rec) /\ Settles(tr[t], failing)
  BY <1>1, <1>2 DEF Settles
<1>4. Unwound(t, rec, "ok") \/ Unwound(t, failing, "failed")
  BY DEF Closes
<1> HIDE DEF failing
<1> QED BY <1>1, <1>2, <1>3, <1>4, UnwoundKeeps

LEMMA KeepsAbortEnds == ASSUME IInv, NEW t \in Transfer, AbortEnds(t) PROVE Keeps
<1>1. tr[t] \in Rec /\ tr[t].settled = "abort"
  BY Facts DEF AbortEnds, TransferOK
<1> QED BY <1>1, UnwoundKeeps DEF AbortEnds, Settles

-----------------------------------------------------------------------------
(* The caller, the worker and its end.                                      *)

LEMMA KeepsCancel == ASSUME IInv, NEW t \in Transfer, Cancel(t) PROVE Keeps
<1> DEFINE r == FailedBy(tr[t], TRUE)
<1>1. tr \in [Transfer -> Rec] /\ tr[t] \in Rec /\ TransferOK(tr[t]) /\ MessagesOK
  BY Facts
<1>2. Alike(tr[t], r) /\ tr' = [tr EXCEPT ![t] = r]
  BY <1>1, FailedAlike DEF Cancel
<1> HIDE DEF r
<1>3. TransferOK(r) /\ Settles(tr[t], r)
  BY <1>1, <1>2, AlikeOK DEF Alike, Settles
<1>4. MessagesOK'
  BY <1>1 DEF Cancel, MessagesOK
<1> QED BY <1>2, <1>3, <1>4, TransferMoves DEF Keeps

\* Refused, when its request was under way, and failed, when it was not over.
LEMMA RejectedMarked ==
    ASSUME IInv, NEW cancels \in BOOLEAN, tr' = Rejected(cancels)
    PROVE  \A t \in Transfer : Alike(tr[t], tr'[t])
<1> TAKE t \in Transfer
<1> DEFINE rec == IF tr[t].acquired = "sent" THEN Refused(tr[t]) ELSE tr[t]
<1>1. tr[t] \in Rec
  BY Facts
<1>2. Alike(tr[t], rec)
  BY <1>1, RefusedAlike DEF Alike
<1>3. tr'[t] = IF t \in Live THEN FailedBy(rec, cancels) ELSE rec
  BY DEF Rejected
<1> HIDE DEF rec
<1>4. Alike(rec, FailedBy(rec, cancels))
  BY <1>2, FailedAlike DEF Alike
<1> QED BY <1>2, <1>3, <1>4 DEF Alike

LEMMA RejectedAlike ==
    ASSUME IInv, NEW cancels \in BOOLEAN, tr' = Rejected(cancels), MessagesOK'
    PROVE  Keeps
<1>1. \A t \in Transfer : Alike(tr[t], tr'[t])
  BY RejectedMarked
<1>2. tr' \in [Transfer -> Rec]
  BY <1>1 DEF Rejected, Alike
<1> QED BY <1>1, <1>2, TransfersMarked DEF Keeps

LEMMA KeepsRestart == ASSUME IInv, Restart PROVE Keeps
<1>1. MessagesOK'
  BY EmptyTyped, TransferAssumption DEF IInv, Restart, MessagesOK, NewWorker
<1> QED BY <1>1, RejectedAlike DEF Restart

LEMMA KeepsWorkerDies == ASSUME IInv, WorkerDies PROVE Keeps
<1>1. MessagesOK'
  BY EmptyTyped DEF IInv, WorkerDies, MessagesOK
<1> QED BY <1>1, RejectedAlike DEF WorkerDies

LEMMA KeepsServe == ASSUME IInv, Serve PROVE Keeps
<1> DEFINE msg == Head(wire)
<1>1. /\ worker \in [id : Nat, alive : BOOLEAN, last : Nat, leases : SUBSET [id : Nat, of : Transfer]]
      /\ wire \in Seq(Request) /\ reply \in Seq(Reply) /\ wire # <<>>
  BY DEF IInv, MessagesOK, Serve
<1>2. msg \in Request /\ Tail(wire) \in Seq(Request)
  BY <1>1, HeadTailProperties
<1> HIDE DEF msg
<1>3. ASSUME NEW kind \in {"lease", "no lease", "chunk", "no chunk"}, NEW lease \in Nat,
             Answers(msg, kind, lease)
      PROVE  reply' \in Seq(Reply)
  <2> DEFINE answer == [kind |-> kind, to |-> msg.from, session |-> worker.id,
                        lease |-> lease, at |-> msg.at]
  <2>1. answer \in Reply
    BY <1>1, <1>2 DEF Request, Reply
  <2>2. reply' = Append(reply, answer)
    BY <1>3 DEF Answers
  <2> HIDE DEF answer
  <2> QED BY <1>1, <2>1, <2>2, AppendProperties
<1>4. msg.lease \in Nat /\ msg.from \in Transfer
  BY <1>2 DEF Request
<1>5. ServeOpen(msg) \/ ServeChunk(msg) \/ ServeClose(msg) \/ Refuses(msg)
  BY DEF Serve, msg
<1>6. reply' \in Seq(Reply)
  <2>1. CASE ServeOpen(msg)
    <3>1. worker.last + 1 \in Nat
      BY <1>1
    <3> QED BY <1>3, <2>1, <3>1 DEF ServeOpen
  <2>2. CASE ServeChunk(msg)
    BY <1>3, <1>4, <2>2 DEF ServeChunk
  <2>3. CASE ServeClose(msg)
    BY <1>1, <2>3 DEF ServeClose
  <2>4. CASE Refuses(msg)
    BY <1>3, <1>4, <2>4 DEF Refuses
  <2> QED BY <1>5, <2>1, <2>2, <2>3, <2>4
<1>7. worker' \in [id : Nat, alive : BOOLEAN, last : Nat, leases : SUBSET [id : Nat, of : Transfer]]
  <2>1. CASE ServeOpen(msg)
    <3> DEFINE more == worker.leases \cup {[id |-> worker.last + 1, of |-> msg.from]}
    <3>1. more \in SUBSET [id : Nat, of : Transfer] /\ worker.last + 1 \in Nat
      BY <1>1, <1>4
    <3>2. worker' = [worker EXCEPT !.last = worker.last + 1, !.leases = more]
      BY <2>1 DEF ServeOpen
    <3> HIDE DEF more
    <3> QED BY <1>1, <3>1, <3>2
  <2>2. CASE ServeClose(msg)
    <3> DEFINE fewer == {l \in worker.leases : l.id # msg.lease}
    <3>1. fewer \in SUBSET [id : Nat, of : Transfer]
      BY <1>1
    <3>2. worker' = worker \/ worker' = [worker EXCEPT !.leases = fewer]
      BY <2>2 DEF ServeClose
    <3> HIDE DEF fewer
    <3> QED BY <1>1, <3>1, <3>2
  <2>3. CASE ServeChunk(msg) \/ Refuses(msg)
    BY <1>1, <2>3 DEF ServeChunk, Refuses
  <2> QED BY <1>5, <2>1, <2>2, <2>3
<1>8. MessagesOK' /\ tr' = tr
  BY <1>2, <1>6, <1>7 DEF Serve, MessagesOK
<1> QED BY <1>8, TransfersStay DEF Keeps

\* A lease is recorded, and closed at once when the transfer is over.
LEMMA ClaimsKeeps ==
    ASSUME IInv, NEW t \in Transfer, NEW lease \in Nat, Claims(t, lease),
           worker' = worker, reply' \in Seq(Reply)
    PROVE  Keeps
<1> DEFINE claimed == [tr[t] EXCEPT !.acquired = "granted", !.lease = lease]
           closed == [claimed EXCEPT !.leaseClosed = TRUE]
<1>1. tr \in [Transfer -> Rec] /\ tr[t] \in Rec /\ TransferOK(tr[t]) /\ MessagesOK
  BY Facts
<1>2. Alike(tr[t], claimed)
  BY <1>1 DEF Alike, Rec
<1> HIDE DEF claimed
<1>3. Alike(claimed, closed) /\ closed \in Rec
  BY <1>2 DEF Alike, Rec
<1>4. tr' \in {[tr EXCEPT ![t] = claimed], [tr EXCEPT ![t] = closed]} /\ wire' \in Seq(Request)
  <2>1. tr[t].session \in Nat /\ claimed.lease \in Nat
    BY <1>1, <1>2 DEF Alike, Rec
  <2>2. [kind |-> "close", lease |-> claimed.lease, at |-> 0] \in Query
    BY <2>1 DEF Query
  <2>3. Sent(t, <<[kind |-> "close", lease |-> claimed.lease, at |-> 0]>>) \in Seq(Request)
    BY <1>1, <2>1, <2>2, OneSent
  <2>4. wire \in Seq(Request)
    BY <1>1 DEF MessagesOK
  <2>5. IF tr[t].handedOff THEN Released(t, claimed)
        ELSE tr' = [tr EXCEPT ![t] = claimed] /\ UNCHANGED wire
    BY DEF Claims, claimed
  <2> QED BY <2>3, <2>4, <2>5 DEF Released
<1> HIDE DEF closed
<1>5. PICK r \in {claimed, closed} : tr' = [tr EXCEPT ![t] = r]
  BY <1>4
<1>6. TransferOK(r) /\ Settles(tr[t], r)
  <2>1. TransferOK(claimed)
    BY <1>1, <1>2, AlikeOK
  <2>2. TransferOK(closed)
    BY <1>3, <2>1, AlikeOK
  <2> QED BY <1>2, <1>3, <1>5, <2>1, <2>2 DEF Alike, Settles
<1>7. MessagesOK'
  BY <1>1, <1>4 DEF MessagesOK
<1> QED BY <1>5, <1>6, <1>7, TransferMoves DEF Keeps

LEMMA ChunkedKeeps ==
    ASSUME IInv, NEW msg \in Reply, Chunked(msg.to, msg),
           worker' = worker, reply' \in Seq(Reply)
    PROVE  Keeps
<1> DEFINE t == msg.to
           flight == tr[t].inFlight
           is == IF Valid(t, msg) THEN "here" ELSE "bad"
           marked == [i \in DOMAIN flight |->
                         IF flight[i].at # msg.at THEN flight[i]
                         ELSE [flight[i] EXCEPT !.is = is, !.from = msg.session]]
           r == [tr[t] EXCEPT !.inFlight = marked]
<1>1. t \in Transfer /\ msg.session \in Nat
  BY DEF Reply
<1>2. tr \in [Transfer -> Rec] /\ tr[t] \in Rec /\ TransferOK(tr[t]) /\ MessagesOK
  BY <1>1, Facts
<1>3. flight \in Seq(Chunk)
  BY <1>2 DEF Rec
<1>4. is \in {"here", "bad"} /\ (is = "here" => msg.session = tr[t].session)
  BY DEF Valid
<1>5. tr' = [tr EXCEPT ![t] = r] /\ wire' = wire
  BY <1>2 DEF Chunked
<1>6. /\ marked \in Seq(Chunk) /\ Len(marked) = Len(flight)
      /\ FlightOK(flight, tr[t].session) => FlightOK(marked, tr[t].session)
  <2>1. Len(flight) \in Nat /\ DOMAIN flight = 1..Len(flight) /\ flight \in [1..Len(flight) -> Chunk]
    BY <1>3, LenProperties
  <2> HIDE DEF flight, is
  <2>2. marked \in [1..Len(flight) -> Chunk]
    BY <1>1, <1>4, <2>1 DEF Chunk
  <2>3. \A i \in 1..Len(flight) :
           \/ marked[i] = flight[i]
           \/ marked[i].is = is /\ marked[i].from = msg.session
    BY <2>1 DEF Chunk
  <2> HIDE DEF marked
  <2>4. marked \in Seq(Chunk)
    BY <2>1, <2>2, SeqDef
  <2>5. Len(marked) = Len(flight)
    BY <2>1, <2>2, <2>4, LenProperties
  <2>6. FlightOK(flight, tr[t].session) => FlightOK(marked, tr[t].session)
    BY <1>4, <2>3, <2>5 DEF FlightOK
  <2> QED BY <2>4, <2>5, <2>6
<1> HIDE DEF marked
<1>7. /\ r \in Rec /\ r.inFlight = marked
      /\ r.pc = tr[t].pc /\ r.settled = tr[t].settled /\ r.result = tr[t].result
      /\ r.session = tr[t].session /\ r.size = tr[t].size /\ r.requested = tr[t].requested
      /\ r.written = tr[t].written /\ r.got = tr[t].got /\ r.window = tr[t].window
  BY <1>2, <1>6 DEF Rec
<1> HIDE DEF r
<1>8. TransferOK(r) /\ Settles(tr[t], r)
  BY <1>2, <1>6, <1>7 DEF TransferOK, Settles
<1>9. MessagesOK'
  BY <1>2, <1>5 DEF MessagesOK
<1> HIDE DEF t
<1> QED BY <1>1, <1>5, <1>8, <1>9, TransferMoves DEF Keeps

LEMMA KeepsReceive == ASSUME IInv, Receive PROVE Keeps
<1> DEFINE msg == Head(reply)
<1>1. reply \in Seq(Reply) /\ reply # <<>>
  BY DEF IInv, MessagesOK, Receive
<1>2. msg \in Reply /\ Tail(reply) \in Seq(Reply)
  BY <1>1, HeadTailProperties
<1>3. worker' = worker /\ reply' \in Seq(Reply)
  BY <1>2 DEF Receive
<1>4. \/ Claims(msg.to, msg.lease)
      \/ tr' = [tr EXCEPT ![msg.to] = Refused(@)] /\ UNCHANGED wire
      \/ Chunked(msg.to, msg)
  BY DEF Receive
<1> HIDE DEF msg
<1>5. msg.to \in Transfer /\ msg.lease \in Nat
  BY <1>2 DEF Reply
<1>6. CASE tr' = [tr EXCEPT ![msg.to] = Refused(@)] /\ UNCHANGED wire
  <2> DEFINE r == Refused(tr[msg.to])
  <2>1. tr \in [Transfer -> Rec] /\ tr[msg.to] \in Rec /\ TransferOK(tr[msg.to]) /\ MessagesOK
    BY <1>5, Facts
  <2>2. Alike(tr[msg.to], r) /\ tr' = [tr EXCEPT ![msg.to] = r]
    BY <1>6, <2>1, RefusedAlike
  <2> HIDE DEF r
  <2>3. TransferOK(r) /\ Settles(tr[msg.to], r)
    BY <2>1, <2>2, AlikeOK DEF Alike, Settles
  <2>4. MessagesOK'
    BY <1>3, <1>6, <2>1 DEF MessagesOK
  <2> QED BY <1>5, <2>2, <2>3, <2>4, TransferMoves DEF Keeps
<1> QED BY <1>2, <1>3, <1>4, <1>5, <1>6, ClaimsKeeps, ChunkedKeeps

-----------------------------------------------------------------------------
LEMMA TransferInit == Init => IInv
<1> SUFFICES ASSUME Init PROVE IInv
  OBVIOUS
<1>1. MessagesOK
  BY EmptyTyped DEF Init, MessagesOK, NewWorker
<1>2. TransferOK(NoTransfer)
  BY NoTransferOK DEF NoTransfer, TransferOK, Racing
<1> QED BY <1>1, <1>2, NoTransferOK DEF Init, IInv

LEMMA KeepsNext == IInv /\ [Next]_transferVars => Keeps
<1> SUFFICES ASSUME IInv, [Next]_transferVars PROVE Keeps
  OBVIOUS
<1>1. CASE Next
  <2>1. CASE \E t \in Transfer :
               \/ \E size \in 0..MaxSize, window \in Windows, aborted \in BOOLEAN :
                     Start(t, size, window, aborted)
               \/ Turn(t) \/ Opened(t) \/ Pull(t) \/ Wrote(t) \/ WriteFails(t)
               \/ Cleanup(t) \/ Cancel(t)
    BY <2>1, KeepsStart, KeepsTurn, KeepsOpened, KeepsPull, KeepsWrote, KeepsWriteFails,
       KeepsInterrupted, KeepsCloses, KeepsAbortEnds, KeepsCancel DEF Cleanup
  <2> QED BY <1>1, <2>1, KeepsServe, KeepsReceive, KeepsRestart, KeepsWorkerDies DEF Next
<1>2. CASE UNCHANGED transferVars
  <2>1. MessagesOK' /\ tr' = tr
    BY <1>2 DEF IInv, transferVars, MessagesOK
  <2> QED BY <2>1, TransfersStay DEF Keeps
<1> QED BY <1>1, <1>2

LEMMA TransferInvariant == Spec => []IInv
<1>1. IInv /\ [Next]_transferVars => IInv'
  BY KeepsNext DEF Keeps
<1> QED BY TransferInit, <1>1, PTL DEF Spec

(* A destination that is asked to close has every chunk of the file, in      *)
(* order and from one interpreter, whatever failed, was cancelled or came    *)
(* too late (browser-python.ts streamArtifact()).                            *)
THEOREM ClosedStaysWhole == Spec => []ClosedIsWhole
<1>1. IInv => ClosedIsWhole
  <2> SUFFICES ASSUME IInv, NEW t \in Live, tr[t].settled = "close"
               PROVE  tr[t].got = [i \in 1..tr[t].size |-> [at |-> i - 1, session |-> tr[t].session]]
    BY DEF ClosedIsWhole
  <2>1. t \in Transfer /\ tr[t].pc \notin {"idle", "done"}
    BY DEF Live
  <2>2. tr[t] \in Rec /\ TransferOK(tr[t])
    BY <2>1, Facts
  <2>3. tr[t].pc = "close"
    BY <2>1, <2>2 DEF TransferOK, Racing, Rec
  <2> QED BY <2>2, <2>3 DEF TransferOK, Prefix
<1> QED BY TransferInvariant, <1>1, PTL

(* Of close() and abort() a destination gets one, before its transfer is     *)
(* over, and never the other as well (browser-python.ts finish()).           *)
THEOREM SettledOnceOnly == Spec => SettledOnce
<1>1. IInv /\ [Next]_transferVars =>
         [\A t \in Transfer :
             /\ tr[t].settled # "no" => tr'[t].settled = tr[t].settled
             /\ tr'[t].pc = "done" => tr'[t].settled # "no"
             /\ tr'[t].result = "ok" => tr'[t].settled = "close"]_transferVars
  <2> SUFFICES ASSUME IInv, [Next]_transferVars, NEW t \in Transfer
               PROVE  /\ tr[t].settled # "no" => tr'[t].settled = tr[t].settled
                      /\ tr'[t].pc = "done" => tr'[t].settled # "no"
                      /\ tr'[t].result = "ok" => tr'[t].settled = "close"
    OBVIOUS
  <2>1. Keeps
    BY KeepsNext
  <2>2. TransferOK(tr'[t])
    BY <2>1 DEF Keeps, IInv
  <2>3. Settles(tr[t], tr'[t])
    BY <2>1 DEF Keeps
  <2> QED BY <2>2, <2>3 DEF TransferOK, Settles, Racing
<1> QED BY TransferInvariant, <1>1, PTL DEF Spec, SettledOnce

-----------------------------------------------------------------------------
(* The leases.  What is said of a request, a reply and a lease of the       *)
(* worker, and of a transfer: its acquisition has one message under way,    *)
(* and what it closes is its own.                                           *)

Granting == {"lease", "no lease"}

RequestOK(m) ==
    /\ worker.alive /\ m.session = worker.id
    /\ m.kind = "open" => tr[m.from].acquired = "sent" /\ tr[m.from].session = worker.id
    /\ m.kind = "close" =>
          m.lease <= worker.last /\ \A l \in worker.leases : l.id = m.lease => tr[l.of].handedOff

ReplyOK(m) ==
    /\ worker.alive
    /\ m.kind \in Granting => tr[m.to].acquired = "sent" /\ tr[m.to].session = worker.id
    /\ m.kind = "lease" =>
          m.lease \in 1..worker.last /\ \A l \in worker.leases : l.id = m.lease => l.of = m.to

\* Nobody's acquisition has two messages under way.
AskedOnce ==
    /\ \A i, j \in 1..Len(wire) :
          wire[i].kind = "open" /\ wire[j].kind = "open" /\ wire[i].from = wire[j].from => i = j
    /\ \A i, j \in 1..Len(reply) :
          reply[i].kind \in Granting /\ reply[j].kind \in Granting /\ reply[i].to = reply[j].to
              => i = j
    /\ \A i \in 1..Len(wire), j \in 1..Len(reply) :
          wire[i].kind = "open" /\ reply[j].kind \in Granting => wire[i].from # reply[j].to

Keeping(r, id) == r.pc # "done" /\ r.lease = id /\ ~r.leaseClosed
Arriving(id) == \E i \in 1..Len(reply) : reply[i].kind = "lease" /\ reply[i].lease = id
Closing(id) == \E i \in 1..Len(wire) : wire[i].kind = "close" /\ wire[i].lease = id

LeaseOK(l) ==
    /\ worker.alive /\ l.id \in 1..worker.last
    /\ tr[l.of].session = worker.id
    /\ Keeping(tr[l.of], l.id) \/ Arriving(l.id) \/ Closing(l.id)

\* What a record says of the acquisition.
AcquiredOK(r) ==
    /\ r.handedOff <=> r.pc = "done"
    /\ r.lease # 0 => r.acquired = "granted"
    /\ r.leaseClosed => r.lease # 0
    /\ r.pc = "idle" => r.acquired = "no"

OwnOK(t) ==
    /\ AcquiredOK(tr[t]) /\ tr[t].session <= worker.id
    /\ tr[t].session = worker.id =>
          tr[t].lease <= worker.last /\ \A l \in worker.leases : l.id = tr[t].lease => l.of = t

LeaseInv ==
    /\ \A i \in 1..Len(wire) : RequestOK(wire[i])
    /\ \A i \in 1..Len(reply) : ReplyOK(reply[i])
    /\ AskedOnce
    /\ \A l \in worker.leases : LeaseOK(l)
    /\ \A t \in Transfer : OwnOK(t)

-----------------------------------------------------------------------------
(* A step of one transfer, which takes n replies and sends requests of one  *)
(* kind.                                                                    *)

Grown(t, kind, lease) ==
    /\ Len(wire) \in Nat /\ Len(wire') \in Nat /\ Len(wire) <= Len(wire')
    /\ \A i \in 1..Len(wire) : wire'[i] = wire[i]
    /\ \A i \in 1..Len(wire') : i > Len(wire) =>
          /\ Current(t) /\ wire'[i].from = t /\ wire'[i].session = worker.id
          /\ wire'[i].kind = kind /\ wire'[i].lease = lease
    /\ kind = "open" => Len(wire') <= Len(wire) + 1

Taken(n) ==
    /\ Len(reply) \in Nat /\ Len(reply') \in Nat /\ Len(reply) = Len(reply') + n
    /\ \A i \in 1..Len(reply') : reply'[i] = reply[i + n]

\* What its record may become.
Follows(t, r, n, kind, lease) ==
    /\ AcquiredOK(r)
    /\ r.session = tr[t].session \/ (tr[t].pc = "idle" /\ r.session = worker.id)
    /\ tr[t].handedOff => r.handedOff
    /\ tr[t].acquired = "sent" => r.acquired = "sent" \/ (n = 1 /\ reply[1].kind \in Granting)
    /\ r.lease = tr[t].lease \/ (n = 1 /\ reply[1].kind = "lease" /\ r.lease = reply[1].lease)
    /\ kind = "open" => n = 0 /\ tr[t].acquired = "queued" /\ r.acquired = "sent"
    /\ kind = "close" => lease = r.lease /\ r.handedOff
    /\ \A id \in Nat \ {0} : Keeping(tr[t], id) /\ Current(t) => Keeping(r, id) \/ Closing(id)'
    /\ n = 1 /\ reply[1].kind = "lease" =>
          \A id \in Nat : id = reply[1].lease => Keeping(r, id) \/ Closing(id)'

LEMMA Typed ==
    ASSUME IInv
    PROVE  /\ worker.id \in Nat /\ worker.last \in Nat
           /\ \A l \in worker.leases : l.id \in Nat /\ l.of \in Transfer
           /\ \A i \in 1..Len(wire) : wire[i] \in Request
           /\ \A i \in 1..Len(reply) : reply[i] \in Reply
           /\ wire \in Seq(Request) /\ reply \in Seq(Reply)
           /\ Len(wire) \in Nat /\ Len(reply) \in Nat
           /\ \A t \in Transfer : tr[t] \in Rec /\ tr[t].lease \in Nat /\ tr[t].session \in Nat
<1>1. MessagesOK /\ tr \in [Transfer -> Rec] BY DEF IInv
<1>2. wire \in Seq(Request) /\ reply \in Seq(Reply) BY <1>1 DEF MessagesOK
<1>3. /\ \A i \in 1..Len(wire) : wire[i] \in Request
      /\ \A i \in 1..Len(reply) : reply[i] \in Reply
      /\ Len(wire) \in Nat /\ Len(reply) \in Nat
  BY <1>2, ElementOfSeq, LenProperties
<1>4. /\ worker.id \in Nat /\ worker.last \in Nat
      /\ \A l \in worker.leases : l.id \in Nat /\ l.of \in Transfer
  BY <1>1 DEF MessagesOK
<1> QED BY <1>1, <1>2, <1>3, <1>4 DEF Rec

LEMMA OneTransfer ==
    ASSUME IInv, LeaseInv, NEW t \in Transfer, NEW r \in Rec, NEW n \in {0, 1}, NEW kind, NEW lease,
           tr' = [tr EXCEPT ![t] = r], worker' = worker, n = 1 => reply[1].to = t,
           Grown(t, kind, lease), Taken(n), Follows(t, r, n, kind, lease)
    PROVE  LeaseInv'
<1> USE Typed
<1>1. tr'[t] = r /\ \A u \in Transfer : u # t => tr'[u] = tr[u]
  BY DEF IInv
<1>2. /\ \A i \in 1..Len(wire) : RequestOK(wire[i])
      /\ \A i \in 1..Len(reply) : ReplyOK(reply[i])
      /\ \A l \in worker.leases : LeaseOK(l)
      /\ \A u \in Transfer : OwnOK(u)
  BY DEF LeaseInv
<1>3. \A i, j \in 1..Len(wire) :
          wire[i].kind = "open" /\ wire[j].kind = "open" /\ wire[i].from = wire[j].from => i = j
  BY DEF LeaseInv, AskedOnce
<1>4. \A i, j \in 1..Len(reply) :
          reply[i].kind \in Granting /\ reply[j].kind \in Granting /\ reply[i].to = reply[j].to
              => i = j
  BY DEF LeaseInv, AskedOnce
<1>5. \A i \in 1..Len(wire), j \in 1..Len(reply) :
          wire[i].kind = "open" /\ reply[j].kind \in Granting => wire[i].from # reply[j].to
  BY DEF LeaseInv, AskedOnce
<1>6. n = 1 => 1 \in 1..Len(reply) BY DEF Taken
<1>7. AcquiredOK(tr[t]) /\ tr[t].session <= worker.id BY <1>2 DEF OwnOK
<1>8. ASSUME NEW u \in Transfer PROVE OwnOK(u)'
  <2>1. CASE u # t BY <1>1, <1>2, <2>1 DEF OwnOK
  <2>2. CASE u = t
    <3>1. AcquiredOK(r) /\ r.session <= worker.id BY <1>7 DEF Follows
    <3>2. ASSUME r.session = worker.id, r.lease = tr[t].lease
          PROVE  r.lease <= worker.last /\ \A l \in worker.leases : l.id = r.lease => l.of = t
      <4>1. CASE tr[t].pc = "idle"
        <5>1. r.lease = 0 BY <1>7, <3>2, <4>1 DEF AcquiredOK
        <5> QED BY <1>2, <5>1 DEF LeaseOK
      <4>2. CASE tr[t].session = worker.id BY <1>2, <3>2, <4>2 DEF OwnOK
      <4> QED BY <3>2, <4>1, <4>2 DEF Follows
    <3>3. ASSUME n = 1, reply[1].kind = "lease", r.lease = reply[1].lease
          PROVE  r.lease <= worker.last /\ \A l \in worker.leases : l.id = r.lease => l.of = t
      BY <1>2, <1>6, <3>3 DEF ReplyOK
    <3> QED BY <1>1, <2>2, <3>1, <3>2, <3>3 DEF OwnOK, Follows
  <2> QED BY <2>1, <2>2
<1>9. \A u \in Transfer : tr[u].handedOff => tr'[u].handedOff BY <1>1 DEF Follows
<1>10. \A u \in Transfer : tr[u].session = worker.id => tr'[u].session = worker.id
  BY <1>1 DEF Follows
<1>11. ASSUME NEW i \in 1..Len(wire') PROVE RequestOK(wire[i])'
  <2>1. CASE i \in 1..Len(wire)
    <3>1. wire'[i] = wire[i] /\ RequestOK(wire[i]) BY <1>2, <2>1 DEF Grown
    <3>2. wire[i].kind = "open" => tr'[wire[i].from].acquired = "sent"
      <4> SUFFICES ASSUME wire[i].kind = "open", wire[i].from = t PROVE r.acquired = "sent"
        BY <1>1, <2>1, <3>1 DEF RequestOK, Request
      <4>1. tr[t].acquired = "sent" BY <3>1 DEF RequestOK
      <4>2. ~(n = 1 /\ reply[1].kind \in Granting) BY <1>5, <1>6, <2>1
      <4> QED BY <4>1, <4>2 DEF Follows
    <3>3. wire[i].from \in Transfer BY <2>1 DEF Request
    <3> QED BY <1>9, <1>10, <3>1, <3>2, <3>3 DEF RequestOK
  <2>2. CASE i > Len(wire)
    <3>1. /\ Current(t) /\ wire'[i].from = t /\ wire'[i].session = worker.id
          /\ wire'[i].kind = kind /\ wire'[i].lease = lease
      BY <2>2 DEF Grown
    <3>2. r.session = worker.id BY <1>1, <1>10, <3>1 DEF Current
    <3>3. kind = "close" => lease <= worker.last /\ \A l \in worker.leases : l.id = lease => l.of = t
      BY <1>1, <1>8, <3>2 DEF OwnOK, Follows
    <3> QED BY <1>1, <3>1, <3>2, <3>3 DEF RequestOK, Follows, Current
  <2> QED BY <2>1, <2>2 DEF Grown
<1>12. \A i \in 1..Len(reply') : i + n \in 1..Len(reply) /\ reply'[i] = reply[i + n]
  BY DEF Taken
<1>13. ASSUME NEW i \in 1..Len(reply') PROVE ReplyOK(reply[i])'
  <2>1. reply'[i] = reply[i + n] /\ i + n \in 1..Len(reply) /\ ReplyOK(reply[i + n])
    BY <1>2, <1>12
  <2>2. reply[i + n].kind \in Granting => tr'[reply[i + n].to].acquired = "sent"
    <3> SUFFICES ASSUME reply[i + n].kind \in Granting, reply[i + n].to = t PROVE r.acquired = "sent"
      BY <1>1, <2>1 DEF ReplyOK, Reply
    <3>1. tr[t].acquired = "sent" BY <2>1 DEF ReplyOK
    <3>2. ~(n = 1 /\ reply[1].kind \in Granting) BY <1>4, <1>6, <2>1
    <3> QED BY <3>1, <3>2 DEF Follows
  <2>3. reply[i + n].to \in Transfer BY <2>1 DEF Reply
  <2> QED BY <1>10, <2>1, <2>2, <2>3 DEF ReplyOK
<1>14. AskedOnce'
  <2>1. ASSUME NEW i \in 1..Len(wire'), wire'[i].kind = "open", i \notin 1..Len(wire)
        PROVE  i = Len(wire) + 1 /\ wire'[i].from = t /\ tr[t].acquired = "queued" /\ n = 0
    BY <2>1 DEF Grown, Follows
  <2>2. \A i \in 1..Len(wire) : wire'[i] = wire[i]
           /\ (wire[i].kind = "open" => tr[wire[i].from].acquired = "sent")
    BY <1>2 DEF Grown, RequestOK
  <2>3. \A i \in 1..Len(reply) : reply[i].kind \in Granting => tr[reply[i].to].acquired = "sent"
    BY <1>2 DEF ReplyOK
  <2>4. \A i, j \in 1..Len(wire') :
           wire'[i].kind = "open" /\ wire'[j].kind = "open" /\ wire'[i].from = wire'[j].from => i = j
    BY <1>3, <2>1, <2>2
  <2>5. \A i, j \in 1..Len(reply') :
           reply'[i].kind \in Granting /\ reply'[j].kind \in Granting /\ reply'[i].to = reply'[j].to
               => i = j
    <3> TAKE i, j \in 1..Len(reply')
    <3> HAVE reply'[i].kind \in Granting /\ reply'[j].kind \in Granting /\ reply'[i].to = reply'[j].to
    <3>1. i + n = j + n BY <1>4, <1>12
    <3> QED BY <3>1 DEF Taken
  <2>6. \A i \in 1..Len(wire'), j \in 1..Len(reply') :
           wire'[i].kind = "open" /\ reply'[j].kind \in Granting => wire'[i].from # reply'[j].to
    <3> TAKE i \in 1..Len(wire'), j \in 1..Len(reply')
    <3> HAVE wire'[i].kind = "open" /\ reply'[j].kind \in Granting
    <3>1. CASE i \in 1..Len(wire) BY <1>5, <1>12, <2>2, <3>1
    <3>2. CASE i \notin 1..Len(wire) BY <1>12, <2>1, <2>3, <3>2
    <3> QED BY <3>1, <3>2
  <2> QED BY <2>4, <2>5, <2>6 DEF AskedOnce
<1>15. ASSUME NEW l \in worker.leases PROVE LeaseOK(l)'
  <2>1. LeaseOK(l) /\ l.of \in Transfer /\ l.id \in Nat \ {0} BY <1>2 DEF LeaseOK
  <2>2. CASE Keeping(tr[l.of], l.id)
    <3>1. CASE l.of # t BY <1>1, <2>1, <2>2, <3>1 DEF LeaseOK
    <3>2. CASE l.of = t
      <4>1. Current(t) BY <2>1, <3>2 DEF LeaseOK, Current
      <4>2. Keeping(r, l.id) \/ Closing(l.id)' BY <2>1, <2>2, <3>2, <4>1 DEF Follows
      <4> QED BY <1>1, <1>10, <2>1, <3>2, <4>2 DEF LeaseOK
    <3> QED BY <3>1, <3>2
  <2>3. CASE Arriving(l.id)
    <3>1. PICK i \in 1..Len(reply) : reply[i].kind = "lease" /\ reply[i].lease = l.id
      BY <2>3 DEF Arriving
    <3>2. CASE n = 1 /\ i = 1
      <4>1. l.of = t BY <1>2, <1>6, <3>1, <3>2 DEF ReplyOK
      <4>2. Keeping(r, l.id) \/ Closing(l.id)' BY <3>1, <3>2 DEF Follows
      <4> QED BY <1>1, <1>10, <2>1, <4>1, <4>2 DEF LeaseOK
    <3>3. CASE ~(n = 1 /\ i = 1)
      <4>1. i - n \in 1..Len(reply') /\ reply'[i - n] = reply[i]
        <5>1. i - n \in 1..Len(reply') BY <3>3 DEF Taken
        <5>2. reply'[i - n] = reply[(i - n) + n] BY <5>1 DEF Taken
        <5>3. (i - n) + n = i OBVIOUS
        <5> QED BY <5>1, <5>2, <5>3
      <4>2. Arriving(l.id)' BY <3>1, <4>1 DEF Arriving
      <4> QED BY <1>10, <2>1, <4>2 DEF LeaseOK
    <3> QED BY <3>2, <3>3
  <2>4. CASE Closing(l.id)
    <3>1. PICK i \in 1..Len(wire) : wire[i].kind = "close" /\ wire[i].lease = l.id
      BY <2>4 DEF Closing
    <3>2. i \in 1..Len(wire') /\ wire'[i] = wire[i] BY DEF Grown
    <3>3. Closing(l.id)' BY <3>1, <3>2 DEF Closing
    <3> QED BY <1>10, <2>1, <3>3 DEF LeaseOK
  <2> QED BY <2>1, <2>2, <2>3, <2>4 DEF LeaseOK
<1> QED BY <1>8, <1>11, <1>13, <1>14, <1>15 DEF LeaseInv

LEMMA NothingSent == ASSUME IInv, NEW t, wire' = wire PROVE Grown(t, "chunk", 0)
BY Typed DEF Grown

LEMMA NothingTaken == ASSUME IInv, reply' = reply PROVE Taken(0)
BY Typed DEF Taken

LEMMA HeadTaken == ASSUME IInv, reply # <<>>, reply' = Tail(reply) PROVE Taken(1) /\ reply[1] = Head(reply)
BY Typed, HeadTailProperties, LenProperties DEF Taken

LEMMA SentGrows ==
    ASSUME IInv, NEW t \in Transfer, NEW n \in Nat, NEW msgs \in [1..n -> Query],
           NEW kind, NEW lease, \A i \in 1..n : msgs[i].kind = kind /\ msgs[i].lease = lease,
           kind = "open" => n = 1, wire' = Sent(t, msgs)
    PROVE  Grown(t, kind, lease) /\ (Current(t) => Len(wire') = Len(wire) + n)
<1> DEFINE m == Addressed(msgs, t, tr[t].session)
<1>1. m \in [1..n -> Request] BY Typed DEF Addressed, Query, Request
<1>2. m \in Seq(Request) /\ Len(m) = n BY <1>1, SeqDef
<1>3. \A i \in 1..n : /\ m[i].kind = kind /\ m[i].lease = lease
                      /\ m[i].from = t /\ m[i].session = tr[t].session
  BY DEF Addressed
<1> HIDE DEF m
<1>4. wire \in Seq(Request) /\ Len(wire) \in Nat BY Typed
<1>5. CASE ~Current(t)
  <2>1. wire' = wire BY <1>5 DEF Sent
  <2> QED BY <1>4, <1>5, <2>1 DEF Grown
<1>6. CASE Current(t)
  <2>1. wire' = wire \o m BY <1>6 DEF Sent, m
  <2>2. /\ Len(wire') = Len(wire) + n
        /\ \A i \in 1..(Len(wire) + n) : wire'[i] = IF i <= Len(wire) THEN wire[i] ELSE m[i - Len(wire)]
    <3>1. /\ Len(wire \o m) = Len(wire) + Len(m)
          /\ \A i \in 1..(Len(wire) + Len(m)) :
                (wire \o m)[i] = IF i <= Len(wire) THEN wire[i] ELSE m[i - Len(wire)]
      BY <1>2, <1>4, ConcatProperties
    <3> QED BY <1>2, <2>1, <3>1
  <2>3. ASSUME NEW i \in 1..Len(wire'), i > Len(wire)
        PROVE  /\ wire'[i].from = t /\ wire'[i].session = worker.id
               /\ wire'[i].kind = kind /\ wire'[i].lease = lease
    <3>1. i - Len(wire) \in 1..n /\ wire'[i] = m[i - Len(wire)] BY <1>4, <2>2, <2>3
    <3> QED BY <1>3, <1>6, <3>1 DEF Current
  <2>4. Grown(t, kind, lease) BY <1>4, <1>6, <2>2, <2>3 DEF Grown
  <2> QED BY <2>2, <2>4
<1> QED BY <1>5, <1>6

LEMMA CloseSent ==
    ASSUME IInv, NEW t \in Transfer, NEW lease \in Nat,
           wire' = Sent(t, <<[kind |-> "close", lease |-> lease, at |-> 0]>>)
    PROVE  Grown(t, "close", lease) /\ (Current(t) => Closing(lease)')
<1> DEFINE msgs == <<[kind |-> "close", lease |-> lease, at |-> 0]>>
<1>1. msgs \in [1..1 -> Query] /\ msgs[1].kind = "close" /\ msgs[1].lease = lease BY DEF Query
<1> HIDE DEF msgs
<1>2. wire' = Sent(t, msgs) BY DEF msgs
<1>3. PICK n \in Nat : n = 1 OBVIOUS
<1>4. msgs \in [1..n -> Query] /\ \A i \in 1..n : msgs[i].kind = "close" /\ msgs[i].lease = lease
  BY <1>1, <1>3
<1>5. Grown(t, "close", lease) /\ (Current(t) => Len(wire') = Len(wire) + n)
  BY <1>2, <1>4, SentGrows
<1>6. ASSUME Current(t) PROVE Closing(lease)'
  <2>1. Len(wire) + 1 \in 1..Len(wire') /\ Len(wire) + 1 > Len(wire) BY <1>3, <1>5, <1>6, Typed
  <2>2. wire'[Len(wire) + 1].kind = "close" /\ wire'[Len(wire) + 1].lease = lease
    BY <1>5, <2>1 DEF Grown
  <2> QED BY <2>1, <2>2 DEF Closing
<1> QED BY <1>5, <1>6

\* A record that says the same of the acquisition.
Bland(q, r) ==
    /\ r.session = q.session /\ r.acquired = q.acquired /\ r.lease = q.lease
    /\ r.leaseClosed = q.leaseClosed /\ r.handedOff = q.handedOff
    /\ r.pc = q.pc \/ {q.pc, r.pc} \cap {"idle", "done"} = {}

Becomes(t, r) == tr' = [tr EXCEPT ![t] = r]

LEMMA BlandStep ==
    ASSUME IInv, LeaseInv, Keeps, NEW t \in Transfer, NEW r, Bland(tr[t], r),
           Becomes(t, r), UNCHANGED <<worker, reply>>, NEW lease, Grown(t, "chunk", lease)
    PROVE  LeaseInv'
<1>1. tr' = [tr EXCEPT ![t] = r] /\ r \in Rec BY DEF Becomes, Keeps, IInv
<1>2. AcquiredOK(tr[t]) BY DEF LeaseInv, OwnOK
<1>3. Follows(t, r, 0, "chunk", lease)
  <2>1. AcquiredOK(r) BY <1>2 DEF AcquiredOK, Bland
  <2>2. ASSUME NEW id \in Nat, Keeping(tr[t], id) PROVE Keeping(r, id) BY <2>2 DEF Keeping, Bland
  <2> QED BY <2>1, <2>2 DEF Follows, Bland
<1>4. Taken(0) BY NothingTaken
<1>5. \A n \in {0} : n = 1 => reply[1].to = t OBVIOUS
<1> QED BY <1>1, <1>3, <1>4, <1>5, OneTransfer

LEMMA BlandKeeps ==
    ASSUME IInv, LeaseInv, Keeps, NEW t \in Transfer, NEW r, Bland(tr[t], r),
           tr' = [tr EXCEPT ![t] = r], UNCHANGED <<worker, wire, reply>>
    PROVE  LeaseInv'
<1>1. Grown(t, "chunk", 0) /\ Becomes(t, r) BY NothingSent DEF Becomes
<1> QED BY <1>1, BlandStep

LEMMA AbortsBland ==
    ASSUME NEW q \in Rec, q.pc \notin {"idle", "done"}
    PROVE  Bland(q, Aborts(q)) /\ Bland(q, Commits(q)) /\ Bland(q, Aborts([q EXCEPT !.committing = TRUE]))
<1> DEFINE late == [q EXCEPT !.committing = TRUE]
<1>1. late \in Rec /\ Bland(q, late) /\ late.pc = q.pc BY DEF Rec, Bland
<1>2. ASSUME NEW p \in Rec, p.pc \notin {"idle", "done"} PROVE Bland(p, Aborts(p)) /\ Bland(p, Commits(p))
  BY <1>2 DEF Aborts, Commits, Finishing, Rec, Bland
<1> HIDE DEF late
<1>3. Bland(q, Aborts(late)) BY <1>1, <1>2 DEF Bland
<1> QED BY <1>2, <1>3 DEF late

LEMMA RequestsLease ==
    ASSUME IInv, LeaseInv, Keeps, NEW t \in Transfer, NEW rec \in Rec, NEW n \in Nat,
           Bland(tr[t], rec), rec.pc \notin {"idle", "done"}, Requests(t, rec, n),
           UNCHANGED <<worker, reply>>
    PROVE  LeaseInv'
<1>1. PICK r : tr' = [tr EXCEPT ![t] = r] /\ Bland(rec, r)
  <2> DEFINE flight == rec.inFlight \o [i \in 1..n |-> [at |-> rec.requested + i - 1,
                                                          is |-> "asked", from |-> 0]]
             more == rec.requested + n
             r == [rec EXCEPT !.pc = "pulling", !.requested = more, !.inFlight = flight]
  <2>1. tr' = [tr EXCEPT ![t] = r] BY DEF Requests
  <2> HIDE DEF flight, more
  <2>2. Bland(rec, r) BY DEF Bland, Rec
  <2> QED BY <2>1, <2>2
<1>2. Bland(tr[t], r) BY <1>1 DEF Bland
<1>3. Grown(t, "chunk", rec.lease)
  <2>1. rec.lease \in Nat /\ rec.requested \in Nat BY DEF Rec
  <2>2. ChunkRequests(rec, n) \in [1..n -> Query] BY <2>1 DEF ChunkRequests, Query
  <2>3. \A i \in 1..n : ChunkRequests(rec, n)[i].kind = "chunk"
                        /\ ChunkRequests(rec, n)[i].lease = rec.lease
    BY DEF ChunkRequests
  <2>4. wire' = Sent(t, ChunkRequests(rec, n)) BY DEF Requests
  <2> QED BY <2>2, <2>3, <2>4, SentGrows
<1>4. Becomes(t, r) BY <1>1 DEF Becomes
<1> QED BY <1>1, <1>2, <1>3, <1>4, BlandStep

LEMMA CommittingLease ==
    ASSUME IInv, LeaseInv, Keeps, NEW t \in Transfer, NEW rec \in Rec,
           Bland(tr[t], rec), rec.pc \notin {"idle", "done"}, Committing(t, rec),
           UNCHANGED <<worker, reply>>
    PROVE  LeaseInv'
<1>1. PICK r : tr' = [tr EXCEPT ![t] = r] /\ Bland(rec, r)
  BY AbortsBland DEF Committing
<1>2. Bland(tr[t], r) BY <1>1 DEF Bland
<1>3. wire' = wire BY DEF Committing
<1> QED BY <1>1, <1>2, <1>3, BlandKeeps

LEMMA LeaseOpened == ASSUME IInv, LeaseInv, Keeps, NEW t \in Transfer, Opened(t) PROVE LeaseInv'
<1>1. tr[t] \in Rec /\ tr[t].pc = "opening" /\ Bland(tr[t], tr[t]) /\ UNCHANGED <<worker, reply>>
  BY Typed DEF Opened, Bland
<1>2. CASE Committing(t, tr[t]) BY <1>1, <1>2, CommittingLease
<1>3. CASE \E n \in Nat : Requests(t, tr[t], n) BY <1>1, <1>3, RequestsLease
<1>4. Committing(t, tr[t]) \/ Requests(t, tr[t], Min({tr[t].size, tr[t].window})) BY DEF Opened
<1>5. Min({tr[t].size, tr[t].window}) \in Nat
  <2> DEFINE a == tr[t].size
             b == tr[t].window
  <2>1. a \in Nat /\ b \in Nat BY <1>1 DEF Rec
  <2> HIDE DEF a, b
  <2>2. \E x \in {a, b} : \A y \in {a, b} : x =< y BY <2>1
  <2>3. Min({a, b}) \in {a, b} BY <2>2 DEF Min
  <2>4. Min({a, b}) \in Nat BY <2>1, <2>3
  <2> QED BY <2>4 DEF a, b
<1> QED BY <1>2, <1>3, <1>4, <1>5

LEMMA LeaseWrote == ASSUME IInv, LeaseInv, Keeps, NEW t \in Transfer, Wrote(t) PROVE LeaseInv'
<1> DEFINE rec == [tr[t] EXCEPT !.written = @ + 1]
<1>1. tr[t] \in Rec /\ tr[t].pc = "writing" /\ UNCHANGED <<worker, reply>> BY Typed DEF Wrote
<1>2. rec \in Rec /\ rec.pc = "writing" /\ Bland(tr[t], rec)
  <2>1. tr[t].written + 1 \in Nat BY <1>1 DEF Rec
  <2> QED BY <1>1, <2>1 DEF Rec, Bland
<1>3. Committing(t, rec) \/ \E n \in {0, 1} : Requests(t, rec, n)
  BY DEF Wrote
<1> HIDE DEF rec
<1> QED BY <1>1, <1>2, <1>3, CommittingLease, RequestsLease

LEMMA LeasePull == ASSUME IInv, LeaseInv, Keeps, NEW t \in Transfer, Pull(t) PROVE LeaseInv'
<1>1. tr[t] \in Rec /\ tr[t].pc = "pulling" BY Typed DEF Pull
<1>2. PICK r : tr' = [tr EXCEPT ![t] = r] /\ Bland(tr[t], r)
  <2> DEFINE next == Head(tr[t].inFlight)
             wrote == [tr[t] EXCEPT !.pc = "writing", !.inFlight = Tail(@),
                                    !.got = Append(@, [at |-> next.at, session |-> next.from])]
  <2>1. Bland(tr[t], wrote) BY <1>1 DEF Bland, Rec
  <2>2. tr' = [tr EXCEPT ![t] = IF next.is = "here" /\ next.at = tr[t].written
                                  THEN wrote ELSE Aborts(tr[t])]
    BY DEF Pull
  <2> HIDE DEF wrote, next
  <2> QED BY <1>1, <2>1, <2>2, AbortsBland
<1> QED BY <1>2, BlandKeeps DEF Pull

LEMMA LeaseAborts ==
    ASSUME IInv, LeaseInv, Keeps, NEW t \in Transfer, tr[t].pc \in Racing,
           tr' = [tr EXCEPT ![t] = Aborts(@)], UNCHANGED <<worker, wire, reply>>
    PROVE  LeaseInv'
<1>1. tr' = [tr EXCEPT ![t] = Aborts(tr[t])] BY DEF IInv
<1>2. Bland(tr[t], Aborts(tr[t])) BY Typed, AbortsBland DEF Racing
<1> QED BY <1>1, <1>2, BlandKeeps

LEMMA LeaseCancel == ASSUME IInv, LeaseInv, Keeps, NEW t \in Transfer, Cancel(t) PROVE LeaseInv'
<1> DEFINE r == FailedBy(tr[t], TRUE)
<1>1. tr' = [tr EXCEPT ![t] = r] BY DEF IInv, Cancel
<1>2. Bland(tr[t], r) BY Typed DEF FailedBy, Rec, Bland
<1> HIDE DEF r
<1> QED BY <1>1, <1>2, BlandKeeps DEF Cancel

LEMMA LeaseStart ==
    ASSUME IInv, LeaseInv, Keeps, NEW t \in Transfer, NEW size \in 0..MaxSize, NEW window \in Windows,
           NEW aborted \in BOOLEAN, Start(t, size, window, aborted)
    PROVE  LeaseInv'
<1> DEFINE begun(reserves) == [NoTransfer EXCEPT !.session = worker.id, !.size = size,
                                                 !.pc = "opening", !.window = reserves]
<1>1. PICK r : /\ tr' = [tr EXCEPT ![t] = r]
               /\ \E reserves : r \in {[begun(reserves) EXCEPT !.acquired = "queued"],
                                       Aborts(begun(reserves))}
  BY DEF Start
<1>2. /\ r.session = worker.id /\ r.acquired # "sent" /\ r.lease = 0 /\ ~r.leaseClosed
      /\ ~r.handedOff /\ r.pc \in {"opening", "abort"}
  <2>1. PICK reserves : r \in {[begun(reserves) EXCEPT !.acquired = "queued"], Aborts(begun(reserves))}
    BY <1>1
  <2> DEFINE b == begun(reserves)
  <2>2. /\ b.session = worker.id /\ b.acquired = "no" /\ b.lease = 0 /\ ~b.leaseClosed
        /\ ~b.handedOff /\ b.pc = "opening"
    BY DEF NoTransfer
  <2>3. r = [b EXCEPT !.acquired = "queued"] =>
           /\ r.session = worker.id /\ r.acquired = "queued" /\ r.lease = 0 /\ ~r.leaseClosed
           /\ ~r.handedOff /\ r.pc = "opening"
    BY DEF NoTransfer
  <2>4. r = Aborts(b) =>
           /\ r.session = worker.id /\ r.acquired = "no" /\ r.lease = 0 /\ ~r.leaseClosed
           /\ ~r.handedOff /\ r.pc = "abort"
    BY DEF NoTransfer, Aborts, Finishing
  <2> HIDE DEF b, begun
  <2> QED BY <2>1, <2>3, <2>4 DEF b
<1>3. r \in Rec BY <1>1 DEF Keeps, IInv
<1>4. tr[t].pc = "idle" /\ UNCHANGED <<worker, wire, reply>> BY DEF Start
<1>5. tr[t].acquired = "no" /\ tr[t].lease = 0 /\ ~tr[t].handedOff
  <2>1. AcquiredOK(tr[t]) BY DEF LeaseInv, OwnOK
  <2> QED BY <1>4, <2>1 DEF AcquiredOK
<1>6. Follows(t, r, 0, "chunk", 0)
  <2>1. AcquiredOK(r) BY <1>2 DEF AcquiredOK
  <2>2. \A id \in Nat \ {0} : ~Keeping(tr[t], id) BY <1>5 DEF Keeping
  <2> QED BY <1>2, <1>4, <1>5, <2>1, <2>2 DEF Follows
<1>7. Taken(0) /\ Grown(t, "chunk", 0) BY <1>4, NothingTaken, NothingSent
<1>8. \A n \in {0} : n = 1 => reply[1].to = t OBVIOUS
<1> QED BY <1>1, <1>3, <1>4, <1>6, <1>7, <1>8, OneTransfer

LEMMA RefusedIs ==
    ASSUME NEW q \in Rec
    PROVE  LET r == Refused(q)
           IN r.session = q.session /\ r.acquired = "refused" /\ r.lease = q.lease
              /\ r.leaseClosed = q.leaseClosed /\ r.handedOff = q.handedOff /\ r.pc = q.pc
BY DEF Refused, Rec

LEMMA LeaseTurn == ASSUME IInv, LeaseInv, Keeps, NEW t \in Transfer, Turn(t) PROVE LeaseInv'
<1>1. /\ tr[t] \in Rec /\ tr[t].acquired = "queued" /\ UNCHANGED <<worker, reply>>
      /\ AcquiredOK(tr[t]) /\ Taken(0)
  BY Typed, NothingTaken DEF Turn, LeaseInv, OwnOK
<1>2. tr[t].lease = 0 /\ \A id \in Nat \ {0} : ~Keeping(tr[t], id)
  BY <1>1 DEF AcquiredOK, Keeping
<1>3. \A n \in {0} : n = 1 => reply[1].to = t OBVIOUS
<1>4. CASE Current(t)
  <2> DEFINE r == [tr[t] EXCEPT !.acquired = "sent"]
  <2>1. tr' = [tr EXCEPT ![t] = r] BY <1>4 DEF Turn, IInv
  <2>2. /\ r \in Rec /\ r.session = tr[t].session /\ r.acquired = "sent" /\ r.lease = tr[t].lease
        /\ r.leaseClosed = tr[t].leaseClosed /\ r.handedOff = tr[t].handedOff /\ r.pc = tr[t].pc
    BY <1>1 DEF Rec
  <2> HIDE DEF r
  <2>3. Grown(t, "open", 0)
    <3> DEFINE msgs == <<[kind |-> "open", lease |-> 0, at |-> 0]>>
    <3>1. PICK n \in Nat : n = 1 OBVIOUS
    <3>2. wire' = Sent(t, msgs) BY <1>4 DEF Turn
    <3>3. msgs \in [1..n -> Query] /\ \A i \in 1..n : msgs[i].kind = "open" /\ msgs[i].lease = 0
      BY <3>1 DEF Query
    <3> HIDE DEF msgs
    <3> QED BY <3>1, <3>2, <3>3, SentGrows
  <2>4. Follows(t, r, 0, "open", 0)
    <3>1. AcquiredOK(r) BY <1>1, <1>2, <2>2 DEF AcquiredOK
    <3> QED BY <1>1, <1>2, <2>2, <3>1 DEF Follows
  <2> QED BY <1>1, <1>3, <2>1, <2>2, <2>3, <2>4, OneTransfer
<1>5. CASE ~Current(t)
  <2> DEFINE r == Refused(tr[t])
  <2>1. tr' = [tr EXCEPT ![t] = r] /\ wire' = wire BY <1>5 DEF Turn, IInv
  <2>2. /\ r.session = tr[t].session /\ r.acquired = "refused" /\ r.lease = tr[t].lease
        /\ r.leaseClosed = tr[t].leaseClosed /\ r.handedOff = tr[t].handedOff /\ r.pc = tr[t].pc
    BY <1>1, RefusedIs
  <2>3. r \in Rec BY <2>1 DEF Keeps, IInv
  <2> HIDE DEF r
  <2>4. Follows(t, r, 0, "chunk", 0)
    <3>1. AcquiredOK(r) BY <1>1, <1>2, <2>2 DEF AcquiredOK
    <3> QED BY <1>1, <1>2, <2>2, <3>1 DEF Follows
  <2>5. Grown(t, "chunk", 0) BY <2>1, NothingSent
  <2> QED BY <1>1, <1>3, <2>1, <2>3, <2>4, <2>5, OneTransfer
<1> QED BY <1>4, <1>5

\* The cleanup gives the lease back, unless it was.
LEMMA LeaseUnwound ==
    ASSUME IInv, LeaseInv, Keeps, NEW t \in Transfer, NEW rec \in Rec, NEW result,
           rec.session = tr[t].session, rec.acquired = tr[t].acquired, rec.lease = tr[t].lease,
           rec.leaseClosed = tr[t].leaseClosed, Unwound(t, rec, result)
    PROVE  LeaseInv'
<1> DEFINE over == Over(rec, result)
           closed == [over EXCEPT !.leaseClosed = TRUE]
<1>1. /\ over.session = tr[t].session /\ over.acquired = tr[t].acquired /\ over.lease = tr[t].lease
      /\ over.leaseClosed = tr[t].leaseClosed /\ over.handedOff /\ over.pc = "done"
  BY DEF Over, LeftOf, NoTransfer
<1>2. /\ closed.session = tr[t].session /\ closed.acquired = tr[t].acquired
      /\ closed.lease = tr[t].lease /\ closed.leaseClosed /\ closed.handedOff /\ closed.pc = "done"
  BY <1>1 DEF Over, LeftOf, NoTransfer
<1>3. Released(t, over) /\ UNCHANGED <<worker, reply>> BY DEF Unwound
<1> HIDE DEF over
<1>4. AcquiredOK(tr[t]) /\ tr[t].lease \in Nat /\ Taken(0)
  BY <1>3, Typed, NothingTaken DEF LeaseInv, OwnOK
<1>5. \A n \in {0} : n = 1 => reply[1].to = t OBVIOUS
<1>6. CASE over.lease # 0 /\ ~over.leaseClosed
  <2>1. /\ tr' = [tr EXCEPT ![t] = closed]
        /\ wire' = Sent(t, <<[kind |-> "close", lease |-> tr[t].lease, at |-> 0]>>)
    BY <1>1, <1>3, <1>6 DEF Released
  <2>2. closed \in Rec BY <2>1 DEF Keeps, IInv
  <2> HIDE DEF closed
  <2>3. /\ Grown(t, "close", tr[t].lease)
        /\ Current(t) => \A id \in Nat : Keeping(tr[t], id) => Closing(id)'
    <3>1. PICK id \in Nat : id = tr[t].lease BY <1>4
    <3>2. Grown(t, "close", id) /\ (Current(t) => Closing(id)') BY <2>1, <3>1, CloseSent
    <3>3. Current(t) => \A k \in Nat : Keeping(tr[t], k) => Closing(k)' BY <3>1, <3>2 DEF Keeping
    <3> QED BY <3>1, <3>2, <3>3
  <2>4. Follows(t, closed, 0, "close", tr[t].lease)
    <3>1. AcquiredOK(closed) BY <1>1, <1>2, <1>4, <1>6 DEF AcquiredOK
    <3>2. \A id \in Nat : Keeping(tr[t], id) /\ Current(t) => Closing(id)'
      BY <2>3
    <3> QED BY <1>2, <3>1, <3>2 DEF Follows
  <2> QED BY <1>3, <1>4, <1>5, <2>1, <2>2, <2>3, <2>4, OneTransfer
<1>7. CASE ~(over.lease # 0 /\ ~over.leaseClosed)
  <2>1. tr' = [tr EXCEPT ![t] = over] /\ wire' = wire BY <1>3, <1>7 DEF Released
  <2>2. over \in Rec BY <2>1 DEF Keeps, IInv
  <2>3. Follows(t, over, 0, "chunk", 0)
    <3>1. AcquiredOK(over) BY <1>1, <1>4 DEF AcquiredOK
    <3>2. \A id \in Nat \ {0} : ~Keeping(tr[t], id) BY <1>1, <1>7 DEF Keeping
    <3> QED BY <1>1, <3>1, <3>2 DEF Follows
  <2>4. Grown(t, "chunk", 0) BY <2>1, NothingSent
  <2> QED BY <1>3, <1>4, <1>5, <2>1, <2>2, <2>3, <2>4, OneTransfer
<1> QED BY <1>6, <1>7

LEMMA LeaseCleanup == ASSUME IInv, LeaseInv, Keeps, NEW t \in Transfer, Cleanup(t) PROVE LeaseInv'
<1> DEFINE failing == Finishing([tr[t] EXCEPT !.failed = TRUE], "abort")
<1>1. tr[t] \in Rec BY Typed
<1>2. /\ failing \in Rec /\ failing.session = tr[t].session /\ failing.acquired = tr[t].acquired
      /\ failing.lease = tr[t].lease /\ failing.leaseClosed = tr[t].leaseClosed
  BY <1>1 DEF Finishing, Rec
<1> HIDE DEF failing
<1>3. ASSUME NEW rec \in {tr[t], failing}, NEW result, Unwound(t, rec, result) PROVE LeaseInv'
  BY <1>1, <1>2, <1>3, LeaseUnwound
<1>4. Interrupted(t) => LeaseInv' BY LeaseAborts DEF Interrupted
<1>5. Closes(t) => LeaseInv' BY <1>3 DEF Closes, failing
<1>6. AbortEnds(t) => LeaseInv' BY <1>3 DEF AbortEnds
<1> QED BY <1>4, <1>5, <1>6 DEF Cleanup

-----------------------------------------------------------------------------
(* The page receives, the worker serves.                                    *)

LEMMA LeaseReceive == ASSUME IInv, LeaseInv, Keeps, Receive PROVE LeaseInv'
<1> DEFINE msg == reply[1]
           t == msg.to
<1>1. /\ Taken(1) /\ msg = Head(reply) /\ worker' = worker /\ 1 \in 1..Len(reply)
      /\ msg \in Reply /\ t \in Transfer /\ ReplyOK(msg)
  <2>1. Taken(1) /\ msg = Head(reply) BY HeadTaken DEF Receive
  <2>2. 1 \in 1..Len(reply) BY <2>1, Typed DEF Taken
  <2> QED BY <2>1, <2>2, Typed DEF Receive, LeaseInv, Reply
<1>2. \/ msg.kind = "lease" /\ Claims(t, msg.lease)
      \/ msg.kind = "no lease" /\ tr' = [tr EXCEPT ![t] = Refused(@)] /\ UNCHANGED wire
      \/ msg.kind \in {"chunk", "no chunk"} /\ Chunked(t, msg)
  BY <1>1 DEF Receive
<1>3. tr[t] \in Rec /\ AcquiredOK(tr[t]) /\ tr[t].lease \in Nat
  BY <1>1, Typed DEF LeaseInv, OwnOK
<1>4. CASE msg.kind = "lease" /\ Claims(t, msg.lease)
  <2> DEFINE claimed == [tr[t] EXCEPT !.acquired = "granted", !.lease = msg.lease]
             closed == [claimed EXCEPT !.leaseClosed = TRUE]
  <2>1. /\ tr[t].acquired = "sent" /\ tr[t].lease = 0 /\ ~tr[t].leaseClosed /\ Current(t)
        /\ msg.lease \in Nat \ {0} /\ tr[t].pc # "idle"
    <3>1. tr[t].acquired = "sent" /\ Current(t) BY <1>1, <1>4 DEF ReplyOK, Granting, Current
    <3>2. msg.lease \in 1..worker.last BY <1>1, <1>4 DEF ReplyOK
    <3>3. msg.lease \in Nat \ {0} BY <3>2, Typed
    <3>4. tr[t].lease = 0 /\ ~tr[t].leaseClosed /\ tr[t].pc # "idle" BY <1>3, <3>1 DEF AcquiredOK
    <3> QED BY <3>1, <3>3, <3>4
  <2>2. /\ claimed.session = tr[t].session /\ claimed.acquired = "granted"
        /\ claimed.lease = msg.lease /\ ~claimed.leaseClosed
        /\ claimed.handedOff = tr[t].handedOff /\ claimed.pc = tr[t].pc
    BY <1>3, <2>1 DEF Rec
  <2>3. /\ closed.session = tr[t].session /\ closed.acquired = "granted"
        /\ closed.lease = msg.lease /\ closed.leaseClosed
        /\ closed.handedOff = tr[t].handedOff /\ closed.pc = tr[t].pc
    BY <1>3, <2>1 DEF Rec
  <2> HIDE DEF t
  <2>4. \A id \in Nat \ {0} : ~Keeping(tr[t], id) BY <2>1 DEF Keeping
  <2>5. CASE tr[t].handedOff
    <3>1. /\ tr' = [tr EXCEPT ![t] = closed]
          /\ wire' = Sent(t, <<[kind |-> "close", lease |-> msg.lease, at |-> 0]>>)
      <4>1. Released(t, claimed) BY <1>4, <2>5 DEF Claims
      <4> HIDE DEF claimed
      <4> QED BY <2>1, <2>2, <4>1 DEF Released
    <3>2. closed \in Rec BY <1>1, <3>1 DEF Keeps, IInv
    <3> HIDE DEF claimed, closed
    <3>3. PICK id \in Nat : id = msg.lease BY <2>1
    <3>4. Grown(t, "close", id) /\ Closing(id)' BY <1>1, <2>1, <3>1, <3>3, CloseSent
    <3>5. Follows(t, closed, 1, "close", id)
      <4>1. AcquiredOK(closed) BY <1>3, <2>1, <2>3 DEF AcquiredOK
      <4> QED BY <1>4, <2>1, <2>3, <2>4, <2>5, <3>3, <3>4, <4>1 DEF Follows, Granting
    <3> QED BY <1>1, <3>1, <3>2, <3>4, <3>5, OneTransfer DEF t
  <2>6. CASE ~tr[t].handedOff
    <3>1. tr' = [tr EXCEPT ![t] = claimed] /\ wire' = wire BY <1>4, <2>6 DEF Claims
    <3>2. claimed \in Rec BY <1>1, <3>1 DEF Keeps, IInv
    <3> HIDE DEF claimed, closed
    <3>3. Follows(t, claimed, 1, "chunk", 0)
      <4>1. AcquiredOK(claimed) BY <1>3, <2>1, <2>2 DEF AcquiredOK
      <4>2. Keeping(claimed, msg.lease) BY <1>3, <2>2, <2>6 DEF AcquiredOK, Keeping
      <4> QED BY <1>4, <2>1, <2>2, <2>4, <2>6, <4>1, <4>2 DEF Follows, Granting
    <3>4. Grown(t, "chunk", 0) BY <3>1, NothingSent
    <3> QED BY <1>1, <3>1, <3>2, <3>3, <3>4, OneTransfer DEF t
  <2> QED BY <2>5, <2>6
<1>5. CASE msg.kind = "no lease" /\ tr' = [tr EXCEPT ![t] = Refused(@)] /\ UNCHANGED wire
  <2> DEFINE r == Refused(tr[t])
  <2>1. tr' = [tr EXCEPT ![t] = r] BY <1>5
  <2>2. /\ r.session = tr[t].session /\ r.acquired = "refused" /\ r.lease = tr[t].lease
        /\ r.leaseClosed = tr[t].leaseClosed /\ r.handedOff = tr[t].handedOff /\ r.pc = tr[t].pc
    BY <1>3, RefusedIs
  <2>3. tr[t].acquired = "sent" /\ tr[t].lease = 0 /\ tr[t].pc # "idle"
    BY <1>1, <1>3, <1>5 DEF ReplyOK, AcquiredOK, Granting
  <2> HIDE DEF t
  <2>4. r \in Rec BY <1>1, <2>1 DEF Keeps, IInv
  <2> HIDE DEF r
  <2>5. Follows(t, r, 1, "chunk", 0)
    <3>1. AcquiredOK(r) BY <1>3, <2>2, <2>3 DEF AcquiredOK
    <3>2. \A id \in Nat \ {0} : ~Keeping(tr[t], id) BY <2>3 DEF Keeping
    <3> QED BY <1>5, <2>2, <2>3, <3>1, <3>2 DEF Follows, Granting
  <2>6. Grown(t, "chunk", 0) BY <1>5, NothingSent
  <2> QED BY <1>1, <2>1, <2>4, <2>5, <2>6, OneTransfer DEF t
<1>6. CASE msg.kind \in {"chunk", "no chunk"} /\ Chunked(t, msg)
  <2>1. PICK flight : tr' = [tr EXCEPT ![t] = [tr[t] EXCEPT !.inFlight = flight]]
    BY <1>6 DEF Chunked, IInv
  <2> DEFINE r == [tr[t] EXCEPT !.inFlight = flight]
  <2>2. Bland(tr[t], r) BY <1>3 DEF Bland, Rec
  <2>3. tr' = [tr EXCEPT ![t] = r] BY <2>1
  <2> HIDE DEF t, r
  <2>4. r \in Rec BY <1>1, <2>3 DEF Keeps, IInv
  <2>5. Follows(t, r, 1, "chunk", 0)
    <3>1. AcquiredOK(r) BY <1>3, <2>2 DEF AcquiredOK, Bland
    <3>2. ASSUME NEW id \in Nat, Keeping(tr[t], id) PROVE Keeping(r, id)
      BY <2>2, <3>2 DEF Keeping, Bland
    <3> QED BY <1>6, <2>2, <3>1, <3>2 DEF Follows, Bland
  <2>6. Grown(t, "chunk", 0) BY <1>6, NothingSent DEF Chunked
  <2> QED BY <1>1, <2>3, <2>4, <2>5, <2>6, OneTransfer DEF t
<1> QED BY <1>2, <1>4, <1>5, <1>6

\* The worker has served the first request, with an answer when n is 1; a lease it
\* has now it had before, or that request asked for.
Served(n, answer) ==
    /\ tr' = tr /\ Len(wire) \in Nat \ {0} /\ Len(wire') = Len(wire) - 1
    /\ \A i \in 1..Len(wire') : wire'[i] = wire[i + 1]
    /\ Len(reply) \in Nat /\ Len(reply') = Len(reply) + n
    /\ \A i \in 1..Len(reply) : reply'[i] = reply[i]
    /\ n = 1 => reply'[Len(reply) + 1] = answer

Grants(n, answer) ==
    /\ n = 1 /\ answer.kind = "lease" /\ answer.lease = worker.last + 1
    /\ worker'.last = worker.last + 1

LEMMA Longer ==
    ASSUME NEW S, NEW q \in Seq(S), NEW x \in S
    PROVE  /\ Len(Append(q, x)) = Len(q) + 1 /\ Append(q, x)[Len(q) + 1] = x
           /\ \A i \in 1..Len(q) : Append(q, x)[i] = q[i]
BY AppendProperties

LEMMA OneServed ==
    ASSUME IInv, LeaseInv, NEW n \in {0, 1}, NEW answer, Served(n, answer),
           worker'.id = worker.id, worker'.alive = worker.alive,
           worker'.last = worker.last \/ Grants(n, answer),
           n = 1 /\ answer.kind \in Granting =>
               wire[1].kind = "open" /\ answer.to = wire[1].from,
           n = 1 /\ answer.kind = "lease" => Grants(n, answer),
           \A l \in worker'.leases :
               \/ l \in worker.leases /\ ~(wire[1].kind = "close" /\ wire[1].lease = l.id)
               \/ Grants(n, answer) /\ l.id = answer.lease /\ l.of = answer.to
    PROVE  LeaseInv'
<1> USE Typed
<1>1. /\ 1 \in 1..Len(wire) /\ RequestOK(wire[1])
      /\ \A i \in 1..Len(wire') : i + 1 \in 1..Len(wire) /\ wire'[i] = wire[i + 1]
      /\ Len(wire') \in Nat
  BY DEF Served, LeaseInv
<1>2. /\ \A i \in 1..Len(wire) : RequestOK(wire[i])
      /\ \A i \in 1..Len(reply) : ReplyOK(reply[i])
      /\ \A l \in worker.leases : LeaseOK(l)
      /\ \A u \in Transfer : OwnOK(u)
  BY DEF LeaseInv
<1>3. worker.last <= worker'.last /\ worker'.last \in Nat BY DEF Grants
<1>4. \A l \in worker'.leases : l \in worker.leases \/ l.id > worker.last BY DEF Grants
<1>5. ASSUME NEW i \in 1..Len(wire') PROVE RequestOK(wire[i])'
  <2>1. RequestOK(wire[i + 1]) /\ wire'[i] = wire[i + 1] /\ wire[i + 1].lease \in Nat
    BY <1>1, <1>2 DEF Request
  <2>2. tr' = tr BY DEF Served
  <2> QED BY <1>3, <1>4, <2>1, <2>2 DEF RequestOK
<1>6. ASSUME NEW i \in 1..Len(reply') PROVE ReplyOK(reply[i])'
  <2>1. CASE i \in 1..Len(reply)
    <3>1. ReplyOK(reply[i]) /\ reply'[i] = reply[i] /\ tr' = tr BY <1>2, <2>1 DEF Served
    <3>2. reply[i].kind = "lease" => reply[i].lease \in 1..worker.last BY <3>1 DEF ReplyOK
    <3> QED BY <1>3, <1>4, <3>1, <3>2 DEF ReplyOK
  <2>2. CASE i \notin 1..Len(reply)
    <3>1. n = 1 /\ reply'[i] = answer /\ tr' = tr BY <2>2 DEF Served
    <3>2. worker'.alive BY <1>1 DEF RequestOK
    <3>3. answer.kind \in Granting => tr[answer.to].acquired = "sent" /\ tr[answer.to].session = worker.id
      BY <1>1, <3>1 DEF RequestOK
    <3>4. answer.kind = "lease" =>
             answer.lease \in 1..worker'.last
             /\ \A l \in worker'.leases : l.id = answer.lease => l.of = answer.to
      BY <1>2, <3>1 DEF Grants, LeaseOK
    <3> QED BY <3>1, <3>2, <3>3, <3>4 DEF ReplyOK
  <2> QED BY <2>1, <2>2
<1>7. AskedOnce'
  <2>1. \A i, j \in 1..Len(wire) :
          wire[i].kind = "open" /\ wire[j].kind = "open" /\ wire[i].from = wire[j].from => i = j
    BY DEF LeaseInv, AskedOnce
  <2>2. \A i, j \in 1..Len(reply) :
          reply[i].kind \in Granting /\ reply[j].kind \in Granting /\ reply[i].to = reply[j].to
              => i = j
    BY DEF LeaseInv, AskedOnce
  <2>3. \A i \in 1..Len(wire), j \in 1..Len(reply) :
          wire[i].kind = "open" /\ reply[j].kind \in Granting => wire[i].from # reply[j].to
    BY DEF LeaseInv, AskedOnce
  <2>4. \A i \in 1..Len(reply') :
           \/ i \in 1..Len(reply) /\ reply'[i] = reply[i]
           \/ n = 1 /\ i = Len(reply) + 1 /\ reply'[i] = answer
    BY DEF Served
  <2>5. \A i, j \in 1..Len(wire') :
           wire'[i].kind = "open" /\ wire'[j].kind = "open" /\ wire'[i].from = wire'[j].from => i = j
    <3> TAKE i, j \in 1..Len(wire')
    <3> HAVE wire'[i].kind = "open" /\ wire'[j].kind = "open" /\ wire'[i].from = wire'[j].from
    <3>1. i + 1 = j + 1 BY <1>1, <2>1
    <3> QED BY <1>1, <3>1
  <2>6. \A i, j \in 1..Len(reply') :
           reply'[i].kind \in Granting /\ reply'[j].kind \in Granting /\ reply'[i].to = reply'[j].to
               => i = j
    <3> TAKE i, j \in 1..Len(reply')
    <3> HAVE reply'[i].kind \in Granting /\ reply'[j].kind \in Granting /\ reply'[i].to = reply'[j].to
    <3>1. CASE i \in 1..Len(reply) /\ j \in 1..Len(reply)
      <4>1. reply'[i] = reply[i] /\ reply'[j] = reply[j] BY <2>4, <3>1
      <4> QED BY <2>2, <3>1, <4>1
    <3>2. CASE i \in 1..Len(reply) /\ j \notin 1..Len(reply)
      <4>1. reply'[i] = reply[i] /\ n = 1 /\ reply'[j] = answer BY <2>4, <3>2
      <4> QED BY <1>1, <2>3, <3>2, <4>1
    <3>3. CASE i \notin 1..Len(reply) /\ j \in 1..Len(reply)
      <4>1. reply'[j] = reply[j] /\ n = 1 /\ reply'[i] = answer BY <2>4, <3>3
      <4> QED BY <1>1, <2>3, <3>3, <4>1
    <3>4. CASE i \notin 1..Len(reply) /\ j \notin 1..Len(reply) BY <2>4, <3>4
    <3> QED BY <3>1, <3>2, <3>3, <3>4
  <2>7. \A i \in 1..Len(wire'), j \in 1..Len(reply') :
           wire'[i].kind = "open" /\ reply'[j].kind \in Granting => wire'[i].from # reply'[j].to
    <3> TAKE i \in 1..Len(wire'), j \in 1..Len(reply')
    <3> HAVE wire'[i].kind = "open" /\ reply'[j].kind \in Granting
    <3>1. i + 1 \in 1..Len(wire) /\ wire'[i] = wire[i + 1] /\ i + 1 # 1 BY <1>1
    <3>2. CASE j \in 1..Len(reply) BY <2>3, <2>4, <3>1, <3>2
    <3>3. CASE j \notin 1..Len(reply) BY <1>1, <2>1, <2>4, <3>1, <3>3
    <3> QED BY <3>2, <3>3
  <2> QED BY <2>5, <2>6, <2>7 DEF AskedOnce
<1>8. ASSUME NEW l \in worker'.leases PROVE LeaseOK(l)'
  <2>1. worker'.alive /\ tr' = tr BY <1>1 DEF RequestOK, Served
  <2>2. CASE Grants(n, answer) /\ l.id = answer.lease /\ l.of = answer.to
    <3>1. l.id \in 1..worker'.last BY <2>2 DEF Grants
    <3>2. tr[l.of].session = worker.id BY <1>1, <2>2 DEF Grants, Granting, RequestOK
    <3>3. Len(reply) + 1 \in 1..Len(reply') /\ reply'[Len(reply) + 1] = answer
      BY <2>2 DEF Grants, Served
    <3>4. Arriving(l.id)' BY <2>2, <3>3 DEF Arriving, Grants
    <3> QED BY <2>1, <3>1, <3>2, <3>4 DEF LeaseOK
  <2>3. CASE l \in worker.leases /\ ~(wire[1].kind = "close" /\ wire[1].lease = l.id)
    <3>1. LeaseOK(l) /\ l.id \in 1..worker'.last BY <1>2, <1>3, <2>3 DEF LeaseOK
    <3>2. Arriving(l.id) => Arriving(l.id)'
      <4>1. \A i \in 1..Len(reply) : i \in 1..Len(reply') /\ reply'[i] = reply[i] BY DEF Served
      <4> QED BY <4>1 DEF Arriving
    <3>3. ASSUME Closing(l.id) PROVE Closing(l.id)'
      <4>1. PICK i \in 1..Len(wire) : wire[i].kind = "close" /\ wire[i].lease = l.id
        BY <3>3 DEF Closing
      <4>2. i # 1 BY <2>3, <4>1
      <4>3. i - 1 \in 1..Len(wire') /\ (i - 1) + 1 = i BY <4>2 DEF Served
      <4>4. wire'[i - 1] = wire[i] BY <1>1, <4>3
      <4> QED BY <4>1, <4>3, <4>4 DEF Closing
    <3> QED BY <2>1, <3>1, <3>2, <3>3 DEF LeaseOK
  <2> QED BY <2>2, <2>3
<1>9. ASSUME NEW u \in Transfer PROVE OwnOK(u)'
  <2>1. tr' = tr /\ OwnOK(u) BY <1>2 DEF Served
  <2> QED BY <1>3, <1>4, <2>1 DEF OwnOK
<1> QED BY <1>5, <1>6, <1>7, <1>8, <1>9 DEF LeaseInv

ReplyKind == {"lease", "no lease", "chunk", "no chunk"}
Answer(m, kind, lease, to) == m.kind = kind /\ m.lease = lease /\ m.to = to

LEMMA LeaseServe == ASSUME IInv, LeaseInv, Keeps, Serve PROVE LeaseInv'
<1> DEFINE msg == wire[1]
<1> USE Typed
<1>1. /\ msg = Head(wire) /\ tr' = tr /\ Len(wire) \in Nat \ {0} /\ Len(wire') = Len(wire) - 1
      /\ \A i \in 1..Len(wire') : wire'[i] = wire[i + 1]
      /\ msg \in Request /\ msg.session = worker.id
  <2>1. wire # <<>> /\ tr' = tr BY DEF Serve
  <2>2. 1 \in 1..Len(wire) BY <2>1, EmptySeq
  <2>3. RequestOK(msg) BY <2>2 DEF LeaseInv
  <2> QED BY <2>1, <2>2, <2>3, HeadTailProperties DEF Serve, RequestOK
<1> HIDE DEF msg
<1>2. ASSUME NEW kind, NEW lease, Answers(msg, kind, lease), kind \in ReplyKind, lease \in Nat
      PROVE  \E answer : Answer(answer, kind, lease, msg.from) /\ Served(1, answer)
  <2> DEFINE answer == [kind |-> kind, to |-> msg.from, session |-> worker.id, lease |-> lease,
                        at |-> msg.at]
  <2>1. answer \in Reply BY <1>1, <1>2 DEF Reply, Request, ReplyKind
  <2>2. reply' = Append(reply, answer) BY <1>2 DEF Answers
  <2>3. Answer(answer, kind, lease, msg.from) BY DEF Answer
  <2> HIDE DEF answer
  <2>4. /\ Len(reply') = Len(reply) + 1 /\ reply'[Len(reply) + 1] = answer
        /\ \A i \in 1..Len(reply) : reply'[i] = reply[i]
    BY <2>1, <2>2, Longer
  <2> QED BY <1>1, <2>3, <2>4 DEF Served
<1>3. CASE ServeOpen(msg)
  <2>0. Answers(msg, "lease", worker.last + 1) /\ worker.last + 1 \in Nat BY <1>3 DEF ServeOpen
  <2>1. PICK answer : Answer(answer, "lease", worker.last + 1, msg.from) /\ Served(1, answer)
    BY <1>2, <2>0 DEF ReplyKind
  <2>2. /\ worker'.id = worker.id /\ worker'.alive = worker.alive
        /\ worker'.last = worker.last + 1
        /\ worker'.leases = worker.leases \cup {[id |-> worker.last + 1, of |-> msg.from]}
    BY <1>3 DEF ServeOpen, IInv, MessagesOK
  <2>3. Grants(1, answer) /\ answer.to = msg.from BY <2>1, <2>2 DEF Grants, Answer
  <2>4. msg.kind = "open" /\ msg = wire[1] BY <1>3 DEF ServeOpen, msg
  <2>5. \A l \in worker'.leases :
           \/ l \in worker.leases /\ ~(wire[1].kind = "close" /\ wire[1].lease = l.id)
           \/ Grants(1, answer) /\ l.id = answer.lease /\ l.of = answer.to
    BY <2>1, <2>2, <2>3, <2>4 DEF Answer
  <2> QED BY <2>1, <2>2, <2>3, <2>4, <2>5, OneServed
<1>4. CASE ServeClose(msg)
  <2>1. /\ worker'.id = worker.id /\ worker'.alive = worker.alive /\ worker'.last = worker.last
        /\ worker'.leases = {l \in worker.leases : l.id # msg.lease} /\ reply' = reply
    BY <1>1, <1>4 DEF ServeClose, IInv, MessagesOK
  <2>2. Served(0, 0) BY <1>1, <2>1 DEF Served
  <2> QED BY <2>1, <2>2, OneServed DEF msg
<1>5. ASSUME NEW kind, NEW lease, Answers(msg, kind, lease), kind \in ReplyKind \ {"lease"},
             lease \in Nat, kind = "no lease" => msg.kind = "open",
             worker' = worker, msg.kind # "close"
      PROVE  LeaseInv'
  <2>1. PICK answer : Answer(answer, kind, lease, msg.from) /\ Served(1, answer)
    BY <1>2, <1>5
  <2>2. answer.kind # "lease" /\ (answer.kind \in Granting => msg.kind = "open")
        /\ answer.to = msg.from
    BY <1>5, <2>1 DEF Granting, Answer, ReplyKind
  <2> QED BY <1>5, <2>1, <2>2, OneServed DEF msg
<1>6. CASE ServeChunk(msg) BY <1>1, <1>5, <1>6 DEF ServeChunk, Request, ReplyKind
<1>7. CASE msg.kind # "close" /\ Refuses(msg) BY <1>1, <1>5, <1>7 DEF Refuses, Request, ReplyKind
<1> QED BY <1>1, <1>3, <1>4, <1>6, <1>7 DEF Serve

-----------------------------------------------------------------------------
(* A worker is replaced or dies, and everything under way with it.          *)

LEMMA LeaseRejected ==
    ASSUME IInv, LeaseInv, NEW cancels \in BOOLEAN, tr' = Rejected(cancels),
           wire' = <<>>, reply' = <<>>, worker'.leases = {}, worker'.last \in Nat,
           \/ worker'.id = worker.id /\ worker'.last = worker.last
           \/ worker'.id = worker.id + 1
    PROVE  LeaseInv'
<1> USE Typed
<1>1. Len(wire') = 0 /\ Len(reply') = 0 BY EmptySeq
<1>2. ASSUME NEW t \in Transfer PROVE OwnOK(t)'
  <2> DEFINE rec == IF tr[t].acquired = "sent" THEN Refused(tr[t]) ELSE tr[t]
             r == IF t \in Live THEN FailedBy(rec, cancels) ELSE rec
  <2>1. OwnOK(t) /\ tr[t] \in Rec BY DEF LeaseInv
  <2>2. /\ rec.session = tr[t].session /\ rec.lease = tr[t].lease
        /\ rec.leaseClosed = tr[t].leaseClosed /\ rec.handedOff = tr[t].handedOff
        /\ rec.pc = tr[t].pc
        /\ rec.acquired = IF tr[t].acquired = "sent" THEN "refused" ELSE tr[t].acquired
    BY <2>1, RefusedIs
  <2>3. tr'[t] = r BY DEF Rejected
  <2>4. /\ r.session = rec.session /\ r.lease = rec.lease /\ r.leaseClosed = rec.leaseClosed
        /\ r.handedOff = rec.handedOff /\ r.pc = rec.pc /\ r.acquired = rec.acquired
    <3> HIDE DEF rec
    <3> QED BY DEF FailedBy
  <2> HIDE DEF rec, r
  <2>5. AcquiredOK(r) BY <2>1, <2>2, <2>4 DEF OwnOK, AcquiredOK
  <2> QED BY <2>1, <2>2, <2>3, <2>4, <2>5 DEF OwnOK
<1> QED BY <1>1, <1>2 DEF LeaseInv, AskedOnce

LEMMA LeaseEnds == ASSUME IInv, LeaseInv, Restart \/ WorkerDies PROVE LeaseInv'
<1>1. CASE Restart
  <2>1. worker'.id = worker.id + 1 /\ worker'.last = 0 /\ worker'.leases = {}
    BY <1>1 DEF Restart, NewWorker
  <2>2. tr' = Rejected(TRUE) /\ wire' = <<>> /\ reply' = <<>> BY <1>1 DEF Restart
  <2>3. worker'.last \in Nat BY <2>1
  <2> HIDE <1>1
  <2> QED BY <2>1, <2>2, <2>3, LeaseRejected
<1>2. CASE WorkerDies
  <2>1. worker'.id = worker.id /\ worker'.last = worker.last /\ worker'.leases = {}
    BY <1>2 DEF WorkerDies, IInv, MessagesOK
  <2> QED BY <1>2, <2>1, Typed, LeaseRejected DEF WorkerDies
<1> QED BY <1>1, <1>2

LEMMA LeaseInit == Init => LeaseInv
<1> SUFFICES ASSUME Init PROVE LeaseInv OBVIOUS
<1>1. Len(wire) = 0 /\ Len(reply) = 0 BY EmptySeq DEF Init
<1>2. worker.id = 1 /\ worker.last = 0 /\ worker.leases = {} BY DEF Init, NewWorker
<1>3. ASSUME NEW t \in Transfer PROVE OwnOK(t)
  <2>1. tr[t] = NoTransfer BY DEF Init
  <2> QED BY <1>2, <2>1 DEF OwnOK, AcquiredOK, NoTransfer
<1> QED BY <1>1, <1>2, <1>3 DEF LeaseInv, AskedOnce

LEMMA LeaseNext == IInv /\ LeaseInv /\ [Next]_transferVars => LeaseInv'
<1> SUFFICES ASSUME IInv, LeaseInv, [Next]_transferVars PROVE LeaseInv' OBVIOUS
<1>1. Keeps BY KeepsNext
<1>2. CASE UNCHANGED transferVars
  BY <1>2 DEF transferVars, LeaseInv, RequestOK, ReplyOK, AskedOnce, LeaseOK, Arriving, Closing, OwnOK
<1>3. CASE Next
  <2>1. ASSUME NEW t \in Transfer,
               \/ \E size \in 0..MaxSize, window \in Windows, aborted \in BOOLEAN :
                     Start(t, size, window, aborted)
               \/ Turn(t) \/ Opened(t) \/ Pull(t) \/ Wrote(t) \/ WriteFails(t)
               \/ Cleanup(t) \/ Cancel(t)
        PROVE  LeaseInv'
    <3>1. WriteFails(t) => LeaseInv' BY <1>1, LeaseAborts DEF WriteFails, Racing
    <3> QED BY <1>1, <2>1, <3>1, LeaseStart, LeaseTurn, LeaseOpened, LeasePull, LeaseWrote,
               LeaseCleanup, LeaseCancel
  <2> QED BY <1>1, <1>3, <2>1, LeaseServe, LeaseReceive, LeaseEnds DEF Next
<1> QED BY <1>2, <1>3

LEMMA LeaseInvariant == Spec => []LeaseInv
<1>1. IInv /\ LeaseInv /\ [Next]_transferVars => LeaseInv' BY LeaseNext
<1> QED BY <1>1, LeaseInit, TransferInvariant, PTL DEF Spec

(* Whatever the order of a lease's reply, the cancellation and the cleanup,  *)
(* somebody will close it (browser-python.ts claimLease(), releaseLease()).  *)
THEOREM LeasesOwned == Spec => []LeaseOwned
<1>1. IInv /\ LeaseInv => LeaseOwned
  <2> SUFFICES ASSUME IInv, LeaseInv, NEW l \in worker.leases
               PROVE  \/ tr[l.of].pc # "done" /\ tr[l.of].lease = l.id /\ ~tr[l.of].leaseClosed
                      \/ \E i \in DOMAIN reply : reply[i].kind = "lease" /\ reply[i].lease = l.id
                      \/ \E i \in DOMAIN wire : wire[i].kind = "close" /\ wire[i].lease = l.id
    BY DEF LeaseOwned
  <2>1. DOMAIN reply = 1..Len(reply) /\ DOMAIN wire = 1..Len(wire) BY Typed, LenProperties
  <2>2. LeaseOK(l) BY DEF LeaseInv
  <2> QED BY <2>1, <2>2 DEF LeaseOK, Keeping, Arriving, Closing
<1> QED BY <1>1, TransferInvariant, LeaseInvariant, PTL

(* The worker frees a lease only after the cleanup of its own transfer       *)
(* (browser-python.ts closeLease()).                                         *)
THEOREM OnlyOwnLeaseFreed == Spec => OnlyOwnLease
<1>1. IInv /\ LeaseInv /\ [Next]_transferVars =>
         [\A l \in worker.leases :
             worker'.id = worker.id /\ worker'.alive /\ l \notin worker'.leases
                 => tr[l.of].handedOff]_transferVars
  <2> SUFFICES ASSUME IInv, LeaseInv, [Next]_transferVars, NEW l \in worker.leases,
                      worker'.id = worker.id, worker'.alive, l \notin worker'.leases
               PROVE  tr[l.of].handedOff
    OBVIOUS
  <2>1. worker' # worker OBVIOUS
  <2>2. ~Restart
    <3> SUFFICES ASSUME Restart PROVE FALSE OBVIOUS
    <3>1. worker'.id = worker.id + 1 BY DEF Restart, NewWorker
    <3> QED BY <3>1, Typed
  <2>3. ~WorkerDies BY DEF WorkerDies, IInv, MessagesOK
  <2>4. Serve
    BY <2>1, <2>2, <2>3
       DEF Next, transferVars, Start, Turn, Opened, Pull, Wrote, WriteFails, Cleanup, Cancel,
           Interrupted, Closes, AbortEnds, Unwound, Receive
  <2>5. wire # <<>> /\ 1 \in 1..Len(wire) /\ Head(wire) = wire[1] BY <2>4, Typed, EmptySeq DEF Serve
  <2>6. RequestOK(wire[1]) BY <2>5 DEF LeaseInv
  <2>7. ~ServeOpen(Head(wire)) BY DEF ServeOpen, IInv, MessagesOK
  <2>8. ServeClose(Head(wire)) BY <2>1, <2>4, <2>7 DEF Serve, ServeChunk, Refuses
  <2>9. wire[1].kind = "close" /\ l.id = wire[1].lease BY <2>1, <2>5, <2>8 DEF ServeClose, IInv, MessagesOK
  <2> QED BY <2>6, <2>9 DEF RequestOK
<1> QED BY <1>1, TransferInvariant, LeaseInvariant, PTL DEF Spec, OnlyOwnLease

-----------------------------------------------------------------------------
(* The budget.  Each transfer has a place in it for every chunk it may      *)
(* hold; a step gives all its places to a transfer or takes them all back.  *)

PlacesOf(recs) == {p \in Transfer \X (1..Budget) : p[2] <= recs[p[1]].window}

HeldBy(r) == Len(r.inFlight) + IF r.pc = "writing" THEN 1 ELSE 0

WindowOK(r) ==
    /\ r.window <= Budget
    /\ r.pc \in {"idle", "done"} => r.window = 0
    /\ HeldBy(r) <= r.window

BudgetInv ==
    /\ reserved = Cardinality(PlacesOf(tr))
    /\ reserved <= Budget
    /\ \A t \in Transfer : WindowOK(tr[t])

LEMMA PlacesFinite ==
    ASSUME NEW recs
    PROVE  IsFiniteSet(PlacesOf(recs)) /\ Cardinality(PlacesOf(recs)) \in Nat
<1>1. IsFiniteSet(Transfer) /\ IsFiniteSet(1..Budget)
  BY FS_Interval, TransferAssumption
<1>2. IsFiniteSet(Transfer \X (1..Budget))
  BY <1>1, FS_Product
<1>3. PlacesOf(recs) \in SUBSET (Transfer \X (1..Budget))
  BY DEF PlacesOf
<1>4. IsFiniteSet(PlacesOf(recs))
  BY <1>2, <1>3, FS_Subset
<1> QED BY <1>4, FS_CardinalityType

\* A transfer that had none gets n places.
LEMMA PlacesGiven ==
    ASSUME NEW t \in Transfer, NEW n \in 0..Budget, NEW before, NEW after,
           before[t].window = 0, after[t].window = n,
           \A u \in Transfer \ {t} : after[u].window = before[u].window
    PROVE  Cardinality(PlacesOf(after)) = Cardinality(PlacesOf(before)) + n
<1> DEFINE own == {t} \X (1..n)
<1>0. n \in Nat /\ Budget \in Nat
  BY TransferAssumption
<1>1. IsFiniteSet(own) /\ Cardinality(own) = n
  <2>1. IsFiniteSet({t}) /\ Cardinality({t}) = 1
    BY FS_Singleton
  <2>2. IsFiniteSet(1..n) /\ Cardinality(1..n) = n
    BY <1>0, FS_Interval
  <2>3. IsFiniteSet(own) /\ Cardinality(own) = Cardinality({t}) * Cardinality(1..n)
    BY <2>1, <2>2, FS_Product
  <2> HIDE DEF own
  <2> QED BY <1>0, <2>1, <2>2, <2>3
<1>2. PlacesOf(after) = PlacesOf(before) \cup own
  <2>1. ASSUME NEW u \in Transfer, NEW i \in 1..Budget
        PROVE  <<u, i>> \in PlacesOf(after) <=> <<u, i>> \in PlacesOf(before) \/ <<u, i>> \in own
    <3>1. <<u, i>> \in PlacesOf(after) <=> i <= after[u].window
      BY DEF PlacesOf
    <3>2. <<u, i>> \in PlacesOf(before) <=> i <= before[u].window
      BY DEF PlacesOf
    <3>3. CASE u = t
      BY <1>0, <3>1, <3>2, <3>3
    <3>4. CASE u # t
      BY <3>1, <3>2, <3>4
    <3> QED BY <3>3, <3>4
  <2>2. /\ PlacesOf(after) \subseteq Transfer \X (1..Budget)
        /\ PlacesOf(before) \subseteq Transfer \X (1..Budget)
    BY DEF PlacesOf
  <2>3. own \subseteq Transfer \X (1..Budget)
    BY <1>0
  <2> HIDE DEF own
  <2> QED BY <2>1, <2>2, <2>3
<1>3. PlacesOf(before) \cap own = {}
  BY DEF PlacesOf
<1>4. IsFiniteSet(PlacesOf(before)) /\ Cardinality(PlacesOf(before)) \in Nat
  BY PlacesFinite
<1> HIDE DEF own
<1>5. Cardinality(PlacesOf(before) \cup own) =
         Cardinality(PlacesOf(before)) + Cardinality(own) - Cardinality(PlacesOf(before) \cap own)
  BY <1>1, <1>4, FS_Union
<1>6. Cardinality(PlacesOf(before) \cap own) = 0
  BY <1>3, FS_EmptySet
<1> DEFINE had == Cardinality(PlacesOf(before))
<1>7. Cardinality(PlacesOf(after)) = had + n - 0 /\ had \in Nat
  BY <1>1, <1>2, <1>4, <1>5, <1>6
<1> HIDE DEF had
<1>8. Cardinality(PlacesOf(after)) = had + n
  BY <1>0, <1>7
<1> QED BY <1>8 DEF had

\* Nobody's places change.
LEMMA PlacesStay ==
    ASSUME BudgetInv, reserved' = reserved,
           \A u \in Transfer : tr'[u].window = tr[u].window /\ WindowOK(tr'[u])
    PROVE  BudgetInv'
<1>1. PlacesOf(tr') = PlacesOf(tr)
  BY DEF PlacesOf
<1>2. BudgetInv' = (/\ reserved' = Cardinality(PlacesOf(tr'))
                    /\ reserved' <= Budget
                    /\ \A t \in Transfer : WindowOK(tr'[t]))
  BY DEF BudgetInv, WindowOK, PlacesOf, HeldBy
<1> QED BY <1>1, <1>2 DEF BudgetInv

LEMMA MarkedStay ==
    ASSUME BudgetInv, reserved' = reserved, \A u \in Transfer : Alike(tr[u], tr'[u])
    PROVE  BudgetInv'
<1>1. \A u \in Transfer : tr'[u].window = tr[u].window /\ WindowOK(tr'[u])
  BY DEF BudgetInv, WindowOK, HeldBy, Alike
<1> QED BY <1>1, PlacesStay

\* One transfer goes on with the places it has.
LEMMA OneStays ==
    ASSUME IInv, BudgetInv, NEW t \in Transfer, NEW r, reserved' = reserved,
           tr' = [tr EXCEPT ![t] = r], r.window = tr[t].window, WindowOK(r)
    PROVE  BudgetInv'
<1>1. tr \in [Transfer -> Rec]
  BY DEF IInv
<1>2. \A u \in Transfer : tr'[u] = IF u = t THEN r ELSE tr[u]
  BY <1>1
<1>3. \A u \in Transfer : tr'[u].window = tr[u].window /\ WindowOK(tr'[u])
  BY <1>2 DEF BudgetInv
<1> QED BY <1>3, PlacesStay

LEMMA OneMarked ==
    ASSUME IInv, BudgetInv, NEW t \in Transfer, NEW r, reserved' = reserved,
           tr' = [tr EXCEPT ![t] = r], Alike(tr[t], r)
    PROVE  BudgetInv'
<1>1. WindowOK(tr[t])
  BY DEF BudgetInv
<1>2. WindowOK(r) /\ r.window = tr[t].window
  BY <1>1 DEF WindowOK, HeldBy, Alike
<1> QED BY <1>2, OneStays

\* The end of a race holds no more than the race did.
LEMMA EndHolds ==
    ASSUME NEW r \in Rec, WindowOK(r), r.pc \notin {"idle", "done"}
    PROVE  \A q \in {Aborts(r), Commits(r), Aborts([r EXCEPT !.committing = TRUE])} :
              q.window = r.window /\ WindowOK(q)
<1>1. \A q \in {Aborts(r), Commits(r), Aborts([r EXCEPT !.committing = TRUE])} :
         q.pc \in {"abort", "close"} /\ q.window = r.window /\ q.inFlight = r.inFlight
  BY DEF Aborts, Commits, Finishing, Rec
<1>2. Len(r.inFlight) \in Nat /\ r.window \in Nat
  BY LenProperties DEF Rec
<1> SUFFICES ASSUME NEW q, q.pc \in {"abort", "close"}, q.window = r.window,
                    q.inFlight = r.inFlight
             PROVE  WindowOK(q)
  BY <1>1
<1> DEFINE k == Len(r.inFlight)
           x == IF r.pc = "writing" THEN 1 ELSE 0
           w == r.window
<1>3. k \in Nat /\ w \in Nat /\ x \in {0, 1} /\ k + x <= w
  BY <1>2 DEF WindowOK, HeldBy
<1>4. HeldBy(q) = k + 0
  BY DEF HeldBy
<1> HIDE DEF k, x
<1>5. HeldBy(q) <= w
  <2> HIDE DEF w
  <2> QED BY <1>3, <1>4
<1> QED BY <1>5 DEF WindowOK

LEMMA Windowed ==
    ASSUME IInv, BudgetInv, NEW t \in Transfer
    PROVE  /\ tr \in [Transfer -> Rec] /\ tr[t] \in Rec /\ TransferOK(tr[t]) /\ WindowOK(tr[t])
           /\ tr[t].inFlight \in Seq(Chunk) /\ Len(tr[t].inFlight) \in Nat /\ tr[t].window \in Nat
<1>1. tr \in [Transfer -> Rec] /\ tr[t] \in Rec /\ TransferOK(tr[t])
  BY Facts
<1>2. tr[t].inFlight \in Seq(Chunk) /\ tr[t].window \in Nat
  BY <1>1 DEF Rec
<1>3. Len(tr[t].inFlight) \in Nat
  BY <1>2, LenProperties
<1> QED BY <1>1, <1>2, <1>3 DEF BudgetInv

LEMMA BudgetStart ==
    ASSUME IInv, BudgetInv, NEW t \in Transfer, NEW size \in 0..MaxSize, NEW window \in Windows,
           NEW aborted \in BOOLEAN, Start(t, size, window, aborted)
    PROVE  BudgetInv'
<1> DEFINE admitted == worker.alive /\ Fits(window)
           reserves == IF admitted THEN window ELSE 0
           begun == [NoTransfer EXCEPT !.session = worker.id, !.size = size,
                                       !.pc = "opening", !.window = reserves]
           r == IF admitted /\ ~aborted THEN [begun EXCEPT !.acquired = "queued"]
                ELSE Aborts(begun)
<1>0. /\ window \in Nat /\ Budget \in Nat /\ reserved \in Nat /\ reserved <= Budget
  <2>1. window \in Nat /\ Budget \in Nat
    BY TransferAssumption
  <2> QED BY <2>1, PlacesFinite DEF BudgetInv
<1>1. /\ tr' = [tr EXCEPT ![t] = r] /\ reserved' = reserved + reserves /\ tr[t].pc = "idle"
  BY DEF Start
<1>2. reserves \in 0..Budget /\ reserved + reserves <= Budget
  BY <1>0 DEF Fits
<1> HIDE DEF reserves
<1>3. begun.pc = "opening" /\ begun.window = reserves /\ begun.inFlight = <<>>
  BY DEF NoTransfer
<1>4. r.pc \in {"opening", "abort"} /\ r.window = reserves /\ r.inFlight = <<>>
  BY <1>3 DEF NoTransfer, Aborts, Finishing
<1> HIDE DEF r
<1>5. tr[t].window = 0 /\ tr \in [Transfer -> Rec]
  BY <1>1, Windowed DEF WindowOK
<1>6. \A u \in Transfer : tr'[u] = IF u = t THEN r ELSE tr[u]
  BY <1>1, <1>5
<1>7. Cardinality(PlacesOf(tr')) = Cardinality(PlacesOf(tr)) + reserves
  BY <1>2, <1>4, <1>5, <1>6, PlacesGiven
<1>8. WindowOK(r)
  BY <1>0, <1>2, <1>4, EmptyTyped DEF WindowOK, HeldBy
<1>9. /\ reserved' = Cardinality(PlacesOf(tr')) /\ reserved' <= Budget
      /\ \A u \in Transfer : WindowOK(tr'[u])
  BY <1>1, <1>2, <1>6, <1>7, <1>8 DEF BudgetInv
<1> QED BY <1>9 DEF BudgetInv, WindowOK, PlacesOf, HeldBy

\* What a transfer that is over had is given back.
LEMMA PlacesBack ==
    ASSUME IInv, BudgetInv, NEW t \in Transfer, NEW r, tr' = [tr EXCEPT ![t] = r],
           r.window = 0, r.inFlight = <<>>, r.pc = "done", reserved' = reserved - tr[t].window
    PROVE  BudgetInv'
<1>1. tr \in [Transfer -> Rec] /\ tr[t].window \in Nat /\ WindowOK(tr[t])
  BY Windowed
<1>2. \A u \in Transfer : tr'[u] = IF u = t THEN r ELSE tr[u]
  BY <1>1
<1>3. tr[t].window \in 0..Budget /\ Budget \in Nat
  BY <1>1, TransferAssumption DEF WindowOK
<1>4. Cardinality(PlacesOf(tr)) = Cardinality(PlacesOf(tr')) + tr[t].window
  <2> DEFINE n == tr[t].window
             left == tr'
  <2>1. left[t].window = 0 /\ \A u \in Transfer \ {t} : tr[u].window = left[u].window
    BY <1>2
  <2>2. n \in 0..Budget /\ tr[t].window = n
    BY <1>3
  <2> HIDE DEF n, left
  <2>3. Cardinality(PlacesOf(tr)) = Cardinality(PlacesOf(left)) + n
    BY <2>1, <2>2, PlacesGiven
  <2> QED BY <2>2, <2>3 DEF left
<1>5. Cardinality(PlacesOf(tr')) \in Nat
  BY PlacesFinite
<1>6. reserved' = Cardinality(PlacesOf(tr')) /\ reserved' <= Budget
  <2> DEFINE c == Cardinality(PlacesOf(tr'))
             w == tr[t].window
  <2>1. reserved = c + w /\ reserved' = reserved - w /\ reserved <= Budget
    BY <1>4 DEF BudgetInv
  <2>2. c \in Nat /\ w \in Nat /\ Budget \in Nat
    BY <1>1, <1>3, <1>5
  <2> HIDE DEF c, w
  <2>3. reserved' = c /\ c <= Budget
    BY <2>1, <2>2
  <2> QED BY <2>3 DEF c
<1>7. WindowOK(r)
  BY <1>3, EmptyTyped DEF WindowOK, HeldBy
<1>8. \A u \in Transfer : WindowOK(tr'[u])
  BY <1>2, <1>7 DEF BudgetInv
<1> QED BY <1>6, <1>8 DEF BudgetInv, WindowOK, PlacesOf, HeldBy

LEMMA BudgetUnwound ==
    ASSUME IInv, BudgetInv, NEW t \in Transfer, NEW rec \in Rec, NEW result \in {"ok", "failed"},
           Unwound(t, rec, result), rec.window = tr[t].window
    PROVE  BudgetInv'
<1> DEFINE over == Over(rec, result)
           closed == [over EXCEPT !.leaseClosed = TRUE]
<1>1. over \in Rec /\ over.pc = "done" /\ over.window = 0 /\ over.inFlight = <<>>
  <2>1. over \in Rec /\ over.pc = "done"
    BY OverTyped
  <2>2. over.window = 0 /\ over.inFlight = <<>>
    BY DEF Over, LeftOf, NoTransfer
  <2> QED BY <2>1, <2>2
<1>2. tr' = [tr EXCEPT ![t] = over] \/ tr' = [tr EXCEPT ![t] = closed]
  BY DEF Unwound, Released
<1>3. reserved' = reserved - tr[t].window
  BY DEF Unwound
<1> HIDE DEF over
<1>4. closed.pc = "done" /\ closed.window = 0 /\ closed.inFlight = <<>>
  BY <1>1 DEF Rec
<1> HIDE DEF closed
<1> QED BY <1>1, <1>2, <1>3, <1>4, PlacesBack

LEMMA BudgetCloses == ASSUME IInv, BudgetInv, NEW t \in Transfer, Closes(t) PROVE BudgetInv'
<1> DEFINE failing == Finishing([tr[t] EXCEPT !.failed = TRUE], "abort")
<1>1. tr[t] \in Rec
  BY Windowed
<1>2. failing \in Rec /\ failing.window = tr[t].window
  BY <1>1 DEF Finishing, Rec
<1>3. Unwound(t, tr[t], "ok") \/ Unwound(t, failing, "failed")
  BY DEF Closes
<1> HIDE DEF failing
<1> QED BY <1>1, <1>2, <1>3, BudgetUnwound

LEMMA BudgetAbortEnds == ASSUME IInv, BudgetInv, NEW t \in Transfer, AbortEnds(t) PROVE BudgetInv'
<1>1. tr[t] \in Rec
  BY Windowed
<1> QED BY <1>1, BudgetUnwound DEF AbortEnds

LEMMA BudgetTurn == ASSUME IInv, BudgetInv, NEW t \in Transfer, Turn(t) PROVE BudgetInv'
<1>1. tr[t] \in Rec
  BY Windowed
<1>2. PICK r \in {[tr[t] EXCEPT !.acquired = "sent"], Refused(tr[t])} : tr' = [tr EXCEPT ![t] = r]
  <2>1. tr \in [Transfer -> Rec]
    BY Windowed
  <2> QED BY <2>1 DEF Turn
<1>3. Alike(tr[t], [tr[t] EXCEPT !.acquired = "sent"])
  BY <1>1 DEF Alike, Rec
<1>4. Alike(tr[t], r)
  BY <1>1, <1>2, <1>3, RefusedAlike
<1> QED BY <1>2, <1>4, OneMarked DEF Turn

LEMMA BudgetRequests ==
    ASSUME IInv, BudgetInv, NEW t \in Transfer, NEW rec \in Rec, NEW n \in Nat, Requests(t, rec, n),
           rec.window = tr[t].window, rec.inFlight = tr[t].inFlight, reserved' = reserved,
           tr[t].pc \notin {"idle", "done"}, Len(rec.inFlight) + n <= rec.window
    PROVE  BudgetInv'
<1> DEFINE asked == [i \in 1..n |-> [at |-> rec.requested + i - 1, is |-> "asked", from |-> 0]]
           flight == rec.inFlight \o asked
           r == [rec EXCEPT !.pc = "pulling", !.requested = @ + n, !.inFlight = @ \o asked]
<1>1. rec.requested \in Nat /\ rec.inFlight \in Seq(Chunk)
  BY DEF Rec
<1>2. asked \in [1..n -> Chunk]
  BY <1>1 DEF Chunk
<1>3. asked \in Seq(Chunk) /\ Len(asked) = n
  BY <1>2, SeqDef
<1>4. Len(flight) = Len(rec.inFlight) + n
  <2> DEFINE before == rec.inFlight
  <2>1. before \in Seq(Chunk)
    BY <1>1
  <2> HIDE DEF asked, before
  <2>2. Len(before \o asked) = Len(before) + Len(asked)
    BY <1>3, <2>1, ConcatProperties
  <2> QED BY <1>3, <2>2 DEF before
<1>5. tr' = [tr EXCEPT ![t] = r]
  BY DEF Requests
<1>6. r.pc = "pulling" /\ r.inFlight = flight /\ r.window = rec.window
  BY DEF Rec
<1> HIDE DEF r, flight, asked
<1>7. HeldBy(r) = Len(rec.inFlight) + n + 0
  BY <1>4, <1>6 DEF HeldBy
<1>8. HeldBy(r) <= r.window
  <2> DEFINE k == Len(rec.inFlight)
             w == rec.window
  <2>1. k \in Nat /\ w \in Nat /\ k + n <= w /\ HeldBy(r) = k + n + 0 /\ r.window = w
    BY <1>1, <1>6, <1>7, LenProperties DEF Rec
  <2> HIDE DEF k, w
  <2> QED BY <2>1
<1>9. WindowOK(r)
  BY <1>6, <1>8 DEF WindowOK, BudgetInv
<1> QED BY <1>5, <1>6, <1>9, OneStays

\* The race of a transfer ends.
LEMMA BudgetEnds ==
    ASSUME IInv, BudgetInv, NEW t \in Transfer, NEW rec \in Rec, reserved' = reserved,
           rec.window = tr[t].window, WindowOK(rec), rec.pc \notin {"idle", "done"},
           \/ tr' = [tr EXCEPT ![t] = Aborts(rec)]
           \/ tr' = [tr EXCEPT ![t] = Commits(rec)]
           \/ tr' = [tr EXCEPT ![t] = Aborts([rec EXCEPT !.committing = TRUE])]
    PROVE  BudgetInv'
<1> DEFINE ends == {Aborts(rec), Commits(rec), Aborts([rec EXCEPT !.committing = TRUE])}
<1>1. PICK q \in ends : tr' = [tr EXCEPT ![t] = q]
  OBVIOUS
<1>2. \A e \in ends : e.window = rec.window /\ WindowOK(e)
  BY EndHolds
<1> HIDE DEF ends
<1> QED BY <1>1, <1>2, OneStays

LEMMA BudgetOpened == ASSUME IInv, BudgetInv, NEW t \in Transfer, Opened(t) PROVE BudgetInv'
<1> DEFINE rec == tr[t]
           n == Min({rec.size, rec.window})
<1>1. /\ rec \in Rec /\ WindowOK(rec) /\ rec.window \in Nat /\ rec.pc = "opening"
      /\ Len(rec.inFlight) = 0 /\ reserved' = reserved
  BY Windowed DEF Opened, TransferOK
<1>2. CASE rec.size = 0
  <2>1. Committing(t, rec)
    BY <1>2 DEF Opened
  <2> QED BY <1>1, <2>1, BudgetEnds DEF Committing
<1>3. CASE rec.size # 0
  <2>1. n \in {rec.size, rec.window} /\ n <= rec.window
    <3>0. rec.size \in Nat
      BY <1>1 DEF Rec
    <3>1. \E x \in {rec.size, rec.window} : \A y \in {rec.size, rec.window} : x =< y
      BY <1>1, <3>0
    <3> HIDE DEF rec
    <3> QED BY <3>1 DEF Min
  <2>2. Requests(t, rec, n)
    BY <1>3 DEF Opened
  <2>3. n \in Nat
    BY <1>1, <2>1 DEF Rec
  <2> HIDE DEF n
  <2>4. Len(rec.inFlight) + n <= rec.window
    BY <1>1, <2>1, <2>3
  <2> QED BY <1>1, <2>2, <2>3, <2>4, BudgetRequests
<1> QED BY <1>2, <1>3

LEMMA BudgetPull == ASSUME IInv, BudgetInv, NEW t \in Transfer, Pull(t) PROVE BudgetInv'
<1> DEFINE rec == tr[t]
           next == Head(rec.inFlight)
           more == Append(rec.got, [at |-> next.at, session |-> next.from])
           r == [rec EXCEPT !.pc = "writing", !.inFlight = Tail(@), !.got = more]
<1>1. /\ rec \in Rec /\ WindowOK(rec) /\ rec.window \in Nat /\ rec.pc = "pulling"
      /\ rec.inFlight \in Seq(Chunk) /\ Len(rec.inFlight) \in Nat /\ Len(rec.inFlight) > 0
      /\ reserved' = reserved
  BY Windowed DEF Pull, TransferOK
<1>2. tr' = [tr EXCEPT ![t] = r] \/ tr' = [tr EXCEPT ![t] = Aborts(rec)]
  BY DEF Pull
<1>3. r.pc = "writing" /\ r.window = rec.window /\ r.inFlight = Tail(rec.inFlight)
  <2> HIDE DEF more
  <2> QED BY <1>1 DEF Rec
<1>4. WindowOK(r)
  <2>1. Len(Tail(rec.inFlight)) = Len(rec.inFlight) - 1
    BY <1>1, HeadTailProperties, EmptySeq
  <2> HIDE DEF r
  <2>2. HeldBy(r) = Len(Tail(rec.inFlight)) + 1
    BY <1>3 DEF HeldBy
  <2>3. HeldBy(rec) = Len(rec.inFlight) + 0
    BY <1>1 DEF HeldBy
  <2> DEFINE k == Len(rec.inFlight)
             w == rec.window
  <2>4. HeldBy(r) = (k - 1) + 1 /\ HeldBy(rec) = k + 0 /\ HeldBy(rec) <= w /\ k \in Nat /\ w \in Nat
    BY <1>1, <2>1, <2>2, <2>3 DEF WindowOK
  <2> HIDE DEF k, w
  <2>5. HeldBy(r) <= w
    BY <2>4
  <2> QED BY <1>1, <1>3, <2>5 DEF WindowOK, w
<1> HIDE DEF r
<1> QED BY <1>1, <1>2, <1>3, <1>4, OneStays, BudgetEnds

LEMMA BudgetWrote == ASSUME IInv, BudgetInv, NEW t \in Transfer, Wrote(t) PROVE BudgetInv'
<1> DEFINE old == tr[t]
           rec == [old EXCEPT !.written = @ + 1]
           n == IF rec.requested < rec.size THEN 1 ELSE 0
<1>1. /\ old \in Rec /\ WindowOK(old) /\ old.window \in Nat /\ old.pc = "writing"
      /\ Len(old.inFlight) \in Nat /\ reserved' = reserved
  BY Windowed DEF Wrote
<1>2. /\ rec \in Rec /\ rec.inFlight = old.inFlight /\ rec.window = old.window
      /\ rec.pc = old.pc
  <2>1. old.written + 1 \in Nat
    BY <1>1 DEF Rec
  <2>2. rec = [old EXCEPT !.written = old.written + 1]
    OBVIOUS
  <2> HIDE DEF rec
  <2> QED BY <1>1, <2>1, <2>2 DEF Rec
<1>3. Committing(t, rec) \/ Requests(t, rec, n)
  BY DEF Wrote
<1> HIDE DEF rec
<1>4. n \in {0, 1} /\ n \in Nat
  OBVIOUS
<1> HIDE DEF n
<1>5. CASE Committing(t, rec)
  <2>1. WindowOK(rec)
    BY <1>1, <1>2 DEF WindowOK, HeldBy
  <2> QED BY <1>1, <1>2, <1>5, <2>1, BudgetEnds DEF Committing
<1>6. CASE Requests(t, rec, n)
  <2>1. HeldBy(old) = Len(old.inFlight) + 1 /\ HeldBy(old) <= old.window
    BY <1>1 DEF HeldBy, WindowOK
  <2> DEFINE k == Len(rec.inFlight)
             w == rec.window
  <2>2. k \in Nat /\ w \in Nat /\ k + 1 <= w
    BY <1>1, <1>2, <2>1
  <2>3. k + n <= w
    <3> HIDE DEF k, w
    <3> QED BY <1>4, <2>2
  <2> QED BY <1>1, <1>2, <1>4, <1>6, <2>3, BudgetRequests
<1> QED BY <1>3, <1>5, <1>6

LEMMA BudgetReceive == ASSUME IInv, BudgetInv, Receive PROVE BudgetInv'
<1> DEFINE msg == Head(reply)
           t == msg.to
<1>1. msg \in Reply
  <2>1. reply \in Seq(Reply) /\ reply # <<>>
    BY DEF IInv, MessagesOK, Receive
  <2> QED BY <2>1, HeadTailProperties
<1>2. reserved' = reserved
  BY DEF Receive
<1>3. Claims(t, msg.lease) \/ tr' = [tr EXCEPT ![t] = Refused(@)] \/ Chunked(t, msg)
  BY DEF Receive
<1> HIDE DEF msg
<1>4. t \in Transfer /\ msg.lease \in Nat /\ msg.session \in Nat
  BY <1>1 DEF Reply
<1>5. /\ tr \in [Transfer -> Rec] /\ tr[t] \in Rec /\ WindowOK(tr[t])
      /\ tr[t].inFlight \in Seq(Chunk) /\ Len(tr[t].inFlight) \in Nat
  BY <1>4, Windowed
<1> HIDE DEF t
<1>6. CASE Claims(t, msg.lease)
  <2> DEFINE claimed == [tr[t] EXCEPT !.acquired = "granted", !.lease = msg.lease]
             closed == [claimed EXCEPT !.leaseClosed = TRUE]
  <2>1. Alike(tr[t], claimed)
    BY <1>4, <1>5 DEF Alike, Rec
  <2>2. tr' = [tr EXCEPT ![t] = claimed] \/ tr' = [tr EXCEPT ![t] = closed]
    BY <1>5, <1>6 DEF Claims, Released
  <2> HIDE DEF claimed
  <2>3. Alike(tr[t], closed)
    BY <2>1 DEF Alike, Rec
  <2> HIDE DEF closed
  <2> QED BY <1>2, <1>4, <2>1, <2>2, <2>3, OneMarked
<1>7. CASE tr' = [tr EXCEPT ![t] = Refused(@)]
  <2>1. tr' = [tr EXCEPT ![t] = Refused(tr[t])]
    BY <1>5, <1>7
  <2> QED BY <1>2, <1>4, <1>5, <2>1, RefusedAlike, OneMarked
<1>8. CASE Chunked(t, msg)
  <2> DEFINE flight == tr[t].inFlight
             is == IF Valid(t, msg) THEN "here" ELSE "bad"
             marked == [i \in DOMAIN flight |->
                           IF flight[i].at # msg.at THEN flight[i]
                           ELSE [flight[i] EXCEPT !.is = is, !.from = msg.session]]
             r == [tr[t] EXCEPT !.inFlight = marked]
  <2>1. tr' = [tr EXCEPT ![t] = r]
    BY <1>5, <1>8 DEF Chunked
  <2>2. Len(marked) = Len(flight)
    <3>1. Len(flight) \in Nat /\ DOMAIN flight = 1..Len(flight)
      BY <1>5, LenProperties
    <3> HIDE DEF flight, is
    <3>2. DOMAIN marked = 1..Len(flight)
      BY <3>1
    <3>3. marked \in Seq({marked[i] : i \in 1..Len(flight)})
      <4>1. marked \in [1..Len(flight) -> {marked[i] : i \in 1..Len(flight)}]
        BY <3>1
      <4> HIDE DEF marked
      <4> QED BY <3>1, <4>1, SeqDef
    <3> HIDE DEF marked
    <3> QED BY <3>1, <3>2, <3>3, LenProperties
  <2> HIDE DEF marked
  <2>3. r.pc = tr[t].pc /\ r.window = tr[t].window /\ r.inFlight = marked
    BY <1>5 DEF Rec
  <2> HIDE DEF r
  <2>4. WindowOK(r)
    BY <1>5, <2>2, <2>3 DEF WindowOK, HeldBy
  <2> QED BY <1>2, <1>4, <2>1, <2>3, <2>4, OneStays
<1> QED BY <1>3, <1>6, <1>7, <1>8

LEMMA BudgetEnded ==
    ASSUME IInv, BudgetInv, NEW cancels \in BOOLEAN, tr' = Rejected(cancels), reserved' = reserved
    PROVE  BudgetInv'
BY RejectedMarked, MarkedStay

LEMMA BudgetCancel == ASSUME IInv, BudgetInv, NEW t \in Transfer, Cancel(t) PROVE BudgetInv'
<1> DEFINE r == FailedBy(tr[t], TRUE)
<1>1. tr \in [Transfer -> Rec] /\ tr[t] \in Rec
  BY Windowed
<1>2. Alike(tr[t], r) /\ tr' = [tr EXCEPT ![t] = r]
  BY <1>1, FailedAlike DEF Cancel
<1> HIDE DEF r
<1> QED BY <1>2, OneMarked DEF Cancel

LEMMA BudgetAborts ==
    ASSUME IInv, BudgetInv, NEW t \in Transfer, Interrupted(t) \/ WriteFails(t) PROVE BudgetInv'
<1>1. /\ tr[t].pc \notin {"idle", "done"} /\ reserved' = reserved
      /\ tr' = [tr EXCEPT ![t] = Aborts(tr[t])]
  <2>1. tr \in [Transfer -> Rec]
    BY Windowed
  <2> QED BY <2>1 DEF Interrupted, WriteFails, Racing
<1> DEFINE rec == tr[t]
<1>2. /\ rec \in Rec /\ WindowOK(rec) /\ rec.window = tr[t].window
      /\ rec.pc \notin {"idle", "done"}
      /\ tr' = [tr EXCEPT ![t] = Aborts(rec)]
  BY <1>1, Windowed
<1> HIDE DEF rec
<1> QED BY <1>1, <1>2, BudgetEnds

LEMMA BudgetInit == Init => BudgetInv
<1> SUFFICES ASSUME Init PROVE BudgetInv
  OBVIOUS
<1>1. \A t \in Transfer : tr[t] = NoTransfer
  BY DEF Init
<1>2. WindowOK(NoTransfer) /\ NoTransfer.window = 0
  BY EmptyTyped, TransferAssumption DEF WindowOK, HeldBy, NoTransfer
<1>3. PlacesOf(tr) = {}
  BY <1>1, <1>2, TransferAssumption DEF PlacesOf
<1>4. reserved = 0 /\ Budget \in Nat /\ Cardinality({}) = 0
  BY FS_EmptySet, TransferAssumption DEF Init
<1>5. reserved = Cardinality(PlacesOf(tr)) /\ reserved <= Budget
  BY <1>3, <1>4
<1> QED BY <1>1, <1>2, <1>5 DEF BudgetInv

LEMMA BudgetNext == IInv /\ BudgetInv /\ [Next]_transferVars => BudgetInv'
<1> SUFFICES ASSUME IInv, BudgetInv, [Next]_transferVars PROVE BudgetInv'
  OBVIOUS
<1>1. CASE UNCHANGED transferVars \/ Serve
  <2>1. tr' = tr /\ reserved' = reserved
    BY <1>1 DEF transferVars, Serve
  <2> QED BY <2>1, PlacesStay DEF BudgetInv
<1>2. CASE \E t \in Transfer :
              \/ \E size \in 0..MaxSize, window \in Windows, aborted \in BOOLEAN :
                    Start(t, size, window, aborted)
              \/ Turn(t) \/ Opened(t) \/ Pull(t) \/ Wrote(t) \/ WriteFails(t)
              \/ Cleanup(t) \/ Cancel(t)
  BY <1>2, BudgetStart, BudgetTurn, BudgetOpened, BudgetPull, BudgetWrote, BudgetAborts,
     BudgetCloses, BudgetAbortEnds, BudgetCancel DEF Cleanup
<1>3. CASE Restart \/ WorkerDies
  BY <1>3, BudgetEnded DEF Restart, WorkerDies
<1> QED BY <1>1, <1>2, <1>3, BudgetReceive DEF Next

(* However downloads begin, fail and end, what they may hold is what is      *)
(* reserved, within the budget, and none holds more than it may              *)
(* (browser-python.ts reserveTransfer(), streamArtifact()).                  *)
THEOREM BudgetKept == Spec => []WithinBudget
<1>1. BudgetInv => WithinBudget
  BY DEF BudgetInv, WithinBudget, WindowOK, HeldBy, Held, PlacesOf, Places
<1>2. IInv /\ BudgetInv /\ [Next]_transferVars => BudgetInv'
  BY BudgetNext
<1> QED BY <1>1, <1>2, BudgetInit, TransferInvariant, PTL DEF Spec
=============================================================================
