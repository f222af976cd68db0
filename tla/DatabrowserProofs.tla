-------------------------- MODULE DatabrowserProofs --------------------------
(***************************************************************************)
(* Proofs about the data browser's search and its lists, for any flavours, *)
(* selections, configurations and links, and any number of changes.        *)
(*                                                                         *)
(* An event is made of operators that each take a page to a page, and Rest *)
(* renumbers what is left.  So what is said of a page is an operator on    *)
(* it: what it lasts through a change of the query (Lasting), and what     *)
(* holds once the query can be sent (Fits).                                *)
(***************************************************************************)
EXTENDS MCDatabrowser, FiniteSetTheorems, SequenceTheorems, WellFoundedInduction, TLAPS

Names == Flavour \cup {"none", "junk"}
WireRec == [flavour : Flavour, sel : Selection, url : Names, key : {"served", "baked"}]
PageRec == [of : WireRec, at : Nat]
ReqRec == [kind : {"search", "append", "recount"}, id : Nat, rev : Nat, start : Nat,
           wire : WireRec]
DbRec == [flavour : Flavour, sel : Selection, url : Names, link : Flavour \cup {NoFlavour},
          search : {"loading", "loaded", "empty", "error"},
          rows : Seq(PageRec), facets : WireRec \cup {NoWire},
          attributes : Flavour \cup {NoFlavour},
          rev : Nat, rowsRev : Nat, lastId : Nat, lastRecount : Nat, facetsId : Nat,
          timer : BOOLEAN, sent : SUBSET ReqRec, held : BOOLEAN, settled : BOOLEAN,
          started : BOOLEAN, reconciled : BOOLEAN, overviewFailed : BOOLEAN,
          maps : SUBSET Flavour, listed : SUBSET Flavour]
CfgRec == [flavour : Flavour, scoped : BOOLEAN, waits : BOOLEAN,
           offered : [BOOLEAN -> SUBSET Flavour]]
LoadRec == [at : {"idle", "token", "fetch"}, shown : BOOLEAN, begun : BOOLEAN,
            sent : BOOLEAN, inStep : BOOLEAN]

\* Nothing is newer than the query, and no id is given twice.
Typed(d) ==
    /\ d \in DbRec /\ IsFiniteSet(d.sent)
    /\ d.rowsRev <= d.rev /\ \A r \in d.sent : r.rev <= d.rev
    /\ \A r, s \in d.sent : r.id = s.id => r = s

AllRows(d, wire) == \A i \in DOMAIN d.rows : d.rows[i].of = wire
KeyedRows(d) == \A i \in DOMAIN d.rows : Keyed(d.rows[i].of)

(* What is true of a page whatever becomes of its query: its rows are the    *)
(* pages of one query, and a page that is asked for is the next of these.   *)
RowsInOrder(d) ==
    KeyedRows(d) => \A i \in DOMAIN d.rows : d.rows[i] = [of |-> d.rows[1].of, at |-> i - 1]

Continues(d, r) ==
    /\ r.kind = "search" => r.start = 0
    /\ r.kind = "append" =>
          /\ d.rowsRev = d.rev /\ r.start = Len(d.rows)
          /\ Keyed(r.wire) /\ KeyedRows(d) => AllRows(d, r.wire)

Lasting(d) == RowsInOrder(d) /\ \A r \in Awaited(d) : Continues(d, r)

(* What is true of a page with respect to its query, `wire`: an answer that  *)
(* is still awaited is one to it, and what is shown is of it, unless it is   *)
(* of an earlier revision and a search is due.                               *)
Answers(d, r, wire) ==
    /\ r.wire = wire
    /\ r.kind # "recount" /\ r.id < d.facetsId => d.facets = wire
    /\ r.kind = "append" => d.facets = wire /\ AllRows(d, wire)

Shown(d, wire) ==
    d.search \in {"loaded", "empty"} =>
       /\ d.timer \/ d.rowsRev = d.rev
       /\ d.rowsRev = d.rev => d.facets = wire /\ AllRows(d, wire)

Fits(d) == Keyed(Wire(d)) => Shown(d, Wire(d)) /\ \A r \in Awaited(d) : Answers(d, r, Wire(d))

Good(d) == Typed(d) /\ Lasting(d) /\ Fits(d)

LoadsOK == load \in [Lists -> LoadRec] /\ ListsInStep

IInv ==
    /\ cfg \in CfgRec /\ auth \in [signed : BOOLEAN, flips : Nat] /\ changes \in Nat
    /\ LoadsOK
    /\ Good(db) /\ db.sent = Awaited(db)

-----------------------------------------------------------------------------
(* Numbers.                                                                 *)

\* A finite set of numbers that is not empty has a largest member, and Max is it.
LEMMA MaxOf ==
    ASSUME NEW S \in SUBSET Nat, IsFiniteSet(S), S # {}
    PROVE  Max(S) \in S /\ \A y \in S : y <= Max(S)
<1> DEFINE Bad == {n \in Nat : \E T \in SUBSET Nat :
                     /\ IsFiniteSet(T) /\ Cardinality(T) = n /\ T # {}
                     /\ ~ \E x \in T : \A y \in T : y <= x}
<1>1. ASSUME Bad # {} PROVE FALSE
  <2>1. PICK n \in Bad : \A m \in Bad : ~(<<m, n>> \in OpToRel(<, Nat))
    <3>1. IsWellFoundedOn(OpToRel(<, Nat), Nat)
      BY NatLessThanWellFounded
    <3> HIDE DEF Bad
    <3>2. Bad \subseteq Nat
      BY DEF Bad
    <3> QED BY <1>1, <3>1, <3>2, WFMin
  <2>2. \A m \in Bad : ~(m < n)
    BY <2>1 DEF OpToRel
  <2>3. PICK T \in SUBSET Nat :
              /\ IsFiniteSet(T) /\ Cardinality(T) = n /\ T # {}
              /\ ~ \E x \in T : \A y \in T : y <= x
    BY <2>1
  <2>4. PICK x \in T : TRUE
    BY <2>3
  <2>5. IsFiniteSet(T \ {x}) /\ Cardinality(T \ {x}) = n - 1
    BY <2>3, <2>4, FS_RemoveElement
  <2>6. n - 1 \in Nat /\ n - 1 < n
    BY <2>5, FS_CardinalityType
  <2>7. n - 1 \notin Bad
    BY <2>2, <2>6
  <2>8. CASE T \ {x} = {}
    BY <2>3, <2>4, <2>8
  <2>9. CASE T \ {x} # {}
    <3>1. \E y \in T \ {x} : \A z \in T \ {x} : z <= y
      BY <2>5, <2>6, <2>7, <2>9
    <3>2. PICK y \in T \ {x} : \A z \in T \ {x} : z <= y
      BY <3>1
    <3>3. CASE x <= y
      BY <2>3, <3>2, <3>3
    <3>4. CASE ~(x <= y)
      BY <2>3, <2>4, <3>2, <3>4
    <3> QED BY <3>3, <3>4
  <2> QED BY <2>8, <2>9
<1>2. Cardinality(S) \in Nat
  BY FS_CardinalityType
<1>3. \E x \in S : \A y \in S : y <= x
  BY <1>1, <1>2
<1>4. \E x \in S : \A y \in S : x >= y
  BY <1>3
<1> QED BY <1>4 DEF Max

(* How many of a set come before one: what Rest gives in place of a number. *)
RankIn(S, i) == Cardinality({j \in S : j < i})

\* The order of the members is that of their ranks.
LEMMA Ranked ==
    ASSUME NEW S \in SUBSET Nat, IsFiniteSet(S), NEW i \in S, NEW k \in S
    PROVE  /\ RankIn(S, i) \in Nat /\ RankIn(S, k) \in Nat
           /\ i < k <=> RankIn(S, i) < RankIn(S, k)
           /\ i <= k <=> RankIn(S, i) <= RankIn(S, k)
           /\ i = k <=> RankIn(S, i) = RankIn(S, k)
<1> DEFINE B(n) == {j \in S : j < n}
<1>1. \A n \in S : IsFiniteSet(B(n)) /\ Cardinality(B(n)) \in Nat
  <2> TAKE n \in S
  <2>1. B(n) \in SUBSET S
    OBVIOUS
  <2> QED BY <2>1, FS_Subset, FS_CardinalityType
<1>2. ASSUME NEW m \in S, NEW n \in S, m < n
      PROVE  Cardinality(B(m)) < Cardinality(B(n))
  <2>a. \A j \in S : j < m => j < n
    BY <1>2
  <2>b. m \in B(n) /\ m \notin B(m)
    BY <1>2
  <2>1. B(m) \in SUBSET B(n) /\ m \in B(n) /\ m \notin B(m)
    BY <2>a, <2>b
  <2>2. IsFiniteSet(B(n))
    BY <1>1
  <2>3. B(m) # B(n)
    BY <2>1
  <2> HIDE DEF B
  <2>4. Cardinality(B(m)) <= Cardinality(B(n)) /\ Cardinality(B(m)) # Cardinality(B(n))
    BY <2>1, <2>2, <2>3, FS_Subset
  <2> QED BY <2>4, <1>1
<1>3. RankIn(S, i) = Cardinality(B(i)) /\ RankIn(S, k) = Cardinality(B(k))
  BY DEF RankIn
<1> HIDE DEF B
<1>4. i \in Nat /\ k \in Nat
  OBVIOUS
<1>5. \/ i < k /\ Cardinality(B(i)) < Cardinality(B(k))
      \/ i = k
      \/ k < i /\ Cardinality(B(k)) < Cardinality(B(i))
  BY <1>2, <1>4
<1> QED BY <1>1, <1>3, <1>4, <1>5

\* What is next is newer than all there is.
LEMMA NextIsNewer ==
    ASSUME NEW d, Typed(d)
    PROVE  /\ Ids(d) \in SUBSET Nat /\ IsFiniteSet(Ids(d))
           /\ NextId(d) \in Nat /\ \A i \in Ids(d) : i < NextId(d)
<1>1. d.sent \in SUBSET ReqRec /\ IsFiniteSet(d.sent)
      /\ d.lastId \in Nat /\ d.lastRecount \in Nat /\ d.facetsId \in Nat
  BY DEF Typed, DbRec
<1>2. {r.id : r \in d.sent} \in SUBSET Nat
  BY <1>1 DEF ReqRec
<1>3. IsFiniteSet({r.id : r \in d.sent})
  <2> DEFINE f == [r \in d.sent |-> r.id]
             I == {r.id : r \in d.sent}
  <2>1. f \in Surjection(d.sent, I)
    BY DEF Surjection
  <2> HIDE DEF f, I
  <2>2. IsFiniteSet(I)
    BY <1>1, <2>1, FS_Surjection
  <2> QED BY <2>2 DEF I
<1>4. IsFiniteSet({d.lastId, d.lastRecount, d.facetsId})
  <2>1. IsFiniteSet({d.lastId})
    BY FS_Singleton
  <2>2. IsFiniteSet({d.lastId} \cup {d.lastRecount})
    BY <2>1, FS_AddElement
  <2>3. IsFiniteSet(({d.lastId} \cup {d.lastRecount}) \cup {d.facetsId})
    BY <2>2, FS_AddElement
  <2>4. ({d.lastId} \cup {d.lastRecount}) \cup {d.facetsId}
            = {d.lastId, d.lastRecount, d.facetsId}
    OBVIOUS
  <2> QED BY <2>3, <2>4
<1>5. IsFiniteSet(Ids(d)) /\ Ids(d) \in SUBSET Nat /\ Ids(d) # {}
  <2>1. IsFiniteSet({d.lastId, d.lastRecount, d.facetsId} \cup {r.id : r \in d.sent})
    BY <1>3, <1>4, FS_Union
  <2> QED BY <1>1, <1>2, <2>1 DEF Ids
<1>6. Max(Ids(d)) \in Ids(d) /\ \A i \in Ids(d) : i <= Max(Ids(d))
  BY <1>5, MaxOf
<1> QED BY <1>5, <1>6 DEF NextId

\* A query is sent as a wire query; it is keyed if it may be sent.
LEMMA WireIs ==
    ASSUME NEW d \in DbRec, cfg \in CfgRec
    PROVE  Wire(d) \in WireRec /\ (Keyed(Wire(d)) <=> CanScopedSearch(d))
<1>1. d.flavour \in Flavour /\ d.sel \in Selection /\ d.url \in Names /\ d.maps \subseteq Flavour
  BY DEF DbRec
<1>2. cfg.scoped \in BOOLEAN
  BY DEF CfgRec
<1>3. Wire(d) \in WireRec
  BY <1>1 DEF Wire, WireRec
<1>4. Wire(d).flavour = d.flavour
      /\ Wire(d).key = (IF cfg.scoped /\ d.flavour \in d.maps THEN "served" ELSE "baked")
  BY DEF Wire
<1>5. Keyed(Wire(d)) <=> (cfg.scoped => d.flavour \in Builtin \/ d.flavour \in d.maps)
  BY <1>2, <1>4 DEF Keyed
<1>6. CanScopedSearch(d) <=> (cfg.scoped => d.flavour \in Builtin \/ d.flavour \in d.maps)
  BY <1>2 DEF CanScopedSearch, HasMap
<1> QED BY <1>3, <1>5, <1>6

(* A page that keeps its rows and its revision, and awaits nothing new.      *)
LEMMA CalmLasts ==
    ASSUME NEW d, NEW e, Lasting(d), e.rows = d.rows, e.rowsRev = d.rowsRev, e.rev = d.rev,
           Awaited(e) \subseteq Awaited(d)
    PROVE  Lasting(e)
BY DEF Lasting, RowsInOrder, Continues, KeyedRows, AllRows

\* The same with its query, its facets and its timer.
LEMMA CalmFits ==
    ASSUME NEW d, NEW e, Fits(d), e.rows = d.rows, e.rowsRev = d.rowsRev, e.rev = d.rev,
           Awaited(e) \subseteq Awaited(d), Wire(e) = Wire(d),
           e.facets = d.facets, e.facetsId = d.facetsId, e.timer = d.timer,
           e.search = d.search \/ e.search \notin {"loaded", "empty"}
    PROVE  Fits(e)
<1> SUFFICES ASSUME Keyed(Wire(e))
             PROVE  Shown(e, Wire(e)) /\ \A r \in Awaited(e) : Answers(e, r, Wire(e))
  BY DEF Fits
<1>1. Shown(d, Wire(d)) /\ \A r \in Awaited(d) : Answers(d, r, Wire(d))
  BY DEF Fits
<1>2. Shown(e, Wire(d))
  BY <1>1 DEF Shown, AllRows
<1>3. \A r \in Awaited(e) : Answers(e, r, Wire(d))
  BY <1>1 DEF Answers, AllRows
<1> QED BY <1>2, <1>3

\* What is awaited depends on the numbers of the page alone.
LEMMA AwaitedOf ==
    ASSUME NEW d, NEW e, e.sent = d.sent, e.rev = d.rev, e.lastId = d.lastId,
           e.lastRecount = d.lastRecount, e.facetsId = d.facetsId
    PROVE  Awaited(e) = Awaited(d)
BY DEF Awaited, Current, RecountCurrent

(* A page that keeps what properties are about keeps all that is said of it. *)
LEMMA CalmGood ==
    ASSUME NEW d, NEW e, Good(d), e \in DbRec,
           e.rows = d.rows, e.rowsRev = d.rowsRev, e.rev = d.rev, e.sent = d.sent,
           e.lastId = d.lastId, e.lastRecount = d.lastRecount, e.facetsId = d.facetsId,
           e.facets = d.facets, e.timer = d.timer, Wire(e) = Wire(d),
           e.search = d.search \/ e.search \notin {"loaded", "empty"}
    PROVE  Good(e)
<1>1. Awaited(e) = Awaited(d)
  BY AwaitedOf
<1>2. Typed(e)
  BY DEF Good, Typed
<1>3. Lasting(e)
  BY <1>1, CalmLasts DEF Good
<1>4. Fits(e)
  BY <1>1, CalmFits DEF Good
<1> QED BY <1>2, <1>3, <1>4 DEF Good

-----------------------------------------------------------------------------
(* Sending.                                                                 *)

Sends(d, r, e) == e = [d EXCEPT !.sent = @ \cup {r}, !.lastId = r.id, !.search = "loading"]

\* A search that is sent is the one that is awaited.
LEMMA Sending ==
    ASSUME NEW d, Typed(d), NEW r \in ReqRec, r.kind # "recount", r.id = NextId(d),
           r.rev = d.rev, NEW e, Sends(d, r, e)
    PROVE  /\ Typed(e) /\ Awaited(e) = {r} /\ e.search = "loading"
           /\ e.rows = d.rows /\ e.rowsRev = d.rowsRev /\ e.rev = d.rev
           /\ e.facets = d.facets /\ e.facetsId = d.facetsId /\ Wire(e) = Wire(d)
<1>1. d \in DbRec
  BY DEF Typed
<1>2. /\ e \in DbRec /\ e.search = "loading"
      /\ e.rows = d.rows /\ e.rowsRev = d.rowsRev /\ e.rev = d.rev
      /\ e.facets = d.facets /\ e.facetsId = d.facetsId
      /\ e.flavour = d.flavour /\ e.sel = d.sel /\ e.url = d.url /\ e.maps = d.maps
      /\ e.sent = d.sent \cup {r} /\ e.lastId = r.id /\ e.lastRecount = d.lastRecount
  <2> DEFINE S == d.sent \cup {r}
             n == r.id
  <2>1. S \in SUBSET ReqRec /\ n \in Nat /\ e = [d EXCEPT !.sent = S, !.lastId = n, !.search = "loading"]
    BY <1>1 DEF DbRec, ReqRec, Sends
  <2> HIDE DEF S, n
  <2>3. e \in DbRec
    BY <1>1, <2>1 DEF DbRec
  <2>2. /\ e \in DbRec /\ e.search = "loading"
        /\ e.rows = d.rows /\ e.rowsRev = d.rowsRev /\ e.rev = d.rev
        /\ e.facets = d.facets /\ e.facetsId = d.facetsId
        /\ e.flavour = d.flavour /\ e.sel = d.sel /\ e.url = d.url /\ e.maps = d.maps
        /\ e.sent = S /\ e.lastId = n /\ e.lastRecount = d.lastRecount
    BY <1>1, <2>1 DEF DbRec
  <2> QED BY <2>2 DEF S, n
<1>3. Wire(e) = Wire(d)
  BY <1>2 DEF Wire
<1>4. d.sent \subseteq ReqRec /\ d.rev \in Nat /\ d.lastRecount \in Nat /\ d.facetsId \in Nat
  BY <1>1 DEF DbRec
<1>5. \A s \in d.sent : s.id \in Nat /\ s.id < r.id
  BY <1>4, NextIsNewer DEF Ids, ReqRec
<1>6. d.lastRecount < r.id
  BY NextIsNewer DEF Ids
<1>7. r.id \in Nat
  BY DEF ReqRec
<1>8. Typed(e)
  <2>1. IsFiniteSet(e.sent)
    BY <1>2, FS_AddElement DEF Typed
  <2>2. e.rowsRev <= e.rev /\ \A s \in e.sent : s.rev <= e.rev
    BY <1>2, <1>4 DEF Typed
  <2>3. \A s, t \in e.sent : s.id = t.id => s = t
    BY <1>2, <1>5, <1>7 DEF Typed
  <2> QED BY <1>2, <2>1, <2>2, <2>3 DEF Typed
<1>9. Awaited(e) = {r}
  <2>1. r \in Awaited(e)
    BY <1>2 DEF Awaited, Current
  <2>2. \A s \in d.sent : s \notin Awaited(e)
    BY <1>2, <1>5, <1>7 DEF Awaited, Current, RecountCurrent
  <2> QED BY <1>2, <2>1, <2>2 DEF Awaited
<1> QED BY <1>2, <1>3, <1>8, <1>9

LEMMA RequestIs ==
    ASSUME NEW d, Typed(d), cfg \in CfgRec, NEW kind \in {"search", "append", "recount"},
           NEW start \in Nat
    PROVE  /\ Request(d, kind, start) \in ReqRec
           /\ Request(d, kind, start).kind = kind /\ Request(d, kind, start).id = NextId(d)
           /\ Request(d, kind, start).rev = d.rev /\ Request(d, kind, start).start = start
           /\ Request(d, kind, start).wire = Wire(d)
<1>1. NextId(d) \in Nat
  BY NextIsNewer
<1>2. Wire(d) \in WireRec
  BY WireIs DEF Typed
<1>3. d.rev \in Nat
  BY DEF Typed, DbRec
<1> QED BY <1>1, <1>2, <1>3 DEF Request, ReqRec

\* A search starts a page anew, whatever the page was like.
LEMMA SearchIsGood ==
    ASSUME NEW d, Typed(d), Lasting(d), cfg \in CfgRec
    PROVE  Good(RunSearch(d, FALSE))
<1> DEFINE r == Request(d, "search", 0)
           e == RunSearch(d, FALSE)
<1>1. /\ r \in ReqRec /\ r.kind = "search" /\ r.id = NextId(d)
      /\ r.rev = d.rev /\ r.start = 0 /\ r.wire = Wire(d)
  BY RequestIs
<1>2. Sends(d, r, e) /\ r.kind # "recount"
  BY <1>1 DEF RunSearch, Sends
<1> HIDE DEF r, e
<1>3. /\ Typed(e) /\ Awaited(e) = {r} /\ e.search = "loading"
      /\ e.rows = d.rows /\ e.rowsRev = d.rowsRev /\ e.rev = d.rev
      /\ e.facets = d.facets /\ e.facetsId = d.facetsId /\ Wire(e) = Wire(d)
  BY <1>1, <1>2, Sending
<1>4. Lasting(e)
  <2>1. RowsInOrder(e)
    BY <1>3 DEF Lasting, RowsInOrder, KeyedRows
  <2>2. Continues(e, r)
    BY <1>1 DEF Continues
  <2> QED BY <1>3, <2>1, <2>2 DEF Lasting
<1>5. Fits(e)
  <2>1. Shown(e, Wire(e))
    BY <1>3 DEF Shown
  <2>a. d.facetsId \in Ids(d) /\ d.facetsId \in Nat
    BY DEF Ids, Typed, DbRec
  <2>2. ~(r.id < e.facetsId)
    BY <1>1, <1>3, <2>a, NextIsNewer
  <2>3. Answers(e, r, Wire(e))
    BY <1>1, <1>3, <2>2 DEF Answers
  <2> QED BY <1>3, <2>1, <2>3 DEF Fits
<1>6. Good(e)
  BY <1>3, <1>4, <1>5 DEF Good
<1> QED BY <1>6 DEF e

\* A further page is asked for where the rows that are shown end.
LEMMA AppendIsGood ==
    ASSUME NEW d, Good(d), cfg \in CfgRec, d.search = "loaded", d.rowsRev = d.rev
    PROVE  Good(RunSearch(d, TRUE))
<1> DEFINE r == Request(d, "append", Len(d.rows))
           e == RunSearch(d, TRUE)
<1>0. Typed(d) /\ Lasting(d) /\ Fits(d) /\ Len(d.rows) \in Nat
  BY DEF Good, Typed, DbRec
<1>1. /\ r \in ReqRec /\ r.kind = "append" /\ r.id = NextId(d)
      /\ r.rev = d.rev /\ r.start = Len(d.rows) /\ r.wire = Wire(d)
  BY <1>0, RequestIs
<1>2. Sends(d, r, e) /\ r.kind # "recount"
  BY <1>1 DEF RunSearch, Sends
<1> HIDE DEF r, e
<1>3. /\ Typed(e) /\ Awaited(e) = {r} /\ e.search = "loading"
      /\ e.rows = d.rows /\ e.rowsRev = d.rowsRev /\ e.rev = d.rev
      /\ e.facets = d.facets /\ e.facetsId = d.facetsId /\ Wire(e) = Wire(d)
  BY <1>0, <1>1, <1>2, Sending
<1>4. Keyed(Wire(d)) => d.facets = Wire(d) /\ AllRows(d, Wire(d))
  BY <1>0 DEF Fits, Shown
<1>5. Lasting(e)
  <2>1. RowsInOrder(e)
    BY <1>0, <1>3 DEF Lasting, RowsInOrder, KeyedRows
  <2>2. Continues(e, r)
    BY <1>1, <1>3, <1>4 DEF Continues, AllRows, KeyedRows
  <2> QED BY <1>3, <2>1, <2>2 DEF Lasting
<1>6. Fits(e)
  <2>1. Shown(e, Wire(e))
    BY <1>3 DEF Shown
  <2>a. d.facetsId \in Ids(d) /\ d.facetsId \in Nat
    BY <1>0 DEF Ids, Typed, DbRec
  <2>2. ~(r.id < e.facetsId)
    BY <1>0, <1>1, <1>3, <2>a, NextIsNewer
  <2>3. Keyed(Wire(e)) => Answers(e, r, Wire(e))
    BY <1>1, <1>3, <1>4, <2>2 DEF Answers, AllRows
  <2> QED BY <1>3, <2>1, <2>3 DEF Fits
<1>7. Good(e)
  BY <1>3, <1>5, <1>6 DEF Good
<1> QED BY <1>7 DEF e

\* A recount that is sent replaces the recounts before it, and nothing else.
LEMMA RecountIsGood ==
    ASSUME NEW d, Good(d), cfg \in CfgRec
    PROVE  Good(RunRecount(d))
<1> DEFINE r == Request(d, "recount", 0)
           e == RunRecount(d)
           S == d.sent \cup {r}
           n == r.id
<1>0. Typed(d) /\ Lasting(d) /\ Fits(d)
  BY DEF Good
<1>1. /\ r \in ReqRec /\ r.kind = "recount" /\ r.id = NextId(d)
      /\ r.rev = d.rev /\ r.wire = Wire(d)
  BY <1>0, RequestIs
<1>2. e = [d EXCEPT !.sent = S, !.lastRecount = n]
  BY DEF RunRecount
<1>3. d \in DbRec /\ S \in SUBSET ReqRec /\ n \in Nat
  BY <1>0, <1>1 DEF Typed, DbRec, ReqRec
<1> HIDE DEF r, e, S, n
<1>4. /\ e \in DbRec /\ e.search = d.search /\ e.timer = d.timer
      /\ e.rows = d.rows /\ e.rowsRev = d.rowsRev /\ e.rev = d.rev
      /\ e.facets = d.facets /\ e.facetsId = d.facetsId /\ e.lastId = d.lastId
      /\ e.flavour = d.flavour /\ e.sel = d.sel /\ e.url = d.url /\ e.maps = d.maps
      /\ e.sent = S /\ e.lastRecount = n
  BY <1>2, <1>3 DEF DbRec
<1>5. Wire(e) = Wire(d)
  BY <1>4 DEF Wire
<1>6. d.sent \subseteq ReqRec /\ d.rev \in Nat /\ d.lastId \in Nat /\ d.facetsId \in Nat
  BY <1>3 DEF DbRec
<1>7. \A s \in d.sent : s.id \in Nat /\ s.id < n
  BY <1>0, <1>1, <1>6, NextIsNewer DEF Ids, ReqRec, n
<1>8. n = r.id /\ S = d.sent \cup {r}
  BY DEF n, S
<1>9. Typed(e)
  <2>1. IsFiniteSet(e.sent)
    BY <1>0, <1>4, <1>8, FS_AddElement DEF Typed
  <2>2. e.rowsRev <= e.rev /\ \A s \in e.sent : s.rev <= e.rev
    BY <1>0, <1>1, <1>4, <1>6, <1>8 DEF Typed
  <2>3. \A s, t \in e.sent : s.id = t.id => s = t
    BY <1>0, <1>3, <1>4, <1>7, <1>8 DEF Typed
  <2> QED BY <1>4, <2>1, <2>2, <2>3 DEF Typed
<1>10. \A s \in Awaited(e) : s = r \/ s \in Awaited(d)
  BY <1>3, <1>4, <1>7, <1>8 DEF Awaited, Current, RecountCurrent
<1>11. Lasting(e)
  <2>1. RowsInOrder(e)
    BY <1>0, <1>4 DEF Lasting, RowsInOrder, KeyedRows
  <2>2. \A s \in Awaited(e) : Continues(e, s)
    BY <1>0, <1>1, <1>4, <1>10 DEF Lasting, Continues, KeyedRows, AllRows
  <2> QED BY <2>1, <2>2 DEF Lasting
<1>12. Fits(e)
  <2>1. Keyed(Wire(d)) => Shown(e, Wire(d))
    BY <1>0, <1>4 DEF Fits, Shown, AllRows
  <2>2. Keyed(Wire(d)) => \A s \in Awaited(e) : Answers(e, s, Wire(d))
    BY <1>0, <1>1, <1>4, <1>10 DEF Fits, Answers, AllRows
  <2> QED BY <1>5, <2>1, <2>2 DEF Fits
<1>13. Good(e)
  BY <1>9, <1>11, <1>12 DEF Good
<1> QED BY <1>13 DEF e

-----------------------------------------------------------------------------
(* Changing the query.                                                      *)

\* What lasts does not depend on the query.
LEMMA AlteredLasts ==
    ASSUME NEW d, NEW e, Typed(d), Lasting(d), e \in DbRec,
           e.rows = d.rows, e.rowsRev = d.rowsRev, e.rev = d.rev, e.sent = d.sent,
           e.lastId = d.lastId, e.lastRecount = d.lastRecount, e.facetsId = d.facetsId
    PROVE  Typed(e) /\ Lasting(e)
<1>1. Awaited(e) = Awaited(d)
  BY AwaitedOf
<1>2. Typed(e)
  BY DEF Typed
<1> QED BY <1>1, <1>2, CalmLasts

\* A search that cannot be sent for want of a map.
LEMMA UnsentIsGood ==
    ASSUME NEW d, NEW e, Typed(d), Lasting(d), cfg \in CfgRec, e \in DbRec,
           e.rows = d.rows, e.rowsRev = d.rowsRev, e.rev = d.rev, e.sent = d.sent,
           e.lastId = d.lastId, e.lastRecount = d.lastRecount, e.facetsId = d.facetsId,
           Wire(e) = Wire(d), ~CanScopedSearch(d)
    PROVE  Good(e)
<1>1. Typed(e) /\ Lasting(e)
  BY AlteredLasts
<1>2. ~Keyed(Wire(e))
  BY WireIs DEF Typed
<1> QED BY <1>1, <1>2 DEF Good, Fits

\* A change that is committed leaves a page that is good for the new query,
\* whatever it was for the old one.
LEMMA CommitIsGood ==
    ASSUME NEW d, Typed(d), Lasting(d), cfg \in CfgRec
    PROVE  Good(CommitSearch(d))
<1> DEFINE e == CommitSearch(d)
<1>1. d \in DbRec
  BY DEF Typed
<1>2. CASE CanScopedSearch(d)
  <2> DEFINE n == d.rev + 1
  <2>1. e = [d EXCEPT !.rev = n, !.timer = TRUE]
    BY <1>2 DEF CommitSearch
  <2>2. n \in Nat /\ n = d.rev + 1 /\ d.rev \in Nat /\ d.rowsRev \in Nat
    BY <1>1 DEF DbRec
  <2> HIDE DEF e, n
  <2>3. /\ e.rows = d.rows /\ e.rowsRev = d.rowsRev /\ e.rev = n /\ e.sent = d.sent
        /\ e.lastId = d.lastId /\ e.timer = TRUE /\ e.search = d.search
    BY <1>1, <2>1, <2>2 DEF DbRec
  <2>4. e \in DbRec
    BY <1>1, <2>1, <2>2 DEF DbRec
  <2>5. \A s \in d.sent : s.rev \in Nat /\ s.rev <= d.rev
    BY <1>1 DEF DbRec, ReqRec, Typed
  <2>6. Awaited(e) = {}
    BY <2>2, <2>3, <2>5 DEF Awaited, Current, RecountCurrent
  <2>7. Typed(e)
    <3>1. e.rowsRev <= e.rev /\ \A s \in e.sent : s.rev <= e.rev
      BY <2>2, <2>3, <2>5 DEF Typed
    <3> QED BY <2>3, <2>4, <3>1 DEF Typed
  <2>8. Lasting(e)
    BY <2>3, <2>6 DEF Lasting, RowsInOrder, KeyedRows
  <2>9. e.rowsRev # e.rev
    BY <2>2, <2>3 DEF Typed
  <2>10. Fits(e)
    BY <2>3, <2>6, <2>9 DEF Fits, Shown
  <2>11. Good(e)
    BY <2>7, <2>8, <2>10 DEF Good
  <2> QED BY <2>11 DEF e
<1>3. CASE ~CanScopedSearch(d)
  <2>1. d.settled \in BOOLEAN
    BY <1>1 DEF DbRec
  <2>2. \/ e = [d EXCEPT !.search = "error"]
        \/ e = [d EXCEPT !.held = TRUE, !.search = "loading"]
    BY <1>3, <2>1 DEF CommitSearch, FailScope
  <2> HIDE DEF e
  <2>3. /\ e.rows = d.rows /\ e.rowsRev = d.rowsRev /\ e.rev = d.rev /\ e.sent = d.sent
        /\ e.lastId = d.lastId /\ e.lastRecount = d.lastRecount /\ e.facetsId = d.facetsId
        /\ e.flavour = d.flavour /\ e.sel = d.sel /\ e.url = d.url /\ e.maps = d.maps
    BY <1>1, <2>2 DEF DbRec
  <2>4. e \in DbRec
    <3>1. [d EXCEPT !.search = "error"] \in DbRec
      BY <1>1 DEF DbRec
    <3>2. [d EXCEPT !.held = TRUE, !.search = "loading"] \in DbRec
      BY <1>1 DEF DbRec
    <3> QED BY <2>2, <3>1, <3>2
  <2>5. Wire(e) = Wire(d)
    BY <2>3 DEF Wire
  <2>6. Good(e)
    BY <1>3, <2>3, <2>4, <2>5, UnsentIsGood
  <2> QED BY <2>6 DEF e
<1> QED BY <1>2, <1>3

LEMMA TranslatedIs ==
    ASSUME NEW d \in DbRec, NEW key \in Names, NEW to \in Flavour
    PROVE  Translated(d, key, to) \in Names
<1>1. Freva \in Flavour /\ User \in Flavour
  BY DatabrowserAssumption DEF Flavour
<1> QED BY <1>1 DEF Translated, Names, Naming

\* Of a page only what the query, the address bar and the lists are made of changes.
Alters(d, e) ==
    /\ e.rows = d.rows /\ e.rowsRev = d.rowsRev /\ e.rev = d.rev /\ e.sent = d.sent
    /\ e.lastId = d.lastId /\ e.lastRecount = d.lastRecount /\ e.facetsId = d.facetsId

LEMMA SetFlavourIsGood ==
    ASSUME NEW d, Good(d), cfg \in CfgRec, NEW f \in Flavour
    PROVE  Good(SetFlavour(d, f))
<1>1. CASE f = d.flavour
  BY <1>1 DEF SetFlavour
<1>2. CASE f # d.flavour
  <2> DEFINE u == Translated(d, d.url, f)
             a == IF d.attributes = NoFlavour THEN d.attributes ELSE f
             e == [d EXCEPT !.flavour = f, !.url = u, !.attributes = a]
  <2>1. d \in DbRec
    BY DEF Good, Typed
  <2>2. u \in Names
    BY <2>1, TranslatedIs DEF DbRec
  <2>3. a \in Flavour \cup {NoFlavour}
    OBVIOUS
  <2>4. SetFlavour(d, f) = CommitSearch(e)
    BY <1>2 DEF SetFlavour
  <2> HIDE DEF u, a
  <2>5. e \in DbRec
    BY <2>1, <2>2, <2>3 DEF DbRec
  <2>6. Alters(d, e)
    BY <2>1 DEF DbRec, Alters
  <2> HIDE DEF e
  <2>7. Typed(e) /\ Lasting(e)
    BY <2>5, <2>6, AlteredLasts DEF Good, Alters
  <2> QED BY <2>4, <2>7, CommitIsGood
<1> QED BY <1>1, <1>2

LEMMA ReconcileIsGood ==
    ASSUME NEW d, Good(d), cfg \in CfgRec, NEW b
    PROVE  Good(ReconcileUrl(d, b))
<1> DEFINE done == [d EXCEPT !.reconciled = TRUE]
           cut == [done EXCEPT !.url = "none"]
<1>1. d \in DbRec
  BY DEF Good, Typed
<1>2. done \in DbRec /\ cut \in DbRec
  BY <1>1 DEF DbRec, Names
<1>3. Alters(d, done) /\ Alters(d, cut)
  BY <1>1 DEF DbRec, Alters
<1>4. /\ done.facets = d.facets /\ done.timer = d.timer /\ done.search = d.search
      /\ done.flavour = d.flavour /\ done.sel = d.sel /\ done.url = d.url /\ done.maps = d.maps
  BY <1>1 DEF DbRec
<1>5. ReconcileUrl(d, b) \in {d, done, CommitSearch(cut)}
  BY DEF ReconcileUrl
<1> HIDE DEF done, cut
<1>6. Good(done)
  <2>1. Wire(done) = Wire(d)
    BY <1>4 DEF Wire
  <2> QED BY <1>2, <1>3, <1>4, <2>1, CalmGood DEF Alters
<1>7. Good(CommitSearch(cut))
  <2>1. Typed(cut) /\ Lasting(cut)
    BY <1>2, <1>3, AlteredLasts DEF Good, Alters
  <2> QED BY <2>1, CommitIsGood
<1> QED BY <1>5, <1>6, <1>7

-----------------------------------------------------------------------------
(* Answers.                                                                 *)

\* What is awaited of a page, of which nothing stale is left.
LEMMA AwaitedIs ==
    ASSUME NEW d, Good(d), d.sent = Awaited(d), NEW r \in d.sent
    PROVE  /\ r \in ReqRec /\ Continues(d, r) /\ r.rev = d.rev
           /\ Keyed(Wire(d)) => Answers(d, r, Wire(d))
           /\ r.kind # "recount" => d.lastId = r.id
           /\ r.kind = "recount" => d.lastRecount = r.id /\ d.lastId <= r.id /\ d.facetsId <= r.id
<1>1. r \in Awaited(d)
  OBVIOUS
<1>2. r \in ReqRec
  BY DEF Good, Typed, DbRec
<1> QED BY <1>1, <1>2 DEF Good, Lasting, Fits, Awaited, Current, RecountCurrent

\* The page without one of the requests.
Without(d, r) == [d EXCEPT !.sent = @ \ {r}]

LEMMA WithoutIs ==
    ASSUME NEW d, Good(d), NEW r
    PROVE  /\ Good(Without(d, r)) /\ Without(d, r).sent = d.sent \ {r}
           /\ Without(d, r).rows = d.rows /\ Without(d, r).rowsRev = d.rowsRev
           /\ Without(d, r).rev = d.rev /\ Without(d, r).lastId = d.lastId
           /\ Without(d, r).lastRecount = d.lastRecount /\ Without(d, r).facets = d.facets
           /\ Without(d, r).facetsId = d.facetsId /\ Without(d, r).timer = d.timer
           /\ Without(d, r).search = d.search /\ Wire(Without(d, r)) = Wire(d)
<1> DEFINE S == d.sent \ {r}
           e == Without(d, r)
<1>1. d \in DbRec /\ Typed(d) /\ Lasting(d) /\ Fits(d)
  BY DEF Good, Typed
<1>2. e = [d EXCEPT !.sent = S] /\ S \in SUBSET ReqRec
  BY <1>1 DEF Without, DbRec
<1>3. IsFiniteSet(S)
  BY <1>1, FS_RemoveElement DEF Typed
<1>4. S \subseteq d.sent /\ S = d.sent \ {r}
  OBVIOUS
<1> HIDE DEF S, e
<1>5. /\ e \in DbRec /\ e.sent = S
      /\ e.rows = d.rows /\ e.rowsRev = d.rowsRev /\ e.rev = d.rev /\ e.lastId = d.lastId
      /\ e.lastRecount = d.lastRecount /\ e.facets = d.facets /\ e.facetsId = d.facetsId
      /\ e.timer = d.timer /\ e.search = d.search
      /\ e.flavour = d.flavour /\ e.sel = d.sel /\ e.url = d.url /\ e.maps = d.maps
  BY <1>1, <1>2 DEF DbRec
<1>6. Wire(e) = Wire(d)
  BY <1>5 DEF Wire
<1>7. Awaited(e) \subseteq Awaited(d)
  BY <1>4, <1>5 DEF Awaited, Current, RecountCurrent
<1>8. Typed(e)
  BY <1>1, <1>3, <1>4, <1>5 DEF Typed
<1>9. Lasting(e) /\ Fits(e)
  BY <1>1, <1>5, <1>6, <1>7, CalmLasts, CalmFits
<1>10. Good(e)
  BY <1>8, <1>9 DEF Good
<1> QED BY <1>4, <1>5, <1>6, <1>10 DEF e

\* The rows that an answer leaves are one more page of one query, or the first.
Paged(d, r, page) == IF r.kind = "append" THEN d.rows \o page ELSE page
PageOf(r) == [of |-> r.wire, at |-> r.start]

LEMMA PagedIs ==
    ASSUME NEW d, d \in DbRec, RowsInOrder(d), NEW r \in ReqRec, r.kind # "recount",
           Continues(d, r), NEW page \in {<<>>, <<PageOf(r)>>}, NEW e,
           e.rows = Paged(d, r, page)
    PROVE  /\ Paged(d, r, page) \in Seq(PageRec)
           /\ RowsInOrder(e)
           /\ (r.kind = "append" => AllRows(d, r.wire)) => AllRows(e, r.wire)
<1>1. PageOf(r) \in PageRec /\ PageOf(r).of = r.wire /\ PageOf(r).at = r.start
  BY DEF PageOf, PageRec, ReqRec
<1>2. d.rows \in Seq(PageRec)
  BY DEF DbRec
<1>3. CASE r.kind = "search" /\ page = <<>>
  <2>1. e.rows = <<>>
    BY <1>3 DEF Paged
  <2> QED BY <1>3, <2>1 DEF Paged, RowsInOrder, AllRows
<1>4. CASE r.kind = "search" /\ page = <<PageOf(r)>>
  <2>1. e.rows = <<PageOf(r)>> /\ r.start = 0
    BY <1>4 DEF Paged, Continues
  <2>2. DOMAIN e.rows = {1} /\ e.rows[1] = PageOf(r) /\ e.rows \in Seq(PageRec)
    BY <1>1, <2>1
  <2>3. e.rows[1] = [of |-> e.rows[1].of, at |-> 1 - 1]
    BY <2>1, <2>2 DEF PageOf
  <2> QED BY <1>1, <2>1, <2>2, <2>3 DEF RowsInOrder, AllRows
<1>5. CASE r.kind = "append" /\ page = <<>>
  <2>1. e.rows = d.rows
    BY <1>2, <1>5 DEF Paged
  <2> QED BY <1>2, <1>5, <2>1 DEF RowsInOrder, KeyedRows, AllRows
<1>6. CASE r.kind = "append" /\ page = <<PageOf(r)>>
  <2> DEFINE n == Len(d.rows)
  <2>1. /\ e.rows \in Seq(PageRec) /\ n \in Nat
        /\ Len(e.rows) = n + 1
        /\ \A i \in 1..n : e.rows[i] = d.rows[i]
        /\ e.rows[n + 1] = PageOf(r)
    BY <1>1, <1>2, <1>6 DEF Paged
  <2>2. DOMAIN e.rows = 1..(n + 1) /\ DOMAIN d.rows = 1..n
    BY <1>2, <2>1
  <2>3. r.start = n /\ (Keyed(r.wire) /\ KeyedRows(d) => AllRows(d, r.wire))
    BY <1>6 DEF Continues
  <2> HIDE DEF n
  <2>4. ASSUME KeyedRows(e)
        PROVE  \A i \in DOMAIN e.rows : e.rows[i] = [of |-> e.rows[1].of, at |-> i - 1]
    <3>1. Keyed(r.wire)
      <4>1. n + 1 \in DOMAIN e.rows
        BY <2>1, <2>2
      <4> QED BY <1>1, <2>1, <2>4, <4>1 DEF KeyedRows
    <3>2. KeyedRows(d)
      <4> SUFFICES ASSUME NEW i \in DOMAIN d.rows PROVE Keyed(d.rows[i].of)
        BY DEF KeyedRows
      <4>1. i \in DOMAIN e.rows /\ e.rows[i] = d.rows[i]
        BY <2>1, <2>2
      <4> QED BY <2>4, <4>1 DEF KeyedRows
    <3>3. AllRows(d, r.wire)
      BY <2>3, <3>1, <3>2
    <3>4. e.rows[1].of = r.wire
      <4>1. CASE n = 0
        BY <1>1, <2>1, <4>1
      <4>2. CASE n # 0
        <5>1. 1 \in 1..n
          BY <2>1, <4>2
        <5> QED BY <2>1, <2>2, <3>3, <5>1 DEF AllRows
      <4> QED BY <4>1, <4>2
    <3>5. \A i \in 1..n : e.rows[i] = [of |-> r.wire, at |-> i - 1]
      <4> TAKE i \in 1..n
      <4>1. d.rows[i] = [of |-> d.rows[1].of, at |-> i - 1]
        BY <2>2, <3>2 DEF RowsInOrder
      <4>2. 1 \in 1..n
        BY <2>1
      <4>3. d.rows[1].of = r.wire
        BY <2>2, <3>3, <4>2 DEF AllRows
      <4> QED BY <2>1, <4>1, <4>3
    <3>6. e.rows[n + 1] = [of |-> r.wire, at |-> (n + 1) - 1]
      BY <2>1, <2>3 DEF PageOf
    <3>7. \A i \in 1..(n + 1) : i \in 1..n \/ i = n + 1
      BY <2>1
    <3> QED BY <2>2, <3>4, <3>5, <3>6, <3>7
  <2>5. ASSUME AllRows(d, r.wire) PROVE AllRows(e, r.wire)
    <3> SUFFICES ASSUME NEW i \in DOMAIN e.rows PROVE e.rows[i].of = r.wire
      BY DEF AllRows
    <3>1. i \in 1..n \/ i = n + 1
      BY <2>1, <2>2
    <3>2. CASE i \in 1..n
      BY <2>1, <2>2, <2>5, <3>2 DEF AllRows
    <3>3. CASE i = n + 1
      BY <1>1, <2>1, <3>3
    <3> QED BY <3>1, <3>2, <3>3
  <2> QED BY <1>6, <2>1, <2>4, <2>5 DEF RowsInOrder
<1> QED BY <1>3, <1>4, <1>5, <1>6 DEF ReqRec

\* Rows that arrive are shown for the query that is; counts that are newer stay.
LEMMA FoundIsGood ==
    ASSUME NEW d, Good(d), d.sent = Awaited(d), cfg \in CfgRec, NEW r \in d.sent,
           r.kind # "recount", NEW page \in {<<>>, <<PageOf(r)>>}
    PROVE  /\ Good(Found(Without(d, r), r, page))
<1> DEFINE l == Without(d, r)
           R == Paged(d, r, page)
           fresh == r.id >= l.facetsId
           F == IF fresh THEN r.wire ELSE l.facets
           I == IF fresh THEN r.id ELSE l.facetsId
           found == IF R = <<>> THEN "empty" ELSE "loaded"
           e == [l EXCEPT !.rows = R, !.rowsRev = r.rev, !.facets = F, !.facetsId = I,
                          !.search = found]
           w == Wire(d)
<1>1. d \in DbRec /\ Typed(d) /\ Lasting(d) /\ Fits(d)
  BY DEF Good, Typed
<1>2. /\ r \in ReqRec /\ Continues(d, r) /\ r.rev = d.rev
      /\ Keyed(w) => Answers(d, r, w)
      /\ d.lastId = r.id
  BY AwaitedIs
<1>3. /\ Good(l) /\ l.sent = d.sent \ {r}
      /\ l.rows = d.rows /\ l.rev = d.rev /\ l.lastId = d.lastId
      /\ l.lastRecount = d.lastRecount /\ l.facets = d.facets
      /\ l.facetsId = d.facetsId /\ l.timer = d.timer /\ Wire(l) = w
  BY WithoutIs
<1>4. l \in DbRec /\ Typed(l)
  BY <1>3 DEF Good, Typed
<1>5. Found(l, r, page) = ReconcileUrl(e, FALSE)
  BY <1>3 DEF Found, Paged
<1>6. RowsInOrder(d)
  BY <1>1 DEF Lasting
<1>7. R \in Seq(PageRec)
  <2>1. PageOf(r) \in PageRec
    BY <1>2 DEF PageOf, PageRec, ReqRec
  <2>2. page = <<>> \/ page = <<PageOf(r)>>
    OBVIOUS
  <2>3. page \in Seq(PageRec)
    <3>1. \A p \in PageRec : <<p>> \in Seq(PageRec)
      OBVIOUS
    <3>2. <<>> \in Seq(PageRec)
      OBVIOUS
    <3> QED BY <2>1, <2>2, <3>1, <3>2
  <2>4. d.rows \in Seq(PageRec)
    BY <1>1 DEF DbRec
  <2> QED BY <2>3, <2>4 DEF Paged
<1>8. r.id \in Nat /\ r.wire \in WireRec /\ r.rev \in Nat /\ d.rev \in Nat /\ d.facetsId \in Nat
      /\ d.facets \in WireRec \cup {NoWire}
  BY <1>1, <1>2 DEF DbRec, ReqRec
<1>9. /\ F \in WireRec \cup {NoWire} /\ I \in Nat /\ I >= d.facetsId
      /\ r.id < d.facetsId => F = d.facets
      /\ ~(r.id < d.facetsId) => F = r.wire
  BY <1>3, <1>8
<1>10. found \in {"empty", "loaded"}
  OBVIOUS
<1> HIDE DEF l, R, F, I, found, fresh
<1>11. /\ e \in DbRec /\ e.sent = l.sent /\ e.rev = l.rev /\ e.lastId = l.lastId
       /\ e.lastRecount = l.lastRecount /\ e.timer = l.timer
       /\ e.rows = R /\ e.rowsRev = r.rev /\ e.facets = F /\ e.facetsId = I
       /\ e.flavour = l.flavour /\ e.sel = l.sel /\ e.url = l.url /\ e.maps = l.maps
  BY <1>4, <1>7, <1>8, <1>9, <1>10 DEF DbRec
<1> HIDE DEF e
<1>12. Wire(e) = w
  <2>1. Wire(e) = Wire(l)
    BY <1>11 DEF Wire
  <2> QED BY <1>3, <2>1
<1>13. /\ RowsInOrder(e)
       /\ (r.kind = "append" => AllRows(d, r.wire)) => AllRows(e, r.wire)
  BY <1>1, <1>2, <1>6, <1>11, PagedIs DEF R
<1>14. \A s \in Awaited(e) : s \in Awaited(d) /\ s.kind = "recount"
  <2> SUFFICES ASSUME NEW s \in Awaited(e) PROVE s \in Awaited(d) /\ s.kind = "recount"
    OBVIOUS
  <2>1. s \in d.sent /\ s # r
    BY <1>3, <1>11 DEF Awaited
  <2>2. s.kind = "recount"
    <3>1. s.kind # "recount" => s.id = r.id
      BY <1>2, <1>3, <1>11 DEF Awaited, Current
    <3> QED BY <1>1, <2>1, <3>1 DEF Typed
  <2> QED BY <2>1, <2>2
<1>15. Typed(e)
  <2>1. IsFiniteSet(e.sent) /\ (\A s \in e.sent : s.rev <= e.rev)
        /\ \A s, t \in e.sent : s.id = t.id => s = t
    BY <1>4, <1>11 DEF Typed
  <2>2. e.rowsRev <= e.rev
    BY <1>2, <1>3, <1>8, <1>11
  <2> QED BY <1>11, <2>1, <2>2 DEF Typed
<1>16. Lasting(e)
  BY <1>13, <1>14 DEF Lasting, Continues
<1>17. ASSUME Keyed(w)
       PROVE  Shown(e, w) /\ \A s \in Awaited(e) : Answers(e, s, w)
  <2>1. Answers(d, r, w) /\ r.wire = w
    BY <1>2, <1>17 DEF Answers
  <2>2. AllRows(e, w)
    BY <1>13, <2>1 DEF Answers
  <2>3. e.facets = w
    BY <1>2, <1>9, <1>11, <2>1 DEF Answers
  <2>4. e.rowsRev = e.rev
    BY <1>2, <1>3, <1>11
  <2>5. \A s \in Awaited(e) : Answers(e, s, w)
    <3> SUFFICES ASSUME NEW s \in Awaited(e) PROVE Answers(e, s, w)
      OBVIOUS
    <3>1. s \in Awaited(d) /\ s.kind = "recount"
      BY <1>14
    <3>2. s.wire = w
      BY <1>1, <1>17, <3>1 DEF Fits, Answers
    <3> QED BY <3>1, <3>2 DEF Answers
  <2> QED BY <2>2, <2>3, <2>4, <2>5 DEF Shown
<1>18. Good(e)
  BY <1>12, <1>15, <1>16, <1>17 DEF Good, Fits
<1>19. Good(ReconcileUrl(e, FALSE))
  BY <1>18, ReconcileIsGood
<1> QED BY <1>5, <1>19 DEF l

\* A search that fails leaves an error; a further page, the rows that were there.
LEMMA FailedIsGood ==
    ASSUME NEW d, Good(d), d.sent = Awaited(d), cfg \in CfgRec, NEW r \in d.sent,
           r.kind # "recount"
    PROVE  Good(SearchFailed(Without(d, r), r))
<1> DEFINE l == Without(d, r)
           w == Wire(d)
<1>1. /\ r \in ReqRec /\ Continues(d, r)
      /\ Keyed(w) => Answers(d, r, w)
  BY AwaitedIs
<1>2. /\ Good(l) /\ l.rows = d.rows /\ l.rev = d.rev /\ l.rowsRev = d.rowsRev
      /\ l.facets = d.facets /\ l.facetsId = d.facetsId /\ Wire(l) = w
  BY WithoutIs
<1> HIDE DEF l
<1>3. l \in DbRec
  BY <1>2 DEF Good, Typed
<1>4. CASE r.kind = "append"
  <2> DEFINE e == [l EXCEPT !.search = "loaded"]
  <2>1. SearchFailed(l, r) = e
    BY <1>4 DEF SearchFailed
  <2>2. /\ e \in DbRec /\ e.sent = l.sent /\ e.rev = l.rev /\ e.lastId = l.lastId
        /\ e.lastRecount = l.lastRecount /\ e.timer = l.timer
        /\ e.rows = l.rows /\ e.rowsRev = l.rowsRev /\ e.facets = l.facets
        /\ e.facetsId = l.facetsId
        /\ e.flavour = l.flavour /\ e.sel = l.sel /\ e.url = l.url /\ e.maps = l.maps
    BY <1>3 DEF DbRec
  <2> HIDE DEF e
  <2>3. Wire(e) = w
    <3>1. Wire(e) = Wire(l)
      BY <2>2 DEF Wire
    <3> QED BY <1>2, <3>1
  <2>4. Awaited(e) = Awaited(l)
    BY <2>2, AwaitedOf
  <2>5. Typed(e) /\ Lasting(e)
    BY <1>2, <2>2, AlteredLasts DEF Good
  <2>6. d.rowsRev = d.rev
    BY <1>1, <1>4 DEF Continues
  <2>7. ASSUME Keyed(w)
        PROVE  Shown(e, w) /\ \A s \in Awaited(e) : Answers(e, s, w)
    <3>1. d.facets = w /\ AllRows(d, w)
      BY <1>1, <1>4, <2>7 DEF Answers
    <3>2. Shown(e, w)
      BY <1>2, <2>2, <2>6, <3>1 DEF Shown, AllRows
    <3>3. \A s \in Awaited(l) : Answers(l, s, w)
      BY <1>2, <2>7 DEF Good, Fits
    <3>4. \A s \in Awaited(e) : Answers(e, s, w)
      BY <2>2, <2>4, <3>3 DEF Answers, AllRows
    <3> QED BY <3>2, <3>4
  <2>8. Good(e)
    BY <2>3, <2>5, <2>7 DEF Good, Fits
  <2> QED BY <2>1, <2>8 DEF l
<1>5. CASE r.kind # "append"
  <2> DEFINE e == [l EXCEPT !.search = "error"]
  <2>1. SearchFailed(l, r) = ReconcileUrl(e, l.overviewFailed)
    BY <1>5 DEF SearchFailed
  <2>2. /\ e \in DbRec /\ e.sent = l.sent /\ e.rev = l.rev /\ e.lastId = l.lastId
        /\ e.lastRecount = l.lastRecount /\ e.timer = l.timer /\ e.search = "error"
        /\ e.rows = l.rows /\ e.rowsRev = l.rowsRev /\ e.facets = l.facets
        /\ e.facetsId = l.facetsId
        /\ e.flavour = l.flavour /\ e.sel = l.sel /\ e.url = l.url /\ e.maps = l.maps
    BY <1>3 DEF DbRec
  <2> HIDE DEF e
  <2>3. Wire(e) = Wire(l)
    BY <2>2 DEF Wire
  <2>4. Good(e)
    BY <1>2, <2>2, <2>3, CalmGood
  <2>5. Good(ReconcileUrl(e, l.overviewFailed))
    BY <2>4, ReconcileIsGood
  <2> QED BY <2>1, <2>5 DEF l
<1> QED BY <1>4, <1>5

\* Counts that arrive are those of the query, and newer than what is on its way.
LEMMA RecountedIsGood ==
    ASSUME NEW d, Good(d), d.sent = Awaited(d), cfg \in CfgRec, NEW r \in d.sent,
           r.kind = "recount"
    PROVE  Good([Without(d, r) EXCEPT !.facetsId = r.id, !.facets = r.wire])
<1> DEFINE l == Without(d, r)
           w == Wire(d)
           e == [l EXCEPT !.facetsId = r.id, !.facets = r.wire]
<1>1. /\ r \in ReqRec
      /\ Keyed(w) => r.wire = w
      /\ d.lastRecount = r.id /\ d.facetsId <= r.id
  BY AwaitedIs DEF Answers
<1>2. /\ Good(l) /\ l.rows = d.rows /\ l.rev = d.rev /\ l.rowsRev = d.rowsRev
      /\ l.facets = d.facets /\ l.facetsId = d.facetsId /\ Wire(l) = w
      /\ l.sent = d.sent \ {r} /\ l.lastRecount = d.lastRecount
  BY WithoutIs
<1>3. l \in DbRec /\ Typed(d) /\ Typed(l) /\ Lasting(l) /\ Fits(l)
  <2>1. Typed(d) /\ Typed(l) /\ Lasting(l) /\ Fits(l)
    BY <1>2 DEF Good
  <2> QED BY <2>1 DEF Typed
<1>4. r.id \in Nat /\ r.wire \in WireRec
  BY <1>1 DEF ReqRec
<1> HIDE DEF l
<1>5. /\ e \in DbRec /\ e.sent = l.sent /\ e.rev = l.rev /\ e.lastId = l.lastId
      /\ e.lastRecount = l.lastRecount /\ e.timer = l.timer /\ e.search = l.search
      /\ e.rows = l.rows /\ e.rowsRev = l.rowsRev /\ e.facets = r.wire
      /\ e.facetsId = r.id
      /\ e.flavour = l.flavour /\ e.sel = l.sel /\ e.url = l.url /\ e.maps = l.maps
  BY <1>3, <1>4 DEF DbRec
<1> HIDE DEF e
<1>6. Wire(e) = w
  <2>1. Wire(e) = Wire(l)
    BY <1>5 DEF Wire
  <2> QED BY <1>2, <2>1
<1>7. \A s \in Awaited(e) : s \in Awaited(l) /\ s.kind # "recount"
  <2> SUFFICES ASSUME NEW s \in Awaited(e) PROVE s \in Awaited(l) /\ s.kind # "recount"
    OBVIOUS
  <2>1. s \in d.sent /\ s # r /\ s \in l.sent
    BY <1>2, <1>5 DEF Awaited
  <2>2. s.kind # "recount"
    <3>1. s.kind = "recount" => s.id = r.id
      BY <1>1, <1>2, <1>5 DEF Awaited, RecountCurrent
    <3> QED BY <1>3, <2>1, <3>1 DEF Typed
  <2> QED BY <1>5, <2>1, <2>2 DEF Awaited, Current
<1>8. Typed(e)
  BY <1>3, <1>5 DEF Typed
<1>9. Lasting(e)
  BY <1>3, <1>5, <1>7, CalmLasts
<1>10. ASSUME Keyed(w)
       PROVE  Shown(e, w) /\ \A s \in Awaited(e) : Answers(e, s, w)
  <2>1. r.wire = w
    BY <1>1, <1>10
  <2>2. Shown(l, w) /\ \A s \in Awaited(l) : Answers(l, s, w)
    BY <1>2, <1>3, <1>10 DEF Fits
  <2>3. Shown(e, w)
    BY <1>5, <2>1, <2>2 DEF Shown, AllRows
  <2>4. \A s \in Awaited(e) : Answers(e, s, w)
    BY <1>5, <1>7, <2>1, <2>2 DEF Answers, AllRows
  <2> QED BY <2>3, <2>4
<1>11. Good(e)
  BY <1>6, <1>8, <1>9, <1>10 DEF Good, Fits
<1> QED BY <1>11 DEF e, l

-----------------------------------------------------------------------------
(* The lists arrive.                                                        *)

LEMMA OverviewedIsGood ==
    ASSUME NEW d, Good(d), cfg \in CfgRec, NEW listed \in SUBSET Flavour, NEW refresh
    PROVE  Good(Overviewed(d, listed, refresh))
<1> DEFINE shown == Builtin \cup listed
           gone == refresh /\ d.flavour \in d.listed /\ d.flavour \notin shown
           kept == [d EXCEPT !.listed = listed]
           back == IF cfg.flavour \in shown THEN cfg.flavour ELSE Freva
           left == IF gone THEN SetFlavour(kept, back) ELSE kept
           turned == [left EXCEPT !.flavour = left.link, !.link = NoFlavour]
           moved == IF left.link \in shown \ {left.flavour} THEN CommitSearch(turned) ELSE left
           named == [moved EXCEPT !.attributes = moved.flavour]
<1>1. Overviewed(d, listed, refresh) = ReconcileUrl(named, FALSE)
  BY DEF Overviewed
<1>2. shown \subseteq Flavour /\ back \in Flavour
  BY DatabrowserAssumption DEF Flavour, CfgRec
<1>3. d \in DbRec
  BY DEF Good, Typed
<1>4. Good(kept)
  <2>1. kept \in DbRec
    BY <1>3 DEF DbRec
  <2>2. /\ kept.facets = d.facets /\ kept.timer = d.timer /\ kept.search = d.search
        /\ kept.flavour = d.flavour /\ kept.sel = d.sel /\ kept.url = d.url
        /\ kept.maps = d.maps /\ Alters(d, kept)
    BY <1>3 DEF DbRec, Alters
  <2> HIDE DEF kept
  <2>3. Wire(kept) = Wire(d)
    BY <2>2 DEF Wire
  <2> QED BY <2>1, <2>2, <2>3, CalmGood DEF Alters
<1> HIDE DEF kept, back, shown
<1>5. Good(left)
  BY <1>2, <1>4, SetFlavourIsGood
<1> HIDE DEF left
<1>6. left \in DbRec
  BY <1>5 DEF Good, Typed
<1>7. Good(moved)
  <2>1. CASE left.link \in shown \ {left.flavour}
    <3>1. left.link \in Flavour
      BY <1>2, <2>1
    <3>2. turned \in DbRec
      BY <1>6, <3>1 DEF DbRec
    <3>3. Alters(left, turned)
      BY <1>6 DEF DbRec, Alters
    <3> HIDE DEF turned
    <3>4. Typed(turned) /\ Lasting(turned)
      BY <1>5, <3>2, <3>3, AlteredLasts DEF Good, Alters
    <3>5. Good(CommitSearch(turned))
      BY <3>4, CommitIsGood
    <3> QED BY <2>1, <3>5
  <2>2. CASE left.link \notin shown \ {left.flavour}
    BY <1>5, <2>2
  <2> QED BY <2>1, <2>2
<1> HIDE DEF moved
<1>8. moved \in DbRec
  BY <1>7 DEF Good, Typed
<1>9. Good(named)
  <2>1. named \in DbRec
    BY <1>8 DEF DbRec
  <2>2. /\ named.facets = moved.facets /\ named.timer = moved.timer
        /\ named.search = moved.search
        /\ named.flavour = moved.flavour /\ named.sel = moved.sel /\ named.url = moved.url
        /\ named.maps = moved.maps /\ Alters(moved, named)
    BY <1>8 DEF DbRec, Alters
  <2> HIDE DEF named
  <2>3. Wire(named) = Wire(moved)
    BY <2>2 DEF Wire
  <2> QED BY <1>7, <2>1, <2>2, <2>3, CalmGood DEF Alters
<1>10. Good(ReconcileUrl(named, FALSE))
  BY <1>9, ReconcileIsGood
<1> QED BY <1>1, <1>10

LEMMA OverviewFailedIsGood ==
    ASSUME NEW d, Good(d), cfg \in CfgRec, NEW refresh
    PROVE  Good(OverviewFailed(d, refresh))
<1> DEFINE e == [d EXCEPT !.overviewFailed = TRUE]
<1>1. d \in DbRec
  BY DEF Good, Typed
<1>2. e \in DbRec
  BY <1>1 DEF DbRec
<1>3. /\ e.facets = d.facets /\ e.timer = d.timer /\ e.search = d.search
      /\ e.flavour = d.flavour /\ e.sel = d.sel /\ e.url = d.url
      /\ e.maps = d.maps /\ Alters(d, e)
  BY <1>1 DEF DbRec, Alters
<1>4. OverviewFailed(d, refresh) \in {d, ReconcileUrl(e, TRUE)}
  BY DEF OverviewFailed
<1> HIDE DEF e
<1>5. Wire(e) = Wire(d)
  BY <1>3 DEF Wire
<1>6. Good(e)
  BY <1>2, <1>3, <1>5, CalmGood DEF Alters
<1>7. Good(ReconcileUrl(e, TRUE))
  BY <1>6, ReconcileIsGood
<1> QED BY <1>4, <1>7

\* A page that gives up its search: nothing is shown for it.
LEMMA FailScopeIsGood ==
    ASSUME NEW d, Good(d)
    PROVE  Good(FailScope(d))
<1> DEFINE e == [d EXCEPT !.search = "error"]
<1>1. d \in DbRec
  BY DEF Good, Typed
<1>2. e \in DbRec
  BY <1>1 DEF DbRec
<1>3. /\ e.facets = d.facets /\ e.timer = d.timer /\ e.search = "error"
      /\ e.flavour = d.flavour /\ e.sel = d.sel /\ e.url = d.url
      /\ e.maps = d.maps /\ Alters(d, e)
  BY <1>1 DEF DbRec, Alters
<1>4. FailScope(d) = e
  BY DEF FailScope
<1> HIDE DEF e
<1>5. Wire(e) = Wire(d)
  BY <1>3 DEF Wire
<1>6. Good(e)
  BY <1>2, <1>3, <1>5, CalmGood DEF Alters
<1> QED BY <1>4, <1>6

(* The maps arrive: what the query is on the wire may have changed, and then *)
(* a search is sent or due, or was due already.                             *)
LEMMA FlavoursLoadedIsGood ==
    ASSUME NEW d, Good(d), cfg \in CfgRec, NEW maps \in SUBSET Flavour
    PROVE  Good(FlavoursLoaded(d, maps))
<1> DEFINE M == d.maps \cup maps
           now == [d EXCEPT !.maps = M, !.settled = TRUE]
           begun == [now EXCEPT !.started = TRUE]
           freed == [now EXCEPT !.held = FALSE]
<1>1. d \in DbRec /\ Typed(d) /\ Lasting(d)
  BY DEF Good, Typed
<1>2. M \in SUBSET Flavour
  BY <1>1 DEF DbRec
<1>3. /\ WaitsForMap(d) /\ HasMap(now, d.flavour) => FlavoursLoaded(d, maps) = RunSearch(begun, FALSE)
      /\ WaitsForMap(d) /\ ~HasMap(now, d.flavour) => FlavoursLoaded(d, maps) = FailScope(begun)
      /\ ~WaitsForMap(d) /\ d.held => FlavoursLoaded(d, maps) = CommitSearch(freed)
      /\ ~WaitsForMap(d) /\ ~d.held /\ Wire(now) # Wire(d)
            => FlavoursLoaded(d, maps) = CommitSearch(now)
      /\ ~WaitsForMap(d) /\ ~d.held /\ Wire(now) = Wire(d) => FlavoursLoaded(d, maps) = now
  <2>1. d.held \in BOOLEAN /\ WaitsForMap(d) \in BOOLEAN /\ HasMap(now, d.flavour) \in BOOLEAN
    BY <1>1 DEF DbRec, WaitsForMap, HasMap
  <2> QED BY <2>1 DEF FlavoursLoaded
<1>4. d.maps \subseteq M
  OBVIOUS
<1> HIDE DEF M
<1>5. now \in DbRec /\ Alters(d, now) /\ now.maps = M /\ now.facets = d.facets
      /\ now.timer = d.timer /\ now.search = d.search
      /\ now.flavour = d.flavour /\ now.sel = d.sel /\ now.url = d.url
  BY <1>1, <1>2 DEF DbRec, Alters
<1> HIDE DEF now
<1>6. begun \in DbRec /\ Alters(d, begun) /\ begun.maps = M /\ begun.facets = d.facets
      /\ begun.timer = d.timer /\ begun.search = d.search
      /\ begun.flavour = d.flavour /\ begun.sel = d.sel /\ begun.url = d.url
  BY <1>5 DEF DbRec, Alters
<1>7. freed \in DbRec /\ Alters(d, freed)
  BY <1>5 DEF DbRec, Alters
<1> HIDE DEF begun, freed
<1>8. /\ Typed(now) /\ Lasting(now)
      /\ Typed(begun) /\ Lasting(begun)
      /\ Typed(freed) /\ Lasting(freed)
  <2>1. Typed(now) /\ Lasting(now)
    BY <1>1, <1>5, AlteredLasts DEF Alters
  <2>2. Typed(begun) /\ Lasting(begun)
    BY <1>1, <1>6, AlteredLasts DEF Alters
  <2>3. Typed(freed) /\ Lasting(freed)
    BY <1>1, <1>7, AlteredLasts DEF Alters
  <2> QED BY <2>1, <2>2, <2>3
<1>9. Good(RunSearch(begun, FALSE)) /\ Good(CommitSearch(freed)) /\ Good(CommitSearch(now))
  BY <1>8, SearchIsGood, CommitIsGood
<1>10. ASSUME ~HasMap(now, d.flavour) PROVE Good(FailScope(begun))
  <2>1. d.flavour \notin M
    BY <1>5, <1>10 DEF HasMap
  <2>2. Wire(begun) = Wire(d)
    BY <1>4, <1>6, <2>1 DEF Wire
  <2>3. Good(begun)
    BY <1>6, <2>2, CalmGood DEF Alters
  <2> QED BY <2>3, FailScopeIsGood
<1>11. ASSUME Wire(now) = Wire(d) PROVE Good(now)
  BY <1>5, <1>11, CalmGood DEF Alters
<1> QED BY <1>3, <1>9, <1>10, <1>11

LEMMA FlavoursFailedIsGood ==
    ASSUME NEW d, Good(d)
    PROVE  Good(FlavoursFailed(d))
<1> DEFINE now == [d EXCEPT !.settled = TRUE]
           begun == [now EXCEPT !.started = TRUE]
           freed == [now EXCEPT !.held = FALSE]
<1>1. d \in DbRec
  BY DEF Good, Typed
<1>2. FlavoursFailed(d) \in {FailScope(begun), FailScope(freed), now}
  BY DEF FlavoursFailed
<1>3. now \in DbRec /\ begun \in DbRec /\ freed \in DbRec
  BY <1>1 DEF DbRec
<1>4. /\ Alters(d, now) /\ now.maps = d.maps /\ now.facets = d.facets
      /\ now.timer = d.timer /\ now.search = d.search
      /\ now.flavour = d.flavour /\ now.sel = d.sel /\ now.url = d.url
  BY <1>1 DEF DbRec, Alters
<1>5. /\ Alters(d, begun) /\ begun.maps = d.maps /\ begun.facets = d.facets
      /\ begun.timer = d.timer /\ begun.search = d.search
      /\ begun.flavour = d.flavour /\ begun.sel = d.sel /\ begun.url = d.url
  BY <1>1 DEF DbRec, Alters
<1>6. /\ Alters(d, freed) /\ freed.maps = d.maps /\ freed.facets = d.facets
      /\ freed.timer = d.timer /\ freed.search = d.search
      /\ freed.flavour = d.flavour /\ freed.sel = d.sel /\ freed.url = d.url
  BY <1>1 DEF DbRec, Alters
<1> HIDE DEF now, begun, freed
<1>7. Wire(now) = Wire(d) /\ Wire(begun) = Wire(d) /\ Wire(freed) = Wire(d)
  BY <1>4, <1>5, <1>6 DEF Wire
<1>8. Good(now)
  BY <1>3, <1>4, <1>7, CalmGood DEF Alters
<1>9. Good(begun)
  BY <1>3, <1>5, <1>7, CalmGood DEF Alters
<1>10. Good(freed)
  BY <1>3, <1>6, <1>7, CalmGood DEF Alters
<1> QED BY <1>2, <1>8, <1>9, <1>10, FailScopeIsGood

-----------------------------------------------------------------------------
(* What an event leaves: numbers in place of numbers, in the same order.    *)

\* A request in the page's new numbers.
Renumbered(ids, revs, r) == [r EXCEPT !.id = RankIn(ids, @), !.rev = RankIn(revs, @)]

LEMMA RestIsGood ==
    ASSUME NEW d, Good(d)
    PROVE  /\ Good(Rest(d)) /\ Rest(d).sent = Awaited(Rest(d))
           /\ Rest(d).rows = d.rows /\ Rest(d).facets = d.facets
<1> DEFINE A == Awaited(d)
           ids == Ids([d EXCEPT !.sent = A])
           revs == {d.rev, d.rowsRev} \cup {r.rev : r \in A}
           ren(r) == Renumbered(ids, revs, r)
           S == {ren(r) : r \in A}
           a == IF d.reconciled THEN NoFlavour ELSE d.attributes
           b == d.overviewFailed /\ ~d.reconciled
           n1 == RankIn(ids, d.lastId)
           n2 == RankIn(ids, d.lastRecount)
           n3 == RankIn(ids, d.facetsId)
           v1 == RankIn(revs, d.rev)
           v2 == RankIn(revs, d.rowsRev)
           e == Rest(d)
<1>1. d \in DbRec /\ Typed(d) /\ Lasting(d) /\ Fits(d)
  BY DEF Good, Typed
<1>2. /\ d.sent \in SUBSET ReqRec /\ d.rev \in Nat /\ d.rowsRev \in Nat
      /\ d.lastId \in Nat /\ d.lastRecount \in Nat /\ d.facetsId \in Nat
  BY <1>1 DEF DbRec
<1>3. A \subseteq d.sent /\ \A r \in A : r.rev = d.rev
  BY DEF Awaited, Current, RecountCurrent
<1>4. e = [d EXCEPT !.attributes = a, !.overviewFailed = b,
               !.lastId = n1, !.lastRecount = n2, !.facetsId = n3,
               !.rev = v1, !.rowsRev = v2, !.sent = S]
  BY DEF Rest, Renumbered, RankIn
<1>5. ids = {d.lastId, d.lastRecount, d.facetsId} \cup {r.id : r \in A}
  <2>1. [d EXCEPT !.sent = A].sent = A /\ [d EXCEPT !.sent = A].lastId = d.lastId
        /\ [d EXCEPT !.sent = A].lastRecount = d.lastRecount
        /\ [d EXCEPT !.sent = A].facetsId = d.facetsId
    BY <1>1 DEF DbRec
  <2> QED BY <2>1 DEF Ids
<1>6. ids \in SUBSET Nat /\ IsFiniteSet(ids)
  <2>1. ids \subseteq Ids(d)
    BY <1>3, <1>5 DEF Ids
  <2>2. IsFiniteSet(Ids(d)) /\ Ids(d) \subseteq Nat
    BY <1>1, NextIsNewer
  <2> QED BY <2>1, <2>2, FS_Subset
<1>7. revs \in SUBSET Nat /\ IsFiniteSet(revs)
  <2>1. revs = {d.rev} \cup {d.rowsRev}
    BY <1>3
  <2>2. IsFiniteSet({d.rev} \cup {d.rowsRev})
    BY FS_Singleton, FS_AddElement
  <2> QED BY <1>2, <2>1, <2>2
<1>8. /\ d.lastId \in ids /\ d.lastRecount \in ids /\ d.facetsId \in ids
      /\ d.rev \in revs /\ d.rowsRev \in revs
      /\ \A r \in A : r.id \in ids /\ r.rev \in revs
  BY <1>5
<1> HIDE DEF ids, revs
<1>9. /\ n1 \in Nat /\ n2 \in Nat /\ n3 \in Nat /\ v1 \in Nat /\ v2 \in Nat
  BY <1>6, <1>7, <1>8, Ranked
<1>10. \A r \in A : /\ ren(r) \in ReqRec
                    /\ ren(r).kind = r.kind /\ ren(r).start = r.start /\ ren(r).wire = r.wire
                    /\ ren(r).id = RankIn(ids, r.id) /\ ren(r).rev = v1
  <2> SUFFICES ASSUME NEW r \in A
               PROVE  /\ ren(r) \in ReqRec
                      /\ ren(r).kind = r.kind /\ ren(r).start = r.start /\ ren(r).wire = r.wire
                      /\ ren(r).id = RankIn(ids, r.id) /\ ren(r).rev = v1
    OBVIOUS
  <2>1. r \in ReqRec /\ r.rev = d.rev /\ r.id \in ids
    BY <1>2, <1>3, <1>8
  <2>2. RankIn(ids, r.id) \in Nat /\ RankIn(revs, r.rev) = v1
    BY <1>6, <2>1, Ranked
  <2>3. ren(r) = [r EXCEPT !.id = RankIn(ids, r.id), !.rev = v1]
    BY <2>1, <2>2 DEF Renumbered, ReqRec
  <2> HIDE DEF ren, v1
  <2> QED BY <1>9, <2>1, <2>2, <2>3 DEF ReqRec
<1>11. \A r \in A :
          /\ d.lastId = r.id <=> n1 = ren(r).id
          /\ d.lastRecount = r.id <=> n2 = ren(r).id
          /\ d.lastId <= r.id <=> n1 <= ren(r).id
          /\ d.facetsId <= r.id <=> n3 <= ren(r).id
          /\ r.id < d.facetsId <=> ren(r).id < n3
          /\ \A t \in A : r.id = t.id <=> ren(r).id = ren(t).id
  <2> SUFFICES ASSUME NEW r \in A
               PROVE  /\ d.lastId = r.id <=> n1 = ren(r).id
                      /\ d.lastRecount = r.id <=> n2 = ren(r).id
                      /\ d.lastId <= r.id <=> n1 <= ren(r).id
                      /\ d.facetsId <= r.id <=> n3 <= ren(r).id
                      /\ r.id < d.facetsId <=> ren(r).id < n3
                      /\ \A t \in A : r.id = t.id <=> ren(r).id = ren(t).id
    OBVIOUS
  <2>1. r.id \in ids /\ ren(r).id = RankIn(ids, r.id)
    BY <1>8, <1>10
  <2>a. \A i, k \in ids : /\ i < k <=> RankIn(ids, i) < RankIn(ids, k)
                          /\ i <= k <=> RankIn(ids, i) <= RankIn(ids, k)
                          /\ i = k <=> RankIn(ids, i) = RankIn(ids, k)
    BY <1>6, Ranked
  <2> HIDE DEF ren
  <2>2. /\ d.lastId = r.id <=> n1 = ren(r).id
        /\ d.lastId <= r.id <=> n1 <= ren(r).id
    BY <1>8, <2>1, <2>a
  <2>3. d.lastRecount = r.id <=> n2 = ren(r).id
    BY <1>8, <2>1, <2>a
  <2>4. /\ d.facetsId <= r.id <=> n3 <= ren(r).id
        /\ r.id < d.facetsId <=> ren(r).id < n3
    BY <1>8, <2>1, <2>a
  <2>5. \A t \in A : r.id = t.id <=> ren(r).id = ren(t).id
    <3> TAKE t \in A
    <3>1. t.id \in ids /\ ren(t).id = RankIn(ids, t.id)
      BY <1>8, <1>10
    <3> QED BY <2>1, <2>a, <3>1
  <2> QED BY <2>2, <2>3, <2>4, <2>5
<1>12. /\ d.rowsRev <= d.rev <=> v2 <= v1
       /\ d.rowsRev = d.rev <=> v2 = v1
  BY <1>7, <1>8, Ranked
<1>13. S \in SUBSET ReqRec /\ \A s \in S : \E r \in A : s = ren(r)
  BY <1>10
<1>14. IsFiniteSet(S)
  <2> DEFINE f == [r \in A |-> ren(r)]
  <2>1. f \in Surjection(A, S)
    BY DEF Surjection
  <2>2. IsFiniteSet(A)
    BY <1>1, <1>3, FS_Subset DEF Typed
  <2> HIDE DEF f, S
  <2> QED BY <2>1, <2>2, FS_Surjection
<1>15. a \in Flavour \cup {NoFlavour} /\ b \in BOOLEAN
  BY <1>1 DEF DbRec
<1>16. \A r \in A : ren(r) \in S
  OBVIOUS
<1> HIDE DEF S, ren, a, b, n1, n2, n3, v1, v2, e
<1>17. e \in DbRec
  BY <1>1, <1>4, <1>9, <1>13, <1>15 DEF DbRec
<1>18. /\ e.lastId = n1 /\ e.lastRecount = n2 /\ e.facetsId = n3 /\ e.rev = v1
       /\ e.rowsRev = v2 /\ e.sent = S
       /\ e.rows = d.rows /\ e.facets = d.facets /\ e.timer = d.timer /\ e.search = d.search
       /\ e.flavour = d.flavour /\ e.sel = d.sel /\ e.url = d.url /\ e.maps = d.maps
  BY <1>1, <1>4 DEF DbRec
<1>19. Wire(e) = Wire(d)
  BY <1>18 DEF Wire
<1>20. Awaited(e) = e.sent
  <2> SUFFICES ASSUME NEW r \in A PROVE ren(r) \in Awaited(e)
    BY <1>13, <1>18 DEF Awaited
  <2>1. r.kind = "recount" => RecountCurrent(d, r)
    BY DEF Awaited
  <2>2. r.kind # "recount" => Current(d, r)
    BY DEF Awaited
  <2>3. r.kind = "recount" => RecountCurrent(e, ren(r))
    BY <1>10, <1>11, <1>18, <2>1 DEF RecountCurrent
  <2>4. r.kind # "recount" => Current(e, ren(r))
    BY <1>10, <1>11, <1>18, <2>2 DEF Current
  <2> QED BY <1>10, <1>16, <1>18, <2>3, <2>4 DEF Awaited
<1>21. Typed(e)
  <2>1. e.rowsRev <= e.rev
    BY <1>1, <1>12, <1>18 DEF Typed
  <2>2. \A s \in e.sent : s.rev <= e.rev
    BY <1>9, <1>10, <1>13, <1>18
  <2>3. \A s, t \in e.sent : s.id = t.id => s = t
    <3> SUFFICES ASSUME NEW q \in A, NEW r \in A, ren(q).id = ren(r).id PROVE q = r
      BY <1>13, <1>18
    <3>1. q.id = r.id
      BY <1>11
    <3> QED BY <1>1, <1>3, <3>1 DEF Typed
  <2> QED BY <1>14, <1>17, <1>18, <2>1, <2>2, <2>3 DEF Typed
<1>22. Lasting(e)
  <2>1. RowsInOrder(e)
    BY <1>1, <1>18 DEF Lasting, RowsInOrder, KeyedRows
  <2>2. ASSUME NEW r \in A PROVE Continues(e, ren(r))
    <3>1. Continues(d, r)
      BY <1>1 DEF Lasting
    <3> QED BY <1>10, <1>12, <1>18, <3>1 DEF Continues, KeyedRows, AllRows
  <2>3. \A s \in Awaited(e) : Continues(e, s)
    BY <1>13, <1>18, <1>20, <2>2
  <2> QED BY <2>1, <2>3 DEF Lasting
<1>23. Fits(e)
  <2> SUFFICES ASSUME Keyed(Wire(d))
               PROVE  Shown(e, Wire(d)) /\ \A s \in Awaited(e) : Answers(e, s, Wire(d))
    BY <1>19 DEF Fits
  <2>1. Shown(e, Wire(d))
    BY <1>1, <1>12, <1>18 DEF Fits, Shown, AllRows
  <2>2. ASSUME NEW r \in A PROVE Answers(e, ren(r), Wire(d))
    <3>1. Answers(d, r, Wire(d))
      BY <1>1 DEF Fits
    <3> QED BY <1>10, <1>11, <1>18, <3>1 DEF Answers, AllRows
  <2>3. \A s \in Awaited(e) : Answers(e, s, Wire(d))
    BY <1>13, <1>18, <1>20, <2>2
  <2> QED BY <2>1, <2>3
<1>24. Good(e)
  BY <1>21, <1>22, <1>23 DEF Good
<1> QED BY <1>18, <1>20, <1>24 DEF e

-----------------------------------------------------------------------------
(* Steps.                                                                   *)

\* What is said of a page is said of it in the next state, as the configuration stays.
LEMMA Carried ==
    ASSUME NEW CONSTANT p, Good(p), p.sent = Awaited(p), cfg' = cfg, db' = p
    PROVE  Good(db)' /\ db'.sent = Awaited(db)'
<1>1. Awaited(db)' = Awaited(p)
  BY DEF Awaited, Current, RecountCurrent
<1>2. Wire(db)' = Wire(p)
  BY DEF Wire
<1>3. Typed(db)'
  BY DEF Good, Typed
<1>5. Lasting(db)'
  BY <1>1 DEF Good, Lasting, RowsInOrder, Continues, KeyedRows, AllRows, Keyed
<1>6. Fits(db)'
  BY <1>1, <1>2 DEF Good, Fits, Shown, Answers, AllRows, Keyed
<1> QED BY <1>1, <1>3, <1>5, <1>6 DEF Good

Rested(d) == Good(d) /\ db' = Rest(d)

LEMMA CommitSteps ==
    ASSUME IInv
    PROVE  /\ ChangeQuery => \E d : Rested(d)
           /\ ChooseFlavour => \E d : Rested(d)
<1>1. Good(db) /\ Typed(db) /\ Lasting(db) /\ db \in DbRec /\ cfg \in CfgRec
  BY DEF IInv, Good, Typed
<1>2. ASSUME ChangeQuery PROVE \E d : Rested(d)
  <2>1. PICK s \in Selection \ {db.sel}, url \in {db.url, "none"} :
              db' = Rest(CommitSearch([db EXCEPT !.sel = s, !.url = url]))
    BY <1>2 DEF ChangeQuery
  <2> DEFINE e == [db EXCEPT !.sel = s, !.url = url]
  <2>2. url \in Names
    BY <1>1 DEF DbRec, Names
  <2>3. e \in DbRec
    BY <1>1, <2>2 DEF DbRec
  <2>4. Alters(db, e)
    BY <1>1 DEF DbRec, Alters
  <2>5. db' = Rest(CommitSearch(e))
    BY <2>1
  <2> HIDE DEF e
  <2>6. Typed(e) /\ Lasting(e)
    BY <1>1, <2>3, <2>4, AlteredLasts DEF Alters
  <2> QED BY <1>1, <2>5, <2>6, CommitIsGood DEF Rested
<1>3. ASSUME ChooseFlavour PROVE \E d : Rested(d)
  <2>1. PICK f \in (Builtin \cup db.listed) \ {db.flavour} : db' = Rest(SetFlavour(db, f))
    BY <1>3 DEF ChooseFlavour
  <2>2. f \in Flavour
    BY <1>1, <2>1 DEF DbRec, Flavour
  <2> QED BY <1>1, <2>1, <2>2, SetFlavourIsGood DEF Rested
<1> QED BY <1>2, <1>3

LEMMA SendSteps ==
    ASSUME IInv
    PROVE  /\ LoadNextPage => \E d : Rested(d)
           /\ RetrySearch => \E d : Rested(d)
           /\ SearchDue => \E d : Rested(d)
           /\ RecountOverview => \E d : Rested(d)
<1>1. Good(db) /\ Typed(db) /\ Lasting(db) /\ db \in DbRec /\ cfg \in CfgRec
  BY DEF IInv, Good, Typed
<1>2. ASSUME LoadNextPage PROVE \E d : Rested(d)
  <2>1. db.search = "loaded" /\ db.rowsRev = db.rev /\ db' = Rest(RunSearch(db, TRUE))
    BY <1>2 DEF LoadNextPage, MayLoadNext
  <2> QED BY <1>1, <2>1, AppendIsGood DEF Rested
<1>3. ASSUME RetrySearch PROVE \E d : Rested(d)
  BY <1>1, <1>3, SearchIsGood DEF RetrySearch, Rested
<1>4. ASSUME SearchDue PROVE \E d : Rested(d)
  <2> DEFINE e == [db EXCEPT !.timer = FALSE]
  <2>1. e \in DbRec
    BY <1>1 DEF DbRec
  <2>2. Alters(db, e)
    BY <1>1 DEF DbRec, Alters
  <2>3. db' = Rest(RunSearch(e, FALSE))
    BY <1>4 DEF SearchDue
  <2> HIDE DEF e
  <2>4. Typed(e) /\ Lasting(e)
    BY <1>1, <2>1, <2>2, AlteredLasts DEF Alters
  <2> QED BY <1>1, <2>3, <2>4, SearchIsGood DEF Rested
<1>5. ASSUME RecountOverview PROVE \E d : Rested(d)
  BY <1>1, <1>5, RecountIsGood DEF RecountOverview, Rested
<1> QED BY <1>2, <1>3, <1>4, <1>5

LEMMA AnswerSteps ==
    ASSUME IInv
    PROVE  /\ SearchAnswered => \E d : Rested(d)
           /\ RecountAnswered => \E d : Rested(d)
<1>1. Good(db) /\ db.sent = Awaited(db) /\ cfg \in CfgRec
  BY DEF IInv
<1>2. \A r : Landed(r) = Without(db, r)
  BY DEF Landed, Without
<1>3. ASSUME SearchAnswered PROVE \E d : Rested(d)
  <2>1. PICK r \in db.sent :
          /\ r.kind # "recount"
          /\ \/ \E page \in {<<>>, <<PageOf(r)>>} : db' = Rest(Found(Landed(r), r, page))
             \/ db' = Rest(SearchFailed(Landed(r), r))
    BY <1>3 DEF SearchAnswered, PageOf
  <2>2. CASE \E page \in {<<>>, <<PageOf(r)>>} : db' = Rest(Found(Landed(r), r, page))
    <3>1. PICK page \in {<<>>, <<PageOf(r)>>} : db' = Rest(Found(Without(db, r), r, page))
      BY <1>2, <2>2
    <3>2. Good(Found(Without(db, r), r, page))
      BY <1>1, <2>1, FoundIsGood
    <3> QED BY <3>1, <3>2 DEF Rested
  <2>3. CASE db' = Rest(SearchFailed(Landed(r), r))
    BY <1>1, <1>2, <2>1, <2>3, FailedIsGood DEF Rested
  <2> QED BY <2>1, <2>2, <2>3
<1>4. ASSUME RecountAnswered PROVE \E d : Rested(d)
  <2>1. PICK r \in db.sent :
          /\ r.kind = "recount"
          /\ \/ db' = Rest([Without(db, r) EXCEPT !.facetsId = r.id, !.facets = r.wire])
             \/ db' = Rest(Without(db, r))
    BY <1>2, <1>4 DEF RecountAnswered
  <2>2. Good([Without(db, r) EXCEPT !.facetsId = r.id, !.facets = r.wire])
    BY <1>1, <2>1, RecountedIsGood
  <2>3. Good(Without(db, r))
    BY <1>1, WithoutIs
  <2> QED BY <2>1, <2>2, <2>3 DEF Rested
<1> QED BY <1>3, <1>4

LEMMA NoticeSteps ==
    ASSUME IInv, NoteSignedIn
    PROVE  db' = db \/ \E d : Rested(d)
<1>1. Good(db) /\ db \in DbRec /\ cfg \in CfgRec
  BY DEF IInv, Good, Typed
<1>2. PublicFlavour(db) \in Flavour
  BY <1>1, DatabrowserAssumption DEF PublicFlavour, CfgRec, DbRec, Flavour
<1> QED BY <1>1, <1>2, SetFlavourIsGood DEF NoteSignedIn, Rested

LEMMA ListSteps ==
    ASSUME IInv, NEW l \in Lists, Loading(l)
    PROVE  db' = db \/ \E d : Rested(d)
<1>1. Good(db) /\ cfg \in CfgRec /\ auth.signed \in BOOLEAN
  BY DEF IInv
<1>2. CASE LoadSent(l) \/ LoadStale(l)
  BY <1>2 DEF LoadSent, LoadStale
<1>3. CASE LoadFailed(l)
  <2>1. db' \in {Rest(FlavoursFailed(db)), Rest(OverviewFailed(db, load[l].shown))}
    BY <1>3 DEF LoadFailed
  <2> QED BY <1>1, <2>1, FlavoursFailedIsGood, OverviewFailedIsGood DEF Rested
<1>4. CASE LoadApplied(l)
  <2> DEFINE offered == cfg.offered[auth.signed]
  <2>1. offered \in SUBSET Flavour /\ offered \cap Custom \in SUBSET Flavour
    BY <1>1 DEF CfgRec
  <2>2. db' \in {Rest(FlavoursLoaded(db, offered)),
                 Rest(Overviewed(db, offered \cap Custom, load[l].shown))}
    BY <1>4 DEF LoadApplied
  <2> HIDE DEF offered
  <2>3. Good(FlavoursLoaded(db, offered))
    BY <1>1, <2>1, FlavoursLoadedIsGood
  <2>4. Good(Overviewed(db, offered \cap Custom, load[l].shown))
    BY <1>1, <2>1, OverviewedIsGood
  <2> QED BY <2>2, <2>3, <2>4 DEF Rested
<1> QED BY <1>2, <1>3, <1>4 DEF Loading

\* Every step leaves the page alone or leaves what an event makes of it.
LEMMA PageSteps ==
    ASSUME IInv, Next
    PROVE  cfg' = cfg /\ (db' = db \/ \E d : Rested(d))
<1>1. cfg' = cfg
  BY DEF Next, Acts, Loading, ChangeQuery, ChooseFlavour, LoadNextPage, RetrySearch, SearchDue,
         RecountOverview, SearchAnswered, RecountAnswered, NoteSignedIn, LoadSent, LoadFailed,
         LoadStale, LoadApplied
<1>2. CASE Acts
  BY <1>1, <1>2, CommitSteps, SendSteps DEF Acts
<1>3. CASE SearchDue \/ RecountOverview
  BY <1>1, <1>3, SendSteps
<1>4. CASE SearchAnswered \/ RecountAnswered
  BY <1>1, <1>4, AnswerSteps
<1>5. CASE NoteSignedIn
  BY <1>1, <1>5, NoticeSteps
<1>6. CASE \E l \in Lists : Loading(l)
  BY <1>1, <1>6, ListSteps
<1> QED BY <1>1, <1>2, <1>3, <1>4, <1>5, <1>6 DEF Next

\* Lists: only a load that was begun, or asked for, in the session that is ends one.
LEMMA ListsKeep ==
    ASSUME LoadsOK, Next
    PROVE  LoadsOK'
<1>1. load \in [Lists -> LoadRec] /\ \A l \in Lists : load[l].at = "idle" => load[l].inStep
  BY DEF LoadsOK, ListsInStep
<1> DEFINE OK(r) == r \in LoadRec /\ (r.at = "idle" => r.inStep)
<1>2. ASSUME NEW r \in LoadRec PROVE Begun(r) \in LoadRec /\ Begun(r).at = "token"
  BY DEF Begun, LoadRec
<1>3. ASSUME NEW r \in LoadRec PROVE Ended(r, TRUE) \in LoadRec /\ Ended(r, TRUE).inStep = TRUE
  BY DEF Ended, LoadRec
<1>4. CASE UNCHANGED load
  BY <1>1, <1>4 DEF LoadsOK, ListsInStep
<1>5. CASE NoteSignedIn
  <2>1. load' = [l \in Lists |-> AuthChanged(load[l])]
    BY <1>5 DEF NoteSignedIn
  <2>2. ASSUME NEW l \in Lists PROVE OK(AuthChanged(load[l]))
    <3>1. CASE load[l].at = "idle"
      BY <1>1, <1>2, <3>1 DEF AuthChanged
    <3>2. CASE load[l].at # "idle"
      BY <1>1, <3>2 DEF AuthChanged, LoadRec
    <3> QED BY <3>1, <3>2
  <2> QED BY <2>1, <2>2 DEF LoadsOK, ListsInStep
<1>6. ASSUME NEW l \in Lists, Loading(l) PROVE LoadsOK'
  <2>0. load[l] \in LoadRec
    BY <1>1
  <2>1. \E r : OK(r) /\ load' = [load EXCEPT ![l] = r]
    <3>1. CASE LoadSent(l)
      <4> DEFINE r == [load[l] EXCEPT !.at = "fetch", !.sent = TRUE]
      <4>1. OK(r)
        BY <2>0 DEF LoadRec
      <4>2. load' = [load EXCEPT ![l] = r]
        BY <1>1, <3>1 DEF LoadSent
      <4> QED BY <4>1, <4>2
    <3>2. CASE LoadFailed(l)
      <4>1. load' = [load EXCEPT ![l] = AfterLoad(load[l], "failed")]
        BY <3>2 DEF LoadFailed
      <4>2. load[l].begun \in BOOLEAN
        BY <2>0 DEF LoadRec
      <4>3. AfterLoad(load[l], "failed") = (IF load[l].begun THEN Ended(load[l], TRUE) ELSE Begun(load[l]))
        <5>1. CASE load[l].begun = TRUE
          BY <5>1 DEF AfterLoad
        <5>2. CASE load[l].begun = FALSE
          BY <5>2 DEF AfterLoad
        <5> QED BY <4>2, <5>1, <5>2
      <4> QED BY <1>2, <1>3, <2>0, <4>1, <4>3
    <3>3. CASE LoadStale(l)
      <4>1. load' = [load EXCEPT ![l] = AfterLoad(load[l], "stale")]
        BY <3>3 DEF LoadStale
      <4>2. AfterLoad(load[l], "stale") = Begun(load[l])
        BY DEF AfterLoad
      <4> QED BY <1>2, <2>0, <4>1, <4>2
    <3>4. CASE LoadApplied(l)
      <4> DEFINE r == [load[l] EXCEPT !.shown = TRUE]
      <4>1. load' = [load EXCEPT ![l] = AfterLoad(load[l], "applied")] /\ load[l].sent = TRUE
        BY <2>0, <3>4 DEF LoadApplied, LoadRec
      <4>2. AfterLoad(load[l], "applied") = Ended(r, TRUE)
        BY <4>1 DEF AfterLoad
      <4>3. r \in LoadRec
        BY <2>0 DEF LoadRec
      <4> HIDE DEF r
      <4> QED BY <1>3, <4>1, <4>2, <4>3
    <3> QED BY <1>6, <3>1, <3>2, <3>3, <3>4 DEF Loading
  <2> QED BY <1>1, <2>1 DEF LoadsOK, ListsInStep
<1>7. UNCHANGED load \/ NoteSignedIn \/ \E l \in Lists : Loading(l)
  BY DEF Next, Acts, ChangeQuery, ChooseFlavour, LoadNextPage, RetrySearch, SearchDue,
         RecountOverview, SearchAnswered, RecountAnswered
<1> QED BY <1>4, <1>5, <1>6, <1>7

LEMMA InitInv == Init => IInv
<1> SUFFICES ASSUME Init PROVE IInv
  OBVIOUS
<1>1. PICK m \in Mounts :
        LET flavour == IF m.asked \in Builtin THEN m.asked ELSE m.own
            page    == Mounted(flavour, IF m.asked \in Custom THEN m.asked ELSE NoFlavour, m.url)
            waits   == m.scoped /\ flavour \in Custom
        IN /\ changes = m.changes /\ auth = [signed |-> FALSE, flips |-> m.flips]
           /\ cfg = [flavour |-> m.own, scoped |-> m.scoped, waits |-> waits, offered |-> m.offered]
           /\ db = IF waits THEN page ELSE RunSearch([page EXCEPT !.started = TRUE], FALSE)
  BY DEF Init
<1> DEFINE f == IF m.asked \in Builtin THEN m.asked ELSE m.own
           k == IF m.asked \in Custom THEN m.asked ELSE NoFlavour
           page == Mounted(f, k, m.url)
           waits == m.scoped /\ f \in Custom
           started == [page EXCEPT !.started = TRUE]
<1>2. /\ m.scoped \in BOOLEAN /\ m.own \in Flavour /\ m.asked \in Flavour \cup {NoFlavour}
      /\ m.url \in Names /\ m.offered \in [BOOLEAN -> SUBSET Flavour]
      /\ m.changes \in Nat /\ m.flips \in Nat
  BY DatabrowserAssumption DEF Names
<1>3. f \in Flavour /\ k \in Flavour \cup {NoFlavour}
  BY <1>2 DEF Flavour
<1>4. waits \in BOOLEAN
  BY <1>2
<1>5. /\ changes = m.changes /\ auth = [signed |-> FALSE, flips |-> m.flips]
      /\ cfg = [flavour |-> m.own, scoped |-> m.scoped, waits |-> waits, offered |-> m.offered]
      /\ db = IF waits THEN page ELSE RunSearch(started, FALSE)
  BY <1>1
<1> HIDE DEF f, k, waits
<1>6. cfg \in CfgRec /\ auth \in [signed : BOOLEAN, flips : Nat] /\ changes \in Nat
  BY <1>2, <1>4, <1>5 DEF CfgRec
<1>7. LoadsOK
  BY DEF Init, LoadsOK, ListsInStep, LoadRec
<1>8. (CHOOSE s \in Selection : TRUE) \in Selection
  BY DatabrowserAssumption
<1>9. page \in DbRec /\ started \in DbRec
  <2> DEFINE c == CHOOSE s \in Selection : TRUE
  <2>1. c \in Selection
    BY <1>8
  <2>2. page = [flavour |-> f, sel |-> c, url |-> m.url, link |-> k,
     search |-> "loading", rows |-> <<>>, facets |-> NoWire, attributes |-> NoFlavour,
     rev |-> 0, rowsRev |-> 0, lastId |-> 0, lastRecount |-> 0, facetsId |-> 0,
     timer |-> FALSE, sent |-> {}, held |-> FALSE, settled |-> FALSE,
     started |-> FALSE, reconciled |-> FALSE, overviewFailed |-> FALSE,
     maps |-> {}, listed |-> {}]
    BY DEF Mounted
  <2>3. <<>> \in Seq(PageRec)
    OBVIOUS
  <2> HIDE DEF c
  <2>4. page \in DbRec
    BY <1>2, <1>3, <2>1, <2>2, <2>3 DEF DbRec
  <2> HIDE DEF page
  <2>5. started \in DbRec
    BY <2>4 DEF DbRec
  <2> QED BY <2>4, <2>5
<1>10. /\ page.rows = <<>> /\ page.sent = {} /\ page.rev = 0 /\ page.rowsRev = 0
       /\ page.search = "loading"
  BY DEF Mounted
<1> HIDE DEF page
<1>11. Alters(page, started)
  BY <1>9 DEF DbRec, Alters
<1> HIDE DEF started
<1>12. Good(page) /\ page.sent = Awaited(page)
  <2>1. Awaited(page) = {}
    BY <1>10 DEF Awaited
  <2>2. Typed(page)
    BY <1>9, <1>10, FS_EmptySet DEF Typed
  <2>3. Lasting(page)
    BY <1>10, <2>1 DEF Lasting, RowsInOrder
  <2>4. Fits(page)
    BY <1>10, <2>1 DEF Fits, Shown
  <2> QED BY <1>10, <2>1, <2>2, <2>3, <2>4 DEF Good
<1>13. Good(RunSearch(started, FALSE))
       /\ RunSearch(started, FALSE).sent = Awaited(RunSearch(started, FALSE))
  <2> DEFINE r == Request(started, "search", 0)
             e == RunSearch(started, FALSE)
  <2>1. Typed(started) /\ Lasting(started)
    BY <1>9, <1>11, <1>12, AlteredLasts DEF Good, Alters
  <2>2. r \in ReqRec /\ r.kind = "search" /\ r.id = NextId(started) /\ r.rev = started.rev
    BY <1>6, <2>1, RequestIs
  <2>3. Sends(started, r, e) /\ r.kind # "recount"
    BY <2>2 DEF RunSearch, Sends
  <2>4. e.sent = {r}
    BY <1>9, <1>10, <1>11 DEF RunSearch, DbRec, Alters
  <2>5. Good(e)
    BY <1>6, <2>1, SearchIsGood
  <2> HIDE DEF r, e
  <2>6. Awaited(e) = {r}
    BY <2>1, <2>2, <2>3, Sending
  <2> QED BY <2>4, <2>5, <2>6 DEF e
<1> QED BY <1>4, <1>5, <1>6, <1>7, <1>12, <1>13 DEF IInv

LEMMA StepInv == IInv /\ [Next]_browserVars => IInv'
<1> SUFFICES ASSUME IInv, [Next]_browserVars PROVE IInv'
  OBVIOUS
<1>1. ASSUME Next PROVE IInv'
  <2>1. cfg' = cfg /\ (db' = db \/ \E d : Rested(d))
    BY <1>1, PageSteps
  <2>2. auth' \in [signed : BOOLEAN, flips : Nat] /\ changes' \in Nat
    <3>1. auth \in [signed : BOOLEAN, flips : Nat] /\ changes \in Nat
      BY DEF IInv
    <3>2. CASE NoteSignedIn
      <4>1. (~auth.signed) \in BOOLEAN /\ auth.flips - 1 \in Nat
        BY <3>1, <3>2 DEF NoteSignedIn
      <4> QED BY <3>1, <3>2, <4>1 DEF NoteSignedIn
    <3>3. CASE ChangeQuery \/ ChooseFlavour
      <4>1. changes > 0 /\ changes' = changes - 1 /\ auth' = auth
        BY <3>3 DEF ChangeQuery, ChooseFlavour, Change
      <4> QED BY <3>1, <4>1
    <3>4. (auth' = auth /\ changes' = changes) \/ NoteSignedIn \/ ChangeQuery \/ ChooseFlavour
      BY <1>1 DEF Next, Acts, Loading, LoadNextPage, RetrySearch, SearchDue,
         RecountOverview, SearchAnswered, RecountAnswered, LoadSent, LoadFailed,
         LoadStale, LoadApplied
    <3> QED BY <3>1, <3>2, <3>3, <3>4
  <2>3. LoadsOK'
    BY <1>1, ListsKeep DEF IInv
  <2>4. Good(db)' /\ db'.sent = Awaited(db)'
    <3>1. CASE db' = db
      <4>1. \A p : p = db => Good(p) /\ p.sent = Awaited(p)
        BY DEF IInv
      <4>2. PICK p : p = db
        OBVIOUS
      <4>3. Good(p) /\ p.sent = Awaited(p) /\ db' = p
        BY <3>1, <4>1, <4>2
      <4> QED BY <2>1, <4>3, Carried
    <3>2. CASE \E d : Rested(d)
      <4>1. PICK d : Good(d) /\ db' = Rest(d)
        BY <3>2 DEF Rested
      <4>2. Good(Rest(d)) /\ Rest(d).sent = Awaited(Rest(d))
        BY <4>1, RestIsGood
      <4>3. PICK p : p = Rest(d)
        OBVIOUS
      <4>4. Good(p) /\ p.sent = Awaited(p) /\ db' = p
        BY <4>1, <4>2, <4>3
      <4> QED BY <2>1, <4>4, Carried
    <3> QED BY <2>1, <3>1, <3>2
  <2>5. cfg' \in CfgRec
    BY <2>1 DEF IInv
  <2> QED BY <2>2, <2>3, <2>4, <2>5 DEF IInv
<1>2. ASSUME UNCHANGED browserVars PROVE IInv'
  <2>1. cfg' = cfg /\ db' = db /\ auth' = auth /\ changes' = changes /\ load' = load
    BY <1>2 DEF browserVars
  <2>2. PICK p : p = db
    OBVIOUS
  <2>3. Good(p) /\ p.sent = Awaited(p) /\ db' = p
    BY <2>1, <2>2 DEF IInv
  <2>4. Good(db)' /\ db'.sent = Awaited(db)'
    BY <2>1, <2>3, Carried
  <2> QED BY <2>1, <2>4 DEF IInv, LoadsOK, ListsInStep
<1> QED BY <1>1, <1>2

(* The invariant the proofs rest on: an answer that is awaited is one to the *)
(* query, and what is shown is of it unless a search is due                 *)
(* (index.ts runSearch(), commitSearch(), recountOverview()).               *)
THEOREM SearchInv == Spec => []IInv
<1>1. Init => IInv
  BY InitInv
<1>2. IInv /\ [Next]_browserVars => IInv'
  BY StepInv
<1> QED BY <1>1, <1>2, PTL DEF Spec

(* What is shown without a sign of work under way belongs to the query that  *)
(* is shown, rows and facet counts alike, in whatever order searches,        *)
(* recounts and maps arrive (index.ts runSearch(), queryRevision).           *)
THEOREM NothingStaleShown == Spec => []ShownIsCurrent
<1>1. IInv => ShownIsCurrent
  <2> SUFFICES ASSUME IInv, AtRest
               PROVE  db.facets = Wire(db) /\ \A i \in DOMAIN db.rows : db.rows[i].of = Wire(db)
    BY DEF ShownIsCurrent
  <2>1. Fits(db) /\ db \in DbRec /\ cfg \in CfgRec
    BY DEF IInv, Good, Typed
  <2>2. Keyed(Wire(db))
    BY <2>1, WireIs DEF AtRest
  <2>3. Shown(db, Wire(db))
    BY <2>1, <2>2 DEF Fits
  <2> QED BY <2>3 DEF AtRest, Shown, AllRows
<1> QED BY <1>1, SearchInv, PTL

(* Rows are never spliced: they are the consecutive pages of one query, even *)
(* while another is being typed (index.ts loadNextPage()).                   *)
THEOREM RowsStayInOrder == Spec => []RowsOfOneQuery
<1>1. IInv => RowsOfOneQuery
  BY DEF IInv, Good, Lasting, RowsInOrder, KeyedRows, RowsOfOneQuery
<1> QED BY <1>1, SearchInv, PTL

(* A list at rest was loaded in the current session, or its load failed in   *)
(* it: no sign-in or sign-out during a load is lost (index.ts keepInStep()). *)
THEOREM ListsStayInStep == Spec => []ListsInStep
<1>1. IInv => ListsInStep
  BY DEF IInv, LoadsOK
<1> QED BY <1>1, SearchInv, PTL

-----------------------------------------------------------------------------
(* What is shown changes with answers only.                                 *)
SameShown(d, e) == e.rows = d.rows /\ e.facets = d.facets

LEMMA CommitShows ==
    ASSUME NEW d \in DbRec
    PROVE  SameShown(d, CommitSearch(d))
<1> DEFINE e == CommitSearch(d)
<1>1. d.settled \in BOOLEAN
  BY DEF DbRec
<1>2. e \in {[d EXCEPT !.rev = @ + 1, !.timer = TRUE], [d EXCEPT !.search = "error"],
             [d EXCEPT !.held = TRUE, !.search = "loading"]}
  BY <1>1 DEF CommitSearch, FailScope
<1> HIDE DEF e
<1>3. SameShown(d, e)
  BY <1>2 DEF SameShown, DbRec
<1> QED BY <1>3 DEF e

LEMMA SetFlavourShows ==
    ASSUME NEW d, Good(d), NEW f \in Flavour
    PROVE  SameShown(d, SetFlavour(d, f))
<1>1. CASE f = d.flavour
  BY <1>1 DEF SetFlavour, SameShown
<1>2. CASE f # d.flavour
  <2> DEFINE u == Translated(d, d.url, f)
             a == IF d.attributes = NoFlavour THEN d.attributes ELSE f
             e == [d EXCEPT !.flavour = f, !.url = u, !.attributes = a]
  <2>1. d \in DbRec
    BY DEF Good, Typed
  <2>2. u \in Names
    BY <2>1, TranslatedIs DEF DbRec
  <2>3. a \in Flavour \cup {NoFlavour}
    OBVIOUS
  <2>4. SetFlavour(d, f) = CommitSearch(e)
    BY <1>2 DEF SetFlavour
  <2> HIDE DEF u, a
  <2>5. e \in DbRec /\ SameShown(d, e)
    BY <2>1, <2>2, <2>3 DEF DbRec, SameShown
  <2> HIDE DEF e
  <2> QED BY <2>4, <2>5, CommitShows DEF SameShown
<1> QED BY <1>1, <1>2

LEMMA ReconcileShows ==
    ASSUME NEW d \in DbRec, NEW b
    PROVE  SameShown(d, ReconcileUrl(d, b))
<1> DEFINE done == [d EXCEPT !.reconciled = TRUE]
           cut == [done EXCEPT !.url = "none"]
<1>1. cut \in DbRec /\ SameShown(d, cut) /\ SameShown(d, done)
  BY DEF DbRec, Names, SameShown
<1>2. ReconcileUrl(d, b) \in {d, done, CommitSearch(cut)}
  BY DEF ReconcileUrl
<1> HIDE DEF done, cut
<1>3. SameShown(d, CommitSearch(cut))
  BY <1>1, CommitShows DEF SameShown
<1> QED BY <1>1, <1>2, <1>3 DEF SameShown

LEMMA OverviewedShows ==
    ASSUME NEW d, Good(d), cfg \in CfgRec, NEW listed \in SUBSET Flavour, NEW refresh
    PROVE  SameShown(d, Overviewed(d, listed, refresh))
<1> DEFINE shown == Builtin \cup listed
           gone == refresh /\ d.flavour \in d.listed /\ d.flavour \notin shown
           kept == [d EXCEPT !.listed = listed]
           back == IF cfg.flavour \in shown THEN cfg.flavour ELSE Freva
           left == IF gone THEN SetFlavour(kept, back) ELSE kept
           turned == [left EXCEPT !.flavour = left.link, !.link = NoFlavour]
           moved == IF left.link \in shown \ {left.flavour} THEN CommitSearch(turned) ELSE left
           named == [moved EXCEPT !.attributes = moved.flavour]
<1>1. Overviewed(d, listed, refresh) = ReconcileUrl(named, FALSE)
  BY DEF Overviewed
<1>2. shown \subseteq Flavour /\ back \in Flavour
  BY DatabrowserAssumption DEF Flavour, CfgRec
<1>3. d \in DbRec
  BY DEF Good, Typed
<1>4. Good(kept) /\ SameShown(d, kept)
  <2>1. kept \in DbRec
    BY <1>3 DEF DbRec
  <2>2. /\ kept.facets = d.facets /\ kept.timer = d.timer /\ kept.search = d.search
        /\ kept.flavour = d.flavour /\ kept.sel = d.sel /\ kept.url = d.url
        /\ kept.maps = d.maps /\ Alters(d, kept)
    BY <1>3 DEF DbRec, Alters
  <2> HIDE DEF kept
  <2>3. Wire(kept) = Wire(d)
    BY <2>2 DEF Wire
  <2> QED BY <2>1, <2>2, <2>3, CalmGood DEF Alters, SameShown
<1> HIDE DEF kept, back, shown
<1>5. Good(left) /\ SameShown(d, left)
  BY <1>2, <1>4, SetFlavourIsGood, SetFlavourShows DEF SameShown
<1> HIDE DEF left
<1>6. left \in DbRec
  BY <1>5 DEF Good, Typed
<1>7. moved \in DbRec /\ SameShown(d, moved)
  <2>1. CASE left.link \in shown \ {left.flavour}
    <3>1. left.link \in Flavour
      BY <1>2, <2>1
    <3>2. turned \in DbRec
      BY <1>6, <3>1 DEF DbRec
    <3>3. Alters(left, turned) /\ SameShown(left, turned)
      BY <1>6 DEF DbRec, Alters, SameShown
    <3> HIDE DEF turned
    <3>4. Typed(turned) /\ Lasting(turned)
      BY <1>5, <3>2, <3>3, AlteredLasts DEF Good, Alters
    <3>5. Good(CommitSearch(turned)) /\ SameShown(turned, CommitSearch(turned))
      BY <3>2, <3>4, CommitIsGood, CommitShows
    <3>6. moved = CommitSearch(turned)
      BY <2>1
    <3>7. moved \in DbRec
      BY <3>5, <3>6 DEF Good, Typed
    <3> QED BY <1>5, <3>3, <3>5, <3>6, <3>7 DEF SameShown
  <2>2. CASE left.link \notin shown \ {left.flavour}
    BY <1>5, <1>6, <2>2
  <2> QED BY <2>1, <2>2
<1> HIDE DEF moved
<1>8. named \in DbRec /\ SameShown(moved, named)
  BY <1>7 DEF DbRec, SameShown
<1> HIDE DEF named
<1>9. SameShown(named, ReconcileUrl(named, FALSE))
  BY <1>8, ReconcileShows
<1> QED BY <1>1, <1>7, <1>8, <1>9 DEF SameShown

LEMMA FlavoursShow ==
    ASSUME NEW d, Good(d), NEW maps \in SUBSET Flavour
    PROVE  /\ SameShown(d, FlavoursLoaded(d, maps)) /\ SameShown(d, FlavoursFailed(d))
<1> DEFINE M == d.maps \cup maps
           now == [d EXCEPT !.maps = M, !.settled = TRUE]
           begun == [now EXCEPT !.started = TRUE]
           freed == [now EXCEPT !.held = FALSE]
           bare == [d EXCEPT !.settled = TRUE]
           bareBegun == [bare EXCEPT !.started = TRUE]
           bareFreed == [bare EXCEPT !.held = FALSE]
<1>1. d \in DbRec /\ M \in SUBSET Flavour
  BY DEF Good, Typed, DbRec
<1>2. FlavoursLoaded(d, maps) \in {RunSearch(begun, FALSE), FailScope(begun), CommitSearch(freed),
                                   CommitSearch(now), now}
  <2>1. d.held \in BOOLEAN /\ WaitsForMap(d) \in BOOLEAN /\ HasMap(now, d.flavour) \in BOOLEAN
    BY <1>1 DEF DbRec, WaitsForMap, HasMap
  <2> QED BY <2>1 DEF FlavoursLoaded
<1>3. FlavoursFailed(d) \in {FailScope(bareBegun), FailScope(bareFreed), bare}
  BY DEF FlavoursFailed
<1> HIDE DEF M
<1>4. now \in DbRec /\ SameShown(d, now) /\ bare \in DbRec /\ SameShown(d, bare)
  BY <1>1 DEF DbRec, SameShown
<1> HIDE DEF now, bare
<1>5. /\ begun \in DbRec /\ SameShown(now, begun) /\ freed \in DbRec /\ SameShown(now, freed)
      /\ bareBegun \in DbRec /\ SameShown(bare, bareBegun)
      /\ bareFreed \in DbRec /\ SameShown(bare, bareFreed)
  <2>1. \A e \in DbRec : [e EXCEPT !.started = TRUE] \in DbRec /\ [e EXCEPT !.held = FALSE] \in DbRec
    BY DEF DbRec
  <2>2. \A e \in DbRec : /\ SameShown(e, [e EXCEPT !.started = TRUE])
                        /\ SameShown(e, [e EXCEPT !.held = FALSE])
    BY DEF DbRec, SameShown
  <2> QED BY <1>4, <2>1, <2>2
<1> HIDE DEF begun, freed, bareBegun, bareFreed
<1>6. SameShown(begun, RunSearch(begun, FALSE))
  BY <1>5 DEF RunSearch, DbRec, SameShown
<1>7. \A e \in DbRec : SameShown(e, FailScope(e))
  BY DEF FailScope, DbRec, SameShown
<1>8. SameShown(freed, CommitSearch(freed)) /\ SameShown(now, CommitSearch(now))
  BY <1>4, <1>5, CommitShows
<1>9. SameShown(d, FlavoursLoaded(d, maps))
  BY <1>2, <1>4, <1>5, <1>6, <1>7, <1>8 DEF SameShown
<1>10. SameShown(d, FlavoursFailed(d))
  BY <1>3, <1>4, <1>5, <1>7 DEF SameShown
<1> QED BY <1>9, <1>10

LEMMA RestShows ==
    ASSUME NEW d, Good(d), SameShown(db, d), db' = Rest(d)
    PROVE  db'.rows = db.rows /\ db'.facets = db.facets
<1>1. Rest(d).rows = d.rows /\ Rest(d).facets = d.facets
  BY RestIsGood
<1> QED BY <1>1 DEF SameShown

\* Rows that arrive, and what they leave of the counts.
LEMMA FoundShows ==
    ASSUME NEW d, Good(d), d.sent = Awaited(d), NEW r \in d.sent,
           NEW page \in {<<>>, <<PageOf(r)>>}
    PROVE  /\ Found(Without(d, r), r, page).rows = Paged(d, r, page)
           /\ Found(Without(d, r), r, page).facets \in {d.facets, r.wire}
<1> DEFINE l == Without(d, r)
           R == Paged(d, r, page)
           F == IF r.id >= l.facetsId THEN r.wire ELSE l.facets
           I == IF r.id >= l.facetsId THEN r.id ELSE l.facetsId
           found == IF R = <<>> THEN "empty" ELSE "loaded"
           e == [l EXCEPT !.rows = R, !.rowsRev = r.rev, !.facets = F, !.facetsId = I,
                          !.search = found]
<1>1. d \in DbRec /\ r \in ReqRec
  <2>1. d \in DbRec
    BY DEF Good, Typed
  <2> QED BY <2>1 DEF DbRec
<1>2. Good(l) /\ l.rows = d.rows /\ l.facets = d.facets
  BY WithoutIs
<1>3. l \in DbRec
  BY <1>2 DEF Good, Typed
<1>4. Found(l, r, page) = ReconcileUrl(e, FALSE)
  BY <1>2 DEF Found, Paged
<1>5. R \in Seq(PageRec)
  <2>1. PageOf(r) \in PageRec
    BY <1>1 DEF PageOf, PageRec, ReqRec
  <2>2. page = <<>> \/ page = <<PageOf(r)>>
    OBVIOUS
  <2>3. page \in Seq(PageRec)
    <3>1. \A p \in PageRec : <<p>> \in Seq(PageRec)
      OBVIOUS
    <3>2. <<>> \in Seq(PageRec)
      OBVIOUS
    <3> QED BY <2>1, <2>2, <3>1, <3>2
  <2>4. d.rows \in Seq(PageRec)
    BY <1>1 DEF DbRec
  <2> QED BY <2>3, <2>4 DEF Paged
<1>6. r.rev \in Nat /\ F \in WireRec \cup {NoWire} /\ I \in Nat /\ F \in {d.facets, r.wire}
  BY <1>1, <1>2, <1>3 DEF DbRec, ReqRec
<1>7. found \in {"empty", "loaded"}
  OBVIOUS
<1> HIDE DEF l, R, F, I, found
<1>8. e \in DbRec /\ e.rows = R /\ e.facets = F
  BY <1>3, <1>5, <1>6, <1>7 DEF DbRec
<1> HIDE DEF e
<1>9. SameShown(e, ReconcileUrl(e, FALSE))
  BY <1>8, ReconcileShows
<1> QED BY <1>4, <1>6, <1>8, <1>9 DEF SameShown, l, R

\* An answer that changes what is shown shows what the query asks for.
LEMMA AnswersShow ==
    ASSUME IInv, SearchAnswered \/ RecountAnswered, CanScopedSearch(db)
    PROVE  /\ db'.facets # db.facets => db'.facets = Wire(db)
           /\ db'.rows # db.rows => AllRows(db', Wire(db))
<1>1. Good(db) /\ db.sent = Awaited(db) /\ cfg \in CfgRec /\ db \in DbRec
  BY DEF IInv, Good, Typed
<1>2. Keyed(Wire(db))
  BY <1>1, WireIs
<1>3. \A r : Landed(r) = Without(db, r)
  BY DEF Landed, Without
<1>4. CASE SearchAnswered
  <2>1. PICK r \in db.sent :
          /\ r.kind # "recount"
          /\ \/ \E page \in {<<>>, <<PageOf(r)>>} : db' = Rest(Found(Landed(r), r, page))
             \/ db' = Rest(SearchFailed(Landed(r), r))
    BY <1>4 DEF SearchAnswered, PageOf
  <2>2. /\ r \in ReqRec /\ Continues(db, r) /\ Answers(db, r, Wire(db))
    BY <1>1, <1>2, AwaitedIs
  <2>3. CASE \E page \in {<<>>, <<PageOf(r)>>} : db' = Rest(Found(Landed(r), r, page))
    <3>1. PICK page \in {<<>>, <<PageOf(r)>>} : db' = Rest(Found(Without(db, r), r, page))
      BY <1>3, <2>3
    <3> DEFINE e == Found(Without(db, r), r, page)
    <3>2. Good(e)
      BY <1>1, <2>1, FoundIsGood
    <3>3. e.rows = Paged(db, r, page) /\ e.facets \in {db.facets, r.wire}
      BY <1>1, FoundShows
    <3> HIDE DEF e
    <3>4. db'.rows = e.rows /\ db'.facets = e.facets
      BY <3>1, <3>2, RestIsGood DEF e
    <3>5. r.wire = Wire(db) /\ (r.kind = "append" => AllRows(db, r.wire))
      BY <2>2 DEF Answers
    <3>6. RowsInOrder(db)
      BY <1>1 DEF Good, Lasting
    <3>7. AllRows(e, r.wire)
      BY <1>1, <2>1, <2>2, <3>3, <3>5, <3>6, PagedIs
    <3> QED BY <3>3, <3>4, <3>5, <3>7 DEF AllRows
  <2>4. CASE db' = Rest(SearchFailed(Landed(r), r))
    <3> DEFINE l == Without(db, r)
    <3>1. l \in DbRec /\ SameShown(db, l) /\ Good(l)
      BY <1>1, WithoutIs DEF SameShown, Good, Typed
    <3>2. Good(SearchFailed(l, r)) /\ db' = Rest(SearchFailed(l, r))
      BY <1>1, <1>3, <2>1, <2>4, FailedIsGood
    <3> HIDE DEF l
    <3>3. SameShown(l, SearchFailed(l, r))
      <4>1. /\ [l EXCEPT !.search = "loaded"] \in DbRec
            /\ SameShown(l, [l EXCEPT !.search = "loaded"])
        BY <3>1 DEF DbRec, SameShown
      <4>2. /\ [l EXCEPT !.search = "error"] \in DbRec
            /\ SameShown(l, [l EXCEPT !.search = "error"])
        BY <3>1 DEF DbRec, SameShown
      <4>3. SameShown([l EXCEPT !.search = "error"],
                      ReconcileUrl([l EXCEPT !.search = "error"], l.overviewFailed))
        BY <4>2, ReconcileShows
      <4> QED BY <4>1, <4>2, <4>3 DEF SearchFailed, SameShown
    <3>4. SameShown(db, SearchFailed(l, r))
      BY <3>1, <3>3 DEF SameShown
    <3> QED BY <3>2, <3>4, RestShows
  <2> QED BY <2>1, <2>3, <2>4
<1>5. CASE RecountAnswered
  <2>1. PICK r \in db.sent :
          /\ r.kind = "recount"
          /\ \/ db' = Rest([Without(db, r) EXCEPT !.facetsId = r.id, !.facets = r.wire])
             \/ db' = Rest(Without(db, r))
    BY <1>3, <1>5 DEF RecountAnswered
  <2> DEFINE l == Without(db, r)
             e == [l EXCEPT !.facetsId = r.id, !.facets = r.wire]
  <2>2. Good(e)
    BY <1>1, <2>1, RecountedIsGood
  <2>3. Good(l) /\ SameShown(db, l)
    BY <1>1, WithoutIs DEF SameShown
  <2>4. r.wire = Wire(db)
    BY <1>1, <1>2, AwaitedIs DEF Answers
  <2>5. l \in DbRec
    BY <2>3 DEF Good, Typed
  <2>6. db' = Rest(e) \/ db' = Rest(l)
    BY <2>1
  <2> HIDE DEF l
  <2>7. e.rows = l.rows /\ e.facets = r.wire
    BY <2>5 DEF DbRec
  <2> HIDE DEF e
  <2>8. CASE db' = Rest(l)
    BY <2>3, <2>8, RestShows
  <2>9. CASE db' = Rest(e)
    <3>1. db'.rows = e.rows /\ db'.facets = e.facets
      BY <2>2, <2>9, RestIsGood
    <3> QED BY <2>3, <2>4, <2>7, <3>1 DEF SameShown
  <2> QED BY <2>6, <2>8, <2>9
<1> QED BY <1>4, <1>5

\* No other step changes what is shown.
LEMMA OthersShow ==
    ASSUME IInv, Next, ~SearchAnswered, ~RecountAnswered
    PROVE  db'.rows = db.rows /\ db'.facets = db.facets
<1>1. Good(db) /\ Typed(db) /\ Lasting(db) /\ db \in DbRec /\ cfg \in CfgRec
      /\ auth.signed \in BOOLEAN
  BY DEF IInv, Good, Typed
<1>2. CASE ChangeQuery
  <2>1. PICK s \in Selection \ {db.sel}, url \in {db.url, "none"} :
              db' = Rest(CommitSearch([db EXCEPT !.sel = s, !.url = url]))
    BY <1>2 DEF ChangeQuery
  <2> DEFINE e == [db EXCEPT !.sel = s, !.url = url]
  <2>2. url \in Names
    BY <1>1 DEF DbRec, Names
  <2>3. e \in DbRec /\ Alters(db, e) /\ SameShown(db, e)
    BY <1>1, <2>2 DEF DbRec, Alters, SameShown
  <2>4. db' = Rest(CommitSearch(e))
    BY <2>1
  <2> HIDE DEF e
  <2>5. Good(CommitSearch(e)) /\ SameShown(db, CommitSearch(e))
    BY <1>1, <2>3, AlteredLasts, CommitIsGood, CommitShows DEF Alters, SameShown
  <2> QED BY <2>4, <2>5, RestShows
<1>3. CASE ChooseFlavour
  <2>1. PICK f \in (Builtin \cup db.listed) \ {db.flavour} : db' = Rest(SetFlavour(db, f))
    BY <1>3 DEF ChooseFlavour
  <2>2. f \in Flavour
    BY <1>1, <2>1 DEF DbRec, Flavour
  <2>3. Good(SetFlavour(db, f)) /\ SameShown(db, SetFlavour(db, f))
    BY <1>1, <2>2, SetFlavourIsGood, SetFlavourShows
  <2> QED BY <2>1, <2>3, RestShows
<1>4. CASE LoadNextPage
  <2>1. db.search = "loaded" /\ db.rowsRev = db.rev /\ db' = Rest(RunSearch(db, TRUE))
    BY <1>4 DEF LoadNextPage, MayLoadNext
  <2>2. Good(RunSearch(db, TRUE))
    BY <1>1, <2>1, AppendIsGood
  <2>3. SameShown(db, RunSearch(db, TRUE))
    BY <1>1 DEF RunSearch, SameShown, DbRec
  <2> QED BY <2>1, <2>2, <2>3, RestShows
<1>5. CASE RetrySearch
  <2>1. db' = Rest(RunSearch(db, FALSE)) /\ Good(RunSearch(db, FALSE))
    BY <1>1, <1>5, SearchIsGood DEF RetrySearch
  <2>2. SameShown(db, RunSearch(db, FALSE))
    BY <1>1 DEF RunSearch, SameShown, DbRec
  <2> QED BY <2>1, <2>2, RestShows
<1>6. CASE SearchDue
  <2> DEFINE e == [db EXCEPT !.timer = FALSE]
  <2>1. e \in DbRec /\ Alters(db, e) /\ SameShown(db, e)
    BY <1>1 DEF DbRec, Alters, SameShown
  <2>2. db' = Rest(RunSearch(e, FALSE))
    BY <1>6 DEF SearchDue
  <2> HIDE DEF e
  <2>3. Typed(e) /\ Lasting(e)
    BY <1>1, <2>1, AlteredLasts DEF Alters
  <2>4. Good(RunSearch(e, FALSE))
    BY <1>1, <2>3, SearchIsGood
  <2>5. SameShown(db, RunSearch(e, FALSE))
    BY <2>1 DEF RunSearch, SameShown, DbRec
  <2> QED BY <2>2, <2>4, <2>5, RestShows
<1>7. CASE RecountOverview
  <2>1. db' = Rest(RunRecount(db)) /\ Good(RunRecount(db))
    BY <1>1, <1>7, RecountIsGood DEF RecountOverview
  <2>2. SameShown(db, RunRecount(db))
    BY <1>1 DEF RunRecount, SameShown, DbRec
  <2> QED BY <2>1, <2>2, RestShows
<1>8. CASE NoteSignedIn
  <2> DEFINE f == PublicFlavour(db)
  <2>1. f \in Flavour
    BY <1>1, DatabrowserAssumption DEF PublicFlavour, CfgRec, DbRec, Flavour
  <2>2. db' = db \/ db' = Rest(SetFlavour(db, f))
    BY <1>8 DEF NoteSignedIn
  <2> HIDE DEF f
  <2>3. Good(SetFlavour(db, f)) /\ SameShown(db, SetFlavour(db, f))
    BY <1>1, <2>1, SetFlavourIsGood, SetFlavourShows
  <2> QED BY <2>2, <2>3, RestShows
<1>9. ASSUME NEW l \in Lists, Loading(l) PROVE db'.rows = db.rows /\ db'.facets = db.facets
  <2>1. CASE LoadSent(l) \/ LoadStale(l)
    BY <2>1 DEF LoadSent, LoadStale
  <2>2. CASE LoadFailed(l)
    <3>1. \/ db' = Rest(FlavoursFailed(db))
          \/ db' = Rest(OverviewFailed(db, load[l].shown))
      BY <2>2 DEF LoadFailed
    <3>2. CASE db' = Rest(FlavoursFailed(db))
      <4>1. Good(FlavoursFailed(db)) /\ SameShown(db, FlavoursFailed(db))
        BY <1>1, FlavoursFailedIsGood, FlavoursShow
      <4> QED BY <3>2, <4>1, RestShows
    <3>3. CASE db' = Rest(OverviewFailed(db, load[l].shown))
      <4> DEFINE e == [db EXCEPT !.overviewFailed = TRUE]
                 b == load[l].shown
      <4>1. Good(OverviewFailed(db, b)) /\ db' = Rest(OverviewFailed(db, b))
        BY <1>1, <3>3, OverviewFailedIsGood
      <4> HIDE DEF b
      <4>2. OverviewFailed(db, b) \in {db, ReconcileUrl(e, TRUE)}
        BY DEF OverviewFailed
      <4>3. e \in DbRec /\ SameShown(db, e)
        BY <1>1 DEF DbRec, SameShown
      <4> HIDE DEF e
      <4>4. SameShown(db, OverviewFailed(db, b))
        BY <4>2, <4>3, ReconcileShows DEF SameShown
      <4> QED BY <4>1, <4>4, RestShows
    <3> QED BY <3>1, <3>2, <3>3
  <2>3. CASE LoadApplied(l)
    <3> DEFINE offered == cfg.offered[auth.signed]
               b == load[l].shown
               listed == offered \cap Custom
    <3>1. offered \in SUBSET Flavour /\ listed \in SUBSET Flavour
      BY <1>1 DEF CfgRec
    <3>2. db' = Rest(FlavoursLoaded(db, offered)) \/ db' = Rest(Overviewed(db, listed, b))
      BY <2>3 DEF LoadApplied
    <3> HIDE DEF offered, b, listed
    <3>3. Good(FlavoursLoaded(db, offered)) /\ SameShown(db, FlavoursLoaded(db, offered))
      BY <1>1, <3>1, FlavoursLoadedIsGood, FlavoursShow
    <3>4. Good(Overviewed(db, listed, b)) /\ SameShown(db, Overviewed(db, listed, b))
      BY <1>1, <3>1, OverviewedIsGood, OverviewedShows
    <3> QED BY <3>2, <3>3, <3>4, RestShows
  <2> QED BY <1>9, <2>1, <2>2, <2>3 DEF Loading
<1> QED BY <1>2, <1>3, <1>4, <1>5, <1>6, <1>7, <1>8, <1>9 DEF Next, Acts

(* An answer that changes what is shown is one for the query as it is when   *)
(* the answer lands, although a changed query is sent only after a delay     *)
(* (index.ts commitSearch(), queryRevision).                                 *)
THEOREM AnswersStayFit == Spec => AnswersFitQuery
<1>1. IInv /\ [Next]_browserVars =>
        [CanScopedSearch(db)
           => /\ db'.facets # db.facets => db'.facets = Wire(db)
              /\ db'.rows # db.rows => \A i \in DOMAIN db'.rows : db'.rows[i].of = Wire(db)]_browserVars
  <2> SUFFICES ASSUME IInv, Next, CanScopedSearch(db)
               PROVE  /\ db'.facets # db.facets => db'.facets = Wire(db)
                      /\ db'.rows # db.rows => AllRows(db', Wire(db))
    BY DEF AllRows
  <2>1. CASE SearchAnswered \/ RecountAnswered
    BY <2>1, AnswersShow
  <2>2. CASE ~SearchAnswered /\ ~RecountAnswered
    BY <2>2, OthersShow
  <2> QED BY <2>1, <2>2
<1> QED BY <1>1, SearchInv, PTL DEF Spec, AnswersFitQuery
=============================================================================
