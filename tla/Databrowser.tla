----------------------------- MODULE Databrowser -----------------------------
(***************************************************************************)
(* The search of the data browser (packages/databrowser, index.ts): the    *)
(* query a user builds, the searches and recounts sent for it, and the two *)
(* lists the server scopes to a user, /overview and /flavours.             *)
(*                                                                         *)
(* Event handlers run to completion and call each other, so each is an     *)
(* operator from one state of the page, the record db, to the next; the    *)
(* actions are the events.                                                 *)
(*                                                                         *)
(* Request ids and query revisions only grow and are only compared.  So an *)
(* answer that its guard would drop now will be dropped whenever it comes, *)
(* and is not waited for; and of the numbers only the order is kept.       *)
(*                                                                         *)
(* A page of results is the wire query it was fetched for and its place.   *)
(* Facets are the wire query they were counted for.                        *)
(***************************************************************************)
EXTENDS Naturals, Sequences, FiniteSets, FiniteSetsExt

CONSTANTS
    Builtin,        \* flavours whose field map is baked in
    Freva, User,    \* of these, the canonical one and the user's own index
    Custom,         \* flavours whose field map GET /flavours brings
    Selection,      \* what a user can select
    Mounts,         \* what to begin with: the configuration, the link, and the flavours
                    \* the server offers with and without a user; and two bounds, the
                    \* user's changes of the query and the sign-ins and sign-outs
    NoFlavour, NoWire,
    MaxPages        \* bound: pages of a result

Flavour == Builtin \cup Custom

ASSUME DatabrowserAssumption ==
    /\ {Freva, User} \subseteq Builtin /\ Builtin \cap Custom = {}
    /\ NoFlavour \notin Builtin \cup Custom /\ Selection # {}
    /\ {"none", "junk"} \cap (Builtin \cup Custom) = {}
    /\ Mounts \subseteq [scoped : BOOLEAN, own : Flavour, asked : Flavour \cup {NoFlavour},
                         url : {"none", "junk"} \cup Flavour,
                         offered : [BOOLEAN -> SUBSET Flavour], changes : Nat, flips : Nat]
    /\ MaxPages \in Nat

VARIABLES
    cfg,    \* the configuration: its flavour, whether it has a base scope, and
            \* whether both held back the first search (scopedCustomFlavour)
    db,     \* the state of the page
    changes, \* how often the user may still change the query
    load,   \* the loader of each of the two lists (keepInStep())
    auth    \* whether the last token lookup found a user, and how often that may change

browserVars == <<cfg, db, changes, load, auth>>

Lists == {"overview", "flavours"}

(* The query as it is sent.  `url` is a key of the address bar: none, a      *)
(* parameter of the host page ("junk"), or a facet in a flavour's naming.    *)
(* `key`: the map the base scope is translated with.                        *)
Wire(d) == [flavour |-> d.flavour, sel |-> d.sel, url |-> d.url,
            key |-> IF cfg.scoped /\ d.flavour \in d.maps THEN "served" ELSE "baked"]

\* The user's own index has no map of its own: its names are those of freva.
HasMap(d, f) == f \in (Builtin \ {User}) \cup d.maps

Naming(f) == IF f = User THEN Freva ELSE f

\* A key is translated by way of freva, as far as the maps reach.
Translated(d, key, to) ==
    LET known == IF key = Naming(d.flavour) /\ HasMap(d, d.flavour) THEN Freva ELSE key
    IN IF known = Freva /\ HasMap(d, to) THEN Naming(to) ELSE known

CanScopedSearch(d) == ~cfg.scoped \/ d.flavour \in Builtin \/ HasMap(d, d.flavour)

-----------------------------------------------------------------------------
(* The search.                                                              *)
Ids(d) == {d.lastId, d.lastRecount, d.facetsId} \cup {r.id : r \in d.sent}

NextId(d) == Max(Ids(d)) + 1

Request(d, kind, start) ==
    [kind |-> kind, id |-> NextId(d), rev |-> d.rev, start |-> start, wire |-> Wire(d)]

RunSearch(d, append) ==
    LET r == IF append THEN Request(d, "append", Len(d.rows)) ELSE Request(d, "search", 0)
    IN [d EXCEPT !.sent = @ \cup {r}, !.lastId = r.id, !.search = "loading"]

RunRecount(d) ==
    LET r == Request(d, "recount", 0)
    IN [d EXCEPT !.sent = @ \cup {r}, !.lastRecount = r.id]

FailScope(d) == [d EXCEPT !.search = "error"]

(* Mutant: the revision is bumped by the search, not by the change.          *)
CommitSearch_Late(d) ==
    CASE CanScopedSearch(d)                 -> [d EXCEPT !.timer = TRUE]
      [] ~CanScopedSearch(d) /\ d.settled   -> FailScope(d)
      [] ~CanScopedSearch(d) /\ ~d.settled  -> [d EXCEPT !.held = TRUE, !.search = "loading"]

\* A scoped search waits for the map of its flavour, or fails without it.
CommitSearch(d) ==
    CASE CanScopedSearch(d)                 -> [d EXCEPT !.rev = @ + 1, !.timer = TRUE]
      [] ~CanScopedSearch(d) /\ d.settled   -> FailScope(d)
      [] ~CanScopedSearch(d) /\ ~d.settled  -> [d EXCEPT !.held = TRUE, !.search = "loading"]

\* The facet keys known so far, named by flavour; failing these a static
\* vocabulary, in the names of freva.
Vocabulary(d) ==
    (IF d.attributes = NoFlavour THEN {} ELSE {Naming(d.attributes)})
        \cup (IF d.facets = NoWire THEN {} ELSE {Naming(d.facets.flavour)})

ReconcileUrl(d, useFallback) ==
    LET known == IF Vocabulary(d) = {} THEN {Freva} ELSE Vocabulary(d)
        done  == [d EXCEPT !.reconciled = TRUE]
    IN IF d.reconciled \/ (Vocabulary(d) = {} /\ ~useFallback) THEN d
       ELSE IF d.url \in known \cup {"none"} THEN done
       ELSE CommitSearch([done EXCEPT !.url = "none"])

SetFlavour(d, f) ==
    IF f = d.flavour THEN d
    ELSE CommitSearch([d EXCEPT !.flavour = f,
                          !.url = Translated(d, @, f),
                          !.attributes = IF @ = NoFlavour THEN @ ELSE f])

(* Mutant: the newest request's answer counts, whatever the query is now.    *)
Current_NewestOnly(d, r) == d.lastId = r.id

Current(d, r) == d.lastId = r.id /\ d.rev = r.rev

Found(d, r, page) ==
    LET rows  == IF r.kind = "append" THEN d.rows \o page ELSE page
        fresh == r.id >= d.facetsId
    IN ReconcileUrl([d EXCEPT
          !.rows = rows, !.rowsRev = r.rev,
          !.facets = IF fresh THEN r.wire ELSE @, !.facetsId = IF fresh THEN r.id ELSE @,
          !.search = IF rows = <<>> THEN "empty" ELSE "loaded"], FALSE)

SearchFailed(d, r) ==
    IF r.kind = "append" THEN [d EXCEPT !.search = "loaded"]
    ELSE ReconcileUrl([d EXCEPT !.search = "error"], d.overviewFailed)

(* Mutant: a recount of a query that has changed is shown.                   *)
RecountCurrent_AnyQuery(d, r) == d.lastRecount = r.id /\ d.lastId <= r.id /\ d.facetsId <= r.id

RecountCurrent(d, r) ==
    d.lastRecount = r.id /\ d.lastId <= r.id /\ d.facetsId <= r.id /\ d.rev = r.rev

Awaited(d) == {r \in d.sent : IF r.kind = "recount" THEN RecountCurrent(d, r) ELSE Current(d, r)}

\* What an event leaves behind.
Rest(d) ==
    LET ids  == Ids([d EXCEPT !.sent = Awaited(d)])
        revs == {d.rev, d.rowsRev} \cup {r.rev : r \in Awaited(d)}
        Rank(S, i) == Cardinality({j \in S : j < i})
    IN [d EXCEPT
          !.attributes = IF d.reconciled THEN NoFlavour ELSE @,
          !.overviewFailed = @ /\ ~d.reconciled,
          !.lastId = Rank(ids, @), !.lastRecount = Rank(ids, @), !.facetsId = Rank(ids, @),
          !.rev = Rank(revs, @), !.rowsRev = Rank(revs, @),
          !.sent = {[r EXCEPT !.id = Rank(ids, @), !.rev = Rank(revs, @)] : r \in Awaited(d)}]

-----------------------------------------------------------------------------
(* The lists.  Authentication generations are only compared with the current *)
(* one: `begun` and `sent` say that it is still that of the load and of its  *)
(* request, `inStep` that it is that of the load a list at rest is due to.   *)
Begun(l) == [l EXCEPT !.at = "token", !.begun = TRUE, !.sent = FALSE, !.inStep = FALSE]
Ended(l, inStep) == [l EXCEPT !.at = "idle", !.begun = FALSE, !.sent = FALSE, !.inStep = inStep]

(* Mutant: a failure ends the load, whatever happened meanwhile.             *)
AfterLoad_GivesUp(l, outcome) ==
    CASE outcome = "failed"  -> Ended(l, l.begun)
      [] outcome = "stale"   -> Begun(l)
      [] outcome = "applied" -> Ended([l EXCEPT !.shown = TRUE], l.sent)

\* keepInStep(): what is out of step is loaded again.
AfterLoad(l, outcome) ==
    CASE outcome = "failed" /\ l.begun  -> Ended(l, l.begun)
      [] outcome = "failed" /\ ~l.begun -> Begun(l)
      [] outcome = "stale"              -> Begun(l)
      [] outcome = "applied"            -> Ended([l EXCEPT !.shown = TRUE], l.sent)

AuthChanged(l) ==
    IF l.at = "idle" THEN Begun(l) ELSE [l EXCEPT !.begun = FALSE, !.sent = FALSE]

\* A listed flavour that is not listed any more is left; one of the address
\* bar that is listed at last is applied.
Overviewed(d, listed, refresh) ==
    LET shown  == Builtin \cup listed
        gone   == refresh /\ d.flavour \in d.listed /\ d.flavour \notin shown
        kept   == [d EXCEPT !.listed = listed]
        left   == IF gone THEN SetFlavour(kept, IF cfg.flavour \in shown THEN cfg.flavour ELSE Freva)
                  ELSE kept
        linked == left.link \in shown \ {left.flavour}
        moved  == IF linked THEN CommitSearch([left EXCEPT !.flavour = left.link, !.link = NoFlavour])
                  ELSE left
    IN ReconcileUrl([moved EXCEPT !.attributes = moved.flavour], FALSE)

OverviewFailed(d, refresh) ==
    IF refresh THEN d ELSE ReconcileUrl([d EXCEPT !.overviewFailed = TRUE], TRUE)

WaitsForMap(d) == cfg.waits /\ ~d.started

(* Mutant: the search that was held back is forgotten.                       *)
FlavoursLoaded_Forgets(d, maps) ==
    LET now == [d EXCEPT !.maps = @ \cup maps, !.settled = TRUE]
    IN CASE WaitsForMap(d) /\ HasMap(now, d.flavour)  -> RunSearch([now EXCEPT !.started = TRUE], FALSE)
         [] WaitsForMap(d) /\ ~HasMap(now, d.flavour) -> FailScope([now EXCEPT !.started = TRUE])
         [] ~WaitsForMap(d) /\ Wire(now) # Wire(d)    -> IF d.held THEN now ELSE CommitSearch(now)
         [] OTHER                                     -> now

(* Mutant: a map that changes the query does not repeat the search.          *)
FlavoursLoaded_Quiet(d, maps) ==
    LET now == [d EXCEPT !.maps = @ \cup maps, !.settled = TRUE]
    IN CASE WaitsForMap(d) /\ HasMap(now, d.flavour)  -> RunSearch([now EXCEPT !.started = TRUE], FALSE)
         [] WaitsForMap(d) /\ ~HasMap(now, d.flavour) -> FailScope([now EXCEPT !.started = TRUE])
         [] ~WaitsForMap(d) /\ d.held                 -> CommitSearch([now EXCEPT !.held = FALSE])
         [] OTHER                                     -> now

FlavoursLoaded(d, maps) ==
    LET now == [d EXCEPT !.maps = @ \cup maps, !.settled = TRUE]
    IN CASE WaitsForMap(d) /\ HasMap(now, d.flavour)  -> RunSearch([now EXCEPT !.started = TRUE], FALSE)
         [] WaitsForMap(d) /\ ~HasMap(now, d.flavour) -> FailScope([now EXCEPT !.started = TRUE])
         [] ~WaitsForMap(d) /\ d.held                 -> CommitSearch([now EXCEPT !.held = FALSE])
         [] ~WaitsForMap(d) /\ ~d.held /\ Wire(now) # Wire(d) -> CommitSearch(now)
         [] OTHER                                     -> now

FlavoursFailed(d) ==
    LET now == [d EXCEPT !.settled = TRUE]
    IN IF WaitsForMap(d) THEN FailScope([now EXCEPT !.started = TRUE])
       ELSE IF d.held THEN FailScope([now EXCEPT !.held = FALSE])
       ELSE now

-----------------------------------------------------------------------------
(* mountDataBrowser(): the address bar is read, and the first search and     *)
(* both loads begin, unless the search has to wait for a map.                *)
Mounted(flavour, link, url) ==
    [flavour |-> flavour, sel |-> CHOOSE s \in Selection : TRUE, url |-> url, link |-> link,
     search |-> "loading", rows |-> <<>>, facets |-> NoWire, attributes |-> NoFlavour,
     rev |-> 0, rowsRev |-> 0, lastId |-> 0, lastRecount |-> 0, facetsId |-> 0,
     timer |-> FALSE, sent |-> {}, held |-> FALSE, settled |-> FALSE,
     started |-> FALSE, reconciled |-> FALSE, overviewFailed |-> FALSE,
     maps |-> {}, listed |-> {}]

Init ==
    /\ load = [l \in Lists |-> [at |-> "token", shown |-> FALSE,
                                begun |-> TRUE, sent |-> FALSE, inStep |-> FALSE]]
    /\ \E m \in Mounts :
          LET flavour == IF m.asked \in Builtin THEN m.asked ELSE m.own
              page    == Mounted(flavour, IF m.asked \in Custom THEN m.asked ELSE NoFlavour, m.url)
              waits   == m.scoped /\ flavour \in Custom
          IN /\ changes = m.changes /\ auth = [signed |-> FALSE, flips |-> m.flips]
             /\ cfg = [flavour |-> m.own, scoped |-> m.scoped, waits |-> waits, offered |-> m.offered]
             /\ db = IF waits THEN page ELSE RunSearch([page EXCEPT !.started = TRUE], FALSE)

-----------------------------------------------------------------------------
(* The user.                                                                *)
Change == changes > 0 /\ changes' = changes - 1

\* A facet, the time, the box, the terminal: everything that ends in a commit.
ChangeQuery ==
    /\ Change
    /\ \E s \in Selection \ {db.sel}, url \in {db.url, "none"} :
          db' = Rest(CommitSearch([db EXCEPT !.sel = s, !.url = url]))
    /\ UNCHANGED <<cfg, load, auth>>

ChooseFlavour ==
    /\ Change
    /\ \E f \in (Builtin \cup db.listed) \ {db.flavour} :
          /\ f = User => auth.signed
          /\ db' = Rest(SetFlavour(db, f))
    /\ UNCHANGED <<cfg, load, auth>>

(* Mutant: pages are appended whatever query the rows are of.                *)
MayLoadNext_AnyRows(d) == d.search # "loading"

MayLoadNext(d) == d.search # "loading" /\ d.rowsRev = d.rev

\* The button is there while the result has more than is shown.
LoadNextPage ==
    /\ db.search = "loaded" /\ Len(db.rows) < MaxPages
    /\ MayLoadNext(db)
    /\ db' = Rest(RunSearch(db, TRUE))
    /\ UNCHANGED <<cfg, changes, load, auth>>

\* The button of the error message.
RetrySearch ==
    /\ db.search = "error"
    /\ db' = Rest(RunSearch(db, FALSE))
    /\ UNCHANGED <<cfg, changes, load, auth>>

-----------------------------------------------------------------------------
(* Timers and answers.                                                      *)
SearchDue ==
    /\ db.timer
    /\ db' = Rest(RunSearch([db EXCEPT !.timer = FALSE], FALSE))
    /\ UNCHANGED <<cfg, changes, load, auth>>

\* The overview is shown, and its debounce is over: both may be at any time.
RecountOverview ==
    /\ db' = Rest(RunRecount(db))
    /\ UNCHANGED <<cfg, changes, load, auth>>

Landed(r) == [db EXCEPT !.sent = @ \ {r}]

SearchAnswered ==
    /\ \E r \in {q \in db.sent : q.kind # "recount"} :
          \/ \E page \in {<<>>, <<[of |-> r.wire, at |-> r.start]>>} :
                db' = Rest(Found(Landed(r), r, page))
          \/ db' = Rest(SearchFailed(Landed(r), r))
    /\ UNCHANGED <<cfg, changes, load, auth>>

\* A recount that fails only marks the counts as old.
RecountAnswered ==
    /\ \E r \in {q \in db.sent : q.kind = "recount"} :
          \/ db' = Rest([Landed(r) EXCEPT !.facetsId = r.id, !.facets = r.wire])
          \/ db' = Rest(Landed(r))
    /\ UNCHANGED <<cfg, changes, load, auth>>

-----------------------------------------------------------------------------
(* Signing in and out is noticed by the token lookup of any request.        *)
PublicFlavour(d) == IF cfg.flavour \in (Builtin \ {User}) \cup d.listed THEN cfg.flavour ELSE Freva

NoteSignedIn ==
    /\ auth.flips > 0
    /\ auth' = [signed |-> ~auth.signed, flips |-> auth.flips - 1]
    /\ db' = IF auth.signed /\ db.flavour = User THEN Rest(SetFlavour(db, PublicFlavour(db))) ELSE db
    /\ load' = [l \in Lists |-> AuthChanged(load[l])]
    /\ UNCHANGED <<cfg, changes>>

\* The generation is read after the token lookup.
LoadSent(l) ==
    /\ load[l].at = "token"
    /\ load' = [load EXCEPT ![l].at = "fetch", ![l].sent = TRUE]
    /\ UNCHANGED <<cfg, db, changes, auth>>

LoadFailed(l) ==
    /\ load[l].at = "fetch"
    /\ load' = [load EXCEPT ![l] = AfterLoad(@, "failed")]
    /\ db' = Rest(IF l = "flavours" THEN FlavoursFailed(db)
                  ELSE OverviewFailed(db, load[l].shown))
    /\ UNCHANGED <<cfg, changes, auth>>

LoadStale(l) ==
    /\ load[l].at = "fetch" /\ ~load[l].sent
    /\ load' = [load EXCEPT ![l] = AfterLoad(@, "stale")]
    /\ UNCHANGED <<cfg, db, changes, auth>>

LoadApplied(l) ==
    /\ load[l].at = "fetch" /\ load[l].sent
    /\ load' = [load EXCEPT ![l] = AfterLoad(@, "applied")]
    /\ LET offered == cfg.offered[auth.signed]
       IN db' = Rest(IF l = "flavours" THEN FlavoursLoaded(db, offered)
                     ELSE Overviewed(db, offered \cap Custom, load[l].shown))
    /\ UNCHANGED <<cfg, changes, auth>>

Loading(l) == LoadSent(l) \/ LoadFailed(l) \/ LoadStale(l) \/ LoadApplied(l)

-----------------------------------------------------------------------------
Acts == ChangeQuery \/ ChooseFlavour \/ LoadNextPage \/ RetrySearch 

Next ==
    \/ Acts \/ SearchDue \/ RecountOverview \/ SearchAnswered \/ RecountAnswered \/ NoteSignedIn
    \/ \E l \in Lists : Loading(l)

Spec == Init /\ [][Next]_browserVars

(* Timers fire, and searches and loads are answered or fail.  These are weak *)
(* fairness of SearchDue, SearchAnswered and Loading(l), said of the states: *)
(* each action alone ends what enables it, a load after the last sign-in.    *)
Searching == \E r \in db.sent : r.kind # "recount"

FairSpec ==
    /\ Spec
    /\ []<>~db.timer /\ []<>~Searching
    /\ \A l \in Lists : []<>(load[l].at = "idle")
=============================================================================
