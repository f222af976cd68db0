---------------------------- MODULE MCDatabrowser ----------------------------
(***************************************************************************)
(* The properties of the data browser's search, and the instance TLC       *)
(* checks.                                                                 *)
(***************************************************************************)
EXTENDS Databrowser

CONSTANTS freva, user, custom

Offered(out, in) == [signed \in BOOLEAN |-> IF signed THEN in ELSE out]

\* A scoped page in a custom flavour, whose map also overrides a baked one; a
\* scoped page whose link asks for a flavour of the user's; a plain page in the
\* user's own index.
MCMounts ==
    {[scoped |-> TRUE, own |-> custom, asked |-> NoFlavour, url |-> "none",
      offered |-> Offered({custom}, {freva, custom}), changes |-> 1, flips |-> 1],
     [scoped |-> TRUE, own |-> freva, asked |-> custom, url |-> custom,
      offered |-> Offered({}, {custom}), changes |-> 0, flips |-> 2],
     [scoped |-> FALSE, own |-> user, asked |-> NoFlavour, url |-> "junk",
      offered |-> Offered({custom}, {custom}), changes |-> 0, flips |-> 2]}

(* A search that is held back, or failed, for want of its flavour's map is   *)
(* not held to what follows.                                                *)
AtRest == db.search \in {"loaded", "empty"} /\ ~db.timer /\ CanScopedSearch(db)

(* What is shown without a sign of work under way belongs to the query that  *)
(* is shown, rows and facet counts alike, in whatever order searches,        *)
(* recounts and maps arrive (index.ts runSearch(), queryRevision).           *)
ShownIsCurrent ==
    AtRest => /\ db.facets = Wire(db)
              /\ \A i \in DOMAIN db.rows : db.rows[i].of = Wire(db)

(* An answer that changes what is shown is one for the query as it is when   *)
(* the answer lands, although a changed query is sent only after a delay: in *)
(* between nothing old settles (index.ts commitSearch(), queryRevision).     *)
AnswersFitQuery ==
    [][CanScopedSearch(db)
         => /\ db'.facets # db.facets => db'.facets = Wire(db)
            /\ db'.rows # db.rows => \A i \in DOMAIN db'.rows : db'.rows[i].of = Wire(db)]_browserVars

(* Rows are never spliced: they are the consecutive pages of one query, even *)
(* while another is being typed (index.ts loadNextPage(): "wait for the      *)
(* replacement instead of paginating a dead result set").                    *)
Keyed(wire) == cfg.scoped => wire.flavour \in Builtin \/ wire.key = "served"
RowsOfOneQuery ==
    (\A i \in DOMAIN db.rows : Keyed(db.rows[i].of))
        => \A i \in DOMAIN db.rows : db.rows[i] = [of |-> db.rows[1].of, at |-> i - 1]

(* A list at rest was loaded in the current session, or its load failed in   *)
(* it: no sign-in or sign-out during a load is lost (index.ts keepInStep()). *)
ListsInStep ==
    \A l \in Lists : load[l].at = "idle" => load[l].inStep

(* The spinner never stays: a search that is under way, held back or         *)
(* debounced ends in rows, in none, or in an error the user can retry        *)
(* (index.ts commitSearch(), heldScopedSearch).                              *)
SearchSettles == db.search = "loading" ~> db.search # "loading"

-----------------------------------------------------------------------------
(* What a comment says and the code does not do; see the README.            *)

(* "A custom flavour + baseFilters must not fire a search until its map is   *)
(* known, or the gate goes out under the wrong key" (index.ts                *)
(* commitSearch()).                                                          *)
ScopedRequestsKeyed == \A r \in db.sent : Keyed(r.wire)

(* Only "an imported key that isn't a real facet" is dropped, and the static *)
(* names are taken only "if BOTH /overview and the first search have failed" *)
(* (index.ts reconcileUrlImports()): a facet of the link is taken away by    *)
(* nobody but the user.                                                     *)
LinkedFacetKept ==
    [][db.url \in Flavour /\ db'.url = "none" => changes' # changes]_browserVars

\* An unscoped page in a custom flavour.
MCLinks ==
    {[scoped |-> FALSE, own |-> custom, asked |-> NoFlavour, url |-> custom,
      offered |-> Offered({custom}, {custom}), changes |-> 0, flips |-> 0]}
=============================================================================
