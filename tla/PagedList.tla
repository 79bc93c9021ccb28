----------------------------- MODULE PagedList -----------------------------
(***************************************************************************)
(* A client walks a list page by page (findPaginated, base.repository.ts,  *)
(* with pagination.util.ts) while documents are created and deleted.  The  *)
(* list is in the default order, newest first.  The page and the total are *)
(* two queries in flight together, answered in any order, and the total    *)
(* counts deleted documents: only finds pass them over.  A page is the set  *)
(* of its documents.                                                       *)
(***************************************************************************)
EXTENDS Naturals, SequencesExt

CONSTANTS
  MAX_LIMIT,      \* of normalizePagination
  Limits,         \* limits that clients ask for
  MaxRows         \* bound: documents ever created

ASSUME PagedAssumption ==
  MAX_LIMIT \in Nat \ {0} /\ Limits \subseteq Nat /\ MaxRows \in Nat

VARIABLES
  rows,           \* rows[i]: is the i-th document created still listed?
  walk,           \* the client's walk and the call in flight
  begun,          \* history: what was listed when the walk began
  got,            \* history: got[i], how often the client was given i
  disturbed       \* history: what has happened to the list during the walk

pagedVars == << rows, walk, begun, got, disturbed >>

Rows == 1 .. MaxRows
Asleep == [ active |-> FALSE, page |-> 1, limit |-> 1, data |-> {}, total |-> 0,
            need |-> {}, more |-> TRUE ]

PagedInit ==
  /\ rows \in UNION { [1 .. n -> BOOLEAN] : n \in 0 .. MaxRows }
  /\ walk = Asleep
  /\ begun = {} /\ got = [i \in Rows |-> 0] /\ disturbed = {}

-----------------------------------------------------------------------------
\* normalizePagination
Clamped(limit) ==
  LET atLeast == IF limit < 1 THEN 1 ELSE limit
  IN  IF atLeast > MAX_LIMIT THEN MAX_LIMIT ELSE atLeast

\* What finds see, and the place of a document in the list, newest first.
Listed == { i \in DOMAIN rows : rows[i] }
Place(i) == Cardinality({ j \in Listed : j >= i })

\* Mutated: pages are counted from 0.
Page_FromZero(page, limit) ==
  LET skip == page * limit
  IN  { i \in Listed : skip < Place(i) /\ Place(i) <= skip + limit }

\* find with skip and limit.
Page(page, limit) ==
  LET skip == (page - 1) * limit
  IN  { i \in Listed : skip < Place(i) /\ Place(i) <= skip + limit }

\* buildPaginationMeta
totalPages(total, limit) ==
  LET n == (total + limit - 1) \div limit IN IF n < 1 THEN 1 ELSE n

StartWalk(limit) ==
  /\ ~ walk.active /\ walk.more
  /\ walk' = [Asleep EXCEPT !.active = TRUE, !.limit = Clamped(limit),
                            !.need = { "data", "total" }]
  /\ begun' = Listed
  /\ UNCHANGED << rows, got, disturbed >>

FindAnswered ==
  /\ walk.active /\ "data" \in walk.need
  /\ walk' = [walk EXCEPT !.need = @ \ { "data" }, !.data = Page(walk.page, walk.limit)]
  /\ UNCHANGED << rows, begun, got, disturbed >>

CountAnswered ==
  /\ walk.active /\ "total" \in walk.need
  /\ walk' = [walk EXCEPT !.need = @ \ { "total" }, !.total = Len(rows)]
  /\ UNCHANGED << rows, begun, got, disturbed >>

\* toPaginatedResult; the client goes on while there is a next page.
PageDone ==
  LET hasNextPage == walk.page < totalPages(walk.total, walk.limit) IN
  /\ walk.active /\ walk.need = {}
  /\ got' = [i \in Rows |-> IF i \in walk.data THEN got[i] + 1 ELSE got[i]]
  /\ walk' = IF hasNextPage
             THEN [walk EXCEPT !.page = @ + 1, !.data = {}, !.total = 0,
                               !.need = { "data", "total" }]
             ELSE [Asleep EXCEPT !.more = FALSE]
  /\ UNCHANGED << rows, begun, disturbed >>

\* Was the list changed between the two answers of one page?
Torn == IF walk.active /\ walk.need \in { { "data" }, { "total" } } THEN { "torn" } ELSE {}
During(what) == IF walk.active THEN { what } \cup Torn ELSE {}

CreateRow ==
  /\ Len(rows) < MaxRows
  /\ rows' = Append(rows, TRUE)
  /\ disturbed' = disturbed \cup During("created")
  /\ UNCHANGED << walk, begun, got >>

DeleteRow(i) ==
  /\ rows[i]
  /\ rows' = [rows EXCEPT ![i] = FALSE]
  /\ disturbed' = disturbed \cup During("deleted")
  /\ UNCHANGED << walk, begun, got >>

PagedNext ==
  \/ \E l \in Limits : StartWalk(l)
  \/ FindAnswered \/ CountAnswered \/ PageDone
  \/ CreateRow
  \/ \E i \in DOMAIN rows : DeleteRow(i)

PagedSpec == PagedInit /\ [][PagedNext]_pagedVars

-----------------------------------------------------------------------------
(***************************************************************************)
(* Properties                                                              *)
(***************************************************************************)
\* A client that follows hasNextPage to the end has been given everything that
\* was listed when it began, whatever is created meanwhile; but for documents
\* deleted during the walk, which draw others forward over the edge of a page,
\* and changes between a page and its total (base.repository.ts:28-40,
\* pagination.util.ts:34-66).
WalkSeesAll ==
  (~ walk.more /\ disturbed \cap { "deleted", "torn" } = {}) =>
    \A i \in begun : got[i] > 0

\* It is given nothing twice, unless something was created meanwhile
\* (pagination.util.ts:37).
NothingTwice == "created" \notin disturbed => \A i \in Rows : got[i] <= 1

\* A walk over the pages is faithful to the list: both of the above.
WalkIsFaithful == WalkSeesAll /\ NothingTwice

=============================================================================
