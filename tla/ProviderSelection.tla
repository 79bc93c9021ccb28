------------------------- MODULE ProviderSelection -------------------------
(***************************************************************************)
(* The search for the provider of a new request                            *)
(* (findNearestEligibleProvider, breakdown.service.ts, on top of           *)
(* findNearbyWithDistance, provider.repository.ts): one query per preferred*)
(* type, one await after the other, merged in memory.  Providers go on     *)
(* moving, changing their type and being booked between the queries.       *)
(*                                                                         *)
(* Positions are distances from the breakdown, in a unit in which two      *)
(* providers may be equally far.                                           *)
(***************************************************************************)
EXTENDS Naturals, SequencesExt

CONSTANTS
  Candidate,      \* providers
  Issue,          \* what requests report
  SearchRadius,   \* input.searchRadiusKm
  Limit,          \* the limit of a query, 20
  Distance,       \* bound: distances of providers
  Reach,          \* bound: service radii of providers
  MaxEdits        \* bound: edits of providers during one search

ISSUE_TO_PROVIDER_TYPES ==
  [ FLAT_TIRE       |-> << "MECHANIC", "TOWING" >>,
    BATTERY_FAILURE |-> << "BATTERY_SUPPORT", "MECHANIC" >>,
    FUEL_EMPTY      |-> << "FUEL_DELIVERY" >>,
    ENGINE_FAILURE  |-> << "MECHANIC", "TOWING" >>,
    ACCIDENT        |-> << "TOWING", "MECHANIC" >>,
    BRAKE_FAILURE   |-> << "MECHANIC", "TOWING" >>,
    OVERHEATING     |-> << "MECHANIC" >>,
    LOCKOUT         |-> << "MECHANIC" >>,
    EV_BATTERY_LOW  |-> << "EV_SUPPORT", "BATTERY_SUPPORT" >> ]

ASSUME SelectionAssumption ==
  /\ IsFiniteSet(Candidate)
  /\ Issue \subseteq DOMAIN ISSUE_TO_PROVIDER_TYPES
  /\ Limit \in Nat \ {0}
  /\ SearchRadius \in Nat /\ MaxEdits \in Nat
  /\ Distance \subseteq Nat /\ Reach \subseteq Nat

VARIABLES
  preferred,      \* getPreferredProviderTypes(issueType), in their order
  garages,        \* what the search may read of the providers
  search,         \* the search in flight
  seen,           \* history: garages as it was at each query
  edits           \* how many edits there have been

selectionVars == << preferred, garages, search, seen, edits >>

\* AVAILABLE, ONLINE and VERIFIED are one flag: the search asks for all three.
\* Of a provider that is not all of them it reads nothing else.
Busy == [ type |-> "none", dist |-> 0, reach |-> 0, free |-> FALSE ]

Garage ==
  { Busy } \cup
  [ type  : UNION { ToSet(ISSUE_TO_PROVIDER_TYPES[i]) : i \in Issue },
    dist  : Distance,
    reach : Reach,
    free  : { TRUE } ]

SelectionInit ==
  /\ \E i \in Issue : preferred = ISSUE_TO_PROVIDER_TYPES[i]
  /\ garages \in [Candidate -> Garage]
  /\ search = [ pc |-> "query", todo |-> preferred, rows |-> << >> ]
  /\ seen = << >>
  /\ edits = 0

-----------------------------------------------------------------------------
(***************************************************************************)
(* findNearbyWithDistance                                                  *)
(***************************************************************************)
\* The filter of the query; its radius is the customer's.
InRange(world, type) ==
  { p \in Candidate : /\ world[p].free
                      /\ world[p].type = type
                      /\ world[p].dist <= SearchRadius }

RowOf(p) == [ id |-> p, dist |-> garages[p].dist, reach |-> garages[p].reach ]

\* The nearest first, at most Limit of them; equal distances in any order.
findNearbyWithDistance(type) ==
  LET found == InRange(garages, type)
      n == IF Cardinality(found) < Limit THEN Cardinality(found) ELSE Limit
  IN { s \in [1 .. n -> found] :
         /\ \A i, j \in 1 .. n : i < j => s[i] # s[j] /\ garages[s[i]].dist <= garages[s[j]].dist
         /\ \A p \in found \ ToSet(s), i \in 1 .. n : garages[s[i]].dist <= garages[p].dist }

-----------------------------------------------------------------------------
(***************************************************************************)
(* findNearestEligibleProvider                                             *)
(***************************************************************************)
\* byId.set: a Map keeps the place of a key that it already has.
Merge(rows, row) ==
  LET at == { i \in DOMAIN rows : rows[i].id = row.id } IN
  IF row.dist > row.reach THEN rows
  ELSE IF at = {} THEN Append(rows, row)
  ELSE [ i \in DOMAIN rows |->
           IF i \in at /\ row.dist < rows[i].dist THEN row ELSE rows[i] ]

\* The rows of one query, merged in their order.
Merged(rows, s) ==
  LET m[n \in 0 .. Len(s)] == IF n = 0 THEN rows ELSE Merge(m[n - 1], RowOf(s[n]))
  IN  m[Len(s)]

Query ==
  /\ search.pc = "query"
  /\ search.todo # << >>
  /\ \E s \in findNearbyWithDistance(Head(search.todo)) :
       search' = [ search EXCEPT
                     !.todo = Tail(@),
                     !.rows = Merged(@, s) ]
  /\ seen' = Append(seen, garages)
  /\ UNCHANGED << preferred, garages, edits >>

\* Mutated: the first row, unsorted.
Best_First(rows) == 1

\* A stable sort by distance; the first is the result.
Best(rows) ==
  CHOOSE i \in DOMAIN rows :
    \A j \in DOMAIN rows :
      rows[i].dist < rows[j].dist \/ (rows[i].dist = rows[j].dist /\ i <= j)

Choose ==
  /\ search.pc = "query"
  /\ search.todo = << >>
  /\ search' = [ search EXCEPT
                   !.pc = IF search.rows = << >> THEN "none" ELSE "found",
                   !.rows = IF @ = << >> THEN @ ELSE << @[Best(@)] >> ]
  /\ UNCHANGED << preferred, garages, seen, edits >>

\* A provider moves, is booked, changes its type or its radius.
EditGarage(p) ==
  /\ search.pc = "query" /\ seen # << >>
  /\ edits < MaxEdits
  /\ \E g \in Garage : garages' = [garages EXCEPT ![p] = g]
  /\ edits' = edits + 1
  /\ UNCHANGED << preferred, search, seen >>

SelectionNext ==
  \/ Query
  \/ Choose
  \/ \E p \in Candidate : EditGarage(p)

SelectionSpec == SelectionInit /\ [][SelectionNext]_selectionVars

-----------------------------------------------------------------------------
(***************************************************************************)
(* Properties, against a reference that looks at the providers once        *)
(***************************************************************************)
\* Could p take the request, in the world the k-th query saw?
EligibleAt(p, k) ==
  LET g == seen[k][p] IN
  /\ g.free /\ g.type \in ToSet(preferred)
  /\ g.dist <= SearchRadius /\ g.dist <= g.reach

\* Was it the k-th query that looked for providers like p?
CaughtBy(p, k) == EligibleAt(p, k) /\ seen[k][p].type = preferred[k]

\* No query had to leave a provider out.
Uncrowded ==
  \A k \in DOMAIN seen : Cardinality(InRange(seen[k], preferred[k])) <= Limit

\* Whoever is found was free, of a preferred type and within both radii at the
\* distance that is stored with the request, when one of the queries ran: the
\* stale document of an earlier query is the only slack
\* (breakdown.service.ts:128-147).
WinnerWasEligible ==
  search.pc = "found" =>
    \E k \in DOMAIN seen :
      /\ CaughtBy(search.rows[1].id, k)
      /\ seen[k][search.rows[1].id].dist = search.rows[1].dist

\* Nobody who could take the request throughout the search is passed over for
\* somebody farther away, or, at the same distance, for a type that is
\* preferred less, whatever the others do meanwhile; unless a query found
\* more than Limit providers: those whose own radius is too short count
\* against the limit (provider.repository.ts:71-82, breakdown.service.ts:140).
NobodyPassedOver ==
  (search.pc \in { "found", "none" } /\ Uncrowded) =>
    \A p \in Candidate, j \in DOMAIN seen :
      (CaughtBy(p, j) /\ \A k \in DOMAIN seen : seen[k][p] = seen[j][p]) =>
        LET far == seen[j][p].dist
            won == search.rows[1] IN
        /\ search.pc = "found"
        /\ won.dist <= far
        /\ won.dist = far => \E k \in 1 .. j : CaughtBy(won.id, k)

\* The search returns the nearest provider that could take the request: both
\* of the above (breakdown.service.ts:118-151).
NearestIsChosen == WinnerWasEligible /\ NobodyPassedOver

=============================================================================
