------------------------------ MODULE DemoSeed ------------------------------
(***************************************************************************)
(* The script that fills a database with demo data                         *)
(* (scripts/seed-demo-data.ts): users, provider profiles, vehicles,        *)
(* requests and notifications, each created unless it is there, in an order*)
(* that gives every document the ids of those it refers to.  It may be cut *)
(* off anywhere and run again, or run with --reset, which first deletes    *)
(* everything; customers use the demo accounts meanwhile.  One run at a    *)
(* time, which is how it is meant to be used.                              *)
(*                                                                         *)
(* A document is named by its collection and its key in the script.        *)
(***************************************************************************)
EXTENDS Naturals, Sequences, Functions

CONSTANTS
  SeedFaults,     \* may the script be cut off?
  MaxResets,      \* bound: runs with --reset
  Deletable       \* bound: customers who may delete their vehicle

ASSUME SeedAssumption ==
  SeedFaults \in BOOLEAN /\ MaxResets \in Nat /\ Deletable \subseteq STRING

VARIABLES
  docs,           \* the documents of the demo
  script          \* the run: where it is and the ids that it has loaded

seedVars == << docs, script >>

-----------------------------------------------------------------------------
(***************************************************************************)
(* The tables of the script, without what no other document depends on.    *)
(***************************************************************************)
demoCustomers == << "priya", "rahul", "ananya", "karan" >>
demoAdmin     == "admin"
demoProviders == << "vikram", "sneha", "arjun", "meera", "rohan" >>

\* One for each customer, named after its owner.
demoVehicles == demoCustomers

\* seedKey, customer (and the one vehicle of theirs), provider, status.
demoBreakdowns ==
  << << "BR-001", "priya",  "vikram", "COMPLETED" >>,
     << "BR-002", "priya",  "arjun",  "ON_THE_WAY" >>,
     << "BR-003", "rahul",  "meera",  "PROVIDER_ASSIGNED" >>,
     << "BR-004", "ananya", "sneha",  "PROVIDER_ASSIGNED" >>,
     << "BR-005", "ananya", "rohan",  "IN_PROGRESS" >>,
     << "BR-006", "karan",  "nobody", "CANCELLED" >>,
     << "BR-007", "rahul",  "meera",  "ARRIVED" >>,
     << "BR-008", "karan",  "vikram", "COMPLETED" >>,
     << "BR-009", "rahul",  "vikram", "COMPLETED" >>,
     << "BR-010", "ananya", "vikram", "PROVIDER_ASSIGNED" >>,
     << "BR-011", "karan",  "sneha",  "COMPLETED" >>,
     << "BR-012", "priya",  "sneha",  "COMPLETED" >>,
     << "BR-013", "rahul",  "sneha",  "ON_THE_WAY" >>,
     << "BR-014", "karan",  "arjun",  "COMPLETED" >>,
     << "BR-015", "ananya", "arjun",  "COMPLETED" >>,
     << "BR-016", "priya",  "meera",  "COMPLETED" >>,
     << "BR-017", "rahul",  "rohan",  "COMPLETED" >>,
     << "BR-018", "priya",  "rohan",  "ARRIVED" >>,
     << "BR-019", "karan",  "vikram", "IN_PROGRESS" >>,
     << "BR-020", "ananya", "meera",  "COMPLETED" >> >>

\* seedKey, user, breakdownSeedKey.
demoNotifications ==
  << << "NT-001", "priya",  "BR-001" >>, << "NT-002", "priya",  "BR-002" >>,
     << "NT-003", "rahul",  "BR-003" >>, << "NT-007", "vikram", "BR-010" >>,
     << "NT-008", "sneha",  "BR-013" >>, << "NT-009", "meera",  "BR-016" >>,
     << "NT-004", "ananya", "BR-004" >>, << "NT-005", "karan",  "BR-006" >>,
     << "NT-006", "admin",  "none" >> >>

\* The documents of one kind, for the rows of a table of keys.
Named(kind, keys) == [i \in DOMAIN keys |-> << kind, keys[i] >>]
Keys(rows) == [i \in DOMAIN rows |-> rows[i][1]]

SeedUsers ==
  Named("user", demoCustomers)
  \o [n \in 1 .. 2 * Len(demoProviders) |->
       << IF n % 2 = 1 THEN "user" ELSE "profile", demoProviders[(n + 1) \div 2] >>]
  \o << << "user", demoAdmin >> >>

Load(what) == << << "load", what >> >>

\* Mutated: the ids of the vehicles are never loaded.
Plan_NoReload ==
  SeedUsers \o Load("ids")
  \o Named("vehicle", demoVehicles)
  \o Named("request", Keys(demoBreakdowns)) \o Load("requests")
  \o Named("note", Keys(demoNotifications))

\* main: what is sought and created, and when ids are loaded.
Plan ==
  SeedUsers \o Load("ids")
  \o Named("vehicle", demoVehicles) \o Load("ids")
  \o Named("request", Keys(demoBreakdowns)) \o Load("requests")
  \o Named("note", Keys(demoNotifications))

DemoItem == { p \in Range(Plan) : p[1] # "load" }

EntryOf(rows, key) == rows[CHOOSE i \in DOMAIN rows : rows[i][1] = key]

\* The documents without which this one is not created.
NeededBy(item) ==
  CASE item[1] = "user" -> {}
    [] item[1] \in { "profile", "vehicle" } -> { << "user", item[2] >> }
    [] item[1] = "request" ->
         LET c == EntryOf(demoBreakdowns, item[2])[2] IN { << "user", c >>, << "vehicle", c >> }
    [] item[1] = "note" -> { << "user", EntryOf(demoNotifications, item[2])[2] >> }

\* Those that it names if they are there.
WantedBy(item) ==
  CASE item[1] = "request" -> { << "profile", EntryOf(demoBreakdowns, item[2])[3] >> } \cap DemoItem
    [] item[1] = "note" -> { << "request", EntryOf(demoNotifications, item[2])[3] >> } \cap DemoItem
    [] OTHER -> {}

Served == { "PROVIDER_ASSIGNED", "ON_THE_WAY", "ARRIVED", "IN_PROGRESS", "COMPLETED" }

\* Which of a request's dates are set.
breakdownTimestamps(status) ==
  { "assignedAt"  : x \in { status } \cap Served }
  \cup { "arrivedAt"   : x \in { status } \cap { "ARRIVED", "IN_PROGRESS", "COMPLETED" } }
  \cup { "completedAt" : x \in { status } \cap { "COMPLETED" } }
  \cup { "cancelledAt" : x \in { status } \cap { "CANCELLED" } }

-----------------------------------------------------------------------------
\* Ids: 0 is none; documents created after the n-th reset have id n + 1.
NoDocument == [ id |-> 0, deleted |-> FALSE, refs |-> {}, dates |-> {} ]
NoIds == [i \in DemoItem |-> 0]

SeedInit ==
  /\ docs = [i \in DemoItem |-> NoDocument]
  /\ script = [ pc |-> "idle", at |-> 0, found |-> {}, ids |-> NoIds,
               run |-> 1, fresh |-> FALSE ]

\* find and findOne see no deleted document.
Findable(i) == docs[i].id # 0 /\ ~ docs[i].deleted

SeedGoes(pc, at) == script' = [script EXCEPT !.pc = pc, !.at = at]

\* The process ends; its memory is gone.
RunEnds(pc) == script' = [ pc |-> pc, at |-> 0, found |-> {}, ids |-> NoIds,
                        run |-> script.run, fresh |-> FALSE ]

StartSeed ==
  /\ script.pc \in { "idle", "done" }
  /\ script' = [script EXCEPT !.pc = "seed", !.at = 1, !.ids = NoIds,
                              !.fresh = FALSE]
  /\ UNCHANGED docs

(***************************************************************************)
(* clearDemoData: the documents of the users found, in this order, then    *)
(* what carries the marks of the demo.                                     *)
(***************************************************************************)
\* Mutated: vehicles first.
ClearOrder_VehiclesFirst == << "vehicle", "note", "request", "profile", "user", "note", "request" >>

ClearOrder == << "note", "request", "vehicle", "profile", "user", "note", "request" >>

StartReset ==
  /\ script.pc \in { "idle", "done" }
  /\ script.run <= MaxResets
  /\ script' = [script EXCEPT !.pc = "clear", !.at = 1, !.run = @ + 1, !.ids = NoIds,
                              !.fresh = TRUE,
                              !.found = { i \in DemoItem : i[1] = "user" /\ Findable(i) }]
  /\ UNCHANGED docs

\* deleteMany reaches deleted vehicles too.
SweptAway(i) ==
  /\ i[1] = ClearOrder[script.at]
  /\ script.at <= 5 => (NeededBy(i) \cup { i }) \cap script.found # {}

ClearNext ==
  /\ script.pc = "clear"
  /\ docs' = [i \in DemoItem |-> IF SweptAway(i) THEN NoDocument ELSE docs[i]]
  /\ IF script.at = Len(ClearOrder) THEN SeedGoes("seed", 1)
                                    ELSE SeedGoes("clear", script.at + 1)

(***************************************************************************)
(* One step of the plan.                                                   *)
(***************************************************************************)
\* loadDemoIdMaps, and the keys of seedDemoNotifications.
LoadIds ==
  /\ script.pc = "seed" /\ script.at <= Len(Plan)
  /\ Plan[script.at][1] = "load"
  /\ script' = [script EXCEPT
       !.at = @ + 1,
       !.ids = [i \in DemoItem |->
         IF (i[1] = "request") # (Plan[script.at][2] = "requests") \/ i[1] = "note" THEN @[i]
         ELSE IF Findable(i) THEN docs[i].id ELSE 0]]
  /\ UNCHANGED docs

\* seedProviderProfile is handed the id of its user, the others take ids from
\* the maps.
IdOf(item, i) == IF item[1] = "profile" THEN docs[i].id ELSE script.ids[i]

SeededDocument(item) ==
  [ id      |-> script.run,
    deleted |-> FALSE,
    refs    |-> { << i, IdOf(item, i) >> :
                    i \in NeededBy(item) \cup { j \in WantedBy(item) : script.ids[j] # 0 } },
    dates   |-> IF item[1] = "request"
                THEN breakdownTimestamps(EntryOf(demoBreakdowns, item[2])[4]) ELSE {} ]

\* Is this document created?
ToCreate(item) == ~ Findable(item) /\ \A i \in NeededBy(item) : IdOf(item, i) # 0

\* The unique index refuses it: a deleted one is in its place.
SeedRejects(item) == ToCreate(item) /\ docs[item].deleted

SeedOne ==
  /\ script.pc = "seed" /\ script.at <= Len(Plan)
  /\ LET item == Plan[script.at] IN
     /\ item[1] # "load"
     /\ ~ SeedRejects(item)
     /\ docs' = IF ToCreate(item) THEN [docs EXCEPT ![item] = SeededDocument(item)] ELSE docs
  /\ SeedGoes("seed", script.at + 1)

\* A vehicle that its owner has deleted is not found, and still in the way of
\* the one that is inserted: the unique index refuses it, the script ends.
SeedRejected ==
  /\ script.pc = "seed" /\ script.at <= Len(Plan)
  /\ Plan[script.at][1] # "load" /\ SeedRejects(Plan[script.at])
  /\ RunEnds("idle")
  /\ UNCHANGED docs

SeedEnds ==
  /\ script.pc = "seed" /\ script.at > Len(Plan)
  /\ RunEnds("done")
  /\ UNCHANGED docs

SeedCut ==
  /\ SeedFaults
  /\ script.pc \in { "seed", "clear" }
  /\ RunEnds("idle")
  /\ UNCHANGED docs

\* deleteVehicle, by the customer of a demo account.
DeleteDemoVehicle(c) ==
  /\ Findable(<< "vehicle", c >>)
  /\ docs' = [docs EXCEPT ![<< "vehicle", c >>].deleted = TRUE]
  /\ UNCHANGED script

SeedNext ==
  \/ StartSeed \/ StartReset \/ ClearNext
  \/ LoadIds \/ SeedOne \/ SeedRejected \/ SeedEnds \/ SeedCut
  \/ \E c \in Deletable : DeleteDemoVehicle(c)

SeedSpec == SeedInit /\ [][SeedNext]_seedVars

-----------------------------------------------------------------------------
(***************************************************************************)
(* Properties                                                              *)
(***************************************************************************)
IsThere(i) == docs[i].id # 0

\* At no time, in the middle of a reset or after a run was cut off and another
\* has begun, does a document of the demo refer to one that is gone: what
\* refers is created last and deleted first (seed-demo-data.ts:714-734,
\* 1012-1026).
ReferencesResolve ==
  \A i \in DemoItem : \A r \in docs[i].refs : docs[r[1]].id = r[2]

\* What the dispatcher relies on, of requests that it has not dispatched: a
\* request that is being served, or was, names its provider, and its dates
\* account for its status; whatever runs were cut off before
\* (seed-demo-data.ts:687-712, 839-859).
SeededAsDispatched ==
  \A row \in Range(demoBreakdowns) :
    LET doc == docs[<< "request", row[1] >>] IN
    IsThere(<< "request", row[1] >>) =>
      /\ row[4] \in Served =>
           (\E r \in doc.refs : r[1][1] = "profile") /\ "assignedAt" \in doc.dates
      /\ row[4] \in { "ARRIVED", "IN_PROGRESS", "COMPLETED" } => "arrivedAt" \in doc.dates
      /\ row[4] = "COMPLETED" <=> "completedAt" \in doc.dates
      /\ row[4] = "CANCELLED" <=> "cancelledAt" \in doc.dates

\* A run that reports success has left the whole demo behind, however many
\* were cut off before, unless a vehicle of the demo has been deleted
\* (seed-demo-data.ts:984-1030; docs/SEED-DEMO-DATA.md:104).
CompleteRunIsWhole ==
  (script.pc = "done" /\ \A c \in Range(demoCustomers) : ~ docs[<< "vehicle", c >>].deleted) =>
    \A i \in DemoItem : IsThere(i)

\* A run with --reset is never refused by the unique index, although a deleted
\* vehicle keeps its place in it, and makes every run without --reset fail
\* (seed-demo-data.ts:725, 789-796, vehicle.schema.ts:57).
ResetGetsThrough ==
  (script.fresh /\ script.pc = "seed" /\ script.at <= Len(Plan)) =>
    (Plan[script.at][1] # "load" => ~ SeedRejects(Plan[script.at]))

\* The demo is what the dispatcher and an operator may rely on: the three
\* above, whenever the script is cut off, run again or reset.
DemoIsWhole == SeededAsDispatched /\ CompleteRunIsWhole /\ ResetGetsThrough

=============================================================================
