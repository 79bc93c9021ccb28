-------------------------- MODULE MCDispatchSerial --------------------------
(***************************************************************************)
(* Dispatch without two handlers on one request, in three worlds.          *)
(* `alone': what the configuration asks for, one handler at a time, every  *)
(* operation and faults between any two writes; the provider starts        *)
(* unverified.  `calm': the same without faults, and nobody edits a        *)
(* profile; the providers are seeded.  `several': two handlers at a time,  *)
(* on different requests, with faults.                                     *)
(***************************************************************************)
EXTENDS MCDispatch

CONSTANT p3

OneSlot        == { h1 }
ThreeProviders == { p1, p2, p3 }
TwoSeeded      == { p2, p3 }

\* The slots are interchangeable where there are two, and elsewhere h2 does
\* not occur.
SerialSymmetry == Permutations(TwoHandlers) \cup Permutations(Request)

VARIABLE world

Several == INSTANCE DispatchProperties WITH Handler <- TwoHandlers, Ops <- RequestOps

SerialInit ==
  \/ world = "several" /\ Several!Init
  \/ world \in { "alone", "calm" } /\ Init

\* Bounds: the providers that are used, and two requests.
Uses(slots, provs) == \A h \in slots : handler'[h].prov \in provs \cup { NoProvider }
TwoInUse == Cardinality({ r \in Request : requests'[r] # AbsentRequest }) <= 2

\* Not a profile that is edited, and no status that only an admin may set.
CalmCall(me) ==
  /\ me.op # "profile"
  /\ me.op = "status" => /\ me.rload.assignedProviderId \in Provider
                         /\ me.rdoc.status \in PROVIDER_PROGRESS_STATUSES

CalmNext == \E h \in Handler : (Accept(h) /\ CalmCall(handler'[h])) \/ Continue(h)

SerialNext ==
  /\ UNCHANGED world
  /\ \/ world = "several" /\ Several!Next /\ Uses(TwoHandlers, { p2 }) /\ TwoInUse
     \/ world = "alone" /\ Next /\ Uses(Handler, { p1 }) /\ TwoInUse
     \/ world = "calm" /\ CalmNext

SerialSpec == SerialInit /\ [][SerialNext]_<< vars, world >>

\* One handler at a time: who is online is verified, even when a handler is
\* cut off between two writes (updateAvailability, updateKycStatus).
OnlineIsVerified == world = "alone" => OnlineImpliesVerified

\* One handler at a time: no finished job is missing from its provider's
\* count, even when a handler is cut off (updateStatus).
FinishedIsCounted == world # "several" => CompletionsCounted

\* One handler at a time, cut off anywhere: both of the above.
ProviderAgrees == OnlineIsVerified /\ FinishedIsCounted

\* One handler at a time and no faults: between calls, what the provider
\* documents say agrees with what the request documents say.
CalmIsConsistent == world = "calm" => DispatchConsistent

=====
