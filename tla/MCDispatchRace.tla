--------------------------- MODULE MCDispatchRace ---------------------------
(***************************************************************************)
(* Dispatch with handlers that overlap on one request, in two worlds.      *)
(* `faulty': providers are onboarded, reviewed and dispatched, and any     *)
(* write may be lost.                                                      *)
(* `fair': a verified provider, no write is lost and no handler is left    *)
(* suspended for ever.                                                     *)
(***************************************************************************)
EXTENDS MCDispatch

VARIABLE world

Fair ==
  INSTANCE DispatchProperties
    WITH Ops <- DispatchKycOps, SeededProvider <- Provider, Faults <- FALSE

RaceInit ==
  \/ world = "faulty" /\ Init
  \/ world = "fair" /\ Fair!Init

RaceNext ==
  /\ UNCHANGED world
  /\ \/ world = "faulty" /\ Next
     \/ world = "fair" /\ Fair!Next

\* The driver resolves or rejects every await, and the event loop runs every
\* continuation.  Callers owe nothing.
FairContinue(h) == world = "fair" /\ Fair!Continue(h) /\ UNCHANGED world

RaceSpec ==
  /\ RaceInit
  /\ [][RaceNext]_<< vars, world >>
  /\ \A h \in Handler : WF_<< vars, world >>(FairContinue(h))

\* If no write is lost, no request stays in CREATED, which no query of the
\* dispatcher looks for (breakdown.service.ts:224-225).
CreatedIsLeft == world = "fair" => Fair!CreatedIsTransient

\* If no write is lost, a cancellation that has passed its checks takes effect,
\* whatever else happens meanwhile (breakdown.service.ts:442-447).
CancelIsFinal == world = "fair" => Fair!CancelTakesEffect

=============================================================================
