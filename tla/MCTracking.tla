---------------------------- MODULE MCTracking ----------------------------
(***************************************************************************)
(* Model values of Tracking for TLC (two providers and the customer, each  *)
(* with a socket), and two worlds.  `race': two handlers that overlap, and *)
(* saves that fail.  `serial': what the configuration asks for, one at a   *)
(* time, over several intervals.  A behaviour stays in the world it starts *)
(* in.                                                                     *)
(***************************************************************************)
EXTENDS Tracking, TLC

CONSTANTS p1, p2, s1, s2, sc

OwnerOf == (s1 :> p1) @@ (s2 :> p2) @@ (sc :> Customer)

Symmetry == Permutations(Handler)

VARIABLE world

Race == INSTANCE Tracking WITH Overlap <- TRUE

\* Bounds of the race: on the clock, and on who is there.  The customer may
\* always join.
RaceIsSmall == now' <= Interval + 1 /\ sc \notin open'

WorldsInit == world \in { "race", "serial" } /\ Init

WorldsNext ==
  /\ UNCHANGED world
  /\ \/ world = "race" /\ Race!Next /\ RaceIsSmall
     \/ world = "serial" /\ Next

WorldsSpec == WorldsInit /\ [][WorldsNext]_<< vars, world >>

\* One handler at a time and nothing fails: the stored position lags the
\* broadcast one by less than an interval (handleLocationUpdate).
StoredKeepsUp == world = "serial" => StoredIsRecent

=============================================================================
