---------------------------- MODULE MCPresence ----------------------------
(***************************************************************************)
(* Three worlds of presence for TLC.  `race': anything may happen while a  *)
(* provider:online awaits the database.  `serial': nothing does, as the    *)
(* configuration asks for.  `limited': nothing does, and the events of a   *)
(* single socket pass the limiter.  A behaviour stays in the world it      *)
(* starts in.                                                              *)
(***************************************************************************)
EXTENDS SocketEvents

CONSTANT s1

VARIABLE world

Race == INSTANCE Presence WITH Overlap <- TRUE

WorldsInit == world \in { "race", "serial", "limited" } /\ Init /\ LimiterInit

WorldsNext ==
  /\ UNCHANGED world
  /\ \/ world = "race" /\ Race!Next /\ UNCHANGED limiterVars
     \/ world = "serial" /\ Next /\ UNCHANGED limiterVars
     \/ /\ world = "limited"
        /\ EventNext
        /\ \A s \in Socket \ { s1 } : transport'[s] = "closed"

\* The interval of the monitor fires again and again (it is asked of the
\* racing world alone: it cannot wait for a provider:online there).
WorldsSpec ==
  /\ WorldsInit /\ [][WorldsNext]_<< eventVars, world >>
  /\ WF_<< eventVars, world >>(world = "race" /\ Race!Sweep /\ UNCHANGED << limiterVars, world >>)

\* Nothing happens while a provider:online awaits: without a session the
\* provider is offline and announced so (unregisterConnection).
GoneMeansOffline == world = "serial" => GoneIsOffline

\* Whatever races: a client that fell silent is dropped, unless it is heard
\* again (startHeartbeatMonitor).
SilentAreDropped == world = "race" => SilentIsDropped

=============================================================================
