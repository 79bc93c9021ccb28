-------------------------- MODULE MCNotifications --------------------------
(***************************************************************************)
(* Model values of Notifications for TLC, and two worlds.  `race': one     *)
(* call, a reader at any moment, rejected awaits and crashes.  `quiet':    *)
(* what the configuration asks for, two calls and a reader, one at a time, *)
(* and nothing fails.  A behaviour stays in the world it starts in.        *)
(***************************************************************************)
EXTENDS Notifications, TLC

CONSTANTS c1, c2

AllEvents == { "created", "assigned", "arrived", "completed", "cancelled", "status" }

Symmetry == Permutations(Admin)

VARIABLE world

Race == INSTANCE Notifications WITH Overlap <- TRUE, Faults <- TRUE

Idlest == [event |-> "status", assigned |-> FALSE, emergency |-> FALSE]

\* Bound of the race: the second call is never made, whatever it is about.
OneCall == call[c2] = [pc |-> "unused", kind |-> Idlest, at |-> 0]

\* Nor do two sends fail, but in a crash.
RaceIsSmall ==
  /\ OneCall'
  /\ \/ call'[c1].pc = "lost"
     \/ Cardinality({ i \in Id : send'[i].pc = "failed" }) <= 1

\* No bound: one call at a time, so that the calls may be numbered in the order
\* in which they are made.
InOrder == call'[c2].pc # "unused" => call[c1].pc # "unused"

\* No bound either: what a call does not look at (Stages, Concerned) is fixed.
ToThePoint ==
  \A c \in Call : LET k == Calls(c) IN
    /\ k.assigned => k.event \in { "created", "completed", "cancelled" }
    /\ k.emergency => k.event \in { "created", "status" }

WorldsInit ==
  /\ world \in { "race", "quiet" } /\ Init /\ ToThePoint
  /\ world = "race" => OneCall

WorldsNext ==
  /\ UNCHANGED world
  /\ \/ world = "race" /\ Race!Next /\ RaceIsSmall
     \/ world = "quiet" /\ Next /\ InOrder

WorldsSpec == WorldsInit /\ [][WorldsNext]_<< vars, world >>

\* One thing at a time and nothing fails: the count on every screen is right
\* (emitUnreadCount at the end of send, markAsRead and markAllAsRead).
CountIsRight == world = "quiet" => CountRightWhenQuiet

=====
