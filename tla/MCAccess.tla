------------------------------ MODULE MCAccess ------------------------------
(***************************************************************************)
(* Who is let in: the refresh-token sessions of a user (AuthSessions) and  *)
(* the status that authenticate looks at (UserStatusCache).  The two keep  *)
(* no state in common, so TLC takes them one at a time: a behaviour is     *)
(* about one of them, and stays in the world it starts in.                 *)
(*                                                                         *)
(* Sessions.  `cut': what the configuration asks for, one handler at a     *)
(* time, cut off anywhere.  `calm': the same, and nothing fails.  `race':  *)
(* any two handlers, cut off anywhere, and tokens that are signed in the   *)
(* same second; there sessions soon expire and the clock stops early.      *)
(* Status.  `quiet': what the configuration asks for, one process and one  *)
(* call at a time.  `instances': two, and calls in flight together.        *)
(***************************************************************************)
EXTENDS AuthSessions, UserStatusCache, TLC

CONSTANTS h1, h2, i1, i2

Symmetry == Permutations({ h1, h2 })

-----------------------------------------------------------------------------
VARIABLE world

Race ==
  INSTANCE AuthSessions WITH Overlap <- TRUE, SameSecond <- TRUE, Lifetime <- 1
Several ==
  INSTANCE UserStatusCache WITH Instance <- { i1, i2 }, CacheOverlap <- TRUE

RaceEnd == 2    \* bound on the clock of the race

\* The part that a behaviour is not about: an empty one.
Resting == CacheInit
NoUser  == Init

WorldsInit ==
  \/ world \in { "calm", "cut", "race" } /\ Init /\ Resting
  \/ world = "instances" /\ Several!CacheInit /\ NoUser
  \/ world = "quiet" /\ CacheInit /\ NoUser

WorldsNext ==
  /\ UNCHANGED world
  /\ \/ /\ \/ world = "calm" /\ Unfailing
           \/ world = "cut" /\ Next
           \/ world = "race" /\ Race!Next /\ now' <= RaceEnd
        /\ UNCHANGED cacheVars
     \/ /\ \/ world = "instances" /\ Several!CacheNext
           \/ world = "quiet" /\ CacheNext
        /\ UNCHANGED vars

WorldsSpec == WorldsInit /\ [][WorldsNext]_<< vars, cacheVars, world >>

\* One handler at a time, tokens signed in different seconds: a token whose
\* revocation was confirmed is refused, even after a crash between two saves
\* (refreshAccessToken, logout, logoutAll).
RevokedIsRefused == world # "race" => RevokedRefused

\* One handler at a time: a chain of rotations never leaves two sessions,
\* even after a crash between revoking and storing (refreshAccessToken).
LoginIsOneSession == world # "race" => OneSessionPerLogin

\* One handler at a time, cut off anywhere: both of the above.
RevocationHolds == RevokedIsRefused /\ LoginIsOneSession

\* One handler at a time and nothing fails: clients keep exactly the sessions
\* they were promised (persistRefreshToken's filter and cap).
PromiseIsKept == world = "calm" => SessionsAsPromised

\* One process, one call at a time: a change of a user's status shows at once
\* (updateUserStatus invalidates the entry after the update).
ChangeShowsAtOnce == world = "quiet" => CoherentWhenQuiet

=============================================================================
