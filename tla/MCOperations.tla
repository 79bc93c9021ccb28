---------------------------- MODULE MCOperations ----------------------------
(***************************************************************************)
(* What an operator starts: the process of the API (ProcessLifecycle) and  *)
(* the script that seeds demo data (DemoSeed).  The two keep no state in   *)
(* common, so TLC takes them one at a time: a behaviour is about one of    *)
(* them, and stays in the world it starts in.                              *)
(*                                                                         *)
(* The process.  `prompt': what the configuration asks for, no Socket.IO,  *)
(* nothing fails and no client holds a connection for too long.  `plain':  *)
(* anything may fail, clients may wait for ever.  `sockets': the same with *)
(* Socket.IO, and its clients.  The script.  `seed': it is cut off and run *)
(* again.                                                                  *)
(***************************************************************************)
EXTENDS ProcessLifecycle, DemoSeed

VARIABLE world

Plain == INSTANCE ProcessLifecycle WITH Faults <- TRUE, Slow <- TRUE
Sockets ==
  INSTANCE ProcessLifecycle
    WITH SocketEnabled <- TRUE, Faults <- TRUE, Slow <- TRUE

WorldsInit == world \in { "sockets", "plain", "prompt", "seed" } /\ Init /\ SeedInit

WorldsNext ==
  /\ UNCHANGED world
  /\ \/ /\ \/ world = "sockets" /\ Sockets!Next
           \/ world = "plain" /\ Plain!Next
           \/ world = "prompt" /\ Next
        /\ UNCHANGED seedVars
     \/ world = "seed" /\ SeedNext /\ UNCHANGED vars

\* The process goes on by itself and its timer fires.
WorldsSpec ==
  /\ WorldsInit /\ [][WorldsNext]_<< vars, seedVars, world >>
  /\ WF_vars(world = "sockets" /\ Sockets!Step)
  /\ WF_vars(world = "plain" /\ Plain!Step)
  /\ WF_vars(world \in { "sockets", "plain" } /\ Plain!ForceExit)

\* Without Socket.IO the process does not leave its database open when it was
\* told to stop, nothing failed and nobody held a connection.
PromptClosesFirst == world = "prompt" => ClosesBeforeExit

\* A signal ends the process, whatever its clients do and whatever hangs (the
\* force timer).
SignalEndsIt == world # "prompt" => SignalEnds

=============================================================================
