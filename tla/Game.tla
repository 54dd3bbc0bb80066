------------------------------- MODULE Game -------------------------------
(***************************************************************************)
(* What each of the four frisbee programs promises: the players hand the   *)
(* token round in the order of their numbers, exactly maxpass times, and   *)
(* the end of the game is announced only after that.                       *)
(***************************************************************************)
EXTENDS Naturals

VARIABLES
  numthreads, maxpass,   \* the arguments of the program
  owner,    \* the player who has the token
  passes,   \* the number of the pass to come
  over      \* the end has been announced

gameVars == <<numthreads, maxpass, owner, passes, over>>

GameInit == owner = 0 /\ passes = 1 /\ over = FALSE

Pass ==
  /\ passes <= maxpass
  /\ owner' = (owner + 1) % numthreads
  /\ passes' = passes + 1
  /\ UNCHANGED <<numthreads, maxpass, over>>

Announce ==
  /\ passes = maxpass + 1
  /\ over' = TRUE
  /\ UNCHANGED <<numthreads, maxpass, owner, passes>>

GameSpec == GameInit /\ [][Pass \/ Announce]_gameVars
=============================================================================
