------------------------------- MODULE Calls -------------------------------
(***************************************************************************)
(* What the diary and the locks of the database adapters have in common:   *)
(* the calls under way, in whatever processes, and Date.now(), which is    *)
(* taken to be the same for all of them.                                   *)
(***************************************************************************)
EXTENDS Integers

CONSTANTS
  Call,     \* calls of operations, each of which may ask for the lock once
  MaxTime   \* bound: the clock stops here

VARIABLE now   \* Date.now()
=============================================================================
