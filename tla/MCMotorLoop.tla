---------------------------- MODULE MCMotorLoop -----------------------------
(* A standing car, and one that drives back and to the side, with a wheel at    *)
(* more than the limit; a command half written mixes the two.  The turn is the  *)
(* other way round, so that it takes a wheel below the limit or past it.        *)
EXTENDS MotorLoop

SomeCommands ==
  {[Vx |-> 0, Vy |-> 0, Omega |-> 0],
   [Vx |-> -1000, Vy |-> -433, Omega |-> 0]}

SomeYawErrors == {-200, 0}
=============================================================================
