---------------------------- MODULE CarHandover ----------------------------
(***************************************************************************)
(* What the two driving tasks of the car promise each other, without       *)
(* threads, semaphores or flags: the right to drive travels round a ring   *)
(*                                                                         *)
(*     trace -> toBox -> box -> toTrace -> trace                           *)
(*                                                                         *)
(* and a new round starts only from a sighting made while the detector was *)
(* armed.  CarTasks implements this specification.                         *)
(***************************************************************************)

VARIABLES
  driver,    \* who drives, or to whom the right to drive is on its way
  sighted,   \* a box has been reported and not yet been dealt with
  quiet      \* the detector is silenced after a push

vars == <<driver, sighted, quiet>>

Init ==
  /\ driver = "trace"
  /\ sighted = FALSE
  /\ quiet = FALSE

\* The detector reports a box.  It cannot while it is silenced.
Sight ==
  /\ ~quiet
  /\ sighted' = TRUE
  /\ UNCHANGED <<driver, quiet>>

\* The line follower stops for the reported box and gives the car away.
GiveAway ==
  /\ driver = "trace"
  /\ sighted
  /\ ~quiet
  /\ driver' = "toBox"
  /\ UNCHANGED <<sighted, quiet>>

\* The box task begins to drive.
BoxTakes ==
  /\ driver = "toBox"
  /\ driver' = "box"
  /\ UNCHANGED <<sighted, quiet>>

\* The box task has pushed its box and hands the car back.
BoxReturns ==
  /\ driver = "box"
  /\ driver' = "toTrace"
  /\ UNCHANGED <<sighted, quiet>>

\* The line follower drives again, the report is dealt with and the
\* detector stays silent for a while.
TraceTakes ==
  /\ driver = "toTrace"
  /\ driver' = "trace"
  /\ sighted' = FALSE
  /\ quiet' = TRUE

\* The silence ends.
Rearm ==
  /\ driver = "trace"
  /\ quiet
  /\ quiet' = FALSE
  /\ UNCHANGED <<driver, sighted>>

Next == Sight \/ GiveAway \/ BoxTakes \/ BoxReturns \/ TraceTakes \/ Rearm

Spec == Init /\ [][Next]_vars
=============================================================================
