----------------------------- MODULE MotorLoop ------------------------------
(***************************************************************************)
(* The 1 kHz speed loop of the wheels: car_motion_run computes the         *)
(* rotation, while the angle loop has the right to it, and the wheel       *)
(* speeds (mecanumRun), and each motor follows its target through a slewed *)
(* reference (Slew_Func), a PI controller with a bounded integral          *)
(* (Pos_PID_Controller) and a bounded PWM duty.  The loop runs in the      *)
(* thread of the highest priority, so a step of it is never interrupted;   *)
(* Car_Stop, Car_Start and Car_Rotate run in other threads and can be.     *)
(*                                                                         *)
(* Floating-point numbers are integers here; the wheel speeds measured by  *)
(* the filtered encoders and the angle left to turn are inputs.  The       *)
(* derivative gains are zero.                                              *)
(***************************************************************************)
EXTENDS Integers

CONSTANTS
  Motors,          \* some of the motors "A", "B", "C"
  Commands,        \* the speeds the tasks ask for
  ActSpeeds,       \* the wheel speeds the encoders may measure
  YawErrors,       \* what may be missing to the heading asked for
  YawMax,          \* Output_Max of the heading controller
  Rate,            \* MOTOR_SOFTBOOT_RATE
  IMax,            \* Value_I_Max
  OutMax,          \* Output_Max and -Output_Min
  maxLinearSpeed

Speed == [Vx : Int, Vy : Int, Omega : Int]

ASSUME MotorAssumption ==
  /\ Motors \subseteq {"A", "B", "C"}
  /\ Commands \subseteq Speed
  /\ [Vx |-> 0, Vy |-> 0, Omega |-> 0] \in Commands
  /\ ActSpeeds \subseteq Int
  /\ YawErrors \subseteq Int /\ YawMax \in Nat
  /\ Rate \in Nat \ {0} /\ IMax \in Nat /\ OutMax \in Nat
  /\ maxLinearSpeed \in Nat \ {0}

VARIABLES
  Car_BootSwitch,
  Car_Speed,
  Car_Speed_ConRight,  \* who sets the rotation: "TraceLine" or "AngleLoop"
  target,          \* MA_, MB_ and MC_target_speed
  Ref,             \* Motor_PID_x.Ref
  Value_I,         \* Motor_PID_x.Value_I
  duty,            \* the PWM duty with the sign of the direction pin
  stopping         \* the motors Car_Stop has still to switch off

motorVars == <<target, Ref, Value_I, duty>>
vars == <<Car_BootSwitch, Car_Speed, Car_Speed_ConRight, motorVars, stopping>>

TypeOK ==
  /\ Car_BootSwitch \in {0, 1}
  /\ Car_Speed \in Speed
  /\ Car_Speed_ConRight \in {"TraceLine", "AngleLoop"}
  /\ target \in [Motors -> Int]
  /\ Ref \in [Motors -> Int]
  /\ Value_I \in [Motors -> -IMax .. IMax]
  /\ duty \in [Motors -> -OutMax .. OutMax]
  /\ stopping \subseteq Motors

\* car_motion_Init leaves the car locked.
Init ==
  /\ Car_BootSwitch = 0
  /\ Car_Speed = [Vx |-> 0, Vy |-> 0, Omega |-> 0]
  /\ Car_Speed_ConRight = "TraceLine"
  /\ target = [m \in Motors |-> 0]
  /\ Ref = [m \in Motors |-> 0]
  /\ Value_I = [m \in Motors |-> 0]
  /\ duty = [m \in Motors |-> 0]
  /\ stopping = {}
-----------------------------------------------------------------------------
Clamp(x, max) == IF x > max THEN max ELSE IF x < -max THEN -max ELSE x

\* Wheel speeds; SIN30 is 1/2 and 1/COS30 is 1000/866.
RawSpeed(m, v) ==
  CASE m = "A" -> -(v.Vx \div 2) + (v.Vy * 1000) \div 866 + v.Omega
    [] m = "B" -> -(v.Vx \div 2) - (v.Vy * 1000) \div 866 + v.Omega
    [] OTHER   -> v.Vx + v.Omega

MaxRaw(v) ==
  CHOOSE x \in {RawSpeed(m, v) : m \in {"A", "B", "C"}} :
    \A m \in {"A", "B", "C"} : RawSpeed(m, v) <= x

\* Variant: a speed over the limit is limited only if motor A has it.
mecanumRun_LooksAtA(m, v) ==
  LET raw == RawSpeed(m, v)
      s == IF RawSpeed("A", v) > maxLinearSpeed
           THEN (raw * maxLinearSpeed) \div RawSpeed("A", v) ELSE raw
  IN IF m = "B" THEN -s ELSE s

\* Too large a speed scales all three; motor B is mounted the other way round.
\* Only the largest signed speed is looked at.
mecanumRun(m, v) ==
  LET raw == RawSpeed(m, v)
      s == IF MaxRaw(v) > maxLinearSpeed THEN (raw * maxLinearSpeed) \div MaxRaw(v) ELSE raw
  IN IF m = "B" THEN -s ELSE s

\* Variant: the reference never lands on the target.
Slew_Func_Overshoots(r, goal) == IF goal > r THEN r + Rate ELSE r - Rate

\* One step of the reference towards its goal.
Slew_Func(r, goal) ==
  IF goal - r >= Rate THEN r + Rate
  ELSE IF r - goal >= Rate THEN r - Rate
  ELSE goal

\* Variant: the integral is limited after it has been stored.
Pos_PID_Controller_LateLimit(m, error) ==
  LET i == Value_I[m] + error
      out == (IF m = "B" THEN -1 ELSE 1) * (20 * error + (115 * Clamp(i, IMax)) \div 1000)
  IN [I |-> i, Output |-> Clamp(out, OutMax)]

\* The PI controller: Kp = 20 and Ki = 0.115, both negative for motor B.  The
\* output still uses the integral from before it is limited.
Gain(m) == IF m = "B" THEN -1 ELSE 1
Pos_PID_Controller(m, error) ==
  LET i == Value_I[m] + error
      out == Gain(m) * (20 * error + (115 * i) \div 1000)
  IN [I |-> Clamp(i, IMax), Output |-> Clamp(out, OutMax)]
-----------------------------------------------------------------------------
\* Car_Change_Speed, while the car is not locked.  It writes one field after the
\* other, and the loop may run between two writes; so may the other tasks when
\* the call is a shell command's.  The rotation is left to the angle loop while
\* that has the right to it.
Car_Change_Speed(v, field) ==
  /\ Car_BootSwitch = 1
  /\ field = "Omega" => Car_Speed_ConRight # "AngleLoop"
  /\ Car_Speed' = [Car_Speed EXCEPT ![field] = v[field]]
  /\ UNCHANGED <<Car_BootSwitch, Car_Speed_ConRight, motorVars, stopping>>

\* Car_Rotate gives the rotation to the angle loop and then sets the heading it is
\* to reach; a round in between still works with the heading of the last turn, so
\* any angle may be missing.  locate_box_entry takes the rotation back.
Car_Rotate ==
  /\ Car_Speed_ConRight' \in {"TraceLine", "AngleLoop"}
  /\ UNCHANGED <<Car_BootSwitch, Car_Speed, motorVars, stopping>>

\* The speed a round works with: the heading controller (Kp = 5, Ki = 0) sets the
\* rotation if it may.
Steered(e) ==
  IF Car_Speed_ConRight = "AngleLoop" THEN [Car_Speed EXCEPT !.Omega = Clamp(5 * e, YawMax)]
                                      ELSE Car_Speed

\* Variant: the rotation of the angle loop comes on top of the limited wheel speeds.
car_motion_run_AddsRotation(act, e) ==
  LET pid == [m \in Motors |-> Pos_PID_Controller(m, Ref[m] - act[m])]
  IN /\ Car_BootSwitch = 1
     /\ Car_Speed' = Steered(e)
     /\ target' = [m \in Motors |-> mecanumRun(m, [Car_Speed' EXCEPT !.Omega = 0])
                                      + (IF m = "B" THEN -1 ELSE 1) * Car_Speed'.Omega]
     /\ Value_I' = [m \in Motors |-> pid[m].I]
     /\ duty' = [m \in Motors |-> pid[m].Output]
     /\ Ref' = [m \in Motors |-> Slew_Func(Ref[m], target'[m])]
     /\ UNCHANGED <<Car_BootSwitch, Car_Speed_ConRight, stopping>>

\* car_motion_run and motor_run: one round of the loop with the measured speeds
\* and heading.  The controllers work with the references of the round before.
car_motion_run(act, e) ==
  LET pid == [m \in Motors |-> Pos_PID_Controller(m, Ref[m] - act[m])]
  IN /\ Car_BootSwitch = 1
     /\ Car_Speed' = Steered(e)
     /\ target' = [m \in Motors |-> mecanumRun(m, Car_Speed')]
     /\ Value_I' = [m \in Motors |-> pid[m].I]
     /\ duty' = [m \in Motors |-> pid[m].Output]
     /\ Ref' = [m \in Motors |-> Slew_Func(Ref[m], target'[m])]
     /\ UNCHANGED <<Car_BootSwitch, Car_Speed_ConRight, stopping>>

\* Variant: Car_Stop switches the motors off and then locks the car.
Car_Stop_LocksLast ==
  /\ \/ stopping = {} /\ stopping' = Motors /\ UNCHANGED <<duty, Car_BootSwitch>>
     \/ \E m \in stopping :
          /\ duty' = [duty EXCEPT ![m] = 0]
          /\ stopping' = stopping \ {m}
          /\ Car_BootSwitch' = IF stopping' = {} THEN 0 ELSE Car_BootSwitch
  /\ UNCHANGED <<Car_Speed, Car_Speed_ConRight, target, Ref, Value_I>>

\* Car_Stop locks the car and then switches off one motor after the other.
Car_Stop ==
  /\ \/ stopping = {} /\ stopping' = Motors /\ Car_BootSwitch' = 0 /\ UNCHANGED duty
     \/ \E m \in stopping :
          /\ duty' = [duty EXCEPT ![m] = 0]
          /\ stopping' = stopping \ {m}
          /\ UNCHANGED Car_BootSwitch
  /\ UNCHANGED <<Car_Speed, Car_Speed_ConRight, target, Ref, Value_I>>

Car_Start ==
  /\ Car_BootSwitch' = 1
  /\ UNCHANGED <<Car_Speed, Car_Speed_ConRight, motorVars, stopping>>

Loop == \E act \in [Motors -> ActSpeeds], e \in YawErrors : car_motion_run(act, e)

Next ==
  \/ \E v \in Commands, field \in {"Vx", "Vy", "Omega"} : Car_Change_Speed(v, field)
  \/ Loop
  \/ Car_Rotate
  \/ Car_Stop
  \/ Car_Start

Spec == Init /\ [][Next]_vars

\* The loop has the highest priority and is woken by the tick.
FairSpec == Spec /\ WF_vars(Loop)
-----------------------------------------------------------------------------
\* A locked car does not drive: once Car_Stop is through, no motor has a duty,
\* although the loop and Car_Start may run between the steps of Car_Stop.
LockedIsStill ==
  Car_BootSwitch = 0 => \A m \in Motors \ stopping : duty[m] = 0

\* The soft start: the reference of a motor moves by at most the rate in a round
\* and never past its target, also across a stop and a new start.
SoftStart ==
  [][\A m \in Motors :
       /\ Ref'[m] - Ref[m] \in -Rate .. Rate
       /\ Ref'[m] # Ref[m] =>
            (Ref[m] < Ref'[m] /\ Ref'[m] <= target'[m])
              \/ (target'[m] <= Ref'[m] /\ Ref'[m] < Ref[m])]_vars

\* A wheel is never asked to go forward faster than the limit.  (Backward is not
\* limited: mecanumRun looks at the largest signed speed only.)
ForwardLimited ==
  \A m \in Motors : (IF m = "B" THEN -target[m] ELSE target[m]) <= maxLinearSpeed

\* The rotations a round may work with.
Rotations == {v.Omega : v \in Commands} \cup {Clamp(5 * e, YawMax) : e \in YawErrors}

\* A speed that is asked for and kept is reached by the references, with a
\* rotation of a task or of the angle loop.  (By SoftStart they then stay there.)
SpeedReached ==
  \A v \in Commands, w \in Rotations :
    LET kept == [v EXCEPT !.Omega = w] IN
    <>[](Car_BootSwitch = 1 /\ Car_Speed = kept)
      => <>(\A m \in Motors : Ref[m] = mecanumRun(m, kept))
=============================================================================
