--------------------------- MODULE CarTasksProofs ---------------------------
(***************************************************************************)
(* Proofs about CarTasks.  OneDriver is not inductive: that a semaphore    *)
(* was released by its partner, which then waits, is a fact about where    *)
(* both threads are (Token), that the partner exists and its semaphore was *)
(* created is a fact about start-up (Startup), and the right over the      *)
(* speed and the mode of the detector follow the state of the box task     *)
(* (BoxStates, Rights, Silenced).                                          *)
(***************************************************************************)
EXTENDS CarTasks, TLAPS

\* Threads and semaphores appear in the order of main's start-up.
Startup ==
  /\ lpc = "off" <=> mpc \in {"motion", "camera", "mcx", "locate"}
  /\ tpc = "off" <=> mpc # "poll"
  /\ locate_box_sem = NoSem <=> lpc = "off"
  /\ trace_line_sem = NoSem <=> tpc = "off"
  /\ tpc = "off" => lpc \in {"off", "take"} /\ locate_box_sem # 1

\* The right to drive is in exactly one place.
Token ==
  tpc # "off" =>
    \/ TraceDrives /\ lpc = "take" /\ locate_box_sem = 0 /\ trace_line_sem = 0
    \/ tpc = "take" /\ lpc = "take" /\ locate_box_sem = 1 /\ trace_line_sem = 0
    \/ tpc = "take" /\ BoxDrives /\ locate_box_sem = 0 /\ trace_line_sem = 0
    \/ tpc = "take" /\ lpc = "take" /\ locate_box_sem = 0 /\ trace_line_sem = 1

\* Where the box task is, in terms of its state variable.
BoxStates ==
  /\ lpc \in {"image", "mcx"} => angle_state # "finish"
  /\ lpc \in {"aimY", "settle"} => angle_state = "Angle_Correct"
  /\ lpc = "classify" => angle_state = "Location_Correct"
  /\ lpc \in {"settle2", "onTrack", "offTrack", "pushStop", "back", "backStop", "turn"}
       => angle_state = "Push_Box"

\* Only the pushing box task lets the angle loop have the yaw rate.
Rights == Car_Speed_ConRight = "AngleLoop" => BoxDrives /\ angle_state = "Push_Box"

\* Between the end of a push and the moment trace_line has cleared its flag,
\* and then during the cool-down, the detector is in Reset.
Silenced ==
  /\ lpc \in {"ack", "tick"} /\ angle_state = "finish" => mcxCurrent_Mode = "Reset"
  /\ trace_line_sem = 1 \/ tpc = "clear" => mcxCurrent_Mode = "Reset"
  /\ push_flag = 1 /\ tpc \notin {"clear", "disarm"}
       => mcxCurrent_Mode = "Reset" /\ MCX_Detection_Flag = 0

\* A round is under way only for a reported box.
Reported ==
  /\ tpc \in {"brake", "take", "clear"} => MCX_Detection_Flag = 1
  /\ tpc \in {"clear", "disarm"} => push_flag = 1
  /\ mpc \in {"motion", "camera", "mcx"} => mcxCurrent_Mode = "Reset" /\ MCX_Detection_Flag = 0
  /\ tpc = "off" => push_flag = 0

IInv ==
  /\ TypeOK /\ Startup /\ Token /\ BoxStates /\ Rights /\ Silenced /\ Reported
  /\ StandsStill
  /\ locate_box_sem = 1 => Standing
-----------------------------------------------------------------------------
USE DEF IInv, TypeOK, Startup, Token, BoxStates, Rights, Silenced, Reported,
        StandsStill, Standing, TraceDrives, BoxDrives,
        MainPc, TracePc, LocatePc, Centers, Speeds, Flag, NoSem,
        threadVars, mcxVars, cameraVars, traceVars, boxVars, speedVars, carVars

\* main and the shell preserve the invariant.
LEMMA MainPreserves ==
  ASSUME IInv, Main \/ Shell
  PROVE  IInv'
  <1>1. CASE car_motion_Init
    BY <1>1 DEF car_motion_Init, MainGoes
  <1>2. CASE Camera_and_Screen_Init
    BY <1>2 DEF Camera_and_Screen_Init, MainGoes
  <1>3. CASE MCX_UART_Init
    BY <1>3 DEF MCX_UART_Init, MCX_Change_Mode, MainGoes
  <1>4. CASE locate_box_init
    BY <1>4 DEF locate_box_init, MainGoes
  <1>5. CASE locate_box_init_pid
    BY <1>5 DEF locate_box_init_pid, MainGoes
  <1>6. CASE trace_line_init
    BY <1>6 DEF trace_line_init, MainGoes
  <1>7. CASE MainStartButton
    BY <1>7 DEF MainStartButton, Car_Start, MainGoes
  <1>8. CASE ShellCarStart
    BY <1>8 DEF ShellCarStart
  <1>9. CASE ShellCarStop
    BY <1>9 DEF ShellCarStop
  <1>10. QED
    BY <1>1, <1>2, <1>3, <1>4, <1>5, <1>6, <1>7, <1>8, <1>9 DEF Main, Shell

\* Interrupts, the motion thread and time preserve the invariant.
LEMMA WorldPreserves ==
  ASSUME IInv, McxFrame \/ CameraFrame \/ car_motion_run \/ CoolDownElapses
  PROVE  IInv'
  <1>1. CASE McxFrame
    <2>1. PICK c \in Centers : MCX_uart_handle(TRUE, c) \/ MCX_uart_handle(FALSE, c)
      BY <1>1 DEF McxFrame
    <2>2. QED
      BY <2>1 DEF MCX_uart_handle, MCX_Change_Mode, Location_Mode
  <1>2. CASE CameraFrame
    BY <1>2 DEF CameraFrame
  <1>3. CASE car_motion_run
    BY <1>3 DEF car_motion_run
  <1>4. CASE CoolDownElapses
    BY <1>4 DEF CoolDownElapses
  <1>5. QED
    BY <1>1, <1>2, <1>3, <1>4

\* Every step of trace_line_entry preserves the invariant.
LEMMA TracePreserves ==
  ASSUME IInv, Trace
  PROVE  IInv'
  <1>1. CASE TraceLoop
    BY <1>1 DEF TraceLoop, TraceGoes
  <1>2. CASE TraceVision
    BY <1>2 DEF TraceVision, TraceGoes
  <1>3. CASE TraceVisionFinish
    BY <1>3 DEF TraceVisionFinish, Stop, TraceGoes, Car_Change_Speed
  <1>4. CASE TraceZebraRun
    BY <1>4 DEF TraceZebraRun, Car_Change_Speed, TraceGoes
  <1>5. CASE TraceZebraEnd
    BY <1>5 DEF TraceZebraEnd, Car_Change_Speed, TraceGoes
  <1>6. CASE trace_line_method
    BY <1>6 DEF trace_line_method, Car_Change_Speed, TraceGoes
  <1>7. CASE TraceNoBox
    BY <1>7 DEF TraceNoBox, TraceGoes
  <1>8. CASE TraceBrake
    BY <1>8 DEF TraceBrake, Stop, TraceGoes, Car_Change_Speed
  <1>9. CASE TraceGiveAway
    BY <1>9 DEF TraceGiveAway, TraceGoes
  <1>10. CASE TraceTake
    BY <1>10 DEF TraceTake, TraceGoes
  <1>11. CASE TraceClear
    BY <1>11 DEF TraceClear, TraceGoes
  <1>12. CASE TraceNoRearm
    BY <1>12 DEF TraceNoRearm, TraceGoes
  <1>13. CASE TraceRearm
    BY <1>13 DEF TraceRearm, MCX_Change_Mode, TraceGoes
  <1>14. CASE TraceDisarm
    BY <1>14 DEF TraceDisarm, TraceGoes
  <1>15. CASE TraceVisionCross
    BY <1>15 DEF TraceVisionCross, Stop, TraceGoes, Car_Change_Speed
  <1>16. CASE TraceVisionRing
    BY <1>16 DEF TraceVisionRing
  <1>17. QED
    BY <1>1, <1>2, <1>3, <1>4, <1>5, <1>6, <1>7, <1>8, <1>9, <1>10, <1>11, <1>12, <1>13, <1>14, <1>15, <1>16 DEF Trace

\* Every step of locate_box_entry preserves the invariant.
LEMMA LocatePreserves ==
  ASSUME IInv, Locate
  PROVE  IInv'
  <1>1. CASE LocateTake
    BY <1>1 DEF LocateTake, LocateGoes
  <1>2. CASE LocateStart
    BY <1>2 DEF LocateStart, Car_Start, LocateGoes
  <1>3. CASE LocateImage
    BY <1>3 DEF LocateImage, PushBox_IsDirectionCorrect, LocateGoes
  <1>4. CASE LocateNoFrame
    BY <1>4 DEF LocateNoFrame, LocateGoes
  <1>5. CASE LocateTurn
    BY <1>5 DEF LocateTurn, Car_Change_Speed, LocateGoes, InSwitch
  <1>6. CASE LocateApproach
    BY <1>6 DEF LocateApproach, Car_Change_Speed, LocateGoes, InSwitch
  <1>7. CASE LocateNotThere
    BY <1>7 DEF LocateNotThere, LocateGoes, InSwitch
  <1>8. CASE LocateThere
    BY <1>8 DEF LocateThere, Stop, LocateGoes, InSwitch, Car_Change_Speed
  <1>9. CASE LocateSettled
    BY <1>9 DEF LocateSettled, LocateGoes, InSwitch
  <1>10. CASE LocateClassified
    BY <1>10 DEF LocateClassified, LocateGoes, InSwitch
  <1>11. CASE LocateCircle
    BY <1>11 DEF LocateCircle, Car_Change_Speed, LocateGoes, InSwitch
  <1>12. CASE LocateBehindBox
    BY <1>12 DEF LocateBehindBox, Stop, LocateGoes, InSwitch, Car_Change_Speed
  <1>13. CASE LocateHoldYaw
    BY <1>13 DEF LocateHoldYaw, Car_Rotate, LocateGoes, InSwitch
  <1>14. CASE LocateLineUp
    BY <1>14 DEF LocateLineUp, Car_Change_Speed, LocateGoes, InSwitch
  <1>15. CASE LocatePush
    BY <1>15 DEF LocatePush, Car_Change_Speed, LocateGoes, InSwitch
  <1>16. CASE PushOnTrack
    BY <1>16 DEF PushOnTrack, LocateGoes, InSwitch
  <1>17. CASE PushOffTrack
    BY <1>17 DEF PushOffTrack, Stop, LocateGoes, InSwitch, Car_Change_Speed
  <1>18. CASE PushBack
    BY <1>18 DEF PushBack, Car_Change_Speed, LocateGoes, InSwitch
  <1>19. CASE PushBackStop
    BY <1>19 DEF PushBackStop, Car_Change_Speed, LocateGoes, InSwitch
  <1>20. CASE PushTurn
    BY <1>20 DEF PushTurn, Car_Rotate, LocateGoes, InSwitch
  <1>21. CASE LocateFinish
    BY <1>21 DEF LocateFinish, MCX_Change_Mode, LocateGoes
  <1>22. CASE LocateAck
    BY <1>22 DEF LocateAck, LocateGoes
  <1>23. CASE LocateAgain
    BY <1>23 DEF LocateAgain, LocateGoes
  <1>24. CASE LocateReturn
    BY <1>24 DEF LocateReturn, LocateGoes
  <1>25. QED
    BY <1>1, <1>2, <1>3, <1>4, <1>5, <1>6, <1>7, <1>8, <1>9, <1>10, <1>11, <1>12, <1>13, <1>14, <1>15, <1>16, <1>17, <1>18, <1>19, <1>20, <1>21, <1>22, <1>23, <1>24 DEF Locate

\* The initial states satisfy the invariant.
LEMMA InitInv == ASSUME Init PROVE IInv
  BY DEF Init

\* So do stuttering steps.
LEMMA StutterPreserves ==
  ASSUME IInv, UNCHANGED vars
  PROVE  IInv'
  BY DEF vars

\* What the invariant implies, one property at a time.
LEMMA Implied ==
  ASSUME IInv
  PROVE  /\ TypeOK /\ OneDriver /\ RightWithTrace /\ CoolDownIsQuiet /\ StandsStill
         /\ StartedInOrder
  BY DEF OneDriver, RightWithTrace, CoolDownIsQuiet, StartedInOrder

HIDE DEF IInv, TypeOK, Startup, Token, BoxStates, Rights, Silenced, Reported,
        StandsStill, Standing, TraceDrives, BoxDrives,
        MainPc, TracePc, LocatePc, Centers, Speeds, Flag, NoSem,
        threadVars, mcxVars, cameraVars, traceVars, boxVars, speedVars, carVars

\* The inductive invariant holds throughout.
THEOREM InductiveInvariant == Spec => []IInv
  <1>1. Init => IInv
    BY InitInv
  <1>2. IInv /\ [Next]_vars => IInv'
    <2> SUFFICES ASSUME IInv, [Next]_vars
                 PROVE  IInv'
      BY Zenon
    <2>1. CASE Main \/ Shell
      BY ONLY IInv, <2>1, MainPreserves
    <2>2. CASE McxFrame \/ CameraFrame \/ car_motion_run \/ CoolDownElapses
      BY ONLY IInv, <2>2, WorldPreserves
    <2>3. CASE Trace
      BY ONLY IInv, <2>3, TracePreserves
    <2>4. CASE Locate
      BY ONLY IInv, <2>4, LocatePreserves
    <2>5. CASE UNCHANGED vars
      BY ONLY IInv, <2>5, StutterPreserves
    <2>6. QED
      BY <2>1, <2>2, <2>3, <2>4, <2>5 DEF Next
  <1>3. QED
    BY <1>1, <1>2, PTL DEF Spec

\* Every variable keeps its type; in particular the detector is never recorded
\* to be in Location mode, although MCX_uart_handle asks for it.
THEOREM TypeCorrect == Spec => []TypeOK
  <1>1. IInv => TypeOK
    BY Implied
  <1>2. QED
    BY <1>1, InductiveInvariant, PTL

\* The two driving tasks exclude each other and share one right to drive.
THEOREM MutualExclusion == Spec => []OneDriver
  <1>1. IInv => OneDriver
    BY Implied
  <1>2. QED
    BY <1>1, InductiveInvariant, PTL

\* The line follower never drives without the right over the speed.
THEOREM TraceHasTheRight == Spec => []RightWithTrace
  <1>1. IInv => RightWithTrace
    BY Implied
  <1>2. QED
    BY <1>1, InductiveInvariant, PTL

\* The cool-down after a push is quiet.
THEOREM QuietCoolDown == Spec => []CoolDownIsQuiet
  <1>1. IInv => CoolDownIsQuiet
    BY Implied
  <1>2. QED
    BY <1>1, InductiveInvariant, PTL

\* The car stands where the code relies on it, unless it was locked.
THEOREM CarStands == Spec => []StandsStill
  <1>1. IInv => StandsStill
    BY Implied
  <1>2. QED
    BY <1>1, InductiveInvariant, PTL

\* The box task runs only after its controllers have been initialised.
THEOREM StartUpOrder == Spec => []StartedInOrder
  <1>1. IInv => StartedInOrder
    BY Implied
  <1>2. QED
    BY <1>1, InductiveInvariant, PTL
-----------------------------------------------------------------------------
(* The hand-over ring.                                                      *)

USE DEF IInv, TypeOK, Startup, Token, BoxStates, Rights, Silenced, Reported,
        StandsStill, Standing, TraceDrives, BoxDrives,
        MainPc, TracePc, LocatePc, Centers, Speeds, Flag, NoSem,
        threadVars, mcxVars, cameraVars, traceVars, boxVars, speedVars, carVars

\* What the ring sees: nothing of it moves in a stuttering step.
RingStutters ==
  /\ Driver' = Driver
  /\ MCX_Detection_Flag' = MCX_Detection_Flag
  /\ (push_flag = 1 /\ tpc \notin {"clear", "disarm"})'
       <=> (push_flag = 1 /\ tpc \notin {"clear", "disarm"})

\* main and the shell are invisible in the ring.
LEMMA MainInRing ==
  ASSUME IInv, IInv', Main \/ Shell
  PROVE  Handover!Next \/ RingStutters
  <1>1. CASE car_motion_Init
    BY <1>1 DEF car_motion_Init, MainGoes, RingStutters, Driver
  <1>2. CASE Camera_and_Screen_Init
    BY <1>2 DEF Camera_and_Screen_Init, MainGoes, RingStutters, Driver
  <1>3. CASE MCX_UART_Init
    BY <1>3 DEF MCX_UART_Init, MCX_Change_Mode, MainGoes, RingStutters, Driver
  <1>4. CASE locate_box_init
    BY <1>4 DEF locate_box_init, MainGoes, RingStutters, Driver
  <1>5. CASE locate_box_init_pid
    BY <1>5 DEF locate_box_init_pid, MainGoes, RingStutters, Driver
  <1>6. CASE trace_line_init
    BY <1>6 DEF trace_line_init, MainGoes, RingStutters, Driver
  <1>7. CASE MainStartButton
    BY <1>7 DEF MainStartButton, Car_Start, MainGoes, RingStutters, Driver
  <1>8. CASE ShellCarStart
    BY <1>8 DEF ShellCarStart, RingStutters, Driver
  <1>9. CASE ShellCarStop
    BY <1>9 DEF ShellCarStop, RingStutters, Driver
  <1>10. QED
    BY <1>1, <1>2, <1>3, <1>4, <1>5, <1>6, <1>7, <1>8, <1>9 DEF Main, Shell

\* A frame with a target is a sighting; the rest of the world is invisible.
LEMMA WorldInRing ==
  ASSUME IInv, IInv', McxFrame \/ CameraFrame \/ car_motion_run \/ CoolDownElapses
  PROVE  Handover!Next \/ RingStutters
  <1>1. CASE McxFrame
    <2>1. PICK c \in Centers : MCX_uart_handle(TRUE, c) \/ MCX_uart_handle(FALSE, c)
      BY <1>1 DEF McxFrame
    <2>2. CASE mcxCurrent_Mode = "Detection" /\ MCX_Detection_Flag' = 1
      <3>1. Handover!Sight
        BY <2>1, <2>2 DEF MCX_uart_handle, MCX_Change_Mode, Location_Mode, Handover!Sight, Driver
      <3>2. QED
        BY <3>1 DEF Handover!Next
    <2>3. CASE ~(mcxCurrent_Mode = "Detection" /\ MCX_Detection_Flag' = 1)
      BY <2>1, <2>3 DEF MCX_uart_handle, MCX_Change_Mode, Location_Mode, RingStutters, Driver
    <2>4. QED
      BY <2>2, <2>3
  <1>2. CASE CameraFrame
    BY <1>2 DEF CameraFrame, RingStutters, Driver
  <1>3. CASE car_motion_run
    BY <1>3 DEF car_motion_run, RingStutters, Driver
  <1>4. CASE CoolDownElapses
    BY <1>4 DEF CoolDownElapses, RingStutters, Driver
  <1>5. QED
    BY <1>1, <1>2, <1>3, <1>4

\* trace_line gives the car away, takes it back, and re-arms the detector.
LEMMA TraceInRing ==
  ASSUME IInv, IInv', Trace
  PROVE  Handover!Next \/ RingStutters
  <1>1. CASE TraceLoop
    BY <1>1 DEF TraceLoop, TraceGoes, RingStutters, Driver
  <1>2. CASE TraceVision
    BY <1>2 DEF TraceVision, TraceGoes, RingStutters, Driver
  <1>3. CASE TraceVisionFinish
    BY <1>3 DEF TraceVisionFinish, Stop, TraceGoes, Car_Change_Speed, RingStutters, Driver
  <1>4. CASE TraceZebraRun
    BY <1>4 DEF TraceZebraRun, Car_Change_Speed, TraceGoes, RingStutters, Driver
  <1>5. CASE TraceZebraEnd
    BY <1>5 DEF TraceZebraEnd, Car_Change_Speed, TraceGoes, RingStutters, Driver
  <1>6. CASE trace_line_method
    BY <1>6 DEF trace_line_method, Car_Change_Speed, TraceGoes, RingStutters, Driver
  <1>7. CASE TraceNoBox
    BY <1>7 DEF TraceNoBox, TraceGoes, RingStutters, Driver
  <1>8. CASE TraceBrake
    BY <1>8 DEF TraceBrake, Stop, TraceGoes, Car_Change_Speed, RingStutters, Driver
  <1>9. CASE TraceGiveAway
    <2>1. Handover!GiveAway
      BY <1>9 DEF TraceGiveAway, TraceGoes, Handover!GiveAway, Driver
    <2>2. QED
      BY <2>1 DEF Handover!Next
  <1>10. CASE TraceTake
    BY <1>10 DEF TraceTake, TraceGoes, RingStutters, Driver
  <1>11. CASE TraceClear
    <2>1. Handover!TraceTakes
      BY <1>11 DEF TraceClear, TraceGoes, Handover!TraceTakes, Driver
    <2>2. QED
      BY <2>1 DEF Handover!Next
  <1>12. CASE TraceNoRearm
    BY <1>12 DEF TraceNoRearm, TraceGoes, RingStutters, Driver
  <1>13. CASE TraceRearm
    <2>1. Handover!Rearm
      BY <1>13 DEF TraceRearm, MCX_Change_Mode, TraceGoes, Handover!Rearm, Driver
    <2>2. QED
      BY <2>1 DEF Handover!Next
  <1>14. CASE TraceDisarm
    BY <1>14 DEF TraceDisarm, TraceGoes, RingStutters, Driver
  <1>15. CASE TraceVisionCross
    BY <1>15 DEF TraceVisionCross, Stop, TraceGoes, Car_Change_Speed, RingStutters, Driver
  <1>16. CASE TraceVisionRing
    BY <1>16 DEF TraceVisionRing, RingStutters, Driver
  <1>17. QED
    BY <1>1, <1>2, <1>3, <1>4, <1>5, <1>6, <1>7, <1>8, <1>9, <1>10, <1>11, <1>12, <1>13, <1>14, <1>15, <1>16 DEF Trace

\* locate takes the car and returns it.
LEMMA LocateInRing ==
  ASSUME IInv, IInv', Locate
  PROVE  Handover!Next \/ RingStutters
  <1>1. CASE LocateTake
    <2>1. Handover!BoxTakes
      BY <1>1 DEF LocateTake, LocateGoes, Handover!BoxTakes, Driver
    <2>2. QED
      BY <2>1 DEF Handover!Next
  <1>2. CASE LocateStart
    BY <1>2 DEF LocateStart, Car_Start, LocateGoes, RingStutters, Driver
  <1>3. CASE LocateImage
    BY <1>3 DEF LocateImage, PushBox_IsDirectionCorrect, LocateGoes, RingStutters, Driver
  <1>4. CASE LocateNoFrame
    BY <1>4 DEF LocateNoFrame, LocateGoes, RingStutters, Driver
  <1>5. CASE LocateTurn
    BY <1>5 DEF LocateTurn, Car_Change_Speed, LocateGoes, InSwitch, RingStutters, Driver
  <1>6. CASE LocateApproach
    BY <1>6 DEF LocateApproach, Car_Change_Speed, LocateGoes, InSwitch, RingStutters, Driver
  <1>7. CASE LocateNotThere
    BY <1>7 DEF LocateNotThere, LocateGoes, InSwitch, RingStutters, Driver
  <1>8. CASE LocateThere
    BY <1>8 DEF LocateThere, Stop, LocateGoes, InSwitch, Car_Change_Speed, RingStutters, Driver
  <1>9. CASE LocateSettled
    BY <1>9 DEF LocateSettled, LocateGoes, InSwitch, RingStutters, Driver
  <1>10. CASE LocateClassified
    BY <1>10 DEF LocateClassified, LocateGoes, InSwitch, RingStutters, Driver
  <1>11. CASE LocateCircle
    BY <1>11 DEF LocateCircle, Car_Change_Speed, LocateGoes, InSwitch, RingStutters, Driver
  <1>12. CASE LocateBehindBox
    BY <1>12 DEF LocateBehindBox, Stop, LocateGoes, InSwitch, Car_Change_Speed, RingStutters, Driver
  <1>13. CASE LocateHoldYaw
    BY <1>13 DEF LocateHoldYaw, Car_Rotate, LocateGoes, InSwitch, RingStutters, Driver
  <1>14. CASE LocateLineUp
    BY <1>14 DEF LocateLineUp, Car_Change_Speed, LocateGoes, InSwitch, RingStutters, Driver
  <1>15. CASE LocatePush
    BY <1>15 DEF LocatePush, Car_Change_Speed, LocateGoes, InSwitch, RingStutters, Driver
  <1>16. CASE PushOnTrack
    BY <1>16 DEF PushOnTrack, LocateGoes, InSwitch, RingStutters, Driver
  <1>17. CASE PushOffTrack
    BY <1>17 DEF PushOffTrack, Stop, LocateGoes, InSwitch, Car_Change_Speed, RingStutters, Driver
  <1>18. CASE PushBack
    BY <1>18 DEF PushBack, Car_Change_Speed, LocateGoes, InSwitch, RingStutters, Driver
  <1>19. CASE PushBackStop
    BY <1>19 DEF PushBackStop, Car_Change_Speed, LocateGoes, InSwitch, RingStutters, Driver
  <1>20. CASE PushTurn
    BY <1>20 DEF PushTurn, Car_Rotate, LocateGoes, InSwitch, RingStutters, Driver
  <1>21. CASE LocateFinish
    BY <1>21 DEF LocateFinish, MCX_Change_Mode, LocateGoes, RingStutters, Driver
  <1>22. CASE LocateAck
    BY <1>22 DEF LocateAck, LocateGoes, RingStutters, Driver
  <1>23. CASE LocateAgain
    BY <1>23 DEF LocateAgain, LocateGoes, RingStutters, Driver
  <1>24. CASE LocateReturn
    <2>1. Handover!BoxReturns
      BY <1>24 DEF LocateReturn, LocateGoes, Handover!BoxReturns, Driver
    <2>2. QED
      BY <2>1 DEF Handover!Next
  <1>25. QED
    BY <1>1, <1>2, <1>3, <1>4, <1>5, <1>6, <1>7, <1>8, <1>9, <1>10, <1>11, <1>12, <1>13, <1>14, <1>15, <1>16, <1>17, <1>18, <1>19, <1>20, <1>21, <1>22, <1>23, <1>24 DEF Locate

\* The initial states map to the initial state of the ring.
LEMMA InitInRing == ASSUME Init PROVE Handover!Init
  BY DEF Init, Handover!Init, Driver

\* Stuttering steps map to stuttering steps.
LEMMA StutterInRing ==
  ASSUME RingStutters \/ UNCHANGED vars
  PROVE  UNCHANGED Handover!vars
  BY DEF vars, RingStutters, Handover!vars, Driver

HIDE DEF IInv, TypeOK, Startup, Token, BoxStates, Rights, Silenced, Reported,
        StandsStill, Standing, TraceDrives, BoxDrives,
        MainPc, TracePc, LocatePc, Centers, Speeds, Flag, NoSem,
        threadVars, mcxVars, cameraVars, traceVars, boxVars, speedVars, carVars

\* The threads, flags and semaphores implement the hand-over ring.
THEOREM Refinement == Spec => ImplementsHandover
  <1>1. Init => Handover!Init
    BY InitInRing
  <1>2. IInv /\ IInv' /\ [Next]_vars => [Handover!Next]_Handover!vars
    <2> SUFFICES ASSUME IInv, IInv', [Next]_vars
                 PROVE  [Handover!Next]_Handover!vars
      BY Zenon
    <2>1. RingStutters \/ UNCHANGED vars => UNCHANGED Handover!vars
      BY StutterInRing
    <2>2. CASE Main \/ Shell
      BY ONLY IInv, IInv', <2>1, <2>2, MainInRing
    <2>3. CASE McxFrame \/ CameraFrame \/ car_motion_run \/ CoolDownElapses
      BY ONLY IInv, IInv', <2>1, <2>3, WorldInRing
    <2>4. CASE Trace
      BY ONLY IInv, IInv', <2>1, <2>4, TraceInRing
    <2>5. CASE Locate
      BY ONLY IInv, IInv', <2>1, <2>5, LocateInRing
    <2>6. CASE UNCHANGED vars
      BY <2>1, <2>6
    <2>7. QED
      BY <2>2, <2>3, <2>4, <2>5, <2>6 DEF Next
  <1>3. QED
    BY <1>1, <1>2, InductiveInvariant, PTL DEF Spec, ImplementsHandover, Handover!Spec
=============================================================================
