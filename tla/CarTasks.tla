------------------------------ MODULE CarTasks ------------------------------
(***************************************************************************)
(* The tasks that drive the car and the flags, semaphores and rights they  *)
(* pass each other:                                                        *)
(*                                                                         *)
(*   trace_line thread   project/code/src/trace_line.c  (priority 2)       *)
(*   locate thread       project/code/src/locate_box.c  (priority 2)       *)
(*   car_motion thread   project/code/src/car.c         (priority 1)       *)
(*   main, msh shell     main.c, debug_tool.c           (priorities 10, 20)*)
(*   UART3 and CSI interrupts: MCXvision.c, zf_device_mt9v03x.c            *)
(*                                                                         *)
(* One core, preemptive priorities.  A step is the code between two points *)
(* at which another actor can be seen: a blocking call, or a read or write *)
(* of a variable that an interrupt also touches.  Interrupts and the       *)
(* priority-1 thread may run between any two steps; main and the shell run *)
(* only while both priority-2 threads are blocked (LowPriorityRuns).       *)
(* Durations are abstract: a thread in rt_thread_delay may go on at any    *)
(* time; only the 2000 ticks before re-arming are a state (elapsed).       *)
(* Speeds are abstracted to who wrote them, image coordinates to the       *)
(* windows the code compares them with.                                    *)
(***************************************************************************)
EXTENDS Integers

VARIABLES
  mpc, tpc, lpc,        \* where main, the trace_line and the locate thread are
  locate_box_sem,       \* semaphore counts, NoSem before rt_sem_create
  trace_line_sem,
  MCX_Detection_Flag,   \* set by the UART interrupt, cleared by trace_line
  MCX_rx_flag,          \* a frame has arrived
  mcxCurrent_Mode,
  center,               \* center_x, center_y
  mt9v03x_finish_flag,  \* a camera frame is ready
  push_flag, elapsed,   \* cool-down after a push, and whether it is over
  angle_state,          \* locals of direction_correction_test1
  ShouldPush,
  Start_Flag,           \* the first zebra crossing has been passed
  Car_BootSwitch,
  Car_Speed_ConRight,
  Car_Speed,            \* who wrote Vx, Vy (v) and Omega (w) last
  refused               \* history: the last Car_Change_Speed found the car locked

threadVars == <<mpc, tpc, lpc, locate_box_sem, trace_line_sem>>
mcxVars    == <<MCX_Detection_Flag, MCX_rx_flag, mcxCurrent_Mode, center>>
cameraVars == <<mt9v03x_finish_flag>>
traceVars  == <<push_flag, elapsed, Start_Flag>>
boxVars    == <<angle_state, ShouldPush>>
speedVars  == <<Car_Speed, refused>>
carVars    == <<Car_BootSwitch, Car_Speed_ConRight, speedVars>>
vars == <<threadVars, mcxVars, cameraVars, traceVars, boxVars, carVars>>

NoSem == -1     \* RT_NULL, before rt_sem_create

MainPc == {"motion", "camera", "mcx", "locate", "pid", "trace", "poll"}
TracePc == {"off", "loop", "vision", "method", "delay", "brake", "take", "clear",
            "timer", "disarm", "zebraStop", "zebraRun", "finished"}
LocatePc == {"off", "take", "start", "image", "mcx", "aimY", "settle", "classify",
             "settle2", "onTrack", "offTrack", "pushStop", "back", "backStop",
             "turn", "ack", "tick"}
\* |center_x - 160|: within 10, within 20, or further off; |center_y - 120|:
\* within 15 or not (locate_box.c lines 249, 297, 307).
Centers == [x : {"aimed", "near", "far"}, y : {"aimed", "far"}]
Flag == {0, 1}
Speeds == [v : {"zero", "line", "box"}, w : {"zero", "line", "box", "yaw"}]

TypeOK ==
  /\ mpc \in MainPc /\ tpc \in TracePc /\ lpc \in LocatePc
  /\ locate_box_sem \in {NoSem, 0, 1}
  /\ trace_line_sem \in {NoSem, 0, 1}
  /\ MCX_Detection_Flag \in Flag /\ MCX_rx_flag \in Flag
  /\ mcxCurrent_Mode \in {"Reset", "Detection"}
  /\ center \in Centers
  /\ mt9v03x_finish_flag \in Flag
  /\ push_flag \in Flag /\ elapsed \in Flag /\ Start_Flag \in Flag
  /\ angle_state \in {"turn", "Angle_Correct", "Location_Correct", "Push_Box", "finish"}
  /\ ShouldPush \in Flag
  /\ Car_BootSwitch \in Flag
  /\ Car_Speed_ConRight \in {"TraceLine", "AngleLoop"}
  /\ Car_Speed \in Speeds
  /\ refused \in Flag

\* Static initial values: car.c line 18 switches the car on, everything else
\* is zero.
Init ==
  /\ mpc = "motion" /\ tpc = "off" /\ lpc = "off"
  /\ locate_box_sem = NoSem /\ trace_line_sem = NoSem
  /\ MCX_Detection_Flag = 0 /\ MCX_rx_flag = 0
  /\ mcxCurrent_Mode = "Reset"
  /\ center = [x |-> "far", y |-> "far"]
  /\ mt9v03x_finish_flag = 0
  /\ push_flag = 0 /\ elapsed = 0 /\ Start_Flag = 0
  /\ angle_state = "turn" /\ ShouldPush = 0
  /\ Car_BootSwitch = 1
  /\ Car_Speed_ConRight = "TraceLine"
  /\ Car_Speed = [v |-> "zero", w |-> "zero"]
  /\ refused = 0
-----------------------------------------------------------------------------
(* The interfaces the tasks share.                                          *)

\* A locked car ignores the command; under the angle loop the yaw rate is
\* the motion thread's.
Car_Change_Speed(v, w) ==
  /\ refused' = 1 - Car_BootSwitch
  /\ Car_Speed' = IF Car_BootSwitch = 0 THEN Car_Speed
                  ELSE [v |-> v, w |-> IF Car_Speed_ConRight = "AngleLoop"
                                       THEN Car_Speed.w ELSE w]

Stop == Car_Change_Speed("zero", "zero")

Car_Start == Car_BootSwitch' = 1

Car_Rotate == Car_Speed_ConRight' = "AngleLoop"

\* Only the three command characters change the recorded mode.
MCX_Change_Mode(mode) ==
  mcxCurrent_Mode' = IF mode = "R" THEN "Reset"
                     ELSE IF mode = "D" THEN "Detection"
                     ELSE IF mode = "L" THEN "Location"
                     ELSE mcxCurrent_Mode

\* The enumerator Location_Mode, which is the byte 2 and not the character.
Location_Mode == "2"
-----------------------------------------------------------------------------
(* main: the start-up sequence, then polling of the start button.           *)

TraceBlocked ==
  \/ tpc \in {"off", "delay", "brake", "zebraStop", "zebraRun", "finished"}
  \/ tpc = "take" /\ trace_line_sem = 0
\* The spins of classification and of push_box never block.
LocateBlocked ==
  \/ lpc \in {"off", "settle", "settle2", "pushStop", "back", "backStop", "turn", "tick"}
  \/ lpc = "take" /\ locate_box_sem = 0
LowPriorityRuns == TraceBlocked /\ LocateBlocked

MainGoes(from, to) ==
  /\ LowPriorityRuns
  /\ mpc = from
  /\ mpc' = to

car_motion_Init ==
  /\ MainGoes("motion", "camera")
  /\ Car_Speed_ConRight' = "TraceLine"
  /\ Car_Speed' = [v |-> "zero", w |-> "zero"]
  /\ Car_BootSwitch' = 0
  /\ UNCHANGED <<tpc, lpc, locate_box_sem, trace_line_sem, mcxVars, cameraVars,
                 traceVars, boxVars, refused>>

Camera_and_Screen_Init ==
  /\ MainGoes("camera", "mcx")
  /\ UNCHANGED <<tpc, lpc, locate_box_sem, trace_line_sem, mcxVars, cameraVars,
                 traceVars, boxVars, carVars>>

MCX_UART_Init ==
  /\ MainGoes("mcx", "locate")
  /\ MCX_Detection_Flag' = 0
  /\ MCX_Change_Mode("D")
  /\ UNCHANGED <<tpc, lpc, locate_box_sem, trace_line_sem, MCX_rx_flag, center,
                 cameraVars, traceVars, boxVars, carVars>>

\* Variant: the semaphore is created with a count of one.
locate_box_init_Available ==
  /\ MainGoes("locate", "pid")
  /\ locate_box_sem' = 1
  /\ lpc' = "take"
  /\ UNCHANGED <<tpc, trace_line_sem, mcxVars, cameraVars, traceVars, boxVars, carVars>>

\* locate_box_init up to rt_thread_startup; the thread preempts main and
\* waits for its semaphore.
locate_box_init ==
  /\ MainGoes("locate", "pid")
  /\ locate_box_sem' = 0
  /\ lpc' = "take"
  /\ UNCHANGED <<tpc, trace_line_sem, mcxVars, cameraVars, traceVars, boxVars, carVars>>

\* The rest of locate_box_init: the PID controllers of the box task.
locate_box_init_pid ==
  /\ MainGoes("pid", "trace")
  /\ UNCHANGED <<tpc, lpc, locate_box_sem, trace_line_sem, mcxVars, cameraVars,
                 traceVars, boxVars, carVars>>

trace_line_init ==
  /\ MainGoes("trace", "poll")
  /\ trace_line_sem' = 0
  /\ tpc' = "loop"
  /\ UNCHANGED <<lpc, locate_box_sem, mcxVars, cameraVars, traceVars, boxVars, carVars>>

\* The start button D16 is down.
MainStartButton ==
  /\ MainGoes("poll", "poll")
  /\ Car_Start
  /\ UNCHANGED <<tpc, lpc, locate_box_sem, trace_line_sem, mcxVars, cameraVars,
                 traceVars, boxVars, Car_Speed_ConRight, speedVars>>

Main ==
  \/ car_motion_Init \/ Camera_and_Screen_Init \/ MCX_UART_Init
  \/ locate_box_init \/ locate_box_init_pid \/ trace_line_init
  \/ MainStartButton

\* The shell has the lowest priority of all: main must block too, which it does
\* in Att_Algo_Init and in its polling loop.
ShellRuns == LowPriorityRuns /\ mpc \in {"motion", "poll"}

\* The command CarStart only sets the flag of the zebra crossing.
ShellCarStart ==
  /\ ShellRuns
  /\ Start_Flag' = 1
  /\ UNCHANGED <<threadVars, mcxVars, cameraVars, push_flag, elapsed, boxVars, carVars>>

ShellCarStop ==
  /\ ShellRuns
  /\ Car_BootSwitch' = 0
  /\ UNCHANGED <<threadVars, mcxVars, cameraVars, traceVars, boxVars,
                 Car_Speed_ConRight, speedVars>>

Shell == ShellCarStart \/ ShellCarStop
-----------------------------------------------------------------------------
(* Interrupts, the motion thread, and time.                                 *)

\* A complete frame from the MCX camera: a target or none, and where.  The
\* enumerator Location_Mode is passed where MCX_Change_Mode wants the character
\* 'L', so the mode stays Detection (TypeOK) and the case of Location_Mode is
\* never entered.
MCX_uart_handle(target, c) ==
  /\ mpc \notin {"motion", "camera", "mcx"}
  /\ MCX_rx_flag' = 1
  /\ IF mcxCurrent_Mode = "Detection" /\ target
     THEN /\ center' = c
          /\ MCX_Change_Mode(Location_Mode)
          /\ MCX_Detection_Flag' = 1
     ELSE UNCHANGED <<center, mcxCurrent_Mode, MCX_Detection_Flag>>
  /\ UNCHANGED <<threadVars, cameraVars, traceVars, boxVars, carVars>>

McxFrame ==
  \E c \in Centers : MCX_uart_handle(TRUE, c) \/ MCX_uart_handle(FALSE, c)

CameraFrame ==
  /\ mpc \notin {"motion", "camera"}
  /\ mt9v03x_finish_flag' = 1
  /\ UNCHANGED <<threadVars, mcxVars, traceVars, boxVars, carVars>>

\* One pass of the motion thread: under the angle loop it sets the yaw rate.
car_motion_run ==
  /\ mpc # "motion"
  /\ Car_BootSwitch = 1
  /\ Car_Speed_ConRight = "AngleLoop"
  /\ Car_Speed' = [Car_Speed EXCEPT !.w = "yaw"]
  /\ UNCHANGED <<threadVars, mcxVars, cameraVars, traceVars, boxVars,
                 Car_BootSwitch, Car_Speed_ConRight, refused>>

\* More than 2000 ticks have passed since the push.
CoolDownElapses ==
  /\ push_flag = 1 /\ elapsed = 0
  /\ elapsed' = 1
  /\ UNCHANGED <<threadVars, mcxVars, cameraVars, push_flag, Start_Flag, boxVars, carVars>>
-----------------------------------------------------------------------------
(* trace_line_entry.                                                        *)

TraceGoes(from, to) ==
  /\ tpc = from
  /\ tpc' = to
  /\ UNCHANGED <<mpc, lpc, boxVars, Car_BootSwitch, Car_Speed_ConRight>>

TraceLoop ==
  /\ TraceGoes("loop", IF mt9v03x_finish_flag = 1 THEN "vision" ELSE "delay")
  /\ UNCHANGED <<locate_box_sem, trace_line_sem, mcxVars, cameraVars, traceVars, speedVars>>

\* Vision_Handle sees an ordinary road, or the first zebra crossing, or a
\* zebra crossing within 5000 ticks of the first.
TraceVision ==
  /\ TraceGoes("vision", "method")
  /\ Start_Flag' \in {Start_Flag, 1}
  /\ UNCHANGED <<locate_box_sem, trace_line_sem, mcxVars, cameraVars, push_flag,
                 elapsed, speedVars>>

\* Vision_Handle leaves a crossing after the first zebra crossing: the car is
\* stopped to tell left from right.
TraceVisionCross ==
  /\ Start_Flag = 1
  /\ TraceGoes("vision", "method")
  /\ Stop
  /\ UNCHANGED <<locate_box_sem, trace_line_sem, mcxVars, cameraVars, traceVars>>

\* Vision_Handle has turned into a roundabout or out of it, and claims the
\* right over the speed for the line follower.
TraceVisionRing ==
  /\ tpc = "vision" /\ tpc' = "method"
  /\ Car_Speed_ConRight' = "TraceLine"
  /\ UNCHANGED <<mpc, lpc, locate_box_sem, trace_line_sem, mcxVars, cameraVars,
                 traceVars, boxVars, Car_BootSwitch, speedVars>>

\* Vision_Handle sees a zebra crossing more than 5000 ticks after the first.
TraceVisionFinish ==
  /\ Start_Flag = 1
  /\ TraceGoes("vision", "zebraStop")
  /\ Stop
  /\ UNCHANGED <<locate_box_sem, trace_line_sem, mcxVars, cameraVars, traceVars>>

\* Car_DistanceMotion past the line, which keeps the yaw rate it finds ...
TraceZebraRun ==
  /\ TraceGoes("zebraStop", "zebraRun")
  /\ Car_Change_Speed("line", Car_Speed.w)
  /\ UNCHANGED <<locate_box_sem, trace_line_sem, mcxVars, cameraVars, traceVars>>

\* ... and stops; the thread then displays the result for ever.
TraceZebraEnd ==
  /\ TraceGoes("zebraRun", "finished")
  /\ Car_Change_Speed("zero", Car_Speed.w)
  /\ UNCHANGED <<locate_box_sem, trace_line_sem, mcxVars, cameraVars, traceVars>>

\* Without the right to drive the line follower issues no command.
trace_line_method ==
  /\ TraceGoes("method", "delay")
  /\ IF Car_Speed_ConRight = "TraceLine"
     THEN Car_Change_Speed("line", "line")
     ELSE UNCHANGED speedVars
  /\ mt9v03x_finish_flag' = 0
  /\ UNCHANGED <<locate_box_sem, trace_line_sem, mcxVars, traceVars>>

TraceNoBox ==
  /\ MCX_Detection_Flag = 0
  /\ TraceGoes("delay", "timer")
  /\ UNCHANGED <<locate_box_sem, trace_line_sem, mcxVars, cameraVars, traceVars, speedVars>>

TraceBrake ==
  /\ MCX_Detection_Flag = 1
  /\ TraceGoes("delay", "brake")
  /\ Stop
  /\ UNCHANGED <<locate_box_sem, trace_line_sem, mcxVars, cameraVars, traceVars>>

\* Variant: the semaphore of the box task is not released.
TraceGiveAway_NoRelease ==
  /\ TraceGoes("brake", "take")
  /\ UNCHANGED <<locate_box_sem, trace_line_sem, mcxVars, cameraVars, traceVars, speedVars>>

TraceGiveAway ==
  /\ TraceGoes("brake", "take")
  /\ locate_box_sem' = locate_box_sem + 1
  /\ UNCHANGED <<trace_line_sem, mcxVars, cameraVars, traceVars, speedVars>>

\* Variant: a wait that gives up instead of RT_WAITING_FOREVER.
TraceTake_GivesUp ==
  /\ TraceGoes("take", "clear")
  /\ trace_line_sem' = 0
  /\ push_flag' = 1
  /\ elapsed' = 0
  /\ UNCHANGED <<locate_box_sem, mcxVars, cameraVars, Start_Flag, speedVars>>

\* Variant: the count is not taken.
TraceTake_KeepsCount ==
  /\ trace_line_sem > 0
  /\ TraceGoes("take", "clear")
  /\ push_flag' = 1
  /\ elapsed' = 0
  /\ UNCHANGED <<locate_box_sem, trace_line_sem, mcxVars, cameraVars, Start_Flag, speedVars>>

TraceTake ==
  /\ trace_line_sem > 0
  /\ TraceGoes("take", "clear")
  /\ trace_line_sem' = trace_line_sem - 1
  /\ push_flag' = 1
  /\ elapsed' = 0
  /\ UNCHANGED <<locate_box_sem, mcxVars, cameraVars, Start_Flag, speedVars>>

\* Variant: the detection flag stays set.
TraceClear_Forgotten ==
  /\ TraceGoes("clear", "timer")
  /\ UNCHANGED <<locate_box_sem, trace_line_sem, mcxVars, cameraVars, traceVars, speedVars>>

TraceClear ==
  /\ TraceGoes("clear", "timer")
  /\ MCX_Detection_Flag' = 0
  /\ UNCHANGED <<locate_box_sem, trace_line_sem, MCX_rx_flag, mcxCurrent_Mode, center,
                 cameraVars, traceVars, speedVars>>

TraceNoRearm ==
  /\ ~(push_flag = 1 /\ elapsed = 1)
  /\ TraceGoes("timer", "loop")
  /\ UNCHANGED <<locate_box_sem, trace_line_sem, mcxVars, cameraVars, traceVars, speedVars>>

\* Variant: the enumerator Detection_Mode instead of the command character.
TraceRearm_Enumerator ==
  /\ push_flag = 1 /\ elapsed = 1
  /\ TraceGoes("timer", "disarm")
  /\ MCX_Change_Mode("1")
  /\ UNCHANGED <<locate_box_sem, trace_line_sem, MCX_Detection_Flag, MCX_rx_flag, center,
                 cameraVars, traceVars, speedVars>>

TraceRearm ==
  /\ push_flag = 1 /\ elapsed = 1
  /\ TraceGoes("timer", "disarm")
  /\ MCX_Change_Mode("D")
  /\ UNCHANGED <<locate_box_sem, trace_line_sem, MCX_Detection_Flag, MCX_rx_flag, center,
                 cameraVars, traceVars, speedVars>>

TraceDisarm ==
  /\ TraceGoes("disarm", "loop")
  /\ push_flag' = 0
  /\ elapsed' = 0
  /\ UNCHANGED <<locate_box_sem, trace_line_sem, mcxVars, cameraVars, Start_Flag, speedVars>>

Trace ==
  \/ TraceLoop \/ TraceVision \/ TraceVisionCross \/ TraceVisionRing
  \/ TraceVisionFinish \/ TraceZebraRun \/ TraceZebraEnd
  \/ trace_line_method \/ TraceNoBox \/ TraceBrake \/ TraceGiveAway \/ TraceTake
  \/ TraceClear \/ TraceNoRearm \/ TraceRearm \/ TraceDisarm
-----------------------------------------------------------------------------
(* locate_box_entry, direction_correction_test1 and push_box.               *)

LocateGoes(from, to) ==
  /\ lpc = from
  /\ lpc' = to
  /\ UNCHANGED <<mpc, tpc, MCX_Detection_Flag, center, traceVars>>

LocateTake ==
  /\ locate_box_sem > 0
  /\ LocateGoes("take", "start")
  /\ locate_box_sem' = locate_box_sem - 1
  /\ UNCHANGED <<trace_line_sem, MCX_rx_flag, mcxCurrent_Mode, cameraVars, boxVars, carVars>>

LocateStart ==
  /\ LocateGoes("start", "image")
  /\ Car_Start
  /\ Car_Speed_ConRight' = "TraceLine"
  /\ angle_state' = "turn"
  /\ UNCHANGED <<locate_box_sem, trace_line_sem, MCX_rx_flag, mcxCurrent_Mode,
                 cameraVars, ShouldPush, speedVars>>

\* Whether the box is seen straight from behind depends on the picture.
PushBox_IsDirectionCorrect == Flag

\* The verdict on the picture lasts for this turn of the loop only.
LocateImage ==
  /\ LocateGoes("image", "mcx")
  /\ ShouldPush' \in (IF mt9v03x_finish_flag = 1 THEN PushBox_IsDirectionCorrect ELSE {0})
  /\ mt9v03x_finish_flag' = 0
  /\ UNCHANGED <<locate_box_sem, trace_line_sem, MCX_rx_flag, mcxCurrent_Mode,
                 angle_state, carVars>>

\* Variant: the loop sleeps only after a frame.
LocateNoFrame_NoDelay ==
  /\ MCX_rx_flag = 0
  /\ LocateGoes("mcx", "image")
  /\ UNCHANGED <<locate_box_sem, trace_line_sem, MCX_rx_flag, mcxCurrent_Mode,
                 cameraVars, boxVars, carVars>>

LocateNoFrame ==
  /\ MCX_rx_flag = 0
  /\ LocateGoes("mcx", "tick")
  /\ UNCHANGED <<locate_box_sem, trace_line_sem, MCX_rx_flag, mcxCurrent_Mode,
                 cameraVars, boxVars, carVars>>

\* The steps of the switch leave everything alone but the car and their state.
InSwitch ==
  UNCHANGED <<locate_box_sem, trace_line_sem, MCX_rx_flag, mcxCurrent_Mode, cameraVars,
              ShouldPush, Car_BootSwitch>>

\* default: turn towards the box.
LocateTurn ==
  /\ MCX_rx_flag = 1 /\ angle_state = "turn"
  /\ LocateGoes("mcx", "ack")
  /\ Car_Change_Speed("zero", "box")
  /\ angle_state' = IF center.x \in {"aimed", "near"} THEN "Angle_Correct" ELSE "turn"
  /\ InSwitch /\ UNCHANGED Car_Speed_ConRight

\* Angle_Correct_State: drive up to it; center_x is compared first ...
LocateApproach ==
  /\ MCX_rx_flag = 1 /\ angle_state = "Angle_Correct"
  /\ LocateGoes("mcx", IF center.x = "aimed" THEN "aimY" ELSE "ack")
  /\ Car_Change_Speed("box", "box")
  /\ InSwitch /\ UNCHANGED <<angle_state, Car_Speed_ConRight>>

\* ... then center_y, perhaps of a later frame.
LocateNotThere ==
  /\ center.y # "aimed"
  /\ LocateGoes("aimY", "ack")
  /\ InSwitch /\ UNCHANGED <<angle_state, Car_Speed_ConRight, speedVars>>

\* Variant: the car is not stopped before classification.
LocateThere_Rolling ==
  /\ center.y = "aimed"
  /\ LocateGoes("aimY", "settle")
  /\ InSwitch /\ UNCHANGED <<angle_state, Car_Speed_ConRight, speedVars>>

LocateThere ==
  /\ center.y = "aimed"
  /\ LocateGoes("aimY", "settle")
  /\ Stop
  /\ InSwitch /\ UNCHANGED <<angle_state, Car_Speed_ConRight>>

LocateSettled ==
  /\ LocateGoes("settle", "classify")
  /\ angle_state' = "Location_Correct"
  /\ InSwitch /\ UNCHANGED <<Car_Speed_ConRight, speedVars>>

\* The spin on Art_Data ends.
LocateClassified ==
  /\ LocateGoes("classify", "ack")
  /\ InSwitch /\ UNCHANGED <<angle_state, Car_Speed_ConRight, speedVars>>

\* Location_Correct_State: circle the box until the picture is right.
LocateCircle ==
  /\ MCX_rx_flag = 1 /\ angle_state = "Location_Correct" /\ ShouldPush = 0
  /\ LocateGoes("mcx", "ack")
  /\ Car_Change_Speed("box", "box")
  /\ InSwitch /\ UNCHANGED <<angle_state, Car_Speed_ConRight>>

LocateBehindBox ==
  /\ MCX_rx_flag = 1 /\ angle_state = "Location_Correct" /\ ShouldPush = 1
  /\ LocateGoes("mcx", "settle2")
  /\ Stop
  /\ angle_state' = "Push_Box"
  /\ InSwitch /\ UNCHANGED Car_Speed_ConRight

LocateHoldYaw ==
  /\ LocateGoes("settle2", "ack")
  /\ Car_Rotate
  /\ InSwitch /\ UNCHANGED <<angle_state, speedVars>>

\* Push_Box_State: line up, then push_box.
LocateLineUp ==
  /\ MCX_rx_flag = 1 /\ angle_state = "Push_Box" /\ center.x # "aimed"
  /\ LocateGoes("mcx", "ack")
  /\ Car_Change_Speed("box", "zero")
  /\ InSwitch /\ UNCHANGED <<angle_state, Car_Speed_ConRight>>

LocatePush ==
  /\ MCX_rx_flag = 1 /\ angle_state = "Push_Box" /\ center.x = "aimed"
  /\ LocateGoes("mcx", "onTrack")
  /\ Car_Change_Speed("box", "zero")
  /\ InSwitch /\ UNCHANGED <<angle_state, Car_Speed_ConRight>>

\* More than ten readings of the track sensor in a row show the track ...
PushOnTrack ==
  /\ LocateGoes("onTrack", "offTrack")
  /\ InSwitch /\ UNCHANGED <<angle_state, Car_Speed_ConRight, speedVars>>

\* ... and then the ground beside it.
PushOffTrack ==
  /\ LocateGoes("offTrack", "pushStop")
  /\ Stop
  /\ InSwitch /\ UNCHANGED <<angle_state, Car_Speed_ConRight>>

\* Car_DistanceMotion(0, -30, 0.7)
PushBack ==
  /\ LocateGoes("pushStop", "back")
  /\ Car_Change_Speed("box", Car_Speed.w)
  /\ InSwitch /\ UNCHANGED <<angle_state, Car_Speed_ConRight>>

PushBackStop ==
  /\ LocateGoes("back", "backStop")
  /\ Car_Change_Speed("zero", Car_Speed.w)
  /\ InSwitch /\ UNCHANGED <<angle_state, Car_Speed_ConRight>>

PushTurn ==
  /\ LocateGoes("backStop", "turn")
  /\ Car_Rotate
  /\ InSwitch /\ UNCHANGED <<angle_state, speedVars>>

\* Variant: the detector is not silenced.
LocateFinish_NotSilenced ==
  /\ LocateGoes("turn", "ack")
  /\ Car_Speed_ConRight' = "TraceLine"
  /\ angle_state' = "finish"
  /\ UNCHANGED <<locate_box_sem, trace_line_sem, MCX_rx_flag, mcxCurrent_Mode, cameraVars,
                 ShouldPush, Car_BootSwitch, speedVars>>

\* Variant: the right over the speed is not given back.
LocateFinish_KeepsRight ==
  /\ LocateGoes("turn", "ack")
  /\ MCX_Change_Mode("R")
  /\ angle_state' = "finish"
  /\ UNCHANGED <<locate_box_sem, trace_line_sem, MCX_rx_flag, cameraVars, ShouldPush,
                 Car_BootSwitch, Car_Speed_ConRight, speedVars>>

\* Silence the detector, then give the speed back to the line follower.
LocateFinish ==
  /\ LocateGoes("turn", "ack")
  /\ MCX_Change_Mode("R")
  /\ Car_Speed_ConRight' = "TraceLine"
  /\ angle_state' = "finish"
  /\ UNCHANGED <<locate_box_sem, trace_line_sem, MCX_rx_flag, cameraVars, ShouldPush,
                 Car_BootSwitch, speedVars>>

LocateAck ==
  /\ LocateGoes("ack", "tick")
  /\ MCX_rx_flag' = 0
  /\ UNCHANGED <<locate_box_sem, trace_line_sem, mcxCurrent_Mode, cameraVars, boxVars,
                 carVars>>

LocateAgain ==
  /\ angle_state # "finish"
  /\ LocateGoes("tick", "image")
  /\ UNCHANGED <<locate_box_sem, trace_line_sem, MCX_rx_flag, mcxCurrent_Mode, cameraVars,
                 boxVars, carVars>>

\* Variant: the semaphore of the line follower is not released.
LocateReturn_NoRelease ==
  /\ angle_state = "finish"
  /\ LocateGoes("tick", "take")
  /\ UNCHANGED <<locate_box_sem, trace_line_sem, MCX_rx_flag, mcxCurrent_Mode, cameraVars,
                 boxVars, carVars>>

LocateReturn ==
  /\ angle_state = "finish"
  /\ LocateGoes("tick", "take")
  /\ trace_line_sem' = trace_line_sem + 1
  /\ UNCHANGED <<locate_box_sem, MCX_rx_flag, mcxCurrent_Mode, cameraVars, boxVars, carVars>>

Locate ==
  \/ LocateTake \/ LocateStart \/ LocateImage \/ LocateNoFrame \/ LocateTurn
  \/ LocateApproach \/ LocateNotThere \/ LocateThere \/ LocateSettled \/ LocateClassified
  \/ LocateCircle \/ LocateBehindBox \/ LocateHoldYaw \/ LocateLineUp \/ LocatePush
  \/ PushOnTrack \/ PushOffTrack \/ PushBack \/ PushBackStop \/ PushTurn
  \/ LocateFinish \/ LocateAck \/ LocateAgain \/ LocateReturn
-----------------------------------------------------------------------------
Next ==
  \/ Main \/ Shell \/ McxFrame \/ CameraFrame \/ car_motion_run \/ CoolDownElapses
  \/ Trace \/ Locate

Spec == Init /\ [][Next]_vars

(***************************************************************************)
(* Fairness.  The scheduler always runs a ready thread of priority 2 (the  *)
(* only higher one blocks every tick), main is never held up during        *)
(* start-up, and time passes.  WF of Locate also says that the track       *)
(* sensor sees the track and then the ground while a box is pushed, but    *)
(* not that the classification ends (ArtVote).  Nothing is assumed of      *)
(* frames, pictures, the button or the shell.                              *)
(***************************************************************************)
FairSpec ==
  /\ Spec
  /\ WF_vars(Main /\ mpc # "poll")
  /\ WF_vars(CoolDownElapses)
  /\ WF_vars(Trace)
  /\ WF_vars(Locate /\ lpc # "classify")
-----------------------------------------------------------------------------
(* Safety.                                                                  *)

TraceDrives == tpc \notin {"off", "take"}
BoxDrives   == lpc \notin {"off", "take"}

\* trace_line_entry and direction_correction_test1 never drive the car at the
\* same time, and the two semaphores together never hold more than the one
\* right to drive: whoever finds its count positive finds the other task
\* waiting (trace_line.c lines 186-187, locate_box.c lines 349-354).
OneDriver ==
  /\ ~(TraceDrives /\ BoxDrives)
  /\ locate_box_sem > 0 => ~TraceDrives /\ ~BoxDrives /\ trace_line_sem = 0
  /\ trace_line_sem > 0 => ~TraceDrives /\ ~BoxDrives /\ locate_box_sem = 0

\* Whenever the line follower drives, it also holds the right over the speed:
\* the angle loop that push_box leaves behind (Car_Rotate) is undone before
\* control comes back, so trace_line_method is never silently mute.
RightWithTrace == TraceDrives => Car_Speed_ConRight = "TraceLine"

\* During the cool-down after a push the detector is in Reset, no detection is
\* pending or in progress and the box task waits: the box just pushed cannot
\* start a second push, and clearing MCX_Detection_Flag (line 192) never
\* erases a detection that was not dealt with.
CoolDownIsQuiet ==
  push_flag = 1 /\ tpc # "disarm" =>
    /\ mcxCurrent_Mode = "Reset"
    /\ tpc # "clear" => MCX_Detection_Flag = 0
    /\ ~BoxDrives /\ locate_box_sem = 0

Standing == Car_Speed.v = "zero" \/ refused = 1

\* Where the code relies on a standing car it has one: when the box task
\* takes over, while it settles and classifies, before and after it backs
\* away from the box, and after the finish.  The exception is a car that was
\* locked when the stop was commanded, for then Car_Change_Speed did nothing
\* and a later Car_Start resumes the old speed.  Nothing is said of where it
\* stands: the decision to stop may rest on x and y of two frames.
StandsStill ==
  /\ tpc \in {"brake", "zebraStop", "finished"} => Standing
  /\ lpc \in {"start", "settle", "classify", "settle2", "pushStop", "backStop", "turn"}
       => Standing

\* The box task runs only after main has initialised its controllers, although
\* locate_box_init starts the thread first (line 375) and main runs at the
\* lowest priority of the three.
StartedInOrder == BoxDrives \/ locate_box_sem > 0 => mpc = "poll"

-----------------------------------------------------------------------------
(* Refinement of the hand-over ring.                                        *)

Driver ==
  IF BoxDrives THEN "box"
  ELSE IF locate_box_sem = 1 THEN "toBox"
  ELSE IF trace_line_sem = 1 \/ tpc = "clear" THEN "toTrace"
  ELSE "trace"

Handover == INSTANCE CarHandover WITH
  driver  <- Driver,
  sighted <- MCX_Detection_Flag = 1,
  quiet   <- push_flag = 1 /\ tpc \notin {"clear", "disarm"}

\* The threads, flags and semaphores implement the hand-over ring: a round
\* starts from a sighting made while the detector was armed, and a sighting
\* is forgotten only by the round that served it.
ImplementsHandover == Handover!Spec

-----------------------------------------------------------------------------
(* Liveness.                                                                *)

\* A detection that finds the line follower driving is served by the box task,
\* unless the course is finished first.
DetectionServed ==
  MCX_Detection_Flag = 1 /\ TraceDrives /\ tpc # "clear" ~> BoxDrives \/ tpc = "finished"

\* Once the box is being pushed the line follower gets the car back.
PushReturnsControl == lpc = "onTrack" ~> TraceDrives

\* The detector is armed again after every push, unless the course is finished.
DetectorRearmed == push_flag = 1 ~> mcxCurrent_Mode = "Detection" \/ tpc = "finished"

\* However the two tasks of priority 2 take turns, both of them sleep again and
\* again, so that main and the shell, and with it CarStop, get the processor:
\* none of their loops spins without end, and the loops that poll sleep in every
\* round (locate_box.c line 315).  push_box polls the track sensor without sleeping
\* (lines 189-195); that the sensor sees the track and then the ground, which ends
\* this, is assumed (FairSpec).  The wait for a class is the one spin nothing ends
\* (ArtVote).
ShellServed == []<>(LowPriorityRuns \/ lpc = "classify")
=============================================================================
