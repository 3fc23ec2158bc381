# TLA+ specifications of the Car_2025 firmware

The repository is the firmware of a smart car (NXP RT1064, RT-Thread) that
follows a line with a grey-scale camera, drives through crossings and
roundabouts, and, when a second camera (the "MCX") reports a box beside the
track, leaves the line, lets a third camera (the "Art") name the box, pushes it
off the track on the side its class prescribes, and goes on.  There is no
test-suite and no host build: the interleavings of threads and interrupts, the
serial lines that lose bytes, and the frame-by-frame state of the vision code can
only be tried on the car.  These specifications model that logic from the
source, check it with TLC on small instances, and prove part of it with TLAPS
for every value of the parameters.

The team's own code is in `project/code`, `project/user` and `project/mdk`
(about 6600 lines); everything under `libraries` is vendored.

## 1. Inventory

| component | files | state | operations |
|---|---|---|---|
| Driving tasks | `main.c`, `trace_line.c`, `locate_box.c`, `car.c`, `debug_tool.c` | two semaphores, `MCX_Detection_Flag`, `MCX_rx_flag`, `push_flag`, `angle_state`, `Car_BootSwitch`, `Car_Speed`, `Car_Speed_ConRight`, `Start_Flag` | start-up sequence; line-following loop; braking, handing over, cool-down and re-arming; approach, classify, circle, push, back away, turn; `Car_Start`, `Car_Stop`, `Car_Change_Speed`, `Car_Rotate` |
| MCX link | `MCXvision.c` | receiver state, count and buffer; mode; coordinates; flags | byte interrupt, frame handler, mode switch |
| Art link and vote | `art.c`, `classify.c`, `locate_box.c` 255-280 | receiver; `Art_Data`; the local vote; `Class_Info` | byte interrupt, voting loop, `Class_Add` |
| Road elements | `my_vision.c` | `Current_Road`, `Circule_Handle`, and static variables inside the handlers (`out_n`, `init_angle`, `state`, `tick`) | `Vision_SymbolJudge`, handlers of crossing, roundabout, corner, zebra crossing |
| Border segments | `my_vision.c`, `user_math.c` | one border and its array of segments | `Vision_GetSegment`, `Line_IsStraight` |
| Line scan | `camera.c` | two borders, two flags, the limit row | `Camera_FindMyLine` |
| Wheel speed loop | `car.c`, `motor.c`, `PID.c`, `encoder.c` | targets, references, integrals, duties | `car_motion_run`, `mecanumRun`, `Slew_Func`, `Pos_PID_Controller`, `Car_Stop` |
| Image preparation | `camera.c`, `my_vision.c` | threshold, rates | Otsu threshold, black rate, symmetry rate |
| Corner points | `my_vision.c`, `user_math.c` | the points of one border and their number; the border, which the search smooths | `Vision_BroderFindFP`, `Vision_FindArcFP` |
| Redrawn borders and steering | `my_vision.c`, `camera.c`, `trace_line.c` | both borders, `MID_Table`, `TraceLine_Aver_Offset` | `Vision_ExtendLine`, `Vision_set_AdditionalLine`, `Vision_SetLose`, `Vision_SetLineWithPointK`, the handlers that call them, the middle line, `trace_line_method` |
| Attitude | `Attitude_algorithm.c` | quaternion, yaw | gyroscope integration |
| Line geometry | `user_math.c` | none | slopes, angles, averages |
| Buzzer, LED, display | `buzzer.c`, `final.c`, `classify.c`, `system_perform.c` | counters of their own | threads that sleep and toggle or draw |
| Shell parameters | `debug_tool.c` | single tuning parameters | set, print |
| Unused | `step_motor.c`, `button.c`, `circule_handle.c` | | never called, or empty |

How they interact.  The `trace_line` and `locate` threads (priority 2) exchange
the car through `locate_box_sem` and `trace_line_sem`; the round is triggered by
`MCX_Detection_Flag`, which the UART 3 interrupt sets.  Both command the wheels
through `Car_Change_Speed`, whose variables the `car_motion` thread (priority 1,
every tick) reads; `Car_Speed_ConRight` says whether the yaw rate is the task's
or the angle loop's.  The UART 5 interrupt writes `Art_Data`, which the box task
polls.  The camera interrupt sets `mt9v03x_finish_flag`; the line follower then
runs threshold, line scan, segments, corner points, road elements with their
redrawn borders, middle line and offset, in that order, on the frame.  `main`
(priority 10) starts everything and polls the start button; the shell (priority
20) has the commands `CarStart` and `CarStop`.

What is hard: two threads of equal priority that must never drive together; a
flag set by an interrupt and cleared by a thread; interrupts between two reads of
one variable; serial frames whose payload may contain the framing bytes; a
cool-down that separates two pushes; static variables that outlive the road
element they belong to; index arithmetic that differs at the first, the last and
the other rows of an image; and a stop that can be interrupted.  `PROJECT.json`
lists these under "hazards", each with its line and the properties aimed at it.

What makes each component correct:

* tasks: one driver, who holds the right over the speed; no second push of the
  same box; no detection thrown away; the car stands where the code relies on it;
  every detection is served, control comes back, and the shell is heard;
* links: intact frames are taken over exactly, damaged ones do no lasting harm, and
  a detection that was not reported costs a lost byte each time;
* vote: a class wins only if it was reported often enough, and a box is entered once,
  by the winner or by a report that came in after the vote;
* road elements: element and handler state agree; a roundabout is abandoned only
  on consecutive evidence, and left after a whole turn; one zebra crossing
  counts once;
* segments and line scan: the rows are partitioned, kinds alternate, rows and
  segments tell the same story, a road is followed and crossed borders are not used;
* threshold: it separates two classes of the sample, and the frame turns dark or
  bright as a whole only where the arithmetic cannot do better;
* corner points: they lie on their lines, as the border is handed on, and no
  shape comes out that the road elements do not expect;
* redrawn borders: they steer the car the way the element asks for, stay in the
  image and close what was open;
* wheel loop: limits kept, soft references, and a locked car has no duty.

## 2. Modules

| module | models | main abstraction |
|---|---|---|
| `CarHandover` | what the driving tasks promise each other: a ring of four stations, a pending sighting, a silent period | abstract specification |
| `CarTasks` | the threads, semaphores, flags, both interrupts, the shell and time; refines `CarHandover` | speeds are who wrote them; coordinates are the windows the code compares them with; durations have no length |
| `CarTasksProofs` | proofs about `CarTasks` | |
| `UartFrame` | the receiver that `MCX_uart_callback` and `Art_uart_callback` share | |
| `McxLink`, `MCMcxLink` | the MCX line byte by byte, the handler, the mode switch | five payloads |
| `McxLinkProofs` | proofs about `UartFrame` and `McxLink` | |
| `ArtVote` | the Art line byte by byte, the voting loop, one action per access to `Art_Data`, and `Class_Add` | two classes |
| `ArtVoteProofs` | proofs about `ArtVote` | |
| `BorderShape` | what is left of a border once it has been cut and searched: the vocabulary of the modules on road elements, corner points and steering | the kinds of its segments and its number of corner points |
| `RoadSymbol`, `MCRoadSymbol` | `Vision_SymbolJudge`, `Vision_RSHandle` and the handlers, one action per kind of frame | borders as in `BorderShape` |
| `RoadSymbolProofs` | proofs about `RoadSymbol` | |
| `Segments` | `Vision_GetSegment`, one action per row | distance from the edge of the border's own side |
| `CornerPoints`, `MCCornerPoints` | `Vision_BroderFindFP` and `Vision_FindArcFP`, one action per branch, after `Segments` | which row is the sharpest is free |
| `CornerPointsProofs` | proofs about `Segments` and `CornerPoints` | |
| `Steering` | the borders as the handlers redraw them, the middle line, the weighted offset | borders made of straight stretches, at real size |
| `AdaptThreshold` | `Camera_My_Adapt_Threshold`, one action per sampled pixel and per grey level | shares and means as counts and sums |
| `AdaptThresholdProofs` | proofs about `AdaptThreshold` | |
| `LineScan` | `Camera_FindMyLine`, one action per row | a pixel is darker or brighter than the threshold |
| `LineScanProofs` | proofs about `LineScan` | |
| `MotorLoop`, `MCMotorLoop` | one round of the loop per action; `Car_Change_Speed` field by field; `Car_Stop` motor by motor | integers for floats; measured speeds are inputs |
| `ControlProofs` | proofs about `MotorLoop` and `Steering`, the two ends of the control of the car | |

Names are the source's wherever TLA+ allows it (`broder`, `Circule` included).
Definitions introduced by "Variant:" are plausible mistakes in that piece of code;
nothing uses them, they are there to be put in the place of the definition that
follows, to see that the properties notice.

### CarTasks

A step is the code between two points at which another actor can be seen: a
blocking call, or an access to a variable an interrupt also touches.  `mpc`,
`tpc`, `lpc` are the points at which `main`, `trace_line_entry` and
`locate_box_entry` can be; each value is one blocking call or one such access.
Interrupts and the priority-1 thread may come between any two steps; `main` runs
only if both priority-2 threads are blocked (`LowPriorityRuns`), and the shell only
if main is blocked too (`ShellRuns`).  The two priority-2 threads have equal
priority and a time slice, so their steps interleave freely.  `refused` is a
history variable: the last `Car_Change_Speed` found the car locked.  Both tasks
overwrite the semaphores' counts only through `rt_sem_take` and `rt_sem_release`.
In the approach to the box `center_x` is compared before `center_y`, with frames in
between (`LocateApproach`, then `LocateThere` or `LocateNotThere`).
Classification is one step here, and `ArtVote` opens it up.

### McxLink and ArtVote

The cameras are external: they send frames `head ... tail`, and each byte is
delivered to the interrupt handler or lost.  `rx` is the pair of static variables
and the buffer.  A tail hands the buffer over whatever state the receiver is in,
as the code does.  `misread` counts the frames of which a tail published something
that they do not say.  In `ArtVote` each action of the task is one access to
`Art_Data` with the local steps that follow it, so that the interrupt can fall
between any two; the class is read once more for `Class_Add`, as the code does, and
`late` remembers the last report that ended between the vote and this read.

### RoadSymbol

`Features` are the shapes a border can have; that the vision code produces no
other is the property `ShapeKnown` of `CornerPoints`, so what `RoadSymbol` assumes
of its inputs is guaranteed by the module that computes them.  The handlers redraw
borders; these are found afresh in each frame, so redrawing has no effect on later
frames and is left to `Steering`.  `turn` is the heading
less `init_angle`: it has a sign, and the code compares its absolute value.  Between two
frames it may change by any of `Turns`, forward or back; a quarter turn and more is
possible because the line follower may hand the car over between two frames, in a
roundabout too, to push a box.  `bent` (denials in a row since this roundabout
began), `total` (degrees turned in it, to and fro), `lap` and `corner` are history
variables for the properties.  The states of `Vision_Cir_Normal_Handle` are never
used by the code.

### Segments and LineScan

Both are loops over rows; the state is the state of the C function after each
row.  A read of `broder[imgRow]` (the row below the first one, past the array) is
any distance.  `breaks` is how often the border that was given changes between seen
and lost, before the cutting rewrites it.  `Line_IsMonotonous` adds to an uninitialised variable, so both of
its answers are possible.  In `LineScan` the pixels of a row are chosen when it is
scanned, and so is the pixel left of column 0, which is the last one of the row
above.  The right border of `Segments` is the mirror image of the left one; integer
division rounds the two by one differently, which only the threshold of
`Line_IsStraight` could notice.

### CornerPoints

The module extends `Segments`: its specification cuts the border as `Segments`
does and then searches it.  `Vision_FindArcFP` compares cosines of three pixels; the
model lets any row of its range win, or none, which covers every border and every
rounding.  What it does to the border while it searches (rows with the value of a
lost line take the value of the row above) is exact, in the order of the code: the
search on the far line works on what the search on the near line left.
`Line_GetAverage` adds to an uninitialised variable, so the comparison of two
averages, which takes a point back, is free.

### Steering

One frame: the borders as they were judged, `Vision_RSHandle` (as far as it
redraws), the middle line, `trace_line_method`.  The borders are the inputs: lost,
straight, broken off, bent or beginning late, with their kinds and their point, in
all combinations under every road element and state.  Slopes are quotients and
columns are cut towards zero, as the assignment of a float to an `int16` cuts them;
only the rounding of the float itself is left out.  The offset is kept as a sum
times `imgRow`^2, so that its weights are integers.

### AdaptThreshold

The sample is drawn pixel by pixel, in any order of grey values, and the second
loop is followed level by level.  With `c` pixels up to a level, `s` their sum and
`m` the mean, the variance of the code is (s - cm)^2 / (c (n - c)), which is compared
exactly by cross-multiplication.  `m` is the quotient of two integers, as in line
165.  Only at the brightest level does the rounding of floats decide: there the
share of brighter pixels is zero or what is left of 1 minus a sum, so `LastLevel`
allows no number, a smaller or a larger variance.

### MotorLoop

One round of the 1 kHz loop cannot be interrupted by the other threads and is one
action.  `Car_Change_Speed` writes one field per step, and `Car_Stop` locks the car
first and then switches off the motors one by one, with the loop and `Car_Start`
in between.  `Car_Rotate` gives the rotation to the angle loop and then sets the
heading; since a round may fall in between, and work with the heading of the last
turn, the angle that is left to turn is any of `YawErrors` in every round.  As in the code the output uses the integral from before it is
limited, and the controller works with the reference of the round before.

## 3. Runs

| run | spec | properties | instance |
|---|---|---|---|
| `tasks` | `FairSpec` | `TypeOK`, `OneDriver`, `RightWithTrace`, `CoolDownIsQuiet`, `StandsStill`, `StartedInOrder`, `ImplementsHandover`, `DetectionServed`, `PushReturnsControl`, `DetectorRearmed`, `ShellServed` | no constants: the whole model, 70 thousand states |
| `mcx_link` | `Spec` | `TypeOK`, `FrameAssembled`, `Recovers`, `DetectionAsSent` | 5 payloads, 3 lost bytes; 6.7 million states |
| `art_vote` | `FairSpec` | `VoteCounted`, `KnownClass`, `OneEntryPerBox`, `VoteEnds` | 2 classes, 3 lost bytes, 2 boxes; 2.3 million states |
| `road` | `FairSpec` | `StatesAgree`, `FinishIsLate`, `DeniedInARow`, `RingTurned`, `RingLeft` | turns of -50, 25 or 100 degrees between two frames |
| `motor` | `FairSpec` | `TypeOK`, `LockedIsStill`, `ForwardLimited`, `SoftStart`, `SpeedReached` | motors A and B, 2 commands (and their mixtures), 2 measured speeds, 2 angles left to turn |
| `corners` | `CornerSpec` | `Segmented`, `RowsAgree`, `ShapeKnown`, `PointsPlaced` | 13 rows, 3 distances, both sides; 4.6 million states |
| `line_scan` | `Spec` | `BordersUsable`, `RoadFollowed` | 3 rows of 10 pixels |
| `threshold` | `Spec` | `SplitAtFirstPeak`, `WholeFrame` | 9 pixels, 8 grey values; 89 thousand states |
| `steering` | `SteeringSpec` | `OffsetBounded`, `RingSteered`, `CrossClosed` | 70 rows of 188 columns, borders through 3 columns and 2 rows; 1.1 million states |
| `art_wait`, `road_corner`, `segments_straight` | | one each, see section 6 | counterexamples |

Some of these are conjunctions of named parts, each with its own comment:
`DetectionAsSent` of `PublishesFrame` and `MisreadsPaid`; `VoteCounted` of `TypeOK`
and `VotedByReports`; `StatesAgree` of `TypeOK` and `SymbolStateAgrees`; `RingLeft` of
`RingEnds` and `RingEntryDecided`; `Segmented` of `FPTypeOK`, `SegmentsCover`,
`AlternateButLast` and `SegmentsFit`; `PointsPlaced` of `PointsOnTheLine`,
`PointsAcrossTheGap` and `PointsSeen`; `BordersUsable` of `TypeOK` and `NoCrossedRow`;
`SplitAtFirstPeak` of `TypeOK` and `FirstPeak`; `WholeFrame` of `AllDarkOnlyAtTheEnd` and
`AllBrightOnlyWithoutContrast`; `OffsetBounded` of `SteeringTypeOK` and `SteersWithinImage`;
`RingSteered` of `RingSteersIn` and `CourseKept`.

Why the bounds are enough.

* `CarTasks` has no bound at all; it is finite as it stands.
* Three lost bytes span the cases that matter to a receiver whose state is one
  flag and a count: a lost head, a lost payload byte and a lost tail, and all pairs
  and triples of these in one frame or in neighbouring ones.  The payloads contain
  both framing bytes as low bytes of a coordinate (the tail in x and in y), and a
  frame without target with a tail inside; three frames can be misread, so
  `MisreadsPaid` is met with equality.  `KnownClass` and `OneEntryPerBox` say from how many losses on the line
  may name a box by something that is no class; with `MaxLosses` = 3 that case is
  in the instance.
* Two classes are one number and one peripheral; the vote only compares classes for
  equality.  Two boxes are needed because `Art_Data` and the receiver are left over
  from the first.
* The angles of the roundabout are the source's own.  25 degrees are the turn of the
  lane, -50 a correction back or the other sense of the roundabout, 100 a push in
  between: thresholds are met exactly (50), just passed and passed by far, to both
  sides.  The theorems hold for any turns.
* Thirteen rows hold two lines with a long gap between them and four segments, with
  every alignment of ends to rows 0 to 3, where the loop treats the last rows
  differently.  Distances 0, 4 and 9 are lost, lost on one side only where a segment
  begins (doubtful), and seen; any rows may be lost or seen, and up to three (`MaxNear`)
  doubtful, which is enough for two beside a segment's begin and one elsewhere.  `breaks` + 2 segments do occur.  `Short` is 5 rows of 70
  in the code and scaled to 2 of 13.  `Long`, `Reach` and `ArcRow` are 15, 15 and 25 of
  70 in the code and scaled to 4 of 13: gaps shorter and longer than `Long`, far
  lines shorter and longer than `Reach` and arcs to both sides of `ArcRow` occur.
* The variance depends on the histogram alone.  Nine pixels over eight levels give
  histograms with one, two and three peaks, with empty levels anywhere, and means
  that are cut by every remainder.
* `Steering` has the size of the image, since its constants (187, 10, 180, 20, five
  rows for a slope) are tied to it.  Three columns and two rows give slopes of both
  signs that run out of the image and slopes that do not, and points in both halves.
* Three rows are a first row, a row above it and the last row of the line scan;
  `RightZone`, `LeftZone`, `Probes`, `MinWidth` and `range_line` are scaled from
  188 columns to 10 so that each of them decides in some image.
* Motors A and B have gains of opposite sign, and C differs from A only in its wheel
  speed; one of the commands exceeds the limit, and the turn takes a wheel of it
  below the limit or, backwards, past it.  All numbers are multiples of 100, so that
  the references meet in few values; the rate of 400 ends a ramp with a full step, a
  shorter one or none.

Fairness.

* `CarTasks`: weak fairness of start-up, of `CoolDownElapses` (time passes), of
  `Trace` and of `Locate` except for the end of the classification.  RT-Thread
  always runs a ready thread of the highest priority and slices time among equal
  ones; the only thread above them sleeps every tick; `rt_thread_delay` ends.  For
  the two spins of `push_box` it also says that the track sensor sees the track and
  then the ground, which is what the box is pushed across.  Nothing is assumed of
  frames, pictures, the button or the shell.
* `ArtVote`: weak fairness of the line without losses and of the task; `VoteEnds`
  assumes in its statement that the camera settles on one class.
* `RoadSymbol`: strong fairness of a frame of a roundabout in which the car has turned:
  there it steers round a bend in every frame.  `RingEnds` assumes in its statement that
  within a state the car in the end turns to one side only; a car that swings to and fro
  for ever never gets away from `init_angle`, and is not promised to leave.
  `RingEntryDecided` needs of it only that frames are processed.
* `MotorLoop`: weak fairness of the loop, which the tick wakes.

## 4. What is proved

`CarTasksProofs` (for `CarTasks`, which has no parameters, the proofs replace the
enumeration of states by an argument):

* `InductiveInvariant`, and from it `TypeCorrect`, `MutualExclusion`,
  `TraceHasTheRight`, `QuietCoolDown`, `CarStands`, `StartUpOrder`;
* `Refinement`: `Spec => ImplementsHandover`.

`OneDriver` is not inductive: a state in which the box task drives and the line
follower waits satisfies it, but if `trace_line_sem` were 1 the next step would
break it.  The invariant is a conjunction of
`TypeOK`; `Startup` (which thread and semaphore exist at which point of `main`);
`Token` (after start-up the right to drive is in exactly one of four places:
with the line follower, in `locate_box_sem`, with the box task, in
`trace_line_sem`); `BoxStates` (which `angle_state` belongs to which point of the
box task); `Rights` (the angle loop has the yaw rate only in the last phase of a
push); `Silenced` (from the end of a push to its re-arming the detector is in
Reset); `Reported` (a round is under way only for a pending detection, and the
flags at start-up); `StandsStill`, together with the fact that the car stands while
the right to drive is on its way to the box task.  `Silenced` and `Reported` are
what the refinement needs: no sighting while quiet, and no sighting forgotten.
One lemma per group of actors shows that their steps preserve it.

`ControlProofs`, on `MotorLoop` (for every set of commands, measured speeds and angles
left to turn, every rate and all limits that satisfy `MotorAssumption`):

* `LimitsKept` (`TypeOK`: the integral and the duty of every motor are within their
  limits), `LockedStands`, `ForwardWithinLimit`, and the action property
  `SoftReferences`.

The invariant is `TypeOK /\ LockedIsStill /\ ForwardLimited`; it rests on lemmas
about `Clamp`, `Slew_Func`, `Pos_PID_Controller` and on `Scaled`: scaling by the
largest signed speed keeps every speed at or below the limit, with the division
of the integers.

`ControlProofs`, on `Steering` (for every size of the image of more than 12 rows and 187
columns, every first row that counts, and all columns and rows through which the
borders of a frame may go):

* `SteeringInvariant`, and from it `OffsetWithinImage` (`OffsetBounded`), `CrossingsClosed`
  (`CrossClosed`) and `MouthPassed` (`CourseKept`);
* `RingIsSteered` (`RingSteered`) for the image of the code: `imgRow` = 70, `imgCol` = 188 and
  `row_begin` = 20.  How far a line through columns 187 and 10 steers on average depends
  on these three; nothing is assumed of the borders.

The properties speak of the end of a frame, when the offset is known; by then the
borders that were redrawn are no longer those that were judged.  The invariant
`SteeringInv` therefore remembers what the redrawing left: `Inside` (but at the mouth of a
roundabout every column is in the image), `Mirrored` (there, the drawn border has the
negative slope of a straight one on the other side), `Across` (which line a roundabout is
entered and left along, and which border is lost for it), `Closed` (no jump of an
extended border is larger than one of the line it continues) and, from `Shaped` and
`Judged`, that the code's conditions on kinds and points decide which border is which
(`CrossSides`: an arc on one side of a crossing means a border that begins late on the
other).  `Middles` and `Weighed` tie the middle line and the sum to the borders.

* The numbers rest on lemmas about the truncating quotient (`Truncated`,
  `TruncatedWithin`) and `Between` (`BetweenEnds`).
* `StepOfExtension`: neighbouring columns of an extended border differ by no more than
  the slope rounded up, whether they are put back into the image or not; `MovedBy`: over
  the rows the slope was taken from, some jump is at least that large.  Together they
  are `FarContinued` and `NearContinued`.
* `MirrorSum`: at the mouth of a roundabout the two borders have the same sum in every
  row up to less than 3, so the middles of any two rows are at most one column apart.
* `FoldIsSum` and `SumAtLeast`: the fold of `trace_line_method` is bounded by any function of
  sets of rows that no single row violates, by the least number of rows for which it
  would fail.  `OffsetWithin` uses it with half an image for each row, `SteeredAcross` with
  what the rows 20 to 39, 40 to 57, 58 to 68 and 69 add at least.

`McxLinkProofs` (for every set of payloads in the picture and every number of lost
bytes):

* lemmas about `Received` of `UartFrame`, for every limit: a tail leaves the receiver
  idle, other bytes between frames are ignored, a stored byte changes one place of the
  buffer, and no byte takes the count past the limit (`ReceivedInBounds`);
* `BufferNotOverrun` (`TypeOK`), `LineRecovers`, `FramesAssembled`, and the action
  property `SentIsDetected` (`DetectionAsSent`).

`Recovers` speaks of the end of a frame and `FrameAssembled` of payloads without a tail;
neither says what the receiver does while a frame with a tail among its coordinates
is under way.  `Underway` adds that: in an intact frame either all bytes so far are
in the buffer, or a tail has ended it early, and then at most its last byte was
taken for a new head; in all three cases the bytes up to the first tail are in their
places (`InPlace`), so what each tail publishes is the frame's own up to that tail.
`Beginning` hands the idle receiver from one frame to the next.  `Paid` keeps the account
of `MisreadsPaid`: a frame that can still be misread because it lost a byte or found the
receiver out of step, or that leaves the receiver out of step for the next one, has been
paid for by a lost byte that no misread frame has used (`Debt`).  With `handled <= sent`
these make the invariant inductive.  `PictureAssumption` is needed in the third case of
`Underway`: the coordinates are those of a picture, so their high bytes are no framing bytes.

`RoadSymbolProofs` (for every set of turns between two frames, to either side and of any
size, and every sequence of borders):

* `ElementsAgree` (`StatesAgree`), `OneLap` (`FinishIsLate`), and the action properties
  `GivenUpOnThree` (`DeniedInARow`) and `LeftAfterTheTurn` (`RingTurned`).

The invariant adds three facts.  `Counted`: within a roundabout the static count of
denials is the number seen in this roundabout, although nothing resets it when one
begins (it holds because a roundabout begins with a straight far border).
`Angles`: while a state lasts the heading is within its threshold of where the state
began, and the way turned in this roundabout is longer than the thresholds of the states
before it and this angle together; the way grows by at least as much as the angle
(`WayGrows`), however the car turns.  `Laps`: the flag
of the first crossing and what is known of its time agree.  A lemma for each handler
shows that its frames preserve the invariant.

`ArtVoteProofs` (for every set of classes (`ClassAssumption`), every number of lost
bytes and every number of boxes up to the 100 entries of `Class_Info`, beyond which
`Class_Add` would write past the table):

* `CountedVotes` (`VoteCounted`), `NamedByClass` (`KnownClass`), `EveryBoxEntered`
  (`OneEntryPerBox`).

`VotedByReports` speaks of the end of a vote and of what names the box; the invariant has to keep accounts before
that.  `Paid`: the votes that the loop has counted for a class, the report that lies
in `Art_Data` and has yet to be counted, and the one the receiver owes are covered
by the reports sent since the vote began and the bytes lost so far.  The receiver owes
one exactly if it is not where a line that loses nothing would have it
(`Synchronous`): then the next tail may publish the old buffer again, which puts the
receiver right.  `Receiving` says how many losses each state of the receiver costs; in
particular the head of a frame gets to the place of the class only if two bytes are
lost, which is where the exception of `KnownClass` and `OneEntryPerBox` comes from.
`Voting` holds what the loop relies on between two reads of `Art_Data`.  `Naming` follows
`Art_Data` from the last comparison to `Class_Add`: on a line that has lost nothing it is
the class that won, or that of the last report that ended since.

`LineScanProofs` (for every image size, every set of shades and all margins that
satisfy `ScanAssumption`):

* `UsableBorders` (`BordersUsable`), `FollowsRoad` (`RoadFollowed`).

`NoCrossedRow` speaks of the finished scan.  `Scanned` adds that the limit, while the
loop runs, is unset or set by the round before, and that all rows below it are wide
enough.  `RoadFollowed` is about the search from the row below and needs only that
this row has columns of the image; the proof finds the first dark pixel to either
side by the least element of a set of columns.

`CornerPointsProofs` (for every image height of at least four rows, every set of
borders and distances, either side and all lengths that satisfy
`SegmentAssumption` and `CornerAssumption`):

* `SegmentsOfBorder` (`Segmented`), `RowsOfSegments` (`RowsAgree`), `ShapesOfBorders`
  (`ShapeKnown`), `PointsOfBorders` (`PointsPlaced`).

While rows are scanned the segments are chained and in order, each between the first
and the last has four rows, and kinds alternate (`Cut`).  A step cannot see this from
the open segment's kind alone: `Begun` remembers that the first rows of a segment
decide that it does not end before its fourth, and `Ended` that the rows that ended a
segment already say how the next one begins.  `RowsAgree` is not inductive either: the
search for the sharpest row copies the row above to a lost one, and row 2, of which
`RowsAgree` says nothing, may be the row that is copied, so the invariant holds one
row more until the search is over (`Parted`).  The number of segments is bounded by an
account over the rows still to be scanned (`Counting`): each segment but the first and the
open one has used up a change of the border between seen and lost, although the rows
are rewritten on the way, and a row that contradicts the open segment means a change
that is not yet used (`Against`).  `ShapeKnown` is what `RoadSymbol` and
`Steering` take for granted of their inputs: with `ShapesOfBorders` this is guaranteed
for every image height.

`AdaptThresholdProofs` (for every number of grey values and every size of the
sample):

* `FirstPeakSplits` (`SplitAtFirstPeak`), `WholeFrameOnlyThen` (`WholeFrame`).

`Sampled` ties the histogram to the pixels drawn, `Reached` the running sums of the
second loop to the sums over the levels below the one it is at, and `PeakSoFar` and
`WholeSoFar` say of the levels already judged what the properties say of all.  The
sums are recursive functions; that they satisfy their recursion is proved first
(`SumsExist`, `SumsUnique`, `SumsGrow`, `UpTo`), with the least level at which a
statement fails in the place of an induction over levels.

The assumptions on the constants are evaluated by TLC on the instance of each run.

## 5. What is only model-checked, and what is not modelled

Only model-checked: the liveness properties `DetectionServed`, `PushReturnsControl`,
`DetectorRearmed`, `ShellServed`, `VoteEnds`, `RingLeft` and `SpeedReached` (the prover
does not reason about fairness).  Every other property of a passing run is a theorem.
`RingSteered` is one for the image of the code only, see section 4.

Not modelled: `Vision_IsZebra`, `Vision_CalBlackRate` and `Vision_CalSymRate` (counts
over a grey image; their verdicts are free choices in `RoadSymbol` and `CarTasks`);
the helpers of `user_math.c` and the states of `Vision_Cir_Normal_Handle` that nothing
running calls; the controllers of the line follower beyond the offset they are
given (they are `Pos_PID_Controller`, which `MotorLoop` has); attitude (floating-point integration, its yaw
is an input); buzzer, LED and display threads (nobody reads what they write);
shell commands that set one tuning parameter; step motor and buttons (never
called); the interrupt vectors (boilerplate); the vendored libraries.

Facts about the code that the models rest on or lead to, without a run of their
own: `Car_Stop` keeps the last speed, which the next `Car_Start` drives again,
although its comment says the speed is set to zero first (`car.c:212`; `StandsStill`
makes this its exception); on a detection the handler passes the enumerator 2 where
`MCX_Change_Mode` documents the command macros (`MCXvision.c:114` and 75), so the mode
stays Detection; the threshold is the first peak of the variance, not the largest,
since the loop ends where the variance first falls (`camera.c:175`; the comment of line
172 speaks of the largest); the integer mean of line 165 hides a contrast of less than
one grey value; the redrawing of `CornerState3` writes the value of a lost left border
to rows of the left border that are lost already, so it does nothing, although its
comments speak of shifting the line (`my_vision.c:860` and 865), and its mirror image is
unreachable; `Vision_ExtendLine` stops one row short of the border at both ends, and
`Vision_SetLose` leaves the last row; the line drawn in the first state of a roundabout
is not kept inside the image (`SteersWithinImage` excludes it); `MCX` `Location_Mode` is unreachable because no caller passes `'L'`;
`mecanumRun` limits forward speeds only, since it looks at the largest signed
wheel speed; `Car_DistanceMotion` clamps only positive speeds; the references and
integrals survive a stop; `my_segment_L` and `my_segment_R` have ten entries, which
`Vision_GetSegment` fills without looking at the bound (`my_vision.h:62`, `my_vision.c:222`
and 240): `SegmentsFit` proves them enough for a border that changes at most eight times
between seen and lost, and on 70 rows a border may change more often and have up to 18
segments, so the code relies on roads whose borders are not interrupted that often;
after a lost head byte a tail publishes what older frames left in the buffer, so a frame
without a target can set the detection flag (`MCXvision.c:48`; `MisreadsPaid` bounds how
often), and a low byte of a coordinate that is 255 ends its frame early and is published
as the byte of an older frame (`MCXvision.c:112`; `Says` excepts it); a report that ends
between the last comparison of the vote and line 276 of `locate_box.c` names the box by a
class that may have been seen once (`VotedByReports` says that nothing else does); the
decision to stop before a box may take x from one frame and y from the next
(`locate_box.c:249`), and no property says where the car has to stand; a heading that
swings back within a state of the roundabout delays its end (`RingEnds` excepts a car that
swings for ever); row 0 may keep crossed borders, because the test is acted
on in the next round of the loop (`NoCrossedRow` excludes it); the first state of
the roundabout has no time limit; during `push_box` the shell, and with it
`CarStop`, does not run; the shell command `CarStart` sets only the flag of the
zebra crossing; and two lost rows begin a lost segment and a third, seen or not, is
marked lost with them (`my_vision.c:189` to 193), where the comment of line 186 asks for
three lost ones.

What the properties leave open: `RoadFollowed` speaks of rows that hold a single road, so
nothing is said of a bright patch beside it; `ShellServed` rests on the assumption that the
track sensor ends the spins of `push_box`; `SpeedReached` is about a speed that is kept, and
that the references do not swing around it follows only together with `SoftStart`;
`CourseKept` is about a far border that is exactly straight, while `Line_IsStraight` tolerates
five columns.

## 6. Disagreements between code and comments

| run | property | where | what TLC shows |
|---|---|---|---|
| `art_wait` | `WaitsForClass` | `locate_box.c:259` | a class that arrives before the wait loop keeps it spinning for ever; the comment says it waits for a class |
| `road_corner` | `CornerIsTwoSided` | `my_vision.c:60` | a bend on the left alone is a corner; the comment says arcs on both sides |
| `segments_straight` | `BentIsOffTheLine` | `user_math.c:63` | an exactly straight near line, followed by lost rows, is judged bent |

## 7. Plan

Done, in this order: `CarHandover` and `CarTasks` with their proofs (the core), the
two serial links, the vote, the road elements, the wheel loop with its proofs, the
segments and the line scan; then the corner points over the segments, with the
guarantee `RoadSymbol` relies on, the redrawn borders and the steering offset, the
threshold, and the liveness of main, the shell and the entry into a roundabout.
With these every stage between the camera and the wheels has a module.

Next, extending the model:

1. compose `ArtVote` with `CarTasks` (the step "classify" becomes the voting loop,
   with the interrupt of the Art camera), so that the liveness of a whole round can
   be stated from the settled camera alone, and `McxLink` with the flags of
   `CarTasks`, as a refinement of its whole-frame interrupt;
2. the angle loop together with the car it turns, which would let the end of a turn
   be stated (`Car_Rotate` itself does not wait for it);
3. the tests on whole pictures (`Vision_IsZebra`, `PushBox_IsDirectionCorrect`) on small
   pictures;
4. the other shell commands that write the speed or a parameter of a task.

Then, proving.  Every safety property and action property of the runs is proved.  If
`ArtVote` and `McxLink` are composed with `CarTasks` (above), what is left is their
refinement of the steps they stand for, on the invariants of `ArtVoteProofs` and
`McxLinkProofs`.
