------------------------------ MODULE ArtVote ------------------------------
(***************************************************************************)
(* Naming the box in front of the car.  The Art camera (external) reports  *)
(* what it sees in frames <<head, class, tail>> on a line that may lose    *)
(* bytes; Art_uart_callback publishes the second byte of its buffer in     *)
(* Art_Data; and the loop of direction_correction_test1 reads Art_Data     *)
(* several times, the interrupt falling between any two reads, until the   *)
(* same class was seen three times more, and adds it to the table of       *)
(* classified boxes.                                                       *)
(***************************************************************************)
EXTENDS UartFrame, Sequences

CONSTANTS
  Classes,    \* the class bytes the camera sends
  MaxLosses,  \* bound: bytes the line loses in a behaviour
  MaxBoxes    \* bound: boxes classified in a behaviour

Class_Wrench == 101       \* 'e', the first tool
Class_Multimeter == 108   \* 'l', the last tool
Class_Sound == 115        \* 's', the last peripheral

ASSUME ClassAssumption == Classes \subseteq 1 .. Class_Sound /\ Classes # {}
ASSUME LossAssumption == MaxLosses \in Nat
\* Class_Info has 100 entries, and Class_Add does not look at the bound.
ASSUME BoxAssumption == MaxBoxes \in 1 .. 100

Limit == 3          \* count > 3 is an overload
FrameLength == 3
Votes == 4          \* the class must be seen once and then three times more

VARIABLES
  cls, sent,        \* the camera: the class it reports, and how much is sent
  rx, Art_Data,     \* the interrupt handler
  pc,               \* the next access of the task to Art_Data
  class, tick,      \* its local variables
  l_or_r,           \* where the box is pushed: 0 left, 1 right
  Class_Info,       \* the table of boxes, Class_Number entries of it in use
  losses,           \* the bytes lost so far, at most MaxLosses
  boxes,            \* history: boxes classified, at most MaxBoxes
  arg,              \* history: the last argument of Class_Add
  told,             \* history: frames per class that ended during this vote
  late              \* history: the last class whose frame ended between the last
                    \* comparison of the vote and Class_Add, 0 if there is none

lineVars == <<cls, sent, losses, told, late>>
taskVars == <<pc, class, tick, l_or_r, Class_Info, boxes, arg>>
vars == <<lineVars, rx, Art_Data, taskVars>>

Bytes == Classes \cup {0, BUFFER_HEAD, BUFFER_TAIL}
Seen == Bytes \ {BUFFER_TAIL}   \* what can be published

Points == {"drive", "wait", "first", "clear", "poll", "compare", "adopt", "next",
           "add", "done"}

\* An entry of Class_Info; its serial number num is its index.
Entries == [Class_Huge : {"Num", "Utilities", "Peripherals"}, Class_Small : 0 .. Class_Sound]

TypeOK ==
  /\ cls \in Classes /\ sent \in 0 .. FrameLength
  /\ rx \in Receivers(Limit, Bytes) /\ Art_Data \in Seen
  /\ pc \in Points /\ class \in Seen /\ tick \in 0 .. 3
  /\ l_or_r \in {0, 1}
  /\ Class_Info \in Seq(Entries) /\ Len(Class_Info) <= boxes
  /\ losses \in 0 .. MaxLosses
  /\ boxes \in 0 .. MaxBoxes
  /\ arg \in Seen
  /\ told \in [Classes -> 0 .. Votes]
  /\ late \in Classes \cup {0}

Init ==
  /\ cls \in Classes /\ sent = 0 /\ losses = 0
  /\ rx = Idle(Limit) /\ Art_Data = 0
  /\ pc = "drive" /\ class = 0 /\ tick = 0 /\ l_or_r = 0
  /\ Class_Info = << >> /\ boxes = 0 /\ arg = 0
  /\ told = [c \in Classes |-> 0]
  /\ late = 0
-----------------------------------------------------------------------------
\* The camera and the line.

Wire(c, i) == CASE i = 0 -> BUFFER_HEAD [] i = 1 -> c [] i = 2 -> BUFFER_TAIL

\* Variant: the first byte of the buffer is taken for the class.
Published_Head(buffer) == buffer[0]

\* The byte of the buffer that is published, whether or not this frame wrote it.
Published(buffer) == buffer[1]

Art_uart_callback(byte) ==
  /\ rx' = Received(rx, byte, Limit)
  /\ Art_Data' = IF byte = BUFFER_TAIL THEN Published(rx.buffer) ELSE Art_Data

\* The camera has put one more byte on the line.
SendsByte ==
  /\ sent < FrameLength
  /\ sent' = sent + 1
  /\ told' = IF sent' = FrameLength /\ pc # "drive" /\ told[cls] < Votes
             THEN [told EXCEPT ![cls] = @ + 1] ELSE told
  /\ late' = IF sent' = FrameLength /\ pc = "add" THEN cls ELSE late
  /\ UNCHANGED cls

Deliver ==
  /\ SendsByte
  /\ Art_uart_callback(Wire(cls, sent))
  /\ UNCHANGED <<losses, taskVars>>

Lose ==
  /\ losses < MaxLosses
  /\ SendsByte
  /\ losses' = losses + 1
  /\ UNCHANGED <<rx, Art_Data, taskVars>>

NextFrame ==
  /\ sent = FrameLength
  /\ cls' \in Classes
  /\ sent' = 0
  /\ UNCHANGED <<losses, told, late, rx, Art_Data, taskVars>>
-----------------------------------------------------------------------------
\* The task.  Each action is one access to Art_Data and the local steps up to
\* the next one.

Art_GetData == Art_Data
Art_DataClear == Art_Data' = 0

\* The car stands before the box: the old class is thrown away.
StartVote ==
  /\ pc = "drive" /\ boxes < MaxBoxes
  /\ Art_DataClear
  /\ pc' = "wait"
  /\ UNCHANGED <<lineVars, rx, class, tick, l_or_r, Class_Info, boxes, arg>>

\* while(Art_GetData()); spins as long as there IS a class.
WaitOver ==
  /\ pc = "wait" /\ Art_GetData = 0
  /\ pc' = "first"
  /\ UNCHANGED <<lineVars, rx, Art_Data, class, tick, l_or_r, Class_Info, boxes, arg>>

ReadFirst ==
  /\ pc = "first"
  /\ class' = Art_GetData
  /\ pc' = "clear"
  /\ UNCHANGED <<lineVars, rx, Art_Data, tick, l_or_r, Class_Info, boxes, arg>>

ClearFirst ==
  /\ pc = "clear"
  /\ Art_DataClear
  /\ pc' = "poll"
  /\ UNCHANGED <<lineVars, rx, class, tick, l_or_r, Class_Info, boxes, arg>>

Poll ==
  /\ pc = "poll" /\ Art_GetData # 0
  /\ pc' = "compare"
  /\ UNCHANGED <<lineVars, rx, Art_Data, class, tick, l_or_r, Class_Info, boxes, arg>>

Compare ==
  /\ pc = "compare"
  /\ IF class = Art_GetData
     THEN tick' = tick + 1 /\ pc' = IF tick' < 3 THEN "next" ELSE "add"
     ELSE tick' = tick     /\ pc' = "adopt"
  /\ UNCHANGED <<lineVars, rx, Art_Data, class, l_or_r, Class_Info, boxes, arg>>

\* Variant: another class does not restart the count.
Adopt_KeepsTick ==
  /\ pc = "adopt"
  /\ class' = Art_GetData
  /\ pc' = "next"
  /\ UNCHANGED <<lineVars, rx, Art_Data, tick, l_or_r, Class_Info, boxes, arg>>

\* Another class than the last one: the vote starts again.
Adopt ==
  /\ pc = "adopt"
  /\ class' = Art_GetData
  /\ tick' = 0
  /\ pc' = "next"
  /\ UNCHANGED <<lineVars, rx, Art_Data, l_or_r, Class_Info, boxes, arg>>

\* Variant: the vote waits for the data to go away instead of clearing it.
NextVote_Waits ==
  /\ pc = "next" /\ Art_GetData = 0
  /\ pc' = "poll"
  /\ UNCHANGED <<lineVars, rx, Art_Data, class, tick, l_or_r, Class_Info, boxes, arg>>

\* tick < 3: this report is used up.
NextVote ==
  /\ pc = "next"
  /\ Art_DataClear
  /\ pc' = "poll"
  /\ UNCHANGED <<lineVars, rx, class, tick, l_or_r, Class_Info, boxes, arg>>

Huge(c) == IF c < Class_Wrench THEN "Num"
           ELSE IF c <= Class_Multimeter THEN "Utilities" ELSE "Peripherals"
Small(c) == IF c < Class_Wrench THEN c - 1 ELSE c
Side(c) == CASE Huge(c) = "Num" -> IF (c - 1) % 2 # 0 THEN 0 ELSE 1
             [] Huge(c) = "Utilities" -> 1
             [] Huge(c) = "Peripherals" -> 0

\* Variant: a number is shown but not entered in the table.
Class_Add_NumberForgotten(c) ==
  \/ /\ c <= Class_Sound
     /\ Class_Info' = IF c < Class_Wrench THEN Class_Info
                      ELSE Append(Class_Info, [Class_Huge |-> Huge(c), Class_Small |-> Small(c)])
     /\ l_or_r' = Side(c)
  \/ /\ c > Class_Sound
     /\ l_or_r' \in {0, 1}
     /\ UNCHANGED Class_Info

\* Class_Add.  A byte above Class_Sound adds nothing, and the function ends
\* without a return statement: its value is whatever the register holds.
Class_Add(c) ==
  \/ /\ c <= Class_Sound
     /\ Class_Info' = Append(Class_Info, [Class_Huge |-> Huge(c), Class_Small |-> Small(c)])
     /\ l_or_r' = Side(c)
  \/ /\ c > Class_Sound
     /\ l_or_r' \in {0, 1}
     /\ UNCHANGED Class_Info

\* Variant: the report is cleared before it is entered.
AddClass_Cleared ==
  /\ pc = "add"
  /\ Class_Add(0)
  /\ arg' = 0
  /\ boxes' = boxes + 1
  /\ pc' = "done"
  /\ UNCHANGED <<lineVars, rx, Art_Data, class, tick>>

\* The class is read once more, not taken from the vote.
AddClass ==
  /\ pc = "add"
  /\ Class_Add(Art_GetData)
  /\ arg' = Art_GetData
  /\ boxes' = boxes + 1
  /\ pc' = "done"
  /\ UNCHANGED <<lineVars, rx, Art_Data, class, tick>>

ClearLast ==
  /\ pc = "done"
  /\ Art_DataClear
  /\ pc' = "drive"
  /\ class' = 0 /\ tick' = 0                  \* out of scope from here on
  /\ told' = [c \in Classes |-> 0]
  /\ late' = 0
  /\ UNCHANGED <<cls, sent, losses, rx, l_or_r, Class_Info, boxes, arg>>

Line == Deliver \/ NextFrame
Task == \/ WaitOver \/ ReadFirst \/ ClearFirst
        \/ Poll \/ Compare \/ Adopt \/ NextVote \/ AddClass \/ ClearLast

Next == Line \/ Lose \/ StartVote \/ Task

Spec == Init /\ [][Next]_vars

\* The camera keeps reporting, and the task is scheduled; the line need not
\* lose anything, and the car need not meet a box.
FairSpec == Spec /\ WF_vars(Line) /\ WF_vars(Task)
-----------------------------------------------------------------------------
Times(c) == IF c \in Classes THEN told[c] ELSE 0

\* The class the box is to be named by: the winner of the vote, or what the camera
\* reported after the last comparison.
Named == IF late = 0 THEN class ELSE late

\* A class wins the vote on the strength of four separate reports, however the
\* interrupts fall between the reads and the clears of the voting loop: when
\* the vote is over, the camera has reported the class four times since the
\* vote began, or a lost byte stands in for a report (the handler publishes an
\* old buffer again when the head or the class is lost).  The box itself is named
\* by another read of Art_Data: it gets the class that won, unless the frame of
\* a report ended between the last comparison and this read.  Then that report
\* alone names the box, by a class that may have been seen only once.
VotedByReports ==
  /\ pc \in {"add", "done"} => Times(class) + losses >= Votes
  /\ pc = "done" /\ losses = 0 => arg = Named

\* One lost byte is not enough to name a box by something that is no class:
\* Class_Add is called with a class, never with a framing byte that slipped
\* into the buffer, nor with the zero of the empty buffer, although its
\* argument is read again after the vote.
KnownClass == boxes > 0 /\ arg \notin Classes => losses >= 2

\* Every box that is named has its entry in the table, and the box is pushed to
\* the side of its entry, as long as the line loses at most one byte.
OneEntryPerBox ==
  losses < 2 =>
    /\ Len(Class_Info) = boxes
    /\ pc = "done" => LET e == Class_Info[boxes]
                      IN l_or_r = Side(IF e.Class_Huge = "Num" THEN e.Class_Small + 1
                                       ELSE e.Class_Small)

\* The vote comes to an end once the camera has settled on a class.
VoteEnds == <>[][cls' = cls]_cls => (pc = "poll" ~> pc = "drive")

\* locate_box.c line 258, on the loop of line 259: "wait for the classification".
\* When a class has arrived the wait is over.
WaitsForClass == (pc = "wait" /\ Art_Data # 0) ~> pc # "wait"

\* The voting loop ends with a class that was reported often enough, what is entered
\* is that class or a report that came in after the vote, and the loop's count and
\* the receiver's stay at or below the limits they are compared with.
VoteCounted == TypeOK /\ VotedByReports
=============================================================================
