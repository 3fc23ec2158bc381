------------------------------ MODULE McxLink ------------------------------
(***************************************************************************)
(* The serial line from the MCX camera, byte by byte: the camera (external)*)
(* sends frames, the line may lose bytes, MCX_uart_callback assembles them *)
(* and MCX_uart_handle publishes coordinates and the detection flag, while *)
(* the tasks switch the mode.  CarTasks uses whole frames instead.         *)
(***************************************************************************)
EXTENDS UartFrame

CONSTANTS
  Byte,      \* the byte values in play
  Payloads,  \* what a frame may say: [flag, xh, xl, yh, yl]
  MaxLosses  \* bound: bytes the line loses in a behaviour

ASSUME ByteAssumption ==
  /\ Byte \subseteq 0 .. 255
  /\ {0, 1, BUFFER_HEAD, BUFFER_TAIL} \subseteq Byte
ASSUME PayloadAssumption ==
  Payloads \subseteq [flag : {0, 1}, xh : Byte, xl : Byte, yh : Byte, yl : Byte]
\* Both coordinates are in the picture, so no high byte is a framing byte.
ASSUME PictureAssumption ==
  \A p \in Payloads : {p.xh, p.yh} \cap {BUFFER_HEAD, BUFFER_TAIL} = {}
ASSUME LossAssumption == MaxLosses \in Nat

Limit == 7        \* count > 7 is an overload
FrameLength == 7

VARIABLES
  payload, sent,      \* the camera: the frame it sends, and how much of it
  rx,                 \* the receiver of MCX_uart_callback
  mcxCurrent_Mode,
  MCX_Detection_Flag, MCX_rx_flag,
  center_x, center_y,
  losses,             \* the bytes lost so far, at most MaxLosses
  inStep, lost,       \* history: this frame found the receiver idle; it lost a byte
  handled,            \* history: frames handled while this one was under way
  wrong, misread      \* history: this frame was misread; how many frames were, up to
                      \* one more than MaxLosses

senderVars == <<payload, sent, losses, inStep, lost>>
detection  == <<MCX_Detection_Flag, center_x, center_y>>
publicVars == <<detection, MCX_rx_flag>>
misreadVars == <<wrong, misread>>
vars == <<senderVars, rx, mcxCurrent_Mode, publicVars, handled, misreadVars>>

Modes == {"Reset", "Detection"}
INT16_MIN == -32768
INT16_MAX == 32767
Coordinates == INT16_MIN .. INT16_MAX

TypeOK ==
  /\ payload \in Payloads
  /\ sent \in 0 .. FrameLength
  /\ rx \in Receivers(Limit, Byte)
  /\ mcxCurrent_Mode \in Modes
  /\ MCX_Detection_Flag \in {0, 1} /\ MCX_rx_flag \in {0, 1}
  /\ center_x \in Coordinates /\ center_y \in Coordinates
  /\ losses \in 0 .. MaxLosses
  /\ inStep \in BOOLEAN /\ lost \in BOOLEAN
  /\ handled \in 0 .. FrameLength
  /\ wrong \in BOOLEAN /\ misread \in 0 .. MaxLosses + 1

\* The bytes of a frame on the wire.
Wire(p, i) ==
  CASE i = 0 -> BUFFER_HEAD
    [] i = 1 -> p.flag
    [] i = 2 -> p.xh
    [] i = 3 -> p.xl
    [] i = 4 -> p.yh
    [] i = 5 -> p.yl
    [] i = 6 -> BUFFER_TAIL

\* ((int16_t)hi << 8) | (int16_t)lo
Int16(hi, lo) == LET u == hi * 256 + lo IN IF u < 32768 THEN u ELSE u - 65536

\* MCX_UART_Init has armed the detector.
Init ==
  /\ payload \in Payloads
  /\ sent = 0
  /\ rx = Idle(Limit)
  /\ mcxCurrent_Mode = "Detection"
  /\ MCX_Detection_Flag = 0 /\ MCX_rx_flag = 0
  /\ center_x = 0 /\ center_y = 0
  /\ losses = 0
  /\ inStep = TRUE /\ lost = FALSE
  /\ handled = 0
  /\ wrong = FALSE /\ misread = 0
-----------------------------------------------------------------------------
\* The recorded mode changes only for the three command characters.
MCX_Change_Mode(mode) ==
  mcxCurrent_Mode' = CASE mode = "R" -> "Reset"
                       [] mode = "D" -> "Detection"
                       [] mode = "L" -> "Location"
                       [] OTHER      -> mcxCurrent_Mode

\* The enumerator Location_Mode is the byte 2.
Location_Mode == "2"

\* Variant: the two bytes of x are swapped.
FrameX_Swapped(b) == Int16(b[3], b[2])

\* The coordinates in a frame buffer.
FrameX(b) == Int16(b[2], b[3])
FrameY(b) == Int16(b[4], b[5])

\* Variant: a coordinate, not the flag, decides whether there is a target.
MCX_uart_handle_ByCoordinate(b) ==
  /\ MCX_rx_flag' = 1
  /\ IF mcxCurrent_Mode = "Detection" /\ b[3] # 0
     THEN /\ center_x' = FrameX(b) /\ center_y' = FrameY(b)
          /\ MCX_Change_Mode(Location_Mode)
          /\ MCX_Detection_Flag' = 1
     ELSE UNCHANGED <<MCX_Detection_Flag, center_x, center_y, mcxCurrent_Mode>>

\* MCX_uart_handle on the frame buffer b.  The case Location_Mode of its switch
\* is left out: no caller passes 'L', so it cannot be reached (TypeOK).
MCX_uart_handle(b) ==
  /\ MCX_rx_flag' = 1
  /\ IF mcxCurrent_Mode = "Detection" /\ b[1] # 0
     THEN /\ center_x' = FrameX(b) /\ center_y' = FrameY(b)
          /\ MCX_Change_Mode(Location_Mode)
          /\ MCX_Detection_Flag' = 1
     ELSE UNCHANGED <<MCX_Detection_Flag, center_x, center_y, mcxCurrent_Mode>>

\* A tail hands the buffer over, whether or not a frame is in progress.
Handles(byte) == byte = BUFFER_TAIL

\* One byte arrives.
MCX_uart_callback(byte) ==
  /\ rx' = Received(rx, byte, Limit)
  /\ IF Handles(byte)
     THEN MCX_uart_handle(rx.buffer) /\ handled' = handled + 1
     ELSE UNCHANGED <<publicVars, mcxCurrent_Mode, handled>>

ReceiverIdle == rx.rx_state = 0 /\ rx.count = 0

\* The coordinates x and y are those of the frame p.  A low byte that equals the
\* tail cuts the frame: it and the bytes behind it are not in the buffer yet.
Says(p, x, y) ==
  /\ p.flag = 1
  /\ \E lo \in Byte : x = Int16(p.xh, lo) /\ (p.xl # BUFFER_TAIL => lo = p.xl)
  /\ p.xl # BUFFER_TAIL =>
       \E lo \in Byte : y = Int16(p.yh, lo) /\ (p.yl # BUFFER_TAIL => lo = p.yl)

\* The byte changes what the tasks see to something the frame does not say.
Misread == detection' # detection /\ ~Says(payload, center_x', center_y')

Deliver ==
  /\ sent < FrameLength
  /\ MCX_uart_callback(Wire(payload, sent))
  /\ sent' = sent + 1
  /\ misread' = IF Misread /\ ~wrong /\ misread <= MaxLosses THEN misread + 1 ELSE misread
  /\ wrong' = (wrong \/ Misread)
  /\ UNCHANGED <<payload, losses, inStep, lost>>

\* The byte is lost on the line, or arrives with another status than RxIdle.
Lose ==
  /\ sent < FrameLength /\ losses < MaxLosses
  /\ sent' = sent + 1
  /\ losses' = losses + 1
  /\ lost' = TRUE
  /\ UNCHANGED <<payload, inStep, rx, mcxCurrent_Mode, publicVars, handled, misreadVars>>

\* The camera begins its next frame.
NextFrame ==
  /\ sent = FrameLength
  /\ payload' \in Payloads
  /\ sent' = 0
  /\ inStep' = ReceiverIdle
  /\ lost' = FALSE /\ wrong' = FALSE
  /\ handled' = 0
  /\ UNCHANGED <<losses, rx, mcxCurrent_Mode, publicVars, misread>>

\* The tasks: locate_box silences the camera, trace_line arms it again.
SwitchMode ==
  /\ \E mode \in {"R", "D"} : MCX_Change_Mode(mode)
  /\ UNCHANGED <<senderVars, rx, publicVars, handled, misreadVars>>

\* trace_line clears the detection it has served.
ClearDetection ==
  /\ MCX_Detection_Flag' = 0
  /\ UNCHANGED <<senderVars, rx, mcxCurrent_Mode, MCX_rx_flag, center_x, center_y,
                 handled, misreadVars>>

\* locate_box has used the published frame.
ClearReceived ==
  /\ MCX_rx_flag' = 0
  /\ UNCHANGED <<senderVars, rx, mcxCurrent_Mode, detection, handled, misreadVars>>

Next == Deliver \/ Lose \/ NextFrame \/ SwitchMode \/ ClearDetection \/ ClearReceived

Spec == Init /\ [][Next]_vars
-----------------------------------------------------------------------------
\* The payload can be told from the framing.
Plain(p) == BUFFER_TAIL \notin {p.xh, p.xl, p.yh, p.yl}

\* The receiver is in step with the camera, and has got every byte so far.
Intact == inStep /\ ~lost

\* A frame that loses no byte, begins with an idle receiver and has no tail byte
\* in its payload is assembled exactly: after i bytes they are the first i
\* bytes of the buffer, whatever earlier, damaged frames left in it, and it is
\* handled once, when it is complete.
FrameAssembled ==
  Intact /\ Plain(payload) =>
    /\ sent \in 1 .. 6 => rx.rx_state = 1 /\ rx.count = sent
    /\ sent > 0 => \A i \in 0 .. 5 : i < sent => rx.buffer[i] = Wire(payload, i)
    /\ handled = IF sent = FrameLength THEN 1 ELSE 0

\* The line recovers by itself: a frame that loses no byte leaves the receiver
\* idle, in whatever state earlier losses left it, so after a damaged frame at
\* most the next one is spoilt too.
Recovers == sent = FrameLength /\ ~lost => ReceiverIdle

\* While a frame is received in step and without loss, each tail in it publishes a
\* detection with its own coordinates (as far as no low byte equals the tail: such a
\* byte, and all behind one of x, are those of an older frame, MCXvision.c line 112),
\* if it has a target and the mode is Detection; otherwise nothing is published.
PublishesFrame ==
  [][Intact /\ Deliver =>
       IF /\ Handles(Wire(payload, sent))
          /\ mcxCurrent_Mode = "Detection" /\ payload.flag = 1
       THEN MCX_Detection_Flag' = 1 /\ Says(payload, center_x', center_y')
       ELSE UNCHANGED detection]_vars

\* Lost bytes do publish detections that the camera did not report: a tail hands over
\* whatever the buffer holds (MCXvision.c line 48).  But the damage does not spread:
\* at any time no more frames have been misread than bytes have been lost, and those
\* of the next frame, which a lost tail spoils, are among them.
MisreadsPaid == [][misread' <= losses']_vars

\* MCX_uart_handle publishes what the camera sent, except in at most one frame
\* for every lost byte.
DetectionAsSent == PublishesFrame /\ MisreadsPaid
=============================================================================
