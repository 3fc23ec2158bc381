--------------------------- MODULE McxLinkProofs ---------------------------
(***************************************************************************)
(* Proofs about the byte receiver (UartFrame), for every overload limit,   *)
(* and about the line from the MCX camera (McxLink), for every set of      *)
(* payloads in the picture and every number of lost bytes.                 *)
(***************************************************************************)
EXTENDS McxLink, TLAPS

(* What one byte does to a receiver.                                        *)

\* A tail leaves the receiver idle, whatever state it was in.
LEMMA ReceivedTail ==
  ASSUME NEW limit, NEW bytes, NEW r \in Receivers(limit, bytes)
  PROVE  LET n == Received(r, BUFFER_TAIL, limit)
         IN n = [rx_state |-> 0, count |-> 0, buffer |-> r.buffer]
<1>1. BUFFER_TAIL # BUFFER_HEAD
  BY DEF BUFFER_TAIL, BUFFER_HEAD
<1>2. Received(r, BUFFER_TAIL, limit) = [r EXCEPT !.rx_state = 0, !.count = 0]
  BY <1>1 DEF Received
<1> QED
  BY <1>2 DEF Receivers

\* Between two frames every byte but a head is ignored.
LEMMA ReceivedIgnored ==
  ASSUME NEW limit, NEW bytes, NEW r \in Receivers(limit, bytes), r.rx_state = 0,
         NEW byte, byte \notin {BUFFER_HEAD, BUFFER_TAIL}
  PROVE  Received(r, byte, limit) = r
<1>1. Received(r, byte, limit) = [r EXCEPT !.rx_state = 0, !.count = r.count]
  BY DEF Received
<1> QED
  BY <1>1 DEF Receivers

\* Within a frame, and on a head, the byte is stored, and too many bytes end it.
LEMMA ReceivedStored ==
  ASSUME NEW limit, NEW bytes, NEW r \in Receivers(limit, bytes),
         NEW byte, byte # BUFFER_TAIL, byte = BUFFER_HEAD \/ r.rx_state = 1
  PROVE  Received(r, byte, limit) =
           [rx_state |-> IF r.count + 1 > limit THEN 0 ELSE 1,
            count    |-> IF r.count + 1 > limit THEN 0 ELSE r.count + 1,
            buffer   |-> [r.buffer EXCEPT ![r.count] = byte]]
  BY DEF Received

\* No byte takes the count beyond the limit, so the buffer is not overrun.
LEMMA ReceivedInBounds ==
  ASSUME NEW limit \in Nat, NEW bytes, NEW r \in Receivers(limit, bytes), NEW byte \in bytes
  PROVE  Received(r, byte, limit) \in Receivers(limit, bytes)
<1>1. CASE byte = BUFFER_TAIL
  BY <1>1, ReceivedTail DEF Receivers
<1>2. CASE byte \notin {BUFFER_HEAD, BUFFER_TAIL} /\ r.rx_state = 0
  BY <1>2, ReceivedIgnored
<1>3. CASE byte # BUFFER_TAIL /\ (byte = BUFFER_HEAD \/ r.rx_state = 1)
  <2>1. [r.buffer EXCEPT ![r.count] = byte] \in [0 .. limit -> bytes]
    BY DEF Receivers
  <2> DEFINE over == r.count + 1 > limit
             state == IF over THEN 0 ELSE 1
             count == IF over THEN 0 ELSE r.count + 1
  <2>2. state \in {0, 1} /\ count \in 0 .. limit
    BY DEF Receivers
  <2>3. Received(r, byte, limit) =
          [rx_state |-> state, count |-> count, buffer |-> [r.buffer EXCEPT ![r.count] = byte]]
    BY <1>3, ReceivedStored
  <2> HIDE DEF state, count
  <2> QED
    BY <2>1, <2>2, <2>3 DEF Receivers
<1> QED
  BY <1>1, <1>2, <1>3 DEF Receivers
-----------------------------------------------------------------------------
\* A tail came among the bytes sent so far.
Cut == \E j \in 1 .. sent - 1 : Wire(payload, j) = BUFFER_TAIL

\* The bytes up to the first tail are in their places, the flag among them.
InPlace ==
  \A k \in 1 .. 5 :
    k < sent /\ (\A j \in 1 .. k : Wire(payload, j) # BUFFER_TAIL)
      => rx.buffer[k] = Wire(payload, k)

\* An intact frame is under way: all bytes so far are stored, or a tail among the
\* coordinates has ended it early, and at most its last byte was taken for a new
\* head, which goes to the place of the head.
Underway ==
  Intact /\ sent \in 1 .. FrameLength =>
    /\ InPlace
    /\ \/ rx.rx_state = 1 /\ rx.count = sent /\ sent <= 6
       \/ rx.rx_state = 0 /\ rx.count = 0 /\ sent >= 4 /\ Cut
       \/ rx.rx_state = 1 /\ rx.count = 1 /\ sent = 6 /\ Cut

\* A frame in step begins with an idle receiver.
Beginning == sent = 0 => ~lost /\ handled = 0 /\ (inStep => ReceiverIdle)

\* A frame that may still be misread, or that leaves the receiver out of step for the
\* next one, has been paid for already.
Debt ==
  IF sent = FrameLength THEN IF ReceiverIdle THEN 0 ELSE 1
  ELSE IF wrong \/ Intact THEN 0 ELSE 1

Paid == misread + Debt <= losses

IInv ==
  /\ TypeOK /\ handled <= sent
  /\ Recovers /\ FrameAssembled /\ Underway /\ Beginning /\ Paid

\* A number of 16 bits is a coordinate; the bounds have names for the provers' sake.
LEMMA IsCoordinate ==
  ASSUME NEW x \in Int, -32768 <= x, x <= 32767
  PROVE  x \in Coordinates
<1>1. INT16_MIN \in Int /\ INT16_MAX \in Int /\ INT16_MIN <= x /\ x <= INT16_MAX
  BY DEF INT16_MIN, INT16_MAX
<1> QED
  BY <1>1 DEF Coordinates

\* A coordinate of two bytes fits 16 bits.
LEMMA Int16Fits == \A hi, lo \in Byte : Int16(hi, lo) \in Coordinates
<1> SUFFICES ASSUME NEW hi \in Byte, NEW lo \in Byte PROVE Int16(hi, lo) \in Coordinates
  OBVIOUS
<1>1. hi \in 0 .. 255 /\ lo \in 0 .. 255
  BY ByteAssumption
<1> DEFINE u == hi * 256 + lo
<1>2. u \in Int /\ u >= 0 /\ u <= 65535
  BY <1>1
<1> HIDE DEF u
<1>3. CASE u < 32768
  <2>1. Int16(hi, lo) = u
    BY <1>3 DEF Int16, u
  <2> QED
    BY <1>2, <1>3, <2>1, IsCoordinate
<1>4. CASE ~(u < 32768)
  <2>1. Int16(hi, lo) = u - 65536
    BY <1>4 DEF Int16, u
  <2> QED
    BY <1>2, <1>4, <2>1, IsCoordinate
<1> QED
  BY <1>3, <1>4
-----------------------------------------------------------------------------
\* The invariant holds when MCX_UART_Init has armed the detector.
THEOREM Initially == Init => IInv
<1> SUFFICES ASSUME Init PROVE IInv
  OBVIOUS
<1>1. rx \in Receivers(Limit, Byte)
  BY ByteAssumption DEF Init, Idle, Receivers, Limit
<1>2. TypeOK
  <2>1. inStep \in BOOLEAN /\ lost \in BOOLEAN /\ wrong \in BOOLEAN
    BY DEF Init
  <2>2. /\ sent \in 0 .. FrameLength /\ losses \in 0 .. MaxLosses /\ handled \in 0 .. FrameLength
        /\ misread \in 0 .. MaxLosses + 1
    BY LossAssumption DEF Init, FrameLength
  <2>3. center_x \in Coordinates /\ center_y \in Coordinates
    BY IsCoordinate DEF Init
  <2>4. payload \in Payloads /\ MCX_Detection_Flag \in {0, 1} /\ MCX_rx_flag \in {0, 1}
    BY DEF Init
  <2>5. mcxCurrent_Mode \in Modes
    BY DEF Init, Modes
  <2> QED
    BY <1>1, <2>1, <2>2, <2>3, <2>4, <2>5, Zenon DEF TypeOK
<1>3. handled <= sent /\ Recovers /\ Underway
  BY DEF Init, Recovers, Underway, FrameLength
<1>4. FrameAssembled
  BY DEF Init, FrameAssembled, FrameLength
<1>5. Beginning
  BY DEF Init, Beginning, ReceiverIdle, Idle
<1>6. Paid
  BY DEF Init, Paid, Debt, Intact, FrameLength
<1> QED
  BY <1>2, <1>3, <1>4, <1>5, <1>6 DEF IInv
-----------------------------------------------------------------------------
(* A byte arrives.                                                          *)

\* Every byte of a frame is a byte, and a payload's high bytes are no framing.
LEMMA Bytes ==
  ASSUME NEW p \in Payloads, NEW k \in 0 .. 6
  PROVE  /\ Wire(p, k) \in Byte
         /\ k = 0 => Wire(p, k) = BUFFER_HEAD
         /\ k = 1 => Wire(p, k) = p.flag
         /\ k \in {1, 2, 4} => Wire(p, k) \notin {BUFFER_HEAD, BUFFER_TAIL}
         /\ k = 6 => Wire(p, k) = BUFFER_TAIL
         /\ Plain(p) /\ k \in 0 .. 5 => Wire(p, k) # BUFFER_TAIL
<1>1. p \in [flag : {0, 1}, xh : Byte, xl : Byte, yh : Byte, yl : Byte]
  BY PayloadAssumption
<1>2. p.xh \notin {BUFFER_HEAD, BUFFER_TAIL} /\ p.yh \notin {BUFFER_HEAD, BUFFER_TAIL}
  BY PictureAssumption
<1>3. BUFFER_HEAD # BUFFER_TAIL /\ \A f \in {0, 1} : f # BUFFER_HEAD /\ f # BUFFER_TAIL
  BY DEF BUFFER_HEAD, BUFFER_TAIL
<1>4. {0, BUFFER_HEAD, BUFFER_TAIL} \subseteq Byte
  BY ByteAssumption
<1>5. k \in {0, 1, 2, 3, 4, 5, 6}
  OBVIOUS
<1>6. p.flag \in {0, 1} /\ {p.flag, p.xh, p.xl, p.yh, p.yl} \subseteq Byte
  BY <1>1, ByteAssumption
<1>7. CASE k = 0
  BY <1>3, <1>4, <1>7 DEF Wire
<1>8. CASE k = 1
  <2>1. Wire(p, k) = p.flag
    BY <1>8 DEF Wire
  <2> QED
    BY <1>3, <1>6, <1>8, <2>1 DEF Plain
<1>9. CASE k = 2
  <2>1. Wire(p, k) = p.xh
    BY <1>9 DEF Wire
  <2> QED
    BY <1>2, <1>6, <1>9, <2>1 DEF Plain
<1>10. CASE k = 3
  <2>1. Wire(p, k) = p.xl
    BY <1>10 DEF Wire
  <2> QED
    BY <1>6, <1>10, <2>1 DEF Plain
<1>11. CASE k = 4
  <2>1. Wire(p, k) = p.yh
    BY <1>11 DEF Wire
  <2> QED
    BY <1>2, <1>6, <1>11, <2>1 DEF Plain
<1>12. CASE k = 5
  <2>1. Wire(p, k) = p.yl
    BY <1>12 DEF Wire
  <2> QED
    BY <1>6, <1>12, <2>1 DEF Plain
<1>13. CASE k = 6
  BY <1>4, <1>13 DEF Wire
<1> QED
  BY <1>5, <1>7, <1>8, <1>9, <1>10, <1>11, <1>12, <1>13

\* The handler publishes coordinates of 16 bits, and keeps the mode: the enumerator
\* it passes is none of the three command characters.
LEMMA HandlePublishes ==
  ASSUME TypeOK, NEW b \in [0 .. Limit -> Byte], MCX_uart_handle(b)
  PROVE  /\ mcxCurrent_Mode' = mcxCurrent_Mode /\ MCX_rx_flag' = 1
         /\ MCX_Detection_Flag' \in {0, 1}
         /\ center_x' \in Coordinates /\ center_y' \in Coordinates
<1>1. MCX_rx_flag' = 1
  BY DEF MCX_uart_handle
<1>2. CASE mcxCurrent_Mode = "Detection" /\ b[1] # 0
  <2>1. /\ center_x' = FrameX(b) /\ center_y' = FrameY(b)
        /\ MCX_Change_Mode(Location_Mode) /\ MCX_Detection_Flag' = 1
    BY <1>2 DEF MCX_uart_handle
  <2>2. b[2] \in Byte /\ b[3] \in Byte /\ b[4] \in Byte /\ b[5] \in Byte
    BY DEF Limit
  <2>3. FrameX(b) \in Coordinates /\ FrameY(b) \in Coordinates
    BY <2>2, Int16Fits DEF FrameX, FrameY
  <2>4. mcxCurrent_Mode' = mcxCurrent_Mode
    BY <2>1 DEF MCX_Change_Mode, Location_Mode
  <2> QED
    BY <1>1, <2>1, <2>3, <2>4
<1>3. CASE ~(mcxCurrent_Mode = "Detection" /\ b[1] # 0)
  <2>1. UNCHANGED <<MCX_Detection_Flag, center_x, center_y, mcxCurrent_Mode>>
    BY <1>3 DEF MCX_uart_handle
  <2> QED
    BY <1>1, <2>1 DEF TypeOK
<1> QED
  BY <1>2, <1>3

\* Every frame that was misread is paid for by a lost byte.
LEMMA MisreadPaid ==
  ASSUME IInv
  PROVE  /\ misread \in Nat /\ losses \in Nat
         /\ misread <= losses /\ losses <= MaxLosses /\ misread <= MaxLosses
<1>1. misread \in 0 .. MaxLosses + 1 /\ losses \in 0 .. MaxLosses
  BY DEF IInv, TypeOK
<1>2. misread + Debt <= losses /\ Debt \in {0, 1}
  BY DEF IInv, Paid, Debt
<1> QED
  BY <1>1, <1>2, LossAssumption

\* What a delivered byte does, whatever was lost before it.
LEMMA Delivery ==
  ASSUME IInv, Deliver
  PROVE  /\ sent \in 0 .. 6 /\ sent' = sent + 1 /\ payload \in Payloads
         /\ rx \in Receivers(Limit, Byte) /\ rx.buffer \in [0 .. Limit -> Byte]
         /\ Wire(payload, sent) \in Byte
         /\ rx' = Received(rx, Wire(payload, sent), Limit)
         /\ Wire(payload, sent) = BUFFER_TAIL =>
              MCX_uart_handle(rx.buffer) /\ handled' = handled + 1
         /\ Wire(payload, sent) # BUFFER_TAIL =>
              UNCHANGED <<publicVars, mcxCurrent_Mode, handled>>
         /\ wrong' = (wrong \/ Misread)
         /\ misread' = IF Misread /\ ~wrong THEN misread + 1 ELSE misread
         /\ UNCHANGED <<payload, losses, inStep, lost>>
<1>1. sent \in 0 .. 6 /\ payload \in Payloads /\ rx \in Receivers(Limit, Byte)
  BY DEF IInv, TypeOK, Deliver, FrameLength
<1>2. rx.buffer \in [0 .. Limit -> Byte]
  BY <1>1 DEF Receivers
<1>3. misread <= MaxLosses
  BY MisreadPaid
<1> QED
  BY <1>1, <1>2, <1>3, Bytes DEF Deliver, MCX_uart_callback, Handles

\* A byte that arrives keeps everything typed, the frame buffer included.
LEMMA DeliveryTyped ==
  ASSUME IInv, Deliver
  PROVE  TypeOK' /\ handled' <= sent'
<1>1. rx' \in Receivers(Limit, Byte)
  <2>1. Limit \in Nat
    BY DEF Limit
  <2> QED
    BY <2>1, Delivery, ReceivedInBounds
<1>2. sent \in 0 .. 6 /\ sent' = sent + 1 /\ handled \in Int /\ 0 <= handled /\ handled <= sent
  BY Delivery DEF IInv, TypeOK
<1>3. handled' \in 0 .. FrameLength /\ handled' <= sent' /\ sent' \in 0 .. FrameLength
  BY <1>2, Delivery DEF FrameLength
<1>4. /\ mcxCurrent_Mode' = mcxCurrent_Mode
      /\ MCX_Detection_Flag' \in {0, 1} /\ MCX_rx_flag' \in {0, 1}
      /\ center_x' \in Coordinates /\ center_y' \in Coordinates
  <2>1. TypeOK
    BY DEF IInv
  <2>2. CASE Wire(payload, sent) = BUFFER_TAIL
    BY <2>1, <2>2, Delivery, HandlePublishes
  <2>3. CASE Wire(payload, sent) # BUFFER_TAIL
    BY <2>1, <2>3, Delivery DEF TypeOK, publicVars, detection
  <2> QED
    BY <2>2, <2>3
<1>5. wrong' \in BOOLEAN
  BY Delivery DEF Misread
<1>6. misread' \in 0 .. MaxLosses + 1
  BY Delivery, MisreadPaid, LossAssumption
<1> QED
  BY <1>1, <1>3, <1>4, <1>5, <1>6, Delivery DEF IInv, TypeOK

\* The last byte of a frame is its tail, which leaves the receiver idle.
LEMMA DeliveryRecovers ==
  ASSUME IInv, Deliver
  PROVE  Recovers' /\ Beginning'
<1>1. CASE sent = 6
  <2>1. Wire(payload, sent) = BUFFER_TAIL
    BY <1>1, Delivery, Bytes
  <2>2. rx'.rx_state = 0 /\ rx'.count = 0
    BY <2>1, Delivery, ReceivedTail
  <2> QED
    BY <1>1, <2>2, Delivery DEF Recovers, ReceiverIdle, Beginning
<1>2. CASE sent # 6
  BY <1>2, Delivery DEF Recovers, Beginning, FrameLength
<1> QED
  BY <1>1, <1>2

\* A byte that is stored below the limit.
LEMMA DeliveryStored ==
  ASSUME IInv, Deliver, Wire(payload, sent) # BUFFER_TAIL,
         Wire(payload, sent) = BUFFER_HEAD \/ rx.rx_state = 1, rx.count <= 6
  PROVE  /\ rx'.rx_state = 1 /\ rx'.count = rx.count + 1
         /\ \A k \in 0 .. Limit :
              rx'.buffer[k] = IF k = rx.count THEN Wire(payload, sent) ELSE rx.buffer[k]
<1>1. rx.count \in 0 .. 7 /\ ~(rx.count + 1 > Limit)
  BY Delivery DEF Receivers, Limit
<1>2. rx' = [rx_state |-> 1, count |-> rx.count + 1,
             buffer |-> [rx.buffer EXCEPT ![rx.count] = Wire(payload, sent)]]
  BY <1>1, Delivery, ReceivedStored
<1> QED
  BY <1>1, <1>2, Delivery

\* A byte that is not stored, or in the place of the head, leaves the others in place.
LEMMA DeliveryOtherwise ==
  ASSUME IInv, Deliver, sent >= 1, Intact, Wire(payload, sent) = BUFFER_TAIL \/ Cut,
         \A k \in 1 .. 5 : rx'.buffer[k] = rx.buffer[k]
  PROVE  InPlace' /\ Cut'
<1>1. sent \in 1 .. 6 /\ sent' = sent + 1 /\ payload' = payload
  BY Delivery
<1>2. InPlace
  BY <1>1 DEF IInv, Underway, FrameLength
<1>3. PICK j \in 1 .. sent : Wire(payload, j) = BUFFER_TAIL
  BY <1>1 DEF Cut
<1>4. ASSUME NEW k \in 1 .. 5, k < sent + 1,
             \A i \in 1 .. k : Wire(payload, i) # BUFFER_TAIL
      PROVE  rx'.buffer[k] = Wire(payload, k)
  <2>1. k < sent
    BY <1>1, <1>3, <1>4
  <2> QED
    BY <1>2, <1>4, <2>1 DEF InPlace
<1> QED
  BY <1>1, <1>3, <1>4 DEF InPlace, Cut

\* A byte that is stored in its place joins the others.
LEMMA DeliveryInPlace ==
  ASSUME IInv, Deliver, Intact, Wire(payload, sent) # BUFFER_TAIL, rx.count = sent,
         Wire(payload, sent) = BUFFER_HEAD \/ rx.rx_state = 1
  PROVE  InPlace' /\ rx'.rx_state = 1 /\ rx'.count = sent' /\ sent' <= 6
<1>1. sent \in 0 .. 6 /\ sent' = sent + 1 /\ payload' = payload
  BY Delivery
<1>2. sent # 6
  BY Delivery, Bytes
<1>3. /\ rx'.rx_state = 1 /\ rx'.count = rx.count + 1
      /\ \A k \in 0 .. Limit :
           rx'.buffer[k] = IF k = rx.count THEN Wire(payload, sent) ELSE rx.buffer[k]
  BY <1>1, DeliveryStored
<1>4. sent >= 1 => InPlace
  BY <1>1 DEF IInv, Underway, FrameLength
<1>5. ASSUME NEW k \in 1 .. 5, k < sent + 1,
             \A i \in 1 .. k : Wire(payload, i) # BUFFER_TAIL
      PROVE  rx'.buffer[k] = Wire(payload, k)
  <2>1. k \in 0 .. Limit
    BY DEF Limit
  <2>2. CASE k = sent
    BY <1>3, <2>1, <2>2
  <2>3. CASE k # sent
    <3>1. k < sent /\ sent >= 1
      BY <1>1, <1>5, <2>3
    <3>2. rx.buffer[k] = Wire(payload, k)
      BY <1>4, <1>5, <3>1 DEF InPlace
    <3> QED
      BY <1>3, <2>1, <2>3, <3>2
  <2> QED
    BY <2>2, <2>3
<1> QED
  BY <1>1, <1>2, <1>3, <1>5 DEF InPlace

\* A byte of an intact frame is the next one of the buffer, or a tail that ends it.
LEMMA DeliveryUnderway ==
  ASSUME IInv, Deliver
  PROVE  Underway'
<1> SUFFICES ASSUME Intact, sent' \in 1 .. FrameLength
             PROVE  /\ InPlace'
                    /\ \/ rx'.rx_state = 1 /\ rx'.count = sent' /\ sent' <= 6
                       \/ rx'.rx_state = 0 /\ rx'.count = 0 /\ sent' >= 4 /\ Cut'
                       \/ rx'.rx_state = 1 /\ rx'.count = 1 /\ sent' = 6 /\ Cut'
  BY Delivery DEF Underway, Intact
<1>1. sent \in 0 .. 6 /\ sent' = sent + 1
  BY Delivery
<1>2. sent \in 1 .. 6 =>
        \/ rx.rx_state = 1 /\ rx.count = sent
        \/ rx.rx_state = 0 /\ rx.count = 0 /\ sent >= 4 /\ Cut
        \/ rx.rx_state = 1 /\ rx.count = 1 /\ sent = 6 /\ Cut
  BY DEF IInv, Underway, FrameLength
<1>3. CASE sent = 0
  <2>1. rx.count = 0
    BY <1>3 DEF IInv, Beginning, Intact, ReceiverIdle
  <2>2. Wire(payload, sent) = BUFFER_HEAD /\ BUFFER_HEAD # BUFFER_TAIL
    BY <1>3, Delivery, Bytes DEF BUFFER_HEAD, BUFFER_TAIL
  <2> QED
    BY <1>3, <2>1, <2>2, DeliveryInPlace
<1>4. CASE sent >= 1 /\ Wire(payload, sent) = BUFFER_TAIL
  <2>1. rx'.rx_state = 0 /\ rx'.count = 0 /\ rx'.buffer = rx.buffer
    BY <1>4, Delivery, ReceivedTail
  <2>2. sent \notin {1, 2}
    BY <1>4, Delivery, Bytes
  <2> QED
    BY <1>1, <1>4, <2>1, <2>2, DeliveryOtherwise
<1>5. CASE sent >= 1 /\ Wire(payload, sent) # BUFFER_TAIL /\ rx.rx_state = 1
  <2>1. sent # 6
    BY <1>5, Delivery, Bytes
  <2>2. rx.count = sent
    BY <1>1, <1>2, <1>5, <2>1
  <2> QED
    BY <1>5, <2>2, DeliveryInPlace
<1>6. CASE sent >= 1 /\ Wire(payload, sent) # BUFFER_TAIL /\ rx.rx_state = 0
  <2>1. rx.count = 0 /\ sent >= 4 /\ Cut
    BY <1>1, <1>2, <1>6
  <2>2. sent \in {4, 5}
    BY <1>1, <1>6, <2>1, Delivery, Bytes
  <2>3. CASE Wire(payload, sent) = BUFFER_HEAD
    <3>1. sent = 5
      BY <2>2, <2>3, Delivery, Bytes
    <3>2. /\ rx'.rx_state = 1 /\ rx'.count = 1
          /\ \A k \in 1 .. 5 : rx'.buffer[k] = rx.buffer[k]
      BY <1>6, <2>1, <2>3, DeliveryStored DEF Limit
    <3> QED
      BY <1>1, <1>6, <2>1, <3>1, <3>2, DeliveryOtherwise
  <2>4. CASE Wire(payload, sent) # BUFFER_HEAD
    <3>1. rx' = rx
      BY <1>6, <2>4, Delivery, ReceivedIgnored
    <3> QED
      BY <1>1, <1>6, <2>1, <3>1, DeliveryOtherwise
  <2> QED
    BY <2>3, <2>4
<1>7. rx.rx_state \in {0, 1}
  BY Delivery DEF Receivers
<1> QED
  BY <1>1, <1>3, <1>4, <1>5, <1>6, <1>7

\* The bytes of a frame without a tail in its payload arrive in their places.
LEMMA DeliveryAssembled ==
  ASSUME IInv, Deliver
  PROVE  FrameAssembled'
<1> SUFFICES ASSUME Intact, Plain(payload)
             PROVE  /\ sent' \in 1 .. 6 => rx'.rx_state = 1 /\ rx'.count = sent'
                    /\ sent' > 0 => \A k \in 0 .. 5 : k < sent' => rx'.buffer[k] = Wire(payload, k)
                    /\ handled' = IF sent' = FrameLength THEN 1 ELSE 0
  BY Delivery DEF FrameAssembled, Intact
<1>1. sent \in 0 .. 6 /\ sent' = sent + 1
  BY Delivery
<1>2. /\ sent \in 1 .. 6 => rx.rx_state = 1 /\ rx.count = sent
      /\ sent > 0 => \A k \in 0 .. 5 : k < sent => rx.buffer[k] = Wire(payload, k)
      /\ handled = 0
  BY <1>1 DEF IInv, FrameAssembled, FrameLength
<1>3. sent = 0 => rx.rx_state = 0 /\ rx.count = 0
  BY DEF IInv, Beginning, Intact, ReceiverIdle
<1>4. CASE sent = 6
  <2>1. Wire(payload, sent) = BUFFER_TAIL
    BY <1>4, Delivery, Bytes
  <2>2. rx'.buffer = rx.buffer
    BY <2>1, Delivery, ReceivedTail
  <2> QED
    BY <1>1, <1>2, <1>4, <2>1, <2>2, Delivery DEF FrameLength
<1>5. CASE sent # 6
  <2>1. Wire(payload, sent) # BUFFER_TAIL
    BY <1>1, <1>5, Delivery, Bytes
  <2>2. Wire(payload, sent) = BUFFER_HEAD \/ rx.rx_state = 1
    BY <1>1, <1>2, Delivery, Bytes
  <2>3. rx.count = sent
    BY <1>1, <1>2, <1>3
  <2>4. /\ rx'.rx_state = 1 /\ rx'.count = sent + 1
        /\ \A k \in 0 .. Limit :
             rx'.buffer[k] = IF k = sent THEN Wire(payload, sent) ELSE rx.buffer[k]
    BY <1>1, <2>1, <2>2, <2>3, DeliveryStored
  <2>5. handled' = 0
    BY <1>2, <2>1, Delivery
  <2>6. \A k \in 0 .. 5 : k < sent + 1 => rx'.buffer[k] = Wire(payload, k)
    BY <1>1, <1>2, <2>4 DEF Limit
  <2> QED
    BY <1>1, <1>5, <2>4, <2>5, <2>6 DEF FrameLength
<1> QED
  BY <1>4, <1>5
-----------------------------------------------------------------------------
(* What is published.                                                       *)

\* In an intact frame a tail publishes the frame's own coordinates up to that tail, and
\* no other byte publishes anything.
LEMMA Published ==
  ASSUME IInv, Intact, Deliver
  PROVE  IF /\ Handles(Wire(payload, sent))
            /\ mcxCurrent_Mode = "Detection" /\ payload.flag = 1
         THEN MCX_Detection_Flag' = 1 /\ Says(payload, center_x', center_y')
         ELSE UNCHANGED detection
<1>1. sent \in 0 .. 6 /\ rx.buffer \in [0 .. Limit -> Byte]
  BY Delivery
<1>2. payload.flag \in {0, 1}
  BY Delivery, PayloadAssumption
<1>3. CASE Wire(payload, sent) # BUFFER_TAIL
  BY <1>3, Delivery DEF Handles, publicVars
<1>4. CASE Wire(payload, sent) = BUFFER_TAIL
  <2>1. sent \in {3, 5, 6}
    BY <1>1, <1>4, Delivery, Bytes DEF BUFFER_HEAD, BUFFER_TAIL
  <2>2. MCX_uart_handle(rx.buffer)
    BY <1>4, Delivery
  <2>3. \A k \in 1 .. 5 :
          k < sent /\ (\A j \in 1 .. k : Wire(payload, j) # BUFFER_TAIL)
            => rx.buffer[k] = Wire(payload, k)
    BY <2>1 DEF IInv, Underway, InPlace, FrameLength
  <2>4. /\ Wire(payload, 1) = payload.flag /\ Wire(payload, 2) = payload.xh
        /\ Wire(payload, 3) = payload.xl /\ Wire(payload, 4) = payload.yh
        /\ Wire(payload, 5) = payload.yl
    BY DEF Wire
  <2>5. Wire(payload, 1) # BUFFER_TAIL /\ Wire(payload, 2) # BUFFER_TAIL
        /\ Wire(payload, 4) # BUFFER_TAIL
    BY Delivery, Bytes
  <2>6. rx.buffer[1] = payload.flag /\ rx.buffer[2] = payload.xh
    BY <2>1, <2>3, <2>4, <2>5
  <2>7. CASE ~(mcxCurrent_Mode = "Detection" /\ payload.flag = 1)
    BY <1>2, <2>2, <2>6, <2>7 DEF MCX_uart_handle, detection
  <2>8. CASE mcxCurrent_Mode = "Detection" /\ payload.flag = 1
    <3>1. /\ MCX_Detection_Flag' = 1
          /\ center_x' = Int16(payload.xh, rx.buffer[3])
          /\ center_y' = Int16(rx.buffer[4], rx.buffer[5])
      BY <2>2, <2>6, <2>8 DEF MCX_uart_handle, FrameX, FrameY
    <3>2. rx.buffer[3] \in Byte /\ rx.buffer[5] \in Byte
      BY <1>1 DEF Limit
    <3>3. payload.xl # BUFFER_TAIL => sent \in {5, 6}
      BY <1>4, <2>1, <2>4
    <3>4. payload.xl # BUFFER_TAIL =>
            rx.buffer[3] = payload.xl /\ rx.buffer[4] = payload.yh
      BY <2>3, <2>4, <2>5, <3>3
    <3>5. payload.xl # BUFFER_TAIL /\ payload.yl # BUFFER_TAIL => rx.buffer[5] = payload.yl
      <4>1. payload.yl # BUFFER_TAIL => sent # 5
        BY <1>4, <2>4
      <4> QED
        BY <2>3, <2>4, <2>5, <3>3, <4>1
    <3>6. Says(payload, center_x', center_y')
      BY <2>8, <3>1, <3>2, <3>4, <3>5 DEF Says
    <3> QED
      BY <1>4, <2>8, <3>1, <3>6 DEF Handles
  <2> QED
    BY <2>7, <2>8 DEF Handles
<1> QED
  BY <1>3, <1>4

\* A frame that is misread has lost a byte or began out of step, and is paid for.
LEMMA DeliveryPaid ==
  ASSUME IInv, Deliver
  PROVE  Paid'
<1>1. /\ sent \in 0 .. 6 /\ sent' = sent + 1
      /\ wrong' = (wrong \/ Misread)
      /\ misread' = IF Misread /\ ~wrong THEN misread + 1 ELSE misread
      /\ losses' = losses /\ (Intact' <=> Intact)
  BY Delivery DEF Intact
<1>2. misread \in Nat /\ losses \in Nat
  BY MisreadPaid
<1>3. misread + (IF wrong \/ Intact THEN 0 ELSE 1) <= losses
  BY <1>1 DEF IInv, Paid, Debt, FrameLength
<1>4. Intact => ~Misread
  BY Published DEF Misread
<1>5. CASE sent' = FrameLength
  <2>1. ReceiverIdle'
    <3>1. Wire(payload, sent) = BUFFER_TAIL
      BY <1>1, <1>5, Delivery, Bytes DEF FrameLength
    <3> QED
      BY <3>1, Delivery, ReceivedTail DEF ReceiverIdle
  <2> QED
    BY <1>1, <1>2, <1>3, <1>4, <1>5, <2>1 DEF Paid, Debt
<1>6. CASE sent' # FrameLength
  <2>1. Debt' = IF wrong' \/ Intact' THEN 0 ELSE 1
    BY <1>6 DEF Debt
  <2>2. CASE Misread
    <3>1. ~Intact /\ Debt' = 0
      BY <1>1, <1>4, <2>1, <2>2
    <3> QED
      BY <1>1, <1>2, <1>3, <2>2, <3>1 DEF Paid
  <2>3. CASE ~Misread
    <3>1. misread' = misread /\ Debt' = IF wrong \/ Intact THEN 0 ELSE 1
      BY <1>1, <2>1, <2>3
    <3> QED
      BY <1>1, <1>3, <3>1 DEF Paid
  <2> QED
    BY <2>2, <2>3
<1> QED
  BY <1>5, <1>6
-----------------------------------------------------------------------------
(* The other steps.                                                         *)

\* A lost byte spoils its frame, and promises nothing of the receiver.
LEMMA LossKeeps ==
  ASSUME IInv, Lose
  PROVE  IInv'
<1>1. sent \in 0 .. 6 /\ sent' = sent + 1 /\ losses' = losses + 1 /\ losses' \in 0 .. MaxLosses
  BY LossAssumption DEF IInv, TypeOK, Lose, FrameLength
<1>2. lost' = TRUE
      /\ UNCHANGED <<payload, inStep, rx, mcxCurrent_Mode, publicVars, handled, misreadVars>>
  BY DEF Lose
<1>3. TypeOK'
  <2>1. sent' \in 0 .. FrameLength
    BY <1>1 DEF FrameLength
  <2> QED
    BY <1>1, <1>2, <2>1 DEF IInv, TypeOK, publicVars, detection, misreadVars
<1>4. handled' <= sent'
  BY <1>1, <1>2 DEF IInv, TypeOK
<1>5. Recovers' /\ FrameAssembled' /\ Underway'
  BY <1>2 DEF Recovers, FrameAssembled, Underway, Intact
<1>6. Beginning'
  BY <1>1 DEF Beginning
<1>7. Paid'
  <2>1. sent # FrameLength /\ wrong' = wrong /\ misread' = misread
    BY <1>1, <1>2 DEF FrameLength, misreadVars
  <2>2. misread \in Nat /\ losses \in Nat /\ misread <= losses
    BY MisreadPaid
  <2> QED
    BY <1>1, <2>1, <2>2 DEF Paid, Debt
<1> QED
  BY <1>3, <1>4, <1>5, <1>6, <1>7 DEF IInv

\* A new frame inherits an idle receiver from a frame that lost nothing.
LEMMA NextFrameKeeps ==
  ASSUME IInv, NextFrame
  PROVE  IInv'
<1>1. /\ sent = FrameLength /\ payload' \in Payloads /\ sent' = 0
      /\ inStep' = ReceiverIdle /\ lost' = FALSE /\ handled' = 0 /\ wrong' = FALSE
      /\ UNCHANGED <<losses, rx, mcxCurrent_Mode, publicVars, misread>>
  BY DEF NextFrame
<1>2. TypeOK'
  <2>1. sent' \in 0 .. FrameLength /\ handled' \in 0 .. FrameLength
    BY <1>1 DEF FrameLength
  <2>2. inStep' \in BOOLEAN /\ lost' \in BOOLEAN
    BY <1>1 DEF ReceiverIdle
  <2> QED
    BY <1>1, <2>1, <2>2 DEF IInv, TypeOK, publicVars, detection
<1>3. handled' <= sent' /\ Recovers' /\ FrameAssembled' /\ Underway'
  BY <1>1 DEF Recovers, FrameAssembled, Underway, FrameLength
<1>4. Beginning'
  BY <1>1 DEF Beginning, ReceiverIdle
<1>5. Paid'
  <2>1. Debt' = Debt
    <3>1. sent = FrameLength /\ sent' # FrameLength
      BY <1>1 DEF FrameLength
    <3>2. Intact' <=> ReceiverIdle
      BY <1>1 DEF Intact
    <3> QED
      BY <1>1, <3>1, <3>2 DEF Debt
  <2>2. misread + Debt <= losses
    BY DEF IInv, Paid
  <2>3. misread' = misread /\ losses' = losses
    BY <1>1
  <2> QED
    BY <2>1, <2>2, <2>3 DEF Paid
<1> QED
  BY <1>2, <1>3, <1>4, <1>5 DEF IInv

\* The tasks touch neither the line nor the receiver.
LEMMA TasksKeep ==
  ASSUME IInv, SwitchMode \/ ClearDetection \/ ClearReceived
  PROVE  IInv'
<1>1. UNCHANGED <<senderVars, rx, center_x, center_y, handled, misreadVars>>
  BY DEF SwitchMode, ClearDetection, ClearReceived, publicVars, detection
<1>2. mcxCurrent_Mode' \in Modes
  BY DEF SwitchMode, ClearDetection, ClearReceived, MCX_Change_Mode, Modes, IInv, TypeOK
<1>3. MCX_Detection_Flag' \in {0, 1} /\ MCX_rx_flag' \in {0, 1}
  BY DEF SwitchMode, ClearDetection, ClearReceived, publicVars, detection, IInv, TypeOK
<1>4. TypeOK'
  BY <1>1, <1>2, <1>3 DEF IInv, TypeOK, senderVars, misreadVars
<1>5. handled' <= sent' /\ Recovers' /\ FrameAssembled' /\ Underway' /\ Beginning' /\ Paid'
  BY <1>1 DEF IInv, Recovers, FrameAssembled, Underway, InPlace, Cut, Beginning, Paid, Debt,
              Intact, ReceiverIdle, senderVars, misreadVars
<1> QED
  BY <1>4, <1>5 DEF IInv

\* A step that changes nothing keeps the invariant.
LEMMA StutterKeeps ==
  ASSUME IInv, UNCHANGED vars
  PROVE  IInv'
<1>1. TypeOK'
  BY DEF IInv, TypeOK, vars, senderVars, publicVars, detection, misreadVars
<1>2. handled' <= sent' /\ Recovers' /\ FrameAssembled' /\ Underway' /\ Beginning' /\ Paid'
  BY DEF IInv, Recovers, FrameAssembled, Underway, InPlace, Cut, Beginning, Paid, Debt,
         Intact, ReceiverIdle, vars, senderVars, misreadVars
<1> QED
  BY <1>1, <1>2 DEF IInv

\* The invariant holds in every reachable state, whatever bytes the line loses.
THEOREM InductiveInvariant == Spec => []IInv
<1>1. IInv /\ [Next]_vars => IInv'
  <2> SUFFICES ASSUME IInv, [Next]_vars PROVE IInv'
    OBVIOUS
  <2>1. CASE Deliver
    BY <2>1, DeliveryTyped, DeliveryRecovers, DeliveryUnderway, DeliveryAssembled,
       DeliveryPaid DEF IInv
  <2>2. CASE Lose
    BY <2>2, LossKeeps
  <2>3. CASE NextFrame
    BY <2>3, NextFrameKeeps
  <2>4. CASE SwitchMode \/ ClearDetection \/ ClearReceived
    BY <2>4, TasksKeep
  <2>5. CASE UNCHANGED vars
    BY <2>5, StutterKeeps
  <2> QED
    BY <2>1, <2>2, <2>3, <2>4, <2>5 DEF Next
<1> QED
  BY Initially, <1>1, PTL DEF Spec

\* The count of MCX_uart_callback stays within the frame buffer, whatever is lost,
\* and the coordinates within 16 bits.
THEOREM BufferNotOverrun == Spec => []TypeOK
<1>1. IInv => TypeOK
  BY DEF IInv
<1> QED
  BY <1>1, InductiveInvariant, PTL

\* However many bytes were lost, a whole frame leaves the receiver idle.
THEOREM LineRecovers == Spec => []Recovers
<1>1. IInv => Recovers
  BY DEF IInv
<1> QED
  BY <1>1, InductiveInvariant, PTL

\* Every payload without a tail byte is assembled exactly, also behind damage.
THEOREM FramesAssembled == Spec => []FrameAssembled
<1>1. IInv => FrameAssembled
  BY DEF IInv
<1> QED
  BY <1>1, InductiveInvariant, PTL
-----------------------------------------------------------------------------
\* MCX_uart_handle publishes what the camera sent, up to a low byte that equals the
\* tail, and no more frames are misread than bytes are lost, however many that are and
\* wherever they are lost.
THEOREM SentIsDetected == Spec => DetectionAsSent
<1>1. IInv /\ [Next]_vars =>
        [Intact /\ Deliver =>
           IF /\ Handles(Wire(payload, sent))
              /\ mcxCurrent_Mode = "Detection" /\ payload.flag = 1
           THEN MCX_Detection_Flag' = 1 /\ Says(payload, center_x', center_y')
           ELSE UNCHANGED detection]_vars
  BY Published
<1> DEFINE Few == misread <= losses
<1>2. IInv => Few
  BY MisreadPaid
<1>3. Few' => [misread' <= losses']_vars
  OBVIOUS
<1> HIDE DEF Few
<1> QED
  BY <1>1, <1>2, <1>3, InductiveInvariant, PTL DEF Spec, DetectionAsSent, PublishesFrame, MisreadsPaid
=============================================================================
