----------------------------- MODULE UartFrame -----------------------------
(***************************************************************************)
(* The byte receiver that both UART interrupt handlers contain, in         *)
(* MCXvision.c (frames of seven bytes, overload above 7) and in art.c      *)
(* (frames of three bytes, overload above 3): a frame begins with          *)
(* BUFFER_HEAD, ends with BUFFER_TAIL and carries its payload unescaped.   *)
(***************************************************************************)
EXTENDS Integers

BUFFER_HEAD == 170    \* 0xAA
BUFFER_TAIL == 255    \* 0xFF

\* A receiver: the two static variables of the handler, and the part of the
\* frame buffer they can index when limit is the overload bound.
Receivers(limit, bytes) ==
  [rx_state : {0, 1}, count : 0 .. limit, buffer : [0 .. limit -> bytes]]

Idle(limit) == [rx_state |-> 0, count |-> 0, buffer |-> [i \in 0 .. limit |-> 0]]

\* Variant: a tail does not reset the count.
Received_KeepsCount(r, byte, limit) ==
  LET state == IF byte = BUFFER_HEAD THEN 1
               ELSE IF byte = BUFFER_TAIL THEN 0 ELSE r.rx_state
  IN IF state = 0
     THEN [r EXCEPT !.rx_state = 0]
     ELSE [rx_state |-> IF r.count + 1 > limit THEN 0 ELSE 1,
           count    |-> IF r.count + 1 > limit THEN 0 ELSE r.count + 1,
           buffer   |-> [r.buffer EXCEPT ![r.count] = byte]]

\* Variant: an overload is noticed one byte late.
Received_LateOverload(r, byte, limit) ==
  LET state == IF byte = BUFFER_HEAD THEN 1
               ELSE IF byte = BUFFER_TAIL THEN 0 ELSE r.rx_state
      count == IF byte = BUFFER_TAIL THEN 0 ELSE r.count
  IN IF state = 0
     THEN [r EXCEPT !.rx_state = 0, !.count = count]
     ELSE [rx_state |-> IF count > limit THEN 0 ELSE 1,
           count    |-> IF count > limit THEN 0 ELSE count + 1,
           buffer   |-> [r.buffer EXCEPT ![count] = byte]]

\* Variant: the tail byte is taken for a byte of the frame.
Received_TailStored(r, byte, limit) ==
  LET state == IF byte = BUFFER_HEAD THEN 1 ELSE r.rx_state
  IN IF state = 0
     THEN [r EXCEPT !.count = 0]
     ELSE [rx_state |-> IF r.count + 1 > limit THEN 0 ELSE 1,
           count    |-> IF r.count + 1 > limit THEN 0 ELSE r.count + 1,
           buffer   |-> [r.buffer EXCEPT ![r.count] = byte]]

\* Variant: a head byte always begins a frame.
Received_HeadRestarts(r, byte, limit) ==
  LET state == IF byte = BUFFER_HEAD THEN 1
               ELSE IF byte = BUFFER_TAIL THEN 0 ELSE r.rx_state
      count == IF byte \in {BUFFER_HEAD, BUFFER_TAIL} THEN 0 ELSE r.count
  IN IF state = 0
     THEN [r EXCEPT !.rx_state = 0, !.count = count]
     ELSE [rx_state |-> IF count + 1 > limit THEN 0 ELSE 1,
           count    |-> IF count + 1 > limit THEN 0 ELSE count + 1,
           buffer   |-> [r.buffer EXCEPT ![count] = byte]]

\* What one received byte does to the receiver.  A head inside a frame is
\* stored like any byte, and does not restart the count.
Received(r, byte, limit) ==
  LET state == IF byte = BUFFER_HEAD THEN 1
               ELSE IF byte = BUFFER_TAIL THEN 0 ELSE r.rx_state
      count == IF byte = BUFFER_TAIL THEN 0 ELSE r.count
  IN IF state = 0
     THEN [r EXCEPT !.rx_state = 0, !.count = count]
     ELSE [rx_state |-> IF count + 1 > limit THEN 0 ELSE 1,
           count    |-> IF count + 1 > limit THEN 0 ELSE count + 1,
           buffer   |-> [r.buffer EXCEPT ![count] = byte]]
=============================================================================
