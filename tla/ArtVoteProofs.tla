---------------------------- MODULE ArtVoteProofs ----------------------------
(***************************************************************************)
(* Proofs about ArtVote, for every set of classes, every number of lost    *)
(* bytes and every number of boxes up to the size of the table.            *)
(***************************************************************************)
EXTENDS ArtVote, TLAPS

(* The invariant.                                                           *)

\* The receiver is where a line that loses nothing would have it.
Synchronous ==
  /\ sent \in {0, 3} => rx.count = 0
  /\ sent = 1 => rx.count = 1
  /\ sent = 2 => rx.count = 2 /\ rx.buffer[1] = cls

\* The reports that may be published once more without another lost byte: only the
\* next tail is answered by an old buffer, and it puts the receiver right.
Owed == IF Synchronous THEN 0 ELSE 1

\* What the receiver holds.  The head of a frame gets to the place of the class
\* only if the class and the tail of the frame before it were lost.
Receiving ==
  /\ rx.buffer \in [0 .. Limit -> Seen]
  /\ rx.rx_state = 1 <=> rx.count # 0
  /\ rx.count = 1 /\ sent \in {0, 3} => losses >= 2
  /\ rx.count = 1 /\ sent = 2 => losses >= 1
  /\ rx.buffer[1] = BUFFER_HEAD \/ Art_Data = BUFFER_HEAD => losses >= 2

\* The reports of a class that the vote has counted, and the one that is published
\* and will be counted or taken over.
Collected(c) ==
  IF class = c /\ pc \in {"clear", "poll", "compare", "next", "add", "done"} THEN tick + 1 ELSE 0
Fresh(c) ==
  IF Art_Data = c /\ pc \in {"wait", "first", "poll", "compare", "adopt"} THEN 1 ELSE 0

\* Each of them was reported since the vote began, or a lost byte stands for it.
Paid == \A c \in Seen \ {0} : Collected(c) + Fresh(c) + Owed <= Times(c) + losses

\* What the voting loop relies on between its reads.
Voting ==
  /\ Art_Data # 0 => rx.buffer[1] # 0
  /\ pc \in {"compare", "adopt", "next", "add"} => Art_Data # 0
  /\ pc \in {"next", "add", "done"} => class # 0
  /\ pc \in {"drive", "wait", "first", "clear"} => tick = 0
  /\ pc \in {"add", "done"} <=> tick = 3
  /\ pc \notin {"drive", "done"} => boxes < MaxBoxes

\* What names the box, between the last comparison and Class_Add and after it.
Naming ==
  /\ pc \notin {"add", "done"} => late = 0
  /\ pc = "add" /\ losses = 0 => Art_Data = Named
  /\ pc = "done" /\ losses = 0 => arg = Named

IInv == TypeOK /\ Receiving /\ Paid /\ Voting /\ Naming /\ KnownClass /\ OneEntryPerBox
-----------------------------------------------------------------------------
(* Bytes and the receiver.                                                  *)

\* A class is no framing byte, and not the zero of the empty buffer.
LEMMA ClassBytes ==
  /\ \A c \in Classes : c \in 1 .. 115 /\ c \in Seen /\ c # 0 /\ c # BUFFER_HEAD /\ c # BUFFER_TAIL
  /\ BUFFER_HEAD \in Seen /\ BUFFER_HEAD # 0 /\ BUFFER_HEAD \notin Classes
  /\ BUFFER_HEAD # BUFFER_TAIL /\ BUFFER_HEAD > Class_Sound
  /\ 0 \in Seen /\ 0 \notin Classes
  /\ \A c \in Seen : c = 0 \/ c = BUFFER_HEAD \/ c \in Classes
  /\ \A c \in Seen : c \in Nat
  /\ Seen \subseteq Bytes
  BY ClassAssumption DEF Class_Sound, Seen, Bytes, BUFFER_HEAD, BUFFER_TAIL

\* The bytes of a frame.
LEMMA Bytes3 ==
  /\ Wire(cls, 0) = BUFFER_HEAD /\ Wire(cls, 1) = cls /\ Wire(cls, 2) = BUFFER_TAIL
  BY DEF Wire

\* A byte that is stored.
LEMMA Stores ==
  ASSUME NEW r \in Receivers(Limit, Bytes), r.buffer \in [0 .. Limit -> Seen],
         NEW byte \in Seen, byte = BUFFER_HEAD \/ r.rx_state = 1
  PROVE  LET n == Received(r, byte, Limit)
         IN /\ n \in Receivers(Limit, Bytes) /\ n.buffer \in [0 .. Limit -> Seen]
            /\ n.count = IF r.count = 3 THEN 0 ELSE r.count + 1
            /\ n.rx_state = IF r.count = 3 THEN 0 ELSE 1
            /\ n.buffer[1] = IF r.count = 1 THEN byte ELSE r.buffer[1]
<1> DEFINE count == IF r.count = 3 THEN 0 ELSE r.count + 1
           state == IF r.count = 3 THEN 0 ELSE 1
           buffer == [r.buffer EXCEPT ![r.count] = byte]
<1>1. byte # BUFFER_TAIL
  BY DEF Seen
<1>2. r.count \in 0 .. 3
  BY DEF Receivers, Limit
<1>3. r.count + 1 > Limit <=> r.count = 3
  BY <1>2 DEF Limit
<1>4. Received(r, byte, Limit) = [rx_state |-> state, count |-> count, buffer |-> buffer]
  BY <1>1, <1>3 DEF Received
<1>5. state \in {0, 1} /\ count \in 0 .. Limit
  BY <1>2 DEF Limit
<1>6. buffer \in [0 .. Limit -> Seen] /\ buffer[1] = IF r.count = 1 THEN byte ELSE r.buffer[1]
  BY <1>2 DEF Limit
<1>7. buffer \in [0 .. Limit -> Bytes]
  BY <1>6, ClassBytes
<1> HIDE DEF state, count, buffer
<1>8. Received(r, byte, Limit) \in Receivers(Limit, Bytes)
  BY <1>4, <1>5, <1>7 DEF Receivers
<1> QED
  BY <1>4, <1>6, <1>8 DEF state, count

\* The tail puts the receiver right, and leaves the buffer.
LEMMA Ends ==
  ASSUME NEW r \in Receivers(Limit, Bytes)
  PROVE  LET n == Received(r, BUFFER_TAIL, Limit)
         IN /\ n \in Receivers(Limit, Bytes)
            /\ n.rx_state = 0 /\ n.count = 0 /\ n.buffer = r.buffer
<1>1. BUFFER_TAIL # BUFFER_HEAD
  BY ClassBytes
<1>2. Received(r, BUFFER_TAIL, Limit) = [r EXCEPT !.rx_state = 0, !.count = 0]
  BY <1>1 DEF Received
<1>3. Received(r, BUFFER_TAIL, Limit) = [rx_state |-> 0, count |-> 0, buffer |-> r.buffer]
  BY <1>2 DEF Receivers
<1>4. r.buffer \in [0 .. Limit -> Bytes] /\ 0 \in 0 .. Limit
  BY DEF Receivers, Limit
<1> QED
  BY <1>3, <1>4 DEF Receivers

\* A class outside a frame is not stored.
LEMMA Ignores ==
  ASSUME NEW r \in Receivers(Limit, Bytes), NEW byte \in Classes, r.rx_state = 0
  PROVE  Received(r, byte, Limit) = r
<1>1. Received(r, byte, Limit) = [r EXCEPT !.rx_state = 0, !.count = r.count]
  BY ClassBytes DEF Received
<1> QED
  BY <1>1 DEF Receivers
-----------------------------------------------------------------------------
(* The line.                                                                *)

\* A byte that is sent is counted for its class when it ends the frame.
LEMMA Telling ==
  ASSUME TypeOK, SendsByte
  PROVE  /\ sent \in 0 .. 2 /\ sent' = sent + 1 /\ cls' = cls
         /\ told' \in [Classes -> 0 .. Votes]
         /\ late' \in Classes \cup {0}
         /\ late' = IF sent = 2 /\ pc = "add" THEN cls ELSE late
         /\ \A c \in Seen : Times(c) \in 0 .. 4 /\ Times(c)' \in 0 .. 4 /\ Times(c) <= Times(c)'
         /\ \A c \in Seen : c = cls /\ sent = 2 /\ pc # "drive" =>
              Times(c)' = Times(c) + 1 \/ Times(c)' = 4
<1>1. sent \in 0 .. 2 /\ sent' = sent + 1 /\ cls' = cls /\ cls \in Classes
  BY DEF TypeOK, SendsByte, FrameLength
<1>2. told \in [Classes -> 0 .. 4]
  BY DEF TypeOK, Votes
<1>3. told' = IF sent' = 3 /\ pc # "drive" /\ told[cls] < 4
              THEN [told EXCEPT ![cls] = @ + 1] ELSE told
  BY DEF SendsByte, FrameLength, Votes
<1>4. \A c \in Classes :
        told'[c] = IF c = cls /\ sent' = 3 /\ pc # "drive" /\ told[cls] < 4
                   THEN told[c] + 1 ELSE told[c]
  BY <1>1, <1>2, <1>3
<1>5. \A c \in Classes : told[c] \in 0 .. 4
  BY <1>2
<1>6. \A c \in Classes : told'[c] \in 0 .. 4 /\ told[c] <= told'[c]
  <2> TAKE c \in Classes
  <2>1. CASE c = cls /\ sent' = 3 /\ pc # "drive" /\ told[cls] < 4
    BY <1>4, <1>5, <2>1
  <2>2. CASE ~ (c = cls /\ sent' = 3 /\ pc # "drive" /\ told[cls] < 4)
    BY <1>4, <1>5, <2>2
  <2> QED
    BY <2>1, <2>2
<1>7. told' \in [Classes -> 0 .. 4]
  <2>1. told' = [c \in Classes |-> told'[c]]
    BY <1>2, <1>3
  <2> QED
    BY <1>6, <2>1
<1>8. sent = 2 /\ pc # "drive" => told'[cls] = told[cls] + 1 \/ told'[cls] = 4
  BY <1>1, <1>4, <1>5
<1>9. late' = IF sent = 2 /\ pc = "add" THEN cls ELSE late
  BY <1>1 DEF SendsByte, FrameLength
<1>10. late' \in Classes \cup {0}
  BY <1>1, <1>9 DEF TypeOK
<1> QED
  BY <1>1, <1>5, <1>6, <1>7, <1>8, <1>9, <1>10 DEF Times, Votes

\* What a byte that arrives does to the handler.
LEMMA Delivery ==
  ASSUME TypeOK, Receiving, Deliver
  PROVE  /\ SendsByte /\ UNCHANGED <<losses, taskVars>>
         /\ rx' \in Receivers(Limit, Bytes) /\ rx'.buffer \in [0 .. Limit -> Seen]
         /\ sent = 2 => /\ rx'.rx_state = 0 /\ rx'.count = 0 /\ rx'.buffer = rx.buffer
                        /\ Art_Data' = rx.buffer[1]
         /\ sent # 2 => Art_Data' = Art_Data
         /\ sent = 1 /\ rx.count = 0 => rx' = rx
         /\ sent = 0 \/ (sent = 1 /\ rx.count # 0) =>
              /\ rx'.count = IF rx.count = 3 THEN 0 ELSE rx.count + 1
              /\ rx'.rx_state = IF rx.count = 3 THEN 0 ELSE 1
              /\ rx'.buffer[1] = IF rx.count = 1 THEN Wire(cls, sent) ELSE rx.buffer[1]
<1>1. /\ SendsByte /\ UNCHANGED <<losses, taskVars>>
      /\ rx' = Received(rx, Wire(cls, sent), Limit)
      /\ Art_Data' = IF Wire(cls, sent) = BUFFER_TAIL THEN rx.buffer[1] ELSE Art_Data
  BY DEF Deliver, Art_uart_callback, Published
<1>2. sent \in {0, 1, 2} /\ cls \in Classes /\ rx \in Receivers(Limit, Bytes)
  BY <1>1, Telling DEF TypeOK
<1>3. rx.buffer \in [0 .. Limit -> Seen] /\ (rx.rx_state = 1 <=> rx.count # 0)
  BY DEF Receiving
<1>4. rx.rx_state \in {0, 1}
  BY <1>2 DEF Receivers
<1>5. CASE sent = 0
  BY <1>1, <1>2, <1>3, <1>5, Bytes3, ClassBytes, Stores
<1>6. CASE sent = 1 /\ rx.count # 0
  BY <1>1, <1>2, <1>3, <1>6, Bytes3, ClassBytes, Stores
<1>7. CASE sent = 1 /\ rx.count = 0
  BY <1>1, <1>2, <1>3, <1>4, <1>7, Bytes3, ClassBytes, Ignores
<1>8. CASE sent = 2
  BY <1>1, <1>2, <1>3, <1>8, Bytes3, Ends
<1> QED
  BY <1>2, <1>5, <1>6, <1>7, <1>8
\* What the task has done stays right, whatever the line does.
LEMMA LineLeavesBoxes ==
  ASSUME IInv, UNCHANGED taskVars, losses' \in Int, losses' >= losses
  PROVE  KnownClass' /\ OneEntryPerBox'
<1>1. losses \in Int
  BY DEF IInv, TypeOK
<1>2. losses' >= 2 \/ losses < 2
  BY <1>1
<1>3. losses' < 2 => losses < 2
  BY <1>1
<1>4. losses >= 2 => losses' >= 2
  BY <1>1
<1>5. KnownClass'
  BY <1>4 DEF IInv, KnownClass, taskVars
<1>6. OneEntryPerBox'
  BY <1>3 DEF IInv, OneEntryPerBox, taskVars, Side, Huge
<1> QED
  BY <1>5, <1>6

\* The counts of the vote are at most four.
LEMMA FourVotes ==
  ASSUME TypeOK, Voting, NEW c
  PROVE  /\ Collected(c) \in 0 .. 4 /\ Fresh(c) \in 0 .. 1 /\ Owed \in 0 .. 1
         /\ pc \in {"poll", "compare"} => Collected(c) <= 3
         /\ pc \in {"drive", "wait", "first", "adopt"} => Collected(c) = 0
         /\ pc \in {"drive", "clear", "next", "add", "done"} => Fresh(c) = 0
<1>1. tick \in 0 .. 3 /\ (pc \in {"poll", "compare"} => tick # 3)
  BY DEF TypeOK, Voting
<1>2. Collected(c) \in 0 .. 4
  BY <1>1 DEF Collected
<1>3. pc \in {"poll", "compare"} => Collected(c) <= 3
  BY <1>1 DEF Collected
<1> QED
  BY <1>2, <1>3 DEF Collected, Fresh, Owed

\* A byte that arrives keeps the receiver's part of the invariant.
LEMMA DeliverReceives ==
  ASSUME IInv, Deliver
  PROVE  TypeOK' /\ Receiving'
<1>1. TypeOK /\ Receiving
  BY DEF IInv
<1>2. sent \in 0 .. 2 /\ sent' = sent + 1 /\ cls' = cls /\ cls \in Classes
  BY <1>1, Delivery, Telling DEF TypeOK
<1>3. rx.buffer[1] \in Seen /\ rx.count \in 0 .. 3
  BY <1>1 DEF Receiving, TypeOK, Receivers, Limit
<1>4. Art_Data' \in Seen
  BY <1>1, <1>2, <1>3, Delivery DEF TypeOK
<1>5. TypeOK'
  BY <1>1, <1>2, <1>4, Delivery, Telling DEF TypeOK, taskVars, FrameLength
<1>6. rx'.rx_state = 1 <=> rx'.count # 0
  <2>1. CASE sent = 2
    BY <2>1, <1>1, Delivery
  <2>2. CASE sent = 1 /\ rx.count = 0
    BY <2>2, <1>1, Delivery DEF Receiving
  <2>3. CASE sent = 0 \/ (sent = 1 /\ rx.count # 0)
    BY <2>3, <1>1, <1>3, Delivery
  <2> QED
    BY <1>2, <2>1, <2>2, <2>3
<1>7. losses' = losses /\ losses \in Nat
  BY <1>1, Delivery, LossAssumption DEF TypeOK
<1>8. rx'.count = 1 /\ sent' = 2 => losses' >= 1
  <2>1. CASE sent = 1 /\ rx.count = 0
    BY <2>1, <1>1, Delivery
  <2>2. CASE sent = 1 /\ rx.count # 0
    BY <2>2, <1>1, <1>3, Delivery
  <2> QED
    BY <1>2, <2>1, <2>2
<1>9. rx'.count = 1 /\ sent' \in {0, 3} => losses' >= 2
  BY <1>1, <1>2, Delivery
<1>10. rx'.buffer[1] = BUFFER_HEAD \/ Art_Data' = BUFFER_HEAD => losses' >= 2
  <2>1. CASE sent = 2
    BY <2>1, <1>1, <1>7, Delivery DEF Receiving
  <2>2. CASE sent # 2 /\ rx'.buffer[1] = rx.buffer[1]
    BY <2>2, <1>1, <1>7, Delivery DEF Receiving
  <2>3. CASE sent = 0 /\ rx.count = 1
    BY <2>3, <1>1, <1>7, Delivery DEF Receiving
  <2>4. CASE sent = 1 /\ rx.count = 1
    <3>1. rx'.buffer[1] = cls /\ Art_Data' = Art_Data
      BY <2>4, <1>1, Delivery, Bytes3
    <3>2. cls # BUFFER_HEAD
      BY <1>2, ClassBytes
    <3> QED
      BY <3>1, <3>2, <1>1, <1>7 DEF Receiving
  <2>5. sent # 2 /\ rx.count # 1 => rx'.buffer[1] = rx.buffer[1]
    BY <1>1, <1>2, Delivery
  <2> QED
    BY <1>2, <2>1, <2>2, <2>3, <2>4, <2>5
<1>11. rx'.buffer \in [0 .. Limit -> Seen]
  BY <1>1, Delivery
<1>12. Receiving'
  BY <1>6, <1>8, <1>9, <1>10, <1>11 DEF Receiving
<1> QED
  BY <1>5, <1>12

\* A byte that arrives keeps a synchronous receiver synchronous, and a tail makes
\* any receiver so.
LEMMA DeliverSynchronous ==
  ASSUME IInv, Deliver
  PROVE  sent = 2 \/ Synchronous => Synchronous'
<1>1. TypeOK /\ Receiving
  BY DEF IInv
<1>2. sent \in {0, 1, 2} /\ sent' = sent + 1 /\ cls' = cls
  BY <1>1, Delivery, Telling
<1>3. CASE sent = 2
  BY <1>1, <1>2, <1>3, Delivery DEF Synchronous
<1>4. CASE sent = 1 /\ Synchronous
  <2>1. rx.count = 1
    BY <1>4 DEF Synchronous
  <2>2. rx'.count = 2 /\ rx'.buffer[1] = cls
    BY <1>1, <1>4, <2>1, Delivery, Bytes3
  <2> QED
    BY <1>2, <1>4, <2>2 DEF Synchronous
<1>5. CASE sent = 0 /\ Synchronous
  <2>1. rx.count = 0
    BY <1>5 DEF Synchronous
  <2>2. rx'.count = 1
    BY <1>1, <1>5, <2>1, Delivery
  <2> QED
    BY <1>2, <1>5, <2>2 DEF Synchronous
<1> QED
  BY <1>2, <1>3, <1>4, <1>5

\* A report that is published is new, or it was owed.
LEMMA DeliverPaid ==
  ASSUME IInv, Deliver
  PROVE  Paid'
<1> SUFFICES ASSUME NEW c \in Seen \ {0}
             PROVE  Collected(c)' + Fresh(c)' + Owed' <= Times(c)' + losses'
  BY DEF Paid
<1>1. TypeOK /\ Receiving /\ Voting
  BY DEF IInv
<1>2. SendsByte /\ losses' = losses /\ class' = class /\ pc' = pc /\ tick' = tick
  BY <1>1, Delivery DEF taskVars
<1>3. /\ Times(c) \in 0 .. 4 /\ Times(c)' \in 0 .. 4 /\ Times(c) <= Times(c)'
      /\ c = cls /\ sent = 2 /\ pc # "drive" => Times(c)' = Times(c) + 1 \/ Times(c)' = 4
      /\ sent \in {0, 1, 2}
  BY <1>1, <1>2, Telling
<1>4. losses \in Nat
  BY <1>1, LossAssumption DEF TypeOK
<1>5. Collected(c) + Fresh(c) + Owed <= Times(c) + losses
  BY DEF IInv, Paid
<1>6. Collected(c)' = Collected(c)
  BY <1>2 DEF Collected
<1>7. Collected(c) \in 0 .. 4 /\ Fresh(c) \in 0 .. 1 /\ Owed \in 0 .. 1
  BY <1>1, FourVotes
<1>8. Fresh(c)' \in 0 .. 1 /\ Owed' \in 0 .. 1
  BY DEF Fresh, Owed
<1>9. CASE sent # 2
  <2>1. Fresh(c)' = Fresh(c)
    BY <1>1, <1>2, <1>9, Delivery DEF Fresh
  <2>2. Owed' <= Owed
    BY DeliverSynchronous DEF Owed
  <2> QED
    BY <1>3, <1>4, <1>5, <1>6, <1>7, <1>8, <1>2, <2>1, <2>2
<1>10. CASE sent = 2
  <2>1. Owed' = 0
    BY <1>10, DeliverSynchronous DEF Owed
  <2>2. CASE Fresh(c)' = 0
    BY <1>2, <1>3, <1>4, <1>5, <1>6, <1>7, <2>1, <2>2
  <2>3. CASE Fresh(c)' = 1 /\ Owed = 1
    BY <1>2, <1>3, <1>4, <1>5, <1>6, <1>7, <2>1, <2>3
  <2>4. CASE Fresh(c)' = 1 /\ Owed = 0
    <3>1. rx.buffer[1] = c /\ pc \in {"wait", "first", "poll", "compare", "adopt"}
      BY <1>1, <1>2, <1>10, <2>4, Delivery DEF Fresh
    <3>2. c = cls
      BY <1>10, <2>4, <3>1 DEF Owed, Synchronous
    <3>3. Collected(c) <= 3
      BY <1>1, <3>1, FourVotes
    <3>4. Times(c)' = Times(c) + 1 \/ Times(c)' = 4
      BY <1>3, <1>10, <3>1, <3>2
    <3> QED
      BY <1>2, <1>3, <1>4, <1>5, <1>6, <1>7, <2>1, <2>4, <3>3, <3>4
  <2> QED
    BY <1>7, <1>8, <2>2, <2>3, <2>4
<1> QED
  BY <1>9, <1>10

\* A report that is owed was paid for by a lost byte: nobody reports a framing byte.
LEMMA OwedIsPaid ==
  ASSUME IInv
  PROVE  Owed <= losses
<1>1. TypeOK /\ Voting
  BY DEF IInv
<1>2. /\ Collected(BUFFER_HEAD) \in 0 .. 4 /\ Fresh(BUFFER_HEAD) \in 0 .. 1
      /\ Owed \in 0 .. 1
  BY <1>1, FourVotes
<1>3. Times(BUFFER_HEAD) = 0
  BY ClassBytes DEF Times
<1>4. Collected(BUFFER_HEAD) + Fresh(BUFFER_HEAD) + Owed <= Times(BUFFER_HEAD) + losses
  BY ClassBytes DEF IInv, Paid
<1>5. losses \in Int
  BY <1>1 DEF TypeOK
<1> QED
  BY <1>2, <1>3, <1>4, <1>5

\* A frame that ends after the last comparison is what the box will be named by.
LEMMA DeliverNames ==
  ASSUME IInv, Deliver
  PROVE  Naming'
<1>1. TypeOK /\ Receiving /\ Naming
  BY DEF IInv
<1>2. /\ losses' = losses /\ pc' = pc /\ class' = class /\ arg' = arg
      /\ late' = IF sent = 2 /\ pc = "add" THEN cls ELSE late
      /\ sent \in {0, 1, 2}
  BY <1>1, Delivery, Telling DEF taskVars
<1>3. CASE ~ (sent = 2 /\ pc = "add")
  <2>1. late' = late
    BY <1>2, <1>3
  <2>2. pc = "add" => Art_Data' = Art_Data
    BY <1>1, <1>2, <1>3, Delivery
  <2> QED
    BY <1>1, <1>2, <2>1, <2>2 DEF Naming, Named
<1>4. CASE sent = 2 /\ pc = "add" /\ losses = 0
  <2>1. Owed = 0
    BY <1>1, <1>4, OwedIsPaid DEF Owed
  <2>2. rx.buffer[1] = cls
    BY <1>4, <2>1 DEF Owed, Synchronous
  <2>3. Art_Data' = cls
    BY <1>1, <1>4, <2>2, Delivery
  <2>4. late' = cls /\ cls # 0
    BY <1>1, <1>2, <1>4, ClassBytes DEF TypeOK
  <2> QED
    BY <1>2, <1>4, <2>3, <2>4 DEF Naming, Named
<1>5. CASE sent = 2 /\ pc = "add" /\ losses # 0
  BY <1>2, <1>5 DEF Naming
<1> QED
  BY <1>3, <1>4, <1>5

\* A byte that arrives.
LEMMA DeliverKeeps ==
  ASSUME IInv, Deliver
  PROVE  IInv'
<1>1. TypeOK /\ Receiving /\ Voting
  BY DEF IInv
<1>2. UNCHANGED taskVars /\ losses' = losses /\ losses \in Int
  BY <1>1, Delivery DEF TypeOK
<1>3. KnownClass' /\ OneEntryPerBox'
  BY <1>2, LineLeavesBoxes
<1>4. sent \in {0, 1, 2} /\ cls # 0 /\ BUFFER_HEAD # 0
  BY <1>1, Delivery, Telling, ClassBytes DEF TypeOK
<1>5. rx.buffer[1] # 0 => rx'.buffer[1] # 0
  <2>1. CASE sent = 2 \/ (sent = 1 /\ rx.count = 0)
    BY <1>1, <2>1, Delivery
  <2>2. CASE sent = 0 \/ (sent = 1 /\ rx.count # 0)
    BY <1>1, <1>4, <2>2, Delivery, Bytes3
  <2> QED
    BY <1>4, <2>1, <2>2
<1>6. Art_Data' # 0 => rx'.buffer[1] # 0
  BY <1>1, <1>4, <1>5, Delivery DEF Voting
<1>7. Art_Data # 0 => Art_Data' # 0
  BY <1>1, Delivery DEF Voting
<1>8. Voting'
  BY <1>1, <1>2, <1>6, <1>7 DEF Voting, taskVars
<1> QED
  BY <1>3, <1>8, DeliverReceives, DeliverPaid, DeliverNames DEF IInv
\* A byte that is lost pays for a report that is published without being made.
LEMMA LoseKeeps ==
  ASSUME IInv, Lose
  PROVE  IInv'
<1>1. TypeOK /\ Receiving /\ Voting
  BY DEF IInv
<1>2. /\ SendsByte /\ losses < MaxLosses /\ losses' = losses + 1
      /\ rx' = rx /\ Art_Data' = Art_Data /\ UNCHANGED taskVars
  BY DEF Lose
<1>3. losses \in Nat /\ losses' \in 0 .. MaxLosses
  BY <1>1, <1>2, LossAssumption DEF TypeOK
<1>4. TypeOK'
  BY <1>1, <1>2, <1>3, Telling DEF TypeOK, taskVars, FrameLength
<1>5. Receiving'
  <2>1. sent \in {0, 1, 2} /\ sent' = sent + 1
    BY <1>1, <1>2, Telling
  <2> QED
    BY <1>1, <1>2, <1>3, <2>1 DEF Receiving
<1>6. Paid'
  <2> SUFFICES ASSUME NEW c \in Seen \ {0}
               PROVE  Collected(c)' + Fresh(c)' + Owed' <= Times(c)' + losses'
    BY DEF Paid
  <2>1. Collected(c)' = Collected(c) /\ Fresh(c)' = Fresh(c)
    BY <1>2 DEF Collected, Fresh, taskVars
  <2>2. Owed' \in 0 .. 1
    BY DEF Owed
  <2>3. Collected(c) \in 0 .. 4 /\ Fresh(c) \in 0 .. 1 /\ Owed \in 0 .. 1
    BY <1>1, FourVotes
  <2>4. Times(c) \in 0 .. 4 /\ Times(c)' \in 0 .. 4 /\ Times(c) <= Times(c)'
    BY <1>1, <1>2, Telling
  <2>5. Collected(c) + Fresh(c) + Owed <= Times(c) + losses
    BY DEF IInv, Paid
  <2> QED
    BY <1>2, <1>3, <2>1, <2>2, <2>3, <2>4, <2>5
<1>7. Voting'
  BY <1>1, <1>2 DEF Voting, taskVars
<1>8. losses' \in Int /\ losses' >= losses
  BY <1>2, <1>3
<1>9. KnownClass' /\ OneEntryPerBox'
  BY <1>2, <1>8, LineLeavesBoxes
<1>10. Naming'
  <2>1. losses' # 0 /\ (pc # "add" => late' = late)
    BY <1>1, <1>2, <1>3, Telling
  <2> QED
    BY <1>2, <2>1 DEF IInv, Naming, taskVars
<1> QED
  BY <1>4, <1>5, <1>6, <1>7, <1>9, <1>10 DEF IInv

\* The next frame may report another class.
LEMMA NextFrameKeeps ==
  ASSUME IInv, NextFrame
  PROVE  IInv'
<1>1. TypeOK /\ Receiving /\ Voting
  BY DEF IInv
<1>2. /\ sent = 3 /\ sent' = 0 /\ cls' \in Classes
      /\ losses' = losses /\ told' = told /\ late' = late /\ rx' = rx /\ Art_Data' = Art_Data
      /\ UNCHANGED taskVars
  BY DEF NextFrame, FrameLength
<1>3. TypeOK'
  BY <1>1, <1>2 DEF TypeOK, taskVars, FrameLength
<1>4. Receiving'
  BY <1>1, <1>2 DEF Receiving
<1>5. Owed' = Owed
  BY <1>2 DEF Owed, Synchronous
<1>6. Paid'
  BY <1>2, <1>5 DEF IInv, Paid, Collected, Fresh, Times, taskVars
<1>7. Voting'
  BY <1>1, <1>2 DEF Voting, taskVars
<1>8. losses' \in Int /\ losses' >= losses
  BY <1>1, <1>2 DEF TypeOK
<1>9. KnownClass' /\ OneEntryPerBox'
  BY <1>2, <1>8, LineLeavesBoxes
<1>10. Naming'
  BY <1>2 DEF IInv, Naming, Named, taskVars
<1> QED
  BY <1>3, <1>4, <1>6, <1>7, <1>9, <1>10 DEF IInv
-----------------------------------------------------------------------------
(* The task.                                                                *)

\* The task at most clears what is published.
LEMMA TaskLeavesLine ==
  ASSUME IInv, UNCHANGED <<cls, sent, losses, rx>>, Art_Data' = Art_Data \/ Art_Data' = 0
  PROVE  /\ Receiving' /\ Owed' = Owed
         /\ Art_Data' \in Seen
         /\ Art_Data' # 0 => rx'.buffer[1] # 0
  BY ClassBytes DEF IInv, TypeOK, Voting, Receiving, Owed, Synchronous

\* Up to AddClass nothing is entered.
LEMMA TaskLeavesBoxes ==
  ASSUME IInv, UNCHANGED <<losses, boxes, arg, Class_Info, l_or_r>>, pc' # "done"
  PROVE  KnownClass' /\ OneEntryPerBox'
  BY DEF IInv, KnownClass, OneEntryPerBox

\* A report that the task counts was there to be counted.
LEMMA TaskPays ==
  ASSUME IInv, UNCHANGED lineVars, UNCHANGED rx, Art_Data' = Art_Data \/ Art_Data' = 0,
         \A c \in Seen \ {0} : Collected(c)' + Fresh(c)' <= Collected(c) + Fresh(c),
         \A c \in Seen \ {0} : Collected(c)' \in Int /\ Fresh(c)' \in Int
  PROVE  Paid'
<1> SUFFICES ASSUME NEW c \in Seen \ {0}
             PROVE  Collected(c)' + Fresh(c)' + Owed' <= Times(c)' + losses'
  BY DEF Paid
<1>1. Times(c)' = Times(c) /\ losses' = losses
  BY DEF lineVars, Times
<1>2. Owed' = Owed
  BY TaskLeavesLine DEF lineVars
<1>3. Collected(c) + Fresh(c) + Owed <= Times(c) + losses
  BY DEF IInv, Paid
<1>4. Collected(c) \in Int /\ Fresh(c) \in Int /\ Owed \in Int
  BY FourVotes DEF IInv
<1>5. Times(c) \in Int /\ losses \in Int
  BY DEF IInv, TypeOK, Times, Votes
<1> QED
  BY <1>1, <1>2, <1>3, <1>4, <1>5

\* Waiting for the old class to be gone, reading the first one and clearing it.
LEMMA OpeningKeeps ==
  ASSUME IInv, StartVote \/ WaitOver \/ ReadFirst \/ ClearFirst
  PROVE  IInv'
<1>1. TypeOK /\ Voting /\ tick = 0
  BY DEF IInv, Voting, StartVote, WaitOver, ReadFirst, ClearFirst
<1>2. /\ UNCHANGED lineVars /\ UNCHANGED <<rx, tick, l_or_r, Class_Info, boxes, arg>>
      /\ Art_Data' = Art_Data \/ Art_Data' = 0
      /\ pc' \in {"wait", "first", "clear", "poll"}
      /\ class' = class \/ class' = Art_Data
      /\ boxes < MaxBoxes
  BY <1>1 DEF StartVote, WaitOver, ReadFirst, ClearFirst, Art_GetData, Art_DataClear, Voting
<1>3. /\ Receiving' /\ Art_Data' \in Seen /\ (Art_Data' # 0 => rx'.buffer[1] # 0)
  BY <1>2, TaskLeavesLine DEF lineVars
<1>4. TypeOK'
  BY <1>1, <1>2, <1>3 DEF TypeOK, lineVars, Points
<1>5. Voting'
  BY <1>1, <1>2, <1>3 DEF Voting
<1>6. \A c \in Seen \ {0} : /\ Collected(c)' + Fresh(c)' <= Collected(c) + Fresh(c)
                            /\ Collected(c)' \in Int /\ Fresh(c)' \in Int
  <2> TAKE c \in Seen \ {0}
  <2>1. CASE StartVote
    BY <2>1 DEF StartVote, Art_DataClear, Collected, Fresh
  <2>2. CASE WaitOver
    BY <2>2 DEF WaitOver, Art_GetData, Collected, Fresh
  <2>3. CASE ReadFirst
    BY <1>1, <2>3 DEF ReadFirst, Art_GetData, Collected, Fresh
  <2>4. CASE ClearFirst
    BY <1>1, <2>4 DEF ClearFirst, Art_DataClear, Collected, Fresh
  <2> QED
    BY <2>1, <2>2, <2>3, <2>4
<1>7. Paid'
  BY <1>2, <1>6, TaskPays
<1>8. KnownClass' /\ OneEntryPerBox'
  BY <1>2, TaskLeavesBoxes DEF lineVars
<1>9. Naming'
  <2>1. pc \notin {"add", "done"}
    BY DEF StartVote, WaitOver, ReadFirst, ClearFirst
  <2> QED
    BY <1>2, <2>1 DEF IInv, Naming, lineVars
<1> QED
  BY <1>3, <1>4, <1>5, <1>7, <1>8, <1>9 DEF IInv
\* The voting loop.
LEMMA VotingKeeps ==
  ASSUME IInv, Poll \/ Compare \/ Adopt \/ NextVote
  PROVE  IInv'
<1>1. TypeOK /\ Voting
  BY DEF IInv
<1>2. /\ UNCHANGED lineVars /\ UNCHANGED <<rx, l_or_r, Class_Info, boxes, arg>>
      /\ Art_Data' = Art_Data \/ Art_Data' = 0
      /\ pc \in {"poll", "compare", "adopt", "next"}
      /\ pc' \in {"poll", "compare", "adopt", "next", "add"}
  BY DEF Poll, Compare, Adopt, NextVote, Art_GetData, Art_DataClear
<1>3. /\ Receiving' /\ Art_Data' \in Seen /\ (Art_Data' # 0 => rx'.buffer[1] # 0)
  BY <1>2, TaskLeavesLine DEF lineVars
<1>4. tick \in 0 .. 2 /\ Art_Data \in Seen /\ class \in Seen
  <2>1. tick \in 0 .. 3 /\ tick # 3
    BY <1>1, <1>2 DEF TypeOK, Voting
  <2> QED
    BY <1>1, <2>1 DEF TypeOK
<1>5. /\ class' \in Seen /\ tick' \in 0 .. 3 /\ (pc' = "add" <=> tick' = 3)
      /\ pc' \in {"compare", "adopt", "next", "add"} => Art_Data' # 0
      /\ pc' \in {"next", "add"} => class' # 0
  <2>1. CASE Poll
    BY <1>4, <2>1 DEF Poll, Art_GetData
  <2>2. CASE Compare
    <3>1. Art_Data # 0
      BY <1>1, <2>2 DEF Compare, Voting
    <3>2. CASE class = Art_Data
      <4>1. /\ tick' = tick + 1 /\ pc' = IF tick' < 3 THEN "next" ELSE "add"
            /\ Art_Data' = Art_Data /\ class' = class
        BY <2>2, <3>2 DEF Compare, Art_GetData
      <4> QED
        BY <1>4, <3>1, <3>2, <4>1
    <3>3. CASE class # Art_Data
      BY <1>4, <2>2, <3>1, <3>3 DEF Compare, Art_GetData
    <3> QED
      BY <3>2, <3>3
  <2>3. CASE Adopt
    BY <1>1, <1>4, <2>3 DEF Adopt, Art_GetData, Voting
  <2>4. CASE NextVote
    BY <1>4, <2>4 DEF NextVote
  <2> QED
    BY <2>1, <2>2, <2>3, <2>4
<1>6. TypeOK'
  BY <1>1, <1>2, <1>3, <1>5 DEF TypeOK, lineVars, Points
<1>7. Voting'
  BY <1>1, <1>2, <1>3, <1>5 DEF Voting
<1>8. \A c \in Seen \ {0} : /\ Collected(c)' + Fresh(c)' <= Collected(c) + Fresh(c)
                            /\ Collected(c)' \in Int /\ Fresh(c)' \in Int
  <2> TAKE c \in Seen \ {0}
  <2>1. CASE Poll
    BY <1>4, <2>1 DEF Poll, Collected, Fresh
  <2>2. CASE Compare /\ class = Art_Data
    <3>1. /\ pc = "compare" /\ tick' = tick + 1 /\ pc' \in {"next", "add"}
          /\ class' = class
      BY <2>2 DEF Compare, Art_GetData
    <3>2. Collected(c)' = IF class = c THEN tick + 2 ELSE 0
      BY <1>4, <3>1 DEF Collected
    <3>3. Fresh(c)' = 0
      BY <3>1 DEF Fresh
    <3>4. Collected(c) = IF class = c THEN tick + 1 ELSE 0
      BY <3>1 DEF Collected
    <3>5. Fresh(c) = IF class = c THEN 1 ELSE 0
      BY <2>2, <3>1 DEF Fresh
    <3> QED
      BY <1>4, <3>2, <3>3, <3>4, <3>5
  <2>3. CASE Compare /\ class # Art_Data
    BY <1>4, <2>3 DEF Compare, Art_GetData, Collected, Fresh
  <2>4. CASE Adopt
    BY <1>4, <2>4 DEF Adopt, Art_GetData, Collected, Fresh
  <2>5. CASE NextVote
    BY <1>4, <2>5 DEF NextVote, Art_DataClear, Collected, Fresh
  <2> QED
    BY <2>1, <2>2, <2>3, <2>4, <2>5
<1>9. Paid'
  BY <1>2, <1>8, TaskPays
<1>10. KnownClass' /\ OneEntryPerBox'
  BY <1>2, TaskLeavesBoxes DEF lineVars
<1>11. Naming'
  <2>1. late' = 0
    BY <1>2 DEF IInv, Naming, lineVars
  <2>2. pc' = "add" => Compare /\ class = Art_Data
    BY DEF Poll, Compare, Adopt, NextVote, Art_GetData
  <2>3. pc' = "add" => Art_Data' = Art_Data /\ class' = class
    BY <2>2 DEF Compare
  <2> QED
    BY <1>2, <2>1, <2>2, <2>3 DEF Naming, Named
<1> QED
  BY <1>3, <1>6, <1>7, <1>9, <1>10, <1>11 DEF IInv

\* The entry of a class tells it.
LEMMA EntryTells ==
  ASSUME NEW c \in Seen, c # 0, c <= Class_Sound
  PROVE  /\ c \in Classes /\ [Class_Huge |-> Huge(c), Class_Small |-> Small(c)] \in Entries
         /\ Side(c) \in {0, 1}
         /\ c = IF Huge(c) = "Num" THEN Small(c) + 1 ELSE Small(c)
<1>1. c \in Classes /\ c \in 1 .. 115
  BY ClassBytes DEF Class_Sound
<1>2. Huge(c) \in {"Num", "Utilities", "Peripherals"} /\ (Huge(c) = "Num" <=> c < Class_Wrench)
  BY DEF Huge
<1>3. Small(c) \in 0 .. 115 /\ c = IF c < Class_Wrench THEN Small(c) + 1 ELSE Small(c)
  BY <1>1 DEF Small, Class_Wrench
<1>4. Side(c) \in {0, 1}
  BY <1>2 DEF Side
<1> QED
  BY <1>1, <1>2, <1>3, <1>4 DEF Entries, Class_Sound

\* The class is read once more and entered.
LEMMA AddClassKeeps ==
  ASSUME IInv, AddClass
  PROVE  IInv'
<1>1. TypeOK /\ Voting
  BY DEF IInv
<1>2. /\ UNCHANGED lineVars /\ UNCHANGED <<rx, Art_Data, class, tick>>
      /\ pc = "add" /\ pc' = "done" /\ arg' = Art_Data /\ boxes' = boxes + 1
      /\ Class_Add(Art_Data)
  BY DEF AddClass, Art_GetData
<1>3. /\ Receiving' /\ Art_Data' \in Seen /\ (Art_Data' # 0 => rx'.buffer[1] # 0)
  BY <1>2, TaskLeavesLine DEF lineVars
<1>4. Art_Data \in Seen /\ Art_Data # 0 /\ tick = 3 /\ boxes < MaxBoxes /\ boxes \in Nat
  BY <1>1, <1>2, BoxAssumption DEF TypeOK, Voting
<1>5. Art_Data \notin Classes => losses >= 2
  BY <1>4, ClassBytes DEF IInv, Receiving
<1> DEFINE e == [Class_Huge |-> Huge(Art_Data), Class_Small |-> Small(Art_Data)]
<1>6. \/ /\ Art_Data <= Class_Sound /\ Class_Info' = Append(Class_Info, e)
         /\ l_or_r' = Side(Art_Data)
      \/ /\ Art_Data > Class_Sound /\ Class_Info' = Class_Info /\ l_or_r' \in {0, 1}
  BY <1>2 DEF Class_Add
<1>7. Art_Data <= Class_Sound =>
        /\ e \in Entries /\ Side(Art_Data) \in {0, 1} /\ Art_Data \in Classes
        /\ Art_Data = IF e.Class_Huge = "Num" THEN e.Class_Small + 1 ELSE e.Class_Small
  BY <1>4, EntryTells
<1> HIDE DEF e
<1>8. Class_Info \in Seq(Entries) /\ Len(Class_Info) \in Nat /\ Len(Class_Info) <= boxes
  BY <1>1 DEF TypeOK
<1>9. Class_Info' \in Seq(Entries) /\ Len(Class_Info') <= boxes' /\ l_or_r' \in {0, 1}
  <2>1. CASE Art_Data <= Class_Sound
    BY <1>2, <1>4, <1>6, <1>7, <1>8, <2>1
  <2>2. CASE Art_Data > Class_Sound
    BY <1>2, <1>4, <1>6, <1>7, <1>8, <2>2
  <2> QED
    BY <1>6, <2>1, <2>2
<1>10. boxes' \in 0 .. MaxBoxes
  BY <1>2, <1>4, BoxAssumption
<1>11. TypeOK'
  BY <1>1, <1>2, <1>3, <1>4, <1>9, <1>10 DEF TypeOK, lineVars, Points
<1>12. Paid'
  BY <1>1, <1>2, FourVotes, TaskPays DEF Collected, Fresh
<1>13. Voting'
  BY <1>1, <1>2, <1>3, <1>4 DEF Voting
<1>14. KnownClass'
  BY <1>2, <1>5 DEF KnownClass, lineVars
<1>15. OneEntryPerBox'
  <2> SUFFICES ASSUME losses' < 2
               PROVE  /\ Len(Class_Info') = boxes'
                      /\ l_or_r' = Side(IF Class_Info'[boxes'].Class_Huge = "Num"
                                        THEN Class_Info'[boxes'].Class_Small + 1
                                        ELSE Class_Info'[boxes'].Class_Small)
    BY DEF OneEntryPerBox, Side, Huge
  <2>1. losses' = losses /\ losses \in Int
    BY <1>1, <1>2 DEF lineVars, TypeOK
  <2>2. Art_Data \in Classes /\ Len(Class_Info) = boxes
    BY <1>5, <2>1 DEF IInv, OneEntryPerBox
  <2>3. Art_Data <= Class_Sound /\ ~(Art_Data > Class_Sound)
    BY <2>2, ClassAssumption DEF Class_Sound
  <2>4. Class_Info' = Append(Class_Info, e) /\ l_or_r' = Side(Art_Data)
    BY <1>6, <2>3
  <2>5. Len(Class_Info') = boxes' /\ Class_Info'[boxes'] = e
    BY <1>2, <1>7, <1>8, <2>2, <2>3, <2>4
  <2> QED
    BY <1>7, <2>3, <2>4, <2>5
<1>16. Naming'
  BY <1>2 DEF IInv, Naming, Named, lineVars
<1> QED
  BY <1>3, <1>11, <1>12, <1>13, <1>14, <1>15, <1>16 DEF IInv

\* The vote is over, and the next one begins with nothing reported.
LEMMA ClearLastKeeps ==
  ASSUME IInv, ClearLast
  PROVE  IInv'
<1>1. TypeOK /\ Voting
  BY DEF IInv
<1>2. /\ UNCHANGED <<cls, sent, losses, rx, l_or_r, Class_Info, boxes, arg>>
      /\ Art_Data' = 0 /\ pc' = "drive" /\ class' = 0 /\ tick' = 0
      /\ told' = [c \in Classes |-> 0] /\ late' = 0
  BY DEF ClearLast, Art_DataClear
<1>3. Receiving' /\ Owed' = Owed
  BY <1>2, TaskLeavesLine
<1>4. TypeOK'
  BY <1>1, <1>2, ClassBytes DEF TypeOK, Points, Votes
<1>5. Voting'
  BY <1>2 DEF Voting
<1>6. Owed <= losses
  BY OwedIsPaid
<1>7. Paid'
  <2> SUFFICES ASSUME NEW c \in Seen \ {0}
               PROVE  Collected(c)' + Fresh(c)' + Owed' <= Times(c)' + losses'
    BY DEF Paid
  <2>1. Collected(c)' = 0 /\ Fresh(c)' = 0 /\ Times(c)' = 0
    BY <1>2 DEF Collected, Fresh, Times
  <2>2. losses \in Int /\ Owed \in Int
    BY <1>1, FourVotes DEF TypeOK
  <2> QED
    BY <1>2, <1>3, <1>6, <2>1, <2>2
<1>8. KnownClass' /\ OneEntryPerBox'
  BY <1>2, TaskLeavesBoxes
<1>9. Naming'
  BY <1>2 DEF Naming
<1> QED
  BY <1>3, <1>4, <1>5, <1>7, <1>8, <1>9 DEF IInv
-----------------------------------------------------------------------------
\* IInv is an inductive invariant of the camera, the handler and the task.
THEOREM InductiveInvariant == Spec => []IInv
<1>1. ASSUME Init PROVE IInv
  <2>1. TypeOK
    BY <1>1, ClassBytes, LossAssumption, BoxAssumption
       DEF Init, TypeOK, Idle, Receivers, Limit, FrameLength, Points, Votes
  <2>2. Receiving
    BY <1>1, ClassBytes DEF Init, Receiving, Idle, Limit
  <2>3. Synchronous
    BY <1>1 DEF Init, Synchronous, Idle
  <2>4. Paid
    BY <1>1, <2>3 DEF Init, Paid, Collected, Fresh, Owed, Times
  <2>5. Voting /\ Naming /\ KnownClass /\ OneEntryPerBox
    BY <1>1 DEF Init, Voting, Naming, KnownClass, OneEntryPerBox
  <2> QED
    BY <2>1, <2>2, <2>4, <2>5 DEF IInv
<1>2. ASSUME IInv, [Next]_vars PROVE IInv'
  <2>1. CASE Deliver \/ Lose \/ NextFrame
    BY <1>2, <2>1, DeliverKeeps, LoseKeeps, NextFrameKeeps
  <2>2. CASE StartVote \/ WaitOver \/ ReadFirst \/ ClearFirst
    BY <1>2, <2>2, OpeningKeeps
  <2>3. CASE Poll \/ Compare \/ Adopt \/ NextVote
    BY <1>2, <2>3, VotingKeeps
  <2>4. CASE AddClass \/ ClearLast
    BY <1>2, <2>4, AddClassKeeps, ClearLastKeeps
  <2>5. CASE UNCHANGED vars
    <3>1. UNCHANGED <<lineVars, rx, Art_Data, taskVars>>
      BY <2>5 DEF vars
    <3>2. TypeOK' /\ Receiving' /\ Voting' /\ Naming'
      BY <1>2, <3>1 DEF IInv, TypeOK, Receiving, Voting, Naming, Named, lineVars, taskVars
    <3>3. Paid'
      BY <1>2, <3>1
         DEF IInv, Paid, Collected, Fresh, Owed, Synchronous, Times, lineVars, taskVars
    <3>4. KnownClass' /\ OneEntryPerBox'
      BY <1>2, <3>1 DEF IInv, KnownClass, OneEntryPerBox, lineVars, taskVars
    <3> QED
      BY <3>2, <3>3, <3>4 DEF IInv
  <2> QED
    BY <1>2, <2>1, <2>2, <2>3, <2>4, <2>5 DEF Next, Line, Task
<1> QED
  BY <1>1, <1>2, PTL DEF Spec

\* A class wins the vote by four reports, or a lost byte for each that is missing;
\* without a lost byte the box gets this class, or that of a report that came in
\* after the last comparison; and the counts of the loop stay within their limits.
THEOREM CountedVotes == Spec => []VoteCounted
<1>1. ASSUME IInv PROVE VoteCounted
  <2>1. TypeOK /\ Voting /\ Naming
    BY <1>1 DEF IInv
  <2>2. ASSUME pc \in {"add", "done"} PROVE Times(class) + losses >= 4
    <3>1. class \in Seen \ {0} /\ tick = 3
      BY <2>1, <2>2 DEF TypeOK, Voting
    <3>2. Collected(class) = 4
      BY <2>2, <3>1 DEF Collected
    <3>3. Collected(class) + Fresh(class) + Owed <= Times(class) + losses
      BY <1>1, <3>1 DEF IInv, Paid
    <3>4. Fresh(class) \in 0 .. 1 /\ Owed \in 0 .. 1
      BY <2>1, FourVotes
    <3>5. Times(class) \in Int /\ losses \in Int
      BY <2>1 DEF TypeOK, Times, Votes
    <3> QED
      BY <3>2, <3>3, <3>4, <3>5
  <2>3. pc = "done" /\ losses = 0 => arg = Named
    BY <2>1 DEF Naming
  <2> QED
    BY <2>1, <2>2, <2>3 DEF VoteCounted, VotedByReports, Votes
<1> QED
  BY <1>1, InductiveInvariant, PTL

\* One lost byte does not make the task enter anything but a class.
THEOREM NamedByClass == Spec => []KnownClass
<1>1. IInv => KnownClass
  BY DEF IInv
<1> QED
  BY <1>1, InductiveInvariant, PTL

\* With at most one byte lost every box has its entry, and is pushed to its side.
THEOREM EveryBoxEntered == Spec => []OneEntryPerBox
<1>1. IInv => OneEntryPerBox
  BY DEF IInv
<1> QED
  BY <1>1, InductiveInvariant, PTL
=============================================================================
