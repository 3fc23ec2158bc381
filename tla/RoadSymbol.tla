----------------------------- MODULE RoadSymbol -----------------------------
(***************************************************************************)
(* The road elements of my_vision.c, frame by frame: Vision_SymbolJudge    *)
(* names the element from the shape of the two road borders, and           *)
(* Vision_RSHandle runs the handler of the element, whose static variables *)
(* carry a crossing or a roundabout over many frames.                      *)
(*                                                                         *)
(* A border is abstracted to what the code asks of it (BorderShape).  The  *)
(* handlers also redraw the borders; they are found afresh in every frame, *)
(* so that has no effect on later frames (Steering models it).  Angles are *)
(* in degrees.                                                             *)
(***************************************************************************)
EXTENDS BorderShape

CONSTANT
  Turns            \* how far the car may turn between two frames, to either side;
                   \* a box may be pushed in between, so there is no limit to it

ASSUME TurnAssumption == Turns \subseteq Int

VARIABLES
  Current_Road,
  ring,            \* Circule_Handle: state, tick, Circule_LorR
  out_n,           \* static: frames in a row that deny the roundabout
  cross,           \* static state of Vision_CrossHandle
  turn,            \* Att_CurrentYaw - init_angle; followed only while it is looked at
  cir_speed_flag,
  Start_Flag,      \* the first zebra crossing was passed
  late,            \* more than 5000 ticks since the static tick of Vision_ZebraHandle
  finished,        \* Vision_ZebraHandle displays the result for ever
  bent,            \* history: frames in a row without a straight border, in this ring
  total,           \* history: how far the car has turned in this ring, to and fro
  lap,             \* history: how long ago the first crossing was, or who said so
  corner           \* history: which sides are bent where CornerState1 holds

ringVars  == <<ring, out_n, turn, cir_speed_flag, bent, total>>
zebraVars == <<Start_Flag, late, finished, lap>>
vars == <<Current_Road, ringVars, cross, zebraVars, corner>>

Abs(x) == IF x < 0 THEN -x ELSE x

\* The three angles of a roundabout together.
WholeTurn == 65 + 170 + 50

N(b) == Len(b.seg)
Seg(b, i) == IF i < N(b) THEN b.seg[i + 1] ELSE "null"

TypeOK ==
  /\ Current_Road \in {"Normal", "Cross", "Circule"}
  /\ ring \in [state : {"Begin", "State1", "State2", "State3", "Cor", "out"},
               tick : 0 .. 4, LorR : {"L", "R"}]
  /\ out_n \in 0 .. 2
  /\ cross \in {"Begin", "State1"}
  /\ turn \in Int
  /\ cir_speed_flag \in {0, 1} /\ Start_Flag \in {0, 1} /\ late \in {0, 1}
  /\ finished \in BOOLEAN
  /\ bent \in 0 .. 3 /\ total \in 0 .. WholeTurn + 1
  /\ lap \in {"none", "early", "late", "shell"}
  /\ corner \in {"none", "one", "both"}

Init ==
  /\ Current_Road = "Normal"
  /\ ring = [state |-> "Begin", tick |-> 0, LorR |-> "L"]
  /\ out_n = 0 /\ cross = "Begin" /\ turn = 0 /\ cir_speed_flag = 0
  /\ Start_Flag = 0 /\ late = 0 /\ finished = FALSE
  /\ bent = 0 /\ total = 0 /\ lap = "none" /\ corner = "none"
-----------------------------------------------------------------------------
(* Vision_SymbolJudge.                                                      *)

\* The second half of CornerState1 tests the left border again.
CornerState1(l, r) == Seg(l, 0) \in Bends /\ N(l) = 1 /\ N(r) = 1

\* Its second disjunct, and all of CornerState2, compare an array with a number
\* (F.my_segment_L == 1), which is never true.
CornerState3(l, r) ==
  Seg(l, 0) \in Bends /\ Seg(l, 1) = "lose" /\ Seg(r, 0) = "lose" /\ N(r) = 1

Roundabout(l, r) ==
  \/ N(l) = 1 /\ Seg(l, 0) = "straight" /\ Seg(r, 1) = "lose" /\ N(r) = 2
  \/ N(r) = 1 /\ Seg(r, 0) = "straight" /\ Seg(l, 1) = "lose" /\ N(l) = 2

CrossCon1(l, r) == l.fp = 2 /\ r.fp = 2
CrossCon2(l, r) == {l.fp, r.fp} = {1, 2}
CrossCon3(l, r) ==
  \/ Seg(l, 0) = "lose" /\ N(l) = 1 /\ l.fp = 0 /\ r.fp = 2
  \/ Seg(r, 0) = "lose" /\ N(r) = 1 /\ r.fp = 0 /\ l.fp = 2
\* Both halves ask for a corner point on the left.
CrossCon4(l, r) ==
  /\ l.fp > 0
  /\ \/ Seg(r, 0) = "lose" /\ Seg(r, 1) # "null" /\ N(l) <= 2 /\ Seg(l, 0) = "arc"
     \/ Seg(l, 0) = "lose" /\ Seg(l, 1) # "null" /\ N(r) <= 2 /\ Seg(r, 0) = "arc"

\* The element this frame belongs to: a crossing or roundabout goes on until
\* its handler ends it.  Corners and lost roads are over in the same frame.
Vision_SymbolJudge(l, r, zebra) ==
  IF Current_Road # "Normal" THEN Current_Road
  ELSE IF zebra THEN "Zebra"
  ELSE IF Roundabout(l, r) THEN "Circule"
  ELSE IF CornerState1(l, r) \/ CornerState3(l, r) THEN "Corner"
  ELSE IF CrossCon1(l, r) \/ CrossCon2(l, r) \/ CrossCon3(l, r) \/ CrossCon4(l, r)
       THEN "Cross"
  ELSE "Normal"

\* A frame of the given element; what is noted of it.
FrameOf(road, l, r, zebra) ==
  /\ ~finished
  /\ Vision_SymbolJudge(l, r, zebra) = road
  /\ corner' = IF road = "Corner" /\ CornerState1(l, r)
               THEN IF Seg(r, 0) \in Bends THEN "both" ELSE "one" ELSE "none"

\* NormalRoads, LoseRoads and CornerRoads.
OrdinaryFrame(l, r) ==
  /\ \E road \in {"Normal", "Corner"} : FrameOf(road, l, r, FALSE)
  /\ Current_Road' = "Normal"
  /\ UNCHANGED <<ringVars, cross, zebraVars>>
-----------------------------------------------------------------------------
(* Vision_CrossHandle.                                                      *)

\* Variant: the crossing ends without going back to its first state.
Vision_CrossHandle_KeepsState(l, r) ==
  \/ /\ cross = "Begin"
     /\ Current_Road' = IF l.fp = 0 /\ r.fp = 0 THEN "Normal" ELSE "Cross"
     /\ cross' = IF Seg(l, 0) = "lose" /\ Seg(r, 0) = "lose" /\ (l.fp > 0 \/ r.fp > 0)
                 THEN "State1" ELSE cross
  \/ /\ cross = "State1"
     /\ Current_Road' = IF Seg(r, 0) # "lose" THEN "Normal" ELSE "Cross"
     /\ UNCHANGED cross

\* The crossing begins when both near ends are lost; without any corner point
\* it was none.  The end is meant to ask for both near ends, but for the left
\* one IsLose(!seg) tests for an unmarked segment, and there is none.
Vision_CrossHandle(l, r) ==
  \/ /\ cross = "Begin"
     /\ Current_Road' = IF l.fp = 0 /\ r.fp = 0 THEN "Normal" ELSE "Cross"
     /\ cross' = IF Seg(l, 0) = "lose" /\ Seg(r, 0) = "lose" /\ (l.fp > 0 \/ r.fp > 0)
                 THEN "State1" ELSE cross
  \/ /\ cross = "State1"
     /\ Current_Road' = IF Seg(r, 0) # "lose" THEN "Normal" ELSE "Cross"
     /\ cross' = IF Seg(r, 0) # "lose" THEN "Begin" ELSE cross

CrossFrame(l, r) ==
  /\ FrameOf("Cross", l, r, FALSE)
  /\ Vision_CrossHandle(l, r)
  /\ UNCHANGED <<ringVars, zebraVars>>
-----------------------------------------------------------------------------
(* Vision_CirculeHandle and Vision_Cir_PI_Handle.                           *)

\* On the first frame: on which side the roundabout is.
Entered(l, r) ==
  IF ring.state # "Begin" THEN ring
  ELSE [state |-> "State1", tick |-> 0,
        LorR |-> IF Seg(l, 0) = "straight" /\ N(l) = 1 THEN "R"
                 ELSE IF Seg(r, 0) = "straight" /\ N(r) = 1 THEN "L" ELSE ring.LorR]

\* Variant: the frames that deny the roundabout need not follow each other.
Denials_Sum(denied) == IF denied THEN out_n + 1 ELSE out_n

\* The frames in a row in which the far border is not straight.
Denials(denied) == IF denied THEN out_n + 1 ELSE 0

\* The same for the history, which begins with the roundabout.
DenialsHere(denied) ==
  IF ~denied THEN 0 ELSE IF ring.state = "Begin" THEN 1 ELSE bent + 1

\* Variant: the near end must be gone for six frames.
CirState1_Sixth(c, gone) ==
  /\ ring' = IF ~gone THEN [c EXCEPT !.tick = 0]
             ELSE IF c.tick + 1 > 5 THEN [c EXCEPT !.state = "State2", !.tick = 0]
             ELSE [c EXCEPT !.tick = @ + 1]
  /\ Current_Road' = "Circule"
  /\ UNCHANGED <<turn, total>>

\* Variant: the count stops below its limit.
CirState1_CountsToFour(c, gone) ==
  /\ ring' = IF ~gone THEN [c EXCEPT !.tick = 0]
             ELSE IF c.tick = 5 THEN [c EXCEPT !.state = "State2", !.tick = 0]
             ELSE IF c.tick < 4 THEN [c EXCEPT !.tick = @ + 1] ELSE c
  /\ Current_Road' = "Circule"
  /\ UNCHANGED <<turn, total>>

\* The roundabout begins when its near end was gone for five frames in a row.
CirState1(c, gone) ==
  /\ ring' = IF ~gone THEN [c EXCEPT !.tick = 0]
             ELSE IF c.tick + 1 = 5 THEN [c EXCEPT !.state = "State2", !.tick = 0]
             ELSE [c EXCEPT !.tick = @ + 1]
  /\ Current_Road' = "Circule"
  /\ UNCHANGED <<turn, total>>

CirState2(c) ==
  /\ ring' = [c EXCEPT !.state = "State3", !.tick = 0]
  /\ turn' = 0 /\ total' = 0
  /\ Current_Road' = "Circule"

\* The history of the turn, up to more than a roundabout takes.
Turned(d) == IF total + Abs(d) > WholeTurn THEN WholeTurn + 1 ELSE total + Abs(d)

\* Variant: the angle goes on from the last state.
TurnsTo_KeepsAngle(c, d, angle, next) ==
  /\ turn' = turn + d /\ total' = Turned(d)
  /\ ring' = IF Abs(turn + d) > angle THEN [c EXCEPT !.state = next] ELSE c
  /\ Current_Road' = "Circule"

\* The car turns by d; away from init_angle by more than the given angle, to
\* whichever side, the next state begins and takes init_angle anew.
TurnsTo(c, d, angle, next) ==
  /\ total' = Turned(d)
  /\ Current_Road' = "Circule"
  /\ IF Abs(turn + d) > angle
     THEN ring' = [c EXCEPT !.state = next] /\ turn' = 0
     ELSE ring' = c /\ turn' = turn + d

CirState3(c, d) == TurnsTo(c, d, 65, "Cor")

\* Variant: behind the lane the way in is begun again.
CirCor_Again(c, d) == TurnsTo(c, d, 170, "State3")

CirCor(c, d) == TurnsTo(c, d, 170, "out")

CirOut(c, d) ==
  /\ turn' = turn + d /\ total' = Turned(d)
  /\ IF Abs(turn + d) > 50
     THEN ring' = [c EXCEPT !.state = "Begin"] /\ Current_Road' = "Normal"
     ELSE ring' = c /\ Current_Road' = "Circule"

Vision_Cir_PI_Handle(c, gone, d) ==
  /\ cir_speed_flag' = IF c.state \in {"State3", "out"} THEN 1 ELSE 0
  /\ \/ c.state = "State1" /\ CirState1(c, gone)
     \/ c.state = "State2" /\ CirState2(c)
     \/ c.state = "State3" /\ CirState3(c, d)
     \/ c.state = "Cor" /\ CirCor(c, d)
     \/ c.state = "out" /\ CirOut(c, d)

Watched(c) == c.state \in {"State1", "State2"}

\* A false detection: three frames in a row deny it.
RingDenied(l, r) ==
  LET c == Entered(l, r)
      denied == Seg(IF c.LorR = "L" THEN r ELSE l, 0) # "straight"
  IN /\ FrameOf("Circule", l, r, FALSE)
     /\ Watched(c) /\ Denials(denied) = 3
     /\ bent' = DenialsHere(denied)
     /\ Current_Road' = "Normal"
     /\ ring' = [c EXCEPT !.state = "Begin"]
     /\ out_n' = 0
     /\ cir_speed_flag' = 0
     /\ UNCHANGED <<turn, total, cross, zebraVars>>

RingFrame(l, r, d) ==
  LET c == Entered(l, r)
      denied == Seg(IF c.LorR = "L" THEN r ELSE l, 0) # "straight"
      gone == Seg(IF c.LorR = "L" THEN l ELSE r, 0) = "lose"
  IN /\ FrameOf("Circule", l, r, FALSE)
     /\ IF Watched(c)
        THEN /\ Denials(denied) # 3
             /\ out_n' = Denials(denied)
             /\ bent' = DenialsHere(denied)
        ELSE UNCHANGED <<out_n, bent>>
     /\ Vision_Cir_PI_Handle(c, gone, d)
     /\ UNCHANGED <<cross, zebraVars>>
-----------------------------------------------------------------------------
(* Vision_ZebraHandle, and the two others who touch its state.              *)

\* Variant: the time of the first crossing is not taken.
FirstZebra_NoTime ==
  /\ Start_Flag = 0
  /\ Start_Flag' = 1
  /\ lap' = "early"
  /\ UNCHANGED <<late, finished>>

FirstZebra ==
  /\ Start_Flag = 0
  /\ Start_Flag' = 1
  /\ late' = 0
  /\ lap' = "early"
  /\ UNCHANGED finished

SameZebra ==
  /\ Start_Flag = 1 /\ late = 0
  /\ UNCHANGED zebraVars

LastZebra ==
  /\ Start_Flag = 1 /\ late = 1
  /\ finished' = TRUE
  /\ UNCHANGED <<Start_Flag, late, lap>>

ZebraFrame(l, r) ==
  /\ FrameOf("Zebra", l, r, TRUE)
  /\ FirstZebra \/ SameZebra \/ LastZebra
  /\ Current_Road' = "Normal"
  /\ UNCHANGED <<ringVars, cross>>

\* More than 5000 ticks after the first crossing, or, before it, after boot.
TimePasses ==
  /\ late = 0
  /\ late' = 1
  /\ lap' = IF lap = "early" THEN "late" ELSE lap
  /\ UNCHANGED <<Current_Road, ringVars, cross, Start_Flag, finished, corner>>

\* The shell command CarStart.
ShellCarStart ==
  /\ Start_Flag = 0
  /\ Start_Flag' = 1
  /\ lap' = "shell"
  /\ UNCHANGED <<Current_Road, ringVars, cross, late, finished, corner>>

Frame ==
  \E l, r \in Features :
    \/ OrdinaryFrame(l, r) \/ CrossFrame(l, r) \/ ZebraFrame(l, r) \/ RingDenied(l, r)
    \/ \E d \in Turns : RingFrame(l, r, d)

Done == finished /\ UNCHANGED vars

Next == Frame \/ TimePasses \/ ShellCarStart \/ Done

Spec == Init /\ [][Next]_vars

\* Frames keep coming, and in the roundabout the heading keeps changing.
Turning ==
  /\ Current_Road = "Circule"
  /\ \E l, r \in Features, d \in Turns \ {0} : RingFrame(l, r, d)
FairSpec == Spec /\ SF_vars(Turning)
-----------------------------------------------------------------------------
\* Between two frames the element and the static states of the handlers agree:
\* the roundabout's state machine is at rest exactly when no roundabout is being
\* handled, and so is the crossing's.  Otherwise the next roundabout would be
\* entered without choosing its side, or the next crossing ended at its start.
SymbolStateAgrees ==
  /\ Current_Road = "Circule" <=> ring.state # "Begin"
  /\ cross = "State1" => Current_Road = "Cross"

Leaves == Current_Road = "Circule" /\ Current_Road' = "Normal"

\* A roundabout is given up only after three consecutive frames, all of this
\* roundabout, without a straight far border, although the count is a static
\* variable that nothing resets when a roundabout is entered or passed.
DeniedInARow == [][Leaves /\ ring.state \in {"State1", "State2"} => bent' = 3]_vars

\* A roundabout that is driven through is left only after the car has turned, to one
\* side or the other, by more than the three angles together, counted from where this
\* roundabout was entered; also when boxes are pushed on the way.
RingTurned ==
  [][Leaves /\ ring.state \notin {"State1", "State2"} => total' > WholeTurn]_vars

\* The frames of one zebra crossing count once: the run is over only at a
\* crossing more than 5000 ticks after the first one (or when the shell said
\* that the first one was passed).
FinishIsLate == finished => lap \in {"late", "shell"}

\* Within a state of the roundabout the heading does not go back: to side 1 it does
\* not fall, to side -1 it does not rise.
TurnsOnlyTo(side) ==
  [][ring.state = ring'.state /\ Current_Road = "Circule" => side * (turn' - turn) >= 0]_vars

\* A roundabout that has been entered is left again if in the end the car turns to
\* one side only.
RingEnds ==
  \A side \in {1, -1} :
    <>TurnsOnlyTo(side) => (ring.state = "State3" ~> Current_Road = "Normal")

\* The first state of a roundabout has no time limit (my_vision.c line 916), but
\* it cannot hold the car by itself: it is left, unless the near border comes
\* back into sight again and again.
RingEntryDecided == []<>(ring.state # "State1" \/ ring.tick = 0)

\* Whatever the frames, Vision_RSHandle leaves handler and element in agreement, and
\* its counters tick and out_n, which are compared for equality with their limits,
\* never pass them.
StatesAgree == TypeOK /\ SymbolStateAgrees

\* No state of a roundabout (Vision_Cir_PI_Handle) holds the car for ever.
RingLeft == RingEnds /\ RingEntryDecided

\* my_vision.c line 59: CornerState1 is "arcs on both sides".
CornerIsTwoSided == corner # "one"
=============================================================================
