-------------------------- MODULE RoadSymbolProofs --------------------------
(***************************************************************************)
(* Proofs about RoadSymbol, for every set of turns between two frames, of  *)
(* any size and to either side, and every sequence of border shapes.       *)
(***************************************************************************)
EXTENDS RoadSymbol, TLAPS

\* While a roundabout is handled the static count of denials is the number of
\* denials seen in this roundabout.
Counted == ring.state # "Begin" => bent = out_n

\* How far the car has turned, state by state: the angle of each state is counted
\* from zero, the way to it is at least as long, and the states before it have taken
\* more than their angles.  Before State3 nothing is known of the angle, which is
\* what the last roundabout left.
Angles ==
  /\ ring.state = "State3" => Abs(turn) <= 65 /\ total >= Abs(turn)
  /\ ring.state = "Cor" => Abs(turn) <= 170 /\ total > 65 + Abs(turn)
  /\ ring.state = "out" => Abs(turn) <= 50 /\ total > 65 + 170 + Abs(turn)

\* What is known of the first zebra crossing.
Laps ==
  /\ Start_Flag = 0 <=> lap = "none"
  /\ lap = "early" => late = 0
  /\ FinishIsLate

IInv == TypeOK /\ SymbolStateAgrees /\ Counted /\ Angles /\ Laps

Ring == [state : {"Begin", "State1", "State2", "State3", "Cor", "out"},
         tick : 0 .. 4, LorR : {"L", "R"}]

Far(c, l, r) == Seg(IF c.LorR = "L" THEN r ELSE l, 0)
Near(c, l, r) == Seg(IF c.LorR = "L" THEN l ELSE r, 0)

\* The invariant holds at start-up, from the initialisers of the static variables.
THEOREM Initially == Init => IInv
<1> SUFFICES ASSUME Init PROVE IInv
  OBVIOUS
<1>1. TypeOK
  <2>1. ring \in Ring
    BY DEF Init, Ring
  <2>2. finished \in BOOLEAN
    BY DEF Init
  <2>3. out_n \in 0 .. 2 /\ turn \in Int /\ bent \in 0 .. 3 /\ total \in 0 .. WholeTurn + 1
    BY DEF Init, WholeTurn
  <2>4. cir_speed_flag \in {0, 1} /\ Start_Flag \in {0, 1} /\ late \in {0, 1}
    BY DEF Init
  <2> QED
    BY <2>1, <2>2, <2>3, <2>4, Zenon DEF Init, TypeOK, Ring
<1>2. SymbolStateAgrees /\ Counted
  BY DEF Init, SymbolStateAgrees, Counted
<1>3. Angles
  BY DEF Init, Angles
<1>4. Laps
  BY DEF Init, Laps, FinishIsLate
<1> QED
  BY <1>1, <1>2, <1>3, <1>4 DEF IInv
-----------------------------------------------------------------------------
(* A frame of a roundabout.                                                 *)

\* The first frame of a roundabout chooses the side whose border is broken, so the
\* border on the other side is straight: it is not among the denials.
LEMMA EnteredRing ==
  ASSUME IInv, NEW l, NEW r, FrameOf("Circule", l, r, FALSE)
  PROVE  /\ Entered(l, r) \in Ring
         /\ Entered(l, r).state # "Begin"
         /\ ring.state # "Begin" => Entered(l, r) = ring
         /\ ring.state = "Begin" =>
              Entered(l, r).state = "State1" /\ Far(Entered(l, r), l, r) = "straight"
         /\ cross = "Begin"
         /\ ~finished
<1>1. CASE ring.state # "Begin"
  BY <1>1 DEF IInv, TypeOK, SymbolStateAgrees, Entered, FrameOf, Ring
<1>2. CASE ring.state = "Begin"
  <2>1. Current_Road # "Circule"
    BY <1>2 DEF IInv, SymbolStateAgrees
  <2>2. Current_Road = "Normal" /\ Roundabout(l, r)
    BY <2>1 DEF FrameOf, Vision_SymbolJudge, IInv, TypeOK
  <2>3. cross = "Begin"
    BY <2>2 DEF IInv, TypeOK, SymbolStateAgrees
  <2>4. \/ N(l) = 1 /\ Seg(l, 0) = "straight"
        \/ N(r) = 1 /\ Seg(r, 0) = "straight"
    BY <2>2 DEF Roundabout
  <2>5. CASE N(l) = 1 /\ Seg(l, 0) = "straight"
    <3>1. Entered(l, r) = [state |-> "State1", tick |-> 0, LorR |-> "R"]
      BY <1>2, <2>5 DEF Entered
    <3> QED
      BY <1>2, <2>3, <2>5, <3>1 DEF Far, Ring, FrameOf
  <2>6. CASE ~(N(l) = 1 /\ Seg(l, 0) = "straight")
    <3>1. Entered(l, r) = [state |-> "State1", tick |-> 0, LorR |-> "L"]
      BY <1>2, <2>4, <2>6 DEF Entered
    <3> QED
      BY <1>2, <2>3, <2>4, <2>6, <3>1 DEF Far, Ring, FrameOf
  <2> QED
    BY <2>5, <2>6
<1> QED
  BY <1>1, <1>2

\* The third denial in a row gives the roundabout up, and it is the third in this
\* roundabout.
LEMMA DenialKeeps ==
  ASSUME TurnAssumption, IInv, NEW l, NEW r, RingDenied(l, r)
  PROVE  IInv' /\ bent' = 3
<1> DEFINE c == Entered(l, r)
           denied == Far(c, l, r) # "straight"
<1>1. /\ FrameOf("Circule", l, r, FALSE)
      /\ Watched(c) /\ Denials(denied) = 3
      /\ bent' = DenialsHere(denied)
      /\ Current_Road' = "Normal"
      /\ ring' = [c EXCEPT !.state = "Begin"]
      /\ out_n' = 0
      /\ cir_speed_flag' = 0
      /\ UNCHANGED <<turn, total, cross, zebraVars>>
  BY DEF RingDenied, Far
<1>2. /\ c \in Ring
      /\ ring.state # "Begin" => c = ring
      /\ ring.state = "Begin" => Far(c, l, r) = "straight"
      /\ cross = "Begin"
  BY <1>1, EnteredRing
<1> HIDE DEF c
<1>3. denied /\ out_n = 2
  BY <1>1 DEF Denials, IInv, TypeOK
<1>4. ring.state # "Begin" /\ c = ring
  BY <1>2, <1>3
<1>5. bent' = 3
  BY <1>1, <1>3, <1>4 DEF IInv, Counted, DenialsHere
<1>6. ring' \in Ring /\ ring'.state = "Begin"
  BY <1>1, <1>2 DEF Ring
<1>7. TypeOK'
  <2>1. corner' \in {"none", "one", "both"}
    BY <1>1 DEF FrameOf
  <2> QED
    BY <1>1, <1>5, <1>6, <2>1 DEF IInv, TypeOK, Ring, zebraVars
<1>8. SymbolStateAgrees' /\ Counted'
  BY <1>1, <1>2, <1>6 DEF SymbolStateAgrees, Counted
<1>9. Angles'
  BY <1>6 DEF Angles
<1>10. Laps'
  BY <1>1 DEF IInv, Laps, FinishIsLate, zebraVars
<1> QED
  BY <1>5, <1>7, <1>8, <1>9, <1>10 DEF IInv

\* The next state of a roundabout, with the count of frames begun anew.
LEMMA Advanced ==
  ASSUME NEW c \in Ring, NEW next \in {"State2", "State3"}
  PROVE  LET n == [c EXCEPT !.state = next, !.tick = 0] IN n \in Ring /\ n.state = next
<1> DEFINE m == [c EXCEPT !.state = next]
<1>1. m \in Ring /\ m.state = next
  BY DEF Ring
<1> HIDE DEF m
<1>2. [m EXCEPT !.tick = 0] \in Ring /\ [m EXCEPT !.tick = 0].state = next
  BY <1>1 DEF Ring
<1>3. [c EXCEPT !.state = next, !.tick = 0] = [m EXCEPT !.tick = 0]
  BY DEF m, Ring
<1> QED
  BY <1>2, <1>3

\* What a frame leaves of the roundabout's state: element and state machine agree,
\* and the angles add up.  Only the last state ends the roundabout.
Moved ==
  /\ ring' \in Ring
  /\ Current_Road' \in {"Circule", "Normal"}
  /\ Current_Road' = "Circule" <=> ring'.state # "Begin"
  /\ turn' \in Int /\ total' \in 0 .. WholeTurn + 1
  /\ Angles'
  /\ Current_Road' = "Normal" => ring.state = "out" /\ total' > WholeTurn

\* The way turned grows by at least what the angle from init_angle does, up to the
\* limit of the history variable.
LEMMA WayGrows ==
  ASSUME NEW d \in Int, TypeOK
  PROVE  /\ Turned(d) \in 0 .. WholeTurn + 1
         /\ turn + d \in Int /\ Abs(turn + d) \in Int /\ Abs(turn) \in Int
         /\ Abs(turn + d) >= 0
         /\ \/ Turned(d) = WholeTurn + 1
            \/ Turned(d) - Abs(turn + d) >= total - Abs(turn)
<1>1. turn \in Int /\ total \in 0 .. WholeTurn + 1
  BY DEF TypeOK
<1> QED
  BY <1>1 DEF Turned, Abs, WholeTurn

\* The handler of the state moves the roundabout on as Moved says.
LEMMA HandlerMoves ==
  ASSUME TurnAssumption, IInv, NEW c \in Ring, NEW gone, NEW d \in Turns,
         ring.state # "Begin" => c = ring,
         ring.state = "Begin" => c.state = "State1",
         c.state # "Begin",
         Vision_Cir_PI_Handle(c, gone, d)
  PROVE  Moved
<1>1. /\ Turned(d) \in 0 .. WholeTurn + 1
      /\ turn + d \in Int /\ Abs(turn + d) \in Int /\ Abs(turn) \in Int
      /\ Abs(turn + d) >= 0
      /\ \/ Turned(d) = WholeTurn + 1
         \/ Turned(d) - Abs(turn + d) >= total - Abs(turn)
  <2>1. d \in Int
    BY DEF TurnAssumption
  <2> QED
    BY <2>1, WayGrows DEF IInv
<1>2. turn \in Int /\ total \in 0 .. WholeTurn + 1 /\ Abs(0) = 0
  BY DEF IInv, TypeOK, Abs
<1>3. CASE c.state = "State1" /\ CirState1(c, gone)
  <2>1. UNCHANGED <<turn, total>> /\ Current_Road' = "Circule"
    BY <1>3 DEF CirState1
  <2>2. ring' \in Ring /\ ring'.state \in {"State1", "State2"}
    <3>1. CASE ~gone
      BY <1>3, <3>1 DEF CirState1, Ring
    <3>2. CASE gone /\ c.tick + 1 = 5
      <4>1. ring' = [c EXCEPT !.state = "State2", !.tick = 0]
        BY <1>3, <3>2 DEF CirState1
      <4> QED
        BY <4>1, Advanced
    <3>3. CASE gone /\ c.tick + 1 # 5
      <4>1. c.tick + 1 \in 0 .. 4
        BY <3>3 DEF Ring
      <4>2. ring' = [c EXCEPT !.tick = c.tick + 1]
        BY <1>3, <3>3 DEF CirState1
      <4> QED
        BY <1>3, <4>1, <4>2 DEF Ring
    <3> QED
      BY <3>1, <3>2, <3>3
  <2> QED
    BY <1>2, <2>1, <2>2 DEF Moved, Angles
<1>4. CASE c.state = "State2" /\ CirState2(c)
  <2>1. ring' \in Ring /\ ring'.state = "State3"
    BY <1>4, Advanced DEF CirState2
  <2>2. turn' = 0 /\ total' = 0 /\ Current_Road' = "Circule"
    BY <1>4 DEF CirState2
  <2>3. Angles'
    BY <1>2, <2>1, <2>2 DEF Angles
  <2> QED
    BY <2>1, <2>2, <2>3 DEF Moved, WholeTurn
<1>5. CASE c.state = "State3" /\ CirState3(c, d)
  <2>1. c = ring /\ Abs(turn) <= 65 /\ total >= Abs(turn)
    BY <1>5 DEF IInv, Angles
  <2>2. total' = Turned(d) /\ Current_Road' = "Circule"
    BY <1>5 DEF CirState3, TurnsTo
  <2>3. CASE Abs(turn + d) > 65
    <3>1. ring' = [c EXCEPT !.state = "Cor"] /\ turn' = 0
      BY <1>5, <2>3 DEF CirState3, TurnsTo
    <3>2. ring' \in Ring /\ ring'.state = "Cor"
      BY <3>1 DEF Ring
    <3>3. Abs(turn)' = 0
      BY <1>2, <3>1
    <3>4. Angles'
      BY <1>1, <1>2, <2>1, <2>2, <2>3, <3>2, <3>3 DEF Angles, WholeTurn
    <3> QED
      BY <1>1, <2>2, <3>1, <3>2, <3>4 DEF Moved
  <2>4. CASE ~(Abs(turn + d) > 65)
    <3>1. ring' = c /\ turn' = turn + d
      BY <1>5, <2>4 DEF CirState3, TurnsTo
    <3>2. Angles'
      BY <1>1, <1>2, <1>5, <2>1, <2>2, <2>4, <3>1 DEF Angles, WholeTurn
    <3> QED
      BY <1>1, <1>5, <2>2, <3>1, <3>2 DEF Moved
  <2> QED
    BY <2>3, <2>4
<1>6. CASE c.state = "Cor" /\ CirCor(c, d)
  <2>1. c = ring /\ Abs(turn) <= 170 /\ total > 65 + Abs(turn)
    BY <1>6 DEF IInv, Angles
  <2>2. total' = Turned(d) /\ Current_Road' = "Circule"
    BY <1>6 DEF CirCor, TurnsTo
  <2>3. CASE Abs(turn + d) > 170
    <3>1. ring' = [c EXCEPT !.state = "out"] /\ turn' = 0
      BY <1>6, <2>3 DEF CirCor, TurnsTo
    <3>2. ring' \in Ring /\ ring'.state = "out"
      BY <3>1 DEF Ring
    <3>3. Abs(turn)' = 0
      BY <1>2, <3>1
    <3>4. Angles'
      BY <1>1, <1>2, <2>1, <2>2, <2>3, <3>2, <3>3 DEF Angles, WholeTurn
    <3> QED
      BY <1>1, <2>2, <3>1, <3>2, <3>4 DEF Moved
  <2>4. CASE ~(Abs(turn + d) > 170)
    <3>1. ring' = c /\ turn' = turn + d
      BY <1>6, <2>4 DEF CirCor, TurnsTo
    <3>2. Angles'
      BY <1>1, <1>2, <1>6, <2>1, <2>2, <2>4, <3>1 DEF Angles, WholeTurn
    <3> QED
      BY <1>1, <1>6, <2>2, <3>1, <3>2 DEF Moved
  <2> QED
    BY <2>3, <2>4
<1>7. CASE c.state = "out" /\ CirOut(c, d)
  <2>1. c = ring /\ Abs(turn) <= 50 /\ total > 65 + 170 + Abs(turn)
    BY <1>7 DEF IInv, Angles
  <2>2. total' = Turned(d) /\ turn' = turn + d
    BY <1>7 DEF CirOut
  <2>3. CASE Abs(turn + d) > 50
    <3>1. ring' = [c EXCEPT !.state = "Begin"] /\ Current_Road' = "Normal"
      BY <1>7, <2>3 DEF CirOut
    <3>2. ring' \in Ring /\ ring'.state = "Begin"
      BY <3>1 DEF Ring
    <3>3. total' > WholeTurn
      BY <1>1, <1>2, <2>1, <2>2, <2>3 DEF WholeTurn
    <3> QED
      BY <1>1, <1>7, <2>1, <2>2, <3>1, <3>2, <3>3 DEF Moved, Angles
  <2>4. CASE ~(Abs(turn + d) > 50)
    <3>1. ring' = c /\ Current_Road' = "Circule"
      BY <1>7, <2>4 DEF CirOut
    <3>2. Angles'
      BY <1>1, <1>2, <1>7, <2>1, <2>2, <2>4, <3>1 DEF Angles, WholeTurn
    <3> QED
      BY <1>1, <1>7, <2>2, <3>1, <3>2 DEF Moved
  <2> QED
    BY <2>3, <2>4
<1> QED
  BY <1>3, <1>4, <1>5, <1>6, <1>7 DEF Vision_Cir_PI_Handle

\* Every other frame of a roundabout.
LEMMA RingKeeps ==
  ASSUME TurnAssumption, IInv, NEW l, NEW r, NEW d \in Turns, RingFrame(l, r, d)
  PROVE  IInv' /\ Moved
<1> DEFINE c == Entered(l, r)
           denied == Far(c, l, r) # "straight"
           gone == Near(c, l, r) = "lose"
<1>1. /\ FrameOf("Circule", l, r, FALSE)
      /\ IF Watched(c)
         THEN /\ Denials(denied) # 3
              /\ out_n' = Denials(denied)
              /\ bent' = DenialsHere(denied)
         ELSE UNCHANGED <<out_n, bent>>
      /\ Vision_Cir_PI_Handle(c, gone, d)
      /\ UNCHANGED <<cross, zebraVars>>
  BY DEF RingFrame, Far, Near
<1>2. /\ c \in Ring /\ c.state # "Begin"
      /\ ring.state # "Begin" => c = ring
      /\ ring.state = "Begin" => c.state = "State1" /\ Far(c, l, r) = "straight"
      /\ cross = "Begin"
  BY <1>1, EnteredRing
<1> HIDE DEF c, gone
<1>3. Moved
  BY <1>1, <1>2, HandlerMoves
<1>4. out_n' \in 0 .. 2 /\ bent' \in 0 .. 3 /\ bent' = out_n'
  <2>1. CASE Watched(c) /\ denied
    <3>1. ring.state # "Begin" /\ bent = out_n
      BY <1>2, <2>1 DEF IInv, Counted
    <3>2. out_n' = out_n + 1 /\ bent' = bent + 1 /\ out_n + 1 # 3
      BY <1>1, <2>1, <3>1 DEF Denials, DenialsHere
    <3> QED
      BY <3>1, <3>2 DEF IInv, TypeOK
  <2>2. CASE Watched(c) /\ ~denied
    BY <1>1, <2>2 DEF Denials, DenialsHere
  <2>3. CASE ~Watched(c)
    <3>1. ring.state # "Begin" /\ bent = out_n
      BY <1>2, <2>3 DEF Watched, IInv, Counted
    <3> QED
      BY <1>1, <2>3, <3>1 DEF IInv, TypeOK
  <2> QED
    BY <2>1, <2>2, <2>3
<1>5. TypeOK'
  <2>1. corner' \in {"none", "one", "both"}
    BY <1>1 DEF FrameOf
  <2>2. cir_speed_flag' \in {0, 1}
    BY <1>1 DEF Vision_Cir_PI_Handle
  <2>3. Current_Road' \in {"Normal", "Cross", "Circule"} /\ ring' \in Ring
        /\ turn' \in Int /\ total' \in 0 .. WholeTurn + 1
    BY <1>3 DEF Moved
  <2> QED
    BY <1>1, <1>4, <2>1, <2>2, <2>3 DEF IInv, TypeOK, Ring, zebraVars
<1>6. SymbolStateAgrees'
  BY <1>1, <1>2, <1>3 DEF Moved, SymbolStateAgrees
<1>7. Counted' /\ Angles'
  BY <1>3, <1>4 DEF Counted, Moved
<1>8. Laps'
  BY <1>1 DEF IInv, Laps, FinishIsLate, zebraVars
<1> QED
  BY <1>3, <1>5, <1>6, <1>7, <1>8 DEF IInv
-----------------------------------------------------------------------------
(* The other frames.                                                        *)

\* A frame without element, or of a corner, changes no handler's state.
LEMMA OrdinaryKeeps ==
  ASSUME IInv, NEW l, NEW r, OrdinaryFrame(l, r)
  PROVE  IInv'
<1>1. Current_Road' = "Normal" /\ UNCHANGED <<ringVars, cross, zebraVars>>
  BY DEF OrdinaryFrame
<1>2. Current_Road = "Normal"
  BY DEF OrdinaryFrame, FrameOf, Vision_SymbolJudge, IInv, TypeOK
<1>3. corner' \in {"none", "one", "both"}
  BY DEF OrdinaryFrame, FrameOf
<1>4. TypeOK'
  BY <1>1, <1>3 DEF IInv, TypeOK, ringVars, zebraVars
<1>5. SymbolStateAgrees' /\ Counted' /\ Angles'
  BY <1>1, <1>2 DEF IInv, SymbolStateAgrees, Counted, Angles, ringVars
<1>6. Laps'
  BY <1>1 DEF IInv, Laps, FinishIsLate, zebraVars
<1> QED
  BY <1>4, <1>5, <1>6 DEF IInv

\* A frame of a crossing leaves it only with its handler back at the beginning.
LEMMA CrossKeeps ==
  ASSUME IInv, NEW l, NEW r, CrossFrame(l, r)
  PROVE  IInv'
<1>1. Vision_CrossHandle(l, r) /\ UNCHANGED <<ringVars, zebraVars>>
  BY DEF CrossFrame
<1>2. Current_Road \in {"Normal", "Cross"}
  BY DEF CrossFrame, FrameOf, Vision_SymbolJudge, IInv, TypeOK
<1>3. corner' \in {"none", "one", "both"}
  BY DEF CrossFrame, FrameOf
<1>4. /\ Current_Road' \in {"Normal", "Cross"} /\ cross' \in {"Begin", "State1"}
      /\ cross' = "State1" => Current_Road' = "Cross"
  <2>1. cross \in {"Begin", "State1"}
    BY DEF IInv, TypeOK
  <2>2. CASE cross = "Begin"
    BY <1>1, <2>2 DEF Vision_CrossHandle
  <2>3. CASE cross = "State1"
    BY <1>1, <2>3 DEF Vision_CrossHandle
  <2> QED
    BY <2>1, <2>2, <2>3
<1>5. TypeOK'
  BY <1>1, <1>3, <1>4 DEF IInv, TypeOK, ringVars, zebraVars
<1>6. SymbolStateAgrees' /\ Counted' /\ Angles'
  BY <1>1, <1>2, <1>4 DEF IInv, SymbolStateAgrees, Counted, Angles, ringVars
<1>7. Laps'
  BY <1>1 DEF IInv, Laps, FinishIsLate, zebraVars
<1> QED
  BY <1>5, <1>6, <1>7 DEF IInv

\* A frame of a zebra crossing counts the first crossing, or finishes late enough.
LEMMA ZebraKeeps ==
  ASSUME IInv, NEW l, NEW r, ZebraFrame(l, r)
  PROVE  IInv'
<1>1. /\ ~finished /\ Current_Road' = "Normal" /\ UNCHANGED <<ringVars, cross>>
      /\ FirstZebra \/ SameZebra \/ LastZebra
  BY DEF ZebraFrame, FrameOf
<1>2. Current_Road = "Normal"
  BY DEF ZebraFrame, FrameOf, Vision_SymbolJudge, IInv, TypeOK
<1>3. corner' \in {"none", "one", "both"}
  BY DEF ZebraFrame, FrameOf
<1>4. /\ Start_Flag' \in {0, 1} /\ late' \in {0, 1} /\ finished' \in BOOLEAN
      /\ lap' \in {"none", "early", "late", "shell"} /\ Laps'
  <2>1. CASE FirstZebra
    BY <1>1, <2>1 DEF FirstZebra, Laps, FinishIsLate, IInv, TypeOK
  <2>2. CASE SameZebra
    BY <1>1, <2>2 DEF SameZebra, Laps, FinishIsLate, IInv, TypeOK, zebraVars
  <2>3. CASE LastZebra
    <3>1. Start_Flag = 1 /\ late = 1 /\ finished' = TRUE /\ UNCHANGED <<Start_Flag, late, lap>>
      BY <2>3 DEF LastZebra
    <3>2. lap \in {"late", "shell"}
      BY <3>1 DEF IInv, TypeOK, Laps
    <3> QED
      BY <3>1, <3>2 DEF IInv, TypeOK, Laps, FinishIsLate
  <2> QED
    BY <1>1, <2>1, <2>2, <2>3
<1>5. TypeOK'
  BY <1>1, <1>3, <1>4 DEF IInv, TypeOK, ringVars
<1>6. SymbolStateAgrees' /\ Counted' /\ Angles'
  BY <1>1, <1>2 DEF IInv, SymbolStateAgrees, Counted, Angles, ringVars
<1> QED
  BY <1>4, <1>5, <1>6 DEF IInv

\* Time and the shell command touch only what is known of the zebra crossings.
LEMMA OthersKeep ==
  ASSUME IInv, TimePasses \/ ShellCarStart
  PROVE  IInv'
<1>1. UNCHANGED <<Current_Road, ringVars, cross, finished, corner>>
  BY DEF TimePasses, ShellCarStart
<1>2. /\ Start_Flag' \in {0, 1} /\ late' \in {0, 1}
      /\ lap' \in {"none", "early", "late", "shell"} /\ Laps'
  <2>1. CASE TimePasses
    BY <2>1 DEF TimePasses, Laps, FinishIsLate, IInv, TypeOK
  <2>2. CASE ShellCarStart
    BY <2>2 DEF ShellCarStart, Laps, FinishIsLate, IInv, TypeOK
  <2> QED
    BY <2>1, <2>2
<1>3. TypeOK'
  BY <1>1, <1>2 DEF IInv, TypeOK, ringVars
<1>4. SymbolStateAgrees' /\ Counted' /\ Angles'
  BY <1>1 DEF IInv, SymbolStateAgrees, Counted, Angles, ringVars
<1> QED
  BY <1>2, <1>3, <1>4 DEF IInv
-----------------------------------------------------------------------------
\* Every step keeps the invariant.
LEMMA StepKeeps == TurnAssumption /\ IInv /\ [Next]_vars => IInv'
<1> SUFFICES ASSUME TurnAssumption, IInv, [Next]_vars PROVE IInv'
  OBVIOUS
<1>1. CASE Frame
  <2>1. PICK l, r \in Features :
          \/ OrdinaryFrame(l, r) \/ CrossFrame(l, r) \/ ZebraFrame(l, r) \/ RingDenied(l, r)
          \/ \E d \in Turns : RingFrame(l, r, d)
    BY <1>1 DEF Frame
  <2> QED
    BY <2>1, OrdinaryKeeps, CrossKeeps, ZebraKeeps, DenialKeeps, RingKeeps
<1>2. CASE TimePasses \/ ShellCarStart
  BY <1>2, OthersKeep
<1>3. CASE UNCHANGED vars
  <2>1. TypeOK'
    BY <1>3 DEF IInv, TypeOK, vars, ringVars, zebraVars
  <2>2. SymbolStateAgrees' /\ Counted' /\ Angles' /\ Laps'
    BY <1>3 DEF IInv, SymbolStateAgrees, Counted, Angles, Laps, FinishIsLate,
                vars, ringVars, zebraVars
  <2> QED
    BY <2>1, <2>2 DEF IInv
<1> QED
  BY <1>1, <1>2, <1>3 DEF Next, Done

\* The invariant holds in every reachable state, for every sequence of borders.
THEOREM InductiveInvariant == Spec => []IInv
<1>1. IInv /\ [Next]_vars => IInv'
  BY StepKeeps, TurnAssumption
<1> QED
  BY Initially, <1>1, PTL DEF Spec

\* Handler and element agree after every frame (Vision_RSHandle), and the counters
\* that are compared for equality never pass their limits.
THEOREM ElementsAgree == Spec => []StatesAgree
<1>1. IInv => StatesAgree
  BY DEF IInv, StatesAgree
<1> QED
  BY <1>1, InductiveInvariant, PTL

\* The frames of one zebra crossing count once (Vision_ZebraHandle).
THEOREM OneLap == Spec => []FinishIsLate
<1>1. IInv => FinishIsLate
  BY DEF IInv, Laps
<1> QED
  BY <1>1, InductiveInvariant, PTL

\* Only RingDenied and the last state of a roundabout lead out of it.
LEMMA WaysOut ==
  ASSUME TurnAssumption, IInv, Next, Leaves
  PROVE  \/ bent' = 3 /\ ring.state \in {"State1", "State2"}
         \/ ring.state = "out" /\ Moved
<1>1. Current_Road = "Circule" /\ Current_Road' = "Normal" /\ ring.state # "Begin"
  BY DEF Leaves, IInv, SymbolStateAgrees
<1>2. ~(TimePasses \/ ShellCarStart \/ Done)
  BY <1>1 DEF TimePasses, ShellCarStart, Done, vars
<1>3. PICK l, r \in Features :
        \/ OrdinaryFrame(l, r) \/ CrossFrame(l, r) \/ ZebraFrame(l, r) \/ RingDenied(l, r)
        \/ \E d \in Turns : RingFrame(l, r, d)
  BY <1>2 DEF Next, Frame
<1>4. ~(OrdinaryFrame(l, r) \/ CrossFrame(l, r) \/ ZebraFrame(l, r))
  BY <1>1 DEF OrdinaryFrame, CrossFrame, ZebraFrame, FrameOf, Vision_SymbolJudge
<1>5. CASE RingDenied(l, r)
  <2>1. Entered(l, r) = ring
    BY <1>1 DEF Entered
  <2>2. Watched(ring)
    BY <1>5, <2>1 DEF RingDenied
  <2> QED
    BY <1>5, <2>2, DenialKeeps DEF Watched
<1>6. CASE \E d \in Turns : RingFrame(l, r, d)
  BY <1>1, <1>6, RingKeeps DEF Moved
<1> QED
  BY <1>3, <1>4, <1>5, <1>6

\* A roundabout is given up only on three frames in a row of this roundabout that
\* deny it, whatever out_n was left at by earlier ones.
THEOREM GivenUpOnThree == Spec => DeniedInARow
<1>1. IInv /\ [Next]_vars => [Leaves /\ ring.state \in {"State1", "State2"} => bent' = 3]_vars
  BY WaysOut, TurnAssumption
<1> QED
  BY <1>1, InductiveInvariant, PTL DEF Spec, DeniedInARow

\* A roundabout that is driven through is left only after more than the three angles
\* together, for every sequence of turns, back and forth, with or without a box pushed
\* on the way.
THEOREM LeftAfterTheTurn == Spec => RingTurned
<1>1. IInv /\ [Next]_vars =>
        [Leaves /\ ring.state \notin {"State1", "State2"} => total' > WholeTurn]_vars
  <2> SUFFICES ASSUME IInv, Next, Leaves, ring.state \notin {"State1", "State2"}
               PROVE  total' > WholeTurn
    OBVIOUS
  <2>1. Moved /\ Current_Road' = "Normal"
    BY WaysOut, TurnAssumption DEF Leaves
  <2> QED
    BY <2>1 DEF Moved
<1> QED
  BY <1>1, InductiveInvariant, PTL DEF Spec, RingTurned
=============================================================================
