---------------------------- MODULE Pilot_proofs ----------------------------
(***************************************************************************)
(* For every number of laps: the types, the laps flown and the order of    *)
(* the waypoints.                                                          *)
(***************************************************************************)
EXTENDS Pilot, TLAPS

\* The laps of the first mission are counted from 1, those of the others from
\* 0; the waypoints flown are what the counters say.
FirstLap == IF first THEN 1 ELSE 0

MissionInv ==
  /\ WP_final_yaw => WP_go_home /\ homed
  /\ WP_go_home => flown = 4 * (WP_max_laps + 1 - FirstLap)
  /\ ~WP_go_home => /\ FirstLap <= WP_lap_count
                    /\ flown = 4 * (WP_lap_count - FirstLap) + Count - 1
                    /\ WP_count # 0 => WPcur = WP_count

----------------------------------------------------------------------------

\* The initial values have their types.
LEMMA InitTyped == Init => TypeOK
<1> SUFFICES ASSUME Init PROVE TypeOK
  OBVIOUS
<1>1. HeadingErr_hist \in [1..2 -> {"finite", "+inf", "-inf"}]
  <2>1. HeadingErr_hist = [i \in 1..2 |-> "finite"]
    BY DEF Init
  <2> QED
    BY <2>1
<1>2. WP_lap_count \in 0..WP_max_laps
  BY PilotAssumption DEF PilotAssumption, Init
<1>3. speed \in -KeySteps..KeySteps /\ turn \in -KeySteps..KeySteps
  BY PilotAssumption DEF PilotAssumption, Init
<1>4. /\ program \in Programs /\ pc \in {"sense", "key", "steer", "quit"}
      /\ place \in Places /\ yaw \in {"0", "90", "other"}
      /\ Pcmd \in {Home, PlaceP, PlaceW} /\ WP_count \in 0..4
      /\ WPcur \in 0..4 /\ cycle_count \in 0..3 /\ flown \in Nat
      /\ TurnRadiusCmd_hist \in {"finite", "+inf", "-inf", "nan"}
  BY DEF Init, Places, Home
<1>5. /\ moving \in BOOLEAN /\ heading_cmd \in BOOLEAN
      /\ posCmd_start \in BOOLEAN /\ waypointCmd_start \in BOOLEAN
      /\ WP_go_home \in BOOLEAN /\ WP_final_yaw \in BOOLEAN
      /\ first \in BOOLEAN /\ homed \in BOOLEAN
  BY Zenon DEF Init
<1> QED
  BY <1>1, <1>2, <1>3, <1>4, <1>5 DEF TypeOK

\* What the controller's arithmetic leaves is in its types.
LEMMA LawTyped ==
  ASSUME TypeOK, SpeedHeadingCommand
  PROVE  /\ cycle_count' \in 0..3
         /\ HeadingErr_hist' \in [1..2 -> {"finite", "+inf", "-inf"}]
         /\ TurnRadiusCmd_hist' \in {"finite", "+inf", "-inf", "nan"}
<1> PICK err \in {"finite", "+inf", "-inf"} : Steer(err)
  BY DEF SpeedHeadingCommand, CorrectedErrs
<1>1. cycle_count' \in 0..3
  BY DEF TypeOK, Steer, NextCycle
<1>2. HeadingErr_hist' \in [1..2 -> {"finite", "+inf", "-inf"}]
  BY DEF TypeOK, Steer
<1>3. TurnRadiusCmd_hist' \in {"finite", "+inf", "-inf", "nan"}
  BY DEF Steer, SumOf
<1> QED BY <1>1, <1>2, <1>3

\* A round that clears the histories leaves the controller typed.
LEMMA CleanTyped ==
  ASSUME TypeOK, CleanRound
  PROVE  /\ cycle_count' \in 0..3
         /\ HeadingErr_hist' \in [1..2 -> {"finite", "+inf", "-inf"}]
         /\ TurnRadiusCmd_hist' \in {"finite", "+inf", "-inf", "nan"}
  BY DEF TypeOK, CleanRound, NextCycle

\* So does a round on the way home.
LEMMA HomeTyped ==
  ASSUME TypeOK, HomeLaw
  PROVE  /\ cycle_count' \in 0..3
         /\ HeadingErr_hist' \in [1..2 -> {"finite", "+inf", "-inf"}]
         /\ TurnRadiusCmd_hist' \in {"finite", "+inf", "-inf", "nan"}
  BY LawTyped, CleanTyped DEF HomeLaw

\* A key moves one of the steps by one.
LEMMA StepsTyped ==
  ASSUME TypeOK,
         NEW s \in {Up(speed, turn), Down(speed, turn), Left(speed, turn),
                    Right(speed, turn)},
         Abs(s[1]) + Abs(s[2]) <= KeySteps
  PROVE  s[1] \in -KeySteps..KeySteps /\ s[2] \in -KeySteps..KeySteps
<1>1. KeySteps \in Nat /\ speed \in Int /\ turn \in Int
  BY PilotAssumption DEF PilotAssumption, TypeOK
<1>2. s[1] \in Int /\ s[2] \in Int
  BY <1>1 DEF Up, Down, Left, Right
<1> QED
  BY <1>1, <1>2 DEF Abs

\* The arrow keys keep the types.
LEMMA ArrowTyped ==
  ASSUME TypeOK,
         NEW s \in {Up(speed, turn), Down(speed, turn), Left(speed, turn),
                    Right(speed, turn)},
         Arrow(s)
  PROVE  TypeOK'
<1>1. speed' \in -KeySteps..KeySteps /\ turn' \in -KeySteps..KeySteps
  BY StepsTyped DEF Arrow
<1> QED
  BY <1>1 DEF Arrow, TypeOK, inputVars, modeVars, missionVars, lawVars

\* Of the mission's variables, as they are after a step.
MissionTyped ==
  /\ waypointCmd_start' \in BOOLEAN /\ WP_go_home' \in BOOLEAN
  /\ WP_final_yaw' \in BOOLEAN
  /\ WP_count' \in 0..4 /\ WP_lap_count' \in 0..WP_max_laps /\ WPcur' \in 0..4
  /\ flown' \in Nat /\ first' \in BOOLEAN /\ homed' \in BOOLEAN

LawOK ==
  /\ cycle_count' \in 0..3
  /\ HeadingErr_hist' \in [1..2 -> {"finite", "+inf", "-inf"}]
  /\ TurnRadiusCmd_hist' \in {"finite", "+inf", "-inf", "nan"}

\* A round of the mission keeps the types when its own variables have them.
LEMMA MissionStepTyped ==
  ASSUME TypeOK, InMission, moving' \in BOOLEAN, LawOK, MissionTyped
  PROVE  TypeOK'
  BY DEF TypeOK, InMission, LawOK, MissionTyped, inputVars, keyVars, modeVars

\* The waypoint a round steers to is one of the four, or home.
LEMMA CountTyped ==
  ASSUME TypeOK
  PROVE  Count \in 1..4 /\ Target \in 0..4
  BY DEF TypeOK, Count, Target

\* Every step keeps the types.
LEMMA NextTyped == TypeOK /\ [Next]_vars => TypeOK'
<1> SUFFICES ASSUME TypeOK, [Next]_vars PROVE TypeOK'
  OBVIOUS
<1>n. WP_max_laps \in Nat \ {0}
  BY PilotAssumption DEF PilotAssumption
<1>1. CASE Sense
  <2>1. place' \in Places
    BY <1>1 DEF Sense, TypeOK
  <2>2. yaw' \in {"0", "90", "other"}
    BY <1>1 DEF Sense, TypeOK
  <2> QED
    BY <1>1, <2>1, <2>2
    DEF Sense, TypeOK, keyVars, modeVars, missionVars, lawVars
<1>2. CASE Key
  <2>1. CASE \/ Arrow(Up(speed, turn)) \/ Arrow(Down(speed, turn))
             \/ Arrow(Left(speed, turn)) \/ Arrow(Right(speed, turn))
    BY <2>1, ArrowTyped
  <2>2. CASE NoKey
    BY <2>2 DEF NoKey, TypeOK, inputVars, keyVars, modeVars, missionVars, lawVars
  <2>3. CASE KeyN
    BY <2>3 DEF KeyN, TypeOK, inputVars, keyVars, missionVars, lawVars
  <2>4. CASE KeyP
    BY <2>4 DEF KeyP, TypeOK, inputVars, keyVars, missionVars
  <2>5. CASE KeyW
    BY <2>5 DEF KeyW, TypeOK, inputVars, keyVars
  <2>6. CASE KeyQ
    <3>1. moving' \in BOOLEAN /\ pc' = "quit"
      BY <2>6, Zenon DEF KeyQ
    <3>2. UNCHANGED <<program, inputVars, keyVars, modeVars, missionVars,
                      lawVars>>
      BY <2>6 DEF KeyQ
    <3> QED
      BY <3>1, <3>2 DEF TypeOK, inputVars, keyVars, modeVars, missionVars, lawVars
  <2> QED
    BY <1>2, <2>1, <2>2, <2>3, <2>4, <2>5, <2>6 DEF Key
<1>3. CASE HeadingControl
  BY <1>3 DEF HeadingControl, TypeOK, inputVars, keyVars, missionVars, lawVars
<1>4. CASE positionControlMode
  <2>1. LawOK
    BY <1>4, LawTyped DEF LawOK, positionControlMode
  <2>2. /\ pc' = "sense" /\ moving' = TRUE
        /\ posCmd_start' \in BOOLEAN
    BY <1>4 DEF positionControlMode
  <2>3. UNCHANGED <<program, inputVars, keyVars, heading_cmd, Pcmd, missionVars>>
    BY <1>4 DEF positionControlMode
  <2> QED
    BY <2>1, <2>2, <2>3 DEF LawOK, TypeOK, inputVars, keyVars, missionVars
<1>5. CASE ManualControl
  BY <1>5 DEF ManualControl, TypeOK, inputVars, keyVars, modeVars, missionVars,
              lawVars
<1>6. CASE FlyOn
  <2>1. LawOK
    BY <1>6, LawTyped DEF LawOK, FlyOn
  <2>2. MissionTyped
    BY <1>6, CountTyped DEF FlyOn, TypeOK, MissionTyped
  <2> QED
    BY <1>6, <2>1, <2>2, MissionStepTyped DEF FlyOn
<1>7. CASE Reach
  <2>1. LawOK
    BY <1>7, CleanTyped DEF LawOK, Reach
  <2>2. MissionTyped
    BY <1>7, CountTyped DEF Reach, TypeOK, MissionTyped
  <2> QED
    BY <1>7, <2>1, <2>2, MissionStepTyped DEF Reach
<1>8. CASE NextLap
  <2>1. LawOK
    BY <1>8, CleanTyped DEF LawOK, NextLap
  <2>2. MissionTyped
    BY <1>8, <1>n DEF NextLap, TypeOK, MissionTyped
  <2> QED
    BY <1>8, <2>1, <2>2, MissionStepTyped DEF NextLap
<1>9. CASE LastLap
  <2>1. LawOK
    BY <1>9, CleanTyped DEF LawOK, LastLap
  <2>2. MissionTyped
    BY <1>9, <1>n DEF LastLap, TypeOK, MissionTyped, Home
  <2> QED
    BY <1>9, <2>1, <2>2, MissionStepTyped DEF LastLap
<1>10. CASE GoHome
  <2>1. LawOK
    BY <1>10, HomeTyped DEF LawOK, GoHome
  <2>2. MissionTyped
    BY <1>10, <1>n DEF GoHome, TypeOK, MissionTyped, Home
  <2> QED
    BY <1>10, <2>1, <2>2, MissionStepTyped DEF GoHome
<1>11. CASE FinalYaw
  <2>1. LawOK
    BY <1>11, HomeTyped DEF LawOK, FinalYaw
  <2>2. MissionTyped
    BY <1>11, <1>n DEF FinalYaw, TypeOK, MissionTyped, Home
  <2> QED
    BY <1>11, <2>1, <2>2, MissionStepTyped DEF FinalYaw
<1>12. CASE EndMission
  <2>1. LawOK
    BY <1>12, HomeTyped DEF LawOK, EndMission
  <2>2. MissionTyped
    <3>1. /\ waypointCmd_start' \in BOOLEAN /\ WP_go_home' \in BOOLEAN
          /\ WP_final_yaw' \in BOOLEAN /\ first' \in BOOLEAN
          /\ homed' \in BOOLEAN
      BY <1>12, Zenon DEF EndMission
    <3>2. /\ WP_count' \in 0..4 /\ WP_lap_count' \in 0..WP_max_laps
          /\ WPcur' \in 0..4 /\ flown' \in Nat
      BY <1>12, <1>n DEF EndMission, Home
    <3> QED
      BY <3>1, <3>2 DEF MissionTyped
  <2>3. InMission /\ moving' \in BOOLEAN
    BY <1>12, Zenon DEF EndMission
  <2> QED
    BY <2>1, <2>2, <2>3, MissionStepTyped
<1>13. CASE UNCHANGED vars
  BY <1>13 DEF vars, TypeOK, inputVars, keyVars, modeVars, missionVars, lawVars
<1> QED
  BY <1>1, <1>2, <1>3, <1>4, <1>5, <1>6, <1>7, <1>8, <1>9, <1>10, <1>11, <1>12,
     <1>13 DEF Next, waypointControlMode

\* Every variable stays in its type: the counters of the waypoint and the lap,
\* the round counter and the classes of the controller's numbers.
THEOREM PilotTypeCorrect == Spec => []TypeOK
  BY InitTyped, NextTyped, PTL DEF Spec

----------------------------------------------------------------------------
(* The laps.  That the robot goes home after a whole number of laps is not  *)
(* inductive: until then the counters have to say how many waypoints there  *)
(* were, and they say it for the first mission and the others differently.  *)

\* No mission is under way at the start.
LEMMA InitMission == Init => MissionInv
<1> SUFFICES ASSUME Init PROVE MissionInv
  OBVIOUS
<1>1. /\ WP_count = 0 /\ WP_lap_count = 1 /\ flown = 0
      /\ ~WP_go_home /\ ~WP_final_yaw /\ first
  BY DEF Init
<1> QED
  BY <1>1 DEF MissionInv, FirstLap, Count

\* A step that leaves the mission's variables leaves the invariant.
LEMMA OtherSteps ==
  ASSUME MissionInv,
         UNCHANGED <<WP_count, WP_lap_count, WP_go_home, WP_final_yaw, WPcur,
                     flown, first, homed>>
  PROVE  MissionInv'
<1>1. FirstLap' = FirstLap /\ Count' = Count
  BY DEF FirstLap, Count
<1> QED
  BY <1>1 DEF MissionInv

\* On the way out the robot steers to the waypoint it counts.
LEMMA TargetIsCount ==
  ASSUME TypeOK, MissionInv, ~WP_go_home
  PROVE  Target = Count /\ Count \in 1..4
  BY DEF TypeOK, MissionInv, Target, Count

\* Every step keeps the mission invariant.
LEMMA NextMission == TypeOK /\ MissionInv /\ [Next]_vars => MissionInv'
<1> SUFFICES ASSUME TypeOK, MissionInv, [Next]_vars PROVE MissionInv'
  OBVIOUS
<1>t. /\ WP_max_laps \in Nat \ {0} /\ WP_lap_count \in 0..WP_max_laps
      /\ flown \in Nat /\ WP_count \in 0..4 /\ Count \in 1..4
      /\ FirstLap \in 0..1
  BY PilotAssumption, CountTyped DEF PilotAssumption, TypeOK, FirstLap
<1>1. CASE Sense \/ Key \/ HeadingControl \/ positionControlMode
           \/ ManualControl \/ UNCHANGED vars
  <2>1. UNCHANGED <<WP_count, WP_lap_count, WP_go_home, WP_final_yaw, WPcur,
                    flown, first, homed>>
    BY <1>1 DEF Sense, Key, Arrow, NoKey, KeyN, KeyP, KeyW, KeyQ,
                HeadingControl, positionControlMode, ManualControl, vars,
                missionVars
  <2> QED
    BY <2>1, OtherSteps
<1>2. CASE FlyOn
  <2>1. /\ ~WP_go_home /\ UNCHANGED <<WP_lap_count, WP_go_home, WP_final_yaw,
                                      flown, first, homed>>
        /\ WP_count' = Count /\ WPcur' = Count
    BY <1>2 DEF FlyOn
  <2>2. Count' = Count /\ FirstLap' = FirstLap
    BY <2>1, <1>t DEF Count, FirstLap
  <2> QED
    BY <2>1, <2>2, <1>t DEF MissionInv
<1>3. CASE Reach
  <2>1. /\ ~WP_go_home /\ Count < 4
        /\ UNCHANGED <<WP_lap_count, WP_go_home, WP_final_yaw, first, homed>>
        /\ WP_count' = Count + 1 /\ WPcur' = Count + 1 /\ flown' = flown + 1
    BY <1>3 DEF Reach
  <2>2. Count' = Count + 1 /\ FirstLap' = FirstLap
    BY <2>1, <1>t DEF Count, FirstLap
  <2> QED
    BY <2>1, <2>2, <1>t DEF MissionInv
<1>4. CASE NextLap
  <2>1. /\ ~WP_go_home /\ Count = 4
        /\ UNCHANGED <<WP_go_home, WP_final_yaw, first, homed>>
        /\ WP_count' = 1 /\ WPcur' = 1 /\ flown' = flown + 1
        /\ WP_lap_count' = WP_lap_count + 1
    BY <1>4 DEF NextLap
  <2>2. Count' = 1 /\ FirstLap' = FirstLap
    BY <2>1 DEF Count, FirstLap
  <2> QED
    BY <2>1, <2>2, <1>t DEF MissionInv
<1>5. CASE LastLap
  <2>1. /\ ~WP_go_home /\ Count = 4 /\ WP_lap_count >= WP_max_laps
        /\ UNCHANGED <<WP_final_yaw, first, homed>>
        /\ WP_go_home' /\ flown' = flown + 1
    BY <1>5 DEF LastLap
  <2>2. FirstLap' = FirstLap
    BY <2>1 DEF FirstLap
  <2>3. WP_lap_count = WP_max_laps
    BY <2>1, <1>t
  <2>4. flown' = 4 * (WP_max_laps + 1 - FirstLap)
    BY <2>1, <2>3, <1>t DEF MissionInv
  <2> QED
    BY <2>1, <2>2, <2>4 DEF MissionInv
<1>6. CASE GoHome
  <2>1. WP_go_home /\ UNCHANGED <<WP_go_home, WP_final_yaw, flown, first, homed>>
    BY <1>6 DEF GoHome
  <2>2. FirstLap' = FirstLap
    BY <2>1 DEF FirstLap
  <2> QED
    BY <2>1, <2>2 DEF MissionInv
<1>7. CASE FinalYaw
  <2>1. /\ WP_go_home /\ AtHome /\ UNCHANGED <<WP_go_home, flown, first>>
        /\ homed' = (homed \/ place = Home)
    BY <1>7 DEF FinalYaw
  <2>2. FirstLap' = FirstLap
    BY <2>1 DEF FirstLap
  <2>3. homed'
    BY <2>1 DEF AtHome, MissionInv
  <2> QED
    BY <2>1, <2>2, <2>3 DEF MissionInv
<1>8. CASE EndMission
  <2>1. /\ ~WP_go_home' /\ ~WP_final_yaw' /\ ~first'
        /\ WP_lap_count' = 0 /\ WP_count' = 0 /\ flown' = 0
    BY <1>8 DEF EndMission
  <2>2. FirstLap' = 0 /\ Count' = 1
    BY <2>1 DEF FirstLap, Count
  <2> QED
    BY <2>1, <2>2 DEF MissionInv
<1> QED
  BY <1>1, <1>2, <1>3, <1>4, <1>5, <1>6, <1>7, <1>8 DEF Next, waypointControlMode

\* What relates the waypoint, the lap and the flags of a mission to what has been
\* flown holds for ever, whatever the keys.
THEOREM MissionInvariant == Spec => [](TypeOK /\ MissionInv)
<1>1. Init => TypeOK /\ MissionInv
  BY InitTyped, InitMission
<1>2. TypeOK /\ MissionInv /\ [Next]_vars => (TypeOK /\ MissionInv)'
  BY NextTyped, NextMission
<1> QED
  BY <1>1, <1>2, PTL DEF Spec

\* For every number of laps, the robot turns home after WP_max_laps of them in
\* the first mission and after one more in every later one.
THEOREM WholeLaps == Spec => []LapsFlown
<1>1. TypeOK /\ MissionInv => LapsFlown
  BY PilotAssumption DEF PilotAssumption, MissionInv, LapsFlown, FirstLap
<1> QED
  BY <1>1, MissionInvariant, PTL

\* The last turn is only for a robot that has been at home since its last
\* waypoint.
THEOREM HomeFirst == Spec => []HomeBeforeEnd
<1>1. TypeOK /\ MissionInv => HomeBeforeEnd
  BY DEF MissionInv, HomeBeforeEnd
<1> QED
  BY <1>1, MissionInvariant, PTL

\* Only a round that reaches a waypoint counts one.
LEMMA CountsReached ==
  ASSUME TypeOK, [Next]_vars, flown' = flown + 1
  PROVE  ~WP_go_home /\ place = Target
<1>0. flown \in Nat
  BY DEF TypeOK
<1>1. CASE Sense \/ Key \/ HeadingControl \/ positionControlMode
           \/ ManualControl \/ UNCHANGED vars \/ FlyOn \/ GoHome \/ FinalYaw
  <2>1. flown' = flown
    BY <1>1 DEF Sense, Key, Arrow, NoKey, KeyN, KeyP, KeyW, KeyQ,
                HeadingControl, positionControlMode, ManualControl, vars,
                missionVars, FlyOn, GoHome, FinalYaw
  <2> QED
    BY <2>1, <1>0
<1>2. CASE EndMission
  <2>1. flown' = 0
    BY <1>2 DEF EndMission
  <2> QED
    BY <2>1, <1>0
<1>3. CASE Reach \/ NextLap \/ LastLap
  BY <1>3 DEF Reach, NextLap, LastLap
<1> QED
  BY <1>1, <1>2, <1>3 DEF Next, waypointControlMode

\* For every number of laps, the waypoints are reached in order.
THEOREM ToursInOrder == Spec => TourInOrder
<1>1. ASSUME TypeOK, MissionInv, [Next]_vars
      PROVE  [flown' = flown + 1 => place = (flown % 4) + 1]_vars
  <2> SUFFICES ASSUME flown' = flown + 1 PROVE place = (flown % 4) + 1
    OBVIOUS
  <2>1. ~WP_go_home /\ place = Target
    BY <1>1, CountsReached
  <2>2. Target = Count /\ Count \in 1..4
    BY <1>1, <2>1, TargetIsCount
  <2>3. /\ flown = 4 * (WP_lap_count - FirstLap) + Count - 1
        /\ WP_lap_count - FirstLap \in Nat
    BY <1>1, <2>1, PilotAssumption
    DEF PilotAssumption, TypeOK, MissionInv, FirstLap
  <2> DEFINE k == WP_lap_count - FirstLap
  <2>4. ASSUME NEW m \in Nat, NEW c \in 1..4
        PROVE  ((4 * m + c - 1) % 4) + 1 = c
    OBVIOUS
  <2> QED
    BY <2>1, <2>2, <2>3, <2>4
<1> QED
  BY <1>1, MissionInvariant, PTL DEF Spec, TourInOrder

=============================================================================
