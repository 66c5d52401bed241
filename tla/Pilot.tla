------------------------------- MODULE Pilot -------------------------------
(***************************************************************************)
(* driveIMU and driveInnerLoop: a program that steers the robot by keys,   *)
(* by heading, to a position and around four waypoints, laps and then home.*)
(*                                                                         *)
(* Each round of the main loop reads the sensors, reads a key and then lets *)
(* one mode drive.  The four modes share globals and interrupt each other:  *)
(* a heading goes before a position, a position before the waypoints.       *)
(*                                                                         *)
(* The robot is at one of a few places.  Of the heading controller's       *)
(* floating point there is what never comes back: whether a number is      *)
(* finite, infinite or none ("nan").                                        *)
(***************************************************************************)
EXTENDS Integers

CONSTANTS
  Programs,     \* of "driveIMU", "driveInnerLoop"
  WP_max_laps,  \* 3 and 5 in the code
  KeySteps,     \* bound on the steps of speed and turn together
  DeadOn        \* may the robot point exactly at where it is to go?

ASSUME PilotAssumption ==
  /\ Programs \subseteq {"driveIMU", "driveInnerLoop"}
  /\ WP_max_laps \in Nat \ {0} /\ KeySteps \in Nat /\ DeadOn \in BOOLEAN

\* Places: the waypoints 1 to 4; Home is within 20 mm of the start and NearHome
\* within 250; the positions that p and w put into Pn_cmd and Pe_cmd.
Home     == 0
NearHome == 5
PlaceP   == 6
PlaceW   == 7
Away     == 8
Places   == 0..8

VARIABLES
  program, pc,       \* "sense", "key", "steer", "quit"
  place, yaw,        \* what was read: place, yaw ("0", "90", "other")
  moving,            \* the wheels turn
  speed, turn,       \* the arrow keys
  heading_cmd,       \* 90, or not (-1)
  posCmd_start, Pcmd,
  waypointCmd_start, WP_count, WP_lap_count, WP_go_home, WP_final_yaw, WPcur,
  cycle_count, HeadingErr_hist, TurnRadiusCmd_hist,
  flown, first, homed  \* history: waypoints reached in this mission; it is the
                       \*   program's first; it has been at home since the last

inputVars   == <<place, yaw>>
keyVars     == <<speed, turn>>
modeVars    == <<heading_cmd, posCmd_start, Pcmd>>
missionVars == <<waypointCmd_start, WP_count, WP_lap_count, WP_go_home,
                 WP_final_yaw, WPcur, flown, first, homed>>
lawVars     == <<cycle_count, HeadingErr_hist, TurnRadiusCmd_hist>>
vars == <<program, pc, inputVars, moving, keyVars, modeVars, missionVars,
          lawVars>>

Init ==
  /\ program \in Programs /\ pc = "sense"
  /\ place = Home /\ yaw = "0"
  /\ moving = FALSE
  /\ speed = 0 /\ turn = 0
  /\ heading_cmd = FALSE /\ posCmd_start = FALSE /\ Pcmd = Home
  /\ waypointCmd_start = FALSE /\ WP_count = 0 /\ WP_lap_count = 1
  /\ WP_go_home = FALSE /\ WP_final_yaw = FALSE /\ WPcur = Home
  /\ cycle_count = 0
  /\ HeadingErr_hist = [i \in 1..2 |-> "finite"]
  /\ TurnRadiusCmd_hist = "finite"
  /\ flown = 0 /\ first = TRUE /\ homed = FALSE

----------------------------------------------------------------------------
(* SpeedHeadingCommand.  HeadingErr_hist[1], [2] and TurnRadiusCmd_hist[1]  *)
(* are what a round leaves to the next.                                      *)

Opposite(c) == CASE c = "+inf" -> "-inf" [] c = "-inf" -> "+inf" [] OTHER -> c

\* A sum of numbers of these classes.
SumOf(C) == IF "nan" \in C \/ {"+inf", "-inf"} \subseteq C THEN "nan"
            ELSE IF "+inf" \in C THEN "+inf"
            ELSE IF "-inf" \in C THEN "-inf" ELSE "finite"

\* Bug: the count goes on.
CycleOn == cycle_count + 1

\* The cycle count of a mode's round.
NextCycle == IF cycle_count + 1 >= 3 THEN 3 ELSE cycle_count + 1

\* The classes CorrectedErr = -1 / HeadingErr may have: HeadingErr is 0, of
\* either sign, when the robot points exactly at its target.
CorrectedErrs == IF DeadOn THEN {"finite", "+inf", "-inf"} ELSE {"finite"}

\* TurnRadiusCmd_hist[0] is the last one, plus the error, minus the one
\* before, plus the one before that; it starts with two rounds of zero.
Steer(err) ==
  /\ cycle_count' = NextCycle
  /\ HeadingErr_hist' =
       [i \in 1..2 |-> IF i = 2 THEN IF cycle_count' <= 1 THEN "finite"
                                    ELSE HeadingErr_hist[1]
                       ELSE IF cycle_count' <= 2 THEN "finite" ELSE err]
  /\ TurnRadiusCmd_hist' =
       IF cycle_count' <= 2 THEN "finite"
       ELSE SumOf({TurnRadiusCmd_hist, err, Opposite(HeadingErr_hist[1]),
                   HeadingErr_hist[2]})

SpeedHeadingCommand == \E err \in CorrectedErrs : Steer(err)

\* The same in a round that reaches a waypoint, which then clears the
\* histories.
CleanRound ==
  /\ cycle_count' = NextCycle
  /\ HeadingErr_hist' = [i \in 1..2 |-> "finite"]
  /\ TurnRadiusCmd_hist' = "finite"

----------------------------------------------------------------------------
(* One round of the main loop. *)

Abs(n) == IF n < 0 THEN -n ELSE n

\* The arrow keys: v, the speed in steps of 50, and t, the turn in steps.
Up(v, t)    == IF v < 0 THEN <<0, 0>> ELSE <<v + 1, t>>
Down(v, t)  == IF v > 0 THEN <<0, 0>> ELSE <<v - 1, t>>
Left(v, t)  == <<v, IF t + 1 > 0 THEN t + 1 ELSE 0>>
Right(v, t) == <<v, IF t - 1 < 0 THEN t - 1 ELSE 0>>

\* The controller turns the robot to its target: not in a round after the key
\* w, which starts the controller again with a radius of 0, and never again
\* once the radius is infinite or no number.
Steerable == cycle_count # 0 /\ TurnRadiusCmd_hist = "finite"

\* The sensors: place and heading from the distance and the yaw.
Sense ==
  /\ pc = "sense" /\ pc' = "key"
  /\ place' \in IF moving THEN Places ELSE {place}
  /\ yaw' \in IF moving THEN {"0", "90", "other"} ELSE {yaw}
  /\ UNCHANGED <<program, moving, keyVars, modeVars, missionVars, lawVars>>

\* s: the steps after the key.
Arrow(s) ==
  /\ pc = "key" /\ pc' = "steer"
  /\ Abs(s[1]) + Abs(s[2]) <= KeySteps
  /\ speed' = s[1] /\ turn' = s[2]
  /\ UNCHANGED <<program, inputVars, moving, modeVars, missionVars, lawVars>>

\* No key within 100 ms, or the horn.
NoKey ==
  /\ pc = "key" /\ pc' = "steer"
  /\ UNCHANGED <<program, inputVars, moving, keyVars, modeVars, missionVars,
                 lawVars>>

KeyN ==
  /\ pc = "key" /\ pc' = "steer"
  /\ heading_cmd' = TRUE
  /\ UNCHANGED <<program, inputVars, moving, keyVars, posCmd_start, Pcmd,
                 missionVars, lawVars>>

KeyP ==
  /\ pc = "key" /\ pc' = "steer"
  /\ cycle_count' = 0 /\ posCmd_start' = TRUE /\ Pcmd' = PlaceP
  /\ UNCHANGED <<program, inputVars, moving, keyVars, heading_cmd, missionVars,
                 HeadingErr_hist, TurnRadiusCmd_hist>>

KeyW ==
  /\ pc = "key" /\ pc' = "steer"
  /\ cycle_count' = 0 /\ waypointCmd_start' = TRUE
  /\ Pcmd' = IF program = "driveIMU" THEN PlaceW ELSE Pcmd
  /\ UNCHANGED <<program, inputVars, moving, keyVars, heading_cmd,
                 posCmd_start, WP_count, WP_lap_count, WP_go_home,
                 WP_final_yaw, WPcur, flown, first, homed, HeadingErr_hist,
                 TurnRadiusCmd_hist>>

\* The last round's command is sent all the same; then stopOI_MT stops the
\* robot and stopIMU_MT the IMU.
KeyQ ==
  /\ pc = "key" /\ pc' = "quit" /\ moving' = FALSE
  /\ UNCHANGED <<program, inputVars, keyVars, modeVars, missionVars, lawVars>>

\* headingControl, yawCommand: turn in place until the yaw is within a degree.
HeadingControl ==
  /\ pc = "steer" /\ pc' = "sense" /\ heading_cmd
  /\ heading_cmd' = (yaw # "90") /\ moving' = (yaw # "90")
  /\ UNCHANGED <<program, inputVars, keyVars, posCmd_start, Pcmd, missionVars,
                 lawVars>>

\* positionControlMode: at the end only the radius is cleared, so that the
\* wheels turn for one round more.
positionControlMode ==
  /\ pc = "steer" /\ pc' = "sense" /\ ~heading_cmd /\ posCmd_start
  /\ SpeedHeadingCommand
  /\ posCmd_start' = (place # Pcmd)
  /\ moving' = TRUE
  /\ UNCHANGED <<program, inputVars, keyVars, heading_cmd, Pcmd, missionVars>>

ManualControl ==
  /\ pc = "steer" /\ pc' = "sense"
  /\ ~heading_cmd /\ ~posCmd_start /\ ~waypointCmd_start
  /\ moving' = (speed # 0 \/ turn # 0)
  /\ UNCHANGED <<program, inputVars, keyVars, modeVars, missionVars, lawVars>>

----------------------------------------------------------------------------
(* waypointControlMode *)

InMission == /\ pc = "steer" /\ pc' = "sense"
             /\ ~heading_cmd /\ ~posCmd_start /\ waypointCmd_start
             /\ UNCHANGED <<program, inputVars, keyVars, modeVars>>

\* The waypoint the round steers to, and its number: a mission starts with 1.
Count  == IF WP_count = 0 THEN 1 ELSE WP_count
Target == IF WP_count = 0 THEN 1 ELSE WPcur

\* On the way to a waypoint.
FlyOn ==
  /\ InMission /\ ~WP_go_home /\ place # Target
  /\ SpeedHeadingCommand /\ moving' = TRUE
  /\ WP_count' = Count /\ WPcur' = Count
  /\ UNCHANGED <<waypointCmd_start, WP_lap_count, WP_go_home, WP_final_yaw,
                 flown, first, homed>>

\* A waypoint is reached, not the last one.
Reach ==
  /\ InMission /\ ~WP_go_home /\ place = Target /\ Count < 4
  /\ CleanRound /\ moving' = TRUE
  /\ WP_count' = Count + 1 /\ WPcur' = Count + 1
  /\ flown' = flown + 1
  /\ UNCHANGED <<waypointCmd_start, WP_lap_count, WP_go_home, WP_final_yaw,
                 first, homed>>

\* Bug: the next lap starts with the second waypoint.
SkipsFirst ==
  /\ InMission /\ ~WP_go_home /\ place = Target /\ Count = 4
  /\ CleanRound /\ moving' = TRUE
  /\ WP_lap_count < WP_max_laps
  /\ WP_lap_count' = WP_lap_count + 1 /\ WP_count' = 2 /\ WPcur' = 2
  /\ flown' = flown + 1
  /\ UNCHANGED <<waypointCmd_start, WP_go_home, WP_final_yaw, first, homed>>

\* The last waypoint of a lap, and there is another lap.
NextLap ==
  /\ InMission /\ ~WP_go_home /\ place = Target /\ Count = 4
  /\ CleanRound /\ moving' = TRUE
  /\ WP_lap_count < WP_max_laps
  /\ WP_lap_count' = WP_lap_count + 1 /\ WP_count' = 1 /\ WPcur' = 1
  /\ flown' = flown + 1
  /\ UNCHANGED <<waypointCmd_start, WP_go_home, WP_final_yaw, first, homed>>

\* The last waypoint of the last lap.
LastLap ==
  /\ InMission /\ ~WP_go_home /\ place = Target /\ Count = 4
  /\ CleanRound /\ moving' = TRUE
  /\ WP_lap_count >= WP_max_laps
  /\ WP_go_home' = TRUE /\ WP_lap_count' = 0 /\ WP_count' = 0 /\ WPcur' = Home
  /\ flown' = flown + 1
  /\ UNCHANGED <<waypointCmd_start, WP_final_yaw, first, homed>>

\* Going home: near home the histories are cleared, as at a waypoint.
HomeLaw == IF place \in {Home, NearHome} THEN CleanRound
           ELSE SpeedHeadingCommand
AtHome  == place = Home \/ WP_final_yaw

GoHome ==
  /\ InMission /\ WP_go_home /\ ~AtHome
  /\ HomeLaw /\ moving' = TRUE
  /\ WP_lap_count' = 0 /\ WP_count' = 0 /\ WPcur' = Home
  /\ UNCHANGED <<waypointCmd_start, WP_go_home, WP_final_yaw, flown, first,
                 homed>>

\* At home the robot turns until its yaw is 0.
FinalYaw ==
  /\ InMission /\ WP_go_home /\ AtHome /\ yaw # "0"
  /\ HomeLaw /\ moving' = TRUE
  /\ WP_lap_count' = 0 /\ WP_count' = 0 /\ WPcur' = Home
  /\ WP_final_yaw' = TRUE
  /\ homed' = (homed \/ place = Home)
  /\ UNCHANGED <<waypointCmd_start, WP_go_home, flown, first>>

\* Bug: the mission ends with its last flag set.
LeavesFinalYaw ==
  /\ InMission /\ WP_go_home /\ AtHome /\ yaw = "0"
  /\ HomeLaw /\ moving' = FALSE
  /\ WP_lap_count' = 0 /\ WP_count' = 0 /\ WPcur' = Home
  /\ WP_final_yaw' = TRUE
  /\ waypointCmd_start' = FALSE /\ WP_go_home' = FALSE
  /\ flown' = 0 /\ first' = FALSE /\ homed' = FALSE

\* Bug: a mission goes on from the lap where the last one ended.
KeepsLaps ==
  /\ InMission /\ WP_go_home /\ AtHome /\ yaw = "0"
  /\ HomeLaw /\ moving' = FALSE
  /\ WP_lap_count' = WP_max_laps /\ WP_count' = 0 /\ WPcur' = Home
  /\ WP_final_yaw' = FALSE
  /\ waypointCmd_start' = FALSE /\ WP_go_home' = FALSE
  /\ flown' = 0 /\ first' = FALSE /\ homed' = FALSE

\* Bug: the robot goes on turning.
TurnsOn ==
  /\ InMission /\ WP_go_home /\ AtHome /\ yaw = "0"
  /\ HomeLaw /\ moving' = TRUE
  /\ WP_lap_count' = 0 /\ WP_count' = 0 /\ WPcur' = Home
  /\ WP_final_yaw' = TRUE
  /\ UNCHANGED <<waypointCmd_start, WP_go_home, flown, first, homed>>

EndMission ==
  /\ InMission /\ WP_go_home /\ AtHome /\ yaw = "0"
  /\ HomeLaw /\ moving' = FALSE
  /\ WP_lap_count' = 0 /\ WP_count' = 0 /\ WPcur' = Home
  /\ WP_final_yaw' = FALSE
  /\ waypointCmd_start' = FALSE /\ WP_go_home' = FALSE
  /\ flown' = 0 /\ first' = FALSE /\ homed' = FALSE

----------------------------------------------------------------------------

Key == \/ Arrow(Up(speed, turn)) \/ Arrow(Down(speed, turn))
       \/ Arrow(Left(speed, turn)) \/ Arrow(Right(speed, turn))
       \/ NoKey \/ KeyN \/ KeyP \/ KeyW \/ KeyQ

waypointControlMode == \/ FlyOn \/ Reach \/ NextLap \/ LastLap
                       \/ GoHome \/ FinalYaw \/ EndMission

Next == \/ Sense \/ Key \/ HeadingControl \/ positionControlMode
        \/ waypointControlMode \/ ManualControl

\* A mission is under way, no other mode has the robot, and the robot is
\* steered, or turns in place for the last turn.
Flying == /\ waypointCmd_start /\ ~heading_cmd /\ ~posCmd_start /\ pc # "quit"
          /\ WP_final_yaw \/ Steerable

\* The robot gets to where it is steered, or turns to the yaw of the last turn.
Arrives == /\ Sense
           /\ IF WP_final_yaw THEN yaw' = "0"
              ELSE place' = IF WP_go_home THEN Home ELSE Target

\* The loop goes round, and a robot that is steered in every round from some
\* time on gets to its targets.
Fairness == WF_vars(Next) /\ (<>[]Flying => []<><<Arrives>>_vars)

Spec     == Init /\ [][Next]_vars
FairSpec == Spec /\ Fairness

----------------------------------------------------------------------------
(* Properties *)

TypeOK ==
  /\ program \in Programs /\ pc \in {"sense", "key", "steer", "quit"}
  /\ place \in Places /\ yaw \in {"0", "90", "other"}
  /\ moving \in BOOLEAN
  /\ speed \in -KeySteps..KeySteps /\ turn \in -KeySteps..KeySteps
  /\ heading_cmd \in BOOLEAN /\ posCmd_start \in BOOLEAN
  /\ Pcmd \in {Home, PlaceP, PlaceW}
  /\ waypointCmd_start \in BOOLEAN /\ WP_go_home \in BOOLEAN
  /\ WP_final_yaw \in BOOLEAN
  /\ WP_count \in 0..4 /\ WP_lap_count \in 0..WP_max_laps /\ WPcur \in 0..4
  /\ cycle_count \in 0..3
  /\ HeadingErr_hist \in [1..2 -> {"finite", "+inf", "-inf"}]
  /\ TurnRadiusCmd_hist \in {"finite", "+inf", "-inf", "nan"}
  /\ flown \in Nat /\ first \in BOOLEAN /\ homed \in BOOLEAN

\* Whatever interrupts a mission, its waypoints are reached in order, lap after
\* lap, none twice and none left out.
TourInOrder == [][flown' = flown + 1 => place = (flown % 4) + 1]_vars

\* The robot turns home after a whole number of laps: WP_max_laps in the first
\* mission of a run, and one more in every later one, whose lap count starts at
\* 0 and not at 1.
LapsFlown ==
  WP_go_home => flown = 4 * (IF first THEN WP_max_laps ELSE WP_max_laps + 1)

\* The last turn is only for a robot that has been at home since its last
\* waypoint (it may have been driven away again).
HomeBeforeEnd == WP_final_yaw => WP_go_home /\ homed

\* A mission ends, unless another mode or the key q interrupts it, the key w
\* starts its controller again and again, or the controller has lost the radius
\* for good (InverseToError).
MissionEnds == Flying ~> ~Flying

\* The turn radius is inverse to the heading error, with the opposite sign: a
\* robot that points exactly at its target drives straight on (an infinite
\* radius), and a radius that is no number is in no relation to any error.
InverseToError == TurnRadiusCmd_hist # "nan"

\* The last turn of a mission is made at home.
EndsAtHome ==
  [][waypointCmd_start /\ ~waypointCmd_start' => place = Home]_vars

=============================================================================
