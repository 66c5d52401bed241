----------------------------- MODULE MCOIStream -----------------------------
EXTENDS OIStream

\* Values beyond the documented limits, a frame whose length the robot has to
\* read in the frame, and every kind of answer.
MCRequests == {
  drive(600, 0), drive(-3, -2001), directDrive(-501, 256),
  setPWMLowSideDrivers(200, 64, 7), setLEDState(10, 128, 255),
  setDigitalOuts(4), setLowSideDrivers(1), sendIRbyte(154), runDemo(255),
  setBaud(10), startOI, enterSafeMode, enterFullMode, runCoverDemo,
  runCoverAndDockDemo, runSpotDemo, playSong(2), playScript,
  writeSong(0, 1, <<137, 129>>), readRawSensor(19, 2), readRawSensor(8, 1),
  readRawSensorList(<<9, 10>>, 2), getScript}
\* writeScript is not proper: what the proofs ask of the calls does not hold.
MCScript == {writeScript(<<1, 128>>)}

ASSUME MCNotProper == Stray # {152} => \A r \in MCScript : ~Proper(r)
=============================================================================
