------------------------------- MODULE Gimbal -------------------------------
(***************************************************************************)
(* The controller of a storm32 gimbal (telemetry/storm32_controller.py,    *)
(* ST32Protocol): every RC_CHANNELS message is answered with a command     *)
(* that turns the camera to where the sticks point, or straight ahead when *)
(* channel 8 asks for the pilot's view. Angles are counted in steps of a   *)
(* stick, 0.18 degrees each.                                               *)
(***************************************************************************)
EXTENDS Integers

VARIABLES pitch, yaw,   \* the angles commanded last, NoAngle before the first
          seq,          \* self.mav.seq
          command,      \* history: the ST32Message sent last
          wanted        \* history: what the message answered by it asked for

vars == <<pitch, yaw, seq, command, wanted>>

Channel == 0 .. 65535
Angle == -500 .. 500
NoAngle == 501

TypeOK == /\ pitch \in Angle \cup {NoAngle} /\ yaw \in Angle \cup {NoAngle}
          /\ seq \in 0 .. 255
          /\ command \in [sent : BOOLEAN, seq : 0 .. 255,
                          pitch : Angle \cup {NoAngle}, yaw : Angle \cup {NoAngle}]
          /\ wanted \in [pitch : Angle, yaw : Angle]
-----------------------------------------------------------------------------
\* Where a stick points, no further than 90 degrees.
Pointed(chan) == IF chan - 1500 > 500 THEN 500
                 ELSE IF chan - 1500 < -500 THEN -500 ELSE chan - 1500

is_fpv(chan8) == chan8 < 1500

\* The difference of two angles is more than one degree.
Apart(a, b) == 18 * (a - b) > 100 \/ 18 * (b - a) > 100

\* Mutant: a change to the other side is never seen.
Bug_OneSided(old, new) == IF old = NoAngle \/ 18 * (new - old) > 100 THEN new ELSE old

\* Changes up to one degree are ignored.
Followed(old, new) == IF old = NoAngle \/ Apart(new, old) THEN new ELSE old

Straight(chan, chan8) == IF is_fpv(chan8) THEN 0 ELSE Pointed(chan)

connectionMade == /\ pitch' = NoAngle /\ yaw' = NoAngle /\ seq' = 0
                  /\ command' = [sent |-> FALSE, seq |-> 0, pitch |-> NoAngle, yaw |-> NoAngle]
                  /\ wanted' = [pitch |-> 0, yaw |-> 0]

\* messageReceived of an RC_CHANNELS message; any other is dropped there.
messageReceived(chan6, chan7, chan8) ==
  /\ pitch' = Followed(pitch, Straight(chan6, chan8))
  /\ yaw' = Followed(yaw, Straight(chan7, chan8))
  /\ command' = [sent |-> TRUE, seq |-> seq, pitch |-> pitch', yaw |-> yaw']
  /\ seq' = (seq + 1) % 256
  /\ wanted' = [pitch |-> Straight(chan6, chan8), yaw |-> Straight(chan7, chan8)]

Init == /\ pitch = NoAngle /\ yaw = NoAngle /\ seq = 0
        /\ command = [sent |-> FALSE, seq |-> 0, pitch |-> NoAngle, yaw |-> NoAngle]
        /\ wanted = [pitch |-> 0, yaw |-> 0]

Next == \/ connectionMade
        \/ \E chan6, chan7, chan8 \in Channel : messageReceived(chan6, chan7, chan8)

Spec == Init /\ [][Next]_vars
-----------------------------------------------------------------------------
\* The hysteresis never adds up: the camera stands within one degree of where the sticks
\* pointed last (storm32_controller.py:59-76), however slowly they were moved there.
WithinOneDegree ==
  command.sent => /\ ~Apart(command.pitch, wanted.pitch)
                  /\ ~Apart(command.yaw, wanted.yaw)

\* A stick that trembles does not make the camera tremble: an angle that is commanded anew is
\* more than one degree from the one before (storm32_controller.py:69-74).
NoTremble ==
  [][command.sent /\ command'.sent =>
       /\ command'.pitch = command.pitch \/ Apart(command'.pitch, command.pitch)
       /\ command'.yaw = command.yaw \/ Apart(command'.yaw, command.yaw)]_vars
=============================================================================
