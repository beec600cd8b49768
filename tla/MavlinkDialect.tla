--------------------------- MODULE MavlinkDialect ---------------------------
(***************************************************************************)
(* The messages of telemetry/mavlink.py, one class each (MAVLink_x_message *)
(* is X here), with what the class says of its wire format:                *)
(*                                                                         *)
(*   id         the message's number                                       *)
(*   format     struct's format, <<n, code>> for n values of a code and    *)
(*              <<n, "s">> for one string of n bytes                       *)
(*   orders     for each of fieldnames its place on the wire               *)
(*   lengths    for each place on the wire how many values it has          *)
(*   crc_extra  what decode adds to the checksum                           *)
(*   crc        what the class's pack adds to it                           *)
(*   packs      the fields in the order pack writes them, as places in     *)
(*              fieldnames (the parameters of __init__, in that order)     *)
(*   counts     how many elements of each of them pack writes              *)
(*   chars      the fields whose fieldtypes entry is 'char'                *)
(*                                                                         *)
(* Places count from 0 as in the source. The class gives orders and        *)
(* lengths to decode and packs and counts to pack: nothing in the code     *)
(* says that they agree.                                                   *)
(***************************************************************************)
EXTENDS Naturals, Sequences

Ones(s) == [n \in 1 .. Len(s) |-> 1]

Arrays(id, format, orders, lengths, crc_extra, crc, packs, counts) ==
  [id |-> id, format |-> format, orders |-> orders, lengths |-> lengths, crc_extra |-> crc_extra,
   crc |-> crc, packs |-> packs, counts |-> counts, chars |-> {}]
Message(id, format, orders, crc_extra, crc, packs) ==
  Arrays(id, format, orders, Ones(orders), crc_extra, crc, packs, Ones(packs))
Text(chars, m) == [m EXCEPT !.chars = chars]

HEARTBEAT == Message(0, <<<<1,"I">>, <<5,"B">>>>, <<1,2,3,0,4,5>>, 50, 50, <<3,0,1,2,4,5>>)
SYS_STATUS == Message(1, <<<<3,"I">>, <<2,"H">>, <<1,"h">>, <<6,"H">>, <<1,"b">>>>,
  <<0,1,2,3,4,5,12,6,7,8,9,10,11>>, 124, 124, <<0,1,2,3,4,5,7,8,9,10,11,12,6>>)
SYSTEM_TIME == Message(2, <<<<1,"Q">>, <<1,"I">>>>, <<0,1>>, 137, 137, <<0,1>>)
PING == Message(4, <<<<1,"Q">>, <<1,"I">>, <<2,"B">>>>, <<0,1,2,3>>, 237, 237, <<0,1,2,3>>)
CHANGE_OPERATOR_CONTROL == Text({3}, Message(5, <<<<3,"B">>, <<25,"s">>>>, <<0,1,2,3>>, 217, 217,
  <<0,1,2,3>>))
CHANGE_OPERATOR_CONTROL_ACK == Message(6, <<<<3,"B">>>>, <<0,1,2>>, 104, 104, <<0,1,2>>)
AUTH_KEY == Text({0}, Message(7, <<<<32,"s">>>>, <<0>>, 119, 119, <<0>>))
SET_MODE == Message(11, <<<<1,"I">>, <<2,"B">>>>, <<1,2,0>>, 89, 89, <<2,0,1>>)
PARAM_REQUEST_READ == Text({2}, Message(20, <<<<1,"h">>, <<2,"B">>, <<16,"s">>>>, <<1,2,3,0>>, 214,
  214, <<3,0,1,2>>))
PARAM_REQUEST_LIST == Message(21, <<<<2,"B">>>>, <<0,1>>, 159, 159, <<0,1>>)
PARAM_VALUE == Text({0}, Message(22, <<<<1,"f">>, <<2,"H">>, <<16,"s">>, <<1,"B">>>>, <<3,0,4,1,2>>,
  220, 220, <<1,3,4,0,2>>))
PARAM_SET == Text({2}, Message(23, <<<<1,"f">>, <<2,"B">>, <<16,"s">>, <<1,"B">>>>, <<1,2,3,0,4>>,
  168, 168, <<3,0,1,2,4>>))
GPS_RAW_INT == Message(24, <<<<1,"Q">>, <<3,"i">>, <<4,"H">>, <<2,"B">>, <<1,"i">>, <<4,"I">>>>,
  <<0,8,1,2,3,4,5,6,7,9,10,11,12,13,14>>, 24, 24, <<0,2,3,4,5,6,7,8,1,9,10,11,12,13,14>>)
GPS_STATUS == Arrays(25, <<<<1,"B">>, <<20,"B">>, <<20,"B">>, <<20,"B">>, <<20,"B">>, <<20,"B">>>>,
  <<0,1,2,3,4,5>>, <<1,20,20,20,20,20>>, 23, 23, <<0,1,2,3,4,5>>, <<1,20,20,20,20,20>>)
SCALED_IMU == Message(26, <<<<1,"I">>, <<9,"h">>>>, <<0,1,2,3,4,5,6,7,8,9>>, 170, 170,
  <<0,1,2,3,4,5,6,7,8,9>>)
RAW_IMU == Message(27, <<<<1,"Q">>, <<9,"h">>>>, <<0,1,2,3,4,5,6,7,8,9>>, 144, 144,
  <<0,1,2,3,4,5,6,7,8,9>>)
RAW_PRESSURE == Message(28, <<<<1,"Q">>, <<4,"h">>>>, <<0,1,2,3,4>>, 67, 67, <<0,1,2,3,4>>)
SCALED_PRESSURE == Message(29, <<<<1,"I">>, <<2,"f">>, <<1,"h">>>>, <<0,1,2,3>>, 115, 115,
  <<0,1,2,3>>)
ATTITUDE == Message(30, <<<<1,"I">>, <<6,"f">>>>, <<0,1,2,3,4,5,6>>, 39, 39, <<0,1,2,3,4,5,6>>)
ATTITUDE_QUATERNION == Message(31, <<<<1,"I">>, <<7,"f">>>>, <<0,1,2,3,4,5,6,7>>, 246, 246,
  <<0,1,2,3,4,5,6,7>>)
LOCAL_POSITION_NED == Message(32, <<<<1,"I">>, <<6,"f">>>>, <<0,1,2,3,4,5,6>>, 185, 185,
  <<0,1,2,3,4,5,6>>)
GLOBAL_POSITION_INT == Message(33, <<<<1,"I">>, <<4,"i">>, <<3,"h">>, <<1,"H">>>>,
  <<0,1,2,3,4,5,6,7,8>>, 104, 104, <<0,1,2,3,4,5,6,7,8>>)
RC_CHANNELS_SCALED == Message(34, <<<<1,"I">>, <<8,"h">>, <<2,"B">>>>, <<0,9,1,2,3,4,5,6,7,8,10>>,
  237, 237, <<0,2,3,4,5,6,7,8,9,1,10>>)
RC_CHANNELS_RAW == Message(35, <<<<1,"I">>, <<8,"H">>, <<2,"B">>>>, <<0,9,1,2,3,4,5,6,7,8,10>>, 244,
  244, <<0,2,3,4,5,6,7,8,9,1,10>>)
SERVO_OUTPUT_RAW == Message(36, <<<<1,"I">>, <<8,"H">>, <<1,"B">>, <<8,"H">>>>,
  <<0,9,1,2,3,4,5,6,7,8,10,11,12,13,14,15,16,17>>, 222, 222,
  <<0,2,3,4,5,6,7,8,9,1,10,11,12,13,14,15,16,17>>)
MISSION_REQUEST_PARTIAL_LIST == Message(37, <<<<2,"h">>, <<3,"B">>>>, <<2,3,0,1,4>>, 212, 212,
  <<2,3,0,1,4>>)
MISSION_WRITE_PARTIAL_LIST == Message(38, <<<<2,"h">>, <<3,"B">>>>, <<2,3,0,1,4>>, 9, 9,
  <<2,3,0,1,4>>)
MISSION_ITEM == Message(39, <<<<7,"f">>, <<2,"H">>, <<6,"B">>>>,
  <<9,10,7,11,8,12,13,0,1,2,3,4,5,6,14>>, 254, 254, <<7,8,9,10,11,12,13,2,4,0,1,3,5,6,14>>)
MISSION_REQUEST == Message(40, <<<<1,"H">>, <<3,"B">>>>, <<1,2,0,3>>, 230, 230, <<2,0,1,3>>)
MISSION_SET_CURRENT == Message(41, <<<<1,"H">>, <<2,"B">>>>, <<1,2,0>>, 28, 28, <<2,0,1>>)
MISSION_CURRENT == Message(42, <<<<1,"H">>>>, <<0>>, 28, 28, <<0>>)
MISSION_REQUEST_LIST == Message(43, <<<<3,"B">>>>, <<0,1,2>>, 132, 132, <<0,1,2>>)
MISSION_COUNT == Message(44, <<<<1,"H">>, <<3,"B">>>>, <<1,2,0,3>>, 221, 221, <<2,0,1,3>>)
MISSION_CLEAR_ALL == Message(45, <<<<3,"B">>>>, <<0,1,2>>, 232, 232, <<0,1,2>>)
MISSION_ITEM_REACHED == Message(46, <<<<1,"H">>>>, <<0>>, 11, 11, <<0>>)
MISSION_ACK == Message(47, <<<<4,"B">>>>, <<0,1,2,3>>, 153, 153, <<0,1,2,3>>)
SET_GPS_GLOBAL_ORIGIN == Message(48, <<<<3,"i">>, <<1,"B">>, <<1,"Q">>>>, <<3,0,1,2,4>>, 41, 41,
  <<1,2,3,0,4>>)
GPS_GLOBAL_ORIGIN == Message(49, <<<<3,"i">>, <<1,"Q">>>>, <<0,1,2,3>>, 39, 39, <<0,1,2,3>>)
PARAM_MAP_RC == Text({2}, Message(50, <<<<4,"f">>, <<1,"h">>, <<2,"B">>, <<16,"s">>, <<1,"B">>>>,
  <<5,6,7,4,8,0,1,2,3>>, 78, 78, <<5,6,7,8,3,0,1,2,4>>))
MISSION_REQUEST_INT == Message(51, <<<<1,"H">>, <<3,"B">>>>, <<1,2,0,3>>, 196, 196, <<2,0,1,3>>)
SAFETY_SET_ALLOWED_AREA == Message(54, <<<<6,"f">>, <<3,"B">>>>, <<6,7,8,0,1,2,3,4,5>>, 15, 15,
  <<3,4,5,6,7,8,0,1,2>>)
SAFETY_ALLOWED_AREA == Message(55, <<<<6,"f">>, <<1,"B">>>>, <<6,0,1,2,3,4,5>>, 3, 3,
  <<1,2,3,4,5,6,0>>)
ATTITUDE_QUATERNION_COV == Arrays(61, <<<<1,"Q">>, <<4,"f">>, <<3,"f">>, <<9,"f">>>>,
  <<0,1,2,3,4,5>>, <<1,4,1,1,1,9>>, 167, 167, <<0,1,2,3,4,5>>, <<1,4,1,1,1,9>>)
NAV_CONTROLLER_OUTPUT == Message(62, <<<<5,"f">>, <<2,"h">>, <<1,"H">>>>, <<0,1,5,6,7,2,3,4>>, 183,
  183, <<0,1,5,6,7,2,3,4>>)
GLOBAL_POSITION_INT_COV == Arrays(63, <<<<1,"Q">>, <<4,"i">>, <<3,"f">>, <<36,"f">>, <<1,"B">>>>,
  <<0,9,1,2,3,4,5,6,7,8>>, <<1,1,1,1,1,1,1,1,36,1>>, 119, 119, <<0,2,3,4,5,6,7,8,9,1>>,
  <<1,1,1,1,1,1,1,1,36,1>>)
LOCAL_POSITION_NED_COV == Arrays(64, <<<<1,"Q">>, <<9,"f">>, <<45,"f">>, <<1,"B">>>>,
  <<0,11,1,2,3,4,5,6,7,8,9,10>>, <<1,1,1,1,1,1,1,1,1,1,45,1>>, 191, 191,
  <<0,2,3,4,5,6,7,8,9,10,11,1>>, <<1,1,1,1,1,1,1,1,1,1,45,1>>)
RC_CHANNELS == Message(65, <<<<1,"I">>, <<18,"H">>, <<2,"B">>>>,
  <<0,19,1,2,3,4,5,6,7,8,9,10,11,12,13,14,15,16,17,18,20>>, 118, 118,
  <<0,2,3,4,5,6,7,8,9,10,11,12,13,14,15,16,17,18,19,1,20>>)
REQUEST_DATA_STREAM == Message(66, <<<<1,"H">>, <<4,"B">>>>, <<1,2,3,0,4>>, 148, 148, <<3,0,1,2,4>>)
DATA_STREAM == Message(67, <<<<1,"H">>, <<2,"B">>>>, <<1,0,2>>, 21, 21, <<1,0,2>>)
MANUAL_CONTROL == Message(69, <<<<4,"h">>, <<1,"H">>, <<1,"B">>>>, <<5,0,1,2,3,4>>, 243, 243,
  <<1,2,3,4,5,0>>)
RC_CHANNELS_OVERRIDE == Message(70, <<<<8,"H">>, <<2,"B">>, <<10,"H">>>>,
  <<8,9,0,1,2,3,4,5,6,7,10,11,12,13,14,15,16,17,18,19>>, 124, 124,
  <<2,3,4,5,6,7,8,9,0,1,10,11,12,13,14,15,16,17,18,19>>)
MISSION_ITEM_INT == Message(73, <<<<4,"f">>, <<2,"i">>, <<1,"f">>, <<2,"H">>, <<6,"B">>>>,
  <<9,10,7,11,8,12,13,0,1,2,3,4,5,6,14>>, 38, 38, <<7,8,9,10,11,12,13,2,4,0,1,3,5,6,14>>)
VFR_HUD == Message(74, <<<<4,"f">>, <<1,"h">>, <<1,"H">>>>, <<0,1,4,5,2,3>>, 20, 20,
  <<0,1,4,5,2,3>>)
COMMAND_INT == Message(75, <<<<4,"f">>, <<2,"i">>, <<1,"f">>, <<1,"H">>, <<5,"B">>>>,
  <<8,9,10,7,11,12,0,1,2,3,4,5,6>>, 158, 158, <<6,7,8,9,10,11,12,3,0,1,2,4,5>>)
COMMAND_LONG == Message(76, <<<<7,"f">>, <<1,"H">>, <<3,"B">>>>, <<8,9,7,10,0,1,2,3,4,5,6>>, 152,
  152, <<4,5,6,7,8,9,10,2,0,1,3>>)
COMMAND_ACK == Message(77, <<<<1,"H">>, <<2,"B">>, <<1,"i">>, <<2,"B">>>>, <<0,1,2,3,4,5>>, 143,
  143, <<0,1,2,3,4,5>>)
MANUAL_SETPOINT == Message(81, <<<<1,"I">>, <<4,"f">>, <<2,"B">>>>, <<0,1,2,3,4,5,6>>, 106, 106,
  <<0,1,2,3,4,5,6>>)
SET_ATTITUDE_TARGET == Arrays(82, <<<<1,"I">>, <<4,"f">>, <<4,"f">>, <<3,"B">>>>,
  <<0,6,7,8,1,2,3,4,5>>, <<1,4,1,1,1,1,1,1,1>>, 49, 49, <<0,4,5,6,7,8,1,2,3>>,
  <<1,4,1,1,1,1,1,1,1>>)
ATTITUDE_TARGET == Arrays(83, <<<<1,"I">>, <<4,"f">>, <<4,"f">>, <<1,"B">>>>, <<0,6,1,2,3,4,5>>,
  <<1,4,1,1,1,1,1>>, 22, 22, <<0,2,3,4,5,6,1>>, <<1,4,1,1,1,1,1>>)
SET_POSITION_TARGET_LOCAL_NED == Message(84, <<<<1,"I">>, <<11,"f">>, <<1,"H">>, <<3,"B">>>>,
  <<0,13,14,15,12,1,2,3,4,5,6,7,8,9,10,11>>, 143, 143, <<0,5,6,7,8,9,10,11,12,13,14,15,4,1,2,3>>)
POSITION_TARGET_LOCAL_NED == Message(85, <<<<1,"I">>, <<11,"f">>, <<1,"H">>, <<1,"B">>>>,
  <<0,13,12,1,2,3,4,5,6,7,8,9,10,11>>, 140, 140, <<0,3,4,5,6,7,8,9,10,11,12,13,2,1>>)
SET_POSITION_TARGET_GLOBAL_INT == Message(86, <<<<1,"I">>, <<2,"i">>, <<9,"f">>, <<1,"H">>,
  <<3,"B">>>>, <<0,13,14,15,12,1,2,3,4,5,6,7,8,9,10,11>>, 5, 5,
  <<0,5,6,7,8,9,10,11,12,13,14,15,4,1,2,3>>)
POSITION_TARGET_GLOBAL_INT == Message(87, <<<<1,"I">>, <<2,"i">>, <<9,"f">>, <<1,"H">>, <<1,"B">>>>,
  <<0,13,12,1,2,3,4,5,6,7,8,9,10,11>>, 150, 150, <<0,3,4,5,6,7,8,9,10,11,12,13,2,1>>)
LOCAL_POSITION_NED_SYSTEM_GLOBAL_OFFSET == Message(89, <<<<1,"I">>, <<6,"f">>>>, <<0,1,2,3,4,5,6>>,
  231, 231, <<0,1,2,3,4,5,6>>)
HIL_STATE == Message(90, <<<<1,"Q">>, <<6,"f">>, <<3,"i">>, <<6,"h">>>>,
  <<0,1,2,3,4,5,6,7,8,9,10,11,12,13,14,15>>, 183, 183, <<0,1,2,3,4,5,6,7,8,9,10,11,12,13,14,15>>)
HIL_CONTROLS == Message(91, <<<<1,"Q">>, <<8,"f">>, <<2,"B">>>>, <<0,1,2,3,4,5,6,7,8,9,10>>, 63, 63,
  <<0,1,2,3,4,5,6,7,8,9,10>>)
HIL_RC_INPUTS_RAW == Message(92, <<<<1,"Q">>, <<12,"H">>, <<1,"B">>>>,
  <<0,1,2,3,4,5,6,7,8,9,10,11,12,13>>, 54, 54, <<0,1,2,3,4,5,6,7,8,9,10,11,12,13>>)
HIL_ACTUATOR_CONTROLS == Arrays(93, <<<<2,"Q">>, <<16,"f">>, <<1,"B">>>>, <<0,2,3,1>>, <<1,1,16,1>>,
  47, 47, <<0,3,1,2>>, <<1,1,16,1>>)
OPTICAL_FLOW == Message(100, <<<<1,"Q">>, <<3,"f">>, <<2,"h">>, <<2,"B">>, <<2,"f">>>>,
  <<0,6,4,5,1,2,7,3,8,9>>, 175, 175, <<0,4,5,7,2,3,1,6,8,9>>)
GLOBAL_VISION_POSITION_ESTIMATE == Arrays(101, <<<<1,"Q">>, <<6,"f">>, <<21,"f">>>>,
  <<0,1,2,3,4,5,6,7>>, <<1,1,1,1,1,1,1,21>>, 102, 102, <<0,1,2,3,4,5,6,7>>, <<1,1,1,1,1,1,1,21>>)
VISION_POSITION_ESTIMATE == Arrays(102, <<<<1,"Q">>, <<6,"f">>, <<21,"f">>>>, <<0,1,2,3,4,5,6,7>>,
  <<1,1,1,1,1,1,1,21>>, 158, 158, <<0,1,2,3,4,5,6,7>>, <<1,1,1,1,1,1,1,21>>)
VISION_SPEED_ESTIMATE == Arrays(103, <<<<1,"Q">>, <<3,"f">>, <<9,"f">>>>, <<0,1,2,3,4>>,
  <<1,1,1,1,9>>, 208, 208, <<0,1,2,3,4>>, <<1,1,1,1,9>>)
VICON_POSITION_ESTIMATE == Arrays(104, <<<<1,"Q">>, <<6,"f">>, <<21,"f">>>>, <<0,1,2,3,4,5,6,7>>,
  <<1,1,1,1,1,1,1,21>>, 56, 56, <<0,1,2,3,4,5,6,7>>, <<1,1,1,1,1,1,1,21>>)
HIGHRES_IMU == Message(105, <<<<1,"Q">>, <<13,"f">>, <<1,"H">>>>,
  <<0,1,2,3,4,5,6,7,8,9,10,11,12,13,14>>, 93, 93, <<0,1,2,3,4,5,6,7,8,9,10,11,12,13,14>>)
OPTICAL_FLOW_RAD == Message(106, <<<<1,"Q">>, <<1,"I">>, <<5,"f">>, <<1,"I">>, <<1,"f">>, <<1,"h">>,
  <<2,"B">>>>, <<0,10,1,2,3,4,5,6,9,11,7,8>>, 138, 138, <<0,2,3,4,5,6,7,10,11,8,1,9>>)
HIL_SENSOR == Message(107, <<<<1,"Q">>, <<13,"f">>, <<1,"I">>>>,
  <<0,1,2,3,4,5,6,7,8,9,10,11,12,13,14>>, 108, 108, <<0,1,2,3,4,5,6,7,8,9,10,11,12,13,14>>)
SIM_STATE == Message(108, <<<<21,"f">>>>, <<0,1,2,3,4,5,6,7,8,9,10,11,12,13,14,15,16,17,18,19,20>>,
  32, 32, <<0,1,2,3,4,5,6,7,8,9,10,11,12,13,14,15,16,17,18,19,20>>)
RADIO_STATUS == Message(109, <<<<2,"H">>, <<5,"B">>>>, <<2,3,4,5,6,0,1>>, 185, 185,
  <<5,6,0,1,2,3,4>>)
FILE_TRANSFER_PROTOCOL == Arrays(110, <<<<3,"B">>, <<251,"B">>>>, <<0,1,2,3>>, <<1,1,1,251>>, 84,
  84, <<0,1,2,3>>, <<1,1,1,251>>)
TIMESYNC == Message(111, <<<<2,"q">>>>, <<0,1>>, 34, 34, <<0,1>>)
CAMERA_TRIGGER == Message(112, <<<<1,"Q">>, <<1,"I">>>>, <<0,1>>, 174, 174, <<0,1>>)
HIL_GPS == Message(113, <<<<1,"Q">>, <<3,"i">>, <<3,"H">>, <<3,"h">>, <<1,"H">>, <<2,"B">>>>,
  <<0,11,1,2,3,4,5,6,7,8,9,10,12>>, 124, 124, <<0,2,3,4,5,6,7,8,9,10,11,1,12>>)
HIL_OPTICAL_FLOW == Message(114, <<<<1,"Q">>, <<1,"I">>, <<5,"f">>, <<1,"I">>, <<1,"f">>, <<1,"h">>,
  <<2,"B">>>>, <<0,10,1,2,3,4,5,6,9,11,7,8>>, 237, 237, <<0,2,3,4,5,6,7,10,11,8,1,9>>)
HIL_STATE_QUATERNION == Arrays(115, <<<<1,"Q">>, <<4,"f">>, <<3,"f">>, <<3,"i">>, <<3,"h">>,
  <<2,"H">>, <<3,"h">>>>, <<0,1,2,3,4,5,6,7,8,9,10,11,12,13,14,15>>,
  <<1,4,1,1,1,1,1,1,1,1,1,1,1,1,1,1>>, 4, 4, <<0,1,2,3,4,5,6,7,8,9,10,11,12,13,14,15>>,
  <<1,4,1,1,1,1,1,1,1,1,1,1,1,1,1,1>>)
SCALED_IMU2 == Message(116, <<<<1,"I">>, <<9,"h">>>>, <<0,1,2,3,4,5,6,7,8,9>>, 76, 76,
  <<0,1,2,3,4,5,6,7,8,9>>)
LOG_REQUEST_LIST == Message(117, <<<<2,"H">>, <<2,"B">>>>, <<2,3,0,1>>, 128, 128, <<2,3,0,1>>)
LOG_ENTRY == Message(118, <<<<2,"I">>, <<3,"H">>>>, <<2,3,4,0,1>>, 56, 56, <<3,4,0,1,2>>)
LOG_REQUEST_DATA == Message(119, <<<<2,"I">>, <<1,"H">>, <<2,"B">>>>, <<3,4,2,0,1>>, 116, 116,
  <<3,4,2,0,1>>)
LOG_DATA == Arrays(120, <<<<1,"I">>, <<1,"H">>, <<1,"B">>, <<90,"B">>>>, <<1,0,2,3>>, <<1,1,1,90>>,
  134, 134, <<1,0,2,3>>, <<1,1,1,90>>)
LOG_ERASE == Message(121, <<<<2,"B">>>>, <<0,1>>, 237, 237, <<0,1>>)
LOG_REQUEST_END == Message(122, <<<<2,"B">>>>, <<0,1>>, 203, 203, <<0,1>>)
GPS_INJECT_DATA == Arrays(123, <<<<3,"B">>, <<110,"B">>>>, <<0,1,2,3>>, <<1,1,1,110>>, 250, 250,
  <<0,1,2,3>>, <<1,1,1,110>>)
GPS2_RAW == Message(124, <<<<1,"Q">>, <<3,"i">>, <<1,"I">>, <<4,"H">>, <<3,"B">>>>,
  <<0,9,1,2,3,5,6,7,8,10,11,4>>, 87, 87, <<0,2,3,4,11,5,6,7,8,1,9,10>>)
POWER_STATUS == Message(125, <<<<3,"H">>>>, <<0,1,2>>, 203, 203, <<0,1,2>>)
SERIAL_CONTROL == Arrays(126, <<<<1,"I">>, <<1,"H">>, <<3,"B">>, <<70,"B">>>>, <<2,3,1,0,4,5>>,
  <<1,1,1,1,1,70>>, 220, 220, <<3,2,0,1,4,5>>, <<1,1,1,1,1,70>>)
GPS_RTK == Message(127, <<<<2,"I">>, <<3,"i">>, <<1,"I">>, <<1,"i">>, <<1,"H">>, <<5,"B">>>>,
  <<0,8,7,1,9,10,11,12,2,3,4,5,6>>, 25, 25, <<0,3,8,9,10,11,12,2,1,4,5,6,7>>)
GPS2_RTK == Message(128, <<<<2,"I">>, <<3,"i">>, <<1,"I">>, <<1,"i">>, <<1,"H">>, <<5,"B">>>>,
  <<0,8,7,1,9,10,11,12,2,3,4,5,6>>, 226, 226, <<0,3,8,9,10,11,12,2,1,4,5,6,7>>)
SCALED_IMU3 == Message(129, <<<<1,"I">>, <<9,"h">>>>, <<0,1,2,3,4,5,6,7,8,9>>, 46, 46,
  <<0,1,2,3,4,5,6,7,8,9>>)
DATA_TRANSMISSION_HANDSHAKE == Message(130, <<<<1,"I">>, <<3,"H">>, <<3,"B">>>>, <<4,0,1,2,3,5,6>>,
  29, 29, <<1,2,3,4,0,5,6>>)
ENCAPSULATED_DATA == Arrays(131, <<<<1,"H">>, <<253,"B">>>>, <<0,1>>, <<1,253>>, 223, 223, <<0,1>>,
  <<1,253>>)
DISTANCE_SENSOR == Arrays(132, <<<<1,"I">>, <<3,"H">>, <<4,"B">>, <<2,"f">>, <<4,"f">>>>,
  <<0,1,2,3,4,5,6,7,8,9,10>>, <<1,1,1,1,1,1,1,1,1,1,4>>, 85, 85, <<0,1,2,3,4,5,6,7,8,9,10>>,
  <<1,1,1,1,1,1,1,1,1,1,4>>)
TERRAIN_REQUEST == Message(133, <<<<1,"Q">>, <<2,"i">>, <<1,"H">>>>, <<1,2,3,0>>, 6, 6, <<3,0,1,2>>)
TERRAIN_DATA == Arrays(134, <<<<2,"i">>, <<1,"H">>, <<16,"h">>, <<1,"B">>>>, <<0,1,2,4,3>>,
  <<1,1,1,16,1>>, 229, 229, <<0,1,2,4,3>>, <<1,1,1,16,1>>)
TERRAIN_CHECK == Message(135, <<<<2,"i">>>>, <<0,1>>, 203, 203, <<0,1>>)
TERRAIN_REPORT == Message(136, <<<<2,"i">>, <<2,"f">>, <<3,"H">>>>, <<0,1,4,2,3,5,6>>, 1, 1,
  <<0,1,3,4,2,5,6>>)
SCALED_PRESSURE2 == Message(137, <<<<1,"I">>, <<2,"f">>, <<1,"h">>>>, <<0,1,2,3>>, 195, 195,
  <<0,1,2,3>>)
ATT_POS_MOCAP == Arrays(138, <<<<1,"Q">>, <<4,"f">>, <<3,"f">>, <<21,"f">>>>, <<0,1,2,3,4,5>>,
  <<1,4,1,1,1,21>>, 109, 109, <<0,1,2,3,4,5>>, <<1,4,1,1,1,21>>)
SET_ACTUATOR_CONTROL_TARGET == Arrays(139, <<<<1,"Q">>, <<8,"f">>, <<3,"B">>>>, <<0,2,3,4,1>>,
  <<1,8,1,1,1>>, 168, 168, <<0,4,1,2,3>>, <<1,8,1,1,1>>)
ACTUATOR_CONTROL_TARGET == Arrays(140, <<<<1,"Q">>, <<8,"f">>, <<1,"B">>>>, <<0,2,1>>, <<1,8,1>>,
  181, 181, <<0,2,1>>, <<1,8,1>>)
ALTITUDE == Message(141, <<<<1,"Q">>, <<6,"f">>>>, <<0,1,2,3,4,5,6>>, 47, 47, <<0,1,2,3,4,5,6>>)
RESOURCE_REQUEST == Arrays(142, <<<<2,"B">>, <<120,"B">>, <<1,"B">>, <<120,"B">>>>, <<0,1,2,3,4>>,
  <<1,1,120,1,120>>, 72, 72, <<0,1,2,3,4>>, <<1,1,120,1,120>>)
SCALED_PRESSURE3 == Message(143, <<<<1,"I">>, <<2,"f">>, <<1,"h">>>>, <<0,1,2,3>>, 131, 131,
  <<0,1,2,3>>)
FOLLOW_TARGET == Arrays(144, <<<<2,"Q">>, <<2,"i">>, <<1,"f">>, <<3,"f">>, <<3,"f">>, <<4,"f">>,
  <<3,"f">>, <<3,"f">>, <<1,"B">>>>, <<0,10,2,3,4,5,6,7,8,9,1>>, <<1,1,1,1,1,3,3,4,3,3,1>>, 127,
  127, <<0,10,2,3,4,5,6,7,8,9,1>>, <<1,1,1,1,1,3,3,4,3,3,1>>)
CONTROL_SYSTEM_STATE == Arrays(146, <<<<1,"Q">>, <<10,"f">>, <<3,"f">>, <<3,"f">>, <<4,"f">>,
  <<3,"f">>>>, <<0,1,2,3,4,5,6,7,8,9,10,11,12,13,14,15,16>>, <<1,1,1,1,1,1,1,1,1,1,1,3,3,4,1,1,1>>,
  103, 103, <<0,1,2,3,4,5,6,7,8,9,10,11,12,13,14,15,16>>, <<1,1,1,1,1,1,1,1,1,1,1,3,3,4,1,1,1>>)
BATTERY_STATUS == Arrays(147, <<<<2,"i">>, <<1,"h">>, <<10,"H">>, <<1,"h">>, <<3,"B">>, <<1,"b">>,
  <<1,"i">>, <<1,"B">>>>, <<5,6,7,2,3,4,0,1,8,9,10>>, <<1,1,1,10,1,1,1,1,1,1,1>>, 154, 154,
  <<6,7,3,4,5,0,1,2,8,9,10>>, <<1,1,1,10,1,1,1,1,1,1,1>>)
AUTOPILOT_VERSION == Arrays(148, <<<<2,"Q">>, <<4,"I">>, <<2,"H">>, <<8,"B">>, <<8,"B">>, <<8,"B">>,
  <<18,"B">>>>, <<0,2,3,4,5,8,9,10,6,7,1,11>>, <<1,1,1,1,1,1,1,1,8,8,8,18>>, 178, 178,
  <<0,10,1,2,3,4,8,9,5,6,7,11>>, <<1,1,1,1,1,1,1,1,8,8,8,18>>)
LANDING_TARGET == Arrays(149, <<<<1,"Q">>, <<5,"f">>, <<2,"B">>, <<3,"f">>, <<4,"f">>, <<2,"B">>>>,
  <<0,6,7,1,2,3,4,5,8,9,10,11,12,13>>, <<1,1,1,1,1,1,1,1,1,1,1,4,1,1>>, 200, 200,
  <<0,3,4,5,6,7,1,2,8,9,10,11,12,13>>, <<1,1,1,1,1,1,1,1,1,1,1,4,1,1>>)
ESTIMATOR_STATUS == Message(230, <<<<1,"Q">>, <<8,"f">>, <<1,"H">>>>, <<0,9,1,2,3,4,5,6,7,8>>, 163,
  163, <<0,2,3,4,5,6,7,8,9,1>>)
WIND_COV == Message(231, <<<<1,"Q">>, <<8,"f">>>>, <<0,1,2,3,4,5,6,7,8>>, 105, 105,
  <<0,1,2,3,4,5,6,7,8>>)
GPS_INPUT == Message(232, <<<<1,"Q">>, <<1,"I">>, <<2,"i">>, <<9,"f">>, <<2,"H">>, <<3,"B">>>>,
  <<0,15,13,1,14,16,2,3,4,5,6,7,8,9,10,11,12,17>>, 151, 151,
  <<0,3,6,7,8,9,10,11,12,13,14,15,16,2,4,1,5,17>>)
GPS_RTCM_DATA == Arrays(233, <<<<2,"B">>, <<180,"B">>>>, <<0,1,2>>, <<1,1,180>>, 35, 35, <<0,1,2>>,
  <<1,1,180>>)
HIGH_LATENCY == Message(234, <<<<1,"I">>, <<2,"i">>, <<2,"h">>, <<1,"H">>, <<3,"h">>, <<1,"H">>,
  <<2,"B">>, <<1,"b">>, <<3,"B">>, <<1,"b">>, <<3,"B">>, <<2,"b">>, <<2,"B">>>>,
  <<10,0,11,3,4,5,12,6,1,2,7,8,13,14,15,16,17,18,19,20,21,22,23,9>>, 150, 150,
  <<1,8,9,3,4,5,7,10,11,23,0,2,6,12,13,14,15,16,17,18,19,20,21,22>>)
HIGH_LATENCY2 == Message(235, <<<<1,"I">>, <<2,"i">>, <<1,"H">>, <<2,"h">>, <<3,"H">>, <<12,"B">>,
  <<6,"b">>>>, <<0,9,10,3,1,2,4,5,11,12,6,13,14,15,16,17,18,19,20,21,22,23,7,8,24,25,26>>, 179, 179,
  <<0,4,5,3,6,7,10,22,23,1,2,8,9,11,12,13,14,15,16,17,18,19,20,21,24,25,26>>)
VIBRATION == Message(241, <<<<1,"Q">>, <<3,"f">>, <<3,"I">>>>, <<0,1,2,3,4,5,6>>, 90, 90,
  <<0,1,2,3,4,5,6>>)
HOME_POSITION == Arrays(242, <<<<3,"i">>, <<3,"f">>, <<4,"f">>, <<3,"f">>, <<1,"Q">>>>,
  <<0,1,2,3,4,5,6,7,8,9,10>>, <<1,1,1,1,1,1,4,1,1,1,1>>, 104, 104, <<0,1,2,3,4,5,6,7,8,9,10>>,
  <<1,1,1,1,1,1,4,1,1,1,1>>)
SET_HOME_POSITION == Arrays(243, <<<<3,"i">>, <<3,"f">>, <<4,"f">>, <<3,"f">>, <<1,"B">>,
  <<1,"Q">>>>, <<10,0,1,2,3,4,5,6,7,8,9,11>>, <<1,1,1,1,1,1,4,1,1,1,1,1>>, 85, 85,
  <<1,2,3,4,5,6,7,8,9,10,0,11>>, <<1,1,1,1,1,1,4,1,1,1,1,1>>)
MESSAGE_INTERVAL == Message(244, <<<<1,"i">>, <<1,"H">>>>, <<1,0>>, 95, 95, <<1,0>>)
EXTENDED_SYS_STATE == Message(245, <<<<2,"B">>>>, <<0,1>>, 130, 130, <<0,1>>)
ADSB_VEHICLE == Text({8}, Message(246, <<<<1,"I">>, <<3,"i">>, <<2,"H">>, <<1,"h">>, <<2,"H">>,
  <<1,"B">>, <<9,"s">>, <<2,"B">>>>, <<0,1,2,9,3,4,5,6,10,11,12,7,8>>, 184, 184,
  <<0,1,2,4,5,6,7,11,12,3,8,9,10>>))
COLLISION == Message(247, <<<<1,"I">>, <<3,"f">>, <<3,"B">>>>, <<4,0,5,6,1,2,3>>, 81, 81,
  <<1,4,5,6,0,2,3>>)
V2_EXTENSION == Arrays(248, <<<<1,"H">>, <<3,"B">>, <<249,"B">>>>, <<1,2,3,0,4>>, <<1,1,1,1,249>>,
  8, 8, <<3,0,1,2,4>>, <<1,1,1,1,249>>)
MEMORY_VECT == Arrays(249, <<<<1,"H">>, <<2,"B">>, <<32,"b">>>>, <<0,1,2,3>>, <<1,1,1,32>>, 204,
  204, <<0,1,2,3>>, <<1,1,1,32>>)
DEBUG_VECT == Text({0}, Message(250, <<<<1,"Q">>, <<3,"f">>, <<10,"s">>>>, <<4,0,1,2,3>>, 49, 49,
  <<1,2,3,4,0>>))
NAMED_VALUE_FLOAT == Text({1}, Message(251, <<<<1,"I">>, <<1,"f">>, <<10,"s">>>>, <<0,2,1>>, 170,
  170, <<0,2,1>>))
NAMED_VALUE_INT == Text({1}, Message(252, <<<<1,"I">>, <<1,"i">>, <<10,"s">>>>, <<0,2,1>>, 44, 44,
  <<0,2,1>>))
STATUSTEXT == Text({1}, Message(253, <<<<1,"B">>, <<50,"s">>>>, <<0,1>>, 83, 83, <<0,1>>))
DEBUG == Message(254, <<<<1,"I">>, <<1,"f">>, <<1,"B">>>>, <<0,2,1>>, 46, 46, <<0,2,1>>)
SETUP_SIGNING == Arrays(256, <<<<1,"Q">>, <<2,"B">>, <<32,"B">>>>, <<1,2,3,0>>, <<1,1,1,32>>, 71,
  71, <<3,0,1,2>>, <<1,1,1,32>>)
BUTTON_CHANGE == Message(257, <<<<2,"I">>, <<1,"B">>>>, <<0,1,2>>, 131, 131, <<0,1,2>>)
PLAY_TUNE == Text({2,3}, Message(258, <<<<2,"B">>, <<30,"s">>, <<200,"s">>>>, <<0,1,2,3>>, 187, 187,
  <<0,1,2,3>>))
CAMERA_INFORMATION == Text({12}, Arrays(259, <<<<2,"I">>, <<3,"f">>, <<1,"I">>, <<3,"H">>,
  <<32,"B">>, <<32,"B">>, <<1,"B">>, <<140,"s">>>>, <<0,9,10,1,2,3,4,6,7,11,5,8,12>>,
  <<1,1,1,1,1,1,1,1,1,32,32,1,1>>, 92, 92, <<0,3,4,5,6,10,7,8,11,1,2,9,12>>,
  <<1,1,1,1,1,1,1,1,1,32,32,1,1>>))
CAMERA_SETTINGS == Message(260, <<<<1,"I">>, <<1,"B">>, <<2,"f">>>>, <<0,1,2,3>>, 146, 146,
  <<0,1,2,3>>)
STORAGE_INFORMATION == Message(261, <<<<1,"I">>, <<5,"f">>, <<3,"B">>>>, <<0,6,7,8,1,2,3,4,5>>, 179,
  179, <<0,4,5,6,7,8,1,2,3>>)
CAMERA_CAPTURE_STATUS == Message(262, <<<<1,"I">>, <<1,"f">>, <<1,"I">>, <<1,"f">>, <<2,"B">>>>,
  <<0,4,5,1,2,3>>, 12, 12, <<0,3,4,5,1,2>>)
CAMERA_IMAGE_CAPTURED == Text({10}, Arrays(263, <<<<1,"Q">>, <<1,"I">>, <<4,"i">>, <<4,"f">>,
  <<1,"i">>, <<1,"B">>, <<1,"b">>, <<205,"s">>>>, <<1,0,8,2,3,4,5,6,7,9,10>>,
  <<1,1,1,1,1,1,4,1,1,1,1>>, 133, 133, <<1,0,3,4,5,6,7,8,2,9,10>>, <<1,1,1,1,1,1,4,1,1,1,1>>))
FLIGHT_INFORMATION == Message(264, <<<<3,"Q">>, <<1,"I">>>>, <<3,0,1,2>>, 49, 49, <<1,2,3,0>>)
MOUNT_ORIENTATION == Message(265, <<<<1,"I">>, <<4,"f">>>>, <<0,1,2,3,4>>, 26, 26, <<0,1,2,3,4>>)
LOGGING_DATA == Arrays(266, <<<<1,"H">>, <<4,"B">>, <<249,"B">>>>, <<1,2,0,3,4,5>>,
  <<1,1,1,1,1,249>>, 193, 193, <<2,0,1,3,4,5>>, <<1,1,1,1,1,249>>)
LOGGING_DATA_ACKED == Arrays(267, <<<<1,"H">>, <<4,"B">>, <<249,"B">>>>, <<1,2,0,3,4,5>>,
  <<1,1,1,1,1,249>>, 35, 35, <<2,0,1,3,4,5>>, <<1,1,1,1,1,249>>)
LOGGING_ACK == Message(268, <<<<1,"H">>, <<2,"B">>>>, <<1,2,0>>, 14, 14, <<2,0,1>>)
VIDEO_STREAM_INFORMATION == Text({10,11}, Message(269, <<<<1,"f">>, <<1,"I">>, <<5,"H">>, <<3,"B">>,
  <<32,"s">>, <<160,"s">>>>, <<7,8,9,2,0,3,4,1,5,6,10,11>>, 109, 109,
  <<4,7,3,5,6,8,9,0,1,2,10,11>>))
VIDEO_STREAM_STATUS == Message(270, <<<<1,"f">>, <<1,"I">>, <<5,"H">>, <<1,"B">>>>,
  <<7,2,0,3,4,1,5,6>>, 59, 59, <<2,5,1,3,4,6,7,0>>)
WIFI_CONFIG_AP == Text({0,1}, Message(299, <<<<32,"s">>, <<64,"s">>>>, <<0,1>>, 19, 19, <<0,1>>))
PROTOCOL_VERSION == Arrays(300, <<<<3,"H">>, <<8,"B">>, <<8,"B">>>>, <<0,1,2,3,4>>, <<1,1,1,8,8>>,
  217, 217, <<0,1,2,3,4>>, <<1,1,1,8,8>>)
UAVCAN_NODE_STATUS == Message(310, <<<<1,"Q">>, <<1,"I">>, <<1,"H">>, <<3,"B">>>>, <<0,1,3,4,5,2>>,
  28, 28, <<0,1,5,2,3,4>>)
UAVCAN_NODE_INFO == Text({2}, Arrays(311, <<<<1,"Q">>, <<2,"I">>, <<80,"s">>, <<2,"B">>, <<16,"B">>,
  <<2,"B">>>>, <<0,1,3,4,5,6,7,8,2>>, <<1,1,1,1,1,1,16,1,1>>, 95, 95, <<0,1,8,2,3,4,5,6,7>>,
  <<1,1,1,1,1,1,16,1,1>>))
PARAM_EXT_REQUEST_READ == Text({2}, Message(320, <<<<1,"h">>, <<2,"B">>, <<16,"s">>>>, <<1,2,3,0>>,
  243, 243, <<3,0,1,2>>))
PARAM_EXT_REQUEST_LIST == Message(321, <<<<2,"B">>>>, <<0,1>>, 88, 88, <<0,1>>)
PARAM_EXT_VALUE == Text({0,1}, Message(322, <<<<2,"H">>, <<16,"s">>, <<128,"s">>, <<1,"B">>>>,
  <<2,3,4,0,1>>, 243, 243, <<3,4,0,1,2>>))
PARAM_EXT_SET == Text({2,3}, Message(323, <<<<2,"B">>, <<16,"s">>, <<128,"s">>, <<1,"B">>>>,
  <<0,1,2,3,4>>, 78, 78, <<0,1,2,3,4>>))
PARAM_EXT_ACK == Text({0,1}, Message(324, <<<<16,"s">>, <<128,"s">>, <<2,"B">>>>, <<0,1,2,3>>, 132,
  132, <<0,1,2,3>>))
OBSTACLE_DISTANCE == Arrays(330, <<<<1,"Q">>, <<72,"H">>, <<2,"H">>, <<2,"B">>>>, <<0,4,1,5,2,3>>,
  <<1,72,1,1,1,1>>, 23, 23, <<0,2,4,5,1,3>>, <<1,72,1,1,1,1>>)
ODOMETRY == Arrays(331, <<<<1,"Q">>, <<3,"f">>, <<4,"f">>, <<6,"f">>, <<21,"f">>, <<21,"f">>,
  <<2,"B">>>>, <<0,13,14,1,2,3,4,5,6,7,8,9,10,11,12>>, <<1,1,1,1,4,1,1,1,1,1,1,21,21,1,1>>, 91, 91,
  <<0,3,4,5,6,7,8,9,10,11,12,13,14,1,2>>, <<1,1,1,1,4,1,1,1,1,1,1,21,21,1,1>>)
TRAJECTORY_REPRESENTATION_WAYPOINTS == Arrays(332, <<<<1,"Q">>, <<5,"f">>, <<5,"f">>, <<5,"f">>,
  <<5,"f">>, <<5,"f">>, <<5,"f">>, <<5,"f">>, <<5,"f">>, <<5,"f">>, <<5,"f">>, <<5,"f">>,
  <<1,"B">>>>, <<0,12,1,2,3,4,5,6,7,8,9,10,11>>, <<1,5,5,5,5,5,5,5,5,5,5,5,1>>, 91, 91,
  <<0,2,3,4,5,6,7,8,9,10,11,12,1>>, <<1,5,5,5,5,5,5,5,5,5,5,5,1>>)
TRAJECTORY_REPRESENTATION_BEZIER == Arrays(333, <<<<1,"Q">>, <<5,"f">>, <<5,"f">>, <<5,"f">>,
  <<5,"f">>, <<5,"f">>, <<1,"B">>>>, <<0,6,1,2,3,4,5>>, <<1,5,5,5,5,5,1>>, 231, 231,
  <<0,2,3,4,5,6,1>>, <<1,5,5,5,5,5,1>>)
CELLULAR_STATUS == Message(334, <<<<1,"I">>, <<4,"H">>, <<2,"B">>>>, <<1,5,6,2,3,4,0>>, 135, 135,
  <<6,0,3,4,5,1,2>>)
UTM_GLOBAL_POSITION == Arrays(340, <<<<1,"Q">>, <<7,"i">>, <<3,"h">>, <<4,"H">>, <<18,"B">>,
  <<2,"B">>>>, <<0,15,1,2,3,4,8,9,10,11,12,13,5,6,7,14,16,17>>,
  <<1,1,1,1,1,1,1,1,1,1,1,1,1,1,1,18,1,1>>, 99, 99, <<0,2,3,4,5,12,13,14,6,7,8,9,10,11,15,1,16,17>>,
  <<1,1,1,1,1,1,1,1,1,1,1,1,1,1,1,18,1,1>>)
DEBUG_FLOAT_ARRAY == Text({1}, Arrays(350, <<<<1,"Q">>, <<1,"H">>, <<10,"s">>, <<58,"f">>>>,
  <<0,2,1,3>>, <<1,1,1,58>>, 232, 232, <<0,2,1,3>>, <<1,1,1,58>>))
ORBIT_EXECUTION_STATUS == Message(360, <<<<1,"Q">>, <<1,"f">>, <<2,"i">>, <<1,"f">>, <<1,"B">>>>,
  <<0,1,5,2,3,4>>, 11, 11, <<0,1,3,4,5,2>>)
STATUSTEXT_LONG == Text({1}, Message(365, <<<<1,"B">>, <<254,"s">>>>, <<0,1>>, 36, 36, <<0,1>>))
SMART_BATTERY_INFO == Text({5}, Message(370, <<<<3,"i">>, <<5,"H">>, <<1,"B">>, <<50,"s">>>>,
  <<8,0,1,3,2,9,4,5,6,7>>, 98, 98, <<1,2,4,3,6,7,8,9,0,5>>))
SMART_BATTERY_STATUS == Arrays(371, <<<<2,"i">>, <<1,"H">>, <<3,"h">>, <<1,"H">>, <<16,"H">>>>,
  <<2,3,4,5,0,1,6,7>>, <<1,1,1,1,1,1,1,16>>, 161, 161, <<4,5,0,1,2,3,6,7>>, <<1,1,1,1,1,1,1,16>>)
WHEEL_DISTANCE == Arrays(9000, <<<<1,"Q">>, <<16,"d">>, <<1,"B">>>>, <<0,2,1>>, <<1,16,1>>, 113,
  113, <<0,2,1>>, <<1,16,1>>)

\* The messages decode knows.
mavlink_map == {
  HEARTBEAT, SYS_STATUS, SYSTEM_TIME, PING, CHANGE_OPERATOR_CONTROL, CHANGE_OPERATOR_CONTROL_ACK,
  AUTH_KEY, SET_MODE, PARAM_REQUEST_READ, PARAM_REQUEST_LIST, PARAM_VALUE, PARAM_SET, GPS_RAW_INT,
  GPS_STATUS, SCALED_IMU, RAW_IMU, RAW_PRESSURE, SCALED_PRESSURE, ATTITUDE, ATTITUDE_QUATERNION,
  LOCAL_POSITION_NED, GLOBAL_POSITION_INT, RC_CHANNELS_SCALED, RC_CHANNELS_RAW, SERVO_OUTPUT_RAW,
  MISSION_REQUEST_PARTIAL_LIST, MISSION_WRITE_PARTIAL_LIST, MISSION_ITEM, MISSION_REQUEST,
  MISSION_SET_CURRENT, MISSION_CURRENT, MISSION_REQUEST_LIST, MISSION_COUNT, MISSION_CLEAR_ALL,
  MISSION_ITEM_REACHED, MISSION_ACK, SET_GPS_GLOBAL_ORIGIN, GPS_GLOBAL_ORIGIN, PARAM_MAP_RC,
  MISSION_REQUEST_INT, SAFETY_SET_ALLOWED_AREA, SAFETY_ALLOWED_AREA, ATTITUDE_QUATERNION_COV,
  NAV_CONTROLLER_OUTPUT, GLOBAL_POSITION_INT_COV, LOCAL_POSITION_NED_COV, RC_CHANNELS,
  REQUEST_DATA_STREAM, DATA_STREAM, MANUAL_CONTROL, RC_CHANNELS_OVERRIDE, MISSION_ITEM_INT,
  VFR_HUD, COMMAND_INT, COMMAND_LONG, COMMAND_ACK, MANUAL_SETPOINT, SET_ATTITUDE_TARGET,
  ATTITUDE_TARGET, SET_POSITION_TARGET_LOCAL_NED, POSITION_TARGET_LOCAL_NED,
  SET_POSITION_TARGET_GLOBAL_INT, POSITION_TARGET_GLOBAL_INT,
  LOCAL_POSITION_NED_SYSTEM_GLOBAL_OFFSET, HIL_STATE, HIL_CONTROLS, HIL_RC_INPUTS_RAW,
  HIL_ACTUATOR_CONTROLS, OPTICAL_FLOW, GLOBAL_VISION_POSITION_ESTIMATE, VISION_POSITION_ESTIMATE,
  VISION_SPEED_ESTIMATE, VICON_POSITION_ESTIMATE, HIGHRES_IMU, OPTICAL_FLOW_RAD, HIL_SENSOR,
  SIM_STATE, RADIO_STATUS, FILE_TRANSFER_PROTOCOL, TIMESYNC, CAMERA_TRIGGER, HIL_GPS,
  HIL_OPTICAL_FLOW, HIL_STATE_QUATERNION, SCALED_IMU2, LOG_REQUEST_LIST, LOG_ENTRY,
  LOG_REQUEST_DATA, LOG_DATA, LOG_ERASE, LOG_REQUEST_END, GPS_INJECT_DATA, GPS2_RAW, POWER_STATUS,
  SERIAL_CONTROL, GPS_RTK, GPS2_RTK, SCALED_IMU3, DATA_TRANSMISSION_HANDSHAKE, ENCAPSULATED_DATA,
  DISTANCE_SENSOR, TERRAIN_REQUEST, TERRAIN_DATA, TERRAIN_CHECK, TERRAIN_REPORT, SCALED_PRESSURE2,
  ATT_POS_MOCAP, SET_ACTUATOR_CONTROL_TARGET, ACTUATOR_CONTROL_TARGET, ALTITUDE, RESOURCE_REQUEST,
  SCALED_PRESSURE3, FOLLOW_TARGET, CONTROL_SYSTEM_STATE, BATTERY_STATUS, AUTOPILOT_VERSION,
  LANDING_TARGET, ESTIMATOR_STATUS, WIND_COV, GPS_INPUT, GPS_RTCM_DATA, HIGH_LATENCY,
  HIGH_LATENCY2, VIBRATION, HOME_POSITION, SET_HOME_POSITION, MESSAGE_INTERVAL, EXTENDED_SYS_STATE,
  ADSB_VEHICLE, COLLISION, V2_EXTENSION, MEMORY_VECT, DEBUG_VECT, NAMED_VALUE_FLOAT,
  NAMED_VALUE_INT, STATUSTEXT, DEBUG, SETUP_SIGNING, BUTTON_CHANGE, PLAY_TUNE, CAMERA_INFORMATION,
  CAMERA_SETTINGS, STORAGE_INFORMATION, CAMERA_CAPTURE_STATUS, CAMERA_IMAGE_CAPTURED,
  FLIGHT_INFORMATION, MOUNT_ORIENTATION, LOGGING_DATA, LOGGING_DATA_ACKED, LOGGING_ACK,
  VIDEO_STREAM_INFORMATION, VIDEO_STREAM_STATUS, WIFI_CONFIG_AP, PROTOCOL_VERSION,
  UAVCAN_NODE_STATUS, UAVCAN_NODE_INFO, PARAM_EXT_REQUEST_READ, PARAM_EXT_REQUEST_LIST,
  PARAM_EXT_VALUE, PARAM_EXT_SET, PARAM_EXT_ACK, OBSTACLE_DISTANCE, ODOMETRY,
  TRAJECTORY_REPRESENTATION_WAYPOINTS, TRAJECTORY_REPRESENTATION_BEZIER, CELLULAR_STATUS,
  UTM_GLOBAL_POSITION, DEBUG_FLOAT_ARRAY, ORBIT_EXECUTION_STATUS, STATUSTEXT_LONG,
  SMART_BATTERY_INFO, SMART_BATTERY_STATUS, WHEEL_DISTANCE}

Known(id) == \E m \in mavlink_map : m.id = id
Class(id) == CHOOSE m \in mavlink_map : m.id = id
=============================================================================
