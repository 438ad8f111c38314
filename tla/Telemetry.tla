------------------------------ MODULE Telemetry ------------------------------
(***************************************************************************)
(* sensor_thread of config/UgvCore.cpp, which reads the sensors and joints *)
(* into buffers it keeps, the T line publish_telemetry makes of them, and  *)
(* the frame parse_telemetry_line of the Rust API reads from that line.    *)
(*                                                                         *)
(* A line is the sequence of the parts its '|' separate, each <<kind, n>>: *)
(* an "integer" without a sign, any other number (a "double"), the id of a *)
(* "joint", another "word", or the "text" or "binary" a base64 string      *)
(* decodes to.  A name is the parts it has.  A reading, a finite double,   *)
(* is a whole number of 1/Unit.                                            *)
(***************************************************************************)
EXTENDS Integers, Sequences, SequencesExt

CONSTANTS
  Names,        \* of a joint: one part, or more when the name has a '|'
  Unit,         \* a power of ten
  Readings,     \* <<position, velocity, load>> a joint may have
  JointCounts,  \* how many joints the drives may have
  Counts,       \* how many ids, types and payloads a sensor frame may have
  MaxCycles     \* bound: turns of the sensor loop

ASSUME TelemetryAssumption ==
  /\ Names \subseteq Seq({"integer", "double", "word"} \X Nat)
  /\ Unit \in Nat \ {0} /\ Readings \subseteq Int \X Int \X Int
  /\ JointCounts \subseteq Nat /\ Counts \subseteq Nat /\ MaxCycles \in Nat

VARIABLES
  sensor,     \* next step of the loop: "off", "read", "clear", "publish", "poll"
  cycle,
  frame,      \* frame, kept from one turn of the loop to the next
  joints,     \* joints, likewise
  has,        \* has_frame and has_joints of this turn
  written,    \* the T line of this turn
  polled      \* what the client makes of it: a set of at most one frame

telemetryVars == <<sensor, cycle, frame, joints, has, written, polled>>

Number(n) == <<"integer", n>>
Word(n) == <<"word", n>>
JointId(n) == <<"joint", n>>

EmptyFrame == [timestamp |-> 0, ids |-> <<>>, types |-> <<>>, payloads |-> <<>>]

TelemetryInit ==
  /\ cycle = 0 /\ frame = EmptyFrame /\ joints = <<>>
  /\ has = [frame |-> FALSE, joints |-> FALSE]
  /\ written = <<>> /\ polled = {}

-----------------------------------------------------------------------------
(* ISensorSuite::read_frame and IDriveSystem::read_joint_states fill their *)
(* argument, or answer false and leave in it what they please.  Everything *)
(* read in a turn carries its number.                                      *)

ReadFrames(n) ==
  {[timestamp |-> n, ids |-> [k \in 1..a |-> Word(n)],
    types |-> [k \in 1..b |-> Word(n)], payloads |-> [k \in 1..c |-> <<kind, n>>]] :
     a \in Counts, b \in Counts, c \in Counts, kind \in {"text", "binary"}}

ReadJoints(n) ==
  UNION {[1..c -> {[id |-> JointId(n), name |-> name,
                    position |-> r[1], velocity |-> r[2], load |-> r[3]] :
                     name \in Names, r \in Readings}] : c \in JointCounts}

ReadSensors ==
  /\ sensor = "read" /\ cycle < MaxCycles
  /\ cycle' = cycle + 1
  /\ frame' \in ReadFrames(cycle + 1) \cup {[frame EXCEPT !.timestamp = cycle + 1]}
  /\ joints' \in ReadJoints(cycle + 1) \cup {joints}
  /\ has' \in {h \in [frame : BOOLEAN, joints : BOOLEAN] :
                 /\ h.frame => frame' \in ReadFrames(cycle + 1)
                 /\ h.joints => joints' \in ReadJoints(cycle + 1)}
  /\ sensor' = "clear"
  /\ UNCHANGED <<written, polled>>

ClearStale_JointsOnly ==   \* mutant: the sensors of an earlier turn stay
  /\ sensor = "clear"
  /\ joints' = IF has.joints THEN joints ELSE <<>>
  /\ sensor' = "publish"
  /\ UNCHANGED <<cycle, frame, has, written, polled>>

ClearStale ==
  /\ sensor = "clear"
  /\ frame' = IF has.frame THEN frame ELSE [EmptyFrame EXCEPT !.timestamp = frame.timestamp]
  /\ joints' = IF has.joints THEN joints ELSE <<>>
  /\ sensor' = "publish"
  /\ UNCHANGED <<cycle, has, written, polled>>

-----------------------------------------------------------------------------
(* publish_telemetry.  operator<< prints a double as %g does: its six      *)
(* leading digits, a tie going to the even one, and no zeros that end it.  *)

(* The place of the sixth digit of n.                                      *)
Sixth[n \in Nat] == IF n < 1000000 THEN 1 ELSE 10 * Sixth[n \div 10]

HalfEven(n, place) ==
  LET digits == n \div place
      rest   == 2 * (n % place)
      up     == rest > place \/ (rest = place /\ digits % 2 = 1)
  IN place * (IF up THEN digits + 1 ELSE digits)

Rounded(p) == IF p < 0 THEN -HalfEven(-p, Sixth[-p]) ELSE HalfEven(p, Sixth[p])

(* Digits alone, without a sign, a point or an exponent.                   *)
Plainly(p) == p \in Nat /\ p < 1000000 * Unit /\ p % Unit = 0
Printed(p) == IF Plainly(Rounded(p)) THEN Number(Rounded(p) \div Unit)
              ELSE <<"double", Rounded(p)>>

JointParts(j) ==
  <<j.id>> \o j.name \o << Printed(j.position), Printed(j.velocity), Printed(j.load) >>

SmallerOf(m, n) == IF n < m THEN n ELSE m
SensorCount(f) == SmallerOf(Len(f.ids), SmallerOf(Len(f.types), Len(f.payloads)))

Line(f, js, count) ==
  << Word(0), Number(f.timestamp), Number(Len(js)) >>
  \o FlattenSeq([k \in 1..Len(js) |-> JointParts(js[k])])
  \o << Number(count) >>
  \o FlattenSeq([k \in 1..SensorCount(f) |-> <<f.ids[k], f.types[k], f.payloads[k]>>])

(* The line, or none when the file cannot be opened.                       *)
PublishTelemetry_CountIds ==   \* mutant: announces ids.size() sensors
  /\ sensor = "publish"
  /\ \/ written' = Line(frame, joints, Len(frame.ids)) /\ sensor' = "poll"
     \/ written' = <<>> /\ sensor' = "read"
  /\ UNCHANGED <<cycle, frame, joints, has, polled>>

PublishTelemetry ==
  /\ sensor = "publish"
  /\ \/ written' = Line(frame, joints, SensorCount(frame)) /\ sensor' = "poll"
     \/ written' = <<>> /\ sensor' = "read"
  /\ UNCHANGED <<cycle, frame, joints, has, polled>>

-----------------------------------------------------------------------------
(* parse_telemetry_line: a part of the wrong kind, or too few parts, and   *)
(* the line is no frame; parts left over are ignored.                      *)

IsInteger(part) == part[1] = "integer"
IsDouble(part)  == part[1] \in {"integer", "double"}
Reading(part)   == IF IsInteger(part) THEN Unit * part[2] ELSE part[2]

Parsed(line) ==
  LET n == line[3][2]
      m == line[4 + 5 * n][2]
      J(k) == 5 * k - 1
      S(k) == 5 * n + 3 * k + 2
      whole ==
        /\ Len(line) >= 4 + 5 * n
        /\ \A k \in 1..n : \A r \in 2..4 : IsDouble(line[J(k) + r])
        /\ IsInteger(line[4 + 5 * n])
        /\ Len(line) >= 4 + 5 * n + 3 * m
        /\ \A k \in 1..m : line[S(k) + 2][1] = "text"
  IN IF ~whole THEN {}
     ELSE {[timestamp |-> line[2][2],
            joints |-> [k \in 1..n |->
                          [id |-> line[J(k)], name |-> <<line[J(k) + 1]>>,
                           position |-> Reading(line[J(k) + 2]),
                           velocity |-> Reading(line[J(k) + 3]),
                           load |-> Reading(line[J(k) + 4])]],
            payloads |-> [k \in 1..m |-> <<line[S(k)], line[S(k) + 1], line[S(k) + 2]>>]]}

PollTelemetry ==
  /\ sensor = "poll"
  /\ polled' = Parsed(written)
  /\ sensor' = "read"
  /\ UNCHANGED <<cycle, frame, joints, has, written>>

TelemetryStep == ReadSensors \/ ClearStale \/ PublishTelemetry \/ PollTelemetry

-----------------------------------------------------------------------------
(* Properties *)

(* The client reads the frame the core published: every joint in its       *)
(* place, its readings to six digits, and each sensor that has an id, a    *)
(* type and a payload.  It reads none of it when one payload is not text;  *)
(* and a '|' in a name, which publish_telemetry does not escape, is        *)
(* outside the promise.                                                    *)
AsPublished ==
  [timestamp |-> frame.timestamp,
   joints |-> [k \in 1..Len(joints) |->
                 [joints[k] EXCEPT !.position = Rounded(@), !.velocity = Rounded(@),
                                   !.load = Rounded(@)]],
   payloads |-> [k \in 1..SensorCount(frame) |->
                   <<frame.ids[k], frame.types[k], frame.payloads[k]>>]]

TelemetrySurvives ==
  sensor = "read" /\ written # <<>> /\ (\A k \in 1..Len(joints) : Len(joints[k].name) = 1) =>
    polled = IF \A k \in 1..SensorCount(frame) : frame.payloads[k][1] = "text"
             THEN {AsPublished} ELSE {}

(* A published line holds nothing the sensors or drives said in an earlier *)
(* turn, or in a read they answered false to.                              *)
FrameFresh ==
  sensor = "poll" =>
    \A k \in 1..Len(written) :
      /\ written[k][1] \in {"text", "binary"} => has.frame /\ written[k][2] = cycle
      /\ written[k][1] = "joint" => has.joints /\ written[k][2] = cycle
=============================================================================
