----------------------------- MODULE CommandWire -----------------------------
(***************************************************************************)
(* What the files of the core say.  A command line from encode_command of  *)
(* the Rust API through pump_rx, base64_decode and the router's handlers;  *)
(* a result from publish_command_result back to parse_result_line; and the *)
(* journeys of Base64, Telemetry and Checksum.  Every behaviour is one     *)
(* journey: the values are what is checked here, the interleavings of      *)
(* readers and writers are CommandBridge's and StateStore's.               *)
(*                                                                         *)
(* A field of a line is the number std::stoull reads from it, Junk when it *)
(* has no digits, or TooBig.                                               *)
(***************************************************************************)
EXTENDS Base64, Telemetry, Checksum

CONSTANTS
  Sent,      \* envelopes a client sends
  Lines,     \* lines another program may write: [fields, text, input, of]
  Messages   \* of a result

Junk   == -1
TooBig == -2

(* The enumerations of models/enums.                                       *)
UgvCommand ==
  [FollowPath |-> 100, GoTo |-> 101, Stop |-> 102, HoldPosition |-> 103,
   Anchor |-> 104, ReplanTo |-> 105, Loiter |-> 106, ReturnToBase |-> 107,
   FollowTarget |-> 108, Evade |-> 109, Dock |-> 110,
   SetSpeedLimit |-> 200, SetStance |-> 201, AlignHeading |-> 202,
   FaceTarget |-> 203, Stabilize |-> 204,
   ScanArea |-> 300, Observe |-> 301, FocusSensor |-> 302,
   TrackEntity |-> 303, CalibrateSensors |-> 304,
   Sentinel |-> 400, SecureArea |-> 401, Escort |-> 402, Checkpoint |-> 403,
   Investigate |-> 404, Shadow |-> 405,
   ExecuteMission |-> 500, AbortMission |-> 501, PauseMission |-> 502,
   ResumeMission |-> 503, Wait |-> 504, HandoffControl |-> 505,
   Signal |-> 600, Broadcast |-> 601, Acknowledge |-> 602,
   RequestAssistance |-> 603,
   EmergencyStop |-> 700, SafeMode |-> 701, SelfCheck |-> 702,
   Recover |-> 703, Shutdown |-> 704, Reboot |-> 705,
   SetRuleset |-> 800, SetOwnership |-> 801, LockCommandSet |-> 802,
   UnlockCommandSet |-> 803]

CommandStatus ==
  [None |-> 0, Received |-> 1, Accepted |-> 2, Rejected |-> 3, Running |-> 4,
   Succeeded |-> 5, Failed |-> 6, Aborted |-> 7, Preempted |-> 8, Expired |-> 9]

RejectReason ==
  [None |-> 0, NotAuthorized |-> 1, InvalidPayload |-> 2, Unsupported |-> 3,
   Unsafe |-> 4, Busy |-> 5, PreconditionsFail |-> 6, Timeout |-> 7,
   StaleCommand |-> 8]

CommandDomain ==
  [Mobility |-> 0, Posture |-> 1, Perception |-> 2, Security |-> 3, Mission |-> 4,
   Interaction |-> 5, Health |-> 6, Authority |-> 7]
CommandAuthority ==
  [Unknown |-> 0, Autonomy |-> 1, RemoteOperator |-> 2, MissionControl |-> 3,
   SafetySystem |-> 4]
CommandPriority == [Background |-> 0, Normal |-> 1, High |-> 2, Critical |-> 3]

Numbers(enum) == {enum[name] : name \in DOMAIN enum}

(* The numbers of the Rust API's own UgvCommand.                           *)
ApiCommands ==
  (100..110) \cup (200..204) \cup (300..304) \cup (400..405) \cup (500..505)
    \cup (600..603) \cup (700..705) \cup (800..803)

Envelopes ==
  [id : Nat, command : ApiCommands, domain : Numbers(CommandDomain),
   priority : Numbers(CommandPriority), authority : Numbers(CommandAuthority),
   issued : Nat, ttl : Nat, payload : Seq(Bytes)]

Fields == Nat \cup {Junk, TooBig}
Letters == {"a", "|", "/"}

ASSUME WireAssumption ==
  /\ Sent \subseteq Envelopes
  /\ Lines \subseteq [fields : Seq(Fields), text : Seq(Symbols), input : {<<>>}, of : {{}}]
  /\ Messages \subseteq Seq(Letters)

Results ==
  [status : DOMAIN CommandStatus, reason : DOMAIN RejectReason, message : Messages]

(* The commands register_default_command_handlers registers, by hand or    *)
(* with register_stub, and what their handlers return.                     *)
ByHand == {"EmergencyStop", "Shutdown", "Stop", "Wait", "Reboot", "FollowPath",
           "GoTo", "SafeMode", "SelfCheck", "CalibrateSensors", "Signal"}
Stubbed ==
  {"HoldPosition", "Anchor", "ReplanTo", "Loiter", "ReturnToBase",
   "FollowTarget", "Evade", "Dock", "SetSpeedLimit", "SetStance",
   "AlignHeading", "FaceTarget", "Stabilize", "ScanArea", "Observe",
   "FocusSensor", "TrackEntity", "Sentinel", "SecureArea", "Escort",
   "Checkpoint", "Investigate", "Shadow", "ExecuteMission", "AbortMission",
   "PauseMission", "ResumeMission", "HandoffControl", "Broadcast",
   "Acknowledge", "RequestAssistance", "Recover", "SetRuleset",
   "SetOwnership", "LockCommandSet", "UnlockCommandSet"}

Registered == ByHand \cup Stubbed

(* Stop answers Rejected under the latch, with RejectReason::SafetyLockout,*)
(* which the enumeration does not declare: any of its members below.       *)
HandlerStatuses(name) ==
  CASE name \in {"EmergencyStop", "Shutdown"} -> {"Succeeded"}
    [] name = "Stop" -> {"Succeeded", "Rejected"}
    [] OTHER -> {"Accepted"}

-----------------------------------------------------------------------------
VARIABLES
  leg,      \* where the journey is
  line,     \* the command line, with the envelope it was made of, if any
  env,      \* the CommandEnvelope pump_rx makes of it
  ran,      \* the command whose handler ran, or "none"
  result,   \* the CommandResult
  resultLine,   \* its R line
  event     \* the CommandResultEvent the client polls

ownVars == <<leg, line, env, ran, result, resultLine, event>>
otherVars == <<telemetryVars, checksumVars>>
wireVars == <<ownVars, codecVars, otherVars>>

NoEnvelope == [id |-> 0, command |-> 102, domain |-> 0, priority |-> 1,
               authority |-> 0, issued |-> 0, ttl |-> 0, payload |-> <<>>]
NoResult == [status |-> "None", reason |-> "None", message |-> <<>>]

NoLine == [fields |-> <<>>, text |-> <<>>, input |-> <<>>, of |-> {}]

(* encode_command; the client encodes the payload as the standard says.    *)
LineOf(e) ==
  [fields |-> <<e.id, e.command, e.domain, e.priority, e.authority, e.issued, e.ttl>>,
   text |-> Standard(e.payload), input |-> e.payload, of |-> {e}]

CodecIdle == at = "idle" /\ i = 0 /\ ok = TRUE /\ output = <<>>
ChecksumIdle ==
  /\ data = << <<>>, <<>> >> /\ taken = 0 /\ turn = 8
  /\ crc = [s \in Sides |-> 0..31]
AtRest == line = NoLine /\ input = <<>> /\ text = <<>>

WireInit ==
  /\ \/ leg = "codec" /\ Init /\ line = NoLine
        /\ sensor = "off" /\ result = NoResult
     \/ leg = "line" /\ CodecIdle /\ sensor = "off" /\ result = NoResult
        /\ line \in {LineOf(e) : e \in Sent} \cup Lines
        /\ input = line.input /\ text = line.text
     \/ leg = "result" /\ CodecIdle /\ AtRest /\ sensor = "off" /\ result \in Results
     \/ leg = "telemetry" /\ CodecIdle /\ AtRest /\ sensor = "read" /\ result = NoResult
     \/ leg = "state" /\ CodecIdle /\ AtRest /\ sensor = "off" /\ result = NoResult
  /\ IF leg = "state" THEN ChecksumInit ELSE ChecksumIdle
  /\ TelemetryInit
  /\ env = NoEnvelope /\ ran = "none" /\ resultLine = <<>> /\ event = NoResult

-----------------------------------------------------------------------------
(* pump_rx: nine parts, seven of them numbers, cut to the width of their   *)
(* enumeration.  std::getline finds no ninth part behind the last '|'.     *)

U8  == 256      \* 2 ^ 8
U16 == 65536    \* 2 ^ 16
Cut(n, width) == n % width

Malformed == Len(line.fields) < 7 \/ line.text = <<>>
Unreadable == \E k \in 1..Len(line.fields) : line.fields[k] \in {Junk, TooBig}

Drop ==
  /\ leg = "line" /\ (Malformed \/ Unreadable)
  /\ leg' = "dropped"
  /\ UNCHANGED <<line, env, ran, result, resultLine, event, codecVars, otherVars>>

Envelope(f) ==
  [id |-> f[1], command |-> Cut(f[2], U16), domain |-> Cut(f[3], U8),
   priority |-> Cut(f[4], U8), authority |-> Cut(f[5], U8),
   issued |-> f[6], ttl |-> f[7], payload |-> <<>>]

Parse_Swapped(f) ==   \* mutant: takes the authority for the priority
  [Envelope(f) EXCEPT !.priority = Cut(f[5], U8), !.authority = Cut(f[4], U8)]

Parse(f) == Envelope(f)

ReadLine_Default ==   \* mutant: goes on after catch, with the default command
  /\ leg = "line" /\ ~Malformed
  /\ env' = IF Unreadable THEN [NoEnvelope EXCEPT !.id = line.fields[1]]
            ELSE Parse(line.fields)
  /\ leg' = "payload" /\ at' = "decode"
  /\ UNCHANGED <<line, ran, result, resultLine, event, input, text, i, ok, output, otherVars>>

ReadLine ==
  /\ leg = "line" /\ ~Malformed /\ ~Unreadable
  /\ env' = Parse(line.fields)
  /\ leg' = "payload" /\ at' = "decode"
  /\ UNCHANGED <<line, ran, result, resultLine, event, input, text, i, ok, output, otherVars>>

(* A payload that does not decode is submitted empty; submit refuses an id *)
(* of 0, and nobody hears of it.                                           *)
Submit ==
  /\ leg = "payload" /\ at = "decoded"
  /\ env' = [env EXCEPT !.payload = output]
  /\ leg' = IF env.id = 0 THEN "refused" ELSE "queued"
  /\ UNCHANGED <<line, ran, result, resultLine, event, codecVars, otherVars>>

(* process_one; the age of the command is a matter of CommandRouter.       *)
ProcessOne ==
  /\ leg = "queued"
  /\ \/ /\ env.ttl # 0 /\ env.issued # 0
        /\ result' = [NoResult EXCEPT !.status = "Rejected", !.reason = "StaleCommand"]
        /\ UNCHANGED ran
     \/ /\ \A name \in Registered : UgvCommand[name] # env.command
        /\ result' = [NoResult EXCEPT !.status = "Rejected", !.reason = "Unsupported"]
        /\ UNCHANGED ran
     \/ \E name \in Registered :
          /\ UgvCommand[name] = env.command /\ ran' = name
          /\ result' \in [status : HandlerStatuses(name), reason : DOMAIN RejectReason,
                         message : Messages]
          /\ result'.status # "Rejected" => result'.reason = "None"
  /\ leg' = "result"
  /\ UNCHANGED <<line, env, resultLine, event, codecVars, otherVars>>

(* publish_command_result: a '|' of the message becomes a '/'.             *)
Spelled(message) ==
  [k \in 1..Len(message) |-> IF message[k] = "|" THEN "/" ELSE message[k]]

PublishResult_Raw ==   \* mutant: writes the message as it is
  /\ leg = "result"
  /\ resultLine' = <<env.id, CommandStatus[result.status], RejectReason[result.reason],
                     result.message>>
  /\ leg' = "published"
  /\ UNCHANGED <<line, env, ran, result, event, codecVars, otherVars>>

PublishResult ==
  /\ leg = "result"
  /\ resultLine' = <<env.id, CommandStatus[result.status], RejectReason[result.reason],
                     Spelled(result.message)>>
  /\ leg' = "published"
  /\ UNCHANGED <<line, env, ran, result, event, codecVars, otherVars>>

(* status_from_u16, reject_from_u16, and parse_result_line, which takes    *)
(* the message up to the next '|'.                                         *)
StatusFromU16(n) ==
  IF n \in 1..9
  THEN <<"Received", "Accepted", "Rejected", "Running", "Succeeded", "Failed",
         "Aborted", "Preempted", "Expired">>[n]
  ELSE "None"
RejectFromU16(n) ==
  IF n \in 1..8
  THEN <<"NotAuthorized", "InvalidPayload", "Unsupported", "Unsafe", "Busy",
         "PreconditionsFail", "Timeout", "StaleCommand">>[n]
  ELSE "None"

FirstPart(message) ==
  LET bars == {k \in 1..Len(message) : message[k] = "|"} IN
  IF bars = {} THEN message
  ELSE SubSeq(message, 1, (CHOOSE k \in bars : \A b \in bars : k <= b) - 1)

PollResult ==
  /\ leg = "published"
  /\ event' = [status |-> StatusFromU16(resultLine[2]),
               reason |-> RejectFromU16(resultLine[3]),
               message |-> FirstPart(resultLine[4])]
  /\ leg' = "polled"
  /\ UNCHANGED <<line, env, ran, result, resultLine, codecVars, otherVars>>

WireNext ==
  \/ leg = "codec" /\ (CodecStep \/ HandOver) /\ UNCHANGED <<ownVars, otherVars>>
  \/ leg = "telemetry" /\ TelemetryStep /\ UNCHANGED <<ownVars, codecVars, checksumVars>>
  \/ leg = "state" /\ ChecksumStep /\ UNCHANGED <<ownVars, codecVars, telemetryVars>>
  \/ leg = "payload" /\ CodecStep /\ UNCHANGED <<ownVars, otherVars>>
  \/ Drop \/ ReadLine \/ Submit \/ ProcessOne \/ PublishResult \/ PollResult

WireSpec == WireInit /\ [][WireNext]_wireVars
-----------------------------------------------------------------------------
(* Properties *)

Queued == leg \in {"queued", "result", "published", "polled"}

(* What a client sends is what the router is given, field by field and     *)
(* byte by byte; it is dropped only for an empty payload and refused only  *)
(* for an id of 0.                                                         *)
ParsedAsSent ==
  \A e \in line.of :
    /\ Queued => env = e
    /\ leg = "dropped" => e.payload = <<>>
    /\ leg = "refused" => e.id = 0

(* Whoever wrote the line, a handler runs only for the number of its own   *)
(* command, or for one whose low 16 bits are that number: no default value *)
(* of an envelope and no field that is not a number runs one.  And every   *)
(* command of the Rust API has a handler, which runs unless it is too old. *)
RightHandler ==
  /\ ran # "none" => line.fields[2] >= 0 /\ Cut(line.fields[2], U16) = UgvCommand[ran]
  /\ line.of # {} /\ leg \in {"result", "published", "polled"} =>
       ran # "none" \/ result.reason = "StaleCommand"

(* A client polls the status, the reason and the message the core gave,    *)
(* whatever its members and although the message may hold the separator.   *)
ResultSurvives ==
  leg = "polled" => event = [result EXCEPT !.message = Spelled(@)]
=============================================================================
