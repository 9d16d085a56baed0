---- MODULE CommandAck ----
(* The acknowledgement of one trusted command: the desktop tells the server, once, what came of
   it, under a ticket only the request journal keeps (desktop-authorization-transport-client.ts:
   acknowledge-, inspect- and recoverAuthorizationCommandAck), against the server's transaction
   (control_desktop_authorization_command_ack_store.go). DeviceRequests models lane, journal
   files and sequence numbers of all requests; here the lane lets one request of the operation
   run at a time and the journal keeps one record or none. The callers are outside: none exists
   in src yet. They are taken to do what the comment of the inspection asks: inspect, then
   create, adopt or settle, record the outcome, and only then complete the request. *)
EXTENDS Naturals, FiniteSets

CONSTANTS
    Callers,        \* threads that drive the same command
    Tickets,        \* command tickets, told apart by their hash
    Ticket,         \* the one the server issued for the operation
    Results,        \* results a command can have, with their failure code
    Stale,          \* the result "stale_target"
    MaxTimes,       \* bound on acknowledgements made, each at its own time
    MaxFaults,      \* bound on lost answers, failed writes and hooks, crashes
    None

AckAssumption ==
  /\ Ticket \in Tickets /\ Stale \in Results
  /\ {MaxTimes, MaxFaults} \subseteq Nat

VARIABLES
    command,    \* the durable command record: its result, state, request hash
    journal,    \* the record of the request, or None
    call,       \* where each caller is
    times,      \* times given to acknowledgements so far
    wire,       \* requests on their way
    server,     \* the operation at the server
    heard,      \* bodies that reached the server
    faults

vars == <<command, journal, call, times, wire, server, heard, faults>>
AllButCall == <<command, journal, times, wire, server, heard>>

(* The body names the result and the time; the signature gives a request its hash, so requests of
   different times differ. *)
Body(result, time) == [result |-> result, time |-> time]
Prepared(body) == [ticket |-> Ticket, body |-> body, response |-> None]
Hash(record) == record.body.time

Idle == [at |-> "idle", body |-> None, saw |-> None, answer |-> None]

Init ==
  /\ \E result \in Results :
      command = [result |-> result, state |-> "effect_durable", hash |-> 0]
  /\ journal = None
  /\ call = [c \in Callers |-> Idle]
  /\ times = 0 /\ wire = {}
  /\ server = [status |-> "pending", body |-> None]
  /\ heard = {} /\ faults = 0

Fault == faults < MaxFaults /\ faults' = faults + 1
NoFault == UNCHANGED faults

Over == command.state \in {"acknowledged", "ack_rejected"}
InLane == {"load", "sign", "journal", "prepared", "post", "answer", "record"}
LaneFree == \A c \in Callers : call[c].at \notin InLane

At(c, at) == call[c].at = at
Goes(c, at) == call' = [call EXCEPT ![c].at = at]
Throws(c) == call' = [call EXCEPT ![c] = Idle]

----
(* inspectAuthorizationCommandAck: outside the lane, so the record it answers for may have moved
   on since it was read. *)

(* The ticket is compared by its hash, the body by every field. *)
TicketMatches(record, ticket) == record.ticket = ticket
BodyMatches(record, result) == record.body.result = result

AnyAnswerSucceeds(record, ticket, result) ==                \* seeds a fault
    CASE record = None -> "absent"
      [] OTHER -> IF record.response = None THEN "prepared" ELSE "succeeded"
InspectionOf(record, ticket, result) ==
  CASE record = None -> "absent"
    [] record # None /\ ~(TicketMatches(record, ticket) /\ BodyMatches(record, result)) ->
          "conflict"
    [] OTHER -> CASE record.response = None -> "prepared"
                  [] record.response = "rejected" -> "rejected"
                  [] OTHER -> "succeeded"

ReadForInspection(c) ==
  /\ At(c, "idle") /\ (~Over \/ journal # None)
  /\ call' = [call EXCEPT ![c].at = "inspecting", ![c].saw = journal]
  /\ NoFault /\ UNCHANGED AllButCall
Inspect(c) ==
  /\ At(c, "inspecting")
  /\ call' = [call EXCEPT ![c].at = "inspected",
                          ![c].answer = InspectionOf(call[c].saw, Ticket, command.result)]
  /\ NoFault /\ UNCHANGED AllButCall

Adopted(hash) ==
  IF command.state = "effect_durable"
  THEN [command EXCEPT !.state = "ack_prepared", !.hash = hash] ELSE command

Follow(c) ==
  /\ At(c, "inspected")
  /\ LET answer == call[c].answer  saw == call[c].saw IN
     CASE answer = "absent" /\ command.state = "effect_durable" /\ times < MaxTimes ->
            /\ times' = times + 1
            /\ call' = [call EXCEPT ![c] = [Idle EXCEPT !.at = "create",
                                   !.body = Body(command.result, times + 1)]]
            /\ UNCHANGED <<command, journal>>
       [] answer = "prepared" /\ ~Over ->
            /\ command' = Adopted(Hash(saw))
            /\ Goes(c, "recover") /\ UNCHANGED <<journal, times>>
       [] answer \in {"succeeded", "rejected"} /\ ~Over ->
            /\ command' = [Adopted(Hash(saw)) EXCEPT !.state =
                  IF answer = "succeeded" THEN "acknowledged" ELSE "ack_rejected"]
            /\ Throws(c) /\ UNCHANGED <<journal, times>>
       [] answer \in {"succeeded", "rejected"} /\ Over ->
            /\ journal' = IF journal # None /\ Hash(journal) = Hash(saw) THEN None ELSE journal
            /\ Throws(c) /\ UNCHANGED <<command, times>>
       [] OTHER -> Throws(c) /\ UNCHANGED <<command, journal, times>>
  /\ NoFault /\ UNCHANGED <<wire, server, heard>>

----
(* A request in the lane. *)

Holding(c, record, at) == call' = [call EXCEPT ![c].saw = record, ![c].at = at]

(* runTrusted: a record of the same body is sent on; one that differs is a conflict. *)
AcknowledgeAuthorizationCommand(c) ==
  /\ At(c, "create") /\ LaneFree
  /\ CASE journal = None -> Goes(c, "journal")
       [] journal # None /\ journal.body = call[c].body -> Holding(c, journal, "prepared")
       [] OTHER -> Throws(c)
  /\ NoFault /\ UNCHANGED AllButCall

(* runRecoveredTrusted: only the very request the command names. *)
RecoverAuthorizationCommandAck(c) ==
  /\ At(c, "recover") /\ LaneFree
  /\ IF \/ journal = None
        \/ Hash(journal) # command.hash
        \/ ~BodyMatches(journal, command.result)
     THEN Throws(c) ELSE Holding(c, journal, "prepared")
  /\ NoFault /\ UNCHANGED AllButCall

CreateRecord(c) ==
  /\ At(c, "journal")
  /\ LET record == Prepared(call[c].body) IN
     \/ journal' = record /\ Holding(c, record, "prepared") /\ NoFault
     \/ journal' \in {journal, record} /\ Throws(c) /\ Fault
  /\ UNCHANGED <<command, times, wire, server, heard>>

(* onPrepared: the command record names the request before it is sent; one that names another
   refuses. *)
OnPrepared(c) ==
  /\ At(c, "prepared")
  /\ LET hash == Hash(call[c].saw)  named == Adopted(hash) IN
     \/ named.hash = hash /\ command' = named /\ Goes(c, "post") /\ NoFault
     \/ named.hash # hash /\ UNCHANGED command /\ Throws(c) /\ NoFault
     \/ command' \in {command, named} /\ Throws(c) /\ Fault
  /\ UNCHANGED <<journal, times, wire, server, heard>>

(* finishPreparedRequest *)
Post(c) ==
  /\ At(c, "post")
  /\ IF call[c].saw.response # None THEN Throws(c) /\ UNCHANGED wire
     ELSE Goes(c, "answer") /\ wire' = wire \cup {call[c].saw}
  /\ NoFault /\ UNCHANGED <<command, journal, times, server, heard>>

(* The answer is late or lost. *)
TimeOut(c) ==
  /\ At(c, "answer") /\ Throws(c)
  /\ (call[c].saw \notin wire /\ NoFault) \/ Fault
  /\ UNCHANGED AllButCall

(* validateAuthorizationCommandResponse: the result that was told, or that its target was stale. *)
ValidResponse(status, result) == status \in {result, Stale}

(* A refusal for good is recorded like an answer, on the record as it was. *)
Recordable(c) ==
  /\ journal # None
  /\ journal = call[c].saw
  /\ call[c].answer = "rejected" \/ ValidResponse(call[c].answer, journal.body.result)
RecordResponse(c) ==
  /\ At(c, "record")
  /\ LET answered == [journal EXCEPT !.response = call[c].answer] IN
     \/ /\ journal' = IF Recordable(c) THEN answered ELSE journal
        /\ NoFault
     \/ Recordable(c) /\ journal' \in {journal, answered} /\ Fault
  /\ Throws(c)
  /\ UNCHANGED <<command, times, wire, server, heard>>

Crash ==
  /\ \E c \in Callers : ~At(c, "idle")
  /\ Fault /\ call' = [c \in Callers |-> Idle]
  /\ UNCHANGED AllButCall

----
(* The server. What it once refused for good (a time out of its window, a device revoked) it goes
   on refusing. *)

Told(c, request, answer) ==
  /\ At(c, "answer") /\ call[c].saw = request
  /\ call' = [call EXCEPT ![c].at = "record", ![c].answer = answer]
Answers(request, answer) ==
  \/ \E c \in Callers : Told(c, request, answer) /\ NoFault
  \/ /\ UNCHANGED call
     /\ IF \E c \in Callers : At(c, "answer") /\ call[c].saw = request THEN Fault ELSE NoFault

AcknowledgeDesktopAuthorizationCommand(request) ==
  /\ request \in wire /\ wire' = wire \ {request}
  /\ heard' = heard \cup {request.body}
  /\ CASE server.status = "pending" ->
            \/ \E status \in {request.body.result, Stale} :
                 /\ request.ticket = Ticket
                 /\ server' = [status |-> status, body |-> request.body]
                 /\ Answers(request, status)
            \/ /\ server' = [server EXCEPT !.status = "refusing"]
               /\ Answers(request, "rejected")
       [] server.status = "refusing" -> Answers(request, "rejected") /\ UNCHANGED server
       [] OTHER ->
            /\ Answers(request, IF server.body = request.body THEN server.status ELSE "rejected")
            /\ UNCHANGED server
  /\ UNCHANGED <<command, journal, times>>

----
CallerStep(c) ==
  \/ ReadForInspection(c) \/ Inspect(c) \/ Follow(c)
  \/ AcknowledgeAuthorizationCommand(c) \/ RecoverAuthorizationCommandAck(c)
  \/ CreateRecord(c) \/ OnPrepared(c) \/ Post(c) \/ RecordResponse(c)
ServerStep == \E request \in wire : AcknowledgeDesktopAuthorizationCommand(request)

Next ==
  \/ \E c \in Callers : CallerStep(c) \/ TimeOut(c)
  \/ ServerStep
  \/ Crash

Spec == Init /\ [][Next]_vars
(* A request is answered or times out; a caller whose request threw tries again. *)
FairSpec ==
  /\ Spec
  /\ WF_vars(ServerStep)
  /\ \A c \in Callers : SF_vars(CallerStep(c)) /\ WF_vars(TimeOut(c))

----
(* What the command record is closed with is what the server did: told "acknowledged", the server
   keeps this command's result or found its target stale; told "rejected", it keeps none. And no
   other ticket is told anything of the request. *)
EvidenceIsTrue ==
  /\ command.state = "acknowledged" =>
      server.body # None /\ server.body.result = command.result
          /\ server.status \in {command.result, Stale}
  /\ command.state = "ack_rejected" => server.body = None
  /\ \A ticket \in Tickets \ {Ticket} :
      InspectionOf(journal, ticket, command.result) \in {"absent", "conflict"}

(* However often it is retried, adopted and recovered, by whichever of the callers, the server
   hears a single body. *)
OneBodyIsHeard == Cardinality(heard) <= 1

(* A request the command names is the one in the journal until the command is closed: its
   recovery finds it. *)
NamedIsJournaled ==
  command.state = "ack_prepared" => journal # None /\ Hash(journal) = command.hash
====
