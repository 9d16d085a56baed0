---- MODULE DeviceRequests ----
(* The signed requests of a registered desktop: the lane that lets out one of them, the journal
   that keeps each until its answer is settled, the transport and binding client, the heartbeat,
   the server's replay ledger. An await is an action. A journal operation is a sequence of images
   of the record's two files, one per durable write, and may fail or stop after any. *)
EXTENDS Naturals, FiniteSets, Sequences

CONSTANTS
    Sessions,       \* references of requests a session record tracks
    Renewals,       \* references of activation lease renewals
    Bindings,       \* references of executor bindings
    None,
    Torn,           \* a file whose content was never synced
    Empty,          \* a file opened and not yet written
    MaxSequence,    \* bound on signed requests
    MaxFaults       \* bound on failures, lost answers, cancellations, crashes

References == Sessions \cup Renewals \cup Bindings

BoundsAssumption == {MaxSequence, MaxFaults} \subseteq Nat
ReferencesAssumption ==
  /\ {None, Torn, Empty} \cap References = {}
  /\ Sessions \cap Renewals = {} /\ Sessions \cap Bindings = {}
  /\ Renewals \cap Bindings = {}

VARIABLES
    counter,    \* high water of the identity store: the last sequence signed
    journal,    \* <reference>.sec and <reference>.sec.tmp of each reference
    lane,       \* the pin and the startup fence
    op,         \* the operation at the head of the lane
    session,    \* what the durable session record says of its request
    owner,      \* in memory: the answers a workflow has still to settle
    server,     \* last accepted sequence, ledger
    wire,       \* requests sent and not yet served
    faults

vars == <<counter, journal, lane, op, session, owner, server, wire, faults>>
Outside == <<counter, session, owner, server, wire>>

FailClosed == "fail_closed"     \* FAIL_CLOSED_REFERENCE
Beat == "heartbeat"

Idle == [ref |-> None, pc |-> "load", recover |-> FALSE, seq |-> 0,
         heard |-> "none"]

Blank == [target |-> None, temp |-> None]

Init ==
  /\ counter = 0
  /\ journal = [r \in References |-> Blank]
  /\ lane = [pin |-> None, fence |-> "unread"]
  /\ op = Idle
  /\ session = [r \in Sessions |-> "idle"]
  /\ owner = {}
  /\ server = [last |-> 0, ledger |-> {}]
  /\ wire = {}
  /\ faults = 0

----
(* The journal. *)

(* writeAtomic: the temporary is opened, written, synced, renamed. *)
WriteAtomic(f, record) ==
  LET opened == [f EXCEPT !.temp = Empty]
      written == [f EXCEPT !.temp = Torn]
      synced == [f EXCEPT !.temp = record]
  IN  <<f, opened, written, synced, [target |-> record, temp |-> None]>>

(* Any operation first refuses an empty temporary, and throws; it removes any other whose target
   exists, and adopts one that has none. *)
RepairTemporary(f) ==
  IF f.temp \in {None, Empty} THEN f
  ELSE IF f.target # None THEN [f EXCEPT !.temp = None]
  ELSE [target |-> f.temp, temp |-> None]

(* The repair and loadLocked, which throws on a file it cannot decrypt. *)
Unreadable(f) == f.temp = Empty \/ f.target = Torn
Repaired(r) == RepairTemporary(journal[r])
Corrupt(r) == Unreadable(Repaired(r))
Present(r) == ~Corrupt(r) /\ Repaired(r).target # None
Stored(r) == Repaired(r).target
(* Whole on disk. *)
Kept(r) == Stored(r) \notin {None, Torn}
Unanswered(r) == Kept(r) /\ Stored(r).response = "none"

Holds(r, image) == journal' = [journal EXCEPT ![r] = image]
LastOf(images) == images[Len(images)]
(* A write that throws leaves one of its images, the last included. *)
Breaks(r, images) ==
  \E i \in DOMAIN images : Holds(r, images[i])

----
(* The lane. An operation that ends clears its own pin, or leaves it set. *)

Fault == faults < MaxFaults /\ faults' = faults + 1
NoFault == UNCHANGED faults

LaneOpen(r) == lane.fence = "ready" /\ op = Idle /\ lane.pin \in {None, r}

ReleasesPin(r) == IF lane.pin = r THEN None ELSE lane.pin
Returned(r) ==
  /\ op' = Idle
  /\ lane' = [lane EXCEPT !.pin = ReleasesPin(r)]

NeverRemainsPinned(r, file, hookFailed) == FALSE \* seeds a fault
(* shouldRemainPinned, over the files the throwing operation left behind. *)
ShouldRemainPinned(r, file, hookFailed) ==
  LET f == RepairTemporary(file)
  IN  \/ Unreadable(f)
      \/ hookFailed /\ r \notin Bindings
      \/ f.target # None /\ (r \in Bindings \/ f.target.response = "none")

(* The operation of r throws, its files left as `file`; shouldRemainPinned repairs them. *)
Throws(r, file, hookFailed) ==
  /\ op' = Idle
  /\ Holds(r, RepairTemporary(file))
  /\ lane' = [lane EXCEPT !.pin =
                  IF ShouldRemainPinned(r, file, hookFailed) THEN r ELSE ReleasesPin(r)]

StartupPin(heads, closed) ==
  IF closed THEN FailClosed
  ELSE IF heads = {} THEN None ELSE CHOOSE r \in heads : TRUE

(* restoreDesktopDeviceRequestJournalPin, at startup, before any request. *)
RestorePin ==
  /\ lane.fence = "unread"
  /\ journal' = [r \in References |-> Repaired(r)]
  /\ LET heads == {r \in References : Present(r)}
         closed == Cardinality(heads) > 1 \/ \E r \in References : Corrupt(r)
     IN  lane' = [fence |-> IF closed THEN "failed" ELSE "ready",
                  pin |-> StartupPin(heads, closed)]
  /\ UNCHANGED <<counter, op, session, owner, server, wire, faults>>

----
(* A trusted request. The head of the lane awaits, one action per await. *)

At(r, pc) == op.ref = r /\ op.pc = pc
Goes(pc) == op' = [op EXCEPT !.pc = pc]
Begin(r, recover) ==
  /\ LaneOpen(r)
  /\ op' = [Idle EXCEPT !.ref = r, !.recover = recover]
  /\ UNCHANGED <<counter, journal, lane, session, owner, server, wire, faults>>

(* A workflow submits: a session once (its path names the handoff), a renewal and a binding again
   and again, on the same path and so under the same reference. *)
Submit(r) ==
  /\ r \in Sessions => session[r] = "idle"
  /\ r \notin owner
  /\ Begin(r, FALSE)

(* A session that knows its request recovers it, and never makes another. *)
Recover(r) ==
  /\ r \in Sessions /\ session[r] = "starting" /\ r \notin owner
  /\ Begin(r, TRUE)

Fresh(r) == ~Present(r)

(* The journal decides whether a request is signed or replayed. *)
Load(r) ==
  /\ At(r, "load")
  /\ NoFault
  /\ IF Corrupt(r) \/ (op.recover /\ ~Present(r)) THEN Throws(r, journal[r], FALSE)
     ELSE /\ Holds(r, Repaired(r))
          /\ UNCHANGED lane
          /\ IF Fresh(r) THEN Goes("sign")
             ELSE op' = [op EXCEPT !.pc = IF r \in Bindings THEN "post" ELSE "prepared",
                                   !.seq = Stored(r).seq]
  /\ UNCHANGED Outside

Sign(r) ==
  /\ At(r, "sign")
  /\ counter < MaxSequence
  /\ counter' = counter + 1
  /\ op' = [op EXCEPT !.pc = IF r = Beat THEN "post" ELSE "journal", !.seq = counter + 1]
  /\ UNCHANGED <<journal, lane, session, owner, server, wire, faults>>

(* createOrLoad. A write that throws after the sync leaves a temporary the pin's own read adopts. *)
CreateRecord(r) ==
  /\ At(r, "journal")
  /\ LET images == WriteAtomic(Repaired(r), [seq |-> op.seq, response |-> "none"])
     IN  \/ /\ Holds(r, LastOf(images))
            /\ Goes(IF r \in Bindings THEN "post" ELSE "prepared")
            /\ NoFault
            /\ UNCHANGED lane
         \/ \E i \in DOMAIN images : Throws(r, images[i], FALSE) /\ Fault
  /\ UNCHANGED Outside

(* onPrepared: the session record names the request before it is sent. A renewal has no hook. *)
Prepared(r) ==
  /\ At(r, "prepared")
  /\ \/ /\ session' = [s \in Sessions |-> IF s = r THEN "starting" ELSE session[s]]
        /\ Goes("post")
        /\ NoFault
        /\ UNCHANGED <<lane, journal>>
     \/ /\ r \in Sessions /\ Fault
        /\ Throws(r, journal[r], TRUE)
        /\ UNCHANGED session
  /\ UNCHANGED <<counter, owner, server, wire>>

(* finishPreparedRequest: a stored answer is used, anything else is posted exactly as it was
   signed. *)
Post(r) ==
  /\ At(r, "post")
  /\ IF r # Beat /\ Stored(r).response # "none"
     THEN /\ op' = [op EXCEPT !.pc = IF r \in Bindings THEN "complete" ELSE "record",
                              !.heard = Stored(r).response]
          /\ UNCHANGED wire
     ELSE /\ Goes("answer")
          /\ wire' = wire \cup {[ref |-> r, seq |-> op.seq]}
  /\ UNCHANGED <<counter, journal, lane, session, owner, server, faults>>

----
(* The server: DecideLedgerRequest, in the transaction of the request. A refusal for a business
   reason rolls the transaction back. *)

NotOvertaken(m) == m.seq > server.last

Serve(m) ==
  /\ m \in wire
  /\ wire' = wire \ {m}
  /\ \E verdict \in {"ok", "rejected"} :
      /\ IF m \in server.ledger THEN verdict = "ok"
         ELSE IF \E e \in server.ledger : e.seq = m.seq THEN verdict = "rejected"
         ELSE NotOvertaken(m) \/ verdict = "rejected"
      /\ server' = IF verdict = "rejected" \/ m \in server.ledger THEN server
                   ELSE [last |-> m.seq, ledger |-> server.ledger \cup {m}]
      /\ \/ /\ At(m.ref, "answer") /\ op.seq = m.seq
            /\ op' = [op EXCEPT !.pc = "record", !.heard = verdict]
            /\ NoFault
         \/ /\ IF At(m.ref, "answer") /\ op.seq = m.seq THEN Fault ELSE NoFault
            /\ UNCHANGED op
  /\ UNCHANGED <<counter, journal, lane, session, owner>>

TimeOut(r) ==
  /\ At(r, "answer")
  /\ IF r = Beat THEN op' = Idle /\ UNCHANGED <<journal, lane>>
     ELSE Throws(r, journal[r], FALSE)
  /\ Fault
  /\ UNCHANGED Outside

----
(* The answer is durable before anyone acts on it. A deterministic refusal is an answer too,
   except to a binding, which records a 201 only. *)
RecordResponse(r) ==
  /\ At(r, "record") /\ r \in References
  /\ LET file == Repaired(r)
         answered == [file.target EXCEPT !.response = op.heard]
         images == IF file.target = answered THEN <<file>> ELSE WriteAtomic(file, answered)
     IN  IF op.heard = "rejected" /\ r \in Bindings
         THEN Throws(r, journal[r], FALSE) /\ NoFault /\ UNCHANGED owner
         ELSE \/ /\ Holds(r, LastOf(images))
                 /\ NoFault
                 /\ IF r \in Bindings THEN Goes("complete") /\ UNCHANGED <<lane, owner>>
                    ELSE /\ Returned(r)
                         /\ owner' = IF r \in Renewals /\ op.heard = "rejected"
                                     THEN owner ELSE owner \cup {r}
              \/ \E i \in DOMAIN images : Throws(r, images[i], FALSE) /\ Fault /\ UNCHANGED owner
  /\ UNCHANGED <<counter, session, server, wire>>

(* A cancel, logout, shutdown, failed check. *)
Abandon(r) ==
  /\ op.ref = r /\ r \in References /\ op.pc # "answer"
  /\ Throws(r, journal[r], FALSE)
  /\ Fault
  /\ UNCHANGED Outside

(* A binding completes its record inside the lane. *)
CompleteBinding(r) ==
  /\ At(r, "complete")
  /\ \/ Holds(r, Blank) /\ Returned(r) /\ NoFault
     \/ Throws(r, Blank, FALSE) /\ Fault
  /\ UNCHANGED Outside

(* Not recorded. *)
Heartbeat ==
  /\ LaneOpen(Beat) /\ lane.pin = None
  /\ op' = [Idle EXCEPT !.ref = Beat, !.pc = "sign"]
  /\ UNCHANGED <<counter, journal, lane, session, owner, server, wire, faults>>

BeatAnswered ==
  /\ At(Beat, "record")
  /\ op' = Idle
  /\ UNCHANGED <<counter, journal, lane, session, owner, server, wire, faults>>

----
(* Settling an answer happens outside the lane: the workflow commits its next state, then
   completes the record. *)

Commit(r) ==
  /\ r \in owner \cap Sessions /\ session[r] = "starting"
  /\ session' = [session EXCEPT ![r] = "answered"]
  /\ UNCHANGED <<counter, journal, lane, op, owner, server, wire, faults>>

Settled(r) == r \in Sessions => session[r] = "answered"

(* complete, or completeIfPresent when a restarted desktop finds the session already past its
   request. No lane operation, so no pin moves. *)
Complete(r) ==
  /\ r \in owner \/ (r \in Sessions /\ lane.fence = "ready" /\ op.ref # r)
  /\ Settled(r)
  /\ Present(r) /\ Stored(r).response # "none"
  /\ owner' = owner \ {r}
  /\ \/ Holds(r, Blank) /\ NoFault
     \/ Holds(r, Repaired(r)) /\ Fault
  /\ UNCHANGED <<counter, lane, op, session, server, wire>>

(* The next startup adopts a record its session does not name yet. *)
Adopt(r) ==
  /\ r \in Sessions /\ lane.fence = "ready" /\ op.ref # r
  /\ session[r] = "idle" /\ Present(r)
  /\ session' = [session EXCEPT ![r] = "starting"]
  /\ UNCHANGED <<counter, journal, lane, op, owner, server, wire, faults>>

Crash ==
  /\ lane.fence # "unread"
  /\ Fault
  /\ lane' = [pin |-> None, fence |-> "unread"]
  /\ op' = Idle
  /\ owner' = {}
  /\ \/ UNCHANGED journal
     \/ \E r \in References :
          \/ At(r, "journal") /\ Breaks(r, WriteAtomic(Repaired(r),
                                          [seq |-> op.seq, response |-> "none"]))
          \/ At(r, "record") /\ Breaks(r, WriteAtomic(Repaired(r),
                                          [Stored(r) EXCEPT !.response = op.heard]))
  /\ UNCHANGED <<counter, session, server, wire>>

Next ==
  \/ RestorePin
  \/ \E r \in References :
      \/ Submit(r) \/ Recover(r) \/ Load(r) \/ CreateRecord(r) \/ Prepared(r)
      \/ RecordResponse(r) \/ Abandon(r) \/ CompleteBinding(r) \/ Complete(r)
  \/ \E r \in Sessions : Commit(r) \/ Adopt(r)
  \/ \E r \in References \cup {Beat} : Sign(r) \/ Post(r) \/ TimeOut(r)
  \/ \E m \in wire : Serve(m)
  \/ Heartbeat
  \/ BeatAnswered
  \/ Crash

Spec == Init /\ [][Next]_vars

----
(* No later sequence overtakes a request that is journaled without an answer: the server has it,
   or would still accept it. So its exact replay is never refused as a replay (the reason for the
   lane and its pin). *)
UnresolvedNotOvertaken ==
  \A r \in References : Unanswered(r) =>
      LET request == [ref |-> r, seq |-> Stored(r).seq]
      IN  request \in server.ledger \/ request.seq > server.last

(* The request of a session takes effect once, whatever was lost, retried, replayed or recovered
   after a crash: all its copies carry one sequence. *)
AcceptedOnce ==
  \A e, f \in server.ledger : e.ref = f.ref /\ e.ref \in Sessions => e.seq = f.seq

(* A session that recorded which request it sent has it whole in the journal, until it has durably
   moved past it. That it can read it is another matter: see PendingHeadIsRestored. *)
StartedIsJournaled ==
  \A r \in Sessions : session[r] = "starting" => Kept(r)

(* At rest a request without an answer, or whose files refuse every operation, holds the lane. *)
UnresolvedHoldsLane ==
  lane.fence = "ready" /\ op = Idle =>
      \A r \in References : Unanswered(r) \/ Corrupt(r) => lane.pin = r

(* What docs/kyai_crm_ai_executor_authorization_requirements.md:790 asks of a start: it restores the
   one pending head, and fails closed on several or on a damaged record. False of the code: a
   stop between open and writeFile leaves an empty temporary that every operation refuses and
   none removes. *)
PendingHeadIsRestored ==
  lane.fence = "failed" =>
      \/ Cardinality({r \in References : Kept(r)}) # 1
      \/ \E r \in References : Stored(r) = Torn
====
