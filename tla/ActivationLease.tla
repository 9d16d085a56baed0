---- MODULE ActivationLease ----
(* The lease a desktop holds on an executor while it promotes a credential: the server grants it,
   the controller renews it from a timer, the request journal keeps each renewal until it is
   settled, the fence store records what it granted. The ACK goes out only under a fence a
   renewal of that very call made fresh. Time is counted in request timeouts (5 s); a machine that
   sleeps loses any amount of it. The desktop's clock is off by a constant: its time never goes
   back, which the fence store refuses. *)
EXTENDS Integers, FiniteSetsExt

CONSTANTS
    Activations,
    None,
    Other,              \* any other operation on the executor
    Skew,               \* how far the desktop's clock is ahead, or behind if negative
    LeaseTTL,           \* desktopOperationLeaseTTL
    ActivationTTL,      \* until the activation, or its session, expires
    Interval,           \* between two renewals
    Timeout,            \* of one renewal request
    MaxTime,            \* bound on the clock
    MaxRequests,        \* bound on the renewals signed
    MaxFaults

TimesAssumption ==
  {LeaseTTL, ActivationTTL, Interval, Timeout, MaxTime, MaxRequests} \subseteq Nat \ {0}
BoundsAssumption == Skew \in Int /\ MaxFaults \in Nat /\ None \notin Activations

VARIABLES
    clock,      \* the server's
    server,     \* activations, the executor's lease, the replay ledger
    signed,     \* renewals signed so far
    wire,       \* renewals sent and not yet served
    journal,    \* the unsettled renewal of each activation
    fence,      \* the fence record of each activation
    flow,       \* the desktop's session, lease controller and its request
    faults

vars == <<clock, server, signed, wire, journal, fence, flow, faults>>

Time == 0..MaxTime
Renewal == [act : Activations, id : 1..MaxRequests]
Answer == {"none", "ok", "rejected"}
Record == [status : {"fresh", "recovery_required", "removed"},
           id : 1..MaxRequests, at : Time, replayed : BOOLEAN, recovered : BOOLEAN]
Running == {"start", "check", "held", "stop", "renew", "verify"}
Ended == {"idle", "done", "failed", "cancelled"}

Idle == [act |-> None, stage |-> "idle", running |-> FALSE, due |-> 0,
         flight |-> "none", since |-> 0, second |-> FALSE, id |-> 0,
         recovered |-> FALSE, replayed |-> FALSE, at |-> 0,
         asked |-> 0, granted |-> None]

TypeOK ==
  /\ clock \in Time
  /\ server \in [status : [Activations -> {"none", "pending", "activated", "ended"}],
                 prepared : [Activations -> Time],
                 holder : Activations \cup {None, Other}, expires : 0..(MaxTime + LeaseTTL),
                 ledger : SUBSET [act : Activations, id : 1..MaxRequests, at : Time]]
  /\ signed \in 0..MaxRequests
  /\ wire \subseteq Renewal
  /\ journal \in [Activations -> {None} \cup
                     [id : 1..MaxRequests, answer : Answer, at : Time, replayed : BOOLEAN]]
  /\ fence \in [Activations -> {None} \cup Record]
  /\ \A a \in Activations : fence[a] # None /\ fence[a].status = "fresh" =>
          ~fence[a].replayed /\ ~fence[a].recovered
  /\ flow \in [act : Activations \cup {None},
               stage : Running \cup Ended \cup {"down", "ack", "remove", "failing", "cancelling"},
               running : BOOLEAN, due : 0..(MaxTime + Interval),
               flight : {"none", "send", "await", "persist", "complete"},
               since : Time, second : BOOLEAN, id : 0..MaxRequests,
               recovered : BOOLEAN, replayed : BOOLEAN, at : Time,
               asked : Time, granted : {None} \cup Record]
  /\ faults \in 0..MaxFaults

Init ==
  /\ clock = 1
  /\ server = [status |-> [a \in Activations |-> "none"],
               prepared |-> [a \in Activations |-> 0],
               holder |-> None, expires |-> 0, ledger |-> {}]
  /\ signed = 0
  /\ wire = {}
  /\ journal = [a \in Activations |-> None]
  /\ fence = [a \in Activations |-> None]
  /\ flow = Idle
  /\ faults = 0

Fault == faults < MaxFaults /\ faults' = faults + 1
NoFault == UNCHANGED faults
LocalTime == clock + Skew
Settles(stage) == [Idle EXCEPT !.act = flow.act, !.stage = stage]

----
(* The server. *)

(* A renewal of an activation that is about to expire is cut short; so is the answer to its
   replay, computed from when it was accepted. *)
LeaseExpiry(a, at) == Min({at + LeaseTTL, server.prepared[a] + ActivationTTL})

LeaseFree == server.holder = None \/ server.expires <= clock

(* A proof is accepted: the activation is pending and holds the lease. *)
Prepare(a) ==
  /\ flow.stage \in Ended
  /\ server.status[a] = "none" /\ LeaseFree
  /\ server' = [server EXCEPT !.status[a] = "pending", !.prepared[a] = clock,
                              !.holder = a, !.expires = clock + Min({LeaseTTL, ActivationTTL})]
  /\ flow' = [Idle EXCEPT !.act = a, !.stage = "start", !.running = TRUE,
                          !.flight = "send", !.asked = clock]
  /\ UNCHANGED <<clock, signed, wire, journal, fence, faults>>

Takeover ==
  /\ LeaseFree /\ server.holder # Other
  /\ server' = [server EXCEPT !.holder = Other, !.expires = clock + LeaseTTL]
  /\ UNCHANGED <<clock, signed, wire, journal, fence, flow, faults>>

Live(a) ==
  /\ server.status[a] = "pending"
  /\ server.holder = a /\ server.expires > clock
  /\ clock < server.prepared[a] + ActivationTTL

(* ReconcileDesktopCredentialActivations, or an operator's revocation. *)
Reconcile(a) ==
  /\ server.status[a] = "pending"
  /\ \/ ~Live(a) /\ NoFault
     \/ Live(a) /\ Fault
  /\ server' = [server EXCEPT !.status[a] = "ended",
                  !.holder = IF server.holder = a THEN None ELSE server.holder]
  /\ UNCHANGED <<clock, signed, wire, journal, fence, flow>>

AcceptsUnheld(a) == server.status[a] = "pending" \* seeds a fault
(* validateNewDesktopActivationLeaseRenewal. *)
Accepts(a) == Live(a)

Accepted(m) == {e \in server.ledger : e.act = m.act /\ e.id = m.id}

----
(* The fence store. A durable write ends before, after with an error, or after (RecordStore has
   its steps). *)

Writes(a, record) == fence' = [fence EXCEPT ![a] = record]

(* assertNoCompetingFence: all the activations are of one executor. *)
NoCompetingFence(a) ==
  \A b \in Activations \ {a} : fence[b] # None => fence[b].status = "removed"

RenewalStatus(recovered, replayed) ==
  IF recovered \/ replayed THEN "recovery_required" ELSE "fresh"

Candidate ==
  [status |-> RenewalStatus(flow.recovered, flow.replayed), id |-> flow.id,
   at |-> flow.at, replayed |-> flow.replayed, recovered |-> flow.recovered]

(* assertMonotonicRenewal. *)
Monotonic(a, old, new) ==
  new.at > old.at /\ LeaseExpiry(a, new.at) >= LeaseExpiry(a, old.at)

(* The same request and answer again: only towards recovery. *)
SameRequest(old, new) ==
  /\ old.at = new.at /\ old.replayed = new.replayed
  /\ old.recovered => new.recovered

Persistable(a, new) ==
  LET old == fence[a]
  IN  /\ NoCompetingFence(a)
      /\ old # None =>
          /\ old.status # "removed"
          /\ IF old.id = new.id THEN SameRequest(old, new) ELSE Monotonic(a, old, new)

(* requireFresh of what was just read. *)
Fresh(a, record) ==
  /\ record # None /\ record.status = "fresh"
  /\ LocalTime < LeaseExpiry(a, record.at)

----
(* The lease controller: performOne, its request, its callers. *)

RenewalInterval == Interval

(* performFreshRenewal has its result. *)
Landed == [flow EXCEPT !.flight = "none", !.since = 0, !.second = FALSE, !.id = 0,
                       !.recovered = FALSE, !.replayed = FALSE, !.at = 0]
FlightSucceeds ==
  [Landed EXCEPT
      !.stage = CASE flow.stage = "start" -> "check"
                  [] flow.stage = "stop"  -> "renew"
                  [] flow.stage = "renew" -> "verify"
                  [] OTHER -> flow.stage,
      !.due = IF flow.running THEN clock + RenewalInterval ELSE 0]

(* start and stopAndRenewFresh rethrow and the flow fails; the timer stops and tells nobody. *)
FlightFails ==
  [Landed EXCEPT !.running = FALSE, !.due = 0,
      !.stage = IF flow.stage \in {"start", "stop", "renew"} THEN "failing" ELSE flow.stage]

Recovered(kept) == kept # None

(* The journal decides: a kept renewal is recovered, with any answer it has, else a new
   one is signed, kept and posted. A kept refusal is thrown again. *)
Send(a) ==
  /\ flow.act = a /\ flow.flight = "send"
  /\ LET kept == journal[a]
         posted(id) == /\ wire' = wire \cup {[act |-> a, id |-> id]}
                       /\ flow' = [flow EXCEPT !.flight = "await", !.since = clock, !.id = id,
                                               !.recovered = Recovered(kept)]
     IN  \/ /\ kept = None
            /\ signed < MaxRequests
            /\ signed' = signed + 1
            /\ journal' = [journal EXCEPT ![a] = [id |-> signed + 1, answer |-> "none",
                                                  at |-> 0, replayed |-> FALSE]]
            /\ posted(signed + 1)
         \/ /\ kept # None /\ UNCHANGED <<signed, journal>>
            /\ \/ kept.answer = "none" /\ posted(kept.id)
               \/ kept.answer = "rejected" /\ flow' = FlightFails /\ UNCHANGED wire
               \/ /\ kept.answer = "ok" /\ UNCHANGED wire
                  /\ flow' = [flow EXCEPT !.flight = "persist", !.id = kept.id, !.at = kept.at,
                                          !.replayed = kept.replayed,
                                          !.recovered = Recovered(kept)]
  /\ UNCHANGED <<clock, server, fence, faults>>

(* performOne: the answer is fenced before its request is completed. *)
AfterAnswer == "persist"

(* The server answers, and the transport journals the answer before it returns; or it is lost. *)
Serve(m) ==
  /\ m \in wire
  /\ wire' = wire \ {m}
  /\ LET again == Accepted(m) # {}
         at == IF again THEN (CHOOSE e \in Accepted(m) : TRUE).at ELSE clock
         ok == again \/ Accepts(m.act)
         awaited == flow.act = m.act /\ flow.flight = "await" /\ flow.id = m.id
     IN  /\ server' = IF again \/ ~ok THEN server
                      ELSE [server EXCEPT
                              !.ledger = @ \cup {[act |-> m.act, id |-> m.id, at |-> clock]},
                              !.expires = IF server.holder = m.act
                                          THEN LeaseExpiry(m.act, clock) ELSE @]
         /\ \/ /\ awaited /\ NoFault
               /\ journal' = [journal EXCEPT ![m.act] =
                      [id |-> m.id, answer |-> IF ok THEN "ok" ELSE "rejected",
                       at |-> IF ok THEN at ELSE 0, replayed |-> again]]
               /\ flow' = IF ok THEN [flow EXCEPT !.flight = AfterAnswer, !.since = 0, !.at = at,
                                                  !.replayed = again]
                          ELSE FlightFails
            \/ /\ IF awaited THEN Fault ELSE NoFault
               /\ UNCHANGED <<journal, flow>>
  /\ UNCHANGED <<clock, signed, fence>>

(* The request times out, or the network breaks it earlier. *)
RequestFails ==
  /\ flow.flight = "await"
  /\ Fault
  /\ flow' = FlightFails
  /\ UNCHANGED <<clock, server, signed, wire, journal, fence>>

(* persistRenewal. An exact repetition is only synced again. *)
PersistRenewal(a) ==
  /\ flow.act = a /\ flow.flight = "persist"
  /\ \/ /\ Persistable(a, Candidate)
        /\ \/ Writes(a, Candidate) /\ flow' = [flow EXCEPT !.flight = "complete"] /\ NoFault
           \/ (Writes(a, Candidate) \/ UNCHANGED fence) /\ flow' = FlightFails /\ Fault
     \/ /\ ~Persistable(a, Candidate)
        /\ flow' = FlightFails
        /\ UNCHANGED <<fence, faults>>
  /\ UNCHANGED <<clock, server, signed, wire, journal>>

(* completeRequest; then a recovered or replayed renewal is followed by one more, which must be
   neither. *)
CompleteRequest(a) ==
  /\ flow.act = a /\ flow.flight = "complete"
  /\ LET stale == flow.recovered \/ flow.replayed
     IN  \/ /\ NoFault
            /\ journal' = [journal EXCEPT ![a] = None]
            /\ flow' = IF ~stale THEN
                          IF flow.stage = "stop"
                          THEN [FlightSucceeds EXCEPT !.flight = "send", !.asked = clock]
                          ELSE FlightSucceeds
                       ELSE IF flow.second THEN FlightFails
                       ELSE [Landed EXCEPT !.flight = "send", !.second = TRUE]
         \/ /\ Fault
            /\ journal' \in {journal, [journal EXCEPT ![a] = None]}
            /\ flow' = FlightFails
  /\ UNCHANGED <<clock, server, signed, wire, fence>>

TimerDue == flow.running /\ flow.due # 0 /\ flow.due <= clock /\ flow.flight = "none"

(* The timer's callback. *)
Renew ==
  /\ TimerDue
  /\ flow' = [flow EXCEPT !.flight = "send", !.due = 0]
  /\ UNCHANGED <<clock, server, signed, wire, journal, fence, faults>>

----
(* The session's flow. *)

(* readFence, requireFresh. *)
RequireFresh(a) ==
  /\ flow.act = a /\ flow.stage \in {"check", "verify"}
  /\ flow' = IF Fresh(a, fence[a])
             THEN [flow EXCEPT !.granted = fence[a],
                               !.stage = IF flow.stage = "check" THEN "held" ELSE "ack"]
             ELSE [flow EXCEPT !.stage = "failing", !.running = FALSE, !.due = 0]
  /\ UNCHANGED <<clock, server, signed, wire, journal, fence, faults>>

(* stopAndRenewFresh: a renewal in flight is awaited, then a fresh one. *)
StopAndRenewFresh ==
  /\ flow.stage = "held"
  /\ flow' = IF flow.flight = "none"
             THEN [flow EXCEPT !.running = FALSE, !.due = 0, !.stage = "renew",
                               !.flight = "send", !.asked = clock]
             ELSE [flow EXCEPT !.running = FALSE, !.due = 0, !.stage = "stop"]
  /\ UNCHANGED <<clock, server, signed, wire, journal, fence, faults>>

(* The acknowledgement and what follows it up to activation_acked. *)
Acknowledge(a) ==
  /\ flow.act = a /\ flow.stage = "ack"
  /\ IF Live(a)
     THEN /\ server' = [server EXCEPT !.status[a] = "activated", !.holder = None]
          /\ flow' = Settles("remove")
     ELSE flow' = [flow EXCEPT !.stage = "failing"] /\ UNCHANGED server
  /\ UNCHANGED <<clock, signed, wire, journal, fence, faults>>

(* remove: the exact record becomes a tombstone. *)
Tombstone(a) == [fence[a] EXCEPT !.status = "removed"]
Remove(a) ==
  /\ flow.act = a /\ flow.stage = "remove"
  /\ fence[a] # None
  /\ \/ Writes(a, Tombstone(a)) /\ flow' = Settles("done") /\ NoFault
     \/ /\ Writes(a, Tombstone(a)) \/ UNCHANGED fence
        /\ flow' = Settles("down") /\ Fault
  /\ UNCHANGED <<clock, server, signed, wire, journal>>

(* The promotion fails, or a shutdown. *)
Abort ==
  /\ flow.stage = "held"
  /\ Fault
  /\ flow' = [flow EXCEPT !.stage = "failing", !.running = FALSE, !.due = 0]
  /\ UNCHANGED <<clock, server, signed, wire, journal, fence>>

(* A trusted cancellation: the server has ended the session. *)
Cancel(a) ==
  /\ flow.act = a /\ flow.stage \in {"start", "held"}
  /\ Fault
  /\ server' = [server EXCEPT !.status[a] = "ended",
                  !.holder = IF server.holder = a THEN None ELSE server.holder]
  /\ flow' = [flow EXCEPT !.stage = "cancelling", !.running = FALSE, !.due = 0]
  /\ UNCHANGED <<clock, signed, wire, journal, fence>>

(* Both wait for the renewal in flight; only a cancelled session removes its fence. *)
Finish(a) ==
  /\ flow.act = a /\ flow.flight = "none"
  /\ \/ /\ flow.stage = "failing"
        /\ flow' = Settles("failed")
        /\ UNCHANGED fence
     \/ /\ flow.stage = "cancelling"
        /\ flow' = Settles("cancelled")
        /\ IF fence[a] = None THEN UNCHANGED fence ELSE Writes(a, Tombstone(a))
  /\ UNCHANGED <<clock, server, signed, wire, journal, faults>>

Crash ==
  /\ flow.stage \notin Ended \cup {"down"}
  /\ Fault
  /\ flow' = Settles("down")
  /\ UNCHANGED <<clock, server, signed, wire, journal>>
  /\ \/ UNCHANGED fence
     \/ /\ flow.flight = "persist" /\ Persistable(flow.act, Candidate)
        /\ Writes(flow.act, Candidate)
     \/ flow.stage = "remove" /\ Writes(flow.act, Tombstone(flow.act))

(* After a restart: an unacknowledged session starts its lease again, an acknowledged one settles
   its artifacts. *)
Resume(a) ==
  /\ flow.act = a /\ flow.stage = "down"
  /\ IF server.status[a] = "activated"
     THEN /\ fence' = IF fence[a].status = "removed" THEN fence
                      ELSE [fence EXCEPT ![a] = Tombstone(a)]
          /\ flow' = Settles("done")
     ELSE /\ flow' = [Idle EXCEPT !.act = a, !.stage = "start", !.running = TRUE,
                                  !.flight = "send", !.asked = clock]
          /\ UNCHANGED fence
  /\ UNCHANGED <<clock, server, signed, wire, journal, faults>>

----
(* Time passes while nothing is due. *)
Urgent ==
  \/ TimerDue
  \/ flow.flight = "await" /\ clock >= flow.since + Timeout
  \/ flow.flight \in {"send", "persist", "complete"}
  \/ flow.stage = "check"

Tick ==
  /\ clock < MaxTime
  /\ clock' = clock + 1
  /\ IF Urgent THEN Fault ELSE NoFault       \* the machine slept
  /\ UNCHANGED <<server, signed, wire, journal, fence, flow>>

Next ==
  \/ \E a \in Activations :
      \/ Prepare(a) \/ Reconcile(a) \/ Send(a) \/ PersistRenewal(a) \/ CompleteRequest(a)
      \/ RequireFresh(a) \/ Acknowledge(a) \/ Remove(a) \/ Cancel(a) \/ Finish(a) \/ Resume(a)
  \/ \E m \in wire : Serve(m)
  \/ Takeover \/ RequestFails \/ Renew \/ StopAndRenewFresh \/ Abort \/ Crash \/ Tick

Spec == Init /\ [][Next]_vars

----
(* While a fence is fresh by the desktop's clock and the server has not ended the activation, no
   other operation can hold the executor, up to the end of the lease granted. A clock that is
   behind lets requireFresh pass after it, no longer than it is behind; then the server's own
   check refuses the acknowledgement. *)
ExclusiveWhileFresh ==
  \A a \in Activations :
      fence[a] # None /\ server.status[a] = "pending" /\ Fresh(a, fence[a]) =>
          server.holder = a \/ LeaseExpiry(a, fence[a].at) \in (LocalTime + 1)..clock

(* A promotion or an acknowledgement starts only under a renewal granted after the desktop asked
   for it: no crash, lost answer or replay makes an old one count (performFreshRenewal). *)
GrantedSinceAsked ==
  flow.stage \in {"held", "ack"} => flow.granted.at >= flow.asked

(* A renewal the server granted is in the fence or still in the journal, whatever order the crash
   found them in. *)
GrantsAreRecorded ==
  \A e \in server.ledger :
      \/ journal[e.act] # None /\ journal[e.act].id = e.id
      \/ fence[e.act] # None /\ fence[e.act].at >= e.at

(* assertUniqueActiveRecords: at most one unremoved fence of the executor. *)
OneActiveFence ==
  \A a, b \in Activations :
      (a # b /\ fence[a] # None /\ fence[b] # None) =>
          (fence[a].status = "removed" \/ fence[b].status = "removed")

(* Undisturbed, a running controller never lets the lease lapse before the activation ends: a
   request that takes all its time, after a full interval, still comes in time. *)
LeaseIsKept ==
  faults = 0 /\ flow.running =>
      \/ Live(flow.act)
      \/ clock >= server.prepared[flow.act] + ActivationTTL
====
