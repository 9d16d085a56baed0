---- MODULE MCDesktopSession ----
(* The modules about a Desktop authorization session; a behaviour is of one of them. *)
EXTENDS Naturals, Sequences

CONSTANTS None, c1, c2, t1, t2, succeeded, failed, stale

VARIABLES
    part,       \* the component this behaviour is of
    dsRecord, dsOutbox, dsTree, dsLease, dsBound, dsAccepted, dsUp, dsRun,
    dsMem, dsCancel, dsBudget,
    caCommand, caJournal, caCall, caTimes, caWire, caServer, caHeard,
    caFaults

Session == INSTANCE DesktopSession WITH
    MaxFaults <- 2, MaxRestarts <- 2, record <- dsRecord, outbox <-
    dsOutbox, tree <- dsTree, lease <- dsLease, bound <- dsBound, accepted
    <- dsAccepted, up <- dsUp, run <- dsRun, mem <- dsMem, cancel <-
    dsCancel, budget <- dsBudget
ds == <<dsRecord, dsOutbox, dsTree, dsLease, dsBound, dsAccepted, dsUp,
        dsRun, dsMem, dsCancel, dsBudget>>

Ack == INSTANCE CommandAck WITH
    Callers <- {c1, c2}, Tickets <- {t1, t2}, Ticket <- t1, Results <-
    {succeeded, failed, stale}, Stale <- stale, MaxTimes <- 7, MaxFaults <-
    2, command <- caCommand, journal <- caJournal, call <- caCall, times <-
    caTimes, wire <- caWire, server <- caServer, heard <- caHeard, faults <-
    caFaults
ca == <<caCommand, caJournal, caCall, caTimes, caWire, caServer, caHeard,
        caFaults>>

ASSUME ComponentAssumptions ==
  /\ Session!BoundsAssumption
  /\ Ack!AckAssumption

vars == <<part, ds, ca>>

Init ==
  /\ part \in {"session", "ack"}
  /\ Session!Init
  /\ Ack!Init
  /\ part # "ack" => caCommand.result = succeeded

Next ==
  \/ part = "session" /\ Session!Next /\ UNCHANGED <<part, ca>>
  \/ part = "ack" /\ Ack!Next /\ UNCHANGED <<part, ds>>

Spec == Init /\ [][Next]_vars

(* Each component under its own fairness. *)
FairSpec ==
  /\ Spec
  /\ WF_ds(part = "session" /\ Session!FlowStep)
  /\ WF_ds(part = "session" /\ Session!BootStep)
  /\ WF_ds(part = "session" /\ Session!CancelStep)
  /\ WF_ds(part = "session" /\ Session!QuitStep)
  /\ WF_ca(part = "ack" /\ Ack!ServerStep)
  /\ \A c \in {c1, c2} : SF_ca(part = "ack" /\ Ack!CallerStep(c)) /\ WF_ca(part = "ack" /\ Ack!TimeOut(c))

----
(* A session that ended without success leaves no staged or promoted credential in place, no
   request of unknown outcome; after a failure or a cancellation no App Server at work, after a
   cancellation no lease fence. *)
TerminalIsClean == Session!TerminalIsClean

(* A credential the server has activated stays the executor's, whatever fails, crashes or is
   cancelled afterwards, unless the recovery of a cancellation throws (README, observations). *)
ActivatedIsKept == Session!ActivatedIsKept

(* Whoever waits is answered: a cancellation, a shutdown, and a settled command's
   acknowledgement. *)
CallsAreAnswered ==
  /\ Session!CancelIsAnswered /\ Session!ShutdownFinishes
  /\ []<>(part = "ack" => Ack!Over)

(* An acknowledged command is acknowledged truly: one body is heard, it was journaled first, and
   what it claims the server did. *)
AckIsTrue == Ack!EvidenceIsTrue /\ Ack!OneBodyIsHeard /\ Ack!NamedIsJournaled
====
