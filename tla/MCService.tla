---- MODULE MCService ----
(* Instances for TLC of the control tasks and of the logins, each under its own fairness: what
   ends, and what comes back. The two share no state here; each behaviour is of one of them
   (ExecutorControl composes them). *)
EXTENDS Naturals

CONSTANTS NoOne, i1, t1, t2, s1, s2

VARIABLES
    part,       \* the component this behaviour is of
    ctConfig, ctLease, ctBinding, ctRevDir, ctHome, ctFlock, ctFaults,
    ctTask, ctWorker,
    saConfig, saLease, saBinding, saRevDir, saHome, saFlock, saFaults,
    saSession, saStaging, saRunner, saService

Control == INSTANCE ControlTask WITH
    Instances <- {i1}, MaxRevision <- 3, MaxConfigRevision <- 1, Tasks <-
    {t1, t2}, Sessions <- {}, MaxFaults <- 1, config <- ctConfig, lease <-
    ctLease, binding <- ctBinding, revDir <- ctRevDir, home <- ctHome, flock
    <- ctFlock, faults <- ctFaults, task <- ctTask, worker <- ctWorker
ct == <<ctConfig, ctLease, ctBinding, ctRevDir, ctHome, ctFlock, ctFaults,
        ctTask, ctWorker>>

Login == INSTANCE ServerAuthorization WITH
    Instances <- {i1}, MaxRevision <- 3, MaxConfigRevision <- 1, Service <-
    i1, ClockSkew <- FALSE, Tasks <- {}, Sessions <- {s1, s2}, MaxFaults <-
    2, config <- saConfig, lease <- saLease, binding <- saBinding, revDir <-
    saRevDir, home <- saHome, flock <- saFlock, faults <- saFaults, session
    <- saSession, staging <- saStaging, runner <- saRunner, service <-
    saService
sa == <<saConfig, saLease, saBinding, saRevDir, saHome, saFlock, saFaults,
        saSession, saStaging, saRunner, saService>>

ASSUME ComponentAssumptions ==
  /\ Control!StateAssumption

vars == <<part, ct, sa>>

Init ==
  /\ part \in {"control", "login"}
  /\ Control!Init
  /\ Login!AuthorizationInit
  /\ part = "control" => Login!AuthorizedExecutor

Next ==
  \/ part = "control" /\ Control!Next /\ UNCHANGED <<part, sa>>
  \/ part = "login" /\ Login!AuthNext /\ UNCHANGED <<part, ct>>

Spec == Init /\ [][Next]_vars

(* Each component under its own fairness. *)
FairSpec ==
  /\ Spec
  /\ WF_ct(part = "control" /\ (Control!WorkStep(i1)))
  /\ WF_ct(part = "control" /\ (Control!LoopStep(i1)))
  /\ WF_ct(part = "control" /\ Control!LeaseLapses /\ ~Control!Attended)
  /\ \A s \in {s1, s2} : WF_sa(part = "login" /\ Login!RunnerStep(s))
  /\ WF_sa(part = "login" /\ Login!StartupStep)
  /\ WF_sa(part = "login" /\ Login!AuthLapse /\ ~Login!AuthAttended)

----
(* Every requested task ends, and a process that stopped comes back to serving tasks (the idle
   component's process is down for good). *)
TasksEnd ==
  /\ Control!EveryTaskEnds
  /\ part = "control" /\ ctWorker[i1].pc = "down" ~> ctWorker[i1].pc = "idle"

(* A service that stopped comes back up, and its restart brings every unfinished session to an
   end. *)
RestartsSettle ==
  /\ part = "login" /\ saService = "down" ~> saService = "up"
  /\ Login!RestartSettles

(* Whatever was asked for is settled, through crashes and restarts. *)
EverythingSettles == TasksEnd /\ RestartsSettle
====
