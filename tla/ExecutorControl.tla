---- MODULE ExecutorControl ----
(* One process of the service with both users of a server executor's credential: the control loop
   and the device-code authorizations. They meet in the executor's rows, its volume and its
   flock, and in the order of the startup: authorizations are recovered first, control tasks
   next, requests come last. *)
EXTENDS ControlTask, ServerAuthorization

ASSUME OneProcess == Instances = {Service}

allVars == <<stateVars, taskVars, authVars>>

ControlInit ==
  /\ AuthorizedExecutor
  /\ IdleVolume
  /\ TaskInit
  /\ AuthInit

ControlRequest == Request /\ UNCHANGED authVars
SessionRequest == Serving /\ AuthRequest /\ UNCHANGED taskVars

ControlLapse ==
  Lapse(Attended \/ AuthAttended) /\ UNCHANGED <<taskVars, authVars>>

(* controltask.Recover follows authorization.Recover, and its error ends the process. *)
ControlLoop ==
  /\ service = "up"
  /\ LoopStep(Service) \/ WorkStep(Service)
  /\ service' = IF worker'[Service].pc = "down" THEN "down" ELSE service
  /\ UNCHANGED <<session, staging, runner>>

SessionStep(s) == RunnerStep(s) /\ UNCHANGED taskVars
Startup == StartupStep /\ UNCHANGED taskVars

ProcessCrash ==
  /\ service # "down"
  /\ Fault
  /\ service' = "down"
  /\ runner' = [s \in Sessions |-> NoRunner]
  /\ worker' = [i \in Instances |-> Stopped]
  /\ flock' = NoOne
  /\ UNCHANGED <<config, lease, binding, disk, task, session, staging>>

ControlNext ==
  \/ ControlRequest \/ SessionRequest \/ ControlLapse
  \/ ControlLoop \/ Startup \/ ProcessCrash
  \/ \E s \in Sessions : SessionStep(s)

ControlSpec == ControlInit /\ [][ControlNext]_allVars

FairControlSpec ==
  /\ ControlSpec
  /\ WF_allVars(ControlLoop)
  /\ WF_allVars(Startup)
  /\ \A s \in Sessions : WF_allVars(SessionStep(s))
  /\ WF_allVars(ControlLapse /\ ~(Attended \/ AuthAttended))

----
(* Properties. *)

(* Tasks and sessions together are still one fence per executor. *)
SharedFence == INSTANCE OperationFence WITH
    Operations  <- Ops,
    Credentials <- Revisions,
    Nobody      <- NoOne,
    epoch       <- lease.epoch,
    holder      <- IF LeaseHeld THEN lease.op ELSE NoOne,
    source      <- lease.src,
    current     <- config.current,
    retired     <- {n \in Revisions : binding[n].status = "revoked"},
    ended       <- {t \in Tasks : task[t].status \in Terminal}
                     \cup {s \in Sessions : session[s].status \in Ended}

(* Every step of the process, whichever operation takes it, is a step of the abstract fence or
   leaves it alone. *)
ImplementsSharedFence == SharedFence!Spec

(* Tasks and authorizations number the revisions by rules of their own, GREATEST(counter,
   current) + 1 and counter + 1: neither ever takes a number the other has used. *)
RevisionsAreOnce ==
  [][\A n \in Revisions :
       binding[n] # NoBinding => binding'[n].op = binding[n].op]_allVars
====
