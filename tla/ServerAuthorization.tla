---- MODULE ServerAuthorization ----
(* Device-code authorization of a server executor: a session is created by a request, run by one
   goroutine of the service, and ends by committing the credential left in the staging directory.
   A restart interrupts the sessions that had nothing prepared and resumes or fails the others,
   before the service accepts requests. v9 runs one replica: sessions belong to one process. A
   row's revision is left out: only its goroutine and a cancellation write it. *)
EXTENDS ExecutorState, FiniteSets

CONSTANTS
    Service,        \* the one process
    ClockSkew       \* whether its clock may disagree with the database's

ASSUME ServiceAssumption == Service \in Instances /\ ClockSkew \in BOOLEAN

VARIABLES
    session,    \* ky_ai_executor_authorization_session, by session
    staging,    \* staging/<session> on the volume
    runner,     \* the goroutine, or the startup recovery, of each session
    service     \* the service's startup

authVars == <<session, staging, runner, service>>

Ongoing == {"starting", "waiting_user", "verifying"}
Ended == {"succeeded", "failed", "cancelled", "interrupted"}

(* prep: prepared_credential_revision, 0 for NULL; the operation id is set with it.  "failed"
   stands for failed and expired. *)
SessionRow == [status : Ongoing \cup Ended \cup {"absent"}, prep : 0..MaxRevision]

(* "frozen": the provider has exited and the tree has been digested. *)
StagingStatus == {"absent", "open", "frozen"}

RunnerPc == {"none", "login", "mark_waiting", "await", "mark_verifying", "freeze",
             "prepare", "lock", "inspect", "mark", "promote", "seal", "clone", "verify",
             "discard", "renew", "activate", "fail", "fail_candidate", "q_staging",
             "q_revision", "exit", "exit_error"}
RunnerRow == [pc : RunnerPc, epoch : Nat, recovering : BOOLEAN,
              seen : {"prepared", "committing"}, cloned : BOOLEAN]
NoRunner == [pc |-> "none", epoch |-> 0, recovering |-> FALSE, seen |-> "prepared",
             cloned |-> FALSE]

ServicePc == {"down", "rows", "trees", "recover", "up"}

AuthTypeOK ==
  /\ StateTypeOK
  /\ session \in [Sessions -> SessionRow]
  /\ staging \in [Sessions -> StagingStatus]
  /\ runner \in [Sessions -> RunnerRow]
  /\ service \in ServicePc

AuthInit ==
  /\ session = [s \in Sessions |-> [status |-> "absent", prep |-> 0]]
  /\ staging = [s \in Sessions |-> "absent"]
  /\ runner = [s \in Sessions |-> NoRunner]
  /\ service = "down"

----

On(s, pc) == runner[s].pc = pc
Advance(s, pc) == runner' = [runner EXCEPT ![s].pc = pc]

Answered(s, ok, lost) ==
  \/ Advance(s, ok) /\ UNCHANGED faults
  \/ Advance(s, lost) /\ Fault

Rejected(s, possible, next) ==
  /\ Advance(s, next)
  /\ IF possible THEN Fault ELSE UNCHANGED faults

Prep(s) == session[s].prep

(* binding ... AND operation_id, lease_epoch, source, revocation_epoch *)
CandidateIs(s, statuses) ==
  /\ Prep(s) # 0
  /\ binding[Prep(s)].op = s
  /\ binding[Prep(s)].epoch = runner[s].epoch
  /\ binding[Prep(s)].status \in statuses

LeaseTuple(s) ==
  /\ lease.status = "active"
  /\ lease.op = s
  /\ lease.owner = Service
  /\ lease.epoch = runner[s].epoch
  /\ Prep(s) # 0
  /\ lease.src = binding[Prep(s)].src
  /\ lease.rvk = binding[Prep(s)].rvk

(* The candidates of S that are not final; the first form, a fault, forgets some. *)
PendingPrepared(S) == {n \in S \cap Revisions : binding[n].status = "prepared"}
Pending(S) == {n \in S \cap Revisions : binding[n].status \in {"prepared", "committing"}}

(* UPDATE ... SET status='released' WHERE operation, owner and active *)
ReleasedBy(s) ==
  IF Prep(s) # 0 /\ lease.op = s /\ lease.owner = Service /\ lease.status = "active"
    THEN [lease EXCEPT !.status = "released"] ELSE lease

----
(* Requests. *)

CreateAuthorizationSession(s) ==
  /\ service = "up"
  /\ config.enabled
  /\ session[s].status = "absent"
  /\ \A r \in Sessions : session[r].status \notin Ongoing
  /\ session' = [session EXCEPT ![s].status = "starting"]
  /\ \/ runner' = [runner EXCEPT ![s] = [NoRunner EXCEPT !.pc = "login"]] /\ UNCHANGED faults
     \/ UNCHANGED runner /\ Fault
  /\ UNCHANGED <<config, lease, binding, disk, flock, staging, service>>

(* Variant that seeds a fault: a session that ended is cancelled again. *)
CancelAnySession(s) ==
  /\ service = "up"
  /\ session[s].status # "absent"
  /\ session' = [session EXCEPT ![s].status = "cancelled"]
  /\ binding' = WithStatus(Pending({Prep(s)}), "quarantined")
  /\ lease' = ReleasedBy(s)
  /\ UNCHANGED <<config, disk, flock, faults, staging, runner, service>>

CancelAuthorizationSession(s) ==
  /\ service = "up"
  /\ session[s].status \in Ongoing
  /\ session' = [session EXCEPT ![s].status = "cancelled"]
  /\ binding' = WithStatus(Pending({Prep(s)}), "quarantined")
  /\ lease' = ReleasedBy(s)
  /\ UNCHANGED <<config, disk, flock, faults, staging, runner, service>>

----
(* The login: until a preparation, an error ends it. *)

StartDeviceCodeLogin(s) ==
  /\ On(s, "login")
  /\ \/ staging' = [staging EXCEPT ![s] = "open"] /\ Advance(s, "mark_waiting")
     \/ staging' \in {staging, [staging EXCEPT ![s] = "open"]} /\ Advance(s, "fail")
  /\ UNCHANGED <<stateVars, session, service>>

(* MarkAuthorizationWaiting and MarkAuthorizationVerifying: if the write fails, run returns. *)
MarkSession(s, pc, from, to, next) ==
  /\ On(s, pc)
  /\ \/ /\ session[s].status = from
        /\ session' = [session EXCEPT ![s].status = to]
        /\ Answered(s, next, "exit")
     \/ Rejected(s, session[s].status = from, "exit") /\ UNCHANGED session
  /\ UNCHANGED <<config, lease, binding, disk, flock, staging, service>>

MarkAuthorizationWaiting(s) ==
  MarkSession(s, "mark_waiting", "starting", "waiting_user", "await")

MarkAuthorizationVerifying(s) ==
  MarkSession(s, "mark_verifying", "waiting_user", "verifying", "freeze")

(* The user logs in, or the login fails or is too late. *)
WaitLoginCompleted(s) ==
  /\ On(s, "await")
  /\ Advance(s, "mark_verifying") \/ Advance(s, "fail")
  /\ UNCHANGED <<stateVars, session, staging, service>>

(* Read the account, stop the provider, then hash the directory. *)
FreezeStaging(s) ==
  /\ On(s, "freeze")
  /\ \/ staging' = [staging EXCEPT ![s] = "frozen"] /\ Advance(s, "prepare")
     \/ UNCHANGED staging /\ Advance(s, "fail")
  /\ UNCHANGED <<stateVars, session, service>>

----
(* The commit. *)

CanPrepareServer(s) == /\ session[s].status = "verifying"
                       /\ ~LeaseHeld
                       /\ config.counter < MaxRevision

(* Takes the executor's lease, whoever's expired lease it was, and records the candidate.  Tasks
   of the executor are not consulted. *)
PrepareServerCredential(s) ==
  LET n == config.counter + 1 IN
  /\ On(s, "prepare")
  /\ \/ /\ CanPrepareServer(s)
        /\ lease' = TakenLease(s, Service, config.current, config.rvk)
        /\ binding' = [binding EXCEPT ![n] =
              [status |-> "prepared", op |-> s, epoch |-> lease.epoch + 1,
               src |-> config.current, rvk |-> config.rvk]]
        /\ config' = [config EXCEPT !.counter = n]
        /\ session' = [session EXCEPT ![s].prep = n]
        /\ \/ /\ runner' = [runner EXCEPT ![s].pc = "lock", ![s].epoch = lease.epoch + 1]
              /\ UNCHANGED faults
           \/ Advance(s, "fail") /\ Fault
     \/ /\ Rejected(s, CanPrepareServer(s), "fail")
        /\ UNCHANGED <<lease, binding, config, session>>
  /\ UNCHANGED <<disk, flock, staging, service>>

LockForCommit(s) ==
  /\ On(s, "lock")
  /\ \/ /\ LockFree
        /\ flock' = s
        /\ Advance(s, IF runner[s].recovering THEN "inspect" ELSE "mark")
        /\ UNCHANGED faults
     \/ Rejected(s, LockFree, "fail_candidate") /\ UNCHANGED flock
  /\ UNCHANGED <<config, lease, binding, disk, session, staging, service>>

(* Recovery removes the operation home, then decides by the binding and the two directories;
   every ambiguous combination fails. *)
InspectCandidate(s) ==
  LET unpromoted == staging[s] = "frozen" /\ revDir[Prep(s)] = "absent"
      promoted == staging[s] = "absent" /\ revDir[Prep(s)] = "sealed"
      next == CASE runner[s].seen = "prepared" /\ unpromoted -> "mark"
                [] runner[s].seen = "committing" /\ unpromoted -> "promote"
                [] runner[s].seen = "committing" /\ promoted -> "clone"
                [] OTHER -> "fail_candidate" IN
  /\ On(s, "inspect")
  /\ \/ /\ home' = [home EXCEPT ![s] = "absent"]
        /\ Advance(s, next) /\ UNCHANGED faults
     \/ Rejected(s, TRUE, "fail_candidate") /\ UNCHANGED home
  /\ UNCHANGED <<config, lease, binding, revDir, flock, session, staging, service>>

CanCommit(s) ==
  LeaseTuple(s) /\ lease.live /\ CandidateIs(s, {"prepared", "committing"})

MarkCredentialCommitting(s) ==
  /\ On(s, "mark")
  /\ \/ /\ CanCommit(s)
        /\ binding' = WithStatus({Prep(s)}, "committing")
        /\ Answered(s, "promote", "fail_candidate")
     \/ Rejected(s, CanCommit(s), "fail_candidate") /\ UNCHANGED binding
  /\ UNCHANGED <<config, lease, disk, flock, session, staging, service>>

CanPromoteStaging(s) == staging[s] = "frozen" /\ revDir[Prep(s)] = "absent"

PromoteStaging(s) ==
  /\ On(s, "promote")
  /\ \/ /\ CanPromoteStaging(s)
        /\ staging' = [staging EXCEPT ![s] = "absent"]
        /\ revDir' = [revDir EXCEPT ![Prep(s)] = "open"]
        /\ Advance(s, "seal") /\ UNCHANGED faults
     \/ /\ Rejected(s, CanPromoteStaging(s), "fail_candidate")
        /\ UNCHANGED <<staging, revDir>>
  /\ UNCHANGED <<config, lease, binding, home, flock, session, service>>

SealCandidate(s) ==
  /\ On(s, "seal")
  /\ \/ /\ revDir' = [revDir EXCEPT ![Prep(s)] = "sealed"]
        /\ Advance(s, "clone") /\ UNCHANGED faults
     \/ Rejected(s, TRUE, "fail_candidate") /\ UNCHANGED revDir
  /\ UNCHANGED <<config, lease, binding, home, flock, session, staging, service>>

CanCloneCandidate(s) == revDir[Prep(s)] = "sealed" /\ home[s] = "absent"

CloneCandidate(s) ==
  /\ On(s, "clone")
  /\ \/ /\ CanCloneCandidate(s)
        /\ home' = [home EXCEPT ![s] = "copy"]
        /\ runner' = [runner EXCEPT ![s].pc = "verify", ![s].cloned = TRUE]
        /\ UNCHANGED faults
     \/ Rejected(s, CanCloneCandidate(s), "fail_candidate") /\ UNCHANGED home
  /\ UNCHANGED <<config, lease, binding, revDir, flock, session, staging, service>>

(* The provider reads the promoted credential in the clone. *)
VerifyCandidate(s) ==
  /\ On(s, "verify")
  /\ Advance(s, "discard") \/ Advance(s, "fail_candidate")
  /\ UNCHANGED <<stateVars, session, staging, service>>

(* Then the account must be the one that logged in, and the tree intact. *)
DiscardClone(s) ==
  /\ On(s, "discard")
  /\ \/ /\ home' = [home EXCEPT ![s] = "absent"]
        /\ \/ revDir[Prep(s)] = "sealed" /\ Advance(s, "renew")
           \/ Advance(s, "fail_candidate")
        /\ UNCHANGED faults
     \/ Rejected(s, TRUE, "fail_candidate") /\ UNCHANGED home
  /\ UNCHANGED <<config, lease, binding, revDir, flock, session, staging, service>>

RenewBeforeActivation(s) ==
  LET ok == LeaseTuple(s) /\ lease.live IN
  /\ On(s, "renew")
  /\ \/ ok /\ Advance(s, "activate") /\ UNCHANGED faults
     \/ Rejected(s, ok, "fail_candidate")
  /\ UNCHANGED <<config, lease, binding, disk, flock, session, staging, service>>

(* Variant that seeds a fault: the expiry of the lease is not looked at. *)
CanActivateExpired(s) ==
  /\ LeaseTuple(s)
  /\ config.current = binding[Prep(s)].src
  /\ config.rvk = binding[Prep(s)].rvk
  /\ session[s].status = "verifying"
  /\ CandidateIs(s, {"committing"})

(* The expiry is compared with the process's clock here, not the database's. *)
CanActivate(s) ==
  /\ LeaseTuple(s) /\ (lease.live \/ ClockSkew)
  /\ config.current = binding[Prep(s)].src
  /\ config.rvk = binding[Prep(s)].rvk
  /\ session[s].status = "verifying"
  /\ CandidateIs(s, {"committing"})

(* The commit point: old binding revoked, candidate active and current, session succeeded, lease
   released. *)
ActivateServerCredential(s) ==
  /\ On(s, "activate")
  /\ \/ /\ CanActivate(s)
        /\ binding' = Switched(config.current, Prep(s))
        /\ config' = [config EXCEPT !.cred = "authorized", !.current = Prep(s),
                                    !.cat = @ + 1]
        /\ session' = [session EXCEPT ![s].status = "succeeded"]
        /\ lease' = [lease EXCEPT !.status = "released"]
        /\ Answered(s, "exit", "fail_candidate")
     \/ /\ Rejected(s, CanActivate(s), "fail_candidate")
        /\ UNCHANGED <<binding, config, session, lease>>
  /\ UNCHANGED <<disk, flock, staging, service>>

----
(* The ends of a session. *)

(* run returns whatever the answer. *)
FailAuthorizationSession(s) ==
  LET effective == session[s].status \in Ongoing IN
  /\ On(s, "fail")
  /\ Advance(s, "exit")
  /\ \/ /\ effective
        /\ session' = [session EXCEPT ![s].status = "failed"]
        /\ binding' = WithStatus(Pending({Prep(s)}), "quarantined")
        /\ lease' = ReleasedBy(s)
        /\ UNCHANGED faults
     \/ /\ IF effective THEN Fault ELSE UNCHANGED faults
        /\ UNCHANGED <<session, binding, lease>>
  /\ UNCHANGED <<config, disk, flock, staging, service>>

(* An error of the startup recovery ends the process. *)
Gone(s) == IF runner[s].recovering THEN "exit_error" ELSE "exit"

(* A session that ended otherwise: its paths go only once the database has fenced them. *)
IsEnded(s) == CandidateIs(s, BindingStatus) /\ session[s].status \in Ended

AlreadyEnded(s) ==
  /\ IsEnded(s)
  /\ Advance(s, IF CandidateIs(s, {"quarantined"}) THEN "q_staging" ELSE "exit")
  /\ UNCHANGED <<session, binding, lease, faults>>

CanQuarantine(s) ==
  /\ CandidateIs(s, {"prepared", "committing"})
  /\ session[s].status = "verifying"
  /\ LeaseTuple(s)

QuarantineServerCredential(s) ==
  /\ On(s, "fail_candidate")
  /\ \/ AlreadyEnded(s)
     \/ /\ CanQuarantine(s)
        /\ binding' = WithStatus({Prep(s)}, "quarantined")
        /\ session' = [session EXCEPT ![s].status = "failed"]
        /\ lease' = [lease EXCEPT !.status = "fenced"]
        /\ Answered(s, "q_staging", Gone(s))
     \/ /\ Rejected(s, CanQuarantine(s) \/ IsEnded(s), Gone(s))
        /\ UNCHANGED <<session, binding, lease>>
  /\ UNCHANGED <<config, disk, flock, staging, service>>

QuarantineStaging(s) ==
  /\ On(s, "q_staging")
  /\ \/ /\ staging' = [staging EXCEPT ![s] = "absent"]
        /\ Advance(s, "q_revision") /\ UNCHANGED faults
     \/ Rejected(s, TRUE, Gone(s)) /\ UNCHANGED staging
  /\ UNCHANGED <<config, lease, binding, disk, flock, session, service>>

MovedAway(n) == IF revDir[n] \in {"open", "sealed"}
                  THEN [revDir EXCEPT ![n] = "quarantined"] ELSE revDir

QuarantineCandidate(s) ==
  /\ On(s, "q_revision")
  /\ \/ revDir' = MovedAway(Prep(s)) /\ Advance(s, "exit") /\ UNCHANGED faults
     \/ Rejected(s, TRUE, Gone(s)) /\ UNCHANGED revDir
  /\ UNCHANGED <<config, lease, binding, home, flock, session, staging, service>>

(* The deferred calls: the clone, the flock, and the staging directory unless it has been handed
   to PrepareServerCredential. *)
Exit(s) ==
  /\ runner[s].pc \in {"exit", "exit_error"}
  /\ \/ /\ home' = IF runner[s].cloned THEN [home EXCEPT ![s] = "absent"] ELSE home
        /\ staging' = IF staging[s] = "open" THEN [staging EXCEPT ![s] = "absent"]
                                             ELSE staging
        /\ UNCHANGED faults
     \/ Fault /\ UNCHANGED <<home, staging>>
  /\ flock' = IF flock = s THEN NoOne ELSE flock
  /\ runner' = [runner EXCEPT ![s] = NoRunner]
  /\ service' = IF runner[s].pc = "exit_error" THEN "down" ELSE service
  /\ UNCHANGED <<config, lease, binding, revDir, session>>

----
(* Startup: rows, then directories, then the candidates one by one, and only then requests. *)

StartService ==
  /\ service = "down"
  /\ service' = "rows"
  /\ UNCHANGED <<stateVars, session, staging, runner>>

Interrupted(s) == session[s].status \in Ongoing /\ Prep(s) = 0

(* A session and its candidate that no crash of the code can have left. *)
Inconsistent(s) ==
  /\ Prep(s) # 0
  /\ \/ session[s].status = "verifying" /\ Pending({Prep(s)}) = {}
     \/ session[s].status \in Ended /\ Pending({Prep(s)}) # {}

RecoverInterruptedAuthorizationSessions ==
  /\ service = "rows"
  /\ \/ /\ session' = [s \in Sessions |-> IF Interrupted(s)
                          THEN [session[s] EXCEPT !.status = "interrupted"] ELSE session[s]]
        /\ \/ /\ service' = IF \E s \in Sessions : Inconsistent(s) THEN "down" ELSE "trees"
              /\ UNCHANGED faults
           \/ service' = "down" /\ Fault
     \/ service' = "down" /\ Fault /\ UNCHANGED session
  /\ UNCHANGED <<config, lease, binding, disk, flock, staging, runner>>

DropStaging(s) == /\ staging[s] # "absent"
                  /\ staging' = [staging EXCEPT ![s] = "absent"]
                  /\ UNCHANGED disk
DropHome(s) == /\ home[s] # "absent"
               /\ home' = [home EXCEPT ![s] = "absent"]
               /\ UNCHANGED <<staging, revDir>>
DropRevision(s) == /\ revDir[Prep(s)] \in {"open", "sealed"}
                   /\ revDir' = MovedAway(Prep(s))
                   /\ UNCHANGED <<staging, home>>

LostCandidate(s) == Prep(s) # 0 /\ binding[Prep(s)].status = "quarantined"

(* One path of an interrupted session or of a quarantined candidate. *)
DropTree(s) ==
  \/ session[s].status = "interrupted" /\ Prep(s) = 0 /\ DropStaging(s)
  \/ /\ LostCandidate(s)
     /\ DropStaging(s) \/ DropRevision(s) \/ DropHome(s)

TreesClean == \A s \in Sessions :
    /\ session[s].status = "interrupted" /\ Prep(s) = 0 => staging[s] = "absent"
    /\ LostCandidate(s) => /\ staging[s] = "absent" /\ home[s] = "absent"
                           /\ revDir[Prep(s)] \in {"absent", "quarantined"}

RecoverAuthorizationCredentialTrees ==
  /\ service = "trees"
  /\ \/ (\E s \in Sessions : DropTree(s)) /\ UNCHANGED <<service, faults>>
     \/ TreesClean /\ service' = "recover" /\ UNCHANGED <<staging, disk, faults>>
     \/ service' = "down" /\ Fault /\ UNCHANGED <<staging, disk>>
  /\ UNCHANGED <<config, lease, binding, flock, session, runner>>

Recovering == \E s \in Sessions : runner[s].recovering
Resumes(s) == session[s].status = "verifying" /\ Prep(s) # 0

(* The session's last fence is still the executor's: nobody took the lease and neither the
   revision nor the revocation epoch has moved. *)
FenceIntact(s) ==
  LET b == binding[Prep(s)] IN
  /\ config.current = b.src /\ config.rvk = b.rvk
  /\ lease.op = s /\ lease.epoch = b.epoch /\ lease.src = b.src /\ lease.rvk = b.rvk

(* Waits while the dead process's lease is live on the process's own clock, then moves lease
   and candidate to the next epoch.  Any other answer ends the process. *)
ClaimServerCredentialRecovery(s) ==
  /\ service = "recover" /\ ~Recovering /\ Resumes(s)
  /\ \/ /\ FenceIntact(s) /\ (~LeaseHeld \/ ClockSkew)
        /\ lease' = TakenLease(s, Service, lease.src, lease.rvk)
        /\ binding' = Refenced(Prep(s))
        /\ \/ /\ runner' = [runner EXCEPT ![s] =
                   [NoRunner EXCEPT !.pc = "lock", !.epoch = lease.epoch + 1,
                      !.recovering = TRUE, !.seen = binding[Prep(s)].status]]
              /\ UNCHANGED <<service, faults>>
           \/ service' = "down" /\ Fault /\ UNCHANGED runner
     \/ /\ service' = "down"
        /\ IF FenceIntact(s) THEN Fault ELSE UNCHANGED faults
        /\ UNCHANGED <<lease, binding, runner>>
  /\ UNCHANGED <<config, disk, flock, session, staging>>

AcceptRequests ==
  /\ service = "recover" /\ ~Recovering
  /\ \A s \in Sessions : ~Resumes(s)
  /\ service' = "up"
  /\ UNCHANGED <<stateVars, session, staging, runner>>

----
(* Time, crashes and the specification. *)

AuthAttended == \E s \in Sessions : /\ runner[s].pc # "none"
                                    /\ lease.op = s
                                    /\ lease.epoch = runner[s].epoch

AuthLapse == Lapse(AuthAttended) /\ UNCHANGED authVars

ServiceCrash ==
  /\ service # "down"
  /\ Fault
  /\ service' = "down"
  /\ runner' = [s \in Sessions |-> NoRunner]
  /\ flock' = IF flock \in Sessions THEN NoOne ELSE flock
  /\ UNCHANGED <<config, lease, binding, disk, session, staging>>

AuthRequest == \E s \in Sessions :
    CreateAuthorizationSession(s) \/ CancelAuthorizationSession(s)

RunnerStep(s) ==
  \/ StartDeviceCodeLogin(s) \/ MarkAuthorizationWaiting(s) \/ WaitLoginCompleted(s)
  \/ MarkAuthorizationVerifying(s) \/ FreezeStaging(s) \/ PrepareServerCredential(s)
  \/ LockForCommit(s) \/ InspectCandidate(s) \/ MarkCredentialCommitting(s)
  \/ PromoteStaging(s) \/ SealCandidate(s) \/ CloneCandidate(s) \/ VerifyCandidate(s)
  \/ DiscardClone(s) \/ RenewBeforeActivation(s) \/ ActivateServerCredential(s)
  \/ FailAuthorizationSession(s) \/ QuarantineServerCredential(s)
  \/ QuarantineStaging(s) \/ QuarantineCandidate(s) \/ Exit(s)

StartupStep ==
  \/ StartService \/ RecoverInterruptedAuthorizationSessions
  \/ RecoverAuthorizationCredentialTrees \/ AcceptRequests
  \/ \E s \in Sessions : ClaimServerCredentialRecovery(s)

AuthNext == \/ AuthRequest \/ AuthLapse \/ ServiceCrash \/ StartupStep
            \/ \E s \in Sessions : RunnerStep(s)

allAuthVars == <<stateVars, authVars>>
AuthorizationInit ==
  /\ AuthorizedExecutor \/ FreshExecutor
  /\ IdleVolume
  /\ AuthInit

AuthSpec == AuthorizationInit /\ [][AuthNext]_allAuthVars

----
(* Properties. *)

(* A session says succeeded exactly when its candidate has been activated: a lost answer, a
   cancellation or a recovery never makes the two differ. *)
SessionOutcome ==
  \A s \in Sessions : session[s].status = "succeeded" <=>
      Prep(s) # 0 /\ binding[Prep(s)].status \in {"active", "revoked"}

(* The startup check ErrCredentialRecoveryRequired never trips: a session and its candidate
   always end together. *)
RecoveryConsistent == \A s \in Sessions : ~Inconsistent(s)

(* A session that prepared a candidate keeps the executor's fence until it ends, so the claim of
   the next startup is never refused as fenced. *)
CandidateKeepsFence == \A s \in Sessions : Resumes(s) => FenceIntact(s)

(* An ended session stays as it ended, and a late goroutine never commits the candidate of a
   session that was cancelled or failed. *)
SessionIsFinal ==
  [][\A s \in Sessions : session[s].status \in Ended =>
       /\ session'[s] = session[s]
       /\ Prep(s) # 0 /\ binding[Prep(s)].status # "active"
            => binding'[Prep(s)].status # "active"]_allAuthVars

(* A restart brings every unfinished session to an end. *)
RestartSettles ==
  \A s \in Sessions :
      service = "down" /\ session[s].status \in Ongoing ~> session[s].status \in Ended
====
