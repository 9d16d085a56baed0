---- MODULE ControlTask ----
(* Control tasks of a server executor: in each instance of the service one loop claims a task,
   runs the provider in a private copy of the credential, may rotate it, and reconciles what an
   expired lease left. A store method is one serializable transaction and one action. It commits
   and is answered, commits and the answer is lost, or does not commit; the last two cost a
   Fault unless the WHERE clauses refuse the write. *)
EXTENDS ExecutorState, FiniteSets

VARIABLES
    task,       \* ky_ai_executor_task, by task
    worker      \* the control loop of each instance

taskVars == <<task, worker>>
vars == <<stateVars, taskVars>>

TaskTypes == {"credential_verify", "model_catalog_refresh", "readiness_check"}
Claimed == {"waiting_executor", "running"}
Nonterminal == Claimed \cup {"pending"}
Terminal == {"completed", "failed", "cancelled"}
(* "failed" stands for failed and timeout. *)
TaskStatus == {"absent"} \cup Nonterminal \cup Terminal

(* cfg, src, cat and rvk are frozen when the task is created; src is both
   credential_binding_revision and source_credential_revision. *)
TaskRow == [status : TaskStatus, type : TaskTypes, epoch : Nat, cfg : Nat,
            src : 0..MaxRevision, cat : Nat, rvk : Nat]
NoTask == [status |-> "absent", type |-> "readiness_check", epoch |-> 0,
           cfg |-> 0, src |-> 0, cat |-> 0, rvk |-> 0]

ProcessSteps == {"clone", "start", "run", "prepare", "unchanged"}
VerifySteps == {"renew1", "reclone", "rerun", "renew2", "discard", "undo"}
CommitSteps == {"mark", "promote", "seal", "finish", "complete", "fail"}
CleanupSteps == {"failed_rev", "failed_home", "settle", "q_home", "q_rev"}
WorkerPc == {"down", "boot", "sweep", "sweep_disk", "idle", "lock", "inspect"}
              \cup ProcessSteps \cup VerifySteps \cup CommitSteps \cup CleanupSteps

(* cand is the candidate revision the worker knows, seen the binding status recovery was handed,
   outcome the provider's verdict; boot: Recover has not returned yet. *)
WorkerRow == [pc : WorkerPc, task : Tasks \cup {NoOne}, epoch : Nat,
              cand : 0..MaxRevision, mode : {"process", "recover"},
              seen : {"prepared", "committing"}, outcome : {"ok", "unauthorized"},
              boot : BOOLEAN]
WithoutTask(pc, boot) ==
  [pc |-> pc, task |-> NoOne, epoch |-> 0, cand |-> 0, mode |-> "process",
   seen |-> "prepared", outcome |-> "ok", boot |-> boot]
Resting == WithoutTask("idle", FALSE)
Booting == WithoutTask("boot", TRUE)
Stopped == WithoutTask("down", FALSE)

TypeOK ==
  /\ StateTypeOK
  /\ task \in [Tasks -> TaskRow]
  /\ worker \in [Instances -> WorkerRow]

TaskInit ==
  /\ task = [t \in Tasks |-> NoTask]
  /\ worker = [i \in Instances |-> Stopped]

Init == AuthorizedExecutor /\ IdleVolume /\ TaskInit

----
(* Where a worker goes next. *)

Row(i) == task[worker[i].task]

(* Returning drops the flock and local state; an error inside Recover ends the process. *)
Home(i) == IF worker[i].boot THEN Booting ELSE Resting
Move(i, pc) ==
  /\ worker' = [worker EXCEPT ![i] =
                  CASE pc = "return" -> Home(i)
                    [] pc = "error" -> IF worker[i].boot THEN Stopped ELSE Resting
                    [] OTHER -> [@ EXCEPT !.pc = pc]]
  /\ flock' = IF pc \in {"return", "error"} /\ flock = i THEN NoOne ELSE flock

(* A committed transaction: answered, or the answer is lost. *)
Committed(i, ok, lost) ==
  \/ Move(i, ok) /\ UNCHANGED faults
  \/ Move(i, lost) /\ Fault

(* A step with no effect: its condition fails, or something breaks. *)
Refused(i, possible, next) ==
  /\ Move(i, next)
  /\ IF possible THEN Fault ELSE UNCHANGED faults

----
(* The WHERE clauses of the store. *)

(* Variant that seeds a fault: the expiry of the lease is not looked at. *)
OwnsLeaseExpired(i) ==
  /\ lease.status = "active"
  /\ lease.op = worker[i].task
  /\ lease.owner = i
  /\ lease.epoch = worker[i].epoch
  /\ lease.src = Row(i).src
  /\ lease.rvk = Row(i).rvk

(* Operation, source revision and revocation epoch of a task never change, so the exact tuple is
   the lease epoch. *)
RowIs(i, statuses) == Row(i).status \in statuses /\ Row(i).epoch = worker[i].epoch

OwnsLease(i) ==
  /\ LeaseHeld
  /\ lease.op = worker[i].task
  /\ lease.owner = i
  /\ lease.epoch = worker[i].epoch
  /\ lease.src = Row(i).src
  /\ lease.rvk = Row(i).rvk

SourceCurrent(t) == config.current = task[t].src /\ config.rvk = task[t].rvk

CredentialUsable(type) ==
  config.cred = "authorized" \/ (type = "credential_verify" /\ config.cred = "expired")

(* The configuration a task froze. *)
FrozenConfigHolds(t) ==
  /\ config.enabled
  /\ CredentialUsable(task[t].type)
  /\ config.rev = task[t].cfg
  /\ config.cat = task[t].cat
  /\ SourceCurrent(t)
  /\ CurrentBindingActive

(* Seeds a fault: a failure forgets committing candidates. *)
PreparedCandidates(t, epoch) ==
  {n \in Candidates(t, epoch, task[t].src, task[t].rvk) : binding[n].status = "prepared"}

TaskCandidates(t, epoch) == Candidates(t, epoch, task[t].src, task[t].rvk)

----
(* Requests. *)

(* A request for a job that is already queued returns that task. *)
CreateControlTask(t, type) ==
  /\ task[t].status = "absent"
  /\ config.enabled /\ CredentialUsable(type) /\ CurrentBindingActive
  /\ \A u \in Tasks : ~ /\ task[u].status \in Nonterminal
                        /\ task[u].type = type
                        /\ task[u].cfg = config.rev
                        /\ task[u].src = config.current
                        /\ task[u].cat = config.cat
                        /\ task[u].rvk = config.rvk
  /\ task' = [task EXCEPT ![t] =
                [status |-> "pending", type |-> type, epoch |-> 0, cfg |-> config.rev,
                 src |-> config.current, cat |-> config.cat, rvk |-> config.rvk]]
  /\ UNCHANGED <<stateVars, worker>>

CancelPublicTask(t) ==
  /\ task[t].status \in Nonterminal
  /\ task' = [task EXCEPT ![t].status = "cancelled"]
  /\ lease' = IF task[t].epoch > 0 /\ lease.op = t /\ lease.epoch = task[t].epoch
                THEN FencedLease ELSE lease
  /\ UNCHANGED <<config, binding, disk, flock, faults, worker>>

(* An edit of the executor: enable, disable, or any other field. *)
PatchExecutor ==
  /\ config.rev < MaxConfigRevision
  /\ \E on \in BOOLEAN :
       config' = [config EXCEPT !.rev = @ + 1, !.enabled = on]
  /\ UNCHANGED <<lease, binding, disk, flock, faults, taskVars>>

(* A normal revocation waits for the executor to be free; a forced one fences the lease and
   cancels every task in the same transaction. *)
RevokeCredential(force) ==
  /\ config.cred \in {"authorized", "expired"}
  /\ CurrentBindingActive
  /\ ~force => ~LeaseHeld /\ \A t \in Tasks : task[t].status \notin Nonterminal
  /\ config' = [config EXCEPT !.cred = "revoked", !.current = 0,
                              !.rev = @ + 1, !.rvk = @ + 1]
  /\ binding' = WithStatus({config.current}, "revoked")
  /\ lease' = IF force THEN FencedLease ELSE lease
  /\ task' = [t \in Tasks |-> IF force /\ task[t].status \in Nonterminal
                                THEN [task[t] EXCEPT !.status = "cancelled"]
                                ELSE task[t]]
  /\ UNCHANGED <<disk, flock, faults, worker>>

----
(* Time and failures of a process. *)

Attended == \E i \in Instances : /\ worker[i].task = lease.op
                                 /\ worker[i].epoch = lease.epoch
                                 /\ worker[i].task # NoOne

LeaseLapses == Lapse(Attended) /\ UNCHANGED taskVars

Boot(i) ==
  /\ worker[i].pc = "down"
  /\ worker' = [worker EXCEPT ![i] = Booting]
  /\ UNCHANGED <<stateVars, task>>

(* The kernel drops the flock of a dead process; rows and files stay. *)
Crash(i) ==
  /\ worker[i].pc # "down"
  /\ Fault
  /\ worker' = [worker EXCEPT ![i] = Stopped]
  /\ flock' = IF flock = i THEN NoOne ELSE flock
  /\ UNCHANGED <<config, lease, binding, disk, task>>

----
(* The loop: reconcile one expired task, else claim one pending task. While an expired one is
   unreconciled no claim succeeds, so the order of the calls needs no step. *)

Rest(i) == worker[i].pc \in {"boot", "idle"}

ActiveTasksIgnored == FALSE     \* seeds a fault
BlockedByActiveTask == \E u \in Tasks : task[u].status \in Claimed

(* The claim of a task whose frozen configuration no longer holds ends it. *)
ClaimInvalid(i, t) ==
  /\ ~FrozenConfigHolds(t)
  /\ task' = [task EXCEPT ![t].status = "failed"]
  /\ UNCHANGED <<stateVars, worker>>

ClaimValid(i, t) ==
  /\ FrozenConfigHolds(t)
  /\ lease' = TakenLease(t, i, task[t].src, task[t].rvk)
  /\ task' = [task EXCEPT ![t].status = "waiting_executor", ![t].epoch = lease.epoch + 1]
  /\ \/ /\ worker' = [worker EXCEPT ![i] = [WithoutTask("lock", FALSE) EXCEPT
                        !.task = t, !.epoch = lease.epoch + 1]]
        /\ UNCHANGED faults
     \/ UNCHANGED worker /\ Fault
  /\ UNCHANGED <<config, binding, disk, flock>>

ClaimControlTask(i) ==
  /\ worker[i].pc = "idle"
  /\ ~BlockedByActiveTask
  /\ ~LeaseHeld
  /\ \E t \in Tasks : /\ task[t].status = "pending"
                      /\ ClaimInvalid(i, t) \/ ClaimValid(i, t)

(* Variant that seeds a fault: only running tasks are reconciled. *)
RecoverableRunning(t) ==
  /\ task[t].status = "running"
  /\ LeaseExpired
  /\ lease.op = t
  /\ lease.epoch = task[t].epoch

(* The join of task and lease on the complete fence. *)
Recoverable(t) ==
  /\ task[t].status \in Claimed
  /\ LeaseExpired
  /\ lease.op = t
  /\ lease.epoch = task[t].epoch
  /\ lease.src = task[t].src
  /\ lease.rvk = task[t].rvk

Resumable(t) ==
  /\ task[t].status = "running"
  /\ FrozenConfigHolds(t)
  /\ Cardinality(TaskCandidates(t, task[t].epoch)) = 1

(* Not resumable: fence the candidates and end the task before any path is touched. *)
TerminalizeExpired(i, t) ==
  LET lost == TaskCandidates(t, task[t].epoch) IN
  /\ ~Resumable(t)
  /\ binding' = WithStatus(lost, "quarantined")
  /\ task' = [task EXCEPT ![t].status = "failed"]
  /\ lease' = [lease EXCEPT !.status = "expired"]
  /\ \/ /\ \E c \in IF lost = {} THEN {0} ELSE lost :
             worker' = [worker EXCEPT ![i] =
               [@ EXCEPT !.pc = "q_home", !.mode = "recover", !.task = t,
                         !.epoch = task[t].epoch, !.cand = c]]
        /\ UNCHANGED <<flock, faults>>
     \/ Move(i, "error") /\ Fault
  /\ UNCHANGED <<config, disk>>

(* Resumable: lease, candidate and task move to the next epoch together. *)
TakeOver(i, t) ==
  \E c \in TaskCandidates(t, task[t].epoch) :
    /\ Resumable(t)
    /\ lease' = TakenLease(t, i, lease.src, lease.rvk)
    /\ binding' = Refenced(c)
    /\ task' = [task EXCEPT ![t].epoch = lease.epoch + 1]
    /\ \/ /\ worker' = [worker EXCEPT ![i] =
               [@ EXCEPT !.pc = "lock", !.mode = "recover", !.task = t,
                         !.epoch = lease.epoch + 1, !.cand = c,
                         !.seen = binding[c].status]]
          /\ UNCHANGED <<flock, faults>>
       \/ Move(i, "error") /\ Fault
    /\ UNCHANGED <<config, disk>>

ReconcileOne(i) ==
  /\ Rest(i)
  /\ \E t \in Tasks : /\ Recoverable(t)
                      /\ TerminalizeExpired(i, t) \/ TakeOver(i, t)

(* Recover found nothing left to claim: on to the startup sweep. *)
BootReconciled(i) ==
  /\ worker[i].pc = "boot"
  /\ \A t \in Tasks : ~Recoverable(t)
  /\ Move(i, "sweep")
  /\ UNCHANGED <<config, lease, binding, disk, faults, task>>
----
(* The work of a claimed task, in process and in recovery. *)

At(i, pc) == worker[i].pc = pc
InProcess(i) == worker[i].mode = "process"

(* flock(LOCK_EX|LOCK_NB) is polled until the deadline, which may pass while another process has
   the lock. *)
AcquireExecutorLock(i) ==
  /\ At(i, "lock")
  /\ \/ /\ LockFree
        /\ flock' = i
        /\ worker' = [worker EXCEPT ![i].pc = IF InProcess(i) THEN "clone" ELSE "inspect"]
        /\ UNCHANGED faults
     \/ Refused(i, LockFree, "fail")
  /\ UNCHANGED <<config, lease, binding, disk, task>>

(* A private copy of the sealed source; an existing home is never reused. *)
CanClone(i, rev) == revDir[rev] = "sealed" /\ home[worker[i].task] = "absent"

CloneSource(i) ==
  /\ At(i, "clone")
  /\ \/ /\ CanClone(i, Row(i).src)
        /\ home' = [home EXCEPT ![worker[i].task] = "copy"]
        /\ Move(i, "start") /\ UNCHANGED faults
     \/ Refused(i, CanClone(i, Row(i).src), "fail") /\ UNCHANGED home
  /\ UNCHANGED <<config, lease, binding, revDir, task>>

CanStart(i) == RowIs(i, {"waiting_executor"}) /\ OwnsLease(i)

StartControlTask(i) ==
  /\ At(i, "start")
  /\ \/ /\ CanStart(i)
        /\ task' = [task EXCEPT ![worker[i].task].status = "running"]
        /\ Committed(i, "run", "fail")
     \/ Refused(i, CanStart(i), "fail") /\ UNCHANGED task
  /\ UNCHANGED <<config, lease, binding, disk>>

(* The provider fails, says the credential is no longer authorized, leaves the files or rotates
   them. *)
RunOperation(i) ==
  /\ At(i, "run")
  /\ \/ Move(i, "fail") /\ UNCHANGED home
     \/ /\ worker' = [worker EXCEPT ![i].pc = "unchanged", ![i].outcome = "unauthorized"]
        /\ UNCHANGED <<home, flock>>
     \/ Move(i, "unchanged") /\ UNCHANGED home
     \/ /\ home[worker[i].task] = "copy"
        /\ home' = [home EXCEPT ![worker[i].task] = "rotated"]
        /\ Move(i, "prepare")
  /\ UNCHANGED <<config, lease, binding, revDir, faults, task>>

(* Nothing to commit. Only a verification completes with an unauthorized verdict. *)
DiscardUnchanged(i) ==
  /\ At(i, "unchanged")
  /\ \/ /\ home' = [home EXCEPT ![worker[i].task] = "absent"]
        /\ Move(i, IF \/ worker[i].outcome = "ok"
                      \/ Row(i).type = "credential_verify"
                   THEN "finish" ELSE "fail")
        /\ UNCHANGED faults
     \/ Refused(i, TRUE, "fail") /\ UNCHANGED home
  /\ UNCHANGED <<config, lease, binding, revDir, task>>

NextRevision ==
  (IF config.counter >= config.current THEN config.counter ELSE config.current) + 1

CanPrepare(i) == /\ RowIs(i, {"running"}) /\ OwnsLease(i) /\ SourceCurrent(worker[i].task)
                 /\ NextRevision <= MaxRevision

(* Variant that seeds a fault: the counter is not advanced. *)
PrepareUncounted(i) ==
  /\ At(i, "prepare")
  /\ CanPrepare(i)
  /\ binding' = [binding EXCEPT ![NextRevision] =
        [status |-> "prepared", op |-> worker[i].task, epoch |-> worker[i].epoch,
         src |-> Row(i).src, rvk |-> Row(i).rvk]]
  /\ worker' = [worker EXCEPT ![i].pc = "mark", ![i].cand = NextRevision]
  /\ UNCHANGED <<config, lease, disk, flock, faults, task>>

(* The next revision number is recorded as prepared. If the answer is lost the worker does not
   know its candidate. *)
PrepareControlTaskCredentialRotation(i) ==
  LET n == NextRevision IN
  /\ At(i, "prepare")
  /\ \/ /\ CanPrepare(i)
        /\ config' = [config EXCEPT !.counter = n]
        /\ binding' = [binding EXCEPT ![n] =
              [status |-> "prepared", op |-> worker[i].task, epoch |-> worker[i].epoch,
               src |-> Row(i).src, rvk |-> Row(i).rvk]]
        /\ \/ /\ worker' = [worker EXCEPT ![i].pc = "mark", ![i].cand = n]
              /\ UNCHANGED <<flock, faults>>
           \/ Move(i, "fail") /\ Fault
     \/ Refused(i, CanPrepare(i), "fail") /\ UNCHANGED <<config, binding>>
  /\ UNCHANGED <<lease, disk, task>>

IsCandidate(i, status) == /\ worker[i].cand \in TaskCandidates(worker[i].task, worker[i].epoch)
                          /\ binding[worker[i].cand].status = status

CanMark(i) == RowIs(i, {"running"}) /\ OwnsLease(i) /\ IsCandidate(i, "prepared")

MarkControlTaskCredentialCommitting(i) ==
  /\ At(i, "mark")
  /\ \/ /\ CanMark(i)
        /\ binding' = [binding EXCEPT ![worker[i].cand].status = "committing"]
        /\ Committed(i, "promote", "fail")
     \/ Refused(i, CanMark(i), "fail") /\ UNCHANGED binding
  /\ UNCHANGED <<config, lease, disk, task>>

(* Digest check and rename without replacement; a second step makes the tree read-only and
   durable. *)
CanPromote(i) == home[worker[i].task] = "rotated" /\ revDir[worker[i].cand] = "absent"

PromoteOperation(i) ==
  /\ At(i, "promote")
  /\ \/ /\ CanPromote(i)
        /\ home' = [home EXCEPT ![worker[i].task] = "absent"]
        /\ revDir' = [revDir EXCEPT ![worker[i].cand] = "open"]
        /\ Move(i, "seal") /\ UNCHANGED faults
     \/ Refused(i, CanPromote(i), "fail") /\ UNCHANGED disk
  /\ UNCHANGED <<config, lease, binding, task>>

SealRevision(i) ==
  /\ At(i, "seal")
  /\ \/ /\ revDir[worker[i].cand] = "open"
        /\ revDir' = [revDir EXCEPT ![worker[i].cand] = "sealed"]
        /\ Move(i, "renew1") /\ UNCHANGED faults
     \/ Refused(i, revDir[worker[i].cand] = "open", "fail") /\ UNCHANGED revDir
  /\ UNCHANGED <<config, lease, binding, home, task>>

(* What recovery finds on the volume decides how far the commit got; every ambiguous combination
   fails closed. *)
NotPromoted(i) == home[worker[i].task] = "rotated" /\ revDir[worker[i].cand] = "absent"
Promoted(i) == home[worker[i].task] = "absent" /\ revDir[worker[i].cand] = "sealed"

InspectPaths(i) ==
  LET seen == worker[i].seen
      next == CASE seen = "prepared" /\ NotPromoted(i) -> "mark"
                [] seen = "committing" /\ NotPromoted(i) -> "promote"
                [] seen = "committing" /\ Promoted(i) -> "renew1"
                [] OTHER -> "fail" IN
  /\ At(i, "inspect")
  /\ \/ Move(i, next) /\ UNCHANGED faults
     \/ next # "fail" /\ Refused(i, TRUE, "fail")
  /\ UNCHANGED <<config, lease, binding, disk, task>>
----
(* Verification of the promoted revision, in a clone that reuses the operation's home. process
   renews before it removes the clone, recovery after; every error removes it. *)

CanRenew(i) == RowIs(i, Claimed) /\ OwnsLease(i)

Intact(i) == revDir[worker[i].cand] = "sealed"

(* The renewal of a live lease changes its expiry only. *)
RenewBeforeVerify(i) ==
  /\ At(i, "renew1")
  /\ \/ CanRenew(i) /\ Intact(i) /\ Move(i, "reclone") /\ UNCHANGED faults
     \/ Refused(i, CanRenew(i) /\ Intact(i), "fail")
  /\ UNCHANGED <<config, lease, binding, disk, task>>

ClonePromoted(i) ==
  /\ At(i, "reclone")
  /\ \/ /\ CanClone(i, worker[i].cand)
        /\ home' = [home EXCEPT ![worker[i].task] = "copy"]
        /\ Move(i, "rerun") /\ UNCHANGED faults
     \/ Refused(i, CanClone(i, worker[i].cand), "fail") /\ UNCHANGED home
  /\ UNCHANGED <<config, lease, binding, revDir, task>>

(* The provider accepts the promoted credential, or it does not. *)
RunVerification(i) ==
  /\ At(i, "rerun")
  /\ \/ Move(i, IF InProcess(i) THEN "renew2" ELSE "discard")
     \/ Move(i, "undo")
  /\ UNCHANGED <<config, lease, binding, disk, faults, task>>

RenewAfterVerify(i) ==
  LET ok == CanRenew(i) /\ (InProcess(i) \/ Intact(i)) IN
  /\ At(i, "renew2")
  /\ \/ ok /\ Move(i, IF InProcess(i) THEN "discard" ELSE "finish") /\ UNCHANGED faults
     \/ Refused(i, ok, "undo")
  /\ UNCHANGED <<config, lease, binding, disk, task>>

DiscardVerificationHome(i) ==
  /\ At(i, "discard")
  /\ \/ /\ home' = [home EXCEPT ![worker[i].task] = "absent"]
        /\ Move(i, IF ~InProcess(i) THEN "renew2"
                   ELSE IF Intact(i) THEN "finish" ELSE "fail")
        /\ UNCHANGED faults
     \/ Refused(i, TRUE, "undo") /\ UNCHANGED home
  /\ UNCHANGED <<config, lease, binding, revDir, task>>

(* The deferred RemoveEphemeral; its error is ignored. *)
UndoVerification(i) ==
  /\ At(i, "undo")
  /\ Move(i, "fail")
  /\ \/ home' = [home EXCEPT ![worker[i].task] = "absent"] /\ UNCHANGED faults
     \/ UNCHANGED home /\ Fault
  /\ UNCHANGED <<config, lease, binding, revDir, task>>

----
(* The end of an operation. *)

(* Unauthorized, it cannot renew: no write. *)
FinishRenewal(i) ==
  /\ At(i, "finish")
  /\ \/ CanRenew(i) /\ Move(i, "complete") /\ UNCHANGED faults
     \/ Refused(i, CanRenew(i),
                IF worker[i].outcome = "unauthorized" THEN "return" ELSE "fail")
  /\ UNCHANGED <<config, lease, binding, disk, task>>

CanComplete(i) ==
  /\ RowIs(i, {"running"}) /\ OwnsLease(i) /\ SourceCurrent(worker[i].task)
  /\ config.rev = Row(i).cfg
  /\ worker[i].cand # 0 => IsCandidate(i, "committing")

(* Variant that seeds a fault: the verdict is stored as it is. *)
VerdictAsStatus(i) ==
  IF Row(i).type # "credential_verify" THEN config.cred ELSE worker[i].outcome

NewCredentialStatus(i) ==
  IF Row(i).type # "credential_verify" THEN config.cred
  ELSE IF worker[i].outcome = "ok" THEN "authorized" ELSE "expired"

(* The commit point: the rotated revision becomes current, the old binding is revoked, the task
   completes and the lease is released. *)
CompleteControlTask(i) ==
  LET promoted == worker[i].cand # 0 IN
  /\ At(i, "complete")
  /\ \/ /\ CanComplete(i)
        /\ binding' = IF promoted THEN Switched(Row(i).src, worker[i].cand) ELSE binding
        /\ config' = [config EXCEPT
              !.current = IF promoted THEN worker[i].cand ELSE @,
              !.cred = NewCredentialStatus(i),
              !.cat = IF Row(i).type = "model_catalog_refresh" THEN @ + 1 ELSE @]
        /\ task' = [task EXCEPT ![worker[i].task].status = "completed"]
        /\ lease' = [lease EXCEPT !.status = "released"]
        /\ Committed(i, "return", "error")
     \/ Refused(i, CanComplete(i), "error") /\ UNCHANGED <<binding, config, task, lease>>
  /\ UNCHANGED disk

CanFail(i) == RowIs(i, Claimed) /\ OwnsLease(i) /\ SourceCurrent(worker[i].task)

(* A committed failure authorizes the cleanup; anything else is ambiguous: process asks whether
   the task is terminal, recovery touches nothing. *)
FailControlTask(i) ==
  LET unclear == IF InProcess(i) THEN "settle" ELSE "error" IN
  /\ At(i, "fail")
  /\ \/ /\ CanFail(i)
        /\ config' = IF worker[i].outcome = "unauthorized"
                       THEN [config EXCEPT !.cred = "expired"] ELSE config
        /\ binding' = WithStatus(TaskCandidates(worker[i].task, worker[i].epoch),
                                 "quarantined")
        /\ task' = [task EXCEPT ![worker[i].task].status = "failed"]
        /\ lease' = [lease EXCEPT !.status = "released"]
        /\ Committed(i, IF InProcess(i) THEN "failed_rev" ELSE "q_home", unclear)
     \/ Refused(i, CanFail(i), unclear) /\ UNCHANGED <<config, binding, task, lease>>
  /\ UNCHANGED disk

(* ReconcileTerminalControlTaskCredential: only a task that is terminal at the worker's own epoch
   may be cleaned up by it. *)
SettleFencedFailure(i) ==
  LET settled == RowIs(i, Terminal)
      left == TaskCandidates(worker[i].task, worker[i].epoch) IN
  /\ At(i, "settle")
  /\ \/ /\ settled
        /\ binding' = WithStatus(left, "quarantined")
        /\ \/ /\ \E c \in IF left = {} THEN {0} ELSE left :
                   worker' = [worker EXCEPT ![i].pc = "q_home", ![i].cand = c]
              /\ UNCHANGED <<flock, faults>>
           \/ Move(i, "error") /\ Fault
     \/ Refused(i, settled, "error") /\ UNCHANGED binding
  /\ UNCHANGED <<config, lease, disk, task>>

(* cleanupFailedOperation: the promoted revision, then the home; errors are ignored. *)
CleanFailedRevision(i) ==
  /\ At(i, "failed_rev")
  /\ Move(i, "failed_home")
  /\ \/ /\ revDir' = IF worker[i].cand # 0 /\ revDir[worker[i].cand] \in {"open", "sealed"}
                       THEN [revDir EXCEPT ![worker[i].cand] = "quarantined"] ELSE revDir
        /\ UNCHANGED faults
     \/ UNCHANGED revDir /\ Fault
  /\ UNCHANGED <<config, lease, binding, home, task>>

CleanFailedHome(i) ==
  /\ At(i, "failed_home")
  /\ Move(i, "return")
  /\ \/ home' = [home EXCEPT ![worker[i].task] = "absent"] /\ UNCHANGED faults
     \/ UNCHANGED home /\ Fault
  /\ UNCHANGED <<config, lease, binding, revDir, task>>

(* quarantineRecoveryPaths: the home, then the revision; it is idempotent and does not need the
   flock. *)
QuarantineHome(i) ==
  /\ At(i, "q_home")
  /\ \/ /\ home' = [home EXCEPT ![worker[i].task] = "absent"]
        /\ Move(i, "q_rev") /\ UNCHANGED faults
     \/ Refused(i, TRUE, "error") /\ UNCHANGED home
  /\ UNCHANGED <<config, lease, binding, revDir, task>>

QuarantineRevision(i) ==
  /\ At(i, "q_rev")
  /\ \/ /\ revDir' = IF worker[i].cand # 0 /\ revDir[worker[i].cand] \in {"open", "sealed"}
                       THEN [revDir EXCEPT ![worker[i].cand] = "quarantined"] ELSE revDir
        /\ Move(i, "return") /\ UNCHANGED faults
     \/ Refused(i, TRUE, "error") /\ UNCHANGED revDir
  /\ UNCHANGED <<config, lease, binding, home, task>>

----
(* The startup sweep of what terminal tasks left. *)

Leftovers == {n \in Revisions : /\ binding[n].op \in Tasks
                                /\ task[binding[n].op].status \in Terminal
                                /\ binding[n].status \in {"prepared", "committing"}}

(* ListControlTaskCredentialCleanup fences every candidate of a terminal task before it lists
   anything. *)
SweepRows(i) ==
  /\ At(i, "sweep")
  /\ \/ binding' = WithStatus(Leftovers, "quarantined") /\ Committed(i, "sweep_disk", "error")
     \/ Refused(i, TRUE, "error") /\ UNCHANGED binding
  /\ UNCHANGED <<config, lease, disk, task>>

(* Variant that seeds a fault: every revision of a terminal task is due, active or not. *)
EveryTerminalRevision == {n \in Revisions : /\ binding[n].op \in Tasks
                                            /\ task[binding[n].op].status \in Terminal
                                            /\ revDir[n] \in {"open", "sealed"}}

StaleHomes == {t \in Tasks : task[t].status \in Terminal /\ home[t] # "absent"}
StaleRevisions == {n \in Revisions : /\ binding[n].op \in Tasks
                                     /\ task[binding[n].op].status \in Terminal
                                     /\ binding[n].status = "quarantined"
                                     /\ revDir[n] \in {"open", "sealed"}}

(* One path at a time, until none is left and the loop starts. *)
SweepDisk(i) ==
  /\ At(i, "sweep_disk")
  /\ \/ /\ \E t \in StaleHomes : home' = [home EXCEPT ![t] = "absent"]
        /\ UNCHANGED <<revDir, worker, flock, faults>>
     \/ /\ \E n \in StaleRevisions : revDir' = [revDir EXCEPT ![n] = "quarantined"]
        /\ UNCHANGED <<home, worker, flock, faults>>
     \/ /\ StaleHomes = {} /\ StaleRevisions = {}
        /\ worker' = [worker EXCEPT ![i] = Resting]
        /\ UNCHANGED <<disk, flock, faults>>
     \/ Refused(i, TRUE, "error") /\ UNCHANGED disk
  /\ UNCHANGED <<config, lease, binding, task>>

----
WorkStep(i) ==
  \/ AcquireExecutorLock(i) \/ CloneSource(i) \/ StartControlTask(i)
  \/ RunOperation(i) \/ DiscardUnchanged(i)
  \/ PrepareControlTaskCredentialRotation(i) \/ MarkControlTaskCredentialCommitting(i)
  \/ PromoteOperation(i) \/ SealRevision(i) \/ InspectPaths(i)
  \/ RenewBeforeVerify(i) \/ ClonePromoted(i) \/ RunVerification(i)
  \/ RenewAfterVerify(i) \/ DiscardVerificationHome(i) \/ UndoVerification(i)
  \/ FinishRenewal(i) \/ CompleteControlTask(i) \/ FailControlTask(i)
  \/ SettleFencedFailure(i) \/ CleanFailedRevision(i) \/ CleanFailedHome(i)
  \/ QuarantineHome(i) \/ QuarantineRevision(i)

LoopStep(i) ==
  \/ Boot(i) \/ BootReconciled(i) \/ SweepRows(i) \/ SweepDisk(i)
  \/ ReconcileOne(i) \/ ClaimControlTask(i)

(* The HTTP server starts only after Recover has returned. *)
Serving == \E i \in Instances : worker[i].pc # "down" /\ ~worker[i].boot

Request ==
  /\ Serving
  /\ \/ \E t \in Tasks, type \in TaskTypes : CreateControlTask(t, type)
     \/ \E t \in Tasks : CancelPublicTask(t)
     \/ PatchExecutor
     \/ \E force \in BOOLEAN : RevokeCredential(force)

Next ==
  \/ Request
  \/ LeaseLapses
  \/ \E i \in Instances : Crash(i) \/ LoopStep(i) \/ WorkStep(i)

Spec == Init /\ [][Next]_vars

(* systemd restarts the process, its loop polls twice a second and every call has a deadline; the
   database clock passes any expiry nobody renews. *)
Fairness ==
  /\ \A i \in Instances : WF_vars(WorkStep(i)) /\ WF_vars(LoopStep(i))
  /\ WF_vars(LeaseLapses /\ ~Attended)

FairSpec == Spec /\ Fairness
----
(* Properties. *)

(* Reconciliation looks for exactly one candidate on the task's own fence: a claimed task never
   has a second one, nor one left at an older epoch. *)
OneCandidate ==
  \A m, n \in Revisions :
      /\ binding[n].status \in {"prepared", "committing"}
      /\ binding[n].op \in Tasks
      => /\ binding[n].epoch = task[binding[n].op].epoch
         /\ binding[m].op = binding[n].op => m = n

(* A claimed task carries the executor's lease, so the reconciler's join finds it once the lease
   expires: no crash orphans it. *)
ClaimedIsLeased ==
  \A t \in Tasks : task[t].status \in Claimed =>
      /\ lease.status = "active" /\ lease.op = t /\ lease.epoch = task[t].epoch
      /\ lease.src = task[t].src /\ lease.rvk = task[t].rvk

(* A task that ended stays as it ended, and nothing it left behind is ever activated: a late
   completion does not revive it. *)
TerminalIsFinal ==
  [][\A t \in Tasks : task[t].status \in Terminal =>
       /\ task'[t] = task[t]
       /\ \A n \in Revisions :
            binding[n].op = t /\ binding[n].status # "active"
              => binding'[n].status # "active"]_vars

(* Every requested task ends, across crashes, lost replies and expiries. *)
EveryTaskEnds ==
  \A t \in Tasks : task[t].status \in Nonterminal ~> task[t].status \in Terminal

----
(* The tasks of an executor are one implementation of its fence. *)

TaskFence == INSTANCE OperationFence WITH
    Operations  <- Tasks,
    Credentials <- Revisions,
    Nobody      <- NoOne,
    epoch       <- lease.epoch,
    holder      <- IF LeaseHeld THEN lease.op ELSE NoOne,
    source      <- lease.src,
    current     <- config.current,
    retired     <- {n \in Revisions : binding[n].status = "revoked"},
    ended       <- {t \in Tasks : task[t].status \in Terminal}

(* Claims, takeovers, completions, cancellations and revocations are steps of the abstract fence,
   and everything else the loops do is invisible. *)
ImplementsFence == TaskFence!Spec
====
