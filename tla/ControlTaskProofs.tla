---- MODULE ControlTaskProofs ----
(* Types and bindings of ControlTask, for any number of tasks, processes, revisions and faults. *)
EXTENDS ControlTask, TLAPS

RestPc == {"down", "boot", "sweep", "sweep_disk", "idle"}

(* A worker that is not at rest works on a task: the rows it reads exist. *)
WorkerHasTask ==
  \A i \in Instances : worker[i].pc \notin RestPc => worker[i].task \in Tasks

Typed == TypeOK /\ WorkerHasTask

WorkersTyped == worker \in [Instances -> WorkerRow] /\ WorkerHasTask
LockTyped == flock \in Instances \cup Sessions \cup {NoOne}
FaultsTyped == faults \in 0..MaxFaults

----
(* Where a worker may go: what Move, Committed and Refused preserve. *)

(* Every move leads to a known step. *)
LEMMA MoveTyped ==
  ASSUME Typed, NEW i \in Instances, NEW pc \in WorkerPc \cup {"return", "error"},
         worker[i].task \in Tasks \/ pc \in RestPc \cup {"return", "error"},
         Move(i, pc)
  PROVE  WorkersTyped' /\ LockTyped'
<1>5. CASE pc \notin {"return", "error"}
  BY <1>5 DEF Move, WorkerRow, Typed, TypeOK, WorkersTyped, WorkerHasTask, StateTypeOK, LockTyped
<1> QED
  BY <1>5, StateAssumption DEF Move, Typed, TypeOK, WorkersTyped, WorkerHasTask, StateTypeOK,
     LockTyped, Stopped, Home, Resting, Booting, WithoutTask, RestPc, WorkerRow, WorkerPc

(* A fault stays within the bound. *)
LEMMA FaultTyped ==
  ASSUME Typed, Fault \/ UNCHANGED faults
  PROVE  FaultsTyped'
BY StateAssumption DEF Typed, TypeOK, StateTypeOK, Fault, FaultsTyped

WorkerSideTyped == WorkersTyped /\ LockTyped /\ FaultsTyped

AnyPc == WorkerPc \cup {"return", "error"}

LEMMA CommittedTyped ==
  ASSUME Typed, NEW i \in Instances, worker[i].task \in Tasks,
         NEW ok \in AnyPc, NEW lost \in AnyPc, Committed(i, ok, lost)
  PROVE  WorkerSideTyped'
BY MoveTyped, FaultTyped DEF Committed, WorkerSideTyped, AnyPc

LEMMA RefusedTyped ==
  ASSUME Typed, NEW i \in Instances, worker[i].task \in Tasks,
         NEW possible, NEW next \in AnyPc, Refused(i, possible, next)
  PROVE  WorkerSideTyped'
BY MoveTyped, FaultTyped DEF Refused, WorkerSideTyped, AnyPc

LEMMA MovedTyped ==
  ASSUME Typed, NEW i \in Instances, worker[i].task \in Tasks,
         NEW pc \in AnyPc, Move(i, pc), UNCHANGED faults \/ Fault
  PROVE  WorkerSideTyped'
BY MoveTyped, FaultTyped DEF WorkerSideTyped, AnyPc

(* A worker that learns its candidate keeps its task. *)
Knowing(w, pc, c) == [w EXCEPT !.pc = pc, !.cand = c]

LEMMA CandidateKnown ==
  ASSUME NEW w \in WorkerRow, NEW pc \in WorkerPc, NEW c \in 0..MaxRevision
  PROVE  Knowing(w, pc, c) \in WorkerRow /\ Knowing(w, pc, c).task = w.task
BY DEF WorkerRow, Knowing

LEMMA WorkerSetTyped ==
  ASSUME Typed, NEW i \in Instances, NEW w \in WorkerRow,
         w.pc \notin RestPc => w.task \in Tasks,
         worker' = [worker EXCEPT ![i] = w],
         LockTyped', UNCHANGED faults \/ Fault
  PROVE  WorkerSideTyped'
BY FaultTyped DEF Typed, TypeOK, WorkerSideTyped, WorkersTyped, WorkerHasTask

(* The rows, the files and the tasks, without the worker's side. *)
RowsTyped == /\ config \in ConfigRow
             /\ lease \in LeaseRow
             /\ binding \in [Revisions -> BindingRow]
             /\ task \in [Tasks -> TaskRow]
DiskTyped == revDir \in [Revisions -> DirStatus] /\ home \in [Ops -> HomeStatus]

LEMMA TypedParts == Typed => RowsTyped /\ DiskTyped /\ WorkerSideTyped
BY DEF Typed, TypeOK, StateTypeOK, RowsTyped, DiskTyped, WorkerSideTyped, WorkersTyped, LockTyped,
   FaultsTyped

LEMMA TypedFromParts ==
  ASSUME RowsTyped', DiskTyped', WorkerSideTyped'
  PROVE  Typed'
BY DEF Typed, TypeOK, StateTypeOK, RowsTyped, DiskTyped, WorkerSideTyped, WorkersTyped, LockTyped,
   FaultsTyped

LEMMA VolumeTyped ==
  ASSUME Typed, UNCHANGED <<config, lease, binding, task>>, DiskTyped', WorkerSideTyped'
  PROVE  Typed'
BY TypedParts, TypedFromParts DEF RowsTyped

LEMMA DatabaseTyped ==
  ASSUME Typed, UNCHANGED disk, RowsTyped', WorkerSideTyped'
  PROVE  Typed'
BY TypedParts, TypedFromParts DEF DiskTyped, disk

LEMMA BusyHasTask ==
  ASSUME Typed, NEW i \in Instances, worker[i].pc \notin RestPc
  PROVE  /\ worker[i] \in WorkerRow
         /\ worker[i].task \in Tasks /\ worker[i].task \in Ops
         /\ worker[i].cand \in 0..MaxRevision
         /\ Row(i) \in TaskRow
BY DEF Typed, TypeOK, WorkerHasTask, Ops, Row, WorkerRow

----
(* The steps of a worker that touch nothing but the volume and itself. *)
LEMMA VolumeStepTyped ==
  ASSUME Typed, NEW i \in Instances,
         \/ AcquireExecutorLock(i) \/ CloneSource(i) \/ RunOperation(i)
         \/ DiscardUnchanged(i) \/ PromoteOperation(i) \/ SealRevision(i)
  PROVE  Typed'
<1> USE DEF AnyPc, WorkerPc, ProcessSteps, VerifySteps, CommitSteps, CleanupSteps, At, RestPc
<1>1. CASE AcquireExecutorLock(i)
  <2> USE <1>1 DEF AcquireExecutorLock
  <2>2. WorkerSideTyped'
    <3>2. CASE ~Refused(i, LockFree, "fail")
      BY <3>2, BusyHasTask DEF Typed, TypeOK, StateTypeOK, WorkerSideTyped, WorkersTyped,
         LockTyped, FaultsTyped, WorkerHasTask, WorkerRow
    <3> QED BY <3>2, RefusedTyped, BusyHasTask
  <2> QED BY <2>2, VolumeTyped, TypedParts DEF DiskTyped, disk
<1>3. CASE RunOperation(i)
  BY <1>3, BusyHasTask, MovedTyped, VolumeTyped, TypedParts DEF RunOperation, Typed, TypeOK,
     StateTypeOK, WorkerSideTyped, WorkersTyped, LockTyped, FaultsTyped, WorkerHasTask, WorkerRow,
     HomeStatus, DiskTyped, disk
<1> QED
  BY <1>1, <1>3, BusyHasTask, RefusedTyped, MovedTyped, VolumeTyped, TypedParts DEF CloneSource,
     HomeStatus, DiskTyped, disk, DiscardUnchanged, PromoteOperation, DirStatus, SealRevision

(* Verification and cleanup: the volume again, and the worker's next step. *)
LEMMA VerifyStepTyped ==
  ASSUME Typed, NEW i \in Instances,
         \/ InspectPaths(i) \/ RenewBeforeVerify(i) \/ ClonePromoted(i)
         \/ RunVerification(i) \/ RenewAfterVerify(i) \/ DiscardVerificationHome(i)
         \/ UndoVerification(i) \/ FinishRenewal(i) \/ CleanFailedRevision(i)
         \/ CleanFailedHome(i) \/ QuarantineHome(i) \/ QuarantineRevision(i)
  PROVE  Typed'
BY BusyHasTask, RefusedTyped, MovedTyped, VolumeTyped, TypedParts DEF AnyPc, WorkerPc, VerifySteps,
   CommitSteps, CleanupSteps, At, RestPc, InspectPaths, DiskTyped, disk, RenewBeforeVerify,
   ClonePromoted, HomeStatus, RunVerification, RenewAfterVerify, DiscardVerificationHome,
   UndoVerification, FinishRenewal, CleanFailedRevision, DirStatus, CleanFailedHome,
   QuarantineHome, QuarantineRevision

(* The transactions of a worker. *)
LEMMA TransactionTyped ==
  ASSUME Typed, NEW i \in Instances,
         \/ StartControlTask(i) \/ PrepareControlTaskCredentialRotation(i)
         \/ MarkControlTaskCredentialCommitting(i) \/ CompleteControlTask(i)
         \/ FailControlTask(i) \/ SettleFencedFailure(i)
  PROVE  Typed'
<1> USE DEF AnyPc, WorkerPc, ProcessSteps, VerifySteps, CommitSteps, CleanupSteps, At, RestPc
<1>a. RowsTyped BY TypedParts
<1>2. CASE PrepareControlTaskCredentialRotation(i)
  <2> USE <1>2 DEF PrepareControlTaskCredentialRotation
  <2> DEFINE row == [status |-> "prepared", op |-> worker[i].task, epoch |-> worker[i].epoch,
                     src |-> Row(i).src, rvk |-> Row(i).rvk]
  <2>1. worker[i] \in WorkerRow /\ worker[i].task \in Tasks /\ Row(i) \in TaskRow BY BusyHasTask
  <2>2. CASE CanPrepare(i) /\ config' = [config EXCEPT !.counter = NextRevision]
             /\ binding' = [binding EXCEPT ![NextRevision] = row]
    <3>1. NextRevision \in Revisions
      BY <1>a, <2>2 DEF CanPrepare, NextRevision, RowsTyped, ConfigRow, Revisions
    <3>2. config' \in ConfigRow BY SMTT(30), <1>a, <3>1 DEF RowsTyped, ConfigRow, Revisions
    <3>5. WorkerSideTyped'
      <4>3. CASE /\ worker' = [worker EXCEPT ![i].pc = "mark", ![i].cand = NextRevision]
                 /\ UNCHANGED <<flock, faults>>
        <5> DEFINE w2 == Knowing(worker[i], "mark", NextRevision)
        <5>1. worker' = [worker EXCEPT ![i] = w2] /\ UNCHANGED faults /\ LockTyped'
          BY <4>3, TypedParts DEF WorkerSideTyped, LockTyped, Knowing
        <5>2. NextRevision \in 0..MaxRevision BY <3>1 DEF Revisions
        <5> HIDE <1>2 DEF PrepareControlTaskCredentialRotation
        <5>3. w2 \in WorkerRow /\ w2.task = worker[i].task BY <2>1, <5>2, CandidateKnown
        <5> HIDE DEF w2
        <5> QED BY <2>1, <5>1, <5>3, WorkerSetTyped
      <4> QED BY <4>3, <2>1, MovedTyped, RefusedTyped
    <3> QED
      BY <1>a, <3>2, <3>5, DatabaseTyped, <2>1 DEF RowsTyped, BindingRow, BindingStatus, WorkerRow,
         TaskRow, Ops
  <2> QED BY <2>2, <2>1, RefusedTyped, <1>a, DatabaseTyped DEF RowsTyped
<1>4. CASE CompleteControlTask(i)
  <2> USE <1>4 DEF CompleteControlTask
  <2>6. config' \in ConfigRow
    <3>3. CASE config' = [config EXCEPT
                !.current = IF worker[i].cand # 0 THEN worker[i].cand ELSE @,
                !.cred = NewCredentialStatus(i),
                !.cat = IF Row(i).type = "model_catalog_refresh" THEN @ + 1 ELSE @]
      <4> DEFINE cur == IF worker[i].cand # 0 THEN worker[i].cand ELSE config.current
                 cat == IF Row(i).type = "model_catalog_refresh" THEN config.cat + 1
                                                                 ELSE config.cat
      <4>1. cur \in 0..MaxRevision /\ cat \in Nat BY <1>a, BusyHasTask DEF RowsTyped, ConfigRow
      <4>2. config' = [config EXCEPT !.current = cur, !.cred = NewCredentialStatus(i),
                                     !.cat = cat]
        BY <3>3
      <4> HIDE <1>4 DEF cur, cat
      <4> QED BY <1>a, <4>1, <4>2 DEF RowsTyped, ConfigRow, NewCredentialStatus, CredentialStatus
    <3> QED BY <3>3, <1>a DEF RowsTyped
  <2> QED
    BY <2>6, DatabaseTyped, RefusedTyped, CommittedTyped, BusyHasTask, <1>a DEF RowsTyped, TaskRow,
       TaskStatus, Terminal, LeaseRow, LeaseStatus, BindingRow, BindingStatus, Switched
<1>5. CASE FailControlTask(i)
  <2> USE <1>5 DEF FailControlTask
  <2>5. binding' \in [Revisions -> BindingRow]
    BY <1>a DEF RowsTyped, BindingStatus, WithStatus, BindingRow
  <2> QED
    BY <2>5, DatabaseTyped, RefusedTyped, CommittedTyped, BusyHasTask, <1>a DEF RowsTyped, TaskRow,
       TaskStatus, Terminal, LeaseRow, LeaseStatus, ConfigRow, CredentialStatus
<1>6. CASE SettleFencedFailure(i)
  <2> USE <1>6 DEF SettleFencedFailure
  <2> DEFINE left == TaskCandidates(worker[i].task, worker[i].epoch)
  <2>1. worker[i] \in WorkerRow /\ worker[i].task \in Tasks BY BusyHasTask
  <2>2. WorkerSideTyped'
    <3>3. CASE /\ \E c \in IF left = {} THEN {0} ELSE left :
                     worker' = [worker EXCEPT ![i].pc = "q_home", ![i].cand = c]
               /\ UNCHANGED <<flock, faults>>
      <4> HIDE <1>6 DEF SettleFencedFailure
      <4> DEFINE known == IF left = {} THEN {0} ELSE left
      <4>1. known \subseteq 0..MaxRevision
        BY StateAssumption DEF TaskCandidates, Candidates, Revisions
      <4>2. PICK c \in known : worker' = [worker EXCEPT ![i].pc = "q_home", ![i].cand = c] BY <3>3
      <4> DEFINE w2 == Knowing(worker[i], "q_home", c)
      <4> HIDE DEF known
      <4>3. worker' = [worker EXCEPT ![i] = w2] /\ UNCHANGED faults /\ LockTyped'
        BY <3>3, <4>2, TypedParts DEF WorkerSideTyped, LockTyped, Knowing
      <4>4. w2 \in WorkerRow /\ w2.task = worker[i].task BY <2>1, <4>1, CandidateKnown
      <4> HIDE DEF w2
      <4> QED BY <2>1, <4>3, <4>4, WorkerSetTyped
    <3> QED BY <3>3, <2>1, RefusedTyped, MovedTyped
  <2> QED BY <1>a, <2>2, DatabaseTyped DEF RowsTyped, BindingStatus, WithStatus, BindingRow
<1> QED
  BY <1>2, <1>4, <1>5, <1>6, BusyHasTask, RefusedTyped, CommittedTyped, <1>a, DatabaseTyped DEF
     StartControlTask, RowsTyped, TaskRow, TaskStatus, Nonterminal, Claimed,
     MarkControlTaskCredentialCommitting, BindingRow, BindingStatus

(* A worker that takes up a task. *)
Taking(w, pc, mode, t, e, c, seen) ==
  [w EXCEPT !.pc = pc, !.mode = mode, !.task = t, !.epoch = e, !.cand = c, !.seen = seen]

LEMMA TaskTaken ==
  ASSUME NEW w \in WorkerRow, NEW pc \in WorkerPc, NEW mode \in {"process", "recover"},
         NEW t \in Tasks, NEW e \in Nat, NEW c \in 0..MaxRevision,
         NEW seen \in {"prepared", "committing"}
  PROVE  LET w2 == Taking(w, pc, mode, t, e, c, seen)
         IN  w2 \in WorkerRow /\ w2.task \in Tasks
BY DEF WorkerRow, Taking

Starting(w, t, e) == [w EXCEPT !.task = t, !.epoch = e]

LEMMA TaskStarting ==
  ASSUME NEW w \in WorkerRow, NEW t \in Tasks, NEW e \in Nat
  PROVE  Starting(w, t, e) \in WorkerRow /\ Starting(w, t, e).task \in Tasks
BY DEF WorkerRow, Starting

LEMMA LeaseTaken ==
  ASSUME RowsTyped, NEW t \in Tasks, NEW i \in Instances, NEW src \in 0..MaxRevision,
         NEW rvk \in Nat
  PROVE  TakenLease(t, i, src, rvk) \in LeaseRow
BY DEF RowsTyped, TakenLease, LeaseRow, LeaseStatus, Ops

(* The loop: boot, sweep, reconcile and claim. *)
LEMMA ClaimTyped ==
  ASSUME Typed, NEW i \in Instances, ClaimControlTask(i)
  PROVE  Typed'
<1> USE DEF ClaimControlTask
<1>1. RowsTyped /\ WorkerSideTyped /\ worker[i] \in WorkerRow
  BY TypedParts DEF WorkerSideTyped, WorkersTyped
<1>2. PICK t \in Tasks : ClaimInvalid(i, t) \/ ClaimValid(i, t) OBVIOUS
<1>3. task' \in [Tasks -> TaskRow]
  BY <1>1 DEF ClaimInvalid, ClaimValid, RowsTyped, TaskRow, TaskStatus, Terminal, Nonterminal,
     Claimed
<1>5. CASE ClaimValid(i, t)
  <2> USE <1>5 DEF ClaimValid
  <2>2. WorkerSideTyped'
    <3>2. CASE /\ worker' = [worker EXCEPT ![i] = [WithoutTask("lock", FALSE) EXCEPT
                              !.task = t, !.epoch = lease.epoch + 1]]
               /\ UNCHANGED faults
      <4> DEFINE w == WithoutTask("lock", FALSE)
                 w2 == Starting(w, t, lease.epoch + 1)
      <4>1. w \in WorkerRow BY StateAssumption DEF WorkerRow, WorkerPc, WithoutTask
      <4>2. lease.epoch + 1 \in Nat BY <1>1 DEF RowsTyped, LeaseRow
      <4>3. w2 \in WorkerRow /\ w2.task \in Tasks BY <4>1, <4>2, TaskStarting
      <4>4. worker' = [worker EXCEPT ![i] = w2] /\ UNCHANGED faults /\ LockTyped'
        BY <1>1, <3>2 DEF WorkerSideTyped, LockTyped, Starting
      <4> HIDE DEF w2, ClaimValid
      <4> QED BY <4>3, <4>4, WorkerSetTyped
    <3> QED BY <3>2, <1>1, FaultTyped DEF WorkerSideTyped, WorkersTyped, LockTyped, WorkerHasTask
  <2> QED BY <1>1, <1>3, <2>2, DatabaseTyped, LeaseTaken DEF RowsTyped, TaskRow
<1> QED
  BY <1>2, <1>5, <1>1, <1>3, DatabaseTyped DEF ClaimInvalid, RowsTyped, stateVars, disk,
     WorkerSideTyped, WorkersTyped, LockTyped, FaultsTyped, WorkerHasTask

LEMMA ReconcileTyped ==
  ASSUME Typed, NEW i \in Instances, ReconcileOne(i)
  PROVE  Typed'
<1>1. /\ RowsTyped /\ WorkerSideTyped /\ worker[i] \in WorkerRow
      /\ "error" \in WorkerPc \cup {"return", "error"}
      /\ {"lock", "q_home"} \subseteq WorkerPc
  BY TypedParts DEF WorkerSideTyped, WorkersTyped, WorkerPc, CleanupSteps
<1>2. PICK t \in Tasks : TerminalizeExpired(i, t) \/ TakeOver(i, t) BY DEF ReconcileOne
<1>3. task[t].epoch \in Nat /\ lease.epoch + 1 \in Nat /\ lease.src \in 0..MaxRevision
      /\ lease.rvk \in Nat
  BY <1>1 DEF RowsTyped, TaskRow, LeaseRow
<1>4. CASE TerminalizeExpired(i, t)
  <2> DEFINE lost == TaskCandidates(t, task[t].epoch)
             known == IF lost = {} THEN {0} ELSE lost
  <2>2. RowsTyped'
    <3>3. binding' \in [Revisions -> BindingRow]
      BY <1>1, <1>4 DEF TerminalizeExpired, RowsTyped, WithStatus, BindingRow, BindingStatus
    <3> QED
      BY ZenonT(30), <1>1, <1>4, <3>3
         DEF TerminalizeExpired, RowsTyped, TaskRow, TaskStatus, Terminal, LeaseRow, LeaseStatus
  <2>4. ASSUME NEW c \in known,
               worker' = [worker EXCEPT ![i] = [worker[i] EXCEPT !.pc = "q_home",
                            !.mode = "recover", !.task = t, !.epoch = task[t].epoch, !.cand = c]],
               UNCHANGED <<flock, faults>>
        PROVE  Typed'
    <3> DEFINE w2 == Taking(worker[i], "q_home", "recover", t, task[t].epoch, c, worker[i].seen)
    <3>3. w2 \in WorkerRow /\ w2.task \in Tasks
      BY <1>1, <1>3, <2>4, TaskTaken, StateAssumption
         DEF WorkerRow, TaskCandidates, Candidates, Revisions
    <3>4. worker' = [worker EXCEPT ![i] = w2] /\ UNCHANGED faults /\ LockTyped'
      BY <1>1, <2>4 DEF WorkerSideTyped, LockTyped, Taking
    <3> HIDE DEF w2
    <3> QED BY <2>2, <3>3, <3>4, WorkerSetTyped, DatabaseTyped, <1>4 DEF TerminalizeExpired
  <2> QED
    BY <1>4, <2>4, <1>1, <2>2, MoveTyped, FaultTyped, DatabaseTyped
       DEF TerminalizeExpired, WorkerSideTyped
<1>5. CASE TakeOver(i, t)
  <2>1. PICK c \in TaskCandidates(t, task[t].epoch) :
          /\ lease' = TakenLease(t, i, lease.src, lease.rvk)
          /\ binding' = Refenced(c)
          /\ task' = [task EXCEPT ![t].epoch = lease.epoch + 1]
          /\ \/ /\ worker' = [worker EXCEPT ![i] =
                     [worker[i] EXCEPT !.pc = "lock", !.mode = "recover", !.task = t,
                               !.epoch = lease.epoch + 1, !.cand = c,
                               !.seen = binding[c].status]]
                /\ UNCHANGED <<flock, faults>>
             \/ Move(i, "error") /\ Fault
          /\ UNCHANGED <<config, disk>>
    BY <1>5 DEF TakeOver
  <2>2. c \in Revisions /\ c \in 0..MaxRevision
        /\ binding[c].status \in {"prepared", "committing"}
    BY DEF TaskCandidates, Candidates, Revisions
  <2>4. RowsTyped'
    BY <1>1, <1>3, <2>1, <2>2, LeaseTaken DEF RowsTyped, Refenced, TaskRow, BindingRow
  <2> QED
    BY ZenonT(30), <2>1, <1>1, <2>4, MoveTyped, FaultTyped, DatabaseTyped, <1>3, <2>2, TaskTaken,
       WorkerSetTyped DEF WorkerSideTyped, LockTyped, Taking
<1> QED BY <1>2, <1>4, <1>5

LEMMA StartupTyped ==
  ASSUME Typed, NEW i \in Instances,
         Boot(i) \/ BootReconciled(i) \/ SweepRows(i) \/ SweepDisk(i) \/ Crash(i)
  PROVE  Typed'
<1> USE DEF WorkerPc, RestPc, At
<1>1. RowsTyped /\ DiskTyped /\ WorkerSideTyped BY TypedParts
<1>3. Booting \in WorkerRow /\ Stopped \in WorkerRow /\ Resting \in WorkerRow
      /\ Booting.pc \in RestPc /\ Stopped.pc \in RestPc /\ Resting.pc \in RestPc
  BY StateAssumption DEF Booting, Stopped, Resting, WithoutTask, WorkerRow
<1> QED
  BY <1>1, <1>3, WorkerSetTyped, DatabaseTyped, MoveTyped, FaultTyped, VolumeTyped DEF Boot,
     stateVars, WorkerSideTyped, LockTyped, RowsTyped, disk, BootReconciled, SweepRows, Committed,
     Refused, WithStatus, BindingRow, BindingStatus, WorkersTyped, FaultsTyped, SweepDisk,
     DiskTyped, HomeStatus, DirStatus, Crash

(* Requests and the clock. *)
LEMMA ConfigEdited ==
  ASSUME NEW c \in ConfigRow, NEW rev \in Nat, NEW on \in BOOLEAN
  PROVE  [c EXCEPT !.rev = rev, !.enabled = on] \in ConfigRow
BY DEF ConfigRow

LEMMA ConfigRevoked ==
  ASSUME NEW c \in ConfigRow, NEW cred \in CredentialStatus, NEW n \in 0..MaxRevision,
         NEW rev \in Nat, NEW rvk \in Nat
  PROVE  [c EXCEPT !.cred = cred, !.current = n, !.rev = rev, !.rvk = rvk] \in ConfigRow
BY DEF ConfigRow

LEMMA RequestTyped ==
  ASSUME Typed, Request \/ LeaseLapses
  PROVE  Typed'
<1>1. RowsTyped /\ DiskTyped /\ WorkerSideTyped BY TypedParts
<1>3. ASSUME UNCHANGED <<disk, flock, faults, worker>>, RowsTyped' PROVE Typed'
  BY <1>1, <1>3, DatabaseTyped
     DEF WorkerSideTyped, WorkersTyped, LockTyped, FaultsTyped, WorkerHasTask
<1>4. ASSUME NEW t \in Tasks, NEW type \in TaskTypes, CreateControlTask(t, type) PROVE Typed'
  BY <1>1, <1>4, <1>3 DEF TaskRow, RowsTyped, ConfigRow, TaskStatus, Nonterminal,
     CreateControlTask, stateVars, disk
<1>5. ASSUME NEW t \in Tasks, CancelPublicTask(t) PROVE Typed'
  BY <1>1, <1>5, <1>3 DEF CancelPublicTask, RowsTyped, TaskRow, TaskStatus, Terminal, FencedLease,
     LeaseRow, LeaseStatus
<1>6. CASE PatchExecutor
  <2>1. PICK on \in BOOLEAN : config' = [config EXCEPT !.rev = config.rev + 1, !.enabled = on]
    BY <1>6 DEF PatchExecutor
  <2>2. config' \in ConfigRow
    <3>1. config.rev + 1 \in Nat BY <1>1 DEF RowsTyped, ConfigRow
    <3> QED BY <1>1, <2>1, <3>1, ConfigEdited DEF RowsTyped
  <2> QED BY <1>1, <1>3, <1>6, <2>2 DEF PatchExecutor, RowsTyped, taskVars
<1>7. ASSUME NEW force \in BOOLEAN, RevokeCredential(force) PROVE Typed'
  <2>a. config' \in ConfigRow
    <3>1. config.rev + 1 \in Nat /\ config.rvk + 1 \in Nat BY <1>1 DEF RowsTyped, ConfigRow
    <3>2. "revoked" \in CredentialStatus /\ 0 \in 0..MaxRevision
      BY StateAssumption DEF CredentialStatus
    <3> QED BY <1>1, <3>1, <3>2, ConfigRevoked, <1>7 DEF RowsTyped, RevokeCredential
  <2> QED
    BY <1>3, <1>7, <2>a, <1>1 DEF RevokeCredential, RowsTyped, WithStatus, BindingRow,
       BindingStatus, FencedLease, LeaseRow, LeaseStatus, TaskRow, TaskStatus, Terminal
<1> QED
  BY <1>4, <1>5, <1>6, <1>7, <1>1, FaultTyped, DatabaseTyped DEF Request, LeaseLapses, Lapse,
     taskVars, WorkerSideTyped, WorkersTyped, LockTyped, WorkerHasTask, RowsTyped, LeaseRow

LEMMA InitTyped == Init => Typed
<1> SUFFICES ASSUME Init PROVE Typed OBVIOUS
<1> USE StateAssumption DEF Init, AuthorizedExecutor, IdleVolume, TaskInit
<1>a. NoBinding \in BindingRow BY DEF NoBinding, BindingRow, BindingStatus
<1>3. binding \in [Revisions -> BindingRow] BY <1>a DEF BindingRow, BindingStatus
<1> QED
  BY <1>3 DEF Typed, TypeOK, StateTypeOK, ConfigRow, CredentialStatus, LeaseRow, LeaseStatus,
     NoTask, TaskRow, TaskStatus, TaskTypes, DirStatus, HomeStatus, WorkerHasTask, Stopped,
     WithoutTask, WorkerRow, WorkerPc, RestPc

LEMMA NextTyped == Typed /\ [Next]_vars => Typed'
BY RequestTyped, StartupTyped, ReconcileTyped, ClaimTyped, VolumeStepTyped, VerifyStepTyped,
   TransactionTyped DEF vars, stateVars, taskVars, Typed, TypeOK, StateTypeOK, WorkerHasTask,
   LoopStep, WorkStep, Next

(* Every variable of the model keeps its type: rows, directories, locks and workers stay in the
   values the schema and the code allow. *)
THEOREM TypeCorrect == Spec => []TypeOK
<1>1. Typed => TypeOK BY DEF Typed
<1> QED BY <1>1, InitTyped, NextTyped, PTL DEF Spec
----
(* The bindings. ActiveIsCurrent is not inductive by itself: a preparation that reused an active
   revision's number would overwrite its binding. The counter excludes it. *)

BindingsInv == Typed /\ WithinCounter /\ ActiveIsCurrent

Undecided(n) == binding[n].status \in {"prepared", "committing"}

----
(* A worker's transactions, and its steps that write no row. *)

Transaction(i) ==
  \/ StartControlTask(i) \/ PrepareControlTaskCredentialRotation(i)
  \/ MarkControlTaskCredentialCommitting(i) \/ CompleteControlTask(i)
  \/ FailControlTask(i) \/ SettleFencedFailure(i)

LEMMA WorkCases ==
  ASSUME NEW i \in Instances, WorkStep(i)
  PROVE  Transaction(i) \/ UNCHANGED <<config, lease, binding, task>>
BY ZenonT(30) DEF Transaction, WorkStep, AcquireExecutorLock, CloneSource, RunOperation,
   DiscardUnchanged, PromoteOperation, SealRevision, InspectPaths, RenewBeforeVerify,
   ClonePromoted, RunVerification, RenewAfterVerify, DiscardVerificationHome, UndoVerification,
   FinishRenewal, CleanFailedRevision, CleanFailedHome, QuarantineHome, QuarantineRevision

----
(* A step may touch other rows than the bindings; *)
LEMMA BindingsKept ==
  ASSUME BindingsInv, UNCHANGED binding,
         config'.current = config.current, config'.counter = config.counter
  PROVE  (WithinCounter /\ ActiveIsCurrent)'
BY DEF BindingsInv, WithinCounter, ActiveIsCurrent

(* decide or move candidates without activating any; *)
LEMMA CandidatesChanged ==
  ASSUME BindingsInv, config'.current = config.current, config'.counter = config.counter,
         NEW S \in SUBSET Revisions,
         \A n \in S : Undecided(n) /\ binding'[n].status # "active",
         \A n \in Revisions \ S : binding'[n] = binding[n]
  PROVE  (WithinCounter /\ ActiveIsCurrent)'
BY DEF Undecided, NoBinding, BindingsInv, WithinCounter, ActiveIsCurrent

(* fence candidates. *)
LEMMA CandidatesFenced ==
  ASSUME BindingsInv, config'.current = config.current, config'.counter = config.counter,
         NEW S \in SUBSET Revisions, \A n \in S : Undecided(n),
         binding' = WithStatus(S, "quarantined")
  PROVE  (WithinCounter /\ ActiveIsCurrent)'
BY ZenonT(30), CandidatesChanged DEF BindingsInv, Typed, TypeOK, StateTypeOK, WithStatus, BindingRow

LEMMA CandidatesUndecided ==
  ASSUME NEW t, NEW e
  PROVE  /\ TaskCandidates(t, e) \in SUBSET Revisions
         /\ \A n \in TaskCandidates(t, e) : Undecided(n)
BY DEF TaskCandidates, Candidates, Undecided

----
(* The actions that write a binding. *)

(* A preparation takes a number nobody uses. *)
LEMMA PrepareKeepsBindings ==
  ASSUME BindingsInv, NEW i \in Instances, PrepareControlTaskCredentialRotation(i)
  PROVE  (WithinCounter /\ ActiveIsCurrent)'
<1> USE DEF PrepareControlTaskCredentialRotation
<1>2. CASE ~UNCHANGED <<config, binding>>
  <2> DEFINE n == NextRevision
             row == [status |-> "prepared", op |-> worker[i].task, epoch |-> worker[i].epoch,
                     src |-> Row(i).src, rvk |-> Row(i).rvk]
  <2>1. /\ CanPrepare(i)
        /\ config' = [config EXCEPT !.counter = n]
        /\ binding' = [binding EXCEPT ![n] = row]
    BY <1>2
  <2>2. config \in ConfigRow /\ binding \in [Revisions -> BindingRow]
    BY DEF BindingsInv, Typed, TypeOK, StateTypeOK
  <2>3. n \in Revisions /\ n > config.counter /\ config.current < n
    BY <2>1, <2>2 DEF CanPrepare, NextRevision, ConfigRow, Revisions
  <2>6. row.status = "prepared" OBVIOUS
  <2> HIDE DEF n, row
  <2> QED
    BY <2>1, <2>2, <2>3, <2>6 DEF BindingsInv, ActiveIsCurrent, ConfigRow, WithinCounter, Revisions
<1> QED BY <1>2, BindingsKept

LEMMA MarkKeepsBindings ==
  ASSUME BindingsInv, NEW i \in Instances, MarkControlTaskCredentialCommitting(i)
  PROVE  (WithinCounter /\ ActiveIsCurrent)'
<1> USE DEF MarkControlTaskCredentialCommitting
<1>2. CASE ~UNCHANGED binding
  <2> DEFINE c == worker[i].cand
  <2>1. CanMark(i) /\ binding' = [binding EXCEPT ![c].status = "committing"] BY <1>2
  <2>2. c \in Revisions /\ Undecided(c) BY <2>1, CandidatesUndecided DEF CanMark, IsCandidate
  <2> HIDE DEF c
  <2>5. /\ {c} \in SUBSET Revisions
        /\ \A n \in {c} : Undecided(n) /\ binding'[n].status # "active"
    BY <2>2, <2>1 DEF BindingsInv, Typed, TypeOK, StateTypeOK
  <2> QED BY <2>5, CandidatesChanged, <2>1 DEF BindingsInv, Typed, TypeOK, StateTypeOK
<1> QED BY <1>2, BindingsKept

(* The switch activates the candidate and revokes the revision the task started from, which is
   still the current one. *)
LEMMA CompleteKeepsBindings ==
  ASSUME BindingsInv, NEW i \in Instances, CompleteControlTask(i)
  PROVE  (WithinCounter /\ ActiveIsCurrent)'
<1> USE DEF CompleteControlTask
<1>4. CASE ~UNCHANGED <<binding, config>> /\ worker[i].cand # 0
  <2> DEFINE from == Row(i).src
             to == worker[i].cand
  <2>1. CanComplete(i) /\ binding' = Switched(from, to)
        /\ config'.current = to /\ config'.counter = config.counter
    BY <1>4 DEF ConfigRow, BindingsInv, Typed, TypeOK, StateTypeOK
  <2>2. from = config.current /\ to \in Revisions /\ Undecided(to)
    BY <1>4, CandidatesUndecided DEF CanComplete, SourceCurrent, IsCandidate, Row
  <2> HIDE DEF from, to
  <2> QED
    BY SMTT(30), <2>1, <2>2 DEF ActiveIsCurrent, Revisions, Switched, BindingsInv, WithinCounter,
       Undecided, NoBinding, ConfigRow, Typed, TypeOK, StateTypeOK
<1> QED BY <1>4, BindingsKept DEF ConfigRow, BindingsInv, Typed, TypeOK, StateTypeOK

LEMMA FenceKeepsBindings ==
  ASSUME BindingsInv, NEW i \in Instances,
         FailControlTask(i) \/ SettleFencedFailure(i) \/ SweepRows(i)
  PROVE  (WithinCounter /\ ActiveIsCurrent)'
<1>2. config'.current = config.current /\ config'.counter = config.counter
  BY DEF FailControlTask, SettleFencedFailure, SweepRows, ConfigRow, BindingsInv, Typed, TypeOK,
     StateTypeOK
<1>5. CASE binding' = WithStatus(Leftovers, "quarantined")
  BY <1>2, <1>5, CandidatesFenced DEF Leftovers, Undecided
<1> QED
  BY <1>5, <1>2, BindingsKept, CandidatesUndecided, CandidatesFenced
     DEF FailControlTask, SettleFencedFailure, SweepRows

LEMMA ReconcileKeepsBindings ==
  ASSUME BindingsInv, NEW i \in Instances, ReconcileOne(i)
  PROVE  (WithinCounter /\ ActiveIsCurrent)'
<1>1. PICK t \in Tasks : TerminalizeExpired(i, t) \/ TakeOver(i, t) BY DEF ReconcileOne
<1>2. UNCHANGED config BY <1>1 DEF TerminalizeExpired, TakeOver
<1>3. CASE TerminalizeExpired(i, t)
  BY <1>3, <1>2, CandidatesUndecided, CandidatesFenced DEF TerminalizeExpired
<1>4. CASE TakeOver(i, t)
  BY <1>4, CandidatesUndecided, CandidatesChanged DEF TakeOver, Refenced, Undecided
<1> QED BY <1>1, <1>3, <1>4

(* A revocation leaves no active binding and no current revision. *)
LEMMA RevokeKeepsBindings ==
  ASSUME BindingsInv, NEW force \in BOOLEAN, RevokeCredential(force)
  PROVE  (WithinCounter /\ ActiveIsCurrent)'
BY DEF BindingsInv, Typed, TypeOK, StateTypeOK, RevokeCredential, ConfigRow, WithinCounter,
   WithStatus, ActiveIsCurrent

----
LEMMA InitBindings == Init => WithinCounter /\ ActiveIsCurrent
BY StateAssumption
   DEF Init, AuthorizedExecutor, Revisions, NoBinding, WithinCounter, ActiveIsCurrent

LEMMA NextBindings == BindingsInv /\ [Next]_vars => BindingsInv'
<1> SUFFICES ASSUME BindingsInv, [Next]_vars PROVE BindingsInv' OBVIOUS
<1>1. Typed' BY NextTyped DEF BindingsInv
<1>2. SUFFICES (WithinCounter /\ ActiveIsCurrent)' BY <1>1 DEF BindingsInv
<1>3. config \in ConfigRow BY DEF BindingsInv, Typed, TypeOK, StateTypeOK
<1>4. CASE UNCHANGED vars \/ LeaseLapses
  BY <1>4, BindingsKept DEF vars, stateVars, LeaseLapses, Lapse
<1>5. CASE Request
  BY RevokeKeepsBindings, <1>3, BindingsKept, <1>5
     DEF PatchExecutor, ConfigRow, CreateControlTask, CancelPublicTask, stateVars, Request
<1>6. ASSUME NEW i \in Instances, Crash(i) \/ LoopStep(i) \/ WorkStep(i)
      PROVE  (WithinCounter /\ ActiveIsCurrent)'
  BY WorkCases, PrepareKeepsBindings, MarkKeepsBindings, CompleteKeepsBindings,
     FenceKeepsBindings, ReconcileKeepsBindings, BindingsKept, <1>6 DEF Transaction, Crash, Boot,
     BootReconciled, SweepDisk, ClaimControlTask, ClaimInvalid, ClaimValid, stateVars, LoopStep,
     StartControlTask
<1> QED BY <1>4, <1>5, <1>6 DEF Next

(* No revision above the counter is ever in use, so the next rotation allocates a number that was
   never used: a retried or repeated preparation cannot overwrite a binding. *)
THEOREM CounterCoversRevisions == Spec => []WithinCounter
<1>1. Init => BindingsInv BY InitTyped, InitBindings DEF BindingsInv
<1>2. BindingsInv => WithinCounter BY DEF BindingsInv
<1> QED BY <1>1, <1>2, NextBindings, PTL DEF Spec

(* The binding the executor points at is always its only active one: no crash, takeover, lost
   answer or revocation leaves two or none. *)
THEOREM OneActiveBinding == Spec => []ActiveIsCurrent
<1>1. Init => BindingsInv BY InitTyped, InitBindings DEF BindingsInv
<1>2. BindingsInv => ActiveIsCurrent BY DEF BindingsInv
<1> QED BY <1>1, <1>2, NextBindings, PTL DEF Spec

----
LEMMA CompletionIsFenced ==
  ASSUME Typed, NEW i \in Instances, CompleteControlTask(i)
  PROVE  SwitchedByHolder
BY DEF SwitchedByHolder, Typed, TypeOK, StateTypeOK, CompleteControlTask, Switch, ConfigRow,
   CanComplete, IsCandidate, TaskCandidates, Candidates, OwnsLease, SourceCurrent, OfLastGrant,
   LeaseHeld

LEMMA OthersDoNotSwitch ==
  ASSUME Typed, [Next]_vars, \A i \in Instances : ~CompleteControlTask(i)
  PROVE  ~Switch
<1>1. config \in ConfigRow BY DEF Typed, TypeOK, StateTypeOK
<1>2. CASE UNCHANGED vars \/ LeaseLapses BY <1>2 DEF vars, stateVars, LeaseLapses, Lapse, Switch
<1>3. CASE Request
  BY <1>1, <1>3 DEF Request, CreateControlTask, CancelPublicTask, PatchExecutor,
     RevokeCredential, stateVars, Switch, ConfigRow
<1>4. ASSUME NEW i \in Instances, Crash(i) \/ LoopStep(i) \/ WorkStep(i) PROVE ~Switch
  BY <1>1, <1>4, WorkCases DEF Transaction, Crash, LoopStep, Boot, BootReconciled, SweepRows,
     SweepDisk, ReconcileOne, TerminalizeExpired, TakeOver, ClaimControlTask, ClaimInvalid,
     ClaimValid, stateVars, StartControlTask, MarkControlTaskCredentialCommitting,
     SettleFencedFailure, FailControlTask, PrepareControlTaskCredentialRotation, Switch, ConfigRow
<1> QED BY <1>2, <1>3, <1>4 DEF Next

(* However many processes and tasks there are, the credential changes only under a live lease, to
   the candidate of its holder, rotated from the revision that is being replaced: a worker that
   lost its lease cannot commit. *)
THEOREM SwitchIsFenced == Spec => FencedSwitch
<1>1. Typed /\ [Next]_vars => [SwitchedByHolder]_config
  BY CompletionIsFenced, OthersDoNotSwitch DEF SwitchedByHolder
<1> QED BY <1>1, InitTyped, NextTyped, PTL DEF Spec, FencedSwitch
====
