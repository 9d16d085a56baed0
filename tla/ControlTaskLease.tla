---- MODULE ControlTaskLease ----
(* What reconciliation relies on: a claimed task carries the executor's lease and a live lease is
   a claimed task's, so that the tasks implement the executor's fence; a task has one candidate. *)
EXTENDS ControlTaskProofs

LeaseInv == Typed /\ ClaimedIsLeased

----
(* Only the holder of the lease can be claimed, so when it ends, none is. *)
LEMMA HolderEnds ==
  ASSUME LeaseInv, NEW h \in Tasks, lease.op = h, NEW s \in TaskStatus \ Claimed,
         task' = [task EXCEPT ![h].status = s]
  PROVE  ClaimedIsLeased'
BY DEF LeaseInv, Typed, TypeOK, ClaimedIsLeased

(* A task and the lease move to a new epoch, nobody else is claimed. *)
LEMMA ClaimGranted ==
  ASSUME Typed, NEW h \in Tasks, NEW i \in Instances,
         \A t \in Tasks \ {h} : task[t].status \notin Claimed,
         lease' = TakenLease(h, i, task[h].src, task[h].rvk),
         \A t \in Tasks \ {h} : task'[t] = task[t],
         task'[h].epoch = lease.epoch + 1,
         task'[h].src = task[h].src, task'[h].rvk = task[h].rvk
  PROVE  ClaimedIsLeased'
BY DEF ClaimedIsLeased, TakenLease

----
LEMMA RequestKeepsClaims ==
  ASSUME LeaseInv, Request
  PROVE  ClaimedIsLeased'
<1>1. task \in [Tasks -> TaskRow] /\ lease \in LeaseRow BY DEF LeaseInv, Typed, TypeOK, StateTypeOK
<1>4. CASE PatchExecutor BY <1>4 DEF PatchExecutor, taskVars, LeaseInv, ClaimedIsLeased
<1> QED
  BY <1>4, <1>1 DEF Request, CreateControlTask, stateVars, LeaseInv, ClaimedIsLeased, Claimed,
     CancelPublicTask, TaskRow, RevokeCredential, Nonterminal

LEMMA ClaimKeepsClaims ==
  ASSUME LeaseInv, NEW i \in Instances, ClaimControlTask(i)
  PROVE  ClaimedIsLeased'
BY ClaimGranted DEF LeaseInv, Typed, TypeOK, ClaimControlTask, BlockedByActiveTask, ClaimInvalid,
   TaskRow, ClaimedIsLeased, Claimed, ClaimValid

LEMMA ReconcileKeepsClaims ==
  ASSUME LeaseInv, NEW i \in Instances, ReconcileOne(i)
  PROVE  ClaimedIsLeased'
<1>2. PICK t \in Tasks : Recoverable(t) /\ (TerminalizeExpired(i, t) \/ TakeOver(i, t))
  BY DEF ReconcileOne
<1>4. CASE TakeOver(i, t)
  <2>1. /\ lease' = TakenLease(t, i, task[t].src, task[t].rvk)
        /\ task' = [task EXCEPT ![t].epoch = lease.epoch + 1]
    BY <1>2, <1>4 DEF Recoverable, TakeOver
  <2> QED BY <2>1, ClaimGranted, <1>2 DEF LeaseInv, ClaimedIsLeased, Recoverable, Typed, TypeOK
<1> QED
  BY <1>2, <1>4, HolderEnds DEF Recoverable, TerminalizeExpired, TaskStatus, Terminal, Claimed

LEMMA StartKeepsClaims ==
  ASSUME LeaseInv, NEW i \in Instances, StartControlTask(i)
  PROVE  ClaimedIsLeased'
BY DEF LeaseInv, Typed, TypeOK, StartControlTask, ClaimedIsLeased, CanStart, RowIs, Row, Claimed,
   TaskRow

LEMMA EndKeepsClaims ==
  ASSUME LeaseInv, NEW i \in Instances, CompleteControlTask(i) \/ FailControlTask(i)
  PROVE  ClaimedIsLeased'
<1>2. CASE ~UNCHANGED <<task, lease>>
  <2>3. {"completed", "failed"} \subseteq TaskStatus \ Claimed BY DEF TaskStatus, Terminal, Claimed
  <2> QED
    BY <2>3, HolderEnds, <1>2, BusyHasTask DEF OwnsLease, CompleteControlTask, FailControlTask,
       CanComplete, CanFail, LeaseInv, At, RestPc
<1> QED BY <1>2 DEF LeaseInv, ClaimedIsLeased

(* Other actions leave the tasks and the lease but its expiry. *)
LEMMA OthersKeepClaims ==
  ASSUME LeaseInv,
         \/ LeaseLapses \/ UNCHANGED vars
         \/ \E i \in Instances :
              \/ Crash(i)
              \/ LoopStep(i) /\ ~ReconcileOne(i) /\ ~ClaimControlTask(i)
              \/ WorkStep(i) /\ ~StartControlTask(i) /\ ~CompleteControlTask(i)
                             /\ ~FailControlTask(i)
  PROVE  ClaimedIsLeased'
<1>3. CASE ~LeaseLapses
  <2>1. UNCHANGED <<task, lease>>
    BY <1>3, WorkCases DEF vars, stateVars, taskVars, Crash, LoopStep, Boot, BootReconciled,
       SweepRows, SweepDisk, Transaction, PrepareControlTaskCredentialRotation,
       MarkControlTaskCredentialCommitting, SettleFencedFailure
  <2> QED BY <2>1 DEF LeaseInv, ClaimedIsLeased
<1> QED
  BY <1>3 DEF LeaseLapses, Lapse, taskVars, LeaseRow, LeaseInv, ClaimedIsLeased, Typed, TypeOK,
     StateTypeOK

LEMMA NextKeepsClaims == LeaseInv /\ [Next]_vars => LeaseInv'
BY NextTyped, RequestKeepsClaims, ClaimKeepsClaims, ReconcileKeepsClaims, StartKeepsClaims,
   EndKeepsClaims, OthersKeepClaims DEF LeaseInv, Next

LEMMA InitClaims == Init => LeaseInv
BY InitTyped DEF Init, TaskInit, NoTask, ClaimedIsLeased, Claimed, LeaseInv

(* A claimed task carries the lease, at its own epoch and on its own source: the reconciler's
   join finds it as soon as the lease expires, whatever crashed in between. *)
THEOREM ClaimsAreLeased == Spec => []ClaimedIsLeased
<1>1. LeaseInv => ClaimedIsLeased BY DEF LeaseInv
<1> QED BY <1>1, InitClaims, NextKeepsClaims, PTL DEF Spec

----
(* The converse: a lease in force is a claimed task's. *)

ActiveIsClaimed ==
  lease.status = "active" =>
      /\ lease.op \in Tasks /\ lease.epoch > 0
      /\ task[lease.op].status \in Claimed /\ task[lease.op].epoch = lease.epoch

HolderInv == LeaseInv /\ ActiveIsClaimed

LEMMA RequestKeepsHolder ==
  ASSUME HolderInv, Request
  PROVE  ActiveIsClaimed'
BY ZenonT(30) DEF HolderInv, LeaseInv, Typed, TypeOK, StateTypeOK, CreateControlTask, stateVars,
   ActiveIsClaimed, Claimed, CancelPublicTask, FencedLease, LeaseRow, PatchExecutor, taskVars,
   RevokeCredential, Nonterminal, Request

LEMMA HolderGranted ==
  ASSUME Typed, NEW h \in Tasks, NEW i \in Instances, NEW src, NEW rvk,
         lease' = TakenLease(h, i, src, rvk),
         task'[h].status \in Claimed, task'[h].epoch = lease.epoch + 1
  PROVE  ActiveIsClaimed'
BY DEF Typed, TypeOK, StateTypeOK, LeaseRow, ActiveIsClaimed, TakenLease

LEMMA LoopKeepsHolder ==
  ASSUME HolderInv, NEW i \in Instances, ClaimControlTask(i) \/ ReconcileOne(i)
  PROVE  ActiveIsClaimed'
<1>1. Typed /\ task \in [Tasks -> TaskRow] /\ lease \in LeaseRow
  BY DEF HolderInv, LeaseInv, Typed, TypeOK, StateTypeOK
<1>2. CASE ClaimControlTask(i)
  <2>1. PICK t \in Tasks : ClaimInvalid(i, t) \/ ClaimValid(i, t) BY <1>2 DEF ClaimControlTask
  <2>3. CASE ClaimValid(i, t) BY <2>3, <1>1, HolderGranted DEF ClaimValid, Claimed
  <2> QED
    BY <2>1, <2>3, <1>2 DEF ClaimControlTask, BlockedByActiveTask, ClaimInvalid, stateVars,
       HolderInv, ActiveIsClaimed
<1>3. CASE ReconcileOne(i)
  <2>1. PICK t \in Tasks : Recoverable(t) /\ (TerminalizeExpired(i, t) \/ TakeOver(i, t))
    BY <1>3 DEF ReconcileOne
  <2>3. CASE TakeOver(i, t)
    <3>3. task'[t].status \in Claimed BY <2>1, <1>1, <2>3 DEF Recoverable, TaskRow, TakeOver
    <3> QED BY <1>1, <3>3, HolderGranted, <2>3 DEF TakeOver
  <2> QED BY <2>1, <2>3, <1>1 DEF TerminalizeExpired, LeaseRow, ActiveIsClaimed
<1> QED BY <1>2, <1>3

LEMMA WorkKeepsHolder ==
  ASSUME HolderInv, NEW i \in Instances,
         StartControlTask(i) \/ CompleteControlTask(i) \/ FailControlTask(i)
  PROVE  ActiveIsClaimed'
BY DEF HolderInv, LeaseInv, Typed, TypeOK, StateTypeOK, ActiveIsClaimed, StartControlTask, TaskRow,
   Claimed, CompleteControlTask, FailControlTask, LeaseRow

LEMMA NextKeepsHolder == HolderInv /\ [Next]_vars => HolderInv'
<1> SUFFICES ASSUME HolderInv, [Next]_vars PROVE ActiveIsClaimed' BY NextKeepsClaims DEF HolderInv
<1>2. ASSUME NEW i \in Instances, Crash(i) \/ LoopStep(i) \/ WorkStep(i) PROVE ActiveIsClaimed'
  BY <1>2, WorkCases, LoopKeepsHolder, WorkKeepsHolder DEF Crash, LoopStep, Boot, BootReconciled,
     SweepRows, SweepDisk, stateVars, Transaction, PrepareControlTaskCredentialRotation,
     MarkControlTaskCredentialCommitting, SettleFencedFailure, HolderInv, ActiveIsClaimed
<1> QED
  BY <1>2, RequestKeepsHolder DEF Next, HolderInv, LeaseInv, Typed, TypeOK, StateTypeOK, vars,
     stateVars, taskVars, LeaseLapses, Lapse, LeaseRow, ActiveIsClaimed

LEMMA InitHolder == Init => HolderInv
BY InitClaims DEF Init, AuthorizedExecutor, ActiveIsClaimed, HolderInv

(* No lease stays in force behind a task that ended: an executor is busy only while a task it
   claimed is. *)
THEOREM ActiveLeaseIsClaimed == Spec => []ActiveIsClaimed
<1>1. HolderInv => ActiveIsClaimed BY DEF HolderInv
<1> QED BY <1>1, InitHolder, NextKeepsHolder, PTL DEF Spec

----
(* The fence the tasks implement: its variables, and its steps one by one. *)

HolderTask == IF LeaseHeld THEN lease.op ELSE NoOne
RetiredRevisions == {n \in Revisions : binding[n].status = "revoked"}
EndedTasks == {t \in Tasks : task[t].status \in Terminal}

FenceInv == HolderInv /\ BindingsInv

(* What the fence of the executor sees of a step: nothing, *)
Invisible == UNCHANGED <<lease.epoch, lease.src, HolderTask, config.current, RetiredRevisions,
                         EndedTasks>>
(* or one of its own. *)
Visible ==
  \/ \E t \in Tasks : TaskFence!Acquire(t)
  \/ TaskFence!Lapse
  \/ \E S \in SUBSET Tasks : TaskFence!End(S) \/ TaskFence!Revoke(S)
  \/ \E c \in Revisions : TaskFence!Replace(c)

LEMMA FencedRetiresNone ==
  ASSUME Typed, NEW S \in SUBSET Revisions, \A n \in S : Undecided(n),
         binding' = WithStatus(S, "quarantined")
  PROVE  UNCHANGED RetiredRevisions
BY DEF WithStatus, Undecided, RetiredRevisions

LEMMA TaskEnds ==
  ASSUME Typed, NEW t \in Tasks, task[t].status \notin Terminal, NEW s \in Terminal,
         task' = [task EXCEPT ![t].status = s],
         UNCHANGED <<lease.epoch, lease.src, config.current, RetiredRevisions>>,
         HolderTask' = IF HolderTask = t THEN NoOne ELSE HolderTask
  PROVE  Visible
<1>5. TaskFence!End({t}) BY DEF TaskFence!End, HolderTask, RetiredRevisions, Typed, TypeOK
<1> QED BY <1>5 DEF Visible

(* A claim or a takeover, on the current source. *)
LEMMA TaskAcquires ==
  ASSUME Typed, NEW t \in Tasks, NEW i \in Instances, task[t].status \notin Terminal,
         ~LeaseHeld, lease' = TakenLease(t, i, config.current, lease'.rvk),
         UNCHANGED <<config.current, RetiredRevisions, EndedTasks>>
  PROVE  Visible
BY DEF LeaseHeld, TakenLease, EndedTasks, TaskFence!Acquire, RetiredRevisions, Visible

----

LEMMA CancelOnFence ==
  ASSUME FenceInv, NEW t \in Tasks, CancelPublicTask(t)
  PROVE  Visible
BY TaskEnds DEF FenceInv, BindingsInv, Typed, TypeOK, StateTypeOK, CancelPublicTask, Nonterminal,
   Claimed, Terminal, RetiredRevisions, FencedLease, LeaseRow, HolderInv, ActiveIsClaimed,
   LeaseHeld, HolderTask

LEMMA RevokeOnFence ==
  ASSUME FenceInv, NEW force \in BOOLEAN, RevokeCredential(force)
  PROVE  Visible
<1>1. /\ Typed /\ lease \in LeaseRow /\ config \in ConfigRow /\ task \in [Tasks -> TaskRow]
      /\ binding \in [Revisions -> BindingRow]
  BY DEF FenceInv, BindingsInv, Typed, TypeOK, StateTypeOK
<1>2. PICK S \in SUBSET Tasks : S = {t \in Tasks : force /\ task[t].status \in Nonterminal} OBVIOUS
<1>4. S \cap EndedTasks = {} /\ EndedTasks' = EndedTasks \cup S
  BY <1>1, <1>2 DEF Nonterminal, Claimed, Terminal, RevokeCredential, EndedTasks
<1>5. RetiredRevisions' = RetiredRevisions \cup {config.current}
  BY <1>1 DEF RevokeCredential, WithStatus, RetiredRevisions, CurrentBindingActive, ConfigRow,
     Revisions
<1> QED
  BY <1>4, <1>5, <1>1 DEF Visible, TaskFence!Revoke, RetiredRevisions, EndedTasks,
     RevokeCredential, CurrentBindingActive, ConfigRow, LeaseHeld, FencedLease, LeaseRow

LEMMA LoopOnFence ==
  ASSUME FenceInv, NEW i \in Instances, ClaimControlTask(i) \/ ReconcileOne(i)
  PROVE  Visible
<1>3. CASE ClaimControlTask(i)
  <2>1. PICK t \in Tasks : task[t].status = "pending" /\ (ClaimInvalid(i, t) \/ ClaimValid(i, t))
    BY <1>3 DEF ClaimControlTask
  <2>2. ~LeaseHeld /\ HolderTask = NoOne /\ NoOne # t
    BY <1>3, StateAssumption DEF ClaimControlTask, HolderTask, Ops
  <2> QED
    BY <2>1, <2>2, TaskEnds, TaskAcquires DEF ClaimInvalid, stateVars, Terminal, HolderTask,
       LeaseHeld, RetiredRevisions, ClaimValid, FrozenConfigHolds, SourceCurrent, TakenLease,
       TaskRow, EndedTasks, FenceInv, BindingsInv, Typed, TypeOK
<1>4. CASE ReconcileOne(i)
  <2>1. PICK t \in Tasks : Recoverable(t) /\ (TerminalizeExpired(i, t) \/ TakeOver(i, t))
    BY <1>4 DEF ReconcileOne
  <2>3. CASE TerminalizeExpired(i, t)
    BY <2>3, CandidatesUndecided, FencedRetiresNone, TaskEnds, <2>1, StateAssumption DEF
       TerminalizeExpired, Terminal, LeaseRow, HolderTask, LeaseHeld, Recoverable, LeaseExpired,
       Ops, Claimed, FenceInv, BindingsInv, Typed, TypeOK, StateTypeOK
  <2>4. CASE TakeOver(i, t)
    <3>1. PICK c \in TaskCandidates(t, task[t].epoch) :
            /\ Resumable(t)
            /\ lease' = TakenLease(t, i, lease.src, lease.rvk)
            /\ binding' = Refenced(c)
            /\ task' = [task EXCEPT ![t].epoch = lease.epoch + 1]
            /\ UNCHANGED config
      BY <2>4 DEF TakeOver
    <3> QED
      BY <3>1, TaskAcquires, <2>1 DEF TakenLease, Recoverable, Resumable, FrozenConfigHolds,
         SourceCurrent, EndedTasks, RetiredRevisions, Refenced, LeaseExpired, LeaseHeld, Terminal,
         FenceInv, BindingsInv
  <2> QED BY <2>1, <2>3, <2>4
<1> QED BY <1>3, <1>4

(* A failed operation ends; none is retired. *)
LEMMA FailOnFence ==
  ASSUME FenceInv, NEW i \in Instances, FailControlTask(i)
  PROVE  Visible \/ Invisible
BY BusyHasTask, CandidatesUndecided, FencedRetiresNone, TaskEnds DEF FenceInv, BindingsInv, Typed,
   TypeOK, StateTypeOK, Invisible, HolderTask, LeaseHeld, RetiredRevisions, EndedTasks,
   FailControlTask, At, RestPc, CanFail, RowIs, Row, OwnsLease, Claimed, Terminal, LeaseRow,
   ConfigRow

(* A completion ends the operation; a rotation also replaces the credential. *)
LEMMA CompleteOnFence ==
  ASSUME FenceInv, NEW i \in Instances, CompleteControlTask(i)
  PROVE  Visible \/ Invisible
<1>1. /\ Typed /\ lease \in LeaseRow /\ config \in ConfigRow /\ binding \in [Revisions -> BindingRow]
      /\ ActiveIsCurrent /\ task \in [Tasks -> TaskRow]
  BY DEF FenceInv, BindingsInv, Typed, TypeOK, StateTypeOK
<1>3. CASE ~UNCHANGED <<config, binding, task, lease>>
  <2>1. PICK t, c : t = worker[i].task /\ c = worker[i].cand OBVIOUS
  <2>2. /\ CanComplete(i)
        /\ binding' = IF c # 0 THEN Switched(task[t].src, c) ELSE binding
        /\ config'.current = IF c # 0 THEN c ELSE config.current
        /\ task' = [task EXCEPT ![t].status = "completed"]
        /\ lease' = [lease EXCEPT !.status = "released"]
    BY <1>1, <1>3, <2>1 DEF CompleteControlTask, Row, ConfigRow
  <2>3. /\ t \in Tasks /\ task[t].status \notin Terminal /\ "completed" \in Terminal
        /\ LeaseHeld /\ lease.op = t /\ lease.src = task[t].src /\ config.current = task[t].src
    BY <1>1, <2>1, <2>2, BusyHasTask DEF CompleteControlTask, At, RestPc, CanComplete, RowIs, Row,
       OwnsLease, SourceCurrent, Terminal
  <2>5. HolderTask = t /\ HolderTask' = NoOne /\ t # NoOne
    BY <2>3, StateAssumption, <1>1, <2>2 DEF HolderTask, LeaseHeld, Ops
  <2>7. CASE c # 0
    <3>1. c \in Revisions /\ binding[c].status = "committing"
      BY <2>1, <2>2, <2>7, CandidatesUndecided DEF CanComplete, IsCandidate
    <3>6. EndedTasks' = EndedTasks \cup {t} BY <1>1, <2>2, <2>3 DEF EndedTasks
    <3> QED
      BY <3>1, <2>2, <2>3, <2>5, <2>7, <3>6, <1>1 DEF Visible, TaskFence!Replace, HolderTask,
         RetiredRevisions, EndedTasks, ConfigRow, Revisions, Switched, BindingRow, ActiveIsCurrent,
         LeaseRow
  <2> QED BY <2>7, <2>2, <1>1, <2>3, <2>5, TaskEnds DEF RetiredRevisions, LeaseRow
<1> QED BY <1>3 DEF Invisible, HolderTask, LeaseHeld, RetiredRevisions, EndedTasks

(* All else a worker does is invisible. *)
LEMMA WorkOnFence ==
  ASSUME FenceInv, NEW i \in Instances, WorkStep(i),
         ~CompleteControlTask(i), ~FailControlTask(i)
  PROVE  Invisible
<1>1. Typed /\ task \in [Tasks -> TaskRow] /\ config \in ConfigRow
      /\ binding \in [Revisions -> BindingRow] /\ WithinCounter
  BY DEF FenceInv, BindingsInv, Typed, TypeOK, StateTypeOK
<1>2. Transaction(i) \/ UNCHANGED <<config, lease, binding, task>> BY WorkCases
<1>4. UNCHANGED <<config.current, RetiredRevisions>>
  <2>4. CASE PrepareControlTaskCredentialRotation(i) /\ ~UNCHANGED <<config, binding>>
    <3>1. PICK n, row :
            /\ n = NextRevision /\ row.status = "prepared"
            /\ CanPrepare(i)
            /\ config' = [config EXCEPT !.counter = n]
            /\ binding' = [binding EXCEPT ![n] = row]
      BY <2>4 DEF PrepareControlTaskCredentialRotation
    <3>2. n \in Revisions /\ n > config.counter /\ config'.current = config.current
      BY <1>1, <3>1 DEF CanPrepare, NextRevision, ConfigRow, Revisions
    <3> QED BY <3>2, <1>1, <3>1 DEF RetiredRevisions, WithinCounter, NoBinding
  <2> QED
    BY <2>4, <1>2, <1>1, CandidatesUndecided, FencedRetiresNone DEF Transaction,
       StartControlTask, MarkControlTaskCredentialCommitting, SettleFencedFailure, RetiredRevisions, CanMark,
       IsCandidate, BindingRow
<1> QED
  BY <1>4, <1>2, <1>1 DEF Invisible, Transaction, StartControlTask,
     PrepareControlTaskCredentialRotation,
     MarkControlTaskCredentialCommitting, SettleFencedFailure, HolderTask, LeaseHeld, EndedTasks,
     CanStart, RowIs, Row, Terminal, TaskRow

----

LEMMA StepOnFence == FenceInv /\ [Next]_vars => Visible \/ Invisible
<1> SUFFICES ASSUME FenceInv, [Next]_vars PROVE Visible \/ Invisible OBVIOUS
<1>1. Typed /\ lease \in LeaseRow /\ config \in ConfigRow /\ binding \in [Revisions -> BindingRow]
      /\ task \in [Tasks -> TaskRow]
  BY DEF FenceInv, BindingsInv, Typed, TypeOK, StateTypeOK
<1>2. ASSUME UNCHANGED <<lease, task, RetiredRevisions, config.current>> PROVE Invisible
  BY <1>2 DEF Invisible, HolderTask, LeaseHeld, EndedTasks
<1>5. CASE Request
  <2>2. ASSUME PatchExecutor PROVE Invisible
    BY <1>1, <2>2, <1>2 DEF PatchExecutor, taskVars, RetiredRevisions
  <2> QED
    BY <1>5, <2>2, CancelOnFence, RevokeOnFence, <1>1 DEF Request, CreateControlTask, stateVars,
       EndedTasks, Terminal, Invisible, HolderTask, LeaseHeld, RetiredRevisions
<1>6. ASSUME NEW i \in Instances, Crash(i) \/ LoopStep(i) PROVE Visible \/ Invisible
  <2>2. CASE SweepRows(i) /\ ~UNCHANGED binding
    <3>2. Leftovers \in SUBSET Revisions /\ \A n \in Leftovers : Undecided(n)
      BY DEF Leftovers, Undecided
    <3> QED BY <1>1, <1>2, <3>2, FencedRetiresNone, <2>2 DEF SweepRows
  <2> QED
    BY <2>2, LoopOnFence, <1>6, <1>2 DEF Crash, LoopStep, Boot, BootReconciled, SweepRows,
       SweepDisk, stateVars, RetiredRevisions
<1> QED
  BY <1>5, <1>6, <1>2, <1>1, CompleteOnFence, FailOnFence, WorkOnFence DEF Next, vars, stateVars,
     taskVars, RetiredRevisions, LeaseLapses, Lapse, LeaseHeld, LeaseRow, TaskFence!Lapse, Visible

LEMMA InitOnFence == Init => TaskFence!Init
BY StateAssumption DEF Init, AuthorizedExecutor, Revisions, NoBinding, TaskInit, NoTask, Terminal,
   TaskFence!Init

(* The control tasks implement the executor's fence: one task at a time works from the current
   credential, under a new epoch, only that task may replace it, by a new revision, and a task
   that ended never holds the executor again. *)
THEOREM TasksImplementFence == Spec => ImplementsFence
<1>1. Init => FenceInv BY InitHolder, InitBindings, InitTyped DEF FenceInv, BindingsInv
<1>2. FenceInv /\ [Next]_vars => FenceInv' BY NextKeepsHolder, NextBindings DEF FenceInv
<1>3. FenceInv /\ [Next]_vars => [TaskFence!Next]_(TaskFence!fence)
  BY StepOnFence DEF Visible, TaskFence!Next, Invisible, TaskFence!fence, HolderTask,
     RetiredRevisions, EndedTasks
<1> QED BY <1>1, <1>2, <1>3, InitOnFence, PTL DEF Spec, ImplementsFence, TaskFence!Spec

----
(* What ended stays as it ended. *)

Ends(t) == /\ task'[t] = task[t]
           /\ \A n \in Revisions :
                binding[n].op = t /\ binding[n].status # "active"
                  => binding'[n].status # "active"

(* Nothing becomes active. *)
LEMMA StaysEnded ==
  ASSUME NEW t \in Tasks, task'[t] = task[t],
         \A n \in Revisions : \/ binding'[n] = binding[n]
                              \/ binding'[n].status # "active"
  PROVE  Ends(t)
BY DEF Ends

LEMMA FencedStaysEnded ==
  ASSUME Typed, NEW t \in Tasks, task'[t] = task[t], NEW S,
         NEW s \in {"quarantined", "revoked"}, binding' = WithStatus(S, s)
  PROVE  Ends(t)
BY StaysEnded DEF WithStatus

LEMMA EndedStays ==
  ASSUME Typed, [Next]_vars, NEW t \in Tasks, task[t].status \in Terminal
  PROVE  Ends(t)
<1>1. task \in [Tasks -> TaskRow] /\ binding \in [Revisions -> BindingRow]
  BY DEF Typed, TypeOK, StateTypeOK
<1>3. CASE task'[t] = task[t] /\ UNCHANGED binding BY <1>3, StaysEnded
<1>5. ASSUME NEW i \in Instances, LoopStep(i) PROVE Ends(t)
  <2>2. CASE ReconcileOne(i)
    <3>1. PICK u \in Tasks : Recoverable(u) /\ (TerminalizeExpired(i, u) \/ TakeOver(i, u))
      BY <2>2 DEF ReconcileOne
    <3>3. task'[t] = task[t]
      BY <1>1, <3>1 DEF TerminalizeExpired, TakeOver, Recoverable, Nonterminal, Claimed, Terminal
    <3>5. CASE TakeOver(i, u) BY <3>5, <1>1, <3>3 DEF TakeOver, Refenced, Ends
    <3> QED BY <3>1, <3>5, <3>3, FencedStaysEnded DEF TerminalizeExpired
  <2> QED
    BY <1>5, <2>2, <1>1, <1>3, FencedStaysEnded DEF LoopStep, ClaimControlTask, ClaimInvalid,
       ClaimValid, stateVars, Nonterminal, SweepRows, Boot, BootReconciled, SweepDisk, Claimed,
       Terminal
<1>6. ASSUME NEW i \in Instances, WorkStep(i), task'[t] # task[t] \/ ~UNCHANGED binding
      PROVE  Ends(t)
  <2>1. PICK u : u = worker[i].task OBVIOUS
  <2>2. u # t => task'[t] = task[t]
    BY <1>1, <1>6, <2>1, WorkCases DEF Transaction, StartControlTask, CompleteControlTask,
       FailControlTask, PrepareControlTaskCredentialRotation, MarkControlTaskCredentialCommitting,
       SettleFencedFailure
  <2>5. CASE PrepareControlTaskCredentialRotation(i)
    BY <1>6, <2>5, <1>1, StaysEnded DEF PrepareControlTaskCredentialRotation
  <2>8. CASE CompleteControlTask(i)
    <3>2. u # t /\ task'[t] = task[t]
      BY <2>2, <1>6, <2>1, <2>8 DEF CompleteControlTask, CanComplete, RowIs, Row, Terminal
    <3> QED
      BY ZenonT(30), <1>3, <3>2, <1>6, <2>1, <2>8, <1>1 DEF CompleteControlTask, CanComplete,
         IsCandidate, TaskCandidates, Candidates, Switched, Ends
  <2> QED
    BY <1>6, <2>1, <2>5, <2>8, FencedStaysEnded, <1>1, StaysEnded, <1>3, <2>2, WorkCases
       DEF Transaction, SettleFencedFailure, MarkControlTaskCredentialCommitting, BindingRow,
       StartControlTask, CanStart, RowIs, Row, Terminal, FailControlTask, CanFail, Claimed
<1> QED
  BY <1>3, <1>5, <1>6, <1>1, FencedStaysEnded DEF Next, CreateControlTask, CancelPublicTask,
     stateVars, PatchExecutor, taskVars, RevokeCredential, Request, Nonterminal, Claimed, Terminal,
     vars, LeaseLapses, Lapse, Crash

(* A task that ended stays as it ended and nothing it left is activated, however late its worker
   or a recovery comes back. *)
THEOREM EndedTasksAreFinal == Spec => TerminalIsFinal
<1>1. Typed /\ [Next]_vars
        => [\A t \in Tasks : task[t].status \in Terminal =>
              /\ task'[t] = task[t]
              /\ \A n \in Revisions :
                   binding[n].op = t /\ binding[n].status # "active"
                     => binding'[n].status # "active"]_vars
  BY EndedStays DEF Ends
<1> QED BY <1>1, InitTyped, NextTyped, PTL DEF Spec, TerminalIsFinal

----
(* At most one candidate. A preparation has to know of none yet: the invariant follows the first
   attempt at a task to it; recovery never prepares. *)
FirstSteps == {"lock", "clone", "start", "run", "prepare"}
Unstarted == {"absent", "pending"}

HasNone(t) == \A n \in Revisions : binding[n].op # t

(* Worker i is on its first attempt at its task. *)
FirstAt(i) == worker[i].pc \in FirstSteps /\ worker[i].mode = "process"
Leads(i) == lease.op = worker[i].task /\ lease.owner = i /\ lease.epoch = worker[i].epoch

UnstartedHasNone == \A t \in Tasks : task[t].status \in Unstarted => HasNone(t)
FirstHasNone == \A i \in Instances : FirstAt(i) /\ Leads(i) => HasNone(worker[i].task)
RecoveryNeverPrepares ==
  \A i \in Instances : worker[i].pc \in FirstSteps \ {"lock"} => worker[i].mode = "process"

AttemptsInv == UnstartedHasNone /\ FirstHasNone /\ RecoveryNeverPrepares /\ OneCandidate
CandidatesInv == Typed /\ AttemptsInv

----
(* What most steps have in common: no candidate is made or moved, no task goes back, the fence
   stays with its owner, a first attempt goes on. *)

NoNewCandidate ==
  \A n \in Revisions :
      /\ binding'[n].op = binding[n].op
      /\ binding'[n].status \in {"prepared", "committing"} =>
           Undecided(n) /\ binding'[n].epoch = binding[n].epoch

TasksAdvance ==
  \A t \in Tasks : /\ task'[t].epoch = task[t].epoch
                   /\ task'[t].status \in Unstarted => task[t].status \in Unstarted

LeaseStays == UNCHANGED <<lease.op, lease.owner, lease.epoch>>

Advances(i) ==
  worker'[i].pc \in FirstSteps =>
      \/ worker'[i] = worker[i]
      \/ /\ worker[i].pc \in FirstSteps
         /\ worker[i].mode = "process" /\ worker'[i].mode = "process"
         /\ worker'[i].task = worker[i].task /\ worker'[i].epoch = worker[i].epoch
WorkersAdvance == \A i \in Instances : Advances(i)

LEMMA NothingPrepared ==
  ASSUME AttemptsInv, NoNewCandidate, TasksAdvance, LeaseStays, WorkersAdvance
  PROVE  AttemptsInv'
BY DEF HasNone, NoNewCandidate, AttemptsInv, UnstartedHasNone, TasksAdvance, FirstHasNone,
   WorkersAdvance, Advances, FirstAt, Leads, LeaseStays, RecoveryNeverPrepares, OneCandidate,
   Undecided

LEMMA RowsKept ==
  ASSUME AttemptsInv, UNCHANGED <<binding, task, lease>>, WorkersAdvance
  PROVE  AttemptsInv'
BY NothingPrepared DEF NoNewCandidate, Undecided, TasksAdvance, LeaseStays

----
(* Workers that are not beginning: they move on, rest or stop. *)

LEMMA SetAdvances ==
  ASSUME Typed, NEW i \in Instances, NEW w, w.pc \notin FirstSteps,
         worker' = [worker EXCEPT ![i] = w]
  PROVE  WorkersAdvance
BY DEF WorkersAdvance, Advances

LEMMA MoveAdvances ==
  ASSUME CandidatesInv, NEW i \in Instances, NEW pc, Move(i, pc),
         pc \in FirstSteps => worker[i].pc \in FirstSteps \ {"lock"}
  PROVE  WorkersAdvance
BY DEF CandidatesInv, Stopped, Resting, Booting, Home, WithoutTask, FirstSteps, Move, AttemptsInv,
   RecoveryNeverPrepares, WorkersAdvance, Advances

(* The work that reads the rows and writes the volume. *)
LEMMA VolumeKeepsCandidates ==
  ASSUME CandidatesInv, NEW i \in Instances,
         \/ CloneSource(i) \/ RunOperation(i) \/ DiscardUnchanged(i) \/ PromoteOperation(i)
         \/ SealRevision(i) \/ InspectPaths(i) \/ RenewBeforeVerify(i) \/ ClonePromoted(i)
         \/ RunVerification(i) \/ RenewAfterVerify(i) \/ DiscardVerificationHome(i)
         \/ UndoVerification(i) \/ FinishRenewal(i) \/ CleanFailedRevision(i)
         \/ CleanFailedHome(i) \/ QuarantineHome(i) \/ QuarantineRevision(i)
         \/ BootReconciled(i)
  PROVE  AttemptsInv'
BY MoveAdvances, RowsKept, SetAdvances DEF CandidatesInv, Typed, TypeOK, CloneSource, RunOperation,
   DiscardUnchanged, At, FirstSteps, WorkerRow, Refused, PromoteOperation, SealRevision,
   InspectPaths, RenewBeforeVerify, ClonePromoted, RunVerification, RenewAfterVerify,
   DiscardVerificationHome, UndoVerification, FinishRenewal, CleanFailedRevision, CleanFailedHome,
   QuarantineHome, QuarantineRevision, BootReconciled

(* A process that stops, starts, sweeps the volume or takes the flock. *)
LEMMA ProcessKeepsCandidates ==
  ASSUME CandidatesInv, NEW i \in Instances,
         Crash(i) \/ Boot(i) \/ SweepDisk(i) \/ AcquireExecutorLock(i)
  PROVE  AttemptsInv'
BY SMTT(30), RowsKept, MoveAdvances DEF CandidatesInv, Typed, TypeOK, Crash, Boot, SweepDisk,
   AcquireExecutorLock, stateVars, Stopped, Booting, WithoutTask, FirstSteps, Refused, Resting,
   WorkersAdvance, Advances, At, InProcess, WorkerRow

----
(* Transactions that fence, decide or finish. *)

(* Writing a final status to some bindings makes no candidate. *)
LEMMA StatusWritten ==
  ASSUME Typed, NEW S, NEW status, status \notin {"prepared", "committing"},
         binding' = WithStatus(S, status)
  PROVE  NoNewCandidate
BY DEF WithStatus, NoNewCandidate, Undecided

LEMMA TaskStatusWritten ==
  ASSUME Typed, NEW t, NEW status, status \notin Unstarted,
         task' = [task EXCEPT ![t].status = status]
  PROVE  TasksAdvance
BY DEF TasksAdvance

LEMMA SwitchMakesNoCandidate ==
  ASSUME Typed, NEW from, NEW to, binding' = Switched(from, to)
  PROVE  NoNewCandidate
BY DEF Switched, NoNewCandidate, Undecided

LEMMA LeaseStatusWritten ==
  ASSUME Typed, NEW status,
         lease' \in {lease, FencedLease, [lease EXCEPT !.status = status]}
  PROVE  LeaseStays
BY DEF Typed, TypeOK, StateTypeOK, LeaseRow, FencedLease, LeaseStays

LEMMA TransactionKeepsCandidates ==
  ASSUME CandidatesInv, NEW i \in Instances,
         \/ StartControlTask(i) \/ CompleteControlTask(i) \/ FailControlTask(i)
         \/ SettleFencedFailure(i) \/ SweepRows(i)
  PROVE  AttemptsInv'
<1> USE DEF StartControlTask, CompleteControlTask, FailControlTask, SettleFencedFailure, SweepRows
<1>1. Typed BY DEF CandidatesInv
<1>2. \/ UNCHANGED lease \/ lease' = [lease EXCEPT !.status = "released"]
  OBVIOUS
<1>4. \/ UNCHANGED task
      \/ \E status \in {"running", "completed", "failed"} :
           task' = [task EXCEPT ![worker[i].task].status = status]
  OBVIOUS
<1>5. TasksAdvance BY <1>1, <1>4, TaskStatusWritten DEF TasksAdvance, Unstarted
<1>6. \/ UNCHANGED binding
      \/ binding' = Switched(Row(i).src, worker[i].cand)
      \/ \E S : binding' = WithStatus(S, "quarantined")
  OBVIOUS
<1> QED
  BY <1>5, NothingPrepared, <1>1, <1>2, LeaseStatusWritten, <1>6, StatusWritten,
     SwitchMakesNoCandidate, MoveAdvances, SetAdvances DEF CandidatesInv, NoNewCandidate,
     Undecided, At, Committed, Refused, FirstSteps, Knowing, Typed, TypeOK, WorkerRow

LEMMA MarkKeepsCandidates ==
  ASSUME CandidatesInv, NEW i \in Instances, MarkControlTaskCredentialCommitting(i)
  PROVE  AttemptsInv'
BY SMTT(30), MoveAdvances, NothingPrepared DEF CandidatesInv, Typed, TypeOK, StateTypeOK,
   MarkControlTaskCredentialCommitting, Committed, Refused, NoNewCandidate, Undecided, CanMark,
   IsCandidate, BindingRow, FirstSteps, TasksAdvance, LeaseStays

----
(* The steps that make a candidate, move it, or begin an attempt. *)

(* A preparation holds the lease on its first attempt, so there was no candidate of the task
   before. *)
LEMMA PrepareKeepsCandidates ==
  ASSUME CandidatesInv, NEW i \in Instances, PrepareControlTaskCredentialRotation(i)
  PROVE  AttemptsInv'
<1> USE DEF PrepareControlTaskCredentialRotation
<1>5. CASE ~UNCHANGED binding
  <2> DEFINE t == worker[i].task
             new == NextRevision
             row == [status |-> "prepared", op |-> t, epoch |-> worker[i].epoch,
                     src |-> Row(i).src, rvk |-> Row(i).rvk]
  <2>1. CanPrepare(i) /\ binding' = [binding EXCEPT ![new] = row] BY <1>5
  <2>2. /\ task[t].status = "running" /\ task[t].epoch = worker[i].epoch /\ Leads(i)
    BY <2>1 DEF CanPrepare, RowIs, Row, OwnsLease, Leads
  <2>4. HasNone(t)
    BY <2>2 DEF CandidatesInv, AttemptsInv, FirstHasNone, At, FirstAt, FirstSteps,
       RecoveryNeverPrepares
  <2>7. row.op = t /\ row.epoch = worker[i].epoch OBVIOUS
  <2> HIDE DEF row, new, t
  <2> QED
    BY <2>2, <2>7, <2>1, <2>4, SetAdvances DEF AttemptsInv, CandidatesInv, UnstartedHasNone,
       Unstarted, HasNone, FirstHasNone, Leads, FirstAt, FirstSteps, Move, WorkerRow, Refused,
       RecoveryNeverPrepares, WorkersAdvance, Advances, OneCandidate, Typed, TypeOK
<1> QED
  BY <1>5, RowsKept, MoveAdvances, SetAdvances DEF CandidatesInv, FirstSteps, Refused, WorkerRow,
     Typed, TypeOK

(* A claim is of a task that never had a candidate, and begins its first attempt; every other
   worker has lost the fence. *)
LEMMA ClaimKeepsCandidates ==
  ASSUME CandidatesInv, NEW i \in Instances, ClaimControlTask(i)
  PROVE  AttemptsInv'
<1>1. Typed /\ worker \in [Instances -> WorkerRow] /\ task \in [Tasks -> TaskRow]
  BY DEF CandidatesInv, Typed, TypeOK
<1>2. PICK t \in Tasks : task[t].status = "pending" /\ (ClaimInvalid(i, t) \/ ClaimValid(i, t))
  BY DEF ClaimControlTask
<1>3. CASE ClaimInvalid(i, t)
  <2>2. TasksAdvance
    <3>1. "failed" \notin Unstarted BY DEF Unstarted
    <3> QED BY <1>1, <3>1, TaskStatusWritten, <1>3 DEF ClaimInvalid
  <2> QED
    BY <2>2, NothingPrepared, <1>3 DEF CandidatesInv, NoNewCandidate, Undecided, LeaseStays,
       WorkersAdvance, Advances, ClaimInvalid, stateVars
<1>4. CASE ClaimValid(i, t)
  <2>1. /\ UNCHANGED binding
        /\ lease'.op = t /\ lease'.owner = i /\ lease'.epoch = lease.epoch + 1
        /\ task' = [task EXCEPT ![t].status = "waiting_executor", ![t].epoch = lease.epoch + 1]
    BY <1>4 DEF ClaimValid, TakenLease
  <2>3. HasNone(t) BY <1>2 DEF CandidatesInv, AttemptsInv, UnstartedHasNone, Unstarted
  <2>5. worker[i].pc = "idle" /\ \A j \in Instances \ {i} : worker'[j] = worker[j]
    BY <1>1, <1>4 DEF ClaimControlTask, ClaimValid
  <2>9. RecoveryNeverPrepares'
    BY <2>5, <1>1, <1>4 DEF CandidatesInv, AttemptsInv, RecoveryNeverPrepares, FirstSteps,
       ClaimValid, WithoutTask
  <2>10. OneCandidate'
    <3> SUFFICES ASSUME NEW m \in Revisions, NEW n \in Revisions,
                        binding[n].status \in {"prepared", "committing"},
                        binding[n].op \in Tasks
                 PROVE  /\ binding[n].epoch = task'[binding[n].op].epoch
                        /\ binding[m].op = binding[n].op => m = n
      BY <2>1 DEF OneCandidate
    <3> QED BY <2>3, <1>1, <2>1 DEF CandidatesInv, AttemptsInv, OneCandidate, TaskRow
  <2> QED
    BY <2>9, <2>10, <1>1, <2>1, <2>3, <1>4, <2>5 DEF AttemptsInv, CandidatesInv, UnstartedHasNone,
       HasNone, FirstHasNone, Leads
<1> QED BY <1>2, <1>3, <1>4

(* A takeover moves the candidate and its task to the same new epoch, and the worker that takes
   over is in recovery. *)
LEMMA TakeOverKeepsCandidates ==
  ASSUME CandidatesInv, NEW i \in Instances, Rest(i), NEW t \in Tasks, TakeOver(i, t)
  PROVE  AttemptsInv'
<1>1. /\ Typed /\ worker \in [Instances -> WorkerRow] /\ task \in [Tasks -> TaskRow]
      /\ binding \in [Revisions -> BindingRow]
  BY DEF CandidatesInv, Typed, TypeOK, StateTypeOK
<1>2. PICK c \in TaskCandidates(t, task[t].epoch) :
        /\ lease' = TakenLease(t, i, lease.src, lease.rvk)
        /\ binding' = Refenced(c)
        /\ task' = [task EXCEPT ![t].epoch = lease.epoch + 1]
        /\ \/ worker' = [worker EXCEPT ![i] =
                 [@ EXCEPT !.pc = "lock", !.mode = "recover", !.task = t,
                           !.epoch = lease.epoch + 1, !.cand = c,
                           !.seen = binding[c].status]]
           \/ Move(i, "error")
  BY DEF TakeOver
<1>7. /\ worker'[i].pc \in FirstSteps => worker'[i].pc = "lock" /\ worker'[i].mode = "recover"
      /\ \A j \in Instances \ {i} : worker'[j] = worker[j]
  <2>2. CASE ~Move(i, "error") BY ZenonT(30), <1>1, <1>2, <2>2 DEF WorkerRow
  <2> QED BY <2>2, <1>1 DEF Move, Stopped, Resting, WithoutTask, FirstSteps
<1> QED
  BY SMTT(30), <1>1, <1>2, <1>7 DEF AttemptsInv, CandidatesInv, UnstartedHasNone, HasNone,
     Refenced, TaskCandidates, Candidates, FirstHasNone, Leads, FirstAt, TakenLease,
     RecoveryNeverPrepares, OneCandidate

LEMMA ReconcileKeepsCandidates ==
  ASSUME CandidatesInv, NEW i \in Instances, ReconcileOne(i)
  PROVE  AttemptsInv'
<1>1. PICK t \in Tasks : TerminalizeExpired(i, t) \/ TakeOver(i, t) BY DEF ReconcileOne
<1>3. CASE TerminalizeExpired(i, t)
  <2>2. /\ binding' = WithStatus(TaskCandidates(t, task[t].epoch), "quarantined")
        /\ task' = [task EXCEPT ![t].status = "failed"]
        /\ lease' = [lease EXCEPT !.status = "expired"]
    BY <1>3 DEF TerminalizeExpired
  <2>3. "failed" \notin Unstarted BY DEF Unstarted
  <2>4. NoNewCandidate /\ TasksAdvance /\ LeaseStays
    <3>2. TasksAdvance BY <2>2, <2>3, TaskStatusWritten DEF CandidatesInv
    <3> QED BY <3>2, <2>2, StatusWritten, LeaseStatusWritten DEF CandidatesInv
  <2>5. WorkersAdvance
    <3>2. CASE ~Move(i, "error")
      <4>1. PICK c : worker' = [worker EXCEPT ![i] =
                 [worker[i] EXCEPT !.pc = "q_home", !.mode = "recover", !.task = t,
                                   !.epoch = task[t].epoch, !.cand = c]]
        BY <1>3, <3>2 DEF TerminalizeExpired
      <4> QED BY SetAdvances, <4>1 DEF WorkerRow, FirstSteps, CandidatesInv, Typed, TypeOK
    <3> QED BY <3>2, MoveAdvances DEF FirstSteps
  <2> QED BY <2>4, <2>5, NothingPrepared DEF CandidatesInv
<1> QED BY <1>1, <1>3, TakeOverKeepsCandidates DEF ReconcileOne

LEMMA RequestKeepsCandidates ==
  ASSUME CandidatesInv, Request
  PROVE  AttemptsInv'
<1>2. UNCHANGED worker
  BY DEF Request, CreateControlTask, CancelPublicTask, PatchExecutor, RevokeCredential, taskVars
<1>3. WorkersAdvance BY <1>2 DEF WorkersAdvance, Advances
<1>5. ASSUME NEW t \in Tasks, CancelPublicTask(t) PROVE AttemptsInv'
  <2>2. "cancelled" \notin Unstarted BY DEF Unstarted
  <2> QED
    BY <1>3, NothingPrepared, <2>2, TaskStatusWritten, LeaseStatusWritten, <1>5 DEF CandidatesInv,
       NoNewCandidate, Undecided, CancelPublicTask
<1>6. CASE PatchExecutor BY <1>3, <1>6, RowsKept DEF CandidatesInv, PatchExecutor, taskVars
<1>7. ASSUME NEW force \in BOOLEAN, RevokeCredential(force) PROVE AttemptsInv'
  BY <1>7, StatusWritten, LeaseStatusWritten, <1>3, NothingPrepared DEF RevokeCredential,
     TasksAdvance, Unstarted, CandidatesInv
<1> QED
  BY <1>5, <1>6, <1>7, <1>2 DEF Request, CreateControlTask, stateVars, HasNone, CandidatesInv,
     AttemptsInv, UnstartedHasNone, Unstarted, FirstHasNone, FirstAt, Leads, RecoveryNeverPrepares,
     OneCandidate, Typed, TypeOK

----
LEMMA InitCandidates == Init => CandidatesInv
BY StateAssumption, InitTyped DEF Init, AuthorizedExecutor, NoBinding, TaskInit, Stopped,
   WithoutTask, Ops, UnstartedHasNone, HasNone, FirstHasNone, RecoveryNeverPrepares, FirstAt,
   FirstSteps, OneCandidate, CandidatesInv, AttemptsInv

LEMMA NextKeepsCandidates == CandidatesInv /\ [Next]_vars => CandidatesInv'
BY NextTyped, RequestKeepsCandidates, NothingPrepared, ProcessKeepsCandidates,
   VolumeKeepsCandidates, TransactionKeepsCandidates, MarkKeepsCandidates, PrepareKeepsCandidates,
   ClaimKeepsCandidates, ReconcileKeepsCandidates DEF CandidatesInv, vars, stateVars, taskVars,
   LeaseLapses, Lapse, LeaseStays, Typed, TypeOK, StateTypeOK, LeaseRow, NoNewCandidate,
   Undecided, TasksAdvance, WorkersAdvance, Advances, LoopStep, WorkStep, Next

(* A task has at most one candidate that is neither active nor fenced, and it is at the task's
   own epoch: after any sequence of crashes, takeovers and lost answers the reconciler finds
   exactly the one there is. *)
THEOREM CandidatesAreUnique == Spec => []OneCandidate
<1>1. CandidatesInv => OneCandidate BY DEF CandidatesInv, AttemptsInv
<1> QED BY <1>1, InitCandidates, NextKeepsCandidates, PTL DEF Spec
====
