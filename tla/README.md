# Executor credentials of AiCRM: specification and proofs

AiCRM runs AI providers (Codex) through *executors*. An executor has one credential,
obtained by a device-code login and rotated by the provider while it works, on a server's
credential volume or a user's Desktop. Control tasks that verify it, logins that replace it,
revocations and Desktop activations all want it at once. PostgreSQL rows (a lease with an
epoch, credential bindings), renamed directories, encrypted journals and signed requests
coordinate them, and each may stop between any two steps. Modelled are these protocols of
the Go service `src/services/ky-agent-executor-service` and the main process of
`src/apps/aicrm-desktop`.

## The system

| Component | State it keeps | Operations | Modelled by |
|---|---|---|---|
| Control tasks (`internal/controltask`, `store/control_task_*`) | task rows; per process a worker with task, epoch, candidate | create, cancel, claim, start, prepare, mark, complete, fail, reconcile, recover, sweep | `ControlTask` |
| Device-code authorization of a server (`internal/authorization`, `store/control_authorization_store.go`) | session rows with a prepared revision; a goroutine per session | create, cancel, mark, prepare, commit, activate, fail, quarantine, startup recovery | `ServerAuthorization` |
| Executor rows, credential volume | config, lease, bindings; `revisions/<n>`, `operations/<op>`, `staging/<op>`, a flock | shared by both of the above | `ExecutorState` |
| Service startup (`internal/server`) | which recovery has run | authorizations, then tasks, then HTTP; exit on error; restart | `ExecutorControl` |
| Settings and revocation | config row | edit, revoke, normally or forced | effect on the shared rows, in `ControlTask` |
| Desktop authorization flow (`desktop-codex-authorization-*`) | session record, run state, cancellation fence | handoff to ACK, failure, cancel, shutdown, resume | `DesktopSession`, `SessionRecord` |
| Desktop journals | one encrypted record per key, with shadows | create, transition, read, repair, prune | `RecordStore`, `TrustedCommands`, `ExecutorBinding`, `DeviceRequests` |
| Credential trees (`desktop-credential-tree-manager`) | directories of one executor, operation journal | stage, measure, promote, quarantine | `CredentialTree` |
| Activation (`desktop-activation-lease-*`, `control_desktop_activation_store`) | lease row, fence file, renewal timer | claim, renew, recover, acknowledge | `ActivationLease` |
| Command acknowledgement | journal record, ack row | acknowledge, inspect, recover | `CommandAck` |
| Device trust | identity, sequence and pending files; request journal; keyring | register, reset, sign and send; rotate keys | `DeviceRegistration`, `DeviceRequests`, `TrustedKeyring` |
| Binding client, heartbeat, App Server supervisor | one request each; a loop; child processes | bind, beat, start, stop | not modelled but for what others see: callers of the lane in `DeviceRequests`, one state for the child in `DesktopSession` |
| Matrix logins (`ipc/matrix-account-ipc`, onboarding, session vault) and pages | browser windows, attempts, sealed snapshots | open, run a script, seal, restore | not modelled: apart from executor credentials |
| Startup holds, event projection, confirmations, runtime broker, signatures | memory; tickets | hold, tell, issue, run, sign | not modelled: single rows, I/O |
| Organizations, memberships, authentication, AI models, shared libraries, host plugins, schema | single rows | create, read, update, delete | not modelled: no protocol |

Interactions:

* Handlers, the control loop and the login goroutines meet only in the database
  (serializable transactions) and on the volume, which follows the database, except for a
  promotion, announced (`committing`) before the rename.
* Every server operation takes the executor's lease row. Its `owner_instance_id` survives
  a restart, so it is `lease_epoch` that tells a dead worker's writes from its
  successor's.
* The Desktop's orchestrator writes the session record before every external
  effect and after it; requests leave through one lane, journaled and signed with
  a sequence number, and keep the lane closed while their outcome is unknown.

| Part | What is hard | What must hold |
|---|---|---|
| Control task | a crash, an expiry or a lost answer at any step of a commit; recovery decides from one row and two directories, in workers that may be obsolete | one active binding, on disk and sealed; a rotation committed once, by the holder of the lease; every task ends |
| Authorization | session and candidate are two rows of different transactions | both say the same; startup can resume or end what it finds |
| Together | two kinds of users of one lease | one fence: exclusive holder, growing epochs, no credential used twice |
| Desktop flow | failure, cancellation, shutdown, crash at every await | nothing ambiguous left; an activated credential stays; whoever waits is answered |
| Stores, trees, identity | power loss between a dozen file steps | the old or the new value; only the torn or ambiguous refused |
| Lease, requests, commands | lost, late, repeated messages | alone while fresh; nothing overtaken; carried out once |

## Modules

`ExecutorState` has the rows and the volume, their types and updates. `ControlTask`
and `ServerAuthorization` extend it; `ExecutorControl` extends both and conjoins
each one's steps with the other's unchanged variables. `OperationFence` is what
they promise, an abstract lease (acquire, lapse, end, replace, revoke). It is
instantiated in `ControlTask` (`TaskFence`) and `ExecutorControl` (`SharedFence`)
with a mapping that reads the fence off the rows: the holder is the operation of a
live active lease, the retired credentials are the revoked bindings, the ended
operations the terminal tasks and sessions.

`RecordStore` is the file protocol of a store and implements the
register `GenerationRegister`; `CredentialTree` is the directory protocol and
implements `CredentialStates`, which `DesktopSession`, the flow, works over. The others
have the parts the table names; each header says what it translates and abstracts.

`MCControlTask` and `MCServerAuthorization` add symmetry. The other `MC` modules are
*sums*: their components share no state, `part` says which one a behaviour is of, a
property is the conjunction of theirs.

`RecordStore` is mapped to whichever of the five stores it stands for shows the step.

### From code to model

The service:

* Every query is keyed by `executor_id`, so one executor is modelled.
* **One store method is one action** (a serializable transaction). A worker sees
  it committed and answered, committed with the answer lost (`Committed`,
  `Answered`), or not committed (`Refused`, `Rejected`). What needs a
  broken connection costs one of the `MaxFaults`; a refusal by a WHERE clause none.
* **A directory operation is one action**, and a worker may die before and after
  it. A promotion is two: the rename (`open`) and the durable read-only tree
  (`sealed`). A tree's bytes are reduced to whether it is a clone (`copy`) or what
  the binding's digest describes (`rotated`).
* **The worker's program counter** is the place in `process` or
  `recoverClaimedControlTask`; `task`, `epoch` and `cand` are its local variables.
  `return` and `error` drop the flock; in `Recover` an error ends the process.
* **Frozen columns.** A task's source revision, config revision and revocation epoch
  never change, so what a WHERE clause compares is the epoch, the lease and the config.
* **Time** is the comparison of `lease_expires_at` with now() (`lease.live`). A
  lease nobody attends may lapse at any time; that of a living worker only at the
  price of a fault (an outage or a pause), because it is renewed three times per
  term. Two places compare with the process's clock instead of the database's
  (`control_authorization_store.go` 670 and 1148); with `ClockSkew` they accept an
  expired lease.
* **Several processes** over one volume (one that pauses beyond its lease, and its
  successor) are allowed. The run has one, the proofs any number.
* Left out: events, idempotency keys, queries, the catalog, fingerprints, path checks.
  `failed` also stands for timed out and expired.

The Desktop is a single-threaded program with awaits:

* **What runs between two awaits is one action.** Each await ends well or badly; a
  bad end, a crash or a lost answer costs one of the `MaxFaults`.
* **A durable write** has its file steps in `RecordStore` and `CredentialTree`;
  in `DeviceRegistration` and `DeviceRequests` it is a sequence of disk images, of which a
  restart may meet any prefix; elsewhere a record is replaced whole, or the write fails before
  or after it took effect, or leaves a torn marker where the code refuses one.
* **Time** is a counter in the unit the code compares in, bounded by `MaxTime`.
* The server's answers take any value the code distinguishes.

Operators that seed a fault are part of no specification: one property is violated when
one replaces the operator it varies.

## Runs

| Run | Instance | Asks |
|---|---|---|
| `ControlTask_one` | 1 process, 2 tasks, 3 revisions, 1 edit, 2 faults | is a rotation committed once and whole, by the holder of the lease; do tasks implement `OperationFence` |
| `ServerAuthorization_safe` | 2 sessions, fresh or authorized executor, skewed clocks, 2 faults | do session and candidate agree at every moment, and can startup go on from each |
| `ExecutorControl_safe` | 1 task and 1 session, 3 revisions, 1 fault | do the two users of the lease still form one fence; is no revision number used twice |
| `Service_live` | tasks: 2, 1 fault; logins: 2, 2 faults | does every requested task end, every restart reach service and settle its sessions |
| `DeviceTrust_safe` | registration: 2 keys, 2 sessions, 3 requests, 2 faults; requests: 4, 2 faults; keys: 2 origins | is a registration kept, are requests taken once and keys fresh |
| `DesktopSession_safe` | flow: 2 faults, 2 restarts; acknowledgement: 2 callers, 2 faults | is nothing ambiguous left, what is activated kept, everyone answered |
| `DesktopRecords_safe` | stores: 3 generations, 1 power loss, 2 failures; trees: 1 power loss; lease: 2 activations; the rest as in `MCDesktopRecords` | do files and journals keep what they promise |
| `SessionRecord_time`, `DesktopSession_revision`, `ExecutorControl_orphan`, `DeviceRequests_empty`, `SessionRecord_start` | at most 1 fault, 1 restart | findings 1 to 5 |

`StoreIsARegister` and `TreeIsTransactional` contain a refinement.

Bounds. `MaxRevision` of the service exceeds the operations that allocate a revision
by one, so it refuses none.
`MaxFaults` bounds crashes, outages and lost answers; two give a crash during the
recovery from a crash, or after a lost answer, the most the code tells apart. Two tasks
(activations, callers) are one disturbed and the one that disturbs it; three generations the
current, previous and next record. Values are symmetric only in runs without `<>` or `~>`.
Deadlock is not checked, an executor at rest having nothing to do; waiting for ever is, as
liveness.

Fairness. Service: weak fairness of each process's loop and work (systemd restarts it, the
loop polls on a timer, every call has a deadline) and of the lapse of a lease nobody attends
(the database's clock moves); none of requests and faults. Desktop: weak fairness of the flow,
the start, a cancellation and the quit (their awaits have time-outs). Two callers of one
acknowledgement share the lane, a queue of promises: strong fairness of a caller's step.

## Proofs

Five modules prove, for every number of tasks, sessions, processes, revisions, decisions
and faults, most of what `ControlTask_one` checks, its refinement included, all that
`ServerAuthorization_safe` checks, the exclusiveness of `ActivationLease` and the order of
`ExecutorBinding`. Nothing is assumed but what the constants are (`StateAssumption`,
`ServiceAssumption`, `TimesAssumption`, `BoundsAssumption`, `BindingAssumption`).

* `TypeCorrect`: `[]TypeOK`. A worker's step reads the row of its task, so the inductive
  `Typed` adds `WorkerHasTask`.
* `CounterCoversRevisions`, `OneActiveBinding`: `[]WithinCounter`, `[]ActiveIsCurrent`. That a
  *new* binding is not written over the active one needs the counter; `BindingsInv` is the
  three together.
* `SwitchIsFenced`: `FencedSwitch`. The only step that changes the current revision to another
  one is a completion, which owns the live lease at its epoch.
* `ClaimsAreLeased`: `[]ClaimedIsLeased`, inductive with the types (`LeaseInv`);
  `ActiveLeaseIsClaimed` is the converse (`HolderInv`).
* `TasksImplementFence`: `ImplementsFence`. Each step is `Visible`, one of the abstract fence's
  (a claim and a takeover `Acquire`, a completion `Replace`, a failure or a cancellation `End`),
  or `Invisible`. `HolderInv` makes the holder an operation that has not ended,
  `ActiveIsCurrent` makes the revoked bindings the retired credentials.
* `EndedTasksAreFinal`: `TerminalIsFinal`, action by action.
* `CandidatesAreUnique`: `[]OneCandidate`. A preparation has to know that its task has no
  candidate: `AttemptsInv` says that a task has no binding before it is claimed, nor until the
  worker the lease was granted to prepares one, and that a worker in recovery never prepares.
* `AuthorizationTyped`, `OutcomeIsTheCandidates`, `RecoveryAlwaysConsistent`,
  `FenceIsKept`: `AuthSpec` implies `[]AuthTypeOK`, `[]SessionOutcome`,
  `[]RecoveryConsistent` and `[]CandidateKeepsFence`, whatever `ClockSkew`. In their invariant
  `AuthInv`, `InStep` pairs the states of a session's row and its candidate's and keeps its
  number below the counter; `NothingPrepared` lets a preparation assume that there is no
  candidate; `OneOngoing` (`OneSessionAtATime`) keeps everybody else's hands off the lease of
  a session with a candidate. The types need `InStep` too: a recovery is handed a candidate
  that is still undecided.
* `EndedSessionsAreFinal`; `LastGrantCommits`, what is left of `FencedSwitch` when a
  clock misjudges the expiry.
* `FreshLeaseExcludes`: `[]ExclusiveWhileFresh` of `ActivationLease`, a conjunct of
  `LeaseIsExclusive`, for any times and any skew, ahead or behind, up to the end of the
  lease that was granted: a clock behind lets a fence pass for fresh after it, no longer
  than it is behind. `LeaseInv`: what the Desktop keeps was granted by an entry of the
  server's ledger, and the lease of a pending activation lasts as long as each grant said.
* `BindingFollowsServer`: `FollowsServer` and `[]MovedIsNotActive` of `ExecutorBinding`,
  conjuncts of `BindingFollows`. The record does not know what came before it; `BindingInv`
  says that each decision answers its neighbour, that revisions and epochs never fall, and
  which decision the record stands for. So the only decision the code's checks let in is
  the next (`NextInOrder`), and what was moved away is older than what is in use.

Not proved, and checked by TLC only:

* Liveness (`EverythingSettles`, `CallsAreAnswered`), beyond the prover.
* `CurrentOnDisk` and `FencedBeforeMoved`: their invariant has to say at each step of a worker
  what it knows of its candidate's directory although it may be obsolete.
* `ImplementsSharedFence` (for `ClockSkew = FALSE`, else it is false). Its halves do not give
  it: `ClaimedIsLeased` and `CandidateKeepsFence` are false of the composition (finding 3).
* The other Desktop modules. `RecordStore` and `CredentialTree` fold over sequences; a
  proof would need induction over data, which the provers cannot do.

## Findings

1. **A time that ends in 0** (`SessionRecord_time`). The Desktop's transport refuses
   times whose milliseconds end in 0, takes it for an unknown outcome, and the
   authorization stops half way until it is cancelled or Main restarts.
2. **An activation of what is in quarantine** (`DesktopSession_revision`). A restart
   between the quarantine of a promotion and the end of its session resumes the
   session, and the server activates a revision that is no longer in place.
3. **An orphaned task** (`ExecutorControl_orphan`). An authorization takes the expired
   lease of a running task. The reconciler joins tasks with the lease and never finds
   it; its row blocks later claims.
4. **An empty temporary** (`DeviceRequests_empty`). `repairTemporary` asserts a
   temporary safe before it looks at the record beside it, and never removes one that a crash
   left empty: the journal refuses every start, the record being whole.
5. **A proof in conflict** (`SessionRecord_start`). The record's revision is raised
   before the answered proof leaves the journal. A restart in between finds a proof with the
   old one, a conflict: every later start throws, for every session.

Observations, which no run states:

* A login whose create answer is lost or one of whose writes fails blocks new ones until
  cancelled or restarted; a cancellation between the digest and the prepare leaves the staged
  tree; a forced revocation during an authorization's commit fences the lease but not the
  session, and every startup then refuses it.
* A Desktop session that ended may leave a journaled request it never sent (the hook's
  write failed or was refused, or Main stopped between the journal and the record of an ACK):
  it pins the lane, which stays shut. A failed or interrupted one keeps its lease fence, which
  `assertNoCompetingFence` (`desktop-activation-lease-fence-store.ts` 323-341) holds
  against the executor's next activation, expired or not.
* A trusted cancellation whose recovery throws at an acknowledgement of unknown outcome
  quarantines a promotion the server may have activated (`desktop-codex-authorization-orchestrator.ts`
  831-843).
* A crash after `mkdir` leaves a staging directory nobody adopts, against the tree manager's
  comment (255-260); the trusted command journal refuses everything from its 4097th key on
  (614-637); a torn temporary file of the keyring blocks it (470-473). That journal and the
  command acknowledgement have no caller in production yet: the models call them in any order.

## Not modelled, and plan

Left out: Windows variants of the file steps; the clone of a revision; of the tree
manager, a promotion that finds two directories, the reconciler's adoption of one and the
quarantine of one whose digest no longer matches (refused here); the trusted cancel and
reopen commands; two server processes in an authorization; the revocation's acknowledgement;
the stores' refusal of a local time that goes back; the awaits inside the keyring's accept;
the session deadline as a cap of its own (it is in `ActivationTTL`).

Proofs left, in this order: `FencedBeforeMoved` and `CurrentOnDisk`;
`ImplementsSharedFence` under `~ClockSkew`, over an invariant that says of an active
lease that its operation, task or session, is under way at the lease's epoch.
