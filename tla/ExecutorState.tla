---- MODULE ExecutorState ----
(* The persistent state every credential operation of one AI executor shares: the rows PostgreSQL
   keeps (executor config, operation lease, credential bindings) and the credential volume (one
   directory per revision, one home per operation, the executor's flock). One executor is enough:
   every query of the service is keyed by executor_id, so executors interact only through a
   worker's time. Expiry is all that matters of lease_expires_at: live is lease_expires_at >
   now() on the database's clock, which judges every comparison but two (see
   ServerAuthorization). *)
EXTENDS Naturals

CONSTANTS
    Instances,      \* processes of the service (owner_instance_id)
    Tasks,          \* control tasks; a task is also its operation id
    Sessions,       \* server authorization sessions; also their operation id
    NoOne,          \* no owner, no operation, no task
    MaxRevision,    \* bound: highest credential revision
    MaxConfigRevision, \* bound: highest config revision an edit may reach
    MaxFaults       \* bound: crashes, outages and lost replies of a behaviour

Ops == Tasks \cup Sessions
Revisions == 1..MaxRevision

ASSUME StateAssumption ==
  /\ MaxRevision \in Nat \ {0}
  /\ MaxConfigRevision \in Nat
  /\ MaxFaults \in Nat
  /\ NoOne \notin Instances \cup Ops
  /\ Tasks \cap Sessions = {}
  /\ Instances \cap Ops = {}

VARIABLES
    config,     \* the ky_ai_executor_config row
    lease,      \* the ky_ai_executor_operation_lease row
    binding,    \* ky_ai_executor_credential_binding, by revision
    revDir,     \* revisions/<n> on the volume
    home,       \* operations/<op> or staging/<op> on the volume
    flock,      \* holder of <executor>/.operation.lock: a control loop or a session
    faults      \* faults spent so far

stateVars == <<config, lease, binding, revDir, home, flock, faults>>
disk == <<revDir, home>>

BindingStatus == {"none", "prepared", "committing", "active", "revoked", "quarantined"}
CredentialStatus == {"not_authorized", "authorized", "expired", "revoked"}
LeaseStatus == {"none", "active", "released", "expired", "fenced"}

(* "open": renamed into place, not yet read-only; "sealed": read-only and durable; "quarantined":
   moved away, the revision number stays used. *)
DirStatus == {"absent", "open", "sealed", "quarantined"}
(* "copy": a clone of a revision; "rotated": the tree whose digest a binding records. *)
HomeStatus == {"absent", "copy", "rotated"}

ConfigRow == [enabled : BOOLEAN, rev : Nat, cred : CredentialStatus,
              current : 0..MaxRevision, counter : 0..MaxRevision,
              cat : Nat, rvk : Nat]
LeaseRow == [op : Ops \cup {NoOne}, owner : Instances \cup {NoOne}, epoch : Nat,
             src : 0..MaxRevision, rvk : Nat, status : LeaseStatus, live : BOOLEAN]
BindingRow == [status : BindingStatus, op : Ops \cup {NoOne}, epoch : Nat,
               src : 0..MaxRevision, rvk : Nat]

StateTypeOK ==
  /\ config \in ConfigRow
  /\ lease \in LeaseRow
  /\ binding \in [Revisions -> BindingRow]
  /\ revDir \in [Revisions -> DirStatus]
  /\ home \in [Ops -> HomeStatus]
  /\ flock \in Instances \cup Sessions \cup {NoOne}
  /\ faults \in 0..MaxFaults

NoBinding == [status |-> "none", op |-> NoOne, epoch |-> 0, src |-> 0, rvk |-> 0]

(* A server executor before its first authorization, and after one: the first revision is active
   and sealed, the authorization's lease released. *)
FreshExecutor ==
  /\ config = [enabled |-> TRUE, rev |-> 1, cred |-> "not_authorized", current |-> 0,
               counter |-> 0, cat |-> 0, rvk |-> 0]
  /\ lease = [op |-> NoOne, owner |-> NoOne, epoch |-> 0, src |-> 0, rvk |-> 0,
              status |-> "none", live |-> FALSE]
  /\ binding = [n \in Revisions |-> NoBinding]
  /\ revDir = [n \in Revisions |-> "absent"]

AuthorizedExecutor ==
  /\ config = [enabled |-> TRUE, rev |-> 1, cred |-> "authorized", current |-> 1,
               counter |-> 1, cat |-> 1, rvk |-> 0]
  /\ lease = [op |-> NoOne, owner |-> NoOne, epoch |-> 1, src |-> 0, rvk |-> 0,
              status |-> "released", live |-> TRUE]
  /\ binding = [n \in Revisions |->
                  IF n = 1 THEN [NoBinding EXCEPT !.status = "active", !.epoch = 1]
                           ELSE NoBinding]
  /\ revDir = [n \in Revisions |-> IF n = 1 THEN "sealed" ELSE "absent"]

IdleVolume ==
  /\ home = [o \in Ops |-> "absent"]
  /\ flock = NoOne
  /\ faults = 0

----
(* Predicates and updates the transactions share. *)

LeaseHeld == lease.status = "active" /\ lease.live
LeaseExpired == lease.status = "active" /\ ~lease.live

(* Variants that seed a fault: operation and owner bound to each other's columns, and an epoch
   that does not advance. *)
TakenLeaseSwapped(op, owner, src, rvk) ==
  [op |-> owner, owner |-> op, epoch |-> lease.epoch + 1, src |-> src,
   rvk |-> rvk, status |-> "active", live |-> TRUE]
TakenLeaseSameEpoch(op, owner, src, rvk) ==
  [op |-> op, owner |-> owner, epoch |-> lease.epoch, src |-> src,
   rvk |-> rvk, status |-> "active", live |-> TRUE]

(* The row an operation writes when it takes the executor's lease. *)
TakenLease(op, owner, src, rvk) ==
  [op |-> op, owner |-> owner, epoch |-> lease.epoch + 1, src |-> src,
   rvk |-> rvk, status |-> "active", live |-> TRUE]

(* UPDATE ... SET status='fenced' ... AND status='active' *)
FencedLease == [lease EXCEPT !.status = IF @ = "active" THEN "fenced" ELSE @]

(* Candidates of exactly this fenced operation. *)
Candidates(op, epoch, src, rvk) ==
  {n \in Revisions : /\ binding[n].op = op
                     /\ binding[n].epoch = epoch
                     /\ binding[n].src = src
                     /\ binding[n].rvk = rvk
                     /\ binding[n].status \in {"prepared", "committing"}}

WithStatus(S, status) ==
  [n \in Revisions |-> IF n \in S THEN [binding[n] EXCEPT !.status = status]
                                  ELSE binding[n]]

(* The candidate follows its operation to the lease's next epoch. *)
NotRefenced(n) == binding     \* seeds a fault: the candidate stays behind
Refenced(n) == [binding EXCEPT ![n].epoch = lease.epoch + 1]

(* The switch: the candidate becomes active, the old binding is revoked. The first form seeds a
   fault: the old binding stays active. *)
SwitchedKeepingOld(from, to) == [binding EXCEPT ![to].status = "active"]
Switched(from, to) ==
  [n \in Revisions |->
      IF n = to THEN [binding[n] EXCEPT !.status = "active"]
      ELSE IF n = from /\ binding[n].status = "active"
           THEN [binding[n] EXCEPT !.status = "revoked"]
      ELSE binding[n]]

(* flock(LOCK_EX|LOCK_NB) on the executor's lock file would succeed. *)
LockFree == flock = NoOne

(* The binding of (current revision, revocation epoch) is active. *)
CurrentBindingActive ==
  /\ config.current # 0
  /\ binding[config.current].status = "active"
  /\ binding[config.current].rvk = config.rvk

(* A crash, an outage or a lost reply; a behaviour has MaxFaults of them. *)
Fault == faults < MaxFaults /\ faults' = faults + 1

(* The clock passes lease_expires_at.  A holder renews its lease three times per term, so under a
   live holder this takes an outage or a pause. *)
Lapse(attended) ==
  /\ LeaseHeld
  /\ IF attended THEN Fault ELSE UNCHANGED faults
  /\ lease' = [lease EXCEPT !.live = FALSE]
  /\ UNCHANGED <<config, binding, disk, flock>>

----
(* What every operation owes the executor. *)

(* The binding the executor points at is the only active one: a switch, wherever it is
   interrupted or repeated, never leaves two or none. *)
ActiveIsCurrent ==
  {n \in Revisions : binding[n].status = "active"} = {config.current} \ {0}

(* The counter is ahead of every revision in use, so whoever allocates the next one, a task or an
   authorization, never reuses a binding. *)
WithinCounter ==
  /\ config.current <= config.counter
  /\ \A n \in Revisions : n > config.counter => binding[n] = NoBinding

(* The current revision is on the volume, read-only and complete: no cleanup of a late, fenced or
   restarted worker ever moves it away, and nothing half written ever becomes current. *)
CurrentOnDisk == config.current # 0 => revDir[config.current] = "sealed"

(* The database fences first: a revision directory is moved to quarantine only after its binding
   can never become active. *)
FencedBeforeMoved ==
  \A n \in Revisions : revDir[n] = "quarantined" => binding[n].status = "quarantined"

(* The candidate of the operation and epoch that the lease was granted to last, rotated from the
   current revision. *)
OfLastGrant(n) ==
  /\ lease.status = "active" /\ lease.op = n.op /\ lease.epoch = n.epoch
  /\ n.status = "committing" /\ n.src = config.current /\ n.rvk = config.rvk

Switch == config'.current \notin {0, config.current}
SwitchedByGrant == Switch => OfLastGrant(binding[config'.current])
SwitchedByHolder == Switch => LeaseHeld /\ OfLastGrant(binding[config'.current])

(* The credential changes only under a live lease, and only to the candidate of its holder. *)
FencedSwitch == [][SwitchedByHolder]_config

(* The same without the expiry: even where a clock misjudges it, nobody but the last operation
   that was granted the lease switches. *)
LastGrantSwitches == [][SwitchedByGrant]_config
====
