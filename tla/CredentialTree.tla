---- MODULE CredentialTree ----
(* The directories in which a desktop keeps one executor's credentials, file system step by file
   system step: the staging tree of one session, its promotion to a revision under a journaled
   operation, and the quarantine of either. A directory is owned by whoever made it with mkdir
   and then wrote a fence into it; everything else is moved into such a reservation. Steps fail,
   the process crashes and the power goes. POSIX modes only. A rename moves a directory in one
   step even across a power loss, and syncing a file or a directory keeps the path to it. *)
EXTENDS Naturals, Sequences

CONSTANTS
    MaxWrites,      \* bound on what the App Server writes into the tree
    MaxFaults,      \* bound on failed steps and process crashes
    MaxPowerLosses

TreeAssumption == {MaxWrites, MaxFaults, MaxPowerLosses} \subseteq Nat

VARIABLES
    fs,             \* the directories as the process sees them
    disk,           \* the directories as a power loss may leave them
    phase,          \* of the promotion in the operation journal
    expected,       \* the digest measured for the promotion, 0 before
    live,           \* an App Server has the staging tree open
    op,             \* the operation under the executor's lock
    faults, losses

vars == <<fs, disk, phase, expected, live, op, faults, losses>>

(* A reservation grows along Reserving; "moved" is its rename away. *)
Reserving == <<"none", "dir", "torn", "owned", "moved">>
Homes == {"none", "staging", "revision", "staging_quarantine", "revision_quarantine"}
Phases == <<"none", "prepared", "source_durable", "reserved", "renamed", "immutable",
            "verified", "acknowledged", "removed", "quarantined">>

(* st, container: the reservations of the staging tree and the revision; home, content: where the
   tree is and what it holds; sealed: the revision's read-only mode; sq, fenced: the staging
   quarantine and the digest in its fence; rq: the revision quarantine. *)
Nothing == [st |-> "none", container |-> "none", home |-> "none", content |-> 1,
            sealed |-> FALSE, sq |-> "none", fenced |-> 0, rq |-> "none"]

Fields == DOMAIN Nothing

Idle == op.at \in {"returned", "refused", "failed"}

Init ==
  /\ fs = Nothing
  /\ disk = Nothing
  /\ phase = "none"
  /\ expected = 0
  /\ live = FALSE
  /\ op = [kind |-> "none", at |-> "returned"]
  /\ faults = 0
  /\ losses = 0

----
(* What an operation asserts of the directories before it goes on. *)
MutableStaging(f) == f.st = "owned" /\ f.home = "staging"
Owner(f) == f.st = "owned"
Fenced(f) == f.container = "owned"
ReadOnlyTree(f) == f.sealed
RevisionInPlace(f) == Owner(f) /\ Fenced(f) /\ ReadOnlyTree(f) /\ f.home = "revision"
Digest(f) == f.content
Matches(f) == Digest(f) = expected

----
Begin(kind, at) == Idle /\ op' = [kind |-> kind, at |-> at]
Goto(at) == op' = [op EXCEPT !.at = at]
If(condition, at) == Goto(IF condition THEN at ELSE "refused")

(* One change of the directories. *)
Change(from, to, changed) ==
  /\ op.at = from
  /\ fs' = changed
  /\ Goto(to)
  /\ UNCHANGED <<disk, phase, expected, live, faults, losses>>

(* durableBarrier and syncParent: these fields are on the disk. *)
Synced(fields) == disk' = [d \in Fields |-> IF d \in fields THEN fs[d] ELSE disk[d]]
Sync(from, to, fields) ==
  /\ op.at = from
  /\ Synced(fields)
  /\ Goto(to)
  /\ UNCHANGED <<fs, phase, expected, live, faults, losses>>

(* A fence is written, closed and synced at once: it is on the disk whole. *)
WriteFence(from, to, field) ==
  /\ op.at = from
  /\ fs' = [fs EXCEPT ![field] = "owned"]
  /\ disk' = [disk EXCEPT ![field] = "owned", !.fenced = fs.fenced]
  /\ Goto(to)
  /\ UNCHANGED <<phase, expected, live, faults, losses>>

(* The journal is a durable register (RecordStore). *)
WriteAtomic(to) == phase' = to

ValidRequestedTransition(to) ==
  CASE phase \in {"quarantined", "removed"} -> FALSE
    [] to = "removed" -> phase = "acknowledged"
    [] to = "quarantined" -> phase # "acknowledged"
    [] OTHER -> \E i \in 1..7 : phase = Phases[i] /\ to = Phases[i + 1]

Transition(from, to, at) ==
  /\ op.at = from
  /\ ValidRequestedTransition(to)
  /\ WriteAtomic(to)
  /\ Goto(at)
  /\ UNCHANGED <<fs, disk, expected, live, faults, losses>>

Decide(from, at) ==
  /\ op.at = from
  /\ Goto(at)
  /\ UNCHANGED <<fs, disk, phase, expected, live, faults, losses>>

Starts(kind, at) ==
  /\ Begin(kind, at)
  /\ UNCHANGED <<fs, disk, phase, expected, live, faults, losses>>

----
(* createOrRecoverStaging *)
CreateOrRecoverStaging ==
  /\ ~live
  /\ Starts("create", IF fs.sq # "none" THEN "refused"
                      ELSE IF fs.st = "none" THEN "mkdir" ELSE "adopt")

CreateStagingReservation ==
  \/ Change("mkdir", "mkhome", [fs EXCEPT !.st = "dir"])
  \/ Change("mkhome", "open", [fs EXCEPT !.home = "staging"])
  \/ Change("open", "write", [fs EXCEPT !.st = "torn"])
  \/ WriteFence("write", "created", "st")
  \/ Sync("created", "adopt", {"st", "home"})

AdoptStaging ==
  \/ Decide("adopt", IF MutableStaging(fs) THEN "barrier" ELSE "refused")
  \/ Sync("barrier", "returned", {"st", "home", "content"})

(* The App Server that is given the tree writes its login into it. *)
AppServerStarts ==
  /\ op = [kind |-> "create", at |-> "returned"] /\ expected = 0
  /\ live' = TRUE
  /\ UNCHANGED <<fs, disk, phase, expected, op, faults, losses>>

AppServerWrites ==
  /\ live /\ fs.home = "staging" /\ fs.content <= MaxWrites
  /\ fs' = [fs EXCEPT !.content = @ + 1]
  /\ UNCHANGED <<disk, phase, expected, live, op, faults, losses>>

AppServerStops ==
  /\ live
  /\ live' = FALSE
  /\ UNCHANGED <<fs, disk, phase, expected, op, faults, losses>>

(* The caller measures once, with the App Server stopped. *)
MeasuredFields == {"home", "content"}
Measure ==
  /\ Idle /\ ~live /\ expected = 0 /\ MutableStaging(fs)
  /\ Synced(MeasuredFields)
  /\ expected' = Digest(fs)
  /\ op' = [kind |-> "measure", at |-> "returned"]
  /\ UNCHANGED <<fs, phase, live, faults, losses>>

----
(* promoteStaging and recoverOperation *)
PromoteStaging ==
  /\ ~live /\ expected # 0
  /\ IF phase # "none" THEN Starts("promote", "execute")
     ELSE Starts("promote", IF /\ Owner(fs) /\ fs.container = "none"
                               /\ fs.home = "staging" /\ Matches(fs)
                            THEN "prepare" ELSE "refused")

PreparePromotion == Transition("prepare", "prepared", "execute")

RecoverOperation ==
  Starts("recover", IF phase = "none" THEN "refused" ELSE "execute")

(* Where executePromotion goes on from, by where the tree is and by the journal's phase. *)
NextStep ==
  CASE phase \in {"quarantined", "acknowledged", "removed"} \/ ~Owner(fs) -> "refused"
    [] fs.home = "staging" ->
           CASE ~Matches(fs) -> "refused"
             [] phase = "prepared" -> "source_barrier"
             [] phase = "source_durable" -> "reserve"
             [] phase = "reserved" /\ Fenced(fs) -> "rename"
             [] OTHER -> "refused"
    [] fs.home = "revision" /\ Fenced(fs) ->
           CASE phase = "reserved" -> "container_sync"
             [] phase = "renamed" -> "seal"
             [] phase = "immutable" /\ ReadOnlyTree(fs) /\ Matches(fs) -> "verify"
             [] phase = "verified" /\ ReadOnlyTree(fs) /\ Matches(fs) -> "returned"
             [] OTHER -> "refused"
    [] OTHER -> "refused"

(* A revision that no longer has its digest is refused here; the code quarantines it first. *)
ExecutePromotion == Decide("execute", NextStep)

SourceDurable ==
  \/ Sync("source_barrier", "source_durable", {"home", "content"})
  \/ Transition("source_durable", "source_durable", "execute")

(* A container this operation did not just make must already be fenced. *)
EnsureRevisionReservation ==
  \/ Decide("reserve", IF fs.container = "none" THEN "reserve_mkdir"
                       ELSE IF Fenced(fs) THEN "reserved" ELSE "refused")
  \/ Change("reserve_mkdir", "reserve_open", [fs EXCEPT !.container = "dir"])
  \/ Change("reserve_open", "reserve_write", [fs EXCEPT !.container = "torn"])
  \/ WriteFence("reserve_write", "reserved", "container")
  \/ Transition("reserved", "reserved", "execute")

Rename ==
  \/ Change("rename", "container_sync", [fs EXCEPT !.home = "revision"])
  \/ Sync("container_sync", "renamed", {"container", "home"})
  \/ Transition("renamed", "renamed", "execute")

(* The sealed container is on the disk before the journal says so. *)
SealUnsynced(from, to) == Decide(from, to)     \* seeds a fault
SealDurable(from, to) == Sync(from, to, {"container", "home", "content", "sealed"})

Seal ==
  \/ Change("seal", "seal_barrier", [fs EXCEPT !.sealed = TRUE])
  \/ SealDurable("seal_barrier", "immutable")
  \/ Transition("immutable", "immutable", "execute")

Verify == Transition("verify", "verified", "returned")

----
(* quarantineStaging and quarantineStagingIfPresent *)
WhollyAbsent(f) == f.st = "none" /\ f.home # "staging" /\ f.sq = "none"

(* The digest goes into a new fence; an old fence must hold it already. *)
QuarantineFrom ==
  CASE fs.st \in {"dir", "torn", "owned"} /\ MutableStaging(fs) -> "q_barrier"
    [] fs.st \in {"none", "moved"} /\ fs.home = "staging_quarantine" -> "q_finish"
    [] OTHER -> "refused"

QuarantineStaging == Starts("quarantineStaging", QuarantineFrom)
QuarantineStagingIfPresent ==
  Starts("quarantineStaging", IF WhollyAbsent(fs) THEN "returned" ELSE QuarantineFrom)

QuarantineBarrier == Sync("q_barrier", "q_reserve", {"st", "home", "content"})

QuarantineReservation ==
  \/ /\ op.at = "q_reserve"
     /\ IF fs.sq = "none"
        THEN fs' = [fs EXCEPT !.fenced = Digest(fs)] /\ Goto("q_mkdir")
        ELSE UNCHANGED fs /\ If(fs.sq = "owned" /\ fs.fenced = Digest(fs), "q_rename")
     /\ UNCHANGED <<disk, phase, expected, live, faults, losses>>
  \/ Change("q_mkdir", "q_open", [fs EXCEPT !.sq = "dir"])
  \/ Change("q_open", "q_write", [fs EXCEPT !.sq = "torn"])
  \/ WriteFence("q_write", "q_rename", "sq")

QuarantineRename ==
  \/ Change("q_rename", "q_sync", [fs EXCEPT !.st = "moved", !.home = "staging_quarantine"])
  \/ Sync("q_sync", "q_finish", {"st", "home", "sq"})

FinishStagingQuarantine ==
  \/ Decide("q_finish", IF fs.fenced = Digest(fs) THEN "q_seal" ELSE "refused")
  \/ Sync("q_seal", "returned", {"st", "home", "content", "sq"})

----
(* quarantinePromotion: the journal says so before anything moves, and a retry repairs a
   container that was opened for the move. *)
SealRepairable(f) == f.sealed \/ phase = "quarantined"

QuarantinePromotion ==
  Starts("quarantinePromotion",
         CASE phase = "verified" /\ RevisionInPlace(fs) /\ Matches(fs) -> "qp_journal"
           [] phase = "quarantined" -> "qp_from"
           [] OTHER -> "refused")

QuarantineJournaled == Transition("qp_journal", "quarantined", "qp_from")

FinishFrom ==
  CASE fs.home = "revision" /\ Fenced(fs) /\ SealRepairable(fs) /\ Matches(fs) ->
           IF ReadOnlyTree(fs) THEN "qp_open" ELSE "qp_repair"
    [] fs.home = "revision_quarantine" /\ SealRepairable(fs) -> "qp_payload"
    [] OTHER -> "refused"

FinishQuarantinedPromotion == Decide("qp_from", FinishFrom)

EnsurePromotionRevisionSeal ==
  \/ Change("qp_repair", "qp_repaired", [fs EXCEPT !.sealed = TRUE])
  \/ Sync("qp_repaired", "qp_open", {"sealed"})

(* The container is opened, moved into a reservation and sealed again. *)
QuarantineUnlocked ==
  \/ Change("qp_open", IF fs.rq = "none" THEN "qp_barrier" ELSE "qp_rename",
            [fs EXCEPT !.sealed = FALSE])
  \/ Sync("qp_barrier", "qp_mkdir", {"container", "home", "content", "sealed"})
  \/ Change("qp_mkdir", "qp_reserved", [fs EXCEPT !.rq = "dir"])
  \/ Sync("qp_reserved", "qp_rename", {"rq"})
  \/ Change("qp_rename", "qp_moved",
            [fs EXCEPT !.container = "moved", !.home = "revision_quarantine"])
  \/ Sync("qp_moved", "qp_payload", {"container", "home", "rq"})

FinishQuarantineReservation ==
  \/ Change("qp_payload", "qp_sealed", [fs EXCEPT !.sealed = TRUE])
  \/ Sync("qp_sealed", "qp_close", {"content", "sealed"})
  \/ Change("qp_close", "qp_closed", [fs EXCEPT !.rq = "sealed"])
  \/ Sync("qp_closed", "returned", {"rq"})

(* completeAfterAcknowledgement and removeAcknowledged *)
CompleteAfterAcknowledgement ==
  \/ Starts("complete", IF /\ phase \in {"verified", "acknowledged", "removed"}
                           /\ RevisionInPlace(fs) /\ Matches(fs)
                        THEN IF phase = "verified" THEN "acknowledge" ELSE "returned"
                        ELSE "refused")
  \/ Transition("acknowledge", "acknowledged", "returned")

RemoveAcknowledged ==
  \/ Starts("remove", CASE phase = "acknowledged" -> "remove"
                        [] phase = "removed" -> "returned"
                        [] OTHER -> "refused")
  \/ Transition("remove", "removed", "returned")

----
(* A step fails and the operation throws, or the process dies (its App Server may write on for a
   while). The quarantine of a revision tries to seal again what it opened. *)
Restored == IF op.at \in {"qp_barrier", "qp_mkdir", "qp_reserved", "qp_rename", "qp_moved"}
            THEN {fs, [fs EXCEPT !.sealed = TRUE]} ELSE {fs}

Fails ==
  /\ ~Idle /\ faults < MaxFaults
  /\ fs' \in Restored
  /\ Goto("failed")
  /\ faults' = faults + 1
  /\ UNCHANGED <<disk, phase, expected, live, losses>>

(* What a power loss may leave: each unsynced change, whole or in part, or not, as long as the
   directories fit together. *)
Between(a, b) ==
  {Reserving[i] : i \in {i \in 1..5 : /\ \E j \in 1..i : Reserving[j] \in {a, b}
                                      /\ \E j \in i..5 : Reserving[j] \in {a, b}}}

Consistent(f) ==
  /\ f.home = "staging" => f.st \in {"dir", "torn", "owned"}
  /\ f.home = "revision" => f.container \in {"dir", "torn", "owned"}
  /\ (f.home = "staging_quarantine") = (f.st = "moved")
  /\ (f.home = "revision_quarantine") = (f.container = "moved")
  /\ f.st = "moved" => f.sq # "none"
  /\ f.container = "moved" => f.rq # "none"
  /\ f.home = "none" => f.content = 1

Survivors ==
  {f \in [st : Between(disk.st, fs.st), container : Between(disk.container, fs.container),
          home : {disk.home, fs.home}, content : {disk.content, fs.content},
          sealed : {disk.sealed, fs.sealed}, sq : Between(disk.sq, fs.sq),
          fenced : {disk.fenced, fs.fenced}, rq : {disk.rq, fs.rq}] : Consistent(f)}

PowerLoss ==
  /\ losses < MaxPowerLosses
  /\ fs' \in Survivors
  /\ disk' = fs'
  /\ live' = FALSE
  /\ Goto("failed")
  /\ losses' = losses + 1
  /\ UNCHANGED <<phase, expected, faults>>

----
Next ==
  \/ CreateOrRecoverStaging \/ CreateStagingReservation \/ AdoptStaging
  \/ AppServerStarts \/ AppServerWrites \/ AppServerStops \/ Measure
  \/ PromoteStaging \/ PreparePromotion \/ RecoverOperation \/ ExecutePromotion
  \/ SourceDurable \/ EnsureRevisionReservation \/ Rename \/ Seal \/ Verify
  \/ QuarantineStaging \/ QuarantineStagingIfPresent \/ QuarantineBarrier
  \/ QuarantineReservation \/ QuarantineRename \/ FinishStagingQuarantine
  \/ QuarantinePromotion \/ QuarantineJournaled \/ FinishQuarantinedPromotion
  \/ EnsurePromotionRevisionSeal \/ QuarantineUnlocked \/ FinishQuarantineReservation
  \/ CompleteAfterAcknowledgement \/ RemoveAcknowledged
  \/ Fails \/ PowerLoss

Spec == Init /\ [][Next]_vars

----
(* The directories fit together, in the process's view and on the disk. *)
TypeOK ==
  /\ {fs, disk} \subseteq [st : {Reserving[i] : i \in 1..5},
                           container : {Reserving[i] : i \in 1..5}, home : Homes,
                           content : 1..(MaxWrites + 1), sealed : BOOLEAN,
                           sq : {"none", "dir", "torn", "owned"},
                           fenced : 0..(MaxWrites + 1), rq : {"none", "dir", "sealed"}]
  /\ Consistent(fs)
  /\ \E i \in 1..10 : phase = Phases[i]
  /\ expected \in 0..(MaxWrites + 1)
  /\ live \in BOOLEAN

(* Nothing that may happen after a measurement loses the measured credential: whatever a power
   loss leaves holds it in one of its places. *)
MeasuredIsKept ==
  expected # 0 => \A f \in Survivors : f.home # "none" /\ Matches(f)

(* Once the journal calls a promotion verified, and from then on, the revision is in its place,
   owned, read-only and unchanged, and a power loss finds it so: the server may be told of it. *)
VerifiedIsInPlace ==
  phase \in {"verified", "acknowledged", "removed"} =>
      \A f \in Survivors : RevisionInPlace(f) /\ Matches(f)

(* Where each operation has something to do. *)
Fit(kind) ==
  CASE kind = "create" -> fs.home \in {"none", "staging"} /\ fs.sq = "none"
    [] kind = "promote" -> /\ phase \in {"none", "prepared", "source_durable", "reserved",
                                         "renamed", "immutable", "verified"}
                           /\ fs.home \in {"staging", "revision"}
    [] kind = "recover" -> /\ phase \notin {"none", "quarantined", "acknowledged", "removed"}
                           /\ fs.home \in {"staging", "revision"}
    [] kind = "quarantineStaging" -> fs.home \in {"staging", "staging_quarantine"}
    [] kind = "quarantinePromotion" -> phase \in {"verified", "quarantined"}
    [] kind = "complete" -> phase \in {"verified", "acknowledged", "removed"}
    [] kind = "remove" -> phase \in {"acknowledged", "removed"}

(* A reservation without a whole fence, or one whose fence says another digest than its tree has. *)
Ambiguous(f) ==
  \/ f.st \in {"dir", "torn"} \/ (f.st = "owned" /\ f.home = "none")
  \/ f.container \in {"dir", "torn"} \/ f.sq \in {"dir", "torn"}
  \/ (f.sq # "none" /\ f.fenced # Digest(f))

(* An operation that has something to do is refused for an ambiguous reservation and nothing
   else: after a crash, a failed step or a power loss anywhere else, the retry goes through. *)
RefusesAmbiguousOnly ==
  [][(op' # op /\ op'.at = "refused") => Ambiguous(fs) \/ ~Fit(op'.kind)]_vars

(* On the disk the staging tree and its promotion only move forward, as the authorization flow
   expects of them. *)
Staging ==
  CASE disk.home = "staging_quarantine" -> "quarantined"
    [] disk.home \in {"revision", "revision_quarantine"} -> "moved"
    [] disk.home = "staging" /\ Owner(disk) -> "live"
    [] disk.st = "none" -> "none"
    [] OTHER -> "partial"
Promotion ==
  IF phase \in {"prepared", "source_durable", "reserved", "renamed", "immutable"}
  THEN "prepared" ELSE phase

States == INSTANCE CredentialStates WITH tree <- [staging |-> Staging, promotion |-> Promotion]
ImplementsStates == States!Spec
====
