---- MODULE RecordStore ----
(* One record of an encrypted generation store, file system step by file system step: create,
   transition and read, each behind the repair of what an earlier one left, with failed steps,
   crashes of the process and power losses. It implements GenerationRegister. The files behind a
   record are <id>.sec (target), <id>.sec.tmp (temp) and a commit shadow
   <id>.sec.commit-<generation> per generation. The session store, the lease fence store, the
   executor binding store, the trusted command journal and the credential operation journal each
   carry this protocol. A power loss keeps or loses each file's unsynced change on its own: a
   rename or an unlink is safe once the directory is synced, a new file once it is synced itself.
   A platform that cannot sync a directory (directorySync FALSE) keeps the last shadow. *)
EXTENDS Naturals, FiniteSets, Sequences, FiniteSetsExt, SequencesExt

CONSTANTS
    None,                   \* an absent file
    Torn,                   \* a file created and not yet synced: unreadable
    Values,                 \* what a record may say
    Successor(_, _),        \* validSuccessor
    MaxGeneration,
    MaxPowerLosses,
    MaxFailures             \* bound on failed steps and process crashes

StoreAssumption == {MaxGeneration, MaxPowerLosses, MaxFailures} \subseteq Nat

Generations == 1..MaxGeneration
Target == 0
Temp == MaxGeneration + 1
Paths == {Target, Temp} \cup Generations
Empty == [p \in Paths |-> None]

(* What a file system step does to the visible files; r is being written. *)
Step(op, path) == [op |-> op, path |-> path]
Apply(f, step, r) ==
  CASE step.op = "create" -> [f EXCEPT ![step.path] = Torn]
    [] step.op = "sync"   -> [f EXCEPT ![step.path] = r]
    [] step.op = "rename" -> [f EXCEPT ![Target] = f[Temp], ![Temp] = None]
    [] step.op = "unlink" -> [f EXCEPT ![step.path] = None]
    [] OTHER              -> f         \* syncDirectory, refuse

ApplyAll(f, steps, r) ==
  FoldLeft(LAMBDA g, step : Apply(g, step, r), f, steps)

----
(* writeEnvelopeExclusive: created, then written and synced. *)
WriteExclusive(path) == <<Step("create", path), Step("sync", path)>>

(* ensureCommitMarker, ensureTemporary: a file with another record is a branch, refused. *)
Ensure(f, path, r) ==
  IF f[path] = r THEN <<>>
  ELSE IF f[path] = None THEN WriteExclusive(path)
  ELSE <<Step("refuse", path)>>

Shadows(f) == {g \in Generations : f[g] # None}
Oldest(a, b) == a < b
Unlinks(paths) ==
  LET order == SetToSortSeq(paths, Oldest)
  IN  [i \in 1..Len(order) |-> Step("unlink", order[i])]

(* finishDurability: the shadows go once the directory is synced; where a directory cannot be
   synced, the shadow of the current one stays. *)
FinishDurability(f, r, directorySync) ==
  LET stale == IF directorySync THEN Shadows(f) ELSE Shadows(f) \ {r.gen}
  IN  (IF directorySync THEN <<Step("syncDirectory", Target)>> ELSE <<>>)
      \o <<Step("unlink", Temp)>>
      \o (IF directorySync THEN <<>> ELSE Ensure(f, r.gen, r))
      \o Unlinks(stale)
      \o (IF directorySync THEN <<Step("syncDirectory", Target)>> ELSE <<>>)

(* writeAtomic, and the second half of repairPending. *)
WriteAtomic(f, r, directorySync) ==
  LET shadow == Ensure(f, r.gen, r)
      temporary == Ensure(f, Temp, r)
      renamed == ApplyAll(f, shadow \o temporary \o <<Step("rename", Target)>>, r)
  IN  shadow \o temporary \o <<Step("rename", Target)>>
      \o FinishDurability(renamed, r, directorySync)

----
(* repairPending. *)
Readable(f) == \A p \in Paths : f[p] # Torn

Candidates(f) == {f[p] : p \in Generations \cup {Temp}} \ {None}
AtGeneration(f, g) == {r \in Candidates(f) : r.gen = g}

(* Two files of one generation must hold one record. *)
OneEachGeneration(f) ==
  /\ \A g \in Generations : Cardinality(AtGeneration(f, g)) <= 1
  /\ f[Target] # None => AtGeneration(f, f[Target].gen) \subseteq {f[Target]}

(* Each record found must follow the one found before it, in generations. *)
Chained(f) ==
  LET found == Candidates(f) \cup {f[Target]}
  IN  \A r \in found : \A older \in found :
          (/\ older.gen < r.gen
           /\ ~ \E x \in found : older.gen < x.gen /\ x.gen < r.gen)
              => Successor(older, r)

Newest(f) == LET all == Candidates(f) \cup ({f[Target]} \ {None})
             IN  CHOOSE r \in all : \A x \in all : x.gen <= r.gen

(* The files are a history of the record. *)
Repairable(f) ==
  /\ Readable(f)
  /\ OneEachGeneration(f)
  /\ IF f[Target] # None THEN Chained(f)
     ELSE Cardinality(Candidates(f)) <= 1 /\ \A r \in Candidates(f) : r.gen = 1

Present(f) == f[Target] # None \/ Candidates(f) # {}
Settled(f) == \A p \in Paths \ {Target} : f[p] = None

Current(f) == IF Present(f) THEN Newest(f) ELSE None

RepairPending(f, directorySync) ==
  IF Settled(f) THEN <<>>
  ELSE IF Newest(f) # f[Target] THEN WriteAtomic(f, Newest(f), directorySync)
  ELSE FinishDurability(f, f[Target], directorySync)

----
VARIABLES
    files,          \* what the process sees
    possible,       \* path -> contents a power loss may leave there
    op,             \* the operation in the store's queue
    told,           \* the record returned to a caller last
    held,           \* the records callers still hold, newest or not
    directorySync,  \* whether this platform can sync a directory
    losses, failures

vars == <<files, possible, op, told, held, directorySync, losses, failures>>

Record == [gen : Generations, data : Values]

NoOp == [goal |-> "idle", expected |-> None, desired |-> None, record |-> None,
         plan |-> <<>>, repaired |-> FALSE]

Init ==
  /\ files = Empty
  /\ possible = [p \in Paths |-> {None}]
  /\ op = NoOp
  /\ told = None
  /\ held = {}
  /\ directorySync \in BOOLEAN
  /\ losses = 0
  /\ failures = 0

----
(* What a power loss may leave after a step. *)
Persist(step) ==
  CASE step.op = "create" -> [possible EXCEPT ![step.path] = @ \cup {Torn}]
    [] step.op = "sync" -> [possible EXCEPT ![step.path] = {op.record}]
    [] step.op = "rename" -> [possible EXCEPT ![Target] = @ \cup {files[Temp]},
                                              ![Temp] = @ \cup {None}]
    [] step.op = "unlink" -> [possible EXCEPT ![step.path] = @ \cup {None}]
    [] step.op = "syncDirectory" -> [p \in Paths |-> {files[p]}]
    [] OTHER -> possible

(* exclusive: one operation at a time. *)
Begin(goal, expected, desired) ==
  /\ op = NoOp
  /\ op' = [NoOp EXCEPT !.goal = goal, !.expected = expected, !.desired = desired]
  /\ UNCHANGED <<files, possible, told, held, directorySync, losses, failures>>

Read == Begin("read", None, None)
Create(v) == Begin("create", None, [gen |-> 1, data |-> v])

(* The caller's copy may be stale: the flow and a cancellation both hold one. *)
Transition(v) ==
  \E expected \in {r \in held : r.gen < MaxGeneration} :
      Begin("transition", expected, [gen |-> expected.gen + 1, data |-> v])

(* Every operation repairs first; a repair that refuses throws. *)
Repair ==
  /\ op.goal # "idle" /\ ~op.repaired /\ op.plan = <<>>
  /\ op' = IF Repairable(files)
           THEN [op EXCEPT !.plan = RepairPending(files, directorySync),
                           !.record = Current(files), !.repaired = TRUE]
           ELSE NoOp
  /\ UNCHANGED <<files, possible, told, held, directorySync, losses, failures>>

(* The next file system step; one that refuses ends the operation with an error. *)
FileStep ==
  /\ op.plan # <<>>
  /\ LET step == Head(op.plan)
     IN  IF step.op = "refuse" THEN op' = NoOp /\ UNCHANGED <<files, possible>>
         ELSE /\ files' = Apply(files, step, op.record)
              /\ possible' = Persist(step)
              /\ op' = [op EXCEPT !.plan = Tail(@)]
  /\ UNCHANGED <<told, held, directorySync, losses, failures>>

Returns(r) == told' = r /\ held' = held \cup ({r} \ {None}) /\ op' = NoOp

AnyCurrent(expected, current) == TRUE   \* seeds a fault
(* sameRecord(current, expected) *)
StillCurrent(expected, current) == current = expected

Write(r, plan) ==
  /\ op' = [op EXCEPT !.goal = "return", !.record = r, !.plan = plan]
  /\ UNCHANGED <<told, held>>
Refuses == op' = NoOp /\ UNCHANGED <<told, held>>

(* transitionLocked and create, after the repair: an outcome already there is made durable and
   returned, a stale expectation is refused, the rest is written and returned. *)
Decide ==
  /\ op.repaired /\ op.plan = <<>>
  /\ LET current == files[Target]
         allowed == IF op.expected = None THEN current = None
                    ELSE /\ StillCurrent(op.expected, current)
                         /\ Successor(op.expected, op.desired)
     IN  CASE op.goal \in {"read", "return"} -> Returns(current)
           [] current = op.desired -> Write(current, FinishDurability(files, current, directorySync))
           [] current # op.desired /\ allowed -> Write(op.desired, WriteAtomic(files, op.desired, directorySync))
           [] OTHER -> Refuses
  /\ UNCHANGED <<files, possible, directorySync, losses, failures>>

----
(* A step fails or the process dies between two. *)
Fail ==
  /\ op # NoOp
  /\ failures < MaxFailures
  /\ failures' = failures + 1
  /\ op' = NoOp
  /\ UNCHANGED <<files, possible, told, held, directorySync, losses>>

PowerLoss ==
  /\ losses < MaxPowerLosses
  /\ losses' = losses + 1
  /\ files' \in [Paths -> UNION {possible[p] : p \in Paths}]
  /\ \A p \in Paths : files'[p] \in possible[p]
  /\ possible' = [p \in Paths |-> {files'[p]}]
  /\ op' = NoOp
  /\ UNCHANGED <<told, held, directorySync, failures>>

Next ==
  \/ Read
  \/ \E v \in Values : Create(v) \/ Transition(v)
  \/ Repair \/ FileStep \/ Decide
  \/ Fail \/ PowerLoss

Spec == Init /\ [][Next]_vars

----
(* A reader gets the newest whole record. *)
Whole == [p \in Paths |-> IF files[p] = Torn THEN None ELSE files[p]]

(* The store is a register of generations: no crash, failed step or power loss shows an older
   record than one committed, a half-written one, or two histories. *)
Register == INSTANCE GenerationRegister WITH
                Records <- Record, value <- Current(Whole)
ImplementsRegister == Register!Spec

(* Only a torn file makes the store refuse: crashes at every other point are repaired. *)
RefusesTornOnly == Readable(files) => Repairable(files)
====
