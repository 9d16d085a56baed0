---- MODULE ExecutorBinding ----
(* What the desktop knows of an executor's current credential (desktop-executor-binding-state.ts).
   The server's decisions reach the store late, repeated, out of order, by callers that die half
   way. It runs one operation at a time; its files are those of RecordStore.
   A durable write never starts, is rolled forward by the next repair although the operation
   failed, or leaves a torn marker. One executor: records of two share nothing. *)
EXTENDS Integers, Sequences

CONSTANTS
    MaxDecisions,   \* bound on the server's decisions
    MaxFaults,      \* bound on failed writes
    None, Torn

VARIABLES
    decided,    \* the server's decisions on this executor, in its order
    binding,    \* the record, None, or files no repair accepts
    place,      \* of the decision the record stands for in the server's order, 0 for none yet
    quarantined,\* revisions whose credential tree a logout moved away
    faults

vars == <<decided, binding, place, quarantined, faults>>

Results == {"succeeded", "failed", "stale_target"}
Decision == [kind : {"activate", "revoke"}, id : Nat, revision : Nat, source : Nat, epoch : Nat]
Record == [status : {"active", "revoking", "revoked"}, activation : Decision, epoch : Nat,
           revocation : Decision \cup {None}, result : Results \cup {None}]

BindingAssumption ==
  {MaxDecisions, MaxFaults} \subseteq Nat /\ None # Torn /\ {None, Torn} \cap Record = {}

(* A binding's revision is that of the activation, its source the revision it replaced, 0 when
   there was none to replace; a decision is known by its place in the server's order, as the
   code's identifiers are unique. *)
Activation(id, revision, source, epoch) ==
  [kind |-> "activate", id |-> id, revision |-> revision, source |-> source, epoch |-> epoch]
Revocation(id, revision, epoch) ==
  [kind |-> "revoke", id |-> id, revision |-> revision, source |-> 0, epoch |-> epoch]

(* The record after an activation: its revocation half is empty. *)
Activated(a) == [status |-> "active", activation |-> a, epoch |-> a.epoch,
                 revocation |-> None, result |-> None]
Revoking(r, v) == [r EXCEPT !.status = "revoking", !.epoch = v.epoch, !.revocation = v]
Revoked(r, result) == [r EXCEPT !.status = "revoked", !.result = result]

(* validateState: the fields a status carries. *)
Shaped(r) ==
  /\ r.activation.revision > r.activation.source
  /\ (r.revocation = None) = (r.status = "active")
  /\ (r.result = None) = (r.status # "revoked")
  /\ r.result \in Results \cup {None}

Init ==
  /\ decided = <<>>
  /\ binding = None
  /\ place = 0
  /\ quarantined = {}
  /\ faults = 0

----
(* The server, from how its answers are used here: it activates a new revision over the one it
   holds active, or over none, and revokes what it holds active under the next epoch. *)
Held == IF decided = <<>> THEN Revocation(0, 0, 0) ELSE decided[Len(decided)]
Activations == {i \in DOMAIN decided : decided[i].kind = "activate"}
Revocations == DOMAIN decided \ Activations

ServerDecides(d) ==
  /\ Len(decided) < MaxDecisions
  /\ decided' = Append(decided, d)
  /\ UNCHANGED <<binding, place, quarantined, faults>>
ServerActivates ==
  ServerDecides(Activation(Len(decided) + 1, Held.revision + 1,
                           IF Held.kind = "activate" THEN Held.revision ELSE 0, Held.epoch))
ServerRevokes ==
  /\ Held.kind = "activate"
  /\ ServerDecides(Revocation(Len(decided) + 1, Held.revision, Held.epoch + 1))

----
(* writeAtomic. It may fail before its marker is complete, or after, and then the record is
   written all the same. *)
WriteAtomic(r, i) ==
  /\ \/ UNCHANGED faults /\ binding' = r /\ place' = i
     \/ /\ faults < MaxFaults
        /\ faults' = faults + 1
        /\ \/ binding' = r /\ place' = i
           \/ binding' = Torn /\ UNCHANGED place
  /\ UNCHANGED <<decided, quarantined>>

(* repairPending and readTarget: a torn marker or temporary is refused. *)
Readable == binding # Torn
IsAt(status) == IF binding \in {None, Torn} THEN FALSE ELSE binding.status = status

(* validateActivationInput lets no provenance repeat; a decision's own repetition returns the
   record as it is (sameActivation), and any other use of its identifiers is refused. *)
Known(a) == IF binding = None THEN FALSE ELSE binding.activation.id = a.id

(* assertActivationTransition: over the very revision the record holds active, or over none when
   there is none, and in the same epoch. *)
Follows(a) ==
  IF binding = None
  THEN a.source = 0
  ELSE /\ \/ IsAt("active") /\ a.source = binding.activation.revision
          \/ IsAt("revoked") /\ a.source = 0
       /\ a.epoch = binding.epoch
       /\ a.revision > binding.activation.revision

(* activate, by the settlement of an acknowledged session. *)
Activate(i) ==
  LET a == decided[i] IN
  /\ Readable
  /\ ~Known(a)
  /\ Follows(a)
  /\ WriteAtomic(Activated(a), i)

(* The exact revision, under the exact next epoch. *)
Targets(v) == binding.activation.revision = v.revision /\ v.epoch = binding.epoch + 1

(* beginRevocation: the fence a logout takes before it touches the tree. *)
BeginRevocation(i) ==
  LET v == decided[i] IN
  /\ IsAt("active")
  /\ Targets(v)
  /\ WriteAtomic(Revoking(binding, v), i)

SameRevision(v) ==                                          \* seeds a fault
    IF binding \in {None, Torn} THEN FALSE ELSE binding.activation.revision = v.revision
(* A logout goes on only once beginRevocation returned its own intent (sameRevocationIntent),
   when a logout that crashed, or was done, is repeated too. *)
Fenced(v) ==
    IF IsAt("revoking") \/ IsAt("revoked") THEN binding.revocation = v ELSE FALSE

(* The tree of the revision under the fence is moved away. *)
Quarantine(i) ==
  LET v == decided[i] IN
  /\ Fenced(v)
  /\ v.revision \notin quarantined
  /\ quarantined' = quarantined \cup {v.revision}
  /\ UNCHANGED <<decided, binding, place, faults>>

(* validRevocationResultShape: success names the quarantined tree. *)
Sound(result) == result = "succeeded" => binding.activation.revision \in quarantined

(* Repeated with the same result it changes nothing, with another it is refused. *)
MarkRevoked(i, result) ==
  /\ IsAt("revoking") /\ Fenced(decided[i])
  /\ Sound(result)
  /\ WriteAtomic(Revoked(binding, result), place)

Next ==
  \/ ServerActivates \/ ServerRevokes
  \/ \E i \in Activations : Activate(i)
  \/ \E i \in Revocations :
      \/ BeginRevocation(i) \/ Quarantine(i)
      \/ \E result \in Results : MarkRevoked(i, result)

Spec == Init /\ [][Next]_vars

----
(* validSuccessor: the chain the repair rolls forward. *)
Successor(r, s) ==
  CASE s.status = "active" ->
          /\ r.status # "revoking"
          /\ s.activation.source = (IF r.status = "active" THEN r.activation.revision ELSE 0)
          /\ s.epoch = r.epoch
          /\ s.activation.revision > r.activation.revision
          /\ s.activation.id # r.activation.id
    [] s.status = "revoking" ->
          r.status = "active" /\ s.activation = r.activation /\ s.epoch = r.epoch + 1
    [] s.status = "revoked" ->
          /\ r.status = "revoking"
          /\ <<s.activation, s.revocation, s.epoch>> = <<r.activation, r.revocation, r.epoch>>

(* Every record carries its status's fields. *)
TypeOK ==
  /\ binding \in {None, Torn} \/ Shaped(binding)
  /\ faults \in 0..MaxFaults

(* From the first decision the record was given on it goes through the server's decisions in the
   server's order and misses none: an activation settled late, twice or before the one it
   replaced, or a revocation for another revision, changes nothing. *)
FollowsServer == [][place' \in {place, place + 1} \/ place = 0]_vars

(* A revision whose credential tree a logout moved away is never the one in use: not when the
   fence was taken but not yet durable, and not by a late repetition of its activation. *)
MovedIsNotActive ==
  IsAt("active") => binding.activation.revision \notin quarantined

(* Whatever an operation writes over a record, the repair after a crash in that write accepts. *)
WritesRollForward ==
  [][IF {binding, binding'} \cap {None, Torn} # {} THEN TRUE
     ELSE binding' = binding \/ Successor(binding, binding')]_vars
====
