---- MODULE SessionRecord ----
(* What the durable record of one authorization session holds, who writes it, and who checks
   it. Four writers build the next record on their own: the flow, the reconciler of an effect
   whose outcome is unknown, the settlement of what was reconciled, the coordinator of the start.
   Four readers judge it on their own: the store's validators of a write, the settlement's, the
   orchestrator's of what the store answers to a cancellation, the inspector's, which compare a
   journaled request with it. A record one builds and another refuses is a session nobody can
   close. DesktopSession has the effects, RecordStore the files. Fields written together are one
   value or None. *)
EXTENDS Naturals, FiniteSets, TLC

CONSTANTS
    None,           \* an absent value
    MaxFaults,      \* bound on failed writes and lost answers
    MaxRestarts     \* bound on restarts of the main process

BoundsAssumption == {MaxFaults, MaxRestarts} \subseteq Nat

VARIABLES
    disk,       \* the session's record in the store
    outbox,     \* the device journal's record of each kind of request
    server,     \* the session's revision there, the requests it carried out
    lease,      \* what the activation lease fence names
    run,        \* the thread: whose, where, the record it holds, its error
    refused,    \* a check refused a record without any failure behind it
    budget      \* faults and restarts so far

vars == <<disk, outbox, server, lease, run, refused, budget>>
Outside == <<disk, outbox, server, lease, refused>>
Others == <<outbox, server, lease>>

----
(* The record. *)

Progress == <<"accepted", "handoff_claim_starting", "handoff_claimed",
    "app_server_starting", "app_server_started", "login_starting",
    "waiting_user", "login_completed", "proof_submit_starting",
    "proof_prepared", "activation_pending", "credential_promotion_starting",
    "credential_durable", "activation_ack_starting",
    "activation_ack_response_received", "activation_acked">>
EffectStarting == {"handoff_claim_starting", "app_server_starting",
    "login_starting", "proof_submit_starting", "credential_promotion_starting",
    "activation_ack_starting"}
Terminal == {"failed", "cancelled", "interrupted"}
Resumable == {"handoff_claimed", "login_completed", "proof_prepared",
              "activation_pending", "credential_durable"}

Rank(status) == (CHOOSE i \in DOMAIN Progress : Progress[i] = status) - 1
Ladder(i) == Progress[i + 1]
IsTerminal(r) == r.status \in Terminal
IsOver(r) == IsTerminal(r) \/ r.status = "activation_acked"
OutcomeUnknown(r) == r.status \in EffectStarting

(* The fields that are filled along the ladder. *)
Tuple == {"claimRequest", "claimToken", "claimExpires", "login",
          "proofRequest", "activation", "activationToken",
          "activationExpires", "receipt", "ackRequest"}
Tokens == {"claimToken", "activationToken"}
Fields == Tuple \cup {"status", "last", "revision", "failure"}

(* A record is its data and the generation the store stamps on it. *)
Data(r) == [f \in Fields |-> r[f]]
Stamped(r, data) == [generation |-> r.generation + 1] @@ data

InitialData(revision) ==
  [status |-> "accepted", last |-> "accepted", revision |-> revision,
   failure |-> None] @@ [f \in Tuple |-> None]
InitialRecord(revision) == [generation |-> 1] @@ InitialData(revision)

----
(* The store's validators. *)

Filled(r, f, expected) == (r[f] # None) <=> expected

(* A terminal record explains itself; a live one has nothing to explain. *)
FailureFits(r) ==
  IF ~IsTerminal(r) THEN r.failure = None
  ELSE r.status \in {"failed", "interrupted"} => r.failure # None

ReceiptFits(r) ==
  r.receipt # None =>
      r.receipt = [revision |-> r.activation.credential,
                   operation |-> r.activation.operation,
                   digest |-> r.activation.digest]

(* The status decides which fields are there. *)
StatusShape(r) ==
  LET index == Rank(r.last)
      live == ~IsTerminal(r)
  IN  /\ Filled(r, "claimRequest", index >= 1)
      /\ Filled(r, "claimExpires", index >= 2)
      /\ Filled(r, "login", index >= 7)
      /\ Filled(r, "proofRequest", index >= 8)
      /\ \A f \in {"activation", "activationExpires"} : Filled(r, f, index >= 9)
      /\ r.activation # None =>
              /\ r.activation.source < r.activation.credential
              /\ r.activation.digest = r.login
      /\ Filled(r, "receipt", index >= 12)
      /\ ReceiptFits(r)
      /\ Filled(r, "ackRequest", index >= 13)
      /\ Filled(r, "claimToken", live /\ index >= 2 /\ index <= 14)
      /\ Filled(r, "activationToken", live /\ index >= 9 /\ index <= 14)

ValidData(data) ==
  /\ ~IsTerminal(data) => data.last = data.status
  /\ FailureFits(data)
  /\ StatusShape(data)

(* A filled field keeps its value; tokens come and go. *)
KeptOnce(old, new, f) == old[f] # None => new[f] = old[f]
TokenProgression(old, new, f, status) ==
  \/ old[f] = new[f]
  \/ old[f] = None /\ new.status = status
  \/ new[f] = None /\ IsOver(new)
MonotonicTuple(old, new) ==
  /\ \A f \in Tuple \ Tokens : KeptOnce(old, new, f)
  /\ TokenProgression(old, new, "claimToken", "handoff_claimed")
  /\ TokenProgression(old, new, "activationToken", "proof_prepared")

(* The server's three answers raise the session's revision. *)
Answers == {"handoff_claimed", "proof_prepared", "activation_ack_response_received"}
RevisionSuccessor(old, new) ==
  new.revision = old.revision + (IF new.status \in Answers THEN 1 ELSE 0)

(* A local time that went back and a fence no longer fresh are refused here too: time is not in
   this module, and either is one of the writes that throw. *)
ValidSuccessor(old, new) ==
  /\ new.generation = old.generation + 1
  /\ ~IsOver(old)
  /\ RevisionSuccessor(old, new)
  /\ MonotonicTuple(old, new)
  /\ IF IsTerminal(new) THEN new.last = old.last
     ELSE Rank(new.status) = Rank(old.last) + 1

----
(* The writers. *)

(* advance, and the progress of the reconciler and of the coordinator. *)
Advanced(r, status, changes) ==
  changes @@ [status |-> status, last |-> status, failure |-> None] @@ Data(r)

(* A terminal record drops the tokens and keeps the rest. *)
Closed(r, status, code) ==
  [status |-> status, failure |-> code, claimToken |-> None,
   activationToken |-> None] @@ Data(r)

RejectionCode(status) ==
  CASE status = "handoff_claim_starting" -> "claim_rejected"
    [] status = "proof_submit_starting" -> "proof_rejected"
    [] status = "activation_ack_starting" -> "ack_rejected"

Kinds == {"claim", "proof", "ack"}
From == [claim |-> "accepted", proof |-> "login_completed",
         ack |-> "credential_durable"]
Fence == [claim |-> "handoff_claim_starting", proof |-> "proof_submit_starting",
          ack |-> "activation_ack_starting"]
Answer == [claim |-> "handoff_claimed", proof |-> "proof_prepared",
           ack |-> "activation_ack_response_received"]
RequestField == [claim |-> "claimRequest", proof |-> "proofRequest",
                 ack |-> "ackRequest"]

(* What the hook of a prepared request adds. *)
FenceChanges(kind, request) == RequestField[kind] :> request

(* What the answer adds, to the flow and to the reconciler alike. *)
ClaimChanges(revision) ==
  [revision |-> revision, claimToken |-> "token", claimExpires |-> "time"]
ProofChanges(r, revision) ==
  [revision |-> revision, activationToken |-> "token",
   activationExpires |-> "time",
   activation |-> [operation |-> "operation", credential |-> 2,
                   source |-> 1, digest |-> r.login]]
AckChanges(revision) == [revision |-> revision]
AnswerChanges(kind, r, revision) ==
  CASE kind = "claim" -> ClaimChanges(revision)
    [] kind = "proof" -> ProofChanges(r, revision)
    [] kind = "ack" -> AckChanges(revision)

ReceiptChanges(r) ==
  [receipt |-> [revision |-> r.activation.credential,
                operation |-> r.activation.operation,
                digest |-> r.activation.digest]]

(* What the flow's own steps add. *)
FlowChanges(r, status) ==
  CASE status = "login_completed" -> [login |-> "digest"]
    [] status = "credential_durable" -> ReceiptChanges(r)
    [] status = "activation_acked" -> [f \in Tokens |-> None]
    [] OTHER -> <<>>

(* The reconciler's capability repeats what it inspected; the store takes it only for the record
   it has. *)
CapabilityFields == {"generation", "claimRequest", "proofRequest", "ackRequest", "activation"}
Capability(r, successor) ==
  [bound |-> [f \in CapabilityFields |-> r[f]], successor |-> successor]
CapabilityFits(capability, r) ==
  /\ \A f \in CapabilityFields : capability.bound[f] = r[f]
  /\ ValidData(capability.successor)

(* From proof_prepared on, only the exact activation lease fence lets an outcome be recorded. *)
LeaseOf(r) == [activation |-> r.activation, token |-> r.activationToken]
ExactLease(r) == lease = LeaseOf(r)
CapabilityAccepted(capability, r) ==
  CapabilityFits(capability, r) /\ (Rank(r.last) >= 9 => ExactLease(r))

----
(* The settlement's and the orchestrator's validators: the settlement expects exactly what it
   asked for. *)

ExactSuccessor(expected, desired, actual) ==
  actual.generation = expected.generation + 1 /\ Data(actual) = desired

AllowedProgress(status) ==
  CASE \E k \in Kinds : status = Fence[k] ->
          {Answer[k] : k \in {k \in Kinds : status = Fence[k]}}
    [] status = "app_server_starting" -> {"app_server_started"}
    [] status = "login_starting" -> {"waiting_user"}
    [] status = "credential_promotion_starting" -> {"credential_durable"}
    [] OTHER -> {}
AllowedTerminal(status) ==
  CASE status \in {"handoff_claim_starting", "activation_ack_starting"} -> {"failed"}
    [] status = "proof_submit_starting" -> {"failed", "cancelled"}
    [] status \in {"app_server_starting", "login_starting"} -> {"interrupted"}
    [] OTHER -> {}

RecoveryFits(old, new) ==
  \/ new = old /\ ~OutcomeUnknown(old)
  \/ /\ new.generation = old.generation + 1
     /\ new.status \in AllowedTerminal(old.status) \cup AllowedProgress(old.status)
     /\ RevisionSuccessor(old, new)
     /\ IsTerminal(new) => new.last = old.last
     /\ \A f \in Tuple \ Tokens : KeptOnce(old, new, f)
SettlementFits(old, new) ==
  \/ new = old
  \/ /\ old.status = "activation_ack_response_received"
     /\ new = Stamped(old, Advanced(old, "activation_acked",
                                    [f \in Tokens |-> None]))
CancelledFits(old, new) == new = Stamped(old, Closed(old, "cancelled", None))

----
Idle == [by |-> "none", at |-> "idle", held |-> None, err |-> None]

Init ==
  /\ disk = None
  /\ outbox = [k \in Kinds |-> None]
  /\ server = [revision |-> 1, did |-> [k \in Kinds |-> None], open |-> TRUE]
  /\ lease = None
  /\ run = Idle
  /\ refused = FALSE
  /\ budget = [faults |-> 0, restarts |-> 0]

Fault == budget.faults < MaxFaults /\ budget' = [budget EXCEPT !.faults = @ + 1]
NoFault == UNCHANGED budget

At(by, at) == run.by \in by /\ run.at = at
Goto(at, held) == run' = [run EXCEPT !.at = at, !.held = held, !.err = None]

(* An error ends the flow in its failure handler, the start, the cancellation with the result
   "failed". What the failure handler throws nobody handles. *)
Throws(err) ==
  run' = CASE run.by = "flow" /\ run.at # "closing" ->
                  [run EXCEPT !.at = "failed", !.err = err]
           [] run.by = "boot" -> [run EXCEPT !.at = "stuck"]
           [] OTHER -> [run EXCEPT !.by = "flow", !.at = "parked"]

(* One write: checked, compared with the record the writer holds, replaced whole. A write that
   throws may have done either. The writer judges what the store answers. *)
Writes(data, next, allowed, fits(_, _)) ==
  LET held == run.held
      new == Stamped(held, data)
      valid == allowed /\ ValidData(data) /\ ValidSuccessor(held, new)
  IN  \/ /\ disk = held /\ valid /\ fits(held, new)
         /\ disk' = new /\ Goto(next, new) /\ NoFault /\ UNCHANGED refused
      \/ /\ disk = held /\ ~(valid /\ fits(held, new))
         /\ disk' = (IF valid THEN new ELSE disk)
         /\ Throws("local") /\ refused' = TRUE /\ NoFault
      \/ /\ disk # held
         /\ Throws("local") /\ NoFault /\ UNCHANGED <<disk, refused>>
      \/ /\ disk = held /\ valid /\ Fault /\ disk' \in {disk, new}
         /\ Throws("local") /\ UNCHANGED refused
Unjudged(old, new) == TRUE
Transition(data, next) == Writes(data, next, TRUE, Unjudged)
Judged(data, next, allowed, fits(_, _)) ==
  IF run.by = "cancel" THEN Writes(data, next, allowed, fits)
                       ELSE Writes(data, next, allowed, Unjudged)

----
(* The flow. *)

(* The handoff names the revision the session has at the server. *)
Create ==
  /\ disk = None /\ run = Idle /\ server.open
  /\ disk' = InitialRecord(server.revision)
  /\ run' = [by |-> "flow", at |-> "go", held |-> disk', err |-> None]
  /\ NoFault /\ UNCHANGED <<outbox, server, lease, refused>>

(* The steps that make no request. The lease starts before its activation is recorded and is
   removed after it was acknowledged. *)
Step ==
  /\ At({"flow"}, "go")
  /\ run.held.status \notin {From[k] : k \in Kinds}
  /\ LET status == Ladder(Rank(run.held.status) + 1)
     IN  /\ Transition(Advanced(run.held, status, FlowChanges(run.held, status)),
                       IF status = "activation_acked" THEN "complete" ELSE "go")
         /\ lease' = IF status = "activation_pending"
                     THEN LeaseOf(run.held) ELSE lease
  /\ UNCHANGED <<outbox, server>>

(* Any step of the login or promotion can fail; a quit refuses the next one. *)
StepFails ==
  /\ At({"flow"}, "go") /\ Fault
  /\ \E err \in {"local", "shutdown"} : Throws(err)
  /\ UNCHANGED Outside

(* The identity of a request hashes what is sent: the time and, in a proof, the session's revision.
   The flow writes its time with three digits of milliseconds; the transport takes none that ends
   with a zero, and its errors leave the session as it is. *)
TimeAccepted(kind, lastDigit) == kind = "claim" \/ lastDigit # 0
Prepare(kind, lastDigit) ==
  /\ At({"flow"}, "go") /\ run.held.status = From[kind]
  /\ IF TimeAccepted(kind, lastDigit) /\ outbox[kind] = None
     THEN /\ outbox' = [outbox EXCEPT ![kind] = [made |-> budget.restarts,
                                              revision |-> run.held.revision]]
          /\ Goto("hook", run.held)
     ELSE Throws("transport") /\ UNCHANGED outbox
  /\ NoFault /\ UNCHANGED <<disk, server, lease, refused>>

KindOf(r) == CHOOSE k \in Kinds : r.last \in {From[k], Fence[k], Answer[k]}
Kind == IF run.held.last = "activation_acked" THEN "ack" ELSE KindOf(run.held)

(* The record names the request before it is sent. *)
Fenced == Advanced(run.held, Fence[Kind], FenceChanges(Kind, outbox[Kind]))
SendsFirst ==      \* seeds a fault
    /\ At({"flow"}, "hook") /\ Goto("post", run.held) /\ NoFault
    /\ UNCHANGED Outside
PreparedHook ==
  /\ At({"flow"}, "hook") /\ Transition(Fenced, "post")
  /\ UNCHANGED Others

(* The server carries out a request once, in an open session, and answers the same request alike.
   An answer that is lost leaves the journal. *)
Serves(kind) ==
  \/ /\ server.did[kind] = None /\ server.open
     /\ server' = [server EXCEPT !.did[kind] = outbox[kind], !.revision = @ + 1]
  \/ server.did[kind] = outbox[kind] /\ UNCHANGED server
Rejects(kind) ==
  /\ server.did[kind] # outbox[kind] /\ (~server.open \/ server.did[kind] # None)
  /\ UNCHANGED server
AnswerRevision == [claim |-> 2, proof |-> 3, ack |-> 4]

Exchange(kind, answered) ==
  \/ Serves(kind) /\ NoFault /\ Goto(answered, run.held)
  \/ /\ Rejects(kind) /\ NoFault
     /\ IF run.by = "flow" THEN Throws("deterministic") ELSE Goto("rejected", run.held)
  \/ (Serves(kind) \/ UNCHANGED server) /\ Fault /\ Throws("transport")
Post ==
  /\ At({"flow"}, "post") /\ Exchange(Kind, "answered")
  /\ UNCHANGED <<disk, outbox, lease, refused>>

(* The answer's revision is the next one, for the flow as for a recovery. *)
Records(next, fits(_, _)) ==
  LET data == Advanced(run.held, Answer[Kind],
                       AnswerChanges(Kind, run.held, AnswerRevision[Kind]))
  IN  Judged(data, next,
             /\ AnswerRevision[Kind] = run.held.revision + 1
             /\ run.by # "flow" => CapabilityAccepted(Capability(run.held, data), disk),
             fits)
Answered ==
  /\ At({"flow"}, "answered")
  /\ Records(IF Kind = "ack" THEN "go" ELSE "complete", RecoveryFits)
  /\ UNCHANGED Others

(* The request is forgotten once the record has its answer. *)
Complete ==
  /\ At({"flow"}, "complete")
  /\ \/ /\ outbox' = [outbox EXCEPT ![Kind] = None]
        /\ Goto(IF IsOver(run.held) THEN "parked" ELSE "go", run.held)
        /\ lease' = IF run.held.status = "activation_acked" THEN None ELSE lease
        /\ NoFault
     \/ Throws("local") /\ Fault /\ UNCHANGED <<outbox, lease>>
  /\ UNCHANGED <<disk, server, refused>>

(* handleFlowFailure: the record is read again, unless the read fails too. *)
Refresh ==
  /\ At({"flow"}, "failed")
  /\ \/ run' = [run EXCEPT !.at = "closing", !.held = disk] /\ NoFault
     \/ run' = [run EXCEPT !.at = "closing"] /\ Fault
  /\ UNCHANGED Outside

(* A request this process prepared keeps its session open, and so does an effect that may have
   been made. *)
PendingRequest ==
  \E k \in Kinds :
      /\ outbox[k] # None /\ outbox[k].made = budget.restarts
      /\ run.held.last \in {From[k], Fence[k], Answer[k]}
Closes ==
  /\ ~IsOver(run.held)
  /\ \/ run.err = "deterministic"
     \/ /\ run.err # "transport" /\ ~PendingRequest
        /\ run.held.status \notin {"credential_promotion_starting",
                                   "activation_ack_response_received"}
        /\ run.held.status = "activation_ack_starting" => run.err = "shutdown"
HandleFlowFailure ==
  /\ At({"flow"}, "closing")
  /\ IF Closes
     THEN Transition(IF run.err = "shutdown"
                     THEN Closed(run.held, "interrupted", "shutdown")
                     ELSE Closed(run.held, "failed", "local_failure"),
                     IF run.err = "deterministic" THEN "complete" ELSE "parked")
     ELSE Goto("parked", run.held) /\ NoFault /\ UNCHANGED <<disk, refused>>
  /\ UNCHANGED Others

----
(* Recovery and settlement, of a cancellation and of a start. *)

(* A cancellation waits for the flow to stop, and reads the record. *)
Cancel ==
  /\ At({"flow"}, "parked") \/ At({"flow"}, "go")
  /\ ~IsOver(disk)
  /\ run' = [by |-> "cancel", at |-> "recover", held |-> disk, err |-> None]
  /\ NoFault /\ UNCHANGED Outside

(* A start inspects the journaled request the status names, never that of an ACK not yet fenced.
   It has to be the one the record names, a proof with the record's revision; one not yet named
   is taken up. *)
Inspected(r) ==
  {k \in Kinds : outbox[k] # None /\
      IF IsTerminal(r) THEN r.last = Fence[k]
      ELSE r.status \in {Fence[k], Answer[k]} \cup
               (IF k = "ack" THEN {"activation_acked"} ELSE {From[k]})}
IsArtifact(kind, r) ==
  /\ r[RequestField[kind]] \in {None, outbox[kind]}
  /\ kind = "proof" => outbox[kind].revision = r.revision
Adopt ==
  /\ At({"boot"}, "adopt")
  /\ LET kinds == Inspected(run.held)
     IN  IF \E k \in kinds : ~IsArtifact(k, run.held)
         THEN Throws("local") /\ refused' = TRUE /\ NoFault /\ UNCHANGED disk
         ELSE IF \E k \in kinds : run.held.status = From[k] THEN Transition(Fenced, "recover")
         ELSE Goto("recover", run.held) /\ NoFault /\ UNCHANGED <<disk, refused>>
  /\ UNCHANGED Others

Recovering == run.by \in {"boot", "cancel"} /\ run.at = "recover"
RecoverNothing ==
  /\ Recovering /\ ~OutcomeUnknown(run.held)
  /\ Goto("settle", run.held) /\ NoFault
  /\ UNCHANGED Outside

(* The exact request is sent again; another one, or none, is a conflict. *)
SameRequest == outbox[Kind] = run.held[RequestField[Kind]]
RecoverRequest ==
  /\ Recovering /\ run.held.status \in {Fence[k] : k \in Kinds}
  /\ IF SameRequest
     THEN Exchange(Kind, "recovered")
     ELSE Throws("local") /\ NoFault /\ UNCHANGED server
  /\ UNCHANGED <<disk, outbox, lease, refused>>

(* Every other successor is checked like the one of a request. *)
Successor(data, next) ==
  Judged(data, next, CapabilityAccepted(Capability(run.held, data), disk), RecoveryFits)
RecoverAnswer ==
  /\ At({"boot", "cancel"}, "recovered") /\ Records("settle", RecoveryFits)
  /\ UNCHANGED Others
RecoverRejection ==
  /\ At({"boot", "cancel"}, "rejected")
  /\ Successor(Closed(run.held, "failed", RejectionCode(run.held.status)), "settle")
  /\ UNCHANGED Others

(* The process that ran the App Server is never observed. *)
RecoverAppServer ==
  /\ Recovering /\ run.held.status \in {"app_server_starting", "login_starting"}
  /\ Successor(Closed(run.held, "interrupted", "restarted"), "settle")
  /\ UNCHANGED Others
RecoverPromotion ==
  /\ Recovering /\ run.held.status = "credential_promotion_starting"
  /\ Successor(Advanced(run.held, "credential_durable", ReceiptChanges(run.held)), "settle")
  /\ UNCHANGED Others

(* An answered ACK is carried through; what is reconciled is forgotten; a session only its own
   process could go on with is closed. *)
Interrupted == {"accepted", "app_server_started", "waiting_user"}
SettleAck ==
  /\ At({"boot", "cancel"}, "settle")
  /\ run.held.status = "activation_ack_response_received"
  /\ IF ExactLease(run.held)
     THEN LET data == Advanced(run.held, "activation_acked", [f \in Tokens |-> None])
              Exactly(old, new) ==
                  /\ ExactSuccessor(old, data, new)
                  /\ run.by = "cancel" => SettlementFits(old, new)
          IN  Writes(data, "settled", TRUE, Exactly)
     ELSE Throws("local") /\ refused' = TRUE /\ NoFault /\ UNCHANGED disk
  /\ UNCHANGED Others
Interrupt ==
  /\ At({"boot"}, "settle") /\ run.held.status \in Interrupted
  /\ Transition(Closed(run.held, "interrupted", "restarted"), "settled")
  /\ UNCHANGED Others
Settle ==
  /\ At({"boot", "cancel"}, "settle")
  /\ run.held.status # "activation_ack_response_received"
  /\ ~(run.by = "boot" /\ run.held.status \in Interrupted)
  /\ Goto("settled", run.held) /\ NoFault
  /\ UNCHANGED Outside

Reconciled ==
  {k \in Kinds : run.held.last = Fence[k] \/ run.held.last = Answer[k]
                 \/ (k = "ack" /\ run.held.last = "activation_acked")}
Settled ==
  /\ At({"boot", "cancel"}, "settled")
  /\ \/ /\ outbox' = [k \in Kinds |-> IF k \in Reconciled THEN None ELSE outbox[k]]
        /\ lease' = IF run.held.status = "activation_acked" THEN None ELSE lease
        /\ NoFault
        /\ run' = CASE run.by = "cancel" /\ ~IsOver(run.held) -> [run EXCEPT !.at = "cancel"]
                    [] run.by = "boot" /\ run.held.status \in Resumable ->
                          [run EXCEPT !.by = "flow", !.at = "go"]
                    [] OTHER -> [run EXCEPT !.by = "flow", !.at = "parked"]
     \/ Throws("local") /\ Fault /\ UNCHANGED <<outbox, lease>>
  /\ UNCHANGED <<disk, server, refused>>

Terminalize ==
  /\ At({"cancel"}, "cancel")
  /\ Judged(Closed(run.held, "cancelled", None), "cancelled", TRUE, CancelledFits)
  /\ UNCHANGED Others
Cancelled ==
  /\ At({"cancel"}, "cancelled")
  /\ run' = [run EXCEPT !.by = "flow", !.at = "parked"]
  /\ NoFault /\ UNCHANGED Outside

(* The process ends anywhere; the next one starts from the stored record. *)
Restart ==
  /\ disk # None /\ budget.restarts < MaxRestarts
  /\ run' = [by |-> "boot", at |-> "adopt", held |-> disk, err |-> None]
  /\ budget' = [budget EXCEPT !.restarts = @ + 1]
  /\ UNCHANGED Outside

(* The session is cancelled or expires at the server. *)
ServerCloses ==
  /\ server.open /\ server.did["ack"] = None /\ disk # None
  /\ server' = [server EXCEPT !.open = FALSE, !.revision = @ + 1]
  /\ NoFault /\ UNCHANGED <<disk, outbox, lease, run, refused>>

Next ==
  \/ Create \/ Step \/ StepFails \/ (\E k \in Kinds, d \in {0, 1} : Prepare(k, d)) \/ PreparedHook
  \/ Post \/ Answered \/ Complete \/ Refresh \/ HandleFlowFailure
  \/ Cancel \/ Adopt \/ RecoverNothing \/ RecoverRequest \/ RecoverAnswer
  \/ RecoverRejection \/ RecoverAppServer \/ RecoverPromotion
  \/ SettleAck \/ Interrupt \/ Settle \/ Settled \/ Terminalize \/ Cancelled
  \/ Restart \/ ServerCloses

Spec == Init /\ [][Next]_vars

----
(* What every writer builds the store takes, and what the store then holds the settlement, the
   cancellation and the next start take, all but one record: the proof answered, its request
   still in the journal. *)
NothingIsRefused ==
  refused => disk.status = "proof_prepared" /\ outbox["proof"] # None

(* A start goes on with whatever an earlier process wrote, unless a write of its own failed. *)
EveryStartGoesOn == budget.faults = 0 => ~At({"boot"}, "stuck")

(* Whatever request the server carried out, the record names exactly that one from before it was
   sent: a restart can always repeat it. *)
EffectsAreFenced ==
  \A k \in Kinds :
      server.did[k] # None => disk[RequestField[k]] = server.did[k]

(* The record's revision is behind the server's by the server's end of the session and by one
   answer at most, never in a closed record: that would be an effect nobody accounts for. *)
Unrecorded == {k \in Kinds : server.did[k] # None /\ Rank(disk.last) < Rank(Answer[k])}
ClosedIsAccounted ==
  disk # None =>
      /\ server.revision = disk.revision + Cardinality(Unrecorded)
                              + (IF server.open THEN 0 ELSE 1)
      /\ \A k \in Unrecorded : disk.status = Fence[k]

(* Nothing stops a flow short of the activation when nothing failed, the session is open at the
   server and nobody cancels it. *)
HappyPathCompletes ==
  budget.faults = 0 /\ budget.restarts = 0 /\ server.open =>
      ~(At({"flow"}, "parked") /\ ~IsOver(disk))
====
