---- MODULE DesktopSession ----
(* One Codex authorization on the desktop, from accepted handoff to activated credential: the
   orchestrator's flow, its failures, the trusted cancellation, shutdown, and what the next start
   does. Session record, outbound journal, lease fence and binding are registers a write replaces
   whole or not at all (RecordStore); one that throws may have done either. What runs between two
   awaits is atomic. One thread advances the session: the flow, the start, or a cancellation that
   waited for the flow to end. *)
EXTENDS Naturals, FiniteSets, Sequences

CONSTANTS
    MaxFaults,      \* bound on failed effects, lost and rejected requests
    MaxRestarts     \* bound on crashes and on quits

BoundsAssumption == {MaxFaults, MaxRestarts} \subseteq Nat

VARIABLES
    record,     \* the durable session record: last progress, terminal status
    outbox,     \* the request journal's record of each kind of request
    tree,       \* staging directory, phase of the promotion journal
    lease,      \* the durable activation lease fence
    bound,      \* the executor binding is active
    accepted,   \* requests the server carried out
    up,         \* the main process
    run,        \* the thread: whose, where, on which request, its error
    mem,        \* the orchestrator's instance of the session
    cancel,     \* the cancellation's fence and where its operation is
    budget      \* faults and restarts so far

disk == <<record, outbox, tree, lease, bound>>
vars == <<record, outbox, tree, lease, bound, accepted, up, run, mem, cancel, budget>>
Outside == <<disk, accepted, up, mem, cancel>>

----

Progress == <<"accepted", "handoff_claim_starting", "handoff_claimed",
    "app_server_starting", "app_server_started", "login_starting",
    "waiting_user", "login_completed", "proof_submit_starting",
    "proof_prepared", "activation_pending", "credential_promotion_starting",
    "credential_durable", "activation_ack_starting",
    "activation_ack_response_received", "activation_acked">>
EffectStarting == {"handoff_claim_starting", "app_server_starting",
    "login_starting", "proof_submit_starting", "credential_promotion_starting",
    "activation_ack_starting"}
Resumable == {"handoff_claimed", "login_completed", "proof_prepared",
              "activation_pending", "credential_durable"}

Index(status) == CHOOSE i \in DOMAIN Progress : Progress[i] = status
Reached(status) == record.last # "none" /\ Index(record.last) >= Index(status)
Ended == record.end # "no"
Over == Ended \/ record.last = "activation_acked"
EffectOutcomeUnknown == record.last \in EffectStarting /\ ~Ended

RequiresFreshLease == {"credential_promotion_starting", "activation_ack_starting"}

(* The successors of a live record: the next status, or a terminal. *)
Successor(status) == [record EXCEPT !.last = status]
ValidSuccessor(status) ==
  /\ ~Over
  /\ Index(status) = Index(record.last) + 1
  /\ status \in RequiresFreshLease => lease = "fresh"
Closed(status) == [record EXCEPT !.end = status]

(* The exact fence of the activation, fresh or not. *)
LeaseFenceHeld == lease \in {"fresh", "stale"}

----
(* The three requests: where each is made, the fence the journal's hook writes first, the status
   its answer gives. *)

Kinds == {"claim", "proof", "ack"}
Claim == [from |-> "accepted", fence |-> "handoff_claim_starting",
          answer |-> "handoff_claimed"]
Proof == [from |-> "login_completed", fence |-> "proof_submit_starting",
          answer |-> "proof_prepared"]
Ack == [from |-> "credential_durable", fence |-> "activation_ack_starting",
        answer |-> "activation_ack_response_received"]
Request == [claim |-> Claim, proof |-> Proof, ack |-> Ack]

(* A request without an answer pins the device's lane to itself. *)
LaneFree(kind) == \A k \in Kinds \ {kind} : outbox[k] # "prepared"

NoInstance == [pending |-> "none", staging |-> FALSE, app |-> "none",
               promoting |-> FALSE, ticker |-> "none"]
NoThread == [by |-> "none", at |-> "idle", kind |-> "none", err |-> "none"]
NoCancel == [fence |-> "none", op |-> "none"]

AppRunning == mem.app \in {"unproven", "ready", "waiting"}
StopApp(m) == [m EXCEPT !.app = IF AppRunning THEN "stopped" ELSE @]

Init ==
  /\ record = [last |-> "none", end |-> "no"]
  /\ outbox = [k \in Kinds |-> "none"]
  /\ tree = [staging |-> "none", promotion |-> "none"]
  /\ lease = "none"
  /\ bound = FALSE
  /\ accepted = {}
  /\ up = "ready"
  /\ run = NoThread
  /\ mem = NoInstance
  /\ cancel = NoCancel
  /\ budget = [faults |-> 0, restarts |-> 0]

----
Fault ==
  /\ budget.faults < MaxFaults
  /\ budget' = [budget EXCEPT !.faults = @ + 1]
NoFault == UNCHANGED budget

Stopping == up = "stopping"
Flow(at) == run.by = "flow" /\ run.at = at
Goto(at) == run' = [run EXCEPT !.at = at, !.kind = "none", !.err = "none"]
Proceeds(at) == Goto(at) /\ NoFault /\ UNCHANGED <<up, cancel>>

(* An error ends the flow in handleFlowFailure, the start of the process as failed, and a
   cancellation with the result "failed". *)
Throws(err) ==
  CASE run.by = "flow" ->
          /\ run' = [run EXCEPT !.at = "failed", !.err = err]
          /\ UNCHANGED <<up, cancel>>
    [] run.by = "boot" ->
          up' = "failed" /\ run' = NoThread /\ UNCHANGED cancel
    [] run.by = "cancel" ->
          /\ run' = [NoThread EXCEPT !.by = "flow", !.at = "parked"]
          /\ cancel' = [cancel EXCEPT !.op = "none"]
          /\ UNCHANGED up

(* assertEffectOpen: a shutdown or a committed cancellation refuses the next effect, a pending
   cancellation holds it. *)
EffectOpen == ~Stopping /\ cancel.fence = "none"
Steps == {"claim", "app_server_starting", "staging", "app", "login", "scan",
          "account", "measure", "login_completed", "recover", "proof", "lease",
          "promote", "promotion_starting", "renew", "ack", "bind"}
AssertEffectOpen ==
  /\ run.by = "flow" /\ run.at \in Steps
  /\ Stopping \/ cancel.fence = "committed"
  /\ Throws("local") /\ NoFault
  /\ UNCHANGED <<disk, accepted, mem>>
Effect(step) == Flow(step) /\ EffectOpen

(* advance: the transition of the record, or one that threw before or after the new record was
   durable. *)
Advances(status, next) ==
  /\ UNCHANGED <<outbox, tree, lease, bound, accepted>>
  /\ \/ /\ ~Stopping /\ ValidSuccessor(status)
        /\ record' = Successor(status)
        /\ Proceeds(next)
     \/ /\ Stopping \/ ~ValidSuccessor(status)
        /\ Throws("local") /\ NoFault /\ UNCHANGED record
     \/ /\ ~Stopping /\ ValidSuccessor(status) /\ Fault
        /\ record' \in {record, Successor(status)}
        /\ Throws("local")

Bootstrap ==
  /\ up = "ready" /\ run = NoThread /\ record.last = "none"
  /\ record' = [last |-> "accepted", end |-> "no"]
  /\ run' = [NoThread EXCEPT !.by = "flow", !.at = "claim"]
  /\ NoFault
  /\ UNCHANGED <<outbox, tree, lease, bound, accepted, up, mem, cancel>>

----
(* A request: journaled, fenced by the hook, sent, answered, completed. *)

(* The transport refuses a journaled request that is not the same, and a time the flow writes
   into a proof or an ACK whose milliseconds end with a zero. Errors of the lane, the identity or
   the journal are none of the transport's. *)
PrepareRequest(kind, timed) ==
  /\ Effect(kind)
  /\ UNCHANGED <<record, tree, lease, bound, accepted, mem>>
  /\ LET inTime == timed \/ kind = "claim"
         prepared == [outbox EXCEPT ![kind] = "prepared"]
     IN  \/ /\ inTime /\ LaneFree(kind) /\ outbox[kind] = "none"
            /\ outbox' = prepared
            /\ run' = [run EXCEPT !.at = "hook", !.kind = kind]
            /\ NoFault /\ UNCHANGED <<up, cancel>>
         \/ /\ ~inTime \/ (LaneFree(kind) /\ outbox[kind] # "none")
            /\ Throws("transport") /\ NoFault /\ UNCHANGED outbox
         \/ /\ inTime /\ ~LaneFree(kind)
            /\ Throws("local") /\ NoFault /\ UNCHANGED outbox
         \/ /\ inTime /\ LaneFree(kind) /\ outbox[kind] = "none"
            /\ Throws("local") /\ Fault /\ outbox' \in {outbox, prepared}

PreparedHook ==
  /\ Flow("hook")
  /\ mem' = [mem EXCEPT !.pending = run.kind]
  /\ Advances(Request[run.kind].fence, "post")

(* The server carries out a request once and answers a repetition alike; the journal keeps it. *)
Serves(kind) ==
  /\ accepted' = accepted \cup {kind}
  /\ outbox' = [outbox EXCEPT ![kind] = "ok"]
Rejects(kind) ==
  /\ kind \notin accepted
  /\ outbox' = [outbox EXCEPT ![kind] = "rejected"]
  /\ UNCHANGED accepted
Loses(kind) ==
  /\ accepted' \in {accepted, accepted \cup {kind}}
  /\ UNCHANGED outbox

Post ==
  /\ Flow("post")
  /\ UNCHANGED <<record, tree, lease, bound, mem>>
  /\ \/ Serves(mem.pending) /\ Proceeds("answered")
     \/ Rejects(mem.pending) /\ Fault /\ Throws("deterministic")
     \/ Loses(mem.pending) /\ (Fault \/ (Stopping /\ NoFault)) /\ Throws("transport")

Answered ==
  /\ Flow("answered") /\ UNCHANGED mem
  /\ Advances(Request[mem.pending].answer,
              IF mem.pending = "ack" THEN "bind" ELSE "complete")

CompletePending ==
  /\ Flow("complete")
  /\ UNCHANGED <<record, tree, lease, bound, accepted>>
  /\ \/ /\ outbox' = [outbox EXCEPT ![mem.pending] = "none"]
        /\ mem' = [mem EXCEPT !.pending = "none"]
        /\ Proceeds(CASE mem.pending = "claim" -> "app_server_starting"
                      [] mem.pending = "proof" -> "lease"
                      [] mem.pending = "ack" -> "remove_ack")
     \/ Fault /\ Throws("local") /\ UNCHANGED <<outbox, mem>>

----
(* The login. *)

AppServerStarting ==
  /\ Effect("app_server_starting") /\ UNCHANGED mem
  /\ Advances("app_server_starting", "staging")

(* A directory without its owner's fence is partial: it is neither adopted nor quarantined
   (CredentialTree). *)
ReserveStaging ==
  /\ Effect("staging")
  /\ UNCHANGED <<record, outbox, lease, bound, accepted, mem>>
  /\ \/ /\ tree.staging \in {"none", "live"}
        /\ tree' = IF tree.staging = "none" THEN [tree EXCEPT !.staging = "partial"] ELSE tree
        /\ Proceeds("fencing")
     \/ Fault /\ Throws("local") /\ UNCHANGED tree

CreateStaging ==
  /\ Flow("fencing")
  /\ UNCHANGED <<record, outbox, lease, bound, accepted>>
  /\ \/ /\ tree' = [tree EXCEPT !.staging = "live"]
        /\ mem' = [mem EXCEPT !.staging = TRUE]
        /\ Proceeds("app")
     \/ /\ Fault /\ Throws("local") /\ UNCHANGED mem
        /\ tree' \in {tree, [tree EXCEPT !.staging = "live"]}

(* A start that throws may leave one. *)
StartAppServer ==
  /\ Effect("app")
  /\ UNCHANGED <<disk, accepted>>
  /\ \/ mem' = [mem EXCEPT !.app = "ready"]
        /\ Proceeds("started")
     \/ mem' = [mem EXCEPT !.app = "unproven"] /\ Fault /\ Throws("local")

AppServerStarted ==
  /\ Flow("started") /\ UNCHANGED mem
  /\ Advances("app_server_started", "login_starting")
LoginStarting ==
  /\ Flow("login_starting") /\ UNCHANGED mem
  /\ Advances("login_starting", "login")

StartBrowserLogin ==
  /\ Effect("login")
  /\ UNCHANGED <<disk, accepted>>
  /\ \/ /\ mem.app = "ready"
        /\ mem' = [mem EXCEPT !.app = "waiting"]
        /\ Proceeds("waiting_user")
     \/ Fault /\ Throws("local") /\ UNCHANGED mem

WaitingUser ==
  /\ Flow("waiting_user") /\ UNCHANGED mem
  /\ Advances("waiting_user", "scan")

(* waitForLogin *)
WaitForLogin ==
  /\ Effect("scan") /\ Goto("waiting") /\ NoFault
  /\ UNCHANGED Outside
UserLogsIn ==
  /\ Flow("waiting") /\ mem.app = "waiting" /\ Goto("account") /\ NoFault
  /\ UNCHANGED Outside
LoginEnds ==
  /\ Flow("waiting") /\ UNCHANGED <<disk, accepted, mem>>
  /\ Throws("local")
  /\ (mem.app = "stopped" /\ NoFault) \/ (mem.app = "waiting" /\ Fault)

ReadAccount ==
  /\ Effect("account")
  /\ UNCHANGED <<disk, accepted>>
  /\ \/ mem' = StopApp(mem) /\ Proceeds("measure")
     \/ Fault /\ Throws("local") /\ UNCHANGED mem
Measure ==
  /\ Effect("measure")
  /\ UNCHANGED <<disk, accepted, mem>>
  /\ \/ tree.staging = "live" /\ Proceeds("login_completed")
     \/ Fault /\ Throws("local")
LoginCompleted ==
  /\ Effect("login_completed") /\ UNCHANGED mem
  /\ Advances("login_completed", "proof")

----
(* The activation lease, the promotion of the staging, the ACK. *)

(* A resumed flow adopts the staging of the session again. *)
RecoverStaging ==
  /\ Effect("recover")
  /\ UNCHANGED <<disk, accepted>>
  /\ IF tree.staging = "live"
     THEN /\ mem' = [mem EXCEPT !.staging = TRUE]
          /\ Proceeds(IF record.last = "login_completed" THEN "proof" ELSE "lease")
     ELSE Throws("local") /\ NoFault /\ UNCHANGED mem

(* A renewal answered fresh is in the fence before it is completed; the next recovers a lost one.
   What the request throws is the transport's; a pinned lane, the fence store, a renewal not
   fresh and requireFresh throw locally, the last two with the fence written. *)
Renews(ticker, next) ==
  /\ UNCHANGED <<record, outbox, tree, bound, accepted>>
  /\ LET free == \A k \in Kinds : outbox[k] # "prepared"
         taken == free /\ lease # "removed"
     IN  \/ /\ taken
            /\ lease' = "fresh"
            /\ mem' = [mem EXCEPT !.ticker = ticker]
            /\ Proceeds(next)
         \/ /\ free /\ Fault /\ Throws("transport")
            /\ mem' = [mem EXCEPT !.ticker = "stopped"] /\ UNCHANGED lease
         \/ /\ IF taken THEN Fault ELSE NoFault
            /\ Throws("local")
            /\ lease' \in {lease} \cup (IF taken THEN {"fresh", "stale"} ELSE {})
            /\ mem' = [mem EXCEPT !.ticker = IF lease' = "fresh" THEN ticker ELSE "stopped"]

StartLease ==
  /\ Effect("lease") /\ mem.ticker = "none"
  /\ Renews("running", CASE record.last = "proof_prepared" -> "activation_pending"
                         [] record.last = "activation_pending" -> "promote"
                         [] OTHER -> "renew")
ActivationPending ==
  /\ Flow("activation_pending") /\ UNCHANGED mem
  /\ Advances("activation_pending", "promote")

(* The timer renews every ten seconds; a failed renewal ends it, and time expires what is not
   renewed. *)
TickFails ==
  /\ mem.ticker = "running" /\ up \in {"ready", "stopping"}
  /\ mem' = [mem EXCEPT !.ticker = "stopped"] /\ Fault
  /\ UNCHANGED <<disk, accepted, up, run, cancel>>
Expire ==
  /\ lease = "fresh" /\ mem.ticker # "running"
  /\ lease' = "stale"
  /\ UNCHANGED <<record, outbox, tree, bound, accepted, up, run, mem, cancel, budget>>

Promote ==
  /\ Effect("promote") /\ UNCHANGED mem
  /\ Advances("credential_promotion_starting", "promoting")

(* promoteStaging: the operation is journaled, the staging moved and sealed (CredentialTree).
   What throws may have done part of it. *)
Journaled == [tree EXCEPT !.promotion = "prepared"]
Moved == [staging |-> "moved", promotion |-> "verified"]
PromoteStaging ==
  /\ run.at \in {"promoting", "moving"} /\ run.by = "flow"
  /\ mem' = [mem EXCEPT !.promoting = TRUE]
  /\ UNCHANGED <<record, outbox, lease, bound, accepted>>
  /\ LET journaling == run.at = "promoting"
         done == IF journaling THEN Journaled ELSE Moved
     IN  \/ /\ tree' = done
            /\ Proceeds(IF journaling THEN "moving" ELSE "durable")
         \/ /\ tree' \in {tree, done} /\ Fault /\ Throws("local")
CredentialDurable ==
  /\ Flow("durable") /\ UNCHANGED mem
  /\ Advances("credential_durable", "renew")

(* stopAndRenewFresh: the ACK is made on a lease renewed just before. *)
StopAndRenewFresh == Effect("renew") /\ Renews("stopped", "ack")

(* The flow, the start and the cancellation settle; only the flow asks whether effects are open. *)
Settles(step) == run.at = step /\ run.by # "none"
Settlement(next) ==
  \/ Proceeds(next)
  \/ Fault /\ Throws("local")

ActivateBinding ==
  /\ Settles("bind")
  /\ run.by = "flow" => EffectOpen
  /\ IF run.by = "flow" \/ LeaseFenceHeld
     THEN Settlement("acknowledge")
     ELSE Throws("local") /\ NoFault
  /\ bound' = (bound \/ run'.at = "acknowledge")
  /\ UNCHANGED <<record, outbox, tree, lease, accepted, mem>>
CompleteAfterAcknowledgement ==
  /\ Settles("acknowledge")
  /\ IF tree.promotion \in {"verified", "acknowledged", "removed"}
     THEN Settlement("acked")
     ELSE Throws("local") /\ NoFault
  /\ tree' = IF run'.at = "acked" /\ tree.promotion = "verified"
             THEN [tree EXCEPT !.promotion = "acknowledged"] ELSE tree
  /\ UNCHANGED <<record, outbox, lease, bound, accepted, mem>>
ActivationAcked ==
  /\ Settles("acked") /\ UNCHANGED mem
  /\ IF run.by = "flow" THEN Advances("activation_acked", "complete")
     ELSE /\ Settlement("complete_pair")
          /\ record' \in IF run'.at = "complete_pair" THEN {Successor("activation_acked")}
                         ELSE {record, Successor("activation_acked")}
          /\ UNCHANGED <<outbox, tree, lease, bound, accepted>>
(* completeRequestIfPresent *)
CompletePair ==
  /\ Settles("complete_pair")
  /\ LET kind == CHOOSE k \in Kinds :
                      record.last \in {Request[k].fence, Request[k].answer,
                          IF k = "ack" THEN "activation_acked" ELSE Request[k].fence}
     IN  /\ Settlement(IF record.last = "activation_acked" THEN "remove_ack" ELSE "settled")
         /\ outbox' = IF run'.at \in {"remove_ack", "settled"}
                      THEN [outbox EXCEPT ![kind] = "none"] ELSE outbox
  /\ UNCHANGED <<record, tree, lease, bound, accepted, mem>>
RemoveAcknowledged ==
  /\ Settles("remove_ack")
  /\ IF tree.promotion \in {"acknowledged", "removed"}
     THEN Settlement("remove_lease")
     ELSE Throws("local") /\ NoFault
  /\ tree' = IF run'.at = "remove_lease" THEN [tree EXCEPT !.promotion = "removed"] ELSE tree
  /\ UNCHANGED <<record, outbox, lease, bound, accepted, mem>>
RemoveLease ==
  /\ Settles("remove_lease")
  /\ Settlement(IF run.by = "flow" THEN "ended" ELSE "settled")
  /\ LET done == run'.at \in {"ended", "settled"}
     IN  /\ lease' = IF done THEN "removed" ELSE lease
         /\ mem' = IF done /\ run.by = "flow" THEN [mem EXCEPT !.ticker = "none"] ELSE mem
  /\ UNCHANGED <<record, outbox, tree, bound, accepted>>

----
(* A flow that failed. *)

Deterministic == run.err = "deterministic" /\ mem.pending # "none"

IgnoresPending ==   \* seeds a fault
    \/ Over
    \/ cancel.fence = "committed"
    \/ ~Deterministic /\ run.err = "transport"
    \/ record.last \in {"credential_promotion_starting",
                        "activation_ack_response_received"}
(* What handleFlowFailure leaves to the next start or to a cancellation. *)
LeftAsItIs ==
  \/ Over
  \/ cancel.fence = "committed"
  \/ ~Deterministic /\ (run.err = "transport" \/ mem.pending # "none")
  \/ record.last \in {"credential_promotion_starting",
                      "activation_ack_response_received"}
  \/ ~Deterministic /\ ~Stopping /\ record.last = "activation_ack_starting"

TerminalStatus == IF Stopping THEN "interrupted" ELSE "failed"

HandleFlowFailure ==
  /\ Flow("failed") /\ cancel.fence # "pending"
  /\ run' = IF LeftAsItIs THEN [run EXCEPT !.at = "parked"]
            ELSE [run EXCEPT !.at = "cleanup", !.kind = TerminalStatus]
  /\ NoFault
  /\ UNCHANGED Outside

(* reconcileLocalFailure: lease runtime and App Server stop, then the promotion, once attempted,
   or else the staging goes to quarantine. *)
PromotionAttempted ==
  mem.promoting \/ record.last = "credential_promotion_starting" \/ Reached("credential_durable")
QuarantinedPromotion(t) ==
  IF t.promotion \in {"verified", "quarantined"}
  THEN {[t EXCEPT !.promotion = "quarantined"]} ELSE {}
QuarantinedStaging(t, present) ==
  IF t.staging \in {"live", "quarantined"} THEN {[t EXCEPT !.staging = "quarantined"]}
  ELSE IF t.staging = "none" /\ ~present THEN {t} ELSE {}
Quarantined(t) ==
  IF PromotionAttempted THEN QuarantinedPromotion(t)
  ELSE QuarantinedStaging(t, mem.staging)

KeepsServer(m) == [m EXCEPT !.ticker = IF @ = "running" THEN "stopped" ELSE @] \* seeds a fault
Halted(m) == [StopApp(m) EXCEPT !.ticker = IF @ = "running" THEN "stopped" ELSE @]

(* The fence a cancellation removes. *)
CancellationLeaseFenceRequired == Reached("activation_pending")
LeaseRemovable == lease # "none" \/ ~CancellationLeaseFenceRequired
RemovedLease == IF lease = "none" THEN "none" ELSE "removed"

(* The cleanup of a failed flow or a cancellation, and of a cancellation whose recovery throws. *)
Cleanup ==
  /\ run.at \in {"cleanup", "rescue"}
  /\ LET cancels == run.by = "cancel"
         fails == IF cancels THEN Throws("local")
                  ELSE run' = [run EXCEPT !.at = "parked"] /\ UNCHANGED <<up, cancel>>
     IN  \/ /\ mem' = IF cancels THEN [Halted(mem) EXCEPT !.ticker = "none"] ELSE Halted(mem)
            /\ tree' \in Quarantined(tree)
            /\ cancels => LeaseRemovable
            /\ lease' = IF cancels THEN RemovedLease ELSE lease
            /\ IF run.at = "rescue" THEN fails
               ELSE /\ run' = [run EXCEPT !.at = IF cancels /\ Ended THEN "concluded" ELSE "terminalize"]
                    /\ UNCHANGED <<up, cancel>>
            /\ NoFault
         \/ /\ Quarantined(tree) = {} \/ (cancels /\ ~LeaseRemovable)
            /\ mem' = Halted(mem) /\ tree' \in {tree} \cup Quarantined(tree)
            /\ fails /\ NoFault /\ UNCHANGED lease
         \/ /\ Fault /\ fails
            /\ mem' \in {mem, Halted(mem)} /\ tree' \in {tree} \cup Quarantined(tree)
            /\ UNCHANGED lease
  /\ UNCHANGED <<record, outbox, bound, accepted>>

Terminalize ==
  /\ run.at = "terminalize"
  /\ LET cancels == run.by = "cancel"
         status == IF cancels THEN "cancelled" ELSE run.kind
     IN  \/ /\ record' = Closed(status)
            /\ run' = [run EXCEPT !.at = IF cancels THEN "concluded"
                          ELSE IF Deterministic THEN "complete_rejected" ELSE "ended"]
            /\ NoFault /\ UNCHANGED <<up, cancel>>
         \/ /\ record' \in {record, Closed(status)} /\ Fault
            /\ IF cancels THEN Throws("local")
               ELSE run' = [run EXCEPT !.at = "parked"] /\ UNCHANGED <<up, cancel>>
  /\ UNCHANGED <<outbox, tree, lease, bound, accepted, mem>>

CompleteRejected ==
  /\ Flow("complete_rejected")
  /\ \/ /\ outbox' = [outbox EXCEPT ![mem.pending] = "none"]
        /\ mem' = [mem EXCEPT !.pending = "none"]
        /\ run' = [run EXCEPT !.at = "ended"] /\ NoFault
     \/ Fault /\ run' = [run EXCEPT !.at = "parked"] /\ UNCHANGED <<outbox, mem>>
  /\ UNCHANGED <<record, tree, lease, bound, accepted, up, cancel>>

----
(* The trusted cancellation: a fence that holds the flow, committed once the target is read
   again; the flow's end; recovery, settlement, cleanup, the terminal record. *)

CancelTrusted ==
  /\ up = "ready" /\ run.by = "flow" /\ cancel.op = "none"
  /\ cancel' = [fence |-> IF cancel.fence = "none" THEN "pending" ELSE cancel.fence,
                op |-> "reading"]
  /\ NoFault /\ UNCHANGED <<disk, accepted, up, run, mem>>

(* The target names the session revision it was issued for: any read can find it stale. *)
CommitCancelFence ==
  /\ cancel.op = "reading" /\ ~Stopping /\ ~Over
  /\ cancel' = [fence |-> "committed",
                op |-> IF record.last = "waiting_user" THEN "stop" ELSE "await"]
  /\ NoFault /\ UNCHANGED <<disk, accepted, up, run, mem>>
ReleasePendingCancelFence ==
  /\ cancel.op = "reading"
  /\ cancel' = [fence |-> IF cancel.fence = "pending" THEN "none" ELSE cancel.fence,
                op |-> "none"]
  /\ NoFault /\ UNCHANGED <<disk, accepted, up, run, mem>>

AwaitsTheUser ==    \* seeds a fault
    /\ cancel.op = "stop" /\ cancel' = [cancel EXCEPT !.op = "await"]
    /\ NoFault /\ UNCHANGED <<disk, accepted, up, run, mem>>
StopForCancel ==
  /\ cancel.op = "stop"
  /\ \/ /\ mem.app = "waiting"
        /\ mem' = StopApp(mem) /\ cancel' = [cancel EXCEPT !.op = "await"] /\ NoFault
     \/ /\ IF mem.app = "waiting" THEN Fault ELSE NoFault
        /\ cancel' = [cancel EXCEPT !.op = "none"] /\ UNCHANGED mem
  /\ UNCHANGED <<disk, accepted, up, run>>

AwaitFlow ==
  /\ cancel.op = "await" /\ run.at \in {"parked", "ended"}
  /\ cancel' = [cancel EXCEPT !.op = "working"]
  /\ run' = [NoThread EXCEPT !.by = "cancel", !.at = "reconcile"]
  /\ NoFault /\ UNCHANGED <<disk, accepted, up, mem>>

(* A settled cancellation: an activated session keeps its credential. *)
SettledByCancel ==
  /\ run.by = "cancel" /\ run.at = "settled"
  /\ run' = [run EXCEPT !.at = IF record.last = "activation_acked" THEN "concluded" ELSE "cleanup"]
  /\ NoFault /\ UNCHANGED Outside
Conclude ==
  /\ run.by = "cancel" /\ run.at = "concluded"
  /\ run' = [NoThread EXCEPT !.by = "flow", !.at = "ended"]
  /\ cancel' = [cancel EXCEPT !.op = "none"]
  /\ NoFault /\ UNCHANGED <<disk, accepted, up, mem>>

----
(* Startup: adopt a request journaled before its fence, reconcile an effect whose outcome is
   unknown, settle, resume. A cancellation reconciles and settles by the same steps. *)

Launch ==
  /\ up = "off"
  /\ up' = "starting"
  /\ run' = [NoThread EXCEPT !.by = "boot", !.at = "adopt"]
  /\ NoFault /\ UNCHANGED <<disk, accepted, mem, cancel>>

(* The inspector looks for a request only at the statuses that name one, not at
   credential_durable. A proof left at proof_prepared is in conflict: it has the revision from
   before the answer (SessionRecord). *)
Adoptable(kind) ==
  ~Ended /\ kind # "ack" /\ record.last = Request[kind].from /\ outbox[kind] # "none"
ArtifactConflict == ~Ended /\ record.last = "proof_prepared" /\ outbox["proof"] # "none"
AdoptExistingArtifact ==
  /\ run.by = "boot" /\ run.at = "adopt"
  /\ \/ /\ ArtifactConflict
        /\ Throws("local") /\ NoFault /\ UNCHANGED record
     \/ \E kind \in Kinds :
            /\ Adoptable(kind)
            /\ \/ record' = Successor(Request[kind].fence)
                  /\ Proceeds("reconcile")
               \/ record' \in {record, Successor(Request[kind].fence)}
                  /\ Throws("local") /\ Fault
     \/ /\ ~ArtifactConflict /\ \A kind \in Kinds : ~Adoptable(kind)
        /\ Goto("reconcile") /\ NoFault /\ UNCHANGED <<record, up, cancel>>
  /\ UNCHANGED <<outbox, tree, lease, bound, accepted, mem>>

Reconciling == run.at = "reconcile"
Unfenced(kind) == EffectOutcomeUnknown /\ record.last = Request[kind].fence

(* A cancellation whose recovery throws first rescues what was promoted. *)
RecoveryThrows ==
  IF run.by = "cancel" /\ (mem.promoting \/ record.last = "credential_promotion_starting")
  THEN Goto("rescue") /\ UNCHANGED <<up, cancel>>
  ELSE Throws("local")

(* The request is sent again, or its journaled answer taken. *)
Replay(kind) ==
  /\ Reconciling /\ Unfenced(kind) /\ outbox[kind] = "prepared" /\ LaneFree(kind)
  /\ \/ Serves(kind) /\ NoFault /\ UNCHANGED <<up, run, cancel>>
     \/ Rejects(kind) /\ Fault /\ UNCHANGED <<up, run, cancel>>
     \/ Loses(kind) /\ (Fault \/ (Stopping /\ NoFault)) /\ RecoveryThrows
  /\ UNCHANGED <<record, tree, lease, bound, mem>>

(* The store writes the reconciler's successor; from proof_prepared on only while the
   activation's lease fence is there. *)
Reconciled(next, trees, guard) ==
  LET exact == guard /\ trees # {} /\ (Reached("proof_prepared") => LeaseFenceHeld)
  IN  /\ \/ /\ exact /\ tree' \in trees
            /\ record' = next /\ Proceeds("settle")
         \/ /\ ~exact /\ tree' \in {tree} \cup (IF guard THEN trees ELSE {})
            /\ UNCHANGED record /\ NoFault /\ RecoveryThrows
         \/ /\ exact /\ tree' \in {tree} \cup trees /\ record' \in {record, next}
            /\ record' = record \/ tree' \in trees
            /\ Fault /\ RecoveryThrows
      /\ UNCHANGED <<outbox, lease, bound, accepted, mem>>

RecoverRequest(kind, rejected) ==
  /\ Reconciling /\ Unfenced(kind) /\ (outbox[kind] = "prepared" => ~LaneFree(kind))
  /\ IF outbox[kind] = "rejected"
     THEN Reconciled(Closed("failed"), rejected, TRUE)
     ELSE Reconciled(Successor(Request[kind].answer), {tree}, outbox[kind] = "ok")
RecoverClaim == Replay("claim") \/ RecoverRequest("claim", {tree})
RecoverProof == Replay("proof") \/ RecoverRequest("proof", QuarantinedStaging(tree, TRUE))
RecoverActivationAck == Replay("ack") \/ RecoverRequest("ack", QuarantinedPromotion(tree))

RecoverAppServer ==
  /\ Reconciling /\ ~Ended /\ record.last \in {"app_server_starting", "login_starting"}
  /\ Reconciled(Closed("interrupted"), QuarantinedStaging(tree, FALSE), TRUE)

RecoverPromotion ==
  /\ Reconciling /\ ~Ended /\ record.last = "credential_promotion_starting"
  /\ Reconciled(Successor("credential_durable"), {Moved},
                tree.promotion \in {"prepared", "verified"})

NothingToReconcile ==
  /\ Reconciling /\ ~EffectOutcomeUnknown
  /\ Goto("settle") /\ NoFault /\ UNCHANGED Outside

(* The start closes what only its own process could go on with. *)
InterruptAtStartup ==
  /\ run.by = "boot" /\ run.at = "settle" /\ ~Ended
  /\ record.last \in {"accepted", "app_server_started", "waiting_user"}
  /\ LET trees == IF record.last = "accepted" THEN {tree} ELSE QuarantinedStaging(tree, TRUE)
     IN  \/ /\ tree' \in trees /\ record' = Closed("interrupted")
            /\ Proceeds("resume")
         \/ /\ tree' \in {tree} \cup trees /\ record' \in {record, Closed("interrupted")}
            /\ record' = record \/ tree' \in trees
            /\ IF trees = {} THEN NoFault ELSE Fault
            /\ Throws("local")
  /\ UNCHANGED <<outbox, lease, bound, accepted, mem>>

OutboundReconciled ==
  \E k \in {"claim", "proof"} :
      record.last = IF Ended THEN Request[k].fence ELSE Request[k].answer
AckRejected == record.last = "activation_ack_starting" /\ Ended
SettleAs ==
  CASE record.last = "activation_ack_response_received" /\ ~Ended -> "bind"
    [] record.last = "activation_acked" \/ OutboundReconciled \/ AckRejected -> "complete_pair"
    [] OTHER -> "settled"
Settle ==
  /\ run.at = "settle"
  /\ run.by = "boot" => record.last \notin {"accepted", "app_server_started", "waiting_user"} \/ Ended
  /\ Goto(SettleAs) /\ NoFault
  /\ UNCHANGED Outside

ResumedAt ==
  CASE record.last = "handoff_claimed" -> "app_server_starting"
    [] record.last = "credential_durable" -> "lease"
    [] OTHER -> "recover"
Resume ==
  /\ run.by = "boot" /\ run.at \in {"settled", "resume"}
  /\ up' = "ready"
  /\ run' = IF Ended \/ record.last \notin Resumable THEN NoThread
            ELSE [NoThread EXCEPT !.by = "flow", !.at = ResumedAt]
  /\ NoFault /\ UNCHANGED <<disk, accepted, mem, cancel>>

----
(* Quit, crash, next start. *)

Restarts ==
  /\ budget.restarts < MaxRestarts
  /\ budget' = [budget EXCEPT !.restarts = @ + 1]

BeforeQuit ==
  /\ up = "ready" /\ up' = "stopping" /\ Restarts
  /\ UNCHANGED <<disk, accepted, run, mem, cancel>>
(* performShutdown waits for the trusted operations, stops the App Servers and the lease timers,
   and waits for the flows. *)
ShutdownAll ==
  /\ Stopping /\ cancel.op = "none" /\ Halted(mem) # mem
  /\ mem' = Halted(mem)
  /\ NoFault /\ UNCHANGED <<disk, accepted, up, run, cancel>>
Dead ==
  /\ up' = "off" /\ run' = NoThread /\ mem' = NoInstance /\ cancel' = NoCancel
  /\ UNCHANGED <<disk, accepted>>
Quit ==
  /\ Stopping /\ cancel.op = "none" /\ Halted(mem) = mem
  /\ run.at \in {"idle", "parked", "ended"}
  /\ NoFault /\ Dead
(* After a failed start the runtime stays unavailable until the next one. *)
Relaunch == up = "failed" /\ NoFault /\ Dead
Crash == up \notin {"off", "failed"} /\ Restarts /\ Dead

----

FlowStep ==
  \/ AssertEffectOpen \/ (\E k \in Kinds, timed \in BOOLEAN : PrepareRequest(k, timed))
  \/ PreparedHook \/ Post \/ Answered \/ CompletePending
  \/ AppServerStarting \/ ReserveStaging \/ CreateStaging \/ StartAppServer \/ AppServerStarted
  \/ LoginStarting \/ StartBrowserLogin \/ WaitingUser \/ WaitForLogin \/ LoginEnds
  \/ ReadAccount \/ Measure \/ LoginCompleted \/ RecoverStaging \/ StartLease
  \/ ActivationPending \/ Promote \/ PromoteStaging \/ CredentialDurable
  \/ StopAndRenewFresh \/ ActivateBinding \/ CompleteAfterAcknowledgement
  \/ ActivationAcked \/ CompletePair \/ RemoveAcknowledged \/ RemoveLease
  \/ HandleFlowFailure \/ Cleanup \/ Terminalize \/ CompleteRejected
BootStep ==
  \/ Launch \/ AdoptExistingArtifact \/ RecoverClaim \/ RecoverProof
  \/ RecoverActivationAck \/ RecoverAppServer \/ RecoverPromotion \/ NothingToReconcile
  \/ InterruptAtStartup \/ Settle \/ Resume
CancelStep ==
  \/ CommitCancelFence \/ ReleasePendingCancelFence \/ StopForCancel \/ AwaitFlow
  \/ SettledByCancel \/ Conclude
QuitStep == ShutdownAll \/ Quit \/ Relaunch

Next ==
  \/ Bootstrap \/ FlowStep \/ BootStep \/ CancelStep \/ QuitStep
  \/ UserLogsIn \/ TickFails \/ Expire
  \/ CancelTrusted \/ BeforeQuit \/ Crash

Spec == Init /\ [][Next]_vars
(* What the program does next is done; the user, time and faults owe nothing. *)
FairSpec == Spec /\ WF_vars(FlowStep) /\ WF_vars(BootStep) /\ WF_vars(CancelStep) /\ WF_vars(QuitStep)

----
(* A credential the server activated stays: the desktop then quarantines no promotion, ends the
   session as nothing but activated, and binds only then. Left out is the cleanup of a
   cancellation whose own recovery failed (README, observations). *)
ActivatedIsKept ==
  [][/\ "ack" \in accepted =>
          /\ record'.end = "no"
          /\ tree'.promotion = "quarantined" =>
                  tree.promotion = "quarantined" \/ run.at = "rescue"
     /\ bound' => "ack" \in accepted]_vars

(* The credential the server is told to activate is in place. *)
AckedIsInPlace ==
  [][accepted' \ accepted = {"ack"} => tree.promotion = "verified"]_vars

(* A session that ended without success leaves nothing ambiguous and nothing at work: no staging
   or promotion in place; no request of unknown outcome, only one that failed between the journal
   and the record; after a failure or a cancellation no App Server or lease timer, after a
   cancellation no lease fence. (That request pins the lane, a failed session's fence stays:
   README, observations.) *)
TerminalIsClean ==
  Ended =>
      /\ tree.staging \notin {"live", "partial"} /\ tree.promotion \in {"none", "quarantined"}
      /\ record.end # "interrupted" => ~AppRunning /\ mem.ticker # "running"
      /\ \A k \in Kinds : outbox[k] = "prepared" =>
              k \notin accepted /\ record.last = Request[k].from
      /\ record.end = "cancelled" => ~LeaseFenceHeld

(* A cancellation that waits for the flow while the flow waits for the fence is answered; a quit
   that waits for both is done. *)
CancelIsAnswered == []<>(cancel.op = "none")
ShutdownFinishes == []<>~Stopping

====
