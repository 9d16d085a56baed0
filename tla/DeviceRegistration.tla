---- MODULE DeviceRegistration ----
(* The identity of a desktop and its first registration: the files of the identity store, the
   pending request, the registration client, the runtime that starts, cancels and resets it, the
   heartbeat that signs with the same counter. A store operation is one action and a sequence of
   disk images, one per durable write. It reaches the last, or a write fails after any of the
   others; a Crash may follow at once: a restart may find every prefix of the writes. *)
EXTENDS Naturals, FiniteSets, Sequences

CONSTANTS
    Bearers,        \* tokens of host sessions
    None,           \* an absent file, session or value
    Damaged,        \* a file that fails its validation
    MaxDevices,     \* bound on generated keys
    MaxNonces,      \* bound on signed requests
    MaxFaults       \* bound on failed writes, lost answers, crashes, damage

BoundsAssumption == {MaxDevices, MaxNonces, MaxFaults} \subseteq Nat
MarksAssumption == None \notin Bearers \cup {Damaged}

VARIABLES
    disk,       \* identity.sec, sequence.sec, registration-pending.sec, reset marker
    client,     \* DesktopDeviceRegistrationClient.registerOnce
    runtime,    \* DesktopDeviceTrustRuntime: what it reports, its reset
    session,    \* the stored host session's bearer
    server,     \* accepted registrations, requests on the wire, verdicts
    sent,       \* every signed request that left Main
    made,       \* keys and nonces generated so far
    faults

vars == <<disk, client, runtime, session, server, sent, made, faults>>
Outside == <<disk, session, server, sent, made, faults>>

Nonces == 1..MaxNonces

Resting == [pc |-> "idle", live |-> FALSE, identity |-> None, pending |-> None,
            bearer |-> None]
Started == [Resting EXCEPT !.pc = "identity", !.live = TRUE]
Stopped == [status |-> "down", reset |-> "off", target |-> None, awaited |-> FALSE,
            beating |-> FALSE, clearing |-> FALSE]

Init ==
  /\ disk = [identity |-> None, sequence |-> None, pending |-> None, marker |-> None]
  /\ client = Resting
  /\ runtime = Stopped
  /\ session = None
  /\ server = [accepted |-> {}, wire |-> {}, verdict |-> [n \in Nonces |-> "none"]]
  /\ sent = {}
  /\ made = [devices |-> 0, nonces |-> 0]
  /\ faults = 0

----
(* The identity store. A result is the code it throws (None: none) and the disk images it goes
   through. *)

Last(s) == s[Len(s)]
Result(code, images) == [code |-> code, images |-> images]
After(result) == Last(result.images)
(* What follows a result that did not throw. *)
Then(result, next(_)) ==
  IF result.code # None THEN result
  ELSE LET more == next(After(result))
       IN  Result(more.code, result.images \o Tail(more.images))

(* The two high-water files, written one after the other. *)
Advance(d, identity) ==
  LET first == [d EXCEPT !.identity = identity]
  IN  Result(None, <<d, first, [first EXCEPT !.sequence =
                          [device |-> identity.device, seq |-> identity.seq]]>>)

(* A durable marker authorizes the removal of the identity it names, and of the pending request;
   it is removed last. *)
RecoverRegistrationReset(d) ==
  CASE d.marker = None -> Result(None, <<d>>)
    [] d.marker # None /\ d.identity # None /\ d.identity.device # d.marker ->
          Result(None, <<d, [d EXCEPT !.marker = None]>>)
    [] d.marker # None /\ d.identity # None /\ d.identity.device = d.marker
          /\ d.identity.status # "unregistered" -> Result("forbidden", <<d>>)
    [] OTHER ->
          LET bare == [d EXCEPT !.pending = None]
              gone == [bare EXCEPT !.identity = None]
              clean == [gone EXCEPT !.sequence = None]
          IN  Result(None, <<d, bare, gone, clean, [clean EXCEPT !.marker = None]>>)

HighWater(identity, sequence) ==
  IF sequence.seq > identity.seq THEN sequence.seq ELSE identity.seq

(* loadOrCreate after the reset: create, complete or reconcile the files. *)
LoadFiles(d) ==
  CASE d.identity = None /\ d.sequence # None -> Result("corrupt", <<d>>)
    [] d.identity = None /\ d.sequence = None ->
          Advance(d, [device |-> made.devices + 1, seq |-> 0, status |-> "unregistered"])
    [] d.identity # None /\ d.sequence = None ->
          Result(None, <<d, After(Advance(d, d.identity))>>)
    [] OTHER ->
          LET high == HighWater(d.identity, d.sequence)
          IN  IF d.sequence.device # d.identity.device THEN Result("corrupt", <<d>>)
              ELSE IF high = d.identity.seq /\ high = d.sequence.seq
              THEN Result(None, <<d>>)
              ELSE Advance(d, [d.identity EXCEPT !.seq = high])
LoadOrCreate(d) == Then(RecoverRegistrationReset(d), LoadFiles)

(* The keys LoadOrCreate generates. *)
Creates(d) ==
  LET reset == RecoverRegistrationReset(d)
  IN  reset.code = None /\ After(reset).identity = None /\ After(reset).sequence = None
Generates(n) ==
  LET k == n + IF Creates(disk) THEN 1 ELSE 0
  IN  made.devices + k <= MaxDevices /\ made' = [made EXCEPT !.devices = @ + k]

(* A store operation that runs to its end, and one whose write fails. *)
Done(result) == disk' = After(result) /\ UNCHANGED faults
Torn(result) ==
  /\ faults < MaxFaults
  /\ faults' = faults + 1
  /\ \E k \in 1..Len(result.images) - 1 : disk' = result.images[k]

(* The pending store: loading, creating and the request's owner. *)
LoadedPending(d) ==
  Result(IF d.pending = Damaged THEN "recovery_required" ELSE None, <<d>>)
NotPersisted(d, pending) == Result(None, <<d>>)  \* seeds a fault
CreatePending(d, pending) ==
  CASE d.pending = None -> Result(None, <<d, [d EXCEPT !.pending = pending]>>)
    [] d.pending = pending -> Result(None, <<d>>)
    [] OTHER -> Result("recovery_required", <<d>>)
BelongsTo(pending, identity) == pending.device = identity.device

(* prepareRegistrationRequest: the pending request, built for the identity the client saw, is
   durable before either high-water file moves. *)
PrepareRegistrationRequest(d, pending) ==
  LET create(e) == CreatePending(e, pending)
      advance(e) == Advance(e, [e.identity EXCEPT !.seq = 1])
  IN  IF \/ d.identity.status # "unregistered"
         \/ d.identity.seq # 0
         \/ ~BelongsTo(pending, d.identity)
      THEN Result("recovery_required", <<d>>)
      ELSE Then(Then(Result(None, <<d>>), create), advance)

RepairRegistrationSequence(d, pending) ==
  IF \/ d.identity.status # "unregistered"
     \/ pending.device # d.identity.device
     \/ d.identity.seq > 1
  THEN Result("recovery_required", <<d>>)
  ELSE IF d.identity.seq = 1 THEN Result(None, <<d>>)
  ELSE Advance(d, [d.identity EXCEPT !.seq = 1])

MarkRegistration(d, device) ==
  IF d.identity.device # device THEN Result("corrupt", <<d>>)
  ELSE Result(None, <<d, [d EXCEPT !.identity.status = "registered"]>>)

ClearRegistrationRecovery(d, device) ==
  IF d.pending = None \/ LoadedPending(d).code # None THEN LoadedPending(d)
  ELSE IF d.pending.device # device THEN Result("recovery_required", <<d>>)
  ELSE Result(None, <<d, [d EXCEPT !.pending = None]>>)

ResetRegistrationRecovery(d, device, owner) ==
  LET clear(e) == ClearRegistrationRecovery(e, owner)
  IN  IF d.identity.device # device THEN Result("recovery_required", <<d>>)
      ELSE IF d.identity.status # "unregistered" THEN Result("forbidden", <<d>>)
      ELSE Then(Then(Result(None, <<d, [d EXCEPT !.marker = device]>>), clear),
                RecoverRegistrationReset)

----
(* The runtime: one registration at a time, and what it reports of it. *)

Reported(code) ==
  CASE code = "cancelled" -> "cancelled"
    [] code = "recovery_required" -> "recovery_required"
    [] OTHER -> "failed"

(* The registration in flight ends: a cancelled one reports nothing. *)
Ended(status, beating) ==
  /\ client' = Resting
  /\ runtime' = [runtime EXCEPT !.status = IF client.live THEN status ELSE @,
                                !.beating = @ \/ (client.live /\ beating),
                                !.awaited = FALSE]
Fail(code) == Ended(Reported(code), FALSE)
Succeed == Ended("registered", TRUE)
(* The client goes on from a store operation, or fails with it. *)
Runs(result, next) ==
  \/ Done(result) /\ IF result.code # None THEN Fail(result.code) ELSE next
  \/ Torn(result) /\ Fail("storage")

(* assertActive after an await: a cancelled registration goes no further. *)
Goto(next) == IF client.live THEN client' = next /\ UNCHANGED runtime
                             ELSE Fail("cancelled")
At(pc) == client.pc = pc

(* ensureRegistration joins the registration in flight, if there is one. *)
EnsureRegistration ==
  /\ runtime.status # "down"
  /\ At("idle")
  /\ client' = Started
  /\ runtime' = [runtime EXCEPT !.status = "registering"]

(* With a stored session Main registers at once. *)
ResumeAfterStartup ==
  /\ runtime.status = "down"
  /\ IF session = None
     THEN runtime' = [runtime EXCEPT !.status = "idle"] /\ UNCHANGED client
     ELSE runtime' = [runtime EXCEPT !.status = "registering"] /\ client' = Started
  /\ UNCHANGED Outside

(* The renderer saves a host session: notifySessionSaved. *)
SaveSession(bearer) ==
  /\ runtime.status # "down"
  /\ ~runtime.clearing
  /\ session # bearer
  /\ session' = bearer
  /\ IF At("idle") THEN EnsureRegistration ELSE UNCHANGED <<client, runtime>>
  /\ UNCHANGED <<disk, server, sent, made, faults>>

Ensure == EnsureRegistration /\ UNCHANGED Outside

(* The registration is cancelled first, the stored session goes some awaits later. *)
CancelAutomaticRegistration ==
  /\ runtime.status # "down"
  /\ session # None
  /\ ~runtime.clearing
  /\ client' = [client EXCEPT !.live = FALSE]
  /\ runtime' = [runtime EXCEPT !.status = "cancelled", !.beating = FALSE,
                                !.clearing = TRUE]
  /\ UNCHANGED Outside
ClearSession ==
  /\ runtime.clearing
  /\ session' = None
  /\ runtime' = [runtime EXCEPT !.clearing = FALSE]
  /\ UNCHANGED <<disk, client, server, sent, made, faults>>

(* resetRegistrationRecovery: look at the identity, ... *)
ResetBegin ==
  /\ runtime.status = "recovery_required"
  /\ runtime.reset = "off"
  /\ LET load == LoadOrCreate(disk)
     IN  /\ Generates(0)
         /\ \/ /\ Done(load)
               /\ load.code = None
               /\ After(load).identity.status = "unregistered"
               /\ runtime' = [runtime EXCEPT !.reset = "load",
                                  !.target = After(load).identity.device]
            \/ Torn(load) /\ UNCHANGED runtime
  /\ UNCHANGED <<client, session, server, sent>>

(* ... load the pending request and cancel the registration in flight, ... *)
ResetCancel ==
  /\ runtime.reset = "load"
  /\ IF LoadedPending(disk).code # None
     THEN runtime' = [runtime EXCEPT !.reset = "off", !.target = None] /\ UNCHANGED client
     ELSE /\ client' = [client EXCEPT !.live = FALSE]
          /\ runtime' = [runtime EXCEPT !.reset = "rotate", !.awaited = ~At("idle")]
  /\ UNCHANGED Outside

(* ... wait for it, replace the identity and register the new one. *)
ResetRotate ==
  /\ runtime.reset = "rotate"
  /\ ~runtime.awaited
  /\ Generates(1)
  /\ LET start == LoadOrCreate(disk)
         rotate(d) == ResetRegistrationRecovery(d, runtime.target, runtime.target)
         fresh(d) == Advance(d, [device |-> made'.devices, seq |-> 0,
                                 status |-> "unregistered"])
         result == Then(Then(start, rotate), fresh)
         off == [runtime EXCEPT !.reset = "off", !.target = None]
     IN  \/ /\ Done(result)
            /\ IF result.code # None THEN runtime' = off /\ UNCHANGED client
               ELSE IF At("idle")
               THEN runtime' = [off EXCEPT !.status = "registering"] /\ client' = Started
               ELSE runtime' = [off EXCEPT !.status = "idle"] /\ UNCHANGED client
         \/ Torn(result) /\ runtime' = off /\ UNCHANGED client
  /\ UNCHANGED <<session, server, sent>>

----
(* registerOnce, await by await. *)

ReadIdentity ==
  /\ At("identity")
  /\ Generates(0)
  /\ LET load == LoadOrCreate(disk)
     IN  Runs(load, Goto([client EXCEPT !.pc = "pending", !.identity = After(load).identity]))
  /\ UNCHANGED <<session, server, sent>>

LoadPending ==
  /\ At("pending")
  /\ LET registered == client.identity.status = "registered"
         next(pc) == Goto([client EXCEPT !.pc = pc, !.pending = disk.pending])
     IN  IF LoadedPending(disk).code # None THEN Fail(LoadedPending(disk).code)
         ELSE IF ~registered \/ ~client.live THEN next("bearer")
         ELSE IF disk.pending = None THEN Succeed
         ELSE IF BelongsTo(disk.pending, client.identity) THEN next("leftover")
         ELSE Fail("recovery_required")
  /\ UNCHANGED Outside

LoadBearer ==
  /\ At("bearer")
  /\ IF session = None THEN Fail("session")
     ELSE IF client.pending = None
     THEN Goto([client EXCEPT !.pc = "challenge", !.bearer = session])
     ELSE IF client.pending.bearer # session THEN Fail("recovery_required")
     ELSE Goto([client EXCEPT !.pc = "repair", !.bearer = session])
  /\ UNCHANGED Outside

(* postJson: a timeout or a broken connection. *)
Unanswered ==
  /\ client.live
  /\ faults < MaxFaults
  /\ faults' = faults + 1
  /\ Fail("transport")

Challenge ==
  /\ At("challenge")
  /\ \/ Goto([client EXCEPT !.pc = "prepare"]) /\ UNCHANGED faults
     \/ Unanswered
  /\ UNCHANGED <<disk, session, server, sent, made>>

Prepare ==
  /\ At("prepare")
  /\ made.nonces < MaxNonces
  /\ LET k == IF Creates(disk) THEN 1 ELSE 0
     IN  /\ made.devices + k <= MaxDevices
         /\ made' = [made EXCEPT !.nonces = @ + 1, !.devices = @ + k]
  /\ LET request == [device |-> client.identity.device, bearer |-> client.bearer,
                     nonce |-> made'.nonces]
         prepare(d) == PrepareRegistrationRequest(d, request)
         result == IF client.live THEN Then(LoadOrCreate(disk), prepare)
                   ELSE Result("cancelled", <<disk>>)
         sends == client' = [client EXCEPT !.pc = "post", !.pending = request]
                    /\ UNCHANGED runtime
     IN  Runs(result, sends)
  /\ UNCHANGED <<session, server, sent>>

(* replayPending: the counters catch up with the request. *)
Repair ==
  /\ At("repair")
  /\ Generates(0)
  /\ LET repair(d) == RepairRegistrationSequence(d, client.pending)
         result == IF ~BelongsTo(client.pending, client.identity)
                   THEN Result("recovery_required", <<disk>>)
                   ELSE Then(LoadOrCreate(disk), repair)
     IN  Runs(result, Goto([client EXCEPT !.pc = "post"]))
  /\ UNCHANGED <<session, server, sent>>

Post ==
  /\ At("post")
  /\ IF ~client.live THEN Fail("cancelled") /\ UNCHANGED <<server, sent>>
     ELSE /\ client' = [client EXCEPT !.pc = "answer"]
          /\ server' = [server EXCEPT !.wire = @ \cup {client.pending},
                                      !.verdict[client.pending.nonce] = "none"]
          /\ sent' = sent \cup {[device |-> client.pending.device, seq |-> 1,
                                 nonce |-> client.pending.nonce]}
          /\ UNCHANGED runtime
  /\ UNCHANGED <<disk, session, made, faults>>

(* The server accepts a device's first request, repeats its answer to it, refuses any other. *)
RegisterDevice(m) ==
  /\ m \in server.wire
  /\ LET request == [device |-> m.device, nonce |-> m.nonce]
         others == {a \in server.accepted : a.device = m.device /\ a # request}
     IN  \/ /\ others = {}
            /\ server' = [server EXCEPT !.wire = @ \ {m},
                             !.accepted = @ \cup {request}, !.verdict[m.nonce] = "accepted"]
            /\ UNCHANGED faults
         \/ /\ request \notin server.accepted
            /\ server' = [server EXCEPT !.wire = @ \ {m}, !.verdict[m.nonce] = "rejected"]
            /\ IF others # {} THEN UNCHANGED faults
               ELSE faults < MaxFaults /\ faults' = faults + 1
  /\ UNCHANGED <<disk, client, runtime, session, sent, made>>

(* The wait ends; the request may still arrive. *)
Answer ==
  /\ At("answer")
  /\ LET verdict == server.verdict[client.pending.nonce]
     IN  \/ verdict = "accepted" /\ Goto([client EXCEPT !.pc = "mark"]) /\ UNCHANGED faults
         \/ verdict = "rejected" /\ Fail("rejected") /\ UNCHANGED faults
         \/ ~client.live /\ Fail("cancelled") /\ UNCHANGED faults
         \/ Unanswered
  /\ UNCHANGED <<disk, session, server, sent, made>>

Mark ==
  /\ At("mark")
  /\ Generates(0)
  /\ LET mark(d) == MarkRegistration(d, client.identity.device)
         result == Then(LoadOrCreate(disk), mark)
     IN  Runs(result, Goto([client EXCEPT !.pc = "clear"]))
  /\ UNCHANGED <<session, server, sent>>

(* The pending request goes once the identity says registered, by the run that registered it or
   by a later one ("leftover"). *)
Clear ==
  /\ At("clear") \/ At("leftover")
  /\ LET cleared == Result(None, <<disk, [disk EXCEPT !.pending = None]>>)
         result == IF disk.pending = None THEN Result(None, <<disk>>)
                   ELSE IF disk.pending = client.pending THEN cleared
                   ELSE Result("recovery_required", <<disk>>)
     IN  Runs(result, IF client.live THEN Succeed ELSE Fail("cancelled"))
  /\ UNCHANGED <<session, server, sent, made>>

----
(* signRequest for the heartbeat: the counter is durable in both files before the request leaves. *)
Heartbeat ==
  /\ runtime.beating
  /\ made.nonces < MaxNonces
  /\ made' = [made EXCEPT !.nonces = @ + 1]
  /\ LET load == LoadOrCreate(disk)
         sign(d) == Advance(d, [d.identity EXCEPT !.seq = @ + 1])
         result == Then(load, sign)
     IN  /\ load.code = None
         /\ After(load).identity.status = "registered"
         /\ After(load).identity.seq <= MaxNonces
         /\ \/ /\ Done(result)
               /\ sent' = sent \cup {[device |-> After(result).identity.device,
                              seq |-> After(result).identity.seq, nonce |-> made'.nonces]}
            \/ Torn(result) /\ UNCHANGED sent
  /\ UNCHANGED <<client, runtime, session, server>>

Crash ==
  /\ runtime.status # "down"
  /\ faults < MaxFaults
  /\ faults' = faults + 1
  /\ client' = Resting
  /\ runtime' = Stopped
  /\ UNCHANGED <<disk, session, server, sent, made>>

(* One of two equal high-water files is rolled back, or the pending request damaged. *)
FileFault ==
  /\ faults < MaxFaults
  /\ faults' = faults + 1
  /\ disk.identity # None /\ disk.sequence # None /\ disk.marker = None
  /\ \/ /\ disk.identity.seq = disk.sequence.seq /\ disk.identity.seq > 1
        /\ \/ disk' = [disk EXCEPT !.identity.seq = @ - 1]
           \/ disk' = [disk EXCEPT !.sequence.seq = @ - 1]
     \/ disk.pending \notin {None, Damaged} /\ disk' = [disk EXCEPT !.pending = Damaged]
  /\ UNCHANGED <<client, runtime, session, server, sent, made>>

Register == \/ ReadIdentity \/ LoadPending \/ LoadBearer \/ Challenge \/ Prepare
            \/ Repair \/ Post \/ Answer \/ Mark \/ Clear

Next ==
  \/ ResumeAfterStartup
  \/ \E b \in Bearers : SaveSession(b)
  \/ Ensure
  \/ CancelAutomaticRegistration
  \/ ClearSession
  \/ ResetBegin
  \/ ResetCancel
  \/ ResetRotate
  \/ Register
  \/ \E m \in server.wire : RegisterDevice(m)
  \/ Heartbeat
  \/ Crash
  \/ FileFault

Spec == Init /\ [][Next]_vars

----
(* A sequence number of a device signs one request, whatever crashed, was rolled back or was
   replayed (signRequest, prepareRegistrationRequest). *)
SequenceNeverReused ==
  \A a, b \in sent : a.device = b.device /\ a.seq = b.seq => a.nonce = b.nonce

(* What the server accepted the desktop can still find out: the identity says so, or the request
   it accepted is there to be replayed (unless the file was damaged, or a reset was authorized). *)
AcceptedIsRecoverable ==
  \A a \in server.accepted :
      disk.identity # None /\ disk.identity.device = a.device =>
          \/ disk.identity.status = "registered"
          \/ disk.marker = a.device
          \/ disk.pending = Damaged
          \/ disk.pending # None /\ disk.pending.device = a.device
                                 /\ disk.pending.nonce = a.nonce

(* The desktop believes it is registered only if the server accepted this key (submitPending). *)
RegisteredAtServer ==
  disk.identity # None /\ disk.identity.status = "registered" =>
      \E a \in server.accepted : a.device = disk.identity.device

(* A registered identity is never replaced: a reset that raced the late answer gives up. *)
RegisteredIsKept ==
  [][disk.identity # None /\ disk.identity.status = "registered"
      => /\ disk'.identity # None
         /\ disk'.identity.device = disk.identity.device
         /\ disk'.identity.status = "registered"]_vars
====
