---- MODULE TrustedCommands ----
(* The desktop's journal of verified inbound commands (desktop-trusted-command-journal.ts): a
   signed token is accepted once, its effect started once, its outcome recorded before the
   outcome is acknowledged, and the token-free tombstone kept until the token can no longer be
   replayed. An operation of the journal is one action: the store runs them one at a time. The
   files of one record are those of RecordStore; here a durable write either never starts, stays
   (and is rolled forward by the next repair) although the operation failed, or leaves a torn
   marker. The effect and its caller are outside: nothing in src calls the journal yet but
   its tests. *)
EXTENDS Integers, FiniteSets

CONSTANTS
    Tokens,         \* verified command tokens, told apart by their hash
    Keys,           \* semantic keys: audience, purpose, jti and operation
    Claims,         \* Claims[t]: key, jti, operation (or None) and exp of t
    Acks,           \* outbound acknowledgement references
    Margin,         \* DESKTOP_TRUSTED_COMMAND_TOMBSTONE_SAFETY_SECONDS
    MaxEntries,     \* MAX_ENTRY_COUNT
    DirectorySync,  \* whether the platform can sync a directory
    MaxTime, MaxFaults,
    None, Torn, Orphan

CommandAssumption ==
  /\ \A t \in Tokens : Claims[t].key \in Keys /\ Claims[t].exp \in Nat
  /\ {Margin, MaxEntries, MaxTime, MaxFaults} \subseteq Nat
  /\ DirectorySync \in BOOLEAN

VARIABLES
    records,    \* key -> its record, None, or files no repair accepts
    attempts,   \* key -> the attempt this process holds, and what came of it
    now,        \* the device clock the store reads
    latest,     \* the furthest that clock has been
    performed,  \* key -> how often its effect ran
    reported,   \* key -> what the server was told of it
    faults

vars == <<records, attempts, now, latest, performed, reported, faults>>

Outcomes == {"succeeded", "failed"}
Tombstones == {"acknowledged", "ack_rejected"}
Durable == {"effect_durable", "ack_prepared"} \cup Tombstones
Statuses == {"accepted", "effect_started", "indeterminate"} \cup Durable

(* "hash" names the token for good, "token" is the token while it is needed; "at" is the record's
   last timestamp. *)
Record == [hash : Tokens, token : Tokens \cup {None}, status : Statuses,
           mode : {"direct", "recovered", None}, outcome : Outcomes \cup {None},
           ack : Acks \cup {None}, at : 0..MaxTime]

(* validStateShape: which fields a status carries. *)
Shaped(r) ==
  /\ r \in Record
  /\ (r.token # None) = (r.status \notin Tombstones \cup {"indeterminate"})
  /\ (r.mode # None) = (r.status \in Durable)
  /\ (r.outcome # None) = (r.status \in Durable)
  /\ (r.ack # None) = (r.status \in Durable \ {"effect_durable"})

Accepted(t) == [hash |-> t, token |-> t, status |-> "accepted", mode |-> None,
                outcome |-> None, ack |-> None, at |-> now]

(* validSuccessor: the chain the repair rolls forward, one generation at a time. What an earlier
   status recorded stays. *)
Successor(r, s) ==
  /\ s.hash = r.hash
  /\ s.token = r.token \/ s.token = None
  /\ CASE r.status = "accepted" -> s.status = "effect_started"
       [] r.status = "effect_started" -> s.status \in {"effect_durable", "indeterminate"}
       [] r.status = "effect_durable" ->
              s.status = "ack_prepared" /\ s.mode = r.mode /\ s.outcome = r.outcome
       [] r.status = "ack_prepared" ->
              /\ s.status \in Tombstones
              /\ <<s.mode, s.outcome, s.ack>> = <<r.mode, r.outcome, r.ack>>
       [] OTHER -> FALSE

(* What a command token of its purpose names. *)
Key(t) == Claims[t].key
Operation(t) == Claims[t].operation
Expiry(t) == Claims[t].exp

NoAttempts == [k \in Keys |-> None]

Init ==
  /\ records = [k \in Keys |-> None]
  /\ attempts = NoAttempts
  /\ now = 0 /\ latest = 0
  /\ performed = [k \in Keys |-> 0]
  /\ reported = [k \in Keys |-> {}]
  /\ faults = 0

----
(* assertKnownEntries counts the keys before every operation. *)
Present == {k \in Keys : records[k] # None}
WithinLimit == Cardinality(Present) <= MaxEntries

(* readPath: the records that can be read. *)
Live == {k \in Keys : records[k] \notin {None, Torn, Orphan}}

(* repairPending refuses a torn marker, and markers that lack the first generation when the
   target is gone. *)
Repairs(k) == WithinLimit /\ k \in Live
(* loadAllLocked: one refused record refuses them all. *)
LoadsAll == WithinLimit /\ Present = Live

(* loadFencedLocked, assertFence: the reference names the very token. *)
LoadsFenced(t) == IF Repairs(Key(t)) THEN records[Key(t)].hash = t ELSE FALSE
Is(t, status) == LoadsFenced(t) /\ records[Key(t)].status = status

Moved(t, status) == [records[Key(t)] EXCEPT !.status = status, !.at = now]
Untoken(r) == [r EXCEPT !.token = None]

(* writeAtomic: validateRecord refuses a timestamp before the last one, until a clock set back
   has caught up. The write may fail, before or after it became durable. Ok says what a caller
   without error is given. *)
Write(t, r, Ok) ==
  /\ IF records[Key(t)] = None THEN TRUE ELSE now >= records[Key(t)].at
  /\ \/ records' = [records EXCEPT ![Key(t)] = r] /\ Ok /\ UNCHANGED faults
     \/ /\ faults < MaxFaults
        /\ faults' = faults + 1
        /\ records' \in {[records EXCEPT ![Key(t)] = r], records}
        /\ UNCHANGED attempts

(* writeEnvelopeExclusive is cut short, by a full disk or a crash. *)
Tears(t) ==
  /\ faults < MaxFaults
  /\ faults' = faults + 1
  /\ records' = [records EXCEPT ![Key(t)] = Torn]
  /\ attempts' \in {attempts, NoAttempts}

Writes(t, r, Ok) ==
  /\ Write(t, r, Ok) \/ Tears(t)
  /\ UNCHANGED <<now, latest, performed, reported>>

Gives(t, attempt) == attempts' = [attempts EXCEPT ![Key(t)] = attempt]

(* semanticScopeCollision: the jti or operation of another key's record. *)
Collides(t, r) ==
  \/ Claims[r.hash].jti = Claims[t].jti
  \/ Operation(t) # None /\ Operation(r.hash) = Operation(t)

(* verifyDesktopTrustedTokenEnvelope: now >= claims.exp is refused. *)
Verifies(t) == now < Expiry(t)

(* acceptOrLoad, behind the verifier. A token that is there already is returned, another one with
   its key refused: nothing changes. *)
AcceptOrLoad(t) ==
  /\ Verifies(t)
  /\ LoadsAll
  /\ records[Key(t)] = None
  /\ \A k \in Present : ~Collides(t, records[k])
  /\ Writes(t, Accepted(t), UNCHANGED attempts)

(* beginEffect: only from accepted, whoever asks. *)
MayStart(t) == Is(t, "accepted")

(* The attempt token is handed out after the write, and only in memory. *)
BeginEffect(t) ==
  /\ MayStart(t)
  /\ Writes(t, Moved(t, "effect_started"), Gives(t, "held"))

(* The caller tries the effect once. *)
Perform(t, outcome) ==
  /\ attempts[Key(t)] = "held"
  /\ Gives(t, outcome)
  /\ performed' = [performed EXCEPT ![Key(t)] = @ + (IF outcome = "succeeded" THEN 1 ELSE 0)]
  /\ UNCHANGED <<records, now, latest, reported, faults>>

Settled(t, mode, outcome) ==
  [Moved(t, "effect_durable") EXCEPT !.mode = mode, !.outcome = outcome]

(* volatileAttempt === candidate.effectAttemptToken: the caller of this process that tried the
   effect, and not one from before a restart. *)
HoldsAttempt(t, outcome) == attempts[Key(t)] = outcome

MarkEffectDurable(t, outcome) ==
  /\ Is(t, "effect_started")
  /\ HoldsAttempt(t, outcome)
  /\ Writes(t, Settled(t, "direct", outcome), Gives(t, None))

(* What the recovery found out; that nobody tries the effect any more is for its caller to know. *)
RecoverEffectDurable(t, outcome) ==
  /\ Is(t, "effect_started")
  /\ attempts[Key(t)] # "held"
  /\ (outcome = "succeeded") = (performed[Key(t)] > 0)
  /\ Writes(t, Settled(t, "recovered", outcome), Gives(t, None))

(* It could not find out; an attempt that goes on is no longer recorded. *)
MarkIndeterminate(t) ==
  /\ Is(t, "effect_started")
  /\ Writes(t, Untoken(Moved(t, "indeterminate")), UNCHANGED attempts)

MayPrepare(t) == Is(t, "effect_durable")

(* prepareAcknowledgement pins one outbound request to the outcome. *)
PrepareAcknowledgement(t, a) ==
  /\ MayPrepare(t)
  /\ Writes(t, [Moved(t, "ack_prepared") EXCEPT !.ack = a], UNCHANGED attempts)

(* The acknowledgement goes out, and again when its answer is lost. *)
SendAcknowledgement(t) ==
  /\ Is(t, "ack_prepared")
  /\ LET r == records[Key(t)]
     IN  reported' = [reported EXCEPT ![Key(t)] = @ \cup {<<r.ack, r.outcome>>}]
  /\ UNCHANGED <<records, attempts, now, latest, performed, faults>>

(* The tombstone keeps all but the token. *)
Tombstone(t, status) == Untoken(Moved(t, status))

(* Once the server answered. *)
Terminates(t, status) ==
  /\ Is(t, "ack_prepared")
  /\ reported[Key(t)] # {}
  /\ Writes(t, Tombstone(t, status), UNCHANGED attempts)
MarkAcknowledged(t) == Terminates(t, "acknowledged")
MarkAcknowledgementRejected(t) == Terminates(t, "ack_rejected")

AtExpiry(r) == r.status \in Tombstones /\ now >= Expiry(r.hash)    \* seeds a fault
(* pruneAfter: a tombstone outlives its token by the margin. *)
Prunable(r) == r.status \in Tombstones /\ now >= Expiry(r.hash) + Margin

(* The target is removed before its markers: a process that dies between the two leaves a last
   generation without the ones before it, when the platform made the store keep it. *)
PruneAcknowledged ==
  /\ LoadsAll
  /\ LET old == {k \in Present : Prunable(records[k])}
         Without(S) == [k \in Keys |-> IF k \in S THEN None ELSE records[k]]
     IN  /\ old # {}
         /\ \/ records' = Without(old) /\ UNCHANGED <<attempts, faults>>
            \/ /\ faults < MaxFaults
               /\ faults' = faults + 1
               /\ attempts' = NoAttempts
               /\ \E S \in SUBSET old :
                     \/ records' = Without(S)
                     \/ /\ ~DirectorySync
                        /\ \E k \in old \ S : records' = [Without(S) EXCEPT ![k] = Orphan]
  /\ UNCHANGED <<now, latest, performed, reported>>

----
Crash ==
  /\ faults < MaxFaults
  /\ faults' = faults + 1
  /\ attempts # NoAttempts
  /\ attempts' = NoAttempts
  /\ UNCHANGED <<records, now, latest, performed, reported>>

(* The device clock runs, and may be set back by up to the margin. *)
Tick ==
  /\ now < MaxTime
  /\ now' = now + 1
  /\ latest' = IF now' > latest THEN now' ELSE latest
  /\ UNCHANGED <<records, attempts, performed, reported, faults>>

SetBack ==
  /\ faults < MaxFaults
  /\ faults' = faults + 1
  /\ now' \in {n \in 0..(now - 1) : latest - n <= Margin}
  /\ UNCHANGED <<records, attempts, latest, performed, reported>>

Next ==
  \/ \E t \in Tokens :
      \/ AcceptOrLoad(t) \/ BeginEffect(t)
      \/ \E o \in Outcomes :
          Perform(t, o) \/ MarkEffectDurable(t, o) \/ RecoverEffectDurable(t, o)
      \/ MarkIndeterminate(t)
      \/ \E a \in Acks : PrepareAcknowledgement(t, a)
      \/ SendAcknowledgement(t)
      \/ MarkAcknowledged(t) \/ MarkAcknowledgementRejected(t)
  \/ PruneAcknowledged
  \/ Crash \/ Tick \/ SetBack

Spec == Init /\ [][Next]_vars

----
(* Every record has its status's fields, and never lies in the future. *)
TypeOK ==
  /\ \A k \in Live : Shaped(records[k]) /\ Key(records[k].hash) = k
  /\ \A k \in Live : records[k].at <= latest
  /\ attempts \in [Keys -> {None, "held"} \cup Outcomes]
  /\ now \in 0..latest

(* A command's effect runs once, whatever is repeated, crashes, is pruned or asked again under a
   clock set back by up to the margin. *)
EffectOnce == \A k \in Keys : performed[k] <= 1

(* What the server was told is what happened, and it was never told two things: one reference,
   one outcome, true of the effect. *)
ReportsAreTrue ==
  \A k \in Keys :
      /\ Cardinality(reported[k]) <= 1
      /\ \A r \in reported[k] : (r[2] = "succeeded") = (performed[k] > 0)

(* Two tickets of one operation, or of one jti, are never both journaled. *)
OneTicketPerOperation ==
  \A k, l \in Live : LET t == records[k].hash  u == records[l].hash IN
      k # l => Claims[t].jti # Claims[u].jti /\ (Operation(t) = Operation(u) => Operation(t) = None)

(* Every record an operation writes over another is one the repair after a crash in that write
   rolls forward to, instead of refusing the chain. *)
WritesRollForward ==
  [][\A k \in Live : records'[k] \notin {records[k], None, Torn, Orphan}
          => Successor(records[k], records'[k])]_vars
====
