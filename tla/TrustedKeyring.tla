---- MODULE TrustedKeyring ----
(* The public keys the desktop trusts (desktop-trusted-token-keyring.ts) and the verification of
   a signed token against them (desktop-trusted-token-verifier.ts, verifyHandoffWithRefresh): a
   pinned origin, a revision that never goes back, a cache usable for a short window, and one
   shared refresh. Key k of an origin is published by revision k, signs until revision k + 1
   and is gone from revision k + 2. Each store operation is one action, in the order of its file
   steps: a fault may cut it after any of them. Time is in refresh windows. *)
EXTENDS Integers, FiniteSets, Sequences

CONSTANTS
    Origins, Verifiers,
    Window,         \* REFRESH_AFTER_SECONDS
    Life,           \* MAXIMUM_TOKEN_LIFETIME_SECONDS
    MaxRevision,    \* bound on the revisions of each origin
    MaxTime, MaxEpoch, MaxFaults,
    None, Torn

KeyringAssumption ==
  /\ {Window, Life, MaxTime, MaxEpoch, MaxFaults} \subseteq Nat
  /\ MaxRevision \in [Origins -> Nat \ {0}]

VARIABLES
    now,
    published,      \* origin -> times its revisions were published
    webUrl,         \* the origin the configuration names
    files,          \* the store's four files
    inFlight,       \* the refresh the callers share, or None
    verifier,       \* verifier -> where it is
    shown,          \* ghost: epoch and revision a caller was last given
    accepted,       \* ghost: the token a step accepted, or None
    faults

vars == <<now, published, webUrl, files, inFlight, verifier, shown, accepted, faults>>

Names == {"primary", "highWater", "primaryTmp", "highWaterTmp"}
NoFiles == [f \in Names |-> None]

(* validateKeyring: one active key, windows that do not overlap. *)
Rings(o) == [origin : {o}, revision : 1..MaxRevision[o], generated : 0..MaxTime]
Ring == UNION {Rings(o) : o \in Origins}
KeysOf(ring) == {ring.revision, ring.revision - 1} \ {0}

(* validateStoredState: revision 0, without a ring, right after a reset. *)
State == [generation : Nat, epoch : 1..MaxEpoch, origin : Origins, ring : Ring \cup {None}]
Revision(s) ==
  IF s = None THEN 0 ELSE IF s.ring = None THEN 0 ELSE s.ring.revision

Idle == [at |-> "idle"]

Init ==
  /\ now = 0
  /\ published = [o \in Origins |-> <<0>>]
  /\ webUrl \in Origins
  /\ files = NoFiles
  /\ inFlight = None
  /\ verifier = [v \in Verifiers |-> Idle]
  /\ shown = [epoch |-> 0, revision |-> 0]
  /\ accepted = None
  /\ faults = 0

----
(* A token is signed while its key is the active one. *)
SignedAt(t, iat) ==
  LET times == published[t.origin] IN
  /\ iat \in times[t.key]..now
  /\ t.key < Len(times) => iat < times[t.key + 1]

(* parseCanonicalClaims *)
Exp(iat) == iat + Life

(* resolveVerificationKey *)
KnowsKey(t, ring) == t.origin = ring.origin /\ t.key \in KeysOf(ring)

(* enforceKeyWindow: the window the ring gives the key. *)
InWindow(t, iat, ring) ==
  LET times == published[ring.origin] IN
  /\ iat >= times[t.key]
  /\ t.key < ring.revision => iat < times[t.key + 1] /\ now < times[t.key + 1] + Life

(* verifyDesktopTrustedTokenEnvelope and the target checks behind it. Any token may be refused:
   it names another device or target. Only an unknown key is worth a refresh. *)
Verdicts(t, ring) ==
  {"refused"} \cup
  IF ~KnowsKey(t, ring) THEN {"unknown"}
  ELSE IF \E iat \in 0..now : SignedAt(t, iat) /\ InWindow(t, iat, ring) /\ now < Exp(iat)
       THEN {"accepted"} ELSE {}

----
(* chooseHighWater: whether the later of two states may follow the other. *)
Follows(high, low) ==
  /\ high.generation > low.generation
  /\ \/ /\ high.epoch = low.epoch /\ high.origin = low.origin
        /\ Revision(high) >= Revision(low)
     \/ high.epoch > low.epoch /\ high.origin # low.origin

Known == {files[f] : f \in Names} \ {None}

(* loadAndRepair, readKnownRecords: every file is read, temporary ones too; one that cannot be
   read refuses the operation. *)
Loads ==
  /\ Torn \notin Known
  /\ \A s, u \in Known : s # u => Follows(s, u) \/ Follows(u, s)
High == IF Known = {} THEN None
        ELSE CHOOSE s \in Known : \A u \in Known : u.generation <= s.generation

(* writeAtomic: the temporary file, torn until it is synced, then renamed. *)
Written(fs, name, tmp, s) ==
  IF fs[name] = s THEN <<fs>>
  ELSE <<[fs EXCEPT ![tmp] = Torn], [fs EXCEPT ![tmp] = s],
         [fs EXCEPT ![name] = s, ![tmp] = None]>>

Last(seq) == seq[Len(seq)]
Primary(fs, s) == Written(fs, "primary", "primaryTmp", s)
PersistBoth(fs, s) ==
  LET first == Primary(fs, s)
      second == Written(Last(first), "highWater", "highWaterTmp", s)
  IN  first \o second
      \o <<[Last(second) EXCEPT !["primaryTmp"] = None, !["highWaterTmp"] = None]>>

(* loadAndRepair *)
Repaired(s) == IF s = None THEN <<files>> ELSE PersistBoth(files, s)

(* An operation that leaves s; None: only the repair. *)
Writing(s) ==
  LET repaired == Repaired(High)
  IN  IF s = None THEN repaired ELSE repaired \o PersistBoth(Last(repaired), s)

(* exclusive: an operation completes or is cut. *)
Completes(s) == files' = Last(Writing(s)) /\ UNCHANGED faults
IsCut(s) ==
  /\ faults < MaxFaults
  /\ faults' = faults + 1
  /\ \E i \in 1..Len(Writing(s)) : files' = Writing(s)[i]

Dies ==
  /\ verifier' = [v \in Verifiers |-> Idle]
  /\ inFlight' = None

World == <<now, published, webUrl>>

----
(* verifyHandoffWithRefresh *)

Start(v, t) ==
  /\ verifier[v] = Idle
  /\ verifier' = [verifier EXCEPT ![v] = [at |-> "cache", token |-> t]]
  /\ UNCHANGED <<now, published, webUrl, files, inFlight, shown, faults>> /\ accepted' = None

Taken(v) == [token |-> verifier[v].token, time |-> now]

(* generatedAtIsFresh *)
Fresh(ring) == now - ring.generated <= Window /\ ring.generated - now <= Window

Shows(s) == shown' = [epoch |-> s.epoch, revision |-> Revision(s)]

(* state.origin !== origin: a configuration edit is not a reset. *)
Pinned(s) == IF s = None THEN TRUE ELSE s.origin = webUrl

(* readCached: null without a ring or with an old one. *)
ReadCached(v) ==
  /\ verifier[v].at = "cache"
  /\ \/ /\ ~Loads
        /\ verifier' = [verifier EXCEPT ![v] = Idle]
        /\ UNCHANGED <<files, inFlight, shown, faults>> /\ accepted' = None
     \/ /\ Loads /\ Completes(None)
        /\ LET s == High
               ring == IF s = None THEN None ELSE s.ring
               cached == IF ring = None THEN FALSE ELSE Fresh(ring)
           IN  IF ~Pinned(s)
               THEN verifier' = [verifier EXCEPT ![v] = Idle] /\ UNCHANGED shown /\ accepted' = None
               ELSE IF ~cached
               THEN /\ verifier' = [verifier EXCEPT ![v].at = "stale"]
                    /\ UNCHANGED shown /\ accepted' = None
               ELSE /\ Shows(s)
                    /\ \E verdict \in Verdicts(verifier[v].token, ring) :
                          /\ accepted' = IF verdict = "accepted" THEN Taken(v) ELSE None
                          /\ verifier' = IF verdict = "unknown"
                                         THEN [verifier EXCEPT ![v].at = "stale"]
                                         ELSE [verifier EXCEPT ![v] = Idle]
        /\ UNCHANGED inFlight
     \/ /\ Loads /\ IsCut(None)
        /\ \/ Dies
           \/ verifier' = [verifier EXCEPT ![v] = Idle] /\ UNCHANGED inFlight
        /\ UNCHANGED shown /\ accepted' = None
  /\ UNCHANGED World

(* refresh: one under way is shared. *)
Refresh(v) ==
  /\ verifier[v].at = "stale"
  /\ verifier' = [verifier EXCEPT ![v].at = "waiting"]
  /\ inFlight' = IF inFlight = None THEN [at |-> "fence", origin |-> webUrl] ELSE inFlight
  /\ UNCHANGED <<now, published, webUrl, files, shown, faults>> /\ accepted' = None

Waiting == {v \in Verifiers : verifier[v].at = "waiting"}

Leaves == /\ inFlight' = None
          /\ verifier' = [v \in Verifiers |-> IF v \in Waiting THEN Idle ELSE verifier[v]]
(* A refresh that fails, fails for all who wait for it. *)
Rejects == Leaves

(* assertOrigin, before any request. *)
AssertOrigin ==
  /\ inFlight # None
  /\ inFlight.at = "fence"
  /\ \/ /\ IF Loads THEN IF High = None THEN FALSE ELSE High.origin # inFlight.origin ELSE TRUE
        /\ Rejects
        /\ UNCHANGED <<files, faults>>
     \/ /\ Loads /\ (IF High = None THEN TRUE ELSE High.origin = inFlight.origin)
        /\ Completes(None)
        /\ inFlight' = [inFlight EXCEPT !.at = "fetch"]
        /\ UNCHANGED verifier
     \/ Loads /\ IsCut(None) /\ (Dies \/ Rejects)
  /\ UNCHANGED <<now, published, webUrl, shown>> /\ accepted' = None

(* hostFetch: the ring of a revision that is or, in a late answer, was current. *)
Fetch ==
  /\ inFlight # None
  /\ inFlight.at = "fetch"
  /\ \/ \E ring \in Rings(inFlight.origin) :
          /\ LET times == published[ring.origin] IN
               /\ ring.revision \in DOMAIN times
               /\ ring.generated \in times[ring.revision]..now
               /\ ring.revision < Len(times) => ring.generated <= times[ring.revision + 1]
          /\ inFlight' = [at |-> "answer", origin |-> inFlight.origin, ring |-> ring]
          /\ UNCHANGED <<verifier, faults>>
     \/ /\ faults < MaxFaults /\ faults' = faults + 1
        /\ Rejects
  /\ UNCHANGED <<now, published, webUrl, files, shown>> /\ accepted' = None

AnyRevision(ring, s) == TRUE                                \* seeds a fault
(* accept: not a revision below the high water. *)
NoRollback(ring, s) == ring.revision >= Revision(s)

Accepted(ring, s) ==
  IF s = None THEN [generation |-> 1, epoch |-> 1, origin |-> ring.origin, ring |-> ring]
  ELSE IF Revision(s) = ring.revision THEN s
  ELSE [s EXCEPT !.generation = @ + 1, !.ring = ring]

MayAccept(ring, s) ==
  /\ Fresh(ring)
  /\ IF s = None THEN TRUE ELSE s.origin = ring.origin /\ NoRollback(ring, s)

(* accept, then every caller that waited verifies against the new ring. The code reads its clock
   for the freshness check, writes, and reads it again to verify; here a write takes no time. *)
Accept ==
  /\ inFlight # None
  /\ inFlight.at = "answer"
  /\ LET ring == inFlight.ring IN
     \/ /\ IF Loads THEN ~MayAccept(ring, High) ELSE TRUE
        /\ Rejects
        /\ UNCHANGED <<files, shown, faults>> /\ accepted' = None
     \/ /\ Loads /\ MayAccept(ring, High)
        /\ LET s == Accepted(ring, High) IN
           \/ /\ Completes(s)
              /\ Leaves
              /\ shown' = [epoch |-> s.epoch, revision |-> ring.revision]
              /\ accepted' \in {None} \cup
                    {Taken(v) : v \in {w \in Waiting : "accepted" \in Verdicts(verifier[w].token, ring)}}
           \/ IsCut(s) /\ (Dies \/ Rejects) /\ UNCHANGED shown /\ accepted' = None
  /\ UNCHANGED World

----
(* The configuration points elsewhere. *)
EditWebUrl ==
  /\ webUrl' \in Origins \ {webUrl}
  /\ faults < MaxFaults /\ faults' = faults + 1
  /\ UNCHANGED <<now, published, files, inFlight, verifier, shown>> /\ accepted' = None

(* resetOrigin changes the pin. *)
ResetOrigin(expected, next) ==
  /\ expected # next
  /\ Loads /\ High # None
  /\ High.origin = expected /\ High.epoch < MaxEpoch
  /\ LET s == [High EXCEPT !.generation = @ + 1, !.epoch = @ + 1, !.origin = next,
                           !.ring = None]
     IN  \/ Completes(s) /\ UNCHANGED <<inFlight, verifier>>
         \/ IsCut(s) /\ (Dies \/ UNCHANGED <<inFlight, verifier>>)
  /\ UNCHANGED <<now, published, webUrl, shown>> /\ accepted' = None

(* A revision: a new key, the last retiring, the one before gone. *)
Publish(o) ==
  /\ Len(published[o]) < MaxRevision[o]
  /\ published' = [published EXCEPT ![o] = Append(@, now)]
  /\ UNCHANGED <<now, webUrl, files, inFlight, verifier, shown, faults>> /\ accepted' = None

Tick ==
  /\ now < MaxTime
  /\ now' = now + 1
  /\ UNCHANGED <<published, webUrl, files, inFlight, verifier, shown, faults>> /\ accepted' = None

Next ==
  \/ \E v \in Verifiers, o \in Origins : \E k \in DOMAIN published[o] :
      Start(v, [origin |-> o, key |-> k])
  \/ \E v \in Verifiers : ReadCached(v) \/ Refresh(v)
  \/ AssertOrigin \/ Fetch \/ Accept
  \/ EditWebUrl
  \/ \E o, p \in Origins : ResetOrigin(o, p)
  \/ \E o \in Origins : Publish(o)
  \/ Tick

Spec == Init /\ [][Next]_vars

----
(* Whoever waits waits for a refresh. *)
TypeOK ==
  /\ \A f \in Names : files[f] \in {None, Torn} \/ files[f] \in State
  /\ \A v \in Verifiers : verifier[v].at \in {"idle", "cache", "stale", "waiting"}
  /\ Waiting # {} => inFlight # None
  /\ webUrl \in Origins

(* A ring a caller was given is behind the fence on the disk, also after a crash in the middle of
   a write: no later ring of the epoch is older. *)
ShownIsFenced ==
  Torn \notin Known /\ Known # {} =>
      \/ High.epoch > shown.epoch
      \/ High.epoch = shown.epoch /\ Revision(High) >= shown.revision

(* Only a file that cannot be read refuses: no crash among refreshes and resets leaves files that
   exclude each other. *)
RefusesTornOnly == Torn \notin Known => Loads

(* A key the server has removed verifies no token once the freshness window has passed, but for
   the time of the store's own steps, whatever was cached or in flight. *)
RemovedKeyIsForgotten ==
  IF accepted = None THEN TRUE
  ELSE LET t == accepted.token  times == published[t.origin]
       IN  t.key + 2 \in DOMAIN times => accepted.time <= times[t.key + 2] + Window

(* A token is only accepted from the origin that is pinned. *)
AcceptedIsPinned ==
  [][accepted' # None => accepted'.token.origin = High'.origin]_vars
====
