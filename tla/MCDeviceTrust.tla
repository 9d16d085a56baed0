---- MODULE MCDeviceTrust ----
(* Device trust, a module at a time. *)
EXTENDS Integers, TLC

CONSTANTS None, Damaged, TornFile, b1, b2, claim, proof, renewal, binding, oa, ob, v1, v2

VARIABLES
    part,       \* the component
    drDisk, drClient, drRuntime, drSession, drServer, drSent, drMade, drFaults,
    dqCounter, dqJournal, dqLane, dqOp, dqSession, dqOwner, dqServer, dqWire, dqFaults,
    krNow, krPublished, krWebUrl, krFiles, krInFlight, krVerifier, krShown, krAccepted, krFaults

Registration == INSTANCE DeviceRegistration WITH
    Bearers <- {b1, b2}, MaxDevices <- 2, MaxNonces <- 3, MaxFaults <- 2, disk <- drDisk,
    client <- drClient, runtime <- drRuntime, session <- drSession, server <- drServer,
    sent <- drSent, made <- drMade, faults <- drFaults
dr == <<drDisk, drClient, drRuntime, drSession, drServer, drSent, drMade, drFaults>>

Requests == INSTANCE DeviceRequests WITH
    Torn <- TornFile, Empty <- Damaged, Sessions <- {claim, proof}, Renewals <- {renewal}, Bindings <-
    {binding}, MaxSequence <- 3, MaxFaults <- 2, counter <- dqCounter,
    journal <- dqJournal, lane <- dqLane, op <- dqOp, session <- dqSession,
    owner <- dqOwner, server <- dqServer, wire <- dqWire, faults <- dqFaults
dq == <<dqCounter, dqJournal, dqLane, dqOp, dqSession, dqOwner, dqServer, dqWire, dqFaults>>

Keyring == INSTANCE TrustedKeyring WITH
    Torn <- TornFile, Origins <- {oa, ob}, Verifiers <- {v1, v2}, Window <- 1, Life <- 4,
    MaxTime <- 2, MaxRevision <- (oa :> 2) @@ (ob :> 1), MaxEpoch <- 2,
    MaxFaults <- 1, now <- krNow, published <- krPublished, webUrl <-
    krWebUrl, files <- krFiles, inFlight <- krInFlight, verifier <-
    krVerifier, shown <- krShown, accepted <- krAccepted, faults <- krFaults
Rotation == INSTANCE TrustedKeyring WITH
    Torn <- TornFile, Origins <- {oa, ob}, Verifiers <- {v1}, Window <- 1, Life <- 4, MaxTime
    <- 3, MaxRevision <- (oa :> 3) @@ (ob :> 1), MaxEpoch <- 2, MaxFaults <-
    1, now <- krNow, published <- krPublished, webUrl <- krWebUrl, files <-
    krFiles, inFlight <- krInFlight, verifier <- krVerifier, shown <-
    krShown, accepted <- krAccepted, faults <- krFaults
kr == <<krNow, krPublished, krWebUrl, krFiles, krInFlight, krVerifier, krShown, krAccepted, krFaults>>

ASSUME ComponentAssumptions ==
  /\ Registration!BoundsAssumption /\ Registration!MarksAssumption
  /\ Requests!BoundsAssumption /\ Requests!ReferencesAssumption
  /\ Keyring!KeyringAssumption /\ Rotation!KeyringAssumption

vars == <<part, dr, dq, kr>>

Init ==
  /\ part \in {"registration", "requests", "keyring", "rotation"}
  /\ Registration!Init
  /\ Requests!Init
  /\ IF part = "rotation" THEN Rotation!Init ELSE Keyring!Init
  /\ part \in {"registration", "requests"} => krWebUrl = oa

Next ==
  \/ part = "registration" /\ Registration!Next /\ UNCHANGED <<part, dq, kr>>
  \/ part = "requests" /\ Requests!Next /\ UNCHANGED <<part, dr, kr>>
  \/ part = "keyring" /\ Keyring!Next /\ UNCHANGED <<part, dr, dq>>
  \/ part = "rotation" /\ Rotation!Next /\ UNCHANGED <<part, dr, dq>>

Spec == Init /\ [][Next]_vars

Symmetry == Permutations({v1, v2}) \cup Permutations({b1, b2})

----
(* A registered device stays registered, whatever is reset, damaged or lost: a number signs one
   request, and what the server accepted the Desktop knows or can still find out. *)
RegistrationIsKept ==
  /\ Registration!RegisteredIsKept
  /\ [](/\ Registration!SequenceNeverReused /\ Registration!AcceptedIsRecoverable
        /\ Registration!RegisteredAtServer)

(* No signed request overtakes one of unknown outcome; what was started holds the lane, acts once. *)
RequestsAreOnce ==
  /\ Requests!UnresolvedNotOvertaken /\ Requests!AcceptedOnce
  /\ Requests!StartedIsJournaled /\ Requests!UnresolvedHoldsLane

(* The keys a verifier uses come from the origin the user accepted, are never older than those
   it has seen, and are gone once removed. *)
KeysAreFresh ==
  /\ Keyring!AcceptedIsPinned
  /\ [](/\ part # "rotation" => Keyring!TypeOK
        /\ Keyring!ShownIsFenced /\ Keyring!RemovedKeyIsForgotten /\ Keyring!RefusesTornOnly)
====
