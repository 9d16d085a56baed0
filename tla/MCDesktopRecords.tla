---- MODULE MCDesktopRecords ----
(* The Desktop's files; a behaviour is of one module. *)
EXTENDS Integers, Sequences, TLC

CONSTANTS None, Torn, Other, Orphan, a1, a2, k1, k1b, k2, k3, x, y, z, e1, e2

VARIABLES
    part,       \* the component
    rsFiles, rsPossible, rsOp, rsTold, rsHeld, rsDirectorySync, rsLosses, rsFailures,
    ctFs, ctDisk, ctPhase, ctExpected, ctLive, ctOp, ctFaults, ctLosses,
    alClock, alServer, alSigned, alWire, alJournal, alFence, alFlow, alFaults,
    srDisk, srOutbox, srServer, srLease, srRun, srRefused, srBudget,
    tcRecords, tcAttempts, tcNow, tcLatest, tcPerformed, tcReported, tcFaults,
    ebDecided, ebBinding, ebPlace, ebQuarantined, ebFaults

Command(key, jti, operation) == [key |-> key, jti |-> jti, operation |-> operation, exp |-> 1]

(* Two of one command. *)
CommandClaims == (k1 :> Command(x, 1, "op")) @@ (k1b :> Command(x, 1, "op"))
                 @@ (k2 :> Command(y, 2, "op")) @@ (k3 :> Command(z, 2, None))

Follows(old, new) == new.gen = old.gen + 1 /\ old.data # "done"

Store == INSTANCE RecordStore WITH
    MaxGeneration <- 3, Values <- {"open", "done"}, MaxPowerLosses <- 1,
    MaxFailures <- 2, Successor <- Follows, files <- rsFiles, possible <-
    rsPossible, op <- rsOp, told <- rsTold, held <- rsHeld, directorySync <-
    rsDirectorySync, losses <- rsLosses, failures <- rsFailures
rs == <<rsFiles, rsPossible, rsOp, rsTold, rsHeld, rsDirectorySync,
        rsLosses, rsFailures>>

Tree == INSTANCE CredentialTree WITH
    MaxWrites <- 2, MaxFaults <- 2, MaxPowerLosses <- 1, fs <- ctFs, disk <-
    ctDisk, phase <- ctPhase, expected <- ctExpected, live <- ctLive, op <-
    ctOp, faults <- ctFaults, losses <- ctLosses
ct == <<ctFs, ctDisk, ctPhase, ctExpected, ctLive, ctOp, ctFaults, ctLosses>>

Lease == INSTANCE ActivationLease WITH
    Activations <- {a1, a2}, Skew <- -1, LeaseTTL <- 6, ActivationTTL <- 8,
    Interval <- 2, Timeout <- 1, MaxTime <- 10, MaxRequests <- 3, MaxFaults
    <- 1, clock <- alClock, server <- alServer, signed <- alSigned, wire <-
    alWire, journal <- alJournal, fence <- alFence, flow <- alFlow, faults
    <- alFaults
al == <<alClock, alServer, alSigned, alWire, alJournal, alFence, alFlow,
        alFaults>>

Record == INSTANCE SessionRecord WITH
    MaxFaults <- 3, MaxRestarts <- 3, disk <- srDisk, outbox <- srOutbox,
    server <- srServer, lease <- srLease, run <- srRun, refused <-
    srRefused, budget <- srBudget
sr == <<srDisk, srOutbox, srServer, srLease, srRun, srRefused, srBudget>>

Commands == INSTANCE TrustedCommands WITH
    Tokens <- {k1, k1b, k2, k3}, Keys <- {x, y, z}, Claims <- CommandClaims,
    Acks <- {e1, e2}, Margin <- 1, MaxEntries <- 2, DirectorySync <- FALSE,
    MaxTime <- 2, MaxFaults <- 2, records <- tcRecords, attempts <-
    tcAttempts, now <- tcNow, latest <- tcLatest, performed <- tcPerformed,
    reported <- tcReported, faults <- tcFaults
tc == <<tcRecords, tcAttempts, tcNow, tcLatest, tcPerformed, tcReported,
        tcFaults>>

Bindings == INSTANCE ExecutorBinding WITH
    MaxDecisions <- 7, MaxFaults <- 2, decided <- ebDecided, binding <-
    ebBinding, place <- ebPlace, quarantined <- ebQuarantined, faults <-
    ebFaults
eb == <<ebDecided, ebBinding, ebPlace, ebQuarantined, ebFaults>>

ASSUME ComponentAssumptions ==
  /\ Store!StoreAssumption /\ Tree!TreeAssumption
  /\ Lease!TimesAssumption /\ Lease!BoundsAssumption /\ Record!BoundsAssumption
  /\ Commands!CommandAssumption /\ Bindings!BindingAssumption

vars == <<part, rs, ct, al, sr, tc, eb>>

Init ==
  /\ part \in {"store", "tree", "lease", "record", "commands", "bindings"}
  /\ Store!Init /\ Tree!Init /\ Lease!Init /\ Record!Init /\ Commands!Init /\ Bindings!Init
  /\ part # "store" => rsDirectorySync

Next ==
  \/ part = "store" /\ Store!Next /\ UNCHANGED <<part, ct, al, sr, tc, eb>>
  \/ part = "tree" /\ Tree!Next /\ UNCHANGED <<part, rs, al, sr, tc, eb>>
  \/ part = "lease" /\ Lease!Next /\ UNCHANGED <<part, rs, ct, sr, tc, eb>>
  \/ part = "record" /\ Record!Next /\ UNCHANGED <<part, rs, ct, al, tc, eb>>
  \/ part = "commands" /\ Commands!Next /\ UNCHANGED <<part, rs, ct, al, sr, eb>>
  \/ part = "bindings" /\ Bindings!Next /\ UNCHANGED <<part, rs, ct, al, sr, tc>>

Spec == Init /\ [][Next]_vars

Symmetry == Permutations({a1, a2}) \cup Permutations({e1, e2})

----
(* A record store is the register it stands for: a compare-and-set refused, cut short or struck
   by a power loss has happened or not; only a torn file is refused. *)
StoreIsARegister ==
  Store!ImplementsRegister /\ [](rsDirectorySync => Store!RefusesTornOnly)

(* The credential tree goes through the states of its abstract specification; what was measured
   stays, what was verified is in place, only the ambiguous is refused. *)
TreeIsTransactional ==
  /\ Tree!ImplementsStates /\ Tree!RefusesAmbiguousOnly
  /\ [](Tree!TypeOK /\ Tree!MeasuredIsKept /\ Tree!VerifiedIsInPlace)

(* Whoever holds a fresh activation lease asked for it and is alone until it ends; the grant is on disk before it is used; a live flow does not lose it by renewing
   late. *)
LeaseIsExclusive ==
  /\ Lease!TypeOK /\ Lease!ExclusiveWhileFresh /\ Lease!GrantedSinceAsked
  /\ Lease!GrantsAreRecorded /\ Lease!OneActiveFence /\ Lease!LeaseIsKept

(* No writer builds a record a reader refuses, except at a start that finds the answered proof
   not yet completed (finding 5); no effect precedes the record that fences it; a closed
   session accounts for its requests. *)
RecordIsSound ==
  Record!NothingIsRefused /\ Record!EffectsAreFenced /\ Record!ClosedIsAccounted

(* A trusted command is carried out once however often delivered; its outcome alone is reported. *)
CommandsAreOnce ==
  /\ Commands!WritesRollForward
  /\ [](/\ Commands!TypeOK /\ Commands!EffectOnce /\ Commands!ReportsAreTrue
        /\ Commands!OneTicketPerOperation)

(* The record of a binding follows the server's decisions in order, through failed writes and
   restarts; a binding moved elsewhere is never active here. *)
BindingFollows ==
  /\ Bindings!WritesRollForward /\ Bindings!FollowsServer
  /\ [](Bindings!TypeOK /\ Bindings!MovedIsNotActive)
====
