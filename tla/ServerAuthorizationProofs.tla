---- MODULE ServerAuthorizationProofs ----
(* Safety of ServerAuthorization, for any sessions, revisions, crashes and lost answers, whatever
   the process's clock says. The outcome of a session is in two rows, its own and the candidate's.
   They are in step because at most one session is ongoing, so nobody else takes the lease of one
   that has prepared, and because a number is prepared only once. *)
EXTENDS ServerAuthorization, TLAPS

BeforePrepare == {"login", "mark_waiting", "await", "mark_verifying", "freeze", "prepare"}

InStep(s) ==
  IF Prep(s) = 0 THEN session[s].status # "succeeded"
  ELSE /\ Prep(s) <= config.counter
       /\ binding[Prep(s)].op = s
       /\ \/ /\ session[s].status = "verifying"
             /\ binding[Prep(s)].status \in {"prepared", "committing"}
          \/ /\ session[s].status = "succeeded"
             /\ binding[Prep(s)].status \in {"active", "revoked"}
          \/ /\ session[s].status \in Ended \ {"succeeded"}
             /\ binding[Prep(s)].status = "quarantined"

EndTogether == \A s \in Sessions : InStep(s)
NothingPrepared == \A s \in Sessions : runner[s].pc \in BeforePrepare => Prep(s) = 0

(* At most one session is ongoing. *)
OneOngoing == \A r, s \in Sessions :
    session[r].status \in Ongoing /\ session[s].status \in Ongoing => r = s

SessionFacts == EndTogether /\ NothingPrepared /\ OneOngoing /\ CandidateKeepsFence
AuthInv == AuthTypeOK /\ SessionFacts

----
LEMMA AdvanceTyped ==
  ASSUME AuthTypeOK, NEW s \in Sessions, NEW pc \in RunnerPc, Advance(s, pc)
  PROVE  /\ runner' \in [Sessions -> RunnerRow]
         /\ \A r \in Sessions : runner'[r].pc = IF r = s THEN pc ELSE runner[r].pc
BY DEF AuthTypeOK, Advance, RunnerRow

LEMMA AuthFaultTyped ==
  ASSUME AuthTypeOK, Fault
  PROVE  faults' \in 0..MaxFaults
BY StateAssumption DEF AuthTypeOK, StateTypeOK, Fault

(* The steps of a goroutine that write no row, *)
Working(s) ==
  \/ StartDeviceCodeLogin(s) \/ WaitLoginCompleted(s) \/ FreezeStaging(s) \/ LockForCommit(s)
  \/ InspectCandidate(s) \/ PromoteStaging(s) \/ SealCandidate(s) \/ CloneCandidate(s)
  \/ VerifyCandidate(s) \/ DiscardClone(s) \/ RenewBeforeActivation(s)
  \/ QuarantineStaging(s) \/ QuarantineCandidate(s)
(* and those that write their session's status. *)
Marking(s) == MarkAuthorizationWaiting(s) \/ MarkAuthorizationVerifying(s)

LEMMA WorkingTyped ==
  ASSUME AuthTypeOK, NEW s \in Sessions, Working(s) \/ Marking(s)
  PROVE  AuthTypeOK' /\ UNCHANGED <<config, lease, binding>> /\ (Working(s) => UNCHANGED session)
<1> USE DEF Working, Marking, StartDeviceCodeLogin, MarkAuthorizationWaiting, WaitLoginCompleted,
            MarkAuthorizationVerifying, MarkSession, FreezeStaging, LockForCommit,
            InspectCandidate, PromoteStaging, SealCandidate, CloneCandidate, VerifyCandidate,
            DiscardClone, RenewBeforeActivation, QuarantineStaging, QuarantineCandidate,
            AuthTypeOK, stateVars
<1>2. UNCHANGED <<config, lease, binding, service>> /\ (Working(s) => UNCHANGED session) OBVIOUS
<1>4. session' \in [Sessions -> SessionRow] BY DEF SessionRow, Ongoing
<1>5. staging' \in [Sessions -> StagingStatus] BY DEF StagingStatus
<1>6. /\ revDir' \in [Revisions -> DirStatus] /\ home' \in [Ops -> HomeStatus]
      /\ flock' \in Instances \cup Sessions \cup {NoOne}
  BY DEF StateTypeOK, DirStatus, HomeStatus, MovedAway, disk
<1> QED
  BY <1>2, <1>4, <1>5, <1>6, AdvanceTyped, AuthFaultTyped
     DEF StateTypeOK, Rejected, RunnerPc, RunnerRow, Answered, Gone

LEMMA StatusTyped ==
  ASSUME AuthTypeOK, NEW S, NEW status \in BindingStatus
  PROVE  WithStatus(S, status) \in [Revisions -> BindingRow]
BY DEF AuthTypeOK, StateTypeOK, WithStatus, BindingRow

LEMMA SwitchTyped ==
  ASSUME AuthTypeOK, NEW from, NEW to
  PROVE  Switched(from, to) \in [Revisions -> BindingRow]
BY DEF BindingStatus, AuthTypeOK, StateTypeOK, Switched, BindingRow

LEMMA RefenceTyped ==
  ASSUME AuthTypeOK, NEW n
  PROVE  Refenced(n) \in [Revisions -> BindingRow]
<1>1. lease.epoch + 1 \in Nat BY DEF AuthTypeOK, StateTypeOK, LeaseRow
<1> QED BY <1>1 DEF AuthTypeOK, StateTypeOK, Refenced, BindingRow

LEMMA DecisionsTyped ==
  ASSUME AuthTypeOK, NEW s \in Sessions
  PROVE  {WithStatus(Pending({Prep(s)}), "quarantined"), WithStatus({Prep(s)}, "quarantined"),
          WithStatus({Prep(s)}, "committing"), Switched(config.current, Prep(s))}
            \subseteq [Revisions -> BindingRow]
BY StatusTyped, SwitchTyped DEF BindingStatus

LEMMA ActivationTyped ==
  ASSUME AuthTypeOK, NEW s \in Sessions
  PROVE  [config EXCEPT !.cred = "authorized", !.current = Prep(s), !.cat = @ + 1] \in ConfigRow
<1>1. PICK n \in 0..MaxRevision, cat \in Nat : n = Prep(s) /\ cat = config.cat + 1
  BY DEF AuthTypeOK, StateTypeOK, Prep, SessionRow, ConfigRow
<1> QED BY <1>1 DEF ConfigRow, CredentialStatus, AuthTypeOK, StateTypeOK

LEMMA LeaseUpdatesTyped ==
  ASSUME AuthTypeOK, NEW s \in Sessions
  PROVE  /\ \A src \in 0..MaxRevision, rvk \in Nat : TakenLease(s, Service, src, rvk) \in LeaseRow
         /\ \A status \in LeaseStatus : [lease EXCEPT !.status = status] \in LeaseRow
         /\ ReleasedBy(s) \in LeaseRow
BY ServiceAssumption
   DEF AuthTypeOK, StateTypeOK, Ops, TakenLease, LeaseRow, LeaseStatus, ReleasedBy

(* The requests and the writes of a goroutine to the rows. *)
LEMMA DecidingTyped ==
  ASSUME AuthTypeOK, NEW s \in Sessions,
         \/ CreateAuthorizationSession(s) \/ CancelAuthorizationSession(s)
         \/ MarkCredentialCommitting(s) \/ ActivateServerCredential(s)
         \/ FailAuthorizationSession(s) \/ QuarantineServerCredential(s)
  PROVE  AuthTypeOK'
<1> USE DEF CreateAuthorizationSession, CancelAuthorizationSession, MarkCredentialCommitting,
            ActivateServerCredential, FailAuthorizationSession, QuarantineServerCredential
<1>1. /\ config \in ConfigRow /\ lease \in LeaseRow /\ binding \in [Revisions -> BindingRow]
      /\ session \in [Sessions -> SessionRow]
  BY DEF AuthTypeOK, StateTypeOK
<1>3. runner' \in [Sessions -> RunnerRow]
  <2>1. CASE runner' = [runner EXCEPT ![s] = [NoRunner EXCEPT !.pc = "login"]]
    BY <2>1 DEF NoRunner, RunnerRow, RunnerPc, AuthTypeOK
  <2> QED BY <2>1, AdvanceTyped DEF AuthTypeOK, Answered, Rejected, AlreadyEnded, Gone, RunnerPc
<1>5. session' \in [Sessions -> SessionRow] BY <1>1 DEF Ongoing, Ended, AlreadyEnded, SessionRow
<1> QED
  BY <1>3, <1>5, AuthFaultTyped, <1>1, DecisionsTyped, LeaseUpdatesTyped, ActivationTyped
     DEF AuthTypeOK, StateTypeOK, disk, Answered, Rejected, AlreadyEnded, LeaseStatus

LEMMA PrepareTyped ==
  ASSUME AuthTypeOK, NEW s \in Sessions, PrepareServerCredential(s)
  PROVE  AuthTypeOK'
<1>1. /\ config \in ConfigRow /\ lease \in LeaseRow /\ binding \in [Revisions -> BindingRow]
      /\ session \in [Sessions -> SessionRow] /\ runner \in [Sessions -> RunnerRow]
      /\ faults \in 0..MaxFaults
  BY DEF AuthTypeOK, StateTypeOK
<1>4. CASE ~(UNCHANGED <<lease, binding, config, session>>
             /\ Rejected(s, CanPrepareServer(s), "fail"))
  <2>1. PICK n, row :
          /\ n = config.counter + 1 /\ CanPrepareServer(s)
          /\ row = [status |-> "prepared", op |-> s, epoch |-> lease.epoch + 1,
                    src |-> config.current, rvk |-> config.rvk]
          /\ lease' = TakenLease(s, Service, config.current, config.rvk)
          /\ binding' = [binding EXCEPT ![n] = row]
          /\ config' = [config EXCEPT !.counter = n]
          /\ session' = [session EXCEPT ![s].prep = n]
    BY <1>4 DEF PrepareServerCredential
  <2>2. n \in 0..MaxRevision BY <1>1, <2>1, StateAssumption DEF CanPrepareServer, ConfigRow
  <2>3. row \in BindingRow BY <1>1, <2>1 DEF BindingRow, BindingStatus, ConfigRow, LeaseRow, Ops
  <2>6. \/ /\ runner' = [runner EXCEPT ![s].pc = "lock", ![s].epoch = lease.epoch + 1]
           /\ UNCHANGED faults
        \/ Advance(s, "fail") /\ Fault
    BY <1>4 DEF PrepareServerCredential
  <2>9. runner' \in [Sessions -> RunnerRow] BY <1>1, <2>6, AdvanceTyped DEF RunnerRow, RunnerPc
  <2> QED
    BY ZenonT(30), <1>1, <2>9, <2>1, <2>2, <2>3, LeaseUpdatesTyped, <2>6, AuthFaultTyped
       DEF AuthTypeOK, StateTypeOK, ConfigRow, SessionRow, PrepareServerCredential, disk
<1> QED
  BY <1>4, AdvanceTyped, <1>1, AuthFaultTyped
     DEF Rejected, RunnerPc, AuthTypeOK, StateTypeOK, PrepareServerCredential, disk

(* The startup, the end of a goroutine, the clock and a crash. *)
LEMMA StartupTyped ==
  ASSUME AuthTypeOK,
         \/ StartService \/ RecoverInterruptedAuthorizationSessions
         \/ RecoverAuthorizationCredentialTrees \/ AcceptRequests
         \/ AuthLapse \/ ServiceCrash \/ \E s \in Sessions : Exit(s)
  PROVE  AuthTypeOK'
<1> USE DEF StartService, RecoverInterruptedAuthorizationSessions,
            RecoverAuthorizationCredentialTrees, AcceptRequests, AuthLapse, ServiceCrash, Exit
<1>5. session' \in [Sessions -> SessionRow]
  BY DEF authVars, SessionRow, Ended, AuthTypeOK, StateTypeOK
<1>6. runner' \in [Sessions -> RunnerRow]
  <2>1. NoRunner \in RunnerRow BY DEF NoRunner, RunnerRow, RunnerPc
  <2> QED BY <2>1 DEF authVars, AuthTypeOK
<1> QED
  BY ZenonT(30), <1>5, <1>6, AuthFaultTyped DEF AuthTypeOK, StateTypeOK, stateVars, Lapse,
     LeaseRow, authVars, ServicePc, DirStatus, HomeStatus, StagingStatus, disk, DropTree,
     DropStaging, DropHome, DropRevision, MovedAway

(* A recovery is handed a candidate that is still undecided. *)
LEMMA ClaimTyped ==
  ASSUME AuthInv, NEW s \in Sessions, ClaimServerCredentialRecovery(s)
  PROVE  AuthTypeOK'
<1>1. /\ AuthTypeOK /\ InStep(s) /\ lease \in LeaseRow /\ runner \in [Sessions -> RunnerRow]
  BY DEF AuthInv, SessionFacts, EndTogether, AuthTypeOK, StateTypeOK
<1>7. runner' \in [Sessions -> RunnerRow]
  <2>1. [NoRunner EXCEPT !.pc = "lock", !.epoch = lease.epoch + 1,
                         !.recovering = TRUE, !.seen = binding[Prep(s)].status] \in RunnerRow
    <3>1. PICK e \in Nat, seen \in {"prepared", "committing"} :
            e = lease.epoch + 1 /\ seen = binding[Prep(s)].status
      BY <1>1 DEF LeaseRow, ClaimServerCredentialRecovery, Resumes, InStep, Ended
    <3> QED BY <3>1 DEF RunnerPc, NoRunner, RunnerRow
  <2> QED BY <1>1, <2>1 DEF ClaimServerCredentialRecovery
<1> QED
  BY <1>1, <1>7, RefenceTyped, LeaseUpdatesTyped, AuthFaultTyped
     DEF AuthTypeOK, StateTypeOK, ClaimServerCredentialRecovery, disk, LeaseRow, ServicePc

----
(* Sessions and candidates. *)

(* A step that decides nothing: it may move goroutines on, never back before a preparation. *)
Decided == <<session, binding, config, lease.op, lease.epoch, lease.src, lease.rvk>>
NoneGoesBack == \A s \in Sessions : runner'[s].pc \in BeforePrepare => runner[s].pc \in BeforePrepare

LEMMA NothingDecided ==
  ASSUME AuthInv, UNCHANGED Decided, NoneGoesBack
  PROVE  SessionFacts'
BY DEF AuthInv, SessionFacts, Decided, EndTogether, InStep, OneOngoing, CandidateKeepsFence,
   Resumes, FenceIntact, Prep, NothingPrepared, NoneGoesBack

LEMMA WorkingKeepsFacts ==
  ASSUME AuthInv, NEW s \in Sessions, Working(s)
  PROVE  SessionFacts'
BY AdvanceTyped, NothingDecided DEF Decided, Working, StartDeviceCodeLogin,
   WaitLoginCompleted, FreezeStaging, LockForCommit, InspectCandidate, PromoteStaging,
   SealCandidate, CloneCandidate, VerifyCandidate, DiscardClone, RenewBeforeActivation,
   QuarantineStaging, QuarantineCandidate, stateVars, Rejected, AuthInv, AuthTypeOK, RunnerRow,
   NoneGoesBack, BeforePrepare, Gone, RunnerPc, On

LEMMA StartupKeepsFacts ==
  ASSUME AuthInv,
         \/ StartService \/ RecoverAuthorizationCredentialTrees \/ AcceptRequests
         \/ AuthLapse \/ ServiceCrash \/ \E s \in Sessions : Exit(s)
  PROVE  SessionFacts'
BY NothingDecided DEF AuthInv, AuthTypeOK, StateTypeOK, Decided, StartService,
   RecoverAuthorizationCredentialTrees, AcceptRequests, AuthLapse, Lapse, ServiceCrash, Exit,
   stateVars, authVars, LeaseRow, NoRunner, NoneGoesBack, BeforePrepare

(* A session without a candidate changes its status while it is ongoing. *)
LEMMA StatusKeepsFacts ==
  ASSUME AuthInv, NEW s \in Sessions, NEW status \in Ongoing, Prep(s) = 0,
         session' = [session EXCEPT ![s].status = status],
         UNCHANGED <<binding, config, lease>>, NoneGoesBack,
         \A r \in Sessions : session[r].status \in Ongoing => r = s
  PROVE  SessionFacts'
BY DEF AuthInv, Prep, InStep, Ongoing, SessionFacts, EndTogether, NothingPrepared, NoneGoesBack,
   OneOngoing, CandidateKeepsFence, Resumes

LEMMA MarkKeepsFacts ==
  ASSUME AuthInv, NEW s \in Sessions, Marking(s)
  PROVE  SessionFacts'
BY AdvanceTyped, NothingDecided, StatusKeepsFacts DEF Marking, MarkAuthorizationWaiting,
   MarkAuthorizationVerifying, Ongoing, BeforePrepare, RunnerPc, MarkSession, On, AuthInv,
   SessionFacts, NothingPrepared, Answered, Rejected, NoneGoesBack, Decided, OneOngoing

LEMMA CreateKeepsFacts ==
  ASSUME AuthInv, NEW s \in Sessions, CreateAuthorizationSession(s)
  PROVE  SessionFacts'
BY DEF CreateAuthorizationSession, AuthInv, SessionFacts, EndTogether, InStep, Ended, AuthTypeOK,
   SessionRow, Prep, NothingPrepared, OneOngoing, CandidateKeepsFence, Resumes

(* The one ongoing session ends, and its candidate is decided with it. *)
LEMMA EndKeepsFacts ==
  ASSUME AuthInv, NEW s \in Sessions, session[s].status \in Ongoing,
         session'[s].prep = Prep(s), session'[s].status \in Ended,
         \A r \in Sessions \ {s} : session'[r] = session[r],
         config'.counter = config.counter,
         \A n \in Revisions \ {Prep(s)} :
            /\ binding'[n].op = binding[n].op
            /\ \/ binding'[n].status = binding[n].status
               \/ {binding[n].status, binding'[n].status} \subseteq {"active", "revoked"},
         InStep(s)', NoneGoesBack
  PROVE  SessionFacts'
<1>6. CandidateKeepsFence'
  BY DEF CandidateKeepsFence, Resumes, Ongoing, Ended, AuthInv, SessionFacts, OneOngoing
<1> QED
  BY <1>6, StateAssumption DEF SessionFacts, AuthInv, EndTogether, Prep, InStep, AuthTypeOK,
     SessionRow, Revisions, Ongoing, OneOngoing, NothingPrepared, NoneGoesBack, Ended

(* A cancellation or a failure quarantines what is not final yet. *)
LEMMA DroppingKeepsFacts ==
  ASSUME AuthInv, NEW s \in Sessions, NEW status \in {"failed", "cancelled"},
         session[s].status \in Ongoing,
         session' = [session EXCEPT ![s].status = status],
         binding' = WithStatus(Pending({Prep(s)}), "quarantined"),
         UNCHANGED config, NoneGoesBack
  PROVE  SessionFacts'
<1>4. InStep(s)'
  BY StateAssumption DEF InStep, Prep, Ongoing, Ended, Revisions, WithStatus, Pending, BindingRow,
     AuthInv, AuthTypeOK, SessionRow, SessionFacts, EndTogether, StateTypeOK
<1> QED BY <1>4, EndKeepsFacts DEF Ended, AuthInv, AuthTypeOK, Prep, WithStatus, Pending

LEMMA CancelKeepsFacts ==
  ASSUME AuthInv, NEW s \in Sessions, CancelAuthorizationSession(s)
  PROVE  SessionFacts'
BY DroppingKeepsFacts DEF CancelAuthorizationSession, NoneGoesBack

LEMMA FailKeepsFacts ==
  ASSUME AuthInv, NEW s \in Sessions, FailAuthorizationSession(s)
  PROVE  SessionFacts'
<1>1. NoneGoesBack
  BY AdvanceTyped DEF RunnerPc, BeforePrepare, FailAuthorizationSession, NoneGoesBack, AuthInv
<1> QED BY <1>1, NothingDecided, DroppingKeepsFacts DEF FailAuthorizationSession, Decided

(* After the preparation a goroutine goes nowhere it could prepare again. *)
LEMMA DecidingGoesOn ==
  ASSUME AuthInv, NEW s \in Sessions,
         \/ MarkCredentialCommitting(s) \/ ActivateServerCredential(s)
         \/ QuarantineServerCredential(s)
  PROVE  NoneGoesBack
BY AdvanceTyped DEF MarkCredentialCommitting, ActivateServerCredential, QuarantineServerCredential,
   AlreadyEnded, Answered, Rejected, Gone, RunnerPc, BeforePrepare, AuthInv, NoneGoesBack

LEMMA CommittingKeepsFacts ==
  ASSUME AuthInv, NEW s \in Sessions, MarkCredentialCommitting(s)
  PROVE  SessionFacts'
<1>2. UNCHANGED <<config, lease, session>> BY DEF MarkCredentialCommitting
<1>4. CASE CanCommit(s) /\ binding' = WithStatus({Prep(s)}, "committing")
  BY <1>4, StateAssumption, <1>2, DecidingGoesOn DEF AuthInv, AuthTypeOK, StateTypeOK, SessionRow,
     Prep, CanCommit, CandidateIs, Revisions, WithStatus, BindingRow, SessionFacts, EndTogether,
     InStep, NothingPrepared, NoneGoesBack, OneOngoing, CandidateKeepsFence, Resumes, FenceIntact
<1> QED BY <1>4, <1>2, NothingDecided, DecidingGoesOn DEF MarkCredentialCommitting, Decided

LEMMA QuarantineKeepsFacts ==
  ASSUME AuthInv, NEW s \in Sessions, QuarantineServerCredential(s)
  PROVE  SessionFacts'
<1>4. CASE /\ CanQuarantine(s)
           /\ binding' = WithStatus({Prep(s)}, "quarantined")
           /\ session' = [session EXCEPT ![s].status = "failed"]
  <2>3. Pending({Prep(s)}) = {Prep(s)}
    BY <1>4 DEF Pending, CanQuarantine, CandidateIs, AuthInv, AuthTypeOK, SessionRow, Prep,
       Revisions
  <2> QED
    BY <1>4, <2>3, DroppingKeepsFacts, DecidingGoesOn DEF CanQuarantine, Ongoing,
       QuarantineServerCredential
<1> QED
  BY <1>4, NothingDecided, DecidingGoesOn DEF QuarantineServerCredential, AlreadyEnded, Decided

LEMMA ActivateKeepsFacts ==
  ASSUME AuthInv, NEW s \in Sessions, ActivateServerCredential(s)
  PROVE  SessionFacts'
<1>3. CASE /\ CanActivate(s)
           /\ binding' = Switched(config.current, Prep(s))
           /\ config' = [config EXCEPT !.cred = "authorized", !.current = Prep(s),
                                       !.cat = @ + 1]
           /\ session' = [session EXCEPT ![s].status = "succeeded"]
  <2>1. /\ session[s].status \in Ongoing /\ Prep(s) \in Revisions
        /\ binding \in [Revisions -> BindingRow] /\ config \in ConfigRow
        /\ InStep(s)
    BY <1>3 DEF AuthInv, SessionFacts, EndTogether, AuthTypeOK, StateTypeOK, SessionRow, Prep,
       Revisions, CanActivate, CandidateIs, Ongoing
  <2>6. InStep(s)' BY <2>1, <1>3 DEF InStep, Prep, Revisions, AuthInv, AuthTypeOK, Switched
  <2> QED
    BY <2>1, <2>6, EndKeepsFacts, <1>3, DecidingGoesOn DEF Ended, AuthInv, AuthTypeOK, Prep,
       Switched
<1> QED BY <1>3, NothingDecided, DecidingGoesOn DEF ActivateServerCredential, Decided

(* A prepared session is never among the interrupted ones. *)
LEMMA InterruptKeepsFacts ==
  ASSUME AuthInv, RecoverInterruptedAuthorizationSessions
  PROVE  SessionFacts'
<1>3. CASE session' = [s \in Sessions |-> IF Interrupted(s)
                          THEN [session[s] EXCEPT !.status = "interrupted"] ELSE session[s]]
  BY <1>3 DEF AuthInv, AuthTypeOK, SessionRow, Prep, Interrupted, SessionFacts, EndTogether,
     InStep, NothingPrepared, OneOngoing, Ongoing, CandidateKeepsFence, Resumes, FenceIntact,
     RecoverInterruptedAuthorizationSessions
<1> QED BY <1>3, NothingDecided DEF RecoverInterruptedAuthorizationSessions, Decided, NoneGoesBack

(* The new candidate has a number no session has prepared. *)
LEMMA PrepareKeepsFacts ==
  ASSUME AuthInv, NEW s \in Sessions, PrepareServerCredential(s)
  PROVE  SessionFacts'
<1>3. CASE ~UNCHANGED <<lease, binding, config, session>>
  <2>1. PICK n, row :
          /\ n = config.counter + 1 /\ CanPrepareServer(s)
          /\ row = [status |-> "prepared", op |-> s, epoch |-> lease.epoch + 1,
                    src |-> config.current, rvk |-> config.rvk]
          /\ lease' = TakenLease(s, Service, config.current, config.rvk)
          /\ binding' = [binding EXCEPT ![n] = row]
          /\ config' = [config EXCEPT !.counter = n]
          /\ session' = [session EXCEPT ![s].prep = n]
    BY <1>3 DEF PrepareServerCredential
  <2>2. /\ config \in ConfigRow /\ binding \in [Revisions -> BindingRow]
        /\ session \in [Sessions -> SessionRow] /\ session[s].status = "verifying"
    BY <2>1 DEF AuthInv, AuthTypeOK, StateTypeOK, CanPrepareServer
  <2>5. /\ \A r \in Sessions \ {s} : session'[r] = session[r]
        /\ \A m \in Revisions \ {n} : binding'[m] = binding[m]
    BY <2>1, <2>2
  <2>8. NothingPrepared'
    BY AdvanceTyped, <1>3, <2>5 DEF AuthInv, RunnerPc, BeforePrepare, AuthTypeOK, RunnerRow,
       PrepareServerCredential, SessionFacts, NothingPrepared, Prep, Rejected
  <2> QED
    BY <2>8, <2>1, <2>5, <2>2, StateAssumption DEF SessionFacts, InStep, Prep, AuthInv,
       EndTogether, SessionRow, Revisions, CanPrepareServer, ConfigRow, OneOngoing, Ongoing,
       Resumes, FenceIntact, TakenLease, CandidateKeepsFence
<1> QED
  BY <1>3, NothingDecided, AdvanceTyped DEF Decided, AuthInv, AuthTypeOK, RunnerRow, NoneGoesBack,
     BeforePrepare, RunnerPc, PrepareServerCredential, Rejected

(* Lease and candidate move to the next epoch together. *)
LEMMA ClaimKeepsFacts ==
  ASSUME AuthInv, NEW s \in Sessions, ClaimServerCredentialRecovery(s)
  PROVE  SessionFacts'
<1>1. NoneGoesBack
  BY DEF NoneGoesBack, ClaimServerCredentialRecovery, AuthInv, AuthTypeOK, NoRunner, BeforePrepare
<1>2. UNCHANGED <<config, session>> /\ Resumes(s) BY DEF ClaimServerCredentialRecovery
<1>4. CASE /\ FenceIntact(s)
           /\ lease' = TakenLease(s, Service, lease.src, lease.rvk)
           /\ binding' = Refenced(Prep(s))
  <2>1. EndTogether' /\ OneOngoing'
    BY <1>2, <1>4 DEF AuthInv, Prep, Refenced, SessionFacts, EndTogether, InStep, OneOngoing
  <2>2. NothingPrepared'
    BY <1>1, <1>2 DEF AuthInv, SessionFacts, NothingPrepared, NoneGoesBack, Prep
  <2>3. CandidateKeepsFence'
    BY <1>2, <1>4, <2>1, StateAssumption DEF AuthInv, AuthTypeOK, StateTypeOK, SessionRow, Prep,
       Resumes, Revisions, Refenced, BindingRow, SessionFacts, OneOngoing, Ongoing, FenceIntact,
       TakenLease, CandidateKeepsFence
  <2> QED BY <2>1, <2>2, <2>3 DEF SessionFacts
<1> QED BY <1>4, <1>1, <1>2, NothingDecided DEF ClaimServerCredentialRecovery, Decided

----
LEMMA AuthInitHolds == AuthorizationInit => AuthInv
<1> SUFFICES ASSUME AuthorizationInit
             PROVE  AuthInv
  OBVIOUS
<1>1. /\ {0, 1} \subseteq 0..MaxRevision /\ NoOne \in Ops \cup {NoOne}
      /\ NoOne \in Instances \cup {NoOne} /\ 0 \in 0..MaxFaults
      /\ NoOne \in Instances \cup Sessions \cup {NoOne}
  BY StateAssumption
<1>2. config \in ConfigRow /\ lease \in LeaseRow
  <2>1. CASE FreshExecutor
    BY <1>1, <2>1 DEF FreshExecutor, ConfigRow, LeaseRow, CredentialStatus, LeaseStatus
  <2>2. CASE AuthorizedExecutor
    BY <1>1, <2>2 DEF AuthorizedExecutor, ConfigRow, LeaseRow, CredentialStatus, LeaseStatus
  <2> QED BY <2>1, <2>2 DEF AuthorizationInit
<1>3. binding \in [Revisions -> BindingRow]
  <2>1. NoBinding \in BindingRow /\ [NoBinding EXCEPT !.status = "active", !.epoch = 1] \in BindingRow
    BY <1>1 DEF NoBinding, BindingRow, BindingStatus
  <2> QED BY <2>1 DEF AuthorizationInit, FreshExecutor, AuthorizedExecutor
<1> QED
  BY <1>2, <1>3, <1>1 DEF AuthInv, AuthTypeOK, StateTypeOK, AuthorizationInit, FreshExecutor,
     AuthorizedExecutor, IdleVolume, DirStatus, HomeStatus, AuthInit, SessionRow, StagingStatus,
     ServicePc, NoRunner, RunnerRow, RunnerPc, SessionFacts, EndTogether, InStep, Prep,
     NothingPrepared, OneOngoing, Ongoing, CandidateKeepsFence, Resumes

LEMMA AuthNextKeeps ==
  ASSUME AuthInv, [AuthNext]_allAuthVars
  PROVE  AuthInv'
<1>2. ASSUME NEW s \in Sessions, RunnerStep(s) PROVE AuthInv'
  BY <1>2, WorkingTyped, DecidingTyped, PrepareTyped, StartupTyped, WorkingKeepsFacts,
     MarkKeepsFacts, PrepareKeepsFacts, CommittingKeepsFacts, ActivateKeepsFacts, FailKeepsFacts,
     QuarantineKeepsFacts, StartupKeepsFacts DEF RunnerStep, Working, Marking, AuthInv
<1>3. CASE UNCHANGED allAuthVars
  BY <1>3 DEF allAuthVars, stateVars, authVars, AuthInv, AuthTypeOK, StateTypeOK, SessionFacts,
     EndTogether, InStep, Prep, NothingPrepared, OneOngoing, CandidateKeepsFence, Resumes,
     FenceIntact
<1> QED
  BY <1>2, <1>3, DecidingTyped, CreateKeepsFacts, CancelKeepsFacts, ClaimTyped,
     ClaimKeepsFacts, StartupTyped, StartupKeepsFacts, InterruptKeepsFacts
     DEF AuthNext, AuthRequest, StartupStep, AuthInv

LEMMA AuthInvHolds == AuthSpec => []AuthInv
BY AuthInitHolds, AuthNextKeeps, PTL DEF AuthSpec

(* Every variable keeps its type. *)
THEOREM AuthorizationTyped == AuthSpec => []AuthTypeOK
<1>1. AuthInv => AuthTypeOK BY DEF AuthInv
<1> QED BY <1>1, AuthInvHolds, PTL

(* A session says succeeded exactly when its candidate has been activated, through lost answers,
   cancellations, crashes and recoveries. *)
THEOREM OutcomeIsTheCandidates == AuthSpec => []SessionOutcome
<1>1. AuthInv => SessionOutcome BY DEF AuthInv, SessionFacts, EndTogether, InStep, SessionOutcome
<1> QED BY <1>1, AuthInvHolds, PTL

(* No startup finds a session and its candidate decided differently, so
   ErrCredentialRecoveryRequired is never raised. *)
THEOREM RecoveryAlwaysConsistent == AuthSpec => []RecoveryConsistent
<1>1. AuthInv => RecoveryConsistent
  BY DEF RecoveryConsistent, AuthInv, SessionFacts, EndTogether, AuthTypeOK, SessionRow, Prep,
     Revisions, Inconsistent, Pending, InStep, Ended
<1> QED BY <1>1, AuthInvHolds, PTL

(* Nobody takes the executor's lease from a session with a candidate: the claim of the next
   startup is never refused as fenced. *)
THEOREM FenceIsKept == AuthSpec => []CandidateKeepsFence
<1>1. AuthInv => CandidateKeepsFence BY DEF AuthInv, SessionFacts
<1> QED BY <1>1, AuthInvHolds, PTL

(* An executor never has two sessions under way. *)
THEOREM OneSessionAtATime == AuthSpec => []OneOngoing
<1>1. AuthInv => OneOngoing BY DEF AuthInv, SessionFacts
<1> QED BY <1>1, AuthInvHolds, PTL

----
(* Ends are final. *)

EndedStays(s) ==
  session[s].status \in Ended =>
       /\ session'[s] = session[s]
       /\ Prep(s) # 0 /\ binding[Prep(s)].status # "active"
            => binding'[Prep(s)].status # "active"

LEMMA UntouchedStays ==
  ASSUME NEW s \in Sessions, UNCHANGED <<session, binding>>
  PROVE  EndedStays(s)
BY DEF EndedStays

LEMMA SessionWritesStay ==
  ASSUME AuthInv, NEW s \in Sessions, NEW r \in Sessions,
         \/ CreateAuthorizationSession(r) \/ CancelAuthorizationSession(r)
         \/ Marking(r) \/ FailAuthorizationSession(r) \/ QuarantineServerCredential(r)
  PROVE  EndedStays(s)
BY StateAssumption DEF CreateAuthorizationSession, CancelAuthorizationSession, Marking,
   MarkAuthorizationWaiting, MarkAuthorizationVerifying, MarkSession, FailAuthorizationSession,
   QuarantineServerCredential, AlreadyEnded, CanQuarantine, Ongoing, Ended, AuthInv, AuthTypeOK,
   StateTypeOK, WithStatus, BindingRow, SessionRow, Prep, Revisions, EndedStays

LEMMA CandidateWritesStay ==
  ASSUME AuthInv, NEW s \in Sessions, NEW r \in Sessions,
         \/ PrepareServerCredential(r) \/ MarkCredentialCommitting(r)
         \/ ActivateServerCredential(r) \/ ClaimServerCredentialRecovery(r)
  PROVE  EndedStays(s)
<1> SUFFICES ASSUME session[s].status \in Ended
             PROVE  /\ session'[s] = session[s]
                    /\ Prep(s) # 0 /\ binding[Prep(s)].status # "active"
                         => binding'[Prep(s)].status # "active"
  BY DEF EndedStays
<1>1. /\ binding \in [Revisions -> BindingRow] /\ session \in [Sessions -> SessionRow]
      /\ config.counter \in Nat /\ InStep(s) /\ InStep(r)
      /\ Prep(s) # 0 => Prep(s) \in Revisions
  BY DEF AuthInv, AuthTypeOK, StateTypeOK, ConfigRow, SessionRow, Prep, Revisions, SessionFacts,
     EndTogether
<1>3. CASE PrepareServerCredential(r) /\ ~UNCHANGED <<session, binding>>
  <2>1. PICK n, row : /\ CanPrepareServer(r) /\ n = config.counter + 1
                      /\ row.status = "prepared"
                      /\ binding' = [binding EXCEPT ![n] = row]
                      /\ session' = [session EXCEPT ![r].prep = n]
    BY <1>3 DEF PrepareServerCredential
  <2> QED BY <1>1, <2>1 DEF CanPrepareServer, Ended
<1> QED
  BY <1>3, <1>1 DEF MarkCredentialCommitting, WithStatus, BindingRow, ActivateServerCredential,
     CanActivate, CandidateIs, Ended, InStep, Switched, ClaimServerCredentialRecovery, Refenced

(* An ended session stays as it ended, and no late goroutine and no recovery activates the
   candidate of a cancelled or failed one. *)
THEOREM EndedSessionsAreFinal == AuthSpec => SessionIsFinal
<1>1. ASSUME AuthInv, [AuthNext]_allAuthVars, NEW s \in Sessions PROVE EndedStays(s)
  BY UntouchedStays, <1>1, SessionWritesStay, CandidateWritesStay, WorkingTyped DEF AuthInv,
     allAuthVars, authVars, stateVars, StartService, AuthLapse,
     RecoverAuthorizationCredentialTrees, AcceptRequests, Lapse, ServiceCrash, Interrupted, Ongoing,
     Ended, RecoverInterruptedAuthorizationSessions, EndedStays, RunnerStep, Working, Marking, Exit,
     AuthNext, AuthRequest, StartupStep
<1>2. AuthInv /\ [AuthNext]_allAuthVars =>
        [\A s \in Sessions : session[s].status \in Ended =>
           /\ session'[s] = session[s]
           /\ Prep(s) # 0 /\ binding[Prep(s)].status # "active"
                => binding'[Prep(s)].status # "active"]_allAuthVars
  BY <1>1 DEF EndedStays
<1> QED BY <1>2, AuthInvHolds, PTL DEF AuthSpec, SessionIsFinal

----
(* Even where the process's clock misjudges an expiry, only the session the lease was granted to
   last switches the credential, to its own candidate rotated from the current revision. *)
THEOREM LastGrantCommits == AuthSpec => LastGrantSwitches
<1>1. ASSUME AuthInv, [AuthNext]_allAuthVars PROVE [SwitchedByGrant]_config
  <2>1. ASSUME NEW s \in Sessions, ActivateServerCredential(s), ~UNCHANGED config
        PROVE  SwitchedByGrant
    BY <1>1, <2>1 DEF ActivateServerCredential, AuthInv, AuthTypeOK, StateTypeOK, ConfigRow,
       SwitchedByGrant, OfLastGrant, CanActivate, LeaseTuple, CandidateIs
  <2>2. ASSUME NEW s \in Sessions, PrepareServerCredential(s)
        PROVE  config'.current = config.current
    BY <1>1, <2>2 DEF PrepareServerCredential, AuthInv, AuthTypeOK, StateTypeOK, ConfigRow
  <2>3. \/ UNCHANGED config
        \/ \E s \in Sessions : ActivateServerCredential(s) \/ PrepareServerCredential(s)
    BY <1>1, WorkingTyped DEF AuthInv, AuthNext, AuthRequest, StartupStep, RunnerStep, Working,
       Marking, allAuthVars, stateVars, CreateAuthorizationSession, CancelAuthorizationSession,
       StartService, AuthLapse, Lapse, RecoverInterruptedAuthorizationSessions,
       RecoverAuthorizationCredentialTrees, AcceptRequests, ServiceCrash,
       ClaimServerCredentialRecovery, MarkCredentialCommitting, FailAuthorizationSession,
       QuarantineServerCredential, Exit
  <2> QED BY <2>1, <2>2, <2>3 DEF SwitchedByGrant, Switch
<1> QED BY <1>1, AuthInvHolds, PTL DEF AuthSpec, LastGrantSwitches
====
