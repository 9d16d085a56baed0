---- MODULE ActivationLeaseProofs ----
(* An activation lease excludes all others while its fence is fresh. *)
EXTENDS ActivationLease, TLAPS

(* What the desktop keeps was granted. *)
Granted(a, t) == \E e \in server.ledger : e.act = a /\ e.at = t

Ends(a, t) == LET x == t + LeaseTTL
                  y == server.prepared[a] + ActivationTTL
              IN  IF x <= y THEN x ELSE y

Covered(a, t) ==
  Ends(a, t) <= clock \/ (server.holder = a /\ Ends(a, t) <= server.expires)

ServerTyped ==
  /\ clock \in Nat
  /\ DOMAIN server = {"status", "prepared", "holder", "expires", "ledger"}
  /\ server.status \in [Activations -> {"none", "pending", "activated", "ended"}]
  /\ server.prepared \in [Activations -> Nat]
  /\ server.expires \in Nat
  /\ server.ledger \subseteq [act : Activations, id : Nat, at : Nat]
  /\ wire \subseteq [act : Activations, id : Nat]

LedgerInv ==
  \A e \in server.ledger :
      /\ e.at <= clock
      /\ server.status[e.act] # "none"
      /\ server.status[e.act] = "pending" => Covered(e.act, e.at)

DesktopInv ==
  /\ DOMAIN fence = Activations /\ DOMAIN journal = Activations
  /\ DOMAIN flow = DOMAIN Idle
  /\ signed \in Nat
  /\ \A a \in Activations :
        /\ journal[a] # None => journal[a].id \in Nat
        /\ journal[a] # None /\ journal[a].answer = "ok" => Granted(a, journal[a].at)
        /\ (/\ fence[a] # None /\ fence[a].status = "fresh"
            /\ server.status[a] \in {"none", "pending"}) => Granted(a, fence[a].at)
        /\ flow.act = a /\ flow.flight = "persist" => Granted(a, flow.at)
        /\ flow.act = a /\ flow.stage = "remove" => server.status[a] = "activated"
        /\ flow.act = a /\ flow.stage = "cancelling" => server.status[a] = "ended"

ServerInv == ServerTyped /\ LedgerInv
LeaseInv == ServerInv /\ DesktopInv

LEMMA MinOfTwo ==
  ASSUME NEW x \in Nat, NEW y \in Nat
  PROVE  Min({x, y}) = IF x <= y THEN x ELSE y
BY DEF Min

LEMMA ExpiryOf ==
  ASSUME TimesAssumption, ServerTyped, NEW a \in Activations, NEW t \in Nat
  PROVE  LeaseExpiry(a, t) = Ends(a, t) /\ LeaseExpiry(a, t) \in Nat
BY MinOfTwo DEF TimesAssumption, ServerTyped, LeaseExpiry, Ends

(* A grant stays covered while its lease goes on or ran out. *)
LEMMA GrantsStayCovered ==
  ASSUME TimesAssumption, LeaseInv, ServerTyped', clock <= clock',
         server'.ledger = server.ledger,
         \A a \in Activations : server.status[a] # "none" =>
             /\ server'.status[a] # "none"
             /\ server'.status[a] = "pending" =>
                   /\ server.status[a] = "pending" /\ server'.prepared[a] = server.prepared[a]
                   /\ \/ server'.holder = a /\ server.expires <= server'.expires
                      \/ server.holder # a
                      \/ server.expires <= clock'
  PROVE  LedgerInv'
BY DEF LeaseInv, ServerInv, ServerTyped, LedgerInv, Covered, Ends, TimesAssumption

LEMMA ServerKeeps ==
  ASSUME TimesAssumption, BoundsAssumption, LeaseInv, Next
  PROVE  ServerInv'
<1> USE GrantsStayCovered DEF LeaseInv, ServerInv, ServerTyped, TimesAssumption
<1>1. ASSUME NEW a \in Activations, Prepare(a) PROVE ServerInv'
  <2>1. Min({LeaseTTL, ActivationTTL}) \in Nat BY MinOfTwo
  <2>2. ServerTyped' BY <1>1, <2>1 DEF Prepare
  <2> QED BY <1>1, <2>2 DEF Prepare, LeaseFree, BoundsAssumption
<1>2. ASSUME NEW a \in Activations, Reconcile(a) \/ Cancel(a) PROVE ServerInv'
  <2>1. /\ server' = [server EXCEPT !.status[a] = "ended",
                        !.holder = IF server.holder = a THEN None ELSE server.holder]
        /\ UNCHANGED <<clock, wire>>
    BY <1>2 DEF Reconcile, Cancel
  <2> QED BY <2>1
<1>3. ASSUME NEW a \in Activations, Acknowledge(a) PROVE ServerInv'
  <2>1. CASE server' = [server EXCEPT !.status[a] = "activated", !.holder = None] /\ Live(a)
    BY <1>3, <2>1 DEF Acknowledge, Live
  <2>2. CASE UNCHANGED server BY <1>3, <2>2 DEF Acknowledge
  <2> QED BY <1>3, <2>1, <2>2 DEF Acknowledge
<1>4. CASE Takeover
  <2>1. ServerTyped' /\ server'.ledger = server.ledger BY <1>4 DEF Takeover
  <2> QED BY <1>4, <2>1 DEF Takeover, LeaseFree, BoundsAssumption
<1>5. ASSUME NEW m \in wire, Serve(m) PROVE ServerInv'
  <2>1. clock' = clock /\ wire' = wire \ {m} BY <1>5 DEF Serve
  <2>2. CASE server' = server BY <2>1, <2>2
  <2>3. CASE /\ Accepts(m.act)
             /\ server' = [server EXCEPT
                  !.ledger = @ \cup {[act |-> m.act, id |-> m.id, at |-> clock]},
                  !.expires = IF server.holder = m.act THEN LeaseExpiry(m.act, clock) ELSE @]
    <3>1. LeaseExpiry(m.act, clock) = Ends(m.act, clock) /\ LeaseExpiry(m.act, clock) \in Nat
      BY ExpiryOf
    <3> HIDE GrantsStayCovered
    <3> QED BY <2>1, <2>3, <3>1 DEF Accepts, Live, LedgerInv, Covered, Ends
  <2> HIDE GrantsStayCovered
  <2> QED BY <1>5, <2>2, <2>3 DEF Serve
<1>6. ASSUME NEW a \in Activations, Send(a) PROVE ServerInv' BY <1>6 DEF Send, DesktopInv
<1>7. CASE Tick \/ UNCHANGED <<clock, server, wire>> BY <1>7 DEF Tick
<1> HIDE GrantsStayCovered DEF LeaseInv, ServerInv, ServerTyped, TimesAssumption
<1> QED
  BY <1>1, <1>2, <1>3, <1>4, <1>5, <1>6, <1>7 DEF Next, PersistRenewal, CompleteRequest,
     RequireFresh, Remove, Finish, Resume, RequestFails, Renew, StopAndRenewFresh, Abort, Crash

(* A step of the desktop that remembers no new grant. *)
Quiet(f) ==
  /\ DOMAIN f = DOMAIN Idle
  /\ f.act = flow.act
  /\ f.stage \in {"remove", "cancelling"} => f.stage = flow.stage
  /\ f.flight = "persist" => f.at = flow.at /\ flow.flight = "persist"

LEMMA QuietSteps ==
  ASSUME DesktopInv
  PROVE  /\ Quiet(flow) /\ Quiet(Landed) /\ Quiet(FlightFails) /\ Quiet(FlightSucceeds)
         /\ \A stage \in {"down", "done", "failed", "cancelled"} : Quiet(Settles(stage))
BY DEF DesktopInv, Quiet, Idle, Landed, FlightFails, FlightSucceeds, Settles

LEMMA QuietKeeps ==
  ASSUME DesktopInv, Quiet(flow'), DOMAIN journal' = Activations, DOMAIN fence' = Activations,
         signed' \in Nat, server.ledger \subseteq server'.ledger, server'.status = server.status,
         \A a \in Activations :
            /\ \/ journal'[a] \in {journal[a], None}
               \/ /\ journal'[a].id \in Nat
                  /\ journal'[a].answer = "ok" =>
                        \E e \in server'.ledger : e.act = a /\ e.at = journal'[a].at
            /\ \/ fence'[a] = fence[a]
               \/ fence'[a].status = "fresh" /\ server.status[a] \in {"none", "pending"} =>
                     Granted(a, fence'[a].at)
  PROVE  DesktopInv'
BY DEF DesktopInv, Quiet, Granted

LEMMA DesktopKeeps ==
  ASSUME LeaseInv, Next
  PROVE  DesktopInv'
<1> USE DEF LeaseInv, ServerInv, DesktopInv
<1>1. ASSUME NEW a \in Activations, Prepare(a) \/ Reconcile(a) \/ Cancel(a) PROVE DesktopInv'
  <2>1. CASE Prepare(a) BY <2>1 DEF Prepare, Granted
  <2>2. CASE Reconcile(a) BY <2>2 DEF Reconcile, Granted
  <2>3. CASE Cancel(a) BY <2>3 DEF Cancel, ServerTyped, Granted
  <2> QED BY <1>1, <2>1, <2>2, <2>3
<1>2. ASSUME NEW a \in Activations, Send(a) PROVE DesktopInv'
  <2>1. CASE Quiet(flow') BY <1>2, <2>1, QuietKeeps DEF Send
  <2>2. CASE /\ journal[a] # None /\ journal[a].answer = "ok"
             /\ flow' = [flow EXCEPT !.flight = "persist", !.id = journal[a].id,
                           !.at = journal[a].at, !.replayed = journal[a].replayed,
                           !.recovered = Recovered(journal[a])]
    BY <1>2, <2>2 DEF Send, Granted
  <2>3. ASSUME NEW id, flow' = [flow EXCEPT !.flight = "await", !.since = clock, !.id = id,
                                            !.recovered = Recovered(journal[a])]
        PROVE  Quiet(flow')
    BY <2>3 DEF Quiet
  <2>4. flow' = FlightFails => Quiet(flow') BY QuietSteps
  <2> HIDE DEF LeaseInv, DesktopInv
  <2> QED BY <1>2, <2>1, <2>2, <2>3, <2>4 DEF Send
<1>3. ASSUME NEW m \in wire, Serve(m) PROVE DesktopInv'
  <2> DEFINE again == Accepted(m) # {}
             at == IF again THEN (CHOOSE e \in Accepted(m) : TRUE).at ELSE clock
             ok == again \/ Accepts(m.act)
             answered == [flow EXCEPT !.flight = "persist", !.since = 0, !.at = at,
                                      !.replayed = again]
  <2>1. /\ server'.status = server.status /\ server.ledger \subseteq server'.ledger
        /\ ok => \E e \in server'.ledger : e.act = m.act /\ e.at = at
    <3>1. server' = IF again \/ ~ok THEN server
                    ELSE [server EXCEPT
                            !.ledger = @ \cup {[act |-> m.act, id |-> m.id, at |-> clock]},
                            !.expires = IF server.holder = m.act
                                        THEN LeaseExpiry(m.act, clock) ELSE @]
      BY <1>3 DEF Serve
    <3>2. CASE again BY <3>1, <3>2 DEF Accepted
    <3>3. CASE ~again /\ ok
      <4> DEFINE new == [act |-> m.act, id |-> m.id, at |-> clock]
      <4>1. server'.ledger = server.ledger \cup {new} /\ server'.status = server.status
        BY <3>1, <3>3
      <4>2. new.act = m.act /\ new.at = at BY <3>3
      <4> HIDE DEF new
      <4> QED BY <4>1, <4>2
    <3> QED BY <3>1, <3>2, <3>3
  <2>2. m.act \in Activations /\ m.id \in Nat /\ UNCHANGED <<fence, signed>>
    BY <1>3 DEF Serve, ServerTyped
  <2>3. \/ UNCHANGED <<journal, flow>>
        \/ /\ journal' = [journal EXCEPT ![m.act] =
                 [id |-> m.id, answer |-> IF ok THEN "ok" ELSE "rejected",
                  at |-> IF ok THEN at ELSE 0, replayed |-> again]]
           /\ Quiet(flow') \/ (ok /\ flow.act = m.act /\ flow' = answered)
    BY <1>3, QuietSteps DEF Serve, AfterAnswer
  <2> HIDE DEF again, at, ok
  <2>4. CASE Quiet(flow') BY <2>1, <2>2, <2>3, <2>4, QuietKeeps
  <2>5. CASE ok /\ flow.act = m.act /\ flow' = answered BY <2>1, <2>2, <2>3, <2>5 DEF Granted
  <2> QED BY <2>3, <2>4, <2>5, QuietSteps
<1>4. ASSUME NEW a \in Activations, Acknowledge(a) PROVE DesktopInv'
  <2>1. CASE /\ server' = [server EXCEPT !.status[a] = "activated", !.holder = None]
             /\ flow' = Settles("remove")
    BY <1>4, <2>1 DEF Acknowledge, Settles, Idle, ServerTyped, Granted
  <2>2. CASE UNCHANGED server /\ flow' = [flow EXCEPT !.stage = "failing"]
    BY <1>4, <2>2, QuietKeeps DEF Acknowledge, Quiet
  <2> QED BY <1>4, <2>1, <2>2 DEF Acknowledge
<1>5. ASSUME NEW a \in Activations, PersistRenewal(a) \/ Remove(a) \/ Finish(a) PROVE DesktopInv'
  BY <1>5, QuietSteps, QuietKeeps DEF PersistRenewal, Candidate, Remove, Finish, Writes, Quiet,
     Idle
<1>6. CASE Crash BY <1>6, QuietSteps, QuietKeeps DEF Crash, Writes, Candidate
<1>7. ASSUME NEW a \in Activations, CompleteRequest(a) \/ Resume(a) PROVE DesktopInv'
  <2>1. /\ Quiet([FlightSucceeds EXCEPT !.flight = "send", !.asked = clock])
        /\ Quiet([Landed EXCEPT !.flight = "send", !.second = TRUE])
        /\ Quiet([Idle EXCEPT !.act = flow.act, !.stage = "start", !.running = TRUE,
                              !.flight = "send", !.asked = clock])
    BY QuietSteps DEF Quiet
  <2> QED BY <1>7, <2>1, QuietSteps, QuietKeeps DEF CompleteRequest, Resume
<1>8. CASE (\E a \in Activations : RequireFresh(a)) \/ Renew \/ StopAndRenewFresh \/ Abort
  <2>1. Quiet(flow')
    <3>1. CASE StopAndRenewFresh BY <3>1 DEF StopAndRenewFresh, Quiet
    <3> QED BY <1>8, <3>1 DEF RequireFresh, Renew, Abort, Quiet, Idle
  <2> QED BY <1>8, <2>1, QuietKeeps DEF RequireFresh, Renew, StopAndRenewFresh, Abort
<1>9. CASE RequestFails BY <1>9, QuietSteps, QuietKeeps DEF RequestFails
<1>10. CASE Tick \/ Takeover BY <1>10, QuietSteps, QuietKeeps DEF Tick, Takeover, ServerTyped
<1> HIDE DEF LeaseInv, ServerInv, DesktopInv
<1> QED BY <1>1, <1>2, <1>3, <1>4, <1>5, <1>6, <1>7, <1>8, <1>9, <1>10 DEF Next

LEMMA LeaseInvHolds ==
  ASSUME TimesAssumption, BoundsAssumption
  PROVE  Spec => []LeaseInv
<1>1. Init => LeaseInv BY DEF Init, LeaseInv, ServerInv, ServerTyped, LedgerInv, DesktopInv, Idle
<1>2. LeaseInv /\ [Next]_vars => LeaseInv'
  <2>1. LeaseInv /\ Next => LeaseInv' BY ServerKeeps, DesktopKeeps DEF LeaseInv
  <2>2. LeaseInv /\ UNCHANGED vars => LeaseInv'
    BY DEF vars, LeaseInv, ServerInv, ServerTyped, LedgerInv, DesktopInv, Covered, Ends, Granted
  <2> QED BY <2>1, <2>2
<1> QED BY <1>1, <1>2, PTL DEF Spec

(* Whatever the skew of the desktop's clock, whatever is lost, replayed, delayed or crashes: a
   fence that is fresh by that clock means that the server gives the executor to nobody else
   while the activation is pending, to the end of the lease it granted (requireFresh of the fence
   store; a clock that is behind passes it after that, for no longer than it is behind). *)
THEOREM FreshLeaseExcludes ==
  ASSUME TimesAssumption, BoundsAssumption
  PROVE  Spec => []ExclusiveWhileFresh
<1>1. LeaseInv => ExclusiveWhileFresh
  <2> SUFFICES ASSUME LeaseInv, NEW a \in Activations, fence[a] # None,
                      server.status[a] = "pending", Fresh(a, fence[a]),
                      LeaseExpiry(a, fence[a].at) \notin (LocalTime + 1)..clock
               PROVE  server.holder = a
    BY DEF ExclusiveWhileFresh
  <2>1. PICK e \in server.ledger : e.act = a /\ e.at = fence[a].at
    BY DEF LeaseInv, DesktopInv, Fresh, Granted
  <2>2. Covered(a, e.at) /\ e.at \in Nat BY <2>1 DEF LeaseInv, ServerInv, LedgerInv, ServerTyped
  <2>3. clock < Ends(a, e.at)
    BY <2>1, <2>2, ExpiryOf
       DEF Fresh, LocalTime, BoundsAssumption, LeaseInv, ServerInv, ServerTyped
  <2> QED BY <2>2, <2>3 DEF Covered, LeaseInv, ServerInv, ServerTyped, Ends, TimesAssumption
<1> QED BY <1>1, LeaseInvHolds, PTL
====
