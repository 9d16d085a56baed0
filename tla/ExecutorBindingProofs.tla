---- MODULE ExecutorBindingProofs ----
(* A binding's record follows the server, for any number of decisions and failed writes. *)
EXTENDS ExecutorBinding, TLAPS

(* The decisions are ordered by epoch and revision, each answers its neighbour. *)
Before(d, e) ==
  /\ d.epoch <= e.epoch /\ d.revision <= e.revision
  /\ e.kind = "activate" => d.revision < e.revision
  /\ e.kind = "revoke" => d.epoch < e.epoch

Answers(d, e) ==
  IF e.kind = "activate"
  THEN e.source = (IF d.kind = "activate" THEN d.revision ELSE 0) /\ e.epoch = d.epoch
  ELSE d.kind = "activate" /\ e.revision = d.revision /\ e.epoch = d.epoch + 1

ServerInv ==
  /\ decided \in Seq(Decision)
  /\ \A i \in 1..Len(decided) :
        /\ decided[i].revision > 0
        /\ i > 1 => Answers(decided[i-1], decided[i])
        /\ \A j \in 1..(i-1) : Before(decided[j], decided[i])

StandsFor(r, d) ==
  /\ r.activation.revision = d.revision /\ r.epoch = d.epoch
  /\ IF r.status = "active" THEN d.kind = "activate" /\ r.activation = d
     ELSE d.kind = "revoke" /\ r.revocation = d

(* A logout moves revisions up to the record's away, and none in use. *)
Guarded(r) ==
  \A q \in quarantined :
     q <= r.activation.revision /\ (r.status = "active" => q < r.activation.revision)

RecordInv ==
  /\ binding \in {None, Torn} \cup Record
  /\ quarantined \subseteq Nat
  /\ place \in 0..Len(decided)
  /\ binding = None => place = 0 /\ quarantined = {}
  /\ binding \in Record =>
        place > 0 /\ StandsFor(binding, decided[place]) /\ Guarded(binding)

BindingInv == ServerInv /\ RecordInv

(* The record only moves on to the next decision. *)
LEMMA NextInOrder ==
  ASSUME BindingAssumption, BindingInv, binding \in Record, NEW i \in 1..Len(decided),
         \/ decided[i].kind = "activate" /\ Follows(decided[i])
         \/ decided[i].kind = "revoke" /\ IsAt("active") /\ Targets(decided[i])
  PROVE  i = place + 1
<1> DEFINE p == place
           d == decided
<1>1. p \in 1..Len(d) /\ StandsFor(binding, d[p]) /\ d[p] \in Decision /\ d[i] \in Decision
  BY DEF BindingInv, ServerInv, RecordInv
<1>2. binding \notin {None, Torn} BY DEF BindingAssumption
<1>3. /\ d[i].kind = "activate" => d[p].revision < d[i].revision /\ d[i].epoch = d[p].epoch
      /\ d[i].kind = "revoke" => d[i].revision = d[p].revision /\ d[i].epoch = d[p].epoch + 1
  BY <1>1, <1>2 DEF Follows, Targets, StandsFor
<1>4. i > p
  <2> SUFFICES ASSUME i < p PROVE FALSE BY <1>1, <1>3 DEF Decision
  <2>1. Before(d[i], d[p]) BY <1>1 DEF BindingInv, ServerInv
  <2> QED BY <1>1, <1>3, <2>1 DEF Before, Decision
<1>5. ASSUME i - 1 > p PROVE FALSE
  <2>1. /\ Before(d[p], d[i-1]) /\ Answers(d[i-1], d[i]) /\ d[i-1] \in Decision
        /\ d[p].revision > 0
    BY <1>1, <1>5 DEF BindingInv, ServerInv
  <2> QED BY <1>1, <1>2, <1>3, <2>1 DEF Before, Answers, Decision, StandsFor, Follows, IsAt
<1> QED BY <1>1, <1>4, <1>5

(* The decisions stay ordered. *)
LEMMA ServerStep ==
  ASSUME ServerInv, ServerActivates \/ ServerRevokes
  PROVE  /\ ServerInv' /\ Len(decided') = Len(decided) + 1
         /\ \A i \in 1..Len(decided) : decided'[i] = decided[i]
<1> DEFINE n == Len(decided)
<1>1. PICK d \in Decision :
        /\ decided' = Append(decided, d) /\ d.revision > 0
        /\ n > 0 => Answers(decided[n], d) /\ Before(decided[n], d)
  <2>1. /\ Held \in Decision /\ n \in Nat
        /\ n > 0 => Held = decided[n] /\ Held.revision > 0
        /\ n = 0 => Held.kind = "revoke"
    <3>1. CASE decided = <<>> BY <3>1 DEF Held, Revocation, Decision
    <3>2. CASE decided # <<>>
      <4>1. n \in 1..n /\ Held = decided[n] /\ decided[n] \in Decision BY <3>2 DEF ServerInv, Held
      <4> QED BY <4>1 DEF ServerInv
    <3> QED BY <3>1, <3>2
  <2>2. CASE ServerActivates
    BY <2>1, <2>2 DEF ServerActivates, ServerDecides, Activation, Decision, Answers, Before
  <2>3. CASE ServerRevokes
    BY <2>1, <2>3 DEF ServerRevokes, ServerDecides, Revocation, Decision, Answers, Before
  <2> QED BY <2>2, <2>3
<1>2. /\ decided' \in Seq(Decision) /\ Len(decided') = n + 1 /\ decided'[n + 1] = d
      /\ \A i \in 1..n : decided'[i] = decided[i] /\ decided[i] \in Decision
      /\ n \in Nat
  BY <1>1 DEF ServerInv
<1>3. \A j \in 1..n : Before(decided[j], d)
  <2> TAKE j \in 1..n
  <2>1. /\ decided[j] \in Decision /\ decided[n] \in Decision /\ n > 0
        /\ j = n \/ Before(decided[j], decided[n])
    BY <1>2 DEF ServerInv
  <2> QED BY <1>1, <2>1 DEF Before, Decision
<1> HIDE DEF n
<1>4. ASSUME NEW i \in 1..(n+1)
      PROVE  /\ decided'[i].revision > 0
             /\ i > 1 => Answers(decided'[i-1], decided'[i])
             /\ \A j \in 1..(i-1) : Before(decided'[j], decided'[i])
  <2>1. CASE i = n + 1 BY <1>1, <1>2, <1>3, <2>1
  <2>2. CASE i \in 1..n
    <3>1. \A k \in 1..i : k \in 1..n /\ decided'[k] = decided[k] BY <1>2, <2>2
    <3> QED BY <2>2, <3>1 DEF ServerInv, n
  <2> QED BY <1>2, <2>1, <2>2
<1> QED BY <1>2, <1>4 DEF ServerInv, n

(* A durable write of the next record, done or torn. *)
LEMMA WriteStep ==
  ASSUME BindingAssumption, BindingInv, NEW r \in Record, NEW i \in 1..Len(decided),
         StandsFor(r, decided[i]), Guarded(r), WriteAtomic(r, i)
  PROVE  BindingInv'
<1>1. ServerInv' /\ decided' = decided /\ quarantined' = quarantined
  BY DEF WriteAtomic, BindingInv, ServerInv
<1>2. r \notin {None, Torn} /\ Torn \notin Record \cup {None} BY DEF BindingAssumption
<1>3. CASE UNCHANGED place /\ binding' = Torn BY <1>1, <1>2, <1>3 DEF BindingInv, RecordInv
<1>4. CASE binding' = r /\ place' = i BY <1>1, <1>2, <1>4 DEF BindingInv, RecordInv, Guarded
<1> QED BY <1>3, <1>4 DEF WriteAtomic

LEMMA BindingStep ==
  ASSUME BindingAssumption, BindingInv, [Next]_vars
  PROVE  BindingInv' /\ (place' \in {place, place + 1} \/ place = 0)
<1> USE DEF BindingInv
<1>1. None \notin Record /\ Torn \notin Record \cup {None} BY DEF BindingAssumption
<1>2. DOMAIN decided = 1..Len(decided) /\ \A i \in DOMAIN decided : decided[i] \in Decision
  BY DEF ServerInv
<1>3. CASE ServerActivates \/ ServerRevokes
  <2>1. UNCHANGED <<binding, place, quarantined>>
    BY <1>3 DEF ServerActivates, ServerRevokes, ServerDecides
  <2>2. place' \in 0..Len(decided') /\ (place > 0 => decided'[place] = decided[place])
    BY <1>3, <2>1, ServerStep DEF RecordInv, ServerInv
  <2> QED BY <1>3, <2>1, <2>2, ServerStep DEF RecordInv, Guarded
<1>4. ASSUME NEW i \in Activations, Activate(i)
      PROVE  BindingInv' /\ (place' \in {place, i} /\ (place # 0 => i = place + 1))
  <2>1. /\ i \in 1..Len(decided) /\ decided[i].kind = "activate" /\ decided[i] \in Decision
        /\ binding = None \/ binding \in Record
    BY <1>2, <1>4 DEF Activations, Activate, Readable, RecordInv
  <2>2. Activated(decided[i]) \in Record /\ StandsFor(Activated(decided[i]), decided[i])
    BY <2>1 DEF Activated, Record, Decision, StandsFor
  <2>3. place # 0 => i = place + 1 BY <1>4, <2>1, NextInOrder DEF Activate, RecordInv
  <2>4. Guarded(Activated(decided[i]))
    <3>1. CASE binding = None BY <3>1 DEF Guarded, RecordInv
    <3>2. CASE binding \in Record
      <4>1. decided[i].revision > binding.activation.revision
        BY <1>1, <1>4, <3>2 DEF Activate, Follows
      <4>2. {decided[i].revision, binding.activation.revision} \subseteq Nat
        BY <2>1, <3>2 DEF Record, Decision
      <4>3. \A q \in quarantined : q \in Nat /\ q <= binding.activation.revision
        BY <3>2 DEF RecordInv, Guarded
      <4> QED BY <4>1, <4>2, <4>3 DEF Guarded, Activated
    <3> QED BY <2>1, <3>1, <3>2
  <2> QED BY <1>4, <2>1, <2>2, <2>3, <2>4, WriteStep DEF Activate, WriteAtomic
<1>5. ASSUME NEW i \in Revocations, BeginRevocation(i)
      PROVE  BindingInv' /\ place' \in {place, place + 1}
  <2>1. /\ i \in 1..Len(decided) /\ decided[i].kind = "revoke" /\ decided[i] \in Decision
        /\ binding \in Record /\ binding.status = "active"
    BY <1>2, <1>5 DEF Activations, Revocations, BeginRevocation, IsAt, RecordInv, Decision
  <2>2. /\ Revoking(binding, decided[i]) \in Record
        /\ StandsFor(Revoking(binding, decided[i]), decided[i])
    BY <1>5, <2>1 DEF Revoking, Record, Decision, StandsFor, BeginRevocation, Targets
  <2>3. i = place + 1 BY <1>5, <2>1, NextInOrder DEF BeginRevocation
  <2>4. Guarded(Revoking(binding, decided[i])) BY <2>1 DEF Guarded, RecordInv, Revoking
  <2> QED BY <1>5, <2>1, <2>2, <2>3, <2>4, WriteStep DEF BeginRevocation, WriteAtomic
<1>6. ASSUME NEW i \in Revocations, Fenced(decided[i])
      PROVE  /\ i \in 1..Len(decided) /\ binding \in Record /\ binding.status # "active"
             /\ place \in 1..Len(decided) /\ binding.activation.revision = decided[i].revision
  BY <1>6 DEF Revocations, ServerInv, Fenced, IsAt, RecordInv, StandsFor
<1>7. ASSUME NEW i \in Revocations, Quarantine(i) PROVE BindingInv' /\ place' = place
  <2>1. /\ i \in 1..Len(decided) /\ binding \in Record /\ binding.status # "active"
        /\ binding.activation.revision = decided[i].revision
        /\ UNCHANGED <<decided, binding, place>>
        /\ quarantined' = quarantined \cup {decided[i].revision}
    BY <1>6, <1>7 DEF Quarantine
  <2>2. ServerInv' BY <2>1 DEF ServerInv
  <2>3. decided[i].revision \in Nat BY <1>2, <2>1 DEF Decision
  <2>4. \A q \in quarantined' : q \in Nat /\ q <= binding.activation.revision
    BY <2>1, <2>3 DEF RecordInv, Guarded
  <2>5. Guarded(binding)' BY <2>1, <2>4 DEF Guarded
  <2> QED BY <1>1, <2>1, <2>2, <2>4, <2>5 DEF RecordInv
<1>8. ASSUME NEW i \in Revocations, NEW result \in Results, MarkRevoked(i, result)
      PROVE  BindingInv' /\ place' = place
  <2>1. binding \in Record /\ binding.status = "revoking" /\ place \in 1..Len(decided)
    BY <1>6, <1>8 DEF MarkRevoked, IsAt
  <2>2. /\ Revoked(binding, result) \in Record
        /\ StandsFor(Revoked(binding, result), decided[place])
    BY <2>1 DEF Revoked, Record, StandsFor, RecordInv
  <2>3. Guarded(Revoked(binding, result)) BY <2>1 DEF Guarded, RecordInv, Revoked
  <2> QED BY <1>8, <2>1, <2>2, <2>3, WriteStep DEF MarkRevoked, WriteAtomic
<1>9. CASE UNCHANGED vars BY <1>9 DEF vars, ServerInv, RecordInv, Guarded
<1> QED BY <1>3, <1>4, <1>5, <1>7, <1>8, <1>9 DEF Next

(* From its first decision on the record goes through the server's decisions in the server's
   order and misses none, and a revision a logout moved away is never the one in use
   (activate, beginRevocation, markRevoked). *)
THEOREM BindingFollowsServer ==
  ASSUME BindingAssumption
  PROVE  Spec => FollowsServer /\ []MovedIsNotActive
<1>1. Init => BindingInv BY DEF BindingAssumption, Init, BindingInv, ServerInv, RecordInv
<1>2. BindingInv => MovedIsNotActive
  BY DEF BindingInv, RecordInv, Guarded, MovedIsNotActive, IsAt, Record
<1>3. BindingInv /\ [Next]_vars =>
        BindingInv' /\ [place' \in {place, place + 1} \/ place = 0]_vars
  BY BindingStep
<1> QED BY <1>1, <1>2, <1>3, PTL DEF Spec, FollowsServer
====
