---- MODULE OperationFence ----
(* What the lease of an executor promises, whoever implements it: one operation at a time works
   from the current credential, under an epoch nobody else ever had; only that operation may
   replace the credential, by a revision that was never current before; an operation that ended
   never holds the executor again. *)
EXTENDS Naturals

CONSTANTS
    Operations,     \* control tasks and authorization sessions
    Credentials,    \* credential revisions, numbered from 1
    Nobody          \* no operation; not one of Operations

VARIABLES
    epoch,      \* how often the executor was acquired
    holder,     \* the operation that may write, or Nobody
    source,     \* the credential the last holder started from
    current,    \* the credential in use, 0 for none
    retired,    \* credentials that were in use
    ended       \* operations that are over

fence == <<epoch, holder, source, current, retired, ended>>

FenceTypeOK ==
  /\ epoch \in Nat
  /\ holder \in Operations \cup {Nobody}
  /\ source \in Credentials \cup {0}
  /\ current \in Credentials \cup {0}
  /\ retired \subseteq Credentials
  /\ ended \subseteq Operations

Init ==
  /\ epoch \in Nat
  /\ holder = Nobody
  /\ source = 0
  /\ current \in Credentials \cup {0}
  /\ retired = {}
  /\ ended = {}

Acquire(o) ==
  /\ holder = Nobody
  /\ o \notin ended
  /\ epoch' = epoch + 1
  /\ holder' = o
  /\ source' = current
  /\ UNCHANGED <<current, retired, ended>>

Lapse ==
  /\ holder' = Nobody
  /\ UNCHANGED <<epoch, source, current, retired, ended>>

(* The end of some operations; the executor is free if its holder is one. *)
End(S) ==
  /\ S \cap ended = {}
  /\ ended' = ended \cup S
  /\ holder' = IF holder \in S THEN Nobody ELSE holder
  /\ UNCHANGED <<epoch, source, current, retired>>

Replace(c) ==
  /\ holder # Nobody
  /\ source = current
  /\ c \notin retired \cup {current}
  /\ current' = c
  /\ retired' = retired \cup ({current} \ {0})
  /\ ended' = ended \cup {holder}
  /\ holder' = Nobody
  /\ UNCHANGED <<epoch, source>>

(* A revocation leaves no credential; a forced one ends every operation. *)
Revoke(S) ==
  /\ current # 0
  /\ S \cap ended = {}
  /\ holder' = Nobody
  /\ current' = 0
  /\ retired' = retired \cup {current}
  /\ ended' = ended \cup S
  /\ UNCHANGED <<epoch, source>>

Next ==
  \/ \E o \in Operations : Acquire(o)
  \/ Lapse
  \/ \E S \in SUBSET Operations : End(S) \/ Revoke(S)
  \/ \E c \in Credentials : Replace(c)

Spec == Init /\ [][Next]_fence
====
