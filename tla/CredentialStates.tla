---- MODULE CredentialStates ----
(* What the directories promise DesktopSession: both only move forward, in order. *)
VARIABLE tree

(* partial: without a whole fence. *)
Init == tree = [staging |-> "none", promotion |-> "none"]

Staged(from, to) == tree.staging = from /\ tree' = [tree EXCEPT !.staging = to]
Promoted(from, to) == tree.promotion = from /\ tree' = [tree EXCEPT !.promotion = to]

Create == Staged("none", "partial") \/ Staged("partial", "live") \/ Staged("none", "live")
Undo == Staged("partial", "none")
Prepare == tree.staging = "live" /\ Promoted("none", "prepared")
Move == tree.promotion = "prepared" /\ Staged("live", "moved")
Verify == tree.staging = "moved" /\ Promoted("prepared", "verified")
Acknowledge == Promoted("verified", "acknowledged") \/ Promoted("acknowledged", "removed")
Quarantine == Staged("live", "quarantined") \/ Promoted("verified", "quarantined")

Next == Create \/ Undo \/ Prepare \/ Move \/ Verify \/ Acknowledge \/ Quarantine

Spec == Init /\ [][Next]_tree
====
