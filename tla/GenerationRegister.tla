---- MODULE GenerationRegister ----
(* What a generation store promises the code above it: one value, replaced only by a successor of
   the next generation, and never again by an older one once a caller was told of it. Crashes and
   power losses do not show. *)
EXTENDS Naturals

CONSTANTS
    Records,                \* [gen, data] records
    None,                   \* nothing stored yet
    Successor(_, _)         \* validSuccessor of the store

VARIABLES
    value,      \* the record a reader gets
    told        \* the newest record a caller was given

vars == <<value, told>>

Follows(old, new) == IF old = None THEN new.gen = 1 ELSE Successor(old, new)

Init == value = None /\ told = None

Commit == /\ \E r \in Records : Follows(value, r) /\ value' = r
          /\ UNCHANGED told

Tell == told' = value /\ UNCHANGED value

Next == Commit \/ Tell

Spec == Init /\ [][Next]_vars
====
