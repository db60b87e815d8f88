--------------------------- MODULE SessionContract ---------------------------
(***************************************************************************)
(* What a session promises, whatever its threads do: it admits batches     *)
(* only while it is active, it ends only when they all completed, and a    *)
(* session whose end was made durable never comes back.                    *)
(***************************************************************************)
CONSTANT Batches

VARIABLES
    mode,    \* DOWN (no process holds it), ACTIVE, ENDING or ENDED
    running, \* the batches admitted and not completed
    sealed   \* the end is on disk

vars == <<mode, running, sealed>>

Init == mode = "DOWN" /\ running = {} /\ sealed = FALSE

Open ==
    /\ mode = "DOWN" /\ ~sealed
    /\ mode' = "ACTIVE"
    /\ UNCHANGED <<running, sealed>>

Admit(b) ==
    /\ mode = "ACTIVE"
    /\ running' = running \cup {b}
    /\ UNCHANGED <<mode, sealed>>

Complete(b) ==
    /\ running' = running \ {b}
    /\ UNCHANGED <<mode, sealed>>

End ==
    /\ mode = "ACTIVE"
    /\ mode' = "ENDING"
    /\ UNCHANGED <<running, sealed>>

Finish ==
    /\ mode = "ENDING" /\ running = {}
    /\ mode' = "ENDED"
    /\ UNCHANGED <<running, sealed>>

Seal ==
    /\ mode = "ENDED"
    /\ sealed' = TRUE
    /\ UNCHANGED <<mode, running>>

Crash ==
    /\ mode' = "DOWN"
    /\ running' = {}
    /\ UNCHANGED sealed

Next ==
    \/ Open \/ End \/ Finish \/ Seal \/ Crash
    \/ \E b \in Batches : Admit(b) \/ Complete(b)

Spec == Init /\ [][Next]_vars
=============================================================================
