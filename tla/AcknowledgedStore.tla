-------------------------- MODULE AcknowledgedStore --------------------------
(***************************************************************************)
(* What the record store promises its clients, without saying how: there   *)
(* is what the service holds (view) and what survives the process          *)
(* (stable), and an acknowledged write is in both until somebody writes    *)
(* the key again.                                                          *)
(***************************************************************************)
CONSTANTS Key, Content

VARIABLES
    view,           \* what the service holds
    stable,         \* what a restart recovers
    promised,       \* the view as the last acknowledgement left it
    touched         \* keys written since

vars == <<view, stable, promised, touched>>

Init ==
    /\ stable \in [Key -> Content]
    /\ view = stable
    /\ promised = stable
    /\ touched = {}

(* Requests write some keys, and some keys are copied to stable storage.   *)
(* A write may stay volatile for a while, and a partial copy is allowed as *)
(* long as nobody was told.                                                *)
WriteOrPersist ==
    /\ view' \in [Key -> Content]
    /\ stable' \in [Key -> Content]
    /\ touched' \in SUBSET Key
    /\ touched \subseteq touched'
    /\ \A k \in Key :
          /\ view'[k] # view[k] => k \in touched'
          /\ stable'[k] # stable[k] => stable'[k] = view'[k]
    /\ UNCHANGED promised

(* A write is acknowledged: all that the service holds is stable. *)
Acknowledge ==
    /\ stable' = view
    /\ promised' = view
    /\ touched' = {}
    /\ UNCHANGED view

(* The process dies: the service is back to what was stable. *)
Crash ==
    /\ view' = stable
    /\ promised' = [k \in Key |-> IF k \in touched THEN stable[k] ELSE promised[k]]
    /\ touched' = {}
    /\ UNCHANGED stable

Next ==
    \/ WriteOrPersist
    \/ Acknowledge
    \/ Crash

Spec == Init /\ [][Next]_vars
=============================================================================
