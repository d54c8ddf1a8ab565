----------------------------- MODULE DecisionLog -----------------------------
(***************************************************************************)
(* What the paper ledger promises, without files, lines, locks or hashes:  *)
(* a log of different decisions that only grows while it can be read, and  *)
(* of which a crash takes no decision whose append was answered.           *)
(***************************************************************************)
EXTENDS Naturals, Sequences

CONSTANTS Snapshot

VARIABLES
    log,            \* the decisions, in the order of their appends
    stable,         \* the first part of it that survives a crash
    readable,       \* does the log replay?
    promised        \* decisions whose append was answered

vars == <<log, stable, readable, promised>>

Init ==
    /\ log = << >>
    /\ stable = << >>
    /\ readable = TRUE
    /\ promised = {}

(* A decision that is not in the log is appended, at the end and to a log  *)
(* that replays.  It may be the last one that does.                        *)
AppendDecision ==
    /\ readable
    /\ \E s \in Snapshot :
          /\ \A i \in 1 .. Len(log) : log[i] # s
          /\ log' = Append(log, s)
    /\ readable' \in BOOLEAN
    /\ UNCHANGED <<stable, promised>>

(* An append fails half way: from now on the log does not replay. *)
Tear ==
    /\ readable
    /\ readable' = FALSE
    /\ UNCHANGED <<log, stable, promised>>

(* The append of a decision is answered: all of the log is stable. *)
Acknowledge ==
    /\ \E i \in 1 .. Len(log) : promised' = promised \cup {log[i]}
    /\ stable' = log
    /\ UNCHANGED <<log, readable>>

(* A crash leaves at least the stable part. *)
Crash ==
    /\ \E n \in Len(stable) .. Len(log) : log' = SubSeq(log, 1, n)
    /\ stable' = log'
    /\ readable' \in BOOLEAN
    /\ UNCHANGED promised

Next ==
    \/ AppendDecision
    \/ Tear
    \/ Acknowledge
    \/ Crash

Spec == Init /\ [][Next]_vars
=============================================================================
