---------------------------- MODULE PublishedBars ----------------------------
(***************************************************************************)
(* What the market-data migration promises of the table the application    *)
(* sees: only the application changes a bar.  A comparison that passes     *)
(* vouches for the bars not written since it began, and these a cutover    *)
(* leaves as they are; a later write it may lose.  It keeps what there     *)
(* was, lost writes included: until that is given up, a rollback brings it *)
(* back exactly, and nothing else does.                                    *)
(***************************************************************************)
CONSTANTS Keys, Bars, NoBar, NoTable

VARIABLES
    bars,       \* what the application sees: a bar or NoBar for each key
    kept,       \* what a rollback would bring back, or NoTable
    compared,   \* bars not written since the comparison under way began
    vouched     \* bars not written since the last that passed began

vars == <<bars, kept, compared, vouched>>

Rows == [Keys -> Bars \cup {NoBar}]

Init == bars \in Rows /\ kept = NoTable /\ compared = {} /\ vouched = {}

Write ==
    /\ \E k \in Keys, bar \in Bars :
          /\ bars' = [bars EXCEPT ![k] = bar]
          /\ compared' = compared \ {k} /\ vouched' = vouched \ {k}
    /\ UNCHANGED kept

Begin == compared' = Keys /\ UNCHANGED <<bars, kept, vouched>>

Pass == vouched' = compared /\ compared' = {} /\ UNCHANGED <<bars, kept>>

Forget ==
    /\ compared' \in {compared, {}} /\ vouched' \in {vouched, {}}
    /\ UNCHANGED <<bars, kept>>

Cutover ==
    /\ kept = NoTable /\ kept' = bars
    /\ bars' \in Rows /\ \A k \in vouched : bars'[k] = bars[k]
    /\ vouched' = {}
    /\ UNCHANGED compared

Rollback ==
    /\ kept # NoTable
    /\ bars' = kept /\ kept' = NoTable /\ vouched' = {}
    /\ UNCHANGED compared

Cleanup == kept # NoTable /\ kept' = NoTable /\ UNCHANGED <<bars, compared, vouched>>

Next ==
    \/ Write \/ Begin \/ Pass \/ Forget
    \/ Cutover \/ Rollback \/ Cleanup

Spec == Init /\ [][Next]_vars
=============================================================================
