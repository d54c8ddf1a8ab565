---------------------------- MODULE MCCompanyBuild ----------------------------
(* CompanyBuild with a layer of each kind: the profiles, one that is       *)
(* audited under its own type (events) and one whose records are audited   *)
(* one by one (the workflow's).  There are no events of the second issuer, *)
(* and a request may claim that the first is done.                         *)
EXTENDS CompanyBuild, TLC

CONSTANTS i1, i2, r1

MCLayer == {"profile", "event", "workflow"}

MCOrder == [l \in MCLayer |-> CASE l = "profile" -> 1 [] l = "event" -> 2 [] l = "workflow" -> 4]

MCOptions == {MCLayer}

MCMaterial == Items \ {<<i2, "event">>}

MCClaims == {[completed |-> I, skipped |-> I] : I \in {{}, {i1}}}
=============================================================================
