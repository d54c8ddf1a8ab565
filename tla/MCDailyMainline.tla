--------------------------- MODULE MCDailyMainline ---------------------------
(* Small instances of DailyMainline: allowances of a second or two, budgets *)
(* from too short for any call to long enough for all of them.             *)
EXTENDS DailyMainline

MCBudgets == {4, 11}
MCLimits == {1, 3}
MCEarlier == {0, 2}
=============================================================================
