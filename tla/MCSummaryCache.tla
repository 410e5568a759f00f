--------------------------- MODULE MCSummaryCache ---------------------------
(* SummaryCache for TLC: one account of one campaign, a preset and the      *)
(* explicit dates that are the same window on the first day.                 *)
EXTENDS SummaryCache, TLC

CONSTANTS meta, c1

MCAccountOf == c1 :> meta
MCPlatformOf == meta :> "meta"
MCCurrency == meta :> "USD"
MCMonthStart == {-9, -7, -4, -1, 2, 4, 7}
MCPeriod == {[preset |-> "rolling", dates |-> Null],
             [preset |-> Null, dates |-> [from |-> 2, to |-> 3]]}
MCDates == {[preset |-> Null, dates |-> [from |-> 2, to |-> 3]]}
MCFilter == {NoFilter, [status |-> "ACTIVE", search |-> FALSE,
                         objective |-> FALSE]}
Symmetry == Permutations(Request) \cup Permutations(Writer)
=============================================================================
