------------------------------ MODULE MC_Masters ------------------------------
(* Two records, dated in the first and in the second of two months.        *)
EXTENDS Masters

CONSTANTS rent, tithe

MCPeriodOf == (rent :> 0) @@ (tithe :> 1)
==============================================================================
