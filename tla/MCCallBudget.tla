---------------------------- MODULE MCCallBudget ----------------------------
(* The four groups of the gateway, the three of the cascade, the default   *)
(* of three attempts per group, and the stream's 120 s.                    *)
EXTENDS CallBudget

CONSTANTS cheap, premium, frontier, embed

MCModelGroup == {cheap, premium, frontier, embed}
MCCASCADE == <<cheap, premium, frontier>>
=============================================================================
