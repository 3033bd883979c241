-------------------------- MODULE MCGatewayCascade --------------------------
(* The gateway's configuration: num_retries 2, cheap falls back to premium *)
(* and premium to frontier.                                                *)
EXTENDS GatewayCascade

CONSTANTS cheap, premium, frontier, embed

MCModelGroup == {cheap, premium, frontier, embed}
MCCASCADE == <<cheap, premium, frontier>>
MCFallbacks == [g \in MCModelGroup |->
                  IF g = cheap THEN premium
                  ELSE IF g = premium THEN frontier ELSE NoGroup]
=============================================================================
