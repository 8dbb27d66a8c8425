----------------------------- MODULE MCRecovery -----------------------------
(* Recovery for two requests and three tiers, the third not registered.     *)
EXTENDS Recovery, TLC

CONSTANTS r1, r2, tier1, tier2, tier3

OwnTier == r1 :> tier1 @@ r2 :> tier2
OtherTiers == r1 :> <<tier2, tier3>> @@ r2 :> <<tier2>>
=============================================================================
