----------------------------- MODULE MCCampaigns -----------------------------
(* Small instances of Campaigns for TLC. *)
EXTENDS Campaigns, TLC

CONSTANTS relax, static, console, tool, j1, j2

\* A stage and the one that is built on it.
Chain == <<relax, static>>
ChainRequires == (relax :> NoStage) @@ (static :> relax)
=============================================================================
