-------------------------- MODULE MCAgentCampaigns --------------------------
(***************************************************************************)
(* Instances of AgentCampaigns for TLC: a sale of data whose size is       *)
(* estimated (2 MB as shown, 4 MB as claimed), airtime, a funding and a    *)
(* referral, each of which reaches a target of 1 on its own.               *)
(***************************************************************************)
EXTENDS AgentCampaigns

CONSTANTS u1, c1, s1, s2

MCDeeds ==
    {[kind |-> "data", naira |-> 1, size |-> 0],
     [kind |-> "airtime", naira |-> 1, size |-> 0],
     [kind |-> "other", naira |-> 1, size |-> 0],
     [kind |-> "referral", naira |-> 0, size |-> 0]}
=============================================================================
