------------------------- MODULE MCSupremeAssembly --------------------------
(***************************************************************************)
(* Two members, and rosters of one and of both: thresholds of one, where   *)
(* the first vote settles, and of two, where one rejection does and where  *)
(* two approvals that do not see each other do not.  A behaviour is about   *)
(* proposals, or about summonses, or about the roles: they share no table. *)
(***************************************************************************)
EXTENDS SupremeAssembly

CONSTANTS m1, m2
Vote(m, choice) == [op |-> "vote", proposal |-> 1, voter |-> m, choice |-> choice]
Chamber ==
    {[op |-> "create", roster |-> {m1}], [op |-> "create", roster |-> {m1, m2}],
     [op |-> "cancel", proposal |-> 1], Vote(m1, "approve"), Vote(m1, "abstain"),
     Vote(m2, "approve"), Vote(m2, "reject")}
Summoning == {[op |-> "summon", kind |-> k] : k \in {"member", "official", "council"}}
Configuring ==
    {[op |-> "config", part |-> "speaker", role |-> 1],
     [op |-> "config", part |-> "member", role |-> 1],
     [op |-> "config", part |-> "member", role |-> 2]}
MCAgendas == {Chamber, Summoning, Configuring}
=============================================================================
