------------------------------ MODULE MCReplies ------------------------------
(* One user with one thread; a role besides basic, one of two sources blank;  *)
(* facts of one and two tokens, budgets of two and, when the provider is not  *)
(* reached, of four; without a setting that process does not start.           *)
EXTENDS Replies
MCAgentRows ==
    {[custom |-> "", role |-> "tutor", profile |-> "plain"],
     [custom |-> "own", role |-> "", profile |-> "named"]}
MCFirstAgent == [custom |-> "", role |-> "tutor", profile |-> "plain"]
MCCost == [f \in Fact |-> IF f = "short" THEN 1 ELSE 2]
MCProviders ==
    {[published |-> 5, reached |-> TRUE, profile |-> 0, configured |-> 10],
     [published |-> 5, reached |-> FALSE, profile |-> 0, configured |-> 10],
     [published |-> 5, reached |-> FALSE, profile |-> 0, configured |-> 0]}
Symmetry == Permutations(Request)
=============================================================================
