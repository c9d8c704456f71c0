----------------------------- MODULE MCMigration -----------------------------
(* Two users, an agent with memory and two sources, one with an unknown role, *)
(* two conversations (one of them a single answer, without a readable date),  *)
(* one without an agent and one with the agent, title and date of the first.  *)
EXTENDS Migration
MCKey == [f \in FactText |-> CASE f \in {"tea", "Tea"} -> "tea" [] f = "-" -> "" [] OTHER -> f]
MCUsers == <<[name |-> "ann", role |-> "usuario"], [name |-> "root", role |-> "admin"]>>
MCRoles == <<[key |-> "basic"]>>
MCSources == <<[id |-> 1, name |-> "f1"], [id |-> 2, name |-> "f2"]>>
MCAgents ==
    <<[id |-> 1, name |-> "a1", role |-> "basic",
       memory |-> <<[list |-> TRUE, text |-> "tea"], [list |-> TRUE, text |-> "-"],
                   [list |-> FALSE, text |-> "Tea"]>>],
      [id |-> 2, name |-> "a2", role |-> "gone", memory |-> <<>>]>>
MCLinks == {<<1, 1>>, <<9, 1>>}
MCSessions ==
    <<[id |-> 1, agent |-> 1, title |-> "T", at |-> 1], [id |-> 2, agent |-> 1, title |-> "V", at |-> 0],
      [id |-> 3, agent |-> 9, title |-> "T", at |-> 3], [id |-> 4, agent |-> 1, title |-> "T", at |-> 1]>>
MCMessages ==
    <<[session |-> 1, role |-> "humano", text |-> "q"], [session |-> 1, role |-> "bot", text |-> "a"],
      [session |-> 1, role |-> "", text |-> "x"], [session |-> 2, role |-> "bot", text |-> ""],
      [session |-> 2, role |-> "Asistente", text |-> "b"],
      [session |-> 4, role |-> "user", text |-> "c"]>>
=============================================================================
