-------------------------------- MODULE Memory --------------------------------
(***************************************************************************)
(* What an agent remembers of a user: one namespace of the LangGraph       *)
(* store, the requests that list and forget it (backend/app/api/v1/        *)
(* memory.py, agent/memory.py), and the consolidations that add what new   *)
(* turns say (AgentService.consolidate, build_memory_graph).               *)
(*                                                                         *)
(* A listing takes one call per page, a forgetting and a persisting one    *)
(* per fact, and all of them may overlap.  The store (external) returns    *)
(* items from the one written last to the one written first; writing an    *)
(* item again keeps its created_at.  Facts stand for their normalised      *)
(* content.                                                                *)
(***************************************************************************)
EXTENDS Naturals, SequencesExt

CONSTANTS
    Fact,       \* normalised contents
    Request,    \* requests under way that list or forget
    Worker,     \* consolidations under way
    PageSize,   \* _PAGE_SIZE
    MaxTurns    \* bound on turns

ASSUME MemoryAssumption == PageSize \in Nat \ {0} /\ MaxTurns \in Nat /\ Request \cap Worker = {}

VARIABLES
    order,      \* the facts of the store by created_at
    recent,     \* ... and by updated_at, the last one first
    said,       \* said[i]: the facts that turn i tells about the user
    position,   \* last_consolidated_message_count, in turns
    task,       \* task[a]: the locals of a request or consolidation
    shown,      \* history: the last listing that nothing disturbed
    banned      \* history: facts that should stay forgotten

vars == <<order, recent, said, position, task, shown, banned>>

Actor == Request \cup Worker
Idle == [at |-> "idle"]
Stored == ToSet(order)

Init ==
    /\ order = <<>> /\ recent = <<>> /\ said = <<>> /\ position = 0
    /\ task = [a \in Actor |-> Idle]
    /\ shown = <<>> /\ banned = {}

\* The elements of s that are in T, in their order.
Only(s, T) ==
    LET kept[n \in 0 .. Len(s)] ==
          IF n = 0 THEN <<>> ELSE IF s[n] \in T THEN Append(kept[n - 1], s[n]) ELSE kept[n - 1]
    IN  kept[Len(s)]

\* ---- the store -------------------------------------------------------------------

\* Faulty: each call adds an item, whatever the store holds.
FaultyPlace(s, f) == Append(s, f)
\* aput: the key comes from the content, so that a fact has one item.
Place(s, f) == IF f \in ToSet(s) THEN s ELSE Append(s, f)

\* What a write of f, or a deletion, is for the tasks under way.
Disturbed(t, f) ==
    CASE t.at = "listing" /\ t.to = "show" -> [t EXCEPT !.fresh = FALSE]
      [] t.at \in {"listing", "deleting"} /\ t.to = "forget" -> [t EXCEPT !.kept = @ \ {f}]
      [] OTHER -> t
Cut(t) ==
    CASE t.at = "listing" /\ t.to = "show" -> [t EXCEPT !.fresh = FALSE]
      [] t.at \in {"listing", "deleting"} /\ t.to = "forget" -> [t EXCEPT !.kept = {}]
      [] OTHER -> t

\* ---- _search_all -------------------------------------------------------------------

Page(offset) == SubSeq(recent, offset + 1, Min({offset + PageSize, Len(recent)}))
\* Faulty: a page that is just full is taken for the last one.
FaultyIsLast(page) == Len(page) <= PageSize
IsLast(page) == Len(page) < PageSize

ListPage(a) ==
    /\ task[a].at = "listing" /\ ~IsLast(Page(task[a].offset))
    /\ task' = [task EXCEPT ![a].offset = @ + PageSize,
                            ![a].got = @ \o Page(task[a].offset)]
    /\ UNCHANGED <<order, recent, said, position, shown, banned>>
LastPage(a, to) ==
    task[a].at = "listing" /\ task[a].to = to /\ IsLast(Page(task[a].offset))
Listed(a) == task[a].got \o Page(task[a].offset)

\* ---- requests ------------------------------------------------------------------------

StartRead(q) ==
    /\ task[q] = Idle
    /\ task' = [task EXCEPT ![q] = [at |-> "listing", to |-> "show", offset |-> 0, got |-> <<>>, fresh |-> TRUE]]
    /\ UNCHANGED <<order, recent, said, position, shown, banned>>

\* Faulty: in the order in which the store returns them.
FaultyInOrder(items) == items
\* read_facts: in the order of created_at.
InOrder(items) == Only(order, ToSet(items))
Show(q) ==
    /\ LastPage(q, "show")
    /\ shown' = IF task[q].fresh THEN InOrder(Listed(q)) ELSE shown
    /\ task' = [task EXCEPT ![q] = Idle]
    /\ UNCHANGED <<order, recent, said, position, banned>>

\* forget_memory: all that is listed is deleted, one by one.
StartForget(q) ==
    /\ task[q] = Idle
    /\ task' = [task EXCEPT ![q] = [at |-> "listing", to |-> "forget", offset |-> 0, got |-> <<>>, kept |-> Stored]]
    /\ UNCHANGED <<order, recent, said, position, shown, banned>>
ListForget(q) ==
    /\ LastPage(q, "forget")
    /\ task' = [task EXCEPT ![q] = [at |-> "deleting", to |-> "forget", left |-> Listed(q), kept |-> @.kept]]
    /\ UNCHANGED <<order, recent, said, position, shown, banned>>

\* Turns that no consolidation has taken.
Pending == UNION {said[i] : i \in position + 1 .. Len(said)}
Delete(q) ==
    /\ task[q].at = "deleting" /\ task[q].left # <<>>
    /\ LET f == Head(task[q].left)
       IN  /\ order' = Only(order, Fact \ {f})
           /\ recent' = Only(recent, Fact \ {f})
           /\ task' = [a \in Actor |-> IF a = q THEN [task[q] EXCEPT !.left = Tail(@)]
                                       ELSE IF f \in Stored THEN Cut(task[a]) ELSE task[a]]
           /\ shown' = IF f \in Stored THEN <<>> ELSE shown
           /\ banned' = IF \A w \in Worker : task[w] = Idle
                        THEN banned \cup ({f} \ Pending) ELSE banned
    /\ UNCHANGED <<said, position>>
\* The answer is sent, or the request broke off.
Leave(q) ==
    /\ task[q] # Idle /\ task' = [task EXCEPT ![q] = Idle]
    /\ UNCHANGED <<order, recent, said, position, shown, banned>>

\* ---- consolidations ---------------------------------------------------------------------

Say(facts) ==
    /\ Len(said) < MaxTurns /\ said' = Append(said, facts)
    /\ banned' = banned \ facts
    /\ UNCHANGED <<order, recent, position, task, shown>>

\* Faulty: the whole transcript each time.
FaultyWindow == UNION {said[i] : i \in 1 .. Len(said)}
Window == Pending
\* The extractor returns facts of the turns it is shown.
Extract(w, facts) ==
    /\ task[w] = Idle /\ position < Len(said)
    /\ task' = [task EXCEPT ![w] = [at |-> "listing", to |-> "persist", offset |-> 0, got |-> <<>>,
                                    facts |-> facts, upto |-> Len(said)]]
    /\ UNCHANGED <<order, recent, said, position, shown, banned>>

\* write_facts: those that are not listed are put, one by one, in the order in
\* which the extractor gave them: in any order.
Deduplicate(facts, existing) == facts \ ToSet(existing)
ListPersist(w) ==
    /\ LastPage(w, "persist")
    /\ task' = [task EXCEPT ![w] = [at |-> "putting", to |-> "persist", upto |-> @.upto,
                                    left |-> Deduplicate(@.facts, Listed(w))]]
    /\ UNCHANGED <<order, recent, said, position, shown, banned>>
PutFact(w, f) ==
    /\ task[w].at = "putting" /\ f \in task[w].left
    /\ order' = Place(order, f)
    /\ recent' = <<f>> \o Only(recent, Fact \ {f})
    /\ task' = [a \in Actor |-> IF a = w THEN [task[w] EXCEPT !.left = @ \ {f}]
                                ELSE Disturbed(task[a], f)]
    /\ UNCHANGED <<said, position, shown, banned>>
Mark(w) ==
    /\ task[w].at = "putting" /\ task[w].left = {}
    /\ position' = IF task[w].upto > position THEN task[w].upto ELSE position
    /\ task' = [task EXCEPT ![w] = Idle]
    /\ UNCHANGED <<order, recent, said, shown, banned>>
\* The job fails or the process dies; another attempt starts again.
Crash(w) ==
    /\ task[w] # Idle /\ task' = [task EXCEPT ![w] = Idle]
    /\ UNCHANGED <<order, recent, said, position, shown, banned>>

Next ==
    \/ \E facts \in SUBSET Fact \ {{}} : Say(facts)
    \/ \E a \in Actor : ListPage(a)
    \/ \E q \in Request : \/ StartRead(q) \/ Show(q) \/ StartForget(q) \/ ListForget(q)
                          \/ Delete(q) \/ Leave(q)
    \/ \E w \in Worker : \/ \E facts \in SUBSET Window : Extract(w, facts)
                         \/ \E f \in Fact : PutFact(w, f)
                         \/ ListPersist(w) \/ Mark(w) \/ Crash(w)

Spec == Init /\ [][Next]_vars

\* ---- properties --------------------------------------------------------------------------

\* The two orders of the store are of the same facts, each once, whatever writers
\* and deletions a listing for deduplication missed (fact_key), and the mark is
\* within the transcript.
MemoryTypeOK ==
    /\ order \in Seq(Fact) /\ IsInjective(order) /\ IsInjective(recent)
    /\ ToSet(recent) = Stored
    /\ position \in 0 .. Len(said)
    /\ \A a \in Actor : task[a].at \in {"idle", "listing", "deleting", "putting"}

\* A forgetting that ends has removed all that was stored when it began and was
\* not written again meanwhile, unless another forgetting ran at the same time:
\* facts that are added while it lists push others to later pages, never past
\* the last (delete_facts).
ForgetComplete ==
    \A q \in Request :
        task[q].at = "deleting" /\ task[q].left = <<>> => task[q].kept \cap Stored = {}

\* A forgotten fact does not come back by itself: only a user who says it again,
\* a turn that was not consolidated yet or a consolidation under way at the time
\* of the deletion can bring it back (consolidate extracts turns after the mark).
ForgottenStaysForgotten == banned \cap Stored = {}

\* Facts keep their place: what a listing shows begins with what the one before
\* showed, unless something was deleted, whatever was written or written again
\* in between (read_facts, which the prefix of prompts relies on).
ShownInOrder ==
    [][shown' \notin {shown, <<>>} => IsPrefix(shown, shown')]_vars
=============================================================================
