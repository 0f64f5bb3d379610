------------------------------ MODULE MCFleet ------------------------------
(* Two runs: one offered plans of every kind, among them plans that have to be *)
(* refused, the other a plan of one step that repeats.                          *)
EXTENDS Fleet

Rule(action) == [action |-> action, to |-> NoStep]

GoTo(id) == [action |-> "go_to", to |-> id]

Work(id, completed, blocked) ==
  [id |-> id, kind |-> "work", wrong |-> {}, given |-> {}, writer |-> FALSE,
   group |-> NoStep, items |-> <<>>, on_completed |-> completed, on_blocked |-> blocked]

Item == [id |-> "item", wrong |-> {}, owns |-> {}, target |-> "out"]

Writer == [Item EXCEPT !.owns = {"file"}]

Fan(id, item, completed, blocked) ==
  [id |-> id, kind |-> "parallel_group", wrong |-> {}, given |-> {},
   writer |-> item.owns # {}, group |-> "g", items |-> <<item>>,
   on_completed |-> completed, on_blocked |-> blocked]

Plan(mode, steps) == [sound |-> TRUE, mode |-> mode, steps |-> steps]

Repeating == Plan("serial", <<Work("a", GoTo("a"), Rule("pause"))>>)

\* A group, then a step that goes back to it.
Mixed ==
  Plan("mixed", <<Fan("a", Item, Rule("next"), Rule("stop")),
                  Work("b", GoTo("a"), Rule("next"))>>)

GroupOnly ==
  Plan("mixed", <<[Fan("a", Writer, Rule("stop"), Rule("pause")) EXCEPT
                     !.given = {"source_base_commit", "source_writer"}]>>)

\* To be refused: an unknown target, a group in a serial plan, one id for two steps,
\* one output for two items, source files without a writer.
Refusable ==
  {Plan("serial", <<Work("a", Rule("next"), GoTo("c")), Work("b", Rule("stop"), Rule("stop"))>>),
   Plan("serial", <<Fan("a", Item, Rule("stop"), Rule("stop"))>>),
   Plan("serial", <<Work("a", Rule("next"), Rule("stop")), Work("a", Rule("stop"), Rule("stop"))>>),
   Plan("mixed", <<[Fan("a", Item, Rule("stop"), Rule("stop")) EXCEPT
                      !.items = <<Item, [Item EXCEPT !.id = "other"]>>]>>),
   Plan("mixed", <<[Fan("a", Writer, Rule("stop"), Rule("stop")) EXCEPT !.writer = FALSE]>>)}

MCOffered == [r \in Ids |-> IF r = 1 THEN {Mixed, GroupOnly} \cup Refusable ELSE {Repeating}]
=============================================================================
