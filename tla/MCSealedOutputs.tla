--------------------------- MODULE MCSealedOutputs ---------------------------
(* Two runs that share a base directory, the second working on the first's     *)
(* output and keeping, in the old way, storage in its own run directory; and a *)
(* plan that declares one target in two groups.  For the configurations outside *)
(* the suite: a run with the first run's plan, and a plan that writes one path  *)
(* in two ways.                                                                *)
EXTENDS SealedOutputs

Item(unit, input) == [unit |-> unit, artifact |-> <<"x">>, input |-> input]

Group(base, items) == [base |-> base, contract |-> <<"rules">>, items |-> items]

MCPlan ==
  [r1 |-> <<Group(<<"out">>, <<Item("a", <<"in">>)>>)>>,
   r2 |-> <<Group(<<"out">>, <<Item("c", <<"out", "a", "x">>)>>),
            Group(<<"runs", "r2", "old">>, <<Item("d", <<"in">>)>>)>>,
   twice |-> <<Group(<<"out">>, <<Item("e", <<"in">>)>>),
               Group(<<"out">>, <<Item("e", <<"in">>)>>)>>,
   again |-> <<Group(<<"out">>, <<Item("a", <<"in">>)>>)>>,
   dots |-> <<Group(<<"out">>, <<Item("e", <<"in">>)>>),
              Group(<<"out", ".">>, <<Item("e", <<"in">>)>>)>>]

Out == Root \o <<"out">>

\* To another disk, to a directory of the root that is not the base's, and to one in
\* the run directory of the first run.
MCMoves ==
  {<<Out, <<"disk">>>>, <<Append(Out, "a"), Append(Root, "archive")>>,
   <<Out, Append(RunDir("r1"), "moved")>>}

MCNotes == {Out \o <<"a", "note">>, RunDir("r2") \o <<"old", "note">>}

MCUserFiles == {Append(Root, "rules"), Append(Root, "in"), Root \o <<"archive", "x">>, <<"disk", "a", "x">>}

\* A new request may be any that is idle.
MCSymmetry == Permutations(Requests)
=============================================================================
