---------------------------- MODULE MCRelayCommands ----------------------------
(***************************************************************************)
(* A small instance of RelayCommands: two threads, of which the first can  *)
(* also be written without its accent, the timer and a request to poll,    *)
(* one operator.                                                           *)
(***************************************************************************)
EXTENDS RelayCommands

MCThreadOf == (1 :> 1) @@ (2 :> 1)

Command(kind) == [kind |-> kind, by |-> "none", key |-> 0, refused |-> {}]

ByNumber(kind, n) == [kind |-> kind, by |-> "number", key |-> n, refused |-> {}]

ByTitle(kind, l) == [kind |-> kind, by |-> "title", key |-> l, refused |-> {}]

Refusing(command, calls) == [command EXCEPT !.refused = calls]

Script(people, operators) == [people |-> people, operators |-> operators]

\* People pick up the same thread twice; or make channels and look at threads;
\* or work with a run and its worker.  An operator interferes.  In the last ones
\* something is refused for good, in the registry's commands and in others.
MCScripts ==
  {Script(<<ByTitle("pickup", 1), ByTitle("pickup", 1)>>, {"close"}),
   Script(<<ByTitle("pickup", 2), ByTitle("pickup", 1)>>, {"bind channel"}),
   Script(<<ByTitle("pickup", 1), ByTitle("pickup", 2)>>, {}),
   Script(<<Command("list"), ByNumber("pickup", 1), ByNumber("refresh", 1)>>, {"close"}),
   Script(<<Command("new"), ByTitle("refresh", 1)>>, {"start thread"}),
   Script(<<Command("start run"), Command("start worker"), ByNumber("identity", 1)>>, {"close"}),
   Script(<<Command("start run"), Command("start worker"), ByNumber("cleanup worker", 1)>>, {"close"}),
   Script(<<Command("start run"), Command("start worker"), Command("cleanup run")>>, {"close"}),
   Script(<<Command("start run"), Command("archive run"), ByNumber("switch run", 1), Command("start worker")>>, {}),
   Script(<<ByNumber("switch run", 1), Command("clear run"), ByNumber("close worker", 1)>>, {"start thread"}),
   Script(<<Command("start run"), Refusing(Command("start worker"), {"create"}), Command("clear run")>>, {}),
   Script(<<Refusing(ByTitle("pickup", 1), {"note"}), Command("new")>>, {"close"}),
   Script(<<Command("start run"), Refusing(ByTitle("pickup", 2), {"say"}), Command("new")>>, {})}

=============================================================================
