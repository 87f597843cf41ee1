--------------------------- MODULE MCProjectFiles ---------------------------
(* A project with a plan of two phases, a link to a file outside, one to a   *)
(* file that is not there and one that cannot be followed, and jobs that     *)
(* write, edit, move and remove the plan and check its phases off.           *)
EXTENDS ProjectFiles

MCNumbers == <<"1", "2", "3", "4", "5", "6">>
MCPlan == <<"u", "plan.md">>
MCTodos == <<"u", "todos.json">>
MCLog == <<"u", "CHANGELOG.md">>

TwoPhases(first) ==
    <<Line("title", "none", <<"site">>), Line("started", "none", <<"now">>),
      Item(first, <<"nav">>), Item(" ", <<"Phase", "2", ":", "css">>)>>

MCTree ==
    [p \in {<<>>, <<"u">>, MCPlan, <<"link">>, <<"..">>, <<"..", "other">>,
            <<"dangling">>, <<"astray">>} |->
        CASE p \in {<<>>, <<"u">>, <<"..">>} -> Dir
          [] p = MCPlan -> File(TwoPhases(" "))
          [] p = <<"dangling">> -> Link(<<"..", "new">>)
          [] p = <<"astray">> -> Link(<<"..", "no", "such">>)
          [] p = <<"link">> -> Link(<<"..", "other">>)
          [] p = <<"..", "other">> -> File(<<Prose(<<"other">>)>>)]

MCBinary == {Prose(<<"NUL">>)}

Nav == Line("item", " ", <<"nav">>)

MCUserJobs ==
    {PhaseJob(1, TRUE), PhaseJob(1, FALSE),
     EditJob(MCPlan, <<Edit(Line("title", "none", <<"site">>),
                            <<Line("title", "none", <<"shop">>)>>, FALSE),
                       Edit(Nav, <<Nav, Nav>>, FALSE)>>),
     WriteJob(MCTodos, <<Prose(<<"oops">>)>>),
     WriteJob(<<"link">>, <<Prose(<<"mine">>)>>),
     WriteJob(<<"dangling">>, <<Prose(<<"mine">>)>>),
     RemoveJob(<<"u", ".">>)}

MCAgentJobs ==
    {WriteJob(MCPlan, TwoPhases("x")),
     EditJob(MCPlan, <<Edit(Nav, <<Item("x", <<"nav">>)>>, TRUE)>>),
     WriteJob(<<"page">>, <<Prose(<<"page">>)>>),
     WriteJob(<<"dangling">>, <<Prose(<<"page">>)>>), RenameJob(<<"page">>, <<"dangling">>),
     RenameJob(<<"page">>, MCTodos), RenameJob(<<"u">>, <<"v", "w">>),
     EditJob(MCLog, <<Edit(Prose(<<"log">>), <<Prose(<<"log">>), Prose(<<"mine">>)>>, FALSE)>>),
     RemoveJob(<<"..", "other">>), MkdirJob(<<"v">>),
     WriteJob(<<"astray">>, <<Prose(<<"page">>)>>)}
=============================================================================
