---------------------------- MODULE MCAgentTurn ----------------------------
(* AgentTurn with one call of every kind the gate tells apart, alone or in   *)
(* a reply of two.                                                          *)
EXTENDS AgentTurn

Read == Call("read_file", "source", "none")
Write == Call("write_project_file", "source", "none")
WritePlan == Call("write_project_file", "plan", "none")
WriteTodos == Call("write_project_file", "todos", "none")
Delete == Call("delete_file", "source", "none")
ReplacePlan == Call("rename_file", "source", "plan")

RepliesMade == {<<Read>>, <<Write>>, <<WritePlan>>, <<Delete>>, <<ReplacePlan>>,
                <<Delete, Delete>>, <<WritePlan, WriteTodos>>}
=============================================================================
