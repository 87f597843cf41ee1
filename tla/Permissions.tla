---------------------------- MODULE Permissions ----------------------------
(***************************************************************************)
(* What a tool call risks and whether it has to be asked about              *)
(* (permissions.cpp).  A call is what the dispatcher resolves it to: the    *)
(* tool, the path or command it is about, and where a rename goes.          *)
(***************************************************************************)

Modes == {"auto", "ask", "yolo"}
Risks == {"read", "mutate", "destructive", "escape", "plan", "install", "execute"}

\* "source" is an ordinary file, "plan" is .ultima/plan.md, "todos" is
\* .ultima/todos.json, "outside" a path that leaves the project.
Paths == {"source", "plan", "todos", "outside"}
PlanFiles == {"plan", "todos"}
Commands == {"remove", "install", "other"}

ReadTools == {"read_file", "list_files", "use_skill"}
ExecTools == {"run_command"}
WriteTools == {"write_project_file", "edit_file", "rename_file", "delete_file"}

Call(tool, subject, to) == [tool |-> tool, subject |-> subject, to |-> to]

ToolCalls ==
    {Call(t, p, "none") : t \in ReadTools \cup (WriteTools \ {"rename_file"}), p \in Paths}
    \cup {Call("rename_file", p, q) : p \in Paths, q \in Paths}
    \cup {Call(t, c, "none") : t \in ExecTools, c \in Commands}

CommandRisk(c) == CASE c = "remove"  -> "destructive"
                    [] c = "install" -> "install"
                    [] OTHER         -> "execute"

\* Escape outranks the rest; a rename's target is looked at for that only.
Classify(call) ==
    IF call.tool \in ReadTools THEN "read"
    ELSE IF call.tool \in ExecTools THEN CommandRisk(call.subject)
    ELSE IF "outside" \in {call.subject, call.to} THEN "escape"
    ELSE IF call.tool = "delete_file" THEN "destructive"
    ELSE IF call.subject \in PlanFiles THEN "plan"
    ELSE "mutate"

\* Mutated: one blanket approval covers every risk.
NeedsPromptUntilAny(mode, risk, allowed) ==
    /\ risk # "read"
    /\ mode # "yolo"
    /\ allowed = {}
    /\ risk # "mutate" \/ mode = "ask"

\* evaluate(): Verdict::needs_prompt.
NeedsPrompt(mode, risk, allowed) ==
    /\ risk # "read"
    /\ mode # "yolo"
    /\ risk \notin allowed
    /\ risk # "mutate" \/ mode = "ask"

\* dispatch_tool changes a file: resolve() refuses what is outside, no tool
\* runs commands, and the call may fail for reasons of its own.
CanChange(call) ==
    call.tool \in WriteTools /\ "outside" \notin {call.subject, call.to}

\* ToolResult::changed_path
ChangedPath(call) == IF call.tool = "rename_file" THEN call.to ELSE call.subject
=============================================================================
