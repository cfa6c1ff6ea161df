------------------------------ MODULE Session ------------------------------
(***************************************************************************)
(* Sessions of Claude Code: each calls the tools of its own server, and    *)
(* after each tool call, of that server or another, a PostToolUse hook     *)
(* runs beside whatever the sessions do next.                              *)
(***************************************************************************)
EXTENDS Tools, HookDedup

ASSUME SessionAssumption == HookSessions = Servers

VARIABLE due  \* the sessions whose last call has not had its hook

sessionVars == <<vars, hookVars, due>>

(* What the hook is told of a call of a cortex tool. *)
ToolCalled(s) == IF call[s].tool \in {"get", "search", "list"} THEN "cortexRecall" ELSE "cortexCapture"

(* An error, or a list that is empty, is not worth a nudge. *)
Informative(s) == call[s].answer = "found"

ToolStep ==
    /\ Next
    /\ due' = due \cup {s \in Servers : call'[s].step = "done" /\ call'[s] # call[s]}
    /\ UNCHANGED hookVars

HookAfterCall(h, s) ==
    /\ s \in due /\ call[s].step = "done"
    /\ Fire(h, s, ToolCalled(s), Informative(s))
    /\ due' = due \ {s}
    /\ UNCHANGED vars

HookAfterTool(h, s, tool) ==
    /\ tool \in setup.external
    /\ Fire(h, s, tool, TRUE)
    /\ UNCHANGED <<vars, due>>

HookRuns == (Tick \/ \E h \in Hooks : HookStep(h)) /\ UNCHANGED <<vars, due>>

SessionInit == Init /\ HookInit /\ due = {}

SessionNext ==
    \/ ToolStep
    \/ setup.hooks /\ HookRuns
    \/ \E h \in Hooks, s \in setup.servers :
          /\ setup.hooks
          /\ HookAfterCall(h, s) \/ \E tool \in DOMAIN ToolKind : HookAfterTool(h, s, tool)

SessionSpec == SessionInit /\ [][SessionNext]_sessionVars

=============================================================================
