----------------------------- MODULE MCSession -----------------------------
(***************************************************************************)
(* Session for TLC: the deployments its runs look at.                      *)
(***************************************************************************)
EXTENDS Session, TLC

CONSTANTS s1, s2, d1, l1, l2, x

MCRoots == {d1, Global}
MCUnder == [p \in {x} |-> {l1, l2}]

Writable == [cwd |-> d1, default |-> None, flag |-> FALSE, env |-> "unset"]
ForProject == [Writable EXCEPT !.default = d1]
Mistyped == [Writable EXCEPT !.env = "typo"]
Both(a, b) == (s1 :> a) @@ (s2 :> b)
NoTools == [servers |-> {s1, s2}, config |-> Both(Writable, ForProject), tools |-> {},
            refs |-> {}, args |-> {None}, dreams |-> FALSE, hooks |-> FALSE, external |-> {}]

(* Two sessions look up, tag and reinforce learnings. *)
Learning == [NoTools EXCEPT !.tools = {"get", "tag", "reinforce"},
                            !.refs = {l1, x}, !.args = {None, d1}]
(* Two sessions hand off, to the project and to the global ledger.         *)
Handing == [NoTools EXCEPT !.tools = {"handoff", "tagHandoff"}, !.args = {None, d1}]
(* One session reads what another one tags and reinforces.                 *)
Looking == [NoTools EXCEPT !.tools = {"search", "list", "recall", "summary", "tag", "reinforce"},
                           !.refs = {l1}, !.config = Both(ForProject, [ForProject EXCEPT !.flag = TRUE]),
                           !.dreams = TRUE]
(* A session beside a read-only server, or one that will not start.        *)
Reading(c) == [NoTools EXCEPT !.tools = {"search", "stats", "tag"}, !.refs = {x},
                              !.config = Both(ForProject, c), !.dreams = TRUE]
(* The hooks of two sessions; and those of one after its calls. *)
Hooking == [NoTools EXCEPT !.hooks = TRUE, !.external = {"webTool"}]
Calling == [Learning EXCEPT !.servers = {s1}, !.tools = {"get", "tag"}, !.refs = {l1},
                            !.args = {None}, !.hooks = TRUE]

MCSetups == {Learning, Looking, Handing, Hooking, Calling}
            \cup {Reading(c) : c \in {[ForProject EXCEPT !.flag = TRUE],
                                      [ForProject EXCEPT !.env = "on"], Mistyped}}

=============================================================================
