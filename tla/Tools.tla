------------------------------- MODULE Tools -------------------------------
(***************************************************************************)
(* The tools of the MCP server (cortex-mcp) over several ledgers: one for  *)
(* each project directory and a global one.  Sessions of Claude Code start *)
(* servers of their own, which call the tools side by side.  A write tool  *)
(* resolves to one ledger, a read tool consults one ledger after another;  *)
(* what happens inside one ledger is module Ledger's, and a write to it is *)
(* one step here.  Handoffs are recorded through module Handoff.           *)
(***************************************************************************)
EXTENDS Handoff, Sequences

CONSTANTS Dirs,       \* project directories; the ledger of one is its root
          Global,     \* the root of the global ledger
          Learnings,
          Prefixes,   \* short ids, for what several learnings may match
          Under,      \* which learnings an id that is not whole stands for
          Setups      \* the deployments to look at

(* A deployment: each server's command line, environment and working       *)
(* directory, and the tools that are called.                               *)
Config == [cwd : Dirs, default : Dirs \cup {None}, flag : BOOLEAN,
           env : {"unset", "on", "typo"}]
ReadTools  == {"get", "search", "list", "recall", "stats", "summary", "handoff"}
WriteTools == {"tag", "reinforce", "tagHandoff"}

Refs == Learnings \cup Prefixes

ASSUME ToolsAssumption ==
    /\ Roots = Dirs \cup {Global} /\ Global \notin Dirs /\ None \notin Roots
    /\ Under \in [Prefixes -> SUBSET Learnings]
    /\ Prefixes \cap Learnings = {}
    /\ \A d \in Setups : /\ d.config \in [Servers -> Config] /\ d.servers \subseteq Servers
                        /\ d.args \subseteq Dirs \cup {None}
                        /\ d.refs \subseteq Refs
                        /\ d.tools \subseteq ReadTools \cup WriteTools /\ d.dreams \in BOOLEAN

VARIABLES
    up,          \* per server: down, up, or refused to start
    dirs,        \* roots whose directory exists
    layout,      \* roots with the files of a ledger (Ledger::open makes them)
    tagged,      \* per root: the learnings registered there
    contested,   \* learnings that outcomes have put in quarantine
    snapshot,    \* per root: the active-memory snapshot, empty if there is none
    call,        \* per server: the tool call under way, or its answer
    recalled,    \* history: per server, what its last get_learning found
    setup

toolVars == <<up, dirs, layout, tagged, contested, snapshot, call, recalled, setup>>
vars == <<handoffVars, toolVars>>

NoCall == [step |-> "idle", tool |-> "none", dir |-> None, arg |-> None,
           todo |-> <<>>, answer |-> "none", value |-> None, known |-> {}, cut |-> {}]
(* The arguments of a call: the project it names, if any, and what it asks *)
(* for; how much of it, and the filters, are left out.                     *)
CallOf(tool, dir, arg) == [NoCall EXCEPT !.tool = tool, !.dir = dir, !.arg = arg]
NotRecalled == [arg |-> None, dir |-> None, id |-> None]
NoSnapshot == [nodes |-> {}, entries |-> {}]

Default(s, dir) == IF dir # None THEN dir ELSE setup.config[s].default

(* resolve_ledger: the project asked for, the server's, or the global one. *)
ResolveLedger(s, dir) == IF Default(s, dir) # None THEN Default(s, dir) ELSE Global

(* read_candidates: of those that are wanted, the ones that exist. *)
Existing(root) == IF root \in dirs THEN <<root>> ELSE <<>>
ReadCandidates(s, dir) ==
    IF Default(s, dir) # None THEN Existing(Default(s, dir))
    ELSE Existing(setup.config[s].cwd) \o Existing(Global)

(* What an id or a query stands for in a ledger. *)
Hits(root, arg) == tagged[root] \cap (IF arg \in Learnings THEN {arg} ELSE Under[arg])

(* Mutant: of several matches, any one. *)
MatchAny(root, arg) == IF Hits(root, arg) = {} THEN {} ELSE {CHOOSE l \in Hits(root, arg) : TRUE}

(* match_prefix: a whole id, or the only match; an ambiguous prefix is refused. *)
MatchPrefix(root, arg) == IF Cardinality(Hits(root, arg)) = 1 THEN Hits(root, arg) ELSE {}

------------------------------------------------------------------------------

(* parse_read_only_env: a value it does not know keeps the server down.    *)
ReadOnly(s) == setup.config[s].flag \/ setup.config[s].env = "on"

Start(s) ==
    /\ up[s] = "down" /\ s \in setup.servers
    /\ up' = [up EXCEPT ![s] = IF setup.config[s].env = "typo" THEN "refused" ELSE "up"]
    /\ UNCHANGED <<handoffVars, dirs, layout, tagged, contested, snapshot, call, recalled, setup>>

(* Only the tools of the server's routers can be called, one at a time.    *)
Calls(s, tool) ==
    /\ up[s] = "up" /\ call[s].step \in {"idle", "done"}
    /\ tool \in setup.tools
    /\ tool \in WriteTools => ~ReadOnly(s)

Answered(s, c, answer, value) ==
    call' = [call EXCEPT ![s] = [c EXCEPT !.step = "done", !.answer = answer, !.value = value,
                                          !.todo = <<>>]]

(* A dream pass puts the ledger's learnings on a graph and keeps the top k *)
(* of its nodes as the snapshot's entries (how it reads and writes beside  *)
(* the appends is module Retrieval's).                                     *)
Dream(root) ==
    /\ setup.dreams /\ root \in layout
    /\ \E entries \in SUBSET tagged[root] :
          snapshot' = [snapshot EXCEPT ![root] = [nodes |-> tagged[root], entries |-> entries]]
    /\ UNCHANGED <<handoffVars, up, dirs, layout, tagged, contested, call, recalled, setup>>

(* Mutant: a snapshot is used although newer learnings are not in it. *)
CoversSome(root) == snapshot[root].nodes # {}

(* uncovered_blocks: a search is spectral only if the snapshot covers all. *)
Covers(root) == snapshot[root].nodes = tagged[root]

(* What an answer of one ledger may leave out.  A spectral search ranks    *)
(* the snapshot's entries alone, and drops what does not resonate with the *)
(* query, all of them if none of them matches it.  The list of handoffs is *)
(* without a file that could not be read (bound: one, counted as a fault). *)
LeftOut(tool, arg, root) ==
    CASE tool = "search" /\ Covers(root) ->
            LET ranked == snapshot[root].entries
                resonant == IF Hits(root, arg) \cap ranked = {} THEN {} ELSE ranked
            IN  {snapshot[root].nodes \ rs : rs \in SUBSET resonant}
      [] tool = "handoff" /\ arg # None ->
            {{}} \cup {{h} : h \in {f \in handoffs[root] : faults < MaxFaults}}
      [] OTHER -> {{}}

(* What one ledger answers.  Of the learnings that match or, spectral, are *)
(* ranked, a search and a list leave out those in quarantine,              *)
(* recall_context does not; a summary is drawn from the blocks.            *)
GetOne(root, arg)     == MatchPrefix(root, arg)
SearchOne(root, arg, out) ==
    (IF Covers(root) THEN snapshot[root].nodes ELSE Hits(root, arg)) \ (contested \cup out)
RecallOne(root, arg)  == Hits(root, arg)
ListOne(root)         == tagged[root] \ contested
StatsOne(root)        == {root}
SummaryOne(root)      == IF tagged[root] = {} THEN {} ELSE {root}
HandoffOne(root, arg, out) ==
    IF arg = None THEN ReadCurrent(root) ELSE LatestForSession(root, arg, out)

Result(tool, arg, root, out) ==
    CASE tool = "get"     -> GetOne(root, arg)
      [] tool = "search"  -> SearchOne(root, arg, out)
      [] tool = "recall"  -> RecallOne(root, arg)
      [] tool = "list"    -> ListOne(root)
      [] tool = "stats"   -> StatsOne(root)
      [] tool = "summary" -> SummaryOne(root)
      [] tool = "handoff" -> HandoffOne(root, arg, out)

(* What the call should find: what was there, and acknowledged, before it. *)
Findable(tool, arg, root) ==
    CASE tool = "handoff" -> {h \in recorded : h.root = root /\ (arg # None => h.session = arg)}
      [] tool = "search"  -> Hits(root, arg) \ contested
      [] OTHER            -> Result(tool, arg, root, {})

BeginRead(s, tool, dir, arg) ==
    LET roots == ReadCandidates(s, dir)
        c == CallOf(tool, dir, arg)
    IN  /\ Calls(s, tool)
        /\ IF roots = <<>> THEN Answered(s, c, "ledgerMissing", None)
           ELSE call' = [call EXCEPT ![s] = [c EXCEPT !.step = "consult", !.todo = roots,
                   !.known = UNION {Findable(tool, arg, roots[i]) : i \in DOMAIN roots}]]
        /\ UNCHANGED <<handoffVars, up, dirs, layout, tagged, contested, snapshot, recalled, setup>>

(* One ledger is consulted; the first that has an answer gives it, and     *)
(* with none the answer is that there is nothing.  (What answers have left *)
(* out is the history `cut`.)                                              *)
Consulted(s, root, out) ==
    LET c == [call[s] EXCEPT !.cut = @ \cup out]
        found == Result(c.tool, c.arg, root, out)
    IN  IF found # {} THEN \E v \in found : Answered(s, c, "found", v)
        ELSE IF Len(c.todo) = 1 THEN Answered(s, c, "nothing", None)
        ELSE call' = [call EXCEPT ![s] = [c EXCEPT !.todo = Tail(@)]]

(* All but get_handoff open the ledger, which lays out its files. *)
Consult(s) ==
    LET c == call[s]
        root == Head(c.todo)
    IN  /\ c.step = "consult"
        /\ layout' = IF c.tool = "handoff" THEN layout ELSE layout \cup {root}
        /\ \E out \in LeftOut(c.tool, c.arg, root) :
              /\ Consulted(s, root, out)
              /\ faults' = IF c.tool = "handoff" /\ out # {} THEN faults + 1 ELSE faults
        /\ recalled' = IF c.tool = "get" /\ call'[s].answer = "found"
                       THEN [recalled EXCEPT ![s] = [arg |-> c.arg, dir |-> c.dir, id |-> call'[s].value]]
                       ELSE recalled
        /\ UNCHANGED <<handoffs, current, writing, clock, ties, recorded, raced>>
        /\ UNCHANGED <<up, dirs, tagged, contested, snapshot, setup>>

------------------------------------------------------------------------------

(* tag_learning opens the ledger, which makes it, and appends a block. *)
TagLearning(s, dir) ==
    LET root == ResolveLedger(s, dir)
        c == CallOf("tag", dir, None)
    IN  /\ Calls(s, "tag")
        /\ \E l \in Learnings : (\A r \in Roots : l \notin tagged[r]) /\
              /\ tagged' = [tagged EXCEPT ![root] = @ \cup {l}]
              /\ Answered(s, c, "created", l)
        /\ dirs' = dirs \cup {root} /\ layout' = layout \cup {root}
        /\ UNCHANGED <<handoffVars, up, contested, snapshot, recalled, setup>>

(* record_outcome, record_corroboration: reinforcements.json is read to    *)
(* find the learning, and read again, under its lock, to change it.        *)
BeginReinforce(s, dir, arg) ==
    LET root == ResolveLedger(s, dir)
        c == CallOf("reinforce", dir, arg)
    IN  /\ Calls(s, "reinforce")
        /\ IF root \notin dirs
           THEN Answered(s, c, "ledgerMissing", None) /\ UNCHANGED layout
           ELSE /\ layout' = layout \cup {root}
                /\ IF MatchPrefix(root, arg) = {} THEN Answered(s, c, "notFound", None)
                   ELSE \E l \in MatchPrefix(root, arg) :
                      call' = [call EXCEPT ![s] = [c EXCEPT !.step = "record", !.value = l,
                                                            !.todo = <<root>>]]
        /\ UNCHANGED <<handoffVars, up, dirs, tagged, contested, snapshot, recalled, setup>>

(* A failure contests a learning; one that is confirmed again may return.  *)
(* (What is contested meanwhile a search need not find: call's history.)   *)
Reinforce(s) ==
    LET c == call[s]
    IN  /\ c.step = "record"
        /\ contested' \in {contested, contested \cup {c.value}, contested \ {c.value}}
        /\ call' = [t \in Servers |->
              IF t = s THEN [c EXCEPT !.step = "done", !.answer = "recorded", !.todo = <<>>]
              ELSE IF call[t].tool \in {"search", "list"} /\ call[t].step = "consult"
                   THEN [call[t] EXCEPT !.known = @ \ contested']
              ELSE call[t]]
        /\ UNCHANGED <<handoffVars, up, dirs, layout, tagged, snapshot, recalled, setup>>

(* tag_handoff: its directory is made with the first write. *)
BeginTagHandoff(s, dir, session) ==
    /\ Calls(s, "tagHandoff")
    /\ BeginHandoff(s, ResolveLedger(s, dir), session)
    /\ call' = [call EXCEPT ![s] = [CallOf("tagHandoff", dir, session) EXCEPT !.step = "handing"]]
    /\ UNCHANGED <<up, dirs, layout, tagged, contested, snapshot, recalled, setup>>

TagHandoffFile(s) ==
    /\ WriteHandoff(s)
    /\ dirs' = dirs \cup {writing[s].handoff.root}
    /\ UNCHANGED <<up, layout, tagged, contested, snapshot, call, recalled, setup>>

TagHandoffPointer(s) ==
    /\ WritePointer(s)
    /\ Answered(s, call[s], "recorded", writing[s].handoff)
    /\ UNCHANGED <<up, dirs, layout, tagged, contested, snapshot, recalled, setup>>

(* A file cannot be read or written, or the session ends: the call is over.*)
Fail(s) ==
    /\ call[s].step \in {"consult", "record", "handing"}
    /\ IF call[s].step = "handing" THEN HandoffFails(s)
       ELSE /\ faults < MaxFaults /\ faults' = faults + 1
            /\ UNCHANGED <<handoffs, current, writing, clock, ties, recorded, raced>>
    /\ \/ up' = up \/ up' = [up EXCEPT ![s] = "down"]
    /\ call' = [call EXCEPT ![s] = NoCall]
    /\ recalled' = IF up' = up THEN recalled ELSE [recalled EXCEPT ![s] = NotRecalled]
    /\ UNCHANGED <<dirs, layout, tagged, contested, snapshot, setup>>

Init ==
    /\ HandoffInit
    /\ setup \in Setups
    /\ up = [s \in Servers |-> "down"]
    /\ dirs = {} /\ layout = {}
    /\ tagged = [r \in Roots |-> {}]
    /\ contested = {}
    /\ snapshot = [r \in Roots |-> NoSnapshot]
    /\ call = [s \in Servers |-> NoCall]
    /\ recalled = [s \in Servers |-> NotRecalled]

(* A server begins a call on a directory. *)
Begins(s, dir) ==
    \/ TagLearning(s, dir)
    \/ \E ref \in setup.refs :
          \/ \E tool \in {"get", "search", "recall"} : BeginRead(s, tool, dir, ref)
          \/ BeginReinforce(s, dir, ref)
    \/ \E tool \in {"list", "stats", "summary"} : BeginRead(s, tool, dir, None)
    \/ \E session \in Sessions : BeginTagHandoff(s, dir, session)
    \/ \E session \in Sessions \cup {None} : BeginRead(s, "handoff", dir, session)

Next ==
    \/ \E root \in Roots : Dream(root)
    \/ \E s \in Servers :
          \/ Start(s) \/ Consult(s) \/ Reinforce(s)
          \/ TagHandoffFile(s) \/ TagHandoffPointer(s) \/ Fail(s)
          \/ \E dir \in setup.args : Begins(s, dir)

Spec == Init /\ [][Next]_vars

------------------------------------------------------------------------------
(* Properties. *)

(* An id that was the only match of a ledger and is not any more. *)
Ambiguous(arg, l) == \E r \in Roots : l \in Hits(r, arg) /\ Hits(r, arg) # {l}

(* impls.rs:72-73, 105-107: a ledger that is missing is an error, "never   *)
(* an empty success", and the ledgers are searched one after the other.  A *)
(* read that says there is nothing has looked everywhere: what it asks for,*)
(* was in one of its ledgers when it began and stayed out of quarantine is *)
(* missed only if a snapshot that covers the ledger ranked it out or its   *)
(* handoff could not be read (cut), if the id has become ambiguous in the  *)
(* learning's ledger, or if two handoffs had the same time stamp.          *)
NothingIsMissed ==
    \A s \in Servers : LET c == call[s] IN c.answer = "nothing" =>
        \A v \in c.known \ c.cut :
            \/ c.tool = "get" /\ Ambiguous(c.arg, v)
            \/ c.tool = "handoff" /\ ties > 0

(* server.rs: get_handoff "with session_id, returns the latest handoff for *)
(* that session": of the ledger that answers, no handoff of the session    *)
(* that was acknowledged before the call, and could be read, is newer,     *)
(* whoever else recorded meanwhile or failed to, if no two had the same    *)
(* time stamp.                                                             *)
SessionFindsItsHandoff ==
    ties = 0 => \A s \in Servers :
        call[s].tool = "handoff" /\ call[s].arg # None /\ call[s].answer = "found" =>
            \A h \in call[s].known \ call[s].cut :
                h.root = call[s].value.root => h.stamp <= call[s].value.stamp

(* server.rs:290 "search_learnings to recall, record_outcome to reinforce":*)
(* where both look at one ledger (the project is given), an id under which *)
(* a session found a learning reinforces that one and no other; it is not  *)
(* found only if the id has become ambiguous since.                        *)
RecalledAgain(s) ==
    /\ call[s].tool = "reinforce" /\ recalled[s].id # None
    /\ call[s].arg = recalled[s].arg /\ call[s].dir = recalled[s].dir
ReinforcedIsRecalled ==
    \A s \in Servers : RecalledAgain(s) /\ Default(s, call[s].dir) # None =>
        /\ call[s].answer \notin {"ledgerMissing"}
        /\ call[s].answer = "notFound" => call[s].arg \in Prefixes
        /\ call[s].answer = "recorded" \/ call[s].step = "record" => call[s].value = recalled[s].id

(* The same without that condition: what a session has recalled it can     *)
(* reinforce, calling both tools alike.                                    *)
RecalledCanBeReinforced ==
    \A s \in Servers : RecalledAgain(s) /\ call[s].arg \in Learnings =>
        call[s].answer \notin {"ledgerMissing", "notFound"}

(* server.rs: the read tools are annotated read_only_hint: no step of a    *)
(* read-only server changes a file.                                        *)
ReadOnlyLeavesFiles ==
    [][\A s \in Servers : ReadOnly(s) /\ call'[s] # call[s] =>
          UNCHANGED <<dirs, layout, tagged, contested, handoffs, current>>]_vars

=============================================================================
