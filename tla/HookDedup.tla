------------------------------ MODULE HookDedup ------------------------------
(***************************************************************************)
(* The PostToolUse hook (cortex-hooks): after a tool call it may nudge the *)
(* session to tag a learning or record an outcome, once per kind of nudge  *)
(* and session in a window of time.  What was nudged when is kept in one   *)
(* file for all sessions.  Hooks of parallel tool calls run side by side,  *)
(* without a lock, and write through one temporary file name.              *)
(***************************************************************************)
EXTENDS Naturals, FiniteSets

CONSTANTS Hooks,          \* hook processes
          HookSessions,
          Window,         \* DEDUP_WINDOW_SECS
          MaxTime,        \* bound on the clock
          MaxFires,       \* bound: hooks that come to look at the file
          MaxHookFaults,  \* bound: hooks that die, or whose write fails
          NoFile

ASSUME HookAssumption ==
    /\ Window \in Nat \ {0} /\ MaxTime \in Nat /\ MaxFires \in Nat /\ MaxHookFaults \in Nat
    /\ IsFiniteSet(Hooks) /\ NoFile \notin Nat

(* What a tool call may be, and the nudge it classifies as. *)
ToolKind == [webTool |-> "web", externalMcp |-> "mcp", subagent |-> "agent",
             cortexRecall |-> "recall", cortexCapture |-> "none", routine |-> "none"]

Key   == [session : HookSessions, kind : {"web", "mcp", "agent", "recall"}]
Entry == [key : Key, at : 0 .. MaxTime]
Inode == 1 .. Cardinality(Hooks) + 2

VARIABLES
    file,      \* hook-recent.json: its inode, or NoFile
    tmp,       \* hook-recent.json.tmp: its inode, or NoFile
    content,   \* per inode: whether it parses, and the entries it then holds
    hook,      \* per process: its step and what it holds
    now,       \* the clock
    fires, hookFaults,
    overlap,   \* history: two hooks have run at the same time
    nudges,    \* history: the nudges printed, each with the time it was recorded
    silenced   \* history: the hooks that kept silent, each with the time

hookVars == <<file, tmp, content, hook, now, fires, hookFaults, overlap, nudges, silenced>>
disk == <<file, tmp, content>>
history == <<overlap, nudges, silenced>>

(* Mutant: the sessions share their entries. *)
DedupKeyOfKind(session, kind) == [session |-> CHOOSE s \in HookSessions : TRUE, kind |-> kind]

DedupKey(session, kind) == [session |-> session, kind |-> kind]

NoHook == [step |-> "idle", session |-> NoFile, kind |-> "none", state |-> {}, at |-> 0, inode |-> NoFile]

(* read_state: a file that is not there or does not parse is an empty one. *)
ReadState == IF file = NoFile THEN {} ELSE content[file].entries
Empty == [is |-> "empty", entries |-> {}]
Garbled == [is |-> "garbled", entries |-> {}]
Whole(entries) == [is |-> "whole", entries |-> entries]

Holding(h) == DedupKey(hook[h].session, hook[h].kind)

(* build_directive: only some tools nudge, and not for an answer that says nothing. *)
Fire(h, session, tool, informative) ==
    /\ hook[h].step = "idle"
    /\ ToolKind[tool] # "none" /\ informative
    /\ fires < MaxFires /\ fires' = fires + 1
    /\ hook' = [hook EXCEPT ![h] = [NoHook EXCEPT !.step = "check", !.session = session,
                                                  !.kind = ToolKind[tool]]]
    /\ overlap' = (overlap \/ \E g \in Hooks : hook[g].step # "idle")
    /\ UNCHANGED <<disk, now, hookFaults, nudges, silenced>>

RecentlyFired(h) ==
    /\ hook[h].step = "check"
    /\ IF \E e \in ReadState : e.key = Holding(h) /\ now < e.at + Window
       THEN /\ hook' = [hook EXCEPT ![h] = NoHook]
            /\ silenced' = silenced \cup {[session |-> hook[h].session, kind |-> hook[h].kind, at |-> now]}
       ELSE hook' = [hook EXCEPT ![h].step = "record"] /\ UNCHANGED silenced
    /\ UNCHANGED <<disk, now, fires, hookFaults, overlap, nudges>>

(* Mutant: entries are pruned in half the window. *)
PruneEarly(entries) == {e \in entries : now < e.at + Window \div 2}

(* Entries of twice the window's age are dropped. *)
Prune(entries) == {e \in entries : now < e.at + 2 * Window}

(* record_fire reads the file again; the time is the entry's. *)
RecordFire(h) ==
    /\ hook[h].step = "record"
    /\ hook' = [hook EXCEPT ![h].step = "open", ![h].at = now,
          ![h].state = Prune({e \in ReadState : e.key # Holding(h)} \cup {[key |-> Holding(h), at |-> now]})]
    /\ UNCHANGED <<disk, now, fires, hookFaults, history>>

(* Mutant: the file itself is opened for writing. *)
OpenInPlace(h) ==
    /\ hook[h].step = "open"
    /\ LET i == IF file = NoFile THEN CHOOSE j \in Inode : TRUE ELSE file
       IN  /\ file' = i
           /\ content' = [content EXCEPT ![i] = Empty]
           /\ hook' = [hook EXCEPT ![h].step = "write", ![h].inode = i]
    /\ UNCHANGED <<tmp, now, fires, hookFaults, history>>

(* fs::write opens the temporary file, which truncates it, and writes.     *)
OpenTmp(h) ==
    /\ hook[h].step = "open"
    /\ LET used == {file, tmp} \cup {hook[g].inode : g \in Hooks}
           i == IF tmp = NoFile THEN CHOOSE j \in Inode : j \notin used ELSE tmp
       IN  /\ tmp' = i
           /\ content' = [content EXCEPT ![i] = Empty]
           /\ hook' = [hook EXCEPT ![h].step = "write", ![h].inode = i]
    /\ UNCHANGED <<file, now, fires, hookFaults, history>>

(* Over what another hook has written since, the bytes may or may not make *)
(* up a file that parses: it depends on their lengths.                     *)
WriteTmp(h) ==
    LET i == hook[h].inode
    IN  /\ hook[h].step = "write"
        /\ \E c \in {Whole(hook[h].state)} \cup IF content[i] = Empty THEN {} ELSE {Garbled} :
              content' = [content EXCEPT ![i] = c]
        /\ hook' = [hook EXCEPT ![h].step = "rename", ![h].inode = NoFile]
        /\ UNCHANGED <<file, tmp, now, fires, hookFaults, history>>

(* An error (another hook has renamed it) is ignored. *)
Rename(h) ==
    /\ hook[h].step = "rename"
    /\ file' = IF tmp = NoFile THEN file ELSE tmp
    /\ tmp' = NoFile
    /\ hook' = [hook EXCEPT ![h].step = "print"]
    /\ UNCHANGED <<content, now, fires, hookFaults, history>>

(* nudges are numbered, to tell one from another. *)
Nudge(h, printed) == [no |-> Cardinality(nudges), session |-> hook[h].session, kind |-> hook[h].kind,
                      at |-> hook[h].at, printed |-> printed]

PrintNudge(h) ==
    /\ hook[h].step = "print"
    /\ nudges' = nudges \cup {Nudge(h, TRUE)}
    /\ hook' = [hook EXCEPT ![h] = NoHook]
    /\ UNCHANGED <<disk, now, fires, hookFaults, overlap, silenced>>

(* The hook is killed; or its file cannot be written, which is ignored.    *)
HookFails(h) ==
    /\ hook[h].step # "idle" /\ hookFaults < MaxHookFaults
    /\ hookFaults' = hookFaults + 1
    /\ \/ /\ hook' = [hook EXCEPT ![h] = NoHook]
          /\ nudges' = IF hook[h].step \in {"check", "record"} THEN nudges
                                                               ELSE nudges \cup {Nudge(h, FALSE)}
       \/ /\ hook[h].step \in {"open", "write", "rename"}
          /\ hook' = [hook EXCEPT ![h].step = "print", ![h].inode = NoFile]
          /\ UNCHANGED nudges
    /\ UNCHANGED <<disk, now, fires, overlap, silenced>>

Tick == now < MaxTime /\ now' = now + 1 /\ UNCHANGED <<disk, hook, fires, hookFaults, history>>

HookInit ==
    /\ file = NoFile /\ tmp = NoFile
    /\ content = [i \in Inode |-> Empty]
    /\ hook = [h \in Hooks |-> NoHook]
    /\ now = 0 /\ fires = 0 /\ hookFaults = 0
    /\ overlap = FALSE /\ nudges = {} /\ silenced = {}

HookStep(h) == RecentlyFired(h) \/ RecordFire(h) \/ OpenTmp(h) \/ WriteTmp(h) \/ Rename(h)
                 \/ PrintNudge(h) \/ HookFails(h)

------------------------------------------------------------------------------
(* Properties. *)

(* post_tool_use.rs:23-24 "Same-KIND fires within DEDUP_WINDOW_SECS are    *)
(* suppressed": a session that is nudged twice in the window had hooks     *)
(* running at the same time (its own or other sessions'), or a fault.      *)
RepeatsAreRaces ==
    ~overlap /\ hookFaults = 0 => \A m, n \in nudges :
        m.session = n.session /\ m.kind = n.kind /\ m.at <= n.at /\ n.at < m.at + Window => m = n

(* "two concurrent Claude Code sessions ... not accidentally suppress each *)
(* other": a hook keeps silent only for a nudge of its own session and     *)
(* kind within the window: one that was printed, or is about to be, or     *)
(* whose hook died after recording it.                                     *)
SilenceIsOwed ==
    \A q \in silenced :
        \/ \E n \in nudges : n.session = q.session /\ n.kind = q.kind /\ n.at <= q.at /\ q.at < n.at + Window
        \/ \E h \in Hooks : hook[h].step \in {"open", "write", "rename", "print"}
              /\ hook[h].session = q.session /\ hook[h].kind = q.kind

(* post_tool_use.rs:29-30 "The file is updated atomically (temp + rename)":*)
(* true across deaths and failed writes, as long as no two hooks run at    *)
(* the same time: then one renames what the other has just truncated.      *)
FileIsWhole == file # NoFile /\ ~overlap => content[file].is = "whole"

=============================================================================
