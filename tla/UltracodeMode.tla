---------------------------- MODULE UltracodeMode ----------------------------
(***************************************************************************)
(* The mode controller of src/mode.ts with the handlers that drive it      *)
(* (extensions/ultracode.ts, the /ultracode command of src/commands.ts).   *)
(* The mode lives in memory; each choice is also appended to the session,  *)
(* which is a tree of entries: the branch that ends in the leaf decides    *)
(* what a restart, a fork or a walk through the tree finds.  Every call    *)
(* into the host may throw.                                                *)
(***************************************************************************)
EXTENDS Integers, Sequences, FiniteSets

CONSTANTS
  Fixed,       \* the depths a user can choose besides "auto" and "deep"
  entryBound,  \* bounds the entries of the session
  faultBound   \* bounds the calls into the host that throw

Active == Fixed \cup {"auto", "deep"}
Mode == Active \cup {"off"}

\* What an entry of the session says: a mode; what older versions saved
\* instead, {enabled: boolean}; "malformed" data; or nothing about the mode.
Saved == Mode \cup {"enabled", "disabled", "malformed", "nothing"}

\* What an instance of this module assumes of its constants.
ModeAssumption ==
  /\ Fixed \cap {"off", "auto", "deep", "enabled", "disabled", "malformed", "nothing"} = {}
  /\ entryBound \in Nat /\ faultBound \in Nat

VARIABLES
  mode, suspended,  \* the controller's two fields
  entries,          \* the session: entries with their parents, oldest first
  leaf,             \* the entry the branch ends in; 0 is the root
  stage,            \* of the session: "fresh", "live", "ended"
  moved,            \* the leaf was moved and session_tree is still to come
  shown,            \* the workflow tool is among the active tools
  section,          \* the policy in the prompt of the current turn
  call,             \* of the workflow tool: "none", past the hook, "running"
  flag,             \* pi was started with --ultracode
  default,          \* the global preference defaultEnabled
  current,          \* history: memory was read from this branch or saved on it
  faults            \* calls into the host that threw

controller == <<mode, suspended>>
session == <<entries, leaf, stage, moved>>
turn == <<section, call>>
vars == <<controller, session, shown, turn, flag, default, current, faults>>

TypeOK ==
  /\ mode \in Mode
  /\ {suspended, moved, shown, flag, default, current} \subseteq BOOLEAN
  /\ entries \in Seq([parent : 0..entryBound, says : Saved])
  /\ \A i \in DOMAIN entries : entries[i].parent < i
  /\ leaf \in 0..Len(entries)
  /\ stage \in {"fresh", "live", "ended"}
  /\ section \in Active \cup {"nothing"}
  /\ call \in {"none", "cleared", "running"}
  /\ faults \in 0..faultBound

\* A new session, or one of an earlier version of the extension.
Init ==
  /\ mode = "off" /\ suspended = FALSE
  /\ \E says \in Saved :
       /\ entries = <<[parent |-> 0, says |-> says]>>
       /\ current = (says = "nothing")
  /\ leaf = 1
  /\ stage = "fresh" /\ moved = FALSE
  /\ shown = TRUE
  /\ section = "nothing" /\ call = "none"
  /\ flag \in BOOLEAN /\ default \in BOOLEAN
  /\ faults = 0

----------------------------------------------------------------------------
(***************************************************************************)
(* What a branch says.                                                     *)
(***************************************************************************)
OnBranch(last) ==
  LET on[i \in 0..Len(entries)] ==
        i = last \/ \E k \in i+1..Len(entries) : on[k] /\ entries[k].parent = i
  IN  {i \in 1..Len(entries) : on[i]}

\* The entries about the mode that carry data, from the root to last.
Choices(last) == {i \in OnBranch(last) : entries[i].says # "nothing"}

\* parsePersistedModeState()
Decoded(says) ==
  IF says \in Active THEN says ELSE IF says = "enabled" THEN "deep" ELSE "off"

\* restore(): the last of them counts, and no choice is "off".
BranchMode(last) ==
  IF Choices(last) = {} THEN "off"
  ELSE Decoded(entries[CHOOSE i \in Choices(last) : \A k \in Choices(last) : k <= i].says)

----------------------------------------------------------------------------
(***************************************************************************)
(* The controller.  Its operations say what becomes of mode, suspended and *)
(* the session; SyncTool comes last in each of them.                       *)
(***************************************************************************)
EnforcingIn(m, s) == m # "off" /\ ~s
Enforcing == EnforcingIn(mode, suspended)

Threw(n) == faults + n <= faultBound /\ faults' = faults + n

\* syncTool(): best effort.
SyncTool(fails) == shown' = IF fails THEN shown ELSE EnforcingIn(mode', suspended')

\* appendEntry() below the entry `from': best effort.
Keep(from, lost) == UNCHANGED entries /\ leaf' = from /\ current' = ~lost

AppendEntry(from, m) ==
  /\ Len(entries) < entryBound
  /\ entries' = Append(entries, [parent |-> from, says |-> m])
  /\ leaf' = Len(entries')
  /\ current' = TRUE

\* configure()
Configure(from, m, fails) ==
  /\ mode' = m /\ suspended' = FALSE
  /\ IF "append" \in fails THEN Keep(from, TRUE) ELSE AppendEntry(from, m)

\* restore(); a branch that cannot be read leaves the controller as it was.
Restore(from) ==
  mode' = BranchMode(from) /\ suspended' = FALSE /\ Keep(from, FALSE)

Unrestored(from, m, s) == mode' = m /\ suspended' = s /\ Keep(from, TRUE)

----------------------------------------------------------------------------
(***************************************************************************)
(* The user's commands.                                                    *)
(***************************************************************************)
Interactive == stage \in {"fresh", "live"} /\ ~moved

\* /ultracode <mode>, enable(), disable()
Choose(m) ==
  /\ Interactive
  /\ \E fails \in SUBSET {"append", "sync"} :
       /\ Threw(Cardinality(fails))
       /\ Configure(leaf, m, fails)
       /\ SyncTool("sync" \in fails)
  /\ UNCHANGED <<stage, moved, turn, flag, default>>

\* /ultracode
Toggle == Choose(IF mode = "off" THEN "auto" ELSE "off")

\* /ultracode default on: saves the preference, then enables a mode that is
\* off.  A preference that cannot be written or read back ends the command.
DefaultOn ==
  /\ Interactive
  /\ \E fails \in SUBSET {"append", "sync", "write", "read"} :
       /\ Threw(Cardinality(fails))
       /\ default' = (default \/ "write" \notin fails)
       /\ IF fails \cap {"write", "read"} # {} \/ mode # "off"
            THEN UNCHANGED <<controller, entries, leaf, shown, current>>
            ELSE Configure(leaf, "auto", fails) /\ SyncTool("sync" \in fails)
  /\ UNCHANGED <<stage, moved, turn, flag>>

\* /ultracode default off, here or in another process; "on" in another one.
SetDefault(b) ==
  /\ default' = b
  /\ UNCHANGED <<controller, session, shown, turn, flag, current, faults>>

----------------------------------------------------------------------------
(***************************************************************************)
(* The session's events.                                                   *)
(***************************************************************************)
\* The startup default applies to a branch without any saved mode.
EnabledByDefault(last, fails) ==
  default /\ fails \cap {"branch", "preference"} = {} /\ Choices(last) = {}

\* session_start.  The controller is the one of the last session or a new
\* one; the branch is any of the session, as after reload, resume or fork.
SessionStart ==
  /\ stage \in {"fresh", "ended"}
  /\ \E last \in 0..Len(entries), new \in BOOLEAN,
        fails \in SUBSET {"branch", "flag", "preference", "append", "sync"} :
       LET m == IF new THEN "off" ELSE mode
           found == IF "branch" \in fails THEN m ELSE BranchMode(last)
           enabled == /\ found = "off" /\ "flag" \notin fails
                      /\ flag \/ EnabledByDefault(last, fails)
       IN  /\ Threw(Cardinality(fails))
           /\ \/ enabled /\ Configure(last, "auto", fails)
              \/ ~enabled /\ "branch" \notin fails /\ Restore(last)
              \/ /\ ~enabled /\ "branch" \in fails
                 /\ Unrestored(last, m, suspended /\ ~new)
           /\ SyncTool("sync" \in fails)
  /\ stage' = "live" /\ moved' = FALSE
  /\ UNCHANGED <<turn, flag, default>>

\* The user walks to another entry; the turn is over.
Navigate(to) ==
  /\ Interactive /\ to # leaf
  /\ leaf' = to /\ moved' = TRUE
  /\ section' = "nothing" /\ call' = "none"
  /\ current' = FALSE
  /\ UNCHANGED <<controller, entries, stage, shown, flag, default, faults>>

\* session_tree; a suspended controller stays as it is, and so do all when the branch
\* cannot be read.
SessionTree ==
  /\ moved /\ moved' = FALSE
  /\ \E fails \in {{}, {"branch"}, {"sync"}} :
       /\ Threw(Cardinality(fails))
       /\ IF suspended \/ "branch" \in fails
            THEN Unrestored(leaf, mode, suspended) /\ UNCHANGED shown
            ELSE Restore(leaf) /\ SyncTool("sync" \in fails)
  /\ UNCHANGED <<stage, turn, flag, default>>

Suspend == suspended' = TRUE

\* session_shutdown, perhaps with a workflow under way.
Shutdown ==
  /\ stage \in {"fresh", "live"}
  /\ stage' = "ended" /\ moved' = FALSE
  /\ Suspend
  /\ \E fails \in BOOLEAN :
       /\ Threw(IF fails THEN 1 ELSE 0)
       /\ UNCHANGED mode
       /\ SyncTool(fails)
  /\ UNCHANGED <<entries, leaf, turn, flag, default, current>>

\* Another extension selects the active tools.
OtherWriter(b) ==
  /\ shown' = b
  /\ UNCHANGED <<controller, session, turn, flag, default, current, faults>>

----------------------------------------------------------------------------
(***************************************************************************)
(* A turn of the agent.                                                    *)
(***************************************************************************)
\* before_agent_start; the turn may be aborted already.
AgentStart(aborted) ==
  /\ Interactive
  /\ section' = IF aborted \/ ~Enforcing THEN "nothing" ELSE mode
  /\ \E fails \in BOOLEAN :
       /\ Threw(IF fails THEN 1 ELSE 0)
       /\ UNCHANGED controller
       /\ SyncTool(fails)
  /\ call' = "none"
  /\ UNCHANGED <<session, flag, default, current>>

\* tool_call: the hook blocks a call of the workflow tool unless enforcing.
\* A model may ask for a tool that was hidden from it since.
ToolCall ==
  /\ call = "none" /\ Enforcing
  /\ call' = "cleared"
  /\ UNCHANGED <<controller, session, shown, section, flag, default, current, faults>>

\* Mutant: only the hook guards the tool.
ExecuteUnguarded ==
  /\ call = "cleared" /\ call' = "running"
  /\ UNCHANGED <<controller, session, shown, section, flag, default, current, faults>>

\* The tool's own guard, when it begins to execute.
Execute ==
  /\ call = "cleared"
  /\ call' = IF Enforcing THEN "running" ELSE "none"
  /\ UNCHANGED <<controller, session, shown, section, flag, default, current, faults>>

Next ==
  \/ \E m \in Mode : Choose(m)
  \/ Toggle \/ DefaultOn
  \/ \E b \in BOOLEAN : SetDefault(b) \/ OtherWriter(b) \/ AgentStart(b)
  \/ SessionStart \/ SessionTree \/ Shutdown
  \/ \E to \in 0..Len(entries) : Navigate(to)
  \/ ToolCall \/ Execute

Spec == Init /\ [][Next]_vars

----------------------------------------------------------------------------
(***************************************************************************)
(* Properties.                                                             *)
(***************************************************************************)
\* Where the handlers have seen the leaf, the mode in memory is the one that
\* its branch records, whatever was chosen on other branches, so that a reload
\* finds the same mode.  Only a call into the host that threw sets them apart.
BranchDecides == current => mode = BranchMode(leaf)

\* Where session_start found the session: the new entry's parent, if any.
StartedFrom == IF entries' = entries THEN leaf' ELSE entries'[leaf'].parent

\* A start takes over what the branch records, an explicit "off" too, in
\* spite of the global default, which serves branches without a record only;
\* --ultracode alone turns "off" into "auto".  A branch that cannot be read is
\* never enabled by the default.
StartKeepsChoice ==
  stage # "live" /\ stage' = "live" /\ ~flag =>
    \/ Choices(StartedFrom) # {} /\ mode' = BranchMode(StartedFrom)
    \/ Choices(StartedFrom) = {} /\ mode' = "off"
    \/ Choices(StartedFrom) = {} /\ default /\ mode' = "auto"
    \/ ~current' /\ mode' \in {"off", mode}

\* No workflow starts against what the branch records, although the mode may
\* change between the hook that lets a call pass and its execution, nor after
\* session_shutdown, with a mode that stays chosen and saved.
RunsFollowBranch ==
  call # "running" /\ call' = "running" =>
    stage # "ended" /\ (current => BranchMode(leaf) # "off")

\* The session's branch decides, in each of these respects.
BranchRules ==
  [][TypeOK' /\ BranchDecides' /\ StartKeepsChoice /\ RunsFollowBranch]_vars
=============================================================================
