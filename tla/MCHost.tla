------------------------------- MODULE MCHost -------------------------------
(***************************************************************************)
(* Model-checking instances of what a session keeps about its workflows:   *)
(* the calls of the tool and the list of runs (HostSession), and the mode  *)
(* that permits them (UltracodeMode).  They share no state: a behaviour    *)
(* steps one of them, chosen at the start.                                 *)
(***************************************************************************)
EXTENDS HostSession, TLC

VARIABLES
  part,
  \* the variables of UltracodeMode:
  mode, suspended, entries, leaf, sessionStage, moved, shown, section, toolCall, flag,
  default, current, faults

modeVars == <<mode, suspended, entries, leaf, sessionStage, moved, shown, section, toolCall,
              flag, default, current, faults>>

\* The same calls where only one run may be active: its cap refuses the other.
Tight == INSTANCE ToolHost WITH MaxActive <- 1

\* The depths auto and deep, two entries besides the root, one throw.
Mode == INSTANCE UltracodeMode WITH
  Fixed <- {}, entryBound <- 2, faultBound <- 1, stage <- sessionStage, call <- toolCall

ASSUME Registry!RegistryAssumption /\ Mode!ModeAssumption

Symmetry == Permutations(Run) \cup Permutations(Call)

----------------------------------------------------------------------------
ModeAtRest ==
  /\ entries = <<[parent |-> 0, says |-> "nothing"]>>
  /\ flag = FALSE /\ default = FALSE

HostInit ==
  /\ part \in {"tool", "tight", "registry", "mode"}
  /\ Init
  /\ Registry!Init
  /\ Mode!Init
  /\ part # "mode" => ModeAtRest

HostNext ==
  \/ part = "tool" /\ Next /\ UNCHANGED <<part, registryVars, modeVars>>
  \/ part = "tight" /\ Tight!Next /\ UNCHANGED <<part, registryVars, modeVars>>
  \/ part = "registry" /\ Registry!Next /\ UNCHANGED <<part, vars, modeVars>>
  \/ part = "mode" /\ Mode!Next /\ UNCHANGED <<part, vars, registryVars>>

HostSpec == HostInit /\ [][HostNext]_<<part, vars, registryVars, modeVars>>

----------------------------------------------------------------------------
\* The session's branch decides on the mode and on what may start.
BranchRules == Mode!BranchRules
=============================================================================
