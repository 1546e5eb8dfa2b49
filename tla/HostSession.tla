---------------------------- MODULE HostSession ----------------------------
(***************************************************************************)
(* What one session keeps about its workflows: the calls of the tool with  *)
(* their leases (ToolHost) and the list of runs, through which the user    *)
(* sees and aborts them (RunRegistry).  A call tells the list that its run *)
(* began, how it ended and when its details are closed; that these come in *)
(* this order, and for no more runs at once than the leases admit, is all  *)
(* that the list knows of the calls, so that the two share no state.       *)
(***************************************************************************)
EXTENDS ToolHost, Sequences

CONSTANTS
  ListedRun,  \* the runs of RunRegistry
  capacity,   \* the handles that it keeps
  timeBound   \* bounds its clock

VARIABLES
  \* the variables of RunRegistry:
  runs, order, stage, asked, disk, mtime, now

registryVars == <<runs, order, stage, asked, disk, mtime, now>>

Registry == INSTANCE RunRegistry WITH Run <- ListedRun, maxActive <- MaxActive

----------------------------------------------------------------------------
\* Runs under way can be aborted, and only they are shown as running.
RegistrySound == Registry!RegistrySound
=============================================================================
