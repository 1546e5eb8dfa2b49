-------------------------- MODULE WorktreeOwnership --------------------------
(***************************************************************************)
(* createWorktree() and removeWorktree() of src/workflow/worktree.ts: the  *)
(* three directories of an isolated agent (its working tree, git's         *)
(* registration of it, the store of raw objects), which agents, users and  *)
(* git itself may move, delete or replace, and a removal that must delete  *)
(* nothing but what this worktree made.                                    *)
(*                                                                         *)
(* A directory is known by its identity (device and inode), which a move   *)
(* keeps and a replacement does not have.                                  *)
(***************************************************************************)
EXTENDS Naturals

CONSTANT disturbanceBound  \* bound: what others do to the directories

\* What an instance of this module assumes of its constants.
OwnershipAssumption == disturbanceBound \in Nat

\* The places: the worktree's path, somewhere else, its store of objects, and two
\* entries of the repository's directory of registrations.
AdminPlace == {"entry1", "entry2"}
Place == {"path", "aside", "store"} \cup AdminPlace

\* The directories: those of this worktree, another one, another registration.
Own == {"root", "registration", "objects"}
Directory == Own \cup {"other", "otherRegistration"}
Node == Directory \cup {"nothing", "file"}

VARIABLES
  at,           \* what is at a place
  pointer,      \* the .git of a directory: the entry it names, "none", or "broken"
  registered,   \* the place whose worktree a registration is for
  pc,           \* "new", "ready", the steps of the removal, "done"
  seen,         \* the removal has found its root at the path
  registration, \* the entry that the removal takes for its registration, or "none"
  disturbances, \* what others have done
  failed,       \* an operation of git or of the file system has failed
  alone,        \* nobody has disturbed the removal since it began
  destroyed     \* history: the directories that the program destroyed

layout == <<at, pointer, registered>>
removal == <<pc, seen, registration>>
vars == <<layout, removal, disturbances, failed, alone, destroyed>>

TypeOK ==
  /\ at \in [Place -> Node]
  /\ pointer \in [Directory -> AdminPlace \cup {"none", "broken"}]
  /\ registered \in [Directory -> Place]
  /\ pc \in {"new", "ready", "unregister", "removeRoot", "removeStore", "done"}
  /\ seen \in BOOLEAN /\ registration \in AdminPlace \cup {"none"}
  /\ disturbances \in 0..disturbanceBound
  /\ failed \in BOOLEAN /\ alone \in BOOLEAN
  /\ destroyed \subseteq Directory
  \* A directory is in one place.
  /\ \A p, q \in Place : at[p] \in Directory /\ at[p] = at[q] => p = q

Init ==
  /\ at = [p \in Place |-> "nothing"]
  /\ pointer = [x \in Directory |-> "none"]
  /\ registered = [x \in Directory |-> "path"]
  /\ pc = "new" /\ seen = FALSE /\ registration = "none"
  /\ disturbances = 0 /\ failed = FALSE /\ alone = TRUE /\ destroyed = {}

IsDirectory(p) == at[p] \in Directory
Vacant(p) == at[p] = "nothing"

----------------------------------------------------------------------------
(***************************************************************************)
(* Registrations.                                                          *)
(***************************************************************************)
\* validateRegistrationDirectory(), for the worktree's path
Valid(entry) == IsDirectory(entry) /\ registered[at[entry]] = "path"

\* discoverRegistrationAtPath()
Discovered == IsDirectory("path") /\ pointer[at["path"]] \in AdminPlace
              /\ Valid(pointer[at["path"]])

\* findDirectoryByIdentity()
Found(entry) == at[entry] = "registration"

\* External: `git worktree remove --force --force'.  It refuses a path that is not
\* the worktree of the registration; the directory there goes first.
GitRemove(entry) ==
  \/ /\ Vacant("path")
     /\ at' = [at EXCEPT ![entry] = "nothing"]
     /\ destroyed' = destroyed \cup {at[entry]}
     /\ UNCHANGED failed
  \/ /\ IsDirectory("path") /\ pointer[at["path"]] = entry
     /\ at' = [at EXCEPT !["path"] = "nothing", ![entry] = "nothing"]
     /\ destroyed' = destroyed \cup {at["path"], at[entry]}
     /\ UNCHANGED failed
  \/ /\ ~ Vacant("path")
     /\ failed' = TRUE
     /\ \/ UNCHANGED <<at, destroyed>>
        \/ /\ IsDirectory("path") /\ pointer[at["path"]] = entry
           /\ at' = [at EXCEPT !["path"] = "nothing"]
           /\ destroyed' = destroyed \cup {at["path"]}

\* tryRemoveOwnedDirectory(): the identity is compared once more.  The removal may
\* fail, and nobody is told.
RemoveOwned(place, identity) ==
  IF at[place] = identity
  THEN \/ /\ at' = [at EXCEPT ![place] = "nothing"]
          /\ destroyed' = destroyed \cup {identity}
          /\ UNCHANGED failed
       \/ failed' = TRUE /\ UNCHANGED <<at, destroyed>>
  ELSE UNCHANGED <<at, failed, destroyed>>

----------------------------------------------------------------------------
(***************************************************************************)
(* createWorktree()                                                        *)
(***************************************************************************)
Made(places) ==
  /\ at' = [p \in Place |-> CASE p = "path" /\ p \in places -> "root"
                              [] p = "entry1" /\ p \in places -> "registration"
                              [] p = "store" /\ p \in places -> "objects"
                              [] OTHER -> at[p]]
  /\ pointer' = [pointer EXCEPT !["root"] = "entry1"]
  /\ UNCHANGED <<registered, seen, registration, disturbances, alone>>

Create ==
  /\ pc = "new"
  /\ Made({"path", "entry1", "store"})
  /\ pc' = "ready"
  /\ UNCHANGED <<failed, destroyed>>

\* `git worktree add' fails and leaves nothing, or a complete worktree whose hook
\* failed; or a later step fails.  Then the registration and the root are removed;
\* but when git fails in that, both stay, and a store with them.  A store whose
\* identity was not yet read always stays.
CreateFails ==
  /\ pc = "new"
  /\ pc' = "done"
  /\ \/ Made({}) /\ UNCHANGED failed
     \/ Made({"store"}) /\ failed' = TRUE
     \/ \E store \in {{}, {"store"}} : Made({"path", "entry1"} \cup store) /\ failed' = TRUE
  /\ UNCHANGED destroyed

----------------------------------------------------------------------------
(***************************************************************************)
(* removeWorktree()                                                        *)
(***************************************************************************)
Return == pc' = "done" /\ UNCHANGED <<seen, registration>>

Proceed(entry) ==
  /\ seen' = IsDirectory("path")
  /\ registration' = entry
  /\ pc' = IF entry = "none" THEN "removeRoot" ELSE "unregister"

LayoutUnchanged == UNCHANGED <<layout, disturbances, failed, alone, destroyed>>

\* Mutant: a registration that the root does not name any more is forgotten.
InspectForgetful ==
  /\ pc = "ready"
  /\ IF ~ Vacant("path") /\ at["path"] # "root" THEN Return
     ELSE IF at["path"] = "root"
     THEN IF Discovered /\ Found(pointer["root"]) THEN Proceed(pointer["root"]) ELSE Proceed("none")
     ELSE IF \E e \in AdminPlace : Found(e)
          THEN \E e \in AdminPlace : Found(e) /\ IF Valid(e) THEN Proceed(e) ELSE Return
          ELSE Proceed("none")
  /\ LayoutUnchanged

\* Another directory, or a file, is at the path: it is not touched.  The root is
\* there and names its registration, or names none, and there is none; or the
\* root has gone and its registration is still for the path.  In all other cases
\* what is found cannot be verified, and stays.
Inspect ==
  /\ pc = "ready"
  /\ IF ~ Vacant("path") /\ at["path"] # "root" THEN Return
     ELSE IF at["path"] = "root"
     THEN IF Discovered
          THEN IF Found(pointer["root"]) THEN Proceed(pointer["root"]) ELSE Return
          ELSE IF (\E e \in AdminPlace : Found(e)) \/ pointer["root"] # "none"
               THEN Return ELSE Proceed("none")
     ELSE IF \E e \in AdminPlace : Found(e)
          THEN \E e \in AdminPlace : Found(e) /\ IF Valid(e) THEN Proceed(e) ELSE Return
          ELSE Proceed("none")
  /\ LayoutUnchanged

\* Mutant: what was found out before is not verified again.
UnregisterUnverified ==
  /\ pc = "unregister"
  /\ IF Vacant(registration) THEN UNCHANGED <<at, failed, destroyed>> ELSE GitRemove(registration)
  /\ pc' = IF at'[registration] = "nothing" THEN "removeRoot" ELSE "done"
  /\ UNCHANGED <<pointer, registered, seen, registration, disturbances, alone>>

\* unregisterRegistration(): verify once more, ask git, and look whether it is gone
Unregister ==
  /\ pc = "unregister"
  /\ IF Found(registration) /\ Valid(registration)
     THEN GitRemove(registration) ELSE UNCHANGED <<at, failed, destroyed>>
  /\ pc' = IF at'[registration] = "nothing" THEN "removeRoot" ELSE "done"
  /\ UNCHANGED <<pointer, registered, seen, registration, disturbances, alone>>

RemoveRoot ==
  /\ pc = "removeRoot"
  /\ IF seen THEN RemoveOwned("path", "root") ELSE UNCHANGED <<at, failed, destroyed>>
  /\ pc' = "removeStore"
  /\ UNCHANGED <<pointer, registered, seen, registration, disturbances, alone>>

RemoveStore ==
  /\ pc = "removeStore"
  /\ RemoveOwned("store", "objects")
  /\ pc' = "done"
  /\ UNCHANGED <<pointer, registered, seen, registration, disturbances, alone>>

----------------------------------------------------------------------------
(***************************************************************************)
(* What agents, users and git do, before and between the steps.            *)
(***************************************************************************)
Disturb ==
  /\ pc \notin {"new", "done"} /\ disturbances < disturbanceBound
  /\ disturbances' = disturbances + 1
  /\ alone' = (pc = "ready")
  /\ UNCHANGED <<removal, failed, destroyed>>

\* rm -rf, or `git worktree prune'
Vanish(p) ==
  /\ Disturb /\ ~ Vacant(p)
  /\ at' = [at EXCEPT ![p] = "nothing"]
  /\ UNCHANGED <<pointer, registered>>

\* mv, or `git worktree move', which updates the registration
Move ==
  /\ Disturb /\ IsDirectory("path") /\ Vacant("aside")
  /\ at' = [at EXCEPT !["aside"] = at["path"], !["path"] = "nothing"]
  /\ \/ UNCHANGED registered
     \/ \E e \in AdminPlace :
          /\ pointer[at["path"]] = e /\ IsDirectory(e)
          /\ registered' = [registered EXCEPT ![at[e]] = "aside"]
  /\ UNCHANGED pointer

\* A registration is renamed by a repair of the repository.
Rename ==
  /\ Disturb /\ IsDirectory("entry1") /\ Vacant("entry2")
  /\ at' = [at EXCEPT !["entry2"] = at["entry1"], !["entry1"] = "nothing"]
  /\ UNCHANGED <<pointer, registered>>

\* Something else takes the place of what has gone; `git worktree add' takes a free
\* entry for it.
Occupy(p, entry) ==
  /\ Disturb /\ Vacant(p) /\ Vacant(entry)
  /\ \A q \in Place : at[q] \notin {"other", "otherRegistration"}
  /\ \/ at' = [at EXCEPT ![p] = "file"] /\ UNCHANGED <<pointer, registered>>
     \/ /\ at' = [at EXCEPT ![p] = "other"]
        /\ pointer' = [pointer EXCEPT !["other"] = "none"]
        /\ UNCHANGED registered
     \/ /\ p = "path"
        /\ at' = [at EXCEPT ![p] = "other", ![entry] = "otherRegistration"]
        /\ pointer' = [pointer EXCEPT !["other"] = entry]
        /\ registered' = [registered EXCEPT !["otherRegistration"] = "path"]

\* A registration is put back from a copy: the same names, another identity.
PutBack(entry) ==
  /\ Disturb /\ Vacant(entry)
  /\ \A q \in Place : at[q] # "otherRegistration"
  /\ at' = [at EXCEPT ![entry] = "otherRegistration"]
  /\ registered' = [registered EXCEPT !["otherRegistration"] = "path"]
  /\ UNCHANGED pointer

\* The .git of the root is removed, or replaced by a repository of its own.
Cut ==
  /\ Disturb /\ IsDirectory("path")
  /\ \E to \in {"none", "broken"} : pointer' = [pointer EXCEPT ![at["path"]] = to]
  /\ UNCHANGED <<at, registered>>

\* `git worktree repair' connects a registration with the directory at its path,
\* which may be another one than before.
Repair ==
  /\ Disturb /\ IsDirectory("path")
  /\ \E e \in AdminPlace :
       /\ IsDirectory(e) /\ pointer[at["path"]] # e
       /\ pointer' = [pointer EXCEPT ![at["path"]] = e]
       /\ registered' = [registered EXCEPT ![at[e]] = "path"]
  /\ UNCHANGED at

Done == pc = "done" /\ UNCHANGED vars

Next ==
  \/ Create \/ CreateFails
  \/ Inspect \/ Unregister \/ RemoveRoot \/ RemoveStore
  \/ \E p \in Place : Vanish(p)
  \/ \E p \in {"path", "store"}, e \in AdminPlace : Occupy(p, e)
  \/ \E e \in AdminPlace : PutBack(e)
  \/ Move \/ Rename \/ Cut \/ Repair
  \/ Done

Spec == Init /\ [][Next]_vars

----------------------------------------------------------------------------
(***************************************************************************)
(* Properties                                                              *)
(***************************************************************************)
\* Whatever others did to the directories, before the removal or between its
\* steps, no step destroys a directory that this worktree did not make: save one
\* that somebody has made, with git, the worktree of this registration.
OnlyOwnDestroyed ==
  [][LET adopted == {x \in Directory : pointer[x] \in AdminPlace /\ Found(pointer[x])}
     IN  destroyed' \ destroyed \subseteq Own \cup adopted]_vars

\* However the directories were left for it, a removal that nobody disturbs takes
\* the objects and the root of a worktree only when git does not know the worktree
\* any more; and when git fails after it has taken the root, the objects stay.
RegisteredIsComplete ==
  alone /\ (\E e \in AdminPlace : Found(e)) =>
    "objects" \notin destroyed /\ ("root" \in destroyed => failed)

\* When nobody disturbs it and nothing fails, the removal leaves nothing behind.
RemovalComplete ==
  pc = "done" /\ disturbances = 0 /\ ~ failed => \A p \in Place : Vacant(p)

\* A removal is complete, or it stops where what is left can still be found.
RemovalSound == TypeOK /\ RegisteredIsComplete /\ RemovalComplete
=============================================================================
