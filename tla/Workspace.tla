----------------------------- MODULE Workspace -----------------------------
(***************************************************************************)
(* The encrypted workspaces of core/security/workspace.py: one             *)
(* WorkspaceManager, the directories and tmpfs mounts behind its           *)
(* workspaces, and the tasks that write to them.  mount and umount are     *)
(* subprocesses that may fail, outlast their timeout or not be there; what *)
(* overwrites and removes files passes over errors.  The manager works     *)
(* through one call at a time; a task writes at any time, also while its   *)
(* workspace is wiped and after that, if there still is one.               *)
(***************************************************************************)
EXTENDS Integers, FiniteSets

CONSTANTS Workspaces,   \* workspace ids create may draw
          None,
          Root,         \* is the process root
          Faults,       \* what may go wrong
          MaxAge,       \* max_age_seconds of cleanup_stale
          MaxTime       \* bound: the clock

WorkspaceState == {"CREATED", "MOUNTED", "WIPED"}

Entry == [state: WorkspaceState, created: Nat]

ASSUME WorkspaceAssumption ==
  /\ None \notin Workspaces /\ None \notin Entry
  /\ Root \in BOOLEAN
  /\ Faults \subseteq {"mount fails", "mount hangs", "mount missing",
                       "overwrite fails", "umount fails", "umount hangs",
                       "umount missing", "removal fails"}
  /\ MaxAge \in Nat /\ MaxTime \in Nat

VARIABLES known,     \* _workspaces: state and created_at, or None
          disk,      \* what is at each mount_path, and the data in it
          step,      \* what the manager is doing
          active,    \* the workspace it is doing it to, or None
          stale,     \* workspaces cleanup_stale has still to wipe
          raised,    \* did the last wipe or cleanup_stale raise
          now,       \* time.time()
          exposed,   \* history: workspaces whose data was deleted from a
                     \* plain directory without being overwritten
          went       \* history: what went wrong with each workspace

history == <<exposed, went>>
vars == <<known, disk, step, active, stale, raised, now, exposed, went>>

\* It got no tmpfs; it got one after the mount had timed out; the last
\* overwrite did not get all; a task wrote to it since its wipe began.
Mishaps == {"not mounted", "mounted late", "not overwritten", "written late"}

Place == [kind: {"absent", "dir", "tmpfs"}, data: {"none", "secret", "random"}]

Absent == [kind |-> "absent", data |-> "none"]
EmptyDir == [kind |-> "dir", data |-> "none"]
EmptyTmpfs == [kind |-> "tmpfs", data |-> "none"]

Init ==
  /\ known = [w \in Workspaces |-> None]
  /\ disk = [w \in Workspaces |-> Absent]
  /\ step = "idle"
  /\ active = None
  /\ stale = {}
  /\ raised = FALSE
  /\ now = 0
  /\ exposed = {}
  /\ went = [w \in Workspaces |-> {}]

Idle == step = "idle" /\ stale = {}

Begin(name, w) == step' = name /\ active' = w

Done == step' = "idle" /\ active' = None

Register(w, state) ==
  known' = [known EXCEPT ![w] = [state |-> state, created |-> now]]

-----------------------------------------------------------------------------
(***************************************************************************)
(* create                                                                  *)
(***************************************************************************)
Adds(w, mishap) == went' = [went EXCEPT ![w] = @ \cup {mishap}]

MakeDirectory(w) ==
  /\ Idle
  /\ known[w] = None /\ disk[w] = Absent
  /\ disk' = [disk EXCEPT ![w] = EmptyDir]
  /\ IF Root THEN Begin("mount", w) /\ UNCHANGED <<known, went>>
     ELSE /\ Register(w, "CREATED") /\ Adds(w, "not mounted")
          /\ UNCHANGED <<step, active>>
  /\ UNCHANGED <<stale, raised, now, exposed>>

Mount ==
  /\ step = "mount"
  /\ disk' = [disk EXCEPT ![active] = EmptyTmpfs]
  /\ Register(active, "MOUNTED")
  /\ Done
  /\ UNCHANGED <<stale, raised, now, history>>

MountFails ==
  /\ step = "mount"
  /\ "mount fails" \in Faults
  /\ Register(active, "CREATED")
  /\ Adds(active, "not mounted")
  /\ Done
  /\ UNCHANGED <<disk, stale, raised, now, exposed>>

\* The timeout passes; the file system may be mounted all the same.
MountHangs ==
  /\ step = "mount"
  /\ "mount hangs" \in Faults
  /\ \/ UNCHANGED disk /\ Adds(active, "not mounted")
     \/ /\ disk' = [disk EXCEPT ![active] = EmptyTmpfs]
        /\ Adds(active, "mounted late")
  /\ Register(active, "CREATED")
  /\ Done
  /\ UNCHANGED <<stale, raised, now, exposed>>

\* mount cannot be started: create raises, and the directory stays, unknown.
MountRaises ==
  /\ step = "mount"
  /\ "mount missing" \in Faults
  /\ Done
  /\ UNCHANGED <<known, disk, stale, raised, now, history>>

WipeBegun(w) == active = w \/ known[w].state = "WIPED"

\* A task writes to its workspace, or to what a wipe has left of it.
TaskWrites(w) ==
  /\ known[w] # None /\ disk[w].kind # "absent"
  /\ disk' = [disk EXCEPT ![w].data = "secret"]
  /\ IF WipeBegun(w) THEN Adds(w, "written late") ELSE UNCHANGED went
  /\ UNCHANGED <<known, step, active, stale, raised, now, exposed>>

-----------------------------------------------------------------------------
(***************************************************************************)
(* wipe, called for a workspace or by cleanup_stale.                       *)
(***************************************************************************)
\* Mutant: the overwrite is left to the unmount.
StartWipeNoOverwrite(w) ==
  /\ step = "idle"
  /\ known[w] # None
  /\ Begin(IF known[w].state = "MOUNTED" /\ Root THEN "umount" ELSE "remove", w)
  /\ UNCHANGED <<disk, known, now, history>>

\* Only a mounted workspace is overwritten and unmounted.  A file that cannot
\* be overwritten is passed over.
StartWipe(w) ==
  /\ step = "idle"
  /\ known[w] # None
  /\ IF known[w].state = "MOUNTED"
     THEN /\ \/ /\ disk' = [disk EXCEPT ![w].data = IF @ = "none" THEN "none" ELSE "random"]
                /\ went' = [went EXCEPT ![w] = {}]
             \/ /\ "overwrite fails" \in Faults
                /\ went' = [went EXCEPT ![w] = {"not overwritten"}]
                /\ UNCHANGED disk
          /\ Begin(IF Root THEN "umount" ELSE "remove", w)
     ELSE /\ Begin("remove", w)
          /\ UNCHANGED <<disk, went>>
  /\ UNCHANGED <<known, now, exposed>>

Wipe(w) == Idle /\ StartWipe(w) /\ raised' = FALSE /\ UNCHANGED stale

\* What umount -l may leave of a place.
Unmounted(place) ==
  {EmptyDir} \cup
    (IF Faults \cap {"umount fails", "umount hangs"} # {} THEN {place} ELSE {})

Unmount ==
  /\ step = "umount"
  /\ \E place \in Unmounted(disk[active]) : disk' = [disk EXCEPT ![active] = place]
  /\ Begin("remove", active)
  /\ UNCHANGED <<known, stale, raised, now, history>>

\* umount cannot be started: wipe raises, and with it the loop of
\* cleanup_stale.
UnmountRaises ==
  /\ step = "umount"
  /\ "umount missing" \in Faults
  /\ Done
  /\ stale' = {} /\ raised' = TRUE
  /\ UNCHANGED <<known, disk, now, history>>

\* What rmtree, which ignores errors, may leave: a mount itself stays, and of
\* a directory or of what is in a mount whatever could not be removed.
RmTree(place) ==
  (IF place.kind = "tmpfs" THEN {EmptyTmpfs} ELSE {Absent}) \cup
    (IF "removal fails" \in Faults THEN {place, [place EXCEPT !.data = "none"]} ELSE {})

\* What the last part of wipe may leave.  A mount, which only root can have
\* made, is unmounted once more; if that raises, rmtree is skipped.
Removed(place) ==
  IF place.kind # "tmpfs" THEN RmTree(place)
  ELSE RmTree(EmptyDir)
       \cup (IF "umount fails" \in Faults THEN RmTree(place) ELSE {})
       \cup (IF "umount hangs" \in Faults THEN {place, EmptyDir} ELSE {})
       \cup (IF "umount missing" \in Faults THEN {place} ELSE {})

\* Mutant: a wiped workspace keeps its state.
RemoveKeepsState ==
  /\ step = "remove"
  /\ \E place \in Removed(disk[active]) : disk' = [disk EXCEPT ![active] = place]
  /\ Done
  /\ UNCHANGED <<known, stale, raised, now, history>>

\* The end of wipe.  Whatever happened, the workspace is WIPED.
Remove ==
  /\ step = "remove"
  /\ \E place \in Removed(disk[active]) :
       /\ disk' = [disk EXCEPT ![active] = place]
       /\ exposed' = IF /\ disk[active].kind = "dir" /\ disk[active].data = "secret"
                        /\ place # disk[active]
                     THEN exposed \cup {active} ELSE exposed
  /\ known' = [known EXCEPT ![active].state = "WIPED"]
  /\ Done
  /\ UNCHANGED <<stale, raised, now, went>>

\* The workspaces cleanup_stale picks.
Stale ==
  {w \in Workspaces : /\ known[w] # None /\ known[w].state # "WIPED"
                      /\ now - known[w].created > MaxAge}

CleanupStale ==
  /\ Idle
  /\ stale' = Stale
  /\ raised' = FALSE
  /\ UNCHANGED <<known, disk, step, active, now, history>>

\* The next round of the loop of cleanup_stale.
WipeStale(w) ==
  /\ w \in stale
  /\ StartWipe(w)
  /\ stale' = stale \ {w}
  /\ UNCHANGED raised

\* The wall clock shows another time: time passes, or the clock is set.
Tick ==
  /\ \E time \in 0..MaxTime : time # now /\ now' = time
  /\ UNCHANGED <<known, disk, step, active, stale, raised, history>>

Next ==
  \/ \E w \in Workspaces :
       MakeDirectory(w) \/ TaskWrites(w) \/ Wipe(w) \/ WipeStale(w)
  \/ Mount \/ MountFails \/ MountHangs \/ MountRaises
  \/ Unmount \/ UnmountRaises \/ Remove
  \/ CleanupStale
  \/ Tick

\* A call of the manager that has begun is carried through.
Fairness ==
  /\ WF_vars(Mount) /\ WF_vars(Unmount) /\ WF_vars(Remove)
  /\ \A w \in Workspaces : WF_vars(WipeStale(w))

Spec == Init /\ [][Next]_vars /\ Fairness
-----------------------------------------------------------------------------
(***************************************************************************)
(* Properties.                                                             *)
(***************************************************************************)

\* Every variable has its type.
TypeOK ==
  /\ known \in [Workspaces -> Entry \cup {None}]
  /\ disk \in [Workspaces -> Place]
  /\ step \in {"idle", "mount", "umount", "remove"}
  /\ active \in Workspaces \cup {None}
  /\ (active = None) <=> (step = "idle")
  /\ stale \subseteq Workspaces
  /\ raised \in BOOLEAN
  /\ now \in Nat
  /\ exposed \subseteq Workspaces
  /\ went \in [Workspaces -> SUBSET Mishaps]

Wiped(w) == known[w] # None /\ known[w].state = "WIPED"

\* What a task wrote before the wipe of its workspace began is left at the
\* mount path of a wiped one only where two protections failed: in a tmpfs
\* that could not be unmounted, if the overwrite had missed it or the tmpfs
\* came too late to be overwritten; in a directory that could not be removed,
\* if there never was a tmpfs.  Each protection makes up for the other.  (What
\* a task writes during or after the wipe is not protected by anything.)
NoSecretAfterWipe ==
  \A w \in Workspaces :
    Wiped(w) /\ disk[w].data = "secret" =>
      \/ "written late" \in went[w]
      \/ /\ disk[w].kind = "tmpfs"
         /\ Faults \cap {"umount fails", "umount hangs", "umount missing"} # {}
         /\ went[w] \cap {"mounted late", "not overwritten"} # {}
      \/ /\ disk[w].kind = "dir"
         /\ "removal fails" \in Faults
         /\ "not mounted" \in went[w]

\* A workspace that cleanup_stale has picked is wiped by it, unless it ends
\* with an exception before.
StaleIsWiped ==
  \A w \in Workspaces : w \in stale ~> Wiped(w) \/ raised

\* "Wipe workspaces older than max_age_seconds": all that were picked.
EveryStaleIsWiped ==
  \A w \in Workspaces : w \in stale ~> Wiped(w)

\* "the directory is removed with shutil.rmtree": when wipe has returned,
\* there is nothing at the mount path.
WipedMeansGone == \A w \in Workspaces : Wiped(w) => disk[w] = Absent

\* "Falls back to regular directory with secure wipe when unprivileged":
\* what is deleted from a plain directory was overwritten before.
FallbackIsOverwritten == exposed = {}

\* "overwrites the data with random bytes before unmounting": no data of a
\* task is left at the mount path of a wiped workspace, whatever failed.
WipeSurvivesFaults == \A w \in Workspaces : Wiped(w) => disk[w].data # "secret"
=============================================================================
