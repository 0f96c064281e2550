----------------------------- MODULE TimedProofs -----------------------------
(***************************************************************************)
(* Proofs about the two components that go by the age of what they keep:   *)
(* the encrypted workspaces, for any number of them, with and without      *)
(* root, under every combination of the faults of mount and umount, and    *)
(* the heartbeats, for any agents, batches, intervals and thresholds.      *)
(***************************************************************************)
EXTENDS Workspace, Heartbeat, SequenceTheorems, TLAPS

(***************************************************************************)
(* Workspaces.                                                             *)
(***************************************************************************)
State(w, s) == known[w] # None /\ known[w].state = s

\* A tmpfs that is there has been registered as mounted before, unless its
\* mount was given up: wipe knows what it has to overwrite.
MountIsKnown(w) ==
  disk[w].kind = "tmpfs" =>
    State(w, "MOUNTED") \/ State(w, "WIPED") \/ (State(w, "CREATED") /\ "mounted late" \in went[w])

\* From the moment wipe has overwritten a mounted workspace, it holds data of
\* a task only if the overwrite missed some or a task wrote since.
OverwrittenIsClean(w) ==
  active = w /\ step \in {"umount", "remove"} /\ State(w, "MOUNTED")
    /\ disk[w].data = "secret" => went[w] \cap {"not overwritten", "written late"} # {}

\* A mounted workspace is a plain directory only between the umount of its wipe
\* and its removal, and what is in it then was written since the umount.
UnmountedIsEmpty(w) ==
  State(w, "MOUNTED") /\ disk[w].kind # "tmpfs" =>
    /\ active = w /\ step = "remove"
    /\ disk[w].data = "secret" => "written late" \in went[w]

\* A workspace that was registered without a mount and is still a directory
\* never had one.
FallbackIsKnown(w) ==
  State(w, "CREATED") /\ disk[w].kind # "tmpfs" => "not mounted" \in went[w]

\* NoSecretAfterWipe of one workspace.
LeftIsExcused(w) ==
  Wiped(w) /\ disk[w].data = "secret" =>
    \/ "written late" \in went[w]
    \/ /\ disk[w].kind = "tmpfs"
       /\ Faults \cap {"umount fails", "umount hangs", "umount missing"} # {}
       /\ went[w] \cap {"mounted late", "not overwritten"} # {}
    \/ /\ disk[w].kind = "dir"
       /\ "removal fails" \in Faults
       /\ "not mounted" \in went[w]

OneInv(w) ==
  /\ disk[w].kind = "absent" => disk[w].data # "secret"
  /\ MountIsKnown(w) /\ OverwrittenIsClean(w) /\ UnmountedIsEmpty(w)
  /\ FallbackIsKnown(w) /\ LeftIsExcused(w)

\* A workspace is registered once its mount has ended, one way or another, and
\* only a registered one is wiped, only a mounted one unmounted.
MountedIsNew ==
  /\ step = "mount" => known[active] = None
  /\ step = "umount" => State(active, "MOUNTED")
  /\ step = "remove" => known[active] # None

WipeInv ==
  /\ TypeOK
  /\ MountedIsNew
  /\ \A w \in Workspaces : OneInv(w)

\* The places a call leaves behind.
LEMMA Places ==
  /\ Absent \in Place /\ Absent.kind = "absent" /\ Absent.data = "none"
  /\ EmptyDir \in Place /\ EmptyDir.kind = "dir" /\ EmptyDir.data = "none"
  /\ EmptyTmpfs \in Place /\ EmptyTmpfs.kind = "tmpfs" /\ EmptyTmpfs.data = "none"
BY DEF Absent, EmptyDir, EmptyTmpfs, Place

LEMMA WorkspaceInitially == Init => WipeInv
<1> SUFFICES ASSUME Init
             PROVE  WipeInv
  OBVIOUS
<1>1. TypeOK
  BY DEF Init, TypeOK, Absent, Place
<1>2. MountedIsNew
  BY DEF Init, MountedIsNew
<1>3. ASSUME NEW w \in Workspaces PROVE OneInv(w)
  BY Places DEF Init, OneInv, MountIsKnown, OverwrittenIsClean, UnmountedIsEmpty,
     FallbackIsKnown, LeftIsExcused, State, Wiped
<1> QED BY <1>1, <1>2, <1>3 DEF WipeInv

\* A step of the manager, or of a task, is about one workspace.
Untouched(w) ==
  \A v \in Workspaces \ {w} :
    /\ disk'[v] = disk[v] /\ known'[v] = known[v] /\ went'[v] = went[v]
    /\ (active' = v) <=> (active = v)
    /\ active = v => step' = step

LEMMA MoveOne ==
  ASSUME WipeInv, NEW w \in Workspaces, TypeOK', MountedIsNew', OneInv(w)', Untouched(w)
  PROVE  WipeInv'
<1>1. ASSUME NEW v \in Workspaces \ {w} PROVE OneInv(v)'
  <2>1. OneInv(v)
    BY DEF WipeInv
  <2>2. /\ disk'[v] = disk[v] /\ known'[v] = known[v] /\ went'[v] = went[v]
        /\ (active' = v) <=> (active = v)
        /\ active = v => step' = step
    BY DEF Untouched
  <2>3. MountIsKnown(v)' /\ FallbackIsKnown(v)' /\ LeftIsExcused(v)'
    BY <2>1, <2>2 DEF OneInv, MountIsKnown, FallbackIsKnown, LeftIsExcused, State, Wiped
  <2>4. OverwrittenIsClean(v)' /\ UnmountedIsEmpty(v)'
    BY <2>1, <2>2 DEF OneInv, OverwrittenIsClean, UnmountedIsEmpty, State
  <2>5. disk'[v].kind = "absent" => disk'[v].data # "secret"
    BY <2>1, <2>2 DEF OneInv
  <2> QED BY <2>3, <2>4, <2>5 DEF OneInv
<1> QED BY <1>1 DEF WipeInv

\* What a call writes of one workspace is what is there afterwards.
LEMMA OnePlace ==
  ASSUME TypeOK, NEW w \in Workspaces, NEW place \in Place,
         disk' = [disk EXCEPT ![w] = place]
  PROVE  /\ disk' \in [Workspaces -> Place]
         /\ disk'[w] = place
         /\ \A v \in Workspaces : v # w => disk'[v] = disk[v]
BY DEF TypeOK

LEMMA OneRecord ==
  ASSUME TypeOK, NEW w \in Workspaces, NEW entry \in Entry,
         known' = [known EXCEPT ![w] = entry]
  PROVE  /\ known' \in [Workspaces -> Entry \cup {None}]
         /\ known'[w] = entry
         /\ known'[w] # None
         /\ \A v \in Workspaces : v # w => known'[v] = known[v]
BY WorkspaceAssumption DEF TypeOK

LEMMA Registered ==
  ASSUME TypeOK, NEW w \in Workspaces, NEW s \in WorkspaceState, Register(w, s)
  PROVE  /\ known' \in [Workspaces -> Entry \cup {None}]
         /\ known'[w] # None /\ known'[w].state = s
         /\ \A v \in Workspaces : v # w => known'[v] = known[v]
<1> DEFINE entry == [state |-> s, created |-> now]
<1>1. entry \in Entry /\ entry.state = s
  BY DEF Entry, TypeOK
<1>2. known' = [known EXCEPT ![w] = entry]
  BY DEF Register
<1> HIDE DEF entry
<1> QED BY <1>1, <1>2, OneRecord

LEMMA Added ==
  ASSUME TypeOK, NEW w \in Workspaces, NEW mishap \in Mishaps, Adds(w, mishap)
  PROVE  /\ went' \in [Workspaces -> SUBSET Mishaps]
         /\ went'[w] = went[w] \cup {mishap}
         /\ \A v \in Workspaces : v # w => went'[v] = went[v]
<1>1. went[w] \cup {mishap} \in SUBSET Mishaps
  BY DEF TypeOK
<1>2. went' = [went EXCEPT ![w] = went[w] \cup {mishap}]
  BY DEF Adds
<1> QED BY <1>1, <1>2 DEF TypeOK

(***************************************************************************)
(* One lemma for each part of a call of the manager.                       *)
(***************************************************************************)
LEMMA MakeStep ==
  ASSUME WipeInv, NEW w \in Workspaces, MakeDirectory(w)
  PROVE  WipeInv'
<1>1. /\ TypeOK /\ step = "idle" /\ active = None /\ known[w] = None
      /\ disk' = [disk EXCEPT ![w] = EmptyDir]
      /\ stale' = stale /\ raised' = raised /\ now' = now /\ exposed' = exposed
  BY DEF WipeInv, MakeDirectory, Idle, TypeOK
<1>2. /\ disk' \in [Workspaces -> Place] /\ disk'[w].kind = "dir"
      /\ disk'[w].data = "none"
      /\ \A v \in Workspaces : v # w => disk'[v] = disk[v]
  BY <1>1, Places, OnePlace
<1>3. CASE Begin("mount", w) /\ known' = known /\ went' = went
  <2>1. TypeOK'
    BY <1>1, <1>2, <1>3, WorkspaceAssumption DEF TypeOK, Begin
  <2>2. MountedIsNew'
    BY <1>1, <1>3 DEF MountedIsNew, Begin
  <2>3. OneInv(w)'
    BY <1>1, <1>2, <1>3 DEF OneInv, MountIsKnown, OverwrittenIsClean, UnmountedIsEmpty,
       FallbackIsKnown, LeftIsExcused, State, Wiped
  <2>4. Untouched(w)
    BY <1>1, <1>2, <1>3, WorkspaceAssumption DEF Untouched, Begin
  <2> QED BY <2>1, <2>2, <2>3, <2>4, MoveOne
<1>4. CASE /\ Register(w, "CREATED") /\ Adds(w, "not mounted")
           /\ step' = step /\ active' = active
  <2>1. /\ known' \in [Workspaces -> Entry \cup {None}]
        /\ known'[w] # None /\ known'[w].state = "CREATED"
        /\ \A v \in Workspaces : v # w => known'[v] = known[v]
    BY <1>1, <1>4, Registered DEF WorkspaceState
  <2>2. /\ went' \in [Workspaces -> SUBSET Mishaps] /\ "not mounted" \in went'[w]
        /\ \A v \in Workspaces : v # w => went'[v] = went[v]
    BY <1>1, <1>4, Added DEF Mishaps
  <2>3. TypeOK'
    BY <1>1, <1>2, <1>4, <2>1, <2>2 DEF TypeOK
  <2>4. MountedIsNew'
    BY <1>1, <1>4 DEF MountedIsNew
  <2>5. OneInv(w)'
    BY <1>2, <2>1, <2>2 DEF OneInv, MountIsKnown, OverwrittenIsClean, UnmountedIsEmpty,
       FallbackIsKnown, LeftIsExcused, State, Wiped
  <2>6. Untouched(w)
    BY <1>1, <1>2, <1>4, <2>1, <2>2 DEF Untouched
  <2> QED BY <2>3, <2>4, <2>5, <2>6, MoveOne
<1> QED BY <1>3, <1>4 DEF MakeDirectory

LEMMA MountStep ==
  ASSUME WipeInv, Mount \/ MountFails \/ MountHangs
  PROVE  WipeInv'
<1>1. /\ TypeOK /\ step = "mount" /\ active \in Workspaces
      /\ known[active] = None /\ disk[active].kind # "tmpfs"
      /\ step' = "idle" /\ active' = None /\ now' = now /\ stale' = stale
      /\ raised' = raised /\ exposed' = exposed
  BY DEF WipeInv, Mount, MountFails, MountHangs, TypeOK, MountedIsNew, Done, history,
     OneInv, MountIsKnown, State
<1>2. PICK s \in {"CREATED", "MOUNTED"}, place \in {EmptyTmpfs, disk[active]} :
         /\ Register(active, s)
         /\ disk' = [disk EXCEPT ![active] = place]
         /\ \/ s = "MOUNTED" /\ place = EmptyTmpfs /\ went' = went
            \/ s = "CREATED" /\ place = disk[active] /\ Adds(active, "not mounted")
            \/ s = "CREATED" /\ place = EmptyTmpfs /\ Adds(active, "mounted late")
  <2>1. disk = [disk EXCEPT ![active] = disk[active]]
    BY <1>1 DEF TypeOK
  <2>2. CASE Mount
    BY <2>2 DEF Mount, history
  <2>3. CASE MountFails
    BY <2>1, <2>3 DEF MountFails
  <2>4. CASE MountHangs
    BY <2>1, <2>4 DEF MountHangs
  <2> QED BY <2>2, <2>3, <2>4
<1>3. /\ known' \in [Workspaces -> Entry \cup {None}]
      /\ known'[active] # None /\ known'[active].state = s
      /\ \A v \in Workspaces : v # active => known'[v] = known[v]
  BY <1>1, <1>2, Registered DEF WorkspaceState
<1>4. /\ disk' \in [Workspaces -> Place] /\ disk'[active] = place
      /\ \A v \in Workspaces : v # active => disk'[v] = disk[v]
  <2>1. place \in Place
    BY <1>1, Places DEF TypeOK
  <2> QED BY <1>1, <1>2, <2>1, OnePlace
<1>5. /\ went' \in [Workspaces -> SUBSET Mishaps]
      /\ \A v \in Workspaces : v # active => went'[v] = went[v]
      /\ s = "CREATED" /\ place # EmptyTmpfs => "not mounted" \in went'[active]
      /\ s = "CREATED" /\ place = EmptyTmpfs => "mounted late" \in went'[active]
  <2>1. {"not mounted", "mounted late"} \subseteq Mishaps
    BY DEF Mishaps
  <2>2. CASE went' = went
    BY <1>1, <1>2, <2>2, Places DEF TypeOK, Adds
  <2>3. CASE s = "CREATED" /\ place = disk[active] /\ Adds(active, "not mounted")
    BY <1>1, <2>1, <2>3, Places, Added
  <2>4. CASE s = "CREATED" /\ place = EmptyTmpfs /\ Adds(active, "mounted late")
    <3>1. /\ went' \in [Workspaces -> SUBSET Mishaps]
          /\ went'[active] = went[active] \cup {"mounted late"}
          /\ \A v \in Workspaces : v # active => went'[v] = went[v]
      BY <1>1, <2>1, <2>4, Added
    <3> QED BY <2>4, <3>1
  <2> QED BY <1>2, <2>2, <2>3, <2>4
<1>6. TypeOK' /\ MountedIsNew'
  BY <1>1, <1>3, <1>4, <1>5 DEF TypeOK, MountedIsNew
<1> DEFINE w == active
<1>7. Untouched(w)
  BY <1>1, <1>3, <1>4, <1>5, WorkspaceAssumption DEF Untouched
<1>8. /\ place.kind = "tmpfs" \/ place = disk[active]
      /\ s = "MOUNTED" => place.kind = "tmpfs"
      /\ place.kind = "tmpfs" => place = EmptyTmpfs
  BY <1>1, <1>2, Places
<1> HIDE DEF w
<1>9. w = active
  BY DEF w
<1>10. ASSUME NEW u \in Workspaces, u = active PROVE OneInv(u)'
  <2>1. /\ known'[u] # None /\ known'[u].state = s /\ disk'[u] = place
        /\ s = "CREATED" /\ place.kind # "tmpfs" => "not mounted" \in went'[u]
        /\ s = "CREATED" /\ place.kind = "tmpfs" => "mounted late" \in went'[u]
        /\ step' = "idle"
    BY <1>1, <1>3, <1>4, <1>5, <1>8, <1>10, Places
  <2>2. place.kind = "absent" => place.data # "secret"
    BY <1>1, <1>8 DEF WipeInv, OneInv
  <2> QED BY <1>8, <2>1, <2>2 DEF OneInv, MountIsKnown, OverwrittenIsClean, UnmountedIsEmpty,
         FallbackIsKnown, LeftIsExcused, State, Wiped
<1> QED BY <1>1, <1>6, <1>7, <1>9, <1>10, MoveOne

\* create raises, and knows nothing of what it made.
LEMMA MountRaisesStep ==
  ASSUME WipeInv, MountRaises
  PROVE  WipeInv'
<1>1. /\ TypeOK /\ step = "mount" /\ active \in Workspaces /\ known[active] = None
      /\ step' = "idle" /\ active' = None
      /\ UNCHANGED <<known, disk, stale, raised, now, exposed, went>>
  BY DEF WipeInv, MountRaises, TypeOK, MountedIsNew, Done, history
<1>2. TypeOK' /\ MountedIsNew'
  BY <1>1 DEF TypeOK, MountedIsNew
<1>3. ASSUME NEW w \in Workspaces, w = active PROVE OneInv(w)'
  <2>1. OneInv(w)
    BY DEF WipeInv
  <2> QED BY <1>1, <1>3, <2>1 DEF OneInv, MountIsKnown, OverwrittenIsClean,
          UnmountedIsEmpty, FallbackIsKnown, LeftIsExcused, State, Wiped
<1>4. Untouched(active)
  BY <1>1, WorkspaceAssumption DEF Untouched
<1> QED BY <1>1, <1>2, <1>3, <1>4, MoveOne

\* What a task writes once the wipe has begun is known to be late.
LEMMA WriteStep ==
  ASSUME WipeInv, NEW w \in Workspaces, TaskWrites(w)
  PROVE  WipeInv'
<1>1. /\ TypeOK /\ known[w] # None /\ disk[w].kind # "absent"
      /\ known' = known /\ step' = step /\ active' = active /\ stale' = stale
      /\ raised' = raised /\ now' = now /\ exposed' = exposed
  BY DEF WipeInv, TaskWrites
<1>2. PICK place \in Place :
         /\ disk' = [disk EXCEPT ![w] = place]
         /\ place.kind = disk[w].kind
  <2> DEFINE place == [disk[w] EXCEPT !.data = "secret"]
  <2>1. disk' = [disk EXCEPT ![w] = place]
    BY <1>1, Zenon DEF TaskWrites
  <2>2. disk[w] \in Place
    BY <1>1 DEF TypeOK
  <2>3. place \in Place /\ place.kind = disk[w].kind
    BY <2>2 DEF Place
  <2> QED BY <2>1, <2>3
<1>3. /\ disk' \in [Workspaces -> Place] /\ disk'[w].kind = disk[w].kind
      /\ \A v \in Workspaces : v # w => disk'[v] = disk[v]
  BY <1>1, <1>2, OnePlace
<1>4. /\ went' \in [Workspaces -> SUBSET Mishaps]
      /\ went[w] \subseteq went'[w]
      /\ active = w \/ known[w].state = "WIPED" => "written late" \in went'[w]
      /\ \A v \in Workspaces : v # w => went'[v] = went[v]
  <2>1. CASE WipeBegun(w)
    BY <1>1, <2>1, Added DEF TaskWrites, Mishaps
  <2>2. CASE ~WipeBegun(w)
    BY <1>1, <2>2 DEF TaskWrites, WipeBegun, TypeOK
  <2> QED BY <2>1, <2>2
<1>5. TypeOK' /\ MountedIsNew'
  BY <1>1, <1>3, <1>4 DEF TypeOK, WipeInv, MountedIsNew, State
<1>6. OneInv(w)'
  <2>1. OneInv(w)
    BY DEF WipeInv
  <2> QED BY <1>1, <1>3, <1>4, <2>1 DEF OneInv, MountIsKnown, OverwrittenIsClean,
          UnmountedIsEmpty, FallbackIsKnown, LeftIsExcused, State, Wiped
<1>7. Untouched(w)
  BY <1>1, <1>3, <1>4 DEF Untouched
<1> QED BY <1>5, <1>6, <1>7, MoveOne

LEMMA StartWipeStep ==
  ASSUME WipeInv, NEW w \in Workspaces, StartWipe(w),
         stale' \in SUBSET Workspaces, raised' \in BOOLEAN
  PROVE  WipeInv'
<1>1. /\ TypeOK /\ step = "idle" /\ active = None /\ known[w] # None
      /\ known' = known /\ now' = now /\ exposed' = exposed
      /\ active' = w /\ step' \in {"umount", "remove"}
      /\ step' = "umount" => State(w, "MOUNTED")
  BY DEF WipeInv, StartWipe, Begin, State, TypeOK
<1>2. PICK place \in Place, mishaps \in SUBSET Mishaps :
         /\ disk' = [disk EXCEPT ![w] = place]
         /\ went' = [went EXCEPT ![w] = mishaps]
         /\ place.kind = disk[w].kind
         /\ State(w, "MOUNTED") => place.data # "secret" \/ "not overwritten" \in mishaps
         /\ ~State(w, "MOUNTED") => place = disk[w] /\ mishaps = went[w]
  <2>1. /\ disk[w] \in Place /\ disk = [disk EXCEPT ![w] = disk[w]]
        /\ went[w] \in SUBSET Mishaps /\ went = [went EXCEPT ![w] = went[w]]
    BY <1>1 DEF TypeOK
  <2>2. CASE /\ known[w].state = "MOUNTED"
             /\ disk' = [disk EXCEPT ![w].data = IF @ = "none" THEN "none" ELSE "random"]
             /\ went' = [went EXCEPT ![w] = {}]
    <3> DEFINE wiped == IF disk[w].data = "none" THEN "none" ELSE "random"
               place == [disk[w] EXCEPT !.data = wiped]
    <3>1. disk' = [disk EXCEPT ![w] = place]
      BY <2>2, Zenon
    <3>2. wiped \in {"none", "random"}
      OBVIOUS
    <3> HIDE DEF wiped
    <3>3. place \in Place /\ place.kind = disk[w].kind /\ place.data # "secret"
      BY <2>1, <3>2 DEF Place
    <3>4. {} \in SUBSET Mishaps /\ State(w, "MOUNTED")
      BY <1>1, <2>2 DEF State
    <3> HIDE DEF place
    <3> QED BY <2>2, <3>1, <3>3, <3>4
  <2>3. CASE /\ known[w].state = "MOUNTED" /\ disk' = disk
             /\ went' = [went EXCEPT ![w] = {"not overwritten"}]
    <3>1. {"not overwritten"} \in SUBSET Mishaps /\ State(w, "MOUNTED")
      BY <1>1, <2>3 DEF Mishaps, State
    <3> QED BY <2>1, <2>3, <3>1
  <2>4. CASE known[w].state # "MOUNTED" /\ disk' = disk /\ went' = went
    BY <2>1, <2>4 DEF State
  <2> QED BY <2>2, <2>3, <2>4 DEF StartWipe
<1>3. /\ disk' \in [Workspaces -> Place] /\ disk'[w] = place
      /\ went' \in [Workspaces -> SUBSET Mishaps] /\ went'[w] = mishaps
      /\ \A v \in Workspaces : v # w => disk'[v] = disk[v] /\ went'[v] = went[v]
  BY <1>1, <1>2, OnePlace DEF TypeOK
<1>4. TypeOK' /\ MountedIsNew'
  BY <1>1, <1>3, WorkspaceAssumption DEF TypeOK, MountedIsNew, State
<1>5. OneInv(w)'
  <2>1. OneInv(w) /\ active # w
    BY <1>1, WorkspaceAssumption DEF WipeInv
  <2>2. CASE State(w, "MOUNTED")
    BY <1>1, <1>2, <1>3, <2>1, <2>2 DEF OneInv, MountIsKnown, OverwrittenIsClean,
       UnmountedIsEmpty, FallbackIsKnown, LeftIsExcused, State, Wiped
  <2>3. CASE ~State(w, "MOUNTED")
    BY <1>1, <1>2, <1>3, <2>1, <2>3 DEF OneInv, MountIsKnown, OverwrittenIsClean,
       UnmountedIsEmpty, FallbackIsKnown, LeftIsExcused, State, Wiped
  <2> QED BY <2>2, <2>3
<1>6. Untouched(w)
  BY <1>1, <1>3, WorkspaceAssumption DEF Untouched
<1> QED BY <1>4, <1>5, <1>6, MoveOne

LEMMA UnmountStep ==
  ASSUME WipeInv, Unmount
  PROVE  WipeInv'
<1>1. /\ TypeOK /\ active \in Workspaces /\ step = "umount" /\ State(active, "MOUNTED")
      /\ known' = known /\ now' = now /\ exposed' = exposed /\ went' = went
      /\ active' = active /\ step' = "remove" /\ stale' = stale /\ raised' = raised
  BY DEF WipeInv, Unmount, Begin, history, TypeOK, MountedIsNew
<1>2. PICK place \in {EmptyDir, disk[active]} :
         disk' = [disk EXCEPT ![active] = place]
  BY DEF Unmounted, Unmount
<1>3. /\ disk' \in [Workspaces -> Place] /\ disk'[active] = place
      /\ \A v \in Workspaces : v # active => disk'[v] = disk[v]
  <2>1. place \in Place
    BY <1>1, <1>2, Places DEF TypeOK
  <2> QED BY <1>1, <1>2, <2>1, OnePlace
<1>4. TypeOK' /\ MountedIsNew'
  BY <1>1, <1>3, WorkspaceAssumption DEF TypeOK, MountedIsNew, State
<1>5. ASSUME NEW w \in Workspaces, w = active PROVE OneInv(w)'
  <2>1. OneInv(w)
    BY DEF WipeInv
  <2>2. /\ State(w, "MOUNTED") /\ known' = known /\ went' = went /\ active = w /\ active' = w
        /\ step = "umount" /\ step' = "remove" /\ disk'[w] = place
    BY <1>1, <1>3, <1>5
  <2>3. CASE place = EmptyDir
    BY <2>2, <2>3, Places DEF OneInv, MountIsKnown, OverwrittenIsClean, UnmountedIsEmpty,
       FallbackIsKnown, LeftIsExcused, State, Wiped
  <2>4. CASE place = disk[w]
    BY <2>1, <2>2, <2>4 DEF OneInv, MountIsKnown, OverwrittenIsClean, UnmountedIsEmpty,
       FallbackIsKnown, LeftIsExcused, State, Wiped
  <2> QED BY <1>5, <2>3, <2>4
<1>6. Untouched(active)
  BY <1>1, <1>3 DEF Untouched
<1> QED BY <1>1, <1>4, <1>5, <1>6, MoveOne

\* wipe raises, with the workspace still registered as mounted.
LEMMA UnmountRaisesStep ==
  ASSUME WipeInv, UnmountRaises
  PROVE  WipeInv'
<1>1. /\ TypeOK /\ active \in Workspaces /\ step = "umount"
      /\ UNCHANGED <<known, disk, now, exposed, went>>
      /\ step' = "idle" /\ active' = None /\ stale' = {} /\ raised' = TRUE
  BY DEF WipeInv, UnmountRaises, Done, history, TypeOK
<1>2. TypeOK' /\ MountedIsNew'
  BY <1>1 DEF TypeOK, MountedIsNew
<1>3. ASSUME NEW w \in Workspaces, w = active PROVE OneInv(w)'
  <2>1. OneInv(w)
    BY DEF WipeInv
  <2> QED BY <1>1, <1>3, <2>1 DEF OneInv, MountIsKnown, OverwrittenIsClean,
          UnmountedIsEmpty, FallbackIsKnown, LeftIsExcused, State, Wiped
<1>4. Untouched(active)
  BY <1>1, WorkspaceAssumption DEF Untouched
<1> QED BY <1>1, <1>2, <1>3, <1>4, MoveOne

\* What is left at the path of a workspace when wipe returns.
LEMMA RemoveStep ==
  ASSUME WipeInv, Remove
  PROVE  WipeInv'
<1>1. /\ TypeOK /\ active \in Workspaces /\ step = "remove"
      /\ known[active] \in Entry /\ known[active] # None
      /\ step' = "idle" /\ active' = None /\ stale' = stale /\ raised' = raised
      /\ now' = now /\ went' = went /\ exposed' \subseteq Workspaces
  BY DEF WipeInv, TypeOK, MountedIsNew, Remove, Done
<1>2. PICK place \in Removed(disk[active]) :
         disk' = [disk EXCEPT ![active] = place]
  BY DEF Remove
\* Either nothing of what was there, or all of it because something failed.
<1>3. /\ place \in Place
      /\ place.data = "secret" =>
           /\ place = disk[active]
           /\ place.kind = "tmpfs" =>
                Faults \cap {"umount fails", "umount hangs", "umount missing"} # {}
           /\ place.kind # "tmpfs" => "removal fails" \in Faults
  <2>1. disk[active] \in Place
    BY <1>1 DEF TypeOK
  <2>2. ASSUME NEW p \in Place, NEW q \in RmTree(p)
        PROVE  /\ q \in Place
               /\ q.data = "secret" => q = p /\ "removal fails" \in Faults
    <3>1. /\ [p EXCEPT !.data = "none"] \in Place
          /\ [p EXCEPT !.data = "none"].data = "none"
      BY DEF Place
    <3>2. q \in {EmptyTmpfs, Absent} \/ ("removal fails" \in Faults
                                         /\ q \in {p, [p EXCEPT !.data = "none"]})
      BY <2>2 DEF RmTree
    <3> QED BY <3>1, <3>2, Places
  <2>3. CASE disk[active].kind # "tmpfs"
    <3>1. place \in RmTree(disk[active])
      BY <1>2, <2>3 DEF Removed
    <3> QED BY <2>1, <2>2, <2>3, <3>1
  <2>4. CASE disk[active].kind = "tmpfs"
    <3>1. \/ place \in RmTree(EmptyDir)
          \/ "umount fails" \in Faults /\ place \in RmTree(disk[active])
          \/ "umount hangs" \in Faults /\ place \in {disk[active], EmptyDir}
          \/ "umount missing" \in Faults /\ place = disk[active]
      BY <1>2, <2>4 DEF Removed
    <3>2. CASE place \in RmTree(EmptyDir)
      BY <2>2, <3>2, Places
    <3>3. CASE "umount fails" \in Faults /\ place \in RmTree(disk[active])
      BY <2>1, <2>2, <2>4, <3>3
    <3>4. CASE "umount hangs" \in Faults /\ place \in {disk[active], EmptyDir}
      BY <2>1, <2>4, <3>4, Places
    <3>5. CASE "umount missing" \in Faults /\ place = disk[active]
      BY <2>1, <2>4, <3>5
    <3> QED BY <3>1, <3>2, <3>3, <3>4, <3>5
  <2> QED BY <2>3, <2>4
<1>4. /\ disk' \in [Workspaces -> Place]
      /\ disk'[active] = place
      /\ \A v \in Workspaces : v # active => disk'[v] = disk[v]
  BY <1>1, <1>2, <1>3, OnePlace
<1>5. /\ known' \in [Workspaces -> Entry \cup {None}]
      /\ known'[active] # None /\ known'[active].state = "WIPED"
      /\ \A v \in Workspaces : v # active => known'[v] = known[v]
  <2> DEFINE wiped == [known[active] EXCEPT !.state = "WIPED"]
  <2>1. known' = [known EXCEPT ![active] = wiped]
    BY Zenon DEF Remove
  <2>2. wiped \in Entry /\ wiped.state = "WIPED"
    BY <1>1 DEF Entry, WorkspaceState
  <2> HIDE DEF wiped
  <2> QED BY <1>1, <2>1, <2>2, OneRecord
<1>6. TypeOK' /\ MountedIsNew'
  BY <1>1, <1>4, <1>5 DEF TypeOK, MountedIsNew
<1>7. ASSUME NEW w \in Workspaces, w = active PROVE OneInv(w)'
  <2>1. OneInv(w) /\ known[w] # None /\ known[w].state \in WorkspaceState
    BY <1>1, <1>7 DEF WipeInv, Entry
  <2>2. /\ State(w, "WIPED")' /\ went'[w] = went[w] /\ disk'[w] = place
        /\ step' = "idle" /\ step = "remove" /\ active = w
    BY <1>1, <1>4, <1>5, <1>7 DEF State
  <2>3. disk[w] \in Place
    BY <1>1 DEF TypeOK
  <2>4. ASSUME place.data = "secret" PROVE LeftIsExcused(w)'
    <3>1. /\ place = disk[w] /\ disk[w].data = "secret"
          /\ place.kind = "tmpfs" =>
                Faults \cap {"umount fails", "umount hangs", "umount missing"} # {}
          /\ place.kind # "tmpfs" => "removal fails" \in Faults
      BY <1>3, <1>7, <2>4
    <3>2. CASE State(w, "MOUNTED")
      BY <2>1, <2>2, <3>1, <3>2 DEF OneInv, OverwrittenIsClean, UnmountedIsEmpty,
         LeftIsExcused, State
    <3>3. CASE State(w, "CREATED")
      <4>1. CASE disk[w].kind = "tmpfs"
        BY <2>1, <2>2, <3>1, <3>3, <4>1 DEF OneInv, MountIsKnown, LeftIsExcused, State
      <4>2. CASE disk[w].kind = "dir"
        BY <2>1, <2>2, <3>1, <3>3, <4>2 DEF OneInv, FallbackIsKnown, LeftIsExcused, State
      <4>3. CASE disk[w].kind = "absent"
        BY <2>1, <3>1, <4>3 DEF OneInv
      <4> QED BY <2>3, <4>1, <4>2, <4>3 DEF Place
    <3>4. CASE State(w, "WIPED")
      BY <2>1, <2>2, <3>1, <3>4 DEF OneInv, LeftIsExcused, Wiped, State
    <3> QED BY <2>1, <3>2, <3>3, <3>4 DEF State, WorkspaceState
  <2>5. place.data # "secret" => LeftIsExcused(w)'
    BY <2>2 DEF LeftIsExcused
  <2>6. place.kind = "absent" => place.data # "secret"
    BY <1>3, <1>7, <2>1 DEF OneInv
  <2> QED BY <2>2, <2>4, <2>5, <2>6 DEF OneInv, MountIsKnown, OverwrittenIsClean,
          UnmountedIsEmpty, FallbackIsKnown, State
<1>8. Untouched(active)
  BY <1>1, <1>4, <1>5, WorkspaceAssumption DEF Untouched
<1> QED BY <1>1, <1>6, <1>7, <1>8, MoveOne

\* What moves neither the disk nor the records nor the call of the manager.
LEMMA OtherStep ==
  ASSUME WipeInv, CleanupStale \/ Tick \/ UNCHANGED vars
  PROVE  WipeInv'
<1>1. TypeOK /\ UNCHANGED <<known, disk, step, active, exposed, went>>
  BY DEF WipeInv, CleanupStale, Tick, vars, history
<1>2. stale' \subseteq Workspaces /\ raised' \in BOOLEAN /\ now' \in Nat
  <2>1. CASE CleanupStale
    <3>1. Stale \subseteq Workspaces /\ now \in Nat
      BY <1>1 DEF Stale, TypeOK
    <3> QED BY <2>1, <3>1 DEF CleanupStale
  <2>2. CASE Tick
    <3>1. PICK time \in 0..MaxTime : now' = time
      BY <2>2 DEF Tick
    <3>2. stale \subseteq Workspaces /\ raised \in BOOLEAN
      BY <1>1 DEF TypeOK
    <3>3. stale' = stale /\ raised' = raised
      BY <2>2 DEF Tick
    <3>4. now' \in Nat
      <4>1. MaxTime \in Nat
        BY WorkspaceAssumption
      <4>2. time \in Nat
        BY <4>1
      <4> QED BY <3>1, <4>2
    <3>5. stale' \subseteq Workspaces /\ raised' \in BOOLEAN
      BY <3>2, <3>3, Zenon
    <3> QED BY <3>4, <3>5, Zenon
  <2>3. CASE UNCHANGED vars
    BY <1>1, <2>3 DEF TypeOK, vars
  <2> QED BY <2>1, <2>2, <2>3
<1>3. TypeOK' /\ MountedIsNew'
  BY <1>1, <1>2 DEF TypeOK, WipeInv, MountedIsNew, State
<1>4. ASSUME NEW w \in Workspaces PROVE OneInv(w)'
  <2>1. OneInv(w)
    BY DEF WipeInv
  <2> QED BY <1>1, <2>1 DEF OneInv, MountIsKnown, OverwrittenIsClean, UnmountedIsEmpty,
          FallbackIsKnown, LeftIsExcused, State, Wiped
<1> QED BY <1>3, <1>4 DEF WipeInv

LEMMA WorkspaceStep ==
  ASSUME WipeInv, [Next]_vars
  PROVE  WipeInv'
<1>1. ASSUME NEW w \in Workspaces, MakeDirectory(w)
      PROVE  WipeInv'
  BY <1>1, MakeStep
<1>2. ASSUME NEW w \in Workspaces, TaskWrites(w)
      PROVE  WipeInv'
  BY <1>2, WriteStep
<1>3. ASSUME NEW w \in Workspaces, Wipe(w) \/ WipeStale(w)
      PROVE  WipeInv'
  <2>1. StartWipe(w) /\ stale' \in SUBSET Workspaces /\ raised' \in BOOLEAN
    BY <1>3 DEF Wipe, WipeStale, WipeInv, TypeOK
  <2> QED BY <2>1, StartWipeStep
<1>4. CASE Mount \/ MountFails \/ MountHangs
  BY <1>4, MountStep
<1>5. CASE MountRaises
  BY <1>5, MountRaisesStep
<1>6. CASE Unmount
  BY <1>6, UnmountStep
<1>7. CASE UnmountRaises
  BY <1>7, UnmountRaisesStep
<1>8. CASE Remove
  BY <1>8, RemoveStep
<1>9. CASE CleanupStale \/ Tick \/ UNCHANGED vars
  BY <1>9, OtherStep
<1> QED BY <1>1, <1>2, <1>3, <1>4, <1>5, <1>6, <1>7, <1>8, <1>9 DEF Next

\* What a task wrote before the wipe of its workspace is left after it only
\* where two protections failed, under every combination of the faults: in a
\* tmpfs that stays mounted, if the overwrite missed it or the mount came late;
\* in a directory that stays, if it never was a tmpfs.
THEOREM NoSecretEverLeft == Spec => []NoSecretAfterWipe
<1>1. WipeInv => NoSecretAfterWipe
  BY DEF WipeInv, OneInv, LeftIsExcused, NoSecretAfterWipe
<1> QED BY WorkspaceInitially, WorkspaceStep, <1>1, PTL DEF Spec

\* The records of the workspaces and the disk keep their types.
THEOREM WorkspaceTypes == Spec => []TypeOK
<1>1. WipeInv => TypeOK
  BY DEF WipeInv
<1> QED BY WorkspaceInitially, WorkspaceStep, <1>1, PTL DEF Spec
-----------------------------------------------------------------------------
(***************************************************************************)
(* Heartbeats.                                                             *)
(***************************************************************************)
LEMMA HeartbeatInitially == HeartbeatInit => HeartbeatTypeOK
<1> SUFFICES ASSUME HeartbeatInit PROVE HeartbeatTypeOK
  OBVIOUS
<1> QED BY DEF HeartbeatInit, HeartbeatTypeOK

\* The end of a request, with any of the statuses.
LEMMA EndsTypes ==
  ASSUME HeartbeatTypeOK, current # Nobody, NEW status \in HeartbeatStatus, Ends(status)
  PROVE  /\ clock' = clock /\ batch' = batch /\ phase' = phase /\ current' = Nobody
         /\ results' \in Seq(HeartbeatResult) /\ results' # results
         /\ reported' \in [Agents -> HeartbeatStatus \cup {Never}]
         /\ reported'[current] = status
<1>1. /\ current \in Agents /\ results \in Seq(HeartbeatResult)
      /\ reported \in [Agents -> HeartbeatStatus \cup {Never}]
  BY DEF HeartbeatTypeOK
<1> DEFINE e == [agent |-> current, status |-> status]
<1>2. e \in HeartbeatResult
  BY <1>1 DEF HeartbeatResult
<1>3. results' = Append(results, e)
  BY DEF Ends
<1> HIDE DEF e
<1>4. results' \in Seq(HeartbeatResult) /\ Len(results') = Len(results) + 1
  BY <1>1, <1>2, <1>3, AppendProperties
<1>5. results' # results
  <2>1. Len(results) \in Nat
    BY <1>1
  <2> QED BY <1>4, <2>1
<1>6. reported' = [reported EXCEPT ![current] = status]
  BY DEF Ends
<1> QED BY <1>1, <1>4, <1>5, <1>6 DEF Ends

LEMMA StatusTypes ==
  ASSUME NEW answer
  PROVE  /\ StatusOf(answer) \in HeartbeatStatus
         /\ answer \in Acknowledged => StatusOf(answer) \in {"LIVE", "STALE"}
BY DEF StatusOf, HeartbeatStatus, Acknowledged

LEMMA HeartbeatStep == HeartbeatTypeOK /\ [HeartbeatNext]_heartbeat => HeartbeatTypeOK'
<1> SUFFICES ASSUME HeartbeatTypeOK, [HeartbeatNext]_heartbeat PROVE HeartbeatTypeOK'
  OBVIOUS
<1>1. ASSUME NEW n \in 0..MaxBatch, NEW agents \in [1..n -> Agents],
             BatchHeartbeat(agents)
      PROVE  HeartbeatTypeOK'
  <2>1. n \in Nat
    BY HeartbeatAssumption
  <2>2. agents \in Seq(Agents) /\ <<>> \in Seq(HeartbeatResult)
    BY <2>1
  <2> QED BY <1>1, <2>2 DEF BatchHeartbeat, HeartbeatTypeOK
<1>2. CASE SendHeartbeat
  <2>1. Len(results) \in Nat /\ Len(results) + 1 \in 1..Len(batch) /\ batch \in Seq(Agents)
    BY <1>2 DEF SendHeartbeat, HeartbeatTypeOK
  <2>2. batch[Len(results) + 1] \in Agents
    BY <2>1
  <2> QED BY <1>2, <2>2 DEF SendHeartbeat, HeartbeatTypeOK
<1>3. ASSUME NEW answer \in Acknowledged \cup Errors, Answered(answer)
      PROVE  HeartbeatTypeOK'
  <2>1. /\ clock' = clock /\ batch' = batch /\ phase' = phase /\ current' = Nobody
        /\ results' \in Seq(HeartbeatResult)
        /\ reported' \in [Agents -> HeartbeatStatus \cup {Never}]
    BY <1>3, EndsTypes, StatusTypes DEF Answered
  <2>2. last' \in [Agents -> Nat \cup {Never}]
    BY <1>3 DEF Answered, HeartbeatTypeOK
  <2> QED BY <2>1, <2>2 DEF HeartbeatTypeOK
<1>4. CASE Unanswered
  <2>1. "ERROR" \in HeartbeatStatus
    BY DEF HeartbeatStatus
  <2>2. /\ clock' = clock /\ batch' = batch /\ phase' = phase /\ current' = Nobody
        /\ results' \in Seq(HeartbeatResult)
        /\ reported' \in [Agents -> HeartbeatStatus \cup {Never}]
    BY <1>4, <2>1, EndsTypes DEF Unanswered
  <2> QED BY <1>4, <2>2 DEF Unanswered, HeartbeatTypeOK
<1>5. CASE Raised
  BY <1>5 DEF Raised, HeartbeatTypeOK
<1>6. CASE BatchReturns
  BY <1>6 DEF BatchReturns, HeartbeatTypeOK
<1>7. CASE HeartbeatTick
  BY <1>7, HeartbeatAssumption DEF HeartbeatTick, HeartbeatTypeOK
<1>8. CASE UNCHANGED heartbeat
  BY <1>8 DEF heartbeat, HeartbeatTypeOK
<1> QED BY <1>1, <1>2, <1>3, <1>4, <1>5, <1>6, <1>7, <1>8 DEF HeartbeatNext

\* Every variable of the heartbeats has its type, however the clock is set.
THEOREM HeartbeatTypes == HeartbeatSpec => []HeartbeatTypeOK
BY HeartbeatInitially, HeartbeatStep, PTL DEF HeartbeatSpec

LEMMA Ranks == Rank("OFFLINE") = 1 /\ Rank("STALE") = 2 /\ Rank("LIVE") = 3
<1>1. Health[1] = "OFFLINE" /\ Health[2] = "STALE" /\ Health[3] = "LIVE"
  BY DEF Health
<1>2. ASSUME NEW i \in 1..3, NEW status, Health[i] = status,
             \A j \in 1..3 : Health[j] = status => j = i
      PROVE  Rank(status) = i
  BY <1>2 DEF Rank
<1>3. \A i, j \in 1..3 : Health[i] = Health[j] => i = j
  BY <1>1
<1>4. \A i \in 1..3 : Rank(Health[i]) = i
  BY <1>2, <1>3
<1> QED BY <1>1, <1>4

\* Time alone never makes an agent look better, also one whose heartbeat is of
\* the future, because the clock was set back after it.
LEMMA TimeFades ==
  ASSUME HeartbeatTypeOK, HeartbeatTick, clock' >= clock, NEW a \in Agents
  PROVE  Rank(CheckAgentHealth(a)') <= Rank(CheckAgentHealth(a))
<1>1. clock' \in Nat /\ last' = last /\ clock \in Nat
      /\ Interval \in Nat /\ Threshold \in Nat
  BY HeartbeatAssumption DEF HeartbeatTick, HeartbeatTypeOK
<1>2. CASE last[a] = Never
  BY <1>1, <1>2, Ranks DEF CheckAgentHealth
<1>3. CASE last[a] # Never
  <2>1. last[a] \in Nat
    BY <1>3 DEF HeartbeatTypeOK
  <2> DEFINE age == clock - last[a]
             later == clock' - last[a]
             level(t) == IF t < 2 * Interval THEN 3 ELSE IF t < Threshold THEN 2 ELSE 1
  <2>2. age \in Int /\ later \in Int /\ age <= later
    BY <1>1, <2>1
  <2>3. Rank(CheckAgentHealth(a)) = level(age)
    BY <1>3, Ranks DEF CheckAgentHealth
  <2>4. Rank(CheckAgentHealth(a)') = level(later)
    <3>1. last'[a] # Never /\ clock' - last'[a] = later
      BY <1>1, <1>3, <2>1
    <3> HIDE DEF later
    <3> QED BY <3>1, Ranks DEF CheckAgentHealth
  <2> HIDE DEF age, later
  <2>5. level(later) <= level(age)
    BY <1>1, <2>2
  <2> QED BY <2>3, <2>4, <2>5
<1> QED BY <1>2, <1>3

\* While nothing is acknowledged and the clock is not set back, the health of an
\* agent only gets worse, for any interval and any threshold, also one below two
\* intervals, and wherever the clock was set to before.
THEOREM HealthAlwaysFades == HeartbeatSpec => HealthOnlyFades
<1> DEFINE Fades(a) ==
      clock' >= clock /\ ~Acknowledges(a)
        => Rank(CheckAgentHealth(a)') <= Rank(CheckAgentHealth(a))
<1>1. ASSUME HeartbeatTypeOK, [HeartbeatNext]_heartbeat, NEW a \in Agents
      PROVE  Fades(a)
  <2>1. Rank(CheckAgentHealth(a)) \in Int
    BY Ranks DEF CheckAgentHealth
  <2>2. ASSUME last'[a] = last[a], clock' = clock PROVE Fades(a)
    <3>1. CheckAgentHealth(a)' = CheckAgentHealth(a)
      BY <2>2 DEF CheckAgentHealth
    <3> QED BY <2>1, <3>1
  <2>3. ASSUME NEW answer, Answered(answer) PROVE Fades(a)
    <3>1. /\ clock' = clock /\ results' # results
          /\ reported'[current] = StatusOf(answer)
      BY <1>1, <2>3, EndsTypes, StatusTypes DEF Answered
    <3>2. CASE answer \in Acknowledged /\ current = a
      <4>1. reported'[a] \in {"LIVE", "STALE"}
        BY <3>1, <3>2, StatusTypes
      <4> QED BY <3>1, <3>2, <4>1 DEF Acknowledges
    <3>3. CASE ~(answer \in Acknowledged /\ current = a)
      <4>1. last'[a] = last[a]
        BY <1>1, <2>3, <3>3 DEF Answered, HeartbeatTypeOK
      <4> QED BY <2>2, <3>1, <4>1
    <3> QED BY <3>2, <3>3
  <2>4. CASE Unanswered
    BY <2>2, <2>4 DEF Unanswered, Ends
  <2>5. CASE \E n \in 0..MaxBatch : \E agents \in [1..n -> Agents] :
               BatchHeartbeat(agents)
    BY <2>2, <2>5 DEF BatchHeartbeat
  <2>6. CASE SendHeartbeat \/ Raised \/ BatchReturns \/ UNCHANGED heartbeat
    BY <2>2, <2>6 DEF SendHeartbeat, Raised, BatchReturns, heartbeat
  <2>7. CASE HeartbeatTick
    BY <1>1, <2>7, TimeFades
  <2> HIDE DEF Fades
  <2> QED BY <1>1, <2>3, <2>4, <2>5, <2>6, <2>7 DEF HeartbeatNext
<1>2. HeartbeatTypeOK /\ [HeartbeatNext]_heartbeat => [\A a \in Agents : Fades(a)]_heartbeat
  <2> HIDE DEF Fades
  <2> QED BY <1>1
<1> QED BY <1>2, HeartbeatInitially, HeartbeatStep, PTL DEF HeartbeatSpec, HealthOnlyFades
=============================================================================
