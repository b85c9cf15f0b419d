------------------------ MODULE ContainerLifecycleProofs ------------------------
(***************************************************************************)
(* Proofs about ContainerLifecycle, for every set of workspaces,           *)
(* containers, directories and calls, and any number of faults.            *)
(***************************************************************************)
EXTENDS ContainerLifecycle, TLAPS

-------------------------------------------------------------------------------
(* Types.                                                                  *)

LEMMA RecordIsDraft == Record \subseteq Draft
  BY DEF Record, Draft

LEMMA IdleTyped == Idle \in Process /\ ShapedCall(Idle)
  BY DEF Idle, NothingSeen, Process, PC, ShapedCall

\* Call r moves to p; every other call stays where it is.
LEMMA OneCallTyped ==
    ASSUME TypeInv, NEW r \in Request, NEW p \in Process, ShapedCall(p),
           req' = [req EXCEPT ![r] = p]
    PROVE  req' \in [Request -> Process] /\ \A q \in Request : ShapedCall(req'[q])
  BY DEF TypeInv, TypeOK

LEMMA EndedTyped ==
    ASSUME NEW p \in Process, NEW outcome \in {"ok", "error"}
    PROVE  Ended(p, outcome) \in Process /\ ShapedCall(Ended(p, outcome))
<1>1. /\ "done" \in PC
      /\ p.op \in AllOps \cup {"none"}
      /\ p.c \in Container \cup {None}
      /\ p.refused \in BOOLEAN
      /\ p.had \in BOOLEAN
      /\ p.unrestored \in BOOLEAN
      /\ outcome \in {"none", "ok", "error"}
  BY DEF Process, PC
<1>2. Ended(p, outcome) \in Process
  <2> DEFINE done == "done"
             op == p.op
             c == p.c
             refused == p.refused
             had == p.had
             unrestored == p.unrestored
  <2>1. Ended(p, outcome) = [Idle EXCEPT !.pc = done, !.op = op, !.c = c, !.refused = refused,
                                         !.had = had, !.unrestored = unrestored,
                                         !.outcome = outcome]
    BY DEF Ended
  <2>2. /\ done \in PC /\ op \in AllOps \cup {"none"} /\ c \in Container \cup {None}
        /\ refused \in BOOLEAN /\ had \in BOOLEAN /\ unrestored \in BOOLEAN
    BY <1>1
  <2> HIDE DEF done, op, c, refused, had, unrestored
  <2>3. Idle \in Process
    BY IdleTyped
  <2>4. [Idle EXCEPT !.pc = done, !.op = op, !.c = c, !.refused = refused,
                     !.had = had, !.unrestored = unrestored, !.outcome = outcome] \in Process
    BY <2>2, <2>3, ZenonT(90) DEF Process
  <2> QED BY <2>1, <2>4
<1>3. Ended(p, outcome).pc = "done"
  BY DEF Ended, Idle
<1> QED BY <1>2, <1>3 DEF ShapedCall

LEMMA ReceivedUpdate ==
    ASSUME NEW p \in Process, NEW pc \in PC, NEW op \in AllOps \cup {"none"},
           NEW c \in Container \cup {None}, NEW draft \in Draft \cup {None},
           NEW snap \in Record \cup {None}, NEW seen \in [Container -> Record \cup {None}]
    PROVE  [p EXCEPT !.pc = pc, !.op = op, !.c = c, !.draft = draft, !.snap = snap,
                     !.seen = seen] \in Process
  BY DEF Process

LEMMA SiblingsTyped ==
    ASSUME TypeInv, NEW c
    PROVE  Siblings(c) \in [Container -> Record \cup {None}]
  BY DEF Siblings, TypeInv, TypeOK

\* A call that has been received holds what its first pc asks for.
LEMMA ReceivedTyped ==
    ASSUME TypeInv, NEW pc \in PC, NEW op \in AllOps, NEW c \in Container,
           NEW draft \in Draft \cup {None}, NEW snap \in Record \cup {None},
           pc = "lockMounts" => draft \in Draft,
           pc = "upsert" => draft \in Record,
           pc \in {"lockContainer", "lockMounts", "removePodman", "workspacePod", "upsert"}
    PROVE  /\ Received(op, c, pc, draft, snap) \in Process
           /\ ShapedCall(Received(op, c, pc, draft, snap))
<1>1. Received(op, c, pc, draft, snap) \in Process
  BY IdleTyped, SiblingsTyped, ReceivedUpdate, ZenonT(40) DEF Received
<1>2. /\ Received(op, c, pc, draft, snap).pc = pc
      /\ Received(op, c, pc, draft, snap).c = c
      /\ Received(op, c, pc, draft, snap).draft = draft
  BY DEF Received, Idle
<1> QED BY <1>1, <1>2 DEF ShapedCall

LEMMA ReleaseTyped ==
    ASSUME NEW lock \in Request \cup {None}, NEW r \in Request
    PROVE  Release(lock, r) \in Request \cup {None}
  BY DEF Release

CallsTyped ==
    /\ req' \in [Request -> Process]
    /\ \A q \in Request : ShapedCall(req'[q])
    /\ mountsLock' \in Request \cup {None}
    /\ containerLock' \in [Container -> Request \cup {None}]

LEMMA ReturnTyped ==
    ASSUME TypeInv, NEW r \in Request, NEW outcome \in {"ok", "error"}, Return(r, outcome)
    PROVE  CallsTyped
<1>1. req[r] \in Process
  BY DEF TypeInv, TypeOK
<1>2. req' \in [Request -> Process] /\ \A q \in Request : ShapedCall(req'[q])
  BY <1>1, EndedTyped, OneCallTyped DEF Return
<1> QED BY <1>2, ReleaseTyped DEF Return, CallsTyped, TypeInv, TypeOK

LEMMA GotoTyped ==
    ASSUME TypeInv, NEW r \in Request, NEW pc \in PC, Goto(r, pc),
           ShapedCall([req[r] EXCEPT !.pc = pc]),
           UNCHANGED <<mountsLock, containerLock>>
    PROVE  CallsTyped
<1>1. [req[r] EXCEPT !.pc = pc] \in Process
  BY ZenonT(40) DEF TypeInv, TypeOK, Process
<1>2. req' = [req EXCEPT ![r] = [req[r] EXCEPT !.pc = pc]]
  BY DEF Goto
<1> QED BY <1>1, <1>2, OneCallTyped DEF CallsTyped, TypeInv, TypeOK

LEMMA AbortTyped ==
    ASSUME TypeInv, NEW r \in Request, NEW refused \in BOOLEAN, Abort(r, refused),
           req[r].c \in Container
    PROVE  CallsTyped
<1> DEFINE failed == [req[r] EXCEPT !.refused = @ \/ refused, !.unrestored = req[r].restoring]
<1>1. failed \in Process /\ failed.c = req[r].c /\ failed.snap = req[r].snap
  BY ZenonT(40) DEF TypeInv, TypeOK, Process
<1>2. Restores(req[r]) => req[r].snap \in Record
  BY DEF Restores, TypeInv, TypeOK, Process
<1>3. ASSUME Restores(req[r])
      PROVE  FromSnapshot(failed) \in Process /\ ShapedCall(FromSnapshot(failed))
  <2> HIDE DEF failed
  <2>1. failed.snap \in Draft
    BY <1>1, <1>2, <1>3, RecordIsDraft
  <2>2. FromSnapshot(failed) \in Process
    BY <1>1, <2>1 DEF FromSnapshot, Process, PC
  <2>3. /\ FromSnapshot(failed).pc = "lockMounts"
        /\ FromSnapshot(failed).c = req[r].c
        /\ FromSnapshot(failed).draft = failed.snap
    BY <1>1 DEF FromSnapshot, Process
  <2> QED BY <2>1, <2>2, <2>3 DEF ShapedCall
<1>4. Ended(failed, "error") \in Process /\ ShapedCall(Ended(failed, "error"))
  BY <1>1, EndedTyped
<1>5. req' \in [Request -> Process] /\ \A q \in Request : ShapedCall(req'[q])
  BY <1>3, <1>4, OneCallTyped DEF Abort
<1> QED BY <1>5, ReleaseTyped DEF Abort, CallsTyped, TypeInv, TypeOK

LEMMA FaultTyped ==
    ASSUME TypeInv, UNCHANGED faults \/ \E kind \in AllFaults : Fault(kind)
    PROVE  faults' \in 0..MaxFaults
  BY InputAssumption DEF TypeInv, TypeOK, Fault

LEMMA SameTyped ==
    ASSUME TypeInv
    PROVE  /\ UNCHANGED stored => stored' \subseteq Workspace
           /\ UNCHANGED rec => rec' \in [Container -> Record \cup {None}]
           /\ UNCHANGED podman => podman' \in [Container -> PodmanContainer \cup {None}]
  BY DEF TypeInv, TypeOK

\* What a step must show for the type invariant.
LEMMA TypeInvNext ==
    ASSUME stored' \subseteq Workspace,
           rec' \in [Container -> Record \cup {None}],
           podman' \in [Container -> PodmanContainer \cup {None}],
           CallsTyped,
           faults' \in 0..MaxFaults
    PROVE  TypeInv'
  BY DEF TypeInv, TypeOK, CallsTyped

LEMMA EffectiveTyped ==
    ASSUME NEW m \in Mounts, NEW c \in Container
    PROVE  Effective(m, c) \in Mounts /\ WithProject(m, WorkspaceOf[c]) \in Mounts
<1>1. WorkspaceOf[c] \in Workspace /\ ProjectOf[WorkspaceOf[c]] \in Dir
  BY NamesAssumption
<1>2. WithProject(m, WorkspaceOf[c]) \in Mounts
  BY <1>1 DEF WithProject, Mounts, Mode
<1> QED BY <1>2 DEF Effective

LEMMA MutatedTyped ==
    ASSUME NEW c \in Container, NEW record \in Record
    PROVE  Mutated(c, record) \subseteq Record
<1>1. ASSUME NEW m \in Mounts PROVE [record EXCEPT !.mounts = m] \in Record
  BY DEF Record
<1>2. record.mounts \in Mounts
  BY DEF Record
<1>3. ASSUME NEW d \in Dir, NEW mode \in Mode
      PROVE  [record EXCEPT !.mounts[d] = mode] \in Record
  <2>1. [record.mounts EXCEPT ![d] = mode] \in Mounts
    BY <1>2 DEF Mounts
  <2>2. [record EXCEPT !.mounts[d] = mode]
          = [record EXCEPT !.mounts = [record.mounts EXCEPT ![d] = mode]]
    OBVIOUS
  <2> QED BY <1>1, <2>1, <2>2
<1>4. MountAdded(record) \subseteq Record
  <2> SUFFICES ASSUME NEW x \in MountAdded(record) PROVE x \in Record
    OBVIOUS
  <2>1. PICK d \in {e \in Dir : record.mounts[e] = "none"}, mode \in {"ro", "rw"} :
           x = [record EXCEPT !.mounts[d] = mode]
    BY DEF MountAdded
  <2> QED BY <1>3, <2>1 DEF Mode
<1>5. MountRemoved(c, record) \subseteq Record
  BY <1>3 DEF MountRemoved, Mode
<1>6. MountUpdated(record) \subseteq Record
  <2> SUFFICES ASSUME NEW d \in Dir
               PROVE  [record EXCEPT !.mounts[d] = IF @ = "ro" THEN "rw" ELSE "ro"] \in Record
    BY DEF MountUpdated
  <2> DEFINE mode == IF record.mounts[d] = "ro" THEN "rw" ELSE "ro"
  <2>1. mode \in Mode
    BY DEF Mode
  <2>2. [record EXCEPT !.mounts[d] = IF @ = "ro" THEN "rw" ELSE "ro"]
          = [record EXCEPT !.mounts[d] = mode]
    OBVIOUS
  <2> HIDE DEF mode
  <2> QED BY <1>3, <2>1, <2>2
<1>7. Recreated(c, record) \subseteq Record
  BY <1>1, EffectiveTyped DEF Recreated
<1>8. SecretChanged(record) \subseteq Record
  BY DEF SecretChanged
<1> QED BY <1>4, <1>5, <1>6, <1>7, <1>8 DEF Mutated

\* Received calls.
LEMMA CallsKeepTypes ==
    ASSUME TypeInv, NEW r \in Request, Calls(r)
    PROVE  TypeInv'
<1> DEFINE Rest == UNCHANGED <<stored, rec, podman, mountsLock, containerLock>>
           Into(p) == /\ p \in Process
                      /\ ShapedCall(p)
                      /\ req' = [req EXCEPT ![r] = p]
                      /\ Rest
                      /\ UNCHANGED faults \/ \E kind \in AllFaults : Fault(kind)
<1>1. ASSUME NEW p, Into(p) PROVE TypeInv'
  <2>1. CallsTyped
    BY <1>1, OneCallTyped DEF CallsTyped, TypeInv, TypeOK
  <2> QED BY <1>1, <2>1, FaultTyped, SameTyped, TypeInvNext
<1> HIDE DEF Into
<1>2. \A c \in Container : rec[c] # None => rec[c] \in Record /\ rec[c].mounts \in Mounts
  BY DEF TypeInv, TypeOK, Record
<1>3. ASSUME NEW c \in Container, CallEnsure(r, c) PROVE TypeInv'
  <2>1. Into(Received("ensure", c, "lockContainer", None, None))
    BY <1>3, ReceivedTyped DEF CallEnsure, Into, AllOps, PC
  <2> QED BY <1>1, <2>1
<1>4. ASSUME NEW c \in Container, CallMutate(r, c) PROVE TypeInv'
  <2>1. PICK draft \in Mutated(c, rec[c]) :
           req' = [req EXCEPT ![r] = Received("mutate", c, "lockMounts", draft, rec[c])]
    BY <1>4 DEF CallMutate
  <2>2. rec[c] \in Record /\ draft \in Draft
    BY <1>2, <1>4, <2>1, MutatedTyped, RecordIsDraft DEF CallMutate
  <2>3. Into(Received("mutate", c, "lockMounts", draft, rec[c]))
    BY <1>4, <2>1, <2>2, ReceivedTyped DEF CallMutate, Into, AllOps, PC
  <2> QED BY <1>1, <2>3
<1>5. ASSUME NEW c \in Container, CallStart(r, c) PROVE TypeInv'
  <2> DEFINE draft(m) == [mounts |-> Effective(m, c),
                          token |-> IF rec[c] = None THEN None ELSE rec[c].token]
  <2>1. PICK m \in Mounts :
           req' = [req EXCEPT ![r] = Received("start", c, "lockMounts", draft(m), rec[c])]
    BY <1>5 DEF CallStart
  <2>2. rec[c] \in Record \cup {None} /\ draft(m) \in Draft
    BY EffectiveTyped DEF TypeInv, TypeOK, Record, Draft
  <2> HIDE DEF draft
  <2>3. Into(Received("start", c, "lockMounts", draft(m), rec[c]))
    BY <1>5, <2>1, <2>2, ReceivedTyped DEF CallStart, Into, AllOps, PC
  <2> QED BY <1>1, <2>3
<1>6. ASSUME NEW c \in Container, CallRemoveContainer(r, c) PROVE TypeInv'
  <2>1. rec[c] \in Draft \cup {None}
    BY RecordIsDraft DEF TypeInv, TypeOK
  <2>2. Into(Received("removeContainer", c, "removePodman", rec[c], None))
    BY <1>6, <2>1, ReceivedTyped DEF CallRemoveContainer, Into, AllOps, PC
  <2> QED BY <1>1, <2>2
<1>7. ASSUME NEW c \in Container, CallSetPaths(r, c) PROVE TypeInv'
  <2>1. rec[c] \in Record /\ rec[c] \in Draft
    BY <1>2, <1>7, RecordIsDraft DEF CallSetPaths
  <2>2. Into(Received("setPaths", c, "upsert", rec[c], None))
    BY <1>7, <2>1, ReceivedTyped DEF CallSetPaths, Into, AllOps, PC
  <2> QED BY <1>1, <2>2
<1>8. ASSUME NEW w \in Workspace, CallCreateWorkspace(r, w) PROVE TypeInv'
  <2> DEFINE c == DefaultOf[w]
             draft(m) == [mounts |-> WithProject(IF rec[c] = None THEN m ELSE rec[c].mounts, w),
                          token |-> None]
  <2>1. PICK m \in Mounts : req' = [req EXCEPT ![r] =
                   Received("createWorkspace", c, "lockMounts", draft(m), rec[c])]
    BY <1>8 DEF CallCreateWorkspace
  <2>2. c \in Container /\ WorkspaceOf[c] = w
    BY NamesAssumption
  <2>3. rec[c] \in Record \cup {None} /\ draft(m) \in Draft
    BY <1>2, <2>2, EffectiveTyped DEF TypeInv, TypeOK, Draft
  <2> HIDE DEF draft, c
  <2>4. Into(Received("createWorkspace", c, "lockMounts", draft(m), rec[c]))
    BY <1>8, <2>1, <2>2, <2>3, ReceivedTyped, ZenonT(40) DEF CallCreateWorkspace, Into, AllOps, PC
  <2> QED BY <1>1, <2>4
<1>9. ASSUME NEW w \in Workspace, CallRemoveWorkspace(r, w) PROVE TypeInv'
  <2>1. DefaultOf[w] \in Container
    BY NamesAssumption
  <2>2. Into(Received("removeWorkspace", DefaultOf[w], "workspacePod", None, None))
    BY <1>9, <2>1, ReceivedTyped DEF CallRemoveWorkspace, Into, AllOps, PC
  <2> QED BY <1>1, <2>2
<1>10. CASE CallReconcile(r)
  <2> DEFINE p(gone) == [Idle EXCEPT !.pc = "apply", !.op = "reconcile", !.seen = rec,
                                     !.gone = gone]
  <2>1. PICK gone \in SUBSET Container : req' = [req EXCEPT ![r] = p(gone)]
    BY <1>10 DEF CallReconcile
  <2>2. p(gone) \in Process
    BY IdleTyped, ZenonT(40) DEF TypeInv, TypeOK, Process, PC, AllOps
  <2>3. p(gone).pc = "apply"
    BY DEF Idle
  <2>4. UNCHANGED faults \/ \E kind \in AllFaults : Fault(kind)
    BY <1>10 DEF CallReconcile, AllFaults
  <2> HIDE DEF p
  <2>5. Into(p(gone))
    BY <1>10, <2>1, <2>2, <2>3, <2>4 DEF CallReconcile, Into, ShapedCall
  <2> QED BY <1>1, <2>5
<1> QED BY <1>3, <1>4, <1>5, <1>6, <1>7, <1>8, <1>9, <1>10 DEF Calls

\* The steps of a call that change podman under the mount lock.
LEMMA LockedStepsKeepTypes ==
    ASSUME TypeInv, NEW r \in Request,
           LockMounts(r) \/ StopOld(r) \/ RemoveOld(r) \/ CreateNew(r) \/ Cleanup(r)
    PROVE  TypeInv'
<1> DEFINE p == req[r]
<1>1. /\ p \in Process
      /\ p.c \in Container
      /\ p.draft \in Draft
  BY DEF TypeInv, TypeOK, ShapedCall, LockMounts, MountsFree, StopOld, RemoveOld, CreateNew, Cleanup
<1>2. /\ stored' \subseteq Workspace
      /\ rec' \in [Container -> Record \cup {None}]
      /\ faults' \in 0..MaxFaults
  <2>1. UNCHANGED <<stored, rec>>
    BY DEF LockMounts, MountsFree, StopOld, RemoveOld, CreateNew, Cleanup
  <2>2. UNCHANGED faults \/ Fault("podman")
    BY DEF LockMounts, MountsFree, StopOld, RemoveOld, CreateNew, Cleanup
  <2> QED BY <2>1, <2>2, SameTyped, FaultTyped DEF AllFaults
<1>3. \A pc \in {"remove", "create", "cleanup"} : ShapedCall([p EXCEPT !.pc = pc])
  BY <1>1 DEF ShapedCall, Process
<1>4. /\ \A pc \in {"remove", "create"} :
            Goto(r, pc) /\ UNCHANGED <<mountsLock, containerLock>> => CallsTyped
      /\ \A b \in BOOLEAN : Abort(r, b) => CallsTyped
      /\ \A o \in {"ok", "error"} : Return(r, o) => CallsTyped
  BY <1>1, <1>3, GotoTyped, AbortTyped, ReturnTyped DEF PC
<1>5. \A c \in Container, x \in PodmanContainer \cup {None} :
          [podman EXCEPT ![c] = x] \in [Container -> PodmanContainer \cup {None}]
  BY DEF TypeInv, TypeOK
<1>6. CASE LockMounts(r)
  <2> DEFINE entered == [p EXCEPT !.pc = "stop", !.had = @ \/ podman[p.c] # None]
  <2>1. \/ \E b \in BOOLEAN : Abort(r, b)
        \/ Return(r, "error")
        \/ /\ mountsLock' = r
           /\ req' = [req EXCEPT ![r] = entered]
           /\ UNCHANGED containerLock
    BY <1>6 DEF LockMounts, MountsFree
  <2>2. entered \in Process /\ ShapedCall(entered)
    BY <1>1 DEF Process, PC, ShapedCall
  <2> HIDE DEF entered
  <2>3. CallsTyped
    BY <1>4, <2>1, <2>2, OneCallTyped DEF CallsTyped, TypeInv, TypeOK
  <2> QED BY <1>2, <1>6, <2>3, SameTyped, TypeInvNext DEF LockMounts, MountsFree
<1>7. CASE StopOld(r)
  <2>1. CallsTyped
    BY <1>4, <1>7 DEF StopOld
  <2>2. \/ podman' = podman
        \/ podman[p.c] # None /\ podman' = [podman EXCEPT ![p.c].running = FALSE]
    <3>1. \E stops \in BOOLEAN :
            podman' = (IF podman[p.c] # None /\ stops
                       THEN [podman EXCEPT ![p.c].running = FALSE] ELSE podman)
               \/ podman' = podman
      BY <1>7, Zenon DEF StopOld
    <3> QED BY <3>1
  <2>3. podman[p.c] # None => [podman[p.c] EXCEPT !.running = FALSE] \in PodmanContainer
    BY <1>1 DEF TypeInv, TypeOK, PodmanContainer
  <2>4. podman' \in [Container -> PodmanContainer \cup {None}]
    BY <1>1, <1>5, <2>2, <2>3, SameTyped
  <2> QED BY <1>2, <2>1, <2>4, TypeInvNext
<1>8. CASE RemoveOld(r)
  <2>1. CallsTyped
    BY <1>4, <1>8 DEF RemoveOld
  <2>2. podman' = podman \/ podman' = [podman EXCEPT ![p.c] = None]
    BY <1>8 DEF RemoveOld
  <2> QED BY <1>1, <1>2, <1>5, <2>1, <2>2, SameTyped, TypeInvNext
<1>9. CASE CreateNew(r)
  <2> DEFINE next == CASE p.restoring -> "restored"
                       [] p.op = "createWorkspace" -> "replace"
                       [] OTHER -> "upsert"
             made(t) == [Tokened(p, t) EXCEPT !.pc = next]
  <2>1. PICK t \in Token :
           /\ podman' = podman \/ podman' = [podman EXCEPT ![p.c] = Started(p.draft, t)]
           /\ \/ Return(r, "error")
              \/ Abort(r, FALSE)
              \/ /\ req' = [req EXCEPT ![r] = made(t)]
                 /\ next # "restored"
                 /\ mountsLock' = IF next = "replace" THEN r ELSE None
                 /\ UNCHANGED containerLock
              \/ Goto(r, "cleanup") /\ mountsLock' = None /\ UNCHANGED containerLock
    BY <1>9 DEF CreateNew
  <2>2. Started(p.draft, t) \in PodmanContainer
    BY <1>1 DEF Started, Draft, PodmanContainer
  <2>3. podman' \in [Container -> PodmanContainer \cup {None}]
    BY <1>1, <1>5, <2>1, <2>2, SameTyped
  <2>4. Tokened(p, t) \in Process /\ Tokened(p, t).c = p.c /\ Tokened(p, t).draft \in Record
    BY <1>1 DEF Tokened, Process, Draft, Record
  <2>5. next # "restored" => next \in {"replace", "upsert"}
    OBVIOUS
  <2> HIDE DEF next
  <2>6. next # "restored" => made(t) \in Process /\ ShapedCall(made(t))
    BY <1>1, <2>4, <2>5 DEF Process, PC, ShapedCall
  <2> HIDE DEF made
  <2>7. [p EXCEPT !.pc = "cleanup"] \in Process
    BY <1>1 DEF Process, PC
  <2>8. Goto(r, "cleanup") => /\ req' \in [Request -> Process]
                              /\ \A q \in Request : ShapedCall(req'[q])
    BY <1>3, <2>7, OneCallTyped DEF Goto
  <2>9. CallsTyped
    BY <1>4, <2>1, <2>6, <2>8, OneCallTyped DEF CallsTyped, TypeInv, TypeOK
  <2> QED BY <1>2, <2>3, <2>9, TypeInvNext
<1>10. CASE Cleanup(r)
  <2>1. CallsTyped
    BY <1>4, <1>10 DEF Cleanup
  <2>2. podman' = podman \/ podman' = [podman EXCEPT ![p.c] = None]
    BY <1>10 DEF Cleanup
  <2> QED BY <1>1, <1>2, <1>5, <2>1, <2>2, SameTyped, TypeInvNext
<1> QED BY <1>6, <1>7, <1>8, <1>9, <1>10

\* The other steps of a call.
LEMMA OtherStepsKeepTypes ==
    ASSUME TypeInv, NEW r \in Request,
           \/ LockContainer(r) \/ Inspect(r) \/ Recheck(r)
           \/ Upsert(r) \/ ReplaceWorkspace(r) \/ RemovePodman(r) \/ DropRecord(r)
           \/ PodCheck(r) \/ PodRemove(r) \/ WorkspacePod(r) \/ DropWorkspace(r)
           \/ Apply(r)
    PROVE  TypeInv'
<1> DEFINE p == req[r]
<1>1. p \in Process /\ ShapedCall(p)
  BY DEF TypeInv, TypeOK
<1>2. UNCHANGED faults \/ \E kind \in AllFaults : Fault(kind)
  BY DEF LockContainer, Inspect, Recheck, Upsert, ReplaceWorkspace, RemovePodman,
         DropRecord, PodCheck, PodRemove, WorkspacePod, DropWorkspace, Apply,
         WriteFails, AllFaults
<1>3. faults' \in 0..MaxFaults
  BY <1>2, FaultTyped
<1>4. \A o \in {"ok", "error"} : Return(r, o) => CallsTyped
  BY ReturnTyped
<1>5. p.c \in Container => \A b \in BOOLEAN : Abort(r, b) => CallsTyped
  BY AbortTyped
<1>6. \A pc \in PC : /\ ShapedCall([p EXCEPT !.pc = pc])
                     /\ Goto(r, pc)
                     /\ UNCHANGED <<mountsLock, containerLock>>
                     => CallsTyped
  BY GotoTyped
<1>7. \A pc \in {"podCheck", "podRemove", "dropRecord", "dropWorkspace"} :
          /\ p.c \in Container
          /\ Goto(r, pc)
          /\ UNCHANGED <<mountsLock, containerLock>>
          => CallsTyped
  <2>1. \A pc \in {"podCheck", "podRemove", "dropRecord", "dropWorkspace"} :
            p.c \in Container => ShapedCall([p EXCEPT !.pc = pc])
    BY <1>1 DEF ShapedCall, Process
  <2> QED BY <1>6, <2>1 DEF PC
<1>8. \A c \in Container : rec[c] # None => rec[c] \in Record
  BY DEF TypeInv, TypeOK
<1> HIDE DEF p
<1>9. CASE LockContainer(r)
  <2> DEFINE c == p.c
             opened == [p EXCEPT !.pc = "inspect", !.draft = rec[c], !.seen = Siblings(c)]
  <2>1. c \in Container
    BY <1>1, <1>9 DEF LockContainer, ShapedCall, p
  <2>2. \/ req' = [req EXCEPT ![r] = Ended(p, "error")] /\ UNCHANGED containerLock
        \/ /\ rec[c] # None
           /\ req' = [req EXCEPT ![r] = opened]
           /\ containerLock' = [containerLock EXCEPT ![c] = r]
    BY <1>9 DEF LockContainer, p
  <2>3. Siblings(c) \in [Container -> Record \cup {None}]
    BY SiblingsTyped
  <2>4. rec[c] # None => opened \in Process /\ ShapedCall(opened)
    <3> SUFFICES ASSUME rec[c] # None PROVE opened \in Process /\ ShapedCall(opened)
      OBVIOUS
    <3>1. rec[c] \in Record /\ rec[c] \in Draft
      BY <1>8, <2>1, RecordIsDraft
    <3> QED BY <1>1, <2>1, <2>3, <3>1 DEF Process, PC, ShapedCall
  <2> HIDE DEF opened, c
  <2>5. CallsTyped
    BY <1>1, <1>9, <2>1, <2>2, <2>4, EndedTyped, OneCallTyped
    DEF LockContainer, CallsTyped, TypeInv, TypeOK
  <2> QED BY <1>3, <1>9, <2>5, SameTyped, TypeInvNext DEF LockContainer
<1>10. CASE Inspect(r)
  <2>1. p.c \in Container /\ p.draft \in Record /\ p.draft \in Draft
    BY <1>1, <1>10, RecordIsDraft DEF Inspect, ShapedCall, p
  <2>2. \A pc \in {"recheck", "lockMounts"} : ShapedCall([p EXCEPT !.pc = pc])
    BY <1>1, <2>1 DEF ShapedCall, Process
  <2>3. CallsTyped
    BY <1>4, <1>6, <1>10, <2>2 DEF Inspect, PC
  <2> QED BY <1>3, <1>10, <2>3, SameTyped, TypeInvNext DEF Inspect
<1>11. CASE Recheck(r)
  <2>1. p.c \in Container
    BY <1>1, <1>11 DEF Recheck, MountsFree, ShapedCall, p
  <2>2. CallsTyped
    BY <1>4, <1>5, <1>11, <2>1 DEF Recheck, MountsFree
  <2> QED BY <1>3, <1>11, <2>2, SameTyped, TypeInvNext DEF Recheck, MountsFree
<1>12. CASE Upsert(r)
  <2>1. p.c \in Container /\ p.draft \in Record
    BY <1>1, <1>12 DEF Upsert, ShapedCall, p
  <2>2. Upserted(r) \in [Container -> Record \cup {None}]
    BY <1>1, <2>1 DEF Upserted, TypeInv, TypeOK, Process, p
  <2>3. rec' \in [Container -> Record \cup {None}] /\ stored' \subseteq Workspace
    BY <1>12, <2>1, <2>2, SameTyped, NamesAssumption DEF Upsert, WriteFails, TypeInv, TypeOK, p
  <2>4. CallsTyped
    BY <1>4, <1>12 DEF Upsert, WriteFails
  <2> QED BY <1>3, <1>12, <2>3, <2>4, SameTyped, TypeInvNext DEF Upsert
<1>13. CASE ReplaceWorkspace(r)
  <2>1. p.c \in Container /\ p.draft \in Record
    BY <1>1, <1>13 DEF ReplaceWorkspace, ShapedCall, p
  <2>2. rec' \in [Container -> Record \cup {None}] /\ stored' \subseteq Workspace
    BY <1>13, <2>1, NamesAssumption DEF ReplaceWorkspace, WriteFails, TypeInv, TypeOK, p
  <2>3. CallsTyped
    BY <1>4, <1>13 DEF ReplaceWorkspace, WriteFails
  <2> QED BY <1>3, <1>13, <2>2, <2>3, SameTyped, TypeInvNext DEF ReplaceWorkspace
<1>14. CASE RemovePodman(r)
  <2>1. p.c \in Container
    BY <1>1, <1>14 DEF RemovePodman, ShapedCall, p
  <2>2. CallsTyped
    BY <1>4, <1>7, <1>14, <2>1 DEF RemovePodman, p
  <2>3. \/ podman' = [podman EXCEPT ![p.c] = None]
        \/ podman[p.c] # None /\ podman' = [podman EXCEPT ![p.c].running = FALSE]
    BY <1>14 DEF RemovePodman, p
  <2>4. podman[p.c] # None => [podman[p.c] EXCEPT !.running = FALSE] \in PodmanContainer
    BY <2>1 DEF TypeInv, TypeOK, PodmanContainer
  <2>5. podman' \in [Container -> PodmanContainer \cup {None}]
    BY <2>3, <2>4 DEF TypeInv, TypeOK
  <2> QED BY <1>3, <1>14, <2>2, <2>5, SameTyped, TypeInvNext DEF RemovePodman
<1>15. CASE DropRecord(r)
  <2>1. p.c \in Container
    BY <1>1, <1>15 DEF DropRecord, ShapedCall, p
  <2>2. CallsTyped
    BY <1>4, <1>7, <1>15, <2>1 DEF DropRecord, WriteFails
  <2>3. rec' \in [Container -> Record \cup {None}]
    BY <1>15, <2>1 DEF DropRecord, WriteFails, TypeInv, TypeOK
  <2> QED BY <1>3, <1>15, <2>2, <2>3, SameTyped, TypeInvNext DEF DropRecord, WriteFails
<1>16. CASE PodCheck(r)
  <2>1. p.c \in Container
    BY <1>1, <1>16 DEF PodCheck, ShapedCall, p
  <2>2. CallsTyped
    BY <1>4, <1>7, <1>16, <2>1 DEF PodCheck
  <2> QED BY <1>3, <1>16, <2>2, SameTyped, TypeInvNext DEF PodCheck
<1>17. \A w : PodRemoved(w) \in [Container -> PodmanContainer \cup {None}]
  BY DEF PodRemoved, TypeInv, TypeOK
<1>18. CASE PodRemove(r)
  <2>1. CallsTyped
    BY <1>4, <1>18 DEF PodRemove
  <2> QED BY <1>3, <1>17, <1>18, <2>1, SameTyped, TypeInvNext DEF PodRemove
<1>19. CASE WorkspacePod(r)
  <2>1. p.c \in Container
    BY <1>1, <1>19 DEF WorkspacePod, ShapedCall, p
  <2>2. CallsTyped
    BY <1>4, <1>7, <1>19, <2>1 DEF WorkspacePod
  <2> QED BY <1>3, <1>17, <1>19, <2>2, SameTyped, TypeInvNext DEF WorkspacePod
<1>20. CASE DropWorkspace(r)
  <2>1. CallsTyped
    BY <1>4, <1>20 DEF DropWorkspace, WriteFails
  <2>2. rec' \in [Container -> Record \cup {None}] /\ stored' \subseteq Workspace
    BY <1>20 DEF DropWorkspace, WriteFails, TypeInv, TypeOK
  <2> QED BY <1>3, <1>20, <2>1, <2>2, SameTyped, TypeInvNext DEF DropWorkspace
<1>21. CASE Apply(r)
  <2>1. CallsTyped
    BY <1>4, <1>21 DEF Apply, WriteFails
  <2>2. rec' \in [Container -> Record \cup {None}] /\ stored' \subseteq Workspace
    BY <1>21 DEF Apply, Kept, Inhabited, WriteFails, TypeInv, TypeOK
  <2> QED BY <1>3, <1>21, <2>1, <2>2, SameTyped, TypeInvNext DEF Apply
<1> QED BY <1>9, <1>10, <1>11, <1>12, <1>13, <1>14, <1>15, <1>16, <1>18, <1>19,
           <1>20, <1>21

LEMMA OutsideKeepsTypes ==
    ASSUME TypeInv,
           \/ \E c \in Container : DeletedOutside(c) \/ RunStateChanges(c)
           \/ Restart
           \/ UNCHANGED vars
    PROVE  TypeInv'
<1>1. faults' \in 0..MaxFaults
  BY FaultTyped DEF DeletedOutside, RunStateChanges, Restart, vars, AllFaults
<1>2. UNCHANGED <<req, mountsLock, containerLock>> => CallsTyped
  BY DEF TypeInv, TypeOK, CallsTyped
<1>3. UNCHANGED <<stored, rec>>
  BY DEF DeletedOutside, RunStateChanges, Restart, vars
<1>4. ASSUME NEW c \in Container, DeletedOutside(c) PROVE TypeInv'
  <2>1. podman' \in [Container -> PodmanContainer \cup {None}]
    BY <1>4 DEF DeletedOutside, TypeInv, TypeOK
  <2> QED BY <1>1, <1>2, <1>3, <1>4, <2>1, SameTyped, TypeInvNext DEF DeletedOutside
<1>5. ASSUME NEW c \in Container, RunStateChanges(c) PROVE TypeInv'
  <2>1. podman' \in [Container -> PodmanContainer \cup {None}]
    BY <1>5, ZenonT(40) DEF RunStateChanges, TypeInv, TypeOK, PodmanContainer
  <2> QED BY <1>1, <1>2, <1>3, <1>5, <2>1, SameTyped, TypeInvNext DEF RunStateChanges
<1>6. CASE Restart
  <2>1. \A q \in Request : Ended(req[q], "error") \in Process
                          /\ ShapedCall(Ended(req[q], "error"))
    BY EndedTyped DEF TypeInv, TypeOK
  <2>2. CallsTyped
    BY <1>6, <2>1 DEF Restart, CallsTyped, TypeInv, TypeOK
  <2>3. \A x \in PodmanContainer : [x EXCEPT !.current = FALSE] \in PodmanContainer
    BY DEF PodmanContainer
  <2>4. podman' \in [Container -> PodmanContainer \cup {None}]
    BY <1>6, <2>3 DEF Restart, TypeInv, TypeOK
  <2> QED BY <1>1, <1>3, <2>2, <2>4, SameTyped, TypeInvNext
<1>7. CASE UNCHANGED vars
  BY <1>1, <1>2, <1>3, <1>7, SameTyped, TypeInvNext DEF vars
<1> QED BY <1>4, <1>5, <1>6, <1>7

LEMMA InitTyped == Init => TypeInv
<1> SUFFICES ASSUME Init PROVE TypeInv
  OBVIOUS
<1>1. \A c \in Container : SettledRecords(c) \subseteq Record
  BY InputAssumption DEF SettledRecords, Record
<1>2. rec \in [Container -> Record \cup {None}]
  BY <1>1 DEF Init
<1>3. podman \in [Container -> PodmanContainer \cup {None}]
  <2>1. \A record \in Record, run \in BOOLEAN :
          [Started(record, record.token) EXCEPT !.running = run] \in PodmanContainer
    BY DEF Started, Record, PodmanContainer
  <2>2. PICK state \in [Container -> {"running", "stopped", "missing"}] :
          podman = [c \in Container |->
                      IF rec[c] = None \/ state[c] = "missing" THEN None
                      ELSE [Started(rec[c], rec[c].token) EXCEPT
                               !.running = state[c] = "running"]]
    BY DEF Init
  <2> QED BY <1>2, <2>1, <2>2
<1>4. stored \subseteq Workspace
  BY NamesAssumption DEF Init
<1>5. /\ req \in [Request -> Process]
      /\ \A q \in Request : ShapedCall(req[q])
  BY IdleTyped DEF Init
<1>6. /\ mountsLock \in Request \cup {None}
      /\ containerLock \in [Container -> Request \cup {None}]
      /\ faults \in 0..MaxFaults
  BY InputAssumption DEF Init
<1> QED BY <1>2, <1>3, <1>4, <1>5, <1>6 DEF TypeInv, TypeOK

LEMMA NextKeepsTypes ==
    ASSUME TypeInv, [Next]_vars
    PROVE  TypeInv'
<1>1. ASSUME NEW r \in Request, Steps(r) PROVE TypeInv'
  BY <1>1, LockedStepsKeepTypes, OtherStepsKeepTypes DEF Steps
<1> QED BY <1>1, CallsKeepTypes, OutsideKeepsTypes DEF Next

\* Whatever calls run and fail, every variable keeps its type: no container is
\* made and no record stored without the agent token both must carry.
THEOREM TypeCorrect == Spec => []TypeOK
<1>1. TypeInv => TypeOK
  BY DEF TypeInv
<1> QED BY <1>1, InitTyped, NextKeepsTypes, PTL DEF Spec

-------------------------------------------------------------------------------
(* No new nesting.                                                         *)

\* podman gains no container and none changes its mounts.
NoNewMounts ==
    \A d \in Container :
        podman'[d] # None => podman[d] # None /\ podman'[d].mounts = podman[d].mounts

\* Conflicts over a given state of podman.
Clash(pd, c, m) ==
    \E d \in Container \ {c} : pd[d] # None /\ Nested(m, pd[d].mounts)

LEMMA StillUnnestedNext ==
    ASSUME \A q \in Request :
              req'[q].pc \in {"stop", "remove", "create"}
                  => ~Clash(podman', req'[q].c, req'[q].draft.mounts)
    PROVE  StillUnnested'
  BY DEF StillUnnested, Conflicts, Clash

LEMMA StillUnnestedNow ==
    ASSUME StillUnnested, NEW q \in Request, req[q].pc \in {"stop", "remove", "create"}
    PROVE  ~Clash(podman, req[q].c, req[q].draft.mounts)
  BY DEF StillUnnested, Conflicts, Clash

\* A step that creates nothing keeps what the conflict check found.
LEMMA ClashOnlyShrinks ==
    ASSUME NoNewMounts, NEW c, NEW m, ~Clash(podman, c, m)
    PROVE  ~Clash(podman', c, m)
  BY DEF NoNewMounts, Clash

\* A step of one call that stays out of the locked section, or leaves it.
LEMMA OutsideLocked ==
    ASSUME NestingInv, NoNewMounts,
           NEW r \in Request,
           \A q \in Request \ {r} : req'[q] = req[q],
           req'[r].pc \notin Locked,
           mountsLock' = mountsLock \/ mountsLock' = Release(mountsLock, r)
    PROVE  NestingInv'
<1> USE DEF NestingInv
<1>1. LockHeld'
  BY DEF LockHeld, Release, Locked
<1>2. ASSUME NEW q \in Request, req'[q].pc \in {"stop", "remove", "create"}
      PROVE  ~Clash(podman', req'[q].c, req'[q].draft.mounts)
  <2>1. q # r
    BY <1>2 DEF Locked
  <2>2. req'[q] = req[q]
    BY <2>1
  <2>3. ~Clash(podman, req[q].c, req[q].draft.mounts)
    BY <1>2, <2>2, StillUnnestedNow
  <2> QED BY <2>2, <2>3, ClashOnlyShrinks
<1> QED BY <1>1, <1>2, StillUnnestedNext

\* A step of the holder from one pc of the locked section to another.
LEMMA WithinLocked ==
    ASSUME NestingInv, NoNewMounts,
           NEW r \in Request,
           \A q \in Request \ {r} : req'[q] = req[q],
           req[r].pc \in {"stop", "remove"},
           req'[r].pc \in {"remove", "create"},
           req'[r].c = req[r].c,
           req'[r].draft = req[r].draft,
           mountsLock' = mountsLock
    PROVE  NestingInv'
<1> USE DEF NestingInv
<1>1. LockHeld'
  BY DEF LockHeld, Locked
<1>2. ASSUME NEW q \in Request, req'[q].pc \in {"stop", "remove", "create"}
      PROVE  ~Clash(podman', req'[q].c, req'[q].draft.mounts)
  <2>1. req'[q].c = req[q].c /\ req'[q].draft = req[q].draft
    BY <1>2
  <2>2. req[q].pc \in {"stop", "remove", "create"}
    BY <1>2
  <2>3. ~Clash(podman, req[q].c, req[q].draft.mounts)
    BY <2>2, StillUnnestedNow
  <2> QED BY <2>1, <2>3, ClashOnlyShrinks
<1> QED BY <1>1, <1>2, StillUnnestedNext

\* Only call r takes a step, and it is not in the locked section afterwards.
Elsewhere(r) ==
    /\ req'[r].pc \notin Locked
    /\ \A q \in Request \ {r} : req'[q] = req[q]

\* The pcs a call starts at are outside the locked section.
LEMMA CallsKeepNestingInv ==
    ASSUME TypeOK, NestingInv, NEW r \in Request, Calls(r)
    PROVE  NestingInv' /\ NoNewMounts
<1>1. NoNewMounts /\ mountsLock' = mountsLock
  BY DEF Calls, NoNewMounts, CallEnsure, CallMutate, CallStart, CallRemoveContainer,
         CallSetPaths, CallCreateWorkspace, CallRemoveWorkspace, CallReconcile
<1>2. Elsewhere(r)
  <2>1. \A op, c, pc, draft, snap : Received(op, c, pc, draft, snap).pc = pc
    BY DEF Received, Idle
  <2>2. ASSUME NEW c \in Container, CallEnsure(r, c) PROVE Elsewhere(r)
    BY <2>1, <2>2 DEF CallEnsure, Locked, Elsewhere, TypeOK
  <2>3. ASSUME NEW c \in Container, CallMutate(r, c) PROVE Elsewhere(r)
    BY <2>1, <2>3 DEF CallMutate, Locked, Elsewhere, TypeOK
  <2>4. ASSUME NEW c \in Container, CallStart(r, c) PROVE Elsewhere(r)
    BY <2>1, <2>4 DEF CallStart, Locked, Elsewhere, TypeOK
  <2>5. ASSUME NEW c \in Container, CallRemoveContainer(r, c) PROVE Elsewhere(r)
    BY <2>1, <2>5 DEF CallRemoveContainer, Locked, Elsewhere, TypeOK
  <2>6. ASSUME NEW c \in Container, CallSetPaths(r, c) PROVE Elsewhere(r)
    BY <2>1, <2>6 DEF CallSetPaths, Locked, Elsewhere, TypeOK
  <2>7. ASSUME NEW w \in Workspace, CallCreateWorkspace(r, w) PROVE Elsewhere(r)
    BY <2>1, <2>7 DEF CallCreateWorkspace, Locked, Elsewhere, TypeOK
  <2>8. ASSUME NEW w \in Workspace, CallRemoveWorkspace(r, w) PROVE Elsewhere(r)
    BY <2>1, <2>8 DEF CallRemoveWorkspace, Locked, Elsewhere, TypeOK
  <2>9. CASE CallReconcile(r)
    BY <2>9 DEF CallReconcile, Idle, Locked, Elsewhere, TypeOK
  <2> QED BY <2>2, <2>3, <2>4, <2>5, <2>6, <2>7, <2>8, <2>9 DEF Calls
<1> QED BY <1>1, <1>2, OutsideLocked DEF Elsewhere

\* Where Return, Goto and Abort leave a call, and what they do to the lock.
LEMMA Leaving ==
    ASSUME TypeOK, NEW r \in Request
    PROVE  /\ \A outcome : Return(r, outcome)
                 => Elsewhere(r) /\ mountsLock' = Release(mountsLock, r)
           /\ \A refused : Abort(r, refused)
                 => Elsewhere(r) /\ mountsLock' = Release(mountsLock, r)
           /\ \A pc : pc \notin Locked /\ Goto(r, pc) => Elsewhere(r)
<1>1. \A p, outcome : Ended(p, outcome).pc = "done"
  BY DEF Ended, Idle
<1>2. \A outcome : Return(r, outcome)
                 => Elsewhere(r) /\ mountsLock' = Release(mountsLock, r)
  BY <1>1 DEF Return, Elsewhere, Locked, TypeOK
<1>3. ASSUME NEW refused, Abort(r, refused)
      PROVE  Elsewhere(r) /\ mountsLock' = Release(mountsLock, r)
  <2> DEFINE failed == [req[r] EXCEPT !.refused = @ \/ refused, !.unrestored = req[r].restoring]
  <2>1. FromSnapshot(failed).pc = "lockMounts"
    BY DEF FromSnapshot, TypeOK, Process
  <2>2. req'[r] \in {FromSnapshot(failed), Ended(failed, "error")}
    BY <1>3 DEF Abort, TypeOK
  <2>3. req'[r].pc \notin Locked
    BY <1>1, <2>1, <2>2 DEF Locked
  <2>4. \A q \in Request \ {r} : req'[q] = req[q]
    BY <1>3 DEF Abort, TypeOK
  <2> QED BY <1>3, <2>3, <2>4 DEF Abort, Elsewhere
<1>4. \A pc : pc \notin Locked /\ Goto(r, pc) => Elsewhere(r)
  BY DEF Goto, Elsewhere, TypeOK, Process
<1> QED BY <1>2, <1>3, <1>4

\* The conflict check passes and its holder enters the locked section.
LEMMA LockMountsKeepsNestingInv ==
    ASSUME TypeOK, NestingInv, NEW r \in Request, LockMounts(r)
    PROVE  NestingInv' /\ NoNewMounts
<1> DEFINE Enters == /\ ~Conflicts(req[r].c, req[r].draft.mounts)
                     /\ mountsLock = None
                     /\ mountsLock' = r
                     /\ req' = [req EXCEPT ![r].pc = "stop",
                                            ![r].had = @ \/ podman[req[r].c] # None]
<1>1. podman' = podman /\ req[r].pc = "lockMounts"
  BY DEF LockMounts, MountsFree
<1>2. NoNewMounts
  BY <1>1 DEF NoNewMounts
<1>3. Enters \/ (\E o : Return(r, o)) \/ (\E b : Abort(r, b))
  BY DEF LockMounts, MountsFree
<1>4. CASE Enters
  <2>1. \A q \in Request : req[q].pc \notin Locked
    BY <1>4, NoneAssumption DEF NestingInv, LockHeld
  <2>2. \A q \in Request \ {r} : req'[q] = req[q]
    BY <1>4 DEF TypeOK
  <2>3. req'[r].c = req[r].c /\ req'[r].draft = req[r].draft
    BY <1>4 DEF TypeOK, Process
  <2>4. LockHeld'
    BY <1>4, <2>1, <2>2 DEF LockHeld
  <2>5. ASSUME NEW q \in Request, req'[q].pc \in {"stop", "remove", "create"}
        PROVE  ~Clash(podman', req'[q].c, req'[q].draft.mounts)
    <3>1. q = r
      BY <2>1, <2>2, <2>5 DEF Locked
    <3>2. ~Clash(podman, req[r].c, req[r].draft.mounts)
      BY <1>4 DEF Conflicts, Clash
    <3> QED BY <1>1, <2>3, <3>1, <3>2
  <2> QED BY <1>2, <2>4, <2>5, StillUnnestedNext DEF NestingInv
<1>5. CASE \E o : Return(r, o)
  BY <1>2, <1>5, Leaving, OutsideLocked DEF Elsewhere
<1>6. CASE \E b : Abort(r, b)
  BY <1>2, <1>6, Leaving, OutsideLocked DEF Elsewhere
<1> QED BY <1>2, <1>3, <1>4, <1>5, <1>6

LEMMA StopOldKeepsNestingInv ==
    ASSUME TypeOK, NestingInv, NEW r \in Request, StopOld(r)
    PROVE  NestingInv' /\ NoNewMounts
<1>1. NoNewMounts
  <2> DEFINE c == req[r].c
  <2>1. \/ podman' = podman
        \/ podman[c] # None /\ podman' = [podman EXCEPT ![c].running = FALSE]
    BY DEF StopOld
  <2>2. CASE podman' = podman
    BY <2>2 DEF NoNewMounts
  <2>3. CASE podman[c] # None /\ podman' = [podman EXCEPT ![c].running = FALSE]
    <3>1. ASSUME NEW d \in Container, d # c PROVE podman'[d] = podman[d]
      BY <2>3, <3>1 DEF TypeOK
    <3>2. c \in Container => podman'[c].mounts = podman[c].mounts
      BY <2>3 DEF TypeOK, PodmanContainer
    <3> QED BY <2>3, <3>1, <3>2 DEF NoNewMounts
  <2> QED BY <2>1, <2>2, <2>3
<1>2. req[r].pc = "stop"
  BY DEF StopOld
<1>3. (Goto(r, "remove") /\ mountsLock' = mountsLock) \/ \E b : Abort(r, b)
  BY DEF StopOld
<1>4. CASE Goto(r, "remove") /\ mountsLock' = mountsLock
  <2>1. /\ \A q \in Request \ {r} : req'[q] = req[q]
        /\ req'[r].pc = "remove"
        /\ req'[r].c = req[r].c
        /\ req'[r].draft = req[r].draft
    BY <1>4 DEF Goto, TypeOK, Process
  <2> QED BY <1>1, <1>2, <1>4, <2>1, WithinLocked
<1>5. CASE \E b : Abort(r, b)
  BY <1>1, <1>5, Leaving, OutsideLocked DEF Elsewhere
<1> QED BY <1>1, <1>3, <1>4, <1>5

LEMMA RemoveOldKeepsNestingInv ==
    ASSUME TypeOK, NestingInv, NEW r \in Request, RemoveOld(r)
    PROVE  NestingInv' /\ NoNewMounts
<1>1. NoNewMounts
  BY DEF RemoveOld, NoNewMounts, TypeOK, PodmanContainer
<1>2. req[r].pc = "remove"
  BY DEF RemoveOld
<1>3. (Goto(r, "create") /\ mountsLock' = mountsLock) \/ \E b : Abort(r, b)
  BY DEF RemoveOld
<1>4. CASE Goto(r, "create") /\ mountsLock' = mountsLock
  <2>1. /\ \A q \in Request \ {r} : req'[q] = req[q]
        /\ req'[r].pc = "create"
        /\ req'[r].c = req[r].c
        /\ req'[r].draft = req[r].draft
    BY <1>4 DEF Goto, TypeOK, Process
  <2> QED BY <1>1, <1>2, <1>4, <2>1, WithinLocked
<1>5. CASE \E b : Abort(r, b)
  BY <1>1, <1>5, Leaving, OutsideLocked DEF Elsewhere
<1> QED BY <1>1, <1>3, <1>4, <1>5

\* The container that CreateNew makes: nothing else changes in podman.
CreatedOnly(c, m) ==
    /\ \A d \in Container \ {c} : podman'[d] = podman[d]
    /\ c \in Container /\ podman'[c] # None =>
          \/ podman'[c].mounts = m
          \/ podman'[c] = podman[c]

LEMMA CreateNewCreatesOnly ==
    ASSUME TypeOK, NEW r \in Request, CreateNew(r)
    PROVE  CreatedOnly(req[r].c, req[r].draft.mounts)
<1> DEFINE c == req[r].c
<1>1. \/ podman' = podman
      \/ \E t \in Token : podman' = [podman EXCEPT ![c] = Started(req[r].draft, t)]
  BY DEF CreateNew
<1>2. \A t : Started(req[r].draft, t).mounts = req[r].draft.mounts
  BY DEF Started
<1> HIDE DEF c
<1> QED BY <1>1, <1>2 DEF CreatedOnly, TypeOK, c

\* The holder of the lock creates the container: no other call is between the
\* check and its own create.
LEMMA CreateNewKeepsNestingInv ==
    ASSUME TypeOK, NestingInv, NEW r \in Request, CreateNew(r)
    PROVE  NestingInv'
<1> DEFINE p == req[r]
           next == CASE p.restoring -> "restored"
                     [] p.op = "createWorkspace" -> "replace"
                     [] OTHER -> "upsert"
<1>1. /\ req[r].pc = "create"
      /\ mountsLock = r
  BY DEF CreateNew, NestingInv, LockHeld, Locked
<1>2. \A q \in Request \ {r} : req[q].pc \notin Locked
  BY <1>1 DEF NestingInv, LockHeld
<1>3. PICK t \in Token :
         \/ Return(r, "error")
         \/ \E b : Abort(r, b)
         \/ /\ req' = [req EXCEPT ![r] = [Tokened(p, t) EXCEPT !.pc = next]]
            /\ next # "restored"
            /\ mountsLock' = IF next = "replace" THEN r ELSE None
         \/ Goto(r, "cleanup") /\ mountsLock' = None
  BY DEF CreateNew
<1>4. /\ \A q \in Request \ {r} : req'[q] = req[q]
      /\ req'[r].pc \notin {"stop", "remove", "create"}
      /\ req'[r].pc \in Locked => mountsLock' = r
  <2>1. CASE Return(r, "error")
    BY <2>1, Leaving DEF Elsewhere, Locked
  <2>2. CASE \E b : Abort(r, b)
    BY <2>2, Leaving DEF Elsewhere, Locked
  <2>3. CASE /\ req' = [req EXCEPT ![r] = [Tokened(p, t) EXCEPT !.pc = next]]
             /\ next # "restored"
             /\ mountsLock' = IF next = "replace" THEN r ELSE None
    <3>1. next \in {"replace", "upsert"}
      BY <2>3
    <3> HIDE DEF next
    <3>2. req'[r].pc = next
      BY <2>3 DEF Tokened, TypeOK, Process
    <3> QED BY <2>3, <3>1, <3>2 DEF Locked, TypeOK
  <2>4. CASE Goto(r, "cleanup") /\ mountsLock' = None
    BY <2>4, Leaving DEF Elsewhere, Locked
  <2> QED BY <1>3, <2>1, <2>2, <2>3, <2>4
<1>5. \A q \in Request : req'[q].pc \notin {"stop", "remove", "create"}
  BY <1>2, <1>4 DEF Locked
<1>6. LockHeld'
  BY <1>2, <1>4 DEF LockHeld
<1> QED BY <1>5, <1>6 DEF NestingInv, StillUnnested

\* The other steps of a call create nothing and do not enter the locked section.
LEMMA OtherStepsKeepNestingInv ==
    ASSUME TypeOK, NestingInv, NEW r \in Request,
           \/ LockContainer(r) \/ Inspect(r) \/ Recheck(r) \/ Cleanup(r)
           \/ Upsert(r) \/ ReplaceWorkspace(r) \/ RemovePodman(r) \/ DropRecord(r)
           \/ PodCheck(r) \/ PodRemove(r) \/ WorkspacePod(r) \/ DropWorkspace(r)
           \/ Apply(r)
    PROVE  NestingInv' /\ NoNewMounts
<1> DEFINE Leaves == /\ Elsewhere(r)
                     /\ mountsLock' = mountsLock \/ mountsLock' = Release(mountsLock, r)
<1> SUFFICES NoNewMounts /\ Leaves
  BY OutsideLocked DEF Elsewhere
<1> USE Leaving
<1>1. CASE LockContainer(r)
  <2>1. req'[r].pc \in {"done", "inspect"} /\ \A q \in Request \ {r} : req'[q] = req[q]
    <3> DEFINE c == req[r].c
               opened == [req[r] EXCEPT !.pc = "inspect", !.draft = rec[c],
                                        !.seen = Siblings(c)]
    <3>1. req' = [req EXCEPT ![r] = Ended(@, "error")] \/ req' = [req EXCEPT ![r] = opened]
      BY <1>1 DEF LockContainer
    <3>2. Ended(req[r], "error").pc = "done"
      BY DEF Ended, Idle
    <3>3. opened.pc = "inspect"
      BY DEF TypeOK, Process
    <3> HIDE DEF opened
    <3> QED BY <3>1, <3>2, <3>3 DEF TypeOK
  <2> QED BY <1>1, <2>1 DEF LockContainer, NoNewMounts, Elsewhere, Locked
<1>2. CASE Inspect(r)
  BY <1>2 DEF Inspect, NoNewMounts, Locked
<1>3. CASE Recheck(r)
  BY <1>3 DEF Recheck, MountsFree, NoNewMounts
<1>4. CASE Cleanup(r)
  <2>1. NoNewMounts
    BY <1>4 DEF Cleanup, NoNewMounts, TypeOK
  <2> QED BY <1>4, <2>1 DEF Cleanup
<1>5. CASE Upsert(r)
  BY <1>5 DEF Upsert, WriteFails, NoNewMounts
<1>6. CASE ReplaceWorkspace(r)
  BY <1>6 DEF ReplaceWorkspace, WriteFails, NoNewMounts
<1>7. CASE RemovePodman(r)
  <2> DEFINE c == req[r].c
  <2>1. \/ podman' = [podman EXCEPT ![c] = None]
        \/ podman[c] # None /\ podman' = [podman EXCEPT ![c].running = FALSE]
    BY <1>7 DEF RemovePodman
  <2> HIDE DEF c
  <2>2. \A d \in Container : d # c => podman'[d] = podman[d]
    BY <2>1 DEF TypeOK
  <2>3. c \in Container /\ podman'[c] # None
           => podman[c] # None /\ podman'[c].mounts = podman[c].mounts
    <3>1. CASE podman' = [podman EXCEPT ![c] = None]
      BY <3>1 DEF TypeOK
    <3>2. CASE podman[c] # None /\ podman' = [podman EXCEPT ![c].running = FALSE]
      BY <3>2 DEF TypeOK, PodmanContainer
    <3> QED BY <2>1, <3>1, <3>2
  <2>4. NoNewMounts
    BY <2>2, <2>3 DEF NoNewMounts
  <2> QED BY <1>7, <2>4 DEF RemovePodman, Locked
<1>8. CASE DropRecord(r)
  BY <1>8 DEF DropRecord, WriteFails, NoNewMounts, Locked
<1>9. CASE PodCheck(r)
  BY <1>9 DEF PodCheck, NoNewMounts, Locked
<1>10. CASE PodRemove(r)
  BY <1>10 DEF PodRemove, PodRemoved, NoNewMounts, TypeOK
<1>11. CASE WorkspacePod(r)
  BY <1>11 DEF WorkspacePod, PodRemoved, NoNewMounts, Locked, TypeOK
<1>12. CASE DropWorkspace(r)
  BY <1>12 DEF DropWorkspace, WriteFails, NoNewMounts
<1>13. CASE Apply(r)
  BY <1>13 DEF Apply, WriteFails, NoNewMounts
<1> QED BY <1>1, <1>2, <1>3, <1>4, <1>5, <1>6, <1>7, <1>8, <1>9, <1>10, <1>11,
           <1>12, <1>13

LEMMA OutsideKeepsNestingInv ==
    ASSUME TypeOK, NestingInv,
           \/ \E c \in Container : DeletedOutside(c) \/ RunStateChanges(c)
           \/ Restart
           \/ UNCHANGED vars
    PROVE  NestingInv' /\ NoNewMounts
<1> USE DEF NestingInv
<1>1. ASSUME NoNewMounts, UNCHANGED <<req, mountsLock>>
      PROVE  NestingInv'
  <2>1. LockHeld'
    BY <1>1 DEF LockHeld
  <2>2. ASSUME NEW q \in Request, req'[q].pc \in {"stop", "remove", "create"}
        PROVE  ~Clash(podman', req'[q].c, req'[q].draft.mounts)
    BY <1>1, <2>2, StillUnnestedNow, ClashOnlyShrinks
  <2> QED BY <2>1, <2>2, StillUnnestedNext
<1>2. ASSUME NEW c \in Container, DeletedOutside(c)
      PROVE  NestingInv' /\ NoNewMounts
  <2>1. NoNewMounts
    BY <1>2 DEF DeletedOutside, NoNewMounts, TypeOK
  <2> QED BY <1>1, <1>2, <2>1 DEF DeletedOutside
<1>3. ASSUME NEW c \in Container, RunStateChanges(c)
      PROVE  NestingInv' /\ NoNewMounts
  <2>1. podman[c] # None /\ podman' = [podman EXCEPT ![c].running = ~podman[c].running]
    BY <1>3 DEF RunStateChanges
  <2>2. podman'[c].mounts = podman[c].mounts
    BY <2>1 DEF TypeOK, PodmanContainer
  <2>3. NoNewMounts
    BY <2>1, <2>2 DEF NoNewMounts, TypeOK
  <2> QED BY <1>1, <1>3, <2>3 DEF RunStateChanges
<1>4. CASE Restart
  <2>1. NoNewMounts
    <3>1. CASE podman' = podman
      BY <3>1 DEF NoNewMounts
    <3>2. CASE podman' = [c \in Container |-> IF podman[c] = None THEN None
                                 ELSE [podman[c] EXCEPT !.current = FALSE]]
      BY <3>2 DEF NoNewMounts, TypeOK, PodmanContainer
    <3> QED BY <1>4, <3>1, <3>2 DEF Restart
  <2>2. \A q \in Request : req'[q].pc \notin Locked
    BY <1>4 DEF Restart, InFlight, Ended, Idle, Locked
  <2> QED BY <2>1, <2>2 DEF LockHeld, StillUnnested, Locked
<1>5. CASE UNCHANGED vars
  BY <1>1, <1>5 DEF vars, NoNewMounts
<1> QED BY <1>2, <1>3, <1>4, <1>5

\* Every step keeps the invariant, and only CreateNew adds mounts.
LEMMA NextKeepsNestingInv ==
    ASSUME TypeOK, NestingInv, [Next]_vars
    PROVE  /\ NestingInv'
           /\ NoNewMounts \/ \E r \in Request : CreateNew(r)
<1> DEFINE StepKeeps == NestingInv' /\ (NoNewMounts \/ \E r \in Request : CreateNew(r))
<1>1. ASSUME NEW r \in Request, Calls(r) PROVE StepKeeps
  BY <1>1, CallsKeepNestingInv
<1>2. ASSUME NEW r \in Request, Steps(r) PROVE StepKeeps
  BY <1>2, LockMountsKeepsNestingInv, StopOldKeepsNestingInv, RemoveOldKeepsNestingInv,
     CreateNewKeepsNestingInv, OtherStepsKeepNestingInv DEF Steps
<1> QED BY <1>1, <1>2, OutsideKeepsNestingInv DEF Next

LEMMA NextNestsNothingNew ==
    ASSUME TypeOK, NestingInv, [Next]_vars,
           NEW x \in Container, NEW y \in Container, NestedPair(x, y)'
    PROVE  NestedPair(x, y)
<1>1. CASE NoNewMounts
  BY <1>1 DEF NoNewMounts, NestedPair
<1>2. ASSUME NEW r \in Request, CreateNew(r) PROVE NestedPair(x, y)
  <2> DEFINE c == req[r].c
             m == req[r].draft.mounts
  <2>1. ~Clash(podman, c, m)
    BY <1>2, StillUnnestedNow DEF CreateNew, NestingInv
  <2>2. CreatedOnly(c, m)
    BY <1>2, CreateNewCreatesOnly
  <2>3. \A n, k : Nested(n, k) <=> Nested(k, n)
    BY DEF Nested
  <2> HIDE DEF c, m
  <2>4. CASE x # c /\ y # c
    BY <2>2, <2>4 DEF CreatedOnly, NestedPair
  <2>5. CASE x = c
    BY <2>1, <2>2, <2>5 DEF CreatedOnly, NestedPair, Clash
  <2>6. CASE y = c
    BY <2>1, <2>2, <2>3, <2>6 DEF CreatedOnly, NestedPair, Clash
  <2> QED BY <2>4, <2>5, <2>6
<1> QED BY <1>1, <1>2, NextKeepsNestingInv

\* checkProjectMountConflicts under lockProjectMounts: what the check found stays
\* true until podman has created the container.
THEOREM CheckStaysTrue == Spec => []NestingInv
<1>1. Init => NestingInv
  BY DEF Init, Idle, NestingInv, LockHeld, StillUnnested, Locked
<1>2. TypeInv /\ NestingInv /\ [Next]_vars => NestingInv'
  BY NextKeepsNestingInv DEF TypeInv
<1> QED BY <1>1, <1>2, InitTyped, NextKeepsTypes, PTL DEF Spec

\* No step of any call, fault or restart nests two containers anew.
THEOREM NoStepNests == Spec => NeverNewNesting
<1>1. TypeInv /\ NestingInv /\ [Next]_vars => [NestsNothingNew]_vars
  BY NextNestsNothingNew DEF TypeInv, NestsNothingNew
<1>2. Spec => []TypeInv
  BY InitTyped, NextKeepsTypes, PTL DEF Spec
<1> QED BY <1>1, <1>2, CheckStaysTrue, PTL DEF Spec, NeverNewNesting

Unnested == \A x, y \in Container : ~NestedPair(x, y)

\* From containers that are not nested, none ever are.
THEOREM StaysUnnested == Init /\ Unnested /\ [][Next]_vars => []Unnested
<1>1. TypeInv /\ NestingInv /\ Unnested /\ [Next]_vars => Unnested'
  BY NextNestsNothingNew DEF TypeInv, Unnested
<1>2. Spec => []TypeInv
  BY InitTyped, NextKeepsTypes, PTL DEF Spec
<1> QED BY <1>1, <1>2, CheckStaysTrue, PTL DEF Spec

-------------------------------------------------------------------------------
(* One call at a time.  What the handlers know of the store and of podman  *)
(* while nothing overlaps: the part of the calls that needs no lock.       *)

\* No call overlaps another, the state file can be written, and the
\* orchestrator does not restart in the middle of a call.
InTurn == Serial /\ FaultKinds \cap {"store", "restart"} = {}

\* The pcs of each call.
Phased(p) ==
    \/ p.op = "ensure" /\ p.pc \in {"lockContainer", "inspect", "recheck", "lockMounts", "stop",
                                    "remove", "create", "upsert"}
    \/ p.op = "mutate" /\ p.pc \in {"lockMounts", "stop", "remove", "create", "upsert"}
    \/ p.op = "start" /\ p.pc \in {"lockMounts", "stop", "remove", "create", "cleanup", "upsert"}
    \/ p.op = "createWorkspace" /\ p.pc \in {"lockMounts", "stop", "remove", "create", "replace"}
    \/ p.op = "removeContainer" /\ p.pc \in {"removePodman", "dropRecord", "podCheck", "podRemove"}
    \/ p.op = "removeWorkspace" /\ p.pc \in {"workspacePod", "dropWorkspace"}
    \/ p.op = "setPaths" /\ p.pc = "upsert"
    \/ p.op = "reconcile" /\ p.pc = "apply"

Restoring(p) ==
    p.restoring => /\ p.op \in {"mutate", "start"}
                   /\ p.pc \in {"lockMounts", "stop", "remove", "create"}
                   /\ p.snap # None /\ p.draft = p.snap

\* What a call under way knows of the store.
KnowsStore(p) ==
    /\ p.op \in {"mutate", "start", "createWorkspace"} => p.snap = rec[p.c]
    /\ p.op \in {"mutate", "setPaths"} \/ (p.op = "ensure" /\ p.pc # "lockContainer")
          => rec[p.c] # None
    /\ p.op = "setPaths" \/ (p.op = "ensure" /\ p.pc # "lockContainer") => p.draft = rec[p.c]
    /\ p.op = "start" => WorkspaceOf[p.c] \in stored
    /\ p.op = "createWorkspace" /\ p.pc \in {"lockMounts", "stop", "remove", "create"}
          => p.draft.token = None
    /\ p.op = "start" /\ ~p.restoring /\ p.pc = "lockMounts" => ~p.had

\* What it knows of podman.
KnowsPodman(p) ==
    /\ p.pc = "recheck" => Usable(p.c, rec[p.c])
    /\ p.pc \in {"upsert", "replace"} /\ p.op # "setPaths"
          => podman[p.c] = Started(p.draft, p.draft.token)
    /\ p.pc = "dropRecord" => podman[p.c] = None
    /\ p.pc = "dropWorkspace" => \A d \in InWorkspace(WorkspaceOf[p.c]) : podman[d] = None
    /\ p.pc = "apply" => \A d \in p.gone : podman[d] = None

Knows(p) == p.outcome = "none" /\ Phased(p) /\ Restoring(p) /\ KnowsStore(p) /\ KnowsPodman(p)

\* The record's token stands for its mounts.
Vouched(c) == rec[c] # None /\ Matches(c, rec[c].token) => podman[c].mounts = rec[c].mounts

\* From the create until the record is stored, or until the rollback is through,
\* podman may have what the store does not describe.
Replacing(p) ==
    \/ p.restoring \/ p.pc = "cleanup"
    \/ p.pc \in {"upsert", "replace"} /\ p.op # "setPaths"

OneCall == \A q, r \in Request : InFlight(q) /\ InFlight(r) => q = r
RecordsListed == \A c \in Container : rec[c] # None => WorkspaceOf[c] \in stored
Vouching ==
    \A c \in Container :
        \/ Vouched(c) \/ Unrestored(c)
        \/ \E r \in Request : InFlight(r) /\ req[r].c = c /\ Replacing(req[r])

SerialInv ==
    /\ OneCall
    /\ RecordsListed
    /\ \A r \in Request : InFlight(r) => Knows(req[r])
    /\ \A r \in Request : req[r].pc # "done" => ~req[r].unrestored
    /\ Vouching

-------------------------------------------------------------------------------
(* What the helpers make of a call.                                        *)

OthersStay(r) == \A q \in Request \ {r} : req'[q] = req[q]

\* The fields that only the start and the end of a call set.
Carried(p, q) ==
    /\ q.op = p.op /\ q.c = p.c /\ q.snap = p.snap /\ q.gone = p.gone
    /\ q.restoring = p.restoring /\ q.unrestored = p.unrestored /\ q.outcome = p.outcome

LEMMA GotoFields ==
    ASSUME TypeOK, NEW r \in Request, NEW pc, Goto(r, pc)
    PROVE  /\ OthersStay(r) /\ Carried(req[r], req'[r])
           /\ req'[r].pc = pc /\ req'[r].draft = req[r].draft /\ req'[r].had = req[r].had
  BY DEF TypeOK, Process, Goto, OthersStay, Carried

LEMMA EndedFields ==
    ASSUME NEW p, NEW outcome
    PROVE  LET q == Ended(p, outcome) IN
           /\ q.pc = "done" /\ q.op = p.op /\ q.c = p.c /\ q.had = p.had
           /\ q.unrestored = p.unrestored /\ q.outcome = outcome
  BY DEF Ended, Idle

LEMMA ReturnFields ==
    ASSUME TypeOK, NEW r \in Request, NEW outcome, Return(r, outcome)
    PROVE  /\ OthersStay(r)
           /\ req'[r].pc = "done" /\ req'[r].op = req[r].op /\ req'[r].c = req[r].c
           /\ req'[r].had = req[r].had
           /\ req'[r].unrestored = req[r].unrestored /\ req'[r].outcome = outcome
<1>1. req'[r] = Ended(req[r], outcome) /\ OthersStay(r)
  BY DEF Return, TypeOK, OthersStay
<1> QED BY <1>1, EndedFields

\* An aborted call restores what it replaced, or ends.
LEMMA AbortFields ==
    ASSUME TypeOK, NEW r \in Request, NEW refused \in BOOLEAN, Abort(r, refused)
    PROVE  /\ OthersStay(r) /\ req'[r].op = req[r].op /\ req'[r].c = req[r].c
           /\ req'[r].had = req[r].had /\ req'[r].unrestored = req[r].restoring
           /\ Restores(req[r]) => /\ req'[r].pc = "lockMounts" /\ req'[r].restoring
                                  /\ req'[r].snap = req[r].snap /\ req'[r].draft = req[r].snap
                                  /\ req'[r].outcome = req[r].outcome
           /\ ~Restores(req[r]) => req'[r].pc = "done" /\ req'[r].outcome = "error"
<1> DEFINE failed == [req[r] EXCEPT !.refused = @ \/ refused, !.unrestored = req[r].restoring]
<1>1. /\ failed \in Process /\ failed.op = req[r].op /\ failed.c = req[r].c /\ failed.had = req[r].had
      /\ failed.snap = req[r].snap /\ failed.unrestored = req[r].restoring
      /\ failed.outcome = req[r].outcome
  <2>1. PICK b \in BOOLEAN : b = (req[r].refused \/ refused)
    OBVIOUS
  <2>2. req[r] \in Process /\ req[r].restoring \in BOOLEAN
    BY DEF TypeOK, Process
  <2>3. failed = [req[r] EXCEPT !.refused = b, !.unrestored = req[r].restoring]
    BY <2>1
  <2> QED BY <2>2, <2>3 DEF Process
<1>2. /\ OthersStay(r)
      /\ req'[r] = IF Restores(req[r]) THEN FromSnapshot(failed) ELSE Ended(failed, "error")
  BY DEF Abort, TypeOK, OthersStay
<1> HIDE DEF failed
<1>3. LET q == FromSnapshot(failed) IN
      /\ q.pc = "lockMounts" /\ q.restoring /\ q.op = failed.op /\ q.c = failed.c /\ q.had = failed.had
      /\ q.snap = failed.snap /\ q.draft = failed.snap /\ q.unrestored = failed.unrestored
      /\ q.outcome = failed.outcome
  BY <1>1 DEF FromSnapshot, Process
<1>4. CASE Restores(req[r])
  BY <1>1, <1>2, <1>3, <1>4
<1>5. CASE ~Restores(req[r])
  BY <1>1, <1>2, <1>5, EndedFields
<1> QED BY <1>4, <1>5

-------------------------------------------------------------------------------
(* What keeps the invariant.                                               *)

\* A token vouches on, as long as podman's container goes or keeps its mounts
\* and token, and the record goes or stays.
LEMMA StillVouched ==
    ASSUME NEW c \in Container, rec'[c] \in {rec[c], None},
           \/ podman'[c] \in {podman[c], None}
           \/ /\ podman[c] # None
              /\ podman'[c].mounts = podman[c].mounts /\ podman'[c].token = podman[c].token
    PROVE  Vouched(c) => Vouched(c)'
  BY DEF Vouched, Matches

LEMMA VouchedAgain ==
    ASSUME SerialInv, NEW r \in Request, InFlight(r), OthersStay(r), req'[r].c = req[r].c,
           \A d \in Container : d # req[r].c /\ Vouched(d) => Vouched(d)',
           \A d \in Container : d = req[r].c =>
              \/ Vouched(d)' \/ req'[r].unrestored
              \/ InFlight(r)' /\ Replacing(req[r])'
              \/ ~Replacing(req[r]) /\ (Vouched(d) => Vouched(d)')
    PROVE  Vouching'
<1> SUFFICES ASSUME NEW d \in Container
             PROVE  \/ Vouched(d)' \/ Unrestored(d)'
                    \/ \E q \in Request : InFlight(q)' /\ req'[q].c = d /\ Replacing(req[q])'
  BY DEF Vouching
<1>1. Unrestored(d) => Unrestored(d)'
  <2>1. ~req[r].unrestored
    BY DEF SerialInv, InFlight
  <2> QED BY <2>1 DEF Unrestored, OthersStay
<1>2. \/ Vouched(d) \/ Unrestored(d) \/ (req[r].c = d /\ Replacing(req[r]))
  BY DEF SerialInv, Vouching, OneCall
<1>3. CASE d # req[r].c
  BY <1>1, <1>2, <1>3
<1>4. CASE d = req[r].c
  BY <1>1, <1>2, <1>4 DEF Unrestored
<1> QED BY <1>3, <1>4

\* The call under way takes a step.
LEMMA TurnGoesOn ==
    ASSUME SerialInv, NEW r \in Request, InFlight(r), OthersStay(r),
           RecordsListed', InFlight(r)' => Knows(req[r])',
           req'[r].pc # "done" => ~req'[r].unrestored, Vouching'
    PROVE  SerialInv'
<1>1. \A q \in Request \ {r} : ~InFlight(q) /\ ~InFlight(q)'
  BY DEF SerialInv, OneCall, OthersStay, InFlight
<1>2. OneCall'
  BY <1>1 DEF OneCall
<1>3. \A q \in Request : req'[q].pc # "done" => ~req'[q].unrestored
  BY DEF SerialInv, OthersStay
<1> QED BY <1>1, <1>2, <1>3 DEF SerialInv

LEMMA TurnEnds ==
    ASSUME SerialInv, TypeOK, NEW r \in Request, InFlight(r), NEW outcome, Return(r, outcome),
           RecordsListed',
           \A d \in Container : d # req[r].c /\ Vouched(d) => Vouched(d)',
           \A d \in Container : d = req[r].c =>
              Vouched(d)' \/ (~Replacing(req[r]) /\ (Vouched(d) => Vouched(d)'))
    PROVE  SerialInv'
<1>1. /\ OthersStay(r) /\ req'[r].c = req[r].c /\ ~InFlight(r)'
      /\ req'[r].pc = "done"
  BY ReturnFields DEF InFlight
<1>2. Vouching'
  BY <1>1, VouchedAgain
<1> QED BY <1>1, <1>2, TurnGoesOn


LEMMA AbortKeeps ==
    ASSUME SerialInv, TypeInv, NEW r \in Request, InFlight(r), NEW refused \in BOOLEAN,
           Abort(r, refused), UNCHANGED <<stored, rec>>,
           req[r].pc \in {"recheck", "lockMounts", "stop", "remove", "create", "cleanup"},
           \A d \in Container : d # req[r].c => podman'[d] = podman[d],
           \A d \in Container : d = req[r].c =>
              \/ Vouched(d)' \/ Restores(req[r]) \/ req[r].restoring
              \/ ~Replacing(req[r]) /\ (Vouched(d) => Vouched(d)')
    PROVE  SerialInv'
<1>1. /\ OthersStay(r) /\ req'[r].op = req[r].op /\ req'[r].c = req[r].c
      /\ req'[r].had = req[r].had /\ req'[r].unrestored = req[r].restoring
      /\ Restores(req[r]) => /\ req'[r].pc = "lockMounts" /\ req'[r].restoring
                             /\ req'[r].snap = req[r].snap /\ req'[r].draft = req[r].snap
                             /\ req'[r].outcome = req[r].outcome
      /\ ~Restores(req[r]) => req'[r].pc = "done" /\ req'[r].outcome = "error"
  BY AbortFields DEF TypeInv
<1>2. Knows(req[r])
  BY DEF SerialInv
<1>3. RecordsListed'
  BY DEF SerialInv, RecordsListed
<1>4. \A d \in Container : d # req[r].c /\ Vouched(d) => Vouched(d)'
  BY StillVouched
<1>5. Restores(req[r]) => InFlight(r)' /\ Replacing(req[r])' /\ ~req'[r].unrestored
  BY <1>1 DEF InFlight, Replacing, Restores
<1>6. Restores(req[r]) => Knows(req[r])'
  BY <1>1, <1>2 DEF Restores, Knows, Phased, Restoring, KnowsStore, KnowsPodman
<1>7. ~Restores(req[r]) => ~InFlight(r)'
  BY <1>1 DEF InFlight
<1>8. Vouching'
  BY <1>1, <1>4, <1>5, VouchedAgain
<1> QED BY <1>1, <1>3, <1>5, <1>6, <1>7, <1>8, TurnGoesOn

\* The call goes on; the store stays.
LEMMA GoesOn ==
    ASSUME SerialInv, NEW r \in Request, InFlight(r), OthersStay(r), Carried(req[r], req'[r]),
           InFlight(r)', Knows(req[r])', UNCHANGED <<stored, rec>>,
           \A d \in Container : d # req[r].c => podman'[d] \in {podman[d], None},
           \A d \in Container : d = req[r].c =>
              Replacing(req[r])' \/ (~Replacing(req[r]) /\ (Vouched(d) => Vouched(d)'))
    PROVE  SerialInv'
<1>1. RecordsListed'
  BY DEF SerialInv, RecordsListed
<1>2. \A d \in Container : d # req[r].c /\ Vouched(d) => Vouched(d)'
  BY StillVouched
<1>3. ~req'[r].unrestored
  BY DEF SerialInv, InFlight, Carried
<1>4. Vouching'
  BY <1>2, VouchedAgain DEF Carried
<1> QED BY <1>1, <1>3, <1>4, TurnGoesOn

LEMMA StoreStaysKnown ==
    ASSUME NEW r \in Request, KnowsStore(req[r]), Carried(req[r], req'[r]), UNCHANGED <<stored, rec>>,
           req'[r].draft = req[r].draft, req[r].pc # "lockContainer", req'[r].pc # "lockMounts",
           req[r].pc \in {"upsert", "replace"} => req'[r].pc \in {"upsert", "replace"},
           req'[r].pc \in {"stop", "remove", "create"}
              => req[r].pc \in {"lockMounts", "stop", "remove", "create"}
    PROVE  KnowsStore(req[r])'
  BY DEF KnowsStore, Carried

-------------------------------------------------------------------------------
(* The steps.                                                              *)

LEMMA LockContainerStep ==
    ASSUME SerialInv, TypeInv, NEW r \in Request, LockContainer(r)
    PROVE  SerialInv'
<1>1. InFlight(r) /\ Knows(req[r]) /\ req[r].op = "ensure" /\ ~Replacing(req[r])
  BY DEF LockContainer, InFlight, SerialInv, Knows, Phased, Replacing, Restoring
<1>2. UNCHANGED <<stored, rec, podman>> /\ req \in [Request -> Process]
  BY DEF LockContainer, TypeInv, TypeOK
<1>3. \A d \in Container : Vouched(d) => Vouched(d)'
  BY <1>2 DEF Vouched, Matches
<1>4. CASE rec[req[r].c] = None
  <2>1. req'[r] = Ended(req[r], "error") /\ OthersStay(r)
    BY <1>2, <1>4 DEF LockContainer, OthersStay
  <2>2. req'[r].pc = "done" /\ req'[r].c = req[r].c
    BY <2>1, EndedFields
  <2>3. RecordsListed' /\ ~InFlight(r)'
    BY <1>2, <2>2 DEF SerialInv, RecordsListed, InFlight
  <2>4. Vouching'
    BY <1>1, <1>3, <2>1, <2>2, VouchedAgain
  <2> QED BY <1>1, <2>1, <2>2, <2>3, <2>4, TurnGoesOn
<1>5. CASE rec[req[r].c] # None
  <2>1. /\ OthersStay(r) /\ Carried(req[r], req'[r]) /\ req'[r].pc = "inspect"
        /\ req'[r].draft = rec[req[r].c]
    BY <1>2, <1>5 DEF LockContainer, OthersStay, Carried, Process
  <2>2. InFlight(r)' /\ Knows(req[r])'
    BY <1>1, <1>2, <1>5, <2>1 DEF InFlight, Knows, Phased, Restoring, KnowsStore, KnowsPodman, Carried
  <2> QED BY <1>1, <1>2, <1>3, <2>1, <2>2, GoesOn
<1> QED BY <1>4, <1>5

LEMMA InspectStep ==
    ASSUME SerialInv, TypeInv, NEW r \in Request, Inspect(r)
    PROVE  SerialInv'
<1>1. InFlight(r) /\ Knows(req[r]) /\ req[r].op = "ensure" /\ req[r].pc = "inspect" /\ ~Replacing(req[r])
  BY DEF Inspect, InFlight, SerialInv, Knows, Phased, Replacing, Restoring
<1>2. UNCHANGED <<stored, rec, podman>> /\ TypeOK
  BY DEF Inspect, TypeInv
<1>3. \A d \in Container : Vouched(d) => Vouched(d)'
  BY <1>2 DEF Vouched, Matches
<1>4. RecordsListed'
  BY <1>2 DEF SerialInv, RecordsListed
<1>5. ASSUME NEW pc \in {"recheck", "lockMounts"}, Goto(r, pc),
             pc = "recheck" => Usable(req[r].c, req[r].draft)
      PROVE  SerialInv'
  <2>1. /\ OthersStay(r) /\ Carried(req[r], req'[r])
        /\ req'[r].pc = pc /\ req'[r].draft = req[r].draft
    BY <1>2, <1>5, GotoFields
  <2>2. InFlight(r)'
    BY <2>1 DEF InFlight
  <2>3. req[r].draft = rec[req[r].c]
    BY <1>1 DEF Knows, KnowsStore
  <2>4. KnowsStore(req[r])'
    BY <1>1, <1>2, <2>1 DEF Knows, KnowsStore, Carried
  <2>5. KnowsPodman(req[r])'
    BY <1>1, <1>2, <1>5, <2>1, <2>3 DEF KnowsPodman, Carried, Usable, Matches
  <2>6. Knows(req[r])'
    BY <1>1, <2>1, <2>4, <2>5 DEF Knows, Phased, Restoring, Carried
  <2> QED BY <1>1, <1>2, <1>3, <2>1, <2>2, <2>6, GoesOn
<1>6. CASE Return(r, "error")
  BY <1>1, <1>2, <1>3, <1>4, <1>6, TurnEnds
<1> QED BY <1>5, <1>6 DEF Inspect

LEMMA RecheckStep ==
    ASSUME SerialInv, TypeInv, NEW r \in Request, Recheck(r)
    PROVE  SerialInv'
<1>1. InFlight(r) /\ Knows(req[r]) /\ req[r].pc = "recheck" /\ ~Replacing(req[r])
  BY DEF Recheck, InFlight, SerialInv, Knows, Phased, Replacing, Restoring
<1>2. UNCHANGED <<stored, rec, podman>> /\ TypeOK
  BY DEF Recheck, TypeInv
<1>3. \A d \in Container : Vouched(d) => Vouched(d)'
  BY <1>2 DEF Vouched, Matches
<1>4. RecordsListed'
  BY <1>2 DEF SerialInv, RecordsListed
<1>5. CASE Abort(r, TRUE)
  BY <1>1, <1>2, <1>3, <1>5, AbortKeeps
<1>6. CASE Return(r, "ok")
  BY <1>1, <1>2, <1>3, <1>4, <1>6, TurnEnds
<1> QED BY <1>5, <1>6 DEF Recheck

\* From the lock to the create the call goes from pc to pc.
LEMMA LockedGoesOn ==
    ASSUME SerialInv, TypeInv, NEW r \in Request, InFlight(r), OthersStay(r), Carried(req[r], req'[r]),
           req'[r].draft = req[r].draft, UNCHANGED <<stored, rec>>,
           req[r].pc \in {"lockMounts", "stop", "remove"}, req'[r].pc \in {"stop", "remove", "create"},
           \A d \in Container : d # req[r].c => podman'[d] = podman[d],
           \A d \in Container : d = req[r].c =>
              \/ podman'[d] \in {podman[d], None}
              \/ /\ podman[d] # None
                 /\ podman'[d].mounts = podman[d].mounts /\ podman'[d].token = podman[d].token
    PROVE  SerialInv'
<1>1. Knows(req[r])
  BY DEF SerialInv
<1>2. KnowsStore(req[r])'
  BY <1>1, StoreStaysKnown DEF Knows
<1>3. Phased(req'[r])
  BY <1>1 DEF Knows, Phased, Carried
<1>4. Restoring(req'[r])
  BY <1>1 DEF Knows, Restoring, Carried
<1>5. KnowsPodman(req[r])'
  BY DEF KnowsPodman
<1>6. Knows(req[r])' /\ InFlight(r)'
  BY <1>1, <1>2, <1>3, <1>4, <1>5 DEF Knows, Carried, InFlight
<1>7. Replacing(req[r]) => Replacing(req[r])'
  BY DEF Replacing, Carried
<1>8. \A d \in Container : d = req[r].c => (Vouched(d) => Vouched(d)')
  BY StillVouched
<1> QED BY <1>6, <1>7, <1>8, GoesOn

LEMMA LockMountsStep ==
    ASSUME SerialInv, TypeInv, NEW r \in Request, LockMounts(r)
    PROVE  SerialInv'
<1>1. InFlight(r) /\ Knows(req[r]) /\ req[r].pc = "lockMounts"
  BY DEF LockMounts, InFlight, SerialInv
<1>2. UNCHANGED <<stored, rec, podman>> /\ TypeOK
  BY DEF LockMounts, TypeInv
<1>3. \A d \in Container : Vouched(d) => Vouched(d)'
  BY <1>2 DEF Vouched, Matches
<1>4. RecordsListed'
  BY <1>2 DEF SerialInv, RecordsListed
<1>5. ASSUME NEW refused \in BOOLEAN, Abort(r, refused) PROVE SerialInv'
  <2>1. ~Replacing(req[r]) \/ req[r].restoring
    BY <1>1 DEF Replacing
  <2> QED BY <1>1, <1>2, <1>3, <1>5, <2>1, AbortKeeps
<1>6. CASE req[r].op = "createWorkspace" /\ Return(r, "error")
  <2>1. ~Replacing(req[r])
    BY <1>1, <1>6 DEF Replacing, Knows, Restoring
  <2> QED BY <1>1, <1>2, <1>3, <1>4, <1>6, <2>1, TurnEnds
<1>7. CASE req' = [req EXCEPT ![r].pc = "stop", ![r].had = @ \/ podman[req[r].c] # None]
  <2>1. /\ OthersStay(r) /\ Carried(req[r], req'[r]) /\ req'[r].pc = "stop"
        /\ req'[r].draft = req[r].draft
    BY <1>2, <1>7 DEF OthersStay, Carried, TypeOK, Process
  <2> QED BY <1>1, <1>2, <2>1, LockedGoesOn
<1> QED BY <1>5, <1>6, <1>7 DEF LockMounts

LEMMA StopOldStep ==
    ASSUME SerialInv, TypeInv, NEW r \in Request, StopOld(r)
    PROVE  SerialInv'
<1>1. InFlight(r) /\ Knows(req[r]) /\ req[r].pc = "stop" /\ req[r].c \in Container
  BY DEF StopOld, InFlight, SerialInv, TypeInv, ShapedCall
<1>2. UNCHANGED <<stored, rec>> /\ TypeOK
  BY DEF StopOld, TypeInv
<1>3. /\ \A d \in Container : d # req[r].c => podman'[d] = podman[d]
      /\ \A d \in Container : d = req[r].c =>
            \/ podman'[d] = podman[d]
            \/ /\ podman[d] # None
               /\ podman'[d].mounts = podman[d].mounts /\ podman'[d].token = podman[d].token
  <2>1. podman' = podman
          \/ (podman[req[r].c] # None /\ podman' = [podman EXCEPT ![req[r].c].running = FALSE])
    BY DEF StopOld
  <2> QED BY <1>1, <1>2, <2>1 DEF TypeOK, PodmanContainer
<1>4. CASE Goto(r, "remove")
  <2>1. /\ OthersStay(r) /\ Carried(req[r], req'[r]) /\ req'[r].pc = "remove"
        /\ req'[r].draft = req[r].draft
    BY <1>2, <1>4, GotoFields
  <2> QED BY <1>1, <1>2, <1>3, <2>1, LockedGoesOn
<1>5. CASE Abort(r, FALSE)
  <2>1. ~Replacing(req[r]) \/ req[r].restoring
    BY <1>1 DEF Replacing
  <2>2. \A d \in Container : d = req[r].c => (Vouched(d) => Vouched(d)')
    BY <1>2, <1>3, StillVouched
  <2> QED BY <1>1, <1>2, <1>3, <1>5, <2>1, <2>2, AbortKeeps
<1> QED BY <1>4, <1>5 DEF StopOld

LEMMA RemoveOldStep ==
    ASSUME SerialInv, TypeInv, NEW r \in Request, RemoveOld(r)
    PROVE  SerialInv'
<1>1. InFlight(r) /\ Knows(req[r]) /\ req[r].pc = "remove" /\ req[r].c \in Container
  BY DEF RemoveOld, InFlight, SerialInv, TypeInv, ShapedCall
<1>2. UNCHANGED <<stored, rec>> /\ TypeOK
  BY DEF RemoveOld, TypeInv
<1>3. /\ \A d \in Container : d # req[r].c => podman'[d] = podman[d]
      /\ \A d \in Container : d = req[r].c => podman'[d] \in {podman[d], None}
  BY <1>1, <1>2 DEF RemoveOld, TypeOK
<1>4. CASE Goto(r, "create")
  <2>1. /\ OthersStay(r) /\ Carried(req[r], req'[r]) /\ req'[r].pc = "create"
        /\ req'[r].draft = req[r].draft
    BY <1>2, <1>4, GotoFields
  <2> QED BY <1>1, <1>2, <1>3, <2>1, LockedGoesOn
<1>5. CASE Abort(r, FALSE)
  <2>1. ~Replacing(req[r]) \/ req[r].restoring
    BY <1>1 DEF Replacing
  <2>2. \A d \in Container : d = req[r].c => (Vouched(d) => Vouched(d)')
    BY <1>2, <1>3, StillVouched
  <2> QED BY <1>1, <1>2, <1>3, <1>5, <2>1, <2>2, AbortKeeps
<1> QED BY <1>4, <1>5 DEF RemoveOld

\* Nobody holds a minted token, so no record vouches by it.
LEMMA MintedIsNew ==
    ASSUME TypeOK, NEW t, Minted(t), NEW c \in Container, rec[c] # None
    PROVE  rec[c].token # t
<1>1. rec[c].token \in TokensOf(rec[c]) \cup TokensOf(podman[c])
  BY DEF TokensOf
<1>2. rec[c].token \in UNION {TokensOf(rec[d]) \cup TokensOf(podman[d]) : d \in Container}
  BY <1>1
<1>3. rec[c].token \in Held
  BY <1>2 DEF Held
<1> QED BY <1>3 DEF Minted

LEMMA CreateNewStep ==
    ASSUME SerialInv, TypeInv, NEW r \in Request, CreateNew(r)
    PROVE  SerialInv'
<1>0. PICK c, draft : c = req[r].c /\ draft = req[r].draft
  OBVIOUS
<1>1. /\ InFlight(r) /\ Knows(req[r]) /\ req[r].pc = "create" /\ c \in Container /\ draft \in Draft
      /\ req[r].restoring \in BOOLEAN /\ req[r].snap \in Record \cup {None}
  BY <1>0 DEF CreateNew, InFlight, SerialInv, TypeInv, TypeOK, Process, ShapedCall
<1>2. UNCHANGED <<stored, rec>> /\ TypeOK /\ rec[c] \in Record \cup {None}
  BY <1>0, <1>1 DEF CreateNew, TypeInv, TypeOK
<1>3. PICK t \in Token :
        /\ IF draft.token = None THEN Minted(t) ELSE t = draft.token
        /\ \/ /\ podman' = [podman EXCEPT ![c] = Started(draft, t)]
              /\ \/ req[r].restoring /\ Return(r, "error")
                 \/ /\ ~req[r].restoring
                    /\ req' = [req EXCEPT ![r] =
                          [Tokened(req[r], t) EXCEPT
                              !.pc = IF req[r].op = "createWorkspace" THEN "replace" ELSE "upsert"]]
           \/ /\ podman' \in {podman, [podman EXCEPT ![c] = Started(draft, t)]}
              /\ \/ req[r].op = "start" /\ ~req[r].restoring /\ Goto(r, "cleanup")
                 \/ ~(req[r].op = "start" /\ ~req[r].restoring) /\ Abort(r, FALSE)
  <2>1. PICK next : next = CASE req[r].restoring -> "restored"
                             [] req[r].op = "createWorkspace" -> "replace"
                             [] OTHER -> "upsert"
    OBVIOUS
  <2>2. /\ req[r].restoring => next = "restored"
        /\ ~req[r].restoring => next = IF req[r].op = "createWorkspace" THEN "replace" ELSE "upsert"
    <3>1. CASE req[r].restoring
      <4>1. req[r].op # "createWorkspace"
        BY <1>1, <3>1 DEF Knows, Restoring
      <4> QED BY <2>1, <3>1, <4>1
    <3>2. CASE ~req[r].restoring /\ req[r].op = "createWorkspace"
      BY <2>1, <3>2
    <3>3. CASE ~req[r].restoring /\ req[r].op # "createWorkspace"
      BY <2>1, <3>3
    <3> QED BY <3>1, <3>2, <3>3
  <2>3. PICK t \in Token :
          /\ IF draft.token = None THEN Minted(t) ELSE t = draft.token
          /\ \/ /\ podman' = [podman EXCEPT ![c] = Started(draft, t)]
                /\ IF next = "restored" THEN Return(r, "error")
                   ELSE req' = [req EXCEPT ![r] = [Tokened(req[r], t) EXCEPT !.pc = next]]
             \/ /\ podman' \in {podman, [podman EXCEPT ![c] = Started(draft, t)]}
                /\ IF req[r].op = "start" /\ ~req[r].restoring THEN Goto(r, "cleanup")
                   ELSE Abort(r, FALSE)
    BY <1>0, <2>1 DEF CreateNew
  <2> QED BY <2>2, <2>3
<1>4. /\ \A d \in Container : d # c => podman'[d] = podman[d]
      /\ podman'[c] \in {podman[c], Started(draft, t)}
  BY <1>0, <1>1, <1>2, <1>3 DEF TypeOK
<1>5. \A d \in Container : d # c /\ Vouched(d) => Vouched(d)'
  BY <1>0, <1>2, <1>4, StillVouched
<1>6. RecordsListed'
  BY <1>2 DEF SerialInv, RecordsListed
<1>7. Started(draft, t).mounts = draft.mounts /\ Started(draft, t).token = t
  BY DEF Started
\* A container made as recorded is vouched for.
<1>8. ASSUME draft = rec[c], podman'[c] = Started(draft, t) PROVE Vouched(c)'
  BY <1>2, <1>7, <1>8 DEF Vouched
<1>9. CASE /\ podman' = [podman EXCEPT ![c] = Started(draft, t)]
           /\ req[r].restoring /\ Return(r, "error")
  <2>1. draft = rec[c]
    BY <1>0, <1>1, <1>9 DEF Knows, Restoring, KnowsStore
  <2>2. podman'[c] = Started(draft, t)
    BY <1>0, <1>1, <1>2, <1>9 DEF TypeOK
  <2>3. Vouched(c)'
    BY <1>8, <2>1, <2>2
  <2> QED BY <1>0, <1>1, <1>2, <1>5, <1>6, <1>9, <2>3, TurnEnds
<1>10. CASE /\ podman' = [podman EXCEPT ![c] = Started(draft, t)]
            /\ ~req[r].restoring
            /\ req' = [req EXCEPT ![r] =
                  [Tokened(req[r], t) EXCEPT
                      !.pc = IF req[r].op = "createWorkspace" THEN "replace" ELSE "upsert"]]
  <2>1. PICK pc : pc = IF req[r].op = "createWorkspace" THEN "replace" ELSE "upsert"
    OBVIOUS
  <2>2. /\ OthersStay(r) /\ Carried(req[r], req'[r]) /\ req'[r].pc = pc
        /\ req'[r].draft = [draft EXCEPT !.token = t]
    BY <1>0, <1>2, <1>10, <2>1 DEF OthersStay, Carried, TypeOK, Process, Tokened
  <2>3. req'[r].draft.mounts = draft.mounts /\ req'[r].draft.token = t
    BY <1>0, <1>1, <2>2 DEF Draft
  <2>4. podman'[c] = Started(req'[r].draft, req'[r].draft.token)
    BY <1>0, <1>1, <1>2, <1>10, <2>3 DEF TypeOK, Started
  <2>5. req[r].op = "ensure" => req'[r].draft = rec[c]
    <3>1. req[r].op = "ensure" => draft = rec[c] /\ rec[c] # None
      BY <1>0, <1>1 DEF Knows, KnowsStore
    <3>2. req[r].op = "ensure" => draft \in Record
      BY <1>2, <3>1
    <3>3. req[r].op = "ensure" => t = draft.token
      BY <1>3, <3>2, NoneAssumption DEF Record
    <3> QED BY <2>2, <3>1, <3>2, <3>3 DEF Record
  <2>6. KnowsStore(req[r])'
    BY <1>0, <1>1, <1>2, <2>1, <2>2, <2>5 DEF Knows, KnowsStore, Phased, Carried
  <2>7. KnowsPodman(req[r])'
    BY <1>0, <2>1, <2>2, <2>4 DEF KnowsPodman, Carried
  <2>8. Phased(req'[r]) /\ Restoring(req'[r]) /\ Replacing(req[r])' /\ InFlight(r)'
    BY <1>0, <1>1, <1>10, <2>1, <2>2 DEF Knows, Phased, Restoring, Replacing, InFlight, Carried
  <2>9. Knows(req[r])'
    BY <1>0, <1>1, <2>2, <2>6, <2>7, <2>8 DEF Knows, Carried
  <2> QED BY <1>0, <1>1, <1>2, <1>4, <2>2, <2>8, <2>9, GoesOn
<1>11. CASE req[r].op = "start" /\ ~req[r].restoring /\ Goto(r, "cleanup")
  <2>1. /\ OthersStay(r) /\ Carried(req[r], req'[r]) /\ req'[r].pc = "cleanup"
        /\ req'[r].draft = req[r].draft
    BY <1>2, <1>11, GotoFields
  <2>2. KnowsStore(req[r])'
    BY <1>0, <1>1, <1>2, <2>1, StoreStaysKnown DEF Knows
  <2>3. Phased(req'[r]) /\ Restoring(req'[r]) /\ Replacing(req[r])' /\ InFlight(r)'
    BY <1>0, <1>11, <2>1 DEF Phased, Restoring, Replacing, InFlight, Carried
  <2>4. Knows(req[r])'
    BY <1>0, <1>1, <2>1, <2>2, <2>3 DEF Knows, KnowsPodman, Carried
  <2> QED BY <1>0, <1>1, <1>2, <1>4, <2>1, <2>3, <2>4, GoesOn
<1>12. CASE ~(req[r].op = "start" /\ ~req[r].restoring) /\ Abort(r, FALSE)
  <2>1. CASE req[r].restoring
    BY <1>0, <1>1, <1>2, <1>4, <1>12, <2>1, AbortKeeps
  <2>2. CASE ~req[r].restoring /\ req[r].op = "mutate"
    <3>1. Restores(req[r])
      BY <1>0, <1>1, <2>2 DEF Restores, Knows, KnowsStore
    <3> QED BY <1>0, <1>1, <1>2, <1>4, <1>12, <3>1, AbortKeeps
  <2>3. CASE ~req[r].restoring /\ req[r].op \in {"ensure", "createWorkspace"}
    <3>1. ~Replacing(req[r])
      BY <1>0, <1>1, <2>3 DEF Replacing
    <3>2. podman'[c] = podman[c] => (Vouched(c) => Vouched(c)')
      BY <1>0, <1>1, <1>2, StillVouched
    <3>3. CASE req[r].op = "ensure"
      <4>1. draft = rec[c]
        BY <1>0, <1>1, <3>3 DEF Knows, KnowsStore
      <4>2. Vouched(c)' \/ (Vouched(c) => Vouched(c)')
        BY <1>4, <1>8, <3>2, <4>1
      <4> QED BY <1>0, <1>1, <1>2, <1>4, <1>12, <3>1, <4>2, AbortKeeps
    <3>4. CASE req[r].op = "createWorkspace"
      <4>1. Minted(t)
        BY <1>0, <1>1, <1>3, <3>4 DEF Knows, KnowsStore
      <4>2. rec[c] # None => rec[c].token # t
        BY <1>0, <1>1, <1>2, <4>1, MintedIsNew
      <4>3. podman'[c] = Started(draft, t) => Vouched(c)'
        BY <1>2, <1>7, <4>2 DEF Vouched, Matches
      <4>4. Vouched(c)' \/ (Vouched(c) => Vouched(c)')
        BY <1>4, <3>2, <4>3
      <4> QED BY <1>0, <1>1, <1>2, <1>4, <1>12, <3>1, <4>4, AbortKeeps
    <3> QED BY <2>3, <3>3, <3>4
  <2> QED BY <1>0, <1>1, <1>12, <2>1, <2>2, <2>3 DEF Knows, Phased
<1> QED BY <1>3, <1>9, <1>10, <1>11, <1>12

LEMMA CleanupStep ==
    ASSUME SerialInv, TypeInv, NEW r \in Request, Cleanup(r)
    PROVE  SerialInv'
<1>0. PICK c : c = req[r].c
  OBVIOUS
<1>1. /\ InFlight(r) /\ Knows(req[r]) /\ req[r].pc = "cleanup" /\ req[r].op = "start"
      /\ c \in Container /\ ~req[r].restoring /\ req[r].snap = rec[c]
  BY <1>0 DEF Cleanup, InFlight, SerialInv, TypeInv, ShapedCall, Knows, Phased, Restoring, KnowsStore
<1>2. UNCHANGED <<stored, rec>> /\ TypeOK /\ Abort(r, FALSE)
  BY DEF Cleanup, TypeInv
<1>3. \A d \in Container : d # c => podman'[d] = podman[d]
  BY <1>0, <1>1, <1>2 DEF Cleanup, TypeOK
<1>4. Restores(req[r]) \/ Vouched(c)'
  BY <1>0, <1>1, <1>2 DEF Restores, Vouched
<1> QED BY <1>0, <1>1, <1>2, <1>3, <1>4, AbortKeeps

-------------------------------------------------------------------------------
(* The calls' last steps, and removal.                                     *)

LEMMA NoWriteFails ==
    ASSUME InTurn, NEW r \in Request, WriteFails(r)
    PROVE  FALSE
  BY DEF InTurn, WriteFails, Fault

LEMMA UpsertStep ==
    ASSUME InTurn, SerialInv, TypeInv, NEW r \in Request, Upsert(r)
    PROVE  /\ SerialInv'
           /\ req[r].op # "setPaths"
                 => rec'[req[r].c] = req[r].draft
                    /\ podman'[req[r].c] = Started(req[r].draft, req[r].draft.token)
           /\ req[r].draft # None
           /\ \A d \in Container : rec'[d] \in {rec[d], req[r].draft}
<1>0. PICK c, draft : c = req[r].c /\ draft = req[r].draft
  OBVIOUS
<1>1. /\ InFlight(r) /\ Knows(req[r]) /\ req[r].pc = "upsert" /\ c \in Container /\ draft \in Record
      /\ ~req[r].restoring
  BY <1>0 DEF Upsert, InFlight, SerialInv, TypeInv, ShapedCall, Knows, Restoring
<1>2. /\ rec' = Upserted(r) /\ stored' = stored \cup {WorkspaceOf[c]} /\ Return(r, "ok")
      /\ podman' = podman
  BY <1>0, NoWriteFails DEF Upsert
<1>3. WorkspaceOf[c] \in stored
  BY <1>0, <1>1 DEF SerialInv, RecordsListed, Knows, Phased, KnowsStore
<1>4. rec'[c] = draft /\ \A d \in Container : d # c => rec'[d] = rec[d]
  BY <1>0, <1>1, <1>2, <1>3 DEF Upserted
<1>5. RecordsListed'
  BY <1>2, <1>4 DEF SerialInv, RecordsListed
<1>6. \A d \in Container : d # c /\ Vouched(d) => Vouched(d)'
  BY <1>2, <1>4, StillVouched
<1> /\ req[r].draft # None
    /\ \A d \in Container : rec'[d] \in {rec[d], req[r].draft}
  BY <1>0, <1>1, <1>4, NoneAssumption DEF Record
<1>7. CASE req[r].op = "setPaths"
  <2>1. ~Replacing(req[r]) /\ rec'[c] = rec[c]
    BY <1>0, <1>1, <1>4, <1>7 DEF Replacing, Knows, KnowsStore
  <2>2. Vouched(c) => Vouched(c)'
    BY <1>1, <1>2, <2>1, StillVouched
  <2> QED BY <1>0, <1>1, <1>2, <1>5, <1>6, <1>7, <2>1, <2>2, TurnEnds DEF TypeInv
<1>8. CASE req[r].op # "setPaths"
  <2>1. podman'[c] = Started(draft, draft.token)
    BY <1>0, <1>1, <1>2, <1>8 DEF Knows, KnowsPodman
  <2>2. Vouched(c)'
    BY <1>4, <2>1 DEF Vouched, Started
  <2>3. SerialInv'
    BY <1>0, <1>1, <1>2, <1>5, <1>6, <2>2, TurnEnds DEF TypeInv
  <2> QED BY <1>0, <1>4, <2>1, <2>3
<1> QED BY <1>7, <1>8

LEMMA ReplaceWorkspaceStep ==
    ASSUME InTurn, SerialInv, TypeInv, NEW r \in Request, ReplaceWorkspace(r)
    PROVE  /\ SerialInv'
           /\ rec'[req[r].c] = req[r].draft
           /\ podman'[req[r].c] = Started(req[r].draft, req[r].draft.token)
<1>0. PICK c, draft : c = req[r].c /\ draft = req[r].draft
  OBVIOUS
<1>1. /\ InFlight(r) /\ Knows(req[r]) /\ req[r].pc = "replace" /\ c \in Container /\ draft \in Record
      /\ req[r].op = "createWorkspace"
  BY <1>0 DEF ReplaceWorkspace, InFlight, SerialInv, TypeInv, ShapedCall, Knows, Phased
<1>2. /\ rec' = [d \in Container |-> IF d = c THEN draft
                                     ELSE IF WorkspaceOf[d] = WorkspaceOf[c] THEN None ELSE rec[d]]
      /\ stored' = stored \cup {WorkspaceOf[c]} /\ Return(r, "ok") /\ podman' = podman
  BY <1>0, NoWriteFails DEF ReplaceWorkspace
<1>3. rec'[c] = draft /\ \A d \in Container : d # c => rec'[d] \in {rec[d], None}
  BY <1>1, <1>2
<1>4. RecordsListed'
  BY <1>2, <1>3 DEF SerialInv, RecordsListed
<1>5. \A d \in Container : d # c /\ Vouched(d) => Vouched(d)'
  BY <1>2, <1>3, StillVouched
<1>6. podman'[c] = Started(draft, draft.token)
  BY <1>0, <1>1, <1>2 DEF Knows, KnowsPodman
<1>7. Vouched(c)'
  BY <1>3, <1>6 DEF Vouched, Started
<1>8. SerialInv'
  BY <1>0, <1>1, <1>2, <1>4, <1>5, <1>7, TurnEnds DEF TypeInv
<1> QED BY <1>0, <1>3, <1>6, <1>8

\* A removal: records and containers go, and those that stay do not change.
OnlyRemoves ==
    \A d \in Container :
        /\ rec'[d] \in {rec[d], None}
        /\ \/ podman'[d] \in {podman[d], None}
           \/ /\ podman[d] # None
              /\ podman'[d].mounts = podman[d].mounts /\ podman'[d].token = podman[d].token

LEMMA RemovalGoesOn ==
    ASSUME SerialInv, TypeInv, NEW r \in Request, InFlight(r), NEW pc, Goto(r, pc),
           req[r].op \in {"removeContainer", "removeWorkspace"},
           Phased([op |-> req[r].op, pc |-> pc]),
           OnlyRemoves, RecordsListed', KnowsPodman(req[r])'
    PROVE  SerialInv'
<1>1. /\ OthersStay(r) /\ Carried(req[r], req'[r]) /\ req'[r].pc = pc
  BY GotoFields DEF TypeInv
<1>2. /\ Knows(req[r]) /\ ~Replacing(req[r]) /\ ~req[r].unrestored /\ ~req[r].restoring
  BY DEF SerialInv, InFlight, Knows, Phased, Restoring, Replacing
<1>3. InFlight(r)' /\ KnowsStore(req[r])' /\ Phased(req'[r]) /\ Restoring(req'[r])
  BY <1>1, <1>2 DEF InFlight, KnowsStore, Phased, Carried, Restoring
<1>4. Knows(req[r])'
  BY <1>1, <1>2, <1>3 DEF Knows, Carried
<1>5. \A d \in Container : Vouched(d) => Vouched(d)'
  BY StillVouched DEF OnlyRemoves
<1>6. Vouching'
  BY <1>1, <1>2, <1>5, VouchedAgain DEF Carried
<1> QED BY <1>1, <1>2, <1>3, <1>4, <1>6, TurnGoesOn DEF Carried

LEMMA RemovalEnds ==
    ASSUME SerialInv, TypeInv, NEW r \in Request, InFlight(r), NEW outcome, Return(r, outcome),
           req[r].op \in {"removeContainer", "removeWorkspace", "reconcile"},
           OnlyRemoves, RecordsListed'
    PROVE  SerialInv'
<1>1. ~Replacing(req[r])
  BY DEF SerialInv, Knows, Phased, Restoring, Replacing
<1>2. \A d \in Container : Vouched(d) => Vouched(d)'
  BY StillVouched DEF OnlyRemoves
<1> QED BY <1>1, <1>2, TurnEnds DEF TypeInv

LEMMA RemovePodmanStep ==
    ASSUME SerialInv, TypeInv, NEW r \in Request, RemovePodman(r)
    PROVE  SerialInv' /\ rec' = rec
<1>0. PICK c : c = req[r].c
  OBVIOUS
<1>1. /\ InFlight(r) /\ req[r].pc = "removePodman" /\ c \in Container /\ req[r].op = "removeContainer"
  BY <1>0 DEF RemovePodman, InFlight, SerialInv, TypeInv, ShapedCall, Knows, Phased
<1>2. UNCHANGED <<stored, rec>> /\ TypeOK
  BY DEF RemovePodman, TypeInv
<1>3. RecordsListed'
  BY <1>2 DEF SerialInv, RecordsListed
<1>4. CASE /\ Goto(r, IF req[r].draft = None THEN "podCheck" ELSE "dropRecord")
           /\ podman' = [podman EXCEPT ![c] = None]
  <2>1. PICK pc \in {"podCheck", "dropRecord"} : Goto(r, pc)
    BY <1>4
  <2>2. OnlyRemoves /\ podman'[c] = None
    BY <1>1, <1>2, <1>4 DEF OnlyRemoves, TypeOK
  <2>3. req'[r].pc = pc /\ req'[r].c = c
    BY <1>0, <1>2, <2>1, GotoFields DEF Carried
  <2>4. KnowsPodman(req[r])'
    BY <2>2, <2>3 DEF KnowsPodman
  <2>5. Phased([op |-> req[r].op, pc |-> pc])
    BY <1>1, <2>1 DEF Phased
  <2> QED BY <1>1, <1>2, <1>3, <2>1, <2>2, <2>4, <2>5, RemovalGoesOn
<1>5. CASE /\ podman[c] # None /\ podman' = [podman EXCEPT ![c].running = FALSE] /\ Return(r, "error")
  <2>1. OnlyRemoves
    BY <1>1, <1>2, <1>5 DEF OnlyRemoves, TypeOK, PodmanContainer
  <2> QED BY <1>1, <1>2, <1>3, <1>5, <2>1, RemovalEnds
<1> QED BY <1>0, <1>4, <1>5 DEF RemovePodman

LEMMA DropRecordStep ==
    ASSUME InTurn, SerialInv, TypeInv, NEW r \in Request, DropRecord(r)
    PROVE  SerialInv' /\ \A d \in Container : rec'[d] = rec[d] \/ podman'[d] = None
<1>0. PICK c : c = req[r].c
  OBVIOUS
<1>1. /\ InFlight(r) /\ Knows(req[r]) /\ req[r].pc = "dropRecord" /\ c \in Container
      /\ req[r].op = "removeContainer"
  BY <1>0 DEF DropRecord, InFlight, SerialInv, TypeInv, ShapedCall, Knows, Phased
<1>2. rec' = [rec EXCEPT ![c] = None] /\ Goto(r, "podCheck") /\ UNCHANGED <<stored, podman>>
  BY <1>0, NoWriteFails DEF DropRecord
<1>3. OnlyRemoves /\ RecordsListed' /\ \A d \in Container : d # c => rec'[d] = rec[d]
  BY <1>1, <1>2 DEF OnlyRemoves, RecordsListed, SerialInv, TypeInv, TypeOK
<1>4. req'[r].pc = "podCheck"
  BY <1>2, GotoFields DEF TypeInv
<1>5. KnowsPodman(req[r])' /\ Phased([op |-> req[r].op, pc |-> "podCheck"])
  BY <1>1, <1>4 DEF KnowsPodman, Phased
<1>6. SerialInv'
  BY <1>1, <1>2, <1>3, <1>5, RemovalGoesOn
<1>7. podman'[c] = None
  BY <1>0, <1>1, <1>2 DEF Knows, KnowsPodman
<1> QED BY <1>3, <1>6, <1>7

LEMMA PodStep ==
    ASSUME SerialInv, TypeInv, NEW r \in Request, PodCheck(r) \/ PodRemove(r) \/ WorkspacePod(r)
    PROVE  SerialInv' /\ rec' = rec
<1>0. PICK c : c = req[r].c
  OBVIOUS
<1>1. /\ InFlight(r) /\ c \in Container
      /\ PodCheck(r) \/ PodRemove(r) => req[r].op = "removeContainer"
      /\ WorkspacePod(r) => req[r].op = "removeWorkspace"
  BY <1>0 DEF PodCheck, PodRemove, WorkspacePod, InFlight, SerialInv, TypeInv, ShapedCall, Knows, Phased
<1>2. UNCHANGED <<stored, rec>> /\ TypeOK /\ podman' \in {podman, PodRemoved(WorkspaceOf[c])}
  BY <1>0 DEF PodCheck, PodRemove, WorkspacePod, TypeInv
<1>3. OnlyRemoves /\ RecordsListed'
  BY <1>2 DEF OnlyRemoves, PodRemoved, SerialInv, RecordsListed, TypeOK
<1>4. ASSUME NEW outcome, Return(r, outcome) PROVE SerialInv'
  BY <1>1, <1>3, <1>4, RemovalEnds
<1>5. CASE PodCheck(r) /\ Goto(r, "podRemove")
  <2>1. req'[r].pc = "podRemove"
    BY <1>2, <1>5, GotoFields
  <2>2. KnowsPodman(req[r])' /\ Phased([op |-> req[r].op, pc |-> "podRemove"])
    BY <1>1, <1>5, <2>1 DEF KnowsPodman, Phased
  <2> QED BY <1>1, <1>2, <1>3, <1>5, <2>2, RemovalGoesOn
<1>6. CASE WorkspacePod(r) /\ Goto(r, "dropWorkspace") /\ podman' = PodRemoved(WorkspaceOf[c])
  <2>1. req'[r].pc = "dropWorkspace" /\ req'[r].c = c
    BY <1>0, <1>2, <1>6, GotoFields DEF Carried
  <2>2. KnowsPodman(req[r])' /\ Phased([op |-> req[r].op, pc |-> "dropWorkspace"])
    BY <1>1, <1>6, <2>1 DEF KnowsPodman, Phased, InWorkspace, PodRemoved
  <2> QED BY <1>1, <1>2, <1>3, <1>6, <2>2, RemovalGoesOn
<1> QED BY <1>0, <1>2, <1>4, <1>5, <1>6 DEF PodCheck, PodRemove, WorkspacePod

LEMMA DropWorkspaceStep ==
    ASSUME InTurn, SerialInv, TypeInv, NEW r \in Request, DropWorkspace(r)
    PROVE  SerialInv' /\ \A d \in Container : rec'[d] = rec[d] \/ podman'[d] = None
<1>0. PICK w : w = WorkspaceOf[req[r].c]
  OBVIOUS
<1>1. InFlight(r) /\ Knows(req[r]) /\ req[r].pc = "dropWorkspace" /\ req[r].op = "removeWorkspace"
  BY DEF DropWorkspace, InFlight, SerialInv, Knows, Phased
<1>2. /\ rec' = [d \in Container |-> IF WorkspaceOf[d] = w THEN None ELSE rec[d]]
      /\ stored' = stored \ {w} /\ Return(r, "ok") /\ podman' = podman
  BY <1>0, NoWriteFails DEF DropWorkspace
<1>3. OnlyRemoves /\ RecordsListed'
  BY <1>2 DEF OnlyRemoves, RecordsListed, SerialInv
<1>4. SerialInv'
  BY <1>1, <1>2, <1>3, RemovalEnds
<1>5. \A d \in Container : WorkspaceOf[d] = w => podman'[d] = None
  BY <1>0, <1>1, <1>2 DEF Knows, KnowsPodman, InWorkspace
<1> QED BY <1>2, <1>4, <1>5

LEMMA ApplyStep ==
    ASSUME InTurn, SerialInv, TypeInv, NEW r \in Request, Apply(r)
    PROVE  SerialInv' /\ \A d \in Container : rec'[d] = rec[d] \/ podman'[d] = None
<1>1. InFlight(r) /\ Knows(req[r]) /\ req[r].pc = "apply" /\ req[r].op = "reconcile"
  BY DEF Apply, InFlight, SerialInv, Knows, Phased
<1>2. rec' = Kept(req[r].gone) /\ stored' = Inhabited(rec') /\ Return(r, "ok") /\ podman' = podman
  BY NoWriteFails DEF Apply
<1>3. \A d \in Container : rec'[d] = IF d \in req[r].gone THEN None ELSE rec[d]
  BY <1>2 DEF Kept
<1>4. OnlyRemoves
  BY <1>2, <1>3 DEF OnlyRemoves
<1>5. RecordsListed'
  BY <1>2, <1>3 DEF RecordsListed, SerialInv, Inhabited, InWorkspace
<1>6. SerialInv'
  BY <1>1, <1>2, <1>4, <1>5, RemovalEnds
<1>7. \A d \in Container : d \in req[r].gone => podman'[d] = None
  BY <1>1, <1>2 DEF Knows, KnowsPodman
<1> QED BY <1>3, <1>6, <1>7

-------------------------------------------------------------------------------
(* Calls, and what happens outside.                                        *)

LEMMA ReceivedFields ==
    ASSUME TypeOK, NEW r \in Request, NEW op, NEW c, NEW pc, NEW draft, NEW snap,
           req' = [req EXCEPT ![r] = Received(op, c, pc, draft, snap)]
    PROVE  /\ OthersStay(r)
           /\ req'[r].op = op /\ req'[r].c = c /\ req'[r].pc = pc /\ req'[r].draft = draft
           /\ req'[r].snap = snap /\ req'[r].outcome = "none"
           /\ ~req'[r].had /\ ~req'[r].restoring /\ ~req'[r].unrestored
<1>1. req'[r] = Received(op, c, pc, draft, snap) /\ OthersStay(r)
  BY DEF TypeOK, OthersStay
<1>2. LET q == Received(op, c, pc, draft, snap) IN
      /\ q.op = op /\ q.c = c /\ q.pc = pc /\ q.draft = draft
      /\ q.snap = snap /\ q.outcome = "none"
      /\ ~q.had /\ ~q.restoring /\ ~q.unrestored
  BY DEF Received, Idle
<1> QED BY <1>1, <1>2

\* A call is received while none is under way.
LEMMA TurnStarts ==
    ASSUME InTurn, SerialInv, NEW r \in Request, NEW op, MayCall(r, op), OthersStay(r),
           UNCHANGED <<stored, rec, podman>>, Knows(req[r])', ~req'[r].unrestored
    PROVE  SerialInv'
<1>1. Quiet /\ req[r].pc = "idle" /\ ~req[r].unrestored
  BY DEF InTurn, MayCall, SerialInv
<1>2. \A q \in Request \ {r} : ~InFlight(q) /\ ~InFlight(q)'
  BY <1>1 DEF Quiet, InFlight, OthersStay
<1>3. OneCall'
  BY <1>2 DEF OneCall
<1>4. RecordsListed'
  BY DEF SerialInv, RecordsListed
<1>5. \A q \in Request : req'[q].pc # "done" => ~req'[q].unrestored
  BY DEF SerialInv, OthersStay
<1>6. \A d \in Container : Vouched(d)' \/ Unrestored(d)'
  <2>1. \A d \in Container : Vouched(d) \/ Unrestored(d)
    BY <1>1 DEF SerialInv, Vouching, Quiet
  <2>2. \A d \in Container : Unrestored(d) => Unrestored(d)'
    BY <1>1 DEF Unrestored, OthersStay
  <2>3. \A d \in Container : Vouched(d) => Vouched(d)'
    BY DEF Vouched, Matches
  <2> QED BY <2>1, <2>2, <2>3
<1>7. \A q \in Request : InFlight(q)' => Knows(req[q])'
  BY <1>2
<1> QED BY <1>3, <1>4, <1>5, <1>6, <1>7 DEF SerialInv, Vouching

LEMMA CallStep ==
    ASSUME InTurn, SerialInv, TypeInv, NEW r \in Request, Calls(r)
    PROVE  SerialInv'
\* What a received call must know of the store.
<1>1. ASSUME NEW op, NEW c, NEW pc, NEW draft, NEW snap, MayCall(r, op),
             req' = [req EXCEPT ![r] = Received(op, c, pc, draft, snap)],
             UNCHANGED <<stored, rec, podman>>,
             Phased([op |-> op, pc |-> pc]),
             pc \in {"lockContainer", "lockMounts", "removePodman", "workspacePod", "upsert"},
             pc = "upsert" => op = "setPaths" /\ rec[c] # None /\ draft = rec[c],
             op \in {"mutate", "start", "createWorkspace"} => snap = rec[c],
             op = "mutate" => rec[c] # None,
             op = "start" => WorkspaceOf[c] \in stored,
             op = "ensure" => pc = "lockContainer",
             op = "createWorkspace" => draft.token = None
      PROVE  SerialInv'
  <2>1. /\ OthersStay(r)
        /\ req'[r].op = op /\ req'[r].c = c /\ req'[r].pc = pc /\ req'[r].draft = draft
        /\ req'[r].snap = snap /\ req'[r].outcome = "none"
        /\ ~req'[r].had /\ ~req'[r].restoring /\ ~req'[r].unrestored
    BY <1>1, ReceivedFields DEF TypeInv
  <2>2. Phased(req'[r]) /\ Restoring(req'[r])
    BY <1>1, <2>1 DEF Phased, Restoring
  <2>3. op = "setPaths" => pc = "upsert"
    BY <1>1 DEF Phased
  <2>4. KnowsStore(req[r])'
    BY <1>1, <2>1, <2>3 DEF KnowsStore
  <2>5. KnowsPodman(req[r])'
    BY <1>1, <2>1 DEF KnowsPodman
  <2>6. Knows(req[r])'
    BY <2>1, <2>2, <2>4, <2>5 DEF Knows
  <2> QED BY <1>1, <2>1, <2>6, TurnStarts
<1>2. ASSUME NEW c \in Container, CallEnsure(r, c) PROVE SerialInv'
  BY <1>1, <1>2 DEF CallEnsure, Phased
<1>3. ASSUME NEW c \in Container, CallMutate(r, c) PROVE SerialInv'
  <2>1. PICK draft : /\ MayCall(r, "mutate") /\ rec[c] # None
                     /\ req' = [req EXCEPT ![r] = Received("mutate", c, "lockMounts", draft, rec[c])]
                     /\ UNCHANGED <<stored, rec, podman>>
    BY <1>3 DEF CallMutate
  <2> QED BY <1>1, <2>1 DEF Phased
<1>4. ASSUME NEW c \in Container, CallStart(r, c) PROVE SerialInv'
  <2>1. PICK draft : /\ MayCall(r, "start") /\ WorkspaceOf[c] \in stored
                     /\ req' = [req EXCEPT ![r] = Received("start", c, "lockMounts", draft, rec[c])]
                     /\ UNCHANGED <<stored, rec, podman>>
    BY <1>4 DEF CallStart
  <2> QED BY <1>1, <2>1 DEF Phased
<1>5. ASSUME NEW w \in Workspace, CallCreateWorkspace(r, w) PROVE SerialInv'
  <2>1. PICK c : c = DefaultOf[w]
    OBVIOUS
  <2>2. PICK m \in Mounts :
          req' = [req EXCEPT ![r] =
                    Received("createWorkspace", c, "lockMounts",
                             [mounts |-> WithProject(IF rec[c] = None THEN m ELSE rec[c].mounts, w),
                              token |-> None],
                             rec[c])]
    BY <1>5, <2>1 DEF CallCreateWorkspace
  <2>3. PICK draft : draft = [mounts |-> WithProject(IF rec[c] = None THEN m ELSE rec[c].mounts, w),
                              token |-> None]
    OBVIOUS
  <2>4. /\ MayCall(r, "createWorkspace")
        /\ req' = [req EXCEPT ![r] = Received("createWorkspace", c, "lockMounts", draft, rec[c])]
        /\ UNCHANGED <<stored, rec, podman>>
    BY <1>5, <2>2, <2>3 DEF CallCreateWorkspace
  <2>5. draft.token = None
    BY <2>3
  <2> QED BY <1>1, <2>4, <2>5 DEF Phased
<1>6. ASSUME NEW c \in Container, CallRemoveContainer(r, c) PROVE SerialInv'
  BY <1>1, <1>6 DEF CallRemoveContainer, Phased
<1>7. ASSUME NEW w \in Workspace, CallRemoveWorkspace(r, w) PROVE SerialInv'
  BY <1>1, <1>7 DEF CallRemoveWorkspace, Phased
<1>8. ASSUME NEW c \in Container, CallSetPaths(r, c) PROVE SerialInv'
  BY <1>1, <1>8 DEF CallSetPaths, Phased
<1>9. CASE CallReconcile(r)
  <2>1. PICK gone \in SUBSET {c \in Container : rec[c] # None /\ podman[c] = None} :
          req' = [req EXCEPT ![r] = [Idle EXCEPT !.pc = "apply", !.op = "reconcile",
                                                 !.seen = rec, !.gone = gone]]
    BY <1>9 DEF CallReconcile
  <2>2. UNCHANGED <<stored, rec, podman>> /\ MayCall(r, "reconcile")
    BY <1>9 DEF CallReconcile
  <2>3. /\ OthersStay(r)
        /\ req'[r] = [Idle EXCEPT !.pc = "apply", !.op = "reconcile", !.seen = rec, !.gone = gone]
    BY <2>1 DEF TypeInv, TypeOK, OthersStay
  <2>4. /\ req'[r].pc = "apply" /\ req'[r].op = "reconcile" /\ req'[r].gone = gone
        /\ req'[r].outcome = "none" /\ ~req'[r].restoring /\ ~req'[r].unrestored
    BY <2>3 DEF Idle
  <2>5. \A d \in gone : podman'[d] = None
    BY <2>1, <2>2
  <2>6. KnowsPodman(req[r])' /\ KnowsStore(req[r])' /\ Phased(req'[r]) /\ Restoring(req'[r])
    BY <2>4, <2>5 DEF KnowsPodman, KnowsStore, Phased, Restoring
  <2>7. Knows(req[r])'
    BY <2>4, <2>6 DEF Knows
  <2> QED BY <2>2, <2>3, <2>4, <2>7, TurnStarts
<1> QED BY <1>2, <1>3, <1>4, <1>5, <1>6, <1>7, <1>8, <1>9 DEF Calls

LEMMA OutsideStep ==
    ASSUME InTurn, SerialInv, TypeInv, NEW c \in Container, DeletedOutside(c) \/ RunStateChanges(c)
    PROVE  SerialInv' /\ Quiet /\ rec' = rec
<1>1. Quiet /\ UNCHANGED <<stored, rec, req>>
  BY DEF InTurn, Outside, DeletedOutside, RunStateChanges
<1>2. \A d \in Container :
        \/ podman'[d] \in {podman[d], None}
        \/ /\ podman[d] # None
           /\ podman'[d].mounts = podman[d].mounts /\ podman'[d].token = podman[d].token
  BY DEF DeletedOutside, RunStateChanges, TypeInv, TypeOK, PodmanContainer
<1>3. \A d \in Container : Vouched(d) => Vouched(d)'
  BY <1>1, <1>2, StillVouched
<1>4. \A d \in Container : Vouched(d) \/ Unrestored(d)
  BY <1>1 DEF Quiet, SerialInv, Vouching
<1>5. Vouching'
  BY <1>1, <1>3, <1>4 DEF Vouching, Unrestored
<1>6. (OneCall /\ RecordsListed)' /\ \A r \in Request : ~InFlight(r)'
  BY <1>1 DEF SerialInv, OneCall, RecordsListed, InFlight, Quiet
<1>7. \A r \in Request : req'[r].pc # "done" => ~req'[r].unrestored
  BY <1>1 DEF SerialInv
<1> QED BY <1>1, <1>5, <1>6, <1>7 DEF SerialInv

LEMMA SerialInit == Init => SerialInv
<1> SUFFICES ASSUME Init PROVE SerialInv
  OBVIOUS
<1>1. \A r \in Request : req[r] = Idle
  BY DEF Init
<1>2. Idle.pc = "idle" /\ ~Idle.unrestored
  BY DEF Idle
<1>3. \A r \in Request : ~InFlight(r) /\ ~req[r].unrestored
  BY <1>1, <1>2 DEF InFlight
<1>4. RecordsListed
  BY DEF Init, RecordsListed
<1>5. ASSUME NEW c \in Container PROVE Vouched(c)
  <2>1. PICK state : podman = [d \in Container |->
                        IF rec[d] = None \/ state[d] = "missing" THEN None
                        ELSE [Started(rec[d], rec[d].token) EXCEPT !.running = state[d] = "running"]]
    BY DEF Init
  <2>2. CASE podman[c] = None
    BY <2>2 DEF Vouched, Matches
  <2>3. CASE podman[c] # None
    <3>1. PICK running : running = (state[c] = "running")
      OBVIOUS
    <3>2. podman[c] = [Started(rec[c], rec[c].token) EXCEPT !.running = running]
      BY <2>1, <2>3, <3>1
    <3>3. podman[c].mounts = rec[c].mounts
      BY <3>2 DEF Started
    <3> QED BY <3>3 DEF Vouched
  <2> QED BY <2>2, <2>3
<1> QED BY <1>3, <1>4, <1>5 DEF SerialInv, OneCall, Vouching

LEMMA StepKeepsSerialInv ==
    ASSUME InTurn, SerialInv, TypeInv, NEW r \in Request, Steps(r)
    PROVE  SerialInv'
  BY LockContainerStep, InspectStep, RecheckStep, LockMountsStep, StopOldStep, RemoveOldStep,
     CreateNewStep, CleanupStep, UpsertStep, ReplaceWorkspaceStep, RemovePodmanStep, DropRecordStep,
     PodStep, DropWorkspaceStep, ApplyStep DEF Steps

LEMMA NoRestart == ASSUME InTurn, Restart PROVE FALSE
  BY DEF InTurn, Restart, Fault

LEMMA SerialSteps ==
    ASSUME InTurn, SerialInv, TypeInv, [Next]_vars
    PROVE  SerialInv'
<1>1. CASE UNCHANGED vars
  <2>1. UNCHANGED <<stored, rec, podman, req>>
    BY <1>1 DEF vars
  <2> QED BY <2>1 DEF SerialInv, OneCall, RecordsListed, Vouching, Vouched, Matches, Unrestored, InFlight,
             Knows, KnowsStore, KnowsPodman, Usable, InWorkspace, Replacing
<1>2. CASE Next
  BY <1>2, StepKeepsSerialInv, CallStep, OutsideStep, NoRestart DEF Next
<1> QED BY <1>1, <1>2

\* The serial invariant, from every settled state on.
LEMMA SerialHolds == InTurn => (Spec => [](SerialInv /\ TypeInv))
<1> SUFFICES ASSUME InTurn PROVE Spec => [](SerialInv /\ TypeInv)
  OBVIOUS
<1>1. Init => SerialInv /\ TypeInv
  BY SerialInit, InitTyped
<1>2. SerialInv /\ TypeInv /\ [Next]_vars => (SerialInv /\ TypeInv)'
  BY SerialSteps, NextKeepsTypes
<1> QED BY <1>1, <1>2, PTL DEF Spec

-------------------------------------------------------------------------------
(* What a serial call leaves when it returns.                              *)

\* EnsureContainer may trust the token: between calls a container that carries the
\* recorded token has the recorded mounts, whatever failed and was rolled back by
\* restoreSnapshot, unless that rollback failed itself.
THEOREM TokensVouch == InTurn => (Spec => []TokenVouchesForMounts)
<1> SUFFICES ASSUME InTurn PROVE Spec => []TokenVouchesForMounts
  OBVIOUS
<1>1. SerialInv => TokenVouchesForMounts
  BY DEF SerialInv, Vouching, TokenVouchesForMounts, Quiet, Vouched
<1> QED BY <1>1, SerialHolds, PTL

\* How a step of a call can end it.
Ends(r) ==
    \/ req'[r].outcome = "none"
    \/ req'[r].outcome = "error" /\ \E refused \in BOOLEAN : Abort(r, refused)
    \/ req'[r].outcome = "error" /\ req[r].op \notin {"mutate", "start"}
    \/ req'[r].outcome = "error" /\ CreateNew(r) /\ req[r].restoring /\ req[r].pc = "create"
    \/ Recheck(r) /\ Return(r, "ok") /\ req[r].pc = "recheck"
    \/ Upsert(r) \/ ReplaceWorkspace(r)
    \/ req[r].op \in {"removeContainer", "removeWorkspace", "reconcile"}

LEMMA AbortEnds ==
    ASSUME TypeOK, NEW r \in Request, NEW refused \in BOOLEAN, Abort(r, refused),
           req[r].outcome = "none"
    PROVE  Ends(r)
  BY AbortFields DEF Ends

\* An error ends a call through Abort, or after the restoring create; only the
\* recheck and the store updates end one with success.
LEMMA StepEnds ==
    ASSUME InTurn, SerialInv, TypeInv, NEW r \in Request, Steps(r)
    PROVE  Ends(r) /\ InFlight(r)
<1>1. InFlight(r)
  BY DEF Steps, LockContainer, Inspect, Recheck, LockMounts, StopOld, RemoveOld, CreateNew, Cleanup,
         Upsert, ReplaceWorkspace, RemovePodman, DropRecord, PodCheck, PodRemove, WorkspacePod,
         DropWorkspace, Apply, InFlight
<1>2. Knows(req[r]) /\ req[r].outcome = "none" /\ TypeOK /\ req[r] \in Process
  BY <1>1 DEF SerialInv, Knows, TypeInv, TypeOK
<1>3. \A pc : Goto(r, pc) => Ends(r)
  BY <1>2, GotoFields DEF Ends, Carried
<1>4. \A refused \in BOOLEAN : Abort(r, refused) => Ends(r)
  BY <1>2, AbortEnds
<1>5. Return(r, "error") => req'[r].outcome = "error"
  BY <1>2, ReturnFields
<1>6. CASE LockContainer(r)
  <2>1. req[r].op = "ensure"
    BY <1>2, <1>6 DEF LockContainer, Knows, Phased
  <2>2. CASE rec[req[r].c] = None
    <3>1. req'[r] = Ended(req[r], "error")
      BY <1>2, <1>6, <2>2 DEF LockContainer, TypeOK
    <3>2. req'[r].outcome = "error"
      BY <3>1, EndedFields
    <3> QED BY <1>1, <2>1, <3>2 DEF Ends
  <2>3. CASE rec[req[r].c] # None
    <3>1. req'[r] = [req[r] EXCEPT !.pc = "inspect", !.draft = rec[req[r].c], !.seen = Siblings(req[r].c)]
      BY <1>2, <1>6, <2>3 DEF LockContainer, TypeOK
    <3>2. req'[r].outcome = req[r].outcome
      BY <1>2, <3>1 DEF Process
    <3> QED BY <1>1, <1>2, <3>2 DEF Ends
  <2> QED BY <1>1, <2>2, <2>3
<1>7. CASE Inspect(r)
  <2>1. req[r].op = "ensure"
    BY <1>2, <1>7 DEF Inspect, Knows, Phased
  <2>2. Return(r, "error") \/ \E pc : Goto(r, pc)
    BY <1>7 DEF Inspect
  <2> QED BY <1>1, <1>3, <1>5, <2>1, <2>2 DEF Ends
<1>8. CASE Recheck(r)
  BY <1>1, <1>4, <1>8 DEF Recheck, Ends
<1>9. CASE LockMounts(r)
  <2>1. CASE \E refused \in BOOLEAN : Abort(r, refused)
    BY <1>1, <1>4, <2>1
  <2>2. CASE Return(r, "error") /\ req[r].op = "createWorkspace"
    BY <1>1, <1>5, <2>2 DEF Ends
  <2>3. CASE req' = [req EXCEPT ![r].pc = "stop", ![r].had = @ \/ podman[req[r].c] # None]
    <3>1. req'[r].outcome = req[r].outcome
      BY <1>2, <2>3 DEF TypeOK, Process
    <3> QED BY <1>1, <1>2, <3>1 DEF Ends
  <2> QED BY <1>9, <2>1, <2>2, <2>3 DEF LockMounts
<1>10. CASE StopOld(r) \/ RemoveOld(r) \/ Cleanup(r)
  <2>1. \/ \E pc : Goto(r, pc)
        \/ \E refused \in BOOLEAN : Abort(r, refused)
    BY <1>10 DEF StopOld, RemoveOld, Cleanup
  <2> QED BY <1>1, <1>3, <1>4, <2>1
<1>11. CASE CreateNew(r)
  <2>1. PICK next : next = CASE req[r].restoring -> "restored"
                             [] req[r].op = "createWorkspace" -> "replace"
                             [] OTHER -> "upsert"
    OBVIOUS
  <2>2. next = "restored" => req[r].restoring
    BY <2>1
  <2>3. \/ next = "restored" /\ Return(r, "error")
        \/ \E t \in Token : req' = [req EXCEPT ![r] = [Tokened(req[r], t) EXCEPT !.pc = next]]
        \/ \E pc : Goto(r, pc)
        \/ \E refused \in BOOLEAN : Abort(r, refused)
    BY <1>11, <2>1 DEF CreateNew
  <2>4. ASSUME NEW t \in Token, req' = [req EXCEPT ![r] = [Tokened(req[r], t) EXCEPT !.pc = next]]
        PROVE  Ends(r)
    <3>1. req'[r] = [Tokened(req[r], t) EXCEPT !.pc = next]
      BY <1>2, <2>4 DEF TypeOK
    <3>2. req'[r].outcome = req[r].outcome
      BY <1>2, <3>1 DEF Tokened, Process
    <3> QED BY <1>2, <3>2 DEF Ends
  <2>5. CASE next = "restored" /\ Return(r, "error")
    <3>1. req[r].pc = "create"
      BY <1>11 DEF CreateNew
    <3> QED BY <1>1, <1>5, <1>11, <2>2, <2>5, <3>1 DEF Ends
  <2> QED BY <1>1, <1>3, <1>4, <2>3, <2>4, <2>5
<1>12. CASE Upsert(r) \/ ReplaceWorkspace(r)
  BY <1>1, <1>12 DEF Ends
<1>13. CASE \/ RemovePodman(r) \/ DropRecord(r) \/ PodCheck(r) \/ PodRemove(r) \/ WorkspacePod(r)
            \/ DropWorkspace(r) \/ Apply(r)
  BY <1>1, <1>2, <1>13 DEF RemovePodman, DropRecord, PodCheck, PodRemove, WorkspacePod, DropWorkspace,
                           Apply, Knows, Phased, Ends
<1> QED BY <1>6, <1>7, <1>8, <1>9, <1>10, <1>11, <1>12, <1>13 DEF Steps

\* While a call is under way only its own steps happen.
LEMMA OnlyItsSteps ==
    ASSUME InTurn, SerialInv, TypeInv, [Next]_vars, NEW r \in Request, InFlight(r)
    PROVE  UNCHANGED <<stored, rec, podman, req>> \/ Steps(r)
<1>1. \A q \in Request : Steps(q) => q = r
  BY StepEnds DEF SerialInv, OneCall
<1>2. ASSUME NEW q \in Request, Calls(q) PROVE FALSE
  <2>1. \E op : MayCall(q, op)
    BY <1>2 DEF Calls, CallEnsure, CallMutate, CallStart, CallRemoveContainer, CallSetPaths,
                CallCreateWorkspace, CallRemoveWorkspace, CallReconcile
  <2> QED BY <2>1 DEF MayCall, InTurn, Quiet
<1>3. \A c \in Container : ~(DeletedOutside(c) \/ RunStateChanges(c))
  BY DEF DeletedOutside, RunStateChanges, Outside, InTurn, Quiet
<1> QED BY <1>1, <1>2, <1>3, NoRestart DEF Next, vars

LEMMA SuccessStep ==
    ASSUME InTurn, SerialInv, TypeInv, [Next]_vars, NEW r \in Request, InFlight(r),
           req'[r].outcome = "ok",
           \/ req[r].op \in {"mutate", "start", "createWorkspace"}
           \/ req[r].op = "ensure" /\ ~Unrestored(req[r].c)
    PROVE  rec'[req[r].c] # None /\ podman'[req[r].c] = Started(rec'[req[r].c], rec'[req[r].c].token)
<1>1. Knows(req[r]) /\ req[r].outcome = "none"
  BY DEF SerialInv, Knows
<1>2. Steps(r)
  BY <1>1, OnlyItsSteps
<1>3. CASE Recheck(r) /\ req[r].pc = "recheck"
  <2>1. PICK c : c = req[r].c
    OBVIOUS
  <2>2. req[r].op = "ensure" /\ c \in Container /\ UNCHANGED <<rec, podman>>
    BY <1>1, <1>3, <2>1 DEF Knows, Phased, TypeInv, ShapedCall, Recheck
  <2>3. rec[c] # None /\ Usable(c, rec[c])
    BY <1>1, <1>3, <2>1, <2>2 DEF Knows, KnowsStore, KnowsPodman
  <2>4. ~Replacing(req[r])
    BY <1>1, <1>3, <2>2 DEF Replacing, Knows, Restoring
  <2>5. \A q \in Request : InFlight(q) => q = r
    BY DEF SerialInv, OneCall
  <2>6. Vouched(c) \/ Unrestored(c)
    BY <2>2, <2>4, <2>5 DEF SerialInv, Vouching
  <2>7. Vouched(c)
    BY <2>1, <2>2, <2>6
  <2>8. /\ podman[c].mounts = rec[c].mounts /\ podman[c].token = rec[c].token
        /\ podman[c].running /\ podman[c].current /\ podman[c] \in PodmanContainer
    BY <2>2, <2>3, <2>7 DEF Vouched, Usable, Matches, TypeInv, TypeOK
  <2>9. podman[c] = Started(rec[c], rec[c].token)
    BY <2>8 DEF PodmanContainer, Started
  <2> QED BY <2>1, <2>2, <2>3, <2>9
<1>4. CASE Upsert(r)
  <2>1. req[r].op # "setPaths"
    OBVIOUS
  <2> QED BY <1>4, <2>1, UpsertStep
<1>5. CASE ReplaceWorkspace(r)
  <2>1. req[r].draft # None
    BY <1>5, NoneAssumption DEF ReplaceWorkspace, TypeInv, ShapedCall, Record
  <2> QED BY <1>5, <2>1, ReplaceWorkspaceStep
<1> QED BY <1>2, <1>3, <1>4, <1>5, StepEnds DEF Ends

\* EnsureContainer, recreateOrRestore, StartContainer and CreateWorkspace report
\* success only with podman and the store in agreement: the container runs with
\* the mounts and the token its record has.
THEOREM SuccessIsCoherent == InTurn => (Spec => SuccessMeansCoherent)
<1> SUFFICES ASSUME InTurn PROVE Spec => SuccessMeansCoherent
  OBVIOUS
<1>1. SerialInv /\ TypeInv /\ [Next]_vars =>
        [\A r \in Request :
          LET c == req[r].c IN
          /\ \/ req[r].op \in {"mutate", "start", "createWorkspace"}
             \/ req[r].op = "ensure" /\ ~Unrestored(c)
          /\ InFlight(r)
          /\ req'[r].outcome = "ok"
          => rec'[c] # None /\ podman'[c] = Started(rec'[c], rec'[c].token)]_vars
  BY SuccessStep
<1> QED BY <1>1, SerialHolds, PTL DEF Spec, SuccessMeansCoherent

LEMMA FailureStep ==
    ASSUME InTurn, SerialInv, TypeInv, [Next]_vars, NEW r \in Request, InFlight(r),
           req[r].op \in {"mutate", "start"}, req[r].snap # None, req[r].had,
           req'[r].outcome = "error", ~req'[r].unrestored
    PROVE  /\ podman'[req[r].c] # None /\ rec'[req[r].c] # None
           /\ podman'[req[r].c].token = rec'[req[r].c].token
<1>1. Knows(req[r]) /\ req[r].outcome = "none" /\ TypeOK /\ InFlight(r)
  BY DEF SerialInv, Knows, TypeInv
<1>2. Steps(r)
  BY <1>1, OnlyItsSteps
<1>3. ASSUME NEW refused \in BOOLEAN, Abort(r, refused) PROVE FALSE
  <2>1. ~req[r].restoring /\ ~Restores(req[r])
    BY <1>1, <1>3, AbortFields
  <2>2. req[r].op = "start" /\ req[r].pc = "lockMounts"
    BY <2>1 DEF Restores
  <2> QED BY <1>1, <2>1, <2>2 DEF Knows, KnowsStore
<1>4. CASE CreateNew(r) /\ req[r].restoring /\ req[r].pc = "create"
  <2>1. PICK c, draft : c = req[r].c /\ draft = req[r].draft
    OBVIOUS
  <2>2. c \in Container /\ draft = rec[c] /\ rec[c] # None /\ rec' = rec
    BY <1>1, <1>4, <2>1 DEF TypeInv, ShapedCall, Knows, Restoring, KnowsStore, CreateNew
  <2>3. draft \in Record /\ draft.token # None
    BY <2>2, NoneAssumption DEF TypeInv, TypeOK, Record
  <2>4. \/ podman' = [podman EXCEPT ![c] = Started(draft, draft.token)]
        \/ \E refused \in BOOLEAN : Abort(r, refused)
    BY <1>4, <2>1, <2>3 DEF CreateNew
  <2>5. podman'[c] = Started(draft, draft.token)
    BY <1>1, <1>3, <2>2, <2>4 DEF TypeOK
  <2>6. Started(draft, draft.token) # None
    <3>1. Started(draft, draft.token) \in [mounts : Mounts, token : Token, running : BOOLEAN, current : BOOLEAN]
      BY <2>3 DEF Started, Record
    <3> QED BY <3>1, NoneAssumption
  <2>7. Started(draft, draft.token).token = draft.token
    BY DEF Started
  <2> QED BY <2>1, <2>2, <2>5, <2>6, <2>7
<1>5. ~(Upsert(r) \/ ReplaceWorkspace(r))
  <2>1. ~ \E outcome : outcome # "error" /\ Return(r, outcome)
    BY <1>1, ReturnFields
  <2> QED BY <2>1, NoWriteFails DEF Upsert, ReplaceWorkspace
<1>6. ~Recheck(r)
  BY <1>1 DEF Recheck, Knows, Phased
<1> QED BY <1>2, <1>3, <1>4, <1>5, <1>6, StepEnds DEF Ends

\* recreateOrRestore and StartContainer's restore: a failed mutation or start of a
\* stored container leaves it under its recorded token, unless restoreSnapshot
\* failed as well.
THEOREM FailureKeepsContainer == InTurn => (Spec => FailedMutationKeepsContainer)
<1> SUFFICES ASSUME InTurn PROVE Spec => FailedMutationKeepsContainer
  OBVIOUS
<1>1. SerialInv /\ TypeInv /\ [Next]_vars =>
        [\A r \in Request :
          LET c == req[r].c IN
          /\ req[r].op \in {"mutate", "start"}
          /\ req[r].snap # None
          /\ req[r].had
          /\ InFlight(r)
          /\ req'[r].outcome = "error" /\ ~req'[r].unrestored
          => podman'[c] # None /\ rec'[c] # None /\ podman'[c].token = rec'[c].token]_vars
  BY FailureStep
<1> QED BY <1>1, SerialHolds, PTL DEF Spec, FailedMutationKeepsContainer

LEMMA DropStep ==
    ASSUME InTurn, SerialInv, TypeInv, [Next]_vars, NEW c \in Container,
           rec[c] # None, rec'[c] = None,
           \A r \in Request : req[r].pc # "replace" \/ req'[r] = req[r]
    PROVE  podman'[c] = None
<1>1. ASSUME NEW r \in Request, Steps(r) PROVE podman'[c] = None
  <2>1. CASE \/ LockContainer(r) \/ Inspect(r) \/ Recheck(r) \/ LockMounts(r) \/ StopOld(r)
             \/ RemoveOld(r) \/ CreateNew(r) \/ Cleanup(r)
    BY <2>1 DEF LockContainer, Inspect, Recheck, LockMounts, StopOld, RemoveOld, CreateNew, Cleanup
  <2>2. CASE Upsert(r)
    BY <2>2, UpsertStep
  <2>3. CASE ReplaceWorkspace(r)
    <3>1. Return(r, "ok") /\ req[r].pc = "replace"
      BY <2>3, NoWriteFails DEF ReplaceWorkspace
    <3>2. req'[r].pc = "done"
      BY <3>1, ReturnFields DEF TypeInv
    <3> QED BY <3>1, <3>2
  <2>4. CASE RemovePodman(r) \/ PodCheck(r) \/ PodRemove(r) \/ WorkspacePod(r)
    BY <2>4, RemovePodmanStep, PodStep
  <2>5. CASE DropRecord(r) \/ DropWorkspace(r) \/ Apply(r)
    BY <2>5, DropRecordStep, DropWorkspaceStep, ApplyStep
  <2> QED BY <1>1, <2>1, <2>2, <2>3, <2>4, <2>5 DEF Steps
<1>2. ASSUME NEW r \in Request, Calls(r) PROVE rec' = rec
  BY <1>2 DEF Calls, CallEnsure, CallMutate, CallStart, CallRemoveContainer, CallSetPaths,
              CallCreateWorkspace, CallRemoveWorkspace, CallReconcile
<1>3. ASSUME NEW d \in Container, DeletedOutside(d) \/ RunStateChanges(d) PROVE rec' = rec
  BY <1>3 DEF DeletedOutside, RunStateChanges
<1> QED BY <1>1, <1>2, <1>3, NoRestart DEF Next, vars

\* RemoveContainer, RemoveWorkspace and applyContainerDecisions remove from podman
\* before they drop the record: no container goes on untracked.
THEOREM RecordsOutliveContainers == InTurn => (Spec => TrackedUntilGone)
<1> SUFFICES ASSUME InTurn PROVE Spec => TrackedUntilGone
  OBVIOUS
<1>1. SerialInv /\ TypeInv /\ [Next]_vars =>
        [\A c \in Container :
          /\ rec[c] # None
          /\ rec'[c] = None
          /\ \A r \in Request : req[r].pc # "replace" \/ req'[r] = req[r]
          => podman'[c] = None]_vars
  BY DropStep
<1> QED BY <1>1, SerialHolds, PTL DEF Spec, TrackedUntilGone

-------------------------------------------------------------------------------
(* Ensure hands out no nested container, however calls overlap.  It checks *)
(* the recorded mounts, which are podman's while the container is one of a *)
(* nested pair: making it anew would have ended the nesting.               *)

Loose(c) == \A d \in Container : ~NestedPair(c, d)

\* The pcs at which a call's draft is a record that is stored or checked as it is.
Holding == {"inspect", "recheck", "upsert", "replace"}

\* Every record of c that is stored, was read, or is to be stored has podman's mounts.
Anchored(c) ==
    /\ rec[c] # None => rec[c].mounts = podman[c].mounts
    /\ \A r \in Request : req[r].seen[c] # None => req[r].seen[c].mounts = podman[c].mounts
    /\ \A r \in Request : req[r].c = c /\ req[r].pc \in Holding
                             => req[r].draft.mounts = podman[c].mounts

AnchorInv ==
    /\ \A c \in Container : Loose(c) \/ Anchored(c)
    /\ \A r \in Request, c \in Container :
          req[r].c = c /\ req[r].pc \in {"upsert", "replace"} /\ req[r].op # "setPaths" => Loose(c)

\* What call r has read and what it stores comes from the records there were.
Derived(r) ==
    \A c \in Container :
        /\ req'[r].seen[c] # None => req'[r].seen[c] \in {req[r].seen[c], rec[c]}
        /\ rec'[c] # None => \/ rec'[c] \in {rec[c], req[r].seen[c]}
                             \/ req[r].c = c /\ req[r].pc \in Holding /\ rec'[c] = req[r].draft

\* Nor does it hold another draft than a record it read.
SameDraft(r) ==
    \A c \in Container :
        req'[r].c = c /\ req'[r].pc \in Holding
            => \/ rec[c] # None /\ req'[r].draft = rec[c]
               \/ req[r].c = c /\ req[r].pc \in Holding /\ req'[r].draft = req[r].draft

LEMMA StaysAnchored ==
    ASSUME NEW r \in Request, OthersStay(r), Derived(r), NEW c \in Container, Anchored(c),
           podman'[c].mounts = podman[c].mounts,
           req'[r].c = c /\ req'[r].pc \in Holding
              => \/ rec[c] # None /\ req'[r].draft = rec[c]
                 \/ req[r].c = c /\ req[r].pc \in Holding /\ req'[r].draft = req[r].draft
    PROVE  Anchored(c)'
<1>1. rec'[c] # None => rec'[c].mounts = podman'[c].mounts
  BY DEF Anchored, Derived
<1>2. ASSUME NEW q \in Request PROVE req'[q].seen[c] # None => req'[q].seen[c].mounts = podman'[c].mounts
  <2>1. CASE q = r
    BY <2>1 DEF Anchored, Derived
  <2>2. CASE q # r
    BY <2>2 DEF Anchored, OthersStay
  <2> QED BY <2>1, <2>2
<1>3. ASSUME NEW q \in Request, req'[q].c = c, req'[q].pc \in Holding
      PROVE  req'[q].draft.mounts = podman'[c].mounts
  <2>1. CASE q = r
    BY <1>3, <2>1 DEF Anchored
  <2>2. CASE q # r
    BY <1>3, <2>2 DEF Anchored, OthersStay
  <2> QED BY <2>1, <2>2
<1> QED BY <1>1, <1>2, <1>3 DEF Anchored

LEMMA StaysLoose ==
    ASSUME TypeOK, NestingInv, [Next]_vars, NEW c \in Container, Loose(c)
    PROVE  Loose(c)'
  BY NextNestsNothingNew DEF Loose

\* A step that adds no mounts.
LEMMA AnchorStep ==
    ASSUME TypeInv, NestingInv, AnchorInv, [Next]_vars, NoNewMounts,
           NEW r \in Request, OthersStay(r), Derived(r), SameDraft(r),
           req'[r].pc \in {"upsert", "replace"} => req'[r].op = "setPaths"
    PROVE  AnchorInv'
<1>1. ASSUME NEW c \in Container PROVE Loose(c)' \/ Anchored(c)'
  <2>1. CASE Loose(c)
    BY <2>1, StaysLoose DEF TypeInv
  <2>2. CASE podman'[c] = None
    BY <2>2 DEF Loose, NestedPair
  <2>3. CASE Anchored(c) /\ podman'[c] # None
    <3>1. podman'[c].mounts = podman[c].mounts
      BY <2>3 DEF NoNewMounts
    <3> QED BY <2>3, <3>1, StaysAnchored DEF SameDraft
  <2> QED BY <2>1, <2>2, <2>3 DEF AnchorInv
<1>2. ASSUME NEW q \in Request, NEW d \in Container, req'[q].c = d,
             req'[q].pc \in {"upsert", "replace"}, req'[q].op # "setPaths"
      PROVE  Loose(d)'
  <2>1. q # r
    BY <1>2
  <2>2. Loose(d)
    BY <1>2, <2>1 DEF OthersStay, AnchorInv
  <2> QED BY <2>2, StaysLoose DEF TypeInv
<1> QED BY <1>1, <1>2 DEF AnchorInv

LEMMA EndedReads ==
    ASSUME NEW p, NEW outcome
    PROVE  LET q == Ended(p, outcome) IN q.pc = "done" /\ q.seen = NothingSeen
  BY DEF Ended, Idle

LEMMA ReturnReads ==
    ASSUME TypeOK, NEW r \in Request, NEW outcome, Return(r, outcome)
    PROVE  OthersStay(r) /\ req'[r].pc = "done" /\ req'[r].seen = NothingSeen
<1>1. req'[r] = Ended(req[r], outcome) /\ OthersStay(r)
  BY DEF Return, TypeOK, OthersStay
<1> QED BY <1>1, EndedReads

LEMMA AbortReads ==
    ASSUME TypeOK, NEW r \in Request, NEW refused, Abort(r, refused)
    PROVE  /\ OthersStay(r) /\ req'[r].pc \in {"lockMounts", "done"}
           /\ req'[r].seen \in {req[r].seen, NothingSeen}
<1> DEFINE failed == [req[r] EXCEPT !.refused = @ \/ refused, !.unrestored = req[r].restoring]
<1>1. FromSnapshot(failed).pc = "lockMounts" /\ FromSnapshot(failed).seen = req[r].seen
  BY DEF FromSnapshot, TypeOK, Process
<1>2. req'[r] \in {FromSnapshot(failed), Ended(failed, "error")} /\ OthersStay(r)
  BY DEF Abort, TypeOK, OthersStay
<1> HIDE DEF failed
<1> QED BY <1>1, <1>2, EndedReads

LEMMA GotoReads ==
    ASSUME TypeOK, NEW r \in Request, NEW pc, Goto(r, pc)
    PROVE  /\ OthersStay(r) /\ req'[r].pc = pc /\ req'[r].seen = req[r].seen
           /\ req'[r].c = req[r].c /\ req'[r].draft = req[r].draft /\ req'[r].op = req[r].op
  BY DEF TypeOK, Process, Goto, OthersStay

\* The step only reads what it had read, and stays out of the stores.
Reads(r) ==
    /\ OthersStay(r)
    /\ \A c \in Container : req'[r].seen[c] # None => req'[r].seen[c] \in {req[r].seen[c], rec[c]}
    /\ SameDraft(r)
    /\ req'[r].pc \in {"upsert", "replace"} => req'[r].op = "setPaths"

LEMMA ReadsNothing ==
    ASSUME NEW r \in Request, OthersStay(r), req'[r].pc \notin Holding,
           req'[r].seen \in {req[r].seen, NothingSeen}
    PROVE  Reads(r)
<1>1. \A c \in Container : NothingSeen[c] = None
  BY DEF NothingSeen
<1>2. req'[r].pc \notin {"upsert", "replace"}
  BY DEF Holding
<1> QED BY <1>1, <1>2 DEF Reads, SameDraft

LEMMA OnlyReads ==
    ASSUME TypeOK, NEW r \in Request,
           \/ \E outcome : Return(r, outcome)
           \/ \E refused : Abort(r, refused)
           \/ \E pc : pc \notin Holding /\ Goto(r, pc)
    PROVE  Reads(r)
<1>1. "done" \notin Holding /\ "lockMounts" \notin Holding
  BY DEF Holding
<1>2. \A outcome : Return(r, outcome) => Reads(r)
  BY <1>1, ReturnReads, ReadsNothing
<1>3. ASSUME NEW refused, Abort(r, refused) PROVE Reads(r)
  <2>1. /\ OthersStay(r) /\ req'[r].pc \in {"lockMounts", "done"}
        /\ req'[r].seen \in {req[r].seen, NothingSeen}
    BY <1>3, AbortReads
  <2> QED BY <1>1, <2>1, ReadsNothing
<1>4. \A pc : pc \notin Holding /\ Goto(r, pc) => Reads(r)
  BY GotoReads, ReadsNothing
<1> QED BY <1>2, <1>3, <1>4

LEMMA ReceivedReads ==
    ASSUME NEW op, NEW c, NEW pc, NEW draft, NEW snap
    PROVE  LET q == Received(op, c, pc, draft, snap) IN
           q.pc = pc /\ q.op = op /\ q.c = c /\ q.draft = draft /\ q.seen = Siblings(c)
  BY DEF Received, Idle

LEMMA CallReads ==
    ASSUME TypeOK, NEW r \in Request, Calls(r)
    PROVE  Reads(r)
<1>1. ASSUME NEW op, NEW c, NEW pc, NEW draft, NEW snap,
             req' = [req EXCEPT ![r] = Received(op, c, pc, draft, snap)],
             pc \in {"lockContainer", "lockMounts", "removePodman", "workspacePod"}
                \/ (pc = "upsert" /\ op = "setPaths" /\ rec[c] # None /\ draft = rec[c])
      PROVE  Reads(r)
  <2>1. req'[r] = Received(op, c, pc, draft, snap) /\ OthersStay(r)
    BY <1>1 DEF TypeOK, OthersStay
  <2>2. /\ req'[r].pc = pc /\ req'[r].op = op /\ req'[r].c = c /\ req'[r].draft = draft
        /\ req'[r].seen = Siblings(c)
    BY <2>1, ReceivedReads
  <2>3. \A d \in Container : Siblings(c)[d] # None => Siblings(c)[d] = rec[d]
    BY DEF Siblings
  <2>4. SameDraft(r)
    BY <1>1, <2>2 DEF SameDraft, Holding
  <2> QED BY <1>1, <2>1, <2>2, <2>3, <2>4 DEF Reads
<1>2. ASSUME NEW c \in Container, CallEnsure(r, c) \/ CallRemoveContainer(r, c) \/ CallSetPaths(r, c)
      PROVE  Reads(r)
  <2>1. CASE CallEnsure(r, c)
    BY <1>1, <2>1 DEF CallEnsure
  <2>2. CASE CallRemoveContainer(r, c)
    BY <1>1, <2>2 DEF CallRemoveContainer
  <2>3. CASE CallSetPaths(r, c)
    BY <1>1, <2>3 DEF CallSetPaths
  <2> QED BY <1>2, <2>1, <2>2, <2>3
<1>3. ASSUME NEW c \in Container, CallMutate(r, c) \/ CallStart(r, c) PROVE Reads(r)
  <2>1. PICK op, draft : req' = [req EXCEPT ![r] = Received(op, c, "lockMounts", draft, rec[c])]
    BY <1>3 DEF CallMutate, CallStart
  <2> QED BY <1>1, <2>1
<1>5. ASSUME NEW w \in Workspace, CallCreateWorkspace(r, w) \/ CallRemoveWorkspace(r, w)
      PROVE  Reads(r)
  <2>1. PICK c : c = DefaultOf[w]
    OBVIOUS
  <2>2. \/ \E draft : req' = [req EXCEPT ![r] =
                              Received("createWorkspace", c, "lockMounts", draft, rec[c])]
        \/ req' = [req EXCEPT ![r] = Received("removeWorkspace", c, "workspacePod", None, None)]
    BY <1>5, <2>1 DEF CallCreateWorkspace, CallRemoveWorkspace
  <2> QED BY <1>1, <2>2
<1>4. CASE CallReconcile(r)
  <2>1. PICK gone : req' = [req EXCEPT ![r] = [Idle EXCEPT !.pc = "apply", !.op = "reconcile",
                                                   !.seen = rec, !.gone = gone]]
    BY <1>4 DEF CallReconcile
  <2>2. /\ OthersStay(r)
        /\ req'[r] = [Idle EXCEPT !.pc = "apply", !.op = "reconcile", !.seen = rec, !.gone = gone]
    BY <2>1 DEF TypeOK, OthersStay
  <2>3. req'[r].pc = "apply" /\ req'[r].seen = rec
    BY <2>2 DEF Idle
  <2> QED BY <2>2, <2>3 DEF Reads, SameDraft, Holding
<1> QED BY <1>2, <1>3, <1>4, <1>5 DEF Calls

\* The steps that leave the store alone, but for the create.
LEMMA EarlyReads ==
    ASSUME TypeOK, NEW r \in Request,
           \/ LockContainer(r) \/ Inspect(r) \/ Recheck(r) \/ LockMounts(r) \/ StopOld(r)
           \/ RemoveOld(r) \/ Cleanup(r) \/ RemovePodman(r) \/ PodCheck(r) \/ PodRemove(r)
           \/ WorkspacePod(r)
    PROVE  Reads(r) /\ rec' = rec
<1>1. rec' = rec
  BY DEF LockContainer, Inspect, Recheck, LockMounts, StopOld, RemoveOld, Cleanup, RemovePodman, PodCheck,
         PodRemove, WorkspacePod
<1>2. CASE LockContainer(r)
  <2>1. CASE rec[req[r].c] = None
    <3>1. req'[r] = Ended(req[r], "error") /\ OthersStay(r)
      BY <1>2, <2>1 DEF LockContainer, TypeOK, OthersStay
    <3>2. req'[r].pc = "done" /\ \A c \in Container : req'[r].seen[c] = None
      BY <3>1, EndedReads DEF NothingSeen
    <3> QED BY <1>1, <3>1, <3>2 DEF Reads, SameDraft, Holding
  <2>2. CASE rec[req[r].c] # None
    <3>1. PICK c : c = req[r].c
      OBVIOUS
    <3>2. /\ req'[r] = [req[r] EXCEPT !.pc = "inspect", !.draft = rec[c], !.seen = Siblings(c)]
          /\ OthersStay(r)
      BY <1>2, <2>2, <3>1 DEF LockContainer, TypeOK, OthersStay
    <3>3. /\ req'[r].pc = "inspect" /\ req'[r].c = c /\ req'[r].draft = rec[c]
          /\ req'[r].seen = Siblings(c)
      BY <3>1, <3>2 DEF TypeOK, Process
    <3>4. \A d \in Container : Siblings(c)[d] # None => Siblings(c)[d] = rec[d]
      BY DEF Siblings
    <3> QED BY <1>1, <2>2, <3>1, <3>2, <3>3, <3>4 DEF Reads, SameDraft, Holding
  <2> QED BY <2>1, <2>2
<1>3. CASE Inspect(r)
  <2>1. CASE Goto(r, "recheck")
    BY <1>1, <1>3, <2>1, GotoReads DEF Inspect, Reads, SameDraft, Holding
  <2>2. CASE Goto(r, "lockMounts") \/ Return(r, "error")
    BY <1>1, <2>2, OnlyReads DEF Holding
  <2> QED BY <1>3, <2>1, <2>2 DEF Inspect
<1>4. CASE Recheck(r)
  BY <1>1, <1>4, OnlyReads DEF Recheck
<1>5. CASE LockMounts(r)
  <2>1. CASE (\E outcome : Return(r, outcome)) \/ \E refused : Abort(r, refused)
    BY <1>1, <2>1, OnlyReads
  <2>2. CASE req' = [req EXCEPT ![r].pc = "stop", ![r].had = @ \/ podman[req[r].c] # None]
    <3>1. req'[r].pc = "stop" /\ req'[r].seen = req[r].seen /\ OthersStay(r)
      BY <2>2 DEF TypeOK, Process, OthersStay
    <3> QED BY <1>1, <3>1 DEF Reads, SameDraft, Holding
  <2> QED BY <1>5, <2>1, <2>2 DEF LockMounts
<1>6. CASE StopOld(r) \/ RemoveOld(r) \/ Cleanup(r)
  <2>1. Goto(r, "remove") \/ Goto(r, "create") \/ \E refused : Abort(r, refused)
    BY <1>6 DEF StopOld, RemoveOld, Cleanup
  <2> QED BY <1>1, <2>1, OnlyReads DEF Holding
<1>7. CASE RemovePodman(r)
  <2>1. Goto(r, "podCheck") \/ Goto(r, "dropRecord") \/ Return(r, "error")
    BY <1>7 DEF RemovePodman
  <2> QED BY <1>1, <2>1, OnlyReads DEF Holding
<1>8. CASE PodCheck(r) \/ PodRemove(r) \/ WorkspacePod(r)
  <2>1. Goto(r, "podRemove") \/ Goto(r, "dropWorkspace") \/ Return(r, "ok") \/ Return(r, "error")
    BY <1>8 DEF PodCheck, PodRemove, WorkspacePod
  <2> QED BY <1>1, <2>1, OnlyReads DEF Holding
<1> QED BY <1>2, <1>3, <1>4, <1>5, <1>6, <1>7, <1>8

\* The store updates.
LEMMA StoreReads ==
    ASSUME TypeInv, NEW r \in Request,
           Upsert(r) \/ ReplaceWorkspace(r) \/ DropRecord(r) \/ DropWorkspace(r) \/ Apply(r)
    PROVE  Reads(r) /\ Derived(r)
<1>1. Reads(r)
  BY OnlyReads DEF TypeInv, Upsert, ReplaceWorkspace, DropRecord, DropWorkspace, Apply, WriteFails, Holding
<1>2. \A c \in Container :
          rec'[c] # None => \/ rec'[c] \in {rec[c], req[r].seen[c]}
                            \/ req[r].c = c /\ req[r].pc \in Holding /\ rec'[c] = req[r].draft
  <2>1. CASE rec' = rec
    BY <2>1
  <2>2. CASE Upsert(r) /\ rec' = Upserted(r)
    BY <2>2 DEF Upsert, Upserted, Holding
  <2>3. CASE ReplaceWorkspace(r) /\ rec' # rec
    BY <2>3 DEF ReplaceWorkspace, WriteFails, Holding
  <2>4. CASE DropRecord(r)
    BY <2>4 DEF DropRecord, WriteFails, TypeInv, TypeOK
  <2>5. CASE DropWorkspace(r)
    BY <2>5 DEF DropWorkspace, WriteFails
  <2>6. CASE Apply(r)
    BY <2>6 DEF Apply, WriteFails, Kept
  <2> QED BY <2>1, <2>2, <2>3, <2>4, <2>5, <2>6 DEF Upsert, WriteFails
<1> QED BY <1>1, <1>2 DEF Derived, Reads

\* A container that CreateNew made is nested with none.
LEMMA CreateNewIsLoose ==
    ASSUME TypeInv, NestingInv, NEW r \in Request, CreateNew(r), NEW c \in Container, c = req[r].c
    PROVE  podman'[c] = podman[c] \/ Loose(c)'
<1>1. PICK m : m = req[r].draft.mounts
  OBVIOUS
<1>2. ~Clash(podman, c, m)
  BY <1>1, StillUnnestedNow DEF CreateNew, NestingInv
<1>3. CreatedOnly(c, m)
  BY <1>1, CreateNewCreatesOnly DEF TypeInv
<1> QED BY <1>2, <1>3 DEF CreatedOnly, Loose, NestedPair, Clash

LEMMA CreateNewAnchors ==
    ASSUME TypeInv, NestingInv, AnchorInv, [Next]_vars, NEW r \in Request, CreateNew(r)
    PROVE  AnchorInv'
<1>1. PICK c, next : /\ c = req[r].c
                     /\ next = CASE req[r].restoring -> "restored"
                                 [] req[r].op = "createWorkspace" -> "replace"
                                 [] OTHER -> "upsert"
  OBVIOUS
<1>2. c \in Container /\ rec' = rec /\ TypeOK
  BY <1>1 DEF CreateNew, TypeInv, ShapedCall
<1>3. PICK t \in Token :
        \/ /\ podman' = [podman EXCEPT ![c] = Started(req[r].draft, t)]
           /\ req' = [req EXCEPT ![r] = [Tokened(req[r], t) EXCEPT !.pc = next]]
        \/ Return(r, "error")
        \/ Goto(r, "cleanup")
        \/ \E refused : Abort(r, refused)
  BY <1>1 DEF CreateNew
<1>4. CASE /\ podman' = [podman EXCEPT ![c] = Started(req[r].draft, t)]
           /\ req' = [req EXCEPT ![r] = [Tokened(req[r], t) EXCEPT !.pc = next]]
  <2>1. OthersStay(r) /\ req'[r].c = c /\ req'[r].seen = req[r].seen
    BY <1>1, <1>2, <1>4 DEF TypeOK, Process, Tokened, OthersStay
  <2>2. Loose(c)'
    <3>1. PICK m : m = req[r].draft.mounts
      OBVIOUS
    <3>2. ~Clash(podman, c, m)
      BY <1>1, <3>1, StillUnnestedNow DEF CreateNew, NestingInv
    <3>3. podman'[c].mounts = m /\ \A d \in Container \ {c} : podman'[d] = podman[d]
      BY <1>2, <1>4, <3>1 DEF TypeOK, Started
    <3> QED BY <3>2, <3>3 DEF Loose, NestedPair, Clash
  <2>3. ASSUME NEW d \in Container PROVE Loose(d)' \/ Anchored(d)'
    <3>1. CASE d = c
      BY <2>2, <3>1
    <3>2. CASE Loose(d)
      BY <1>2, <3>2, StaysLoose
    <3>3. CASE d # c /\ Anchored(d)
      <4>1. podman'[d] = podman[d]
        BY <1>2, <1>4, <3>3 DEF TypeOK
      <4>2. Derived(r)
        BY <1>2, <2>1 DEF Derived
      <4> QED BY <2>1, <3>3, <4>1, <4>2, StaysAnchored
    <3> QED BY <3>1, <3>2, <3>3 DEF AnchorInv
  <2>4. ASSUME NEW q \in Request, NEW d \in Container, req'[q].c = d,
             req'[q].pc \in {"upsert", "replace"}, req'[q].op # "setPaths"
        PROVE  Loose(d)'
    <3>1. CASE q = r
      <4>1. d = c
        BY <2>1, <2>4, <3>1
      <4> QED BY <2>2, <4>1
    <3>2. CASE q # r
      <4>1. Loose(d)
        BY <2>1, <2>4, <3>2 DEF OthersStay, AnchorInv
      <4> QED BY <1>2, <4>1, StaysLoose
    <3> QED BY <3>1, <3>2
  <2> QED BY <2>3, <2>4 DEF AnchorInv
<1>5. CASE Return(r, "error") \/ Goto(r, "cleanup") \/ \E refused : Abort(r, refused)
  <2>1. Reads(r) /\ req'[r].pc \notin Holding
    BY <1>2, <1>5, OnlyReads, ReturnReads, AbortReads, GotoReads DEF Holding
  <2>2. Derived(r) /\ OthersStay(r)
    BY <1>2, <2>1 DEF Derived, Reads
  <2>3. ASSUME NEW d \in Container PROVE Loose(d)' \/ Anchored(d)'
    <3>1. CASE Loose(d)
      BY <1>2, <3>1, StaysLoose
    <3>2. CASE Anchored(d) /\ podman'[d] = podman[d]
      BY <2>1, <2>2, <3>2, StaysAnchored
    <3>3. CASE podman'[d] # podman[d]
      <4>1. d = c
        BY <1>1, <3>3, CreateNewCreatesOnly DEF CreatedOnly, TypeInv
      <4> QED BY <1>1, <3>3, <4>1, CreateNewIsLoose
    <3> QED BY <3>1, <3>2, <3>3 DEF AnchorInv
  <2>4. ASSUME NEW q \in Request, NEW d \in Container, req'[q].c = d,
             req'[q].pc \in {"upsert", "replace"}, req'[q].op # "setPaths"
        PROVE  Loose(d)'
    <3>1. q # r
      BY <2>1, <2>4 DEF Holding
    <3>2. Loose(d)
      BY <2>2, <2>4, <3>1 DEF OthersStay, AnchorInv
    <3> QED BY <1>2, <3>2, StaysLoose
  <2> QED BY <2>3, <2>4 DEF AnchorInv
<1> QED BY <1>3, <1>4, <1>5

\* Steps outside the calls.
LEMMA OutsideAnchors ==
    ASSUME TypeInv, NestingInv, AnchorInv, [Next]_vars,
           \/ \E c \in Container : DeletedOutside(c) \/ RunStateChanges(c)
           \/ Restart
           \/ UNCHANGED vars
    PROVE  AnchorInv'
<1>1. NoNewMounts /\ rec' = rec
  BY OutsideKeepsNestingInv DEF TypeInv, DeletedOutside, RunStateChanges, Restart, vars
<1>2. ASSUME NEW q \in Request
      PROVE  \/ req'[q] = req[q]
             \/ req'[q].pc = "done" /\ req'[q].seen = NothingSeen
  <2>1. CASE Restart
    <3>1. req'[q] \in {req[q], Ended(req[q], "error")}
      BY <2>1 DEF Restart
    <3> QED BY <3>1, EndedReads
  <2>2. CASE ~Restart
    BY <2>2 DEF DeletedOutside, RunStateChanges, vars
  <2> QED BY <2>1, <2>2
<1>3. ASSUME NEW c \in Container PROVE Loose(c)' \/ Anchored(c)'
  <2>1. CASE Loose(c)
    BY <2>1, StaysLoose DEF TypeInv
  <2>2. CASE podman'[c] = None
    BY <2>2 DEF Loose, NestedPair
  <2>3. CASE Anchored(c) /\ podman'[c] # None
    <3>1. podman'[c].mounts = podman[c].mounts
      BY <1>1, <2>3 DEF NoNewMounts
    <3>2. \A q \in Request : req'[q].seen[c] # None => req'[q].seen[c].mounts = podman'[c].mounts
      BY <1>2, <2>3, <3>1 DEF Anchored, NothingSeen
    <3>3. \A q \in Request : req'[q].c = c /\ req'[q].pc \in Holding
                               => req'[q].draft.mounts = podman'[c].mounts
      BY <1>2, <2>3, <3>1 DEF Anchored, Holding
    <3> QED BY <1>1, <2>3, <3>1, <3>2, <3>3 DEF Anchored
  <2> QED BY <2>1, <2>2, <2>3 DEF AnchorInv
<1>4. ASSUME NEW q \in Request, NEW d \in Container, req'[q].c = d,
             req'[q].pc \in {"upsert", "replace"}, req'[q].op # "setPaths"
      PROVE  Loose(d)'
  <2>1. req'[q] = req[q]
    BY <1>2, <1>4
  <2>2. Loose(d)
    BY <1>4, <2>1 DEF AnchorInv
  <2> QED BY <2>2, StaysLoose DEF TypeInv
<1> QED BY <1>3, <1>4 DEF AnchorInv

LEMMA StepAddsNoMounts ==
    ASSUME TypeOK, NestingInv, NEW r \in Request, Steps(r), ~CreateNew(r)
    PROVE  NoNewMounts
  BY LockMountsKeepsNestingInv, StopOldKeepsNestingInv, RemoveOldKeepsNestingInv,
     OtherStepsKeepNestingInv DEF Steps

LEMMA NextKeepsAnchorInv ==
    ASSUME TypeInv, NestingInv, AnchorInv, [Next]_vars
    PROVE  AnchorInv'
<1>1. ASSUME NEW r \in Request, Calls(r) PROVE AnchorInv'
  <2>1. NoNewMounts
    BY <1>1, CallsKeepNestingInv DEF TypeInv
  <2>2. rec' = rec
    BY <1>1 DEF Calls, CallEnsure, CallMutate, CallStart, CallRemoveContainer, CallSetPaths,
                CallCreateWorkspace, CallRemoveWorkspace, CallReconcile
  <2>3. Reads(r) /\ Derived(r)
    BY <1>1, <2>2, CallReads DEF TypeInv, Reads, Derived
  <2> QED BY <2>1, <2>3, AnchorStep DEF Reads
<1>2. ASSUME NEW r \in Request, Steps(r), ~CreateNew(r) PROVE AnchorInv'
  <2>1. NoNewMounts
    BY <1>2, StepAddsNoMounts DEF TypeInv
  <2>2. Reads(r) /\ (rec' = rec \/ Derived(r))
    BY <1>2, EarlyReads, StoreReads DEF Steps, TypeInv
  <2>3. Derived(r)
    BY <2>2 DEF Reads, Derived
  <2> QED BY <2>1, <2>2, <2>3, AnchorStep DEF Reads
<1> QED BY <1>1, <1>2, CreateNewAnchors, OutsideAnchors DEF Next

LEMMA InitAnchored == Init => AnchorInv
<1> SUFFICES ASSUME Init PROVE AnchorInv
  OBVIOUS
<1>1. \A r \in Request : req[r] = Idle
  BY DEF Init
<1>2. Idle.pc = "idle" /\ \A c \in Container : Idle.seen[c] = None
  BY DEF Idle, NothingSeen
<1>3. ASSUME NEW c \in Container, podman[c] # None, rec[c] # None
      PROVE  rec[c].mounts = podman[c].mounts
  <2>1. PICK state : podman = [d \in Container |->
                        IF rec[d] = None \/ state[d] = "missing" THEN None
                        ELSE [Started(rec[d], rec[d].token) EXCEPT !.running = state[d] = "running"]]
    BY DEF Init
  <2>2. PICK running : running = (state[c] = "running")
    OBVIOUS
  <2>3. podman[c] = [Started(rec[c], rec[c].token) EXCEPT !.running = running]
    BY <1>3, <2>1, <2>2
  <2> QED BY <2>3 DEF Started
<1>4. \A c \in Container : podman[c] = None => Loose(c)
  BY DEF Loose, NestedPair
<1> QED BY <1>1, <1>2, <1>3, <1>4 DEF AnchorInv, Anchored, Holding

-------------------------------------------------------------------------------
(* How an ensure ends.                                                     *)

EnsurePhase(p) ==
    p.op = "ensure" =>
        /\ p.pc \in {"lockContainer", "inspect", "recheck", "lockMounts", "stop", "remove", "create",
                     "upsert", "done"}
        /\ p.pc # "done" => p.outcome = "none"

EnsurePhases == \A r \in Request : EnsurePhase(req[r])

\* An ensure goes on, fails, or succeeds by the recheck or by its store update.
EnsureGoes(r) ==
    \/ /\ req'[r].pc \in {"inspect", "recheck", "lockMounts", "stop", "remove", "create", "upsert"}
       /\ req'[r].outcome = "none"
    \/ req'[r].pc = "done" /\ req'[r].outcome = "error"
    \/ req'[r].pc = "done" /\ req[r].pc = "recheck" /\ Recheck(r) /\ Return(r, "ok")
    \/ req'[r].pc = "done" /\ req[r].pc = "upsert" /\ Upsert(r)

LEMMA EnsureStep ==
    ASSUME TypeInv, NEW r \in Request, Steps(r), EnsurePhase(req[r]), req[r].op = "ensure"
    PROVE  EnsureGoes(r)
<1>1. TypeOK /\ req[r] \in Process
  BY DEF TypeInv, TypeOK
<1>2. req[r].pc \in {"lockContainer", "inspect", "recheck", "lockMounts", "stop", "remove", "create",
                     "upsert", "done"}
  BY DEF EnsurePhase
<1>3. req[r].pc # "done" => req[r].outcome = "none"
  BY DEF EnsurePhase
<1>4. \A pc \in {"inspect", "recheck", "lockMounts", "stop", "remove", "create", "upsert"} :
        Goto(r, pc) /\ req[r].pc # "done" => EnsureGoes(r)
  BY <1>1, <1>3, GotoFields DEF EnsureGoes, Carried
<1>5. \A refused \in BOOLEAN : Abort(r, refused) => EnsureGoes(r)
  <2>1. ~Restores(req[r])
    BY DEF Restores
  <2> QED BY <1>1, <2>1, AbortFields DEF EnsureGoes
<1>6. Return(r, "error") => EnsureGoes(r)
  BY <1>1, ReturnFields DEF EnsureGoes
<1>7. CASE LockContainer(r)
  <2>1. CASE rec[req[r].c] = None
    <3>1. req'[r] = Ended(req[r], "error")
      BY <1>1, <1>7, <2>1 DEF LockContainer, TypeOK
    <3> QED BY <3>1, EndedFields DEF EnsureGoes
  <2>2. CASE rec[req[r].c] # None
    <3>1. req'[r] = [req[r] EXCEPT !.pc = "inspect", !.draft = rec[req[r].c], !.seen = Siblings(req[r].c)]
      BY <1>1, <1>7, <2>2 DEF LockContainer, TypeOK
    <3>2. req'[r].outcome = req[r].outcome /\ req'[r].pc = "inspect" /\ req[r].pc = "lockContainer"
      BY <1>1, <1>7, <3>1 DEF Process, LockContainer
    <3> QED BY <1>3, <3>2 DEF EnsureGoes
  <2> QED BY <2>1, <2>2
<1>8. CASE Inspect(r)
  <2>1. Return(r, "error") \/ Goto(r, "recheck") \/ Goto(r, "lockMounts")
    BY <1>8 DEF Inspect
  <2> QED BY <1>4, <1>6, <1>8, <2>1 DEF Inspect
<1>9. CASE Recheck(r)
  <2>1. CASE Abort(r, TRUE)
    BY <1>5, <2>1
  <2>2. CASE Return(r, "ok")
    BY <1>1, <1>9, <2>2, ReturnFields DEF EnsureGoes, Recheck
  <2> QED BY <1>9, <2>1, <2>2 DEF Recheck
<1>10. CASE LockMounts(r)
  <2>1. CASE \E refused \in BOOLEAN : Abort(r, refused)
    BY <1>5, <2>1
  <2>2. CASE req' = [req EXCEPT ![r].pc = "stop", ![r].had = @ \/ podman[req[r].c] # None]
    <3>1. req'[r].outcome = req[r].outcome /\ req'[r].pc = "stop" /\ req[r].pc = "lockMounts"
      BY <1>1, <1>10, <2>2 DEF TypeOK, Process, LockMounts
    <3> QED BY <1>3, <3>1 DEF EnsureGoes
  <2> QED BY <1>6, <1>10, <2>1, <2>2 DEF LockMounts
<1>11. CASE StopOld(r) \/ RemoveOld(r)
  <2>1. Goto(r, "remove") \/ Goto(r, "create") \/ \E refused \in BOOLEAN : Abort(r, refused)
    BY <1>11 DEF StopOld, RemoveOld
  <2>2. req[r].pc # "done"
    BY <1>11 DEF StopOld, RemoveOld
  <2> QED BY <1>4, <1>5, <2>1, <2>2
<1>12. CASE CreateNew(r)
  <2>1. PICK next : next = CASE req[r].restoring -> "restored"
                             [] req[r].op = "createWorkspace" -> "replace"
                             [] OTHER -> "upsert"
    OBVIOUS
  <2>2. next \in {"restored", "upsert"} /\ req[r].pc = "create"
    BY <1>12, <2>1 DEF CreateNew
  <2>3. \/ Return(r, "error")
        \/ next # "restored" /\ \E t \in Token : req' = [req EXCEPT ![r] = [Tokened(req[r], t) EXCEPT !.pc = next]]
        \/ \E refused \in BOOLEAN : Abort(r, refused)
    BY <1>12, <2>1 DEF CreateNew
  <2>4. ASSUME NEW t \in Token, req' = [req EXCEPT ![r] = [Tokened(req[r], t) EXCEPT !.pc = next]]
        PROVE  req'[r].pc = next /\ req'[r].outcome = req[r].outcome
    <3>1. req'[r] = [Tokened(req[r], t) EXCEPT !.pc = next]
      BY <1>1, <2>4 DEF TypeOK
    <3> QED BY <1>1, <3>1 DEF Tokened, Process
  <2> QED BY <1>3, <1>5, <1>6, <2>2, <2>3, <2>4 DEF EnsureGoes
<1>13. CASE Upsert(r)
  <2>1. PICK outcome : Return(r, outcome)
    BY <1>13 DEF Upsert, WriteFails
  <2> QED BY <1>1, <1>13, <2>1, ReturnFields DEF EnsureGoes, Upsert
<1>14. ~(\/ Cleanup(r) \/ ReplaceWorkspace(r) \/ RemovePodman(r) \/ DropRecord(r) \/ PodCheck(r)
         \/ PodRemove(r) \/ WorkspacePod(r) \/ DropWorkspace(r) \/ Apply(r))
  BY <1>2 DEF Cleanup, ReplaceWorkspace, RemovePodman, DropRecord, PodCheck, PodRemove, WorkspacePod,
              DropWorkspace, Apply
<1> QED BY <1>7, <1>8, <1>9, <1>10, <1>11, <1>12, <1>13, <1>14 DEF Steps

\* No call turns into another.
LEMMA StepKeepsOp ==
    ASSUME TypeInv, NEW r \in Request, Steps(r)
    PROVE  OthersStay(r) /\ req'[r].op = req[r].op
<1>1. TypeOK /\ req[r] \in Process
  BY DEF TypeInv, TypeOK
<1> DEFINE SameOp == OthersStay(r) /\ req'[r].op = req[r].op
<1>2. \A pc : Goto(r, pc) => SameOp
  BY <1>1, GotoFields DEF Carried
<1>3. \A outcome : Return(r, outcome) => SameOp
  BY <1>1, ReturnFields
<1>4. \A refused \in BOOLEAN : Abort(r, refused) => SameOp
  BY <1>1, AbortFields
<1>5. CASE LockContainer(r)
  <2>1. OthersStay(r)
    BY <1>1, <1>5 DEF LockContainer, OthersStay, TypeOK
  <2>2. \/ req'[r] = Ended(req[r], "error")
        \/ req'[r] = [req[r] EXCEPT !.pc = "inspect", !.draft = rec[req[r].c], !.seen = Siblings(req[r].c)]
    BY <1>1, <1>5 DEF LockContainer, TypeOK
  <2>3. Ended(req[r], "error").op = req[r].op
    BY EndedFields
  <2>4. [req[r] EXCEPT !.pc = "inspect", !.draft = rec[req[r].c], !.seen = Siblings(req[r].c)].op = req[r].op
    BY <1>1 DEF Process
  <2> QED BY <2>1, <2>2, <2>3, <2>4
<1>6. CASE LockMounts(r)
  <2>1. CASE req' = [req EXCEPT ![r].pc = "stop", ![r].had = @ \/ podman[req[r].c] # None]
    BY <1>1, <2>1 DEF TypeOK, Process, OthersStay
  <2> QED BY <1>3, <1>4, <1>6, <2>1 DEF LockMounts
<1>7. CASE CreateNew(r)
  <2>1. \/ Return(r, "error") \/ Goto(r, "cleanup") \/ \E refused \in BOOLEAN : Abort(r, refused)
        \/ \E t \in Token : \E next : req' = [req EXCEPT ![r] = [Tokened(req[r], t) EXCEPT !.pc = next]]
    BY <1>7 DEF CreateNew
  <2>2. ASSUME NEW t \in Token, NEW next, req' = [req EXCEPT ![r] = [Tokened(req[r], t) EXCEPT !.pc = next]]
        PROVE  SameOp
    BY <1>1, <2>2 DEF TypeOK, Tokened, Process, OthersStay
  <2> QED BY <1>2, <1>3, <1>4, <2>1, <2>2
<1>8. CASE Inspect(r) \/ Recheck(r) \/ StopOld(r) \/ RemoveOld(r) \/ Cleanup(r)
  BY <1>2, <1>3, <1>4, <1>8 DEF Inspect, Recheck, StopOld, RemoveOld, Cleanup
<1>9. CASE \/ Upsert(r) \/ ReplaceWorkspace(r) \/ RemovePodman(r) \/ DropRecord(r) \/ PodCheck(r)
           \/ PodRemove(r) \/ WorkspacePod(r) \/ DropWorkspace(r) \/ Apply(r)
  BY <1>2, <1>3, <1>9 DEF Upsert, ReplaceWorkspace, RemovePodman, DropRecord, PodCheck, PodRemove,
                          WorkspacePod, DropWorkspace, Apply, WriteFails
<1> QED BY <1>5, <1>6, <1>7, <1>8, <1>9 DEF Steps

\* A received ensure starts at the lock.
LEMMA CallPhase ==
    ASSUME TypeOK, NEW r \in Request, Calls(r)
    PROVE  EnsurePhase(req'[r]) /\ OthersStay(r) /\ req[r].pc = "idle"
<1>1. ASSUME NEW op, NEW c, NEW pc, NEW draft, NEW snap,
             req' = [req EXCEPT ![r] = Received(op, c, pc, draft, snap)],
             op = "ensure" => pc = "lockContainer"
      PROVE  EnsurePhase(req'[r])
  <2>1. req'[r] = Received(op, c, pc, draft, snap)
    BY <1>1 DEF TypeOK
  <2>2. Received(op, c, pc, draft, snap).op = op /\ Received(op, c, pc, draft, snap).pc = pc
        /\ Received(op, c, pc, draft, snap).outcome = "none"
    BY DEF Received, Idle
  <2> QED BY <1>1, <2>1, <2>2 DEF EnsurePhase
<1>2. OthersStay(r) /\ req[r].pc = "idle"
  BY DEF Calls, CallEnsure, CallMutate, CallStart, CallRemoveContainer, CallSetPaths,
         CallCreateWorkspace, CallRemoveWorkspace, CallReconcile, MayCall, OthersStay, TypeOK
<1>3. ASSUME NEW c \in Container, CallEnsure(r, c) \/ CallRemoveContainer(r, c) \/ CallSetPaths(r, c)
      PROVE  EnsurePhase(req'[r])
  <2>1. CASE CallEnsure(r, c)
    BY <1>1, <2>1 DEF CallEnsure
  <2>2. CASE CallRemoveContainer(r, c) \/ CallSetPaths(r, c)
    <3>1. PICK op, pc, draft : op # "ensure" /\ req' = [req EXCEPT ![r] = Received(op, c, pc, draft, None)]
      BY <2>2 DEF CallRemoveContainer, CallSetPaths
    <3> QED BY <1>1, <3>1
  <2> QED BY <1>3, <2>1, <2>2
<1>4. ASSUME NEW c \in Container, CallMutate(r, c) \/ CallStart(r, c) PROVE EnsurePhase(req'[r])
  <2>1. PICK op, draft : op # "ensure" /\ req' = [req EXCEPT ![r] = Received(op, c, "lockMounts", draft, rec[c])]
    BY <1>4 DEF CallMutate, CallStart
  <2> QED BY <1>1, <2>1
<1>5. ASSUME NEW w \in Workspace, CallCreateWorkspace(r, w) \/ CallRemoveWorkspace(r, w)
      PROVE  EnsurePhase(req'[r])
  <2>1. PICK c : c = DefaultOf[w]
    OBVIOUS
  <2>2. \/ \E draft : req' = [req EXCEPT ![r] =
                              Received("createWorkspace", c, "lockMounts", draft, rec[c])]
        \/ req' = [req EXCEPT ![r] = Received("removeWorkspace", c, "workspacePod", None, None)]
    BY <1>5, <2>1 DEF CallCreateWorkspace, CallRemoveWorkspace
  <2> QED BY <1>1, <2>2
<1>6. CASE CallReconcile(r)
  <2>1. PICK gone : req' = [req EXCEPT ![r] = [Idle EXCEPT !.pc = "apply", !.op = "reconcile",
                                                   !.seen = rec, !.gone = gone]]
    BY <1>6 DEF CallReconcile
  <2>2. req'[r] = [Idle EXCEPT !.pc = "apply", !.op = "reconcile", !.seen = rec, !.gone = gone]
    BY <2>1 DEF TypeOK
  <2>3. req'[r].op = "reconcile"
    BY <2>2 DEF Idle
  <2> QED BY <1>2, <2>3 DEF EnsurePhase
<1> QED BY <1>2, <1>3, <1>4, <1>5, <1>6 DEF Calls

LEMMA OutsidePhases ==
    ASSUME \/ \E c \in Container : DeletedOutside(c) \/ RunStateChanges(c)
           \/ Restart
           \/ UNCHANGED vars,
           NEW q \in Request
    PROVE  \/ req'[q] = req[q]
           \/ /\ req'[q].pc = "done" /\ req'[q].op = req[q].op /\ req'[q].outcome = "error"
              /\ InFlight(q)
<1>1. CASE Restart
  <2>1. req'[q] = req[q] \/ (InFlight(q) /\ req'[q] = Ended(req[q], "error"))
    BY <1>1 DEF Restart
  <2> QED BY <2>1, EndedFields
<1>2. CASE ~Restart
  BY <1>2 DEF DeletedOutside, RunStateChanges, vars
<1> QED BY <1>1, <1>2

LEMMA NextKeepsPhases ==
    ASSUME TypeInv, EnsurePhases, [Next]_vars
    PROVE  EnsurePhases'
<1>1. ASSUME NEW r \in Request, Calls(r) PROVE EnsurePhases'
  BY <1>1, CallPhase DEF TypeInv, EnsurePhases, OthersStay
<1>2. ASSUME NEW r \in Request, Steps(r) PROVE EnsurePhases'
  <2>1. OthersStay(r) /\ req'[r].op = req[r].op
    BY <1>2, StepKeepsOp
  <2>2. req[r].op = "ensure" => EnsureGoes(r)
    BY <1>2, EnsureStep DEF EnsurePhases
  <2>3. EnsurePhase(req'[r])
    BY <2>1, <2>2 DEF EnsureGoes, EnsurePhase
  <2> QED BY <2>1, <2>3 DEF EnsurePhases, OthersStay
<1>3. CASE \/ \E c \in Container : DeletedOutside(c) \/ RunStateChanges(c)
           \/ Restart
           \/ UNCHANGED vars
  BY <1>3, OutsidePhases DEF EnsurePhases, EnsurePhase
<1> QED BY <1>1, <1>2, <1>3 DEF Next

LEMMA InitPhases == Init => EnsurePhases
  BY DEF Init, Idle, EnsurePhases, EnsurePhase

LEMMA HandsOutUnnested ==
    ASSUME TypeInv, NestingInv, AnchorInv, EnsurePhases, [Next]_vars, NEW r \in Request,
           req[r].op = "ensure", InFlight(r), req'[r].outcome = "ok", NEW d \in Container
    PROVE  ~NestedPair(req[r].c, d)'
<1>1. req[r].outcome = "none"
  BY DEF EnsurePhases, EnsurePhase, InFlight
<1>2. Steps(r)
  <2>1. \A q \in Request : Calls(q) => q = r
    BY <1>1, CallPhase DEF TypeInv, OthersStay
  <2>2. \A q \in Request : Steps(q) => q = r
    BY <1>1, StepKeepsOp DEF OthersStay
  <2>3. ~Calls(r)
    BY CallPhase DEF TypeInv, InFlight
  <2>4. ~(\/ \E c \in Container : DeletedOutside(c) \/ RunStateChanges(c)
          \/ Restart
          \/ UNCHANGED vars)
    BY <1>1, OutsidePhases
  <2> QED BY <2>1, <2>2, <2>3, <2>4 DEF Next
<1>3. PICK c : c = req[r].c
  OBVIOUS
<1>4. /\ req'[r].c = c /\ c \in Container
      /\ \/ Recheck(r) /\ Return(r, "ok") /\ req[r].pc = "recheck"
         \/ req[r].pc = "upsert"
  <2>1. \/ Recheck(r) /\ Return(r, "ok") /\ req[r].pc = "recheck"
        \/ req[r].pc = "upsert" /\ Upsert(r)
    BY <1>2, EnsureStep DEF EnsurePhases, EnsureGoes
  <2>2. PICK outcome : Return(r, outcome)
    BY <2>1 DEF Upsert, WriteFails
  <2> QED BY <1>3, <2>1, <2>2, ReturnFields DEF TypeInv, ShapedCall
<1>5. Loose(c)
  <2>1. CASE req[r].pc = "upsert"
    BY <1>3, <1>4, <2>1 DEF AnchorInv
  <2>2. CASE Recheck(r) /\ Return(r, "ok") /\ req[r].pc = "recheck" /\ Anchored(c)
    <3>1. ~Conflicts(c, req[r].draft.mounts)
      <4>1. ~Abort(r, TRUE)
        BY AbortFields DEF TypeInv, Restores
      <4> QED BY <1>3, <2>2, <4>1 DEF Recheck
    <3>2. req[r].draft.mounts = podman[c].mounts
      BY <1>3, <2>2 DEF Anchored, Holding
    <3> QED BY <3>1, <3>2 DEF Conflicts, Loose, NestedPair
  <2> QED BY <1>4, <2>1, <2>2 DEF AnchorInv
<1>6. Loose(c)'
  BY <1>4, <1>5, StaysLoose DEF TypeInv
<1>7. \A x : x = req[r].c => ~NestedPair(x, d)'
  BY <1>3, <1>6 DEF Loose
<1> QED BY <1>4, <1>6 DEF Loose

\* EnsureContainer's recheck (checkExistingMountConflicts) and its recreate: what it
\* hands out is nested with no container of any state, through overlapping calls,
\* faults and restarts, also where nested containers were there from the start.
THEOREM EnsureHandsOut == Spec => EnsureHandsOutUnnested
<1>1. TypeInv /\ NestingInv /\ AnchorInv /\ EnsurePhases /\ [Next]_vars
        => [\A r \in Request :
              req[r].op = "ensure" /\ InFlight(r) /\ req'[r].outcome = "ok"
                  => \A d \in Container : ~NestedPair(req[r].c, d)']_vars
  BY HandsOutUnnested
<1>2. Init => AnchorInv /\ EnsurePhases
  BY InitAnchored, InitPhases
<1>3. TypeInv /\ NestingInv /\ AnchorInv /\ EnsurePhases /\ [Next]_vars => (AnchorInv /\ EnsurePhases)'
  BY NextKeepsAnchorInv, NextKeepsPhases
<1>4. Spec => []TypeInv
  BY InitTyped, NextKeepsTypes, PTL DEF Spec
<1> QED BY <1>1, <1>2, <1>3, <1>4, CheckStaysTrue, PTL DEF Spec, EnsureHandsOutUnnested

-------------------------------------------------------------------------------
(* Ensures keep what ensures made.                                         *)

\* The pcs at which an ensure holds its container's lock, and those at which it
\* replaces the container.
Guarded == {"inspect", "recheck", "lockMounts", "stop", "remove", "create", "upsert"}
Replaced == {"lockMounts", "stop", "remove", "create"}

EnsureHolds(r) ==
    req[r].op = "ensure" =>
        /\ ~req[r].restoring
        /\ req[r].pc \in Guarded
              => /\ containerLock[req[r].c] = r
                 /\ rec[req[r].c] # None /\ req[r].draft = rec[req[r].c]
        /\ req[r].pc \in Replaced => ~Usable(req[r].c, rec[req[r].c])

OnlyEnsuresSoFar == OnlyEnsures /\ faults = 0
IdleHasNoOp == \A r \in Request : req[r].pc = "idle" <=> req[r].op = "none"
EnsuresHold == RecordsListed /\ \A r \in Request : EnsureHolds(r)

UsableInv == EnsurePhases /\ IdleHasNoOp /\ (OnlyEnsuresSoFar => EnsuresHold)

LEMMA NoFault ==
    ASSUME TypeOK, faults' = 0, NEW kind
    PROVE  ~Fault(kind)
<1>1. faults \in Nat
  BY InputAssumption DEF TypeOK
<1> QED BY <1>1 DEF Fault

\* faults counts up: at none, none has happened.
LEMMA FaultsCount ==
    ASSUME TypeOK, [Next]_vars, faults' = 0
    PROVE  faults = 0
<1>1. ASSUME NEW r \in Request, Calls(r) PROVE faults' = faults \/ \E kind : Fault(kind)
  BY <1>1 DEF Calls, CallEnsure, CallMutate, CallStart, CallRemoveContainer, CallSetPaths,
              CallCreateWorkspace, CallRemoveWorkspace, CallReconcile
<1>2. ASSUME NEW r \in Request, Steps(r) PROVE faults' = faults \/ \E kind : Fault(kind)
  <2>1. CASE LockContainer(r) \/ Inspect(r) \/ Recheck(r) \/ LockMounts(r)
    BY <2>1 DEF LockContainer, Inspect, Recheck, LockMounts
  <2>2. CASE StopOld(r) \/ RemoveOld(r) \/ CreateNew(r) \/ Cleanup(r)
    BY <2>2 DEF StopOld, RemoveOld, CreateNew, Cleanup
  <2>3. CASE Upsert(r) \/ ReplaceWorkspace(r) \/ DropRecord(r) \/ DropWorkspace(r) \/ Apply(r)
    BY <2>3 DEF Upsert, ReplaceWorkspace, DropRecord, DropWorkspace, Apply, WriteFails
  <2>4. CASE RemovePodman(r) \/ PodCheck(r) \/ PodRemove(r) \/ WorkspacePod(r)
    BY <2>4 DEF RemovePodman, PodCheck, PodRemove, WorkspacePod
  <2> QED BY <1>2, <2>1, <2>2, <2>3, <2>4 DEF Steps
<1>3. faults' = faults \/ \E kind : Fault(kind)
  BY <1>1, <1>2 DEF Next, DeletedOutside, RunStateChanges, Restart, vars
<1> QED BY <1>3, NoFault

LEMMA StepsBusy ==
    ASSUME NEW r \in Request, Steps(r)
    PROVE  req[r].pc # "idle"
  BY DEF Steps, LockContainer, Inspect, Recheck, LockMounts, StopOld, RemoveOld, CreateNew, Cleanup,
         Upsert, ReplaceWorkspace, RemovePodman, DropRecord, PodCheck, PodRemove, WorkspacePod,
         DropWorkspace, Apply

\* A call never becomes idle again.
LEMMA StepNotIdle ==
    ASSUME TypeInv, NEW r \in Request, Steps(r)
    PROVE  req'[r].pc # "idle"
<1>1. TypeOK /\ req[r] \in Process
  BY DEF TypeInv, TypeOK
<1>2. \A pc : Goto(r, pc) => req'[r].pc = pc
  BY <1>1, GotoFields
<1>3. \A outcome : Return(r, outcome) => req'[r].pc = "done"
  BY <1>1, ReturnFields
<1>4. \A refused : Abort(r, refused) => req'[r].pc \in {"lockMounts", "done"}
  BY <1>1, AbortReads
<1>5. CASE LockContainer(r)
  <2>1. \/ req'[r] = Ended(req[r], "error")
        \/ req'[r] = [req[r] EXCEPT !.pc = "inspect", !.draft = rec[req[r].c], !.seen = Siblings(req[r].c)]
    BY <1>1, <1>5 DEF LockContainer, TypeOK
  <2>2. Ended(req[r], "error").pc = "done"
    BY EndedFields
  <2>3. [req[r] EXCEPT !.pc = "inspect", !.draft = rec[req[r].c], !.seen = Siblings(req[r].c)].pc = "inspect"
    BY <1>1 DEF Process
  <2> QED BY <2>1, <2>2, <2>3
<1>6. CASE LockMounts(r)
  <2>1. CASE req' = [req EXCEPT ![r].pc = "stop", ![r].had = @ \/ podman[req[r].c] # None]
    <3>1. req'[r].pc = "stop"
      BY <1>1, <2>1 DEF TypeOK, Process
    <3> QED BY <3>1
  <2> QED BY <1>3, <1>4, <1>6, <2>1 DEF LockMounts
<1>7. CASE CreateNew(r)
  <2>1. PICK next : next = CASE req[r].restoring -> "restored"
                             [] req[r].op = "createWorkspace" -> "replace"
                             [] OTHER -> "upsert"
    OBVIOUS
  <2>2. next # "idle"
    BY <2>1
  <2>3. \/ Return(r, "error") \/ Goto(r, "cleanup") \/ \E refused : Abort(r, refused)
        \/ \E t \in Token : req' = [req EXCEPT ![r] = [Tokened(req[r], t) EXCEPT !.pc = next]]
    BY <1>7, <2>1 DEF CreateNew
  <2>4. ASSUME NEW t \in Token, req' = [req EXCEPT ![r] = [Tokened(req[r], t) EXCEPT !.pc = next]]
        PROVE  req'[r].pc = next
    BY <1>1, <2>4 DEF TypeOK, Tokened, Process
  <2> QED BY <1>2, <1>3, <1>4, <2>2, <2>3, <2>4
<1>8. CASE Inspect(r) \/ Recheck(r) \/ StopOld(r) \/ RemoveOld(r) \/ Cleanup(r)
  BY <1>2, <1>3, <1>4, <1>8 DEF Inspect, Recheck, StopOld, RemoveOld, Cleanup
<1>9. CASE Upsert(r) \/ ReplaceWorkspace(r) \/ DropWorkspace(r) \/ Apply(r) \/ PodRemove(r)
  BY <1>3, <1>9 DEF Upsert, ReplaceWorkspace, DropWorkspace, Apply, PodRemove, WriteFails
<1>10. CASE RemovePodman(r) \/ DropRecord(r) \/ PodCheck(r) \/ WorkspacePod(r)
  BY <1>2, <1>3, <1>10 DEF RemovePodman, DropRecord, PodCheck, WorkspacePod, WriteFails
<1> QED BY <1>5, <1>6, <1>7, <1>8, <1>9, <1>10 DEF Steps

LEMMA NextKeepsIdle ==
    ASSUME TypeInv, IdleHasNoOp, [Next]_vars
    PROVE  IdleHasNoOp'
<1>1. ASSUME NEW r \in Request, Calls(r) PROVE IdleHasNoOp'
  <2>1. req'[r].pc # "idle" /\ req'[r].op # "none"
    <3>1. ASSUME NEW op, NEW c, NEW pc, NEW draft, NEW snap,
                 req' = [req EXCEPT ![r] = Received(op, c, pc, draft, snap)], pc # "idle",
                 op # "none"
          PROVE  req'[r].pc # "idle" /\ req'[r].op # "none"
      <4>1. req'[r] = Received(op, c, pc, draft, snap)
        BY <3>1 DEF TypeInv, TypeOK
      <4> QED BY <3>1, <4>1, ReceivedReads
    <3>2. CASE CallReconcile(r)
      <4>1. PICK gone : req' = [req EXCEPT ![r] = [Idle EXCEPT !.pc = "apply", !.op = "reconcile",
                                                       !.seen = rec, !.gone = gone]]
        BY <3>2 DEF CallReconcile
      <4>2. req'[r] = [Idle EXCEPT !.pc = "apply", !.op = "reconcile", !.seen = rec, !.gone = gone]
        BY <4>1 DEF TypeInv, TypeOK
      <4> QED BY <4>2 DEF Idle
    <3>3. CASE ~CallReconcile(r)
      <4>1. PICK op, c, pc, draft, snap :
              pc # "idle" /\ op # "none" /\ req' = [req EXCEPT ![r] = Received(op, c, pc, draft, snap)]
        <5>1. ASSUME NEW w \in Workspace, CallCreateWorkspace(r, w) \/ CallRemoveWorkspace(r, w)
              PROVE  \E op, c, pc, draft, snap :
                        pc # "idle" /\ op # "none" /\ req' = [req EXCEPT ![r] = Received(op, c, pc, draft, snap)]
          <6>1. PICK c : c = DefaultOf[w]
            OBVIOUS
          <6>2. \/ \E draft : req' = [req EXCEPT ![r] =
                              Received("createWorkspace", c, "lockMounts", draft, rec[c])]
                \/ req' = [req EXCEPT ![r] = Received("removeWorkspace", c, "workspacePod", None, None)]
            BY <5>1, <6>1 DEF CallCreateWorkspace, CallRemoveWorkspace
          <6> QED BY <6>2
        <5>2. ASSUME NEW c \in Container, CallMutate(r, c) \/ CallStart(r, c)
              PROVE  \E op, pc, draft, snap :
                        pc # "idle" /\ op # "none" /\ req' = [req EXCEPT ![r] = Received(op, c, pc, draft, snap)]
          <6>1. PICK op, draft : op # "none" /\ req' = [req EXCEPT ![r] = Received(op, c, "lockMounts", draft, rec[c])]
            BY <5>2 DEF CallMutate, CallStart
          <6> QED BY <6>1
        <5>3. ASSUME NEW c \in Container, CallEnsure(r, c) \/ CallRemoveContainer(r, c) \/ CallSetPaths(r, c)
              PROVE  \E op, pc, draft, snap :
                        pc # "idle" /\ op # "none" /\ req' = [req EXCEPT ![r] = Received(op, c, pc, draft, snap)]
          BY <5>3 DEF CallEnsure, CallRemoveContainer, CallSetPaths
        <5> QED BY <1>1, <3>3, <5>1, <5>2, <5>3 DEF Calls
      <4> QED BY <3>1, <4>1
    <3> QED BY <3>2, <3>3
  <2> QED BY <1>1, <2>1, CallPhase DEF TypeInv, OthersStay, IdleHasNoOp
<1>2. ASSUME NEW r \in Request, Steps(r) PROVE IdleHasNoOp'
  <2>1. req[r].pc # "idle"
    BY <1>2, StepsBusy
  <2> QED BY <1>2, <2>1, StepNotIdle, StepKeepsOp DEF OthersStay, IdleHasNoOp
<1>3. CASE \/ \E c \in Container : DeletedOutside(c) \/ RunStateChanges(c)
           \/ Restart
           \/ UNCHANGED vars
  BY <1>3, OutsidePhases DEF IdleHasNoOp, InFlight
<1> QED BY <1>1, <1>2, <1>3 DEF Next

LEMMA OnlyEnsuresBefore ==
    ASSUME TypeInv, IdleHasNoOp, [Next]_vars, OnlyEnsuresSoFar'
    PROVE  OnlyEnsuresSoFar
<1>1. faults = 0
  BY FaultsCount DEF TypeInv, OnlyEnsuresSoFar
<1>2. ASSUME NEW q \in Request PROVE req[q].op = req'[q].op \/ req[q].op = "none"
  <2>1. ASSUME NEW r \in Request, Calls(r) PROVE req[q].op = req'[q].op \/ req[q].op = "none"
    BY <2>1, CallPhase DEF TypeInv, OthersStay, IdleHasNoOp
  <2>2. ASSUME NEW r \in Request, Steps(r) PROVE req[q].op = req'[q].op
    BY <2>2, StepKeepsOp DEF OthersStay
  <2> QED BY <2>1, <2>2, OutsidePhases DEF Next
<1> QED BY <1>1, <1>2 DEF OnlyEnsuresSoFar, OnlyEnsures

\* What a step of an ensure leaves to the others.
KeepsOthers(r) ==
    /\ \A q \in Request \ {r} : req'[q] = req[q]
    /\ \A q \in Request \ {r}, d \in Container : containerLock[d] = q => containerLock'[d] = q
    /\ rec' = rec /\ stored \subseteq stored'
    /\ \A d \in Container : podman'[d] = podman[d] \/ containerLock[d] = r

LEMMA OthersHold ==
    ASSUME TypeInv, EnsurePhases, EnsuresHold, NEW r \in Request, KeepsOthers(r),
           NEW q \in Request \ {r}
    PROVE  EnsureHolds(q)'
<1>1. req'[q] = req[q] /\ EnsureHolds(q)
  BY DEF KeepsOthers, EnsuresHold
<1>2. CASE req[q].op = "ensure" /\ req[q].pc \in Guarded
  <2>1. PICK c : c = req[q].c
    OBVIOUS
  <2>2. containerLock[c] = q /\ c \in Container
    BY <1>1, <1>2, <2>1 DEF EnsureHolds, TypeInv, ShapedCall, Guarded
  <2>3. containerLock'[c] = q /\ podman'[c] = podman[c] /\ rec' = rec
    BY <2>2 DEF KeepsOthers
  <2> QED BY <1>1, <1>2, <2>1, <2>3 DEF EnsureHolds, Usable, Matches
<1>3. CASE req[q].pc \notin Guarded
  <2>1. req[q].pc \notin Replaced
    BY <1>3 DEF Guarded, Replaced
  <2> QED BY <1>1, <1>3, <2>1 DEF EnsureHolds
<1> QED BY <1>1, <1>2, <1>3 DEF EnsureHolds

\* A fault-free step of an ensure.
EnsureWorks(r) ==
    /\ KeepsOthers(r) /\ EnsureHolds(r)'
    /\ \A d \in Container : podman'[d] = podman[d] \/ ~Usable(d, rec[d])

LEMMA EnsureEnds ==
    ASSUME TypeInv, EnsuresHold, NEW r \in Request, req[r].op = "ensure", req[r].pc \in Guarded,
           UNCHANGED <<rec, podman>>, stored \subseteq stored',
           (\E outcome : Return(r, outcome)) \/ (\E refused \in BOOLEAN : Abort(r, refused))
    PROVE  EnsureWorks(r)
<1>1. ~Restores(req[r])
  BY DEF Restores
<1>2. OthersStay(r) /\ req'[r].pc = "done" /\ req'[r].op = "ensure"
  BY <1>1, ReturnFields, AbortFields DEF TypeInv
<1>3. containerLock' = [d \in Container |-> Release(containerLock[d], r)]
  BY <1>1 DEF Return, Abort
<1>4. ~req'[r].restoring
  <2>1. \A p, outcome : ~Ended(p, outcome).restoring
    BY DEF Ended, Idle
  <2>2. \E p, outcome : req'[r] = Ended(p, outcome)
    <3>1. CASE \E outcome : Return(r, outcome)
      BY <3>1 DEF Return, TypeInv, TypeOK
    <3>2. ASSUME NEW refused \in BOOLEAN, Abort(r, refused)
          PROVE  \E p, outcome : req'[r] = Ended(p, outcome)
      <4>1. req'[r] = Ended([req[r] EXCEPT !.refused = @ \/ refused, !.unrestored = req[r].restoring],
                            "error")
        BY <1>1, <3>2 DEF Abort, TypeInv, TypeOK
      <4> QED BY <4>1
    <3> QED BY <3>1, <3>2
  <2> QED BY <2>1, <2>2
<1>5. KeepsOthers(r)
  BY <1>2, <1>3 DEF KeepsOthers, OthersStay, Release
<1>6. EnsureHolds(r)'
  BY <1>2, <1>4 DEF EnsureHolds, Guarded, Replaced
<1> QED BY <1>5, <1>6 DEF EnsureWorks

\* The step to the next pc.
LEMMA EnsureGoesOn ==
    ASSUME TypeInv, EnsuresHold, NEW r \in Request, req[r].op = "ensure", req[r].pc \in Guarded,
           NEW c, c = req[r].c,
           OthersStay(r), req'[r].op = "ensure", req'[r].c = c, req'[r].draft = req[r].draft,
           req'[r].restoring = req[r].restoring, UNCHANGED <<rec, stored, containerLock>>,
           \A d \in Container : d # c => podman'[d] = podman[d],
           podman'[c] = podman[c] \/ ~Usable(c, rec[c]),
           req'[r].pc \in Replaced => ~Usable(c, rec[c])'
    PROVE  EnsureWorks(r)
<1>1. c \in Container /\ containerLock[c] = r /\ rec[c] # None /\ req[r].draft = rec[c]
  BY DEF EnsuresHold, EnsureHolds, TypeInv, ShapedCall, Guarded
<1>2. KeepsOthers(r)
  BY <1>1 DEF KeepsOthers, OthersStay
<1>3. EnsureHolds(r)'
  BY <1>1 DEF EnsuresHold, EnsureHolds
<1> QED BY <1>2, <1>3 DEF EnsureWorks

LEMMA GotoOn ==
    ASSUME TypeOK, NEW r \in Request, NEW pc, Goto(r, pc)
    PROVE  /\ OthersStay(r) /\ req'[r].pc = pc /\ req'[r].draft = req[r].draft
           /\ req'[r].c = req[r].c /\ req'[r].op = req[r].op /\ req'[r].restoring = req[r].restoring
  BY GotoFields DEF Carried

LEMMA EnsureStepWorks ==
    ASSUME TypeInv, EnsurePhases, EnsuresHold, NEW r \in Request, Steps(r), req[r].op = "ensure",
           faults' = 0
    PROVE  EnsureWorks(r)
<1>0. PICK c, draft : c = req[r].c /\ draft = req[r].draft
  OBVIOUS
<1>1. TypeOK /\ req[r] \in Process /\ EnsureHolds(r) /\ \A kind : ~Fault(kind)
  BY NoFault DEF TypeInv, TypeOK, EnsuresHold
<1>2. req[r].pc \in {"lockContainer", "inspect", "recheck", "lockMounts", "stop", "remove", "create",
                     "upsert", "done"}
  BY DEF EnsurePhases, EnsurePhase
<1>3. ~req[r].restoring
  BY <1>1 DEF EnsureHolds
<1>4. req[r].pc \in Guarded => /\ c \in Container /\ containerLock[c] = r
                               /\ rec[c] # None /\ draft = rec[c]
  BY <1>0, <1>1 DEF EnsureHolds, TypeInv, ShapedCall, Guarded
<1>5. CASE LockContainer(r)
  <2>1. /\ UNCHANGED <<stored, rec, podman>> /\ OthersStay(r) /\ containerLock[c] = None
        /\ req[r].pc = "lockContainer" /\ c \in Container
    BY <1>0, <1>1, <1>5 DEF LockContainer, OthersStay, TypeOK, TypeInv, ShapedCall
  <2>2. CASE rec[c] = None
    <3>1. req'[r] = Ended(req[r], "error") /\ containerLock' = containerLock
      BY <1>0, <1>1, <1>5, <2>2 DEF LockContainer, TypeOK
    <3>2. Ended(req[r], "error").pc = "done" /\ ~Ended(req[r], "error").restoring
      BY DEF Ended, Idle
    <3>3. EnsureHolds(r)'
      BY <3>1, <3>2 DEF EnsureHolds, Guarded, Replaced
    <3>4. KeepsOthers(r)
      BY <2>1, <3>1 DEF KeepsOthers, OthersStay
    <3> QED BY <2>1, <3>3, <3>4 DEF EnsureWorks
  <2>3. CASE rec[c] # None
    <3>1. /\ req'[r] = [req[r] EXCEPT !.pc = "inspect", !.draft = rec[c], !.seen = Siblings(c)]
          /\ containerLock' = [containerLock EXCEPT ![c] = r]
      BY <1>0, <1>1, <1>5, <2>3 DEF LockContainer, TypeOK
    <3>2. /\ req'[r].pc = "inspect" /\ req'[r].draft = rec[c] /\ req'[r].c = c
          /\ req'[r].restoring = req[r].restoring
      BY <1>0, <1>1, <3>1 DEF Process
    <3>3. containerLock'[c] = r /\ \A d \in Container : d # c => containerLock'[d] = containerLock[d]
      BY <1>1, <2>1, <3>1 DEF TypeOK
    <3>4. EnsureHolds(r)'
      BY <1>3, <2>1, <2>3, <3>2, <3>3 DEF EnsureHolds, Replaced
    <3>5. KeepsOthers(r)
      BY <2>1, <3>3, NoneAssumption DEF KeepsOthers, OthersStay
    <3> QED BY <2>1, <3>4, <3>5 DEF EnsureWorks
  <2> QED BY <2>2, <2>3
<1>6. CASE Inspect(r)
  <2>1. req[r].pc \in Guarded /\ UNCHANGED <<stored, rec, podman, containerLock>>
    BY <1>1, <1>6 DEF Inspect, Guarded
  <2>2. PICK pc : Goto(r, pc) /\ pc = IF Usable(c, draft) THEN "recheck" ELSE "lockMounts"
    BY <1>0, <1>1, <1>6 DEF Inspect
  <2>3. /\ OthersStay(r) /\ req'[r].pc = pc /\ req'[r].draft = req[r].draft
        /\ req'[r].c = c /\ req'[r].op = "ensure" /\ req'[r].restoring = req[r].restoring
    BY <1>0, <1>1, <2>2, GotoOn
  <2>4. pc \in Replaced => ~Usable(c, rec[c])'
    BY <1>4, <2>1, <2>2 DEF Replaced, Usable, Matches
  <2> QED BY <1>0, <2>1, <2>3, <2>4, EnsureGoesOn
<1>7. CASE Recheck(r)
  BY <1>7, EnsureEnds DEF Recheck, Guarded
<1>8. CASE LockMounts(r)
  <2>1. req[r].pc \in Guarded /\ req[r].pc = "lockMounts" /\ UNCHANGED <<stored, rec, podman>>
    BY <1>8 DEF LockMounts, Guarded
  <2>2. CASE (\E outcome : Return(r, outcome)) \/ (\E refused \in BOOLEAN : Abort(r, refused))
    BY <2>1, <2>2, EnsureEnds
  <2>3. CASE /\ req' = [req EXCEPT ![r].pc = "stop", ![r].had = @ \/ podman[req[r].c] # None]
             /\ UNCHANGED containerLock
    <3>1. /\ OthersStay(r) /\ req'[r].pc = "stop" /\ req'[r].draft = req[r].draft
          /\ req'[r].c = c /\ req'[r].op = "ensure" /\ req'[r].restoring = req[r].restoring
      BY <1>0, <1>1, <2>3 DEF TypeOK, Process, OthersStay
    <3>2. ~Usable(c, rec[c])'
      BY <1>0, <1>1, <2>1 DEF EnsureHolds, Replaced, Usable, Matches
    <3> QED BY <1>0, <2>1, <2>3, <3>1, <3>2, EnsureGoesOn
  <2> QED BY <1>8, <2>2, <2>3 DEF LockMounts
<1>9. CASE StopOld(r)
  <2>1. /\ req[r].pc \in Guarded /\ req[r].pc \in Replaced /\ UNCHANGED <<stored, rec, containerLock>>
        /\ Goto(r, "remove")
        /\ \/ podman' = podman
           \/ podman[c] # None /\ podman' = [podman EXCEPT ![c].running = FALSE]
    BY <1>0, <1>1, <1>9 DEF StopOld, Guarded, Replaced
  <2>2. /\ OthersStay(r) /\ req'[r].draft = req[r].draft
        /\ req'[r].c = c /\ req'[r].op = "ensure" /\ req'[r].restoring = req[r].restoring
    BY <1>0, <1>1, <2>1, GotoOn
  <2>3. ~Usable(c, rec[c])
    BY <1>0, <1>1, <2>1 DEF EnsureHolds
  <2>4. CASE podman' = podman
    <3>1. ~Usable(c, rec[c])'
      BY <2>1, <2>3, <2>4 DEF Usable, Matches
    <3> QED BY <1>0, <2>1, <2>2, <2>3, <2>4, <3>1, EnsureGoesOn
  <2>5. CASE podman[c] # None /\ podman' = [podman EXCEPT ![c].running = FALSE]
    <3>1. ~podman'[c].running /\ \A d \in Container : d # c => podman'[d] = podman[d]
      BY <1>1, <1>4, <2>1, <2>5 DEF TypeOK, PodmanContainer
    <3>2. ~Usable(c, rec[c])'
      BY <3>1 DEF Usable
    <3> QED BY <1>0, <2>1, <2>2, <2>3, <3>1, <3>2, EnsureGoesOn
  <2> QED BY <2>1, <2>4, <2>5
<1>10. CASE RemoveOld(r)
  <2>1. /\ req[r].pc \in Guarded /\ req[r].pc \in Replaced /\ UNCHANGED <<stored, rec, containerLock>>
        /\ Goto(r, "create") /\ podman' = [podman EXCEPT ![c] = None]
    BY <1>0, <1>1, <1>10 DEF RemoveOld, Guarded, Replaced
  <2>2. /\ OthersStay(r) /\ req'[r].draft = req[r].draft
        /\ req'[r].c = c /\ req'[r].op = "ensure" /\ req'[r].restoring = req[r].restoring
    BY <1>0, <1>1, <2>1, GotoOn
  <2>3. ~Usable(c, rec[c])
    BY <1>0, <1>1, <2>1 DEF EnsureHolds
  <2>4. podman'[c] = None /\ \A d \in Container : d # c => podman'[d] = podman[d]
    BY <1>1, <1>4, <2>1 DEF TypeOK
  <2>5. ~Usable(c, rec[c])'
    BY <2>4 DEF Usable, Matches
  <2> QED BY <1>0, <2>1, <2>2, <2>3, <2>4, <2>5, EnsureGoesOn
<1>11. CASE CreateNew(r)
  <2>1. PICK next : next = CASE req[r].restoring -> "restored"
                             [] req[r].op = "createWorkspace" -> "replace"
                             [] OTHER -> "upsert"
    OBVIOUS
  <2>2. next = "upsert"
    BY <1>3, <2>1
  <2>3. req[r].pc \in Guarded /\ req[r].pc \in Replaced /\ UNCHANGED <<stored, rec>>
    BY <1>11 DEF CreateNew, Guarded, Replaced
  <2>4. draft \in Record /\ draft.token # None /\ draft = rec[c]
    BY <1>1, <1>4, <2>3, NoneAssumption DEF TypeOK, Record
  <2>5. /\ podman' = [podman EXCEPT ![c] = Started(draft, draft.token)]
        /\ req' = [req EXCEPT ![r] = [Tokened(req[r], draft.token) EXCEPT !.pc = "upsert"]]
        /\ UNCHANGED containerLock
    BY <1>0, <1>1, <1>11, <2>1, <2>2, <2>4 DEF CreateNew
  <2>6. [draft EXCEPT !.token = draft.token] = draft
    BY <2>4 DEF Record
  <2>7. /\ OthersStay(r) /\ req'[r].pc = "upsert" /\ req'[r].draft = draft
        /\ req'[r].c = c /\ req'[r].op = "ensure" /\ req'[r].restoring = req[r].restoring
    BY <1>0, <1>1, <2>5, <2>6 DEF TypeOK, Process, Tokened, OthersStay
  <2>8. ~Usable(c, rec[c])
    BY <1>0, <1>1, <2>3 DEF EnsureHolds
  <2>9. \A d \in Container : d # c => podman'[d] = podman[d]
    BY <1>1, <2>5 DEF TypeOK
  <2>10. req'[r].pc \notin Replaced
    BY <2>7 DEF Replaced
  <2> QED BY <1>0, <2>3, <2>5, <2>7, <2>8, <2>9, <2>10, EnsureGoesOn
<1>12. CASE Upsert(r)
  <2>1. req[r].pc \in Guarded
    BY <1>12 DEF Upsert, Guarded
  <2>2. /\ rec' = Upserted(r) /\ stored' = stored \cup {WorkspaceOf[c]} /\ Return(r, "ok")
        /\ podman' = podman
    BY <1>0, <1>1, <1>12 DEF Upsert, WriteFails
  <2>3. WorkspaceOf[c] \in stored
    BY <1>4, <2>1 DEF EnsuresHold, RecordsListed
  <2>4. \A d \in Container : rec'[d] = rec[d]
    BY <1>0, <1>4, <2>1, <2>2, <2>3 DEF Upserted
  <2>5. rec' = rec
    BY <1>1, <2>2, <2>4 DEF Upserted, TypeOK
  <2> QED BY <2>1, <2>2, <2>5, EnsureEnds
<1>13. ~(\/ Cleanup(r) \/ ReplaceWorkspace(r) \/ RemovePodman(r) \/ DropRecord(r) \/ PodCheck(r)
         \/ PodRemove(r) \/ WorkspacePod(r) \/ DropWorkspace(r) \/ Apply(r))
  BY <1>2 DEF Cleanup, ReplaceWorkspace, RemovePodman, DropRecord, PodCheck, PodRemove, WorkspacePod,
              DropWorkspace, Apply
<1> QED BY <1>5, <1>6, <1>7, <1>8, <1>9, <1>10, <1>11, <1>12, <1>13 DEF Steps

\* Only EnsureContainer starts an ensure.
LEMMA OtherCallOp ==
    ASSUME TypeInv, NEW r \in Request, Calls(r), ~\E c \in Container : CallEnsure(r, c)
    PROVE  req'[r].op # "ensure"
<1>1. ASSUME NEW op, NEW c, NEW pc, NEW draft, NEW snap, op # "ensure",
             req' = [req EXCEPT ![r] = Received(op, c, pc, draft, snap)]
      PROVE  req'[r].op # "ensure"
  <2>1. req'[r] = Received(op, c, pc, draft, snap)
    BY <1>1 DEF TypeInv, TypeOK
  <2> QED BY <1>1, <2>1, ReceivedReads
<1>2. ASSUME NEW c \in Container, \/ CallMutate(r, c) \/ CallStart(r, c)
                                  \/ CallRemoveContainer(r, c) \/ CallSetPaths(r, c)
      PROVE  req'[r].op # "ensure"
  <2>1. PICK op, pc, draft, snap :
          op # "ensure" /\ req' = [req EXCEPT ![r] = Received(op, c, pc, draft, snap)]
    BY <1>2 DEF CallMutate, CallStart, CallRemoveContainer, CallSetPaths
  <2> QED BY <1>1, <2>1
<1>3. ASSUME NEW w \in Workspace, CallCreateWorkspace(r, w) \/ CallRemoveWorkspace(r, w)
      PROVE  req'[r].op # "ensure"
  <2>1. PICK c : c = DefaultOf[w]
    OBVIOUS
  <2>2. \/ \E draft : req' = [req EXCEPT ![r] =
                              Received("createWorkspace", c, "lockMounts", draft, rec[c])]
        \/ req' = [req EXCEPT ![r] = Received("removeWorkspace", c, "workspacePod", None, None)]
    BY <1>3, <2>1 DEF CallCreateWorkspace, CallRemoveWorkspace
  <2> QED BY <1>1, <2>2
<1>4. CASE CallReconcile(r)
  <2>1. PICK gone : req' = [req EXCEPT ![r] = [Idle EXCEPT !.pc = "apply", !.op = "reconcile",
                                                   !.seen = rec, !.gone = gone]]
    BY <1>4 DEF CallReconcile
  <2>2. req'[r] = [Idle EXCEPT !.pc = "apply", !.op = "reconcile", !.seen = rec, !.gone = gone]
    BY <2>1 DEF TypeInv, TypeOK
  <2> QED BY <2>2 DEF Idle
<1> QED BY <1>2, <1>3, <1>4 DEF Calls

\* While only ensures have run and nothing failed, the step that is taken.
LEMMA FaultFreeStep ==
    ASSUME TypeInv, UsableInv, [Next]_vars, OnlyEnsuresSoFar'
    PROVE  \/ \E r \in Request : EnsureWorks(r)
           \/ /\ UNCHANGED <<stored, rec, podman>>
              /\ EnsuresHold'
<1>1. OnlyEnsuresSoFar /\ EnsuresHold /\ EnsurePhases /\ \A kind : ~Fault(kind)
  BY OnlyEnsuresBefore, NoFault DEF UsableInv, TypeInv, OnlyEnsuresSoFar
<1>2. ASSUME NEW r \in Request, Steps(r) PROVE EnsureWorks(r)
  <2>1. req[r].op = "ensure"
    <3>1. req[r].pc # "idle"
      BY <1>2, StepsBusy
    <3> QED BY <1>1, <3>1 DEF OnlyEnsuresSoFar, OnlyEnsures, UsableInv, IdleHasNoOp
  <2> QED BY <1>1, <1>2, <2>1, EnsureStepWorks DEF OnlyEnsuresSoFar
<1>3. ASSUME NEW r \in Request, Calls(r)
      PROVE  UNCHANGED <<stored, rec, podman>> /\ EnsuresHold'
  <2>1. UNCHANGED <<stored, rec, podman, containerLock>>
    BY <1>3 DEF Calls, CallEnsure, CallMutate, CallStart, CallRemoveContainer, CallSetPaths,
                CallCreateWorkspace, CallRemoveWorkspace, CallReconcile
  <2>2. OthersStay(r) /\ req[r].pc = "idle"
    BY <1>3, CallPhase DEF TypeInv
  <2>3. EnsureHolds(r)'
    <3>1. ASSUME NEW c \in Container, CallEnsure(r, c) PROVE EnsureHolds(r)'
      <4>1. req'[r] = Received("ensure", c, "lockContainer", None, None)
        BY <3>1 DEF CallEnsure, TypeInv, TypeOK
      <4>2. /\ Received("ensure", c, "lockContainer", None, None).pc = "lockContainer"
            /\ ~Received("ensure", c, "lockContainer", None, None).restoring
        BY DEF Received, Idle
      <4> QED BY <4>1, <4>2 DEF EnsureHolds, Guarded, Replaced
    <3>2. CASE ~\E c \in Container : CallEnsure(r, c)
      <4>1. req'[r].op # "ensure"
        BY <1>3, <3>2, OtherCallOp
      <4> QED BY <4>1 DEF EnsureHolds
    <3> QED BY <3>1, <3>2
  <2>4. \A q \in Request \ {r} : EnsureHolds(q)'
    BY <1>1, <2>1, <2>2 DEF EnsuresHold, OthersStay, EnsureHolds, Usable, Matches
  <2>5. RecordsListed'
    BY <1>1, <2>1 DEF EnsuresHold, RecordsListed
  <2> QED BY <2>1, <2>3, <2>4, <2>5 DEF EnsuresHold
<1>4. ~(Restart \/ \E c \in Container : DeletedOutside(c) \/ RunStateChanges(c))
  BY <1>1 DEF Restart, DeletedOutside, RunStateChanges
<1>5. CASE UNCHANGED vars
  <2>1. UNCHANGED <<stored, rec, podman, req, containerLock>>
    BY <1>5 DEF vars
  <2> QED BY <1>1, <2>1 DEF EnsuresHold, RecordsListed, EnsureHolds, Usable, Matches
<1> QED BY <1>2, <1>3, <1>4, <1>5 DEF Next

LEMMA NextKeepsUsableInv ==
    ASSUME TypeInv, UsableInv, [Next]_vars
    PROVE  UsableInv'
<1>1. EnsurePhases' /\ IdleHasNoOp'
  BY NextKeepsPhases, NextKeepsIdle DEF UsableInv
<1>2. ASSUME OnlyEnsuresSoFar' PROVE EnsuresHold'
  <2>1. EnsuresHold /\ EnsurePhases
    BY <1>2, OnlyEnsuresBefore DEF UsableInv
  <2>2. ASSUME NEW r \in Request, EnsureWorks(r) PROVE EnsuresHold'
    <3>1. RecordsListed'
      BY <2>1, <2>2 DEF EnsureWorks, KeepsOthers, EnsuresHold, RecordsListed
    <3>2. \A q \in Request : EnsureHolds(q)'
      BY <2>1, <2>2, OthersHold DEF EnsureWorks
    <3> QED BY <3>1, <3>2 DEF EnsuresHold
  <2> QED BY <1>2, <2>2, FaultFreeStep
<1> QED BY <1>1, <1>2 DEF UsableInv

LEMMA InitUsable == Init => UsableInv
<1> SUFFICES ASSUME Init PROVE UsableInv
  OBVIOUS
<1>1. \A r \in Request : req[r] = Idle
  BY DEF Init
<1>2. Idle.pc = "idle" /\ Idle.op = "none"
  BY DEF Idle
<1>3. RecordsListed
  BY DEF Init, RecordsListed
<1>4. \A r \in Request : EnsureHolds(r)
  BY <1>1, <1>2 DEF EnsureHolds
<1>5. IdleHasNoOp
  BY <1>1, <1>2 DEF IdleHasNoOp
<1> QED BY <1>3, <1>4, <1>5, InitPhases DEF UsableInv, EnsuresHold

LEMMA UsableStep ==
    ASSUME TypeInv, UsableInv, [Next]_vars, NEW c \in Container,
           rec[c] # None, Usable(c, rec[c]), OnlyEnsures, faults' = 0
    PROVE  rec'[c] = rec[c] /\ Usable(c, rec[c])'
<1>1. faults = 0 /\ \A kind : ~Fault(kind)
  BY FaultsCount, NoFault DEF TypeInv
<1>2. EnsuresHold /\ EnsurePhases
  BY <1>1 DEF UsableInv, OnlyEnsuresSoFar
<1>3. ASSUME NEW r \in Request, Steps(r) PROVE rec'[c] = rec[c] /\ Usable(c, rec[c])'
  <2>1. req[r].pc # "idle"
    BY <1>3, StepsBusy
  <2>2. req[r].op = "ensure"
    BY <2>1 DEF OnlyEnsures, UsableInv, IdleHasNoOp
  <2>3. EnsureWorks(r)
    BY <1>2, <1>3, <2>2, EnsureStepWorks
  <2>4. rec' = rec /\ podman'[c] = podman[c]
    BY <2>3 DEF EnsureWorks, KeepsOthers
  <2> QED BY <2>4 DEF Usable, Matches
<1>4. ASSUME UNCHANGED <<rec, podman>> PROVE rec'[c] = rec[c] /\ Usable(c, rec[c])'
  BY <1>4 DEF Usable, Matches
<1>5. ASSUME NEW r \in Request, Calls(r) PROVE UNCHANGED <<rec, podman>>
  BY <1>5 DEF Calls, CallEnsure, CallMutate, CallStart, CallRemoveContainer, CallSetPaths,
              CallCreateWorkspace, CallRemoveWorkspace, CallReconcile
<1>6. ~(Restart \/ \E d \in Container : DeletedOutside(d) \/ RunStateChanges(d))
  BY <1>1 DEF Restart, DeletedOutside, RunStateChanges
<1>7. CASE UNCHANGED vars
  BY <1>4, <1>7 DEF vars
<1> QED BY <1>3, <1>4, <1>5, <1>6, <1>7 DEF Next

\* Server.containerLocks and the record read again under the lock: of any number of
\* overlapping ensures none replaces a container another made usable, or changes
\* the credential that was handed out.
THEOREM EnsuresKeepUsable == Spec => EnsureKeepsUsable
<1>1. TypeInv /\ UsableInv /\ [Next]_vars
        => [\A c \in Container :
              rec[c] # None /\ Usable(c, rec[c]) /\ OnlyEnsures /\ faults' = 0
                 => rec'[c] = rec[c] /\ Usable(c, rec[c])']_vars
  BY UsableStep
<1>2. TypeInv /\ UsableInv /\ [Next]_vars => UsableInv'
  BY NextKeepsUsableInv
<1>3. Spec => []TypeInv
  BY InitTyped, NextKeepsTypes, PTL DEF Spec
<1> QED BY <1>1, <1>2, <1>3, InitUsable, PTL DEF Spec, EnsureKeepsUsable

===============================================================================
