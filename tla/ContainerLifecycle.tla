-------------------------- MODULE ContainerLifecycle --------------------------
(***************************************************************************)
(* The orchestrator's container control calls (internal/orchestrator/      *)
(* grpcserver): the stored workspace records, the podman containers they   *)
(* describe, and the two locks the handlers take.                          *)
(*                                                                         *)
(* A control call is a process.  Its handler is cut where another handler  *)
(* or podman can act in between: reading the store, taking a lock, each    *)
(* podman call, and the atomic store update at the end.  What a handler    *)
(* read earlier stays in its process record and may be stale when used.    *)
(***************************************************************************)
EXTENDS Integers, FiniteSets

CONSTANTS
    Workspace,      \* workspace slugs
    Container,      \* podman names; a podman name is unique per slug and name
    WorkspaceOf,    \* [Container -> Workspace]: the slug in a podman name
    DefaultOf,      \* [Workspace -> Container]: the default container's name
    ProjectOf,      \* [Workspace -> Dir]: the workspace's project directory
    Dir,            \* host project directories
    Above,          \* pairs <<outer, inner>>: outer is a strict path ancestor
    Token,          \* agent credentials
    Request,        \* control calls, each handled once
    Op,             \* the calls that may be issued
    FaultKinds,     \* the faults that may happen
    MaxFaults,      \* bound on how many do
    Serial,         \* TRUE: a call is issued only when none is in flight
    InitialMounts,  \* [Container -> SUBSET Mounts]: settled containers' mounts
    InitialToken,   \* [Container -> Token]
    None            \* no record, no container, no lock holder, no token

AllOps == {"ensure", "mutate", "start", "createWorkspace", "removeContainer",
           "removeWorkspace", "setPaths", "reconcile"}

\* A podman command fails, a write of the state file fails, a container is
\* deleted or changes its run state by itself, the orchestrator restarts.
AllFaults == {"podman", "store", "outside", "restart"}

Mode == {"none", "ro", "rw"}

\* The project mounts of a container; a directory is mounted at most once.
Mounts == [Dir -> Mode]

ASSUME NamesAssumption ==
    /\ WorkspaceOf \in [Container -> Workspace]
    /\ DefaultOf \in [Workspace -> Container]
    /\ \A w \in Workspace : WorkspaceOf[DefaultOf[w]] = w
    /\ ProjectOf \in [Workspace -> Dir]
    /\ Above \subseteq Dir \X Dir

ASSUME NoneAssumption ==
    /\ None \notin Container \cup Request \cup Token
    /\ None \notin [mounts : Mounts, token : Token \cup {None}]
    /\ None \notin [mounts : Mounts, token : Token,
                    running : BOOLEAN, current : BOOLEAN]

ASSUME InputAssumption ==
    /\ Token \subseteq Nat
    /\ Op \subseteq AllOps
    /\ FaultKinds \subseteq AllFaults
    /\ MaxFaults \in Nat
    /\ Serial \in BOOLEAN
    /\ InitialMounts \in [Container -> SUBSET Mounts]
    /\ InitialToken \in [Container -> Token]

VARIABLES
    stored,         \* the slugs in the workspaces file
    rec,            \* rec[c]: the stored container record, or None
    podman,         \* podman[c]: the podman container, running or not, or None
    req,            \* req[r]: the handler processing call r
    mountsLock,     \* holder of Server.mountsMu
    containerLock,  \* holder of each Server.containerLocks entry
    faults          \* faults so far

vars == <<stored, rec, podman, req, mountsLock, containerLock, faults>>

-------------------------------------------------------------------------------
(* Mounts.                                                                 *)

\* pathsStrictAncestor and bindReadWrite over every pair of binds: the outer
\* one is read-write and the inner one lies below it.
WritesAbove(m, n) == \E p \in Above : m[p[1]] = "rw" /\ n[p[2]] # "none"

Nested(m, n) == WritesAbove(m, n) \/ WritesAbove(n, m)

\* ensureWorkspaceProjectMount: appended read-write when missing.
WithProject(m, w) ==
    IF m[ProjectOf[w]] = "none" THEN [m EXCEPT ![ProjectOf[w]] = "rw"] ELSE m

IsDefault(c) == c = DefaultOf[WorkspaceOf[c]]

Effective(m, c) == IF IsDefault(c) THEN WithProject(m, WorkspaceOf[c]) ELSE m

Record == [mounts : Mounts, token : Token]

\* A record being built; StartContainer mints its token after the removal.
Draft == [mounts : Mounts, token : Token \cup {None}]

PodmanContainer == [mounts : Mounts, token : Token,
                    running : BOOLEAN, current : BOOLEAN]

-------------------------------------------------------------------------------
(* Handler processes.                                                      *)

PC == {"idle", "lockContainer", "inspect", "recheck", "lockMounts", "stop",
       "remove", "create", "cleanup", "upsert", "replace", "removePodman",
       "dropRecord", "podCheck", "podRemove", "workspacePod",
       "dropWorkspace", "apply", "done"}

Process ==
    [pc : PC,
     op : AllOps \cup {"none"},
     c : Container \cup {None},
     draft : Draft \cup {None},        \* the record the handler works on
     snap : Record \cup {None},        \* snapshot a failed recreate restores
     seen : [Container -> Record \cup {None}], \* other records it has read
     gone : SUBSET Container,          \* reconcile's drop verdicts
     had : BOOLEAN,                    \* the container existed when replaced
     refused : BOOLEAN,                \* the conflict check refused the call
     restoring : BOOLEAN,              \* inside restoreSnapshot
     unrestored : BOOLEAN,             \* history: restoreSnapshot failed
     outcome : {"none", "ok", "error"}]

NothingSeen == [c \in Container |-> None]

Idle == [pc |-> "idle", op |-> "none", c |-> None, draft |-> None,
         snap |-> None, seen |-> NothingSeen, gone |-> {}, had |-> FALSE,
         refused |-> FALSE, restoring |-> FALSE, unrestored |-> FALSE,
         outcome |-> "none"]

InFlight(r) == req[r].pc \notin {"idle", "done"}
Quiet == \A r \in Request : ~InFlight(r)

MayCall(r, op) ==
    /\ req[r].pc = "idle"
    /\ op \in Op
    /\ Serial => Quiet

\* The other records of c's workspace, as a handler reads them along with c's.
Siblings(c) ==
    [d \in Container |->
        IF d # c /\ WorkspaceOf[d] = WorkspaceOf[c] THEN rec[d] ELSE None]

\* The process of a call to op on c that has just read the store.
Received(op, c, pc, draft, snap) ==
    [Idle EXCEPT !.pc = pc, !.op = op, !.c = c, !.draft = draft,
                 !.snap = snap, !.seen = Siblings(c)]

Ended(p, outcome) ==
    [Idle EXCEPT !.pc = "done", !.op = p.op, !.c = p.c,
                 !.refused = p.refused, !.had = p.had,
                 !.unrestored = p.unrestored, !.outcome = outcome]

\* Mutant: an unlock is missing.
NoRelease(lock, r) == lock

Release(lock, r) == IF lock = r THEN None ELSE lock

\* Mutant: the mount lock is not waited for.
MountsShared == TRUE

\* lockProjectMounts may proceed.
MountsFree == mountsLock = None

\* The handler returns: every deferred unlock runs.
Return(r, outcome) ==
    /\ req' = [req EXCEPT ![r] = Ended(@, outcome)]
    /\ mountsLock' = Release(mountsLock, r)
    /\ containerLock' = [c \in Container |-> Release(containerLock[c], r)]

Goto(r, pc) == req' = [req EXCEPT ![r].pc = pc]

Fault(kind) ==
    /\ kind \in FaultKinds
    /\ faults < MaxFaults
    /\ faults' = faults + 1

\* Mutant: StartContainer does not restore what it replaced.
RestoresMutationsOnly(p) == ~p.restoring /\ p.snap # None /\ p.op = "mutate"

\* recreateOrRestore goes on to restoreSnapshot after any error, and so does
\* StartContainer once its conflict check has passed, when there is a container
\* to restore.  A failed restore is only logged.
Restores(p) ==
    /\ ~p.restoring
    /\ p.snap # None
    /\ p.op = "mutate" \/ (p.op = "start" /\ p.pc # "lockMounts")

\* Mutant: the snapshot shares the record the mutation changed.
FromSharedSnapshot(p) == [p EXCEPT !.pc = "lockMounts", !.restoring = TRUE]

\* restoreSnapshot: a recreate like any other, from the snapshot.
FromSnapshot(p) == [p EXCEPT !.pc = "lockMounts", !.draft = p.snap, !.restoring = TRUE]

\* The locked section fails: the mount lock is released first.
Abort(r, refused) ==
    LET failed == [req[r] EXCEPT !.refused = @ \/ refused,
                                 !.unrestored = req[r].restoring]
        restores == Restores(req[r])
    IN
    /\ req' = [req EXCEPT ![r] =
                 IF restores THEN FromSnapshot(failed) ELSE Ended(failed, "error")]
    /\ mountsLock' = Release(mountsLock, r)
    /\ containerLock' = IF restores THEN containerLock
                        ELSE [c \in Container |-> Release(containerLock[c], r)]

-------------------------------------------------------------------------------
(* podman, as the handlers use it.                                         *)

Matches(c, token) == podman[c] # None /\ podman[c].token = token

\* Mutant: a stopped container counts as usable.
UsableStopped(c, record) == Matches(c, record.token) /\ podman[c].current

\* containerUsable: exists, runs, carries the configured agent, and its agent
\* accepts the stored credential.
Usable(c, record) ==
    /\ Matches(c, record.token)
    /\ podman[c].running
    /\ podman[c].current

\* Mutant: the check looks only for a writer above the new mounts.
ConflictsOneWay(c, m) ==
    \E d \in Container \ {c} : podman[d] # None /\ WritesAbove(podman[d].mounts, m)

\* checkProjectMountConflicts against every other container, running or not.
Conflicts(c, m) ==
    \E d \in Container \ {c} : podman[d] # None /\ Nested(m, podman[d].mounts)

Started(draft, token) ==
    [mounts |-> draft.mounts, token |-> token, running |-> TRUE, current |-> TRUE]

TokensOf(record) == IF record = None THEN {} ELSE {record.token}

Held == UNION {TokensOf(rec[c]) \cup TokensOf(podman[c]) : c \in Container}
          \cup UNION {TokensOf(req[r].draft) \cup TokensOf(req[r].snap) : r \in Request}

\* token.New: a credential nobody holds; the least one stands for all of them.
Minted(t) == t \in Token \ Held /\ \A u \in Token : u < t => u \in Held

-------------------------------------------------------------------------------
(* EnsureContainer.                                                        *)

CallEnsure(r, c) ==
    /\ MayCall(r, "ensure")
    /\ rec[c] # None
    /\ req' = [req EXCEPT ![r] = Received("ensure", c, "lockContainer", None, None)]
    /\ UNCHANGED <<stored, rec, podman, mountsLock, containerLock, faults>>

\* Mutant: EnsureContainer does not serialize on the container.
LockContainerShared(r) ==
    LET c == req[r].c IN
    /\ req[r].pc = "lockContainer"
    /\ rec[c] # None
    /\ req' = [req EXCEPT ![r].pc = "inspect", ![r].draft = rec[c]]
    /\ UNCHANGED <<stored, rec, podman, mountsLock, containerLock, faults>>

\* lockContainer, and the record read again under the lock.
LockContainer(r) ==
    LET c == req[r].c IN
    /\ req[r].pc = "lockContainer"
    /\ containerLock[c] = None
    /\ IF rec[c] = None
       THEN /\ req' = [req EXCEPT ![r] = Ended(@, "error")]
            /\ UNCHANGED containerLock
       ELSE /\ req' = [req EXCEPT ![r].pc = "inspect", ![r].draft = rec[c],
                                  ![r].seen = Siblings(c)]
            /\ containerLock' = [containerLock EXCEPT ![c] = r]
    /\ UNCHANGED <<stored, rec, podman, mountsLock, faults>>

\* containerUsable, then the recheck that its mounts still resolve.
Inspect(r) ==
    LET c == req[r].c IN
    /\ req[r].pc = "inspect"
    /\ \/ /\ Goto(r, IF Usable(c, req[r].draft) THEN "recheck" ELSE "lockMounts")
          /\ UNCHANGED <<mountsLock, containerLock, faults>>
       \/ /\ Fault("podman")     \* an inspection fails, or the mounts no longer
          /\ \/ Return(r, "error") \* resolve: then a recreate is attempted
             \/ Goto(r, "lockMounts") /\ UNCHANGED <<mountsLock, containerLock>>
    /\ UNCHANGED <<stored, rec, podman>>

\* Mutant: a usable container is handed out without the check.
RecheckNothing(r) ==
    /\ req[r].pc = "recheck"
    /\ MountsFree
    /\ Return(r, "ok")
    /\ UNCHANGED <<stored, rec, podman, faults>>

\* checkExistingMountConflicts holds the mount lock for the check alone.
Recheck(r) ==
    LET p == req[r] IN
    /\ p.pc = "recheck"
    /\ MountsFree
    /\ IF Conflicts(p.c, p.draft.mounts)
       THEN Abort(r, TRUE)
       ELSE Return(r, "ok")
    /\ UNCHANGED <<stored, rec, podman, faults>>

-------------------------------------------------------------------------------
(* The calls that change a stored container and recreate it.               *)

\* AddContainerMount: the directory is not mounted yet.
MountAdded(record) ==
    {[record EXCEPT !.mounts[d] = m] :
        d \in {e \in Dir : record.mounts[e] = "none"}, m \in {"ro", "rw"}}

\* RemoveContainerMount: never the default container's project mount.
MountRemoved(c, record) ==
    {[record EXCEPT !.mounts[d] = "none"] :
        d \in {e \in Dir : /\ record.mounts[e] # "none"
                           /\ ~(IsDefault(c) /\ e = ProjectOf[WorkspaceOf[c]])}}

\* UpdateContainerMount: the other mode of one mount.
MountUpdated(record) ==
    {[record EXCEPT !.mounts[d] = IF @ = "ro" THEN "rw" ELSE "ro"] :
        d \in {e \in Dir : record.mounts[e] # "none"}}

\* RecreateContainer replaces the mounts or keeps them.
Recreated(c, record) == {[record EXCEPT !.mounts = Effective(m, c)] : m \in Mounts}

\* AddContainerSecret and RemoveContainerSecret change the secret environment.
SecretChanged(record) == {record}

Mutated(c, record) ==
    MountAdded(record) \cup MountRemoved(c, record) \cup MountUpdated(record)
        \cup Recreated(c, record) \cup SecretChanged(record)

CallMutate(r, c) ==
    /\ MayCall(r, "mutate")
    /\ rec[c] # None
    /\ \E draft \in Mutated(c, rec[c]) :
          req' = [req EXCEPT ![r] = Received("mutate", c, "lockMounts", draft, rec[c])]
    /\ UNCHANGED <<stored, rec, podman, mountsLock, containerLock, faults>>

\* StartContainer replaces the stored container or makes a new one.  Omitted
\* mounts keep the existing container's.
CallStart(r, c) ==
    /\ MayCall(r, "start")
    /\ WorkspaceOf[c] \in stored
    /\ \E m \in Mounts :
          LET draft == [mounts |-> Effective(m, c),
                        token |-> IF rec[c] = None THEN None ELSE rec[c].token]
          IN req' = [req EXCEPT ![r] = Received("start", c, "lockMounts", draft, rec[c])]
    /\ UNCHANGED <<stored, rec, podman, mountsLock, containerLock, faults>>

\* CreateWorkspace: a stored default container's mounts win over the request's;
\* snap stands for storedDefault.
CallCreateWorkspace(r, w) ==
    LET c == DefaultOf[w] IN
    /\ MayCall(r, "createWorkspace")
    /\ \E m \in Mounts :
          LET mounts == IF rec[c] = None THEN m ELSE rec[c].mounts
              draft == [mounts |-> WithProject(mounts, w), token |-> None]
          IN req' = [req EXCEPT ![r] =
                       Received("createWorkspace", c, "lockMounts", draft, rec[c])]
    /\ UNCHANGED <<stored, rec, podman, mountsLock, containerLock, faults>>

\* lockProjectMounts and the conflict check under it.  CreateWorkspace then
\* refuses to replace a stored default container that still exists.
LockMounts(r) ==
    LET p == req[r] IN
    /\ p.pc = "lockMounts"
    /\ MountsFree
    /\ \/ /\ IF Conflicts(p.c, p.draft.mounts)
             THEN Abort(r, TRUE)
             ELSE IF p.op = "createWorkspace" /\ p.snap # None /\ podman[p.c] # None
             THEN Return(r, "error")
             ELSE /\ mountsLock' = r
                  /\ req' = [req EXCEPT ![r].pc = "stop",
                                        ![r].had = @ \/ podman[p.c] # None]
                  /\ UNCHANGED containerLock
          /\ UNCHANGED faults
       \/ Fault("podman") /\ Abort(r, FALSE)
    /\ UNCHANGED <<stored, rec, podman>>

\* stopContainerDaemons and Podman.Stop.  A failed stop ends a recreate; a start
\* only logs it, and neither a start nor a create stops an untracked container.
StopOld(r) ==
    LET p == req[r]
        stops == p.op \in {"ensure", "mutate"} \/ p.restoring
                   \/ (p.op = "start" /\ p.snap # None)
    IN
    /\ p.pc = "stop"
    /\ \/ /\ Goto(r, "remove")
          /\ podman' = IF podman[p.c] # None /\ stops
                       THEN [podman EXCEPT ![p.c].running = FALSE] ELSE podman
          /\ UNCHANGED <<mountsLock, containerLock, faults>>
       \/ /\ stops
          /\ podman[p.c] # None
          /\ Fault("podman")
          /\ IF p.op = "start" /\ ~p.restoring
             THEN Goto(r, "remove") /\ UNCHANGED <<mountsLock, containerLock>>
             ELSE Abort(r, FALSE)
          /\ UNCHANGED podman
    /\ UNCHANGED <<stored, rec>>

\* Podman.Remove, and the second resolution of the mounts: a refusal after the
\* stop leaves a recreated container stopped, a started one removed.
RemoveOld(r) ==
    LET c == req[r].c IN
    /\ req[r].pc = "remove"
    /\ \/ /\ Goto(r, "create")
          /\ podman' = [podman EXCEPT ![c] = None]
          /\ UNCHANGED <<mountsLock, containerLock, faults>>
       \/ /\ Fault("podman")
          /\ Abort(r, FALSE)
          /\ \/ UNCHANGED podman
             \/ /\ req[r].op \in {"start", "createWorkspace"}
                /\ ~req[r].restoring
                /\ podman' = [podman EXCEPT ![c] = None]
    /\ UNCHANGED <<stored, rec>>

\* Mutant: the created container's token is not recorded.
Untokened(p, t) == p

\* The record takes the token its container was created with.
Tokened(p, t) == [p EXCEPT !.draft.token = t]

\* Podman.CreateWorkspace and confirmContainerExists.  The handler releases the
\* mount lock before it writes the store, except CreateWorkspace.
CreateNew(r) ==
    LET p == req[r]
        next == CASE p.restoring -> "restored"
                  [] p.op = "createWorkspace" -> "replace"
                  [] OTHER -> "upsert"
    IN
    /\ p.pc = "create"
    /\ \E t \in Token :
        /\ IF p.draft.token = None THEN Minted(t) ELSE t = p.draft.token
        /\ \/ /\ podman' = [podman EXCEPT ![p.c] = Started(p.draft, t)]
              /\ UNCHANGED faults
              /\ IF next = "restored" THEN Return(r, "error")
                 ELSE /\ req' = [req EXCEPT ![r] = [Tokened(p, t) EXCEPT !.pc = next]]
                      /\ mountsLock' = IF next = "replace" THEN r ELSE None
                      /\ UNCHANGED containerLock
           \/ /\ Fault("podman")
              /\ \/ UNCHANGED podman                     \* not created
                 \/ podman' = [podman EXCEPT ![p.c] =    \* never observable
                                 Started(p.draft, t)]
              /\ IF p.op = "start" /\ ~p.restoring
                 THEN /\ Goto(r, "cleanup")
                      /\ mountsLock' = None
                      /\ UNCHANGED containerLock
                 ELSE Abort(r, FALSE)
    /\ UNCHANGED <<stored, rec>>

\* StartContainer's cleanup after a failed create, outside the mount lock.
Cleanup(r) ==
    /\ req[r].pc = "cleanup"
    /\ \/ podman' = [podman EXCEPT ![req[r].c] = None] /\ UNCHANGED faults
       \/ Fault("podman") /\ UNCHANGED podman
    /\ Abort(r, FALSE)
    /\ UNCHANGED <<stored, rec>>

\* The state file cannot be written: the call fails, podman stays as it is.
WriteFails(r) ==
    /\ Fault("store")
    /\ Return(r, "error")
    /\ UNCHANGED <<stored, rec>>

\* upsertContainer: merged into the workspace as currently stored; a workspace
\* that is gone is written back as the handler read it.
Upserted(r) ==
    LET p == req[r]
        w == WorkspaceOf[p.c]
    IN [c \in Container |->
          IF c = p.c THEN p.draft
          ELSE IF WorkspaceOf[c] = w /\ w \notin stored THEN p.seen[c]
          ELSE rec[c]]

Upsert(r) ==
    /\ req[r].pc = "upsert"
    /\ \/ /\ rec' = Upserted(r)
          /\ stored' = stored \cup {WorkspaceOf[req[r].c]}
          /\ Return(r, "ok")
          /\ UNCHANGED faults
       \/ WriteFails(r)
    /\ UNCHANGED podman

\* CreateWorkspace writes the workspace anew, with the default container alone.
ReplaceWorkspace(r) ==
    LET p == req[r]
        w == WorkspaceOf[p.c]
    IN
    /\ p.pc = "replace"
    /\ \/ /\ rec' = [c \in Container |->
                       IF c = p.c THEN p.draft
                       ELSE IF WorkspaceOf[c] = w THEN None ELSE rec[c]]
          /\ stored' = stored \cup {w}
          /\ Return(r, "ok")
          /\ UNCHANGED faults
       \/ WriteFails(r)
    /\ UNCHANGED podman

-------------------------------------------------------------------------------
(* Removal.  None of these calls takes a lock.                             *)

\* RemoveContainer: the stored container, or an untracked podman container of
\* that name (draft is then None).
CallRemoveContainer(r, c) ==
    /\ MayCall(r, "removeContainer")
    /\ WorkspaceOf[c] \in stored
    /\ rec[c] # None \/ podman[c] # None
    /\ req' = [req EXCEPT ![r] = Received("removeContainer", c, "removePodman", rec[c], None)]
    /\ UNCHANGED <<stored, rec, podman, mountsLock, containerLock, faults>>

\* Mutant: a failed podman removal still drops the record.
RemovePodmanOrNot(r) ==
    LET c == req[r].c IN
    /\ req[r].pc = "removePodman"
    /\ Goto(r, IF req[r].draft = None THEN "podCheck" ELSE "dropRecord")
    /\ \/ podman' = [podman EXCEPT ![c] = None] /\ UNCHANGED faults
       \/ Fault("podman") /\ UNCHANGED podman
    /\ UNCHANGED <<stored, rec, mountsLock, containerLock>>

RemovePodman(r) ==
    LET c == req[r].c IN
    /\ req[r].pc = "removePodman"
    /\ \/ /\ Goto(r, IF req[r].draft = None THEN "podCheck" ELSE "dropRecord")
          /\ podman' = [podman EXCEPT ![c] = None]
          /\ UNCHANGED <<mountsLock, containerLock, faults>>
       \/ /\ podman[c] # None
          /\ Fault("podman")
          /\ podman' = [podman EXCEPT ![c].running = FALSE]
          /\ Return(r, "error")
    /\ UNCHANGED <<stored, rec>>

DropRecord(r) ==
    /\ req[r].pc = "dropRecord"
    /\ \/ /\ rec' = [rec EXCEPT ![req[r].c] = None]
          /\ Goto(r, "podCheck")
          /\ UNCHANGED <<stored, mountsLock, containerLock, faults>>
       \/ WriteFails(r)
    /\ UNCHANGED podman

InWorkspace(w) == {c \in Container : WorkspaceOf[c] = w}

\* removePodIfEmpty reads the store, then removes the pod and all it holds.
PodCheck(r) ==
    LET w == WorkspaceOf[req[r].c] IN
    /\ req[r].pc = "podCheck"
    /\ IF w \in stored /\ \A c \in InWorkspace(w) : rec[c] = None
       THEN Goto(r, "podRemove") /\ UNCHANGED <<mountsLock, containerLock>>
       ELSE Return(r, "ok")
    /\ UNCHANGED <<stored, rec, podman, faults>>

PodRemoved(w) == [c \in Container |-> IF WorkspaceOf[c] = w THEN None ELSE podman[c]]

PodRemove(r) ==
    /\ req[r].pc = "podRemove"
    /\ \/ podman' = PodRemoved(WorkspaceOf[req[r].c]) /\ UNCHANGED faults
       \/ Fault("podman") /\ UNCHANGED podman
    /\ Return(r, "ok")
    /\ UNCHANGED <<stored, rec>>

\* RemoveWorkspace tolerates an absent record: the pod goes either way.
CallRemoveWorkspace(r, w) ==
    /\ MayCall(r, "removeWorkspace")
    /\ req' = [req EXCEPT ![r] =
                 Received("removeWorkspace", DefaultOf[w], "workspacePod", None, None)]
    /\ UNCHANGED <<stored, rec, podman, mountsLock, containerLock, faults>>

WorkspacePod(r) ==
    /\ req[r].pc = "workspacePod"
    /\ \/ /\ podman' = PodRemoved(WorkspaceOf[req[r].c])
          /\ Goto(r, "dropWorkspace")
          /\ UNCHANGED <<mountsLock, containerLock, faults>>
       \/ Fault("podman") /\ Return(r, "error") /\ UNCHANGED podman
    /\ UNCHANGED <<stored, rec>>

DropWorkspace(r) ==
    LET w == WorkspaceOf[req[r].c] IN
    /\ req[r].pc = "dropWorkspace"
    /\ \/ /\ stored' = stored \ {w}
          /\ rec' = [c \in Container |-> IF WorkspaceOf[c] = w THEN None ELSE rec[c]]
          /\ Return(r, "ok")
          /\ UNCHANGED faults
       \/ WriteFails(r)
    /\ UNCHANGED podman

-------------------------------------------------------------------------------
(* Calls that write the store without podman.                              *)

\* SetContainerPaths writes the whole record back as it was read.
CallSetPaths(r, c) ==
    /\ MayCall(r, "setPaths")
    /\ rec[c] # None
    /\ req' = [req EXCEPT ![r] = Received("setPaths", c, "upsert", rec[c], None)]
    /\ UNCHANGED <<stored, rec, podman, mountsLock, containerLock, faults>>

Kept(drop) == [c \in Container |-> IF c \in drop THEN None ELSE rec[c]]

Inhabited(records) == {w \in stored : \E c \in InWorkspace(w) : records[c] # None}

\* reconcileContainers, run by the removal guards: the podman verdict of every
\* stored container; a failed lookup gives none.
CallReconcile(r) ==
    LET missing == {c \in Container : rec[c] # None /\ podman[c] = None} IN
    /\ MayCall(r, "reconcile")
    /\ \E gone \in SUBSET missing :
          /\ req' = [req EXCEPT ![r] = [Idle EXCEPT !.pc = "apply", !.op = "reconcile",
                                                    !.seen = rec, !.gone = gone]]
          /\ IF gone = missing THEN UNCHANGED faults ELSE Fault("podman")
    /\ UNCHANGED <<stored, rec, podman, mountsLock, containerLock>>

\* applyContainerDecisions: verdicts applied to the freshly read workspaces; a
\* workspace left without containers is dropped.
Apply(r) ==
    LET records == Kept(req[r].gone) IN
    /\ req[r].pc = "apply"
    /\ \/ /\ rec' = records
          /\ stored' = Inhabited(records)
          /\ Return(r, "ok")
          /\ UNCHANGED faults
       \/ WriteFails(r)
    /\ UNCHANGED podman

-------------------------------------------------------------------------------
(* What happens outside the handlers.                                      *)

Outside == Serial => Quiet

\* A container is deleted with podman itself.
DeletedOutside(c) ==
    /\ Outside
    /\ podman[c] # None
    /\ Fault("outside")
    /\ podman' = [podman EXCEPT ![c] = None]
    /\ UNCHANGED <<stored, rec, req, mountsLock, containerLock>>

\* A container exits, or its restart policy brings it back.
RunStateChanges(c) ==
    /\ Outside
    /\ podman[c] # None
    /\ Fault("outside")
    /\ podman' = [podman EXCEPT ![c].running = ~@]
    /\ UNCHANGED <<stored, rec, req, mountsLock, containerLock>>

\* The orchestrator restarts: handlers and locks are lost, the file and podman
\* stay.  It may come back configured with another guest-agent image.
Restart ==
    /\ Fault("restart")
    /\ req' = [r \in Request |-> IF InFlight(r) THEN Ended(req[r], "error") ELSE req[r]]
    /\ mountsLock' = None
    /\ containerLock' = [c \in Container |-> None]
    /\ podman' \in {podman, [c \in Container |->
                       IF podman[c] = None THEN None
                       ELSE [podman[c] EXCEPT !.current = FALSE]]}
    /\ UNCHANGED <<stored, rec>>

-------------------------------------------------------------------------------

SettledRecords(c) ==
    [mounts : InitialMounts[c], token : {InitialToken[c]}]

\* The orchestrator at rest: a stored container is running, stopped, or missing
\* from podman, and a stored workspace has a container.  InitialMounts may hold
\* nested pairs: containers made before the conflict check was two-way.
Init ==
    /\ rec \in {f \in [Container -> {None} \cup UNION {SettledRecords(c) : c \in Container}] :
                  \A c \in Container : f[c] \in {None} \cup SettledRecords(c)}
    /\ \E state \in [Container -> {"running", "stopped", "missing"}] :
          podman = [c \in Container |->
                      IF rec[c] = None \/ state[c] = "missing" THEN None
                      ELSE [Started(rec[c], rec[c].token) EXCEPT
                               !.running = state[c] = "running"]]
    /\ stored = {WorkspaceOf[c] : c \in {d \in Container : rec[d] # None}}
    /\ req = [r \in Request |-> Idle]
    /\ mountsLock = None
    /\ containerLock = [c \in Container |-> None]
    /\ faults = 0

Calls(r) ==
    \/ \E c \in Container :
          \/ CallEnsure(r, c) \/ CallMutate(r, c) \/ CallStart(r, c)
          \/ CallRemoveContainer(r, c) \/ CallSetPaths(r, c)
    \/ \E w \in Workspace : CallCreateWorkspace(r, w) \/ CallRemoveWorkspace(r, w)
    \/ CallReconcile(r)

Steps(r) ==
    \/ LockContainer(r) \/ Inspect(r) \/ Recheck(r)
    \/ LockMounts(r) \/ StopOld(r) \/ RemoveOld(r) \/ CreateNew(r) \/ Cleanup(r)
    \/ Upsert(r) \/ ReplaceWorkspace(r)
    \/ RemovePodman(r) \/ DropRecord(r) \/ PodCheck(r) \/ PodRemove(r)
    \/ WorkspacePod(r) \/ DropWorkspace(r) \/ Apply(r)

Next ==
    \/ \E r \in Request : Calls(r) \/ Steps(r)
    \/ \E c \in Container : DeletedOutside(c) \/ RunStateChanges(c)
    \/ Restart

Spec == Init /\ [][Next]_vars

\* A handler that can take a step takes it: its goroutine is scheduled and
\* podman answers.  Callers and faults are free.
FairSpec == Spec /\ \A r \in Request : WF_vars(Steps(r))

-------------------------------------------------------------------------------
(* Properties.                                                             *)

\* Every variable keeps its type; in particular no record is ever stored
\* without the token its container was created with.
TypeOK ==
    /\ stored \subseteq Workspace
    /\ rec \in [Container -> Record \cup {None}]
    /\ podman \in [Container -> PodmanContainer \cup {None}]
    /\ req \in [Request -> Process]
    /\ mountsLock \in Request \cup {None}
    /\ containerLock \in [Container -> Request \cup {None}]
    /\ faults \in 0..MaxFaults

\* What a call holds at each pc: the container it works on, and a record that has
\* its token from the moment it may be stored.
ShapedCall(p) ==
    /\ p.pc \notin {"idle", "apply", "done"} => p.c \in Container
    /\ p.pc \in {"lockMounts", "stop", "remove", "create", "cleanup"} => p.draft \in Draft
    /\ p.pc \in {"inspect", "recheck", "upsert", "replace"} => p.draft \in Record

TypeInv == TypeOK /\ \A r \in Request : ShapedCall(req[r])

NestedPair(c, d) ==
    /\ c # d
    /\ podman[c] # None
    /\ podman[d] # None
    /\ Nested(podman[c].mounts, podman[d].mounts)

NestsNothingNew == \A c, d \in Container : NestedPair(c, d)' => NestedPair(c, d)

\* checkProjectMountConflicts: whatever calls overlap, fail or are cut short by a
\* restart, no step makes two containers nested, one able to replace a path
\* component above a mount of the other, that were not nested before.
NeverNewNesting == [][NestsNothingNew]_vars

\* The pcs from the conflict check to the end of the locked section.
Locked == {"stop", "remove", "create", "replace"}

LockHeld == \A r \in Request : req[r].pc \in Locked => mountsLock = r

StillUnnested ==
    \A r \in Request :
        req[r].pc \in {"stop", "remove", "create"}
            => ~Conflicts(req[r].c, req[r].draft.mounts)

\* lockProjectMounts: the check and the create it guards are one critical section,
\* so what the check found stays true until podman creates the container: a
\* removal, a restore, a cleanup or a restart in between does not undo it.
NestingInv == LockHeld /\ StillUnnested

\* EnsureContainer never hands out a container that is nested with another one,
\* not even one of a pair made before the check was two-way.
EnsureHandsOutUnnested ==
    [][\A r \in Request :
          req[r].op = "ensure" /\ InFlight(r) /\ req'[r].outcome = "ok"
              => \A d \in Container : ~NestedPair(req[r].c, d)']_vars

OnlyEnsures == \A r \in Request : req[r].op \in {"ensure", "none"}

\* Server.containerLocks: while nothing fails and only ensures run, however many
\* at once, none takes away a container another has made usable, and none
\* changes the credential it handed out.
EnsureKeepsUsable ==
    [][\A c \in Container :
          rec[c] # None /\ Usable(c, rec[c]) /\ OnlyEnsures /\ faults' = 0
              => rec'[c] = rec[c] /\ Usable(c, rec[c])']_vars

\* The lock order (containerLocks before mountsMu) and the unlock on every path:
\* each call returns, whichever others run and whatever fails.
EveryCallReturns == \A r \in Request : InFlight(r) ~> ~InFlight(r)

\* restoreSnapshot only logs its own failure: what podman has under c's name may
\* be left as a failed call made it.
Unrestored(c) == \E r \in Request : req[r].c = c /\ req[r].unrestored

\* What EnsureContainer relies on when it hands a container out by its token
\* alone: between calls, a container whose token is the recorded one has the
\* recorded mounts, also after a failed mutation was rolled back, unless that
\* rollback failed itself.
TokenVouchesForMounts ==
    Quiet => \A c \in Container :
                rec[c] # None /\ Matches(c, rec[c].token) /\ ~Unrestored(c)
                    => podman[c].mounts = rec[c].mounts

\* A call that reports success leaves exactly the container its record describes:
\* running, with the recorded mounts and the recorded credential.  (An ensure
\* takes what a failed rollback left for that container.)
SuccessMeansCoherent ==
    [][\A r \in Request :
          LET c == req[r].c IN
          /\ \/ req[r].op \in {"mutate", "start", "createWorkspace"}
             \/ req[r].op = "ensure" /\ ~Unrestored(c)
          /\ InFlight(r)
          /\ req'[r].outcome = "ok"
          => rec'[c] # None /\ podman'[c] = Started(rec'[c], rec'[c].token)]_vars

\* recreateOrRestore: a failed mutation or start "does not leave the container
\* gone": if it existed when the call came to replace it, it exists with the
\* recorded token when the call has failed, unless the rollback failed too.
FailedMutationKeepsContainer ==
    [][\A r \in Request :
          LET c == req[r].c IN
          /\ req[r].op \in {"mutate", "start"}
          /\ req[r].snap # None
          /\ req[r].had
          /\ InFlight(r)
          /\ req'[r].outcome = "error" /\ ~req'[r].unrestored
          => podman'[c] # None /\ rec'[c] # None /\ podman'[c].token = rec'[c].token]_vars

\* A record is dropped only for a container podman no longer has, so that no
\* container goes on running untracked; CreateWorkspace, which writes a workspace
\* anew, is the exception (see PodRemovedWithLastContainer).
TrackedUntilGone ==
    [][\A c \in Container :
          /\ rec[c] # None
          /\ rec'[c] = None
          /\ \A r \in Request : req[r].pc # "replace" \/ req'[r] = req[r]
          => podman'[c] = None]_vars

\* recreateContainer's comment: a refused recreate leaves the existing container
\* untouched.
RefusedLeavesContainer ==
    [][\A r \in Request :
          req[r].refused /\ req'[r] # req[r]
              => podman'[req[r].c] = podman[req[r].c]]_vars

\* docs/architecture.md: a workspace's pod is torn down when its last container
\* is removed, so the removal of one container takes no other with it.
PodRemovedWithLastContainer ==
    [][\A r \in Request :
          req[r].pc = "podRemove" /\ req'[r] # req[r]
              => \A c \in InWorkspace(WorkspaceOf[req[r].c]) :
                    podman[c] # None => podman'[c] # None]_vars

\* applyContainerDecisions' comment: a container written after the lookups ran is
\* kept untouched.
WrittenAfterLookupKept ==
    [][\A r \in Request :
          req[r].pc = "apply" /\ req'[r] # req[r]
              => \A c \in Container :
                    rec[c] # req[r].seen[c] => rec'[c] = rec[c]]_vars

===============================================================================
