# Verification of dsh-podman

TLA+ models of dsh-podman, the TLC runs that check them on small instances, and
the theorems about them that TLAPS checks for every instance.  Paths below are
relative to the repository root.

## The system

dsh-podman gives a coding harness (dsh) containers instead of the host.  It has
four programs (docs/architecture.md):

| Program | Source | State it keeps |
| --- | --- | --- |
| plugin | `src/` (TypeScript, inside dsh) | bindings of workspaces to containers, terminal sessions, open exec streams |
| orchestrator | `cmd/dsh-podman-orchestrator`, `internal/orchestrator` | TOML files of workspaces, images and the PTC container; locks; the gateway lease |
| guest agent | `cmd/dsh-podman-guest-agent`, `internal/guestagent` | daemons, processes, ptys and published sockets of one container |
| gateway | `cmd/dsh-podman-gateway`, `internal/gateway` | host-port bindings, held while a lease is open |

podman itself is the fifth party: the orchestrator changes it by command, and a
user, a crash or a restart policy may change it behind the orchestrator's back.

### Inventory

| Component | Operations | What makes it hard | What makes it correct |
| --- | --- | --- | --- |
| Container control calls (`grpcserver/container-lifecycle.go`, `mounts.go`, `workspaces.go`, `paths.go`, `containers.go`, part of `secrets.go`) | ensure, start, recreate, mount and secret changes, remove, create and remove a workspace, reconcile | handlers overlap; each takes seconds and several podman commands; any command may fail; two locks, taken by some handlers only; records read early and written late | no two containers with nested writable mounts; records, containers and credentials agree when a call ends; a failed change does not lose the container; nothing runs untracked; every call returns |
| State store (`state/state.go`) | atomic read-modify-write of a file | a write fails after podman was changed | a record never describes a container that was never made |
| Published ports (`grpcserver/ports.go`, `gatewayclient`, `internal/gateway`, `guestagent/publish`, `internal/proxy`) | publish, unpublish, lease session, rebind, restore after a recreate | three processes, background retries with a copy of the record, a lease that ends with the session | no host port without a lease; an unpublished port is released; a recorded one comes back |
| Guest daemons (`guestagent/daemon`, `grpcserver/daemons.go`) | start (over a running one), stop, restart, stop all, reap, evict | exits race stops; a table limit | a stopped daemon stays stopped; a running one is never forgotten |
| Guest exec and terminals (`guestagent/exec`, `proc`, `terminal`) | run, signal, resize, close | cancellation races exit | every process group is reaped; output is complete |
| Guest files (`guestagent/fs`, `files.go`) | read, write, list | a write whose caller has gone may still rename | path confinement; a write replaces the file as a whole |
| Images (`images.go`, `image-build.go`, `image-resolve.go`, `images/`) | build, rebuild, remove, pull, clean caches | long builds, removal guards that read other state | an image in use is not removed |
| PTC container (`ptc.go`) | ensure, recreate, remove, reconcile | one shared slot, lazily created | at most one, matching its record |
| Secrets and volumes (`secrets.go`, `volumes.go`) | create, write, remove | check, then act | what is in use is not removed |
| Plugin terminal sessions (`terminal-sessions.ts`, `terminal-route.ts`, `guest-terminal.ts`, `client/podman-terminal.tsx`) | open, attach, write, close, sweep | opens that overlap, requests out of order, pages that leave without a word, shells that end at any time | one pty for each session and tab, one owner for each pty; an end is told once; an abandoned shell is reaped |
| Plugin workspace binding (`workspace-binding.ts`, part of `guest-rpc.ts`, `grpc/runtime-client.ts`) | resolve a workspace or a container, cache it, ping its agent, refresh, recover, forget, dispose | promises shared by overlapping calls; credentials rotate, containers stop and hang, replies are lost | a call meets the container as it is now; what can be repaired is repaired; no effect twice |
| Plugin subprocess and RPC (`subprocess.ts`, `guest-rpc.ts`, `output-reader.ts`) | spawn, run, pause, terminate, the pool of identities of the PTC container | streams that end in several ways, timers, an identity given back too early | an exit is told once, after the output; what is stopped ends; an identity has one user |
| Plugin file tools (`fs-provider.ts`, `fs-guard.ts`) | read, write, edit | each is several guest calls; sessions overlap; processes write too | one mutation of a path at a time; nothing unseen is overwritten |
| Plugin tools and approval (`approval.ts`, `read-only-shell.ts`, `approval-template-summary.ts`, `tool-handlers.ts`) | the policy in front of each tool, its prompts and remounts, the handlers | prompts take minutes; what was read before is used after | a tool runs as its session permits; a prompt says what happens |
| Templates (`container-template.ts`, `template-image.ts`, `template-apply.ts`, `template-route.ts`) | save, load, build, publish | builds take minutes and share one image id | what is loaded is what was written, what is saved is what ran |
| Browser client (`client/`) | the card and its commands, the row editor and its apply, the template popup, the mount dialog, the container form | answers come late, out of order, and for what the user has left | what is shown, sent and applied is what the user chose |

## Modules

| Module | Contents |
| --- | --- |
| `ContainerLifecycle` | the container control calls |
| `MCContainerLifecycle` | its instances for TLC |
| `ContainerLifecycleProofs` | its theorems |
| `PortPublishing` | published ports across orchestrator, gateway and guest agents |
| `MCPortPublishing` | its instances for TLC |
| `PortPublishingProofs` | its theorems |
| `TerminalSessions` | browser terminals: pages, the plugin's registry, guest ptys |
| `MCTerminalSessions` | its instances for TLC |
| `TerminalSessionsProofs` | its theorems |
| `WorkspaceBinding`, `WorkspaceBindingProofs` | the plugin's cached bindings to containers; their theorems |
| `GuestExec` | processes in a container as the plugin drives them |
| `ExclusiveUse` | what a pool of identities promises, which `GuestExec` implements |
| `ToolPolicy`, `ToolPolicyProofs` | a tool call from the policy to the end of its handler; its theorems |
| `GuestFiles` | the file tools on one path |
| `CardPanel` | the settings card, its commands and the apply of a row |
| `TemplateLoad` | templates: save, build, load, publish |
| `TemplatePopup` | the popup that chooses a template and hands it to an editor |
| `MountDialog` | the Add-mount popup and the directory browser |
| `ContainerForm` | the create and edit form: rows, draft, snapshots, what is sent |
| `GuestDaemons` | the daemons a guest agent keeps |
| `GuestProofs` | the theorems of `GuestExec`, `GuestDaemons` and `GuestFiles` |
| `PageProofs` | the theorems of the page's modules |
| `MCPlugin` | the instance of the eleven modules above for TLC |
| `PluginProofs` | that its behaviours are those of its parts, and its types |

### ContainerLifecycle

State and what it stands for:

| Variable | Code |
| --- | --- |
| `stored` | the slugs in the workspaces file |
| `rec[c]` | the container's record in that file: its project mounts and its agent token |
| `podman[c]` | the podman container of that name: mounts and token as created, whether it runs, whether its guest agent is the configured one |
| `req[r]` | the goroutine of one control call: its place (`pc`), its copy of the record (`draft`), the snapshot a failed recreate restores (`snap`), the other records it read (`seen`), reconcile's verdicts (`gone`) |
| `mountsLock` | `Server.mountsMu` |
| `containerLock[c]` | the entry of `Server.containerLocks` |
| `faults` | faults so far, at most `MaxFaults` |

A handler is cut wherever another handler or podman may act: after its reads,
at each lock, at each podman command, at the atomic store update.  Between two
cuts it runs in one step.  The paths through the actions are:

| Call | Path |
| --- | --- |
| EnsureContainer | `CallEnsure`, `LockContainer`, `Inspect`, then `Recheck` (usable) or `LockMounts` … `Upsert` |
| RecreateContainer, the three mount calls, the two container secret calls | `CallMutate`, `LockMounts`, `StopOld`, `RemoveOld`, `CreateNew`, `Upsert` |
| StartContainer | `CallStart`, the same, with `Cleanup` after a failed create |
| CreateWorkspace | `CallCreateWorkspace`, `LockMounts`, `StopOld` (nothing to stop), `RemoveOld`, `CreateNew`, `ReplaceWorkspace` under the mount lock |
| RemoveContainer | `CallRemoveContainer`, `RemovePodman`, `DropRecord`, `PodCheck`, `PodRemove` |
| RemoveWorkspace | `CallRemoveWorkspace`, `WorkspacePod`, `DropWorkspace` |
| SetContainerPaths | `CallSetPaths`, `Upsert` |
| reconcile (run by the guards of RemoveSecret, RemoveVolume, RemoveImage) | `CallReconcile`, `Apply` |
| a restore after a failure | `Abort` sends the call back to `LockMounts` with the snapshot |

Abstractions.  A mount is a project directory with a mode; volumes, tmpfs and
secret mounts never enter the conflict check.  Path ancestry is the constant
relation `Above`.  Environment, images, PATH additions and labels are left out:
no property tells them apart, and a call that changes only those changes
nothing here but still recreates the container.  A token is fresh when nobody
holds it, and the least fresh one stands for all.  Reconcile's lookups, one
after the other in the code, are one step.  Validation that refuses a request
before anything is read is not an action.

### PortPublishing

A published port is a host port that the gateway listens on and carries to a
socket which the guest agent forwards into the pod.  The orchestrator holds a
lease stream to the gateway; the gateway closes every host port when the last
stream ends.

| Variable | Code |
| --- | --- |
| `rec[c]` | `Container.PublishedPorts` in the workspaces file: the host port of each pod port |
| `live` | the containers whose guest agent answers |
| `agent[c]` | `publish.Manager.entries`: the ports the guest agent forwards |
| `bound[c][p]` | `gateway.Server.bindings` |
| `lease`, `orphans` | the streams `gateway.Server.leases` counts: the current session's, and those whose orchestrator end is gone but which the gateway has not noticed yet |
| `proc[r]` | a control call, then the goroutine of `restorePublishedPorts` it leaves behind |
| `proc[Session]` | the goroutine of `gatewayLoop` |
| `up` | the orchestrator runs |

| Code | Path |
| --- | --- |
| PublishPort | `CallPublish`, `Forward`, `Bind`, `Write`; rolled back by `Unbind`, `Unforward` |
| UnpublishPort | `CallUnpublish`, `Unbind`, `Unforward`, `Write` |
| RecreateContainer, StartContainer | `CallRecreate`, `Replace`, `Create`, then the restore: `PublishNext`, `Rebind`, `Reestablished` |
| EnsureContainer | `CallEnsure`, then re-establishing (usable) or the recreate |
| RemoveContainer | `CallRemove`, `Release`, `PodmanRemove`, `Drop` |
| one gateway session | `Connect`, `ReadStore`, `PublishNext`, `Rebind`, `Rebound`, `Lost` |
| gateway | `Bindable` (Bind), `Unbind`, `LeaseEnded`, `GatewayRestarts` |

A caller that goes away (`CallerLeaves`) cancels the context of its call.  The
handler goes on; its requests to the agent and the gateway are then refused
without an answer, and one that was on its way may still arrive (`Arrives`).

Abstractions.  There is one protocol, so the pod port names the socket.  The
agent's publisher and the gateway answer in one critical section, as their
mutexes make them.  The creation of a container and the store write after it
are one step, since the locks of `ContainerLifecycle` cover both.  Failures of
a recreate that change no port, and a recreate that is refused, are left out.
RemoveWorkspace does for each container what RemoveContainer does.  The status
the orchestrator caches for the page, and the forwarding of bytes, are not
modelled.  After a failed `Drop` or `Create` an agent may start though podman
has no container: the model allows more than the system there.

### TerminalSessions

A terminal page opens a request whose answer is a stream of frames.  The host
starts a shell for the page's tab, or finds the one it retains, and attaches
the stream to it; a shell outlives its streams until it is closed, swept, or
ends.

| Variable | Code |
| --- | --- |
| `page[w]` | `stream.current`, `terminalId.current` and the status of a page |
| `opened`, `stream[r]` | the requests made, each with the place of its `handleOpen`, its terminal, and the frames `listen` and the done callback wrote to it |
| `closes` | control requests of kind close under way |
| `entries[k]`, `byId` | the two maps of `TerminalSessions` |
| `listener[t]` | `entry.listener` |
| `stale` | `entry.lastUsed` is further back than the retention window |
| `guest[t]` | the pty: starting, running, or how it ended (`entry.exit`, `entry.failure`) |
| `closing` | shells on which `terminate` was called |
| `disposed` | the plugin was unloaded |

| Code | Path |
| --- | --- |
| a page's effect, Connect and Reconnect | `Connect` |
| unmount, reload; a refused or broken stream | `Leave`; `StreamFails` |
| prepare that finds an entry, with listen | `Reattach` |
| prepare that starts a shell, with listen | `Resolve`, `Start`, `Started`; `LookupFails`, `StartFails` |
| the abort of a request at the host | `AbortArrives` |
| control | `Use` (input, resize, rename), `Close` |
| the settlement of a guest pty and the done callback | `PtyEnds` |
| the retention window, reap, dispose | `Age`, `Reap`, `Dispose` |

The host is single-threaded, so a handler is one step between two awaits.
Requests travel on their own: a close and the open after it arrive in either
order, and an abort arrives late or in the middle of a start, which it does not
stop.

Abstractions.  A shell bears the number of the request that starts it.  Output,
snapshots, titles and sizes are left out, and with them the headless emulator.
A page reads a frame in the step that writes it; a page that is gone by then
reads nothing.  `closing` records the call of `terminate`; that the process
then ends is one way in which `PtyEnds` happens.

### WorkspaceBinding

A binding is a guest client and the credential of one container.  The resolver
caches the promise that resolves it, pings the agent before each call and
repairs what it finds broken.

| Variable | Code |
| --- | --- |
| `world` | the containers: how often each was created (each time with a new credential), its mounts, whether its agent answers |
| `slot[key]` | `bindings` and `containerBindings`: the promise cached for a workspace, a named container, the PTC container |
| `resolution[c]` | the promise call `c` created, pending at `resolveBinding` or `create` |
| `call[c]` | the call: the promise it awaits, the row it got, the repairs it has left; as history, whether it was disturbed and the generation it began with or made |
| `mutation` | a control call of the plugin whose reply is under way |
| `disturbances` | control calls, outages, failed requests and disposals so far |

`StartCall` is resolve and containerBinding; `Creates`, `Answer`, `Deliver`,
`Settle` and `ResolutionFails` are the life of a promise; `Ping`, `Reach`,
`NotReady`, `Refresh`, `Resume`, `Recover` are ensureAgentReady with its
retries; `Use` and `LostReply` are the guest call under withGuestAuth; `Mutate`,
`MutationReplied` and `MutationLost` are control with invalidateAfter;
`DisposeBindings` is dispose.  The session entry and the named entry of the
default container are two caches of one container.  Which workspace a path
belongs to, and the resources of a container that is created, are data.

### GuestExec and ExclusiveUse

A handle is one exec stream: a spawn of the harness, a control spawn under an
identity of the PTC pool, or a command of runExec.

| Variable | Code |
| --- | --- |
| `handle[h]` | the closure of spawn or runExec: the process id, the kill timer, the pause, what the caller was told |
| `process[h]` | the guest's side: the process and its end of the stream |
| `wire[h]` | the messages on their way to the plugin |
| `uidsInUse` | `PtcUidPool.inUse` |

`Spawn`, `Bound`, `BindFails`, `Probed` are the start; `Terminate`,
`AbortCommand` and `KillTimer` the two ways to stop; `Receive…` the data
handler; `Drain` the consumer that resumes a paused stream; `StreamBreaks` the
error and end handlers; `GuestStarts`, `GuestWrites`, `GuestExits`, `GuestDies`
the agent.  Output is a number of chunks.  `ExclusiveUse` states what the pool
promises in two actions, `Take` and `Give`; `PoolExclusive` maps its users to
the handles that have an identity and have not settled.

### ToolPolicy

A tool call from the pre-execute policy to the end of its handler.

| Variable | Code |
| --- | --- |
| `session` | mode, approval policy and preset, as `readSession` finds them |
| `box` | the container: its record, and the PATH list its agent prepends |
| `template` | the template file a load reads |
| `toolCall[c]` | the call: what the policy read of the session and of the container, the summary shown, the list a path tool computed |
| `pathsRaced` | history, for `PathsAgree` |
| `policyDisturbances` | switches of the session, changes by another client, edits of the file |

`Begin` is preExecutePolicy up to its first await; `Gate…` and `Remount` the
read-only gate; `SummaryReads…` the summary of a template load; `Approve` and
`Decline` the answer to the prompt; `Run…`, `Load…`, `Path…` the handlers.
Tools are classes (those the policy and the handlers tell apart).  Handlers that
pass one request on (volumes, secrets, daemons) are one step.

### GuestFiles

| Variable | Code |
| --- | --- |
| `file`, `lastVersion` | the content of one path, by version |
| `observed[s]` | the version the harness remembers for session `s` |
| `fileCall[c]` | a read, write or edit: its place, its stat, its intent |
| `lockTail` | `targetLocks.get(path)` |
| `saw[s]` | history: the contents the tools of `s` returned, or reported written |
| `blind` | history: the calls that replaced a content their session never saw |
| `intruded` | history: the sessions in whose locked section the file changed |
| `overtaken` | history: the calls whose late write replaced another version than they checked |
| `processActs` | changes by processes of the container |

`Queue` and `Enter` are withTargetLock; `Section…` are writeText and editText
between a stat and the stat that ends the section; `ReadStats`, `ReadStreams`
and `Observe` the read.  An append to a promise chain is `behind`: a call waits
for the one that was last when it came.

A write has two ends.  `SectionWrites` is the answered one: the guest renamed,
and the section goes on.  `SectionGivesUp` is an abort, which rejects the call
in the plugin (`onAbortCancel`, guest-rpc.ts:136) or a broken connection: the
`finally` of withTargetLock releases the path, and the call is adrift.
`LateWrite` is the guest's handler (files.go:77) coming to its rename after
that: at any time, in or after the section of a later call, or never.  A write
that was refused or never arrived is `SectionFails`.

### CardPanel

| Variable | Code |
| --- | --- |
| `host` | the container as the orchestrator records it, with a version |
| `panel` | the controller's state: the listing shown, the generation, toast and notice |
| `row` | the editor of the container: draft and staged copy |
| `cardCall[c]` | a reload, a sync or an apply under way |
| `cardTrouble` | failures and changes by somebody else so far |

`Reload`, `Sync` and `Apply` start a request; `Changed`, `CommandFails`,
`CommandRefused` and `PathPushFails` are runCommand; `List` and `NoListing` the
snapshot after it; `Listed`, `Outdated`, `ListFails` and `DispatchFails` the
answer; `Onward` the next command of an apply.  `Changes` and its diffs are
translated from `applyConfig` with the order its commands are sent in.

### TemplateLoad

| Variable | Code |
| --- | --- |
| `images`, `provisioned` | the orchestrator's image records with what podman has under their tags; the base images podman has |
| `container[t]` | the workspace's containers |
| `templateFile` | the template's file |
| `templateCall[c]` | a load, build, rebuild or save: the document, what is left to do for the image, what was read |
| `templateTrouble` | failures, edits and removals from outside |

A load is `OpenTemplate`, `ListImages`, `Drop`, `Provision`, `BuildTags`,
`BuildRecords`, `Ensured`, `AsksWorkspace`, `Request`, `Publish`, `Loaded`; a
save is `SaveReadsRow`, `SaveReadsImages`, `SaveExports`, `SaveWrites`;
`CallBreaks`, `RequestRefused` and `PublishRefused` are their failures.
Packages, mounts and the entries of the other groups are members of small sets.
`Parsed`, `Exported` and `Todo` translate validateTemplate, exportContainerTemplate
and templateImagePlan.  The loop of templateExportImage that walks from an image to
its base is the least set closed under "parent of" (`Met`): the base is the one in
it (`RootOf`), the packages are those of its images (`PackagesOf`).

### TemplatePopup

| Variable | Code |
| --- | --- |
| `popup` | the picker and TemplateDetailsModal: the choice, its inspection, its draft, the check of its project paths |
| `builds[s]` | builds under way, with the choice each was started for |
| `editor`, `applying` | the editor of WorkspaceSection and the apply it started |
| `built` | the images the host has |
| `applied`, `vanished` | history |

An inspection is aborted with its choice (`Choose`, `BackToPicker`,
`ClosePopup`); a check of project paths is overtaken by the next
(`CheckOvertaken`); a build goes on whatever the user does (`BuildDone`,
`Rechecked`).

### MountDialog

| Variable | Code |
| --- | --- |
| `addPopup`, `mountDraft` | the state of MountsEditor's popup and the draft in it |
| `checks` | project paths the dsh host has been asked about |
| `picker` | DirectoryPickerModal: two listings, one `busy` flag |
| `volumes`, `creation` | the volumes of the last snapshot, and the one a row asked for |
| `added` | the mount handed to `onAdd` |
| `vouched` | history: what the host listed, found or created |

Each action is a handler of the components, with the effects of the render it
causes: what an effect does depends on state the handler set, and no other event
comes between.  Opening the popup or the browser overwrites what an earlier one
left, so a closed one is empty.  A secret is picked and created as a volume is.

### ContainerForm

| Variable | Code |
| --- | --- |
| `formDialog` | which dialog, its confirmation step, a command under way |
| `formDraft`, `staged`, `formServer` | the draft, what was applied or adopted last, the container of the last snapshot |
| `formRows` | the rows the two variable editors hold of their own |
| `capture` | the draft of the render an Add-mount began in |
| `secrets` | secrets listed, asked for, and selected once listed |
| `sends` | what Create or Apply sent |
| `formSpent` | edits and snapshots so far |

Rows are derived from the draft and the draft from rows (`RowsOf`, `RecordOf`,
`Rebuilt`): an unnamed row is in one and not in the other, and so are two rows
of one name.  `SnapshotArrives` and `ApplyEnds` adopt a snapshot as the row
editor does.

### GuestDaemons

| Variable | Code |
| --- | --- |
| `table` | `Manager.daemons` |
| `daemon[d]` | what the manager records of a daemon, its process group, and processes that left the group and hold its output |
| `daemonCall[c]` | a call of start, stop, restart or stop-all |
| `stopping[c][n]` | an execution of `Manager.Stop` |

`StartDaemon` and `RestartDaemon` look the name up, have what runs under it
stopped, and go on with `Launches`, the call of Start, whose one critical section
with its eviction is `StartLocked`; `StopLooks`, `StopSees`, `GraceEnds` and
`SecondGraceEnds` are Stop, which waits outside of the mutex; `StopAll…` stops
the terminals and then a goroutine for each daemon;
`WaitReturns` is the reaping goroutine.  `StoppedAt` has a resolution of a
second, so any stopped daemon may be the one evicted.  cmd.Wait waits for who
holds the output: only then does the second grace end without the record.  The
terminals StopAll ends first are one wait.  A pid is not reused.

## Runs

| Run | Instance | Asks |
| --- | --- | --- |
| `lifecycle_concurrent` | 2 workspaces with one container each, one project above the other; 2 overlapping calls of ensure, recreate or start; 1 fault (podman, store or restart) | do the two locks do what they are for |
| `lifecycle_serial` | 1 workspace with its default and a named container; every sequence of 3 calls of all kinds; 1 fault (podman, or a change made outside) | do records, containers and credentials agree after each call |
| `lifecycle_refused` | one recreate | violation, finding 1 |
| `lifecycle_pod` | three calls in sequence | violation, finding 2 |
| `lifecycle_reconcile` | a start and a reconcile, overlapping | violation, finding 3 |
| `ports_serial` | 2 containers, 2 pod ports, 2 host ports; every sequence of 3 calls beside the session and the restores; 1 fault (store, podman, agent, gateway, orchestrator) | do lease, bindings and records agree |
| `ports_recovery` | 2 containers with one port; 3 calls; 2 faults (caller, agent, gateway, orchestrator) | is everything released, and everything bound again |
| `ports_cancelled` | 1 container, 1 port, a caller that goes away | violation, finding 4 |
| `ports_flapping` | 2 containers, one of them down, a gateway restart | violation, finding 5 |
| `terminals_reload` | 1 tab, 1 page that connects, reloads and reconnects, 3 streams | do pages, both indexes and shells agree; is an abandoned shell reaped |
| `terminals_twice` | 1 tab, 1 page, 2 streams | violation, finding 6 |
| `plugin` | ten modules, one at a time (bounds below) | the questions of each, listed below |

What the properties say:

* `NestingInv`, `NeverNewNesting`: the conflict check and the create it guards
  are one critical section; no step nests two containers.  A pair nested before
  the check was two-way may stay (the instance starts with one).
* `EnsureHandsOutUnnested`: but an ensure never hands one of such a pair out.
* `EnsureKeepsUsable`: overlapping ensures neither replace a container another
  one made usable nor change its credential.
* `EveryCallReturns`: with two locks, a restore that takes the mount lock a
  second time, and early returns, no handler blocks for ever.
* `TokenVouchesForMounts`: EnsureContainer takes a container with the recorded
  credential for the recorded container; so a failed mutation that was rolled
  back must not leave the mutated mounts under the old credential.  A rollback
  can fail itself, which the code only logs: the field `unrestored` remembers
  it, and the container of such a call (`Unrestored`) is excepted.
* `SuccessMeansCoherent`, `FailedMutationKeepsContainer`, `TrackedUntilGone`:
  what a success promises, what a failure keeps, and when a record may go (the
  first two with the same exception).
* `LeaseOwnsBindings`: no host port is open without a lease, however late the
  streams of former sessions end and whoever binds in between.
* `BoundAsRecorded`: the host port a call returned stays the one in use, across
  rebinds, restores, retries with an old copy of the record, and restarts.
* `NoPortOnlyInGateway`: when calls, session and restores are through, what is
  bound is recorded.
* `GoneReleases`: an orchestrator that stays away leaves no host port open.
* `Recovers`: once the orchestrator runs, calls have ended and every container
  with published ports answers, every recorded port is bound again and stays so.

* `OneOwner`: of the streams of a shell at most one believes to be attached; the
  one before was told of its successor.
* `EndTold`: a stream attached to a shell that has ended was told so, whichever
  came first.  `TypeOK` has the frames a stream may see: no second end, and
  nothing after `detached`.
* `Indexed`: `entries` never holds a shell that `byId` lacks or that belongs to
  another tab, though a close drops by tab what it names by identifier.
* `Reaped`: a shell no page holds is swept some time.  It leaves out a listener
  whose signal fired before it attached (below), and a plugin that is unloaded.

The run `plugin`:

* `ReturnsCurrentMounts`: a container call goes by the mounts the container
  has, however control replies, resolutions and refreshes are ordered.  It
  leaves out calls that saw the change under way, and, from a change of mounts
  whose reply was lost to the next control call that is answered, the calls on
  that container (`mutation.lost`): nobody drops its entries then.
* `EffectOnce`: the repetition after a rejected credential repeats no effect.
* `NoSpuriousFailure`: a call fails only by what happened while it ran;
  whatever it finds broken is repaired, unless other calls recreate its
  container twice meanwhile (a credential is refreshed once) or the PTC
  container hangs.  The two calls of the run never need the first of these
  exceptions; three calls do.
* `UidExclusive`, `PoolExclusive`: no two processes of the PTC container under
  one identity; and the pool implements `ExclusiveUse`.
* `ExitAfterOutput`: an exit is told after the end and after all output.
* `RunsAsPermitted`: a tool runs as the session it began under permits, with
  the prompt and the remount in between.  Of the remount it asks that the tree
  was wholly read-only at some moment of the call, which is what the code can
  give: others may remount before and after.
* `SummaryTruthful`: what a template load removes is what its prompt said.
* `PathsAgree`: the list the agent prepends is the one the record restores.
* `OneMutationAtATime`: the lock of a path excludes.
* `NoBlindOverwrite`: no write replaces content its session has not seen.  Two
  exceptions, which the lock cannot exclude: a process of the container, or a
  write that was given up, changed the file inside a locked section of that
  session; or the write was itself given up and came late, over another version
  than the one it had checked.  Both are needed (see "Seen in the plugin").
* `ShownNeverOlder`: the card never goes back to an older listing.
* `ApplyDelivers`: an apply that nobody disturbed leaves the container as the
  row showed, but for the groups it reports as failed.  Two drafts are excepted:
  an environment edited down to nothing, and two mounts at one destination.
* `TemplatesFaithful`: what is loaded is what was written (`LoadedAsWritten`),
  what is saved is what ran (`SavedAsRun`).
* `ContinuesWithChosen`: what is edited, applied and published is of the
  template chosen when Continue was clicked, but for a build that straddles a
  change of the selection (see "Seen in the plugin").
* `MountDialogSound`: nothing stays blocked (`NeverStuck`), and the popup hands
  over what it shows and the host vouched for (`HandsOver`).
* `SendsAsShown`: Create and Apply send what the rows show.
* `DaemonsAccounted`: a running daemon is the one of its name in the table; the
  table keeps its bound; a start, stop, restart or stop-all that succeeded leaves no
  process of the group it found, but for one that gave the daemon's output up.
* `CallsEnd`: binding calls end (`BindingEnds`), stopped processes die
  (`StoppedEnds`), handles settle (`EndSettles`), stops of daemons return
  (`DaemonCallsEnd`).
* `PluginTypeOK`: the type invariants of the modules.

Each exception a property names (a stream that was cut, a kill timer that fired
early, a build of an earlier choice, ...) is what the code really does;
"Seen in the plugin" below lists what the exceptions leave out.

Bounds.  Two containers are enough for a conflict, and a conflict concerns a
pair.  Two overlapping calls reach every interleaving of two handlers; the
theorems on nesting hold for any number.  Three calls in sequence reach the
three-step histories that matter (create, remove, create again).  One fault is
the assumption of the restore: it is best-effort, and with two faults it may
fail as its comment says.  Five tokens are enough for the initial two and one
for each call, so `Minted` never runs out.  The symmetry of `lifecycle_serial`
permutes calls; no liveness is checked under it.

For the ports, two containers let the session fail for one and succeed for the
other; two ports with one forwarded at most (`MaxPublished`, 32 in the code)
reach the limit of the agent; two attempts of a restore (`MaxAttempts`, 10 in
the code) have a first and a last one; two ended streams (`MaxOrphans`) at a
time are enough for one to end while another one counts.  `Connect` waits while
there are that many.  `Serial` means that calls do not overlap, that nothing
outside happens while one runs, and that ports are released only while nothing
re-establishes them; the session and the restores still interleave with
everything.  Without it the store's lost updates (below) break
`NoPortOnlyInGateway` and `BoundAsRecorded`; the theorem on leases needs no
such restriction.  In `ports_recovery` each container has a host port of its
own, because two that want the same one never settle (below).

For the terminals, a page that leaves and comes back stands for a second page
on the same tab: its former stream is still at the host until the abort
arrives.  Three streams are enough for one that is attached, one that starts
and one that replaces them.  A tab's shells meet no other tab's, except in the
indexes, which the theorem covers for any number of tabs.

The ten modules of `plugin` share no state, so `MCPlugin` runs one of them at a
time: `part` says which, and the others rest in one initial state.  The states
of the run are the sum of the modules' and not the product.  Bindings: two calls
on a session and a named entry, one disturbance; two calls are what it takes to
share a promise and to repair one container twice, and five creations are more
than they make.  Exec: two handles of kind control and command, one identity,
so that the second waits for the first; one chunk, to be behind an exit.  Tools:
two calls and one change from outside, so that each await has something to come
between.  Files: three calls of two sessions, for a line of two behind the
holder; one act of a process.  Card: two calls, one trouble.  Templates: two
calls, one of a load or a rebuild and one of a load or a save, a chain of two
images, one trouble.  Popup: two choices, one container, one build, two visits.
Mounts: two directories, one in the other, one volume, two checks, for one
that was overtaken.  Form: one variable, two rows (so that two share its name),
three edits, one snapshot.  Daemons: three calls, two names and a table of one
(64 in the code), so that it is full.

Fairness.  `FairSpec` asks weak fairness of the steps of each call, which is
what a Go scheduler and a podman that answers give.  New calls and faults are
under no fairness.  The locks are not assumed fair: a waiting call may be
overtaken, but only by the finitely many other calls.

`PortPublishing` asks it of the steps of each call, restore and session
(`gatewayLoop` retries for ever) and of `LeaseEnded` (keepalive makes the
gateway notice a dead stream).  Nothing brings an agent or the orchestrator
back: `Recovers` assumes what it needs of them in its antecedent.

`TerminalSessions` asks it of `AbortArrives` (the host sees a closed connection),
of `Age` (time passes) and of `Reap` (the interval timer).  Nothing makes a page
or a shell act.

`PluginSpec` asks it of the steps of each binding call and its promise
(`BindingFairness`: requests are answered or time out), of each handle
(`ExecFairness`: promises settle, timers fire, consumers read, the agent starts
what it was asked to, a process that was killed ends) and of each stop of a
daemon and each reaping (`DaemonsFairness`: the scheduler and the clock go on,
the kernel reports an end).  A process that runs need not end, and nothing makes
a user, another client or a daemon's stray processes act.

Deadlock is not checked: when each call has been issued and has returned the
model stops.  A handler that blocks is what `EveryCallReturns` would find.

## Proofs

`ContainerLifecycleProofs` proves, for every set of workspaces, containers,
directories, calls and tokens and every bound on faults:

| Theorem | Statement |
| --- | --- |
| `TypeCorrect` | `Spec => []TypeOK` |
| `CheckStaysTrue` | `Spec => []NestingInv` |
| `NoStepNests` | `Spec => NeverNewNesting` |
| `StaysUnnested` | unnested at the start, unnested for ever |
| `EnsureHandsOut` | `Spec => EnsureHandsOutUnnested` |
| `EnsuresKeepUsable` | `Spec => EnsureKeepsUsable` |
| `TokensVouch` | `InTurn => (Spec => []TokenVouchesForMounts)` |
| `SuccessIsCoherent` | `InTurn => (Spec => SuccessMeansCoherent)` |
| `FailureKeepsContainer` | `InTurn => (Spec => FailedMutationKeepsContainer)` |
| `RecordsOutliveContainers` | `InTurn => (Spec => TrackedUntilGone)` |

`TypeOK` is not inductive: the step that stores a record relies on the draft
having its token by then, which depends on `pc`.  `TypeInv` adds `ShapedCall`,
what a call holds at each `pc`.  `NestingInv` is the pair `LockHeld` (from the
check to the end of the locked section the call holds the mount lock) and
`StillUnnested` (its draft conflicts with no container): a container comes into
being only by a holder of the lock, so `StillUnnested` survives the other
calls' steps, and any other step only removes containers.  `NoStepNests`
follows: the only step that adds a container is `CreateNew`, of a draft that
conflicts with none.  The assumptions are those of `ContainerLifecycle`: the
naming functions have their types, a default container lies in its workspace,
and `None` is none of the values it is told apart from.

`EnsureHandsOut` rests on `AnchorInv`.  The recheck looks at the recorded mounts
and the property is about podman's; the two can differ while other calls are
under way.  But a container that is still one of a nested pair has not been made
anew since the start (`NoStepNests`), and then every record of it that is
stored, was read, or is about to be stored has the mounts podman has
(`Anchored`).  `EnsuresKeepUsable` rests on `EnsuresHold`, which speaks of the
behaviours in which only ensures were called and nothing failed: from the check
to the store update an ensure holds its container's lock, its draft is the
stored record, and until its create the container is not usable.

The other four are about calls that do not overlap, and `InTurn` says so: one
call at a time (`Serial`), and neither a failed write of the state file nor a
restart within a call; podman's commands may fail at any point and containers be
deleted or stopped between calls, any number of times.  The assumption is
needed: without it a call that dies between podman and the store leaves the two
apart, and "Seen in the model" below lists what overlapping calls do.  The
inductive invariant is `SerialInv`: the one call in flight knows the store
(`KnowsStore`: its snapshot and draft are the stored record's) and podman
(`KnowsPodman`: what it has created runs as drafted, what it is about to drop is
gone); and for each container the recorded token stands for the recorded mounts
(`Vouched`), or a call between its create and its store update or rollback has
it in hand (`Replacing`), or its rollback has failed.  TLC finds no violation of
`SerialInv` in the instance of `lifecycle_serial`, nor with a fourth call or a
second fault.

`PortPublishingProofs` proves, for every set of containers, ports, host ports
and calls and every bound, overlapping calls included:

| Theorem | Statement |
| --- | --- |
| `TypeCorrect` | `Spec => []TypeOK` |
| `NoBindingWithoutLease` | `Spec => []LeaseOwnsBindings` |
| `RecordsRule` | `SerialCalls /\ Spec => []BoundAsRecorded` |
| `NothingLeftInGateway` | `SerialCalls /\ Spec => []NoPortOnlyInGateway` |

`TypeOK` needs `TypeInv`, which adds what a process holds at each `pc` (the
write of a publish relies on having a port and a host port).  The lease theorem
needs `LeaseInv`: `LeaseOwnsBindings` and that `orphans` is a number.  A bind
asks for a lease in the step that opens the port, and the three steps that end
a lease either turn it into an orphan or close every port.

The last two are about calls that do not overlap (`Serial`, with all that it
excludes, see "Runs") and whose callers wait for the answer; the session and
the restores interleave with the calls, and writes and podman may fail during
one.  Both assumptions are needed: an overlapping call writes back a stale
record, and a caller that goes away leaves a binding behind
(`ports_cancelled`).  They rest on the inductive `SerialInv`
of the module, which TLC finds to hold in the instance of `ports_serial`: what
each process knows of the store, the items it has still to re-establish
included, is still recorded (`Current`); what a removal or unpublish has
released stays so, because neither restore nor session is under way
(`Released`); and a binding without a record belongs to the one publish in
flight, between its bind and its write or rollback (`Accounted`).

`TerminalSessionsProofs` proves, for any number of tabs, pages and streams:

| Theorem | Statement |
| --- | --- |
| `TypeCorrect` | `Spec => []TypeOK` |
| `OneOwnerHolds` | `Spec => []OneOwner` |
| `EndToldHolds` | `Spec => []EndTold` |
| `IndexedHolds` | `Spec => []Indexed` |

The four follow from one inductive invariant, `Inv`.  `Owned`: the listener of a
shell was told exactly what a stream attaching now would be told (`Greeting`).
`Believed`: who believes to be attached is the listener, which gives one owner.
Together they give the end of a shell: `PtyEnds` appends the end to the frames
of a listener whose shell was running, which are `<<"ready">>` and become the
greeting of a shell that has ended.  `Phased` ties the pty to the request that
starts it and says that only a shell which has started is indexed, so a request
not yet made cannot change the tab of an entry.  Lemmas on the frames
(`AppendToOne`, `SuccessorTold`, ...) go through `SeqEqual` of the library.

`GuestProofs` proves of `GuestFiles`, for any calls, sessions and versions,
`FilesTypeCorrect`, `MutationsExclude` (`[]OneMutationAtATime`) and `GuardHolds`
(`[]NoBlindOverwrite`).  That one mutation at a time is in the section follows
from `LineInv`: the calls that hold or await the lock form a line, each behind
the one in front of it, and `lockTail` is its end; without the order "waits for
the call that was last when I came" says nothing about the calls before that
one.  `GuardInv` says where an intent may come from: a version is vouched for
when the session saw that content or the file has left it for good (a version
does not come back), and from the check to the write the file is the one that was
checked, which the session saw.  It says so of every session that was not
intruded upon, session by session, since an intrusion spoils what is known of one
call and not of the others; and of a call adrift it keeps that the version
it checked was one its session saw, so a late write is blind only if it is
overtaken.  What any step owes is one lemma (`GuardKept`): for the call that
moves, and for those whose section the file changed under.

Of `GuestExec` it proves, for any handles and identities, `UidsExclude`
(`[]UidExclusive`) and `PoolImplements` (`PoolExclusive`, the refinement).
`PoolInv`: the identity of an unsettled handle is in `inUse` and no other
unsettled handle has it; a settled handle whose process lives has a stream that
was cut.  A spawn takes a free identity, which is `Take`; a settling step gives
back that of its handle, which is `Give`; all others stutter.  That the lowest
of a set of numbers is one of them is by well-founded induction.  `ExitComesLast`
(`[]ExitAfterOutput`) rests on `OutputSound`: the messages on an open stream are
what the process sent less what the handle heard, with at most a process id
before them and an exit after them, so that the reader of the exit has heard all.

Of `GuestDaemons` it proves `DaemonsTypeCorrect` and `DaemonsStayAccounted`
(`[]DaemonsAccounted`), for any calls and names; the table is finite because it
never has more entries than `MaxDaemons`.  `DaemonsInv`: a name leads to a
daemon of that name that was launched (`TableSound`); a daemon that is not in
the table has ended and its end is recorded (`DaemonSound`), so an eviction or a
replacement can lose none; and a call in a stop phase knows the daemons it
found running, each of them gone, or awaited by the call (`DaemonCallSound`).

`WorkspaceBindingProofs` proves, for any calls, generations and disturbances,
`CallsGoByCurrentMounts` (`[]ReturnsCurrentMounts`), `EffectsNeverRepeat`
(`[]EffectOnce`) and `FailuresAreExcused` (`NoSpuriousFailure`).  A row is handed on from the orchestrator's answer to a
promise, to the cache, to the calls that await or find it, and a refresh keeps
its mounts; `BindingInv` follows it.  `EntrySound`: unless a change of mounts is
unanswered or its answer was lost, the cached row of a container is current, and
so is that of the promise cached for it.  `Informed`: so are the row a call goes
by and the one it will get, unless the call was disturbed.  `PromiseSound` and
`Placed` tie the promises to their calls: a pending promise is awaited by the
call that created it and only by calls of its key, and every open call saw the
control call under way.  One lemma says what a call that moves without waiting
keeps (`CallMoves`), two what `Ask` does (`CallJoins`, `CallCreates`), one what
the end of a promise does (`DeliverKeepsInv`), one what a disturbance does, of
which every call learns (`DisturbanceKeepsInv`).  That failures are excused is
an action property and needs `RepairInv` besides, which says of every call that
nothing disturbed how far its repairs have come: its plan is a rest of the one
for its key, and once it refreshed or repaired anything it awaits a promise of
its own (`Planned`); the row it goes by when its repairs are spent is at least of
the generation it began with or made, and after a refresh of a later one
(`Renewed`); and the container it pinged or recreated is still up (`Reachable`).
What can then fail it is a second rejection, which takes two recreations by
others (`RejectedLate`).

`PageProofs` proves `DialogTypeCorrect` and `DialogSound` (`MountDialogSound`),
for any directories, typings and volumes.  `DialogInv`: a check that is current
belongs to the draft on screen and Add waits for it (`ChecksInv`), what the
browser offers is what the host listed (`PickerInv`), a row names a volume that
was there or the one being created (`StorageInv`), and nothing stays blocked
(`NeverStuck`).  It assumes of the constants that typings and directories are
told apart (`FoldersAssumption`).  It proves `CardNeverGoesBack`
(`ShownNeverOlder`), for any calls and configurations.  `ListingsOrdered`: of the
requests in flight at most one has the current generation, and the listing it
carries is not older than what is shown.

Its `ApplyLeavesDraft` (`ApplyDelivers`) holds for any calls and drafts.
`ApplyInv`: as long as nobody else changed the container, what an apply has still
to send turns the recorded configuration into the draft, group by group, except
in the groups that failed (`LeadsTo`); the commands left come in their order, and
the result so far is good exactly if nothing failed (`Promise`); at most one apply
is under way (`OneApply`).  One lemma per group says that a command carried out
takes its part of the difference away (`MountsGo`, `SecretsGo`, `PortsGo`), and
`Refused` says why the order matters: a command that is first among those left is
refused only in a group that failed already.

Of `TemplatePopup` it proves `PopupContinuesWithChosen` (`[]ContinuesWithChosen`),
for any templates, boxes and builds.  `PopupInv`: while no build of an earlier
choice is under way in the details, their plan, draft and builds are of the
choice (`Undisturbed`); a plan that says "ready" has its image (`PlanTrue`); and
what a Continue found is still true when it is handed over (`CheckSound`), for
an image goes only by `ImageVanishes`.

`ToolPolicyProofs` proves `ToolsRunAsPermitted` (`[]RunsAsPermitted`), for any
calls, templates and sessions.  `PolicyInv`: what a call is at each place of the
policy (`Placed`), and that every call under way has noted a container that is
wholly read-only (`Noticed`), on which the gate relies when it finds nothing to
remount.  `PromptTellsRemovals` (`[]SummaryTruthful`) rests on `Told`: the
document of the summary is still the file's, and the summary still what an apply
of it would remove, as long as nobody touched either; and `AppliedRemoves`, that
the handler's apply removes what the policy's count of the same document says.
`AgentHasRecordedPaths` (`[]PathsAgree`) rests on `PathsInv`: at most one update
is half done, and the record has its list.

Of `TemplateLoad` it proves `TemplatesAreFaithful` (`[]TemplatesFaithful`) and
`TemplateTypes` (`[]TemplateTypeOK`), for any documents, images, containers, calls
and ports.  `TemplateInv` says of a load, as long as nobody touched its container
or its image, what the image under the template's tag holds at each place
(`LoadOnTheWay`), and what the load made of the row once it was written (`Wrote`):
the environment and the other groups of the document, or what the container had
before where the document has none; of a save, that the document goes by the row
and the list it read (`SaveOnTheWay`).  That what is exported is what the container
holds needs a fact about a chain of images of any length, and no induction: when
every custom image met on the way is listed and holds what its record says, the
images that hold no more than the base and the packages of the way form a set that
is closed under "parent of" (`Met`).

`PageProofs` proves of `ContainerForm` `FormTypes` (`[]FormTypeOK`), for any names,
values, paths and configurations, and in two theorems what is sent.
`SentAsTheRowsShow` assumes nothing of the containers: what Create or Apply sends has
a variable for every row on screen and a row for every variable.  `FormInv`: while
the dialog is open the records of the draft are the ones its rows derive
(`RowsFit`), whatever wrote the draft, and while the confirmation is open no row is
unnamed and no name occurs twice in an editor (`AskedOK`).  It rests on lemmas about
the operators: the rows made of a record derive that record and are clean
(`RowsOfSound`), clean rows show what they derive (`CleanRowsShow`), and only one
record is shown by given rows (`ShownOnce`).  `SentIsShownAndLegal` adds that no name
is used over both groups and no mount is refused, which is `SendsAsShown`, under
`ConfigsLegal`: the containers the host is found with have no name in both groups
(nor a mount the host refuses, which it would not have made).  The assumption is needed and TLC shows why (three snapshots, the first discarded to,
the second and third while the confirmation is open): Apply confirms what was
checked when the confirmation opened, a snapshot adopted in between is not checked
again, and only the form refuses a name in both groups, not the orchestrator.  The
configurations of `plugin` satisfy it.

The assumptions on the constants of the two modules: the base images differ from
the custom ones and containers first found on a base hold what it has
(`TemplateAssumption`); there are finitely many names of variables, none of them
empty, and the first configurations are configurations (`FormAssumption`).

The type theorem of `PortPublishing` is about an invariant that no run lists,
the one that `SerialInv` rests on.

Every module of the plugin has a type theorem, and five of them say more than that
a field has its set.  `BindingTypes`: the generation of a row is one the container
has had, and the mounts it counts changed at most once per disturbance.
`ExecTypes` (`ExecTyped`): what a consumer heard was sent, and no process sends more
than it has, which needs `OutputSound`, because only the count of the messages on
the stream ties the two.  `PolicyTypes`: the documents and lists that a call carries
over its waits are ones there are, and what it counted is a number the properties can
tell apart.  `CardTypes`: every command of an apply is about something that
there is, so the host's record stays a configuration, and no call carries a listing
newer than that record; its `CardShape` says that a call in `command` has a step
of an existing item.  `PopupTypes`: a plan is of a template or of none, although what is
inspected, built and checked again is read back only when the answer comes; that a
template is chosen then is `PopupInv`.

`PluginProofs` brings them together.  `MCPlugin` takes a step of one part and leaves
the others at rest, and `RunImplementsParts` says that this restricts none of them:
every behaviour of `PluginSpec` is one of the specification of each of its ten parts.
So each theorem about a part holds of the run; `PluginTypes` (`[]PluginTypeOK`) is one
that the run checks.

Only model-checked are the liveness properties, since fairness and ENABLED are beyond
the prover: `EveryCallReturns`, `GoneReleases`, `Recovers`, `Reaped` and `CallsEnd`.

## Findings

1. A refused recreate does not leave the container untouched
   (`lifecycle_refused`).  The comment at container-lifecycle.go:108 says it
   does; recreateOrRestore restores after every error, and the restore stops,
   removes and recreates the container.
2. A pod can be torn down with a container in it (`lifecycle_pod`).
   CreateWorkspace writes the workspace with the default container alone, which
   drops a named container's record while the container goes on running; the
   plugin calls it when DescribeWorkspace fails with NotFound and its creation
   is allowed for a stored workspace without default container.
3. A stale verdict drops a fresh record (`lifecycle_reconcile`).  The comment
   at containers.go:174 promises to keep a container written after the lookups.
4. A publish whose caller goes away leaves a port in the gateway alone
   (`ports_cancelled`).  docs/architecture.md:214 says that no published port
   lives only in the gateway; the rollback at ports.go:138 uses the context of
   the call, so when the bind has arrived and the caller has gone it does not
   reach the gateway.
5. One container that does not answer takes down the ports of the others
   (`ports_flapping`).  docs/architecture.md:216 says a gateway that restarts
   is bound again from the store; rebindAllPublishedPorts (ports.go:308) ends
   the session when one port fails, which ends the lease, which closes the ports
   that were bound, and starts over until the stopped container is back.

6. A tab can have two shells (`terminals_twice`).  terminal-sessions.ts:5 says
   one guest pty per (session, tab).  prepare looks the tab up before it awaits
   and publishes its entry (line 195) without looking again; a page reloaded
   while its shell is starting has a second one started, and the entry that is
   overwritten is no longer swept, disposed of, or shown.  The same shell
   count results when a reconnect's open with `reopen=1` arrives before its
   close: prepare drops the entry, and the close finds nothing to terminate.

Seen in the model and not claimed as findings: a failure followed by a failed
or refused rollback leaves the mutated container under the recorded token, and a
later ensure hands it out with mounts the record does not have (`Unrestored`
excepts it); the cleanup of a failed start runs after
the unlock and can remove another call's container; RemoveWorkspace racing an
upsert lets the workspace come back.  Of ports: an unpublish whose store write
fails leaves a port recorded that is not bound; so does a removal that fails
after the ports were released, and a publish whose lease ends between bind and
write, until the next session; a publish that overlaps a recreate of the same
container can lose its record; a port published between a new lease and its
rebind can take the host port that a record names, and the session then fails
for ever.  Of terminals: `listen` registers for the abort of a request that may
have been aborted during the start of its shell; such a listener is never
removed and its shell never swept, until another stream attaches or a page
closes it.  A shell whose start ends after `dispose` stays.  A change of target
whose open arrives before its close attaches to the old shell, which the close
then terminates.  A detached page still knows its terminal, so its input is
accepted, and a connect from it closes the shell its successor shows.

## Seen in the plugin, not claimed

The properties above except what follows.  Only the first paragraph contradicts
what the repository says of itself; the others contradict no line clearly
enough to be a finding, or were met by reading next to a definition rather than
by a run.

The lock of a path does not last as long as its write.  fs-provider.ts:112-113
says that the next caller "awaits a promise that settles only when this mutation
has finished, whatever its outcome", and 95-96 that overlapping mutations "must
not both observe the same version and then both write".  A write whose caller
aborts is rejected in the plugin at once (guest-rpc.ts:136), its lock is
released, and the guest may rename later.  With no process of the container
acting: a first call gives its write up; a second enters and takes its stat; the
late write lands; the second call passes its check on that stat and writes over
what nobody has seen.  TLC gives this trace for `NoBlindOverwrite` without
its exception for intruded sections; without the other exception it gives a late write that
lands after a later call's write, which its session never saw.  With both
exceptions the property holds, and is proved.

Bindings: a failed refresh of a container's entry stays cached as a rejected
promise (workspace-binding.ts:275).  The signal of the first caller aborts the
resolution that others share (369).  After the lost reply of a mount change the
call that refreshes keeps the old mounts (188).  Two callers on an unreachable
agent each recreate its container.  A call whose container others recreate twice
while it runs fails, since a credential is refreshed once (guest-rpc.ts:172,
workspace-binding.ts:346).

Processes: a kill timer that fires before the process id is known is spent, and
a process that ignores SIGTERM goes on (subprocess.ts:189, 356).  A failed
binding does not end stdout and stderr (246).  A stream error gives the identity
back while the process may live (443).

Tools and files: a remount after a prompt uses the mounts read before it
(read-only-shell.ts:84).  Two path updates that overlap, or a template load next
to one, leave record and agent with different lists.  A process that writes
inside a locked section is overwritten unseen (fs-provider.ts).

Card: the toast and listing of a long command are dropped when a shorter one
finished after it started (container-card-controller.ts:651).  Editing away the
last variable of the environment sends nothing, and the apply reports success.
A draft may have two mounts at one destination; the apply then fails in the mounts
group after the commands before it were carried out.
An apply that is computed from a card older than the container reverts or misses
what changed.  A draft edited back to its staged form while the server moved
leaves a row "pending" (container-card-row.tsx:184).

Template popup: a late build of an earlier choice writes the plan of the choice
on screen (container-card-templates.tsx:895).  The check that Continue started
survives Back and Close, so the editor opens after the user has left.  An apply
still under way erases the source of a draft handed over to the same container
(container-card-workspace.tsx:362).  A replace by the popup seeds the draft
without the container's current values (container-card-templates.tsx:857).

Templates: two overlapping builds of one template leave record and tag of its
image different.  Two overlapping creates of a workspace keep the first one's
mounts (workspaces.go:209).  An export names the image list of now, not the one
the container was made from.

Add mount: an Add that awaits the host writes back the draft of the render it
started in, over a snapshot adopted or a secret selected meanwhile
(container-card-editors.tsx:492).  In the edit dialog a mount can be added with
the name of a volume the host then refuses to create; a refused create empties
the source although the list has filled meanwhile; two refused creates can
revert to a refused name (container-card-shared.tsx:867).  A directory whose own
listing failed can still be used (container-card-directory.tsx:111).  Clicking
Add leaves the field, which starts a listing, which disables Add.

Form: while a listed destination is refused, the effect that reports it runs
after every render, for its argument is a new object each time
(container-card-form.tsx:165).  The selection of a secret survives its refused
create and may override the row's later choice (container-card-secrets.tsx:362).
A named template draft nobody touched asks to be discarded.  A row still without
a name is dropped when a snapshot of the same group is adopted
(container-card-row.tsx:175).

Daemons: a restart that overlaps a stop and a start of its name with another
command stops the newer daemon and starts the older command (daemon.go:298).  A
stop returns success although processes outside the group keep the daemon
"running", and a restart is refused then.  A start that fails has already
forgotten the daemon it evicted.  A daemon started while stop-all runs survives
it.  A start over a running daemon (docs/usage.md:370 says it is replaced) is
refused when another start comes first or strays keep it "running", and when an
identity of the request is negative the old daemon has been stopped all the
same.  A process of the group that redirected its output is waited for by
nobody: the daemon counts as stopped, and a stop signals it no more.

Hazards without a property, beside those of the orchestrator above: two calls on
one container write back a record read earlier (ports.go:143, excluded by
`Serial`); a check of the users of a secret and its removal (secrets.go:223,
255); the lazy creation of the PTC container (ptc.go:100).

## Plan

1. `ContainerLifecycle`, `PortPublishing`, `TerminalSessions`: done, checked and
   proved.
2. The plugin: bindings, processes, tools, files, templates, and the browser's
   card, popup, dialog and form: done and checked, with theorems on bindings,
   files, processes, the policy, the card, the Add-mount and the template popup.
3. `GuestDaemons`: done, checked and proved.
4. `ResourceGuards`: images, the PTC container, secrets and volumes, whose
   removals check for users that another call creates meanwhile.
5. An abstract terminal (free, owned, ended) that `TerminalSessions` implements;
   an abstract container (absent, being replaced, or exactly its record) that the
   serial lifecycle implements.
6. Composition: the binding with `ContainerLifecycle` for its world, in place of
   the one `Mutate` and `Recover` describe.

## Not modelled

* The guest's file API and its path confinement, and the listing of
  directories: no state between calls.
* The process side of commands and ptys in the guest (process groups, output
  limits, spill files, resizing): `GuestExec` and `TerminalSessions` take a
  process as something that starts, writes, and ends.
* Images beside those of templates, their caches and removal guards; the
  orchestrator's slot of the PTC container; the podman secrets and volumes
  themselves.
* Authentication, versions, logging: stateless interceptors.  The wire format
  and generated code.
* The texts of approvals and errors, locales, styles, the layout of pages, the
  emulator of the terminal page.

PROJECT.json lists each component with its status.
