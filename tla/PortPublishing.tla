---------------------------- MODULE PortPublishing ----------------------------
(***************************************************************************)
(* Published ports: the orchestrator's calls and gateway session           *)
(* (internal/orchestrator/grpcserver/ports.go, gatewayclient), the gateway's *)
(* bindings (internal/gateway) and each guest agent's forwarding sockets    *)
(* (internal/guestagent/publish).                                           *)
(*                                                                         *)
(* A control call, a background restore and the gateway session are        *)
(* processes cut at every call to a guest agent or the gateway and at every *)
(* access to the store; the records they read stay with them and may be    *)
(* stale when used.                                                        *)
(***************************************************************************)
EXTENDS Integers, FiniteSets

CONSTANTS
    Container,      \* podman names
    Port,           \* pod ports
    HostPort,       \* host ports the gateway may bind
    Request,        \* handlers of control calls and their background restores
    Session,        \* the orchestrator's gateway loop, a process beside the calls
    None,           \* no record, no agent, no binding, no suggestion
    Op,             \* the calls that may be issued
    Suggested,      \* [Container -> SUBSET (HostPort \cup {None})]
    MaxCalls,       \* bound on how many are
    MaxPublished,   \* ports one guest agent forwards (maxPublished)
    MaxAttempts,    \* attempts of a background restore
    MaxOrphans,     \* bound on ended leases the gateway has not noticed
    FaultKinds,     \* the faults that may happen
    MaxFaults,      \* bound on how many do
    Serial          \* TRUE: calls do not overlap, nothing outside happens
                    \* during one, and ports are released only while nothing
                    \* re-establishes them

AllOps == {"publish", "unpublish", "recreate", "ensure", "remove"}

\* The state file cannot be written, podman fails, the caller of a call goes away,
\* an agent does, the gateway restarts, the orchestrator stops.
AllFaults == {"store", "podman", "caller", "agent", "gateway", "orchestrator"}

ASSUME NamesAssumption ==
    /\ None \notin HostPort
    /\ None \notin [Port -> HostPort \cup {None}]
    /\ Session \notin Request

ASSUME BoundsAssumption ==
    /\ Op \subseteq AllOps
    /\ Suggested \in [Container -> SUBSET (HostPort \cup {None})]
    /\ MaxCalls \in Nat
    /\ MaxPublished \in Nat
    /\ MaxAttempts \in Nat
    /\ MaxOrphans \in Nat
    /\ FaultKinds \subseteq AllFaults
    /\ MaxFaults \in Nat
    /\ Serial \in BOOLEAN

VARIABLES
    rec,        \* rec[c]: the host port stored for each port, or None
    live,       \* the containers whose guest agent answers
    agent,      \* agent[c]: the ports its guest agent forwards
    bound,      \* bound[c][p]: the host port the gateway listens on, or None
    lease,      \* the gateway counts the session's lease stream
    orphans,    \* counted lease streams whose orchestrator end is gone
    proc,       \* the calls, their background restores, and the session
    up,         \* the orchestrator runs
    calls,      \* calls so far
    faults      \* faults so far

vars == <<rec, live, agent, bound, lease, orphans, proc, up, calls, faults>>

-------------------------------------------------------------------------------
(* Records and processes.                                                  *)

\* Container.PublishedPorts; socket names follow from the port.
Ports == [Port -> HostPort \cup {None}]

NoPorts == [p \in Port |-> None]

Items(c, ports) == {<<c, p, ports[p]>> : p \in {q \in Port : ports[q] # None}}

\* Every published port in the store.
Recorded == UNION {Items(c, rec[c]) : c \in {d \in Container : rec[d] # None}}

PC == {"idle", "forward", "bind", "write", "unbind", "unforward",
       "replace", "create", "release", "podmanRemove", "drop",
       "connect", "read", "publish", "rebind", "hold"}

Item == Container \X Port \X HostPort

Process ==
    [pc : PC,
     op : AllOps \cup {"none", "restore"},
     c : Container \cup {None},
     p : Port \cup {None},
     host : HostPort \cup {None},     \* the host port suggested, then bound
     draft : Ports \cup {None},       \* the record as it was read
     todo : SUBSET Item,              \* ports to re-establish or to release
     failed : BOOLEAN,                \* one could not be
     cancelled : BOOLEAN,             \* the caller has gone away
     tries : Nat]

Idle == [pc |-> "idle", op |-> "none", c |-> None, p |-> None, host |-> None,
         draft |-> None, todo |-> {}, failed |-> FALSE, cancelled |-> FALSE,
         tries |-> 0]

Restoring(r) == proc[r].op = "restore"
InFlight(r) == proc[r].pc # "idle" /\ ~Restoring(r)
Quiet == \A r \in Request : ~InFlight(r)

\* The session holds its lease and nothing is being re-established.
Settled ==
    /\ proc[Session].pc = "hold"
    /\ lease
    /\ \A r \in Request : ~Restoring(r)

\* A call to op on the stored container c.
Call(r, op, c) ==
    /\ up
    /\ calls < MaxCalls
    /\ calls' = calls + 1
    /\ proc[r].pc = "idle"
    /\ op \in Op
    /\ rec[c] # None
    /\ Serial => Quiet /\ (op \in {"unpublish", "remove"} => Settled)

Received(op, c, p, pc) ==
    [Idle EXCEPT !.op = op, !.c = c, !.p = p, !.pc = pc, !.draft = rec[c]]

Goto(x, pc) == proc' = [proc EXCEPT ![x].pc = pc]
Return(r) == proc' = [proc EXCEPT ![r] = Idle]

Fault(kind) ==
    /\ kind \in FaultKinds
    /\ faults < MaxFaults
    /\ faults' = faults + 1

\* Whether a request to an agent or the gateway takes effect: once the caller has
\* gone away none is answered, and one that was on its way may still arrive.
Arrives(x) == IF proc[x].cancelled THEN BOOLEAN ELSE {TRUE}

-------------------------------------------------------------------------------
(* The guest agent's publisher and the gateway, each one critical section.  *)

\* Manager.Publish: a port forwarded already is no new one.
CanForward(c, p) ==
    /\ c \in live
    /\ p \in agent[c] \/ Cardinality(agent[c]) < MaxPublished

Forwarded(c, p) == [agent EXCEPT ![c] = @ \cup {p}]

\* The container, its guest agent and its sockets are gone.
Gone(c) ==
    /\ live' = live \ {c}
    /\ agent' = [agent EXCEPT ![c] = {}]

\* Manager.Unpublish, which never fails the caller.
Unforwarded(c, p) == [agent EXCEPT ![c] = @ \ {p}]

Leased == lease \/ orphans > 0

Taken == {bound[c][p] : c \in Container, p \in Port}

\* Mutant: a bind is accepted without a lease.
BindableUnleased(c, p, host) ==
    IF bound[c][p] # None THEN {bound[c][p]}
    ELSE (IF host = None THEN HostPort ELSE {host}) \ Taken

\* gateway.Server.Bind: the host ports it may answer, none when it refuses.
Bindable(c, p, host) ==
    IF ~Leased THEN {}
    ELSE IF bound[c][p] # None THEN {bound[c][p]}
    ELSE (IF host = None THEN HostPort ELSE {host}) \ Taken

Unbound == [c \in Container |-> NoPorts]

-------------------------------------------------------------------------------
(* PublishPort and UnpublishPort.                                          *)

CallPublish(r, c, p) ==
    /\ Call(r, "publish", c)
    /\ \E host \in Suggested[c] :
          proc' = [proc EXCEPT ![r] =
                     IF rec[c][p] # None
                     THEN Idle
                     ELSE [Received("publish", c, p, "forward") EXCEPT !.host = host]]
    /\ UNCHANGED <<rec, live, agent, bound, lease, orphans, up, faults>>

Forward(r) ==
    LET x == proc[r] IN
    /\ x.pc = "forward"
    /\ IF CanForward(x.c, x.p) /\ ~x.cancelled
       THEN Goto(r, "bind")
       ELSE Return(r)
    /\ \E arrives \in Arrives(r) :
          agent' = IF CanForward(x.c, x.p) /\ arrives THEN Forwarded(x.c, x.p) ELSE agent
    /\ UNCHANGED <<rec, live, bound, lease, orphans, up, calls, faults>>

\* A refused bind takes the forwarding socket back.
Bind(r) ==
    LET x == proc[r]
        hosts == Bindable(x.c, x.p, x.host)
    IN
    /\ x.pc = "bind"
    /\ \/ /\ hosts = {} \/ x.cancelled
          /\ Goto(r, "unforward")
          /\ UNCHANGED bound
       \/ \E host \in hosts :
              /\ bound' = [bound EXCEPT ![x.c][x.p] = host]
              /\ IF x.cancelled
                 THEN Goto(r, "unforward")
                 ELSE proc' = [proc EXCEPT ![r].pc = "write", ![r].host = host]
    /\ UNCHANGED <<rec, live, agent, lease, orphans, up, calls, faults>>

\* upsertContainer with the port added or removed; a failed write of an added
\* one is rolled back.
Write(r) ==
    LET x == proc[r] IN
    /\ x.pc = "write"
    /\ \/ /\ rec' = [rec EXCEPT ![x.c] = [x.draft EXCEPT ![x.p] = x.host]]
          /\ Return(r)
          /\ UNCHANGED faults
       \/ /\ Fault("store")
          /\ IF x.op = "publish" THEN Goto(r, "unbind") ELSE Return(r)
          /\ UNCHANGED rec
    /\ UNCHANGED <<live, agent, bound, lease, orphans, up, calls>>

CallUnpublish(r, c, p) ==
    /\ Call(r, "unpublish", c)
    /\ proc' = [proc EXCEPT ![r] =
                  IF rec[c][p] = None
                  THEN Idle
                  ELSE Received("unpublish", c, p, "unbind")]
    /\ UNCHANGED <<rec, live, agent, bound, lease, orphans, up, faults>>

\* Mutant: a rollback leaves the gateway's binding.
UnbindUnpublished(r) ==
    LET x == proc[r] IN
    /\ x.pc = "unbind"
    /\ Goto(r, "unforward")
    /\ bound' = IF x.op = "publish" THEN bound ELSE [bound EXCEPT ![x.c][x.p] = None]
    /\ UNCHANGED <<rec, live, agent, lease, orphans, up, calls, faults>>

\* gateway.Server.Unbind; a binding that is gone is no error.
Unbind(r) ==
    LET x == proc[r] IN
    /\ x.pc = "unbind"
    /\ Goto(r, "unforward")
    /\ \E arrives \in Arrives(r) :
          bound' = IF arrives THEN [bound EXCEPT ![x.c][x.p] = None] ELSE bound
    /\ UNCHANGED <<rec, live, agent, lease, orphans, up, calls, faults>>

Unforward(r) ==
    LET x == proc[r] IN
    /\ x.pc = "unforward"
    /\ \E arrives \in Arrives(r) : agent' = IF arrives THEN Unforwarded(x.c, x.p) ELSE agent
    /\ IF x.op = "unpublish"
       THEN Goto(r, "write")
       ELSE Return(r)
    /\ UNCHANGED <<rec, live, bound, lease, orphans, up, calls, faults>>

-------------------------------------------------------------------------------
(* Calls that replace, check or remove a container.                        *)

\* RecreateContainer and StartContainer over a stored container.
CallRecreate(r, c) ==
    /\ Call(r, "recreate", c)
    /\ proc' = [proc EXCEPT ![r] = Received("recreate", c, None, "replace")]
    /\ UNCHANGED <<rec, live, agent, bound, lease, orphans, up, faults>>

\* A usable container gets its ports re-established, another is recreated.
CallEnsure(r, c) ==
    /\ Call(r, "ensure", c)
    /\ proc' = [proc EXCEPT ![r] =
                  IF c \notin live
                  THEN Received("ensure", c, None, "replace")
                  ELSE [Received("ensure", c, None, "publish")
                          EXCEPT !.todo = Items(c, rec[c])]]
    /\ UNCHANGED <<rec, live, agent, bound, lease, orphans, up, faults>>

\* The old container is stopped and removed, and its sockets with it.
Replace(r) ==
    /\ proc[r].pc = "replace"
    /\ Goto(r, "create")
    /\ Gone(proc[r].c)
    /\ UNCHANGED <<rec, bound, lease, orphans, up, calls, faults>>

\* The new one is created and its record stored; the agent answers later.  Its
\* ports are restored in the background, whether or not the write succeeds, but
\* not when the create fails.
Create(r) ==
    LET x == proc[r]
        restore == [x EXCEPT !.op = "restore", !.pc = "publish", !.tries = 1,
                             !.todo = Items(x.c, x.draft), !.cancelled = FALSE]
    IN
    /\ x.pc = "create"
    /\ \/ /\ rec' = [rec EXCEPT ![x.c] = x.draft]
          /\ proc' = [proc EXCEPT ![r] = restore]
          /\ UNCHANGED faults
       \/ /\ Fault("store")
          /\ proc' = [proc EXCEPT ![r] = restore]
          /\ UNCHANGED rec
       \/ /\ Fault("podman")
          /\ Return(r)
          /\ UNCHANGED rec
    /\ UNCHANGED <<live, agent, bound, lease, orphans, up, calls>>

\* RemoveContainer; RemoveWorkspace does the same for each of its containers.
CallRemove(r, c) ==
    /\ Call(r, "remove", c)
    /\ proc' = [proc EXCEPT ![r] = [Received("remove", c, None, "release")
                                      EXCEPT !.todo = Items(c, rec[c])]]
    /\ UNCHANGED <<rec, live, agent, bound, lease, orphans, up, faults>>

\* releasePublishedPorts, one port at a time.
Release(r) ==
    /\ proc[r].pc = "release"
    /\ IF proc[r].todo = {}
       THEN Goto(r, "podmanRemove") /\ UNCHANGED bound
       ELSE \E i \in proc[r].todo, arrives \in Arrives(r) :
              /\ bound' = IF arrives THEN [bound EXCEPT ![i[1]][i[2]] = None] ELSE bound
              /\ proc' = [proc EXCEPT ![r].todo = @ \ {i}]
    /\ UNCHANGED <<rec, live, agent, lease, orphans, up, calls, faults>>

\* A removal that fails leaves the container stopped, or as it was.
PodmanRemove(r) ==
    /\ proc[r].pc = "podmanRemove"
    /\ \/ Gone(proc[r].c) /\ Goto(r, "drop") /\ UNCHANGED faults
       \/ /\ Fault("podman")
          /\ Return(r)
          /\ Gone(proc[r].c) \/ UNCHANGED <<live, agent>>
    /\ UNCHANGED <<rec, bound, lease, orphans, up, calls>>

Drop(r) ==
    /\ proc[r].pc = "drop"
    /\ \/ rec' = [rec EXCEPT ![proc[r].c] = None] /\ Return(r) /\ UNCHANGED faults
       \/ Fault("store") /\ Return(r) /\ UNCHANGED rec
    /\ UNCHANGED <<live, agent, bound, lease, orphans, up, calls>>

-------------------------------------------------------------------------------
(* reestablishPublishedPorts, for a restore, an ensure and the session.    *)

\* The ports are taken in any order; the code takes them as they are stored.
PublishNext(x) ==
    /\ proc[x].pc = "publish"
    /\ \E i \in proc[x].todo, arrives \in Arrives(x) :
          /\ agent' = IF CanForward(i[1], i[2]) /\ arrives
                      THEN Forwarded(i[1], i[2]) ELSE agent
          /\ proc' = IF CanForward(i[1], i[2]) /\ ~proc[x].cancelled
                     THEN [proc EXCEPT ![x].pc = "rebind", ![x].c = i[1],
                                       ![x].p = i[2], ![x].host = i[3],
                                       ![x].todo = @ \ {i}]
                     ELSE [proc EXCEPT ![x].failed = TRUE, ![x].todo = @ \ {i}]
    /\ UNCHANGED <<rec, live, bound, lease, orphans, up, calls, faults>>

\* Mutant: the gateway is asked for any host port.
RebindAnywhere(x) ==
    LET i == proc[x]
        hosts == Bindable(i.c, i.p, None)
    IN
    /\ i.pc = "rebind"
    /\ proc' = [proc EXCEPT ![x].pc = "publish",
                            ![x].failed = @ \/ hosts = {} \/ i.cancelled]
    /\ \/ (hosts = {} \/ i.cancelled) /\ UNCHANGED bound
       \/ \E host \in hosts : bound' = [bound EXCEPT ![i.c][i.p] = host]
    /\ UNCHANGED <<rec, live, agent, lease, orphans, up, calls, faults>>

Rebind(x) ==
    LET i == proc[x]
        hosts == Bindable(i.c, i.p, i.host)
    IN
    /\ i.pc = "rebind"
    /\ proc' = [proc EXCEPT ![x].pc = "publish",
                            ![x].failed = @ \/ hosts = {} \/ i.cancelled]
    /\ \/ (hosts = {} \/ i.cancelled) /\ UNCHANGED bound
       \/ \E host \in hosts : bound' = [bound EXCEPT ![i.c][i.p] = host]
    /\ UNCHANGED <<rec, live, agent, lease, orphans, up, calls, faults>>

Done(x) == proc[x].pc = "publish" /\ proc[x].todo = {}

\* EnsureContainer only logs a failure; a restore tries again.
Reestablished(r) ==
    LET x == proc[r] IN
    /\ Done(r)
    /\ r # Session
    /\ proc' = [proc EXCEPT ![r] =
                  IF x.op = "restore" /\ x.failed /\ x.tries < MaxAttempts
                  THEN [x EXCEPT !.todo = Items(x.c, x.draft), !.failed = FALSE,
                                 !.tries = @ + 1]
                  ELSE Idle]
    /\ UNCHANGED <<rec, live, agent, bound, lease, orphans, up, calls, faults>>

-------------------------------------------------------------------------------
(* The gateway session.                                                    *)

Waiting == [Idle EXCEPT !.pc = "connect"]

\* GetVersion and Lease; the acknowledged ping means that the lease is counted.
Connect ==
    /\ up
    /\ proc[Session].pc = "connect"
    /\ orphans < MaxOrphans
    /\ lease' = TRUE
    /\ Goto(Session, "read")
    /\ UNCHANGED <<rec, live, agent, bound, orphans, up, calls, faults>>

\* rebindAllPublishedPorts reads the store once.
ReadStore ==
    /\ proc[Session].pc = "read"
    /\ proc' = [proc EXCEPT ![Session] =
                  [Idle EXCEPT !.pc = "publish", !.todo = Recorded]]
    /\ UNCHANGED <<rec, live, agent, bound, lease, orphans, up, calls, faults>>

\* Mutant: a session that failed to rebind keeps its lease.
HoldAnyway ==
    /\ Done(Session)
    /\ Goto(Session, "hold")
    /\ UNCHANGED <<rec, live, agent, bound, lease, orphans, up, calls, faults>>

\* A port that could not be re-established ends the session and its lease.
Rebound ==
    /\ Done(Session)
    /\ IF proc[Session].failed
       THEN /\ proc' = [proc EXCEPT ![Session] = Waiting]
            /\ lease' = FALSE
            /\ orphans' = IF lease THEN orphans + 1 ELSE orphans
       ELSE /\ Goto(Session, "hold")
            /\ UNCHANGED <<lease, orphans>>
    /\ UNCHANGED <<rec, live, agent, bound, up, calls, faults>>

\* The stream of a gateway that went away ends the session.
Lost ==
    /\ proc[Session].pc = "hold"
    /\ ~lease
    /\ proc' = [proc EXCEPT ![Session] = Waiting]
    /\ UNCHANGED <<rec, live, agent, bound, lease, orphans, up, calls, faults>>

-------------------------------------------------------------------------------
(* What happens outside the calls.                                         *)

Outside == Serial => Quiet

\* Mutant: the last lease to end leaves the bindings.
LeaseEndedSilently ==
    /\ Outside
    /\ orphans > 0
    /\ orphans' = orphans - 1
    /\ UNCHANGED <<rec, live, agent, bound, lease, proc, up, calls, faults>>

\* endLease: the gateway notices that a stream has ended.
LeaseEnded ==
    /\ Outside
    /\ orphans > 0
    /\ orphans' = orphans - 1
    /\ bound' = IF lease \/ orphans > 1 THEN bound ELSE Unbound
    /\ UNCHANGED <<rec, live, agent, lease, proc, up, calls, faults>>

GatewayRestarts ==
    /\ Outside
    /\ Fault("gateway")
    /\ bound' = Unbound
    /\ lease' = FALSE
    /\ orphans' = 0
    /\ UNCHANGED <<rec, live, agent, proc, up, calls>>

\* The caller of a control call cancels it, and the handler goes on.
CallerLeaves(r) ==
    /\ InFlight(r)
    /\ ~proc[r].cancelled
    /\ Fault("caller")
    /\ proc' = [proc EXCEPT ![r].cancelled = TRUE]
    /\ UNCHANGED <<rec, live, agent, bound, lease, orphans, up, calls>>

\* A container stops, or its guest agent does.
AgentStops(c) ==
    /\ Outside
    /\ c \in live
    /\ Fault("agent")
    /\ Gone(c)
    /\ UNCHANGED <<rec, bound, lease, orphans, proc, up, calls>>

\* A guest agent starts and sweeps the sockets of the one before it; there is none
\* between the removal of a container and the creation that follows.
AgentStarts(c) ==
    /\ c \notin live
    /\ rec[c] # None
    /\ \A r \in Request : proc[r].pc \in {"create", "drop"} => proc[r].c # c
    /\ live' = live \cup {c}
    /\ UNCHANGED <<rec, agent, bound, lease, orphans, proc, up, calls, faults>>

\* The orchestrator stops or crashes: calls, restores and the session are gone.
OrchestratorStops ==
    /\ Outside
    /\ up
    /\ Fault("orchestrator")
    /\ up' = FALSE
    /\ proc' = [x \in Request \cup {Session} |->
                  IF x = Session THEN Waiting ELSE Idle]
    /\ lease' = FALSE
    /\ orphans' = IF lease THEN orphans + 1 ELSE orphans
    /\ UNCHANGED <<rec, live, agent, bound, calls>>

OrchestratorStarts ==
    /\ ~up
    /\ up' = TRUE
    /\ UNCHANGED <<rec, live, agent, bound, lease, orphans, proc, calls, faults>>

-------------------------------------------------------------------------------

\* Containers without published ports, before the first session.
Init ==
    /\ rec = Unbound
    /\ live = Container
    /\ agent = [c \in Container |-> {}]
    /\ bound = Unbound
    /\ lease = FALSE
    /\ orphans = 0
    /\ proc = [x \in Request \cup {Session} |-> IF x = Session THEN Waiting ELSE Idle]
    /\ up = TRUE
    /\ calls = 0
    /\ faults = 0

Calls(r) ==
    \E c \in Container :
        \/ \E p \in Port : CallPublish(r, c, p) \/ CallUnpublish(r, c, p)
        \/ CallRecreate(r, c) \/ CallEnsure(r, c) \/ CallRemove(r, c)

Steps(x) ==
    \/ /\ x \in Request
       /\ \/ Forward(x) \/ Bind(x) \/ Write(x) \/ Unbind(x) \/ Unforward(x)
          \/ Replace(x) \/ Create(x)
          \/ Release(x) \/ PodmanRemove(x) \/ Drop(x)
          \/ Reestablished(x)
    \/ PublishNext(x) \/ Rebind(x)
    \/ x = Session /\ (Connect \/ ReadStore \/ Rebound \/ Lost)

Next ==
    \/ \E r \in Request : Calls(r) \/ CallerLeaves(r)
    \/ \E x \in Request \cup {Session} : Steps(x)
    \/ LeaseEnded
    \/ GatewayRestarts
    \/ \E c \in Container : AgentStops(c) \/ AgentStarts(c)
    \/ OrchestratorStops \/ OrchestratorStarts

Spec == Init /\ [][Next]_vars

\* Processes run, the session retries, and the gateway notices a stream that has
\* ended.  Nothing makes an agent or the orchestrator come back.
FairSpec ==
    /\ Spec
    /\ \A x \in Request \cup {Session} : WF_vars(Steps(x))
    /\ WF_vars(LeaseEnded)

-------------------------------------------------------------------------------
(* Properties.                                                             *)

\* Every variable keeps its type, and a record never holds a port the gateway
\* did not name.
TypeOK ==
    /\ rec \in [Container -> Ports \cup {None}]
    /\ live \subseteq Container
    /\ agent \in [Container -> SUBSET Port]
    /\ bound \in [Container -> Ports]
    /\ lease \in BOOLEAN
    /\ orphans \in Nat
    /\ proc \in [Request \cup {Session} -> Process]
    /\ up \in BOOLEAN
    /\ calls \in 0..MaxCalls
    /\ faults \in 0..MaxFaults

\* gateway.Server: bindings live only while a lease is held, whichever streams of
\* former sessions end late and whoever binds in between.
LeaseOwnsBindings == ~Leased => bound = Unbound

\* A port that is both recorded and bound is bound where the record says, so the
\* endpoint a call returned stays right across rebinds, restores and restarts.
BoundAsRecorded ==
    \A c \in Container, p \in Port :
        rec[c] # None /\ rec[c][p] # None => bound[c][p] \in {None, rec[c][p]}

\* docs/architecture.md: no published port lives only in the gateway.  Once
\* calls and re-establishing are over, what is bound is what is recorded.
NoPortOnlyInGateway ==
    Quiet /\ Settled =>
        \A c \in Container, p \in Port :
            bound[c][p] # None => rec[c] # None /\ rec[c][p] = bound[c][p]

\* An orchestrator that is gone for good leaves no host port behind.
GoneReleases == ~up ~> up \/ bound = Unbound

AllBound(c) ==
    \A p \in Port : rec[c] # None /\ rec[c][p] # None => bound[c][p] = rec[c][p]

Answers(c) == rec[c] \in {None, NoPorts} \/ c \in live

\* Whatever was lost, once the orchestrator runs, the calls have ended and each
\* container with published ports answers, every recorded port is bound again
\* and stays so.
Recovers ==
    <>[](up /\ Quiet /\ \A c \in Container : Answers(c))
        => <>[](\A c \in Container : AllBound(c))

\* docs/architecture.md: a gateway that restarts is re-bound from the store; a
\* container that answers gets its ports back, whatever another one does.
EachRecovers ==
    <>[](up /\ Quiet) =>
        \A c \in Container : <>[](Answers(c)) => <>[](AllBound(c))

===============================================================================
