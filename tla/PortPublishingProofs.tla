------------------------- MODULE PortPublishingProofs -------------------------
(***************************************************************************)
(* Proofs about PortPublishing, for every set of containers, ports, host   *)
(* ports and calls and any number of faults: types and leases for calls    *)
(* that overlap or not, bindings and records for calls that do not.        *)
(***************************************************************************)
EXTENDS PortPublishing, TLAPS

-------------------------------------------------------------------------------
(* Types.                                                                  *)

\* What a process holds while it acts on one container or one port.
Shaped(x) ==
    /\ x.pc \in {"forward", "bind", "write", "unbind", "unforward", "rebind"} =>
          x.c \in Container /\ x.p \in Port
    /\ x.pc \in {"replace", "create", "release", "podmanRemove", "drop"}
          \/ x.op = "restore" => x.c \in Container
    /\ x.pc \in {"write", "unbind", "unforward", "replace", "create", "forward", "bind"}
          \/ x.op = "restore" => x.draft \in Ports

TypeInv == TypeOK /\ \A x \in Request \cup {Session} : Shaped(proc[x])

ProcTyped ==
    /\ proc' \in [Request \cup {Session} -> Process]
    /\ \A x \in Request \cup {Session} : Shaped(proc'[x])

LEMMA IdleTyped == Idle \in Process /\ Shaped(Idle) /\ Waiting \in Process /\ Shaped(Waiting)
  BY DEF Idle, Waiting, Process, PC, Shaped

LEMMA ItemsTyped ==
    ASSUME NEW c \in Container, NEW ports \in Ports
    PROVE  Items(c, ports) \subseteq Item
<1>1. ASSUME NEW q \in Port, ports[q] # None PROVE ports[q] \in HostPort
  BY <1>1 DEF Ports
<1> QED BY <1>1 DEF Items, Item

LEMMA RecordedTyped ==
    ASSUME TypeInv
    PROVE  Recorded \subseteq Item
<1>1. ASSUME NEW c \in Container, rec[c] # None PROVE Items(c, rec[c]) \subseteq Item
  BY <1>1, ItemsTyped DEF TypeInv, TypeOK
<1> QED BY <1>1 DEF Recorded

\* Process x moves to p; every other one stays where it is.
LEMMA OneTyped ==
    ASSUME TypeInv, NEW x \in Request \cup {Session}, NEW p \in Process, Shaped(p),
           proc' = [proc EXCEPT ![x] = p]
    PROVE  ProcTyped
  BY DEF TypeInv, TypeOK, ProcTyped

LEMMA ReturnTyped ==
    ASSUME TypeInv, NEW x \in Request \cup {Session}, Return(x)
    PROVE  ProcTyped
  BY IdleTyped, OneTyped DEF Return

\* A step to a place that asks for no more than the process holds.
LEMMA GotoTyped ==
    ASSUME TypeInv, NEW x \in Request \cup {Session}, NEW pc \in PC, Goto(x, pc),
           Shaped([proc[x] EXCEPT !.pc = pc])
    PROVE  ProcTyped
<1>1. [proc[x] EXCEPT !.pc = pc] \in Process
  BY DEF TypeInv, TypeOK, Process
<1>2. proc' = [proc EXCEPT ![x] = [proc[x] EXCEPT !.pc = pc]]
  BY DEF Goto
<1> QED BY <1>1, <1>2, OneTyped

\* What a step must show for the type invariant.
RestTyped ==
    /\ rec' \in [Container -> Ports \cup {None}]
    /\ live' \subseteq Container
    /\ agent' \in [Container -> SUBSET Port]
    /\ bound' \in [Container -> Ports]
    /\ lease' \in BOOLEAN
    /\ orphans' \in Nat
    /\ up' \in BOOLEAN
    /\ calls' \in 0..MaxCalls
    /\ faults' \in 0..MaxFaults

LEMMA TypeInvNext ==
    ASSUME ProcTyped, RestTyped
    PROVE  TypeInv'
  BY DEF TypeInv, TypeOK, ProcTyped, RestTyped

LEMMA SameTyped ==
    ASSUME TypeInv
    PROVE  /\ UNCHANGED rec => rec' \in [Container -> Ports \cup {None}]
           /\ UNCHANGED live => live' \subseteq Container
           /\ UNCHANGED agent => agent' \in [Container -> SUBSET Port]
           /\ UNCHANGED bound => bound' \in [Container -> Ports]
           /\ UNCHANGED lease => lease' \in BOOLEAN
           /\ UNCHANGED orphans => orphans' \in Nat
           /\ UNCHANGED up => up' \in BOOLEAN
           /\ UNCHANGED calls => calls' \in 0..MaxCalls
           /\ UNCHANGED faults => faults' \in 0..MaxFaults
           /\ UNCHANGED proc => ProcTyped
  BY DEF TypeInv, TypeOK, ProcTyped

LEMMA FaultTyped ==
    ASSUME TypeInv, NEW kind, Fault(kind)
    PROVE  faults' \in 0..MaxFaults
  BY BoundsAssumption DEF TypeInv, TypeOK, Fault

LEMMA BoundTyped ==
    ASSUME TypeInv, NEW c \in Container, NEW p \in Port, NEW host \in HostPort \cup {None}
    PROVE  [bound EXCEPT ![c][p] = host] \in [Container -> Ports]
<1>1. [bound[c] EXCEPT ![p] = host] \in Ports
  BY DEF TypeInv, TypeOK, Ports
<1> QED BY <1>1 DEF TypeInv, TypeOK

LEMMA UnboundTyped == Unbound \in [Container -> Ports]
  BY DEF Unbound, NoPorts, Ports

LEMMA BindableTyped ==
    ASSUME TypeInv, NEW c \in Container, NEW p \in Port, NEW host \in HostPort \cup {None}
    PROVE  Bindable(c, p, host) \subseteq HostPort
<1>1. bound[c][p] \in HostPort \cup {None}
  BY DEF TypeInv, TypeOK, Ports
<1> QED BY <1>1 DEF Bindable

LEMMA ForwardedTyped ==
    ASSUME TypeInv, NEW c \in Container, NEW p \in Port
    PROVE  /\ Forwarded(c, p) \in [Container -> SUBSET Port]
           /\ Unforwarded(c, p) \in [Container -> SUBSET Port]
  BY DEF Forwarded, Unforwarded, TypeInv, TypeOK

LEMMA GoneTyped ==
    ASSUME TypeInv, NEW c \in Container, Gone(c)
    PROVE  live' \subseteq Container /\ agent' \in [Container -> SUBSET Port]
  BY DEF Gone, TypeInv, TypeOK

LEMMA ReceivedTyped ==
    ASSUME TypeInv, NEW op \in AllOps, NEW c \in Container, rec[c] # None,
           NEW p \in Port \cup {None}, NEW pc \in PC,
           pc \in {"forward", "unbind"} => p \in Port,
           pc \notin {"bind", "write", "unforward", "rebind"}
    PROVE  LET x == Received(op, c, p, pc) IN
           /\ x \in Process /\ Shaped(x)
           /\ \A host \in HostPort \cup {None} :
                 [x EXCEPT !.host = host] \in Process /\ Shaped([x EXCEPT !.host = host])
           /\ \A todo \in SUBSET Item :
                 [x EXCEPT !.todo = todo] \in Process /\ Shaped([x EXCEPT !.todo = todo])
<1> DEFINE x == Received(op, c, p, pc)
<1>1. rec[c] \in Ports
  BY DEF TypeInv, TypeOK
<1>2. x \in Process
  BY <1>1, IdleTyped DEF Received, Process
<1>3. x.pc = pc /\ x.op = op /\ x.c = c /\ x.p = p /\ x.draft = rec[c]
  BY DEF Received, Idle
<1> HIDE DEF x
<1>4. Shaped(x)
  BY <1>1, <1>3 DEF Shaped
<1>5. ASSUME NEW host \in HostPort \cup {None}
      PROVE  [x EXCEPT !.host = host] \in Process /\ Shaped([x EXCEPT !.host = host])
  BY <1>2, <1>4 DEF Process, Shaped
<1>6. ASSUME NEW todo \in SUBSET Item
      PROVE  [x EXCEPT !.todo = todo] \in Process /\ Shaped([x EXCEPT !.todo = todo])
  BY <1>2, <1>4 DEF Process, Shaped
<1> QED BY <1>2, <1>4, <1>5, <1>6 DEF x

\* Nothing changes but the process and the number of calls.
LEMMA CallTyped ==
    ASSUME TypeInv, NEW r \in Request, NEW op, NEW c, Call(r, op, c), ProcTyped,
           UNCHANGED <<rec, live, agent, bound, lease, orphans, up, faults>>
    PROVE  TypeInv'
<1>1. calls' \in 0..MaxCalls
  BY BoundsAssumption DEF Call, TypeInv, TypeOK
<1> QED BY <1>1, SameTyped, TypeInvNext DEF RestTyped

LEMMA CallsKeepTypes ==
    ASSUME TypeInv, NEW r \in Request, Calls(r)
    PROVE  TypeInv'
<1> DEFINE Into(x) == x \in Process /\ Shaped(x) /\ proc' = [proc EXCEPT ![r] = x]
<1>1. ASSUME NEW x, Into(x) PROVE ProcTyped
  BY <1>1, OneTyped
<1>2. AllOps \subseteq AllOps \cup {"none"} /\ {"publish", "unpublish", "recreate", "ensure", "remove"} \subseteq AllOps
  BY DEF AllOps
<1>3. {"forward", "unbind", "replace", "publish", "release"} \subseteq PC
  BY DEF PC
<1>4. ASSUME NEW c \in Container, NEW p \in Port, CallPublish(r, c, p) PROVE TypeInv'
  <2> DEFINE x == Received("publish", c, p, "forward")
  <2>1. PICK host \in Suggested[c] : proc' = [proc EXCEPT ![r] =
                     IF rec[c][p] # None THEN Idle ELSE [x EXCEPT !.host = host]]
    BY <1>4 DEF CallPublish
  <2>2. host \in HostPort \cup {None} /\ rec[c] # None
    BY <1>4, BoundsAssumption DEF CallPublish, Call
  <2>3. [x EXCEPT !.host = host] \in Process /\ Shaped([x EXCEPT !.host = host])
    BY <1>2, <1>3, <2>2, ReceivedTyped
  <2>4. Into(Idle) \/ Into([x EXCEPT !.host = host])
    BY <2>1, <2>3, IdleTyped
  <2> HIDE DEF Into, x
  <2> QED BY <1>1, <1>4, <2>4, CallTyped DEF CallPublish
<1>5. ASSUME NEW c \in Container, NEW p \in Port, CallUnpublish(r, c, p) PROVE TypeInv'
  <2> DEFINE x == Received("unpublish", c, p, "unbind")
  <2>1. x \in Process /\ Shaped(x)
    BY <1>2, <1>3, <1>5, ReceivedTyped DEF CallUnpublish, Call
  <2>2. Into(Idle) \/ Into(x)
    BY <1>5, <2>1, IdleTyped DEF CallUnpublish
  <2> HIDE DEF Into, x
  <2> QED BY <1>1, <1>5, <2>2, CallTyped DEF CallUnpublish
<1>6. ASSUME NEW c \in Container, CallRecreate(r, c) PROVE TypeInv'
  <2> DEFINE x == Received("recreate", c, None, "replace")
  <2>1. x \in Process /\ Shaped(x)
    BY <1>2, <1>3, <1>6, ReceivedTyped DEF CallRecreate, Call
  <2>2. Into(x)
    BY <1>6, <2>1 DEF CallRecreate
  <2> HIDE DEF Into, x
  <2> QED BY <1>1, <1>6, <2>2, CallTyped DEF CallRecreate
<1>7. ASSUME NEW c \in Container, rec[c] # None PROVE Items(c, rec[c]) \in SUBSET Item
  BY <1>7, ItemsTyped DEF TypeInv, TypeOK
<1>8. ASSUME NEW c \in Container, CallEnsure(r, c) PROVE TypeInv'
  <2> DEFINE x == Received("ensure", c, None, "replace")
             y == [Received("ensure", c, None, "publish") EXCEPT !.todo = Items(c, rec[c])]
  <2>1. rec[c] # None
    BY <1>8 DEF CallEnsure, Call
  <2>2. x \in Process /\ Shaped(x) /\ y \in Process /\ Shaped(y)
    BY <1>2, <1>3, <1>7, <2>1, ReceivedTyped
  <2>3. Into(x) \/ Into(y)
    BY <1>8, <2>2 DEF CallEnsure
  <2> HIDE DEF Into, x, y
  <2> QED BY <1>1, <1>8, <2>3, CallTyped DEF CallEnsure
<1>9. ASSUME NEW c \in Container, CallRemove(r, c) PROVE TypeInv'
  <2> DEFINE x == [Received("remove", c, None, "release") EXCEPT !.todo = Items(c, rec[c])]
  <2>1. rec[c] # None
    BY <1>9 DEF CallRemove, Call
  <2>2. x \in Process /\ Shaped(x)
    BY <1>2, <1>3, <1>7, <2>1, ReceivedTyped
  <2>3. Into(x)
    BY <1>9, <2>2 DEF CallRemove
  <2> HIDE DEF Into, x
  <2> QED BY <1>1, <1>9, <2>3, CallTyped DEF CallRemove
<1> QED BY <1>4, <1>5, <1>6, <1>8, <1>9 DEF Calls

\* The steps of PublishPort and UnpublishPort.
LEMMA PublishStepsKeepTypes ==
    ASSUME TypeInv, NEW r \in Request,
           Forward(r) \/ Bind(r) \/ Write(r) \/ Unbind(r) \/ Unforward(r)
    PROVE  TypeInv'
<1> DEFINE x == proc[r]
<1>1. x \in Process /\ x.c \in Container /\ x.p \in Port /\ x.draft \in Ports
      /\ x.host \in HostPort \cup {None}
  BY DEF Forward, Bind, Write, Unbind, Unforward, TypeInv, TypeOK, Shaped, Process
<1>2. \A pc \in {"bind", "write", "unbind", "unforward"} : Shaped([x EXCEPT !.pc = pc])
  BY <1>1 DEF Process, Shaped
<1>3. \A pc \in {"bind", "write", "unbind", "unforward"} : Goto(r, pc) => ProcTyped
  BY <1>2, GotoTyped DEF PC
<1>4. Return(r) => ProcTyped
  BY ReturnTyped
<1>5. CASE Forward(r)
  BY <1>1, <1>3, <1>4, <1>5, ForwardedTyped, SameTyped, TypeInvNext DEF Forward, RestTyped
<1>6. CASE Bind(r)
  <2>1. CASE Goto(r, "unforward") /\ UNCHANGED bound
    BY <1>3, <1>6, <2>1, SameTyped, TypeInvNext DEF Bind, RestTyped
  <2>2. ASSUME NEW host \in Bindable(x.c, x.p, x.host),
               bound' = [bound EXCEPT ![x.c][x.p] = host],
               \/ Goto(r, "unforward")
               \/ proc' = [proc EXCEPT ![r].pc = "write", ![r].host = host]
        PROVE  TypeInv'
    <3> DEFINE y == [x EXCEPT !.pc = "write", !.host = host]
    <3>1. host \in HostPort
      BY <1>1, BindableTyped
    <3>2. y \in Process /\ Shaped(y)
      BY <1>1, <3>1 DEF Process, PC, Shaped
    <3>3. Goto(r, "unforward") \/ proc' = [proc EXCEPT ![r] = y]
      BY <2>2 DEF TypeInv, TypeOK
    <3> HIDE DEF y
    <3>4. ProcTyped
      BY <1>3, <3>2, <3>3, OneTyped
    <3> QED BY <1>1, <1>6, <2>2, <3>1, <3>4, BoundTyped, SameTyped, TypeInvNext
            DEF Bind, RestTyped
  <2>3. \/ Goto(r, "unforward") /\ UNCHANGED bound
        \/ \E host \in Bindable(x.c, x.p, x.host) :
              /\ bound' = [bound EXCEPT ![x.c][x.p] = host]
              /\ \/ Goto(r, "unforward")
                 \/ proc' = [proc EXCEPT ![r].pc = "write", ![r].host = host]
    BY <1>6, Zenon DEF Bind
  <2> QED BY <2>1, <2>2, <2>3
<1>7. CASE Write(r)
  <2>1. ProcTyped
    BY <1>3, <1>4, <1>7 DEF Write
  <2>2. [x.draft EXCEPT ![x.p] = x.host] \in Ports
    BY <1>1 DEF Ports
  <2>3. rec' \in [Container -> Ports \cup {None}]
    BY <1>1, <1>7, <2>2, SameTyped DEF Write, TypeInv, TypeOK
  <2>4. faults' \in 0..MaxFaults
    BY <1>7, FaultTyped, SameTyped DEF Write
  <2> QED BY <1>7, <2>1, <2>3, <2>4, SameTyped, TypeInvNext DEF Write, RestTyped
<1>8. CASE Unbind(r)
  <2>1. bound' = [bound EXCEPT ![x.c][x.p] = None] \/ UNCHANGED bound
    BY <1>8 DEF Unbind
  <2>2. bound' \in [Container -> Ports]
    BY <1>1, <2>1, BoundTyped, SameTyped
  <2> QED BY <1>3, <1>8, <2>2, SameTyped, TypeInvNext DEF Unbind, RestTyped
<1>9. CASE Unforward(r)
  BY <1>1, <1>3, <1>4, <1>9, ForwardedTyped, SameTyped, TypeInvNext DEF Unforward, RestTyped
<1> QED BY <1>5, <1>6, <1>7, <1>8, <1>9

\* The steps that replace or remove a container.
LEMMA ReplaceStepsKeepTypes ==
    ASSUME TypeInv, NEW r \in Request,
           Replace(r) \/ Create(r) \/ Release(r) \/ PodmanRemove(r) \/ Drop(r)
    PROVE  TypeInv'
<1> DEFINE x == proc[r]
<1>1. x \in Process /\ x.c \in Container
  BY DEF Replace, Create, Release, PodmanRemove, Drop, TypeInv, TypeOK, Shaped, Process
<1>2. Return(r) => ProcTyped
  BY ReturnTyped
<1>3. CASE Replace(r)
  <2>1. Shaped([x EXCEPT !.pc = "create"])
    BY <1>1, <1>3 DEF Replace, TypeInv, Process, Shaped
  <2>2. ProcTyped
    BY <1>3, <2>1, GotoTyped DEF Replace, PC
  <2> QED BY <1>1, <1>3, <2>2, GoneTyped, SameTyped, TypeInvNext DEF Replace, RestTyped
<1>4. CASE Create(r)
  <2> DEFINE y == [x EXCEPT !.op = "restore", !.pc = "publish", !.tries = 1,
                            !.todo = Items(x.c, x.draft), !.cancelled = FALSE]
  <2>1. x.draft \in Ports
    BY <1>4 DEF Create, TypeInv, Shaped
  <2>2. Items(x.c, x.draft) \in SUBSET Item
    BY <1>1, <2>1, ItemsTyped
  <2>3. y \in Process /\ Shaped(y)
    BY <1>1, <2>1, <2>2, ZenonT(40) DEF Process, PC, Shaped
  <2>4. ProcTyped
    BY <1>2, <1>4, <2>3, OneTyped DEF Create
  <2>5. rec' \in [Container -> Ports \cup {None}]
    BY <1>1, <1>4, <2>1, SameTyped DEF Create, TypeInv, TypeOK
  <2>6. faults' \in 0..MaxFaults
    BY <1>4, FaultTyped, SameTyped DEF Create
  <2> QED BY <1>4, <2>4, <2>5, <2>6, SameTyped, TypeInvNext DEF Create, RestTyped
<1>5. CASE Release(r)
  <2>1. CASE Goto(r, "podmanRemove") /\ UNCHANGED bound
    <3>1. Shaped([x EXCEPT !.pc = "podmanRemove"])
      BY <1>1, <1>5 DEF Release, TypeInv, Process, Shaped
    <3> QED BY <1>5, <2>1, <3>1, GotoTyped, SameTyped, TypeInvNext DEF Release, RestTyped, PC
  <2>2. ASSUME NEW i \in x.todo,
               bound' = [bound EXCEPT ![i[1]][i[2]] = None] \/ UNCHANGED bound,
               proc' = [proc EXCEPT ![r].todo = @ \ {i}]
        PROVE  TypeInv'
    <3> DEFINE y == [x EXCEPT !.todo = x.todo \ {i}]
    <3>1. i[1] \in Container /\ i[2] \in Port
      BY <1>1 DEF Process, Item
    <3>2. y \in Process /\ Shaped(y)
      BY <1>1 DEF Process, Shaped, TypeInv
    <3>3. proc' = [proc EXCEPT ![r] = y]
      BY <2>2 DEF TypeInv, TypeOK
    <3> HIDE DEF y
    <3>4. ProcTyped
      BY <3>2, <3>3, OneTyped
    <3>5. bound' \in [Container -> Ports]
      BY <2>2, <3>1, BoundTyped, SameTyped
    <3> QED BY <1>5, <3>4, <3>5, SameTyped, TypeInvNext DEF Release, RestTyped
  <2>3. \/ Goto(r, "podmanRemove") /\ UNCHANGED bound
        \/ \E i \in x.todo :
              /\ bound' = [bound EXCEPT ![i[1]][i[2]] = None] \/ UNCHANGED bound
              /\ proc' = [proc EXCEPT ![r].todo = @ \ {i}]
    BY <1>5 DEF Release
  <2> QED BY <2>1, <2>2, <2>3
<1>6. CASE PodmanRemove(r)
  <2>1. Shaped([x EXCEPT !.pc = "drop"])
    BY <1>1, <1>6 DEF PodmanRemove, TypeInv, Process, Shaped
  <2>2. ProcTyped
    BY <1>2, <1>6, <2>1, GotoTyped DEF PodmanRemove, PC
  <2>3. faults' \in 0..MaxFaults
    BY <1>6, FaultTyped, SameTyped DEF PodmanRemove
  <2>4. live' \subseteq Container /\ agent' \in [Container -> SUBSET Port]
    BY <1>1, <1>6, GoneTyped, SameTyped DEF PodmanRemove
  <2> QED BY <1>6, <2>2, <2>3, <2>4, SameTyped, TypeInvNext DEF PodmanRemove, RestTyped
<1>7. CASE Drop(r)
  <2>1. rec' \in [Container -> Ports \cup {None}]
    BY <1>1, <1>7, SameTyped DEF Drop, TypeInv, TypeOK
  <2>2. faults' \in 0..MaxFaults
    BY <1>7, FaultTyped, SameTyped DEF Drop
  <2> QED BY <1>2, <1>7, <2>1, <2>2, SameTyped, TypeInvNext DEF Drop, RestTyped
<1> QED BY <1>3, <1>4, <1>5, <1>6, <1>7

\* Re-establishing ports, and the gateway session.
LEMMA SessionStepsKeepTypes ==
    ASSUME TypeInv, NEW r \in Request \cup {Session},
           \/ PublishNext(r) \/ Rebind(r) \/ Reestablished(r)
           \/ Connect \/ ReadStore \/ Rebound \/ Lost
    PROVE  TypeInv'
<1> DEFINE x == proc[r]
<1>1. x \in Process /\ proc[Session] \in Process /\ Shaped(x) /\ Shaped(proc[Session])
  BY DEF TypeInv, TypeOK
<1>2. CASE PublishNext(r)
  <2>1. PICK i \in x.todo :
          /\ agent' = Forwarded(i[1], i[2]) \/ UNCHANGED agent
          /\ \/ proc' = [proc EXCEPT ![r].pc = "rebind", ![r].c = i[1], ![r].p = i[2],
                                     ![r].host = i[3], ![r].todo = @ \ {i}]
             \/ proc' = [proc EXCEPT ![r].failed = TRUE, ![r].todo = @ \ {i}]
    BY <1>2 DEF PublishNext
  <2>2. i[1] \in Container /\ i[2] \in Port /\ i[3] \in HostPort
    BY <1>1 DEF Process, Item
  <2> DEFINE y == [x EXCEPT !.pc = "rebind", !.c = i[1], !.p = i[2], !.host = i[3],
                            !.todo = x.todo \ {i}]
             z == [x EXCEPT !.failed = TRUE, !.todo = x.todo \ {i}]
  <2>3. y \in Process /\ Shaped(y)
    BY <1>1, <2>2, ZenonT(40) DEF Process, PC, Shaped
  <2>4. z \in Process /\ Shaped(z)
    BY <1>1, ZenonT(40) DEF Process, Shaped
  <2>5. proc' = [proc EXCEPT ![r] = y] \/ proc' = [proc EXCEPT ![r] = z]
    BY <2>1 DEF TypeInv, TypeOK
  <2> HIDE DEF y, z
  <2>6. ProcTyped
    BY <2>3, <2>4, <2>5, OneTyped
  <2>7. agent' \in [Container -> SUBSET Port]
    BY <2>1, <2>2, ForwardedTyped, SameTyped
  <2> QED BY <1>2, <2>6, <2>7, SameTyped, TypeInvNext DEF PublishNext, RestTyped
<1>3. CASE Rebind(r)
  <2> DEFINE hosts == Bindable(x.c, x.p, x.host)
             failed == x.failed \/ hosts = {} \/ x.cancelled
             y == [x EXCEPT !.pc = "publish", !.failed = failed]
  <2>1. x.c \in Container /\ x.p \in Port /\ x.host \in HostPort \cup {None}
    BY <1>1, <1>3 DEF Rebind, Shaped, Process
  <2>2. hosts \subseteq HostPort
    BY <2>1, BindableTyped
  <2>3. bound' = bound \/ \E host \in hosts : bound' = [bound EXCEPT ![x.c][x.p] = host]
    BY <1>3 DEF Rebind
  <2>4. proc' = [proc EXCEPT ![r] = y]
    BY <1>3 DEF Rebind, TypeInv, TypeOK
  <2> HIDE DEF hosts
  <2>5. failed \in BOOLEAN
    OBVIOUS
  <2> HIDE DEF failed
  <2>6. y \in Process
    BY <1>1, <2>5 DEF Process, PC
  <2>7. Shaped(y)
    BY <1>1 DEF Process, Shaped
  <2> HIDE DEF y
  <2>8. ProcTyped
    BY <2>4, <2>6, <2>7, OneTyped
  <2>9. bound' \in [Container -> Ports]
    <3>1. ASSUME NEW host \in hosts PROVE [bound EXCEPT ![x.c][x.p] = host] \in [Container -> Ports]
      BY <2>1, <2>2, BoundTyped
    <3> QED BY <2>3, <3>1, SameTyped, ZenonT(40)
  <2> QED BY <1>3, <2>8, <2>9, SameTyped, TypeInvNext DEF Rebind, RestTyped
<1>4. CASE Reestablished(r)
  <2> DEFINE y == [x EXCEPT !.todo = Items(x.c, x.draft), !.failed = FALSE,
                            !.tries = x.tries + 1]
  <2>1. \/ proc' = [proc EXCEPT ![r] = Idle]
        \/ x.op = "restore" /\ proc' = [proc EXCEPT ![r] = y]
    BY <1>4 DEF Reestablished
  <2>2. x.op = "restore" => x.c \in Container /\ x.draft \in Ports
    BY <1>1 DEF Shaped
  <2>3. ASSUME x.op = "restore" PROVE y \in Process /\ Shaped(y)
    <3>1. Items(x.c, x.draft) \in SUBSET Item /\ x.tries + 1 \in Nat
      BY <1>1, <2>2, <2>3, ItemsTyped DEF Process
    <3>2. y \in Process
      BY <1>1, <3>1 DEF Process
    <3>3. Shaped(y)
      BY <1>1 DEF Process, Shaped
    <3> QED BY <3>2, <3>3
  <2> HIDE DEF y
  <2>4. ProcTyped
    BY <2>1, <2>3, IdleTyped, OneTyped
  <2> QED BY <1>4, <2>4, SameTyped, TypeInvNext DEF Reestablished, RestTyped
<1>5. CASE Connect
  <2>1. Shaped([proc[Session] EXCEPT !.pc = "read"])
    BY <1>1 DEF Shaped, Process
  <2>2. ProcTyped
    BY <1>5, <2>1, GotoTyped DEF Connect, PC
  <2> QED BY <1>5, <2>2, SameTyped, TypeInvNext DEF Connect, RestTyped
<1>6. CASE ReadStore
  <2> DEFINE y == [Idle EXCEPT !.pc = "publish", !.todo = Recorded]
  <2>1. y \in Process
    BY RecordedTyped, IdleTyped DEF Process, PC
  <2>2. Shaped(y)
    BY DEF Shaped, Idle
  <2>3. proc' = [proc EXCEPT ![Session] = y]
    BY <1>6 DEF ReadStore
  <2> HIDE DEF y
  <2>4. ProcTyped
    BY <2>1, <2>2, <2>3, OneTyped
  <2> QED BY <1>6, <2>4, SameTyped, TypeInvNext DEF ReadStore, RestTyped
<1>7. CASE Rebound
  <2>1. Shaped([proc[Session] EXCEPT !.pc = "hold"])
    BY <1>1 DEF Shaped, Process
  <2>2. Goto(Session, "hold") => ProcTyped
    BY <2>1, GotoTyped DEF PC
  <2>3. proc' = [proc EXCEPT ![Session] = Waiting] => ProcTyped
    BY IdleTyped, OneTyped
  <2>4. ProcTyped
    BY <1>7, <2>2, <2>3 DEF Rebound
  <2>5. lease' \in BOOLEAN /\ orphans' \in Nat
    <3>1. /\ lease' = FALSE \/ UNCHANGED lease
          /\ orphans' = orphans + 1 \/ UNCHANGED orphans
      BY <1>7, Zenon DEF Rebound
    <3>2. lease' \in BOOLEAN
      BY <3>1, SameTyped, Zenon
    <3>3. orphans' \in Nat
      BY <3>1 DEF TypeInv, TypeOK
    <3> QED BY <3>2, <3>3
  <2> QED BY <1>7, <2>4, <2>5, SameTyped, TypeInvNext DEF Rebound, RestTyped
<1>8. CASE Lost
  <2>1. ProcTyped
    BY <1>8, IdleTyped, OneTyped DEF Lost
  <2> QED BY <1>8, <2>1, SameTyped, TypeInvNext DEF Lost, RestTyped
<1> QED BY <1>2, <1>3, <1>4, <1>5, <1>6, <1>7, <1>8

\* Faults and what happens outside the calls.
LEMMA OutsideKeepsTypes ==
    ASSUME TypeInv,
           \/ LeaseEnded \/ GatewayRestarts \/ OrchestratorStops \/ OrchestratorStarts
           \/ \E r \in Request : CallerLeaves(r)
           \/ \E c \in Container : AgentStops(c) \/ AgentStarts(c)
    PROVE  TypeInv'
<1>1. CASE LeaseEnded
  <2>1. orphans' \in Nat /\ bound' \in [Container -> Ports]
    BY <1>1, UnboundTyped DEF LeaseEnded, TypeInv, TypeOK
  <2> QED BY <1>1, <2>1, SameTyped, TypeInvNext DEF LeaseEnded, RestTyped
<1>2. CASE GatewayRestarts
  BY <1>2, UnboundTyped, FaultTyped, SameTyped, TypeInvNext DEF GatewayRestarts, RestTyped
<1>3. CASE OrchestratorStops
  <2>1. ProcTyped
    BY <1>3, IdleTyped DEF OrchestratorStops, ProcTyped
  <2>2. orphans' \in Nat /\ lease' \in BOOLEAN /\ up' \in BOOLEAN
    <3>1. lease' = FALSE /\ up' = FALSE /\ (orphans' = orphans + 1 \/ UNCHANGED orphans)
      BY <1>3, Zenon DEF OrchestratorStops
    <3>2. lease' \in BOOLEAN /\ up' \in BOOLEAN
      BY <3>1, Zenon
    <3>3. orphans' \in Nat
      BY <3>1 DEF TypeInv, TypeOK
    <3> QED BY <3>2, <3>3
  <2> QED BY <1>3, <2>1, <2>2, FaultTyped, SameTyped, TypeInvNext
          DEF OrchestratorStops, RestTyped
<1>4. CASE OrchestratorStarts
  BY <1>4, SameTyped, TypeInvNext DEF OrchestratorStarts, RestTyped
<1>5. ASSUME NEW c \in Container, AgentStops(c) PROVE TypeInv'
  BY <1>5, GoneTyped, FaultTyped, SameTyped, TypeInvNext DEF AgentStops, RestTyped
<1>6. ASSUME NEW c \in Container, AgentStarts(c) PROVE TypeInv'
  <2>1. live' \subseteq Container
    BY <1>6 DEF AgentStarts, TypeInv, TypeOK
  <2> QED BY <1>6, <2>1, SameTyped, TypeInvNext DEF AgentStarts, RestTyped
<1>7. ASSUME NEW r \in Request, CallerLeaves(r) PROVE TypeInv'
  <2> DEFINE y == [proc[r] EXCEPT !.cancelled = TRUE]
  <2>1. proc[r] \in Process /\ Shaped(proc[r])
    BY DEF TypeInv, TypeOK
  <2>2. y \in Process /\ Shaped(y)
    BY <2>1 DEF Process, Shaped
  <2>3. proc' = [proc EXCEPT ![r] = y]
    BY <1>7 DEF CallerLeaves
  <2> HIDE DEF y
  <2>4. ProcTyped
    BY <2>2, <2>3, OneTyped
  <2> QED BY <1>7, <2>4, FaultTyped, SameTyped, TypeInvNext DEF CallerLeaves, RestTyped
<1> QED BY <1>1, <1>2, <1>3, <1>4, <1>5, <1>6, <1>7

LEMMA InitTyped == Init => TypeInv
<1> SUFFICES ASSUME Init PROVE TypeInv
  OBVIOUS
<1>1. /\ proc \in [Request \cup {Session} -> Process]
      /\ \A x \in Request \cup {Session} : Shaped(proc[x])
  BY IdleTyped DEF Init
<1>2. \A c \in Container : Unbound[c] \in Ports
  BY UnboundTyped
<1>3. rec \in [Container -> Ports \cup {None}] /\ bound \in [Container -> Ports]
  BY <1>2, UnboundTyped DEF Init, Unbound
<1>4. agent \in [Container -> SUBSET Port] /\ live \subseteq Container
  BY DEF Init
<1>5. lease \in BOOLEAN /\ up \in BOOLEAN
  BY DEF Init
<1>6. orphans \in Nat /\ calls \in 0..MaxCalls /\ faults \in 0..MaxFaults
  BY BoundsAssumption DEF Init
<1> QED BY <1>1, <1>3, <1>4, <1>5, <1>6 DEF TypeInv, TypeOK

LEMMA NextKeepsTypes == TypeInv /\ [Next]_vars => TypeInv'
<1> SUFFICES ASSUME TypeInv, [Next]_vars PROVE TypeInv'
  OBVIOUS
<1>1. CASE UNCHANGED vars
  BY <1>1, SameTyped, TypeInvNext DEF vars, RestTyped
<1>2. ASSUME NEW r \in Request, Calls(r) PROVE TypeInv'
  BY <1>2, CallsKeepTypes
<1>3. ASSUME NEW x \in Request \cup {Session}, Steps(x) PROVE TypeInv'
  <2>1. CASE x \in Request /\ (Forward(x) \/ Bind(x) \/ Write(x) \/ Unbind(x) \/ Unforward(x))
    BY <2>1, PublishStepsKeepTypes
  <2>2. CASE x \in Request /\ (\/ Replace(x) \/ Create(x) \/ Release(x)
                               \/ PodmanRemove(x) \/ Drop(x))
    BY <2>2, ReplaceStepsKeepTypes
  <2>3. CASE \/ PublishNext(x) \/ Rebind(x) \/ Reestablished(x)
             \/ Connect \/ ReadStore \/ Rebound \/ Lost
    BY <2>3, SessionStepsKeepTypes
  <2> QED BY <1>3, <2>1, <2>2, <2>3 DEF Steps
<1> QED BY <1>1, <1>2, <1>3, OutsideKeepsTypes DEF Next

\* Every reachable state of the published ports is well typed: in particular a
\* restore always has a record to restore from, and every port a call or the
\* session acts on names a host port.
THEOREM TypeCorrect == Spec => []TypeOK
<1>1. TypeInv => TypeOK
  BY DEF TypeInv
<1> QED BY <1>1, InitTyped, NextKeepsTypes, PTL DEF Spec

-------------------------------------------------------------------------------
(* Bindings and leases.                                                    *)

LeaseInv == orphans \in Nat /\ LeaseOwnsBindings

\* Releasing one port of none leaves none.
LEMMA UnboundStays ==
    ASSUME NEW c, NEW p
    PROVE  [Unbound EXCEPT ![c][p] = None] = Unbound
<1>1. [NoPorts EXCEPT ![p] = None] = NoPorts
  BY DEF NoPorts
<1>2. ASSUME NEW d \in Container
      PROVE  [Unbound EXCEPT ![c][p] = None][d] = NoPorts
  BY <1>1 DEF Unbound
<1> QED BY <1>2 DEF Unbound

\* A step that leaves the leases alone keeps the invariant if it binds only
\* under a lease.
LEMMA SameLeasesKeepLeaseInv ==
    ASSUME LeaseInv, UNCHANGED <<lease, orphans>>,
           \/ Leased
           \/ UNCHANGED bound
           \/ \E c, p : bound' = [bound EXCEPT ![c][p] = None]
    PROVE  LeaseInv'
  BY UnboundStays DEF LeaseInv, LeaseOwnsBindings, Leased, Unbound

LEMMA CallsKeepLeaseInv ==
    ASSUME LeaseInv, NEW r \in Request, Calls(r)
    PROVE  LeaseInv'
<1>1. UNCHANGED <<lease, orphans, bound>>
  BY DEF Calls, CallPublish, CallUnpublish, CallRecreate, CallEnsure, CallRemove
<1> QED BY <1>1, SameLeasesKeepLeaseInv

LEMMA StepsKeepLeaseInv ==
    ASSUME LeaseInv, NEW x \in Request \cup {Session}, Steps(x)
    PROVE  LeaseInv'
<1>1. ASSUME Bind(x) PROVE LeaseInv'
  BY <1>1, SameLeasesKeepLeaseInv DEF Bind, Bindable
<1>2. ASSUME Rebind(x) PROVE LeaseInv'
  BY <1>2, SameLeasesKeepLeaseInv DEF Rebind, Bindable
<1>3. ASSUME Unbind(x) PROVE LeaseInv'
  BY <1>3, SameLeasesKeepLeaseInv DEF Unbind
<1>4. ASSUME Release(x) PROVE LeaseInv'
  BY <1>4, SameLeasesKeepLeaseInv DEF Release, Goto
<1>5. ASSUME Connect PROVE LeaseInv'
  BY <1>5 DEF Connect, LeaseInv, LeaseOwnsBindings, Leased
<1>6. ASSUME Rebound PROVE LeaseInv'
  BY <1>6 DEF Rebound, LeaseInv, LeaseOwnsBindings, Leased, Unbound
<1>7. ASSUME \/ Forward(x) \/ Write(x) \/ Unforward(x) \/ Replace(x) \/ Create(x)
             \/ PodmanRemove(x) \/ Drop(x) \/ Reestablished(x) \/ PublishNext(x)
             \/ ReadStore \/ Lost
      PROVE  LeaseInv'
  <2>1. UNCHANGED <<lease, orphans, bound>>
    BY <1>7 DEF Forward, Write, Unforward, Replace, Create, PodmanRemove, Drop,
                Reestablished, PublishNext, ReadStore, Lost
  <2> QED BY <2>1, SameLeasesKeepLeaseInv
<1> QED BY <1>1, <1>2, <1>3, <1>4, <1>5, <1>6, <1>7 DEF Steps

LEMMA OutsideKeepsLeaseInv ==
    ASSUME LeaseInv,
           \/ LeaseEnded \/ GatewayRestarts \/ OrchestratorStops \/ OrchestratorStarts
           \/ \E r \in Request : CallerLeaves(r)
           \/ \E c \in Container : AgentStops(c) \/ AgentStarts(c)
    PROVE  LeaseInv'
<1>1. CASE LeaseEnded
  BY <1>1 DEF LeaseEnded, LeaseInv, LeaseOwnsBindings, Leased, Unbound
<1>2. CASE GatewayRestarts
  BY <1>2 DEF GatewayRestarts, LeaseInv, LeaseOwnsBindings, Unbound
<1>3. CASE OrchestratorStops
  BY <1>3 DEF OrchestratorStops, LeaseInv, LeaseOwnsBindings, Leased, Unbound
<1>4. CASE \/ OrchestratorStarts \/ \E r \in Request : CallerLeaves(r)
           \/ \E c \in Container : AgentStops(c) \/ AgentStarts(c)
  BY <1>4, SameLeasesKeepLeaseInv DEF OrchestratorStarts, CallerLeaves, AgentStops, AgentStarts
<1> QED BY <1>1, <1>2, <1>3, <1>4

\* gateway.Server Bind and endLease: no host port is ever bound without a lease,
\* whatever calls, sessions, late stream ends and restarts overlap.
THEOREM NoBindingWithoutLease == Spec => []LeaseOwnsBindings
<1>1. Init => LeaseInv
  BY DEF Init, LeaseInv, LeaseOwnsBindings
<1>2. LeaseInv /\ [Next]_vars => LeaseInv'
  <2>1. LeaseInv /\ UNCHANGED vars => LeaseInv'
    BY SameLeasesKeepLeaseInv DEF vars
  <2> QED BY <2>1, CallsKeepLeaseInv, StepsKeepLeaseInv, OutsideKeepsLeaseInv DEF Next
<1>3. LeaseInv => LeaseOwnsBindings
  BY DEF LeaseInv
<1> QED BY <1>1, <1>2, <1>3, PTL DEF Spec

-------------------------------------------------------------------------------
(* Bindings and records, when calls do not overlap and no caller leaves.   *)

\* The record of container c holds host for port p.
Holds(c, p, host) == rec[c] # None /\ rec[c][p] = host

Releases(r) == proc[r].op \in {"unpublish", "remove"}

At(x, op, pcs) == proc[x].op = op /\ proc[x].pc \in pcs

\* Where a call, a restore or the session can be.
Placed(x) ==
    IF x = Session
    THEN At(x, "none", {"connect", "read", "publish", "rebind", "hold"})
    ELSE \/ At(x, "none", {"idle"})
         \/ At(x, "publish", {"forward", "bind", "write", "unbind", "unforward"})
         \/ At(x, "unpublish", {"unbind", "unforward", "write"})
         \/ At(x, "recreate", {"replace", "create"})
         \/ At(x, "ensure", {"replace", "create", "publish", "rebind"})
         \/ At(x, "remove", {"release", "podmanRemove", "drop"})
         \/ At(x, "restore", {"publish", "rebind"})

\* What a process knows of the store is still there.
Current(x) ==
    LET y == proc[x] IN
    /\ ~y.cancelled
    /\ y.op \in {"publish", "unpublish"} \/ y.pc \in {"replace", "create"} =>
          rec[y.c] # None /\ y.draft = rec[y.c]
    /\ y.op = "publish" => rec[y.c][y.p] = None
    /\ y.op = "unpublish" => y.host = None
    /\ y.pc = "rebind" => y.host # None /\ Holds(y.c, y.p, y.host)
    /\ y.todo # {} => y.pc \in {"publish", "rebind", "release"}
    /\ \A i \in y.todo : Holds(i[1], i[2], i[3])
    /\ y.op = "restore" =>
          /\ \A p \in Port : y.draft[p] # None => Holds(y.c, p, y.draft[p])
          /\ \A i \in y.todo : i[1] = y.c

\* What a call has released stays released.
Released(r) ==
    LET y == proc[r] IN
    /\ Releases(r) => Settled
    /\ y.op = "unpublish" /\ y.pc # "unbind" => bound[y.c][y.p] = None
    /\ y.op = "remove" =>
          \A p \in Port : bound[y.c][p] # None => <<y.c, p, bound[y.c][p]>> \in y.todo

\* r has bound host for port p of c and not recorded it yet.
Publishes(r, c, p, host) ==
    LET y == proc[r] IN
    /\ y.op = "publish" /\ y.pc \in {"write", "unbind"}
    /\ y.c = c /\ y.p = p /\ y.host = host

Accounted(c, p) ==
    bound[c][p] # None =>
        \/ Holds(c, p, bound[c][p])
        \/ \E r \in Request : Publishes(r, c, p, bound[c][p])

OneAtATime == \A r, q \in Request : InFlight(r) /\ InFlight(q) => r = q

SerialInv ==
    /\ TypeInv
    /\ OneAtATime
    /\ \A x \in Request \cup {Session} : Placed(x) /\ Current(x)
    /\ \A r \in Request : Released(r)
    /\ \A c \in Container, p \in Port : Accounted(c, p)


\* No two calls overlap, nothing outside happens during one, ports are released
\* only while nothing re-establishes them, and each caller waits for its answer.
SerialCalls == Serial /\ "caller" \notin FaultKinds

LEMMA Busy ==
    ASSUME NEW r \in Request, Placed(r)
    PROVE  /\ InFlight(r) <=> proc[r].op \notin {"none", "restore"}
           /\ Releases(r) => InFlight(r)
  BY NamesAssumption DEF Placed, At, InFlight, Restoring, Releases

LEMMA BusyNext ==
    ASSUME NEW r \in Request, Placed(r)'
    PROVE  /\ InFlight(r)' <=> proc'[r].op \notin {"none", "restore"}
           /\ Releases(r)' => InFlight(r)'
  BY NamesAssumption DEF Placed, At, InFlight, Restoring, Releases

\* While one call is in flight, the others are restores or no calls at all.
LEMMA OthersIdle ==
    ASSUME SerialInv, NEW r \in Request, InFlight(r), NEW q \in Request, q # r
    PROVE  /\ ~InFlight(q) /\ ~Releases(q)
           /\ proc[q].op \in {"none", "restore"}
  BY Busy DEF SerialInv, OneAtATime

\* While a call releases ports, nothing else knows of any.
LEMMA OthersSettled ==
    ASSUME SerialInv, NEW r \in Request, Releases(r), NEW q \in Request \cup {Session}, q # r
    PROVE  /\ proc[q].op = "none" /\ proc[q].pc \in {"idle", "hold"}
           /\ proc[q].todo = {}
<1>1. InFlight(r) /\ Settled
  BY Busy DEF SerialInv, Released
<1>2. proc[q].op = "none" /\ proc[q].pc \in {"idle", "hold"}
  BY <1>1, OthersIdle DEF SerialInv, Settled, Restoring, Placed, At
<1>3. proc[q].todo = {}
  BY <1>2 DEF SerialInv, Current
<1> QED BY <1>2, <1>3

LEMMA NothingReleases ==
    ASSUME SerialInv, ~Settled \/ Quiet, NEW r \in Request
    PROVE  ~Releases(r)
  BY Busy DEF SerialInv, Released, Quiet

LEMMA PlacedSame ==
    ASSUME NEW x, proc'[x] = proc[x], Placed(x)
    PROVE  Placed(x)'
  BY DEF Placed, At

LEMMA CurrentSame ==
    ASSUME NEW x, UNCHANGED rec, proc'[x] = proc[x], Current(x)
    PROVE  Current(x)'
  BY DEF Current, Holds

LEMMA AccountedSame ==
    ASSUME NEW c, NEW p, UNCHANGED <<rec, bound>>, Accounted(c, p),
           \A r \in Request : Publishes(r, c, p, bound[c][p]) => proc'[r] = proc[r]
    PROVE  Accounted(c, p)'
  BY DEF Accounted, Holds, Publishes

\* The processes beside x stay as they are.
OthersStay(x) == \A q \in Request \cup {Session} : q # x => proc'[q] = proc[q]

LEMMA OneStaysAlone ==
    ASSUME SerialInv, NEW x \in Request \cup {Session}, OthersStay(x),
           x \in Request /\ InFlight(x)' => Quiet \/ InFlight(x)
    PROVE  OneAtATime'
<1>1. ASSUME NEW q \in Request, q # x PROVE InFlight(q)' <=> InFlight(q)
  BY <1>1 DEF OthersStay, InFlight, Restoring
<1> QED BY <1>1, Zenon DEF OneAtATime, SerialInv, Quiet

\* Steps of a restore or the session, or the end of one.
LEMMA BackgroundStep ==
    ASSUME SerialInv, TypeInv', NEW x \in Request \cup {Session}, OthersStay(x),
           UNCHANGED <<rec, bound>>, ~Settled, Placed(x)', Current(x)',
           proc[x].op \in {"none", "restore"}, proc'[x].op \in {"none", "restore"}
    PROVE  SerialInv'
<1>1. OneAtATime'
  BY BusyNext, OneStaysAlone
<1>2. ASSUME NEW q \in Request \cup {Session} PROVE Placed(q)' /\ Current(q)'
  BY PlacedSame, CurrentSame DEF SerialInv, OthersStay
<1>3. ASSUME NEW r \in Request PROVE Released(r)'
  BY NothingReleases DEF Released, Releases, OthersStay
<1>4. ASSUME NEW c \in Container, NEW p \in Port PROVE Accounted(c, p)'
  <2>1. ASSUME NEW r \in Request, Publishes(r, c, p, bound[c][p]) PROVE proc'[r] = proc[r]
    BY <2>1 DEF Publishes, OthersStay
  <2> QED BY <2>1, AccountedSame DEF SerialInv
<1> QED BY <1>1, <1>2, <1>3, <1>4 DEF SerialInv

\* Steps of a call that neither bind, unbind, nor write a record.
LEMMA CallStep ==
    ASSUME SerialInv, TypeInv', NEW r \in Request, OthersStay(r),
           UNCHANGED <<rec, bound, lease>>, Placed(r)', Current(r)',
           Quiet \/ InFlight(r), ~Restoring(r), proc[r].pc \notin {"write", "unbind"},
           proc'[r].op # "restore",
           Releases(r)' => Releases(r) \/ Settled,
           LET y == proc'[r] IN
           /\ y.op = "unpublish" /\ y.pc # "unbind" => bound[y.c][y.p] = None
           /\ y.op = "remove" =>
                 \A p \in Port : bound[y.c][p] # None => <<y.c, p, bound[y.c][p]>> \in y.todo
    PROVE  SerialInv'
<1>1. OneAtATime'
  BY OneStaysAlone
<1>2. ASSUME NEW q \in Request \cup {Session} PROVE Placed(q)' /\ Current(q)'
  BY PlacedSame, CurrentSame DEF SerialInv, OthersStay
<1>3. Settled => Settled'
  BY NamesAssumption DEF Settled, Restoring, OthersStay
<1>4. Released(r)'
  <2>1. Releases(r) => Settled
    BY DEF SerialInv, Released
  <2> QED BY <1>3, <2>1 DEF Released
<1>5. ASSUME NEW q \in Request, q # r PROVE Released(q)'
  <2>1. ~Releases(q)
    BY <1>5, OthersIdle, NothingReleases
  <2> QED BY <1>5, <2>1 DEF Released, Releases, OthersStay
<1>6. ASSUME NEW c \in Container, NEW p \in Port PROVE Accounted(c, p)'
  <2>1. ASSUME NEW q \in Request, Publishes(q, c, p, bound[c][p]) PROVE proc'[q] = proc[q]
    BY <2>1 DEF Publishes, OthersStay
  <2> QED BY <2>1, AccountedSame DEF SerialInv
<1> QED BY <1>1, <1>2, <1>4, <1>5, <1>6 DEF SerialInv

LEMMA ItemsHold ==
    ASSUME NEW c, NEW ports, rec[c] # None,
           \A p \in Port : ports[p] # None => rec[c][p] = ports[p]
    PROVE  \A i \in Items(c, ports) : i[1] = c /\ Holds(i[1], i[2], i[3])
  BY DEF Items, Holds

LEMMA RecordedHold == \A i \in Recorded : Holds(i[1], i[2], i[3])
  BY ItemsHold DEF Recorded

\* With no publish under way, what is bound is recorded.
LEMMA BoundRecorded ==
    ASSUME SerialInv, \A r \in Request : proc[r].op # "publish",
           NEW c \in Container, NEW p \in Port, bound[c][p] # None
    PROVE  Holds(c, p, bound[c][p])
  BY DEF SerialInv, Accounted, Publishes

LEMMA QuietBoundRecorded ==
    ASSUME SerialInv, Quiet, NEW c \in Container, NEW p \in Port, bound[c][p] # None
    PROVE  Holds(c, p, bound[c][p])
<1>1. ASSUME NEW r \in Request PROVE proc[r].op # "publish"
  BY Busy DEF SerialInv, Quiet
<1> QED BY <1>1, BoundRecorded

LEMMA IdleCurrent ==
    ASSUME NEW x, proc'[x] = Idle \/ proc'[x] = Waiting
    PROVE  Current(x)'
  BY DEF Current, Idle, Waiting

\* Where a call begins.
LEMMA Begins ==
    ASSUME SerialInv, SerialCalls, NEW r \in Request, NEW op, NEW c, Call(r, op, c)
    PROVE  /\ Quiet /\ ~Restoring(r) /\ proc[r].pc = "idle" /\ rec[c] # None
           /\ op \in {"unpublish", "remove"} => Settled
  BY NamesAssumption DEF SerialInv, SerialCalls, Call, Placed, At, Restoring

\* A call that has nothing to do, or ends having unbound nothing of its own.
LEMMA Ends ==
    ASSUME SerialInv, TypeInv', NEW r \in Request, Return(r), UNCHANGED <<rec, bound, lease>>,
           Quiet \/ InFlight(r), ~Restoring(r), proc[r].pc \notin {"write", "unbind"}
    PROVE  SerialInv'
<1>1. OthersStay(r) /\ proc'[r] = Idle
  BY DEF Return, OthersStay, SerialInv, TypeInv, TypeOK
<1>2. proc'[r].op = "none" /\ proc'[r].pc = "idle"
  BY <1>1 DEF Idle
<1>3. Placed(r)' /\ ~(Releases(r)')
  BY <1>2, NamesAssumption DEF Placed, At, Releases
<1>4. Current(r)'
  BY <1>1, IdleCurrent
<1> QED BY <1>1, <1>2, <1>3, <1>4, CallStep

LEMMA CallsKeepSerialInv ==
    ASSUME SerialInv, SerialCalls, TypeInv', NEW r \in Request, Calls(r)
    PROVE  SerialInv'
<1>1. ASSUME NEW c \in Container, NEW p \in Port, CallPublish(r, c, p) PROVE SerialInv'
  <2>1. /\ Quiet /\ ~Restoring(r) /\ proc[r].pc = "idle" /\ rec[c] # None
        /\ UNCHANGED <<rec, bound, lease>>
    BY <1>1, Begins DEF CallPublish
  <2>2. CASE rec[c][p] # None
    BY <1>1, <2>1, <2>2, Ends DEF CallPublish, Return
  <2>3. CASE rec[c][p] = None
    <3>1. PICK host \in Suggested[c] :
            proc' = [proc EXCEPT ![r] = [Received("publish", c, p, "forward") EXCEPT !.host = host]]
      BY <1>1, <2>3 DEF CallPublish
    <3>2. OthersStay(r) /\ proc'[r] = [Received("publish", c, p, "forward") EXCEPT !.host = host]
      BY <3>1 DEF OthersStay, SerialInv, TypeInv, TypeOK
    <3>3. /\ proc'[r].op = "publish" /\ proc'[r].pc = "forward" /\ proc'[r].c = c
          /\ proc'[r].p = p /\ proc'[r].draft = rec[c] /\ proc'[r].todo = {}
          /\ ~proc'[r].cancelled
      BY <3>2 DEF Received, Idle
    <3>4. Placed(r)' /\ Current(r)' /\ ~(Releases(r)')
      BY <2>1, <2>3, <3>3, NamesAssumption DEF Placed, At, Current, Releases
    <3> QED BY <2>1, <3>2, <3>3, <3>4, CallStep
  <2> QED BY <2>2, <2>3
<1>2. ASSUME NEW c \in Container, NEW p \in Port, CallUnpublish(r, c, p) PROVE SerialInv'
  <2>1. /\ Quiet /\ ~Restoring(r) /\ proc[r].pc = "idle" /\ rec[c] # None /\ Settled
        /\ UNCHANGED <<rec, bound, lease>>
    BY <1>2, Begins DEF CallUnpublish
  <2>2. CASE rec[c][p] = None
    BY <1>2, <2>1, <2>2, Ends DEF CallUnpublish, Return
  <2>3. CASE rec[c][p] # None
    <3>1. OthersStay(r) /\ proc'[r] = Received("unpublish", c, p, "unbind")
      BY <1>2, <2>3 DEF CallUnpublish, OthersStay, SerialInv, TypeInv, TypeOK
    <3>2. /\ proc'[r].op = "unpublish" /\ proc'[r].pc = "unbind" /\ proc'[r].c = c
          /\ proc'[r].p = p /\ proc'[r].draft = rec[c] /\ proc'[r].todo = {}
          /\ proc'[r].host = None /\ ~proc'[r].cancelled
      BY <3>1 DEF Received, Idle
    <3>3. Placed(r)' /\ Current(r)'
      BY <2>1, <3>2, NamesAssumption DEF Placed, At, Current
    <3> QED BY <2>1, <3>1, <3>2, <3>3, CallStep
  <2> QED BY <2>2, <2>3
<1>3. ASSUME NEW c \in Container, NEW op \in {"recreate", "ensure"}, Call(r, op, c),
             UNCHANGED <<rec, bound, lease>>,
             proc' = [proc EXCEPT ![r] = Received(op, c, None, "replace")]
      PROVE  SerialInv'
  <2>1. Quiet /\ ~Restoring(r) /\ proc[r].pc = "idle" /\ rec[c] # None
    BY <1>3, Begins
  <2>2. OthersStay(r) /\ proc'[r] = Received(op, c, None, "replace")
    BY <1>3 DEF OthersStay, SerialInv, TypeInv, TypeOK
  <2>3. /\ proc'[r].op = op /\ proc'[r].pc = "replace" /\ proc'[r].c = c
        /\ proc'[r].draft = rec[c] /\ proc'[r].todo = {} /\ ~proc'[r].cancelled
    BY <2>2 DEF Received, Idle
  <2>4. Placed(r)' /\ Current(r)' /\ ~(Releases(r)')
    BY <1>3, <2>1, <2>3, NamesAssumption DEF Placed, At, Current, Releases
  <2> QED BY <1>3, <2>1, <2>2, <2>3, <2>4, CallStep
<1>4. ASSUME NEW c \in Container, CallEnsure(r, c), c \in live PROVE SerialInv'
  <2>1. /\ Quiet /\ ~Restoring(r) /\ proc[r].pc = "idle" /\ rec[c] # None
        /\ UNCHANGED <<rec, bound, lease>>
    BY <1>4, Begins DEF CallEnsure
  <2>2. /\ OthersStay(r)
        /\ proc'[r] = [Received("ensure", c, None, "publish") EXCEPT !.todo = Items(c, rec[c])]
    BY <1>4 DEF CallEnsure, OthersStay, SerialInv, TypeInv, TypeOK
  <2>3. /\ proc'[r].op = "ensure" /\ proc'[r].pc = "publish" /\ proc'[r].c = c
        /\ proc'[r].todo = Items(c, rec[c]) /\ ~proc'[r].cancelled
    BY <2>2 DEF Received, Idle
  <2>4. \A i \in Items(c, rec[c]) : Holds(i[1], i[2], i[3])
    BY <2>1, ItemsHold
  <2>5. Current(r)'
    BY <2>1, <2>3, <2>4 DEF Current, Holds
  <2>6. Placed(r)' /\ ~(Releases(r)')
    BY <2>3, NamesAssumption DEF Placed, At, Releases
  <2> QED BY <2>1, <2>2, <2>3, <2>5, <2>6, CallStep
<1>5. ASSUME NEW c \in Container, CallRemove(r, c) PROVE SerialInv'
  <2>1. /\ Quiet /\ ~Restoring(r) /\ proc[r].pc = "idle" /\ rec[c] # None /\ Settled
        /\ UNCHANGED <<rec, bound, lease>>
    BY <1>5, Begins DEF CallRemove
  <2>2. /\ OthersStay(r)
        /\ proc'[r] = [Received("remove", c, None, "release") EXCEPT !.todo = Items(c, rec[c])]
    BY <1>5 DEF CallRemove, OthersStay, SerialInv, TypeInv, TypeOK
  <2>3. /\ proc'[r].op = "remove" /\ proc'[r].pc = "release" /\ proc'[r].c = c
        /\ proc'[r].todo = Items(c, rec[c]) /\ ~proc'[r].cancelled
    BY <2>2 DEF Received, Idle
  <2>4. \A i \in Items(c, rec[c]) : Holds(i[1], i[2], i[3])
    BY <2>1, ItemsHold
  <2>5. Current(r)' /\ Placed(r)'
    BY <2>1, <2>3, <2>4, NamesAssumption DEF Current, Holds, Placed, At
  <2>6. ASSUME NEW p \in Port, bound[c][p] # None PROVE <<c, p, bound[c][p]>> \in Items(c, rec[c])
    BY <2>1, <2>6, QuietBoundRecorded DEF Items, Holds
  <2>7. LET y == proc'[r] IN
        /\ ~(y.op = "unpublish")
        /\ \A p \in Port : bound[y.c][p] # None => <<y.c, p, bound[y.c][p]>> \in y.todo
    BY <2>3, <2>6
  <2> QED BY <2>1, <2>2, <2>3, <2>5, <2>7, CallStep
<1>6. ASSUME NEW c \in Container, CallRecreate(r, c) PROVE SerialInv'
  BY <1>3, <1>6 DEF CallRecreate
<1>7. ASSUME NEW c \in Container, CallEnsure(r, c) PROVE SerialInv'
  BY <1>3, <1>4, <1>7 DEF CallEnsure
<1> QED BY <1>1, <1>2, <1>5, <1>6, <1>7 DEF Calls

\* The steps of a call that leave bindings and records alone.
LEMMA QuietStepsKeepSerialInv ==
    ASSUME SerialInv, TypeInv', NEW r \in Request,
           Forward(r) \/ Unforward(r) \/ Replace(r) \/ PodmanRemove(r)
    PROVE  SerialInv'
<1>1. /\ UNCHANGED <<rec, bound, lease>> /\ Placed(r) /\ Current(r)
      /\ InFlight(r) /\ ~Restoring(r) /\ proc[r].pc \notin {"write", "unbind"}
  BY NamesAssumption DEF Forward, Unforward, Replace, PodmanRemove, SerialInv, Placed, At,
        InFlight, Restoring
<1>2. CASE Return(r)
  BY <1>1, <1>2, Ends
<1>3. ASSUME NEW pc \in {"bind", "write", "create", "drop"}, Goto(r, pc),
             pc = "bind" => proc[r].pc = "forward",
             pc = "write" => proc[r].op = "unpublish" /\ proc[r].pc = "unforward",
             pc = "create" => proc[r].pc = "replace",
             pc = "drop" => proc[r].pc = "podmanRemove"
      PROVE  SerialInv'
  <2>1. OthersStay(r) /\ proc'[r] = [proc[r] EXCEPT !.pc = pc]
    BY <1>3 DEF Goto, OthersStay, SerialInv, TypeInv, TypeOK
  <2>2. proc[r] \in Process
    BY DEF SerialInv, TypeInv, TypeOK
  <2>3. /\ proc'[r].op = proc[r].op /\ proc'[r].pc = pc /\ proc'[r].c = proc[r].c
        /\ proc'[r].p = proc[r].p /\ proc'[r].draft = proc[r].draft
        /\ proc'[r].todo = proc[r].todo /\ proc'[r].host = proc[r].host
        /\ proc'[r].cancelled = proc[r].cancelled
    BY <2>1, <2>2 DEF Process
  <2>4. Placed(r)' /\ Current(r)'
    BY <1>1, <1>3, <2>3, NamesAssumption DEF Placed, At, Current, Holds
  <2>5. Released(r) /\ (Releases(r)' <=> Releases(r))
    BY <2>3 DEF SerialInv, Releases
  <2>6. proc'[r].op # "restore"
    BY <1>1, <2>3 DEF Restoring
  <2> QED BY <1>1, <1>3, <2>1, <2>3, <2>4, <2>5, <2>6, CallStep DEF Released
<1>4. CASE Forward(r)
  BY <1>2, <1>3, <1>4 DEF Forward
<1>5. CASE Unforward(r)
  BY <1>2, <1>3, <1>5 DEF Unforward
<1>6. CASE Replace(r)
  BY <1>3, <1>6 DEF Replace
<1>7. CASE PodmanRemove(r)
  BY <1>2, <1>3, <1>7 DEF PodmanRemove
<1> QED BY <1>4, <1>5, <1>6, <1>7

-------------------------------------------------------------------------------
(* Re-establishing, and the session.                                       *)

\* What a step of x asks for when it moves x alone.
Moved(x, y) == OthersStay(x) /\ proc'[x] = y

LEMMA MovedExcept ==
    ASSUME SerialInv, NEW x \in Request \cup {Session}, NEW y,
           proc' = [proc EXCEPT ![x] = y]
    PROVE  Moved(x, y)
  BY DEF Moved, OthersStay, SerialInv, TypeInv, TypeOK

LEMMA Typed ==
    ASSUME SerialInv, NEW x \in Request \cup {Session}
    PROVE  /\ proc[x] \in Process /\ Shaped(proc[x])
           /\ Placed(x) /\ Current(x)
           /\ \A i \in proc[x].todo : i \in Item
  BY DEF SerialInv, TypeInv, TypeOK, Process

\* The session, and restores, run only while nothing is released.
LEMMA Background ==
    ASSUME SerialInv, NEW x \in Request \cup {Session},
           proc[x].pc \in {"publish", "rebind"}, proc[x].op # "ensure"
    PROVE  ~Settled /\ proc[x].op \in {"none", "restore"}
  BY Typed, NamesAssumption DEF Placed, At, Settled, Restoring

LEMMA SessionStepsKeepSerialInv ==
    ASSUME SerialInv, TypeInv', Connect \/ ReadStore \/ Rebound \/ Lost
    PROVE  SerialInv'
<1> DEFINE s == proc[Session]
<1>1. /\ s \in Process /\ s.op = "none" /\ ~s.cancelled
      /\ s.todo # {} => s.pc \in {"publish", "rebind", "release"}
  BY Typed DEF Placed, At, Current
<1>2. UNCHANGED <<rec, bound>> /\ ~Settled
  BY DEF Connect, ReadStore, Rebound, Lost, Done, Settled
<1>3. ASSUME NEW y, Moved(Session, y), y.op = "none",
             y.pc \in {"connect", "read", "publish", "hold"}, ~y.cancelled,
             y.todo = {} \/ y.pc = "publish",
             \A i \in y.todo : Holds(i[1], i[2], i[3])
      PROVE  SerialInv'
  <2>1. Placed(Session)'
    BY <1>3 DEF Placed, At, Moved
  <2>2. Current(Session)'
    BY <1>2, <1>3 DEF Current, Moved, Holds
  <2> QED BY <1>1, <1>2, <1>3, <2>1, <2>2, BackgroundStep DEF Moved
<1>4. ASSUME proc' = [proc EXCEPT ![Session] = Waiting] PROVE SerialInv'
  <2>1. Waiting.op = "none" /\ Waiting.pc = "connect" /\ ~Waiting.cancelled /\ Waiting.todo = {}
    BY DEF Waiting, Idle
  <2> QED BY <1>3, <1>4, <2>1, MovedExcept
<1>5. ASSUME NEW pc \in {"read", "hold"}, Goto(Session, pc), s.todo = {} PROVE SerialInv'
  <2> DEFINE y == [s EXCEPT !.pc = pc]
  <2>1. y.op = "none" /\ y.pc = pc /\ ~y.cancelled /\ y.todo = {}
    BY <1>1, <1>5 DEF Process
  <2>2. Moved(Session, y)
    BY <1>5, MovedExcept DEF Goto
  <2> HIDE DEF y
  <2> QED BY <1>3, <1>5, <2>1, <2>2
<1>6. CASE Connect
  BY <1>1, <1>5, <1>6 DEF Connect
<1>7. CASE ReadStore
  <2> DEFINE y == [Idle EXCEPT !.pc = "publish", !.todo = Recorded]
  <2>1. y.op = "none" /\ y.pc = "publish" /\ ~y.cancelled /\ y.todo = Recorded
    BY DEF Idle
  <2>2. Moved(Session, y)
    BY <1>7, MovedExcept DEF ReadStore
  <2> HIDE DEF y
  <2> QED BY <1>3, <2>1, <2>2, RecordedHold
<1>8. CASE Rebound
  BY <1>4, <1>5, <1>8 DEF Rebound, Done
<1>9. CASE Lost
  BY <1>4, <1>9 DEF Lost
<1> QED BY <1>6, <1>7, <1>8, <1>9

LEMMA PublishNextKeepsSerialInv ==
    ASSUME SerialInv, TypeInv', NEW x \in Request \cup {Session}, PublishNext(x)
    PROVE  SerialInv'
<1> DEFINE s == proc[x]
<1>1. /\ s \in Process /\ s.pc = "publish" /\ ~s.cancelled /\ Placed(x) /\ Current(x)
      /\ UNCHANGED <<rec, bound, lease>>
  BY Typed DEF PublishNext, Current
<1>2. PICK i \in s.todo :
        \/ proc' = [proc EXCEPT ![x].pc = "rebind", ![x].c = i[1], ![x].p = i[2],
                                ![x].host = i[3], ![x].todo = @ \ {i}]
        \/ proc' = [proc EXCEPT ![x].failed = TRUE, ![x].todo = @ \ {i}]
  BY DEF PublishNext
<1>3. /\ Holds(i[1], i[2], i[3]) /\ i[3] # None
      /\ s.op = "restore" => i[1] = s.c
  BY <1>1, Typed, NamesAssumption DEF Current, Item
<1> DEFINE y == [s EXCEPT !.pc = "rebind", !.c = i[1], !.p = i[2], !.host = i[3],
                          !.todo = s.todo \ {i}]
           z == [s EXCEPT !.failed = TRUE, !.todo = s.todo \ {i}]
<1>4. /\ y.op = s.op /\ y.pc = "rebind" /\ y.c = i[1] /\ y.p = i[2] /\ y.host = i[3]
      /\ y.todo = s.todo \ {i} /\ ~y.cancelled /\ y.draft = s.draft
  BY <1>1 DEF Process
<1>5. /\ z.op = s.op /\ z.pc = "publish" /\ z.c = s.c
      /\ z.todo = s.todo \ {i} /\ ~z.cancelled /\ z.draft = s.draft
  BY <1>1 DEF Process
<1>6. proc' = [proc EXCEPT ![x] = y] \/ proc' = [proc EXCEPT ![x] = z]
  BY <1>2 DEF SerialInv, TypeInv, TypeOK
<1> HIDE DEF y, z
<1>7. Moved(x, y) \/ Moved(x, z)
  BY <1>6, MovedExcept
<1>8. proc'[x].op = s.op /\ Placed(x)'
  BY <1>1, <1>4, <1>5, <1>7 DEF Placed, At, Moved
<1>9. s.op \notin {"publish", "unpublish", "remove"}
  BY <1>1 DEF Placed, At
<1>10. Current(x)'
  <2>1. CASE Moved(x, y)
    BY <1>1, <1>3, <1>4, <1>9, <2>1 DEF Current, Moved, Holds
  <2>2. CASE Moved(x, z)
    BY <1>1, <1>5, <1>9, <2>2 DEF Current, Moved, Holds
  <2> QED BY <1>7, <2>1, <2>2
<1>11. CASE s.op # "ensure"
  BY <1>1, <1>7, <1>8, <1>10, <1>11, Background, BackgroundStep DEF Moved
<1>12. CASE s.op = "ensure"
  <2>1. x \in Request /\ InFlight(x) /\ ~Restoring(x)
    BY <1>1, <1>12 DEF Placed, At, InFlight, Restoring
  <2>2. ~(Releases(x)')
    BY <1>8, <1>12 DEF Releases
  <2> QED BY <1>1, <1>7, <1>8, <1>10, <1>12, <2>1, <2>2, CallStep DEF Moved
<1> QED BY <1>11, <1>12

\* A restore that tries again takes the ports of its record again.
LEMMA ReestablishedKeepsSerialInv ==
    ASSUME SerialInv, TypeInv', NEW r \in Request, Reestablished(r)
    PROVE  SerialInv'
<1> DEFINE s == proc[r]
<1>1. /\ s \in Process /\ Placed(r) /\ Current(r) /\ s.pc = "publish" /\ r # Session
      /\ s.op \in {"ensure", "restore"} /\ UNCHANGED <<rec, bound, lease>>
  BY Typed, NamesAssumption DEF Reestablished, Done, Placed, At
<1>2. Idle.op = "none" /\ Idle.pc = "idle"
  BY DEF Idle
<1>3. CASE s.op = "ensure"
  <2>1. Return(r)
    BY <1>3 DEF Reestablished, Return
  <2>2. InFlight(r) /\ ~Restoring(r)
    BY <1>1, <1>3 DEF InFlight, Restoring
  <2> QED BY <1>1, <2>1, <2>2, Ends
<1>4. CASE s.op = "restore"
  <2> DEFINE y == [s EXCEPT !.todo = Items(s.c, s.draft), !.failed = FALSE,
                            !.tries = s.tries + 1]
  <2>1. proc' = [proc EXCEPT ![r] = Idle] \/ proc' = [proc EXCEPT ![r] = y]
    BY <1>4 DEF Reestablished
  <2>2. /\ y.op = "restore" /\ y.pc = "publish" /\ y.c = s.c /\ y.draft = s.draft
        /\ y.todo = Items(s.c, s.draft) /\ y.cancelled = s.cancelled
    BY <1>1, <1>4 DEF Process
  <2> HIDE DEF y
  <2>3. Moved(r, Idle) \/ Moved(r, y)
    BY <2>1, MovedExcept
  <2>4. ~Settled
    BY <1>1, <1>4, Background
  <2>5. CASE Moved(r, Idle)
    <3>1. Placed(r)' /\ Current(r)'
      BY <1>1, <1>2, <2>5, IdleCurrent DEF Moved, Placed, At
    <3> QED BY <1>1, <1>2, <1>4, <2>4, <2>5, <3>1, BackgroundStep DEF Moved
  <2>6. CASE Moved(r, y)
    <3>1. Placed(r)'
      BY <1>1, <2>2, <2>6 DEF Moved, Placed, At
    <3>2. \A i \in Items(s.c, s.draft) : i[1] = s.c /\ Holds(i[1], i[2], i[3])
      BY <1>1, <1>4 DEF Items, Current
    <3>3. Current(r)'
      BY <1>1, <1>4, <2>2, <2>6, <3>2 DEF Moved, Current, Holds
    <3> QED BY <1>1, <1>4, <2>2, <2>4, <2>6, <3>1, <3>3, BackgroundStep DEF Moved
  <2> QED BY <2>3, <2>5, <2>6
<1> QED BY <1>1, <1>3, <1>4

-------------------------------------------------------------------------------
(* Steps that bind, unbind or write a record.                              *)

\* A step of the one call in flight: what is left to show is what the others know
\* of the store, what it has itself released, and whose each binding is.
LEMMA OwnStep ==
    ASSUME SerialInv, TypeInv', NEW r \in Request, InFlight(r), OthersStay(r),
           UNCHANGED lease, Placed(r)',
           \A q \in Request \cup {Session} : Current(q)',
           Releases(r)' => Releases(r) /\ ~(Restoring(r)'),
           LET y == proc'[r] IN
           /\ y.op = "unpublish" /\ y.pc # "unbind" => bound'[y.c][y.p] = None
           /\ y.op = "remove" =>
                 \A p \in Port : bound'[y.c][p] # None => <<y.c, p, bound'[y.c][p]>> \in y.todo,
           \A c \in Container, p \in Port : Accounted(c, p)'
    PROVE  SerialInv'
<1>1. OneAtATime'
  BY OneStaysAlone
<1>2. ASSUME NEW q \in Request \cup {Session} PROVE Placed(q)'
  BY PlacedSame DEF SerialInv, OthersStay
<1>3. ASSUME Releases(r)' PROVE Settled'
  <2>1. Settled /\ ~(Restoring(r)')
    BY <1>3 DEF SerialInv, Released
  <2> QED BY <2>1, NamesAssumption DEF Settled, Restoring, OthersStay
<1>4. Released(r)'
  BY <1>3 DEF Released
<1>5. ASSUME NEW q \in Request, q # r PROVE Released(q)'
  BY <1>5, OthersIdle DEF Released, Releases, OthersStay
<1> QED BY <1>1, <1>2, <1>4, <1>5 DEF SerialInv

\* Only the call in flight can have a binding that is not recorded.
LEMMA OnePublishes ==
    ASSUME SerialInv, NEW r \in Request, InFlight(r), NEW q \in Request,
           NEW c, NEW p, NEW host, Publishes(q, c, p, host)
    PROVE  q = r
  BY Busy DEF SerialInv, OneAtATime, Publishes

LEMMA FreeBeforeBind ==
    ASSUME SerialInv, NEW r \in Request, proc[r].pc = "bind"
    PROVE  bound[proc[r].c][proc[r].p] = None
<1> DEFINE s == proc[r]
<1>1. /\ s.c \in Container /\ s.p \in Port /\ s.op = "publish" /\ InFlight(r)
      /\ rec[s.c][s.p] = None
  BY Typed, NamesAssumption DEF Shaped, Placed, At, Current, InFlight, Restoring
<1>2. SUFFICES ASSUME bound[s.c][s.p] # None PROVE FALSE
  OBVIOUS
<1>3. PICK q \in Request : Publishes(q, s.c, s.p, bound[s.c][s.p])
  BY <1>1, <1>2 DEF SerialInv, Accounted, Holds
<1>4. q = r
  BY <1>1, <1>3, OnePublishes
<1> QED BY <1>3, <1>4 DEF Publishes

LEMMA BindKeepsSerialInv ==
    ASSUME SerialInv, TypeInv', NEW r \in Request, Bind(r)
    PROVE  SerialInv'
<1> DEFINE s == proc[r]
<1>1. /\ s \in Process /\ s.pc = "bind" /\ s.op = "publish" /\ ~s.cancelled
      /\ s.c \in Container /\ s.p \in Port /\ Current(r)
      /\ InFlight(r) /\ ~Restoring(r) /\ UNCHANGED <<rec, lease>>
  BY Typed, NamesAssumption DEF Bind, Placed, At, Current, Shaped, InFlight, Restoring
<1>2. CASE Goto(r, "unforward") /\ UNCHANGED bound
  <2> DEFINE y == [s EXCEPT !.pc = "unforward"]
  <2>1. /\ y.op = "publish" /\ y.pc = "unforward" /\ y.c = s.c /\ y.p = s.p
        /\ y.draft = s.draft /\ y.todo = s.todo /\ ~y.cancelled
    BY <1>1 DEF Process
  <2>2. Moved(r, y)
    BY <1>2, MovedExcept DEF Goto
  <2> HIDE DEF y
  <2>3. Placed(r)' /\ Current(r)' /\ ~(Releases(r)')
    BY <1>1, <2>1, <2>2, NamesAssumption DEF Moved, Placed, At, Current, Releases
  <2> QED BY <1>1, <1>2, <2>1, <2>2, <2>3, CallStep DEF Moved
<1>3. ASSUME NEW host \in Bindable(s.c, s.p, s.host),
             bound' = [bound EXCEPT ![s.c][s.p] = host],
             proc' = [proc EXCEPT ![r].pc = "write", ![r].host = host]
      PROVE  SerialInv'
  <2> DEFINE y == [s EXCEPT !.pc = "write", !.host = host]
  <2>1. /\ y.op = "publish" /\ y.pc = "write" /\ y.c = s.c /\ y.p = s.p /\ y.host = host
        /\ y.draft = s.draft /\ y.todo = s.todo /\ ~y.cancelled
    BY <1>1 DEF Process
  <2>2. proc' = [proc EXCEPT ![r] = y]
    BY <1>3 DEF SerialInv, TypeInv, TypeOK
  <2> HIDE DEF y
  <2>3. Moved(r, y)
    BY <2>2, MovedExcept
  <2>4. Placed(r)' /\ Current(r)' /\ ~(Releases(r)')
    BY <1>1, <2>1, <2>3, NamesAssumption DEF Moved, Placed, At, Current, Releases
  <2>5. \A q \in Request \cup {Session} : Current(q)'
    BY <1>1, <2>3, <2>4, Typed, CurrentSame DEF Moved, OthersStay
  <2>6. ASSUME NEW c \in Container, NEW p \in Port, ~(c = s.c /\ p = s.p) PROVE Accounted(c, p)'
    <3>1. bound'[c][p] = bound[c][p]
      BY <1>1, <1>3, <2>6 DEF SerialInv, TypeInv, TypeOK, Ports
    <3>2. ASSUME NEW q \in Request, Publishes(q, c, p, bound[c][p]) PROVE FALSE
      <4>1. q = r
        BY <1>1, <3>2, OnePublishes
      <4> QED BY <1>1, <3>2, <4>1 DEF Publishes
    <3> QED BY <1>1, <3>1, <3>2 DEF Accounted, SerialInv, Holds
  <2>7. ASSUME NEW c \in Container, NEW p \in Port PROVE Accounted(c, p)'
    <3>1. CASE c = s.c /\ p = s.p
      <4>1. bound'[c][p] = host /\ Publishes(r, c, p, host)'
        BY <1>1, <1>3, <2>1, <2>3, <3>1 DEF SerialInv, TypeInv, TypeOK, Ports, Moved, Publishes
      <4> QED BY <4>1 DEF Accounted, Publishes
    <3> QED BY <2>6, <3>1
  <2> QED BY <1>1, <2>1, <2>3, <2>4, <2>5, <2>7, OwnStep DEF Moved
<1>4. \/ Goto(r, "unforward") /\ UNCHANGED bound
      \/ \E host \in Bindable(s.c, s.p, s.host) :
            /\ bound' = [bound EXCEPT ![s.c][s.p] = host]
            /\ proc' = [proc EXCEPT ![r].pc = "write", ![r].host = host]
  BY <1>1, Zenon DEF Bind
<1> QED BY <1>2, <1>3, <1>4

LEMMA UnbindKeepsSerialInv ==
    ASSUME SerialInv, TypeInv', NEW r \in Request, Unbind(r)
    PROVE  SerialInv'
<1> DEFINE s == proc[r]
<1>1. /\ s \in Process /\ s.pc = "unbind" /\ s.op \in {"publish", "unpublish"}
      /\ ~s.cancelled /\ s.c \in Container /\ s.p \in Port /\ Current(r)
      /\ InFlight(r) /\ ~Restoring(r) /\ UNCHANGED <<rec, lease>>
  BY Typed, NamesAssumption DEF Unbind, Placed, At, Current, Shaped, InFlight, Restoring
<1> DEFINE y == [s EXCEPT !.pc = "unforward"]
<1>2. /\ y.op = s.op /\ y.pc = "unforward" /\ y.c = s.c /\ y.p = s.p /\ y.host = s.host
      /\ y.draft = s.draft /\ y.todo = s.todo /\ ~y.cancelled
  BY <1>1 DEF Process
<1>3. Moved(r, y)
  BY MovedExcept DEF Unbind, Goto
<1> HIDE DEF y
<1>4. bound' = [bound EXCEPT ![s.c][s.p] = None]
  BY <1>1 DEF Unbind, Arrives
<1>5. bound'[s.c][s.p] = None
  BY <1>1, <1>4 DEF SerialInv, TypeInv, TypeOK, Ports
<1>6. Placed(r)' /\ Current(r)'
  BY <1>1, <1>2, <1>3, NamesAssumption DEF Moved, Placed, At, Current
<1>7. \A q \in Request \cup {Session} : Current(q)'
  BY <1>1, <1>3, <1>6, Typed, CurrentSame DEF Moved, OthersStay
<1>8. Releases(r)' => Releases(r) /\ ~(Restoring(r)')
  BY <1>2, <1>3 DEF Moved, Releases, Restoring
<1>9. ASSUME NEW c \in Container, NEW p \in Port PROVE Accounted(c, p)'
  <2>1. CASE c = s.c /\ p = s.p
    BY <1>5, <2>1 DEF Accounted
  <2>2. CASE ~(c = s.c /\ p = s.p)
    <3>1. bound'[c][p] = bound[c][p]
      BY <1>1, <1>4, <2>2 DEF SerialInv, TypeInv, TypeOK, Ports
    <3>2. ASSUME NEW q \in Request, Publishes(q, c, p, bound[c][p]) PROVE FALSE
      <4>1. q = r
        BY <1>1, <3>2, OnePublishes
      <4> QED BY <2>2, <3>2, <4>1 DEF Publishes
    <3> QED BY <1>1, <3>1, <3>2 DEF Accounted, SerialInv, Holds
  <2> QED BY <2>1, <2>2
<1> QED BY <1>1, <1>2, <1>3, <1>5, <1>6, <1>7, <1>8, <1>9, OwnStep DEF Moved

LEMMA ReleaseKeepsSerialInv ==
    ASSUME SerialInv, TypeInv', NEW r \in Request, Release(r)
    PROVE  SerialInv'
<1> DEFINE s == proc[r]
<1>1. /\ s \in Process /\ s.pc = "release" /\ s.op = "remove" /\ ~s.cancelled
      /\ s.c \in Container /\ Current(r) /\ Releases(r) /\ Released(r)
      /\ InFlight(r) /\ ~Restoring(r) /\ UNCHANGED <<rec, lease>>
  BY Typed, NamesAssumption DEF Release, Placed, At, Current, Shaped, InFlight, Restoring,
        Releases, SerialInv
<1>2. CASE s.todo = {}
  <2> DEFINE y == [s EXCEPT !.pc = "podmanRemove"]
  <2>1. /\ y.op = "remove" /\ y.pc = "podmanRemove" /\ y.c = s.c /\ y.todo = {}
        /\ ~y.cancelled
    BY <1>1, <1>2 DEF Process
  <2>2. Moved(r, y) /\ UNCHANGED bound
    BY <1>2, MovedExcept DEF Release, Goto
  <2> HIDE DEF y
  <2>3. Placed(r)' /\ Current(r)'
    BY <1>1, <2>1, <2>2, NamesAssumption DEF Moved, Placed, At, Current
  <2> QED BY <1>1, <1>2, <2>1, <2>2, <2>3, CallStep DEF Moved, Released
<1>3. CASE s.todo # {}
  <2>1. PICK i \in s.todo :
          /\ bound' = [bound EXCEPT ![i[1]][i[2]] = None]
          /\ proc' = [proc EXCEPT ![r].todo = @ \ {i}]
    BY <1>1, <1>3 DEF Release, Arrives
  <2>2. i[1] \in Container /\ i[2] \in Port /\ i = <<i[1], i[2], i[3]>>
    BY Typed DEF Item
  <2> DEFINE y == [s EXCEPT !.todo = s.todo \ {i}]
  <2>3. /\ y.op = "remove" /\ y.pc = "release" /\ y.c = s.c /\ y.todo = s.todo \ {i}
        /\ ~y.cancelled
    BY <1>1 DEF Process
  <2>4. Moved(r, y)
    BY <2>1, MovedExcept
  <2> HIDE DEF y
  <2>5. Placed(r)' /\ Current(r)'
    BY <1>1, <2>3, <2>4, NamesAssumption DEF Moved, Placed, At, Current, Holds
  <2>6. \A q \in Request \cup {Session} : Current(q)'
    BY <1>1, <2>4, <2>5, Typed, CurrentSame DEF Moved, OthersStay
  <2>7. ASSUME NEW c \in Container, NEW p \in Port, bound'[c][p] # None
        PROVE  bound'[c][p] = bound[c][p] /\ ~(c = i[1] /\ p = i[2])
    BY <2>1, <2>2, <2>7 DEF SerialInv, TypeInv, TypeOK, Ports
  <2>8. ASSUME NEW p \in Port, bound'[s.c][p] # None
        PROVE  <<s.c, p, bound'[s.c][p]>> \in s.todo \ {i}
    <3>1. bound'[s.c][p] = bound[s.c][p] /\ ~(s.c = i[1] /\ p = i[2])
      BY <1>1, <2>7, <2>8
    <3> QED BY <1>1, <2>8, <3>1 DEF Released
  <2>9. ASSUME NEW c \in Container, NEW p \in Port PROVE Accounted(c, p)'
    <3>1. CASE bound'[c][p] = None
      BY <3>1 DEF Accounted
    <3>2. CASE bound'[c][p] # None
      <4>1. bound'[c][p] = bound[c][p]
        BY <2>7, <3>2
      <4>2. ASSUME NEW q \in Request, Publishes(q, c, p, bound[c][p]) PROVE FALSE
        <5>1. q = r
          BY <1>1, <4>2, OnePublishes
        <5> QED BY <1>1, <4>2, <5>1 DEF Publishes
      <4> QED BY <1>1, <4>1, <4>2 DEF Accounted, SerialInv, Holds
    <3> QED BY <3>1, <3>2
  <2>10. Releases(r)' => Releases(r) /\ ~(Restoring(r)')
    BY <1>1, <2>3, <2>4 DEF Moved, Restoring
  <2> QED BY <1>1, <2>3, <2>4, <2>5, <2>6, <2>8, <2>9, <2>10, OwnStep DEF Moved
<1> QED BY <1>2, <1>3

\* What is asked of the gateway again is what the record says, or what it has
\* bound already.
LEMMA RebindKeepsSerialInv ==
    ASSUME SerialInv, TypeInv', NEW x \in Request \cup {Session}, Rebind(x)
    PROVE  SerialInv'
<1> DEFINE s == proc[x]
           hosts == Bindable(s.c, s.p, s.host)
           failed == s.failed \/ hosts = {} \/ s.cancelled
           y == [s EXCEPT !.pc = "publish", !.failed = failed]
<1>1. /\ s \in Process /\ s.pc = "rebind" /\ ~s.cancelled /\ Placed(x) /\ Current(x)
      /\ s.c \in Container /\ s.p \in Port /\ UNCHANGED <<rec, lease>>
      /\ s.host # None /\ Holds(s.c, s.p, s.host)
      /\ s.op \in {"none", "ensure", "restore"}
  BY Typed DEF Rebind, Current, Shaped, Placed, At
<1>2. proc' = [proc EXCEPT ![x] = y]
  BY DEF Rebind, SerialInv, TypeInv, TypeOK
<1>3. bound' = bound \/ \E host \in hosts : bound' = [bound EXCEPT ![s.c][s.p] = host]
  BY DEF Rebind
<1>4. /\ y.op = s.op /\ y.pc = "publish" /\ y.c = s.c /\ y.todo = s.todo
      /\ y.draft = s.draft /\ ~y.cancelled
  BY <1>1 DEF Process
<1>5. \A host \in hosts :
        IF bound[s.c][s.p] = None THEN host = s.host ELSE host = bound[s.c][s.p]
  BY <1>1 DEF Bindable
<1> HIDE DEF hosts, failed, y
<1>6. Moved(x, y)
  BY <1>2, MovedExcept
<1>7. Placed(x)' /\ Current(x)'
  <2>1. Placed(x)'
    BY <1>1, <1>4, <1>6 DEF Moved, Placed, At
  <2>2. Current(x)'
    BY <1>1, <1>4, <1>6 DEF Moved, Current, Holds
  <2> QED BY <2>1, <2>2
<1>8. \A q \in Request \cup {Session} : Placed(q)' /\ Current(q)'
  BY <1>1, <1>6, <1>7, Typed, CurrentSame, PlacedSame DEF Moved, OthersStay
<1>9. ASSUME NEW c \in Container, NEW p \in Port
      PROVE  bound'[c][p] = bound[c][p] \/ Holds(c, p, bound'[c][p])
  <2>1. CASE bound' = bound
    BY <2>1
  <2>2. ASSUME NEW host \in hosts, bound' = [bound EXCEPT ![s.c][s.p] = host]
        PROVE  bound'[c][p] = bound[c][p] \/ Holds(c, p, bound'[c][p])
    <3>1. IF c = s.c /\ p = s.p THEN bound'[c][p] = host ELSE bound'[c][p] = bound[c][p]
      BY <1>1, <2>2 DEF SerialInv, TypeInv, TypeOK, Ports
    <3> QED BY <1>1, <1>5, <2>2, <3>1
  <2> QED BY <1>3, <2>1, <2>2
<1>10. ASSUME NEW c \in Container, NEW p \in Port PROVE Accounted(c, p)'
  <2>1. ASSUME NEW q \in Request, NEW host, Publishes(q, c, p, host)
        PROVE  Publishes(q, c, p, host)'
    BY <1>1, <1>6, <2>1 DEF Publishes, Moved, OthersStay
  <2> QED BY <1>1, <1>9, <2>1 DEF Accounted, SerialInv, Holds, Publishes
<1>11. CASE s.op # "ensure"
  <2>1. OneAtATime'
    BY <1>1, <1>4, <1>6, <1>8, <1>11, BusyNext, OneStaysAlone DEF Moved
  <2>2. ASSUME NEW r \in Request PROVE Released(r)'
    <3>1. ~Releases(r)
      BY <1>1, <1>11, Background, NothingReleases
    <3> QED BY <1>4, <1>6, <3>1 DEF Released, Releases, Moved, OthersStay
  <2> QED BY <1>8, <1>10, <2>1, <2>2 DEF SerialInv
<1>12. CASE s.op = "ensure"
  <2>1. x \in Request /\ InFlight(x)
    BY <1>1, <1>12 DEF Placed, At, InFlight, Restoring
  <2>2. ~(Releases(x)')
    BY <1>4, <1>6, <1>12 DEF Releases, Moved
  <2> QED BY <1>1, <1>4, <1>6, <1>8, <1>10, <1>12, <2>1, <2>2, OwnStep DEF Moved
<1> QED BY <1>11, <1>12

LEMMA WriteKeepsSerialInv ==
    ASSUME SerialInv, TypeInv', NEW r \in Request, Write(r)
    PROVE  SerialInv'
<1> DEFINE s == proc[r]
<1>1. /\ s \in Process /\ s.pc = "write" /\ s.op \in {"publish", "unpublish"}
      /\ ~s.cancelled /\ s.c \in Container /\ s.p \in Port /\ Current(r) /\ Released(r)
      /\ InFlight(r) /\ ~Restoring(r) /\ UNCHANGED <<bound, lease>>
      /\ rec[s.c] # None /\ s.draft = rec[s.c] /\ s.draft \in Ports
  BY Typed, NamesAssumption DEF Write, Placed, At, Current, Shaped, InFlight, Restoring,
        SerialInv
<1>2. ASSUME Return(r)
      PROVE  Moved(r, Idle) /\ Placed(r)' /\ Current(r)' /\ ~(Releases(r)') /\ proc'[r].op = "none"
  <2>1. Moved(r, Idle)
    BY <1>2, MovedExcept DEF Return
  <2>2. proc'[r] = Idle /\ proc'[r].op = "none" /\ proc'[r].pc = "idle"
    BY <2>1 DEF Moved, Idle
  <2> QED BY <2>1, <2>2, IdleCurrent, NamesAssumption DEF Placed, At, Releases
<1>3. ASSUME NEW c \in Container, NEW p \in Port, ~(c = s.c /\ p = s.p),
             NEW q \in Request, Publishes(q, c, p, bound[c][p])
      PROVE  FALSE
  <2>1. q = r
    BY <1>1, <1>3, OnePublishes
  <2> QED BY <1>3, <2>1 DEF Publishes
<1>4. ASSUME rec' = [rec EXCEPT ![s.c] = [s.draft EXCEPT ![s.p] = s.host]], Return(r)
      PROVE  SerialInv'
  <2>1. \A c \in Container : c # s.c => rec'[c] = rec[c]
    BY <1>1, <1>4 DEF SerialInv, TypeInv, TypeOK
  <2>2. rec'[s.c] = [s.draft EXCEPT ![s.p] = s.host]
    BY <1>1, <1>4 DEF SerialInv, TypeInv, TypeOK
  <2>3. /\ rec'[s.c] # None /\ rec'[s.c][s.p] = s.host
        /\ \A p \in Port : p # s.p => rec'[s.c][p] = rec[s.c][p]
    <3>1. rec'[s.c] \in Ports
      BY <1>1, <2>2, Typed DEF Ports, Process
    <3> QED BY <1>1, <2>2, <3>1, NamesAssumption DEF Ports
  <2>4. ASSUME NEW c \in Container, NEW p \in Port, NEW host, Holds(c, p, host),
               ~(c = s.c /\ p = s.p)
        PROVE  Holds(c, p, host)'
    BY <2>1, <2>3, <2>4 DEF Holds
  <2>5. ASSUME NEW c \in Container, NEW p \in Port PROVE Accounted(c, p)'
    <3>1. CASE c = s.c /\ p = s.p
      <4>1. CASE s.op = "unpublish"
        BY <1>1, <3>1, <4>1 DEF Accounted, Released
      <4>2. CASE s.op = "publish"
        <5>1. ASSUME bound[c][p] # None PROVE bound[c][p] = s.host
          <6>1. PICK q \in Request : Publishes(q, c, p, bound[c][p])
            BY <1>1, <3>1, <4>2, <5>1 DEF SerialInv, Accounted, Holds, Current
          <6>2. q = r
            BY <1>1, <6>1, OnePublishes
          <6> QED BY <6>1, <6>2 DEF Publishes
        <5> QED BY <1>1, <2>3, <3>1, <5>1 DEF Accounted, Holds
      <4> QED BY <1>1, <4>1, <4>2
    <3>2. CASE ~(c = s.c /\ p = s.p)
      <4>1. ASSUME bound[c][p] # None PROVE Holds(c, p, bound[c][p])'
        <5>1. Holds(c, p, bound[c][p])
          BY <1>3, <3>2, <4>1 DEF SerialInv, Accounted
        <5>2. PICK host : host = bound[c][p]
          OBVIOUS
        <5>3. Holds(c, p, host)'
          BY <2>4, <3>2, <5>1, <5>2
        <5> QED BY <1>1, <5>2, <5>3 DEF Holds
      <4> QED BY <1>1, <4>1 DEF Accounted, Holds
    <3> QED BY <3>1, <3>2
  <2>6. ASSUME NEW q \in Request \cup {Session}, q # r PROVE Current(q)'
    <3>1. Current(q) /\ proc'[q] = proc[q]
      BY <1>2, <1>4, <2>6, Typed DEF Moved, OthersStay
    <3>2. CASE s.op = "unpublish"
      <4>1. proc[q].op = "none" /\ proc[q].pc \in {"idle", "hold"} /\ proc[q].todo = {}
        BY <2>6, <3>2, OthersSettled DEF Releases
      <4> QED BY <3>1, <4>1 DEF Current
    <3>3. CASE s.op = "publish"
      <4>1. proc[q].op \in {"none", "restore", "ensure"}
            /\ proc[q].pc \notin {"replace", "create"}
            /\ proc[q].op # "ensure"
        BY <1>1, <2>6, OthersIdle, Typed, NamesAssumption DEF Placed, At
      <4>2. rec[s.c][s.p] = None
        BY <1>1, <3>3 DEF Current
      <4>3. ASSUME NEW c \in Container, NEW p \in Port, NEW host, host # None, Holds(c, p, host)
            PROVE  Holds(c, p, host)'
        BY <2>4, <4>2, <4>3 DEF Holds
      <4>4. ASSUME NEW i \in proc[q].todo PROVE Holds(i[1], i[2], i[3])'
        <5>1. i[1] \in Container /\ i[2] \in Port /\ i[3] # None
          BY Typed, NamesAssumption DEF Item
        <5> QED BY <3>1, <4>3, <5>1 DEF Current
      <4>5. ASSUME proc[q].pc = "rebind"
            PROVE  \A c, p, host : c = proc[q].c /\ p = proc[q].p /\ host = proc[q].host
                      => host # None /\ Holds(c, p, host)'
        BY <3>1, <4>3, <4>5, Typed DEF Current, Shaped
      <4>6. ASSUME proc[q].op = "restore", NEW p \in Port, proc[q].draft[p] # None
            PROVE  \A c, host : c = proc[q].c /\ host = proc[q].draft[p] => Holds(c, p, host)'
        BY <3>1, <4>3, <4>6, Typed DEF Current, Shaped
      <4> QED BY <3>1, <4>1, <4>4, <4>5, <4>6 DEF Current, Holds
    <3> QED BY <1>1, <3>2, <3>3
  <2> QED BY <1>1, <1>2, <1>4, <2>5, <2>6, OwnStep DEF Moved
<1>5. ASSUME UNCHANGED rec, s.op = "unpublish", Return(r) PROVE SerialInv'
  <2>1. \A q \in Request \cup {Session} : Current(q)'
    BY <1>2, <1>5, Typed, CurrentSame DEF Moved, OthersStay
  <2>2. ASSUME NEW c \in Container, NEW p \in Port PROVE Accounted(c, p)'
    <3>1. \A q \in Request : ~Publishes(q, c, p, bound[c][p])
      BY <1>1, <1>5, OnePublishes DEF Publishes
    <3> QED BY <1>1, <1>5, <3>1 DEF Accounted, SerialInv, Holds
  <2> QED BY <1>1, <1>2, <1>5, <2>1, <2>2, OwnStep DEF Moved
<1>6. ASSUME UNCHANGED rec, s.op = "publish", Goto(r, "unbind") PROVE SerialInv'
  <2> DEFINE y == [s EXCEPT !.pc = "unbind"]
  <2>1. /\ y.op = "publish" /\ y.pc = "unbind" /\ y.c = s.c /\ y.p = s.p /\ y.host = s.host
        /\ y.draft = s.draft /\ y.todo = s.todo /\ ~y.cancelled
    BY <1>1, <1>6 DEF Process
  <2>2. Moved(r, y)
    BY <1>6, MovedExcept DEF Goto
  <2> HIDE DEF y
  <2>3. Placed(r)' /\ Current(r)' /\ ~(Releases(r)')
    BY <1>1, <1>6, <2>1, <2>2, NamesAssumption DEF Moved, Placed, At, Current, Releases
  <2>4. \A q \in Request \cup {Session} : Current(q)'
    BY <1>6, <2>2, <2>3, Typed, CurrentSame DEF Moved, OthersStay
  <2>5. ASSUME NEW c \in Container, NEW p \in Port PROVE Accounted(c, p)'
    <3>1. ASSUME NEW q \in Request, NEW host, Publishes(q, c, p, host)
          PROVE  Publishes(q, c, p, host)'
      BY <2>1, <2>2, <3>1 DEF Publishes, Moved, OthersStay
    <3> QED BY <1>1, <1>6, <3>1 DEF Accounted, SerialInv, Holds, Publishes
  <2> QED BY <1>1, <2>1, <2>2, <2>3, <2>4, <2>5, OwnStep DEF Moved
<1> QED BY <1>1, <1>4, <1>5, <1>6, Zenon DEF Write

\* The record that is stored is the one that was read, so that nothing changes
\* but where the ports are restored.
LEMMA CreateKeepsSerialInv ==
    ASSUME SerialInv, TypeInv', NEW r \in Request, Create(r)
    PROVE  SerialInv'
<1> DEFINE s == proc[r]
           y == [s EXCEPT !.op = "restore", !.pc = "publish", !.tries = 1,
                          !.todo = Items(s.c, s.draft), !.cancelled = FALSE]
<1>1. /\ s \in Process /\ s.pc = "create" /\ s.op \in {"recreate", "ensure"}
      /\ s.c \in Container /\ InFlight(r) /\ ~Restoring(r) /\ UNCHANGED <<bound, lease>>
      /\ rec[s.c] # None /\ s.draft = rec[s.c] /\ s.draft \in Ports
  BY Typed, NamesAssumption DEF Create, Placed, At, Current, Shaped, InFlight, Restoring
<1>2. UNCHANGED rec
  <2>1. rec' = [rec EXCEPT ![s.c] = s.draft] \/ UNCHANGED rec
    BY DEF Create
  <2> QED BY <1>1, <2>1 DEF SerialInv, TypeInv, TypeOK
<1>3. Return(r) \/ Moved(r, y)
  BY MovedExcept DEF Create
<1>4. CASE Return(r)
  BY <1>1, <1>2, <1>4, Ends
<1>5. CASE Moved(r, y)
  <2>1. /\ y.op = "restore" /\ y.pc = "publish" /\ y.c = s.c /\ y.draft = s.draft
        /\ y.todo = Items(s.c, s.draft) /\ ~y.cancelled
    BY <1>1 DEF Process
  <2> HIDE DEF y
  <2>2. \A i \in Items(s.c, s.draft) : i[1] = s.c /\ Holds(i[1], i[2], i[3])
    BY <1>1, ItemsHold
  <2>3. Current(r)'
    BY <1>1, <1>2, <1>5, <2>1, <2>2 DEF Moved, Current, Holds
  <2>4. Placed(r)' /\ ~(Releases(r)')
    BY <1>5, <2>1, NamesAssumption DEF Moved, Placed, At, Releases
  <2>5. \A q \in Request \cup {Session} : Current(q)'
    BY <1>2, <1>5, <2>3, Typed, CurrentSame DEF Moved, OthersStay
  <2>6. ASSUME NEW c \in Container, NEW p \in Port PROVE Accounted(c, p)'
    <3>1. \A q \in Request : ~Publishes(q, c, p, bound[c][p])
      BY <1>1, OnePublishes DEF Publishes
    <3> QED BY <1>1, <1>2, <3>1 DEF Accounted, SerialInv, Holds
  <2> QED BY <1>1, <1>5, <2>1, <2>4, <2>5, <2>6, OwnStep DEF Moved
<1> QED BY <1>3, <1>4, <1>5

LEMMA DropKeepsSerialInv ==
    ASSUME SerialInv, TypeInv', NEW r \in Request, Drop(r)
    PROVE  SerialInv'
<1> DEFINE s == proc[r]
<1>1. /\ s \in Process /\ s.pc = "drop" /\ s.op = "remove" /\ s.todo = {}
      /\ s.c \in Container /\ Releases(r) /\ Released(r)
      /\ InFlight(r) /\ ~Restoring(r) /\ UNCHANGED <<bound, lease>> /\ Return(r)
  BY Typed, NamesAssumption DEF Drop, Placed, At, Current, Shaped, InFlight, Restoring,
        Releases, SerialInv
<1>2. CASE UNCHANGED rec
  BY <1>1, <1>2, Ends
<1>3. CASE rec' = [rec EXCEPT ![s.c] = None]
  <2>1. Moved(r, Idle)
    BY <1>1, MovedExcept DEF Return
  <2>2. proc'[r] = Idle /\ proc'[r].op = "none" /\ proc'[r].pc = "idle"
    BY <2>1 DEF Moved, Idle
  <2>3. Placed(r)' /\ ~(Releases(r)')
    BY <2>2, NamesAssumption DEF Placed, At, Releases
  <2>4. ASSUME NEW q \in Request \cup {Session} PROVE Current(q)'
    <3>1. CASE q = r
      BY <2>2, <3>1, IdleCurrent
    <3>2. CASE q # r
      BY <1>1, <2>1, <3>2, OthersSettled, Typed DEF Moved, OthersStay, Current
    <3> QED BY <3>1, <3>2
  <2>5. ASSUME NEW c \in Container, NEW p \in Port PROVE Accounted(c, p)'
    <3>1. CASE c = s.c
      BY <1>1, <3>1 DEF Accounted, Released
    <3>2. CASE c # s.c
      <4>1. rec'[c] = rec[c]
        BY <1>1, <1>3, <3>2 DEF SerialInv, TypeInv, TypeOK
      <4>2. \A q \in Request : ~Publishes(q, c, p, bound[c][p])
        BY <1>1, OnePublishes DEF Publishes
      <4> QED BY <1>1, <4>1, <4>2 DEF Accounted, SerialInv, Holds
    <3> QED BY <3>1, <3>2
  <2> QED BY <1>1, <2>1, <2>2, <2>3, <2>4, <2>5, OwnStep DEF Moved
<1> QED BY <1>2, <1>3 DEF Drop

-------------------------------------------------------------------------------
(* What happens outside the calls.                                         *)

\* Nothing happens to the leases or the bindings but between calls.
LEMMA OutsideKeepsSerialInv ==
    ASSUME SerialInv, SerialCalls, TypeInv',
           \/ LeaseEnded \/ GatewayRestarts \/ OrchestratorStops \/ OrchestratorStarts
           \/ \E r \in Request : CallerLeaves(r)
           \/ \E c \in Container : AgentStops(c) \/ AgentStarts(c)
    PROVE  SerialInv'
<1>1. CASE LeaseEnded \/ GatewayRestarts
  <2>1. /\ Quiet /\ UNCHANGED <<rec, proc>>
        /\ bound' = bound \/ bound' = Unbound
    BY <1>1 DEF LeaseEnded, GatewayRestarts, Outside, SerialCalls
  <2>2. OneAtATime' /\ \A x \in Request \cup {Session} : Placed(x)' /\ Current(x)'
    BY <2>1, Typed, PlacedSame, CurrentSame DEF SerialInv, OneAtATime, InFlight, Restoring
  <2>3. ASSUME NEW r \in Request PROVE Released(r)'
    BY <2>1, NothingReleases DEF Released, Releases
  <2>4. ASSUME NEW c \in Container, NEW p \in Port PROVE Accounted(c, p)'
    <3>1. bound' = Unbound => bound'[c][p] = None
      BY DEF Unbound, NoPorts
    <3> QED BY <2>1, <3>1 DEF Accounted, SerialInv, Holds, Publishes
  <2> QED BY <2>2, <2>3, <2>4 DEF SerialInv
<1>2. CASE OrchestratorStops
  <2>1. /\ Quiet /\ UNCHANGED <<rec, bound>>
        /\ \A x \in Request : proc'[x] = Idle
        /\ proc'[Session] = Waiting
    BY <1>2, NamesAssumption DEF OrchestratorStops, Outside, SerialCalls
  <2>2. /\ Idle.op = "none" /\ Idle.pc = "idle"
        /\ Waiting.op = "none" /\ Waiting.pc = "connect"
    BY DEF Idle, Waiting
  <2>3. ASSUME NEW x \in Request \cup {Session} PROVE Placed(x)' /\ Current(x)'
    <3>1. CASE x = Session
      BY <2>1, <2>2, <3>1, IdleCurrent DEF Placed, At
    <3>2. CASE x \in Request
      <4>1. Current(x)'
        BY <2>1, <3>2, IdleCurrent
      <4>2. Placed(x)'
        BY <2>1, <2>2, <3>2, NamesAssumption DEF Placed, At
      <4> QED BY <4>1, <4>2
    <3> QED BY <3>1, <3>2
  <2>4. OneAtATime' /\ \A r \in Request : Released(r)'
    BY <2>1, <2>2 DEF OneAtATime, InFlight, Released, Releases
  <2>5. ASSUME NEW c \in Container, NEW p \in Port PROVE Accounted(c, p)'
    <3>1. bound[c][p] # None => Holds(c, p, bound[c][p])
      BY <2>1, QuietBoundRecorded
    <3> QED BY <2>1, <3>1 DEF Accounted, Holds
  <2> QED BY <2>3, <2>4, <2>5 DEF SerialInv
<1>3. CASE \/ OrchestratorStarts \/ \E c \in Container : AgentStops(c) \/ AgentStarts(c)
  <2>1. UNCHANGED <<rec, proc, bound, lease>>
    BY <1>3 DEF OrchestratorStarts, AgentStops, AgentStarts
  <2> QED BY <2>1 DEF SerialInv, OneAtATime, InFlight, Restoring, Placed, At, Current, Holds,
             Released, Releases, Settled, Accounted, Publishes
<1>4. ASSUME NEW r \in Request, CallerLeaves(r) PROVE FALSE
  BY <1>4 DEF CallerLeaves, Fault, SerialCalls
<1> QED BY <1>1, <1>2, <1>3, <1>4

LEMMA InitSerialInv == Init => SerialInv
<1> SUFFICES ASSUME Init PROVE SerialInv
  OBVIOUS
<1>1. TypeInv
  BY InitTyped
<1>2. /\ \A r \in Request : proc[r] = Idle
      /\ proc[Session] = Waiting
  BY NamesAssumption DEF Init
<1>3. /\ Idle.op = "none" /\ Idle.pc = "idle" /\ ~Idle.cancelled /\ Idle.todo = {}
      /\ Waiting.op = "none" /\ Waiting.pc = "connect" /\ ~Waiting.cancelled
      /\ Waiting.todo = {}
  BY DEF Idle, Waiting
<1>4. \A x \in Request \cup {Session} : Placed(x) /\ Current(x)
  BY <1>2, <1>3, NamesAssumption DEF Placed, At, Current
<1>5. OneAtATime /\ \A r \in Request : Released(r)
  BY <1>2, <1>3 DEF OneAtATime, InFlight, Released, Releases
<1>6. \A c \in Container, p \in Port : Accounted(c, p)
  BY DEF Init, Unbound, NoPorts, Accounted
<1> QED BY <1>1, <1>4, <1>5, <1>6 DEF SerialInv

LEMMA NextKeepsSerialInv == SerialCalls /\ SerialInv /\ [Next]_vars => SerialInv'
<1> SUFFICES ASSUME SerialCalls, SerialInv, [Next]_vars PROVE SerialInv'
  OBVIOUS
<1>1. TypeInv'
  BY NextKeepsTypes DEF SerialInv
<1>2. CASE UNCHANGED vars
  BY <1>1, <1>2 DEF vars, SerialInv, OneAtATime, InFlight, Restoring, Placed, At, Current,
                    Holds, Released, Releases, Settled, Accounted, Publishes
<1>3. ASSUME NEW r \in Request, Calls(r) PROVE SerialInv'
  BY <1>1, <1>3, CallsKeepSerialInv
<1>4. ASSUME NEW x \in Request \cup {Session}, Steps(x) PROVE SerialInv'
  <2>1. CASE x \in Request /\ (Forward(x) \/ Unforward(x) \/ Replace(x) \/ PodmanRemove(x))
    BY <1>1, <2>1, QuietStepsKeepSerialInv
  <2>2. CASE x \in Request /\ (Bind(x) \/ Unbind(x) \/ Release(x))
    BY <1>1, <2>2, BindKeepsSerialInv, UnbindKeepsSerialInv, ReleaseKeepsSerialInv
  <2>3. CASE x \in Request /\ (Write(x) \/ Create(x) \/ Drop(x) \/ Reestablished(x))
    BY <1>1, <2>3, WriteKeepsSerialInv, CreateKeepsSerialInv, DropKeepsSerialInv,
       ReestablishedKeepsSerialInv
  <2>4. CASE PublishNext(x) \/ Rebind(x)
    BY <1>1, <2>4, PublishNextKeepsSerialInv, RebindKeepsSerialInv
  <2>5. CASE Connect \/ ReadStore \/ Rebound \/ Lost
    BY <1>1, <2>5, SessionStepsKeepSerialInv
  <2> QED BY <1>4, <2>1, <2>2, <2>3, <2>4, <2>5 DEF Steps
<1> QED BY <1>1, <1>2, <1>3, <1>4, OutsideKeepsSerialInv DEF Next

LEMMA AlwaysSerialInv == SerialCalls /\ Spec => []SerialInv
<1> SUFFICES ASSUME SerialCalls PROVE Spec => []SerialInv
  OBVIOUS
<1>1. SerialInv /\ [Next]_vars => SerialInv'
  BY NextKeepsSerialInv
<1> QED BY <1>1, InitSerialInv, PTL DEF Spec

\* PublishPort, UnpublishPort, reestablishPublishedPorts and releasePublishedPorts:
\* when calls do not overlap, the host port that a call answered and the store
\* keeps is the one the gateway listens on, through every rebind, restore, failed
\* write and restart.
THEOREM RecordsRule == SerialCalls /\ Spec => []BoundAsRecorded
<1>1. SerialInv => BoundAsRecorded
  <2> SUFFICES ASSUME SerialInv, NEW c \in Container, NEW p \in Port,
                      rec[c] # None, rec[c][p] # None, bound[c][p] # None
               PROVE  bound[c][p] = rec[c][p]
    BY DEF BoundAsRecorded
  <2>1. ASSUME NEW r \in Request, Publishes(r, c, p, bound[c][p]) PROVE rec[c][p] = None
    BY <2>1, Typed DEF Publishes, Current
  <2> QED BY <2>1 DEF SerialInv, Accounted, Holds
<1> QED BY <1>1, AlwaysSerialInv, PTL

\* docs/architecture.md, ports.go and gatewayclient: with serial calls, whatever
\* failed on the way, a gateway whose session has settled listens on no host port
\* that the store does not record.
THEOREM NothingLeftInGateway == SerialCalls /\ Spec => []NoPortOnlyInGateway
<1>1. SerialInv => NoPortOnlyInGateway
  BY QuietBoundRecorded DEF NoPortOnlyInGateway, Holds
<1> QED BY <1>1, AlwaysSerialInv, PTL
===============================================================================
