--------------------- MODULE AgentLifecycleActionProofs ---------------------
(***************************************************************************)
(* Proofs about single steps of AgentLifecycle, for any number of keys,    *)
(* graphs, containers and concurrent requests: what a step may change, and *)
(* what an answer to a Create, a Delete or a query may claim.  They rest on*)
(* the invariants of AgentLifecycleProofs and on one more, HoldInv: what a *)
(* handler still knows of the container it picked some calls ago.          *)
(***************************************************************************)
EXTENDS AgentLifecycleProofs, FiniteSetTheorems

-----------------------------------------------------------------------------
(* The daemon never hands out an id twice, so a held id means a container  *)
(* of the request's key, and of its graph when the request made it, for as *)
(* long as there is one of that id.                                        *)

HoldOwn(r) ==
    LET c == req[r].target IN
    req[r].pc \in HoldPCs \cup LaunchPCs /\ Live(c) =>
        /\ containers[c].key = req[r].key
        /\ req[r].pc \in LaunchPCs => containers[c].root = req[r].graph

Waiting(r) == InFlight(r) => req[r].reply = "none"

GoneIsAbsent == \A c \in Containers : ~Live(c) => containers[c] = Absent

HoldInv ==
    /\ Typed
    /\ GoneIsAbsent
    /\ \A r \in Requests : Waiting(r) /\ HoldOwn(r)

-----------------------------------------------------------------------------
(* What a handler's step changes.                                          *)

LEMMA HandleLeaves ==
    ASSUME Typed, NEW r \in Requests, Handle(r)
    PROVE  req'[r] # req[r]
<1>1. CASE FindAgentContainer(r) \/ StopContainer(r) \/ RemoveContainer(r) \/ RestartContainer(r)
  BY <1>1, FindStep, StopStep, RemoveStep, RestartStep
     DEF FindAgentContainer, StopContainer, RemoveContainer, RestartContainer, At
<1>2. CASE EnsureDirs(r) \/ InstallTools(r) \/ WriteAgentYAML(r) \/ InstallSkills(r)
  BY <1>2, EnsureDirsStep, InstallToolsStep, WriteAgentYAMLStep, InstallSkillsStep
     DEF EnsureDirs, InstallTools, WriteAgentYAML, InstallSkills, At
<1>3. CASE ContainerCreate(r) \/ PurgeData(r) \/ CleanupStart(r)
  BY <1>3, ContainerCreateStep, PurgeStep, AnswerEffect
     DEF ContainerCreate, PurgeData, CleanupStart, At, Typed, Replies, Idle
<1>4. CASE ContainerStart(r)
  BY <1>4, GotoEffect DEF ContainerStart, At, PCs, Typed
<1>5. CASE GetArchived(r) \/ InspectStatus(r) \/ ContainerLogs(r) \/ InspectCreated(r)
           \/ ListManagedContainers(r)
  BY <1>5, QueryStep
     DEF GetArchived, InspectStatus, ContainerLogs, InspectCreated, ListManagedContainers, At
<1>6. CASE ReadDataDir(r)
  BY <1>6, ReadDirStep DEF ReadDataDir, At
<1>7. CASE StatDir(r)
  BY <1>7, StatDirStep
<1> QED
  BY <1>1, <1>2, <1>3, <1>4, <1>5, <1>6, <1>7 DEF Handle

LEMMA HandleInFlight ==
    ASSUME NEW r \in Requests, Handle(r)
    PROVE  InFlight(r)
BY DEF Handle, FindAgentContainer, StopContainer, RemoveContainer, RestartContainer,
   EnsureDirs, InstallTools, WriteAgentYAML, InstallSkills, ContainerCreate,
   ContainerStart, CleanupStart, InspectCreated, PurgeData, GetArchived, InspectStatus,
   ContainerLogs, ListManagedContainers, ReadDataDir, StatDir, At, InFlight

(* A call that only ever acts on container c.                              *)
Touches(c) ==
    \A d \in Containers : containers'[d] # containers[d] =>
        /\ d = c /\ Live(c)
        /\ containers'[c].key \in {containers[c].key, EmptyKey}

LEMMA CallTouches ==
    ASSUME TypeOK, GoneIsAbsent, NEW c \in Containers,
           containers' \in {containers, Stopped(c), Started(c), Removed(c)}
    PROVE  Touches(c) /\ GoneIsAbsent'
<1>1. containers[c] \in Container
  BY DEF TypeOK
<1>2. CASE containers' = containers
  BY <1>2 DEF Touches, GoneIsAbsent, Live
<1>3. CASE containers' = Stopped(c)
  BY <1>1, <1>3
     DEF TypeOK, Touches, GoneIsAbsent, Live, Stopped, With, Container, Statuses, Absent
<1>4. CASE containers' = Started(c)
  BY <1>1, <1>4
     DEF TypeOK, Touches, GoneIsAbsent, Live, Started, With, Container, Statuses, Absent
<1>5. CASE containers' = Removed(c)
  BY <1>1, <1>5 DEF TypeOK, Touches, GoneIsAbsent, Live, Removed, With, Absent
<1> QED
  BY <1>2, <1>3, <1>4, <1>5

LEMMA HandleTouches ==
    ASSUME Typed, GoneIsAbsent, NEW r \in Requests, Handle(r)
    PROVE  /\ GoneIsAbsent'
           /\ \A c \in Containers : containers'[c] # containers[c] =>
                 \/ Makes(r, c)
                 \/ /\ req[r].pc \in HoldPCs \cup LaunchPCs /\ Touches(req[r].target)
                    /\ req[r].target \in Containers
<1>1. CASE \/ StopContainer(r) \/ RemoveContainer(r) \/ RestartContainer(r)
           \/ ContainerStart(r) \/ CleanupStart(r)
  <2>1. req[r].pc \in HoldPCs \cup LaunchPCs /\ req[r].target \in Containers
    BY <1>1 DEF StopContainer, RemoveContainer, RestartContainer, ContainerStart,
       CleanupStart, At, HoldPCs, LaunchPCs, Typed, OpMatchesPC
  <2>2. containers' \in {containers, Stopped(req[r].target), Started(req[r].target),
                         Removed(req[r].target)}
    BY <1>1 DEF StopContainer, RemoveContainer, RestartContainer, ContainerStart,
       CleanupStart
  <2> QED
    BY <2>1, <2>2, CallTouches DEF Typed
<1>2. CASE ContainerCreate(r)
  <2>1. CASE UNCHANGED containers
    BY <2>1 DEF GoneIsAbsent, Live
  <2>2. ASSUME NEW c \in FreshIds, containers' = With(c, NewContainer(r))
        PROVE  /\ GoneIsAbsent'
               /\ \A d \in Containers : containers'[d] # containers[d] => Makes(r, d)
    BY <2>2 DEF FreshIds, Makes, With, NewContainer, GoneIsAbsent, Live, Absent, Typed, TypeOK
  <2> QED
    BY <1>2, <2>1, <2>2 DEF ContainerCreate
<1>3. CASE UNCHANGED containers
  BY <1>3 DEF GoneIsAbsent, Live
<1> QED
  BY <1>1, <1>2, <1>3
     DEF Handle, FindAgentContainer, EnsureDirs, InstallTools, WriteAgentYAML,
         InstallSkills, InspectCreated, PurgeData, GetArchived, InspectStatus,
         ContainerLogs, ListManagedContainers, ReadDataDir, StatDir

-----------------------------------------------------------------------------
(* HoldInv is inductive, whoever overlaps whom.                            *)

LEMMA HandleHolds ==
    ASSUME Typed, NEW r \in Requests, HoldOwn(r), Handle(r)
    PROVE  HoldOwn(r)'
<1>1. Typed' /\ Moves(r)
  BY HandleTyped
<1> SUFFICES ASSUME req'[r].pc \in HoldPCs \cup LaunchPCs PROVE HoldOwn(r)'
  BY DEF HoldOwn
<1>2. SameRequest(r) /\ req'[r].target \in Containers
  BY <1>1 DEF Moves, HoldPCs, LaunchPCs, Typed, OpMatchesPC
<1>3. CASE FindAgentContainer(r)
  <2>1. /\ NoneMade /\ req'[r].target \in LiveOf(req[r].key)
        /\ req'[r].pc \notin LaunchPCs
    BY <1>3, FindStep DEF Frame, HoldPCs, LaunchPCs
  <2> QED
    BY <1>2, <2>1 DEF NoneMade, LiveOf, HoldOwn, SameRequest
<1>4. CASE StopContainer(r) \/ ContainerStart(r)
  <2>1. /\ NoneMade /\ req'[r].target = req[r].target
        /\ req[r].pc \in HoldPCs \cup LaunchPCs
        /\ req'[r].pc \in LaunchPCs => req[r].pc \in LaunchPCs
    BY <1>4, StopStep, StartStep
       DEF Frame, HoldPCs, LaunchPCs, StopContainer, ContainerStart, At
  <2> QED
    BY <1>2, <2>1 DEF NoneMade, HoldOwn, SameRequest
<1>5. CASE ContainerCreate(r)
  <2>1. PICK c \in Containers : Makes(r, c) /\ req'[r].target = c
    BY <1>5, ContainerCreateStep DEF HoldPCs, LaunchPCs
  <2>2. containers'[c].key = req[r].key /\ containers'[c].root = req[r].graph
    BY <2>1 DEF Makes, With, NewContainer, Typed, TypeOK
  <2> QED
    BY <1>2, <2>1, <2>2 DEF HoldOwn, SameRequest
<1>6. CASE ~\/ FindAgentContainer(r) \/ StopContainer(r) \/ ContainerStart(r)
            \/ ContainerCreate(r)
  <2>1. req'[r].pc \notin HoldPCs \cup LaunchPCs
    BY <1>6, RemoveStep, RestartStep, EnsureDirsStep, InstallToolsStep,
       WriteAgentYAMLStep, InstallSkillsStep, StartStep, PurgeStep, QueryStep,
       AnswerEffect
       DEF Handle, HoldPCs, LaunchPCs, CleanupStart, Typed, Replies, Idle
  <2> QED
    BY <2>1
<1> QED
  BY <1>3, <1>4, <1>5, <1>6

(* The id of a new container is one nobody holds.                          *)
LEMMA OthersHold ==
    ASSUME Typed, NEW r \in Requests, Handle(r), NEW s \in Requests, s # r, HoldOwn(s)
    PROVE  HoldOwn(s)'
<1>1. req'[s] = req[s]
  BY HandleTyped DEF Moves, Others
<1>2. CASE NoneMade
  BY <1>1, <1>2 DEF NoneMade, HoldOwn, Typed, OpMatchesPC
<1>3. ASSUME NEW c \in Containers, Makes(r, c) PROVE HoldOwn(s)'
  BY <1>1, <1>3 DEF Makes, FreshIds, With, HoldOwn, Typed, TypeOK, Live, OpMatchesPC
<1> QED
  BY <1>2, <1>3, HandleMakes, ContainerCreateStep

LEMMA InitHoldInv == Init => HoldInv
<1> SUFFICES ASSUME Init PROVE HoldInv
  OBVIOUS
<1>1. Typed
  BY InitTyped
<1>2. GoneIsAbsent
  BY DEF Init, GoneIsAbsent
<1>3. \A r \in Requests : Waiting(r) /\ HoldOwn(r)
  BY DEF Init, Waiting, InFlight, HoldOwn, HoldPCs, LaunchPCs, Idle
<1> QED
  BY <1>1, <1>2, <1>3 DEF HoldInv

LEMMA HoldInvStep == HoldInv /\ [Next]_vars => HoldInv'
<1> SUFFICES ASSUME HoldInv, [Next]_vars PROVE HoldInv'
  OBVIOUS
<1>0. Typed /\ Typed'
  BY NextTyped DEF HoldInv
<1>1. ASSUME NEW r \in Requests, Handle(r) PROVE HoldInv'
  <2>1. GoneIsAbsent'
    BY <1>1, HandleTouches DEF HoldInv
  <2>2. ASSUME NEW s \in Requests PROVE Waiting(s)'
    <3>1. Moves(r) /\ InFlight(r)
      BY <1>0, <1>1, HandleTyped, HandleInFlight
    <3> QED
      BY <3>1 DEF HoldInv, Waiting, Moves, Others, SameRequest, InFlight
  <2>3. ASSUME NEW s \in Requests PROVE HoldOwn(s)'
    BY <1>1, HandleHolds, OthersHold DEF HoldInv
  <2> QED
    BY <1>0, <2>1, <2>2, <2>3 DEF HoldInv
<1>2. ASSUME NEW r \in Requests, Receive(r) PROVE HoldInv'
  <2>1. /\ UNCHANGED <<containers, disk>> /\ Others(r)
        /\ req'[r].pc \in {"idle", "find", "listContainers"}
        /\ InFlight(r)' => req'[r].reply = "none"
    BY <1>0, <1>2, ReceiveStep
  <2>2. GoneIsAbsent'
    BY <2>1 DEF HoldInv, GoneIsAbsent, Live
  <2>3. ASSUME NEW s \in Requests PROVE Waiting(s)' /\ HoldOwn(s)'
    BY <2>1 DEF HoldInv, Waiting, InFlight, HoldOwn, HoldPCs, LaunchPCs, Others, Live
  <2> QED
    BY <1>0, <2>2, <2>3 DEF HoldInv
<1>3. CASE Crash
  <2>1. /\ UNCHANGED <<containers, disk>>
        /\ \A r \in Requests : req'[r].pc = "idle"
    BY <1>0, <1>3, CrashStep
  <2> QED
    BY <1>0, <2>1 DEF HoldInv, GoneIsAbsent, Live, Waiting, InFlight, HoldOwn,
       HoldPCs, LaunchPCs
<1>4. CASE UNCHANGED vars
  BY <1>0, <1>4 DEF vars, HoldInv, GoneIsAbsent, Live, Waiting, InFlight, HoldOwn
<1> QED
  BY <1>1, <1>2, <1>3, <1>4 DEF Next

-----------------------------------------------------------------------------
(* Who answers what.                                                       *)

LEMMA AnswerReply ==
    ASSUME TypeOK, NEW r \in Requests, NEW reply \in Replies, Answer(r, reply)
    PROVE  req'[r].reply = reply /\ req'[r].pc = "idle"
<1>1. req'[r] = Idle(reply)
  BY AnswerEffect
<1>2. Idle(reply).reply = reply /\ Idle(reply).pc = "idle"
  BY DEF Idle
<1> QED
  BY <1>1, <1>2

LEMMA ListReply ==
    ASSUME Typed, NEW r \in Requests,
           ListManagedContainers(r) \/ ReadDataDir(r) \/ StatDir(r)
    PROVE  /\ req'[r].reply \in {req[r].reply, "listed", "error"}
           /\ req'[r].reply = "error" => Faults \/ req[r].reply = "error"
BY ListContainersStep, ReadDirStep, StatDirStep DEF SameRequest

(* The step that gives a waiting request its answer is its handler's own,  *)
(* or the crash that loses it.                                             *)
LEMMA OwnAnswer ==
    ASSUME HoldInv, NEW r \in Requests, InFlight(r), [Next]_vars,
           req'[r].reply \notin {"none", "lost"}
    PROVE  Handle(r)
<1>1. Typed /\ req[r].reply = "none"
  BY DEF HoldInv, Waiting
<1>2. ASSUME NEW s \in Requests, Handle(s) PROVE s = r
  BY <1>1, <1>2, HandleTyped DEF Moves, Others
<1>3. ASSUME NEW s \in Requests, Receive(s) PROVE FALSE
  <2>1. req[s].pc = "idle"
    BY <1>3 DEF Receive, ReceiveCreate, ReceiveNamed, ReceiveList
  <2> QED
    BY <1>1, <1>3, <2>1, ReceiveStep DEF Others, InFlight
<1>4. CASE Crash
  <2>1. req'[r].reply \in {"none", "lost"}
    BY <1>1, <1>4 DEF Crash, Idle
  <2> QED
    BY <2>1
<1>5. CASE UNCHANGED vars
  BY <1>1, <1>5 DEF vars
<1> QED
  BY <1>2, <1>3, <1>4, <1>5 DEF Next

LEMMA SerialIsNext == [SerialNext]_vars => [Next]_vars
BY DEF SerialNext, Next

-----------------------------------------------------------------------------
(* DeletedIsGone.                                                          *)

LEMMA DeletedStep ==
    ASSUME HoldInv, OwnerInv(WriterOps), [SerialNext]_vars, NEW r \in Requests,
           req[r].op \in DeleteOps, req'[r].reply = "ok"
    PROVE  /\ \A c \in Containers :
                 containers'[c].status = "absent" \/ containers'[c].key # req[r].key
           /\ req[r].op = "delete" => disk'[req[r].key] = disk[req[r].key]
<1>1. Typed /\ InFlight(r) /\ Handle(r) /\ Owner(r, WriterOps)
  <2>1. InFlight(r)
    BY DEF HoldInv, Typed, OpMatchesPC, InFlight, DeleteOps
  <2> QED
    BY <2>1, OwnAnswer, SerialIsNext DEF HoldInv, OwnerInv
<1>2. req[r].op \in WriterOps /\ req[r].op \notin CreateOps
  BY DEF WriterOps, CreateOps, DeleteOps
<1>3. CASE FindAgentContainer(r)
  <2>1. UNCHANGED <<containers, disk>>
    BY <1>3 DEF FindAgentContainer
  <2>2. LiveOf(req[r].key) = {}
    <3>1. ASSUME NEW reply \in Replies, Answer(r, reply) PROVE reply = "ok"
      BY <1>1, <3>1, AnswerReply DEF Typed
    <3>2. ASSUME NEW c \in LiveOf(req[r].key), OnFound(r, c) PROVE FALSE
      <4>1. Hold(r, c, "stop")
        BY <3>2, <3>1 DEF OnFound, Replies, DeleteOps
      <4> QED
        BY <1>1, <4>1, HoldEffect DEF LiveOf, PCs, HoldInv, Waiting, Typed, SameRequest
    <3> QED
      BY <1>3, <3>1, <3>2 DEF FindAgentContainer, Replies
  <2> QED
    BY <2>1, <2>2 DEF LiveOf, Live
<1>4. CASE RemoveContainer(r)
  <2>1. /\ NoneMade /\ UNCHANGED disk /\ containers'[req[r].target] = Absent
        /\ OnlyTargetLive(r)
    BY <1>1, <1>2, <1>4, RemoveStep DEF Frame, Owner, RemoveContainer, At
  <2> QED
    BY <2>1 DEF NoneMade, OnlyTargetLive, Absent, Live
<1>5. CASE PurgeData(r)
  <2>1. NoneLive(r) /\ UNCHANGED containers /\ req[r].op = "purge"
    BY <1>1, <1>2, <1>5 DEF Owner, PurgeData, At, Typed, OpMatchesPC
  <2> QED
    BY <2>1 DEF NoneLive, Live
<1>6. CASE StopContainer(r)
  <2>1. req[r].op # "stop"
    BY DEF DeleteOps
  <2>2. Goto(r, "remove") \/ Answer(r, "error")
    BY <1>6, <2>1 DEF StopContainer
  <2>3. req'[r].reply \in {"none", "error"}
    BY <1>1, <2>2, GotoEffect, AnswerEffect
       DEF HoldInv, Waiting, Typed, PCs, Replies, SameRequest, Idle
  <2> QED
    BY <2>3
<1>7. CASE GetArchived(r) \/ InspectStatus(r) \/ ContainerLogs(r) \/ RestartContainer(r)
  BY <1>1, <1>2, <1>7 DEF GetArchived, InspectStatus, ContainerLogs, RestartContainer, At,
     Typed, OpMatchesPC, DeleteOps
<1>8. CASE \/ EnsureDirs(r) \/ InstallTools(r) \/ WriteAgentYAML(r) \/ InstallSkills(r)
           \/ ContainerCreate(r) \/ ContainerStart(r) \/ CleanupStart(r) \/ InspectCreated(r)
  BY <1>1, <1>2, <1>8 DEF EnsureDirs, InstallTools, WriteAgentYAML, InstallSkills,
     ContainerCreate, ContainerStart, CleanupStart, InspectCreated, At, Typed, OpMatchesPC,
     BuildPCs, LaunchPCs
<1>9. CASE ListManagedContainers(r) \/ ReadDataDir(r) \/ StatDir(r)
  BY <1>1, <1>9, ListReply DEF HoldInv, Waiting
<1> QED
  BY <1>1, <1>3, <1>4, <1>5, <1>6, <1>7, <1>8, <1>9 DEF Handle

SerialInv == HoldInv /\ OwnerInv(WriterOps)

LEMMA SerialInvHolds == SerialSpec => []SerialInv
<1>1. Init => SerialInv
  BY InitHoldInv, InitOwner DEF SerialInv
<1>2. SerialInv /\ [SerialNext]_vars => SerialInv'
  BY HoldInvStep, SerialOwnerStep, SerialIsNext DEF SerialInv
<1> QED
  BY <1>1, <1>2, PTL DEF SerialSpec

(* When writers of a key do not overlap, a Delete answered 200 leaves no   *)
(* container of its key, and leaves the data when it was no purge, whatever*)
(* fails or crashes and whatever stops, restarts and queries run beside it.*)
THEOREM DeletedIsGoneHolds == SerialSpec => DeletedIsGone
<1>1. SerialInv /\ [SerialNext]_vars =>
      [\A r \in Requests :
         req[r].op \in DeleteOps /\ req'[r].reply = "ok" =>
            LET k == req[r].key IN
            /\ \A c \in Containers :
                  containers'[c].status = "absent" \/ containers'[c].key # k
            /\ req[r].op = "delete" => disk'[k] = disk[k]]_vars
  BY DeletedStep DEF SerialInv
<1> QED
  BY <1>1, SerialInvHolds, PTL DEF SerialSpec, DeletedIsGone

-----------------------------------------------------------------------------
(* ReturnedUnchanged.                                                      *)

LEMMA ReturnedStep ==
    ASSUME SerialInv, [SerialNext]_vars, NEW r \in Requests,
           req[r].op = "create", req'[r] # req[r], req'[r].reply # "lost",
           NEW c \in LiveOf(req[r].key) \ {req[r].target}
    PROVE  containers'[c] = containers[c] /\ disk' = disk
<1>0. Typed /\ InFlight(r) /\ Owner(r, WriterOps) /\ req[r].op \in WriterOps
      /\ c \in Containers /\ ~NoneLive(r)
  BY DEF SerialInv, HoldInv, OwnerInv, Typed, OpMatchesPC, InFlight, WriterOps, CreateOps,
     LiveOf, NoneLive
<1>1. Handle(r)
  <2>1. ASSUME NEW s \in Requests, Handle(s) PROVE s = r
    BY <1>0, <2>1, HandleTyped DEF Moves, Others
  <2>2. ASSUME NEW s \in Requests, Receive(s) PROVE FALSE
    <3>1. req[s].pc = "idle"
      BY <2>2 DEF Receive, ReceiveCreate, ReceiveNamed, ReceiveList
    <3> QED
      BY <1>0, <2>2, <3>1, ReceiveStep DEF Others, InFlight
  <2>3. CASE Crash
    BY <1>0, <2>3 DEF Crash, Idle
  <2> QED
    BY <2>1, <2>2, <2>3 DEF SerialNext, vars
<1>2. req[r].pc \notin BuildPCs \cup {"purge", "stop", "remove"}
  BY <1>0 DEF Owner, Typed, OpMatchesPC, DeleteOps
<1>3. UNCHANGED disk
  BY <1>1, <1>2 DEF Handle, FindAgentContainer, StopContainer, RemoveContainer,
     RestartContainer, EnsureDirs, InstallTools, WriteAgentYAML, InstallSkills,
     ContainerCreate, ContainerStart, CleanupStart, InspectCreated, PurgeData, GetArchived,
     InspectStatus, ContainerLogs, ListManagedContainers, ReadDataDir, StatDir, At, BuildPCs
<1>4. ~Makes(r, c)
  BY DEF Makes, FreshIds, LiveOf
<1>5. containers'[c] = containers[c]
  BY <1>0, <1>1, <1>4, HandleTouches DEF SerialInv, HoldInv, Touches
<1> QED
  BY <1>3, <1>5

(* A Create without force leaves every container it finds, and the data    *)
(* under it, alone: only the one it made itself does it act on.            *)
THEOREM ReturnedUnchangedHolds == SerialSpec => ReturnedUnchanged
<1>1. SerialInv /\ [SerialNext]_vars =>
      [\A r \in Requests :
         req[r].op = "create" /\ req'[r] # req[r] /\ req'[r].reply # "lost" =>
            \A c \in LiveOf(req[r].key) \ {req[r].target} :
               containers'[c] = containers[c] /\ disk' = disk]_vars
  BY ReturnedStep
<1> QED
  BY <1>1, SerialInvHolds, PTL DEF SerialSpec, ReturnedUnchanged

-----------------------------------------------------------------------------
(* CreatedIsDeployed: what the data says too.                              *)

DeployedInv == HoldInv /\ DataInv

LEMMA DeployedInvHolds ==
    ASSUME EmptyKey \notin LookupKeys
    PROVE  SerialSpec => []DeployedInv
<1>1. Init => DeployedInv
  BY InitHoldInv, InitDataInv DEF DeployedInv
<1>2. DeployedInv /\ [SerialNext]_vars => DeployedInv'
  BY HoldInvStep, SerialDataStep, SerialIsNext DEF DeployedInv
<1> QED
  BY <1>1, <1>2, PTL DEF SerialSpec

(* Only the inspect call that ends a Create answers 201.                   *)
LEMMA CreatedAtInspect ==
    ASSUME Typed, NEW r \in Requests, req[r].reply # "created", Handle(r),
           req'[r].reply = "created"
    PROVE  InspectCreated(r) /\ Answer(r, "created")
<1>1. ASSUME NEW pc \in PCs, Goto(r, pc) PROVE FALSE
  BY <1>1, GotoEffect DEF Typed, SameRequest
<1>2. ASSUME NEW c \in Containers, NEW pc \in PCs, Hold(r, c, pc) PROVE FALSE
  BY <1>2, HoldEffect DEF Typed, SameRequest
<1>3. ASSUME NEW reply \in Replies, Answer(r, reply) PROVE reply = "created"
  BY <1>3, AnswerReply DEF Typed
<1>4. CASE FindAgentContainer(r)
  <2>1. CASE OnMissing(r)
    BY <1>1, <1>3, <2>1 DEF OnMissing, PCs, Replies
  <2>2. ASSUME NEW c \in LiveOf(req[r].key), OnFound(r, c) PROVE FALSE
    BY <1>2, <1>3, <2>2 DEF OnFound, PCs, Replies, LiveOf
  <2> QED
    BY <1>3, <1>4, <2>1, <2>2 DEF FindAgentContainer, Replies
<1>5. CASE StopContainer(r) \/ RemoveContainer(r) \/ RestartContainer(r)
  BY <1>1, <1>3, <1>5 DEF StopContainer, RemoveContainer, AfterRemove, RestartContainer,
     PCs, Replies
<1>6. CASE EnsureDirs(r) \/ InstallTools(r) \/ WriteAgentYAML(r) \/ InstallSkills(r)
  BY <1>1, <1>3, <1>6 DEF EnsureDirs, InstallTools, WriteAgentYAML, InstallSkills,
     PCs, Replies
<1>7. CASE ContainerCreate(r)
  BY <1>2, <1>3, <1>7 DEF ContainerCreate, FreshIds, PCs, Replies
<1>8. CASE ContainerStart(r) \/ CleanupStart(r) \/ PurgeData(r)
  BY <1>1, <1>3, <1>8 DEF ContainerStart, CleanupStart, PurgeData, PCs, Replies
<1>9. CASE GetArchived(r) \/ InspectStatus(r) \/ ContainerLogs(r)
  BY <1>3, <1>9 DEF GetArchived, InspectStatus, ContainerLogs, Replies
<1>10. CASE ListManagedContainers(r) \/ ReadDataDir(r) \/ StatDir(r)
  BY <1>10, ListReply DEF Typed
<1>11. CASE InspectCreated(r)
  BY <1>3, <1>11 DEF InspectCreated, Replies
<1> QED
  BY <1>4, <1>5, <1>6, <1>7, <1>8, <1>9, <1>10, <1>11 DEF Handle

LEMMA CreatedStep ==
    ASSUME DeployedInv, [SerialNext]_vars, NEW r \in Requests,
           req[r].reply # "created", req'[r].reply = "created"
    PROVE  /\ LiveOf(req[r].key) = {req[r].target}
           /\ containers[req[r].target].status = "running"
           /\ disk[req[r].key] = Installed(req[r].graph)
<1>0. Typed /\ Singleton /\ DataIntact /\ HoldOwn(r)
  BY DEF DeployedInv, HoldInv, DataInv, OwnerInv
<1>1. Handle(r)
  <2>1. ASSUME NEW s \in Requests, Receive(s) PROVE FALSE
    BY <1>0, <2>1, ReceiveStep DEF Others
  <2>2. ASSUME Crash PROVE FALSE
    BY <2>2 DEF Crash, Idle
  <2>3. ASSUME NEW s \in Requests, Handle(s) PROVE s = r
    BY <1>0, <2>3, HandleTyped DEF Moves, Others
  <2> QED
    BY <2>1, <2>2, <2>3 DEF SerialNext, vars
<1>2. At(r, "inspect") /\ containers[req[r].target].status = "running"
  <2>1. InspectCreated(r) /\ Answer(r, "created")
    BY <1>0, <1>1, CreatedAtInspect
  <2>2. ~Answer(r, "error")
    BY <1>0, AnswerReply DEF Replies, Typed
  <2> QED
    BY <2>1, <2>2 DEF InspectCreated
<1>3. /\ req[r].target \in Containers /\ Live(req[r].target)
      /\ containers[req[r].target].key = req[r].key
      /\ containers[req[r].target].root = req[r].graph
  BY <1>0, <1>2 DEF At, Typed, OpMatchesPC, HoldOwn, HoldPCs, LaunchPCs, Live
<1>4. LiveOf(req[r].key) = {req[r].target}
  BY <1>0, <1>3 DEF LiveOf, Singleton
<1> QED
  BY <1>0, <1>2, <1>3, <1>4 DEF DataIntact

(* When writers of a key do not overlap and no name is empty, a 201 is     *)
(* about a running container that is the only one of its key, over the     *)
(* complete data of the graph that was posted.                             *)
THEOREM CreatedIsDeployedHolds ==
    ASSUME EmptyKey \notin LookupKeys
    PROVE  SerialSpec => CreatedIsDeployed
<1>1. DeployedInv /\ [SerialNext]_vars =>
      [\A r \in Requests :
         req[r].reply # "created" /\ req'[r].reply = "created" =>
            LET c == req[r].target  k == req[r].key IN
            /\ LiveOf(k) = {c}
            /\ containers[c].status = "running"
            /\ disk[k] = Installed(req[r].graph)]_vars
  BY CreatedStep
<1> QED
  BY <1>1, DeployedInvHolds, PTL DEF SerialSpec, CreatedIsDeployed

(* A live container's data holds its agents.yaml.                          *)
LEMMA LiveHasDoc ==
    ASSUME DeployedInv, NEW c \in Containers, Live(c)
    PROVE  containers[c].key \in Keys /\ HasDoc(containers[c].key)
<1>1. /\ containers[c].key \in Keys /\ containers[c].root \in Graphs
      /\ disk[containers[c].key] = Installed(containers[c].root)
  BY DEF DeployedInv, HoldInv, Typed, LabelsSet, DataInv, DataIntact
<1> QED
  BY <1>1, GraphsAssumption DEF HasDoc, Installed

-----------------------------------------------------------------------------
(* OnlyOwnDeployment, of requests that overlap at will.                    *)

LEMMA OwnKeyData ==
    ASSUME EmptyKey \notin LookupKeys, Typed, NEW r \in Requests, Handle(r),
           NEW k \in Keys, disk'[k] # disk[k]
    PROVE  req[r].key = k
<1>1. CASE EnsureDirs(r) \/ InstallTools(r) \/ WriteAgentYAML(r) \/ InstallSkills(r)
  BY <1>1, EnsureDirsStep, InstallToolsStep, WriteAgentYAMLStep, InstallSkillsStep
     DEF OwnData
<1>2. CASE PurgeData(r)
  <2>1. req[r].key # EmptyKey
    BY <1>2 DEF PurgeData, At, Typed, OpMatchesPC, NamedOps, DeleteOps
  <2> QED
    BY <1>2, <2>1, PurgeStep DEF DataUnder
<1>3. CASE UNCHANGED disk
  BY <1>3
<1> QED
  BY <1>1, <1>2, <1>3
     DEF Handle, FindAgentContainer, StopContainer, RemoveContainer, RestartContainer,
         ContainerCreate, ContainerStart, CleanupStart, InspectCreated, GetArchived,
         InspectStatus, ContainerLogs, ListManagedContainers, ReadDataDir, StatDir

LEMMA OwnKeyContainer ==
    ASSUME HoldInv, NEW r \in Requests, Handle(r), NEW k \in Keys, NEW c \in Containers,
           containers'[c] # containers[c], k \in {containers[c].key, containers'[c].key}
    PROVE  req[r].key = k
<1>0. Typed /\ GoneIsAbsent /\ HoldOwn(r) /\ k # EmptyKey
  BY KeysAssumption DEF HoldInv
<1>1. CASE Makes(r, c)
  BY <1>0, <1>1 DEF Makes, FreshIds, With, NewContainer, GoneIsAbsent, Absent, Typed, TypeOK
<1>2. CASE req[r].pc \in HoldPCs \cup LaunchPCs /\ Touches(req[r].target)
  BY <1>0, <1>2 DEF Touches, HoldOwn
<1> QED
  BY <1>0, <1>1, <1>2, HandleTouches

(* Requests that overlap at will, fail and crash still only ever change the*)
(* containers and the data of their own key, by an id they may have picked *)
(* long ago, as long as no name is empty (DataDir itself would be removed).*)
THEOREM OnlyOwnDeploymentHolds ==
    ASSUME EmptyKey \notin LookupKeys
    PROVE  Spec => OnlyOwnDeployment
<1>1. Init => HoldInv
  BY InitHoldInv
<1>2. HoldInv /\ [Next]_vars => HoldInv'
  BY HoldInvStep
<1>3. HoldInv /\ [Next]_vars =>
      [\A k \in Keys :
         \/ disk'[k] # disk[k]
         \/ \E c \in Containers : /\ containers'[c] # containers[c]
                                 /\ k \in {containers[c].key, containers'[c].key}
         => \E r \in Requests : req[r].key = k /\ req'[r] # req[r]]_vars
  <2> SUFFICES ASSUME HoldInv, Next, NEW k \in Keys,
                      \/ disk'[k] # disk[k]
                      \/ \E c \in Containers :
                            /\ containers'[c] # containers[c]
                            /\ k \in {containers[c].key, containers'[c].key}
               PROVE  \E r \in Requests : req[r].key = k /\ req'[r] # req[r]
    BY DEF vars
  <2>1. ~Crash /\ \A r \in Requests : ~Receive(r)
    BY DEF Crash, Receive, ReceiveCreate, ReceiveNamed, ReceiveList
  <2>2. PICK r \in Requests : Handle(r)
    BY <2>1 DEF Next
  <2>3. req'[r] # req[r]
    BY <2>2, HandleLeaves DEF HoldInv
  <2>4. req[r].key = k
    BY <2>2, OwnKeyData, OwnKeyContainer DEF HoldInv
  <2> QED
    BY <2>3, <2>4
<1> QED
  BY <1>1, <1>2, <1>3, PTL DEF Spec, OnlyOwnDeployment

-----------------------------------------------------------------------------
(* WriterNeverFails.                                                       *)

(* There are as many ids as a Create may find taken: one container for each*)
(* other key, and the ids handlers hold.                                   *)
EnoughIds ==
    /\ IsFiniteSet(Keys) /\ IsFiniteSet(Requests)
    /\ IsFiniteSet(Containers) =>
          Cardinality(Keys) + Cardinality(Requests) <= Cardinality(Containers)

LEMMA FreshIdLeft ==
    ASSUME EnoughIds, Typed, Singleton, NEW r \in Requests, req[r].key \in Keys, NoneLive(r)
    PROVE  FreshIds # {}
<1> SUFFICES ASSUME FreshIds = {} PROVE FALSE
  OBVIOUS
<1> DEFINE Standing == {c \in Containers : Live(c)}
<1> DEFINE Holders == {s \in Requests : req[s].target \in Containers}
<1> DEFINE Held == {req[s].target : s \in Holders}
<1> DEFINE OtherKeys == Keys \ {req[r].key}
<1>1. Containers = Standing \cup Held
  BY DEF FreshIds
<1>2. IsFiniteSet(Standing) /\ Cardinality(Standing) <= Cardinality(OtherKeys)
  <2> DEFINE f == [c \in Standing |-> containers[c].key]
  <2>1. f \in [Standing -> OtherKeys]
    BY DEF NoneLive, Typed, LabelsSet
  <2>2. f \in Injection(Standing, OtherKeys)
    BY <2>1 DEF Singleton, Injection, IsInjective
  <2>3. IsFiniteSet(OtherKeys)
    BY FS_RemoveElement DEF EnoughIds
  <2> QED
    BY <2>2, <2>3, FS_Injection
<1>3. /\ Cardinality(OtherKeys) = Cardinality(Keys) - 1
      /\ Cardinality(Keys) \in Nat /\ Cardinality(Requests) \in Nat
  BY FS_RemoveElement, FS_CardinalityType DEF EnoughIds
<1>4. IsFiniteSet(Holders) /\ Cardinality(Holders) <= Cardinality(Requests)
  BY FS_Subset DEF EnoughIds
<1>5. IsFiniteSet(Held) /\ Cardinality(Held) <= Cardinality(Holders)
  <2> DEFINE g == [s \in Holders |-> req[s].target]
  <2>1. g \in Surjection(Holders, Held)
    BY DEF Surjection
  <2> QED
    BY <1>4, <2>1, FS_Surjection
<1>6. /\ IsFiniteSet(Containers)
      /\ Cardinality(Containers) =
           Cardinality(Standing) + Cardinality(Held) - Cardinality(Standing \cap Held)
  BY <1>1, <1>2, <1>5, FS_Union
<1>7. /\ Cardinality(Standing) \in Nat /\ Cardinality(Held) \in Nat
      /\ Cardinality(Holders) \in Nat /\ Cardinality(Standing \cap Held) \in Nat
      /\ Cardinality(Containers) \in Nat
  BY <1>2, <1>4, <1>5, <1>6, FS_CardinalityType, FS_Intersection
<1> HIDE DEF Standing, Holders, Held, OtherKeys
<1> QED
  BY <1>2, <1>3, <1>4, <1>5, <1>6, <1>7 DEF EnoughIds

(* The container a writer works on is there when its next call is made.    *)
Sound(r) ==
    LET c == req[r].target IN
    /\ req[r].pc # "cleanup"
    /\ req[r].pc \in {"stop", "remove", "containerStart", "inspect"} => Live(c)
    /\ req[r].pc = "inspect" => containers[c].status = "running"

FaultlessInv ==
    /\ DeployedInv
    /\ \A r \in Requests :
          /\ req[r].op # "stop"
          /\ req[r].op \in WriterOps => Sound(r)

LEMMA NoErrorOwn ==
    ASSUME ~Faults, EnoughIds, DeployedInv, NEW r \in Requests, req[r].op \in WriterOps,
           Sound(r), Handle(r)
    PROVE  req'[r].reply # "error" /\ (req'[r].pc = "idle" \/ Sound(r)')
<1>0. /\ Typed /\ Typed' /\ DataProgress(r) /\ Owner(r, WriterOps) /\ Singleton
      /\ req[r].reply = "none" /\ req[r].op # "stop"
  BY HandleTyped, HandleInFlight
     DEF DeployedInv, HoldInv, DataInv, OwnerInv, Waiting, WriterOps, CreateOps, DeleteOps
<1>1. ASSUME NEW pc \in PCs, Goto(r, pc)
      PROVE  req'[r].reply = "none" /\ req'[r].pc = pc /\ req'[r].target = req[r].target
  BY <1>0, <1>1, GotoEffect DEF Typed, SameRequest
<1>2. ASSUME NEW c \in Containers, NEW pc \in PCs, Hold(r, c, pc)
      PROVE  req'[r].reply = "none" /\ req'[r].pc = pc /\ req'[r].target = c
  BY <1>0, <1>2, HoldEffect DEF Typed, SameRequest
<1>3. ASSUME NEW reply \in Replies, Answer(r, reply)
      PROVE  req'[r].reply = reply /\ req'[r].pc = "idle"
  BY <1>0, <1>3, AnswerReply DEF Typed
<1>4. CASE FindAgentContainer(r)
  <2>1. CASE OnMissing(r)
    BY <1>1, <1>3, <2>1 DEF OnMissing, PCs, Replies, Sound
  <2>2. ASSUME NEW c \in LiveOf(req[r].key), OnFound(r, c)
        PROVE  req'[r].reply # "error" /\ (req'[r].pc = "idle" \/ Sound(r)')
    <3>1. c \in Containers /\ Live(c)'
      BY <1>4 DEF LiveOf, FindAgentContainer, Live
    <3>2. req[r].op \notin {"restart", "status", "logs"}
      BY DEF WriterOps, CreateOps, DeleteOps
    <3>3. CASE Hold(r, c, "stop")
      BY <1>2, <3>1, <3>3 DEF PCs, Sound, Live
    <3>4. CASE Answer(r, "existing") \/ Answer(r, "container")
      BY <1>3, <3>4 DEF Replies
    <3> QED
      BY <2>2, <3>2, <3>3, <3>4 DEF OnFound
  <2> QED
    BY <1>4, <2>1, <2>2 DEF FindAgentContainer
<1>5. CASE StopContainer(r)
  <2>1. Live(req[r].target) /\ req[r].target \in Containers
    BY <1>0, <1>5 DEF Sound, StopContainer, At, Typed, OpMatchesPC, HoldPCs
  <2>2. containers' = Stopped(req[r].target) /\ Goto(r, "remove")
    BY <1>0, <1>5, <2>1 DEF StopContainer
  <2>3. containers'[req[r].target].status # "absent"
    BY <1>0, <2>1, <2>2 DEF Stopped, With, Live, Typed, TypeOK, Container
  <2> QED
    BY <1>1, <2>2, <2>3 DEF PCs, Sound, Live
<1>6. CASE RemoveContainer(r)
  <2>1. Live(req[r].target)
    BY <1>6 DEF Sound, RemoveContainer, At
  <2> QED
    BY <1>1, <1>3, <1>6, <2>1 DEF RemoveContainer, AfterRemove, PCs, Replies, Sound
<1>7. CASE EnsureDirs(r) \/ InstallTools(r) \/ WriteAgentYAML(r) \/ InstallSkills(r)
  BY <1>1, <1>7 DEF EnsureDirs, InstallTools, WriteAgentYAML, InstallSkills, PCs, Sound
<1>8. CASE ContainerCreate(r)
  <2>1. req[r].key \in Keys /\ NoneLive(r) /\ CanMount(req[r].key)
    BY <1>0, <1>8, BuildKey
       DEF ContainerCreate, At, BuildPCs, Owner, DataProgress, CanMount
  <2>2. PICK c \in FreshIds : containers' = With(c, NewContainer(r)) /\ Hold(r, c, "containerStart")
    BY <1>0, <1>8, <2>1, FreshIdLeft DEF ContainerCreate
  <2>3. c \in Containers /\ containers'[c].status = "created"
    BY <1>0, <2>2 DEF FreshIds, With, NewContainer, Typed, TypeOK
  <2> QED
    BY <1>2, <2>2, <2>3 DEF PCs, Sound, Live
<1>9. CASE ContainerStart(r)
  <2>1. Live(req[r].target) /\ req[r].target \in Containers
    BY <1>0, <1>9 DEF Sound, ContainerStart, At, Typed, OpMatchesPC, LaunchPCs
  <2>2. containers' = Started(req[r].target) /\ Goto(r, "inspect")
    BY <1>9, <2>1 DEF ContainerStart
  <2>3. containers'[req[r].target].status = "running"
    BY <1>0, <2>1, <2>2 DEF Started, With, Live, Typed, TypeOK, Container
  <2> QED
    BY <1>1, <2>2, <2>3 DEF PCs, Sound, Live
<1>10. CASE CleanupStart(r)
  BY <1>10 DEF CleanupStart, Sound, At
<1>11. CASE InspectCreated(r) \/ PurgeData(r)
  BY <1>3, <1>11 DEF InspectCreated, PurgeData, Sound, At, Replies
<1>12. CASE GetArchived(r) \/ InspectStatus(r) \/ ContainerLogs(r) \/ RestartContainer(r)
  BY <1>0, <1>12 DEF GetArchived, InspectStatus, ContainerLogs, RestartContainer, At,
     Typed, OpMatchesPC, WriterOps, CreateOps, DeleteOps
<1>13. CASE ListManagedContainers(r) \/ ReadDataDir(r) \/ StatDir(r)
  <2>1. req'[r].pc \in {"idle", "listDirs", "statDirs"}
    BY <1>0, <1>13, QueryStep
  <2>2. req'[r].reply # "error"
    BY <1>0, <1>13, ListReply
  <2> QED
    BY <2>1, <2>2 DEF Sound
<1> QED
  BY <1>4, <1>5, <1>6, <1>7, <1>8, <1>9, <1>10, <1>11, <1>12, <1>13 DEF Handle

(* Other requests leave a writer's container alone, but for a restart.     *)
LEMMA OthersSound ==
    ASSUME ~Faults, FaultlessInv, NEW r \in Requests, req[r].op \in WriterOps,
           NEW s \in Requests, s # r, Handle(s)
    PROVE  Sound(r)'
<1> DEFINE c == req[r].target
<1>0. /\ Typed /\ GoneIsAbsent /\ Exclusive(WriterOps) /\ Sound(r) /\ HoldOwn(r)
      /\ HoldOwn(s) /\ req[s].op # "stop" /\ InFlight(r) /\ InFlight(s)
  BY HandleInFlight
     DEF FaultlessInv, DeployedInv, HoldInv, DataInv, OwnerInv, Typed, OpMatchesPC,
         InFlight, WriterOps, CreateOps, DeleteOps
<1>1. req'[r] = req[r]
  BY <1>0, HandleTyped DEF Moves, Others
<1>2. CASE req[r].pc \notin {"stop", "remove", "containerStart", "inspect"}
  BY <1>0, <1>1, <1>2 DEF Sound
<1>3. CASE req[r].pc \in {"stop", "remove", "containerStart", "inspect"}
  <2>1. c \in Containers /\ Live(c) /\ containers[c].key = req[r].key
    BY <1>0, <1>3 DEF Sound, HoldOwn, HoldPCs, LaunchPCs, Typed, OpMatchesPC
  <2>2. CASE containers'[c] = containers[c]
    BY <1>0, <1>1, <2>2 DEF Sound, Live
  <2>3. CASE containers'[c] # containers[c]
    <3>1. ~Makes(s, c)
      BY <2>1 DEF Makes, FreshIds
    <3>2. req[s].pc \in HoldPCs \cup LaunchPCs /\ req[s].target = c
      BY <1>0, <2>1, <2>3, <3>1, HandleTouches DEF Touches
    <3>3. req[s].op \notin WriterOps
      BY <1>0, <2>1, <3>2 DEF HoldOwn, Exclusive
    <3>4. req[s].pc \in {"restart", "status", "logs"}
      BY <1>0, <3>2, <3>3 DEF Typed, OpMatchesPC, HoldPCs, LaunchPCs, WriterOps,
         CreateOps, DeleteOps
    <3>5. RestartContainer(s)
      BY <2>3, <3>4 DEF Handle, FindAgentContainer, StopContainer, RemoveContainer,
         EnsureDirs, InstallTools, WriteAgentYAML, InstallSkills, ContainerCreate,
         ContainerStart, CleanupStart, InspectCreated, PurgeData, GetArchived,
         InspectStatus, ContainerLogs, ListManagedContainers, ReadDataDir, StatDir, At
    <3>6. containers' = Started(c)
      BY <2>1, <3>2, <3>5 DEF RestartContainer
    <3>7. containers'[c].status = "running"
      BY <1>0, <2>1, <3>6 DEF Started, With, Live, Typed, TypeOK, Container
    <3> QED
      BY <1>0, <1>1, <3>7 DEF Sound, Live
  <2> QED
    BY <2>2, <2>3
<1> QED
  BY <1>2, <1>3

LEMMA FaultlessHandle ==
    ASSUME ~Faults, EnoughIds, FaultlessInv, DeployedInv', NEW s \in Requests, Handle(s)
    PROVE  FaultlessInv'
<1>0. Typed /\ Typed' /\ Moves(s)
  BY HandleTyped DEF FaultlessInv, DeployedInv, HoldInv
<1>1. ASSUME NEW r \in Requests PROVE req'[r].op # "stop"
  BY <1>0 DEF FaultlessInv, Moves, Others, SameRequest, Typed, OpMatchesPC
<1>2. ASSUME NEW r \in Requests, req'[r].op \in WriterOps PROVE Sound(r)'
  <2>1. CASE r = s
    <3>1. req'[r].pc # "idle"
      BY <1>0, <1>2 DEF Typed, OpMatchesPC, WriterOps, CreateOps, DeleteOps
    <3>2. req[r].op \in WriterOps /\ Sound(r)
      BY <1>0, <1>2, <2>1, <3>1 DEF Moves, SameRequest, FaultlessInv
    <3> QED
      BY <2>1, <3>1, <3>2, NoErrorOwn DEF FaultlessInv
  <2>2. CASE r # s
    BY <1>0, <1>2, <2>2, OthersSound DEF Moves, Others
  <2> QED
    BY <2>1, <2>2
<1> QED
  BY <1>1, <1>2 DEF FaultlessInv

LEMMA FaultlessReceive ==
    ASSUME "stop" \notin Ops, FaultlessInv, DeployedInv', NEW s \in Requests, Receive(s)
    PROVE  FaultlessInv'
<1>1. /\ UNCHANGED <<containers, disk>> /\ Others(s)
      /\ req'[s].pc \in {"idle", "find", "listContainers"}
  BY ReceiveStep DEF FaultlessInv, DeployedInv, HoldInv
<1>2. req'[s].op # "stop"
  <2>1. req'[s].op \in Ops \cup {"none"}
    <3>1. ASSUME NEW op, NEW k, NEW g, NEW pc, Accept(s, op, k, g, pc)
          PROVE  req'[s].op = op
      <4>1. req'[s] = [Idle("none") EXCEPT !.pc = pc, !.op = op, !.key = k, !.graph = g]
        BY <3>1 DEF Accept, FaultlessInv, DeployedInv, HoldInv, Typed, TypeOK
      <4> QED
        BY <4>1 DEF Idle
    <3>2. ASSUME Answer(s, "rejected") PROVE req'[s].op = "none"
      BY <3>2 DEF Answer, Idle, FaultlessInv, DeployedInv, HoldInv, Typed, TypeOK
    <3>3. CASE ReceiveCreate(s)
      BY <3>1, <3>2, <3>3 DEF ReceiveCreate
    <3>4. CASE ReceiveNamed(s)
      BY <3>1, <3>4 DEF ReceiveNamed
    <3>5. CASE ReceiveList(s)
      BY <3>1, <3>5 DEF ReceiveList
    <3> QED
      BY <3>3, <3>4, <3>5 DEF Receive
  <2> QED
    BY <2>1
<1>3. ASSUME NEW r \in Requests
      PROVE  req'[r].op # "stop" /\ (req'[r].op \in WriterOps => Sound(r)')
  BY <1>1, <1>2 DEF Others, FaultlessInv, Sound, Live
<1> QED
  BY <1>3 DEF FaultlessInv

(* When no call fails, nobody stops containers, ids do not run out, writers*)
(* of a key do not overlap and no name is empty, no Create and no Delete   *)
(* fails: none ever finds in its way what an earlier one left behind, and  *)
(* none loses its container to another request between two of its calls.   *)
THEOREM WriterNeverFailsHolds ==
    ASSUME ~Faults, "stop" \notin Ops, EmptyKey \notin LookupKeys,
           IsFiniteSet(Keys), IsFiniteSet(Requests),
           IsFiniteSet(Containers) =>
              Cardinality(Keys) + Cardinality(Requests) <= Cardinality(Containers)
    PROVE  SerialSpec => WriterNeverFails
<1>0. EnoughIds
  BY DEF EnoughIds
<1>1. SerialSpec => []DeployedInv
  BY DeployedInvHolds
<1>2. Init => FaultlessInv
  <2> SUFFICES ASSUME Init PROVE FaultlessInv
    OBVIOUS
  <2>1. DeployedInv
    BY InitHoldInv, InitDataInv DEF DeployedInv
  <2>2. \A r \in Requests : req[r].op = "none"
    BY DEF Init, Idle
  <2>3. "none" \notin WriterOps
    BY DEF WriterOps, CreateOps, DeleteOps
  <2> QED
    BY <2>1, <2>2, <2>3 DEF FaultlessInv
<1>3. FaultlessInv /\ DeployedInv' /\ [SerialNext]_vars => FaultlessInv'
  <2> SUFFICES ASSUME FaultlessInv, DeployedInv', [SerialNext]_vars PROVE FaultlessInv'
    OBVIOUS
  <2>1. CASE UNCHANGED vars
    BY <2>1 DEF vars, FaultlessInv, Sound, Live
  <2>2. ~Crash
    BY DEF Crash
  <2> QED
    BY <1>0, <2>1, <2>2, FaultlessHandle, FaultlessReceive DEF SerialNext
<1>4. FaultlessInv /\ [SerialNext]_vars =>
      [\A r \in Requests :
         req[r].op \in WriterOps => req'[r].reply # "error"]_vars
  <2> SUFFICES ASSUME FaultlessInv, [SerialNext]_vars, NEW r \in Requests,
                      req[r].op \in WriterOps, req'[r].reply = "error"
               PROVE  FALSE
    OBVIOUS
  <2>1. InFlight(r)
    BY DEF FaultlessInv, DeployedInv, HoldInv, Typed, OpMatchesPC, InFlight, WriterOps,
       CreateOps, DeleteOps
  <2>2. Handle(r)
    BY <2>1, OwnAnswer, SerialIsNext DEF FaultlessInv, DeployedInv
  <2> QED
    BY <1>0, <2>2, NoErrorOwn DEF FaultlessInv
<1> QED
  BY <1>1, <1>2, <1>3, <1>4, PTL DEF SerialSpec, WriterNeverFails

-----------------------------------------------------------------------------
(* DeleteIdempotent.                                                       *)

(* The container a Delete has found is there until it removes it.          *)
DeleteSound(r) ==
    req[r].op \in DeleteOps /\ req[r].pc \in {"stop", "remove"} => Live(req[r].target)

DeleteInv == SerialInv /\ \A r \in Requests : DeleteSound(r)

LEMMA DeleteOwn ==
    ASSUME ~Faults, SerialInv, NEW r \in Requests, req[r].op \in DeleteOps,
           DeleteSound(r), Handle(r)
    PROVE  req'[r].reply # "error" /\ DeleteSound(r)'
<1>0. /\ Typed /\ Typed' /\ req[r].reply = "none" /\ req[r].op \notin CreateOps
      /\ req[r].op \notin {"stop", "restart", "status", "logs", "get"}
  BY HandleTyped, HandleInFlight DEF SerialInv, HoldInv, Waiting, CreateOps, DeleteOps
<1>1. ASSUME NEW pc \in PCs, Goto(r, pc)
      PROVE  req'[r].reply = "none" /\ req'[r].pc = pc /\ req'[r].target = req[r].target
  BY <1>0, <1>1, GotoEffect DEF Typed, SameRequest
<1>2. ASSUME NEW c \in Containers, NEW pc \in PCs, Hold(r, c, pc)
      PROVE  req'[r].reply = "none" /\ req'[r].pc = pc /\ req'[r].target = c
  BY <1>0, <1>2, HoldEffect DEF Typed, SameRequest
<1>3. ASSUME NEW reply \in Replies, Answer(r, reply)
      PROVE  req'[r].reply = reply /\ req'[r].pc = "idle"
  BY <1>0, <1>3, AnswerReply DEF Typed
<1>4. CASE FindAgentContainer(r)
  <2>1. CASE OnMissing(r)
    BY <1>0, <1>1, <1>3, <2>1 DEF OnMissing, PCs, Replies, DeleteSound
  <2>2. ASSUME NEW c \in LiveOf(req[r].key), OnFound(r, c)
        PROVE  req'[r].reply # "error" /\ DeleteSound(r)'
    <3>1. c \in Containers /\ Live(c)'
      BY <1>4 DEF LiveOf, FindAgentContainer, Live
    <3>2. Hold(r, c, "stop")
      BY <1>0, <2>2 DEF OnFound, CreateOps
    <3> QED
      BY <1>2, <3>1, <3>2 DEF PCs, DeleteSound, Live
  <2> QED
    BY <1>4, <2>1, <2>2 DEF FindAgentContainer
<1>5. CASE StopContainer(r)
  <2>1. Live(req[r].target) /\ req[r].target \in Containers
    BY <1>0, <1>5 DEF DeleteSound, StopContainer, At, Typed, OpMatchesPC, HoldPCs
  <2>2. containers' = Stopped(req[r].target) /\ Goto(r, "remove")
    BY <1>0, <1>5, <2>1 DEF StopContainer
  <2>3. containers'[req[r].target].status # "absent"
    BY <1>0, <2>1, <2>2 DEF Stopped, With, Live, Typed, TypeOK, Container
  <2> QED
    BY <1>1, <2>2, <2>3 DEF PCs, DeleteSound, Live
<1>6. CASE RemoveContainer(r)
  <2>1. Live(req[r].target)
    BY <1>6 DEF DeleteSound, RemoveContainer, At
  <2> QED
    BY <1>0, <1>1, <1>3, <1>6, <2>1
       DEF RemoveContainer, AfterRemove, PCs, Replies, DeleteSound, CreateOps
<1>7. CASE PurgeData(r)
  BY <1>3, <1>7 DEF PurgeData, Replies, DeleteSound
<1>8. CASE \/ EnsureDirs(r) \/ InstallTools(r) \/ WriteAgentYAML(r) \/ InstallSkills(r)
           \/ ContainerCreate(r) \/ ContainerStart(r) \/ CleanupStart(r) \/ InspectCreated(r)
           \/ GetArchived(r) \/ InspectStatus(r) \/ ContainerLogs(r) \/ RestartContainer(r)
  <2>1. OpMatchesPC(r) /\ req[r].op \in WriterOps /\ req[r].op # "get"
    BY <1>0 DEF Typed, WriterOps
  <2>2. req[r].pc \in BuildPCs \cup LaunchPCs \cup {"stat", "restart", "status", "logs"}
    BY <1>8 DEF EnsureDirs, InstallTools, WriteAgentYAML, InstallSkills,
       ContainerCreate, ContainerStart, CleanupStart, InspectCreated, GetArchived,
       InspectStatus, ContainerLogs, RestartContainer, At, BuildPCs, LaunchPCs
  <2> QED
    BY <1>0, <2>1, <2>2 DEF OpMatchesPC
<1>9. CASE ListManagedContainers(r) \/ ReadDataDir(r) \/ StatDir(r)
  <2>1. req'[r].pc \in {"idle", "listDirs", "statDirs"}
    BY <1>0, <1>9, QueryStep
  <2>2. req'[r].reply # "error"
    BY <1>0, <1>9, ListReply
  <2> QED
    BY <2>1, <2>2 DEF DeleteSound
<1> QED
  BY <1>4, <1>5, <1>6, <1>7, <1>8, <1>9 DEF Handle

(* Only a writer removes a container, and only one of its own key.         *)
LEMMA DeleteOthers ==
    ASSUME SerialInv, NEW r \in Requests, DeleteSound(r), NEW s \in Requests, s # r, Handle(s)
    PROVE  DeleteSound(r)'
<1>0. /\ Typed /\ GoneIsAbsent /\ Exclusive(WriterOps) /\ HoldOwn(r) /\ HoldOwn(s)
      /\ InFlight(s)
  BY HandleInFlight DEF SerialInv, HoldInv, OwnerInv
<1>1. req'[r] = req[r]
  BY <1>0, HandleTyped DEF Moves, Others
<1> DEFINE c == req[r].target
<1> SUFFICES ASSUME req[r].op \in DeleteOps, req[r].pc \in {"stop", "remove"},
                    containers'[c].status = "absent"
             PROVE  FALSE
  BY <1>1 DEF DeleteSound, Live
<1>2. c \in Containers /\ Live(c) /\ containers[c].key = req[r].key /\ InFlight(r)
  BY <1>0 DEF DeleteSound, HoldOwn, HoldPCs, LaunchPCs, Typed, OpMatchesPC, InFlight
<1>3. containers'[c] # containers[c] /\ ~Makes(s, c)
  BY <1>2 DEF Live, Makes, FreshIds
<1>4. req[s].pc \in HoldPCs \cup LaunchPCs /\ req[s].target = c
  BY <1>0, <1>2, <1>3, HandleTouches DEF Touches
<1>5. req[s].op \notin WriterOps
  BY <1>0, <1>2, <1>4 DEF HoldOwn, Exclusive, WriterOps
<1>6. req[s].pc \in {"stop", "restart", "status", "logs"} /\ (At(s, "stop") => req[s].op = "stop")
  BY <1>0, <1>4, <1>5 DEF Typed, OpMatchesPC, HoldPCs, LaunchPCs, WriterOps,
     CreateOps, DeleteOps, At
<1>7. StopContainer(s) \/ RestartContainer(s)
  BY <1>3, <1>6 DEF Handle, FindAgentContainer, RemoveContainer,
     EnsureDirs, InstallTools, WriteAgentYAML, InstallSkills, ContainerCreate,
     ContainerStart, CleanupStart, InspectCreated, PurgeData, GetArchived,
     InspectStatus, ContainerLogs, ListManagedContainers, ReadDataDir, StatDir, At
<1>8. containers' \in {containers, Stopped(c), Started(c)}
  BY <1>4, <1>7 DEF StopContainer, RestartContainer
<1>9. containers'[c].status # "absent"
  BY <1>0, <1>2, <1>8 DEF Stopped, Started, With, Live, Typed, TypeOK, Container
<1> QED
  BY <1>9

(* The race of two Deletes is the only way for one to fail: while calls do *)
(* not fail and writers of a key do not overlap, every Delete is answered  *)
(* 200, whatever is stopped, restarted or read meanwhile, and any name.    *)
THEOREM DeleteIdempotentHolds ==
    ASSUME ~Faults
    PROVE  SerialSpec => DeleteIdempotent
<1>1. Init => DeleteInv
  <2> SUFFICES ASSUME Init PROVE DeleteInv
    OBVIOUS
  <2>1. SerialInv
    BY InitHoldInv, InitOwner DEF SerialInv
  <2>2. \A r \in Requests : DeleteSound(r)
    BY DEF Init, Idle, DeleteSound
  <2> QED
    BY <2>1, <2>2 DEF DeleteInv
<1>2. DeleteInv /\ SerialInv' /\ [SerialNext]_vars => DeleteInv'
  <2> SUFFICES ASSUME DeleteInv, SerialInv', [SerialNext]_vars, NEW r \in Requests
               PROVE  DeleteSound(r)'
    BY DEF DeleteInv
  <2>1. DeleteSound(r) /\ SerialInv /\ Typed
    BY DEF DeleteInv, SerialInv, HoldInv
  <2>2. CASE UNCHANGED vars
    BY <2>1, <2>2 DEF vars, DeleteSound, Live
  <2>3. ASSUME NEW s \in Requests, Receive(s) PROVE DeleteSound(r)'
    BY <2>1, <2>3, ReceiveStep DEF DeleteSound, Others, Live
  <2>4. ASSUME NEW s \in Requests, Handle(s) PROVE DeleteSound(r)'
    <3>1. CASE s # r
      BY <2>1, <2>4, <3>1, DeleteOthers
    <3>2. CASE s = r /\ req[r].op \in DeleteOps
      BY <2>1, <2>4, <3>2, DeleteOwn
    <3>3. CASE s = r /\ req[r].op \notin DeleteOps
      <4>1. Moves(r) /\ Typed'
        BY <2>1, <2>4, <3>3, HandleTyped
      <4> QED
        BY <3>3, <4>1 DEF Moves, SameRequest, DeleteSound
    <3> QED
      BY <3>1, <3>2, <3>3
  <2>5. ~Crash
    BY DEF Crash
  <2> QED
    BY <2>2, <2>3, <2>4, <2>5 DEF SerialNext
<1>3. DeleteInv /\ [SerialNext]_vars =>
      [\A r \in Requests :
         req[r].op \in DeleteOps => req'[r].reply # "error"]_vars
  <2> SUFFICES ASSUME DeleteInv, [SerialNext]_vars, NEW r \in Requests,
                      req[r].op \in DeleteOps, req'[r].reply = "error"
               PROVE  FALSE
    OBVIOUS
  <2>1. InFlight(r)
    BY DEF DeleteInv, SerialInv, HoldInv, Typed, OpMatchesPC, InFlight, DeleteOps
  <2>2. Handle(r)
    BY <2>1, OwnAnswer, SerialIsNext DEF DeleteInv, SerialInv
  <2> QED
    BY <2>2, DeleteOwn DEF DeleteInv
<1> QED
  BY <1>1, <1>2, <1>3, SerialInvHolds, PTL DEF SerialSpec, DeleteIdempotent
=============================================================================
