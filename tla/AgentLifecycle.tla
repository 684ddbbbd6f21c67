--------------------------- MODULE AgentLifecycle ---------------------------
(***************************************************************************)
(* The REST API of agent-deployer: each HTTP request runs one method of    *)
(* AgentService in a goroutine of its own, and the methods share, without  *)
(* any lock, the Docker daemon's containers and the data directories on    *)
(* disk.  One action below is one call a method makes on the daemon or on  *)
(* the disk, so that the calls of concurrent requests interleave.          *)
(*                                                                         *)
(* The daemon (external): a call either answers "ok" and has taken effect, *)
(* or answers an error with or without its effect (the connection is lost, *)
(* the client's context is cancelled).  It has no effect after its answer. *)
(***************************************************************************)
EXTENDS Naturals, FiniteSets

CONSTANTS
    Keys,         \* deployment keys a Create may carry (sanitized, not empty)
    EmptyKey,     \* "", what a name without a letter or digit sanitizes to
    LookupKeys,   \* what the :name of the other endpoints sanitizes to
    Graphs,       \* agent graphs (with their artifacts) a Create may carry
    NoGraph,
    Containers,   \* container ids
    NoContainer,
    Requests,     \* handler goroutines: at most so many requests at a time
    Ops,          \* the endpoints the clients of this instance call
    Faults        \* whether calls fail and the deployer crashes

CreateOps == {"create", "forceCreate"}               \* force: false, true
DeleteOps == {"delete", "purge"}                     \* purge: false, true
NamedOps  == DeleteOps \cup {"stop", "restart", "get", "status", "logs"}
ListOps   == {"list", "listArchived"}                \* includeArchived
WriterOps == CreateOps \cup DeleteOps

ASSUME KeysAssumption == EmptyKey \notin Keys
ASSUME LookupAssumption == LookupKeys \subseteq Keys \cup {EmptyKey}
ASSUME GraphsAssumption == NoGraph \notin Graphs
ASSUME ContainersAssumption == NoContainer \notin Containers
ASSUME OpsAssumption == Ops \subseteq CreateOps \cup NamedOps \cup ListOps
ASSUME FaultsAssumption == Faults \in BOOLEAN

VARIABLES
    containers,   \* the daemon's managed containers, by id
    disk,         \* what <DataDir>/<key> holds, by key
    req           \* the request each handler goroutine serves

vars == <<containers, disk, req>>

-----------------------------------------------------------------------------
(* Containers.  The labels hold the key and the root agent; root stands    *)
(* for the whole graph the container was created for.                      *)

Statuses == {"absent", "created", "running", "exited"}

Container == [status : Statuses, key : Keys \cup {EmptyKey},
              root : Graphs \cup {NoGraph}]

Absent == [status |-> "absent", key |-> EmptyKey, root |-> NoGraph]

Live(c) == containers[c].status # "absent"

(* Mutation: the list call leaves out stopped containers (All: false).     *)
LiveOf_RunningOnly(k) ==
    {c \in Containers : containers[c].status = "running" /\ containers[c].key = k}

(* Mutation: the label filter on the deployment key is dropped.            *)
LiveOf_AnyKey(k) == {c \in Containers : Live(c)}

LiveOf(k) == {c \in Containers : Live(c) /\ containers[c].key = k}

KeysOfLive == {containers[c].key : c \in {d \in Containers : Live(d)}}

(* An id is fresh when no container and no handler holds it: the daemon    *)
(* never hands out the same id twice.                                      *)
FreshIds == {c \in Containers : ~Live(c) /\ \A r \in Requests : req[r].target # c}

With(c, box) == [containers EXCEPT ![c] = box]

NewContainer(r) ==
    [status |-> "created", key |-> req[r].key, root |-> req[r].graph]

(* What a stop, a start and a removal do in the daemon.                    *)
Stopped(c) ==
    With(c, [containers[c] EXCEPT !.status = IF @ = "running" THEN "exited" ELSE @])

Started(c) ==
    With(c, [containers[c] EXCEPT !.status = IF @ = "absent" THEN @ ELSE "running"])

Removed(c) == With(c, Absent)

-----------------------------------------------------------------------------
(* The data of a deployment: its two directories, the graph agents.yaml    *)
(* declares, and the graph whose tools and whose skills are installed      *)
(* (NoGraph: none, or some of them are missing).                           *)

Dirs == {"agents", "sessions"}

Data == [dirs : SUBSET Dirs, tools : Graphs \cup {NoGraph},
         doc : Graphs \cup {NoGraph}, skills : Graphs \cup {NoGraph}]

NoData == [dirs |-> {}, tools |-> NoGraph, doc |-> NoGraph, skills |-> NoGraph]

(* Everything the container of a deployment of graph g is to find mounted. *)
Installed(g) == [dirs |-> Dirs, tools |-> g, doc |-> g, skills |-> g]

HasDoc(k) == disk[k].doc # NoGraph      \* <DataDir>/<key>/agents/agents.yaml

(* The deployments under filepath.Join(DataDir, key): DataDir itself, and  *)
(* so every deployment, when the key is empty.                             *)
DataUnder(k) == IF k = EmptyKey THEN Keys ELSE {k}

(* What an os.RemoveAll that fails, or a crash during it, can leave of d.  *)
Leftovers(d) ==
    {e \in [dirs : SUBSET d.dirs, tools : {d.tools, NoGraph},
            doc : {d.doc, NoGraph}, skills : {d.skills, NoGraph}] :
        "agents" \notin e.dirs =>
            e.tools = NoGraph /\ e.doc = NoGraph /\ e.skills = NoGraph}

-----------------------------------------------------------------------------
(* Requests.                                                               *)

Replies == {"none", "rejected", "created", "existing", "ok", "container",
            "archived", "listed", "notFound", "error", "lost"}

PCs == {"idle", "find", "stop", "remove", "ensureDirs", "tools", "writeDoc",
        "skills", "containerCreate", "containerStart", "cleanup", "inspect",
        "purge", "restart", "stat", "status", "logs", "listContainers",
        "listDirs", "statDirs"}

(* The calls that dereference what FindAgentContainer returned, and those  *)
(* that use the id ContainerCreate returned.                               *)
HoldPCs == {"stop", "remove", "restart", "status", "logs"}

LaunchPCs == {"containerStart", "cleanup", "inspect"}

(* left: the entries of DataDir that ListAgentDirs has still to stat.      *)
Request == [pc : PCs, op : CreateOps \cup NamedOps \cup ListOps \cup {"none"},
            key : Keys \cup {EmptyKey}, graph : Graphs \cup {NoGraph},
            target : Containers \cup {NoContainer}, seen : SUBSET Keys,
            left : SUBSET Keys, reply : Replies]

Idle(reply) ==
    [pc |-> "idle", op |-> "none", key |-> EmptyKey, graph |-> NoGraph,
     target |-> NoContainer, seen |-> {}, left |-> {}, reply |-> reply]

InFlight(r) == req[r].pc # "idle"

At(r, pc) == req[r].pc = pc

Goto(r, pc) == req' = [req EXCEPT ![r].pc = pc]

Answer(r, reply) == req' = [req EXCEPT ![r] = Idle(reply)]

Init ==
    /\ containers = [c \in Containers |-> Absent]
    /\ disk = [k \in Keys |-> NoData]
    /\ req = [r \in Requests |-> Idle("none")]

(* The types; and no handler acts on a container it does not have: Find    *)
(* returns nil for a key without one, which every method must test.        *)
TypeOK ==
    /\ containers \in [Containers -> Container]
    /\ disk \in [Keys -> Data]
    /\ req \in [Requests -> Request]
    /\ \A r \in Requests :
          req[r].pc \in HoldPCs \cup LaunchPCs => req[r].target \in Containers

-----------------------------------------------------------------------------
(* A request arrives.  Create's validation and the runtime image gate come *)
(* before any effect: a request they refuse is answered at once.           *)

Accept(r, op, k, g, pc) ==
    req' = [req EXCEPT ![r] = [Idle("none") EXCEPT
              !.pc = pc, !.op = op, !.key = k, !.graph = g]]

ReceiveCreate(r) ==
    /\ req[r].pc = "idle"
    /\ \E op \in Ops \cap CreateOps, k \in Keys, g \in Graphs :
          \/ Accept(r, op, k, g, "find")
          \/ Answer(r, "rejected")
    /\ UNCHANGED <<containers, disk>>

ReceiveNamed(r) ==
    /\ req[r].pc = "idle"
    /\ \E op \in Ops \cap NamedOps, k \in LookupKeys :
          Accept(r, op, k, NoGraph, "find")
    /\ UNCHANGED <<containers, disk>>

ReceiveList(r) ==
    /\ req[r].pc = "idle"
    /\ \E op \in Ops \cap ListOps :
          Accept(r, op, EmptyKey, NoGraph, "listContainers")
    /\ UNCHANGED <<containers, disk>>

Receive(r) == ReceiveCreate(r) \/ ReceiveNamed(r) \/ ReceiveList(r)

-----------------------------------------------------------------------------
(* FindAgentContainer and what each method does with its result.           *)

(* Mutation: Stop does not test for nil.                                   *)
OnMissing_NilStopped(r) ==
    \/ req[r].op \in CreateOps /\ Goto(r, "ensureDirs")
    \/ req[r].op = "delete" /\ Answer(r, "ok")
    \/ req[r].op = "purge" /\ Goto(r, "purge")
    \/ req[r].op = "get" /\ Goto(r, "stat")
    \/ req[r].op = "stop" /\ Goto(r, "stop")
    \/ req[r].op \in {"restart", "status", "logs"} /\ Answer(r, "notFound")

OnMissing(r) ==
    \/ req[r].op \in CreateOps /\ Goto(r, "ensureDirs")
    \/ req[r].op = "delete" /\ Answer(r, "ok")
    \/ req[r].op = "purge" /\ Goto(r, "purge")
    \/ req[r].op = "get" /\ Goto(r, "stat")
    \/ req[r].op \in {"stop", "restart", "status", "logs"} /\ Answer(r, "notFound")

Hold(r, c, pc) == req' = [req EXCEPT ![r].target = c, ![r].pc = pc]

(* Mutation: an exited container counts as missing for a plain Create.     *)
OnFound_ExitedIsMissing(r, c) ==
    \/ /\ req[r].op = "create"
       /\ IF containers[c].status = "running" THEN Answer(r, "existing")
                                              ELSE Goto(r, "ensureDirs")
    \/ req[r].op \in {"forceCreate", "delete", "purge", "stop"} /\ Hold(r, c, "stop")
    \/ req[r].op = "get" /\ Answer(r, "container")
    \/ req[r].op \in {"restart", "status", "logs"} /\ Hold(r, c, req[r].op)

OnFound(r, c) ==
    \/ req[r].op = "create" /\ Answer(r, "existing")
    \/ req[r].op \in {"forceCreate", "delete", "purge", "stop"} /\ Hold(r, c, "stop")
    \/ req[r].op = "get" /\ Answer(r, "container")
    \/ req[r].op \in {"restart", "status", "logs"} /\ Hold(r, c, req[r].op)

FindAgentContainer(r) ==
    /\ At(r, "find")
    /\ \/ LiveOf(req[r].key) = {} /\ OnMissing(r)
       \/ \E c \in LiveOf(req[r].key) : OnFound(r, c)
       \/ Faults /\ Answer(r, "error")
    /\ UNCHANGED <<containers, disk>>

-----------------------------------------------------------------------------
(* Calls on the held container.                                            *)

StopContainer(r) ==
    LET c == req[r].target IN
    /\ At(r, "stop")
    /\ \/ /\ Live(c)
          /\ containers' = Stopped(c)
          /\ IF req[r].op = "stop" THEN Answer(r, "ok") ELSE Goto(r, "remove")
       \/ /\ Faults \/ ~Live(c)
          /\ containers' \in {containers, Stopped(c)}
          /\ Answer(r, "error")
    /\ UNCHANGED disk

AfterRemove(r) ==
    \/ req[r].op = "forceCreate" /\ Goto(r, "ensureDirs")
    \/ req[r].op = "delete" /\ Answer(r, "ok")
    \/ req[r].op = "purge" /\ Goto(r, "purge")

RemoveContainer(r) ==
    LET c == req[r].target IN
    /\ At(r, "remove")
    /\ \/ Live(c) /\ containers' = Removed(c) /\ AfterRemove(r)
       \/ /\ Faults \/ ~Live(c)
          /\ containers' \in {containers, Removed(c)}
          /\ Answer(r, "error")
    /\ UNCHANGED disk

RestartContainer(r) ==
    LET c == req[r].target IN
    /\ At(r, "restart")
    /\ \/ Live(c) /\ containers' = Started(c) /\ Answer(r, "ok")
       \/ /\ Faults \/ ~Live(c)
          /\ containers' \in {containers, Stopped(c), Started(c)}
          /\ Answer(r, "error")
    /\ UNCHANGED disk

-----------------------------------------------------------------------------
(* Create, once it has found no container or removed the old one.          *)

SetData(k, d) == disk' = [disk EXCEPT ![k] = d]

(* Mutation: only the agents directory is created.                         *)
EnsureDirs_NoSessions(r) ==
    /\ At(r, "ensureDirs")
    /\ SetData(req[r].key, [disk[req[r].key] EXCEPT !.dirs = @ \cup {"agents"}])
    /\ Goto(r, "tools")
    /\ UNCHANGED containers

EnsureDirs(r) ==
    LET d == disk[req[r].key] IN
    /\ At(r, "ensureDirs")
    /\ \/ /\ SetData(req[r].key, [d EXCEPT !.dirs = Dirs])
          /\ Goto(r, "tools")
       \/ /\ Faults
          /\ \E made \in {{}, {"agents"}} :
                SetData(req[r].key, [d EXCEPT !.dirs = @ \cup made])
          /\ Answer(r, "error")
    /\ UNCHANGED containers

(* Mutation: the error of the tool installs is dropped.                    *)
InstallTools_ErrorDropped(r) ==
    LET d == disk[req[r].key] IN
    /\ At(r, "tools")
    /\ \E left \in {req[r].graph, d.tools, NoGraph} :
          SetData(req[r].key, [d EXCEPT !.dirs = @ \cup {"agents"}, !.tools = left])
    /\ Goto(r, "writeDoc")
    /\ UNCHANGED containers

(* An install that fails may already have replaced some of the artifacts.  *)
InstallTools(r) ==
    LET d == disk[req[r].key] IN
    /\ At(r, "tools")
    /\ \/ /\ SetData(req[r].key, [d EXCEPT !.dirs = @ \cup {"agents"},
                                           !.tools = req[r].graph])
          /\ Goto(r, "writeDoc")
       \/ /\ Faults
          /\ \E left \in {d.tools, NoGraph} :
                SetData(req[r].key, [d EXCEPT !.dirs = @ \cup {"agents"},
                                              !.tools = left])
          /\ Answer(r, "error")
    /\ UNCHANGED containers

(* WriteAgentYAML reports an error only before its rename.                 *)
WriteAgentYAML(r) ==
    LET d == disk[req[r].key] IN
    /\ At(r, "writeDoc")
    /\ \/ /\ SetData(req[r].key, [d EXCEPT !.dirs = @ \cup {"agents"},
                                           !.doc = req[r].graph])
          /\ Goto(r, "skills")
       \/ /\ Faults
          /\ SetData(req[r].key, [d EXCEPT !.dirs = @ \cup {"agents"}])
          /\ Answer(r, "error")
    /\ UNCHANGED containers

(* Mutation: the error of the skill installs is dropped.                   *)
InstallSkills_ErrorDropped(r) ==
    LET d == disk[req[r].key] IN
    /\ At(r, "skills")
    /\ \E left \in {req[r].graph, d.skills, NoGraph} :
          SetData(req[r].key, [d EXCEPT !.dirs = @ \cup {"agents"}, !.skills = left])
    /\ Goto(r, "containerCreate")
    /\ UNCHANGED containers

InstallSkills(r) ==
    LET d == disk[req[r].key] IN
    /\ At(r, "skills")
    /\ \/ /\ SetData(req[r].key, [d EXCEPT !.dirs = @ \cup {"agents"},
                                           !.skills = req[r].graph])
          /\ Goto(r, "containerCreate")
       \/ /\ Faults
          /\ \E left \in {d.skills, NoGraph} :
                SetData(req[r].key, [d EXCEPT !.dirs = @ \cup {"agents"},
                                              !.skills = left])
          /\ Answer(r, "error")
    /\ UNCHANGED containers

(* The daemon refuses a bind mount whose source does not exist.            *)
CanMount(k) == disk[k].dirs = Dirs

(* Mutation: the container is created and never started.                   *)
ContainerCreate_NotStarted(r) ==
    /\ At(r, "containerCreate")
    /\ CanMount(req[r].key)
    /\ \E c \in FreshIds :
          containers' = With(c, NewContainer(r)) /\ Hold(r, c, "inspect")
    /\ UNCHANGED disk

ContainerCreate(r) ==
    /\ At(r, "containerCreate")
    /\ \/ /\ CanMount(req[r].key)
          /\ \E c \in FreshIds :
                containers' = With(c, NewContainer(r)) /\ Hold(r, c, "containerStart")
       \/ /\ Faults \/ ~CanMount(req[r].key) \/ FreshIds = {}
          /\ \/ UNCHANGED containers
             \/ /\ CanMount(req[r].key)
                /\ \E c \in FreshIds : containers' = With(c, NewContainer(r))
          /\ Answer(r, "error")
    /\ UNCHANGED disk

ContainerStart(r) ==
    LET c == req[r].target IN
    /\ At(r, "containerStart")
    /\ \/ Live(c) /\ containers' = Started(c) /\ Goto(r, "inspect")
       \/ /\ Faults \/ ~Live(c)
          /\ containers' \in {containers, Started(c)}
          /\ Goto(r, "cleanup")
    /\ UNCHANGED disk

(* The clean-up call uses the request's context and its error is ignored.  *)
CleanupStart(r) ==
    LET c == req[r].target IN
    /\ At(r, "cleanup")
    /\ \/ containers' = Removed(c)
       \/ Faults /\ UNCHANGED containers
    /\ Answer(r, "error")
    /\ UNCHANGED disk

(* Only a running container has the host port binding Create looks for.    *)
InspectCreated(r) ==
    /\ At(r, "inspect")
    /\ \/ containers[req[r].target].status = "running" /\ Answer(r, "created")
       \/ /\ Faults \/ containers[req[r].target].status # "running"
          /\ Answer(r, "error")
    /\ UNCHANGED <<containers, disk>>

-----------------------------------------------------------------------------
(* Delete's purge: the error of RemoveAll is ignored.                      *)

Purged(k) == {NoData} \cup (IF Faults THEN Leftovers(disk[k]) ELSE {})

PurgeData(r) ==
    /\ At(r, "purge")
    /\ disk' \in {d \in [Keys -> UNION {{disk[k]} \cup Purged(k) : k \in Keys}] :
                     \A k \in Keys : IF k \in DataUnder(req[r].key)
                                    THEN d[k] \in Purged(k)
                                    ELSE d[k] = disk[k]}
    /\ Answer(r, "ok")
    /\ UNCHANGED containers

-----------------------------------------------------------------------------
(* The queries.                                                            *)

(* Exists is false for a document that is not there, and just as well for  *)
(* one that os.Stat fails to read.                                         *)
GetArchived(r) ==
    LET archived == req[r].key \in Keys /\ HasDoc(req[r].key) IN
    /\ At(r, "stat")
    /\ \/ archived /\ Answer(r, "archived")
       \/ (Faults \/ ~archived) /\ Answer(r, "notFound")
    /\ UNCHANGED <<containers, disk>>

(* GetStatus falls back on what Find returned when the inspect call fails. *)
InspectStatus(r) == At(r, "status") /\ Answer(r, "ok") /\ UNCHANGED <<containers, disk>>

ContainerLogs(r) ==
    /\ At(r, "logs")
    /\ \/ Live(req[r].target) /\ Answer(r, "ok")
       \/ (Faults \/ ~Live(req[r].target)) /\ Answer(r, "error")
    /\ UNCHANGED <<containers, disk>>

AnswerList(r, keys) ==
    req' = [req EXCEPT ![r] = [Idle("listed") EXCEPT !.seen = keys]]

ListManagedContainers(r) ==
    /\ At(r, "listContainers")
    /\ \/ req[r].op = "list" /\ AnswerList(r, KeysOfLive)
       \/ /\ req[r].op = "listArchived"
          /\ req' = [req EXCEPT ![r].seen = KeysOfLive, ![r].pc = "listDirs"]
       \/ Faults /\ Answer(r, "error")
    /\ UNCHANGED <<containers, disk>>

(* ListAgentDirs goes on to the next entry, or List answers after the last.*)
GoOn(r, seen, left) ==
    IF left = {} THEN AnswerList(r, seen)
    ELSE req' = [req EXCEPT ![r].seen = seen, ![r].left = left, ![r].pc = "statDirs"]

(* The directory of a deployment without data may be there or not.         *)
ReadDataDir(r) ==
    /\ At(r, "listDirs")
    /\ \/ \E left \in SUBSET Keys :
             {k \in Keys : disk[k] # NoData} \subseteq left /\ GoOn(r, req[r].seen, left)
       \/ Faults /\ Answer(r, "error")
    /\ UNCHANGED <<containers, disk>>

(* Mutation: an entry that cannot be read ends the scan.                   *)
StatDir_BreakOnError(r) ==
    /\ At(r, "statDirs")
    /\ \E k \in req[r].left :
          \/ HasDoc(k) /\ GoOn(r, req[r].seen \cup {k}, req[r].left \ {k})
          \/ ~HasDoc(k) /\ GoOn(r, req[r].seen, req[r].left \ {k})
          \/ Faults /\ GoOn(r, req[r].seen, {})
    /\ UNCHANGED <<containers, disk>>

(* One entry, in any order: its agents.yaml is there, or not, or the stat  *)
(* fails and the entry is skipped.                                         *)
StatDir(r) ==
    /\ At(r, "statDirs")
    /\ \E k \in req[r].left :
          \/ HasDoc(k) /\ GoOn(r, req[r].seen \cup {k}, req[r].left \ {k})
          \/ (Faults \/ ~HasDoc(k)) /\ GoOn(r, req[r].seen, req[r].left \ {k})
    /\ UNCHANGED <<containers, disk>>

-----------------------------------------------------------------------------
(* The deployer stops: its requests are lost, the daemon and the disk stay.*)
(* A crash inside an install, a write or a purge is that step's failure    *)
(* followed by the crash.                                                  *)
Crash ==
    /\ Faults
    /\ \E r \in Requests : InFlight(r)
    /\ req' = [r \in Requests |-> IF InFlight(r) THEN Idle("lost") ELSE req[r]]
    /\ UNCHANGED <<containers, disk>>

Handle(r) ==
    \/ FindAgentContainer(r)
    \/ StopContainer(r)
    \/ RemoveContainer(r)
    \/ RestartContainer(r)
    \/ EnsureDirs(r)
    \/ InstallTools(r)
    \/ WriteAgentYAML(r)
    \/ InstallSkills(r)
    \/ ContainerCreate(r)
    \/ ContainerStart(r)
    \/ CleanupStart(r)
    \/ InspectCreated(r)
    \/ PurgeData(r)
    \/ GetArchived(r)
    \/ InspectStatus(r)
    \/ ContainerLogs(r)
    \/ ListManagedContainers(r)
    \/ ReadDataDir(r)
    \/ StatDir(r)

Next == Crash \/ \E r \in Requests : Receive(r) \/ Handle(r)

Spec == Init /\ [][Next]_vars

(* Every call returns: the goroutines are scheduled and the daemon, the    *)
(* disk and the artifact servers answer.                                   *)
Fairness == \A r \in Requests : WF_vars(Handle(r))

FairSpec == Spec /\ Fairness

-----------------------------------------------------------------------------
(* The code serializes nothing.  What follows holds only of clients that   *)
(* do it themselves: they never have two Creates of one key in flight      *)
(* (SerialCreates), or no two of Create and Delete (SerialWriters).        *)

Exclusive(ops) ==
    \A r, s \in Requests :
        /\ r # s
        /\ InFlight(r) /\ req[r].op \in ops
        /\ InFlight(s) /\ req[s].op \in ops
        => req[r].key # req[s].key

SerialCreates == Exclusive(CreateOps)

SerialWriters == Exclusive(WriterOps)

SerialCreateNext ==
    Crash \/ \E r \in Requests : (Receive(r) /\ SerialCreates') \/ Handle(r)

SerialCreateSpec == Init /\ [][SerialCreateNext]_vars

SerialNext ==
    Crash \/ \E r \in Requests : (Receive(r) /\ SerialWriters') \/ Handle(r)

SerialSpec == Init /\ [][SerialNext]_vars

FairSerialSpec == SerialSpec /\ Fairness

-----------------------------------------------------------------------------
(* Safety.                                                                 *)

(* At most one container exists per deployment key ("one instance per      *)
(* deployment name"): no order of creates, forced rebuilds, deletes,       *)
(* failed calls and crashes leaves a second one beside the first.          *)
Singleton ==
    \A c, d \in Containers :
        Live(c) /\ Live(d) /\ containers[c].key = containers[d].key => c = d

(* A container exists only over complete data: the directories it mounts   *)
(* hold the agents.yaml, the tools and the skills of the very graph its    *)
(* labels name.  A failed install never starts a container, a forced       *)
(* rebuild never rewrites the data under the old one, and a purge never    *)
(* takes the data from under a container.                                  *)
DataIntact ==
    \A c \in Containers :
        Live(c) => disk[containers[c].key] = Installed(containers[c].root)

(* When Create answers 201, its container is running, is the only one of   *)
(* its key, and the key's data is the graph that was posted.               *)
CreatedIsDeployed ==
    [][\A r \in Requests :
         req[r].reply # "created" /\ req'[r].reply = "created" =>
            LET c == req[r].target  k == req[r].key IN
            /\ LiveOf(k) = {c}
            /\ containers[c].status = "running"
            /\ disk[k] = Installed(req[r].graph)]_vars

(* When Delete answers 200 no container of the key is left, whichever      *)
(* container Find had picked, and the session data is still there unless   *)
(* the purge was asked for.                                                *)
DeletedIsGone ==
    [][\A r \in Requests :
         req[r].op \in DeleteOps /\ req'[r].reply = "ok" =>
            LET k == req[r].key IN
            /\ \A c \in Containers :
                  containers'[c].status = "absent" \/ containers'[c].key # k
            /\ req[r].op = "delete" => disk'[k] = disk[k]]_vars

(* A step changes the containers or the data of a key only on behalf of a  *)
(* request on that key, and a container once picked by its id is acted on  *)
(* only while it still belongs to that key.                                *)
OnlyOwnDeployment ==
    [][\A k \in Keys :
         \/ disk'[k] # disk[k]
         \/ \E c \in Containers : /\ containers'[c] # containers[c]
                                 /\ k \in {containers[c].key, containers'[c].key}
         => \E r \in Requests : req[r].key = k /\ req'[r] # req[r]]_vars

(* While a key has a container that some other request's Create made, a    *)
(* Create without force leaves that container and the key's data alone.    *)
ReturnedUnchanged ==
    [][\A r \in Requests :
         req[r].op = "create" /\ req'[r] # req[r] /\ req'[r].reply # "lost" =>
            \A c \in LiveOf(req[r].key) \ {req[r].target} :
               containers'[c] = containers[c] /\ disk' = disk]_vars

(* Without faults, and while nobody stops containers, no Create and no     *)
(* Delete fails: what one of them leaves behind, on the daemon or on the   *)
(* disk, never makes a later one of the same key fail.                     *)
WriterNeverFails ==
    [][\A r \in Requests :
         req[r].op \in WriterOps => req'[r].reply # "error"]_vars

(* Two Deletes of a key, or a Delete of a key without a container, all     *)
(* answer 200 ("Delete is idempotent").                                    *)
DeleteIdempotent ==
    [][\A r \in Requests :
         req[r].op \in DeleteOps => req'[r].reply # "error"]_vars

(* An agents.yaml that no request is working on declares a graph whose     *)
(* tools and skills are installed ("Materialize the closure's artifacts    *)
(* before writing the YAML").                                              *)
ArtifactsBeforeDoc ==
    \A k \in Keys :
        HasDoc(k) /\ (\A r \in Requests : req[r].key # k)
            => disk[k] = Installed(disk[k].doc)

(* Deleting a name that has neither container nor data changes nothing.    *)
DeleteOfNothingIsNoOp ==
    [][\A r \in Requests :
         req[r].op \in DeleteOps /\ req[r].key = EmptyKey /\ req'[r] # req[r]
            => disk' = disk]_vars

-----------------------------------------------------------------------------
(* Liveness.                                                               *)

(* Without faults, and while nobody stops containers, a Create ends with a *)
(* container of its key: the one it made or the one that was there.        *)
CreateSucceeds ==
    \A r \in Requests : req[r].op \in CreateOps
                          ~> req[r].reply \in {"created", "existing"}
=============================================================================
