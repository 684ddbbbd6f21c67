------------------------ MODULE AgentLifecycleProofs ------------------------
(***************************************************************************)
(* Proofs about AgentLifecycle, for any number of keys, graphs, containers *)
(* and concurrent requests: the types; that clients that never overlap two *)
(* Creates of a key never see two containers of it; and that clients that  *)
(* do not overlap Creates and Deletes of a key never see a container whose *)
(* data is missing or not its own.                                         *)
(***************************************************************************)
EXTENDS AgentLifecycle, TLAPS

-----------------------------------------------------------------------------
(* What a handler's pc says of its request's op.                           *)

BuildPCs == {"ensureDirs", "tools", "writeDoc", "skills", "containerCreate"}

OpMatchesPC(r) ==
    /\ req[r].pc = "idle" => req[r].op = "none"
    /\ req[r].pc \in BuildPCs \cup LaunchPCs => req[r].op \in CreateOps
    /\ req[r].pc = "stop" => req[r].op \in {"forceCreate", "stop"} \cup DeleteOps
    /\ req[r].pc = "remove" => req[r].op \in {"forceCreate"} \cup DeleteOps
    /\ req[r].pc = "purge" => req[r].op = "purge"
    /\ req[r].pc = "stat" => req[r].op = "get"
    /\ req[r].pc \in {"restart", "status", "logs"} => req[r].op \notin WriterOps
    /\ req[r].pc \in HoldPCs \cup LaunchPCs => req[r].target \in Containers
    /\ req[r].op \in CreateOps => req[r].key \in Keys /\ req[r].graph \in Graphs
    /\ req[r].op \in NamedOps => req[r].key \in LookupKeys

LabelsSet(c) == Live(c) => containers[c].key \in Keys /\ containers[c].root \in Graphs

Typed ==
    /\ TypeOK
    /\ \A r \in Requests : OpMatchesPC(r)
    /\ \A c \in Containers : LabelsSet(c)

(* A Create that is about to build, or a Delete that is about to purge, has*)
(* no container of its key left; while either stops or removes one, there  *)
(* is none but that one.                                                   *)
NoneLive(r) == \A c \in Containers : containers[c].key = req[r].key => ~Live(c)

OnlyTargetLive(r) ==
    \A c \in Containers :
        Live(c) /\ containers[c].key = req[r].key => c = req[r].target

Owner(r, ops) ==
    req[r].op \in ops =>
        /\ req[r].pc \in BuildPCs \cup {"purge"} => NoneLive(r)
        /\ req[r].pc \in {"stop", "remove"} => OnlyTargetLive(r)

(* The inductive invariant behind Singleton (ops = CreateOps), and the part*)
(* of the one behind DataIntact that speaks of containers (ops = WriterOps)*)
OwnerInv(ops) ==
    /\ Typed
    /\ Exclusive(ops)
    /\ Singleton
    /\ \A r \in Requests : Owner(r, ops)

SingletonInv == OwnerInv(CreateOps)

(* How far the data of a key is when its Create reaches each step.         *)
DataProgress(r) ==
    LET d == disk[req[r].key]  g == req[r].graph IN
    /\ req[r].pc \in {"tools", "writeDoc", "skills", "containerCreate"} => d.dirs = Dirs
    /\ req[r].pc \in {"writeDoc", "skills", "containerCreate"} => d.tools = g
    /\ req[r].pc \in {"skills", "containerCreate"} => d.doc = g
    /\ req[r].pc = "containerCreate" => d.skills = g

DataInv ==
    /\ OwnerInv(WriterOps)
    /\ \A r \in Requests : DataProgress(r)
    /\ DataIntact

-----------------------------------------------------------------------------
(* What the three ways of leaving a pc change, and what they keep.         *)

Others(r) == \A s \in Requests \ {r} : req'[s] = req[s]

SameRequest(r) ==
    /\ req'[r].op = req[r].op /\ req'[r].key = req[r].key
    /\ req'[r].graph = req[r].graph /\ req'[r].reply = req[r].reply

LEMMA GotoEffect ==
    ASSUME TypeOK, NEW r \in Requests, NEW pc \in PCs, Goto(r, pc)
    PROVE  /\ req' \in [Requests -> Request]
           /\ Others(r) /\ SameRequest(r)
           /\ req'[r].pc = pc /\ req'[r].target = req[r].target
<1>1. [req[r] EXCEPT !.pc = pc] \in Request
  BY DEF TypeOK, Request
<1>2. req' = [req EXCEPT ![r] = [req[r] EXCEPT !.pc = pc]]
  BY DEF Goto
<1> QED
  BY <1>1, <1>2 DEF TypeOK, Others, SameRequest, Request

LEMMA HoldEffect ==
    ASSUME TypeOK, NEW r \in Requests, NEW c \in Containers, NEW pc \in PCs,
           Hold(r, c, pc)
    PROVE  /\ req' \in [Requests -> Request]
           /\ Others(r) /\ SameRequest(r)
           /\ req'[r].pc = pc /\ req'[r].target = c
<1>1. [req[r] EXCEPT !.target = c, !.pc = pc] \in Request
  BY DEF TypeOK, Request
<1>2. req' = [req EXCEPT ![r] = [req[r] EXCEPT !.target = c, !.pc = pc]]
  BY DEF Hold, TypeOK
<1> QED
  BY <1>1, <1>2 DEF TypeOK, Others, SameRequest, Request

LEMMA AnswerEffect ==
    ASSUME TypeOK, NEW r \in Requests, NEW reply \in Replies, Answer(r, reply)
    PROVE  /\ req' \in [Requests -> Request]
           /\ Others(r)
           /\ req'[r] = Idle(reply)
<1>1. Idle(reply) \in Request
  BY DEF Idle, Request, PCs
<1> QED
  BY <1>1 DEF TypeOK, Others, Answer

-----------------------------------------------------------------------------
(* Steps that make no container, and how the daemon's calls are such steps.*)

NoneMade ==
    /\ containers' \in [Containers -> Container]
    /\ \A c \in Containers :
          Live(c)' => /\ Live(c)
                      /\ containers'[c].key = containers[c].key
                      /\ containers'[c].root = containers[c].root

Moves(r) == Others(r) /\ (SameRequest(r) \/ req'[r].pc = "idle")

LEMMA CallsMakeNone ==
    ASSUME TypeOK, NEW c \in Containers,
           containers' \in {containers, Stopped(c), Started(c), Removed(c)}
    PROVE  NoneMade
<1>1. containers[c] \in Container /\ Absent \in Container
  BY DEF TypeOK, Container, Absent, Statuses
<1>2. CASE containers' = containers
  BY <1>2 DEF TypeOK, NoneMade, Live
<1>3. CASE containers' = Stopped(c)
  BY <1>1, <1>3 DEF TypeOK, NoneMade, Live, Stopped, With, Container, Statuses
<1>4. CASE containers' = Started(c)
  BY <1>1, <1>4 DEF TypeOK, NoneMade, Live, Started, With, Container, Statuses
<1>5. CASE containers' = Removed(c)
  BY <1>1, <1>5 DEF TypeOK, NoneMade, Live, Removed, With, Absent
<1> QED
  BY <1>2, <1>3, <1>4, <1>5

(* The removed container is gone.                                          *)
LEMMA RemovedIsAbsent ==
    ASSUME TypeOK, NEW c \in Containers, containers' = Removed(c)
    PROVE  containers'[c] = Absent
BY DEF TypeOK, Removed, With

(* A handler that made no container keeps the types when its own request   *)
(* is in order.                                                            *)
LEMMA TypedFrame ==
    ASSUME Typed, NEW r \in Requests, Others(r), req' \in [Requests -> Request],
           OpMatchesPC(r)', NoneMade, disk' \in [Keys -> Data]
    PROVE  Typed'
<1>1. ASSUME NEW s \in Requests PROVE OpMatchesPC(s)'
  BY DEF Typed, Others, OpMatchesPC
<1>2. TypeOK'
  BY <1>1 DEF TypeOK, NoneMade, OpMatchesPC
<1>3. ASSUME NEW c \in Containers PROVE LabelsSet(c)'
  BY DEF Typed, NoneMade, LabelsSet
<1> QED
  BY <1>1, <1>2, <1>3 DEF Typed

OpFits(op, target, pc) ==
    /\ pc # "idle"
    /\ pc \in BuildPCs \cup LaunchPCs => op \in CreateOps
    /\ pc = "stop" => op \in {"forceCreate", "stop"} \cup DeleteOps
    /\ pc = "remove" => op \in {"forceCreate"} \cup DeleteOps
    /\ pc = "purge" => op = "purge"
    /\ pc = "stat" => op = "get"
    /\ pc \in {"restart", "status", "logs"} => op \notin WriterOps
    /\ pc \in HoldPCs \cup LaunchPCs => target \in Containers

LEMMA AnswerStep ==
    ASSUME Typed, NEW r \in Requests, NEW reply \in Replies, Answer(r, reply),
           NoneMade, disk' \in [Keys -> Data]
    PROVE  Typed' /\ Moves(r) /\ req'[r].pc = "idle" /\ req'[r].reply = reply
<1>1. req'[r] = Idle(reply) /\ Others(r) /\ req' \in [Requests -> Request]
  BY AnswerEffect DEF Typed
<1>2. OpMatchesPC(r)'
  BY <1>1 DEF OpMatchesPC, Idle, BuildPCs, LaunchPCs, HoldPCs,
     CreateOps, DeleteOps, NamedOps
<1> QED
  BY <1>1, <1>2, TypedFrame DEF Moves, Idle

LEMMA GotoStep ==
    ASSUME Typed, NEW r \in Requests, NEW pc \in PCs, Goto(r, pc),
           OpFits(req[r].op, req[r].target, pc), NoneMade, disk' \in [Keys -> Data]
    PROVE  Typed' /\ Moves(r) /\ req'[r].pc = pc /\ req'[r].target = req[r].target
<1>1. /\ Others(r) /\ SameRequest(r) /\ req' \in [Requests -> Request]
      /\ req'[r].pc = pc /\ req'[r].target = req[r].target
  BY GotoEffect DEF Typed
<1>2. OpMatchesPC(r)'
  BY <1>1 DEF Typed, OpMatchesPC, OpFits, SameRequest
<1> QED
  BY <1>1, <1>2, TypedFrame DEF Moves

LEMMA HoldStep ==
    ASSUME Typed, NEW r \in Requests, NEW c \in Containers, NEW pc \in PCs,
           Hold(r, c, pc), OpFits(req[r].op, c, pc), NoneMade,
           disk' \in [Keys -> Data]
    PROVE  Typed' /\ Moves(r) /\ req'[r].pc = pc /\ req'[r].target = c
<1>1. /\ Others(r) /\ SameRequest(r) /\ req' \in [Requests -> Request]
      /\ req'[r].pc = pc /\ req'[r].target = c
  BY HoldEffect DEF Typed
<1>2. OpMatchesPC(r)'
  BY <1>1 DEF Typed, OpMatchesPC, OpFits, SameRequest
<1> QED
  BY <1>1, <1>2, TypedFrame DEF Moves

-----------------------------------------------------------------------------
(* One lemma per action, each with what the action does to the obligations *)
(* of its own request.                                                     *)

Frame(r) == Typed' /\ Moves(r) /\ NoneMade

LEMMA FindStep ==
    ASSUME Typed, NEW r \in Requests, FindAgentContainer(r)
    PROVE  /\ Frame(r) /\ UNCHANGED disk
           /\ \/ req'[r].pc \in {"idle", "stat"}
              \/ req'[r].pc \in {"ensureDirs", "purge"} /\ LiveOf(req[r].key) = {}
              \/ /\ req'[r].pc \in {"stop", "restart", "status", "logs"}
                 /\ req'[r].target \in LiveOf(req[r].key)
<1>1. NoneMade /\ disk' \in [Keys -> Data] /\ UNCHANGED disk
  BY DEF FindAgentContainer, NoneMade, Typed, TypeOK, Live
<1>2. CASE LiveOf(req[r].key) = {} /\ OnMissing(r)
  <2>1. CASE req[r].op \in CreateOps /\ Goto(r, "ensureDirs")
    BY <1>1, <1>2, <2>1, GotoStep DEF PCs, OpFits, LaunchPCs, HoldPCs, Frame
  <2>2. CASE req[r].op = "purge" /\ Goto(r, "purge")
    BY <1>1, <1>2, <2>2, GotoStep DEF PCs, OpFits, BuildPCs, LaunchPCs, HoldPCs, Frame
  <2>3. CASE req[r].op = "get" /\ Goto(r, "stat")
    BY <1>1, <2>3, GotoStep DEF PCs, OpFits, BuildPCs, LaunchPCs, HoldPCs, Frame
  <2>4. CASE Answer(r, "ok") \/ Answer(r, "notFound")
    BY <1>1, <2>4, AnswerStep DEF Replies, Frame
  <2> QED
    BY <1>2, <2>1, <2>2, <2>3, <2>4 DEF OnMissing
<1>3. ASSUME NEW c \in LiveOf(req[r].key), OnFound(r, c)
      PROVE  /\ Frame(r)
             /\ \/ req'[r].pc = "idle"
                \/ /\ req'[r].pc \in {"stop", "restart", "status", "logs"}
                   /\ req'[r].target = c
  <2> c \in Containers
    BY DEF LiveOf
  <2>1. CASE req[r].op \in {"forceCreate", "delete", "purge", "stop"} /\ Hold(r, c, "stop")
    BY <1>1, <2>1, HoldStep DEF PCs, OpFits, DeleteOps, BuildPCs, LaunchPCs, HoldPCs, Frame
  <2>2. CASE req[r].op \in {"restart", "status", "logs"} /\ Hold(r, c, req[r].op)
    BY <1>1, <2>2, HoldStep
       DEF PCs, OpFits, BuildPCs, LaunchPCs, HoldPCs, WriterOps, CreateOps, DeleteOps, Frame
  <2>3. CASE Answer(r, "existing") \/ Answer(r, "container")
    BY <1>1, <2>3, AnswerStep DEF Replies, Frame
  <2> QED
    BY <1>3, <2>1, <2>2, <2>3 DEF OnFound
<1>4. CASE Answer(r, "error")
  BY <1>1, <1>4, AnswerStep DEF Replies, Frame
<1> QED
  BY <1>1, <1>2, <1>3, <1>4 DEF FindAgentContainer

LEMMA StopStep ==
    ASSUME Typed, NEW r \in Requests, StopContainer(r)
    PROVE  /\ Frame(r) /\ UNCHANGED disk
           /\ \/ req'[r].pc = "idle"
              \/ req'[r].pc = "remove" /\ req'[r].target = req[r].target
<1> DEFINE c == req[r].target
<1>1. c \in Containers
  BY DEF StopContainer, At, Typed, OpMatchesPC, HoldPCs
<1>2. NoneMade /\ disk' \in [Keys -> Data] /\ UNCHANGED disk
  BY <1>1, CallsMakeNone DEF StopContainer, Typed, TypeOK
<1>3. CASE Goto(r, "remove") /\ req[r].op # "stop"
  <2>1. req[r].op \in {"forceCreate"} \cup DeleteOps
    BY <1>3 DEF StopContainer, At, Typed, OpMatchesPC
  <2> QED
    BY <1>1, <1>2, <1>3, <2>1, GotoStep DEF PCs, OpFits, BuildPCs, LaunchPCs, Frame
<1>4. CASE Answer(r, "ok") \/ Answer(r, "error")
  BY <1>2, <1>4, AnswerStep DEF Replies, Frame
<1> QED
  BY <1>3, <1>4 DEF StopContainer

LEMMA RemoveStep ==
    ASSUME Typed, NEW r \in Requests, RemoveContainer(r)
    PROVE  /\ Frame(r) /\ UNCHANGED disk
           /\ \/ req'[r].pc = "idle"
              \/ req'[r].pc \in {"ensureDirs", "purge"} /\ containers'[req[r].target] = Absent
           /\ req[r].op \in DeleteOps /\ req'[r].reply = "ok" => containers'[req[r].target] = Absent
<1> DEFINE c == req[r].target
<1>1. c \in Containers
  BY DEF RemoveContainer, At, Typed, OpMatchesPC, HoldPCs
<1>2. NoneMade /\ disk' \in [Keys -> Data] /\ UNCHANGED disk
  BY <1>1, CallsMakeNone DEF RemoveContainer, Typed, TypeOK
<1>3. CASE AfterRemove(r) /\ containers' = Removed(c)
  <2>1. containers'[c] = Absent
    BY <1>1, <1>3, RemovedIsAbsent DEF Typed
  <2>2. CASE req[r].op = "forceCreate" /\ Goto(r, "ensureDirs")
    BY <1>2, <2>1, <2>2, GotoStep
       DEF PCs, OpFits, HoldPCs, LaunchPCs, CreateOps, DeleteOps, Frame
  <2>3. CASE req[r].op = "purge" /\ Goto(r, "purge")
    BY <1>2, <2>1, <2>3, GotoStep
       DEF PCs, OpFits, HoldPCs, BuildPCs, LaunchPCs, Frame
  <2>4. CASE Answer(r, "ok")
    BY <1>2, <2>1, <2>4, AnswerStep DEF Replies, Frame
  <2> QED
    BY <1>3, <2>2, <2>3, <2>4 DEF AfterRemove
<1>4. CASE Answer(r, "error")
  BY <1>2, <1>4, AnswerStep, AnswerEffect DEF Replies, Frame, Idle, Typed
<1> QED
  BY <1>3, <1>4 DEF RemoveContainer

LEMMA RestartStep ==
    ASSUME Typed, NEW r \in Requests, RestartContainer(r)
    PROVE  Frame(r) /\ UNCHANGED disk /\ req'[r].pc = "idle"
<1>1. req[r].target \in Containers
  BY DEF RestartContainer, At, Typed, OpMatchesPC, HoldPCs
<1>2. NoneMade /\ disk' \in [Keys -> Data] /\ UNCHANGED disk
  BY <1>1, CallsMakeNone DEF RestartContainer, Typed, TypeOK
<1> QED
  BY <1>2, AnswerStep DEF RestartContainer, Replies, Frame

(* The steps of Create on the disk change the data of its own key only.    *)
OwnData(r) == \A k \in Keys \ {req[r].key} : disk'[k] = disk[k]

LEMMA SetDataEffect ==
    ASSUME TypeOK, NEW k \in Keys, NEW d \in Data, SetData(k, d)
    PROVE  /\ disk' \in [Keys -> Data] /\ disk'[k] = d
           /\ \A j \in Keys \ {k} : disk'[j] = disk[j]
BY DEF TypeOK, SetData

LEMMA BuildKey ==
    ASSUME Typed, NEW r \in Requests, req[r].pc \in BuildPCs
    PROVE  /\ req[r].op \in CreateOps /\ req[r].key \in Keys /\ req[r].graph \in Graphs
           /\ disk[req[r].key] \in Data
BY DEF Typed, OpMatchesPC, TypeOK

LEMMA UnchangedMakesNone ==
    ASSUME TypeOK, UNCHANGED containers
    PROVE  NoneMade
BY DEF TypeOK, NoneMade, Live

LEMMA EnsureDirsStep ==
    ASSUME Typed, NEW r \in Requests, EnsureDirs(r)
    PROVE  /\ Frame(r) /\ OwnData(r)
           /\ \/ req'[r].pc = "idle"
              \/ req'[r].pc = "tools" /\ disk'[req[r].key].dirs = Dirs
<1> DEFINE d == disk[req[r].key]
<1>1. req[r].op \in CreateOps /\ req[r].key \in Keys /\ d \in Data
  BY BuildKey DEF EnsureDirs, At, BuildPCs
<1>2. NoneMade
  BY UnchangedMakesNone DEF EnsureDirs, Typed
<1>3. CASE SetData(req[r].key, [d EXCEPT !.dirs = Dirs]) /\ Goto(r, "tools")
  <2>1. [d EXCEPT !.dirs = Dirs] \in Data
    BY <1>1 DEF Data, Dirs
  <2>2. disk' \in [Keys -> Data] /\ OwnData(r) /\ disk'[req[r].key].dirs = Dirs
    BY <1>1, <1>3, <2>1, SetDataEffect DEF Typed, OwnData, Data
  <2> QED
    BY <1>1, <1>2, <1>3, <2>2, GotoStep DEF PCs, OpFits, HoldPCs, LaunchPCs, Frame
<1>4. ASSUME NEW made \in {{}, {"agents"}},
             SetData(req[r].key, [d EXCEPT !.dirs = @ \cup made]), Answer(r, "error")
      PROVE  Frame(r) /\ OwnData(r) /\ req'[r].pc = "idle"
  <2>1. [d EXCEPT !.dirs = @ \cup made] \in Data
    BY <1>1 DEF Data, Dirs
  <2>2. disk' \in [Keys -> Data] /\ OwnData(r)
    BY <1>1, <1>4, <2>1, SetDataEffect DEF Typed, OwnData
  <2> QED
    BY <1>2, <1>4, <2>2, AnswerStep DEF Replies, Frame
<1> QED
  BY <1>3, <1>4 DEF EnsureDirs

LEMMA InstallToolsStep ==
    ASSUME Typed, NEW r \in Requests, InstallTools(r)
    PROVE  /\ Frame(r) /\ OwnData(r)
           /\ \/ req'[r].pc = "idle"
              \/ /\ req'[r].pc = "writeDoc"
                 /\ disk'[req[r].key].dirs = disk[req[r].key].dirs \cup {"agents"}
                 /\ disk'[req[r].key].tools = req[r].graph
<1> DEFINE d == disk[req[r].key]
<1> DEFINE After(g) == [d EXCEPT !.dirs = @ \cup {"agents"}, !.tools = g]
<1>1. req[r].op \in CreateOps /\ req[r].key \in Keys /\ req[r].graph \in Graphs /\ d \in Data
  BY BuildKey DEF InstallTools, At, BuildPCs
<1>2. NoneMade
  BY UnchangedMakesNone DEF InstallTools, Typed
<1>3. ASSUME NEW g \in Graphs \cup {NoGraph}, SetData(req[r].key, After(g))
      PROVE  /\ disk' \in [Keys -> Data] /\ OwnData(r)
             /\ disk'[req[r].key].dirs = d.dirs \cup {"agents"}
             /\ disk'[req[r].key].tools = g
  <2>1. After(g) \in Data /\ After(g).dirs = d.dirs \cup {"agents"} /\ After(g).tools = g
    BY <1>1 DEF Data, Dirs
  <2> QED
    BY <1>1, <1>3, <2>1, SetDataEffect DEF Typed, OwnData
<1>4. CASE SetData(req[r].key, After(req[r].graph)) /\ Goto(r, "writeDoc")
  <2> HIDE DEF After
  <2> QED
    BY <1>1, <1>2, <1>3, <1>4, GotoStep DEF PCs, OpFits, HoldPCs, LaunchPCs, Frame
<1>5. ASSUME NEW left \in {d.tools, NoGraph}, SetData(req[r].key, After(left)),
             Answer(r, "error")
      PROVE  Frame(r) /\ OwnData(r) /\ req'[r].pc = "idle"
  <2>1. left \in Graphs \cup {NoGraph}
    BY <1>1, <1>5 DEF Data
  <2> HIDE DEF After
  <2> QED
    BY <1>2, <1>3, <1>5, <2>1, AnswerStep DEF Replies, Frame
<1> QED
  BY <1>4, <1>5 DEF InstallTools

LEMMA WriteAgentYAMLStep ==
    ASSUME Typed, NEW r \in Requests, WriteAgentYAML(r)
    PROVE  /\ Frame(r) /\ OwnData(r)
           /\ \/ req'[r].pc = "idle"
              \/ /\ req'[r].pc = "skills"
                 /\ disk'[req[r].key].dirs = disk[req[r].key].dirs \cup {"agents"}
                 /\ disk'[req[r].key].tools = disk[req[r].key].tools
                 /\ disk'[req[r].key].doc = req[r].graph
<1> DEFINE d == disk[req[r].key]
<1> DEFINE Written == [d EXCEPT !.dirs = @ \cup {"agents"}, !.doc = req[r].graph]
<1> DEFINE NotWritten == [d EXCEPT !.dirs = @ \cup {"agents"}]
<1>1. req[r].op \in CreateOps /\ req[r].key \in Keys /\ req[r].graph \in Graphs /\ d \in Data
  BY BuildKey DEF WriteAgentYAML, At, BuildPCs
<1>2. NoneMade
  BY UnchangedMakesNone DEF WriteAgentYAML, Typed
<1>3. /\ Written \in Data /\ NotWritten \in Data
      /\ Written.dirs = d.dirs \cup {"agents"} /\ Written.tools = d.tools
      /\ Written.doc = req[r].graph
  BY <1>1 DEF Data, Dirs
<1>4. CASE SetData(req[r].key, Written) /\ Goto(r, "skills")
  <2> HIDE DEF Written
  <2> QED
    BY <1>1, <1>2, <1>3, <1>4, SetDataEffect, GotoStep
       DEF PCs, OpFits, HoldPCs, LaunchPCs, Frame, OwnData, Typed
<1>5. CASE SetData(req[r].key, NotWritten) /\ Answer(r, "error")
  <2> HIDE DEF NotWritten
  <2> QED
    BY <1>1, <1>2, <1>3, <1>5, SetDataEffect, AnswerStep
       DEF Replies, Frame, OwnData, Typed
<1> QED
  BY <1>4, <1>5 DEF WriteAgentYAML

LEMMA InstallSkillsStep ==
    ASSUME Typed, NEW r \in Requests, InstallSkills(r)
    PROVE  /\ Frame(r) /\ OwnData(r)
           /\ \/ req'[r].pc = "idle"
              \/ /\ req'[r].pc = "containerCreate"
                 /\ disk'[req[r].key].dirs = disk[req[r].key].dirs \cup {"agents"}
                 /\ disk'[req[r].key].tools = disk[req[r].key].tools
                 /\ disk'[req[r].key].doc = disk[req[r].key].doc
                 /\ disk'[req[r].key].skills = req[r].graph
<1> DEFINE d == disk[req[r].key]
<1> DEFINE After(g) == [d EXCEPT !.dirs = @ \cup {"agents"}, !.skills = g]
<1>1. req[r].op \in CreateOps /\ req[r].key \in Keys /\ req[r].graph \in Graphs /\ d \in Data
  BY BuildKey DEF InstallSkills, At, BuildPCs
<1>2. NoneMade
  BY UnchangedMakesNone DEF InstallSkills, Typed
<1>3. ASSUME NEW g \in Graphs \cup {NoGraph}, SetData(req[r].key, After(g))
      PROVE  /\ disk' \in [Keys -> Data] /\ OwnData(r)
             /\ disk'[req[r].key].dirs = d.dirs \cup {"agents"}
             /\ disk'[req[r].key].tools = d.tools
             /\ disk'[req[r].key].doc = d.doc
             /\ disk'[req[r].key].skills = g
  <2>1. /\ After(g) \in Data /\ After(g).dirs = d.dirs \cup {"agents"}
        /\ After(g).tools = d.tools /\ After(g).doc = d.doc /\ After(g).skills = g
    BY <1>1 DEF Data, Dirs
  <2> QED
    BY <1>1, <1>3, <2>1, SetDataEffect DEF Typed, OwnData
<1>4. CASE SetData(req[r].key, After(req[r].graph)) /\ Goto(r, "containerCreate")
  <2> HIDE DEF After
  <2> QED
    BY <1>1, <1>2, <1>3, <1>4, GotoStep DEF PCs, OpFits, HoldPCs, LaunchPCs, Frame
<1>5. ASSUME NEW left \in {d.skills, NoGraph}, SetData(req[r].key, After(left)),
             Answer(r, "error")
      PROVE  Frame(r) /\ OwnData(r) /\ req'[r].pc = "idle"
  <2>1. left \in Graphs \cup {NoGraph}
    BY <1>1, <1>5 DEF Data
  <2> HIDE DEF After
  <2> QED
    BY <1>2, <1>3, <1>5, <2>1, AnswerStep DEF Replies, Frame
<1> QED
  BY <1>4, <1>5 DEF InstallSkills

(* The one step that makes a container.                                    *)
Makes(r, c) == c \in FreshIds /\ containers' = With(c, NewContainer(r))

LEMMA ContainerCreateStep ==
    ASSUME Typed, NEW r \in Requests, ContainerCreate(r)
    PROVE  /\ Typed' /\ Moves(r) /\ UNCHANGED disk
           /\ req'[r].pc \in {"idle", "containerStart"}
           /\ \/ NoneMade /\ req'[r].pc = "idle"
              \/ \E c \in Containers :
                    Makes(r, c) /\ (req'[r].pc = "containerStart" => req'[r].target = c)
<1>1. /\ req[r].op \in CreateOps /\ req[r].key \in Keys /\ req[r].graph \in Graphs
      /\ UNCHANGED disk /\ disk' \in [Keys -> Data]
  BY BuildKey DEF ContainerCreate, At, BuildPCs, Typed, TypeOK
<1>2. ASSUME NEW c \in FreshIds, containers' = With(c, NewContainer(r))
      PROVE  /\ c \in Containers /\ Makes(r, c)
             /\ containers' \in [Containers -> Container]
             /\ \A d \in Containers : LabelsSet(d)'
  <2>1. c \in Containers /\ Makes(r, c)
    BY <1>2 DEF FreshIds, Makes
  <2>2. NewContainer(r) \in Container
    BY <1>1 DEF NewContainer, Container, Statuses
  <2>3. containers' \in [Containers -> Container]
    BY <1>2, <2>1, <2>2 DEF With, Typed, TypeOK
  <2>4. ASSUME NEW d \in Containers PROVE LabelsSet(d)'
    <3>1. CASE d = c
      BY <1>1, <1>2, <2>1, <3>1 DEF LabelsSet, With, NewContainer, Typed, TypeOK
    <3>2. CASE d # c
      BY <1>2, <2>1, <3>2 DEF LabelsSet, With, Typed, TypeOK, Live
    <3> QED
      BY <3>1, <3>2
  <2> QED
    BY <2>1, <2>3, <2>4
<1>3. CASE Answer(r, "error") /\ UNCHANGED containers
  <2>1. NoneMade
    BY <1>3, UnchangedMakesNone DEF Typed
  <2> QED
    BY <1>1, <1>3, <2>1, AnswerStep DEF Replies
<1>4. ASSUME NEW c \in FreshIds, containers' = With(c, NewContainer(r)),
             Answer(r, "error") \/ Hold(r, c, "containerStart")
      PROVE  /\ Typed' /\ Moves(r) /\ req'[r].pc \in {"idle", "containerStart"}
             /\ \E d \in Containers :
                   Makes(r, d) /\ (req'[r].pc = "containerStart" => req'[r].target = d)
  <2>1. /\ c \in Containers /\ Makes(r, c) /\ containers' \in [Containers -> Container]
        /\ \A d \in Containers : LabelsSet(d)'
    BY <1>2, <1>4
  <2>2. /\ Others(r) /\ req' \in [Requests -> Request] /\ OpMatchesPC(r)' /\ Moves(r)
        /\ req'[r].pc \in {"idle", "containerStart"}
        /\ req'[r].pc = "containerStart" => req'[r].target = c
    <3>1. CASE Answer(r, "error")
      BY <3>1, AnswerEffect
         DEF Replies, Typed, Idle, Moves, OpMatchesPC, BuildPCs, LaunchPCs, HoldPCs,
             CreateOps, DeleteOps, NamedOps
    <3>2. CASE Hold(r, c, "containerStart")
      BY <1>1, <2>1, <3>2, HoldEffect
         DEF PCs, Typed, SameRequest, Moves, OpMatchesPC, BuildPCs, LaunchPCs, HoldPCs
    <3> QED
      BY <1>4, <3>1, <3>2
  <2>3. ASSUME NEW s \in Requests PROVE OpMatchesPC(s)'
    BY <2>2 DEF Typed, Others, OpMatchesPC
  <2>4. TypeOK'
    BY <1>1, <2>1, <2>2, <2>3 DEF TypeOK, OpMatchesPC
  <2> QED
    BY <2>1, <2>2, <2>3, <2>4 DEF Typed
<1> QED
  BY <1>1, <1>3, <1>4 DEF ContainerCreate

LEMMA StartStep ==
    ASSUME Typed, NEW r \in Requests, ContainerStart(r) \/ CleanupStart(r)
    PROVE  /\ Frame(r) /\ UNCHANGED disk
           /\ \/ req'[r].pc = "idle"
              \/ req'[r].pc \in {"inspect", "cleanup"} /\ req'[r].target = req[r].target
<1>1. req[r].target \in Containers /\ req[r].op \in CreateOps
  BY DEF ContainerStart, CleanupStart, At, Typed, OpMatchesPC, LaunchPCs
<1>2. NoneMade /\ disk' \in [Keys -> Data] /\ UNCHANGED disk
  BY <1>1, CallsMakeNone DEF ContainerStart, CleanupStart, Typed, TypeOK
<1>3. CASE Goto(r, "inspect") \/ Goto(r, "cleanup")
  BY <1>1, <1>2, <1>3, GotoStep DEF PCs, OpFits, HoldPCs, Frame
<1>4. CASE Answer(r, "error")
  BY <1>2, <1>4, AnswerStep DEF Replies, Frame
<1> QED
  BY <1>3, <1>4 DEF ContainerStart, CleanupStart

LEMMA PurgeStep ==
    ASSUME Typed, NEW r \in Requests, PurgeData(r)
    PROVE  /\ Frame(r) /\ req'[r].pc = "idle"
           /\ \A k \in Keys : k \notin DataUnder(req[r].key) => disk'[k] = disk[k]
<1>1. NoneMade
  BY UnchangedMakesNone DEF PurgeData, Typed
<1>2. ASSUME NEW k \in Keys PROVE {disk[k]} \cup Purged(k) \subseteq Data
  <2>1. disk[k] \in Data
    BY DEF Typed, TypeOK
  <2>2. NoData \in Data
    BY DEF NoData, Data
  <2>3. Leftovers(disk[k]) \subseteq Data
    BY <2>1 DEF Leftovers, Data
  <2> QED
    BY <2>1, <2>2, <2>3 DEF Purged
<1>3. /\ disk' \in [Keys -> UNION {{disk[k]} \cup Purged(k) : k \in Keys}]
      /\ \A k \in Keys : k \notin DataUnder(req[r].key) => disk'[k] = disk[k]
      /\ Answer(r, "ok")
  BY DEF PurgeData
<1>4. disk' \in [Keys -> Data]
  <2> DEFINE Left(k) == {disk[k]} \cup Purged(k)
  <2>1. \A k \in Keys : Left(k) \subseteq Data
    BY <1>2
  <2>2. disk' \in [Keys -> UNION {Left(k) : k \in Keys}]
    BY <1>3
  <2> HIDE DEF Left
  <2>3. UNION {Left(k) : k \in Keys} \subseteq Data
    BY <2>1
  <2> QED
    BY <2>2, <2>3
<1> QED
  BY <1>1, <1>3, <1>4, AnswerStep DEF Replies, Frame

LEMMA ReplaceEffect ==
    ASSUME TypeOK, NEW r \in Requests, NEW next \in Request,
           req' = [req EXCEPT ![r] = next]
    PROVE  req' \in [Requests -> Request] /\ Others(r) /\ req'[r] = next
BY DEF TypeOK, Others

LEMMA ListAnswerStep ==
    ASSUME Typed, NEW r \in Requests, NEW keys \in SUBSET Keys, AnswerList(r, keys),
           NoneMade, disk' \in [Keys -> Data]
    PROVE  /\ Frame(r) /\ req'[r].pc = "idle" /\ req'[r].op = "none"
           /\ req'[r].seen = keys /\ req'[r].left = {} /\ req'[r].reply = "listed"
<1> DEFINE new == [Idle("listed") EXCEPT !.seen = keys]
<1>1. /\ new \in Request /\ new.pc = "idle" /\ new.op = "none" /\ new.seen = keys
      /\ new.left = {} /\ new.reply = "listed"
  BY DEF Idle, Request, PCs, Replies
<1>2. req' = [req EXCEPT ![r] = new]
  BY DEF AnswerList
<1> HIDE DEF new
<1>3. req' \in [Requests -> Request] /\ Others(r) /\ req'[r] = new
  BY <1>1, <1>2, ReplaceEffect DEF Typed
<1>4. OpMatchesPC(r)'
  BY <1>1, <1>3 DEF OpMatchesPC, BuildPCs, LaunchPCs, HoldPCs,
     CreateOps, DeleteOps, NamedOps
<1> QED
  BY <1>1, <1>3, <1>4, TypedFrame DEF Frame, Moves

(* A listing goes on with what it has seen and what it has left.           *)
Scans(r, seen, left, pc) ==
    req' = [req EXCEPT ![r].seen = seen, ![r].left = left, ![r].pc = pc]

LEMMA ScanStep ==
    ASSUME Typed, NEW r \in Requests, NEW seen \in SUBSET Keys, NEW left \in SUBSET Keys,
           NEW pc \in {"listDirs", "statDirs"},
           Scans(r, seen, left, pc), InFlight(r), NoneMade, disk' \in [Keys -> Data]
    PROVE  /\ Frame(r) /\ SameRequest(r) /\ req'[r].pc = pc
           /\ req'[r].seen = seen /\ req'[r].left = left
<1> DEFINE next == [req[r] EXCEPT !.seen = seen, !.left = left, !.pc = pc]
<1>1. /\ next \in Request /\ next.pc = pc /\ next.op = req[r].op
      /\ next.key = req[r].key /\ next.graph = req[r].graph
      /\ next.reply = req[r].reply /\ next.seen = seen /\ next.left = left
  BY DEF Typed, TypeOK, Request, PCs
<1>2. req' = [req EXCEPT ![r] = next]
  BY DEF Scans, Typed, TypeOK
<1> HIDE DEF next
<1>3. /\ req' \in [Requests -> Request] /\ Others(r) /\ SameRequest(r)
      /\ req'[r] = next
  BY <1>1, <1>2, ReplaceEffect DEF Typed, SameRequest
<1>4. OpMatchesPC(r)'
  BY <1>1, <1>3 DEF Typed, OpMatchesPC, SameRequest, BuildPCs, LaunchPCs, HoldPCs
<1> QED
  BY <1>1, <1>3, <1>4, TypedFrame DEF Frame, Moves

LEMMA GoOnStep ==
    ASSUME Typed, NEW r \in Requests, NEW seen \in SUBSET Keys, NEW left \in SUBSET Keys,
           GoOn(r, seen, left), InFlight(r), NoneMade, disk' \in [Keys -> Data]
    PROVE  /\ Frame(r) /\ req'[r].seen = seen /\ req'[r].left = left
           /\ \/ req'[r].pc = "idle" /\ req'[r].reply = "listed" /\ left = {}
              \/ req'[r].pc = "statDirs" /\ SameRequest(r) /\ left # {}
<1>1. CASE left = {}
  BY <1>1, ListAnswerStep DEF GoOn
<1>2. CASE left # {}
  <2>1. Scans(r, seen, left, "statDirs")
    BY <1>2 DEF GoOn, Scans
  <2> QED
    BY <1>2, <2>1, ScanStep
<1> QED
  BY <1>1, <1>2

LEMMA KeysOfLiveInKeys == Typed => KeysOfLive \subseteq Keys
BY DEF KeysOfLive, Typed, LabelsSet

LEMMA ListContainersStep ==
    ASSUME Typed, NEW r \in Requests, ListManagedContainers(r)
    PROVE  /\ Frame(r) /\ UNCHANGED <<containers, disk>>
           /\ \/ req'[r].pc = "idle" /\ req'[r].reply = "listed" /\ req[r].op = "list"
              \/ req'[r].pc = "idle" /\ req'[r].reply = "error" /\ Faults
              \/ req'[r].pc = "listDirs" /\ SameRequest(r) /\ req'[r].seen = KeysOfLive
<1>1. NoneMade /\ disk' \in [Keys -> Data] /\ UNCHANGED <<containers, disk>>
  BY UnchangedMakesNone DEF ListManagedContainers, Typed, TypeOK
<1>2. KeysOfLive \in SUBSET Keys
  BY KeysOfLiveInKeys
<1>3. CASE AnswerList(r, KeysOfLive) /\ req[r].op = "list"
  BY <1>1, <1>2, <1>3, ListAnswerStep
<1>4. CASE req' = [req EXCEPT ![r].seen = KeysOfLive, ![r].pc = "listDirs"]
  <2>1. InFlight(r) /\ req[r].left \in SUBSET Keys
    BY DEF ListManagedContainers, At, InFlight, Typed, TypeOK, Request
  <2>2. Scans(r, KeysOfLive, req[r].left, "listDirs")
    BY <1>4, <2>1 DEF Scans, Typed, TypeOK, Request
  <2> QED
    BY <1>1, <1>2, <2>1, <2>2, ScanStep
<1>5. CASE Faults /\ Answer(r, "error")
  BY <1>1, <1>5, AnswerStep DEF Replies, Frame
<1> QED
  BY <1>3, <1>4, <1>5 DEF ListManagedContainers

LEMMA ReadDirStep ==
    ASSUME Typed, NEW r \in Requests, ReadDataDir(r)
    PROVE  /\ Frame(r) /\ UNCHANGED <<containers, disk>> /\ req'[r].pc \in {"idle", "statDirs"}
           /\ \/ Faults /\ req'[r].pc = "idle" /\ req'[r].reply = "error"
              \/ /\ \A k \in Keys : HasDoc(k) => k \in req'[r].left
                 /\ req'[r].seen = req[r].seen
                 /\ \/ req'[r].pc = "idle" /\ req'[r].reply = "listed" /\ req'[r].left = {}
                    \/ req'[r].pc = "statDirs" /\ SameRequest(r)
<1>1. NoneMade /\ disk' \in [Keys -> Data] /\ UNCHANGED <<containers, disk>>
  BY UnchangedMakesNone DEF ReadDataDir, Typed, TypeOK
<1>2. InFlight(r) /\ req[r].seen \in SUBSET Keys
  BY DEF ReadDataDir, At, InFlight, Typed, TypeOK, Request
<1>3. ASSUME NEW left \in SUBSET Keys, {k \in Keys : disk[k] # NoData} \subseteq left,
             GoOn(r, req[r].seen, left)
      PROVE  /\ Frame(r) /\ req'[r].left = left /\ req'[r].seen = req[r].seen
             /\ \A k \in Keys : HasDoc(k) => k \in left
             /\ \/ req'[r].pc = "idle" /\ req'[r].reply = "listed" /\ left = {}
                \/ req'[r].pc = "statDirs" /\ SameRequest(r)
  <2>1. \A k \in Keys : HasDoc(k) => k \in left
    BY <1>3 DEF HasDoc, NoData
  <2> QED
    BY <1>1, <1>2, <1>3, <2>1, GoOnStep
<1>4. CASE Faults /\ Answer(r, "error")
  BY <1>1, <1>4, AnswerStep DEF Replies, Frame
<1> QED
  BY <1>1, <1>3, <1>4 DEF ReadDataDir

LEMMA StatDirStep ==
    ASSUME Typed, NEW r \in Requests, StatDir(r)
    PROVE  /\ Frame(r) /\ UNCHANGED <<containers, disk>> /\ req'[r] # req[r]
           /\ \/ req'[r].pc = "idle" /\ req'[r].reply = "listed" /\ req'[r].left = {}
              \/ req'[r].pc = "statDirs" /\ SameRequest(r)
           /\ \E k \in req[r].left :
                 /\ req'[r].left = req[r].left \ {k}
                 /\ \/ HasDoc(k) /\ req'[r].seen = req[r].seen \cup {k}
                    \/ (Faults \/ ~HasDoc(k)) /\ req'[r].seen = req[r].seen
<1>1. NoneMade /\ disk' \in [Keys -> Data] /\ UNCHANGED <<containers, disk>>
  BY UnchangedMakesNone DEF StatDir, Typed, TypeOK
<1>2. InFlight(r) /\ req[r].seen \in SUBSET Keys /\ req[r].left \in SUBSET Keys
  BY DEF StatDir, At, InFlight, Typed, TypeOK, Request
<1>3. PICK k \in req[r].left :
         \/ HasDoc(k) /\ GoOn(r, req[r].seen \cup {k}, req[r].left \ {k})
         \/ (Faults \/ ~HasDoc(k)) /\ GoOn(r, req[r].seen, req[r].left \ {k})
  BY DEF StatDir
<1>4. PICK seen \in SUBSET Keys :
         /\ GoOn(r, seen, req[r].left \ {k})
         /\ \/ HasDoc(k) /\ seen = req[r].seen \cup {k}
            \/ (Faults \/ ~HasDoc(k)) /\ seen = req[r].seen
  BY <1>2, <1>3
<1>5. req[r].left \ {k} \in SUBSET Keys
  BY <1>2
<1>6. /\ Frame(r) /\ req'[r].seen = seen /\ req'[r].left = req[r].left \ {k}
      /\ \/ req'[r].pc = "idle" /\ req'[r].reply = "listed" /\ req[r].left \ {k} = {}
         \/ req'[r].pc = "statDirs" /\ SameRequest(r)
  BY <1>1, <1>2, <1>4, <1>5, GoOnStep
<1>7. k \in req[r].left /\ k \notin req'[r].left
  BY <1>6
<1> QED
  BY <1>1, <1>4, <1>6, <1>7

LEMMA QueryStep ==
    ASSUME Typed, NEW r \in Requests,
           \/ GetArchived(r) \/ InspectStatus(r) \/ ContainerLogs(r) \/ InspectCreated(r)
           \/ ListManagedContainers(r) \/ ReadDataDir(r) \/ StatDir(r)
    PROVE  /\ Frame(r) /\ UNCHANGED disk /\ req'[r].pc \in {"idle", "listDirs", "statDirs"}
           /\ req'[r].pc = "statDirs" => ReadDataDir(r) \/ StatDir(r)
<1>1. CASE GetArchived(r) \/ InspectStatus(r) \/ ContainerLogs(r) \/ InspectCreated(r)
  <2>1. NoneMade /\ disk' \in [Keys -> Data] /\ UNCHANGED disk
    BY <1>1, UnchangedMakesNone
       DEF GetArchived, InspectStatus, ContainerLogs, InspectCreated, Typed, TypeOK
  <2> QED
    BY <1>1, <2>1, AnswerStep
       DEF GetArchived, InspectStatus, ContainerLogs, InspectCreated, Replies, Frame
<1> QED
  BY <1>1, ListContainersStep, ReadDirStep, StatDirStep

LEMMA ReceiveStep ==
    ASSUME Typed, NEW r \in Requests, Receive(r)
    PROVE  /\ Typed' /\ UNCHANGED <<containers, disk>> /\ Others(r)
           /\ req'[r].pc \in {"idle", "find", "listContainers"}
           /\ req'[r].reply \in {"none", "rejected"} /\ (InFlight(r)' => req'[r].reply = "none")
<1>1. UNCHANGED <<containers, disk>> /\ NoneMade /\ disk' \in [Keys -> Data]
  BY UnchangedMakesNone
     DEF Receive, ReceiveCreate, ReceiveNamed, ReceiveList, Typed, TypeOK
<1>2. ASSUME NEW op \in CreateOps \cup NamedOps \cup ListOps,
             NEW k \in Keys \cup {EmptyKey}, NEW g \in Graphs \cup {NoGraph},
             NEW pc \in {"find", "listContainers"},
             op \in CreateOps => k \in Keys /\ g \in Graphs,
             op \in NamedOps => k \in LookupKeys,
             Accept(r, op, k, g, pc)
      PROVE  Typed' /\ Others(r) /\ req'[r].pc = pc /\ req'[r].reply = "none"
  <2> DEFINE new == [Idle("none") EXCEPT !.pc = pc, !.op = op, !.key = k, !.graph = g]
  <2>1. /\ new \in Request /\ new.pc = pc /\ new.op = op /\ new.key = k /\ new.graph = g
        /\ new.reply = "none"
    BY DEF Idle, Request, PCs, Replies
  <2>2. req' = [req EXCEPT ![r] = new]
    BY <1>2 DEF Accept
  <2> HIDE DEF new
  <2>3. req' \in [Requests -> Request] /\ Others(r) /\ req'[r] = new
    BY <2>1, <2>2 DEF Typed, TypeOK, Others
  <2>4. OpMatchesPC(r)'
    BY <1>2, <2>1, <2>3 DEF OpMatchesPC, BuildPCs, LaunchPCs, HoldPCs
  <2> QED
    BY <1>1, <2>1, <2>3, <2>4, TypedFrame
<1>3. CASE ReceiveCreate(r)
  <2>1. CASE Answer(r, "rejected")
    BY <1>1, <2>1, AnswerStep DEF Replies, Moves, InFlight
  <2>2. ASSUME NEW op \in Ops \cap CreateOps, NEW k \in Keys, NEW g \in Graphs,
               Accept(r, op, k, g, "find")
        PROVE  Typed' /\ Others(r) /\ req'[r].pc = "find" /\ req'[r].reply = "none"
    BY <1>2, <2>2 DEF CreateOps, NamedOps, DeleteOps
  <2> QED
    BY <1>1, <1>3, <2>1, <2>2 DEF ReceiveCreate
<1>4. CASE ReceiveNamed(r)
  <2>1. PICK op \in Ops \cap NamedOps, k \in LookupKeys :
            Accept(r, op, k, NoGraph, "find")
    BY <1>4 DEF ReceiveNamed
  <2>2. op \notin CreateOps /\ k \in Keys \cup {EmptyKey}
    BY LookupAssumption DEF NamedOps, DeleteOps, CreateOps
  <2> QED
    BY <1>1, <1>2, <2>1, <2>2
<1>5. CASE ReceiveList(r)
  <2>1. PICK op \in Ops \cap ListOps :
            Accept(r, op, EmptyKey, NoGraph, "listContainers")
    BY <1>5 DEF ReceiveList
  <2>2. op \notin CreateOps /\ op \notin NamedOps
    BY DEF ListOps, CreateOps, NamedOps, DeleteOps
  <2> QED
    BY <1>1, <1>2, <2>1, <2>2
<1> QED
  BY <1>3, <1>4, <1>5 DEF Receive

LEMMA CrashStep ==
    ASSUME Typed, Crash
    PROVE  /\ Typed' /\ UNCHANGED <<containers, disk>>
           /\ \A r \in Requests : req'[r].pc = "idle"
<1>1. UNCHANGED <<containers, disk>>
  BY DEF Crash
<1>2. Idle("lost") \in Request /\ Idle("lost").pc = "idle" /\ Idle("lost").op = "none"
  BY DEF Idle, Request, PCs, Replies
<1>3. \A r \in Requests :
          /\ req'[r] \in Request
          /\ req'[r].pc = "idle" /\ req'[r].op = "none"
  BY <1>2 DEF Crash, Typed, TypeOK, InFlight, OpMatchesPC
<1>4. req' \in [Requests -> Request]
  BY <1>3 DEF Crash
<1>5. \A r \in Requests : OpMatchesPC(r)'
  BY <1>3 DEF OpMatchesPC, BuildPCs, LaunchPCs, HoldPCs,
     CreateOps, DeleteOps, NamedOps
<1>6. \A c \in Containers : LabelsSet(c)'
  BY <1>1 DEF Typed, LabelsSet, Live
<1>7. TypeOK'
  BY <1>1, <1>3, <1>4 DEF Typed, TypeOK, LaunchPCs, HoldPCs
<1> QED
  BY <1>1, <1>3, <1>5, <1>6, <1>7 DEF Typed

-----------------------------------------------------------------------------
(* Types.                                                                  *)

LEMMA InitTyped == Init => Typed
<1> SUFFICES ASSUME Init PROVE Typed
  OBVIOUS
<1>1. Idle("none") \in Request /\ Idle("none").pc = "idle" /\ Idle("none").op = "none"
  BY DEF Idle, Request, PCs, Replies
<1>2. Absent \in Container /\ NoData \in Data
  BY DEF Absent, Container, Statuses, NoData, Data
<1>3. TypeOK
  BY <1>1, <1>2 DEF Init, TypeOK, LaunchPCs, HoldPCs
<1>4. \A r \in Requests : OpMatchesPC(r)
  BY <1>1 DEF Init, OpMatchesPC, BuildPCs, LaunchPCs, HoldPCs,
     CreateOps, DeleteOps, NamedOps
<1>5. \A c \in Containers : LabelsSet(c)
  BY DEF Init, LabelsSet, Live, Absent
<1> QED
  BY <1>3, <1>4, <1>5 DEF Typed

LEMMA HandleTyped ==
    ASSUME Typed, NEW r \in Requests, Handle(r)
    PROVE  Typed' /\ Moves(r)
BY FindStep, StopStep, RemoveStep, RestartStep, EnsureDirsStep, InstallToolsStep,
   WriteAgentYAMLStep, InstallSkillsStep, ContainerCreateStep, StartStep, PurgeStep,
   QueryStep DEF Handle, Frame

LEMMA NextTyped == Typed /\ [Next]_vars => Typed'
<1> SUFFICES ASSUME Typed, [Next]_vars PROVE Typed'
  OBVIOUS
<1>1. CASE Crash
  BY <1>1, CrashStep
<1>2. ASSUME NEW r \in Requests, Receive(r) PROVE Typed'
  BY <1>2, ReceiveStep
<1>3. ASSUME NEW r \in Requests, Handle(r) PROVE Typed'
  BY <1>3, HandleTyped
<1>4. CASE UNCHANGED vars
  BY <1>4 DEF vars, Typed, TypeOK, OpMatchesPC, LabelsSet, Live
<1> QED
  BY <1>1, <1>2, <1>3, <1>4 DEF Next

(* The deployer's state stays well typed in every behaviour, serialized or *)
(* not: replies, held ids, labels and data are what the code can produce.  *)
THEOREM TypeCorrect == Spec => []TypeOK
<1>1. Init => Typed
  BY InitTyped
<1>2. Typed /\ [Next]_vars => Typed'
  BY NextTyped
<1>3. Typed => TypeOK
  BY DEF Typed
<1> QED
  BY <1>1, <1>2, <1>3, PTL DEF Spec

-----------------------------------------------------------------------------
(* At most one container per key.                                          *)

LEMMA ExclusiveKept ==
    ASSUME Typed, Typed', NEW ops, "none" \notin ops, Exclusive(ops),
           NEW r \in Requests, Moves(r)
    PROVE  Exclusive(ops)'
<1> SUFFICES ASSUME NEW s \in Requests, NEW t \in Requests, s # t,
                    InFlight(s)', req'[s].op \in ops, InFlight(t)', req'[t].op \in ops
             PROVE  req'[s].key # req'[t].key
  BY DEF Exclusive
<1>1. ASSUME NEW u \in Requests, InFlight(u)', req'[u].op \in ops
      PROVE  InFlight(u) /\ req[u].op = req'[u].op /\ req[u].key = req'[u].key
  <2>1. CASE u = r
    BY <1>1, <2>1 DEF Moves, SameRequest, InFlight, Typed, OpMatchesPC
  <2>2. CASE u # r
    BY <1>1, <2>2 DEF Moves, Others, InFlight
  <2> QED
    BY <2>1, <2>2
<1> QED
  BY <1>1 DEF Exclusive

LEMMA NoneMadeKeeps ==
    ASSUME NoneMade, NEW r \in Requests, req'[r].key = req[r].key
    PROVE  /\ NoneLive(r) => NoneLive(r)'
           /\ OnlyTargetLive(r) /\ req'[r].target = req[r].target => OnlyTargetLive(r)'
BY DEF NoneMade, NoneLive, OnlyTargetLive

(* A handler's step keeps its own obligation.                              *)
LEMMA OwnerOwn ==
    ASSUME Typed, Singleton, NEW ops, "none" \notin ops, NEW r \in Requests,
           Owner(r, ops), Handle(r), NoneMade
    PROVE  Owner(r, ops)'
<1>0. Typed' /\ Moves(r)
  BY HandleTyped
<1> SUFFICES ASSUME req'[r].op \in ops, req'[r].pc # "idle"
             PROVE  Owner(r, ops)'
  BY DEF Owner, BuildPCs
<1>1. SameRequest(r) /\ req[r].op \in ops
  BY <1>0 DEF Moves, SameRequest
<1>2. /\ NoneLive(r) => NoneLive(r)'
      /\ OnlyTargetLive(r) /\ req'[r].target = req[r].target => OnlyTargetLive(r)'
  BY <1>1, NoneMadeKeeps DEF SameRequest
<1>3. CASE FindAgentContainer(r)
  <2>1. CASE req'[r].pc \in {"ensureDirs", "purge"} /\ LiveOf(req[r].key) = {}
    BY <1>2, <2>1 DEF NoneLive, LiveOf, Owner
  <2>2. CASE req'[r].pc = "stop" /\ req'[r].target \in LiveOf(req[r].key)
    <3>1. \A c \in Containers :
              Live(c) /\ containers[c].key = req[r].key => c = req'[r].target
      BY <2>2 DEF Singleton, LiveOf
    <3>2. OnlyTargetLive(r)'
      BY <1>1, <3>1 DEF NoneMade, OnlyTargetLive, SameRequest
    <3> QED
      BY <2>2, <3>2 DEF Owner, BuildPCs
  <2> QED
    BY <1>3, <2>1, <2>2, FindStep DEF Owner, BuildPCs
<1>4. CASE StopContainer(r)
  BY <1>1, <1>2, <1>4, StopStep DEF Owner, StopContainer, At, BuildPCs
<1>5. CASE RemoveContainer(r)
  <2>1. OnlyTargetLive(r)
    BY <1>1, <1>5 DEF Owner, RemoveContainer, At
  <2>2. /\ req'[r].pc \in {"ensureDirs", "purge"}
        /\ containers'[req[r].target] = Absent
    BY <1>5, RemoveStep
  <2>3. ASSUME NEW c \in Containers, containers'[c].key = req'[r].key PROVE ~Live(c)'
    <3>1. CASE c = req[r].target
      BY <2>2, <3>1 DEF Live, Absent
    <3>2. CASE c # req[r].target
      BY <1>1, <2>1, <2>3, <3>2 DEF NoneMade, OnlyTargetLive, SameRequest
    <3> QED
      BY <3>1, <3>2
  <2> QED
    BY <2>2, <2>3 DEF Owner, NoneLive
<1>6. CASE EnsureDirs(r) \/ InstallTools(r) \/ WriteAgentYAML(r) \/ InstallSkills(r)
  <2>1. NoneLive(r)
    BY <1>1, <1>6 DEF Owner, EnsureDirs, InstallTools, WriteAgentYAML, InstallSkills,
       At, BuildPCs
  <2>2. req'[r].pc \notin {"stop", "remove"}
    BY <1>6, EnsureDirsStep, InstallToolsStep, WriteAgentYAMLStep, InstallSkillsStep
  <2> QED
    BY <1>2, <2>1, <2>2 DEF Owner
<1>7. CASE \/ RestartContainer(r) \/ ContainerCreate(r) \/ ContainerStart(r)
           \/ CleanupStart(r) \/ InspectCreated(r) \/ PurgeData(r) \/ GetArchived(r)
           \/ InspectStatus(r) \/ ContainerLogs(r) \/ ListManagedContainers(r)
           \/ ReadDataDir(r) \/ StatDir(r)
  <2>1. req'[r].pc \notin BuildPCs \cup {"purge", "stop", "remove"}
    BY <1>7, RestartStep, ContainerCreateStep, StartStep, PurgeStep, QueryStep DEF BuildPCs
  <2> QED
    BY <2>1 DEF Owner
<1> QED
  BY <1>3, <1>4, <1>5, <1>6, <1>7 DEF Handle

LEMMA HandleMakes ==
    ASSUME Typed, NEW r \in Requests, Handle(r)
    PROVE  NoneMade \/ ContainerCreate(r)
BY FindStep, StopStep, RemoveStep, RestartStep, EnsureDirsStep, InstallToolsStep,
   WriteAgentYAMLStep, InstallSkillsStep, StartStep, PurgeStep, QueryStep
   DEF Handle, Frame

LEMMA HandleOwner ==
    ASSUME NEW ops, CreateOps \subseteq ops, "none" \notin ops, OwnerInv(ops),
           NEW r \in Requests, Handle(r)
    PROVE  OwnerInv(ops)'
<1>1. Typed /\ Typed' /\ Moves(r) /\ Exclusive(ops)'
  BY HandleTyped, ExclusiveKept DEF OwnerInv
<1>2. CASE NoneMade
  <2>1. Singleton'
    BY <1>2 DEF OwnerInv, Singleton, NoneMade
  <2>2. ASSUME NEW s \in Requests PROVE Owner(s, ops)'
    <3>1. CASE s = r
      BY <1>2, <3>1, OwnerOwn DEF OwnerInv
    <3>2. CASE s # r
      <4>1. req'[s] = req[s] /\ Owner(s, ops)
        BY <1>1, <3>2 DEF Moves, Others, OwnerInv
      <4> QED
        BY <1>2, <4>1, NoneMadeKeeps DEF Owner
    <3> QED
      BY <3>1, <3>2
  <2> QED
    BY <1>1, <2>1, <2>2 DEF OwnerInv
<1>3. ASSUME NEW c \in Containers, Makes(r, c), ContainerCreate(r) PROVE OwnerInv(ops)'
  <2>1. /\ req[r].op \in ops /\ InFlight(r) /\ NoneLive(r)
    BY <1>1, <1>3, BuildKey DEF ContainerCreate, At, BuildPCs, OwnerInv, Owner, InFlight
  <2>2. /\ containers'[c].key = req[r].key
        /\ \A d \in Containers \ {c} : containers'[d] = containers[d]
    BY <1>1, <1>3 DEF Makes, With, NewContainer, Typed, TypeOK
  <2>3. Singleton'
    BY <1>3, <2>1, <2>2 DEF OwnerInv, Singleton, NoneLive, Live
  <2>4. ASSUME NEW s \in Requests PROVE Owner(s, ops)'
    <3>1. CASE s = r
      <4>1. req'[r].pc \in {"idle", "containerStart"}
        BY <1>1, <1>3, ContainerCreateStep
      <4> QED
        BY <3>1, <4>1 DEF Owner, BuildPCs
    <3>2. CASE s # r
      <4>1. req'[s] = req[s] /\ Owner(s, ops)
        BY <1>1, <3>2 DEF Moves, Others, OwnerInv
      <4>2. CASE req[s].op \in ops /\ InFlight(s)
        <5>1. req[s].key # req[r].key
          BY <2>1, <3>2, <4>2 DEF OwnerInv, Exclusive
        <5> QED
          BY <2>2, <4>1, <5>1 DEF Owner, NoneLive, OnlyTargetLive, Live
      <4>3. CASE req[s].op \notin ops \/ ~InFlight(s)
        BY <4>1, <4>3 DEF Owner, InFlight, BuildPCs
      <4> QED
        BY <4>2, <4>3
    <3> QED
      BY <3>1, <3>2
  <2> QED
    BY <1>1, <2>3, <2>4 DEF OwnerInv
<1> QED
  BY <1>1, <1>2, <1>3, HandleMakes, ContainerCreateStep

LEMMA ReceiveOwner ==
    ASSUME NEW ops, OwnerInv(ops), NEW r \in Requests, Receive(r), Exclusive(ops)'
    PROVE  OwnerInv(ops)'
<1>1. /\ Typed' /\ UNCHANGED <<containers, disk>> /\ Others(r)
      /\ req'[r].pc \in {"idle", "find", "listContainers"}
  BY ReceiveStep DEF OwnerInv
<1>2. Singleton'
  BY <1>1 DEF OwnerInv, Singleton, Live
<1>3. ASSUME NEW s \in Requests PROVE Owner(s, ops)'
  <2>1. CASE s = r
    BY <1>1, <2>1 DEF Owner, BuildPCs
  <2>2. CASE s # r
    BY <1>1, <2>2 DEF OwnerInv, Owner, Others, NoneLive, OnlyTargetLive, Live
  <2> QED
    BY <2>1, <2>2
<1> QED
  BY <1>1, <1>2, <1>3 DEF OwnerInv

LEMMA CrashOwner ==
    ASSUME NEW ops, OwnerInv(ops), Crash
    PROVE  OwnerInv(ops)'
<1>1. /\ Typed' /\ UNCHANGED <<containers, disk>>
      /\ \A r \in Requests : req'[r].pc = "idle"
  BY CrashStep DEF OwnerInv
<1>2. Singleton' /\ Exclusive(ops)'
  BY <1>1 DEF OwnerInv, Singleton, Live, Exclusive, InFlight
<1>3. \A r \in Requests : Owner(r, ops)'
  BY <1>1 DEF Owner, BuildPCs
<1> QED
  BY <1>1, <1>2, <1>3 DEF OwnerInv

LEMMA StutterOwner ==
    ASSUME NEW ops, OwnerInv(ops), UNCHANGED vars
    PROVE  OwnerInv(ops)'
<1>1. Typed'
  BY NextTyped DEF OwnerInv
<1>2. Singleton' /\ Exclusive(ops)'
  BY DEF OwnerInv, Singleton, Live, Exclusive, InFlight, vars
<1>3. \A r \in Requests : Owner(r, ops)'
  BY DEF OwnerInv, Owner, NoneLive, OnlyTargetLive, Live, vars
<1> QED
  BY <1>1, <1>2, <1>3 DEF OwnerInv

LEMMA InitOwner ==
    ASSUME NEW ops, Init
    PROVE  OwnerInv(ops)
<1>1. Typed
  BY InitTyped
<1>2. /\ \A r \in Requests : req[r].pc = "idle"
      /\ \A c \in Containers : ~Live(c)
  BY DEF Init, Idle, Live, Absent
<1> QED
  BY <1>1, <1>2 DEF OwnerInv, Exclusive, InFlight, Singleton, Owner, BuildPCs

(* When no two Creates of one key overlap, at most one container exists per*)
(* deployment key, whatever Deletes, stops and restarts run beside them,   *)
(* whatever calls fail and whenever the deployer crashes.                  *)
THEOREM SingletonHolds == SerialCreateSpec => []Singleton
<1> DEFINE ops == CreateOps
<1>0. CreateOps \subseteq ops /\ "none" \notin ops
  BY DEF CreateOps
<1>1. Init => SingletonInv
  BY InitOwner DEF SingletonInv
<1>2. SingletonInv /\ [SerialCreateNext]_vars => SingletonInv'
  <2> SUFFICES ASSUME OwnerInv(CreateOps), [SerialCreateNext]_vars
               PROVE  OwnerInv(CreateOps)'
    BY DEF SingletonInv
  <2>1. CASE Crash
    BY <2>1, CrashOwner
  <2>2. ASSUME NEW r \in Requests, Receive(r), SerialCreates' PROVE OwnerInv(CreateOps)'
    BY <2>2, ReceiveOwner DEF SerialCreates
  <2>3. ASSUME NEW r \in Requests, Handle(r) PROVE OwnerInv(CreateOps)'
    BY <1>0, <2>3, HandleOwner
  <2>4. CASE UNCHANGED vars
    BY <2>4, StutterOwner
  <2> QED
    BY <2>1, <2>2, <2>3, <2>4 DEF SerialCreateNext
<1>3. SingletonInv => Singleton
  BY DEF SingletonInv, OwnerInv
<1> QED
  BY <1>1, <1>2, <1>3, PTL DEF SerialCreateSpec

-----------------------------------------------------------------------------
(* Containers and their data.                                              *)

(* Only a Create or a purging Delete whose key has no container left       *)
(* changes data, and it changes its own key's.                             *)
LEMMA HandleData ==
    ASSUME EmptyKey \notin LookupKeys, OwnerInv(WriterOps),
           NEW r \in Requests, Handle(r), NEW k \in Keys, disk'[k] # disk[k]
    PROVE  /\ req[r].key = k /\ req[r].op \in WriterOps /\ InFlight(r)
           /\ NoneLive(r) /\ NoneMade
<1>1. Typed /\ Owner(r, WriterOps)
  BY DEF OwnerInv
<1>2. CASE EnsureDirs(r) \/ InstallTools(r) \/ WriteAgentYAML(r) \/ InstallSkills(r)
  <2>1. req[r].pc \in BuildPCs
    BY <1>2 DEF EnsureDirs, InstallTools, WriteAgentYAML, InstallSkills, At, BuildPCs
  <2>2. OwnData(r) /\ NoneMade
    BY <1>1, <1>2, EnsureDirsStep, InstallToolsStep, WriteAgentYAMLStep, InstallSkillsStep
       DEF Frame
  <2>3. req[r].op \in WriterOps
    BY <1>1, <2>1, BuildKey DEF WriterOps
  <2> QED
    BY <1>1, <2>1, <2>2, <2>3 DEF OwnData, Owner, InFlight, BuildPCs
<1>3. CASE PurgeData(r)
  <2>1. req[r].pc = "purge" /\ req[r].op = "purge"
    BY <1>1, <1>3 DEF PurgeData, At, Typed, OpMatchesPC
  <2>2. req[r].key # EmptyKey
    BY <1>1, <2>1 DEF Typed, OpMatchesPC, NamedOps, DeleteOps
  <2>3. req[r].key = k /\ NoneMade
    BY <1>1, <1>3, <2>2, PurgeStep DEF DataUnder, Frame
  <2> QED
    BY <1>1, <2>1, <2>3 DEF Owner, WriterOps, DeleteOps, InFlight
<1>4. CASE ~\/ EnsureDirs(r) \/ InstallTools(r) \/ WriteAgentYAML(r) \/ InstallSkills(r)
            \/ PurgeData(r)
  <2>1. UNCHANGED disk
    BY <1>1, <1>4, FindStep, StopStep, RemoveStep, RestartStep, ContainerCreateStep,
       StartStep, QueryStep DEF Handle
  <2> QED
    BY <2>1
<1> QED
  BY <1>2, <1>3, <1>4

(* The data of a Create advances with its pc.                              *)
LEMMA ProgressOwn ==
    ASSUME Typed, NEW r \in Requests, DataProgress(r), Handle(r)
    PROVE  DataProgress(r)'
<1> DEFINE Tracked == {"tools", "writeDoc", "skills", "containerCreate"}
<1> SUFFICES ASSUME req'[r].pc \in Tracked PROVE DataProgress(r)'
  BY DEF DataProgress
<1>1. SameRequest(r) /\ Dirs \cup {"agents"} = Dirs
  BY HandleTyped DEF Moves, Dirs
<1>2. CASE EnsureDirs(r)
  BY <1>1, <1>2, EnsureDirsStep DEF DataProgress, SameRequest
<1>3. CASE InstallTools(r)
  BY <1>1, <1>3, InstallToolsStep DEF DataProgress, SameRequest, InstallTools, At
<1>4. CASE WriteAgentYAML(r)
  BY <1>1, <1>4, WriteAgentYAMLStep DEF DataProgress, SameRequest, WriteAgentYAML, At
<1>5. CASE InstallSkills(r)
  BY <1>1, <1>5, InstallSkillsStep DEF DataProgress, SameRequest, InstallSkills, At
<1>6. CASE ~\/ EnsureDirs(r) \/ InstallTools(r) \/ WriteAgentYAML(r) \/ InstallSkills(r)
  <2>1. req'[r].pc \notin Tracked
    BY <1>6, FindStep, StopStep, RemoveStep, RestartStep, ContainerCreateStep,
       StartStep, PurgeStep, QueryStep DEF Handle
  <2> QED
    BY <2>1
<1> QED
  BY <1>2, <1>3, <1>4, <1>5, <1>6

LEMMA HandleDataInv ==
    ASSUME EmptyKey \notin LookupKeys, DataInv, NEW r \in Requests, Handle(r)
    PROVE  DataInv'
<1>1. OwnerInv(WriterOps) /\ OwnerInv(WriterOps)' /\ Typed /\ Typed' /\ Moves(r)
  <2>1. CreateOps \subseteq WriterOps /\ "none" \notin WriterOps
    BY DEF WriterOps, CreateOps, DeleteOps
  <2> QED
    BY <2>1, HandleOwner, HandleTyped DEF DataInv, OwnerInv
<1>2. ASSUME NEW s \in Requests PROVE DataProgress(s)'
  <2>1. CASE s = r
    BY <1>1, <2>1, ProgressOwn DEF DataInv
  <2>2. CASE s # r
    <3>1. req'[s] = req[s] /\ DataProgress(s)
      BY <1>1, <2>2 DEF Moves, Others, DataInv
    <3>2. CASE req[s].pc \in BuildPCs
      <4>1. /\ req[s].key \in Keys /\ req[s].op \in WriterOps /\ InFlight(s)
        BY <1>1, <3>2, BuildKey DEF WriterOps, InFlight, BuildPCs
      <4>2. disk'[req[s].key] = disk[req[s].key]
        BY <1>1, <2>2, <4>1, HandleData DEF OwnerInv, Exclusive
      <4> QED
        BY <3>1, <4>2 DEF DataProgress
    <3>3. CASE req[s].pc \notin BuildPCs
      BY <3>1, <3>3 DEF DataProgress, BuildPCs
    <3> QED
      BY <3>2, <3>3
  <2> QED
    BY <2>1, <2>2
<1>3. DataIntact'
  <2> SUFFICES ASSUME NEW c \in Containers, Live(c)'
               PROVE  disk'[containers'[c].key] = Installed(containers'[c].root)
    BY DEF DataIntact, Installed
  <2>1. CASE NoneMade
    <3>1. /\ Live(c) /\ containers'[c].key = containers[c].key
          /\ containers'[c].root = containers[c].root
      BY <2>1 DEF NoneMade
    <3>2. /\ containers[c].key \in Keys
          /\ disk[containers[c].key] = Installed(containers[c].root)
      BY <1>1, <3>1 DEF DataInv, DataIntact, Typed, LabelsSet
    <3>3. disk'[containers[c].key] = disk[containers[c].key]
      BY <1>1, <3>1, <3>2, HandleData DEF NoneLive
    <3> QED
      BY <3>1, <3>2, <3>3
  <2>2. ASSUME NEW d \in Containers, Makes(r, d), ContainerCreate(r)
        PROVE  disk'[containers'[c].key] = Installed(containers'[c].root)
    <3>1. UNCHANGED disk
      BY <1>1, <2>2, ContainerCreateStep
    <3>2. CASE c # d
      <4>1. containers'[c] = containers[c] /\ Live(c)
        BY <2>2, <3>2 DEF Makes, With, Live
      <4> QED
        BY <3>1, <4>1 DEF DataInv, DataIntact
    <3>3. CASE c = d
      <4>1. containers'[c].key = req[r].key /\ containers'[c].root = req[r].graph
        BY <1>1, <2>2, <3>3 DEF Makes, With, NewContainer, Typed, TypeOK
      <4>2. disk[req[r].key] \in Data
        BY <1>1, <2>2, BuildKey DEF ContainerCreate, At, BuildPCs
      <4>3. /\ disk[req[r].key].dirs = Dirs /\ disk[req[r].key].tools = req[r].graph
            /\ disk[req[r].key].doc = req[r].graph /\ disk[req[r].key].skills = req[r].graph
        BY <2>2 DEF DataInv, DataProgress, ContainerCreate, At
      <4>4. disk[req[r].key] = Installed(req[r].graph)
        BY <4>2, <4>3 DEF Data, Installed
      <4> QED
        BY <3>1, <4>1, <4>4
    <3> QED
      BY <3>2, <3>3
  <2> QED
    BY <1>1, <2>1, <2>2, HandleMakes, ContainerCreateStep
<1> QED
  BY <1>1, <1>2, <1>3 DEF DataInv

LEMMA QuietDataInv ==
    ASSUME DataInv, OwnerInv(WriterOps)', UNCHANGED <<containers, disk>>,
           \A r \in Requests :
              \/ req'[r] = req[r]
              \/ req'[r].pc \in {"idle", "find", "listContainers"}
    PROVE  DataInv'
<1>1. DataIntact'
  BY DEF DataInv, DataIntact, Live, Installed
<1>2. \A r \in Requests : DataProgress(r)'
  BY DEF DataInv, DataProgress
<1> QED
  BY <1>1, <1>2 DEF DataInv

LEMMA InitDataInv == Init => DataInv
<1> SUFFICES ASSUME Init PROVE DataInv
  OBVIOUS
<1>1. OwnerInv(WriterOps)
  BY InitOwner
<1>2. /\ \A r \in Requests : req[r].pc = "idle"
      /\ \A c \in Containers : ~Live(c)
  BY DEF Init, Idle, Live, Absent
<1> QED
  BY <1>1, <1>2 DEF DataInv, DataProgress, DataIntact

(* What serial writers keep whatever the names.                            *)
LEMMA SerialOwnerStep == OwnerInv(WriterOps) /\ [SerialNext]_vars => OwnerInv(WriterOps)'
<1> SUFFICES ASSUME OwnerInv(WriterOps), [SerialNext]_vars PROVE OwnerInv(WriterOps)'
  OBVIOUS
<1>1. CASE Crash
  BY <1>1, CrashOwner
<1>2. ASSUME NEW r \in Requests, Receive(r), SerialWriters' PROVE OwnerInv(WriterOps)'
  BY <1>2, ReceiveOwner DEF SerialWriters
<1>3. ASSUME NEW r \in Requests, Handle(r) PROVE OwnerInv(WriterOps)'
  <2>1. CreateOps \subseteq WriterOps /\ "none" \notin WriterOps
    BY DEF WriterOps, CreateOps, DeleteOps
  <2> QED
    BY <1>3, <2>1, HandleOwner
<1>4. CASE UNCHANGED vars
  BY <1>4, StutterOwner
<1> QED
  BY <1>1, <1>2, <1>3, <1>4 DEF SerialNext

LEMMA SerialDataStep ==
    ASSUME EmptyKey \notin LookupKeys
    PROVE  DataInv /\ [SerialNext]_vars => DataInv'
<1> SUFFICES ASSUME DataInv, [SerialNext]_vars PROVE DataInv'
  OBVIOUS
<1>0. Typed /\ OwnerInv(WriterOps)'
  BY SerialOwnerStep DEF DataInv, OwnerInv
<1>1. CASE Crash
  <2>1. /\ UNCHANGED <<containers, disk>>
        /\ \A r \in Requests : req'[r].pc = "idle"
    BY <1>0, <1>1, CrashStep
  <2> QED
    BY <1>0, <2>1, QuietDataInv
<1>2. ASSUME NEW r \in Requests, Receive(r) PROVE DataInv'
  <2>1. /\ UNCHANGED <<containers, disk>> /\ Others(r)
        /\ req'[r].pc \in {"idle", "find", "listContainers"}
    BY <1>0, <1>2, ReceiveStep
  <2> QED
    BY <1>0, <2>1, QuietDataInv DEF Others
<1>3. ASSUME NEW r \in Requests, Handle(r) PROVE DataInv'
  BY <1>3, HandleDataInv
<1>4. CASE UNCHANGED vars
  BY <1>0, <1>4, QuietDataInv DEF vars
<1> QED
  BY <1>1, <1>2, <1>3, <1>4 DEF SerialNext

(* When no two of Create and Delete of one key overlap, and no name        *)
(* sanitizes to the empty key, every container mounts the complete data of *)
(* the graph it was created for, through failed installs, writes, daemon   *)
(* calls and purges, and crashes between any two of them.                  *)
THEOREM DataIntactHolds ==
    ASSUME EmptyKey \notin LookupKeys
    PROVE  SerialSpec => []DataIntact
<1>1. Init => DataInv
  BY InitDataInv
<1>2. DataInv /\ [SerialNext]_vars => DataInv'
  BY SerialDataStep
<1>3. DataInv => DataIntact
  BY DEF DataInv
<1> QED
  BY <1>1, <1>2, <1>3, PTL DEF SerialSpec
=============================================================================
