----------------------- MODULE LifecycleQueriesProofs -----------------------
(***************************************************************************)
(* The proof of NothingHidden, for any number of keys, graphs, containers  *)
(* and concurrent requests.  It rests on DeployedInv, by which a container *)
(* has a document beside it, so that what a listing misses on the daemon   *)
(* it finds on the disk, and on one more invariant: a scan has seen, or    *)
(* still has to stat, every deployment that has lasted.                    *)
(***************************************************************************)
EXTENDS LifecycleQueries, AgentLifecycleActionProofs

Scanned(r) == At(r, "statDirs") => lasting[r] \subseteq req[r].seen \cup req[r].left

QueryInv == DeployedInv /\ \A r \in Requests : Scanned(r)

AllDocumented == \A k \in Existing : HasDoc(k)

LEMMA ExistingHasDoc == DeployedInv => AllDocumented
<1> SUFFICES ASSUME DeployedInv, NEW k \in Existing PROVE HasDoc(k)
  BY DEF AllDocumented
<1>1. CASE HasDoc(k)
  BY <1>1
<1>2. CASE LiveOf(k) # {}
  <2>1. PICK c \in Containers : Live(c) /\ containers[c].key = k
    BY <1>2 DEF LiveOf
  <2> QED
    BY <2>1, LiveHasDoc
<1> QED
  BY <1>1, <1>2 DEF Existing

(* What a query in flight remembers only shrinks.                          *)
LEMMA LastingShrinks ==
    ASSUME NEW r \in Requests, InFlight(r), Remember
    PROVE  lasting'[r] \subseteq Still(r)
BY DEF Remember

LEMMA StillExists ==
    ASSUME DeployedInv', NEW r \in Requests, NEW k \in Still(r)
    PROVE  k \in lasting[r] /\ k \in Keys /\ disk'[k].doc # NoGraph /\ k \notin Hidden(r)
<1>1. k \in lasting[r] /\ k \in Existing' /\ k \notin Hidden(r)
  BY DEF Still
<1>2. \A j \in Existing' : disk'[j].doc # NoGraph
  <2>1. AllDocumented'
    BY ExistingHasDoc, PTL
  <2> QED
    BY <2>1 DEF AllDocumented, HasDoc
<1> QED
  BY <1>1, <1>2 DEF Existing

(* One step of a scan: what lasts is seen, or still to stat.               *)
LEMMA ScanKeeps ==
    ASSUME QueryInv, DeployedInv', NEW r \in Requests, ReadDataDir(r) \/ StatDir(r),
           ~(req'[r].pc = "idle" /\ req'[r].reply = "error"),
           NEW k \in Still(r)
    PROVE  k \in req'[r].seen \cup req'[r].left
<1>1. k \in lasting[r] /\ k \in Keys /\ disk'[k].doc # NoGraph /\ k \notin Hidden(r)
  BY StillExists
<1>2. Typed
  BY DEF QueryInv, DeployedInv, HoldInv
<1>3. CASE ReadDataDir(r)
  <2>1. UNCHANGED disk
    BY <1>3 DEF ReadDataDir
  <2>2. HasDoc(k)
    BY <1>1, <2>1 DEF HasDoc
  <2> QED
    BY <1>1, <1>2, <1>3, <2>2, ReadDirStep
<1>4. CASE StatDir(r)
  <2>1. At(r, "statDirs") /\ UNCHANGED disk
    BY <1>4 DEF StatDir
  <2>2. HasDoc(k) /\ k \in req[r].seen \cup req[r].left
    BY <1>1, <2>1 DEF HasDoc, QueryInv, Scanned
  <2>3. PICK j \in req[r].left :
           /\ req'[r].left = req[r].left \ {j}
           /\ \/ HasDoc(j) /\ req'[r].seen = req[r].seen \cup {j}
              \/ (Faults \/ ~HasDoc(j)) /\ req'[r].seen = req[r].seen
    BY <1>2, <1>4, StatDirStep
  <2>4. CASE k # j
    BY <2>2, <2>3, <2>4
  <2>5. CASE k = j
    BY <1>1, <2>1, <2>2, <2>3, <2>5 DEF Hidden
  <2> QED
    BY <2>4, <2>5
<1> QED
  BY <1>3, <1>4

(* Only a scan leads to the next stat.                                     *)
LEMMA ScannedOwn ==
    ASSUME QueryInv, DeployedInv', NEW r \in Requests, Handle(r), Remember
    PROVE  Scanned(r)'
<1> SUFFICES ASSUME req'[r].pc = "statDirs" PROVE Scanned(r)'
  BY DEF Scanned, At
<1>1. Typed /\ InFlight(r)
  BY HandleInFlight DEF QueryInv, DeployedInv, HoldInv
<1>2. ReadDataDir(r) \/ StatDir(r)
  BY <1>1, FindStep, StopStep, RemoveStep, RestartStep, EnsureDirsStep, InstallToolsStep,
     WriteAgentYAMLStep, InstallSkillsStep, ContainerCreateStep, StartStep, PurgeStep,
     QueryStep DEF Handle
<1>3. Still(r) \subseteq req'[r].seen \cup req'[r].left
  BY <1>2, ScanKeeps
<1> QED
  BY <1>1, <1>3, LastingShrinks DEF Scanned

LEMMA ScannedOther ==
    ASSUME NEW r \in Requests, Scanned(r), req'[r] = req[r], Remember
    PROVE  Scanned(r)'
<1> SUFFICES ASSUME At(r, "statDirs") PROVE Scanned(r)'
  BY DEF Scanned, At
<1>1. lasting'[r] \subseteq lasting[r]
  BY LastingShrinks DEF InFlight, At, Still
<1> QED
  BY <1>1 DEF Scanned, At

LEMMA QueryInvStep ==
    QueryInv /\ DeployedInv' /\ [SerialNext /\ Remember]_queryVars => QueryInv'
<1> SUFFICES ASSUME QueryInv, DeployedInv', [SerialNext /\ Remember]_queryVars,
                    NEW r \in Requests
             PROVE  Scanned(r)'
  BY DEF QueryInv
<1>0. Typed /\ Scanned(r)
  BY DEF QueryInv, DeployedInv, HoldInv
<1>1. CASE UNCHANGED queryVars
  BY <1>0, <1>1 DEF queryVars, Scanned, At
<1>2. CASE Crash
  BY <1>0, <1>2, CrashStep DEF Scanned, At
<1>3. ASSUME NEW s \in Requests, Receive(s), Remember PROVE Scanned(r)'
  <2>1. Others(s) /\ req'[s].pc # "statDirs"
    BY <1>0, <1>3, ReceiveStep
  <2>2. CASE s = r
    BY <2>1, <2>2 DEF Scanned, At
  <2>3. CASE s # r
    BY <1>0, <1>3, <2>1, <2>3, ScannedOther DEF Others
  <2> QED
    BY <2>2, <2>3
<1>4. ASSUME NEW s \in Requests, Handle(s), Remember PROVE Scanned(r)'
  <2>1. Others(s)
    BY <1>0, <1>4, HandleTyped DEF Moves
  <2>2. CASE s = r
    BY <1>4, <2>2, ScannedOwn
  <2>3. CASE s # r
    BY <1>0, <1>4, <2>1, <2>3, ScannedOther DEF Others
  <2> QED
    BY <2>2, <2>3
<1> QED
  BY <1>1, <1>2, <1>3, <1>4 DEF SerialNext

-----------------------------------------------------------------------------

LEMMA NotFoundStep ==
    ASSUME QueryInv, DeployedInv', [SerialNext]_vars, NEW r \in Requests,
           At(r, "stat"), req'[r].reply = "notFound"
    PROVE  req[r].key \notin Still(r)
<1>1. Typed /\ InFlight(r) /\ Handle(r)
  BY OwnAnswer, SerialIsNext DEF QueryInv, DeployedInv, HoldInv, InFlight, At
<1>2. GetArchived(r)
  BY <1>1 DEF Handle, FindAgentContainer, StopContainer, RemoveContainer,
     RestartContainer, EnsureDirs, InstallTools, WriteAgentYAML, InstallSkills,
     ContainerCreate, ContainerStart, CleanupStart, InspectCreated, PurgeData,
     InspectStatus, ContainerLogs, ListManagedContainers, ReadDataDir, StatDir, At
<1> SUFFICES ASSUME req[r].key \in Still(r) PROVE FALSE
  OBVIOUS
<1>3. /\ req[r].key \in Keys /\ disk'[req[r].key].doc # NoGraph
      /\ req[r].key \notin Hidden(r)
  BY StillExists
<1>4. HasDoc(req[r].key)
  BY <1>2, <1>3 DEF GetArchived, HasDoc
<1>5. ~Answer(r, "archived")
  BY <1>1, AnswerReply DEF Replies, Typed
<1>6. Faults
  BY <1>2, <1>3, <1>4, <1>5 DEF GetArchived
<1> QED
  BY <1>3, <1>4, <1>6 DEF Hidden

LEMMA ListedStep ==
    ASSUME QueryInv, DeployedInv', [SerialNext]_vars, NEW r \in Requests,
           req[r].pc \in {"listDirs", "statDirs"}, req'[r].reply = "listed"
    PROVE  Still(r) \subseteq req'[r].seen
<1>1. Typed /\ InFlight(r) /\ Handle(r) /\ req[r].reply = "none"
  BY OwnAnswer, SerialIsNext DEF QueryInv, DeployedInv, HoldInv, InFlight, Waiting
<1>2. ReadDataDir(r) \/ StatDir(r)
  BY <1>1 DEF Handle, FindAgentContainer, StopContainer, RemoveContainer,
     RestartContainer, EnsureDirs, InstallTools, WriteAgentYAML, InstallSkills,
     ContainerCreate, ContainerStart, CleanupStart, InspectCreated, PurgeData, GetArchived,
     InspectStatus, ContainerLogs, ListManagedContainers, At
<1>3. req'[r].left = {}
  BY <1>1, <1>2, ReadDirStep, StatDirStep DEF SameRequest
<1> QED
  BY <1>2, <1>3, ScanKeeps

LEMMA QuerySpecIsSerial == QuerySpec => SerialSpec
<1>1. [SerialNext /\ Remember]_queryVars => [SerialNext]_vars
  BY DEF queryVars, vars
<1> QED
  BY <1>1, PTL DEF QuerySpec, SerialSpec

(* When writers of a key do not overlap and no name is empty, whatever     *)
(* fails, crashes or is written meanwhile: a 404 of Get is never about a   *)
(* deployment that has existed since the query came, and a listing never   *)
(* leaves one out, except one whose own document could not be read.        *)
THEOREM NothingHiddenHolds ==
    ASSUME EmptyKey \notin LookupKeys
    PROVE  QuerySpec => NothingHidden
<1>1. QuerySpec => []DeployedInv
  BY QuerySpecIsSerial, DeployedInvHolds, PTL
<1>2. Init /\ DeployedInv => QueryInv
  BY DEF Init, Idle, QueryInv, Scanned, At
<1>3. QueryInv /\ DeployedInv' /\ [SerialNext /\ Remember]_queryVars => QueryInv'
  BY QueryInvStep
<1>4. QueryInv /\ DeployedInv' /\ [SerialNext /\ Remember]_queryVars =>
      [\A r \in Requests :
         /\ At(r, "stat") /\ req'[r].reply = "notFound" => req[r].key \notin Still(r)
         /\ req[r].pc \in {"listDirs", "statDirs"} /\ req'[r].reply = "listed"
              => Still(r) \subseteq req'[r].seen]_queryVars
  <2>1. [SerialNext /\ Remember]_queryVars => [SerialNext]_vars
    BY DEF queryVars, vars
  <2> QED
    BY <2>1, NotFoundStep, ListedStep
<1> QED
  BY <1>1, <1>2, <1>3, <1>4, PTL DEF QuerySpec, NothingHidden
=============================================================================
