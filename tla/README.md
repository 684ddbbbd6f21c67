# Verification of agent-deployer

TLA+ models of agent-deployer, the service that deploys agent graphs as Docker
containers: what its REST requests do to the daemon and to the disk when they
overlap, fail and crash; model checks on small instances; proofs for any size.

## 1. The system

| Component | State it keeps | Operations | Module |
|---|---|---|---|
| Lifecycle service (`internal/service/agent.go`) | none of its own; works on the daemon and the disk, no lock | Create, Get, List, GetStatus, GetLogs, Stop, Restart, Delete | `AgentLifecycle`, `LifecycleQueries` |
| Docker client (`internal/docker/client.go`) | the daemon's containers, with labels | find, list, create+start+inspect, stop, restart, remove, logs | `AgentLifecycle` |
| Agent storage (`internal/storage/storage.go`) | `<DataDir>/<key>/agents/{agents.yaml, agents.yaml.tmp, prompts/, deploy-manifest.json}` | WriteAgentYAML, ReadAgentYAML, Exists, ListAgentDirs, EnsureDirs, RemoveAll | `AgentStorage`, `DeploymentDocument`; the last four in `AgentLifecycle` |
| Artifact closure (`internal/service/artifacts.go`) | `agents/tools`, `agents/skills/<agent>` | installClosureTools, installClosureSkills | `ArtifactClosure`; one step each of `AgentLifecycle` |
| Tool installer (`internal/tools`) | `tools/<name><ext>` and its `.sha256` marker | Install | `ArtifactClosure` |
| Skill installer (`internal/skills`) | `<agent>/<skill>/` with its `.sha256` marker | Install | `ArtifactClosure`, `SkillArchive` |
| Download (`internal/download`) | a staging file | Fetch | `ArtifactClosure` |
| Request validation (`internal/model`) | none | ValidateCreateRequest, cycle detection | `Admission`; its place in Create in `AgentLifecycle` |
| Runtime image gate (`internal/service/runtime_image.go`) | none | checkRuntimeImage | `Admission` |
| Naming (`internal/naming`) | none | SanitizeName, ContainerName, InstanceID | the keys of `AgentLifecycle` |
| HTTP handlers, auth, health (`internal/handler`) | none | status of each answer | one goroutine per request; Create's error switch in `ArtifactClosure` |
| Configuration, main | read once | Load | not modelled |

gin runs every request in a goroutine of its own. The handlers share the daemon
and the data directory and nothing serializes them: what a request has found may
be gone, or have been joined by another container, when it acts. The deployer
persists nothing but the files; after a restart the daemon's labels and the
directories are all it knows.

What makes each component correct:

* lifecycle: at most one container per deployment key; a container exists only
  over complete data of its own graph; an answer is true when it is given, and a query
  misses nothing that was there all along; a deployment never disturbs another; nothing left behind blocks a later request;
* storage: the document is complete at every moment and switches at one point;
  an error means nothing has changed;
* installers: nothing gets into place unverified; a cache hit means the artifact
  has the declared content; a failure is blamed on the side that caused it;
* validation: exactly the graphs that are acyclic, closed and unambiguous pass;
* gate: no declared key reaches a runtime that would drop it.

`PROJECT.json` lists the hazards of this code at their lines.

## 2. The models

**`AgentLifecycle`**: `containers` is the daemon's state by container id, `disk`
the data by key (its directories, the graph `agents.yaml` declares, the graphs
whose tools and whose skills are installed), `req` the request each handler
goroutine serves. One action is one call on the daemon or the disk, together with
the branch the method takes on its result; `req[r].pc` names the call to come.
`Receive*` starts a request, `Crash` ends all of them and leaves the rest. A graph
is a model value and stands for its document and its artifacts.

* The daemon is external. A call answers ok and has taken effect, or an error
  with or without its effect; it has no effect after its answer. A container id is
  taken again only when no container and no handler holds it, which stands for ids
  that are never taken again. An exited container that the daemon restarts
  by itself (`unless-stopped`) is not distinguished from a running one.
* `InstallTools`, `InstallSkills`, `WriteAgentYAML` and `PurgeData` are one step
  each; a failed install or purge leaves any part of its work, and a crash inside
  one is its failure followed by the crash. What happens between the file-system
  calls of two writers of one directory is the matter of `AgentStorage` and of
  `ArtifactClosure`.
* A listing is one action to read the containers, one to read the data directory
  (`ReadDataDir`), one per entry to stat its `agents.yaml` (`StatDir`, in any order);
  `left` holds the entries to come. A stat that fails, for whatever reason, counts as
  "no data" in Get (`GetArchived`) and skips the entry in List, as `Exists` and
  `ListAgentDirs` have it. `os.ReadDir` itself sees the directory at one moment.
* `PurgeData` ignores its error and takes every deployment's data when the key is
  empty, as `filepath.Join(DataDir, "")` does. (The data directory itself is then
  gone too and listing the archived deployments fails until the next Create; the
  model leaves this out, and only `purge_empty_name` has the empty key.)

The code serializes nothing, so the specification `Spec` overlaps any requests.
`SerialCreateSpec` and `SerialSpec` are `Spec` restricted by an assumption on the
clients: never two Creates of one key in flight; never two of Create and
Delete of one key (the runs have the second, `SingletonHolds` needs only the first). Most
properties need one of them; the runs named `race_...`
show what happens without.

**`LifecycleQueries`** adds to `SerialSpec` a history variable that no handler reads:
`lasting` holds, for each Get and each List of the archived deployments in flight, the
deployments that have existed, as a container or as a document, at every moment since
the request came, without those whose own stat has failed (`Hidden`). `NothingHidden`
says that an answer misses none of them.

**`DeploymentDocument`** is what `AgentStorage` promises: a document that one
update at a time switches at a single point, or leaves alone and answers an error.

**`AgentStorage`** is `WriteAgentYAML` with one action per file-system call: each
prompt is staged, synced and renamed, `agents.yaml.tmp` is opened (truncated),
written and renamed, the legacy sidecar is removed, `prompts/` is listed and what
the new document does not reference is removed. `ReadBack` is what
`ReadAgentYAML` gets. Every call may fail; `Crash` is the end of the process, not
of the machine (files already written stay, synced or not). Writers may overlap:
they share `agents.yaml.tmp`, a descriptor follows the file through another
writer's rename, and the garbage collection of one removes what another has
staged. `SerialSpec` has one update at a time. `Document!...` is the refinement
mapping: document = `ReadBack`, phase = before or after the rename.

**`SkillArchive`** is what the skill installer makes of a zip, as operators:
`Extraction` applies `ExtractEntry` to one entry after the other (count limit, the
name's tests, names already taken, byte limits, reading to the end, in that order),
`Collapse` is `stripRedundantTopLevelDir`, `Unpack` both and the marker. An archive
is its entries in order: segments of the cleaned name, whether the name escapes or only
begins with two dots (`..foo`, which the code refuses too), directory or file, whether
the entry is broken (a name no file system takes, a compression the deployer does not
know, data that does not match its checksum) and the bytes read of it. The second half
says the same of the archive as a whole, without an order of steps (`Fits`, `Inside`,
`Dotted`, `Broken`, `Consistent`, `NameTaken`, `FilesOf`), as a reference for the
properties: `UnpacksRight` compares the two. `FilesOf` has the wrapper collapsed, as the
installer's own comment says (skills/installer.go:92-100); the README says "verbatim",
see section 4.
Sizes are in units of the limits. Symbolic links and modes are left out.

**`ArtifactClosure`** is the install phase of overlapping Creates of one deployment:
`installClosureTools`, then `installClosureSkills`, over both installers. `tools`
and `marks` are the tool files and their markers, `skills` the skill directories
(the archive each came from, its files, its marker), `create` the handler
goroutines. One action is one call whose effect another request can see: the cache
check, the download (`Fetch`, or its deadline `FetchTimeout`), the rename, the
truncation and the write of a marker, the two halves of `RemoveAll`. Every one may
fail, and `Crash` may come between any two.

* `Fetch` covers staging, request, body and verification, and `InstallSkill` the
  extraction too: they happen in a directory with a random name and one user. That
  a crash leaves it behind is not modelled. A server answers the declared content,
  one of `Strays`, a failure, or nothing at all.
* `RemoveAll` first unlinks what it finds, in any order (`Remains`: any part of the
  files, with or without the marker), then the directory. `emptying` tells which
  request works in the directory now at the path, since another's rename may have
  put a new one there.
* History: `doubt` holds the paths where an install was cut short between its first
  and its last visible step, or met another's last steps; `alone` says that no other
  request has overlapped; `replaced` that the rename took the place of other content.
* The document written between tools and skills is `AgentStorage`; a purge by a
  Delete at the same time is in `AgentLifecycle` only.

**`Admission`** is what a Create passes first: `CheckShape` (ids, root, root-only
fields, references), the depth-first search of `detectSubagentCycle` one loop turn
per action (`color` and the recursion as `stack`; `StartVisit` takes any white
agent, as Go's map order does), `CheckSharing`, and `CheckImage`, the runtime's
version floor. Texts count by their equalities; a hash is a pair of what it says and
how it is written, because the code compares it as written and installs it
normalized. A tag is its two leading numbers, or none (`NoTag`), or unreadable.
The formats of single fields are left out.

**`MCAgentLifecycle`, `MCLifecycleQueries`, `MCAgentStorage`, `MCArtifactClosure`, `MCAdmission`** hold the
instances' definitions; `MCArtifactClosure` also evaluates `UnpacksRight` for the
instance's archives and for every archive of up to three entries of 20 kinds
(`SmallArchivesUnpack`), before the proof says it of all.

## 3. The runs

| Run | Question | Bounds |
|---|---|---|
| `lifecycle_serial` | Under every endpoint, failing calls and crashes: is there one container of a key at most (`Singleton`), is its data always complete and its own (`DataIntact`), do answers tell the truth (`CreatedIsDeployed`, `DeletedIsGone`, `ReturnedUnchanged`)? | 1 key, 2 graphs, 3 ids, 2 requests |
| `lifecycle_queries` | While Creates, rebuilds, Deletes and purges run, fail and crash: can Get or List miss a deployment that was there all along (`NothingHidden`)? | 2 keys, 1 graph, 3 ids, 2 requests |
| `lifecycle_faultless` | Without faults: do deployments leave each other alone, does nothing left behind make a later request fail, does every Create end with a container? | 2 keys, 1 graph, 4 ids, 2 requests, no symmetry |
| `storage_serial` | Is the document always readable and does it refine `DeploymentDocument`? | 2 generations sharing a prompt, 3 prompts, with and without a legacy deployment |
| `artifact_installs` | With lying, stalling and failing servers, failing disks, crashes and overlap: is everything in place verified (`VerifiedOnly`), do markers tell the truth (`MarkerTrue`), does a 201 mean a complete closure (`ClosureInstalled`), does the status blame the right side (`BlameIsTrue`), is every request answered (`Answered`)? | 2 requests, 5 graphs, 2 tool files, 8 archives, limits of 3 entries and 2 units |
| `admission` | Is the search's verdict right in every order (`CycleVerdict`), are conflicting artifacts, unscanned skills and runtimes too old or illegible refused (`AdmittedIsDeployable`), does it end (`Decided`)? | all graphs of 3 agents with up to 2 references, 4 agents below a root of two, pairs of declaration lists, 11 tags at the floors |
| `race_two_creates` | *violated*: `Singleton` under `Spec` | 2 requests |
| `race_two_deletes` | *violated*: Delete never fails ("idempotent") under `Spec` | 2 requests |
| `purge_empty_name` | *violated*: deleting what does not exist is a no-op | the empty key among the names |
| `doc_before_skills` | *violated*: artifacts before the document | 2 requests |
| `race_two_writes` | *violated*: a document's prompts are never collected, under `Spec` | 2 writers |
| `tool_marker` | *violated*: a failed tool install leaves the previous artifact | 1 request |

Two requests are enough to break a property by an interleaving of two. Two graphs tell a container's data from another
deployment's of the same key; a third id lets a rebuild take a new container while
two are held. `Singleton` is checked where no two of Create and Delete overlap and proved
where Deletes may overlap (`SingletonHolds`). `lifecycle_queries` has two keys, so
that one stays while the scan meets the other, and one request changes what the other
looks at; every way to change it is among its operations. Ids, requests and graphs are
symmetric in the runs without liveness.

The graphs of `artifact_installs` share a tool under two file names, update a tool
and a skill, and bring an archive for each outcome: as the CLI packs it with a
wrapper and a marker of its own, flat at every limit with a name twice, colliding in
its wrapper, escaping, breaking off, not a zip, empty; the archive with a dotted
name is in `InstanceUnpacks` and in the proofs. Two requests break every property that can
be broken by a meeting: each path has one owner between its steps. Three agents have
cycles of two and three and a shared subagent; the fourth adds a diamond and a cycle
off the root's paths.

`FairSerialSpec` assumes weak fairness of every handler's next call: goroutines
are scheduled, and the daemon, the disk and the artifact servers answer. Downloads
have a timeout; calls on the daemon and the disk have none, so for those it is
an assumption about the environment. `WriterNeverFails` and `CreateSucceeds` are
stated without Stop: a Stop between the start and the inspect of a new container
makes its Create fail for want of a host port. In `artifact_installs` the artifact
servers are under no fairness: `FairSpec` has weak fairness of the deployer's own steps
only, of which the deadline is one. `admission` has weak fairness of a plain function
call's next step.

Each property of a passing run has a mutant (a definition `X_What` beside `X`)
that breaks it.

## 4. The disagreements found

1. Two Creates of one key leave two containers (`race_two_creates`); README.md:7
   and 26 promise one instance per name.
2. The slower of two Deletes answers 500 (`race_two_deletes`); README.md:301 and
   docs/API.md:399 promise 200.
3. A purge of a name without letters or digits removes every deployment's data
   (`purge_empty_name`); agent.go:394 promises a no-op.
4. A failed skill install leaves a committed document without its skills
   (`doc_before_skills`); agent.go:152 says the artifacts come first.
5. An update's garbage collection removes prompts another update has staged and
   its committed document references
   (`race_two_writes`); storage.go:383 says it cannot.
6. A tool install that cannot write its marker answers an error after it has replaced
   the previous tool, whose old marker may stay (`tool_marker`);
   tools/installer.go:100 says every failure path leaves it untouched.

Met while modelling, without a run of their own; the models have what the code does:

* a skill packed in a directory of its own name loses that directory, as the comment at
  skills/installer.go:96 intends (`Collapse`); README.md:241 and README.zh-CN.md:241
  say "the zip is extracted verbatim into `skills/<name>/`, preserving whatever
  structure the publisher shipped";
* Get answers 404 for an archived deployment whose `agents.yaml` cannot be read at the
  moment (`GetArchived`, storage.go:633); agent.go:241 says only "when neither a
  container nor data exists";
* a file name that only begins with two dots, like `..foo`, is refused as a zip slip
  (`EntryError`, skills/installer.go:305); the comment at 54 lists absolute paths, parent
  traversal, drive letters and escapes;
* a skill's zip beyond its cap is answered 502, a tool beyond its cap 422 (`Status`);
  docs/API.md:85 has 422 for violated size constraints, skills/installer.go:48 the 502;
* README.md:113 and docs/API.md:406 name the query parameter `removeData`, the handler
  reads `purge` (handler/agent.go:248);
* skills/installer.go:110 leaves "previously-installed skills" in place on a failure;
  the previous version of the skill itself is removed at 128, before the download;
* skills/installer.go:243-245 sees "no name collisions" in the collapse; an inner entry
  of the wrapper's own name is one, and Create answers 500;
* tools that share a name need not share a file name: model.go:618 says "identical
  declaration", and the second agent is served the first one's file and extension;
* runtime_image.go:16 asks for "semver >= the floor"; `v2.4.0-rc.1` passes;
* the probe for legacy fields (handler/agent.go:82) is case-sensitive, Go's decoder is
  not: under the key `Agents` a `maxSessionTurns` is dropped silently.

## 5. The proofs

Every safety and action property of a passing run is a theorem, for any values of the
constants. Where a property is false when requests overlap, so that a run shows it
violated under `Spec`, a theorem says that overlap is its only cause
(`SingletonHolds`, `DeleteIdempotentHolds`, `PromptsPresentHolds`).

`AgentLifecycleProofs` (for any keys, graphs, containers and requests):

* `TypeCorrect`: `Spec => []TypeOK`. Inductive: `Typed`, which adds to `TypeOK`
  what a handler's pc says of its operation and of its container, without which a
  step could not be typed (a Delete holds a container, so there is one to remove).
* `SingletonHolds`: `SerialCreateSpec => []Singleton`. The one Create of a key that
  is past its find owns the absence of containers: `OwnerInv` says that the
  handlers between find and create have none of their key, and no two of them share
  it. Found containers need no such care, since ids are not taken again.
* `DataIntactHolds`: `SerialSpec => []DataIntact` when no name is empty. To
  `OwnerInv` for Create and Delete it adds `DataProgress`, how much of the data the
  Create in progress has made (directories, tools, document, skills in turn).
  Without the hypothesis it is false: a purge of the empty key takes the data from
  under other deployments' containers.

`AgentLifecycleActionProofs` (single steps and answers, in the same generality):

* One more invariant, `HoldInv`, inductive under any overlap: the container a handler
  holds, as long as there is one of that id, is of the request's key and, when the
  request made it, of its graph; a removed container leaves no trace. It needs that
  ids are never handed out again.
* `OnlyOwnDeploymentHolds`: `Spec => OnlyOwnDeployment`, from `HoldInv` alone, when no
  name is empty.
* `DeletedIsGoneHolds`, `ReturnedUnchangedHolds` and `CreatedIsDeployedHolds` for
  `SerialSpec`, from `HoldInv` with `OwnerInv`, the last also with `DataProgress` and
  without empty names: the answer is given by the handler's own last step
  (`OwnAnswer`), and what the earlier steps have achieved has not been undone.
* `DeleteIdempotentHolds`: without failing calls, `SerialSpec => DeleteIdempotent`. The
  container a Delete has found is there until it removes it: only a writer removes
  one, and only one of its own key.
* `WriterNeverFailsHolds`: `SerialSpec => WriterNeverFails` without failing calls, Stops
  and empty names. `FaultlessInv` adds that the container a Create has made is there
  and running when it is inspected. Its last hypothesis, ids for every key and every
  request, only excludes that the model's bound on ids is met, which the daemon's
  endless supply of ids never does; infinitely many ids are allowed. `FreshIdLeft`
  counts: the other keys have at most one container each, and the requests hold at
  most one id each.

`LifecycleQueriesProofs` (for any number of keys, requests and entries to scan):

* `NothingHiddenHolds`: `QuerySpec => NothingHidden` when no name is empty. A container
  has a document beside it (`DataIntactHolds`'s invariant), so whatever exists has one
  (`ExistingHasDoc`); and a scan has seen, or has still to stat, every deployment that
  has lasted (`Scanned`, the inductive part). So a container that is removed after the
  daemon was read, or a deployment rebuilt during the scan, is found on the disk.

`AgentStorageProofs` (for any generations, prompts and writers):

* `StorageTypeCorrect`, `AlwaysReadable`, `PromptsPresentHolds`, and
  `ImplementsDocument`: `SerialSpec => Document!Spec`. The invariant `StorageInv` says
  of the committed document that its prompts are there and that a legacy one still has
  its sidecar, and of the update in progress that the prompts it has passed are staged,
  that the temporary file is its own before the rename and `agents.yaml` after it, and
  that nothing it will collect is referenced. Then `ReadBack = yaml`, and every
  action is the abstract switch, begin, finish or crash, or a stutter.

`AdmissionProofs` (for any calls, graphs and orders):

* `AdmissionTypeCorrect`: `Spec => []TypeOK`, which includes that the search looks up
  only agents that exist and never stands in one twice. It needs `Resolved` (past
  `CheckShape` every reference resolves) and `GrayIsOnStack`.
* `CycleVerdictHolds`: `Spec => []CycleVerdict`. `SearchInv` is the textbook
  argument: the gray agents are the stack, which is a path of references; what a
  visit has passed over is black, black agents refer to black ones only, and
  every set of black agents has one that refers to none of the set. A gray
  reference closes a cycle (the stack from there on is a set where each refers to the
  next); when no agent is white, all are black and the graph is acyclic.
* `AdmittedIsDeployableHolds`: `Spec => []AdmittedIsDeployable`. `GateInv` says which
  checks a call is past; the first declaration of a name, which exists because
  positions are well-founded, then has the content of every other one, every agent with
  skills is scanned at user level (`SkillsScanned`), and the floor `CheckImage` compares
  with is no lower than 2.4 and than any declared key asks for (`FloorIsEnough`).

`SkillArchiveProofs` (for any archive of any length, name and limits):

* `UnpackIsRight`: `UnpacksRight(z, name)` for every well-formed archive. The loop of
  `extractZip` leaves, at each name it has met, the last file of that name, or a
  directory where only directories had it (`TreeRight`); it goes on only while nothing
  met is at fault (`Blameless`), and stops for what is at fault with the archive
  (`StateRight`, along the entries). A name blocks another only where one of them is
  both a file's and a directory's (`BlockedIsInconsistent`). The staged tree then is
  one wrapper exactly when the archive is (`WrapperFacts`), and taking the first
  segment off is one-to-one below it (`TailInjective`), so that no file is lost in the
  collapse. The induction is over a set of positions, through its least missing one
  (`EntryInduction`); the two loops are recursive functions, which unroll
  (`ExtractionUnroll`, `SumsUnroll`).

`ArtifactClosureProofs` (for any requests, graphs, contents, limits and overlaps):

* `ClosureTypeCorrect`, `VerifiedOnlyHolds` and `MarkerTrueHolds`:
  `Spec => []TypeOK`, `[]VerifiedOnly` and `[]MarkerTrue`. The invariant `Inv` adds to
  the three that a request past its download holds the declared content
  (`RequestsSound`, from `FetchVerifies`), that a request marked alone is the only one
  in flight (`AloneIsAlone`), and that between rename and marker the tool at the path
  is the request's own, unless the path is in doubt and the request is not alone
  (`MarkedIsOwn`). Without the last two, `WriteMarker` could end a doubt over another
  request's file. That an unpacked skill is whole is `UnpackIsRight`.

`ArtifactClosureActionProofs` (the answers of the installs):

* `ClosureInstalledHolds`: `Spec => ClosureInstalled`. `AloneInv` says of a request
  that no other has overlapped that the artifacts it has passed over are in place
  (`PassedInPlace`), with a path of their own each (`SamePath`: two declarations of one
  path ask for one content, which admission has checked), and that the skill directory
  it is about to rename to is clear (`Cleared`). Every declared tool has a first
  declaration, by which it is installed (`FirstDeclared`, again a least element).
* `BlameIsTrueHolds`: `Spec => BlameIsTrue`. `FetchBlames` says for each of the
  download's verdicts what it has seen, `UnpackIsRight` for each of the extraction's,
  and `StatusCauses` turns the handler's switch around, for 422, 500 and 502.

The assumptions are the named `ASSUME`s on the constants: distinct model values; a
sidecar holds artifacts; references are sequences of texts; a tag is two numbers or
none; graphs declare contents that exist; archives are well-formed; sizes are numbers
and limits are positive, which the constructors see to; agents declare at positions,
and a name that is shared has one hash (`ValidatedAssumption`, what `Admission` has
checked). The theorems' own hypotheses are those named above. Model-checked only:
liveness (`CreateSucceeds`, `Answered`, `Decided`), which is out of the prover's reach,
as are `ENABLED` and `RECURSIVE` operators; and the runs that expect a
violation.

## 6. The plan

1. The abstract promise of the whole install phase, of which `AgentLifecycle` has one
   step each (`InstallTools`, `InstallSkills`), as a module that both can be compared
   with: that a request on its own in `ArtifactClosure` is such a step.
2. The hazards without a property in `PROJECT.json`, where a model can be made of the
   daemon's delayed effects.

Not modelled: the formats of single fields and the content of the YAML document (data
that no step depends on), the reader of `agents.yaml` as a process of its own (only the
tests call `ReadAgentYAML`), authentication and health (stateless), configuration and
`main` (read once), log demultiplexing, the wording of answers, the container's
own runtime.
