---------------------------- MODULE ArtifactClosure ----------------------------
(***************************************************************************)
(* The artifacts of one deployment: Create requests that install the tools *)
(* and the skills their graphs declare (artifacts.go), through the two     *)
(* installers and the shared downloader, and the status each is answered.  *)
(* One action is one call on the disk or one answer of the artifact        *)
(* server.  Nothing serializes the requests.                               *)
(*                                                                         *)
(* A tool file or an archive stands for its own sha256.  Staging           *)
(* directories have random names and one user, and are left out.           *)
(***************************************************************************)
EXTENDS SkillArchive

CONSTANTS
    Creates,        \* handler goroutines: at most so many requests at a time
    Graphs,         \* graphs a Create may carry, validated
    ToolFiles,      \* files declared as tools or served in place of them
    Archives,       \* archives declared as skills or served in place of them
    Strays,         \* what an artifact server may send instead of what was declared
    Nothing,        \* no artifact, no marker
    Blank,          \* a marker file that was truncated and not written
    GivenLimits,    \* what NewInstaller is given, by kind of artifact
    DefaultLimits   \* the packages' DefaultLimits()

Kinds == {"tool", "skill"}

(* Mutation: a zero DownloadTimeout is taken as it is.                     *)
NewInstaller_ZeroKept(kind) == GivenLimits[kind]

(* Limits are [min, max, timeout]; the skill installer sets no minimum.    *)
NewInstaller(kind) ==
    IF GivenLimits[kind].timeout = 0 THEN DefaultLimits[kind] ELSE GivenLimits[kind]

-----------------------------------------------------------------------------
(* The artifacts of a graph.  A graph is a sequence of agents [name,       *)
(* tools, skills], a tool [name, ext, hash], a skill [name, hash].         *)

ToolOf(g, a, i) ==
    [kind |-> "tool", path |-> <<"tool", g[a].tools[i].name, g[a].tools[i].ext>>,
     want |-> g[a].tools[i].hash, order |-> <<0, a, i>>]

SkillOf(g, a, i) ==
    [kind |-> "skill", path |-> <<"skill", g[a].name, g[a].skills[i].name>>,
     want |-> g[a].skills[i].hash, order |-> <<1, a, i>>]

Before(s, t) ==
    \/ s[1] < t[1]
    \/ s[1] = t[1] /\ s[2] < t[2]
    \/ s[1] = t[1] /\ s[2] = t[2] /\ s[3] < t[3]

(* installClosureTools installs the first declaration of each tool name;   *)
(* installClosureSkills every skill into its agent's own directory.        *)
ToolJobs(g) ==
    LET all == UNION {{ToolOf(g, a, i) : i \in DOMAIN g[a].tools} : a \in DOMAIN g} IN
    {j \in all : ~\E k \in all : k.path[2] = j.path[2] /\ Before(k.order, j.order)}

SkillJobs(g) == UNION {{SkillOf(g, a, i) : i \in DOMAIN g[a].skills} : a \in DOMAIN g}

Jobs(g) == ToolJobs(g) \cup SkillJobs(g)

ToolPaths  == {j.path : j \in UNION {ToolJobs(g) : g \in Graphs}}
SkillPaths == {j.path : j \in UNION {SkillJobs(g) : g \in Graphs}}

(* What each archive becomes under each skill name, as the code has it and *)
(* as it should be.                                                        *)
SkillNames == {s[3] : s \in SkillPaths}
Unpacking  == [x \in Archives \X SkillNames |-> Unpack(x[1], x[2])]
Expected   == [x \in Archives \X SkillNames |-> FilesOf(x[1], x[2])]

Contents == ToolFiles \cup Archives

(* Graphs declare what there is; no content is one of the two markers for  *)
(* none; sizes and limits are numbers, and the skill installer has no      *)
(* minimum.                                                                *)
ASSUME ClosureAssumption ==
    /\ \A g \in Graphs : \A a \in DOMAIN g :
          /\ \A i \in DOMAIN g[a].tools : g[a].tools[i].hash \in ToolFiles
          /\ \A i \in DOMAIN g[a].skills : g[a].skills[i].hash \in Archives
    /\ Strays \subseteq Contents
    /\ {Nothing, Blank} \cap Contents = {}
    /\ \A c \in Contents : c.bytes \in Nat
    /\ \A z \in Archives : WellFormed(z)
    /\ {GivenLimits, DefaultLimits} \subseteq
          [Kinds -> [min : Nat, max : Nat \ {0}, timeout : Nat]]
    /\ GivenLimits["skill"].min = 0 /\ DefaultLimits["skill"].min = 0

(* Graphs are validated: what shares a name is declared with one hash.     *)
ASSUME ValidatedAssumption ==
    \A g \in Graphs :
       /\ DOMAIN g \subseteq Nat
       /\ \A a \in DOMAIN g : DOMAIN g[a].tools \subseteq Nat
       /\ \A a, b \in DOMAIN g :
             /\ \A i \in DOMAIN g[a].tools, k \in DOMAIN g[b].tools :
                   g[a].tools[i].name = g[b].tools[k].name =>
                      g[a].tools[i].hash = g[b].tools[k].hash
             /\ \A i \in DOMAIN g[a].skills, k \in DOMAIN g[b].skills :
                   g[a].skills[i].name = g[b].skills[k].name =>
                      g[a].skills[i].hash = g[b].skills[k].hash

VARIABLES
    tools,     \* the file at each tool path
    marks,     \* the content of each tool's marker file
    skills,    \* the directory at each skill path
    emptying,  \* requests whose RemoveAll is at work in the directory now at its path
    create,    \* the request each goroutine serves
    doubt      \* history: paths where an install was cut short or met another one

vars == <<tools, marks, skills, emptying, create, doubt>>

-----------------------------------------------------------------------------
(* A skill directory: the archive it was unpacked from, the files that are *)
(* there, and the content of its marker.                                   *)
NoSkill == [there |-> FALSE, of |-> Nothing, files |-> {}, mark |-> Nothing]

Unpacked(j, z) ==
    [there |-> TRUE, of |-> z, files |-> Unpacking[<<z, j.path[3]>>].files, mark |-> j.want]

(* What a RemoveAll in progress may have left of d.                        *)
Remains(d) ==
    UNION {{[d EXCEPT !.files = f, !.mark = m] : f \in SUBSET d.files} : m \in {d.mark, Nothing}}

SkillDir ==
    [there : BOOLEAN, of : Archives \cup {Nothing}, mark : Archives \cup {Nothing},
     files : SUBSET UNION {Unpacking[x].files : x \in Archives \X SkillNames}]

PCs == {"idle", "cache", "clear", "rmdir", "fetch", "rename",
        "markOpen", "markWrite"}

(* How a request ended: "none" is success, "lost" a crash.                 *)
Causes == {"none", "lost", "disk", "upstream", "oversize", "tooSmall", "hash",
           "slip", "size", "layout", "broken"}

NoJob == [kind |-> "none", path |-> <<>>, want |-> Nothing, order |-> <<>>]

(* body is what the server sent, once judged.                              *)
Idle(cause, body) ==
    [pc |-> "idle", graph |-> <<>>, left |-> {}, job |-> NoJob, body |-> body,
     alone |-> FALSE, replaced |-> FALSE, cause |-> cause]

Init ==
    /\ tools = [t \in ToolPaths |-> Nothing]
    /\ marks = [t \in ToolPaths |-> Nothing]
    /\ skills = [s \in SkillPaths |-> NoSkill]
    /\ emptying = {}
    /\ create = [p \in Creates |-> Idle("none", Nothing)]
    /\ doubt = {}

InFlight(p) == create[p].pc # "idle"

At(p, pc) == create[p].pc = pc

Job(p) == create[p].job

Goto(p, pc) == create' = [create EXCEPT ![p].pc = pc]

(* The artifacts whose replacement p would leave half done if it ended now.*)
Cut(p) ==
    IF At(p, "markOpen") \/ At(p, "markWrite") \/ p \in emptying
    THEN {Job(p).path} ELSE {}

(* The sentinel errors of the installers, and the handler's switch on them.*)
Status(kind, cause) ==
    CASE cause = "none" -> 201
      [] cause \in {"hash", "slip", "size", "tooSmall"} -> 422
      [] cause = "oversize" -> IF kind = "tool" THEN 422 ELSE 502
      [] cause = "upstream" -> 502
      [] OTHER -> 500

FailOver(p, cause, body) ==
    /\ create' = [create EXCEPT ![p] = Idle(cause, body)]
    /\ emptying' = emptying \ {p}
    /\ doubt' = doubt \cup Cut(p)

Fail(p, cause) == FailOver(p, cause, Nothing)

(* The next artifact in the order of the two loops, or the end of them.    *)
Following(c) ==
    IF c.left = {} THEN {Idle("none", Nothing)}
    ELSE {[c EXCEPT !.pc = "cache", !.job = j, !.left = c.left \ {j},
                    !.body = Nothing, !.replaced = FALSE] :
             j \in {i \in c.left : \A k \in c.left : ~Before(k.order, i.order)}}

Advance(p) == \E c \in Following(create[p]) : create' = [create EXCEPT ![p] = c]

(* A validated Create that has found no container, or has removed it.      *)
Start(p) ==
    /\ At(p, "idle")
    /\ \E g \in Graphs :
          \E c \in Following([Idle("none", Nothing) EXCEPT
                      !.graph = g, !.left = Jobs(g),
                      !.alone = \A q \in Creates : ~InFlight(q)]) :
             create' = [q \in Creates |->
                          IF q = p THEN c ELSE [create[q] EXCEPT !.alone = FALSE]]
    /\ UNCHANGED <<tools, marks, skills, emptying, doubt>>

-----------------------------------------------------------------------------
(* Both installers: the cache, then the download.                          *)

(* Mutation: a skill is cached when its directory exists.                  *)
Cached_AnyDirectory(j) ==
    IF j.kind = "tool"
    THEN marks[j.path] = j.want /\ tools[j.path] # Nothing
    ELSE skills[j.path].there

Cached(j) ==
    IF j.kind = "tool"
    THEN marks[j.path] = j.want /\ tools[j.path] # Nothing
    ELSE skills[j.path].mark = j.want

(* A marker that cannot be read is a miss.  The agent's skill directory is *)
(* made first.                                                             *)
CheckCache(p) ==
    /\ At(p, "cache")
    /\ \/ Cached(Job(p)) /\ Advance(p) /\ UNCHANGED <<emptying, doubt>>
       \/ /\ Goto(p, IF Job(p).kind = "tool" THEN "fetch" ELSE "clear")
          /\ UNCHANGED <<emptying, doubt>>
       \/ Job(p).kind = "skill" /\ Fail(p, "disk")
    /\ UNCHANGED <<tools, marks, skills>>

(* Mutation: a body of just the limit is refused.                          *)
FetchError_AtTheCap(job, body) ==
    LET limits == NewInstaller(job.kind) IN
    CASE body.bytes >= limits.max -> "oversize"
      [] body.bytes < limits.min -> "tooSmall"
      [] body.bytes \in limits.min .. limits.max /\ body # job.want -> "hash"
      [] OTHER -> "none"

(* Mutation: the digest is not compared.                                   *)
FetchError_Unverified(job, body) ==
    LET limits == NewInstaller(job.kind) IN
    CASE body.bytes > limits.max -> "oversize"
      [] body.bytes < limits.min -> "tooSmall"
      [] OTHER -> "none"

(* Fetch stops at the first byte beyond the limit; what it has streamed to *)
(* the end is compared with the declared hash.                             *)
FetchError(job, body) ==
    LET limits == NewInstaller(job.kind) IN
    CASE body.bytes > limits.max -> "oversize"
      [] body.bytes < limits.min -> "tooSmall"
      [] body.bytes \in limits.min .. limits.max /\ body # job.want -> "hash"
      [] OTHER -> "none"

(* The staging directory, the request, the body and its verification: they *)
(* touch nothing that another request sees.  No acceptable final answer    *)
(* (200 for a skill, after redirects; any 2xx for a tool, without), a body *)
(* that breaks off or a disk that fails ends it.                           *)
Fetch(p) ==
    /\ At(p, "fetch")
    /\ \/ \E body \in {Job(p).want} \cup Strays :
          LET error == FetchError(Job(p), body) IN
          \/ /\ error = "none"
             /\ create' = [create EXCEPT ![p] = [@ EXCEPT !.pc = "rename", !.body = body]]
             /\ UNCHANGED <<emptying, doubt>>
          \/ error # "none" /\ FailOver(p, error, body)
       \/ \E cause \in {"upstream", "disk"} : Fail(p, cause)
    /\ UNCHANGED <<tools, marks, skills>>

(* The deadline passes, or the client goes away.                           *)
FetchTimeout(p) ==
    /\ At(p, "fetch")
    /\ NewInstaller(Job(p).kind).timeout > 0
    /\ Fail(p, "upstream")
    /\ UNCHANGED <<tools, marks, skills>>

-----------------------------------------------------------------------------
(* The tool installer: the file is renamed into place, then marked.        *)

Others(p, path) == {q \in Creates \ {p} : path \in Cut(q)}

InstallTool(p) ==
    LET path == Job(p).path IN
    /\ At(p, "rename")
    /\ Job(p).kind = "tool"
    /\ \/ /\ tools' = [tools EXCEPT ![path] = create[p].body]
          /\ create' = [create EXCEPT ![p] = [@ EXCEPT !.pc = "markOpen",
                !.replaced = tools[path] \notin {Nothing, create[p].body}]]
          /\ doubt' = doubt \cup (IF Others(p, path) = {} THEN {} ELSE {path})
          /\ UNCHANGED emptying
       \/ Fail(p, "disk") /\ UNCHANGED tools
    /\ UNCHANGED <<marks, skills>>

(* Mutation: a marker that exists is left as it is.                        *)
OpenMarker_IfAbsent(p) ==
    /\ At(p, "markOpen")
    /\ \/ /\ marks[Job(p).path] = Nothing
          /\ marks' = [marks EXCEPT ![Job(p).path] = Blank]
          /\ Goto(p, "markWrite")
       \/ marks[Job(p).path] # Nothing /\ Advance(p) /\ UNCHANGED marks
    /\ UNCHANGED <<tools, skills, emptying, doubt>>

(* os.WriteFile truncates the marker, then writes it.                      *)
OpenMarker(p) ==
    /\ At(p, "markOpen")
    /\ \/ /\ marks' = [marks EXCEPT ![Job(p).path] = Blank]
          /\ Goto(p, "markWrite")
          /\ UNCHANGED <<emptying, doubt>>
       \/ Fail(p, "disk") /\ UNCHANGED marks
    /\ UNCHANGED <<tools, skills>>

WriteMarker(p) ==
    LET path == Job(p).path IN
    /\ At(p, "markWrite")
    /\ \/ /\ marks' = [marks EXCEPT ![path] = Job(p).want]
          /\ Advance(p)
          /\ doubt' = IF create[p].alone THEN doubt \ {path} ELSE doubt
          /\ UNCHANGED emptying
       \/ Fail(p, "disk") /\ UNCHANGED marks
    /\ UNCHANGED <<tools, skills>>

-----------------------------------------------------------------------------
(* The skill installer: the old directory is removed, the new one made     *)
(* beside it and renamed into place with its marker.                       *)

(* RemoveAll opens the directory and unlinks what it holds, in any order.  *)
ClearSkill(p) ==
    LET path == Job(p).path IN
    /\ At(p, "clear")
    /\ \/ /\ ~skills[path].there
          /\ Goto(p, "fetch")
          /\ UNCHANGED <<skills, emptying>>
       \/ /\ skills[path].there
          /\ \E d \in Remains(skills[path]) : skills' = [skills EXCEPT ![path] = d]
          /\ emptying' = emptying \cup {p}
          /\ Goto(p, "rmdir")
    /\ UNCHANGED <<tools, marks, doubt>>

(* It unlinks the rest and the directory; a new one that has taken its     *)
(* place meanwhile is not empty, and cannot be removed.                    *)
RemoveSkill(p) ==
    LET path == Job(p).path  d == skills[path] IN
    /\ At(p, "rmdir")
    /\ \/ /\ ~d.there \/ p \in emptying \/ (d.files = {} /\ d.mark = Nothing)
          /\ skills' = [skills EXCEPT ![path] = NoSkill]
          /\ Goto(p, "fetch")
          /\ emptying' = emptying \ {p}
          /\ UNCHANGED doubt
       \/ /\ d.there /\ p \notin emptying
          /\ Fail(p, "layout")
          /\ UNCHANGED skills
       \/ Fail(p, "disk") /\ UNCHANGED skills
    /\ UNCHANGED <<tools, marks>>

(* extractZip, stripRedundantTopLevelDir and the marker, in the staging    *)
(* directory, and os.Rename, which refuses a directory that exists.        *)
InstallSkill(p) ==
    LET path == Job(p).path  error == Unpacking[<<create[p].body, path[3]>>].error IN
    /\ At(p, "rename")
    /\ Job(p).kind = "skill"
    /\ \/ Fail(p, "disk") /\ UNCHANGED skills
       \/ /\ error = "none"
          /\ ~skills[path].there
          /\ skills' = [skills EXCEPT ![path] = Unpacked(Job(p), create[p].body)]
          /\ Advance(p)
          /\ emptying' = {q \in emptying : Job(q).path # path}
          /\ doubt' = doubt \ {path}
       \/ error # "none" /\ FailOver(p, error, create[p].body) /\ UNCHANGED skills
       \/ error = "none" /\ skills[path].there /\ Fail(p, "layout") /\ UNCHANGED skills
    /\ UNCHANGED <<tools, marks>>

-----------------------------------------------------------------------------
(* The deployer stops: its requests are lost, the disk stays as it is.     *)
Crash ==
    /\ \E p \in Creates : InFlight(p)
    /\ create' = [p \in Creates |-> IF InFlight(p) THEN Idle("lost", Nothing) ELSE create[p]]
    /\ doubt' = doubt \cup UNION {Cut(p) : p \in Creates}
    /\ emptying' = {}
    /\ UNCHANGED <<tools, marks, skills>>

(* What the deployer itself does; the server's part is not its to finish.  *)
Work(p) ==
    \/ CheckCache(p)
    \/ FetchTimeout(p)
    \/ InstallTool(p)
    \/ OpenMarker(p)
    \/ WriteMarker(p)
    \/ ClearSkill(p)
    \/ RemoveSkill(p)
    \/ InstallSkill(p)

Next == Crash \/ \E p \in Creates : Start(p) \/ Work(p) \/ Fetch(p)

Spec == Init /\ [][Next]_vars

(* The goroutines are scheduled and calls on the local disk return.  An    *)
(* artifact server may stall for ever.                                     *)
Fairness == \A p \in Creates : WF_vars(Work(p))

FairSpec == Spec /\ Fairness

-----------------------------------------------------------------------------
(* Safety.                                                                 *)

AllJobs == UNION {Jobs(g) : g \in Graphs}

WantedAt(path) == {j.want : j \in {k \in AllJobs : k.path = path}}

Request ==
    [pc : PCs, graph : Graphs \cup {<<>>}, left : SUBSET AllJobs,
     job : AllJobs \cup {NoJob}, body : Contents \cup {Nothing},
     alone : BOOLEAN, replaced : BOOLEAN,
     cause : Causes]

(* Well-typed states: whatever a server sends, only tool files are at the  *)
(* tools' paths, and only archives unpacked at the skills'.                *)
TypeOK ==
    /\ tools \in [ToolPaths -> ToolFiles \cup {Nothing}]
    /\ marks \in [ToolPaths -> ToolFiles \cup {Nothing, Blank}]
    /\ skills \in [SkillPaths -> SkillDir]
    /\ create \in [Creates -> Request]
    /\ emptying \subseteq {p \in Creates : At(p, "rmdir")}
    /\ doubt \subseteq ToolPaths \cup SkillPaths

(* Whatever overlaps, fails or crashes, what is in place has been verified *)
(* first: a tool is a whole file of a hash declared for its path, a skill  *)
(* has no file but those of such an archive within the limits, at the      *)
(* places the installer's comment gives them (its own wrapper collapsed).  *)
VerifiedOnly ==
    /\ \A t \in ToolPaths : tools[t] \in WantedAt(t) \cup {Nothing}
    /\ \A s \in SkillPaths : skills[s].there =>
          /\ skills[s].of \in WantedAt(s)
          /\ Fits(skills[s].of) /\ Inside(skills[s].of)
          /\ skills[s].files \subseteq Expected[<<skills[s].of, s[3]>>]

Whole(z, s) == [there |-> TRUE, of |-> z, files |-> Expected[<<z, s[3]>>], mark |-> z]

(* A marker says what is there: outside an install's last steps, only one  *)
(* that failed or was stopped in them, or that met another one's, can      *)
(* leave a marker for a tool of other content or for an incomplete skill.  *)
MarkerTrue ==
    \A path \in (ToolPaths \cup SkillPaths) \ doubt :
       (\A p \in Creates : path \notin Cut(p)) =>
          /\ path \in ToolPaths => marks[path] \in {Nothing, tools[path]}
          /\ path \in SkillPaths /\ skills[path].mark # Nothing =>
                skills[path] = Whole(skills[path].mark, path)

Ends(p) == InFlight(p) /\ ~InFlight(p)'

(* The HTTP status p is being answered; a crash answers nothing.           *)
Answers(p, status) ==
    /\ Ends(p)
    /\ create'[p].cause # "lost"
    /\ Status(Job(p).kind, create'[p].cause) = status

(* A Create that no other has overlapped and that gets past its installs   *)
(* has every tool and every skill that any agent of its graph declares in  *)
(* place, whether it downloaded it or found it in the cache (shared tools  *)
(* under the first declaration's file, a skill's own wrapper collapsed as  *)
(* the installer's comment says), unless an earlier install had left the   *)
(* marker in doubt.                                                        *)
ClosureInstalled ==
    [][\A p \in Creates : Answers(p, 201) /\ create[p].alone =>
         LET g == create[p].graph IN
         \A a \in DOMAIN g :
            /\ \A i \in DOMAIN g[a].tools : \E j \in ToolJobs(g) :
                  /\ j.path[2] = g[a].tools[i].name
                  /\ j.path \in doubt' \/ tools'[j.path] = g[a].tools[i].hash
            /\ \A i \in DOMAIN g[a].skills : LET j == SkillOf(g, a, i) IN
                  j.path \in doubt' \/ skills'[j.path] = Whole(j.want, j.path)]_vars

(* 422 is answered only when the artifact is at fault: it is not the one   *)
(* declared, it breaks a limit, or a name in it leaves its directory or    *)
(* begins with two dots.  500 without a fault of the disk is answered only *)
(* to an archive that cannot be laid out on a disk or has a broken entry,  *)
(* or under an overlapping Create.  502 is answered only when the server   *)
(* sent nothing to judge, or an archive beyond the cap.                    *)
BlameIsTrue ==
    [][\A p \in Creates :
         LET c == create[p]  body == create'[p].body
             limits == NewInstaller(c.job.kind)
         IN
         /\ Answers(p, 422) =>
               \/ body # c.job.want
               \/ c.job.kind = "tool" /\ body.bytes \notin limits.min .. limits.max
               \/ c.job.kind = "skill" /\ (~Fits(body) \/ ~Inside(body) \/ Dotted(body))
         /\ Answers(p, 500) /\ create'[p].cause # "disk" =>
               \/ ~c.alone
               \/ c.job.kind = "skill" /\ ( \/ ~Consistent(c.job.want)
                                            \/ Broken(c.job.want)
                                            \/ NameTaken(c.job.want, c.job.path[3]) )
         /\ Answers(p, 502) =>
               \/ body = Nothing
               \/ c.job.kind = "skill" /\ body.bytes > limits.max]_vars

(* A failed install of a tool has not replaced the artifact that was there *)
(* ("Every failure path ... leaves the previous artifact untouched").      *)
FailureKeepsPrevious ==
    [][\A p \in Creates :
         Ends(p) /\ create'[p].cause \notin {"none", "lost"} => ~create[p].replaced]_vars

(* Liveness: every Create is answered, though a server may stall for ever. *)
Answered == \A p \in Creates : InFlight(p) ~> ~InFlight(p)
=============================================================================
