------------------------- MODULE ArtifactClosureProofs -------------------------
(***************************************************************************)
(* The artifact installs for any number of overlapping requests, graphs    *)
(* and contents, whatever fails or crashes: what is in place has been      *)
(* verified, and markers tell the truth.                                   *)
(***************************************************************************)
EXTENDS ArtifactClosure, SkillArchiveProofs

(* The invariant.  What a request's step says of its artifact; alone means *)
(* alone; and the tool that is about to be marked is the one just renamed, *)
(* unless two installs have met.                                           *)
Sound(c) ==
    /\ c \in Request
    /\ c.pc # "idle" => c.job \in AllJobs
    /\ c.pc \in {"markOpen", "markWrite"} => c.job.kind = "tool"
    /\ c.pc \in {"clear", "rmdir"} => c.job.kind = "skill"
    /\ c.pc = "rename" => c.body = c.job.want

RequestsSound == \A p \in Creates : Sound(create[p])

AloneIsAlone ==
    \A p, q \in Creates : InFlight(p) /\ create[p].alone /\ InFlight(q) => p = q

Marking(p) == At(p, "markOpen") \/ At(p, "markWrite")

MarkedIsOwn ==
    \A p \in Creates : Marking(p) /\ (Job(p).path \notin doubt \/ create[p].alone) =>
        tools[Job(p).path] = Job(p).want

Settled(path) == path \notin doubt /\ \A p \in Creates : path \notin Cut(p)

ToolMarkersTrue ==
    \A t \in ToolPaths : Settled(t) => marks[t] \in {Nothing, tools[t]}

SkillMarkersTrue ==
    \A s \in SkillPaths : Settled(s) /\ skills[s].mark # Nothing =>
        skills[s] = Whole(skills[s].mark, s)

Inv ==
    /\ TypeOK
    /\ RequestsSound
    /\ AloneIsAlone
    /\ MarkedIsOwn
    /\ VerifiedOnly
    /\ ToolMarkersTrue
    /\ SkillMarkersTrue

-----------------------------------------------------------------------------
(* Facts of the constants.                                                 *)

(* What every artifact of every graph is.                                  *)
LEMMA JobFacts ==
    ASSUME NEW j \in AllJobs
    PROVE  /\ j.want \in Contents
           /\ j.want \in WantedAt(j.path)
           /\ \/ j.kind = "tool" /\ j.path \in ToolPaths /\ j.want \in ToolFiles
              \/ /\ j.kind = "skill" /\ j.path \in SkillPaths /\ j.want \in Archives
                 /\ j.path[3] \in SkillNames
<1>1. j.want \in WantedAt(j.path)
    BY DEF WantedAt
<1>2. PICK g \in Graphs : j \in ToolJobs(g) \/ j \in SkillJobs(g)
    BY DEF AllJobs, Jobs
<1>3. CASE j \in ToolJobs(g)
  <2>1. j.path \in ToolPaths
      BY <1>3 DEF ToolPaths
  <2>2. PICK a \in DOMAIN g : \E i \in DOMAIN g[a].tools : j = ToolOf(g, a, i)
      BY <1>3 DEF ToolJobs
  <2>3. j.kind = "tool" /\ j.want \in ToolFiles
      BY <2>2, ClosureAssumption DEF ToolOf
  <2> QED BY <1>1, <2>1, <2>3 DEF Contents
<1>4. CASE j \in SkillJobs(g)
  <2>1. j.path \in SkillPaths
      BY <1>4 DEF SkillPaths
  <2>2. PICK a \in DOMAIN g : \E i \in DOMAIN g[a].skills : j = SkillOf(g, a, i)
      BY <1>4 DEF SkillJobs
  <2>3. j.kind = "skill" /\ j.want \in Archives
      BY <2>2, ClosureAssumption DEF SkillOf
  <2>4. j.path[3] \in SkillNames
      BY <2>1 DEF SkillNames
  <2> QED BY <1>1, <2>1, <2>3, <2>4 DEF Contents
<1> QED BY <1>2, <1>3, <1>4

(* A tool and a skill are never at the same path.                          *)
LEMMA PathsApart == ToolPaths \cap SkillPaths = {}
<1> SUFFICES ASSUME NEW t \in ToolPaths, t \in SkillPaths PROVE FALSE
    OBVIOUS
<1>1. PICK g \in Graphs : \E a \in DOMAIN g : \E i \in DOMAIN g[a].tools : t = ToolOf(g, a, i).path
    BY DEF ToolPaths, ToolJobs
<1>2. PICK h \in Graphs : \E a \in DOMAIN h : \E i \in DOMAIN h[a].skills : t = SkillOf(h, a, i).path
    BY DEF SkillPaths, SkillJobs
<1>3. t[1] = "tool"
    BY <1>1 DEF ToolOf
<1>4. t[1] = "skill"
    BY <1>2 DEF SkillOf
<1> QED BY <1>3, <1>4

LEMMA AllJobsOf ==
    ASSUME NEW g \in Graphs PROVE Jobs(g) \subseteq AllJobs
PROOF BY DEF AllJobs

(* A body that passes is the declared one.                                 *)
LEMMA FetchVerifies ==
    ASSUME NEW j \in AllJobs, NEW body \in Contents, FetchError(j, body) = "none"
    PROVE  body = j.want
<1>1. NewInstaller(j.kind) \in [min : Nat, max : Nat \ {0}, timeout : Nat]
    BY JobFacts, ClosureAssumption DEF NewInstaller, Kinds
<1>2. body.bytes \in Nat
    BY ClosureAssumption
<1> DEFINE limits == NewInstaller(j.kind)
<1>3. limits.min \in Nat /\ limits.max \in Nat
    BY <1>1
<1>4. ~(body.bytes > limits.max) /\ ~(body.bytes < limits.min)
    BY DEF FetchError
<1>5. body.bytes \in limits.min .. limits.max
    BY <1>2, <1>3, <1>4
<1> HIDE DEF limits
<1>6. FetchError(j, body) =
        CASE body.bytes > limits.max -> "oversize"
          [] body.bytes < limits.min -> "tooSmall"
          [] body.bytes \in limits.min .. limits.max /\ body # j.want -> "hash"
          [] OTHER -> "none"
    BY DEF FetchError, limits
<1> QED BY <1>4, <1>5, <1>6

LEMMA FetchCauses ==
    ASSUME NEW j, NEW body, FetchError(j, body) # "none"
    PROVE  FetchError(j, body) \in Causes
PROOF BY DEF FetchError, Causes

-----------------------------------------------------------------------------
(* How a request goes on or ends.                                          *)

LEMMA IdleSound ==
    ASSUME NEW cause \in Causes, NEW body \in Contents \cup {Nothing}
    PROVE  Sound(Idle(cause, body)) /\ Idle(cause, body).pc = "idle"
PROOF BY DEF Sound, Idle, Request, PCs

LEMMA FollowingSound ==
    ASSUME NEW c \in Request, NEW d \in Following(c)
    PROVE  /\ Sound(d)
           /\ d.pc \in {"idle", "cache"}
           /\ d.pc # "idle" => d.alone = c.alone
<1>1. CASE c.left = {}
    BY <1>1, IdleSound DEF Following, Causes
<1>2. CASE c.left # {}
  <2>1. PICK j \in c.left : d = [c EXCEPT !.pc = "cache", !.job = j, !.left = c.left \ {j},
                                          !.body = Nothing, !.replaced = FALSE]
      BY <1>2 DEF Following
  <2>2. c.left \subseteq AllJobs
      BY DEF Request
  <2>3. d.pc = "cache" /\ d.job = j /\ d.alone = c.alone
      BY <2>1 DEF Request
  <2>4. d \in Request
      BY <2>1, <2>2 DEF Request, PCs
  <2> QED BY <2>2, <2>3, <2>4 DEF Sound
<1> QED BY <1>1, <1>2

(* Only a request in flight, at its own artifact, can cut anything short.  *)
LEMMA CutFacts ==
    ASSUME Inv, NEW p \in Creates
    PROVE  /\ Cut(p) \subseteq {Job(p).path}
           /\ Cut(p) # {} => Marking(p) \/ p \in emptying
           /\ Marking(p) => Cut(p) = {Job(p).path} /\ Job(p).path \in ToolPaths
           /\ p \in emptying =>
                Cut(p) = {Job(p).path} /\ Job(p).path \in SkillPaths /\ At(p, "rmdir")
<1>1. p \in emptying => At(p, "rmdir")
    BY DEF Inv, TypeOK
<1>2. Sound(create[p])
    BY DEF Inv, RequestsSound
<1>3. Marking(p) => Job(p).path \in ToolPaths
    BY <1>2, JobFacts DEF Marking, At, Job, Sound
<1>4. At(p, "rmdir") => Job(p).path \in SkillPaths
    BY <1>2, JobFacts DEF At, Job, Sound
<1> QED BY <1>1, <1>3, <1>4 DEF Cut, Marking

(* One request in flight moves: the others stay, and alone stays alone.    *)
LEMMA OneMoves ==
    ASSUME Inv, NEW p \in Creates, NEW c, Sound(c), InFlight(p),
           c.pc # "idle" => c.alone = create[p].alone,
           create' = [create EXCEPT ![p] = c]
    PROVE  /\ create' \in [Creates -> Request]
           /\ create'[p] = c
           /\ \A q \in Creates \ {p} : create'[q] = create[q]
           /\ RequestsSound'
           /\ AloneIsAlone'
<1>1. create \in [Creates -> Request]
    BY DEF Inv, TypeOK
<1>2. /\ create'[p] = c
      /\ \A q \in Creates \ {p} : create'[q] = create[q]
    BY <1>1
<1>3. create' \in [Creates -> Request]
    BY <1>1 DEF Sound
<1>4. RequestsSound'
    BY <1>2 DEF RequestsSound, Inv
<1>5. AloneIsAlone'
    BY <1>2 DEF AloneIsAlone, InFlight, Inv
<1> QED BY <1>2, <1>3, <1>4, <1>5

(* A request that cuts nothing short, before or after, moves alone.        *)
LEMMA QuietStep ==
    ASSUME Inv, NEW p \in Creates, NEW c, Sound(c), InFlight(p),
           c.pc # "idle" => c.alone = create[p].alone,
           create' = [create EXCEPT ![p] = c],
           ~Marking(p), p \notin emptying, c.pc \notin {"markOpen", "markWrite"},
           UNCHANGED <<tools, marks, skills, emptying, doubt>>
    PROVE  Inv'
<1>1. /\ create' \in [Creates -> Request]
      /\ create'[p] = c
      /\ \A q \in Creates \ {p} : create'[q] = create[q]
      /\ RequestsSound'
      /\ AloneIsAlone'
    BY OneMoves
<1>2. TypeOK'
    BY <1>1 DEF Inv, TypeOK, At
<1>3. MarkedIsOwn'
    BY <1>1 DEF Inv, MarkedIsOwn, Marking, At, Job
<1>4. \A q \in Creates : Cut(q)' = Cut(q)
    BY <1>1 DEF Cut, Marking, At, Job
<1>5. \A path : Settled(path)' = Settled(path)
    BY <1>4 DEF Settled
<1>6. VerifiedOnly' /\ ToolMarkersTrue' /\ SkillMarkersTrue'
    BY <1>5 DEF Inv, VerifiedOnly, ToolMarkersTrue, SkillMarkersTrue, Whole
<1> QED BY <1>1, <1>2, <1>3, <1>6 DEF Inv

(* A request fails: what it cut short is in doubt.                         *)
LEMMA FailStep ==
    ASSUME Inv, NEW p \in Creates, NEW cause \in Causes, NEW body \in Contents \cup {Nothing},
           InFlight(p), FailOver(p, cause, body), UNCHANGED <<tools, marks, skills>>
    PROVE  Inv'
<1> DEFINE c == Idle(cause, body)
<1>0. Sound(c) /\ c.pc = "idle"
    BY IdleSound
<1>1. /\ create' \in [Creates -> Request]
      /\ create'[p] = c
      /\ \A q \in Creates \ {p} : create'[q] = create[q]
      /\ RequestsSound'
      /\ AloneIsAlone'
    BY <1>0, OneMoves DEF FailOver
<1> HIDE DEF c
<1>2. emptying' = emptying \ {p} /\ doubt' = doubt \cup Cut(p)
    BY DEF FailOver
<1>3. Cut(p) \subseteq ToolPaths \cup SkillPaths
    BY CutFacts
<1>4. TypeOK'
    BY <1>1, <1>2, <1>3 DEF Inv, TypeOK, At
<1>5. MarkedIsOwn'
    BY <1>0, <1>1, <1>2 DEF Inv, MarkedIsOwn, Marking, At, Job
<1>6. \A q \in Creates \ {p} : Cut(q)' = Cut(q)
    BY <1>1, <1>2 DEF Cut, At, Job
<1>7. \A path : Settled(path)' => Settled(path)
    BY <1>2, <1>6 DEF Settled
<1>8. VerifiedOnly' /\ ToolMarkersTrue' /\ SkillMarkersTrue'
    BY <1>7 DEF Inv, VerifiedOnly, ToolMarkersTrue, SkillMarkersTrue, Whole
<1> QED BY <1>1, <1>4, <1>5, <1>8 DEF Inv

-----------------------------------------------------------------------------
(* The steps that leave tools, markers and skills alone.                   *)

LEMMA InitInv == Init => Inv
<1> SUFFICES ASSUME Init PROVE Inv
    OBVIOUS
<1>0. Idle("none", Nothing) \in Request /\ Idle("none", Nothing).pc = "idle"
    BY IdleSound DEF Causes, Sound
<1>1. /\ create = [p \in Creates |-> Idle("none", Nothing)]
      /\ tools = [t \in ToolPaths |-> Nothing]
      /\ marks = [t \in ToolPaths |-> Nothing]
      /\ skills = [s \in SkillPaths |-> NoSkill]
      /\ emptying = {} /\ doubt = {}
    BY DEF Init
<1>2. NoSkill \in SkillDir /\ NoSkill.there = FALSE /\ NoSkill.mark = Nothing
    BY DEF NoSkill, SkillDir
<1>3. TypeOK
    BY <1>0, <1>1, <1>2 DEF TypeOK
<1>4. RequestsSound
    BY <1>1, IdleSound DEF RequestsSound, Causes
<1>5. AloneIsAlone /\ MarkedIsOwn
    BY <1>0, <1>1 DEF AloneIsAlone, MarkedIsOwn, Marking, At, InFlight
<1>6. VerifiedOnly
    BY <1>1, <1>2 DEF VerifiedOnly
<1>7. ToolMarkersTrue /\ SkillMarkersTrue
    BY <1>1, <1>2 DEF ToolMarkersTrue, SkillMarkersTrue
<1> QED BY <1>3, <1>4, <1>5, <1>6, <1>7 DEF Inv

LEMMA StartStep ==
    ASSUME Inv, NEW p \in Creates, Start(p)
    PROVE  Inv'
<1>1. PICK g \in Graphs : \E c \in Following([Idle("none", Nothing) EXCEPT
                !.graph = g, !.left = Jobs(g), !.alone = \A q \in Creates : ~InFlight(q)]) :
             create' = [q \in Creates |->
                          IF q = p THEN c ELSE [create[q] EXCEPT !.alone = FALSE]]
    BY DEF Start
<1> DEFINE b == [Idle("none", Nothing) EXCEPT
                !.graph = g, !.left = Jobs(g), !.alone = \A q \in Creates : ~InFlight(q)]
<1>2. PICK c \in Following(b) :
             create' = [q \in Creates |->
                          IF q = p THEN c ELSE [create[q] EXCEPT !.alone = FALSE]]
    BY <1>1
<1>3. b \in Request /\ (b.alone <=> \A q \in Creates : ~InFlight(q))
  <2>1. Jobs(g) \subseteq AllJobs
      BY AllJobsOf
  <2>2. (\A q \in Creates : ~InFlight(q)) \in BOOLEAN
      OBVIOUS
  <2> QED BY <2>1, <2>2 DEF Idle, Request, PCs, Causes
<1> HIDE DEF b
<1>4. Sound(c) /\ c.pc \in {"idle", "cache"} /\ (c.pc # "idle" => c.alone = b.alone)
    BY <1>3, FollowingSound
<1>5. At(p, "idle") /\ UNCHANGED <<tools, marks, skills, emptying, doubt>>
    BY DEF Start
<1>6. create \in [Creates -> Request]
    BY DEF Inv, TypeOK
<1>7. /\ create'[p] = c
      /\ \A q \in Creates \ {p} :
            /\ create'[q] = [create[q] EXCEPT !.alone = FALSE]
            /\ create'[q] \in Request
            /\ create'[q].pc = create[q].pc
            /\ create'[q].job = create[q].job
            /\ create'[q].body = create[q].body
            /\ create'[q].alone = FALSE
    BY <1>2, <1>6 DEF Request
<1>8. create' \in [Creates -> Request]
    BY <1>2, <1>4, <1>7 DEF Sound
<1>9. RequestsSound'
    BY <1>4, <1>7 DEF Inv, RequestsSound, Sound
<1>10. AloneIsAlone'
    BY <1>3, <1>4, <1>7 DEF AloneIsAlone, InFlight
<1>11. TypeOK'
    BY <1>5, <1>7, <1>8 DEF Inv, TypeOK, At
<1>12. MarkedIsOwn'
    BY <1>4, <1>5, <1>7 DEF Inv, MarkedIsOwn, Marking, At, Job
<1>13. \A q \in Creates : Cut(q)' = Cut(q)
  <2>1. p \notin emptying
      BY <1>5 DEF Inv, TypeOK, At
  <2> QED BY <1>4, <1>5, <1>7, <2>1 DEF Cut, At, Job
<1>14. \A path : Settled(path)' = Settled(path)
    BY <1>5, <1>13 DEF Settled
<1>15. VerifiedOnly' /\ ToolMarkersTrue' /\ SkillMarkersTrue'
    BY <1>5, <1>14 DEF Inv, VerifiedOnly, ToolMarkersTrue, SkillMarkersTrue, Whole
<1> QED BY <1>9, <1>10, <1>11, <1>12, <1>15 DEF Inv

(* A request in flight, by its step.                                       *)
LEMMA RequestFacts ==
    ASSUME Inv, NEW p \in Creates, InFlight(p)
    PROVE  /\ create \in [Creates -> Request]
           /\ create[p] \in Request
           /\ Job(p) = create[p].job /\ Job(p) \in AllJobs
           /\ Sound(create[p])
PROOF BY DEF Inv, TypeOK, RequestsSound, Sound, InFlight, Job

(* Going to another step of the same artifact.                             *)
LEMMA GotoSound ==
    ASSUME Inv, NEW p \in Creates, InFlight(p), NEW pc \in PCs,
           pc \in {"markOpen", "markWrite"} => Job(p).kind = "tool",
           pc \in {"clear", "rmdir"} => Job(p).kind = "skill",
           pc # "rename", pc # "idle",
           Goto(p, pc)
    PROVE  LET c == [create[p] EXCEPT !.pc = pc] IN
           /\ Sound(c) /\ c.pc = pc /\ c.alone = create[p].alone /\ c.job = Job(p)
           /\ create' = [create EXCEPT ![p] = c]
<1> DEFINE c == [create[p] EXCEPT !.pc = pc]
<1>1. create[p] \in Request /\ Job(p) = create[p].job /\ Job(p) \in AllJobs
    BY RequestFacts
<1>2. c \in Request /\ c.pc = pc /\ c.alone = create[p].alone /\ c.job = Job(p)
    BY <1>1 DEF Request
<1>3. Sound(c)
    BY <1>1, <1>2 DEF Sound
<1> QED BY <1>2, <1>3 DEF Goto

LEMMA CheckCacheStep ==
    ASSUME Inv, NEW p \in Creates, CheckCache(p)
    PROVE  Inv'
<1>1. /\ At(p, "cache") /\ InFlight(p) /\ ~Marking(p) /\ p \notin emptying
      /\ UNCHANGED <<tools, marks, skills>>
    BY DEF CheckCache, At, InFlight, Marking, Inv, TypeOK
<1>2. CASE Advance(p) /\ UNCHANGED <<emptying, doubt>>
  <2>1. PICK c \in Following(create[p]) : create' = [create EXCEPT ![p] = c]
      BY <1>2 DEF Advance
  <2>2. Sound(c) /\ c.pc \in {"idle", "cache"} /\ (c.pc # "idle" => c.alone = create[p].alone)
      BY <1>1, RequestFacts, FollowingSound
  <2> QED BY <1>1, <1>2, <2>1, <2>2, QuietStep
<1>3. CASE /\ Goto(p, IF Job(p).kind = "tool" THEN "fetch" ELSE "clear")
           /\ UNCHANGED <<emptying, doubt>>
  <2> DEFINE pc == IF Job(p).kind = "tool" THEN "fetch" ELSE "clear"
             c == [create[p] EXCEPT !.pc = pc]
  <2>1. pc \in PCs /\ pc \in {"fetch", "clear"} /\ (pc = "clear" => Job(p).kind = "skill")
      BY <1>1, RequestFacts, JobFacts DEF PCs
  <2> HIDE DEF pc
  <2>2. Goto(p, pc)
      BY <1>3 DEF pc
  <2>3. Sound(c) /\ c.pc = pc /\ c.alone = create[p].alone /\ create' = [create EXCEPT ![p] = c]
      BY <1>1, <2>1, <2>2, GotoSound
  <2> HIDE DEF c
  <2> QED BY <1>1, <1>3, <2>1, <2>3, QuietStep
<1>4. CASE Fail(p, "disk")
    BY <1>1, <1>4, FailStep DEF Fail, Causes
<1> QED BY <1>2, <1>3, <1>4 DEF CheckCache

LEMMA FetchStep ==
    ASSUME Inv, NEW p \in Creates, Fetch(p)
    PROVE  Inv'
<1>1. /\ At(p, "fetch") /\ InFlight(p) /\ ~Marking(p) /\ p \notin emptying
      /\ UNCHANGED <<tools, marks, skills>>
    BY DEF Fetch, At, InFlight, Marking, Inv, TypeOK
<1>2. Job(p) \in AllJobs /\ create[p] \in Request /\ Job(p) = create[p].job
    BY <1>1, RequestFacts
<1>3. {Job(p).want} \cup Strays \subseteq Contents
    BY <1>2, JobFacts, ClosureAssumption
<1>4. ASSUME NEW body \in {Job(p).want} \cup Strays,
             FetchError(Job(p), body) = "none",
             create' = [create EXCEPT ![p] = [@ EXCEPT !.pc = "rename", !.body = body]],
             UNCHANGED <<emptying, doubt>>
      PROVE  Inv'
  <2> DEFINE c == [create[p] EXCEPT !.pc = "rename", !.body = body]
  <2>1. body = Job(p).want
      BY <1>2, <1>3, <1>4, FetchVerifies
  <2>2. /\ c \in Request /\ c.pc = "rename" /\ c.body = Job(p).want /\ c.job = Job(p)
        /\ c.alone = create[p].alone
      BY <1>2, <1>3, <2>1 DEF Request, PCs
  <2>3. Sound(c) /\ create' = [create EXCEPT ![p] = c]
      BY <1>2, <1>4, <2>2 DEF Sound
  <2> HIDE DEF c
  <2> QED BY <1>1, <1>4, <2>2, <2>3, QuietStep
<1>5. ASSUME NEW body \in {Job(p).want} \cup Strays,
             FetchError(Job(p), body) # "none",
             FailOver(p, FetchError(Job(p), body), body)
      PROVE  Inv'
    BY <1>1, <1>3, <1>5, FetchCauses, FailStep
<1>6. ASSUME NEW cause \in {"upstream", "disk"}, Fail(p, cause)
      PROVE  Inv'
    BY <1>1, <1>6, FailStep DEF Fail, Causes
<1> QED BY <1>4, <1>5, <1>6 DEF Fetch

LEMMA FetchTimeoutStep ==
    ASSUME Inv, NEW p \in Creates, FetchTimeout(p)
    PROVE  Inv'
<1>1. InFlight(p) /\ Fail(p, "upstream") /\ UNCHANGED <<tools, marks, skills>>
    BY DEF FetchTimeout, At, InFlight
<1> QED BY <1>1, FailStep DEF Fail, Causes

-----------------------------------------------------------------------------
(* The tool installer's steps.                                             *)

LEMMA InstallToolStep ==
    ASSUME Inv, NEW p \in Creates, InstallTool(p)
    PROVE  Inv'
<1> DEFINE path == Job(p).path
<1>1. /\ At(p, "rename") /\ InFlight(p) /\ ~Marking(p) /\ p \notin emptying
      /\ Job(p).kind = "tool" /\ UNCHANGED <<marks, skills>>
    BY DEF InstallTool, At, InFlight, Marking, Inv, TypeOK
<1>2. /\ create \in [Creates -> Request] /\ create[p] \in Request
      /\ Job(p) \in AllJobs /\ Job(p) = create[p].job /\ create[p].body = Job(p).want
    BY <1>1, RequestFacts DEF Sound, At
<1>3. path \in ToolPaths /\ Job(p).want \in ToolFiles /\ Job(p).want \in WantedAt(path)
    BY <1>1, <1>2, JobFacts
<1>4. CASE Fail(p, "disk") /\ UNCHANGED tools
    BY <1>1, <1>4, FailStep DEF Fail, Causes
<1>5. CASE /\ tools' = [tools EXCEPT ![path] = create[p].body]
           /\ create' = [create EXCEPT ![p] = [@ EXCEPT !.pc = "markOpen",
                 !.replaced = tools[path] \notin {Nothing, create[p].body}]]
           /\ doubt' = doubt \cup (IF Others(p, path) = {} THEN {} ELSE {path})
           /\ UNCHANGED emptying
  <2> DEFINE c == [create[p] EXCEPT !.pc = "markOpen",
                      !.replaced = tools[path] \notin {Nothing, create[p].body}]
  <2>1. (tools[path] \notin {Nothing, create[p].body}) \in BOOLEAN
      OBVIOUS
  <2>2. /\ c \in Request /\ c.pc = "markOpen" /\ c.job = Job(p) /\ c.alone = create[p].alone
        /\ create' = [create EXCEPT ![p] = c]
      BY <1>2, <1>5, <2>1 DEF Request, PCs
  <2>3. Sound(c)
      BY <1>1, <1>2, <2>2 DEF Sound
  <2> HIDE DEF c
  <2>4. /\ create' \in [Creates -> Request]
        /\ create'[p] = c
        /\ \A q \in Creates \ {p} : create'[q] = create[q]
        /\ RequestsSound'
        /\ AloneIsAlone'
      BY <1>1, <2>2, <2>3, OneMoves
  <2>5. /\ tools \in [ToolPaths -> ToolFiles \cup {Nothing}]
        /\ tools' = [tools EXCEPT ![path] = Job(p).want]
        /\ tools'[path] = Job(p).want
        /\ \A t \in ToolPaths \ {path} : tools'[t] = tools[t]
      BY <1>2, <1>3, <1>5 DEF Inv, TypeOK
  <2>6. TypeOK'
      BY <1>1, <1>3, <1>5, <2>2, <2>4, <2>5 DEF Inv, TypeOK, At
  <2>7. doubt \subseteq doubt' /\ (doubt' \subseteq doubt \cup {path})
      BY <1>5
  <2>8. MarkedIsOwn'
    <3> SUFFICES ASSUME NEW q \in Creates, Marking(q)',
                        Job(q)'.path \notin doubt' \/ create'[q].alone
                 PROVE  tools'[Job(q)'.path] = Job(q)'.want
        BY DEF MarkedIsOwn
    <3>1. CASE q = p
        BY <2>2, <2>4, <2>5, <3>1 DEF Job
    <3>2. CASE q # p
      <4>1. Marking(q) /\ Job(q)' = Job(q) /\ create'[q].alone = create[q].alone
          BY <2>4, <3>2 DEF Marking, At, Job
      <4>2. InFlight(q) /\ Cut(q) = {Job(q).path} /\ Job(q).path \in ToolPaths
          BY <4>1, CutFacts DEF Marking, At, InFlight
      <4>3. ~create[q].alone
          BY <1>1, <3>2, <4>2 DEF Inv, AloneIsAlone
      <4>4. Job(q).path \notin doubt /\ Job(q).path \notin doubt'
          BY <2>7, <4>1, <4>3
      <4>5. Job(q).path # path
        <5> SUFFICES ASSUME Job(q).path = path PROVE FALSE
            OBVIOUS
        <5>1. q \in Others(p, path)
            BY <3>2, <4>2 DEF Others
        <5> QED BY <1>5, <4>4, <5>1
      <4>6. tools[Job(q).path] = Job(q).want
          BY <4>1, <4>4 DEF Inv, MarkedIsOwn
      <4> QED BY <2>5, <4>1, <4>2, <4>5, <4>6
    <3> QED BY <3>1, <3>2
  <2>9. \A q \in Creates \ {p} : Cut(q)' = Cut(q)
      BY <1>5, <2>4 DEF Cut, At, Job
  <2>10. path \in Cut(p)'
      BY <2>2, <2>4 DEF Cut, At, Job
  <2>11. \A t : Settled(t)' => Settled(t) /\ t # path
    <3>1. Cut(p) = {}
        BY <1>1, CutFacts
    <3> QED BY <2>7, <2>9, <2>10, <3>1 DEF Settled
  <2>12. ToolMarkersTrue' /\ SkillMarkersTrue'
      BY <1>1, <2>5, <2>11 DEF Inv, ToolMarkersTrue, SkillMarkersTrue, Whole
  <2>13. VerifiedOnly'
      BY <1>1, <1>3, <2>5 DEF Inv, VerifiedOnly
  <2> QED BY <2>4, <2>6, <2>8, <2>12, <2>13 DEF Inv
<1> QED BY <1>4, <1>5 DEF InstallTool

LEMMA OpenMarkerStep ==
    ASSUME Inv, NEW p \in Creates, OpenMarker(p)
    PROVE  Inv'
<1> DEFINE path == Job(p).path
<1>1. /\ At(p, "markOpen") /\ InFlight(p) /\ Marking(p)
      /\ UNCHANGED <<tools, skills>>
    BY DEF OpenMarker, At, InFlight, Marking
<1>2. /\ create[p] \in Request /\ Job(p) \in AllJobs /\ Job(p) = create[p].job
      /\ Job(p).kind = "tool"
    BY <1>1, RequestFacts DEF Sound, At
<1>3. path \in ToolPaths
    BY <1>1, CutFacts
<1>4. CASE Fail(p, "disk") /\ UNCHANGED marks
    BY <1>1, <1>4, FailStep DEF Fail, Causes
<1>5. CASE /\ marks' = [marks EXCEPT ![path] = Blank]
           /\ Goto(p, "markWrite")
           /\ UNCHANGED <<emptying, doubt>>
  <2> DEFINE c == [create[p] EXCEPT !.pc = "markWrite"]
  <2>1. /\ Sound(c) /\ c.pc = "markWrite" /\ c.alone = create[p].alone /\ c.job = Job(p)
        /\ create' = [create EXCEPT ![p] = c]
      BY <1>1, <1>2, <1>5, GotoSound DEF PCs
  <2> HIDE DEF c
  <2>2. /\ create' \in [Creates -> Request]
        /\ create'[p] = c
        /\ \A q \in Creates \ {p} : create'[q] = create[q]
        /\ RequestsSound'
        /\ AloneIsAlone'
      BY <1>1, <2>1, OneMoves
  <2>3. /\ marks' \in [ToolPaths -> ToolFiles \cup {Nothing, Blank}]
        /\ \A t \in ToolPaths \ {path} : marks'[t] = marks[t]
      BY <1>3, <1>5 DEF Inv, TypeOK
  <2>4. TypeOK'
      BY <1>1, <1>5, <2>1, <2>2, <2>3 DEF Inv, TypeOK, At
  <2>5. MarkedIsOwn'
      BY <1>1, <1>5, <2>1, <2>2 DEF Inv, MarkedIsOwn, Marking, At, Job
  <2>6. \A q \in Creates : Cut(q)' = Cut(q)
      BY <1>1, <1>5, <2>1, <2>2 DEF Cut, At, Job
  <2>7. \A t : Settled(t)' => Settled(t) /\ t # path
      BY <1>1, <1>5, <2>6, CutFacts DEF Settled
  <2>8. ToolMarkersTrue' /\ SkillMarkersTrue' /\ VerifiedOnly'
      BY <1>1, <2>3, <2>7 DEF Inv, ToolMarkersTrue, SkillMarkersTrue, Whole, VerifiedOnly
  <2> QED BY <2>2, <2>4, <2>5, <2>8 DEF Inv
<1> QED BY <1>4, <1>5 DEF OpenMarker

(* The marker that is written is of the tool that is there; only a request *)
(* that was always alone ends a doubt.                                     *)
LEMMA WriteMarkerStep ==
    ASSUME Inv, NEW p \in Creates, WriteMarker(p)
    PROVE  Inv'
<1> DEFINE path == Job(p).path
<1>1. /\ At(p, "markWrite") /\ InFlight(p) /\ Marking(p) /\ p \notin emptying
      /\ UNCHANGED <<tools, skills>>
    BY DEF WriteMarker, At, InFlight, Marking, Inv, TypeOK
<1>2. /\ create[p] \in Request /\ Job(p) \in AllJobs /\ Job(p) = create[p].job
      /\ Job(p).kind = "tool" /\ Job(p).want \in ToolFiles
    BY <1>1, RequestFacts, JobFacts DEF Sound, At
<1>3. path \in ToolPaths /\ Cut(p) = {path}
    BY <1>1, CutFacts
<1>4. CASE Fail(p, "disk") /\ UNCHANGED marks
    BY <1>1, <1>4, FailStep DEF Fail, Causes
<1>5. CASE /\ marks' = [marks EXCEPT ![path] = Job(p).want]
           /\ Advance(p)
           /\ doubt' = IF create[p].alone THEN doubt \ {path} ELSE doubt
           /\ UNCHANGED emptying
  <2>1. PICK c \in Following(create[p]) : create' = [create EXCEPT ![p] = c]
      BY <1>5 DEF Advance
  <2>2. Sound(c) /\ c.pc \in {"idle", "cache"} /\ (c.pc # "idle" => c.alone = create[p].alone)
      BY <1>2, FollowingSound
  <2>3. /\ create' \in [Creates -> Request]
        /\ create'[p] = c
        /\ \A q \in Creates \ {p} : create'[q] = create[q]
        /\ RequestsSound'
        /\ AloneIsAlone'
      BY <1>1, <2>1, <2>2, OneMoves
  <2>4. /\ marks' \in [ToolPaths -> ToolFiles \cup {Nothing, Blank}]
        /\ marks'[path] = Job(p).want
        /\ \A t \in ToolPaths \ {path} : marks'[t] = marks[t]
      BY <1>2, <1>3, <1>5 DEF Inv, TypeOK
  <2>5. doubt' \subseteq doubt /\ doubt \subseteq doubt' \cup {path}
      BY <1>5
  <2>6. TypeOK'
      BY <1>1, <1>5, <2>2, <2>3, <2>4, <2>5 DEF Inv, TypeOK, At
  <2>7. create[p].alone => \A q \in Creates \ {p} : ~InFlight(q)
      BY <1>1 DEF Inv, AloneIsAlone
  <2>8. MarkedIsOwn'
    <3> SUFFICES ASSUME NEW q \in Creates, Marking(q)',
                        Job(q)'.path \notin doubt' \/ create'[q].alone
                 PROVE  tools'[Job(q)'.path] = Job(q)'.want
        BY DEF MarkedIsOwn
    <3>1. q # p
        BY <2>2, <2>3 DEF Marking, At
    <3>2. Marking(q) /\ Job(q)' = Job(q) /\ create'[q].alone = create[q].alone
        BY <2>3, <3>1 DEF Marking, At, Job
    <3>3. ~create[p].alone
        BY <2>7, <3>1, <3>2 DEF Marking, At, InFlight
    <3>4. doubt' = doubt
        BY <1>5, <3>3
    <3> QED BY <1>1, <3>2, <3>4 DEF Inv, MarkedIsOwn
  <2>9. \A q \in Creates \ {p} : Cut(q)' = Cut(q)
      BY <1>5, <2>3 DEF Cut, At, Job
  <2>10. \A t : Settled(t)' /\ t # path => Settled(t)
      BY <1>3, <2>5, <2>9 DEF Settled
  <2>11. \A t : Settled(t)' /\ t = path => marks'[t] = tools'[t]
    <3> SUFFICES ASSUME NEW t, Settled(t)', t = path PROVE Job(p).want = tools[path]
        BY <1>1, <2>4
    <3>1. path \notin doubt \/ create[p].alone
        BY <1>5 DEF Settled
    <3> QED BY <1>1, <3>1 DEF Inv, MarkedIsOwn
  <2>12. ToolMarkersTrue'
      BY <1>1, <2>4, <2>10, <2>11 DEF Inv, ToolMarkersTrue
  <2>13. SkillMarkersTrue' /\ VerifiedOnly'
      BY <1>1, <1>3, <2>10, PathsApart DEF Inv, SkillMarkersTrue, Whole, VerifiedOnly
  <2> QED BY <2>3, <2>6, <2>8, <2>12, <2>13 DEF Inv
<1> QED BY <1>4, <1>5 DEF WriteMarker

-----------------------------------------------------------------------------
(* The skill installer's steps.                                            *)

(* What a removal leaves is less of the same.                              *)
LEMMA RemainsFacts ==
    ASSUME NEW d \in SkillDir, NEW r \in Remains(d)
    PROVE  /\ r \in SkillDir /\ r.there = d.there /\ r.of = d.of
           /\ r.files \subseteq d.files
<1>0. PICK m \in {d.mark, Nothing} :
        r \in {[d EXCEPT !.files = f, !.mark = m] : f \in SUBSET d.files}
    BY DEF Remains
<1>1. PICK f \in SUBSET d.files : r = [d EXCEPT !.files = f, !.mark = m]
    BY <1>0
<1>2. f \subseteq d.files /\ m \in Archives \cup {Nothing}
    BY DEF SkillDir
<1> QED BY <1>1, <1>2 DEF SkillDir

LEMMA ClearSkillStep ==
    ASSUME Inv, NEW p \in Creates, ClearSkill(p)
    PROVE  Inv'
<1> DEFINE path == Job(p).path
<1>1. /\ At(p, "clear") /\ InFlight(p) /\ ~Marking(p) /\ p \notin emptying
      /\ UNCHANGED <<tools, marks, doubt>>
    BY DEF ClearSkill, At, InFlight, Marking, Inv, TypeOK
<1>2. /\ create[p] \in Request /\ Job(p) \in AllJobs /\ Job(p) = create[p].job
      /\ Job(p).kind = "skill"
    BY <1>1, RequestFacts DEF Sound, At
<1>3. path \in SkillPaths
    BY <1>2, JobFacts
<1>4. CASE ~skills[path].there /\ Goto(p, "fetch") /\ UNCHANGED <<skills, emptying>>
  <2> DEFINE c == [create[p] EXCEPT !.pc = "fetch"]
  <2>1. /\ Sound(c) /\ c.pc = "fetch" /\ c.alone = create[p].alone
        /\ create' = [create EXCEPT ![p] = c]
      BY <1>1, <1>4, GotoSound DEF PCs
  <2> HIDE DEF c
  <2> QED BY <1>1, <1>4, <2>1, QuietStep
<1>5. CASE /\ skills[path].there
           /\ \E d \in Remains(skills[path]) : skills' = [skills EXCEPT ![path] = d]
           /\ emptying' = emptying \cup {p}
           /\ Goto(p, "rmdir")
  <2> DEFINE c == [create[p] EXCEPT !.pc = "rmdir"]
  <2>1. /\ Sound(c) /\ c.pc = "rmdir" /\ c.alone = create[p].alone /\ c.job = Job(p)
        /\ create' = [create EXCEPT ![p] = c]
      BY <1>1, <1>2, <1>5, GotoSound DEF PCs
  <2> HIDE DEF c
  <2>2. /\ create' \in [Creates -> Request]
        /\ create'[p] = c
        /\ \A q \in Creates \ {p} : create'[q] = create[q]
        /\ RequestsSound'
        /\ AloneIsAlone'
      BY <1>1, <2>1, OneMoves
  <2>3. PICK d \in Remains(skills[path]) : skills' = [skills EXCEPT ![path] = d]
      BY <1>5
  <2>4. skills \in [SkillPaths -> SkillDir]
      BY DEF Inv, TypeOK
  <2>5. /\ d \in SkillDir /\ d.there = skills[path].there /\ d.of = skills[path].of
        /\ d.files \subseteq skills[path].files
      BY <1>3, <2>3, <2>4, RemainsFacts
  <2>6. /\ skills' \in [SkillPaths -> SkillDir]
        /\ skills'[path] = d
        /\ \A s \in SkillPaths \ {path} : skills'[s] = skills[s]
      BY <1>3, <2>3, <2>4, <2>5
  <2>7. TypeOK'
      BY <1>1, <1>5, <2>1, <2>2, <2>6 DEF Inv, TypeOK, At
  <2>8. MarkedIsOwn'
      BY <1>1, <2>1, <2>2 DEF Inv, MarkedIsOwn, Marking, At, Job
  <2>9. \A q \in Creates \ {p} : Cut(q)' = Cut(q)
      BY <1>5, <2>2 DEF Cut, At, Job
  <2>10. Cut(p) = {} /\ path \in Cut(p)'
    <3>1. Cut(p) = {}
        BY <1>1, CutFacts
    <3> QED BY <1>5, <2>1, <2>2, <3>1 DEF Cut, At, Job
  <2>11. \A t : Settled(t)' => Settled(t) /\ t # path
      BY <1>1, <2>9, <2>10 DEF Settled
  <2>12. ToolMarkersTrue' /\ SkillMarkersTrue'
      BY <1>1, <2>6, <2>11 DEF Inv, ToolMarkersTrue, SkillMarkersTrue, Whole
  <2>13. VerifiedOnly'
    <3> SUFFICES ASSUME NEW s \in SkillPaths, skills'[s].there
                 PROVE  /\ skills'[s].of \in WantedAt(s)
                        /\ Fits(skills'[s].of) /\ Inside(skills'[s].of)
                        /\ skills'[s].files \subseteq Expected[<<skills'[s].of, s[3]>>]
        BY <1>1 DEF Inv, VerifiedOnly
    <3>1. skills[s].there /\ skills'[s].of = skills[s].of /\ skills'[s].files \subseteq skills[s].files
        BY <2>5, <2>6
    <3>2. /\ skills[s].of \in WantedAt(s)
          /\ Fits(skills[s].of) /\ Inside(skills[s].of)
          /\ skills[s].files \subseteq Expected[<<skills[s].of, s[3]>>]
        BY <3>1 DEF Inv, VerifiedOnly
    <3> QED BY <3>1, <3>2
  <2> QED BY <2>2, <2>7, <2>8, <2>12, <2>13 DEF Inv
<1> QED BY <1>4, <1>5 DEF ClearSkill

LEMMA RemoveSkillStep ==
    ASSUME Inv, NEW p \in Creates, RemoveSkill(p)
    PROVE  Inv'
<1> DEFINE path == Job(p).path
<1>1. /\ At(p, "rmdir") /\ InFlight(p) /\ ~Marking(p)
      /\ UNCHANGED <<tools, marks>>
    BY DEF RemoveSkill, At, InFlight, Marking
<1>2. /\ create[p] \in Request /\ Job(p) \in AllJobs /\ Job(p) = create[p].job
      /\ Job(p).kind = "skill"
    BY <1>1, RequestFacts DEF Sound, At
<1>3. path \in SkillPaths
    BY <1>2, JobFacts
<1>4. CASE (Fail(p, "layout") \/ Fail(p, "disk")) /\ UNCHANGED skills
    BY <1>1, <1>4, FailStep DEF Fail, Causes
<1>5. CASE /\ skills' = [skills EXCEPT ![path] = NoSkill]
           /\ Goto(p, "fetch")
           /\ emptying' = emptying \ {p}
           /\ UNCHANGED doubt
  <2> DEFINE c == [create[p] EXCEPT !.pc = "fetch"]
  <2>1. /\ Sound(c) /\ c.pc = "fetch" /\ c.alone = create[p].alone /\ c.job = Job(p)
        /\ create' = [create EXCEPT ![p] = c]
      BY <1>1, <1>5, GotoSound DEF PCs
  <2> HIDE DEF c
  <2>2. /\ create' \in [Creates -> Request]
        /\ create'[p] = c
        /\ \A q \in Creates \ {p} : create'[q] = create[q]
        /\ RequestsSound'
        /\ AloneIsAlone'
      BY <1>1, <2>1, OneMoves
  <2>3. NoSkill \in SkillDir /\ NoSkill.there = FALSE /\ NoSkill.mark = Nothing
      BY DEF NoSkill, SkillDir
  <2>4. /\ skills' \in [SkillPaths -> SkillDir]
        /\ skills'[path] = NoSkill
        /\ \A s \in SkillPaths \ {path} : skills'[s] = skills[s]
      BY <1>3, <1>5, <2>3 DEF Inv, TypeOK
  <2>5. TypeOK'
      BY <1>1, <1>5, <2>2, <2>4 DEF Inv, TypeOK, At
  <2>6. MarkedIsOwn'
      BY <1>1, <1>5, <2>1, <2>2 DEF Inv, MarkedIsOwn, Marking, At, Job
  <2>7. \A q \in Creates \ {p} : Cut(q)' = Cut(q)
      BY <1>5, <2>2 DEF Cut, At, Job
  <2>8. Cut(p) \subseteq {path}
      BY CutFacts
  <2>9. \A t : Settled(t)' /\ t # path => Settled(t)
      BY <1>5, <2>7, <2>8 DEF Settled
  <2>10. ToolMarkersTrue'
      BY <1>1, <1>3, <2>9, PathsApart DEF Inv, ToolMarkersTrue
  <2>11. SkillMarkersTrue'
      BY <2>3, <2>4, <2>9 DEF Inv, SkillMarkersTrue, Whole
  <2>12. VerifiedOnly'
      BY <1>1, <2>3, <2>4 DEF Inv, VerifiedOnly
  <2> QED BY <2>2, <2>5, <2>6, <2>10, <2>11, <2>12 DEF Inv
<1> QED BY <1>4, <1>5 DEF RemoveSkill

LEMMA UnpackingFacts ==
    ASSUME NEW z \in Archives, NEW name \in SkillNames
    PROVE  LET u == Unpacking[<<z, name>>] IN
           /\ u.error \in {"none", "slip", "size", "layout", "broken"}
           /\ u.error = "none" => Fits(z) /\ Inside(z) /\ u.files = Expected[<<z, name>>]
           /\ u.error = "slip" => ~Inside(z) \/ Dotted(z)
           /\ u.error = "size" => ~Fits(z)
           /\ u.error = "layout" => ~Consistent(z) \/ NameTaken(z, name)
           /\ u.error = "broken" => Broken(z)
<1>1. Unpacking[<<z, name>>] = Unpack(z, name)
    BY DEF Unpacking
<1>2. Expected[<<z, name>>] = FilesOf(z, name)
    BY DEF Expected
<1>3. UnpacksRight(z, name)
    BY ClosureAssumption, UnpackIsRight
<1> QED BY <1>1, <1>2, <1>3 DEF UnpacksRight

(* What is renamed into place is the whole of a verified archive.          *)
LEMMA UnpackedIsWhole ==
    ASSUME NEW j \in AllJobs, j.kind = "skill",
           Unpacking[<<j.want, j.path[3]>>].error = "none"
    PROVE  /\ Unpacked(j, j.want) = Whole(j.want, j.path)
           /\ Unpacked(j, j.want) \in SkillDir
           /\ Fits(j.want) /\ Inside(j.want)
<1>1. j.want \in Archives /\ j.path[3] \in SkillNames
    BY JobFacts
<1>2. /\ Fits(j.want) /\ Inside(j.want)
      /\ Unpacking[<<j.want, j.path[3]>>].files = Expected[<<j.want, j.path[3]>>]
    BY <1>1, UnpackingFacts
<1> DEFINE x == <<j.want, j.path[3]>>
<1>3. x \in Archives \X SkillNames
    BY <1>1
<1> HIDE DEF x
<1>4. Unpacking[x].files \in SUBSET UNION {Unpacking[y].files : y \in Archives \X SkillNames}
    BY <1>3
<1>5. [there |-> TRUE, of |-> j.want, files |-> Unpacking[x].files, mark |-> j.want] \in SkillDir
    BY <1>1, <1>4 DEF SkillDir
<1> QED BY <1>2, <1>5 DEF x, Unpacked, Whole

LEMMA InstallSkillStep ==
    ASSUME Inv, NEW p \in Creates, InstallSkill(p)
    PROVE  Inv'
<1> DEFINE path  == Job(p).path
           error == Unpacking[<<create[p].body, path[3]>>].error
<1>1. /\ At(p, "rename") /\ InFlight(p) /\ ~Marking(p) /\ p \notin emptying
      /\ Job(p).kind = "skill" /\ UNCHANGED <<tools, marks>>
    BY DEF InstallSkill, At, InFlight, Marking, Inv, TypeOK
<1>2. /\ create[p] \in Request /\ Job(p) \in AllJobs /\ Job(p) = create[p].job
      /\ create[p].body = Job(p).want
    BY <1>1, RequestFacts DEF Sound, At
<1>3. /\ path \in SkillPaths /\ path[3] \in SkillNames
      /\ Job(p).want \in Archives /\ Job(p).want \in WantedAt(path)
    BY <1>1, <1>2, JobFacts, PathsApart
<1>4. CASE (Fail(p, "layout") \/ Fail(p, "disk")) /\ UNCHANGED skills
    BY <1>1, <1>4, FailStep DEF Fail, Causes
<1>5. CASE error # "none" /\ FailOver(p, error, create[p].body) /\ UNCHANGED skills
  <2>1. error \in Causes
      BY <1>2, <1>3, UnpackingFacts DEF Causes
  <2>2. create[p].body \in Contents \cup {Nothing}
      BY <1>2 DEF Request
  <2> QED BY <1>1, <1>5, <2>1, <2>2, FailStep
<1>6. CASE /\ error = "none"
           /\ skills' = [skills EXCEPT ![path] = Unpacked(Job(p), create[p].body)]
           /\ Advance(p)
           /\ emptying' = {q \in emptying : Job(q).path # path}
           /\ doubt' = doubt \ {path}
  <2>1. PICK c \in Following(create[p]) : create' = [create EXCEPT ![p] = c]
      BY <1>6 DEF Advance
  <2>2. Sound(c) /\ c.pc \in {"idle", "cache"} /\ (c.pc # "idle" => c.alone = create[p].alone)
      BY <1>2, FollowingSound
  <2>3. /\ create' \in [Creates -> Request]
        /\ create'[p] = c
        /\ \A q \in Creates \ {p} : create'[q] = create[q]
        /\ RequestsSound'
        /\ AloneIsAlone'
      BY <1>1, <2>1, <2>2, OneMoves
  <2> DEFINE new == Whole(Job(p).want, path)
  <2>4. /\ Unpacked(Job(p), create[p].body) = new /\ new \in SkillDir
        /\ Fits(Job(p).want) /\ Inside(Job(p).want)
      BY <1>1, <1>2, <1>6, UnpackedIsWhole
  <2>5. /\ new.of = Job(p).want /\ new.mark = Job(p).want
        /\ new.files = Expected[<<new.of, path[3]>>]
      BY DEF Whole
  <2>6. new = Whole(new.mark, path)
      BY <2>5
  <2> HIDE DEF new
  <2>7. /\ skills' \in [SkillPaths -> SkillDir]
        /\ skills'[path] = new
        /\ \A s \in SkillPaths \ {path} : skills'[s] = skills[s]
      BY <1>3, <1>6, <2>4 DEF Inv, TypeOK
  <2>8. TypeOK'
      BY <1>1, <1>6, <2>3, <2>7 DEF Inv, TypeOK, At
  <2>9. MarkedIsOwn'
    <3> SUFFICES ASSUME NEW q \in Creates, Marking(q)',
                        (Job(q).path)' \notin doubt' \/ create'[q].alone
                 PROVE  tools'[(Job(q).path)'] = (Job(q).want)'
        BY DEF MarkedIsOwn
    <3>1. q # p
        BY <2>2, <2>3 DEF Marking, At
    <3>2. Marking(q) /\ Job(q)' = Job(q) /\ create'[q].alone = create[q].alone
        BY <2>3, <3>1 DEF Marking, At, Job
    <3>3. Job(q).path # path
        BY <1>3, <3>2, CutFacts, PathsApart
    <3> QED BY <1>1, <1>6, <3>2, <3>3 DEF Inv, MarkedIsOwn
  <2>10. Cut(p) = {}
      BY <1>1, CutFacts
  <2>11. \A q \in Creates : Job(q).path # path => Cut(q) \subseteq Cut(q)'
      BY <1>6, <2>3, <2>10 DEF Cut, At, Job
  <2>12. \A t : Settled(t)' /\ t # path => Settled(t)
    <3> SUFFICES ASSUME NEW t, Settled(t)', t # path, NEW q \in Creates, t \in Cut(q)
                 PROVE  FALSE
        BY <1>6 DEF Settled
    <3>1. Job(q).path # path
        BY CutFacts
    <3> QED BY <2>11, <3>1 DEF Settled
  <2>13. ToolMarkersTrue'
      BY <1>1, <1>3, <2>12, PathsApart DEF Inv, ToolMarkersTrue
  <2>14. SkillMarkersTrue'
    <3> SUFFICES ASSUME NEW s \in SkillPaths, Settled(s)', skills'[s].mark # Nothing
                 PROVE  skills'[s] = Whole(skills'[s].mark, s)
        BY DEF SkillMarkersTrue, Whole
    <3>1. CASE s = path
        BY <2>6, <2>7, <3>1
    <3>2. CASE s # path
        BY <2>7, <2>12, <3>2 DEF Inv, SkillMarkersTrue
    <3> QED BY <3>1, <3>2
  <2>15. VerifiedOnly'
    <3> SUFFICES ASSUME NEW s \in SkillPaths, skills'[s].there
                 PROVE  /\ skills'[s].of \in WantedAt(s)
                        /\ Fits(skills'[s].of) /\ Inside(skills'[s].of)
                        /\ skills'[s].files \subseteq Expected[<<skills'[s].of, s[3]>>]
        BY <1>1 DEF Inv, VerifiedOnly
    <3>1. CASE s = path
        BY <1>3, <2>4, <2>5, <2>7, <3>1
    <3>2. CASE s # path
        BY <2>7, <3>2 DEF Inv, VerifiedOnly
    <3> QED BY <3>1, <3>2
  <2> QED BY <2>3, <2>8, <2>9, <2>13, <2>14, <2>15 DEF Inv
<1> QED BY <1>4, <1>5, <1>6 DEF InstallSkill

-----------------------------------------------------------------------------
(* After a crash no request is left, and what was cut short is in doubt.   *)
LEMMA CrashStep ==
    ASSUME Inv, Crash PROVE Inv'
<1>1. /\ create' = [p \in Creates |-> IF InFlight(p) THEN Idle("lost", Nothing) ELSE create[p]]
      /\ doubt' = doubt \cup UNION {Cut(p) : p \in Creates}
      /\ emptying' = {}
      /\ UNCHANGED <<tools, marks, skills>>
    BY DEF Crash
<1>2. \A p \in Creates : Sound(create'[p]) /\ create'[p].pc = "idle"
    BY <1>1, IdleSound DEF Inv, RequestsSound, InFlight, Causes
<1>3. create' \in [Creates -> Request]
    BY <1>1, <1>2 DEF Sound
<1>4. doubt' \subseteq ToolPaths \cup SkillPaths
    BY <1>1, CutFacts DEF Inv, TypeOK
<1>5. TypeOK'
    BY <1>1, <1>3, <1>4 DEF Inv, TypeOK
<1>6. RequestsSound' /\ AloneIsAlone' /\ MarkedIsOwn'
    BY <1>2 DEF RequestsSound, AloneIsAlone, MarkedIsOwn, InFlight, Marking, At
<1>7. \A t : Settled(t)' => Settled(t)
    BY <1>1 DEF Settled
<1>8. VerifiedOnly' /\ ToolMarkersTrue' /\ SkillMarkersTrue'
    BY <1>1, <1>7 DEF Inv, VerifiedOnly, ToolMarkersTrue, SkillMarkersTrue, Whole
<1> QED BY <1>5, <1>6, <1>8 DEF Inv

LEMMA NextInv ==
    ASSUME Inv, [Next]_vars PROVE Inv'
<1>1. CASE Crash
    BY <1>1, CrashStep
<1>2. ASSUME NEW p \in Creates, Start(p) PROVE Inv'
    BY <1>2, StartStep
<1>3. ASSUME NEW p \in Creates, Fetch(p) PROVE Inv'
    BY <1>3, FetchStep
<1>4. ASSUME NEW p \in Creates, Work(p) PROVE Inv'
    BY <1>4, CheckCacheStep, FetchTimeoutStep, InstallToolStep, OpenMarkerStep, WriteMarkerStep,
       ClearSkillStep, RemoveSkillStep, InstallSkillStep DEF Work
<1>5. CASE UNCHANGED vars
  <2>1. \A q \in Creates : Cut(q)' = Cut(q)
      BY <1>5 DEF vars, Cut, At, Job
  <2>2. \A t : Settled(t)' = Settled(t)
      BY <1>5, <2>1 DEF vars, Settled
  <2>3. TypeOK' /\ RequestsSound' /\ AloneIsAlone' /\ MarkedIsOwn'
      BY <1>5 DEF vars, Inv, TypeOK, RequestsSound, AloneIsAlone, MarkedIsOwn,
                  InFlight, Marking, At, Job
  <2>4. VerifiedOnly' /\ ToolMarkersTrue' /\ SkillMarkersTrue'
      BY <1>5, <2>2 DEF vars, Inv, VerifiedOnly, ToolMarkersTrue, SkillMarkersTrue, Whole
  <2> QED BY <2>3, <2>4 DEF Inv
<1> QED BY <1>1, <1>2, <1>3, <1>4, <1>5 DEF Next

LEMMA SpecInv == Spec => []Inv
<1>1. Inv /\ [Next]_vars => Inv'
    BY NextInv
<1> QED BY InitInv, <1>1, PTL DEF Spec

LEMMA MarkersSettled == Inv => MarkerTrue
PROOF BY DEF Inv, MarkerTrue, ToolMarkersTrue, SkillMarkersTrue, Settled

-----------------------------------------------------------------------------
(* The results.                                                            *)

(* However many Creates overlap, whatever is declared, served, lost or     *)
(* cut short, the state is well typed: the two installers keep to their    *)
(* own directories, and only a removal under way is recorded as one.       *)
THEOREM ClosureTypeCorrect == Spec => []TypeOK
<1>1. Inv => TypeOK
    BY DEF Inv
<1> QED BY <1>1, SpecInv, PTL

(* What InstallTool and InstallSkill leave in place was downloaded whole   *)
(* and verified against a hash declared for that path: no overlap of two   *)
(* installs, no failure and no crash puts unverified content there.        *)
THEOREM VerifiedOnlyHolds == Spec => []VerifiedOnly
<1>1. Inv => VerifiedOnly
    BY DEF Inv
<1> QED BY <1>1, SpecInv, PTL

(* The cache's markers tell the truth, but for a path where an install was *)
(* cut short in its last steps or met another one.                         *)
THEOREM MarkerTrueHolds == Spec => []MarkerTrue
PROOF BY SpecInv, MarkersSettled, PTL
================================================================================
