---------------------- MODULE ArtifactClosureActionProofs ----------------------
(***************************************************************************)
(* What the installs promise of their answers, for any number of           *)
(* overlapping requests, graphs and contents: a Create that is answered    *)
(* 201 and met no other has its whole closure in place, and the side that  *)
(* a failure is blamed on has caused it.                                   *)
(***************************************************************************)
EXTENDS ArtifactClosureProofs

(* The invariant, of a request that no other has overlapped: the artifacts *)
(* it has passed over are in place, its own path apart, and once it has    *)
(* removed a skill nothing is at that path.                                *)
Alone(p) == InFlight(p) /\ create[p].alone

InPlace(j) ==
    \/ j.path \in doubt
    \/ j.kind = "tool" /\ tools[j.path] = j.want
    \/ j.kind = "skill" /\ skills[j.path] = Whole(j.want, j.path)

PassedInPlace(p) ==
    /\ create[p].graph \in Graphs
    /\ create[p].left \subseteq Jobs(create[p].graph)
    /\ Job(p) \in Jobs(create[p].graph)
    /\ \A j \in Jobs(create[p].graph) \ create[p].left :
          j.path # Job(p).path => InPlace(j)

Cleared(p) ==
    /\ At(p, "rmdir") => p \in emptying
    /\ Job(p).kind = "skill" /\ (At(p, "fetch") \/ At(p, "rename")) =>
          ~skills[Job(p).path].there

AloneInv == \A p \in Creates : Alone(p) => PassedInPlace(p) /\ Cleared(p)

-----------------------------------------------------------------------------
(* Facts of validated graphs.                                              *)

(* What is installed at one path is one content, whoever declares it.      *)
LEMMA SamePath ==
    ASSUME NEW g \in Graphs, NEW j \in Jobs(g), NEW k \in Jobs(g), j.path = k.path
    PROVE  j.kind = k.kind /\ j.want = k.want
<1>1. ASSUME NEW x \in ToolJobs(g)
      PROVE  \E a \in DOMAIN g : \E i \in DOMAIN g[a].tools : x = ToolOf(g, a, i)
    BY <1>1 DEF ToolJobs
<1>2. ASSUME NEW x \in SkillJobs(g)
      PROVE  \E a \in DOMAIN g : \E i \in DOMAIN g[a].skills : x = SkillOf(g, a, i)
    BY <1>2 DEF SkillJobs
<1>3. CASE j \in ToolJobs(g) /\ k \in ToolJobs(g)
  <2>1. PICK a \in DOMAIN g : \E i \in DOMAIN g[a].tools : j = ToolOf(g, a, i)
      BY <1>1, <1>3
  <2>2. PICK i \in DOMAIN g[a].tools : j = ToolOf(g, a, i)
      BY <2>1
  <2>3. PICK b \in DOMAIN g : \E l \in DOMAIN g[b].tools : k = ToolOf(g, b, l)
      BY <1>1, <1>3
  <2>4. PICK l \in DOMAIN g[b].tools : k = ToolOf(g, b, l)
      BY <2>3
  <2>5. g[a].tools[i].name = g[b].tools[l].name
      BY <2>2, <2>4 DEF ToolOf
  <2> QED BY <2>2, <2>4, <2>5, ValidatedAssumption DEF ToolOf
<1>4. CASE j \in SkillJobs(g) /\ k \in SkillJobs(g)
  <2>1. PICK a \in DOMAIN g : \E i \in DOMAIN g[a].skills : j = SkillOf(g, a, i)
      BY <1>2, <1>4
  <2>2. PICK i \in DOMAIN g[a].skills : j = SkillOf(g, a, i)
      BY <2>1
  <2>3. PICK b \in DOMAIN g : \E l \in DOMAIN g[b].skills : k = SkillOf(g, b, l)
      BY <1>2, <1>4
  <2>4. PICK l \in DOMAIN g[b].skills : k = SkillOf(g, b, l)
      BY <2>3
  <2>5. g[a].skills[i].name = g[b].skills[l].name
      BY <2>2, <2>4 DEF SkillOf
  <2> QED BY <2>2, <2>4, <2>5, ValidatedAssumption DEF SkillOf
<1>5. ~(j \in ToolJobs(g) /\ k \in SkillJobs(g)) /\ ~(j \in SkillJobs(g) /\ k \in ToolJobs(g))
  <2>1. \A x \in ToolJobs(g) : x.path \in ToolPaths
      BY DEF ToolPaths
  <2>2. \A x \in SkillJobs(g) : x.path \in SkillPaths
      BY DEF SkillPaths
  <2> QED BY <2>1, <2>2, PathsApart
<1> QED BY <1>3, <1>4, <1>5 DEF Jobs

(* Every tool any agent declares is installed under its first declaration. *)
LEMMA FirstDeclared ==
    ASSUME NEW g \in Graphs, NEW a \in DOMAIN g, NEW i \in DOMAIN g[a].tools
    PROVE  \E j \in ToolJobs(g) : /\ j.path[2] = g[a].tools[i].name
                                 /\ j.want = g[a].tools[i].hash
<1> DEFINE name == g[a].tools[i].name
           owners == {b \in DOMAIN g : \E k \in DOMAIN g[b].tools : g[b].tools[k].name = name}
           all == UNION {{ToolOf(g, b, k) : k \in DOMAIN g[b].tools} : b \in DOMAIN g}
<1>1. PICK b \in owners : \A c \in owners : ~(c < b)
  <2>1. owners \subseteq Nat /\ a \in owners
      BY ValidatedAssumption
  <2> HIDE DEF owners
  <2> QED BY <2>1, LeastNat
<1> DEFINE places == {k \in DOMAIN g[b].tools : g[b].tools[k].name = name}
<1>2. PICK k \in places : \A l \in places : ~(l < k)
  <2>1. places \subseteq Nat /\ places # {}
      BY ValidatedAssumption
  <2> HIDE DEF places
  <2> QED BY <2>1, LeastNat
<1> DEFINE j == ToolOf(g, b, k)
<1>3. j \in all
    OBVIOUS
<1>4. /\ j.path[2] = name /\ j.want = g[b].tools[k].hash
      /\ j.order[1] = 0 /\ j.order[2] = b /\ j.order[3] = k
    BY DEF ToolOf
<1>5. j.want = g[a].tools[i].hash
    BY <1>4, ValidatedAssumption
<1>6. ASSUME NEW x \in all, x.path[2] = name, Before(x.order, j.order) PROVE FALSE
  <2>1. PICK c \in DOMAIN g : \E l \in DOMAIN g[c].tools : x = ToolOf(g, c, l)
      BY <1>6
  <2>2. PICK l \in DOMAIN g[c].tools : x = ToolOf(g, c, l)
      BY <2>1
  <2>3. /\ g[c].tools[l].name = name
        /\ x.order[1] = 0 /\ x.order[2] = c /\ x.order[3] = l
      BY <1>6, <2>2 DEF ToolOf
  <2>4. c \in owners
      BY <2>3
  <2>5. c < b \/ (c = b /\ l < k)
      BY <1>4, <1>6, <2>3 DEF Before
  <2> QED BY <1>1, <1>2, <2>3, <2>4, <2>5
<1>7. j \in ToolJobs(g)
  <2> HIDE DEF j
  <2> QED BY <1>3, <1>4, <1>6 DEF ToolJobs
<1> QED BY <1>4, <1>5, <1>7

-----------------------------------------------------------------------------
(* Who moves.                                                              *)

(* What a step makes of the request that takes it: it goes on with the     *)
(* same artifact, it fails, or its artifact is in place and the next one's *)
(* turn has come.                                                          *)
Continues(p) ==
    /\ InFlight(p)'
    /\ create'[p].graph = create[p].graph
    /\ create'[p].left = create[p].left
    /\ create'[p].job = create[p].job
    /\ create'[p].alone = create[p].alone

Fails(p) ==
    \E body : \E cause \in Causes \ {"none"} : create'[p] = Idle(cause, body)

(* What is in place elsewhere stays.                                       *)
KeepsOthers(p) ==
    \A j \in AllJobs : j.path # Job(p).path /\ InPlace(j) => InPlace(j)'

OthersStay(p) == \A q \in Creates \ {p} : create'[q] = create[q]

LEMMA FailoverFacts ==
    ASSUME Inv, NEW p \in Creates, NEW cause \in Causes \ {"none"}, NEW body,
           FailOver(p, cause, body), UNCHANGED <<tools, skills>>
    PROVE  OthersStay(p) /\ Fails(p) /\ KeepsOthers(p)
<1>1. create \in [Creates -> Request]
    BY DEF Inv, TypeOK
<1>2. create'[p] = Idle(cause, body) /\ OthersStay(p)
    BY <1>1 DEF FailOver, OthersStay
<1>3. doubt \subseteq doubt'
    BY DEF FailOver
<1>4. KeepsOthers(p)
    BY <1>3 DEF KeepsOthers, InPlace, Whole
<1> QED BY <1>2, <1>4 DEF Fails

(* A step that changes only its request's own record, and that not in what *)
(* it installs.                                                            *)
LEMMA ContinueFacts ==
    ASSUME Inv, NEW p \in Creates, NEW c, c.pc # "idle",
           c.graph = create[p].graph, c.left = create[p].left, c.job = create[p].job,
           c.alone = create[p].alone,
           create' = [create EXCEPT ![p] = c]
    PROVE  OthersStay(p) /\ Continues(p) /\ create'[p] = c
<1>1. create \in [Creates -> Request]
    BY DEF Inv, TypeOK
<1> QED BY <1>1 DEF OthersStay, Continues, InFlight

LEMMA GotoFacts ==
    ASSUME Inv, NEW p \in Creates, NEW pc \in PCs \ {"idle"}, Goto(p, pc)
    PROVE  OthersStay(p) /\ Continues(p) /\ create'[p].pc = pc
<1> DEFINE c == [create[p] EXCEPT !.pc = pc]
<1>1. create[p] \in Request
    BY DEF Inv, TypeOK
<1>2. /\ c.pc = pc /\ c.graph = create[p].graph /\ c.left = create[p].left
      /\ c.job = create[p].job /\ c.alone = create[p].alone
    BY <1>1 DEF Request
<1>3. create' = [create EXCEPT ![p] = c]
    BY DEF Goto
<1> HIDE DEF c
<1> QED BY <1>2, <1>3, ContinueFacts

LEMMA AdvanceFacts ==
    ASSUME Inv, NEW p \in Creates, Advance(p)
    PROVE  OthersStay(p) /\ create'[p] \in Following(create[p])
<1>1. create \in [Creates -> Request]
    BY DEF Inv, TypeOK
<1>2. PICK c \in Following(create[p]) : create' = [create EXCEPT ![p] = c]
    BY DEF Advance
<1> QED BY <1>1, <1>2 DEF OthersStay

LEMMA AloneMeansOthersIdle ==
    ASSUME Inv, NEW p \in Creates, Alone(p), NEW q \in Creates, q # p
    PROVE  At(q, "idle") /\ Cut(q) = {}
<1>1. ~InFlight(q)
    BY DEF Inv, AloneIsAlone, Alone
<1>2. ~Marking(q) /\ q \notin emptying
    BY <1>1 DEF InFlight, Marking, At, Inv, TypeOK
<1> QED BY <1>1, <1>2, CutFacts DEF InFlight, At

-----------------------------------------------------------------------------
(* Each step of a request that is alone.                                   *)

(* The artifact of a request that is alone is in place, under whatever     *)
(* declaration.                                                            *)
Installs(p) ==
    \A j \in AllJobs :
       /\ Alone(p)
       /\ j.kind = Job(p).kind /\ j.path = Job(p).path /\ j.want = Job(p).want
       => InPlace(j)'

Outcome(p) ==
    /\ OthersStay(p)
    /\ KeepsOthers(p)
    /\ \/ Continues(p)
       \/ Fails(p)
       \/ create'[p] \in Following(create[p]) /\ Installs(p)

(* A cached artifact is in place, since its marker is true.                *)
LEMMA CachedInPlace ==
    ASSUME Inv, NEW p \in Creates, Alone(p), At(p, "cache"), Cached(Job(p))
    PROVE  InPlace(Job(p))
<1> DEFINE j == Job(p)
<1>1. j \in AllJobs
    BY RequestFacts DEF Alone
<1>2. j.want # Nothing
    BY <1>1, JobFacts, ClosureAssumption
<1>3. Cut(p) = {}
    BY CutFacts DEF Marking, At
<1>4. j.path \notin doubt => Settled(j.path)
    BY <1>3, AloneMeansOthersIdle DEF Settled
<1> HIDE DEF j
<1>5. CASE j.kind = "tool" /\ j.path \notin doubt
  <2>1. j.path \in ToolPaths /\ marks[j.path] = j.want
      BY <1>1, <1>5, JobFacts DEF Cached, j
  <2>2. marks[j.path] \in {Nothing, tools[j.path]}
      BY <1>4, <1>5, <2>1 DEF Inv, ToolMarkersTrue
  <2> QED BY <1>2, <1>5, <2>1, <2>2 DEF InPlace, j
<1>6. CASE j.kind = "skill" /\ j.path \notin doubt
  <2>1. j.path \in SkillPaths /\ skills[j.path].mark = j.want
      BY <1>1, <1>6, JobFacts DEF Cached, j
  <2>2. skills[j.path] = Whole(j.want, j.path)
      BY <1>2, <1>4, <1>6, <2>1 DEF Inv, SkillMarkersTrue
  <2> QED BY <1>6, <2>2 DEF InPlace, j
<1>7. j.kind \in {"tool", "skill"}
    BY <1>1, JobFacts
<1> QED BY <1>5, <1>6, <1>7 DEF InPlace, j

LEMMA KeepsUnchanged ==
    ASSUME NEW p, UNCHANGED <<tools, skills, doubt>>
    PROVE  KeepsOthers(p) /\ \A j : InPlace(j) => InPlace(j)'
PROOF BY DEF KeepsOthers, InPlace, Whole

LEMMA CheckCacheOutcome ==
    ASSUME Inv, NEW p \in Creates, CheckCache(p)
    PROVE  InFlight(p) /\ Outcome(p)
<1>1. At(p, "cache") /\ InFlight(p) /\ UNCHANGED <<tools, marks, skills>>
    BY DEF CheckCache, At, InFlight
<1>2. CASE Cached(Job(p)) /\ Advance(p) /\ UNCHANGED <<emptying, doubt>>
  <2>1. Alone(p) => InPlace(Job(p))
      BY <1>1, <1>2, CachedInPlace
  <2>2. Installs(p)
      BY <1>1, <1>2, <2>1 DEF Installs, InPlace, Whole
  <2> QED BY <1>1, <1>2, <2>2, AdvanceFacts, KeepsUnchanged DEF Outcome
<1>3. CASE /\ Goto(p, IF Job(p).kind = "tool" THEN "fetch" ELSE "clear")
           /\ UNCHANGED <<emptying, doubt>>
  <2> DEFINE pc == IF Job(p).kind = "tool" THEN "fetch" ELSE "clear"
  <2>1. pc \in PCs \ {"idle"}
      BY DEF PCs
  <2> HIDE DEF pc
  <2>2. Goto(p, pc)
      BY <1>3 DEF pc
  <2> QED BY <1>1, <1>3, <2>1, <2>2, GotoFacts, KeepsUnchanged DEF Outcome
<1>4. CASE Fail(p, "disk")
    BY <1>1, <1>4, FailoverFacts DEF Fail, Causes, Outcome
<1> QED BY <1>1, <1>2, <1>3, <1>4 DEF CheckCache

LEMMA FetchOutcome ==
    ASSUME Inv, NEW p \in Creates, Fetch(p) \/ FetchTimeout(p)
    PROVE  InFlight(p) /\ Outcome(p)
<1>1. At(p, "fetch") /\ InFlight(p) /\ UNCHANGED <<tools, marks, skills>>
    BY DEF Fetch, FetchTimeout, At, InFlight
<1>2. ASSUME NEW body,
             create' = [create EXCEPT ![p] = [@ EXCEPT !.pc = "rename", !.body = body]],
             UNCHANGED <<emptying, doubt>>
      PROVE  Outcome(p)
  <2> DEFINE c == [create[p] EXCEPT !.pc = "rename", !.body = body]
  <2>1. create[p] \in Request
      BY DEF Inv, TypeOK
  <2>2. /\ c.pc # "idle" /\ c.graph = create[p].graph /\ c.left = create[p].left
        /\ c.job = create[p].job /\ c.alone = create[p].alone
      BY <2>1 DEF Request
  <2>3. create' = [create EXCEPT ![p] = c]
      BY <1>2
  <2> HIDE DEF c
  <2> QED BY <1>1, <1>2, <2>2, <2>3, ContinueFacts, KeepsUnchanged DEF Outcome
<1>3. ASSUME NEW cause \in Causes \ {"none"}, NEW body, FailOver(p, cause, body)
      PROVE  Outcome(p)
    BY <1>1, <1>3, FailoverFacts DEF Outcome
<1>4. ASSUME NEW cause \in {"upstream", "disk"}, Fail(p, cause)
      PROVE  Outcome(p)
    BY <1>3, <1>4 DEF Fail, Causes
<1>5. CASE Fetch(p)
    BY <1>1, <1>2, <1>3, <1>4, <1>5, FetchCauses DEF Fetch
<1>6. CASE FetchTimeout(p)
    BY <1>1, <1>4, <1>6 DEF FetchTimeout
<1> QED BY <1>1, <1>5, <1>6

LEMMA InstallToolOutcome ==
    ASSUME Inv, NEW p \in Creates, InstallTool(p)
    PROVE  InFlight(p) /\ Outcome(p)
<1> DEFINE path == Job(p).path
<1>1. At(p, "rename") /\ InFlight(p) /\ Job(p).kind = "tool" /\ UNCHANGED <<marks, skills>>
    BY DEF InstallTool, At, InFlight
<1>2. CASE Fail(p, "disk") /\ UNCHANGED tools
    BY <1>1, <1>2, FailoverFacts DEF Fail, Causes, Outcome
<1>3. CASE /\ tools' = [tools EXCEPT ![path] = create[p].body]
           /\ create' = [create EXCEPT ![p] = [@ EXCEPT !.pc = "markOpen",
                 !.replaced = tools[path] \notin {Nothing, create[p].body}]]
           /\ doubt' = doubt \cup (IF Others(p, path) = {} THEN {} ELSE {path})
  <2> DEFINE c == [create[p] EXCEPT !.pc = "markOpen",
                      !.replaced = tools[path] \notin {Nothing, create[p].body}]
  <2>1. create[p] \in Request /\ tools \in [ToolPaths -> ToolFiles \cup {Nothing}]
      BY DEF Inv, TypeOK
  <2>2. /\ c.pc # "idle" /\ c.graph = create[p].graph /\ c.left = create[p].left
        /\ c.job = create[p].job /\ c.alone = create[p].alone
      BY <2>1 DEF Request
  <2>3. create' = [create EXCEPT ![p] = c]
      BY <1>3
  <2> HIDE DEF c
  <2>4. doubt \subseteq doubt' /\ \A t \in ToolPaths : t # path => tools'[t] = tools[t]
      BY <1>3, <2>1
  <2>5. KeepsOthers(p)
    <3> SUFFICES ASSUME NEW j \in AllJobs, j.path # path, InPlace(j)
                 PROVE  InPlace(j)'
        BY DEF KeepsOthers
    <3>1. j.kind = "tool" => j.path \in ToolPaths
        BY JobFacts
    <3> QED BY <1>1, <2>4, <3>1 DEF InPlace, Whole
  <2> QED BY <1>1, <2>2, <2>3, <2>5, ContinueFacts DEF Outcome
<1> QED BY <1>1, <1>2, <1>3 DEF InstallTool

LEMMA OpenMarkerOutcome ==
    ASSUME Inv, NEW p \in Creates, OpenMarker(p)
    PROVE  InFlight(p) /\ Outcome(p)
<1>1. At(p, "markOpen") /\ InFlight(p) /\ UNCHANGED <<tools, skills>>
    BY DEF OpenMarker, At, InFlight
<1>2. CASE Fail(p, "disk")
    BY <1>1, <1>2, FailoverFacts DEF Fail, Causes, Outcome
<1>3. CASE Goto(p, "markWrite") /\ UNCHANGED doubt
    BY <1>1, <1>3, GotoFacts, KeepsUnchanged DEF PCs, Outcome
<1> QED BY <1>1, <1>2, <1>3 DEF OpenMarker

(* A request that is alone marks the tool it has renamed.                  *)
LEMMA WriteMarkerOutcome ==
    ASSUME Inv, NEW p \in Creates, WriteMarker(p)
    PROVE  InFlight(p) /\ Outcome(p)
<1> DEFINE path == Job(p).path
<1>1. At(p, "markWrite") /\ InFlight(p) /\ Marking(p) /\ UNCHANGED <<tools, skills>>
    BY DEF WriteMarker, At, InFlight, Marking
<1>2. Job(p).kind = "tool"
    BY <1>1, RequestFacts DEF Sound, At
<1>3. CASE Fail(p, "disk")
    BY <1>1, <1>3, FailoverFacts DEF Fail, Causes, Outcome
<1>4. CASE Advance(p) /\ doubt' = IF create[p].alone THEN doubt \ {path} ELSE doubt
  <2>1. create[p].alone => tools[path] = Job(p).want
      BY <1>1 DEF Inv, MarkedIsOwn
  <2>2. Installs(p)
      BY <1>1, <1>2, <2>1 DEF Installs, InPlace, Alone
  <2>3. KeepsOthers(p)
      BY <1>1, <1>4 DEF KeepsOthers, InPlace, Whole
  <2> QED BY <1>1, <1>4, <2>2, <2>3, AdvanceFacts DEF Outcome
<1> QED BY <1>1, <1>3, <1>4 DEF WriteMarker

LEMMA OtherSkillsStay ==
    ASSUME Inv, NEW p \in Creates, NEW d, skills' = [skills EXCEPT ![Job(p).path] = d],
           UNCHANGED tools, doubt \subseteq doubt' \cup {Job(p).path}
    PROVE  KeepsOthers(p)
<1> SUFFICES ASSUME NEW j \in AllJobs, j.path # Job(p).path, InPlace(j)
             PROVE  InPlace(j)'
    BY DEF KeepsOthers
<1>1. j.kind = "skill" => j.path \in SkillPaths
    BY JobFacts
<1>2. skills \in [SkillPaths -> SkillDir]
    BY DEF Inv, TypeOK
<1> QED BY <1>1, <1>2 DEF InPlace, Whole

LEMMA ClearSkillOutcome ==
    ASSUME Inv, NEW p \in Creates, ClearSkill(p)
    PROVE  InFlight(p) /\ Outcome(p)
<1> DEFINE path == Job(p).path
<1>1. At(p, "clear") /\ InFlight(p) /\ UNCHANGED <<tools, marks, doubt>>
    BY DEF ClearSkill, At, InFlight
<1>2. CASE Goto(p, "fetch") /\ UNCHANGED skills
    BY <1>1, <1>2, GotoFacts, KeepsUnchanged DEF PCs, Outcome
<1>3. CASE /\ \E d \in Remains(skills[path]) : skills' = [skills EXCEPT ![path] = d]
           /\ Goto(p, "rmdir")
  <2>1. KeepsOthers(p)
      BY <1>1, <1>3, OtherSkillsStay
  <2> QED BY <1>1, <1>3, <2>1, GotoFacts DEF PCs, Outcome
<1> QED BY <1>1, <1>2, <1>3 DEF ClearSkill

LEMMA RemoveSkillOutcome ==
    ASSUME Inv, NEW p \in Creates, RemoveSkill(p)
    PROVE  InFlight(p) /\ Outcome(p)
<1> DEFINE path == Job(p).path
<1>1. At(p, "rmdir") /\ InFlight(p) /\ UNCHANGED <<tools, marks>>
    BY DEF RemoveSkill, At, InFlight
<1>2. CASE (Fail(p, "layout") \/ Fail(p, "disk")) /\ UNCHANGED skills
    BY <1>1, <1>2, FailoverFacts DEF Fail, Causes, Outcome
<1>3. CASE /\ skills' = [skills EXCEPT ![path] = NoSkill]
           /\ Goto(p, "fetch")
           /\ UNCHANGED doubt
  <2>1. KeepsOthers(p)
      BY <1>1, <1>3, OtherSkillsStay
  <2> QED BY <1>1, <1>3, <2>1, GotoFacts DEF PCs, Outcome
<1> QED BY <1>1, <1>2, <1>3 DEF RemoveSkill

LEMMA InstallSkillOutcome ==
    ASSUME Inv, NEW p \in Creates, InstallSkill(p)
    PROVE  InFlight(p) /\ Outcome(p)
<1> DEFINE path  == Job(p).path
           error == Unpacking[<<create[p].body, path[3]>>].error
<1>1. /\ At(p, "rename") /\ InFlight(p) /\ Job(p).kind = "skill"
      /\ UNCHANGED <<tools, marks>>
    BY DEF InstallSkill, At, InFlight
<1>2. /\ Job(p) \in AllJobs /\ create[p].body = Job(p).want
    BY <1>1, RequestFacts DEF Sound, At
<1>3. path \in SkillPaths /\ Job(p).want \in Archives /\ path[3] \in SkillNames
    BY <1>1, <1>2, JobFacts, PathsApart
<1>4. CASE (Fail(p, "layout") \/ Fail(p, "disk")) /\ UNCHANGED skills
    BY <1>1, <1>4, FailoverFacts DEF Fail, Causes, Outcome
<1>5. CASE error # "none" /\ FailOver(p, error, create[p].body) /\ UNCHANGED skills
  <2>1. error \in Causes \ {"none"}
      BY <1>2, <1>3, <1>5, UnpackingFacts DEF Causes
  <2> HIDE DEF error
  <2> QED BY <1>1, <1>5, <2>1, FailoverFacts DEF Outcome
<1>6. CASE /\ error = "none"
           /\ skills' = [skills EXCEPT ![path] = Unpacked(Job(p), create[p].body)]
           /\ Advance(p)
           /\ doubt' = doubt \ {path}
  <2>1. skills'[path] = Whole(Job(p).want, path)
    <3>1. Unpacked(Job(p), create[p].body) = Whole(Job(p).want, path)
        BY <1>1, <1>2, <1>6, UnpackedIsWhole
    <3> QED BY <1>3, <1>6, <3>1 DEF Inv, TypeOK
  <2>2. Installs(p)
      BY <1>1, <2>1 DEF Installs, InPlace, Whole
  <2>3. KeepsOthers(p)
      BY <1>1, <1>6, OtherSkillsStay
  <2> QED BY <1>1, <1>6, <2>2, <2>3, AdvanceFacts DEF Outcome
<1> QED BY <1>1, <1>4, <1>5, <1>6 DEF InstallSkill

LEMMA RequestOutcome ==
    ASSUME Inv, NEW p \in Creates, Work(p) \/ Fetch(p)
    PROVE  InFlight(p) /\ Outcome(p)
PROOF BY CheckCacheOutcome, FetchOutcome, InstallToolOutcome, OpenMarkerOutcome,
         WriteMarkerOutcome, ClearSkillOutcome, RemoveSkillOutcome, InstallSkillOutcome DEF Work

-----------------------------------------------------------------------------
(* What is passed over stays in place.                                     *)

LEMMA FollowingFacts ==
    ASSUME NEW c \in Request, NEW d \in Following(c), d.pc # "idle"
    PROVE  \E j \in c.left :
              d.graph = c.graph /\ d.left = c.left \ {j} /\ d.job = j /\ d.pc = "cache"
<1>1. c.left # {}
  <2>1. Idle("none", Nothing).pc = "idle"
      BY DEF Idle
  <2> QED BY <2>1 DEF Following
<1>2. PICK j \in c.left : d = [c EXCEPT !.pc = "cache", !.job = j, !.left = c.left \ {j},
                                        !.body = Nothing, !.replaced = FALSE]
    BY <1>1 DEF Following
<1>3. d.graph = c.graph /\ d.left = c.left \ {j} /\ d.job = j /\ d.pc = "cache"
    BY <1>2 DEF Request
<1> QED BY <1>3

(* A request that has just started has passed over nothing.                *)
LEMMA StartPasses ==
    ASSUME Inv, NEW p \in Creates, Start(p), InFlight(p)'
    PROVE  PassedInPlace(p)' /\ At(p, "cache")'
<1>1. PICK g \in Graphs : \E c \in Following([Idle("none", Nothing) EXCEPT
                !.graph = g, !.left = Jobs(g), !.alone = \A q \in Creates : ~InFlight(q)]) :
             create' = [q \in Creates |->
                          IF q = p THEN c ELSE [create[q] EXCEPT !.alone = FALSE]]
    BY DEF Start
<1> DEFINE b == [Idle("none", Nothing) EXCEPT
                !.graph = g, !.left = Jobs(g), !.alone = \A q \in Creates : ~InFlight(q)]
<1>2. PICK c \in Following(b) :
             create' = [q \in Creates |->
                          IF q = p THEN c ELSE [create[q] EXCEPT !.alone = FALSE]]
    BY <1>1
<1>3. b \in Request /\ b.graph = g /\ b.left = Jobs(g)
  <2>1. Jobs(g) \subseteq AllJobs
      BY AllJobsOf
  <2>2. (\A q \in Creates : ~InFlight(q)) \in BOOLEAN
      OBVIOUS
  <2> QED BY <2>1, <2>2 DEF Idle, Request, PCs, Causes
<1> HIDE DEF b
<1>4. create'[p] = c /\ c.pc # "idle"
    BY <1>2 DEF InFlight
<1>5. PICK j \in Jobs(g) :
          c.graph = g /\ c.left = Jobs(g) \ {j} /\ c.job = j /\ c.pc = "cache"
    BY <1>2, <1>3, <1>4, FollowingFacts
<1> QED BY <1>4, <1>5 DEF PassedInPlace, Job, At

LEMMA AdvancePasses ==
    ASSUME Inv, NEW p \in Creates, Alone(p), PassedInPlace(p), KeepsOthers(p), Installs(p),
           create'[p] \in Following(create[p])
    PROVE  /\ \A j \in Jobs(create[p].graph) \ create[p].left : InPlace(j)'
           /\ InFlight(p)' => PassedInPlace(p)' /\ At(p, "cache")'
<1> DEFINE g == create[p].graph
<1>1. create[p] \in Request
    BY DEF Inv, TypeOK
<1>2. g \in Graphs /\ create[p].left \subseteq Jobs(g) /\ Job(p) \in Jobs(g)
    BY DEF PassedInPlace
<1>3. ASSUME NEW j \in Jobs(g) \ create[p].left PROVE InPlace(j)'
  <2>1. j \in AllJobs
      BY <1>2, <1>3, AllJobsOf
  <2>2. CASE j.path # Job(p).path
      BY <1>3, <2>1, <2>2 DEF PassedInPlace, KeepsOthers
  <2>3. CASE j.path = Job(p).path
    <3>1. j.kind = Job(p).kind /\ j.want = Job(p).want
        BY <1>2, <2>3, SamePath
    <3> QED BY <2>1, <2>3, <3>1 DEF Installs
  <2> QED BY <2>2, <2>3
<1>4. ASSUME InFlight(p)' PROVE PassedInPlace(p)' /\ At(p, "cache")'
  <2>1. create'[p].pc # "idle"
      BY <1>4 DEF InFlight
  <2>2. PICK j \in create[p].left :
            /\ create'[p].graph = g /\ create'[p].left = create[p].left \ {j}
            /\ create'[p].job = j /\ create'[p].pc = "cache"
      BY <1>1, <2>1, FollowingFacts
  <2>3. \A k \in Jobs(g) \ create'[p].left : k.path # j.path => InPlace(k)'
      BY <1>3, <2>2
  <2> QED BY <1>2, <2>2, <2>3 DEF PassedInPlace, Job, At
<1> QED BY <1>3, <1>4

LEMMA ContinuePasses ==
    ASSUME Inv, NEW p \in Creates, PassedInPlace(p), KeepsOthers(p), Continues(p)
    PROVE  PassedInPlace(p)'
<1>1. create[p].graph \in Graphs => Jobs(create[p].graph) \subseteq AllJobs
    BY AllJobsOf
<1>2. Job(p)' = Job(p)
    BY DEF Continues, Job
<1> QED BY <1>1, <1>2 DEF PassedInPlace, KeepsOthers, Continues

(* The directory a request that is alone has found absent, or has removed, *)
(* is still absent when it renames the new one into place.                 *)
LEMMA QuietlyCleared ==
    ASSUME NEW p, NEW pc, pc \notin {"rmdir", "fetch", "rename"}, create'[p].pc = pc
    PROVE  Cleared(p)'
PROOF BY DEF Cleared, At

LEMMA FailsIdle ==
    ASSUME NEW p, Fails(p)
    PROVE  ~InFlight(p)'
PROOF BY DEF Fails, Idle, InFlight

LEMMA StaysCleared ==
    ASSUME Inv, NEW p \in Creates, Work(p) \/ Fetch(p), InFlight(p)',
           Cleared(p)
    PROVE  Cleared(p)'
<1>1. create \in [Creates -> Request] /\ create[p] \in Request
    BY DEF Inv, TypeOK
<1>2. ASSUME Advance(p) PROVE Cleared(p)'
  <2>1. create'[p].pc = "cache"
      BY <1>1, <1>2, AdvanceFacts, FollowingFacts DEF InFlight
  <2> QED BY <2>1, QuietlyCleared
<1>3. ASSUME NEW cause, NEW body, FailOver(p, cause, body) PROVE FALSE
  <2>1. create'[p] = Idle(cause, body)
      BY <1>1, <1>3 DEF FailOver
  <2> QED BY <2>1 DEF Idle, InFlight
<1>4. ASSUME NEW cause, Fail(p, cause) PROVE FALSE
    BY <1>3, <1>4 DEF Fail
<1>5. ASSUME NEW pc, Goto(p, pc)
      PROVE  create'[p].pc = pc /\ Job(p)' = Job(p)
    BY <1>1, <1>5 DEF Goto, Request, Job
<1>6. CASE CheckCache(p)
  <2>1. CASE Goto(p, IF Job(p).kind = "tool" THEN "fetch" ELSE "clear")
      BY <1>5, <2>1 DEF Cleared, At
  <2> QED BY <1>2, <1>4, <1>6, <2>1 DEF CheckCache
<1>7. CASE Fetch(p)
  <2>1. PICK body :
            create' = [create EXCEPT ![p] = [@ EXCEPT !.pc = "rename", !.body = body]]
      BY <1>3, <1>4, <1>7 DEF Fetch
  <2>2. create'[p].pc = "rename" /\ Job(p)' = Job(p)
      BY <1>1, <2>1 DEF Request, Job
  <2>3. UNCHANGED skills /\ At(p, "fetch")
      BY <1>7 DEF Fetch
  <2> QED BY <2>2, <2>3 DEF Cleared, At
<1>8. CASE FetchTimeout(p)
    BY <1>4, <1>8 DEF FetchTimeout
<1>9. CASE InstallTool(p)
  <2>1. PICK replaced :
            create' = [create EXCEPT ![p] = [@ EXCEPT !.pc = "markOpen", !.replaced = replaced]]
      BY <1>4, <1>9 DEF InstallTool
  <2>2. create'[p].pc = "markOpen"
      BY <1>1, <2>1 DEF Request
  <2> QED BY <2>2, QuietlyCleared
<1>10. CASE OpenMarker(p)
    BY <1>4, <1>5, <1>10, QuietlyCleared DEF OpenMarker
<1>11. CASE WriteMarker(p)
    BY <1>2, <1>4, <1>11 DEF WriteMarker
<1>12. CASE ClearSkill(p)
  <2>1. CASE ~skills[Job(p).path].there /\ Goto(p, "fetch") /\ UNCHANGED skills
      BY <1>5, <2>1 DEF Cleared, At
  <2>2. CASE emptying' = emptying \cup {p} /\ Goto(p, "rmdir")
      BY <1>5, <2>2 DEF Cleared, At
  <2> QED BY <1>12, <2>1, <2>2 DEF ClearSkill
<1>13. CASE RemoveSkill(p)
  <2>1. CASE skills' = [skills EXCEPT ![Job(p).path] = NoSkill] /\ Goto(p, "fetch")
    <3>1. Job(p).path \in SkillPaths
      <4>1. At(p, "rmdir") /\ InFlight(p)
          BY <1>13 DEF RemoveSkill, At, InFlight
      <4> QED BY <4>1, RequestFacts, JobFacts DEF Sound, At
    <3>2. ~skills'[Job(p).path].there
        BY <2>1, <3>1 DEF Inv, TypeOK, NoSkill
    <3> QED BY <1>5, <2>1, <3>2 DEF Cleared, At
  <2> QED BY <1>4, <1>13, <2>1 DEF RemoveSkill
<1>14. CASE InstallSkill(p)
    BY <1>2, <1>3, <1>4, <1>14 DEF InstallSkill
<1> QED BY <1>6, <1>7, <1>8, <1>9, <1>10, <1>11, <1>12, <1>13, <1>14 DEF Work

(* A request's own steps do not make it alone.                             *)
LEMMA AloneBefore ==
    ASSUME Inv, NEW p \in Creates, InFlight(p), Outcome(p), Alone(p)'
    PROVE  Alone(p)
<1>1. create[p] \in Request
    BY DEF Inv, TypeOK
<1>2. ~Fails(p)
    BY FailsIdle DEF Alone
<1>3. create'[p] \in Following(create[p]) => create'[p].alone = create[p].alone
    BY <1>1, FollowingSound DEF Alone, InFlight
<1> QED BY <1>2, <1>3 DEF Outcome, Continues, Alone

LEMMA InitAloneInv == Init => AloneInv
<1>1. Init => \A p \in Creates : ~InFlight(p)
    BY DEF Init, InFlight, Idle
<1> QED BY <1>1 DEF AloneInv, Alone

LEMMA NextAloneInv ==
    ASSUME Inv, AloneInv, [Next]_vars PROVE AloneInv'
<1> SUFFICES ASSUME NEW p \in Creates, Alone(p)'
             PROVE  PassedInPlace(p)' /\ Cleared(p)'
    BY DEF AloneInv
<1>1. CASE Crash
  <2>1. ~InFlight(p)'
      BY <1>1 DEF Crash, InFlight, Idle
  <2> QED BY <2>1 DEF Alone
<1>2. ASSUME NEW q \in Creates, Start(q) PROVE PassedInPlace(p)' /\ Cleared(p)'
  <2>1. CASE q = p
      BY <1>2, <2>1, StartPasses, QuietlyCleared DEF Alone, At
  <2>2. CASE q # p
    <3>1. create'[p] = [create[p] EXCEPT !.alone = FALSE] /\ create[p] \in Request
        BY <1>2, <2>2 DEF Start, Inv, TypeOK
    <3>2. create'[p].alone = FALSE
        BY <3>1 DEF Request
    <3> QED BY <3>2 DEF Alone
  <2> QED BY <2>1, <2>2
<1>3. ASSUME NEW q \in Creates, Work(q) \/ Fetch(q) PROVE PassedInPlace(p)' /\ Cleared(p)'
  <2>1. InFlight(q) /\ Outcome(q)
      BY <1>3, RequestOutcome
  <2>2. CASE q # p
    <3>1. Alone(p)
        BY <2>1, <2>2 DEF Outcome, OthersStay, Alone, InFlight
    <3> QED BY <2>1, <2>2, <3>1 DEF Inv, AloneIsAlone, Alone
  <2>3. CASE q = p
    <3>1. Alone(p) /\ PassedInPlace(p) /\ Cleared(p)
        BY <2>1, <2>3, AloneBefore DEF AloneInv
    <3>2. Cleared(p)'
        BY <1>3, <2>3, <3>1, StaysCleared DEF Alone
    <3>3. PassedInPlace(p)'
        BY <2>1, <2>3, <3>1, FailsIdle, ContinuePasses, AdvancePasses DEF Outcome, Alone
    <3> QED BY <3>2, <3>3
  <2> QED BY <2>2, <2>3
<1>4. CASE UNCHANGED vars
  <2>1. Alone(p) /\ PassedInPlace(p) /\ Cleared(p)
      BY <1>4 DEF vars, Alone, InFlight, AloneInv
  <2>2. \A j : InPlace(j)' = InPlace(j)
      BY <1>4 DEF vars, InPlace, Whole
  <2> QED BY <1>4, <2>1, <2>2 DEF vars, PassedInPlace, Cleared, Job, At
<1> QED BY <1>1, <1>2, <1>3, <1>4 DEF Next

LEMMA SpecAloneInv == Spec => [](Inv /\ AloneInv)
<1>1. Inv /\ [Next]_vars => Inv'
    BY NextInv
<1>2. Inv /\ AloneInv /\ [Next]_vars => AloneInv'
    BY NextAloneInv
<1> QED BY InitInv, InitAloneInv, <1>1, <1>2, PTL DEF Spec

-----------------------------------------------------------------------------
(* The results.                                                            *)

(* What is answered to a request follows from its own step.                *)
LEMMA AnswerIsOwn ==
    ASSUME Inv, AloneInv, [Next]_vars, NEW p \in Creates, InFlight(p),
           ~InFlight(p)', create'[p].cause # "lost"
    PROVE  (Work(p) \/ Fetch(p)) /\ Outcome(p)
<1>1. ~Crash
    BY DEF Crash, Idle
<1>2. ASSUME NEW q \in Creates, Start(q) PROVE FALSE
  <2>1. q # p
      BY <1>2 DEF Start, At, InFlight
  <2>2. create'[p] = [create[p] EXCEPT !.alone = FALSE] /\ create[p] \in Request
      BY <1>2, <2>1 DEF Start, Inv, TypeOK
  <2>3. create'[p].pc = create[p].pc
      BY <2>2 DEF Request
  <2> QED BY <2>3 DEF InFlight
<1>3. ASSUME NEW q \in Creates, Work(q) \/ Fetch(q) PROVE q = p /\ Outcome(q)
    BY <1>3, RequestOutcome DEF Outcome, OthersStay, InFlight
<1>4. ~UNCHANGED vars
    BY DEF vars, InFlight
<1> QED BY <1>1, <1>2, <1>3, <1>4 DEF Next

(* Whatever the graph and whatever was there before, a Create that met no  *)
(* other and is answered 201 has the whole closure of its graph in place,  *)
(* downloaded or found in the cache, but for paths in doubt.               *)
THEOREM ClosureInstalledHolds == Spec => ClosureInstalled
<1>1. Inv /\ AloneInv /\ [Next]_vars =>
        [\A p \in Creates : Answers(p, 201) /\ create[p].alone =>
           LET g == create[p].graph IN
           \A a \in DOMAIN g :
              /\ \A i \in DOMAIN g[a].tools : \E j \in ToolJobs(g) :
                    /\ j.path[2] = g[a].tools[i].name
                    /\ j.path \in doubt' \/ tools'[j.path] = g[a].tools[i].hash
              /\ \A i \in DOMAIN g[a].skills : LET j == SkillOf(g, a, i) IN
                    j.path \in doubt' \/ skills'[j.path] = Whole(j.want, j.path)]_vars
  <2> SUFFICES ASSUME Inv, AloneInv, [Next]_vars, NEW p \in Creates,
                      Answers(p, 201), create[p].alone
               PROVE  LET g == create[p].graph IN
           \A a \in DOMAIN g :
              /\ \A i \in DOMAIN g[a].tools : \E j \in ToolJobs(g) :
                    /\ j.path[2] = g[a].tools[i].name
                    /\ j.path \in doubt' \/ tools'[j.path] = g[a].tools[i].hash
              /\ \A i \in DOMAIN g[a].skills : LET j == SkillOf(g, a, i) IN
                    j.path \in doubt' \/ skills'[j.path] = Whole(j.want, j.path)
      OBVIOUS
  <2> DEFINE g == create[p].graph
  <2>1. InFlight(p) /\ ~InFlight(p)' /\ create'[p].cause # "lost"
      BY DEF Answers, Ends
  <2>2. create'[p].cause = "none"
      BY DEF Answers, Status
  <2>3. Alone(p) /\ PassedInPlace(p)
      BY <2>1 DEF Alone, AloneInv
  <2>4. Outcome(p)
      BY <2>1, AnswerIsOwn
  <2>5. ~Fails(p) /\ ~Continues(p)
    <3>1. ASSUME NEW cause \in Causes \ {"none"}, NEW body, create'[p] = Idle(cause, body)
          PROVE  FALSE
      <4>1. Idle(cause, body).cause = cause
          BY DEF Idle
      <4> QED BY <2>2, <3>1, <4>1
    <3> QED BY <2>1, <3>1 DEF Fails, Continues
  <2>6. create'[p] \in Following(create[p]) /\ Installs(p) /\ KeepsOthers(p)
      BY <2>4, <2>5 DEF Outcome
  <2>7. create[p].left = {}
    <3>1. create[p] \in Request
        BY DEF Inv, TypeOK
    <3> SUFFICES ASSUME create[p].left # {} PROVE FALSE
        OBVIOUS
    <3>2. PICK j \in create[p].left :
              create'[p] = [create[p] EXCEPT !.pc = "cache", !.job = j,
                                !.left = create[p].left \ {j},
                                !.body = Nothing, !.replaced = FALSE]
        BY <2>6 DEF Following
    <3>3. create'[p].pc = "cache"
        BY <3>1, <3>2 DEF Request
    <3> QED BY <2>1, <3>3 DEF InFlight
  <2>8. g \in Graphs /\ \A j \in Jobs(g) : InPlace(j)'
      BY <2>3, <2>6, <2>7, AdvancePasses DEF PassedInPlace
  <2>9. ASSUME NEW a \in DOMAIN g, NEW i \in DOMAIN g[a].tools
        PROVE  \E j \in ToolJobs(g) :
                  /\ j.path[2] = g[a].tools[i].name
                  /\ j.path \in doubt' \/ tools'[j.path] = g[a].tools[i].hash
    <3>1. PICK j \in ToolJobs(g) : j.path[2] = g[a].tools[i].name /\ j.want = g[a].tools[i].hash
        BY <2>8, FirstDeclared
    <3>2. j.kind = "tool"
      <4>1. PICK b \in DOMAIN g : \E k \in DOMAIN g[b].tools : j = ToolOf(g, b, k)
          BY DEF ToolJobs
      <4> QED BY <4>1 DEF ToolOf
    <3>3. InPlace(j)'
        BY <2>8 DEF Jobs
    <3>4. j.path \in doubt' \/ tools'[j.path] = j.want
        BY <3>2, <3>3 DEF InPlace
    <3> QED BY <3>1, <3>4
  <2>10. ASSUME NEW a \in DOMAIN g, NEW i \in DOMAIN g[a].skills
         PROVE  LET j == SkillOf(g, a, i) IN
                   j.path \in doubt' \/ skills'[j.path] = Whole(j.want, j.path)
    <3>1. PICK j \in Jobs(g) : j = SkillOf(g, a, i)
        BY DEF Jobs, SkillJobs
    <3>2. j.kind = "skill"
        BY <3>1 DEF SkillOf
    <3>3. InPlace(j)'
        BY <2>8
    <3>4. j.path \in doubt' \/ skills'[j.path] = Whole(j.want, j.path)
        BY <3>2, <3>3 DEF InPlace, Whole
    <3> QED BY <3>1, <3>4
  <2> QED BY <2>9, <2>10
<1> QED BY <1>1, SpecAloneInv, PTL DEF Spec, ClosureInstalled

LEMMA FetchBlames ==
    ASSUME NEW j \in AllJobs, NEW body \in Contents, FetchError(j, body) # "none"
    PROVE  LET limits == NewInstaller(j.kind)  error == FetchError(j, body) IN
           /\ error \in {"oversize", "tooSmall", "hash"}
           /\ error = "oversize" => body.bytes > limits.max
           /\ error = "oversize" => body.bytes \notin limits.min .. limits.max
           /\ error = "tooSmall" => body.bytes \notin limits.min .. limits.max
           /\ error = "tooSmall" => j.kind = "tool"
           /\ error = "hash" => body # j.want
<1> DEFINE limits == NewInstaller(j.kind)
<1>1. limits.min \in Nat /\ limits.max \in Nat /\ (j.kind = "skill" => limits.min = 0)
    BY JobFacts, ClosureAssumption DEF NewInstaller, Kinds
<1>2. body.bytes \in Nat /\ j.kind \in {"tool", "skill"}
    BY ClosureAssumption, JobFacts
<1> HIDE DEF limits
<1>3. FetchError(j, body) =
        CASE body.bytes > limits.max -> "oversize"
          [] body.bytes < limits.min -> "tooSmall"
          [] body.bytes \in limits.min .. limits.max /\ body # j.want -> "hash"
          [] OTHER -> "none"
    BY DEF FetchError, limits
<1>4. CASE body.bytes > limits.max
    BY <1>1, <1>2, <1>3, <1>4 DEF limits
<1>5. CASE body.bytes < limits.min
    BY <1>1, <1>2, <1>3, <1>5 DEF limits
<1>6. CASE ~(body.bytes > limits.max) /\ ~(body.bytes < limits.min)
  <2>1. FetchError(j, body) = "hash" /\ body # j.want
      BY <1>1, <1>2, <1>3, <1>6
  <2> QED BY <2>1
<1> QED BY <1>4, <1>5, <1>6

(* Why a request ends: the end of the loops, a failing disk or server, a   *)
(* download that is refused, an archive that is refused, or a directory    *)
(* that another request has put in its way.                                *)
Refused(p, cause, body) ==
    \/ cause \in {"none", "disk", "upstream"} /\ body = Nothing
    \/ body \in Contents /\ cause = FetchError(Job(p), body) /\ cause # "none"
    \/ /\ Job(p).kind = "skill" /\ body = Job(p).want
       /\ cause = Unpacking[<<body, Job(p).path[3]>>].error /\ cause # "none"
    \/ cause = "layout" /\ ~Alone(p)

LEMMA EndReasons ==
    ASSUME Inv, AloneInv, NEW p \in Creates, Work(p) \/ Fetch(p), ~InFlight(p)'
    PROVE  \E cause, body : create'[p] = Idle(cause, body) /\ Refused(p, cause, body)
<1>1. create \in [Creates -> Request] /\ create[p] \in Request
    BY DEF Inv, TypeOK
<1>2. InFlight(p) /\ Outcome(p)
    BY RequestOutcome
<1>3. Job(p) \in AllJobs /\ Sound(create[p])
    BY <1>2, RequestFacts
<1>4. ASSUME NEW cause, NEW body, FailOver(p, cause, body) PROVE create'[p] = Idle(cause, body)
    BY <1>1, <1>4 DEF FailOver
<1>5. ASSUME NEW cause \in {"disk", "upstream"}, Fail(p, cause)
      PROVE  create'[p] = Idle(cause, Nothing) /\ Refused(p, cause, Nothing)
    BY <1>4, <1>5 DEF Fail, Refused
<1>6. ASSUME Fail(p, "layout"), ~Alone(p)
      PROVE  create'[p] = Idle("layout", Nothing) /\ Refused(p, "layout", Nothing)
    BY <1>4, <1>6 DEF Fail, Refused
<1>7. ASSUME Advance(p)
      PROVE  create'[p] = Idle("none", Nothing) /\ Refused(p, "none", Nothing)
  <2>1. create'[p] \in Following(create[p])
      BY <1>7, AdvanceFacts
  <2>2. create[p].left = {}
    <3> SUFFICES ASSUME create[p].left # {} PROVE FALSE
        OBVIOUS
    <3>1. PICK j \in create[p].left :
              create'[p] = [create[p] EXCEPT !.pc = "cache", !.job = j,
                                !.left = create[p].left \ {j},
                                !.body = Nothing, !.replaced = FALSE]
        BY <2>1 DEF Following
    <3>2. create'[p].pc = "cache"
        BY <1>1, <3>1 DEF Request
    <3> QED BY <3>2 DEF InFlight
  <2> QED BY <2>1, <2>2 DEF Following, Refused
<1>8. ASSUME NEW pc \in PCs \ {"idle"}, Goto(p, pc) PROVE FALSE
    BY <1>8, GotoFacts DEF Continues
<1>9. CASE CheckCache(p)
  <2>1. ~Goto(p, IF Job(p).kind = "tool" THEN "fetch" ELSE "clear")
      BY <1>8 DEF PCs
  <2> QED BY <1>5, <1>7, <1>9, <2>1 DEF CheckCache
<1>10. CASE Fetch(p)
  <2>1. ASSUME NEW body,
               create' = [create EXCEPT ![p] = [@ EXCEPT !.pc = "rename", !.body = body]]
        PROVE  FALSE
      BY <1>1, <2>1 DEF Request, InFlight
  <2>2. ASSUME NEW body \in {Job(p).want} \cup Strays, FetchError(Job(p), body) # "none",
               FailOver(p, FetchError(Job(p), body), body)
        PROVE  \E cause, b : create'[p] = Idle(cause, b) /\ Refused(p, cause, b)
    <3>1. body \in Contents
        BY <1>3, JobFacts, ClosureAssumption
    <3> QED BY <1>4, <2>2, <3>1 DEF Refused
  <2> QED BY <1>5, <1>10, <2>1, <2>2 DEF Fetch
<1>11. CASE FetchTimeout(p)
    BY <1>5, <1>11 DEF FetchTimeout
<1>12. CASE InstallTool(p)
  <2>1. ASSUME NEW replaced,
               create' = [create EXCEPT ![p] = [@ EXCEPT !.pc = "markOpen", !.replaced = replaced]]
        PROVE  FALSE
      BY <1>1, <2>1 DEF Request, InFlight
  <2> QED BY <1>5, <1>12, <2>1 DEF InstallTool
<1>13. CASE OpenMarker(p)
    BY <1>5, <1>8, <1>13 DEF OpenMarker, PCs
<1>14. CASE WriteMarker(p)
    BY <1>5, <1>7, <1>14 DEF WriteMarker
<1>15. CASE ClearSkill(p)
    BY <1>8, <1>15 DEF ClearSkill, PCs
<1>16. CASE RemoveSkill(p)
  <2>1. ASSUME p \notin emptying PROVE ~Alone(p)
      BY <1>16, <2>1 DEF AloneInv, Cleared, RemoveSkill
  <2> QED BY <1>5, <1>6, <1>8, <1>16, <2>1 DEF RemoveSkill, PCs
<1>17. CASE InstallSkill(p)
  <2>1. At(p, "rename") /\ Job(p).kind = "skill" /\ create[p].body = Job(p).want
      BY <1>3, <1>17 DEF InstallSkill, Sound, At, Job
  <2>2. ASSUME skills[Job(p).path].there PROVE ~Alone(p)
      BY <2>1, <2>2 DEF AloneInv, Cleared
  <2> DEFINE error == Unpacking[<<create[p].body, Job(p).path[3]>>].error
  <2>3. ASSUME error # "none", FailOver(p, error, create[p].body)
        PROVE  \E cause, b : create'[p] = Idle(cause, b) /\ Refused(p, cause, b)
    <3>1. Refused(p, error, create[p].body)
        BY <2>1, <2>3 DEF Refused
    <3> QED BY <1>4, <2>3, <3>1
  <2> QED BY <1>5, <1>6, <1>7, <1>17, <2>2, <2>3 DEF InstallSkill
<1> QED BY <1>9, <1>10, <1>11, <1>12, <1>13, <1>14, <1>15, <1>16, <1>17 DEF Work

LEMMA StatusCauses ==
    ASSUME NEW kind, NEW cause
    PROVE  /\ Status(kind, cause) = 422 =>
                \/ cause \in {"hash", "slip", "size", "tooSmall"}
                \/ cause = "oversize" /\ kind = "tool"
           /\ Status(kind, cause) = 500 =>
                cause \notin {"none", "hash", "slip", "size", "tooSmall", "oversize", "upstream"}
           /\ Status(kind, cause) = 502 =>
                \/ cause = "upstream"
                \/ cause = "oversize" /\ kind # "tool"
PROOF BY DEF Status

(* A download that is refused, and an archive that is refused.             *)
LEMMA FetchBlameIsTrue ==
    ASSUME NEW j \in AllJobs, NEW body \in Contents, FetchError(j, body) # "none"
    PROVE  LET limits == NewInstaller(j.kind)  status == Status(j.kind, FetchError(j, body)) IN
           /\ status = 422 => \/ body # j.want
                              \/ j.kind = "tool" /\ body.bytes \notin limits.min .. limits.max
           /\ status # 500
           /\ status = 502 => j.kind = "skill" /\ body.bytes > limits.max
<1> DEFINE error == FetchError(j, body)
<1>1. error \in {"oversize", "tooSmall", "hash"}
    BY FetchBlames
<1>2. CASE error = "hash"
    BY <1>2, FetchBlames, StatusCauses
<1>3. CASE error = "tooSmall"
    BY <1>3, FetchBlames, StatusCauses
<1>4. CASE error = "oversize"
    BY <1>4, FetchBlames, StatusCauses, JobFacts
<1> QED BY <1>1, <1>2, <1>3, <1>4

LEMMA ArchiveBlameIsTrue ==
    ASSUME NEW j \in AllJobs, j.kind = "skill",
           Unpacking[<<j.want, j.path[3]>>].error # "none"
    PROVE  LET status == Status(j.kind, Unpacking[<<j.want, j.path[3]>>].error) IN
           /\ status = 422 => ~Fits(j.want) \/ ~Inside(j.want) \/ Dotted(j.want)
           /\ status = 500 => \/ ~Consistent(j.want)
                              \/ Broken(j.want)
                              \/ NameTaken(j.want, j.path[3])
           /\ status # 502
<1> DEFINE error == Unpacking[<<j.want, j.path[3]>>].error
<1>1. j.want \in Archives /\ j.path[3] \in SkillNames
    BY JobFacts
<1>2. /\ error \in {"slip", "size", "layout", "broken"}
      /\ error = "slip" => ~Inside(j.want) \/ Dotted(j.want)
      /\ error = "size" => ~Fits(j.want)
      /\ error = "layout" => ~Consistent(j.want) \/ NameTaken(j.want, j.path[3])
      /\ error = "broken" => Broken(j.want)
    BY <1>1, UnpackingFacts
<1> HIDE DEF error
<1> QED BY <1>2, StatusCauses DEF error

(* Whatever a server sends and whatever overlaps, 422 is answered only     *)
(* when the artifact is at fault, 502 only when the server sent nothing to *)
(* judge or an archive beyond the cap, and a Create that met no other is   *)
(* answered 500 only for a failing disk, an archive that cannot be laid    *)
(* out or a broken entry in it.                                            *)
THEOREM BlameIsTrueHolds == Spec => BlameIsTrue
<1>1. Inv /\ AloneInv /\ [Next]_vars =>
        [\A p \in Creates :
           LET c == create[p]  body == create'[p].body
               limits == NewInstaller(c.job.kind)
           IN
           /\ Answers(p, 422) =>
                 \/ body # c.job.want
                 \/ c.job.kind = "tool" /\ body.bytes \notin limits.min .. limits.max
                 \/ c.job.kind = "skill" /\ (~Fits(body) \/ ~Inside(body) \/ Dotted(body))
           /\ Answers(p, 500) /\ create'[p].cause # "disk" =>
                 \/ ~c.alone
                 \/ c.job.kind = "skill" /\ ( \/ ~Consistent(c.job.want)
                                              \/ Broken(c.job.want)
                                              \/ NameTaken(c.job.want, c.job.path[3]) )
           /\ Answers(p, 502) =>
                 \/ body = Nothing
                 \/ c.job.kind = "skill" /\ body.bytes > limits.max]_vars
  <2> SUFFICES ASSUME Inv, AloneInv, [Next]_vars, NEW p \in Creates,
                      Ends(p), create'[p].cause # "lost"
               PROVE
           LET c == create[p]  body == create'[p].body
               limits == NewInstaller(c.job.kind)
               status == Status(c.job.kind, create'[p].cause)
           IN
           /\ status = 422 =>
                 \/ body # c.job.want
                 \/ c.job.kind = "tool" /\ body.bytes \notin limits.min .. limits.max
                 \/ c.job.kind = "skill" /\ (~Fits(body) \/ ~Inside(body) \/ Dotted(body))
           /\ status = 500 /\ create'[p].cause # "disk" =>
                 \/ ~c.alone
                 \/ c.job.kind = "skill" /\ ( \/ ~Consistent(c.job.want)
                                              \/ Broken(c.job.want)
                                              \/ NameTaken(c.job.want, c.job.path[3]) )
           /\ status = 502 =>
                 \/ body = Nothing
                 \/ c.job.kind = "skill" /\ body.bytes > limits.max
      BY DEF Answers, Job
  <2>1. InFlight(p) /\ ~InFlight(p)'
      BY DEF Ends
  <2>2. Work(p) \/ Fetch(p)
      BY <2>1, AnswerIsOwn
  <2>3. PICK cause, body : create'[p] = Idle(cause, body) /\ Refused(p, cause, body)
      BY <2>1, <2>2, EndReasons
  <2>4. create'[p].cause = cause /\ create'[p].body = body
      BY <2>3 DEF Idle
  <2>5. PICK j \in AllJobs : j = create[p].job
      BY <2>1, RequestFacts
  <2>6. Job(p) = j
      BY <2>5 DEF Job
  <2>7. CASE cause \in {"none", "disk", "upstream"} /\ body = Nothing
      BY <2>4, <2>7, StatusCauses
  <2>8. CASE body \in Contents /\ cause = FetchError(j, body) /\ cause # "none"
      BY <2>4, <2>5, <2>8, FetchBlameIsTrue
  <2>9. CASE /\ j.kind = "skill" /\ body = j.want
             /\ cause = Unpacking[<<body, j.path[3]>>].error /\ cause # "none"
      BY <2>4, <2>5, <2>9, ArchiveBlameIsTrue
  <2>10. CASE cause = "layout" /\ ~Alone(p)
      BY <2>1, <2>4, <2>10, StatusCauses DEF Alone
  <2> QED BY <2>3, <2>6, <2>7, <2>8, <2>9, <2>10 DEF Refused
<1> QED BY <1>1, SpecAloneInv, PTL DEF Spec, BlameIsTrue
================================================================================
