------------------------------- MODULE Admission -------------------------------
(***************************************************************************)
(* What a Create request passes before the service looks for a container:  *)
(* the graph rules of CreateAgentRequest.Validate, with the cycle search   *)
(* as the depth-first search it is, and the version gate of the runtime    *)
(* image.  The search starts from the agents in the order of a Go map,     *)
(* that is, in any order.                                                  *)
(*                                                                         *)
(* Texts (names, URLs, hashes, tags) count only for their equalities; the  *)
(* checks of their formats are left out.                                   *)
(***************************************************************************)
EXTENDS Naturals, Sequences, FiniteSets

CONSTANTS
    Calls,         \* [req, image]: a decoded body [root, agents] and the deployer's
                   \* RuntimeImage and RuntimeImageAssumeLatest, [tag, assume]
    NoTag,         \* an image without a tag, or with :latest
    BadTag         \* a tag without two leading numbers

(* An agent is [id, globals, prompt, subagents, tools, skills, settings]:  *)
(* globals are the runtime-global fields it declares.  A tool or a skill   *)
(* is [name, url, hash], the hash a pair of what it says and how it is     *)
(* written; a parsed tag is <<major, minor>>.                              *)

RuntimeGlobals == {"model", "maxSessionQueries", "permissionMode", "effort", "thinking"}

ASSUME CallsAssumption ==
    \A c \in Calls :
        /\ \A i \in DOMAIN c.req.agents :
              /\ c.req.agents[i].globals \subseteq RuntimeGlobals
              /\ c.req.agents[i].subagents \in Seq(STRING)
        /\ c.image.tag \in {NoTag, BadTag} \cup (Nat \X Nat)

VARIABLES
    req,           \* the request
    image,         \* the deployer's configuration
    pc,            \* "shape", "search", "sharing", "image", "done"
    color,         \* of each agent in the search
    stack,         \* its recursion: [id, next], next being the subagent looked at
    answer         \* "none", "invalid" (400), "cycle" (400), "incompatible" (503), "admitted"

vars == <<req, image, pc, color, stack, answer>>

-----------------------------------------------------------------------------
Ids == {req.agents[i].id : i \in DOMAIN req.agents}

(* byID, AgentByID.                                                        *)
Agent(id) == req.agents[CHOOSE i \in DOMAIN req.agents : req.agents[i].id = id]

Subagents(id) == Agent(id).subagents

Init ==
    /\ \E c \in Calls : req = c.req /\ image = c.image
    /\ pc = "shape"
    /\ color = [id \in Ids |-> "white"]
    /\ stack = <<>>
    /\ answer = "none"

Answer(a) == pc' = "done" /\ answer' = a

(* Mutation: a reference to an agent that is not in the graph passes.      *)
WellShaped_Dangling ==
    /\ req.root \in Ids
    /\ \A i, j \in DOMAIN req.agents : req.agents[i].id = req.agents[j].id => i = j
    /\ "model" \in Agent(req.root).globals /\ Agent(req.root).prompt
    /\ \A i \in DOMAIN req.agents : LET a == req.agents[i] IN
          /\ a.id # req.root => a.globals = {}
          /\ \A k, l \in DOMAIN a.tools : a.tools[k].name = a.tools[l].name => k = l
          /\ \A k \in DOMAIN a.subagents :
                /\ a.subagents[k] # a.id
                /\ \A l \in DOMAIN a.subagents : a.subagents[k] = a.subagents[l] => k = l

(* Unique ids; a root with a model and a prompt; runtime-global fields on  *)
(* the root alone; a tool once; references that resolve, once, and not to  *)
(* oneself.                                                                *)
WellShaped ==
    /\ req.root \in Ids
    /\ \A i, j \in DOMAIN req.agents : req.agents[i].id = req.agents[j].id => i = j
    /\ "model" \in Agent(req.root).globals /\ Agent(req.root).prompt
    /\ \A i \in DOMAIN req.agents : LET a == req.agents[i] IN
          /\ a.id # req.root => a.globals = {}
          /\ \A k, l \in DOMAIN a.tools : a.tools[k].name = a.tools[l].name => k = l
          /\ \A k \in DOMAIN a.subagents :
                /\ a.subagents[k] # a.id
                /\ a.subagents[k] \in Ids
                /\ \A l \in DOMAIN a.subagents : a.subagents[k] = a.subagents[l] => k = l

CheckShape ==
    /\ pc = "shape"
    /\ \/ WellShaped /\ pc' = "search" /\ UNCHANGED answer
       \/ ~WellShaped /\ Answer("invalid")
    /\ UNCHANGED <<req, image, color, stack>>

-----------------------------------------------------------------------------
(* detectSubagentCycle.                                                    *)

Top == stack[Len(stack)]

(* The subagent the innermost visit looks at.                              *)
Ref == Subagents(Top.id)[Top.next]

Visit(id) ==
    /\ color' = [color EXCEPT ![id] = "gray"]
    /\ stack' = Append(stack, [id |-> id, next |-> 1])
    /\ UNCHANGED <<pc, answer>>

(* The next white agent of the map, whichever it is.                       *)
StartVisit ==
    /\ pc = "search"
    /\ stack = <<>>
    /\ \E id \in Ids : color[id] = "white" /\ Visit(id)
    /\ UNCHANGED <<req, image>>

AtRef(c) ==
    /\ pc = "search"
    /\ stack # <<>>
    /\ Top.next <= Len(Subagents(Top.id))
    /\ color[Ref] = c

Descend == AtRef("white") /\ Visit(Ref) /\ UNCHANGED <<req, image>>

(* Mutation: an agent that is done is not passed over.                     *)
Skip_Stays == AtRef("black") /\ UNCHANGED vars

Skip ==
    /\ AtRef("black")
    /\ stack' = [stack EXCEPT ![Len(stack)].next = @ + 1]
    /\ UNCHANGED <<req, image, pc, color, answer>>

FindCycle ==
    /\ AtRef("gray")
    /\ Answer("cycle")
    /\ UNCHANGED <<req, image, color, stack>>

(* Mutation: a visited agent stays gray.                                   *)
Return_StaysGray ==
    /\ pc = "search"
    /\ stack # <<>>
    /\ Top.next > Len(Subagents(Top.id))
    /\ stack' = SubSeq(stack, 1, Len(stack) - 1)
    /\ UNCHANGED <<req, image, pc, color, answer>>

Return ==
    /\ pc = "search"
    /\ stack # <<>>
    /\ Top.next > Len(Subagents(Top.id))
    /\ color' = [color EXCEPT ![Top.id] = "black"]
    /\ stack' = SubSeq(stack, 1, Len(stack) - 1)
    /\ UNCHANGED <<req, image, pc, answer>>

EndSearch ==
    /\ pc = "search"
    /\ stack = <<>>
    /\ \A id \in Ids : color[id] # "white"
    /\ pc' = "sharing"
    /\ UNCHANGED <<req, image, color, stack, answer>>

-----------------------------------------------------------------------------
(* Artifacts shared across agents: a declaration is compared with the      *)
(* first of its name, by URL and hash as they are written.                 *)

Kinds == {"tools", "skills"}

(* The declarations of one kind, by agent and position.                    *)
Declared(kind) == UNION {{<<i, k>> : k \in DOMAIN req.agents[i][kind]} : i \in DOMAIN req.agents}

Decl(kind, p) == req.agents[p[1]][kind][p[2]]

Before(p, q) == p[1] < q[1] \/ (p[1] = q[1] /\ p[2] < q[2])

FirstOf(kind, p) ==
    CHOOSE q \in Declared(kind) :
        /\ Decl(kind, q).name = Decl(kind, p).name
        /\ \A r \in Declared(kind) : Decl(kind, r).name = Decl(kind, p).name => ~Before(r, q)

Conflicting(kind) ==
    \E p \in Declared(kind) : LET d == Decl(kind, p)  first == Decl(kind, FirstOf(kind, p)) IN
        d.url # first.url \/ d.hash # first.hash

(* Skills are scanned in the agent's own directory, at user level.         *)
Unscanned ==
    \E i \in DOMAIN req.agents :
        req.agents[i].skills # <<>> /\ "user" \notin req.agents[i].settings

CheckSharing ==
    LET refused == Unscanned \/ \E kind \in Kinds : Conflicting(kind) IN
    /\ pc = "sharing"
    /\ \/ refused /\ Answer("invalid")
       \/ ~refused /\ pc' = "image" /\ UNCHANGED answer
    /\ UNCHANGED <<req, image, color, stack>>

-----------------------------------------------------------------------------
(* The runtime image: the floor of the keys declared, and the gate.        *)

Declares(key) == \E i \in DOMAIN req.agents : key \in req.agents[i].globals

(* Mutation: the later key sets the floor, lower or not.                   *)
MinMinor_LastWins ==
    IF Declares("maxSessionQueries") THEN 6 ELSE IF Declares("effort") THEN 9 ELSE 4

MinMinor ==
    IF Declares("effort") THEN 9 ELSE IF Declares("maxSessionQueries") THEN 6 ELSE 4

(* checkRuntimeImage(2, MinMinor).                                         *)
Compatible ==
    IF image.tag = NoTag THEN image.assume
    ELSE image.tag # BadTag /\ ( \/ image.tag[1] > 2
                                 \/ image.tag[1] = 2 /\ image.tag[2] >= MinMinor )

CheckImage ==
    /\ pc = "image"
    /\ Answer(IF Compatible THEN "admitted" ELSE "incompatible")
    /\ UNCHANGED <<req, image, color, stack>>

-----------------------------------------------------------------------------
Next ==
    \/ CheckShape
    \/ StartVisit
    \/ Descend
    \/ Skip
    \/ FindCycle
    \/ Return
    \/ EndSearch
    \/ CheckSharing
    \/ CheckImage

Spec == Init /\ [][Next]_vars

(* Validation is a plain function call: it runs on.                        *)
FairSpec == Spec /\ WF_vars(Next)

-----------------------------------------------------------------------------
(* Well-typed states; the search never looks up an agent that is not in    *)
(* the graph (byID would give nil), and is in no agent twice at a time, so *)
(* that it goes no deeper than there are agents.                           *)
TypeOK ==
    /\ pc \in {"shape", "search", "sharing", "image", "done"}
    /\ answer \in {"none", "invalid", "cycle", "incompatible", "admitted"}
    /\ color \in [Ids -> {"white", "gray", "black"}]
    /\ stack \in Seq([id : Ids, next : Nat \ {0}])
    /\ \A k \in DOMAIN stack :
          /\ \A l \in DOMAIN stack : stack[k].id = stack[l].id => k = l
          /\ stack[k].next <= Len(Subagents(stack[k].id)) =>
                Subagents(stack[k].id)[stack[k].next] \in Ids

(* Every set of agents has one that mounts none of them.                   *)
Acyclic ==
    \A S \in (SUBSET Ids) \ {{}} :
        \E id \in S : \A k \in DOMAIN Subagents(id) : Subagents(id)[k] \notin S

(* In whatever order the map is walked, and whatever earlier searches have *)
(* visited, a graph is refused for a cycle when it has one and only then.  *)
CycleVerdict ==
    /\ answer = "cycle" => ~Acyclic
    /\ pc \in {"sharing", "image"} \/ answer \in {"incompatible", "admitted"} => Acyclic

(* Runtimes below 2.4 read another agents.yaml, and one below 2.minor does *)
(* not know the key and drops it.                                          *)
BaseMinor == 4

UnknownBelow == [maxSessionQueries |-> 6, effort |-> 9]

Below(minor) == image.tag[1] < 2 \/ (image.tag[1] = 2 /\ image.tag[2] < minor)

Unfit ==
    \/ Below(BaseMinor)
    \/ \E key \in DOMAIN UnknownBelow : Declares(key) /\ Below(UnknownBelow[key])

(* An admitted graph asks for one content at each place of the disk, has   *)
(* each of its skills in an agent whose own directory is scanned, and has  *)
(* an image with a legible version of a runtime that reads agents.yaml and *)
(* every key declared, or one without a version that the operator vouches  *)
(* for.  A graph refused for its image has none of these.                  *)
AdmittedIsDeployable ==
    /\ answer = "admitted" =>
          /\ \A kind \in Kinds : \A p, q \in Declared(kind) :
                Decl(kind, p).name = Decl(kind, q).name =>
                    Decl(kind, p).hash[1] = Decl(kind, q).hash[1]
          /\ \A p \in Declared("skills") : "user" \in req.agents[p[1]].settings
          /\ image.tag = NoTag => image.assume
          /\ image.tag # NoTag => image.tag # BadTag /\ ~Unfit
    /\ answer = "incompatible" =>
          \/ image.tag = NoTag /\ ~image.assume
          \/ image.tag = BadTag
          \/ image.tag # NoTag /\ Unfit

(* Liveness: every request gets its answer, however its agents refer to    *)
(* each other.                                                             *)
Decided == <>(pc = "done")
=============================================================================
