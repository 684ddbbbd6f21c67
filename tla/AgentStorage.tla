---------------------------- MODULE AgentStorage ----------------------------
(***************************************************************************)
(* WriteAgentYAML and ReadAgentYAML on one deployment's agents directory,  *)
(* one file-system call per action: the system prompts are staged in files *)
(* named by their content, agents.yaml is written to a temporary file and  *)
(* renamed, then the legacy sidecar and the superseded prompts are         *)
(* removed.  Writers are the Creates of the deployment in progress; the    *)
(* code lets two of them run at once and both use agents.yaml.tmp.         *)
(***************************************************************************)
EXTENDS Naturals, FiniteSets

CONSTANTS
    Writers,
    Gens,           \* generations of the document that WriteAgentYAML writes
    Legacy,         \* a generation an older deployer left, with its sidecar
    NoGen,          \* no file
    Torn,           \* a file cut short or mixed from two writes
    Prompts,        \* prompt file names; a name determines the content
    NoPrompt,
    PromptsOf,      \* the prompts each generation references
    WithArtifacts   \* the generations that declare tools or skills

Docs == Gens \cup {Legacy}

ASSUME GensAssumption ==
    /\ Legacy \notin Gens
    /\ NoGen \notin Docs /\ Torn \notin Docs /\ NoGen # Torn
ASSUME PromptsAssumption ==
    /\ NoPrompt \notin Prompts
    /\ PromptsOf \in [Docs -> SUBSET Prompts]
    /\ PromptsOf[Legacy] = {}
ASSUME ArtifactsAssumption ==
    /\ WithArtifacts \subseteq Docs
    /\ Legacy \in WithArtifacts     \* an older deployer's sidecar holds some

VARIABLES
    yaml,     \* agents.yaml
    tmp,      \* agents.yaml.tmp
    sidecar,  \* the generation whose digest deploy-manifest.json records
    prompts,  \* the whole prompt files in prompts/
    staging,  \* the temporary prompt file of each writer
    litter,   \* whether prompts/ holds temporary files of no writer
    wr        \* the WriteAgentYAML call of each writer

vars == <<yaml, tmp, sidecar, prompts, staging, litter, wr>>

-----------------------------------------------------------------------------
PCs == {"idle", "prompts", "create", "write", "rename", "open", "fill",
        "commit", "sidecar", "readdir", "gc"}

(* fd: the file the writer's descriptor on agents.yaml.tmp leads to, which *)
(* another writer's rename moves to agents.yaml and a second one unlinks.  *)
Writer == [pc : PCs, gen : Gens \cup {NoGen}, todo : SUBSET Prompts,
           cur : Prompts \cup {NoPrompt}, fd : {"none", "tmp", "yaml", "gone"},
           doomed : SUBSET Prompts, reply : {"none", "ok", "error", "lost"}]

Idle(reply) == [pc |-> "idle", gen |-> NoGen, todo |-> {}, cur |-> NoPrompt,
                fd |-> "none", doomed |-> {}, reply |-> reply]

TypeOK ==
    /\ yaml \in Docs \cup {NoGen, Torn}
    /\ tmp \in Gens \cup {NoGen, Torn}
    /\ sidecar \in {Legacy, NoGen}
    /\ prompts \in SUBSET Prompts
    /\ staging \in [Writers -> {"none", "partial", "whole"}]
    /\ litter \in BOOLEAN
    /\ wr \in [Writers -> Writer]

Init ==
    /\ \/ yaml = NoGen /\ sidecar = NoGen
       \/ yaml = Legacy /\ sidecar = Legacy
    /\ tmp = NoGen
    /\ prompts = {}
    /\ staging = [w \in Writers |-> "none"]
    /\ litter = FALSE
    /\ wr = [w \in Writers |-> Idle("none")]

At(w, pc) == wr[w].pc = pc

Goto(w, pc) == wr' = [wr EXCEPT ![w].pc = pc]

Answer(w, reply) == wr' = [wr EXCEPT ![w] = Idle(reply)]

Busy(w) == ~At(w, "idle")

-----------------------------------------------------------------------------
(* ReadAgentYAML.  A document without embedded artifacts takes those of a  *)
(* sidecar with its own digest; only a generation of an older deployer has *)
(* one.                                                                    *)

HasArtifacts(g) == (g \in Gens /\ g \in WithArtifacts) \/ sidecar = g

(* What a reader gets: the generation, or Torn for an error or a loss.     *)
ReadBack ==
    IF yaml = NoGen THEN NoGen
    ELSE IF /\ yaml # Torn
            /\ PromptsOf[yaml] \subseteq prompts
            /\ HasArtifacts(yaml) = (yaml \in WithArtifacts)
         THEN yaml
         ELSE Torn

-----------------------------------------------------------------------------
(* writeSystemPromptFiles, one prompt after another in the graph's order.  *)

Begin(w) ==
    /\ At(w, "idle")
    /\ \E g \in Gens :
          wr' = [wr EXCEPT ![w] = [Idle("none") EXCEPT
                   !.pc = "prompts", !.gen = g, !.todo = PromptsOf[g]]]
    /\ UNCHANGED <<yaml, tmp, sidecar, prompts, staging, litter>>

NextPrompt(w) ==
    /\ At(w, "prompts")
    /\ \/ wr[w].todo = {} /\ Goto(w, "open")
       \/ \E p \in wr[w].todo :
             IF p \in prompts
             THEN wr' = [wr EXCEPT ![w].todo = @ \ {p}]
             ELSE wr' = [wr EXCEPT ![w].todo = @ \ {p}, ![w].cur = p,
                                   ![w].pc = "create"]
       \/ Answer(w, "error")
    /\ UNCHANGED <<yaml, tmp, sidecar, prompts, staging, litter>>

CreateTemp(w) ==
    /\ At(w, "create")
    /\ \/ staging' = [staging EXCEPT ![w] = "partial"] /\ Goto(w, "write")
       \/ UNCHANGED staging /\ Answer(w, "error")
    /\ UNCHANGED <<yaml, tmp, sidecar, prompts, litter>>

(* Dropping a staged file on an error may itself fail.                     *)
DropStaged(w) ==
    /\ staging' = [staging EXCEPT ![w] = "none"]
    /\ litter' \in {litter, litter \/ staging[w] # "none"}

WriteAndSync(w) ==
    /\ At(w, "write")
    /\ \/ /\ staging' = [staging EXCEPT ![w] = IF @ = "partial" THEN "whole" ELSE @]
          /\ UNCHANGED litter
          /\ Goto(w, "rename")
       \/ DropStaged(w) /\ Answer(w, "error")
    /\ UNCHANGED <<yaml, tmp, sidecar, prompts>>

RenamePrompt(w) ==
    /\ At(w, "rename")
    /\ \/ /\ staging[w] = "whole"
          /\ prompts' = prompts \cup {wr[w].cur}
          /\ staging' = [staging EXCEPT ![w] = "none"]
          /\ UNCHANGED litter
          /\ wr' = [wr EXCEPT ![w].pc = "prompts", ![w].cur = NoPrompt]
       \/ UNCHANGED prompts /\ DropStaged(w) /\ Answer(w, "error")
    /\ UNCHANGED <<yaml, tmp, sidecar>>

-----------------------------------------------------------------------------
(* agents.yaml.tmp: WriteFile truncates, then writes; then the rename.     *)

(* Mutation: agents.yaml is truncated and written in place.               *)
OpenTmp_InPlace(w) ==
    /\ At(w, "open")
    /\ \/ yaml' = Torn /\ wr' = [wr EXCEPT ![w].pc = "fill", ![w].fd = "yaml"]
       \/ UNCHANGED yaml /\ Answer(w, "error")
    /\ UNCHANGED <<tmp, sidecar, prompts, staging, litter>>

OpenTmp(w) ==
    /\ At(w, "open")
    /\ \/ tmp' = Torn /\ wr' = [wr EXCEPT ![w].pc = "fill", ![w].fd = "tmp"]
       \/ UNCHANGED tmp /\ Answer(w, "error")
    /\ UNCHANGED <<yaml, sidecar, prompts, staging, litter>>

(* A write over another writer's bytes leaves either its own document or a *)
(* mixture, as their lengths compare.                                      *)
Overwritten(old, g) == IF old \in {Torn, g} THEN {g} ELSE {g, Torn}

FillTmp(w) ==
    LET g == wr[w].gen IN
    /\ At(w, "fill")
    /\ \/ /\ \/ /\ wr[w].fd = "tmp"
                /\ tmp' \in Overwritten(tmp, g)
                /\ UNCHANGED yaml
             \/ /\ wr[w].fd = "yaml"
                /\ yaml' \in Overwritten(yaml, g)
                /\ UNCHANGED tmp
             \/ wr[w].fd = "gone" /\ UNCHANGED <<yaml, tmp>>
          /\ wr' = [wr EXCEPT ![w].pc = "commit", ![w].fd = "none"]
       \/ /\ tmp' \in IF wr[w].fd = "tmp" THEN {tmp, Torn} ELSE {tmp}
          /\ yaml' \in IF wr[w].fd = "yaml" THEN {yaml, Torn} ELSE {yaml}
          /\ Answer(w, "error")
    /\ UNCHANGED <<sidecar, prompts, staging, litter>>

Renamed(fd) == CASE fd = "tmp" -> "yaml" [] fd = "yaml" -> "gone" [] OTHER -> fd

Commit(w) ==
    /\ At(w, "commit")
    /\ \/ /\ tmp # NoGen
          /\ yaml' = tmp
          /\ tmp' = NoGen
          /\ wr' = [v \in Writers |->
                      IF v = w THEN [wr[w] EXCEPT !.pc = "sidecar"]
                      ELSE [wr[v] EXCEPT !.fd = Renamed(@)]]
       \/ UNCHANGED <<yaml, tmp>> /\ Answer(w, "error")
    /\ UNCHANGED <<sidecar, prompts, staging, litter>>

-----------------------------------------------------------------------------
(* After the commit nothing is an error any more.                          *)

(* Mutation: the sidecar is rewritten for the new document, as an older    *)
(* deployer did.                                                           *)
RemoveLegacyManifest_Rewritten(w) ==
    /\ At(w, "sidecar")
    /\ sidecar' \in {sidecar, wr[w].gen}
    /\ Goto(w, "readdir")
    /\ UNCHANGED <<yaml, tmp, prompts, staging, litter>>

(* Mutation: a sidecar that cannot be removed fails the update.            *)
RemoveLegacyManifest_ErrorReported(w) ==
    /\ At(w, "sidecar")
    /\ \/ sidecar' = NoGen /\ Goto(w, "readdir")
       \/ UNCHANGED sidecar /\ Answer(w, "error")
    /\ UNCHANGED <<yaml, tmp, prompts, staging, litter>>

RemoveLegacyManifest(w) ==
    /\ At(w, "sidecar")
    /\ sidecar' \in {sidecar, NoGen}
    /\ Goto(w, "readdir")
    /\ UNCHANGED <<yaml, tmp, prompts, staging, litter>>

(* gcPromptFiles lists the directory, then removes what its own document   *)
(* does not reference, the temporary files of other writers included.  A   *)
(* temporary file's removal matters only to the rename that follows it, so *)
(* those removals are made with the listing.                               *)
ListPrompts(w) ==
    /\ At(w, "readdir")
    /\ \/ /\ wr' = [wr EXCEPT ![w].pc = "gc",
                                ![w].doomed = prompts \ PromptsOf[wr[w].gen]]
          /\ litter' \in {litter, FALSE}
          /\ \E gone \in SUBSET {v \in Writers : staging[v] # "none"} :
                staging' = [v \in Writers |-> IF v \in gone THEN "none" ELSE staging[v]]
       \/ Answer(w, "ok") /\ UNCHANGED <<staging, litter>>
    /\ UNCHANGED <<yaml, tmp, sidecar, prompts>>

RemoveDoomed(w) ==
    /\ At(w, "gc")
    /\ \/ \E p \in wr[w].doomed :
             /\ prompts' \in {prompts \ {p}, prompts}
             /\ wr' = [wr EXCEPT ![w].doomed = @ \ {p}]
       \/ wr[w].doomed = {} /\ Answer(w, "ok") /\ UNCHANGED prompts
    /\ UNCHANGED <<yaml, tmp, sidecar, staging, litter>>

-----------------------------------------------------------------------------
(* The deployer stops and is started again; a file written before stays.   *)
Crash ==
    /\ \E w \in Writers : Busy(w)
    /\ wr' = [w \in Writers |-> IF Busy(w) THEN Idle("lost") ELSE wr[w]]
    /\ litter' = (litter \/ \E w \in Writers : staging[w] # "none")
    /\ staging' = [w \in Writers |-> "none"]
    /\ UNCHANGED <<yaml, tmp, sidecar, prompts>>

Work(w) ==
    \/ NextPrompt(w)
    \/ CreateTemp(w)
    \/ WriteAndSync(w)
    \/ RenamePrompt(w)
    \/ OpenTmp(w)
    \/ FillTmp(w)
    \/ Commit(w)
    \/ RemoveLegacyManifest(w)
    \/ ListPrompts(w)
    \/ RemoveDoomed(w)

Next == Crash \/ \E w \in Writers : Begin(w) \/ Work(w)

Spec == Init /\ [][Next]_vars

(* Clients that never have two Creates of the deployment in flight.        *)
SerialNext ==
    \/ Crash
    \/ \E w \in Writers : \/ (\A v \in Writers : ~Busy(v)) /\ Begin(w)
                          \/ Work(w)

SerialSpec == Init /\ [][SerialNext]_vars

-----------------------------------------------------------------------------
(* "A failed or interrupted update leaves the previous deployment fully    *)
(* intact and losslessly readable": whatever steps of updates have failed  *)
(* and wherever the deployer has been stopped, ReadAgentYAML gets a        *)
(* complete generation, its prompts and artifacts included.                *)
Readable == ReadBack # Torn

(* The rename of agents.yaml is the single point at which a reader's       *)
(* document changes: an update that answers an error has changed nothing   *)
(* and one that answers ok has changed the document to its own.            *)
UpdatePhase(w) ==
    CASE ~Busy(w) -> "idle"
      [] wr[w].pc \in {"sidecar", "readdir", "gc"} -> "switched"
      [] OTHER -> "updating"

Document == INSTANCE DeploymentDocument WITH
    Gens <- Docs,
    doc <- ReadBack,
    phase <- [w \in Writers |-> UpdatePhase(w)],
    gen <- [w \in Writers |-> wr[w].gen],
    reply <- [w \in Writers |-> wr[w].reply]

SwitchesOnce == Document!Spec

(* What gcPromptFiles' comment says of any number of writers: a file it    *)
(* removes is one that no document references any more.                    *)
PromptsPresent == yaml \in Docs => PromptsOf[yaml] \subseteq prompts
=============================================================================
