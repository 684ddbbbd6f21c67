------------------------- MODULE AgentStorageProofs -------------------------
(***************************************************************************)
(* With one update at a time, agents.yaml is always readable and every     *)
(* step of WriteAgentYAML is a step of DeploymentDocument or leaves the    *)
(* document alone, for any writers, generations and prompts.               *)
(***************************************************************************)
EXTENDS AgentStorage, TLAPS

Staging == {"prompts", "create", "write", "rename"}
Writing == {"open", "fill", "commit"}
Switched == {"sidecar", "readdir", "gc"}

(* What the update in progress has done so far.                            *)
Progress(w) ==
    /\ ~Busy(w) => wr[w].gen = NoGen
    /\ Busy(w) =>
          /\ wr[w].gen \in Gens
          /\ PromptsOf[wr[w].gen] \subseteq prompts \cup wr[w].todo \cup {wr[w].cur}
    /\ wr[w].pc \in {"create", "write", "rename"} => wr[w].cur # NoPrompt
    /\ wr[w].pc \in {"prompts"} \cup Writing \cup Switched => wr[w].cur = NoPrompt
    /\ wr[w].pc \in Writing \cup Switched => wr[w].todo = {}
    /\ At(w, "fill") => wr[w].fd = "tmp" /\ tmp = Torn
    /\ At(w, "commit") => tmp = wr[w].gen
    /\ wr[w].pc \in Switched => yaml = wr[w].gen
    /\ At(w, "gc") => wr[w].doomed \cap PromptsOf[wr[w].gen] = {}

Committed ==
    /\ yaml # Torn
    /\ yaml \in Docs => PromptsOf[yaml] \subseteq prompts
    /\ yaml = Legacy => sidecar = Legacy

OneAtATime == \A v, w \in Writers : Busy(v) /\ Busy(w) => v = w

StorageInv ==
    /\ TypeOK
    /\ Committed
    /\ OneAtATime
    /\ \A w \in Writers : Progress(w)

Keeps(w) == \A v \in Writers \ {w} : /\ wr'[v].pc = wr[v].pc
                                     /\ wr'[v].gen = wr[v].gen
                                     /\ wr'[v].reply = wr[v].reply

-----------------------------------------------------------------------------
(* No update is in progress at first, and an older document has its        *)
(* sidecar.                                                                *)
LEMMA InitStorage == Init => StorageInv
<1> SUFFICES ASSUME Init PROVE StorageInv
  OBVIOUS
<1> USE GensAssumption, PromptsAssumption, ArtifactsAssumption
<1>1. \A w \in Writers : wr[w] = Idle("none")
  BY DEF Init
<1>2. TypeOK
  BY DEF Init, TypeOK, Writer, Idle, PCs, Docs
<1>3. Committed
  BY DEF Init, Committed, Docs
<1>4. \A w \in Writers : ~Busy(w) /\ Progress(w)
  BY <1>1 DEF Progress, Busy, At, Idle, Writing, Switched
<1> QED
  BY <1>2, <1>3, <1>4 DEF StorageInv, OneAtATime

(* A step of one writer, while every other one is idle, has only that      *)
(* writer's progress and the files to answer for.                          *)
LEMMA OneWriter ==
    ASSUME StorageInv, NEW w \in Writers,
           \A v \in Writers \ {w} : ~Busy(v),
           Keeps(w), TypeOK', Committed', Progress(w)'
    PROVE  StorageInv'
<1>1. \A v \in Writers \ {w} : ~Busy(v)' /\ Progress(v)'
  <2> SUFFICES ASSUME NEW v \in Writers \ {w} PROVE ~Busy(v)' /\ Progress(v)'
    OBVIOUS
  <2>1. wr'[v].pc = "idle" /\ wr'[v].gen = NoGen
    BY DEF Keeps, StorageInv, Progress, Busy, At
  <2> QED
    BY <2>1 DEF Progress, Busy, At, Writing, Switched
<1> QED
  BY <1>1 DEF StorageInv, OneAtATime

(* The others are idle while a writer is busy.                             *)
LEMMA OthersIdle ==
    ASSUME StorageInv, NEW w \in Writers, Busy(w)
    PROVE  \A v \in Writers \ {w} : ~Busy(v)
BY DEF StorageInv, OneAtATime

(* An answer leaves the writer idle.                                       *)
LEMMA AnswerKeeps ==
    ASSUME TypeOK, NEW w \in Writers, NEW reply \in {"ok", "error"},
           Answer(w, reply)
    PROVE  /\ wr' \in [Writers -> Writer]
           /\ Keeps(w)
           /\ Progress(w)'
           /\ wr'[w] = Idle(reply)
<1>1. Idle(reply) \in Writer
  BY DEF Idle, Writer, PCs
<1>2. wr'[w] = Idle(reply) /\ wr' \in [Writers -> Writer]
  BY <1>1 DEF Answer, TypeOK
<1>3. Keeps(w)
  BY DEF Answer, TypeOK, Keeps
<1>4. Progress(w)'
  BY <1>2 DEF Progress, Busy, At, Idle, Writing, Switched
<1> QED
  BY <1>2, <1>3, <1>4

(* The prompts of a generation are prompts.                                *)
LEMMA PromptsOfGen ==
    ASSUME NEW g \in Gens
    PROVE  PromptsOf[g] \subseteq Prompts /\ NoPrompt \notin PromptsOf[g]
BY PromptsAssumption DEF Docs

-----------------------------------------------------------------------------
(* Each step of an update keeps the invariant.                             *)

LEMMA BeginStep ==
    ASSUME StorageInv, NEW w \in Writers, \A v \in Writers : ~Busy(v), Begin(w)
    PROVE  StorageInv'
<1>1. PICK g \in Gens :
         wr' = [wr EXCEPT ![w] = [Idle("none") EXCEPT
                   !.pc = "prompts", !.gen = g, !.todo = PromptsOf[g]]]
  BY DEF Begin
<1> DEFINE r == [Idle("none") EXCEPT !.pc = "prompts", !.gen = g, !.todo = PromptsOf[g]]
<1>2. /\ r.pc = "prompts" /\ r.gen = g /\ r.todo = PromptsOf[g] /\ r.cur = NoPrompt
      /\ r \in Writer
  BY PromptsAssumption DEF Idle, Writer, PCs, Docs
<1>3. /\ wr' = [wr EXCEPT ![w] = r]
      /\ wr \in [Writers -> Writer]
  BY <1>1 DEF StorageInv, TypeOK
<1> HIDE DEF r
<1>4. wr'[w] = r /\ wr' \in [Writers -> Writer] /\ Keeps(w)
  BY <1>2, <1>3 DEF Keeps
<1>5. TypeOK' /\ Committed'
  BY <1>4 DEF StorageInv, TypeOK, Committed, Begin
<1>6. Progress(w)'
  BY <1>2, <1>4 DEF Progress, Busy, At, Writing, Switched
<1> QED
  BY <1>4, <1>5, <1>6, OneWriter

LEMMA NextPromptStep ==
    ASSUME StorageInv, NEW w \in Writers, NextPrompt(w)
    PROVE  StorageInv'
<1>1. \A v \in Writers \ {w} : ~Busy(v)
  BY OthersIdle DEF NextPrompt, At, Busy
<1>2. TypeOK /\ Committed /\ Progress(w) /\ Busy(w) /\ At(w, "prompts")
  BY DEF StorageInv, NextPrompt, At, Busy
<1>3. wr' \in [Writers -> Writer] /\ Keeps(w) /\ Progress(w)'
  <2>1. CASE wr[w].todo = {} /\ Goto(w, "open")
    <3> DEFINE r == [wr[w] EXCEPT !.pc = "open"]
    <3>1. /\ r.pc = "open" /\ r.gen = wr[w].gen /\ r.cur = wr[w].cur
          /\ r.todo = {} /\ r \in Writer
      BY <1>2, <2>1 DEF TypeOK, Writer, PCs
    <3>2. wr' = [wr EXCEPT ![w] = r] /\ wr \in [Writers -> Writer]
      BY <1>2, <2>1 DEF TypeOK, Goto
    <3> HIDE DEF r
    <3>3. wr'[w] = r /\ wr' \in [Writers -> Writer] /\ Keeps(w)
      BY <3>1, <3>2 DEF Keeps
    <3>4. Progress(w)'
      BY <1>2, <2>1, <3>1, <3>3 DEF Progress, Busy, At, Writing, Switched, NextPrompt
    <3> QED
      BY <3>3, <3>4
  <2>2. ASSUME NEW p \in wr[w].todo, p \in prompts,
               wr' = [wr EXCEPT ![w].todo = @ \ {p}]
        PROVE  wr' \in [Writers -> Writer] /\ Keeps(w) /\ Progress(w)'
    <3> DEFINE r == [wr[w] EXCEPT !.todo = @ \ {p}]
    <3>1. /\ r.pc = "prompts" /\ r.gen = wr[w].gen /\ r.cur = wr[w].cur
          /\ r.todo = wr[w].todo \ {p} /\ r \in Writer
      BY <1>2 DEF TypeOK, Writer, At
    <3>2. wr' = [wr EXCEPT ![w] = r] /\ wr \in [Writers -> Writer]
      BY <1>2, <2>2 DEF TypeOK
    <3> HIDE DEF r
    <3>3. wr'[w] = r /\ wr' \in [Writers -> Writer] /\ Keeps(w)
      BY <3>1, <3>2 DEF Keeps
    <3>4. PromptsOf[wr[w].gen] \subseteq prompts \cup r.todo \cup {r.cur}
      BY <1>2, <2>2, <3>1 DEF Progress
    <3>5. Progress(w)'
      BY <1>2, <3>1, <3>3, <3>4 DEF Progress, Busy, At, Writing, Switched, NextPrompt
    <3> QED
      BY <3>3, <3>5
  <2>3. ASSUME NEW p \in wr[w].todo,
               wr' = [wr EXCEPT ![w].todo = @ \ {p}, ![w].cur = p, ![w].pc = "create"]
        PROVE  wr' \in [Writers -> Writer] /\ Keeps(w) /\ Progress(w)'
    <3> DEFINE r == [wr[w] EXCEPT !.todo = @ \ {p}, !.cur = p, !.pc = "create"]
    <3>1. wr[w] \in Writer /\ p \in Prompts
      BY <1>2 DEF TypeOK, Writer
    <3>2. /\ r.pc = "create" /\ r.gen = wr[w].gen /\ r.cur = p
          /\ r.todo = wr[w].todo \ {p} /\ r \in Writer
      BY <3>1 DEF Writer, PCs
    <3>3. wr' = [wr EXCEPT ![w] = r] /\ wr \in [Writers -> Writer]
      BY <1>2, <2>3 DEF TypeOK
    <3> HIDE DEF r
    <3>4. wr'[w] = r /\ wr' \in [Writers -> Writer] /\ Keeps(w)
      BY <3>2, <3>3 DEF Keeps
    <3>5. PromptsOf[wr[w].gen] \subseteq prompts \cup r.todo \cup {r.cur}
      BY <1>2, <3>2, PromptsOfGen DEF Progress, At
    <3>6. Progress(w)'
      BY <1>2, <3>1, <3>2, <3>4, <3>5, PromptsAssumption
         DEF Progress, Busy, At, Writing, Switched, NextPrompt
    <3> QED
      BY <3>4, <3>6
  <2>4. CASE Answer(w, "error")
    BY <1>2, <2>4, AnswerKeeps
  <2> QED
    BY <2>1, <2>2, <2>3, <2>4 DEF NextPrompt
<1>4. TypeOK' /\ Committed'
  BY <1>2, <1>3 DEF TypeOK, Committed, NextPrompt
<1> QED
  BY <1>1, <1>3, <1>4, OneWriter

LEMMA CreateTempStep ==
    ASSUME StorageInv, NEW w \in Writers, CreateTemp(w)
    PROVE  StorageInv'
<1>1. \A v \in Writers \ {w} : ~Busy(v)
  BY OthersIdle DEF CreateTemp, At, Busy
<1>2. TypeOK /\ Committed /\ Progress(w) /\ Busy(w) /\ At(w, "create")
  BY DEF StorageInv, CreateTemp, At, Busy
<1>3. wr' \in [Writers -> Writer] /\ Keeps(w) /\ Progress(w)'
  <2>1. CASE Goto(w, "write")
    BY <1>2, <2>1 DEF Goto, TypeOK, Writer, PCs, Keeps, CreateTemp, Progress, Busy, At,
       Writing, Switched
  <2> QED
    BY <1>2, <2>1, AnswerKeeps DEF CreateTemp
<1>4. TypeOK' /\ Committed'
  BY <1>2, <1>3 DEF TypeOK, Committed, CreateTemp
<1> QED
  BY <1>1, <1>3, <1>4, OneWriter

LEMMA WriteAndSyncStep ==
    ASSUME StorageInv, NEW w \in Writers, WriteAndSync(w)
    PROVE  StorageInv'
<1>1. \A v \in Writers \ {w} : ~Busy(v)
  BY OthersIdle DEF WriteAndSync, At, Busy
<1>2. TypeOK /\ Committed /\ Progress(w) /\ Busy(w) /\ At(w, "write")
  BY DEF StorageInv, WriteAndSync, At, Busy
<1>3. wr' \in [Writers -> Writer] /\ Keeps(w) /\ Progress(w)'
  <2>1. CASE Goto(w, "rename")
    BY <1>2, <2>1 DEF Goto, TypeOK, Writer, PCs, Keeps, WriteAndSync, Progress, Busy, At,
       Writing, Switched
  <2> QED
    BY <1>2, <2>1, AnswerKeeps DEF WriteAndSync
<1>4. TypeOK' /\ Committed'
  BY <1>2, <1>3 DEF TypeOK, Committed, WriteAndSync, DropStaged
<1> QED
  BY <1>1, <1>3, <1>4, OneWriter

LEMMA RenamePromptStep ==
    ASSUME StorageInv, NEW w \in Writers, RenamePrompt(w)
    PROVE  StorageInv'
<1>1. \A v \in Writers \ {w} : ~Busy(v)
  BY OthersIdle DEF RenamePrompt, At, Busy
<1>2. TypeOK /\ Committed /\ Progress(w) /\ Busy(w) /\ At(w, "rename")
  BY DEF StorageInv, RenamePrompt, At, Busy
<1>3. CASE /\ prompts' = prompts \cup {wr[w].cur}
           /\ staging' = [staging EXCEPT ![w] = "none"]
           /\ UNCHANGED litter
           /\ wr' = [wr EXCEPT ![w].pc = "prompts", ![w].cur = NoPrompt]
  <2> DEFINE r == [wr[w] EXCEPT !.pc = "prompts", !.cur = NoPrompt]
  <2>1. wr[w] \in Writer
    BY <1>2 DEF TypeOK
  <2>2. /\ r.pc = "prompts" /\ r.gen = wr[w].gen /\ r.cur = NoPrompt
        /\ r.todo = wr[w].todo /\ r \in Writer
    BY <2>1 DEF Writer, PCs
  <2>3. wr' = [wr EXCEPT ![w] = r] /\ wr \in [Writers -> Writer]
    BY <1>2, <1>3 DEF TypeOK
  <2> HIDE DEF r
  <2>4. wr'[w] = r /\ wr' \in [Writers -> Writer] /\ Keeps(w)
    BY <2>2, <2>3 DEF Keeps
  <2>5. Progress(w)'
    BY <1>2, <1>3, <2>2, <2>4 DEF Progress, Busy, At, Writing, Switched
  <2>6. TypeOK' /\ Committed'
    <3>1. wr[w].cur \in Prompts
      BY <1>2, <2>1 DEF Writer, Progress, At
    <3>2. TypeOK'
      BY <1>2, <1>3, <2>4, <3>1 DEF TypeOK, RenamePrompt
    <3>3. Committed'
      BY <1>2, <1>3 DEF Committed, RenamePrompt
    <3> QED
      BY <3>2, <3>3
  <2> QED
    BY <1>1, <2>4, <2>5, <2>6, OneWriter
<1>4. CASE UNCHANGED prompts /\ DropStaged(w) /\ Answer(w, "error")
  <2>1. wr' \in [Writers -> Writer] /\ Keeps(w) /\ Progress(w)'
    BY <1>2, <1>4, AnswerKeeps
  <2>2. TypeOK' /\ Committed'
    BY <1>2, <1>4, <2>1 DEF TypeOK, Committed, RenamePrompt, DropStaged
  <2> QED
    BY <1>1, <2>1, <2>2, OneWriter
<1> QED
  BY <1>3, <1>4 DEF RenamePrompt

LEMMA OpenTmpStep ==
    ASSUME StorageInv, NEW w \in Writers, OpenTmp(w)
    PROVE  StorageInv'
<1>1. \A v \in Writers \ {w} : ~Busy(v)
  BY OthersIdle DEF OpenTmp, At, Busy
<1>2. TypeOK /\ Committed /\ Progress(w) /\ Busy(w) /\ At(w, "open")
  BY DEF StorageInv, OpenTmp, At, Busy
<1>3. CASE tmp' = Torn /\ wr' = [wr EXCEPT ![w].pc = "fill", ![w].fd = "tmp"]
  <2> DEFINE r == [wr[w] EXCEPT !.pc = "fill", !.fd = "tmp"]
  <2>1. /\ r.pc = "fill" /\ r.gen = wr[w].gen /\ r.cur = wr[w].cur
        /\ r.todo = wr[w].todo /\ r.fd = "tmp" /\ r \in Writer
    BY <1>2 DEF TypeOK, Writer, PCs
  <2>2. wr' = [wr EXCEPT ![w] = r] /\ wr \in [Writers -> Writer]
    BY <1>2, <1>3 DEF TypeOK
  <2> HIDE DEF r
  <2>3. wr'[w] = r /\ wr' \in [Writers -> Writer] /\ Keeps(w)
    BY <2>1, <2>2 DEF Keeps
  <2>4. Progress(w)'
    BY <1>2, <1>3, <2>1, <2>3 DEF Progress, Busy, At, Writing, Switched, OpenTmp
  <2>5. TypeOK' /\ Committed'
    BY <1>2, <1>3, <2>3 DEF TypeOK, Committed, OpenTmp
  <2> QED
    BY <1>1, <2>3, <2>4, <2>5, OneWriter
<1>4. CASE UNCHANGED tmp /\ Answer(w, "error")
  <2>1. wr' \in [Writers -> Writer] /\ Keeps(w) /\ Progress(w)'
    BY <1>2, <1>4, AnswerKeeps
  <2>2. TypeOK' /\ Committed'
    BY <1>2, <1>4, <2>1 DEF TypeOK, Committed, OpenTmp, At
  <2> QED
    BY <1>1, <2>1, <2>2, OneWriter
<1> QED
  BY <1>3, <1>4 DEF OpenTmp

LEMMA FillTmpStep ==
    ASSUME StorageInv, NEW w \in Writers, FillTmp(w)
    PROVE  StorageInv'
<1>1. \A v \in Writers \ {w} : ~Busy(v)
  BY OthersIdle DEF FillTmp, At, Busy
<1>2. TypeOK /\ Committed /\ Progress(w) /\ Busy(w) /\ At(w, "fill")
  BY DEF StorageInv, FillTmp, At, Busy
<1>3. CASE /\ tmp' \in Overwritten(tmp, wr[w].gen) /\ UNCHANGED yaml
           /\ wr' = [wr EXCEPT ![w].pc = "commit", ![w].fd = "none"]
  <2> DEFINE r == [wr[w] EXCEPT !.pc = "commit", !.fd = "none"]
  <2>1. /\ r.pc = "commit" /\ r.gen = wr[w].gen /\ r.cur = wr[w].cur
        /\ r.todo = wr[w].todo /\ r \in Writer
    BY <1>2 DEF TypeOK, Writer, PCs
  <2>2. wr' = [wr EXCEPT ![w] = r] /\ wr \in [Writers -> Writer]
    BY <1>2, <1>3 DEF TypeOK
  <2> HIDE DEF r
  <2>3. wr'[w] = r /\ wr' \in [Writers -> Writer] /\ Keeps(w)
    BY <2>1, <2>2 DEF Keeps
  <2>4. tmp' = wr[w].gen
    BY <1>2, <1>3 DEF Progress, Overwritten
  <2>5. Progress(w)'
    BY <1>2, <2>1, <2>3, <2>4 DEF Progress, Busy, At, Writing, Switched, FillTmp
  <2>6. TypeOK' /\ Committed'
    BY <1>2, <1>3, <2>3, <2>4 DEF TypeOK, Committed, FillTmp, Progress
  <2> QED
    BY <1>1, <2>3, <2>5, <2>6, OneWriter
<1>4. CASE tmp' \in {tmp, Torn} /\ yaml' = yaml /\ Answer(w, "error")
  <2>1. wr' \in [Writers -> Writer] /\ Keeps(w) /\ Progress(w)'
    BY <1>2, <1>4, AnswerKeeps
  <2>2. TypeOK' /\ Committed'
    BY <1>2, <1>4, <2>1 DEF TypeOK, Committed, FillTmp, At
  <2> QED
    BY <1>1, <2>1, <2>2, OneWriter
<1>5. wr[w].fd = "tmp"
  BY <1>2 DEF Progress
<1> QED
  BY <1>3, <1>4, <1>5 DEF FillTmp

LEMMA CommitStep ==
    ASSUME StorageInv, NEW w \in Writers, Commit(w)
    PROVE  StorageInv'
<1>1. \A v \in Writers \ {w} : ~Busy(v)
  BY OthersIdle DEF Commit, At, Busy
<1>2. TypeOK /\ Committed /\ Progress(w) /\ Busy(w) /\ At(w, "commit")
  BY DEF StorageInv, Commit, At, Busy
<1>3. CASE /\ yaml' = tmp /\ tmp' = NoGen
           /\ wr' = [v \in Writers |->
                       IF v = w THEN [wr[w] EXCEPT !.pc = "sidecar"]
                       ELSE [wr[v] EXCEPT !.fd = Renamed(@)]]
  <2> DEFINE r == [wr[w] EXCEPT !.pc = "sidecar"]
  <2>1. /\ r.pc = "sidecar" /\ r.gen = wr[w].gen /\ r.cur = wr[w].cur
        /\ r.todo = wr[w].todo /\ r \in Writer
    BY <1>2 DEF TypeOK, Writer, PCs
  <2>2. wr'[w] = r
    BY <1>3
  <2> HIDE DEF r
  <2>3. \A v \in Writers \ {w} : /\ wr'[v] \in Writer /\ wr'[v].pc = wr[v].pc
                                /\ wr'[v].gen = wr[v].gen /\ wr'[v].reply = wr[v].reply
    BY <1>2, <1>3 DEF TypeOK, Writer, Renamed
  <2>4. wr' \in [Writers -> Writer] /\ Keeps(w)
    <3>1. \A v \in Writers : wr'[v] \in Writer
      BY <2>1, <2>2, <2>3
    <3>2. wr' = [v \in Writers |-> wr'[v]]
      BY <1>3
    <3> QED
      BY <2>3, <3>1, <3>2 DEF Keeps
  <2>5. yaml' \in Gens /\ yaml' = wr[w].gen
    BY <1>2, <1>3 DEF Progress
  <2>6. PromptsOf[wr[w].gen] \subseteq prompts
    <3>1. wr[w].cur = NoPrompt /\ wr[w].todo = {} /\ wr[w].gen \in Gens
      BY <1>2 DEF Progress, At, Writing
    <3> QED
      BY <1>2, <3>1, PromptsOfGen DEF Progress
  <2>7. Progress(w)'
    BY <1>2, <2>1, <2>2, <2>5 DEF Progress, Busy, At, Writing, Switched, Commit
  <2>8. TypeOK' /\ Committed'
    BY <1>2, <1>3, <2>4, <2>5, <2>6, GensAssumption DEF TypeOK, Committed, Commit, Docs
  <2> QED
    BY <1>1, <2>4, <2>7, <2>8, OneWriter
<1>4. CASE UNCHANGED <<yaml, tmp>> /\ Answer(w, "error")
  <2>1. wr' \in [Writers -> Writer] /\ Keeps(w) /\ Progress(w)'
    BY <1>2, <1>4, AnswerKeeps
  <2>2. TypeOK' /\ Committed'
    BY <1>2, <1>4, <2>1 DEF TypeOK, Committed, Commit, At
  <2> QED
    BY <1>1, <2>1, <2>2, OneWriter
<1> QED
  BY <1>3, <1>4 DEF Commit

LEMMA RemoveLegacyManifestStep ==
    ASSUME StorageInv, NEW w \in Writers, RemoveLegacyManifest(w)
    PROVE  StorageInv'
<1>1. \A v \in Writers \ {w} : ~Busy(v)
  BY OthersIdle DEF RemoveLegacyManifest, At, Busy
<1>2. TypeOK /\ Committed /\ Progress(w) /\ Busy(w) /\ At(w, "sidecar")
  BY DEF StorageInv, RemoveLegacyManifest, At, Busy
<1>3. wr' \in [Writers -> Writer] /\ Keeps(w) /\ Progress(w)'
  <2> DEFINE r == [wr[w] EXCEPT !.pc = "readdir"]
  <2>1. /\ r.pc = "readdir" /\ r.gen = wr[w].gen /\ r.cur = wr[w].cur
        /\ r.todo = wr[w].todo /\ r \in Writer
    BY <1>2 DEF TypeOK, Writer, PCs
  <2>2. wr' = [wr EXCEPT ![w] = r] /\ wr \in [Writers -> Writer]
    BY <1>2 DEF TypeOK, RemoveLegacyManifest, Goto
  <2> HIDE DEF r
  <2>3. wr'[w] = r /\ wr' \in [Writers -> Writer] /\ Keeps(w)
    BY <2>1, <2>2 DEF Keeps
  <2>4. Progress(w)'
    BY <1>2, <2>1, <2>3 DEF Progress, Busy, At, Writing, Switched, RemoveLegacyManifest
  <2> QED
    BY <2>3, <2>4
<1>4. yaml \in Gens
  BY <1>2 DEF Progress, At, Switched
<1>5. TypeOK' /\ Committed'
  BY <1>2, <1>3, <1>4, GensAssumption DEF TypeOK, Committed, RemoveLegacyManifest
<1> QED
  BY <1>1, <1>3, <1>5, OneWriter

LEMMA ListPromptsStep ==
    ASSUME StorageInv, NEW w \in Writers, ListPrompts(w)
    PROVE  StorageInv'
<1>1. \A v \in Writers \ {w} : ~Busy(v)
  BY OthersIdle DEF ListPrompts, At, Busy
<1>2. TypeOK /\ Committed /\ Progress(w) /\ Busy(w) /\ At(w, "readdir")
  BY DEF StorageInv, ListPrompts, At, Busy
<1>3. TypeOK' /\ Committed' /\ Keeps(w) /\ Progress(w)'
  <2>1. CASE /\ wr' = [wr EXCEPT ![w].pc = "gc",
                                 ![w].doomed = prompts \ PromptsOf[wr[w].gen]]
             /\ litter' \in {litter, FALSE}
             /\ \E gone \in SUBSET {v \in Writers : staging[v] # "none"} :
                   staging' = [v \in Writers |-> IF v \in gone THEN "none" ELSE staging[v]]
    <3> DEFINE d == prompts \ PromptsOf[wr[w].gen]
               r == [wr[w] EXCEPT !.pc = "gc", !.doomed = d]
    <3>1. d \in SUBSET Prompts /\ d \cap PromptsOf[wr[w].gen] = {}
      BY <1>2 DEF TypeOK
    <3>2. wr' = [wr EXCEPT ![w] = r] /\ wr \in [Writers -> Writer]
      BY <1>2, <2>1 DEF TypeOK
    <3> HIDE DEF d
    <3>3. /\ r.pc = "gc" /\ r.gen = wr[w].gen /\ r.cur = wr[w].cur
          /\ r.todo = wr[w].todo /\ r.doomed = d /\ r \in Writer
      BY <1>2, <3>1 DEF TypeOK, Writer, PCs
    <3> HIDE DEF r
    <3>4. wr'[w] = r /\ wr' \in [Writers -> Writer] /\ Keeps(w)
      BY <3>2, <3>3 DEF Keeps
    <3>5. Progress(w)'
      BY <1>2, <3>1, <3>3, <3>4 DEF Progress, Busy, At, Writing, Switched, ListPrompts
    <3>6. staging' \in [Writers -> {"none", "partial", "whole"}]
      BY <1>2, <2>1 DEF TypeOK
    <3>7. TypeOK' /\ Committed'
      BY <1>2, <2>1, <3>4, <3>6 DEF TypeOK, Committed, ListPrompts
    <3> QED
      BY <3>4, <3>5, <3>7
  <2>2. CASE Answer(w, "ok") /\ UNCHANGED <<staging, litter>>
    <3>1. wr' \in [Writers -> Writer] /\ Keeps(w) /\ Progress(w)'
      BY <1>2, <2>2, AnswerKeeps
    <3> QED
      BY <1>2, <2>2, <3>1 DEF TypeOK, Committed, ListPrompts
  <2> QED
    BY <2>1, <2>2 DEF ListPrompts
<1> QED
  BY <1>1, <1>3, OneWriter

LEMMA RemoveDoomedStep ==
    ASSUME StorageInv, NEW w \in Writers, RemoveDoomed(w)
    PROVE  StorageInv'
<1>1. \A v \in Writers \ {w} : ~Busy(v)
  BY OthersIdle DEF RemoveDoomed, At, Busy
<1>2. TypeOK /\ Committed /\ Progress(w) /\ Busy(w) /\ At(w, "gc")
  BY DEF StorageInv, RemoveDoomed, At, Busy
<1>3. TypeOK' /\ Committed' /\ Keeps(w) /\ Progress(w)'
  <2>1. ASSUME NEW p \in wr[w].doomed, prompts' \in {prompts \ {p}, prompts},
               wr' = [wr EXCEPT ![w].doomed = @ \ {p}]
        PROVE  TypeOK' /\ Committed' /\ Keeps(w) /\ Progress(w)'
    <3> DEFINE r == [wr[w] EXCEPT !.doomed = @ \ {p}]
    <3>1. /\ r.pc = "gc" /\ r.gen = wr[w].gen /\ r.cur = wr[w].cur
          /\ r.todo = wr[w].todo /\ r.doomed = wr[w].doomed \ {p} /\ r \in Writer
      BY <1>2 DEF TypeOK, Writer, At
    <3>2. wr' = [wr EXCEPT ![w] = r] /\ wr \in [Writers -> Writer]
      BY <1>2, <2>1 DEF TypeOK
    <3> HIDE DEF r
    <3>3. wr'[w] = r /\ wr' \in [Writers -> Writer] /\ Keeps(w)
      BY <3>1, <3>2 DEF Keeps
    <3>4. /\ wr[w].gen \in Gens /\ yaml = wr[w].gen /\ wr[w].cur = NoPrompt
          /\ wr[w].todo = {} /\ p \notin PromptsOf[yaml]
      BY <1>2, <2>1 DEF Progress, At, Switched
    <3>5. PromptsOf[yaml] \subseteq prompts'
      BY <1>2, <2>1, <3>4 DEF Committed, Docs
    <3>6. Progress(w)'
      BY <1>2, <3>1, <3>3, <3>4, <3>5 DEF Progress, Busy, At, Writing, Switched, RemoveDoomed
    <3>7. TypeOK'
      BY <1>2, <2>1, <3>3 DEF TypeOK, RemoveDoomed
    <3>8. Committed'
      BY <1>2, <3>5 DEF Committed, RemoveDoomed
    <3> QED
      BY <3>3, <3>6, <3>7, <3>8
  <2>2. CASE Answer(w, "ok") /\ UNCHANGED prompts
    <3>1. wr' \in [Writers -> Writer] /\ Keeps(w) /\ Progress(w)'
      BY <1>2, <2>2, AnswerKeeps
    <3> QED
      BY <1>2, <2>2, <3>1 DEF TypeOK, Committed, RemoveDoomed
  <2> QED
    BY <2>1, <2>2 DEF RemoveDoomed
<1> QED
  BY <1>1, <1>3, OneWriter

LEMMA CrashStep ==
    ASSUME StorageInv, Crash
    PROVE  StorageInv'
<1>1. TypeOK /\ Committed /\ \A w \in Writers : Progress(w)
  BY DEF StorageInv
<1>2. Idle("lost") \in Writer
  BY DEF Idle, Writer, PCs
<1>3. wr' \in [Writers -> Writer]
  BY <1>1, <1>2 DEF Crash, TypeOK
<1>4. TypeOK' /\ Committed'
  BY <1>1, <1>3 DEF TypeOK, Committed, Crash
<1>5. \A w \in Writers : wr'[w].pc = "idle" /\ wr'[w].gen = NoGen
  BY <1>1 DEF Crash, Idle, Progress, Busy, At
<1>6. \A w \in Writers : ~Busy(w)' /\ Progress(w)'
  BY <1>5 DEF Progress, Busy, At, Writing, Switched
<1> QED
  BY <1>4, <1>6 DEF StorageInv, OneAtATime

LEMMA SerialStep == StorageInv /\ [SerialNext]_vars => StorageInv'
<1> SUFFICES ASSUME StorageInv, [SerialNext]_vars PROVE StorageInv'
  OBVIOUS
<1>1. CASE Crash
  BY <1>1, CrashStep
<1>2. ASSUME NEW w \in Writers, \A v \in Writers : ~Busy(v), Begin(w)
      PROVE  StorageInv'
  BY <1>2, BeginStep
<1>3. ASSUME NEW w \in Writers, Work(w)
      PROVE  StorageInv'
  BY <1>3, NextPromptStep, CreateTempStep, WriteAndSyncStep, RenamePromptStep,
     OpenTmpStep, FillTmpStep, CommitStep, RemoveLegacyManifestStep, ListPromptsStep,
     RemoveDoomedStep DEF Work
<1>4. CASE UNCHANGED vars
  BY <1>4 DEF vars, StorageInv, TypeOK, Committed, OneAtATime, Progress, Busy, At
<1> QED
  BY <1>1, <1>2, <1>3, <1>4 DEF SerialNext

LEMMA StorageInvariant == SerialSpec => []StorageInv
BY InitStorage, SerialStep, PTL DEF SerialSpec

(* What is on disk is always a complete document: a reader gets the        *)
(* generation agents.yaml holds, with its prompts and artifacts.           *)
LEMMA ReadBackIsYaml == StorageInv => ReadBack = yaml /\ ReadBack \in Docs \cup {NoGen}
<1> SUFFICES ASSUME StorageInv PROVE ReadBack = yaml /\ ReadBack \in Docs \cup {NoGen}
  OBVIOUS
<1>1. TypeOK /\ Committed
  BY DEF StorageInv
<1>2. ASSUME yaml \in Docs PROVE HasArtifacts(yaml) = (yaml \in WithArtifacts)
  BY <1>1, <1>2, GensAssumption, ArtifactsAssumption
     DEF HasArtifacts, Docs, Committed, TypeOK
<1> QED
  BY <1>1, <1>2, GensAssumption DEF ReadBack, TypeOK, Committed

(* Every state WriteAgentYAML reaches has its type.                        *)
THEOREM StorageTypeCorrect == SerialSpec => []TypeOK
BY StorageInvariant, PTL DEF StorageInv

(* Where updates do not overlap, the garbage collection of one takes no    *)
(* prompt of the committed document, whatever has failed or been cut short *)
(* before.                                                                 *)
THEOREM PromptsPresentHolds == SerialSpec => []PromptsPresent
<1>1. StorageInv => PromptsPresent
  BY DEF StorageInv, Committed, PromptsPresent
<1> QED
  BY <1>1, StorageInvariant, PTL

(* A failed or interrupted update leaves the document losslessly readable. *)
THEOREM AlwaysReadable == SerialSpec => []Readable
<1>1. StorageInv => Readable
  BY ReadBackIsYaml, GensAssumption DEF Readable
<1> QED
  BY <1>1, StorageInvariant, PTL

-----------------------------------------------------------------------------
(* The refinement.                                                         *)

Phases == [w \in Writers |-> UpdatePhase(w)]
GensNow == [w \in Writers |-> wr[w].gen]
Replies == [w \in Writers |-> wr[w].reply]

LEMMA InitMaps == Init => Document!Init
<1> SUFFICES ASSUME Init PROVE Document!Init
  OBVIOUS
<1>1. ReadBack \in Docs \cup {NoGen}
  BY InitStorage, ReadBackIsYaml
<1>2. \A w \in Writers : wr[w].pc = "idle" /\ wr[w].gen = NoGen /\ wr[w].reply = "none"
  BY DEF Init, Idle
<1>3. \A w \in Writers : UpdatePhase(w) = "idle"
  BY <1>2 DEF UpdatePhase, Busy, At
<1> QED
  BY <1>1, <1>2, <1>3 DEF Document!Init

(* What a step changes, seen through the mapping.                          *)
LEMMA ReadBackNext == StorageInv' => ReadBack' = yaml'
<1>1. (StorageInv => ReadBack = yaml)'
  BY ReadBackIsYaml, PTL
<1> QED
  BY <1>1

LEMMA OthersMap ==
    ASSUME NEW w \in Writers, Keeps(w)
    PROVE  /\ Phases' = [Phases EXCEPT ![w] = UpdatePhase(w)']
           /\ GensNow' = [GensNow EXCEPT ![w] = wr'[w].gen]
           /\ Replies' = [Replies EXCEPT ![w] = wr'[w].reply]
<1>1. \A v \in Writers \ {w} : UpdatePhase(v)' = UpdatePhase(v)
  BY DEF UpdatePhase, Busy, At, Keeps
<1>2. Phases' = [Phases EXCEPT ![w] = UpdatePhase(w)']
  BY <1>1 DEF Phases
<1>3. GensNow' = [GensNow EXCEPT ![w] = wr'[w].gen]
  BY DEF GensNow, Keeps
<1>4. Replies' = [Replies EXCEPT ![w] = wr'[w].reply]
  BY DEF Replies, Keeps
<1> QED
  BY <1>2, <1>3, <1>4

LEMMA AnswerMaps ==
    ASSUME StorageInv, NEW w \in Writers, NEW reply \in {"ok", "error"},
           Answer(w, reply), yaml' = yaml, StorageInv'
    PROVE  Document!Finish(w, UpdatePhase(w), reply)
<1>1. Keeps(w) /\ wr'[w] = Idle(reply)
  BY AnswerKeeps DEF StorageInv
<1>2. ReadBack' = ReadBack
  BY ReadBackIsYaml, ReadBackNext
<1>3. UpdatePhase(w)' = "idle" /\ wr'[w].gen = NoGen /\ wr'[w].reply = reply
  BY <1>1 DEF UpdatePhase, Busy, At, Idle
<1>4. Phases[w] = UpdatePhase(w)
  BY DEF Phases
<1> QED
  BY <1>1, <1>2, <1>3, <1>4, OthersMap DEF Document!Finish, Phases, GensNow, Replies

(* A step within a phase is a stutter.                                     *)
LEMMA InnerMaps ==
    ASSUME StorageInv, NEW w \in Writers, Keeps(w), yaml' = yaml, StorageInv',
           wr'[w].gen = wr[w].gen, wr'[w].reply = wr[w].reply,
           UpdatePhase(w)' = UpdatePhase(w)
    PROVE  UNCHANGED Document!dvars
<1>1. ReadBack' = ReadBack
  BY ReadBackIsYaml, ReadBackNext
<1>2. Phases' = Phases
  BY OthersMap DEF Phases
<1>3. GensNow' = GensNow /\ Replies' = Replies
  BY OthersMap DEF GensNow, Replies
<1> QED
  BY <1>1, <1>2, <1>3 DEF Document!dvars, Phases, GensNow, Replies

(* Staging the prompts and the temporary file is invisible to a reader,    *)
(* and so is the cleaning up after the commit.                             *)
LEMMA UpdatingMaps ==
    ASSUME StorageInv, StorageInv', NEW w \in Writers,
           \/ NextPrompt(w) \/ CreateTemp(w) \/ WriteAndSync(w) \/ RenamePrompt(w)
           \/ OpenTmp(w) \/ FillTmp(w)
    PROVE  Document!Finish(w, "updating", "error") \/ UNCHANGED Document!dvars
<1>1. TypeOK /\ Progress(w)
  BY DEF StorageInv
<1>2. wr[w].pc \in Staging \cup {"open", "fill"}
  BY DEF Staging, NextPrompt, CreateTemp, WriteAndSync, RenamePrompt, OpenTmp, FillTmp, At
<1>3. UpdatePhase(w) = "updating"
  BY <1>2 DEF UpdatePhase, Busy, At, Staging
<1>4. yaml' = yaml
  BY <1>1 DEF NextPrompt, CreateTemp, WriteAndSync, RenamePrompt, OpenTmp, FillTmp, Progress
<1>5. CASE Answer(w, "error")
  BY <1>3, <1>4, <1>5, AnswerMaps
<1>6. ASSUME ~Answer(w, "error")
      PROVE  /\ Keeps(w) /\ wr'[w].gen = wr[w].gen /\ wr'[w].reply = wr[w].reply
             /\ wr'[w].pc \in Staging \cup Writing
  <2>1. wr \in [Writers -> Writer] /\ wr[w] \in Writer
    BY <1>1 DEF TypeOK
  <2>2. CASE NextPrompt(w)
    <3>1. wr[w].pc = "prompts"
      BY <2>2 DEF NextPrompt, At
    <3>2. CASE Goto(w, "open")
      BY <2>1, <3>2 DEF Goto, Keeps, Writing, Writer
    <3>3. ASSUME NEW p, wr' = [wr EXCEPT ![w].todo = @ \ {p}]
          PROVE  /\ Keeps(w) /\ wr'[w].gen = wr[w].gen /\ wr'[w].reply = wr[w].reply
                 /\ wr'[w].pc = wr[w].pc
      BY <2>1, <3>3 DEF Keeps, Writer
    <3>4. ASSUME NEW p,
                 wr' = [wr EXCEPT ![w].todo = @ \ {p}, ![w].cur = p, ![w].pc = "create"]
          PROVE  /\ Keeps(w) /\ wr'[w].gen = wr[w].gen /\ wr'[w].reply = wr[w].reply
                 /\ wr'[w].pc = "create"
      BY <2>1, <3>4 DEF Keeps, Writer
    <3> QED
      BY <1>6, <2>2, <3>1, <3>2, <3>3, <3>4 DEF NextPrompt, Staging, Writing
  <2>3. CASE CreateTemp(w)
    BY <1>6, <2>1, <2>3 DEF CreateTemp, Goto, Keeps, Staging, Writing, Writer
  <2>4. CASE WriteAndSync(w)
    BY <1>6, <2>1, <2>4 DEF WriteAndSync, Goto, Keeps, Staging, Writing, Writer
  <2>5. CASE RenamePrompt(w)
    BY <1>6, <2>1, <2>5 DEF RenamePrompt, Keeps, Staging, Writing, Writer
  <2>6. CASE OpenTmp(w)
    BY <1>6, <2>1, <2>6 DEF OpenTmp, Keeps, Staging, Writing, Writer
  <2>7. CASE FillTmp(w)
    BY <1>6, <2>1, <2>7 DEF FillTmp, Keeps, Staging, Writing, Writer
  <2> QED
    BY <2>2, <2>3, <2>4, <2>5, <2>6, <2>7
<1>7. ASSUME ~Answer(w, "error") PROVE UpdatePhase(w)' = "updating"
  BY <1>6, <1>7 DEF UpdatePhase, Busy, At, Staging, Writing
<1> QED
  BY <1>3, <1>4, <1>5, <1>6, <1>7, InnerMaps

LEMMA SwitchedMaps ==
    ASSUME StorageInv, StorageInv', NEW w \in Writers,
           RemoveLegacyManifest(w) \/ ListPrompts(w) \/ RemoveDoomed(w)
    PROVE  Document!Finish(w, "switched", "ok") \/ UNCHANGED Document!dvars
<1>1. wr \in [Writers -> Writer] /\ wr[w] \in Writer
  BY DEF StorageInv, TypeOK
<1>2. wr[w].pc \in Switched /\ yaml' = yaml
  BY DEF Switched, RemoveLegacyManifest, ListPrompts, RemoveDoomed, At
<1>3. UpdatePhase(w) = "switched"
  BY <1>2 DEF UpdatePhase, Busy, At, Switched
<1>4. CASE Answer(w, "ok")
  BY <1>2, <1>3, <1>4, AnswerMaps
<1>5. ASSUME ~Answer(w, "ok")
      PROVE  /\ Keeps(w) /\ wr'[w].gen = wr[w].gen /\ wr'[w].reply = wr[w].reply
             /\ wr'[w].pc \in Switched
  <2>1. CASE RemoveLegacyManifest(w)
    BY <1>1, <2>1 DEF RemoveLegacyManifest, Goto, Keeps, Switched, Writer
  <2>2. CASE ListPrompts(w)
    <3>1. wr' = [wr EXCEPT ![w].pc = "gc",
                           ![w].doomed = prompts \ PromptsOf[wr[w].gen]]
      BY <1>5, <2>2 DEF ListPrompts
    <3> DEFINE d == prompts \ PromptsOf[wr[w].gen]
    <3>2. wr' = [wr EXCEPT ![w].pc = "gc", ![w].doomed = d]
      BY <3>1
    <3> HIDE DEF d
    <3> QED
      BY <1>1, <3>2 DEF Keeps, Switched, Writer
  <2>3. CASE RemoveDoomed(w)
    BY <1>1, <1>2, <1>5, <2>3 DEF RemoveDoomed, Keeps, Switched, Writer
  <2> QED
    BY <2>1, <2>2, <2>3
<1>6. ASSUME ~Answer(w, "ok") PROVE UpdatePhase(w)' = "switched"
  BY <1>5, <1>6 DEF UpdatePhase, Busy, At, Switched
<1> QED
  BY <1>2, <1>3, <1>4, <1>5, <1>6, InnerMaps

(* The rename of agents.yaml is the switch.                                *)
LEMMA CommitMaps ==
    ASSUME StorageInv, StorageInv', NEW w \in Writers, Commit(w)
    PROVE  Document!Switch(w) \/ Document!Finish(w, "updating", "error")
<1>1. /\ wr \in [Writers -> Writer] /\ wr[w] \in Writer /\ tmp = wr[w].gen
      /\ wr[w].pc = "commit"
  BY DEF StorageInv, TypeOK, Progress, Commit, At
<1>2. UpdatePhase(w) = "updating"
  BY <1>1 DEF UpdatePhase, Busy, At
<1>3. CASE UNCHANGED <<yaml, tmp>> /\ Answer(w, "error")
  BY <1>2, <1>3, AnswerMaps
<1>4. CASE /\ yaml' = tmp
           /\ wr' = [v \in Writers |->
                       IF v = w THEN [wr[w] EXCEPT !.pc = "sidecar"]
                       ELSE [wr[v] EXCEPT !.fd = Renamed(@)]]
  <2>1. /\ wr'[w].pc = "sidecar" /\ wr'[w].gen = wr[w].gen
        /\ wr'[w].reply = wr[w].reply
    BY <1>1, <1>4 DEF Writer
  <2>2. Keeps(w)
    BY <1>1, <1>4 DEF Keeps, Writer
  <2>3. UpdatePhase(w)' = "switched"
    BY <2>1 DEF UpdatePhase, Busy, At
  <2>4. ReadBack' = wr[w].gen
    BY <1>1, <1>4, ReadBackNext
  <2>5. Phases[w] = "updating" /\ GensNow[w] = wr[w].gen
    BY <1>2 DEF Phases, GensNow
  <2>6. Phases' = [Phases EXCEPT ![w] = "switched"]
    BY <2>2, <2>3, OthersMap
  <2>7. GensNow' = GensNow /\ Replies' = Replies
    BY <2>1, <2>2, OthersMap DEF GensNow, Replies
  <2> QED
    BY <2>4, <2>5, <2>6, <2>7 DEF Document!Switch, Phases, GensNow, Replies
<1> QED
  BY <1>3, <1>4 DEF Commit

LEMMA BeginMaps ==
    ASSUME StorageInv, StorageInv', NEW w \in Writers, \A v \in Writers : ~Busy(v),
           Begin(w)
    PROVE  Document!Begin(w)
<1>1. PICK g \in Gens :
         wr' = [wr EXCEPT ![w] = [Idle("none") EXCEPT
                   !.pc = "prompts", !.gen = g, !.todo = PromptsOf[g]]]
  BY DEF Begin
<1>2. wr \in [Writers -> Writer]
  BY DEF StorageInv, TypeOK
<1>3. wr'[w].pc = "prompts" /\ wr'[w].gen = g /\ wr'[w].reply = "none" /\ Keeps(w)
  BY <1>1, <1>2 DEF Idle, Keeps
<1>4. UpdatePhase(w)' = "updating"
  BY <1>3 DEF UpdatePhase, Busy, At
<1>5. \A v \in Writers : Phases[v] = "idle"
  BY DEF Phases, UpdatePhase, Busy, At
<1>6. ReadBack' = ReadBack
  BY ReadBackIsYaml, ReadBackNext DEF Begin
<1>7. g \in Docs
  BY DEF Docs
<1> QED
  BY <1>3, <1>4, <1>5, <1>6, <1>7, OthersMap
     DEF Document!Begin, Phases, GensNow, Replies

LEMMA CrashMaps ==
    ASSUME StorageInv, StorageInv', Crash
    PROVE  Document!Crash
<1>1. ReadBack' = ReadBack
  BY ReadBackIsYaml, ReadBackNext DEF Crash
<1>2. \A w \in Writers :
         wr'[w].pc = "idle" /\ wr'[w].gen = NoGen
         /\ wr'[w].reply = IF UpdatePhase(w) = "idle" THEN wr[w].reply ELSE "lost"
  <2> SUFFICES ASSUME NEW w \in Writers
               PROVE  wr'[w].pc = "idle" /\ wr'[w].gen = NoGen
                      /\ wr'[w].reply = IF UpdatePhase(w) = "idle" THEN wr[w].reply
                                                                 ELSE "lost"
    OBVIOUS
  <2>1. wr'[w] = IF Busy(w) THEN Idle("lost") ELSE wr[w]
    BY DEF Crash
  <2>2. Progress(w)
    BY DEF StorageInv
  <2> QED
    BY <2>1, <2>2 DEF Idle, Progress, Busy, At, UpdatePhase
<1>3. Phases' = [w \in Writers |-> "idle"]
  BY <1>2 DEF Phases, UpdatePhase, Busy, At
<1>4. GensNow' = [w \in Writers |-> NoGen]
  BY <1>2 DEF GensNow
<1>5. Replies' = [w \in Writers |-> IF Phases[w] = "idle" THEN Replies[w] ELSE "lost"]
  BY <1>2 DEF Replies, Phases
<1> QED
  BY <1>1, <1>3, <1>4, <1>5 DEF Document!Crash, Phases, GensNow, Replies

LEMMA StepMaps ==
    StorageInv /\ StorageInv' /\ [SerialNext]_vars => [Document!Next]_(Document!dvars)
<1> SUFFICES ASSUME StorageInv, StorageInv', [SerialNext]_vars
             PROVE  [Document!Next]_(Document!dvars)
  OBVIOUS
<1>1. CASE Crash
  BY <1>1, CrashMaps DEF Document!Next
<1>2. ASSUME NEW w \in Writers, \A v \in Writers : ~Busy(v), Begin(w)
      PROVE  Document!Next
  BY <1>2, BeginMaps DEF Document!Next
<1>3. ASSUME NEW w \in Writers, Work(w)
      PROVE  [Document!Next]_(Document!dvars)
  <2>1. CASE Commit(w)
    BY <2>1, CommitMaps DEF Document!Next
  <2>2. CASE RemoveLegacyManifest(w) \/ ListPrompts(w) \/ RemoveDoomed(w)
    BY <2>2, SwitchedMaps DEF Document!Next
  <2>3. CASE \/ NextPrompt(w) \/ CreateTemp(w) \/ WriteAndSync(w) \/ RenamePrompt(w)
             \/ OpenTmp(w) \/ FillTmp(w)
    BY <2>3, UpdatingMaps DEF Document!Next
  <2> QED
    BY <1>3, <2>1, <2>2, <2>3 DEF Work
<1>4. CASE UNCHANGED vars
  BY <1>4 DEF vars, Document!dvars, ReadBack, HasArtifacts, UpdatePhase, Busy, At
<1> QED
  BY <1>1, <1>2, <1>3, <1>4 DEF SerialNext

(* WriteAgentYAML implements the document with a single switch point, for  *)
(* updates that do not overlap.                                            *)
THEOREM ImplementsDocument == SerialSpec => SwitchesOnce
<1>1. SerialSpec => [][SerialNext]_vars /\ Init
  BY PTL DEF SerialSpec
<1> QED
  BY <1>1, InitMaps, StepMaps, StorageInvariant, PTL DEF SwitchesOnce, Document!Spec

=============================================================================
