------------------------- MODULE DeploymentDocument -------------------------
(***************************************************************************)
(* What AgentStorage promises of a deployment's document: updates, one at  *)
(* a time, each of which either switches what a reader gets from one       *)
(* generation to the next at a single point, or leaves it alone.  An       *)
(* update answers "ok" only after its switch and "error" only without it;  *)
(* one that a crash interrupts may or may not have switched.               *)
(***************************************************************************)
CONSTANTS Writers, Gens, NoGen

VARIABLES
    doc,    \* the generation a reader gets
    phase,  \* of each update: idle, updating (not switched), switched
    gen,    \* the generation each update is to write
    reply   \* the last answer of each writer

dvars == <<doc, phase, gen, reply>>

Init ==
    /\ doc \in Gens \cup {NoGen}
    /\ phase = [w \in Writers |-> "idle"]
    /\ gen = [w \in Writers |-> NoGen]
    /\ reply = [w \in Writers |-> "none"]

Begin(w) ==
    /\ \A v \in Writers : phase[v] = "idle"
    /\ phase' = [phase EXCEPT ![w] = "updating"]
    /\ \E g \in Gens : gen' = [gen EXCEPT ![w] = g]
    /\ reply' = [reply EXCEPT ![w] = "none"]
    /\ doc' = doc

Switch(w) ==
    /\ phase[w] = "updating"
    /\ phase' = [phase EXCEPT ![w] = "switched"]
    /\ doc' = gen[w]
    /\ UNCHANGED <<gen, reply>>

Finish(w, from, answer) ==
    /\ phase[w] = from
    /\ phase' = [phase EXCEPT ![w] = "idle"]
    /\ gen' = [gen EXCEPT ![w] = NoGen]
    /\ reply' = [reply EXCEPT ![w] = answer]
    /\ doc' = doc

(* A crash takes every update in progress with it.                         *)
Crash ==
    /\ phase' = [w \in Writers |-> "idle"]
    /\ gen' = [w \in Writers |-> NoGen]
    /\ reply' = [w \in Writers |-> IF phase[w] = "idle" THEN reply[w] ELSE "lost"]
    /\ doc' = doc

Next ==
    \/ \E w \in Writers :
          \/ Begin(w)
          \/ Switch(w)
          \/ Finish(w, "switched", "ok")
          \/ Finish(w, "updating", "error")
    \/ Crash

Spec == Init /\ [][Next]_dvars
=============================================================================
