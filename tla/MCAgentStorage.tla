--------------------------- MODULE MCAgentStorage ---------------------------
(* Two generations that share one prompt and differ in another; one of     *)
(* them declares artifacts.                                                *)
EXTENDS AgentStorage

CONSTANTS g1, g2, p1, p2, p3

MCGens == {g1, g2}
MCPrompts == {p1, p2, p3}
MCPromptsOf == [g \in Docs |-> CASE g = g1 -> {p1, p2}
                                 [] g = g2 -> {p2, p3}
                                 [] OTHER -> {}]
MCWithArtifacts == {g1, Legacy}
=============================================================================
