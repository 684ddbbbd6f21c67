SPECIFICATION SerialSpec
CONSTANTS
    g1 = g1
    g2 = g2
    p1 = p1
    p2 = p2
    p3 = p3
    Writers = {w1, w2}
    Gens <- MCGens
    Legacy = legacy
    NoGen = noGen
    Torn = torn
    Prompts <- MCPrompts
    NoPrompt = noPrompt
    PromptsOf <- MCPromptsOf
    WithArtifacts <- MCWithArtifacts
INVARIANTS
    TypeOK
    Readable
PROPERTY SwitchesOnce
