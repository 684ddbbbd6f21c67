CONSTANTS
    MaxFiles = 3
    MaxEntry = 1
    MaxTotal = 2
    Creates = {p1}
    Graphs <- MCGraphs
    ToolFiles <- MCToolFiles
    Archives <- MCArchives
    Strays <- MCStrays
    Nothing = Nothing
    Blank = Blank
    GivenLimits <- MCGiven
    DefaultLimits <- MCDefault
SPECIFICATION Spec
PROPERTY FailureKeepsPrevious
