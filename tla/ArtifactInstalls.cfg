CONSTANTS
    MaxFiles = 3
    MaxEntry = 1
    MaxTotal = 2
    Creates = {p1, p2}
    Graphs <- MCGraphs
    ToolFiles <- MCToolFiles
    Archives <- MCArchives
    Strays <- MCStrays
    Nothing = Nothing
    Blank = Blank
    GivenLimits <- MCGiven
    DefaultLimits <- MCDefault
SPECIFICATION FairSpec
INVARIANT TypeOK
INVARIANT VerifiedOnly
INVARIANT MarkerTrue
PROPERTY ClosureInstalled
PROPERTY BlameIsTrue
PROPERTY Answered
