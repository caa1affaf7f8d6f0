CONSTANTS
    Log <- Logarithms
    DictLines <- Entries
    UserDicts <- NoneOrTwo
    ModelLines <- Model
    IdfLines <- Idfs
    StopLines <- Stops
    Sentences <- Strings
    Methods = {"small", "mp", "hmm", "mix", "full", "query", "level"}
    SmallLen = 2
    QueryLen = 2
    UserWords <- Added
    TopN = 2
SPECIFICATION Spec
INVARIANTS
    TypeOK
    TextCovered
    EntriesFound
    PositionsMatch
    HeaviestPath
    LikeliestLabels
    UserRunesKept
PROPERTIES
    CutAdvances
