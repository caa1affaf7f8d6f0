CONSTANTS
    a = a
    b = b
    c = c
    sorry = sorry
    no = no
    Keys <- Queries
    Vals <- Answers
    MaxSize = 2
SPECIFICATION Spec
INVARIANTS
    TypeOK
    MapMatchesList
PROPERTIES
    ImplementsLru
