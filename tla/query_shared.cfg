CONSTANTS
    Workers = {w1, w2}
    Inputs <- FewInputs
    Corpus <- Lines
    Segments <- Segmented
    Garbage = {1, 9}
    Trim = 2
    Apology = Apology
SPECIFICATION Spec
INVARIANTS
    DictionaryWordFound
