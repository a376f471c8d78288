SPECIFICATION Spec
CONSTANTS
    a = a
    b = b
    c1 = c1
    c2 = c2
    Names <- MCTwoNames
    Callers <- MCOneCaller
    Kinds = {"plain"}
    MaxChanges = 1
    MaxApi = 1
PROPERTIES
    SkipsOnlyAfterSuccess
