\* One generation: at most four events and the one that ends it.
SPECIFICATION Spec
CONSTANTS
    p = p
    s = s
    m1 = m1
    m2 = m2
    None = None
    Items <- MCItems
    Pieces <- MCPieces
    Spaces <- MCSpaces
    Arguments <- MCArguments
    Models <- MCModels
    Outputs <- MCOutputs
    MaxPosition = 1
    MaxEvents = 4
SYMMETRY ModelSymmetry
CHECK_DEADLOCK FALSE
INVARIANTS TypeOK EnvelopeIsShown AdmissibleIsShown CompleteAgrees
