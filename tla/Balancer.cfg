\* Two nodes whose slots and scores can be told apart and reversed.
CONSTANTS
    n1 = n1
    n2 = n2
    Nodes = {n1, n2}
    None = None
    MaxSlots = 2
    MaxScore = 1
    RRPeriod = 2
SPECIFICATION SelectionSpec
INVARIANTS SelectionJustified
PROPERTIES BestChosen
