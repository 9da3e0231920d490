SPECIFICATION Spec
CONSTANTS
    Programs = {"istream"}
    MaxSize = 5
    LineMax = 3
    Block = 2
    ReadAhead = 2
    Cap = 1
INVARIANTS PrematureIsTrue
