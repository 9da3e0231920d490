SPECIFICATION FairSpec
CONSTANTS
    Programs = {"c", "cxx", "istream", "py"}
    MaxSize = 6
    LineMax = 3
    Block = 2
    ReadAhead = 2
    Cap = 2
INVARIANTS NoMutualWait AnswerBeforeNextLine FalseAlarmByEmptyLine ServerOutlivesClient
PROPERTIES SessionEnds
