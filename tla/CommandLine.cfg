SPECIFICATION Spec
CONSTANTS
    Numbers <- MCNumbers
    Unlimited = 64
    SizeModulus = 1073741824
    ExistingFile <- MCFiles
    WordsOfPath <- MCWordsOfPath
    block_size = "2000000"
    Parsers <- MCParsers
    root = "tool"
    Invocations <- MCInvocations
INVARIANTS
    TypeOK
    WordsConserved
    EndsAsDeclared
    TaskArrives
PROPERTIES
    NotOverridden
    EveryParseEnds
