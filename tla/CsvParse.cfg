SPECIFICATION CsvSpec
CONSTANTS
    Symbols <- MCSymbols
    Files <- MCFiles
    MaxStem = 4
    MaxName = 6
    MaxColumns = 9
    Numeral <- MCNumeral
    InferRows = 2
    MaxRows = 4
    MaxErrors = 2
INVARIANTS
    RoundTrip
    NamesUsable
    
    
CHECK_DEADLOCK FALSE
