SPECIFICATION SumSpec
CONSTANTS
    Files <- FileVariables
    Formulas <- OneFormula
    Matches <- OneWord
    MaxQuery = 2
    Pairs <- MapAndSection
    Named <- NameAxes
    Displayed <- RoleAxes
    Levels <- TwoLevels
    Height <- OneLongName
    ListHeight = 2
    None = None
    Terminals <- ThreeTerminals
    Lengths = {1, 3}
    NumTimes = 7
    NumEntries = 6
    NumRuns = 12
    Nothing = Nothing
INVARIANTS HighlightShown ClickIsOfControl ClickClosesTheTop
PROPERTY SelectionIsRequested
