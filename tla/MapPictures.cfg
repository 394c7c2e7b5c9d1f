SPECIFICATION SumSpec
CONSTANTS
    temp = temp
    wind = wind
    Variables <- TwoVariables
    MaxPlots = 3
    MaxSelections = 2
    Styles <- TwoStyles
    MaxReads = 3
    MaxChanges = 3
    Nothing = Nothing
    Planes <- FourPlanes
    Canvases <- TwoCanvases
    Nowhere = Nowhere
INVARIANTS MapIsOfSlice
CHECK_DEADLOCK FALSE
