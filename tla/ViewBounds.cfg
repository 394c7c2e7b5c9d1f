SPECIFICATION SumSpec
CONSTANTS
    temp = temp
    wind = wind
    first = first
    second = second
    Variables <- TwoVariables
    Files <- TwoFiles
    Inputs = {"open", "apply", "cancel", "click", "palette", "variable", "wheel", "axes", "file"}
    MaxResolvers = 2
    MaxGeneration = 2
    MaxSwitches = 1
    Datasets <- TenVariables
    Rectangles <- ThreeRectangles
    MaxPresses = 4
    Missing = Missing
    Grids <- SevenGrids
    Wanted <- SomeBounds
    NoNumber = NoNumber
    Error = Error
    Openings <- MCOpenings
    Formula <- MCFormula
    Listing <- MCListing
    MaxFormulas = 2
INVARIANTS ZoomIsRead ZoomIsOfSelection ZoomIsOfPlane
    PlaneInOrderIsOfView CoordinatesOfPlane PlotReadsTheCell
    WindowIsOfRegion RefusedForAReason
    CellsAreOfOperands TimelineIsOneDataset LabelIsOfData
CHECK_DEADLOCK FALSE
