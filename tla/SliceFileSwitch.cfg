SPECIFICATION FairSpec
CONSTANTS
    NumSources = 2
    temp = temp
    wind = wind
    box = box
    NoVariable = NoVariable
    FullView = FullView
    Variables <- AllVariables
    Owned <- WindInFirst
    Plane <- TempOnly
    Uniform <- AllVariables
    Favourite <- FavouriteTemp
    Labels <- InterleavedLabels
    Boxes <- OneBox
    Inputs = {"time", "file", "click"}
    MaxRequests = 3
    MaxGeneration = 4
    MaxEpochs = 1
INVARIANTS AnswerIsLatest
