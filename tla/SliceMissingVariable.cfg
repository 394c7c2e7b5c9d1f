SPECIFICATION FairSpec
CONSTANTS
    NumSources = 2
    temp = temp
    wind = wind
    box = box
    NoVariable = NoVariable
    FullView = FullView
    Variables <- AllVariables
    Owned <- WindInFirst
    Plane <- WindInFirst
    Uniform <- AllVariables
    Favourite <- FavouriteTemp
    Labels <- InterleavedLabels
    Boxes <- OneBox
    Inputs = {"time", "variable", "zoom", "reload", "reset", "play", "palette", "bounds"}
    MaxRequests = 3
    MaxGeneration = 8
    MaxEpochs = 0
INVARIANTS LoadingIsBacked
