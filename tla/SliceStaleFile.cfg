SPECIFICATION FairSpec
CONSTANTS
    NumSources = 2
    temp = temp
    wind = wind
    box = box
    NoVariable = NoVariable
    FullView = FullView
    Variables <- AllVariables
    Owned <- SameEverywhere
    Plane <- SameEverywhere
    Uniform <- AllVariables
    Favourite <- FavouriteTemp
    Labels <- InterleavedLabels
    Boxes <- OneBox
    Inputs = {"file"}
    MaxRequests = 2
    MaxGeneration = 8
    MaxEpochs = 1
PROPERTIES OlderNeverReplaces
