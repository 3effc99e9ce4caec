SPECIFICATION MonitorSpec
CONSTANTS
    ZeroCutOff = 3
    MaxReadings = 7
    FloorCutOff = 20
    Weights <- MCWeights
    Scenes <- MCScenes
    Memories <- MCCalm
PROPERTY InwardPassageCounted
