CONSTANTS
    Clusters = {"blue"}
    Configs <- MCConfigs
    Rows <- MCRows
    MaxRows = 3
SPECIFICATION Spec
INVARIANTS TypeOK RetriesAreBounded ListIsTheMatchingRows ChoiceIsJustified
