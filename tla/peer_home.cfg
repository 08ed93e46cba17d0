SPECIFICATION Spec
CONSTANTS
    h1 = h1
    h2 = h2
    Paths = {h1, h2}
    Edited = {h1}
    MaxDelete = 0
    MaxVersion = 3
    MaxFails = 1
    MaxLists = 1
    Modes = {"both", "push", "pull"}
    Policies = {TRUE}
    Profiles = {"fresh", "established"}
    Faults = {}
INVARIANTS NoEditLost
PROPERTIES RecordedSticks DeletionsAreUsers
