SPECIFICATION FairMergeSpec
CONSTANTS
    n1 = n1
    n2 = n2
    Names = {n1, n2}
    Others = {1, 2}
    NoDoc = NoDoc
    Absent = Absent
    Odd = Odd
    Text = Text
    MaxStops = 1
    Races = {}
INVARIANTS MergedOnBoth
PROPERTIES EntriesKept Converges
