\* One embed transaction at a time; edits and deletions at any moment.
SPECIFICATION StoreSpec
CONSTANTS
    Missing = Missing
    Blank = blank
    Papers = {p1, p2}
    Processes = {w1}
    Texts = {blank, a, b}
    MaxVersion = 3
    Serial = TRUE
INVARIANTS
    StoreTypeOK
    NoStrandedVector
PROPERTIES
    NeverBackToPending
