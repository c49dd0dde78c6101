SPECIFICATION Spec
CONSTANTS
    None = None
    Absent = Absent
    Papers = {1, 2}
    Records = {1, 2}
    SourceOf <- MCSourceOf
    Sends <- MCSends
    Legacy <- MCLegacy
    NoDoi = {}
    Unfilterable = {2}
    BatchSize = 1
    MaxVersion = 1
    Kinds = {"fields", "titles", "dates", "uncorroborated", "scope", "readmit", "enrich"}
INVARIANT PassIsComplete
 
