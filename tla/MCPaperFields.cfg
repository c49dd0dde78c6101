SPECIFICATION RowSpec
CONSTANTS
    doi = doi
    pmid = pmid
    Null = Null
    Preprints = {"b"}
    WorkDois = {doi}
    Statements <- MCStatements
    FieldOf <- MCFieldOf
    Notices <- MCNotices
    Natures = {"retraction", "correction", "reinstatement"}
    Horizon = 2
    LastDay = 1
INVARIANTS OrderDoesNotMatter AbstractIsTheBest StatusIsSeverest RowIsConsistent
