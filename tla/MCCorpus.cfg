\* Two records over three papers.
SPECIFICATION Spec
SYMMETRY Symmetry
CONSTANTS
    d1 = d1
    d2 = d2
    pmid = pmid
    arxiv = arxiv
    t1 = t1
    t2 = t2
    None = None
    Gone = Gone
    Rejected = Rejected
    short = short
    ShortTitle = short
    Papers = {p1, p2, p3}
    Dois = {d1, d2}
    OtherIds = {pmid, arxiv}
    Strength <- Ranks
    Records = {r1, r2}
    Titles = {t1, short}
    Candidates <- Feed
    MaxRecords = 1
    PageSize = 2
INVARIANTS
    TypeOK
    CanonicalDoisAgree
    EveryPaperIsFindable
    RecordsLeadBack
PROPERTIES
    LinksAreKept
