SPECIFICATION BooksSpec
CONSTANTS
    Orgs = {o1, o2}
    Projects = {p1, p2}
    Slugs = {"site"}
    Handlers = {h1, h2}
    Briefs = {t1}
    Entries = {e1, e2}
    MaxTransfers = 2
INVARIANTS BriefHistory UsageFollowsProject
SYMMETRY Symmetry
