SPECIFICATION FairSpec
CONSTANTS
    None = None
    Children = {c1, c2}
    MaxCrashes = 2
    MaxFaults = 2
    MaxCommits = 1
INVARIANTS TypeOK ReportTrue AdmittedWhole RefusalExplained
PROPERTIES Atomic JournalSettles
