SPECIFICATION Spec
CONSTANTS
    Absent = Absent
    Reserved = {"__auth"}
    Unnameable = {"a.b"}
    BadIds = {"NUL"}
    Reading <- WordsRead
INVARIANTS
    FiltersAgree
    PagesAgree
    MergesAreLocal
    CreateIsMergeOverNothing
    RulesAreLocal
    StrangersNeedOpenRules
    AliasKeepsItsWord
    ReportTellsTheTruth
    LinkOpensItsFile
    SendsWhatItPromises
    IndexesAreReal
