CONSTANTS
    KMax = 56403
    MinBlocks = 16
    SymbolSize = 2
    MaxEsi = 16
    File <- MCFile
    Table2 <- MCTable2
    Rnd <- MCRnd
    Attempts <- MCAttempts
    Layouts <- MCLayouts
    Lengths <- MCLengths
    Sizes <- MCSizes
SPECIFICATION Spec
INVARIANTS SingularOnly ScheduleTracksMatrix NoAbort LayoutCoversObject BothEndsAgree DamageIsSeen TablesAreAField
PROPERTIES DecodedIsSource
