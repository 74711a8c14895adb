CONSTANTS
    KMax = 56403
    MinBlocks = 16
    SymbolSize = 2
    MaxEsi = 16
    File <- MCFile
    Table2 <- MCTable2
    Rnd <- MCRnd
    Attempts <- MCEmptyForward
    Layouts <- MCLayouts
    Lengths <- MCLengths
    Sizes <- MCSizes
SPECIFICATION Spec
INVARIANT AppliesOnlyItsOps
