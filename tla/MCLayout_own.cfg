CONSTANTS
    Sizes <- MCSizes
    Foreign <- ZeroFields
SPECIFICATION LayoutSpec
INVARIANTS
    LayoutTypeOK
    FatCovers
    DataOnDisk
PROPERTIES
    GeometryKept
