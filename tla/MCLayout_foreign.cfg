CONSTANTS
    Sizes <- OneSize
    Foreign <- EightPerCluster
SPECIFICATION LayoutSpec
INVARIANTS
    CountsClusters
