SPECIFICATION Spec
CONSTANTS
    WORD = 64
    LOCATION = 10
    Disks <- MCAllDisks
    Sizes = {1, 2, 5}
INVARIANTS TypeOK ListingComplete ListedIsFound PiecesMakeTheFile
