SPECIFICATION FairSpec
CONSTANTS
    MaxViewers = 2
    MaxPictures = 2
    FailingCaptures = {1}
INVARIANTS
    ListedIffOpen
    FramesInOrder
PROPERTIES
    ChangeArrives
