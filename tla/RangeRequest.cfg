SPECIFICATION Spec
CONSTANTS
    MaxChunk = 3
    Blank = Blank
    Infinite = Infinite
    FileSize <- Sizes
    Position <- Positions
INVARIANT ServesNamedBytes
INVARIANT ResponseFits
INVARIANT PlayedInOrder
PROPERTY PlaysToTheEnd
