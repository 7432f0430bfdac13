SPECIFICATION Spec
CONSTANTS
    p1 = p1
    p2 = p2
    p3 = p3
    id1 = id1
    id2 = id2
    id3 = id3
    Words <- MCWords
    Peers = {p1, p2}
    Ids = {id1, id2}
    Nicks <- AllNicks
    Texts <- PlainTexts
    MaxEntries = 2
    MaxRoster = 3
    MaxTexts = 2
    MaxBurst = 2
SYMMETRY PeerAndIdSymmetry
INVARIANTS
    GenuineRoster
    PlainTextsAttributed
PROPERTIES
    ImplementsAddressBook
CHECK_DEADLOCK FALSE
