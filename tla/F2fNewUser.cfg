SPECIFICATION Spec
CONSTANTS
    p1 = p1
    p2 = p2
    p3 = p3
    id1 = id1
    id2 = id2
    id3 = id3
    Words <- MCWords
    Peers = {p1, p2, p3}
    Ids = {id1, id2, id3}
    Nicks <- PlainNicks
    Texts <- NoTexts
    MaxEntries = 3
    MaxRoster = 3
    MaxTexts = 0
    MaxBurst = 1
SYMMETRY PeerAndIdSymmetry
PROPERTIES
    NewUserSignalled
CHECK_DEADLOCK FALSE
