----------------------------- MODULE MCF2fChat -----------------------------
(* Small instances of F2fChat for TLC *)
EXTENDS F2fChat, TLC

CONSTANTS p1, p2, p3, id1, id2, id3

Plain   == <<"ann">>
Slashed == <<"bob", "x">>      \* the nick "bob/x"

MCWords == {"", "1", "2", "whos here", "hi", "bye", "ann", "bob", "x", "hello"}
              \cup Ids

PlainNicks == {Plain}
AllNicks   == {Plain, Slashed}
NoTexts    == {}
PlainTexts == {<<"hello">>, <<"">>}

PeerSymmetry      == Permutations(Peers)
PeerAndIdSymmetry == Permutations(Peers) \cup Permutations(Ids)
=============================================================================
