---------------------------- MODULE AddressBook ----------------------------
(***************************************************************************)
(* What the roster of the f2f chat promises, without packets, loops or     *)
(* windows: every host keeps a book of the users it knows, each an address *)
(* and a label <<nick, id>>.  A book only gets labels that the host at that*)
(* address has announced, one at a time; a known user leaves a book only   *)
(* when its id has said farewell, and then no user with another id does.   *)
(***************************************************************************)
EXTENDS FiniteSets

CONSTANTS Hosts,   \* the hosts, which are their addresses
          Labels   \* pairs of a nick and an id

VARIABLES announced,  \* announced[h]: the labels h has given itself
          farewells,  \* the ids somebody has said farewell with
          book        \* book[h]: the users h knows

vars == <<announced, farewells, book>>

Init ==
    /\ announced = [h \in Hosts |-> {}]
    /\ farewells = {}
    /\ book = [h \in Hosts |-> {}]

\* h joins under a label, knowing nobody
Announce(h) ==
    /\ \E label \in Labels : announced' = [announced EXCEPT ![h] = @ \cup {label}]
    /\ book' = [book EXCEPT ![h] = {}]
    /\ UNCHANGED farewells

\* h learns a label of g
Learn(h, g) ==
    /\ \E label \in announced[g] :
          book' = [book EXCEPT ![h] = @ \cup {[address |-> g, label |-> label]}]
    /\ UNCHANGED <<announced, farewells>>

\* h drops users with an id that has said farewell
Drop(h) ==
    /\ \E id \in farewells :
       \E gone \in SUBSET {user \in book[h] : user.label[2] = id} :
          book' = [book EXCEPT ![h] = @ \ gone]
    /\ UNCHANGED <<announced, farewells>>

\* h leaves, with a farewell for an id of its own or silently
Leave(h) ==
    /\ book' = [book EXCEPT ![h] = {}]
    /\ \/ \E label \in announced[h] : farewells' = farewells \cup {label[2]}
       \/ UNCHANGED farewells
    /\ UNCHANGED announced

Next == \E h \in Hosts :
    \/ Announce(h)
    \/ \E g \in Hosts : Learn(h, g)
    \/ Drop(h)
    \/ Leave(h)

Spec == Init /\ [][Next]_vars
=============================================================================
