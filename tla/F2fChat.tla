------------------------------ MODULE F2fChat ------------------------------
(***************************************************************************)
(* The peer-to-peer chat of lesson8/f2f_chat: every peer runs one window   *)
(* (mainwindow.cpp) and, while it is in the chat, one ChatNetwork object   *)
(* (chatnetwork.cpp).  Peers find each other with UDP broadcasts:          *)
(*                                                                         *)
(*     1/whos here/<nick>/<id>   broadcast on entry                        *)
(*     1/hi/<nick>/<id>          the answer, to the sender only            *)
(*     1/bye/<nick>/<id>         broadcast on exit                         *)
(*     2/<text>/<nick>/<id>      a message, to one peer or to everybody    *)
(*                                                                         *)
(* A packet is the sequence of its sections, the pieces between the        *)
(* slashes.  A nick or a text is a sequence of sections too: the program   *)
(* accepts a slash in either and does not escape it, so the sections of    *)
(* such a packet are shifted when it is read.                              *)
(***************************************************************************)
EXTENDS Integers, Sequences, FiniteSets

Blank    == ""
WhosHere == "whos here"

CONSTANTS
    Words,       \* what stands between two slashes of a packet
    Peers,       \* the hosts of the local network; a host is its address
    Ids,         \* values of id_program: the time of day HHmmss, which two
                 \* objects built in the same second share
    Nicks,       \* what a user may type as nick, as sections
    Texts,       \* what a user may type as a message, as sections
    MaxEntries,  \* bound: how often peers enter the chat, in all
    MaxRoster,   \* bound: the length of vecUser
    MaxTexts,    \* bound: messages peers send, in all
    MaxBurst     \* bound: datagrams drained by one slotReadMessages

ASSUME PeersAssumption == Peers # {}
ASSUME WordsAssumption ==
    {Blank, "1", "2", WhosHere, "hi", "bye"} \cup Ids \subseteq Words
ASSUME TypedAssumption == Nicks \cup Texts \subseteq Seq(Words)
ASSUME BoundsAssumption ==
    {MaxEntries, MaxRoster, MaxTexts, MaxBurst} \subseteq Nat

VARIABLES
    phase,       \* the window: "out", "in" the chat, or "gone" (closed, crashed)
    user_name,   \* ChatNetwork::user_name, the nick
    id_program,  \* ChatNetwork::id_program
    vecUser,     \* ChatNetwork::vecUser: address, nick and id of known users
    listUsers,   \* ChatNetwork::listUsers: the labels of known users
    contacts,    \* the rows of lstContacts in the window
    shown,       \* the received messages the window shows
    flight,      \* flight[p]: datagrams on their way to p or waiting in its
                 \* socket; one that stays for ever is a lost one
    announced,   \* history: the <<nick, id>> a host's packets have carried
    farewells,   \* history: the ids that have said bye
    entries,     \* entries made so far, for MaxEntries
    texts        \* messages sent so far, for MaxTexts

chat == <<user_name, id_program, vecUser, listUsers>>
vars == <<phase, user_name, id_program, vecUser, listUsers, contacts, shown,
          flight, announced, farewells, entries, texts>>

-----------------------------------------------------------------------------
(* Packets and the network *)

Packet(type, message, nick, id) == <<type>> \o message \o nick \o <<id>>

\* QString::section("/", k - 1, k - 1): empty when there is no such section
Section(data, k) == IF k \in DOMAIN data THEN data[k] ELSE Blank

\* The user a reader takes the packet to be from
Claimed(data) == <<Section(data, 3), Section(data, 4)>>

Datagram == [from : Peers, data : Seq(Words)]

\* A broadcast reaches every host, the sender's own socket included
Broadcast(p, data) ==
    [q \in Peers |-> flight[q] \cup {[from |-> p, data |-> data]}]

Unicast(net, p, q, data) ==
    [net EXCEPT ![q] = @ \cup {[from |-> p, data |-> data]}]

\* What the while loop of slotReadMessages may find pending in one go
Bursts(p) == {burst \in SUBSET flight[p] :
                 burst # {} /\ Cardinality(burst) <= MaxBurst}

\* What SendMessage sends for a peer in the chat
Control(p, word) == Packet("1", <<word>>, user_name[p], id_program[p])

TextWithoutId(p, text) == Packet("2", text, user_name[p], Blank)  \* mutant
Text(p, text) == Packet("2", text, user_name[p], id_program[p])

-----------------------------------------------------------------------------
(* The roster: vecUser, and listUsers beside it *)

User  == [address : Peers, nikname : Words, program_id : Words]
Label == Words \X Words

LabelWithoutId(user) == user.nikname  \* mutant
\* nikname + " (" + id + ")"
LabelOf(user) == <<user.nikname, user.program_id>>

\* How many copies the loop of AddUser may push before it returns: it pushes
\* one for every entry it passes before the first with this id, and after
\* Len(vec) of them it meets its own first copy.
CopiesPushed(vec, id) ==
    {n \in 1..Len(vec) : \A i \in 1..n : vec[i].program_id # id}

\* mutant: erase(it, end())
ErasedToEnd(vec, id) ==
    {i \in 1..Len(vec) : \E j \in 1..i : vec[j].program_id = id}

\* The positions slotDisconnected erases: after an erase the iterator steps
\* over the entry that moved into the gap.
Erased(vec, id) ==
    LET erased[i \in 0..Len(vec)] ==
            i > 0 /\ vec[i].program_id = id /\ ~erased[i - 1]
    IN  {i \in 1..Len(vec) : vec[i].program_id = id /\ ~erased[i - 1]}

\* The positions that remain, in order
Survivors(n, erased) ==
    {keep \in UNION {[1..k -> (1..n) \ erased] : k \in 0..n} :
        /\ \A i \in (1..n) \ erased : \E j \in DOMAIN keep : keep[j] = i
        /\ \A i, j \in DOMAIN keep : i < j => keep[i] < keep[j]}

Pick(seq, keep) == [i \in DOMAIN keep |-> seq[keep[i]]]

-----------------------------------------------------------------------------
Init ==
    /\ phase      = [p \in Peers |-> "out"]
    /\ user_name  = [p \in Peers |-> <<>>]
    /\ id_program = [p \in Peers |-> Blank]
    /\ vecUser    = [p \in Peers |-> <<>>]
    /\ listUsers  = [p \in Peers |-> <<>>]
    /\ contacts   = [p \in Peers |-> <<>>]
    /\ shown      = [p \in Peers |-> {}]
    /\ flight     = [p \in Peers |-> {}]
    /\ announced  = [p \in Peers |-> {}]
    /\ farewells  = {}
    /\ entries    = 0
    /\ texts      = 0

\* on_pbtnEnterInChat_clicked: a new ChatNetwork, then Listen and Mailing.
\* An empty nick is refused.  Listen ignores the result of bind: a peer whose
\* bind failed is one that never reads.
Enter(p) ==
    /\ phase[p] = "out"
    /\ entries < MaxEntries
    /\ \E nick \in Nicks, id \in Ids :
          LET data == Packet("1", <<WhosHere>>, nick, id)
          IN  /\ nick # <<Blank>>
              /\ user_name'  = [user_name EXCEPT ![p] = nick]
              /\ id_program' = [id_program EXCEPT ![p] = id]
              /\ announced'  = [announced EXCEPT ![p] = @ \cup {Claimed(data)}]
              /\ flight'     = Broadcast(p, data)
    /\ phase'     = [phase EXCEPT ![p] = "in"]
    /\ vecUser'   = [vecUser EXCEPT ![p] = <<>>]
    /\ listUsers' = [listUsers EXCEPT ![p] = <<>>]
    /\ entries'   = entries + 1
    /\ UNCHANGED <<contacts, shown, farewells, texts>>

\* The ChatNetwork object is no more; the row list of the window is empty
Forget(p) ==
    /\ user_name'  = [user_name EXCEPT ![p] = <<>>]
    /\ id_program' = [id_program EXCEPT ![p] = Blank]
    /\ vecUser'    = [vecUser EXCEPT ![p] = <<>>]
    /\ listUsers'  = [listUsers EXCEPT ![p] = <<>>]
    /\ contacts'   = [contacts EXCEPT ![p] = <<>>]

\* Undefined behaviour in a handler ends the process
Crash(p) ==
    /\ phase' = [phase EXCEPT ![p] = "gone"]
    /\ Forget(p)
    /\ UNCHANGED <<shown, announced, farewells, entries, texts>>

-----------------------------------------------------------------------------
(* The handlers of a datagram.  net is the network once the burst is drained *)

Ignore(net) ==
    /\ flight' = net
    /\ UNCHANGED <<phase, chat, contacts, shown, announced, farewells, entries, texts>>

\* A sequence with n copies of x behind it
Pushed(seq, n, x) ==
    [i \in 1..(Len(seq) + n) |-> IF i <= Len(seq) THEN seq[i] ELSE x]

\* vecUser and listUsers grow by n copies of the user
Push(p, client, n) ==
    /\ vecUser'   = [vecUser EXCEPT ![p] = Pushed(@, n, client)]
    /\ listUsers' = [listUsers EXCEPT ![p] = Pushed(@, n, LabelOf(client))]
    /\ UNCHANGED <<phase, user_name, id_program, shown, announced, farewells, entries,
                   texts>>

\* Our own datagram, or one of the user in the first position
AddKnown(p, id, net) ==
    /\ \/ id = id_program[p]
       \/ vecUser[p] # <<>> /\ vecUser[p][1].program_id = id
    /\ Ignore(net)

AddContactsEarly(p) == contacts' = [contacts EXCEPT ![p] = listUsers[p]]  \* mutant
\* MainWindow::AddContacts shows listUsers anew
AddContacts(p) == contacts' = [contacts EXCEPT ![p] = listUsers'[p]]

\* mutant: the answer carries the id of the asker
AnswerWithTheirId(p, client, net) ==
    Unicast(net, p, client.address,
            Packet("1", <<"hi">>, user_name[p], client.program_id))
Answer(p, client, net) == Unicast(net, p, client.address, Control(p, "hi"))

\* The first user: newUser makes the window show it (AddContacts), and a
\* "whos here" is answered
AddFirst(p, client, back_send, net) ==
    /\ client.program_id # id_program[p]
    /\ vecUser[p] = <<>>
    /\ MaxRoster > 0
    /\ Push(p, client, 1)
    /\ AddContacts(p)
    /\ flight' = IF back_send THEN Answer(p, client, net) ELSE net

\* A later user: every pass of the loop moves the iterator and the end of
\* vecUser by one, so that the loop never meets the end: it returns at an
\* entry with this id, without newUser and without an answer.  push_back may
\* reallocate vecUser under the iterator, which then reads freed memory: the
\* loop stops after fewer copies or the process crashes.
AddLater(p, client, net) ==
    /\ client.program_id # id_program[p]
    /\ \E n \in CopiesPushed(vecUser[p], client.program_id) :
          /\ Len(vecUser[p]) + n <= MaxRoster
          /\ Push(p, client, n)
    /\ flight' = net
    /\ UNCHANGED contacts

AddCrash(p, id, net) ==
    /\ id # id_program[p]
    /\ CopiesPushed(vecUser[p], id) # {}
    /\ flight' = net
    /\ Crash(p)

AddUser(p, address, nikname, id, back_send, net) ==
    LET client == [address |-> address, nikname |-> nikname, program_id |-> id]
    IN  \/ AddKnown(p, id, net)
        \/ AddFirst(p, client, back_send, net)
        \/ AddLater(p, client, net)
        \/ AddCrash(p, id, net)

\* Each erase emits userDisconnect, and DeleteContacts shows listUsers anew
Disconnect(p, id, net) ==
    LET erased == Erased(vecUser[p], id)
    IN  /\ erased # {}
        /\ \E keep \in Survivors(Len(vecUser[p]), erased) :
              /\ vecUser'   = [vecUser EXCEPT ![p] = Pick(@, keep)]
              /\ listUsers' = [listUsers EXCEPT ![p] = Pick(@, keep)]
        /\ AddContacts(p)
        /\ flight' = net
        /\ UNCHANGED <<phase, user_name, id_program, shown, announced,
                       farewells, entries, texts>>

DisconnectUnknown(p, id, net) == Erased(vecUser[p], id) = {} /\ Ignore(net)

\* After an erase at the end the iterator is past the end and the loop reads
\* on from there: it may end well (Disconnect) or crash
DisconnectCrash(p, id, net) ==
    /\ Len(vecUser[p]) \in Erased(vecUser[p], id)
    /\ flight' = net
    /\ Crash(p)

slotDisconnected(p, id, net) ==
    \/ Disconnect(p, id, net)
    \/ DisconnectUnknown(p, id, net)
    \/ DisconnectCrash(p, id, net)

ShowText(p, from, message, nikname, id, net) ==
    /\ id # id_program[p]
    /\ shown' = [shown EXCEPT ![p] = @ \cup
                    {[from |-> from, label |-> <<nikname, id>>, text |-> message]}]
    /\ flight' = net
    /\ UNCHANGED <<phase, chat, contacts, announced, farewells, entries, texts>>

OwnText(p, id, net) == id = id_program[p] /\ Ignore(net)

-----------------------------------------------------------------------------
\* The switch of slotReadMessages.  The type of a packet of this program is 1
\* or 2, which makes the condition before the switch true.
Dispatch(p, d, net) ==
    LET type    == Section(d.data, 1)
        message == Section(d.data, 2)
        nikname == Section(d.data, 3)
        id      == Section(d.data, 4)
    IN  \/ /\ type = "1" /\ message \in {WhosHere, "hi"}
           /\ AddUser(p, d.from, nikname, id, message = WhosHere, net)
        \/ /\ type = "1" /\ message = "bye"
           /\ slotDisconnected(p, id, net)
        \/ /\ type = "2"
           /\ \/ ShowText(p, d.from, message, nikname, id, net)
              \/ OwnText(p, id, net)

\* Every pending datagram is drained, only the last one is looked at
slotReadMessages(p) ==
    /\ phase[p] = "in"
    /\ \E burst \in Bursts(p) : \E last \in burst :
          Dispatch(p, last, [flight EXCEPT ![p] = @ \ burst])

\* on_pbtnSendMessage_clicked: to the user in the selected row of the window,
\* at the address in the same position of vecUser
SendPersonal(p) ==
    /\ phase[p] = "in"
    /\ texts < MaxTexts
    /\ \E row \in DOMAIN contacts[p], text \in Texts :
          /\ text # <<Blank>>
          /\ flight' = Unicast(flight, p, vecUser[p][row].address, Text(p, text))
    /\ texts' = texts + 1
    /\ UNCHANGED <<phase, chat, contacts, shown, announced, farewells, entries>>

\* on_pbtnMailing_clicked
SendToAll(p) ==
    /\ phase[p] = "in"
    /\ texts < MaxTexts
    /\ \E text \in Texts :
          /\ text # <<Blank>>
          /\ flight' = Broadcast(p, Text(p, text))
    /\ texts' = texts + 1
    /\ UNCHANGED <<phase, chat, contacts, shown, announced, farewells, entries>>

\* on_pbtnExitChat_clicked: bye, then CloseSockets and the delete of
\* closeConnections.  The destructor looks at the sockets CloseSockets has
\* deleted when they were open: the process may survive it or not.
ExitChat(p) ==
    /\ phase[p] = "in"
    /\ flight' = Broadcast(p, Control(p, "bye"))
    /\ farewells' = farewells \cup {Section(Control(p, "bye"), 4)}
    /\ \E after \in {"out", "gone"} : phase' = [phase EXCEPT ![p] = after]
    /\ Forget(p)
    /\ UNCHANGED <<shown, announced, entries, texts>>

\* Closing the window says no bye
CloseWindow(p) ==
    /\ phase[p] # "gone"
    /\ flight' = flight
    /\ Crash(p)

Next == \E p \in Peers :
    \/ Enter(p)
    \/ slotReadMessages(p)
    \/ SendPersonal(p)
    \/ SendToAll(p)
    \/ ExitChat(p)
    \/ CloseWindow(p)

Spec == Init /\ [][Next]_vars

-----------------------------------------------------------------------------
(* Properties *)

\* The types of the variables
TypeOK ==
    /\ phase      \in [Peers -> {"out", "in", "gone"}]
    /\ user_name  \in [Peers -> Seq(Words)]
    /\ id_program \in [Peers -> Words]
    /\ vecUser    \in [Peers -> Seq(User)]
    /\ listUsers  \in [Peers -> Seq(Label)]
    /\ contacts   \in [Peers -> Seq(Label)]
    /\ shown      \in [Peers -> SUBSET [from : Peers, label : Label, text : Words]]
    /\ flight     \in [Peers -> SUBSET Datagram]
    /\ announced  \in [Peers -> SUBSET Label]
    /\ farewells  \subseteq Words
    /\ entries    \in Nat
    /\ texts      \in Nat

\* listUsers holds the labels of vecUser, position by position
LabelsInStep == \A p \in Peers :
    /\ Len(listUsers[p]) = Len(vecUser[p])
    /\ \A i \in DOMAIN vecUser[p] : listUsers[p][i] = LabelOf(vecUser[p][i])

\* The user shown in row r of the window is the one in position r of vecUser,
\* whose address a personal message for that row goes to: the label list, the
\* vector and the window are kept in step by separate code, and the window is
\* not refreshed on every change of the other two (AddUser, slotDisconnected,
\* AddContacts, on_pbtnSendMessage_clicked).
RowAddressesShownUser == \A p \in Peers :
    \A row \in DOMAIN contacts[p] :
        /\ row \in DOMAIN vecUser[p]
        /\ contacts[p][row] = LabelOf(vecUser[p][row])

\* The host at the address of a known user has announced that very nick and
\* id, whatever was lost, delayed or overtaken and whoever answered whom
\* (AddUser, SendMessage).
GenuineRoster == \A p \in Peers : \A i \in DOMAIN vecUser[p] :
    LabelOf(vecUser[p][i]) \in announced[vecUser[p][i].address]

\* A message without a slash is shown under a nick and an id that the host it
\* came from has announced (slotReadMessages, SendMessage).
PlainTextsAttributed ==
    (\A text \in Texts : Len(text) = 1) =>
        \A p \in Peers : \A m \in shown[p] : m.label \in announced[m.from]

\* Although newUser is not emitted for every user, the window is never empty
\* while somebody is known: the first user is signalled and every removal
\* shows the rest (AddUser, slotDisconnected, DeleteContacts).
SomebodyVisible == \A p \in Peers : vecUser[p] # <<>> => contacts[p] # <<>>

\* The step takes users with this id only, and of neighbours with it at least
\* one, from the roster of p; the others stay in their order
TakesOnly(p, id) ==
    \E keep \in [DOMAIN vecUser'[p] -> DOMAIN vecUser[p]] :
        LET Stays(i) == \E j \in DOMAIN keep : keep[j] = i
            Has(i)   == vecUser[p][i].program_id = id
        IN  /\ \A i, j \in DOMAIN keep : i < j => keep[i] < keep[j]
            /\ \A i \in DOMAIN keep : vecUser'[p][i] = vecUser[p][keep[i]]
            /\ \A i \in DOMAIN vecUser[p] : Stays(i) \/ Has(i)
            /\ \A i \in 2..Len(vecUser[p]) :
                  Has(i - 1) /\ Has(i) => ~(Stays(i - 1) /\ Stays(i))

\* What a bye may do to the roster although it erases from the vector it
\* walks: the users who go have one id, which has said bye, and all the users
\* with other ids stay, in their order.  The walk may miss copies of the user,
\* but never two that stand next to each other (slotDisconnected).
ByeRemovesOneId == [][\A p \in Peers :
    Len(vecUser'[p]) < Len(vecUser[p]) /\ phase'[p] = "in" =>
        \E id \in farewells : TakesOnly(p, id)]_vars

\* The roster read as an address book: the set of users in vecUser
Known(vec) == {[address |-> vec[i].address, label |-> LabelOf(vec[i])] :
                  i \in DOMAIN vec}

Book == INSTANCE AddressBook WITH
    Hosts <- Peers, Labels <- Label, book <- [p \in Peers |-> Known(vecUser[p])]

\* The chat implements the address book: whatever the loops over vecUser, the
\* bursts and the shifted sections do, a user enters a roster only as its host
\* announced it and leaves it only after a bye with its id (AddUser,
\* slotDisconnected, on_pbtnExitChat_clicked).
ImplementsAddressBook == Book!Spec

\* chatnetwork.h:32 says of newUser that it is emitted when a new user is
\* added, and mainwindow.cpp:64 that it adds the user to the contact list: a
\* longer vecUser is a shown one.  AddUser returns before the emit for every
\* user but the first.
NewUserSignalled == [][\A p \in Peers :
    Len(vecUser'[p]) > Len(vecUser[p]) => contacts'[p] = listUsers'[p]]_vars
=============================================================================
