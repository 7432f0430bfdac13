--------------------------- MODULE F2fChatProofs ---------------------------
(***************************************************************************)
(* Proofs about F2fChat for every value of its constants.                  *)
(***************************************************************************)
EXTENDS F2fChat, SequenceTheorems, TLAPS

-----------------------------------------------------------------------------
(* Packets and sections *)

LEMMA PacketType ==
    ASSUME NEW type \in Words, NEW message \in Seq(Words),
           NEW nick \in Seq(Words), NEW id \in Words
    PROVE  Packet(type, message, nick, id) \in Seq(Words)
BY DEF Packet

LEMMA SectionType ==
    ASSUME NEW data \in Seq(Words), NEW k
    PROVE  Section(data, k) \in Words
BY WordsAssumption DEF Section

\* The third and fourth section of a packet with a one-section message
ShiftedClaim(nick, id) == <<Section(nick \o <<id>>, 1), Section(nick \o <<id>>, 2)>>

\* The sections of a packet with a one-section message: whatever the nick, it
\* is the type, the message, and from the third on those of the nick and the id
LEMMA ControlSections ==
    ASSUME NEW type \in Words, NEW word \in Words,
           NEW nick \in Seq(Words), NEW id \in Words
    PROVE  /\ Section(Packet(type, <<word>>, nick, id), 1) = type
           /\ Section(Packet(type, <<word>>, nick, id), 2) = word
           /\ Claimed(Packet(type, <<word>>, nick, id)) = ShiftedClaim(nick, id)
<1> DEFINE head == <<type>> \o <<word>>
           tail == nick \o <<id>>
<1>1. /\ head \in Seq(Words) /\ Len(head) = 2
      /\ head[1] = type /\ head[2] = word
  OBVIOUS
<1>2. tail \in Seq(Words)
  OBVIOUS
<1>3. Packet(type, <<word>>, nick, id) = head \o tail
  BY ConcatAssociative DEF Packet
<1> HIDE DEF head, tail
<1>4. /\ Len(head \o tail) = Len(head) + Len(tail)
      /\ \A i \in 1..(Len(head) + Len(tail)) :
            (head \o tail)[i] = IF i <= Len(head) THEN head[i] ELSE tail[i - Len(head)]
      /\ head \o tail \in Seq(Words)
  BY <1>1, <1>2, ConcatProperties, Zenon
<1>5. /\ Len(head \o tail) = 2 + Len(tail)
      /\ \A i \in 1..(2 + Len(tail)) :
            (head \o tail)[i] = IF i <= 2 THEN head[i] ELSE tail[i - 2]
  BY <1>1, <1>4
<1>6. /\ (head \o tail)[1] = type
      /\ (head \o tail)[2] = word
      /\ DOMAIN (head \o tail) = 1..(2 + Len(tail))
      /\ \A k \in 1..Len(tail) : (head \o tail)[2 + k] = tail[k]
  BY <1>1, <1>2, <1>4, <1>5
<1>7. /\ Section(head \o tail, 1) = type
      /\ Section(head \o tail, 2) = word
  BY <1>2, <1>6 DEF Section
<1>8. /\ Section(head \o tail, 3) = Section(tail, 1)
      /\ Section(head \o tail, 4) = Section(tail, 2)
  BY <1>2, <1>6 DEF Section
<1> QED
  BY <1>3, <1>7, <1>8 DEF Claimed, ShiftedClaim, tail

-----------------------------------------------------------------------------
(* The network and the roster *)

Network == [Peers -> SUBSET Datagram]

LEMMA BroadcastType ==
    ASSUME flight \in Network, NEW p \in Peers, NEW data \in Seq(Words)
    PROVE  Broadcast(p, data) \in Network
BY DEF Network, Broadcast, Datagram

LEMMA UnicastType ==
    ASSUME NEW net \in Network, NEW p \in Peers, NEW q \in Peers,
           NEW data \in Seq(Words)
    PROVE  Unicast(net, p, q, data) \in Network
BY DEF Network, Unicast, Datagram

\* What is left of a roster is a sequence of some of its entries
LEMMA PickType ==
    ASSUME NEW S, NEW seq \in Seq(S), NEW erased,
           NEW keep \in Survivors(Len(seq), erased)
    PROVE  /\ Pick(seq, keep) \in Seq(S)
           /\ DOMAIN Pick(seq, keep) = DOMAIN keep
           /\ \A i \in DOMAIN keep : /\ keep[i] \in DOMAIN seq
                                     /\ Pick(seq, keep)[i] = seq[keep[i]]
<1>1. PICK k \in 0..Len(seq) : keep \in [1..k -> (1..Len(seq)) \ erased]
  BY DEF Survivors
<1>2. \A i \in 1..k : keep[i] \in 1..Len(seq)
  BY <1>1
<1>3. DOMAIN keep = 1..k /\ k \in Nat
  BY <1>1
<1>4. Pick(seq, keep) = [i \in 1..k |-> seq[keep[i]]]
  BY <1>3 DEF Pick
<1> QED
  BY <1>2, <1>3, <1>4

-----------------------------------------------------------------------------
(* The inductive invariant of the types and of RowAddressesShownUser       *)
(* Selecting in listUsers with the positions kept of vecUser needs the two *)
(* in step, and addressing a row of the window needs it to be a row of     *)
(* vecUser: the three hold together or not at all.                         *)

Shape == TypeOK /\ LabelsInStep /\ RowAddressesShownUser

\* The window of a peer that is not in the chat lists nobody, so that a new
\* ChatNetwork starts in step with it
WindowCleared == \A p \in Peers :
    phase[p] # "in" => contacts[p] = <<>> /\ vecUser[p] = <<>>

LEMMA ShapeInit == Init => Shape
BY WordsAssumption
   DEF Init, Shape, TypeOK, LabelsInStep, RowAddressesShownUser

LEMMA ForgetShape ==
    ASSUME Shape, NEW p \in Peers, Forget(p),
           phase' \in [Peers -> {"out", "in", "gone"}], flight' \in Network,
           farewells' \subseteq Words, UNCHANGED <<shown, announced, entries, texts>>
    PROVE  Shape'
<1>1. TypeOK'
  <2>1. /\ user_name' \in [Peers -> Seq(Words)]
        /\ id_program' \in [Peers -> Words]
    BY WordsAssumption DEF Shape, Forget, TypeOK
  <2>2. /\ vecUser' \in [Peers -> Seq(User)]
        /\ listUsers' \in [Peers -> Seq(Label)]
        /\ contacts' \in [Peers -> Seq(Label)]
    BY DEF Shape, Forget, TypeOK
  <2> QED
    BY <2>1, <2>2 DEF Shape, TypeOK, Network
<1>2. LabelsInStep'
  BY DEF Shape, Forget, TypeOK, LabelsInStep
<1>3. RowAddressesShownUser'
  BY DEF Shape, Forget, TypeOK, RowAddressesShownUser
<1> QED
  BY <1>1, <1>2, <1>3 DEF Shape

LEMMA CrashShape ==
    ASSUME Shape, NEW p \in Peers, flight' \in Network, Crash(p)
    PROVE  Shape'
<1>1. phase' \in [Peers -> {"out", "in", "gone"}] /\ farewells' \subseteq Words
  BY DEF Shape, TypeOK, Crash
<1> QED
  BY <1>1, ForgetShape DEF Crash

LEMMA IgnoreShape ==
    ASSUME Shape, NEW net \in Network, Ignore(net)
    PROVE  Shape'
BY DEF Shape, TypeOK, LabelsInStep, RowAddressesShownUser, Ignore, chat, Network

\* A push of either kind: vecUser and listUsers grow in step, what was there
\* stays
LEMMA PushShape ==
    ASSUME Shape, NEW p \in Peers, NEW client \in User, NEW n \in Nat,
           Push(p, client, n), flight' \in Network
    PROVE  /\ contacts' \in [Peers -> Seq(Label)] => TypeOK'
           /\ vecUser' \in [Peers -> Seq(User)]
           /\ listUsers' \in [Peers -> Seq(Label)]
           /\ LabelsInStep'
           /\ \A q \in Peers : \A i \in DOMAIN vecUser[q] :
                 i \in DOMAIN vecUser'[q] /\ vecUser'[q][i] = vecUser[q][i]
<1> DEFINE label == LabelOf(client)
<1>1. label \in Label
  BY DEF LabelOf, User, Label
<1>2. /\ vecUser[p] \in Seq(User) /\ listUsers[p] \in Seq(Label)
      /\ vecUser \in [Peers -> Seq(User)] /\ listUsers \in [Peers -> Seq(Label)]
      /\ Len(listUsers[p]) = Len(vecUser[p])
  BY DEF Shape, TypeOK, LabelsInStep
<1>3. /\ vecUser'[p] \in Seq(User)
      /\ Len(vecUser'[p]) = Len(vecUser[p]) + n
      /\ \A i \in 1..Len(vecUser'[p]) : vecUser'[p][i] =
            IF i <= Len(vecUser[p]) THEN vecUser[p][i] ELSE client
  <2>1. vecUser'[p] = Pushed(vecUser[p], n, client)
    BY <1>2 DEF Push
  <2> QED
    BY <1>2, <2>1 DEF Pushed
<1>4. /\ listUsers'[p] \in Seq(Label)
      /\ Len(listUsers'[p]) = Len(listUsers[p]) + n
      /\ \A i \in 1..Len(listUsers'[p]) : listUsers'[p][i] =
            IF i <= Len(listUsers[p]) THEN listUsers[p][i] ELSE label
  <2>1. listUsers'[p] = Pushed(listUsers[p], n, label)
    BY <1>2 DEF Push
  <2> HIDE DEF label
  <2> QED
    BY <1>1, <1>2, <2>1 DEF Pushed
<1>5. \A q \in Peers : q # p =>
         vecUser'[q] = vecUser[q] /\ listUsers'[q] = listUsers[q]
  BY <1>2 DEF Push
<1>6. /\ vecUser' \in [Peers -> Seq(User)]
      /\ listUsers' \in [Peers -> Seq(Label)]
  BY <1>2, <1>3, <1>4 DEF Push
<1>7. LabelsInStep'
  <2> SUFFICES ASSUME NEW q \in Peers
               PROVE  /\ Len(listUsers'[q]) = Len(vecUser'[q])
                      /\ \A i \in DOMAIN vecUser'[q] :
                            listUsers'[q][i] = LabelOf(vecUser'[q][i])
    BY DEF LabelsInStep
  <2>1. CASE q # p
    BY <1>5, <2>1 DEF Shape, LabelsInStep
  <2>2. CASE q = p
    <3>1. Len(listUsers'[p]) = Len(vecUser'[p])
      BY <1>2, <1>3, <1>4
    <3>2. \A i \in 1..Len(vecUser[p]) : listUsers[p][i] = LabelOf(vecUser[p][i])
      BY <1>2 DEF Shape, LabelsInStep
    <3>3. \A i \in 1..Len(vecUser'[p]) : listUsers'[p][i] = LabelOf(vecUser'[p][i])
      <4> HIDE DEF label
      <4>1. label = LabelOf(client)
        BY DEF label
      <4> QED
        BY <1>2, <1>3, <1>4, <3>1, <3>2, <4>1
    <3> QED
      BY <1>3, <2>2, <3>1, <3>3
  <2> QED
    BY <2>1, <2>2
<1>8. \A q \in Peers : \A i \in DOMAIN vecUser[q] :
         i \in DOMAIN vecUser'[q] /\ vecUser'[q][i] = vecUser[q][i]
  BY <1>2, <1>3, <1>5
<1>9. contacts' \in [Peers -> Seq(Label)] => TypeOK'
  BY <1>6 DEF Shape, TypeOK, Push, Network
<1> QED
  BY <1>6, <1>7, <1>8, <1>9

\* What a peer in the chat sends about itself is a packet
LEMMA ControlType ==
    ASSUME Shape, NEW p \in Peers, NEW word \in Words
    PROVE  Control(p, word) \in Seq(Words)
<1>1. user_name[p] \in Seq(Words) /\ id_program[p] \in Words
  BY DEF Shape, TypeOK
<1>2. "1" \in Words /\ <<word>> \in Seq(Words)
  BY WordsAssumption
<1> QED
  BY <1>1, <1>2, PacketType DEF Control

LEMMA TextType ==
    ASSUME Shape, NEW p \in Peers, NEW text \in Texts
    PROVE  Text(p, text) \in Seq(Words)
<1>1. user_name[p] \in Seq(Words) /\ id_program[p] \in Words
  BY DEF Shape, TypeOK
<1>2. "2" \in Words /\ text \in Seq(Words)
  BY WordsAssumption, TypedAssumption
<1> QED
  BY <1>1, <1>2, PacketType DEF Text

LEMMA AddUserShape ==
    ASSUME Shape, NEW p \in Peers, NEW address \in Peers,
           NEW nikname \in Words, NEW id \in Words, NEW back_send \in BOOLEAN,
           NEW net \in Network, AddUser(p, address, nikname, id, back_send, net)
    PROVE  Shape'
<1> DEFINE client == [address |-> address, nikname |-> nikname, program_id |-> id]
<1>1. client \in User /\ client.address = address
  BY DEF User
<1>2. CASE AddKnown(p, id, net)
  BY <1>2, IgnoreShape DEF AddKnown
<1> HIDE DEF client
<1>3. CASE AddFirst(p, client, back_send, net)
  <2>1. Control(p, "hi") \in Seq(Words)
    BY ControlType, WordsAssumption
  <2>2. flight' \in Network
    BY <1>1, <1>3, <2>1, UnicastType DEF AddFirst, Answer
  <2>3. /\ contacts' \in [Peers -> Seq(Label)] => TypeOK'
        /\ listUsers' \in [Peers -> Seq(Label)]
        /\ LabelsInStep'
        /\ \A q \in Peers : \A i \in DOMAIN vecUser[q] :
              i \in DOMAIN vecUser'[q] /\ vecUser'[q][i] = vecUser[q][i]
    BY <1>1, <1>3, <2>2, PushShape DEF AddFirst
  <2>4. contacts' = [contacts EXCEPT ![p] = listUsers'[p]]
    BY <1>3 DEF AddFirst, AddContacts
  <2>5. TypeOK'
    BY <2>3, <2>4 DEF Shape, TypeOK
  <2>6. RowAddressesShownUser'
    <3>1. \A q \in Peers \ {p} : \A row \in DOMAIN contacts'[q] :
             row \in DOMAIN vecUser'[q] /\ contacts'[q][row] = LabelOf(vecUser'[q][row])
      BY <2>3, <2>4 DEF Shape, TypeOK, RowAddressesShownUser
    <3>2. \A row \in DOMAIN contacts'[p] :
             row \in DOMAIN vecUser'[p] /\ contacts'[p][row] = LabelOf(vecUser'[p][row])
      <4>1. contacts'[p] = listUsers'[p]
        BY <2>4 DEF Shape, TypeOK
      <4>2. DOMAIN listUsers'[p] = DOMAIN vecUser'[p]
        BY <2>3, <2>5 DEF TypeOK, LabelsInStep
      <4> QED
        BY <2>3, <4>1, <4>2 DEF LabelsInStep
    <3> QED
      BY <3>1, <3>2 DEF RowAddressesShownUser
  <2> QED
    BY <2>3, <2>5, <2>6 DEF Shape
<1>4. CASE AddLater(p, client, net)
  <2>1. PICK n \in CopiesPushed(vecUser[p], client.program_id) : Push(p, client, n)
    BY <1>4 DEF AddLater
  <2>2. n \in Nat
    BY DEF CopiesPushed, Shape, TypeOK
  <2>3. flight' \in Network /\ UNCHANGED contacts
    BY <1>4 DEF AddLater
  <2>4. /\ contacts' \in [Peers -> Seq(Label)] => TypeOK'
        /\ LabelsInStep'
        /\ \A q \in Peers : \A i \in DOMAIN vecUser[q] :
              i \in DOMAIN vecUser'[q] /\ vecUser'[q][i] = vecUser[q][i]
    BY <1>1, <2>1, <2>2, <2>3, PushShape
  <2>5. TypeOK'
    BY <2>3, <2>4 DEF Shape, TypeOK
  <2>6. RowAddressesShownUser'
    BY <2>3, <2>4 DEF Shape, RowAddressesShownUser
  <2> QED
    BY <2>4, <2>5, <2>6 DEF Shape
<1>5. CASE AddCrash(p, id, net)
  BY <1>5, CrashShape DEF AddCrash
<1> QED
  BY <1>2, <1>3, <1>4, <1>5 DEF AddUser, client

LEMMA DisconnectShape ==
    ASSUME Shape, NEW p \in Peers, NEW id \in Words, NEW net \in Network,
           Disconnect(p, id, net)
    PROVE  Shape'
<1>1. PICK keep \in Survivors(Len(vecUser[p]), Erased(vecUser[p], id)) :
         /\ vecUser'   = [vecUser EXCEPT ![p] = Pick(@, keep)]
         /\ listUsers' = [listUsers EXCEPT ![p] = Pick(@, keep)]
  BY DEF Disconnect
<1>2. /\ vecUser \in [Peers -> Seq(User)] /\ listUsers \in [Peers -> Seq(Label)]
      /\ vecUser[p] \in Seq(User) /\ listUsers[p] \in Seq(Label)
      /\ Len(listUsers[p]) = Len(vecUser[p])
  BY DEF Shape, TypeOK, LabelsInStep
<1>3. /\ vecUser'[p] = Pick(vecUser[p], keep)
      /\ listUsers'[p] = Pick(listUsers[p], keep)
      /\ \A q \in Peers \ {p} : vecUser'[q] = vecUser[q] /\ listUsers'[q] = listUsers[q]
  BY <1>1, <1>2
<1>4. /\ Pick(vecUser[p], keep) \in Seq(User)
      /\ DOMAIN Pick(vecUser[p], keep) = DOMAIN keep
      /\ \A i \in DOMAIN keep : /\ keep[i] \in DOMAIN vecUser[p]
                                /\ Pick(vecUser[p], keep)[i] = vecUser[p][keep[i]]
  BY <1>2, PickType
<1>5. /\ Pick(listUsers[p], keep) \in Seq(Label)
      /\ DOMAIN Pick(listUsers[p], keep) = DOMAIN keep
      /\ \A i \in DOMAIN keep : Pick(listUsers[p], keep)[i] = listUsers[p][keep[i]]
  <2>1. keep \in Survivors(Len(listUsers[p]), Erased(vecUser[p], id))
    BY <1>2
  <2> QED
    BY <1>2, <2>1, PickType
<1>6. /\ vecUser' \in [Peers -> Seq(User)]
      /\ listUsers' \in [Peers -> Seq(Label)]
  BY <1>1, <1>2, <1>4, <1>5
<1>7. LabelsInStep'
  <2>1. DOMAIN listUsers'[p] = DOMAIN vecUser'[p]
    BY <1>3, <1>4, <1>5
  <2>2. Len(listUsers'[p]) = Len(vecUser'[p])
    <3>1. vecUser'[p] \in Seq(User) /\ listUsers'[p] \in Seq(Label)
      BY <1>3, <1>4, <1>5
    <3> QED
      BY <2>1, <3>1
  <2>3. \A i \in DOMAIN vecUser'[p] : listUsers'[p][i] = LabelOf(vecUser'[p][i])
    BY <1>3, <1>4, <1>5 DEF Shape, LabelsInStep
  <2> QED
    BY <1>3, <2>2, <2>3 DEF Shape, LabelsInStep
<1>8. contacts' = [contacts EXCEPT ![p] = listUsers'[p]]
  BY DEF Disconnect, AddContacts
<1>9. TypeOK'
  BY <1>6, <1>8 DEF Disconnect, Shape, TypeOK, Network
<1>10. RowAddressesShownUser'
  <2>1. contacts'[p] = listUsers'[p]
    BY <1>8 DEF Shape, TypeOK
  <2>2. DOMAIN listUsers'[p] = DOMAIN vecUser'[p]
    BY <1>3, <1>4, <1>5
  <2>3. \A row \in DOMAIN contacts'[p] :
           row \in DOMAIN vecUser'[p] /\ contacts'[p][row] = LabelOf(vecUser'[p][row])
    BY <1>7, <2>1, <2>2 DEF LabelsInStep
  <2>4. \A q \in Peers \ {p} : contacts'[q] = contacts[q]
    BY <1>8 DEF Shape, TypeOK
  <2> QED
    BY <1>3, <2>3, <2>4 DEF Shape, RowAddressesShownUser
<1> QED
  BY <1>7, <1>9, <1>10 DEF Shape

LEMMA slotDisconnectedShape ==
    ASSUME Shape, NEW p \in Peers, NEW id \in Words, NEW net \in Network,
           slotDisconnected(p, id, net)
    PROVE  Shape'
BY DisconnectShape, IgnoreShape, CrashShape
   DEF slotDisconnected, DisconnectUnknown, DisconnectCrash

LEMMA ShowTextShape ==
    ASSUME Shape, NEW p \in Peers, NEW from \in Peers, NEW message \in Words,
           NEW nikname \in Words, NEW id \in Words, NEW net \in Network,
           ShowText(p, from, message, nikname, id, net)
    PROVE  Shape'
<1>1. TypeOK'
  <2>1. shown' \in [Peers -> SUBSET [from : Peers, label : Label, text : Words]]
    <3> DEFINE row == [from |-> from, label |-> <<nikname, id>>, text |-> message]
               Rows == [from : Peers, label : Label, text : Words]
    <3>1. row \in Rows
      BY DEF Label
    <3>2. shown \in [Peers -> SUBSET Rows] /\ shown' = [shown EXCEPT ![p] = @ \cup {row}]
      BY DEF Shape, TypeOK, ShowText
    <3> HIDE DEF row, Rows
    <3>3. shown' \in [Peers -> SUBSET Rows]
      BY <3>1, <3>2
    <3> QED
      BY <3>3 DEF Rows
  <2>2. /\ UNCHANGED <<phase, chat, contacts, announced, farewells, entries, texts>>
        /\ flight' = net
    BY DEF ShowText
  <2> QED
    BY <2>1, <2>2 DEF Shape, TypeOK, chat, Network
<1>2. LabelsInStep' /\ RowAddressesShownUser'
  BY DEF Shape, LabelsInStep, RowAddressesShownUser, ShowText, chat
<1> QED
  BY <1>1, <1>2 DEF Shape

LEMMA ReadShape ==
    ASSUME Shape, NEW p \in Peers, slotReadMessages(p)
    PROVE  Shape'
<1>1. PICK burst \in Bursts(p) : \E last \in burst :
         Dispatch(p, last, [flight EXCEPT ![p] = @ \ burst])
  BY DEF slotReadMessages
<1>2. PICK last \in burst : Dispatch(p, last, [flight EXCEPT ![p] = @ \ burst])
  BY <1>1
<1> DEFINE net == [flight EXCEPT ![p] = @ \ burst]
<1>3. net \in Network
  BY DEF Shape, TypeOK, Network
<1>4. last.from \in Peers /\ last.data \in Seq(Words)
  BY DEF Bursts, Shape, TypeOK, Datagram
<1>5. /\ Section(last.data, 2) \in Words
      /\ Section(last.data, 3) \in Words
      /\ Section(last.data, 4) \in Words
  BY <1>4, SectionType
<1> HIDE DEF net
<1>6. Dispatch(p, last, net)
  BY <1>2 DEF net
<1> QED
  BY <1>3, <1>4, <1>5, <1>6, AddUserShape, slotDisconnectedShape, ShowTextShape,
     IgnoreShape
     DEF Dispatch, OwnText

LEMMA EnterShape ==
    ASSUME Shape, WindowCleared, NEW p \in Peers, Enter(p)
    PROVE  Shape'
<1>1. PICK nick \in Nicks, id \in Ids :
         LET data == Packet("1", <<WhosHere>>, nick, id)
         IN  /\ user_name'  = [user_name EXCEPT ![p] = nick]
             /\ id_program' = [id_program EXCEPT ![p] = id]
             /\ announced'  = [announced EXCEPT ![p] = @ \cup {Claimed(data)}]
             /\ flight'     = Broadcast(p, data)
  BY DEF Enter
<1> DEFINE data == Packet("1", <<WhosHere>>, nick, id)
<1>2. data \in Seq(Words)
  <2>1. nick \in Seq(Words) /\ id \in Words /\ "1" \in Words
    BY WordsAssumption, TypedAssumption
  <2>2. <<WhosHere>> \in Seq(Words)
    BY WordsAssumption
  <2> QED
    BY <2>1, <2>2, PacketType
<1>3. Claimed(data) \in Label
  BY <1>2, SectionType DEF Claimed, Label
<1>4. flight' \in Network
  <2>1. flight \in Network
    BY DEF Shape, TypeOK, Network
  <2> QED
    BY <1>1, <1>2, <2>1, BroadcastType
<1> HIDE DEF data
<1>5. announced' = [announced EXCEPT ![p] = @ \cup {Claimed(data)}]
  BY <1>1 DEF data
<1>6. TypeOK'
  <2>1. /\ user_name' \in [Peers -> Seq(Words)]
        /\ id_program' \in [Peers -> Words]
    BY <1>1, WordsAssumption, TypedAssumption DEF Shape, TypeOK
  <2>2. /\ vecUser' \in [Peers -> Seq(User)]
        /\ listUsers' \in [Peers -> Seq(Label)]
    BY DEF Enter, Shape, TypeOK
  <2>3. announced' \in [Peers -> SUBSET Label]
    BY <1>3, <1>5 DEF Shape, TypeOK
  <2>4. phase' \in [Peers -> {"out", "in", "gone"}] /\ entries' \in Nat
    BY DEF Enter, Shape, TypeOK
  <2> QED
    BY <1>4, <2>1, <2>2, <2>3, <2>4 DEF Enter, Shape, TypeOK, Network
<1>7. LabelsInStep'
  BY DEF Enter, Shape, TypeOK, LabelsInStep
<1>8. RowAddressesShownUser'
  <2>1. contacts'[p] = <<>>
    BY DEF Enter, WindowCleared
  <2>2. \A q \in Peers \ {p} :
           contacts'[q] = contacts[q] /\ vecUser'[q] = vecUser[q]
    BY DEF Enter, Shape, TypeOK
  <2> QED
    BY <2>1, <2>2 DEF Shape, RowAddressesShownUser
<1> QED
  BY <1>6, <1>7, <1>8 DEF Shape

\* A personal message has an address because the selected row is one of vecUser
LEMMA SendPersonalShape ==
    ASSUME Shape, NEW p \in Peers, SendPersonal(p)
    PROVE  Shape'
<1>1. PICK row \in DOMAIN contacts[p], text \in Texts :
         flight' = Unicast(flight, p, vecUser[p][row].address, Text(p, text))
  BY DEF SendPersonal
<1>2. vecUser[p][row].address \in Peers
  <2>1. row \in DOMAIN vecUser[p] /\ vecUser[p] \in Seq(User)
    BY DEF Shape, RowAddressesShownUser, TypeOK
  <2>2. vecUser[p][row] \in User
    BY <2>1
  <2> QED
    BY <2>2 DEF User
<1>3. flight' \in Network
  <2>1. flight \in Network
    BY DEF Shape, TypeOK, Network
  <2> QED
    BY <1>1, <1>2, <2>1, TextType, UnicastType
<1>4. TypeOK'
  BY <1>3 DEF SendPersonal, Shape, TypeOK, chat, Network
<1>5. LabelsInStep' /\ RowAddressesShownUser'
  BY DEF SendPersonal, Shape, LabelsInStep, RowAddressesShownUser, chat
<1> QED
  BY <1>4, <1>5 DEF Shape

LEMMA SendToAllShape ==
    ASSUME Shape, NEW p \in Peers, SendToAll(p)
    PROVE  Shape'
<1>1. PICK text \in Texts : flight' = Broadcast(p, Text(p, text))
  BY DEF SendToAll
<1>2. flight' \in Network
  <2>1. flight \in Network
    BY DEF Shape, TypeOK, Network
  <2> QED
    BY <1>1, <2>1, TextType, BroadcastType
<1>3. TypeOK'
  BY <1>2 DEF SendToAll, Shape, TypeOK, chat, Network
<1>4. LabelsInStep' /\ RowAddressesShownUser'
  BY DEF SendToAll, Shape, LabelsInStep, RowAddressesShownUser, chat
<1> QED
  BY <1>3, <1>4 DEF Shape

LEMMA ExitChatShape ==
    ASSUME Shape, NEW p \in Peers, ExitChat(p)
    PROVE  Shape'
<1>1. Control(p, "bye") \in Seq(Words)
  BY ControlType, WordsAssumption
<1>2. flight' \in Network
  <2>1. flight \in Network
    BY DEF Shape, TypeOK, Network
  <2> QED
    BY <1>1, <2>1, BroadcastType DEF ExitChat
<1>3. farewells' \subseteq Words
  BY <1>1, SectionType DEF ExitChat, Shape, TypeOK
<1>4. phase' \in [Peers -> {"out", "in", "gone"}]
  BY DEF ExitChat, Shape, TypeOK
<1> QED
  BY <1>2, <1>3, <1>4, ForgetShape DEF ExitChat

LEMMA CloseWindowShape ==
    ASSUME Shape, NEW p \in Peers, CloseWindow(p)
    PROVE  Shape'
<1>1. flight' \in Network
  BY DEF CloseWindow, Shape, TypeOK, Network
<1> QED
  BY <1>1, CrashShape DEF CloseWindow

LEMMA ShapeStep ==
    ASSUME Shape, WindowCleared, [Next]_vars
    PROVE  Shape'
<1>1. CASE UNCHANGED vars
  BY <1>1 DEF Shape, TypeOK, LabelsInStep, RowAddressesShownUser, vars
<1>2. ASSUME NEW p \in Peers, Enter(p) PROVE Shape'
  BY <1>2, EnterShape
<1>3. ASSUME NEW p \in Peers, slotReadMessages(p) PROVE Shape'
  BY <1>3, ReadShape
<1>4. ASSUME NEW p \in Peers, SendPersonal(p) PROVE Shape'
  BY <1>4, SendPersonalShape
<1>5. ASSUME NEW p \in Peers, SendToAll(p) PROVE Shape'
  BY <1>5, SendToAllShape
<1>6. ASSUME NEW p \in Peers, ExitChat(p) PROVE Shape'
  BY <1>6, ExitChatShape
<1>7. ASSUME NEW p \in Peers, CloseWindow(p) PROVE Shape'
  BY <1>7, CloseWindowShape
<1> QED
  BY <1>1, <1>2, <1>3, <1>4, <1>5, <1>6, <1>7 DEF Next

-----------------------------------------------------------------------------
(* The window is cleared whenever its peer is out of the chat *)

LEMMA WindowStep ==
    ASSUME Shape, WindowCleared, [Next]_vars
    PROVE  WindowCleared'
<1> USE DEF WindowCleared, Shape, TypeOK
<1>1. CASE UNCHANGED vars
  BY <1>1 DEF vars
<1>2. ASSUME NEW p \in Peers, Forget(p),
             \A q \in Peers \ {p} : phase'[q] = phase[q]
      PROVE  WindowCleared'
  BY <1>2 DEF Forget
<1>3. ASSUME NEW p \in Peers, Crash(p) PROVE WindowCleared'
  BY <1>2, <1>3 DEF Crash
<1>4. ASSUME NEW p \in Peers, Enter(p) PROVE WindowCleared'
  BY <1>4 DEF Enter
<1>5. ASSUME NEW p \in Peers, slotReadMessages(p) PROVE WindowCleared'
  <2>1. PICK last, net : phase[p] = "in" /\ Dispatch(p, last, net)
    BY <1>5 DEF slotReadMessages
  <2>2. \/ Crash(p)
        \/ /\ UNCHANGED phase
           /\ \A q \in Peers \ {p} : contacts'[q] = contacts[q] /\ vecUser'[q] = vecUser[q]
    BY <2>1 DEF Dispatch, AddUser, AddKnown, AddFirst, AddLater, AddCrash, Push,
                slotDisconnected, Disconnect, DisconnectUnknown, DisconnectCrash,
                ShowText, OwnText, Ignore, AddContacts, chat
  <2> QED
    BY <1>3, <2>1, <2>2
<1>6. ASSUME NEW p \in Peers, SendPersonal(p) PROVE WindowCleared'
  BY <1>6 DEF SendPersonal, chat
<1>7. ASSUME NEW p \in Peers, SendToAll(p) PROVE WindowCleared'
  BY <1>7 DEF SendToAll, chat
<1>8. ASSUME NEW p \in Peers, ExitChat(p) PROVE WindowCleared'
  BY <1>2, <1>8 DEF ExitChat
<1>9. ASSUME NEW p \in Peers, CloseWindow(p) PROVE WindowCleared'
  BY <1>3, <1>9 DEF CloseWindow
<1> QED
  BY <1>1, <1>4, <1>5, <1>6, <1>7, <1>8, <1>9 DEF Next

-----------------------------------------------------------------------------
\* The inductive invariant: types, labels and rows in step, and a window that
\* is empty outside the chat (AddUser, slotDisconnected, closeConnections).
THEOREM ShapeInvariant == Spec => [](Shape /\ WindowCleared)
<1>1. Init => Shape /\ WindowCleared
  BY ShapeInit DEF Init, WindowCleared
<1>2. Shape /\ WindowCleared /\ [Next]_vars => (Shape /\ WindowCleared)'
  BY ShapeStep, WindowStep
<1> QED
  BY <1>1, <1>2, PTL DEF Spec

\* Every variable keeps its type (all the slots of ChatNetwork and MainWindow).
THEOREM TypeCorrect == Spec => []TypeOK
<1>1. Shape => TypeOK
  BY DEF Shape
<1> QED
  BY <1>1, ShapeInvariant, PTL

\* However many users are pushed without a signal and however the loop of
\* slotDisconnected skips, a personal message goes to the address of the user
\* whose row was selected.
THEOREM RowsCorrect == Spec => []RowAddressesShownUser
<1>1. Shape => RowAddressesShownUser
  BY DEF Shape
<1> QED
  BY <1>1, ShapeInvariant, PTL
-----------------------------------------------------------------------------
(* Somebody known is somebody listed: the window is filled by the first user *)
(* and after every removal, and what happens in between only adds users.     *)

\* A step after which the window of p lists listUsers anew
LEMMA ListedAnew ==
    ASSUME Shape, SomebodyVisible, Shape', NEW p \in Peers,
           AddContacts(p), \A q \in Peers \ {p} : vecUser'[q] = vecUser[q]
    PROVE  SomebodyVisible'
<1>1. contacts'[p] = listUsers'[p] /\ \A q \in Peers \ {p} : contacts'[q] = contacts[q]
  BY DEF AddContacts, Shape, TypeOK
<1>2. /\ Len(listUsers'[p]) = Len(vecUser'[p])
      /\ listUsers'[p] \in Seq(Label) /\ vecUser'[p] \in Seq(User)
  BY DEF Shape, TypeOK, LabelsInStep
<1>3. vecUser'[p] # <<>> => contacts'[p] # <<>>
  BY <1>1, <1>2
<1> QED
  BY <1>1, <1>3 DEF SomebodyVisible

LEMMA ReadVisible ==
    ASSUME Shape, SomebodyVisible, Shape', NEW p \in Peers, slotReadMessages(p)
    PROVE  SomebodyVisible'
<1>1. PICK last, net : Dispatch(p, last, net)
  BY DEF slotReadMessages
<1>2. \/ Crash(p)
      \/ UNCHANGED <<vecUser, contacts>>
      \/ /\ \E client, n : Push(p, client, n)
         /\ AddContacts(p)
      \/ /\ \E client, n : Push(p, client, n)
         /\ vecUser[p] # <<>> /\ UNCHANGED contacts
      \/ \E id, n : Disconnect(p, id, n)
  <2>1. ASSUME NEW client, AddLater(p, client, net)
        PROVE  /\ \E n : Push(p, client, n)
               /\ vecUser[p] # <<>> /\ UNCHANGED contacts
    BY <2>1 DEF AddLater, CopiesPushed
  <2> QED
    BY <1>1, <2>1 DEF Dispatch, AddUser, AddKnown, AddFirst, AddCrash, Ignore, chat,
       slotDisconnected, DisconnectUnknown, DisconnectCrash, ShowText, OwnText
<1>3. CASE Crash(p)
  BY <1>3 DEF Crash, Forget, SomebodyVisible, Shape, TypeOK
<1>4. CASE UNCHANGED <<vecUser, contacts>>
  BY <1>4 DEF SomebodyVisible
<1>5. ASSUME NEW client, NEW n, Push(p, client, n)
      PROVE  \A q \in Peers \ {p} : vecUser'[q] = vecUser[q]
  BY <1>5 DEF Push, Shape, TypeOK
<1>6. CASE (\E client, n : Push(p, client, n)) /\ AddContacts(p)
  BY <1>5, <1>6, ListedAnew
<1>7. CASE (\E client, n : Push(p, client, n)) /\ vecUser[p] # <<>> /\ UNCHANGED contacts
  BY <1>5, <1>7 DEF SomebodyVisible
<1>8. ASSUME NEW id, NEW n, Disconnect(p, id, n) PROVE SomebodyVisible'
  <2>1. AddContacts(p) /\ \A q \in Peers \ {p} : vecUser'[q] = vecUser[q]
    BY <1>8 DEF Disconnect, Shape, TypeOK
  <2> QED
    BY <2>1, ListedAnew
<1> QED
  BY <1>2, <1>3, <1>4, <1>6, <1>7, <1>8

LEMMA VisibleStep ==
    ASSUME Shape, SomebodyVisible, Shape', [Next]_vars
    PROVE  SomebodyVisible'
<1>1. ASSUME UNCHANGED <<vecUser, contacts>> PROVE SomebodyVisible'
  BY <1>1 DEF SomebodyVisible
<1>2. ASSUME NEW p \in Peers, vecUser' = [vecUser EXCEPT ![p] = <<>>],
             \A q \in Peers \ {p} : contacts'[q] = contacts[q]
      PROVE  SomebodyVisible'
  BY <1>2 DEF SomebodyVisible, Shape, TypeOK
<1>3. CASE UNCHANGED vars
  BY <1>1, <1>3 DEF vars
<1>4. ASSUME NEW p \in Peers, Enter(p) PROVE SomebodyVisible'
  BY <1>2, <1>4 DEF Enter
<1>5. ASSUME NEW p \in Peers, SendPersonal(p) \/ SendToAll(p) PROVE SomebodyVisible'
  BY <1>1, <1>5 DEF SendPersonal, SendToAll, chat
<1>6. ASSUME NEW p \in Peers, Forget(p) PROVE SomebodyVisible'
  BY <1>2, <1>6 DEF Forget, Shape, TypeOK
<1> QED
  BY <1>3, <1>4, <1>5, <1>6, ReadVisible DEF Next, ExitChat, CloseWindow, Crash

\* Although AddUser signals the first user only, a peer that knows somebody
\* shows somebody (AddUser, slotDisconnected, DeleteContacts).
THEOREM SomebodyAlwaysVisible == Spec => []SomebodyVisible
<1>1. Init => SomebodyVisible
  BY DEF Init, SomebodyVisible
<1>2. Shape /\ Shape' /\ SomebodyVisible /\ [Next]_vars => SomebodyVisible'
  BY VisibleStep
<1> QED
  BY <1>1, <1>2, ShapeInvariant, PTL DEF Spec
=============================================================================
