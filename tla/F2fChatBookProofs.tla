------------------------- MODULE F2fChatBookProofs -------------------------
(***************************************************************************)
(* Who is in a roster, and why: GenuineRoster, PlainTextsAttributed, what  *)
(* a bye takes from it and the refinement of AddressBook, for every value  *)
(* of the constants.                                                       *)
(***************************************************************************)
EXTENDS F2fChatProofs, WellFoundedInduction

(* The invariant: a packet in flight names a user its sender has announced *)

\* What a datagram that is not a slashed message says of its sender is true,
\* and a bye is that of an id that has said farewell
Truthful(d) ==
    /\ Section(d.data, 1) = "1" =>
          /\ Claimed(d.data) \in announced[d.from]
          /\ Section(d.data, 2) = "bye" => Section(d.data, 4) \in farewells
    /\ (\A text \in Texts : Len(text) = 1) =>
          Claimed(d.data) \in announced[d.from]

FlightTruthful == \A p \in Peers : \A d \in flight[p] : Truthful(d)

\* A peer in the chat has announced what all its packets say of it
SessionAnnounced == \A p \in Peers :
    phase[p] = "in" => \A type, word \in Words :
        Claimed(Packet(type, <<word>>, user_name[p], id_program[p]))
            \in announced[p]

Genuine ==
    FlightTruthful /\ SessionAnnounced /\ GenuineRoster /\ PlainTextsAttributed

LEMMA DistinctWords == WhosHere # "bye" /\ "hi" # "bye" /\ "1" # "2"
<1>1. WhosHere # "bye"
  BY Zenon DEF WhosHere
<1> QED
  BY <1>1

LEMMA FirstSection ==
    ASSUME NEW type \in Words, NEW message \in Seq(Words),
           NEW nick \in Seq(Words), NEW id \in Words
    PROVE  Section(Packet(type, message, nick, id), 1) = type
BY DEF Section, Packet

\* Two network operators only add the datagram given to them
LEMMA AddedByBroadcast ==
    ASSUME NEW p \in Peers, NEW data, NEW q \in Peers,
           NEW d \in Broadcast(p, data)[q]
    PROVE  d \in flight[q] \/ (d.from = p /\ d.data = data)
BY DEF Broadcast

LEMMA AddedByUnicast ==
    ASSUME NEW net \in Network, NEW p \in Peers, NEW data, NEW q \in Peers,
           NEW r \in Peers, NEW d \in Unicast(net, p, q, data)[r]
    PROVE  d \in net[r] \/ (d.from = p /\ d.data = data)
BY DEF Unicast, Network

LEMMA OneElement ==
    ASSUME NEW S, NEW s \in Seq(S), Len(s) = 1
    PROVE  s[1] \in S /\ s = <<s[1]>>
<1>1. s[1] \in S
  OBVIOUS
<1>2. <<s[1]>> \in Seq(S) /\ Len(<<s[1]>>) = 1
  BY <1>1
<1>3. \A i \in 1..Len(s) : s[i] = <<s[1]>>[i]
  OBVIOUS
<1> QED
  BY <1>1, <1>2, <1>3, SeqEqual, Zenon

LEMMA TextTruthful ==
    ASSUME Shape, SessionAnnounced, NEW p \in Peers, phase[p] = "in",
           NEW text \in Texts, NEW d, d.from = p, d.data = Text(p, text)
    PROVE  Truthful(d)
<1>1. /\ user_name[p] \in Seq(Words) /\ id_program[p] \in Words
      /\ text \in Seq(Words) /\ "2" \in Words
  BY WordsAssumption, TypedAssumption DEF Shape, TypeOK
<1>2. Section(d.data, 1) = "2"
  BY <1>1, FirstSection DEF Text
<1>3. ASSUME Len(text) = 1 PROVE Claimed(d.data) \in announced[p]
  <2>1. text \in Seq(Words) /\ Len(text) = 1
    BY <1>1, <1>3
  <2>2. text[1] \in Words /\ text = <<text[1]>>
    BY <2>1, OneElement
  <2> QED
    BY <1>1, <2>2 DEF Text, SessionAnnounced
<1> QED
  BY <1>2, <1>3, DistinctWords DEF Truthful

LEMMA HiTruthful ==
    ASSUME Shape, SessionAnnounced, NEW p \in Peers, phase[p] = "in",
           NEW d, d.from = p, d.data = Control(p, "hi")
    PROVE  Truthful(d)
<1>1. /\ user_name[p] \in Seq(Words) /\ id_program[p] \in Words
      /\ "1" \in Words /\ "hi" \in Words
  BY WordsAssumption DEF Shape, TypeOK
<1>2. Section(d.data, 2) = "hi"
  BY <1>1, ControlSections DEF Control
<1>3. Claimed(d.data) \in announced[p]
  BY <1>1 DEF Control, SessionAnnounced
<1> QED
  BY <1>2, <1>3, DistinctWords DEF Truthful

-----------------------------------------------------------------------------
(* Each part of Genuine is kept by steps that only add to what was said *)

Monotonic == /\ \A q \in Peers : announced[q] \subseteq announced'[q]
             /\ farewells \subseteq farewells'

LEMMA FlightKept ==
    ASSUME Shape, FlightTruthful, Monotonic,
           \A q \in Peers : \A d \in flight'[q] :
               d \in flight[q] \/ Truthful(d)'
    PROVE  FlightTruthful'
<1>1. ASSUME NEW q \in Peers, NEW d \in flight[q] PROVE Truthful(d)'
  <2>1. d.from \in Peers
    BY DEF Shape, TypeOK, Datagram
  <2>2. Truthful(d)
    BY DEF FlightTruthful
  <2> QED
    BY <2>1, <2>2 DEF Truthful, Monotonic
<1> QED
  BY <1>1 DEF FlightTruthful

LEMMA SessionKept ==
    ASSUME SessionAnnounced, Monotonic, UNCHANGED <<phase, user_name, id_program>>
    PROVE  SessionAnnounced'
BY DEF SessionAnnounced, Monotonic

\* The roster of one peer changes, to users that are genuine
LEMMA RosterKept ==
    ASSUME Shape, GenuineRoster, Monotonic, NEW p \in Peers,
           \A q \in Peers \ {p} : vecUser'[q] = vecUser[q],
           \A i \in DOMAIN vecUser'[p] :
               LabelOf(vecUser'[p][i]) \in announced'[vecUser'[p][i].address]
    PROVE  GenuineRoster'
<1>1. ASSUME NEW q \in Peers \ {p}, NEW i \in DOMAIN vecUser'[q]
      PROVE  LabelOf(vecUser'[q][i]) \in announced'[vecUser'[q][i].address]
  <2>1. vecUser[q][i] \in User
    BY DEF Shape, TypeOK
  <2>2. vecUser[q][i].address \in Peers
    BY <2>1 DEF User
  <2> QED
    BY <2>2 DEF GenuineRoster, Monotonic
<1> QED
  BY <1>1 DEF GenuineRoster

LEMMA ShownKept ==
    ASSUME Shape, PlainTextsAttributed, Monotonic, UNCHANGED shown
    PROVE  PlainTextsAttributed'
<1>1. ASSUME NEW q \in Peers, NEW m \in shown[q] PROVE m.from \in Peers
  BY DEF Shape, TypeOK
<1> QED
  BY <1>1 DEF PlainTextsAttributed, Monotonic

LEMMA ForgetGenuine ==
    ASSUME Shape, Genuine, NEW p \in Peers, Forget(p), Monotonic,
           phase'[p] # "in", \A q \in Peers \ {p} : phase'[q] = phase[q],
           UNCHANGED shown,
           \A q \in Peers : \A d \in flight'[q] :
               d \in flight[q] \/ Truthful(d)'
    PROVE  Genuine'
<1>1. FlightTruthful'
  BY FlightKept DEF Genuine
<1>2. SessionAnnounced'
  BY DEF Forget, Genuine, SessionAnnounced, Shape, TypeOK, Monotonic
<1>3. vecUser'[p] = <<>> /\ \A q \in Peers \ {p} : vecUser'[q] = vecUser[q]
  BY DEF Forget, Shape, TypeOK
<1>4. GenuineRoster'
  BY <1>3, RosterKept DEF Genuine
<1>5. PlainTextsAttributed'
  BY ShownKept DEF Genuine
<1> QED
  BY <1>1, <1>2, <1>4, <1>5 DEF Genuine

LEMMA CrashGenuine ==
    ASSUME Shape, Genuine, NEW p \in Peers, Crash(p),
           \A q \in Peers : flight'[q] \subseteq flight[q]
    PROVE  Genuine'
<1>1. Monotonic /\ UNCHANGED shown
  BY DEF Crash, Monotonic
<1>2. phase'[p] # "in" /\ \A q \in Peers \ {p} : phase'[q] = phase[q]
  BY DEF Crash, Shape, TypeOK
<1> QED
  BY <1>1, <1>2, ForgetGenuine DEF Crash

LEMMA IgnoreGenuine ==
    ASSUME Shape, Genuine, NEW net, Ignore(net),
           \A q \in Peers : net[q] \subseteq flight[q]
    PROVE  Genuine'
<1>1. Monotonic /\ UNCHANGED <<phase, user_name, id_program, shown, vecUser>>
  BY DEF Ignore, Monotonic, chat
<1>2. FlightTruthful'
  BY <1>1, FlightKept DEF Genuine, Ignore
<1>3. SessionAnnounced'
  BY <1>1, SessionKept DEF Genuine
<1>4. GenuineRoster'
  BY <1>1 DEF Genuine, GenuineRoster, Ignore
<1>5. PlainTextsAttributed'
  BY <1>1, ShownKept DEF Genuine
<1> QED
  BY <1>2, <1>3, <1>4, <1>5 DEF Genuine

LEMMA PushGenuine ==
    ASSUME Shape, Genuine, NEW p \in Peers, NEW client \in User, NEW n \in Nat,
           Push(p, client, n), LabelOf(client) \in announced[client.address],
           \A q \in Peers : \A d \in flight'[q] :
               d \in flight[q] \/ Truthful(d)'
    PROVE  Genuine'
<1>1. Monotonic /\ UNCHANGED <<phase, user_name, id_program, shown, announced>>
  BY DEF Push, Monotonic
<1>2. FlightTruthful'
  BY <1>1, FlightKept DEF Genuine
<1>3. SessionAnnounced'
  BY <1>1, SessionKept DEF Genuine
<1>4. GenuineRoster'
  <2>1. vecUser[p] \in Seq(User) /\ \A q \in Peers \ {p} : vecUser'[q] = vecUser[q]
    BY DEF Push, Shape, TypeOK
  <2>2. vecUser'[p] = Pushed(vecUser[p], n, client)
    BY DEF Push, Shape, TypeOK
  <2>3. \A i \in DOMAIN vecUser'[p] :
           vecUser'[p][i] = client \/ (i \in DOMAIN vecUser[p] /\ vecUser'[p][i] = vecUser[p][i])
    BY <2>1, <2>2 DEF Pushed
  <2>4. \A i \in DOMAIN vecUser'[p] :
           LabelOf(vecUser'[p][i]) \in announced'[vecUser'[p][i].address]
    BY <1>1, <2>3 DEF Genuine, GenuineRoster
  <2> QED
    BY <1>1, <2>1, <2>4, RosterKept DEF Genuine
<1>5. PlainTextsAttributed'
  BY <1>1, ShownKept DEF Genuine
<1> QED
  BY <1>2, <1>3, <1>4, <1>5 DEF Genuine

-----------------------------------------------------------------------------
(* One lemma per action *)

\* A reader takes the sender at its word: the packet it handles is in flight
\* and truthful
LEMMA AddUserGenuine ==
    ASSUME Shape, Genuine, NEW p \in Peers, phase[p] = "in", NEW address \in Peers,
           NEW nikname \in Words, NEW id \in Words, NEW back_send \in BOOLEAN,
           NEW net \in Network, \A q \in Peers : net[q] \subseteq flight[q],
           <<nikname, id>> \in announced[address],
           AddUser(p, address, nikname, id, back_send, net)
    PROVE  Genuine'
<1> DEFINE client == [address |-> address, nikname |-> nikname, program_id |-> id]
<1>1. /\ client \in User /\ client.address = address
      /\ LabelOf(client) \in announced[client.address]
  BY DEF User, LabelOf
<1>2. CASE AddKnown(p, id, net)
  BY <1>2, IgnoreGenuine DEF AddKnown
<1> HIDE DEF client
<1>3. CASE AddFirst(p, client, back_send, net)
  <2>1. ASSUME NEW q \in Peers, NEW d \in flight'[q]
        PROVE  d \in flight[q] \/ (d.from = p /\ d.data = Control(p, "hi"))
    <3>1. CASE back_send
      <4>1. flight' = Unicast(net, p, client.address, Control(p, "hi"))
        BY <1>3, <3>1 DEF AddFirst, Answer
      <4> QED
        BY <1>1, <2>1, <4>1, AddedByUnicast
    <3>2. CASE ~back_send
      BY <1>3, <2>1, <3>2 DEF AddFirst
    <3> QED
      BY <3>1, <3>2
  <2>2. ASSUME NEW d, Truthful(d) PROVE Truthful(d)'
    BY <1>3, <2>2 DEF AddFirst, Push, Truthful
  <2>3. \A q \in Peers : \A d \in flight'[q] : d \in flight[q] \/ Truthful(d)'
    BY <2>1, <2>2, HiTruthful DEF Genuine
  <2> QED
    BY <1>1, <1>3, <2>3, PushGenuine DEF AddFirst
<1>4. CASE AddLater(p, client, net)
  <2>1. PICK n \in CopiesPushed(vecUser[p], client.program_id) : Push(p, client, n)
    BY <1>4 DEF AddLater
  <2>2. n \in Nat
    BY DEF CopiesPushed, Shape, TypeOK
  <2>3. \A q \in Peers : flight'[q] \subseteq flight[q]
    BY <1>4 DEF AddLater
  <2> QED
    BY <1>1, <2>1, <2>2, <2>3, PushGenuine
<1>5. CASE AddCrash(p, id, net)
  <2>1. Crash(p) /\ \A q \in Peers : flight'[q] \subseteq flight[q]
    BY <1>5 DEF AddCrash
  <2> QED
    BY <2>1, CrashGenuine
<1> QED
  BY <1>2, <1>3, <1>4, <1>5 DEF AddUser, client

LEMMA slotDisconnectedGenuine ==
    ASSUME Shape, Genuine, NEW p \in Peers, NEW id \in Words, NEW net \in Network,
           \A q \in Peers : net[q] \subseteq flight[q],
           slotDisconnected(p, id, net)
    PROVE  Genuine'
<1>1. CASE Disconnect(p, id, net)
  <2>1. /\ Monotonic /\ UNCHANGED <<phase, user_name, id_program, shown>>
        /\ flight' = net /\ UNCHANGED announced
    BY <1>1 DEF Disconnect, Monotonic
  <2>2. FlightTruthful'
    BY <2>1, FlightKept DEF Genuine
  <2>3. SessionAnnounced'
    BY <2>1, SessionKept DEF Genuine
  <2>4. GenuineRoster'
    <3>1. PICK keep \in Survivors(Len(vecUser[p]), Erased(vecUser[p], id)) :
             vecUser' = [vecUser EXCEPT ![p] = Pick(@, keep)]
      BY <1>1 DEF Disconnect
    <3>2. vecUser[p] \in Seq(User) /\ vecUser \in [Peers -> Seq(User)]
      BY DEF Shape, TypeOK
    <3>3. /\ vecUser'[p] = Pick(vecUser[p], keep)
          /\ \A q \in Peers \ {p} : vecUser'[q] = vecUser[q]
      BY <3>1, <3>2
    <3>4. \A i \in DOMAIN vecUser'[p] : \E j \in DOMAIN vecUser[p] :
             vecUser'[p][i] = vecUser[p][j]
      BY <3>2, <3>3, PickType
    <3>5. \A i \in DOMAIN vecUser'[p] :
             LabelOf(vecUser'[p][i]) \in announced'[vecUser'[p][i].address]
      BY <2>1, <3>4 DEF Genuine, GenuineRoster
    <3> QED
      BY <2>1, <3>3, <3>5, RosterKept DEF Genuine
  <2>5. PlainTextsAttributed'
    BY <2>1, ShownKept DEF Genuine
  <2> QED
    BY <2>2, <2>3, <2>4, <2>5 DEF Genuine
<1>2. CASE DisconnectUnknown(p, id, net)
  BY <1>2, IgnoreGenuine DEF DisconnectUnknown
<1>3. CASE DisconnectCrash(p, id, net)
  <2>1. Crash(p) /\ \A q \in Peers : flight'[q] \subseteq flight[q]
    BY <1>3 DEF DisconnectCrash
  <2> QED
    BY <2>1, CrashGenuine
<1> QED
  BY <1>1, <1>2, <1>3 DEF slotDisconnected

LEMMA ShowTextGenuine ==
    ASSUME Shape, Genuine, NEW p \in Peers, NEW from \in Peers,
           NEW message \in Words, NEW nikname \in Words, NEW id \in Words,
           NEW net \in Network, \A q \in Peers : net[q] \subseteq flight[q],
           (\A text \in Texts : Len(text) = 1) => <<nikname, id>> \in announced[from],
           ShowText(p, from, message, nikname, id, net)
    PROVE  Genuine'
<1>1. /\ Monotonic /\ UNCHANGED <<phase, user_name, id_program, vecUser>>
      /\ flight' = net /\ UNCHANGED announced
  BY DEF ShowText, Monotonic, chat
<1>2. FlightTruthful'
  BY <1>1, FlightKept DEF Genuine
<1>3. SessionAnnounced'
  BY <1>1, SessionKept DEF Genuine
<1>4. GenuineRoster'
  BY <1>1 DEF Genuine, GenuineRoster
<1>5. PlainTextsAttributed'
  <2>1. \A q \in Peers : \A m \in shown'[q] :
           m \in shown[q] \/ (m.label = <<nikname, id>> /\ m.from = from)
    BY DEF ShowText, Shape, TypeOK
  <2> QED
    BY <1>1, <2>1 DEF Genuine, PlainTextsAttributed
<1> QED
  BY <1>2, <1>3, <1>4, <1>5 DEF Genuine

LEMMA ReadGenuine ==
    ASSUME Shape, Genuine, NEW p \in Peers, slotReadMessages(p)
    PROVE  Genuine'
<1>1. PICK burst \in Bursts(p) : \E last \in burst :
         Dispatch(p, last, [flight EXCEPT ![p] = @ \ burst])
  BY DEF slotReadMessages
<1>2. PICK last \in burst : Dispatch(p, last, [flight EXCEPT ![p] = @ \ burst])
  BY <1>1
<1> DEFINE net == [flight EXCEPT ![p] = @ \ burst]
<1>3. net \in Network /\ \A q \in Peers : net[q] \subseteq flight[q]
  BY DEF Shape, TypeOK, Network
<1>4. last \in flight[p] /\ last.from \in Peers /\ last.data \in Seq(Words)
  BY DEF Bursts, Shape, TypeOK, Datagram
<1>5. /\ Section(last.data, 2) \in Words
      /\ Section(last.data, 3) \in Words
      /\ Section(last.data, 4) \in Words
  BY <1>4, SectionType
<1>6. Truthful(last)
  BY <1>4 DEF Genuine, FlightTruthful
<1>7. phase[p] = "in"
  BY DEF slotReadMessages
<1> HIDE DEF net
<1>8. Dispatch(p, last, net)
  BY <1>2 DEF net
<1>9. /\ Section(last.data, 1) = "1" =>
            <<Section(last.data, 3), Section(last.data, 4)>> \in announced[last.from]
      /\ (\A text \in Texts : Len(text) = 1) =>
            <<Section(last.data, 3), Section(last.data, 4)>> \in announced[last.from]
  BY <1>6 DEF Truthful, Claimed
<1> QED
  BY <1>3, <1>4, <1>5, <1>7, <1>8, <1>9, AddUserGenuine, slotDisconnectedGenuine,
     ShowTextGenuine, IgnoreGenuine
     DEF Dispatch, OwnText

LEMMA EnterGenuine ==
    ASSUME Shape, Genuine, NEW p \in Peers, Enter(p)
    PROVE  Genuine'
<1>1. PICK nick \in Nicks, id \in Ids :
         LET data == Packet("1", <<WhosHere>>, nick, id)
         IN  /\ user_name'  = [user_name EXCEPT ![p] = nick]
             /\ id_program' = [id_program EXCEPT ![p] = id]
             /\ announced'  = [announced EXCEPT ![p] = @ \cup {Claimed(data)}]
             /\ flight'     = Broadcast(p, data)
  BY DEF Enter
<1> DEFINE data == Packet("1", <<WhosHere>>, nick, id)
<1>2. /\ nick \in Seq(Words) /\ id \in Words /\ "1" \in Words /\ WhosHere \in Words
  BY WordsAssumption, TypedAssumption
<1>3. Section(data, 2) = WhosHere
  BY <1>2, ControlSections
<1>4. \A type, word \in Words :
         Claimed(Packet(type, <<word>>, nick, id)) = Claimed(data)
  <2>1. ASSUME NEW type \in Words, NEW word \in Words
        PROVE  Claimed(Packet(type, <<word>>, nick, id)) = ShiftedClaim(nick, id)
    BY <1>2, ControlSections
  <2>2. Claimed(data) = ShiftedClaim(nick, id)
    BY <1>2, ControlSections
  <2> QED
    BY <2>1, <2>2
<1> HIDE DEF data
<1>5. /\ user_name'  = [user_name EXCEPT ![p] = nick]
      /\ id_program' = [id_program EXCEPT ![p] = id]
      /\ announced'  = [announced EXCEPT ![p] = @ \cup {Claimed(data)}]
      /\ flight'     = Broadcast(p, data)
  BY <1>1 DEF data
<1>6. /\ Monotonic
      /\ Claimed(data) \in announced'[p]
      /\ \A q \in Peers \ {p} : announced'[q] = announced[q]
  BY <1>5 DEF Enter, Shape, TypeOK, Monotonic
<1>7. FlightTruthful'
  <2>1. ASSUME NEW q \in Peers, NEW d \in flight'[q]
        PROVE  d \in flight[q] \/ Truthful(d)'
    <3>1. d \in flight[q] \/ (d.from = p /\ d.data = data)
      BY <1>5, <2>1, AddedByBroadcast
    <3> QED
      BY <1>3, <1>6, <3>1, DistinctWords DEF Truthful
  <2> QED
    BY <1>6, <2>1, FlightKept DEF Genuine
<1>8. SessionAnnounced'
  <2>1. ASSUME NEW q \in Peers, phase'[q] = "in", NEW type \in Words, NEW word \in Words
        PROVE  Claimed(Packet(type, <<word>>, user_name'[q], id_program'[q]))
                  \in announced'[q]
    <3>1. CASE q = p
      <4>1. user_name'[p] = nick /\ id_program'[p] = id
        BY <1>5 DEF Shape, TypeOK
      <4> QED
        BY <1>4, <1>6, <2>1, <3>1, <4>1
    <3>2. CASE q # p
      <4>1. /\ user_name'[q] = user_name[q] /\ id_program'[q] = id_program[q]
            /\ phase'[q] = phase[q] /\ announced'[q] = announced[q]
        BY <1>5, <1>6, <3>2 DEF Enter, Shape, TypeOK
      <4> QED
        BY <2>1, <4>1 DEF Genuine, SessionAnnounced
    <3> QED
      BY <3>1, <3>2
  <2> QED
    BY <2>1 DEF SessionAnnounced
<1>9. GenuineRoster'
  <2>1. vecUser'[p] = <<>> /\ \A q \in Peers \ {p} : vecUser'[q] = vecUser[q]
    BY DEF Enter, Shape, TypeOK
  <2> QED
    BY <1>6, <2>1, RosterKept DEF Genuine
<1>10. PlainTextsAttributed'
  BY <1>6, ShownKept DEF Genuine, Enter
<1> QED
  BY <1>7, <1>8, <1>9, <1>10 DEF Genuine

\* Sending a message changes nothing but the network
LEMMA SendGenuine ==
    ASSUME Shape, Genuine, NEW p \in Peers, phase[p] = "in", NEW text \in Texts,
           UNCHANGED <<phase, user_name, id_program, vecUser, shown, announced,
                       farewells>>,
           \A q \in Peers : \A d \in flight'[q] :
               d \in flight[q] \/ (d.from = p /\ d.data = Text(p, text))
    PROVE  Genuine'
<1>1. Monotonic
  BY DEF Monotonic
<1>2. ASSUME NEW d, Truthful(d) PROVE Truthful(d)'
  BY <1>2 DEF Truthful
<1>3. \A q \in Peers : \A d \in flight'[q] : d \in flight[q] \/ Truthful(d)'
  BY <1>2, TextTruthful DEF Genuine
<1>4. FlightTruthful'
  BY <1>1, <1>3, FlightKept DEF Genuine
<1>5. SessionAnnounced'
  BY <1>1, SessionKept DEF Genuine
<1>6. GenuineRoster'
  BY DEF Genuine, GenuineRoster
<1>7. PlainTextsAttributed'
  BY <1>1, ShownKept DEF Genuine
<1> QED
  BY <1>4, <1>5, <1>6, <1>7 DEF Genuine

LEMMA ExitChatGenuine ==
    ASSUME Shape, Genuine, NEW p \in Peers, ExitChat(p)
    PROVE  Genuine'
<1> DEFINE data == Control(p, "bye")
<1>1. /\ phase[p] = "in" /\ phase'[p] # "in"
      /\ \A q \in Peers \ {p} : phase'[q] = phase[q]
      /\ UNCHANGED <<shown, announced>>
  BY DEF ExitChat, Shape, TypeOK
<1>2. Claimed(data) \in announced[p]
  <2>1. "1" \in Words /\ "bye" \in Words
    BY WordsAssumption
  <2> QED
    BY <1>1, <2>1 DEF Control, Genuine, SessionAnnounced
<1> HIDE DEF data
<1>3. flight' = Broadcast(p, data) /\ farewells' = farewells \cup {Section(data, 4)}
  BY DEF ExitChat, data
<1>4. Monotonic
  BY <1>1, <1>3 DEF Monotonic
<1>5. \A q \in Peers : \A d \in flight'[q] : d \in flight[q] \/ Truthful(d)'
  <2>1. ASSUME NEW q \in Peers, NEW d \in flight'[q]
        PROVE  d \in flight[q] \/ (d.from = p /\ d.data = data)
    BY <1>3, <2>1, AddedByBroadcast
  <2>2. ASSUME NEW d, d.from = p, d.data = data PROVE Truthful(d)'
    BY <1>1, <1>2, <1>3, <2>2 DEF Truthful
  <2> QED
    BY <2>1, <2>2
<1> QED
  BY <1>1, <1>4, <1>5, ForgetGenuine DEF ExitChat

LEMMA GenuineStep ==
    ASSUME Shape, Genuine, [Next]_vars
    PROVE  Genuine'
<1>1. CASE UNCHANGED vars
  <2>1. Monotonic /\ UNCHANGED <<phase, user_name, id_program, shown, vecUser, flight>>
    BY <1>1 DEF vars, Monotonic
  <2>2. FlightTruthful' /\ SessionAnnounced' /\ PlainTextsAttributed'
    BY <2>1, FlightKept, SessionKept, ShownKept DEF Genuine
  <2>3. GenuineRoster'
    BY <1>1 DEF vars, Genuine, GenuineRoster
  <2> QED
    BY <2>2, <2>3 DEF Genuine
<1>2. ASSUME NEW p \in Peers, Enter(p) PROVE Genuine'
  BY <1>2, EnterGenuine
<1>3. ASSUME NEW p \in Peers, slotReadMessages(p) PROVE Genuine'
  BY <1>3, ReadGenuine
<1>4. ASSUME NEW p \in Peers, SendPersonal(p) PROVE Genuine'
  <2>1. PICK row \in DOMAIN contacts[p], text \in Texts :
           flight' = Unicast(flight, p, vecUser[p][row].address, Text(p, text))
    BY <1>4 DEF SendPersonal
  <2>2. vecUser[p][row] \in User
    BY DEF Shape, RowAddressesShownUser, TypeOK
  <2>3. vecUser[p][row].address \in Peers
    BY <2>2 DEF User
  <2>4. flight \in Network
    BY DEF Shape, TypeOK, Network
  <2>5. \A q \in Peers : \A d \in flight'[q] :
           d \in flight[q] \/ (d.from = p /\ d.data = Text(p, text))
    BY <2>1, <2>3, <2>4, AddedByUnicast
  <2> QED
    BY <1>4, <2>5, SendGenuine DEF SendPersonal, chat
<1>5. ASSUME NEW p \in Peers, SendToAll(p) PROVE Genuine'
  <2>1. PICK text \in Texts : flight' = Broadcast(p, Text(p, text))
    BY <1>5 DEF SendToAll
  <2>2. \A q \in Peers : \A d \in flight'[q] :
           d \in flight[q] \/ (d.from = p /\ d.data = Text(p, text))
    BY <2>1, AddedByBroadcast
  <2> QED
    BY <1>5, <2>2, SendGenuine DEF SendToAll, chat
<1>6. ASSUME NEW p \in Peers, ExitChat(p) PROVE Genuine'
  BY <1>6, ExitChatGenuine
<1>7. ASSUME NEW p \in Peers, CloseWindow(p) PROVE Genuine'
  BY <1>7, CrashGenuine DEF CloseWindow
<1> QED
  BY <1>1, <1>2, <1>3, <1>4, <1>5, <1>6, <1>7 DEF Next

\* The inductive invariant: every control packet in flight, and so everything
\* that AddUser stores and ShowText shows, tells what its host announced
\* (SendMessage, AddUser, slotReadMessages).
THEOREM GenuineInvariant == Spec => []Genuine
<1>1. Init => Genuine
  BY DEF Init, Genuine, FlightTruthful, SessionAnnounced, GenuineRoster,
         PlainTextsAttributed
<1>2. Shape /\ Genuine /\ [Next]_vars => Genuine'
  BY GenuineStep
<1> QED
  BY <1>1, <1>2, ShapeInvariant, PTL DEF Spec

\* A known user is one that the host at its address has announced (AddUser).
THEOREM RosterGenuine == Spec => []GenuineRoster
<1>1. Genuine => GenuineRoster
  BY DEF Genuine
<1> QED
  BY <1>1, GenuineInvariant, PTL

\* A message without a slash is shown under a name its sender has announced
\* (slotReadMessages, SendMessage).
THEOREM TextsAttributed == Spec => []PlainTextsAttributed
<1>1. Genuine => PlainTextsAttributed
  BY DEF Genuine
<1> QED
  BY <1>1, GenuineInvariant, PTL

-----------------------------------------------------------------------------
(* The chat implements the address book *)

Books == [p \in Peers |-> Known(vecUser[p])]

\* A peer that forgets has an empty book
LEMMA ForgetBooks ==
    ASSUME Shape, NEW p \in Peers, vecUser' = [vecUser EXCEPT ![p] = <<>>]
    PROVE  Books' = [Books EXCEPT ![p] = {}]
<1>1. vecUser'[p] = <<>> /\ \A q \in Peers \ {p} : vecUser'[q] = vecUser[q]
  BY DEF Shape, TypeOK
<1>2. Known(vecUser'[p]) = {}
  BY <1>1 DEF Known
<1>3. \A q \in Peers \ {p} : Known(vecUser'[q]) = Known(vecUser[q])
  BY <1>1
<1> QED
  BY <1>2, <1>3 DEF Books

LEMMA CrashBook ==
    ASSUME Shape, NEW p \in Peers, Crash(p)
    PROVE  Book!Next
<1>1. Books' = [Books EXCEPT ![p] = {}] /\ UNCHANGED <<announced, farewells>>
  BY ForgetBooks DEF Crash, Forget
<1> QED
  BY <1>1 DEF Books, Book!Next, Book!Leave

\* Copies of a user add one entry to the book
LEMMA PushBook ==
    ASSUME Shape, NEW p \in Peers, NEW client \in User, NEW n \in Nat, n > 0,
           Push(p, client, n), LabelOf(client) \in announced[client.address],
           UNCHANGED farewells
    PROVE  Book!Next
<1> DEFINE user == [address |-> client.address, label |-> LabelOf(client)]
<1>1. /\ vecUser[p] \in Seq(User)
      /\ vecUser'[p] = Pushed(vecUser[p], n, client)
      /\ \A q \in Peers \ {p} : vecUser'[q] = vecUser[q]
  BY DEF Push, Shape, TypeOK
<1>2. /\ \A i \in DOMAIN vecUser'[p] : \/ vecUser'[p][i] = client
                                       \/ /\ i \in DOMAIN vecUser[p]
                                          /\ vecUser'[p][i] = vecUser[p][i]
      /\ \A i \in DOMAIN vecUser[p] : i \in DOMAIN vecUser'[p]
                                      /\ vecUser'[p][i] = vecUser[p][i]
      /\ \E i \in DOMAIN vecUser'[p] : vecUser'[p][i] = client
  <2>1. /\ Len(vecUser[p]) \in Nat /\ DOMAIN vecUser[p] = 1..Len(vecUser[p])
        /\ DOMAIN vecUser'[p] = 1..(Len(vecUser[p]) + n)
        /\ \A i \in 1..(Len(vecUser[p]) + n) : vecUser'[p][i] =
              IF i <= Len(vecUser[p]) THEN vecUser[p][i] ELSE client
    BY <1>1 DEF Pushed
  <2>2. Len(vecUser[p]) + n \in 1..(Len(vecUser[p]) + n)
        /\ ~(Len(vecUser[p]) + n <= Len(vecUser[p]))
    BY <2>1
  <2>3. \E i \in DOMAIN vecUser'[p] : vecUser'[p][i] = client
    BY <2>1, <2>2
  <2>4. \A i \in DOMAIN vecUser'[p] : \/ vecUser'[p][i] = client
                                      \/ /\ i \in DOMAIN vecUser[p]
                                         /\ vecUser'[p][i] = vecUser[p][i]
    BY <2>1
  <2>5. \A i \in DOMAIN vecUser[p] : i \in DOMAIN vecUser'[p]
                                     /\ vecUser'[p][i] = vecUser[p][i]
    BY <2>1
  <2> QED
    BY <2>3, <2>4, <2>5
<1>3. Known(vecUser'[p]) = Known(vecUser[p]) \cup {user}
  BY <1>2 DEF Known
<1>4. Books' = [Books EXCEPT ![p] = @ \cup {user}]
  BY <1>1, <1>3 DEF Books
<1>5. client.address \in Peers /\ announced' = announced
  BY DEF User, Push
<1> QED
  BY <1>4, <1>5 DEF Books, Book!Next, Book!Learn

\* What slotDisconnected erases has the id of the bye
LEMMA DisconnectBook ==
    ASSUME Shape, NEW p \in Peers, NEW id \in farewells, NEW net,
           Disconnect(p, id, net)
    PROVE  Book!Next
<1> DEFINE erased == Erased(vecUser[p], id)
<1>1. PICK keep \in Survivors(Len(vecUser[p]), erased) :
         vecUser' = [vecUser EXCEPT ![p] = Pick(@, keep)]
  BY DEF Disconnect
<1>2. vecUser[p] \in Seq(User) /\ vecUser \in [Peers -> Seq(User)]
  BY DEF Shape, TypeOK
<1>3. \A i \in erased : i \in DOMAIN vecUser[p] /\ vecUser[p][i].program_id = id
  BY <1>2 DEF Erased
<1> HIDE DEF erased
<1>4. /\ vecUser'[p] = Pick(vecUser[p], keep)
      /\ \A q \in Peers \ {p} : vecUser'[q] = vecUser[q]
  BY <1>1, <1>2
<1>5. /\ \A i \in DOMAIN vecUser'[p] : \E j \in DOMAIN vecUser[p] :
            vecUser'[p][i] = vecUser[p][j]
      /\ \A j \in DOMAIN vecUser[p] \ erased : \E i \in DOMAIN vecUser'[p] :
            vecUser'[p][i] = vecUser[p][j]
  <2>1. /\ DOMAIN vecUser'[p] = DOMAIN keep
        /\ \A i \in DOMAIN keep : /\ keep[i] \in DOMAIN vecUser[p]
                                  /\ vecUser'[p][i] = vecUser[p][keep[i]]
    BY <1>2, <1>4, PickType
  <2>2. \A j \in (1..Len(vecUser[p])) \ erased : \E i \in DOMAIN keep : keep[i] = j
    BY DEF Survivors
  <2>3. DOMAIN vecUser[p] = 1..Len(vecUser[p])
    BY <1>2
  <2> QED
    BY <2>1, <2>2, <2>3
<1> DEFINE gone == Known(vecUser[p]) \ Known(vecUser'[p])
<1>6. Known(vecUser'[p]) = Known(vecUser[p]) \ gone
  <2>1. Known(vecUser'[p]) \subseteq Known(vecUser[p])
    BY <1>5 DEF Known
  <2> QED
    BY <2>1
<1>7. gone \in SUBSET {user \in Known(vecUser[p]) : user.label[2] = id}
  <2>1. ASSUME NEW user \in gone PROVE user.label[2] = id
    <3>1. PICK j \in DOMAIN vecUser[p] :
             user = [address |-> vecUser[p][j].address, label |-> LabelOf(vecUser[p][j])]
      BY DEF Known
    <3>2. j \in erased
      <4>1. ASSUME j \notin erased PROVE user \in Known(vecUser'[p])
        BY <1>5, <3>1, <4>1 DEF Known
      <4> QED
        BY <4>1
    <3> QED
      BY <1>3, <3>1, <3>2 DEF LabelOf
  <2> QED
    BY <2>1
<1> HIDE DEF gone
<1>8. Books' = [Books EXCEPT ![p] = @ \ gone]
  BY <1>4, <1>6 DEF Books
<1>9. UNCHANGED <<announced, farewells>>
  BY DEF Disconnect
<1>10. gone \in SUBSET {user \in Books[p] : user.label[2] = id}
  BY <1>7 DEF Books
<1> QED
  BY <1>8, <1>9, <1>10 DEF Books, Book!Next, Book!Drop

LEMMA AddUserBook ==
    ASSUME Shape, NEW p \in Peers, NEW address \in Peers,
           NEW nikname \in Words, NEW id \in Words, NEW back_send \in BOOLEAN,
           NEW net, <<nikname, id>> \in announced[address],
           AddUser(p, address, nikname, id, back_send, net)
    PROVE  Book!Next \/ UNCHANGED <<announced, farewells, vecUser>>
<1> DEFINE client == [address |-> address, nikname |-> nikname, program_id |-> id]
<1>1. client \in User /\ LabelOf(client) \in announced[client.address]
  BY DEF User, LabelOf
<1>2. CASE AddKnown(p, id, net)
  BY <1>2 DEF AddKnown, Ignore, chat
<1> HIDE DEF client
<1>3. CASE AddFirst(p, client, back_send, net)
  <2>1. UNCHANGED farewells
    BY <1>3 DEF AddFirst, Push
  <2> QED
    BY <1>1, <1>3, <2>1, PushBook DEF AddFirst
<1>4. CASE AddLater(p, client, net)
  <2>1. PICK n \in CopiesPushed(vecUser[p], client.program_id) : Push(p, client, n)
    BY <1>4 DEF AddLater
  <2>2. n \in Nat /\ n > 0
    BY DEF CopiesPushed, Shape, TypeOK
  <2>3. UNCHANGED farewells
    BY <2>1 DEF Push
  <2> QED
    BY <1>1, <2>1, <2>2, <2>3, PushBook
<1>5. CASE AddCrash(p, id, net)
  BY <1>5, CrashBook DEF AddCrash
<1> QED
  BY <1>2, <1>3, <1>4, <1>5 DEF AddUser, client

LEMMA ReadBook ==
    ASSUME Shape, Genuine, NEW p \in Peers, slotReadMessages(p)
    PROVE  Book!Next \/ UNCHANGED <<announced, farewells, vecUser>>
<1>1. PICK burst \in Bursts(p) : \E last \in burst :
         Dispatch(p, last, [flight EXCEPT ![p] = @ \ burst])
  BY DEF slotReadMessages
<1>2. PICK last \in burst : Dispatch(p, last, [flight EXCEPT ![p] = @ \ burst])
  BY <1>1
<1> DEFINE net == [flight EXCEPT ![p] = @ \ burst]
           nikname == Section(last.data, 3)
           id == Section(last.data, 4)
<1>3. Dispatch(p, last, net)
  BY <1>2
<1> HIDE DEF net
<1>4. last \in flight[p] /\ last.from \in Peers /\ last.data \in Seq(Words)
  BY DEF Bursts, Shape, TypeOK, Datagram
<1>5. nikname \in Words /\ id \in Words
  BY <1>4, SectionType
<1>6. Truthful(last)
  BY <1>4 DEF Genuine, FlightTruthful
<1>7. CASE Section(last.data, 1) = "1" /\ Section(last.data, 2) \in {WhosHere, "hi"}
           /\ AddUser(p, last.from, nikname, id, Section(last.data, 2) = WhosHere, net)
  <2>1. <<nikname, id>> \in announced[last.from]
    BY <1>6, <1>7 DEF Truthful, Claimed
  <2> QED
    BY <1>4, <1>5, <1>7, <2>1, AddUserBook
<1>8. CASE Section(last.data, 1) = "1" /\ Section(last.data, 2) = "bye"
           /\ slotDisconnected(p, id, net)
  <2>1. id \in farewells
    BY <1>6, <1>8 DEF Truthful
  <2>2. CASE Disconnect(p, id, net)
    BY <2>1, <2>2, DisconnectBook
  <2>3. CASE DisconnectUnknown(p, id, net)
    BY <2>3 DEF DisconnectUnknown, Ignore, chat
  <2>4. CASE DisconnectCrash(p, id, net)
    BY <2>4, CrashBook DEF DisconnectCrash
  <2> QED
    BY <1>8, <2>2, <2>3, <2>4 DEF slotDisconnected
<1>9. CASE \/ ShowText(p, last.from, Section(last.data, 2), nikname, id, net)
           \/ OwnText(p, id, net)
  BY <1>9 DEF ShowText, OwnText, Ignore, chat
<1> QED
  BY <1>3, <1>7, <1>8, <1>9 DEF Dispatch

LEMMA EnterBook ==
    ASSUME Shape, NEW p \in Peers, Enter(p)
    PROVE  Book!Next
<1>1. PICK nick \in Nicks, id \in Ids :
         announced' = [announced EXCEPT ![p] =
            @ \cup {Claimed(Packet("1", <<WhosHere>>, nick, id))}]
  BY DEF Enter
<1>2. Packet("1", <<WhosHere>>, nick, id) \in Seq(Words)
  <2>1. nick \in Seq(Words) /\ id \in Words /\ "1" \in Words
    BY WordsAssumption, TypedAssumption
  <2>2. <<WhosHere>> \in Seq(Words)
    BY WordsAssumption
  <2> QED
    BY <2>1, <2>2, PacketType
<1> DEFINE label == Claimed(Packet("1", <<WhosHere>>, nick, id))
<1>3. label \in Label
  BY <1>2, SectionType DEF Claimed, Label
<1>4. announced' = [announced EXCEPT ![p] = @ \cup {label}]
  BY <1>1
<1>5. Books' = [Books EXCEPT ![p] = {}] /\ UNCHANGED farewells
  BY ForgetBooks DEF Enter
<1> HIDE DEF label
<1> QED
  BY <1>3, <1>4, <1>5 DEF Books, Book!Next, Book!Announce

LEMMA ExitBook ==
    ASSUME Shape, Genuine, NEW p \in Peers, ExitChat(p)
    PROVE  Book!Next
<1> DEFINE label == Claimed(Control(p, "bye"))
<1>1. label \in announced[p]
  <2>1. "1" \in Words /\ "bye" \in Words
    BY WordsAssumption
  <2> QED
    BY <2>1 DEF ExitChat, Control, Genuine, SessionAnnounced
<1>2. farewells' = farewells \cup {label[2]}
  BY DEF ExitChat, Claimed
<1>3. Books' = [Books EXCEPT ![p] = {}] /\ UNCHANGED announced
  BY ForgetBooks DEF ExitChat, Forget
<1> HIDE DEF label
<1> QED
  BY <1>1, <1>2, <1>3 DEF Books, Book!Next, Book!Leave

LEMMA BookStep ==
    ASSUME Shape, Genuine, [Next]_vars
    PROVE  [Book!Next]_Book!vars
<1>1. ASSUME UNCHANGED <<announced, farewells, vecUser>> PROVE UNCHANGED Book!vars
  BY <1>1 DEF Book!vars
<1>2. CASE UNCHANGED vars
  BY <1>1, <1>2 DEF vars
<1>3. ASSUME NEW p \in Peers, Enter(p) PROVE Book!Next
  BY <1>3, EnterBook
<1>4. ASSUME NEW p \in Peers, slotReadMessages(p) PROVE [Book!Next]_Book!vars
  BY <1>1, <1>4, ReadBook
<1>5. ASSUME NEW p \in Peers, SendPersonal(p) \/ SendToAll(p)
      PROVE  UNCHANGED Book!vars
  BY <1>1, <1>5 DEF SendPersonal, SendToAll, chat
<1>6. ASSUME NEW p \in Peers, ExitChat(p) PROVE Book!Next
  BY <1>6, ExitBook
<1>7. ASSUME NEW p \in Peers, CloseWindow(p) PROVE Book!Next
  BY <1>7, CrashBook DEF CloseWindow
<1> QED
  BY <1>2, <1>3, <1>4, <1>5, <1>6, <1>7 DEF Next

\* The chat implements the address book: every step of the handlers adds one
\* announced user, drops users of one id that has said bye, empties a book, or
\* changes no book.
THEOREM Refinement == Spec => ImplementsAddressBook
<1>1. Init => Book!Init
  BY DEF Init, Book!Init, Known
<1>2. Shape /\ Genuine /\ [Next]_vars => [Book!Next]_Book!vars
  BY BookStep
<1> QED
  BY <1>1, <1>2, ShapeInvariant, GenuineInvariant, PTL
     DEF Spec, ImplementsAddressBook, Book!Spec
-----------------------------------------------------------------------------
(* What a bye erases.  The walk of slotDisconnected is a recursive function  *)
(* of the position.                                                          *)

\* Induction over the roster is by the least position at which something fails
LEMMA LeastElement ==
    ASSUME NEW T, T \subseteq Nat, T # {}
    PROVE  \E n \in T : \A m \in T : n <= m
<1> DEFINE R == OpToRel(<, Nat)
<1>1. \E n \in T : \A m \in T : ~(<<m, n>> \in R)
  <2>1. IsWellFoundedOn(R, Nat)
    BY NatLessThanWellFounded, Zenon
  <2> HIDE DEF R
  <2> QED
    BY <2>1, WFMin, Zenon
<1>2. ASSUME NEW n \in Nat, NEW m \in Nat, ~(<<m, n>> \in R) PROVE n <= m
  BY <1>2 DEF OpToRel
<1> QED
  BY <1>1, <1>2

\* What the walk of slotDisconnected does up to position n: see Erased
Walk(vec, id, n, erased) ==
    erased = [i \in 0..n |-> i > 0 /\ vec[i].program_id = id /\ ~erased[i - 1]]

\* There is one such function, so that the one CHOOSE takes is one
LEMMA WalkExists ==
    ASSUME NEW vec, NEW id, NEW n \in Nat
    PROVE  \E erased : Walk(vec, id, n, erased)
<1> DEFINE T == {k \in Nat : ~\E erased : Walk(vec, id, k, erased)}
<1>1. SUFFICES ASSUME T # {} PROVE FALSE
  OBVIOUS
<1>2. PICK k \in T : \A m \in T : k <= m
  <2> HIDE DEF T
  <2>1. T \subseteq Nat
    BY DEF T
  <2> QED
    BY <1>1, <2>1, LeastElement
<1>3. CASE k = 0
  <2> DEFINE e == [i \in 0..0 |-> FALSE]
  <2>1. \A i \in 0..0 : ~(i > 0)
    OBVIOUS
  <2>2. Walk(vec, id, 0, e)
    BY <2>1 DEF Walk
  <2> QED
    BY <1>3, <2>2
<1>4. CASE k # 0
  <2>1. k - 1 \in Nat /\ k - 1 \notin T
    BY <1>2, <1>4
  <2>2. PICK g : Walk(vec, id, k - 1, g)
    BY <2>1
  <2> DEFINE last == vec[k].program_id = id /\ ~g[k - 1]
             e == [i \in 0..k |-> IF i = k THEN last ELSE g[i]]
  <2>3. \A i \in 0..(k - 1) : g[i] = (i > 0 /\ vec[i].program_id = id /\ ~g[i - 1])
    BY <2>2 DEF Walk
  <2>4. ASSUME NEW i \in 0..k
        PROVE  e[i] = (i > 0 /\ vec[i].program_id = id /\ ~e[i - 1])
    <3>1. CASE i = k
      <4>1. e[k - 1] = g[k - 1] /\ e[k] = last /\ k > 0
        BY <2>1
      <4> QED
        BY <3>1, <4>1
    <3>2. CASE i # k
      <4>1. e[i] = g[i] /\ i \in 0..(k - 1)
        BY <3>2
      <4>2. CASE i = 0
        <5>1. 0 \in 0..(k - 1) /\ ~(0 > 0)
          BY <2>1
        <5>2. g[0] = (0 > 0 /\ vec[0].program_id = id /\ ~g[0 - 1])
          BY <2>3, <5>1
        <5>3. g[0] = FALSE
          BY <5>1, <5>2
        <5>4. (i > 0 /\ vec[i].program_id = id /\ ~e[i - 1]) = FALSE
          BY <4>2, <5>1
        <5> HIDE DEF e
        <5> QED
          BY <4>1, <4>2, <5>3, <5>4
      <4>3. CASE i # 0
        <5>1. e[i - 1] = g[i - 1]
          BY <4>1, <4>3
        <5> QED
          BY <2>3, <4>1, <4>3, <5>1
      <4> QED
        BY <4>2, <4>3
    <3> QED
      BY <3>1, <3>2
  <2> HIDE DEF last
  <2>5. Walk(vec, id, k, e)
    <3> DEFINE f == [i \in 0..k |-> i > 0 /\ vec[i].program_id = id /\ ~e[i - 1]]
    <3>1. DOMAIN e = 0..k /\ DOMAIN f = 0..k
      OBVIOUS
    <3>2. \A i \in 0..k : e[i] = f[i]
      BY <2>4
    <3>3. e = f
      <4>1. e = [i \in 0..k |-> e[i]] /\ f = [i \in 0..k |-> f[i]]
        OBVIOUS
      <4> HIDE DEF e, f
      <4> QED
        BY <4>1, <3>2, Zenon
    <3> QED
      BY <3>3, Zenon DEF Walk
  <2> QED
    BY <2>5
<1> QED
  BY <1>3, <1>4

\* Of two neighbours with this id one is erased
LEMMA ErasedNeighbours ==
    ASSUME NEW vec \in Seq(User), NEW id, NEW i \in 2..Len(vec),
           vec[i - 1].program_id = id, vec[i].program_id = id
    PROVE  i - 1 \in Erased(vec, id) \/ i \in Erased(vec, id)
<1>0. Len(vec) \in Nat
  OBVIOUS
<1> DEFINE erased == CHOOSE e : Walk(vec, id, Len(vec), e)
<1>1. Walk(vec, id, Len(vec), erased)
  BY <1>0, WalkExists
<1>2. Erased(vec, id) = {j \in 1..Len(vec) : vec[j].program_id = id /\ ~erased[j - 1]}
  BY DEF Erased, Walk
<1> HIDE DEF erased
<1>3. erased[i - 1] = (i - 1 > 0 /\ vec[i - 1].program_id = id /\ ~erased[(i - 1) - 1])
  BY <1>0, <1>1 DEF Walk
<1>4. i - 1 \in 1..Len(vec) /\ i \in 1..Len(vec) /\ i - 1 > 0
  BY <1>0
<1> QED
  BY <1>2, <1>3, <1>4

\* What Disconnect leaves: all the users with other ids, in their order
LEMMA DisconnectLeaves ==
    ASSUME Shape, NEW p \in Peers, NEW id \in farewells, NEW net, Disconnect(p, id, net)
    PROVE  TakesOnly(p, id)
<1> DEFINE erased == Erased(vecUser[p], id)
<1>1. PICK keep \in Survivors(Len(vecUser[p]), erased) :
         vecUser' = [vecUser EXCEPT ![p] = Pick(@, keep)]
  BY DEF Disconnect
<1>2. vecUser[p] \in Seq(User) /\ vecUser \in [Peers -> Seq(User)]
  BY DEF Shape, TypeOK
<1>3. DOMAIN vecUser[p] = 1..Len(vecUser[p]) /\ Len(vecUser[p]) \in Nat
  BY <1>2
<1>4. \A i \in erased : i \in DOMAIN vecUser[p] /\ vecUser[p][i].program_id = id
  BY <1>2 DEF Erased
<1>5. \A i \in 2..Len(vecUser[p]) :
         vecUser[p][i - 1].program_id = id /\ vecUser[p][i].program_id = id =>
             i - 1 \in erased \/ i \in erased
  BY <1>2, ErasedNeighbours
<1> HIDE DEF erased
<1>6. vecUser'[p] = Pick(vecUser[p], keep)
  BY <1>1, <1>2
<1>7. /\ DOMAIN vecUser'[p] = DOMAIN keep
      /\ \A i \in DOMAIN keep : /\ keep[i] \in DOMAIN vecUser[p]
                                /\ vecUser'[p][i] = vecUser[p][keep[i]]
  BY <1>2, <1>6, PickType
<1>8. /\ \A i \in (1..Len(vecUser[p])) \ erased : \E j \in DOMAIN keep : keep[j] = i
      /\ \A i, j \in DOMAIN keep : i < j => keep[i] < keep[j]
      /\ \A i \in DOMAIN keep : keep[i] \notin erased
  BY DEF Survivors
<1>9. keep \in [DOMAIN vecUser'[p] -> DOMAIN vecUser[p]]
  <2>1. \E k \in Nat : keep \in [1..k -> (1..Len(vecUser[p])) \ erased]
    BY <1>3 DEF Survivors
  <2> QED
    BY <1>3, <1>7, <2>1
<1> DEFINE Stays(i) == \E j \in DOMAIN keep : keep[j] = i
<1>10. \A i \in DOMAIN vecUser[p] : Stays(i) \/ vecUser[p][i].program_id = id
  BY <1>3, <1>4, <1>8
<1>11. ASSUME NEW i \in 2..Len(vecUser[p]), vecUser[p][i - 1].program_id = id,
              vecUser[p][i].program_id = id
       PROVE  ~(Stays(i - 1) /\ Stays(i))
  BY <1>5, <1>8, <1>11
<1> QED
  BY <1>7, <1>8, <1>9, <1>10, <1>11 DEF TakesOnly

\* A roster that gets shorter in the chat does so because of a bye
LEMMA ShorterByBye ==
    ASSUME Shape, WindowCleared, Genuine, Shape', NEW p \in Peers, [Next]_vars,
           Len(vecUser'[p]) < Len(vecUser[p]), phase'[p] = "in"
    PROVE  \E id \in farewells : \E net : Disconnect(p, id, net)
<1>1. vecUser[p] \in Seq(User) /\ vecUser'[p] \in Seq(User)
  BY DEF Shape, TypeOK
<1>2. vecUser'[p] # vecUser[p] /\ vecUser[p] # <<>>
  BY <1>1
<1>3. vecUser' # vecUser
  BY <1>2
<1>4. PICK q \in Peers : \/ Enter(q) \/ slotReadMessages(q) \/ ExitChat(q) \/ CloseWindow(q)
  BY <1>3 DEF Next, vars, SendPersonal, SendToAll, chat
<1>5. ~Enter(q)
  <2>1. ASSUME Enter(q) PROVE FALSE
    <3>1. q = p
      BY <1>2, <2>1 DEF Enter, Shape, TypeOK
    <3> QED
      BY <1>2, <2>1, <3>1 DEF Enter, WindowCleared
  <2> QED
    BY <2>1
<1>6. ASSUME Forget(q), phase'[q] # "in" PROVE FALSE
  <2>1. q = p
    BY <1>2, <1>6 DEF Forget, Shape, TypeOK
  <2> QED
    BY <1>6, <2>1
<1>7. ~ExitChat(q)
  BY <1>6 DEF ExitChat, Shape, TypeOK
<1>8. ~Crash(q)
  BY <1>6 DEF Crash, Shape, TypeOK
<1>9. slotReadMessages(q)
  BY <1>4, <1>5, <1>7, <1>8 DEF CloseWindow
<1>10. PICK burst \in Bursts(q) : \E d \in burst :
          Dispatch(q, d, [flight EXCEPT ![q] = @ \ burst])
  BY <1>9 DEF slotReadMessages
<1>11. PICK last \in burst : Dispatch(q, last, [flight EXCEPT ![q] = @ \ burst])
  BY <1>10
<1> DEFINE net == [flight EXCEPT ![q] = @ \ burst]
           id  == Section(last.data, 4)
<1>12. Truthful(last)
  BY DEF Bursts, Genuine, FlightTruthful
<1>13. ASSUME NEW client, NEW n, Push(q, client, n), n \in Nat PROVE FALSE
  <2>1. vecUser'[q] = Pushed(vecUser[q], n, client) /\ vecUser[q] \in Seq(User)
        /\ \A r \in Peers \ {q} : vecUser'[r] = vecUser[r]
    BY <1>13 DEF Push, Shape, TypeOK
  <2>2. q = p
    BY <1>2, <2>1
  <2>3. DOMAIN vecUser'[p] = 1..(Len(vecUser[p]) + n)
    BY <2>1, <2>2 DEF Pushed
  <2>4. Len(vecUser'[p]) = Len(vecUser[p]) + n
    BY <1>1, <1>13, <2>3
  <2> QED
    BY <1>1, <1>13, <2>4
<1>14. Section(last.data, 1) = "1" /\ Section(last.data, 2) = "bye" /\ Disconnect(q, id, net)
  <2>1. \A client : ~AddFirst(q, client, TRUE, net) /\ ~AddFirst(q, client, FALSE, net)
    BY <1>13 DEF AddFirst
  <2>2. \A client : ~AddLater(q, client, net)
    <3>1. vecUser[q] \in Seq(User)
      BY DEF Shape, TypeOK
    <3> QED
      BY <1>13, <3>1 DEF AddLater, CopiesPushed
  <2>3. ~Ignore(net) /\ \A from, message, nikname : ~ShowText(q, from, message, nikname, id, net)
    BY <1>3 DEF Ignore, ShowText, chat
  <2>4. ASSUME NEW address, NEW nikname, NEW back_send \in BOOLEAN,
               AddUser(q, address, nikname, id, back_send, net)
        PROVE  FALSE
    BY <1>8, <2>1, <2>2, <2>3, <2>4 DEF AddUser, AddKnown, AddCrash
  <2>5. ~OwnText(q, id, net) /\ ~DisconnectUnknown(q, id, net) /\ ~DisconnectCrash(q, id, net)
    BY <1>8, <2>3 DEF OwnText, DisconnectUnknown, DisconnectCrash
  <2> HIDE DEF net
  <2>6. (Section(last.data, 2) = WhosHere) \in BOOLEAN
    OBVIOUS
  <2> QED
    BY <1>11, <2>3, <2>4, <2>5, <2>6 DEF Dispatch, slotDisconnected, net
<1>15. q = p
  BY <1>2, <1>14 DEF Disconnect, Shape, TypeOK
<1>16. id \in farewells
  BY <1>12, <1>14 DEF Truthful
<1> QED
  BY <1>14, <1>15, <1>16

\* Whatever the walk over the changing vector skips, a bye takes users of one
\* id that has said bye, leaves all others in their order and leaves no two
\* neighbours with that id (slotDisconnected).
THEOREM ByesRemoveOneId == Spec => ByeRemovesOneId
<1>1. Shape /\ WindowCleared /\ Genuine /\ Shape' /\ [Next]_vars =>
         [\A p \in Peers :
             Len(vecUser'[p]) < Len(vecUser[p]) /\ phase'[p] = "in" =>
                \E id \in farewells : TakesOnly(p, id)]_vars
  BY ShorterByBye, DisconnectLeaves
<1> QED
  BY <1>1, ShapeInvariant, GenuineInvariant, PTL DEF Spec, ByeRemovesOneId
=============================================================================
