------------------------- MODULE FileExchangeProofs -------------------------
(***************************************************************************)
(* Proofs about FileExchange: type correctness and every invariant of its  *)
(* run, for every set of programs, every set of files and every bound.     *)
(*                                                                         *)
(* One buffer serves all programs, so what is sent from it must be tied to *)
(* who is served.  Taken says that a program is taken once, that nothing   *)
(* has been read from it and nothing sent to it before, and that between   *)
(* the two answers to one request the buffer is still of what was read,    *)
(* also when a path outside its bounds has been written over it.           *)
(***************************************************************************)
EXTENDS FileExchange, SequenceTheorems, TLAPS

\* Nothing has been read from a program or sent to it
Untouched(p) ==
    /\ read[p] = <<>> /\ toClient[p] = <<>>
    /\ p \in Clients => written[p] = <<>>

\* The same after a step
StillUntouched(p) ==
    /\ read'[p] = <<>> /\ toClient'[p] = <<>>
    /\ p \in Clients => written'[p] = <<>>

\* A program is connected as its phase says
Connected == \A c \in Clients :
    /\ phase[c] = "off" => end[c] = "none"
    /\ phase[c] \in {"first", "prompt", "file", "reading"} => end[c] = "open"
    /\ end[c] # "half"

\* Who waits is untouched and waits once, and so is who is about to be read
Taken ==
    /\ \A i \in 1..Len(backlog) : Untouched(backlog[i]) /\ end[backlog[i]] # "none"
    /\ \A i, j \in 1..Len(backlog) : backlog[i] = backlog[j] => i = j
    /\ \A p \in Programs : end[p] = "none" => Untouched(p)
    /\ newsockfd # None =>
          end[newsockfd] # "none" /\ \A i \in 1..Len(backlog) : backlog[i] # newsockfd
    /\ at \in {"recv", "again"} => newsockfd # None
    /\ at = "recv" => Untouched(newsockfd)

\* What the server may send to a program
Sendable(p, text) == Own(p, text) \/ (end[p] # "open" /\ read[p] = <<>>)

Answered ==
    /\ at = "again" => Sendable(newsockfd, buffer)
    /\ \A p \in Programs : \A i \in 1..Len(toClient[p]) : Sendable(p, toClient[p][i])
    /\ \A c \in Clients : \A i \in 1..Len(written[c]) : \A j \in 1..Len(written[c][i]) :
          Own(c, written[c][i][j])

-----------------------------------------------------------------------------
(* Types *)

ServerTypes ==
    /\ at \in Steps
    /\ newsockfd \in Programs \cup {None}
    /\ backlog \in Seq(Programs)
    /\ descriptors \in 0..MaxDescriptors
    /\ buffer \in Texts
    /\ read \in [Programs -> Seq(Lines)]

WireTypes ==
    /\ toServer \in [Programs -> Seq(Lines)]
    /\ toClient \in [Programs -> Seq(Texts)]

ProgramTypes ==
    /\ phase \in [Clients -> Phases]
    /\ end \in [Programs -> {"none", "open", "half", "closed"}]
    /\ written \in [Clients -> Seq(Seq(Texts))]
    /\ sent \in [Programs -> Nat]

LEMMA TypesApart == TypeOK <=> ServerTypes /\ WireTypes /\ ProgramTypes
  BY DEF TypeOK, ServerTypes, WireTypes, ProgramTypes

LEMMA Facts ==
    /\ MaxDescriptors \in Nat
    /\ None \notin Programs
    /\ Clients \subseteq Programs /\ Others \subseteq Programs
    /\ \A c \in Clients : c \notin Others
    /\ "empty" \in Lines
<1>1. MaxDescriptors \in Nat
  BY BoundsAssumption
<1>2. None \notin Programs /\ \A c \in Clients : c \notin Others
  BY ProgramsAssumption
<1>3. "empty" \in Lines
  BY DEF Lines
<1> QED
  BY <1>1, <1>2, <1>3 DEF Programs

\* The two parts of a sequence
LEMMA Parts ==
  ASSUME NEW S, NEW s \in Seq(S), NEW k \in 0..Len(s)
  PROVE  /\ SubSeq(s, 1, k) \in Seq(S) /\ Len(SubSeq(s, 1, k)) = k
         /\ \A i \in 1..k : SubSeq(s, 1, k)[i] = s[i]
         /\ SubSeq(s, k + 1, Len(s)) \in Seq(S) /\ Len(SubSeq(s, k + 1, Len(s))) = Len(s) - k
         /\ \A i \in 1..(Len(s) - k) : SubSeq(s, k + 1, Len(s))[i] = s[i + k]
<1>1. Len(s) \in Nat /\ k \in Nat /\ k <= Len(s)
  OBVIOUS
<1>2. \A i \in 1..k : s[i] \in S
  BY <1>1
<1>3. \A i \in (k + 1)..Len(s) : s[i] \in S
  BY <1>1
<1>4. /\ SubSeq(s, 1, k) \in Seq(S)
      /\ Len(SubSeq(s, 1, k)) = IF 1 <= k THEN k - 1 + 1 ELSE 0
      /\ \A i \in 1..(k - 1 + 1) : SubSeq(s, 1, k)[i] = s[1 + i - 1]
  BY <1>1, <1>2, SubSeqProperties
<1>5. /\ SubSeq(s, k + 1, Len(s)) \in Seq(S)
      /\ Len(SubSeq(s, k + 1, Len(s))) = IF k + 1 <= Len(s) THEN Len(s) - (k + 1) + 1 ELSE 0
      /\ \A i \in 1..(Len(s) - (k + 1) + 1) : SubSeq(s, k + 1, Len(s))[i] = s[k + 1 + i - 1]
  BY <1>1, <1>3, SubSeqProperties
<1>6. Len(SubSeq(s, 1, k)) = k /\ Len(SubSeq(s, k + 1, Len(s))) = Len(s) - k
  BY <1>1, <1>4, <1>5
<1>7. ASSUME NEW i \in 1..k PROVE SubSeq(s, 1, k)[i] = s[i]
  <2>1. i \in 1..(k - 1 + 1) /\ 1 + i - 1 = i
    BY <1>1
  <2> QED
    BY <1>4, <2>1
<1>8. ASSUME NEW i \in 1..(Len(s) - k) PROVE SubSeq(s, k + 1, Len(s))[i] = s[i + k]
  <2>1. i \in 1..(Len(s) - (k + 1) + 1) /\ k + 1 + i - 1 = i + k
    BY <1>1
  <2> QED
    BY <1>5, <2>1
<1> QED
  BY <1>4, <1>5, <1>6, <1>7, <1>8

\* One more element at one place
LEMMA AppendAt ==
  ASSUME NEW P, NEW S, NEW f \in [P -> Seq(S)], NEW c \in P, NEW e \in S,
         NEW g, g = [f EXCEPT ![c] = Append(@, e)]
  PROVE  /\ g \in [P -> Seq(S)]
         /\ \A d \in P : d # c => g[d] = f[d]
         /\ Len(g[c]) = Len(f[c]) + 1
         /\ g[c][Len(f[c]) + 1] = e
         /\ \A i \in 1..Len(f[c]) : g[c][i] = f[c][i]
<1>1. g[c] = Append(f[c], e) /\ f[c] \in Seq(S)
  OBVIOUS
<1>2. g \in [P -> Seq(S)] /\ \A d \in P : d # c => g[d] = f[d]
  BY <1>1
<1> QED
  BY <1>1, <1>2

LEMMA TextTypes ==
  ASSUME NEW p \in Programs, NEW lines \in Seq(Lines)
  PROVE  Text(p, lines) \in Texts
  BY DEF Text, Texts

\* What is written over keeps its owner and its lines
LEMMA OverTypes ==
  ASSUME NEW text \in Texts
  PROVE  Over(text) \in Texts /\ Over(text).owner = text.owner /\ Over(text).lines = text.lines
  BY DEF Over, Texts

LEMMA SendTypes ==
  ASSUME WireTypes, NEW p \in Programs, NEW text \in Texts, Send(p, text)
  PROVE  toClient' \in [Programs -> Seq(Texts)]
<1>1. CASE end[p] = "closed"
  BY <1>1 DEF Send, WireTypes
<1>2. CASE end[p] # "closed"
  BY <1>2 DEF Send, WireTypes
<1> QED
  BY <1>1, <1>2

\* Where the server goes on from what it has in its buffer
Onward == \/ at' \in {"accept", "again"} /\ backlog' = backlog
          \/ End /\ toClient' = toClient

LEMMA WritesAt ==
  ASSUME NEW p \in Programs, NEW text \in Texts, WritesOutside(p, text)
  PROVE  /\ Onward
         /\ buffer' \in Texts /\ buffer'.owner = text.owner /\ buffer'.lines = text.lines
         /\ toClient' = toClient \/ Send(p, buffer')
<1>1. buffer' = text \/ buffer' = Over(text)
  BY DEF WritesOutside
<1>2. buffer' \in Texts /\ buffer'.owner = text.owner /\ buffer'.lines = text.lines
  BY <1>1, OverTypes
<1>3. CASE End /\ toClient' = toClient
  BY <1>2, <1>3 DEF Onward
<1>4. CASE /\ at' \in {"accept", "again"} /\ backlog' = backlog
           /\ Send(p, buffer') \/ UNCHANGED toClient
  BY <1>2, <1>4 DEF Onward
<1> QED
  BY <1>3, <1>4 DEF WritesOutside

LEMMA AnswerAt ==
  ASSUME NEW p \in Programs, NEW text \in Texts, Answer(p, text)
  PROVE  /\ Onward /\ (at' = "ended" => Outside(text))
         /\ buffer' \in Texts /\ buffer'.owner = text.owner /\ buffer'.lines = text.lines
         /\ toClient' = toClient \/ Send(p, buffer')
<1>1. CASE Outside(text) /\ WritesOutside(p, text)
  BY <1>1, WritesAt
<1>2. CASE /\ at' \in {"accept", "again"} /\ backlog' = backlog
           /\ buffer' = text \/ buffer' = Over(text)
           /\ toClient' = toClient \/ Send(p, buffer')
  BY <1>2, OverTypes DEF Onward
<1>3. CASE buffer' = text /\ Send(p, text) /\ at' = "again" /\ backlog' = backlog
  BY <1>2, <1>3
<1> QED
  BY <1>1, <1>2, <1>3 DEF Answer

\* The server goes on from what is in its buffer already
LEMMA RemainsAt ==
  ASSUME NEW p \in Programs, buffer \in Texts, ReceiveNothing(p) \/ SendAgain(p)
  PROVE  /\ Onward /\ (at' = "ended" => at = "recv" \/ Breaks(p))
         /\ buffer' \in Texts /\ buffer'.owner = buffer.owner /\ buffer'.lines = buffer.lines
         /\ toClient' = toClient \/ Send(p, buffer')
         /\ at' = "again" => at = "recv"
<1>1. CASE at = "recv" /\ WritesOutside(p, buffer)
  BY <1>1, WritesAt
<1>2. CASE at = "recv" /\ at' = NextAfterError /\ UNCHANGED <<backlog, buffer, toClient>>
  BY <1>2 DEF Onward, NextAfterError
<1>3. CASE SendAgain(p)
  <2>1. CASE at' = "accept" /\ Send(p, buffer) /\ UNCHANGED <<backlog, buffer>>
    BY <2>1 DEF Onward
  <2>2. CASE Breaks(p) /\ End /\ UNCHANGED <<toClient, buffer>>
    BY <2>2 DEF Onward, End
  <2> QED
    BY <1>3, <2>1, <2>2 DEF SendAgain
<1>4. CASE ReceiveNothing(p)
  BY <1>1, <1>2, <1>4 DEF ReceiveNothing
<1> QED
  BY <1>3, <1>4

LEMMA OnwardTypes ==
  ASSUME ServerTypes, WireTypes, NEW p \in Programs, Onward,
         buffer' \in Texts, toClient' = toClient \/ Send(p, buffer')
  PROVE  /\ at' \in Steps /\ backlog' \in Seq(Programs)
         /\ toClient' \in [Programs -> Seq(Texts)]
<1>1. at' \in Steps
  BY DEF Onward, End, Steps
<1>2. backlog' \in Seq(Programs)
  <2>1. backlog' = backlog \/ backlog' = <<>>
    BY DEF Onward, End
  <2>2. backlog \in Seq(Programs)
    BY DEF ServerTypes
  <2>3. CASE backlog' = <<>>
    BY <2>3
  <2> QED
    BY <2>1, <2>2, <2>3
<1>3. toClient' \in [Programs -> Seq(Texts)]
  <2>1. toClient' = toClient => toClient' \in [Programs -> Seq(Texts)]
    BY DEF WireTypes
  <2>2. \A t \in Texts : Send(p, t) => toClient' \in [Programs -> Seq(Texts)]
    BY SendTypes
  <2> QED
    BY <2>1, <2>2
<1> QED
  BY <1>1, <1>2, <1>3

LEMMA TypeInit == Init => TypeOK
<1> SUFFICES ASSUME Init PROVE TypeOK
  OBVIOUS
<1>1. Text(None, <<>>) \in Texts
  BY DEF Text, Texts
<1>2. ServerTypes
  BY <1>1, Facts DEF Init, ServerTypes, Steps
<1>3. WireTypes
  BY DEF Init, WireTypes
<1>4. ProgramTypes
  BY Facts DEF Init, ProgramTypes, Phases
<1> QED
  BY <1>2, <1>3, <1>4, TypesApart

LEMMA TypeStep == TypeOK /\ [Next]_vars => TypeOK'
<1> SUFFICES ASSUME ServerTypes, WireTypes, ProgramTypes, [Next]_vars
             PROVE  ServerTypes' /\ WireTypes' /\ ProgramTypes'
  BY TypesApart, PTL
<1>s. UNCHANGED server => ServerTypes'
  BY DEF server, ServerTypes
<1>w. UNCHANGED <<toServer, toClient>> => WireTypes'
  BY DEF WireTypes
<1>p. UNCHANGED program => ProgramTypes'
  BY DEF program, ProgramTypes
<1>e. End => at' \in Steps /\ backlog' \in Seq(Programs)
  <2> SUFFICES ASSUME End PROVE at' \in Steps /\ backlog' \in Seq(Programs)
    OBVIOUS
  <2>1. at' \in Steps
    BY DEF End, Steps
  <2>2. backlog' \in Seq(Programs)
    BY DEF End
  <2> QED
    BY <2>1, <2>2
<1>1. CASE Accept
  <2>1. /\ UNCHANGED <<buffer, read, toServer, toClient, program>> /\ at' = "recv"
        /\ newsockfd' = Head(backlog) /\ backlog' = Tail(backlog)
        /\ descriptors < MaxDescriptors /\ descriptors' = descriptors + 1 /\ backlog # <<>>
    BY <1>1 DEF Accept, HasDescriptor
  <2>2. newsockfd' \in Programs \cup {None} /\ backlog' \in Seq(Programs)
    BY <2>1 DEF ServerTypes
  <2>3. descriptors' \in 0..MaxDescriptors
    BY <2>1, Facts DEF ServerTypes
  <2>4. at' \in Steps
    BY <2>1 DEF Steps
  <2>5. ServerTypes'
    BY <2>1, <2>2, <2>3, <2>4 DEF ServerTypes
  <2> QED
    BY <1>w, <1>p, <2>1, <2>5
<1>2. CASE AcceptFails
  <2>1. UNCHANGED <<newsockfd, descriptors, buffer, read, toServer, toClient, program>>
    BY <1>2 DEF AcceptFails
  <2>2. at' \in Steps /\ backlog' \in Seq(Programs)
    BY <1>2, <1>e DEF AcceptFails
  <2>3. ServerTypes'
    BY <2>1, <2>2 DEF ServerTypes
  <2> QED
    BY <1>w, <1>p, <2>1, <2>3
<1>3. ASSUME NEW p \in Programs, Receive(p) PROVE ServerTypes' /\ WireTypes' /\ ProgramTypes'
  <2>1. UNCHANGED <<newsockfd, descriptors, program>>
    BY <1>3 DEF Receive
  <2>2. PICK k \in 1..Len(toServer[p]) :
          /\ Answer(p, Text(p, SubSeq(toServer[p], 1, k)))
          /\ read'     = [read EXCEPT ![p] = SubSeq(toServer[p], 1, k)]
          /\ toServer' = [toServer EXCEPT ![p] = SubSeq(@, k + 1, Len(@))]
    BY <1>3 DEF Receive
  <2>3. toServer[p] \in Seq(Lines) /\ k \in 0..Len(toServer[p])
    BY DEF WireTypes
  <2>4. /\ SubSeq(toServer[p], 1, k) \in Seq(Lines)
        /\ SubSeq(toServer[p], k + 1, Len(toServer[p])) \in Seq(Lines)
    BY <2>3, Parts
  <2>5. /\ Onward /\ buffer' \in Texts
        /\ toClient' = toClient \/ Send(p, buffer')
    BY <2>2, <2>4, TextTypes, AnswerAt
  <2>6. toServer' \in [Programs -> Seq(Lines)]
    BY <2>2, <2>4 DEF WireTypes
  <2>7. read' \in [Programs -> Seq(Lines)]
    BY <2>2, <2>4 DEF ServerTypes
  <2>8. at' \in Steps /\ backlog' \in Seq(Programs) /\ toClient' \in [Programs -> Seq(Texts)]
    BY <2>5, OnwardTypes
  <2>9. ServerTypes'
    BY <2>1, <2>5, <2>7, <2>8 DEF ServerTypes
  <2> QED
    BY <1>p, <2>1, <2>6, <2>8, <2>9 DEF WireTypes
<1>4. ASSUME NEW p \in Programs, ReceiveNothing(p) \/ SendAgain(p)
      PROVE  ServerTypes' /\ WireTypes' /\ ProgramTypes'
  <2>1. UNCHANGED <<newsockfd, descriptors, read, toServer, program>>
    BY <1>4 DEF ReceiveNothing, SendAgain
  <2>2. /\ Onward /\ buffer' \in Texts
        /\ toClient' = toClient \/ Send(p, buffer')
    <3>1. buffer \in Texts
      BY DEF ServerTypes
    <3> QED
      BY <1>4, <3>1, RemainsAt
  <2>3. at' \in Steps /\ backlog' \in Seq(Programs) /\ toClient' \in [Programs -> Seq(Texts)]
    BY <2>2, OnwardTypes
  <2>4. ServerTypes'
    BY <2>1, <2>2, <2>3 DEF ServerTypes
  <2>5. WireTypes'
    BY <2>1, <2>3 DEF WireTypes
  <2> QED
    BY <1>p, <2>1, <2>4, <2>5
<1>c. ASSUME NEW p \in Programs, Connect(p)
      PROVE  /\ ServerTypes' /\ WireTypes' /\ UNCHANGED <<written, sent>>
             /\ end' \in [Programs -> {"none", "open", "half", "closed"}]
  <2>1. UNCHANGED <<at, newsockfd, descriptors, buffer, read, toServer, toClient, written, sent>>
    BY <1>c DEF Connect
  <2>2. backlog' \in Seq(Programs)
    BY <1>c DEF Connect, ServerTypes
  <2>3. end' \in [Programs -> {"none", "open", "half", "closed"}]
    BY <1>c DEF Connect, ProgramTypes
  <2>4. ServerTypes'
    BY <2>1, <2>2 DEF ServerTypes
  <2> QED
    BY <1>w, <2>1, <2>3, <2>4
<1>l. ASSUME NEW p \in Programs, NEW line \in Lines, Put(p, line), UNCHANGED toClient
      PROVE  WireTypes' /\ sent' \in [Programs -> Nat]
  <2>1. toServer' \in [Programs -> Seq(Lines)]
    BY <1>l DEF Put, WireTypes
  <2>4. sent' \in [Programs -> Nat]
    BY <1>l DEF Put, ProgramTypes
  <2> QED
    BY <1>l, <2>1, <2>4 DEF WireTypes
<1>5. ASSUME NEW c \in Clients, ClientConnects(c) PROVE ServerTypes' /\ WireTypes' /\ ProgramTypes'
  <2>1. phase' \in [Clients -> Phases]
    BY <1>5 DEF ClientConnects, ProgramTypes, Phases
  <2>2. /\ ServerTypes' /\ WireTypes' /\ UNCHANGED <<written, sent>>
        /\ end' \in [Programs -> {"none", "open", "half", "closed"}]
    BY <1>5, <1>c, Facts DEF ClientConnects
  <2> QED
    BY <2>1, <2>2 DEF ProgramTypes
<1>6. ASSUME NEW c \in Clients, FirstLine(c) \/ \E line \in Lines : Ask(c, line)
      PROVE  ServerTypes' /\ WireTypes' /\ ProgramTypes'
  <2>1. phase' \in [Clients -> Phases]
    BY <1>6 DEF FirstLine, Ask, ProgramTypes, Phases
  <2>2. UNCHANGED <<server, toClient, end, written>>
    BY <1>6 DEF FirstLine, Ask
  <2>3. PICK line \in Lines : Put(c, line)
    BY <1>6, Facts DEF FirstLine, Ask
  <2>4. WireTypes' /\ sent' \in [Programs -> Nat]
    BY <1>l, <2>2, <2>3, Facts
  <2>5. ProgramTypes'
    BY <2>1, <2>2, <2>4 DEF ProgramTypes
  <2> QED
    BY <1>s, <2>2, <2>4, <2>5
<1>7. ASSUME NEW c \in Clients, RecvFile(c) \/ ReadAll(c)
      PROVE  ServerTypes' /\ WireTypes' /\ ProgramTypes'
  <2>1. phase' \in [Clients -> Phases]
    BY <1>7 DEF RecvFile, ReadAll, ProgramTypes, Phases
  <2>2. UNCHANGED <<server, toServer, end, sent>>
    BY <1>7 DEF RecvFile, ReadAll
  <2>3. c \in Programs /\ toClient[c] \in Seq(Texts) /\ Len(toClient[c]) \in Nat
    BY Facts DEF WireTypes
  <2>4. \A k \in 0..Len(toClient[c]) :
          /\ SubSeq(toClient[c], 1, k) \in Seq(Texts)
          /\ SubSeq(toClient[c], k + 1, Len(toClient[c])) \in Seq(Texts)
    BY <2>3, Parts
  <2>5. toClient' \in [Programs -> Seq(Texts)]
    <3>1. ASSUME NEW k \in 0..Len(toClient[c]), Take(c, k) PROVE toClient' \in [Programs -> Seq(Texts)]
      BY <2>3, <2>4, <3>1 DEF Take, WireTypes
    <3>2. UNCHANGED toClient => toClient' \in [Programs -> Seq(Texts)]
      BY DEF WireTypes
    <3>3. \A k \in 1..Len(toClient[c]) : k \in 0..Len(toClient[c])
      BY <2>3
    <3> QED
      BY <1>7, <3>1, <3>2, <3>3 DEF RecvFile, ReadAll
  <2>6. written' \in [Clients -> Seq(Seq(Texts))]
    <3>1. ASSUME NEW k \in 1..Len(toClient[c]),
                 written' = [written EXCEPT ![c] = Append(@, SubSeq(toClient[c], 1, k))]
          PROVE  written' \in [Clients -> Seq(Seq(Texts))]
      <4>1. SubSeq(toClient[c], 1, k) \in Seq(Texts)
        BY <2>3, <2>4
      <4> QED
        BY <3>1, <4>1 DEF ProgramTypes
    <3>2. UNCHANGED written => written' \in [Clients -> Seq(Seq(Texts))]
      BY DEF ProgramTypes
    <3> QED
      BY <1>7, <3>1, <3>2 DEF RecvFile, ReadAll
  <2>7. ProgramTypes'
    BY <2>1, <2>2, <2>6 DEF ProgramTypes
  <2>8. WireTypes'
    BY <2>2, <2>5 DEF WireTypes
  <2> QED
    BY <1>s, <2>2, <2>7, <2>8
<1>8. ASSUME NEW c \in Clients, Leave(c) \/ ConnectFails(c) PROVE ServerTypes' /\ WireTypes' /\ ProgramTypes'
  <2>1. UNCHANGED <<server, toServer, toClient, written, sent>>
    BY <1>8 DEF Leave, ConnectFails
  <2>2. phase' \in [Clients -> Phases]
    BY <1>8 DEF Leave, ConnectFails, ProgramTypes, Phases
  <2>3. end' \in [Programs -> {"none", "open", "half", "closed"}]
    BY <1>8 DEF Leave, ConnectFails, ProgramTypes
  <2>4. ProgramTypes'
    BY <2>1, <2>2, <2>3 DEF ProgramTypes
  <2> QED
    BY <1>s, <1>w, <2>1, <2>4
<1>9. ASSUME NEW o \in Others, OtherConnects(o) PROVE ServerTypes' /\ WireTypes' /\ ProgramTypes'
  <2>1. /\ ServerTypes' /\ WireTypes' /\ UNCHANGED <<written, sent>>
        /\ end' \in [Programs -> {"none", "open", "half", "closed"}]
    BY <1>9, <1>c, Facts DEF OtherConnects
  <2> QED
    BY <1>9, <2>1 DEF ProgramTypes, OtherConnects
<1>10. ASSUME NEW o \in Others, NEW line \in Lines, OtherAsks(o, line)
       PROVE  ServerTypes' /\ WireTypes' /\ ProgramTypes'
  <2>1. UNCHANGED <<server, toClient, phase, end, written>>
    BY <1>10 DEF OtherAsks
  <2>2. WireTypes' /\ sent' \in [Programs -> Nat]
    BY <1>10, <1>l, <2>1, Facts DEF OtherAsks
  <2> QED
    BY <1>s, <2>1, <2>2 DEF ProgramTypes
<1>11. ASSUME NEW o \in Others, OtherStops(o) \/ OtherLeaves(o)
       PROVE  ServerTypes' /\ WireTypes' /\ ProgramTypes'
  <2>1. UNCHANGED <<server, toServer, toClient, phase, written, sent>>
    BY <1>11 DEF OtherStops, OtherLeaves
  <2>2. end' \in [Programs -> {"none", "open", "half", "closed"}]
    BY <1>11 DEF OtherStops, OtherLeaves, ProgramTypes
  <2>3. ProgramTypes'
    BY <2>1, <2>2 DEF ProgramTypes
  <2> QED
    BY <1>s, <1>w, <2>1, <2>3
<1>12. CASE UNCHANGED vars
  BY <1>12, <1>s, <1>w, <1>p DEF vars
<1> QED
  BY <1>1, <1>2, <1>3, <1>4, <1>5, <1>6, <1>7, <1>8, <1>9, <1>10, <1>11, <1>12 DEF Next, Serve

\* Every variable of the exchange keeps its type.
THEOREM TypeCorrect == Spec => []TypeOK
<1> QED
  BY TypeInit, TypeStep, PTL DEF Spec

-----------------------------------------------------------------------------
(* The programs that are connected and those that are taken *)

LEMMA ConnectedStep == TypeOK /\ Connected /\ [Next]_vars => Connected'
<1> SUFFICES ASSUME TypeOK, Connected, [Next]_vars, NEW d \in Clients
             PROVE  /\ phase'[d] = "off" => end'[d] = "none"
                    /\ phase'[d] \in {"first", "prompt", "file", "reading"} => end'[d] = "open"
                    /\ end'[d] # "half"
  BY DEF Connected
<1> DEFINE Fits == /\ phase'[d] = "off" => end'[d] = "none"
                   /\ phase'[d] \in {"first", "prompt", "file", "reading"} => end'[d] = "open"
                   /\ end'[d] # "half"
<1> SUFFICES Fits
  OBVIOUS
<1>0. /\ phase \in [Clients -> Phases] /\ end \in [Programs -> {"none", "open", "half", "closed"}]
      /\ d \in Programs
  BY Facts DEF TypeOK
<1>1. /\ phase[d] = "off" => end[d] = "none"
      /\ phase[d] \in {"first", "prompt", "file", "reading"} => end[d] = "open"
      /\ end[d] # "half"
  BY DEF Connected
<1>u. UNCHANGED <<phase, end>> => Fits
  BY <1>1
<1> HIDE DEF Fits
<1>2. CASE Serve
  BY <1>2, <1>u DEF Serve, Accept, AcceptFails, Receive, ReceiveNothing, SendAgain, program
<1>3. ASSUME NEW c \in Clients, ClientConnects(c) PROVE Fits
  BY <1>0, <1>1, <1>3, Facts DEF ClientConnects, Connect, Fits
<1>4. ASSUME NEW c \in Clients, FirstLine(c) \/ \E line \in Lines : Ask(c, line) PROVE Fits
  BY <1>0, <1>1, <1>4 DEF FirstLine, Ask, Fits
<1>5. ASSUME NEW c \in Clients, RecvFile(c) \/ ReadAll(c) PROVE Fits
  BY <1>0, <1>1, <1>5 DEF RecvFile, ReadAll, Fits
<1>6. ASSUME NEW c \in Clients, Leave(c) \/ ConnectFails(c) PROVE Fits
  BY <1>0, <1>1, <1>6, Facts DEF Leave, ConnectFails, Fits
<1>7. ASSUME NEW o \in Others, OtherConnects(o) \/ OtherStops(o) \/ OtherLeaves(o) PROVE Fits
  BY <1>0, <1>1, <1>7, Facts DEF OtherConnects, Connect, OtherStops, OtherLeaves, Fits
<1>8. ASSUME NEW o \in Others, NEW line, OtherAsks(o, line) PROVE Fits
  BY <1>8, <1>u DEF OtherAsks
<1>9. CASE UNCHANGED vars
  BY <1>9, <1>u DEF vars, program
<1> QED
  BY <1>2, <1>3, <1>4, <1>5, <1>6, <1>7, <1>8, <1>9 DEF Next

\* What is new under way goes to one program and is what is in the buffer
LEMMA SendNew ==
  ASSUME TypeOK, NEW p \in Programs, buffer' \in Texts, toClient' = toClient \/ Send(p, buffer')
  PROVE  /\ \A q \in Programs : q # p => toClient'[q] = toClient[q]
         /\ \/ toClient' = toClient
            \/ /\ Len(toClient'[p]) = Len(toClient[p]) + 1
               /\ toClient'[p][Len(toClient[p]) + 1] = buffer'
               /\ \A i \in 1..Len(toClient[p]) : toClient'[p][i] = toClient[p][i]
<1>1. toClient \in [Programs -> Seq(Texts)]
  BY DEF TypeOK
<1>2. CASE toClient' = toClient
  BY <1>2
<1>3. CASE toClient' = [toClient EXCEPT ![p] = Append(@, buffer')]
  BY <1>1, <1>3, AppendAt
<1> QED
  BY <1>2, <1>3 DEF Send

\* Nobody has data appear or disappear who has none under way
LEMMA TakeStep ==
  ASSUME TypeOK, NEW c \in Clients, RecvFile(c) \/ ReadAll(c)
  PROVE  /\ \A p \in Programs : Untouched(p) => StillUntouched(p)
         /\ UNCHANGED <<at, newsockfd, backlog, descriptors, buffer, read, toServer, end, sent>>
         /\ \A p \in Programs : p # c => toClient'[p] = toClient[p]
         /\ \A d \in Clients : d # c => written'[d] = written[d]
         /\ \E k \in 0..Len(toClient[c]) : toClient'[c] = SubSeq(toClient[c], k + 1, Len(toClient[c]))
         /\ \/ written' = written
            \/ /\ toClient[c] # <<>> /\ phase[c] = "file"
               /\ \E k \in 1..Len(toClient[c]) :
                     written' = [written EXCEPT ![c] = Append(@, SubSeq(toClient[c], 1, k))]
<1>1. /\ toClient \in [Programs -> Seq(Texts)] /\ written \in [Clients -> Seq(Seq(Texts))]
      /\ c \in Programs /\ toClient[c] \in Seq(Texts) /\ Len(toClient[c]) \in Nat
  BY Facts DEF TypeOK
<1>2. UNCHANGED <<at, newsockfd, backlog, descriptors, buffer, read, toServer, end, sent>>
  BY DEF RecvFile, ReadAll, server
<1>3. \/ UNCHANGED <<toClient, written>>
      \/ \E k \in 0..Len(toClient[c]) : Take(c, k)
  <2>1. 1..Len(toClient[c]) \subseteq 0..Len(toClient[c])
    BY <1>1
  <2> QED
    BY <2>1 DEF RecvFile, ReadAll
<1>4. /\ \A p \in Programs : p # c => toClient'[p] = toClient[p]
      /\ \E k \in 0..Len(toClient[c]) : toClient'[c] = SubSeq(toClient[c], k + 1, Len(toClient[c]))
  <2>1. CASE UNCHANGED <<toClient, written>>
    <3>1. SubSeq(toClient[c], 0 + 1, Len(toClient[c])) = toClient[c]
      <4>1. SubSeq(toClient[c], 1, Len(toClient[c])) = toClient[c]
        BY <1>1, SubSeqFull
      <4> QED
        BY <4>1
    <3>2. 0 \in 0..Len(toClient[c])
      BY <1>1
    <3> QED
      BY <2>1, <3>1, <3>2
  <2>2. ASSUME NEW k \in 0..Len(toClient[c]), Take(c, k)
        PROVE  /\ \A p \in Programs : p # c => toClient'[p] = toClient[p]
               /\ toClient'[c] = SubSeq(toClient[c], k + 1, Len(toClient[c]))
    BY <1>1, <2>2 DEF Take
  <2> QED
    BY <1>3, <2>1, <2>2
<1>5. \/ written' = written
      \/ /\ toClient[c] # <<>> /\ phase[c] = "file"
         /\ \E k \in 1..Len(toClient[c]) :
               written' = [written EXCEPT ![c] = Append(@, SubSeq(toClient[c], 1, k))]
  <2>1. ASSUME NEW k \in 1..Len(toClient[c]) PROVE toClient[c] # <<>>
    BY <1>1
  <2> QED
    BY <2>1 DEF RecvFile, ReadAll
<1>6. \A d \in Clients : d # c => written'[d] = written[d]
  BY <1>1, <1>5
<1>7. ASSUME NEW p \in Programs, Untouched(p) PROVE StillUntouched(p)
  <2>1. CASE p # c
    BY <1>2, <1>4, <1>6, <1>7, <2>1 DEF Untouched, StillUntouched
  <2>2. CASE p = c
    <3>1. toClient[c] = <<>> /\ written[c] = <<>> /\ read[c] = <<>>
      BY <1>7, <2>2 DEF Untouched, StillUntouched
    <3>2. PICK k \in 0..Len(toClient[c]) : toClient'[c] = SubSeq(toClient[c], k + 1, Len(toClient[c]))
      BY <1>4
    <3>3. Len(toClient[c]) = 0
      BY <3>1
    <3>4. k \in 0..Len(toClient[c]) /\ Len(SubSeq(toClient[c], k + 1, Len(toClient[c]))) = Len(toClient[c]) - k
          /\ SubSeq(toClient[c], k + 1, Len(toClient[c])) \in Seq(Texts)
      BY <1>1, <3>2, Parts
    <3>5. toClient'[c] \in Seq(Texts) /\ Len(toClient'[c]) = 0
      BY <3>2, <3>3, <3>4
    <3>6. toClient'[c] = <<>>
      BY <3>5
    <3> QED
      BY <1>2, <1>5, <2>2, <3>1, <3>6 DEF Untouched, StillUntouched
  <2> QED
    BY <2>1, <2>2
<1> QED
  BY <1>2, <1>4, <1>5, <1>6, <1>7

\* Steps that take nobody and touch nobody who is untouched
LEMMA TakenFrame ==
  ASSUME TypeOK, Taken, UNCHANGED <<newsockfd, backlog>>, at' \in {at, "accept"},
         \A p \in Programs : Untouched(p) => StillUntouched(p),
         \A p \in Programs : end'[p] = "none" <=> end[p] = "none"
  PROVE  Taken'
<1>1. /\ backlog \in Seq(Programs) /\ newsockfd \in Programs \cup {None}
  BY DEF TypeOK
<1>2. \A i \in 1..Len(backlog) : backlog[i] \in Programs
  BY <1>1
<1>3. \A i \in 1..Len(backlog') : StillUntouched(backlog'[i]) /\ end'[backlog'[i]] # "none"
  BY <1>2 DEF Taken
<1>4. \A i, j \in 1..Len(backlog') : backlog'[i] = backlog'[j] => i = j
  BY DEF Taken
<1>5. \A p \in Programs : end'[p] = "none" => StillUntouched(p)
  BY DEF Taken
<1>6. newsockfd' # None =>
          end'[newsockfd'] # "none" /\ \A i \in 1..Len(backlog') : backlog'[i] # newsockfd'
  BY <1>1 DEF Taken
<1>7. at' \in {"recv", "again"} => newsockfd' # None
  BY DEF Taken
<1>8. at' = "recv" => StillUntouched(newsockfd')
  BY <1>1 DEF Taken
<1> QED
  BY <1>3, <1>4, <1>5, <1>6, <1>7, <1>8 DEF Taken, Untouched, StillUntouched

\* What is read from a program and what it is answered
LEMMA ReceiveAt ==
  ASSUME TypeOK, NEW p \in Programs, Receive(p)
  PROVE  /\ at = "recv" /\ p = newsockfd /\ UNCHANGED <<newsockfd, descriptors, program>>
         /\ Onward /\ (at' = "ended" => Outside(Text(p, read'[p])))
         /\ \A q \in Programs : q # p => toClient'[q] = toClient[q] /\ read'[q] = read[q]
         /\ buffer'.owner = p /\ buffer'.lines = read'[p]
         /\ \/ toClient' = toClient
            \/ /\ Len(toClient'[p]) = Len(toClient[p]) + 1
               /\ toClient'[p][Len(toClient[p]) + 1] = buffer'
               /\ \A i \in 1..Len(toClient[p]) : toClient'[p][i] = toClient[p][i]
<1>1. toServer \in [Programs -> Seq(Lines)] /\ read \in [Programs -> Seq(Lines)]
  BY DEF TypeOK
<1>2. PICK k \in 1..Len(toServer[p]) :
        /\ Answer(p, Text(p, SubSeq(toServer[p], 1, k)))
        /\ read'     = [read EXCEPT ![p] = SubSeq(toServer[p], 1, k)]
  BY DEF Receive
<1> DEFINE lines == SubSeq(toServer[p], 1, k)
<1>3. lines \in Seq(Lines)
  <2>1. toServer[p] \in Seq(Lines) /\ k \in 0..Len(toServer[p])
    BY <1>1
  <2> QED
    BY <2>1, Parts
<1>4. read'[p] = lines /\ \A q \in Programs : q # p => read'[q] = read[q]
  BY <1>1, <1>2
<1>5. Answer(p, Text(p, lines))
  BY <1>2
<1> HIDE DEF lines
<1>6. Text(p, lines) \in Texts /\ Text(p, lines).owner = p /\ Text(p, lines).lines = lines
  BY <1>3, TextTypes DEF Text
<1>7. /\ Onward /\ (at' = "ended" => Outside(Text(p, lines)))
      /\ buffer' \in Texts /\ buffer'.owner = p /\ buffer'.lines = lines
      /\ toClient' = toClient \/ Send(p, buffer')
  BY <1>5, <1>6, AnswerAt
<1>8. /\ \A q \in Programs : q # p => toClient'[q] = toClient[q]
      /\ \/ toClient' = toClient
         \/ /\ Len(toClient'[p]) = Len(toClient[p]) + 1
            /\ toClient'[p][Len(toClient[p]) + 1] = buffer'
            /\ \A i \in 1..Len(toClient[p]) : toClient'[p][i] = toClient[p][i]
  BY <1>7, SendNew
<1>9. at = "recv" /\ p = newsockfd /\ UNCHANGED <<newsockfd, descriptors, program>>
  BY DEF Receive
<1> QED
  BY <1>4, <1>7, <1>8, <1>9

\* What is sent from the buffer without reading
LEMMA ResendAt ==
  ASSUME TypeOK, NEW p \in Programs, ReceiveNothing(p) \/ SendAgain(p)
  PROVE  /\ p = newsockfd /\ UNCHANGED <<newsockfd, descriptors, read, toServer, program>>
         /\ (at = "recv" /\ HasStopped(p)) \/ at = "again"
         /\ Onward /\ (at' = "ended" => at = "recv" \/ Breaks(p))
         /\ \A q \in Programs : q # p => toClient'[q] = toClient[q]
         /\ buffer'.owner = buffer.owner /\ buffer'.lines = buffer.lines
         /\ \/ toClient' = toClient
            \/ /\ Len(toClient'[p]) = Len(toClient[p]) + 1
               /\ toClient'[p][Len(toClient[p]) + 1] = buffer'
               /\ \A i \in 1..Len(toClient[p]) : toClient'[p][i] = toClient[p][i]
<1>1. buffer \in Texts
  BY DEF TypeOK
<1>2. /\ Onward /\ (at' = "ended" => at = "recv" \/ Breaks(p))
      /\ buffer' \in Texts /\ buffer'.owner = buffer.owner /\ buffer'.lines = buffer.lines
      /\ toClient' = toClient \/ Send(p, buffer')
  BY <1>1, RemainsAt
<1>3. /\ \A q \in Programs : q # p => toClient'[q] = toClient[q]
      /\ \/ toClient' = toClient
         \/ /\ Len(toClient'[p]) = Len(toClient[p]) + 1
            /\ toClient'[p][Len(toClient[p]) + 1] = buffer'
            /\ \A i \in 1..Len(toClient[p]) : toClient'[p][i] = toClient[p][i]
  BY <1>2, SendNew
<1>4. /\ p = newsockfd /\ UNCHANGED <<newsockfd, descriptors, read, toServer, program>>
      /\ (at = "recv" /\ HasStopped(p)) \/ at = "again"
  BY DEF ReceiveNothing, SendAgain
<1> QED
  BY <1>2, <1>3, <1>4

LEMMA TakenStep == TypeOK /\ Connected /\ Taken /\ [Next]_vars => Taken'
<1> SUFFICES ASSUME TypeOK, Connected, Taken, [Next]_vars PROVE Taken'
  OBVIOUS
<1>0. /\ backlog \in Seq(Programs) /\ newsockfd \in Programs \cup {None}
      /\ end \in [Programs -> {"none", "open", "half", "closed"}]
      /\ phase \in [Clients -> Phases]
  BY DEF TypeOK
<1>t. /\ \A i \in 1..Len(backlog) : Untouched(backlog[i]) /\ end[backlog[i]] # "none"
      /\ \A i, j \in 1..Len(backlog) : backlog[i] = backlog[j] => i = j
      /\ \A p \in Programs : end[p] = "none" => Untouched(p)
      /\ newsockfd # None =>
            end[newsockfd] # "none" /\ \A i \in 1..Len(backlog) : backlog[i] # newsockfd
      /\ at \in {"recv", "again"} => newsockfd # None
      /\ at = "recv" => Untouched(newsockfd)
  BY DEF Taken
<1>u. UNCHANGED <<read, toClient, written>> => \A p : Untouched(p) => StillUntouched(p)
  BY DEF Untouched, StillUntouched
<1>f. ASSUME UNCHANGED <<at, newsockfd, backlog, read, toClient, written>>,
             \A p \in Programs : end'[p] = "none" <=> end[p] = "none"
      PROVE  Taken'
  BY <1>f, <1>u, TakenFrame
<1>e. ASSUME End, UNCHANGED <<newsockfd, read, toClient, written, end>> PROVE Taken'
  <2>1. Len(backlog') = 0 /\ at' = "ended" /\ 1..0 = {}
    BY <1>e DEF End
  <2> QED
    BY <1>e, <1>t, <1>u, <2>1 DEF Taken, Untouched
<1>1. CASE Accept
  <2>1. /\ UNCHANGED <<read, toClient, written, end>> /\ at' = "recv" /\ backlog # <<>>
        /\ newsockfd' = Head(backlog) /\ backlog' = Tail(backlog)
    BY <1>1 DEF Accept, program
  <2>2. /\ newsockfd' = backlog[1] /\ newsockfd' \in Programs /\ 1 \in 1..Len(backlog)
        /\ Len(backlog) \in Nat /\ Len(backlog') = Len(backlog) - 1
        /\ \A i \in 1..Len(backlog') : i + 1 \in 1..Len(backlog) /\ backlog'[i] = backlog[i + 1] /\ i + 1 # 1
    BY <1>0, <2>1
  <2>3. \A i \in 1..Len(backlog') : StillUntouched(backlog'[i]) /\ end'[backlog'[i]] # "none"
                                   /\ backlog'[i] # newsockfd'
    BY <1>t, <1>u, <2>1, <2>2
  <2>4. ASSUME NEW i \in 1..Len(backlog'), NEW j \in 1..Len(backlog'), backlog'[i] = backlog'[j]
        PROVE  i = j
    <3>1. /\ i + 1 \in 1..Len(backlog) /\ j + 1 \in 1..Len(backlog)
          /\ backlog[i + 1] = backlog[j + 1]
      BY <2>2, <2>4
    <3>2. i + 1 = j + 1
      BY <1>t, <3>1
    <3>3. i \in Nat /\ j \in Nat
      BY <2>2
    <3> QED
      BY <3>2, <3>3
  <2>5. StillUntouched(newsockfd') /\ end'[newsockfd'] # "none" /\ newsockfd' # None
    BY <1>t, <1>u, <2>1, <2>2, Facts
  <2>6. \A p \in Programs : end'[p] = "none" => StillUntouched(p)
    BY <1>t, <1>u, <2>1
  <2> QED
    BY <2>3, <2>4, <2>5, <2>6 DEF Taken, Untouched, StillUntouched
<1>2. CASE AcceptFails
  BY <1>2, <1>e DEF AcceptFails, program
<1>3. ASSUME NEW p \in Programs, Receive(p) PROVE Taken'
  <2>1. /\ at' # "recv" /\ p = newsockfd /\ UNCHANGED <<newsockfd, end, written>>
        /\ \A q \in Programs : q # p => toClient'[q] = toClient[q] /\ read'[q] = read[q]
        /\ backlog' = backlog \/ backlog' = <<>>
    BY <1>3, ReceiveAt DEF program, Onward, End
  <2>2. p # None
    BY Facts
  <2>3. \A q \in Programs : q # p /\ Untouched(q) => StillUntouched(q)
    BY <2>1 DEF Untouched, StillUntouched
  <2>4. \A i \in 1..Len(backlog) : backlog[i] \in Programs /\ backlog[i] # p
    BY <1>0, <1>t, <2>1, <2>2
  <2>w. \A i \in 1..Len(backlog') : i \in 1..Len(backlog) /\ backlog'[i] = backlog[i]
    <3>1. Len(<<>>) = 0 /\ 1..0 = {}
      OBVIOUS
    <3> QED
      BY <2>1, <3>1
  <2>5. \A i \in 1..Len(backlog') : StillUntouched(backlog'[i]) /\ end'[backlog'[i]] # "none"
    BY <1>t, <2>1, <2>3, <2>4, <2>w
  <2>6. \A q \in Programs : end'[q] = "none" => StillUntouched(q)
    BY <1>t, <2>1, <2>2, <2>3
  <2>7. /\ \A i, j \in 1..Len(backlog') : backlog'[i] = backlog'[j] => i = j
        /\ newsockfd' # None =>
              end'[newsockfd'] # "none" /\ \A i \in 1..Len(backlog') : backlog'[i] # newsockfd'
        /\ newsockfd' # None /\ at' # "recv"
    BY <1>t, <2>1, <2>2, <2>w
  <2> QED
    BY <2>5, <2>6, <2>7 DEF Taken, Untouched, StillUntouched
<1>4. ASSUME NEW p \in Programs, ReceiveNothing(p) \/ SendAgain(p) PROVE Taken'
  <2>1. /\ p = newsockfd /\ UNCHANGED <<newsockfd, read, end, written>>
        /\ \/ at' \in {"accept", "again"} /\ backlog' = backlog
           \/ End /\ toClient' = toClient
        /\ \A q \in Programs : q # p => toClient'[q] = toClient[q]
    BY <1>4, ResendAt DEF program, Onward
  <2>2. p # None
    BY Facts
  <2>3. \A q \in Programs : q # p /\ Untouched(q) => StillUntouched(q)
    BY <2>1 DEF Untouched, StillUntouched
  <2>4. \A i \in 1..Len(backlog) : backlog[i] \in Programs /\ backlog[i] # p
    BY <1>0, <1>t, <2>1, <2>2
  <2>5. CASE End /\ toClient' = toClient
    BY <1>e, <2>1, <2>5
  <2>6. CASE at' \in {"accept", "again"} /\ backlog' = backlog
    <3>1. \A i \in 1..Len(backlog') : StillUntouched(backlog'[i]) /\ end'[backlog'[i]] # "none"
      BY <1>t, <2>1, <2>3, <2>4, <2>6
    <3>2. \A q \in Programs : end'[q] = "none" => StillUntouched(q)
      BY <1>t, <2>1, <2>2, <2>3
    <3>3. /\ \A i, j \in 1..Len(backlog') : backlog'[i] = backlog'[j] => i = j
          /\ newsockfd' # None =>
                end'[newsockfd'] # "none" /\ \A i \in 1..Len(backlog') : backlog'[i] # newsockfd'
          /\ newsockfd' # None /\ at' # "recv"
      BY <1>t, <2>1, <2>2, <2>6
    <3> QED
      BY <3>1, <3>2, <3>3 DEF Taken, Untouched, StillUntouched
  <2> QED
    BY <2>1, <2>5, <2>6
<1>5. ASSUME NEW p \in Programs, Connect(p) PROVE Taken'
  <2>1. /\ UNCHANGED <<at, newsockfd, read, toClient, written>> /\ backlog' = Append(backlog, p)
        /\ end' = [end EXCEPT ![p] = "open"] /\ end[p] = "none"
    BY <1>5 DEF Connect
  <2>2. Untouched(p) /\ p # newsockfd /\ \A i \in 1..Len(backlog) : backlog[i] # p
    BY <1>t, <2>1, Facts
  <2>3. end'[p] = "open" /\ \A q \in Programs : q # p => end'[q] = end[q]
    BY <1>0, <2>1
  <2>4. /\ Len(backlog') = Len(backlog) + 1 /\ Len(backlog) \in Nat
        /\ backlog'[Len(backlog) + 1] = p
        /\ \A i \in 1..Len(backlog) : backlog'[i] = backlog[i] /\ backlog[i] \in Programs
    BY <1>0, <2>1
  <2>5. \A i \in 1..Len(backlog') : i = Len(backlog) + 1 \/ i \in 1..Len(backlog)
    BY <2>4
  <2>6. \A i \in 1..Len(backlog') :
          StillUntouched(backlog'[i]) /\ end'[backlog'[i]] # "none" /\ (newsockfd # None => backlog'[i] # newsockfd)
    BY <1>t, <1>u, <2>1, <2>2, <2>3, <2>4, <2>5
  <2>7. \A i, j \in 1..Len(backlog') : backlog'[i] = backlog'[j] => i = j
    BY <1>t, <2>2, <2>4, <2>5
  <2>8. \A q \in Programs : end'[q] = "none" => StillUntouched(q)
    BY <1>t, <1>u, <2>1, <2>3
  <2>9. newsockfd' # None => end'[newsockfd'] # "none"
    BY <1>0, <1>t, <2>1, <2>3
  <2>10. at' = "recv" => StillUntouched(newsockfd')
    BY <1>t, <1>u, <2>1
  <2> QED
    BY <1>t, <2>1, <2>6, <2>7, <2>8, <2>9, <2>10 DEF Taken, Untouched, StillUntouched
<1>6. ASSUME NEW c \in Clients, FirstLine(c) \/ \E line \in Lines : Ask(c, line) PROVE Taken'
  BY <1>6, <1>f DEF FirstLine, Ask, server
<1>7. ASSUME NEW c \in Clients, RecvFile(c) \/ ReadAll(c) PROVE Taken'
  <2>1. /\ \A p \in Programs : Untouched(p) => StillUntouched(p)
        /\ UNCHANGED <<at, newsockfd, backlog, end>>
    BY <1>7, TakeStep
  <2> QED
    BY <2>1, TakenFrame
<1>8. ASSUME NEW c \in Clients, Leave(c) \/ ConnectFails(c) PROVE Taken'
  <2>1. UNCHANGED <<at, newsockfd, backlog, read, toClient, written>>
    BY <1>8 DEF Leave, ConnectFails, server
  <2>2. \A p \in Programs : end'[p] = "none" <=> end[p] = "none"
    <3>1. CASE Leave(c)
      <4>1. end[c] = "open" /\ end' = [end EXCEPT ![c] = "closed"] /\ c \in Programs
        BY <1>0, <3>1, Facts DEF Leave, Connected, Phases
      <4> QED
        BY <1>0, <4>1
    <3>2. CASE ConnectFails(c)
      BY <3>2 DEF ConnectFails
    <3> QED
      BY <1>8, <3>1, <3>2
  <2> QED
    BY <1>f, <2>1, <2>2
<1>9. ASSUME NEW o \in Others, OtherStops(o) \/ OtherLeaves(o) PROVE Taken'
  <2>1. UNCHANGED <<at, newsockfd, backlog, read, toClient, written>>
    BY <1>9 DEF OtherStops, OtherLeaves, server
  <2>2. \A p \in Programs : end'[p] = "none" <=> end[p] = "none"
    BY <1>0, <1>9, Facts DEF OtherStops, OtherLeaves
  <2> QED
    BY <1>f, <2>1, <2>2
<1>10. ASSUME NEW o \in Others, NEW line, OtherAsks(o, line) PROVE Taken'
  BY <1>10, <1>f DEF OtherAsks, server
<1>11. CASE UNCHANGED vars
  BY <1>11, <1>f DEF vars, server, program
<1>12. ASSUME NEW c \in Clients, ClientConnects(c) PROVE Taken'
  BY <1>5, <1>12, Facts DEF ClientConnects
<1>13. ASSUME NEW o \in Others, OtherConnects(o) PROVE Taken'
  BY <1>5, <1>13, Facts DEF OtherConnects
<1> QED
  BY <1>1, <1>2, <1>3, <1>4, <1>6, <1>7, <1>8, <1>9, <1>10, <1>11, <1>12, <1>13 DEF Next, Serve

\* What may be sent to a program from whom nothing has been read is not
\* allowed otherwise later
LEMMA AnsweredFrame ==
  ASSUME TypeOK, Answered, UNCHANGED read,
         at' = "again" => at = "again" /\ UNCHANGED <<newsockfd, buffer>>,
         \A p \in Programs : end[p] # "open" /\ read[p] = <<>> => end'[p] # "open" \/ toClient[p] = <<>>,
         at' = "again" /\ end[newsockfd] # "open" => end'[newsockfd] # "open",
         \A p \in Programs : \A i \in 1..Len(toClient'[p]) :
            \E j \in 1..Len(toClient[p]) : toClient'[p][i] = toClient[p][j],
         \A c \in Clients : \A i \in 1..Len(written'[c]) : \A j \in 1..Len(written'[c][i]) :
            Own(c, written'[c][i][j])
  PROVE  Answered'
<1>1. at' = "again" => Sendable(newsockfd, buffer)'
  BY DEF Answered, Sendable, Own
<1>2. ASSUME NEW p \in Programs, NEW i \in 1..Len(toClient'[p])
      PROVE  Sendable(p, toClient[p][i])'
  <2>1. PICK j \in 1..Len(toClient[p]) : toClient'[p][i] = toClient[p][j]
    BY <1>2
  <2>2. Sendable(p, toClient[p][j])
    BY DEF Answered
  <2>3. toClient[p] # <<>>
    <3>1. Len(<<>>) = 0 /\ 1..0 = {}
      OBVIOUS
    <3> QED
      BY <2>1, <3>1
  <2> QED
    BY <2>1, <2>2, <2>3 DEF Sendable, Own
<1>3. \A c \in Clients : \A i \in 1..Len(written'[c]) : \A j \in 1..Len(written'[c][i]) :
         Own(c, written[c][i][j])'
  BY DEF Own
<1> QED
  BY <1>1, <1>2, <1>3 DEF Answered

\* What is sent to one program, who has been sent nothing or the same
LEMMA AnsweredSend ==
  ASSUME TypeOK, Answered, NEW p \in Programs, UNCHANGED <<newsockfd, end, written>>,
         p = newsockfd,
         \A c \in Clients : c = p /\ written[c] # <<>> => read'[c] = read[c],
         \A q \in Programs : q # p => toClient'[q] = toClient[q] /\ read'[q] = read[q],
         read'[p] = read[p] \/ toClient[p] = <<>>,
         Sendable(p, buffer)',
         \/ toClient' = toClient
         \/ /\ Len(toClient'[p]) = Len(toClient[p]) + 1
            /\ toClient'[p][Len(toClient[p]) + 1] = buffer'
            /\ \A i \in 1..Len(toClient[p]) : toClient'[p][i] = toClient[p][i]
  PROVE  Answered'
<1>1. at' = "again" => Sendable(newsockfd, buffer)'
  BY DEF Sendable, Own
<1>2. ASSUME NEW q \in Programs, q # p, NEW i \in 1..Len(toClient'[q])
      PROVE  Sendable(q, toClient[q][i])'
  BY <1>2 DEF Answered, Sendable, Own
<1>3. \A i \in 1..Len(toClient[p]) : Sendable(p, toClient[p][i]) /\ read'[p] = read[p]
  <2>1. Len(<<>>) = 0 /\ 1..0 = {}
    OBVIOUS
  <2> QED
    BY <2>1 DEF Answered
<1>4. ASSUME NEW i \in 1..Len(toClient'[p]) PROVE Sendable(p, toClient[p][i])'
  <2>1. CASE i \in 1..Len(toClient[p]) /\ toClient'[p][i] = toClient[p][i]
    BY <1>3, <2>1 DEF Sendable, Own
  <2>2. CASE toClient'[p][i] = buffer'
    BY <2>2 DEF Sendable, Own
  <2>3. CASE toClient' = toClient
    BY <2>1, <2>3
  <2>4. CASE Len(toClient'[p]) = Len(toClient[p]) + 1 /\ ~(i \in 1..Len(toClient[p]))
    <3>1. Len(toClient[p]) \in Nat
      BY DEF TypeOK
    <3>2. i = Len(toClient[p]) + 1
      BY <2>4, <3>1
    <3> QED
      BY <2>2, <2>3, <3>2
  <2> QED
    BY <2>1, <2>3, <2>4
<1>5. ASSUME NEW c \in Clients, NEW i \in 1..Len(written'[c]), NEW j \in 1..Len(written'[c][i])
      PROVE  Own(c, written[c][i][j])'
  <2>1. c \in Programs /\ Own(c, written[c][i][j])
    BY Facts DEF Answered
  <2>2. read'[c] = read[c]
    <3>1. Len(<<>>) = 0 /\ 1..0 = {}
      OBVIOUS
    <3>2. written[c] # <<>>
      BY <1>5, <3>1
    <3> QED
      BY <2>1, <3>2
  <2> QED
    BY <2>1, <2>2 DEF Own
<1> QED
  BY <1>1, <1>2, <1>4, <1>5 DEF Answered

\* What a tcp_client writes has been sent to it while it was there
LEMMA AnsweredTake ==
  ASSUME TypeOK, Connected, Answered, NEW c \in Clients, RecvFile(c) \/ ReadAll(c)
  PROVE  Answered'
<1> DEFINE under == toClient[c]
<1>1. /\ c \in Programs /\ under \in Seq(Texts) /\ Len(under) \in Nat
      /\ written \in [Clients -> Seq(Seq(Texts))]
  BY Facts DEF TypeOK
<1>2. /\ UNCHANGED <<at, newsockfd, buffer, read, end>>
      /\ \A p \in Programs : p # c => toClient'[p] = toClient[p]
      /\ \A d \in Clients : d # c => written'[d] = written[d]
      /\ \E k \in 0..Len(under) : toClient'[c] = SubSeq(under, k + 1, Len(under))
      /\ \/ written' = written
         \/ /\ under # <<>> /\ phase[c] = "file"
            /\ \E k \in 1..Len(under) : written' = [written EXCEPT ![c] = Append(@, SubSeq(under, 1, k))]
  BY TakeStep
<1>3. /\ \A i \in 1..Len(under) : Sendable(c, under[i])
      /\ \A d \in Clients : \A i \in 1..Len(written[d]) : \A j \in 1..Len(written[d][i]) :
            Own(d, written[d][i][j])
  BY <1>1 DEF Answered
<1>4. phase[c] = "file" => end[c] = "open"
  BY DEF Connected
<1> HIDE DEF under
<1>5. \A i \in 1..Len(toClient'[c]) : \E j \in 1..Len(under) : toClient'[c][i] = under[j]
  <2>1. PICK k \in 0..Len(under) : toClient'[c] = SubSeq(under, k + 1, Len(under))
    BY <1>2
  <2>2. /\ Len(toClient'[c]) = Len(under) - k
        /\ \A i \in 1..(Len(under) - k) : toClient'[c][i] = under[i + k]
    BY <1>1, <2>1, Parts
  <2>3. \A i \in 1..(Len(under) - k) : i + k \in 1..Len(under)
    BY <1>1
  <2> QED
    BY <2>2, <2>3
<1>6. \A p \in Programs : \A i \in 1..Len(toClient'[p]) :
         \E j \in 1..Len(toClient[p]) : toClient'[p][i] = toClient[p][j]
  <2>1. ASSUME NEW p \in Programs, p # c, NEW i \in 1..Len(toClient'[p])
        PROVE  \E j \in 1..Len(toClient[p]) : toClient'[p][i] = toClient[p][j]
    <3>1. toClient'[p] = toClient[p]
      BY <1>2, <2>1
    <3> QED
      BY <3>1
  <2>2. \A i \in 1..Len(toClient'[c]) :
           \E j \in 1..Len(toClient[c]) : toClient'[c][i] = toClient[c][j]
    BY <1>5 DEF under
  <2> QED
    BY <2>1, <2>2
<1>7. \A d \in Clients : \A i \in 1..Len(written'[d]) : \A j \in 1..Len(written'[d][i]) :
         Own(d, written'[d][i][j])
  <2>1. CASE written' = written
    BY <1>3, <2>1
  <2>2. ASSUME phase[c] = "file", NEW k \in 1..Len(under),
               written' = [written EXCEPT ![c] = Append(@, SubSeq(under, 1, k))]
        PROVE  \A d \in Clients : \A i \in 1..Len(written'[d]) : \A j \in 1..Len(written'[d][i]) :
                  Own(d, written'[d][i][j])
    <3> DEFINE got == SubSeq(under, 1, k)
    <3>1. k \in 0..Len(under)
      BY <1>1
    <3>2. got \in Seq(Texts) /\ Len(got) = k /\ \A j \in 1..k : got[j] = under[j]
      BY <1>1, <3>1, Parts
    <3>3. \A j \in 1..Len(got) : Own(c, got[j])
      <4>1. \A j \in 1..k : j \in 1..Len(under)
        BY <1>1
      <4> QED
        BY <1>3, <1>4, <2>2, <3>2, <4>1 DEF Sendable
    <3> HIDE DEF got
    <3>4. written'[c] = Append(written[c], got)
      BY <1>1, <2>2 DEF got
    <3>5. /\ Len(written'[c]) = Len(written[c]) + 1 /\ Len(written[c]) \in Nat
          /\ written'[c][Len(written[c]) + 1] = got
          /\ \A i \in 1..Len(written[c]) : written'[c][i] = written[c][i]
      <4>1. written[c] \in Seq(Seq(Texts))
        BY <1>1
      <4> QED
        BY <3>2, <3>4, <4>1
    <3>6. \A i \in 1..Len(written'[c]) : i = Len(written[c]) + 1 \/ i \in 1..Len(written[c])
      BY <3>5
    <3>7. \A i \in 1..Len(written'[c]) : \A j \in 1..Len(written'[c][i]) : Own(c, written'[c][i][j])
      BY <1>3, <3>3, <3>5, <3>6
    <3>8. ASSUME NEW d \in Clients, d # c, NEW i \in 1..Len(written'[d]), NEW j \in 1..Len(written'[d][i])
          PROVE  Own(d, written'[d][i][j])
      <4>1. written'[d] = written[d]
        BY <1>2, <3>8
      <4> QED
        BY <1>3, <4>1
    <3>9. \A d \in Clients : d = c \/ d # c
      OBVIOUS
    <3> QED
      BY <3>7, <3>8, <3>9
  <2> QED
    BY <1>2, <2>1, <2>2
<1>8. /\ at' = "again" => at = "again" /\ UNCHANGED <<newsockfd, buffer>>
      /\ UNCHANGED <<read, end>>
  BY <1>2
<1> QED
  BY <1>6, <1>7, <1>8, AnsweredFrame

LEMMA AnsweredStep == TypeOK /\ Connected /\ Taken /\ Answered /\ [Next]_vars => Answered'
<1> SUFFICES ASSUME TypeOK, Connected, Taken, Answered, [Next]_vars PROVE Answered'
  OBVIOUS
<1>0. /\ end \in [Programs -> {"none", "open", "half", "closed"}]
      /\ newsockfd \in Programs \cup {None}
  BY DEF TypeOK
<1>t. /\ at \in {"recv", "again"} => newsockfd \in Programs
      /\ at \in {"recv", "again"} => end[newsockfd] # "none"
      /\ \A p \in Programs : end[p] = "none" => toClient[p] = <<>>
      /\ at = "recv" => Untouched(newsockfd)
  BY <1>0 DEF Taken, Untouched
<1>f. ASSUME UNCHANGED <<read, toClient, written>>,
             at' = "again" => at = "again" /\ UNCHANGED <<newsockfd, buffer>>,
             \A p \in Programs : end[p] \in {"half", "closed"} => end'[p] # "open"
      PROVE  Answered'
  <2>1. \A p \in Programs : end[p] # "open" /\ read[p] = <<>> => end'[p] # "open" \/ toClient[p] = <<>>
    BY <1>0, <1>t, <1>f
  <2>2. at' = "again" /\ end[newsockfd] # "open" => end'[newsockfd] # "open"
    BY <1>0, <1>t, <1>f
  <2>3. \A c \in Clients : \A i \in 1..Len(written'[c]) : \A j \in 1..Len(written'[c][i]) :
            Own(c, written'[c][i][j])
    BY <1>f DEF Answered
  <2> QED
    BY <1>f, <2>1, <2>2, <2>3, AnsweredFrame
<1>1. CASE Accept \/ AcceptFails
  BY <1>1, <1>f DEF Accept, AcceptFails, End, program
<1>2. ASSUME NEW p \in Programs, Receive(p) PROVE Answered'
  <2>1. /\ at = "recv" /\ p = newsockfd /\ UNCHANGED <<newsockfd, end, written>>
        /\ \A q \in Programs : q # p => toClient'[q] = toClient[q] /\ read'[q] = read[q]
        /\ buffer'.owner = p /\ buffer'.lines = read'[p]
        /\ \/ toClient' = toClient
           \/ /\ Len(toClient'[p]) = Len(toClient[p]) + 1
              /\ toClient'[p][Len(toClient[p]) + 1] = buffer'
              /\ \A i \in 1..Len(toClient[p]) : toClient'[p][i] = toClient[p][i]
    BY <1>2, ReceiveAt DEF program
  <2>2. toClient[p] = <<>> /\ (p \in Clients => written[p] = <<>>)
    BY <1>t, <2>1 DEF Untouched
  <2>3. Sendable(p, buffer)'
    BY <2>1 DEF Sendable, Own
  <2>4. \A c \in Clients : c = p /\ written[c] # <<>> => read'[c] = read[c]
    BY <2>2
  <2> QED
    BY <2>1, <2>2, <2>3, <2>4, AnsweredSend
<1>3. ASSUME NEW p \in Programs, ReceiveNothing(p) \/ SendAgain(p) PROVE Answered'
  <2>1. /\ p = newsockfd /\ UNCHANGED <<newsockfd, read, end, written>>
        /\ (at = "recv" /\ HasStopped(p)) \/ at = "again"
        /\ \A q \in Programs : q # p => toClient'[q] = toClient[q]
        /\ buffer'.owner = buffer.owner /\ buffer'.lines = buffer.lines
        /\ \/ toClient' = toClient
           \/ /\ Len(toClient'[p]) = Len(toClient[p]) + 1
              /\ toClient'[p][Len(toClient[p]) + 1] = buffer'
              /\ \A i \in 1..Len(toClient[p]) : toClient'[p][i] = toClient[p][i]
    BY <1>3, ResendAt DEF program
  <2>2. Sendable(p, buffer)
    <3>1. CASE at = "again"
      BY <2>1, <3>1 DEF Answered
    <3>2. CASE at = "recv" /\ HasStopped(p)
      BY <1>t, <2>1, <3>2 DEF Sendable, Untouched, HasStopped
    <3> QED
      BY <2>1, <3>1, <3>2
  <2>3. Sendable(p, buffer)'
    BY <2>1, <2>2 DEF Sendable, Own
  <2>4. /\ \A c \in Clients : c = p /\ written[c] # <<>> => read'[c] = read[c]
        /\ \A q \in Programs : q # p => toClient'[q] = toClient[q] /\ read'[q] = read[q]
        /\ read'[p] = read[p]
    BY <2>1
  <2> QED
    BY <2>1, <2>3, <2>4, AnsweredSend
<1>4. ASSUME NEW p \in Programs, Connect(p) PROVE Answered'
  <2>1. \A q \in Programs : end[q] \in {"half", "closed"} => end'[q] # "open"
    BY <1>0, <1>4 DEF Connect
  <2>2. /\ UNCHANGED <<read, toClient, written>>
        /\ at' = "again" => at = "again" /\ UNCHANGED <<newsockfd, buffer>>
    BY <1>4 DEF Connect
  <2> QED
    BY <1>f, <2>1, <2>2
<1>5. ASSUME NEW c \in Clients, FirstLine(c) \/ \E line \in Lines : Ask(c, line) PROVE Answered'
  BY <1>5, <1>f DEF FirstLine, Ask, server
<1>6. ASSUME NEW c \in Clients, RecvFile(c) \/ ReadAll(c) PROVE Answered'
  BY <1>6, AnsweredTake
<1>7. ASSUME NEW c \in Clients, Leave(c) \/ ConnectFails(c) PROVE Answered'
  <2>1. UNCHANGED <<at, newsockfd, buffer, read, toClient, written>>
    BY <1>7 DEF Leave, ConnectFails, server
  <2>2. \A q \in Programs : end[q] \in {"half", "closed"} => end'[q] # "open"
    BY <1>0, <1>7 DEF Leave, ConnectFails
  <2> QED
    BY <1>f, <2>1, <2>2
<1>8. ASSUME NEW o \in Others, OtherStops(o) \/ OtherLeaves(o) PROVE Answered'
  <2>1. UNCHANGED <<at, newsockfd, buffer, read, toClient, written>>
    BY <1>8 DEF OtherStops, OtherLeaves, server
  <2>2. \A q \in Programs : end[q] \in {"half", "closed"} => end'[q] # "open"
    BY <1>0, <1>8 DEF OtherStops, OtherLeaves
  <2> QED
    BY <1>f, <2>1, <2>2
<1>9. ASSUME NEW o \in Others, NEW line, OtherAsks(o, line) PROVE Answered'
  BY <1>9, <1>f DEF OtherAsks, server
<1>10. CASE UNCHANGED vars
  BY <1>10, <1>f DEF vars, server, program
<1>11. ASSUME NEW c \in Clients, ClientConnects(c) PROVE Answered'
  BY <1>4, <1>11, Facts DEF ClientConnects
<1>12. ASSUME NEW o \in Others, OtherConnects(o) PROVE Answered'
  BY <1>4, <1>12, Facts DEF OtherConnects
<1> QED
  BY <1>1, <1>2, <1>3, <1>4, <1>5, <1>6, <1>7, <1>8, <1>9, <1>10, <1>11, <1>12 DEF Next, Serve

-----------------------------------------------------------------------------
(* The end of the server *)

\* EndsForCause with somebody to whom it happened
EndedBy == at = "ended" =>
    \/ descriptors = MaxDescriptors
    \/ /\ newsockfd \in Programs
       /\ \/ end[newsockfd] = "closed"
          \/ end[newsockfd] = "half" /\ read[newsockfd] = <<>>
          \/ Outside(Text(newsockfd, read[newsockfd]))

LEMMA EndedByStep == TypeOK /\ Taken /\ EndedBy /\ [Next]_vars => EndedBy'
<1> SUFFICES ASSUME TypeOK, Taken, EndedBy, [Next]_vars PROVE EndedBy'
  OBVIOUS
<1>0. /\ end \in [Programs -> {"none", "open", "half", "closed"}]
      /\ newsockfd \in Programs \cup {None}
      /\ descriptors \in 0..MaxDescriptors /\ MaxDescriptors \in Nat
  BY Facts DEF TypeOK
<1>f. ASSUME UNCHANGED <<at, newsockfd, descriptors, read>>,
             \A p \in Programs : \/ end'[p] = end[p]
                                 \/ end'[p] = "closed"
                                 \/ end[p] \notin {"half", "closed"}
      PROVE  EndedBy'
  BY <1>f DEF EndedBy, Outside, AsksFor, Text
<1>1. CASE Accept
  BY <1>1 DEF Accept, EndedBy
<1>2. CASE AcceptFails
  <2>1. descriptors = MaxDescriptors
    BY <1>0, <1>2 DEF AcceptFails, HasDescriptor
  <2> QED
    BY <1>2, <2>1 DEF AcceptFails, EndedBy
<1>3. ASSUME NEW p \in Programs, Receive(p) PROVE EndedBy'
  <2>1. /\ at' = "ended" => Outside(Text(p, read'[p]))
        /\ p = newsockfd /\ newsockfd' = newsockfd
    BY <1>3, ReceiveAt
  <2>2. at' = "ended" => Outside(Text(p, read[p]))'
    BY <2>1 DEF Outside, AsksFor, Text
  <2> QED
    BY <2>1, <2>2 DEF EndedBy, Outside, AsksFor, Text
<1>4. ASSUME NEW p \in Programs, ReceiveNothing(p) \/ SendAgain(p) PROVE EndedBy'
  <2>1. /\ p = newsockfd /\ UNCHANGED <<newsockfd, read, end>>
        /\ (at = "recv" /\ HasStopped(p)) \/ at = "again"
        /\ at' = "ended" => at = "recv" \/ Breaks(p)
    BY <1>4, ResendAt DEF program
  <2>2. at = "recv" => read[p] = <<>>
    BY <2>1 DEF Taken, Untouched
  <2>3. at' = "ended" => end[p] = "closed" \/ (end[p] = "half" /\ read[p] = <<>>)
    BY <2>1, <2>2 DEF HasStopped, Breaks
  <2> QED
    BY <2>1, <2>3 DEF EndedBy
<1>5. ASSUME NEW p \in Programs, Connect(p) PROVE EndedBy'
  BY <1>5 DEF Connect, EndedBy
<1>6. ASSUME NEW c \in Clients, FirstLine(c) \/ \E line \in Lines : Ask(c, line) PROVE EndedBy'
  BY <1>6, <1>f DEF FirstLine, Ask, server
<1>7. ASSUME NEW c \in Clients, RecvFile(c) \/ ReadAll(c) PROVE EndedBy'
  BY <1>7, <1>f DEF RecvFile, ReadAll, server
<1>8. ASSUME NEW c \in Clients, Leave(c) \/ ConnectFails(c) PROVE EndedBy'
  <2>1. UNCHANGED <<at, newsockfd, descriptors, read>>
    BY <1>8 DEF Leave, ConnectFails, server
  <2>2. \A p \in Programs : end'[p] = end[p] \/ end'[p] = "closed"
    BY <1>0, <1>8 DEF Leave, ConnectFails
  <2> QED
    BY <1>f, <2>1, <2>2
<1>9. ASSUME NEW o \in Others, OtherStops(o) \/ OtherLeaves(o) PROVE EndedBy'
  <2>1. UNCHANGED <<at, newsockfd, descriptors, read>>
    BY <1>9 DEF OtherStops, OtherLeaves, server
  <2>2. \A p \in Programs : end'[p] = end[p] \/ end'[p] = "closed" \/ end[p] \notin {"half", "closed"}
    BY <1>0, <1>9 DEF OtherStops, OtherLeaves
  <2> QED
    BY <1>f, <2>1, <2>2
<1>10. ASSUME NEW o \in Others, NEW line, OtherAsks(o, line) PROVE EndedBy'
  BY <1>10, <1>f DEF OtherAsks, server
<1>11. CASE UNCHANGED vars
  BY <1>11, <1>f DEF vars, server, program
<1>12. ASSUME NEW c \in Clients, ClientConnects(c) PROVE EndedBy'
  BY <1>5, <1>12, Facts DEF ClientConnects
<1>13. ASSUME NEW o \in Others, OtherConnects(o) PROVE EndedBy'
  BY <1>5, <1>13, Facts DEF OtherConnects
<1> QED
  BY <1>1, <1>2, <1>3, <1>4, <1>5, <1>6, <1>7, <1>8, <1>9, <1>10, <1>11, <1>12, <1>13 DEF Next, Serve

-----------------------------------------------------------------------------
(* The invariants of the run *)

Strengthened == Connected /\ Taken

LEMMA Starting == Init => Strengthened /\ Answered /\ EndedBy
<1> SUFFICES ASSUME Init PROVE Strengthened /\ Answered /\ EndedBy
  OBVIOUS
<1>1. Len(<<>>) = 0 /\ 1..0 = {}
  OBVIOUS
<1>2. /\ at = "accept" /\ newsockfd = None /\ backlog = <<>>
      /\ \A p \in Programs : read[p] = <<>> /\ toClient[p] = <<>> /\ toServer[p] = <<>> /\ end[p] = "none"
      /\ \A c \in Clients : c \in Programs /\ phase[c] = "off" /\ written[c] = <<>>
  BY Facts DEF Init
<1>3. \A p \in Programs : Untouched(p)
  BY <1>2 DEF Untouched
<1>4. Connected
  BY <1>2 DEF Connected
<1>5. Taken
  BY <1>1, <1>2, <1>3 DEF Taken
<1>6. Answered
  BY <1>1, <1>2 DEF Answered
<1>7. EndedBy
  BY <1>2 DEF EndedBy
<1> QED
  BY <1>4, <1>5, <1>6, <1>7 DEF Strengthened

LEMMA StrengthenedAlways == Spec => []Strengthened
<1>1. TypeOK /\ Strengthened /\ [Next]_vars => Strengthened'
  BY ConnectedStep, TakenStep DEF Strengthened
<1> QED
  BY <1>1, Starting, TypeCorrect, PTL DEF Spec

\* What a program gets from the one buffer of the server answers what was read
\* from it.
THEOREM AnswersOwnAlways == Spec => []AnswersOwn
<1>1. TypeOK /\ Strengthened /\ Answered /\ [Next]_vars => Answered'
  BY AnsweredStep DEF Strengthened
<1>2. Answered => AnswersOwn
  BY DEF Answered, AnswersOwn, Sendable
<1> QED
  BY <1>1, <1>2, Starting, StrengthenedAlways, TypeCorrect, PTL DEF Spec

\* The server ends only for its descriptors, for a program that has left or has
\* stopped sending before it was read, or for a request that writes outside
\* fpath.
THEOREM EndsForCauseAlways == Spec => []EndsForCause
<1>1. TypeOK /\ Strengthened /\ EndedBy /\ [Next]_vars => EndedBy'
  BY EndedByStep DEF Strengthened
<1>2. EndedBy => EndsForCause
  BY DEF EndedBy, EndsForCause
<1> QED
  BY <1>1, <1>2, Starting, StrengthenedAlways, TypeCorrect, PTL DEF Spec
=============================================================================
