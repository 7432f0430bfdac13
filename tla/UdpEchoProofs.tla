--------------------------- MODULE UdpEchoProofs ---------------------------
(***************************************************************************)
(* Proofs about UdpEcho: its invariants, for every set of programs and     *)
(* words and any number of sockets and duplicates.                         *)
(*                                                                         *)
(* Current says what keeps the rounds apart: nothing under way belongs to  *)
(* a round that has not begun, and what belongs to the newest round of a   *)
(* client is what its user has typed last.                                 *)
(***************************************************************************)
EXTENDS UdpEcho, TLAPS

Current == \A d \in toServer \cup toClient : \A c \in Clients :
    d.socket[1] = c =>
       /\ d.socket[2] <= sock[c]
       /\ d.socket[2] = sock[c] => d.text = message[c]

\* What is sent, and what is in the buffer, somebody has said
Told ==
    /\ \A d \in toServer : d.text \in told
    /\ buffer # "unwritten" => buffer \in told

LEMMA Facts ==
    /\ MaxSockets \in Nat /\ MaxDuplicates \in Nat
    /\ \A c \in Clients : c \notin Others
    /\ "exit" \in Words /\ "empty" \notin Words /\ "unwritten" \notin Words
<1>1. MaxSockets \in Nat /\ MaxDuplicates \in Nat
  BY BoundsAssumption
<1>2. \A c \in Clients : c \notin Others
  BY ProgramsAssumption
<1>3. "exit" \in Words /\ "empty" \notin Words /\ "unwritten" \notin Words
  BY WordsAssumption
<1> QED
  BY <1>1, <1>2, <1>3

-----------------------------------------------------------------------------
(* Types *)

LEMMA EchoIs == \A d \in Datagrams : Echo(d) = {} \/ (Echo(d) = {d} /\ d.text # "empty")
  BY DEF Echo

LEMMA TypeInit == Init => TypeOK
<1> SUFFICES ASSUME Init PROVE TypeOK
  OBVIOUS
<1>1. duplicated \in 0..MaxDuplicates /\ 0 \in 0..MaxSockets
  BY Facts DEF Init
<1>2. sock \in [Clients -> 0..MaxSockets]
  BY <1>1 DEF Init
<1>3. phase \in [Clients -> Phases] /\ message \in [Clients -> Words \cup {"empty"}]
      /\ shown \in [Clients -> Words \cup {"empty"}]
  BY DEF Init, Phases
<1>4. exitCommand \in BOOLEAN
  BY DEF Init
<1>5. /\ buffer \in Words \cup {"unwritten"} /\ toServer \subseteq Datagrams /\ toClient \subseteq Datagrams
      /\ lost \subseteq Sockets /\ told \subseteq Words \cup {"empty"}
  BY DEF Init
<1> QED
  BY <1>1, <1>2, <1>3, <1>4, <1>5 DEF TypeOK

\* A datagram that is sent
LEMMA Sending ==
  ASSUME TypeOK, NEW s \in Sockets, NEW text \in Words \cup {"empty"},
         toServer' = toServer \cup {[socket |-> s, text |-> text]}, told' = told \cup {text}
  PROVE  toServer' \subseteq Datagrams /\ told' \subseteq Words \cup {"empty"}
<1>1. [socket |-> s, text |-> text] \in Datagrams
  BY DEF Datagrams
<1> QED
  BY <1>1 DEF TypeOK

LEMMA TypeStep == TypeOK /\ [Next]_vars => TypeOK'
<1> SUFFICES ASSUME TypeOK, [Next]_vars PROVE TypeOK'
  OBVIOUS
<1>1. ASSUME NEW d \in toServer, Serve(d) PROVE TypeOK'
  <2>1. d \in Datagrams /\ d.text \in Words \cup {"empty"}
    BY DEF TypeOK, Datagrams
  <2>2. toServer' \subseteq Datagrams /\ toClient' \subseteq Datagrams
    BY <1>1, <2>1, EchoIs DEF TypeOK, Serve
  <2>3. duplicated' \in 0..MaxDuplicates
    BY <1>1, Facts DEF TypeOK, Serve
  <2>4. buffer' \in Words \cup {"unwritten"}
    BY <1>1, <2>1 DEF TypeOK, Serve
  <2>5. exitCommand' \in BOOLEAN
    BY <1>1 DEF TypeOK, Serve
  <2>6. UNCHANGED <<lost, told, phase, sock, message, shown>>
    BY <1>1 DEF Serve, client
  <2> QED
    BY <2>2, <2>3, <2>4, <2>5, <2>6 DEF TypeOK
<1>2. ASSUME NEW d \in toServer \cup toClient, Lose(d) PROVE TypeOK'
  <2>1. d.socket \in Sockets
    BY DEF TypeOK, Datagrams
  <2>2. UNCHANGED <<exitCommand, buffer, duplicated, told, phase, sock, message, shown>>
    BY <1>2 DEF Lose, server, client
  <2>3. toServer' \subseteq toServer /\ toClient' \subseteq toClient /\ lost' = lost \cup {d.socket}
    BY <1>2 DEF Lose
  <2> QED
    BY <2>1, <2>2, <2>3 DEF TypeOK
<1>3. ASSUME NEW c \in Clients, NEW word \in Words, Say(c, word) PROVE TypeOK'
  <2>1. sock' = [sock EXCEPT ![c] = @ + 1] /\ sock[c] < MaxSockets /\ sock \in [Clients -> 0..MaxSockets]
    BY <1>3 DEF Say, TypeOK
  <2>2. sock' \in [Clients -> 0..MaxSockets] /\ sock'[c] \in 1..MaxSockets
    BY <2>1, Facts
  <2>3. <<c, sock'[c]>> \in Sockets
    BY <2>2 DEF Sockets
  <2>4. /\ toServer' = toServer \cup {[socket |-> <<c, sock'[c]>>, text |-> word]}
        /\ told' = told \cup {word}
    BY <1>3 DEF Say, Socket
  <2>5. toServer' \subseteq Datagrams /\ told' \subseteq Words \cup {"empty"}
    BY <2>3, <2>4, Sending
  <2>6. /\ message' \in [Clients -> Words \cup {"empty"}] /\ shown' \in [Clients -> Words \cup {"empty"}]
        /\ phase' \in [Clients -> Phases]
    BY <1>3 DEF Say, TypeOK, Phases
  <2>7. UNCHANGED <<exitCommand, buffer, toClient, duplicated, lost>>
    BY <1>3 DEF Say, server
  <2> QED
    BY <2>2, <2>5, <2>6, <2>7 DEF TypeOK
<1>4. ASSUME NEW c \in Clients, NEW d \in toClient, Hear(c, d) PROVE TypeOK'
  <2>1. d.text \in Words \cup {"empty"}
    BY DEF TypeOK, Datagrams
  <2>2. shown' \in [Clients -> Words \cup {"empty"}] /\ phase' \in [Clients -> Phases]
    BY <1>4, <2>1 DEF Hear, TypeOK, Phases
  <2>3. toClient' \subseteq toClient
    BY <1>4 DEF Hear
  <2>4. duplicated' \in 0..MaxDuplicates
    BY <1>4, Facts DEF Hear, TypeOK
  <2>5. UNCHANGED <<exitCommand, buffer, toServer, lost, told, sock, message>>
    BY <1>4 DEF Hear, server
  <2> QED
    BY <2>2, <2>3, <2>4, <2>5 DEF TypeOK
<1>5. ASSUME NEW c \in Clients, Leave(c) PROVE TypeOK'
  BY <1>5 DEF Leave, TypeOK, Phases, server, network
<1>6. ASSUME NEW o \in Others, NEW text \in Words \cup {"empty"}, OtherSends(o, text) PROVE TypeOK'
  <2>1. <<o, 0>> \in Sockets
    BY DEF Sockets
  <2>2. toServer' \subseteq Datagrams /\ told' \subseteq Words \cup {"empty"}
    BY <1>6, <2>1, Sending DEF OtherSends
  <2>3. UNCHANGED <<exitCommand, buffer, toClient, duplicated, lost, phase, sock, message, shown>>
    BY <1>6 DEF OtherSends, server, client
  <2> QED
    BY <2>2, <2>3 DEF TypeOK
<1>7. CASE UNCHANGED vars
  BY <1>7 DEF vars, server, network, client, TypeOK
<1> QED
  BY <1>1, <1>2, <1>3, <1>4, <1>5, <1>6, <1>7 DEF Next

\* Every variable keeps its type, whoever sends whatever.
THEOREM TypeCorrect == Spec => []TypeOK
<1> QED
  BY TypeInit, TypeStep, PTL DEF Spec

-----------------------------------------------------------------------------
(* The rounds *)

\* Datagrams come to nothing new
LEMMA CurrentFrame ==
  ASSUME Current, UNCHANGED <<sock, message>>,
         toServer' \cup toClient' \subseteq toServer \cup toClient
  PROVE  Current'
  BY DEF Current

LEMMA CurrentStep == TypeOK /\ Current /\ [Next]_vars => Current'
<1> SUFFICES ASSUME TypeOK, Current, [Next]_vars PROVE Current'
  OBVIOUS
<1>1. ASSUME NEW d \in toServer, Serve(d) PROVE Current'
  <2>1. d \in Datagrams
    BY DEF TypeOK
  <2>2. toServer' \cup toClient' \subseteq toServer \cup toClient /\ UNCHANGED <<sock, message>>
    BY <1>1, <2>1, EchoIs DEF Serve, client
  <2> QED
    BY <2>2, CurrentFrame
<1>2. ASSUME NEW d \in toServer \cup toClient, Lose(d) PROVE Current'
  BY <1>2, CurrentFrame DEF Lose, client
<1>3. ASSUME NEW c \in Clients, NEW word \in Words, Say(c, word) PROVE Current'
  <2> DEFINE new == [socket |-> <<c, sock'[c]>>, text |-> word]
  <2>1. /\ toServer' = toServer \cup {new} /\ toClient' = toClient
        /\ sock' = [sock EXCEPT ![c] = @ + 1] /\ message' = [message EXCEPT ![c] = word]
    BY <1>3 DEF Say, Socket
  <2>2. /\ sock \in [Clients -> 0..MaxSockets] /\ message \in [Clients -> Words \cup {"empty"}]
        /\ MaxSockets \in Nat
    BY Facts DEF TypeOK
  <2>3. /\ sock'[c] = sock[c] + 1 /\ sock[c] \in Nat /\ message'[c] = word
        /\ \A b \in Clients : b # c => sock'[b] = sock[b] /\ message'[b] = message[b]
    BY <2>1, <2>2
  <2>4. new.socket[1] = c /\ new.socket[2] = sock'[c] /\ new.text = word
    OBVIOUS
  <2> HIDE DEF new
  <2>5. ASSUME NEW d \in toServer \cup toClient, NEW b \in Clients, d.socket[1] = b
        PROVE  d.socket[2] <= sock'[b] /\ (d.socket[2] = sock'[b] => d.text = message'[b])
    <3>1. d.socket[2] <= sock[b] /\ (d.socket[2] = sock[b] => d.text = message[b])
      BY <2>5 DEF Current
    <3>2. CASE b # c
      BY <2>3, <3>1, <3>2
    <3>3. CASE b = c
      <4>1. d.socket[2] \in Nat
        <5>1. d.socket \in Sockets
          BY DEF TypeOK, Datagrams
        <5>2. \A s \in Sockets : s[2] \in Nat
          BY Facts DEF Sockets
        <5> QED
          BY <5>1, <5>2
      <4>2. d.socket[2] <= sock[c]
        BY <3>1, <3>3
      <4>3. d.socket[2] <= sock[c] + 1 /\ d.socket[2] # sock[c] + 1
        BY <2>3, <4>1, <4>2
      <4> QED
        BY <2>3, <3>3, <4>3
    <3> QED
      BY <3>2, <3>3
  <2>6. ASSUME NEW b \in Clients, new.socket[1] = b
        PROVE  new.socket[2] <= sock'[b] /\ (new.socket[2] = sock'[b] => new.text = message'[b])
    <3>1. b = c
      BY <2>4, <2>6
    <3>2. sock'[c] \in Nat
      BY <2>3
    <3> QED
      BY <2>3, <2>4, <3>1, <3>2
  <2> QED
    BY <2>1, <2>5, <2>6 DEF Current
<1>4. ASSUME NEW c \in Clients, NEW d \in toClient, Hear(c, d) PROVE Current'
  BY <1>4, CurrentFrame DEF Hear
<1>5. ASSUME NEW c \in Clients, Leave(c) PROVE Current'
  BY <1>5, CurrentFrame DEF Leave, network
<1>6. ASSUME NEW o \in Others, NEW text \in Words \cup {"empty"}, OtherSends(o, text) PROVE Current'
  <2> DEFINE new == [socket |-> <<o, 0>>, text |-> text]
  <2>1. toServer' = toServer \cup {new} /\ UNCHANGED <<toClient, sock, message>>
    BY <1>6 DEF OtherSends, client
  <2>2. \A c \in Clients : new.socket[1] # c
    BY Facts
  <2> HIDE DEF new
  <2> QED
    BY <2>1, <2>2 DEF Current
<1>7. CASE UNCHANGED vars
  BY <1>7, CurrentFrame DEF vars, network, client
<1> QED
  BY <1>1, <1>2, <1>3, <1>4, <1>5, <1>6, <1>7 DEF Next

LEMMA MatchesStep == TypeOK /\ Current /\ EchoMatches /\ [Next]_vars => EchoMatches'
<1> SUFFICES ASSUME TypeOK, Current, EchoMatches, [Next]_vars PROVE EchoMatches'
  OBVIOUS
<1>f. UNCHANGED <<message, shown>> => EchoMatches'
  BY DEF EchoMatches
<1>1. ASSUME NEW d \in toServer, Serve(d) PROVE EchoMatches'
  BY <1>1, <1>f DEF Serve, client
<1>2. ASSUME NEW d \in toServer \cup toClient, Lose(d) PROVE EchoMatches'
  BY <1>2, <1>f DEF Lose, client
<1>3. ASSUME NEW c \in Clients, NEW word \in Words, Say(c, word) PROVE EchoMatches'
  BY <1>3 DEF Say, EchoMatches, TypeOK
<1>4. ASSUME NEW c \in Clients, NEW d \in toClient, Hear(c, d) PROVE EchoMatches'
  <2>1. /\ d.socket[1] = c /\ d.socket[2] = sock[c]
        /\ shown' = [shown EXCEPT ![c] = d.text] /\ message' = message
    BY <1>4 DEF Hear, Socket
  <2>2. d.text = message[c]
    BY <2>1 DEF Current
  <2> QED
    BY <2>1, <2>2 DEF EchoMatches, TypeOK
<1>5. ASSUME NEW c \in Clients, Leave(c) PROVE EchoMatches'
  BY <1>5, <1>f DEF Leave
<1>6. ASSUME NEW o \in Others, NEW text, OtherSends(o, text) PROVE EchoMatches'
  BY <1>6, <1>f DEF OtherSends, client
<1>7. CASE UNCHANGED vars
  BY <1>7, <1>f DEF vars, client
<1> QED
  BY <1>1, <1>2, <1>3, <1>4, <1>5, <1>6, <1>7 DEF Next

\* A client shows what its user has typed in this round, whatever comes late or
\* twice.
THEOREM EchoMatchesAlways == Spec => []EchoMatches
<1>1. Init => Current /\ EchoMatches
  BY DEF Init, Current, EchoMatches
<1>2. TypeOK /\ (Current /\ EchoMatches) /\ [Next]_vars => (Current /\ EchoMatches)'
  BY CurrentStep, MatchesStep
<1> QED
  BY <1>1, <1>2, TypeCorrect, PTL DEF Spec

-----------------------------------------------------------------------------
(* The end of the server *)

LEMMA ExitStep == TypeOK /\ Told /\ EndsOnExit /\ [Next]_vars => Told' /\ EndsOnExit'
<1> SUFFICES ASSUME TypeOK, Told, EndsOnExit, [Next]_vars PROVE Told' /\ EndsOnExit'
  OBVIOUS
<1>f. ASSUME UNCHANGED <<exitCommand, buffer>>, told \subseteq told',
             \A d \in toServer' : d \in toServer \/ d.text \in told'
      PROVE  Told' /\ EndsOnExit'
  BY <1>f DEF Told, EndsOnExit
<1>1. ASSUME NEW d \in toServer, Serve(d) PROVE Told' /\ EndsOnExit'
  <2>1. /\ ~exitCommand /\ told' = told /\ toServer' \subseteq toServer
        /\ buffer' = IF d.text = "empty" THEN buffer ELSE d.text
        /\ Exits(d) \/ UNCHANGED exitCommand
    BY <1>1 DEF Serve
  <2>2. d.text \in told
    BY DEF Told
  <2>3. Told'
    BY <2>1, <2>2 DEF Told
  <2>4. ASSUME Exits(d) PROVE EndsOnExit'
    <3>1. CASE d.text = "exit"
      BY <2>1, <2>2, <3>1 DEF EndsOnExit
    <3>2. CASE d.text = "empty" /\ buffer = "exit"
      BY <2>1, <3>2 DEF EndsOnExit, Told
    <3>3. CASE d.text = "empty" /\ buffer = "unwritten"
      BY <2>1, <2>2, <3>3 DEF EndsOnExit
    <3> QED
      BY <2>4, <3>1, <3>2, <3>3 DEF Exits
  <2>5. ASSUME UNCHANGED exitCommand PROVE EndsOnExit'
    BY <2>1, <2>5 DEF EndsOnExit
  <2> QED
    BY <2>1, <2>3, <2>4, <2>5
<1>2. ASSUME NEW d \in toServer \cup toClient, Lose(d) PROVE Told' /\ EndsOnExit'
  BY <1>2, <1>f DEF Lose, server
<1>3. ASSUME NEW c \in Clients, NEW word \in Words, Say(c, word) PROVE Told' /\ EndsOnExit'
  <2>1. /\ UNCHANGED <<exitCommand, buffer>> /\ told' = told \cup {word}
        /\ \E s : toServer' = toServer \cup {[socket |-> s, text |-> word]}
    BY <1>3 DEF Say, server
  <2> QED
    BY <1>f, <2>1
<1>4. ASSUME NEW c \in Clients, NEW d \in toClient, Hear(c, d) PROVE Told' /\ EndsOnExit'
  BY <1>4, <1>f DEF Hear, server
<1>5. ASSUME NEW c \in Clients, Leave(c) PROVE Told' /\ EndsOnExit'
  BY <1>5, <1>f DEF Leave, server, network
<1>6. ASSUME NEW o \in Others, NEW text \in Words \cup {"empty"}, OtherSends(o, text)
      PROVE  Told' /\ EndsOnExit'
  BY <1>6, <1>f DEF OtherSends, server
<1>7. CASE UNCHANGED vars
  BY <1>7, <1>f DEF vars, server, network
<1> QED
  BY <1>1, <1>2, <1>3, <1>4, <1>5, <1>6, <1>7 DEF Next

\* The server ends only on the word, or on what its buffer held at first.
THEOREM EndsOnExitAlways == Spec => []EndsOnExit
<1>1. Init => Told /\ EndsOnExit
  BY DEF Init, Told, EndsOnExit
<1>2. TypeOK /\ (Told /\ EndsOnExit) /\ [Next]_vars => (Told /\ EndsOnExit)'
  BY ExitStep
<1> QED
  BY <1>1, <1>2, TypeCorrect, PTL DEF Spec
=============================================================================
