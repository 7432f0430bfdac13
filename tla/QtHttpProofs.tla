---------------------------- MODULE QtHttpProofs ----------------------------
(***************************************************************************)
(* Proofs about QtHttp: type correctness and every invariant and action    *)
(* property of its run, for every set of programs and every bound.         *)
(*                                                                         *)
(* What slotReadClient does depends on one variable that every connection  *)
(* replaces.  Connections, Queue and Carried say how that variable, the     *)
(* backlog and the ends of a connection fit: one is queued once, with its  *)
(* question in it, and is client_socket only after that.  Accounts ties    *)
(* what is answered to what was asked, and Commands the end of the server  *)
(* to a command that was answered.                                         *)
(***************************************************************************)
EXTENDS QtHttp, TLAPS

\* A connection has a server's end only once its program has requested it
Connections ==
    /\ \A c \in Conn : client_end[c] = "none" => server_end[c] = "none"
    /\ \A p \in Clients : phase[p] = "off" => client_end[Socket(p)] = "none"
    /\ \A p \in Clients : \A n \in 1..MaxRequests :
          n > questions[p] => client_end[<<p, n>>] = "none"

\* The backlog holds connections to be taken, once each, and the newest of
\* those taken is none of them
Queue ==
    /\ \A i \in 1..Len(backlog) : server_end[backlog[i]] = "queued"
    /\ \A i, j \in 1..Len(backlog) : backlog[i] = backlog[j] => i = j
    /\ client_socket # None => server_end[client_socket] \in {"open", "closed"}

\* A question is on its way from when its connection is requested, and only
\* questions are
Carried == \A p \in Clients : \A n \in 1..MaxRequests :
    /\ server_end[<<p, n>>] = "queued" => toServer[<<p, n>>] # <<>>
    /\ \A i \in 1..Len(toServer[<<p, n>>]) : toServer[<<p, n>>][i] \in Questions

Joined == Connections /\ Queue /\ Carried

\* What has been answered and what is to be answered has been asked
Counted(c) == Len(told[c]) + Len(toServer[c]) <= Len(asked[c])

Account(c) ==
    /\ Counted(c)
    /\ \A i \in 1..Len(toServer[c]) : \E j \in 1..Len(asked[c]) : asked[c][j] = toServer[c][i]
    /\ \A i \in 1..Len(told[c]) : \E j \in 1..Len(asked[c]) :
          asked[c][j] \in Questions /\ told[c][i] = Code(asked[c][j])

Accounts == \A c \in Conn : Account(c)

\* A program has sent what ends the server, and been answered if it is a command
Commanded == \E c \in Conn : \E j \in 1..Len(asked[c]) :
    \/ asked[c][j] = "GET"
    \/ asked[c][j] = "shutdown" /\ \E i \in 1..Len(told[c]) : told[c][i] = 202

\* Both delays of "shutdown" run only once it has been answered
Commands == Commanded \/ (running /\ stops = 0 /\ quits = 0)

-----------------------------------------------------------------------------
(* Types *)

LEMMA Facts ==
    /\ MaxRequests \in Nat
    /\ None \notin Conn
    /\ \A p \in Clients \cup Others : Socket(p) \in Conn
    /\ \A p \in Clients : \A n \in 0..MaxRequests : <<p, n>> \in Conn
    /\ \A p \in Clients : \A n \in 1..MaxRequests : <<p, n>> \in Conn
    /\ Questions \subseteq Requests
    /\ OtherRequests \subseteq Requests
<1>1. 1..MaxRequests \subseteq 0..MaxRequests
  BY BoundAssumption
<1>2. /\ \A p \in Clients \cup Others : Socket(p) \in Conn
      /\ \A p \in Clients : \A n \in 0..MaxRequests : <<p, n>> \in Conn
  BY BoundAssumption DEF Conn, Socket
<1> QED
  BY <1>1, <1>2, BoundAssumption, NoneAssumption, RequestsAssumption DEF Requests

\* The types by who changes them
ServerTypes ==
    /\ running \in BOOLEAN
    /\ backlog \in Seq(Conn)
    /\ client_socket \in Conn \cup {None}
    /\ server_end \in [Conn -> {"none", "queued", "open", "closed"}]
    /\ closes \in Nat /\ stops \in Nat /\ quits \in Nat

WireTypes ==
    /\ asked \in [Conn -> Seq(Requests)]
    /\ toServer \in [Conn -> Seq(Requests)]
    /\ told \in [Conn -> Seq({200, 202, 400})]

ClientTypes ==
    /\ phase \in [Clients -> Phases]
    /\ client_end \in [Conn -> {"none", "open", "closed"}]
    /\ sent \in 0..MaxRequests
    /\ questions \in [Clients -> 0..sent]
    /\ replies \in [Clients -> SUBSET (1..MaxRequests)]
    /\ timers \in [Clients -> SUBSET (1..MaxRequests)]

LEMMA TypesApart == TypeOK <=> ServerTypes /\ WireTypes /\ ClientTypes
  BY DEF TypeOK, ServerTypes, WireTypes, ClientTypes

LEMMA TypeInit == Init => TypeOK
<1> SUFFICES ASSUME Init PROVE TypeOK
  OBVIOUS
<1>1. ServerTypes
  BY DEF Init, ServerTypes
<1>2. WireTypes
  BY DEF Init, WireTypes
<1>3. ClientTypes
  BY Facts DEF Init, ClientTypes, Phases
<1> QED
  BY <1>1, <1>2, <1>3, TypesApart

LEMMA EndTypes ==
  ASSUME ServerTypes, End
  PROVE  /\ running' \in BOOLEAN /\ backlog' \in Seq(Conn)
         /\ server_end' \in [Conn -> {"none", "queued", "open", "closed"}]
<1>1. backlog' \in Seq(Conn)
  BY DEF End
<1>3. running' \in BOOLEAN
  BY Zenon DEF End
<1>2. server_end' \in [Conn -> {"none", "queued", "open", "closed"}]
  BY DEF ServerTypes, End
<1> QED
  BY <1>1, <1>2, <1>3

LEMMA ConnectTypes ==
  ASSUME ServerTypes, ClientTypes, NEW c \in Conn, Connect(c)
  PROVE  ServerTypes' /\ client_end' \in [Conn -> {"none", "open", "closed"}]
<1>1. backlog' \in Seq(Conn)
  BY DEF ServerTypes, Connect
<1>2. server_end' \in [Conn -> {"none", "queued", "open", "closed"}]
  BY DEF ServerTypes, Connect
<1>3. UNCHANGED <<running, client_socket, closes, stops, quits>>
  BY DEF Connect
<1>4. client_end' \in [Conn -> {"none", "open", "closed"}]
  BY DEF ClientTypes, Connect
<1> QED
  BY <1>1, <1>2, <1>3, <1>4 DEF ServerTypes

LEMMA RequestTypes ==
  ASSUME WireTypes, ClientTypes, NEW c \in Conn, NEW r \in Requests, Request(c, r)
  PROVE  WireTypes' /\ sent' \in 0..MaxRequests /\ sent' = sent + 1
<1>1. sent' = sent + 1 /\ sent' \in 0..MaxRequests
  BY Facts DEF Request, ClientTypes
<1>2. asked' \in [Conn -> Seq(Requests)]
  BY DEF Request, WireTypes
<1>3. toServer' \in [Conn -> Seq(Requests)]
  BY DEF Request, WireTypes
<1> QED
  BY <1>1, <1>2, <1>3 DEF Request, WireTypes

LEMMA HangupTypes ==
  ASSUME ClientTypes, NEW p
  PROVE  Hangup(p) \in [Conn -> {"none", "open", "closed"}]
  BY DEF ClientTypes, Hangup

LEMMA AskOrQuitTypes ==
  ASSUME ServerTypes, WireTypes, ClientTypes, NEW p \in Clients,
         NEW waited \in SUBSET (1..MaxRequests), NEW left \in SUBSET (1..MaxRequests),
         AskOrQuit(p, waited, left)
  PROVE  ServerTypes' /\ WireTypes' /\ ClientTypes'
<1>1. UNCHANGED <<server, wire, questions>>
  BY DEF AskOrQuit, Quit
<1>2. ServerTypes' /\ WireTypes'
  BY <1>1 DEF ServerTypes, WireTypes, server, wire
<1>3. client_end' \in [Conn -> {"none", "open", "closed"}]
  BY HangupTypes DEF AskOrQuit, Quit, ClientTypes
<1>4. /\ phase' \in [Clients -> Phases]
      /\ replies' \in [Clients -> SUBSET (1..MaxRequests)]
      /\ timers' \in [Clients -> SUBSET (1..MaxRequests)]
  BY DEF AskOrQuit, Quit, ClientTypes, Phases
<1>5. UNCHANGED <<sent, questions>>
  BY <1>1 DEF wire
<1> QED
  BY <1>2, <1>3, <1>4, <1>5 DEF ClientTypes

LEMMA TypeStep == TypeOK /\ [Next]_vars => TypeOK'
<1> SUFFICES ASSUME ServerTypes, WireTypes, ClientTypes, [Next]_vars
             PROVE  ServerTypes' /\ WireTypes' /\ ClientTypes'
  BY TypesApart, PTL
<1>0. UNCHANGED wire => WireTypes'
  BY DEF wire, WireTypes
<1>00. UNCHANGED <<client, client_end, sent>> => ClientTypes'
  BY DEF client, ClientTypes
<1>000. UNCHANGED server => ServerTypes'
  BY DEF server, ServerTypes
<1>s. UNCHANGED wire => UNCHANGED sent
  BY DEF wire
<1>1. CASE slotNewConnection
  <2>1. UNCHANGED <<running, closes, stops, quits, wire, client, client_end>>
    BY <1>1 DEF slotNewConnection
  <2>2. Head(backlog) \in Conn /\ backlog' \in Seq(Conn)
    BY <1>1 DEF slotNewConnection, ServerTypes
  <2>3. server_end' \in [Conn -> {"none", "queued", "open", "closed"}]
    BY <1>1, <2>2 DEF slotNewConnection, ServerTypes
  <2>4. client_socket' \in Conn \cup {None}
    BY <1>1, <2>2 DEF slotNewConnection
  <2>5. ServerTypes'
    BY <2>1, <2>2, <2>3, <2>4 DEF ServerTypes
  <2> QED
    BY <2>1, <2>5, <1>0, <1>00, <1>s
<1>2. CASE ExitCloses \/ ShutdownCloses
  <2>1. UNCHANGED <<running, backlog, client_socket, wire, client, client_end>>
    BY <1>2 DEF ExitCloses, ShutdownCloses
  <2>2. closes' \in Nat /\ stops' \in Nat /\ quits' \in Nat
    BY <1>2 DEF ExitCloses, ShutdownCloses, QuitFollows, ServerTypes
  <2>3. server_end' \in [Conn -> {"none", "queued", "open", "closed"}]
    BY <1>2 DEF ExitCloses, ShutdownCloses, Closed, ServerTypes
  <2>4. ServerTypes'
    BY <2>1, <2>2, <2>3 DEF ServerTypes
  <2> QED
    BY <2>1, <2>4, <1>0, <1>00, <1>s
<1>3. CASE ServerQuits
  <2>1. UNCHANGED <<client_socket, closes, stops, quits, wire, client, client_end>>
    BY <1>3 DEF ServerQuits
  <2>2. ServerTypes'
    BY <1>3, <2>1, EndTypes DEF ServerQuits, ServerTypes
  <2> QED
    BY <2>1, <2>2, <1>0, <1>00, <1>s
<1>4. ASSUME NEW c \in Conn, slotReadClient(c) PROVE ServerTypes' /\ WireTypes' /\ ClientTypes'
  <2>1. UNCHANGED <<client_socket, asked, sent, client, client_end>>
    BY <1>4 DEF slotReadClient
  <2>2. toServer' \in [Conn -> Seq(Requests)]
    BY <1>4 DEF slotReadClient, WireTypes
  <2> DEFINE Served == /\ running' \in BOOLEAN /\ backlog' \in Seq(Conn)
                       /\ server_end' \in [Conn -> {"none", "queued", "open", "closed"}]
                       /\ closes' \in Nat /\ stops' \in Nat /\ quits' \in Nat
                       /\ told' \in [Conn -> Seq({200, 202, 400})]
  <2>3. ASSUME NEW r, Answer(c, r) PROVE Served
    <3>1. Code(r) \in {200, 202, 400}
      BY DEF Code
    <3>2. told' \in [Conn -> Seq({200, 202, 400})]
      BY <2>3, <3>1 DEF Answer, Send, WireTypes
    <3>3. closes' \in Nat /\ stops' \in Nat /\ quits' \in Nat
      BY <2>3 DEF Answer, ServerTypes
    <3> QED
      BY <2>3, <3>2, <3>3 DEF Answer, ServerTypes
  <2>4. ASSUME UNCHANGED <<running, backlog, server_end, closes, stops, quits, told>>
        PROVE  Served
    BY <2>4 DEF ServerTypes, WireTypes
  <2>5. ASSUME NEW r, Undefined(r) PROVE Served
    <3>1. UNCHANGED <<closes, stops, quits, told>>
      BY <2>5 DEF Undefined
    <3>2. /\ running' \in BOOLEAN /\ backlog' \in Seq(Conn)
          /\ server_end' \in [Conn -> {"none", "queued", "open", "closed"}]
      BY <2>5, EndTypes DEF Undefined, ServerTypes
    <3> QED
      BY <3>1, <3>2 DEF ServerTypes, WireTypes
  <2> HIDE DEF Served
  <2>6. Served
    BY <1>4, <2>3, <2>4, <2>5 DEF slotReadClient, Unanswered
  <2>7. ServerTypes' /\ WireTypes'
    BY <2>1, <2>2, <2>6 DEF Served, ServerTypes, WireTypes
  <2> QED
    BY <2>1, <2>7, <1>00
<1>5. ASSUME NEW c \in Conn, HearClose(c) PROVE ServerTypes' /\ WireTypes' /\ ClientTypes'
  <2>1. UNCHANGED <<running, backlog, client_socket, closes, stops, quits, wire, client, client_end>>
    BY <1>5 DEF HearClose
  <2>2. server_end' \in [Conn -> {"none", "queued", "open", "closed"}]
    BY <1>5 DEF HearClose, Closed, ServerTypes
  <2>3. ServerTypes'
    BY <2>1, <2>2 DEF ServerTypes
  <2> QED
    BY <2>1, <2>3, <1>0, <1>00, <1>s
<1>6. ASSUME NEW p \in Clients, Start(p) PROVE ServerTypes' /\ WireTypes' /\ ClientTypes'
  <2>1. ServerTypes' /\ client_end' \in [Conn -> {"none", "open", "closed"}]
    BY <1>6, ConnectTypes, Facts DEF Start
  <2>2. phase' \in [Clients -> Phases]
    BY <1>6 DEF Start, ClientTypes, Phases
  <2>3. UNCHANGED <<wire, questions, replies, timers>>
    BY <1>6 DEF Start
  <2>4. ClientTypes'
    BY <2>1, <2>2, <2>3, <1>s DEF ClientTypes
  <2> QED
    BY <2>1, <2>3, <2>4, <1>0
<1>7. ASSUME NEW p \in Clients, NEW r \in Questions, Ask(p, r)
      PROVE  ServerTypes' /\ WireTypes' /\ ClientTypes'
  <2>1. questions[p] \in 0..sent /\ sent \in 0..MaxRequests /\ sent < MaxRequests
    BY <1>7 DEF Ask, Request, ClientTypes
  <2>2. questions[p] + 1 \in 1..MaxRequests /\ questions[p] + 1 \in 0..(sent + 1)
    BY <2>1, Facts
  <2>3. <<p, questions[p] + 1>> \in Conn
    BY <2>2, Facts
  <2>4. ServerTypes' /\ client_end' \in [Conn -> {"none", "open", "closed"}]
    BY <1>7, <2>3, ConnectTypes DEF Ask
  <2>5. WireTypes' /\ sent' \in 0..MaxRequests /\ sent' = sent + 1
    BY <1>7, <2>3, RequestTypes, Facts DEF Ask
  <2>6. questions' \in [Clients -> 0..sent']
    <3>1. questions \in [Clients -> 0..sent] /\ 0..sent \subseteq 0..(sent + 1)
      BY <2>1 DEF ClientTypes
    <3>2. questions \in [Clients -> 0..(sent + 1)]
      BY <3>1
    <3>3. questions' = [questions EXCEPT ![p] = questions[p] + 1]
      BY <1>7 DEF Ask
    <3> QED
      BY <2>2, <2>5, <3>2, <3>3
  <2>7. replies' \in [Clients -> SUBSET (1..MaxRequests)]
    BY <1>7, <2>2 DEF Ask, ClientTypes
  <2>8. timers' \in [Clients -> SUBSET (1..MaxRequests)]
    BY <1>7, <2>2 DEF Ask, NewTimer, ClientTypes
  <2>9. phase' \in [Clients -> Phases]
    BY <1>7 DEF Ask, ClientTypes, Phases
  <2> QED
    BY <2>4, <2>5, <2>6, <2>7, <2>8, <2>9 DEF ClientTypes
<1>8. ASSUME NEW p \in Clients, NEW n \in 1..MaxRequests, OnResponse(p, n)
      PROVE  ServerTypes' /\ WireTypes' /\ ClientTypes'
  <2>1. replies[p] \ {n} \in SUBSET (1..MaxRequests) /\ Stopped(p, n) \in SUBSET (1..MaxRequests)
    BY DEF ClientTypes, Stopped
  <2> QED
    BY <1>8, <2>1, AskOrQuitTypes DEF OnResponse
<1>9. ASSUME NEW p \in Clients, NEW n \in 1..MaxRequests, ReplyFails(p, n)
      PROVE  ServerTypes' /\ WireTypes' /\ ClientTypes'
  <2>1. UNCHANGED <<server, wire, phase, questions, timers, client_end>>
    BY <1>9 DEF ReplyFails
  <2>2. replies' \in [Clients -> SUBSET (1..MaxRequests)]
    BY <1>9 DEF ReplyFails, ClientTypes
  <2>3. ClientTypes'
    BY <2>1, <2>2, <1>s DEF ClientTypes
  <2> QED
    BY <2>1, <2>3, <1>0, <1>000
<1>10. ASSUME NEW p \in Clients, slotTimeoutWaiting(p)
       PROVE  ServerTypes' /\ WireTypes' /\ ClientTypes'
  <2>1. PICK n \in timers[p] : AskOrQuit(p, replies[p], timers[p] \ {n})
    BY <1>10 DEF slotTimeoutWaiting
  <2>2. replies[p] \in SUBSET (1..MaxRequests) /\ timers[p] \ {n} \in SUBSET (1..MaxRequests)
    BY DEF ClientTypes
  <2> QED
    BY <2>1, <2>2, AskOrQuitTypes
<1>11. ASSUME NEW p \in Clients, slotServerDisconnected(p)
       PROVE  ServerTypes' /\ WireTypes' /\ ClientTypes'
  <2>1. UNCHANGED <<server, wire, client>>
    BY <1>11 DEF slotServerDisconnected
  <2>2. client_end' \in [Conn -> {"none", "open", "closed"}]
    BY <1>11 DEF slotServerDisconnected, ClientTypes
  <2>3. ClientTypes'
    BY <2>1, <2>2, <1>s DEF ClientTypes, client
  <2> QED
    BY <2>1, <2>3, <1>0, <1>000
<1>12. ASSUME NEW p \in Clients, Leave(p) PROVE ServerTypes' /\ WireTypes' /\ ClientTypes'
  <2>1. UNCHANGED <<server, wire, questions>>
    BY <1>12 DEF Leave, Quit
  <2>2. client_end' \in [Conn -> {"none", "open", "closed"}]
    BY <1>12, HangupTypes DEF Leave, Quit
  <2>3. /\ phase' \in [Clients -> Phases]
        /\ replies' \in [Clients -> SUBSET (1..MaxRequests)]
        /\ timers' \in [Clients -> SUBSET (1..MaxRequests)]
    BY <1>12 DEF Leave, Quit, ClientTypes, Phases
  <2>4. ClientTypes'
    BY <2>1, <2>2, <2>3, <1>s DEF ClientTypes
  <2> QED
    BY <2>1, <2>4, <1>0, <1>000
<1>13. ASSUME NEW o \in Others, OtherConnects(o) PROVE ServerTypes' /\ WireTypes' /\ ClientTypes'
  <2>1. ServerTypes' /\ client_end' \in [Conn -> {"none", "open", "closed"}]
    BY <1>13, ConnectTypes, Facts DEF OtherConnects
  <2>2. UNCHANGED <<wire, client>>
    BY <1>13 DEF OtherConnects
  <2>3. ClientTypes'
    BY <2>1, <2>2, <1>s DEF ClientTypes, client
  <2> QED
    BY <2>1, <2>2, <2>3, <1>0
<1>14. ASSUME NEW o \in Others, NEW r \in OtherRequests, OtherAsks(o, r)
       PROVE  ServerTypes' /\ WireTypes' /\ ClientTypes'
  <2>1. UNCHANGED <<server, client, client_end>>
    BY <1>14 DEF OtherAsks
  <2>2. WireTypes' /\ sent' \in 0..MaxRequests /\ sent' = sent + 1
    BY <1>14, RequestTypes, Facts DEF OtherAsks
  <2>3. questions' \in [Clients -> 0..sent']
    <3>1. questions \in [Clients -> 0..sent] /\ 0..sent \subseteq 0..(sent + 1)
      BY Facts DEF ClientTypes
    <3> QED
      BY <2>1, <2>2, <3>1 DEF client
  <2>4. ClientTypes'
    BY <2>1, <2>2, <2>3 DEF ClientTypes, client
  <2> QED
    BY <2>1, <2>2, <2>4, <1>000
<1>15. ASSUME NEW o \in Others, OtherLeaves(o) PROVE ServerTypes' /\ WireTypes' /\ ClientTypes'
  <2>1. UNCHANGED <<server, wire, client>>
    BY <1>15 DEF OtherLeaves
  <2>2. client_end' \in [Conn -> {"none", "open", "closed"}]
    BY <1>15, HangupTypes DEF OtherLeaves
  <2>3. ClientTypes'
    BY <2>1, <2>2, <1>s DEF ClientTypes, client
  <2> QED
    BY <2>1, <2>3, <1>0, <1>000
<1>16. CASE UNCHANGED vars
  BY <1>16, <1>0, <1>00, <1>000, <1>s DEF vars
<1> QED
  BY <1>1, <1>2, <1>3, <1>4, <1>5, <1>6, <1>7, <1>8, <1>9, <1>10, <1>11, <1>12, <1>13, <1>14,
     <1>15, <1>16 DEF Next

\* Every variable of the service keeps its type.
THEOREM TypeCorrect == Spec => []TypeOK
<1> QED
  BY TypeInit, TypeStep, PTL DEF Spec

-----------------------------------------------------------------------------
(* The timers of a client *)

LEMMA TimerStep == TypeOK /\ WaitsWithTimer /\ [Next]_vars => WaitsWithTimer'
<1> SUFFICES ASSUME ClientTypes, WaitsWithTimer, [Next]_vars, NEW q \in Clients
             PROVE  timers'[q] = IF phase'[q] = "waiting" THEN {questions'[q]} ELSE {}
  BY TypesApart DEF WaitsWithTimer
<1>0. UNCHANGED client => timers'[q] = IF phase'[q] = "waiting" THEN {questions'[q]} ELSE {}
  BY DEF client, WaitsWithTimer
<1> DEFINE Waits == timers'[q] = IF phase'[q] = "waiting" THEN {questions'[q]} ELSE {}
<1> HIDE DEF Waits
<1>00. UNCHANGED client => Waits
  BY <1>0 DEF Waits
<1>a. ASSUME NEW p \in Clients, NEW waited, NEW left, AskOrQuit(p, waited, left),
             phase[p] = "waiting", left = {}
      PROVE  Waits
  <2>1. questions' = questions
    BY <1>a DEF AskOrQuit, Quit
  <2>2. phase' = [phase EXCEPT ![p] = "asking"] \/ phase' = [phase EXCEPT ![p] = "gone"]
    BY <1>a DEF AskOrQuit, Quit
  <2>3. timers' = [timers EXCEPT ![p] = {}]
    BY <1>a DEF AskOrQuit, Quit
  <2> QED
    BY <2>1, <2>2, <2>3 DEF Waits, WaitsWithTimer, ClientTypes
<1>1. ASSUME NEW p \in Clients, NEW n, OnResponse(p, n) PROVE Waits
  <2>1. Stopped(p, n) = {}
    BY <1>1 DEF OnResponse, Stopped, WaitsWithTimer
  <2> QED
    BY <1>1, <1>a, <2>1 DEF OnResponse
<1>2. ASSUME NEW p \in Clients, slotTimeoutWaiting(p) PROVE Waits
  <2>1. PICK n \in timers[p] : AskOrQuit(p, replies[p], timers[p] \ {n})
    BY <1>2 DEF slotTimeoutWaiting
  <2>2. timers[p] \ {n} = {}
    BY <1>2, <2>1 DEF slotTimeoutWaiting, WaitsWithTimer
  <2> QED
    BY <1>2, <1>a, <2>1, <2>2 DEF slotTimeoutWaiting
<1>3. ASSUME NEW p \in Clients, NEW n, ReplyFails(p, n) PROVE Waits
  BY <1>3 DEF ReplyFails, Waits, WaitsWithTimer
<1>4. ASSUME NEW p \in Clients, Start(p) PROVE Waits
  BY <1>4 DEF Start, Waits, WaitsWithTimer, ClientTypes
<1>5. ASSUME NEW p \in Clients, NEW r \in Questions, Ask(p, r) PROVE Waits
  <2>1. timers[p] = {}
    BY <1>5 DEF Ask, WaitsWithTimer
  <2>2. timers' = [timers EXCEPT ![p] = {questions[p] + 1}]
    BY <1>5, <2>1 DEF Ask, NewTimer
  <2>3. /\ phase' = [phase EXCEPT ![p] = "waiting"]
        /\ questions' = [questions EXCEPT ![p] = questions[p] + 1]
    BY <1>5 DEF Ask
  <2> QED
    BY <2>2, <2>3 DEF Waits, WaitsWithTimer, ClientTypes
<1>6. ASSUME NEW p \in Clients, Leave(p) PROVE Waits
  BY <1>6 DEF Leave, Quit, Waits, WaitsWithTimer, ClientTypes
<1>7. ASSUME \/ slotNewConnection \/ ExitCloses \/ ShutdownCloses \/ ServerQuits
             \/ \E c \in Conn : slotReadClient(c) \/ HearClose(c)
      PROVE  Waits
  BY <1>7, <1>00 DEF slotNewConnection, ExitCloses, ShutdownCloses, ServerQuits, slotReadClient, HearClose
<1>8. ASSUME \/ \E p \in Clients : slotServerDisconnected(p)
             \/ \E o \in Others : \/ OtherConnects(o) \/ OtherLeaves(o)
                                  \/ \E r \in OtherRequests : OtherAsks(o, r)
             \/ UNCHANGED vars
      PROVE  Waits
  BY <1>8, <1>00 DEF slotServerDisconnected, OtherConnects, OtherLeaves, OtherAsks, vars
<1> QED
  <2>1. Waits
    BY <1>1, <1>2, <1>3, <1>4, <1>5, <1>6, <1>7, <1>8 DEF Next
  <2> QED
    BY <2>1 DEF Waits

\* A client that waits has the timer of its last question and no other.
THEOREM WaitsWithTimerAlways == Spec => []WaitsWithTimer
<1>1. Init => WaitsWithTimer
  BY DEF Init, WaitsWithTimer
<1> QED
  BY <1>1, TimerStep, TypeCorrect, PTL DEF Spec

-----------------------------------------------------------------------------
(* What is asked and answered *)

\* What keeps a count, in numbers alone
LEMMA Sums ==
  ASSUME NEW a \in Nat, NEW b \in Nat, NEW d \in Nat, a + b <= d
  PROVE  a <= d /\ a + (b + 1) <= d + 1 /\ a + 0 <= d /\ (b # 0 => (a + 1) + 0 <= d)
  OBVIOUS

\* Appending to a sequence of requests
LEMMA AppendAt ==
  ASSUME NEW S, NEW f \in [Conn -> Seq(S)], NEW c \in Conn, NEW e \in S,
         NEW g, g = [f EXCEPT ![c] = Append(@, e)], NEW d \in Conn
  PROVE  /\ d # c => g[d] = f[d]
         /\ Len(g[c]) = Len(f[c]) + 1
         /\ g[c][Len(f[c]) + 1] = e
         /\ \A i \in 1..Len(f[c]) : g[c][i] = f[c][i]
<1>1. g[c] = Append(f[c], e) /\ f[c] \in Seq(S)
  OBVIOUS
<1> QED
  BY <1>1

LEMMA RequestAccounts ==
  ASSUME TypeOK, Accounts, NEW c \in Conn, NEW r \in Requests, Request(c, r)
  PROVE  Accounts'
<1> SUFFICES ASSUME NEW d \in Conn PROVE Account(d)'
  BY DEF Accounts
<1>1. /\ asked \in [Conn -> Seq(Requests)] /\ toServer \in [Conn -> Seq(Requests)]
      /\ told \in [Conn -> Seq({200, 202, 400})]
  BY DEF TypeOK
<1>2. /\ asked' = [asked EXCEPT ![c] = Append(@, r)]
      /\ toServer' = [toServer EXCEPT ![c] = Append(@, r)]
      /\ told' = told
  BY DEF Request
<1>3. CASE d # c
  <2>1. asked'[d] = asked[d] /\ toServer'[d] = toServer[d] /\ told'[d] = told[d]
    BY <1>1, <1>2, <1>3
  <2> QED
    <3>1. Account(d)
      BY DEF Accounts
    <3> QED
      BY <2>1, <3>1 DEF Account, Counted
<1>4. CASE d = c
  <2>1. /\ Len(asked'[c]) = Len(asked[c]) + 1
        /\ asked'[c][Len(asked[c]) + 1] = r
        /\ \A i \in 1..Len(asked[c]) : asked'[c][i] = asked[c][i]
    BY <1>1, <1>2, AppendAt
  <2>2. /\ Len(toServer'[c]) = Len(toServer[c]) + 1
        /\ toServer'[c][Len(toServer[c]) + 1] = r
        /\ \A i \in 1..Len(toServer[c]) : toServer'[c][i] = toServer[c][i]
    BY <1>1, <1>2, AppendAt
  <2>3. Len(asked[c]) \in Nat /\ Len(toServer[c]) \in Nat /\ Len(told[c]) \in Nat
    BY <1>1
  <2>4. Account(c)
    BY DEF Accounts
  <2>5. told'[c] = told[c]
    BY <1>2
  <2>6. Counted(c)'
    <3>1. Len(told[c]) + Len(toServer[c]) <= Len(asked[c])
      BY <2>4 DEF Account, Counted
    <3>2. Len(told[c]) + (Len(toServer[c]) + 1) <= Len(asked[c]) + 1
      BY <2>3, <3>1, Sums, Zenon
    <3> QED
      BY <2>1, <2>2, <2>5, <3>2, Zenon DEF Counted
  <2>7. ASSUME NEW i \in 1..Len(toServer'[c])
        PROVE  \E j \in 1..Len(asked'[c]) : asked'[c][j] = toServer'[c][i]
    <3>1. CASE i = Len(toServer[c]) + 1
      BY <2>1, <2>2, <2>3, <3>1
    <3>2. CASE i \in 1..Len(toServer[c])
      <4>1. PICK j \in 1..Len(asked[c]) : asked[c][j] = toServer[c][i]
        BY <2>4, <3>2 DEF Account
      <4> QED
        BY <2>1, <2>2, <2>3, <3>2, <4>1
    <3> QED
      BY <2>2, <2>3, <3>1, <3>2
  <2>8. ASSUME NEW i \in 1..Len(told'[c])
        PROVE  \E j \in 1..Len(asked'[c]) : asked'[c][j] \in Questions /\ told'[c][i] = Code(asked'[c][j])
    <3>1. PICK j \in 1..Len(asked[c]) : asked[c][j] \in Questions /\ told[c][i] = Code(asked[c][j])
      BY <2>4, <2>5 DEF Account
    <3> QED
      BY <2>1, <2>3, <2>5, <3>1
  <2> QED
    BY <1>4, <2>6, <2>7, <2>8 DEF Account
<1> QED
  BY <1>3, <1>4

\* What slotReadClient does to the wire
LEMMA ReadClient ==
  ASSUME TypeOK, NEW c \in Conn, slotReadClient(c)
  PROVE  /\ asked' = asked
         /\ toServer' = [toServer EXCEPT ![c] = <<>>]
         /\ toServer[c] # <<>> /\ Head(toServer[c]) = toServer[c][1]
         /\ \/ told' = told
            \/ /\ toServer[c][1] \in Questions
               /\ told' = [told EXCEPT ![c] = Append(@, Code(toServer[c][1]))]
               /\ Code(toServer[c][1]) \in {200, 202, 400}
<1>1. toServer[c] \in Seq(Requests)
  BY DEF TypeOK
<1>2. toServer[c] # <<>> /\ Head(toServer[c]) = toServer[c][1]
  BY <1>1 DEF slotReadClient
<1>3. ASSUME NEW r, Answer(c, r) PROVE r \in Questions /\ told' = [told EXCEPT ![c] = Append(@, Code(r))]
  BY <1>3 DEF Answer, Send
<1>4. ASSUME NEW r, Unanswered(r) \/ Undefined(r) PROVE told' = told
  BY <1>4 DEF Unanswered, Undefined
<1>5. \A r : Code(r) \in {200, 202, 400}
  BY DEF Code
<1>6. \/ told' = told
      \/ Answer(c, Head(toServer[c])) \/ Unanswered(Head(toServer[c])) \/ Undefined(Head(toServer[c]))
  BY DEF slotReadClient
<1> QED
  BY <1>2, <1>3, <1>4, <1>5, <1>6 DEF slotReadClient

LEMMA ReadAccounts ==
  ASSUME TypeOK, Accounts, NEW c \in Conn, slotReadClient(c)
  PROVE  Accounts'
<1> SUFFICES ASSUME NEW d \in Conn PROVE Account(d)'
  BY DEF Accounts
<1>1. /\ asked \in [Conn -> Seq(Requests)] /\ toServer \in [Conn -> Seq(Requests)]
      /\ told \in [Conn -> Seq({200, 202, 400})]
  BY DEF TypeOK
<1>2. /\ asked' = asked /\ toServer' = [toServer EXCEPT ![c] = <<>>] /\ toServer[c] # <<>>
  BY ReadClient
<1>3. CASE d # c
  <2>1. asked'[d] = asked[d] /\ toServer'[d] = toServer[d]
    BY <1>1, <1>2, <1>3
  <2>2. told'[d] = told[d]
    <3>1. \/ told' = told
          \/ told' = [told EXCEPT ![c] = Append(@, Code(toServer[c][1]))]
      BY ReadClient
    <3> QED
      BY <1>1, <1>3, <3>1
  <2>3. Account(d)
    BY DEF Accounts
  <2> QED
    BY <2>1, <2>2, <2>3 DEF Account, Counted
<1>4. CASE d = c
  <2>0. Account(c)
    BY DEF Accounts
  <2>1. asked'[c] = asked[c] /\ toServer'[c] = <<>> /\ Len(toServer'[c]) = 0
    BY <1>1, <1>2
  <2>2. Len(asked[c]) \in Nat /\ Len(toServer[c]) \in Nat \ {0} /\ Len(told[c]) \in Nat
    BY <1>1, <1>2
  <2>3. CASE told' = told
    <3>1. told'[c] = told[c]
      BY <2>3
    <3>2. Counted(c)'
      <4>1. Len(told[c]) + Len(toServer[c]) <= Len(asked[c])
        BY <2>0 DEF Account, Counted
      <4>2. Len(told[c]) + 0 <= Len(asked[c])
        BY <2>2, <4>1, Sums, Zenon
      <4> QED
        BY <2>1, <3>1, <4>2, Zenon DEF Counted
    <3>3. \A i \in 1..Len(toServer'[c]) : \E j \in 1..Len(asked'[c]) : asked'[c][j] = toServer'[c][i]
      BY <2>1
    <3> QED
      BY <1>4, <2>0, <2>1, <3>1, <3>2, <3>3 DEF Account
  <2>4. CASE /\ toServer[c][1] \in Questions
             /\ told' = [told EXCEPT ![c] = Append(@, Code(toServer[c][1]))]
             /\ Code(toServer[c][1]) \in {200, 202, 400}
    <3>1. /\ Len(told'[c]) = Len(told[c]) + 1
          /\ told'[c][Len(told[c]) + 1] = Code(toServer[c][1])
          /\ \A i \in 1..Len(told[c]) : told'[c][i] = told[c][i]
      BY <1>1, <2>4, AppendAt
    <3>2. Counted(c)'
      <4>1. Len(told[c]) + Len(toServer[c]) <= Len(asked[c])
        BY <2>0 DEF Account, Counted
      <4>2. (Len(told[c]) + 1) + 0 <= Len(asked[c])
        <5>1. Len(toServer[c]) \in Nat /\ Len(toServer[c]) # 0
          BY <2>2
        <5> QED
          BY <2>2, <4>1, <5>1, Sums, Zenon
      <4> QED
        BY <2>1, <3>1, <4>2, Zenon DEF Counted
    <3>3. \A i \in 1..Len(toServer'[c]) : \E j \in 1..Len(asked'[c]) : asked'[c][j] = toServer'[c][i]
      BY <2>1
    <3>4. ASSUME NEW i \in 1..Len(told'[c])
          PROVE  \E j \in 1..Len(asked'[c]) : asked'[c][j] \in Questions /\ told'[c][i] = Code(asked'[c][j])
      <4>1. CASE i = Len(told[c]) + 1
        <5>0. 1 \in 1..Len(toServer[c])
          BY <2>2
        <5>1. PICK j \in 1..Len(asked[c]) : asked[c][j] = toServer[c][1]
          BY <2>0, <5>0 DEF Account
        <5> QED
          BY <2>1, <2>4, <3>1, <4>1, <5>1
      <4>2. CASE i \in 1..Len(told[c])
        <5>1. PICK j \in 1..Len(asked[c]) : asked[c][j] \in Questions /\ told[c][i] = Code(asked[c][j])
          BY <2>0, <4>2 DEF Account
        <5> QED
          BY <2>1, <3>1, <4>2, <5>1
      <4> QED
        BY <2>2, <3>1, <4>1, <4>2
    <3> QED
      BY <1>4, <3>2, <3>3, <3>4 DEF Account
  <2> QED
    BY <2>3, <2>4, ReadClient
<1> QED
  BY <1>3, <1>4

\* Everybody else leaves the wire alone, or puts a request of its own on it
LEMMA WireStep ==
  ASSUME TypeOK, [Next]_vars
  PROVE  \/ UNCHANGED wire
         \/ \E c \in Conn : slotReadClient(c)
         \/ \E p \in Clients : \E n \in 1..MaxRequests : \E r \in Questions :
               Ask(p, r) /\ n = questions[p] + 1 /\ Request(<<p, n>>, r)
         \/ \E o \in Others : \E r \in OtherRequests : OtherAsks(o, r) /\ Request(Socket(o), r)
<1>1. CASE slotNewConnection \/ ExitCloses \/ ShutdownCloses \/ ServerQuits \/ \E c \in Conn : HearClose(c)
  BY <1>1 DEF slotNewConnection, ExitCloses, ShutdownCloses, ServerQuits, HearClose
<1>2. \A p, waited, left : AskOrQuit(p, waited, left) => UNCHANGED wire
  BY DEF AskOrQuit, Quit
<1>3. ASSUME NEW p \in Clients,
             \/ Start(p) \/ slotTimeoutWaiting(p) \/ slotServerDisconnected(p) \/ Leave(p)
             \/ \E n \in 1..MaxRequests : OnResponse(p, n) \/ ReplyFails(p, n)
      PROVE  UNCHANGED wire
  BY <1>2, <1>3 DEF Start, slotTimeoutWaiting, slotServerDisconnected, Leave, Quit, OnResponse, ReplyFails
<1>4. ASSUME NEW p \in Clients, NEW r \in Questions, Ask(p, r)
      PROVE  questions[p] + 1 \in 1..MaxRequests /\ Request(<<p, questions[p] + 1>>, r)
  <2>1. Request(<<p, questions[p] + 1>>, r) /\ sent < MaxRequests
    BY <1>4 DEF Ask, Request
  <2>2. questions[p] \in 0..sent /\ sent \in 0..MaxRequests
    BY DEF TypeOK
  <2> QED
    BY <2>1, <2>2, Facts
<1>5. ASSUME NEW o \in Others, OtherConnects(o) \/ OtherLeaves(o) PROVE UNCHANGED wire
  BY <1>5 DEF OtherConnects, OtherLeaves
<1>6. ASSUME NEW o \in Others, NEW r, OtherAsks(o, r) PROVE Request(Socket(o), r)
  BY <1>6 DEF OtherAsks
<1>7. CASE UNCHANGED vars
  BY <1>7 DEF vars
<1> QED
  BY <1>1, <1>3, <1>4, <1>5, <1>6, <1>7 DEF Next

LEMMA AccountsStep == TypeOK /\ Accounts /\ [Next]_vars => Accounts'
<1> SUFFICES ASSUME TypeOK, Accounts, [Next]_vars PROVE Accounts'
  OBVIOUS
<1>1. CASE UNCHANGED wire
  BY <1>1 DEF wire, Accounts, Account, Counted
<1>2. ASSUME NEW c \in Conn, slotReadClient(c) PROVE Accounts'
  BY <1>2, ReadAccounts
<1>3. ASSUME NEW p \in Clients, NEW n \in 1..MaxRequests, NEW r \in Questions, Request(<<p, n>>, r)
      PROVE  Accounts'
  <2>1. <<p, n>> \in Conn /\ r \in Requests
    BY Facts
  <2> QED
    BY <1>3, <2>1, RequestAccounts
<1>4. ASSUME NEW o \in Others, NEW r \in OtherRequests, Request(Socket(o), r) PROVE Accounts'
  <2>1. Socket(o) \in Conn /\ r \in Requests
    BY Facts
  <2> QED
    BY <1>4, <2>1, RequestAccounts
<1> QED
  BY <1>1, <1>2, <1>3, <1>4, WireStep

\* An answer goes to a connection that has asked for it.
THEOREM AnswersOwnAlways == Spec => []AnswersOwn
<1>1. Init => Accounts
  BY DEF Init, Accounts, Account, Counted
<1>2. TypeOK /\ Accounts => AnswersOwn
  <2> SUFFICES ASSUME TypeOK, Accounts, NEW c \in Conn
               PROVE  /\ Len(told[c]) <= Len(asked[c])
                      /\ \A i \in 1..Len(told[c]) : \E j \in 1..Len(asked[c]) :
                            asked[c][j] \in Questions /\ told[c][i] = Code(asked[c][j])
    BY DEF AnswersOwn
  <2>1. Len(told[c]) \in Nat /\ Len(toServer[c]) \in Nat /\ Len(asked[c]) \in Nat
    BY DEF TypeOK
  <2>2. Account(c)
    BY DEF Accounts
  <2>3. Len(told[c]) <= Len(asked[c])
    <3>1. Len(told[c]) + Len(toServer[c]) <= Len(asked[c])
      BY <2>2 DEF Account, Counted
    <3> QED
      BY <2>1, <3>1, Sums, Zenon
  <2> QED
    BY <2>2, <2>3 DEF Account
<1> QED
  BY <1>1, <1>2, AccountsStep, TypeCorrect, PTL DEF Spec

-----------------------------------------------------------------------------
(* The end of the server *)

LEMMA CommandedStays == TypeOK /\ Commanded /\ [Next]_vars => Commanded'
<1> SUFFICES ASSUME TypeOK, Commanded, [Next]_vars PROVE Commanded'
  OBVIOUS
<1>1. /\ asked \in [Conn -> Seq(Requests)] /\ told \in [Conn -> Seq({200, 202, 400})]
  BY DEF TypeOK
<1>c. PICK c \in Conn : \E j \in 1..Len(asked[c]) :
          \/ asked[c][j] = "GET"
          \/ asked[c][j] = "shutdown" /\ \E i \in 1..Len(told[c]) : told[c][i] = 202
  BY DEF Commanded
<1>2. PICK j \in 1..Len(asked[c]) :
          \/ asked[c][j] = "GET"
          \/ asked[c][j] = "shutdown" /\ \E i \in 1..Len(told[c]) : told[c][i] = 202
  BY <1>c
<1>3. Len(asked[c]) \in Nat /\ Len(told[c]) \in Nat
  BY <1>1
<1>4. ASSUME j \in 1..Len(asked'[c]), asked'[c][j] = asked[c][j],
             \A i \in 1..Len(told[c]) : i \in 1..Len(told'[c]) /\ told'[c][i] = told[c][i]
      PROVE  Commanded'
  <2>1. CASE asked[c][j] = "GET"
    BY <1>4, <2>1 DEF Commanded
  <2>2. CASE asked[c][j] = "shutdown" /\ \E i \in 1..Len(told[c]) : told[c][i] = 202
    <3>1. PICK i \in 1..Len(told[c]) : told[c][i] = 202
      BY <2>2
    <3>2. i \in 1..Len(told'[c]) /\ told'[c][i] = 202
      BY <1>4, <3>1
    <3> QED
      BY <1>4, <2>2, <3>2 DEF Commanded
  <2> QED
    BY <1>2, <2>1, <2>2
<1>5. CASE UNCHANGED wire
  BY <1>4, <1>5 DEF wire
<1>6. ASSUME NEW d \in Conn, slotReadClient(d) PROVE Commanded'
  <2>1. asked' = asked
    BY <1>6, ReadClient
  <2>2. \A i \in 1..Len(told[c]) : i \in 1..Len(told'[c]) /\ told'[c][i] = told[c][i]
    <3>1. CASE told' = told
      BY <3>1
    <3>2. CASE /\ told' = [told EXCEPT ![d] = Append(@, Code(toServer[d][1]))]
               /\ Code(toServer[d][1]) \in {200, 202, 400}
      <4>1. CASE d = c
        <5>1. /\ Len(told'[c]) = Len(told[c]) + 1
              /\ \A i \in 1..Len(told[c]) : told'[c][i] = told[c][i]
          BY <1>1, <3>2, <4>1, AppendAt
        <5> QED
          BY <1>3, <5>1
      <4>2. CASE d # c
        BY <1>1, <3>2, <4>2
      <4> QED
        BY <4>1, <4>2
    <3> QED
      BY <1>6, <3>1, <3>2, ReadClient
  <2> QED
    BY <1>4, <2>1, <2>2
<1>7. ASSUME NEW d \in Conn, NEW r \in Requests, Request(d, r) PROVE Commanded'
  <2>1. told' = told /\ asked' = [asked EXCEPT ![d] = Append(@, r)]
    BY <1>7 DEF Request
  <2>2. j \in 1..Len(asked'[c]) /\ asked'[c][j] = asked[c][j]
    <3>1. CASE d = c
      <4>1. /\ Len(asked'[c]) = Len(asked[c]) + 1
            /\ \A i \in 1..Len(asked[c]) : asked'[c][i] = asked[c][i]
        BY <1>1, <2>1, <3>1, AppendAt
      <4> QED
        BY <1>3, <4>1
    <3>2. CASE d # c
      BY <1>1, <2>1, <3>2
    <3> QED
      BY <3>1, <3>2
  <2> QED
    BY <1>4, <2>1, <2>2
<1>8. ASSUME NEW p \in Clients, NEW n \in 1..MaxRequests, NEW r \in Questions, Request(<<p, n>>, r)
      PROVE  Commanded'
  <2>1. <<p, n>> \in Conn /\ r \in Requests
    BY Facts
  <2> QED
    BY <1>7, <1>8, <2>1
<1>9. ASSUME NEW o \in Others, NEW r \in OtherRequests, Request(Socket(o), r) PROVE Commanded'
  <2>1. Socket(o) \in Conn /\ r \in Requests
    BY Facts
  <2> QED
    BY <1>7, <1>9, <2>1
<1> QED
  BY <1>5, <1>6, <1>8, <1>9, WireStep

LEMMA CommandsStep == TypeOK /\ Accounts /\ Commands /\ [Next]_vars => Commands'
<1> SUFFICES ASSUME TypeOK, Accounts, ~Commanded, Commands, [Next]_vars PROVE Commands'
  BY CommandedStays DEF Commands
<1>1. running /\ stops = 0 /\ quits = 0
  BY DEF Commands
<1>2. ASSUME UNCHANGED <<running, stops, quits>> PROVE Commands'
  BY <1>1, <1>2 DEF Commands
<1>3. CASE UNCHANGED server
  BY <1>2, <1>3 DEF server
<1>4. CASE slotNewConnection \/ ExitCloses
  BY <1>2, <1>4 DEF slotNewConnection, ExitCloses
<1>5. ~ShutdownCloses /\ ~ServerQuits
  BY <1>1 DEF ShutdownCloses, ServerQuits
<1>6. ASSUME NEW c \in Conn, slotReadClient(c) PROVE Commands'
  <2>0. /\ toServer[c] # <<>> /\ Head(toServer[c]) = toServer[c][1] /\ asked' = asked
        /\ asked \in [Conn -> Seq(Requests)] /\ toServer \in [Conn -> Seq(Requests)]
        /\ told \in [Conn -> Seq({200, 202, 400})]
    BY <1>6, ReadClient DEF TypeOK
  <2>1. PICK j \in 1..Len(asked[c]) : asked[c][j] = Head(toServer[c])
    <3>1. 1 \in 1..Len(toServer[c])
      BY <2>0
    <3> QED
      BY <2>0, <3>1 DEF Accounts, Account
  <2>2. CASE UNCHANGED <<running, stops, quits>>
    BY <1>2, <2>2
  <2>3. CASE Undefined(Head(toServer[c]))
    BY <2>1, <2>3 DEF Undefined, Commanded
  <2>4. CASE Answer(c, Head(toServer[c]))
    <3>1. CASE Head(toServer[c]) # "shutdown"
      BY <1>2, <2>4, <3>1 DEF Answer, Exits
    <3>2. CASE Head(toServer[c]) = "shutdown"
      <4>1. told' = [told EXCEPT ![c] = Append(@, 202)]
        BY <2>4, <3>2 DEF Answer, Send, Code
      <4>2. Len(told'[c]) = Len(told[c]) + 1 /\ told'[c][Len(told[c]) + 1] = 202
        BY <2>0, <4>1, AppendAt
      <4>3. Len(told[c]) + 1 \in 1..Len(told'[c])
        BY <2>0, <4>2
      <4>4. Commanded'
        BY <2>0, <2>1, <3>2, <4>2, <4>3 DEF Commanded
      <4> QED
        BY <4>4 DEF Commands
    <3> QED
      BY <3>1, <3>2
  <2> QED
    BY <1>6, <2>2, <2>3, <2>4 DEF slotReadClient, Unanswered
<1>7. ASSUME NEW c \in Conn, HearClose(c) PROVE Commands'
  BY <1>2, <1>7 DEF HearClose
<1>8. ASSUME NEW c, Connect(c) PROVE Commands'
  BY <1>2, <1>8 DEF Connect
<1>9. ASSUME NEW p \in Clients,
             \/ slotTimeoutWaiting(p) \/ slotServerDisconnected(p) \/ Leave(p)
             \/ \E n \in 1..MaxRequests : OnResponse(p, n) \/ ReplyFails(p, n)
      PROVE  UNCHANGED server
  <2>1. \A waited, left : AskOrQuit(p, waited, left) => UNCHANGED server
    BY DEF AskOrQuit, Quit
  <2> QED
    BY <1>9, <2>1 DEF slotTimeoutWaiting, slotServerDisconnected, Leave, Quit, OnResponse, ReplyFails
<1>10. ASSUME NEW p \in Clients, Start(p) \/ \E r \in Questions : Ask(p, r) PROVE Commands'
  BY <1>8, <1>10 DEF Start, Ask
<1>11. ASSUME NEW o \in Others, OtherConnects(o) PROVE Commands'
  BY <1>8, <1>11 DEF OtherConnects
<1>12. ASSUME NEW o \in Others, OtherLeaves(o) \/ \E r \in OtherRequests : OtherAsks(o, r)
       PROVE  UNCHANGED server
  BY <1>12 DEF OtherLeaves, OtherAsks
<1>13. CASE UNCHANGED vars
  BY <1>3, <1>13 DEF vars
<1> QED
  BY <1>3, <1>4, <1>5, <1>6, <1>7, <1>9, <1>10, <1>11, <1>12, <1>13 DEF Next

\* The server ends only after a command that it has answered, or a fragment.
THEOREM EndsOnCommandAlways == Spec => []EndsOnCommand
<1>1. Init => Accounts /\ Commands
  BY DEF Init, Accounts, Account, Counted, Commands
<1>2. Commands => EndsOnCommand
  BY DEF Commands, Commanded, EndsOnCommand
<1> QED
  BY <1>1, <1>2, AccountsStep, CommandsStep, TypeCorrect, PTL DEF Spec

-----------------------------------------------------------------------------
(* The connections *)

LEMMA Sockets ==
    /\ \A p, q : \A n \in 1..MaxRequests : Socket(p) # <<q, n>>
    /\ \A p, q : Socket(p) = Socket(q) => p = q
    /\ \A p, q, n, m : <<p, n>> = <<q, m>> => p = q /\ n = m
<1>1. \A n \in 1..MaxRequests : n # 0
  BY BoundAssumption
<1> QED
  BY <1>1 DEF Socket

\* What a step leaves in place when only the server moves
LEMMA ServerMoves ==
  ASSUME TypeOK, Joined, UNCHANGED <<phase, questions, client_end>>,
         \A c \in Conn : server_end[c] = "none" => server_end'[c] = "none",
         Queue',
         \A c \in Conn : server_end'[c] = "queued" =>
              server_end[c] = "queued" /\ toServer'[c] = toServer[c],
         \A c \in Conn : toServer'[c] = toServer[c] \/ toServer'[c] = <<>>
  PROVE  Joined'
<1>1. Connections'
  BY DEF Joined, Connections
<1>2. Carried'
  <2>1. SUFFICES ASSUME NEW p \in Clients, NEW n \in 1..MaxRequests
                 PROVE  /\ server_end'[<<p, n>>] = "queued" => toServer'[<<p, n>>] # <<>>
                        /\ \A i \in 1..Len(toServer'[<<p, n>>]) : toServer'[<<p, n>>][i] \in Questions
    BY DEF Carried
  <2>2. <<p, n>> \in Conn
    BY Facts
  <2>3. Len(<<>>) = 0
    OBVIOUS
  <2> QED
    BY <2>2, <2>3 DEF Joined, Carried
<1> QED
  BY <1>1, <1>2 DEF Joined

\* What a step leaves in place when only programs move
LEMMA ProgramsMove ==
  ASSUME TypeOK, Joined, UNCHANGED <<server, questions>>,
         \A c \in Conn : client_end'[c] = "none" => client_end[c] = "none",
         \A c \in Conn : client_end[c] = "none" => client_end'[c] = "none",
         \A p \in Clients : phase'[p] = "off" => phase[p] = "off",
         \A p \in Clients : \A n \in 1..MaxRequests : toServer'[<<p, n>>] = toServer[<<p, n>>]
  PROVE  Joined'
<1>1. UNCHANGED <<backlog, client_socket, server_end>>
  BY DEF server
<1>2. \A p \in Clients : Socket(p) \in Conn
  BY Facts
<1>3. \A p \in Clients : \A n \in 1..MaxRequests : <<p, n>> \in Conn
  BY Facts
<1>4. Connections'
  BY <1>1, <1>2, <1>3 DEF Joined, Connections
<1>5. Queue'
  BY <1>1 DEF Joined, Queue
<1>6. Carried'
  BY <1>1 DEF Joined, Carried
<1> QED
  BY <1>4, <1>5, <1>6 DEF Joined

\* The backlog after a connection has been requested
LEMMA ConnectQueues ==
  ASSUME TypeOK, Joined, NEW c \in Conn, client_end[c] = "none", Connect(c)
  PROVE  /\ Queue'
         /\ client_end' = [client_end EXCEPT ![c] = "open"]
         /\ server_end' = [server_end EXCEPT ![c] = IF running THEN "queued" ELSE "closed"]
         /\ server_end[c] = "none"
<1>1. /\ server_end \in [Conn -> {"none", "queued", "open", "closed"}] /\ backlog \in Seq(Conn)
      /\ client_socket \in Conn \cup {None}
  BY DEF TypeOK
<1>2. server_end[c] = "none"
  BY DEF Joined, Connections
<1>3. client_socket # c /\ \A i \in 1..Len(backlog) : backlog[i] # c
  BY <1>2, Facts DEF Joined, Queue
<1>4. client_socket' = client_socket
  BY DEF Connect
<1>5. \A d \in Conn : d # c => server_end'[d] = server_end[d]
  BY <1>1 DEF Connect
<1>6. client_socket' # None => server_end'[client_socket'] \in {"open", "closed"}
  BY <1>1, <1>3, <1>4, <1>5 DEF Joined, Queue
<1>7. \A i \in 1..Len(backlog) : backlog[i] \in Conn /\ server_end'[backlog[i]] = "queued"
  BY <1>1, <1>3, <1>5 DEF Joined, Queue
<1>8. CASE running
  <2>1. backlog' = Append(backlog, c) /\ server_end'[c] = "queued"
    BY <1>1, <1>8 DEF Connect
  <2>2. /\ Len(backlog') = Len(backlog) + 1 /\ backlog'[Len(backlog) + 1] = c
        /\ \A i \in 1..Len(backlog) : backlog'[i] = backlog[i]
        /\ Len(backlog) \in Nat
    BY <1>1, <2>1
  <2>3. ASSUME NEW i \in 1..Len(backlog') PROVE i = Len(backlog) + 1 \/ i \in 1..Len(backlog)
    BY <2>2
  <2>4. \A i \in 1..Len(backlog') : server_end'[backlog'[i]] = "queued"
    BY <1>7, <2>1, <2>2, <2>3
  <2>5. ASSUME NEW i \in 1..Len(backlog'), NEW j \in 1..Len(backlog'), backlog'[i] = backlog'[j]
        PROVE  i = j
    BY <1>3, <2>2, <2>3, <2>5 DEF Joined, Queue
  <2> QED
    BY <1>2, <1>6, <2>4, <2>5 DEF Queue, Connect
<1>9. CASE ~running
  <2>1. backlog' = backlog
    BY <1>9 DEF Connect
  <2> QED
    BY <1>2, <1>6, <1>7, <2>1 DEF Joined, Queue, Connect
<1> QED
  BY <1>8, <1>9

LEMMA ConnectionsStep == TypeOK /\ Joined /\ [Next]_vars => Joined'
<1> SUFFICES ASSUME TypeOK, Joined, [Next]_vars PROVE Joined'
  OBVIOUS
<1>0. /\ server_end \in [Conn -> {"none", "queued", "open", "closed"}] /\ backlog \in Seq(Conn)
      /\ client_socket \in Conn \cup {None}
      /\ client_end \in [Conn -> {"none", "open", "closed"}]
      /\ toServer \in [Conn -> Seq(Requests)]
      /\ phase \in [Clients -> Phases]
  BY DEF TypeOK
<1>w. UNCHANGED wire => UNCHANGED toServer
  BY DEF wire
<1>q. /\ \A i \in 1..Len(backlog) : server_end[backlog[i]] = "queued"
      /\ \A i, j \in 1..Len(backlog) : backlog[i] = backlog[j] => i = j
      /\ client_socket # None => server_end[client_socket] \in {"open", "closed"}
  BY DEF Joined, Queue
\* Connections of the server that are closed
<1>c. ASSUME UNCHANGED <<backlog, client_socket, toServer, phase, questions, client_end>>,
             NEW f \in [Conn -> {"none", "queued", "open", "closed"}],
             \A d \in Conn : f[d] = server_end[d] \/ (server_end[d] \in {"open", "closed"} /\ f[d] = "closed"),
             server_end' = Closed(f)
      PROVE  Joined'
  <2>1. ASSUME NEW d \in Conn
        PROVE  \/ server_end'[d] = server_end[d]
               \/ server_end[d] \in {"open", "closed"} /\ server_end'[d] = "closed"
    BY <1>0, <1>c, <1>q, <2>1, Facts DEF Closed
  <2>2. \A i \in 1..Len(backlog) : backlog[i] \in Conn
    BY <1>0
  <2>3. Queue'
    <3>1. \A i \in 1..Len(backlog') : server_end'[backlog'[i]] = "queued"
      BY <1>c, <1>q, <2>1, <2>2
    <3>2. client_socket' # None => server_end'[client_socket'] \in {"open", "closed"}
      BY <1>0, <1>c, <1>q, <2>1
    <3>3. \A i, j \in 1..Len(backlog') : backlog'[i] = backlog'[j] => i = j
      BY <1>c, <1>q
    <3> QED
      BY <3>1, <3>2, <3>3 DEF Queue
  <2>4. \A d \in Conn : server_end[d] = "none" => server_end'[d] = "none"
    BY <2>1
  <2>5. \A d \in Conn : server_end'[d] = "queued" => server_end[d] = "queued" /\ toServer'[d] = toServer[d]
    BY <1>c, <2>1
  <2>6. UNCHANGED <<phase, questions, client_end, toServer>>
    BY <1>c
  <2> QED
    BY <2>3, <2>4, <2>5, <2>6, ServerMoves
\* The event loop of the server is left
<1>e. ASSUME End, UNCHANGED <<client_socket, phase, questions, client_end>>,
             \A d \in Conn : toServer'[d] = toServer[d] \/ toServer'[d] = <<>>
      PROVE  Joined'
  <2>1. ASSUME NEW d \in Conn
        PROVE  IF server_end[d] = "none" THEN server_end'[d] = "none" ELSE server_end'[d] = "closed"
    BY <1>e DEF End
  <2>2. Len(backlog') = 0
    BY <1>e DEF End
  <2>3. Queue'
    BY <1>0, <1>e, <1>q, <2>1, <2>2 DEF Queue
  <2>4. \A d \in Conn : server_end[d] = "none" => server_end'[d] = "none"
    BY <2>1
  <2>5. \A d \in Conn : server_end'[d] # "queued"
    BY <2>1
  <2>6. UNCHANGED <<phase, questions, client_end>>
    BY <1>e
  <2> QED
    BY <1>e, <2>3, <2>4, <2>5, <2>6, ServerMoves
<1>1. CASE slotNewConnection
  <2>1. /\ backlog # <<>> /\ client_socket' = Head(backlog) /\ backlog' = Tail(backlog)
        /\ server_end' = [server_end EXCEPT ![Head(backlog)] = "open"]
        /\ UNCHANGED <<wire, phase, questions, client_end>>
    BY <1>1 DEF slotNewConnection, client
  <2>2. /\ Head(backlog) = backlog[1] /\ Head(backlog) \in Conn
        /\ Len(backlog) \in Nat /\ 1 \in 1..Len(backlog)
        /\ Len(backlog') = Len(backlog) - 1
        /\ \A i \in 1..Len(backlog') : i + 1 \in 1..Len(backlog) /\ backlog'[i] = backlog[i + 1]
        /\ \A i \in 1..Len(backlog) : backlog[i] \in Conn
    BY <1>0, <2>1
  <2>3. server_end[Head(backlog)] = "queued"
    BY <1>q, <2>2
  <2>4. server_end'[Head(backlog)] = "open" /\ \A d \in Conn : d # Head(backlog) => server_end'[d] = server_end[d]
    BY <1>0, <2>1, <2>2
  <2>5. ASSUME NEW i \in 1..Len(backlog')
        PROVE  i + 1 \in 1..Len(backlog) /\ backlog'[i] = backlog[i + 1] /\ backlog[i + 1] # Head(backlog)
    <3>1. i + 1 \in 1..Len(backlog) /\ i + 1 # 1
      BY <2>2
    <3> QED
      BY <1>q, <2>2, <3>1
  <2>6. \A i \in 1..Len(backlog') : server_end'[backlog'[i]] = "queued"
    BY <1>q, <2>2, <2>4, <2>5
  <2>7. ASSUME NEW i \in 1..Len(backlog'), NEW j \in 1..Len(backlog'), backlog'[i] = backlog'[j]
        PROVE  i = j
    <3>1. i + 1 = j + 1
      BY <1>q, <2>5, <2>7
    <3> QED
      BY <2>2, <3>1
  <2>8. Queue'
    BY <2>1, <2>4, <2>6, <2>7 DEF Queue
  <2>9. UNCHANGED <<phase, questions, client_end, toServer>>
    BY <1>w, <2>1
  <2>10. \A d \in Conn : server_end[d] = "none" => server_end'[d] = "none"
    BY <2>3, <2>4
  <2>11. \A d \in Conn : server_end'[d] = "queued" => server_end[d] = "queued" /\ toServer'[d] = toServer[d]
    BY <2>4, <2>9
  <2> QED
    BY <2>8, <2>9, <2>10, <2>11, ServerMoves
<1>2. CASE ExitCloses \/ ShutdownCloses
  <2>1. UNCHANGED <<backlog, client_socket, toServer, phase, questions, client_end>>
    BY <1>2 DEF ExitCloses, ShutdownCloses, wire, client
  <2> DEFINE f == server_end
  <2>2. server_end' = Closed(f)
    BY <1>2 DEF ExitCloses, ShutdownCloses
  <2>3. f \in [Conn -> {"none", "queued", "open", "closed"}]
    BY <1>0
  <2>4. \A d \in Conn : f[d] = server_end[d] \/ (server_end[d] \in {"open", "closed"} /\ f[d] = "closed")
    OBVIOUS
  <2> HIDE DEF f
  <2> QED
    BY <1>c, <2>1, <2>2, <2>3, <2>4
<1>3. CASE ServerQuits
  BY <1>3, <1>e, <1>w DEF ServerQuits, client
<1>4. ASSUME NEW c \in Conn, slotReadClient(c) PROVE Joined'
  <2>1. /\ UNCHANGED <<client_socket, phase, questions, client_end>>
        /\ toServer' = [toServer EXCEPT ![c] = <<>>] /\ server_end[c] = "open"
    BY <1>4 DEF slotReadClient, client
  <2>2. \A d \in Conn : toServer'[d] = IF d = c THEN <<>> ELSE toServer[d]
    BY <1>0, <2>1
  <2>3. CASE End
    BY <1>e, <2>1, <2>2, <2>3
  <2>4. CASE UNCHANGED <<server_end, backlog>>
    <3>1. Queue'
      BY <1>q, <2>1, <2>4 DEF Queue
    <3>2. \A d \in Conn : server_end[d] = "none" => server_end'[d] = "none"
      BY <2>4
    <3>3. \A d \in Conn : server_end'[d] = "queued" => server_end[d] = "queued" /\ toServer'[d] = toServer[d]
      BY <2>1, <2>2, <2>4
    <3>4. UNCHANGED <<phase, questions, client_end>>
      BY <2>1
    <3>5. \A d \in Conn : toServer'[d] = toServer[d] \/ toServer'[d] = <<>>
      BY <2>2
    <3> QED
      BY <3>1, <3>2, <3>3, <3>4, <3>5, ServerMoves
  <2> QED
    BY <1>4, <2>3, <2>4 DEF slotReadClient, Answer, Unanswered, Undefined
<1>5. ASSUME NEW c \in Conn, HearClose(c) PROVE Joined'
  <2>1. UNCHANGED <<backlog, client_socket, toServer, phase, questions, client_end>>
    BY <1>5 DEF HearClose, wire, client
  <2> DEFINE f == [server_end EXCEPT ![c] = "closed"]
  <2>2. server_end' = Closed(f)
    BY <1>5 DEF HearClose
  <2>o. server_end[c] = "open"
    BY <1>5 DEF HearClose
  <2>3. f \in [Conn -> {"none", "queued", "open", "closed"}]
    BY <1>0
  <2>4. \A d \in Conn : f[d] = server_end[d] \/ (server_end[d] \in {"open", "closed"} /\ f[d] = "closed")
    <3> SUFFICES ASSUME NEW d \in Conn
                 PROVE  f[d] = server_end[d] \/ (server_end[d] \in {"open", "closed"} /\ f[d] = "closed")
      OBVIOUS
    <3>1. CASE d = c
      BY <1>0, <2>o, <3>1
    <3>2. CASE d # c
      BY <1>0, <3>2
    <3> QED
      BY <3>1, <3>2
  <2> HIDE DEF f
  <2> QED
    BY <1>c, <2>1, <2>2, <2>3, <2>4
<1>6. ASSUME NEW p \in Clients, Start(p) PROVE Joined'
  <2>1. /\ phase[p] = "off" /\ Connect(Socket(p)) /\ UNCHANGED <<wire, questions>>
        /\ phase' = [phase EXCEPT ![p] = IF running THEN "asking" ELSE "stranded"]
    BY <1>6 DEF Start
  <2>2. Socket(p) \in Conn /\ client_end[Socket(p)] = "none"
    BY <2>1, Facts DEF Joined, Connections
  <2>3. /\ Queue'
        /\ client_end' = [client_end EXCEPT ![Socket(p)] = "open"]
        /\ server_end' = [server_end EXCEPT ![Socket(p)] = IF running THEN "queued" ELSE "closed"]
    BY <2>1, <2>2, ConnectQueues
  <2>4. \A d \in Conn : d # Socket(p) => client_end'[d] = client_end[d] /\ server_end'[d] = server_end[d]
    BY <1>0, <2>3
  <2>5. client_end'[Socket(p)] = "open" /\ phase'[p] # "off"
    BY <1>0, <2>1, <2>2, <2>3
  <2>6. \A q \in Clients : q # p => phase'[q] = phase[q] /\ Socket(q) # Socket(p)
    BY <1>0, <2>1, Sockets
  <2>7. \A q \in Clients : \A n \in 1..MaxRequests : <<q, n>> \in Conn /\ <<q, n>> # Socket(p)
    BY Facts, Sockets
  <2>8. \A q \in Clients : Socket(q) \in Conn
    BY Facts
  <2>9. Connections'
    BY <2>1, <2>4, <2>5, <2>6, <2>7, <2>8 DEF Joined, Connections
  <2>10. Carried'
    BY <1>w, <2>1, <2>4, <2>7 DEF Joined, Carried
  <2> QED
    BY <2>3, <2>9, <2>10 DEF Joined
<1>7. ASSUME NEW p \in Clients, NEW r \in Questions, Ask(p, r) PROVE Joined'
  <2> DEFINE k == questions[p] + 1
             c == <<p, k>>
  <2>1. /\ Request(c, r) /\ Connect(c) /\ phase[p] = "asking"
        /\ questions' = [questions EXCEPT ![p] = k]
        /\ phase' = [phase EXCEPT ![p] = "waiting"]
        /\ sent < MaxRequests
    BY <1>7 DEF Ask, Request
  <2>2. questions \in [Clients -> 0..sent] /\ sent \in 0..MaxRequests
    BY DEF TypeOK
  <2>3. k \in 1..MaxRequests /\ k > questions[p]
    BY <2>1, <2>2, Facts
  <2>4. questions'[p] = k /\ \A q \in Clients : q # p => questions'[q] = questions[q]
    BY <2>1, <2>2
  <2>5. \A n \in 1..MaxRequests : n > k => n > questions[p] /\ n # k
    BY <2>2, <2>3
  <2> HIDE DEF k
  <2>6. c \in Conn /\ client_end[c] = "none"
    BY <2>3, Facts DEF Joined, Connections
  <2> HIDE DEF c
  <2>7. /\ Queue'
        /\ client_end' = [client_end EXCEPT ![c] = "open"]
        /\ server_end' = [server_end EXCEPT ![c] = IF running THEN "queued" ELSE "closed"]
    BY <2>1, <2>6, ConnectQueues
  <2>8. \A d \in Conn : d # c => client_end'[d] = client_end[d] /\ server_end'[d] = server_end[d]
    BY <1>0, <2>7
  <2>9. client_end'[c] = "open"
    BY <1>0, <2>6, <2>7
  <2>10. \A q \in Clients : Socket(q) # c /\ Socket(q) \in Conn
    BY <2>3, Sockets, Facts DEF c
  <2>11. \A q \in Clients : phase'[q] = "off" => phase[q] = "off"
    BY <1>0, <2>1
  <2>12. \A q \in Clients : \A n \in 1..MaxRequests :
            <<q, n>> \in Conn /\ (<<q, n>> = c => q = p /\ n = k)
    BY Facts, Sockets DEF c
  <2>13. Connections'
    <3>1. \A d \in Conn : client_end'[d] = "none" => server_end'[d] = "none"
      BY <2>8, <2>9 DEF Joined, Connections
    <3>2. \A q \in Clients : phase'[q] = "off" => client_end'[Socket(q)] = "none"
      BY <2>8, <2>10, <2>11 DEF Joined, Connections
    <3>3. ASSUME NEW q \in Clients, NEW n \in 1..MaxRequests, n > questions'[q]
          PROVE  client_end'[<<q, n>>] = "none"
      <4>1. CASE q = p
        BY <2>4, <2>5, <2>8, <2>12, <3>3, <4>1 DEF Joined, Connections
      <4>2. CASE q # p
        BY <2>4, <2>8, <2>12, <3>3, <4>2 DEF Joined, Connections
      <4> QED
        BY <4>1, <4>2
    <3> QED
      BY <3>1, <3>2, <3>3 DEF Connections
  <2>14. /\ toServer' = [toServer EXCEPT ![c] = Append(@, r)] /\ r \in Requests
    BY <2>1, Facts DEF Request
  <2>15. /\ \A d \in Conn : d # c => toServer'[d] = toServer[d]
         /\ toServer'[c] # <<>>
         /\ \A i \in 1..Len(toServer'[c]) : toServer'[c][i] = r \/
               (i \in 1..Len(toServer[c]) /\ toServer'[c][i] = toServer[c][i])
    <3>1. /\ Len(toServer'[c]) = Len(toServer[c]) + 1
          /\ toServer'[c][Len(toServer[c]) + 1] = r
          /\ \A i \in 1..Len(toServer[c]) : toServer'[c][i] = toServer[c][i]
          /\ \A d \in Conn : d # c => toServer'[d] = toServer[d]
      BY <1>0, <2>6, <2>14, AppendAt
    <3>2. Len(toServer[c]) \in Nat
      BY <1>0, <2>6
    <3>3. Len(<<>>) = 0
      OBVIOUS
    <3>4. \A i \in 1..Len(toServer'[c]) : i = Len(toServer[c]) + 1 \/ i \in 1..Len(toServer[c])
      BY <3>1, <3>2
    <3>5. toServer'[c] # <<>>
      BY <3>1, <3>2, <3>3
    <3> QED
      BY <3>1, <3>4, <3>5
  <2>16. Carried'
    <3> SUFFICES ASSUME NEW q \in Clients, NEW n \in 1..MaxRequests
                 PROVE  /\ server_end'[<<q, n>>] = "queued" => toServer'[<<q, n>>] # <<>>
                        /\ \A i \in 1..Len(toServer'[<<q, n>>]) : toServer'[<<q, n>>][i] \in Questions
      BY DEF Carried
    <3>1. CASE <<q, n>> = c
      BY <2>15, <3>1 DEF Joined, Carried
    <3>2. CASE <<q, n>> # c
      BY <2>8, <2>12, <2>15, <3>2 DEF Joined, Carried
    <3> QED
      BY <3>1, <3>2
  <2> QED
    BY <2>7, <2>13, <2>16 DEF Joined
<1>8. ASSUME NEW p \in Clients,
             \/ slotTimeoutWaiting(p) \/ slotServerDisconnected(p) \/ Leave(p)
             \/ \E n \in 1..MaxRequests : OnResponse(p, n) \/ ReplyFails(p, n)
      PROVE  Joined'
  <2> DEFINE Moved == /\ UNCHANGED <<server, wire, questions>>
                      /\ \A c \in Conn : client_end'[c] = "none" <=> client_end[c] = "none"
                      /\ \A q \in Clients : phase'[q] = "off" => phase[q] = "off"
  <2>1. ASSUME Quit(p) PROVE Moved
    <3>1. \A c \in Conn : client_end'[c] = "none" <=> client_end[c] = "none"
      BY <2>1 DEF Quit, Hangup
    <3>2. \A q \in Clients : phase'[q] = "off" => phase[q] = "off"
      BY <1>0, <2>1 DEF Quit
    <3> QED
      BY <2>1, <3>1, <3>2 DEF Quit
  <2>2. ASSUME NEW waited, NEW left, AskOrQuit(p, waited, left) PROVE Moved
    <3>1. CASE Quit(p)
      BY <2>1, <3>1
    <3>2. CASE phase' = [phase EXCEPT ![p] = "asking"] /\ UNCHANGED <<server, wire, questions, client_end>>
      <4>1. \A q \in Clients : phase'[q] = "off" => phase[q] = "off"
        BY <1>0, <3>2
      <4> QED
        BY <3>2, <4>1
    <3> QED
      BY <2>2, <3>1, <3>2 DEF AskOrQuit
  <2>3. ASSUME slotServerDisconnected(p) PROVE Moved
    <3>1. Socket(p) \in Conn
      BY Facts
    <3>2. \A c \in Conn : client_end'[c] = "none" <=> client_end[c] = "none"
      BY <1>0, <2>3, <3>1 DEF slotServerDisconnected
    <3> QED
      BY <2>3, <3>2 DEF slotServerDisconnected, client
  <2>4. ASSUME NEW n, ReplyFails(p, n) PROVE Moved
    BY <2>4 DEF ReplyFails
  <2> HIDE DEF Moved
  <2>5. Moved
    BY <1>8, <2>1, <2>2, <2>3, <2>4 DEF slotTimeoutWaiting, Leave, OnResponse
  <2>6. /\ UNCHANGED <<server, questions, toServer>>
        /\ \A c \in Conn : client_end'[c] = "none" <=> client_end[c] = "none"
        /\ \A q \in Clients : phase'[q] = "off" => phase[q] = "off"
    BY <1>w, <2>5 DEF Moved
  <2> QED
    BY <2>6, ProgramsMove
<1>9. ASSUME NEW o \in Others, OtherConnects(o) PROVE Joined'
  <2>1. /\ client_end[Socket(o)] = "none" /\ Connect(Socket(o))
        /\ UNCHANGED <<wire, phase, questions>>
    BY <1>9 DEF OtherConnects, client
  <2>2. Socket(o) \in Conn
    BY Facts
  <2>3. /\ Queue'
        /\ client_end' = [client_end EXCEPT ![Socket(o)] = "open"]
        /\ server_end' = [server_end EXCEPT ![Socket(o)] = IF running THEN "queued" ELSE "closed"]
    BY <2>1, <2>2, ConnectQueues
  <2>4. \A d \in Conn : d # Socket(o) => client_end'[d] = client_end[d] /\ server_end'[d] = server_end[d]
    BY <1>0, <2>3
  <2>5. client_end'[Socket(o)] = "open"
    BY <1>0, <2>2, <2>3
  <2>6. \A q \in Clients : Socket(q) # Socket(o) /\ Socket(q) \in Conn
    BY Sockets, Facts, ProgramsAssumption
  <2>7. \A q \in Clients : \A n \in 1..MaxRequests : <<q, n>> \in Conn /\ <<q, n>> # Socket(o)
    BY Facts, Sockets
  <2>8. Connections'
    BY <2>1, <2>4, <2>5, <2>6, <2>7 DEF Joined, Connections
  <2>9. Carried'
    BY <1>w, <2>1, <2>4, <2>7 DEF Joined, Carried
  <2> QED
    BY <2>3, <2>8, <2>9 DEF Joined
<1>10. ASSUME NEW o \in Others, NEW r \in OtherRequests, OtherAsks(o, r) PROVE Joined'
  <2>1. /\ UNCHANGED <<server, questions, phase, client_end>>
        /\ toServer' = [toServer EXCEPT ![Socket(o)] = Append(@, r)]
    BY <1>10 DEF OtherAsks, Request, client
  <2>2. \A q \in Clients : \A n \in 1..MaxRequests : <<q, n>> \in Conn /\ <<q, n>> # Socket(o)
    BY Facts, Sockets
  <2>3. \A q \in Clients : \A n \in 1..MaxRequests : toServer'[<<q, n>>] = toServer[<<q, n>>]
    BY <1>0, <2>1, <2>2
  <2> QED
    BY <2>1, <2>3, ProgramsMove
<1>11. ASSUME NEW o \in Others, OtherLeaves(o) PROVE Joined'
  <2>1. UNCHANGED <<server, wire, questions, phase>>
    BY <1>11 DEF OtherLeaves, client
  <2>2. \A c \in Conn : client_end'[c] = "none" <=> client_end[c] = "none"
    BY <1>11 DEF OtherLeaves, Hangup
  <2> QED
    BY <1>w, <2>1, <2>2, ProgramsMove
<1>12. CASE UNCHANGED vars
  BY <1>12, <1>w, ProgramsMove DEF vars, client
<1> QED
  BY <1>1, <1>2, <1>3, <1>4, <1>5, <1>6, <1>7, <1>8, <1>9, <1>10, <1>11, <1>12 DEF Next

LEMMA JoinedInit == Init => Joined
<1> SUFFICES ASSUME Init PROVE Joined
  OBVIOUS
<1>1. Connections
  BY Facts DEF Init, Connections
<1>2. Queue
  BY DEF Init, Queue
<1>3. Carried
  <2>1. \A p \in Clients : \A n \in 1..MaxRequests :
            server_end[<<p, n>>] = "none" /\ toServer[<<p, n>>] = <<>>
    BY Facts DEF Init
  <2>2. Len(<<>>) = 0
    OBVIOUS
  <2>3. 1..0 = {}
    OBVIOUS
  <2> QED
    BY <2>1, <2>2, <2>3 DEF Carried
<1> QED
  BY <1>1, <1>2, <1>3 DEF Joined

\* The backlog, the ends of the connections and the questions fit.
THEOREM JoinedAlways == Spec => []Joined
<1> QED
  BY JoinedInit, ConnectionsStep, TypeCorrect, PTL DEF Spec

-----------------------------------------------------------------------------
(* Those that a newer connection has overtaken *)

\* UnansweredOvertaken for what is not asked yet too
Overtaken == \A p \in Clients : \A n \in 1..MaxRequests :
    toServer[<<p, n>>] = <<>> /\ told[<<p, n>>] = <<>> => client_socket # <<p, n>>

LEMMA SocketStep == [Next]_vars => slotNewConnection \/ client_socket' = client_socket
<1> SUFFICES ASSUME [Next]_vars PROVE slotNewConnection \/ client_socket' = client_socket
  OBVIOUS
<1>1. UNCHANGED server => client_socket' = client_socket
  BY DEF server
<1>2. \A c : Connect(c) => client_socket' = client_socket
  BY DEF Connect
<1>3. \A p, waited, left : AskOrQuit(p, waited, left) => UNCHANGED server
  BY DEF AskOrQuit, Quit
<1>4. ASSUME ExitCloses \/ ShutdownCloses \/ ServerQuits \/ \E c \in Conn : slotReadClient(c) \/ HearClose(c)
      PROVE  client_socket' = client_socket
  BY <1>4 DEF ExitCloses, ShutdownCloses, ServerQuits, slotReadClient, HearClose
<1>5. ASSUME NEW p \in Clients,
             \/ Start(p) \/ slotTimeoutWaiting(p) \/ slotServerDisconnected(p) \/ Leave(p)
             \/ \E r \in Questions : Ask(p, r)
             \/ \E n \in 1..MaxRequests : OnResponse(p, n) \/ ReplyFails(p, n)
      PROVE  client_socket' = client_socket
  BY <1>1, <1>2, <1>3, <1>5
     DEF Start, slotTimeoutWaiting, slotServerDisconnected, Leave, Quit, Ask, OnResponse, ReplyFails
<1>6. ASSUME NEW o \in Others, \/ OtherConnects(o) \/ OtherLeaves(o)
                               \/ \E r \in OtherRequests : OtherAsks(o, r)
      PROVE  client_socket' = client_socket
  BY <1>1, <1>2, <1>6 DEF OtherConnects, OtherLeaves, OtherAsks
<1>7. CASE UNCHANGED vars
  BY <1>1, <1>7 DEF vars
<1> QED
  BY <1>4, <1>5, <1>6, <1>7 DEF Next

LEMMA OvertakenStep == TypeOK /\ Joined /\ Overtaken /\ [Next]_vars => Overtaken'
<1> SUFFICES ASSUME TypeOK, Joined, Overtaken, [Next]_vars,
                    NEW p \in Clients, NEW n \in 1..MaxRequests,
                    toServer'[<<p, n>>] = <<>>, told'[<<p, n>>] = <<>>
             PROVE  client_socket' # <<p, n>>
  BY DEF Overtaken
<1> DEFINE q == <<p, n>>
<1>0. /\ q \in Conn /\ toServer \in [Conn -> Seq(Requests)] /\ told \in [Conn -> Seq({200, 202, 400})]
  BY Facts DEF TypeOK
<1>1. /\ toServer'[q] = <<>> /\ told'[q] = <<>>
      /\ toServer[q] = <<>> /\ told[q] = <<>> => client_socket # q
      /\ server_end[q] = "queued" => toServer[q] # <<>>
      /\ \A i \in 1..Len(toServer[q]) : toServer[q][i] \in Questions
  BY DEF Overtaken, Joined, Carried
<1> SUFFICES client_socket' # q
  OBVIOUS
<1> HIDE DEF q
<1>2. CASE slotNewConnection
  <2>1. /\ toServer' = toServer /\ client_socket' = Head(backlog) /\ backlog # <<>>
    BY <1>2 DEF slotNewConnection, wire
  <2>2. backlog \in Seq(Conn)
    BY DEF TypeOK
  <2>3. Head(backlog) = backlog[1] /\ 1 \in 1..Len(backlog)
    BY <2>1, <2>2
  <2>4. server_end[Head(backlog)] = "queued"
    BY <2>3 DEF Joined, Queue
  <2> QED
    BY <1>1, <2>1, <2>4
<1>3. CASE client_socket' = client_socket
  <2>1. CASE UNCHANGED wire
    BY <1>1, <1>3, <2>1 DEF wire
  <2>2. ASSUME NEW c \in Conn, NEW r \in Requests, Request(c, r) PROVE client_socket' # q
    <3>1. told' = told /\ toServer' = [toServer EXCEPT ![c] = Append(@, r)]
      BY <2>2 DEF Request
    <3>2. c # q
      <4>1. ASSUME c = q PROVE Len(toServer'[q]) = Len(toServer[q]) + 1
        BY <1>0, <3>1, <4>1, AppendAt
      <4>2. Len(<<>>) = 0 /\ Len(toServer[q]) \in Nat
        BY <1>0
      <4> QED
        BY <1>1, <4>1, <4>2
    <3>3. toServer'[q] = toServer[q]
      BY <1>0, <3>1, <3>2
    <3> QED
      BY <1>1, <1>3, <3>1, <3>3
  <2>3. ASSUME NEW c \in Conn, slotReadClient(c) PROVE client_socket' # q
    <3>1. /\ toServer' = [toServer EXCEPT ![c] = <<>>]
          /\ toServer[c] # <<>> /\ Head(toServer[c]) = toServer[c][1]
      BY <2>3, ReadClient
    <3>2. CASE c # q
      <4>1. toServer[q] = <<>>
        BY <1>0, <1>1, <3>1, <3>2
      <4>2. told[q] = <<>>
        <5>1. told' = told \/ told' = [told EXCEPT ![c] = Append(@, Code(toServer[c][1]))]
          BY <2>3, ReadClient
        <5> QED
          BY <1>0, <1>1, <3>2, <5>1
      <4> QED
        BY <1>1, <1>3, <4>1, <4>2
    <3>3. CASE c = q
      <4>1. Head(toServer[q]) \in Questions
        <5>1. 1 \in 1..Len(toServer[q])
          BY <1>0, <3>1, <3>3
        <5> QED
          BY <1>1, <3>1, <3>3, <5>1
      <4>2. ~Unanswered(Head(toServer[q])) /\ ~Undefined(Head(toServer[q]))
        BY <4>1 DEF Unanswered, Undefined, Questions
      <4>3. ASSUME Answer(q, Head(toServer[q])) PROVE FALSE
        <5>1. told' = [told EXCEPT ![q] = Append(@, Code(Head(toServer[q])))]
          BY <4>3 DEF Answer, Send
        <5>2. Code(Head(toServer[q])) \in {200, 202, 400}
          BY DEF Code
        <5>3. Len(told'[q]) = Len(told[q]) + 1
          BY <1>0, <5>1, <5>2, AppendAt
        <5>4. Len(<<>>) = 0 /\ Len(told[q]) \in Nat
          BY <1>0
        <5> QED
          BY <1>1, <5>3, <5>4
      <4> QED
        BY <1>3, <2>3, <3>3, <4>2, <4>3 DEF slotReadClient
    <3> QED
      BY <3>2, <3>3
  <2>4. ASSUME NEW o \in Others, NEW r \in OtherRequests, Request(Socket(o), r) PROVE client_socket' # q
    BY <2>2, <2>4, Facts
  <2>5. ASSUME NEW s \in Clients, NEW k \in 1..MaxRequests, NEW r \in Questions, Request(<<s, k>>, r)
        PROVE  client_socket' # q
    BY <2>2, <2>5, Facts
  <2> QED
    BY <2>1, <2>3, <2>4, <2>5, WireStep
<1> QED
  BY <1>2, <1>3, SocketStep

\* A question that was read and not answered had been overtaken.
THEOREM UnansweredOvertakenAlways == Spec => []UnansweredOvertaken
<1>1. Init => Overtaken
  BY Facts DEF Init, Overtaken
<1>2. TypeOK /\ Overtaken => UnansweredOvertaken
  <2> SUFFICES ASSUME TypeOK, Overtaken, NEW p \in Clients, NEW n \in 1..questions[p]
               PROVE  toServer[<<p, n>>] = <<>> /\ told[<<p, n>>] = <<>> => client_socket # <<p, n>>
    BY DEF UnansweredOvertaken
  <2>1. questions[p] \in 0..sent /\ sent \in 0..MaxRequests
    BY DEF TypeOK
  <2>2. n \in 1..MaxRequests
    BY <2>1, Facts
  <2> QED
    BY <2>2 DEF Overtaken
<1> QED
  BY <1>1, <1>2, OvertakenStep, JoinedAlways, TypeCorrect, PTL DEF Spec

NotCut == \A c \in Conn : /\ server_end[c] = "open" /\ client_end[c] = "open"
                         /\ c # client_socket /\ ~Disconnects(c)
    => server_end'[c] = "open" \/ ~running'

LEMMA NotCutStep == TypeOK /\ Joined /\ [Next]_vars => [NotCut]_vars
<1> SUFFICES ASSUME TypeOK, Joined, [Next]_vars, NEW c \in Conn,
                    server_end[c] = "open", client_end[c] = "open", c # client_socket
             PROVE  server_end'[c] = "open" \/ ~running'
  BY DEF NotCut
<1>0. server_end \in [Conn -> {"none", "queued", "open", "closed"}]
  BY DEF TypeOK
<1>1. UNCHANGED server => server_end'[c] = "open"
  BY DEF server
<1>2. End => ~running'
  BY DEF End
<1>3. CASE slotNewConnection
  BY <1>0, <1>3 DEF slotNewConnection
<1>4. CASE ExitCloses \/ ShutdownCloses
  BY <1>0, <1>4 DEF ExitCloses, ShutdownCloses, Closed
<1>5. CASE ServerQuits
  BY <1>2, <1>5 DEF ServerQuits
<1>6. ASSUME NEW d \in Conn, slotReadClient(d) PROVE server_end'[c] = "open" \/ ~running'
  BY <1>2, <1>6 DEF slotReadClient, Answer, Unanswered, Undefined
<1>7. ASSUME NEW d \in Conn, HearClose(d) PROVE server_end'[c] = "open"
  BY <1>0, <1>7 DEF HearClose, Closed
<1>8. ASSUME NEW d \in Conn, client_end[d] = "none", Connect(d) PROVE server_end'[c] = "open"
  BY <1>0, <1>8 DEF Connect
<1>9. ASSUME NEW p \in Clients,
             \/ slotTimeoutWaiting(p) \/ slotServerDisconnected(p) \/ Leave(p)
             \/ \E n \in 1..MaxRequests : OnResponse(p, n) \/ ReplyFails(p, n)
      PROVE  server_end'[c] = "open"
  <2>1. \A waited, left : AskOrQuit(p, waited, left) => UNCHANGED server
    BY DEF AskOrQuit, Quit
  <2> QED
    BY <1>1, <1>9, <2>1 DEF slotTimeoutWaiting, slotServerDisconnected, Leave, Quit, OnResponse, ReplyFails
<1>10. ASSUME NEW p \in Clients, Start(p) PROVE server_end'[c] = "open"
  <2>1. Socket(p) \in Conn /\ client_end[Socket(p)] = "none" /\ Connect(Socket(p))
    BY <1>10, Facts DEF Start, Joined, Connections
  <2> QED
    BY <1>8, <2>1
<1>11. ASSUME NEW p \in Clients, NEW r \in Questions, Ask(p, r) PROVE server_end'[c] = "open"
  <2>1. questions[p] \in 0..sent /\ sent \in 0..MaxRequests /\ sent < MaxRequests
    BY <1>11 DEF TypeOK, Ask, Request
  <2>2. questions[p] + 1 \in 1..MaxRequests /\ questions[p] + 1 > questions[p]
    BY <2>1, Facts
  <2>3. <<p, questions[p] + 1>> \in Conn /\ client_end[<<p, questions[p] + 1>>] = "none"
    BY <2>2, Facts DEF Joined, Connections
  <2> QED
    BY <1>8, <1>11, <2>3 DEF Ask
<1>12. ASSUME NEW o \in Others, OtherConnects(o) PROVE server_end'[c] = "open"
  BY <1>8, <1>12, Facts DEF OtherConnects
<1>13. ASSUME NEW o \in Others, OtherLeaves(o) \/ \E r \in OtherRequests : OtherAsks(o, r)
       PROVE  server_end'[c] = "open"
  BY <1>1, <1>13 DEF OtherLeaves, OtherAsks
<1>14. CASE UNCHANGED vars
  BY <1>1, <1>14 DEF vars
<1> QED
  BY <1>3, <1>4, <1>5, <1>6, <1>7, <1>9, <1>10, <1>11, <1>12, <1>13, <1>14 DEF Next

\* Only the newest connection is cut off by what others do; one that is not the
\* newest and has not asked for it stays.
THEOREM OvertakenNotCutAlways == Spec => OvertakenNotCut
<1>1. TypeOK /\ Joined /\ [Next]_vars => [NotCut]_vars
  BY NotCutStep
<1>2. Spec => [][NotCut]_vars
  BY <1>1, JoinedAlways, TypeCorrect, PTL DEF Spec
<1> QED
  BY <1>2, PTL DEF OvertakenNotCut, NotCut
=============================================================================
