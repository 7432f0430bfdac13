-------------------------- MODULE SslServiceProofs --------------------------
(***************************************************************************)
(* Proofs about SslService: type correctness, that only programs which     *)
(* have logged in have a message accepted, and that qssl_client never gets *)
(* a "Bad Request", for every set of programs and users and every bound.   *)
(*                                                                         *)
(* The last one needs to know more than what is in flight.  Membership is  *)
(* what ties the server's one flag to a program that presented a pair.     *)
(* Conversation says that a qssl_client has at most one request or answer  *)
(* under way, and that whatever it is doing fits the flag for as long as   *)
(* the server holds it.                                                    *)
(***************************************************************************)
EXTENDS SslService, TLAPS

\* The flag, and a request that will set it, belong to a program that has
\* presented a pair of users.txt
Membership ==
    /\ isAutorization => ssl_client \in presented
    /\ accepted \subseteq presented
    /\ \A c \in Clients : \A i \in DOMAIN toServer[c] :
          toServer[c][i].task = "authorization" /\ toServer[c][i].pair \in users
              => c \in presented

\* A program the server has not taken has sent nothing and is past nothing
Untaken == \A c \in Clients : server_end[c] = "none" =>
    /\ c # ssl_client
    /\ toServer[c] = <<>> /\ toClient[c] = <<>>
    /\ phase[c] \notin {"login", "message", "waiting", "browsing"}

\* One request or answer of a qssl_client at a time, none while it asks
Alone(c) ==
    /\ \/ toServer[c] = <<>>
       \/ /\ toClient[c] = <<>>
          /\ \E r \in Logins \cup {Message} : toServer[c] = <<r>>
    /\ toClient[c] = <<>> \/ \E code \in {200, 401} : toClient[c] = <<code>>
    /\ phase[c] \in {"off", "connecting", "login", "message"} =>
          toServer[c] = <<>> /\ toClient[c] = <<>>
    /\ phase[c] # "browsing"

OneAtATime == \A c \in Own : Alone(c)

\* What the served qssl_client does fits the flag
InStep == ssl_client \in Own =>
    /\ phase[ssl_client] \in {"off", "connecting", "login"} => ~isAutorization
    /\ phase[ssl_client] = "message" => isAutorization
    /\ \A login \in Logins : toServer[ssl_client] = <<login>> => ~isAutorization
    /\ toServer[ssl_client] = <<Message>> => isAutorization
    /\ toClient[ssl_client] = <<200>> => isAutorization
    /\ toClient[ssl_client] = <<401>> => ~isAutorization

Conversation == Untaken /\ OneAtATime /\ InStep

-----------------------------------------------------------------------------
(* Types *)

LEMMA Facts ==
    /\ Own \subseteq Clients
    /\ None \notin Clients
    /\ users \subseteq Pairs
    /\ MaxRequests \in Nat
    /\ Logins \subseteq Requests
    /\ Message \in Requests
  BY ClientsAssumption, UsersAssumption, BoundAssumption DEF Own, Requests

LEMMA TypeInit == Init => TypeOK
<1> SUFFICES ASSUME Init PROVE TypeOK
  OBVIOUS
<1>1. slots \in [Clients -> 0..sent] /\ sent \in 0..MaxRequests
  BY Facts DEF Init
<1>2. toServer \in [Clients -> Seq(Requests)] /\ toClient \in [Clients -> Seq({200, 400, 401})]
  BY DEF Init
<1>3. /\ server_end \in [Clients -> {"none", "open", "refused", "closed"}]
      /\ phase \in [Clients -> Phases] /\ client_timer \in [Clients -> BOOLEAN]
  BY DEF Init, Phases
<1>4. /\ ssl_client = None /\ isAutorization = FALSE /\ timer = None
      /\ presented = {} /\ accepted = {}
  BY DEF Init
<1> QED
  BY <1>1, <1>2, <1>3, <1>4 DEF TypeOK

LEMMA TypeStep == TypeOK /\ [Next]_vars => TypeOK'
<1> SUFFICES ASSUME TypeOK, [Next]_vars PROVE TypeOK'
  OBVIOUS
<1>0. ASSUME UNCHANGED <<toServer, toClient, client, presented, accepted>>,
             ssl_client' \in Clients \cup {None}, isAutorization' \in BOOLEAN,
             timer' \in Clients \cup {None},
             server_end' \in [Clients -> {"none", "open", "refused", "closed"}]
      PROVE  TypeOK'
  BY <1>0 DEF TypeOK, client
<1> USE Facts DEF TypeOK, server, client, Becomes
<1>1. CASE TimerFires
  <2> HIDE DEF TypeOK
  <2>1. server_end' \in [Clients -> {"none", "open", "refused", "closed"}]
    BY <1>1 DEF TimerFires, Closed, TypeOK
  <2>2. /\ UNCHANGED <<ssl_client, isAutorization, toServer, toClient, client, presented, accepted>>
        /\ timer' = None
    BY <1>1 DEF TimerFires
  <2>3. ssl_client' \in Clients \cup {None} /\ isAutorization' \in BOOLEAN
    BY <2>2 DEF TypeOK
  <2> QED
    BY <1>0, <2>1, <2>2, <2>3
<1>2. ASSUME NEW c \in Clients, incomingConnection(c) PROVE TypeOK'
  <2> HIDE DEF TypeOK
  <2>1. ASSUME NEW end \in {"open", "refused"}, server_end' = [server_end EXCEPT ![c] = end]
        PROVE  server_end' \in [Clients -> {"none", "open", "refused", "closed"}]
    BY <2>1 DEF TypeOK
  <2>2. server_end' \in [Clients -> {"none", "open", "refused", "closed"}]
    BY <1>2, <2>1 DEF incomingConnection
  <2>3. /\ UNCHANGED <<timer, toServer, toClient, client, presented, accepted>>
        /\ ssl_client' = c /\ isAutorization' = FALSE
    BY <1>2 DEF incomingConnection, NewClient
  <2>4. timer' \in Clients \cup {None}
    BY <2>3 DEF TypeOK
  <2> QED
    BY <1>0, <2>2, <2>3, <2>4
<1>3. ASSUME NEW c \in Clients, slotReadyRequest(c) PROVE TypeOK'
  <2> HIDE DEF TypeOK
  <2> DEFINE Served == /\ isAutorization' \in BOOLEAN
                       /\ timer' \in Clients \cup {None}
                       /\ toClient' \in [Clients -> Seq({200, 400, 401})]
                       /\ accepted' \subseteq Clients
                       /\ server_end' \in [Clients -> {"none", "open", "refused", "closed"}]
                       /\ UNCHANGED ssl_client
  <2>1. toServer' \in [Clients -> Seq(Requests)]
    BY <1>3 DEF slotReadyRequest, TypeOK
  <2>2. Served
    <3>1. CASE c # ssl_client
      BY <1>3, <3>1 DEF slotReadyRequest, Overlooked, TypeOK
    <3>2. ASSUME NEW code \in {200, 400, 401}, Send(c, code)
          PROVE  /\ timer' \in Clients \cup {None}
                 /\ toClient' \in [Clients -> Seq({200, 400, 401})]
                 /\ UNCHANGED <<ssl_client, server_end>>
      <4>1. toClient' = [toClient EXCEPT ![c] = Append(@, code)]
        BY <3>2 DEF Send
      <4>2. toClient' \in [Clients -> Seq({200, 400, 401})]
        BY <4>1 DEF TypeOK
      <4> QED
        BY <3>2, <4>2 DEF Send
    <3>3. /\ isAutorization \in BOOLEAN /\ accepted \subseteq Clients
          /\ server_end \in [Clients -> {"none", "open", "refused", "closed"}]
      BY DEF TypeOK
    <3>4. ASSUME NEW r, Authorize(c, r) PROVE Served
      BY <3>2, <3>3, <3>4 DEF Authorize, Mark
    <3>5. ASSUME NEW r, Refuse(c, r) PROVE Served
      BY <3>2, <3>3, <3>5 DEF Refuse
    <3>6. ASSUME NEW r, TakeMessage(c, r) PROVE Served
      BY <3>2, <3>3, <3>6 DEF TakeMessage
    <3>7. ASSUME NEW r, BadRequest(c, r) PROVE Served
      BY <3>2, <3>3, <3>7 DEF BadRequest
    <3>8. ASSUME NEW r, Unanswered(r) PROVE Served
      BY <3>8 DEF Unanswered, TypeOK
    <3>9. ASSUME NEW r, Undefined(r) PROVE Served
      <4>1. server_end' \in [Clients -> {"none", "open", "refused", "closed"}]
        BY <3>3, <3>9 DEF Undefined
      <4> QED
        BY <3>9, <4>1 DEF Undefined, TypeOK
    <3> HIDE DEF Served
    <3> QED
      BY <1>3, <3>1, <3>4, <3>5, <3>6, <3>7, <3>8, <3>9 DEF slotReadyRequest
  <2>3. UNCHANGED <<client, presented>>
    BY <1>3 DEF slotReadyRequest
  <2> QED
    BY <2>1, <2>2, <2>3 DEF TypeOK
<1>4. ASSUME NEW c \in Clients, HearClose(c) PROVE TypeOK'
  BY <1>4 DEF HearClose, Closed
<1>5. ASSUME NEW c \in Clients,
             \/ Start(c) \/ HandshakeDone(c) \/ HandshakeFailed(c) \/ Timeout(c)
             \/ ServerGone(c) \/ TypeExit(c) \/ Kill(c)
      PROVE  TypeOK'
  <2>1. phase' \in [Clients -> Phases]
    <3>1. ASSUME NEW what \in Phases, Becomes(c, what) PROVE phase' \in [Clients -> Phases]
      BY <3>1
    <3> HIDE DEF TypeOK, Becomes
    <3>2. CASE Start(c)
      BY <3>1, <3>2 DEF Start, Phases
    <3>3. CASE HandshakeDone(c)
      BY <3>1, <3>3 DEF HandshakeDone, Phases
    <3>4. CASE HandshakeFailed(c)
      BY <3>1, <3>4 DEF HandshakeFailed, Phases
    <3>5. CASE Timeout(c) \/ ServerGone(c)
      BY <3>1, <3>5 DEF Timeout, ServerGone, Phases
    <3>6. CASE TypeExit(c) \/ Kill(c)
      BY <3>1, <3>6 DEF TypeExit, Kill, Phases
    <3> QED
      BY <1>5, <3>2, <3>3, <3>4, <3>5, <3>6
  <2>2. UNCHANGED <<server, toServer, toClient, slots, client_timer, sent,
                    presented, accepted>>
    BY <1>5 DEF Start, HandshakeDone, HandshakeFailed, Timeout, ServerGone, TypeExit,
                Kill
  <2> QED
    BY <2>1, <2>2
<1>6. ASSUME NEW c \in Clients, NEW r \in Requests, Request(c, r)
      PROVE  /\ sent' \in 0..MaxRequests /\ sent' = sent + 1
             /\ toServer' \in [Clients -> Seq(Requests)]
             /\ presented' \subseteq Clients
  BY <1>6 DEF Request
<1>7. ASSUME NEW c \in Clients, slotNewConnection(c) PROVE TypeOK'
  <2>1. /\ sent' \in 0..MaxRequests /\ sent' = sent + 1
        /\ toServer' \in [Clients -> Seq(Requests)]
        /\ presented' \subseteq Clients
    BY <1>6, <1>7 DEF slotNewConnection
  <2>2. slots' \in [Clients -> 0..sent'] /\ client_timer' \in [Clients -> BOOLEAN]
    BY <1>7, <2>1 DEF slotNewConnection, Connect, StartTimer
  <2> QED
    BY <1>7, <2>1, <2>2 DEF slotNewConnection, Phases
<1>8. ASSUME NEW c \in Clients, SendMessage(c) PROVE TypeOK'
  <2>1. /\ sent' \in 0..MaxRequests /\ sent' = sent + 1
        /\ toServer' \in [Clients -> Seq(Requests)]
        /\ presented' \subseteq Clients
    BY <1>6, <1>8 DEF SendMessage
  <2>2. slots' \in [Clients -> 0..sent'] /\ client_timer' \in [Clients -> BOOLEAN]
    BY <1>8, <2>1 DEF SendMessage, StartTimer
  <2> QED
    BY <1>8, <2>1, <2>2 DEF SendMessage, Phases
<1>9. ASSUME NEW c \in Clients, slotReadResponce(c) PROVE TypeOK'
  <2>1. After(Head(toClient[c])) \in Phases
    BY <1>9 DEF slotReadResponce, After, Phases
  <2> QED
    BY <1>9, <2>1 DEF slotReadResponce
<1>10. ASSUME NEW c \in Clients, Browse(c) PROVE TypeOK'
  <2>1. /\ sent' \in 0..MaxRequests /\ sent' = sent + 1
        /\ toServer' \in [Clients -> Seq(Requests)]
        /\ presented' \subseteq Clients
    BY <1>6, <1>10 DEF Browse
  <2>2. slots' \in [Clients -> 0..sent']
    BY <1>10, <2>1 DEF Browse
  <2>3. toClient' \in [Clients -> Seq({200, 400, 401})]
    BY <1>10 DEF Browse
  <2> QED
    BY <1>10, <2>1, <2>2, <2>3 DEF Browse
<1>11. CASE UNCHANGED vars
  BY <1>11 DEF vars
<1> QED
  BY <1>1, <1>2, <1>3, <1>4, <1>5, <1>7, <1>8, <1>9, <1>10, <1>11 DEF Next

\* Every variable has its type, and the slots of qssl_client are connected at
\* most once for every request (all the slots of main.cpp of both programs).
THEOREM TypeCorrect == Spec => []TypeOK
  BY TypeInit, TypeStep, PTL DEF Spec

-----------------------------------------------------------------------------
(* Who may have a message accepted *)

LEMMA MembershipInit == Init => Membership
  BY DEF Init, Membership

LEMMA MembershipStep == TypeOK /\ Membership /\ [Next]_vars => Membership'
<1> SUFFICES ASSUME TypeOK, Membership, [Next]_vars PROVE Membership'
  OBVIOUS
<1> DEFINE Same == UNCHANGED <<ssl_client, isAutorization, toServer, presented, accepted>>
<1>1. ASSUME Same PROVE Membership'
  BY <1>1 DEF Membership
<1> HIDE DEF Same
<1>2. ASSUME NEW c \in Clients, incomingConnection(c) PROVE Membership'
  BY <1>2 DEF incomingConnection, NewClient, Membership, client
<1>3. ASSUME NEW c \in Clients, slotReadyRequest(c) PROVE Membership'
  <2> DEFINE r == Head(toServer[c])
  <2>1. /\ UNCHANGED <<ssl_client, presented>>
        /\ 1 \in DOMAIN toServer[c] /\ r = toServer[c][1]
    BY <1>3 DEF slotReadyRequest, Overlooked, Authorize, Refuse, TakeMessage,
                BadRequest, Undefined, Unanswered, Send, TypeOK
  <2>2. \A d \in Clients : toServer'[d] = <<>> \/ toServer'[d] = toServer[d]
    BY <1>3 DEF slotReadyRequest, TypeOK
  <2>3. /\ isAutorization' => ssl_client \in presented
        /\ accepted' \subseteq presented
    <3>1. CASE c # ssl_client
      BY <1>3, <3>1 DEF slotReadyRequest, Overlooked, Membership
    <3>2. CASE c = ssl_client /\ Authorize(c, r)
      BY <2>1, <3>2 DEF Authorize, Membership
    <3>3. CASE c = ssl_client /\ TakeMessage(c, r)
      BY <3>3 DEF TakeMessage, Membership
    <3>4. CASE Refuse(c, r) \/ BadRequest(c, r) \/ Undefined(r) \/ Unanswered(r)
      BY <3>4 DEF Refuse, BadRequest, Undefined, Unanswered, Membership
    <3> QED
      BY <1>3, <3>1, <3>2, <3>3, <3>4 DEF slotReadyRequest
  <2> QED
    BY <2>1, <2>2, <2>3 DEF Membership
<1>4. ASSUME NEW c \in Clients, NEW r \in Requests, Request(c, r),
             UNCHANGED <<ssl_client, isAutorization, accepted>>
      PROVE  Membership'
  <2>1. /\ presented \subseteq presented'
        /\ r.task = "authorization" /\ r.pair \in users => c \in presented'
    BY <1>4 DEF Request
  <2>2. \A d \in Clients : \A i \in DOMAIN toServer'[d] :
           \/ i \in DOMAIN toServer[d] /\ toServer'[d][i] = toServer[d][i]
           \/ d = c /\ toServer'[d][i] = r
    BY <1>4 DEF Request, TypeOK
  <2> QED
    BY <1>4, <2>1, <2>2 DEF Membership
<1>5. ASSUME NEW c \in Clients, slotNewConnection(c) PROVE Membership'
  BY <1>4, <1>5, Facts DEF slotNewConnection, server
<1>6. ASSUME NEW c \in Clients, SendMessage(c) PROVE Membership'
  BY <1>4, <1>6, Facts DEF SendMessage, server
<1>7. ASSUME NEW c \in Clients, Browse(c) PROVE Membership'
  BY <1>4, <1>7 DEF Browse, server
<1>8. CASE TimerFires
  BY <1>1, <1>8 DEF TimerFires, Same
<1>9. ASSUME NEW c \in Clients,
             \/ HearClose(c) \/ Start(c) \/ HandshakeDone(c) \/ HandshakeFailed(c)
             \/ slotReadResponce(c) \/ Timeout(c) \/ ServerGone(c) \/ TypeExit(c) \/ Kill(c)
      PROVE  Membership'
  BY <1>1, <1>9 DEF HearClose, Start, HandshakeDone, HandshakeFailed, slotReadResponce,
                    Timeout, ServerGone, TypeExit, Kill, Same, server
<1>10. CASE UNCHANGED vars
  BY <1>1, <1>10 DEF Same, vars, server
<1> QED
  BY <1>2, <1>3, <1>5, <1>6, <1>7, <1>8, <1>9, <1>10 DEF Next

\* Whatever number of programs connect, log in and close in whatever order, a
\* message is accepted only from one that has presented a pair of users.txt,
\* although the server keeps one flag for all of them (incomingConnection,
\* slotReadyRequest).
THEOREM OnlyMembersAccepted == Spec => []MessagesAuthorised
<1>1. Init => TypeOK /\ Membership
  BY TypeInit, MembershipInit
<1>2. TypeOK /\ Membership /\ [Next]_vars => (TypeOK /\ Membership)'
  BY TypeStep, MembershipStep
<1>3. TypeOK /\ Membership => MessagesAuthorised
  BY DEF Membership, MessagesAuthorised
<1> QED
  BY <1>1, <1>2, <1>3, PTL DEF Spec

-----------------------------------------------------------------------------
(* What a qssl_client may be told *)

LEMMA AppendToNone == ASSUME NEW S, NEW x \in S PROVE Append(<<>>, x) = <<x>>
  OBVIOUS

\* The requests of a qssl_client are of two kinds
LEMMA Kinds ==
    /\ Message.method = "GET" /\ Message.task = "message"
    /\ \A login \in Logins : login.method = "GET" /\ login.task = "authorization"
    /\ Fragment.task = "missing"
  BY DEF Message, Logins, Fragment, Get

LEMMA ConversationInit == Init => Conversation
  BY Facts DEF Init, Conversation, Untaken, OneAtATime, Alone, InStep

\* What the server says when it takes the request of a qssl_client that it
\* serves
LEMMA Answered ==
    ASSUME TypeOK, Conversation, NEW c \in Own, c = ssl_client, slotReadyRequest(c)
    PROVE  \E code \in {200, 401} :
              /\ toClient' = [toClient EXCEPT ![c] = <<code>>]
              /\ code = 200 => isAutorization'
              /\ code = 401 => ~isAutorization'
              /\ UNCHANGED <<ssl_client, server_end>>
<1> DEFINE r == Head(toServer[c])
<1>1. c \in Clients
  BY DEF Own
<1>2. toClient[c] = <<>> /\ toServer[c] = <<r>> /\ r \in Logins \cup {Message}
  BY <1>1 DEF slotReadyRequest, Conversation, OneAtATime, Alone
<1>3. r.method = "GET" /\ r.task = IF isAutorization THEN "message" ELSE "authorization"
  BY <1>2, Kinds DEF Conversation, InStep
<1> HIDE DEF r
<1>4. ASSUME NEW code \in {200, 401}, Send(c, code)
      PROVE  /\ toClient' = [toClient EXCEPT ![c] = <<code>>]
             /\ UNCHANGED <<ssl_client, server_end>>
  BY <1>1, <1>2, <1>4, AppendToNone DEF Send, TypeOK
<1>5. CASE Authorize(c, r)
  BY <1>4, <1>5 DEF Authorize, Mark
<1>6. CASE Refuse(c, r)
  BY <1>4, <1>6 DEF Refuse, TypeOK
<1>7. CASE TakeMessage(c, r)
  BY <1>4, <1>7 DEF TakeMessage, TypeOK
<1>8. ~BadRequest(c, r) /\ ~Unanswered(r) /\ ~Undefined(r)
  BY <1>3, Kinds DEF BadRequest, Unanswered, Undefined
<1> QED
  BY <1>5, <1>6, <1>7, <1>8 DEF slotReadyRequest, r

\* Reading a request changes nothing of other programs
LEMMA Elsewhere ==
    ASSUME TypeOK, NEW c \in Clients, slotReadyRequest(c)
    PROVE  /\ toServer' = [toServer EXCEPT ![c] = <<>>]
           /\ \A d \in Clients \ {c} : toServer'[d] = toServer[d] /\ toClient'[d] = toClient[d]
           /\ c # ssl_client => UNCHANGED <<isAutorization, toClient>>
           /\ UNCHANGED <<ssl_client, phase>>
  BY DEF slotReadyRequest, Overlooked, Authorize, Refuse, TakeMessage, BadRequest,
         Undefined, Unanswered, Send, client, TypeOK

\* ... and takes no program
LEMMA NoneTaken ==
    ASSUME TypeOK, NEW c \in Clients, slotReadyRequest(c)
    PROVE  \A d \in Clients : server_end'[d] = "none" => server_end[d] = "none"
<1>1. CASE UNCHANGED server_end
  BY <1>1
<1>2. ASSUME NEW r, Undefined(r)
      PROVE  \A d \in Clients : server_end'[d] = "none" => server_end[d] = "none"
  BY <1>2 DEF Undefined
<1> QED
  BY <1>1, <1>2 DEF slotReadyRequest, Overlooked, Authorize, Refuse, TakeMessage,
                    BadRequest, Unanswered, Send

LEMMA UntakenStep == TypeOK /\ Untaken /\ [Next]_vars => Untaken'
<1> SUFFICES ASSUME TypeOK, Untaken, [Next]_vars PROVE Untaken'
  OBVIOUS
<1>1. ASSUME NEW c \in Clients, incomingConnection(c) PROVE Untaken'
  BY <1>1 DEF incomingConnection, Untaken, client, TypeOK
<1>2. ASSUME NEW c \in Clients, slotReadyRequest(c) PROVE Untaken'
  <2>1. server_end[c] # "none"
    BY <1>2 DEF slotReadyRequest
  <2> QED
    BY <1>2, <2>1, Elsewhere, NoneTaken DEF Untaken
<1>3. ASSUME UNCHANGED <<ssl_client, toServer, toClient, phase>>,
             \A d \in Clients : server_end'[d] \in {server_end[d], "closed"}
      PROVE  Untaken'
  BY <1>3 DEF Untaken
<1>4. CASE TimerFires
  BY <1>3, <1>4 DEF TimerFires, Closed, client, TypeOK
<1>5. ASSUME NEW c \in Clients, HearClose(c) PROVE Untaken'
  <2>1. \A d \in Clients : server_end'[d] \in {server_end[d], "closed"}
    BY <1>5 DEF HearClose, Closed, TypeOK
  <2> QED
    BY <1>3, <1>5, <2>1 DEF HearClose, client
<1>6. ASSUME NEW c \in Clients, UNCHANGED server,
             server_end[c] # "none" \/
                /\ phase'[c] \notin {"login", "message", "waiting", "browsing"}
                /\ UNCHANGED <<toServer, toClient>>,
             \A d \in Clients \ {c} :
                /\ toServer'[d] = toServer[d] /\ toClient'[d] = toClient[d]
                /\ phase'[d] = phase[d]
      PROVE  Untaken'
  BY <1>6 DEF Untaken, server
<1>7. ASSUME NEW c \in Clients,
             Start(c) \/ HandshakeFailed(c) \/ Timeout(c) \/ ServerGone(c) \/ TypeExit(c) \/ Kill(c)
      PROVE  Untaken'
  <2>1. /\ phase'[c] \notin {"login", "message", "waiting", "browsing"}
        /\ \A d \in Clients \ {c} : phase'[d] = phase[d]
    BY <1>7 DEF Start, HandshakeFailed, Timeout, ServerGone, TypeExit, Kill, Becomes, TypeOK
  <2>2. UNCHANGED <<server, toServer, toClient>>
    BY <1>7 DEF Start, HandshakeFailed, Timeout, ServerGone, TypeExit, Kill
  <2> QED
    BY <1>6, <2>1, <2>2
<1>8. ASSUME NEW c \in Clients,
             \/ HandshakeDone(c) \/ slotNewConnection(c) \/ SendMessage(c)
             \/ slotReadResponce(c) \/ Browse(c)
      PROVE  Untaken'
  <2>1. server_end[c] # "none"
    BY <1>8 DEF HandshakeDone, slotNewConnection, SendMessage, slotReadResponce, Browse, Untaken
  <2>2. \A d \in Clients \ {c} : phase'[d] = phase[d] /\ toClient'[d] = toClient[d]
    BY <1>8 DEF HandshakeDone, slotNewConnection, SendMessage, slotReadResponce, Browse,
                Becomes, TypeOK
  <2>3. \A d \in Clients \ {c} : toServer'[d] = toServer[d]
    BY <1>8 DEF HandshakeDone, slotNewConnection, SendMessage, slotReadResponce, Browse,
                Request, TypeOK
  <2>4. UNCHANGED server
    BY <1>8 DEF HandshakeDone, slotNewConnection, SendMessage, slotReadResponce, Browse
  <2> QED
    BY <1>6, <2>1, <2>2, <2>3, <2>4
<1>9. CASE UNCHANGED vars
  BY <1>9 DEF vars, server, client, Untaken
<1> QED
  BY <1>1, <1>2, <1>4, <1>5, <1>7, <1>8, <1>9 DEF Next

LEMMA OneAtATimeStep == TypeOK /\ Conversation /\ [Next]_vars => OneAtATime'
<1> SUFFICES ASSUME TypeOK, Conversation, [Next]_vars PROVE OneAtATime'
  OBVIOUS
<1>0. OneAtATime /\ Own \subseteq Clients
  BY Facts DEF Conversation
<1>1. ASSUME NEW c \in Clients, c \in Own => Alone(c)',
             \A d \in Clients \ {c} :
                /\ toServer'[d] = toServer[d] /\ toClient'[d] = toClient[d]
                /\ phase'[d] = phase[d]
      PROVE  OneAtATime'
  BY <1>0, <1>1 DEF OneAtATime, Alone
<1>2. ASSUME UNCHANGED <<toServer, toClient, phase>> PROVE OneAtATime'
  BY <1>0, <1>2 DEF OneAtATime, Alone
<1>3. ASSUME NEW c \in Clients, incomingConnection(c) \/ HearClose(c) PROVE OneAtATime'
  BY <1>2, <1>3 DEF incomingConnection, HearClose, client
<1>4. CASE TimerFires
  BY <1>2, <1>4 DEF TimerFires, client
<1>5. ASSUME NEW c \in Clients, slotReadyRequest(c) PROVE OneAtATime'
  <2>1. CASE c \in Own /\ c = ssl_client
    <3>1. PICK code \in {200, 401} : toClient' = [toClient EXCEPT ![c] = <<code>>]
      BY <1>5, <2>1, Answered
    <3>2. toServer'[c] = <<>> /\ toClient'[c] = <<code>> /\ phase'[c] = phase[c]
      BY <1>5, <3>1, Elsewhere DEF TypeOK
    <3>3. phase[c] \notin {"off", "connecting", "login", "message", "browsing"}
      BY <1>0, <1>5, <2>1 DEF slotReadyRequest, OneAtATime, Alone
    <3> QED
      BY <1>1, <1>5, <3>2, <3>3, Elsewhere DEF Alone
  <2>2. CASE c \in Own /\ c # ssl_client
    <3>1. toServer'[c] = <<>> /\ UNCHANGED <<toClient, phase>>
      BY <1>5, <2>2, Elsewhere DEF TypeOK
    <3>2. Alone(c)'
      BY <1>0, <2>2, <3>1 DEF OneAtATime, Alone
    <3> QED
      BY <1>1, <1>5, <3>1, <3>2, Elsewhere
  <2>3. CASE c \notin Own
    BY <1>1, <1>5, <2>3, Elsewhere
  <2> QED
    BY <2>1, <2>2, <2>3
<1>6. ASSUME NEW c \in Clients,
             \/ Start(c) \/ HandshakeDone(c) \/ HandshakeFailed(c) \/ Timeout(c)
             \/ ServerGone(c) \/ TypeExit(c) \/ Kill(c)
      PROVE  OneAtATime'
  <2>1. UNCHANGED <<toServer, toClient>>
    BY <1>6 DEF Start, HandshakeDone, HandshakeFailed, Timeout, ServerGone, TypeExit, Kill
  <2>2. \A d \in Clients \ {c} : phase'[d] = phase[d]
    BY <1>6 DEF Start, HandshakeDone, HandshakeFailed, Timeout, ServerGone, TypeExit, Kill,
                Becomes, TypeOK
  <2>3. c \in Own => /\ phase'[c] # "browsing"
                     /\ phase'[c] \in {"off", "connecting", "login", "message"} =>
                           phase[c] \in {"off", "connecting"}
    BY <1>6 DEF Start, HandshakeDone, HandshakeFailed, Timeout, ServerGone, TypeExit, Kill,
                Becomes, TypeOK
  <2>4. c \in Own => Alone(c)'
    BY <1>0, <2>1, <2>3 DEF OneAtATime, Alone
  <2> QED
    BY <1>1, <2>1, <2>2, <2>4
<1>7. ASSUME NEW c \in Clients, slotNewConnection(c) \/ SendMessage(c) PROVE OneAtATime'
  <2>1. PICK r \in Logins \cup {Message} : Request(c, r)
    BY <1>7 DEF slotNewConnection, SendMessage
  <2>2. UNCHANGED toClient /\ Becomes(c, "waiting") /\ phase[c] \in {"login", "message"}
    BY <1>7 DEF slotNewConnection, SendMessage
  <2>3. c \in Own => toServer[c] = <<>> /\ toClient[c] = <<>>
    BY <1>0, <2>2 DEF OneAtATime, Alone
  <2>4. c \in Own => toServer'[c] = <<r>>
    BY <2>1, <2>3, AppendToNone DEF Request, TypeOK
  <2>5. c \in Own => Alone(c)'
    BY <2>2, <2>3, <2>4 DEF Becomes, Alone, TypeOK
  <2> QED
    BY <1>1, <2>1, <2>2, <2>5 DEF Becomes, Request, TypeOK
<1>8. ASSUME NEW c \in Clients, slotReadResponce(c) PROVE OneAtATime'
  <2>1. /\ toClient' = [toClient EXCEPT ![c] = <<>>] /\ UNCHANGED toServer
        /\ Becomes(c, After(Head(toClient[c]))) /\ toClient[c] # <<>>
    BY <1>8 DEF slotReadResponce
  <2>2. phase'[c] # "browsing"
    BY <2>1 DEF Becomes, After, TypeOK
  <2>3. c \in Own => toServer[c] = <<>>
    BY <1>0, <2>1 DEF OneAtATime, Alone
  <2>4. c \in Own => Alone(c)'
    BY <2>1, <2>2, <2>3 DEF Alone, TypeOK
  <2> QED
    BY <1>1, <2>1, <2>4 DEF Becomes, TypeOK
<1>9. ASSUME NEW c \in Clients, Browse(c) PROVE OneAtATime'
  <2>1. c \notin Own
    BY <1>0, <1>9 DEF Browse, OneAtATime, Alone
  <2> QED
    BY <1>1, <1>9, <2>1 DEF Browse, Request, TypeOK
<1>10. CASE UNCHANGED vars
  BY <1>2, <1>10 DEF vars, client
<1> QED
  BY <1>3, <1>4, <1>5, <1>6, <1>7, <1>8, <1>9, <1>10 DEF Next

LEMMA InStepStep == TypeOK /\ Conversation /\ [Next]_vars => InStep'
<1> SUFFICES ASSUME TypeOK, Conversation, [Next]_vars PROVE InStep'
  OBVIOUS
<1>0. Untaken /\ OneAtATime /\ InStep /\ Own \subseteq Clients
  BY Facts DEF Conversation
<1>1. ASSUME UNCHANGED <<ssl_client, isAutorization>>,
             ssl_client \in Own =>
                /\ toServer'[ssl_client] = toServer[ssl_client]
                /\ toClient'[ssl_client] = toClient[ssl_client]
                /\ phase'[ssl_client] = phase[ssl_client]
      PROVE  InStep'
  BY <1>0, <1>1 DEF InStep
<1>2. ASSUME NEW c \in Clients, incomingConnection(c) PROVE InStep'
  <2>1. ssl_client' = c /\ ~isAutorization' /\ UNCHANGED <<toServer, toClient, phase>>
    BY <1>2 DEF incomingConnection, NewClient, client
  <2>2. toServer[c] = <<>> /\ toClient[c] = <<>> /\ phase[c] # "message"
    BY <1>0, <1>2 DEF incomingConnection, Untaken
  <2> QED
    BY <2>1, <2>2 DEF InStep
<1>3. ASSUME NEW c \in Clients, slotReadyRequest(c) PROVE InStep'
  <2>1. CASE c # ssl_client
    BY <1>0, <1>1, <1>3, <2>1, Elsewhere
  <2>2. CASE c = ssl_client /\ c \notin Own
    BY <1>3, <2>2, Elsewhere DEF InStep
  <2>3. CASE c = ssl_client /\ c \in Own
    <3>1. PICK code \in {200, 401} :
             /\ toClient' = [toClient EXCEPT ![c] = <<code>>]
             /\ code = 200 => isAutorization'
             /\ code = 401 => ~isAutorization'
             /\ UNCHANGED <<ssl_client, server_end>>
      BY <1>3, <2>3, Answered
    <3>2. toServer'[c] = <<>> /\ toClient'[c] = <<code>> /\ phase'[c] = phase[c]
      BY <1>3, <3>1, Elsewhere DEF TypeOK
    <3>3. phase[c] \notin {"off", "connecting", "login", "message"}
      BY <1>0, <1>3, <2>3 DEF slotReadyRequest, OneAtATime, Alone
    <3>4. ssl_client' = c /\ \A login : toServer'[c] # <<login>>
      BY <2>3, <3>1, <3>2
    <3>5. toClient'[c] = <<200>> => isAutorization'
      BY <3>1, <3>2
    <3>6. toClient'[c] = <<401>> => ~isAutorization'
      BY <3>1, <3>2
    <3> QED
      BY <3>2, <3>3, <3>4, <3>5, <3>6 DEF InStep
  <2> QED
    BY <2>1, <2>2, <2>3
<1>4. CASE TimerFires
  BY <1>1, <1>4 DEF TimerFires, client
<1>5. ASSUME NEW c \in Clients, HearClose(c) PROVE InStep'
  BY <1>1, <1>5 DEF HearClose, client
<1>6. ASSUME NEW c \in Clients,
             \/ Start(c) \/ HandshakeDone(c) \/ HandshakeFailed(c) \/ Timeout(c)
             \/ ServerGone(c) \/ TypeExit(c) \/ Kill(c)
      PROVE  InStep'
  <2>1. UNCHANGED <<ssl_client, isAutorization, toServer, toClient>>
    BY <1>6 DEF Start, HandshakeDone, HandshakeFailed, Timeout, ServerGone, TypeExit, Kill,
                server
  <2>2. /\ \A d \in Clients \ {c} : phase'[d] = phase[d]
        /\ phase'[c] # "message"
        /\ phase'[c] \in {"off", "connecting", "login"} => phase[c] \in {"off", "connecting"}
    BY <1>6 DEF Start, HandshakeDone, HandshakeFailed, Timeout, ServerGone, TypeExit, Kill,
                Becomes, TypeOK
  <2> QED
    BY <1>0, <2>1, <2>2 DEF InStep
<1>7. ASSUME NEW c \in Clients, slotNewConnection(c) \/ SendMessage(c) PROVE InStep'
  <2>1. UNCHANGED <<ssl_client, isAutorization, toClient>>
    BY <1>7 DEF slotNewConnection, SendMessage, server
  <2>2. PICK r \in Logins \cup {Message} :
           /\ Request(c, r)
           /\ phase[c] = IF r \in Logins THEN "login" ELSE "message"
    BY <1>7, Kinds DEF slotNewConnection, SendMessage
  <2>3. phase'[c] = "waiting" /\ \A d \in Clients \ {c} : phase'[d] = phase[d]
    BY <1>7 DEF slotNewConnection, SendMessage, Becomes, TypeOK
  <2>4. c \in Own => toServer[c] = <<>> /\ toClient[c] = <<>>
    BY <1>0, <2>2 DEF OneAtATime, Alone
  <2>5. /\ \A d \in Clients \ {c} : toServer'[d] = toServer[d]
        /\ c \in Own => toServer'[c] = <<r>>
    BY <2>2, <2>4, AppendToNone DEF Request, TypeOK
  <2>6. CASE c # ssl_client
    BY <1>0, <1>1, <2>1, <2>3, <2>5, <2>6
  <2>7. CASE c = ssl_client
    BY <1>0, <2>1, <2>2, <2>3, <2>4, <2>5, <2>7, Kinds DEF InStep
  <2> QED
    BY <2>6, <2>7
<1>8. ASSUME NEW c \in Clients, slotReadResponce(c) PROVE InStep'
  <2>1. /\ toClient' = [toClient EXCEPT ![c] = <<>>] /\ toClient[c] # <<>>
        /\ UNCHANGED <<ssl_client, isAutorization, toServer>>
        /\ Becomes(c, After(Head(toClient[c])))
    BY <1>8 DEF slotReadResponce, server
  <2>2. CASE c # ssl_client
    BY <1>0, <1>1, <2>1, <2>2 DEF Becomes, TypeOK
  <2>3. CASE c = ssl_client /\ c \in Own
    <3>1. PICK code \in {200, 401} : toClient[c] = <<code>> /\ toServer[c] = <<>>
      BY <1>0, <2>1, <2>3 DEF OneAtATime, Alone
    <3>2. phase'[c] = After(code) /\ toClient'[c] = <<>>
      BY <2>1, <3>1 DEF Becomes, TypeOK
    <3> QED
      BY <1>0, <2>1, <2>3, <3>1, <3>2 DEF InStep, After
  <2> QED
    BY <2>1, <2>2, <2>3 DEF InStep
<1>9. ASSUME NEW c \in Clients, Browse(c) PROVE InStep'
  <2>1. c \notin Own /\ UNCHANGED <<ssl_client, isAutorization, phase>>
    BY <1>0, <1>9 DEF Browse, OneAtATime, Alone, server
  <2> QED
    BY <1>0, <1>1, <1>9, <2>1 DEF Browse, Request, TypeOK
<1>10. CASE UNCHANGED vars
  BY <1>1, <1>10 DEF vars, server, client
<1> QED
  BY <1>2, <1>3, <1>4, <1>5, <1>6, <1>7, <1>8, <1>9, <1>10 DEF Next

\* A qssl_client is never told "Bad Request", however many programs share the
\* server's one client structure and however their steps interleave
\* (slotReadyRequest, slotReadResponce).
THEOREM NeverTold400 == Spec => []NeverBadRequest
<1>1. Init => TypeOK /\ Conversation
  BY TypeInit, ConversationInit
<1>2. TypeOK /\ Conversation /\ [Next]_vars => (TypeOK /\ Conversation)'
  <2> SUFFICES ASSUME TypeOK, Conversation, [Next]_vars PROVE TypeOK' /\ Conversation'
    OBVIOUS
  <2> QED
    BY TypeStep, UntakenStep, OneAtATimeStep, InStepStep DEF Conversation
<1>3. TypeOK /\ Conversation => NeverBadRequest
  <2> SUFFICES ASSUME Conversation, NEW c \in Own, NEW i \in DOMAIN toClient[c]
               PROVE  toClient[c][i] # 400
    BY DEF NeverBadRequest
  <2> QED
    BY DEF Conversation, OneAtATime, Alone
<1> QED
  BY <1>1, <1>2, <1>3, PTL DEF Spec
=============================================================================
