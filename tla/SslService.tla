----------------------------- MODULE SslService -----------------------------
(***************************************************************************)
(* The service of lesson6: qssl_server and the programs connected to it,   *)
(* which are qssl_client and others that speak HTTP over TLS.              *)
(*                                                                         *)
(* The server is one Qt event loop.  It accepts any number of connections  *)
(* but keeps one client structure, ssl_client, which every connection      *)
(* replaces; the slots of all the sockets work on that one structure.      *)
(* qssl_client is one event loop too, which the questions to its user      *)
(* block; it connects its readyRead slot again after every refusal.        *)
(***************************************************************************)
EXTENDS Naturals, Sequences

CONSTANTS
    Clients,      \* programs that connect, each of them once
    Foreign,      \* those that are not qssl_client: any HTTP requests
    Pairs,        \* pairs of a login and a password hash that may be sent
    users,        \* ThisServer::users: the pairs of users.txt
    None,         \* ssl_client before the first connection
    MaxRequests   \* bound: requests sent, in all

ASSUME ClientsAssumption == Foreign \subseteq Clients /\ None \notin Clients \cup Pairs
ASSUME UsersAssumption   == users \subseteq Pairs
ASSUME BoundAssumption   == MaxRequests \in Nat

Own == Clients \ Foreign

VARIABLES
    ssl_client,      \* the program whose socket ssl_client holds
    isAutorization,  \* ssl_client->isAutorization
    timer,           \* the program the server's timer was started for, None
                     \* when it does not run
    server_end,      \* the server's socket for each program
    toServer,        \* requests on their way to the server
    toClient,        \* status codes on their way to the program
    phase,           \* what each program is doing, see Phases
    slots,           \* how often qssl_client has connected slotReadResponce
    client_timer,    \* is the timer of qssl_client running?
    sent,            \* requests sent, for MaxRequests
    presented,       \* history: programs that have sent a pair of users.txt
    accepted         \* history: programs whose message was answered 200

server == <<ssl_client, isAutorization, timer, server_end>>
client == <<phase, slots, client_timer, sent>>
vars == <<server, toServer, toClient, client, presented, accepted>>

\* "off"      not started        "connecting"  in waitForEncrypted
\* "login"    asking for login   "message"     asking for a message
\* "waiting"  in the event loop  "browsing"    another program than qssl_client
\* "leaving"  asking for "exit"  "quitting"    the same, in the constructor
\* "stranded" in the event loop without a connection      "gone"   ended
Phases == {"off", "connecting", "login", "message", "waiting", "browsing",
           "leaving", "quitting", "stranded", "gone"}

\* The client's socket is open: the server has not lost the program
Present(c) == phase[c] \in {"connecting", "login", "message", "waiting", "browsing"}

\* A request: its task, and the pair of a login and a password if it has one
Get(task, pair) == [method |-> "GET", task |-> task, pair |-> pair]

\* A fragment is a first line of which only "GET" has arrived
Logins   == {Get("authorization", pair) : pair \in Pairs}
Message  == Get("message", None)
Fragment == Get("missing", None)
Requests == Logins \cup {Message, Fragment, Get("other", None),
                         [method |-> "POST", task |-> "other", pair |-> None]}

Init ==
    /\ ssl_client     = None
    /\ isAutorization = FALSE
    /\ timer          = None
    /\ server_end     = [c \in Clients |-> "none"]
    /\ toServer       = [c \in Clients |-> <<>>]
    /\ toClient       = [c \in Clients |-> <<>>]
    /\ phase          = [c \in Clients |-> "off"]
    /\ slots          = [c \in Clients |-> 0]
    /\ client_timer   = [c \in Clients |-> FALSE]
    /\ sent           = 0
    /\ presented      = {}
    /\ accepted       = {}

-----------------------------------------------------------------------------
(* The server *)

\* slotClientDisconnected, also the slot of the timer and of every socket:
\* closes the socket of ssl_client, whose own disconnected signal finds it
\* closed.  The structure stays.
Closed(ends) == [ends EXCEPT ![ssl_client] = "closed"]

KeptClient == UNCHANGED isAutorization  \* mutant
\* A new structure: nobody has logged in on it
NewClient == isAutorization' = FALSE

\* The handshake, of up to five seconds, blocks the event loop.  When it or
\* the descriptor fails the new socket is closed, but the structure of the
\* connection before is gone.  The program may have given up meanwhile.
incomingConnection(c) ==
    /\ server_end[c] = "none"
    /\ phase[c] # "off"
    /\ ssl_client' = c
    /\ NewClient
    /\ \/ /\ phase[c] = "connecting"
          /\ server_end' = [server_end EXCEPT ![c] = "open"]
       \/ server_end' = [server_end EXCEPT ![c] = "refused"]
    /\ UNCHANGED <<timer, toServer, toClient, client, presented, accepted>>

\* The answer, and 15 seconds for the next request
Send(c, code) ==
    /\ toClient' = [toClient EXCEPT ![c] = Append(@, code)]
    /\ timer' = c
    /\ UNCHANGED <<ssl_client, server_end>>

MarkNobody == UNCHANGED isAutorization  \* mutant
Mark == isAutorization' = TRUE

Authorize(c, r) ==
    /\ r.method = "GET" /\ ~isAutorization /\ r.task = "authorization"
    /\ r.pair \in users
    /\ Mark
    /\ Send(c, 200)
    /\ UNCHANGED accepted

Refuse(c, r) ==
    /\ r.method = "GET" /\ ~isAutorization /\ r.task = "authorization"
    /\ r.pair \notin users
    /\ Send(c, 401)
    /\ UNCHANGED <<isAutorization, accepted>>

TakeMessage(c, r) ==
    /\ r.method = "GET" /\ isAutorization /\ r.task = "message"
    /\ Send(c, 200)
    /\ accepted' = accepted \cup {c}
    /\ UNCHANGED isAutorization

BadRequest(c, r) ==
    /\ r.method = "GET"
    /\ r.task # IF isAutorization THEN "message" ELSE "authorization"
    /\ Send(c, 400)
    /\ UNCHANGED <<isAutorization, accepted>>

\* tokens[1] of a line with one token, which is undefined: the server finds no
\* task, which is a BadRequest, or it ends.  Then its sockets close, and who has
\* none will be refused.
Undefined(r) ==
    /\ r = Fragment
    /\ timer' = None
    /\ server_end' = [c \in Clients |->
           CASE server_end[c] = "open" -> "closed"
             [] server_end[c] = "none" -> "refused"
             [] OTHER                  -> server_end[c]]
    /\ UNCHANGED <<ssl_client, isAutorization, toClient, accepted>>

\* Nothing but GET is answered
Unanswered(r) ==
    /\ r.method # "GET"
    /\ timer' = None
    /\ UNCHANGED <<ssl_client, isAutorization, server_end, toClient, accepted>>

\* A request of a program that ssl_client no longer holds: the slot stops the
\* timer and reads from the socket of ssl_client, which has nothing to read.
\* The request stays unread.
Overlooked ==
    /\ timer' = None
    /\ UNCHANGED <<ssl_client, isAutorization, server_end, toClient, accepted>>

\* All that has arrived is read, the first line of it looked at
slotReadyRequest(c) ==
    /\ server_end[c] = "open"
    /\ toServer[c] # <<>>
    /\ LET r == Head(toServer[c])
       IN  \/ /\ c = ssl_client
              /\ \/ Authorize(c, r)
                 \/ Refuse(c, r)
                 \/ TakeMessage(c, r)
                 \/ BadRequest(c, r)
                 \/ Undefined(r)
                 \/ Unanswered(r)
           \/ /\ c # ssl_client
              /\ Overlooked
    /\ toServer' = [toServer EXCEPT ![c] = <<>>]
    /\ UNCHANGED <<client, presented>>

\* A program has closed its end: what it sent is read first, then the
\* disconnected signal of its socket closes the socket of ssl_client
HearClose(c) ==
    /\ server_end[c] = "open"
    /\ toServer[c] = <<>>
    /\ ~Present(c)
    /\ server_end' = Closed([server_end EXCEPT ![c] = "closed"])
    /\ UNCHANGED <<ssl_client, isAutorization, timer, toServer, toClient, client,
                   presented, accepted>>

TimerFires ==
    /\ timer # None
    /\ timer' = None
    /\ server_end' = Closed(server_end)
    /\ UNCHANGED <<ssl_client, isAutorization, toServer, toClient, client,
                   presented, accepted>>

-----------------------------------------------------------------------------
(* qssl_client *)

Becomes(c, what) == phase' = [phase EXCEPT ![c] = what]

Start(c) ==
    /\ phase[c] = "off"
    /\ Becomes(c, "connecting")
    /\ UNCHANGED <<server, toServer, toClient, slots, client_timer, sent,
                   presented, accepted>>

\* waitForEncrypted returns true; slotNewConnection asks for the login
HandshakeDone(c) ==
    /\ phase[c] = "connecting"
    /\ server_end[c] \in {"open", "closed"}
    /\ Becomes(c, IF c \in Own THEN "login" ELSE "browsing")
    /\ UNCHANGED <<server, toServer, toClient, slots, client_timer, sent,
                   presented, accepted>>

\* waitForEncrypted returns false, for an error or after five seconds: the
\* constructor calls slotServerDisconnected
HandshakeFailed(c) ==
    /\ phase[c] = "connecting"
    /\ Becomes(c, IF c \in Own THEN "quitting" ELSE "gone")
    /\ UNCHANGED <<server, toServer, toClient, slots, client_timer, sent,
                   presented, accepted>>

StartNever(c) == [client_timer EXCEPT ![c] = FALSE]  \* mutant
\* slotRepeat_Request starts the timer.  When readyRead has called the slot
\* that asked the user, it calls the slot once more for every connection made
\* after the first, and such a call stops the timer and reads nothing.
StartTimer(c) == [client_timer EXCEPT ![c] = slots[c] <= 1]

\* A request goes out; the server reads it if its end is still open
Request(c, r) ==
    /\ sent < MaxRequests
    /\ sent' = sent + 1
    /\ toServer' = [toServer EXCEPT ![c] = Append(@, r)]
    /\ presented' = presented \cup
                        {d \in {c} : r.task = "authorization" /\ r.pair \in users}

ConnectTwice(c) == [slots EXCEPT ![c] = @ + 2]  \* mutant
Connect(c) == [slots EXCEPT ![c] = @ + 1]

\* slotNewConnection once the user has typed a login and a password
slotNewConnection(c) ==
    /\ phase[c] = "login"
    /\ \E login \in Logins : Request(c, login)
    /\ slots' = Connect(c)
    /\ client_timer' = StartTimer(c)
    /\ Becomes(c, "waiting")
    /\ UNCHANGED <<server, toClient, accepted>>

\* SendMessage once the user has typed a message
SendMessage(c) ==
    /\ phase[c] = "message"
    /\ Request(c, Message)
    /\ client_timer' = StartTimer(c)
    /\ Becomes(c, "waiting")
    /\ UNCHANGED <<server, toClient, slots, accepted>>

\* What the codes lead to: a message, the login again, slotServerDisconnected
After(code) == IF code = 200 THEN "message" ELSE IF code = 401 THEN "login" ELSE "leaving"

\* The first line of what has arrived is looked at
slotReadResponce(c) ==
    /\ phase[c] = "waiting"
    /\ toClient[c] # <<>>
    /\ Becomes(c, After(Head(toClient[c])))
    /\ toClient' = [toClient EXCEPT ![c] = <<>>]
    /\ client_timer' = [client_timer EXCEPT ![c] = FALSE]
    /\ UNCHANGED <<server, toServer, slots, sent, presented, accepted>>

\* slotServerDisconnected, by the timer of the client ...
Timeout(c) ==
    /\ phase[c] = "waiting"
    /\ client_timer[c]
    /\ Becomes(c, "leaving")
    /\ UNCHANGED <<server, toServer, toClient, slots, client_timer, sent,
                   presented, accepted>>

\* ... or because the server has closed its end
ServerGone(c) ==
    /\ phase[c] = "waiting"
    /\ server_end[c] \in {"closed", "refused"}
    /\ toClient[c] = <<>>
    /\ Becomes(c, "leaving")
    /\ UNCHANGED <<server, toServer, toClient, slots, client_timer, sent,
                   presented, accepted>>

\* The user types "exit".  QCoreApplication::exit ends a running event loop;
\* in the constructor there is none yet, and main starts it afterwards.
TypeExit(c) ==
    /\ \/ phase[c] = "leaving"   /\ Becomes(c, "gone")
       \/ phase[c] = "quitting" /\ Becomes(c, "stranded")
    /\ UNCHANGED <<server, toServer, toClient, slots, client_timer, sent,
                   presented, accepted>>

\* Any program may be ended at any time
Kill(c) ==
    /\ Present(c)
    /\ Becomes(c, "gone")
    /\ UNCHANGED <<server, toServer, toClient, slots, client_timer, sent,
                   presented, accepted>>

\* Another program takes what answers it has and sends what it likes
Browse(c) ==
    /\ phase[c] = "browsing"
    /\ \E r \in Requests : Request(c, r)
    /\ toClient' = [toClient EXCEPT ![c] = <<>>]
    /\ UNCHANGED <<server, phase, slots, client_timer, accepted>>

Next ==
    \/ TimerFires
    \/ \E c \in Clients :
          \/ incomingConnection(c) \/ slotReadyRequest(c) \/ HearClose(c)
          \/ Start(c) \/ HandshakeDone(c) \/ HandshakeFailed(c)
          \/ slotNewConnection(c) \/ SendMessage(c) \/ slotReadResponce(c)
          \/ Timeout(c) \/ ServerGone(c) \/ TypeExit(c) \/ Kill(c)
          \/ Browse(c)

\* The event loop of qssl_client runs and delivers a timer that has expired.
\* Nothing is assumed of users, of the network or of the server.
Fairness == \A c \in Own : WF_vars(Timeout(c))

Spec == Init /\ [][Next]_vars /\ Fairness

-----------------------------------------------------------------------------
(* Properties *)

\* The types of the variables; slots are connected at most once for every
\* request sent
TypeOK ==
    /\ ssl_client     \in Clients \cup {None}
    /\ isAutorization \in BOOLEAN
    /\ timer          \in Clients \cup {None}
    /\ server_end     \in [Clients -> {"none", "open", "refused", "closed"}]
    /\ toServer       \in [Clients -> Seq(Requests)]
    /\ toClient       \in [Clients -> Seq({200, 400, 401})]
    /\ phase          \in [Clients -> Phases]
    /\ slots          \in [Clients -> 0..sent]
    /\ client_timer   \in [Clients -> BOOLEAN]
    /\ sent           \in 0..MaxRequests
    /\ presented      \subseteq Clients
    /\ accepted       \subseteq Clients

\* A message is answered 200 only to a program that has itself sent a pair of
\* users.txt, although one structure serves all the connections and a slot may
\* run for another socket than the one it reads (incomingConnection,
\* slotReadyRequest).
MessagesAuthorised == accepted \subseteq presented

\* qssl_client is never told "Bad Request", which makes it give up: what it
\* asks for next always fits what the server thinks of it, whatever other
\* programs connect, send and close in between (slotReadResponce, Send).
NeverBadRequest == \A c \in Own :
    \A i \in DOMAIN toClient[c] : toClient[c][i] # 400

\* As long as it has not been refused, and so has connected its slot once,
\* qssl_client waits for no answer for ever, neither to its login nor to its
\* messages, whoever the server listens to by then (slotRepeat_Request).
FirstWaitEnds == \A c \in Own :
    phase[c] = "waiting" /\ slots[c] = 1 ~> phase[c] # "waiting"

\* qssl_client/main.cpp:162 says that the client waits five seconds for the
\* answer and then breaks the connection.  After a refusal slotReadResponce is
\* connected twice, and its second call stops the timer of the next request.
AnswerAwaitedWithTimer == \A c \in Own :
    phase[c] = "waiting" => client_timer[c]

\* qssl_server/main.cpp:241 says that the server waits 15 seconds for an
\* answer of the client and then disconnects it: who is disconnected is the one
\* the timer was started for.  The slot closes the socket that ssl_client holds
\* by then.
SilentClientDisconnected ==
    [][TimerFires => server_end'[timer] # "open"]_vars
=============================================================================
