------------------------------- MODULE QtHttp -------------------------------
(***************************************************************************)
(* The service of lesson5: qnet_tcp_server and the programs connected to   *)
(* it, which are qnet_tcp_client and others that speak HTTP.               *)
(*                                                                         *)
(* The server is one Qt event loop with one client_socket, which every     *)
(* connection replaces: all slots read, write and close the newest one.    *)
(* qnet_tcp_client holds one connection it never writes to and makes       *)
(* another for every question.  The questions to its user block its event  *)
(* loop; between them it waits in an event loop nested in the one before.  *)
(***************************************************************************)
EXTENDS Naturals, Sequences

CONSTANTS
    Clients,       \* programs qnet_tcp_client
    Others,        \* other programs, with one connection each
    OtherRequests, \* what those ask for
    None,          \* client_socket before the first connection
    MaxRequests    \* bound: requests sent, in all

ASSUME ProgramsAssumption == Clients \cap Others = {}
ASSUME BoundAssumption    == MaxRequests \in Nat

\* The connections of a client are numbered by its questions; 0 is its socket
Socket(p) == <<p, 0>>
Conn == (Clients \X (0..MaxRequests)) \cup {Socket(o) : o \in Others}
ASSUME NoneAssumption == None \notin Conn

\* What a request asks for: a command, with "command" for an unknown one, or a
\* message; "other" is what is not GET or has another task; "GET" is a first
\* line of which only that word has arrived
Questions == {"exit", "shutdown", "command", "message"}
Requests  == Questions \cup {"other", "GET"}
ASSUME RequestsAssumption == OtherRequests \subseteq Requests

VARIABLES
    running,        \* is the event loop of the server running?
    backlog,        \* connections the server has not taken yet
    client_socket,  \* the newest connection
    server_end,     \* the server's socket for each connection
    closes,         \* delayed closes of "exit" to come
    stops,          \* delayed closes of "shutdown" to come
    quits,          \* delayed calls of quit whose close is done
    asked,          \* requests sent on each connection
    toServer,       \* those of them that the server has not looked at
    told,           \* status codes sent on each connection
    sent,           \* requests sent, for MaxRequests
    phase,          \* what each qnet_tcp_client is doing, see Phases
    client_end,     \* the program's socket for each connection
    questions,      \* questions asked by each client
    replies,        \* the questions whose reply has not finished
    timers          \* the questions whose timer is running

server == <<running, backlog, client_socket, server_end, closes, stops, quits>>
wire   == <<asked, toServer, told, sent>>
client == <<phase, questions, replies, timers>>
vars   == <<server, wire, client, client_end>>

\* "off"     not started          "asking"    waits for its user
\* "waiting" in the event loop    "stranded"  the same, never connected
\* "gone"    ended
Phases == {"off", "asking", "waiting", "stranded", "gone"}

Init ==
    /\ running       = TRUE
    /\ backlog       = <<>>
    /\ client_socket = None
    /\ server_end    = [c \in Conn |-> "none"]
    /\ closes        = 0
    /\ stops         = 0
    /\ quits         = 0
    /\ asked         = [c \in Conn |-> <<>>]
    /\ toServer      = [c \in Conn |-> <<>>]
    /\ told          = [c \in Conn |-> <<>>]
    /\ sent          = 0
    /\ phase         = [p \in Clients |-> "off"]
    /\ client_end    = [c \in Conn |-> "none"]
    /\ questions     = [p \in Clients |-> 0]
    /\ replies       = [p \in Clients |-> {}]
    /\ timers        = [p \in Clients |-> {}]

-----------------------------------------------------------------------------
(* The server *)

slotNewConnection ==
    /\ running /\ backlog # <<>>
    /\ client_socket' = Head(backlog)
    /\ server_end' = [server_end EXCEPT ![Head(backlog)] = "open"]
    /\ backlog' = Tail(backlog)
    /\ UNCHANGED <<running, closes, stops, quits, wire, client, client_end>>

\* Mutant of Closed: the oldest connections are closed with it
ClosedAll(ends) == [c \in Conn |-> IF ends[c] = "open" THEN "closed" ELSE ends[c]]

\* slotClientDisconnected, which is also the slot of every socket
Closed(ends) == [ends EXCEPT ![client_socket] = "closed"]

\* Mutant of Code: one that Send has no case for
CodeUnknown(r) == IF r = "message" THEN 200 ELSE IF r = "command" THEN 404 ELSE 202

\* The status code a question is answered with
Code(r) == IF r = "message" THEN 200 ELSE IF r = "command" THEN 400 ELSE 202

\* Mutant of Send: what is written to is not what was read from
SendStale(c, r) == \E d \in Conn : d # c /\ told' = [told EXCEPT ![d] = Append(@, Code(r))]

\* Mutant of Send: the answer is not written
SendNothing(c, r) == UNCHANGED told

Send(c, r) == told' = [told EXCEPT ![c] = Append(@, Code(r))]

\* Mutant of Exits: the case falls through to the next one
ExitsThrough(r) == r \in {"exit", "shutdown"}

\* The commands that end the server
Exits(r) == r = "shutdown"

\* The first request that has arrived on client_socket
Answer(c, r) ==
    /\ r \in Questions
    /\ Send(c, r)
    /\ closes' = IF r = "exit" THEN closes + 1 ELSE closes
    /\ stops'  = IF Exits(r) THEN stops + 1 ELSE stops
    /\ UNCHANGED <<running, backlog, server_end, quits>>

Unanswered(r) ==
    /\ r = "other"
    /\ UNCHANGED <<running, backlog, server_end, closes, stops, quits, told>>

\* The event loop is left: the sockets close, those waiting are refused
End ==
    /\ running' = FALSE
    /\ server_end' = [c \in Conn |-> IF server_end[c] = "none" THEN "none" ELSE "closed"]
    /\ backlog' = <<>>

\* tokens[1] of a line with one token, which is undefined: the server ends or
\* finds no task
Undefined(r) ==
    /\ r = "GET"
    /\ End \/ UNCHANGED <<running, server_end, backlog>>
    /\ UNCHANGED <<closes, stops, quits, told>>

\* Whatever connection has something to read, client_socket is read, where all
\* that follows the first line is skipped.  When another one has, there is
\* nothing to read, and what has arrived is never looked at.
slotReadClient(c) ==
    /\ running /\ server_end[c] = "open" /\ toServer[c] # <<>>
    /\ \/ /\ c = client_socket
          /\ LET r == Head(toServer[c]) IN Answer(c, r) \/ Unanswered(r) \/ Undefined(r)
       \/ /\ c # client_socket
          /\ UNCHANGED <<running, backlog, server_end, closes, stops, quits, told>>
    /\ toServer' = [toServer EXCEPT ![c] = <<>>]
    /\ UNCHANGED <<client_socket, asked, sent, client, client_end>>

\* A program has closed its end: client_socket is closed
HearClose(c) ==
    /\ running /\ server_end[c] = "open" /\ toServer[c] = <<>>
    /\ client_end[c] = "closed"
    /\ server_end' = Closed([server_end EXCEPT ![c] = "closed"])
    /\ UNCHANGED <<running, backlog, client_socket, closes, stops, quits, wire,
                   client, client_end>>

\* Two seconds after "exit" ...
ExitCloses ==
    /\ running /\ closes > 0
    /\ closes' = closes - 1
    /\ server_end' = Closed(server_end)
    /\ UNCHANGED <<running, backlog, client_socket, stops, quits, wire, client, client_end>>

\* Mutant of QuitFollows: one timer for both slots
QuitFollowsNot == quits

\* The second timer of "shutdown" is still to expire
QuitFollows == quits + 1

\* ... and one after "shutdown", whose quit follows
ShutdownCloses ==
    /\ running /\ stops > 0
    /\ stops' = stops - 1
    /\ quits' = QuitFollows
    /\ server_end' = Closed(server_end)
    /\ UNCHANGED <<running, backlog, client_socket, closes, wire, client, client_end>>

ServerQuits ==
    /\ running /\ quits > 0
    /\ End
    /\ UNCHANGED <<client_socket, closes, stops, quits, wire, client, client_end>>

-----------------------------------------------------------------------------
(* qnet_tcp_client *)

\* A connection is requested; it is refused when the server has ended
Connect(c) ==
    /\ client_end' = [client_end EXCEPT ![c] = "open"]
    /\ backlog'    = IF running THEN Append(backlog, c) ELSE backlog
    /\ server_end' = [server_end EXCEPT ![c] = IF running THEN "queued" ELSE "closed"]
    /\ UNCHANGED <<running, client_socket, closes, stops, quits>>

\* All sockets of a program that ends are closed
Hangup(p) == [c \in Conn |-> IF c[1] = p /\ client_end[c] = "open" THEN "closed"
                             ELSE client_end[c]]

\* The user is asked as soon as the socket is connected; nothing handles the
\* error when it is not
Start(p) ==
    /\ phase[p] = "off"
    /\ Connect(Socket(p))
    /\ phase' = [phase EXCEPT ![p] = IF running THEN "asking" ELSE "stranded"]
    /\ UNCHANGED <<wire, questions, replies, timers>>

\* A request goes out on a connection
Request(c, r) ==
    /\ sent < MaxRequests
    /\ sent'     = sent + 1
    /\ asked'    = [asked EXCEPT ![c] = Append(@, r)]
    /\ toServer' = [toServer EXCEPT ![c] = Append(@, r)]
    /\ UNCHANGED told

\* Mutant of NewTimer: start is not reached
NewTimerNot(p) == timers[p]

\* Each question has a timer of its own, which timer points to from now on
NewTimer(p) == timers[p] \cup {questions[p] + 1}

\* Client::slotNewConnection once its user has typed a command or a message
Ask(p, r) ==
    /\ phase[p] = "asking"
    /\ Request(<<p, questions[p] + 1>>, r)
    /\ Connect(<<p, questions[p] + 1>>)
    /\ questions' = [questions EXCEPT ![p] = @ + 1]
    /\ replies'   = [replies EXCEPT ![p] = @ \cup {questions[p] + 1}]
    /\ timers'    = [timers EXCEPT ![p] = NewTimer(p)]
    /\ phase'     = [phase EXCEPT ![p] = "waiting"]

\* The program ends, and with it its sockets, replies and timers
Quit(p) ==
    /\ phase'      = [phase EXCEPT ![p] = "gone"]
    /\ client_end' = Hangup(p)
    /\ replies'    = [replies EXCEPT ![p] = {}]
    /\ timers'     = [timers EXCEPT ![p] = {}]
    /\ UNCHANGED <<server, wire, questions>>

\* Mutant of isValid: the socket is not looked at
isValidAlways(p) == TRUE

isValid(p) == client_end[Socket(p)] = "open"

\* The next question is asked, with what replies and timers are left, if the
\* socket is still valid
AskOrQuit(p, waited, running_timers) ==
    \/ /\ isValid(p)
       /\ phase'   = [phase EXCEPT ![p] = "asking"]
       /\ replies' = [replies EXCEPT ![p] = waited]
       /\ timers'  = [timers EXCEPT ![p] = running_timers]
       /\ UNCHANGED <<server, wire, questions, client_end>>
    \/ /\ ~isValid(p)
       /\ Quit(p)

\* Mutant of Stopped: the timer of the question that was answered is stopped
StoppedOwn(p, n) == timers[p] \ {n}

\* timer points to the timer of the last question, whichever is answered
Stopped(p, n) == timers[p] \ {questions[p]}

\* A reply without an error, perhaps to a question before the last
OnResponse(p, n) ==
    /\ phase[p] = "waiting" /\ n \in replies[p]
    /\ told[<<p, n>>] # <<>> /\ Head(told[<<p, n>>]) # 400
    /\ AskOrQuit(p, replies[p] \ {n}, Stopped(p, n))

\* A reply with an error, which a status of 400 is too.  The timer goes on.
ReplyFails(p, n) ==
    /\ phase[p] = "waiting" /\ n \in replies[p]
    /\ IF told[<<p, n>>] # <<>> THEN Head(told[<<p, n>>]) = 400
                                ELSE server_end[<<p, n>>] = "closed"
    /\ replies' = [replies EXCEPT ![p] = @ \ {n}]
    /\ UNCHANGED <<server, wire, phase, questions, timers, client_end>>

slotTimeoutWaiting(p) ==
    /\ phase[p] = "waiting"
    /\ \E n \in timers[p] : AskOrQuit(p, replies[p], timers[p] \ {n})

slotServerDisconnected(p) ==
    /\ phase[p] = "waiting"
    /\ client_end[Socket(p)] = "open" /\ server_end[Socket(p)] = "closed"
    /\ client_end' = [client_end EXCEPT ![Socket(p)] = "closed"]
    /\ UNCHANGED <<server, wire, client>>

\* The user types 3, or ends the program at any time
Leave(p) ==
    /\ phase[p] \in {"asking", "waiting", "stranded"}
    /\ Quit(p)

-----------------------------------------------------------------------------
(* Other programs *)

OtherConnects(o) ==
    /\ client_end[Socket(o)] = "none" /\ running
    /\ Connect(Socket(o))
    /\ UNCHANGED <<wire, client>>

OtherAsks(o, r) ==
    /\ client_end[Socket(o)] = "open"
    /\ Request(Socket(o), r)
    /\ UNCHANGED <<server, client, client_end>>

OtherLeaves(o) ==
    /\ client_end[Socket(o)] = "open"
    /\ client_end' = Hangup(o)
    /\ UNCHANGED <<server, wire, client>>

-----------------------------------------------------------------------------

Next ==
    \/ slotNewConnection \/ ExitCloses \/ ShutdownCloses \/ ServerQuits
    \/ \E c \in Conn : slotReadClient(c) \/ HearClose(c)
    \/ \E p \in Clients :
          \/ Start(p) \/ slotTimeoutWaiting(p) \/ slotServerDisconnected(p) \/ Leave(p)
          \/ \E r \in Questions : Ask(p, r)
          \/ \E n \in 1..MaxRequests : OnResponse(p, n) \/ ReplyFails(p, n)
    \/ \E o \in Others :
          \/ OtherConnects(o) \/ OtherLeaves(o)
          \/ \E r \in OtherRequests : OtherAsks(o, r)

\* The event loops run and deliver the timers that have expired.  Nothing is
\* assumed of users and of the network.
Fairness ==
    /\ WF_vars(ShutdownCloses) /\ WF_vars(ServerQuits)
    /\ \A p \in Clients : WF_vars(slotTimeoutWaiting(p))

Spec == Init /\ [][Next]_vars /\ Fairness

-----------------------------------------------------------------------------
(* Properties *)

TypeOK ==
    /\ running \in BOOLEAN
    /\ backlog \in Seq(Conn)
    /\ client_socket \in Conn \cup {None}
    /\ server_end \in [Conn -> {"none", "queued", "open", "closed"}]
    /\ closes \in Nat /\ stops \in Nat /\ quits \in Nat
    /\ asked \in [Conn -> Seq(Requests)]
    /\ toServer \in [Conn -> Seq(Requests)]
    /\ told \in [Conn -> Seq({200, 202, 400})]
    /\ phase \in [Clients -> Phases]
    /\ client_end \in [Conn -> {"none", "open", "closed"}]
    /\ sent \in 0..MaxRequests
    /\ questions \in [Clients -> 0..sent]
    /\ replies \in [Clients -> SUBSET (1..MaxRequests)]
    /\ timers \in [Clients -> SUBSET (1..MaxRequests)]

\* An answer goes to a connection that has asked for it, once for a request at
\* most, although the slot does not look at which connection has something to
\* read (slotReadClient, Send).
AnswersOwn == \A c \in Conn :
    /\ Len(told[c]) <= Len(asked[c])
    /\ \A i \in 1..Len(told[c]) : \E j \in 1..Len(asked[c]) :
          asked[c][j] \in Questions /\ told[c][i] = Code(asked[c][j])

\* A question that the server has read and not answered is one whose
\* connection a newer one had replaced (slotNewConnection, slotReadClient).
UnansweredOvertaken == \A p \in Clients : \A n \in 1..questions[p] :
    toServer[<<p, n>>] = <<>> /\ told[<<p, n>>] = <<>> => client_socket # <<p, n>>

\* While a client waits, the timer of its last question runs and no other
\* does, although a late reply stops the timer of another question than its own
\* and one with an error stops none (OnResponse, slotTimeoutWaiting).
WaitsWithTimer == \A p \in Clients :
    timers[p] = IF phase[p] = "waiting" THEN {questions[p]} ELSE {}

\* A connection has asked to be closed, or the server to end
Disconnects(c) == \E j \in 1..Len(asked[c]) : asked[c][j] \in {"exit", "shutdown"}

\* A connection that is no longer the newest, and has not asked for it, is cut
\* off by nobody's "exit" or "shutdown" and by no program that leaves
\* (slotClientDisconnected).
OvertakenNotCut ==
    [][\A c \in Conn : /\ server_end[c] = "open" /\ client_end[c] = "open"
                      /\ c # client_socket /\ ~Disconnects(c)
          => server_end'[c] = "open" \/ ~running']_vars

\* qnet_tcp_server/main.cpp:47 says that "exit" disconnects from the server: the
\* close that follows it closes the connection of a program that has asked for
\* it.  The slot closes the socket that client_socket holds two seconds later.
ExitDisconnectsAsker ==
    [][\A c \in Conn : /\ closes' < closes
                      /\ server_end[c] = "open" /\ server_end'[c] = "closed"
          => Disconnects(c)]_vars

\* The server ends only after a program has asked for it, and has been told so,
\* or after a fragment of a request line (slotReadClient).
EndsOnCommand == running \/ \E c \in Conn : \E j \in 1..Len(asked[c]) :
    \/ asked[c][j] = "GET"
    \/ asked[c][j] = "shutdown" /\ \E i \in 1..Len(told[c]) : told[c][i] = 202

\* A shutdown that has been accepted ends the server, whatever is connected or
\* asked in the two seconds that follow (singleShot in slotReadClient).
ShutdownEnds == stops > 0 ~> ~running

\* A client does not wait for ever (slotTimeoutWaiting) ...
WaitEnds == \A p \in Clients : phase[p] = "waiting" ~> phase[p] # "waiting"

\* ... and one that has lost its connection is not asked again (AskOrQuit).
LostQuits == \A p \in Clients :
    phase[p] = "waiting" /\ client_end[Socket(p)] = "closed" ~> phase[p] = "gone"
=============================================================================
