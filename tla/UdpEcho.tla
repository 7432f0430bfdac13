------------------------------ MODULE UdpEcho ------------------------------
(***************************************************************************)
(* The echo service of lesson1: udp_server, programs udp_client and other  *)
(* programs that send to the same port.                                    *)
(*                                                                         *)
(* Datagrams are lost, overtake each other and come twice.  udp_client     *)
(* opens a socket for every message and never closes one, for its test for *)
(* "N" compares addresses; it waits for the echo without a limit.          *)
(***************************************************************************)
EXTENDS Naturals

CONSTANTS
    Clients,       \* programs udp_client
    Others,        \* other programs, which may send empty datagrams
    Words,         \* what users type, "exit" among them
    MaxSockets,    \* descriptors a client can have for its sockets
    MaxDuplicates  \* bound: datagrams that come twice

ASSUME ProgramsAssumption == Clients \cap Others = {}
ASSUME WordsAssumption    == {"exit", "empty", "unwritten"} \cap Words = {"exit"}
ASSUME BoundsAssumption   == MaxSockets \in Nat /\ MaxDuplicates \in Nat

\* The socket of each round of a client, and the only one of another program
Sockets   == (Clients \X (1..MaxSockets)) \cup (Others \X {0})
Datagrams == [socket : Sockets, text : Words \cup {"empty"}]

VARIABLES
    exitCommand, \* the server has closed its socket
    buffer,      \* the server's, not written at first
    toServer,    \* datagrams on their way
    toClient,    \* echoes on their way
    duplicated,  \* datagrams that have come twice
    lost,        \* sockets of which a datagram or an echo has been lost
    told,        \* what has been sent to the server so far
    phase,       \* what each client is doing, see Phases
    sock,        \* sockets a client has opened
    message,     \* what the user of each client has typed last
    shown        \* the answer to it that the client has shown, if any

server  == <<exitCommand, buffer>>
network == <<toServer, toClient, duplicated, lost, told>>
client  == <<phase, sock, message, shown>>
vars    == <<server, network, client>>

Phases == {"asking", "waiting", "gone"}

Init ==
    /\ exitCommand = FALSE
    /\ buffer      = "unwritten"
    /\ toServer    = {}
    /\ toClient    = {}
    /\ duplicated  = 0
    /\ lost        = {}
    /\ told        = {}
    /\ phase       = [c \in Clients |-> "asking"]
    /\ sock        = [c \in Clients |-> 0]
    /\ message     = [c \in Clients |-> "empty"]
    /\ shown       = [c \in Clients |-> "empty"]

-----------------------------------------------------------------------------
(* udp_server *)

\* Mutant of Echo: what came last is not repeated
EchoUnlessSame(d) == IF d.text \in {"empty", buffer} THEN {} ELSE {d}

\* Mutant of Echo: what is in the buffer is sent even when nothing has come
EchoStale(d) == IF d.text = "empty" THEN {[d EXCEPT !.text = buffer]} ELSE {d}

\* What is sent back, to the address the datagram has come from
Echo(d) == IF d.text = "empty" THEN {} ELSE {d}

\* Mutant of Exits: so does the end of the data, as with a connection
ExitsOnEmpty(d) == d.text \in {"exit", "empty"}

\* The buffer is tested even when nothing has come.  One not written holds
\* anything.
Exits(d) ==
    \/ d.text = "exit"
    \/ d.text = "empty" /\ buffer \in {"exit", "unwritten"}

MayGoOn(d) == d.text = "empty" /\ buffer = "unwritten"

\* One round of the loop, for a datagram that may come again
Serve(d) ==
    /\ ~exitCommand
    /\ d \in toServer
    /\ \/ toServer' = toServer \ {d} /\ UNCHANGED duplicated
       \/ /\ duplicated < MaxDuplicates
          /\ duplicated' = duplicated + 1
          /\ UNCHANGED toServer
    /\ buffer'   = IF d.text = "empty" THEN buffer ELSE d.text
    /\ toClient' = toClient \cup Echo(d)
    /\ \/ Exits(d) /\ exitCommand' = TRUE
       \/ (~Exits(d) \/ MayGoOn(d)) /\ UNCHANGED exitCommand
    /\ UNCHANGED <<lost, told, client>>

-----------------------------------------------------------------------------
(* The network *)

Lose(d) ==
    /\ \/ d \in toServer /\ toServer' = toServer \ {d} /\ UNCHANGED toClient
       \/ d \in toClient /\ toClient' = toClient \ {d} /\ UNCHANGED toServer
    /\ lost' = lost \cup {d.socket}
    /\ UNCHANGED <<server, duplicated, told, client>>

-----------------------------------------------------------------------------
(* udp_client *)

\* Mutant of Socket: one socket serves all rounds
SocketOnce(c) == <<c, 1>>

\* The socket of this round
Socket(c) == <<c, sock[c]>>

\* The user names the port, a socket is opened and what the user types is sent
Say(c, word) ==
    /\ phase[c] = "asking"
    /\ sock[c] < MaxSockets
    /\ sock'     = [sock EXCEPT ![c] = @ + 1]
    /\ message'  = [message EXCEPT ![c] = word]
    /\ shown'    = [shown EXCEPT ![c] = "empty"]
    /\ phase'    = [phase EXCEPT ![c] = "waiting"]
    /\ toServer' = toServer \cup {[socket |-> Socket(c)', text |-> word]}
    /\ told'     = told \cup {word}
    /\ UNCHANGED <<server, toClient, duplicated, lost>>

\* What has come for the socket of this round is shown, and whatever the user
\* answers there is another round
Hear(c, d) ==
    /\ phase[c] = "waiting"
    /\ d \in toClient /\ d.socket = Socket(c)
    /\ \/ toClient' = toClient \ {d} /\ UNCHANGED duplicated
       \/ /\ duplicated < MaxDuplicates
          /\ duplicated' = duplicated + 1
          /\ UNCHANGED toClient
    /\ shown' = [shown EXCEPT ![c] = d.text]
    /\ phase' = [phase EXCEPT ![c] = "asking"]
    /\ UNCHANGED <<server, toServer, lost, told, sock, message>>

\* There are no more descriptors, or the port is not a number, or the user
\* ends the program
Leave(c) ==
    /\ phase[c] # "gone"
    /\ phase' = [phase EXCEPT ![c] = "gone"]
    /\ UNCHANGED <<server, network, sock, message, shown>>

-----------------------------------------------------------------------------
(* Other programs *)

OtherSends(o, text) ==
    /\ toServer' = toServer \cup {[socket |-> <<o, 0>>, text |-> text]}
    /\ told'     = told \cup {text}
    /\ UNCHANGED <<server, toClient, duplicated, lost, client>>

-----------------------------------------------------------------------------

Next ==
    \/ \E d \in toServer : Serve(d)
    \/ \E d \in toServer \cup toClient : Lose(d)
    \/ \E c \in Clients :
          \/ \E word \in Words : Say(c, word)
          \/ \E d \in toClient : Hear(c, d)
          \/ Leave(c)
    \/ \E o \in Others, text \in Words \cup {"empty"} : OtherSends(o, text)

\* What waits in a socket is read in turn
Fairness ==
    \A s \in Sockets :
       /\ WF_vars(\E d \in toServer : d.socket = s /\ Serve(d))
       /\ WF_vars(\E c \in Clients : \E d \in toClient : d.socket = s /\ Hear(c, d))

Spec == Init /\ [][Next]_vars /\ Fairness

-----------------------------------------------------------------------------
(* Properties *)

TypeOK ==
    /\ exitCommand \in BOOLEAN
    /\ buffer \in Words \cup {"unwritten"}
    /\ toServer \subseteq Datagrams
    /\ toClient \subseteq Datagrams
    /\ duplicated \in 0..MaxDuplicates
    /\ lost \subseteq Sockets
    /\ told \subseteq Words \cup {"empty"}
    /\ phase \in [Clients -> Phases]
    /\ sock \in [Clients -> 0..MaxSockets]
    /\ message \in [Clients -> Words \cup {"empty"}]
    /\ shown \in [Clients -> Words \cup {"empty"}]

\* What a client shows as the answer is what its user has typed in this round,
\* however late and however often the echoes of the rounds before come: the
\* socket that is never closed keeps them apart (main of udp_client: socket,
\* recvfrom).
EchoMatches == \A c \in Clients : shown[c] # "empty" => shown[c] = message[c]

\* The server ends only when somebody has sent the word, although it tests its
\* buffer again when nothing has come, unless an empty datagram comes before
\* anything has been written there (main of udp_server: strcmp after recvfrom).
EndsOnExit == exitCommand => "exit" \in told \/ (buffer = "unwritten" /\ "empty" \in told)

\* Nothing but a loss, the end of the server or its own makes a client wait for
\* ever (main of udp_server: the loop; main of udp_client: recvfrom).
EchoArrives == \A c \in Clients :
    phase[c] = "waiting" ~> phase[c] # "waiting" \/ Socket(c) \in lost \/ exitCommand
=============================================================================
