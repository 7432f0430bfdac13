------------------------------ MODULE MtServer ------------------------------
(***************************************************************************)
(* The file server of lesson4, mt_server, and its clients.                 *)
(*                                                                         *)
(* The main thread accepts connections and gives each to a task of its own *)
(* (std::async).  After every accept it walks once over the list of tasks  *)
(* and collects those that have ended; an exception of a task comes out of *)
(* get() in the main thread.  A task reads a request, resolves it to a     *)
(* file and sends the file in buffers.  Nothing closes a client's socket.  *)
(***************************************************************************)
EXTENDS Naturals, Sequences, FiniteSets, SequencesExt

CONSTANTS
    Clients,       \* programs that connect, each of them once
    Chars,         \* characters of a request
    LineEnd,       \* '\n' or '\r'
    Requests,      \* what a client may send: sequences of Chars
    Files,         \* requests that name a file of the server's directory
    Refused,       \* requests on which the file system library throws, as
                   \* for a name that is too long
    Bytes,         \* bytes of files
    Zero,          \* the byte of a new buffer
    content,       \* what each of the files holds
    buffer_size,   \* 4096 in the code
    MAX_PATH,      \* 256 in the code
    MaxDescriptors \* what the system grants the process for sockets and files

ASSUME ClientsAssumption == IsFiniteSet(Clients)
ASSUME RequestAssumption ==
    /\ Requests \subseteq Seq(Chars)
    /\ Files \subseteq Seq(Chars \ {LineEnd}) \ {<<>>}
    /\ Refused \cap Files = {}
    /\ <<>> \notin Refused
ASSUME ContentAssumption ==
    /\ content \in [Files -> Seq(Bytes)]
    /\ Zero \in Bytes
ASSUME SizeAssumption ==
    /\ buffer_size \in Nat \ {0}
    /\ MAX_PATH \in Nat \ {0}
    /\ MaxDescriptors \in Nat

VARIABLES
    main,          \* what the main thread is doing, see Mains
    client_sock,   \* the client whose socket the last accept returned
    pending_tasks, \* clients whose tasks are in the list
    cursor,        \* the loop variable task, as an index
    separ,         \* how the four bytes read for the separator turned out
    backlog,       \* connections that wait for accept
    peer,          \* what each client has done to its connection
    inbox,         \* bytes of the client that are not received yet
    asked,         \* history: the request the client has sent
    task,          \* what each client's task is doing, see Phases
    sock,          \* the client whose socket the task holds, itself before
    request,       \* what get_request returned
    stream,        \* file stream and buffer of the task
    wire           \* bytes sent to each client

mains == <<main, client_sock, pending_tasks, cursor, separ>>
peers == <<backlog, peer, inbox, asked>>
tasks == <<task, sock, request, stream, wire>>
vars  == <<mains, peers, tasks>>

\* "accept"    about to call it      "accepting"  blocked in it, with its
\* "cleaning"  in the loop over            descriptor already allocated
\*             pending_tasks         "unwinding"  in the list's destructor
\* "exited"    has returned          "terminated" assert or std::terminate
Mains == {"accept", "accepting", "cleaning", "unwinding", "exited", "terminated"}

\* The process is there, and with it the threads of the tasks
Alive == main \notin {"exited", "terminated"}

\* How process() of a task can end: it returns, after three outcomes that it
\* reports, or it leaves with an exception
Returned == {"empty", "sent", "not sent"}
Thrown   == {"logic_error", "filesystem_error"}
Phases   == {"none", "get_request", "send_file", "read", "send_buffer"}
                \cup Returned \cup Thrown

\* The future of the task is ready
Ready(t) == task[t] \in Returned \cup Thrown

Separators == {"slash", "other", "unconvertible"}

\* The task's stream and buffer when no file is open
NoStream == [position |-> 0, eof |-> FALSE, buffer |-> <<>>, transmitted |-> 0]

Streams == [position : Nat, eof : BOOLEAN, buffer : Seq(Bytes), transmitted : 0..buffer_size]

Streaming(t) == task[t] \in {"read", "send_buffer"}

\* Descriptors in use: a socket for every client ever accepted, since none is
\* closed, the open files, and the one a blocked accept holds
Descriptors ==
    Cardinality({t \in Clients : task[t] # "none"})
        + Cardinality({t \in Clients : Streaming(t)})
        + (IF main = "accepting" THEN 1 ELSE 0)

Init ==
    /\ main          = "accept"
    /\ client_sock \in Clients   \* not initialised
    /\ pending_tasks = <<>>
    /\ cursor        = 1
    /\ separ \in Separators
    /\ backlog       = <<>>
    /\ peer          = [c \in Clients |-> "away"]
    /\ inbox         = [c \in Clients |-> <<>>]
    /\ asked         = [c \in Clients |-> <<>>]
    /\ task          = [c \in Clients |-> "none"]
    /\ sock          = [c \in Clients |-> c]
    /\ request       = [c \in Clients |-> <<>>]
    /\ stream        = [c \in Clients |-> NoStream]
    /\ wire          = [c \in Clients |-> <<>>]

-----------------------------------------------------------------------------
(* Clients *)

Connect(c) ==
    /\ Alive /\ peer[c] = "away"
    /\ peer'    = [peer EXCEPT ![c] = "connected"]
    /\ backlog' = Append(backlog, c)
    /\ UNCHANGED <<inbox, asked, mains, tasks>>

Ask(c) ==
    /\ Alive /\ peer[c] = "connected" /\ asked[c] = <<>>
    /\ \E r \in Requests :
          /\ asked' = [asked EXCEPT ![c] = r]
          /\ inbox' = [inbox EXCEPT ![c] = r]
    /\ UNCHANGED <<peer, backlog, mains, tasks>>

\* The client closes its end, in order or with a reset
Hangup(c) ==
    /\ Alive /\ peer[c] = "connected"
    /\ \E how \in {"closed", "reset"} : peer' = [peer EXCEPT ![c] = how]
    /\ UNCHANGED <<backlog, inbox, asked, mains, tasks>>

-----------------------------------------------------------------------------
(* Main thread *)

\* accept allocates the new descriptor before it waits for a connection
StartAccept ==
    /\ main = "accept" /\ Descriptors < MaxDescriptors
    /\ main' = "accepting"
    /\ UNCHANGED <<client_sock, pending_tasks, cursor, separ, peers, tasks>>

\* With no descriptor left accept returns -1, which is not the 0 that the code
\* compares with; the length of the address is then not what is asserted
AcceptFails ==
    /\ main = "accept" /\ Descriptors >= MaxDescriptors
    /\ main' = "terminated"
    /\ UNCHANGED <<client_sock, pending_tasks, cursor, separ, peers, tasks>>

\* Mutant of Begin: an index that is none
BeginBefore == 0

\* Mutant of Begin: the loop skips the first task
BeginSecond == 2

\* The index the loop over pending_tasks begins with
Begin == 1

accept_client ==
    /\ main = "accepting" /\ backlog # <<>>
    /\ LET c == Head(backlog) IN
          /\ client_sock'   = c
          /\ pending_tasks' = Append(pending_tasks, c)
          /\ task' = [task EXCEPT ![c] = "get_request"]
          /\ sock' = [sock EXCEPT ![c] = c]
    /\ backlog' = Tail(backlog)
    /\ cursor'  = Begin
    /\ main'    = "cleaning"
    /\ UNCHANGED <<separ, peer, inbox, asked, request, stream, wire>>

\* pending_tasks.erase(fu), where fu is the task the loop looks at
Erase(list, fu) == RemoveAt(list, fu)

\* get() of a task that has returned, which is taken from the list
Collect ==
    /\ main = "cleaning" /\ cursor <= Len(pending_tasks)
    /\ task[pending_tasks[cursor]] \in Returned
    /\ pending_tasks' = Erase(pending_tasks, cursor)
    /\ UNCHANGED <<main, client_sock, cursor, separ, peers, tasks>>

\* wait_for(1ms) ends without the task
PassBy ==
    /\ main = "cleaning" /\ cursor <= Len(pending_tasks)
    /\ ~ Ready(pending_tasks[cursor])
    /\ cursor' = cursor + 1
    /\ UNCHANGED <<main, client_sock, pending_tasks, separ, peers, tasks>>

\* get() of a task that has thrown: main catches a logic_error, once the list
\* is destroyed; nothing catches a filesystem_error
Rethrow ==
    /\ main = "cleaning" /\ cursor <= Len(pending_tasks)
    /\ \/ task[pending_tasks[cursor]] = "logic_error" /\ main' = "unwinding"
       \/ task[pending_tasks[cursor]] = "filesystem_error" /\ main' = "terminated"
    /\ UNCHANGED <<client_sock, pending_tasks, cursor, separ, peers, tasks>>

EndOfList ==
    /\ main = "cleaning" /\ cursor > Len(pending_tasks)
    /\ main' = "accept"
    /\ UNCHANGED <<client_sock, pending_tasks, cursor, separ, peers, tasks>>

\* Mutant of Awaited: futures of other origin, whose destructors do not wait
AwaitedNever(t) == TRUE

\* Mutant of Awaited: the destructor waits for a result
AwaitedResult(t) == task[t] \in Returned

\* The destructor of a future of std::async waits for its task
Awaited(t) == Ready(t)

Exit ==
    /\ main = "unwinding"
    /\ \A i \in 1..Len(pending_tasks) : Awaited(pending_tasks[i])
    /\ main' = "exited"
    /\ UNCHANGED <<client_sock, pending_tasks, cursor, separ, peers, tasks>>

Main == \/ StartAccept \/ AcceptFails \/ accept_client \/ Collect
        \/ PassBy \/ Rethrow \/ EndOfList \/ Exit

-----------------------------------------------------------------------------
(* Tasks *)

\* Mutant of Socket: the task uses the variable that the lambda has captured
\* by reference
SocketCaptured(t) == client_sock

\* The socket the task works with: std::async has copied it
Socket(t) == sock[t]

\* The places of a fragment that are before every end of line
BeforeLineEnd(fragment) ==
    {n \in 1..Len(fragment) : \A i \in 1..n : fragment[i] # LineEnd}

\* A fragment up to the first end of line
Line(fragment) == SubSeq(fragment, 1, Cardinality(BeforeLineEnd(fragment)))

\* recv has data.  The search for the end of line is compared with the end of
\* the whole buffer, which no fragment reaches: the first fragment, of any
\* length, is the request.
Receive(t) ==
    /\ task[t] = "get_request"
    /\ \E n \in 1..Len(inbox[Socket(t)]) :
          /\ n <= MAX_PATH
          /\ LET line == Line(SubSeq(inbox[Socket(t)], 1, n)) IN
                /\ request' = [request EXCEPT ![t] = line]
                /\ task' = [task EXCEPT ![t] = IF line = <<>> THEN "empty" ELSE "send_file"]
          /\ inbox' = [inbox EXCEPT ![Socket(t)] = SubSeq(@, n + 1, Len(@))]
    /\ UNCHANGED <<mains, backlog, peer, asked, sock, stream, wire>>

\* Mutant of AfterHangup: the end of the stream is an error, too
AfterHangupError(how) == "logic_error"

\* What get_request makes of a connection that the peer has ended: recv
\* returns 0 after a close, -1 after a reset
AfterHangup(how) == IF how = "closed" THEN "empty" ELSE "logic_error"

\* A reset may take effect before the data that came in earlier is received
ReceiveNothing(t) ==
    /\ task[t] = "get_request"
    /\ \/ peer[Socket(t)] = "closed" /\ inbox[Socket(t)] = <<>>
       \/ peer[Socket(t)] = "reset"
    /\ task' = [task EXCEPT ![t] = AfterHangup(peer[Socket(t)])]
    /\ UNCHANGED <<mains, peers, sock, request, stream, wire>>

\* recv_file_path or send_file throws
Throw(t) ==
    /\ task[t] = "send_file"
    /\ request[t] \in Refused \/ separ = "unconvertible"
    /\ task' = [task EXCEPT ![t] = "filesystem_error"]
    /\ UNCHANGED <<mains, peers, sock, request, stream, wire>>

\* The path is that of a file
Found(t) == request[t] \in Files /\ separ = "slash"

\* No such file, or no descriptor to open it with
Fail(t) ==
    /\ task[t] = "send_file"
    /\ request[t] \notin Refused /\ separ # "unconvertible"
    /\ ~ Found(t) \/ Descriptors >= MaxDescriptors
    /\ task' = [task EXCEPT ![t] = "not sent"]
    /\ UNCHANGED <<mains, peers, sock, request, stream, wire>>

\* The stream is at the end, from where the size was read, and goes back to
\* the beginning only if the file is longer than the buffer
StartPosition(size) == IF size > buffer_size THEN 0 ELSE size

Open(t) ==
    /\ task[t] = "send_file" /\ Found(t) /\ Descriptors < MaxDescriptors
    /\ stream' = [stream EXCEPT ![t].position = StartPosition(Len(content[request[t]]))]
    /\ task'   = [task EXCEPT ![t] = "read"]
    /\ UNCHANGED <<mains, peers, sock, request, wire>>

\* read() into a buffer of zeros, of what the file has from a position on
Filled(file, position) ==
    [i \in 1..buffer_size |-> IF position + i <= Len(content[file])
                              THEN content[file][position + i] ELSE Zero]

\* Bytes that read() gets there
gcount(file, position) ==
    IF position + buffer_size <= Len(content[file])
    THEN buffer_size ELSE Len(content[file]) - position

\* A read that gets less than a buffer sets eof, and fails
Read(t) ==
    /\ task[t] = "read"
    /\ LET position == stream[t].position
           count    == gcount(request[t], position)
       IN stream' = [stream EXCEPT ![t] =
                        [position |-> position + count, eof |-> count < buffer_size,
                         buffer |-> Filled(request[t], position), transmitted |-> 0]]
    /\ task' = [task EXCEPT ![t] = "send_buffer"]
    /\ UNCHANGED <<mains, peers, sock, request, wire>>

\* One call of send() takes some of what is left of the buffer
Send(t) ==
    /\ task[t] = "send_buffer" /\ stream[t].transmitted < buffer_size
    /\ \E n \in 1..(buffer_size - stream[t].transmitted) :
          /\ wire' = [wire EXCEPT ![Socket(t)] =
                @ \o SubSeq(stream[t].buffer, stream[t].transmitted + 1,
                            stream[t].transmitted + n)]
          /\ stream' = [stream EXCEPT ![t].transmitted = @ + n]
    /\ UNCHANGED <<mains, peers, task, sock, request>>

\* send() may fail once the client has ended its connection
SendFails(t) ==
    /\ task[t] = "send_buffer" /\ stream[t].transmitted < buffer_size
    /\ peer[Socket(t)] # "connected"
    /\ task'   = [task EXCEPT ![t] = "not sent"]
    /\ stream' = [stream EXCEPT ![t] = NoStream]
    /\ UNCHANGED <<mains, peers, sock, request, wire>>

\* Mutant of ReadOn: compares positions, so that an exact multiple ends early
ReadOnByPosition(t) == stream[t].position < Len(content[request[t]])

\* Is there another buffer to read after this one?
ReadOn(t) == ~ stream[t].eof

EndOfBuffer(t) ==
    /\ task[t] = "send_buffer" /\ stream[t].transmitted = buffer_size
    /\ \/ /\ ReadOn(t)
          /\ task' = [task EXCEPT ![t] = "read"]
          /\ UNCHANGED stream
       \/ /\ ~ ReadOn(t)
          /\ task'   = [task EXCEPT ![t] = "sent"]
          /\ stream' = [stream EXCEPT ![t] = NoStream]
    /\ UNCHANGED <<mains, peers, sock, request, wire>>

\* What a task does without waiting for the other end
Works(t) == \/ Receive(t) \/ ReceiveNothing(t) \/ Throw(t) \/ Fail(t)
            \/ Open(t) \/ Read(t) \/ EndOfBuffer(t)

Task(t) == Alive /\ (Works(t) \/ Send(t) \/ SendFails(t))

-----------------------------------------------------------------------------

Next == \/ Main
        \/ \E c \in Clients : Connect(c) \/ Ask(c) \/ Hangup(c) \/ Task(c)

\* The system runs all threads; whether a client ever sends, receives or
\* closes is up to the client
Fairness == /\ WF_vars(Main)
            /\ \A t \in Clients : WF_vars(Alive /\ Works(t))

Spec == Init /\ [][Next]_vars /\ Fairness

-----------------------------------------------------------------------------
(* Properties *)

TypeOK ==
    /\ main \in Mains
    /\ client_sock \in Clients
    /\ pending_tasks \in Seq(Clients)
    /\ cursor \in Nat \ {0}
    /\ separ \in Separators
    /\ backlog \in Seq(Clients)
    /\ peer \in [Clients -> {"away", "connected", "closed", "reset"}]
    /\ inbox \in [Clients -> Seq(Chars)]
    /\ asked \in [Clients -> Seq(Chars)]
    /\ task \in [Clients -> Phases]
    /\ sock \in [Clients -> Clients]
    /\ request \in [Clients -> Seq(Chars)]
    /\ stream \in [Clients -> Streams]
    /\ wire \in [Clients -> Seq(Bytes)]

\* The answer to a request for a file, as a function of the place of a byte:
\* the file, if it is longer than a buffer, and zeros
AnswerByte(file, i) ==
    IF buffer_size < Len(content[file]) /\ i <= Len(content[file])
    THEN content[file][i] ELSE Zero

\* Its length: one buffer more than the file has whole ones, and a single one
\* for a file that is not longer than it
AnswerLength(file) ==
    IF buffer_size < Len(content[file])
    THEN (Len(content[file]) \div buffer_size + 1) * buffer_size
    ELSE buffer_size

\* Whatever the tasks do at the same time, a client gets bytes of one answer,
\* in order, and the file is the one that a first part of its own request
\* names (main.cpp:160-210, 212-250, 441-452).
OwnAnswer ==
    \A c \in Clients : wire[c] # <<>> =>
        \E n \in 1..Len(asked[c]) :
            LET file == Line(SubSeq(asked[c], 1, n)) IN
                /\ n <= MAX_PATH
                /\ file \in Files
                /\ \A i \in 1..Len(wire[c]) : wire[c][i] = AnswerByte(file, i)

\* When a task says that a file was sent which is longer than a buffer, all of
\* it has been sent, from its first byte to its last, and then only the zeros
\* that fill the last buffer, one buffer more than the file has whole ones
\* (main.cpp:165-195, 322-325).  Of a shorter file nothing is sent: FileWasSent.
SentInFull ==
    \A t \in Clients : task[t] = "sent" /\ buffer_size < Len(content[request[t]]) =>
        /\ IsPrefix(content[request[t]], wire[t])
        /\ Len(wire[t]) = AnswerLength(request[t])

\* The server ends only over a connection that was reset, a name the file
\* system library throws on or a separator it cannot convert, or after as many
\* clients as use up the descriptors, with a socket and an open file each.  A
\* client that just leaves does not end it (main.cpp:117-124, 223-229, 461).
EndsForCause ==
    main \in {"unwinding", "exited", "terminated"} =>
        \/ \E c \in Clients : peer[c] = "reset"
        \/ \E t \in Clients : request[t] \in Refused
        \/ separ = "unconvertible"
        \/ 2 * Cardinality({t \in Clients : task[t] # "none"}) >= MaxDescriptors

\* main does not return while the thread of a task runs: every one of them is
\* in the list, whose destructor waits (main.cpp:441, 457-463).
NoTaskOutlivesMain ==
    main = "exited" => \A t \in Clients : task[t] = "none" \/ Ready(t)

\* A task that has ended is collected once another client connects, unless the
\* server ends (main.cpp:432-466).
EndedTasksCollected ==
    \A t \in Clients :
        (Ready(t) /\ backlog # <<>>) ~>
            (\/ t \notin Range(pending_tasks)
             \/ main \in {"unwinding", "exited", "terminated"})

\* A task that waits for its client: for the request or to send more
WaitsForClient(t) ==
    \/ task[t] = "get_request" /\ peer[Socket(t)] = "connected" /\ inbox[Socket(t)] = <<>>
    \/ task[t] = "send_buffer"

\* Once an error of one client ends the server, only another client can keep
\* it from returning: one that a task waits for (main.cpp:418, 461, 475-482).
UnwindingEnds ==
    main = "unwinding" ~> (main = "exited" \/ \E t \in Clients : WaitsForClient(t))

\* "File was sent." means that the client was sent the file (main.cpp:324)
FileWasSent ==
    \A t \in Clients : task[t] = "sent" => IsPrefix(content[request[t]], wire[t])

=============================================================================
