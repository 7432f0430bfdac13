# Verification of the network programs

The repository holds the programs of eight lessons on network programming:
chats, HTTP-like services, file servers and packet tools, in C++ with sockets,
Boost.Asio, Qt and pcap. This directory holds TLA+ models of them, TLC
configurations that check the models on small instances, and TLAPS proofs for
every value of the constants.

    tlc -workers 2 -config F2fRoster.cfg MCF2fChat.tla      # one run
    tlapm F2fChatProofs.tla                                 # one proof module

`PROJECT.json` lists components, runs, hazards, theorems and, under `map`, the
source lines every definition stands for.

## Inventory

| Component | State | Operations | Talks to |
|---|---|---|---|
| **f2f_chat** `ChatNetwork` (lesson8) | nick, id (time of day), `vecUser`, `listUsers` | enter, exit, AddUser, slotDisconnected, slotReadMessages | other peers, UDP broadcast and unicast; signals to the window |
| **f2f_chat** `MainWindow` | contact list, message pane, `mychat` | enter, exit, send to one or all, close | its ChatNetwork |
| **qssl_server** (lesson6) | one `ssl_client` with its flag, one timer, users | incomingConnection, slotReadyRequest, Send, slotClientDisconnected | its clients, HTTP over TLS |
| **qssl_client** | request, timer, connected slots | ask login, ask message, read answer, time out, leave | the server, its user on stdin |
| **qnet_tcp_server** (lesson5) | one `client_socket`, delayed closes | slotNewConnection, slotReadClient, Send, slotClientDisconnected | its clients, HTTP |
| **qnet_tcp_client** | socket, timer, nested event loops | ask, send, OnResponse, time out | the server, its user |
| **mt_server** (lesson4) | listening socket, list of futures, descriptors | accept, run a task, reap tasks, send a file in chunks | clients over TCP, files |
| **asio_server** (lesson4) | acceptor, connections kept by shared_ptr | start_accept, handle_accept, start, handle_write | clients over TCP |
| **broadcast_server** (lesson3) | one buffer for all requests | accept, receive once, send a file or the request back, twice | clients over TCP, files |
| **tcp_client** (lesson3) | non-blocking socket | send a line, sleep, read | the server, its user, files |
| **udp_server / udp_client** (lesson1) | one buffer, last host name / sockets | echo, exit / send, await echo, ask | each other over UDP |
| **libhttpserver_server / libcurl_client** (lesson7) | users file / answer buffer | authorise, message / the same in order | each other over HTTP |
| **pcap_sniffer** (lesson2) | capture handle, packet counter | start up, got_packet, print_payload | pcap, terminal |
| **PcapPlPl_snifer** (lesson2) | captured packets | record, save, resend | PcapPlusPlus, a file |

What is hard in them, and what correctness means there:

- *f2f_chat*: datagrams are lost, delayed and reordered, a burst is drained to
  its last member, vectors are changed inside loops over them, and three
  parallel lists (`vecUser`, `listUsers`, the window) are kept in step by
  separate code. Correct means: a row names the peer a message for it goes to,
  a roster holds only announced users, a bye removes only its own id.
- *qssl, qnet*: one pointer is shared by all connections, so the slots of an
  older socket act on the newest; timers outlive what they were started for.
  Correct means: nobody is served on the login of another, a client is never
  told something that does not fit what it did, waiting ends.
- *mt_server*: tasks run concurrently with the accept loop, which alone reaps
  them; descriptors are never closed; chunks and short reads. Correct means:
  the file arrives whole, one client cannot end the server, resources return.
- *lesson3, lesson1, lesson7, lesson2*: sequential programs whose hazards are
  stale buffers, boundaries and partial failure.

All hazards are in `PROJECT.json`, each at the line where it bites, with the
properties about it, or a note why there is none.
Vendored libraries (PcapPlusPlus, the npcap SDK) and build output are not part
of the project.

## Modules

### F2fChat

One module for network object and window, since every handler of one calls the
other. Per peer: the window's `phase`, the fields of ChatNetwork, the rows of
the contact list (`contacts`), the received messages (`shown`) and the datagrams
on their way to it (`flight`). Actions are the slots: `Enter`,
`slotReadMessages` (which dispatches to `AddUser`, `slotDisconnected`,
`ShowText`), `SendPersonal`, `SendToAll`, `ExitChat`, `CloseWindow`.

- A packet is the sequence of its sections between slashes; a nick or a text
  with a slash is several sections, which is how the shift of sections that the
  code does not guard against is in the model.
- `flight` is a set: datagrams overtake each other, and one that is never taken
  is a lost one. Duplication by the network is not modelled, nor two equal
  datagrams of one sender at once.
- The loop of AddUser pushes to the vector it iterates over. Whether push_back
  moves the vector is up to the library; the model allows every number of copies
  the loop can push before it meets an entry with the id, and a crash. The same
  holds for the iterator that slotDisconnected steps past the end, and for the
  sockets that the destructor asks after they are deleted.
- `announced` and `farewells` are history variables for the properties.

`AddressBook` is what the chat promises: every host keeps a set of users, adds
one only if its host has announced it, and drops only users of an id that has
said bye. `F2fChat` implements it with `book` as the set of users in `vecUser`.

### SslService

`qssl_server` and the programs connected to it. The server's state is
`ssl_client` (which program's socket the one structure holds), its flag, whose
timer runs, and the server's socket for each program. A qssl_client is its
`phase` (the questions to the user block its event loop), how often its
readyRead slot is connected, and its timer. Programs in `Foreign` are other HTTP
clients: they send any request, so that every branch of slotReadyRequest is
taken. TCP delivers in order and reports a close after the data.

- A first line of which only "GET" has arrived has no second token, and what the code
  reads there is undefined: the server finds no task and says "Bad Request", or it ends
  (`Undefined`) and closes its sockets. A qssl_client sends its requests whole.
- `incomingConnection` replaces the structure, whether or not the handshake
  succeeds; the handshake is atomic because it blocks the event loop.
- A slot that runs for an older socket reads the newest one, which has nothing
  to read: it only stops the timer (`Overlooked`).
- After a refusal the client's slot is connected once more. The second call of
  the slot for one answer stops the timer that the first has just started;
  `StartTimer` says what is left when all calls are done.
- `QCoreApplication::exit` has no effect before `exec`: a client whose handshake
  failed is "stranded" after the user has typed "exit".

### MtServer

`mt_server` as built on Linux without NDEBUG, and its clients. The main thread is
`main` (its place in the loop), `client_sock`, `pending_tasks` and `cursor`, the
loop variable over the list; a task is its `task` phase, `sock`, `request` and
`stream` (file stream, buffer and what of it is sent); `wire` is what a client was
sent. Each client has one connection and so at most one task. Actions of main,
tasks and clients interleave at every accept, look at a future, recv, read and
send; a send takes any part of the buffer.

- `get_request` compares the place of the line end with the end of the whole
  buffer, which no fragment reaches, so that its loop is left after the first
  fragment. `Receive` takes any first part of what was sent.
- What a request resolves to is given by the sets `Files` and `Refused` (names on
  which the file system library throws); files do not change while they are sent.
- The separator is read as four bytes from the address of one. `separ` is how that
  turned out in this build: the separator, another character, so that no path is
  found, or no character, so that the conversion throws.
- No descriptor of a client is ever closed, so `Descriptors` counts all clients ever
  accepted. accept allocates its descriptor before it waits; when none is left it
  returns -1, which passes the comparison with 0 and meets the assertion.
- Nothing catches a filesystem_error that get() rethrows. The runtime terminates
  without unwinding the stack, so no task is waited for.
- The thread that cannot be started and the limit of the backlog are left out.

### QtHttp

`qnet_tcp_server` and the programs connected to it. The server is `client_socket`,
its sockets (`server_end`), the backlog, and the delayed closes and quits that
`singleShot` leaves behind, as counters: the lambdas name no connection. A
qnet_tcp_client holds one connection that it never writes to and makes one per
question, so a connection is a pair of a program and a number. Programs in `Others`
speak HTTP over one connection and may ask several times.

- Every slot of every connection acts on the newest one: a request on an older
  connection is read only if a newer one has nothing, and is then never answered.
- The questions block the client's event loop. The nested loops that wait between
  them are one phase, since all of them deliver the same signals; their stack is not
  in the model.
- `OnResponse` is the handler of one reply; a late one stops the newest timer and
  asks once more.
- The close that follows "exit" closes the newest connection, too. `OvertakenNotCut`
  says who is safe from it, a connection that is not the newest and has asked for no
  end itself; `ExitDisconnectsAsker`, that only who asked is closed, is what the code's
  comment says and is violated.

### FileExchange

`broadcast_server` and the programs connected to it. `at` is the server's place in
its loop, `buffer` the one buffer with whom its content came from; `Answer` has the
three branches after a recv. tcp_client is its `phase`; the read after five seconds
takes any part of what has come, which is also how an answer is late. Programs in
`Others` may stop sending and go on reading, which tcp_client never does.

- A failed or empty recv answers the request of whoever was there before
  (`ReceiveNothing`), to a program that has left or stopped sending.
- A line is a model value with a length. `Path` is what the last line read has from
  byte 9 on, wherever the word is; its length wraps for a request of less than eleven
  bytes, as it does after a failed recv, and a request that is too long is copied past
  the end of `fpath` (`Outside`). What is written next to `fpath` is undefined
  (`WritesOutside`): the server ends, or goes on with the buffer as it was or written
  over, and with an answer that goes out or is lost. One outcome is left out: that a
  descriptor is written over with the number of another open connection.
- The message about a missing file is assigned to a temporary, so the request is
  sent back twice (`Send` and `SendAgain`); between the two the program may leave,
  and the second send may end the server by its signal.
- Which paths open is the constant `Files`, and fopen needs a descriptor as accept
  does. Files are no longer than the buffer.
- Lines are short: several fit into one recv, and none is split.

### UdpEcho, AsioServer, MessageService, PacketPrinter

Four small modules for programs that have nothing to do with each other.

- **UdpEcho**: `udp_server`'s loop is one action per datagram, which may come
  again; `Lose` drops one. Each round of `udp_client` has a socket of its own, so a
  round is a number. The buffer before the first datagram holds anything.
- **AsioServer**: handlers of the io_context run one at a time (`handling`), the
  thread that starts the write is joined within one, and a connection is `held` as
  long as a handler has its shared_ptr.
- **MessageService**: `load_users` reads each line over the user of the line before.
  libcurl_client puts what is typed into the address as it is, and sends `pass` where
  the server reads `password`: an argument that is not there is the empty string, and
  what is typed may bring a `&password=` of its own. So the model has the arguments as
  the server gets them (`Requests`), and every pair of them. A login or a password will
  do; `task3.yaml` has an example with both but does not say that both must match, and
  the property is stated for either. The file may be edited between requests.
- **PacketPrinter**: a callback stores a packet and prints its data. The data are
  positions, which is what the two pointers of a line could get wrong. They are taken
  to be captured whole. `sniff_ip` holds four constants as data members, which shift
  what follows them: `ip_p` reads the second byte of the destination address, so that
  the address and not the protocol decides what is taken for TCP, whatever the comment
  before `got_packet`'s last part ("OK, this packet is TCP") says. "Hexadecimal" bytes are printed as characters by the code;
  the model has the byte in either case.

### Other modules

`MCF2fChat`, `MCSslService`, `MCMtServer` and `MCFileExchange` give TLC its small
sets. `SmallPrograms` joins the four small modules, so that each behaviour is one of
one of them, and states what their constants are assumed to be; `MCSmallPrograms` is
its instance for TLC. `F2fChatProofs`, `F2fChatBookProofs`, `SslServiceProofs`,
`MtServerProofs`, `QtHttpProofs`, `FileExchangeProofs`, `UdpEchoProofs` and
`SmallProgramsProofs` hold the proofs, see below.

## Runs

| Run | Instance | Shows |
|---|---|---|
| `f2f_roster` | 3 hosts, 3 ids, 3 entries in all, rosters up to 3 | types; rows in step with addresses; only announced users; never an empty window over a known user; a bye takes users of one id only, in order, and of two neighbours with it at least one |
| `f2f_texts` | 2 hosts, nicks with and without slash, 2 entries, 2 messages, bursts of 2 | rosters and messages name their sender; the chat implements AddressBook |
| `f2f_new_user` | 3 hosts | violated: the second user is stored without newUser |
| `ssl_service` | 2 qssl_client, 1 other program, 3 requests in all | types; accepted messages come from programs that logged in; no qssl_client gets a 400; a client that has not been refused stops waiting |
| `ssl_client_timer` | 1 qssl_client, 3 requests | violated: a request without a timer after a refusal |
| `ssl_server_timer` | 2 qssl_client | violated: the timer of one client closes the other |
| `mt_server` | 2 clients, 3 descriptors, 3 files, buffers of 2 bytes | types; each client gets the answer to its own request; a file longer than a buffer arrives whole; the server ends only for the causes named and waits for its tasks; ended tasks are collected |
| `mt_short_file` | the same | violated: "File was sent." for a file that fits into the buffer, of which nothing is sent |
| `qt_http` | 1 qnet_tcp_client, 1 other program, 3 requests in all | types; answers go to who asked, once; only overtaken questions stay unanswered; one timer while waiting; only the newest connection, or one that asked for it, is cut off; only commands end the server; shutdowns, waits and lost connections come to an end |
| `qt_exit` | 1 qnet_tcp_client, 1 other program, 2 requests | violated: the delayed close of "exit" disconnects a program that has connected meanwhile |
| `file_exchange` | 1 tcp_client with 3 lines, 1 other program with 2; lines of 2, 5, 9 and 40 bytes, fpath of 60; 3 files, one empty; 2 descriptors | types; answers are the program's own in spite of the one buffer; what ends the server, a path out of range included; who waits is served in turn |
| `small_programs` | 1 udp_client with 2 sockets, 1 other program, 1 duplicate; 3 programs with 1 descriptor; 4 files of users; 59 packets, lines of 3 bytes | echoes match their rounds and arrive unless lost; only "exit" ends the server; an accept is always pending or about to be; everybody gets the daytime and the descriptor returns; a login or a password of the file decides; all data of what is taken for TCP are printed, once and in place |

Bounds. `MaxEntries` and `MaxTexts` count over all peers, `MaxRequests` over all
programs, which lets one actor use what another does not: three entries are
enough for a peer that leaves and returns under a new id while datagrams of its
first stay are still under way, or for three peers with colliding ids.
`MaxRoster` 3 lets AddUser push two copies of a later user and slotDisconnected
meet two neighbours of one id. Three requests are a refused login, a login and a
message. Two clients of mt_server are one whose task has ended, or has the error,
and one that is accepted, or waited for, because of it; three descriptors run out
for an open file as well as for accept; the files are shorter than a buffer, an
exact multiple of it, and neither; each name is also what another is cut to. Three requests of qt_http are a question that is
overtaken, the connection that overtakes it and a third inside the two seconds of a
delayed close. Three lines of a tcp_client are its empty one and two requests; with
two descriptors the third connection ends the server, and the second cannot open a
file. The lengths make a request too short by itself and long enough after another
line, fit by itself or after an empty line, and too long when two are read at once. Two sockets are enough for the
echo of one round to come in the next; three programs for one descriptor are one that
is answered, one that waits and one that fails to be taken. The files of users have a
line without a password first, between and last; the packets have data of none, one
and up to four lines, full and not, with characters that do not print at the edges.
Symmetry is used in the roster run only, where every property is a
safety property and hosts and ids are interchangeable.

Deadlock is not checked: windows may all be closed, programs may all have ended,
and users need not do anything.

Fairness. F2fChat has none: nothing obliges a network to deliver or a user to
act, and no document promises mutual discovery, which the code does not retry.
SslService assumes weak fairness of the client's timeout only: the event loop of
a waiting qssl_client runs and delivers an expired timer. That suffices for
`FirstWaitEnds`, which therefore holds whatever the server does. It is stated
for a client that has not been refused, and so has connected its slot once;
`ssl_client_timer` shows why not for all. MtServer assumes that the threads run: weak fairness of the main thread
and of every task for what it does without its peer. Nothing makes a client send,
receive or leave; the properties say what the server does then. QtHttp assumes weak
fairness of the delayed close of a shutdown, of the quit after it and of the client's
timeouts: both event loops run and deliver what has expired. FileExchange assumes that
the process of the server runs; it says nothing of a program that keeps the server in
recv (`Blocked`). UdpEcho assumes that the programs run and that what waits in a
socket is read in turn; what the network drops is a loss. AsioServer needs strong
fairness of the handlers of accepts and writes: without descriptors the failing accept
is begun again at once, and the queue of the io_context, which is served in turn, has
the others in between.

## Findings

- `newUser` is said to be emitted when a user is added (`chatnetwork.h:32`);
  AddUser emits it for the first user only.
- The client is said to wait five seconds for an answer
  (`qssl_client/main.cpp:162`); after a refusal it waits without a limit.
- The server is said to disconnect a client that is silent for 15 seconds
  (`qssl_server/main.cpp:241`); it disconnects the newest one.
- "exit" is said to disconnect from the server (`qnet_tcp_server/main.cpp:47`); two
  seconds later the newest connection is closed, whoever asked.
- mt_server reports that the file was sent (`mt_server/main.cpp:324`); a file that
  fits into the buffer is read from its end, and a buffer of zeros is sent.

Three more are visible by reading, and the models have what the code does; no run is
spent on them. A packet whose sections are not filled is said to be dropped
(`chatnetwork.cpp:137`), but the condition at line 138 is true for every packet. What
is said to be TCP in `packet_printer.cpp` is told by the destination address. tcp_client
is to get the file it asks for (`broadcast_server/main.cpp:153`), but the empty line it
sends first is often all that the server reads of it.

## Proofs

All theorems hold for arbitrary constants under the named assumptions of the
modules (hosts exist, the words contain the protocol's words and the ids, typed
text consists of words, bounds are numbers; foreign programs are programs, users
are pairs; a line has a width, lengths are numbers, no path of a file is empty or reaches the end
of its line, no program is `None` and no login is the empty string). Every safety property of the passing runs, invariant or
property of steps, is stated by a theorem, and so is the refinement.

Where the code walks a list the model has a recursive function of the position. What
such a function computes is proved by the least number at which a claim fails:
`LeastElement` gives one, from the library's theorem that < is well-founded on the
numbers. TLA+ defines a recursive function as some solution of its equation, so each of
these arguments begins by showing that there is a solution (`WalkExists`,
`ReadingExists`, `PrintingExists`).

- **F2fChatProofs.** `ShapeInvariant` proves the inductive invariant `Shape`
  (types, `LabelsInStep`, `RowAddressesShownUser`) with `WindowCleared`.
  `RowAddressesShownUser` alone is not inductive: the window is filled from
  `listUsers`, so that it needs the labels to be in step with `vecUser`, and
  entering empties `vecUser` but not the rows, so that it needs the window to be
  empty outside the chat. `TypeCorrect` and `RowsCorrect` follow. For
  `SomebodyAlwaysVisible` a step that lists `listUsers` anew, the first user or a bye,
  needs `LabelsInStep`, for it is `vecUser` that decides (`ListedAnew`); AddUser leaves
  the window alone only where somebody is known already (`ReadVisible`).
- **F2fChatBookProofs.** `GenuineInvariant` adds what is in flight: every
  control packet carries the identity its sender has announced, every text
  too if no text has a slash, and a peer in the chat has announced itself.
  `RosterGenuine` and `TextsAttributed` follow, and with them `Refinement`: each
  step of the chat is a step of AddressBook or changes no book. `ByesRemoveOneId`
  follows the walk of slotDisconnected (`Walk`): an entry is erased unless the one
  before it, with the same id, has just been, so that of two neighbours one goes
  (`ErasedNeighbours`). What is picked keeps the others in their order
  (`DisconnectLeaves`), and no other step makes a roster shorter in the chat
  (`ShorterByBye`): entering would, were it not empty before (`WindowCleared`). The id
  has said bye, as that of every bye in flight, which is part of `Genuine`.
- **SslServiceProofs.** `OnlyMembersAccepted` rests on `Membership`: the flag,
  and a request in flight that will set it, belong to a program that has
  presented a known pair. `NeverTold400` rests on `Conversation`: a program the
  server has not taken has sent nothing (`Untaken`), a qssl_client has at most
  one request or answer under way and none while it asks its user
  (`OneAtATime`), and what the served client does fits the flag (`InStep`).
  `InStep` needs the other two, because a new connection resets the flag and
  takes over whatever is under way for its program.
- **MtServerProofs.** `IInv` is `TypeOK` with three parts. `Dialogue` ties a task to
  its client: the socket is its own, the request is a line of what it sent, what is
  in the buffer continues what was sent, and the place in the file fits both.
  `Fresh` says that a waiting connection has no task yet, without which an accept
  could restart a dialogue. `Listed` says that a task which has not ended is in the
  list. `AnswersOwn` follows from `Dialogue`, `NoneOutlives` from `Listed`.
  `EndsOnlyForCause` adds `Excused`, why a task has thrown, and counts: only an
  accepted client has a file open for it (`UsedUp`), so descriptors are used up
  after no less than half as many clients. `SentInFullAlways` adds `Buffered`: what was
  sent before the buffer in hand is a multiple of its size, and the buffer that met the
  end of the file is the one the end lies in, or the first for a file no longer than a
  buffer, which is read from its end. `IInv` has what is sent at each place but not that
  the last buffer is where the answer stops. With both, `BufferedSent` has the file as the
  first part of what was sent, if it is longer than a buffer. The length of the answer is a quotient
  rounded up; `Quotient` says which number that is.
- **QtHttpProofs.** What slotReadClient does depends on one variable that every
  connection replaces. `Joined` says how it, the backlog and the ends of a
  connection fit: a connection is queued once, with its question in it, and is
  `client_socket` only after that. `UnansweredOvertakenAlways` and
  `OvertakenNotCutAlways` rest on it; `AnswersOwnAlways` on an account of what is
  asked, answered and unread for each connection; `EndsOnCommandAlways` on tying
  each delayed close and quit to a command that was answered.
- **FileExchangeProofs.** One buffer serves all. `Taken` says that a program is taken
  once, and that nothing has been read from it or sent to it before; `Answered` that
  between the two answers to one request the buffer is still what was read. Both
  together give `AnswersOwnAlways`, whatever is written next to `fpath` (`WritesAt`).
  `EndsForCauseAlways` needs `Taken` for a program that stopped sending early, and that
  what is in the buffer after a recv is what was read.
- **UdpEchoProofs.** `Current`: nothing under way belongs to a later round than the
  last, and what belongs to the last is what the user typed. `EchoMatchesAlways`
  follows for any number of rounds and duplicates; `EndsOnExitAlways` from `Told`.
- **SmallProgramsProofs.** About `SmallSpec`, where the other programs leave the
  variables of each alone.
  - `AlwaysAcceptingAlways` rests on `HandlesOne`: an accept is pending exactly when
    none is being handled, and the connections held are those handled or written to.
  - `MessageOnlyWithLoginAlways`: `ReadingUsers` shows by induction over the lines that
    a user's login is the first word of some line and the password the second of some,
    and that nobody is without either unless the first line is. The invariant is `AnswersLogin`: a client has one request
    under way, no answer before its own, and "Ok" is about these arguments and the file
    as it was then. Without the first part they could change under their answer.
  - `PrintedWholeAlways`: `LinesAt` is all that is printed from a line on, at once.
    `LinesRemaining` shows that it solves the equation of print_payload, whose line
    length is the remainder of the width by what is left, and `PrintingLines` that
    nothing else does; `LineWhole` reads the property off it.

Only model-checked: liveness, which is beyond the prover: `FirstWaitEnds`,
`EndedTasksCollected`, `UnwindingEnds`, `ShutdownEnds`, `WaitEnds`, `LostQuits`,
`ServedInTurn`, `EchoArrives` and `Served`. The five runs that expect a violation show
what the code does against what is said of it; nothing is proved there.

## Not modelled

- **PcapPlPl_snifer** (lesson2, its own main.cpp): a straight sequence of calls of
  PcapPlusPlus between questions to the user. It keeps no state between them that a
  model could follow. Two things are visible by reading: `WriteFile` opens, writes and
  closes three different temporary devices, so that the one it writes to is never
  open, and `OpenFile` does not return a value when it succeeds.
- Vendored code, by far the largest part of the repository (PcapPlusPlus, the npcap
  SDK), and build output: third-party and generated. The programs' own code is a few
  thousand lines, which is what the models cover.
- Certificates and keys, host names that are only printed, and the wording and layout
  on terminals and in windows.
- Overruns of other buffers than `fpath`: the models say what is computed from the
  content, not what a byte past the end does.
- Start-up before the first accept, where it only decides whether the server is there.
