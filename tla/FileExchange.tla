---------------------------- MODULE FileExchange ----------------------------
(***************************************************************************)
(* The file exchange of lesson3: broadcast_server and the programs that    *)
(* connect to it, which are tcp_client and others.                         *)
(*                                                                         *)
(* The server takes one connection after the other.  It reads from each    *)
(* once, blocking, into one buffer for all of them, answers what looks     *)
(* like a request for a file, and never closes or reads it again.          *)
(* tcp_client sends its user's lines and looks five seconds after each     *)
(* whether anything has come.                                              *)
(***************************************************************************)
EXTENDS Integers, Sequences
LOCAL INSTANCE SequencesExt

CONSTANTS
    Clients,        \* programs tcp_client
    Others,         \* other programs, which may stop sending and go on reading
    None,           \* nobody
    Paths,          \* lines that ask for a path with "getfile"
    Length,         \* bytes of each line, with the two of its end
    Files,          \* the paths, see Path, of files that can be opened ...
    EmptyFiles,     \* ... and of those that are empty
    PathSize,       \* bytes of fpath, which are 60
    MaxLines,       \* bound: lines each program sends
    MaxDescriptors  \* descriptors the server can have, without its own

Programs == Clients \cup Others

ASSUME ProgramsAssumption == Clients \cap Others = {} /\ None \notin Programs
ASSUME PathsAssumption    == {"empty", "other"} \cap Paths = {}
ASSUME BoundsAssumption   == MaxLines \in [Programs -> Nat] /\ MaxDescriptors \in Nat

\* A line asks for a path, is empty or is anything else.  Lines are short, so
\* that each is sent in one piece and several fit into the buffer.
Lines == Paths \cup {"empty", "other"}

ASSUME LengthAssumption == Length \in [Lines -> Nat]
\* No path is empty or has a line end in it
ASSUME FilesAssumption ==
    /\ EmptyFiles \subseteq Files
    /\ \A path \in Files : path[1] >= 0 /\ path[1] + 2 < Length[path[2]]

\* What is in a buffer: lines of a program, or what has been written over them,
\* the file they asked for or else their own bytes in other places
Text(p, lines) == [owner |-> p, lines |-> lines, over |-> FALSE]
Over(text)     == [text EXCEPT !.over = TRUE]
Texts == [owner : Programs \cup {None}, lines : Seq(Lines), over : BOOLEAN]

VARIABLES
    at,          \* what the server is about to do, see Steps
    newsockfd,   \* the program on the newest connection
    backlog,     \* programs that wait to be taken
    descriptors, \* connections the server has taken, all still open
    buffer,      \* the server's
    toServer,    \* lines of each program that have not been read
    toClient,    \* answers on their way to each program
    read,        \* what the server has read from each program
    phase,       \* what each tcp_client is doing, see Phases
    end,         \* the socket of each program
    written,     \* files each tcp_client has written
    sent         \* lines each program has sent

server  == <<at, newsockfd, backlog, descriptors, buffer, read>>
program == <<phase, end, written, sent>>
vars    == <<server, toServer, toClient, program>>

\* "again" is the second answer to a request whose file is not found; the loop
\* is never left
Steps  == {"accept", "recv", "again", "ended"}
\* "first" sends what is left of the line of the address, "prompt" waits for
\* the user, "file" and "reading" for an answer to a request and to another line
Phases == {"off", "first", "prompt", "file", "reading", "gone"}

Init ==
    /\ at          = "accept"
    /\ newsockfd   = None
    /\ backlog     = <<>>
    /\ descriptors = 0
    /\ buffer      = Text(None, <<>>)
    /\ toServer    = [p \in Programs |-> <<>>]
    /\ toClient    = [p \in Programs |-> <<>>]
    /\ read        = [p \in Programs |-> <<>>]
    /\ phase       = [p \in Clients |-> "off"]
    /\ end         = [p \in Programs |-> "none"]
    /\ written     = [p \in Clients |-> <<>>]
    /\ sent        = [p \in Programs |-> 0]

-----------------------------------------------------------------------------
(* broadcast_server *)

HasDescriptor == descriptors < MaxDescriptors

Accept ==
    /\ at = "accept" /\ HasDescriptor /\ backlog # <<>>
    /\ at'          = "recv"
    /\ newsockfd'   = Head(backlog)
    /\ backlog'     = Tail(backlog)
    /\ descriptors' = descriptors + 1
    /\ UNCHANGED <<buffer, read, toServer, toClient, program>>

End == at' = "ended" /\ backlog' = <<>>

\* accept fails before it waits, and nobody catches what main throws
AcceptFails ==
    /\ at = "accept" /\ ~HasDescriptor
    /\ End
    /\ UNCHANGED <<newsockfd, descriptors, buffer, read, toServer, toClient, program>>

\* The word is looked for anywhere in the buffer.  What is written over the
\* lines has it nowhere.
AsksFor(text) == ~text.over /\ \E i \in 1..Len(text.lines) : text.lines[i] \in Paths

Bytes(lines) == FoldLeft(LAMBDA n, line : n + Length[line], 0, lines)

\* Wherever the word is, the path starts at byte 9, one character too late, and
\* loses two bytes at the end.  It is what the last line has from that byte on,
\* or from one before it, with a line end then.
Path(lines) == <<9 - Bytes(Front(lines)), Last(lines)>>

\* The length of the path wraps, or fpath is too small
Outside(text) == AsksFor(text) /\ (Bytes(text.lines) < 11 \/ Bytes(text.lines) - 9 >= PathSize)

\* Data for a program that is gone are lost
Send(p, text) == toClient' = IF end[p] = "closed" THEN toClient
                             ELSE [toClient EXCEPT ![p] = Append(@, text)]

\* Bytes next to fpath are written over.  The server ends, or it goes on, with
\* the file, the lines or other bytes in its buffer and an answer that is sent
\* or lost: a descriptor that is written over is nobody's.
WritesOutside(p, text) ==
    \/ /\ End
       /\ buffer' = text
       /\ UNCHANGED toClient
    \/ /\ at' \in {"accept", "again"}
       /\ buffer' \in {text, Over(text)}
       /\ Send(p, buffer') \/ UNCHANGED toClient
       /\ UNCHANGED backlog

\* fopen needs a descriptor
Opens(path) == HasDescriptor /\ path \in Files

\* What is not found is sent back, twice, for the message that says so is
\* assigned to a temporary
Answer(p, text) ==
    \/ /\ ~AsksFor(text)
       /\ at' = "accept" /\ buffer' = text
       /\ UNCHANGED <<toClient, backlog>>
    \/ /\ AsksFor(text) /\ ~Outside(text) /\ Opens(Path(text.lines))
       /\ at' = "accept"
       /\ buffer' = IF Path(text.lines) \in EmptyFiles THEN text ELSE Over(text)
       /\ Send(p, buffer')
       /\ UNCHANGED backlog
    \/ /\ AsksFor(text) /\ ~Outside(text) /\ ~Opens(Path(text.lines))
       /\ at' = "again" /\ buffer' = text
       /\ Send(p, text)
       /\ UNCHANGED backlog
    \/ Outside(text) /\ WritesOutside(p, text)

\* Some of what the program has sent is read
Receive(p) ==
    /\ at = "recv" /\ p = newsockfd
    /\ \E k \in 1..Len(toServer[p]) :
          /\ Answer(p, Text(p, SubSeq(toServer[p], 1, k)))
          /\ read'     = [read EXCEPT ![p] = SubSeq(toServer[p], 1, k)]
          /\ toServer' = [toServer EXCEPT ![p] = SubSeq(@, k + 1, Len(@))]
    /\ UNCHANGED <<newsockfd, descriptors, program>>

\* Mutant of HasStopped: the socket does not wait for data
HasStoppedOrNot(p) == TRUE

\* Nothing comes any more, or what was under way is lost with the program
HasStopped(p) == end[p] = "closed" \/ (end[p] = "half" /\ toServer[p] = <<>>)

\* Mutant of NextAfterError: recv is tried again
NextAfterErrorAgain == "recv"

\* Mutant of NextAfterError: the loop is left
NextAfterErrorBreak == "close"

\* The next connection is taken
NextAfterError == "accept"

\* recv fails or finds the end of the data, and the buffer is as it was.  If
\* that asks for a file, the length of the path wraps; the path keeps its line
\* end and is not found.
ReceiveNothing(p) ==
    /\ at = "recv" /\ p = newsockfd /\ HasStopped(p)
    /\ \/ /\ ~AsksFor(buffer)
          /\ at' = NextAfterError
          /\ UNCHANGED <<backlog, buffer, toClient>>
       \/ /\ AsksFor(buffer)
          /\ WritesOutside(p, buffer)
    /\ UNCHANGED <<newsockfd, descriptors, read, toServer, program>>

\* Mutant of Breaks: also when the program has only stopped sending
BreaksHalf(p) == end[p] # "open"

\* The program is gone, and has said so to the first answer
Breaks(p) == end[p] = "closed"

\* A send that fails counts as complete, unless its signal ends the server
SendAgain(p) ==
    /\ at = "again" /\ p = newsockfd
    /\ \/ /\ at' = "accept"
          /\ Send(p, buffer)
          /\ UNCHANGED backlog
       \/ /\ Breaks(p)
          /\ End
          /\ UNCHANGED toClient
    /\ UNCHANGED <<newsockfd, descriptors, buffer, read, toServer, program>>

-----------------------------------------------------------------------------
(* tcp_client *)

\* A connection is requested
Connect(p) ==
    /\ end[p] = "none"
    /\ at # "ended"
    /\ end'     = [end EXCEPT ![p] = "open"]
    /\ backlog' = Append(backlog, p)
    /\ UNCHANGED <<at, newsockfd, descriptors, buffer, read, toServer, toClient, written, sent>>

ClientConnects(c) ==
    /\ phase[c] = "off"
    /\ Connect(c)
    /\ phase' = [phase EXCEPT ![c] = "first"]

\* A line goes out
Put(p, line) ==
    /\ sent[p] < MaxLines[p]
    /\ sent'     = [sent EXCEPT ![p] = @ + 1]
    /\ toServer' = [toServer EXCEPT ![p] = Append(@, line)]

\* The first getline takes what operator>> has left of the line of the
\* address, which is nothing
FirstLine(c) ==
    /\ phase[c] = "first"
    /\ Put(c, "empty")
    /\ phase' = [phase EXCEPT ![c] = "reading"]
    /\ UNCHANGED <<server, toClient, end, written>>

\* The user types a line
Ask(c, line) ==
    /\ phase[c] = "prompt"
    /\ Put(c, line)
    /\ phase' = [phase EXCEPT ![c] = IF line \in Paths THEN "file" ELSE "reading"]
    /\ UNCHANGED <<server, toClient, end, written>>

\* Some of what is on its way has come
Take(c, k) == toClient' = [toClient EXCEPT ![c] = SubSeq(@, k + 1, Len(@))]

\* One recv after five seconds, whose data become a file, whatever they are
RecvFile(c) ==
    /\ phase[c] = "file"
    /\ \/ \E k \in 1..Len(toClient[c]) :
             /\ Take(c, k)
             /\ written' = [written EXCEPT ![c] = Append(@, SubSeq(toClient[c], 1, k))]
       \/ UNCHANGED <<toClient, written>>
    /\ phase' = [phase EXCEPT ![c] = "prompt"]
    /\ UNCHANGED <<server, toServer, end, sent>>

\* All that has come is shown
ReadAll(c) ==
    /\ phase[c] = "reading"
    /\ \E k \in 0..Len(toClient[c]) : Take(c, k)
    /\ phase' = [phase EXCEPT ![c] = "prompt"]
    /\ UNCHANGED <<server, toServer, end, written, sent>>

\* The user ends the program, or a signal does when the server has ended
Leave(c) ==
    /\ phase[c] \notin {"off", "gone"}
    /\ phase' = [phase EXCEPT ![c] = "gone"]
    /\ end'   = [end EXCEPT ![c] = "closed"]
    /\ UNCHANGED <<server, toServer, toClient, written, sent>>

\* The server is not there
ConnectFails(c) ==
    /\ phase[c] = "off" /\ at = "ended"
    /\ phase' = [phase EXCEPT ![c] = "gone"]
    /\ UNCHANGED <<server, toServer, toClient, end, written, sent>>

-----------------------------------------------------------------------------
(* Other programs *)

OtherConnects(o) == Connect(o) /\ UNCHANGED phase

OtherAsks(o, line) ==
    /\ end[o] = "open"
    /\ Put(o, line)
    /\ UNCHANGED <<server, toClient, phase, end, written>>

OtherStops(o) ==
    /\ end[o] = "open"
    /\ end' = [end EXCEPT ![o] = "half"]
    /\ UNCHANGED <<server, toServer, toClient, phase, written, sent>>

OtherLeaves(o) ==
    /\ end[o] \in {"open", "half"}
    /\ end' = [end EXCEPT ![o] = "closed"]
    /\ UNCHANGED <<server, toServer, toClient, phase, written, sent>>

-----------------------------------------------------------------------------

Serve == \/ Accept \/ AcceptFails
         \/ \E p \in Programs : Receive(p) \/ ReceiveNothing(p) \/ SendAgain(p)

Next ==
    \/ Serve
    \/ \E c \in Clients :
          \/ ClientConnects(c) \/ ConnectFails(c) \/ FirstLine(c)
          \/ RecvFile(c) \/ ReadAll(c) \/ Leave(c)
          \/ \E line \in Lines : Ask(c, line)
    \/ \E o \in Others :
          \/ OtherConnects(o) \/ OtherStops(o) \/ OtherLeaves(o)
          \/ \E line \in Lines : OtherAsks(o, line)

\* The process of the server runs.  Nothing is assumed of the programs.
Spec == Init /\ [][Next]_vars /\ WF_vars(Serve)

-----------------------------------------------------------------------------
(* Properties *)

TypeOK ==
    /\ at \in Steps
    /\ newsockfd \in Programs \cup {None}
    /\ backlog \in Seq(Programs)
    /\ descriptors \in 0..MaxDescriptors
    /\ buffer \in Texts
    /\ toServer \in [Programs -> Seq(Lines)]
    /\ toClient \in [Programs -> Seq(Texts)]
    /\ read \in [Programs -> Seq(Lines)]
    /\ phase \in [Clients -> Phases]
    /\ end \in [Programs -> {"none", "open", "half", "closed"}]
    /\ written \in [Clients -> Seq(Seq(Texts))]
    /\ sent \in [Programs -> Nat]

\* The text or file is a program's own, for what was read from it
Own(p, text) == text.owner = p /\ text.lines = read[p]

\* What a program gets, and what tcp_client writes, however late, answers what
\* was read from it, for the program whose request is still in the buffer could
\* be any other (main: buffer, recv_bytes).  That does reach a program which
\* has stopped sending before it was read.
AnswersOwn ==
    /\ \A p \in Programs : \A i \in 1..Len(toClient[p]) :
          Own(p, toClient[p][i]) \/ (end[p] # "open" /\ read[p] = <<>>)
    /\ \A c \in Clients : \A i \in 1..Len(written[c]) : \A j \in 1..Len(written[c][i]) :
          Own(c, written[c][i][j])

\* The server ends only when its descriptors are used up, when the program it
\* serves has left or has stopped sending early, or when the path that this one
\* asks for is too short or too long: a request in between that is not found
\* and a program that waits for the answer do not end it (send_request, main).
EndsForCause == at = "ended" =>
    \/ descriptors = MaxDescriptors
    \/ end[newsockfd] = "closed"
    \/ end[newsockfd] = "half" /\ read[newsockfd] = <<>>
    \/ Outside(Text(newsockfd, read[newsockfd]))

\* The server waits for a program that sends nothing and stays
Blocked == at = "recv" /\ end[newsockfd] = "open" /\ toServer[newsockfd] = <<>>

\* Who waits is taken unless the server ends or waits for ever for somebody
\* who sends nothing: an answer that cannot be sent and a program that has left
\* hold nobody up (main: continue; send_request).
ServedInTurn == []<>~Blocked => \A p \in Programs :
    (\E i \in 1..Len(backlog) : backlog[i] = p) ~> (newsockfd = p \/ at = "ended")
=============================================================================
