--------------------------- MODULE MtServerProofs ---------------------------
(***************************************************************************)
(* Proofs about MtServer, for every set of clients, files and requests and *)
(* every size of the buffers: types, that a client gets the answer to its  *)
(* own request, and all of it, that main waits for every task, and what    *)
(* ends the server.                                                        *)
(***************************************************************************)
EXTENDS MtServer, TLAPS, FiniteSetTheorems

-----------------------------------------------------------------------------
(* Sequences *)

\* What is left of a list without its k-th element
LEMMA RemoveAtProperties ==
    ASSUME NEW S, NEW s \in Seq(S), NEW k \in 1..Len(s)
    PROVE  /\ RemoveAt(s, k) \in Seq(S)
           /\ Len(RemoveAt(s, k)) = Len(s) - 1
           /\ \A i \in 1..(Len(s) - 1) :
                 RemoveAt(s, k)[i] = IF i < k THEN s[i] ELSE s[i + 1]
<1> DEFINE front == SubSeq(s, 1, k - 1)
           back  == SubSeq(s, k + 1, Len(s))
<1>1. /\ front \in Seq(S) /\ Len(front) = k - 1
      /\ \A i \in 1..(k - 1) : front[i] = s[i]
  OBVIOUS
<1>2. /\ back \in Seq(S) /\ Len(back) = Len(s) - k
      /\ \A i \in 1..(Len(s) - k) : back[i] = s[k + i]
  OBVIOUS
<1>3. RemoveAt(s, k) = front \o back
  BY DEF RemoveAt
<1> HIDE DEF front, back
<1>4. front \o back \in Seq(S) /\ Len(front \o back) = Len(s) - 1
  BY <1>1, <1>2
<1>5. ASSUME NEW i \in 1..(Len(s) - 1)
      PROVE  (front \o back)[i] = IF i < k THEN s[i] ELSE s[i + 1]
  <2>1. CASE i < k
    BY <2>1, <1>1, <1>2
  <2>2. CASE ~(i < k)
    <3>1. (front \o back)[i] = back[i - (k - 1)]
      BY <2>2, <1>1, <1>2
    <3>2. i - (k - 1) \in 1..(Len(s) - k) /\ k + (i - (k - 1)) = i + 1
      BY <2>2
    <3> QED
      BY <2>2, <3>1, <3>2, <1>2
  <2> QED
    BY <2>1, <2>2
<1> QED
  BY <1>3, <1>4, <1>5

\* Appending n bytes of a buffer, from one place on
LEMMA ExtendProperties ==
    ASSUME NEW S, NEW w \in Seq(S), NEW b \in Seq(S), NEW from \in Nat, NEW n \in Nat,
           from + n <= Len(b)
    PROVE  /\ w \o SubSeq(b, from + 1, from + n) \in Seq(S)
           /\ Len(w \o SubSeq(b, from + 1, from + n)) = Len(w) + n
           /\ \A i \in 1..(Len(w) + n) :
                 (w \o SubSeq(b, from + 1, from + n))[i] =
                     IF i <= Len(w) THEN w[i] ELSE b[from + (i - Len(w))]
<1> DEFINE piece == SubSeq(b, from + 1, from + n)
<1>1. /\ piece \in Seq(S) /\ Len(piece) = n
      /\ \A i \in 1..n : piece[i] = b[from + i]
  OBVIOUS
<1> HIDE DEF piece
<1>2. w \o piece \in Seq(S) /\ Len(w \o piece) = Len(w) + n
  BY <1>1
<1>3. ASSUME NEW i \in 1..(Len(w) + n)
      PROVE  (w \o piece)[i] = IF i <= Len(w) THEN w[i] ELSE b[from + (i - Len(w))]
  <2>1. CASE i <= Len(w)
    BY <2>1, <1>1
  <2>2. CASE ~(i <= Len(w))
    <3>1. (w \o piece)[i] = piece[i - Len(w)] /\ i - Len(w) \in 1..n
      BY <2>2, <1>1
    <3> QED
      BY <2>2, <3>1, <1>1
  <2> QED
    BY <2>1, <2>2
<1> QED
  BY <1>2, <1>3 DEF piece

\* A line of a fragment consists of its characters
LEMMA LineType ==
    ASSUME NEW S, NEW fragment \in Seq(S)
    PROVE  Line(fragment) \in Seq(S)
<1> DEFINE B == BeforeLineEnd(fragment)
           n == Cardinality(B)
           m == Len(fragment)
<1>0. m \in Nat
  OBVIOUS
<1> HIDE DEF m
<1>1. IsFiniteSet(1..m) /\ Cardinality(1..m) = m
  BY <1>0, 1 \in Int, m \in Int, FS_Interval
<1>2. B \in SUBSET (1..m)
  BY DEF BeforeLineEnd, m
<1>3. n \in Nat /\ n <= m
  BY <1>0, <1>1, <1>2, FS_Subset, FS_CardinalityType
<1> HIDE DEF n
<1> QED
  BY <1>3 DEF Line, n, m

-----------------------------------------------------------------------------
(* Types *)

\* What one task does in a step
TaskStep(t) ==
    \/ Receive(t) \/ ReceiveNothing(t) \/ Throw(t) \/ Fail(t) \/ Open(t)
    \/ Read(t) \/ Send(t) \/ SendFails(t) \/ EndOfBuffer(t)

\* One step is one of the main thread, of a client or of a task
LEMMA Steps ==
    ASSUME Next
    PROVE  \/ \/ StartAccept \/ AcceptFails \/ accept_client \/ Collect
              \/ PassBy \/ Rethrow \/ EndOfList \/ Exit
           \/ \E c \in Clients : Connect(c) \/ Ask(c) \/ Hangup(c)
           \/ \E t \in Clients : Alive /\ TaskStep(t)
<1>1. CASE Main
  BY <1>1 DEF Main
<1>2. ASSUME NEW c \in Clients, Task(c) PROVE Alive /\ TaskStep(c)
  BY <1>2 DEF Task, Works, TaskStep
<1> QED
  BY <1>1, <1>2 DEF Next

LEMMA TypeInit == Init => TypeOK
<1> SUFFICES ASSUME Init PROVE TypeOK
  OBVIOUS
<1>1. NoStream \in Streams
  BY SizeAssumption DEF NoStream, Streams
<1> QED
  BY <1>1 DEF Init, TypeOK, Mains, Phases

\* A step of the main thread and one of a client
LEMMA TypeMain ==
    ASSUME TypeOK,
           \/ StartAccept \/ AcceptFails \/ accept_client \/ Collect
           \/ PassBy \/ Rethrow \/ EndOfList \/ Exit
    PROVE  TypeOK'
<1> USE DEF TypeOK, mains, peers, tasks
<1>1. CASE StartAccept \/ AcceptFails \/ EndOfList \/ Exit \/ Rethrow
  <2> HIDE DEF TypeOK, mains, peers, tasks
  <2>1. main' \in Mains
    BY <1>1 DEF StartAccept, AcceptFails, EndOfList, Exit, Rethrow, Mains
  <2>2. UNCHANGED <<client_sock, pending_tasks, cursor, separ, peers, tasks>>
    BY <1>1 DEF StartAccept, AcceptFails, EndOfList, Exit, Rethrow
  <2> QED
    BY <2>1, <2>2 DEF TypeOK, peers, tasks
<1>2. CASE accept_client
  BY <1>2 DEF accept_client, Mains, Phases, Begin
<1>3. CASE Collect
  <2>1. cursor \in 1..Len(pending_tasks)
    BY <1>3 DEF Collect
  <2>2. RemoveAt(pending_tasks, cursor) \in Seq(Clients)
    BY <2>1, RemoveAtProperties
  <2> QED
    BY <1>3, <2>2 DEF Collect, Erase
<1>4. CASE PassBy
  <2>1. cursor' \in Nat \ {0}
    BY <1>4 DEF PassBy
  <2> QED
    BY <1>4, <2>1 DEF PassBy
<1> QED
  BY <1>1, <1>2, <1>3, <1>4

LEMMA TypeClient ==
    ASSUME TypeOK, NEW c \in Clients, Connect(c) \/ Ask(c) \/ Hangup(c)
    PROVE  TypeOK'
<1> USE DEF TypeOK, mains, peers, tasks
<1>1. CASE Connect(c)
  BY <1>1 DEF Connect
<1>2. CASE Ask(c)
  BY <1>2, RequestAssumption DEF Ask
<1>3. CASE Hangup(c)
  BY <1>3 DEF Hangup
<1> QED
  BY <1>1, <1>2, <1>3

\* A buffer is full of bytes
LEMMA FilledType ==
    ASSUME NEW file \in Files, NEW position \in Nat
    PROVE  /\ Filled(file, position) \in Seq(Bytes)
           /\ Len(Filled(file, position)) = buffer_size
           /\ position <= Len(content[file]) =>
                  /\ gcount(file, position) \in 0..buffer_size
                  /\ position + gcount(file, position) <= Len(content[file])
<1>1. buffer_size \in Nat /\ content[file] \in Seq(Bytes) /\ Zero \in Bytes
  BY SizeAssumption, ContentAssumption
<1>2. Filled(file, position) \in [1..buffer_size -> Bytes]
  BY <1>1 DEF Filled
<1>3. Len(content[file]) \in Nat
  BY <1>1
<1> HIDE DEF Filled
<1> QED
  BY <1>1, <1>2, <1>3 DEF gcount

-----------------------------------------------------------------------------
(* The invariant *)

\* The request of a task is a line of a first part of what its client has sent
Named(t) == \E n \in 1..Len(asked[t]) :
                n <= MAX_PATH /\ request[t] = Line(SubSeq(asked[t], 1, n))

\* A task works with the socket of its client, and nothing is sent before the
\* request is known
Question(t) ==
    /\ sock[t] = t
    /\ task[t] \in {"none", "get_request"} => inbox[t] = asked[t]
    /\ task[t] \in {"none", "get_request", "send_file"} => wire[t] = <<>>
    /\ task[t] \in {"send_file", "read", "send_buffer"} \/ wire[t] # <<>> => Named(t)

\* A long file is read on from where the bytes sent so far end; of a short one
\* there is nothing to read
AtRead(t) ==
    IF buffer_size < Len(content[request[t]])
    THEN Len(wire[t]) = stream[t].position
    ELSE wire[t] = <<>> /\ stream[t].position = Len(content[request[t]])

\* What is in the buffer continues what was sent before it, and a read that has
\* not met the end has filled the buffer
AtSend(t) ==
    /\ Len(stream[t].buffer) = buffer_size
    /\ stream[t].transmitted <= Len(wire[t])
    /\ \A j \in 1..buffer_size :
          stream[t].buffer[j] =
              AnswerByte(request[t], (Len(wire[t]) - stream[t].transmitted) + j)
    /\ ~ stream[t].eof =>
          /\ buffer_size < Len(content[request[t]])
          /\ stream[t].position = (Len(wire[t]) - stream[t].transmitted) + buffer_size

Answer(t) ==
    /\ Streaming(t) => request[t] \in Files
    /\ Streaming(t) => stream[t].position <= Len(content[request[t]])
    /\ wire[t] # <<>> =>
          /\ request[t] \in Files
          /\ \A i \in 1..Len(wire[t]) : wire[t][i] = AnswerByte(request[t], i)
    /\ task[t] = "read" => AtRead(t)
    /\ task[t] = "send_buffer" => AtSend(t)

Dialogue == \A t \in Clients : Question(t) /\ Answer(t)

\* Connections that wait for accept have no task yet, and there is one of each
Fresh ==
    /\ \A i \in 1..Len(backlog) : task[backlog[i]] = "none" /\ peer[backlog[i]] # "away"
    /\ \A i, j \in 1..Len(backlog) : backlog[i] = backlog[j] => i = j
    /\ \A c \in Clients : peer[c] = "away" => task[c] = "none"

\* A task that has not ended is in the list
Listed == \A t \in Clients :
    task[t] \in {"get_request", "send_file", "read", "send_buffer"} =>
        \E i \in 1..Len(pending_tasks) : pending_tasks[i] = t

IInv == TypeOK /\ Dialogue /\ Fresh /\ Listed

-----------------------------------------------------------------------------
(* Types of the steps of a task *)

LEMMA TypeTask ==
    ASSUME TypeOK, Dialogue, NEW t \in Clients, TaskStep(t)
    PROVE  TypeOK'
<1> USE DEF TypeOK, mains, peers, tasks
<1>1. Socket(t) \in Clients
  BY DEF Socket
<1>2. NoStream \in Streams
  BY SizeAssumption DEF NoStream, Streams
<1>3. CASE Receive(t)
  <2>1. PICK n \in 1..Len(inbox[Socket(t)]) :
            LET line == Line(SubSeq(inbox[Socket(t)], 1, n)) IN
            /\ request' = [request EXCEPT ![t] = line]
            /\ task' = [task EXCEPT ![t] = IF line = <<>> THEN "empty" ELSE "send_file"]
            /\ inbox' = [inbox EXCEPT ![Socket(t)] = SubSeq(@, n + 1, Len(@))]
    BY <1>3 DEF Receive
  <2>2. inbox[Socket(t)] \in Seq(Chars)
    BY <1>1
  <2>3. /\ SubSeq(inbox[Socket(t)], 1, n) \in Seq(Chars)
        /\ SubSeq(inbox[Socket(t)], n + 1, Len(inbox[Socket(t)])) \in Seq(Chars)
    BY ONLY <2>2, <2>1
  <2>4. Line(SubSeq(inbox[Socket(t)], 1, n)) \in Seq(Chars)
    BY <2>3, LineType
  <2> HIDE DEF TypeOK, mains, peers, tasks
  <2>5. request' \in [Clients -> Seq(Chars)]
    BY <2>1, <2>4 DEF TypeOK
  <2>6. task' \in [Clients -> Phases]
    <3>1. PICK next \in Phases : task' = [task EXCEPT ![t] = next]
      BY <2>1 DEF Phases, Returned
    <3> QED
      BY <3>1 DEF TypeOK
  <2>7. inbox' \in [Clients -> Seq(Chars)]
    BY <1>1, <2>1, <2>3 DEF TypeOK
  <2>8. UNCHANGED <<mains, backlog, peer, asked, sock, stream, wire>>
    BY <1>3 DEF Receive
  <2> QED
    BY <2>5, <2>6, <2>7, <2>8 DEF TypeOK, mains
<1>4. CASE ReceiveNothing(t)
  BY <1>4 DEF ReceiveNothing, AfterHangup, Phases, Returned, Thrown
<1>5. CASE Throw(t)
  BY <1>5 DEF Throw, Phases, Thrown
<1>6. CASE Fail(t)
  BY <1>6 DEF Fail, Phases, Returned
<1>7. CASE Open(t)
  <2>1. Len(content[request[t]]) \in Nat
    BY <1>7, ContentAssumption DEF Open, Found
  <2>2. StartPosition(Len(content[request[t]])) \in Nat
    BY <2>1 DEF StartPosition
  <2> QED
    BY <1>7, <2>2 DEF Open, Phases, Streams
<1>8. CASE Read(t)
  <2> DEFINE file == request[t]
             position == stream[t].position
             count == gcount(file, position)
             new == [position |-> position + count, eof |-> count < buffer_size,
                     buffer |-> Filled(file, position), transmitted |-> 0]
  <2>1. file \in Files /\ position \in Nat /\ position <= Len(content[file])
    BY <1>8 DEF Read, Dialogue, Answer, Streaming, Streams
  <2>2. Filled(file, position) \in Seq(Bytes) /\ count \in Nat
    BY <2>1, FilledType, SizeAssumption
  <2>3. stream' = [stream EXCEPT ![t] = new] /\ task' = [task EXCEPT ![t] = "send_buffer"]
    BY <1>8 DEF Read
  <2> HIDE DEF count, file
  <2>4. new \in Streams
    <3>1. position + count \in Nat /\ 0 \in 0..buffer_size
      BY <2>1, <2>2, SizeAssumption
    <3>2. (count < buffer_size) \in BOOLEAN
      OBVIOUS
    <3> DEFINE full == Filled(file, position)
               next == position + count
               ended == count < buffer_size
    <3>3. full \in Seq(Bytes)
      BY <2>2
    <3> HIDE DEF full, next, ended
    <3>4. [position |-> next, eof |-> ended, buffer |-> full, transmitted |-> 0] \in Streams
      BY ONLY <3>1, <3>2, <3>3 DEF Streams, next, ended
    <3> QED
      BY <3>4 DEF full, next, ended
  <2> HIDE DEF new
  <2>5. stream' \in [Clients -> Streams]
    BY <2>3, <2>4
  <2>7. task' \in [Clients -> Phases]
    BY <2>3 DEF Phases
  <2>6. UNCHANGED <<main, client_sock, pending_tasks, cursor, separ, backlog, peer, inbox,
                    asked, sock, request, wire>>
    BY <1>8 DEF Read
  <2> QED
    BY <2>5, <2>6, <2>7
<1>9. CASE Send(t)
  <2>1. PICK n \in 1..(buffer_size - stream[t].transmitted) :
            /\ wire' = [wire EXCEPT ![Socket(t)] =
                  @ \o SubSeq(stream[t].buffer, stream[t].transmitted + 1,
                              stream[t].transmitted + n)]
            /\ stream' = [stream EXCEPT ![t].transmitted = @ + n]
    BY <1>9 DEF Send
  <2>2. /\ stream[t].buffer \in Seq(Bytes) /\ stream[t].transmitted \in 0..buffer_size
        /\ Len(stream[t].buffer) = buffer_size /\ buffer_size \in Nat
    BY <1>9, SizeAssumption DEF Send, Dialogue, Answer, AtSend, Streams
  <2>3. wire[Socket(t)] \in Seq(Bytes)
    BY <1>1
  <2> DEFINE from == stream[t].transmitted
             buffer == stream[t].buffer
             new == [stream[t] EXCEPT !.transmitted = @ + n]
  <2>a. from \in Nat /\ n \in Nat /\ from + n <= Len(buffer) /\ from + n \in 0..buffer_size
    BY <2>2
  <2>4. wire[Socket(t)] \o SubSeq(buffer, from + 1, from + n) \in Seq(Bytes)
    <3> HIDE DEF from, buffer
    <3>1. buffer \in Seq(Bytes)
      BY <2>2 DEF buffer
    <3> QED
      BY <2>3, <2>a, <3>1, ExtendProperties
  <2>b. new \in Streams
    BY <2>2, <2>a DEF Streams
  <2>5. stream' \in [Clients -> Streams]
    BY <2>1, <2>b
  <2>6. wire' \in [Clients -> Seq(Bytes)]
    BY <1>1, <2>1, <2>4
  <2> QED
    BY <1>9, <2>5, <2>6 DEF Send
<1>10. CASE SendFails(t)
  BY <1>2, <1>10 DEF SendFails, Phases, Returned
<1>11. CASE EndOfBuffer(t)
  <2>1. \/ task' = [task EXCEPT ![t] = "read"] /\ stream' = stream
        \/ task' = [task EXCEPT ![t] = "sent"] /\ stream' = [stream EXCEPT ![t] = NoStream]
    BY <1>11 DEF EndOfBuffer
  <2>2. task' \in [Clients -> Phases]
    BY <2>1 DEF Phases, Returned
  <2>3. stream' \in [Clients -> Streams]
    BY <1>2, <2>1
  <2> QED
    BY <1>11, <2>2, <2>3 DEF EndOfBuffer
<1> QED
  BY <1>3, <1>4, <1>5, <1>6, <1>7, <1>8, <1>9, <1>10, <1>11 DEF TaskStep

-----------------------------------------------------------------------------
(* Steps and the dialogue of one client *)

\* A step leaves what belongs to a client as it was
Same(u) ==
    /\ task'[u] = task[u] /\ sock'[u] = sock[u] /\ request'[u] = request[u]
    /\ stream'[u] = stream[u] /\ wire'[u] = wire[u]
    /\ inbox'[u] = inbox[u] /\ asked'[u] = asked[u]

LEMMA SameKeeps ==
    ASSUME NEW u \in Clients, Same(u), Question(u), Answer(u)
    PROVE  (Question(u) /\ Answer(u))'
<1>1. Named(u) => Named(u)'
  BY DEF Same, Named
<1>2. Question(u)'
  BY <1>1 DEF Same, Question
<1>3. /\ AtRead(u) => AtRead(u)'
      /\ AtSend(u) => AtSend(u)'
  BY DEF Same, AtRead, AtSend, AnswerByte
<1>4. Answer(u)'
  BY <1>3 DEF Same, Answer, Streaming, AnswerByte
<1> QED
  BY <1>2, <1>4

\* A task changes nothing that belongs to another client
LEMMA TaskAlone ==
    ASSUME TypeOK, NEW t \in Clients, sock[t] = t, TaskStep(t)
    PROVE  /\ \A u \in Clients \ {t} : Same(u)
           /\ UNCHANGED <<mains, backlog, peer, asked, sock>>
<1> USE DEF Same, mains, peers, TypeOK, Socket
<1>1. CASE Receive(t)
  BY <1>1 DEF Receive
<1>2. CASE ReceiveNothing(t)
  BY <1>2 DEF ReceiveNothing
<1>3. CASE Throw(t)
  BY <1>3 DEF Throw
<1>4. CASE Fail(t)
  BY <1>4 DEF Fail
<1>5. CASE Open(t)
  BY <1>5 DEF Open
<1>6. CASE Read(t)
  BY <1>6 DEF Read
<1>7. CASE Send(t)
  BY <1>7 DEF Send
<1>8. CASE SendFails(t)
  BY <1>8 DEF SendFails
<1>9. CASE EndOfBuffer(t)
  BY <1>9 DEF EndOfBuffer
<1> QED
  BY <1>1, <1>2, <1>3, <1>4, <1>5, <1>6, <1>7, <1>8, <1>9 DEF TaskStep

\* A task keeps its own dialogue right
LEMMA TaskOwn ==
    ASSUME TypeOK, NEW t \in Clients, Question(t), Answer(t), TaskStep(t)
    PROVE  (Question(t) /\ Answer(t))'
<1> USE DEF TypeOK, Question, Answer, Socket, Streaming, mains, peers
<1>0. sock[t] = t
  OBVIOUS
<1>1. CASE Receive(t)
  <2>1. PICK n \in 1..Len(inbox[t]) :
            LET line == Line(SubSeq(inbox[t], 1, n)) IN
            /\ n <= MAX_PATH
            /\ request' = [request EXCEPT ![t] = line]
            /\ task' = [task EXCEPT ![t] = IF line = <<>> THEN "empty" ELSE "send_file"]
    BY <1>1 DEF Receive
  <2>2. /\ inbox[t] = asked[t] /\ wire[t] = <<>> /\ asked' = asked /\ wire' = wire
        /\ stream' = stream /\ sock' = sock
    BY <1>1 DEF Receive
  <2>3. request'[t] = Line(SubSeq(inbox[t], 1, n)) /\ task'[t] \in {"empty", "send_file"}
    BY <2>1
  <2>4. Named(t)'
    BY <2>1, <2>2, <2>3 DEF Named
  <2> QED
    BY <2>2, <2>3, <2>4
<1>2. CASE ReceiveNothing(t)
  BY <1>2 DEF ReceiveNothing, AfterHangup
<1>3. CASE Throw(t)
  <2>1. Named(t)' <=> Named(t)
    BY <1>3 DEF Throw, Named
  <2> QED
    BY <1>3, <2>1 DEF Throw
<1>4. CASE Fail(t)
  <2>1. Named(t)' <=> Named(t)
    BY <1>4 DEF Fail, Named
  <2> QED
    BY <1>4, <2>1 DEF Fail
<1>5. CASE Open(t)
  <2> DEFINE size == Len(content[request[t]])
  <2>1. Named(t)' <=> Named(t)
    BY <1>5 DEF Open, Named
  <2>2. /\ task'[t] = "read" /\ request[t] \in Files /\ request' = request
        /\ wire[t] = <<>> /\ wire' = wire /\ sock' = sock
        /\ stream'[t].position = StartPosition(size)
    BY <1>5 DEF Open, Found, Streams
  <2>3. size \in Nat /\ buffer_size \in Nat
    BY <2>2, ContentAssumption, SizeAssumption
  <2>4. stream'[t].position <= size
    BY <2>2, <2>3 DEF StartPosition
  <2>5. AtRead(t)'
    BY <2>2, <2>3 DEF AtRead, StartPosition
  <2> QED
    BY <1>5, <2>1, <2>2, <2>4, <2>5 DEF Open
<1>6. CASE Read(t)
  <2> DEFINE file == request[t]
             position == stream[t].position
             size == Len(content[file])
  <2>1. Named(t)' <=> Named(t)
    BY <1>6 DEF Read, Named
  <2>2. /\ task[t] = "read" /\ task'[t] = "send_buffer"
        /\ request' = request /\ wire' = wire /\ sock' = sock
        /\ stream'[t] = [position |-> position + gcount(file, position),
                         eof |-> gcount(file, position) < buffer_size,
                         buffer |-> Filled(file, position), transmitted |-> 0]
    BY <1>6 DEF Read
  <2>3. /\ file \in Files /\ size \in Nat /\ buffer_size \in Nat \ {0}
        /\ position \in Nat /\ position <= size
    BY <2>2, ContentAssumption, SizeAssumption DEF Streams
  <2>4. /\ Len(Filled(file, position)) = buffer_size
        /\ gcount(file, position) \in 0..buffer_size
        /\ position + gcount(file, position) <= size
    BY <2>3, FilledType
  <2>5. AtRead(t)
    BY <2>2
  <2>6. Len(wire[t]) \in Nat
    OBVIOUS
  <2>7. ASSUME NEW j \in 1..buffer_size
        PROVE  Filled(file, position)[j] = AnswerByte(file, Len(wire[t]) + j)
    <3>1. CASE buffer_size < size
      BY <3>1, <2>3, <2>5 DEF AtRead, Filled, AnswerByte
    <3>2. CASE ~ (buffer_size < size)
      BY <3>2, <2>3, <2>5 DEF AtRead, Filled, AnswerByte
    <3> QED
      BY <3>1, <3>2
  <2>8. gcount(file, position) = buffer_size =>
            buffer_size < size /\ position = Len(wire[t])
    BY <2>3, <2>5, <2>4 DEF AtRead
  <2> HIDE DEF file, position, size
  <2>9. AtSend(t)'
    <3>1. /\ stream'[t].transmitted = 0
          /\ stream'[t].buffer = Filled(file, position)
          /\ stream'[t].position = position + gcount(file, position)
          /\ stream'[t].eof = (gcount(file, position) < buffer_size)
      BY <2>2
    <3>a. ~ stream'[t].eof => gcount(file, position) = buffer_size
      <4>1. CASE gcount(file, position) < buffer_size
        <5>1. stream'[t].eof = TRUE
          BY <3>1, <4>1
        <5> QED
          BY <5>1
      <4>2. CASE ~ (gcount(file, position) < buffer_size)
        BY <4>2, <2>3, <2>4
      <4> QED
        BY <4>1, <4>2
    <3>2. request'[t] = file /\ wire'[t] = wire[t] /\ Len(content[file]) = size
      BY <2>2 DEF file, size
    <3>3. Len(stream'[t].buffer) = buffer_size /\ stream'[t].transmitted <= Len(wire'[t])
      BY <3>1, <3>2, <2>4, <2>6
    <3>4. Len(wire'[t]) - stream'[t].transmitted = Len(wire[t])
      BY <3>1, <3>2, <2>6
    <3>5. \A j \in 1..buffer_size : stream'[t].buffer[j] =
              AnswerByte(file, (Len(wire'[t]) - stream'[t].transmitted) + j)
      BY <3>1, <3>4, <2>7
    <3>6. ~ stream'[t].eof =>
               buffer_size < Len(content[file])
                 /\ stream'[t].position =
                        (Len(wire'[t]) - stream'[t].transmitted) + buffer_size
      BY <3>1, <3>a, <3>2, <3>4, <2>8
    <3> QED
      BY <3>2, <3>3, <3>5, <3>6 DEF AtSend, AnswerByte
  <2>10. request'[t] = file /\ file \in Files /\ stream'[t].position <= size
    BY <2>2, <2>3, <2>4 DEF file
  <2> QED
    BY <1>6, <2>1, <2>2, <2>9, <2>10 DEF Read, file, size, AnswerByte
<1>7. CASE Send(t)
  <2>1. PICK n \in 1..(buffer_size - stream[t].transmitted) :
            /\ wire' = [wire EXCEPT ![t] =
                  @ \o SubSeq(stream[t].buffer, stream[t].transmitted + 1,
                              stream[t].transmitted + n)]
            /\ stream' = [stream EXCEPT ![t].transmitted = @ + n]
    BY <1>7 DEF Send
  <2> DEFINE w == wire[t]
             b == stream[t].buffer
             from == stream[t].transmitted
             new == w \o SubSeq(b, from + 1, from + n)
             file == request[t]
  <2>2. /\ task[t] = "send_buffer" /\ task' = task /\ request' = request
        /\ sock' = sock /\ asked' = asked /\ AtSend(t) /\ file \in Files
    BY <1>7 DEF Send
  <2>3. /\ w \in Seq(Bytes) /\ b \in Seq(Bytes) /\ from \in Nat /\ n \in Nat /\ n >= 1
        /\ from + n <= Len(b) /\ Len(b) = buffer_size /\ buffer_size \in Nat
        /\ from <= Len(w) /\ Len(w) \in Nat
    <3>1. stream[t] \in Streams /\ wire[t] \in Seq(Bytes) /\ buffer_size \in Nat
      BY SizeAssumption
    <3>2. b \in Seq(Bytes) /\ from \in 0..buffer_size
      BY <3>1 DEF Streams
    <3>3. Len(b) = buffer_size /\ from <= Len(w)
      BY <2>2 DEF AtSend
    <3>4. n \in 1..(buffer_size - from)
      BY <2>1
    <3> HIDE DEF w, b, from
    <3>5. n \in Nat /\ n >= 1 /\ from + n <= buffer_size
      BY <3>1, <3>2, <3>4
    <3>6. w \in Seq(Bytes) /\ Len(w) \in Nat
      BY <3>1 DEF w
    <3> QED
      BY <3>1, <3>2, <3>3, <3>5, <3>6
  <2>4. /\ wire'[t] = new
        /\ stream'[t] = [stream[t] EXCEPT !.transmitted = from + n]
    BY <2>1
  <2>5. stream[t] \in Streams
    OBVIOUS
  <2>6. \A j \in 1..buffer_size : b[j] = AnswerByte(file, (Len(w) - from) + j)
    BY <2>2 DEF AtSend
  <2>7. w # <<>> => \A i \in 1..Len(w) : w[i] = AnswerByte(file, i)
    OBVIOUS
  <2>8. Named(t)'
    BY <2>2 DEF Named
  <2>9. /\ stream'[t].transmitted = from + n /\ stream'[t].buffer = b
        /\ stream'[t].eof = stream[t].eof
        /\ stream'[t].position = stream[t].position
    BY <2>4, <2>5 DEF Streams
  <2> HIDE DEF w, b, from, new, file
  <2>10. /\ new \in Seq(Bytes) /\ Len(new) = Len(w) + n
         /\ \A i \in 1..(Len(w) + n) :
               new[i] = IF i <= Len(w) THEN w[i] ELSE b[from + (i - Len(w))]
    <3>1. w \in Seq(Bytes) /\ b \in Seq(Bytes) /\ from \in Nat /\ n \in Nat
      BY <2>3
    <3>2. from + n <= Len(b)
      BY <2>3
    <3>3. /\ w \o SubSeq(b, from + 1, from + n) \in Seq(Bytes)
          /\ Len(w \o SubSeq(b, from + 1, from + n)) = Len(w) + n
          /\ \A i \in 1..(Len(w) + n) :
                (w \o SubSeq(b, from + 1, from + n))[i] =
                    IF i <= Len(w) THEN w[i] ELSE b[from + (i - Len(w))]
      BY ONLY <3>1, <3>2, ExtendProperties
    <3> QED
      BY ONLY <3>3 DEF new
  <2>11. ASSUME NEW i \in 1..Len(new)
         PROVE  new[i] = AnswerByte(file, i)
    <3>1. CASE i <= Len(w)
      <4>1. w # <<>>
        BY <3>1, <2>3
      <4> QED
        <5>1. i \in 1..(Len(w) + n) /\ i \in 1..Len(w)
          BY <3>1, <2>3, <2>10
        <5>2. new[i] = w[i]
          BY <3>1, <5>1, <2>10
        <5> QED
          BY <4>1, <5>1, <5>2, <2>7
    <3>2. CASE ~ (i <= Len(w))
      <4>0. Len(new) = Len(w) + n
        BY <2>10
      <4>1. /\ from + (i - Len(w)) \in 1..buffer_size
            /\ (Len(w) - from) + (from + (i - Len(w))) = i
        <5> DEFINE l == Len(w)
        <5>1. l \in Nat /\ i \in 1..(l + n) /\ ~ (i <= l)
          BY <2>3, <3>2, <4>0
        <5>2. from \in Nat /\ n \in Nat /\ buffer_size \in Nat /\ from + n <= buffer_size
          BY <2>3
        <5> HIDE DEF l
        <5>3. from + (i - l) \in 1..buffer_size /\ (l - from) + (from + (i - l)) = i
          BY <5>1, <5>2
        <5> QED
          BY <5>3 DEF l
      <4>2. new[i] = b[from + (i - Len(w))]
        BY <3>2, <2>3, <2>10
      <4> QED
        BY <4>1, <4>2, <2>6
    <3> QED
      BY <3>1, <3>2
  <2>12. Len(new) - (from + n) = Len(w) - from
    BY <2>3, <2>10
  <2>13. AtSend(t)'
    <3>1. /\ ~ stream[t].eof =>
               buffer_size < Len(content[file])
                 /\ stream[t].position = (Len(w) - from) + buffer_size
      BY <2>2 DEF AtSend, w, from, file
    <3>2. request'[t] = file
      BY <2>2 DEF file
    <3>3. from + n <= Len(new)
      BY <2>3, <2>10
    <3>4. Len(stream'[t].buffer) = buffer_size /\ stream'[t].transmitted <= Len(wire'[t])
      BY <2>3, <2>4, <2>9, <3>3
    <3>5. Len(wire'[t]) - stream'[t].transmitted = Len(w) - from
      BY <2>4, <2>9, <2>12
    <3>6. \A j \in 1..buffer_size : stream'[t].buffer[j] =
              AnswerByte(file, (Len(wire'[t]) - stream'[t].transmitted) + j)
      BY <2>6, <2>9, <3>5
    <3>7. ~ stream'[t].eof =>
               buffer_size < Len(content[file])
                 /\ stream'[t].position =
                        (Len(wire'[t]) - stream'[t].transmitted) + buffer_size
      BY <2>9, <3>1, <3>5
    <3> QED
      BY <3>2, <3>4, <3>6, <3>7 DEF AtSend, AnswerByte
  <2>14. request'[t] = file /\ file \in Files /\ task'[t] = "send_buffer" /\ sock'[t] = t
         /\ stream'[t].position <= Len(content[file])
    BY <2>2, <2>9 DEF file
  <2> QED
    BY <2>4, <2>8, <2>11, <2>13, <2>14 DEF AnswerByte
<1>8. CASE SendFails(t)
  <2>1. Named(t)' <=> Named(t)
    BY <1>8 DEF SendFails, Named
  <2>2. /\ task[t] = "send_buffer" /\ task'[t] = "not sent" /\ wire' = wire
        /\ request' = request /\ sock' = sock
    BY <1>8 DEF SendFails
  <2> QED
    BY <2>1, <2>2 DEF AnswerByte
<1>9. CASE EndOfBuffer(t)
  <2>1. Named(t)' <=> Named(t)
    BY <1>9 DEF EndOfBuffer, Named
  <2>2. /\ task[t] = "send_buffer" /\ wire' = wire /\ request' = request /\ sock' = sock
        /\ stream[t].transmitted = buffer_size /\ AtSend(t)
    BY <1>9 DEF EndOfBuffer
  <2>3. CASE ReadOn(t)
    <3>1. task'[t] = "read" /\ stream' = stream /\ ~ stream[t].eof
      BY <1>9, <2>3 DEF EndOfBuffer, ReadOn
    <3>2. Len(wire[t]) \in Nat /\ buffer_size \in Nat
      BY SizeAssumption
    <3>3. AtRead(t)'
      BY <2>2, <3>1, <3>2 DEF AtSend, AtRead
    <3> QED
      BY <2>1, <2>2, <3>1, <3>3 DEF AnswerByte
  <2>4. CASE ~ ReadOn(t)
    <3>1. task'[t] = "sent"
      BY <1>9, <2>4 DEF EndOfBuffer
    <3> QED
      BY <2>1, <2>2, <3>1 DEF AnswerByte
  <2> QED
    BY <2>3, <2>4
<1> QED
  BY <1>1, <1>2, <1>3, <1>4, <1>5, <1>6, <1>7, <1>8, <1>9 DEF TaskStep

-----------------------------------------------------------------------------
(* The invariant holds in every step *)

Active(t) == task[t] \in {"get_request", "send_file", "read", "send_buffer"}

LEMMA TaskActive ==
    ASSUME NEW t \in Clients, TaskStep(t)
    PROVE  Active(t)
  BY DEF TaskStep, Active, Receive, ReceiveNothing, Throw, Fail, Open, Read, Send,
         SendFails, EndOfBuffer

LEMMA InvInit == Init => IInv
<1> SUFFICES ASSUME Init PROVE IInv
  OBVIOUS
<1>1. TypeOK
  BY TypeInit
<1>2. Dialogue
  BY DEF Init, Dialogue, Question, Answer, Streaming
<1>3. Fresh
  BY DEF Init, Fresh
<1>4. Listed
  BY DEF Init, Listed
<1> QED
  BY <1>1, <1>2, <1>3, <1>4 DEF IInv

\* A step of the main thread other than an accept leaves all clients alone
LEMMA MainAlone ==
    ASSUME TypeOK,
           \/ StartAccept \/ AcceptFails \/ Collect \/ PassBy \/ Rethrow
           \/ EndOfList \/ Exit
    PROVE  UNCHANGED <<peers, tasks>>
  BY DEF StartAccept, AcceptFails, Collect, PassBy, Rethrow, EndOfList, Exit

LEMMA DialogueStep ==
    ASSUME IInv, Next
    PROVE  Dialogue'
<1>0. TypeOK /\ Dialogue /\ Fresh
  BY DEF IInv
<1>1. CASE StartAccept \/ AcceptFails \/ Collect \/ PassBy \/ Rethrow \/ EndOfList \/ Exit
  <2>1. \A u \in Clients : Same(u)
    BY <1>0, <1>1, MainAlone DEF Same, peers, tasks
  <2> QED
    BY <1>0, <2>1, SameKeeps DEF Dialogue
<1>2. CASE accept_client
  <2>0. PICK c \in Clients : c = Head(backlog)
    BY <1>0, <1>2 DEF accept_client, TypeOK
  <2>1. task[c] = "none"
    BY <1>0, <1>2, <2>0 DEF accept_client, TypeOK, Fresh
  <2>2. \A u \in Clients \ {c} : Same(u)
    BY <1>0, <1>2, <2>0 DEF accept_client, TypeOK, Same
  <2>3. Question(c) /\ Answer(c)
    BY <1>0, <2>1 DEF Dialogue
  <2>4. /\ task'[c] = "get_request" /\ sock'[c] = c /\ wire'[c] = wire[c]
        /\ inbox'[c] = inbox[c] /\ asked'[c] = asked[c]
    BY <1>0, <1>2, <2>0, <2>1 DEF accept_client, TypeOK
  <2>5. (Question(c) /\ Answer(c))'
    <3>1. wire[c] = <<>> /\ inbox[c] = asked[c]
      BY <2>1, <2>3 DEF Question
    <3> QED
      BY <2>4, <3>1 DEF Question, Answer, Streaming
  <2> QED
    BY <1>0, <2>2, <2>5, SameKeeps DEF Dialogue
<1>3. ASSUME NEW c \in Clients, Connect(c) \/ Hangup(c) PROVE Dialogue'
  <2>1. \A u \in Clients : Same(u)
    BY <1>3 DEF Connect, Hangup, Same, tasks
  <2> QED
    BY <1>0, <2>1, SameKeeps DEF Dialogue
<1>4. ASSUME NEW c \in Clients, Ask(c) PROVE Dialogue'
  <2>1. \A u \in Clients \ {c} : Same(u)
    BY <1>0, <1>4 DEF Ask, Same, tasks, TypeOK
  <2>2. /\ asked[c] = <<>> /\ inbox'[c] = asked'[c] /\ task' = task /\ sock' = sock
        /\ request' = request /\ stream' = stream /\ wire' = wire
    BY <1>0, <1>4 DEF Ask, tasks, TypeOK
  <2>3. Question(c) /\ Answer(c)
    BY <1>0 DEF Dialogue
  <2>4. ~ Named(c)
    BY <2>2 DEF Named
  <2>5. wire[c] = <<>> /\ task[c] \notin {"send_file", "read", "send_buffer"}
    BY <2>3, <2>4 DEF Question
  <2>6. (Question(c) /\ Answer(c))'
    BY <2>2, <2>3, <2>5 DEF Question, Answer, Streaming
  <2> QED
    BY <1>0, <2>1, <2>6, SameKeeps DEF Dialogue
<1>5. ASSUME NEW t \in Clients, TaskStep(t) PROVE Dialogue'
  <2>1. Question(t) /\ Answer(t) /\ sock[t] = t
    BY <1>0 DEF Dialogue, Question
  <2>2. \A u \in Clients \ {t} : Same(u)
    BY <1>0, <1>5, <2>1, TaskAlone
  <2>3. (Question(t) /\ Answer(t))'
    BY <1>0, <1>5, <2>1, TaskOwn
  <2> QED
    BY <1>0, <2>2, <2>3, SameKeeps DEF Dialogue
<1> QED
  BY <1>1, <1>2, <1>3, <1>4, <1>5, Steps

LEMMA FreshStep ==
    ASSUME IInv, Next
    PROVE  Fresh'
<1>0. TypeOK /\ Dialogue /\ Fresh
  BY DEF IInv
<1>1. CASE StartAccept \/ AcceptFails \/ Collect \/ PassBy \/ Rethrow \/ EndOfList \/ Exit
  BY <1>0, <1>1, MainAlone DEF Fresh, peers, tasks
<1>2. CASE accept_client
  <2> DEFINE c == Head(backlog)
  <2>1. /\ backlog \in Seq(Clients) /\ backlog # <<>> /\ backlog' = Tail(backlog)
        /\ task' = [task EXCEPT ![c] = "get_request"] /\ peer' = peer
    BY <1>0, <1>2 DEF accept_client, TypeOK
  <2>2. /\ Len(backlog') = Len(backlog) - 1
        /\ \A i \in 1..Len(backlog') :
              i + 1 \in 1..Len(backlog) /\ backlog'[i] = backlog[i + 1]
        /\ 1 \in 1..Len(backlog) /\ c = backlog[1]
    BY <2>1
  <2>3. \A i \in 1..Len(backlog') : backlog'[i] # c
    BY <1>0, <2>1, <2>2 DEF Fresh
  <2>4. \A u \in Clients \ {c} : task'[u] = task[u]
    BY <1>0, <2>1 DEF TypeOK
  <2>5. \A i \in 1..Len(backlog') : backlog'[i] \in Clients
    BY <2>1, <2>2
  <2>6. \A i \in 1..Len(backlog') : task'[backlog'[i]] = "none" /\ peer'[backlog'[i]] # "away"
    BY <1>0, <2>1, <2>2, <2>3, <2>4, <2>5 DEF Fresh
  <2>7. \A i, j \in 1..Len(backlog') : backlog'[i] = backlog'[j] => i = j
    <3>1. SUFFICES ASSUME NEW i \in 1..Len(backlog'), NEW j \in 1..Len(backlog'),
                          backlog'[i] = backlog'[j]
                   PROVE  i = j
      OBVIOUS
    <3>2. i + 1 = j + 1
      BY <1>0, <2>2, <3>1 DEF Fresh
    <3> QED
      BY <3>2, <2>1, <2>2
  <2>8. peer[c] # "away"
    BY <1>0, <2>2 DEF Fresh
  <2>9. \A u \in Clients : peer'[u] = "away" => task'[u] = "none"
    BY <1>0, <2>1, <2>4, <2>8 DEF Fresh
  <2> QED
    BY <2>6, <2>7, <2>9 DEF Fresh
<1>3. ASSUME NEW c \in Clients, Connect(c) PROVE Fresh'
  <2>1. /\ peer[c] = "away" /\ peer' = [peer EXCEPT ![c] = "connected"]
        /\ backlog' = Append(backlog, c) /\ task' = task /\ backlog \in Seq(Clients)
    BY <1>0, <1>3 DEF Connect, tasks, TypeOK
  <2>2. /\ Len(backlog') = Len(backlog) + 1
        /\ \A i \in 1..Len(backlog) : backlog'[i] = backlog[i] /\ backlog[i] \in Clients
        /\ backlog'[Len(backlog) + 1] = c /\ Len(backlog) \in Nat
    BY <2>1
  <2>3. \A i \in 1..Len(backlog) : backlog[i] # c
    BY <1>0, <2>1 DEF Fresh
  <2>4. \A u \in Clients \ {c} : peer'[u] = peer[u]
    BY <1>0, <2>1 DEF TypeOK
  <2>5. peer'[c] = "connected" /\ task[c] = "none"
    BY <1>0, <2>1 DEF TypeOK, Fresh
  <2>6. \A i \in 1..Len(backlog') : task'[backlog'[i]] = "none" /\ peer'[backlog'[i]] # "away"
    BY <1>0, <2>1, <2>2, <2>3, <2>4, <2>5 DEF Fresh
  <2>7. \A i, j \in 1..Len(backlog') : backlog'[i] = backlog'[j] => i = j
    BY <1>0, <2>2, <2>3 DEF Fresh
  <2>8. \A u \in Clients : peer'[u] = "away" => task'[u] = "none"
    BY <1>0, <2>1, <2>4, <2>5 DEF Fresh
  <2> QED
    BY <2>6, <2>7, <2>8 DEF Fresh
<1>4. ASSUME NEW c \in Clients, Ask(c) \/ Hangup(c) PROVE Fresh'
  <2>1. backlog' = backlog /\ task' = task
    BY <1>4 DEF Ask, Hangup, tasks
  <2>2. \A u \in Clients : peer'[u] = "away" <=> peer[u] = "away"
    BY <1>0, <1>4 DEF Ask, Hangup, TypeOK
  <2>3. \A i \in 1..Len(backlog) : backlog[i] \in Clients
    BY <1>0 DEF TypeOK
  <2> QED
    BY <1>0, <2>1, <2>2, <2>3 DEF Fresh
<1>5. ASSUME NEW t \in Clients, TaskStep(t) PROVE Fresh'
  <2>1. sock[t] = t
    BY <1>0 DEF Dialogue, Question
  <2>2. /\ \A u \in Clients \ {t} : task'[u] = task[u]
        /\ backlog' = backlog /\ peer' = peer
    BY <1>0, <1>5, <2>1, TaskAlone DEF Same
  <2>3. task[t] # "none"
    BY <1>5, TaskActive DEF Active
  <2>a. \A i \in 1..Len(backlog) : backlog[i] \in Clients
    BY <1>0 DEF TypeOK
  <2>b. \A i \in 1..Len(backlog) : backlog[i] # t
    BY <1>0, <2>3 DEF Fresh
  <2>4. \A i \in 1..Len(backlog) : backlog[i] \in Clients \ {t}
    BY <2>a, <2>b
  <2>5. peer[t] # "away"
    BY <1>0, <2>3 DEF Fresh
  <2> QED
    BY <1>0, <2>2, <2>4, <2>5 DEF Fresh
<1> QED
  BY <1>1, <1>2, <1>3, <1>4, <1>5, Steps

LEMMA ListedStep ==
    ASSUME IInv, Next
    PROVE  Listed'
<1>0. TypeOK /\ Dialogue /\ Listed /\ pending_tasks \in Seq(Clients)
  BY DEF IInv, TypeOK
<1>1. CASE StartAccept \/ AcceptFails \/ PassBy \/ Rethrow \/ EndOfList \/ Exit
  <2>1. task' = task /\ pending_tasks' = pending_tasks
    BY <1>1 DEF StartAccept, AcceptFails, PassBy, Rethrow, EndOfList, Exit, tasks
  <2> QED
    BY <1>0, <2>1 DEF Listed
<1>2. CASE accept_client
  <2>1. PICK c \in Clients : /\ pending_tasks' = Append(pending_tasks, c)
                             /\ task' = [task EXCEPT ![c] = "get_request"]
    <3>1. Head(backlog) \in Clients
      BY <1>0, <1>2 DEF accept_client, TypeOK
    <3> QED
      BY <3>1, <1>2 DEF accept_client
  <2>2. /\ Len(pending_tasks') = Len(pending_tasks) + 1
        /\ \A i \in 1..Len(pending_tasks) : pending_tasks'[i] = pending_tasks[i]
        /\ pending_tasks'[Len(pending_tasks) + 1] = c /\ Len(pending_tasks) \in Nat
    BY <1>0, <2>1
  <2>3. \A u \in Clients \ {c} : task'[u] = task[u]
    BY <1>0, <2>1 DEF TypeOK
  <2> QED
    BY <1>0, <2>2, <2>3 DEF Listed
<1>3. CASE Collect
  <2>1. /\ cursor \in 1..Len(pending_tasks) /\ task' = task
        /\ task[pending_tasks[cursor]] \in Returned
        /\ pending_tasks' = RemoveAt(pending_tasks, cursor)
    BY <1>0, <1>3 DEF Collect, Erase, tasks, TypeOK
  <2>2. /\ Len(pending_tasks') = Len(pending_tasks) - 1
        /\ \A i \in 1..(Len(pending_tasks) - 1) :
              pending_tasks'[i] = IF i < cursor THEN pending_tasks[i]
                                                ELSE pending_tasks[i + 1]
    BY <1>0, <2>1, RemoveAtProperties
  <2>3. ASSUME NEW t \in Clients, Active(t)
        PROVE  \E i \in 1..Len(pending_tasks') : pending_tasks'[i] = t
    <3>1. PICK i \in 1..Len(pending_tasks) : pending_tasks[i] = t
      BY <1>0, <2>3 DEF Listed, Active
    <3>2. i # cursor
      BY <2>1, <2>3, <3>1 DEF Active, Returned
    <3>3. Len(pending_tasks) \in Nat
      BY <1>0
    <3>4. CASE i < cursor
      <4>1. i \in 1..(Len(pending_tasks) - 1)
        BY <2>1, <3>3, <3>4
      <4> QED
        BY <2>2, <3>1, <3>4, <4>1
    <3>5. CASE ~ (i < cursor)
      <4>1. i - 1 \in 1..(Len(pending_tasks) - 1) /\ ~ (i - 1 < cursor) /\ (i - 1) + 1 = i
        BY <2>1, <3>2, <3>3, <3>5
      <4> QED
        BY <2>2, <3>1, <4>1
    <3> QED
      BY <3>4, <3>5
  <2> QED
    BY <2>1, <2>3 DEF Listed, Active
<1>4. ASSUME NEW c \in Clients, Connect(c) \/ Ask(c) \/ Hangup(c) PROVE Listed'
  <2>1. task' = task /\ pending_tasks' = pending_tasks
    BY <1>4 DEF Connect, Ask, Hangup, tasks, mains
  <2> QED
    BY <1>0, <2>1 DEF Listed
<1>5. ASSUME NEW t \in Clients, TaskStep(t) PROVE Listed'
  <2>1. sock[t] = t
    BY <1>0 DEF Dialogue, Question
  <2>2. /\ \A u \in Clients \ {t} : task'[u] = task[u]
        /\ pending_tasks' = pending_tasks
    BY <1>0, <1>5, <2>1, TaskAlone DEF Same, mains
  <2>3. Active(t)
    BY <1>5, TaskActive
  <2> QED
    BY <1>0, <2>2, <2>3 DEF Listed, Active
<1> QED
  BY <1>1, <1>2, <1>3, <1>4, <1>5, Steps

LEMMA InvStep == IInv /\ [Next]_vars => IInv'
<1> SUFFICES ASSUME IInv, [Next]_vars PROVE IInv'
  OBVIOUS
<1>1. CASE Next
  <2>1. TypeOK /\ Dialogue
    BY DEF IInv
  <2>2. TypeOK'
    BY <1>1, <2>1, Steps, TypeMain, TypeClient, TypeTask
  <2> QED
    BY <1>1, <2>2, DialogueStep, FreshStep, ListedStep DEF IInv
<1>2. CASE UNCHANGED vars
  <2>1. UNCHANGED <<main, client_sock, pending_tasks, cursor, separ, backlog, peer, inbox,
                    asked, task, sock, request, stream, wire>>
    BY <1>2 DEF vars, mains, peers, tasks
  <2>2. \A u \in Clients : Same(u)
    BY <2>1 DEF Same
  <2>3. Dialogue'
    BY <2>2, SameKeeps DEF IInv, Dialogue
  <2>4. TypeOK' /\ Fresh' /\ Listed'
    BY <2>1 DEF IInv, TypeOK, Fresh, Listed
  <2> QED
    BY <2>3, <2>4 DEF IInv
<1> QED
  BY <1>1, <1>2

THEOREM Invariant == Spec => []IInv
  BY InvInit, InvStep, PTL DEF Spec

-----------------------------------------------------------------------------
(* What follows *)

\* The types of the loop's variables, tasks and streams (main.cpp:145-250,
\* 418-466).
THEOREM TypeCorrect == Spec => []TypeOK
  BY Invariant, PTL DEF IInv

\* Every client gets the answer to a first part of its own request, whatever
\* the tasks of the others do (main.cpp:160-210, 212-250, 441-452).
THEOREM AnswersOwn == Spec => []OwnAnswer
<1>1. IInv => OwnAnswer
  <2> SUFFICES ASSUME IInv, NEW c \in Clients, wire[c] # <<>>
               PROVE  \E n \in 1..Len(asked[c]) :
                          LET file == Line(SubSeq(asked[c], 1, n)) IN
                              /\ n <= MAX_PATH
                              /\ file \in Files
                              /\ \A i \in 1..Len(wire[c]) : wire[c][i] = AnswerByte(file, i)
    BY DEF OwnAnswer
  <2>1. /\ Named(c) /\ request[c] \in Files
        /\ \A i \in 1..Len(wire[c]) : wire[c][i] = AnswerByte(request[c], i)
    BY DEF IInv, Dialogue, Question, Answer
  <2>2. PICK n \in 1..Len(asked[c]) :
            n <= MAX_PATH /\ request[c] = Line(SubSeq(asked[c], 1, n))
    BY <2>1 DEF Named
  <2> QED
    BY <2>1, <2>2
<1> QED
  BY <1>1, Invariant, PTL

\* When main has returned no task runs: the list that is destroyed on the way
\* holds every task that has not ended (main.cpp:441, 457-463).
THEOREM NoneOutlives == Spec => []NoTaskOutlivesMain
<1>1. Init => NoTaskOutlivesMain
  BY DEF Init, NoTaskOutlivesMain
<1>2. IInv /\ NoTaskOutlivesMain /\ [Next]_vars => NoTaskOutlivesMain'
  <2> SUFFICES ASSUME IInv, NoTaskOutlivesMain, [Next]_vars, main' = "exited"
               PROVE  \A t \in Clients : task'[t] = "none" \/ Ready(t)'
    BY DEF NoTaskOutlivesMain
  <2>1. CASE UNCHANGED vars
    BY <2>1 DEF vars, mains, tasks, NoTaskOutlivesMain, Ready
  <2>2. CASE Exit
    <3>1. /\ task' = task
          /\ \A i \in 1..Len(pending_tasks) : Ready(pending_tasks[i])
      BY <2>2 DEF Exit, Awaited, tasks
    <3>2. ASSUME NEW t \in Clients, Active(t) PROVE FALSE
      <4>1. PICK i \in 1..Len(pending_tasks) : pending_tasks[i] = t
        BY <3>2 DEF IInv, Listed, Active
      <4> QED
        BY <3>1, <3>2, <4>1 DEF Active, Ready, Returned, Thrown
    <3>3. \A t \in Clients : task[t] \in Phases
      BY DEF IInv, TypeOK
    <3> QED
      BY <3>1, <3>2, <3>3 DEF Phases, Active, Ready
  <2>3. CASE StartAccept \/ AcceptFails \/ accept_client \/ Collect \/ PassBy
                \/ Rethrow \/ EndOfList
    BY <2>3 DEF StartAccept, AcceptFails, accept_client, Collect, PassBy, Rethrow, EndOfList
  <2>4. ASSUME NEW c \in Clients, Connect(c) \/ Ask(c) \/ Hangup(c) PROVE FALSE
    BY <2>4 DEF Connect, Ask, Hangup, Alive, mains
  <2>5. ASSUME NEW t \in Clients, Alive, TaskStep(t) PROVE FALSE
    <3>1. sock[t] = t /\ TypeOK
      BY DEF IInv, Dialogue, Question
    <3>2. main' = main
      BY <2>5, <3>1, TaskAlone DEF mains
    <3> QED
      BY <2>5, <3>2 DEF Alive
  <2> QED
    BY <2>1, <2>2, <2>3, <2>4, <2>5, Steps
<1> QED
  BY <1>1, <1>2, Invariant, PTL DEF Spec

-----------------------------------------------------------------------------
(* What ends the server *)

\* Why a task has thrown, and that a request is not there before it is read
Excused == \A t \in Clients :
    /\ task[t] = "logic_error" => peer[t] = "reset"
    /\ task[t] = "filesystem_error" => request[t] \in Refused \/ separ = "unconvertible"
    /\ task[t] \in {"none", "get_request"} => request[t] = <<>>

\* Clients that have been accepted
Accepted == {t \in Clients : task[t] # "none"}

\* What a task makes of its own request and phase
LEMMA TaskEffect ==
    ASSUME TypeOK, NEW t \in Clients, sock[t] = t, TaskStep(t)
    PROVE  /\ task'[t] \notin {"none", "get_request"}
           /\ task'[t] = "logic_error" => peer[t] = "reset"
           /\ task'[t] = "filesystem_error" => request[t] \in Refused \/ separ = "unconvertible"
           /\ task[t] # "get_request" => request' = request
           /\ task[t] = "get_request" => task'[t] # "filesystem_error"
<1> USE DEF TypeOK, Socket
<1>1. CASE Receive(t)
  <2>1. task'[t] \in {"empty", "send_file"} /\ task[t] = "get_request"
    BY <1>1 DEF Receive
  <2> QED
    BY <2>1
<1>2. CASE ReceiveNothing(t)
  BY <1>2 DEF ReceiveNothing, AfterHangup
<1>3. CASE Throw(t)
  BY <1>3 DEF Throw
<1>4. CASE Fail(t)
  BY <1>4 DEF Fail
<1>5. CASE Open(t)
  BY <1>5 DEF Open
<1>6. CASE Read(t)
  BY <1>6 DEF Read
<1>7. CASE Send(t)
  BY <1>7 DEF Send
<1>8. CASE SendFails(t)
  BY <1>8 DEF SendFails
<1>9. CASE EndOfBuffer(t)
  BY <1>9 DEF EndOfBuffer
<1> QED
  BY <1>1, <1>2, <1>3, <1>4, <1>5, <1>6, <1>7, <1>8, <1>9 DEF TaskStep

\* Nothing that excuses the end of the server is ever taken back
LEMMA ExcusesStay ==
    ASSUME IInv, Excused, Next
    PROVE  /\ Excused'
           /\ \A c \in Clients : peer[c] = "reset" => peer'[c] = "reset"
           /\ \A t \in Clients : request[t] \in Refused => request'[t] = request[t]
           /\ separ' = separ
           /\ Accepted \subseteq Accepted'
<1>0. TypeOK /\ Dialogue /\ Fresh
  BY DEF IInv
<1>1. CASE StartAccept \/ AcceptFails \/ Collect \/ PassBy \/ Rethrow \/ EndOfList \/ Exit
  <2>1. peer' = peer /\ task' = task /\ request' = request
    BY <1>0, <1>1, MainAlone DEF peers, tasks
  <2>2. separ' = separ
    BY <1>1 DEF StartAccept, AcceptFails, Collect, PassBy, Rethrow, EndOfList, Exit
  <2> QED
    BY <2>1, <2>2 DEF Excused, Accepted
<1>2. CASE accept_client
  <2>1. PICK c \in Clients : c = Head(backlog)
    BY <1>0, <1>2 DEF accept_client, TypeOK
  <2>2. task[c] = "none"
    BY <1>0, <1>2, <2>1 DEF accept_client, TypeOK, Fresh
  <2>3. /\ task' = [task EXCEPT ![c] = "get_request"]
        /\ peer' = peer /\ request' = request /\ separ' = separ
    BY <1>2, <2>1 DEF accept_client
  <2> QED
    BY <1>0, <2>2, <2>3 DEF Excused, Accepted, TypeOK
<1>3. ASSUME NEW c \in Clients, Connect(c) \/ Ask(c) \/ Hangup(c)
      PROVE  /\ task' = task /\ request' = request /\ separ' = separ
             /\ \A u \in Clients : peer[u] = "reset" => peer'[u] = "reset"
  BY <1>0, <1>3 DEF Connect, Ask, Hangup, tasks, mains, TypeOK
<1>4. CASE \E c \in Clients : Connect(c) \/ Ask(c) \/ Hangup(c)
  BY <1>3, <1>4 DEF Excused, Accepted
<1>5. ASSUME NEW t \in Clients, TaskStep(t)
      PROVE  /\ Excused' /\ peer' = peer /\ separ' = separ /\ Accepted \subseteq Accepted'
             /\ \A u \in Clients : request[u] \in Refused => request'[u] = request[u]
  <2>1. sock[t] = t
    BY <1>0 DEF Dialogue, Question
  <2>2. /\ \A u \in Clients \ {t} : task'[u] = task[u] /\ request'[u] = request[u]
        /\ peer' = peer /\ separ' = separ
    BY <1>0, <1>5, <2>1, TaskAlone DEF Same, mains
  <2>3. /\ task'[t] \notin {"none", "get_request"}
        /\ task'[t] = "logic_error" => peer[t] = "reset"
        /\ task'[t] = "filesystem_error" => request[t] \in Refused \/ separ = "unconvertible"
        /\ task[t] # "get_request" => request' = request
        /\ task[t] = "get_request" => task'[t] # "filesystem_error"
    BY <1>0, <1>5, <2>1, TaskEffect
  <2>4. \A u \in Clients : request[u] \in Refused => request'[u] = request[u]
    BY <2>2, <2>3, RequestAssumption DEF Excused
  <2>5. Excused'
    BY <2>2, <2>3, <2>4 DEF Excused
  <2>6. Accepted \subseteq Accepted'
    BY <2>2, <2>3 DEF Accepted
  <2> QED
    BY <2>2, <2>4, <2>5, <2>6
<1> QED
  BY <1>1, <1>2, <1>4, <1>5, Steps

\* With no descriptor left, half as many clients as descriptors were accepted:
\* only an accepted client has a file open for it
LEMMA UsedUp ==
    ASSUME AcceptFails
    PROVE  2 * Cardinality(Accepted) >= MaxDescriptors
<1> DEFINE S == {t \in Clients : Streaming(t)}
           a == Cardinality(Accepted)
           s == Cardinality(S)
<1>1. IsFiniteSet(Accepted) /\ a \in Nat
  BY ClientsAssumption, FS_Subset, FS_CardinalityType DEF Accepted
<1>2. S \in SUBSET Accepted
  BY DEF Streaming, Accepted
<1>3. s \in Nat /\ s <= a
  BY <1>1, <1>2, FS_Subset, FS_CardinalityType
<1>4. a + s + 0 >= MaxDescriptors
  BY DEF AcceptFails, Descriptors, Accepted
<1> HIDE DEF a, s
<1>5. 2 * a >= MaxDescriptors
  BY <1>1, <1>3, <1>4, SizeAssumption
<1> QED
  BY <1>5 DEF a

LEMMA AcceptedGrow ==
    ASSUME Accepted \subseteq Accepted', 2 * Cardinality(Accepted) >= MaxDescriptors
    PROVE  2 * Cardinality(Accepted') >= MaxDescriptors
<1>1. IsFiniteSet(Accepted')
  BY ClientsAssumption, FS_Subset DEF Accepted
<1>2. /\ Cardinality(Accepted) \in Nat /\ Cardinality(Accepted') \in Nat
      /\ Cardinality(Accepted) <= Cardinality(Accepted')
  BY <1>1, FS_Subset, FS_CardinalityType
<1> QED
  BY <1>2, SizeAssumption

\* The server ends only for a reset, a name or a separator on which the library
\* throws, or after many clients; one that just leaves does not end it
\* (main.cpp:117-124, 223-229, 461).
THEOREM EndsOnlyForCause == Spec => []EndsForCause
<1> DEFINE Causes == \/ \E c \in Clients : peer[c] = "reset"
                     \/ \E t \in Clients : request[t] \in Refused
                     \/ separ = "unconvertible"
                     \/ 2 * Cardinality(Accepted) >= MaxDescriptors
           Over == main \in {"unwinding", "exited", "terminated"}
<1>1. EndsForCause <=> (Over => Causes)
  BY DEF EndsForCause, Accepted
<1>2. Init => Excused /\ EndsForCause
  BY DEF Init, Excused, EndsForCause
<1>3. IInv /\ Excused /\ EndsForCause /\ [Next]_vars => Excused' /\ EndsForCause'
  <2> SUFFICES ASSUME IInv, Excused, EndsForCause, [Next]_vars
               PROVE  Excused' /\ EndsForCause'
    OBVIOUS
  <2>1. CASE UNCHANGED vars
    BY <2>1 DEF vars, mains, peers, tasks, Excused, EndsForCause
  <2>2. CASE Next
    <3>1. Excused' /\ (Causes => Causes')
      <4>1. /\ Excused'
            /\ \A c \in Clients : peer[c] = "reset" => peer'[c] = "reset"
            /\ \A t \in Clients : request[t] \in Refused => request'[t] = request[t]
            /\ separ' = separ
            /\ Accepted \subseteq Accepted'
        BY <2>2, ExcusesStay
      <4>2. 2 * Cardinality(Accepted) >= MaxDescriptors
                => 2 * Cardinality(Accepted') >= MaxDescriptors
        BY <4>1, AcceptedGrow
      <4> QED
        BY <4>1, <4>2
    <3>2. CASE Over
      BY <1>1, <3>1, <3>2 DEF EndsForCause, Accepted
    <3>3. CASE ~ Over /\ AcceptFails
      BY <3>1, <3>3, UsedUp DEF EndsForCause, Accepted
    <3>4. CASE ~ Over /\ Rethrow
      <4>1. PICK t \in Clients : task[t] \in {"logic_error", "filesystem_error"}
        <5>1. pending_tasks[cursor] \in Clients
          BY <3>4 DEF Rethrow, IInv, TypeOK
        <5> QED
          BY <3>4, <5>1 DEF Rethrow
      <4>2. Causes
        BY <4>1 DEF Excused
      <4> QED
        BY <3>1, <4>2 DEF EndsForCause, Accepted
    <3>5. CASE ~ Over /\ ~ AcceptFails /\ ~ Rethrow
      <4>1. main' = main \/ main' \in {"accepting", "cleaning", "accept"} \/ Exit
        <5>1. ASSUME NEW t \in Clients, TaskStep(t) PROVE main' = main
          <6>1. sock[t] = t /\ TypeOK
            BY DEF IInv, Dialogue, Question
          <6> QED
            BY <5>1, <6>1, TaskAlone DEF mains
        <5>2. ASSUME NEW c \in Clients, Connect(c) \/ Ask(c) \/ Hangup(c)
              PROVE  main' = main
          BY <5>2 DEF Connect, Ask, Hangup, mains
        <5>3. CASE StartAccept \/ accept_client \/ Collect \/ PassBy \/ EndOfList
          BY <5>3 DEF StartAccept, accept_client, Collect, PassBy, EndOfList
        <5> QED
          BY <2>2, <3>5, <5>1, <5>2, <5>3, Steps
      <4>2. ~ Exit
        BY <3>5 DEF Exit
      <4> QED
        BY <3>1, <3>5, <4>1, <4>2 DEF EndsForCause
    <3> QED
      BY <3>2, <3>3, <3>4, <3>5
  <2> QED
    BY <2>1, <2>2
<1> QED
  BY <1>2, <1>3, Invariant, PTL DEF Spec

-----------------------------------------------------------------------------
(* The whole file.  A file is sent in buffers, so that what was sent before  *)
(* the one in hand is a number of them, and the last of them is the one that *)
(* the end of the file is in.                                                *)

\* The place in the answer at which the buffer in hand begins
Begins(t) == Len(wire[t]) - stream[t].transmitted

IsMultiple(n) == \E k \in Nat : n = k * buffer_size

Buffered(t) ==
    /\ task[t] = "read" => IsMultiple(Len(wire[t]))
    /\ task[t] = "send_buffer" =>
          /\ IsMultiple(Begins(t))
          /\ stream[t].eof => IF buffer_size < Len(content[request[t]])
                              THEN /\ Begins(t) <= Len(content[request[t]])
                                   /\ Len(content[request[t]]) < Begins(t) + buffer_size
                              ELSE Begins(t) = 0
    /\ task[t] = "sent" =>
          /\ request[t] \in Files
          /\ Len(content[request[t]]) <= Len(wire[t])
          /\ Len(wire[t]) = AnswerLength(request[t])

\* The number of whole buffers in a file
LEMMA Quotient ==
    ASSUME NEW b \in Nat \ {0}, NEW k \in Nat, NEW n \in Nat, k * b <= n, n < k * b + b
    PROVE  n \div b = k
  OBVIOUS

LEMMA NextMultiple ==
    ASSUME NEW n \in Nat, IsMultiple(n)
    PROVE  IsMultiple(n + buffer_size)
<1>1. PICK k \in Nat : n = k * buffer_size
  BY DEF IsMultiple
<1>2. n + buffer_size = (k + 1) * buffer_size
  BY <1>1, SizeAssumption
<1> QED
  BY <1>2 DEF IsMultiple

LEMMA BufferedTask ==
    ASSUME TypeOK, NEW t \in Clients, Question(t), Answer(t), Buffered(t), TaskStep(t)
    PROVE  Buffered(t)'
<1> USE DEF TypeOK, Socket, mains, peers
<1>0. sock[t] = t /\ buffer_size \in Nat \ {0}
  BY SizeAssumption DEF Question
<1>1. CASE Receive(t) \/ ReceiveNothing(t) \/ Throw(t) \/ Fail(t) \/ SendFails(t)
  <2>1. task'[t] \notin {"read", "send_buffer", "sent"}
    BY <1>1 DEF Receive, ReceiveNothing, AfterHangup, Throw, Fail, SendFails
  <2> QED
    BY <2>1 DEF Buffered
<1>2. CASE Open(t)
  <2>1. task'[t] = "read" /\ wire' = wire /\ wire[t] = <<>>
    BY <1>2 DEF Open, Question
  <2>2. IsMultiple(0)
    BY <1>0 DEF IsMultiple
  <2> QED
    BY <2>1, <2>2 DEF Buffered, IsMultiple
<1>3. CASE Read(t)
  <2> DEFINE file == request[t]
             position == stream[t].position
             size == Len(content[file])
  <2>1. /\ task[t] = "read" /\ task'[t] = "send_buffer"
        /\ wire' = wire /\ request' = request
        /\ stream'[t].transmitted = 0
        /\ stream'[t].eof = (gcount(file, position) < buffer_size)
    BY <1>3 DEF Read
  <2>2. file \in Files /\ position <= size /\ AtRead(t)
    BY <2>1 DEF Answer, Streaming
  <2>3. size \in Nat /\ position \in Nat /\ Len(wire[t]) \in Nat
    BY <2>2, ContentAssumption DEF Streams
  <2>4. Begins(t)' = Len(wire[t]) /\ IsMultiple(Len(wire[t]))
    BY <2>1, <2>3 DEF Begins, Buffered
  <2>5. stream'[t].eof => size < position + buffer_size
    <3>1. CASE position + buffer_size <= size
      <4>1. gcount(file, position) = buffer_size
        BY <3>1 DEF gcount
      <4>2. stream'[t].eof = (buffer_size < buffer_size)
        BY <2>1, <4>1
      <4>3. ~(buffer_size < buffer_size)
        BY <1>0
      <4> QED
        BY <4>2, <4>3
    <3>2. CASE ~(position + buffer_size <= size)
      BY <1>0, <2>3, <3>2
    <3> QED
      BY <3>1, <3>2
  <2>6. CASE buffer_size < size
    BY <2>1, <2>2, <2>4, <2>5, <2>6 DEF Buffered, AtRead, IsMultiple
  <2>7. CASE ~(buffer_size < size)
    <3>1. Len(wire[t]) = 0
      BY <2>2, <2>7 DEF AtRead
    <3> QED
      BY <2>1, <2>4, <2>7, <3>1 DEF Buffered, IsMultiple
  <2> QED
    BY <2>6, <2>7
<1>4. CASE Send(t)
  <2>1. PICK n \in 1..(buffer_size - stream[t].transmitted) :
            /\ wire' = [wire EXCEPT ![t] =
                  @ \o SubSeq(stream[t].buffer, stream[t].transmitted + 1,
                              stream[t].transmitted + n)]
            /\ stream' = [stream EXCEPT ![t].transmitted = @ + n]
    BY <1>0, <1>4 DEF Send
  <2>2. task[t] = "send_buffer" /\ task' = task /\ request' = request /\ AtSend(t)
    BY <1>4 DEF Send, Answer
  <2> DEFINE w == wire[t]
             b == stream[t].buffer
             from == stream[t].transmitted
  <2>3. /\ w \in Seq(Bytes) /\ b \in Seq(Bytes) /\ from \in 0..buffer_size
        /\ Len(b) = buffer_size
    BY <2>2 DEF AtSend, Streams
  <2>4. n \in Nat /\ from \in Nat /\ from + n <= Len(b)
    <3>1. n \in 1..(buffer_size - from)
      BY <2>1
    <3> HIDE DEF w, b, from
    <3> QED
      BY ONLY <1>0, <2>3, <3>1
  <2>5. /\ wire'[t] = w \o SubSeq(b, from + 1, from + n)
        /\ stream'[t].transmitted = from + n /\ stream'[t].eof = stream[t].eof
    <3>1. stream[t] \in Streams
      OBVIOUS
    <3> QED
      BY <2>1, <3>1 DEF Streams
  <2> HIDE DEF w, b, from
  <2>6. Len(wire'[t]) = Len(w) + n
    BY <2>3, <2>4, <2>5, ExtendProperties
  <2>7. Len(w) \in Nat
    BY <2>3
  <2>8. Begins(t)' = Begins(t)
    <3>1. Begins(t)' = Len(wire'[t]) - stream'[t].transmitted /\ Begins(t) = Len(w) - from
      BY Zenon DEF Begins, w, from
    <3>2. Begins(t)' = (Len(w) + n) - (from + n)
      BY <2>5, <2>6, <3>1, Zenon
    <3>3. from \in Nat /\ n \in Nat
      BY <2>4
    <3> QED
      BY ONLY <2>7, <3>1, <3>2, <3>3
  <2>9. IsMultiple(Begins(t))' = IsMultiple(Begins(t)) /\ content[request'[t]] = content[request[t]]
    BY <2>2, <2>8, Zenon DEF IsMultiple
  <2>10. task[t] = "send_buffer" /\ task'[t] = "send_buffer" /\ stream'[t].eof = stream[t].eof
         /\ request'[t] = request[t]
    BY <2>2, <2>5
  <2> QED
    BY <2>8, <2>9, <2>10 DEF Buffered
<1>5. CASE EndOfBuffer(t)
  <2> DEFINE file == request[t]
             size == Len(content[file])
  <2>1. /\ task[t] = "send_buffer" /\ wire' = wire /\ request' = request
        /\ stream[t].transmitted = buffer_size /\ AtSend(t)
    BY <1>5 DEF EndOfBuffer, Answer
  <2>2. Len(wire[t]) \in Nat /\ buffer_size <= Len(wire[t])
        /\ Len(wire[t]) = Begins(t) + buffer_size /\ Begins(t) \in Nat
    BY <1>0, <2>1 DEF AtSend, Begins
  <2>3. IsMultiple(Len(wire[t]))
    BY <2>1, <2>2, NextMultiple DEF Buffered
  <2>4. CASE ReadOn(t)
    <3>1. task'[t] = "read"
      BY <1>5, <2>4 DEF EndOfBuffer
    <3> QED
      BY <2>1, <2>3, <3>1 DEF Buffered, IsMultiple
  <2>5. CASE ~ReadOn(t)
    <3>1. task'[t] = "sent" /\ stream[t].eof
      BY <1>5, <2>5 DEF EndOfBuffer, ReadOn
    <3>2. file \in Files
      BY <2>1 DEF Answer, Streaming
    <3>3. size \in Nat
      BY <3>2, ContentAssumption
    <3>4. CASE buffer_size < size
      <4>1. PICK k \in Nat : Begins(t) = k * buffer_size
        BY <2>1 DEF Buffered, IsMultiple
      <4>2. Begins(t) <= size /\ size < Begins(t) + buffer_size
        BY <2>1, <3>1, <3>4 DEF Buffered
      <4> HIDE DEF size
      <4>3. size \div buffer_size = k
        BY <1>0, <3>3, <4>1, <4>2, Quotient
      <4>4. (k + 1) * buffer_size = k * buffer_size + buffer_size
        BY <1>0
      <4>5. Len(wire[t]) = (size \div buffer_size + 1) * buffer_size
        BY <2>2, <4>1, <4>3, <4>4
      <4>6. size <= Len(wire[t])
        BY <1>0, <2>2, <3>3, <4>2
      <4>7. Len(wire[t]) = AnswerLength(file)
        BY <3>4, <4>5 DEF AnswerLength, size
      <4> HIDE DEF file
      <4> QED
        BY <2>1, <3>1, <3>2, <4>6, <4>7 DEF Buffered, size, file
    <3>5. CASE ~(buffer_size < size)
      <4>1. Len(wire[t]) = buffer_size
        BY <1>0, <2>1, <2>2, <3>1, <3>5 DEF Buffered
      <4>2. size <= Len(wire[t])
        BY <1>0, <3>3, <3>5, <4>1
      <4>3. Len(wire[t]) = AnswerLength(file)
        BY <3>5, <4>1 DEF AnswerLength
      <4> HIDE DEF file, size
      <4> QED
        BY <2>1, <3>1, <3>2, <4>1, <4>2, <4>3 DEF Buffered, size, file
    <3> QED
      BY <3>4, <3>5
  <2> QED
    BY <2>4, <2>5
<1> QED
  BY <1>1, <1>2, <1>3, <1>4, <1>5 DEF TaskStep

LEMMA BufferedStep ==
    ASSUME IInv, \A t \in Clients : Buffered(t), [Next]_vars
    PROVE  \A t \in Clients : Buffered(t)'
<1> SUFFICES ASSUME NEW u \in Clients PROVE Buffered(u)'
  OBVIOUS
<1>0. TypeOK /\ Question(u) /\ Answer(u) /\ Fresh
  BY DEF IInv, Dialogue
<1>1. ASSUME task'[u] = task[u], request'[u] = request[u], stream'[u] = stream[u],
             wire'[u] = wire[u]
      PROVE  Buffered(u)'
  BY <1>1 DEF Buffered, Begins, AnswerLength, IsMultiple
<1>2. CASE UNCHANGED vars
  BY <1>1, <1>2 DEF vars, tasks
<1>3. CASE StartAccept \/ AcceptFails \/ Collect \/ PassBy \/ Rethrow \/ EndOfList \/ Exit
  BY <1>0, <1>1, <1>3, MainAlone DEF tasks
<1>4. CASE accept_client
  <2>1. task'[u] = task[u] \/ task'[u] = "get_request"
    BY <1>0, <1>4 DEF accept_client, TypeOK
  <2>2. CASE task'[u] = "get_request"
    BY <2>2 DEF Buffered
  <2> QED
    BY <1>1, <1>4, <2>1, <2>2 DEF accept_client
<1>5. ASSUME NEW c \in Clients, Connect(c) \/ Ask(c) \/ Hangup(c) PROVE Buffered(u)'
  BY <1>1, <1>5 DEF Connect, Ask, Hangup, tasks
<1>6. ASSUME NEW t \in Clients, TaskStep(t) PROVE Buffered(u)'
  <2>1. Question(t) /\ Answer(t) /\ Buffered(t) /\ sock[t] = t
    BY DEF IInv, Dialogue, Question
  <2>2. CASE u = t
    BY <1>0, <1>6, <2>1, <2>2, BufferedTask
  <2>3. CASE u # t
    BY <1>0, <1>1, <1>6, <2>1, <2>3, TaskAlone DEF Same
  <2> QED
    BY <2>2, <2>3
<1> QED
  BY <1>2, <1>3, <1>4, <1>5, <1>6, Steps

\* What was sent is the answer, and of the answer to a request for a long file
\* the file is the first part
LEMMA BufferedSent ==
    ASSUME IInv, NEW t \in Clients, Buffered(t), task[t] = "sent",
           buffer_size < Len(content[request[t]])
    PROVE  /\ IsPrefix(content[request[t]], wire[t])
           /\ Len(wire[t]) = AnswerLength(request[t])
<1> DEFINE file == content[request[t]]
<1>1. /\ request[t] \in Files /\ Len(file) <= Len(wire[t])
      /\ Len(wire[t]) = AnswerLength(request[t])
  BY DEF Buffered
<1>2. file \in Seq(Bytes) /\ wire[t] \in Seq(Bytes)
  BY <1>1, ContentAssumption DEF IInv, TypeOK
<1>3. Len(file) \in Nat /\ Len(wire[t]) \in Nat /\ buffer_size \in Nat
  BY <1>2, SizeAssumption
<1>4. wire[t] # <<>>
  <2>1. Len(wire[t]) # 0
    BY <1>1, <1>3
  <2> QED
    BY <2>1
<1>5. \A i \in 1..Len(wire[t]) : wire[t][i] = AnswerByte(request[t], i)
  BY <1>4 DEF IInv, Dialogue, Answer
<1>6. \A i \in 1..Len(file) : wire[t][i] = file[i]
  BY <1>1, <1>3, <1>5 DEF AnswerByte
<1>7. SubSeq(file, 1, Len(file)) = SubSeq(wire[t], 1, Len(file))
  BY <1>1, <1>2, <1>3, <1>6
<1> QED
  BY <1>1, <1>2, <1>3, <1>6, <1>7 DEF IsPrefix

\* A task that reports a file longer than a buffer as sent has sent it from its
\* first byte to its last, and zeros up to the end of the last buffer, for every
\* size of file and buffer (main.cpp:165-195, 322-325).
THEOREM SentInFullAlways == Spec => []SentInFull
<1>1. Init => \A t \in Clients : Buffered(t)
  BY DEF Init, Buffered
<1>2. IInv /\ (\A t \in Clients : Buffered(t)) /\ [Next]_vars => (\A t \in Clients : Buffered(t))'
  BY BufferedStep
<1>3. IInv /\ (\A t \in Clients : Buffered(t)) => SentInFull
  BY BufferedSent DEF SentInFull
<1> QED
  BY <1>1, <1>2, <1>3, Invariant, PTL DEF Spec
=============================================================================
