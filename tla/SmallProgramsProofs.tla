------------------------- MODULE SmallProgramsProofs -------------------------
(***************************************************************************)
(* Proofs about the small programs but UdpEcho, which has its own: the     *)
(* daytime server never runs out of work, only a login or a password of    *)
(* the file lets a client of the message service send its message, and the *)
(* printer prints all data of what it takes for TCP, each byte once and in *)
(* its place.                                                              *)
(***************************************************************************)
EXTENDS SmallPrograms, TLAPS, WellFoundedInduction

-----------------------------------------------------------------------------
(* asio_server.  HandlesOne is what the invariant of the accepts needs: no   *)
(* accept is pending while the handler of the one before runs, and a         *)
(* connection is held exactly while it is handled or written to.             *)

HandlesOne == ~stopped =>
    /\ accepting <=> handling = None
    /\ held = writing \cup ({handling} \cap Programs)

LEMMA AsioTypeInit == Asio!Init => Asio!TypeOK
<1> SUFFICES ASSUME Asio!Init PROVE Asio!TypeOK
  OBVIOUS
<1>1. accepting \in BOOLEAN /\ stopped \in BOOLEAN
  BY DEF Asio!Init
<1>2. backlog \in Seq(Programs)
  BY DEF Asio!Init
<1>3. end \in [Programs -> {"none", "open", "closed"}]
  BY DEF Asio!Init
<1>4. handling \in Programs \cup {"error", None} /\ held \subseteq Programs /\ writing \subseteq held
      /\ message_sent \subseteq Programs
  BY DEF Asio!Init
<1> QED
  BY <1>1, <1>2, <1>3, <1>4 DEF Asio!TypeOK

LEMMA AsioTypeStep == Asio!TypeOK /\ HandlesOne /\ [Asio!Next]_Asio!vars => Asio!TypeOK'
<1> SUFFICES ASSUME Asio!TypeOK, HandlesOne, [Asio!Next]_Asio!vars PROVE Asio!TypeOK'
  OBVIOUS
<1>1. CASE Asio!Accepted
  <2>1. Head(backlog) \in Programs /\ Tail(backlog) \in Seq(Programs)
    BY <1>1 DEF Asio!Accepted, Asio!TypeOK
  <2> QED
    BY <1>1, <2>1 DEF Asio!Accepted, Asio!TypeOK
<1>2. CASE Asio!AcceptError
  BY <1>2 DEF Asio!AcceptError, Asio!TypeOK
<1>3. CASE Asio!Start
  BY <1>3 DEF Asio!Start, Asio!TypeOK, HandlesOne
<1>4. CASE Asio!HandleAccept
  BY <1>4 DEF Asio!HandleAccept, Asio!StartsAccept, Asio!TypeOK
<1>5. CASE Asio!NoThread
  <2>1. <<>> \in Seq(Programs)
    OBVIOUS
  <2> QED
    BY <1>5, <2>1 DEF Asio!NoThread, Asio!TypeOK
<1>6. ASSUME NEW p \in Programs, Asio!HandleWrite(p) PROVE Asio!TypeOK'
  BY <1>6 DEF Asio!HandleWrite, Asio!Release, Asio!TypeOK
<1>7. ASSUME NEW p \in Programs, Asio!Connect(p) PROVE Asio!TypeOK'
  <2>1. Append(backlog, p) \in Seq(Programs)
    BY DEF Asio!TypeOK
  <2>2. end' \in [Programs -> {"none", "open", "closed"}]
    BY <1>7 DEF Asio!Connect, Asio!TypeOK
  <2> QED
    BY <1>7, <2>1, <2>2 DEF Asio!Connect, Asio!TypeOK
<1>8. ASSUME NEW p \in Programs, Asio!Leave(p) PROVE Asio!TypeOK'
  BY <1>8 DEF Asio!Leave, Asio!TypeOK
<1>9. CASE UNCHANGED Asio!vars
  BY <1>9 DEF Asio!vars, Asio!TypeOK
<1> QED
  BY <1>1, <1>2, <1>3, <1>4, <1>5, <1>6, <1>7, <1>8, <1>9 DEF Asio!Next

LEMMA HandlesStep == Asio!TypeOK /\ HandlesOne /\ [Asio!Next]_Asio!vars => HandlesOne'
<1> SUFFICES ASSUME Asio!TypeOK, HandlesOne, [Asio!Next]_Asio!vars PROVE HandlesOne'
  OBVIOUS
<1>1. CASE Asio!Accepted
  <2>1. Head(backlog) \in Programs
    BY <1>1 DEF Asio!Accepted, Asio!TypeOK
  <2> QED
    BY <1>1, <2>1, ConnectsAssumption DEF Asio!Accepted, Asio!Idle, HandlesOne
<1>2. CASE Asio!AcceptError
  BY <1>2, ConnectsAssumption DEF Asio!AcceptError, Asio!Idle, HandlesOne
<1>3. CASE Asio!Start
  BY <1>3 DEF Asio!Start, HandlesOne
<1>4. CASE Asio!HandleAccept
  BY <1>4, ConnectsAssumption DEF Asio!HandleAccept, Asio!StartsAccept, HandlesOne, Asio!TypeOK
<1>5. CASE Asio!NoThread
  BY <1>5 DEF Asio!NoThread, HandlesOne
<1>6. ASSUME NEW p \in Programs, Asio!HandleWrite(p) PROVE HandlesOne'
  BY <1>6, ConnectsAssumption DEF Asio!HandleWrite, Asio!Release, Asio!Idle, HandlesOne
<1>7. ASSUME NEW p \in Programs, Asio!Connect(p) \/ Asio!Leave(p) PROVE HandlesOne'
  BY <1>7 DEF Asio!Connect, Asio!Leave, HandlesOne
<1>8. CASE UNCHANGED Asio!vars
  BY <1>8 DEF Asio!vars, HandlesOne
<1> QED
  BY <1>1, <1>2, <1>3, <1>4, <1>5, <1>6, <1>7, <1>8 DEF Asio!Next

\* The accepts are left alone by the other programs
LEMMA AsioStep == Asio!TypeOK /\ HandlesOne /\ [SmallNext]_allVars => (Asio!TypeOK /\ HandlesOne)'
<1> SUFFICES ASSUME Asio!TypeOK, HandlesOne, [SmallNext]_allVars PROVE (Asio!TypeOK /\ HandlesOne)'
  OBVIOUS
<1>1. Asio!Next \/ UNCHANGED asioVars
  BY DEF SmallNext, allVars
<1>2. [Asio!Next]_Asio!vars
  BY <1>1 DEF asioVars, Asio!vars
<1> QED
  BY <1>2, AsioTypeStep, HandlesStep

\* Every variable keeps its type, and exactly the connections that are handled
\* or written to are held: none is deleted under a handler, and each gives its
\* descriptor back (shared_from_this in start and start_accept).
THEOREM HandlesOneAlways == SmallSpec => [](Asio!TypeOK /\ HandlesOne)
<1>1. SmallInit => Asio!TypeOK /\ HandlesOne
  BY AsioTypeInit, ConnectsAssumption DEF SmallInit, Asio!Init, HandlesOne
<1> QED
  BY <1>1, AsioStep, PTL DEF SmallSpec

\* An accept is pending or its handler runs, whatever fails: the io_context
\* never runs out of work (handle_accept, start_accept).
THEOREM AlwaysAcceptingAlways == SmallSpec => []AlwaysAccepting
<1>1. HandlesOne => AlwaysAccepting
  BY DEF HandlesOne, AlwaysAccepting, Asio!AlwaysAccepting
<1> QED
  BY <1>1, HandlesOneAlways, PTL

-----------------------------------------------------------------------------
(* The message service.  The users that load_users gives are a recursive     *)
(* function of the line, so that what holds of each is shown by induction.   *)

\* Induction is by the least number at which something fails
LEMMA LeastElement ==
    ASSUME NEW T, T \subseteq Nat, T # {}
    PROVE  \E n \in T : \A m \in T : n <= m
<1> DEFINE R == OpToRel(<, Nat)
<1>1. \E n \in T : \A m \in T : ~(<<m, n>> \in R)
  <2>1. IsWellFoundedOn(R, Nat)
    BY NatLessThanWellFounded, Zenon
  <2> HIDE DEF R
  <2> QED
    BY <2>1, WFMin, Zenon
<1>2. ASSUME NEW n \in Nat, NEW m \in Nat, ~(<<m, n>> \in R) PROVE n <= m
  BY <1>2 DEF OpToRel
<1> QED
  BY <1>1, <1>2

\* The users of the lines up to n
Reading(file, n, user) ==
    user = [i \in 0..n |-> IF i = 0 THEN Message!NoOne ELSE Message!Read(user[i - 1], file[i])]

LEMMA ReadingExists ==
    ASSUME NEW file, NEW n \in Nat
    PROVE  \E user : Reading(file, n, user)
<1> DEFINE T == {k \in Nat : ~\E user : Reading(file, k, user)}
<1>1. SUFFICES ASSUME T # {} PROVE FALSE
  OBVIOUS
<1>2. PICK k \in T : \A m \in T : k <= m
  <2> HIDE DEF T
  <2>1. T \subseteq Nat
    BY DEF T
  <2> QED
    BY <1>1, <2>1, LeastElement
<1>3. CASE k = 0
  <2> DEFINE u == [i \in 0..0 |-> Message!NoOne]
  <2>1. u = [i \in 0..0 |-> IF i = 0 THEN Message!NoOne ELSE Message!Read(u[i - 1], file[i])]
    OBVIOUS
  <2>2. Reading(file, 0, u)
    BY <2>1 DEF Reading
  <2> QED
    BY <1>3, <2>2
<1>4. CASE k # 0
  <2>1. k - 1 \in Nat /\ k - 1 \notin T
    BY <1>2, <1>4
  <2>2. PICK g : Reading(file, k - 1, g)
    BY <2>1
  <2> DEFINE last == Message!Read(g[k - 1], file[k])
             u == [i \in 0..k |-> IF i = k THEN last ELSE g[i]]
             f == [i \in 0..k |-> IF i = 0 THEN Message!NoOne ELSE Message!Read(u[i - 1], file[i])]
  <2>3. \A i \in 0..(k - 1) :
           g[i] = IF i = 0 THEN Message!NoOne ELSE Message!Read(g[i - 1], file[i])
    BY <2>2 DEF Reading
  <2>4. ASSUME NEW i \in 0..k PROVE u[i] = f[i]
    <3>1. CASE i = k
      <4>1. u[k - 1] = g[k - 1] /\ u[k] = last
        BY <2>1
      <4> QED
        BY <1>4, <3>1, <4>1
    <3>2. CASE i # k
      <4>1. u[i] = g[i] /\ i \in 0..(k - 1)
        BY <3>2
      <4>2. i # 0 => u[i - 1] = g[i - 1]
        BY <4>1
      <4>3. f[i] = IF i = 0 THEN Message!NoOne ELSE Message!Read(u[i - 1], file[i])
        OBVIOUS
      <4> HIDE DEF u, f
      <4> QED
        BY <2>3, <4>1, <4>2, <4>3
    <3> QED
      BY <3>1, <3>2
  <2>5. u = f
    <3>1. u = [i \in 0..k |-> u[i]] /\ f = [i \in 0..k |-> f[i]]
      OBVIOUS
    <3> HIDE DEF u, f
    <3> QED
      BY <2>4, <3>1, Zenon
  <2>6. Reading(file, k, u)
    BY <2>5, Zenon DEF Reading
  <2> QED
    BY <2>6
<1> QED
  BY <1>3, <1>4

\* The login of a user is the first word of a line and the password the second,
\* and no user is without either unless the first line is
LEMMA ReadingUsers ==
    ASSUME NEW file \in Seq(Seq(Logins)), NEW user, Reading(file, Len(file), user),
           NEW n \in 0..Len(file)
    PROVE  /\ \/ user[n].login = Message!Nothing
              \/ \E j \in 1..Len(file) : Len(file[j]) > 0 /\ file[j][1] = user[n].login
           /\ \/ user[n].password = Message!Nothing
              \/ \E j \in 1..Len(file) : Len(file[j]) > 1 /\ file[j][2] = user[n].password
           /\ n > 0 /\ Len(file[1]) > 0 => user[n].login # Message!Nothing
           /\ n > 0 /\ Len(file[1]) > 1 => user[n].password # Message!Nothing
<1> DEFINE Has(w, name) == \/ name = Message!Nothing
                           \/ \E j \in 1..Len(file) : Len(file[j]) >= w /\ file[j][w] = name
    Right(i) ==
      /\ Has(1, user[i].login) /\ Has(2, user[i].password)
      /\ i > 0 /\ Len(file[1]) >= 1 => user[i].login # Message!Nothing
      /\ i > 0 /\ Len(file[1]) >= 2 => user[i].password # Message!Nothing
    T == {i \in 0..Len(file) : ~Right(i)}
<1>0. Len(file) \in Nat /\ \A j \in 1..Len(file) : Len(file[j]) \in Nat
  OBVIOUS
<1>1. SUFFICES ASSUME T # {} PROVE FALSE
  <2>1. Right(n)
    BY <1>1
  <2>2. n > 0 => Len(file[1]) \in Nat
    BY <1>0
  <2>3. Has(1, user[n].login) => \/ user[n].login = Message!Nothing
                                 \/ \E j \in 1..Len(file) : Len(file[j]) > 0 /\ file[j][1] = user[n].login
    BY <1>0
  <2>4. Has(2, user[n].password) => \/ user[n].password = Message!Nothing
                                    \/ \E j \in 1..Len(file) : Len(file[j]) > 1 /\ file[j][2] = user[n].password
    BY <1>0
  <2>5. n > 0 => (Len(file[1]) > 0 <=> Len(file[1]) >= 1) /\ (Len(file[1]) > 1 <=> Len(file[1]) >= 2)
    BY <2>2
  <2> QED
    BY <2>1, <2>3, <2>4, <2>5
<1>2. PICK k \in T : \A m \in T : k <= m
  <2> HIDE DEF T
  <2>1. T \subseteq Nat
    BY <1>0 DEF T
  <2> QED
    BY <1>1, <2>1, LeastElement
<1>3. user[k] = IF k = 0 THEN Message!NoOne ELSE Message!Read(user[k - 1], file[k])
  BY DEF Reading
<1>4. CASE k = 0
  <2>1. user[k].login = Message!Nothing /\ user[k].password = Message!Nothing
    BY <1>3, <1>4 DEF Message!NoOne
  <2> QED
    BY <1>4, <2>1
<1>5. CASE k # 0
  <2>1. k - 1 \in 0..Len(file) /\ k - 1 \notin T /\ k \in 1..Len(file)
    BY <1>0, <1>2, <1>5
  <2> DEFINE line == file[k]
             before == user[k - 1]
  <2>2. Right(k - 1) /\ line \in Seq(Logins) /\ Len(line) \in Nat
    <3>1. Right(k - 1)
      <4> HIDE DEF Right
      <4> QED
        BY <2>1
    <3>2. line \in Seq(Logins)
      BY <2>1
    <3> HIDE DEF Right, line
    <3> QED
      BY <3>1, <3>2
  <2>3. user[k] = [login    |-> IF Len(line) > 0 THEN line[1] ELSE before.login,
                   password |-> IF Len(line) > 1 THEN line[2] ELSE before.password]
    BY <1>3, <1>5 DEF Message!Read
  <2>4. /\ user[k].login = IF Len(line) >= 1 THEN line[1] ELSE before.login
        /\ user[k].password = IF Len(line) >= 2 THEN line[2] ELSE before.password
    BY <2>2, <2>3
  <2> HIDE DEF before
  <2>w. ASSUME NEW w \in {1, 2}, NEW name, NEW old,
               name = IF Len(line) >= w THEN line[w] ELSE old,
               Has(w, old), k - 1 > 0 /\ Len(file[1]) >= w => old # Message!Nothing
        PROVE  Has(w, name) /\ (Len(file[1]) >= w => name # Message!Nothing)
    <3>1. CASE Len(line) >= w
      <4>1. line[w] \in Logins
        BY <2>2, <3>1
      <4> QED
        BY <2>1, <2>w, <3>1, <4>1, UsersAssumption
    <3>2. CASE ~(Len(line) >= w)
      <4>1. Len(file[1]) >= w => k # 1
        BY <3>2
      <4>2. Len(file[1]) >= w => k - 1 > 0
        BY <2>1, <4>1
      <4> QED
        BY <2>w, <3>2, <4>2
    <3> QED
      BY <3>1, <3>2
  <2>5. Has(1, user[k].login) /\ (Len(file[1]) >= 1 => user[k].login # Message!Nothing)
    <3> HIDE DEF line
    <3>1. Has(1, before.login) /\ (k - 1 > 0 /\ Len(file[1]) >= 1 => before.login # Message!Nothing)
      BY <2>2 DEF before
    <3> HIDE DEF Has
    <3> QED
      BY <2>4, <2>w, <3>1
  <2>6. Has(2, user[k].password) /\ (Len(file[1]) >= 2 => user[k].password # Message!Nothing)
    <3> HIDE DEF line
    <3>1. Has(2, before.password) /\ (k - 1 > 0 /\ Len(file[1]) >= 2 => before.password # Message!Nothing)
      BY <2>2 DEF before
    <3> HIDE DEF Has
    <3> QED
      BY <2>4, <2>w, <3>1
  <2> QED
    BY <2>5, <2>6
<1> QED
  BY <1>4, <1>5

\* What matches a user of the file is known there
LEMMA MatchKnown ==
    ASSUME Message!TypeOK, NEW args, NEW i \in 1..Len(Message!load_users),
           Message!Matches(Message!load_users[i], args)
    PROVE  Message!Known(users, args)
<1>1. users # Message!Missing
  BY DEF Message!load_users
<1>2. users \in Seq(Seq(Logins)) /\ Len(users) \in Nat
  <2>1. users \in Seq(Seq(Logins))
    BY <1>1, UsersAssumption, Zenon DEF Message!TypeOK
  <2> QED
    BY <2>1
<1> DEFINE user == CHOOSE u : Reading(users, Len(users), u)
<1>3. Reading(users, Len(users), user)
  BY <1>2, ReadingExists
<1>4. Message!load_users = [j \in 1..Len(users) |-> user[j]]
  BY <1>1 DEF Message!load_users, Reading
<1> HIDE DEF user
<1>5. i \in 1..Len(users) /\ Message!load_users[i] = user[i]
  BY <1>2, <1>4
<1>6. user[i].login = args.login \/ user[i].password = args.password
  BY <1>5 DEF Message!Matches
<1>7. /\ \/ user[i].login = Message!Nothing
         \/ \E j \in 1..Len(users) : Len(users[j]) > 0 /\ users[j][1] = user[i].login
      /\ \/ user[i].password = Message!Nothing
         \/ \E j \in 1..Len(users) : Len(users[j]) > 1 /\ users[j][2] = user[i].password
      /\ i > 0 /\ Len(users[1]) > 0 => user[i].login # Message!Nothing
      /\ i > 0 /\ Len(users[1]) > 1 => user[i].password # Message!Nothing
  <2>1. i \in 0..Len(users)
    BY <1>2, <1>5
  <2> QED
    BY <1>2, <1>3, <2>1, ReadingUsers
<1>8. Len(users[1]) \in Nat /\ i > 0 /\ users # <<>>
  BY <1>2, <1>5
<1>9. CASE user[i].login = args.login
  BY <1>1, <1>7, <1>8, <1>9 DEF Message!Known
<1>10. CASE user[i].password = args.password
  BY <1>1, <1>7, <1>8, <1>10 DEF Message!Known
<1> QED
  BY <1>6, <1>9, <1>10

\* An answer is about the one request a client sends, and what lets a client send
\* its message is this answer.
AnswersLogin(c) ==
    /\ c \in pending => stage[c] # "login" /\ answer[c] = ""
    /\ stage[c] = "login" => answer[c] = ""
    /\ answer[c] = "Ok" => Message!Known(loaded[c], request[c])
    /\ stage[c] \in {"message", "sent"} => answer[c] = "Ok"

MessageInv == Message!TypeOK /\ \A c \in Users : AnswersLogin(c)

LEMMA MessageInit == Message!Init => MessageInv
<1> SUFFICES ASSUME Message!Init PROVE MessageInv
  OBVIOUS
<1>1. Message!TypeOK
  BY DEF Message!Init, Message!TypeOK, Message!Phases, Message!Requests, Message!NoOne
<1>2. ASSUME NEW c \in Users PROVE AnswersLogin(c)
  BY DEF Message!Init, AnswersLogin
<1> QED
  BY <1>1, <1>2 DEF MessageInv

LEMMA MessageStep == MessageInv /\ [Message!Next]_Message!vars => MessageInv'
<1> SUFFICES ASSUME MessageInv, [Message!Next]_Message!vars PROVE MessageInv'
  OBVIOUS
<1> USE DEF MessageInv, Message!TypeOK
<1>1. ASSUME NEW file \in UserFiles \cup {Message!Missing}, Message!Edit(file) PROVE MessageInv'
  <2>1. UNCHANGED <<request, pending, answer, loaded, stage>> /\ users' = file
    BY <1>1 DEF Message!Edit
  <2>2. \A d \in Users : AnswersLogin(d)'
    BY <2>1 DEF AnswersLogin
  <2> QED
    BY <2>1, <2>2
<1>2. ASSUME NEW c \in Users, Message!Render(c) PROVE MessageInv'
  <2> DEFINE found == \E i \in 1..Len(Message!load_users) :
                         Message!Matches(Message!load_users[i], request[c])
  <2>1. /\ c \in pending /\ pending' = pending \ {c}
        /\ answer' = [answer EXCEPT ![c] = IF found THEN "Ok" ELSE "Not found"]
        /\ loaded' = [loaded EXCEPT ![c] = users]
        /\ UNCHANGED <<users, request, stage>>
    BY <1>2 DEF Message!Render
  <2>2. stage[c] # "login" /\ answer[c] = ""
    BY <2>1 DEF AnswersLogin
  <2>3. found => Message!Known(users, request[c])
    BY MatchKnown
  <2> HIDE DEF found
  <2>4. Message!TypeOK'
    BY <2>1
  <2>5. ASSUME NEW d \in Users PROVE AnswersLogin(d)'
    <3>1. CASE d = c
      <4>1. /\ answer'[d] = IF found THEN "Ok" ELSE "Not found"
            /\ loaded'[d] = users /\ request'[d] = request[c] /\ d \notin pending'
        BY <2>1, <3>1
      <4>2. stage'[d] \notin {"login", "message", "sent"}
        BY <2>1, <2>2, <3>1 DEF AnswersLogin
      <4> QED
        BY <2>3, <4>1, <4>2 DEF AnswersLogin
    <3>2. CASE d # c
      <4>1. /\ answer'[d] = answer[d] /\ loaded'[d] = loaded[d] /\ request'[d] = request[d]
            /\ stage'[d] = stage[d] /\ (d \in pending' <=> d \in pending)
        BY <2>1, <3>2
      <4> QED
        BY <4>1 DEF AnswersLogin
    <3> QED
      BY <3>1, <3>2
  <2> QED
    BY <2>4, <2>5
<1>3. ASSUME NEW c \in Users, NEW args \in Message!Requests, Message!Client_Autorization_Request(c, args)
      PROVE  MessageInv'
  <2>1. /\ stage[c] = "login"
        /\ request' = [request EXCEPT ![c] = args] /\ pending' = pending \cup {c}
        /\ stage' = [stage EXCEPT ![c] = "waiting"] /\ UNCHANGED <<users, answer, loaded>>
    BY <1>3 DEF Message!Client_Autorization_Request
  <2>2. Message!TypeOK'
    BY <2>1 DEF Message!Phases
  <2>3. ASSUME NEW d \in Users PROVE AnswersLogin(d)'
    <3>1. CASE d = c
      <4>1. request'[d] = args /\ stage'[d] = "waiting" /\ answer'[d] = ""
        BY <2>1, <3>1 DEF AnswersLogin
      <4> QED
        BY <4>1 DEF AnswersLogin
    <3>2. CASE d # c
      <4>1. /\ request'[d] = request[d] /\ stage'[d] = stage[d]
            /\ (d \in pending' <=> d \in pending)
        BY <2>1, <3>2
      <4> QED
        BY <2>1, <4>1 DEF AnswersLogin
    <3> QED
      BY <3>1, <3>2
  <2> QED
    BY <2>2, <2>3
<1>4. ASSUME NEW c \in Users, Message!Answered(c) \/ Message!RequestFails(c) \/ Message!Send_Message(c)
      PROVE  MessageInv'
  <2>1. PICK next \in {"message", "sent", "exit"} :
           /\ stage' = [stage EXCEPT ![c] = next]
           /\ next \in {"message", "sent"} => answer[c] = "Ok"
    BY <1>4 DEF Message!Answered, Message!RequestFails, Message!Send_Message, AnswersLogin
  <2>2. UNCHANGED <<users, request, pending, answer, loaded>>
    BY <1>4 DEF Message!Answered, Message!RequestFails, Message!Send_Message
  <2>3. Message!TypeOK'
    BY <2>1, <2>2 DEF Message!Phases
  <2>4. ASSUME NEW d \in Users PROVE AnswersLogin(d)'
    <3>1. stage'[d] = IF d = c THEN next ELSE stage[d]
      BY <2>1
    <3> QED
      BY <2>1, <2>2, <3>1 DEF AnswersLogin
  <2> QED
    BY <2>3, <2>4
<1>5. CASE UNCHANGED Message!vars
  <2>1. \A d \in Users : AnswersLogin(d)'
    BY <1>5 DEF Message!vars, AnswersLogin
  <2> QED
    BY <1>5, <2>1 DEF Message!vars
<1> QED
  BY <1>1, <1>2, <1>3, <1>4, <1>5 DEF Message!Next

\* A client sends its message only if the file it was compared with has the
\* login or the password that the server read from its address, or if the first
\* line there lacks what the address lacks, whatever the file is edited to in
\* between (load_users, render; main of libcurl_client).
THEOREM MessageOnlyWithLoginAlways == SmallSpec => []MessageOnlyWithLogin
<1>1. SmallInit => MessageInv
  BY MessageInit DEF SmallInit
<1>2. MessageInv /\ [SmallNext]_allVars => MessageInv'
  <2> SUFFICES ASSUME MessageInv, [SmallNext]_allVars PROVE MessageInv'
    OBVIOUS
  <2>1. Message!Next \/ UNCHANGED messageVars
    BY DEF SmallNext, allVars
  <2>2. [Message!Next]_Message!vars
    BY <2>1 DEF messageVars, Message!vars
  <2> QED
    BY <2>2, MessageStep
<1>3. MessageInv => MessageOnlyWithLogin
  BY DEF MessageInv, AnswersLogin, MessageOnlyWithLogin, Message!MessageOnlyWithLogin
<1> QED
  BY <1>1, <1>2, <1>3, PTL DEF SmallSpec

-----------------------------------------------------------------------------
(* The printer.  What print_payload prints is a recursive function of the    *)
(* bytes that remain, and the same as all its lines at once.                 *)

\* Line k of those that are printed when len_rem bytes remain, from line n on
LineAt(prints, len, len_rem, n, k) ==
    Printer!print_hex_ascii_line(prints, len - len_rem + (k - 1) * LineWidth,
        IF k < Printer!LinesFor(len_rem) THEN LineWidth ELSE len_rem - (k - 1) * LineWidth,
        (n + k - 1) * LineWidth)

LinesAt(prints, len, len_rem, n) ==
    [k \in 1..Printer!LinesFor(len_rem) |-> LineAt(prints, len, len_rem, n, k)]

\* What print_payload prints with len_rem bytes left, if From gives what it
\* prints after this line
Remaining(prints, len, From, len_rem, n) ==
    IF len_rem <= LineWidth
    THEN <<Printer!print_hex_ascii_line(prints, len - len_rem, len_rem, n * LineWidth)>>
    ELSE <<Printer!print_hex_ascii_line(prints, len - len_rem, LineWidth % len_rem, n * LineWidth)>>
            \o From[len_rem - (LineWidth % len_rem)][n + 1]

IsPrinting(prints, len, From) ==
    From = [len_rem \in 1..len |-> [n \in Nat |-> Remaining(prints, len, From, len_rem, n)]]

\* The number of full lines
LEMMA Quotient ==
    ASSUME NEW b \in Nat \ {0}, NEW k \in Nat, NEW n \in Nat, k * b <= n, n < k * b + b
    PROVE  n \div b = k
  OBVIOUS

LEMMA LinesForOne ==
    ASSUME NEW len \in Nat \ {0}, len <= LineWidth
    PROVE  Printer!LinesFor(len) = 1
<1>1. (len - 1) \div LineWidth = 0
  BY PacketsAssumption
<1> QED
  BY <1>1 DEF Printer!LinesFor

LEMMA LinesForMore ==
    ASSUME NEW len \in Nat, len > LineWidth
    PROVE  /\ len - LineWidth \in Nat \ {0} /\ LineWidth % len = LineWidth
           /\ Printer!LinesFor(len - LineWidth) \in Nat \ {0}
           /\ Printer!LinesFor(len) = Printer!LinesFor(len - LineWidth) + 1
<1>1. LineWidth \in Nat \ {0}
  BY PacketsAssumption
<1>2. len - LineWidth \in Nat \ {0} /\ LineWidth % len = LineWidth
  BY <1>1
<1> DEFINE m == len - LineWidth - 1
           q == m \div LineWidth
<1>3. m \in Nat /\ len - 1 = m + LineWidth
  BY <1>1
<1>4. q \in Nat /\ q * LineWidth <= m /\ m < q * LineWidth + LineWidth
  BY <1>1, <1>3
<1>5. (m + LineWidth) \div LineWidth = q + 1
  <2>1. (q + 1) * LineWidth = q * LineWidth + LineWidth
    BY <1>1, <1>4
  <2> HIDE DEF q, m
  <2> QED
    BY <1>1, <1>3, <1>4, <2>1, Quotient
<1>6. Printer!LinesFor(len) = q + 2 /\ Printer!LinesFor(len - LineWidth) = q + 1
  <2>1. ~(len <= 0) /\ ~(len - LineWidth <= 0)
    BY <1>1
  <2> QED
    BY <1>3, <1>4, <1>5, <2>1 DEF Printer!LinesFor
<1> QED
  BY <1>2, <1>4, <1>6

\* All the lines at once print what the recursion prints
LEMMA LinesRemaining ==
    ASSUME NEW prints, NEW len \in Nat, NEW From, NEW len_rem \in 1..len, NEW n \in Nat,
           len_rem > LineWidth =>
              From[len_rem - LineWidth][n + 1] = LinesAt(prints, len, len_rem - LineWidth, n + 1)
    PROVE  Remaining(prints, len, From, len_rem, n) = LinesAt(prints, len, len_rem, n)
<1>1. LineWidth \in Nat \ {0} /\ len_rem \in Nat \ {0}
  BY PacketsAssumption
<1>2. CASE len_rem <= LineWidth
  <2>1. LinesAt(prints, len, len_rem, n) = [k \in 1..1 |-> LineAt(prints, len, len_rem, n, k)]
    BY <1>1, <1>2, LinesForOne DEF LinesAt
  <2>2. LineAt(prints, len, len_rem, n, 1) =
           Printer!print_hex_ascii_line(prints, len - len_rem, len_rem, n * LineWidth)
    <3>1. /\ len - len_rem + (1 - 1) * LineWidth = len - len_rem
          /\ len_rem - (1 - 1) * LineWidth = len_rem /\ n + 1 - 1 = n
      BY <1>1
    <3>2. ~(1 < Printer!LinesFor(len_rem))
      BY <1>1, <1>2, LinesForOne
    <3> QED
      BY <3>1, <3>2 DEF LineAt
  <2>3. [k \in 1..1 |-> LineAt(prints, len, len_rem, n, k)] =
           <<LineAt(prints, len, len_rem, n, 1)>>
    OBVIOUS
  <2> QED
    BY <1>2, <2>1, <2>2, <2>3 DEF Remaining
<1>3. CASE len_rem > LineWidth
  <2> DEFINE rest == len_rem - LineWidth
             first == Printer!print_hex_ascii_line(prints, len - len_rem, LineWidth, n * LineWidth)
             more == Printer!LinesFor(rest)
             after == LinesAt(prints, len, rest, n + 1)
             all == LinesAt(prints, len, len_rem, n)
  <2>1. /\ rest \in Nat \ {0} /\ LineWidth % len_rem = LineWidth
        /\ more \in Nat \ {0} /\ Printer!LinesFor(len_rem) = more + 1
    BY <1>1, <1>3, LinesForMore
  <2>2. Remaining(prints, len, From, len_rem, n) = <<first>> \o after
    <3>1. ~(len_rem <= LineWidth)
      BY <1>1, <1>3
    <3>2. Remaining(prints, len, From, len_rem, n) =
             <<Printer!print_hex_ascii_line(prints, len - len_rem, LineWidth % len_rem, n * LineWidth)>>
                \o From[len_rem - (LineWidth % len_rem)][n + 1]
      BY <3>1, Zenon DEF Remaining
    <3>3. From[rest][n + 1] = after
      BY <1>3
    <3> HIDE DEF after
    <3> QED
      BY <2>1, <3>2, <3>3, Zenon
  <2>3. LineAt(prints, len, len_rem, n, 1) = first
    <3>1. len - len_rem + (1 - 1) * LineWidth = len - len_rem /\ n + 1 - 1 = n
      BY <1>1
    <3>2. 1 < Printer!LinesFor(len_rem)
      BY <2>1
    <3> QED
      BY <3>1, <3>2 DEF LineAt
  <2>4. ASSUME NEW k \in 2..(more + 1)
        PROVE  LineAt(prints, len, len_rem, n, k) = LineAt(prints, len, rest, n + 1, k - 1)
    <3>1. (k - 1) * LineWidth = ((k - 1) - 1) * LineWidth + LineWidth
      BY <1>1, <2>1
    <3>a. ((k - 1) - 1) * LineWidth \in Nat
      BY <1>1, <2>1
    <3>2. len - len_rem + (k - 1) * LineWidth = len - rest + ((k - 1) - 1) * LineWidth
      BY <1>1, <3>1, <3>a
    <3>3. len_rem - (k - 1) * LineWidth = rest - ((k - 1) - 1) * LineWidth
      BY <1>1, <3>1, <3>a
    <3>4. n + k - 1 = (n + 1) + (k - 1) - 1
      BY <2>1
    <3>5. (k < Printer!LinesFor(len_rem)) = (k - 1 < Printer!LinesFor(rest))
      BY <2>1
    <3> HIDE DEF rest
    <3> QED
      BY <3>2, <3>3, <3>4, <3>5 DEF LineAt
  <2>5. after = [k \in 1..more |-> LineAt(prints, len, rest, n + 1, k)]
    BY DEF LinesAt
  <2>6. all = [k \in 1..(more + 1) |-> LineAt(prints, len, len_rem, n, k)]
    BY <2>1 DEF LinesAt
  <2> HIDE DEF rest, first, more, after, all
  <2>7. <<first>> \o after = [k \in 1..(more + 1) |-> IF k = 1 THEN first ELSE after[k - 1]]
    <3>1. Len(after) = more
      BY <2>1, <2>5
    <3> QED
      BY <2>1, <3>1
  <2>8. \A k \in 1..(more + 1) :
           (IF k = 1 THEN first ELSE after[k - 1]) = LineAt(prints, len, len_rem, n, k)
    <3> TAKE k \in 1..(more + 1)
    <3>1. CASE k = 1
      BY <2>3, <3>1
    <3>2. CASE k # 1
      <4>1. k \in 2..(more + 1) /\ k - 1 \in 1..more
        BY <2>1, <3>2
      <4>2. after[k - 1] = LineAt(prints, len, rest, n + 1, k - 1)
        BY <2>5, <4>1
      <4> QED
        BY <2>4, <3>2, <4>1, <4>2
    <3> QED
      BY <3>1, <3>2
  <2>9. <<first>> \o after = all
    BY <2>6, <2>7, <2>8, Zenon
  <2> QED
    BY <2>2, <2>9 DEF all
<1> QED
  BY <1>1, <1>2, <1>3

\* The recursion has a solution
LEMMA PrintingExists ==
    ASSUME NEW prints, NEW len \in Nat
    PROVE  \E From : IsPrinting(prints, len, From)
<1> DEFINE From == [len_rem \in 1..len |-> [n \in Nat |-> LinesAt(prints, len, len_rem, n)]]
<1>1. ASSUME NEW len_rem \in 1..len, NEW n \in Nat
      PROVE  Remaining(prints, len, From, len_rem, n) = LinesAt(prints, len, len_rem, n)
  <2>1. ASSUME len_rem > LineWidth
        PROVE  From[len_rem - LineWidth][n + 1] = LinesAt(prints, len, len_rem - LineWidth, n + 1)
    <3>1. len_rem - LineWidth \in 1..len /\ n + 1 \in Nat
      BY <2>1, PacketsAssumption
    <3> QED
      BY <3>1
  <2> HIDE DEF From
  <2> QED
    BY <2>1, LinesRemaining
<1>2. From = [len_rem \in 1..len |-> [n \in Nat |-> Remaining(prints, len, From, len_rem, n)]]
  <2> DEFINE R == [len_rem \in 1..len |-> [n \in Nat |-> Remaining(prints, len, From, len_rem, n)]]
  <2>1. ASSUME NEW len_rem \in 1..len
        PROVE  [n \in Nat |-> LinesAt(prints, len, len_rem, n)] =
               [n \in Nat |-> Remaining(prints, len, From, len_rem, n)]
    <3> HIDE DEF From
    <3> QED
      BY <1>1
  <2> QED
    BY <2>1, Zenon
<1> QED
  BY <1>2, Zenon DEF IsPrinting

\* and no other than all the lines at once
LEMMA PrintingLines ==
    ASSUME NEW prints, NEW len \in Nat, NEW From, IsPrinting(prints, len, From),
           NEW len_rem \in 1..len, NEW n \in Nat
    PROVE  From[len_rem][n] = LinesAt(prints, len, len_rem, n)
<1> DEFINE Same(r) == \A m \in Nat : From[r][m] = LinesAt(prints, len, r, m)
           T == {r \in 1..len : ~Same(r)}
<1>1. SUFFICES ASSUME T # {} PROVE FALSE
  OBVIOUS
<1>2. PICK r \in T : \A m \in T : r <= m
  <2> HIDE DEF T
  <2>1. T \subseteq Nat
    BY DEF T
  <2> QED
    BY <1>1, <2>1, LeastElement
<1>3. ASSUME NEW m \in Nat PROVE From[r][m] = LinesAt(prints, len, r, m)
  <2>1. From[r][m] = Remaining(prints, len, From, r, m)
    <3> DEFINE f == [l \in 1..len |-> [k \in Nat |-> Remaining(prints, len, From, l, k)]]
    <3>1. From = f
      BY Zenon DEF IsPrinting
    <3>2. r \in 1..len /\ f[r] = [k \in Nat |-> Remaining(prints, len, From, r, k)]
      OBVIOUS
    <3>3. f[r][m] = Remaining(prints, len, From, r, m)
      BY <3>2, Zenon
    <3> HIDE DEF f
    <3> QED
      BY <3>1, <3>3, Zenon
  <2>2. ASSUME r > LineWidth
        PROVE  From[r - LineWidth][m + 1] = LinesAt(prints, len, r - LineWidth, m + 1)
    <3>1. r - LineWidth \in 1..len /\ m + 1 \in Nat /\ ~(r <= r - LineWidth)
      BY <2>2, PacketsAssumption
    <3>2. r - LineWidth \notin T
      BY <1>2, <3>1
    <3> QED
      BY <3>1, <3>2
  <2>3. r \in 1..len
    OBVIOUS
  <2> HIDE DEF T
  <2> QED
    BY <2>1, <2>2, <2>3, LinesRemaining
<1> QED
  BY <1>2, <1>3

\* What is printed of so many bytes, line by line
LEMMA PrintPayload ==
    ASSUME NEW prints, NEW len \in Int
    PROVE  Printer!print_payload(prints, len) = LinesAt(prints, len, len, 0)
<1>1. CASE len <= 0
  <2>1. Printer!LinesFor(len) = 0
    BY <1>1 DEF Printer!LinesFor
  <2>2. LinesAt(prints, len, len, 0) = <<>>
    BY <2>1 DEF LinesAt
  <2> QED
    BY <1>1, <2>2 DEF Printer!print_payload
<1>2. CASE ~(len <= 0)
  <2> DEFINE From == CHOOSE f : IsPrinting(prints, len, f)
  <2>1. len \in Nat /\ len \in 1..len
    BY <1>2
  <2>2. IsPrinting(prints, len, From)
    BY <2>1, PrintingExists
  <2>3. Printer!print_payload(prints, len) = From[len][0]
    BY <1>2 DEF Printer!print_payload, IsPrinting, Remaining
  <2> HIDE DEF From
  <2> QED
    BY <2>1, <2>2, <2>3, PrintingLines
<1> QED
  BY <1>1, <1>2

\* Each line begins where the one before has ended, and the last has what is left
LEMMA LinesBegin ==
    ASSUME NEW len \in Int, NEW n \in 1..Printer!LinesFor(len)
    PROVE  /\ len \in Nat \ {0} /\ Printer!LinesFor(len) \in Nat
           /\ (n - 1) * LineWidth \in Nat /\ (n - 1) * LineWidth < len
<1>1. LineWidth \in Nat \ {0}
  BY PacketsAssumption
<1>2. len \in Nat \ {0}
  BY DEF Printer!LinesFor
<1> DEFINE q == (len - 1) \div LineWidth
<1>3. q \in Nat /\ q * LineWidth <= len - 1
  BY <1>1, <1>2
<1>4. Printer!LinesFor(len) = q + 1
  BY <1>2 DEF Printer!LinesFor
<1> HIDE DEF q
<1>5. n - 1 \in 0..q
  BY <1>3, <1>4
<1>6. (n - 1) * LineWidth <= q * LineWidth
  <2>1. PICK d \in Nat : q = (n - 1) + d
    <3>1. q - (n - 1) \in Nat /\ q = (n - 1) + (q - (n - 1))
      BY <1>3, <1>5
    <3> QED
      BY <3>1
  <2>2. q * LineWidth = (n - 1) * LineWidth + d * LineWidth /\ d * LineWidth \in Nat
    BY <1>1, <1>5, <2>1
  <2>3. (n - 1) * LineWidth \in Nat
    BY <1>1, <1>5
  <2> QED
    BY <2>2, <2>3
<1>7. (n - 1) * LineWidth \in Nat /\ q * LineWidth \in Nat
  BY <1>1, <1>3, <1>5
<1> QED
  BY <1>2, <1>3, <1>4, <1>6, <1>7

\* A line is in its place, as long as it should be, and so are its bytes, and
\* the characters that are shown are under them
IsWhole(prints, len, n, line) ==
    LET first == (n - 1) * LineWidth
    IN  /\ line.offset = first
        /\ Len(line.bytes) = IF n < Printer!LinesFor(len) THEN LineWidth ELSE len - first
        /\ \A i \in 1..Len(line.bytes) :
              /\ line.bytes[i] = first + i - 1
              /\ line.ascii[i] \in {Printer!Dot, line.bytes[i]} \cap ({Printer!Dot} \cup prints)

LEMMA LineWhole ==
    ASSUME NEW prints, NEW len \in Int, NEW n \in 1..Printer!LinesFor(len)
    PROVE  IsWhole(prints, len, n, LinesAt(prints, len, len, 0)[n])
<1> DEFINE line  == LinesAt(prints, len, len, 0)[n]
           first == (n - 1) * LineWidth
           size  == IF n < Printer!LinesFor(len) THEN LineWidth ELSE len - first
<1>1. LineWidth \in Nat /\ len \in Nat /\ first \in Nat /\ first < len
  BY LinesBegin, PacketsAssumption
<1>2. size \in Nat
  BY <1>1
<1>3. line = Printer!print_hex_ascii_line(prints, first, size, first)
  <2>1. len - len + (n - 1) * LineWidth = first /\ 0 + n - 1 = n - 1
    BY <1>1
  <2>2. line = LineAt(prints, len, len, 0, n)
    BY DEF LinesAt
  <2> QED
    BY <2>1, <2>2 DEF LineAt
<1> HIDE DEF line, first, size
<1>4. /\ line.offset = first
      /\ line.bytes = [i \in 1..size |-> first + i - 1]
      /\ line.ascii = [i \in 1..size |-> Printer!Column(prints, first, i - 1)]
  BY <1>3 DEF Printer!print_hex_ascii_line
<1>5. Len(line.bytes) = size
  BY <1>2, <1>4
<1>6. ASSUME NEW i \in 1..size
      PROVE  /\ line.bytes[i] = first + i - 1
             /\ line.ascii[i] \in {Printer!Dot, line.bytes[i]} \cap ({Printer!Dot} \cup prints)
  <2>1. line.bytes[i] = first + i - 1 /\ line.ascii[i] = Printer!Column(prints, first, i - 1)
    BY <1>4
  <2>2. first + (i - 1) = first + i - 1 /\ first + (i - 1) \in first..(first + (i - 1))
    BY <1>1, <1>2
  <2>3. CASE first..(first + (i - 1)) \subseteq prints
    BY <2>1, <2>2, <2>3 DEF Printer!Column
  <2>4. CASE ~(first..(first + (i - 1)) \subseteq prints)
    BY <2>1, <2>4 DEF Printer!Column
  <2> QED
    BY <2>3, <2>4
<1>7. /\ line.offset = first /\ Len(line.bytes) = size
      /\ \A i \in 1..Len(line.bytes) :
            /\ line.bytes[i] = first + i - 1
            /\ line.ascii[i] \in {Printer!Dot, line.bytes[i]} \cap ({Printer!Dot} \cup prints)
  BY <1>4, <1>5, <1>6
<1> QED
  BY <1>7 DEF IsWhole, line, first, size

\* The data of a packet
DataOf(packet) == IF Printer!TakenForTcp(packet) THEN Printer!size_payload(packet) ELSE 0

LEMMA GotPacket ==
    ASSUME NEW packet \in Packets
    PROVE  /\ DataOf(packet) \in Int
           /\ Printer!got_packet(packet) = LinesAt(packet.prints, DataOf(packet), DataOf(packet), 0)
<1>1. packet.ip_hl \in Nat /\ packet.th_off \in Nat /\ packet.ip_len \in Nat
  BY PacketsAssumption
<1>2. DataOf(packet) \in Int
  BY <1>1 DEF DataOf, Printer!size_payload
<1>3. Printer!TakenForTcp(packet) <=>
         /\ packet.ip_hl * 4 >= 20 /\ packet.th_off * 4 >= 20
         /\ Printer!ip_p(packet) = Printer!IPPROTO_TCP
  BY <1>1 DEF Printer!TakenForTcp, Printer!ip_p, Printer!IPPROTO_TCP
<1>4. CASE Printer!TakenForTcp(packet)
  BY <1>2, <1>3, <1>4, PrintPayload DEF DataOf, Printer!got_packet
<1>5. CASE ~Printer!TakenForTcp(packet)
  <2>1. DataOf(packet) = 0 /\ Printer!got_packet(packet) = <<>>
    BY <1>3, <1>5 DEF DataOf, Printer!got_packet
  <2>2. Printer!print_payload(packet.prints, 0) = <<>>
    BY DEF Printer!print_payload
  <2> QED
    BY <2>1, <2>2, PrintPayload
<1> QED
  BY <1>2, <1>4, <1>5

\* What has been printed is the packets of the file
PrinterInv ==
    /\ Printer!TypeOK
    /\ lines \in Seq({Printer!got_packet(packet) : packet \in Packets})
    /\ \A k \in 1..Len(dump) : lines[k] = Printer!got_packet(dump[k])

LEMMA PrinterStep == PrinterInv /\ [Printer!Next]_Printer!vars => PrinterInv'
<1> SUFFICES ASSUME PrinterInv, [Printer!Next]_Printer!vars PROVE PrinterInv'
  OBVIOUS
<1> USE DEF PrinterInv, Printer!TypeOK, Printer!Steps
<1>1. CASE Printer!Start \/ Printer!Stop
  BY <1>1 DEF Printer!Start, Printer!Stop
<1>2. ASSUME NEW packet \in Packets, Printer!pcap_callback(packet) PROVE PrinterInv'
  <2> DEFINE Printed == {Printer!got_packet(other) : other \in Packets}
  <2>1. dump' = Append(dump, packet) /\ lines' = Append(lines, Printer!got_packet(packet)) /\ step' = step
    BY <1>2 DEF Printer!pcap_callback
  <2>2. Printer!got_packet(packet) \in Printed
    OBVIOUS
  <2> HIDE DEF Printed
  <2>3. lines \in Seq(Printed) /\ dump \in Seq(Packets) /\ Len(lines) = Len(dump)
    BY DEF Printed
  <2>4. lines' \in Seq(Printed) /\ dump' \in Seq(Packets) /\ Len(lines') = Len(dump')
    BY <2>1, <2>2, <2>3
  <2>5. ASSUME NEW k \in 1..Len(dump') PROVE lines'[k] = Printer!got_packet(dump'[k])
    <3>1. CASE k \in 1..Len(dump)
      <4>1. lines'[k] = lines[k] /\ dump'[k] = dump[k]
        BY <2>1, <2>2, <2>3, <3>1
      <4> QED
        BY <3>1, <4>1
    <3>2. CASE k \notin 1..Len(dump)
      <4>1. lines'[k] = Printer!got_packet(packet) /\ dump'[k] = packet
        BY <2>1, <2>2, <2>3, <3>2
      <4> QED
        BY <4>1
    <3> QED
      BY <3>1, <3>2
  <2> QED
    BY <2>1, <2>4, <2>5 DEF Printed
<1>3. CASE UNCHANGED Printer!vars
  BY <1>3 DEF Printer!vars
<1> QED
  BY <1>1, <1>2, <1>3 DEF Printer!Next

\* What is printed of every packet in the file is all its data, when the second
\* byte of its destination is TCP's number and the headers can be right, in full
\* lines but for the last, with each byte in its place and the characters under
\* their own bytes (sniff_ip; print_payload, print_hex_ascii_line).
THEOREM PrintedWholeAlways == SmallSpec => []PrintedWhole
<1>1. SmallInit => PrinterInv
  <2> SUFFICES ASSUME Printer!Init PROVE PrinterInv
    BY DEF SmallInit
  <2>1. step = "start" /\ dump = <<>> /\ lines = <<>>
    BY DEF Printer!Init
  <2>2. \A S : <<>> \in Seq(S)
    OBVIOUS
  <2> QED
    BY <2>1, <2>2 DEF PrinterInv, Printer!TypeOK, Printer!Steps
<1>2. PrinterInv /\ [SmallNext]_allVars => PrinterInv'
  <2> SUFFICES ASSUME PrinterInv, [SmallNext]_allVars PROVE PrinterInv'
    OBVIOUS
  <2>1. Printer!Next \/ UNCHANGED printerVars
    BY DEF SmallNext, allVars
  <2>2. [Printer!Next]_Printer!vars
    BY <2>1 DEF printerVars, Printer!vars
  <2> QED
    BY <2>2, PrinterStep
<1>3. PrinterInv => PrintedWhole
  <2> SUFFICES ASSUME PrinterInv, NEW k \in 1..Len(dump)
               PROVE  LET len == DataOf(dump[k])
                      IN  /\ Len(lines[k]) = Printer!LinesFor(len)
                          /\ \A n \in 1..Len(lines[k]) :
                                LET line  == lines[k][n]
                                    first == (n - 1) * LineWidth
                                IN  /\ line.offset = first
                                    /\ Len(line.bytes) =
                                          IF n < Len(lines[k]) THEN LineWidth ELSE len - first
                                    /\ \A i \in 1..Len(line.bytes) :
                                          /\ line.bytes[i] = first + i - 1
                                          /\ line.ascii[i] \in {Printer!Dot, line.bytes[i]}
                                                \cap ({Printer!Dot} \cup dump[k].prints)
    BY DEF PrintedWhole, Printer!PrintedWhole, DataOf
  <2> DEFINE len == DataOf(dump[k])
  <2>1. dump[k] \in Packets /\ lines[k] = Printer!got_packet(dump[k])
    BY DEF PrinterInv, Printer!TypeOK
  <2>2. len \in Int /\ lines[k] = LinesAt(dump[k].prints, len, len, 0)
    BY <2>1, GotPacket
  <2> HIDE DEF len
  <2>3. Printer!LinesFor(len) \in Nat
    <3>1. CASE len <= 0
      BY <3>1 DEF Printer!LinesFor
    <3>2. CASE ~(len <= 0)
      <4>1. (len - 1) \div LineWidth \in Nat
        BY <2>2, <3>2, PacketsAssumption
      <4> QED
        BY <3>2, <4>1 DEF Printer!LinesFor
    <3> QED
      BY <3>1, <3>2
  <2>4. Len(lines[k]) = Printer!LinesFor(len)
    BY <2>2, <2>3 DEF LinesAt
  <2>5. ASSUME NEW n \in 1..Len(lines[k])
        PROVE  LET line  == lines[k][n]
                   first == (n - 1) * LineWidth
               IN  /\ line.offset = first
                   /\ Len(line.bytes) = IF n < Len(lines[k]) THEN LineWidth ELSE len - first
                   /\ \A i \in 1..Len(line.bytes) :
                         /\ line.bytes[i] = first + i - 1
                         /\ line.ascii[i] \in {Printer!Dot, line.bytes[i]}
                               \cap ({Printer!Dot} \cup dump[k].prints)
    <3>1. n \in 1..Printer!LinesFor(len)
      BY <2>4
    <3>2. IsWhole(dump[k].prints, len, n, lines[k][n])
      BY <2>2, <3>1, LineWhole
    <3> QED
      BY <2>4, <3>2 DEF IsWhole
  <2> QED
    BY <2>4, <2>5, Zenon DEF len
<1> QED
  BY <1>1, <1>2, <1>3, PTL DEF SmallSpec
=============================================================================
