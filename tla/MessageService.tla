--------------------------- MODULE MessageService ---------------------------
(***************************************************************************)
(* The message service of lesson7: libhttpserver_server, whose file of     *)
(* users is read for every login, and programs libcurl_client.             *)
(*                                                                         *)
(* Requests are served one after the other.  The client puts what its user *)
(* types into the address as it is, after "login=" and "pass=", while the  *)
(* server reads "login" and "password": an argument that is not there is   *)
(* the empty string, and what is typed may bring its own "&password=".     *)
(***************************************************************************)
EXTENDS Naturals, Sequences

CONSTANTS
    Clients,  \* programs libcurl_client
    Words,    \* logins and passwords
    Files     \* what the file of users may hold: sequences of lines of words

\* A field or an argument that is not there, which is the empty string
Nothing == "nothing"
\* The file cannot be opened
Missing == <<"missing">>
NoOne   == [login |-> Nothing, password |-> Nothing]

VARIABLES
    users,   \* the file
    request, \* the arguments that the server gets of each client, see Requests
    pending, \* clients whose login is under way
    buffer,  \* what each client has been answered, "" at first
    loaded,  \* the file when that answer was made
    phase    \* what each client is doing, see Phases

vars == <<users, request, pending, buffer, loaded, phase>>

\* As the server reads them.  What is typed has a login or begins with "&", and
\* gives a password, or as usual none
Requests == [login : Words \cup {Nothing}, password : Words \cup {Nothing}]

Phases == {"login", "waiting", "message", "sent", "exit"}

Init ==
    /\ users   \in Files \cup {Missing}
    /\ request = [c \in Clients |-> NoOne]
    /\ pending = {}
    /\ buffer  = [c \in Clients |-> ""]
    /\ loaded  = [c \in Clients |-> Missing]
    /\ phase   = [c \in Clients |-> "login"]

-----------------------------------------------------------------------------
(* libhttpserver_server *)

\* Mutant of Read: what the line does not have is empty
ReadCleared(user, line) ==
    [login    |-> IF Len(line) > 0 THEN line[1] ELSE Nothing,
     password |-> IF Len(line) > 1 THEN line[2] ELSE Nothing]

\* A line is read over the user of the line before
Read(user, line) ==
    [login    |-> IF Len(line) > 0 THEN line[1] ELSE user.login,
     password |-> IF Len(line) > 1 THEN line[2] ELSE user.password]

\* The users of each line
load_users ==
    IF users = Missing THEN <<>>
    ELSE LET user[i \in 0..Len(users)] == IF i = 0 THEN NoOne ELSE Read(user[i - 1], users[i])
         IN  [i \in 1..Len(users) |-> user[i]]

\* Either will do
Matches(user, args) == user.login = args.login \/ user.password = args.password

\* Every login has an answer of its own, from the file as it is now
Render(c) ==
    /\ c \in pending
    /\ buffer' = [buffer EXCEPT ![c] =
          IF \E i \in 1..Len(load_users) : Matches(load_users[i], request[c]) THEN "Ok" ELSE "Not found"]
    /\ loaded'  = [loaded EXCEPT ![c] = users]
    /\ pending' = pending \ {c}
    /\ UNCHANGED <<users, request, phase>>

\* The file is edited while the server runs
Edit(file) ==
    /\ users' = file
    /\ UNCHANGED <<request, pending, buffer, loaded, phase>>

-----------------------------------------------------------------------------
(* libcurl_client *)

\* The user types a login and a password, of which the server gets args
Client_Autorization_Request(c, args) ==
    /\ phase[c] = "login"
    /\ request' = [request EXCEPT ![c] = args]
    /\ pending' = pending \cup {c}
    /\ phase'   = [phase EXCEPT ![c] = "waiting"]
    /\ UNCHANGED <<users, buffer, loaded>>

\* The answer is looked at
Answered(c) ==
    /\ phase[c] = "waiting" /\ buffer[c] # ""
    /\ phase' = [phase EXCEPT ![c] = IF buffer[c] = "Ok" THEN "message" ELSE "exit"]
    /\ UNCHANGED <<users, request, pending, buffer, loaded>>

\* curl_easy_perform fails, whether or not the server has answered
RequestFails(c) ==
    /\ phase[c] = "waiting"
    /\ phase' = [phase EXCEPT ![c] = "exit"]
    /\ UNCHANGED <<users, request, pending, buffer, loaded>>

\* Any answer to the message will do
Send_Message(c) ==
    /\ phase[c] = "message"
    /\ \E outcome \in {"sent", "exit"} : phase' = [phase EXCEPT ![c] = outcome]
    /\ UNCHANGED <<users, request, pending, buffer, loaded>>

-----------------------------------------------------------------------------

Next ==
    \/ \E file \in Files \cup {Missing} : Edit(file)
    \/ \E c \in Clients :
          \/ Render(c)
          \/ \E args \in Requests : Client_Autorization_Request(c, args)
          \/ Answered(c) \/ RequestFails(c)
          \/ Send_Message(c)

Spec == Init /\ [][Next]_vars

-----------------------------------------------------------------------------
(* Properties *)

TypeOK ==
    /\ users \in Files \cup {Missing}
    /\ request \in [Clients -> Requests]
    /\ pending \subseteq Clients
    /\ buffer \in [Clients -> {"", "Ok", "Not found"}]
    /\ loaded \in [Clients -> Files \cup {Missing}]
    /\ phase \in [Clients -> Phases]

\* The arguments have a login or a password of the file, or lack what its first
\* line lacks
Known(file, args) ==
    /\ file \notin {Missing, <<>>}
    /\ \/ \E i \in 1..Len(file) : Len(file[i]) > 0 /\ file[i][1] = args.login
       \/ \E i \in 1..Len(file) : Len(file[i]) > 1 /\ file[i][2] = args.password
       \/ args.login = Nothing /\ Len(file[1]) = 0
       \/ args.password = Nothing /\ Len(file[1]) < 2

\* A client sends its message only if the file it was compared with has its
\* login or its password, each as the server reads them from the address, or
\* the first line lacks what the address lacks.  A later line without a
\* password, or an empty one, lets nobody else in, for it is read over the
\* user of the line before (load_users, render; main of libcurl_client).
MessageOnlyWithLogin == \A c \in Clients :
    phase[c] \in {"message", "sent"} => Known(loaded[c], request[c])
=============================================================================
