---------------------------- MODULE SmallPrograms ----------------------------
(***************************************************************************)
(* The four small programs, which have nothing to do with each other: each *)
(* behaviour is one of one of them, while the others have not started.     *)
(***************************************************************************)
EXTENDS UdpEcho, Integers, Sequences

CONSTANTS
    Programs, None, MaxDescriptors,             \* of AsioServer
    Users, Logins, UserFiles,                   \* Clients, Words, Files of MessageService
    LineWidth, MAX_PACKET_TO_CAPTURE, Packets   \* of PacketPrinter

VARIABLES
    program,
    accepting, handling, backlog, held, writing, message_sent, end, stopped,
    users, request, pending, answer, loaded, stage,
    step, dump, lines

Asio    == INSTANCE AsioServer WITH message <- message_sent
Message == INSTANCE MessageService WITH
              Clients <- Users, Words <- Logins, Files <- UserFiles, buffer <- answer, phase <- stage
Printer == INSTANCE PacketPrinter

ASSUME ConnectsAssumption == {None, "error"} \cap Programs = {} /\ None # "error"
ASSUME UsersAssumption ==
    /\ UserFiles \subseteq Seq(Seq(Logins))
    /\ Message!Nothing \notin Logins
ASSUME PacketsAssumption ==
    /\ LineWidth \in Nat \ {0}
    /\ MAX_PACKET_TO_CAPTURE \in Nat
    /\ \A packet \in Packets :
          {packet.ip_hl, packet.th_off, packet.ip_len} \cup packet.prints \subseteq Nat

asioVars    == <<accepting, handling, backlog, held, writing, message_sent, end, stopped>>
messageVars == <<users, request, pending, answer, loaded, stage>>
printerVars == <<step, dump, lines>>
allVars     == <<program, vars, asioVars, messageVars, printerVars>>

SmallInit ==
    /\ program \in {"udp", "asio", "message", "printer"}
    /\ Init /\ Asio!Init /\ Message!Init /\ Printer!Init
    /\ program # "message" => users = <<>>

SmallNext ==
    \/ /\ program = "udp" /\ Next
       /\ UNCHANGED <<program, asioVars, messageVars, printerVars>>
    \/ /\ program = "asio" /\ Asio!Next
       /\ UNCHANGED <<program, vars, messageVars, printerVars>>
    \/ /\ program = "message" /\ Message!Next
       /\ UNCHANGED <<program, vars, asioVars, printerVars>>
    \/ /\ program = "printer" /\ Printer!Next
       /\ UNCHANGED <<program, vars, asioVars, messageVars>>

SmallSpec ==
    /\ SmallInit /\ [][SmallNext]_allVars
    /\ program = "udp" => Fairness
    /\ program = "asio" => Asio!Fairness

\* AlwaysAccepting of AsioServer: the io_context never runs out of work
\* (handle_accept, start_accept).
AlwaysAccepting == Asio!AlwaysAccepting

\* Served of AsioServer: who waits gets the daytime and is closed, although
\* descriptors run out (start, handle_write).
Served == Asio!Served

\* MessageOnlyWithLogin of MessageService: only a login or a password of the
\* file, or the lack of one that its first line lacks too, lets a client send
\* its message (load_users, render).
MessageOnlyWithLogin == Message!MessageOnlyWithLogin

\* PrintedWhole of PacketPrinter: all data of each packet that the printer takes
\* for TCP, by a byte of its destination, are printed, each byte once and in
\* its place (sniff_ip, print_payload).
PrintedWhole == Printer!PrintedWhole
=============================================================================
