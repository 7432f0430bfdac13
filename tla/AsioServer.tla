----------------------------- MODULE AsioServer -----------------------------
(***************************************************************************)
(* The daytime server of lesson4/asio_server, and programs that connect.   *)
(*                                                                         *)
(* One thread runs the handlers of the io_context.  The handler of an      *)
(* accept starts the answer in a thread of its own, waits for it and       *)
(* begins the next accept.  A connection lives as long as a handler holds  *)
(* its shared_ptr: the one of the accept, then the one of the write.       *)
(***************************************************************************)
EXTENDS Naturals, FiniteSets, Sequences

CONSTANTS
    Programs,       \* that connect, once each
    None,           \* no program
    MaxDescriptors  \* descriptors the server can have for connections

VARIABLES
    accepting,  \* an accept is pending
    handling,   \* the program of the handler that runs, "error" or None
    backlog,    \* programs that wait to be taken
    held,       \* connections that a handler holds
    writing,    \* those whose write has begun and not been completed
    message,    \* programs the daytime has been sent to
    end,        \* the socket of each program
    stopped     \* main has ended

vars == <<accepting, handling, backlog, held, writing, message, end, stopped>>

Init ==
    /\ accepting = TRUE
    /\ handling  = None
    /\ backlog   = <<>>
    /\ held      = {}
    /\ writing   = {}
    /\ message   = {}
    /\ end       = [p \in Programs |-> "none"]
    /\ stopped   = FALSE

-----------------------------------------------------------------------------
(* asio_server *)

\* The thread of the io_context takes the next handler
Idle == ~stopped /\ handling = None

HasDescriptor == Cardinality(held) < MaxDescriptors

Accepted ==
    /\ Idle /\ accepting /\ HasDescriptor /\ backlog # <<>>
    /\ accepting' = FALSE
    /\ handling'  = Head(backlog)
    /\ backlog'   = Tail(backlog)
    /\ held'      = held \cup {Head(backlog)}
    /\ UNCHANGED <<writing, message, end, stopped>>

\* accept fails before it looks for somebody
AcceptError ==
    /\ Idle /\ accepting /\ ~HasDescriptor
    /\ accepting' = FALSE
    /\ handling'  = "error"
    /\ UNCHANGED <<backlog, held, writing, message, end, stopped>>

\* start in its thread, which is joined: the text is sent at once if it can be,
\* and the handler of the write waits for its turn
Start ==
    /\ ~stopped
    /\ handling \in Programs /\ handling \notin writing
    /\ writing' = writing \cup {handling}
    /\ message' = IF end[handling] = "open" THEN message \cup {handling} ELSE message
    /\ UNCHANGED <<accepting, handling, backlog, held, end, stopped>>

\* Mutant of StartsAccept: not after an error
StartsAcceptUnlessError == handling # "error"

\* The next accept is begun whatever the handler was called with
StartsAccept == TRUE

HandleAccept ==
    /\ ~stopped
    /\ handling \in writing \cup {"error"}
    /\ accepting' = StartsAccept
    /\ handling'  = None
    /\ UNCHANGED <<backlog, held, writing, message, end, stopped>>

\* std::thread throws, through run into the handler of main
NoThread ==
    /\ ~stopped
    /\ handling \in Programs \ writing
    /\ stopped' = TRUE
    /\ backlog' = <<>> /\ held' = {} /\ writing' = {}
    /\ UNCHANGED <<accepting, handling, message, end>>

\* Mutant of Release: the connection stays in a list
ReleaseKept(p) == held

\* The handler of the write was the last to hold the connection
Release(p) == held \ {p}

HandleWrite(p) ==
    /\ Idle
    /\ p \in writing
    /\ writing' = writing \ {p}
    /\ held'    = Release(p)
    /\ UNCHANGED <<accepting, handling, backlog, message, end, stopped>>

-----------------------------------------------------------------------------
(* The programs *)

Connect(p) ==
    /\ ~stopped /\ end[p] = "none"
    /\ end'     = [end EXCEPT ![p] = "open"]
    /\ backlog' = Append(backlog, p)
    /\ UNCHANGED <<accepting, handling, held, writing, message, stopped>>

Leave(p) ==
    /\ end[p] = "open"
    /\ end' = [end EXCEPT ![p] = "closed"]
    /\ UNCHANGED <<accepting, handling, backlog, held, writing, message, stopped>>

-----------------------------------------------------------------------------

Next ==
    \/ Accepted \/ AcceptError \/ Start \/ HandleAccept \/ NoThread
    \/ \E p \in Programs : HandleWrite(p) \/ Connect(p) \/ Leave(p)

\* The threads run, and what waits in the queue of the io_context, or for the
\* pending accept, has its turn although failing accepts come in between
Fairness ==
    /\ WF_vars(Start) /\ WF_vars(HandleAccept) /\ WF_vars(AcceptError)
    /\ SF_vars(Accepted)
    /\ \A p \in Programs : SF_vars(HandleWrite(p))

Spec == Init /\ [][Next]_vars /\ Fairness

-----------------------------------------------------------------------------
(* Properties *)

TypeOK ==
    /\ accepting \in BOOLEAN
    /\ handling \in Programs \cup {"error", None}
    /\ backlog \in Seq(Programs)
    /\ held \subseteq Programs
    /\ writing \subseteq held
    /\ message \subseteq Programs
    /\ end \in [Programs -> {"none", "open", "closed"}]
    /\ stopped \in BOOLEAN

\* The io_context never runs out of work, which would end main: an accept is
\* pending or the handler that begins the next one runs, also when accepts have
\* failed (handle_accept, start_accept).
AlwaysAccepting == ~stopped => accepting \/ handling # None

\* Who waits gets the daytime and is closed, although descriptors run out: the
\* last handler of a connection gives its descriptor back (start, handle_write,
\* the shared_ptr of each handler).
Served == \A p \in Programs :
    (\E i \in 1..Len(backlog) : backlog[i] = p)
       ~> (p \in message /\ p \notin held) \/ end[p] = "closed" \/ stopped
=============================================================================
