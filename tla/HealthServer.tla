---------------------------- MODULE HealthServer ----------------------------
(***************************************************************************)
(* infrastructure/health_server.py: the listening server, and one handler  *)
(* task per connection.  A step of a handler is what it does between two   *)
(* awaits.                                                                 *)
(*                                                                         *)
(* asyncio.Server is external, as it is in the Python this project asks    *)
(* for (3.14): close() ends the listening at once and leaves the           *)
(* connections alone, wait_closed() returns when the last one has ended.   *)
(*                                                                         *)
(* A request is a line, any number of header lines, and the blank line     *)
(* that ends them (or the end of the input, which reads as a blank line):  *)
(* how many there are is up to the client, whose lines come when they      *)
(* please.  Which path it asks for shows in the answer.                    *)
(*                                                                         *)
(* Cli puts these actions in the order in which the command line calls     *)
(* start and stop, once each; the early returns that make both idempotent  *)
(* change nothing and have no action.                                      *)
(***************************************************************************)
CONSTANTS
    Conns       \* connections that may be open at the same time

VARIABLES
    server,     \* _server: unset, listening, or closed and being waited for
    conn,       \* what the handler of each connection does, or has answered
    line        \* a line that the client has sent and the handler has not read

vars == <<server, conn, line>>

Answers == {"ok", "not_found"}
Reads == {"request", "headers"}

\* Every variable has its type.
TypeOK ==
    /\ server \in {"none", "listening", "closing"}
    /\ conn \in [Conns -> {"none", "closing"} \cup Reads \cup Answers]
    /\ line \in [Conns -> {"none", "header", "blank"}]

Init ==
    /\ server = "none"
    /\ conn = [c \in Conns |-> "none"]
    /\ line = [c \in Conns |-> "none"]

-----------------------------------------------------------------------------
(* start and stop                                                           *)

Start == server = "none" /\ server' = "listening" /\ UNCHANGED <<conn, line>>

\* The port is taken: start_server raises and _server stays unset.
StartFails == server = "none" /\ UNCHANGED vars

Close == server = "listening" /\ server' = "closing" /\ UNCHANGED <<conn, line>>

AllEndedMutant == \A c \in Conns : conn[c] \notin Reads

AllEnded == \A c \in Conns : conn[c] = "none"

\* wait_closed returns and _server is unset.
StopReturns ==
    /\ server = "closing" /\ AllEnded
    /\ server' = "none"
    /\ UNCHANGED <<conn, line>>

-----------------------------------------------------------------------------
(* _handle_client and _serve_request                                        *)

Goto(c, await) == conn' = [conn EXCEPT ![c] = await]

AcceptingMutant == server # "none"

Accepting == server = "listening"

Accept(c) ==
    /\ Accepting /\ conn[c] = "none"
    /\ Goto(c, "request")
    /\ UNCHANGED <<server, line>>

\* The client sends one more line of its request.
SendLine(c) ==
    /\ conn[c] \in Reads /\ line[c] = "none"
    /\ \E l \in {"header", "blank"} : line' = [line EXCEPT ![c] = l]
    /\ UNCHANGED <<server, conn>>

TakeLine(c) == line[c] # "none" /\ line' = [line EXCEPT ![c] = "none"]

\* The first line, whatever it says, and the header lines: each is waited for
\* anew, with a timeout of its own, and nothing counts them.
ReadLine(c) ==
    /\ \/ conn[c] = "request"
       \/ conn[c] = "headers" /\ line[c] = "header"
    /\ TakeLine(c)
    /\ Goto(c, "headers")
    /\ UNCHANGED server

\* The blank line completes the request: the response is written.
Respond(c) ==
    /\ conn[c] = "headers" /\ line[c] = "blank"
    /\ TakeLine(c)
    /\ \E answer \in Answers : Goto(c, answer)
    /\ UNCHANGED server

DrainedMutant(c) ==
    /\ conn[c] \in Answers
    /\ Goto(c, "request")
    /\ UNCHANGED <<server, line>>

\* The response is drained, and the writer being closed.
Drained(c) ==
    /\ conn[c] \in Answers
    /\ Goto(c, "closing")
    /\ UNCHANGED <<server, line>>

\* A line does not come within five seconds, is too long, or the peer is
\* gone: the exception is suppressed, and nothing is answered.
ReadFails(c) ==
    /\ conn[c] \in Reads
    /\ Goto(c, "closing")
    /\ UNCHANGED <<server, line>>

\* The writer is closed, on every way out of _serve_request.
Closed(c) ==
    /\ conn[c] = "closing"
    /\ Goto(c, "none")
    /\ line' = [line EXCEPT ![c] = "none"]
    /\ UNCHANGED server

\* What a handler does; when the client sends is not its doing.
Serve(c) == ReadLine(c) \/ Respond(c) \/ Drained(c) \/ ReadFails(c) \/ Closed(c)

=============================================================================
