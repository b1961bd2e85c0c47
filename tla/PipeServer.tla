------------------------------ MODULE PipeServer ------------------------------
(***************************************************************************)
(* The server of dt-cli's pipe in the game's process (server.go, main.go):  *)
(* a goroutine accepts, one per connection reads a request, registers it,   *)
(* queues it and waits; the game's thread polls the queue once a frame,     *)
(* executes, responds, and may stop and start the server.                   *)
(*                                                                          *)
(* A connection brings one request, and the request's number is the         *)
(* connection.  Every locked section is one step; a select with several     *)
(* cases that are ready takes any of them.                                  *)
(***************************************************************************)
EXTENDS Naturals, Sequences, FiniteSets

CONSTANTS
  Connection,  \* connections that dt-cli makes
  QueueSize,   \* RequestQueueSize
  MaxStarts    \* bound: starts of the server

ASSUME PipeAssumption ==
  /\ {QueueSize, MaxStarts} \subseteq Nat
  /\ {"gone", "accept"} \cap Connection = {}

VARIABLES
  server,    \* listener # nil, the listener itself is open, starts so far
  accepting, \* the accept loop: "gone", "accept", or the connection it accepted
  conns,     \* s.conns
  pending,   \* s.pending
  requests,  \* s.requests
  handler,   \* where each connection's goroutine is
  response,  \* each request's channel: "none", "open", "filled", "closed"
  severed,   \* connections closed by Stop
  gameThread, \* the game's thread: at rest, executing, responding, stopping
  received,  \* what each client received: "none", "error" or "result"
  executed   \* history: requests executed; and connections of a server that was stopped

pipeVars == <<server, accepting, conns, pending, requests, handler, response, severed, gameThread, received, executed>>

Rests == [at |-> "rest"]

PipeInit ==
  /\ server = [running |-> FALSE, open |-> FALSE, starts |-> 0]
  /\ accepting = "gone"
  /\ conns = {}
  /\ pending = {}
  /\ requests = << >>
  /\ handler = [c \in Connection |-> "none"]
  /\ response = [c \in Connection |-> "none"]
  /\ severed = {}
  /\ gameThread = Rests
  /\ received = [c \in Connection |-> "none"]
  /\ executed = [done |-> {}, stopped |-> {}]

Moves(c, place) == handler' = [handler EXCEPT ![c] = place]
AtRest == gameThread = Rests
Done == ~server.running
Running == {c \in Connection : handler[c] \notin {"none", "refused", "gone"}}

(***************************************************************************)
(* The game's thread.                                                       *)
(***************************************************************************)
StartServer ==
  /\ AtRest /\ ~server.running
  /\ server.starts < MaxStarts
  /\ server' = [running |-> TRUE, open |-> TRUE, starts |-> server.starts + 1]
  /\ accepting' = "accept"
  /\ conns' = {} /\ pending' = {} /\ requests' = << >>
  /\ UNCHANGED <<handler, response, severed, gameThread, received, executed>>

PollRequest ==
  /\ AtRest /\ server.running
  /\ requests # << >>
  /\ requests' = Tail(requests)
  /\ gameThread' = [at |-> "execute", request |-> Head(requests)]
  /\ UNCHANGED <<server, accepting, conns, pending, handler, response, severed, received, executed>>

\* Its result, or an error when it does not fit the buffer; the request is taken off the table.
Respond ==
  /\ gameThread.at = "execute"
  /\ executed' = [executed EXCEPT !.done = @ \cup {gameThread.request}]
  /\ pending' = pending \ {gameThread.request}
  /\ gameThread' = IF gameThread.request \in pending THEN [gameThread EXCEPT !.at = "respond"] ELSE Rests
  /\ UNCHANGED <<server, accepting, conns, requests, handler, response, severed, received>>

SendResponse ==
  /\ gameThread.at = "respond"
  /\ response' = [response EXCEPT ![gameThread.request] = "filled"]
  /\ gameThread' = Rests
  /\ UNCHANGED <<server, accepting, conns, pending, requests, handler, severed, received, executed>>

\* Stop, while it holds the lock.
Stop ==
  /\ AtRest /\ server.running
  /\ server' = [server EXCEPT !.running = FALSE]
  /\ response' = [c \in Connection |-> IF c \in pending THEN "closed" ELSE response[c]]
  /\ severed' = severed \cup conns
  /\ conns' = {} /\ pending' = {}
  /\ gameThread' = [at |-> "close"]
  /\ executed' = [executed EXCEPT !.stopped = @ \cup Running]
  /\ UNCHANGED <<accepting, requests, handler, received>>

CloseListener ==
  /\ gameThread.at = "close"
  /\ server' = [server EXCEPT !.open = FALSE]
  /\ gameThread' = [at |-> "wait"]
  /\ UNCHANGED <<accepting, conns, pending, requests, handler, response, severed, received, executed>>

\* The wait for the accept loop and all handlers.
Stopped ==
  /\ gameThread.at = "wait"
  /\ accepting = "gone" /\ Running = {}
  /\ gameThread' = Rests
  /\ UNCHANGED <<server, accepting, conns, pending, requests, handler, response, severed, received, executed>>

(***************************************************************************)
(* acceptLoop.                                                              *)
(***************************************************************************)
Accept(c) ==
  /\ accepting = "accept" /\ server.open
  /\ handler[c] = "none"
  /\ accepting' = c
  /\ UNCHANGED <<server, conns, pending, requests, handler, response, severed, gameThread, received, executed>>

\* Mutant: a connection that arrives while the server stops is handled all the same.
AdmitsAlways == TRUE

Admits == server.running

\* addConn; a connection that arrives while the server stops is closed.
AddConn ==
  /\ accepting \in Connection
  /\ IF Admits THEN conns' = conns \cup {accepting} /\ Moves(accepting, "read")
     ELSE Moves(accepting, "refused") /\ UNCHANGED conns
  /\ accepting' = "accept"
  /\ UNCHANGED <<server, pending, requests, response, severed, gameThread, received, executed>>

AcceptEnds ==
  /\ accepting = "accept" /\ ~server.open
  /\ accepting' = "gone"
  /\ UNCHANGED <<server, conns, pending, requests, handler, response, severed, gameThread, received, executed>>

(***************************************************************************)
(* handleConn.                                                              *)
(***************************************************************************)
ReadFrame(c) ==
  /\ handler[c] = "read"
  /\ c \notin severed
  /\ Moves(c, "register")
  /\ UNCHANGED <<server, accepting, conns, pending, requests, response, severed, gameThread, received, executed>>

\* The frame is bad, the client has gone or the connection was closed.  A client that says nothing
\* keeps its goroutine waiting.
ReadFails(c) ==
  /\ handler[c] = "read"
  /\ Moves(c, "unread")
  /\ UNCHANGED <<server, accepting, conns, pending, requests, response, severed, gameThread, received, executed>>

\* What is written to a connection that was closed is lost.
Replies(c, what) == received' = [received EXCEPT ![c] = IF c \in severed THEN @ ELSE what]

\* registerRequest
RegisterRequest(c) ==
  /\ handler[c] = "register"
  /\ IF server.running
     THEN /\ pending' = pending \cup {c}
          /\ response' = [response EXCEPT ![c] = "open"]
          /\ Moves(c, "enqueue")
          /\ UNCHANGED received
     ELSE Replies(c, "error") /\ Moves(c, "leave") /\ UNCHANGED <<pending, response>>
  /\ UNCHANGED <<server, accepting, conns, requests, severed, gameThread, executed>>

Enqueue(c) ==
  /\ handler[c] = "enqueue"
  /\ Len(requests) < QueueSize
  /\ requests' = Append(requests, c)
  /\ Moves(c, "await")
  /\ UNCHANGED <<server, accepting, conns, pending, response, severed, gameThread, received, executed>>

\* done is closed; removeRequest.
Abandon(c) ==
  /\ handler[c] \in {"enqueue", "await"}
  /\ Done
  /\ pending' = pending \ {c}
  /\ Moves(c, "leave")
  /\ UNCHANGED <<server, accepting, conns, requests, response, severed, gameThread, received, executed>>

\* Mutant: a request that found the queue full is dropped without an answer.
FullSilently(c) == UNCHANGED received

FullAnswer(c) == Replies(c, "error")

QueueFull(c) ==
  /\ handler[c] = "enqueue"
  /\ Len(requests) >= QueueSize /\ ~Done
  /\ pending' = pending \ {c}
  /\ FullAnswer(c)
  /\ Moves(c, "leave")
  /\ UNCHANGED <<server, accepting, conns, requests, response, severed, gameThread, executed>>

TakeResponse(c) ==
  /\ handler[c] = "await"
  /\ response[c] \in {"filled", "closed"}
  /\ IF response[c] = "filled" THEN Replies(c, "result") ELSE UNCHANGED received
  /\ Moves(c, "leave")
  /\ UNCHANGED <<server, accepting, conns, pending, requests, response, severed, gameThread, executed>>

\* removeConn
Leave(c) ==
  /\ handler[c] \in {"leave", "unread"}
  /\ conns' = conns \ {c}
  /\ Moves(c, IF handler[c] = "leave" THEN "gone" ELSE "refused")
  /\ UNCHANGED <<server, accepting, pending, requests, response, severed, gameThread, received, executed>>

\* What the goroutine does without its client.
HandlerRuns(c) == RegisterRequest(c) \/ Enqueue(c) \/ Abandon(c) \/ QueueFull(c) \/ TakeResponse(c) \/ Leave(c)

GameStep == PollRequest \/ Respond \/ SendResponse \/ CloseListener \/ Stopped

PipeNext ==
  \/ StartServer \/ Stop \/ GameStep
  \/ AddConn \/ AcceptEnds
  \/ \E c \in Connection : Accept(c) \/ ReadFrame(c) \/ ReadFails(c) \/ HandlerRuns(c)

(***************************************************************************)
(* Properties.                                                              *)
(***************************************************************************)
\* Every request that was read is answered before its connection ends, unless the server was stopped
\* under it; with the result exactly when it was executed, and with an error when it never will be.
CallersAreAnswered ==
  /\ \A c \in Connection :
       /\ handler[c] = "gone" /\ c \notin executed.stopped => received[c] # "none"
       /\ received[c] = "result" => c \in executed.done
       /\ received[c] = "error" => c \notin executed.done /\ \A i \in DOMAIN requests : requests[i] # c
  /\ AtRest /\ ~server.running => pending = {} /\ conns = {} /\ Running = {}

\* Stopping the server returns, whatever its connections are doing: the game's thread waits for them.
StopReturns == gameThread.at = "wait" ~> gameThread.at # "wait"
=============================================================================
