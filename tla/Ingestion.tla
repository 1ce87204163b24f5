----------------------------- MODULE Ingestion ------------------------------
(***************************************************************************)
(* pkg/ingestion/http_source.go and websocket_source.go: handlers that run *)
(* one per request or connection and offer events to the engine's channel  *)
(* without ever waiting for room.                                          *)
(***************************************************************************)
EXTENDS Integers, FiniteSets

CONSTANTS
    Requests,         \* HTTP clients, one request each that may be sent again
    BatchRequests,    \* the requests whose body holds "events"
    OtherMethods,     \* the requests that are not POST
    BatchLength,      \* events in a batch
    Clients,          \* WebSocket clients
    Broadcasters,     \* callers of BroadcastMessage
    ChannelCapacity,  \* of the engine's event channel
    MaxAttempts,      \* bound: times a request is sent
    MaxMessages       \* bound: messages per WebSocket client

ASSUME IngestionAssumption ==
    /\ BatchRequests \subseteq Requests /\ OtherMethods \subseteq Requests
    /\ BatchLength \in Nat /\ ChannelCapacity \in Nat /\ MaxAttempts \in Nat /\ MaxMessages \in Nat

VARIABLES
    channel,         \* events in the engine's channel
    httpUp,          \* the HTTP server accepts requests
    request,         \* per request: its handler, the answer and what became of its events;
                     \* eventsIngested is the sum of their entered
    wsUp,            \* "up", "stopping" (Stop waits for clientsMu), "closing" (it has closed
                     \* the clients it knew) or "down"
    conn,            \* per WebSocket client: the connection and its handler
    clients,         \* WebSocketSource.clients
    broadcasting,    \* per caller of BroadcastMessage: the connection it writes to
    unsent           \* per caller: the connections its loop has not come to yet

ingestVars == <<channel, httpUp, request, wsUp, conn, clients, broadcasting, unsent>>

NoRequest == [at |-> "idle", next |-> 1, entered |-> 0, answer |-> "none", claimed |-> 0,
              attempts |-> 0]
NoConnection == [at |-> "none", messages |-> 0]
Nobody == "nobody"

IngestionInit ==
    /\ channel = 0
    /\ httpUp = TRUE
    /\ request = [r \in Requests |-> NoRequest]
    /\ wsUp = "up"
    /\ conn = [c \in Clients |-> NoConnection]
    /\ clients = {}
    /\ broadcasting = [b \in Broadcasters |-> Nobody]
    /\ unsent = [b \in Broadcasters |-> {}]

wsFrame == UNCHANGED <<wsUp, conn, clients, broadcasting, unsent>>

-----------------------------------------------------------------------------
(* The HTTP source.                                                        *)

EventsOf(r) == IF r \in BatchRequests THEN BatchLength ELSE 1

\* A client sends its request, or sends it again when it was told to try later or heard nothing.
SendRequest(r) ==
    /\ httpUp
    /\ request[r].at = "idle" /\ request[r].answer \in {"none", "busy", "lost"}
    /\ request[r].attempts < MaxAttempts
    /\ request' = [request EXCEPT ![r].at = "handle", ![r].next = 1, ![r].attempts = @ + 1]
    /\ UNCHANGED <<channel, httpUp>> /\ wsFrame

\* The answer, or a connection that breaks before the client has it.
Answer(r, status, claimed) ==
    \/ request' = [request EXCEPT ![r].at = "idle", ![r].answer = status, ![r].claimed = claimed]
    \/ request' = [request EXCEPT ![r].at = "idle", ![r].answer = "lost"]

WrongMethod(r) ==
    /\ request[r].at = "handle" /\ r \in OtherMethods
    /\ Answer(r, "refused", 0)
    /\ UNCHANGED <<channel, httpUp>> /\ wsFrame

\* Reading the body fails: the deadline, or a client that is gone.
BodyFails(r) ==
    /\ request[r].at = "handle" /\ request[r].next = 1 /\ r \notin OtherMethods
    /\ Answer(r, "refused", 0)
    /\ UNCHANGED <<channel, httpUp>> /\ wsFrame

\* The faulty form waits for room in the channel.
OfferBlocking(r) ==
    /\ channel < ChannelCapacity
    /\ channel' = channel + 1
    /\ request' = [request EXCEPT ![r].next = @ + 1, ![r].entered = @ + 1]

\* An event of a batch: a full channel drops it.
Offer(r) ==
    \/ /\ channel < ChannelCapacity
       /\ channel' = channel + 1
       /\ request' = [request EXCEPT ![r].next = @ + 1, ![r].entered = @ + 1]
    \/ /\ channel = ChannelCapacity
       /\ request' = [request EXCEPT ![r].next = @ + 1]
       /\ UNCHANGED channel

BatchEvent(r) ==
    /\ request[r].at = "handle" /\ r \in BatchRequests \ OtherMethods
    /\ request[r].next <= BatchLength
    /\ Offer(r)
    /\ UNCHANGED httpUp /\ wsFrame

\* The answer counts the events of the request.
BatchAnswer(r) ==
    /\ request[r].at = "handle" /\ r \in BatchRequests \ OtherMethods
    /\ request[r].next > BatchLength
    /\ Answer(r, "accepted", BatchLength)
    /\ UNCHANGED <<channel, httpUp>> /\ wsFrame

\* A single event enters or is refused, and then the client is told.
SingleEvent(r) ==
    /\ request[r].at = "handle" /\ r \notin BatchRequests \cup OtherMethods
    /\ \/ /\ channel < ChannelCapacity
          /\ channel' = channel + 1
          /\ request' = [request EXCEPT ![r].at = "accepted", ![r].entered = @ + 1]
       \/ /\ channel = ChannelCapacity
          /\ request' = [request EXCEPT ![r].at = "busy"]
          /\ UNCHANGED channel
    /\ UNCHANGED httpUp /\ wsFrame

SingleAnswer(r) ==
    /\ request[r].at \in {"accepted", "busy"}
    /\ Answer(r, request[r].at, 1)
    /\ UNCHANGED <<channel, httpUp>> /\ wsFrame

handleRequest(r) ==
    \/ WrongMethod(r) \/ BodyFails(r)
    \/ BatchEvent(r) \/ BatchAnswer(r)
    \/ SingleEvent(r) \/ SingleAnswer(r)

\* Shutdown: no new requests; the handlers that run go on.
StopHTTP ==
    /\ httpUp
    /\ httpUp' = FALSE
    /\ UNCHANGED <<channel, request>> /\ wsFrame

\* The engine reads its channel, when it does: external.
ChannelRead ==
    /\ channel > 0
    /\ channel' = channel - 1
    /\ UNCHANGED <<httpUp, request>> /\ wsFrame

-----------------------------------------------------------------------------
(* The WebSocket source.                                                   *)

httpFrame == UNCHANGED <<httpUp, request>>

Upgrade(c) ==
    /\ wsUp # "down" /\ conn[c].at = "none"
    /\ conn' = [conn EXCEPT ![c].at = "upgraded"]
    /\ UNCHANGED <<channel, wsUp, clients, broadcasting, unsent>> /\ httpFrame

\* clientsMu: a writer waits for the readers, and no reader comes in while one waits.
NoReader == \A b \in Broadcasters : broadcasting[b] = Nobody
NoWriterWaits ==
    wsUp # "stopping" /\ \A c \in Clients : conn[c].at \notin {"upgraded", "leaving"}

AddClient(c) ==
    /\ conn[c].at = "upgraded" /\ NoReader
    /\ conn' = [conn EXCEPT ![c].at = "reading"]
    /\ clients' = clients \cup {c}
    /\ UNCHANGED <<channel, wsUp, broadcasting, unsent>> /\ httpFrame

\* messageToEvent and the offer: a full channel drops the event.
ReadWsMessage(c) ==
    /\ conn[c].at = "reading" /\ conn[c].messages < MaxMessages
    /\ conn' = [conn EXCEPT ![c].messages = @ + 1]
    /\ channel' = IF channel < ChannelCapacity THEN channel + 1 ELSE channel
    /\ UNCHANGED <<wsUp, clients, broadcasting, unsent>> /\ httpFrame

\* The client goes away, or Stop closed the connection under the handler.
Disconnect(c) ==
    /\ conn[c].at = "reading"
    /\ conn' = [conn EXCEPT ![c].at = "closed"]
    /\ UNCHANGED <<channel, wsUp, clients, broadcasting, unsent>> /\ httpFrame

\* The handler's deferred function.
Leave(c) ==
    /\ conn[c].at = "closed"
    /\ conn' = [conn EXCEPT ![c].at = "leaving"]
    /\ UNCHANGED <<channel, wsUp, clients, broadcasting, unsent>> /\ httpFrame

RemoveClient(c) ==
    /\ conn[c].at = "leaving" /\ NoReader
    /\ conn' = [conn EXCEPT ![c].at = "gone"]
    /\ clients' = clients \ {c}
    /\ UNCHANGED <<channel, wsUp, broadcasting, unsent>> /\ httpFrame

\* Stop: it asks for the write lock, closes the connections it finds, and shuts the server
\* down, which takes no longer than its five seconds.
StopCalled ==
    /\ wsUp = "up"
    /\ wsUp' = "stopping"
    /\ UNCHANGED <<channel, conn, clients, broadcasting, unsent>> /\ httpFrame

StopClients ==
    /\ wsUp = "stopping" /\ NoReader
    /\ wsUp' = "closing"
    /\ conn' = [c \in Clients |-> IF conn[c].at = "reading" THEN [conn[c] EXCEPT !.at = "closed"] ELSE conn[c]]
    /\ UNCHANGED <<channel, clients, broadcasting, unsent>> /\ httpFrame

StopServer ==
    /\ wsUp = "closing"
    /\ wsUp' = "down"
    /\ UNCHANGED <<channel, conn, clients, broadcasting, unsent>> /\ httpFrame

\* BroadcastMessage: the caller holds the read lock from its first write until the last one
\* has ended, well or badly.  With nobody on the list it does nothing.
BroadcastMessage(b) ==
    /\ broadcasting[b] = Nobody /\ NoWriterWaits
    /\ \E c \in clients : /\ broadcasting' = [broadcasting EXCEPT ![b] = c]
                          /\ unsent' = [unsent EXCEPT ![b] = clients \ {c}]
    /\ UNCHANGED <<channel, wsUp, conn, clients>> /\ httpFrame

WriteToNext(b) ==
    /\ broadcasting[b] # Nobody
    /\ \E c \in unsent[b] : /\ broadcasting' = [broadcasting EXCEPT ![b] = c]
                            /\ unsent' = [unsent EXCEPT ![b] = @ \ {c}]
    /\ UNCHANGED <<channel, wsUp, conn, clients>> /\ httpFrame

LastWriteDone(b) ==
    /\ broadcasting[b] # Nobody /\ unsent[b] = {}
    /\ broadcasting' = [broadcasting EXCEPT ![b] = Nobody]
    /\ UNCHANGED <<channel, wsUp, conn, clients, unsent>> /\ httpFrame

-----------------------------------------------------------------------------
HttpNext ==
    \/ \E r \in Requests : SendRequest(r) \/ handleRequest(r)
    \/ StopHTTP \/ ChannelRead

WsNext ==
    \/ ChannelRead
    \/ \E c \in Clients : \/ Upgrade(c) \/ AddClient(c) \/ ReadWsMessage(c)
                          \/ Disconnect(c) \/ Leave(c) \/ RemoveClient(c)
    \/ StopCalled \/ StopClients \/ StopServer
    \/ \E b \in Broadcasters : BroadcastMessage(b) \/ WriteToNext(b) \/ LastWriteDone(b)

IngestionNext == HttpNext \/ WsNext

IngestionSpec == IngestionInit /\ [][IngestionNext]_ingestVars

\* Handlers and Stop run; the HTTP server bounds the reading and the writing of its handlers.
\* Nothing is assumed of the clients, of the engine that reads the channel, and of a write
\* to a WebSocket client, which has no deadline.
IngestionFairness ==
    /\ \A r \in Requests : WF_ingestVars(handleRequest(r))
    /\ \A c \in Clients : WF_ingestVars(AddClient(c) \/ Leave(c) \/ RemoveClient(c))
    /\ WF_ingestVars(StopClients \/ StopServer)

-----------------------------------------------------------------------------
(* Every handler comes to its end, even when nobody reads the channel any more, as when the
   engine stops.  Once the clients send nothing more, every request has been answered; and
   unless a broadcast, with the lock of the list, hangs in a write to a client, every new
   connection has come on the list, the handler of every closed one has taken it off, and
   Stop has returned. *)
HandlersReturn ==
    /\ <>[](\A r \in Requests : request[r].at = "idle")
    /\ []<>NoReader => <>[](/\ \A c \in Clients : conn[c].at \in {"none", "reading", "gone"}
                           /\ wsUp \in {"up", "down"})

-----------------------------------------------------------------------------
(* A client that is told its event was accepted can rely on it, and no handler puts more into
   the channel than the channel holds or the client has sent: an event is there more than once
   only if the client sent it again. *)
AcceptedEntered ==
    /\ channel \in 0 .. ChannelCapacity
    /\ \A r \in Requests \ BatchRequests :
        /\ request[r].answer = "accepted" => request[r].entered >= 1
        /\ request[r].entered <= request[r].attempts

(* The list of clients follows the connections, whatever Stop, broadcasts and disconnects do at
   the same time: a connection is on it from the upgrade until its handler has taken it off,
   and a broadcast only ever writes, and has yet to write, to ones that are on it. *)
ListFollowsConnections ==
    /\ \A c \in Clients : c \in clients <=> conn[c].at \in {"reading", "closed", "leaving"}
    /\ \A b \in Broadcasters :
          broadcasting[b] # Nobody => broadcasting[b] \in clients /\ unsent[b] \subseteq clients

(* "events_ingested" in the answer to a batch. *)
BatchCountTrue == \A r \in BatchRequests : request[r].answer = "accepted" => request[r].entered >= request[r].claimed

(* Stop: "Close all client connections". *)
AllClosed == wsUp = "down" => \A c \in Clients : conn[c].at \notin {"upgraded", "reading"}

(* "Stop stops the WebSocket server", whatever its clients do. *)
StopReturns == wsUp = "stopping" ~> wsUp = "down"

(* One writer at a time on a connection, as the WebSocket library demands. *)
OneWriter == \A a, b \in Broadcasters : a # b /\ broadcasting[a] # Nobody => broadcasting[a] # broadcasting[b]
=============================================================================
