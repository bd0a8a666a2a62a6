------------------------------ MODULE WsChannels ------------------------------
(***************************************************************************)
(* The service channels of the frontend and the backend: every service is  *)
(* a channel multiplexed over one web socket.  The frontend side is        *)
(* WebSocketConnectionProvider (core/browser/messaging), the backend side  *)
(* MessagingContribution.handleChannels (core/node/messaging), and both    *)
(* speak the messages of WebSocketChannel (core/common/messaging).         *)
(*                                                                         *)
(* JavaScript runs each callback to completion, so an action is the whole  *)
(* callback of one socket event.  The web socket is a reliable FIFO in     *)
(* each direction until it is closed; what is in flight then is lost.  The *)
(* frontend replaces a closed socket by a new one, and each end notices    *)
(* the end of a socket in its own time.                                    *)
(***************************************************************************)
EXTENDS Naturals, Sequences, FiniteSets, Functions

CONSTANTS
  Handlers,      \* the connection handlers that the frontend installs, one per path
  Routable,      \* those whose path the backend has a route for
  Reconnecting,  \* those installed with options.reconnecting (true by default)
  Contents,      \* what a data message can carry
  Bursts,        \* what a handler can send as soon as it is connected: sequences of Contents
  MaxConns,      \* bound: web sockets the frontend opens, one after the other
  MaxChannels,   \* bound: channel ids the frontend allocates
  MaxInFlight,   \* bound: a send of data waits while so many messages are in flight
  NoHandler

ASSUME ChannelsAssumption ==
  /\ Routable \subseteq Handlers
  /\ Reconnecting \subseteq Handlers
  /\ NoHandler \notin Handlers
  /\ Bursts \subseteq Seq(Contents)
  /\ MaxConns \in Nat
  /\ MaxChannels \in Nat
  /\ MaxInFlight \in Nat

Conns == 1..MaxConns
Ids == 0..(MaxChannels - 1)

VARIABLES
  \* frontend: WebSocketConnectionProvider
  socket,         \* the web socket whose readyState is OPEN, or 0
  connSeq,        \* how many web sockets there have been
  installed,      \* the handlers passed to listen whose connection may still come
  listeners,      \* handlers that wait in 'open' listeners of the socket, in order
  channelIdSeq,
  channels,       \* id -> "none" (not in the map), "opening" (no ready yet), "open"
  owner,          \* id -> the handler for which openChannel allocated it
  \* backend: MessagingContribution.handleChannels, one closure per socket
  sockets,        \* the sockets that the backend has not seen closed
  serverChannels, \* socket -> id -> the handler whose service is connected
  \* the network
  up, down        \* messages in flight to the backend and to the frontend

clientVars == <<socket, connSeq, installed, listeners, channelIdSeq, channels, owner>>
serverVars == <<sockets, serverChannels>>
vars == <<clientVars, serverVars, up, down>>

\* Mutant: the id is taken after channelIdSeq was incremented, not before.
OpenMessageNextId(i, h) == [kind |-> "open", id |-> i + 1, path |-> h]

OpenMessage(i, h) == [kind |-> "open", id |-> i, path |-> h]
ReadyMessage(i) == [kind |-> "ready", id |-> i]
CloseMessage(i) == [kind |-> "close", id |-> i]
DataMessage(i, m) == [kind |-> "data", id |-> i, content |-> m]

Message ==
  [kind : {"open"}, id : Ids, path : Handlers]
    \cup [kind : {"ready", "close"}, id : Ids]
    \cup [kind : {"data"}, id : Ids, content : Contents]

Init ==
  /\ socket = 0
  /\ connSeq = 0
  /\ installed = {}
  /\ listeners = <<>>
  /\ channelIdSeq = 0
  /\ channels = [i \in Ids |-> "none"]
  /\ owner = [i \in Ids |-> NoHandler]
  /\ sockets = {}
  /\ serverChannels = [c \in Conns |-> [i \in Ids |-> NoHandler]]
  /\ up = [c \in Conns |-> <<>>]
  /\ down = [c \in Conns |-> <<>>]

-----------------------------------------------------------------------------
(* Frontend. *)

\* Messages sent on a socket that the other end has closed go nowhere.
SendUp(c, msgs) == up' = [up EXCEPT ![c] = IF c \in sockets' THEN @ \o msgs ELSE @]
SendDown(c, msg) == down' = [down EXCEPT ![c] = IF c = socket THEN Append(@, msg) ELSE @]

\* openChannel for each handler of hs in order, after the messages pre, when
\* "kept" are the channels that stay in the map.
OpenChannels(c, pre, kept, hs) ==
  LET fresh == channelIdSeq..(channelIdSeq + Len(hs) - 1)
      handler(i) == hs[i - channelIdSeq + 1]
  IN  /\ channelIdSeq + Len(hs) <= MaxChannels
      /\ channelIdSeq' = channelIdSeq + Len(hs)
      /\ channels' = [i \in Ids |-> IF i \in fresh THEN "opening"
                                    ELSE IF i \in kept THEN channels[i] ELSE "none"]
      /\ owner' = [i \in Ids |-> IF i \in fresh THEN handler(i) ELSE owner[i]]
      /\ SendUp(c, pre \o [k \in 1..Len(hs) |-> OpenMessage(channelIdSeq + k - 1, hs[k])])

\* listen: open a channel at once, or leave it to the socket's next 'open' event.
Listen(h) ==
  /\ UNCHANGED <<socket, connSeq, serverVars, down>>
  /\ h \notin installed
  /\ installed' = installed \cup {h}
  /\ \/ /\ socket # 0
        /\ OpenChannels(socket, <<>>, Ids, <<h>>)
        /\ UNCHANGED listeners
     \/ /\ socket = 0
        /\ listeners' = Append(listeners, h)
        /\ UNCHANGED <<channelIdSeq, channels, owner, up>>

\* The socket's 'open' event: a new socket, and each one-shot listener opens its channel.
Connect ==
  /\ socket = 0
  /\ connSeq < MaxConns
  /\ connSeq' = connSeq + 1
  /\ socket' = connSeq + 1
  /\ sockets' = sockets \cup {connSeq + 1}
  /\ OpenChannels(connSeq + 1, <<>>, Ids, listeners)
  /\ listeners' = <<>>
  /\ UNCHANGED <<installed, serverChannels, down>>

OpenIds == {i \in Ids : channels[i] = "open"}

\* Every order in which the elements of a finite set S can come, each once.
Orderings(S) == Bijection(1..Cardinality(S), S)

\* Mutant: the map is cleared before the channels are told.
ClientCloseClearsFirst ==
  /\ socket # 0
  /\ socket' = 0
  /\ channels' = [i \in Ids |-> "none"]
  /\ down' = [down EXCEPT ![socket] = <<>>]
  /\ UNCHANGED <<connSeq, installed, listeners, channelIdSeq, owner, serverVars, up>>

\* socket.onclose: fireClose disposes the connection of each open channel, and closeChannel
\* listens again for it if it is reconnecting; a channel without a connection has no
\* callback for fireClose yet.  Then the map is cleared.  The code takes the channels in
\* the order of the map; the order makes no difference to the handlers, so any is allowed.
ClientClose ==
  /\ socket # 0
  /\ socket' = 0
  /\ \E ids \in Orderings({i \in OpenIds : owner[i] \in Reconnecting}) :
       listeners' = listeners \o [k \in 1..Len(ids) |-> owner[ids[k]]]
  /\ installed' = installed \ {owner[i] : i \in {j \in OpenIds : owner[j] \notin Reconnecting}}
  /\ channels' = [i \in Ids |-> "none"]
  /\ down' = [down EXCEPT ![socket] = <<>>]
  /\ UNCHANGED <<connSeq, channelIdSeq, owner, serverVars, up>>

\* Mutant: closeChannel listens again without deleting the channel from the map.
CloseChannelKeepsChannel(i) ==
  /\ UNCHANGED <<socket, connSeq, installed, listeners, serverVars, down>>
  /\ socket # 0
  /\ channels[i] = "open"
  /\ owner[i] \in Reconnecting
  /\ OpenChannels(socket, <<CloseMessage(i)>>, Ids, <<owner[i]>>)

\* The connection of an open channel is disposed while the socket is up: closeChannel.
CloseChannel(i) ==
  /\ UNCHANGED <<socket, connSeq, listeners, serverVars, down>>
  /\ socket # 0
  /\ channels[i] = "open"
  /\ \/ /\ owner[i] \in Reconnecting
        /\ OpenChannels(socket, <<CloseMessage(i)>>, Ids \ {i}, <<owner[i]>>)
        /\ UNCHANGED installed
     \/ /\ owner[i] \notin Reconnecting
        /\ OpenChannels(socket, <<CloseMessage(i)>>, Ids \ {i}, <<>>)
        /\ installed' = installed \ {owner[i]}

\* channel.send of an open channel's connection.
ClientSend(i, m) ==
  /\ UNCHANGED <<clientVars, serverVars, down>>
  /\ socket # 0
  /\ channels[i] = "open"
  /\ Len(up[socket]) < MaxInFlight
  /\ SendUp(socket, <<DataMessage(i, m)>>)

\* socket.onmessage for the next message; a message for an id that is not in the map is
\* reported and dropped.
ClientReceives(msg) ==
  /\ socket # 0
  /\ down[socket] # <<>>
  /\ msg = Head(down[socket])
  /\ down' = [down EXCEPT ![socket] = Tail(@)]
  /\ UNCHANGED <<socket, connSeq, installed, listeners, channelIdSeq, owner, serverVars>>

\* handleMessage of 'ready': onOpen creates the connection and calls the handler's
\* onConnection, which may send what was waiting for it (ms).
ClientReceiveReady(i, ms) ==
  /\ ClientReceives(ReadyMessage(i))
  /\ \/ /\ channels[i] # "none"
        /\ channels' = [channels EXCEPT ![i] = "open"]
        /\ SendUp(socket, [k \in 1..Len(ms) |-> DataMessage(i, ms[k])])
     \/ /\ channels[i] = "none"
        /\ ms = <<>>
        /\ UNCHANGED <<channels, up>>

ClientReceiveData(i, m) ==
  /\ ClientReceives(DataMessage(i, m))
  /\ UNCHANGED <<channels, up>>

-----------------------------------------------------------------------------
(* Backend. *)

\* The socket's 'message' event for the next message of socket c.
ServerReceives(c, msg) ==
  /\ c \in sockets
  /\ up[c] # <<>>
  /\ msg = Head(up[c])
  /\ up' = [up EXCEPT ![c] = Tail(@)]
  /\ UNCHANGED <<clientVars, sockets>>

\* Mutant: ready is sent whether or not there is a route.
ServerReceiveOpenAnyway(c, i, h) ==
  /\ ServerReceives(c, OpenMessage(i, h))
  /\ serverChannels' = [serverChannels EXCEPT ![c][i] = IF h \in Routable THEN h ELSE NoHandler]
  /\ SendDown(c, ReadyMessage(i))

\* 'open': the service is connected by route, then ready is sent; a path without a route
\* is reported on the console only, and the frontend is not told.
ServerReceiveOpen(c, i, h) ==
  /\ ServerReceives(c, OpenMessage(i, h))
  /\ \/ /\ h \in Routable
        /\ serverChannels' = [serverChannels EXCEPT ![c][i] = h]
        /\ SendDown(c, ReadyMessage(i))
     \/ /\ h \notin Routable
        /\ UNCHANGED <<serverChannels, down>>

ServerReceiveClose(c, i) ==
  /\ ServerReceives(c, CloseMessage(i))
  /\ serverChannels' = [serverChannels EXCEPT ![c][i] = NoHandler]
  /\ UNCHANGED down

ServerReceiveData(c, i, m) ==
  /\ ServerReceives(c, DataMessage(i, m))
  /\ UNCHANGED <<serverChannels, down>>

\* channel.send of a service that is connected to channel i of socket c.
ServerSend(c, i, m) ==
  /\ c \in sockets
  /\ serverChannels[c][i] # NoHandler
  /\ Len(down[c]) < MaxInFlight
  /\ SendDown(c, DataMessage(i, m))
  /\ UNCHANGED <<clientVars, serverVars, up>>

\* The socket's 'close' event on the backend, checkAlive's terminate included.
ServerClose(c) ==
  /\ c \in sockets
  /\ sockets' = sockets \ {c}
  /\ serverChannels' = [serverChannels EXCEPT ![c] = [i \in Ids |-> NoHandler]]
  /\ up' = [up EXCEPT ![c] = <<>>]
  /\ UNCHANGED <<clientVars, down>>

-----------------------------------------------------------------------------
Next ==
  \/ \E h \in Handlers : Listen(h)
  \/ Connect
  \/ ClientClose
  \/ \E i \in Ids : CloseChannel(i)
  \/ \E i \in Ids, m \in Contents : ClientSend(i, m)
  \/ \E i \in Ids, ms \in Bursts : ClientReceiveReady(i, ms)
  \/ \E i \in Ids, m \in Contents : ClientReceiveData(i, m)
  \/ \E c \in Conns, i \in Ids, h \in Handlers : ServerReceiveOpen(c, i, h)
  \/ \E c \in Conns, i \in Ids : ServerReceiveClose(c, i)
  \/ \E c \in Conns, i \in Ids, m \in Contents : ServerReceiveData(c, i, m)
  \/ \E c \in Conns, i \in Ids, m \in Contents : ServerSend(c, i, m)
  \/ \E c \in Conns : ServerClose(c)

Spec == Init /\ [][Next]_vars

-----------------------------------------------------------------------------
(* Properties. *)

TypeOK ==
  /\ socket \in 0..MaxConns
  /\ connSeq \in 0..MaxConns
  /\ installed \subseteq Handlers
  /\ listeners \in Seq(Handlers)
  /\ channelIdSeq \in 0..MaxChannels
  /\ channels \in [Ids -> {"none", "opening", "open"}]
  /\ owner \in [Ids -> Handlers \cup {NoHandler}]
  /\ sockets \subseteq Conns
  /\ serverChannels \in [Conns -> [Ids -> Handlers \cup {NoHandler}]]
  /\ up \in [Conns -> Seq(Message)]
  /\ down \in [Conns -> Seq(Message)]

\* A channel that the frontend uses leads to its own handler's service: while the backend
\* still has the socket, it has connected that id, to the path the frontend asked for,
\* whatever was closed, reopened or delayed before (closeChannel and handleChannels keep
\* their two maps by messages only, and ids are never shared between sockets).
ChannelsAgree ==
  \A i \in Ids :
    channels[i] = "open" /\ socket \in sockets => serverChannels[socket][i] = owner[i]

\* A handler is served by one channel or waits in one 'open' listener, never both and
\* never twice: closeChannel listens again once for each channel that goes, so that a
\* reconnect does not connect a service twice.
OneConnectionPerHandler ==
  /\ \A i, j \in Ids :
       channels[i] # "none" /\ channels[j] # "none" /\ owner[i] = owner[j] => i = j
  /\ \A i \in Ids, k \in 1..Len(listeners) : channels[i] # "none" => owner[i] # listeners[k]
  /\ \A j, k \in 1..Len(listeners) : listeners[j] = listeners[k] => j = k

\* Nothing will ever connect the handler any more, although nobody closed it.
Abandoned(h) ==
  /\ h \in installed
  /\ \A i \in Ids : channels[i] # "none" => owner[i] # h
  /\ \A k \in 1..Len(listeners) : listeners[k] # h

\* The only way to abandon a handler is a socket that closes while the handler's channel
\* waits for ready: onclose has no connection to dispose there, and clears the map.  A
\* handler whose connection is up, or that waits for a socket, is never abandoned.
AbandonedOnlyWhileOpening ==
  [][\A h \in Handlers :
       Abandoned(h)' /\ ~Abandoned(h) =>
         /\ socket # 0 /\ socket' = 0
         /\ \E i \in Ids : channels[i] = "opening" /\ owner[i] = h]_vars

\* "True by default" (ws-connection-provider.ts:17) says of options.reconnecting that a
\* handler's connection is restored; then no reconnecting handler is ever abandoned.
NoneAbandoned == \A h \in Reconnecting : ~Abandoned(h)
=============================================================================
