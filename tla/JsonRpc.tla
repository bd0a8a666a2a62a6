------------------------------- MODULE JsonRpc -------------------------------
(***************************************************************************)
(* The JSON-RPC proxies (JsonRpcProxyFactory, core/common/messaging) over  *)
(* the service channels of WsChannels.  A proxy method waits for the       *)
(* factory's connectionPromise and sends a request on that connection; the *)
(* promise is replaced whenever a connection is disposed.  The backend     *)
(* makes a service, with its own factory, for each channel.                *)
(*                                                                         *)
(* The connection itself is external (vscode-jsonrpc): it numbers its own  *)
(* requests, matches an answer to a request by that number, and rejects    *)
(* what is unanswered when it is disposed.                                 *)
(***************************************************************************)
EXTENDS Naturals, Sequences, FiniteSets, SequencesExt

CONSTANTS
  Handlers, Routable, Reconnecting, MaxConns, MaxChannels, MaxInFlight, NoHandler,
  Calls,          \* the calls of proxy methods that can be made: numbers, in the order in
                  \* which the calls of one handler are made
  Notifications,  \* those whose method name begins with "notify" or "on"
  HandlerOf,      \* call -> the handler (the proxy's path)
  NoConnection

ASSUME ProxiesAssumption ==
  /\ Calls \subseteq Nat
  /\ Notifications \subseteq Calls
  /\ HandlerOf \in [Calls -> Handlers]
  /\ NoConnection \notin Nat
  /\ Routable \subseteq Handlers
  /\ Reconnecting \subseteq Handlers
  /\ NoHandler \notin Handlers
  /\ MaxConns \in Nat
  /\ MaxChannels \in Nat
  /\ MaxInFlight \in Nat

VARIABLES
  socket, connSeq, installed, listeners, channelIdSeq, channels, owner,
  sockets, serverChannels, up, down,
  connection,  \* handler -> the channel of the connection its connectionPromise
               \* is resolved with, or NoConnection
  waiting,     \* handler -> calls that wait for its connectionPromise, in order
  status,      \* call -> "idle", "waiting", "sent", then "answered" or "rejected"
  answer,      \* call -> the call whose execution its answer came from
  sequenceNumber,    \* channel -> the number its connection gave its last request
  responsePromises,  \* channel -> the requests <<number, call>> that its connection has
                     \* sent and not settled
  serving,     \* socket -> requests that a service has not answered yet
  executed     \* the calls in the order in which services began them

\* What travels in a data message: a numbered request for a method, or the answer to the
\* request of that number, with the call it is the answer of.
Request(n, k) == [type |-> "request", seq |-> n, call |-> k]
Response(n, k) == [type |-> "response", seq |-> n, call |-> k]
Contents == [type : {"request", "response"}, seq : Nat, call : Calls]

Net == INSTANCE WsChannels WITH Bursts <- Seq(Contents)

Ids == Net!Ids
Conns == Net!Conns

requestVars == <<sequenceNumber, responsePromises>>
proxyVars == <<connection, waiting, status, answer, requestVars>>
serviceVars == <<serving, executed>>
netVars == <<socket, connSeq, installed, listeners, channelIdSeq, channels, owner,
             sockets, serverChannels, up, down>>
vars == <<netVars, proxyVars, serviceVars>>

Init ==
  /\ Net!Init
  /\ connection = [h \in Handlers |-> NoConnection]
  /\ waiting = [h \in Handlers |-> <<>>]
  /\ status = [k \in Calls |-> "idle"]
  /\ answer = [k \in Calls |-> {}]
  /\ sequenceNumber = [i \in Ids |-> 0]
  /\ responsePromises = [i \in Ids |-> {}]
  /\ serving = [c \in Conns |-> {}]
  /\ executed = <<>>

-----------------------------------------------------------------------------
(* Frontend. *)

\* createProxy, and the socket events that change no proxy.
CreateProxy(h) == Net!Listen(h) /\ UNCHANGED <<proxyVars, serviceVars>>
Connect == Net!Connect /\ UNCHANGED <<proxyVars, serviceVars>>

IsRequest(k) == k \notin Notifications
RequestsIn(ks, j) == {n \in 1..j : IsRequest(ks[n])}

\* The number that the connection of channel i gives to the last request among the first j
\* calls of ks, which it sends in order.
Number(i, ks, j) == sequenceNumber[i] + Cardinality(RequestsIn(ks, j))

\* Mutant: the notifications that are sent along with a request are counted too.
MessagesCountingAll(i, ks) ==
  [j \in 1..Len(ks) |->
     Request(IF IsRequest(ks[j]) THEN sequenceNumber[i] + j ELSE 0, ks[j])]

\* The messages for calls ks on the connection of channel i, in order: notifications have
\* no number.
Messages(i, ks) ==
  [j \in 1..Len(ks) |-> Request(IF IsRequest(ks[j]) THEN Number(i, ks, j) ELSE 0, ks[j])]

\* The connection keeps the requests among ks until they are settled.
KeepRequests(i, ks) ==
  /\ sequenceNumber' = [sequenceNumber EXCEPT ![i] = Number(i, ks, Len(ks))]
  /\ responsePromises' =
       [responsePromises EXCEPT
          ![i] = @ \cup {<<Number(i, ks, j), ks[j]>> : j \in RequestsIn(ks, Len(ks))}]

AfterSend(k) == IF IsRequest(k) THEN "sent" ELSE "answered"

\* The calls of a handler are numbered as they are made.
IsNext(k) ==
  /\ status[k] = "idle"
  /\ \A j \in Calls : j < k /\ HandlerOf[j] = HandlerOf[k] => status[j] # "idle"

\* A call of a proxy method while connectionPromise is resolved: sendRequest or
\* sendNotification in the next microtask.
CallNow(k) ==
  LET i == connection[HandlerOf[k]]
  IN  /\ IsNext(k)
      /\ i # NoConnection
      /\ Net!ClientSend(i, Messages(i, <<k>>)[1])
      /\ status' = [status EXCEPT ![k] = AfterSend(k)]
      /\ KeepRequests(i, <<k>>)
      /\ UNCHANGED <<connection, waiting, answer, serviceVars>>

\* A call of a proxy method while it is not: the rest waits for the promise.
CallLater(k) ==
  /\ IsNext(k)
  /\ connection[HandlerOf[k]] = NoConnection
  /\ waiting' = [waiting EXCEPT ![HandlerOf[k]] = Append(@, k)]
  /\ status' = [status EXCEPT ![k] = "waiting"]
  /\ UNCHANGED <<netVars, connection, answer, requestVars, serviceVars>>

\* Mutant: what waited for the promise is sent last in, first out.
ReadyNewestFirst(i) ==
  LET h == owner[i]
      isNew == channels[i] # "none" /\ connection[h] = NoConnection
      ks == IF isNew THEN Reverse(waiting[h]) ELSE <<>>
  IN  /\ Net!ClientReceiveReady(i, Messages(i, ks))
      /\ connection' = IF isNew THEN [connection EXCEPT ![h] = i] ELSE connection
      /\ waiting' = IF isNew THEN [waiting EXCEPT ![h] = <<>>] ELSE waiting
      /\ status' = [k \in Calls |-> IF k \in ToSet(ks) THEN AfterSend(k) ELSE status[k]]
      /\ KeepRequests(i, ks)
      /\ UNCHANGED <<answer, serviceVars>>

\* onConnection: factory.listen resolves connectionPromise, and what waited for it is sent
\* in order; if the promise is resolved already, the new connection is left unused.
Ready(i) ==
  LET h == owner[i]
      isNew == channels[i] # "none" /\ connection[h] = NoConnection
      ks == IF isNew THEN waiting[h] ELSE <<>>
  IN  /\ Net!ClientReceiveReady(i, Messages(i, ks))
      /\ connection' = IF isNew THEN [connection EXCEPT ![h] = i] ELSE connection
      /\ waiting' = IF isNew THEN [waiting EXCEPT ![h] = <<>>] ELSE waiting
      /\ status' = [k \in Calls |-> IF k \in ToSet(ks) THEN AfterSend(k) ELSE status[k]]
      /\ KeepRequests(i, ks)
      /\ UNCHANGED <<answer, serviceVars>>

\* A response on channel i settles the request of its number on that channel's connection;
\* without such a request it is reported and dropped.
ReceiveResponse(i, m) ==
  LET settled == {k \in Calls : <<m.seq, k>> \in responsePromises[i]}
  IN  /\ Net!ClientReceiveData(i, m)
      /\ status' = [k \in Calls |-> IF k \in settled THEN "answered" ELSE status[k]]
      /\ answer' = [k \in Calls |-> answer[k] \cup IF k \in settled THEN {m.call} ELSE {}]
      /\ responsePromises' = [responsePromises EXCEPT ![i] = @ \ ({m.seq} \X settled)]
      /\ UNCHANGED <<connection, waiting, sequenceNumber, serviceVars>>

\* The calls whose caller waits for an answer on the connection of channel i.
Unsettled(i) == {r[2] : r \in responsePromises[i]}

\* The factories whose connection is disposed with a channel of lost wait for another one.
WithoutConnections(lost) ==
  [h \in Handlers |-> IF \E i \in lost : owner[i] = h THEN NoConnection ELSE connection[h]]

\* A connection that is disposed forgets its promises.
WithoutPromises(lost) == [i \in Ids |-> IF i \in lost THEN {} ELSE responsePromises[i]]

\* Mutant: a disposed connection stays in connectionPromise.
SocketCloseKeepsPromise ==
  LET lost == Net!OpenIds
  IN  /\ Net!ClientClose
      /\ status' = [k \in Calls |->
                      IF \E i \in lost : k \in Unsettled(i) THEN "rejected" ELSE status[k]]
      /\ responsePromises' = WithoutPromises(lost)
      /\ UNCHANGED <<connection, waiting, answer, sequenceNumber, serviceVars>>

\* Mutant: disposing a connection leaves its unanswered requests unsettled.
SocketCloseKeepsRequests ==
  /\ Net!ClientClose
  /\ connection' = WithoutConnections(Net!OpenIds)
  /\ UNCHANGED <<waiting, status, answer, requestVars, serviceVars>>

\* Mutant: what was not answered is sent again on the next connection.
SocketCloseRetries ==
  LET lost == Net!OpenIds
      isLost(k) == \E i \in lost : k \in Unsettled(i)
      again(h) == SetToSortSeq({k \in Calls : HandlerOf[k] = h /\ isLost(k)}, <)
  IN  /\ Net!ClientClose
      /\ connection' = WithoutConnections(lost)
      /\ waiting' = [h \in Handlers |-> again(h) \o waiting[h]]
      /\ status' = [k \in Calls |-> IF isLost(k) THEN "waiting" ELSE status[k]]
      /\ responsePromises' = WithoutPromises(lost)
      /\ UNCHANGED <<answer, sequenceNumber, serviceVars>>

\* socket.onclose disposes the connection of every open channel: its unanswered requests
\* are rejected, and the factory waits for another connection.
SocketClose ==
  LET lost == Net!OpenIds
  IN  /\ Net!ClientClose
      /\ connection' = WithoutConnections(lost)
      /\ status' = [k \in Calls |->
                      IF \E i \in lost : k \in Unsettled(i) THEN "rejected" ELSE status[k]]
      /\ responsePromises' = WithoutPromises(lost)
      /\ UNCHANGED <<waiting, answer, sequenceNumber, serviceVars>>

-----------------------------------------------------------------------------
(* Backend. *)

ServiceOpen(c, i, h) ==
  Net!ServerReceiveOpen(c, i, h) /\ UNCHANGED <<proxyVars, serviceVars>>

\* A request or a notification for the service of channel i: its method is called; without
\* a channel the message is reported and dropped.
ServiceInvoke(c, i, m) ==
  /\ Net!ServerReceiveData(c, i, m)
  /\ \/ /\ serverChannels[c][i] # NoHandler
        /\ executed' = Append(executed, m.call)
        /\ serving' = IF IsRequest(m.call)
                      THEN [serving EXCEPT ![c] = @ \cup {<<i, m.seq, m.call>>}]
                      ELSE serving
     \/ /\ serverChannels[c][i] = NoHandler
        /\ UNCHANGED serviceVars
  /\ UNCHANGED proxyVars

\* The promise of a service's method is settled, and the result or the error is sent.
ServiceRespond(c, i, n, k) ==
  /\ <<i, n, k>> \in serving[c]
  /\ Net!ServerSend(c, i, Response(n, k))
  /\ serving' = [serving EXCEPT ![c] = @ \ {<<i, n, k>>}]
  /\ UNCHANGED <<proxyVars, executed>>

ServiceClose(c) ==
  /\ Net!ServerClose(c)
  /\ serving' = [serving EXCEPT ![c] = {}]
  /\ UNCHANGED <<proxyVars, executed>>

-----------------------------------------------------------------------------
\* The content of the message that is next in a queue of the network.
NextContent(q) == IF q # <<>> /\ Head(q).kind = "data" THEN {Head(q).content} ELSE {}

ClientReceive ==
  /\ socket # 0
  /\ \E i \in Ids : Ready(i) \/ \E m \in NextContent(down[socket]) : ReceiveResponse(i, m)
ServiceReceive(c) ==
  \E i \in Ids : \/ \E h \in Handlers : ServiceOpen(c, i, h)
                 \/ \E m \in NextContent(up[c]) : ServiceInvoke(c, i, m)
Respond(c) == \E r \in serving[c] : ServiceRespond(c, r[1], r[2], r[3])

Next ==
  \/ \E h \in Handlers : CreateProxy(h)
  \/ Connect
  \/ SocketClose
  \/ \E k \in Calls : CallNow(k) \/ CallLater(k)
  \/ ClientReceive
  \/ \E c \in Conns : ServiceReceive(c) \/ Respond(c) \/ ServiceClose(c)

\* The event loops deliver what has arrived, the methods of the services settle, and the
\* frontend notices that the backend has ended its socket.
Fairness ==
  /\ WF_vars(ClientReceive)
  /\ WF_vars(SocketClose /\ socket \notin sockets)
  /\ \A c \in Conns : WF_vars(ServiceReceive(c)) /\ WF_vars(Respond(c))

Spec == Init /\ [][Next]_vars
FairSpec == Spec /\ Fairness

-----------------------------------------------------------------------------
(* Properties. *)

TypeOK ==
  /\ Net!TypeOK
  /\ connection \in [Handlers -> Ids \cup {NoConnection}]
  /\ waiting \in [Handlers -> Seq(Calls)]
  /\ status \in [Calls -> {"idle", "waiting", "sent", "answered", "rejected"}]
  /\ answer \in [Calls -> SUBSET Calls]
  /\ sequenceNumber \in [Ids -> Nat]
  /\ responsePromises \in [Ids -> SUBSET (Nat \X Calls)]
  /\ serving \in [Conns -> SUBSET (Ids \X Nat \X Calls)]
  /\ executed \in Seq(Calls)

\* A proxy's connectionPromise is resolved with the one connection its handler has, or is
\* unresolved while it has none: waitForConnection runs when any of the factory's
\* connections is disposed, and listen resolves a promise that may be resolved already, so
\* a second connection or a late disposal would leave the proxy on a dead connection.
PromiseIsCurrent ==
  \A h \in Handlers :
    /\ connection[h] # NoConnection => waiting[h] = <<>>
    /\ \A i \in Ids : channels[i] = "open" /\ owner[i] = h <=> connection[h] = i

\* A caller never waits for a response that cannot come: a request that is not settled was
\* sent on the connection that its proxy still has.
NoOrphanedCall ==
  \A k \in Calls :
    status[k] = "sent" =>
      \E i \in Ids : connection[HandlerOf[k]] = i /\ k \in Unsettled(i)

\* The calls of one proxy are executed in the order in which they were made, over any
\* number of reconnects, but for one case: the backend can still execute what was sent on
\* a socket that the frontend has left, and its caller has been told that it failed, or
\* was not to be told (a notification).
ExecutedInOrder ==
  [][\A k \in Calls :
       /\ Len(executed') > Len(executed)
       /\ k = Last(executed')
       /\ \E j \in ToSet(executed) : HandlerOf[j] = HandlerOf[k] /\ k < j
       => status[k] = "rejected" \/ ~IsRequest(k)]_vars

\* The proxies keep what RemoteCalls promises to their callers.
PromiseOf(s) == IF s \in {"waiting", "sent"} THEN "pending" ELSE s
Promised ==
  INSTANCE RemoteCalls WITH
    promise <- [k \in Calls |-> PromiseOf(status[k])],
    times <- [k \in Calls |-> Cardinality({j \in DOMAIN executed : executed[j] = k})]
ImplementsRemoteCalls == Promised!Spec

\* Requests that were sent are settled, by an answer or, when the socket ends first, by a
\* rejection, if the methods of the services settle: no call hangs on a lost socket.  (Calls
\* are finitely many, so from some time on none is open.)
SentCallsSettle ==
  (\E k \in Calls : status[k] = "sent") ~> (\A k \in Calls : status[k] # "sent")
=============================================================================
