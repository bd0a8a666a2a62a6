---------------------------- MODULE JsonRpc_proofs ----------------------------
(***************************************************************************)
(* Proofs about the JSON-RPC proxies for any number of handlers, calls,    *)
(* sockets and channels: a proxy's connection is the one its handler has,  *)
(* a caller that waits for an answer has a connection that can bring it,   *)
(* and the proxies implement RemoteCalls.                                  *)
(*                                                                         *)
(* The channels below the proxies are those of WsChannels, whose theorems  *)
(* are used here: every step of the proxies is a step of the channels.     *)
(***************************************************************************)
EXTENDS JsonRpc, SequenceTheorems, FiniteSetTheorems, TLAPS

NetP == INSTANCE WsChannels_proofs WITH Bursts <- Seq(Contents)

-----------------------------------------------------------------------------
(* The numbers of requests. *)

LEMMA ChannelsHold == ASSUME ProxiesAssumption PROVE NetP!ChannelsAssumption
BY DEF ProxiesAssumption, NetP!ChannelsAssumption

LEMMA RequestsInFinite ==
  ASSUME NEW ks, NEW j \in Nat
  PROVE  /\ IsFiniteSet(RequestsIn(ks, j))
         /\ Cardinality(RequestsIn(ks, j)) \in Nat
<1>1. IsFiniteSet(1..j)
  BY FS_Interval
<1>2. RequestsIn(ks, j) \subseteq 1..j
  BY DEF RequestsIn
<1>3. IsFiniteSet(RequestsIn(ks, j))
  BY <1>1, <1>2, FS_Subset
<1> QED BY <1>3, FS_CardinalityType

\* A later request has a higher number, and each is higher than the last one before them.
LEMMA NumbersGrow ==
  ASSUME NEW i \in Ids, NEW ks, sequenceNumber \in [Ids -> Nat],
         NEW a \in Nat, NEW b \in Nat, a <= b
  PROVE  /\ Number(i, ks, a) \in Nat
         /\ Number(i, ks, a) <= Number(i, ks, b)
         /\ a < b /\ IsRequest(ks[b]) => Number(i, ks, a) < Number(i, ks, b)
<1>1. RequestsIn(ks, a) \subseteq RequestsIn(ks, b)
  BY DEF RequestsIn
<1>2. /\ Cardinality(RequestsIn(ks, a)) \in Nat
      /\ Cardinality(RequestsIn(ks, b)) \in Nat
      /\ IsFiniteSet(RequestsIn(ks, b))
  BY RequestsInFinite
<1>3. /\ Cardinality(RequestsIn(ks, a)) <= Cardinality(RequestsIn(ks, b))
      /\ Cardinality(RequestsIn(ks, a)) = Cardinality(RequestsIn(ks, b))
           => RequestsIn(ks, a) = RequestsIn(ks, b)
  BY <1>1, <1>2, FS_Subset
<1>4. a < b /\ IsRequest(ks[b]) => RequestsIn(ks, a) # RequestsIn(ks, b)
  <2> SUFFICES ASSUME a < b, IsRequest(ks[b]) PROVE RequestsIn(ks, a) # RequestsIn(ks, b)
    OBVIOUS
  <2>1. b \in 1..b /\ b \notin 1..a
    OBVIOUS
  <2> QED BY <2>1 DEF RequestsIn
<1> QED BY <1>2, <1>3, <1>4 DEF Number

LEMMA NumbersAreNew ==
  ASSUME NEW i \in Ids, NEW ks, sequenceNumber \in [Ids -> Nat],
         NEW j \in Nat, j > 0, IsRequest(ks[j])
  PROVE  sequenceNumber[i] < Number(i, ks, j)
<1>1. Number(i, ks, 0) < Number(i, ks, j)
  BY NumbersGrow
<1>2. RequestsIn(ks, 0) = {}
  BY DEF RequestsIn
<1>3. Cardinality(RequestsIn(ks, 0)) = 0
  BY <1>2, FS_EmptySet
<1>4. Number(i, ks, 0) = sequenceNumber[i]
  BY <1>3 DEF Number
<1> QED BY <1>1, <1>4

-----------------------------------------------------------------------------
(* Every step of the proxies is a step of the channels. *)

\* The types of the proxies' and the services' own variables.
OwnTypeOK ==
  /\ connection \in [Handlers -> Ids \cup {NoConnection}]
  /\ waiting \in [Handlers -> Seq(Calls)]
  /\ status \in [Calls -> {"idle", "waiting", "sent", "answered", "rejected"}]
  /\ answer \in [Calls -> SUBSET Calls]
  /\ sequenceNumber \in [Ids -> Nat]
  /\ responsePromises \in [Ids -> SUBSET (Nat \X Calls)]
  /\ serving \in [Conns -> SUBSET (Ids \X Nat \X Calls)]
  /\ executed \in Seq(Calls)

LEMMA MessagesType ==
  ASSUME NEW i \in Ids, NEW ks \in Seq(Calls), sequenceNumber \in [Ids -> Nat]
  PROVE  /\ Messages(i, ks) \in Seq(Contents)
         /\ Len(Messages(i, ks)) = Len(ks)
<1>1. ASSUME NEW j \in 1..Len(ks)
      PROVE  Request(IF IsRequest(ks[j]) THEN Number(i, ks, j) ELSE 0, ks[j]) \in Contents
  <2>1. Number(i, ks, j) \in Nat
    BY NumbersGrow
  <2> QED BY <2>1 DEF Request, Contents
<1> QED BY <1>1 DEF Messages

LEMMA OneMessage ==
  ASSUME NEW i \in Ids, NEW k \in Calls, sequenceNumber \in [Ids -> Nat]
  PROVE  Messages(i, <<k>>)[1] \in Contents
<1>1. <<k>> \in Seq(Calls) /\ Len(<<k>>) = 1
  OBVIOUS
<1>2. Messages(i, <<k>>) \in Seq(Contents) /\ Len(Messages(i, <<k>>)) = 1
  BY <1>1, MessagesType
<1> QED BY <1>2

LEMMA SameIds == Ids = NetP!Ids /\ Conns = NetP!Conns
BY DEF Ids, Conns, Net!Ids, Net!Conns, NetP!Ids, NetP!Conns

LEMMA SameMessages == Net!Message = NetP!Message
BY DEF Net!Message, NetP!Message, Net!Ids, NetP!Ids

LEMMA SameTypes == ASSUME NetP!TypeOK PROVE Net!TypeOK
<1>1. Conns = Net!Conns /\ NetP!Conns = Net!Conns /\ NetP!Ids = Net!Ids
  BY SameIds DEF Conns, Ids
<1>2. /\ up \in [NetP!Conns -> Seq(NetP!Message)] /\ down \in [NetP!Conns -> Seq(NetP!Message)]
      /\ sockets \subseteq NetP!Conns
      /\ serverChannels \in [NetP!Conns -> [NetP!Ids -> Handlers \cup {NoHandler}]]
      /\ channels \in [NetP!Ids -> {"none", "opening", "open"}]
      /\ owner \in [NetP!Ids -> Handlers \cup {NoHandler}]
  BY DEF NetP!TypeOK
<1>3. /\ up \in [Net!Conns -> Seq(Net!Message)] /\ down \in [Net!Conns -> Seq(Net!Message)]
      /\ sockets \subseteq Net!Conns
      /\ serverChannels \in [Net!Conns -> [Net!Ids -> Handlers \cup {NoHandler}]]
      /\ channels \in [Net!Ids -> {"none", "opening", "open"}]
      /\ owner \in [Net!Ids -> Handlers \cup {NoHandler}]
  BY <1>1, <1>2, SameMessages
<1> QED BY <1>3 DEF Net!TypeOK, NetP!TypeOK

LEMMA ContentType ==
  ASSUME NEW q \in Seq(Net!Message), NEW m \in NextContent(q)
  PROVE  m \in Contents
<1>1. Head(q) \in Net!Message /\ Head(q).kind = "data" /\ m = Head(q).content
  BY DEF NextContent
<1> QED BY <1>1 DEF Net!Message

LEMMA ListenStep == ASSUME NEW h, CreateProxy(h) PROVE NetP!Listen(h)
BY DEF CreateProxy, Net!Listen, NetP!Listen, Net!OpenChannels, NetP!OpenChannels,
       Net!serverVars, NetP!serverVars, Net!SendUp, NetP!SendUp, Net!OpenMessage,
       NetP!OpenMessage, Net!Ids, NetP!Ids

LEMMA ConnectStep == ASSUME Connect PROVE NetP!Connect
BY DEF Connect, Net!Connect, NetP!Connect, Net!OpenChannels, NetP!OpenChannels,
       Net!SendUp, NetP!SendUp, Net!OpenMessage, NetP!OpenMessage, Net!Ids, NetP!Ids

LEMMA CloseStep == ASSUME Net!ClientClose PROVE NetP!ClientClose
BY DEF Net!ClientClose, NetP!ClientClose, Net!OpenIds, NetP!OpenIds, Net!Orderings,
       NetP!Orderings, Net!Bijection, NetP!Bijection, Net!Injection, NetP!Injection,
       Net!Surjection, NetP!Surjection, Net!IsInjective, NetP!IsInjective, Net!Cardinality, NetP!Cardinality, Net!serverVars, NetP!serverVars, Net!Ids, NetP!Ids

LEMMA SendStep == ASSUME NEW i, NEW m, Net!ClientSend(i, m) PROVE NetP!ClientSend(i, m)
BY DEF Net!ClientSend, NetP!ClientSend, Net!SendUp, NetP!SendUp, Net!DataMessage,
       NetP!DataMessage, Net!clientVars, NetP!clientVars, Net!serverVars, NetP!serverVars

LEMMA ReadyStep ==
  ASSUME NEW i, NEW ms, Net!ClientReceiveReady(i, ms) PROVE NetP!ClientReceiveReady(i, ms)
BY DEF Net!ClientReceiveReady, NetP!ClientReceiveReady, Net!ClientReceives,
       NetP!ClientReceives, Net!ReadyMessage, NetP!ReadyMessage, Net!SendUp, NetP!SendUp,
       Net!DataMessage, NetP!DataMessage, Net!serverVars, NetP!serverVars

LEMMA ResponseStep ==
  ASSUME NEW i, NEW m, Net!ClientReceiveData(i, m) PROVE NetP!ClientReceiveData(i, m)
BY DEF Net!ClientReceiveData, NetP!ClientReceiveData, Net!ClientReceives,
       NetP!ClientReceives, Net!DataMessage, NetP!DataMessage, Net!serverVars, NetP!serverVars

LEMMA OpenStep ==
  ASSUME NEW c, NEW i, NEW h, Net!ServerReceiveOpen(c, i, h)
  PROVE  NetP!ServerReceiveOpen(c, i, h)
BY DEF Net!ServerReceiveOpen, NetP!ServerReceiveOpen, Net!ServerReceives,
       NetP!ServerReceives, Net!OpenMessage, NetP!OpenMessage, Net!ReadyMessage,
       NetP!ReadyMessage, Net!SendDown, NetP!SendDown, Net!clientVars, NetP!clientVars

LEMMA InvokeStep ==
  ASSUME NEW c, NEW i, NEW m, Net!ServerReceiveData(c, i, m)
  PROVE  NetP!ServerReceiveData(c, i, m)
BY DEF Net!ServerReceiveData, NetP!ServerReceiveData, Net!ServerReceives,
       NetP!ServerReceives, Net!DataMessage, NetP!DataMessage, Net!clientVars, NetP!clientVars

LEMMA RespondStep ==
  ASSUME NEW c, NEW i, NEW m, Net!ServerSend(c, i, m) PROVE NetP!ServerSend(c, i, m)
BY DEF Net!ServerSend, NetP!ServerSend, Net!SendDown, NetP!SendDown, Net!DataMessage,
       NetP!DataMessage, Net!clientVars, NetP!clientVars, Net!serverVars, NetP!serverVars

LEMMA ServerCloseStep == ASSUME NEW c, Net!ServerClose(c) PROVE NetP!ServerClose(c)
BY DEF Net!ServerClose, NetP!ServerClose, Net!clientVars, NetP!clientVars, Net!Ids, NetP!Ids

\* The messages that Ready sends: what waited for the promise, if it was unresolved.
Sendable(i) ==
  IF channels[i] # "none" /\ connection[owner[i]] = NoConnection THEN waiting[owner[i]] ELSE <<>>

LEMMA SendableType ==
  ASSUME NetP!TypeOK, NetP!Bookkeeping, OwnTypeOK, NEW i \in Ids
  PROVE  /\ Sendable(i) \in Seq(Calls)
         /\ channels[i] # "none" => owner[i] \in Handlers
<1>1. channels[i] # "none" => owner[i] \in Handlers
  BY SameIds DEF NetP!Bookkeeping, NetP!TypeOK
<1>2. <<>> \in Seq(Calls)
  BY EmptySeq
<1> QED BY <1>1, <1>2 DEF Sendable, OwnTypeOK

LEMMA NetStep ==
  ASSUME ProxiesAssumption, NetP!TypeOK, NetP!Bookkeeping, OwnTypeOK, [Next]_vars
  PROVE  [NetP!Next]_(NetP!vars)
<1>1. Ids = NetP!Ids /\ Conns = NetP!Conns
  BY SameIds
<1>2. \A c \in Conns : up[c] \in Seq(Net!Message) /\ down[c] \in Seq(Net!Message)
  BY SameMessages, <1>1 DEF NetP!TypeOK
<1>3. ASSUME NEW h \in Handlers, CreateProxy(h) PROVE NetP!Next
  BY <1>3, ListenStep DEF NetP!Next
<1>4. CASE Connect
  BY <1>4, ConnectStep DEF NetP!Next
<1>5. CASE SocketClose
  BY <1>5, CloseStep DEF NetP!Next, SocketClose
<1>6. ASSUME NEW k \in Calls, CallNow(k) PROVE NetP!Next
  <2> DEFINE i == connection[HandlerOf[k]]
  <2>1. i \in Ids /\ Net!ClientSend(i, Messages(i, <<k>>)[1])
    BY <1>6 DEF CallNow, OwnTypeOK, ProxiesAssumption
  <2>2. Messages(i, <<k>>)[1] \in Contents
    BY <2>1, OneMessage DEF OwnTypeOK
  <2> QED BY <1>1, <2>1, <2>2, SendStep DEF NetP!Next
<1>7. ASSUME NEW k \in Calls, CallLater(k) PROVE UNCHANGED NetP!vars
  BY <1>7 DEF CallLater, netVars, NetP!vars, NetP!clientVars, NetP!serverVars
<1>8. ASSUME NEW i \in Ids, Ready(i) PROVE NetP!Next
  <2>1. Net!ClientReceiveReady(i, Messages(i, Sendable(i)))
    BY <1>8 DEF Ready, Sendable
  <2>2. Messages(i, Sendable(i)) \in Seq(Contents)
    BY SendableType, MessagesType DEF OwnTypeOK
  <2> QED BY <1>1, <2>1, <2>2, ReadyStep DEF NetP!Next
<1>9. ASSUME socket # 0, NEW i \in Ids, NEW m \in NextContent(down[socket]), ReceiveResponse(i, m)
      PROVE  NetP!Next
  <2>1. socket \in Conns
    BY <1>1, <1>9 DEF NetP!TypeOK, NetP!Conns
  <2>2. m \in Contents
    BY <1>2, <2>1, ContentType
  <2> QED BY <1>1, <1>9, <2>2, ResponseStep DEF NetP!Next, ReceiveResponse
<1>10. ASSUME NEW c \in Conns, NEW i \in Ids, NEW h \in Handlers, ServiceOpen(c, i, h)
       PROVE  NetP!Next
  BY <1>1, <1>10, OpenStep DEF NetP!Next, ServiceOpen
<1>11. ASSUME NEW c \in Conns, NEW i \in Ids, NEW m \in NextContent(up[c]), ServiceInvoke(c, i, m)
       PROVE  NetP!Next
  <2>1. m \in Contents
    BY <1>2, ContentType
  <2> QED BY <1>1, <1>11, <2>1, InvokeStep DEF NetP!Next, ServiceInvoke
<1>12. ASSUME NEW c \in Conns, Respond(c) PROVE NetP!Next
  <2>1. PICK r \in serving[c] : ServiceRespond(c, r[1], r[2], r[3])
    BY <1>12 DEF Respond
  <2>2. r[1] \in Ids /\ r[2] \in Nat /\ r[3] \in Calls
    BY DEF OwnTypeOK
  <2>3. Response(r[2], r[3]) \in Contents
    BY <2>2 DEF Response, Contents
  <2> QED BY <1>1, <2>1, <2>2, <2>3, RespondStep DEF NetP!Next, ServiceRespond
<1>13. ASSUME NEW c \in Conns, ServiceClose(c) PROVE NetP!Next
  BY <1>1, <1>13, ServerCloseStep DEF NetP!Next, ServiceClose
<1>14. CASE UNCHANGED vars
  BY <1>14 DEF vars, netVars, NetP!vars, NetP!clientVars, NetP!serverVars
<1> QED
  BY <1>3, <1>4, <1>5, <1>6, <1>7, <1>8, <1>9, <1>10, <1>11, <1>12, <1>13, <1>14
  DEF Next, ClientReceive, ServiceReceive

-----------------------------------------------------------------------------
(* Types. *)

LEMMA KeepRequestsType ==
  ASSUME OwnTypeOK, NEW i \in Ids, NEW ks \in Seq(Calls), KeepRequests(i, ks)
  PROVE  /\ sequenceNumber' \in [Ids -> Nat]
         /\ responsePromises' \in [Ids -> SUBSET (Nat \X Calls)]
<1>1. \A j \in 0..Len(ks) : Number(i, ks, j) \in Nat
  BY NumbersGrow DEF OwnTypeOK
<1>2. Number(i, ks, Len(ks)) \in Nat
  BY <1>1
<1>3. \A j \in RequestsIn(ks, Len(ks)) : Number(i, ks, j) \in Nat /\ ks[j] \in Calls
  BY <1>1 DEF RequestsIn
<1>4. {<<Number(i, ks, j), ks[j]>> : j \in RequestsIn(ks, Len(ks))} \subseteq Nat \X Calls
  BY <1>3
<1> QED BY <1>2, <1>4 DEF KeepRequests, OwnTypeOK

LEMMA TypeStep ==
  ASSUME ProxiesAssumption, NetP!TypeOK, NetP!Bookkeeping, OwnTypeOK, [Next]_vars
  PROVE  OwnTypeOK'
<1> USE DEF OwnTypeOK
<1>1. Ids = NetP!Ids /\ Conns = NetP!Conns
  BY SameIds
<1>2. \A c \in Conns : up[c] \in Seq(Net!Message) /\ down[c] \in Seq(Net!Message)
  BY SameMessages, <1>1 DEF NetP!TypeOK
<1>3. ASSUME UNCHANGED <<proxyVars, serviceVars>> PROVE OwnTypeOK'
  BY <1>3 DEF proxyVars, serviceVars, requestVars
<1>5. CASE SocketClose
  BY <1>5 DEF SocketClose, WithoutConnections, WithoutPromises, serviceVars
<1>6. ASSUME NEW k \in Calls, CallNow(k) PROVE OwnTypeOK'
  <2> DEFINE i == connection[HandlerOf[k]]
  <2>1. i \in Ids /\ <<k>> \in Seq(Calls)
    BY <1>6 DEF CallNow, ProxiesAssumption
  <2>2. KeepRequests(i, <<k>>)
    BY <1>6 DEF CallNow
  <2> HIDE DEF i
  <2>3. /\ sequenceNumber' \in [Ids -> Nat]
        /\ responsePromises' \in [Ids -> SUBSET (Nat \X Calls)]
    BY <2>1, <2>2, KeepRequestsType
  <2> QED BY <1>6, <2>3 DEF CallNow, serviceVars, AfterSend
<1>7. ASSUME NEW k \in Calls, CallLater(k) PROVE OwnTypeOK'
  <2>1. HandlerOf[k] \in Handlers /\ Append(waiting[HandlerOf[k]], k) \in Seq(Calls)
    BY DEF ProxiesAssumption
  <2> QED BY <1>7, <2>1 DEF CallLater, serviceVars, requestVars
<1>8. ASSUME NEW i \in Ids, Ready(i) PROVE OwnTypeOK'
  <2>1. KeepRequests(i, Sendable(i))
    BY <1>8 DEF Ready, Sendable
  <2>2. /\ sequenceNumber' \in [Ids -> Nat]
        /\ responsePromises' \in [Ids -> SUBSET (Nat \X Calls)]
    BY <2>1, SendableType, KeepRequestsType
  <2>3. <<>> \in Seq(Calls)
    BY EmptySeq
  <2> QED BY <1>8, <2>2, <2>3 DEF Ready, serviceVars, AfterSend
<1>9. ASSUME socket # 0, NEW i \in Ids, NEW m \in NextContent(down[socket]), ReceiveResponse(i, m)
      PROVE  OwnTypeOK'
  <2>1. socket \in Conns
    BY <1>1, <1>9 DEF NetP!TypeOK, NetP!Conns
  <2>2. m \in Contents
    BY <1>2, <2>1, ContentType
  <2>3. m.call \in Calls
    BY <2>2 DEF Contents
  <2> QED BY <1>9, <2>3 DEF ReceiveResponse, serviceVars
<1>11. ASSUME NEW c \in Conns, NEW i \in Ids, NEW m \in NextContent(up[c]), ServiceInvoke(c, i, m)
       PROVE  OwnTypeOK'
  <2>1. m \in Contents
    BY <1>2, ContentType
  <2>2. m.call \in Calls /\ m.seq \in Nat
    BY <2>1 DEF Contents
  <2>3. Append(executed, m.call) \in Seq(Calls) /\ <<i, m.seq, m.call>> \in Ids \X Nat \X Calls
    BY <2>2
  <2>4. \/ executed' = Append(executed, m.call)
           /\ serving' \in {serving, [serving EXCEPT ![c] = @ \cup {<<i, m.seq, m.call>>}]}
        \/ executed' = executed /\ serving' = serving
    BY <1>11 DEF ServiceInvoke, serviceVars
  <2>5. executed' \in Seq(Calls)
    BY <2>3, <2>4
  <2>6. serving' \in [Conns -> SUBSET (Ids \X Nat \X Calls)]
    <3>1. serving[c] \cup {<<i, m.seq, m.call>>} \in SUBSET (Ids \X Nat \X Calls)
      BY <2>3
    <3>2. [serving EXCEPT ![c] = @ \cup {<<i, m.seq, m.call>>}]
             \in [Conns -> SUBSET (Ids \X Nat \X Calls)]
      BY <3>1
    <3> QED BY <2>4, <3>2
  <2> QED BY <1>11, <2>5, <2>6 DEF ServiceInvoke, proxyVars, requestVars
<1>12. ASSUME NEW c \in Conns, Respond(c) PROVE OwnTypeOK'
  BY <1>12 DEF Respond, ServiceRespond, proxyVars, requestVars
<1>13. ASSUME NEW c \in Conns, ServiceClose(c) PROVE OwnTypeOK'
  BY <1>13 DEF ServiceClose, proxyVars, requestVars
<1> QED
  BY <1>3, <1>5, <1>6, <1>7, <1>8, <1>9, <1>11, <1>12, <1>13
  DEF Next, ClientReceive, ServiceReceive, CreateProxy, Connect, ServiceOpen, vars

-----------------------------------------------------------------------------
(* The proxies and their connections. *)

\* A call that waits for a connectionPromise is a call of that proxy, and waits once.
WaitingCalls ==
  \A h \in Handlers :
    /\ \A n \in 1..Len(waiting[h]) :
         HandlerOf[waiting[h][n]] = h /\ status[waiting[h][n]] = "waiting"
    /\ \A n, m \in 1..Len(waiting[h]) : waiting[h][n] = waiting[h][m] => n = m

\* A connection has promises for requests of its own proxy only, which wait for an answer,
\* under a number each; and it has them while its channel is open.
Promises ==
  \A i \in Ids :
    /\ \A r \in responsePromises[i] :
         /\ status[r[2]] = "sent" /\ IsRequest(r[2])
         /\ channels[i] = "open" /\ owner[i] = HandlerOf[r[2]]
         /\ 1 <= r[1] /\ r[1] <= sequenceNumber[i]
    /\ \A r, s \in responsePromises[i] : r[1] = s[1] <=> r[2] = s[2]

ProxyInv == PromiseIsCurrent /\ WaitingCalls /\ Promises /\ NoOrphanedCall

\* A step that sends the calls ks on the connection of channel i, or nothing.
Dispatch(i, ks) ==
  /\ ks \in Seq(Calls)
  /\ KeepRequests(i, ks)
  /\ status' = [k \in Calls |-> IF k \in ToSet(ks) THEN AfterSend(k) ELSE status[k]]
  /\ UNCHANGED <<owner, answer, serviceVars>>
  /\ channels' = [channels EXCEPT ![i] = IF @ = "none" THEN @ ELSE "open"]
  /\ ks # <<>> => channels[i] # "none" /\ connection'[owner[i]] = i
  /\ \A n \in 1..Len(ks) :
       /\ HandlerOf[ks[n]] = owner[i]
       /\ status[ks[n]] \in {"idle", "waiting"}
  /\ \A n, m \in 1..Len(ks) : ks[n] = ks[m] => n = m

LEMMA CallNowDispatches ==
  ASSUME ProxiesAssumption, NetP!TypeOK, OwnTypeOK, ProxyInv, NEW k \in Calls, CallNow(k)
  PROVE  /\ connection[HandlerOf[k]] \in Ids
         /\ Dispatch(connection[HandlerOf[k]], <<k>>)
<1> DEFINE i == connection[HandlerOf[k]]
<1>1. i \in Ids /\ HandlerOf[k] \in Handlers /\ channels[i] = "open" /\ owner[i] = HandlerOf[k]
  BY DEF CallNow, OwnTypeOK, ProxiesAssumption, ProxyInv, PromiseIsCurrent
<1>2. ToSet(<<k>>) = {k} /\ <<k>> \in Seq(Calls) /\ Len(<<k>>) = 1 /\ <<k>>[1] = k
  BY DEF ToSet
<1>3. status' = [j \in Calls |-> IF j \in ToSet(<<k>>) THEN AfterSend(j) ELSE status[j]]
  BY <1>2 DEF CallNow, OwnTypeOK
<1>4. KeepRequests(i, <<k>>) /\ UNCHANGED <<owner, answer, serviceVars, channels, connection>>
      /\ status[k] = "idle"
  BY DEF CallNow, Net!ClientSend, Net!clientVars, IsNext
<1>5. channels' = [channels EXCEPT ![i] = IF @ = "none" THEN @ ELSE "open"]
  BY <1>1, <1>4, SameIds DEF NetP!TypeOK
<1>6. /\ \A n \in 1..Len(<<k>>) : HandlerOf[<<k>>[n]] = owner[i] /\ status[<<k>>[n]] = "idle"
      /\ \A n, m \in 1..Len(<<k>>) : <<k>>[n] = <<k>>[m] => n = m
  BY <1>1, <1>2, <1>4
<1>7. channels[i] # "none" /\ connection'[owner[i]] = i
  BY <1>1, <1>4
<1> HIDE DEF i
<1>8. Dispatch(i, <<k>>)
  BY <1>1, <1>2, <1>3, <1>4, <1>5, <1>6, <1>7 DEF Dispatch
<1> QED BY <1>1, <1>8 DEF i

LEMMA ReadyDispatches ==
  ASSUME NetP!TypeOK, NetP!Bookkeeping, OwnTypeOK, ProxyInv, NEW i \in Ids, Ready(i)
  PROVE  Dispatch(i, Sendable(i))
<1> DEFINE ks == Sendable(i)
<1>1. ks \in Seq(Calls) /\ (channels[i] # "none" => owner[i] \in Handlers)
  BY SendableType
<1>2. KeepRequests(i, ks) /\ UNCHANGED <<owner, answer, serviceVars>>
      /\ status' = [k \in Calls |-> IF k \in ToSet(ks) THEN AfterSend(k) ELSE status[k]]
  BY DEF Ready, Sendable, Net!ClientReceiveReady, Net!ClientReceives
<1>3. channels' = [channels EXCEPT ![i] = IF @ = "none" THEN @ ELSE "open"]
  BY SameIds DEF Ready, Net!ClientReceiveReady, NetP!TypeOK
<1>4. ks # <<>> => /\ channels[i] # "none" /\ connection'[owner[i]] = i
                   /\ ks = waiting[owner[i]] /\ owner[i] \in Handlers
  BY <1>1 DEF Ready, Sendable, OwnTypeOK
<1>5. ks # <<>> => /\ \A n \in 1..Len(ks) :
                        HandlerOf[ks[n]] = owner[i] /\ status[ks[n]] = "waiting"
                   /\ \A n, m \in 1..Len(ks) : ks[n] = ks[m] => n = m
  BY <1>4 DEF ProxyInv, WaitingCalls
<1>6. ks = <<>> => Len(ks) = 0
  OBVIOUS
<1>7. /\ \A n \in 1..Len(ks) : HandlerOf[ks[n]] = owner[i] /\ status[ks[n]] = "waiting"
      /\ \A n, m \in 1..Len(ks) : ks[n] = ks[m] => n = m
  BY <1>5, <1>6
<1> QED BY <1>1, <1>2, <1>3, <1>4, <1>7 DEF Dispatch

\* What the step makes of the promises, and of the calls that it does not send.
LEMMA DispatchedPromises ==
  ASSUME ProxiesAssumption, OwnTypeOK, Promises, NEW i \in Ids, NEW ks, Dispatch(i, ks)
  PROVE  /\ \A j \in Ids : j # i => /\ responsePromises'[j] = responsePromises[j]
                                   /\ sequenceNumber'[j] = sequenceNumber[j]
         /\ sequenceNumber'[i] \in Nat /\ sequenceNumber[i] <= sequenceNumber'[i]
         /\ responsePromises[i] \subseteq responsePromises'[i]
         /\ \A r \in responsePromises'[i] :
              \/ r \in responsePromises[i]
              \/ \E n \in 1..Len(ks) : /\ r = <<Number(i, ks, n), ks[n]>> /\ IsRequest(ks[n])
                                      /\ Number(i, ks, n) \in Nat
                                      /\ sequenceNumber[i] < Number(i, ks, n)
                                      /\ Number(i, ks, n) <= sequenceNumber'[i]
         /\ \A n \in 1..Len(ks) :
              IsRequest(ks[n]) => <<Number(i, ks, n), ks[n]>> \in responsePromises'[i]
         /\ \A k \in Calls : k \notin ToSet(ks) => status'[k] = status[k]
         /\ \A k \in Calls : status[k] = "sent" => k \notin ToSet(ks)
         /\ \A n \in 1..Len(ks) : ks[n] \in Calls /\ status'[ks[n]] = AfterSend(ks[n])
<1>1. ks \in Seq(Calls) /\ Len(ks) \in Nat /\ ToSet(ks) = {ks[n] : n \in 1..Len(ks)}
  BY DEF Dispatch, ToSet
<1>2. /\ sequenceNumber' = [sequenceNumber EXCEPT ![i] = Number(i, ks, Len(ks))]
      /\ responsePromises' =
           [responsePromises EXCEPT
              ![i] = @ \cup {<<Number(i, ks, j), ks[j]>> : j \in RequestsIn(ks, Len(ks))}]
      /\ sequenceNumber \in [Ids -> Nat]
      /\ responsePromises \in [Ids -> SUBSET (Nat \X Calls)]
  BY DEF Dispatch, KeepRequests, OwnTypeOK
<1>3. ASSUME NEW n \in 1..Len(ks), IsRequest(ks[n])
      PROVE  /\ Number(i, ks, n) \in Nat
             /\ sequenceNumber[i] < Number(i, ks, n)
             /\ Number(i, ks, n) <= Number(i, ks, Len(ks))
  <2>1. n \in Nat /\ n > 0 /\ n <= Len(ks) /\ sequenceNumber \in [Ids -> Nat]
    BY <1>1, <1>2
  <2>2. Number(i, ks, n) \in Nat /\ Number(i, ks, n) <= Number(i, ks, Len(ks))
    BY <1>1, <2>1, NumbersGrow
  <2>3. sequenceNumber[i] < Number(i, ks, n)
    BY <1>3, <2>1, NumbersAreNew
  <2> QED BY <2>2, <2>3
<1>4. Number(i, ks, Len(ks)) \in Nat /\ sequenceNumber[i] <= Number(i, ks, Len(ks))
  <2>1. Number(i, ks, 0) \in Nat /\ Number(i, ks, 0) <= Number(i, ks, Len(ks))
        /\ Number(i, ks, Len(ks)) \in Nat
    <3>1. 0 \in Nat /\ 0 <= Len(ks) /\ Len(ks) <= Len(ks) /\ sequenceNumber \in [Ids -> Nat]
      BY <1>1, <1>2
    <3> QED BY <1>1, <3>1, NumbersGrow
  <2>2. RequestsIn(ks, 0) = {}
    BY DEF RequestsIn
  <2>3. Cardinality(RequestsIn(ks, 0)) = 0
    BY <2>2, FS_EmptySet
  <2> QED BY <1>2, <2>1, <2>3 DEF Number
<1>5. \A n : n \in RequestsIn(ks, Len(ks)) <=> n \in 1..Len(ks) /\ IsRequest(ks[n])
  BY DEF RequestsIn
<1>6. /\ sequenceNumber'[i] = Number(i, ks, Len(ks))
      /\ responsePromises'[i] = responsePromises[i] \cup
             {<<Number(i, ks, j), ks[j]>> : j \in RequestsIn(ks, Len(ks))}
      /\ \A j \in Ids : j # i => /\ responsePromises'[j] = responsePromises[j]
                                /\ sequenceNumber'[j] = sequenceNumber[j]
  BY <1>2
<1>7. /\ \A k \in Calls : k \notin ToSet(ks) => status'[k] = status[k]
      /\ \A k \in Calls : status[k] = "sent" => k \notin ToSet(ks)
      /\ \A n \in 1..Len(ks) : ks[n] \in Calls /\ status'[ks[n]] = AfterSend(ks[n])
  <2>1. /\ status' = [k \in Calls |-> IF k \in ToSet(ks) THEN AfterSend(k) ELSE status[k]]
        /\ \A n \in 1..Len(ks) : status[ks[n]] \in {"idle", "waiting"}
    BY DEF Dispatch
  <2>2. \A n \in 1..Len(ks) : ks[n] \in Calls /\ ks[n] \in ToSet(ks)
    BY <1>1
  <2>3. \A k \in ToSet(ks) : status[k] # "sent"
    BY <1>1, <2>1
  <2> HIDE DEF AfterSend
  <2> QED BY <2>1, <2>2, <2>3
<1>8. \A r \in responsePromises'[i] :
        \/ r \in responsePromises[i]
        \/ \E n \in 1..Len(ks) : /\ r = <<Number(i, ks, n), ks[n]>> /\ IsRequest(ks[n])
                                /\ Number(i, ks, n) \in Nat
                                /\ sequenceNumber[i] < Number(i, ks, n)
                                /\ Number(i, ks, n) <= sequenceNumber'[i]
  BY <1>3, <1>5, <1>6
<1>9. \A n \in 1..Len(ks) :
        IsRequest(ks[n]) => <<Number(i, ks, n), ks[n]>> \in responsePromises'[i]
  BY <1>5, <1>6
<1> QED BY <1>4, <1>6, <1>7, <1>8, <1>9

LEMMA DispatchKeepsPromises ==
  ASSUME ProxiesAssumption, NetP!TypeOK, OwnTypeOK, Promises, NEW i \in Ids, NEW ks,
         Dispatch(i, ks)
  PROVE  Promises'
<1>1. /\ owner' = owner /\ Len(ks) \in Nat
      /\ \A j \in Ids : channels[j] = "open" => channels'[j] = "open"
      /\ \A n \in 1..Len(ks) : HandlerOf[ks[n]] = owner[i] /\ status[ks[n]] # "sent"
                             /\ channels'[i] = "open"
      /\ \A n, m \in 1..Len(ks) : ks[n] = ks[m] => n = m
  <2>1. channels \in [Ids -> {"none", "opening", "open"}]
    BY SameIds DEF NetP!TypeOK
  <2>2. /\ ks \in Seq(Calls) /\ owner' = owner
        /\ channels' = [channels EXCEPT ![i] = IF @ = "none" THEN @ ELSE "open"]
        /\ ks # <<>> => channels[i] # "none"
        /\ \A n \in 1..Len(ks) : /\ HandlerOf[ks[n]] = owner[i]
                               /\ status[ks[n]] \in {"idle", "waiting"}
        /\ \A n, m \in 1..Len(ks) : ks[n] = ks[m] => n = m
    BY DEF Dispatch
  <2>3. \A n \in 1..Len(ks) : ks # <<>>
    BY <2>2
  <2> QED BY <2>1, <2>2, <2>3
<1>2. \A j \in Ids : \A r \in responsePromises[j] :
        /\ r[1] \in Nat /\ r[2] \in Calls
        /\ status[r[2]] = "sent" /\ status'[r[2]] = "sent" /\ IsRequest(r[2])
        /\ channels'[j] = "open" /\ owner'[j] = HandlerOf[r[2]]
        /\ 1 <= r[1] /\ r[1] <= sequenceNumber[j] /\ r[1] <= sequenceNumber'[j]
        /\ sequenceNumber[j] \in Nat /\ sequenceNumber'[j] \in Nat
  <2> SUFFICES ASSUME NEW j \in Ids, NEW r \in responsePromises[j]
               PROVE  /\ r[1] \in Nat /\ r[2] \in Calls
                      /\ status[r[2]] = "sent" /\ status'[r[2]] = "sent" /\ IsRequest(r[2])
                      /\ channels'[j] = "open" /\ owner'[j] = HandlerOf[r[2]]
                      /\ 1 <= r[1] /\ r[1] <= sequenceNumber[j] /\ r[1] <= sequenceNumber'[j]
                      /\ sequenceNumber[j] \in Nat /\ sequenceNumber'[j] \in Nat
    OBVIOUS
  <2>1. r[1] \in Nat /\ r[2] \in Calls /\ sequenceNumber[j] \in Nat
    BY DEF OwnTypeOK
  <2>2. /\ status[r[2]] = "sent" /\ IsRequest(r[2]) /\ channels[j] = "open"
        /\ owner[j] = HandlerOf[r[2]] /\ 1 <= r[1] /\ r[1] <= sequenceNumber[j]
    BY DEF Promises
  <2>3. status'[r[2]] = "sent"
    BY <2>1, <2>2, DispatchedPromises
  <2>4. sequenceNumber'[j] \in Nat /\ sequenceNumber[j] <= sequenceNumber'[j]
    BY <2>1, DispatchedPromises
  <2> QED BY <1>1, <2>1, <2>2, <2>3, <2>4
<1>3. \A n \in 1..Len(ks) : IsRequest(ks[n]) => status'[ks[n]] = "sent"
  BY DispatchedPromises DEF AfterSend
<1>4. \A n, m \in 1..Len(ks) : IsRequest(ks[n]) /\ IsRequest(ks[m]) =>
        (Number(i, ks, n) = Number(i, ks, m) <=> ks[n] = ks[m])
  <2> SUFFICES ASSUME NEW n \in 1..Len(ks), NEW m \in 1..Len(ks), IsRequest(ks[n]),
                      IsRequest(ks[m]), Number(i, ks, n) = Number(i, ks, m)
               PROVE  n = m
    BY <1>1
  <2>1. n \in Nat /\ m \in Nat /\ sequenceNumber \in [Ids -> Nat]
    BY <1>1 DEF OwnTypeOK
  <2>2. Number(i, ks, n) \in Nat /\ (n < m => Number(i, ks, n) < Number(i, ks, m))
    BY <2>1, NumbersGrow
  <2>3. m < n => Number(i, ks, m) < Number(i, ks, n)
    BY <2>1, NumbersGrow
  <2> QED BY <2>1, <2>2, <2>3
<1>5. ASSUME NEW j \in Ids, NEW r \in responsePromises'[j]
      PROVE  /\ status'[r[2]] = "sent" /\ IsRequest(r[2])
             /\ channels'[j] = "open" /\ owner'[j] = HandlerOf[r[2]]
             /\ 1 <= r[1] /\ r[1] <= sequenceNumber'[j]
  <2>1. CASE r \in responsePromises[j]
    BY <1>2, <2>1
  <2>2. CASE r \notin responsePromises[j]
    <3>1. j = i
      BY <2>2, DispatchedPromises
    <3>2. PICK n \in 1..Len(ks) : /\ r = <<Number(i, ks, n), ks[n]>> /\ IsRequest(ks[n])
                                  /\ Number(i, ks, n) \in Nat
                                  /\ sequenceNumber[i] < Number(i, ks, n)
                                  /\ Number(i, ks, n) <= sequenceNumber'[i]
      BY <2>2, <3>1, DispatchedPromises
    <3>3. sequenceNumber[i] \in Nat /\ r[1] = Number(i, ks, n) /\ r[2] = ks[n]
      BY <3>2 DEF OwnTypeOK
    <3> QED BY <1>1, <1>3, <3>1, <3>2, <3>3
  <2> QED BY <2>1, <2>2
<1>6. ASSUME NEW j \in Ids, NEW r \in responsePromises'[j], NEW s \in responsePromises'[j]
      PROVE  r[1] = s[1] <=> r[2] = s[2]
  <2>1. CASE r \in responsePromises[j] /\ s \in responsePromises[j]
    BY <2>1 DEF Promises
  <2>2. CASE j = i
    <3>1. ASSUME NEW u \in responsePromises[i], NEW n \in 1..Len(ks),
                 sequenceNumber[i] < Number(i, ks, n), Number(i, ks, n) \in Nat
          PROVE  u[1] # Number(i, ks, n) /\ u[2] # ks[n]
      BY <1>1, <1>2, <3>1
    <3>2. /\ \/ r \in responsePromises[i]
             \/ \E n \in 1..Len(ks) : /\ r = <<Number(i, ks, n), ks[n]>> /\ IsRequest(ks[n])
                                     /\ Number(i, ks, n) \in Nat
                                     /\ sequenceNumber[i] < Number(i, ks, n)
          /\ \/ s \in responsePromises[i]
             \/ \E n \in 1..Len(ks) : /\ s = <<Number(i, ks, n), ks[n]>> /\ IsRequest(ks[n])
                                     /\ Number(i, ks, n) \in Nat
                                     /\ sequenceNumber[i] < Number(i, ks, n)
      BY <2>2, DispatchedPromises
    <3>3. CASE r \in responsePromises[i] /\ s \notin responsePromises[i]
      BY <3>1, <3>2, <3>3
    <3>4. CASE r \notin responsePromises[i] /\ s \in responsePromises[i]
      BY <3>1, <3>2, <3>4
    <3>5. CASE r \notin responsePromises[i] /\ s \notin responsePromises[i]
      BY <1>4, <3>2, <3>5
    <3> QED BY <2>1, <2>2, <3>3, <3>4, <3>5
  <2> QED BY <2>1, <2>2, DispatchedPromises
<1> QED BY <1>5, <1>6 DEF Promises

LEMMA DispatchLeavesNoOrphan ==
  ASSUME ProxiesAssumption, OwnTypeOK, ProxyInv, NEW i \in Ids, NEW ks, Dispatch(i, ks),
         \A h \in Handlers : connection[h] # NoConnection => connection'[h] = connection[h]
  PROVE  NoOrphanedCall'
<1> SUFFICES ASSUME NEW k \in Calls, status'[k] = "sent"
             PROVE  \E j \in Ids : connection'[HandlerOf[k]] = j /\ k \in Unsettled(j)'
  BY DEF NoOrphanedCall
<1>1. Promises /\ NoOrphanedCall /\ HandlerOf[k] \in Handlers
  BY DEF ProxyInv, ProxiesAssumption
<1>2. CASE k \in ToSet(ks)
  <2>1. PICK n \in 1..Len(ks) : k = ks[n]
    BY <1>2 DEF ToSet, Dispatch
  <2>2. IsRequest(k)
    BY <1>1, <2>1, DispatchedPromises DEF AfterSend
  <2>3. <<Number(i, ks, n), k>> \in responsePromises'[i]
    BY <1>1, <2>1, <2>2, DispatchedPromises
  <2>4. ks # <<>>
    BY <2>1 DEF Dispatch
  <2>5. connection'[HandlerOf[k]] = i
    BY <2>1, <2>4 DEF Dispatch
  <2> QED BY <2>3, <2>5 DEF Unsettled
<1>3. CASE k \notin ToSet(ks)
  <2>1. status[k] = "sent"
    BY <1>1, <1>3, DispatchedPromises
  <2>2. PICK j \in Ids : connection[HandlerOf[k]] = j /\ k \in Unsettled(j)
    BY <1>1, <2>1 DEF NoOrphanedCall
  <2>3. connection'[HandlerOf[k]] = j
    BY <1>1, <2>2 DEF ProxiesAssumption, Ids, Net!Ids
  <2>4. responsePromises[j] \subseteq responsePromises'[j]
    BY <1>1, DispatchedPromises
  <2> QED BY <2>2, <2>3, <2>4 DEF Unsettled
<1> QED BY <1>2, <1>3

\* Opening channels leaves the open ones and their owners as they are.
LEMMA OpeningKeepsOpen ==
  ASSUME ProxiesAssumption, NetP!TypeOK, NetP!Bookkeeping,
         NEW h, CreateProxy(h) \/ Connect
  PROVE  /\ \A i \in Ids : channels'[i] = "open" <=> channels[i] = "open"
         /\ \A i \in Ids : i < channelIdSeq => owner'[i] = owner[i] /\ channels'[i] = channels[i]
         /\ \A i \in Ids : channels[i] # "none" => i < channelIdSeq
         /\ channelIdSeq <= channelIdSeq'
         /\ UNCHANGED <<proxyVars, serviceVars, down>>
<1>1. Ids = NetP!Ids
  BY SameIds
<1>2. /\ \A i \in Ids : channels[i] # "none" => i < channelIdSeq
      /\ \A i \in Ids : i \in Nat
      /\ channelIdSeq \in Nat /\ listeners \in Seq(Handlers)
  BY <1>1 DEF NetP!Bookkeeping, NetP!TypeOK, Ids, Net!Ids
<1>3. UNCHANGED <<proxyVars, serviceVars, down>>
  BY DEF CreateProxy, Connect, Net!Listen, Net!Connect
<1>4. ASSUME NEW c, NEW hs, Len(hs) \in Nat, NetP!OpenChannels(c, <<>>, NetP!Ids, hs)
      PROVE  /\ \A i \in Ids : channels'[i] = "open" <=> channels[i] = "open"
             /\ \A i \in Ids : i < channelIdSeq => owner'[i] = owner[i] /\ channels'[i] = channels[i]
             /\ channelIdSeq <= channelIdSeq'
  <2>1. /\ \A i \in Ids : channels'[i] = IF i \in channelIdSeq..(channelIdSeq + Len(hs) - 1)
                                       THEN "opening" ELSE channels[i]
        /\ \A i \in Ids : i \notin channelIdSeq..(channelIdSeq + Len(hs) - 1)
              => owner'[i] = owner[i]
        /\ channelIdSeq' = channelIdSeq + Len(hs)
    BY <1>1, <1>4 DEF NetP!OpenChannels
  <2>2. \A i \in Ids : i < channelIdSeq => i \notin channelIdSeq..(channelIdSeq + Len(hs) - 1)
    BY <1>2, <1>4
  <2>3. ASSUME NEW i \in Ids PROVE channels'[i] = "open" <=> channels[i] = "open"
    BY <1>2, <2>1, <2>2
  <2> QED BY <1>2, <1>4, <2>1, <2>2, <2>3
<1>5. CASE CreateProxy(h)
  <2>1. NetP!Listen(h)
    BY <1>5, ListenStep
  <2>2. \/ NetP!OpenChannels(socket, <<>>, NetP!Ids, <<h>>)
        \/ UNCHANGED <<channelIdSeq, channels, owner>>
    BY <2>1 DEF NetP!Listen
  <2>3. Len(<<h>>) \in Nat
    OBVIOUS
  <2> QED BY <1>2, <1>3, <1>4, <2>2, <2>3
<1>6. CASE Connect
  <2>1. NetP!Connect
    BY <1>6, ConnectStep
  <2>2. NetP!OpenChannels(connSeq + 1, <<>>, NetP!Ids, listeners)
    BY <2>1 DEF NetP!Connect
  <2>3. Len(listeners) \in Nat
    BY <1>2
  <2> QED BY <1>2, <1>3, <1>4, <2>2, <2>3
<1> QED BY <1>5, <1>6

LEMMA ProxyInvOpening ==
  ASSUME ProxiesAssumption, NetP!TypeOK, NetP!Bookkeeping, OwnTypeOK, ProxyInv,
         NEW h, CreateProxy(h) \/ Connect
  PROVE  ProxyInv'
<1>1. /\ \A i \in Ids : channels'[i] = "open" <=> channels[i] = "open"
      /\ \A i \in Ids : channels[i] = "open" => owner'[i] = owner[i]
      /\ UNCHANGED <<connection, waiting, status, answer, sequenceNumber, responsePromises>>
  BY OpeningKeepsOpen DEF proxyVars, requestVars
<1>2. PromiseIsCurrent'
  BY <1>1 DEF ProxyInv, PromiseIsCurrent
<1>3. WaitingCalls' /\ NoOrphanedCall'
  BY <1>1 DEF ProxyInv, WaitingCalls, NoOrphanedCall, Unsettled
<1>4. Promises'
  BY <1>1 DEF ProxyInv, Promises
<1> QED BY <1>2, <1>3, <1>4 DEF ProxyInv

LEMMA ProxyInvCallNow ==
  ASSUME ProxiesAssumption, NetP!TypeOK, OwnTypeOK, ProxyInv, NEW k \in Calls, CallNow(k)
  PROVE  ProxyInv'
<1>1. connection[HandlerOf[k]] \in Ids /\ Dispatch(connection[HandlerOf[k]], <<k>>)
  BY CallNowDispatches
<1>2. /\ UNCHANGED <<connection, waiting, channels, owner>>
      /\ status' = [status EXCEPT ![k] = AfterSend(k)] /\ status[k] = "idle"
  BY DEF CallNow, Net!ClientSend, Net!clientVars, IsNext
<1>3. Promises' /\ NoOrphanedCall'
  BY <1>1, <1>2, DispatchKeepsPromises, DispatchLeavesNoOrphan DEF ProxyInv
<1>4. PromiseIsCurrent'
  BY <1>2 DEF ProxyInv, PromiseIsCurrent
<1>5. WaitingCalls'
  BY <1>2 DEF ProxyInv, WaitingCalls, OwnTypeOK
<1> QED BY <1>3, <1>4, <1>5 DEF ProxyInv

LEMMA ProxyInvCallLater ==
  ASSUME ProxiesAssumption, NetP!TypeOK, OwnTypeOK, ProxyInv, NEW k \in Calls, CallLater(k)
  PROVE  ProxyInv'
<1> DEFINE g == HandlerOf[k]
<1>1. /\ UNCHANGED <<connection, channels, owner, sequenceNumber, responsePromises>>
      /\ waiting' = [waiting EXCEPT ![g] = Append(@, k)]
      /\ status' = [status EXCEPT ![k] = "waiting"] /\ status[k] = "idle"
      /\ connection[g] = NoConnection /\ g \in Handlers
  BY DEF CallLater, netVars, IsNext, requestVars, ProxiesAssumption
<1>2. PromiseIsCurrent'
  BY <1>1 DEF ProxyInv, PromiseIsCurrent, OwnTypeOK
<1>3. Promises'
  BY <1>1 DEF ProxyInv, Promises, OwnTypeOK
<1>4. NoOrphanedCall'
  BY <1>1 DEF ProxyInv, NoOrphanedCall, OwnTypeOK, Unsettled
<1>5. WaitingCalls'
  <2> SUFFICES ASSUME NEW h \in Handlers
               PROVE  /\ \A n \in 1..Len(waiting'[h]) :
                           HandlerOf[waiting'[h][n]] = h /\ status'[waiting'[h][n]] = "waiting"
                      /\ \A n, m \in 1..Len(waiting'[h]) : waiting'[h][n] = waiting'[h][m] => n = m
    BY DEF WaitingCalls
  <2>1. /\ waiting[h] \in Seq(Calls)
        /\ \A n \in 1..Len(waiting[h]) :
             /\ HandlerOf[waiting[h][n]] = h /\ status[waiting[h][n]] = "waiting"
             /\ waiting[h][n] # k /\ waiting[h][n] \in Calls /\ status'[waiting[h][n]] = "waiting"
        /\ \A n, m \in 1..Len(waiting[h]) : waiting[h][n] = waiting[h][m] => n = m
    BY <1>1 DEF ProxyInv, WaitingCalls, OwnTypeOK
  <2>2. CASE h = g
    <3>1. waiting'[h] = Append(waiting[h], k) /\ status'[k] = "waiting"
      BY <1>1, <2>2 DEF OwnTypeOK
    <3>2. /\ Len(waiting'[h]) = Len(waiting[h]) + 1 /\ Len(waiting[h]) \in Nat
          /\ \A n \in 1..Len(waiting'[h]) :
               waiting'[h][n] = IF n <= Len(waiting[h]) THEN waiting[h][n] ELSE k
      BY <2>1, <3>1
    <3>3. \A n \in 1..Len(waiting'[h]) :
            \/ n \in 1..Len(waiting[h]) /\ waiting'[h][n] = waiting[h][n]
            \/ n = Len(waiting[h]) + 1 /\ waiting'[h][n] = k
      BY <3>2
    <3>4. \A n \in 1..Len(waiting'[h]) :
            HandlerOf[waiting'[h][n]] = h /\ status'[waiting'[h][n]] = "waiting"
      BY <2>1, <2>2, <3>1, <3>3
    <3>5. \A n, m \in 1..Len(waiting'[h]) : waiting'[h][n] = waiting'[h][m] => n = m
      BY <2>1, <3>3
    <3> QED BY <3>4, <3>5
  <2>3. CASE h # g
    BY <1>1, <2>1, <2>3 DEF OwnTypeOK
  <2> QED BY <2>2, <2>3
<1> QED BY <1>2, <1>3, <1>4, <1>5 DEF ProxyInv

LEMMA ProxyInvReady ==
  ASSUME ProxiesAssumption, NetP!TypeOK, NetP!Bookkeeping, NetP!OneConnectionPerHandler,
         OwnTypeOK, ProxyInv, NEW i \in Ids, Ready(i)
  PROVE  ProxyInv'
<1> DEFINE h == owner[i]
           isNew == channels[i] # "none" /\ connection[h] = NoConnection
<1>1. Dispatch(i, Sendable(i)) /\ Ids = NetP!Ids
  BY ReadyDispatches, SameIds
<1>2. /\ owner' = owner
      /\ connection' = IF isNew THEN [connection EXCEPT ![h] = i] ELSE connection
      /\ waiting' = IF isNew THEN [waiting EXCEPT ![h] = <<>>] ELSE waiting
      /\ channels' = [channels EXCEPT ![i] = IF @ = "none" THEN @ ELSE "open"]
      /\ channels \in [Ids -> {"none", "opening", "open"}]
      /\ channels[i] # "none" => h \in Handlers
  BY <1>1, SendableType DEF Ready, Dispatch, NetP!TypeOK
<1>3. \A g \in Handlers : connection[g] # NoConnection => connection'[g] = connection[g]
  BY <1>2 DEF OwnTypeOK
<1>4. Promises' /\ NoOrphanedCall'
  BY <1>1, <1>3, DispatchKeepsPromises, DispatchLeavesNoOrphan DEF ProxyInv
<1>5. /\ \A g \in Handlers : connection[g] # NoConnection => waiting[g] = <<>>
      /\ \A g \in Handlers : \A j \in Ids :
           channels[j] = "open" /\ owner[j] = g <=> connection[g] = j
      /\ \A j \in Ids : j # NoConnection
      /\ connection \in [Handlers -> Ids \cup {NoConnection}]
      /\ waiting \in [Handlers -> Seq(Calls)]
  BY DEF ProxyInv, PromiseIsCurrent, ProxiesAssumption, Ids, Net!Ids, OwnTypeOK
<1>6. PromiseIsCurrent'
  <2>1. CASE isNew
    <3>1. \A g \in Handlers : connection'[g] # NoConnection => waiting'[g] = <<>>
      BY <1>2, <1>5, <2>1
    <3>2. ASSUME NEW g \in Handlers, NEW j \in Ids
          PROVE  channels'[j] = "open" /\ owner'[j] = g <=> connection'[g] = j
      <4>1. CASE j = i
        BY <1>2, <1>5, <2>1, <4>1
      <4>2. CASE j # i
        BY <1>2, <1>5, <2>1, <4>2
      <4> QED BY <4>1, <4>2
    <3> QED BY <3>1, <3>2 DEF PromiseIsCurrent
  <2>2. CASE ~isNew
    <3>1. channels' = channels
      <4>1. CASE channels[i] = "none"
        BY <1>2, <4>1
      <4>2. CASE channels[i] # "none"
        <5>1. connection[h] \in Ids /\ h \in Handlers
          BY <1>2, <1>5, <2>2, <4>2
        <5>2. channels[connection[h]] = "open" /\ owner[connection[h]] = h
          BY <1>5, <5>1
        <5>3. connection[h] = i
          BY <1>1, <4>2, <5>1, <5>2 DEF NetP!OneConnectionPerHandler
        <5> QED BY <1>2, <5>2, <5>3
      <4> QED BY <4>1, <4>2
    <3>2. connection' = connection /\ waiting' = waiting
      BY <1>2, <2>2
    <3> QED BY <1>2, <1>5, <3>1, <3>2 DEF PromiseIsCurrent
  <2> QED BY <2>1, <2>2
<1>7. WaitingCalls'
  <2> SUFFICES ASSUME NEW g \in Handlers
               PROVE  /\ \A n \in 1..Len(waiting'[g]) :
                           HandlerOf[waiting'[g][n]] = g /\ status'[waiting'[g][n]] = "waiting"
                      /\ \A n, m \in 1..Len(waiting'[g]) : waiting'[g][n] = waiting'[g][m] => n = m
    BY DEF WaitingCalls
  <2>1. CASE isNew /\ g = h
    <3>1. waiting'[g] = <<>> /\ Len(<<>>) = 0
      BY <1>2, <1>5, <2>1
    <3> QED BY <3>1
  <2>2. CASE ~(isNew /\ g = h)
    <3>1. waiting'[g] = waiting[g]
      BY <1>2, <1>5, <2>2
    <3>2. ASSUME NEW n \in 1..Len(waiting[g]) PROVE waiting[g][n] \notin ToSet(Sendable(i))
      <4>1. CASE isNew
        <5>1. HandlerOf[waiting[g][n]] = g /\ h \in Handlers /\ Sendable(i) = waiting[h]
          BY <1>2, <4>1 DEF ProxyInv, WaitingCalls, Sendable
        <5>2. \A m \in 1..Len(waiting[h]) : HandlerOf[waiting[h][m]] = h
          BY <5>1 DEF ProxyInv, WaitingCalls
        <5>3. \A k \in ToSet(waiting[h]) : HandlerOf[k] = h
          <6>1. waiting[h] \in Seq(Calls)
            BY <1>5, <5>1
          <6>2. ToSet(waiting[h]) = {waiting[h][m] : m \in 1..Len(waiting[h])}
            BY <6>1 DEF ToSet
          <6> QED BY <5>2, <6>2
        <5> QED BY <2>2, <4>1, <5>1, <5>3
      <4>2. CASE ~isNew
        BY <4>2 DEF Sendable, ToSet
      <4> QED BY <4>1, <4>2
    <3>3. \A n \in 1..Len(waiting[g]) :
            /\ HandlerOf[waiting[g][n]] = g /\ status[waiting[g][n]] = "waiting"
            /\ waiting[g][n] \in Calls
      BY <1>5 DEF ProxyInv, WaitingCalls
    <3>4. \A n \in 1..Len(waiting[g]) : status'[waiting[g][n]] = "waiting"
      BY <1>1, <3>2, <3>3 DEF Dispatch
    <3> QED BY <3>1, <3>3, <3>4 DEF ProxyInv, WaitingCalls
  <2> QED BY <2>1, <2>2
<1> QED BY <1>4, <1>6, <1>7 DEF ProxyInv

LEMMA ProxyInvResponse ==
  ASSUME ProxiesAssumption, NetP!TypeOK, OwnTypeOK, ProxyInv, NEW i \in Ids, NEW m,
         ReceiveResponse(i, m)
  PROVE  ProxyInv'
<1> DEFINE settled == {k \in Calls : <<m.seq, k>> \in responsePromises[i]}
<1>1. /\ UNCHANGED <<connection, waiting, channels, owner, sequenceNumber>>
      /\ \A k \in Calls : status'[k] = IF k \in settled THEN "answered" ELSE status[k]
      /\ responsePromises' = [responsePromises EXCEPT ![i] = @ \ ({m.seq} \X settled)]
  BY DEF ReceiveResponse, Net!ClientReceiveData, Net!ClientReceives
<1>2. /\ \A k \in settled : status[k] = "sent"
      /\ \A j \in Ids : responsePromises'[j] \subseteq responsePromises[j]
  BY <1>1 DEF ProxyInv, Promises, OwnTypeOK
<1>3. PromiseIsCurrent'
  BY <1>1 DEF ProxyInv, PromiseIsCurrent
<1>4. WaitingCalls'
  <2>1. \A h \in Handlers : \A n \in 1..Len(waiting[h]) :
          /\ HandlerOf[waiting[h][n]] = h /\ status[waiting[h][n]] = "waiting"
          /\ waiting[h][n] \in Calls
    BY DEF ProxyInv, WaitingCalls, OwnTypeOK
  <2>2. \A h \in Handlers : \A n \in 1..Len(waiting[h]) : status'[waiting[h][n]] = "waiting"
    BY <1>1, <1>2, <2>1
  <2> QED BY <1>1, <2>1, <2>2 DEF ProxyInv, WaitingCalls
<1>5. ASSUME NEW j \in Ids, NEW r \in responsePromises'[j] PROVE r[2] \notin settled
  <2> SUFFICES ASSUME r[2] \in settled PROVE FALSE
    OBVIOUS
  <2>0. r \in responsePromises[j] /\ <<m.seq, r[2]>> \in responsePromises[i]
    BY <1>2, <1>5
  <2>1. r = <<r[1], r[2]>> /\ r[2] \in Calls
    BY <2>0 DEF OwnTypeOK
  <2>2. /\ channels[j] = "open" /\ owner[j] = HandlerOf[r[2]]
        /\ channels[i] = "open" /\ owner[i] = HandlerOf[r[2]]
    BY <2>0 DEF ProxyInv, Promises
  <2>3. i = j
    BY <2>1, <2>2 DEF ProxyInv, PromiseIsCurrent, ProxiesAssumption
  <2>4. r[1] = m.seq
    BY <2>0, <2>3 DEF ProxyInv, Promises
  <2>5. responsePromises'[i] = responsePromises[i] \ ({m.seq} \X settled)
    BY <1>1 DEF OwnTypeOK
  <2>6. r \in {m.seq} \X settled
    BY <2>1, <2>4
  <2> QED BY <1>5, <2>3, <2>5, <2>6
<1>6. Promises'
  <2>1. \A j \in Ids : \A r \in responsePromises'[j] :
          r \in responsePromises[j] /\ status'[r[2]] = status[r[2]]
    <3> SUFFICES ASSUME NEW j \in Ids, NEW r \in responsePromises'[j]
                 PROVE  r \in responsePromises[j] /\ status'[r[2]] = status[r[2]]
      OBVIOUS
    <3>1. r \in responsePromises[j] /\ r[2] \notin settled
      BY <1>2, <1>5
    <3>2. r[2] \in Calls
      BY <3>1 DEF OwnTypeOK
    <3> QED BY <1>1, <3>1, <3>2
  <2> QED BY <1>1, <2>1 DEF ProxyInv, Promises
<1>7. NoOrphanedCall'
  <2> SUFFICES ASSUME NEW k \in Calls, status'[k] = "sent"
               PROVE  \E j \in Ids : connection'[HandlerOf[k]] = j /\ k \in Unsettled(j)'
    BY DEF NoOrphanedCall
  <2>1. k \notin settled /\ status[k] = "sent"
    BY <1>1
  <2>2. PICK j \in Ids : connection[HandlerOf[k]] = j /\ k \in Unsettled(j)
    BY <2>1 DEF ProxyInv, NoOrphanedCall
  <2>3. PICK r \in responsePromises[j] : k = r[2]
    BY <2>2 DEF Unsettled
  <2>4. r \in responsePromises'[j]
    BY <1>1, <2>1, <2>3 DEF OwnTypeOK
  <2> QED BY <1>1, <2>2, <2>3, <2>4 DEF Unsettled
<1> QED BY <1>3, <1>4, <1>6, <1>7 DEF ProxyInv

LEMMA ProxyInvClose ==
  ASSUME ProxiesAssumption, NetP!TypeOK, OwnTypeOK, ProxyInv, SocketClose
  PROVE  ProxyInv'
<1> DEFINE lost == {i \in Ids : channels[i] = "open"}
<1>1. /\ UNCHANGED <<owner, waiting>>
      /\ \A i \in Ids : channels'[i] = "none"
      /\ \A h \in Handlers :
           connection'[h] = IF \E i \in lost : owner[i] = h THEN NoConnection ELSE connection[h]
      /\ \A k \in Calls :
           status'[k] = IF \E i \in lost : k \in Unsettled(i) THEN "rejected" ELSE status[k]
      /\ \A i \in Ids : responsePromises'[i] = IF i \in lost THEN {} ELSE responsePromises[i]
  BY DEF SocketClose, WithoutConnections, WithoutPromises, Net!OpenIds, Ids, Net!ClientClose
<1>2. \A h \in Handlers : connection'[h] = NoConnection
  BY <1>1 DEF ProxyInv, PromiseIsCurrent, OwnTypeOK
<1>3. \A i \in Ids : responsePromises'[i] = {}
  BY <1>1 DEF ProxyInv, Promises
<1>4. \A k \in Calls : status[k] = "sent" => \E i \in lost : k \in Unsettled(i)
  <2> SUFFICES ASSUME NEW k \in Calls, status[k] = "sent"
               PROVE  \E i \in lost : k \in Unsettled(i)
    OBVIOUS
  <2>1. PICK i \in Ids : connection[HandlerOf[k]] = i /\ k \in Unsettled(i)
    BY DEF ProxyInv, NoOrphanedCall
  <2>2. HandlerOf[k] \in Handlers
    BY DEF ProxiesAssumption
  <2>3. channels[i] = "open"
    BY <2>1, <2>2 DEF ProxyInv, PromiseIsCurrent
  <2> QED BY <2>1, <2>3
<1>5. \A k \in Calls : status'[k] # "sent"
  BY <1>1, <1>4
<1>6. \A k \in Calls : status[k] = "waiting" => status'[k] = "waiting"
  <2>1. \A i \in Ids : \A k \in Unsettled(i) : status[k] = "sent"
    BY DEF ProxyInv, Promises, Unsettled
  <2> QED BY <1>1, <2>1
<1>7. PromiseIsCurrent'
  BY <1>1, <1>2 DEF PromiseIsCurrent, ProxiesAssumption, Ids, Net!Ids
<1>8. WaitingCalls'
  <2>1. \A h \in Handlers : \A n \in 1..Len(waiting[h]) :
          /\ HandlerOf[waiting[h][n]] = h /\ status[waiting[h][n]] = "waiting"
          /\ waiting[h][n] \in Calls
    BY DEF ProxyInv, WaitingCalls, OwnTypeOK
  <2>2. \A h \in Handlers : \A n \in 1..Len(waiting[h]) : status'[waiting[h][n]] = "waiting"
    BY <1>6, <2>1
  <2> QED BY <1>1, <2>1, <2>2 DEF ProxyInv, WaitingCalls
<1>9. Promises' /\ NoOrphanedCall'
  BY <1>3, <1>5 DEF Promises, NoOrphanedCall
<1> QED BY <1>7, <1>8, <1>9 DEF ProxyInv

LEMMA ProxyInvStep ==
  ASSUME ProxiesAssumption, NetP!TypeOK, NetP!Bookkeeping, NetP!OneConnectionPerHandler,
         OwnTypeOK, ProxyInv, [Next]_vars
  PROVE  ProxyInv'
<1>1. ASSUME UNCHANGED <<proxyVars, channels, owner>> PROVE ProxyInv'
  BY <1>1 DEF proxyVars, requestVars, ProxyInv, PromiseIsCurrent, WaitingCalls, Promises,
              NoOrphanedCall, Unsettled
<1>2. ASSUME NEW c, ServiceReceive(c) \/ Respond(c) \/ ServiceClose(c)
      PROVE  UNCHANGED <<proxyVars, channels, owner>>
  BY <1>2 DEF ServiceReceive, Respond, ServiceClose, ServiceOpen, ServiceInvoke, ServiceRespond,
              Net!ServerReceiveOpen, Net!ServerReceiveData, Net!ServerSend, Net!ServerClose,
              Net!ServerReceives, Net!clientVars
<1>3. CASE UNCHANGED vars
  BY <1>1, <1>3 DEF vars, netVars
<1>4. CASE ClientReceive
  BY <1>4, ProxyInvReady, ProxyInvResponse DEF ClientReceive
<1>5. CASE \E k \in Calls : CallNow(k) \/ CallLater(k)
  BY <1>5, ProxyInvCallNow, ProxyInvCallLater
<1>6. CASE SocketClose
  BY <1>6, ProxyInvClose
<1>7. CASE Connect \/ \E h \in Handlers : CreateProxy(h)
  BY <1>7, ProxyInvOpening
<1> QED BY <1>1, <1>2, <1>3, <1>4, <1>5, <1>6, <1>7 DEF Next

-----------------------------------------------------------------------------
(* Requests on their way, and what the backend makes of them. *)

\* The call of a data message.
IsData(msg) == msg.kind = "data"
CallIn(msg) == msg.content.call

\* Call k went out under number n on channel i: of all promises, the one of that channel
\* and number, if it is still there, is the promise of k, and k has no other.
Known(i, n, k) ==
  /\ status[k] \notin {"idle", "waiting"}
  /\ n <= sequenceNumber[i]
  /\ \A j \in Ids : \A r \in responsePromises[j] : (j = i /\ r[1] = n) <=> r[2] = k

\* A call on its way to the backend has not been executed, and is on its way once; the
\* channel that it was sent on is gone, or open on the socket that it was sent on.
Upward ==
  /\ \A c \in Conns : \A n \in 1..Len(up[c]) :
       IsData(up[c][n]) =>
         /\ Known(up[c][n].id, up[c][n].content.seq, CallIn(up[c][n]))
         /\ CallIn(up[c][n]) \notin ToSet(executed)
         /\ channels[up[c][n].id] = "none" \/ (channels[up[c][n].id] = "open" /\ c = socket)
  /\ \A c, d \in Conns : \A n \in 1..Len(up[c]), m \in 1..Len(up[d]) :
       IsData(up[c][n]) /\ IsData(up[d][m]) /\ CallIn(up[c][n]) = CallIn(up[d][m])
         => c = d /\ n = m

\* What is served, answered or on its way back was executed, once.
Backward ==
  /\ \A n \in 1..Len(executed) : status[executed[n]] \notin {"idle", "waiting"}
  /\ \A n, m \in 1..Len(executed) : executed[n] = executed[m] => n = m
  /\ \A c \in Conns : \A r \in serving[c] :
       Known(r[1], r[2], r[3]) /\ r[3] \in ToSet(executed)
  /\ \A c \in Conns : \A n \in 1..Len(down[c]) :
       IsData(down[c][n]) =>
         /\ Known(down[c][n].id, down[c][n].content.seq, CallIn(down[c][n]))
         /\ CallIn(down[c][n]) \in ToSet(executed)
  /\ \A k \in Calls :
       /\ status[k] # "answered" => answer[k] = {}
       /\ status[k] = "answered" /\ IsRequest(k) => k \in ToSet(executed)

\* The calls of a handler that come after k.
After(k) == {j \in Calls : HandlerOf[j] = HandlerOf[k] /\ k < j}

\* The calls of a handler are made in order, and wait in order for its connectionPromise.
MadeInOrder ==
  /\ \A k \in Calls :
       /\ status[k] = "idle" => \A j \in After(k) : status[j] = "idle"
       /\ status[k] = "waiting" => /\ k \in ToSet(waiting[HandlerOf[k]])
                                  /\ \A j \in After(k) : status[j] \in {"idle", "waiting"}
  /\ \A h \in Handlers : \A n, m \in 1..Len(waiting[h]) :
       n < m => waiting[h][n] < waiting[h][m]

\* No call overtakes a request whose caller still waits for the answer: the calls after it
\* come after it in the same queue, or are not sent yet.
SentInOrder ==
  \A c \in Conns : \A n \in 1..Len(up[c]) :
    IsData(up[c][n]) /\ status[CallIn(up[c][n])] = "sent" =>
      /\ \A j \in After(CallIn(up[c][n])) : j \notin ToSet(executed)
      /\ \A d \in Conns : \A m \in 1..Len(up[d]) :
           IsData(up[d][m]) /\ CallIn(up[d][m]) \in After(CallIn(up[c][n])) => d = c /\ n < m

LEMMA ToSetIs == ASSUME NEW S, NEW q \in Seq(S) PROVE ToSet(q) = {q[n] : n \in 1..Len(q)}
BY DEF ToSet

LEMMA DataTypes ==
  ASSUME NetP!TypeOK, NEW c \in Conns
  PROVE  /\ up[c] \in Seq(NetP!Message) /\ down[c] \in Seq(NetP!Message)
         /\ \A n \in 1..Len(up[c]) : IsData(up[c][n]) =>
              up[c][n].id \in Ids /\ up[c][n].content.seq \in Nat /\ CallIn(up[c][n]) \in Calls
         /\ \A n \in 1..Len(down[c]) : IsData(down[c][n]) =>
              down[c][n].id \in Ids /\ down[c][n].content.seq \in Nat /\ CallIn(down[c][n]) \in Calls
<1>1. up[c] \in Seq(NetP!Message) /\ down[c] \in Seq(NetP!Message)
  BY SameIds DEF NetP!TypeOK
<1>2. ASSUME NEW msg \in NetP!Message, IsData(msg)
      PROVE  msg.id \in Ids /\ msg.content.seq \in Nat /\ CallIn(msg) \in Calls
  <2>1. msg \in [kind : {"data"}, id : NetP!Ids, content : Contents]
    BY <1>2 DEF NetP!Message, IsData
  <2>2. msg.content \in Contents /\ msg.id \in Ids
    BY <2>1, SameIds
  <2> QED BY <2>2 DEF Contents, CallIn
<1> QED BY <1>1, <1>2

LEMMA IdsAllocated ==
  ASSUME NetP!Wire, NEW c \in Conns, NEW n \in 1..Len(up[c])
  PROVE  up[c][n].id < channelIdSeq
BY SameIds DEF NetP!Wire, NetP!UpOk

\* What is known of a request stays known.
LEMMA KnownDispatch ==
  ASSUME ProxiesAssumption, NetP!TypeOK, OwnTypeOK, Promises, NEW i \in Ids, NEW ks, Dispatch(i, ks),
         NEW g \in Ids, NEW n \in Nat, NEW k \in Calls, Known(g, n, k)
  PROVE  Known(g, n, k)'
<1>1. /\ status[k] \notin {"idle", "waiting"} /\ n <= sequenceNumber[g]
      /\ \A j \in Ids : \A r \in responsePromises[j] : (j = g /\ r[1] = n) <=> r[2] = k
  BY DEF Known
<1>2. \A m \in 1..Len(ks) : ks[m] # k
  BY <1>1 DEF Dispatch
<1>3. k \notin ToSet(ks)
  <2>1. ks \in Seq(Calls)
    BY DEF Dispatch
  <2> QED BY <1>2, <2>1, ToSetIs
<1>4. status'[k] = status[k]
  BY <1>3, DispatchedPromises
<1>5. sequenceNumber[g] \in Nat /\ sequenceNumber'[g] \in Nat /\ sequenceNumber[g] <= sequenceNumber'[g]
  <2>1. sequenceNumber[g] \in Nat
    BY DEF OwnTypeOK
  <2>2. CASE g = i
    BY <2>1, <2>2, DispatchedPromises
  <2>3. CASE g # i
    <3>1. sequenceNumber'[g] = sequenceNumber[g]
      BY <2>3, DispatchedPromises
    <3> QED BY <2>1, <3>1
  <2> QED BY <2>2, <2>3
<1>6. ASSUME NEW j \in Ids, NEW r \in responsePromises'[j]
      PROVE  (j = g /\ r[1] = n) <=> r[2] = k
  <2>1. CASE r \in responsePromises[j]
    BY <1>1, <2>1
  <2>2. CASE r \notin responsePromises[j]
    <3>1. j = i
      BY <2>2, DispatchedPromises
    <3>2. PICK m \in 1..Len(ks) : /\ r = <<Number(i, ks, m), ks[m]>>
                                  /\ Number(i, ks, m) \in Nat
                                  /\ sequenceNumber[i] < Number(i, ks, m)
      BY <2>2, <3>1, DispatchedPromises
    <3>3. r[2] # k /\ (j = g => r[1] # n)
      BY <1>1, <1>2, <1>5, <3>1, <3>2
    <3> QED BY <3>3
  <2> QED BY <2>1, <2>2
<1>7. n <= sequenceNumber'[g]
  BY <1>1, <1>5
<1> QED BY <1>1, <1>4, <1>6, <1>7 DEF Known

LEMMA KnownStep ==
  ASSUME ProxiesAssumption, NetP!TypeOK, NetP!Bookkeeping, OwnTypeOK, ProxyInv, [Next]_vars,
         NEW g \in Ids, NEW n \in Nat, NEW k \in Calls, Known(g, n, k)
  PROVE  Known(g, n, k)'
<1>1. ASSUME UNCHANGED <<status, sequenceNumber, responsePromises>> PROVE Known(g, n, k)'
  BY <1>1 DEF Known
<1>2. ASSUME NEW i \in Ids, Ready(i) PROVE Known(g, n, k)'
  BY <1>2, ReadyDispatches, KnownDispatch DEF ProxyInv
<1>3. ASSUME NEW j \in Calls, CallNow(j) PROVE Known(g, n, k)'
  BY <1>3, CallNowDispatches, KnownDispatch DEF ProxyInv
<1>4. ASSUME NEW j \in Calls, CallLater(j) PROVE Known(g, n, k)'
  BY <1>4 DEF CallLater, requestVars, Known, IsNext, OwnTypeOK
<1>5. ASSUME NEW i \in Ids, NEW m, ReceiveResponse(i, m) PROVE Known(g, n, k)'
  <2>1. /\ sequenceNumber' = sequenceNumber
        /\ status'[k] \in {"answered", status[k]}
        /\ \A j \in Ids : responsePromises'[j] \subseteq responsePromises[j]
    BY <1>5 DEF ReceiveResponse, OwnTypeOK
  <2> QED BY <2>1 DEF Known
<1>6. CASE SocketClose
  <2>1. /\ sequenceNumber' = sequenceNumber
        /\ status'[k] \in {"rejected", status[k]}
        /\ \A j \in Ids : responsePromises'[j] \subseteq responsePromises[j]
    BY <1>6 DEF SocketClose, WithoutPromises, OwnTypeOK
  <2> QED BY <2>1 DEF Known
<1>7. ASSUME NEW c, ServiceReceive(c) \/ Respond(c) \/ ServiceClose(c)
      PROVE  UNCHANGED <<status, sequenceNumber, responsePromises>>
  BY <1>7 DEF ServiceReceive, Respond, ServiceClose, ServiceOpen, ServiceInvoke, ServiceRespond,
              proxyVars, requestVars
<1> QED
  BY <1>1, <1>2, <1>3, <1>4, <1>5, <1>6, <1>7
  DEF Next, ClientReceive, CreateProxy, Connect, vars, proxyVars, requestVars

\* The queues to the backend after a step that sends no call: each has lost its first
\* message or none (s), and has got no data.
UpShifts(s) ==
  \A d \in Conns : \A n \in 1..Len(up'[d]) :
    IsData(up'[d][n]) => n + s[d] \in 1..Len(up[d]) /\ up'[d][n] = up[d][n + s[d]]

\* What a step makes of the channels that messages are on their way for.
ChannelsKeep ==
  \A i \in Ids : i < channelIdSeq =>
    /\ channels[i] = "none" => channels'[i] = "none"
    /\ channels[i] = "open" => channels'[i] = "none" \/ (channels'[i] = "open" /\ socket' = socket)

LEMMA UpwardShifts ==
  ASSUME ProxiesAssumption, NetP!TypeOK, NetP!Wire, Upward,
         NEW s \in [Conns -> {0, 1}], UpShifts(s), ChannelsKeep,
         \A i \in Ids, n \in Nat, k \in Calls : Known(i, n, k) => Known(i, n, k)',
         \A k \in ToSet(executed') :
           \/ k \in ToSet(executed)
           \/ \E c \in Conns : /\ s[c] = 1 /\ 1 \in 1..Len(up[c]) /\ IsData(up[c][1])
                              /\ k = CallIn(up[c][1])
  PROVE  Upward'
<1>0. ASSUME NEW c \in Conns, NEW d \in Conns, NEW n \in 1..Len(up[c]), NEW m \in 1..Len(up[d]),
             IsData(up[c][n]), IsData(up[d][m]), CallIn(up[c][n]) = CallIn(up[d][m])
      PROVE  c = d /\ n = m
  BY <1>0 DEF Upward
<1>1. ASSUME NEW c \in Conns, NEW n \in 1..Len(up'[c]), IsData(up'[c][n])
      PROVE  \E i \in Ids, q \in Nat, k \in Calls :
               /\ up'[c][n].id = i /\ up'[c][n].content.seq = q /\ CallIn(up'[c][n]) = k
               /\ Known(i, q, k)' /\ k \notin ToSet(executed')
               /\ channels'[i] = "none" \/ (channels'[i] = "open" /\ c = socket')
  <2>1. PICK m \in 1..Len(up[c]) : up'[c][n] = up[c][m] /\ IsData(up[c][m]) /\ m = n + s[c]
    BY <1>1 DEF UpShifts
  <2>2. /\ up[c][m].id \in Ids /\ up[c][m].content.seq \in Nat /\ CallIn(up[c][m]) \in Calls
        /\ up[c][m].id < channelIdSeq
    BY <2>1, DataTypes, IdsAllocated
  <2>3. PICK i \in Ids, q \in Nat, k \in Calls :
          /\ i = up[c][m].id /\ q = up[c][m].content.seq /\ k = CallIn(up[c][m])
          /\ i < channelIdSeq
    BY <2>2
  <2>4. /\ Known(i, q, k) /\ k \notin ToSet(executed)
        /\ channels[i] = "none" \/ (channels[i] = "open" /\ c = socket)
    BY <2>1, <2>3 DEF Upward
  <2>5. k \notin ToSet(executed')
    <3> SUFFICES ASSUME NEW d \in Conns, s[d] = 1, 1 \in 1..Len(up[d]), IsData(up[d][1]),
                        k = CallIn(up[d][1])
                 PROVE  FALSE
      BY <2>4
    <3>1. IsData(up[c][m]) /\ CallIn(up[c][m]) = CallIn(up[d][1])
      BY <2>1, <2>3
    <3>2. c = d /\ m = 1
      BY <1>0, <3>1
    <3> QED BY <2>1, <3>2
  <2>6. channels'[i] = "none" \/ (channels'[i] = "open" /\ c = socket')
    BY <2>3, <2>4 DEF ChannelsKeep
  <2>7. Known(i, q, k)'
    BY <2>4
  <2> QED BY <2>1, <2>3, <2>5, <2>6, <2>7
<1>2. ASSUME NEW c \in Conns, NEW d \in Conns, NEW n \in 1..Len(up'[c]), NEW m \in 1..Len(up'[d]),
             IsData(up'[c][n]), IsData(up'[d][m]), CallIn(up'[c][n]) = CallIn(up'[d][m])
      PROVE  c = d /\ n = m
  <2>1. /\ n + s[c] \in 1..Len(up[c]) /\ up'[c][n] = up[c][n + s[c]]
        /\ m + s[d] \in 1..Len(up[d]) /\ up'[d][m] = up[d][m + s[d]]
    BY <1>2 DEF UpShifts
  <2>2. c = d /\ n + s[c] = m + s[d]
    BY <1>0, <1>2, <2>1
  <2>3. s[c] \in {0, 1} /\ n \in Int /\ m \in Int
    OBVIOUS
  <2> QED BY <2>2, <2>3
<1>3. ASSUME NEW c \in Conns, NEW n \in 1..Len(up'[c]), IsData(up'[c][n])
      PROVE  /\ Known(up[c][n].id, up[c][n].content.seq, CallIn(up[c][n]))'
             /\ CallIn(up'[c][n]) \notin ToSet(executed')
             /\ \/ channels'[up'[c][n].id] = "none"
                \/ channels'[up'[c][n].id] = "open" /\ c = socket'
  BY <1>1, <1>3 DEF Known, CallIn
<1> QED BY <1>2, <1>3 DEF Upward, IsData, CallIn

LEMMA ChannelsKeepStep ==
  ASSUME ProxiesAssumption, NetP!TypeOK, NetP!Bookkeeping, OwnTypeOK, ProxyInv, [Next]_vars
  PROVE  ChannelsKeep
<1>1. ASSUME UNCHANGED <<channels, socket>> PROVE ChannelsKeep
  BY <1>1 DEF ChannelsKeep
<1>2. ASSUME NEW h, CreateProxy(h) \/ Connect PROVE ChannelsKeep
  <2>1. \A i \in Ids : i < channelIdSeq => channels'[i] = channels[i]
    BY <1>2, OpeningKeepsOpen
  <2>2. socket' = socket \/ socket = 0
    BY <1>2 DEF CreateProxy, Connect, Net!Listen, Net!Connect
  <2>3. socket = 0 => \A i \in Ids : channels[i] = "none"
    BY SameIds DEF NetP!Bookkeeping
  <2> QED BY <2>1, <2>2, <2>3 DEF ChannelsKeep
<1>3. CASE SocketClose
  BY <1>3 DEF SocketClose, Net!ClientClose, ChannelsKeep, Ids
<1>4. ASSUME NEW i \in Ids, Ready(i) PROVE ChannelsKeep
  <2>1. channels' = [channels EXCEPT ![i] = IF @ = "none" THEN @ ELSE "open"]
    BY <1>4, ReadyDispatches DEF Dispatch
  <2>2. socket' = socket /\ channels \in [Ids -> {"none", "opening", "open"}]
    BY <1>4, SameIds DEF Ready, Net!ClientReceiveReady, Net!ClientReceives, NetP!TypeOK
  <2> QED BY <2>1, <2>2 DEF ChannelsKeep
<1>5. ASSUME NEW k, CallNow(k) \/ CallLater(k) PROVE UNCHANGED <<channels, socket>>
  BY <1>5 DEF CallNow, CallLater, netVars, Net!ClientSend, Net!clientVars
<1>6. ASSUME NEW i, NEW m, ReceiveResponse(i, m) PROVE UNCHANGED <<channels, socket>>
  BY <1>6 DEF ReceiveResponse, Net!ClientReceiveData, Net!ClientReceives
<1>7. ASSUME NEW c, ServiceReceive(c) \/ Respond(c) \/ ServiceClose(c)
      PROVE  UNCHANGED <<channels, socket>>
  BY <1>7 DEF ServiceReceive, Respond, ServiceClose, ServiceOpen, ServiceInvoke, ServiceRespond,
              Net!ServerReceiveOpen, Net!ServerReceiveData, Net!ServerSend, Net!ServerClose,
              Net!ServerReceives, Net!clientVars
<1> QED BY <1>1, <1>2, <1>3, <1>4, <1>5, <1>6, <1>7 DEF Next, ClientReceive, vars, netVars

\* A call that is executed comes from the head of a queue, which loses it.
TakesFrom(s) ==
  \A k \in ToSet(executed') :
    \/ k \in ToSet(executed)
    \/ \E c \in Conns : /\ s[c] = 1 /\ 1 \in 1..Len(up[c]) /\ IsData(up[c][1])
                       /\ k = CallIn(up[c][1])

LEMMA ToSetAppend ==
  ASSUME NEW S, NEW q \in Seq(S), NEW e \in S
  PROVE  ToSet(Append(q, e)) = ToSet(q) \cup {e}
<1>1. /\ Append(q, e) \in Seq(S) /\ Len(q) \in Nat /\ Len(Append(q, e)) = Len(q) + 1
      /\ \A n \in 1..Len(q) + 1 : Append(q, e)[n] = IF n <= Len(q) THEN q[n] ELSE e
  OBVIOUS
<1>2. /\ ToSet(q) = {q[n] : n \in 1..Len(q)}
      /\ ToSet(Append(q, e)) = {Append(q, e)[n] : n \in 1..Len(q) + 1}
  BY <1>1, ToSetIs
<1>3. ASSUME NEW x \in ToSet(q) PROVE x \in ToSet(Append(q, e))
  <2>1. PICK n \in 1..Len(q) : x = q[n]
    BY <1>2
  <2>2. n \in 1..Len(q) + 1 /\ Append(q, e)[n] = x
    BY <1>1, <2>1
  <2> QED BY <1>2, <2>2
<1>4. e \in ToSet(Append(q, e))
  <2>1. Len(q) + 1 \in 1..Len(q) + 1 /\ Append(q, e)[Len(q) + 1] = e
    BY <1>1
  <2> QED BY <1>2, <2>1
<1>5. ASSUME NEW x \in ToSet(Append(q, e)) PROVE x \in ToSet(q) \cup {e}
  <2>1. PICK n \in 1..Len(q) + 1 : x = Append(q, e)[n]
    BY <1>2
  <2>2. CASE n <= Len(q)
    <3>1. n \in 1..Len(q) /\ x = q[n]
      BY <1>1, <2>1, <2>2
    <3> QED BY <1>2, <3>1
  <2>3. CASE ~(n <= Len(q))
    BY <1>1, <2>1, <2>3
  <2> QED BY <2>2, <2>3
<1> QED BY <1>3, <1>4, <1>5

\* The queue that a message is received from loses its head.
LEMMA ReceivingShifts ==
  ASSUME NetP!TypeOK, NEW c \in Conns, NEW msg, Net!ServerReceives(c, msg)
  PROVE  /\ UpShifts([d \in Conns |-> IF d = c THEN 1 ELSE 0])
         /\ 1 \in 1..Len(up[c]) /\ msg = up[c][1]
<1>1. up[c] \in Seq(NetP!Message) /\ up \in [Conns -> Seq(NetP!Message)]
  BY SameIds DEF NetP!TypeOK
<1>2. /\ up[c] # <<>> /\ msg = Head(up[c])
      /\ up' = [up EXCEPT ![c] = Tail(@)]
  BY DEF Net!ServerReceives
<1>3. /\ 1 \in 1..Len(up[c]) /\ Head(up[c]) = up[c][1]
      /\ \A n \in 1..Len(Tail(up[c])) : n + 1 \in 1..Len(up[c]) /\ Tail(up[c])[n] = up[c][n + 1]
  BY <1>1, <1>2, HeadTailProperties
<1>4. ASSUME NEW d \in Conns, NEW n \in 1..Len(up'[d])
      PROVE  /\ n + (IF d = c THEN 1 ELSE 0) \in 1..Len(up[d])
             /\ up'[d][n] = up[d][n + (IF d = c THEN 1 ELSE 0)]
  <2>1. CASE d = c
    <3>1. up'[d] = Tail(up[c])
      BY <1>1, <1>2, <2>1
    <3> QED BY <1>3, <2>1, <3>1
  <2>2. CASE d # c
    <3>1. up'[d] = up[d]
      BY <1>1, <1>2, <2>2
    <3> QED BY <2>2, <3>1
  <2> QED BY <2>1, <2>2
<1> QED BY <1>2, <1>3, <1>4 DEF UpShifts

\* Opening channels puts no data into the queues.
LEMMA OpeningSendsNoData ==
  ASSUME ProxiesAssumption, NetP!TypeOK, NetP!Bookkeeping,
         Connect \/ \E h \in Handlers : CreateProxy(h)
  PROVE  \A d \in Conns : \A n \in 1..Len(up'[d]) :
           IsData(up'[d][n]) => n \in 1..Len(up[d]) /\ up'[d][n] = up[d][n]
<1>1. NetP!ChannelsAssumption /\ Conns = NetP!Conns
  BY ChannelsHold, SameIds
<1>2. ASSUME NEW c \in Conns, NEW hs \in Seq(Handlers), NetP!OpenChannels(c, <<>>, NetP!Ids, hs)
      PROVE  \A d \in Conns : \A n \in 1..Len(up'[d]) :
               IsData(up'[d][n]) => n \in 1..Len(up[d]) /\ up'[d][n] = up[d][n]
  <2> DEFINE opens == [k \in 1..Len(hs) |-> NetP!OpenMessage(channelIdSeq + k - 1, hs[k])]
  <2>1. channelIdSeq \in Nat /\ channelIdSeq + Len(hs) <= MaxChannels
    BY <1>2 DEF NetP!TypeOK, NetP!OpenChannels
  <2>2. opens \in Seq(NetP!Message) /\ Len(opens) = Len(hs)
    <3>1. opens \in Seq(NetP!Message)
      BY <1>1, <2>1, NetP!OpenMessagesType
    <3>2. DOMAIN opens = 1..Len(hs) /\ Len(hs) \in Nat
      OBVIOUS
    <3> QED BY <3>1, <3>2
  <2>3. NetP!SendUp(c, <<>> \o opens)
    BY <1>2 DEF NetP!OpenChannels
  <2>4. \A k \in 1..Len(opens) : ~IsData(opens[k])
    BY <2>2 DEF NetP!OpenMessage, IsData
  <2> HIDE DEF opens
  <2>5. <<>> \o opens = opens
    BY <2>2
  <2>6. \A d \in Conns : \A n \in 1..Len(up'[d]) :
          \/ n \in 1..Len(up[d]) /\ up'[d][n] = up[d][n]
          \/ d = c /\ \E k \in 1..Len(opens) : up'[d][n] = opens[k]
    <3>1. up \in [NetP!Conns -> Seq(NetP!Message)] /\ c \in NetP!Conns /\ NetP!SendUp(c, opens)
      BY <1>1, <2>3, <2>5 DEF NetP!TypeOK
    <3> QED BY <1>1, <2>2, <3>1, NetP!SentUp
  <2> QED BY <2>4, <2>6
<1>3. ASSUME NEW h \in Handlers, CreateProxy(h)
      PROVE  \A d \in Conns : \A n \in 1..Len(up'[d]) :
               IsData(up'[d][n]) => n \in 1..Len(up[d]) /\ up'[d][n] = up[d][n]
  <2>1. NetP!Listen(h)
    BY <1>3, ListenStep
  <2>2. \/ socket # 0 /\ NetP!OpenChannels(socket, <<>>, NetP!Ids, <<h>>)
        \/ up' = up
    BY <2>1 DEF NetP!Listen
  <2>3. socket # 0 => socket \in Conns
    BY <1>1 DEF NetP!TypeOK, NetP!Conns
  <2>4. <<h>> \in Seq(Handlers)
    OBVIOUS
  <2> QED BY <1>2, <2>2, <2>3, <2>4
<1>4. CASE Connect
  <2>1. NetP!Connect
    BY <1>4, ConnectStep
  <2>2. NetP!OpenChannels(connSeq + 1, <<>>, NetP!Ids, listeners) /\ connSeq + 1 \in Conns
    BY <1>1, <2>1 DEF NetP!Connect, NetP!TypeOK, NetP!Conns, NetP!ChannelsAssumption
  <2>3. listeners \in Seq(Handlers)
    BY DEF NetP!TypeOK
  <2> QED BY <1>2, <2>2, <2>3
<1> QED BY <1>3, <1>4

LEMMA ShiftingStep ==
  ASSUME ProxiesAssumption, NetP!TypeOK, NetP!Bookkeeping, OwnTypeOK, ProxyInv, [Next]_vars,
         \A k \in Calls : ~CallNow(k), \A i \in Ids : ~Ready(i)
  PROVE  \E s \in [Conns -> {0, 1}] : UpShifts(s) /\ TakesFrom(s)
<1> DEFINE still == [d \in Conns |-> 0]
           from(c) == [d \in Conns |-> IF d = c THEN 1 ELSE 0]
<1>0. still \in [Conns -> {0, 1}] /\ \A c : from(c) \in [Conns -> {0, 1}]
  OBVIOUS
<1>1. ASSUME executed' = executed, \A d \in Conns : up'[d] \in {up[d], <<>>}
      PROVE  \E s \in [Conns -> {0, 1}] : UpShifts(s) /\ TakesFrom(s)
  <2>1. TakesFrom(still)
    BY <1>1 DEF TakesFrom
  <2>2. UpShifts(still)
    <3> SUFFICES ASSUME NEW d \in Conns, NEW n \in 1..Len(up'[d])
                 PROVE  n + 0 \in 1..Len(up[d]) /\ up'[d][n] = up[d][n + 0]
      BY DEF UpShifts
    <3>1. CASE up'[d] = up[d]
      BY <3>1
    <3>2. CASE up'[d] = <<>>
      BY <3>2
    <3> QED BY <1>1, <3>1, <3>2
  <2> QED BY <1>0, <2>1, <2>2
<1>2. CASE Connect \/ \E h \in Handlers : CreateProxy(h)
  <2>1. executed' = executed
    BY <1>2 DEF CreateProxy, Connect, serviceVars
  <2>2. TakesFrom(still)
    BY <2>1 DEF TakesFrom
  <2>3. UpShifts(still)
    BY <1>2, OpeningSendsNoData DEF UpShifts
  <2> QED BY <1>0, <2>2, <2>3
<1>3. ASSUME NEW c \in Conns, NEW i \in Ids, NEW h, ServiceOpen(c, i, h)
      PROVE  \E s \in [Conns -> {0, 1}] : UpShifts(s) /\ TakesFrom(s)
  <2>1. UpShifts(from(c)) /\ executed' = executed
    BY <1>3, ReceivingShifts DEF ServiceOpen, Net!ServerReceiveOpen, serviceVars
  <2> QED BY <1>0, <2>1 DEF TakesFrom
<1>4. ASSUME NEW c \in Conns, NEW i \in Ids, NEW m \in NextContent(up[c]), ServiceInvoke(c, i, m)
      PROVE  \E s \in [Conns -> {0, 1}] : UpShifts(s) /\ TakesFrom(s)
  <2>1. /\ UpShifts(from(c)) /\ 1 \in 1..Len(up[c]) /\ up[c][1] = Net!DataMessage(i, m)
        /\ executed' \in {executed, Append(executed, m.call)}
    BY <1>4, ReceivingShifts DEF ServiceInvoke, Net!ServerReceiveData, serviceVars
  <2>2. IsData(up[c][1]) /\ CallIn(up[c][1]) = m.call
    BY <2>1 DEF Net!DataMessage, IsData, CallIn
  <2>3. m.call \in Calls
    BY <2>1, <2>2, DataTypes
  <2>4. \A k \in ToSet(executed') : k \in ToSet(executed) \/ k = m.call
    <3>1. ToSet(Append(executed, m.call)) = ToSet(executed) \cup {m.call}
      BY <2>3, ToSetAppend DEF OwnTypeOK
    <3>2. ToSet(executed') \in {ToSet(executed), ToSet(Append(executed, m.call))}
      BY <2>1
    <3> QED BY <3>1, <3>2
  <2>5. TakesFrom(from(c))
    BY <2>1, <2>2, <2>4 DEF TakesFrom
  <2> QED BY <1>0, <2>1, <2>5
<1>5. ASSUME NEW c \in Conns, Respond(c) \/ ServiceClose(c)
      PROVE  \E s \in [Conns -> {0, 1}] : UpShifts(s) /\ TakesFrom(s)
  <2>1. executed' = executed /\ \A d \in Conns : up'[d] \in {up[d], <<>>}
    BY <1>5, SameIds DEF Respond, ServiceRespond, Net!ServerSend, ServiceClose, Net!ServerClose, NetP!TypeOK
  <2> QED BY <1>1, <2>1
<1>6. CASE SocketClose \/ \E k \in Calls : CallLater(k)
  <2>1. executed' = executed /\ up' = up
    BY <1>6 DEF SocketClose, CallLater, Net!ClientClose, netVars, serviceVars
  <2> QED BY <1>1, <2>1
<1>7. ASSUME NEW i, NEW m, ReceiveResponse(i, m)
      PROVE  \E s \in [Conns -> {0, 1}] : UpShifts(s) /\ TakesFrom(s)
  <2>1. executed' = executed /\ up' = up
    BY <1>7 DEF ReceiveResponse, Net!ClientReceiveData, serviceVars
  <2> QED BY <1>1, <2>1
<1>8. CASE UNCHANGED vars
  <2>1. executed' = executed /\ up' = up
    BY <1>8 DEF vars, netVars, serviceVars
  <2> QED BY <1>1, <2>1
<1> HIDE DEF still, from
<1> QED BY <1>2, <1>3, <1>4, <1>5, <1>6, <1>7, <1>8 DEF Next, ClientReceive, ServiceReceive

\* What a step that sends the calls ks on the connection of channel i puts into the queue of
\* the socket: the calls in order, each with its number.
NumberSent(i, ks, m) == IF IsRequest(ks[m]) THEN Number(i, ks, m) ELSE 0

Sends(i, ks) ==
  /\ socket' = socket
  /\ \A d \in Conns : \A n \in 1..Len(up'[d]) :
       \/ n \in 1..Len(up[d]) /\ up'[d][n] = up[d][n]
       \/ /\ d = socket
          /\ \E m \in 1..Len(ks) :
               /\ n = Len(up[d]) + m
               /\ up'[d][n].id = i
               /\ up'[d][n].content.seq = NumberSent(i, ks, m)
               /\ CallIn(up'[d][n]) = ks[m]

LEMMA MessagesSend ==
  ASSUME NetP!TypeOK, OwnTypeOK, NEW i \in Ids, NEW ks \in Seq(Calls), socket # 0, socket' = socket,
         NEW msgs, msgs = [m \in 1..Len(ks) |-> Net!DataMessage(i, Messages(i, ks)[m])],
         Net!SendUp(socket, msgs)
  PROVE  Sends(i, ks)
<1>1. socket \in Conns /\ Conns = NetP!Conns /\ Ids = NetP!Ids
  BY SameIds DEF NetP!TypeOK, NetP!Conns
<1>2. Messages(i, ks) \in Seq(Contents) /\ Len(Messages(i, ks)) = Len(ks) /\ Len(ks) \in Nat
  BY MessagesType DEF OwnTypeOK
<1>3. ASSUME NEW m \in 1..Len(ks)
      PROVE  /\ msgs[m] \in NetP!Message /\ msgs[m].id = i
             /\ msgs[m].content.seq = NumberSent(i, ks, m) /\ CallIn(msgs[m]) = ks[m]
  <2>1. msgs[m] = Net!DataMessage(i, Messages(i, ks)[m]) /\ Messages(i, ks)[m] \in Contents
    BY <1>2
  <2>2. Messages(i, ks)[m] = Request(NumberSent(i, ks, m), ks[m])
    BY DEF Messages, NumberSent
  <2>3. Messages(i, ks)[m].seq = NumberSent(i, ks, m) /\ Messages(i, ks)[m].call = ks[m]
    BY <2>2 DEF Request
  <2> QED BY <1>1, <2>1, <2>3 DEF Net!DataMessage, NetP!Message, CallIn
<1>4. msgs \in Seq(NetP!Message) /\ Len(msgs) = Len(ks)
  <2>1. msgs \in [1..Len(ks) -> NetP!Message]
    BY <1>3
  <2> QED BY <1>2, <2>1
<1>5. ASSUME NEW d \in Conns, NEW n \in 1..Len(up'[d])
      PROVE  \/ n \in 1..Len(up[d]) /\ up'[d][n] = up[d][n]
             \/ d = socket /\ \E m \in 1..Len(msgs) : n = Len(up[d]) + m /\ up'[d][n] = msgs[m]
  <2>0. up \in [Conns -> Seq(NetP!Message)] /\ up[d] \in Seq(NetP!Message)
    BY SameIds DEF NetP!TypeOK
  <2>1. CASE d = socket /\ socket \in sockets'
    <3>1. up'[d] = up[d] \o msgs
      BY <2>0, <2>1 DEF Net!SendUp
    <3>2. /\ Len(up'[d]) = Len(up[d]) + Len(msgs) /\ Len(up[d]) \in Nat /\ Len(msgs) \in Nat
          /\ up'[d][n] = IF n <= Len(up[d]) THEN up[d][n] ELSE msgs[n - Len(up[d])]
      BY <1>4, <2>0, <3>1, ConcatProperties, LenProperties
    <3>3. CASE n <= Len(up[d])
      BY <3>2, <3>3
    <3>4. CASE ~ (n <= Len(up[d]))
      <4>1. /\ n - Len(up[d]) \in 1..Len(msgs) /\ up'[d][n] = msgs[n - Len(up[d])]
            /\ n = Len(up[d]) + (n - Len(up[d]))
        BY <3>2, <3>4
      <4> QED BY <2>1, <4>1
    <3> QED BY <3>3, <3>4
  <2>2. CASE ~ (d = socket /\ socket \in sockets')
    <3>1. up'[d] = up[d]
      BY <2>0, <2>2, <1>1 DEF Net!SendUp
    <3> QED BY <3>1
  <2> QED BY <2>1, <2>2
<1>6. ASSUME NEW d \in Conns, NEW n \in 1..Len(up'[d])
      PROVE  \/ n \in 1..Len(up[d]) /\ up'[d][n] = up[d][n]
             \/ /\ d = socket
                /\ \E m \in 1..Len(ks) :
                     /\ n = Len(up[d]) + m
                     /\ up'[d][n].id = i
                     /\ up'[d][n].content.seq = NumberSent(i, ks, m)
                     /\ CallIn(up'[d][n]) = ks[m]
  <2>1. CASE n \in 1..Len(up[d]) /\ up'[d][n] = up[d][n]
    BY <2>1
  <2>2. CASE d = socket /\ \E m \in 1..Len(msgs) : n = Len(up[d]) + m /\ up'[d][n] = msgs[m]
    <3>1. PICK m \in 1..Len(ks) : n = Len(up[d]) + m /\ up'[d][n] = msgs[m]
      BY <1>4, <2>2
    <3>2. CallIn(up'[d][n]) = ks[m] /\ up'[d][n].id = i
          /\ up'[d][n].content.seq = NumberSent(i, ks, m)
      BY <1>3, <3>1 DEF CallIn
    <3> QED BY <2>2, <3>1, <3>2
  <2> QED BY <1>5, <2>1, <2>2
<1> QED BY <1>6 DEF Sends

LEMMA CallNowSends ==
  ASSUME ProxiesAssumption, NetP!TypeOK, OwnTypeOK, ProxyInv, NEW k \in Calls, CallNow(k)
  PROVE  Sends(connection[HandlerOf[k]], <<k>>)
<1> DEFINE i == connection[HandlerOf[k]]
<1>1. i \in Ids /\ <<k>> \in Seq(Calls) /\ Len(<<k>>) = 1
  <2>1. i \in Ids
    BY CallNowDispatches
  <2> QED BY <2>1
<1>2. /\ socket # 0 /\ socket' = socket
      /\ Net!SendUp(socket, <<Net!DataMessage(i, Messages(i, <<k>>)[1])>>)
  BY DEF CallNow, Net!ClientSend, Net!clientVars
<1> DEFINE msgs == [m \in 1..Len(<<k>>) |-> Net!DataMessage(i, Messages(i, <<k>>)[m])]
<1>3. <<Net!DataMessage(i, Messages(i, <<k>>)[1])>> = msgs
  BY <1>1
<1>4. Net!SendUp(socket, msgs)
  BY <1>2, <1>3
<1> HIDE DEF i
<1>5. Sends(i, <<k>>)
  BY <1>1, <1>2, <1>4, MessagesSend
<1> QED BY <1>5 DEF i

LEMMA ReadySends ==
  ASSUME ProxiesAssumption, NetP!TypeOK, NetP!Bookkeeping, OwnTypeOK, NEW i \in Ids, Ready(i)
  PROVE  Sends(i, Sendable(i))
<1> DEFINE ks == Sendable(i)
           ms == Messages(i, ks)
<1>1. ks \in Seq(Calls) /\ Len(ms) = Len(ks)
  BY SendableType, MessagesType DEF OwnTypeOK
<1>2. /\ Net!ClientReceiveReady(i, ms)
      /\ socket # 0 /\ socket' = socket
  BY DEF Ready, Sendable, Net!ClientReceiveReady, Net!ClientReceives
<1>3. \/ Net!SendUp(socket, [m \in 1..Len(ms) |-> Net!DataMessage(i, ms[m])])
      \/ up' = up
  BY <1>2 DEF Net!ClientReceiveReady
<1>4. CASE up' = up
  BY <1>2, <1>4 DEF Sends
<1>5. CASE Net!SendUp(socket, [m \in 1..Len(ms) |-> Net!DataMessage(i, ms[m])])
  <2> DEFINE msgs == [m \in 1..Len(ks) |-> Net!DataMessage(i, Messages(i, ks)[m])]
  <2>1. Net!SendUp(socket, msgs)
    BY <1>1, <1>5
  <2> QED BY <1>1, <1>2, <2>1, MessagesSend
<1> QED BY <1>3, <1>4, <1>5

LEMMA DispatchKnows ==
  ASSUME ProxiesAssumption, NetP!TypeOK, OwnTypeOK, Promises, NEW i \in Ids, NEW ks, Dispatch(i, ks),
         NEW m \in 1..Len(ks)
  PROVE  \E n \in Nat : n = NumberSent(i, ks, m) /\ Known(i, n, ks[m])'
<1> DEFINE q == NumberSent(i, ks, m)
<1>1. Promises' /\ ks[m] \in Calls /\ status'[ks[m]] = AfterSend(ks[m])
  BY DispatchKeepsPromises, DispatchedPromises
<1>2. status[ks[m]] # "sent" /\ \A n \in 1..Len(ks) : ks[n] = ks[m] => n = m
  BY DEF Dispatch
<1>3. PICK n \in Nat : n = q /\ n <= sequenceNumber'[i]
  <2>1. sequenceNumber[i] \in Nat /\ sequenceNumber'[i] \in Nat
    BY DispatchedPromises DEF OwnTypeOK
  <2>2. CASE IsRequest(ks[m])
    <3>1. <<Number(i, ks, m), ks[m]>> \in responsePromises'[i]
      BY <2>2, DispatchedPromises
    <3>2. <<Number(i, ks, m), ks[m]>> \notin responsePromises[i]
      BY <1>2 DEF Promises
    <3>3. PICK p \in 1..Len(ks) : /\ <<Number(i, ks, m), ks[m]>> = <<Number(i, ks, p), ks[p]>>
                                  /\ Number(i, ks, p) \in Nat
                                  /\ Number(i, ks, p) <= sequenceNumber'[i]
      BY <3>1, <3>2, DispatchedPromises
    <3> QED BY <2>2, <3>3 DEF NumberSent
  <2>3. CASE ~IsRequest(ks[m])
    BY <2>1, <2>3 DEF NumberSent
  <2> QED BY <2>2, <2>3
<1>4. ASSUME NEW j \in Ids, NEW r \in responsePromises'[j]
      PROVE  (j = i /\ r[1] = n) <=> r[2] = ks[m]
  <2>1. CASE r[2] = ks[m]
    <3>1. IsRequest(ks[m]) /\ n = Number(i, ks, m)
      BY <1>1, <1>3, <2>1 DEF Promises, NumberSent
    <3>2. r \notin responsePromises[j]
      BY <1>2, <2>1 DEF Promises
    <3>3. j = i
      BY <3>2, DispatchedPromises
    <3>4. PICK p \in 1..Len(ks) : r = <<Number(i, ks, p), ks[p]>>
      BY <3>2, <3>3, DispatchedPromises
    <3> QED BY <1>2, <2>1, <3>1, <3>3, <3>4
  <2>2. CASE j = i /\ r[1] = n
    <3>1. 1 <= r[1]
      BY <1>1 DEF Promises
    <3>2. IsRequest(ks[m]) /\ n = Number(i, ks, m)
      BY <1>3, <2>2, <3>1 DEF NumberSent
    <3>3. <<Number(i, ks, m), ks[m]>> \in responsePromises'[i]
      BY <3>2, DispatchedPromises
    <3> QED BY <1>1, <2>2, <3>2, <3>3 DEF Promises
  <2> QED BY <2>1, <2>2
<1>5. Known(i, n, ks[m])'
  BY <1>1, <1>3, <1>4 DEF Known, AfterSend
<1> QED BY <1>3, <1>5

LEMMA DispatchUpward ==
  ASSUME ProxiesAssumption, NetP!TypeOK, NetP!Bookkeeping, NetP!Wire, OwnTypeOK, ProxyInv, Upward,
         Backward, [Next]_vars, NEW i \in Ids, NEW ks, Dispatch(i, ks), Sends(i, ks)
  PROVE  Upward'
<1>0. /\ ks \in Seq(Calls) /\ executed' = executed /\ socket' = socket
      /\ \A m \in 1..Len(ks) : status[ks[m]] \in {"idle", "waiting"} /\ ks[m] \in Calls
      /\ \A m, p \in 1..Len(ks) : ks[m] = ks[p] => m = p
  BY DEF Dispatch, Sends, serviceVars
<1>1. ASSUME NEW d \in Conns, NEW n \in 1..Len(up'[d])
      PROVE  \/ n \in 1..Len(up[d]) /\ up'[d][n] = up[d][n]
             \/ /\ d = socket
                /\ \E m \in 1..Len(ks) :
                     /\ n = Len(up[d]) + m /\ up'[d][n].id = i
                     /\ up'[d][n].content.seq = NumberSent(i, ks, m)
                     /\ CallIn(up'[d][n]) = ks[m]
  BY DEF Sends
<1>2. ASSUME NEW c \in Conns, NEW n \in 1..Len(up[c]), IsData(up[c][n])
      PROVE  \E g \in Ids, q \in Nat, k \in Calls :
               /\ up[c][n].id = g /\ up[c][n].content.seq = q /\ CallIn(up[c][n]) = k
               /\ Known(g, q, k)' /\ k \notin ToSet(executed')
               /\ channels'[g] = "none" \/ (channels'[g] = "open" /\ c = socket')
               /\ \A m \in 1..Len(ks) : ks[m] # k
  <2>1. PICK g \in Ids, q \in Nat, k \in Calls :
          /\ g = up[c][n].id /\ q = up[c][n].content.seq /\ k = CallIn(up[c][n])
          /\ g < channelIdSeq
    BY <1>2, DataTypes, IdsAllocated
  <2>2. /\ Known(g, q, k) /\ k \notin ToSet(executed)
        /\ channels[g] = "none" \/ (channels[g] = "open" /\ c = socket)
    BY <1>2, <2>1 DEF Upward
  <2>3. Known(g, q, k)'
    BY <2>2, KnownStep
  <2>4. channels'[g] = "none" \/ (channels'[g] = "open" /\ c = socket')
    BY <2>1, <2>2, ChannelsKeepStep DEF ChannelsKeep
  <2>5. \A m \in 1..Len(ks) : ks[m] # k
    BY <1>0, <2>2 DEF Known
  <2> QED BY <1>0, <2>1, <2>2, <2>3, <2>4, <2>5
<1>3. ASSUME NEW m \in 1..Len(ks)
      PROVE  /\ \E q \in Nat : q = NumberSent(i, ks, m) /\ Known(i, q, ks[m])'
             /\ ks[m] \notin ToSet(executed') /\ channels'[i] = "open"
  <2>1. \E q \in Nat : q = NumberSent(i, ks, m) /\ Known(i, q, ks[m])'
    BY DispatchKnows DEF ProxyInv
  <2>2. ks[m] \notin ToSet(executed)
    <3>1. ToSet(executed) = {executed[n] : n \in 1..Len(executed)}
      BY ToSetIs DEF OwnTypeOK
    <3>2. \A n \in 1..Len(executed) : status[executed[n]] \notin {"idle", "waiting"}
      BY DEF Backward
    <3> QED BY <1>0, <3>1, <3>2
  <2>3. channels'[i] = "open"
    <3>1. ks # <<>>
      BY <1>0
    <3>2. channels \in [Ids -> {"none", "opening", "open"}]
      BY SameIds DEF NetP!TypeOK
    <3> QED BY <3>1, <3>2 DEF Dispatch
  <2> QED BY <1>0, <2>1, <2>2, <2>3
<1>4. ASSUME NEW c \in Conns, NEW n \in 1..Len(up'[c]), IsData(up'[c][n])
      PROVE  \E g \in Ids, q \in Nat, k \in Calls :
               /\ up'[c][n].id = g /\ up'[c][n].content.seq = q /\ CallIn(up'[c][n]) = k
               /\ Known(g, q, k)' /\ k \notin ToSet(executed')
               /\ channels'[g] = "none" \/ (channels'[g] = "open" /\ c = socket')
  <2>1. CASE n \in 1..Len(up[c]) /\ up'[c][n] = up[c][n]
    BY <1>2, <1>4, <2>1
  <2>2. CASE ~(n \in 1..Len(up[c]) /\ up'[c][n] = up[c][n])
    <3>1. /\ c = socket
          /\ \E m \in 1..Len(ks) : /\ n = Len(up[c]) + m /\ up'[c][n].id = i
                                   /\ up'[c][n].content.seq = NumberSent(i, ks, m)
                                   /\ CallIn(up'[c][n]) = ks[m]
      BY <1>1, <2>2
    <3>2. PICK m \in 1..Len(ks) : /\ up'[c][n].id = i
                                  /\ up'[c][n].content.seq = NumberSent(i, ks, m)
                                  /\ CallIn(up'[c][n]) = ks[m]
      BY <3>1
    <3>3. PICK q \in Nat : q = NumberSent(i, ks, m) /\ Known(i, q, ks[m])'
      BY <1>3
    <3>4. PICK k \in Calls : k = ks[m]
      BY <1>0
    <3>5. Known(i, q, k)'
      BY <3>3, <3>4
    <3> QED BY <1>0, <1>3, <3>1, <3>2, <3>3, <3>4, <3>5
  <2> QED BY <2>1, <2>2
<1>5. ASSUME NEW c \in Conns, NEW d \in Conns, NEW n \in 1..Len(up'[c]), NEW m \in 1..Len(up'[d]),
             IsData(up'[c][n]), IsData(up'[d][m]), CallIn(up'[c][n]) = CallIn(up'[d][m])
      PROVE  c = d /\ n = m
  <2>1. CASE n \in 1..Len(up[c]) /\ up'[c][n] = up[c][n] /\ m \in 1..Len(up[d]) /\ up'[d][m] = up[d][m]
    BY <1>5, <2>1 DEF Upward
  <2>2. CASE n \in 1..Len(up[c]) /\ up'[c][n] = up[c][n] /\ ~(m \in 1..Len(up[d]) /\ up'[d][m] = up[d][m])
    <3>1. PICK p \in 1..Len(ks) : CallIn(up'[d][m]) = ks[p]
      BY <1>1, <2>2
    <3>2. ks[p] # CallIn(up[c][n])
      BY <1>2, <1>5, <2>2
    <3> QED BY <1>5, <2>2, <3>1, <3>2
  <2>3. CASE m \in 1..Len(up[d]) /\ up'[d][m] = up[d][m] /\ ~(n \in 1..Len(up[c]) /\ up'[c][n] = up[c][n])
    <3>1. PICK p \in 1..Len(ks) : CallIn(up'[c][n]) = ks[p]
      BY <1>1, <2>3
    <3>2. ks[p] # CallIn(up[d][m])
      BY <1>2, <1>5, <2>3
    <3> QED BY <1>5, <2>3, <3>1, <3>2
  <2>4. CASE /\ ~(n \in 1..Len(up[c]) /\ up'[c][n] = up[c][n])
             /\ ~(m \in 1..Len(up[d]) /\ up'[d][m] = up[d][m])
    <3>1. /\ c = socket /\ d = socket
          /\ \E p \in 1..Len(ks) : n = Len(up[c]) + p /\ CallIn(up'[c][n]) = ks[p]
          /\ \E p \in 1..Len(ks) : m = Len(up[d]) + p /\ CallIn(up'[d][m]) = ks[p]
      BY <1>1, <2>4
    <3> QED BY <1>0, <1>5, <3>1
  <2> QED BY <2>1, <2>2, <2>3, <2>4
<1>6. ASSUME NEW c \in Conns, NEW n \in 1..Len(up'[c]), IsData(up'[c][n])
      PROVE  /\ Known(up[c][n].id, up[c][n].content.seq, CallIn(up[c][n]))'
             /\ CallIn(up'[c][n]) \notin ToSet(executed')
             /\ \/ channels'[up'[c][n].id] = "none"
                \/ channels'[up'[c][n].id] = "open" /\ c = socket'
  BY <1>4, <1>6 DEF Known, CallIn
<1> QED BY <1>5, <1>6 DEF Upward, IsData, CallIn

LEMMA UpwardStep ==
  ASSUME ProxiesAssumption, NetP!TypeOK, NetP!Bookkeeping, NetP!Wire, OwnTypeOK, ProxyInv, Upward,
         Backward, [Next]_vars
  PROVE  Upward'
<1>1. ASSUME NEW k \in Calls, CallNow(k) PROVE Upward'
  <2>1. PICK i \in Ids : i = connection[HandlerOf[k]]
    BY <1>1, CallNowDispatches
  <2>2. Dispatch(i, <<k>>) /\ Sends(i, <<k>>)
    BY <1>1, <2>1, CallNowDispatches, CallNowSends
  <2> QED BY <2>2, DispatchUpward
<1>2. ASSUME NEW i \in Ids, Ready(i) PROVE Upward'
  <2>1. Dispatch(i, Sendable(i)) /\ Sends(i, Sendable(i))
    BY <1>2, ReadyDispatches, ReadySends
  <2> QED BY <2>1, DispatchUpward
<1>3. CASE (\A k \in Calls : ~CallNow(k)) /\ (\A i \in Ids : ~Ready(i))
  <2>1. PICK s \in [Conns -> {0, 1}] : UpShifts(s) /\ TakesFrom(s)
    BY <1>3, ShiftingStep
  <2>2. \A i \in Ids, n \in Nat, k \in Calls : Known(i, n, k) => Known(i, n, k)'
    BY KnownStep
  <2>3. ChannelsKeep
    BY ChannelsKeepStep
  <2> QED BY <2>1, <2>2, <2>3, UpwardShifts DEF TakesFrom
<1> QED BY <1>1, <1>2, <1>3

\* A call that was sent is not made again.
LEMMA StatusStep ==
  ASSUME ProxiesAssumption, NetP!TypeOK, NetP!Bookkeeping, OwnTypeOK, ProxyInv, [Next]_vars,
         NEW k \in Calls, status[k] \notin {"idle", "waiting"}
  PROVE  status'[k] \notin {"idle", "waiting"}
<1>1. ASSUME NEW i \in Ids, NEW ks, Dispatch(i, ks) PROVE status'[k] \notin {"idle", "waiting"}
  BY <1>1 DEF Dispatch, AfterSend
<1>2. ASSUME NEW i \in Ids, Ready(i) PROVE status'[k] \notin {"idle", "waiting"}
  BY <1>1, <1>2, ReadyDispatches
<1>3. ASSUME NEW j \in Calls, CallNow(j) PROVE status'[k] \notin {"idle", "waiting"}
  BY <1>1, <1>3, CallNowDispatches
<1>4. ASSUME NEW j \in Calls, CallLater(j) PROVE status'[k] \notin {"idle", "waiting"}
  BY <1>4 DEF CallLater, IsNext, OwnTypeOK
<1>5. ASSUME NEW i, NEW m, ReceiveResponse(i, m) PROVE status'[k] \notin {"idle", "waiting"}
  BY <1>5 DEF ReceiveResponse
<1>6. CASE SocketClose
  BY <1>6 DEF SocketClose
<1>7. ASSUME NEW c, ServiceReceive(c) \/ Respond(c) \/ ServiceClose(c) PROVE status' = status
  BY <1>7 DEF ServiceReceive, Respond, ServiceClose, ServiceOpen, ServiceInvoke, ServiceRespond,
              proxyVars
<1> QED
  BY <1>2, <1>3, <1>4, <1>5, <1>6, <1>7
  DEF Next, ClientReceive, CreateProxy, Connect, vars, proxyVars

\* What ServiceInvoke begins comes from the head of a queue.
LEMMA InvokeTakes ==
  ASSUME NetP!TypeOK, NEW c \in Conns, NEW i \in Ids, NEW m, ServiceInvoke(c, i, m)
  PROVE  /\ 1 \in 1..Len(up[c]) /\ IsData(up[c][1])
         /\ up[c][1].id = i /\ up[c][1].content.seq = m.seq /\ CallIn(up[c][1]) = m.call
         /\ m.seq \in Nat /\ m.call \in Calls
<1>1. 1 \in 1..Len(up[c]) /\ up[c][1] = Net!DataMessage(i, m)
  BY ReceivingShifts DEF ServiceInvoke, Net!ServerReceiveData
<1>2. IsData(up[c][1]) /\ up[c][1].id = i /\ up[c][1].content = m
  BY <1>1 DEF Net!DataMessage, IsData
<1>3. up[c][1].content.seq \in Nat /\ CallIn(up[c][1]) \in Calls
  BY <1>1, <1>2, DataTypes
<1> QED BY <1>1, <1>2, <1>3 DEF CallIn

LEMMA ExecutedStep ==
  ASSUME ProxiesAssumption, NetP!TypeOK, NetP!Bookkeeping, OwnTypeOK, ProxyInv, [Next]_vars
  PROVE  \/ executed' = executed
         \/ \E c \in Conns, k \in Calls : /\ 1 \in 1..Len(up[c]) /\ IsData(up[c][1])
                                         /\ k = CallIn(up[c][1])
                                         /\ executed' = Append(executed, k)
<1>1. ASSUME NEW i \in Ids, Ready(i) PROVE executed' = executed
  BY <1>1 DEF Ready, serviceVars
<1>2. ASSUME NEW k, CallNow(k) \/ CallLater(k) PROVE executed' = executed
  BY <1>2 DEF CallNow, CallLater, serviceVars
<1>3. ASSUME NEW i, NEW m, ReceiveResponse(i, m) PROVE executed' = executed
  BY <1>3 DEF ReceiveResponse, serviceVars
<1>4. CASE SocketClose
  BY <1>4 DEF SocketClose, serviceVars
<1>5. ASSUME NEW c, Respond(c) \/ ServiceClose(c) PROVE executed' = executed
  BY <1>5 DEF Respond, ServiceClose, ServiceRespond
<1>6. ASSUME NEW c, NEW i, NEW h, ServiceOpen(c, i, h) PROVE executed' = executed
  BY <1>6 DEF ServiceOpen, serviceVars
<1>7. ASSUME NEW c \in Conns, NEW i \in Ids, NEW m, ServiceInvoke(c, i, m)
      PROVE  \/ executed' = executed
             \/ \E k \in Calls : /\ 1 \in 1..Len(up[c]) /\ IsData(up[c][1])
                                 /\ k = CallIn(up[c][1])
                                 /\ executed' = Append(executed, k)
  <2>1. executed' = executed \/ executed' = Append(executed, m.call)
    BY <1>7 DEF ServiceInvoke, serviceVars
  <2> QED BY <1>7, <2>1, InvokeTakes
<1> QED
  BY <1>1, <1>2, <1>3, <1>4, <1>5, <1>6, <1>7
  DEF Next, ClientReceive, ServiceReceive, CreateProxy, Connect, vars, serviceVars

\* Upward and Backward make a call's execution the first one.
LEMMA ExecutedGrows ==
  ASSUME ProxiesAssumption, NetP!TypeOK, NetP!Bookkeeping, OwnTypeOK, ProxyInv, Upward, [Next]_vars
  PROVE  /\ ToSet(executed) \subseteq ToSet(executed')
         /\ \/ executed' = executed
            \/ \E c \in Conns, k \in Calls :
                 /\ 1 \in 1..Len(up[c]) /\ IsData(up[c][1]) /\ k = CallIn(up[c][1])
                 /\ executed' = Append(executed, k) /\ ToSet(executed') = ToSet(executed) \cup {k}
                 /\ k \notin ToSet(executed) /\ status[k] \notin {"idle", "waiting"}
<1>1. CASE executed' = executed
  BY <1>1
<1>2. CASE executed' # executed
  <2>1. PICK c \in Conns, k \in Calls :
          /\ 1 \in 1..Len(up[c]) /\ IsData(up[c][1]) /\ k = CallIn(up[c][1])
          /\ executed' = Append(executed, k)
    BY <1>2, ExecutedStep
  <2>2. k \notin ToSet(executed) /\ status[k] \notin {"idle", "waiting"}
    BY <2>1 DEF Upward, Known
  <2>3. ToSet(Append(executed, k)) = ToSet(executed) \cup {k}
    BY ToSetAppend DEF OwnTypeOK
  <2>4. ToSet(executed') = ToSet(executed) \cup {k}
    BY <2>1, <2>3
  <2> QED BY <2>1, <2>2, <2>4
<1> QED BY <1>1, <1>2

LEMMA ExecutedOnce ==
  ASSUME ProxiesAssumption, NetP!TypeOK, NetP!Bookkeeping, OwnTypeOK, ProxyInv, Upward, Backward,
         [Next]_vars
  PROVE  /\ \A n \in 1..Len(executed') : status'[executed'[n]] \notin {"idle", "waiting"}
         /\ \A n, m \in 1..Len(executed') : executed'[n] = executed'[m] => n = m
<1>1. /\ executed \in Seq(Calls) /\ Len(executed) \in Nat
      /\ \A n \in 1..Len(executed) : executed[n] \in Calls /\ executed[n] \in ToSet(executed)
      /\ \A n \in 1..Len(executed) : status[executed[n]] \notin {"idle", "waiting"}
      /\ \A n, m \in 1..Len(executed) : executed[n] = executed[m] => n = m
  <2>1. executed \in Seq(Calls) /\ ToSet(executed) = {executed[n] : n \in 1..Len(executed)}
    BY ToSetIs DEF OwnTypeOK
  <2> QED BY <2>1 DEF Backward
<1>2. \A n \in 1..Len(executed) : status'[executed[n]] \notin {"idle", "waiting"}
  BY <1>1, StatusStep
<1>3. CASE executed' = executed
  BY <1>1, <1>2, <1>3
<1>4. CASE executed' # executed
  <2>1. PICK k \in Calls : /\ executed' = Append(executed, k)
                           /\ k \notin ToSet(executed) /\ status[k] \notin {"idle", "waiting"}
    BY <1>4, ExecutedGrows
  <2>2. status'[k] \notin {"idle", "waiting"}
    BY <2>1, StatusStep
  <2>3. /\ Len(executed') = Len(executed) + 1
        /\ \A n \in 1..Len(executed') : executed'[n] = IF n <= Len(executed) THEN executed[n] ELSE k
    BY <1>1, <2>1
  <2>4. \A n \in 1..Len(executed') :
          \/ n \in 1..Len(executed) /\ executed'[n] = executed[n]
          \/ n = Len(executed) + 1 /\ executed'[n] = k
    BY <1>1, <2>3
  <2>5. \A n \in 1..Len(executed') : status'[executed'[n]] \notin {"idle", "waiting"}
    BY <1>2, <2>2, <2>4
  <2>6. \A n \in 1..Len(executed) : executed[n] # k
    BY <1>1, <2>1
  <2>7. \A n, m \in 1..Len(executed') : executed'[n] = executed'[m] => n = m
    BY <1>1, <2>4, <2>6
  <2> QED BY <2>5, <2>7
<1> QED BY <1>3, <1>4

LEMMA ServingStep ==
  ASSUME NetP!TypeOK, OwnTypeOK, [Next]_vars, NEW c \in Conns, NEW r \in serving'[c]
  PROVE  \/ r \in serving[c]
         \/ /\ 1 \in 1..Len(up[c]) /\ IsData(up[c][1])
            /\ r = <<up[c][1].id, up[c][1].content.seq, CallIn(up[c][1])>>
            /\ executed' = Append(executed, CallIn(up[c][1])) /\ CallIn(up[c][1]) \in Calls
<1>1. CASE serving' = serving
  BY <1>1
<1>2. ASSUME NEW d \in Conns, Respond(d) \/ ServiceClose(d) PROVE r \in serving[c]
  BY <1>2 DEF Respond, ServiceClose, ServiceRespond, OwnTypeOK
<1>3. ASSUME NEW d \in Conns, NEW i \in Ids, NEW m, ServiceInvoke(d, i, m)
      PROVE  \/ r \in serving[c]
             \/ /\ 1 \in 1..Len(up[c]) /\ IsData(up[c][1])
                /\ r = <<up[c][1].id, up[c][1].content.seq, CallIn(up[c][1])>>
                /\ executed' = Append(executed, CallIn(up[c][1])) /\ CallIn(up[c][1]) \in Calls
  <2>1. /\ serving \in [Conns -> SUBSET (Ids \X Nat \X Calls)]
        /\ \/ serving' = serving
           \/ /\ serving' = [serving EXCEPT ![d] = @ \cup {<<i, m.seq, m.call>>}]
              /\ executed' = Append(executed, m.call)
    BY <1>3 DEF ServiceInvoke, serviceVars, OwnTypeOK
  <2>2. r \in serving[c] \/ (c = d /\ r = <<i, m.seq, m.call>> /\ executed' = Append(executed, m.call))
    BY <2>1
  <2>3. /\ 1 \in 1..Len(up[d]) /\ IsData(up[d][1])
        /\ up[d][1].id = i /\ up[d][1].content.seq = m.seq /\ CallIn(up[d][1]) = m.call
        /\ m.call \in Calls
    BY <1>3, InvokeTakes
  <2> QED BY <2>2, <2>3
<1>4. ASSUME NEW d, NEW i, NEW h, ServiceOpen(d, i, h) PROVE serving' = serving
  BY <1>4 DEF ServiceOpen, serviceVars
<1>5. CASE Connect \/ SocketClose \/ ClientReceive \/ UNCHANGED vars
            \/ (\E h \in Handlers : CreateProxy(h)) \/ \E k \in Calls : CallNow(k) \/ CallLater(k)
  <2>1. serving' = serving
    BY <1>5 DEF CreateProxy, Connect, SocketClose, ClientReceive, Ready, ReceiveResponse, CallNow,
                CallLater, vars, serviceVars
  <2> QED BY <1>1, <2>1
<1> QED BY <1>1, <1>2, <1>3, <1>4, <1>5 DEF Next, ServiceReceive

LEMMA DownStep ==
  ASSUME NetP!TypeOK, OwnTypeOK, [Next]_vars, NEW c \in Conns, NEW n \in 1..Len(down'[c]),
         IsData(down'[c][n])
  PROVE  \/ \E m \in 1..Len(down[c]) : down'[c][n] = down[c][m]
         \/ \E r \in serving[c] : /\ down'[c][n].id = r[1] /\ down'[c][n].content.seq = r[2]
                                 /\ CallIn(down'[c][n]) = r[3]
<1>0. /\ down \in [Conns -> Seq(NetP!Message)] /\ down[c] \in Seq(NetP!Message)
      /\ Conns = NetP!Conns /\ socket \in 0..MaxConns
  BY SameIds DEF NetP!TypeOK
<1>1. CASE down'[c] = down[c]
  BY <1>1
<1>2. CASE down'[c] = <<>>
  BY <1>2
<1>3. CASE down[c] # <<>> /\ down'[c] = Tail(down[c])
  <2>1. n + 1 \in 1..Len(down[c]) /\ down'[c][n] = down[c][n + 1]
    BY <1>0, <1>3, HeadTailProperties
  <2> QED BY <2>1
<1>4. ASSUME NEW msg, down'[c] = Append(down[c], msg)
      PROVE  (\E m \in 1..Len(down[c]) : down'[c][n] = down[c][m]) \/ down'[c][n] = msg
  BY <1>0, <1>4
<1>5. CASE SocketClose
  <2>1. down' = [down EXCEPT ![socket] = <<>>]
    BY <1>5 DEF SocketClose, Net!ClientClose
  <2> QED BY <1>0, <1>1, <1>2, <2>1
<1>6. CASE ClientReceive
  <2>1. down[socket] # <<>> /\ down' = [down EXCEPT ![socket] = Tail(@)]
    BY <1>6 DEF ClientReceive, Ready, ReceiveResponse, Net!ClientReceiveReady,
                Net!ClientReceiveData, Net!ClientReceives
  <2> QED BY <1>0, <1>1, <1>3, <2>1
<1>7. ASSUME NEW d \in Conns, NEW i \in Ids, NEW h \in Handlers, ServiceOpen(d, i, h)
      PROVE  \E m \in 1..Len(down[c]) : down'[c][n] = down[c][m]
  <2>1. down' = down \/ Net!SendDown(d, Net!ReadyMessage(i))
    BY <1>7 DEF ServiceOpen, Net!ServerReceiveOpen
  <2>2. down'[c] = down[c] \/ down'[c] = Append(down[c], Net!ReadyMessage(i))
    BY <1>0, <2>1 DEF Net!SendDown
  <2>3. down'[c][n] # Net!ReadyMessage(i)
    BY DEF IsData, Net!ReadyMessage
  <2> QED BY <1>1, <1>4, <2>2, <2>3
<1>8. ASSUME NEW d \in Conns, NEW i \in Ids, NEW m, ServiceInvoke(d, i, m) PROVE down' = down
  BY <1>8 DEF ServiceInvoke, Net!ServerReceiveData
<1>9. ASSUME NEW d \in Conns, Respond(d)
      PROVE  \/ \E m \in 1..Len(down[c]) : down'[c][n] = down[c][m]
             \/ \E r \in serving[c] : /\ down'[c][n].id = r[1] /\ down'[c][n].content.seq = r[2]
                                     /\ CallIn(down'[c][n]) = r[3]
  <2>1. PICK r \in serving[d] : Net!SendDown(d, Net!DataMessage(r[1], Response(r[2], r[3])))
    BY <1>9 DEF Respond, ServiceRespond, Net!ServerSend
  <2> DEFINE msg == Net!DataMessage(r[1], Response(r[2], r[3]))
  <2>2. msg.id = r[1] /\ msg.content.seq = r[2] /\ CallIn(msg) = r[3]
    BY DEF Net!DataMessage, Response, CallIn
  <2>3. down'[c] = down[c] \/ (c = d /\ down'[c] = Append(down[c], msg))
    BY <1>0, <2>1 DEF Net!SendDown
  <2> HIDE DEF msg
  <2>4. CASE c = d /\ down'[c] = Append(down[c], msg)
    <3>1. (\E m \in 1..Len(down[c]) : down'[c][n] = down[c][m]) \/ down'[c][n] = msg
      BY <1>4, <2>4
    <3>2. CASE down'[c][n] = msg
      BY <2>2, <2>4, <3>2 DEF CallIn
    <3> QED BY <3>1, <3>2
  <2> QED BY <1>1, <2>3, <2>4
<1>10. CASE \/ Connect \/ UNCHANGED vars \/ \E h \in Handlers : CreateProxy(h)
            \/ \E k \in Calls : CallNow(k) \/ CallLater(k)
            \/ \E d \in Conns : ServiceClose(d)
  <2>1. down' = down
    BY <1>10 DEF CreateProxy, Connect, Net!Listen, Net!Connect, CallNow, Net!ClientSend, CallLater,
                 vars, netVars, ServiceClose, Net!ServerClose
  <2> QED BY <1>1, <2>1
<1> QED BY <1>1, <1>5, <1>6, <1>7, <1>8, <1>9, <1>10 DEF Next, ServiceReceive

\* A response settles no call but its own, which was executed.
LEMMA ResponseSettles ==
  ASSUME NetP!TypeOK, OwnTypeOK, Promises, Backward, NEW i \in Ids, NEW m, ReceiveResponse(i, m)
  PROVE  /\ m.call \in ToSet(executed) /\ m.call \in Calls
         /\ \A k \in Calls : <<m.seq, k>> \in responsePromises[i] =>
              k = m.call /\ status[k] = "sent" /\ IsRequest(k)
<1>1. /\ socket # 0 /\ down[socket] # <<>> /\ Head(down[socket]) = Net!DataMessage(i, m)
  BY DEF ReceiveResponse, Net!ClientReceiveData, Net!ClientReceives
<1>2. PICK c \in Conns : c = socket
  BY <1>1, SameIds DEF NetP!TypeOK, NetP!Conns
<1>3. down[c] \in Seq(NetP!Message) /\ down[c] # <<>>
  BY <1>1, <1>2, DataTypes
<1>4. 1 \in 1..Len(down[c]) /\ down[c][1] = Net!DataMessage(i, m)
  BY <1>1, <1>2, <1>3, HeadTailProperties
<1>5. IsData(down[c][1]) /\ down[c][1].id = i /\ down[c][1].content = m
  BY <1>4 DEF Net!DataMessage, IsData
<1>6. Known(i, m.seq, m.call) /\ m.call \in ToSet(executed)
  BY <1>4, <1>5 DEF Backward, CallIn
<1>7. m.call \in Calls
  BY <1>4, <1>5, DataTypes DEF CallIn
<1>8. ASSUME NEW k \in Calls, <<m.seq, k>> \in responsePromises[i]
      PROVE  k = m.call /\ status[k] = "sent" /\ IsRequest(k)
  BY <1>6, <1>8 DEF Known, Promises
<1> QED BY <1>6, <1>7, <1>8

LEMMA AnswerStep ==
  ASSUME ProxiesAssumption, NetP!TypeOK, NetP!Bookkeeping, OwnTypeOK, ProxyInv, Backward,
         [Next]_vars, NEW k \in Calls
  PROVE  /\ status'[k] # "answered" => answer'[k] = {}
         /\ status'[k] = "answered" /\ IsRequest(k) => k \in ToSet(executed)
<1>0. /\ status[k] # "answered" => answer[k] = {}
      /\ status[k] = "answered" /\ IsRequest(k) => k \in ToSet(executed)
  BY DEF Backward
<1>1. CASE UNCHANGED <<status, answer>>
  BY <1>0, <1>1
<1>2. ASSUME NEW i \in Ids, NEW ks, Dispatch(i, ks)
      PROVE  /\ status'[k] # "answered" => answer'[k] = {}
             /\ status'[k] = "answered" /\ IsRequest(k) => k \in ToSet(executed)
  <2>1. /\ answer' = answer
        /\ status'[k] = IF k \in ToSet(ks) THEN AfterSend(k) ELSE status[k]
        /\ k \in ToSet(ks) => status[k] \in {"idle", "waiting"}
    <3>1. ToSet(ks) = {ks[n] : n \in 1..Len(ks)}
      BY <1>2, ToSetIs DEF Dispatch
    <3>2. \A n \in 1..Len(ks) : status[ks[n]] \in {"idle", "waiting"}
      BY <1>2 DEF Dispatch
    <3>3. /\ answer' = answer
          /\ status' = [j \in Calls |-> IF j \in ToSet(ks) THEN AfterSend(j) ELSE status[j]]
      BY <1>2 DEF Dispatch
    <3> QED BY <3>1, <3>2, <3>3
  <2> QED BY <1>0, <2>1 DEF AfterSend
<1>3. ASSUME NEW i \in Ids, Ready(i)
      PROVE  /\ status'[k] # "answered" => answer'[k] = {}
             /\ status'[k] = "answered" /\ IsRequest(k) => k \in ToSet(executed)
  BY <1>2, <1>3, ReadyDispatches
<1>4. ASSUME NEW j \in Calls, CallNow(j)
      PROVE  /\ status'[k] # "answered" => answer'[k] = {}
             /\ status'[k] = "answered" /\ IsRequest(k) => k \in ToSet(executed)
  BY <1>2, <1>4, CallNowDispatches
<1>5. ASSUME NEW j \in Calls, CallLater(j)
      PROVE  /\ status'[k] # "answered" => answer'[k] = {}
             /\ status'[k] = "answered" /\ IsRequest(k) => k \in ToSet(executed)
  BY <1>0, <1>5 DEF CallLater, IsNext, OwnTypeOK
<1>6. ASSUME NEW i \in Ids, NEW m, ReceiveResponse(i, m)
      PROVE  /\ status'[k] # "answered" => answer'[k] = {}
             /\ status'[k] = "answered" /\ IsRequest(k) => k \in ToSet(executed)
  <2>1. CASE <<m.seq, k>> \in responsePromises[i]
    <3>1. k \in ToSet(executed)
      BY <1>6, <2>1, ResponseSettles DEF ProxyInv
    <3>2. status'[k] = "answered"
      BY <1>6, <2>1 DEF ReceiveResponse
    <3> QED BY <3>1, <3>2
  <2>2. CASE <<m.seq, k>> \notin responsePromises[i]
    <3>1. status'[k] = status[k] /\ answer'[k] = answer[k]
      BY <1>6, <2>2 DEF ReceiveResponse, OwnTypeOK
    <3> QED BY <1>0, <3>1
  <2> QED BY <2>1, <2>2
<1>7. CASE SocketClose
  <2>1. /\ answer' = answer
        /\ status'[k] = IF \E i \in Net!OpenIds : k \in Unsettled(i) THEN "rejected" ELSE status[k]
    BY <1>7 DEF SocketClose
  <2>2. ASSUME NEW i \in Net!OpenIds, k \in Unsettled(i) PROVE status[k] = "sent"
    BY <2>2 DEF Unsettled, ProxyInv, Promises, Net!OpenIds, Ids
  <2> QED BY <1>0, <2>1, <2>2
<1>8. ASSUME NEW c, ServiceReceive(c) \/ Respond(c) \/ ServiceClose(c)
      PROVE  UNCHANGED <<status, answer>>
  BY <1>8 DEF ServiceReceive, Respond, ServiceClose, ServiceOpen, ServiceInvoke, ServiceRespond,
              proxyVars
<1> QED
  BY <1>1, <1>3, <1>4, <1>5, <1>6, <1>7, <1>8
  DEF Next, ClientReceive, CreateProxy, Connect, vars, proxyVars

LEMMA BackwardStep ==
  ASSUME ProxiesAssumption, NetP!TypeOK, NetP!Bookkeeping, OwnTypeOK, ProxyInv, Upward, Backward,
         [Next]_vars
  PROVE  Backward'
<1>1. ToSet(executed) \subseteq ToSet(executed')
  BY ExecutedGrows
<1>2. ASSUME NEW c \in Conns, NEW r \in serving'[c]
      PROVE  Known(r[1], r[2], r[3])' /\ r[3] \in ToSet(executed')
  <2>1. CASE r \in serving[c]
    <3>1. Known(r[1], r[2], r[3]) /\ r[3] \in ToSet(executed)
      BY <2>1 DEF Backward
    <3>2. r[1] \in Ids /\ r[2] \in Nat /\ r[3] \in Calls
      BY <2>1 DEF OwnTypeOK
    <3>3. Known(r[1], r[2], r[3])'
      BY <3>1, <3>2, KnownStep
    <3> QED BY <1>1, <3>1, <3>3
  <2>2. CASE r \notin serving[c]
    <3>1. /\ 1 \in 1..Len(up[c]) /\ IsData(up[c][1])
          /\ r = <<up[c][1].id, up[c][1].content.seq, CallIn(up[c][1])>>
          /\ executed' = Append(executed, CallIn(up[c][1])) /\ CallIn(up[c][1]) \in Calls
      BY <2>2, ServingStep
    <3>2. Known(r[1], r[2], r[3])
      BY <3>1 DEF Upward
    <3>3. r[1] \in Ids /\ r[2] \in Nat /\ r[3] \in Calls
      BY <3>1, DataTypes
    <3>4. Known(r[1], r[2], r[3])'
      BY <3>2, <3>3, KnownStep
    <3>5. executed \in Seq(Calls) /\ executed' = Append(executed, r[3])
      BY <3>1 DEF OwnTypeOK
    <3>6. ToSet(Append(executed, r[3])) = ToSet(executed) \cup {r[3]}
      BY <3>3, <3>5, ToSetAppend
    <3> QED BY <3>4, <3>5, <3>6
  <2> QED BY <2>1, <2>2
<1>3. ASSUME NEW c \in Conns, NEW n \in 1..Len(down'[c]), IsData(down'[c][n])
      PROVE  \E g \in Ids, q \in Nat, k \in Calls :
               /\ down'[c][n].id = g /\ down'[c][n].content.seq = q /\ CallIn(down'[c][n]) = k
               /\ Known(g, q, k)' /\ k \in ToSet(executed')
  <2>1. \E g \in Ids, q \in Nat, k \in Calls :
          /\ down'[c][n].id = g /\ down'[c][n].content.seq = q /\ CallIn(down'[c][n]) = k
          /\ Known(g, q, k) /\ k \in ToSet(executed)
    <3>1. ASSUME NEW m \in 1..Len(down[c]), down'[c][n] = down[c][m]
          PROVE  \E g \in Ids, q \in Nat, k \in Calls :
                   /\ down'[c][n].id = g /\ down'[c][n].content.seq = q /\ CallIn(down'[c][n]) = k
                   /\ Known(g, q, k) /\ k \in ToSet(executed)
      <4>1. /\ down[c][m].id \in Ids /\ down[c][m].content.seq \in Nat
            /\ CallIn(down[c][m]) \in Calls
        BY <1>3, <3>1, DataTypes
      <4>2. /\ Known(down[c][m].id, down[c][m].content.seq, CallIn(down[c][m]))
            /\ CallIn(down[c][m]) \in ToSet(executed)
        BY <1>3, <3>1 DEF Backward
      <4> QED BY <3>1, <4>1, <4>2
    <3>2. ASSUME NEW r \in serving[c], down'[c][n].id = r[1], down'[c][n].content.seq = r[2],
                 CallIn(down'[c][n]) = r[3]
          PROVE  \E g \in Ids, q \in Nat, k \in Calls :
                   /\ down'[c][n].id = g /\ down'[c][n].content.seq = q /\ CallIn(down'[c][n]) = k
                   /\ Known(g, q, k) /\ k \in ToSet(executed)
      <4>1. r[1] \in Ids /\ r[2] \in Nat /\ r[3] \in Calls
        BY DEF OwnTypeOK
      <4>2. Known(r[1], r[2], r[3]) /\ r[3] \in ToSet(executed)
        BY DEF Backward
      <4> QED BY <3>2, <4>1, <4>2
    <3> QED BY <1>3, <3>1, <3>2, DownStep
  <2>2. PICK g \in Ids, q \in Nat, k \in Calls :
          /\ down'[c][n].id = g /\ down'[c][n].content.seq = q /\ CallIn(down'[c][n]) = k
          /\ Known(g, q, k) /\ k \in ToSet(executed)
    BY <2>1
  <2>3. Known(g, q, k)'
    BY <2>2, KnownStep
  <2> QED BY <1>1, <2>2, <2>3
<1>4. ASSUME NEW c \in Conns, NEW n \in 1..Len(down'[c]), IsData(down'[c][n])
      PROVE  /\ Known(down[c][n].id, down[c][n].content.seq, CallIn(down[c][n]))'
             /\ CallIn(down'[c][n]) \in ToSet(executed')
  BY <1>3, <1>4 DEF Known, CallIn
<1>5. ASSUME NEW k \in Calls
      PROVE  /\ status'[k] # "answered" => answer'[k] = {}
             /\ status'[k] = "answered" /\ IsRequest(k) => k \in ToSet(executed')
  BY <1>1, AnswerStep
<1>6. /\ \A n \in 1..Len(executed') : status'[executed'[n]] \notin {"idle", "waiting"}
      /\ \A n, m \in 1..Len(executed') : executed'[n] = executed'[m] => n = m
  BY ExecutedOnce
<1> QED BY <1>2, <1>4, <1>5, <1>6 DEF Backward, IsData, CallIn

-----------------------------------------------------------------------------
(* The order of a handler's calls. *)

\* A step that sends no call: no promise becomes one that waits for an answer.
LEMMA SentWas ==
  ASSUME ProxiesAssumption, NetP!TypeOK, NetP!Bookkeeping, OwnTypeOK, ProxyInv, [Next]_vars,
         \A k \in Calls : ~CallNow(k), \A i \in Ids : ~Ready(i),
         NEW k \in Calls, status'[k] = "sent"
  PROVE  status[k] = "sent"
<1>1. ASSUME NEW j \in Calls, CallLater(j) PROVE status[k] = "sent"
  BY <1>1 DEF CallLater, OwnTypeOK
<1>2. ASSUME NEW i, NEW m, ReceiveResponse(i, m) PROVE status[k] = "sent"
  BY <1>2 DEF ReceiveResponse
<1>3. CASE SocketClose
  BY <1>3 DEF SocketClose
<1>4. ASSUME NEW c, ServiceReceive(c) \/ Respond(c) \/ ServiceClose(c) PROVE status' = status
  BY <1>4 DEF ServiceReceive, Respond, ServiceClose, ServiceOpen, ServiceInvoke, ServiceRespond,
              proxyVars
<1> QED
  BY <1>1, <1>2, <1>3, <1>4 DEF Next, ClientReceive, CreateProxy, Connect, vars, proxyVars

LEMMA MadeInOrderSame ==
  ASSUME MadeInOrder, waiting' = waiting,
         \A k \in Calls : \/ status'[k] = status[k]
                          \/ status[k] \notin {"idle", "waiting"} /\ status'[k] \notin {"idle", "waiting"}
  PROVE  MadeInOrder'
BY DEF MadeInOrder, After

LEMMA MadeInOrderStep ==
  ASSUME ProxiesAssumption, NetP!TypeOK, NetP!Bookkeeping, OwnTypeOK, ProxyInv, MadeInOrder,
         [Next]_vars
  PROVE  MadeInOrder'
<1>0. \A k \in Calls : \A j \in After(k) : j \in Calls /\ HandlerOf[j] = HandlerOf[k] /\ k < j
  BY DEF After
<1>1. CASE UNCHANGED <<status, waiting>>
  BY <1>1, MadeInOrderSame
<1>2. ASSUME NEW k \in Calls, CallNow(k) PROVE MadeInOrder'
  <2>1. /\ waiting' = waiting /\ waiting[HandlerOf[k]] = <<>>
        /\ status' = [status EXCEPT ![k] = AfterSend(k)] /\ status[k] = "idle"
        /\ \A j \in Calls : j < k /\ HandlerOf[j] = HandlerOf[k] => status[j] # "idle"
    BY <1>2 DEF CallNow, IsNext, ProxyInv, PromiseIsCurrent, ProxiesAssumption
  <2>2. ASSUME NEW j \in Calls, status'[j] \in {"idle", "waiting"}
        PROVE  status[j] = status'[j] /\ k \notin After(j)
    <3>1. j # k /\ status[j] = status'[j]
      BY <2>1, <2>2 DEF OwnTypeOK, AfterSend
    <3>2. CASE status[j] = "idle"
      BY <2>1, <3>1, <3>2 DEF After
    <3>3. CASE status[j] = "waiting"
      <4>1. j \in ToSet(waiting[HandlerOf[j]])
        BY <3>3 DEF MadeInOrder
      <4>2. HandlerOf[j] # HandlerOf[k]
        BY <2>1, <4>1 DEF ToSet
      <4> QED BY <3>1, <4>2 DEF After
    <3> QED BY <2>2, <3>1, <3>2, <3>3
  <2>3. \A j \in Calls : j # k => status'[j] = status[j]
    BY <2>1 DEF OwnTypeOK
  <2>4. ASSUME NEW j \in Calls, status'[j] \in {"idle", "waiting"}
        PROVE  /\ status'[j] = status[j]
               /\ \A l \in After(j) : status'[l] = status[l]
    BY <1>0, <2>2, <2>3, <2>4
  <2>5. \A j \in Calls :
          /\ status'[j] = "idle" => \A l \in After(j) : status'[l] = "idle"
          /\ status'[j] = "waiting" => /\ j \in ToSet(waiting[HandlerOf[j]])
                                      /\ \A l \in After(j) : status'[l] \in {"idle", "waiting"}
    BY <2>4 DEF MadeInOrder
  <2> QED BY <2>1, <2>5 DEF MadeInOrder, After
<1>3. ASSUME NEW k \in Calls, CallLater(k) PROVE MadeInOrder'
  <2> DEFINE h == HandlerOf[k]
  <2>1. /\ waiting' = [waiting EXCEPT ![h] = Append(@, k)] /\ h \in Handlers
        /\ status' = [status EXCEPT ![k] = "waiting"] /\ status[k] = "idle"
        /\ \A j \in Calls : j < k /\ HandlerOf[j] = HandlerOf[k] => status[j] # "idle"
        /\ waiting \in [Handlers -> Seq(Calls)] /\ Calls \subseteq Nat
        /\ \A j \in Calls : HandlerOf[j] \in Handlers
    BY <1>3 DEF CallLater, IsNext, OwnTypeOK, ProxiesAssumption
  <2>2. /\ \A j \in Calls : j # k => status'[j] = status[j]
        /\ status'[k] = "waiting"
    BY <2>1 DEF OwnTypeOK
  <2>3. ToSet(Append(waiting[h], k)) = ToSet(waiting[h]) \cup {k}
    BY <2>1, ToSetAppend
  <2>4. ASSUME NEW j \in Calls, status'[j] = "idle", NEW l \in After(j) PROVE status'[l] = "idle"
    <3>1. j # k /\ status[j] = "idle"
      BY <2>2, <2>4
    <3>2. l # k
      BY <2>1, <3>1 DEF After
    <3>3. status[l] = "idle"
      BY <3>1 DEF MadeInOrder
    <3> QED BY <1>0, <2>2, <3>2, <3>3
  <2>5. ASSUME NEW j \in Calls, status'[j] = "waiting"
        PROVE  /\ j \in ToSet(waiting'[HandlerOf[j]])
               /\ \A l \in After(j) : status'[l] \in {"idle", "waiting"}
    <3>1. CASE j = k
      <4>1. \A l \in After(k) : status[l] = "idle" /\ l # k
        BY <2>1 DEF MadeInOrder, After
      <4> QED BY <1>0, <2>1, <2>2, <2>3, <3>1, <4>1
    <3>2. CASE j # k
      <4>1. status[j] = "waiting"
        BY <2>2, <2>5, <3>2
      <4>2. /\ j \in ToSet(waiting[HandlerOf[j]])
            /\ \A l \in After(j) : status[l] \in {"idle", "waiting"}
        BY <4>1 DEF MadeInOrder
      <4>3. waiting'[HandlerOf[j]] \in {waiting[HandlerOf[j]], Append(waiting[h], k)}
            /\ (waiting'[HandlerOf[j]] # waiting[HandlerOf[j]] => HandlerOf[j] = h)
        BY <2>1
      <4>4. j \in ToSet(waiting'[HandlerOf[j]])
        BY <2>3, <4>2, <4>3
      <4> QED BY <1>0, <2>2, <4>2, <4>4
    <3> QED BY <3>1, <3>2
  <2>6. ASSUME NEW g \in Handlers, NEW n \in 1..Len(waiting'[g]), NEW m \in 1..Len(waiting'[g]), n < m
        PROVE  waiting'[g][n] < waiting'[g][m]
    <3>1. CASE g # h
      <4>1. waiting'[g] = waiting[g]
        BY <2>1, <3>1
      <4> QED BY <2>6, <4>1 DEF MadeInOrder
    <3>2. CASE g = h
      <4>1. waiting[h] \in Seq(Calls) /\ waiting'[h] = Append(waiting[h], k)
        BY <2>1
      <4>2. /\ Len(waiting[h]) \in Nat /\ Len(waiting'[h]) = Len(waiting[h]) + 1
            /\ \A p \in 1..Len(waiting'[h]) :
                 waiting'[h][p] = IF p <= Len(waiting[h]) THEN waiting[h][p] ELSE k
        BY <4>1
      <4>3. n \in 1..Len(waiting[h]) /\ waiting'[h][n] = waiting[h][n]
        BY <2>6, <3>2, <4>2
      <4>4. CASE m <= Len(waiting[h])
        <5>1. m \in 1..Len(waiting[h]) /\ waiting'[h][m] = waiting[h][m]
          BY <3>2, <4>2, <4>4
        <5> QED BY <2>1, <2>6, <3>2, <4>3, <5>1 DEF MadeInOrder
      <4>5. CASE ~(m <= Len(waiting[h]))
        <5>1. waiting'[h][m] = k
          BY <3>2, <4>2, <4>5
        <5>2. /\ HandlerOf[waiting[h][n]] = h /\ status[waiting[h][n]] = "waiting"
              /\ waiting[h][n] \in Calls
          BY <2>1, <4>1, <4>3 DEF ProxyInv, WaitingCalls
        <5>3. waiting[h][n] # k /\ waiting[h][n] \notin After(k)
          BY <2>1, <5>2 DEF MadeInOrder
        <5>4. ~(k < waiting[h][n])
          BY <5>2, <5>3 DEF After
        <5>5. waiting[h][n] \in Nat /\ k \in Nat
          BY <2>1, <5>2
        <5> QED BY <3>2, <4>3, <5>1, <5>3, <5>4, <5>5
      <4> QED BY <4>4, <4>5
    <3> QED BY <3>1, <3>2
  <2> QED BY <2>4, <2>5, <2>6 DEF MadeInOrder, After
<1>4. ASSUME NEW i \in Ids, Ready(i) PROVE MadeInOrder'
  <2> DEFINE h == owner[i]
             isNew == channels[i] # "none" /\ connection[h] = NoConnection
  <2>1. /\ waiting' = IF isNew THEN [waiting EXCEPT ![h] = <<>>] ELSE waiting
        /\ status' = [k \in Calls |-> IF k \in ToSet(Sendable(i)) THEN AfterSend(k) ELSE status[k]]
        /\ waiting \in [Handlers -> Seq(Calls)]
        /\ \A j \in Calls : HandlerOf[j] \in Handlers
    BY <1>4 DEF Ready, Sendable, OwnTypeOK, ProxiesAssumption
  <2>2. CASE isNew
    <3>1. h \in Handlers /\ Sendable(i) = waiting[h] /\ waiting' = [waiting EXCEPT ![h] = <<>>]
      BY <2>1, <2>2, SendableType DEF Sendable
    <3>2. \A k \in ToSet(waiting[h]) : k \in Calls /\ HandlerOf[k] = h /\ status[k] = "waiting"
      <4>1. ToSet(waiting[h]) = {waiting[h][n] : n \in 1..Len(waiting[h])} /\ waiting[h] \in Seq(Calls)
        BY <2>1, <3>1, ToSetIs
      <4>2. \A n \in 1..Len(waiting[h]) :
              /\ HandlerOf[waiting[h][n]] = h /\ status[waiting[h][n]] = "waiting"
              /\ waiting[h][n] \in Calls
        BY <3>1, <4>1 DEF ProxyInv, WaitingCalls
      <4> QED BY <4>1, <4>2
    <3>3. /\ \A k \in Calls : k \notin ToSet(waiting[h]) => status'[k] = status[k]
          /\ \A k \in ToSet(waiting[h]) : status'[k] \notin {"idle", "waiting"}
      BY <2>1, <3>1, <3>2 DEF AfterSend
    <3>4. ASSUME NEW j \in Calls, status'[j] = "idle", NEW l \in After(j) PROVE status'[l] = "idle"
      <4>1. status[j] = "idle"
        BY <3>3, <3>4
      <4>2. status[l] = "idle"
        BY <4>1 DEF MadeInOrder
      <4> QED BY <1>0, <3>2, <3>3, <4>2
    <3>5. ASSUME NEW j \in Calls, status'[j] = "waiting"
          PROVE  /\ j \in ToSet(waiting'[HandlerOf[j]])
                 /\ \A l \in After(j) : status'[l] \in {"idle", "waiting"}
      <4>1. status[j] = "waiting" /\ j \notin ToSet(waiting[h])
        BY <3>3, <3>5
      <4>2. /\ j \in ToSet(waiting[HandlerOf[j]])
            /\ \A l \in After(j) : status[l] \in {"idle", "waiting"}
        BY <4>1 DEF MadeInOrder
      <4>3. HandlerOf[j] # h
        BY <4>1, <4>2
      <4>4. waiting'[HandlerOf[j]] = waiting[HandlerOf[j]]
        BY <2>1, <3>1, <4>3
      <4>5. \A l \in After(j) : l \notin ToSet(waiting[h])
        BY <1>0, <3>2, <4>3
      <4> QED BY <1>0, <3>3, <4>2, <4>4, <4>5
    <3>6. ASSUME NEW g \in Handlers, NEW n \in 1..Len(waiting'[g]), NEW m \in 1..Len(waiting'[g]), n < m
          PROVE  waiting'[g][n] < waiting'[g][m]
      <4>1. waiting'[g] = <<>> \/ waiting'[g] = waiting[g]
        BY <2>1, <3>1
      <4>2. waiting'[g] # <<>>
        BY <3>6
      <4> QED BY <3>6, <4>1, <4>2 DEF MadeInOrder
    <3> QED BY <3>4, <3>5, <3>6 DEF MadeInOrder, After
  <2>3. CASE ~isNew
    <3>1. waiting' = waiting /\ ToSet(Sendable(i)) = {}
      BY <2>1, <2>3 DEF Sendable, ToSet
    <3>2. \A k \in Calls : status'[k] = status[k]
      BY <2>1, <3>1
    <3> QED BY <3>1, <3>2, MadeInOrderSame
  <2> QED BY <2>2, <2>3
<1>5. ASSUME NEW i \in Ids, NEW m, ReceiveResponse(i, m) PROVE MadeInOrder'
  <2>1. waiting' = waiting
    BY <1>5 DEF ReceiveResponse
  <2>2. ASSUME NEW k \in Calls
        PROVE  \/ status'[k] = status[k]
               \/ status[k] = "sent" /\ status'[k] = "answered"
    <3>1. CASE <<m.seq, k>> \in responsePromises[i]
      <4>1. status'[k] = "answered"
        BY <1>5, <3>1 DEF ReceiveResponse
      <4>2. status[k] = "sent"
        BY <3>1 DEF ProxyInv, Promises
      <4> QED BY <4>1, <4>2
    <3>2. CASE <<m.seq, k>> \notin responsePromises[i]
      BY <1>5, <3>2 DEF ReceiveResponse
    <3> QED BY <3>1, <3>2
  <2> QED BY <2>1, <2>2, MadeInOrderSame
<1>6. CASE SocketClose
  <2>1. waiting' = waiting
    BY <1>6 DEF SocketClose
  <2>2. ASSUME NEW k \in Calls
        PROVE  \/ status'[k] = status[k]
               \/ status[k] = "sent" /\ status'[k] = "rejected"
    <3>1. status'[k] = IF \E i \in Net!OpenIds : k \in Unsettled(i) THEN "rejected" ELSE status[k]
      BY <1>6 DEF SocketClose
    <3>2. ASSUME NEW i \in Net!OpenIds, k \in Unsettled(i) PROVE status[k] = "sent"
      BY <3>2 DEF Unsettled, ProxyInv, Promises, Net!OpenIds, Ids
    <3> QED BY <3>1, <3>2
  <2> QED BY <2>1, <2>2, MadeInOrderSame
<1>7. ASSUME NEW c, ServiceReceive(c) \/ Respond(c) \/ ServiceClose(c)
      PROVE  UNCHANGED <<status, waiting>>
  BY <1>7 DEF ServiceReceive, Respond, ServiceClose, ServiceOpen, ServiceInvoke, ServiceRespond,
              proxyVars
<1> QED
  BY <1>1, <1>2, <1>3, <1>4, <1>5, <1>6, <1>7
  DEF Next, ClientReceive, CreateProxy, Connect, vars, proxyVars

LEMMA SentInOrderShifts ==
  ASSUME NetP!TypeOK, SentInOrder, NEW s \in [Conns -> {0, 1}], UpShifts(s), TakesFrom(s),
         \A k \in Calls : status'[k] = "sent" => status[k] = "sent"
  PROVE  SentInOrder'
<1> SUFFICES ASSUME NEW c \in Conns, NEW n \in 1..Len(up'[c]), IsData(up'[c][n]),
                    status'[CallIn(up'[c][n])] = "sent"
             PROVE  /\ \A j \in After(CallIn(up'[c][n])) : j \notin ToSet(executed')
                    /\ \A d \in Conns : \A m \in 1..Len(up'[d]) :
                         IsData(up'[d][m]) /\ CallIn(up'[d][m]) \in After(CallIn(up'[c][n]))
                           => d = c /\ n < m
  BY DEF SentInOrder, IsData, CallIn, After
<1>1. /\ n + s[c] \in 1..Len(up[c]) /\ up'[c][n] = up[c][n + s[c]]
      /\ IsData(up[c][n + s[c]])
  BY DEF UpShifts
<1>2. PICK k \in Calls : k = CallIn(up'[c][n])
  BY <1>1, DataTypes
<1>3. CallIn(up[c][n + s[c]]) = k /\ status[k] = "sent"
  BY <1>1, <1>2
<1>4. /\ \A j \in After(k) : j \notin ToSet(executed)
      /\ \A d \in Conns : \A m \in 1..Len(up[d]) :
           IsData(up[d][m]) /\ CallIn(up[d][m]) \in After(k) => d = c /\ n + s[c] < m
  BY <1>1, <1>3 DEF SentInOrder
<1>5. s[c] \in {0, 1} /\ n \in Nat /\ n >= 1
  OBVIOUS
<1>6. ASSUME NEW j \in After(k) PROVE j \notin ToSet(executed')
  <2> SUFFICES ASSUME j \in ToSet(executed') PROVE FALSE
    OBVIOUS
  <2>1. PICK d \in Conns : 1 \in 1..Len(up[d]) /\ IsData(up[d][1]) /\ j = CallIn(up[d][1])
    BY <1>4 DEF TakesFrom
  <2>2. n + s[c] < 1
    BY <1>4, <2>1
  <2> QED BY <1>5, <2>2
<1>7. ASSUME NEW d \in Conns, NEW m \in 1..Len(up'[d]), IsData(up'[d][m]),
             CallIn(up'[d][m]) \in After(k)
      PROVE  d = c /\ n < m
  <2>1. m + s[d] \in 1..Len(up[d]) /\ up'[d][m] = up[d][m + s[d]]
    BY <1>7 DEF UpShifts
  <2>2. d = c /\ n + s[c] < m + s[d]
    BY <1>4, <1>7, <2>1
  <2> QED BY <1>5, <2>2
<1> QED BY <1>2, <1>6, <1>7

LEMMA DispatchInOrder ==
  ASSUME ProxiesAssumption, NetP!TypeOK, NetP!Wire, OwnTypeOK, ProxyInv, Upward, Backward,
         MadeInOrder, SentInOrder, NEW i \in Ids, NEW ks, Dispatch(i, ks), Sends(i, ks),
         \A p, q \in 1..Len(ks) : p < q => ks[p] < ks[q]
  PROVE  SentInOrder'
<1>0. /\ ks \in Seq(Calls) /\ executed' = executed /\ Calls \subseteq Nat
      /\ \A m \in 1..Len(ks) : /\ status[ks[m]] \in {"idle", "waiting"} /\ ks[m] \in Calls
                              /\ HandlerOf[ks[m]] = owner[i]
  BY DEF Dispatch, serviceVars, ProxiesAssumption
<1>1. ASSUME NEW d \in Conns, NEW n \in 1..Len(up'[d])
      PROVE  \/ n \in 1..Len(up[d]) /\ up'[d][n] = up[d][n]
             \/ d = socket /\ \E p \in 1..Len(ks) : n = Len(up[d]) + p /\ CallIn(up'[d][n]) = ks[p]
  BY DEF Sends
\* The calls that were on their way before, and those that are sent now.
<1>2. ASSUME NEW d \in Conns, NEW n \in 1..Len(up[d]), IsData(up[d][n])
      PROVE  status[CallIn(up[d][n])] \notin {"idle", "waiting"} /\ CallIn(up[d][n]) \in Calls
  BY <1>2, DataTypes DEF Upward, Known
<1>3. ASSUME NEW p \in 1..Len(ks), NEW j \in After(ks[p])
      PROVE  status[j] \in {"idle", "waiting"} /\ j \notin ToSet(executed)
  <2>1. status[j] \in {"idle", "waiting"}
    BY <1>0 DEF MadeInOrder
  <2>2. ToSet(executed) = {executed[n] : n \in 1..Len(executed)}
    BY ToSetIs DEF OwnTypeOK
  <2> QED BY <2>1, <2>2 DEF Backward
<1> SUFFICES ASSUME NEW c \in Conns, NEW n \in 1..Len(up'[c]), IsData(up'[c][n]),
                    status'[CallIn(up'[c][n])] = "sent"
             PROVE  /\ \A j \in After(CallIn(up'[c][n])) : j \notin ToSet(executed')
                    /\ \A d \in Conns : \A m \in 1..Len(up'[d]) :
                         IsData(up'[d][m]) /\ CallIn(up'[d][m]) \in After(CallIn(up'[c][n]))
                           => d = c /\ n < m
  BY DEF SentInOrder, IsData, CallIn, After
<1>4. CASE n \in 1..Len(up[c]) /\ up'[c][n] = up[c][n]
  <2>1. PICK k \in Calls : k = CallIn(up'[c][n]) /\ k = CallIn(up[c][n])
    BY <1>2, <1>4
  <2>2. status[k] = "sent"
    <3>1. k \notin ToSet(ks)
      <4>1. ToSet(ks) = {ks[p] : p \in 1..Len(ks)}
        BY <1>0, ToSetIs
      <4>2. status[k] \notin {"idle", "waiting"}
        BY <1>2, <1>4, <2>1
      <4> QED BY <1>0, <4>1, <4>2
    <3> QED BY <2>1, <3>1, DispatchedPromises DEF ProxyInv
  <2>3. /\ \A j \in After(k) : j \notin ToSet(executed)
        /\ \A d \in Conns : \A m \in 1..Len(up[d]) :
             IsData(up[d][m]) /\ CallIn(up[d][m]) \in After(k) => d = c /\ n < m
    BY <1>4, <2>1, <2>2 DEF SentInOrder
  <2>4. ASSUME NEW p \in 1..Len(ks), ks[p] \in After(k) PROVE c = socket
    <3>1. PICK g \in Ids : connection[HandlerOf[k]] = g /\ k \in Unsettled(g)
      BY <2>2 DEF ProxyInv, NoOrphanedCall
    <3>2. PICK r \in responsePromises[g] : k = r[2]
      BY <3>1 DEF Unsettled
    <3>3. channels[g] = "open"
      BY <3>2 DEF ProxyInv, Promises
    <3>4. IsData(up[c][n]) /\ n \in 1..Len(up[c])
      BY <1>4
    <3>5. /\ Known(up[c][n].id, up[c][n].content.seq, k)
          /\ channels[up[c][n].id] = "none" \/ (channels[up[c][n].id] = "open" /\ c = socket)
      BY <2>1, <3>4 DEF Upward
    <3>6. g = up[c][n].id
      BY <3>2, <3>5 DEF Known
    <3> QED BY <3>3, <3>5, <3>6
  <2>5. ASSUME NEW d \in Conns, NEW m \in 1..Len(up'[d]), IsData(up'[d][m]),
               CallIn(up'[d][m]) \in After(k)
        PROVE  d = c /\ n < m
    <3>1. CASE m \in 1..Len(up[d]) /\ up'[d][m] = up[d][m]
      BY <2>3, <2>5, <3>1
    <3>2. CASE ~(m \in 1..Len(up[d]) /\ up'[d][m] = up[d][m])
      <4>1. d = socket /\ \E p \in 1..Len(ks) : m = Len(up[d]) + p /\ CallIn(up'[d][m]) = ks[p]
        BY <1>1, <3>2
      <4>2. c = socket
        BY <2>4, <2>5, <4>1
      <4>3. Len(up[c]) \in Nat /\ n <= Len(up[c])
        BY <1>4, DataTypes
      <4>4. n < m
        BY <4>1, <4>2, <4>3
      <4> QED BY <4>1, <4>2, <4>4
    <3> QED BY <3>1, <3>2
  <2> QED BY <1>0, <2>1, <2>3, <2>5
<1>5. CASE ~(n \in 1..Len(up[c]) /\ up'[c][n] = up[c][n])
  <2>1. PICK p \in 1..Len(ks) : n = Len(up[c]) + p /\ CallIn(up'[c][n]) = ks[p] /\ c = socket
    BY <1>1, <1>5
  <2>2. ASSUME NEW d \in Conns, NEW m \in 1..Len(up'[d]), IsData(up'[d][m]),
               CallIn(up'[d][m]) \in After(ks[p])
        PROVE  d = c /\ n < m
    <3>1. CASE m \in 1..Len(up[d]) /\ up'[d][m] = up[d][m]
      BY <1>2, <1>3, <2>2, <3>1
    <3>2. CASE ~(m \in 1..Len(up[d]) /\ up'[d][m] = up[d][m])
      <4>1. PICK q \in 1..Len(ks) : m = Len(up[d]) + q /\ CallIn(up'[d][m]) = ks[q] /\ d = socket
        BY <1>1, <3>2
      <4>2. ks[p] < ks[q] /\ ks[p] \in Nat /\ ks[q] \in Nat
        BY <1>0, <2>2, <4>1 DEF After
      <4>3. p < q
        BY <4>2
      <4>4. Len(up[c]) \in Nat
        BY DataTypes
      <4> QED BY <2>1, <4>1, <4>3, <4>4
    <3> QED BY <3>1, <3>2
  <2> QED BY <1>0, <1>3, <2>1, <2>2
<1> QED BY <1>4, <1>5

LEMMA SentInOrderStep ==
  ASSUME ProxiesAssumption, NetP!TypeOK, NetP!Bookkeeping, NetP!Wire, OwnTypeOK, ProxyInv, Upward,
         Backward, MadeInOrder, SentInOrder, [Next]_vars
  PROVE  SentInOrder'
<1>1. ASSUME NEW k \in Calls, CallNow(k) PROVE SentInOrder'
  <2>1. PICK i \in Ids : i = connection[HandlerOf[k]]
    BY <1>1, CallNowDispatches
  <2>2. Dispatch(i, <<k>>) /\ Sends(i, <<k>>)
    BY <1>1, <2>1, CallNowDispatches, CallNowSends
  <2>3. \A p, q \in 1..Len(<<k>>) : p < q => <<k>>[p] < <<k>>[q]
    OBVIOUS
  <2> QED BY <2>2, <2>3, DispatchInOrder
<1>2. ASSUME NEW i \in Ids, Ready(i) PROVE SentInOrder'
  <2>1. Dispatch(i, Sendable(i)) /\ Sends(i, Sendable(i))
    BY <1>2, ReadyDispatches, ReadySends
  <2>2. \A p, q \in 1..Len(Sendable(i)) : p < q => Sendable(i)[p] < Sendable(i)[q]
    <3>1. Sendable(i) = <<>> \/ (owner[i] \in Handlers /\ Sendable(i) = waiting[owner[i]])
      BY SendableType DEF Sendable
    <3>2. CASE Sendable(i) = <<>>
      BY <3>2
    <3>3. CASE owner[i] \in Handlers /\ Sendable(i) = waiting[owner[i]]
      BY <3>3 DEF MadeInOrder
    <3> QED BY <3>1, <3>2, <3>3
  <2> QED BY <2>1, <2>2, DispatchInOrder
<1>3. CASE (\A k \in Calls : ~CallNow(k)) /\ (\A i \in Ids : ~Ready(i))
  <2>1. PICK s \in [Conns -> {0, 1}] : UpShifts(s) /\ TakesFrom(s)
    BY <1>3, ShiftingStep
  <2>2. \A k \in Calls : status'[k] = "sent" => status[k] = "sent"
    BY <1>3, SentWas
  <2> QED BY <2>1, <2>2, SentInOrderShifts
<1> QED BY <1>1, <1>2, <1>3

-----------------------------------------------------------------------------
(* The invariant. *)

Inv ==
  /\ NetP!Inv
  /\ OwnTypeOK
  /\ ProxyInv
  /\ Upward /\ Backward
  /\ MadeInOrder /\ SentInOrder

LEMMA NetInit == ASSUME Init PROVE NetP!Init
BY DEF Init, Net!Init, NetP!Init, Net!Ids, NetP!Ids, Net!Conns, NetP!Conns

LEMMA InvInit == ASSUME ProxiesAssumption PROVE Init => Inv
<1> SUFFICES ASSUME Init PROVE Inv
  OBVIOUS
<1>1. NetP!Inv
  BY ChannelsHold, NetInit, NetP!InvInit
<1>2. <<>> \in Seq(Calls) /\ Len(<<>>) = 0 /\ ToSet(<<>>) = {}
  BY EmptySeq DEF ToSet
<1>3. OwnTypeOK
  BY <1>2 DEF Init, OwnTypeOK
<1>4. ProxyInv
  <2>1. \A h \in Handlers : connection[h] = NoConnection /\ waiting[h] = <<>>
    BY DEF Init
  <2>2. \A i \in Ids : channels[i] = "none" /\ responsePromises[i] = {} /\ i # NoConnection
    BY DEF Init, Net!Init, Ids, Net!Ids, ProxiesAssumption
  <2>3. \A k \in Calls : status[k] = "idle"
    BY DEF Init
  <2> QED BY <1>2, <2>1, <2>2, <2>3
          DEF ProxyInv, PromiseIsCurrent, WaitingCalls, Promises, NoOrphanedCall
<1>5. (\A c \in Conns : up[c] = <<>> /\ down[c] = <<>> /\ serving[c] = {}) /\ executed = <<>>
  BY SameIds DEF Init, Net!Init, Conns
<1>6. Upward /\ SentInOrder
  BY <1>2, <1>5 DEF Upward, SentInOrder
<1>7. Backward
  BY <1>2, <1>5 DEF Backward, Init
<1>8. MadeInOrder
  BY <1>2 DEF MadeInOrder, Init, After
<1> QED BY <1>1, <1>3, <1>4, <1>6, <1>7, <1>8 DEF Inv

LEMMA InvStep == ASSUME ProxiesAssumption PROVE Inv /\ [Next]_vars => Inv'
<1> SUFFICES ASSUME Inv, [Next]_vars PROVE Inv'
  OBVIOUS
<1>1. /\ NetP!Inv /\ NetP!TypeOK /\ NetP!Bookkeeping /\ NetP!OneConnectionPerHandler /\ NetP!Wire
      /\ OwnTypeOK /\ ProxyInv /\ Upward /\ Backward /\ MadeInOrder /\ SentInOrder
  BY DEF Inv, NetP!Inv, NetP!FrontendInv
<1>2. NetP!Inv'
  <2>1. [NetP!Next]_(NetP!vars)
    BY <1>1, NetStep
  <2>2. NetP!ChannelsAssumption
    BY ChannelsHold
  <2> QED BY <1>1, <2>1, <2>2, NetP!InvStep
<1>3. OwnTypeOK'
  BY <1>1, TypeStep
<1>4. ProxyInv'
  BY <1>1, ProxyInvStep
<1>5. Upward' /\ Backward'
  BY <1>1, UpwardStep, BackwardStep
<1>6. MadeInOrder' /\ SentInOrder'
  BY <1>1, MadeInOrderStep, SentInOrderStep
<1> QED BY <1>2, <1>3, <1>4, <1>5, <1>6 DEF Inv

\* Whatever is called, answered, lost or reconnected, the invariant holds.
THEOREM Invariance == ASSUME ProxiesAssumption PROVE Spec => []Inv
<1>1. Init => Inv
  BY InvInit
<1>2. Inv /\ [Next]_vars => Inv'
  BY InvStep
<1> QED BY <1>1, <1>2, PTL DEF Spec

\* Every variable of the proxies, the services and the channels below them stays within its
\* type (JsonRpc).
THEOREM TypeCorrect == ASSUME ProxiesAssumption PROVE Spec => []TypeOK
<1>1. Inv => TypeOK
  BY SameTypes DEF Inv, NetP!Inv, NetP!FrontendInv, OwnTypeOK, TypeOK
<1> QED BY <1>1, Invariance, PTL

\* The proxies use the channels as WsChannels has them: what is proved of the channels for
\* any use of them holds below the proxies.
THEOREM ProxiesUseChannels == ASSUME ProxiesAssumption PROVE Spec => NetP!Spec
<1>1. Init => NetP!Init
  BY NetInit
<1>2. Inv /\ [Next]_vars => [NetP!Next]_(NetP!vars)
  BY NetStep DEF Inv, NetP!Inv, NetP!FrontendInv
<1> QED BY <1>1, <1>2, Invariance, PTL DEF Spec, NetP!Spec

\* A connectionPromise (proxy-factory.ts) is resolved with the one connection that its
\* handler has, or unresolved while it has none.
THEOREM ProxiesAreCurrent == ASSUME ProxiesAssumption PROVE Spec => []PromiseIsCurrent
<1>1. Inv => PromiseIsCurrent
  BY DEF Inv, ProxyInv
<1> QED BY <1>1, Invariance, PTL

\* A caller that waits for a response has a connection that can still bring it: dispose and
\* onclose leave no request unsettled.
THEOREM NoCallOrphaned == ASSUME ProxiesAssumption PROVE Spec => []NoOrphanedCall
<1>1. Inv => NoOrphanedCall
  BY DEF Inv, ProxyInv
<1> QED BY <1>1, Invariance, PTL

\* A call that is executed after a later call of its proxy is one whose caller was told that
\* it failed, or was not to be told.
THEOREM CallsInOrder == ASSUME ProxiesAssumption PROVE Spec => ExecutedInOrder
<1>1. ASSUME Inv, [Next]_vars, NEW k \in Calls, Len(executed') > Len(executed), k = Last(executed'),
             NEW j \in ToSet(executed), HandlerOf[j] = HandlerOf[k], k < j
      PROVE  status[k] = "rejected" \/ ~IsRequest(k)
  <2>1. /\ NetP!TypeOK /\ NetP!Bookkeeping /\ OwnTypeOK /\ ProxyInv /\ Upward /\ Backward
        /\ SentInOrder
    BY <1>1 DEF Inv, NetP!Inv, NetP!FrontendInv
  <2>2. Len(executed) \in Nat /\ executed \in Seq(Calls)
    BY <2>1 DEF OwnTypeOK
  <2>3. executed' # executed
    BY <1>1, <2>2
  <2>4. PICK c \in Conns, l \in Calls :
          /\ 1 \in 1..Len(up[c]) /\ IsData(up[c][1]) /\ l = CallIn(up[c][1])
          /\ executed' = Append(executed, l)
          /\ l \notin ToSet(executed) /\ status[l] \notin {"idle", "waiting"}
    BY <1>1, <2>1, <2>3, ExecutedGrows
  <2>5. k = l
    BY <1>1, <2>2, <2>4 DEF Last
  <2>6. j \in After(k)
    <3>1. j \in Calls
      BY <2>2 DEF ToSet
    <3> QED BY <1>1, <3>1 DEF After
  <2>7. status[k] # "sent"
    BY <2>1, <2>4, <2>5, <2>6 DEF SentInOrder
  <2>8. status[k] = "answered" => ~IsRequest(k)
    BY <2>1, <2>4, <2>5 DEF Backward
  <2> QED BY <2>1, <2>4, <2>5, <2>7, <2>8 DEF OwnTypeOK
<1>2. Inv /\ [Next]_vars =>
        [\A k \in Calls :
           /\ Len(executed') > Len(executed)
           /\ k = Last(executed')
           /\ \E j \in ToSet(executed) : HandlerOf[j] = HandlerOf[k] /\ k < j
           => status[k] = "rejected" \/ ~IsRequest(k)]_vars
  BY <1>1
<1> QED BY <1>2, Invariance, PTL DEF Spec, ExecutedInOrder

-----------------------------------------------------------------------------
(* The proxies implement RemoteCalls. *)

\* How often a call is in a sequence in which none is twice.
LEMMA TimesIn ==
  ASSUME NEW q \in Seq(Calls), \A n, m \in 1..Len(q) : q[n] = q[m] => n = m, NEW k
  PROVE  Cardinality({j \in DOMAIN q : q[j] = k}) = IF k \in ToSet(q) THEN 1 ELSE 0
<1>1. DOMAIN q = 1..Len(q) /\ ToSet(q) = {q[n] : n \in 1..Len(q)}
  BY ToSetIs
<1>2. CASE k \in ToSet(q)
  <2>1. PICK n \in 1..Len(q) : q[n] = k
    BY <1>1, <1>2
  <2>2. {j \in DOMAIN q : q[j] = k} = {n}
    BY <1>1, <2>1
  <2>3. Cardinality({n}) = 1
    BY FS_Singleton
  <2> QED BY <1>2, <2>2, <2>3
<1>3. CASE k \notin ToSet(q)
  <2>1. {j \in DOMAIN q : q[j] = k} = {}
    BY <1>1, <1>3
  <2>2. Cardinality({}) = 0
    BY FS_EmptySet
  <2> QED BY <1>3, <2>1, <2>2
<1> QED BY <1>2, <1>3

\* The variables of RemoteCalls that are not the proxies' own.
promise == [k \in Calls |-> PromiseOf(status[k])]
times == [k \in Calls |-> Cardinality({j \in DOMAIN executed : executed[j] = k})]

LEMMA TimesAre ==
  ASSUME OwnTypeOK, Backward
  PROVE  \A k \in Calls : times[k] = IF k \in ToSet(executed) THEN 1 ELSE 0
<1> SUFFICES ASSUME NEW k \in Calls PROVE times[k] = IF k \in ToSet(executed) THEN 1 ELSE 0
  OBVIOUS
<1>1. executed \in Seq(Calls) /\ \A n, m \in 1..Len(executed) : executed[n] = executed[m] => n = m
  BY DEF OwnTypeOK, Backward
<1>2. Cardinality({j \in DOMAIN executed : executed[j] = k}) = IF k \in ToSet(executed) THEN 1 ELSE 0
  BY <1>1, TimesIn
<1> QED BY <1>2 DEF times

\* A step of RemoteCalls, or none, in terms of those variables.
PromisedStep ==
  \/ \E k \in Calls :
       \/ /\ promise[k] = "idle" /\ promise' = [promise EXCEPT ![k] = "pending"]
          /\ UNCHANGED <<answer, times>>
       \/ /\ promise[k] # "idle" /\ times[k] = 0 /\ times' = [times EXCEPT ![k] = 1]
          /\ UNCHANGED <<promise, answer>>
       \/ /\ promise[k] = "pending" /\ times[k] = 1
          /\ promise' = [promise EXCEPT ![k] = "answered"]
          /\ answer' = [answer EXCEPT ![k] = {k}]
          /\ UNCHANGED times
  \/ \E S \in SUBSET Calls :
       /\ S # {}
       /\ UNCHANGED <<answer, times>>
       /\ \/ /\ \A k \in S : k \in Notifications /\ promise[k] \in {"idle", "pending"}
             /\ promise' = [k \in Calls |-> IF k \in S THEN "answered" ELSE promise[k]]
          \/ /\ \A k \in S : promise[k] = "pending"
             /\ promise' = [k \in Calls |-> IF k \in S THEN "rejected" ELSE promise[k]]
  \/ UNCHANGED <<promise, answer, times>>

LEMMA PromisedStepIs ==
  ASSUME PromisedStep PROVE [Promised!Next]_<<promise, answer, times>>
BY DEF PromisedStep, promise, times, Promised!Next, Promised!Issue, Promised!Send, Promised!Execute,
       Promised!Answer, Promised!Reject

LEMMA PromiseIs == /\ \A k \in Calls : promise[k] = PromiseOf(status[k])
                   /\ DOMAIN promise = Calls
BY DEF promise

LEMMA RefinementStep ==
  ASSUME ProxiesAssumption, Inv, [Next]_vars
  PROVE  PromisedStep
<1>0. /\ NetP!TypeOK /\ NetP!Bookkeeping /\ OwnTypeOK /\ ProxyInv /\ Upward /\ Backward
      /\ OwnTypeOK' /\ Backward'
  <2>1. Inv'
    BY InvStep
  <2> QED BY <2>1 DEF Inv, NetP!Inv, NetP!FrontendInv
<1>1. executed' = executed => times' = times
  BY DEF times
<1>2. CASE UNCHANGED <<status, answer, executed>>
  BY <1>2 DEF promise, times, PromisedStep
<1>3. ASSUME NEW k \in Calls, CallLater(k) PROVE PromisedStep
  <2>1. status[k] = "idle" /\ status' = [status EXCEPT ![k] = "waiting"] /\ UNCHANGED <<answer, executed>>
    BY <1>3 DEF CallLater, IsNext, serviceVars
  <2>2. promise[k] = "idle" /\ promise' = [promise EXCEPT ![k] = "pending"]
    BY <1>0, <2>1 DEF promise, PromiseOf, OwnTypeOK
  <2> QED BY <1>1, <2>1, <2>2 DEF PromisedStep
<1>4. ASSUME NEW k \in Calls, CallNow(k) PROVE PromisedStep
  <2>1. status[k] = "idle" /\ status' = [status EXCEPT ![k] = AfterSend(k)] /\ UNCHANGED <<answer, executed>>
    BY <1>4 DEF CallNow, IsNext, serviceVars
  <2>2. CASE IsRequest(k)
    <3>1. promise[k] = "idle" /\ promise' = [promise EXCEPT ![k] = "pending"]
      BY <1>0, <2>1, <2>2 DEF promise, PromiseOf, OwnTypeOK, AfterSend
    <3> QED BY <1>1, <2>1, <3>1 DEF PromisedStep
  <2>3. CASE ~IsRequest(k)
    <3>1. promise[k] = "idle" /\ promise' = [j \in Calls |-> IF j \in {k} THEN "answered" ELSE promise[j]]
      BY <1>0, <2>1, <2>3 DEF promise, PromiseOf, OwnTypeOK, AfterSend
    <3>2. k \in Notifications /\ {k} \in SUBSET Calls /\ {k} # {}
      BY <2>3 DEF IsRequest
    <3>3. \A j \in {k} : j \in Notifications /\ promise[j] \in {"idle", "pending"}
      BY <3>1, <3>2
    <3> QED BY <1>1, <2>1, <3>1, <3>2, <3>3 DEF PromisedStep
  <2> QED BY <2>2, <2>3
<1>5. ASSUME NEW i \in Ids, Ready(i) PROVE PromisedStep
  <2> DEFINE S == {k \in ToSet(Sendable(i)) : ~IsRequest(k)}
  <2>1. /\ status' = [k \in Calls |-> IF k \in ToSet(Sendable(i)) THEN AfterSend(k) ELSE status[k]]
        /\ UNCHANGED <<answer, executed>>
    BY <1>5 DEF Ready, Sendable, serviceVars
  <2>2. \A k \in ToSet(Sendable(i)) : k \in Calls /\ status[k] = "waiting"
    <3>1. Sendable(i) = <<>> \/ (owner[i] \in Handlers /\ Sendable(i) = waiting[owner[i]])
      BY <1>0, SendableType DEF Sendable
    <3>2. CASE Sendable(i) = <<>>
      BY <3>2 DEF ToSet
    <3>3. CASE owner[i] \in Handlers /\ Sendable(i) = waiting[owner[i]]
      <4>1. waiting[owner[i]] \in Seq(Calls)
        BY <1>0, <3>3 DEF OwnTypeOK
      <4>2. ToSet(waiting[owner[i]]) = {waiting[owner[i]][n] : n \in 1..Len(waiting[owner[i]])}
        BY <4>1, ToSetIs
      <4>3. \A n \in 1..Len(waiting[owner[i]]) :
              waiting[owner[i]][n] \in Calls /\ status[waiting[owner[i]][n]] = "waiting"
        BY <1>0, <3>3, <4>1 DEF ProxyInv, WaitingCalls
      <4> QED BY <3>3, <4>2, <4>3
    <3> QED BY <3>1, <3>2, <3>3
  <2>3. promise' = [k \in Calls |-> IF k \in S THEN "answered" ELSE promise[k]]
    <3>1. \A k \in Calls : PromiseOf(status'[k]) = IF k \in S THEN "answered" ELSE PromiseOf(status[k])
      BY <2>1, <2>2 DEF PromiseOf, AfterSend
    <3> QED BY <3>1 DEF promise
  <2>4. S \in SUBSET Calls /\ \A k \in S : k \in Notifications /\ promise[k] \in {"idle", "pending"}
    BY <2>2 DEF promise, PromiseOf, IsRequest
  <2> HIDE DEF S
  <2>5. CASE S = {}
    <3>1. promise' = promise
      BY <2>3, <2>5 DEF promise
    <3> QED BY <1>1, <2>1, <3>1 DEF PromisedStep
  <2>6. CASE S # {}
    BY <1>1, <2>1, <2>3, <2>4, <2>6 DEF PromisedStep
  <2> QED BY <2>5, <2>6
<1>6. ASSUME NEW i \in Ids, NEW m, ReceiveResponse(i, m) PROVE PromisedStep
  <2> DEFINE settled == {k \in Calls : <<m.seq, k>> \in responsePromises[i]}
  <2>1. /\ status' = [k \in Calls |-> IF k \in settled THEN "answered" ELSE status[k]]
        /\ answer' = [k \in Calls |-> answer[k] \cup IF k \in settled THEN {m.call} ELSE {}]
        /\ executed' = executed
    BY <1>6 DEF ReceiveResponse, serviceVars
  <2>2. /\ m.call \in ToSet(executed) /\ m.call \in Calls
        /\ \A k \in settled : k = m.call /\ status[k] = "sent"
    BY <1>0, <1>6, ResponseSettles DEF ProxyInv
  <2> HIDE DEF settled
  <2>3. CASE m.call \notin settled
    <3>1. UNCHANGED <<status, answer>>
      BY <1>0, <2>1, <2>2, <2>3 DEF OwnTypeOK
    <3> QED BY <1>2, <2>1, <3>1
  <2>4. CASE m.call \in settled
    <3>1. PICK k \in Calls : k = m.call
      BY <2>2
    <3>2. \A j \in Calls : j \in settled <=> j = k
      BY <2>2, <2>4, <3>1
    <3>3. status[k] = "sent" /\ answer[k] = {} /\ answer \in [Calls -> SUBSET Calls]
      BY <1>0, <2>2, <2>4, <3>1 DEF Backward, OwnTypeOK
    <3>4. answer' = [answer EXCEPT ![k] = {k}]
      <4>1. \A j \in Calls : answer'[j] = answer[j] \cup IF j = k THEN {k} ELSE {}
        BY <2>1, <3>1, <3>2
      <4>2. \A j \in Calls : answer'[j] = IF j = k THEN {k} ELSE answer[j]
        BY <3>3, <4>1
      <4> QED BY <2>1, <3>3, <4>2
    <3>5. promise[k] = "pending" /\ promise' = [promise EXCEPT ![k] = "answered"]
      <4>1. \A j \in Calls : status'[j] = IF j = k THEN "answered" ELSE status[j]
        BY <2>1, <3>2
      <4> QED BY <3>3, <4>1 DEF promise, PromiseOf
    <3>6. times[k] = 1
      BY <1>0, <2>2, <3>1, TimesAre
    <3> QED BY <1>1, <2>1, <3>4, <3>5, <3>6 DEF PromisedStep
  <2> QED BY <2>3, <2>4
<1>7. CASE SocketClose
  <2> DEFINE S == {k \in Calls : \E i \in Net!OpenIds : k \in Unsettled(i)}
  <2>1. /\ status' = [k \in Calls |-> IF k \in S THEN "rejected" ELSE status[k]]
        /\ UNCHANGED <<answer, executed>>
    BY <1>7 DEF SocketClose, serviceVars
  <2>2. \A k \in S : status[k] = "sent"
    BY <1>0 DEF Unsettled, ProxyInv, Promises, Net!OpenIds, Ids
  <2>3. S \in SUBSET Calls
    OBVIOUS
  <2> HIDE DEF S
  <2>4. promise' = [k \in Calls |-> IF k \in S THEN "rejected" ELSE promise[k]]
    BY <2>1 DEF promise, PromiseOf
  <2>5. \A k \in S : promise[k] = "pending"
    BY <2>2, <2>3 DEF promise, PromiseOf
  <2>6. CASE S = {}
    <3>1. promise' = promise
      BY <2>4, <2>6 DEF promise
    <3> QED BY <1>1, <2>1, <3>1 DEF PromisedStep
  <2>7. CASE S # {}
    BY <1>1, <2>1, <2>3, <2>4, <2>5, <2>7 DEF PromisedStep
  <2> QED BY <2>6, <2>7
<1>8. ASSUME NEW c \in Conns, NEW i \in Ids, NEW m, ServiceInvoke(c, i, m) PROVE PromisedStep
  <2>1. UNCHANGED <<status, answer>>
    BY <1>8 DEF ServiceInvoke, proxyVars
  <2>2. CASE executed' = executed
    BY <1>2, <2>1, <2>2
  <2>3. CASE executed' # executed
    <3>1. PICK k \in Calls : /\ ToSet(executed') = ToSet(executed) \cup {k}
                             /\ k \notin ToSet(executed) /\ status[k] \notin {"idle", "waiting"}
      BY <1>0, <2>3, ExecutedGrows
    <3>2. \A j \in Calls : times[j] = IF j \in ToSet(executed) THEN 1 ELSE 0
      BY <1>0, TimesAre
    <3>3. ASSUME NEW j \in Calls PROVE times'[j] = IF j \in ToSet(executed') THEN 1 ELSE 0
      <4>1. /\ executed' \in Seq(Calls)
            /\ \A n, l \in 1..Len(executed') : executed'[n] = executed'[l] => n = l
        BY <1>0 DEF OwnTypeOK, Backward
      <4>2. Cardinality({n \in DOMAIN executed' : executed'[n] = j})
              = IF j \in ToSet(executed') THEN 1 ELSE 0
        BY <4>1, TimesIn
      <4> QED BY <4>2 DEF times
    <3>4. times[k] = 0 /\ times' = [times EXCEPT ![k] = 1]
      <4>1. \A j \in Calls : times'[j] = IF j = k THEN 1 ELSE times[j]
        BY <3>1, <3>2, <3>3
      <4> QED BY <3>1, <3>2, <4>1 DEF times
    <3>5. promise[k] # "idle" /\ promise' = promise
      BY <2>1, <3>1 DEF promise, PromiseOf
    <3> QED BY <2>1, <3>4, <3>5 DEF PromisedStep
  <2> QED BY <2>2, <2>3
<1>9. ASSUME NEW c, Respond(c) \/ ServiceClose(c) \/ \E i \in Ids, h \in Handlers : ServiceOpen(c, i, h)
      PROVE  UNCHANGED <<status, answer, executed>>
  BY <1>9 DEF Respond, ServiceClose, ServiceOpen, ServiceRespond, proxyVars, serviceVars
<1>10. CASE UNCHANGED vars \/ Connect \/ \E h \in Handlers : CreateProxy(h)
  BY <1>2, <1>10 DEF vars, Connect, CreateProxy, proxyVars, serviceVars
<1> QED
  BY <1>2, <1>3, <1>4, <1>5, <1>6, <1>7, <1>8, <1>9, <1>10 DEF Next, ClientReceive, ServiceReceive

\* JsonRpcProxyFactory keeps, over any number of lost sockets, what RemoteCalls promises to
\* the callers: a call is executed at most once, a caller gets the answer to its own call
\* after it was executed, or a rejection, and only once.
THEOREM ProxiesImplementRemoteCalls == ASSUME ProxiesAssumption PROVE Spec => ImplementsRemoteCalls
<1>1. Init => Promised!Init
  <2> SUFFICES ASSUME Init PROVE Promised!Init
    OBVIOUS
  <2>1. status = [k \in Calls |-> "idle"] /\ answer = [k \in Calls |-> {}] /\ executed = <<>>
    BY DEF Init
  <2>2. \A k \in Calls : Cardinality({j \in DOMAIN executed : executed[j] = k}) = 0
    <3>1. {j \in DOMAIN executed : TRUE} = {}
      BY <2>1
    <3>2. \A k \in Calls : {j \in DOMAIN executed : executed[j] = k} = {}
      BY <3>1
    <3> QED BY <3>2, FS_EmptySet
  <2> QED BY <2>1, <2>2 DEF Promised!Init, PromiseOf
<1>2. Inv /\ [Next]_vars => [Promised!Next]_<<promise, answer, times>>
  BY RefinementStep, PromisedStepIs
<1> QED BY <1>1, <1>2, Invariance, PTL DEF Spec, ImplementsRemoteCalls, Promised!Spec, promise, times

===============================================================================
