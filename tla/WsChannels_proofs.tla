--------------------------- MODULE WsChannels_proofs ---------------------------
(***************************************************************************)
(* Proofs about WsChannels for any number of handlers, sockets, channels   *)
(* and messages: its type invariant, that a handler has one connection     *)
(* (OneConnectionPerHandler), and that the two ends of a channel agree     *)
(* (ChannelsAgree).                                                        *)
(***************************************************************************)
EXTENDS WsChannels, SequenceTheorems, FiniteSetTheorems, TLAPS

\* A channel of the frontend's map has been allocated, to an installed handler, while the
\* socket is up; a handler that waits for a socket is installed, and waits while there is none.
Bookkeeping ==
  /\ socket = 0 => \A i \in Ids : channels[i] = "none"
  /\ socket # 0 => listeners = <<>>
  /\ \A i \in Ids : channels[i] # "none" => i < channelIdSeq /\ owner[i] \in installed
  /\ \A k \in 1..Len(listeners) : listeners[k] \in installed

FrontendInv == TypeOK /\ Bookkeeping /\ OneConnectionPerHandler

-----------------------------------------------------------------------------
(* Sequences of messages. *)

LEMMA OpenMessagesType ==
  ASSUME ChannelsAssumption, NEW n \in Nat, NEW hs \in Seq(Handlers),
         n + Len(hs) <= MaxChannels
  PROVE  [k \in 1..Len(hs) |-> OpenMessage(n + k - 1, hs[k])] \in Seq(Message)
<1>1. \A k \in 1..Len(hs) : n + k - 1 \in Ids /\ hs[k] \in Handlers
  BY DEF Ids, ChannelsAssumption
<1>2. \A k \in 1..Len(hs) : OpenMessage(n + k - 1, hs[k]) \in Message
  BY <1>1 DEF OpenMessage, Message
<1> QED BY <1>2

LEMMA DataMessagesType ==
  ASSUME NEW i \in Ids, NEW ms \in Seq(Contents)
  PROVE  [k \in 1..Len(ms) |-> DataMessage(i, ms[k])] \in Seq(Message)
<1>1. \A k \in 1..Len(ms) : DataMessage(i, ms[k]) \in Message
  BY DEF DataMessage, Message
<1> QED BY <1>1

LEMMA SendUpType ==
  ASSUME NEW c \in Conns, up \in [Conns -> Seq(Message)],
         NEW msgs \in Seq(Message), SendUp(c, msgs)
  PROVE  up' \in [Conns -> Seq(Message)]
<1>1. up[c] \o msgs \in Seq(Message)
  BY ConcatProperties
<1> QED BY <1>1 DEF SendUp

LEMMA SendDownType ==
  ASSUME NEW c \in Conns, down \in [Conns -> Seq(Message)],
         NEW msg \in Message, SendDown(c, msg)
  PROVE  down' \in [Conns -> Seq(Message)]
<1>1. Append(down[c], msg) \in Seq(Message)
  OBVIOUS
<1> QED BY <1>1 DEF SendDown

LEMMA OpenChannelsType ==
  ASSUME ChannelsAssumption, TypeOK, NEW c \in Conns, NEW pre \in Seq(Message),
         NEW kept \in SUBSET Ids, NEW hs \in Seq(Handlers),
         OpenChannels(c, pre, kept, hs)
  PROVE  /\ channelIdSeq' \in 0..MaxChannels
         /\ channels' \in [Ids -> {"none", "opening", "open"}]
         /\ owner' \in [Ids -> Handlers \cup {NoHandler}]
         /\ up' \in [Conns -> Seq(Message)]
<1> DEFINE opens == [k \in 1..Len(hs) |-> OpenMessage(channelIdSeq + k - 1, hs[k])]
<1>1. channelIdSeq \in Nat /\ Len(hs) \in Nat /\ channelIdSeq + Len(hs) <= MaxChannels
  BY DEF TypeOK, OpenChannels, ChannelsAssumption
<1>2. opens \in Seq(Message)
  BY <1>1, OpenMessagesType
<1>3. pre \o opens \in Seq(Message)
  BY <1>2, ConcatProperties
<1>4. up' \in [Conns -> Seq(Message)]
  BY <1>3, SendUpType DEF OpenChannels, TypeOK
<1>5. channelIdSeq' \in 0..MaxChannels
  BY <1>1 DEF OpenChannels, ChannelsAssumption
<1>6. channels' \in [Ids -> {"none", "opening", "open"}]
  BY DEF OpenChannels, TypeOK
<1>7. \A i \in channelIdSeq..(channelIdSeq + Len(hs) - 1) :
        hs[i - channelIdSeq + 1] \in Handlers
  BY <1>1
<1>8. owner' \in [Ids -> Handlers \cup {NoHandler}]
  BY <1>7 DEF OpenChannels, TypeOK
<1> QED BY <1>4, <1>5, <1>6, <1>8

-----------------------------------------------------------------------------
(* Each action preserves FrontendInv. *)

LEMMA OneBound ==
  ASSUME ChannelsAssumption
  PROVE  Conns \subseteq Nat /\ Ids \subseteq Nat /\ MaxChannels \in Nat /\ MaxConns \in Nat
BY DEF ChannelsAssumption, Conns, Ids

\* A handler that is not served and does not wait gets the one channel of a step that opens
\* channels for hs, when hs names nobody twice and nobody whose channel is kept.
LEMMA OpenChannelsServeOnce ==
  ASSUME ChannelsAssumption, TypeOK, OneConnectionPerHandler, Bookkeeping,
         NEW c \in Conns, NEW pre \in Seq(Message),
         NEW kept \in SUBSET Ids, NEW hs \in Seq(Handlers),
         OpenChannels(c, pre, kept, hs),
         \A k \in 1..Len(hs), i \in kept : channels[i] # "none" => owner[i] # hs[k],
         \A j, k \in 1..Len(hs) : hs[j] = hs[k] => j = k
  PROVE  /\ \A i \in Ids : channels'[i] # "none" =>
               /\ i < channelIdSeq'
               /\ \/ i \in kept /\ channels[i] # "none" /\ owner'[i] = owner[i]
                  \/ \E k \in 1..Len(hs) : i = channelIdSeq + k - 1 /\ owner'[i] = hs[k]
         /\ \A i, j \in Ids :
              channels'[i] # "none" /\ channels'[j] # "none" /\ owner'[i] = owner'[j] => i = j
<1> DEFINE fresh == channelIdSeq..(channelIdSeq + Len(hs) - 1)
<1>1. channelIdSeq \in Nat /\ Len(hs) \in Nat /\ channelIdSeq' = channelIdSeq + Len(hs)
  BY DEF TypeOK, OpenChannels
<1>2. \A i \in Ids :
        /\ channels'[i] = IF i \in fresh THEN "opening" ELSE IF i \in kept THEN channels[i] ELSE "none"
        /\ owner'[i] = IF i \in fresh THEN hs[i - channelIdSeq + 1] ELSE owner[i]
  BY DEF OpenChannels
<1>3. \A i \in fresh : i - channelIdSeq + 1 \in 1..Len(hs) /\ i < channelIdSeq'
                       /\ i = channelIdSeq + (i - channelIdSeq + 1) - 1
  BY <1>1
<1>4. \A i \in Ids : channels[i] # "none" => i < channelIdSeq
  BY DEF Bookkeeping
<1>5. ASSUME NEW i \in Ids, channels'[i] # "none"
      PROVE  /\ i < channelIdSeq'
             /\ \/ i \notin fresh /\ i \in kept /\ channels[i] # "none" /\ owner'[i] = owner[i]
                \/ i \in fresh /\ \E k \in 1..Len(hs) : i = channelIdSeq + k - 1 /\ owner'[i] = hs[k]
  <2>1. CASE i \in fresh
    <3>1. i - channelIdSeq + 1 \in 1..Len(hs) /\ owner'[i] = hs[i - channelIdSeq + 1]
          /\ i = channelIdSeq + (i - channelIdSeq + 1) - 1 /\ i < channelIdSeq'
      BY <1>2, <1>3, <2>1
    <3> QED BY <2>1, <3>1
  <2>2. CASE i \notin fresh
    <3>1. i \in kept /\ channels[i] # "none" /\ owner'[i] = owner[i]
      BY <1>2, <1>5, <2>2
    <3>2. i < channelIdSeq
      BY <1>4, <3>1
    <3> QED BY <1>1, <2>2, <3>1, <3>2 DEF Ids
  <2> QED BY <2>1, <2>2
<1>6. ASSUME NEW i \in Ids, NEW j \in Ids, channels'[i] # "none", channels'[j] # "none",
             owner'[i] = owner'[j]
      PROVE  i = j
  <2>1. CASE i \in fresh /\ j \in fresh
    BY <1>5, <1>6, <2>1
  <2>2. CASE i \in fresh /\ j \notin fresh
    BY <1>5, <1>6, <2>2
  <2>3. CASE i \notin fresh /\ j \in fresh
    BY <1>5, <1>6, <2>3
  <2>4. CASE i \notin fresh /\ j \notin fresh
    BY <1>5, <1>6, <2>4 DEF OneConnectionPerHandler
  <2> QED BY <2>1, <2>2, <2>3, <2>4
<1> QED BY <1>5, <1>6

LEMMA ListenPreserves ==
  ASSUME ChannelsAssumption, FrontendInv, NEW h \in Handlers, Listen(h)
  PROVE  FrontendInv'
<1> USE DEF FrontendInv
<1>1. CASE /\ socket # 0
           /\ OpenChannels(socket, <<>>, Ids, <<h>>)
           /\ UNCHANGED listeners
  <2>1. socket \in Conns /\ <<>> \in Seq(Message) /\ <<h>> \in Seq(Handlers)
    BY <1>1 DEF TypeOK, Conns
  <2>2. \A i \in Ids : channels[i] # "none" => owner[i] # h
    BY DEF Listen, Bookkeeping
  <2>3. TypeOK'
    BY <1>1, <2>1, OpenChannelsType DEF Listen, TypeOK, serverVars
  <2>4. /\ \A i \in Ids : channels'[i] # "none" =>
              i < channelIdSeq' /\ ((channels[i] # "none" /\ owner'[i] = owner[i]) \/ owner'[i] = h)
        /\ \A i, j \in Ids :
              channels'[i] # "none" /\ channels'[j] # "none" /\ owner'[i] = owner'[j] => i = j
    <3>1. /\ \A k \in 1..Len(<<h>>), i \in Ids : channels[i] # "none" => owner[i] # <<h>>[k]
          /\ \A j, k \in 1..Len(<<h>>) : <<h>>[j] = <<h>>[k] => j = k
          /\ \A k \in 1..Len(<<h>>) : <<h>>[k] = h
      BY <2>2
    <3> HIDE DEF FrontendInv
    <3>2. TypeOK /\ Bookkeeping /\ OneConnectionPerHandler
      BY DEF FrontendInv
    <3>3. /\ \A i \in Ids : channels'[i] # "none" =>
               /\ i < channelIdSeq'
               /\ \/ i \in Ids /\ channels[i] # "none" /\ owner'[i] = owner[i]
                  \/ \E k \in 1..Len(<<h>>) : i = channelIdSeq + k - 1 /\ owner'[i] = <<h>>[k]
          /\ \A i, j \in Ids :
              channels'[i] # "none" /\ channels'[j] # "none" /\ owner'[i] = owner'[j] => i = j
      BY <1>1, <2>1, <3>1, <3>2, OpenChannelsServeOnce
    <3> QED BY <3>1, <3>3
  <2>5. listeners' = <<>> /\ socket' = socket /\ installed' = installed \cup {h}
    BY <1>1 DEF Listen, Bookkeeping
  <2>6. Bookkeeping'
    BY <1>1, <2>4, <2>5 DEF Bookkeeping
  <2>7. OneConnectionPerHandler'
    BY <2>4, <2>5 DEF OneConnectionPerHandler
  <2> QED BY <2>3, <2>6, <2>7
<1>2. CASE /\ socket = 0
           /\ listeners' = Append(listeners, h)
           /\ UNCHANGED <<channelIdSeq, channels, owner, up>>
  <2>1. TypeOK'
    BY <1>2 DEF Listen, TypeOK, serverVars
  <2>2. /\ Len(listeners') = Len(listeners) + 1 /\ Len(listeners) \in Nat
        /\ \A k \in 1..Len(listeners') :
             listeners'[k] = IF k = Len(listeners) + 1 THEN h ELSE listeners[k]
    BY <1>2 DEF TypeOK
  <2>3. \A k \in 1..Len(listeners) : listeners[k] # h
    BY DEF Listen, Bookkeeping
  <2>4. Bookkeeping'
    BY <1>2, <2>2 DEF Listen, Bookkeeping
  <2>5. OneConnectionPerHandler'
    BY <1>2, <2>2, <2>3 DEF OneConnectionPerHandler, Bookkeeping
  <2> QED BY <2>1, <2>4, <2>5
<1> QED BY <1>1, <1>2 DEF Listen

LEMMA ConnectPreserves ==
  ASSUME ChannelsAssumption, FrontendInv, Connect
  PROVE  FrontendInv'
<1> DEFINE hs == listeners
<1>1. /\ socket = 0 /\ connSeq + 1 \in Conns /\ hs \in Seq(Handlers)
      /\ <<>> \in Seq(Message)
      /\ \A i \in Ids : channels[i] = "none"
      /\ OpenChannels(connSeq + 1, <<>>, Ids, hs)
  BY DEF Connect, FrontendInv, TypeOK, Conns, Bookkeeping, ChannelsAssumption
<1>2. TypeOK'
  <2>1. TypeOK
    BY DEF FrontendInv
  <2>2. /\ channelIdSeq' \in 0..MaxChannels
        /\ channels' \in [Ids -> {"none", "opening", "open"}]
        /\ owner' \in [Ids -> Handlers \cup {NoHandler}]
        /\ up' \in [Conns -> Seq(Message)]
    BY <1>1, <2>1, OpenChannelsType
  <2>3. connSeq' \in 0..MaxConns /\ socket' \in 0..MaxConns /\ sockets' \subseteq Conns
        /\ listeners' \in Seq(Handlers) /\ installed' \subseteq Handlers
    BY <1>1, <2>1 DEF Connect, TypeOK, Conns, ChannelsAssumption
  <2>4. serverChannels' = serverChannels /\ down' = down
    BY DEF Connect
  <2> QED BY <2>1, <2>2, <2>3, <2>4 DEF TypeOK
<1>3. /\ \A k \in 1..Len(hs), i \in Ids : channels[i] # "none" => owner[i] # hs[k]
      /\ \A j, k \in 1..Len(hs) : hs[j] = hs[k] => j = k
      /\ \A k \in 1..Len(hs) : hs[k] \in installed
  BY DEF FrontendInv, OneConnectionPerHandler, Bookkeeping
<1>4. /\ \A i \in Ids : channels'[i] # "none" =>
           /\ i < channelIdSeq'
           /\ \/ i \in Ids /\ channels[i] # "none" /\ owner'[i] = owner[i]
              \/ \E k \in 1..Len(hs) : i = channelIdSeq + k - 1 /\ owner'[i] = hs[k]
      /\ \A i, j \in Ids :
           channels'[i] # "none" /\ channels'[j] # "none" /\ owner'[i] = owner'[j] => i = j
  <2>1. TypeOK /\ Bookkeeping /\ OneConnectionPerHandler
    BY DEF FrontendInv
  <2> QED BY <1>1, <1>3, <2>1, OpenChannelsServeOnce
<1>5. socket' # 0 /\ listeners' = <<>> /\ installed' = installed /\ Len(<<>>) = 0
  BY <1>1 DEF Connect, Conns
<1>6. \A i \in Ids : channels'[i] # "none" => i < channelIdSeq' /\ owner'[i] \in installed'
  BY <1>1, <1>3, <1>4, <1>5
<1>7. Bookkeeping' /\ OneConnectionPerHandler'
  BY <1>4, <1>5, <1>6 DEF Bookkeeping, OneConnectionPerHandler
<1> QED BY <1>2, <1>7 DEF FrontendInv

LEMMA OrderingsAre ==
  ASSUME ChannelsAssumption, NEW S \in SUBSET Ids, NEW ids \in Orderings(S)
  PROVE  /\ ids \in Seq(S)
         /\ \A j, k \in 1..Len(ids) : ids[j] = ids[k] => j = k
         /\ \A i \in S : \E k \in 1..Len(ids) : ids[k] = i
<1>1. IsFiniteSet(Ids)
  BY FS_Interval DEF Ids, ChannelsAssumption
<1>2. Cardinality(S) \in Nat
  BY <1>1, FS_Subset, FS_CardinalityType
<1>3. /\ ids \in [1..Cardinality(S) -> S]
      /\ \A j, k \in 1..Cardinality(S) : ids[j] = ids[k] => j = k
      /\ \A i \in S : \E k \in 1..Cardinality(S) : ids[k] = i
  BY DEF Orderings, Bijection, Injection, Surjection, IsInjective
<1>4. ids \in Seq(S) /\ Len(ids) = Cardinality(S)
  BY <1>2, <1>3
<1> QED BY <1>3, <1>4

LEMMA ClientClosePreserves ==
  ASSUME ChannelsAssumption, FrontendInv, ClientClose
  PROVE  FrontendInv'
<1> DEFINE lost == {i \in OpenIds : owner[i] \in Reconnecting}
<1>1. TypeOK /\ Bookkeeping /\ OneConnectionPerHandler
  BY DEF FrontendInv
<1>2. socket # 0 /\ listeners = <<>> /\ socket \in Conns
  BY <1>1 DEF ClientClose, Bookkeeping, TypeOK, Conns
<1>3. PICK ids \in Orderings(lost) :
        listeners' = listeners \o [k \in 1..Len(ids) |-> owner[ids[k]]]
  BY DEF ClientClose
<1>4. lost \in SUBSET Ids
  BY DEF OpenIds
<1>5. ids \in Seq(lost) /\ \A j, k \in 1..Len(ids) : ids[j] = ids[k] => j = k
  BY <1>4, OrderingsAre
<1>6. \A i \in lost : /\ i \in Ids /\ channels[i] # "none"
                      /\ owner[i] \in installed /\ owner[i] \in Reconnecting /\ owner[i] \in Handlers
  BY <1>1 DEF OpenIds, Bookkeeping, TypeOK
<1> DEFINE relisten == [k \in 1..Len(ids) |-> owner[ids[k]]]
<1>7. relisten \in Seq(Handlers)
  <2>1. \A k \in 1..Len(ids) : owner[ids[k]] \in Handlers
    BY <1>5, <1>6
  <2>2. Len(ids) \in Nat
    BY <1>5
  <2> QED BY <2>1, <2>2
<1>8. listeners' = relisten
  BY <1>2, <1>3, <1>7, ConcatEmptySeq
<1>9. /\ Len(listeners') = Len(ids)
      /\ \A k \in 1..Len(ids) : ids[k] \in lost /\ listeners'[k] = owner[ids[k]]
  BY <1>5, <1>8
<1>10. \A k \in 1..Len(listeners') : listeners'[k] \in installed'
  BY <1>6, <1>9 DEF ClientClose
<1>11. \A j, k \in 1..Len(listeners') : listeners'[j] = listeners'[k] => j = k
  BY <1>1, <1>5, <1>6, <1>9 DEF OneConnectionPerHandler
<1>12. socket' = 0 /\ \A i \in Ids : channels'[i] = "none"
  BY DEF ClientClose
<1>13. Bookkeeping' /\ OneConnectionPerHandler'
  BY <1>10, <1>11, <1>12 DEF Bookkeeping, OneConnectionPerHandler
<1>14. TypeOK'
  <2>1. listeners' \in Seq(Handlers)
    BY <1>7, <1>8
  <2>2. channels' \in [Ids -> {"none", "opening", "open"}] /\ installed' \subseteq Handlers
    BY <1>1 DEF ClientClose, TypeOK
  <2>3. down' \in [Conns -> Seq(Message)]
    <3>1. <<>> \in Seq(Message)
      BY EmptySeq
    <3>2. down \in [Conns -> Seq(Message)] /\ down' = [down EXCEPT ![socket] = <<>>]
      BY <1>1 DEF ClientClose, TypeOK
    <3> QED BY <3>1, <3>2
  <2> QED BY <1>1, <2>1, <2>2, <2>3 DEF ClientClose, TypeOK, serverVars, ChannelsAssumption
<1> QED BY <1>13, <1>14 DEF FrontendInv

LEMMA CloseChannelPreserves ==
  ASSUME ChannelsAssumption, FrontendInv, NEW i \in Ids, CloseChannel(i)
  PROVE  FrontendInv'
<1>1. TypeOK /\ Bookkeeping /\ OneConnectionPerHandler
  BY DEF FrontendInv
<1>2. /\ socket # 0 /\ socket \in Conns /\ listeners = <<>> /\ listeners' = <<>>
      /\ socket' = socket /\ channels[i] # "none" /\ owner[i] \in installed /\ owner[i] \in Handlers
      /\ <<CloseMessage(i)>> \in Seq(Message)
  BY <1>1 DEF CloseChannel, TypeOK, Bookkeeping, Conns, CloseMessage, Message
<1>3. PICK hs \in {<<>>, <<owner[i]>>} :
        /\ OpenChannels(socket, <<CloseMessage(i)>>, Ids \ {i}, hs)
        /\ hs = <<>> => installed' = installed \ {owner[i]}
        /\ hs = <<owner[i]>> => installed' = installed
  BY DEF CloseChannel
<1>4. /\ hs \in Seq(Handlers) /\ Ids \ {i} \in SUBSET Ids
      /\ \A k \in 1..Len(hs) : hs[k] = owner[i] /\ k = 1 /\ hs = <<owner[i]>>
  <2>1. CASE hs = <<>>
    BY <2>1, EmptySeq
  <2>2. CASE hs = <<owner[i]>>
    BY <1>2, <2>2
  <2> QED BY <2>1, <2>2
<1>5. TypeOK'
  <2>1. /\ channelIdSeq' \in 0..MaxChannels
        /\ channels' \in [Ids -> {"none", "opening", "open"}]
        /\ owner' \in [Ids -> Handlers \cup {NoHandler}]
        /\ up' \in [Conns -> Seq(Message)]
    BY <1>1, <1>2, <1>3, <1>4, OpenChannelsType
  <2>2. installed' \subseteq Handlers
    BY <1>1, <1>3 DEF TypeOK
  <2> QED BY <1>1, <1>2, <2>1, <2>2 DEF CloseChannel, TypeOK, serverVars
<1>6. \A j \in Ids \ {i} : channels[j] # "none" => owner[j] # owner[i]
  BY <1>1, <1>2 DEF OneConnectionPerHandler
<1>7. /\ \A j \in Ids : channels'[j] # "none" =>
           /\ j < channelIdSeq'
           /\ \/ j \in Ids \ {i} /\ channels[j] # "none" /\ owner'[j] = owner[j]
              \/ \E k \in 1..Len(hs) : j = channelIdSeq + k - 1 /\ owner'[j] = hs[k]
      /\ \A j, k \in Ids :
           channels'[j] # "none" /\ channels'[k] # "none" /\ owner'[j] = owner'[k] => j = k
  <2>1. /\ \A k \in 1..Len(hs), j \in Ids \ {i} : channels[j] # "none" => owner[j] # hs[k]
        /\ \A j, k \in 1..Len(hs) : hs[j] = hs[k] => j = k
    BY <1>4, <1>6
  <2> QED BY <1>1, <1>2, <1>3, <1>4, <2>1, OpenChannelsServeOnce
<1>8. \A j \in Ids : channels'[j] # "none" => j < channelIdSeq' /\ owner'[j] \in installed'
  <2> SUFFICES ASSUME NEW j \in Ids, channels'[j] # "none"
               PROVE  owner'[j] \in installed'
    BY <1>7
  <2>1. CASE j \in Ids \ {i} /\ channels[j] # "none" /\ owner'[j] = owner[j]
    <3>1. owner[j] \in installed /\ owner[j] # owner[i]
      BY <1>1, <1>6, <2>1 DEF Bookkeeping
    <3> QED BY <1>3, <2>1, <3>1
  <2>2. CASE \E k \in 1..Len(hs) : owner'[j] = hs[k]
    BY <1>2, <1>3, <1>4, <2>2
  <2> QED BY <1>7, <2>1, <2>2
<1>9. Len(<<>>) = 0
  OBVIOUS
<1>10. Bookkeeping' /\ OneConnectionPerHandler'
  BY <1>2, <1>7, <1>8, <1>9 DEF Bookkeeping, OneConnectionPerHandler
<1> QED BY <1>5, <1>10 DEF FrontendInv

\* The actions that change no channel and no listener, or only make an opening channel open.
LEMMA TrafficPreserves ==
  ASSUME FrontendInv, TypeOK',
         UNCHANGED <<socket, installed, listeners, channelIdSeq, owner>>,
         \A i \in Ids : channels'[i] # "none" <=> channels[i] # "none"
  PROVE  FrontendInv'
<1>1. Bookkeeping'
  BY DEF FrontendInv, Bookkeeping
<1>2. OneConnectionPerHandler'
  BY DEF FrontendInv, OneConnectionPerHandler
<1> QED BY <1>1, <1>2 DEF FrontendInv

LEMMA ClientReceivesType ==
  ASSUME TypeOK, NEW msg, ClientReceives(msg)
  PROVE  /\ socket \in Conns /\ msg \in Message
         /\ down' \in [Conns -> Seq(Message)]
<1>1. socket \in Conns /\ down[socket] \in Seq(Message) /\ down[socket] # <<>>
  BY DEF ClientReceives, TypeOK, Conns
<1>2. Head(down[socket]) \in Message /\ Tail(down[socket]) \in Seq(Message)
  BY <1>1, HeadTailProperties
<1> QED BY <1>1, <1>2 DEF ClientReceives, TypeOK

LEMMA ServerReceivesType ==
  ASSUME TypeOK, NEW c \in Conns, NEW msg, ServerReceives(c, msg)
  PROVE  msg \in Message /\ up' \in [Conns -> Seq(Message)]
<1>1. up[c] \in Seq(Message) /\ up[c] # <<>>
  BY DEF ServerReceives, TypeOK
<1>2. Head(up[c]) \in Message /\ Tail(up[c]) \in Seq(Message)
  BY <1>1, HeadTailProperties
<1> QED BY <1>2 DEF ServerReceives, TypeOK

LEMMA ClientSendPreserves ==
  ASSUME FrontendInv, NEW i \in Ids, NEW m \in Contents, ClientSend(i, m)
  PROVE  FrontendInv'
<1>1. TypeOK /\ socket \in Conns /\ <<DataMessage(i, m)>> \in Seq(Message)
  BY DEF FrontendInv, ClientSend, TypeOK, Conns, DataMessage, Message
<1>2. up' \in [Conns -> Seq(Message)]
  BY <1>1, SendUpType DEF ClientSend, TypeOK
<1>3. TypeOK'
  BY <1>1, <1>2 DEF ClientSend, TypeOK, clientVars, serverVars
<1> QED BY <1>3, TrafficPreserves DEF ClientSend, clientVars

LEMMA ClientReceiveReadyPreserves ==
  ASSUME ChannelsAssumption, FrontendInv, NEW i \in Ids, NEW ms \in Bursts,
         ClientReceiveReady(i, ms)
  PROVE  FrontendInv'
<1>1. TypeOK /\ ClientReceives(ReadyMessage(i)) /\ ms \in Seq(Contents)
  BY DEF FrontendInv, ClientReceiveReady, ChannelsAssumption
<1>2. socket \in Conns /\ down' \in [Conns -> Seq(Message)]
  BY <1>1, ClientReceivesType
<1>3. [k \in 1..Len(ms) |-> DataMessage(i, ms[k])] \in Seq(Message)
  BY <1>1, DataMessagesType
<1>4. up' \in [Conns -> Seq(Message)]
  BY <1>1, <1>2, <1>3, SendUpType DEF ClientReceiveReady, TypeOK
<1>5. /\ channels' \in [Ids -> {"none", "opening", "open"}]
      /\ \A j \in Ids : channels'[j] # "none" <=> channels[j] # "none"
  BY <1>1 DEF ClientReceiveReady, TypeOK
<1>6. TypeOK'
  BY <1>1, <1>2, <1>4, <1>5 DEF ClientReceives, TypeOK, serverVars
<1> QED BY <1>1, <1>5, <1>6, TrafficPreserves DEF ClientReceives

LEMMA ClientReceiveDataPreserves ==
  ASSUME FrontendInv, NEW i \in Ids, NEW m \in Contents, ClientReceiveData(i, m)
  PROVE  FrontendInv'
<1>1. TypeOK /\ ClientReceives(DataMessage(i, m))
  BY DEF FrontendInv, ClientReceiveData
<1>2. TypeOK'
  BY <1>1, ClientReceivesType DEF ClientReceiveData, ClientReceives, TypeOK, serverVars
<1> QED BY <1>1, <1>2, TrafficPreserves DEF ClientReceiveData, ClientReceives

LEMMA ServerChannelsType ==
  ASSUME TypeOK, NEW c \in Conns, NEW i \in Ids, NEW h \in Handlers \cup {NoHandler},
         serverChannels' = [serverChannels EXCEPT ![c][i] = h]
  PROVE  serverChannels' \in [Conns -> [Ids -> Handlers \cup {NoHandler}]]
<1>1. serverChannels \in [Conns -> [Ids -> Handlers \cup {NoHandler}]]
  BY DEF TypeOK
<1> QED BY <1>1

LEMMA ServerPreserves ==
  ASSUME FrontendInv, NEW c \in Conns,
         \/ \E i \in Ids, h \in Handlers : ServerReceiveOpen(c, i, h)
         \/ \E i \in Ids : ServerReceiveClose(c, i)
         \/ \E i \in Ids, m \in Contents : ServerReceiveData(c, i, m) \/ ServerSend(c, i, m)
         \/ ServerClose(c)
  PROVE  FrontendInv'
<1>1. TypeOK /\ UNCHANGED clientVars
  BY DEF FrontendInv, ServerReceiveOpen, ServerReceiveClose, ServerReceiveData, ServerSend,
         ServerClose, ServerReceives
<1>2. \A i \in Ids : /\ ReadyMessage(i) \in Message
                    /\ \A m \in Contents : DataMessage(i, m) \in Message
  BY DEF ReadyMessage, DataMessage, Message
<1>3. TypeOK'
  <2>1. ASSUME NEW i \in Ids, NEW h \in Handlers, ServerReceiveOpen(c, i, h)
        PROVE  TypeOK'
    <3>1. up' \in [Conns -> Seq(Message)] /\ sockets' = sockets
      BY <1>1, <2>1, ServerReceivesType DEF ServerReceiveOpen, ServerReceives
    <3>2. down' \in [Conns -> Seq(Message)]
      BY <1>1, <1>2, <2>1, SendDownType DEF ServerReceiveOpen, TypeOK
    <3>3. serverChannels' \in [Conns -> [Ids -> Handlers \cup {NoHandler}]]
      <4>1. CASE h \in Routable
        BY <1>1, <2>1, <4>1, ServerChannelsType DEF ServerReceiveOpen
      <4>2. CASE h \notin Routable
        BY <1>1, <2>1, <4>2 DEF ServerReceiveOpen, TypeOK
      <4> QED BY <4>1, <4>2
    <3> QED BY <1>1, <3>1, <3>2, <3>3 DEF TypeOK, clientVars
  <2>2. ASSUME NEW i \in Ids, ServerReceiveClose(c, i)
        PROVE  TypeOK'
    <3>1. up' \in [Conns -> Seq(Message)] /\ sockets' = sockets /\ down' = down
      BY <1>1, <2>2, ServerReceivesType DEF ServerReceiveClose, ServerReceives
    <3>2. serverChannels' \in [Conns -> [Ids -> Handlers \cup {NoHandler}]]
      BY <1>1, <2>2, ServerChannelsType DEF ServerReceiveClose
    <3> QED BY <1>1, <3>1, <3>2 DEF TypeOK, clientVars
  <2>3. ASSUME NEW i \in Ids, NEW m \in Contents, ServerReceiveData(c, i, m)
        PROVE  TypeOK'
    BY <1>1, <2>3, ServerReceivesType DEF ServerReceiveData, ServerReceives, TypeOK, clientVars
  <2>4. ASSUME NEW i \in Ids, NEW m \in Contents, ServerSend(c, i, m)
        PROVE  TypeOK'
    <3>1. down' \in [Conns -> Seq(Message)]
      BY <1>1, <1>2, <2>4, SendDownType DEF ServerSend, TypeOK
    <3> QED BY <1>1, <2>4, <3>1 DEF ServerSend, TypeOK, clientVars, serverVars
  <2>5. CASE ServerClose(c)
    <3>1. up' = [up EXCEPT ![c] = <<>>] /\ <<>> \in Seq(Message)
      BY <2>5, EmptySeq DEF ServerClose
    <3>2. up' \in [Conns -> Seq(Message)]
      BY <1>1, <3>1 DEF TypeOK
    <3>3. /\ sockets' \subseteq Conns /\ down' = down
          /\ serverChannels' \in [Conns -> [Ids -> Handlers \cup {NoHandler}]]
      BY <1>1, <2>5 DEF ServerClose, TypeOK
    <3> QED BY <1>1, <3>2, <3>3 DEF TypeOK, clientVars
  <2> QED BY <2>1, <2>2, <2>3, <2>4, <2>5
<1> QED BY <1>1, <1>3, TrafficPreserves DEF clientVars

-----------------------------------------------------------------------------
(* The two ends agree. *)

\* What is known of a message on its way: its id has been allocated; an open names the
\* handler that the id was allocated for; a close is for a channel that is gone.
UpOk(c, m) ==
  /\ m.id < channelIdSeq
  /\ m.kind = "open" => m.path = owner[m.id]
  /\ m.kind = "close" /\ c = socket => channels[m.id] = "none"

\* A ready for a channel that is still wanted comes from a service that is connected.
DownOk(m) ==
  m.kind = "ready" =>
    /\ m.id < channelIdSeq
    /\ channels[m.id] # "none" /\ socket \in sockets =>
         serverChannels[socket][m.id] = owner[m.id]

Wire ==
  /\ socket <= connSeq
  /\ \A c \in sockets : c <= connSeq
  /\ \A c \in Conns : c > connSeq => up[c] = <<>> /\ down[c] = <<>>
  /\ \A c \in Conns : \A n \in 1..Len(up[c]) : UpOk(c, up[c][n])
  /\ socket # 0 => \A n \in 1..Len(down[socket]) : DownOk(down[socket][n])
  /\ \A c \in Conns, i \in Ids :
       serverChannels[c][i] # NoHandler => i < channelIdSeq /\ serverChannels[c][i] = owner[i]

Inv == FrontendInv /\ Wire /\ ChannelsAgree

LEMMA SentUp ==
  ASSUME up \in [Conns -> Seq(Message)], NEW c \in Conns, NEW msgs \in Seq(Message),
         SendUp(c, msgs)
  PROVE  \A d \in Conns : \A n \in 1..Len(up'[d]) :
           \/ n \in 1..Len(up[d]) /\ up'[d][n] = up[d][n]
           \/ d = c /\ \E k \in 1..Len(msgs) : up'[d][n] = msgs[k]
<1> SUFFICES ASSUME NEW d \in Conns, NEW n \in 1..Len(up'[d])
             PROVE  \/ n \in 1..Len(up[d]) /\ up'[d][n] = up[d][n]
                    \/ d = c /\ \E k \in 1..Len(msgs) : up'[d][n] = msgs[k]
  OBVIOUS
<1>1. CASE d = c /\ c \in sockets'
  <2>1. up'[d] = up[d] \o msgs /\ up[d] \in Seq(Message)
    BY <1>1 DEF SendUp
  <2>2. /\ Len(up'[d]) = Len(up[d]) + Len(msgs) /\ Len(up[d]) \in Nat /\ Len(msgs) \in Nat
        /\ up'[d][n] = IF n <= Len(up[d]) THEN up[d][n] ELSE msgs[n - Len(up[d])]
    BY <2>1, ConcatProperties, LenProperties
  <2>3. CASE n <= Len(up[d])
    BY <2>2, <2>3
  <2>4. CASE ~ (n <= Len(up[d]))
    <3>1. n - Len(up[d]) \in 1..Len(msgs) /\ up'[d][n] = msgs[n - Len(up[d])]
      BY <2>2, <2>4
    <3> QED BY <1>1, <3>1
  <2> QED BY <2>3, <2>4
<1>2. CASE ~ (d = c /\ c \in sockets')
  <2>1. up'[d] = up[d]
    BY <1>2 DEF SendUp
  <2> QED BY <2>1
<1> QED BY <1>1, <1>2

LEMMA SentDown ==
  ASSUME down \in [Conns -> Seq(Message)], NEW c \in Conns, NEW msg \in Message,
         SendDown(c, msg)
  PROVE  \A d \in Conns : \A n \in 1..Len(down'[d]) :
           \/ n \in 1..Len(down[d]) /\ down'[d][n] = down[d][n]
           \/ d = c /\ c = socket /\ down'[d][n] = msg
BY DEF SendDown

LEMMA Received ==
  ASSUME NEW q \in Seq(Message), q # <<>>
  PROVE  /\ 1 \in 1..Len(q) /\ Head(q) = q[1]
         /\ \A n \in 1..Len(Tail(q)) : n + 1 \in 1..Len(q) /\ Tail(q)[n] = q[n + 1]
BY HeadTailProperties

LEMMA OldIdsKeep ==
  ASSUME ChannelsAssumption, TypeOK, NEW c \in Conns, NEW pre,
         NEW kept \in SUBSET Ids, NEW hs \in Seq(Handlers),
         OpenChannels(c, pre, kept, hs)
  PROVE  /\ channelIdSeq <= channelIdSeq'
         /\ \A i \in Ids : i < channelIdSeq =>
              /\ owner'[i] = owner[i]
              /\ channels'[i] # "none" => channels'[i] = channels[i] /\ i \in kept
              /\ channels[i] = "none" => channels'[i] = "none"
         /\ \A i \in Ids : channels'[i] = "open" => i \in kept /\ channels[i] = "open"
         /\ \A k \in 1..Len(hs) :
              channelIdSeq + k - 1 < channelIdSeq' /\ owner'[channelIdSeq + k - 1] = hs[k]
<1>1. /\ channelIdSeq \in Nat /\ Len(hs) \in Nat /\ channelIdSeq + Len(hs) <= MaxChannels
      /\ channelIdSeq' = channelIdSeq + Len(hs)
  BY DEF TypeOK, OpenChannels, ChannelsAssumption
<1>2. \A i \in Ids : i < channelIdSeq =>
        i \notin channelIdSeq..(channelIdSeq + Len(hs) - 1)
  BY <1>1 DEF Ids
<1>3. ASSUME NEW k \in 1..Len(hs)
      PROVE  channelIdSeq + k - 1 < channelIdSeq' /\ owner'[channelIdSeq + k - 1] = hs[k]
  <2>1. /\ channelIdSeq + k - 1 \in Ids
        /\ channelIdSeq + k - 1 \in channelIdSeq..(channelIdSeq + Len(hs) - 1)
        /\ (channelIdSeq + k - 1) - channelIdSeq + 1 = k
        /\ channelIdSeq + k - 1 < channelIdSeq'
    BY <1>1 DEF Ids, ChannelsAssumption
  <2> QED BY <2>1 DEF OpenChannels
<1>4. \A i \in Ids : i < channelIdSeq =>
        /\ owner'[i] = owner[i]
        /\ channels'[i] # "none" => channels'[i] = channels[i] /\ i \in kept
        /\ channels[i] = "none" => channels'[i] = "none"
  BY <1>2 DEF OpenChannels
<1>5. \A i \in Ids : channels'[i] = "open" => i \in kept /\ channels[i] = "open"
  BY DEF OpenChannels
<1> QED BY <1>1, <1>3, <1>4, <1>5

\* What Wire and TypeOK say of a message on its way to the frontend.
LEMMA DownMessages ==
  ASSUME TypeOK, Wire, socket # 0, NEW n \in 1..Len(down[socket])
  PROVE  DownOk(down[socket][n]) /\ down[socket][n].id \in Ids
<1>1. socket \in Conns
  BY DEF TypeOK, Conns
<1>2. down[socket] \in Seq(Message)
  BY <1>1 DEF TypeOK
<1>3. down[socket][n].id \in Ids
  BY <1>2 DEF Message
<1>4. DownOk(down[socket][n])
  BY DEF Wire
<1> QED BY <1>3, <1>4

LEMMA OpenChannelsWire ==
  ASSUME ChannelsAssumption, TypeOK, Bookkeeping, Wire, ChannelsAgree, TypeOK',
         NEW c \in Conns, NEW pre \in Seq(Message), NEW kept \in SUBSET Ids,
         NEW hs \in Seq(Handlers), OpenChannels(c, pre, kept, hs),
         c = socket', socket' # 0, socket' <= connSeq', connSeq <= connSeq',
         \A d \in sockets' : d <= connSeq',
         socket = socket' \/ (socket = 0 /\ connSeq < socket'),
         socket = socket' => sockets' = sockets,
         \A k \in 1..Len(pre) : /\ pre[k].kind = "close" /\ pre[k].id \notin kept
                                /\ pre[k].id \in Ids /\ pre[k].id < channelIdSeq,
         UNCHANGED <<serverChannels, down>>
  PROVE  Wire' /\ ChannelsAgree'
<1> DEFINE opens == [k \in 1..Len(hs) |-> OpenMessage(channelIdSeq + k - 1, hs[k])]
<1>1. /\ channelIdSeq \in Nat /\ Len(hs) \in Nat /\ channelIdSeq + Len(hs) <= MaxChannels
      /\ channelIdSeq' \in Nat /\ socket \in Nat /\ connSeq \in Nat /\ connSeq' \in Nat
  BY DEF TypeOK, OpenChannels, ChannelsAssumption
<1>2. opens \in Seq(Message) /\ pre \o opens \in Seq(Message) /\ SendUp(c, pre \o opens)
  BY <1>1, OpenMessagesType, ConcatProperties DEF OpenChannels
<1>3. \A k \in 1..Len(pre \o opens) :
        \/ \E j \in 1..Len(pre) : (pre \o opens)[k] = pre[j]
        \/ \E j \in 1..Len(hs) : (pre \o opens)[k] = OpenMessage(channelIdSeq + j - 1, hs[j])
  <2> SUFFICES ASSUME NEW k \in 1..Len(pre \o opens)
               PROVE  \/ \E j \in 1..Len(pre) : (pre \o opens)[k] = pre[j]
                      \/ \E j \in 1..Len(hs) :
                           (pre \o opens)[k] = OpenMessage(channelIdSeq + j - 1, hs[j])
    OBVIOUS
  <2>1. /\ Len(pre \o opens) = Len(pre) + Len(opens) /\ Len(pre) \in Nat /\ Len(opens) = Len(hs)
        /\ (pre \o opens)[k] = IF k <= Len(pre) THEN pre[k] ELSE opens[k - Len(pre)]
    BY <1>1, <1>2, ConcatProperties, LenProperties
  <2>2. CASE k <= Len(pre)
    BY <2>1, <2>2
  <2>3. CASE ~ (k <= Len(pre))
    <3>1. k - Len(pre) \in 1..Len(hs) /\ (pre \o opens)[k] = opens[k - Len(pre)]
      BY <1>1, <2>1, <2>3
    <3> QED BY <3>1
  <2> QED BY <2>2, <2>3
<1>4. /\ channelIdSeq <= channelIdSeq'
      /\ \A i \in Ids : i < channelIdSeq =>
           /\ owner'[i] = owner[i]
           /\ channels'[i] # "none" => channels'[i] = channels[i] /\ i \in kept
           /\ channels[i] = "none" => channels'[i] = "none"
      /\ \A i \in Ids : channels'[i] = "open" => i \in kept /\ channels[i] = "open"
      /\ \A k \in 1..Len(hs) :
           channelIdSeq + k - 1 < channelIdSeq' /\ owner'[channelIdSeq + k - 1] = hs[k]
  BY OldIdsKeep
<1>5. \A d \in Conns : \A n \in 1..Len(up'[d]) : UpOk(d, up[d][n])'
  <2> SUFFICES ASSUME NEW d \in Conns, NEW n \in 1..Len(up'[d])
               PROVE  UpOk(d, up[d][n])'
    OBVIOUS
  <2>1. up \in [Conns -> Seq(Message)] /\ up' \in [Conns -> Seq(Message)]
    BY DEF TypeOK
  <2>2. up'[d][n] \in Message /\ up'[d][n].id \in Ids
    BY <2>1 DEF Message
  <2>3. CASE n \in 1..Len(up[d]) /\ up'[d][n] = up[d][n]
    <3>1. UpOk(d, up[d][n])
      BY <2>3 DEF Wire
    <3>2. d <= connSeq
      BY <1>1, <2>3 DEF Wire, Conns
    <3>3. d = socket' => d = socket
      BY <1>1, <3>2 DEF Conns
    <3> DEFINE i == up[d][n].id
    <3>4. i \in Ids /\ i < channelIdSeq /\ up'[d][n].id = i
      BY <2>2, <2>3, <3>1 DEF UpOk
    <3>5. i < channelIdSeq'
      BY <1>1, <1>4, <3>4 DEF Ids
    <3>6. owner'[i] = owner[i] /\ (channels[i] = "none" => channels'[i] = "none")
      BY <1>4, <3>4
    <3> HIDE DEF i
    <3> QED BY <2>3, <3>1, <3>3, <3>4, <3>5, <3>6 DEF UpOk
  <2>4. CASE d = c /\ \E k \in 1..Len(pre \o opens) : up'[d][n] = (pre \o opens)[k]
    <3>1. CASE \E j \in 1..Len(pre) : up'[d][n] = pre[j]
      <4>1. PICK j \in 1..Len(pre) : up'[d][n] = pre[j]
        BY <3>1
      <4>2. /\ up'[d][n].kind = "close" /\ up'[d][n].id < channelIdSeq
            /\ up'[d][n].id \notin kept
        BY <4>1
      <4>3. channels'[up'[d][n].id] = "none"
        BY <1>4, <2>2, <4>2
      <4>4. /\ up'[d][n].kind = "close" /\ up'[d][n].id < channelIdSeq'
            /\ channels'[up'[d][n].id] = "none"
        BY <1>1, <1>4, <2>2, <4>2, <4>3 DEF Ids
      <4> QED BY <4>4 DEF UpOk
    <3>2. CASE \E j \in 1..Len(hs) : up'[d][n] = OpenMessage(channelIdSeq + j - 1, hs[j])
      <4>1. PICK j \in 1..Len(hs) : up'[d][n] = OpenMessage(channelIdSeq + j - 1, hs[j])
        BY <3>2
      <4> QED BY <1>4, <4>1 DEF UpOk, OpenMessage
    <3>3. PICK k \in 1..Len(pre \o opens) : up'[d][n] = (pre \o opens)[k]
      BY <2>4
    <3>4. \/ \E j \in 1..Len(pre) : (pre \o opens)[k] = pre[j]
          \/ \E j \in 1..Len(hs) : (pre \o opens)[k] = OpenMessage(channelIdSeq + j - 1, hs[j])
      BY <1>3
    <3>5. CASE \E j \in 1..Len(pre) : (pre \o opens)[k] = pre[j]
      BY <3>1, <3>3, <3>5
    <3>6. CASE \E j \in 1..Len(hs) :
                 (pre \o opens)[k] = OpenMessage(channelIdSeq + j - 1, hs[j])
      BY <3>2, <3>3, <3>6
    <3> QED BY <3>4, <3>5, <3>6
  <2>5. \/ n \in 1..Len(up[d]) /\ up'[d][n] = up[d][n]
        \/ d = c /\ \E k \in 1..Len(pre \o opens) : up'[d][n] = (pre \o opens)[k]
    <3> DEFINE msgs == pre \o opens
    <3>1. msgs \in Seq(Message) /\ SendUp(c, msgs)
      BY <1>2
    <3> HIDE DEF msgs, opens
    <3>2. \/ n \in 1..Len(up[d]) /\ up'[d][n] = up[d][n]
          \/ d = c /\ \E k \in 1..Len(msgs) : up'[d][n] = msgs[k]
      BY <2>1, <3>1, SentUp
    <3> QED BY <3>2 DEF msgs
  <2> QED BY <2>3, <2>4, <2>5
<1>6. \A n \in 1..Len(down'[socket']) : DownOk(down[socket][n])'
  <2>1. CASE socket = socket'
    <3> SUFFICES ASSUME NEW n \in 1..Len(down[socket]) PROVE DownOk(down[socket][n])'
      BY <2>1
    <3>1. DownOk(down[socket][n]) /\ down[socket][n].id \in Ids
      BY <1>1, <2>1, DownMessages
    <3> DEFINE m == down[socket][n]
    <3>2. down'[socket'][n] = m /\ sockets' = sockets /\ serverChannels' = serverChannels
      BY <2>1
    <3>3. m.id \in Ids /\ DownOk(m)
      BY <3>1
    <3> HIDE DEF m
    <3>4. CASE m.kind = "ready"
      <4>1. m.id < channelIdSeq /\ m.id < channelIdSeq' /\ owner'[m.id] = owner[m.id]
            /\ (channels[m.id] = "none" => channels'[m.id] = "none")
        <5>1. m.id \in Ids /\ m.id < channelIdSeq /\ m.id \in Nat
          BY <3>3, <3>4 DEF DownOk, Ids
        <5> QED BY <1>1, <1>4, <5>1
      <4> QED BY <2>1, <3>2, <3>3, <4>1 DEF DownOk
    <3> QED BY <3>2, <3>4 DEF DownOk
  <2>2. CASE socket = 0 /\ connSeq < socket'
    <3>1. down'[socket'] = <<>>
      BY <2>2 DEF Wire
    <3> QED BY <3>1, EmptySeq
  <2> QED BY <2>1, <2>2
<1>7. \A d \in Conns : d > connSeq' => up'[d] = <<>> /\ down'[d] = <<>>
  <2> SUFFICES ASSUME NEW d \in Conns, d > connSeq' PROVE up'[d] = <<>> /\ down'[d] = <<>>
    OBVIOUS
  <2>1. d > connSeq /\ d # c
    BY <1>1 DEF Conns
  <2>2. up'[d] = up[d] /\ down'[d] = down[d]
    BY <1>2, <2>1 DEF SendUp, TypeOK
  <2> QED BY <2>1, <2>2 DEF Wire
<1>8. \A d \in Conns, i \in Ids :
        serverChannels'[d][i] # NoHandler =>
          i < channelIdSeq' /\ serverChannels'[d][i] = owner'[i]
  BY <1>1, <1>4 DEF Wire, Ids
<1>9. ChannelsAgree'
  <2>1. ASSUME NEW i \in Ids, channels'[i] = "open", socket' \in sockets'
        PROVE  serverChannels'[socket'][i] = owner'[i]
    <3>1. channels[i] = "open" /\ i < channelIdSeq /\ socket # 0
      BY <1>4, <2>1 DEF Bookkeeping
    <3>2. socket = socket' /\ sockets = sockets'
      BY <3>1
    <3>3. serverChannels[socket][i] = owner[i]
      BY <2>1, <3>1, <3>2 DEF ChannelsAgree
    <3> QED BY <1>4, <3>1, <3>2, <3>3
  <2> QED BY <2>1 DEF ChannelsAgree
<1> QED BY <1>5, <1>6, <1>7, <1>8, <1>9 DEF Wire

LEMMA OpeningWire ==
  ASSUME ChannelsAssumption, Inv, FrontendInv',
         Connect \/ (\E h \in Handlers : Listen(h)) \/ (\E i \in Ids : CloseChannel(i))
  PROVE  Wire' /\ ChannelsAgree'
<1>1. /\ FrontendInv /\ TypeOK /\ Bookkeeping /\ Wire /\ ChannelsAgree /\ TypeOK'
      /\ connSeq \in Nat /\ socket \in Nat
  BY DEF Inv, FrontendInv, TypeOK
<1> DEFINE none == <<>>
<1>5. /\ none \in Seq(Message) /\ Ids \in SUBSET Ids
      /\ \A k \in 1..Len(none) : /\ none[k].kind = "close" /\ none[k].id \notin Ids
                                 /\ none[k].id \in Ids /\ none[k].id < channelIdSeq
  BY EmptySeq
<1>2. CASE Connect
  <2>1. /\ connSeq + 1 \in Conns /\ listeners \in Seq(Handlers)
        /\ OpenChannels(connSeq + 1, none, Ids, listeners)
        /\ connSeq + 1 = socket' /\ socket' = connSeq + 1 /\ connSeq' = connSeq + 1 /\ socket = 0
        /\ sockets' = sockets \cup {connSeq + 1} /\ UNCHANGED <<serverChannels, down>>
    BY <1>1, <1>2 DEF Connect, TypeOK, Conns, ChannelsAssumption
  <2>2. \A d \in sockets' : d <= connSeq'
    BY <1>1, <2>1 DEF Wire, TypeOK, Conns
  <2>3. socket' # 0 /\ socket' <= connSeq' /\ connSeq <= connSeq' /\ connSeq < socket'
        /\ socket # socket'
    BY <1>1, <2>1
  <2> HIDE DEF none
  <2> QED BY <1>1, <1>5, <2>1, <2>2, <2>3, OpenChannelsWire
<1>3. ASSUME NEW h \in Handlers, Listen(h) PROVE Wire' /\ ChannelsAgree'
  <2>1. CASE socket # 0 /\ OpenChannels(socket, none, Ids, <<h>>)
    <3>1. /\ socket \in Conns /\ <<h>> \in Seq(Handlers)
          /\ UNCHANGED <<socket, connSeq, sockets, serverChannels, down>>
      BY <1>1, <1>3, <2>1 DEF Listen, TypeOK, Conns, serverVars
    <3>2. \A d \in sockets' : d <= connSeq'
      BY <1>1, <3>1 DEF Wire
    <3>3. socket' # 0 /\ socket = socket' /\ socket' <= connSeq' /\ connSeq <= connSeq'
          /\ sockets' = sockets
      BY <1>1, <2>1, <3>1 DEF Wire
    <3> HIDE DEF none
    <3> QED BY <1>1, <1>5, <2>1, <3>1, <3>2, <3>3, OpenChannelsWire
  <2>2. CASE UNCHANGED <<channelIdSeq, channels, owner, up>>
    <3>1. UNCHANGED <<socket, connSeq, sockets, serverChannels, down>>
      BY <1>3 DEF Listen, serverVars
    <3> QED BY <1>1, <2>2, <3>1 DEF Wire, UpOk, DownOk, ChannelsAgree
  <2> QED BY <1>3, <2>1, <2>2 DEF Listen
<1>4. ASSUME NEW i \in Ids, CloseChannel(i) PROVE Wire' /\ ChannelsAgree'
  <2>1. /\ socket # 0 /\ socket \in Conns /\ i < channelIdSeq
        /\ owner[i] \in Handlers
        /\ UNCHANGED <<socket, connSeq, sockets, serverChannels, down>>
    BY <1>1, <1>4 DEF CloseChannel, TypeOK, Bookkeeping, Conns, serverVars
  <2>2. PICK hs \in {<<>>, <<owner[i]>>} :
          OpenChannels(socket, <<CloseMessage(i)>>, Ids \ {i}, hs)
    BY <1>4 DEF CloseChannel
  <2>3. hs \in Seq(Handlers) /\ <<CloseMessage(i)>> \in Seq(Message) /\ Ids \ {i} \in SUBSET Ids
    <3>1. <<>> \in Seq(Handlers) /\ <<owner[i]>> \in Seq(Handlers)
      BY <2>1, EmptySeq
    <3>2. CloseMessage(i) \in Message
      BY DEF CloseMessage, Message
    <3>3. hs \in Seq(Handlers)
      BY <2>2, <3>1
    <3>4. <<CloseMessage(i)>> \in Seq(Message)
      BY <3>2
    <3> QED BY <3>3, <3>4
  <2>4. \A k \in 1..Len(<<CloseMessage(i)>>) :
          /\ <<CloseMessage(i)>>[k].kind = "close" /\ <<CloseMessage(i)>>[k].id \notin Ids \ {i}
          /\ <<CloseMessage(i)>>[k].id \in Ids /\ <<CloseMessage(i)>>[k].id < channelIdSeq
    BY <2>1 DEF CloseMessage
  <2>5. (\A d \in sockets' : d <= connSeq') /\ socket' <= connSeq' /\ connSeq <= connSeq'
    BY <1>1, <2>1 DEF Wire
  <2> QED BY <1>1, <2>1, <2>2, <2>3, <2>4, <2>5, OpenChannelsWire
<1> QED BY <1>2, <1>3, <1>4

LEMMA ClientWire ==
  ASSUME ChannelsAssumption, Inv, FrontendInv',
         \/ ClientClose
         \/ \E i \in Ids, m \in Contents : ClientSend(i, m) \/ ClientReceiveData(i, m)
         \/ \E i \in Ids, ms \in Bursts : ClientReceiveReady(i, ms)
  PROVE  Wire' /\ ChannelsAgree'
<1>1. /\ FrontendInv /\ TypeOK /\ Bookkeeping /\ Wire /\ ChannelsAgree /\ TypeOK'
      /\ connSeq \in Nat /\ socket \in Nat
  BY DEF Inv, FrontendInv, TypeOK
<1>2. CASE ClientClose
  <2>1. /\ socket' = 0 /\ socket # 0 /\ \A j \in Ids : channels'[j] = "none"
        /\ UNCHANGED <<connSeq, channelIdSeq, owner, sockets, serverChannels, up>>
        /\ \A c \in Conns : down'[c] = down[c] \/ down'[c] = <<>>
    BY <1>1, <1>2 DEF ClientClose, serverVars, TypeOK
  <2>2. \A c \in Conns : \A n \in 1..Len(up'[c]) : UpOk(c, up[c][n])'
    BY <1>1, <2>1 DEF Wire, UpOk, Conns
  <2>3. ChannelsAgree'
    BY <2>1 DEF ChannelsAgree
  <2> QED BY <1>1, <2>1, <2>2, <2>3 DEF Wire
<1>3. ASSUME NEW msgs \in Seq(Message), socket \in Conns, SendUp(socket, msgs),
             \A k \in 1..Len(msgs) : msgs[k].kind = "data" /\ msgs[k].id < channelIdSeq,
             UNCHANGED <<socket, connSeq, channelIdSeq, owner, sockets, serverChannels>>,
             \A j \in Ids : channels'[j] # "none" <=> channels[j] # "none"
      PROVE  /\ \A c \in Conns : \A n \in 1..Len(up'[c]) : UpOk(c, up[c][n])'
             /\ \A c \in Conns : c > connSeq' => up'[c] = <<>>
  <2>1. \A c \in Conns : \A n \in 1..Len(up'[c]) :
          \/ n \in 1..Len(up[c]) /\ up'[c][n] = up[c][n]
          \/ c = socket /\ \E k \in 1..Len(msgs) : up'[c][n] = msgs[k]
    <3>1. up \in [Conns -> Seq(Message)] /\ socket \in Conns
      BY <1>1, <1>3 DEF TypeOK, Conns
    <3> QED BY <1>3, <3>1, SentUp
  <2>2. ASSUME NEW c \in Conns, NEW n \in 1..Len(up'[c])
        PROVE  UpOk(c, up[c][n])'
    <3>1. up'[c][n].id \in Ids
      BY <1>1, <2>2 DEF TypeOK, Message
    <3>2. CASE n \in 1..Len(up[c]) /\ up'[c][n] = up[c][n]
      BY <1>1, <1>3, <3>1, <3>2 DEF Wire, UpOk
    <3>3. CASE \E k \in 1..Len(msgs) : up'[c][n] = msgs[k]
      BY <1>3, <3>1, <3>3 DEF UpOk
    <3> QED BY <2>1, <3>2, <3>3
  <2>3. ASSUME NEW c \in Conns, c > connSeq' PROVE up'[c] = <<>>
    <3>1. c # socket
      BY <1>1, <1>3, <2>3 DEF Wire, Conns
    <3>2. up'[c] = up[c]
      BY <1>1, <1>3, <3>1 DEF SendUp, TypeOK
    <3> QED BY <1>1, <1>3, <2>3, <3>2 DEF Wire
  <2> QED BY <2>2, <2>3
<1>4. ASSUME NEW i \in Ids, NEW m \in Contents, ClientSend(i, m)
      PROVE  Wire' /\ ChannelsAgree'
  <2>1. /\ socket \in Conns /\ channels[i] = "open" /\ SendUp(socket, <<DataMessage(i, m)>>)
        /\ UNCHANGED <<socket, connSeq, channelIdSeq, owner, channels, sockets, serverChannels, down>>
        /\ <<DataMessage(i, m)>> \in Seq(Message)
    BY <1>1, <1>4 DEF ClientSend, clientVars, serverVars, TypeOK, Conns, DataMessage, Message
  <2>2. \A k \in 1..Len(<<DataMessage(i, m)>>) :
          <<DataMessage(i, m)>>[k].kind = "data" /\ <<DataMessage(i, m)>>[k].id < channelIdSeq
    BY <1>1, <2>1 DEF Bookkeeping, DataMessage
  <2>3. /\ \A c \in Conns : \A n \in 1..Len(up'[c]) : UpOk(c, up[c][n])'
        /\ \A c \in Conns : c > connSeq' => up'[c] = <<>>
    BY <1>3, <2>1, <2>2
  <2> QED BY <1>1, <2>1, <2>3 DEF Wire, DownOk, ChannelsAgree
<1>5. ASSUME NEW msg, ClientReceives(msg)
      PROVE  /\ socket \in Conns /\ DownOk(msg) /\ msg \in Message
             /\ UNCHANGED <<socket, connSeq, channelIdSeq, owner, sockets, serverChannels>>
             /\ \A n \in 1..Len(down'[socket]) :
                  n + 1 \in 1..Len(down[socket]) /\ down'[socket][n] = down[socket][n + 1]
             /\ \A c \in Conns : c > connSeq' => down'[c] = <<>>
  <2>1. /\ socket \in Conns /\ socket # 0 /\ down[socket] \in Seq(Message) /\ down[socket] # <<>>
        /\ msg = Head(down[socket]) /\ down'[socket] = Tail(down[socket])
        /\ \A c \in Conns : c # socket => down'[c] = down[c]
        /\ UNCHANGED <<socket, connSeq, channelIdSeq, owner, sockets, serverChannels>>
    BY <1>1, <1>5 DEF ClientReceives, TypeOK, Conns, serverVars
  <2>2. \A c \in Conns : c > connSeq' => c # socket
    BY <1>1, <2>1 DEF Wire, Conns
  <2>3. DownOk(msg) /\ msg \in Message
    BY <1>1, <2>1, Received DEF Wire
  <2> QED BY <1>1, <2>1, <2>2, <2>3, Received DEF Wire
<1>6. ASSUME NEW i \in Ids, NEW m \in Contents, ClientReceiveData(i, m)
      PROVE  Wire' /\ ChannelsAgree'
  <2>1. UNCHANGED <<channels, up>>
    BY <1>6 DEF ClientReceiveData
  <2>2. ClientReceives(DataMessage(i, m))
    BY <1>6 DEF ClientReceiveData
  <2>3. /\ socket # 0
        /\ UNCHANGED <<socket, connSeq, channelIdSeq, owner, sockets, serverChannels>>
        /\ \A n \in 1..Len(down'[socket]) :
             n + 1 \in 1..Len(down[socket]) /\ down'[socket][n] = down[socket][n + 1]
        /\ \A c \in Conns : c > connSeq' => down'[c] = <<>>
    BY <1>5, <2>2 DEF Conns
  <2>5. \A n \in 1..Len(down'[socket']) : DownOk(down[socket][n])'
    <3> SUFFICES ASSUME NEW n \in 1..Len(down'[socket']) PROVE DownOk(down[socket][n])'
      BY <2>3
    <3>1. DownOk(down[socket][n + 1])
      BY <1>1, <2>3 DEF Wire
    <3> QED BY <2>1, <2>3, <3>1 DEF DownOk
  <2>6. \A c \in Conns : \A n \in 1..Len(up'[c]) : UpOk(c, up[c][n])'
    BY <1>1, <2>1, <2>3 DEF Wire, UpOk
  <2>7. ChannelsAgree'
    BY <1>1, <2>1, <2>3 DEF ChannelsAgree
  <2> QED BY <1>1, <2>1, <2>3, <2>5, <2>6, <2>7 DEF Wire
<1>7. ASSUME NEW i \in Ids, NEW ms \in Bursts, ClientReceiveReady(i, ms)
      PROVE  Wire' /\ ChannelsAgree'
  <2> DEFINE msgs == [k \in 1..Len(ms) |-> DataMessage(i, ms[k])]
  <2>1. ClientReceives(ReadyMessage(i)) /\ ms \in Seq(Contents)
    BY <1>7 DEF ClientReceiveReady, ChannelsAssumption
  <2>2. /\ socket \in Conns /\ DownOk(ReadyMessage(i))
        /\ UNCHANGED <<socket, connSeq, channelIdSeq, owner, sockets, serverChannels>>
        /\ \A n \in 1..Len(down'[socket]) :
             n + 1 \in 1..Len(down[socket]) /\ down'[socket][n] = down[socket][n + 1]
        /\ \A c \in Conns : c > connSeq' => down'[c] = <<>>
    BY <1>5, <2>1
  <2>3. /\ i < channelIdSeq
        /\ channels[i] # "none" /\ socket \in sockets => serverChannels[socket][i] = owner[i]
    BY <2>2 DEF DownOk, ReadyMessage
  <2>4. \/ channels[i] # "none" /\ channels' = [channels EXCEPT ![i] = "open"]
           /\ SendUp(socket, msgs)
        \/ UNCHANGED <<channels, up>>
    BY <1>7 DEF ClientReceiveReady
  <2>5. \A j \in Ids : /\ channels'[j] # "none" <=> channels[j] # "none"
                       /\ j # i => channels'[j] = channels[j]
    BY <1>1, <2>4 DEF TypeOK
  <2>6. ChannelsAgree'
    BY <1>1, <2>2, <2>3, <2>4, <2>5 DEF ChannelsAgree
  <2>7. \A n \in 1..Len(down'[socket']) : DownOk(down[socket][n])'
    <3> SUFFICES ASSUME NEW n \in 1..Len(down'[socket]) PROVE DownOk(down[socket][n])'
      BY <2>2
    <3>1. DownOk(down[socket][n + 1]) /\ down[socket][n + 1].id \in Ids
      <4>1. socket # 0 /\ n + 1 \in 1..Len(down[socket]) /\ down[socket] \in Seq(Message)
        BY <1>1, <2>2 DEF TypeOK, Conns
      <4>2. down[socket][n + 1] \in Message
        BY <4>1
      <4> QED BY <1>1, <4>1, <4>2 DEF Wire, Message
    <3> QED BY <2>2, <2>5, <3>1 DEF DownOk
  <2>8. /\ \A c \in Conns : \A n \in 1..Len(up'[c]) : UpOk(c, up[c][n])'
        /\ \A c \in Conns : c > connSeq' => up'[c] = <<>>
    <3>1. CASE SendUp(socket, msgs)
      <4>1. msgs \in Seq(Message)
        BY <2>1, DataMessagesType
      <4>2. \A k \in 1..Len(msgs) : msgs[k].kind = "data" /\ msgs[k].id < channelIdSeq
        BY <2>1, <2>3 DEF DataMessage
      <4> HIDE DEF msgs
      <4> QED BY <1>3, <2>2, <2>5, <3>1, <4>1, <4>2
    <3>2. CASE UNCHANGED <<channels, up>>
      BY <1>1, <2>2, <3>2 DEF Wire, UpOk
    <3> QED BY <2>4, <3>1, <3>2
  <2> QED BY <1>1, <2>2, <2>6, <2>7, <2>8 DEF Wire
<1> QED BY <1>2, <1>4, <1>6, <1>7

LEMMA ServerReceivesWire ==
  ASSUME TypeOK, Wire, NEW c \in Conns, NEW msg, ServerReceives(c, msg)
  PROVE  /\ UpOk(c, msg) /\ msg \in Message
         /\ UNCHANGED <<socket, connSeq, channelIdSeq, owner, channels, sockets>>
         /\ \A d \in Conns : \A n \in 1..Len(up'[d]) : UpOk(d, up[d][n])'
         /\ \A d \in Conns : d > connSeq' => up'[d] = <<>>
<1>1. /\ up[c] \in Seq(Message) /\ up[c] # <<>> /\ msg = Head(up[c])
      /\ up'[c] = Tail(up[c])
      /\ \A d \in Conns : d # c => up'[d] = up[d]
      /\ UNCHANGED <<socket, connSeq, channelIdSeq, owner, channels, sockets>>
  BY DEF ServerReceives, TypeOK, clientVars
<1>2. /\ 1 \in 1..Len(up[c]) /\ Head(up[c]) = up[c][1]
      /\ \A n \in 1..Len(Tail(up[c])) : n + 1 \in 1..Len(up[c]) /\ Tail(up[c])[n] = up[c][n + 1]
  BY <1>1, Received
<1>3. UpOk(c, msg) /\ msg \in Message
  BY <1>1, <1>2 DEF Wire
<1>4. ASSUME NEW d \in Conns, NEW n \in 1..Len(up'[d])
      PROVE  UpOk(d, up[d][n])'
  <2>1. CASE d = c
    <3>1. up'[d][n] = up[c][n + 1] /\ UpOk(c, up[c][n + 1])
      BY <1>1, <1>2, <2>1 DEF Wire
    <3> QED BY <1>1, <2>1, <3>1 DEF UpOk
  <2>2. CASE d # c
    <3>1. up'[d][n] = up[d][n] /\ UpOk(d, up[d][n])
      BY <1>1, <2>2 DEF Wire
    <3> QED BY <1>1, <3>1 DEF UpOk
  <2> QED BY <2>1, <2>2
<1>5. ASSUME NEW d \in Conns, d > connSeq' PROVE up'[d] = <<>>
  BY <1>1, <1>5 DEF Wire
<1> QED BY <1>1, <1>3, <1>4, <1>5

LEMMA ServerWire ==
  ASSUME ChannelsAssumption, Inv, FrontendInv',
         NEW c \in Conns,
         \/ \E i \in Ids, h \in Handlers : ServerReceiveOpen(c, i, h)
         \/ \E i \in Ids : ServerReceiveClose(c, i)
         \/ \E i \in Ids, m \in Contents : ServerReceiveData(c, i, m) \/ ServerSend(c, i, m)
         \/ ServerClose(c)
  PROVE  Wire' /\ ChannelsAgree'
<1>1. /\ FrontendInv /\ TypeOK /\ Bookkeeping /\ Wire /\ ChannelsAgree /\ TypeOK'
      /\ connSeq \in Nat /\ socket \in Nat /\ (socket # 0 => socket \in Conns)
  <2>1. FrontendInv /\ TypeOK /\ Bookkeeping /\ Wire /\ ChannelsAgree /\ TypeOK'
    BY DEF Inv, FrontendInv
  <2>2. socket \in 0..MaxConns /\ connSeq \in 0..MaxConns
    BY <2>1 DEF TypeOK
  <2> QED BY <2>1, <2>2 DEF Conns, ChannelsAssumption
\* Sending a message that says nothing false keeps what is on its way to the frontend true.
<1>2. ASSUME NEW msg \in Message, SendDown(c, msg), c \in sockets, c = socket => DownOk(msg)',
             UNCHANGED <<socket, connSeq, channelIdSeq, owner, channels, sockets>>,
             socket # 0 =>
               \A j \in Ids : serverChannels'[socket][j] = serverChannels[socket][j]
                                \/ serverChannels'[socket][j] = owner[j]
      PROVE  /\ socket' # 0 => \A n \in 1..Len(down'[socket']) : DownOk(down[socket][n])'
             /\ \A d \in Conns : d > connSeq' => down'[d] = <<>>
  <2>1. ASSUME socket # 0, NEW n \in 1..Len(down'[socket])
        PROVE  DownOk(down[socket][n])'
    <3>1. \/ n \in 1..Len(down[socket]) /\ down'[socket][n] = down[socket][n]
          \/ c = socket /\ down'[socket][n] = msg
      <4>1. down \in [Conns -> Seq(Message)]
        BY <1>1 DEF TypeOK
      <4>2. \A d \in Conns : \A l \in 1..Len(down'[d]) :
              \/ l \in 1..Len(down[d]) /\ down'[d][l] = down[d][l]
              \/ d = c /\ c = socket /\ down'[d][l] = msg
        BY <1>2, <4>1, SentDown
      <4> QED BY <1>1, <1>2, <2>1, <4>2
    <3>2. CASE n \in 1..Len(down[socket]) /\ down'[socket][n] = down[socket][n]
      <4>1. DownOk(down[socket][n]) /\ down[socket][n].id \in Ids
        <5>1. down[socket] \in Seq(Message)
          BY <1>1, <2>1 DEF TypeOK
        <5>2. down[socket][n] \in Message
          BY <3>2, <5>1
        <5> QED BY <1>1, <2>1, <3>2, <5>2 DEF Wire, Message
      <4> QED BY <1>2, <2>1, <3>2, <4>1 DEF DownOk
    <3>3. CASE c = socket /\ down'[socket][n] = msg
      BY <1>2, <3>3 DEF DownOk
    <3> QED BY <3>1, <3>2, <3>3
  <2>2. ASSUME NEW d \in Conns, d > connSeq' PROVE down'[d] = <<>>
    <3>1. d # c /\ down[d] = <<>>
      BY <1>1, <1>2, <2>2 DEF Wire, Conns
    <3> QED BY <1>1, <1>2, <3>1 DEF SendDown, TypeOK
  <2> QED BY <1>2, <2>1, <2>2
<1>3. ASSUME NEW i \in Ids, NEW h \in Handlers, ServerReceiveOpen(c, i, h)
      PROVE  Wire' /\ ChannelsAgree'
  <2>1. /\ UpOk(c, OpenMessage(i, h)) /\ c \in sockets
        /\ UNCHANGED <<socket, connSeq, channelIdSeq, owner, channels, sockets>>
        /\ \A d \in Conns : \A n \in 1..Len(up'[d]) : UpOk(d, up[d][n])'
        /\ \A d \in Conns : d > connSeq' => up'[d] = <<>>
    BY <1>1, <1>3, ServerReceivesWire DEF ServerReceiveOpen, ServerReceives
  <2>2. i < channelIdSeq /\ owner[i] = h
    BY <2>1 DEF UpOk, OpenMessage
  <2>3. CASE UNCHANGED <<serverChannels, down>>
    BY <1>1, <2>1, <2>3 DEF Wire, DownOk, ChannelsAgree
  <2>4. CASE /\ serverChannels' = [serverChannels EXCEPT ![c][i] = h]
             /\ SendDown(c, ReadyMessage(i))
    <3>1. \A d \in Conns, j \in Ids :
            serverChannels'[d][j] = IF d = c /\ j = i THEN h ELSE serverChannels[d][j]
      BY <1>1, <2>4 DEF TypeOK
    <3>2. ReadyMessage(i) \in Message /\ (c = socket => DownOk(ReadyMessage(i))')
      BY <2>1, <2>2, <3>1 DEF DownOk, ReadyMessage, Message
    <3>3. socket # 0 => \A j \in Ids : serverChannels'[socket][j] = serverChannels[socket][j]
                                         \/ serverChannels'[socket][j] = owner[j]
      BY <1>1, <2>2, <3>1
    <3>4. /\ socket' # 0 => \A n \in 1..Len(down'[socket']) : DownOk(down[socket][n])'
          /\ \A d \in Conns : d > connSeq' => down'[d] = <<>>
      BY <1>2, <2>1, <2>4, <3>2, <3>3
    <3>5. \A d \in Conns, j \in Ids :
            serverChannels'[d][j] # NoHandler =>
              j < channelIdSeq' /\ serverChannels'[d][j] = owner'[j]
      BY <1>1, <2>1, <2>2, <3>1 DEF Wire
    <3>6. ChannelsAgree'
      BY <1>1, <2>1, <3>3 DEF ChannelsAgree, Bookkeeping
    <3> QED BY <1>1, <2>1, <3>4, <3>5, <3>6 DEF Wire
  <2> QED BY <1>3, <2>3, <2>4 DEF ServerReceiveOpen
<1>4. ASSUME NEW i \in Ids, ServerReceiveClose(c, i)
      PROVE  Wire' /\ ChannelsAgree'
  <2>1. /\ UpOk(c, CloseMessage(i)) /\ c \in sockets
        /\ UNCHANGED <<socket, connSeq, channelIdSeq, owner, channels, sockets, down>>
        /\ \A d \in Conns : \A n \in 1..Len(up'[d]) : UpOk(d, up[d][n])'
        /\ \A d \in Conns : d > connSeq' => up'[d] = <<>>
    BY <1>1, <1>4, ServerReceivesWire DEF ServerReceiveClose, ServerReceives
  <2>2. c = socket => channels[i] = "none"
    BY <2>1 DEF UpOk, CloseMessage
  <2>3. \A d \in Conns, j \in Ids :
          serverChannels'[d][j] = IF d = c /\ j = i THEN NoHandler ELSE serverChannels[d][j]
    BY <1>1, <1>4 DEF ServerReceiveClose, TypeOK
  <2>4. \A j \in Ids : socket # 0 /\ channels[j] # "none" =>
          serverChannels'[socket][j] = serverChannels[socket][j]
    BY <1>1, <2>2, <2>3
  <2>5. ASSUME socket # 0, NEW n \in 1..Len(down[socket]) PROVE DownOk(down[socket][n])'
    <3>1. DownOk(down[socket][n]) /\ down[socket][n].id \in Ids
      BY <1>1, <2>5, DownMessages
    <3> QED BY <2>1, <2>4, <2>5, <3>1 DEF DownOk
  <2>6. ChannelsAgree'
    BY <1>1, <2>1, <2>4 DEF ChannelsAgree, Bookkeeping
  <2>7. \A d \in Conns, j \in Ids :
          serverChannels'[d][j] # NoHandler =>
            j < channelIdSeq' /\ serverChannels'[d][j] = owner'[j]
    BY <1>1, <2>1, <2>3 DEF Wire
  <2> QED BY <1>1, <2>1, <2>5, <2>6, <2>7 DEF Wire
<1>5. ASSUME NEW i \in Ids, NEW m \in Contents, ServerReceiveData(c, i, m)
      PROVE  Wire' /\ ChannelsAgree'
  <2>1. /\ UNCHANGED <<socket, connSeq, channelIdSeq, owner, channels, sockets>>
        /\ UNCHANGED <<serverChannels, down>>
        /\ \A d \in Conns : \A n \in 1..Len(up'[d]) : UpOk(d, up[d][n])'
        /\ \A d \in Conns : d > connSeq' => up'[d] = <<>>
    BY <1>1, <1>5, ServerReceivesWire DEF ServerReceiveData
  <2> QED BY <1>1, <2>1 DEF Wire, DownOk, ChannelsAgree
<1>6. ASSUME NEW i \in Ids, NEW m \in Contents, ServerSend(c, i, m)
      PROVE  Wire' /\ ChannelsAgree'
  <2>1. /\ UNCHANGED <<socket, connSeq, channelIdSeq, owner, channels, sockets>>
        /\ UNCHANGED <<serverChannels, up>>
        /\ c \in sockets /\ SendDown(c, DataMessage(i, m))
    BY <1>6 DEF ServerSend, clientVars, serverVars
  <2>2. DataMessage(i, m) \in Message /\ DownOk(DataMessage(i, m))'
    BY DEF DataMessage, Message, DownOk
  <2>3. /\ socket' # 0 => \A n \in 1..Len(down'[socket']) : DownOk(down[socket][n])'
        /\ \A d \in Conns : d > connSeq' => down'[d] = <<>>
    BY <1>2, <2>1, <2>2
  <2> QED BY <1>1, <2>1, <2>3 DEF Wire, UpOk, ChannelsAgree
<1>7. CASE ServerClose(c)
  <2>1. /\ UNCHANGED <<socket, connSeq, channelIdSeq, owner, channels, down>>
        /\ sockets' = sockets \ {c}
        /\ \A d \in Conns : up'[d] = IF d = c THEN <<>> ELSE up[d]
        /\ \A d \in Conns, j \in Ids :
             serverChannels'[d][j] = IF d = c THEN NoHandler ELSE serverChannels[d][j]
    BY <1>1, <1>7 DEF ServerClose, clientVars, TypeOK
  <2>2. \A d \in Conns : \A n \in 1..Len(up'[d]) : UpOk(d, up[d][n])'
    BY <1>1, <2>1, EmptySeq DEF Wire, UpOk
  <2>3. ASSUME socket # 0, NEW n \in 1..Len(down[socket]) PROVE DownOk(down[socket][n])'
    <3>1. DownOk(down[socket][n]) /\ down[socket][n].id \in Ids
      BY <1>1, <2>3, DownMessages
    <3> QED BY <1>1, <2>1, <2>3, <3>1 DEF DownOk
  <2>4. ChannelsAgree'
    BY <1>1, <2>1 DEF ChannelsAgree, Bookkeeping
  <2> QED BY <1>1, <2>1, <2>2, <2>3, <2>4 DEF Wire
<1> QED BY <1>3, <1>4, <1>5, <1>6, <1>7

-----------------------------------------------------------------------------
(* The theorems. *)

LEMMA InvInit == ASSUME ChannelsAssumption PROVE Init => Inv
<1> SUFFICES ASSUME Init PROVE Inv
  OBVIOUS
<1>1. <<>> \in Seq(Message) /\ <<>> \in Seq(Handlers) /\ Len(<<>>) = 0
  BY EmptySeq
<1>2. TypeOK
  BY <1>1 DEF Init, TypeOK, ChannelsAssumption
<1>3. Bookkeeping /\ OneConnectionPerHandler
  BY <1>1 DEF Init, Bookkeeping, OneConnectionPerHandler
<1>4. Wire /\ ChannelsAgree
  BY <1>1 DEF Init, Wire, ChannelsAgree
<1> QED BY <1>2, <1>3, <1>4 DEF Inv, FrontendInv

LEMMA InvStep == ASSUME ChannelsAssumption PROVE Inv /\ [Next]_vars => Inv'
<1> SUFFICES ASSUME Inv, [Next]_vars PROVE Inv'
  OBVIOUS
<1>1. ASSUME NEW h \in Handlers, Listen(h) PROVE Inv'
  BY <1>1, ListenPreserves, OpeningWire DEF Inv
<1>2. CASE Connect
  BY <1>2, ConnectPreserves, OpeningWire DEF Inv
<1>3. ASSUME NEW i \in Ids, CloseChannel(i) PROVE Inv'
  BY <1>3, CloseChannelPreserves, OpeningWire DEF Inv
<1>4. CASE ClientClose
  BY <1>4, ClientClosePreserves, ClientWire DEF Inv
<1>5. ASSUME NEW i \in Ids, NEW m \in Contents, ClientSend(i, m) PROVE Inv'
  BY <1>5, ClientSendPreserves, ClientWire DEF Inv
<1>6. ASSUME NEW i \in Ids, NEW ms \in Bursts, ClientReceiveReady(i, ms) PROVE Inv'
  BY <1>6, ClientReceiveReadyPreserves, ClientWire DEF Inv
<1>7. ASSUME NEW i \in Ids, NEW m \in Contents, ClientReceiveData(i, m) PROVE Inv'
  BY <1>7, ClientReceiveDataPreserves, ClientWire DEF Inv
<1>8. ASSUME NEW c \in Conns,
             \/ \E i \in Ids, h \in Handlers : ServerReceiveOpen(c, i, h)
             \/ \E i \in Ids : ServerReceiveClose(c, i)
             \/ \E i \in Ids, m \in Contents : ServerReceiveData(c, i, m) \/ ServerSend(c, i, m)
             \/ ServerClose(c)
      PROVE  Inv'
  <2>1. FrontendInv'
    BY <1>8, ServerPreserves DEF Inv
  <2>2. Wire' /\ ChannelsAgree'
    BY <1>8, <2>1, ServerWire
  <2> QED BY <2>1, <2>2 DEF Inv
<1>9. CASE UNCHANGED vars
  BY <1>9 DEF vars, clientVars, serverVars, Inv, FrontendInv, TypeOK, Bookkeeping,
              OneConnectionPerHandler, Wire, UpOk, DownOk, ChannelsAgree
<1> QED BY <1>1, <1>2, <1>3, <1>4, <1>5, <1>6, <1>7, <1>8, <1>9 DEF Next

\* Whatever the handlers do and however the sockets fail, the invariant holds.
THEOREM Invariance == ASSUME ChannelsAssumption PROVE Spec => []Inv
<1>1. Init => Inv
  BY InvInit
<1>2. Inv /\ [Next]_vars => Inv'
  BY InvStep
<1> QED BY <1>1, <1>2, PTL DEF Spec

\* Every variable of the two sides and of the network stays within its type (WsChannels).
THEOREM TypeCorrect == ASSUME ChannelsAssumption PROVE Spec => []TypeOK
<1>1. Inv => TypeOK
  BY DEF Inv, FrontendInv
<1> QED BY <1>1, Invariance, PTL

\* closeChannel and listen never give a handler two connections, nor a connection and a
\* place among the 'open' listeners, for any number of handlers and reconnects.
THEOREM OneConnection == ASSUME ChannelsAssumption PROVE Spec => []OneConnectionPerHandler
<1>1. Inv => OneConnectionPerHandler
  BY DEF Inv, FrontendInv
<1> QED BY <1>1, Invariance, PTL

\* A channel that the frontend has open leads to the service of its own path, as long as
\* the backend has its socket.
THEOREM Agreement == ASSUME ChannelsAssumption PROVE Spec => []ChannelsAgree
<1>1. Inv => ChannelsAgree
  BY DEF Inv
<1> QED BY <1>1, Invariance, PTL

\* A handler that is served, waits or is not installed is abandoned by no step but a close
\* of the socket while its channel is opening.
THEOREM Abandonment == ASSUME ChannelsAssumption PROVE Spec => AbandonedOnlyWhileOpening
<1>1. ASSUME Inv, [Next]_vars, NEW h \in Handlers, Abandoned(h)', ~Abandoned(h)
      PROVE  /\ socket # 0 /\ socket' = 0
             /\ \E i \in Ids : channels[i] = "opening" /\ owner[i] = h
  <2>1. /\ TypeOK /\ Bookkeeping /\ OneConnectionPerHandler
        /\ h \in installed'
        /\ \A i \in Ids : channels'[i] # "none" => owner'[i] # h
        /\ \A k \in 1..Len(listeners') : listeners'[k] # h
    BY <1>1 DEF Inv, FrontendInv, Abandoned
  <2>2. \/ h \notin installed
        \/ \E i \in Ids : channels[i] # "none" /\ owner[i] = h
        \/ \E k \in 1..Len(listeners) : listeners[k] = h
    BY <1>1 DEF Abandoned
  \* The steps that leave the handlers as they are.
  <2>3. ASSUME UNCHANGED <<installed, listeners, owner>>,
               \A i \in Ids : channels'[i] # "none" <=> channels[i] # "none"
        PROVE  FALSE
    BY <2>1, <2>2, <2>3
  \* The steps that open channels for hs: each of hs is served then, and what is kept stays.
  <2>4. ASSUME NEW c \in Conns, NEW pre, NEW kept \in SUBSET Ids, NEW hs \in Seq(Handlers),
               OpenChannels(c, pre, kept, hs)
        PROVE  /\ \A k \in 1..Len(hs) : hs[k] # h
               /\ \A i \in kept : channels[i] # "none" => owner[i] # h
    <3>1. /\ channelIdSeq \in Nat /\ Len(hs) \in Nat /\ channelIdSeq + Len(hs) <= MaxChannels
      BY <2>1, <2>4 DEF TypeOK, OpenChannels
    <3>2. ASSUME NEW k \in 1..Len(hs) PROVE hs[k] # h
      <4>1. /\ channelIdSeq + k - 1 \in Ids
            /\ channelIdSeq + k - 1 \in channelIdSeq..(channelIdSeq + Len(hs) - 1)
            /\ (channelIdSeq + k - 1) - channelIdSeq + 1 = k
        BY <3>1 DEF Ids, ChannelsAssumption
      <4>2. /\ channels'[channelIdSeq + k - 1] = "opening"
            /\ owner'[channelIdSeq + k - 1] = hs[k]
        BY <2>4, <4>1 DEF OpenChannels
      <4> QED BY <2>1, <4>1, <4>2
    <3>3. ASSUME NEW i \in kept, channels[i] # "none" PROVE owner[i] # h
      <4>1. i \in Ids /\ i < channelIdSeq
        BY <2>1, <3>3 DEF Bookkeeping
      <4>2. i \notin channelIdSeq..(channelIdSeq + Len(hs) - 1)
        BY <3>1, <4>1 DEF Ids
      <4>3. channels'[i] = channels[i] /\ owner'[i] = owner[i]
        BY <2>4, <3>3, <4>1, <4>2 DEF OpenChannels
      <4> QED BY <2>1, <3>3, <4>1, <4>3
    <3> QED BY <3>2, <3>3
  <2>5. ASSUME NEW g \in Handlers, Listen(g) PROVE FALSE
    <3>1. CASE socket # 0 /\ OpenChannels(socket, <<>>, Ids, <<g>>)
      <4>1. socket \in Conns /\ <<g>> \in Seq(Handlers) /\ Ids \in SUBSET Ids
        BY <2>1, <3>1 DEF TypeOK, Conns, ChannelsAssumption
      <4>2. (\A k \in 1..Len(<<g>>) : <<g>>[k] # h) /\ \A i \in Ids : channels[i] # "none" => owner[i] # h
        BY <2>4, <3>1, <4>1
      <4>3. g # h
        BY <4>2
      <4>4. listeners = <<>>
        BY <2>1, <3>1 DEF Bookkeeping
      <4>5. h \in installed
        BY <2>1, <2>5, <4>3 DEF Listen
      <4> QED BY <2>2, <4>2, <4>4, <4>5
    <3>2. CASE listeners' = Append(listeners, g) /\ UNCHANGED <<channels, owner>>
      <4>1. /\ Len(listeners') = Len(listeners) + 1 /\ Len(listeners) \in Nat
            /\ listeners'[Len(listeners) + 1] = g
            /\ \A k \in 1..Len(listeners) : listeners'[k] = listeners[k]
        BY <2>1, <3>2 DEF TypeOK
      <4>2. g # h
        BY <2>1, <4>1
      <4>3. h \in installed
        BY <2>1, <2>5, <4>2 DEF Listen
      <4> QED BY <2>1, <2>2, <3>2, <4>1, <4>3
    <3> QED BY <2>5, <3>1, <3>2 DEF Listen
  <2>6. ASSUME Connect PROVE FALSE
    <3>1. /\ connSeq + 1 \in Conns /\ listeners \in Seq(Handlers) /\ Ids \in SUBSET Ids
          /\ OpenChannels(connSeq + 1, <<>>, Ids, listeners) /\ installed' = installed
      BY <2>1, <2>6 DEF Connect, TypeOK, Conns, ChannelsAssumption
    <3> QED BY <2>1, <2>2, <2>4, <3>1
  <2>7. ASSUME NEW j \in Ids, CloseChannel(j) PROVE FALSE
    <3>1. /\ socket \in Conns /\ listeners = <<>> /\ channels[j] # "none" /\ Ids \ {j} \in SUBSET Ids
          /\ owner[j] \in Handlers
      BY <2>1, <2>7 DEF CloseChannel, TypeOK, Bookkeeping, Conns, ChannelsAssumption
    <3>2. CASE /\ OpenChannels(socket, <<CloseMessage(j)>>, Ids \ {j}, <<owner[j]>>)
               /\ UNCHANGED installed
      <4>1. <<owner[j]>> \in Seq(Handlers)
        BY <3>1
      <4>2. /\ \A k \in 1..Len(<<owner[j]>>) : <<owner[j]>>[k] # h
            /\ \A i \in Ids \ {j} : channels[i] # "none" => owner[i] # h
        BY <2>4, <3>1, <3>2, <4>1
      <4>3. owner[j] # h
        BY <4>2
      <4> QED BY <2>1, <2>2, <3>1, <3>2, <4>2, <4>3
    <3>3. CASE /\ OpenChannels(socket, <<CloseMessage(j)>>, Ids \ {j}, <<>>)
               /\ installed' = installed \ {owner[j]}
      <4>1. <<>> \in Seq(Handlers)
        BY EmptySeq
      <4>2. \A i \in Ids \ {j} : channels[i] # "none" => owner[i] # h
        BY <2>4, <3>1, <3>3, <4>1
      <4> QED BY <2>1, <2>2, <3>1, <3>3, <4>2
    <3> QED BY <2>7, <3>2, <3>3 DEF CloseChannel
  <2>8. CASE ClientClose
    <3> DEFINE lost == {i \in OpenIds : owner[i] \in Reconnecting}
    <3>1. socket # 0 /\ socket' = 0 /\ listeners = <<>> /\ h \in installed
      BY <2>1, <2>8 DEF ClientClose, Bookkeeping
    <3>2. PICK ids \in Orderings(lost) :
            listeners' = listeners \o [k \in 1..Len(ids) |-> owner[ids[k]]]
      BY <2>8 DEF ClientClose
    <3>3. PICK i \in Ids : channels[i] # "none" /\ owner[i] = h
      BY <2>2, <3>1, EmptySeq
    <3>4. CASE channels[i] = "opening"
      BY <3>1, <3>3, <3>4
    <3>5. CASE channels[i] = "open"
      <4>1. owner[i] \in Reconnecting
        BY <2>1, <2>8, <3>3, <3>5 DEF ClientClose, OpenIds
      <4>2. i \in lost /\ lost \in SUBSET Ids
        BY <3>3, <3>5, <4>1 DEF OpenIds
      <4>3. ids \in Seq(lost) /\ \E k \in 1..Len(ids) : ids[k] = i
        <5> HIDE DEF lost
        <5>1. ids \in Seq(lost) /\ \A j \in lost : \E k \in 1..Len(ids) : ids[k] = j
          BY <3>2, <4>2, OrderingsAre
        <5> QED BY <4>2, <5>1
      <4> DEFINE relisten == [k \in 1..Len(ids) |-> owner[ids[k]]]
      <4>4. relisten \in Seq(Handlers) /\ Len(relisten) = Len(ids)
        <5>1. \A k \in 1..Len(ids) : owner[ids[k]] \in Handlers
          BY <2>1, <4>2, <4>3 DEF OpenIds, Bookkeeping, TypeOK
        <5>2. Len(ids) \in Nat
          BY <4>3
        <5> QED BY <5>1, <5>2
      <4>5. listeners' = relisten
        BY <3>1, <3>2, <4>4, ConcatEmptySeq
      <4> QED BY <2>1, <3>3, <4>3, <4>4, <4>5
    <3> QED BY <2>1, <3>3, <3>4, <3>5 DEF TypeOK
  <2>9. ASSUME NEW i \in Ids, NEW ms \in Bursts, ClientReceiveReady(i, ms) PROVE FALSE
    BY <2>1, <2>3, <2>9 DEF ClientReceiveReady, ClientReceives, TypeOK
  <2>10. ASSUME NEW i \in Ids, NEW m \in Contents, ClientSend(i, m) \/ ClientReceiveData(i, m)
         PROVE  FALSE
    BY <2>3, <2>10 DEF ClientSend, ClientReceiveData, ClientReceives, clientVars
  <2>11. ASSUME NEW c \in Conns,
                \/ \E i \in Ids, g \in Handlers : ServerReceiveOpen(c, i, g)
                \/ \E i \in Ids : ServerReceiveClose(c, i)
                \/ \E i \in Ids, m \in Contents : ServerReceiveData(c, i, m) \/ ServerSend(c, i, m)
                \/ ServerClose(c)
         PROVE  FALSE
    BY <2>3, <2>11 DEF ServerReceiveOpen, ServerReceiveClose, ServerReceiveData, ServerSend,
                       ServerClose, ServerReceives, clientVars
  <2>12. CASE UNCHANGED vars
    BY <2>3, <2>12 DEF vars, clientVars
  <2> QED BY <1>1, <2>5, <2>6, <2>7, <2>8, <2>9, <2>10, <2>11, <2>12 DEF Next
<1>2. Inv /\ [Next]_vars =>
        [\A h \in Handlers :
           Abandoned(h)' /\ ~Abandoned(h) =>
             /\ socket # 0 /\ socket' = 0
             /\ \E i \in Ids : channels[i] = "opening" /\ owner[i] = h]_vars
  BY <1>1
<1> QED BY <1>2, Invariance, PTL DEF Spec, AbandonedOnlyWhileOpening
=============================================================================
