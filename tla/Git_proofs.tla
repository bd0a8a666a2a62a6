----------------------------- MODULE Git_proofs -----------------------------
(***************************************************************************)
(* Proofs about following a git repository: the tracker of a page and its  *)
(* connections (GitTracking), and the watcher that polls a repository on   *)
(* the backend (GitStatus).  Neither needs a bound: the ids, connections,  *)
(* pages, watches and runs of git are any number.                          *)
(***************************************************************************)
EXTENDS GitTracking, GitStatus, WellFoundedInduction, FiniteSetTheorems, TLAPS

-----------------------------------------------------------------------------
(* Queues, by what is in them, and the least of some numbers.              *)

Queue(s) == s \in Seq(ToSet(s))

LEMMA QueueOf == ASSUME NEW S, NEW s \in Seq(S) PROVE Queue(s)
BY DEF Queue, ToSet

LEMMA EmptyQueue == Queue(<< >>) /\ ToSet(<< >>) = {}
BY DEF Queue, ToSet

LEMMA Singleton == ASSUME NEW v PROVE Queue(<<v>>) /\ ToSet(<<v>>) = {v}
<1>1. ToSet(<<v>>) = {v}
  BY DEF ToSet
<1> QED BY <1>1 DEF Queue

LEMMA Concatenated ==
  ASSUME NEW s, NEW t, Queue(s), Queue(t)
  PROVE  Queue(s \o t) /\ ToSet(s \o t) = ToSet(s) \union ToSet(t)
<1> DEFINE S == ToSet(s) \union ToSet(t)
<1>1. s \in Seq(S) /\ t \in Seq(S)
  BY DEF Queue
<1>2. s \o t \in Seq(S) /\ Len(s \o t) = Len(s) + Len(t)
  BY <1>1
<1>3. \A i \in 1 .. Len(s) + Len(t) : (s \o t)[i] = IF i <= Len(s) THEN s[i] ELSE t[i - Len(s)]
  BY <1>1
<1>4. ToSet(s \o t) \subseteq S
  BY <1>2, <1>3 DEF ToSet
<1>5. ASSUME NEW v \in ToSet(s) PROVE v \in ToSet(s \o t)
  <2>1. PICK i \in 1 .. Len(s) : v = s[i]
    BY <1>1 DEF ToSet
  <2> QED BY <1>1, <1>2, <1>3, <2>1 DEF ToSet
<1>6. ASSUME NEW v \in ToSet(t) PROVE v \in ToSet(s \o t)
  <2>1. PICK i \in 1 .. Len(t) : v = t[i]
    BY <1>1 DEF ToSet
  <2>2. i + Len(s) \in 1 .. Len(s) + Len(t) /\ (s \o t)[i + Len(s)] = v
    BY <1>1, <1>3, <2>1
  <2> QED BY <1>2, <2>2 DEF ToSet
<1>7. ToSet(s \o t) = S
  BY <1>4, <1>5, <1>6
<1> QED BY <1>2, <1>7 DEF Queue

LEMMA Tailed ==
  ASSUME NEW s, Queue(s), s # << >>
  PROVE  /\ Queue(Tail(s)) /\ Head(s) \in ToSet(s) /\ ToSet(Tail(s)) \subseteq ToSet(s)
         /\ ToSet(s) \subseteq ToSet(Tail(s)) \union {Head(s)}
<1> DEFINE S == ToSet(s)
<1>1. s \in Seq(S) /\ DOMAIN s = 1 .. Len(s) /\ Len(s) \in Nat
  BY DEF Queue
<1>2. Len(s) # 0 /\ Head(s) = s[1]
  BY <1>1
<1>3. /\ Tail(s) \in Seq(S) /\ DOMAIN Tail(s) = 1 .. Len(s) - 1
      /\ \A i \in 1 .. Len(s) - 1 : Tail(s)[i] = s[i + 1]
  BY <1>1, <1>2
<1>4. Queue(Tail(s))
  BY <1>3, QueueOf
<1>5. ToSet(Tail(s)) \subseteq S
  <2>1. SUFFICES ASSUME NEW i \in 1 .. Len(s) - 1 PROVE Tail(s)[i] \in S
    BY <1>1, <1>3 DEF ToSet
  <2> QED BY <1>1, <1>3 DEF ToSet
<1>6. Head(s) \in S
  BY <1>1, <1>2 DEF ToSet
<1>7. ASSUME NEW v \in S, v # Head(s) PROVE v \in ToSet(Tail(s))
  <2>1. PICK i \in 1 .. Len(s) : v = s[i]
    BY <1>1 DEF ToSet
  <2>2. i - 1 \in 1 .. Len(s) - 1 /\ Tail(s)[i - 1] = v
    BY <1>1, <1>2, <1>3, <1>7, <2>1
  <2> QED BY <1>1, <1>3, <2>2 DEF ToSet
<1> QED BY <1>4, <1>5, <1>6, <1>7

\* A message more.
LEMMA Appended ==
  ASSUME NEW s, NEW v, Queue(s)
  PROVE  Queue(Append(s, v)) /\ ToSet(Append(s, v)) = ToSet(s) \union {v}
<1>1. Append(s, v) = s \o <<v>>
  BY DEF Queue
<1> QED BY <1>1, Concatenated, Singleton

LEMMA Least ==
  ASSUME NEW T \in SUBSET Nat, T # {}
  PROVE  \E n \in T : \A k \in T : n <= k
<1>1. IsWellFoundedOn(OpToRel(<, Nat), Nat)
  BY NatLessThanWellFounded
<1>2. \E n \in T : \A k \in T : <<k, n>> \notin OpToRel(<, Nat)
  BY <1>1, WFMin
<1>3. PICK n \in T : \A k \in T : <<k, n>> \notin OpToRel(<, Nat)
  BY <1>2
<1>4. \A k \in T : ~(k < n)
  BY <1>3 DEF OpToRel
<1>5. \A k \in T : n <= k
  BY <1>4
<1> QED BY <1>5

LEMMA Reversed ==
  ASSUME NEW s, Queue(s)
  PROVE  Queue(Reverse(s)) /\ ToSet(Reverse(s)) = ToSet(s)
<1>1. s \in Seq(ToSet(s)) /\ Len(s) \in Nat /\ DOMAIN s = 1 .. Len(s)
  BY DEF Queue
<1>2. Reverse(s) = [i \in 1 .. Len(s) |-> s[(Len(s) - i) + 1]]
  BY DEF Reverse
<1>3. \A i \in 1 .. Len(s) : (Len(s) - i) + 1 \in 1 .. Len(s) /\ s[i] \in ToSet(s)
  BY <1>1 DEF ToSet
<1>4. /\ Reverse(s) \in Seq(ToSet(s)) /\ DOMAIN Reverse(s) = 1 .. Len(s)
      /\ \A i \in 1 .. Len(s) : Reverse(s)[i] = s[(Len(s) - i) + 1]
  BY <1>1, <1>2, <1>3
<1>5. ToSet(Reverse(s)) \subseteq ToSet(s)
  BY <1>3, <1>4 DEF ToSet
<1>6. ASSUME NEW v \in ToSet(s) PROVE v \in ToSet(Reverse(s))
  <2>1. PICK i \in 1 .. Len(s) : v = s[i]
    BY <1>1 DEF ToSet
  <2>2. (Len(s) - i) + 1 \in 1 .. Len(s) /\ (Len(s) - ((Len(s) - i) + 1)) + 1 = i
    BY <1>1
  <2>3. Reverse(s)[(Len(s) - i) + 1] = v
    BY <1>4, <2>1, <2>2
  <2> QED BY <1>4, <2>2, <2>3 DEF ToSet
<1>7. ToSet(Reverse(s)) = ToSet(s)
  BY <1>5, <1>6
<1> QED BY <1>4, <1>7 DEF Queue

----------------------------------------------------------------------------
(* unwatchGitChanges, one id after the other.                              *)

\* What the steps for the first k ids of s yield, as a function of the step.
Steps(s, f, k) ==
  f = [n \in 0..k |-> IF n = 0 THEN [map |-> localToRemote, requests |-> <<>>]
                      ELSE UnwatchedAlso(f[n - 1], s[n])]

LEMMA StepsExist ==
  ASSUME NEW s, NEW k \in Nat
  PROVE  \E f : Steps(s, f, k)
<1> DEFINE T == {n \in Nat : ~\E f : Steps(s, f, n)}
<1>1. SUFFICES ASSUME T # {} PROVE FALSE
  OBVIOUS
<1>2. PICK n \in T : \A j \in T : n <= j
  BY <1>1, Least
<1>3. n # 0
  <2>1. Steps(s, [j \in 0..0 |-> [map |-> localToRemote, requests |-> <<>>]], 0)
    BY DEF Steps
  <2> QED BY <2>1
<1>4. n - 1 \in Nat /\ n - 1 \notin T
  BY <1>2, <1>3
<1>5. PICK f : Steps(s, f, n - 1)
  BY <1>4
<1> DEFINE g == [j \in 0..n |-> IF j = n THEN UnwatchedAlso(f[n - 1], s[n]) ELSE f[j]]
<1>6. \A j \in 0..n : j # 0 => g[j - 1] = f[j - 1]
  BY <1>4
<1>7. \A j \in 0..n - 1 : f[j] = IF j = 0 THEN [map |-> localToRemote, requests |-> <<>>]
                                 ELSE UnwatchedAlso(f[j - 1], s[j])
  BY <1>4, <1>5 DEF Steps
<1>8. ASSUME NEW j \in 0..n
      PROVE  g[j] = IF j = 0 THEN [map |-> localToRemote, requests |-> <<>>]
                    ELSE UnwatchedAlso(g[j - 1], s[j])
  <2>1. CASE j = n
    BY <1>3, <1>6, <2>1
  <2>2. CASE j # n
    <3>1. j \in 0..n - 1 /\ g[j] = f[j]
      BY <1>4, <2>2
    <3> QED BY <1>6, <1>7, <3>1
  <2> QED BY <2>1, <2>2
<1>9. g = [j \in DOMAIN g |-> g[j]] /\ DOMAIN g = 0..n
  OBVIOUS
<1> HIDE DEF g
<1>10. Steps(s, g, n)
  BY <1>8, <1>9 DEF Steps
<1> QED BY <1>2, <1>10

\* It asks for nothing but to unwatch the ids it is given.
UnwatchesOnly(requests, S) ==
  Queue(requests) /\ \A m \in ToSet(requests) : m.kind = "unwatch" /\ m.id \in S

LEMMA UnwatchedIs ==
  ASSUME NEW s, Queue(s)
  PROVE  UnwatchesOnly(Unwatched(s).requests, ToSet(s))
<1> DEFINE k == Len(s)
<1>1. k \in Nat /\ \A n \in 1..k : s[n] \in ToSet(s)
  BY DEF Queue, ToSet
<1>2. \E f : Steps(s, f, k)
  BY <1>1, StepsExist
<1>3. PICK f : Steps(s, f, k) /\ Unwatched(s) = f[k]
  BY <1>2 DEF Steps, Unwatched
<1> DEFINE T == {n \in Nat : n <= k /\ ~UnwatchesOnly(f[n].requests, ToSet(s))}
<1>4. SUFFICES ASSUME T # {} PROVE FALSE
  BY <1>1, <1>3
<1>5. PICK n \in T : \A j \in T : n <= j
  BY <1>4, Least
<1>6. n \in 0..k /\ f[n] = IF n = 0 THEN [map |-> localToRemote, requests |-> <<>>]
                           ELSE UnwatchedAlso(f[n - 1], s[n])
  <2>1. n \in 0..k
    BY <1>1, <1>5
  <2>2. \A j \in 0..k : f[j] = IF j = 0 THEN [map |-> localToRemote, requests |-> <<>>]
                                ELSE UnwatchedAlso(f[j - 1], s[j])
    BY <1>3 DEF Steps
  <2> QED BY <2>1, <2>2
<1>7. n # 0
  <2>1. UnwatchesOnly(<<>>, ToSet(s))
    BY EmptyQueue DEF UnwatchesOnly
  <2> QED BY <1>5, <1>6, <2>1
<1>8. UnwatchesOnly(f[n - 1].requests, ToSet(s)) /\ s[n] \in ToSet(s)
  BY <1>1, <1>5, <1>6, <1>7
<1> DEFINE request == UnwatchRequest(s[n], f[n - 1].map[s[n]])
<1>9. f[n].requests \in {f[n - 1].requests, Append(f[n - 1].requests, request)}
  BY <1>6, <1>7 DEF UnwatchedAlso
<1>10. request.kind = "unwatch" /\ request.id = s[n]
  BY DEF UnwatchRequest
<1> HIDE DEF request
<1>11. UnwatchesOnly(Append(f[n - 1].requests, request), ToSet(s))
  BY <1>8, <1>10, Appended DEF UnwatchesOnly
<1> QED BY <1>5, <1>8, <1>9, <1>11

----------------------------------------------------------------------------
(* The inductive invariant of the tracker.                                 *)

Handlers == [repository : Repositories, state : {"watching", "listening", "rejected"}]
Remotes == [id : Nat, live : BOOLEAN]

Shapes ==
  /\ handlers \in Seq(Handlers) /\ remotes \in Seq(Remotes)
  /\ Queue(toDispose) /\ Queue(up) /\ Queue(waiting) /\ Queue(down)
  /\ ~connected => up = <<>> /\ down = <<>> /\ remotes = <<>>

\* Local ids are those of handlers.
Numbers ==
  /\ watchParams \cup ToSet(toDispose) \subseteq 1..Len(handlers)
  /\ \A m \in ToSet(up) \cup ToSet(waiting) : m.id \in 1..Len(handlers)
  /\ \A m \in ToSet(down) : m.kind = "watched" => m.id \in 1..Len(handlers)

\* Nobody has asked to stop what is selected.
KeptOn ==
  selected # NoRepository =>
    \A m \in ToSet(up) \cup ToSet(waiting) : m.kind = "unwatch" => m.id # Len(handlers)

\* The server has a watcher for local id i, or had one that another id's unwatch stopped.
Followed(i) ==
  i \in robbed \/ \E r \in DOMAIN remotes : remotes[r].id = i /\ remotes[r].live

\* The handler of the last selection, whether its watch was rejected or not.
LatestFollowed ==
  LET i == Len(handlers)
  IN  i > 0 /\ selected # NoRepository =>
        /\ handlers[i].repository = selected
        /\ i \in watchParams
        /\ handlers[i].state = "listening" => i \in ToSet(toDispose)
        /\ connected => Asked(i) \/ Followed(i)
        /\ (\E m \in ToSet(down) : m.kind = "watched" /\ m.id = i) => Followed(i)

TrackingInv == Shapes /\ Numbers /\ KeptOn /\ LatestFollowed

LEMMA AskedIs ==
  ASSUME NEW i
  PROVE  Asked(i) <=> \/ \E m \in ToSet(up) : m.kind = "watch" /\ m.id = i
                      \/ \E m \in ToSet(down) : m.kind = "watched" /\ m.id = i
BY DEF Asked, ToSet

LEMMA AskedThenIs ==
  ASSUME NEW i
  PROVE  Asked(i)' <=> \/ \E m \in ToSet(up') : m.kind = "watch" /\ m.id = i
                       \/ \E m \in ToSet(down') : m.kind = "watched" /\ m.id = i
BY DEF Asked, ToSet

LEMMA TrackingInitInv == TrackingInit => TrackingInv
<1> SUFFICES ASSUME TrackingInit PROVE TrackingInv
  OBVIOUS
<1>1. /\ selected = NoRepository /\ handlers = <<>> /\ toDispose = <<>> /\ watchParams = {}
      /\ waiting = <<>> /\ up = <<>> /\ down = <<>> /\ remotes = <<>>
  BY DEF TrackingInit
<1>2. Shapes
  BY <1>1, EmptyQueue DEF Shapes
<1>3. Numbers
  BY <1>1, EmptyQueue DEF Numbers
<1> QED BY <1>1, <1>2, <1>3 DEF TrackingInv, KeptOn, LatestFollowed

\* Steps of the page and the connection that leave the selection, the watches and the server alone.
LEMMA QuietInv ==
  ASSUME TrackingInv, handlers' \in Seq(Handlers), Len(handlers') = Len(handlers),
         \A i \in 1..Len(handlers) : /\ handlers'[i].repository = handlers[i].repository
                                     /\ handlers'[i].state = "listening" => handlers[i].state = "listening",
         UNCHANGED <<selected, toDispose, watchParams, connected, waiting, up, down, remotes, robbed>>
  PROVE  TrackingInv'
<1>1. Shapes'
  BY DEF TrackingInv, Shapes
<1>2. Numbers'
  BY DEF TrackingInv, Numbers
<1>3. KeptOn'
  BY DEF TrackingInv, KeptOn
<1>4. LatestFollowed'
  <2>1. \A i : (Asked(i)' <=> Asked(i)) /\ (Followed(i)' <=> Followed(i))
    BY DEF Asked, Followed
  <2>2. Len(handlers) \in Nat
    BY DEF TrackingInv, Shapes
  <2> DEFINE n == Len(handlers)
  <2>3. SUFFICES ASSUME n > 0, selected # NoRepository
        PROVE  /\ handlers'[n].repository = selected
               /\ n \in watchParams
               /\ handlers'[n].state = "listening" => n \in ToSet(toDispose)
               /\ connected => Asked(n) \/ Followed(n)
               /\ (\E m \in ToSet(down) : m.kind = "watched" /\ m.id = n) => Followed(n)
    BY <2>1 DEF LatestFollowed
  <2>4. n \in 1..Len(handlers)
    BY <2>2, <2>3
  <2> QED BY <2>3, <2>4 DEF TrackingInv, LatestFollowed
<1> QED BY <1>1, <1>2, <1>3, <1>4 DEF TrackingInv

LEMMA SelectInv ==
  ASSUME TrackingInv, NEW repo \in Repositories \cup {NoRepository}, Select(repo)
  PROVE  TrackingInv'
<1> DEFINE n == Len(handlers)
           unwatches == Unwatched(Reverse(toDispose)).requests
           watch == IF repo # NoRepository THEN <<WatchRequest(n + 1, TRUE)>> ELSE <<>>
           requests == unwatches \o watch
           handler == [repository |-> repo, state |-> "watching"]
<1>1. /\ selected' = repo /\ toDispose' = <<>>
      /\ handlers' = IF repo # NoRepository THEN Append(handlers, handler) ELSE handlers
      /\ watchParams' = (watchParams \ ToSet(toDispose)) \cup (IF repo # NoRepository THEN {n + 1} ELSE {})
      /\ Send(requests)
      /\ UNCHANGED <<connected, down, remotes, robbed>>
  BY DEF Select, serverVars
<1>2. /\ n \in Nat /\ handlers \in Seq(Handlers) /\ Shapes /\ Numbers
  BY DEF TrackingInv, Shapes
<1>3. UnwatchesOnly(unwatches, ToSet(toDispose))
  <2>1. Queue(Reverse(toDispose)) /\ ToSet(Reverse(toDispose)) = ToSet(toDispose)
    BY <1>2, Reversed DEF Shapes
  <2>2. UnwatchesOnly(unwatches, ToSet(Reverse(toDispose)))
    BY <2>1, UnwatchedIs
  <2> QED BY <2>1, <2>2
<1>4. /\ Queue(watch)
      /\ ToSet(watch) = IF repo # NoRepository THEN {WatchRequest(n + 1, TRUE)} ELSE {}
  BY Singleton, EmptyQueue
<1>5. WatchRequest(n + 1, TRUE).kind = "watch" /\ WatchRequest(n + 1, TRUE).id = n + 1
  BY DEF WatchRequest
<1> HIDE DEF unwatches, watch
<1>6. /\ Queue(requests)
      /\ ToSet(requests) = ToSet(unwatches) \union ToSet(watch)
  BY <1>3, <1>4, Concatenated DEF UnwatchesOnly
<1>7. \A m \in ToSet(requests) :
        \/ m.kind = "unwatch" /\ m.id \in ToSet(toDispose)
        \/ m.kind = "watch" /\ m.id = n + 1 /\ repo # NoRepository
  BY <1>3, <1>4, <1>5, <1>6 DEF UnwatchesOnly
<1>8. repo # NoRepository => \E m \in ToSet(requests) : m.kind = "watch" /\ m.id = n + 1
  BY <1>4, <1>5, <1>6
<1> HIDE DEF requests
<1>9. /\ up' = IF connected THEN up \o requests ELSE up
      /\ waiting' = IF connected THEN waiting ELSE waiting \o requests
  BY <1>1 DEF Send
<1>10. /\ Queue(up') /\ ToSet(up') = IF connected THEN ToSet(up) \union ToSet(requests) ELSE ToSet(up)
       /\ Queue(waiting')
       /\ ToSet(waiting') = IF connected THEN ToSet(waiting) ELSE ToSet(waiting) \union ToSet(requests)
  BY <1>2, <1>6, <1>9, Concatenated DEF Shapes
<1>11. /\ handlers' \in Seq(Handlers)
       /\ Len(handlers') = IF repo # NoRepository THEN n + 1 ELSE n
       /\ repo # NoRepository => handlers'[n + 1] = handler
  <2>1. CASE repo # NoRepository
    <3>1. handler \in Handlers
      BY <2>1 DEF Handlers
    <3> QED BY <1>1, <1>2, <2>1, <3>1
  <2>2. CASE repo = NoRepository
    BY <1>1, <1>2, <2>2
  <2> QED BY <2>1, <2>2
<1>12. ToSet(toDispose) \subseteq 1..n /\ watchParams \subseteq 1..n
  BY <1>2 DEF Numbers
<1>13. Shapes'
  BY <1>1, <1>2, <1>9, <1>10, <1>11, EmptyQueue DEF Shapes
<1>14. ASSUME NEW m \in ToSet(up') \cup ToSet(waiting')
       PROVE  m \in ToSet(up) \cup ToSet(waiting) \/ m \in ToSet(requests)
  BY <1>10
<1>15. Numbers'
  <2>1. ToSet(toDispose') = {}
    BY <1>1, EmptyQueue
  <2>2. watchParams' \cup ToSet(toDispose') \subseteq 1..Len(handlers')
    <3>1. 1..n \subseteq 1..Len(handlers') /\ (repo # NoRepository => n + 1 \in 1..Len(handlers'))
      BY <1>2, <1>11
    <3>2. watchParams' \subseteq watchParams \cup (IF repo # NoRepository THEN {n + 1} ELSE {})
      BY <1>1
    <3> HIDE DEF n
    <3> QED BY <1>12, <2>1, <3>1, <3>2
  <2>3. \A m \in ToSet(up') \cup ToSet(waiting') : m.id \in 1..Len(handlers')
    <3>1. \A m \in ToSet(requests) : m.id \in 1..Len(handlers')
      BY <1>2, <1>7, <1>11, <1>12
    <3>2. \A m \in ToSet(up) \cup ToSet(waiting) : m.id \in 1..Len(handlers')
      BY <1>2, <1>11 DEF Numbers
    <3> QED BY <1>14, <3>1, <3>2
  <2>4. \A m \in ToSet(down') : m.kind = "watched" => m.id \in 1..Len(handlers')
    BY <1>1, <1>2, <1>11 DEF Numbers
  <2> QED BY <2>2, <2>3, <2>4 DEF Numbers
<1>16. KeptOn'
  <2>1. SUFFICES ASSUME repo # NoRepository, NEW m \in ToSet(up') \cup ToSet(waiting'), m.kind = "unwatch"
                 PROVE  m.id # n + 1
    BY <1>1, <1>11 DEF KeptOn
  <2>2. m.id \in 1..n
    BY <1>2, <1>7, <1>12, <1>14, <2>1 DEF Numbers
  <2> QED BY <1>2, <2>2
<1>17. LatestFollowed'
  <2>1. PICK k : k = n + 1
    OBVIOUS
  <2>2. SUFFICES ASSUME repo # NoRepository
                 PROVE  /\ handlers'[k].repository = repo
                        /\ k \in watchParams'
                        /\ handlers'[k].state # "listening"
                        /\ connected => Asked(k)'
                        /\ ~\E m \in ToSet(down) : m.kind = "watched" /\ m.id = k
    <3>1. CASE repo = NoRepository
      BY <1>1, <3>1 DEF LatestFollowed
    <3>2. CASE repo # NoRepository
      <4>1. Len(handlers') = k /\ selected' = repo
        BY <1>1, <1>11, <2>1, <3>2
      <4>2. Asked(k)' => Asked(Len(handlers))'
        BY <4>1 DEF Asked
      <4> QED BY <1>1, <2>2, <3>2, <4>1, <4>2 DEF LatestFollowed
    <3> QED BY <3>1, <3>2
  <2>3. handlers'[k].repository = repo /\ handlers'[k].state # "listening"
    BY <1>11, <2>1, <2>2
  <2>4. k \in watchParams'
    BY <1>1, <2>1, <2>2
  <2>5. connected => Asked(k)'
    BY <1>8, <1>10, <2>1, <2>2, AskedThenIs
  <2>6. ~\E m \in ToSet(down) : m.kind = "watched" /\ m.id = k
    BY <1>2, <2>1 DEF Numbers
  <2> QED BY <2>3, <2>4, <2>5, <2>6
<1> QED BY <1>13, <1>15, <1>16, <1>17 DEF TrackingInv

\* The other messages come and go as they like.
LEMMA ChangesInv ==
  ASSUME TrackingInv, Queue(down'), connected,
         \A m : m.kind = "watched" => (m \in ToSet(down') <=> m \in ToSet(down)),
         UNCHANGED <<selected, handlers, toDispose, watchParams, connected, waiting, up, remotes, robbed>>
  PROVE  TrackingInv'
<1>1. Shapes'
  BY DEF TrackingInv, Shapes
<1>2. Numbers'
  BY DEF TrackingInv, Numbers
<1>3. KeptOn'
  BY DEF TrackingInv, KeptOn
<1>4. LatestFollowed'
  <2>1. PICK n : n = Len(handlers)
    OBVIOUS
  <2>2. Asked(n) => Asked(n)'
    BY AskedIs, AskedThenIs
  <2>3. Followed(n) => Followed(n)'
    BY DEF Followed
  <2>4. Asked(n)' => Asked(Len(handlers))'
    BY <2>1 DEF Asked
  <2>5. Followed(n)' => Followed(Len(handlers))'
    BY <2>1 DEF Followed
  <2> QED BY <2>1, <2>2, <2>3, <2>4, <2>5 DEF TrackingInv, LatestFollowed
<1> QED BY <1>1, <1>2, <1>3, <1>4 DEF TrackingInv

LEMMA ReceiveChangedInv == ASSUME TrackingInv, ReceiveChanged PROVE TrackingInv'
<1>1. /\ down # <<>> /\ Head(down).kind = "changed" /\ down' = Tail(down) /\ Queue(down) /\ connected
      /\ UNCHANGED <<selected, handlers, toDispose, watchParams, connected, waiting, up, remotes, robbed>>
  BY DEF TrackingInv, Shapes, ReceiveChanged, Receive, serverVars
<1>2. Queue(down') /\ \A m : m.kind = "watched" => (m \in ToSet(down') <=> m \in ToSet(down))
  BY <1>1, Tailed
<1> QED BY <1>1, <1>2, ChangesInv

LEMMA TellChangeInv ==
  ASSUME TrackingInv, NEW repo \in Repositories, TellChange(repo)
  PROVE  TrackingInv'
<1>1. /\ down' = Append(down, Changed(repo)) /\ Queue(down) /\ remotes # <<>>
      /\ UNCHANGED <<selected, handlers, toDispose, watchParams, connected, waiting, up, remotes, robbed>>
  BY DEF TrackingInv, Shapes, TellChange, trackerVars
<1>2. connected
  BY <1>1 DEF TrackingInv, Shapes
<1>3. Changed(repo).kind = "changed"
  BY DEF Changed
<1>4. Queue(down') /\ \A m : m.kind = "watched" => (m \in ToSet(down') <=> m \in ToSet(down))
  BY <1>1, <1>3, Appended
<1> QED BY <1>1, <1>2, <1>4, ChangesInv

LEMMA ReceiveWatchedInv == ASSUME TrackingInv, ReceiveWatched PROVE TrackingInv'
<1> DEFINE answer == Head(down)
<1>1. /\ down # <<>> /\ answer.kind = "watched" /\ down' = Tail(down)
      /\ UNCHANGED <<selected, watchParams, connected, waiting, up, remotes, robbed>>
  BY DEF ReceiveWatched, Receive, serverVars
<1>2. Shapes /\ Numbers /\ Len(handlers) \in Nat
  BY DEF TrackingInv, Shapes
<1>3. /\ Queue(down') /\ ToSet(down') \subseteq ToSet(down)
      /\ ToSet(down) \subseteq ToSet(down') \cup {answer} /\ answer \in ToSet(down)
  BY <1>1, <1>2, Tailed DEF Shapes
<1> HIDE DEF answer
<1>4. PICK i \in 1..Len(handlers) : i = answer.id
  BY <1>1, <1>2, <1>3 DEF Numbers
<1>5. \/ /\ handlers' = [handlers EXCEPT ![i].state = "listening"]
         /\ toDispose' = Append(toDispose, i)
      \/ UNCHANGED <<handlers, toDispose>>
  BY <1>4 DEF ReceiveWatched, answer
<1>6. /\ handlers' \in Seq(Handlers) /\ Len(handlers') = Len(handlers)
      /\ Queue(toDispose') /\ ToSet(toDispose) \subseteq ToSet(toDispose')
      /\ ToSet(toDispose') \subseteq ToSet(toDispose) \cup {i}
      /\ \A j \in 1..Len(handlers) :
           /\ handlers'[j].repository = handlers[j].repository
           /\ handlers'[j].state = "listening" => handlers[j].state = "listening" \/ j \in ToSet(toDispose')
  <2>1. Queue(toDispose) /\ handlers \in Seq(Handlers)
    BY <1>2 DEF Shapes
  <2>2. CASE UNCHANGED <<handlers, toDispose>>
    BY <2>1, <2>2
  <2>3. CASE handlers' = [handlers EXCEPT ![i].state = "listening"] /\ toDispose' = Append(toDispose, i)
    <3>1. Queue(toDispose') /\ ToSet(toDispose') = ToSet(toDispose) \cup {i}
      BY <2>1, <2>3, Appended
    <3>2. \A j \in 1..Len(handlers) : handlers[j] \in Handlers
      BY <2>1
    <3>3. [handlers[i] EXCEPT !.state = "listening"] \in Handlers
      BY <3>2 DEF Handlers
    <3>4. /\ handlers' \in Seq(Handlers) /\ Len(handlers') = Len(handlers)
          /\ \A j \in 1..Len(handlers) :
               handlers'[j] = IF j = i THEN [handlers[i] EXCEPT !.state = "listening"] ELSE handlers[j]
      BY <2>1, <2>3, <3>3
    <3>5. \A j \in 1..Len(handlers) : handlers'[j].repository = handlers[j].repository
      BY <3>2, <3>4 DEF Handlers
    <3>6. \A j \in 1..Len(handlers) : j # i => handlers'[j] = handlers[j]
      BY <3>4
    <3> QED BY <3>1, <3>4, <3>5, <3>6
  <2> QED BY <1>5, <2>2, <2>3
<1>7. Shapes'
  BY <1>1, <1>2, <1>3, <1>6 DEF Shapes
<1>8. Numbers'
  BY <1>1, <1>2, <1>3, <1>6 DEF Numbers
<1>9. KeptOn'
  BY <1>1, <1>6 DEF TrackingInv, KeptOn
<1>10. LatestFollowed'
  <2>1. SUFFICES ASSUME NEW n \in Nat, n = Len(handlers), n > 0, selected # NoRepository
        PROVE  /\ handlers'[n].repository = selected
               /\ n \in watchParams
               /\ handlers'[n].state = "listening" => n \in ToSet(toDispose')
               /\ connected => Asked(n)' \/ Followed(n)
               /\ (\E m \in ToSet(down') : m.kind = "watched" /\ m.id = n) => Followed(n)
    <3>1. PICK n : n = Len(handlers)
      OBVIOUS
    <3>2. (Followed(n) => Followed(Len(handlers))') /\ (Asked(n)' => Asked(Len(handlers))')
      BY <1>1, <1>6, <3>1 DEF Followed, Asked
    <3> QED BY <1>1, <1>2, <1>6, <2>1, <3>1, <3>2 DEF LatestFollowed
  <2>2. n \in 1..Len(handlers)
    BY <2>1
  <2>3. /\ handlers[n].repository = selected
        /\ n \in watchParams
        /\ handlers[n].state = "listening" => n \in ToSet(toDispose)
        /\ connected => Asked(n) \/ Followed(n)
        /\ (\E m \in ToSet(down) : m.kind = "watched" /\ m.id = n) => Followed(n)
    BY <2>1 DEF TrackingInv, LatestFollowed
  <2>4. Asked(n) => Asked(n)' \/ Followed(n)
    BY <1>1, <1>3, <2>3, AskedIs, AskedThenIs
  <2> QED BY <1>3, <1>6, <2>2, <2>3, <2>4
<1> QED BY <1>7, <1>8, <1>9, <1>10 DEF TrackingInv

LEMMA CloseInv == ASSUME TrackingInv, CloseConnection PROVE TrackingInv'
<1>1. /\ ~connected' /\ up' = <<>> /\ down' = <<>> /\ remotes' = <<>>
      /\ handlers' = [i \in DOMAIN handlers |->
           IF handlers[i].state = "watching" THEN [handlers[i] EXCEPT !.state = "rejected"] ELSE handlers[i]]
      /\ UNCHANGED <<selected, toDispose, watchParams, waiting>>
  BY DEF CloseConnection
<1>2. Shapes /\ Numbers /\ handlers \in Seq(Handlers) /\ Len(handlers) \in Nat
  BY DEF TrackingInv, Shapes
<1>3. \A i \in 1..Len(handlers) : handlers[i] \in Handlers /\ [handlers[i] EXCEPT !.state = "rejected"] \in Handlers
  <2>1. SUFFICES ASSUME NEW i \in 1..Len(handlers)
                 PROVE  handlers[i] \in Handlers /\ [handlers[i] EXCEPT !.state = "rejected"] \in Handlers
    OBVIOUS
  <2>2. handlers[i] \in Handlers
    BY <1>2
  <2> QED BY <2>2 DEF Handlers
<1>4. /\ handlers' \in Seq(Handlers) /\ Len(handlers') = Len(handlers)
      /\ \A i \in 1..Len(handlers) :
           handlers'[i] = IF handlers[i].state = "watching" THEN [handlers[i] EXCEPT !.state = "rejected"] ELSE handlers[i]
  <2>1. /\ DOMAIN handlers' = 1..Len(handlers)
        /\ \A i \in 1..Len(handlers) :
             handlers'[i] = IF handlers[i].state = "watching" THEN [handlers[i] EXCEPT !.state = "rejected"] ELSE handlers[i]
        /\ handlers' = [i \in 1..Len(handlers) |-> handlers'[i]]
    BY <1>1, <1>2
  <2>2. \A i \in 1..Len(handlers) : handlers'[i] \in Handlers
    BY <1>3, <2>1
  <2>3. handlers' \in Seq(Handlers)
    BY ONLY <1>2, <2>1, <2>2
  <2> QED BY <1>2, <2>1, <2>3
<1>5. \A i \in 1..Len(handlers) :
        /\ handlers'[i].repository = handlers[i].repository
        /\ handlers'[i].state = "listening" => handlers[i].state = "listening"
  <2>1. SUFFICES ASSUME NEW i \in 1..Len(handlers)
                 PROVE  /\ handlers'[i].repository = handlers[i].repository
                        /\ handlers'[i].state = "listening" => handlers[i].state = "listening"
    OBVIOUS
  <2>2. /\ [handlers[i] EXCEPT !.state = "rejected"].repository = handlers[i].repository
        /\ [handlers[i] EXCEPT !.state = "rejected"].state = "rejected"
    BY <1>3 DEF Handlers
  <2>3. handlers'[i] \in {handlers[i], [handlers[i] EXCEPT !.state = "rejected"]}
    BY <1>4
  <2> QED BY <2>2, <2>3
<1>6. ToSet(up') = {} /\ ToSet(down') = {} /\ Queue(up') /\ Queue(down')
  BY <1>1, EmptyQueue
<1>7. Shapes'
  BY <1>1, <1>2, <1>4, <1>6 DEF Shapes
<1>8. Numbers'
  BY <1>1, <1>2, <1>4, <1>6 DEF Numbers
<1>9. KeptOn'
  BY <1>1, <1>4, <1>6 DEF TrackingInv, KeptOn
<1>10. LatestFollowed'
  BY <1>1, <1>2, <1>4, <1>5, <1>6 DEF TrackingInv, LatestFollowed
<1> QED BY <1>7, <1>8, <1>9, <1>10 DEF TrackingInv

\* The watches are repeated, that of the selected repository with the others.
LEMMA ConnectInv == ASSUME TrackingInv, Connect PROVE TrackingInv'
<1>1. PICK again \in Ascending(watchParams) :
        /\ ~connected /\ connected' /\ waiting' = <<>>
        /\ up' = waiting \o [k \in DOMAIN again |-> WatchRequest(again[k], FALSE)]
        /\ UNCHANGED <<selected, handlers, toDispose, watchParams, down, remotes, robbed>>
  BY DEF Connect, trackerVars, serverVars
<1> DEFINE repeated == [k \in DOMAIN again |-> WatchRequest(again[k], FALSE)]
<1>2. Shapes /\ Numbers /\ down = <<>> /\ remotes = <<>>
  BY <1>1 DEF TrackingInv, Shapes
<1>3. DOMAIN again = 1..Cardinality(watchParams) /\ ToSet(again) = watchParams
  BY <1>1 DEF Ascending
<1>4. Cardinality(watchParams) \in Nat
  <2>1. IsFiniteSet(1..Len(handlers)) /\ watchParams \subseteq 1..Len(handlers)
    BY <1>2, FS_Interval DEF Shapes, Numbers
  <2>2. IsFiniteSet(watchParams)
    BY <2>1, FS_Subset
  <2> QED BY <2>2, FS_CardinalityType
<1>5. DOMAIN repeated = 1..Cardinality(watchParams)
  BY <1>3
<1>6. ToSet(repeated) = {WatchRequest(i, FALSE) : i \in watchParams}
  BY <1>3 DEF ToSet
<1>7. \A i : WatchRequest(i, FALSE).kind = "watch" /\ WatchRequest(i, FALSE).id = i
  BY DEF WatchRequest
<1>8. repeated = [k \in 1..Cardinality(watchParams) |-> repeated[k]]
  BY <1>3
<1> HIDE DEF repeated
<1>9. Queue(repeated)
  <2>1. \A k \in 1..Cardinality(watchParams) : repeated[k] \in ToSet(repeated)
    BY <1>5 DEF ToSet
  <2> QED BY <1>4, <1>8, <2>1 DEF Queue
<1>10. Queue(up') /\ ToSet(up') = ToSet(waiting) \cup {WatchRequest(i, FALSE) : i \in watchParams}
  BY <1>1, <1>2, <1>6, <1>9, Concatenated DEF Shapes, repeated
<1>11. \A m \in ToSet(up') : m \in ToSet(waiting) \/ (m.kind = "watch" /\ m.id \in watchParams)
  BY <1>7, <1>10
<1>12. ToSet(waiting') = {} /\ Queue(waiting') /\ ToSet(down') = {}
  BY <1>1, <1>2, EmptyQueue
<1>13. Shapes'
  BY <1>1, <1>2, <1>10, <1>12 DEF Shapes
<1>14. Numbers'
  BY <1>1, <1>2, <1>11, <1>12 DEF Numbers
<1>15. KeptOn'
  BY <1>1, <1>11, <1>12 DEF TrackingInv, KeptOn
<1>16. LatestFollowed'
  <2>1. PICK n : n = Len(handlers)
    OBVIOUS
  <2>2. n \in watchParams => Asked(n)'
    BY <1>7, <1>10, AskedThenIs
  <2>3. Asked(n)' => Asked(Len(handlers))'
    BY <1>1, <2>1 DEF Asked
  <2> QED BY <1>1, <1>12, <2>1, <2>2, <2>3 DEF TrackingInv, LatestFollowed
<1> QED BY <1>13, <1>14, <1>15, <1>16 DEF TrackingInv

\* The server takes a request; watchers it has live on, or are stopped for another id.
LEMMA ServeInv ==
  ASSUME TrackingInv, up # <<>>, up' = Tail(up), NEW n, n = Len(handlers),
         UNCHANGED <<selected, handlers, toDispose, watchParams, connected, waiting>>,
         remotes' \in Seq(Remotes), Queue(down'),
         \A m \in ToSet(down') : m.kind = "watched" => m \in ToSet(down) \/ (m.id = Head(up).id /\ Followed(m.id)'),
         selected # NoRepository =>
           /\ Followed(n) => Followed(n)'
           /\ Asked(n) => Asked(n)' \/ Followed(n)'
  PROVE  TrackingInv'
<1>1. Shapes /\ Numbers /\ Queue(up) /\ connected
  BY DEF TrackingInv, Shapes
<1>2. Queue(up') /\ ToSet(up') \subseteq ToSet(up) /\ Head(up) \in ToSet(up)
  BY <1>1, Tailed
<1>3. Shapes'
  BY <1>1, <1>2 DEF Shapes
<1>4. Numbers'
  BY <1>1, <1>2 DEF Numbers
<1>5. KeptOn'
  BY <1>2 DEF TrackingInv, KeptOn
<1>6. LatestFollowed'
  <2>1. (Followed(n)' => Followed(Len(handlers))') /\ (Asked(n)' => Asked(Len(handlers))')
    BY DEF Followed, Asked
  <2>2. SUFFICES ASSUME n > 0, selected # NoRepository
        PROVE  /\ connected => Asked(n)' \/ Followed(n)'
               /\ (\E m \in ToSet(down') : m.kind = "watched" /\ m.id = n) => Followed(n)'
    BY <2>1 DEF TrackingInv, LatestFollowed
  <2>3. /\ connected => Asked(n) \/ Followed(n)
        /\ (\E m \in ToSet(down) : m.kind = "watched" /\ m.id = n) => Followed(n)
    BY <2>2 DEF TrackingInv, LatestFollowed
  <2> QED BY <2>2, <2>3
<1> QED BY <1>3, <1>4, <1>5, <1>6 DEF TrackingInv

LEMMA ServeWatchInv == ASSUME TrackingInv, ServeWatch PROVE TrackingInv'
<1> DEFINE request == Head(up)
           answer == WatchAnswer(request.id, request.first, Len(remotes) + 1)
           remote == [id |-> request.id, live |-> TRUE]
<1>1. /\ up # <<>> /\ request.kind = "watch" /\ up' = Tail(up)
      /\ remotes' = Append(remotes, remote) /\ down' = Append(down, answer)
      /\ UNCHANGED <<selected, handlers, toDispose, watchParams, connected, waiting, robbed>>
  BY DEF ServeWatch, trackerVars
<1>2. /\ Queue(up) /\ Queue(down) /\ remotes \in Seq(Remotes) /\ Len(remotes) \in Nat /\ Numbers
  BY DEF TrackingInv, Shapes
<1>3. request \in ToSet(up) /\ ToSet(up) \subseteq ToSet(up') \cup {request}
  BY <1>1, <1>2, Tailed
<1>4. answer.kind = "watched" /\ answer.id = request.id
  BY DEF WatchAnswer
<1>5. remote \in Remotes
  BY <1>2, <1>3 DEF Numbers, Remotes
<1> HIDE DEF answer
<1>6. Queue(down') /\ ToSet(down') = ToSet(down) \cup {answer}
  BY <1>1, <1>2, Appended
<1> HIDE DEF request
<1>7. /\ remotes' \in Seq(Remotes) /\ DOMAIN remotes' = 1..Len(remotes) + 1
      /\ remotes'[Len(remotes) + 1] = remote
      /\ \A r \in DOMAIN remotes : r \in DOMAIN remotes' /\ remotes'[r] = remotes[r]
  BY <1>1, <1>2, <1>5
<1>8. PICK i : i = request.id
  OBVIOUS
<1>9. Followed(i)'
  <2>1. remote.id = i /\ remote.live
    BY <1>8
  <2>2. Len(remotes) + 1 \in DOMAIN remotes'
    BY <1>2, <1>7
  <2> QED BY <1>7, <2>1, <2>2 DEF Followed
<1>10. \A m \in ToSet(down') : m.kind = "watched" => m \in ToSet(down) \/ (m.id = Head(up).id /\ Followed(m.id)')
  <2>1. SUFFICES ASSUME NEW m \in ToSet(down'), m \notin ToSet(down) PROVE m.id = Head(up).id /\ Followed(m.id)'
    OBVIOUS
  <2>2. m = answer
    BY <1>6, <2>1
  <2>3. m.id = i
    BY <1>4, <1>8, <2>2
  <2> QED BY <1>8, <1>9, <2>3 DEF request
<1>11. PICK n : n = Len(handlers)
  OBVIOUS
<1>12. Followed(n) => Followed(n)'
  BY <1>1, <1>7 DEF Followed
<1>13. Asked(n) => Asked(n)' \/ Followed(n)'
  <2>1. CASE n = i
    BY <1>9, <2>1
  <2>2. CASE n # i
    BY <1>3, <1>6, <1>8, <2>2, AskedIs, AskedThenIs
  <2> QED BY <2>1, <2>2
<1> QED BY <1>1, <1>6, <1>7, <1>10, <1>11, <1>12, <1>13, ServeInv

LEMMA ServeUnwatchInv == ASSUME TrackingInv, ServeUnwatch PROVE TrackingInv'
<1> DEFINE request == Head(up)
<1>1. /\ up # <<>> /\ request.kind = "unwatch" /\ up' = Tail(up)
      /\ UNCHANGED <<selected, handlers, toDispose, watchParams, connected, waiting, down>>
  BY DEF ServeUnwatch, trackerVars
<1>2. /\ Queue(up) /\ Queue(down) /\ remotes \in Seq(Remotes)
  BY DEF TrackingInv, Shapes
<1>3. request \in ToSet(up) /\ ToSet(up) \subseteq ToSet(up') \cup {request}
  BY <1>1, <1>2, Tailed
<1> HIDE DEF request
<1>4. PICK r : r = request.remote
  OBVIOUS
<1>5. \/ UNCHANGED <<remotes, robbed>>
      \/ /\ r \in DOMAIN remotes
         /\ remotes' = [remotes EXCEPT ![r].live = FALSE]
         /\ robbed' = robbed \cup ({remotes[r].id} \ {request.id})
  BY <1>4 DEF ServeUnwatch, request
<1>6. PICK n : n = Len(handlers)
  OBVIOUS
<1>7. selected # NoRepository => request.id # n
  BY <1>1, <1>3, <1>6 DEF TrackingInv, KeptOn
<1>8. remotes' \in Seq(Remotes)
  <2>1. CASE r \in DOMAIN remotes /\ remotes' = [remotes EXCEPT ![r].live = FALSE]
    <3>1. [remotes[r] EXCEPT !.live = FALSE] \in Remotes
      <4>1. remotes[r] \in Remotes
        BY <1>2, <2>1
      <4> QED BY <4>1 DEF Remotes
    <3>2. remotes' = [remotes EXCEPT ![r] = [remotes[r] EXCEPT !.live = FALSE]]
      BY <2>1
    <3> QED BY <1>2, <2>1, <3>1, <3>2
  <2> QED BY <1>2, <1>5, <2>1
<1>9. selected # NoRepository /\ Followed(n) => Followed(n)'
  <2>1. SUFFICES ASSUME selected # NoRepository, Followed(n), remotes' # remotes PROVE Followed(n)'
    BY <1>5 DEF Followed
  <2>2. CASE n \in robbed
    BY <1>5, <2>2 DEF Followed
  <2>3. CASE \E s \in DOMAIN remotes : remotes[s].id = n /\ remotes[s].live
    <3>1. PICK s \in DOMAIN remotes : remotes[s].id = n /\ remotes[s].live
      BY <2>3
    <3>2. CASE s = r
      BY <1>5, <1>7, <2>1, <3>1, <3>2 DEF Followed
    <3>3. CASE s # r
      <4>1. s \in DOMAIN remotes' /\ remotes'[s] = remotes[s]
        BY <1>5, <2>1, <3>3
      <4> QED BY <3>1, <4>1 DEF Followed
    <3> QED BY <3>2, <3>3
  <2> QED BY <2>1, <2>2, <2>3 DEF Followed
<1>10. Asked(n) => Asked(n)'
  BY <1>1, <1>3, AskedIs, AskedThenIs
<1> QED BY <1>1, <1>2, <1>6, <1>8, <1>9, <1>10, ServeInv

LEMMA TrackingNextInv == ASSUME TrackingInv, [TrackingNext]_trackingVars PROVE TrackingInv'
<1>1. handlers \in Seq(Handlers)
  BY DEF TrackingInv, Shapes
<1>2. CASE InitAsks \/ InitAnswered
  BY <1>1, <1>2, QuietInv DEF InitAsks, InitAnswered, serverVars
<1>3. ASSUME NEW i \in asked, StatusAnswered(i) PROVE TrackingInv'
  BY <1>1, <1>3, QuietInv DEF StatusAnswered, serverVars
<1>4. CASE UNCHANGED trackingVars
  BY <1>1, <1>4, QuietInv DEF trackingVars, trackerVars, serverVars
<1> QED
  BY <1>2, <1>3, <1>4, SelectInv, ReceiveWatchedInv, ReceiveChangedInv, ConnectInv, CloseInv,
     ServeWatchInv,
     ServeUnwatchInv, TellChangeInv DEF TrackingNext

\* Whatever handlers of earlier selections still do, and however often the connection is lost, the
\* repository that is selected is watched by the server and listened for: the tracker's handlers,
\* the ids of the reconnecting server, and the watches it repeats.
THEOREM SelectionIsFollowed == TrackingSpec => []SelectedIsFollowed
<1>1. TrackingInit => TrackingInv
  BY TrackingInitInv
<1>2. TrackingInv /\ [TrackingNext]_trackingVars => TrackingInv'
  BY TrackingNextInv
<1>3. TrackingInv => SelectedIsFollowed
  BY DEF TrackingInv, LatestFollowed, SelectedIsFollowed, Followed
<1> QED BY <1>1, <1>2, <1>3, PTL DEF TrackingSpec

-----------------------------------------------------------------------------
(* The watcher on the backend.  TypeOK and WatchedIsPolled are inductive   *)
(* together, with one fact about the bound: a watcher that is held can     *)
(* still become a stray.                                                   *)

StraysFit == watcher # None => strays < MaxStrays

StatusInv == TypeOK /\ StraysFit /\ WatchedIsPolled

-----------------------------------------------------------------------------
(* The bounds, and what the methods make of a watcher. *)

LEMMA Bounds ==
  /\ MaxStrays \in Nat /\ MaxRunning \in Nat /\ MaxReferences \in Nat
  /\ MaxChanges \in Nat /\ MaxErrors \in Nat
BY GitStatusAssumption

LEMMA MethodsType ==
  ASSUME NEW w \in Watchers
  PROVE  /\ Clear(w) \in Watchers /\ Schedule(w) \in Watchers
         /\ Watched(w) \in Watchers /\ Disposed(w) \in Watchers
         /\ Clear(w).running = w.running /\ Schedule(w).running = w.running
         /\ Watched(w).running = w.running /\ Disposed(w).running = w.running
         /\ Watched(w).watched /\ Clear(w).watched = w.watched /\ Schedule(w).watched = w.watched
         /\ Schedule(w).timer /\ Watched(w).timer
         /\ w.watched => ~Disposed(w).timer
BY DEF Watchers, Clear, Schedule, Watched, Disposed

LEMMA NewWatcherType ==
  /\ NewWatcher \in Watchers
  /\ NewWatcher.running = <<>>
BY DEF NewWatcher, Watchers

\* The runs that are left when one has ended.
LEMMA RemovedRun ==
  ASSUME NEW s \in Seq(Runs), NEW n \in DOMAIN s
  PROVE  RemoveAt(s, n) \in Seq(Runs) /\ Len(RemoveAt(s, n)) = Len(s) - 1
BY DEF RemoveAt

LEMMA EndedType ==
  ASSUME watcher \in Watchers, NEW n \in DOMAIN watcher.running
  PROVE  /\ Ended(n) \in Watchers
         /\ Ended(n).watched = watcher.watched
         /\ Len(Ended(n).running) = Len(watcher.running) - 1
         /\ watcher.running[n] \in Runs
<1>1. watcher.running \in Seq(Runs)
  BY DEF Watchers
<1>2. RemoveAt(watcher.running, n) \in Seq(Runs)
      /\ Len(RemoveAt(watcher.running, n)) = Len(watcher.running) - 1
  BY <1>1, RemovedRun
<1> QED
  BY <1>1, <1>2 DEF Ended, Watchers

-----------------------------------------------------------------------------
(* The initial states and the steps. *)

LEMMA StatusInitInv == Init => StatusInv
<1> SUFFICES ASSUME Init PROVE StatusInv
  OBVIOUS
<1>1. /\ references \in [Pages -> 0..MaxReferences] /\ ~\E p \in Pages : references[p] > 0
      /\ heard \in [Pages -> Statuses \cup {None}]
  BY Bounds DEF Init
<1>2. watcher = None /\ strays = 0 /\ changes = 0 /\ errors = 0 /\ repository \in Statuses
      /\ gaveUp = FALSE /\ lostInitial = FALSE
  BY DEF Init
<1>3. 0 \in 0..MaxStrays /\ 0 \in 0..MaxChanges /\ 0 \in 0..MaxErrors
  BY Bounds
<1>4. TypeOK
  BY <1>1, <1>2, <1>3, Zenon DEF TypeOK
<1> QED
  BY <1>2, <1>4 DEF StatusInv, StraysFit, WatchedIsPolled

LEMMA WatchInv ==
  ASSUME StatusInv, NEW p \in Pages, Watch(p)
  PROVE  StatusInv'
<1> USE Bounds, GitStatusAssumption DEF StatusInv, TypeOK, StraysFit, Watch
<1>1. Acquired \in Watchers /\ Len(Acquired.running) <= MaxRunning
  BY NewWatcherType DEF Acquired
<1>2. /\ watcher' \in Watchers /\ watcher'.watched /\ watcher'.timer
      /\ Len(watcher'.running) <= MaxRunning /\ watcher' # None
  BY <1>1, MethodsType
<1>3. references' \in [Pages -> 0..MaxReferences] /\ references'[p] > 0
  OBVIOUS
<1>4. TypeOK'
  BY <1>2, <1>3
<1> QED
  BY <1>2, <1>4 DEF WatchedIsPolled, Polls

\* What a release leaves, for any number of references the page holds.
LEMMA ReleaseInv ==
  ASSUME StatusInv, NEW p \in Pages, NEW n \in 1..references[p], references[p] > 0, Release(p, n)
  PROVE  StatusInv'
<1> USE Bounds, GitStatusAssumption DEF StatusInv, TypeOK
<1> DEFINE left == [references EXCEPT ![p] = @ - n]
           last == \A q \in Pages : left[q] = 0
<1>1. references' = left /\ left \in [Pages -> 0..MaxReferences]
  BY DEF Release
<1>2. watcher # None /\ watcher \in Watchers /\ strays < MaxStrays
  BY DEF StraysFit
<1>3. last <=> ~\E q \in Pages : references'[q] > 0
  BY <1>1
<1>4. watcher' = IF last THEN None ELSE watcher
  BY DEF Release
<1>5. strays' \in 0..MaxStrays /\ (~last => strays' = strays)
  BY <1>2 DEF Release
<1>6. heard' \in [Pages -> Statuses \cup {None}]
  BY DEF Release
<1>7. gaveUp' \in BOOLEAN /\ lostInitial' \in BOOLEAN /\ (~last => gaveUp' = gaveUp)
  BY DEF Release
<1>8. UNCHANGED <<repository, changes, errors>>
  BY DEF Release
<1>9. watcher' # None <=> ~last
  BY <1>2, <1>4
<1>10. TypeOK'
  BY <1>1, <1>2, <1>3, <1>4, <1>5, <1>6, <1>7, <1>8, <1>9
<1>11. StraysFit' /\ WatchedIsPolled'
  BY <1>2, <1>4, <1>5, <1>7, <1>9 DEF StraysFit, WatchedIsPolled
<1> QED
  BY <1>10, <1>11

LEMMA SyncInv ==
  ASSUME StatusInv, Sync
  PROVE  StatusInv'
<1> USE Bounds, GitStatusAssumption DEF StatusInv, TypeOK, StraysFit, WatchedIsPolled
<1>1. CASE watcher = None
  <2>1. /\ UNCHANGED <<watcher, references, heard, repository, changes, errors, lostInitial>>
        /\ strays' = strays + 1 /\ strays < MaxStrays /\ gaveUp' = FALSE
    BY <1>1 DEF Sync
  <2>2. strays \in 0..MaxStrays
    OBVIOUS
  <2>3. strays' \in 0..MaxStrays
    BY ONLY <2>1, <2>2, Bounds
  <2> QED
    BY <1>1, <2>1, <2>3, Zenon
<1>2. CASE watcher # None
  <2>1. watcher \in Watchers /\ watcher' = Schedule(Clear(watcher))
    BY <1>2 DEF Sync, Acquired
  <2>2. /\ watcher' \in Watchers /\ watcher'.watched /\ watcher'.timer
        /\ watcher'.running = watcher.running
    BY <1>2, <2>1, MethodsType
  <2> QED
    BY <1>2, <2>2 DEF Sync, Polls
<1> QED
  BY <1>1, <1>2

LEMMA TimerFiresInv ==
  ASSUME StatusInv, TimerFires
  PROVE  StatusInv'
<1> USE Bounds, GitStatusAssumption DEF StatusInv, TypeOK, StraysFit, TimerFires
<1>1. /\ watcher \in Watchers
      /\ [initial |-> watcher.initial, read |-> None] \in Runs
      /\ watcher.running \in Seq(Runs)
  BY DEF Watchers, Runs
<1> DEFINE running == Append(watcher.running, [initial |-> watcher.initial, read |-> None])
<1>2. running \in Seq(Runs) /\ Len(running) = Len(watcher.running) + 1 /\ running # <<>>
  <2>1. ASSUME NEW s \in Seq(Runs), NEW run \in Runs
        PROVE  /\ Append(s, run) \in Seq(Runs) /\ Len(Append(s, run)) = Len(s) + 1
               /\ Append(s, run) # <<>>
    OBVIOUS
  <2> QED
    BY ONLY <1>1, <2>1
<1>3. watcher' = [watcher EXCEPT !.timer = FALSE, !.initial = FALSE, !.running = running]
  OBVIOUS
<1> HIDE DEF running
<1>4. watcher' \in Watchers /\ watcher'.watched /\ watcher'.running = running
  BY <1>1, <1>2, <1>3 DEF Watchers
<1>5. Len(watcher'.running) <= MaxRunning
  BY <1>1, <1>2, <1>4
<1>6. watcher' # None
  BY <1>4
<1> QED
  BY <1>2, <1>4, <1>5, <1>6 DEF WatchedIsPolled, Polls

LEMMA RunGoesOnInv ==
  ASSUME StatusInv, NEW n, RunGoesOn(n)
  PROVE  StatusInv'
<1> USE Bounds, GitStatusAssumption DEF StatusInv, TypeOK, StraysFit
<1>1. /\ watcher \in Watchers /\ watcher # None /\ n \in DOMAIN watcher.running
      /\ watcher.running \in Seq(Runs) /\ watcher.running[n] \in Runs
  BY DEF RunGoesOn, Watchers
<1>2. /\ Ended(n) \in Watchers /\ Ended(n).watched
      /\ Len(Ended(n).running) <= MaxRunning
  BY <1>1, EndedType
<1>3. CASE Read(n)
  <2>1. /\ watcher' = [watcher EXCEPT !.running[n].read = repository]
        /\ UNCHANGED <<strays, references, heard, repository, changes, errors, gaveUp, lostInitial>>
    BY <1>3 DEF Read
  <2> DEFINE running == [watcher.running EXCEPT ![n].read = repository]
  <2>2. running \in Seq(Runs) /\ Len(running) = Len(watcher.running) /\ running # <<>>
    BY <1>1 DEF Runs
  <2>3. watcher' = [watcher EXCEPT !.running = running]
    BY <2>1
  <2> HIDE DEF running
  <2>4. watcher' \in Watchers /\ watcher'.watched /\ watcher'.running = running
    BY <1>1, <2>2, <2>3 DEF Watchers
  <2>5. watcher' # None
    BY <2>4
  <2> QED
    BY <1>1, <2>1, <2>2, <2>4, <2>5 DEF WatchedIsPolled, Polls
<1>4. CASE StatusRead(n)
  <2> DEFINE next == IF watcher.running[n].initial \/ watcher.running[n].read # watcher.status
                     THEN [Ended(n) EXCEPT !.status = watcher.running[n].read] ELSE Ended(n)
  <2>1. watcher' = Schedule(next) /\ watcher.running[n].read \in Statuses
    BY <1>4 DEF StatusRead
  <2>2. next \in Watchers /\ next.watched /\ next.running = Ended(n).running
    BY <1>2, <2>1 DEF Watchers
  <2> HIDE DEF next
  <2>3. /\ watcher' \in Watchers /\ watcher'.watched /\ watcher'.timer
        /\ Len(watcher'.running) <= MaxRunning
    BY <1>2, <2>1, <2>2, MethodsType
  <2>4. watcher' # None
    BY <2>3
  <2>5. heard' \in [Pages -> Statuses \cup {None}]
    BY <1>4 DEF StatusRead
  <2>6. UNCHANGED <<strays, references, repository, changes, errors, gaveUp>>
    BY <1>4 DEF StatusRead
  <2>7. lostInitial' \in BOOLEAN
    BY <1>4 DEF StatusRead
  <2> QED
    BY <1>1, <2>3, <2>4, <2>5, <2>6, <2>7 DEF WatchedIsPolled, Polls
<1>5. CASE RepositoryMissing(n)
  <2>1. watcher' = Ended(n) /\ watcher' # None
    BY <1>2, <1>5 DEF RepositoryMissing
  <2>2. /\ gaveUp' = ~Polls(watcher')
        /\ UNCHANGED <<strays, references, heard, repository, changes, errors>>
    BY <1>5, <2>1 DEF RepositoryMissing
  <2>3. lostInitial' \in BOOLEAN
    BY <1>1, <1>5 DEF RepositoryMissing, LostBy, Runs
  <2>4. gaveUp' \in BOOLEAN
    BY <2>2
  <2> QED
    BY <1>1, <1>2, <2>1, <2>2, <2>3, <2>4 DEF WatchedIsPolled, Polls
<1>6. CASE StatusError(n)
  <2>1. watcher' = Schedule(Ended(n))
    BY <1>6 DEF StatusError
  <2>2. /\ watcher' \in Watchers /\ watcher'.watched /\ watcher'.timer
        /\ Len(watcher'.running) <= MaxRunning
    BY <1>2, <2>1, MethodsType
  <2>3. watcher' # None
    BY <2>2
  <2>4. errors' \in 0..MaxErrors /\ lostInitial' \in BOOLEAN
    BY <1>1, <1>6 DEF StatusError, LostBy, Runs
  <2>5. UNCHANGED <<strays, references, heard, repository, changes, gaveUp>>
    BY <1>6 DEF StatusError
  <2> QED
    BY <1>1, <2>2, <2>3, <2>4, <2>5 DEF WatchedIsPolled, Polls
<1> QED
  BY <1>3, <1>4, <1>5, <1>6 DEF RunGoesOn

LEMMA OtherStepsInv ==
  ASSUME StatusInv, StrayStops \/ Change \/ UNCHANGED vars
  PROVE  StatusInv'
<1> USE Bounds, GitStatusAssumption DEF StatusInv, TypeOK, StraysFit, WatchedIsPolled, Polls
<1>1. CASE StrayStops
  BY <1>1 DEF StrayStops
<1>2. CASE Change
  BY <1>2 DEF Change
<1>3. CASE UNCHANGED vars
  BY <1>3 DEF vars
<1> QED
  BY <1>1, <1>2, <1>3

LEMMA UnwatchIsRelease ==
  ASSUME StatusInv, NEW p \in Pages, Unwatch(p) \/ Close(p)
  PROVE  references[p] > 0 /\ \E n \in 1..references[p] : Release(p, n)
BY GitStatusAssumption DEF Unwatch, Close, StatusInv, TypeOK

LEMMA StatusNextInv == StatusInv /\ [Next]_vars => StatusInv'
<1> SUFFICES ASSUME StatusInv, [Next]_vars PROVE StatusInv'
  OBVIOUS
<1>1. ASSUME NEW p \in Pages, Watch(p) PROVE StatusInv'
  BY <1>1, WatchInv
<1>2. ASSUME NEW p \in Pages, Unwatch(p) \/ Close(p) PROVE StatusInv'
  BY <1>2, UnwatchIsRelease, ReleaseInv
<1>3. CASE Sync
  BY <1>3, SyncInv
<1>4. CASE TimerFires
  BY <1>4, TimerFiresInv
<1>5. ASSUME NEW n \in 1..MaxRunning, RunGoesOn(n) PROVE StatusInv'
  BY <1>5, RunGoesOnInv
<1>6. CASE StrayStops \/ Change \/ UNCHANGED vars
  BY <1>6, OtherStepsInv
<1> QED
  BY <1>1, <1>2, <1>3, <1>4, <1>5, <1>6 DEF Next

LEMMA StatusInductive == Spec => []StatusInv
<1>1. Init => StatusInv
  BY StatusInitInv
<1>2. StatusInv /\ [Next]_vars => StatusInv'
  BY StatusNextInv
<1> QED
  BY <1>1, <1>2, PTL DEF Spec

-----------------------------------------------------------------------------
(* Theorems. *)

\* The types of GitStatus are right; in particular the manager has a watcher exactly while
\* a server holds a reference.
THEOREM TypeCorrect == Spec => []TypeOK
<1>1. StatusInv => TypeOK
  BY DEF StatusInv
<1> QED
  BY <1>1, StatusInductive, PTL

\* A repository that is watched is polled, unless git found none (the timer and syncStatus of
\* GitRepositoryWatcher).
THEOREM Polled == Spec => []WatchedIsPolled
<1>1. StatusInv => WatchedIsPolled
  BY DEF StatusInv
<1> QED
  BY <1>1, StatusInductive, PTL

\* A watcher without a holder goes on polling only when git status ran at its disposal, or
\* after an operation on a repository nobody watches (dispose and sync).
THEOREM StraysHaveReasons == Spec => StraysExplained
<1> DEFINE Explained == strays' > strays => watcher = None \/ watcher.running # <<>>
<1>1. StatusInv /\ [Next]_vars => [Explained]_vars
  <2> SUFFICES ASSUME StatusInv, Next, strays' > strays, watcher # None
               PROVE  watcher.running # <<>>
    BY DEF Explained
  <2> USE DEF StatusInv, TypeOK
  <2>1. ASSUME NEW p \in Pages, NEW n, Release(p, n) PROVE watcher.running # <<>>
    <3>1. Polls(Disposed(watcher)) /\ watcher \in Watchers /\ watcher.watched
      BY <2>1 DEF Release
    <3> QED
      BY <3>1, MethodsType DEF Polls
  <2>2. CASE \E p \in Pages : Unwatch(p) \/ Close(p)
    BY <2>1, <2>2 DEF Unwatch, Close
  <2>3. CASE \E p \in Pages : Watch(p)
    BY <2>3 DEF Watch
  <2>4. CASE Sync \/ TimerFires \/ StrayStops \/ Change
    BY <2>4 DEF Sync, TimerFires, StrayStops, Change
  <2>5. CASE \E n \in 1..MaxRunning : RunGoesOn(n)
    BY <2>5 DEF RunGoesOn, Read, StatusRead, RepositoryMissing, StatusError
  <2> QED
    BY <2>2, <2>3, <2>4, <2>5 DEF Next
<1> QED
  BY <1>1, StatusInductive, PTL DEF Spec, StraysExplained
=============================================================================
