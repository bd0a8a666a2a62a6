------------------------- MODULE FileWatching_proofs -------------------------
(***************************************************************************)
(* Proofs about FileWatching, for any clients and any bounds.  Local ids   *)
(* are numbered once and for all, so that what a message says of an id     *)
(* stays true; what a server numbers is forgotten with its connection.     *)
(***************************************************************************)
EXTENDS FileWatching, SequenceTheorems, FiniteSetTheorems, TLAPS

Status == {"starting", "polling", "found", "running", "stopped", "failed"}
Request ==
  [kind : {"watch"}, id : Ids, first : BOOLEAN] \cup [kind : {"unwatch"}, id : Ids, remote : Nat]
Message ==
  [kind : {"watched"}, id : Ids, first : BOOLEAN, remote : Nat]
    \cup [kind : {"refused"}, id : Ids, first : BOOLEAN]
    \cup [kind : {"changed"}, changes : [Clients -> Nat]]

UserTypes ==
  /\ client \in [Clients -> {"idle", "asking", "watching", "stopped", "failed"}]
  /\ toStop \in [Clients -> Ids \cup {0}]
  /\ toRestartAll \in Seq(Ids)
ServiceTypes ==
  /\ owners \in Seq(Clients) /\ Len(owners) <= MaxWatches
  /\ localToRemote \in [Ids -> Nat]
  /\ session \in 0..MaxSessions /\ connected \in BOOLEAN
  /\ waiting \in Seq(Request) /\ up \in Seq(Request) /\ down \in Seq(Message)
  /\ watchers \in Seq([id : Ids, first : BOOLEAN, status : Status])
  /\ changes \in [Clients -> Nat] /\ noticed \in [Clients -> Nat] /\ told \in [Clients -> Nat]
  /\ exists \subseteq Clients
TypeInv == UserTypes /\ ServiceTypes

\* A connection that is closed carries nothing, and nothing waits for one that is open.
ConnectionInv ==
  /\ connected => waiting = <<>> /\ session # 0
  /\ ~connected => up = <<>> /\ down = <<>> /\ watchers = <<>> /\ changes = Nowhere

\* Only local ids that have been given are watched and spoken of.
Given == 1..Len(owners)
GivenInv ==
  /\ watchParams \subseteq Given /\ pending \subseteq watchParams /\ rejected \subseteq watchParams
  /\ robbed \subseteq Given
  /\ \A n \in DOMAIN toRestartAll : toRestartAll[n] \in Given
  /\ \A n \in DOMAIN waiting : waiting[n].id \in Given
  /\ \A n \in DOMAIN up : up[n].id \in Given
  /\ \A r \in DOMAIN watchers : watchers[r].id \in Given
  /\ \A n \in DOMAIN down : down[n].kind # "changed" => down[n].id \in Given

\* What is reported has been noticed.
NoticedInv ==
  /\ \A c \in Clients : changes[c] <= noticed[c] /\ told[c] <= noticed[c]
  /\ \A n \in DOMAIN down :
       down[n].kind = "changed" => \A c \in Clients : down[n].changes[c] <= noticed[c]

\* A remote id is that of a watcher for the same local id: in an answer, and in the map once the
\* connection has answered.
MappedInv ==
  /\ \A n \in DOMAIN down :
       down[n].kind = "watched" =>
         down[n].remote \in DOMAIN watchers /\ watchers[down[n].remote].id = down[n].id
  /\ session = 0 => \A i \in Ids : localToRemote[i] = 0
  /\ IdsAgree

\* An unwatch is sent when its id is not wanted any more.
Unwanted(q) == \A n \in DOMAIN q : q[n].kind = "unwatch" => q[n].id \notin watchParams

\* Every id that is wanted is asked for by the first connection and by each that follows.
WantedInv ==
  /\ Unwanted(waiting) /\ Unwanted(up)
  /\ session = 0 =>
       \A i \in watchParams : \E n \in DOMAIN waiting : waiting[n].kind = "watch" /\ waiting[n].id = i
  /\ connected =>
       \A i \in watchParams \ robbed :
         \/ \E n \in DOMAIN up : up[n].kind = "watch" /\ up[n].id = i
         \/ \E r \in DOMAIN watchers : watchers[r].id = i /\ watchers[r].status # "stopped"

-----------------------------------------------------------------------------
(* A promise is settled by one answer: the call of a pending id is in one place.  *)

Firsts(q) == {n \in DOMAIN q : q[n].kind \in {"watch", "watched", "refused"} /\ q[n].first}
Starting(ws) == {r \in DOMAIN ws : ws[r].status = "starting" /\ ws[r].first}
Once(q, P) == \A m, n \in P : q[m].id = q[n].id => m = n
Apart(q, P, r, R) == \A m \in P, n \in R : q[m].id # r[n].id
AllIn(q, P, S) == \A n \in P : q[n].id \in S

FirstInv ==
  /\ AllIn(waiting, Firsts(waiting), pending) /\ Once(waiting, Firsts(waiting))
  /\ AllIn(up, Firsts(up), pending) /\ Once(up, Firsts(up))
  /\ AllIn(watchers, Starting(watchers), pending) /\ Once(watchers, Starting(watchers))
  /\ AllIn(down, Firsts(down), pending) /\ Once(down, Firsts(down))
  /\ Apart(up, Firsts(up), watchers, Starting(watchers))
  /\ Apart(up, Firsts(up), down, Firsts(down))
  /\ Apart(watchers, Starting(watchers), down, Firsts(down))

\* The local ids of a client replace one another: only its last one can be wanted or restarted.
IsLast(i) == \A j \in Given : owners[j] = owners[i] => j <= i
IsFirst(i) == \A j \in Given : owners[j] = owners[i] => i <= j

ChainInv ==
  /\ \A i \in watchParams : IsLast(i)
  /\ \A n \in DOMAIN toRestartAll :
       IsLast(toRestartAll[n]) /\ toRestartAll[n] \notin pending \cup rejected
  /\ \A m, n \in DOMAIN toRestartAll : toRestartAll[m] = toRestartAll[n] => m = n
  /\ pending \cap rejected = {}
  /\ \A i \in Given : client[owners[i]] # "idle"
  /\ \A i \in pending : client[owners[i]] = "asking" \/ ~IsFirst(i)
  /\ \A c \in Clients : toStop[c] # 0 =>
       /\ \E n \in DOMAIN toRestartAll : toRestartAll[n] = toStop[c]
       /\ owners[toStop[c]] = c

IInv ==
  /\ TypeInv /\ ConnectionInv /\ GivenInv /\ NoticedInv /\ MappedInv /\ WantedInv /\ FirstInv
  /\ ChainInv /\ OrphansExplained

-----------------------------------------------------------------------------
(* The helpers.                                                              *)

LEMMA Bounds == MaxWatches \in Nat /\ MaxSessions \in Nat /\ Ids \subseteq Nat \ {0}
BY WatchingAssumption DEF WatchingAssumption, Ids

Below(S, i) == {j \in S : j < i}

\* Ascending lists the members of a finite set of numbers, and nothing else.
LEMMA AscendingIs ==
  ASSUME NEW S \in SUBSET Nat, IsFiniteSet(S)
  PROVE  /\ Ascending(S) \in Seq(S)
         /\ \A i \in S : \E n \in DOMAIN Ascending(S) : Ascending(S)[n] = i
<1> DEFINE size == Cardinality(S)
           rank == [i \in S |-> Cardinality(Below(S, i))]
<1>1. size \in Nat
  BY FS_CardinalityType
<1>2. \A i \in S : /\ IsFiniteSet(Below(S, i)) /\ Cardinality(Below(S, i)) \in Nat
                   /\ Cardinality(Below(S, i)) < size
  <2> TAKE i \in S
  <2>1. IsFiniteSet(S \ {i}) /\ Cardinality(S \ {i}) = size - 1
    BY FS_RemoveElement
  <2>2. Below(S, i) \in SUBSET (S \ {i})
    BY DEF Below
  <2>3. IsFiniteSet(Below(S, i)) /\ Cardinality(Below(S, i)) <= size - 1
    BY <2>1, <2>2, FS_Subset
  <2> QED BY <2>3, <1>1, FS_CardinalityType
<1>3. \A i, k \in S : i < k => Cardinality(Below(S, i)) < Cardinality(Below(S, k))
  <2> SUFFICES ASSUME NEW i \in S, NEW k \in S, i < k
               PROVE  Cardinality(Below(S, i)) < Cardinality(Below(S, k))
    OBVIOUS
  <2>1. i \notin Below(S, i) /\ IsFiniteSet(Below(S, i)) /\ IsFiniteSet(Below(S, k))
    BY <1>2 DEF Below
  <2>2. IsFiniteSet(Below(S, i) \cup {i}) /\ Cardinality(Below(S, i) \cup {i}) = Cardinality(Below(S, i)) + 1
    BY <2>1, FS_AddElement
  <2>3. Below(S, i) \cup {i} \in SUBSET Below(S, k)
    <3>1. \A j \in Below(S, i) : j \in S /\ j < k
      BY DEF Below
    <3> QED BY <3>1 DEF Below
  <2>4. Cardinality(Below(S, i) \cup {i}) <= Cardinality(Below(S, k))
    BY <2>1, <2>3, FS_Subset
  <2> QED BY <2>2, <2>4, <1>2
<1>4. DOMAIN rank = S /\ \A i \in S : rank[i] = Cardinality(Below(S, i))
  OBVIOUS
<1>5. rank \in [S -> 0..size - 1]
  BY <1>1, <1>2
<1> HIDE DEF rank
<1>6. \A i, k \in S : rank[i] = rank[k] => i = k
  <2> SUFFICES ASSUME NEW i \in S, NEW k \in S, rank[i] = rank[k], i # k
               PROVE  FALSE
    OBVIOUS
  <2>1. i < k \/ k < i
    OBVIOUS
  <2>2. Cardinality(Below(S, i)) = Cardinality(Below(S, k))
    BY <1>4
  <2> QED BY <2>1, <2>2, <1>2, <1>3
<1>7. rank \in Injection(S, 0..size - 1)
  BY <1>5, <1>6 DEF Injection, IsInjective
<1>8. IsFiniteSet(0..size - 1) /\ Cardinality(0..size - 1) = size
  <2>1. 0 \in Int /\ size - 1 \in Int
    BY <1>1
  <2> QED BY <2>1, <1>1, FS_Interval
<1>9. rank \in Surjection(S, 0..size - 1)
  BY <1>7, <1>8, FS_Injection
<1>10. \A n \in 1..size : \E i \in S : Cardinality(Below(S, i)) = n - 1
  <2> TAKE n \in 1..size
  <2>1. n - 1 \in 0..size - 1
    BY <1>1
  <2> QED BY <2>1, <1>9, <1>4 DEF Surjection
<1> DEFINE q == Ascending(S)
<1>11. q = [n \in 1..size |-> CHOOSE i \in S : Cardinality(Below(S, i)) = n - 1]
  BY DEF Ascending, Below
<1> HIDE DEF q
<1>12. \A n \in 1..size : q[n] \in S /\ Cardinality(Below(S, q[n])) = n - 1
  BY <1>10, <1>11
<1>13. q \in [1..size -> S]
  BY <1>11, <1>12
<1>14. \A i \in S : \E n \in 1..size : q[n] = i
  <2> TAKE i \in S
  <2>1. rank[i] \in Nat /\ rank[i] + 1 \in 1..size
    BY <1>1, <1>5
  <2>2. q[rank[i] + 1] \in S /\ Cardinality(Below(S, q[rank[i] + 1])) = rank[i]
    BY <2>1, <1>12
  <2>3. q[rank[i] + 1] = i
    BY <2>2, <1>4, <1>6
  <2> QED BY <2>1, <2>3
<1>15. q \in Seq(S) /\ DOMAIN q = 1..size
  BY <1>1, <1>13
<1> QED BY <1>14, <1>15 DEF q

\* unwatchFileChanges of several ids makes no call but unwatches of them.
LEMMA UnwatchesIs ==
  ASSUME TypeInv, NEW is \in Seq(Ids)
  PROVE  /\ Unwatches(is) \in Seq(Request)
         /\ \A n \in DOMAIN Unwatches(is) : Unwatches(is)[n].kind = "unwatch" /\ Unwatches(is)[n].id \in ToSet(is)
<1> DEFINE S == {n \in DOMAIN is : localToRemote[is[n]] # 0}
           mapped == Ascending(S)
<1>0. Len(is) \in Nat /\ DOMAIN is = 1..Len(is)
  OBVIOUS
<1>1. S \in SUBSET (1..Len(is)) /\ IsFiniteSet(1..Len(is)) /\ S \in SUBSET Nat
  <2>1. 1 \in Int /\ Len(is) \in Int
    BY <1>0
  <2>2. IsFiniteSet(1..Len(is))
    BY <2>1, FS_Interval
  <2> QED BY <2>2, <1>0
<1>2. IsFiniteSet(S)
  BY <1>1, FS_Subset
<1>3. mapped \in Seq(S)
  BY <1>1, <1>2, AscendingIs
<1> HIDE DEF mapped
<1>4. \A n \in DOMAIN mapped : mapped[n] \in DOMAIN is
  BY <1>3, <1>1
<1>5. \A n \in DOMAIN mapped :
        /\ UnwatchRequest(is[mapped[n]]) \in Request /\ UnwatchRequest(is[mapped[n]]).kind = "unwatch"
        /\ UnwatchRequest(is[mapped[n]]).id = is[mapped[n]]
  BY <1>4 DEF UnwatchRequest, Request, TypeInv, ServiceTypes
<1>6. Unwatches(is) = [n \in DOMAIN mapped |-> UnwatchRequest(is[mapped[n]])]
  BY DEF Unwatches, mapped
<1>7. DOMAIN mapped = 1..Len(mapped) /\ Len(mapped) \in Nat
  BY <1>3
<1>8. Unwatches(is) \in [1..Len(mapped) -> Request]
  BY <1>5, <1>6, <1>7
<1>9. \A n \in DOMAIN mapped : is[mapped[n]] \in ToSet(is)
  BY <1>4 DEF ToSet
<1> QED BY <1>5, <1>6, <1>7, <1>8, <1>9

\* What a frontend action that makes calls does: it stops the ids of S and asks for N new ones.
New(N) == Len(owners) + 1..Len(owners) + N
Calls(calls, S, U, N) ==
  /\ calls \in Seq(Request) /\ Len(calls) = U + N
  /\ \A k \in 1..U : calls[k].kind = "unwatch" /\ calls[k].id \in S
  /\ \A n \in 1..N : calls[U + n] = WatchRequest(Len(owners) + n, TRUE)
Caller(calls, S, U, N) ==
  /\ S \subseteq Given /\ S \cap (pending \cup rejected) = {} /\ toRestartAll' \in {toRestartAll, <<>>}
  /\ Calls(calls, S, U, N) /\ Send(calls)
  /\ watchParams' = (watchParams \ S) \cup New(N)
  /\ pending' = pending \cup New(N)
  /\ owners' \in Seq(Clients) /\ Len(owners') = Len(owners) + N /\ Len(owners') <= MaxWatches
  /\ \A i \in Given : owners'[i] = owners[i]
  /\ localToRemote' = [i \in Ids |-> IF i \in S THEN 0 ELSE localToRemote[i]]
  /\ UNCHANGED <<told, rejected, serverVars, fileVars>>

LEMMA Single ==
  ASSUME NEW S, NEW x \in S
  PROVE  <<x>> \in Seq(S) /\ Len(<<x>>) = 1 /\ <<x>>[1] = x
OBVIOUS

LEMMA Joined ==
  ASSUME NEW S, NEW p \in Seq(S), NEW q \in Seq(S)
  PROVE  /\ p \o q \in Seq(S) /\ Len(p \o q) = Len(p) + Len(q)
         /\ Len(p) \in Nat /\ Len(q) \in Nat /\ DOMAIN (p \o q) = 1..Len(p) + Len(q)
         /\ \A n \in 1..Len(p) : (p \o q)[n] = p[n]
         /\ \A n \in 1..Len(q) : (p \o q)[Len(p) + n] = q[n]
OBVIOUS

LEMMA Appended ==
  ASSUME NEW S, NEW q \in Seq(S), NEW x \in S, NEW p, p = Append(q, x)
  PROVE  /\ p \in Seq(S) /\ Len(p) = Len(q) + 1 /\ Len(q) \in Nat /\ DOMAIN q = 1..Len(q)
         /\ \A n \in DOMAIN q : n \in DOMAIN p /\ p[n] = q[n]
         /\ Len(q) + 1 \in DOMAIN p /\ p[Len(q) + 1] = x
         /\ \A n \in DOMAIN p : n \in DOMAIN q \/ n = Len(q) + 1
OBVIOUS

LEMMA WatchCalls ==
  ASSUME TypeInv, GivenInv, NEW c \in Clients, Watch(c)
  PROVE  \E calls, S : \E U, N \in Nat : Caller(calls, S, U, N)
<1> DEFINE i == Len(owners) + 1
           calls == <<WatchRequest(i, TRUE)>>
<1>1. i \in Ids /\ Len(owners) \in Nat /\ owners \in Seq(Clients)
  BY DEF Watch, TypeInv, ServiceTypes
<1>2. WatchRequest(i, TRUE) \in Request
  BY <1>1 DEF WatchRequest, Request
<1>3. Calls(calls, {}, 0, 1)
  <2>1. calls \in Seq(Request) /\ Len(calls) = 1 /\ calls[1] = WatchRequest(i, TRUE)
    BY <1>2, Single
  <2> HIDE DEF calls
  <2>2. \A n \in 1..1 : calls[0 + n] = WatchRequest(Len(owners) + n, TRUE)
    <3> TAKE n \in 1..1
    <3>1. n = 1 /\ 0 + n = 1 /\ Len(owners) + n = i
      OBVIOUS
    <3> QED BY <2>1, <3>1
  <2>3. \A k \in 1..0 : calls[k].kind = "unwatch" /\ calls[k].id \in {}
    OBVIOUS
  <2>4. Len(calls) = 0 + 1
    BY <2>1
  <2> QED BY <2>1, <2>2, <2>3, <2>4 DEF Calls
<1>4. New(1) = {i}
  BY <1>1 DEF New
<1>5. /\ owners' \in Seq(Clients) /\ Len(owners') = Len(owners) + 1 /\ Len(owners') <= MaxWatches
      /\ \A j \in Given : owners'[j] = owners[j]
  BY <1>1 DEF Watch, Given, Ids
<1>6. localToRemote' = [j \in Ids |-> IF j \in {} THEN 0 ELSE localToRemote[j]]
  BY DEF Watch, TypeInv, ServiceTypes
<1>7. Send(calls) /\ watchParams' = (watchParams \ {}) \cup {i} /\ pending' = pending \cup {i}
  BY DEF Watch
<1>8. UNCHANGED <<told, rejected, serverVars, fileVars>>
  BY DEF Watch
<1>9. Caller(calls, {}, 0, 1)
  <2>1. toRestartAll' = toRestartAll
    BY DEF Watch
  <2> QED BY <2>1, <1>3, <1>4, <1>5, <1>6, <1>7, <1>8 DEF Caller
<1> QED BY <1>9

\* The ids that toRestartAll holds, stopped in the opposite order.
LEMMA ReverseIs ==
  ASSUME TypeInv
  PROVE  /\ Reverse(toRestartAll) \in Seq(Ids) /\ Len(Reverse(toRestartAll)) = Len(toRestartAll)
         /\ \A n \in 1..Len(toRestartAll) : Reverse(toRestartAll)[n] = toRestartAll[Len(toRestartAll) - n + 1]
         /\ ToSet(Reverse(toRestartAll)) = ToSet(toRestartAll)
<1> DEFINE is == Reverse(toRestartAll)
           size == Len(toRestartAll)
<1>1. size \in Nat /\ DOMAIN toRestartAll = 1..size /\ \A n \in 1..size : toRestartAll[n] \in Ids
  BY DEF TypeInv, UserTypes, ServiceTypes
<1>2. is = [n \in 1..size |-> toRestartAll[(size - n) + 1]]
  BY DEF Reverse
<1> HIDE DEF is
<1>3. \A n \in 1..size : (size - n) + 1 \in 1..size /\ size - ((size - n) + 1) + 1 = n
  BY <1>1
<1>4. is \in [1..size -> Ids] /\ \A n \in 1..size : is[n] = toRestartAll[size - n + 1]
  BY <1>1, <1>2, <1>3
<1>5. is \in Seq(Ids) /\ Len(is) = size /\ DOMAIN is = 1..size
  BY <1>1, <1>4
<1>6. \A n \in 1..size : is[n] \in ToSet(toRestartAll)
  BY <1>1, <1>3, <1>4 DEF ToSet
<1>7. \A n \in 1..size : toRestartAll[n] \in ToSet(is)
  <2> TAKE n \in 1..size
  <2>1. is[size - n + 1] = toRestartAll[n] /\ size - n + 1 \in 1..size
    BY <1>3, <1>4
  <2> QED BY <2>1, <1>5 DEF ToSet
<1>8. ToSet(is) = ToSet(toRestartAll)
  BY <1>1, <1>5, <1>6, <1>7 DEF ToSet
<1> QED BY <1>4, <1>5, <1>8 DEF is

\* toStop and toRestartAll name ids that have been given.
LEMMA StoppedGiven ==
  ASSUME TypeInv, GivenInv, ChainInv
  PROVE  /\ ToSet(toRestartAll) \subseteq Given
         /\ ToSet(toRestartAll) \cap (pending \cup rejected) = {}
         /\ \A c \in Clients : toStop[c] # 0 => toStop[c] \in ToSet(toRestartAll) /\ toStop[c] \in Given
<1>1. ToSet(toRestartAll) \subseteq Given
  BY DEF GivenInv, ToSet
<1>2. ToSet(toRestartAll) \cap (pending \cup rejected) = {}
  BY DEF ChainInv, ToSet
<1> QED BY <1>1, <1>2 DEF ChainInv, ToSet

LEMMA DisposeCalls ==
  ASSUME TypeInv, GivenInv, ChainInv, NEW c \in Clients, Dispose(c)
  PROVE  \E calls, S : \E U, N \in Nat : Caller(calls, S, U, N)
<1> DEFINE is == IF toStop[c] = 0 THEN <<>> ELSE <<toStop[c]>>
           calls == Unwatches(is)
           S == ToSet(is)
<1>1. is \in Seq(Ids) /\ \A n \in DOMAIN is : is[n] \in Given /\ is[n] \in ToSet(toRestartAll)
  <2>1. CASE toStop[c] = 0
    BY <2>1
  <2>2. CASE toStop[c] # 0
    <3>1. toStop[c] \in Ids /\ toStop[c] \in Given /\ toStop[c] \in ToSet(toRestartAll)
      BY <2>2, StoppedGiven DEF TypeInv, UserTypes, ServiceTypes
    <3> QED BY <2>2, <3>1, Single
  <2> QED BY <2>1, <2>2
<1>2. /\ Send(calls) /\ Forget(is) /\ watchParams' = watchParams \ S
      /\ UNCHANGED <<toRestartAll, owners, pending, told, rejected, serverVars, fileVars>>
  BY DEF Dispose
<1> HIDE DEF is
<1>3. S \subseteq Given /\ S \cap (pending \cup rejected) = {}
  <2>1. S \subseteq Given /\ S \subseteq ToSet(toRestartAll)
    BY <1>1 DEF ToSet
  <2> QED BY <2>1, StoppedGiven
<1>4. /\ calls \in Seq(Request)
      /\ \A n \in DOMAIN calls : calls[n].kind = "unwatch" /\ calls[n].id \in S
  BY <1>1, UnwatchesIs
<1> HIDE DEF S
<1>5. localToRemote' = [j \in Ids |-> IF j \in S THEN 0 ELSE localToRemote[j]]
  BY <1>2 DEF Forget, S
<1> HIDE DEF calls
<1>6. Len(owners) \in Nat /\ owners \in Seq(Clients) /\ Len(owners) <= MaxWatches
  BY DEF TypeInv, UserTypes, ServiceTypes
<1>7. New(0) = {} /\ Len(owners) + 0 = Len(owners)
  BY <1>6 DEF New
<1>8. Len(calls) \in Nat /\ Calls(calls, S, Len(calls), 0)
  <2>1. Len(calls) \in Nat /\ DOMAIN calls = 1..Len(calls)
    BY <1>4
  <2>2. \A n \in 1..0 : calls[Len(calls) + n] = WatchRequest(Len(owners) + n, TRUE)
    OBVIOUS
  <2>3. Len(calls) = Len(calls) + 0
    BY <2>1
  <2> QED BY <2>1, <2>2, <2>3, <1>4 DEF Calls
<1>9. Caller(calls, S, Len(calls), 0)
  BY <1>2, <1>3, <1>5, <1>6, <1>7, <1>8 DEF Caller
<1> QED BY <1>8, <1>9

\* What the change of the ignored patterns does to the ids: the n-th that is stopped is followed by
\* the n-th new one.
LEMMA PreferenceIs ==
  ASSUME TypeInv, GivenInv, PreferenceChanged,
         NEW is \in Seq(Ids), is = Reverse(toRestartAll), NEW N \in Nat, N = Len(toRestartAll)
  PROVE  /\ owners' \in Seq(Clients) /\ Len(owners') = Len(owners) + N /\ Len(owners') <= MaxWatches
         /\ \A i \in Given : owners'[i] = owners[i]
         /\ \A n \in 1..N : owners'[Len(owners) + n] = owners[is[n]] /\ is[n] \in Given
         /\ New(N) \subseteq Ids
         /\ toRestartAll' = <<>> /\ N # 0
         /\ toStop' = [c \in Clients |-> IF toStop[c] \in ToSet(toRestartAll) THEN 0 ELSE toStop[c]]
         /\ watchParams' = (watchParams \ ToSet(toRestartAll)) \cup New(N)
         /\ pending' = pending \cup New(N)
         /\ localToRemote' = [i \in Ids |-> IF i \in ToSet(toRestartAll) THEN 0 ELSE localToRemote[i]]
         /\ Send(Unwatches(is) \o [n \in 1..N |-> WatchRequest(Len(owners) + n, TRUE)])
         /\ UNCHANGED <<client, told, rejected, serverVars, fileVars>>
<1> DEFINE new == [n \in DOMAIN is |-> Len(owners) + n]
<1>1. Len(is) = N /\ DOMAIN is = 1..N /\ ToSet(is) = ToSet(toRestartAll)
  BY ReverseIs
<1>2. /\ is # <<>> /\ ToSet(new) \subseteq Ids /\ toRestartAll' = <<>>
      /\ owners' = owners \o [n \in DOMAIN is |-> owners[is[n]]]
      /\ toStop' = [c \in Clients |-> IF toStop[c] \in ToSet(is) THEN 0 ELSE toStop[c]]
      /\ watchParams' = (watchParams \ ToSet(is)) \cup ToSet(new)
      /\ pending' = pending \cup ToSet(new)
      /\ Forget(is)
      /\ Send(Unwatches(is) \o [n \in DOMAIN new |-> WatchRequest(new[n], TRUE)])
      /\ UNCHANGED <<client, told, rejected, serverVars, fileVars>>
  BY DEF PreferenceChanged
<1>3. Len(owners) \in Nat /\ owners \in Seq(Clients)
  BY DEF TypeInv, UserTypes, ServiceTypes
<1>4. DOMAIN new = 1..N /\ \A n \in 1..N : new[n] = Len(owners) + n
  BY <1>1
<1>5. ToSet(new) = New(N)
  <2>1. \A n \in 1..N : Len(owners) + n \in New(N)
    BY <1>3 DEF New
  <2>2. \A i \in New(N) : i - Len(owners) \in 1..N /\ Len(owners) + (i - Len(owners)) = i
    BY <1>3 DEF New
  <2> QED BY <2>1, <2>2, <1>4 DEF ToSet
<1>6. \A n \in 1..N : is[n] \in Given
  BY <1>1, ReverseIs DEF GivenInv, ToSet
<1> DEFINE added == [n \in 1..N |-> owners[is[n]]]
<1>7. added \in Seq(Clients) /\ Len(added) = N /\ \A n \in 1..N : added[n] = owners[is[n]]
  BY <1>3, <1>6 DEF Given
<1>8. owners' = owners \o added
  BY <1>1, <1>2
<1> HIDE DEF added
<1>9. /\ owners' \in Seq(Clients) /\ Len(owners') = Len(owners) + N
      /\ \A i \in Given : owners'[i] = owners[i]
      /\ \A n \in 1..N : owners'[Len(owners) + n] = added[n]
  <2>1. PICK o, a, p : o = owners /\ a = added /\ p = owners'
    OBVIOUS
  <2>2. o \in Seq(Clients) /\ a \in Seq(Clients) /\ p = o \o a /\ Len(a) = N
    BY <2>1, <1>3, <1>7, <1>8
  <2>3. /\ p \in Seq(Clients) /\ Len(p) = Len(o) + N
        /\ \A i \in 1..Len(o) : p[i] = o[i]
        /\ \A n \in 1..N : p[Len(o) + n] = a[n]
    <3>1. /\ o \o a \in Seq(Clients) /\ Len(o \o a) = Len(o) + Len(a)
          /\ \A n \in 1..Len(o) : (o \o a)[n] = o[n]
          /\ \A n \in 1..Len(a) : (o \o a)[Len(o) + n] = a[n]
      <4>1. o \in Seq(Clients) /\ a \in Seq(Clients)
        BY <2>2
      <4> QED BY ONLY <4>1, Joined
    <3> QED BY ONLY <2>2, <3>1
  <2> QED BY <2>1, <2>3 DEF Given
<1>10. N # 0
  BY <1>1, <1>2
<1>11. Len(owners) + N \in New(N)
  BY <1>3, <1>10 DEF New
<1>12. Len(owners) + N <= MaxWatches
  BY <1>11, <1>5, <1>2, Bounds DEF Ids
<1>13. localToRemote' = [i \in Ids |-> IF i \in ToSet(toRestartAll) THEN 0 ELSE localToRemote[i]]
  BY <1>1, <1>2 DEF Forget
<1>14. [n \in DOMAIN new |-> WatchRequest(new[n], TRUE)] = [n \in 1..N |-> WatchRequest(Len(owners) + n, TRUE)]
  BY <1>4
<1> QED BY <1>1, <1>2, <1>5, <1>6, <1>7, <1>9, <1>10, <1>12, <1>13, <1>14

LEMMA PreferenceCalls ==
  ASSUME TypeInv, GivenInv, ChainInv, PreferenceChanged
  PROVE  \E calls, S : \E U, N \in Nat : Caller(calls, S, U, N)
<1>1. PICK is \in Seq(Ids) : is = Reverse(toRestartAll)
  BY ReverseIs
<1>2. PICK N \in Nat : N = Len(toRestartAll)
  BY DEF TypeInv, UserTypes, ServiceTypes
<1> DEFINE S == ToSet(toRestartAll)
           uw == Unwatches(is)
           wt == [n \in 1..N |-> WatchRequest(Len(owners) + n, TRUE)]
           U == Len(uw)
           calls == uw \o wt
<1>3. /\ toRestartAll' = <<>>
      /\ owners' \in Seq(Clients) /\ Len(owners') = Len(owners) + N /\ Len(owners') <= MaxWatches
      /\ \A i \in Given : owners'[i] = owners[i]
      /\ New(N) \subseteq Ids
      /\ watchParams' = (watchParams \ S) \cup New(N) /\ pending' = pending \cup New(N)
      /\ localToRemote' = [i \in Ids |-> IF i \in S THEN 0 ELSE localToRemote[i]]
      /\ Send(calls)
      /\ UNCHANGED <<told, rejected, serverVars, fileVars>>
  BY <1>1, <1>2, PreferenceIs
<1>4. uw \in Seq(Request) /\ \A n \in DOMAIN uw : uw[n].kind = "unwatch" /\ uw[n].id \in S
  <2>1. ToSet(is) = S
    BY <1>1, ReverseIs
  <2> QED BY <2>1, UnwatchesIs
<1>5. \A n \in 1..N : WatchRequest(Len(owners) + n, TRUE) \in Request
  <2> TAKE n \in 1..N
  <2>1. Len(owners) + n \in New(N)
    BY DEF TypeInv, ServiceTypes, New
  <2>2. Len(owners) + n \in Ids
    BY <2>1, <1>3
  <2> QED BY <2>2 DEF WatchRequest, Request
<1>6. wt \in [1..N -> Request] /\ \A n \in 1..N : wt[n] = WatchRequest(Len(owners) + n, TRUE)
  BY <1>5
<1> HIDE DEF wt
<1>7. wt \in Seq(Request) /\ Len(wt) = N
  BY <1>6
<1> HIDE DEF uw
<1>8. U \in Nat /\ DOMAIN uw = 1..U
  BY <1>4
<1>9. /\ calls \in Seq(Request) /\ Len(calls) = U + N
      /\ \A k \in 1..U : calls[k] = uw[k]
      /\ \A n \in 1..N : calls[U + n] = wt[n]
  <2>1. /\ uw \o wt \in Seq(Request) /\ Len(uw \o wt) = Len(uw) + Len(wt)
        /\ \A n \in 1..Len(uw) : (uw \o wt)[n] = uw[n]
        /\ \A n \in 1..Len(wt) : (uw \o wt)[Len(uw) + n] = wt[n]
    <3>1. uw \in Seq(Request)
      BY <1>4
    <3>2. wt \in Seq(Request)
      BY <1>7
    <3> HIDE DEF S
    <3> QED BY ONLY <3>1, <3>2, Joined
  <2> QED BY <2>1, <1>7
<1> HIDE DEF calls, U
<1>10. Calls(calls, S, U, N)
  BY <1>4, <1>6, <1>8, <1>9 DEF Calls
<1>11. S \subseteq Given /\ S \cap (pending \cup rejected) = {}
  BY StoppedGiven
<1> HIDE DEF S
<1>12. Caller(calls, S, U, N)
  BY <1>3, <1>10, <1>11 DEF Caller
<1> QED BY <1>8, <1>12

-----------------------------------------------------------------------------
(* The types.                                                                *)

LEMMA FrontendCalls ==
  ASSUME TypeInv, GivenInv, ChainInv,
         (\E c \in Clients : Watch(c) \/ Dispose(c)) \/ PreferenceChanged
  PROVE  \E calls, S : \E U, N \in Nat : Caller(calls, S, U, N)
BY WatchCalls, DisposeCalls, PreferenceCalls

LEMMA CallerTypes ==
  ASSUME TypeInv, NEW calls, NEW S, NEW U \in Nat, NEW N \in Nat, Caller(calls, S, U, N)
  PROVE  ServiceTypes'
<1>1. calls \in Seq(Request)
  BY DEF Caller, Calls
<1>2. up' \in Seq(Request) /\ waiting' \in Seq(Request) /\ UNCHANGED <<session, connected, down>>
  <2>1. /\ up' = IF connected THEN up \o calls ELSE up
        /\ waiting' = IF connected THEN waiting ELSE waiting \o calls
        /\ UNCHANGED <<session, connected, down>>
    BY DEF Caller, Send
  <2>2. up \in Seq(Request) /\ waiting \in Seq(Request)
    BY DEF TypeInv, ServiceTypes
  <2>3. up \o calls \in Seq(Request) /\ waiting \o calls \in Seq(Request)
    BY ONLY <1>1, <2>2, Joined
  <2> QED BY <2>1, <2>2, <2>3
<1>3. localToRemote' \in [Ids -> Nat]
  BY DEF Caller, TypeInv, ServiceTypes
<1>4. owners' \in Seq(Clients) /\ Len(owners') <= MaxWatches /\ UNCHANGED <<told, serverVars, fileVars>>
  BY DEF Caller
<1> QED BY <1>2, <1>3, <1>4 DEF TypeInv, ServiceTypes, serverVars, fileVars

LEMMA InitTypes == Init => TypeInv
<1> SUFFICES ASSUME Init PROVE TypeInv
  OBVIOUS
<1>1. Nowhere \in [Clients -> Nat] /\ Nowhere \in [Clients -> Ids \cup {0}]
  BY DEF Nowhere
<1>2. [i \in Ids |-> 0] \in [Ids -> Nat]
  OBVIOUS
<1>3. \A S : <<>> \in Seq(S) /\ Len(<<>>) = 0
  OBVIOUS
<1>4. UserTypes
  BY <1>1, <1>3 DEF Init, UserTypes
<1>5. ServiceTypes
  <2>0. /\ owners = <<>> /\ waiting = <<>> /\ up = <<>> /\ down = <<>> /\ watchers = <<>>
    BY DEF Init
  <2>1. /\ owners \in Seq(Clients) /\ Len(owners) <= MaxWatches
        /\ waiting \in Seq(Request) /\ up \in Seq(Request) /\ down \in Seq(Message)
        /\ watchers \in Seq([id : Ids, first : BOOLEAN, status : Status])
    <3>1. waiting \in Seq(Request)
      BY ONLY <2>0
    <3>2. up \in Seq(Request)
      BY ONLY <2>0
    <3>3. down \in Seq(Message)
      BY ONLY <2>0
    <3>4. watchers \in Seq([id : Ids, first : BOOLEAN, status : Status])
      BY ONLY <2>0
    <3>5. owners \in Seq(Clients)
      BY ONLY <2>0
    <3>6. Len(owners) <= MaxWatches
      BY ONLY <2>0, Bounds
    <3> QED BY <3>1, <3>2, <3>3, <3>4, <3>5, <3>6
  <2>2. session \in 0..MaxSessions /\ connected \in BOOLEAN /\ exists \subseteq Clients
    <3>1. session = 0 /\ connected = FALSE /\ exists = Clients \ Missing
      BY DEF Init
    <3>2. session \in 0..MaxSessions
      BY <3>1, Bounds
    <3>3. connected \in BOOLEAN
      BY <3>1
    <3> QED BY <3>1, <3>2, <3>3
  <2>3. /\ changes \in [Clients -> Nat] /\ noticed \in [Clients -> Nat] /\ told \in [Clients -> Nat]
        /\ localToRemote \in [Ids -> Nat]
    BY <1>1, <1>2 DEF Init
  <2> QED BY <2>1, <2>2, <2>3 DEF ServiceTypes
<1> QED BY <1>4, <1>5 DEF TypeInv

\* The watcher that a request makes, and what a server answers.
LEMMA MessageTypes ==
  ASSUME NEW i \in Ids, NEW f \in BOOLEAN
  PROVE  /\ WatchRequest(i, f) \in Request /\ WatchRequest(i, f).id = i /\ WatchRequest(i, f).first = f
         /\ WatchRequest(i, f).kind = "watch"
         /\ Refused(i, f) \in Message /\ Refused(i, f).kind = "refused" /\ Refused(i, f).id = i
         /\ Refused(i, f).first = f
         /\ \A r \in Nat : /\ Watched(i, f, r) \in Message /\ Watched(i, f, r).kind = "watched"
                           /\ Watched(i, f, r).id = i /\ Watched(i, f, r).first = f /\ Watched(i, f, r).remote = r
         /\ \A cs \in [Clients -> Nat] : /\ Changed(cs) \in Message /\ Changed(cs).kind = "changed"
                                         /\ Changed(cs).changes = cs
BY DEF WatchRequest, Refused, Watched, Changed, Request, Message

\* The head of what the connection carries.
LEMMA HeadRequest ==
  ASSUME TypeInv, up # <<>>
  PROVE  /\ Head(up) \in Request /\ Head(up) = up[1] /\ 1 \in DOMAIN up /\ up[1].id \in Ids
         /\ up[1].kind = "watch" => up[1].first \in BOOLEAN
         /\ Tail(up) \in Seq(Request) /\ DOMAIN Tail(up) = 1..Len(up) - 1 /\ Len(up) \in Nat
         /\ \A n \in 1..Len(up) - 1 : Tail(up)[n] = up[n + 1] /\ n + 1 \in DOMAIN up
<1>1. up \in Seq(Request)
  BY DEF TypeInv, ServiceTypes
<1>2. /\ Head(up) \in Request /\ Head(up) = up[1] /\ 1 \in DOMAIN up
      /\ Tail(up) \in Seq(Request) /\ DOMAIN Tail(up) = 1..Len(up) - 1 /\ Len(up) \in Nat
      /\ \A n \in 1..Len(up) - 1 : Tail(up)[n] = up[n + 1] /\ n + 1 \in DOMAIN up
  BY ONLY <1>1, up # <<>>
<1>3. up[1] \in Request
  BY <1>2
<1> QED BY <1>2, <1>3 DEF Request

LEMMA HeadMessage ==
  ASSUME TypeInv, down # <<>>
  PROVE  /\ Head(down) \in Message /\ Head(down) = down[1] /\ 1 \in DOMAIN down
         /\ down[1].kind = "watched" => down[1].id \in Ids /\ down[1].first \in BOOLEAN /\ down[1].remote \in Nat
         /\ down[1].kind = "refused" => down[1].id \in Ids /\ down[1].first \in BOOLEAN
         /\ down[1].kind = "changed" => down[1].changes \in [Clients -> Nat]
         /\ Tail(down) \in Seq(Message) /\ DOMAIN Tail(down) = 1..Len(down) - 1 /\ Len(down) \in Nat
         /\ \A n \in 1..Len(down) - 1 : Tail(down)[n] = down[n + 1] /\ n + 1 \in DOMAIN down
<1>1. down \in Seq(Message)
  BY DEF TypeInv, ServiceTypes
<1>2. /\ Head(down) \in Message /\ Head(down) = down[1] /\ 1 \in DOMAIN down
      /\ Tail(down) \in Seq(Message) /\ DOMAIN Tail(down) = 1..Len(down) - 1 /\ Len(down) \in Nat
      /\ \A n \in 1..Len(down) - 1 : Tail(down)[n] = down[n + 1] /\ n + 1 \in DOMAIN down
  BY ONLY <1>1, down # <<>>
<1>3. down[1] \in Message
  BY <1>2
<1> QED BY <1>2, <1>3 DEF Message

\* What reconnect repeats.
Repeated(again) == [n \in DOMAIN again |-> WatchRequest(again[n], FALSE)]
LEMMA RepeatedIs ==
  ASSUME TypeInv, GivenInv
  PROVE  /\ Repeated(Ascending(watchParams)) \in Seq(Request)
         /\ \A n \in DOMAIN Repeated(Ascending(watchParams)) :
              /\ Repeated(Ascending(watchParams))[n].kind = "watch"
              /\ Repeated(Ascending(watchParams))[n].first = FALSE
              /\ Repeated(Ascending(watchParams))[n].id \in watchParams
         /\ \A i \in watchParams : \E n \in DOMAIN Repeated(Ascending(watchParams)) :
              Repeated(Ascending(watchParams))[n].id = i
<1>1. watchParams \in SUBSET Nat /\ watchParams \in SUBSET Given /\ IsFiniteSet(watchParams)
  <2>1. 1 \in Int /\ Len(owners) \in Int
    BY DEF TypeInv, ServiceTypes
  <2>2. IsFiniteSet(Given)
    BY <2>1, FS_Interval DEF Given
  <2>3. watchParams \in SUBSET Given
    BY DEF GivenInv
  <2>4. IsFiniteSet(watchParams)
    BY <2>2, <2>3, FS_Subset
  <2> QED BY <2>1, <2>3, <2>4 DEF Given
<1>2. PICK again : again = Ascending(watchParams)
  OBVIOUS
<1>3. again \in Seq(watchParams) /\ \A i \in watchParams : \E n \in DOMAIN again : again[n] = i
  BY <1>1, <1>2, AscendingIs
<1>4. watchParams \subseteq Ids
  BY <1>1, Bounds DEF Given, Ids, TypeInv, ServiceTypes
<1>5. Len(again) \in Nat /\ DOMAIN again = 1..Len(again) /\ \A n \in DOMAIN again : again[n] \in watchParams
  BY <1>3
<1>6. \A n \in DOMAIN again :
        /\ WatchRequest(again[n], FALSE) \in Request /\ WatchRequest(again[n], FALSE).kind = "watch"
        /\ WatchRequest(again[n], FALSE).first = FALSE /\ WatchRequest(again[n], FALSE).id = again[n]
  BY <1>4, <1>5, MessageTypes
<1>7. PICK q : q = Repeated(again)
  OBVIOUS
<1>8. q = [n \in DOMAIN again |-> WatchRequest(again[n], FALSE)]
  BY <1>7 DEF Repeated
<1>9. q \in Seq(Request) /\ DOMAIN q = DOMAIN again
  <2>1. q \in [DOMAIN again -> Request] /\ DOMAIN q = DOMAIN again
    BY <1>6, <1>8
  <2>2. q \in [1..Len(again) -> Request]
    BY <2>1, <1>5
  <2> QED BY ONLY <2>1, <2>2, <1>5
<1>10. \A n \in DOMAIN q : q[n].kind = "watch" /\ q[n].first = FALSE /\ q[n].id = again[n]
  BY <1>5, <1>6, <1>8
<1> QED BY <1>2, <1>3, <1>5, <1>7, <1>9, <1>10

Watcher == [id : Ids, first : BOOLEAN, status : Status]

LEMMA WatcherTypes ==
  ASSUME TypeInv, NEW r \in DOMAIN watchers
  PROVE  /\ watchers[r] \in Watcher /\ watchers[r].id \in Ids /\ watchers[r].first \in BOOLEAN
         /\ r \in Nat /\ r \in 1..Len(watchers) /\ Len(watchers) \in Nat
<1>1. watchers \in Seq(Watcher)
  BY DEF TypeInv, ServiceTypes, Watcher
<1>2. watchers[r] \in Watcher /\ r \in 1..Len(watchers) /\ Len(watchers) \in Nat
  BY <1>1
<1> QED BY <1>2 DEF Watcher

\* A watcher changes its status.
LEMMA StatusTypes ==
  ASSUME TypeInv, NEW r \in DOMAIN watchers, NEW s \in Status
  PROVE  /\ [watchers EXCEPT ![r].status = s] \in Seq(Watcher)
         /\ Len([watchers EXCEPT ![r].status = s]) = Len(watchers)
         /\ DOMAIN [watchers EXCEPT ![r].status = s] = DOMAIN watchers
         /\ \A t \in DOMAIN watchers :
              /\ [watchers EXCEPT ![r].status = s][t].id = watchers[t].id
              /\ [watchers EXCEPT ![r].status = s][t].first = watchers[t].first
              /\ [watchers EXCEPT ![r].status = s][t].status = IF t = r THEN s ELSE watchers[t].status
<1>1. watchers \in Seq(Watcher) /\ Len(watchers) \in Nat /\ DOMAIN watchers = 1..Len(watchers)
  BY DEF TypeInv, ServiceTypes, Watcher
<1>2. PICK w : w = [watchers[r] EXCEPT !.status = s]
  OBVIOUS
<1>3. w \in Watcher /\ w.id = watchers[r].id /\ w.first = watchers[r].first /\ w.status = s
  BY <1>2, WatcherTypes DEF Watcher
<1>4. PICK q : q = [watchers EXCEPT ![r] = w]
  OBVIOUS
<1>5. q = [watchers EXCEPT ![r].status = s]
  BY <1>2, <1>4
<1>6. q \in Seq(Watcher) /\ Len(q) = Len(watchers) /\ DOMAIN q = DOMAIN watchers
  BY <1>1, <1>3, <1>4
<1>7. \A t \in DOMAIN watchers : q[t] = IF t = r THEN w ELSE watchers[t]
  BY <1>1, <1>4
<1> QED BY <1>3, <1>5, <1>6, <1>7

\* A message that is sent to the frontend.
LEMMA RespondTypes ==
  ASSUME TypeInv, NEW ms \in Seq(Message), Respond(ms)
  PROVE  /\ down' \in Seq(Message) /\ DOMAIN down' = 1..Len(down) + Len(ms)
         /\ Len(down) \in Nat /\ Len(ms) \in Nat /\ DOMAIN down = 1..Len(down)
         /\ \A n \in DOMAIN down : down'[n] = down[n] /\ n \in DOMAIN down'
         /\ \A n \in 1..Len(ms) : down'[Len(down) + n] = ms[n] /\ Len(down) + n \in DOMAIN down'
         /\ \A n \in DOMAIN down' : n \in DOMAIN down \/ \E k \in DOMAIN ms : n = Len(down) + k /\ down'[n] = ms[k]
         /\ UNCHANGED <<session, connected, waiting, clientVars>>
<1>1. down \in Seq(Message) /\ Len(down) \in Nat /\ DOMAIN down = 1..Len(down)
  BY DEF TypeInv, ServiceTypes
<1>2. down' = down \o ms
  BY DEF Respond
<1>3. PICK d, e : d = down /\ e = down'
  OBVIOUS
<1>4. /\ e \in Seq(Message) /\ DOMAIN e = 1..Len(d) + Len(ms)
      /\ Len(ms) \in Nat
      /\ \A n \in DOMAIN d : e[n] = d[n] /\ n \in DOMAIN e
      /\ \A n \in 1..Len(ms) : e[Len(d) + n] = ms[n] /\ Len(d) + n \in DOMAIN e
  BY ONLY <1>1, <1>2, <1>3, ms \in Seq(Message), Joined
<1>5. \A n \in DOMAIN e : n \in DOMAIN d \/ \E k \in DOMAIN ms : n = Len(d) + k /\ e[n] = ms[k]
  <2> TAKE n \in DOMAIN e
  <2>1. CASE n > Len(d)
    <3>1. n - Len(d) \in 1..Len(ms) /\ Len(d) + (n - Len(d)) = n
      BY <2>1, <1>1, <1>3, <1>4
    <3>2. n - Len(d) \in DOMAIN ms
      BY <3>1
    <3> QED BY <3>1, <3>2, <1>4
  <2>2. CASE ~(n > Len(d))
    BY <2>2, <1>1, <1>3, <1>4
  <2> QED BY <2>1, <2>2
<1>6. UNCHANGED <<session, connected, waiting, clientVars>>
  BY DEF Respond
<1> QED BY <1>1, <1>3, <1>4, <1>5, <1>6

-----------------------------------------------------------------------------
(* What the steps of a server do, in terms of the watcher and of the one message, if any, that is   *)
(* sent to the frontend.                                                                            *)

Sends(some, m) ==
  /\ down' \in Seq(Message)
  /\ \A n \in DOMAIN down : n \in DOMAIN down' /\ down'[n] = down[n]
  /\ \A n \in DOMAIN down' : n \in DOMAIN down \/ (some /\ n = Len(down) + 1 /\ down'[n] = m)
  /\ some => Len(down) + 1 \in DOMAIN down' /\ down'[Len(down) + 1] = m

LEMMA SendsNone ==
  ASSUME TypeInv, Respond(<<>>), NEW m
  PROVE  Sends(FALSE, m)
<1>1. <<>> \in Seq(Message) /\ Len(<<>>) = 0 /\ DOMAIN <<>> = {}
  OBVIOUS
<1>2. /\ down' \in Seq(Message)
      /\ \A n \in DOMAIN down : down'[n] = down[n] /\ n \in DOMAIN down'
      /\ \A n \in DOMAIN down' : n \in DOMAIN down
  BY <1>1, RespondTypes
<1> QED BY <1>2 DEF Sends

LEMMA SendsOne ==
  ASSUME TypeInv, NEW m \in Message, Respond(<<m>>)
  PROVE  Sends(TRUE, m)
<1>1. <<m>> \in Seq(Message) /\ Len(<<m>>) = 1 /\ DOMAIN <<m>> = {1} /\ <<m>>[1] = m
  OBVIOUS
<1>2. PICK ms : ms = <<m>>
  OBVIOUS
<1>3. /\ down' \in Seq(Message)
      /\ \A n \in DOMAIN down : down'[n] = down[n] /\ n \in DOMAIN down'
      /\ \A n \in 1..Len(ms) : down'[Len(down) + n] = ms[n] /\ Len(down) + n \in DOMAIN down'
      /\ \A n \in DOMAIN down' : n \in DOMAIN down \/ \E k \in DOMAIN ms : n = Len(down) + k /\ down'[n] = ms[k]
  BY <1>1, <1>2, RespondTypes
<1>4. 1 \in 1..Len(ms) /\ ms[1] = m /\ \A k \in DOMAIN ms : k = 1
  BY <1>1, <1>2
<1> QED BY <1>3, <1>4 DEF Sends

\* A watch request is served.
ServedWatch(i, f, polls) ==
  /\ up # <<>> /\ up[1].kind = "watch" /\ up[1].id = i /\ up[1].first = f
  /\ up' = Tail(up)
  /\ watchers' \in Seq(Watcher) /\ Len(watchers') = Len(watchers) + 1
  /\ \A r \in DOMAIN watchers : r \in DOMAIN watchers' /\ watchers'[r] = watchers[r]
  /\ Len(watchers) + 1 \in DOMAIN watchers' /\ Len(watchers) + 1 \notin DOMAIN watchers
  /\ \A r \in DOMAIN watchers' : r \in DOMAIN watchers \/ r = Len(watchers) + 1
  /\ watchers'[Len(watchers) + 1].id = i /\ watchers'[Len(watchers) + 1].first = f
  /\ watchers'[Len(watchers) + 1].status = IF polls THEN "polling" ELSE "starting"
  /\ Sends(polls, Watched(i, f, Len(watchers) + 1))
  /\ UNCHANGED <<clientVars, session, connected, waiting, changes, robbed, fileVars>>

LEMMA ServeWatchIs ==
  ASSUME TypeInv, ServeWatch
  PROVE  \E i \in Ids, f, polls \in BOOLEAN : ServedWatch(i, f, polls)
<1>1. PICK request : request = Head(up)
  OBVIOUS
<1>2. PICK found \in BOOLEAN : found <=> owners[request.id] \in exists
  OBVIOUS
<1>3. /\ up # <<>> /\ request.kind = "watch" /\ up' = Tail(up)
      /\ watchers' = Append(watchers, [id |-> request.id, first |-> request.first,
                                       status |-> IF found THEN "starting" ELSE "polling"])
      /\ Respond(IF found THEN <<>> ELSE <<Watched(request.id, request.first, Len(watchers) + 1)>>)
      /\ UNCHANGED <<changes, robbed, fileVars>>
  BY <1>1, <1>2 DEF ServeWatch
<1>4. /\ request = up[1] /\ request.id \in Ids /\ request.first \in BOOLEAN
  BY <1>1, <1>3, HeadRequest
<1>5. PICK i \in Ids, f \in BOOLEAN : i = request.id /\ f = request.first
  BY <1>4
<1>6. PICK w : w = [id |-> i, first |-> f, status |-> IF found THEN "starting" ELSE "polling"]
  OBVIOUS
<1>7. /\ w \in Watcher /\ w.id = i /\ w.first = f
      /\ w.status = IF ~found THEN "polling" ELSE "starting"
  BY <1>6 DEF Watcher, Status
<1>8. watchers \in Seq(Watcher)
  BY DEF TypeInv, ServiceTypes, Watcher
<1>9. watchers' = Append(watchers, w)
  BY <1>3, <1>5, <1>6
<1>10. /\ watchers' \in Seq(Watcher) /\ Len(watchers') = Len(watchers) + 1
       /\ \A r \in DOMAIN watchers : r \in DOMAIN watchers' /\ watchers'[r] = watchers[r]
       /\ Len(watchers) + 1 \in DOMAIN watchers' /\ Len(watchers) + 1 \notin DOMAIN watchers
       /\ \A r \in DOMAIN watchers' : r \in DOMAIN watchers \/ r = Len(watchers) + 1
       /\ watchers'[Len(watchers) + 1] = w
  <2>1. PICK ws, wt : ws = watchers /\ wt = watchers'
    OBVIOUS
  <2>2. ws \in Seq(Watcher) /\ wt = Append(ws, w) /\ w \in Watcher
    BY <2>1, <1>7, <1>8, <1>9
  <2>3. /\ wt \in Seq(Watcher) /\ Len(wt) = Len(ws) + 1
        /\ \A r \in DOMAIN ws : r \in DOMAIN wt /\ wt[r] = ws[r]
        /\ Len(ws) + 1 \in DOMAIN wt /\ Len(ws) + 1 \notin DOMAIN ws
        /\ \A r \in DOMAIN wt : r \in DOMAIN ws \/ r = Len(ws) + 1
        /\ wt[Len(ws) + 1] = w
    BY ONLY <2>2
  <2> QED BY <2>1, <2>3
<1>11. Sends(~found, Watched(i, f, Len(watchers) + 1))
  <2>1. CASE found
    <3>1. Respond(<<>>)
      BY <1>3, <2>1
    <3>2. Sends(FALSE, Watched(i, f, Len(watchers) + 1))
      BY <3>1, SendsNone
    <3> QED BY <3>2, <2>1 DEF Sends
  <2>2. CASE ~found
    <3>1. Respond(<<Watched(i, f, Len(watchers) + 1)>>)
      BY <1>3, <1>5, <2>2
    <3>2. Len(watchers) + 1 \in Nat
      BY <1>8
    <3>3. Watched(i, f, Len(watchers) + 1) \in Message
      BY <3>2, MessageTypes
    <3>4. Sends(TRUE, Watched(i, f, Len(watchers) + 1))
      BY <3>1, <3>3, SendsOne
    <3> QED BY <3>4, <2>2 DEF Sends
  <2> QED BY <2>1, <2>2
<1>12. UNCHANGED <<clientVars, session, connected, waiting>>
  BY <1>3 DEF Respond
<1>13. ServedWatch(i, f, ~found)
  BY <1>3, <1>4, <1>5, <1>7, <1>10, <1>11, <1>12 DEF ServedWatch
<1> QED BY <1>13

Restatus(r, s) ==
  /\ r \in DOMAIN watchers
  /\ watchers' \in Seq(Watcher) /\ Len(watchers') = Len(watchers) /\ DOMAIN watchers' = DOMAIN watchers
  /\ \A t \in DOMAIN watchers :
       /\ watchers'[t].id = watchers[t].id /\ watchers'[t].first = watchers[t].first
       /\ watchers'[t].status = IF t = r THEN s ELSE watchers[t].status

LEMMA RestatusIs ==
  ASSUME TypeInv, NEW r \in DOMAIN watchers, NEW s \in Status,
         watchers' = [watchers EXCEPT ![r].status = s]
  PROVE  Restatus(r, s)
BY StatusTypes DEF Restatus

\* An unwatch request is served.
ServedUnwatch(i, r, stops) ==
  /\ up # <<>> /\ up[1].kind = "unwatch" /\ up[1].id = i
  /\ up' = Tail(up) /\ down' = down
  /\ stops => /\ watchers[r].status = "running" /\ Restatus(r, "stopped")
              /\ robbed' = robbed \cup ({watchers[r].id} \ {i})
  /\ ~stops => UNCHANGED <<watchers, robbed>>
  /\ UNCHANGED <<clientVars, session, connected, waiting, changes, fileVars>>

LEMMA ServeUnwatchIs ==
  ASSUME TypeInv, ServeUnwatch
  PROVE  \E i \in Ids : \E r : \E stops \in BOOLEAN : ServedUnwatch(i, r, stops)
<1>1. PICK r : r = Head(up).remote
  OBVIOUS
<1>2. PICK stops \in BOOLEAN : stops <=> r \in DOMAIN watchers /\ watchers[r].status = "running"
  OBVIOUS
<1>3. /\ up # <<>> /\ Head(up).kind = "unwatch" /\ up' = Tail(up)
      /\ IF stops THEN /\ watchers' = [watchers EXCEPT ![r].status = "stopped"]
                       /\ robbed' = robbed \cup ({watchers[r].id} \ {Head(up).id})
                  ELSE UNCHANGED <<watchers, robbed>>
      /\ Respond(<<>>) /\ UNCHANGED <<changes, fileVars>>
  BY <1>1, <1>2 DEF ServeUnwatch
<1>4. PICK i \in Ids : i = Head(up).id
  BY <1>3, HeadRequest
<1>5. Head(up) = up[1]
  BY <1>3, HeadRequest
<1>6. stops => Restatus(r, "stopped")
  BY <1>2, <1>3, RestatusIs DEF Status
<1>7. down' = down
  <2>1. down \in Seq(Message) /\ down' = down \o <<>>
    BY <1>3 DEF Respond, TypeInv, ServiceTypes
  <2> QED BY ONLY <2>1
<1>8. UNCHANGED <<session, connected, waiting, clientVars>>
  BY <1>3 DEF Respond
<1>9. ServedUnwatch(i, r, stops)
  BY <1>2, <1>3, <1>4, <1>5, <1>6, <1>7, <1>8 DEF ServedUnwatch
<1> QED BY <1>9

\* nsfw has started to watch, or has failed.
Settled(r, s) ==
  /\ watchers[r].status \in {"starting", "found"} /\ s \in {"running", "failed"}
  /\ Restatus(r, s)
  /\ Sends(watchers[r].status = "starting",
           IF s = "running" THEN Watched(watchers[r].id, watchers[r].first, r)
           ELSE Refused(watchers[r].id, watchers[r].first))
  /\ UNCHANGED <<up, clientVars, session, connected, waiting, changes, robbed, fileVars>>

LEMMA SettledIs ==
  ASSUME TypeInv, NEW r \in DOMAIN watchers, Started(r) \/ StartFails(r)
  PROVE  \E s \in {"running", "failed"} : Settled(r, s)
<1> DEFINE answer(s) == IF s = "running" THEN Watched(watchers[r].id, watchers[r].first, r)
                        ELSE Refused(watchers[r].id, watchers[r].first)
<1>1. PICK s \in {"running", "failed"} :
        /\ watchers[r].status \in {"starting", "found"}
        /\ watchers' = [watchers EXCEPT ![r].status = s]
        /\ Respond(IF watchers[r].status = "found" THEN <<>> ELSE <<answer(s)>>)
        /\ UNCHANGED <<up, changes, robbed, fileVars>>
  <2>1. CASE Started(r)
    <3>1. /\ watchers[r].status \in {"starting", "found"}
          /\ watchers' = [watchers EXCEPT ![r].status = "running"]
          /\ Respond(IF watchers[r].status = "found" THEN <<>> ELSE <<answer("running")>>)
          /\ UNCHANGED <<up, changes, robbed, fileVars>>
      BY <2>1 DEF Started
    <3> QED BY <3>1
  <2>2. CASE StartFails(r)
    <3>1. /\ watchers[r].status \in {"starting", "found"}
          /\ watchers' = [watchers EXCEPT ![r].status = "failed"]
          /\ Respond(IF watchers[r].status = "found" THEN <<>> ELSE <<answer("failed")>>)
          /\ UNCHANGED <<up, changes, robbed, fileVars>>
      BY <2>2 DEF StartFails
    <3> QED BY <3>1
  <2> QED BY <2>1, <2>2
<1>2. Restatus(r, s)
  BY <1>1, RestatusIs DEF Status
<1>3. answer(s) \in Message
  <2>1. watchers[r].id \in Ids /\ watchers[r].first \in BOOLEAN /\ r \in Nat
    BY WatcherTypes
  <2> QED BY <2>1, MessageTypes
<1>4. PICK m \in Message : m = answer(s)
  BY <1>3
<1> HIDE DEF answer
<1>5. Sends(watchers[r].status = "starting", m)
  <2>1. CASE watchers[r].status = "found"
    <3>1. Respond(<<>>)
      BY <1>1, <2>1
    <3>2. Sends(FALSE, m)
      BY <3>1, SendsNone
    <3> QED BY <3>2, <2>1 DEF Sends
  <2>2. CASE watchers[r].status = "starting"
    <3>1. Respond(<<m>>)
      BY <1>1, <1>4, <2>2
    <3>2. Sends(TRUE, m)
      BY <3>1, SendsOne
    <3> QED BY <3>2, <2>2 DEF Sends
  <2> QED BY <1>1, <2>1, <2>2
<1>6. UNCHANGED <<session, connected, waiting, clientVars>>
  BY <1>1 DEF Respond
<1>7. Settled(r, s)
  BY <1>1, <1>2, <1>4, <1>5, <1>6 DEF Settled, answer
<1> QED BY <1>7

\* A change is noticed.
LEMMA PushIs ==
  ASSUME TypeInv, NEW c \in Clients, PushFileChange(c)
  PROVE  /\ noticed' \in [Clients -> Nat] /\ changes' \in [Clients -> Nat]
         /\ \A d \in Clients : noticed[d] \in Nat /\ noticed'[d] = IF d = c THEN noticed[d] + 1 ELSE noticed[d]
         /\ \A d \in Clients : changes'[d] = IF d = c THEN noticed'[d] ELSE changes[d]
<1>1. noticed' = [noticed EXCEPT ![c] = @ + 1] /\ changes' = [changes EXCEPT ![c] = noticed'[c]]
  BY DEF PushFileChange
<1>2. noticed \in [Clients -> Nat] /\ changes \in [Clients -> Nat]
  BY DEF TypeInv, ServiceTypes
<1>3. noticed' \in [Clients -> Nat]
  BY <1>1, <1>2
<1>4. changes' \in [Clients -> Nat]
  BY <1>1, <1>2, <1>3
<1> QED BY <1>1, <1>2, <1>3, <1>4

LEMMA FireIs ==
  ASSUME TypeInv, FireDidFilesChanged
  PROVE  /\ changes' = Nowhere /\ Nowhere \in [Clients -> Nat]
         /\ Sends(TRUE, Changed(changes)) /\ Changed(changes) \in Message
         /\ UNCHANGED <<up, watchers, robbed, fileVars, session, connected, waiting, clientVars>>
<1>1. changes \in [Clients -> Nat]
  BY DEF TypeInv, ServiceTypes
<1>2. Changed(changes) \in Message
  BY <1>1 DEF Changed, Message
<1>3. Nowhere \in [Clients -> Nat]
  BY DEF Nowhere
<1>4. changes' = Nowhere /\ Respond(<<Changed(changes)>>) /\ UNCHANGED <<up, watchers, robbed, fileVars>>
  BY DEF FireDidFilesChanged
<1>5. Sends(TRUE, Changed(changes))
  BY <1>2, <1>4, SendsOne
<1>6. UNCHANGED <<session, connected, waiting, clientVars>>
  BY <1>4 DEF Respond
<1> QED BY <1>2, <1>3, <1>4, <1>5, <1>6

\* A connection is opened.
Connected(again) ==
  /\ again \in Seq(Request) /\ up' = waiting \o again /\ waiting' = <<>>
  /\ ~connected /\ connected' = TRUE /\ session < MaxSessions /\ session' = session + 1
  /\ \A n \in DOMAIN again : again[n].kind = "watch" /\ ~again[n].first /\ again[n].id \in watchParams
  /\ session # 0 => \A i \in watchParams : \E n \in DOMAIN again : again[n].id = i
  /\ session = 0 => again = <<>>
  /\ UNCHANGED <<down, clientVars, serverVars, fileVars>>

LEMMA ConnectIs ==
  ASSUME TypeInv, GivenInv, Connect
  PROVE  \E again : Connected(again)
<1>1. PICK all : all = Repeated(Ascending(watchParams))
  OBVIOUS
<1>2. /\ all \in Seq(Request)
      /\ \A n \in DOMAIN all : all[n].kind = "watch" /\ all[n].first = FALSE /\ all[n].id \in watchParams
      /\ \A i \in watchParams : \E n \in DOMAIN all : all[n].id = i
  BY <1>1, RepeatedIs
<1>3. PICK again : again = IF session = 0 THEN <<>> ELSE all
  OBVIOUS
<1>4. /\ up' = waiting \o again /\ waiting' = <<>>
      /\ ~connected /\ connected' = TRUE /\ session < MaxSessions /\ session' = session + 1
      /\ UNCHANGED <<down, clientVars, serverVars, fileVars>>
  BY <1>1, <1>3 DEF Connect, Repeated
<1>5. again \in Seq(Request) /\ \A n \in DOMAIN again : n \in DOMAIN all /\ again[n] = all[n]
  <2>1. CASE session = 0
    <3>1. again = <<>>
      BY <2>1, <1>3
    <3> QED BY ONLY <3>1
  <2>2. CASE session # 0
    BY <2>2, <1>2, <1>3
  <2> QED BY <2>1, <2>2
<1>6. Connected(again)
  BY <1>2, <1>3, <1>4, <1>5 DEF Connected
<1> QED BY <1>6

\* An answer to a watch request is received.
LEMMA ReceiveWatchedIs ==
  ASSUME TypeInv, ReceiveWatched
  PROVE  \E i \in Ids, f \in BOOLEAN, r \in Nat :
           /\ down # <<>> /\ down[1].kind = "watched" /\ down[1].id = i /\ down[1].first = f /\ down[1].remote = r
           /\ down' = Tail(down)
           /\ localToRemote' = [localToRemote EXCEPT ![i] = r]
           /\ f => /\ pending' = pending \ {i}
                   /\ client' = [client EXCEPT ![owners[i]] = IF @ = "asking" THEN "watching" ELSE @]
                   /\ toStop' = [toStop EXCEPT ![owners[i]] = IF client[owners[i]] = "stopped" THEN 0 ELSE i]
                   /\ toRestartAll' = Append(toRestartAll, i)
           /\ ~f => UNCHANGED <<pending, client, toStop, toRestartAll>>
           /\ UNCHANGED <<owners, watchParams, told, rejected, session, connected, waiting, up,
                          serverVars, fileVars>>
<1>1. down # <<>> /\ Head(down).kind = "watched" /\ down' = Tail(down)
  BY DEF ReceiveWatched, Receive
<1>2. /\ Head(down) = down[1] /\ down[1].id \in Ids /\ down[1].first \in BOOLEAN /\ down[1].remote \in Nat
  BY <1>1, HeadMessage
<1> QED BY <1>1, <1>2 DEF ReceiveWatched

LEMMA ReceiveRefusedIs ==
  ASSUME TypeInv, ReceiveRefused
  PROVE  /\ down # <<>> /\ down[1].kind = "refused" /\ down' = Tail(down)
         /\ RejectAll(IF down[1].first THEN {down[1].id} ELSE {})
         /\ UNCHANGED <<session, connected, waiting, up, serverVars, fileVars>>
<1>1. down # <<>> /\ Head(down).kind = "refused" /\ down' = Tail(down)
  BY DEF ReceiveRefused, Receive
<1>2. Head(down) = down[1]
  BY <1>1, HeadMessage
<1> QED BY <1>1, <1>2 DEF ReceiveRefused

LEMMA ReceiveChangedIs ==
  ASSUME TypeInv, ReceiveChanged
  PROVE  /\ down # <<>> /\ down[1].kind = "changed" /\ down' = Tail(down)
         /\ down[1].changes \in [Clients -> Nat]
         /\ told' = [c \in Clients |-> IF down[1].changes[c] = 0 THEN told[c] ELSE down[1].changes[c]]
         /\ UNCHANGED <<client, toStop, toRestartAll, owners, watchParams, localToRemote, pending,
                        rejected, session, connected, waiting, up, serverVars, fileVars>>
<1>1. down # <<>> /\ Head(down).kind = "changed" /\ down' = Tail(down)
  BY DEF ReceiveChanged, Receive
<1>2. Head(down) = down[1] /\ down[1].changes \in [Clients -> Nat]
  BY <1>1, HeadMessage
<1> QED BY <1>1, <1>2 DEF ReceiveChanged

LEMMA RejectTypes ==
  ASSUME TypeInv, NEW is, RejectAll(is)
  PROVE  UserTypes' /\ UNCHANGED <<owners, localToRemote, told>>
BY DEF RejectAll, TypeInv, UserTypes

LEMMA NextTypes == TypeInv /\ GivenInv /\ ChainInv /\ [Next]_vars => TypeInv'
<1> SUFFICES ASSUME TypeInv, GivenInv, ChainInv, [Next]_vars PROVE TypeInv'
  OBVIOUS
<1> USE DEF TypeInv
<1>1. ASSUME NEW c \in Clients, Watch(c)
      PROVE  TypeInv'
  <2>1. UserTypes'
    BY <1>1 DEF UserTypes, Watch
  <2> QED BY <1>1, <2>1, WatchCalls, CallerTypes
<1>2. ASSUME NEW c \in Clients, Dispose(c)
      PROVE  TypeInv'
  <2>1. UserTypes'
    BY <1>2 DEF UserTypes, Dispose
  <2> QED BY <1>2, <2>1, DisposeCalls, CallerTypes
<1>3. ASSUME PreferenceChanged
      PROVE  TypeInv'
  <2>1. /\ client' = client /\ toRestartAll' = <<>>
        /\ toStop' = [c \in Clients |-> IF toStop[c] \in ToSet(Reverse(toRestartAll)) THEN 0 ELSE toStop[c]]
    BY <1>3 DEF PreferenceChanged
  <2>2. toRestartAll' \in Seq(Ids)
    BY ONLY <2>1
  <2>3. UserTypes'
    BY <2>1, <2>2 DEF UserTypes
  <2> QED BY <1>3, <2>3, PreferenceCalls, CallerTypes
<1>4. ASSUME NEW c \in Clients, CreateFile(c)
      PROVE  TypeInv'
  BY <1>4 DEF UserTypes, ServiceTypes, CreateFile, clientVars, netVars, serverVars
<1>5. ASSUME Connect
      PROVE  TypeInv'
  <2>1. PICK again : Connected(again)
    BY <1>5, ConnectIs
  <2>2. waiting \in Seq(Request) /\ again \in Seq(Request)
    BY <2>1 DEF Connected, ServiceTypes
  <2>3. up' \in Seq(Request) /\ waiting' \in Seq(Request)
    <3>1. up' = waiting \o again /\ waiting' = <<>>
      BY <2>1 DEF Connected
    <3>2. waiting \o again \in Seq(Request)
      BY ONLY <2>2, Joined
    <3>3. <<>> \in Seq(Request)
      OBVIOUS
    <3> QED BY <3>1, <3>2, <3>3
  <2>4. session' \in 0..MaxSessions /\ connected' \in BOOLEAN
    <3>1. session < MaxSessions /\ session' = session + 1 /\ connected' = TRUE
      BY <2>1 DEF Connected
    <3>2. session' \in 0..MaxSessions
      BY <3>1, Bounds DEF ServiceTypes
    <3> QED BY <3>1, <3>2
  <2>5. UNCHANGED <<down, clientVars, serverVars, fileVars>>
    BY <2>1 DEF Connected
  <2> QED BY <2>3, <2>4, <2>5 DEF UserTypes, ServiceTypes, clientVars, serverVars, fileVars
<1>6. ASSUME Close
      PROVE  TypeInv'
  <2>1. /\ connected' = FALSE /\ up' = <<>> /\ down' = <<>> /\ watchers' = <<>> /\ changes' = Nowhere
        /\ RejectAll(pending) /\ UNCHANGED <<session, waiting, fileVars>>
    BY <1>6 DEF Close
  <2>2. /\ up' \in Seq(Request) /\ down' \in Seq(Message)
        /\ watchers' \in Seq([id : Ids, first : BOOLEAN, status : Status])
    <3>1. up' \in Seq(Request)
      BY ONLY <2>1
    <3>2. down' \in Seq(Message)
      BY ONLY <2>1
    <3>3. watchers' \in Seq([id : Ids, first : BOOLEAN, status : Status])
      BY ONLY <2>1
    <3> QED BY <3>1, <3>2, <3>3
  <2>3. changes' \in [Clients -> Nat]
    BY <2>1 DEF Nowhere
  <2>4. connected' \in BOOLEAN
    BY <2>1
  <2>5. UserTypes' /\ UNCHANGED <<owners, localToRemote, told>>
    BY <2>1, RejectTypes
  <2> QED BY <2>1, <2>2, <2>3, <2>4, <2>5 DEF ServiceTypes, fileVars
<1>7. ASSUME ReceiveWatched
      PROVE  TypeInv'
  <2>1. PICK i \in Ids, f \in BOOLEAN, r \in Nat :
           /\ down # <<>> /\ down' = Tail(down)
           /\ localToRemote' = [localToRemote EXCEPT ![i] = r]
           /\ f => /\ client' = [client EXCEPT ![owners[i]] = IF @ = "asking" THEN "watching" ELSE @]
                   /\ toStop' = [toStop EXCEPT ![owners[i]] = IF client[owners[i]] = "stopped" THEN 0 ELSE i]
                   /\ toRestartAll' = Append(toRestartAll, i)
           /\ ~f => UNCHANGED <<client, toStop, toRestartAll>>
           /\ UNCHANGED <<owners, told, session, connected, waiting, up, serverVars, fileVars>>
    BY <1>7, ReceiveWatchedIs
  <2>2. down' \in Seq(Message)
    BY <2>1, HeadMessage
  <2>3. localToRemote' \in [Ids -> Nat]
    BY <2>1 DEF ServiceTypes
  <2>4. UserTypes'
    <3>1. CASE f
      <4>0. client \in [Clients -> {"idle", "asking", "watching", "stopped", "failed"}]
        BY DEF UserTypes
      <4>a. client' = [client EXCEPT ![owners[i]] = IF @ = "asking" THEN "watching" ELSE @]
        BY <2>1, <3>1
      <4>1. client' \in [Clients -> {"idle", "asking", "watching", "stopped", "failed"}]
        BY ONLY <4>0, <4>a
      <4>2. toStop' \in [Clients -> Ids \cup {0}]
        BY <2>1, <3>1 DEF UserTypes
      <4>b. toRestartAll \in Seq(Ids) /\ i \in Ids
        BY DEF UserTypes
      <4>c. toRestartAll' = Append(toRestartAll, i)
        BY <2>1, <3>1
      <4>3. toRestartAll' \in Seq(Ids)
        BY ONLY <4>b, <4>c
      <4> QED BY <4>1, <4>2, <4>3 DEF UserTypes
    <3>2. CASE ~f
      BY <2>1, <3>2 DEF UserTypes
    <3> QED BY <3>1, <3>2
  <2> QED BY <2>1, <2>2, <2>3, <2>4 DEF ServiceTypes, serverVars, fileVars
<1>8. ASSUME ReceiveRefused
      PROVE  TypeInv'
  <2>1. /\ down # <<>> /\ down' = Tail(down)
        /\ RejectAll(IF down[1].first THEN {down[1].id} ELSE {})
        /\ UNCHANGED <<session, connected, waiting, up, serverVars, fileVars>>
    BY <1>8, ReceiveRefusedIs
  <2>2. down' \in Seq(Message)
    BY <2>1, HeadMessage
  <2>3. UserTypes' /\ UNCHANGED <<owners, localToRemote, told>>
    BY <2>1, RejectTypes
  <2> QED BY <2>1, <2>2, <2>3 DEF ServiceTypes, serverVars, fileVars
<1>9. ASSUME ReceiveChanged
      PROVE  TypeInv'
  <2>1. /\ down # <<>> /\ down' = Tail(down)
         /\ down[1].changes \in [Clients -> Nat]
         /\ told' = [c \in Clients |-> IF down[1].changes[c] = 0 THEN told[c] ELSE down[1].changes[c]]
         /\ UNCHANGED <<client, toStop, toRestartAll, owners, localToRemote,
                        session, connected, waiting, up, serverVars, fileVars>>
    BY <1>9, ReceiveChangedIs
  <2>2. down' \in Seq(Message)
    BY <2>1, HeadMessage
  <2>3. told' \in [Clients -> Nat]
    BY <2>1 DEF ServiceTypes
  <2> QED BY <2>1, <2>2, <2>3 DEF UserTypes, ServiceTypes, serverVars, fileVars
<1>10. ASSUME ServeWatch
       PROVE  TypeInv'
  <2>1. PICK i \in Ids, f \in BOOLEAN, polls \in BOOLEAN : ServedWatch(i, f, polls)
    BY <1>10, ServeWatchIs
  <2>2. up' \in Seq(Request)
    BY <2>1, HeadRequest DEF ServedWatch
  <2>3. watchers' \in Seq(Watcher) /\ down' \in Seq(Message)
    BY <2>1 DEF ServedWatch, Sends
  <2>4. UNCHANGED <<clientVars, session, connected, waiting, changes, robbed, fileVars>>
    BY <2>1 DEF ServedWatch
  <2> QED BY <2>2, <2>3, <2>4 DEF UserTypes, ServiceTypes, Watcher, clientVars, fileVars
<1>11. ASSUME ServeUnwatch
       PROVE  TypeInv'
  <2>0. PICK i \in Ids : \E r : \E stops \in BOOLEAN : ServedUnwatch(i, r, stops)
    BY <1>11, ServeUnwatchIs
  <2>1. PICK r : \E stops \in BOOLEAN : ServedUnwatch(i, r, stops)
    BY <2>0
  <2>2. up' \in Seq(Request)
    BY <2>1, HeadRequest DEF ServedUnwatch
  <2>3. watchers' \in Seq(Watcher)
    BY <2>1 DEF ServedUnwatch, Restatus, ServiceTypes, Watcher
  <2>4. UNCHANGED <<clientVars, down, session, connected, waiting, changes, fileVars>>
    BY <2>1 DEF ServedUnwatch
  <2> QED BY <2>2, <2>3, <2>4 DEF UserTypes, ServiceTypes, Watcher, clientVars, fileVars
<1>12. ASSUME FireDidFilesChanged
       PROVE  TypeInv'
  <2>1. /\ changes' \in [Clients -> Nat] /\ down' \in Seq(Message)
        /\ UNCHANGED <<up, watchers, robbed, fileVars, session, connected, waiting, clientVars>>
    BY <1>12, FireIs DEF Sends
  <2> QED BY <2>1 DEF UserTypes, ServiceTypes, clientVars, fileVars
<1>13. ASSUME NEW r \in DOMAIN watchers, Started(r) \/ StartFails(r)
       PROVE  TypeInv'
  <2>1. PICK s \in {"running", "failed"} : Settled(r, s)
    BY <1>13, SettledIs
  <2>2. /\ watchers' \in Seq(Watcher) /\ down' \in Seq(Message)
        /\ UNCHANGED <<up, clientVars, session, connected, waiting, changes, robbed, fileVars>>
    BY <2>1 DEF Settled, Restatus, Sends
  <2> QED BY <2>2 DEF UserTypes, ServiceTypes, Watcher, clientVars, fileVars
<1>14. ASSUME NEW r \in DOMAIN watchers, Poll(r) \/ Notice(r)
       PROVE  TypeInv'
  <2>1. owners[watchers[r].id] \in Clients /\ watchers' \in Seq(Watcher)
    <3>1. watchers[r].id \in Given
      BY DEF GivenInv
    <3>2. owners[watchers[r].id] \in Clients
      BY <3>1 DEF Given, ServiceTypes
    <3>3. CASE Poll(r)
      <4>1. watchers' = [watchers EXCEPT ![r].status = "found"]
        BY <3>3 DEF Poll
      <4>2. Restatus(r, "found")
        BY <4>1, RestatusIs DEF Status
      <4> QED BY <3>2, <4>2 DEF Restatus
    <3>4. CASE Notice(r)
      BY <3>2, <3>4 DEF Notice, ServiceTypes, Watcher
    <3> QED BY <1>14, <3>3, <3>4
  <2>2. PushFileChange(owners[watchers[r].id])
    BY <1>14 DEF Poll, Notice
  <2>3. noticed' \in [Clients -> Nat] /\ changes' \in [Clients -> Nat]
    BY <2>1, <2>2, PushIs
  <2>4. UNCHANGED <<clientVars, netVars, robbed, exists>>
    BY <1>14 DEF Poll, Notice
  <2> QED BY <2>1, <2>3, <2>4 DEF UserTypes, ServiceTypes, Watcher, clientVars, netVars
<1>15. ASSUME UNCHANGED vars
       PROVE  TypeInv'
  BY <1>15 DEF vars, clientVars, netVars, serverVars, fileVars, UserTypes, ServiceTypes
<1> QED BY <1>1, <1>2, <1>3, <1>4, <1>5, <1>6, <1>7, <1>8, <1>9, <1>10, <1>11, <1>12, <1>13, <1>14, <1>15
        DEF Next, Receives, Serves

-----------------------------------------------------------------------------
(* A connection that is closed carries nothing.                              *)

LEMMA NextConnection == TypeInv /\ ConnectionInv /\ [Next]_vars => ConnectionInv'
<1> SUFFICES ASSUME TypeInv, ConnectionInv, [Next]_vars PROVE ConnectionInv'
  OBVIOUS
<1> USE DEF ConnectionInv
<1>1. ASSUME NEW calls, Send(calls), UNCHANGED serverVars
      PROVE  ConnectionInv'
  BY <1>1 DEF Send, serverVars
<1>2. ASSUME NEW c \in Clients, Watch(c) \/ Dispose(c) \/ CreateFile(c)
      PROVE  ConnectionInv'
  <2>1. CASE Watch(c)
    BY <2>1, <1>1 DEF Watch
  <2>2. CASE Dispose(c)
    BY <2>2, <1>1 DEF Dispose
  <2>3. CASE CreateFile(c)
    BY <2>3 DEF CreateFile, netVars, serverVars
  <2> QED BY <1>2, <2>1, <2>2, <2>3
<1>3. ASSUME PreferenceChanged
      PROVE  ConnectionInv'
  <2>1. PICK calls : Send(calls) /\ UNCHANGED serverVars
    BY <1>3 DEF PreferenceChanged
  <2> QED BY <2>1, <1>1
<1>4. ASSUME Connect
      PROVE  ConnectionInv'
  <2>1. connected' = TRUE /\ waiting' = <<>> /\ session' = session + 1
    BY <1>4 DEF Connect
  <2>2. session' # 0
    BY <2>1 DEF TypeInv, ServiceTypes
  <2> QED BY <2>1, <2>2
<1>5. ASSUME Close
      PROVE  ConnectionInv'
  BY <1>5 DEF Close
<1>6. ASSUME Receives
      PROVE  ConnectionInv'
  <2>1. down # <<>> /\ UNCHANGED <<session, connected, waiting, up, serverVars>>
    BY <1>6 DEF Receives, ReceiveWatched, ReceiveRefused, ReceiveChanged, Receive
  <2> QED BY <2>1 DEF serverVars
<1>7. ASSUME Serves
      PROVE  ConnectionInv'
  <2>1. up # <<>> /\ UNCHANGED <<session, connected, waiting>>
    BY <1>7 DEF Serves, ServeWatch, ServeUnwatch, Respond
  <2> QED BY <2>1
<1>8. ASSUME FireDidFilesChanged
      PROVE  ConnectionInv'
  <2>1. changes # Nowhere /\ UNCHANGED <<session, connected, waiting>>
    BY <1>8 DEF FireDidFilesChanged, Respond
  <2> QED BY <2>1
<1>9. ASSUME NEW r \in DOMAIN watchers, Started(r) \/ StartFails(r) \/ Poll(r) \/ Notice(r)
      PROVE  ConnectionInv'
  <2>1. watchers # <<>>
    <3>1. r \in 1..Len(watchers)
      BY WatcherTypes
    <3>2. SUFFICES ASSUME watchers = <<>> PROVE FALSE
      OBVIOUS
    <3>3. Len(watchers) = 0
      BY <3>2
    <3> QED BY <3>1, <3>3
  <2>2. UNCHANGED <<session, connected, waiting>>
    BY <1>9 DEF Started, StartFails, Poll, Notice, Respond, netVars
  <2> QED BY <2>1, <2>2
<1>10. ASSUME UNCHANGED vars
       PROVE  ConnectionInv'
  BY <1>10 DEF vars, netVars, serverVars
<1> QED BY <1>2, <1>3, <1>4, <1>5, <1>6, <1>7, <1>8, <1>9, <1>10 DEF Next

(* What is reported has been noticed. *)

LEMMA NextNoticed == TypeInv /\ GivenInv /\ NoticedInv /\ [Next]_vars => NoticedInv'
<1> SUFFICES ASSUME TypeInv, GivenInv, NoticedInv, [Next]_vars PROVE NoticedInv'
  OBVIOUS
<1>0. /\ changes \in [Clients -> Nat] /\ noticed \in [Clients -> Nat] /\ told \in [Clients -> Nat]
  BY DEF TypeInv, ServiceTypes
<1>1. ASSUME NEW some \in BOOLEAN, NEW m, Sends(some, m), some => m.kind # "changed",
             UNCHANGED <<changes, noticed, told>>
      PROVE  NoticedInv'
  BY <1>1 DEF NoticedInv, Sends
<1>2. ASSUME UNCHANGED <<changes, noticed, told, down>>
      PROVE  NoticedInv'
  BY <1>2 DEF NoticedInv
<1>3. ASSUME NEW c \in Clients, Watch(c) \/ Dispose(c) \/ CreateFile(c)
      PROVE  NoticedInv'
  BY <1>2, <1>3 DEF Watch, Dispose, CreateFile, Send, clientVars, netVars, serverVars, fileVars
<1>4. ASSUME PreferenceChanged \/ Connect
      PROVE  NoticedInv'
  <2>1. CASE PreferenceChanged
    <3>1. PICK calls : Send(calls) /\ UNCHANGED <<told, serverVars, fileVars>>
      BY <2>1 DEF PreferenceChanged
    <3> QED BY <3>1, <1>2 DEF Send, serverVars, fileVars
  <2>2. CASE Connect
    BY <2>2, <1>2 DEF Connect, clientVars, serverVars, fileVars
  <2> QED BY <1>4, <2>1, <2>2
<1>5. ASSUME Close
      PROVE  NoticedInv'
  <2>1. down' = <<>> /\ changes' = Nowhere /\ UNCHANGED <<noticed, told>>
    BY <1>5 DEF Close, RejectAll, fileVars
  <2>2. DOMAIN down' = {}
    BY <2>1
  <2> QED BY <2>1, <2>2, <1>0 DEF NoticedInv, Nowhere
<1>6. ASSUME down # <<>>, down' = Tail(down), UNCHANGED <<changes, noticed>>,
             \A c \in Clients : told'[c] = told[c] \/ (down[1].kind = "changed" /\ told'[c] = down[1].changes[c])
      PROVE  NoticedInv'
  <2>1. \A n \in DOMAIN down' : n + 1 \in DOMAIN down /\ down'[n] = down[n + 1]
    BY <1>6, HeadMessage
  <2>2. 1 \in DOMAIN down
    BY <1>6, HeadMessage
  <2> QED BY <1>6, <2>1, <2>2 DEF NoticedInv
<1>7. ASSUME ReceiveWatched \/ ReceiveRefused
      PROVE  NoticedInv'
  BY <1>6, <1>7 DEF ReceiveWatched, ReceiveRefused, Receive, RejectAll, serverVars, fileVars
<1>8. ASSUME ReceiveChanged
      PROVE  NoticedInv'
  <2>1. /\ down # <<>> /\ down[1].kind = "changed" /\ down' = Tail(down)
        /\ told' = [c \in Clients |-> IF down[1].changes[c] = 0 THEN told[c] ELSE down[1].changes[c]]
        /\ UNCHANGED <<serverVars, fileVars>>
    BY <1>8, ReceiveChangedIs
  <2> QED BY <2>1, <1>6 DEF serverVars, fileVars
<1>9. ASSUME ServeWatch
      PROVE  NoticedInv'
  <2>1. PICK i \in Ids, f \in BOOLEAN, polls \in BOOLEAN : ServedWatch(i, f, polls)
    BY <1>9, ServeWatchIs
  <2>2. Watched(i, f, Len(watchers) + 1).kind # "changed"
    BY DEF Watched
  <2> QED BY <2>1, <2>2, <1>1 DEF ServedWatch, clientVars, fileVars
<1>10. ASSUME ServeUnwatch
       PROVE  NoticedInv'
  <2>0. PICK i \in Ids : \E r : \E stops \in BOOLEAN : ServedUnwatch(i, r, stops)
    BY <1>10, ServeUnwatchIs
  <2>1. PICK r : \E stops \in BOOLEAN : ServedUnwatch(i, r, stops)
    BY <2>0
  <2> QED BY <2>1, <1>2 DEF ServedUnwatch, clientVars, fileVars
<1>11. ASSUME NEW r \in DOMAIN watchers, Started(r) \/ StartFails(r)
       PROVE  NoticedInv'
  <2>1. PICK s \in {"running", "failed"} : Settled(r, s)
    BY <1>11, SettledIs
  <2>2. PICK m : m = IF s = "running" THEN Watched(watchers[r].id, watchers[r].first, r)
                     ELSE Refused(watchers[r].id, watchers[r].first)
    OBVIOUS
  <2>3. m.kind # "changed"
    BY <2>2 DEF Watched, Refused
  <2>4. PICK some \in BOOLEAN : some <=> watchers[r].status = "starting"
    OBVIOUS
  <2>5. Sends(some, m)
    BY <2>1, <2>2, <2>4 DEF Settled, Sends
  <2>6. UNCHANGED <<changes, noticed, told>>
    BY <2>1 DEF Settled, clientVars, fileVars
  <2> QED BY <2>3, <2>5, <2>6, <1>1
<1>12. ASSUME FireDidFilesChanged
       PROVE  NoticedInv'
  <2>1. changes' = Nowhere /\ Sends(TRUE, Changed(changes)) /\ UNCHANGED <<noticed, told>>
    BY <1>12, FireIs DEF clientVars, fileVars
  <2>2. Changed(changes).changes = changes
    BY DEF Changed
  <2>3. \A c \in Clients : changes'[c] <= noticed'[c]
    BY <2>1, <1>0 DEF Nowhere
  <2> QED BY <2>1, <2>2, <2>3 DEF NoticedInv, Sends
<1>13. ASSUME NEW r \in DOMAIN watchers, Poll(r) \/ Notice(r)
       PROVE  NoticedInv'
  <2>1. watchers[r].id \in Given
    BY DEF GivenInv
  <2>0. owners[watchers[r].id] \in Clients
    BY <2>1 DEF Given, TypeInv, ServiceTypes
  <2>2. PICK c \in Clients : c = owners[watchers[r].id]
    BY <2>0
  <2>3. PushFileChange(c) /\ UNCHANGED <<down, told>>
    BY <1>13, <2>2 DEF Poll, Notice, clientVars, netVars
  <2>4. /\ noticed' \in [Clients -> Nat] /\ changes' \in [Clients -> Nat]
        /\ \A d \in Clients : noticed[d] \in Nat /\ noticed'[d] = IF d = c THEN noticed[d] + 1 ELSE noticed[d]
        /\ \A d \in Clients : changes'[d] = IF d = c THEN noticed'[d] ELSE changes[d]
    BY <2>3, PushIs
  <2>5. \A d \in Clients : noticed[d] <= noticed'[d]
    BY <2>4
  <2>6. \A d \in Clients : changes'[d] <= noticed'[d] /\ told'[d] <= noticed'[d]
    BY <2>3, <2>4, <2>5, <1>0 DEF NoticedInv
  <2>7. ASSUME NEW n \in DOMAIN down', down'[n].kind = "changed", NEW d \in Clients
        PROVE  down'[n].changes[d] <= noticed'[d]
    <3>1. down[n].changes[d] <= noticed[d] /\ down[n] \in Message /\ down[n].kind = "changed"
      BY <2>3, <2>7 DEF NoticedInv, TypeInv, ServiceTypes
    <3>2. down[n].changes[d] \in Nat
      BY <3>1 DEF Message
    <3> QED BY <3>1, <3>2, <2>3, <2>4, <2>5
  <2> QED BY <2>6, <2>7 DEF NoticedInv
<1>14. ASSUME UNCHANGED vars
       PROVE  NoticedInv'
  BY <1>14, <1>2 DEF vars, clientVars, netVars, serverVars, fileVars
<1> QED BY <1>3, <1>4, <1>5, <1>7, <1>8, <1>9, <1>10, <1>11, <1>12, <1>13, <1>14 DEF Next, Receives, Serves

-----------------------------------------------------------------------------
(* Only local ids that have been given are watched and spoken of.            *)

\* p is q, followed by calls.
Adds(q, p, calls) ==
  /\ \A n \in DOMAIN q : n \in DOMAIN p /\ p[n] = q[n]
  /\ \A k \in DOMAIN calls : Len(q) + k \in DOMAIN p /\ p[Len(q) + k] = calls[k]
  /\ \A n \in DOMAIN p : n \in DOMAIN q \/ \E k \in DOMAIN calls : n = Len(q) + k /\ p[n] = calls[k]

LEMMA JoinedAdds ==
  ASSUME NEW S, NEW q \in Seq(S), NEW calls \in Seq(S)
  PROVE  Adds(q, q \o calls, calls)
<1>1. PICK p : p = q \o calls
  OBVIOUS
<1>2. /\ DOMAIN q = 1..Len(q) /\ DOMAIN calls = 1..Len(calls) /\ DOMAIN p = 1..Len(q) + Len(calls)
      /\ Len(q) \in Nat /\ Len(calls) \in Nat
      /\ \A n \in 1..Len(q) : p[n] = q[n]
      /\ \A n \in 1..Len(calls) : p[Len(q) + n] = calls[n]
  BY <1>1, Joined
<1>3. \A k \in DOMAIN calls : Len(q) + k \in DOMAIN p
  BY <1>2
<1>4. ASSUME NEW n \in DOMAIN p, n \notin DOMAIN q
      PROVE  \E k \in DOMAIN calls : n = Len(q) + k /\ p[n] = calls[k]
  <2>1. n - Len(q) \in DOMAIN calls /\ n = Len(q) + (n - Len(q))
    BY <1>2, <1>4
  <2> QED BY <2>1, <1>2
<1> QED BY <1>1, <1>2, <1>3, <1>4 DEF Adds

LEMMA SentIs ==
  ASSUME TypeInv, NEW calls \in Seq(Request), Send(calls)
  PROVE  /\ connected => Adds(up, up', calls) /\ waiting' = waiting
         /\ ~connected => Adds(waiting, waiting', calls) /\ up' = up
         /\ UNCHANGED <<session, connected, down>>
<1>1. up \in Seq(Request) /\ waiting \in Seq(Request)
  BY DEF TypeInv, ServiceTypes
<1>2. Adds(up, up \o calls, calls) /\ Adds(waiting, waiting \o calls, calls)
  BY <1>1, JoinedAdds
<1> QED BY <1>2 DEF Send

LEMMA CallsGiven ==
  ASSUME TypeInv, NEW calls, NEW S, NEW U \in Nat, NEW N \in Nat, Calls(calls, S, U, N)
  PROVE  /\ DOMAIN calls = 1..U + N
         /\ \A k \in DOMAIN calls :
              \/ k \in 1..U /\ calls[k].kind = "unwatch" /\ calls[k].id \in S
              \/ /\ k \notin 1..U /\ k - U \in 1..N /\ calls[k].kind = "watch" /\ calls[k].first = TRUE
                 /\ calls[k].id = Len(owners) + (k - U) /\ calls[k].id \in New(N)
<1>1. DOMAIN calls = 1..U + N
  BY DEF Calls
<1>2. ASSUME NEW k \in DOMAIN calls, k \notin 1..U
      PROVE  /\ k - U \in 1..N /\ calls[k].kind = "watch" /\ calls[k].first = TRUE
             /\ calls[k].id = Len(owners) + (k - U) /\ calls[k].id \in New(N)
  <2>1. k - U \in 1..N /\ U + (k - U) = k
    BY <1>1, <1>2
  <2>2. calls[k] = WatchRequest(Len(owners) + (k - U), TRUE)
    BY <2>1 DEF Calls
  <2>4. /\ calls[k].kind = "watch" /\ calls[k].first = TRUE
        /\ calls[k].id = Len(owners) + (k - U)
    BY <2>2 DEF WatchRequest
  <2>3. Len(owners) + (k - U) \in New(N)
    BY <2>1 DEF New, TypeInv, ServiceTypes
  <2> QED BY <2>1, <2>4, <2>3
<1>4. \A k \in 1..U : calls[k].kind = "unwatch" /\ calls[k].id \in S
  BY DEF Calls
<1> QED BY <1>1, <1>2, <1>4

LEMMA CallsAsk ==
  ASSUME TypeInv, NEW calls, NEW S, NEW U \in Nat, NEW N \in Nat, Calls(calls, S, U, N), NEW i \in New(N)
  PROVE  \E k \in DOMAIN calls : calls[k].kind = "watch" /\ calls[k].id = i
<1>1. i - Len(owners) \in 1..N /\ Len(owners) + (i - Len(owners)) = i
  BY DEF New, TypeInv, ServiceTypes
<1>2. PICK n \in 1..N : Len(owners) + n = i
  BY <1>1
<1>3. calls[U + n] = WatchRequest(i, TRUE)
  BY <1>2 DEF Calls
<1>4. U + n \in DOMAIN calls
  BY <1>2 DEF Calls
<1> QED BY <1>3, <1>4 DEF WatchRequest

LEMMA GivenGrows ==
  ASSUME TypeInv, NEW N \in Nat, Len(owners') = Len(owners) + N
  PROVE  Given \subseteq Given' /\ New(N) \subseteq Given' /\ Given' = Given \cup New(N) /\ Given \cap New(N) = {}
BY DEF Given, New, TypeInv, ServiceTypes

LEMMA NextGiven == TypeInv /\ GivenInv /\ ChainInv /\ FirstInv /\ [Next]_vars => GivenInv'
<1> SUFFICES ASSUME TypeInv, GivenInv, ChainInv, FirstInv, [Next]_vars PROVE GivenInv'
  OBVIOUS
<1>1. ASSUME (\E c \in Clients : Watch(c) \/ Dispose(c)) \/ PreferenceChanged
      PROVE  GivenInv'
  <2>1. PICK calls, S : \E U, N \in Nat : Caller(calls, S, U, N)
    BY <1>1, FrontendCalls
  <2>2. PICK U \in Nat, N \in Nat : Caller(calls, S, U, N)
    BY <2>1
  <2>3. Given \subseteq Given' /\ New(N) \subseteq Given'
    BY <2>2, GivenGrows DEF Caller
  <2>4. calls \in Seq(Request) /\ \A k \in DOMAIN calls : calls[k].id \in Given'
    <3>1. calls \in Seq(Request) /\ Calls(calls, S, U, N) /\ S \subseteq Given
      BY <2>2 DEF Caller, Calls
    <3>2. \A k \in DOMAIN calls : calls[k].id \in S \/ calls[k].id \in New(N)
      BY <3>1, CallsGiven
    <3> QED BY <3>1, <3>2, <2>3
  <2>5. /\ \A n \in DOMAIN up' : up'[n].id \in Given'
        /\ \A n \in DOMAIN waiting' : waiting'[n].id \in Given'
        /\ down' = down
    <3>1. Send(calls)
      BY <2>2 DEF Caller
    <3>2. /\ connected => Adds(up, up', calls) /\ waiting' = waiting
          /\ ~connected => Adds(waiting, waiting', calls) /\ up' = up
          /\ down' = down
      BY <2>4, <3>1, SentIs
    <3>3. CASE connected
      BY <3>2, <3>3, <2>3, <2>4 DEF Adds, GivenInv
    <3>4. CASE ~connected
      BY <3>2, <3>4, <2>3, <2>4 DEF Adds, GivenInv
    <3> QED BY <3>2, <3>3, <3>4
  <2>6. watchParams' \subseteq Given' /\ pending' \subseteq watchParams' /\ rejected' \subseteq watchParams'
    BY <2>2, <2>3 DEF Caller, GivenInv
  <2>7. \A n \in DOMAIN toRestartAll' : toRestartAll'[n] \in Given'
    <3>1. toRestartAll' = toRestartAll \/ toRestartAll' = <<>>
      BY <2>2 DEF Caller
    <3>2. toRestartAll' = <<>> => DOMAIN toRestartAll' = {}
      OBVIOUS
    <3> QED BY <3>1, <3>2, <2>3 DEF GivenInv
  <2>8. UNCHANGED <<watchers, robbed>>
    BY <2>2 DEF Caller, serverVars
  <2> QED BY <2>3, <2>5, <2>6, <2>7, <2>8 DEF GivenInv
<1>2. ASSUME NEW c \in Clients, CreateFile(c)
      PROVE  GivenInv'
  BY <1>2 DEF CreateFile, clientVars, netVars, serverVars, GivenInv, Given
<1>3. ASSUME Connect
      PROVE  GivenInv'
  <2>1. PICK again : Connected(again)
    BY <1>3, ConnectIs
  <2>2. /\ again \in Seq(Request) /\ waiting \in Seq(Request) /\ up' = waiting \o again /\ waiting' = <<>>
        /\ \A n \in DOMAIN again : again[n].id \in watchParams
        /\ UNCHANGED <<down, clientVars, serverVars, fileVars>>
    BY <2>1 DEF Connected, TypeInv, ServiceTypes
  <2>3. Adds(waiting, up', again)
    BY <2>2, JoinedAdds
  <2>4. DOMAIN waiting' = {}
    BY <2>2
  <2>5. \A n \in DOMAIN up' : up'[n].id \in Given
    BY <2>2, <2>3 DEF Adds, GivenInv
  <2> QED BY <2>2, <2>4, <2>5 DEF GivenInv, Given, clientVars, serverVars
<1>4. ASSUME Close
      PROVE  GivenInv'
  <2>1. /\ up' = <<>> /\ down' = <<>> /\ watchers' = <<>> /\ robbed' = {} /\ waiting' = waiting
        /\ pending' = {} /\ rejected' = rejected \cup pending
        /\ UNCHANGED <<toRestartAll, owners, watchParams>>
    BY <1>4 DEF Close, RejectAll
  <2>2. DOMAIN up' = {} /\ DOMAIN down' = {} /\ DOMAIN watchers' = {}
    BY <2>1
  <2> QED BY <2>1, <2>2 DEF GivenInv, Given
<1>5. ASSUME ReceiveWatched
      PROVE  GivenInv'
  <2>1. PICK i \in Ids, f \in BOOLEAN, r \in Nat :
           /\ down # <<>> /\ down[1].kind = "watched" /\ down[1].id = i /\ down' = Tail(down)
           /\ f => pending' = pending \ {i} /\ toRestartAll' = Append(toRestartAll, i)
           /\ ~f => UNCHANGED <<pending, toRestartAll>>
           /\ UNCHANGED <<owners, watchParams, rejected, waiting, up, serverVars>>
    BY <1>5, ReceiveWatchedIs
  <2>2. i \in Given /\ \A n \in DOMAIN down' : n + 1 \in DOMAIN down /\ down'[n] = down[n + 1]
    BY <2>1, HeadMessage DEF GivenInv
  <2>3. \A n \in DOMAIN toRestartAll' : toRestartAll'[n] \in Given
    <3>1. CASE f
      <4>1. toRestartAll \in Seq(Ids) /\ toRestartAll' = Append(toRestartAll, i)
        BY <2>1, <3>1 DEF TypeInv, UserTypes
      <4>2. \A n \in DOMAIN toRestartAll' : toRestartAll'[n] = i \/ (n \in DOMAIN toRestartAll /\ toRestartAll'[n] = toRestartAll[n])
        <5>1. PICK t, u : t = toRestartAll /\ u = toRestartAll'
          OBVIOUS
        <5>2. t \in Seq(Ids) /\ u = Append(t, i) /\ i \in Ids
          BY <4>1, <5>1
        <5>3. \A n \in DOMAIN u : u[n] = i \/ (n \in DOMAIN t /\ u[n] = t[n])
          <6>1. /\ \A n \in DOMAIN t : n \in DOMAIN u /\ u[n] = t[n]
                /\ u[Len(t) + 1] = i
                /\ \A n \in DOMAIN u : n \in DOMAIN t \/ n = Len(t) + 1
            BY <5>2, Appended
          <6> QED BY ONLY <6>1
        <5> QED BY <5>1, <5>3
      <4> QED BY <4>2, <2>2 DEF GivenInv
    <3>2. CASE ~f
      BY <3>2, <2>1 DEF GivenInv
    <3> QED BY <3>1, <3>2
  <2>4. Given' = Given /\ pending' \subseteq pending
    BY <2>1 DEF Given
  <2>5. \A n \in DOMAIN down' : down'[n].kind # "changed" => down'[n].id \in Given
    BY <2>2 DEF GivenInv
  <2> QED BY <2>1, <2>3, <2>4, <2>5 DEF GivenInv, serverVars
<1>6. ASSUME ReceiveRefused
      PROVE  GivenInv'
  <2>1. /\ down # <<>> /\ down[1].kind = "refused" /\ down' = Tail(down)
        /\ RejectAll(IF down[1].first THEN {down[1].id} ELSE {})
        /\ UNCHANGED <<waiting, up, serverVars>>
    BY <1>6, ReceiveRefusedIs
  <2>2. \A n \in DOMAIN down' : n + 1 \in DOMAIN down /\ down'[n] = down[n + 1]
    BY <2>1, HeadMessage
  <2>3. PICK is : is = IF down[1].first THEN {down[1].id} ELSE {}
    OBVIOUS
  <2>4. pending' = pending \ is /\ rejected' = rejected \cup is /\ UNCHANGED <<toRestartAll, owners, watchParams>>
    BY <2>1, <2>3 DEF RejectAll
  <2>5. is \subseteq watchParams
    <3>1. down[1].first => down[1].id \in pending
      BY <2>1, HeadMessage DEF FirstInv, AllIn, Firsts
    <3> QED BY <3>1, <2>3 DEF GivenInv
  <2>6. Given' = Given
    BY <2>4 DEF Given
  <2>7. \A n \in DOMAIN down' : down'[n].kind # "changed" => down'[n].id \in Given
    BY <2>2 DEF GivenInv
  <2> QED BY <2>1, <2>4, <2>5, <2>6, <2>7 DEF GivenInv, serverVars
<1>7. ASSUME ReceiveChanged
      PROVE  GivenInv'
  <2>1. /\ down # <<>> /\ down' = Tail(down)
        /\ UNCHANGED <<toRestartAll, owners, watchParams, pending, rejected, waiting, up, serverVars>>
    BY <1>7, ReceiveChangedIs
  <2>2. \A n \in DOMAIN down' : n + 1 \in DOMAIN down /\ down'[n] = down[n + 1]
    BY <2>1, HeadMessage
  <2>3. Given' = Given /\ \A n \in DOMAIN down' : down'[n].kind # "changed" => down'[n].id \in Given
    BY <2>1, <2>2 DEF GivenInv, Given
  <2> QED BY <2>1, <2>3 DEF GivenInv, serverVars
<1>8. ASSUME ServeWatch
      PROVE  GivenInv'
  <2>1. PICK i \in Ids, f \in BOOLEAN, polls \in BOOLEAN : ServedWatch(i, f, polls)
    BY <1>8, ServeWatchIs
  <2>2. /\ i \in Given /\ \A n \in DOMAIN up' : n + 1 \in DOMAIN up /\ up'[n] = up[n + 1]
    BY <2>1, HeadRequest DEF ServedWatch, GivenInv
  <2>3. Watched(i, f, Len(watchers) + 1).id = i
    BY DEF Watched
  <2>4. \A n \in DOMAIN down' : down'[n].kind # "changed" => down'[n].id \in Given
    BY <2>1, <2>2, <2>3 DEF ServedWatch, Sends, GivenInv
  <2>5. \A r \in DOMAIN watchers' : watchers'[r].id \in Given
    BY <2>1, <2>2 DEF ServedWatch, GivenInv
  <2>6. UNCHANGED <<clientVars, waiting, robbed>>
    BY <2>1 DEF ServedWatch
  <2>7. \A n \in DOMAIN up' : up'[n].id \in Given
    BY <2>2 DEF GivenInv
  <2> QED BY <2>4, <2>5, <2>6, <2>7 DEF GivenInv, Given, clientVars
<1>9. ASSUME ServeUnwatch
      PROVE  GivenInv'
  <2>0. PICK i \in Ids : \E r : \E stops \in BOOLEAN : ServedUnwatch(i, r, stops)
    BY <1>9, ServeUnwatchIs
  <2>1. PICK r : \E stops \in BOOLEAN : ServedUnwatch(i, r, stops)
    BY <2>0
  <2>2. PICK stops \in BOOLEAN : ServedUnwatch(i, r, stops)
    BY <2>1
  <2>3. \A n \in DOMAIN up' : up'[n].id \in Given
    <3>1. \A n \in DOMAIN up' : n + 1 \in DOMAIN up /\ up'[n] = up[n + 1]
      BY <2>2, HeadRequest DEF ServedUnwatch
    <3> QED BY <3>1 DEF GivenInv
  <2>4. (\A t \in DOMAIN watchers' : watchers'[t].id \in Given) /\ robbed' \subseteq Given
    <3>1. CASE stops
      BY <2>2, <3>1 DEF ServedUnwatch, Restatus, GivenInv
    <3>2. CASE ~stops
      BY <2>2, <3>2 DEF ServedUnwatch, GivenInv
    <3> QED BY <3>1, <3>2
  <2>5. UNCHANGED <<clientVars, waiting, down>>
    BY <2>2 DEF ServedUnwatch
  <2> QED BY <2>3, <2>4, <2>5 DEF GivenInv, Given, clientVars
<1>10. ASSUME FireDidFilesChanged
       PROVE  GivenInv'
  <2>1. Sends(TRUE, Changed(changes)) /\ UNCHANGED <<up, watchers, robbed, waiting, clientVars>>
    BY <1>10, FireIs
  <2>2. Changed(changes).kind = "changed"
    BY DEF Changed
  <2>3. \A n \in DOMAIN down' : down'[n].kind # "changed" => down'[n].id \in Given
    BY <2>1, <2>2 DEF Sends, GivenInv
  <2> QED BY <2>1, <2>3 DEF GivenInv, Given, clientVars
<1>11. ASSUME NEW r \in DOMAIN watchers, Started(r) \/ StartFails(r)
       PROVE  GivenInv'
  <2>1. PICK s \in {"running", "failed"} : Settled(r, s)
    BY <1>11, SettledIs
  <2>2. PICK m : m = IF s = "running" THEN Watched(watchers[r].id, watchers[r].first, r)
                     ELSE Refused(watchers[r].id, watchers[r].first)
    OBVIOUS
  <2>3. m.id \in Given
    BY <2>2 DEF Watched, Refused, GivenInv
  <2>4. \A n \in DOMAIN down' : down'[n].kind # "changed" => down'[n].id \in Given
    BY <2>1, <2>2, <2>3 DEF Settled, Sends, GivenInv
  <2>5. \A t \in DOMAIN watchers' : watchers'[t].id \in Given
    BY <2>1 DEF Settled, Restatus, GivenInv
  <2>6. UNCHANGED <<up, clientVars, waiting, robbed>>
    BY <2>1 DEF Settled
  <2> QED BY <2>4, <2>5, <2>6 DEF GivenInv, Given, clientVars
<1>12. ASSUME NEW r \in DOMAIN watchers, Poll(r) \/ Notice(r)
       PROVE  GivenInv'
  <2>1. \A t \in DOMAIN watchers' : watchers'[t].id \in Given
    <3>1. CASE Poll(r)
      <4>1. watchers' = [watchers EXCEPT ![r].status = "found"]
        BY <3>1 DEF Poll
      <4>2. Restatus(r, "found")
        BY <4>1, RestatusIs DEF Status
      <4> QED BY <4>2 DEF Restatus, GivenInv
    <3>2. CASE Notice(r)
      BY <3>2 DEF Notice, GivenInv
    <3> QED BY <1>12, <3>1, <3>2
  <2>2. UNCHANGED <<clientVars, netVars, robbed>>
    BY <1>12 DEF Poll, Notice
  <2> QED BY <2>1, <2>2 DEF GivenInv, Given, clientVars, netVars
<1>13. ASSUME UNCHANGED vars
       PROVE  GivenInv'
  BY <1>13 DEF vars, clientVars, netVars, serverVars, GivenInv, Given
<1> QED BY <1>1, <1>2, <1>3, <1>4, <1>5, <1>6, <1>7, <1>8, <1>9, <1>10, <1>11, <1>12, <1>13
        DEF Next, Receives, Serves

-----------------------------------------------------------------------------
(* Remote ids are those of watchers for the same local id.                   *)

\* While requests, watchers and answers only come, an id that is asked for stays so.
LEMMA StaysAsked ==
  ASSUME NEW i, Asked(i),
         \A n \in DOMAIN up : n \in DOMAIN up' /\ up'[n] = up[n],
         \A r \in DOMAIN watchers : r \in DOMAIN watchers' /\ watchers'[r] = watchers[r],
         \A n \in DOMAIN down : n \in DOMAIN down' /\ down'[n] = down[n]
  PROVE  Asked(i)'
BY DEF Asked

LEMMA NextMapped ==
  TypeInv /\ ConnectionInv /\ GivenInv /\ ChainInv /\ MappedInv /\ [Next]_vars => MappedInv'
<1> SUFFICES ASSUME TypeInv, ConnectionInv, GivenInv, ChainInv, MappedInv, [Next]_vars PROVE MappedInv'
  OBVIOUS
<1>1. ASSUME (\E c \in Clients : Watch(c) \/ Dispose(c)) \/ PreferenceChanged
      PROVE  MappedInv'
  <2>1. PICK calls, S : \E U, N \in Nat : Caller(calls, S, U, N)
    BY <1>1, FrontendCalls
  <2>2. PICK U \in Nat, N \in Nat : Caller(calls, S, U, N)
    BY <2>1
  <2>3. calls \in Seq(Request) /\ Calls(calls, S, U, N) /\ Send(calls)
    BY <2>2 DEF Caller, Calls
  <2>4. /\ connected => Adds(up, up', calls)
        /\ UNCHANGED <<session, connected, down, watchers>>
    BY <2>2, <2>3, SentIs DEF Caller, serverVars
  <2>5. /\ watchParams' = (watchParams \ S) \cup New(N)
        /\ localToRemote' = [i \in Ids |-> IF i \in S THEN 0 ELSE localToRemote[i]]
    BY <2>2 DEF Caller
  <2>6. ASSUME NEW i \in watchParams', connected', localToRemote'[i] # 0, ~Asked(i)'
        PROVE  localToRemote'[i] \in DOMAIN watchers' /\ watchers'[localToRemote'[i]].id = i
    <3>1. CASE i \in New(N)
      <4>1. Calls(calls, S, U, N)
        BY <2>3
      <4>3. PICK k \in DOMAIN calls : calls[k].kind = "watch" /\ calls[k].id = i
        BY <3>1, <4>1, CallsAsk
      <4>4. \E n \in DOMAIN up' : up'[n].kind = "watch" /\ up'[n].id = i
        BY <4>3, <2>4, <2>6 DEF Adds
      <4> QED BY <4>4, <2>6 DEF Asked
    <3>2. CASE i \notin New(N)
      <4>1. i \in watchParams /\ i \in Ids /\ localToRemote[i] = localToRemote'[i]
        <5>1. i \in watchParams /\ i \notin S
          BY <3>2, <2>5, <2>6
        <5>2. i \in Ids
          BY <5>1, Bounds DEF GivenInv, Given, TypeInv, ServiceTypes, Ids
        <5> QED BY <5>1, <5>2, <2>5
      <4>2. ~Asked(i)
        BY <2>4, <2>6, StaysAsked DEF Adds
      <4> QED BY <4>1, <4>2, <2>4, <2>6 DEF MappedInv, IdsAgree
    <3> QED BY <3>1, <3>2
  <2>7. IdsAgree'
    BY <2>6 DEF IdsAgree
  <2>8. session' = 0 => \A i \in Ids : localToRemote'[i] = 0
    BY <2>4, <2>5 DEF MappedInv
  <2> QED BY <2>4, <2>7, <2>8 DEF MappedInv
<1>2. ASSUME UNCHANGED <<clientVars, netVars, watchers>>
      PROVE  MappedInv'
  BY <1>2 DEF clientVars, netVars, MappedInv, IdsAgree, Asked
<1>3. ASSUME Connect
      PROVE  MappedInv'
  <2>1. PICK again : Connected(again)
    BY <1>3, ConnectIs
  <2>2. /\ again \in Seq(Request) /\ waiting \in Seq(Request) /\ up' = waiting \o again
        /\ \A n \in DOMAIN again : again[n].kind = "watch"
        /\ session # 0 => \A i \in watchParams : \E n \in DOMAIN again : again[n].id = i
        /\ session' = session + 1 /\ session \in Nat
        /\ UNCHANGED <<down, clientVars, serverVars, fileVars>>
    BY <2>1, Bounds DEF Connected, TypeInv, ServiceTypes
  <2>3. Adds(waiting, up', again)
    <3>1. Adds(waiting, waiting \o again, again)
      BY <2>2, JoinedAdds
    <3> QED BY <3>1, <2>2
  <2>4. ASSUME session # 0, NEW i \in watchParams
        PROVE  \E n \in DOMAIN up' : up'[n].kind = "watch" /\ up'[n].id = i
    <3>1. PICK k \in DOMAIN again : again[k].id = i
      BY <2>2, <2>4
    <3>2. Len(waiting) + k \in DOMAIN up' /\ up'[Len(waiting) + k] = again[k]
      BY <2>3 DEF Adds
    <3> QED BY <3>1, <3>2, <2>2
  <2>5. session # 0 => \A i \in watchParams : Asked(i)'
    BY <2>4 DEF Asked
  <2>6. session = 0 => \A i \in watchParams : localToRemote[i] = 0
    <3>1. watchParams \subseteq Ids
      BY Bounds DEF GivenInv, Given, TypeInv, ServiceTypes, Ids
    <3> QED BY <3>1 DEF MappedInv
  <2>7. IdsAgree'
    BY <2>2, <2>5, <2>6 DEF IdsAgree, clientVars, serverVars
  <2>8. session' # 0
    BY <2>2
  <2> QED BY <2>2, <2>7, <2>8 DEF MappedInv, clientVars, serverVars
<1>4. ASSUME Close
      PROVE  MappedInv'
  <2>1. connected' = FALSE /\ down' = <<>> /\ UNCHANGED <<session, localToRemote>>
    BY <1>4 DEF Close, RejectAll
  <2>2. DOMAIN down' = {}
    BY <2>1
  <2> QED BY <2>1, <2>2 DEF MappedInv, IdsAgree
<1>5. ASSUME down # <<>>, down' = Tail(down), UNCHANGED <<up, watchers>>
      PROVE  /\ \A n \in DOMAIN down' : down'[n].kind = "watched" =>
                  down'[n].remote \in DOMAIN watchers' /\ watchers'[down'[n].remote].id = down'[n].id
             /\ \A i : Asked(i) => Asked(i)' \/ (down[1].kind = "watched" /\ down[1].id = i)
  <2>1. \A n \in DOMAIN down' : n + 1 \in DOMAIN down /\ down'[n] = down[n + 1]
    BY <1>5, HeadMessage
  <2>2. \A n \in DOMAIN down : n = 1 \/ (n - 1 \in DOMAIN down' /\ down'[n - 1] = down[n])
    <3>1. /\ Len(down) \in Nat /\ DOMAIN down = 1..Len(down) /\ DOMAIN down' = 1..Len(down) - 1
          /\ \A n \in 1..Len(down) - 1 : down'[n] = down[n + 1]
      BY <1>5, HeadMessage DEF TypeInv, ServiceTypes
    <3>2. TAKE n \in DOMAIN down
    <3>3. CASE n = 1
      BY <3>3
    <3>4. CASE n # 1
      <4>1. n - 1 \in 1..Len(down) - 1 /\ (n - 1) + 1 = n
        BY <3>1, <3>4
      <4> QED BY <4>1, <3>1
    <3> QED BY <3>3, <3>4
  <2>3. \A n \in DOMAIN down' : down'[n].kind = "watched" =>
                  down'[n].remote \in DOMAIN watchers' /\ watchers'[down'[n].remote].id = down'[n].id
    BY <1>5, <2>1 DEF MappedInv
  <2>4. ASSUME NEW i, Asked(i)
        PROVE  Asked(i)' \/ (down[1].kind = "watched" /\ down[1].id = i)
    BY <1>5, <2>2, <2>4 DEF Asked
  <2> QED BY <2>3, <2>4
<1>6. ASSUME ReceiveWatched
      PROVE  MappedInv'
  <2>1. PICK i \in Ids, f \in BOOLEAN, r \in Nat :
           /\ down # <<>> /\ down[1].kind = "watched" /\ down[1].id = i /\ down[1].remote = r
           /\ down' = Tail(down)
           /\ localToRemote' = [localToRemote EXCEPT ![i] = r]
           /\ UNCHANGED <<owners, watchParams, rejected, session, connected, up, serverVars>>
    BY <1>6, ReceiveWatchedIs
  <2>2. r \in DOMAIN watchers /\ watchers[r].id = i
    BY <2>1, HeadMessage DEF MappedInv
  <2>3. session' # 0
    BY <2>1 DEF ConnectionInv
  <2>4. localToRemote' \in [Ids -> Nat] /\ \A j \in Ids : localToRemote'[j] = IF j = i THEN r ELSE localToRemote[j]
    BY <2>1 DEF TypeInv, ServiceTypes
  <2>5. watchParams \subseteq Ids
    BY Bounds DEF GivenInv, Given, TypeInv, ServiceTypes, Ids
  <2>6. UNCHANGED <<up, watchers>>
    BY <2>1 DEF serverVars
  <2>7. ASSUME NEW j \in watchParams', connected', localToRemote'[j] # 0, ~Asked(j)'
        PROVE  localToRemote'[j] \in DOMAIN watchers' /\ watchers'[localToRemote'[j]].id = j
    <3>1. CASE j = i
      BY <3>1, <2>1, <2>2, <2>4, <2>6
    <3>2. CASE j # i
      <4>1. ~Asked(j)
        BY <3>2, <2>1, <2>6, <2>7, <1>5
      <4> QED BY <4>1, <3>2, <2>1, <2>4, <2>5, <2>6, <2>7 DEF MappedInv, IdsAgree
    <3> QED BY <3>1, <3>2
  <2>8. IdsAgree'
    BY <2>7 DEF IdsAgree
  <2> QED BY <2>1, <2>3, <2>6, <2>8, <1>5 DEF MappedInv
<1>7. ASSUME ReceiveRefused \/ ReceiveChanged
      PROVE  MappedInv'
  <2>1. /\ down # <<>> /\ down' = Tail(down) /\ down[1].kind # "watched"
        /\ UNCHANGED <<session, connected, up, watchers, watchParams, localToRemote>>
    BY <1>7, ReceiveRefusedIs, ReceiveChangedIs DEF RejectAll, serverVars
  <2>2. \A i : Asked(i) => Asked(i)'
    BY <2>1, <1>5
  <2>3. IdsAgree'
    BY <2>1, <2>2 DEF IdsAgree, MappedInv
  <2> QED BY <2>1, <2>3, <1>5 DEF MappedInv
<1>8. ASSUME ServeWatch
      PROVE  MappedInv'
  <2>1. PICK i \in Ids, f \in BOOLEAN, polls \in BOOLEAN : ServedWatch(i, f, polls)
    BY <1>8, ServeWatchIs
  <2>2. PICK m : m = Watched(i, f, Len(watchers) + 1)
    OBVIOUS
  <2>3. m.kind = "watched" /\ m.id = i /\ m.remote = Len(watchers) + 1
    BY <2>2 DEF Watched
  <2>4. Sends(polls, m) /\ UNCHANGED <<session, connected, watchParams, localToRemote>>
    BY <2>1, <2>2 DEF ServedWatch, clientVars
  <2>5. /\ \A r \in DOMAIN watchers : r \in DOMAIN watchers' /\ watchers'[r] = watchers[r]
        /\ Len(watchers) + 1 \in DOMAIN watchers' /\ watchers'[Len(watchers) + 1].id = i
        /\ ~polls => watchers'[Len(watchers) + 1].status = "starting"
    BY <2>1 DEF ServedWatch
  <2>6. \A n \in DOMAIN down' : down'[n].kind = "watched" =>
          down'[n].remote \in DOMAIN watchers' /\ watchers'[down'[n].remote].id = down'[n].id
    BY <2>3, <2>4, <2>5 DEF Sends, MappedInv
  <2>7. Asked(i)'
    <3>1. CASE polls
      <4>1. Len(down) + 1 \in DOMAIN down' /\ down'[Len(down) + 1] = m
        BY <2>4, <3>1 DEF Sends
      <4> QED BY <4>1, <2>3 DEF Asked
    <3>2. CASE ~polls
      BY <3>2, <2>5 DEF Asked
    <3> QED BY <3>1, <3>2
  <2>8. ASSUME NEW j, Asked(j), j # i
        PROVE  Asked(j)'
    <3>1. \A n \in DOMAIN up : n = 1 \/ (n - 1 \in DOMAIN up' /\ up'[n - 1] = up[n])
      <4>1. up # <<>> /\ up' = Tail(up)
        BY <2>1 DEF ServedWatch
      <4>2. /\ Len(up) \in Nat /\ DOMAIN up = 1..Len(up) /\ DOMAIN up' = 1..Len(up) - 1
            /\ \A n \in 1..Len(up) - 1 : up'[n] = up[n + 1]
        BY <4>1, HeadRequest DEF TypeInv, ServiceTypes
      <4>3. TAKE n \in DOMAIN up
      <4>4. CASE n = 1
        BY <4>4
      <4>5. CASE n # 1
        <5>1. n - 1 \in 1..Len(up) - 1 /\ (n - 1) + 1 = n
          BY <4>2, <4>5
        <5> QED BY <5>1, <4>2
      <4> QED BY <4>4, <4>5
    <3>2. up[1].id = i
      BY <2>1 DEF ServedWatch
    <3>3. CASE \E n \in DOMAIN up : up[n].kind = "watch" /\ up[n].id = j
      BY <3>1, <3>2, <3>3, <2>8 DEF Asked
    <3>4. CASE ~\E n \in DOMAIN up : up[n].kind = "watch" /\ up[n].id = j
      BY <3>4, <2>4, <2>5, <2>8 DEF Asked, Sends
    <3> QED BY <3>3, <3>4
  <2>9. IdsAgree'
    <3>1. SUFFICES ASSUME NEW j \in watchParams, connected, localToRemote[j] # 0, ~Asked(j)'
                   PROVE  localToRemote[j] \in DOMAIN watchers' /\ watchers'[localToRemote[j]].id = j
      BY <2>4 DEF IdsAgree
    <3>2. ~Asked(j)
      BY <3>1, <2>7, <2>8
    <3>3. localToRemote[j] \in DOMAIN watchers /\ watchers[localToRemote[j]].id = j
      BY <3>1, <3>2 DEF MappedInv, IdsAgree
    <3> QED BY <3>3, <2>5
  <2> QED BY <2>4, <2>6, <2>9 DEF MappedInv
<1>9. ASSUME NEW r, NEW s \in Status, Restatus(r, s), NEW some \in BOOLEAN, NEW m, Sends(some, m),
             some => m.kind # "watched" \/ (m.remote = r /\ m.id = watchers[r].id),
             watchers[r].status = "starting" =>
               s \in {"starting", "failed"} \/ (some /\ m.kind = "watched" /\ m.id = watchers[r].id),
             watchers[r].status # "failed",
             UNCHANGED <<session, connected, watchParams, localToRemote, up>>
      PROVE  MappedInv'
  <2>1. \A n \in DOMAIN down' : down'[n].kind = "watched" =>
          down'[n].remote \in DOMAIN watchers' /\ watchers'[down'[n].remote].id = down'[n].id
    <3>1. SUFFICES ASSUME NEW n \in DOMAIN down', down'[n].kind = "watched"
                   PROVE  down'[n].remote \in DOMAIN watchers' /\ watchers'[down'[n].remote].id = down'[n].id
      OBVIOUS
    <3>2. CASE n \in DOMAIN down
      <4>1. down'[n] = down[n]
        BY <3>2, <1>9 DEF Sends
      <4>2. down[n].remote \in DOMAIN watchers /\ watchers[down[n].remote].id = down[n].id
        BY <3>1, <3>2, <4>1 DEF MappedInv
      <4> QED BY <4>1, <4>2, <1>9 DEF Restatus
    <3>3. CASE n \notin DOMAIN down
      <4>1. some /\ down'[n] = m
        BY <3>3, <1>9 DEF Sends
      <4> QED BY <4>1, <3>1, <1>9 DEF Restatus
    <3> QED BY <3>2, <3>3
  <2>2. ASSUME NEW j, Asked(j)
        PROVE  Asked(j)'
    <3>1. CASE \E n \in DOMAIN up : up[n].kind = "watch" /\ up[n].id = j
      BY <3>1, <1>9 DEF Asked
    <3>2. CASE \E n \in DOMAIN down : down[n].kind = "watched" /\ down[n].id = j
      BY <3>2, <1>9 DEF Asked, Sends
    <3>3. CASE \E t \in DOMAIN watchers : watchers[t].id = j /\ watchers[t].status \in {"starting", "failed"}
      <4>1. PICK t \in DOMAIN watchers : watchers[t].id = j /\ watchers[t].status \in {"starting", "failed"}
        BY <3>3
      <4>2. CASE t # r \/ s \in {"starting", "failed"}
        BY <4>1, <4>2, <1>9 DEF Asked, Restatus
      <4>3. CASE t = r /\ some /\ m.kind = "watched" /\ m.id = watchers[r].id
        <5>1. Len(down) + 1 \in DOMAIN down' /\ down'[Len(down) + 1].kind = "watched" /\ down'[Len(down) + 1].id = j
          BY <4>1, <4>3, <1>9 DEF Sends
        <5> QED BY <5>1 DEF Asked
      <4> QED BY <4>1, <4>2, <4>3, <1>9
    <3> QED BY <2>2, <3>1, <3>2, <3>3 DEF Asked
  <2>3. IdsAgree'
    BY <2>2, <1>9 DEF IdsAgree, MappedInv, Restatus
  <2> QED BY <1>9, <2>1, <2>3 DEF MappedInv
<1>10. ASSUME ServeUnwatch
       PROVE  MappedInv'
  <2>0. PICK i \in Ids : \E r : \E stops \in BOOLEAN : ServedUnwatch(i, r, stops)
    BY <1>10, ServeUnwatchIs
  <2>1. PICK r : \E stops \in BOOLEAN : ServedUnwatch(i, r, stops)
    BY <2>0
  <2>2. PICK stops \in BOOLEAN : ServedUnwatch(i, r, stops)
    BY <2>1
  <2>3. /\ up # <<>> /\ up' = Tail(up) /\ up[1].kind = "unwatch" /\ down' = down
        /\ UNCHANGED <<session, connected, watchParams, localToRemote>>
    BY <2>2 DEF ServedUnwatch, clientVars
  <2>4. /\ DOMAIN watchers' = DOMAIN watchers
        /\ \A t \in DOMAIN watchers : watchers'[t].id = watchers[t].id
        /\ \A t \in DOMAIN watchers : watchers[t].status \in {"starting", "failed"} => watchers'[t].status = watchers[t].status
    <3>1. CASE stops
      <4>1. Restatus(r, "stopped") /\ watchers[r].status = "running"
        BY <2>2, <3>1 DEF ServedUnwatch
      <4> QED BY <4>1 DEF Restatus
    <3>2. CASE ~stops
      BY <2>2, <3>2 DEF ServedUnwatch
    <3> QED BY <3>1, <3>2
  <2>5. \A n \in DOMAIN up : n = 1 \/ (n - 1 \in DOMAIN up' /\ up'[n - 1] = up[n])
    <3>2. /\ Len(up) \in Nat /\ DOMAIN up = 1..Len(up) /\ DOMAIN up' = 1..Len(up) - 1
          /\ \A n \in 1..Len(up) - 1 : up'[n] = up[n + 1]
      BY <2>3, HeadRequest DEF TypeInv, ServiceTypes
    <3>3. TAKE n \in DOMAIN up
    <3>4. CASE n = 1
      BY <3>4
    <3>5. CASE n # 1
      <4>1. n - 1 \in 1..Len(up) - 1 /\ (n - 1) + 1 = n
        BY <3>2, <3>5
      <4> QED BY <4>1, <3>2
    <3> QED BY <3>4, <3>5
  <2>6. ASSUME NEW j, Asked(j)
        PROVE  Asked(j)'
    <3>1. CASE \E n \in DOMAIN up : up[n].kind = "watch" /\ up[n].id = j
      BY <3>1, <2>3, <2>5 DEF Asked
    <3>2. CASE ~\E n \in DOMAIN up : up[n].kind = "watch" /\ up[n].id = j
      BY <3>2, <2>3, <2>4, <2>6 DEF Asked
    <3> QED BY <3>1, <3>2
  <2>7. IdsAgree'
    BY <2>3, <2>4, <2>6 DEF IdsAgree, MappedInv
  <2> QED BY <2>3, <2>4, <2>7 DEF MappedInv
<1>11. ASSUME FireDidFilesChanged
       PROVE  MappedInv'
  <2>1. Sends(TRUE, Changed(changes)) /\ UNCHANGED <<up, watchers, session, connected, watchParams, localToRemote>>
    BY <1>11, FireIs DEF clientVars
  <2>2. Changed(changes).kind = "changed"
    BY DEF Changed
  <2>3. \A j : Asked(j) => Asked(j)'
    BY <2>1 DEF Asked, Sends
  <2>4. IdsAgree'
    BY <2>1, <2>3 DEF IdsAgree, MappedInv
  <2> QED BY <2>1, <2>2, <2>4 DEF MappedInv, Sends
<1>12. ASSUME NEW r \in DOMAIN watchers, Started(r) \/ StartFails(r)
       PROVE  MappedInv'
  <2>1. PICK s \in {"running", "failed"} : Settled(r, s)
    BY <1>12, SettledIs
  <2>2. PICK m : m = IF s = "running" THEN Watched(watchers[r].id, watchers[r].first, r)
                     ELSE Refused(watchers[r].id, watchers[r].first)
    OBVIOUS
  <2>3. /\ m.kind # "watched" \/ (m.remote = r /\ m.id = watchers[r].id)
        /\ s = "running" => m.kind = "watched" /\ m.id = watchers[r].id
    BY <2>2 DEF Watched, Refused
  <2>4. PICK some \in BOOLEAN : some <=> watchers[r].status = "starting"
    OBVIOUS
  <2>5. Sends(some, m)
    BY <2>1, <2>2, <2>4 DEF Settled, Sends
  <2>6. /\ Restatus(r, s) /\ s \in Status /\ watchers[r].status # "failed"
        /\ UNCHANGED <<session, connected, watchParams, localToRemote, up>>
    BY <2>1 DEF Settled, Status, clientVars
  <2>7. watchers[r].status = "starting" =>
          s \in {"starting", "failed"} \/ (some /\ m.kind = "watched" /\ m.id = watchers[r].id)
    BY <2>3, <2>4
  <2> QED BY <2>3, <2>5, <2>6, <2>7, <1>9
<1>13. ASSUME NEW r \in DOMAIN watchers, Poll(r)
       PROVE  MappedInv'
  <2>1. /\ watchers' = [watchers EXCEPT ![r].status = "found"] /\ watchers[r].status = "polling"
        /\ UNCHANGED <<clientVars, netVars>>
    BY <1>13 DEF Poll
  <2>2. Restatus(r, "found")
    BY <2>1, RestatusIs DEF Status
  <2>3. \A j : Asked(j) => Asked(j)'
    BY <2>1, <2>2 DEF Asked, Restatus, netVars
  <2>4. IdsAgree'
    BY <2>1, <2>2, <2>3 DEF IdsAgree, MappedInv, Restatus, clientVars, netVars
  <2> QED BY <2>1, <2>2, <2>4 DEF MappedInv, Restatus, clientVars, netVars
<1>14. ASSUME NEW r \in DOMAIN watchers, Notice(r)
       PROVE  MappedInv'
  BY <1>2, <1>14 DEF Notice
<1>15. ASSUME NEW c \in Clients, CreateFile(c)
       PROVE  MappedInv'
  BY <1>2, <1>15 DEF CreateFile, serverVars
<1>16. ASSUME UNCHANGED vars
       PROVE  MappedInv'
  BY <1>2, <1>16 DEF vars, serverVars
<1> QED BY <1>1, <1>3, <1>4, <1>6, <1>7, <1>8, <1>10, <1>11, <1>12, <1>13, <1>14, <1>15, <1>16
        DEF Next, Receives, Serves

-----------------------------------------------------------------------------
(* Every id that is wanted is asked for by the first connection and by each that follows.  *)

LEMMA Shifted ==
  ASSUME NEW S, NEW q \in Seq(S), q # <<>>, NEW p, p = Tail(q)
  PROVE  /\ 1 \in DOMAIN q
         /\ \A n \in DOMAIN p : n + 1 \in DOMAIN q /\ p[n] = q[n + 1] /\ n + 1 # 1
         /\ \A n \in DOMAIN q : n = 1 \/ (n - 1 \in DOMAIN p /\ p[n - 1] = q[n])
         /\ \A m, n \in DOMAIN p : m + 1 = n + 1 => m = n
<1>1. /\ Len(q) \in Nat /\ DOMAIN q = 1..Len(q) /\ DOMAIN p = 1..Len(q) - 1 /\ 1 \in DOMAIN q
      /\ \A n \in 1..Len(q) - 1 : p[n] = q[n + 1]
  OBVIOUS
<1>2. ASSUME NEW n \in DOMAIN q, n # 1
      PROVE  n - 1 \in DOMAIN p /\ p[n - 1] = q[n]
  <2>1. n - 1 \in 1..Len(q) - 1 /\ (n - 1) + 1 = n
    BY <1>1, <1>2
  <2> QED BY <2>1, <1>1
<1>3. \A n \in DOMAIN p : n + 1 \in DOMAIN q /\ p[n] = q[n + 1] /\ n + 1 # 1
  BY <1>1
<1>4. \A m, n \in DOMAIN p : m + 1 = n + 1 => m = n
  BY <1>1
<1> QED BY <1>1, <1>2, <1>3, <1>4

LEMMA NextWanted ==
  TypeInv /\ ConnectionInv /\ GivenInv /\ ChainInv /\ WantedInv /\ [Next]_vars => WantedInv'
<1> SUFFICES ASSUME TypeInv, ConnectionInv, GivenInv, ChainInv, WantedInv, [Next]_vars PROVE WantedInv'
  OBVIOUS
<1>0. up \in Seq(Request) /\ waiting \in Seq(Request)
  BY DEF TypeInv, ServiceTypes
<1>1. ASSUME (\E c \in Clients : Watch(c) \/ Dispose(c)) \/ PreferenceChanged
      PROVE  WantedInv'
  <2>1. PICK calls, S : \E U, N \in Nat : Caller(calls, S, U, N)
    BY <1>1, FrontendCalls
  <2>2. PICK U \in Nat, N \in Nat : Caller(calls, S, U, N)
    BY <2>1
  <2>3. calls \in Seq(Request) /\ Calls(calls, S, U, N) /\ Send(calls) /\ S \subseteq Given
    BY <2>2 DEF Caller, Calls
  <2>4. /\ connected => Adds(up, up', calls) /\ waiting' = waiting
        /\ ~connected => Adds(waiting, waiting', calls) /\ up' = up
        /\ UNCHANGED <<session, connected, watchers, robbed>>
    BY <2>2, <2>3, SentIs DEF Caller, serverVars
  <2>5. watchParams' = (watchParams \ S) \cup New(N) /\ Given \cap New(N) = {}
    BY <2>2, GivenGrows DEF Caller
  <2>6. \A k \in DOMAIN calls : calls[k].kind = "unwatch" => calls[k].id \notin watchParams'
    <3>1. \A k \in DOMAIN calls : calls[k].kind = "unwatch" => calls[k].id \in S
      BY <2>3, CallsGiven
    <3> QED BY <3>1, <2>3, <2>5
  <2>7. /\ \A n \in DOMAIN up : up[n].kind = "unwatch" => up[n].id \notin watchParams'
        /\ \A n \in DOMAIN waiting : waiting[n].kind = "unwatch" => waiting[n].id \notin watchParams'
    BY <2>5 DEF WantedInv, Unwanted, GivenInv
  <2>8. Unwanted(up)' /\ Unwanted(waiting)'
    <3>1. CASE connected
      BY <3>1, <2>4, <2>6, <2>7 DEF Unwanted, Adds
    <3>2. CASE ~connected
      BY <3>2, <2>4, <2>6, <2>7 DEF Unwanted, Adds
    <3> QED BY <3>1, <3>2
  <2>9. ASSUME session' = 0, NEW i \in watchParams'
        PROVE  \E n \in DOMAIN waiting' : waiting'[n].kind = "watch" /\ waiting'[n].id = i
    <3>1. ~connected /\ Adds(waiting, waiting', calls) /\ session = 0
      BY <2>4, <2>9 DEF ConnectionInv
    <3>2. CASE i \in New(N)
      <4>1. PICK k \in DOMAIN calls : calls[k].kind = "watch" /\ calls[k].id = i
        BY <2>3, <3>2, CallsAsk
      <4> QED BY <4>1, <3>1 DEF Adds
    <3>3. CASE i \notin New(N)
      <4>1. i \in watchParams
        BY <3>3, <2>5, <2>9
      <4> QED BY <4>1, <3>1 DEF Adds, WantedInv
    <3> QED BY <3>2, <3>3
  <2>10. ASSUME connected', NEW i \in watchParams' \ robbed'
         PROVE  \/ \E n \in DOMAIN up' : up'[n].kind = "watch" /\ up'[n].id = i
                \/ \E r \in DOMAIN watchers' : watchers'[r].id = i /\ watchers'[r].status # "stopped"
    <3>1. connected /\ Adds(up, up', calls)
      BY <2>4, <2>10
    <3>2. CASE i \in New(N)
      <4>1. PICK k \in DOMAIN calls : calls[k].kind = "watch" /\ calls[k].id = i
        BY <2>3, <3>2, CallsAsk
      <4> QED BY <4>1, <3>1 DEF Adds
    <3>3. CASE i \notin New(N)
      <4>1. i \in watchParams \ robbed
        BY <3>3, <2>4, <2>5, <2>10
      <4>2. \/ \E n \in DOMAIN up : up[n].kind = "watch" /\ up[n].id = i
            \/ \E r \in DOMAIN watchers : watchers[r].id = i /\ watchers[r].status # "stopped"
        BY <4>1, <3>1 DEF WantedInv
      <4> QED BY <4>2, <3>1, <2>4 DEF Adds
    <3> QED BY <3>2, <3>3
  <2> QED BY <2>8, <2>9, <2>10 DEF WantedInv
<1>2. ASSUME UNCHANGED <<watchParams, session, connected, waiting, up, watchers, robbed>>
      PROVE  WantedInv'
  BY <1>2 DEF WantedInv, Unwanted
<1>3. ASSUME NEW c \in Clients, CreateFile(c)
      PROVE  WantedInv'
  BY <1>2, <1>3 DEF CreateFile, clientVars, netVars, serverVars
<1>4. ASSUME Connect
      PROVE  WantedInv'
  <2>1. PICK again : Connected(again)
    BY <1>4, ConnectIs
  <2>2. /\ again \in Seq(Request) /\ up' = waiting \o again /\ waiting' = <<>>
        /\ \A n \in DOMAIN again : again[n].kind = "watch"
        /\ session # 0 => \A i \in watchParams : \E n \in DOMAIN again : again[n].id = i
        /\ session' = session + 1 /\ session \in Nat
        /\ UNCHANGED <<watchParams, watchers, robbed>>
    BY <2>1, Bounds DEF Connected, TypeInv, ServiceTypes, clientVars, serverVars
  <2>3. Adds(waiting, up', again)
    <3>1. Adds(waiting, waiting \o again, again)
      BY <1>0, <2>2, JoinedAdds
    <3> QED BY <3>1, <2>2
  <2>4. ASSUME NEW i \in watchParams
        PROVE  \E n \in DOMAIN up' : up'[n].kind = "watch" /\ up'[n].id = i
    <3>1. CASE session # 0
      <4>1. PICK k \in DOMAIN again : again[k].id = i
        BY <2>2, <2>4, <3>1
      <4>2. Len(waiting) + k \in DOMAIN up' /\ up'[Len(waiting) + k] = again[k]
        BY <2>3 DEF Adds
      <4> QED BY <4>1, <4>2, <2>2
    <3>2. CASE session = 0
      <4>1. PICK n \in DOMAIN waiting : waiting[n].kind = "watch" /\ waiting[n].id = i
        BY <3>2 DEF WantedInv
      <4> QED BY <4>1, <2>3 DEF Adds
    <3> QED BY <3>1, <3>2
  <2>5. DOMAIN waiting' = {}
    BY <2>2
  <2>6. Unwanted(up)' /\ Unwanted(waiting)'
    BY <2>2, <2>3, <2>5 DEF Unwanted, Adds, WantedInv
  <2>7. session' # 0
    BY <2>2
  <2> QED BY <2>2, <2>4, <2>6, <2>7 DEF WantedInv
<1>5. ASSUME Close
      PROVE  WantedInv'
  <2>1. /\ connected' = FALSE /\ up' = <<>> /\ UNCHANGED <<session, waiting, watchParams>> /\ connected
    BY <1>5 DEF Close, RejectAll
  <2>2. DOMAIN up' = {}
    BY <2>1
  <2> QED BY <2>1, <2>2 DEF WantedInv, Unwanted, ConnectionInv
<1>6. ASSUME Receives
      PROVE  WantedInv'
  BY <1>2, <1>6 DEF Receives, ReceiveWatched, ReceiveRefused, ReceiveChanged, RejectAll, serverVars
<1>7. ASSUME FireDidFilesChanged
      PROVE  WantedInv'
  BY <1>2, <1>7, FireIs DEF clientVars
<1>8. ASSUME ServeWatch
      PROVE  WantedInv'
  <2>1. PICK i \in Ids, f \in BOOLEAN, polls \in BOOLEAN : ServedWatch(i, f, polls)
    BY <1>8, ServeWatchIs
  <2>2. /\ up # <<>> /\ up' = Tail(up) /\ up[1].id = i
        /\ UNCHANGED <<session, connected, waiting, watchParams, robbed>>
    BY <2>1 DEF ServedWatch, clientVars
  <2>3. /\ \A n \in DOMAIN up' : n + 1 \in DOMAIN up /\ up'[n] = up[n + 1]
        /\ \A n \in DOMAIN up : n = 1 \/ (n - 1 \in DOMAIN up' /\ up'[n - 1] = up[n])
    BY <1>0, <2>2, Shifted
  <2>4. /\ \A r \in DOMAIN watchers : r \in DOMAIN watchers' /\ watchers'[r] = watchers[r]
        /\ \E r \in DOMAIN watchers' : watchers'[r].id = i /\ watchers'[r].status # "stopped"
    <3>1. watchers'[Len(watchers) + 1].status # "stopped"
      BY <2>1 DEF ServedWatch
    <3> QED BY <2>1, <3>1 DEF ServedWatch
  <2>5. ASSUME connected, NEW j \in watchParams \ robbed
        PROVE  \/ \E n \in DOMAIN up' : up'[n].kind = "watch" /\ up'[n].id = j
               \/ \E r \in DOMAIN watchers' : watchers'[r].id = j /\ watchers'[r].status # "stopped"
    <3>1. CASE \E n \in DOMAIN up : up[n].kind = "watch" /\ up[n].id = j
      <4>1. PICK n \in DOMAIN up : up[n].kind = "watch" /\ up[n].id = j
        BY <3>1
      <4>2. CASE n = 1
        <5>1. j = i
          BY <4>1, <4>2, <2>2
        <5> QED BY <5>1, <2>4
      <4>3. CASE n # 1
        BY <4>1, <4>3, <2>3
      <4> QED BY <4>2, <4>3
    <3>2. CASE \E r \in DOMAIN watchers : watchers[r].id = j /\ watchers[r].status # "stopped"
      BY <3>2, <2>4
    <3> QED BY <2>5, <3>1, <3>2 DEF WantedInv
  <2>6. Unwanted(up)'
    BY <2>2, <2>3 DEF Unwanted, WantedInv
  <2>7. Unwanted(waiting)'
    BY <2>2 DEF Unwanted, WantedInv
  <2> QED BY <2>2, <2>5, <2>6, <2>7 DEF WantedInv
<1>9. ASSUME NEW r, NEW s, Restatus(r, s), s # "stopped",
             UNCHANGED <<session, connected, waiting, up, watchParams, robbed>>
      PROVE  WantedInv'
  <2>1. \A t \in DOMAIN watchers : /\ t \in DOMAIN watchers' /\ watchers'[t].id = watchers[t].id
                                   /\ watchers[t].status # "stopped" => watchers'[t].status # "stopped"
    BY <1>9 DEF Restatus
  <2> QED BY <2>1, <1>9 DEF WantedInv, Unwanted
<1>10. ASSUME ServeUnwatch
       PROVE  WantedInv'
  <2>0. PICK i \in Ids : \E r : \E stops \in BOOLEAN : ServedUnwatch(i, r, stops)
    BY <1>10, ServeUnwatchIs
  <2>1. PICK r : \E stops \in BOOLEAN : ServedUnwatch(i, r, stops)
    BY <2>0
  <2>2. PICK stops \in BOOLEAN : ServedUnwatch(i, r, stops)
    BY <2>1
  <2>3. /\ up # <<>> /\ up' = Tail(up) /\ up[1].kind = "unwatch" /\ up[1].id = i
        /\ UNCHANGED <<session, connected, waiting, watchParams>>
    BY <2>2 DEF ServedUnwatch, clientVars
  <2>4. /\ 1 \in DOMAIN up
        /\ \A n \in DOMAIN up' : n + 1 \in DOMAIN up /\ up'[n] = up[n + 1]
        /\ \A n \in DOMAIN up : n = 1 \/ (n - 1 \in DOMAIN up' /\ up'[n - 1] = up[n])
    BY <1>0, <2>3, Shifted
  <2>5. i \notin watchParams
    BY <2>3, <2>4 DEF WantedInv, Unwanted
  <2>6. ASSUME NEW j \in watchParams \ robbed',
               \E t \in DOMAIN watchers : watchers[t].id = j /\ watchers[t].status # "stopped"
        PROVE  \E t \in DOMAIN watchers' : watchers'[t].id = j /\ watchers'[t].status # "stopped"
    <3>1. CASE stops
      <4>1. Restatus(r, "stopped") /\ robbed' = robbed \cup ({watchers[r].id} \ {i})
        BY <2>2, <3>1 DEF ServedUnwatch
      <4>2. j # watchers[r].id
        BY <4>1, <2>5, <2>6
      <4> QED BY <4>1, <4>2, <2>6 DEF Restatus
    <3>2. CASE ~stops
      BY <2>2, <2>6, <3>2 DEF ServedUnwatch
    <3> QED BY <3>1, <3>2
  <2>7. robbed \subseteq robbed'
    BY <2>2 DEF ServedUnwatch
  <2>8. ASSUME connected, NEW j \in watchParams \ robbed'
        PROVE  \/ \E n \in DOMAIN up' : up'[n].kind = "watch" /\ up'[n].id = j
               \/ \E t \in DOMAIN watchers' : watchers'[t].id = j /\ watchers'[t].status # "stopped"
    <3>1. CASE \E n \in DOMAIN up : up[n].kind = "watch" /\ up[n].id = j
      <4>1. PICK n \in DOMAIN up : up[n].kind = "watch" /\ up[n].id = j
        BY <3>1
      <4>2. n # 1
        BY <4>1, <2>3
      <4> QED BY <4>1, <4>2, <2>4
    <3>2. CASE \E t \in DOMAIN watchers : watchers[t].id = j /\ watchers[t].status # "stopped"
      BY <3>2, <2>6, <2>8
    <3> QED BY <2>7, <2>8, <3>1, <3>2 DEF WantedInv
  <2>9. Unwanted(up)'
    BY <2>3, <2>4 DEF Unwanted, WantedInv
  <2>10. Unwanted(waiting)'
    BY <2>3 DEF Unwanted, WantedInv
  <2> QED BY <2>3, <2>8, <2>9, <2>10 DEF WantedInv
<1>11. ASSUME NEW r \in DOMAIN watchers, Started(r) \/ StartFails(r)
       PROVE  WantedInv'
  <2>1. PICK s \in {"running", "failed"} : Settled(r, s)
    BY <1>11, SettledIs
  <2>2. /\ Restatus(r, s) /\ s # "stopped"
        /\ UNCHANGED <<session, connected, waiting, up, watchParams, robbed>>
    BY <2>1 DEF Settled, clientVars
  <2> QED BY <2>2, <1>9
<1>12. ASSUME NEW r \in DOMAIN watchers, Poll(r)
       PROVE  WantedInv'
  <2>1. /\ watchers' = [watchers EXCEPT ![r].status = "found"] /\ UNCHANGED <<clientVars, netVars, robbed>>
    BY <1>12 DEF Poll
  <2>2. Restatus(r, "found")
    BY <2>1, RestatusIs DEF Status
  <2> QED BY <2>1, <2>2, <1>9 DEF clientVars, netVars
<1>13. ASSUME NEW r \in DOMAIN watchers, Notice(r)
       PROVE  WantedInv'
  BY <1>2, <1>13 DEF Notice, clientVars, netVars
<1>14. ASSUME UNCHANGED vars
       PROVE  WantedInv'
  BY <1>2, <1>14 DEF vars, clientVars, netVars, serverVars
<1> QED BY <1>1, <1>3, <1>4, <1>5, <1>6, <1>7, <1>8, <1>10, <1>11, <1>12, <1>13, <1>14
        DEF Next, Receives, Serves

-----------------------------------------------------------------------------
(* The call of a pending id is in one place.                                 *)

LEMMA FirstsAdded ==
  ASSUME NEW q, NEW calls, NEW p, Adds(q, p, calls), NEW P, NEW R, P \cap R = {},
         AllIn(q, Firsts(q), P), Once(q, Firsts(q)),
         AllIn(calls, Firsts(calls), R), Once(calls, Firsts(calls))
  PROVE  /\ AllIn(p, Firsts(p), P \cup R) /\ Once(p, Firsts(p))
         /\ \A n \in Firsts(p) : (n \in Firsts(q) /\ p[n] = q[n]) \/ p[n].id \in R
<1>1. ASSUME NEW n \in Firsts(p)
      PROVE  \/ n \in Firsts(q) /\ p[n] = q[n]
             \/ \E k \in Firsts(calls) : n = Len(q) + k /\ p[n] = calls[k]
  <2>1. n \in DOMAIN p /\ p[n].kind \in {"watch", "watched", "refused"} /\ p[n].first
    BY <1>1 DEF Firsts
  <2>2. CASE n \in DOMAIN q
    BY <2>1, <2>2 DEF Adds, Firsts
  <2>3. CASE n \notin DOMAIN q
    BY <2>1, <2>3 DEF Adds, Firsts
  <2> QED BY <2>2, <2>3
<1>2. \A n \in Firsts(p) : (n \in Firsts(q) /\ p[n] = q[n] /\ p[n].id \in P) \/ p[n].id \in R
  BY <1>1 DEF AllIn
<1>3. ASSUME NEW m \in Firsts(p), NEW n \in Firsts(p), p[m].id = p[n].id
      PROVE  m = n
  <2>1. CASE p[m].id \in P
    <3>1. m \in Firsts(q) /\ p[m] = q[m] /\ n \in Firsts(q) /\ p[n] = q[n]
      BY <1>2, <1>3, <2>1
    <3> QED BY <3>1, <1>3 DEF Once
  <2>2. CASE p[m].id \notin P
    <3>1. ~(m \in Firsts(q) /\ p[m] = q[m]) /\ ~(n \in Firsts(q) /\ p[n] = q[n])
      BY <1>3, <2>2 DEF AllIn
    <3>2. PICK j \in Firsts(calls) : m = Len(q) + j /\ p[m] = calls[j]
      BY <1>1, <3>1
    <3>3. PICK k \in Firsts(calls) : n = Len(q) + k /\ p[n] = calls[k]
      BY <1>1, <3>1
    <3>4. j = k
      BY <3>2, <3>3, <1>3 DEF Once
    <3> QED BY <3>2, <3>3, <3>4
  <2> QED BY <2>1, <2>2
<1>4. Once(p, Firsts(p))
  BY <1>3 DEF Once
<1>5. AllIn(p, Firsts(p), P \cup R)
  BY <1>2 DEF AllIn
<1> QED BY <1>2, <1>4, <1>5

LEMMA FirstsTail ==
  ASSUME NEW X, NEW q \in Seq(X), q # <<>>, NEW p, p = Tail(q), Once(q, Firsts(q))
  PROVE  /\ \A n \in Firsts(p) : n + 1 \in Firsts(q) /\ p[n] = q[n + 1]
         /\ Once(p, Firsts(p))
         /\ 1 \in Firsts(q) => \A n \in Firsts(p) : p[n].id # q[1].id
         /\ 1 \in DOMAIN q
<1>1. /\ 1 \in DOMAIN q
      /\ \A n \in DOMAIN p : n + 1 \in DOMAIN q /\ p[n] = q[n + 1] /\ n + 1 # 1
      /\ \A m, n \in DOMAIN p : m + 1 = n + 1 => m = n
  BY Shifted
<1>2. \A n \in Firsts(p) : n \in DOMAIN p /\ n + 1 \in Firsts(q) /\ p[n] = q[n + 1] /\ n + 1 # 1
  BY <1>1 DEF Firsts
<1>3. ASSUME NEW m \in Firsts(p), NEW n \in Firsts(p), p[m].id = p[n].id
      PROVE  m = n
  <2>1. m + 1 = n + 1
    BY <1>2, <1>3 DEF Once
  <2> QED BY <2>1, <1>1, <1>2
<1>4. ASSUME 1 \in Firsts(q), NEW n \in Firsts(p)
      PROVE  p[n].id # q[1].id
  BY <1>2, <1>4 DEF Once
<1> QED BY <1>1, <1>2, <1>3, <1>4 DEF Once

\* What a message that is sent adds to the firsts of down.
LEMMA FirstsSent ==
  ASSUME NEW some \in BOOLEAN, NEW m, Sends(some, m)
  PROVE  \A n \in Firsts(down') :
           \/ n \in Firsts(down) /\ down'[n] = down[n]
           \/ /\ some /\ n = Len(down) + 1 /\ down'[n] = m /\ m.first
              /\ m.kind \in {"watch", "watched", "refused"}
BY DEF Firsts, Sends

\* The places that a status leaves alone.
LEMMA StartingStays ==
  ASSUME NEW r, NEW s, Restatus(r, s), s # "starting"
  PROVE  \A t \in Starting(watchers') : t \in Starting(watchers) /\ t # r /\ watchers'[t].id = watchers[t].id
BY DEF Restatus, Starting

LEMMA CallsFirst ==
  ASSUME TypeInv, NEW calls, NEW S, NEW U \in Nat, NEW N \in Nat, Calls(calls, S, U, N)
  PROVE  AllIn(calls, Firsts(calls), New(N)) /\ Once(calls, Firsts(calls))
<1>1. /\ DOMAIN calls = 1..U + N
      /\ \A k \in DOMAIN calls :
           \/ k \in 1..U /\ calls[k].kind = "unwatch" /\ calls[k].id \in S
           \/ /\ k \notin 1..U /\ k - U \in 1..N /\ calls[k].kind = "watch" /\ calls[k].first = TRUE
              /\ calls[k].id = Len(owners) + (k - U) /\ calls[k].id \in New(N)
  BY CallsGiven
<1>2. \A k \in Firsts(calls) : /\ k \in 1..U + N /\ calls[k].id \in New(N)
                               /\ calls[k].id = Len(owners) + (k - U)
  BY <1>1 DEF Firsts
<1>3. ASSUME NEW m \in Firsts(calls), NEW n \in Firsts(calls), calls[m].id = calls[n].id
      PROVE  m = n
  <2>1. Len(owners) + (m - U) = Len(owners) + (n - U) /\ m \in Nat /\ n \in Nat
    BY <1>2, <1>3
  <2>2. Len(owners) \in Nat
    BY DEF TypeInv, ServiceTypes
  <2> QED BY <2>1, <2>2
<1> QED BY <1>2, <1>3 DEF AllIn, Once

LEMMA NextFirst ==
  TypeInv /\ ConnectionInv /\ GivenInv /\ ChainInv /\ FirstInv /\ [Next]_vars => FirstInv'
<1> SUFFICES ASSUME TypeInv, ConnectionInv, GivenInv, ChainInv, FirstInv, [Next]_vars PROVE FirstInv'
  OBVIOUS
<1>0. up \in Seq(Request) /\ waiting \in Seq(Request) /\ down \in Seq(Message)
  BY DEF TypeInv, ServiceTypes
<1>00. \A q : q = <<>> => Firsts(q) = {} /\ Starting(q) = {}
  BY DEF Firsts, Starting
<1>1. ASSUME (\E c \in Clients : Watch(c) \/ Dispose(c)) \/ PreferenceChanged
      PROVE  FirstInv'
  <2>1. PICK calls, S : \E U, N \in Nat : Caller(calls, S, U, N)
    BY <1>1, FrontendCalls
  <2>2. PICK U \in Nat, N \in Nat : Caller(calls, S, U, N)
    BY <2>1
  <2>3. calls \in Seq(Request) /\ Calls(calls, S, U, N) /\ Send(calls)
    BY <2>2 DEF Caller, Calls
  <2>4. /\ connected => Adds(up, up', calls) /\ waiting' = waiting
        /\ ~connected => Adds(waiting, waiting', calls) /\ up' = up
        /\ UNCHANGED <<down, watchers>>
    BY <2>2, <2>3, SentIs DEF Caller, serverVars
  <2>5. pending' = pending \cup New(N) /\ pending \cap New(N) = {}
    BY <2>2, GivenGrows DEF Caller, GivenInv
  <2>6. AllIn(calls, Firsts(calls), New(N)) /\ Once(calls, Firsts(calls))
    BY <2>3, CallsFirst
  <2>7. /\ AllIn(watchers, Starting(watchers), pending') /\ AllIn(down, Firsts(down), pending')
        /\ AllIn(up, Firsts(up), pending') /\ AllIn(waiting, Firsts(waiting), pending')
    BY <2>5 DEF FirstInv, AllIn
  <2>8. CASE connected
    <3>1. /\ AllIn(up', Firsts(up'), pending') /\ Once(up', Firsts(up'))
          /\ \A n \in Firsts(up') : (n \in Firsts(up) /\ up'[n] = up[n]) \/ up'[n].id \in New(N)
      <4>1. Adds(up, up', calls)
        BY <2>4, <2>8
      <4>2. AllIn(up, Firsts(up), pending) /\ Once(up, Firsts(up))
        BY DEF FirstInv
      <4> QED BY <4>1, <4>2, <2>5, <2>6, FirstsAdded
    <3>2. Apart(up', Firsts(up'), watchers, Starting(watchers)) /\ Apart(up', Firsts(up'), down, Firsts(down))
      BY <3>1, <2>5 DEF Apart, FirstInv, AllIn
    <3> QED BY <3>1, <3>2, <2>4, <2>7, <2>8 DEF FirstInv
  <2>9. CASE ~connected
    <3>1. AllIn(waiting', Firsts(waiting'), pending') /\ Once(waiting', Firsts(waiting'))
      <4>1. Adds(waiting, waiting', calls)
        BY <2>4, <2>9
      <4>2. AllIn(waiting, Firsts(waiting), pending) /\ Once(waiting, Firsts(waiting))
        BY DEF FirstInv
      <4> QED BY <4>1, <4>2, <2>5, <2>6, FirstsAdded
    <3> QED BY <3>1, <2>4, <2>7, <2>9 DEF FirstInv
  <2> QED BY <2>8, <2>9
<1>2. ASSUME UNCHANGED <<pending, waiting, up, watchers, down>>
      PROVE  FirstInv'
  BY <1>2 DEF FirstInv
<1>3. ASSUME NEW c \in Clients, CreateFile(c)
      PROVE  FirstInv'
  BY <1>2, <1>3 DEF CreateFile, clientVars, netVars, serverVars
<1>4. ASSUME Connect
      PROVE  FirstInv'
  <2>1. PICK again : Connected(again)
    BY <1>4, ConnectIs
  <2>2. /\ again \in Seq(Request) /\ up' = waiting \o again /\ waiting' = <<>> /\ ~connected
        /\ \A n \in DOMAIN again : ~again[n].first
        /\ UNCHANGED <<pending, watchers, down>>
    BY <2>1 DEF Connected, clientVars, serverVars
  <2>3. Adds(waiting, up', again)
    <3>1. Adds(waiting, waiting \o again, again)
      BY <1>0, <2>2, JoinedAdds
    <3> QED BY <3>1, <2>2
  <2>4. AllIn(again, Firsts(again), {}) /\ Once(again, Firsts(again))
    BY <2>2 DEF AllIn, Once, Firsts
  <2>5. AllIn(up', Firsts(up'), pending) /\ Once(up', Firsts(up'))
    <3>1. AllIn(waiting, Firsts(waiting), pending) /\ Once(waiting, Firsts(waiting))
      BY DEF FirstInv
    <3>2. pending \cap {} = {} /\ pending \cup {} = pending
      OBVIOUS
    <3> QED BY <3>1, <3>2, <2>3, <2>4, FirstsAdded
  <2>6. Firsts(waiting') = {} /\ Firsts(down) = {} /\ Starting(watchers) = {}
    BY <2>2, <1>00 DEF ConnectionInv
  <2> QED BY <2>2, <2>5, <2>6 DEF FirstInv, AllIn, Once, Apart
<1>5. ASSUME Close
      PROVE  FirstInv'
  <2>1. up' = <<>> /\ down' = <<>> /\ watchers' = <<>> /\ waiting' = <<>>
    BY <1>5 DEF Close, ConnectionInv
  <2>2. Firsts(up') = {} /\ Firsts(down') = {} /\ Starting(watchers') = {} /\ Firsts(waiting') = {}
    BY <2>1, <1>00
  <2> QED BY <2>2 DEF FirstInv, AllIn, Once, Apart
<1>6. ASSUME down # <<>>, down' = Tail(down), UNCHANGED <<waiting, up, watchers>>,
             \/ pending' = pending
             \/ 1 \in Firsts(down) /\ pending' = pending \ {down[1].id}
      PROVE  FirstInv'
  <2>1. /\ \A n \in Firsts(down') : n + 1 \in Firsts(down) /\ down'[n] = down[n + 1]
        /\ Once(down', Firsts(down'))
        /\ 1 \in Firsts(down) => \A n \in Firsts(down') : down'[n].id # down[1].id
        /\ 1 \in DOMAIN down
    <3>1. Once(down, Firsts(down))
      BY DEF FirstInv
    <3> QED BY <3>1, <1>0, <1>6, FirstsTail
  <2>2. Firsts(waiting) = {}
    <3>1. connected
      BY <1>6 DEF ConnectionInv
    <3> QED BY <3>1, <1>00 DEF ConnectionInv
  <2>3. AllIn(down', Firsts(down'), pending)
    BY <2>1 DEF AllIn, FirstInv
  <2>4. /\ Apart(up, Firsts(up), down', Firsts(down'))
        /\ Apart(watchers, Starting(watchers), down', Firsts(down'))
    BY <2>1 DEF Apart, FirstInv
  <2>5. /\ AllIn(down', Firsts(down'), pending') /\ AllIn(up, Firsts(up), pending')
        /\ AllIn(watchers, Starting(watchers), pending')
    <3>1. CASE pending' = pending
      BY <3>1, <2>3 DEF FirstInv
    <3>2. CASE 1 \in Firsts(down) /\ pending' = pending \ {down[1].id}
      <4>1. AllIn(down', Firsts(down'), pending')
        BY <3>2, <2>1, <2>3 DEF AllIn
      <4>2. AllIn(up, Firsts(up), pending')
        BY <3>2 DEF AllIn, FirstInv, Apart
      <4>3. AllIn(watchers, Starting(watchers), pending')
        BY <3>2 DEF AllIn, FirstInv, Apart
      <4> QED BY <4>1, <4>2, <4>3
    <3> QED BY <1>6, <3>1, <3>2
  <2>6. /\ Once(up, Firsts(up)) /\ Once(watchers, Starting(watchers))
        /\ Apart(up, Firsts(up), watchers, Starting(watchers))
    BY DEF FirstInv
  <2>7. AllIn(waiting, Firsts(waiting), pending') /\ Once(waiting, Firsts(waiting))
    BY <2>2 DEF AllIn, Once
  <2> QED BY <1>6, <2>1, <2>4, <2>5, <2>6, <2>7 DEF FirstInv
<1>7. ASSUME ReceiveWatched
      PROVE  FirstInv'
  <2>1. PICK i \in Ids, f \in BOOLEAN, r \in Nat :
           /\ down # <<>> /\ down[1].kind = "watched" /\ down[1].id = i /\ down[1].first = f
           /\ down' = Tail(down)
           /\ f => pending' = pending \ {i}
           /\ ~f => pending' = pending
           /\ UNCHANGED <<waiting, up, serverVars>>
    BY <1>7, ReceiveWatchedIs
  <2>2. 1 \in DOMAIN down
    BY <2>1, HeadMessage
  <2>3. f => 1 \in Firsts(down)
    BY <2>1, <2>2 DEF Firsts
  <2> QED BY <2>1, <2>3, <1>6 DEF serverVars
<1>8. ASSUME ReceiveRefused
      PROVE  FirstInv'
  <2>1. /\ down # <<>> /\ down[1].kind = "refused" /\ down' = Tail(down)
        /\ pending' = pending \ (IF down[1].first THEN {down[1].id} ELSE {})
        /\ UNCHANGED <<waiting, up, serverVars>>
    BY <1>8, ReceiveRefusedIs DEF RejectAll
  <2>2. 1 \in DOMAIN down /\ down[1].first \in BOOLEAN
    BY <2>1, HeadMessage
  <2>3. down[1].first => 1 \in Firsts(down)
    BY <2>1, <2>2 DEF Firsts
  <2> QED BY <2>1, <2>2, <2>3, <1>6 DEF serverVars
<1>9. ASSUME ReceiveChanged
      PROVE  FirstInv'
  <2>1. down # <<>> /\ down' = Tail(down) /\ UNCHANGED <<pending, waiting, up, serverVars>>
    BY <1>9, ReceiveChangedIs
  <2> QED BY <2>1, <1>6 DEF serverVars
<1>10. ASSUME ServeWatch
       PROVE  FirstInv'
  <2>1. PICK i \in Ids, f \in BOOLEAN, polls \in BOOLEAN : ServedWatch(i, f, polls)
    BY <1>10, ServeWatchIs
  <2>2. /\ up # <<>> /\ up' = Tail(up) /\ up[1].id = i /\ up[1].first = f /\ up[1].kind = "watch"
        /\ UNCHANGED <<pending, waiting>>
    BY <2>1 DEF ServedWatch, clientVars
  <2>3. /\ \A n \in Firsts(up') : n + 1 \in Firsts(up) /\ up'[n] = up[n + 1]
        /\ Once(up', Firsts(up'))
        /\ 1 \in Firsts(up) => \A n \in Firsts(up') : up'[n].id # i
        /\ 1 \in DOMAIN up
    <3>1. Once(up, Firsts(up))
      BY DEF FirstInv
    <3>2. /\ \A n \in Firsts(up') : n + 1 \in Firsts(up) /\ up'[n] = up[n + 1]
          /\ Once(up', Firsts(up'))
          /\ 1 \in Firsts(up) => \A n \in Firsts(up') : up'[n].id # up[1].id
          /\ 1 \in DOMAIN up
      <4>1. up # <<>> /\ up' = Tail(up)
        BY <2>2
      <4> QED BY ONLY <3>1, <4>1, <1>0, FirstsTail
    <3> QED BY <3>2, <2>2
  <2>4. f => 1 \in Firsts(up)
    BY <2>2, <2>3 DEF Firsts
  <2>5. f => i \in pending /\ \A n \in Firsts(up') : up'[n].id # i
    BY <2>2, <2>3, <2>4 DEF FirstInv, AllIn
  <2>6. f => /\ \A r \in Starting(watchers) : watchers[r].id # i
             /\ \A n \in Firsts(down) : down[n].id # i
    BY <2>2, <2>4 DEF FirstInv, Apart
  <2>7. \A r \in Starting(watchers') :
          \/ r \in Starting(watchers) /\ watchers'[r] = watchers[r]
          \/ f /\ ~polls /\ r = Len(watchers) + 1 /\ watchers'[r].id = i
    BY <2>1 DEF ServedWatch, Starting
  <2>8. \A n \in Firsts(down') :
          \/ n \in Firsts(down) /\ down'[n] = down[n]
          \/ f /\ polls /\ n = Len(down) + 1 /\ down'[n].id = i
    <3>1. PICK m : m = Watched(i, f, Len(watchers) + 1)
      OBVIOUS
    <3>2. m.id = i /\ m.first = f
      BY <3>1 DEF Watched
    <3>3. Sends(polls, m)
      BY <2>1, <3>1 DEF ServedWatch
    <3> QED BY <3>2, <3>3, FirstsSent
  <2>9. AllIn(up', Firsts(up'), pending)
    BY <2>3 DEF AllIn, FirstInv
  <2>10. AllIn(watchers', Starting(watchers'), pending) /\ Once(watchers', Starting(watchers'))
    BY <2>5, <2>6, <2>7 DEF AllIn, Once, FirstInv
  <2>11. AllIn(down', Firsts(down'), pending) /\ Once(down', Firsts(down'))
    BY <2>5, <2>6, <2>8 DEF AllIn, Once, FirstInv
  <2>12. Apart(up', Firsts(up'), watchers', Starting(watchers'))
    BY <2>3, <2>5, <2>7 DEF Apart, FirstInv
  <2>13. Apart(up', Firsts(up'), down', Firsts(down'))
    BY <2>3, <2>5, <2>8 DEF Apart, FirstInv
  <2>14. Apart(watchers', Starting(watchers'), down', Firsts(down'))
    BY <2>6, <2>7, <2>8 DEF Apart, FirstInv
  <2> QED BY <2>2, <2>3, <2>9, <2>10, <2>11, <2>12, <2>13, <2>14 DEF FirstInv
<1>11. ASSUME NEW r, NEW s, Restatus(r, s), s # "starting", UNCHANGED <<pending, waiting>>,
              \/ up' = up
              \/ up # <<>> /\ up' = Tail(up),
              NEW some \in BOOLEAN, NEW m, Sends(some, m),
              some /\ m.kind \in {"watch", "watched", "refused"} /\ m.first =>
                watchers[r].status = "starting" /\ watchers[r].first /\ m.id = watchers[r].id
       PROVE  FirstInv'
  <2>1. \A t \in Starting(watchers') : t \in Starting(watchers) /\ t # r /\ watchers'[t].id = watchers[t].id
    BY <1>11, StartingStays
  <2>2. \A n \in Firsts(down') :
          \/ n \in Firsts(down) /\ down'[n] = down[n]
          \/ n = Len(down) + 1 /\ r \in Starting(watchers) /\ down'[n].id = watchers[r].id
    <3>1. \A n \in Firsts(down') :
            \/ n \in Firsts(down) /\ down'[n] = down[n]
            \/ /\ some /\ n = Len(down) + 1 /\ down'[n] = m /\ m.first
               /\ m.kind \in {"watch", "watched", "refused"}
      BY <1>11, FirstsSent
    <3>2. r \in DOMAIN watchers
      BY <1>11 DEF Restatus
    <3> QED BY <3>1, <3>2, <1>11 DEF Starting
  <2>3. Once(up', Firsts(up')) /\ \A n \in Firsts(up') : \E k \in Firsts(up) : up'[n].id = up[k].id
    <3>1. Once(up, Firsts(up))
      BY DEF FirstInv
    <3>2. CASE up' = up
      BY <3>1, <3>2
    <3>3. CASE up # <<>> /\ up' = Tail(up)
      <4>1. Once(up', Firsts(up')) /\ \A n \in Firsts(up') : n + 1 \in Firsts(up) /\ up'[n] = up[n + 1]
        BY <3>1, <3>3, <1>0, FirstsTail
      <4> QED BY <4>1
    <3> QED BY <1>11, <3>2, <3>3
  <2>4. AllIn(up', Firsts(up'), pending)
    BY <2>3 DEF AllIn, FirstInv
  <2>5. AllIn(watchers', Starting(watchers'), pending) /\ Once(watchers', Starting(watchers'))
    BY <2>1 DEF AllIn, Once, FirstInv
  <2>6. AllIn(down', Firsts(down'), pending)
    BY <2>2 DEF AllIn, FirstInv
  <2>7. Once(down', Firsts(down'))
    BY <2>2 DEF Once, Apart, FirstInv
  <2>8. Apart(up', Firsts(up'), watchers', Starting(watchers'))
    BY <2>1, <2>3 DEF Apart, FirstInv
  <2>9. Apart(up', Firsts(up'), down', Firsts(down'))
    BY <2>2, <2>3 DEF Apart, FirstInv
  <2>10. Apart(watchers', Starting(watchers'), down', Firsts(down'))
    BY <2>1, <2>2 DEF Apart, Once, FirstInv
  <2>11. AllIn(waiting, Firsts(waiting), pending) /\ Once(waiting, Firsts(waiting))
    BY DEF FirstInv
  <2> QED BY <1>11, <2>3, <2>4, <2>5, <2>6, <2>7, <2>8, <2>9, <2>10, <2>11 DEF FirstInv
<1>12. ASSUME down' \in Seq(Message), down' = down
       PROVE  Sends(FALSE, 0)
  BY <1>12 DEF Sends
<1>13. ASSUME ServeUnwatch
       PROVE  FirstInv'
  <2>0. PICK i \in Ids : \E r : \E stops \in BOOLEAN : ServedUnwatch(i, r, stops)
    BY <1>13, ServeUnwatchIs
  <2>1. PICK r : \E stops \in BOOLEAN : ServedUnwatch(i, r, stops)
    BY <2>0
  <2>2. PICK stops \in BOOLEAN : ServedUnwatch(i, r, stops)
    BY <2>1
  <2>3. up # <<>> /\ up' = Tail(up) /\ down' = down /\ UNCHANGED <<pending, waiting>>
    BY <2>2 DEF ServedUnwatch, clientVars
  <2>4. CASE stops
    <3>1. Restatus(r, "stopped")
      BY <2>2, <2>4 DEF ServedUnwatch
    <3>2. Sends(FALSE, 0)
      BY <2>3, <1>0, <1>12
    <3> QED BY <3>1, <3>2, <2>3, <1>11
  <2>5. CASE ~stops
    <3>1. watchers' = watchers
      BY <2>2, <2>5 DEF ServedUnwatch
    <3>2. Once(up', Firsts(up')) /\ \A n \in Firsts(up') : n + 1 \in Firsts(up) /\ up'[n] = up[n + 1]
      <4>1. Once(up, Firsts(up))
        BY DEF FirstInv
      <4> QED BY <4>1, <2>3, <1>0, FirstsTail
    <3>3. /\ AllIn(up', Firsts(up'), pending) /\ Apart(up', Firsts(up'), watchers, Starting(watchers))
          /\ Apart(up', Firsts(up'), down, Firsts(down))
      BY <3>2 DEF AllIn, Apart, FirstInv
    <3> QED BY <3>1, <3>2, <3>3, <2>3 DEF FirstInv
  <2> QED BY <2>4, <2>5
<1>14. ASSUME NEW r \in DOMAIN watchers, Started(r) \/ StartFails(r)
       PROVE  FirstInv'
  <2>1. PICK s \in {"running", "failed"} : Settled(r, s)
    BY <1>14, SettledIs
  <2>2. PICK m : m = IF s = "running" THEN Watched(watchers[r].id, watchers[r].first, r)
                     ELSE Refused(watchers[r].id, watchers[r].first)
    OBVIOUS
  <2>3. m.id = watchers[r].id /\ m.first = watchers[r].first
    BY <2>2 DEF Watched, Refused
  <2>4. PICK some \in BOOLEAN : some <=> watchers[r].status = "starting"
    OBVIOUS
  <2>5. Sends(some, m)
    BY <2>1, <2>2, <2>4 DEF Settled, Sends
  <2>6. Restatus(r, s) /\ s # "starting" /\ UNCHANGED <<pending, waiting, up>>
    BY <2>1 DEF Settled, clientVars
  <2> QED BY <2>3, <2>4, <2>5, <2>6, <1>11
<1>15. ASSUME NEW r \in DOMAIN watchers, Poll(r)
       PROVE  FirstInv'
  <2>1. /\ watchers' = [watchers EXCEPT ![r].status = "found"] /\ UNCHANGED <<clientVars, netVars>>
    BY <1>15 DEF Poll
  <2>2. Restatus(r, "found")
    BY <2>1, RestatusIs DEF Status
  <2>3. Sends(FALSE, 0)
    BY <2>1, <1>0, <1>12 DEF netVars
  <2> QED BY <2>1, <2>2, <2>3, <1>11 DEF clientVars, netVars
<1>16. ASSUME NEW r \in DOMAIN watchers, Notice(r)
       PROVE  FirstInv'
  BY <1>2, <1>16 DEF Notice, clientVars, netVars
<1>17. ASSUME FireDidFilesChanged
       PROVE  FirstInv'
  <2>1. Sends(TRUE, Changed(changes)) /\ UNCHANGED <<up, watchers, waiting, clientVars>>
    BY <1>17, FireIs
  <2>2. Firsts(down') = Firsts(down) /\ \A n \in Firsts(down) : down'[n] = down[n]
    <3>1. PICK m : m = Changed(changes)
      OBVIOUS
    <3>2. m.kind = "changed"
      BY <3>1 DEF Changed
    <3>3. \A n \in Firsts(down') : n \in Firsts(down) /\ down'[n] = down[n]
      BY <2>1, <3>1, <3>2, FirstsSent
    <3>4. \A n \in Firsts(down) : n \in Firsts(down') /\ down'[n] = down[n]
      BY <2>1 DEF Sends, Firsts
    <3> QED BY <3>3, <3>4
  <2>3. AllIn(down', Firsts(down'), pending) /\ Once(down', Firsts(down'))
    BY <2>2 DEF AllIn, Once, FirstInv
  <2>4. /\ Apart(up, Firsts(up), down', Firsts(down'))
        /\ Apart(watchers, Starting(watchers), down', Firsts(down'))
    BY <2>2 DEF Apart, FirstInv
  <2> QED BY <2>1, <2>3, <2>4 DEF FirstInv, clientVars
<1>18. ASSUME UNCHANGED vars
       PROVE  FirstInv'
  BY <1>2, <1>18 DEF vars, clientVars, netVars, serverVars
<1> QED BY <1>1, <1>3, <1>4, <1>5, <1>7, <1>8, <1>9, <1>10, <1>13, <1>14, <1>15, <1>16, <1>17, <1>18
        DEF Next, Receives, Serves

-----------------------------------------------------------------------------
(* The local ids of a client replace one another.                            *)

LEMMA SameLast ==
  ASSUME TypeInv, NEW i \in Given, NEW k \in Given, IsLast(i), IsLast(k), owners[i] = owners[k]
  PROVE  i = k
BY DEF IsLast, Given, TypeInv, ServiceTypes

LEMMA GivenTypes ==
  ASSUME TypeInv
  PROVE  /\ Len(owners) \in Nat /\ Len(owners) + 1 \notin Given /\ 0 \notin Given /\ Given \subseteq Nat
         /\ \A i \in Given : owners[i] \in Clients /\ i <= Len(owners)
         /\ \A i \in Given : ~IsFirst(i) <=> \E j \in 1..i - 1 : owners[j] = owners[i]
<1>1. /\ Len(owners) \in Nat /\ Len(owners) + 1 \notin Given /\ 0 \notin Given /\ Given \subseteq Nat
      /\ \A i \in Given : owners[i] \in Clients /\ i <= Len(owners)
  BY DEF Given, TypeInv, ServiceTypes
<1>2. ASSUME NEW i \in Given
      PROVE  ~IsFirst(i) <=> \E j \in 1..i - 1 : owners[j] = owners[i]
  <2>1. \A j \in Given : ~(i <= j) <=> j \in 1..i - 1
    BY <1>1, <1>2 DEF Given
  <2>2. \A j \in 1..i - 1 : j \in Given
    BY <1>1, <1>2 DEF Given
  <2> QED BY <2>1, <2>2 DEF IsFirst
<1> QED BY <1>1, <1>2

\* The last id of a client stays its last one while only other clients get ids.
LEMMA StaysLast ==
  ASSUME NEW i, IsLast(i), NEW N \in Nat, Given' = Given \cup New(N),
         \A j \in Given : owners'[j] = owners[j], i \in Given,
         \A j \in New(N) : owners'[j] # owners[i]
  PROVE  IsLast(i)'
<1>1. owners'[i] = owners[i]
  OBVIOUS
<1>2. \A j \in Given' : owners'[j] = owners'[i] => j \in Given /\ owners[j] = owners[i]
  BY <1>1
<1> QED BY <1>2 DEF IsLast

ChainsKept == ChainInv' /\ OrphansExplained'

LEMMA WatchChains ==
  ASSUME TypeInv, GivenInv, ChainInv, OrphansExplained, NEW c \in Clients, Watch(c)
  PROVE  ChainsKept
<1>0. PICK new : new = Len(owners) + 1
  OBVIOUS
<1>1. /\ client[c] = "idle" /\ client' = [client EXCEPT ![c] = "asking"]
      /\ owners' = Append(owners, c)
      /\ watchParams' = watchParams \cup {new} /\ pending' = pending \cup {new}
      /\ UNCHANGED <<toStop, toRestartAll, rejected>>
  BY <1>0 DEF Watch
<1>2. /\ owners' \in Seq(Clients) /\ Len(owners') = Len(owners) + 1 /\ Len(owners) \in Nat
      /\ \A j \in Given : owners'[j] = owners[j]
      /\ owners'[new] = c /\ new = Len(owners) + 1
  BY <1>0, <1>1 DEF Given, TypeInv, ServiceTypes
<1>3. New(1) = {new} /\ Given' = Given \cup {new} /\ new \notin Given /\ Given \subseteq Nat
  BY <1>2 DEF New, Given
<1>4. \A j \in Given : owners[j] # c /\ owners[j] \in Clients
  BY <1>1, GivenTypes DEF ChainInv
<1>5. \A i \in Given : client'[owners[i]] = client[owners[i]]
  BY <1>1, <1>4 DEF TypeInv, UserTypes
<1>6. client'[c] = "asking"
  BY <1>1 DEF TypeInv, UserTypes
<1>7. ASSUME NEW i \in Given, IsLast(i)
      PROVE  IsLast(i)'
  <2>1. Given' = Given \cup New(1) /\ \A j \in New(1) : owners'[j] # owners[i]
    BY <1>2, <1>3, <1>4, <1>7
  <2> QED BY <2>1, <1>2, <1>7, StaysLast
<1>8. IsLast(new)'
  BY <1>2, <1>3 DEF IsLast, Given
<1>9. watchParams \subseteq Given /\ pending \subseteq Given /\ rejected \subseteq Given
  BY DEF GivenInv
<1>10. \A i \in watchParams' : IsLast(i)'
  BY <1>1, <1>7, <1>8, <1>9 DEF ChainInv
<1>11. \A n \in DOMAIN toRestartAll :
         IsLast(toRestartAll[n])' /\ toRestartAll[n] \notin pending' \cup rejected
  <2> TAKE n \in DOMAIN toRestartAll
  <2>1. PICK i \in Given : i = toRestartAll[n]
    BY DEF GivenInv
  <2>2. IsLast(i) /\ i \notin pending \cup rejected
    BY <2>1 DEF ChainInv
  <2>3. IsLast(i)'
    BY <2>2, <1>7
  <2>4. i \notin pending' \cup rejected
    BY <2>2, <1>1, <1>3
  <2> QED BY <2>1, <2>3, <2>4, <1>1
<1>12. pending' \cap rejected = {}
  <2>1. pending \cap rejected = {} /\ pending' = pending \cup {new} /\ new \notin rejected
    BY <1>1, <1>3, <1>9 DEF ChainInv
  <2> QED BY ONLY <2>1
<1>13. \A i \in Given' : client'[owners'[i]] # "idle"
  BY <1>2, <1>3, <1>5, <1>6 DEF ChainInv
<1>14. \A i \in pending' : client'[owners'[i]] = "asking" \/ ~IsFirst(i)'
  <2> TAKE i \in pending'
  <2>1. CASE i = new
    BY <2>1, <1>2, <1>6
  <2>2. CASE i # new
    <3>1. i \in pending /\ i \in Given /\ owners'[i] = owners[i]
      BY <2>2, <1>1, <1>2, <1>9
    <3>2. ~IsFirst(i) => ~IsFirst(i)'
      BY <3>1, <1>2, <1>3 DEF IsFirst
    <3> QED BY <3>1, <3>2, <1>5 DEF ChainInv
  <2> QED BY <2>1, <2>2
<1>15. \A d \in Clients : toStop[d] # 0 =>
         (\E n \in DOMAIN toRestartAll : toRestartAll[n] = toStop[d]) /\ owners'[toStop[d]] = d
  BY <1>2, StoppedGiven DEF ChainInv
<1>16. ChainInv'
  BY <1>1, <1>10, <1>11, <1>12, <1>13, <1>14, <1>15 DEF ChainInv
<1>17. OrphansExplained'
  <2>1. ASSUME NEW i \in watchParams' \ (pending' \cup rejected')
        PROVE  \/ toStop'[owners'[i]] = i
               \/ client'[owners'[i]] = "stopped" /\ \E j \in 1..i - 1 : owners'[j] = owners'[i]
    <3>1. i \in watchParams \ (pending \cup rejected) /\ i \in Given /\ owners'[i] = owners[i]
      BY <2>1, <1>1, <1>2, <1>9
    <3>2. \A j \in 1..i - 1 : owners'[j] = owners[j]
      BY <3>1, <1>2 DEF Given
    <3>3. \/ toStop[owners[i]] = i
          \/ client[owners[i]] = "stopped" /\ \E j \in 1..i - 1 : owners[j] = owners[i]
      BY <3>1 DEF OrphansExplained
    <3> QED BY <3>1, <3>2, <3>3, <1>1, <1>5
  <2> QED BY <2>1 DEF OrphansExplained
<1> QED BY <1>16, <1>17 DEF ChainsKept

LEMMA DisposeChains ==
  ASSUME TypeInv, GivenInv, ChainInv, OrphansExplained, NEW c \in Clients, Dispose(c)
  PROVE  ChainsKept
<1>1. /\ client[c] = "watching" /\ client' = [client EXCEPT ![c] = "stopped"]
      /\ toStop' = [toStop EXCEPT ![c] = 0]
      /\ watchParams' = watchParams \ ToSet(IF toStop[c] = 0 THEN <<>> ELSE <<toStop[c]>>)
      /\ UNCHANGED <<toRestartAll, owners, pending, rejected>>
  BY DEF Dispose
<1>2. Given' = Given /\ (\A i : IsLast(i)' <=> IsLast(i)) /\ (\A i : IsFirst(i)' <=> IsFirst(i))
  BY <1>1 DEF Given, IsLast, IsFirst
<1>3. watchParams' \subseteq watchParams /\ (toStop[c] # 0 => toStop[c] \notin watchParams')
  <2>1. toStop[c] # 0 => toStop[c] \in ToSet(<<toStop[c]>>)
    BY DEF ToSet
  <2> QED BY <2>1, <1>1
<1>4. \A d \in Clients : client'[d] = IF d = c THEN "stopped" ELSE client[d]
  BY <1>1 DEF TypeInv, UserTypes
<1>5. \A d \in Clients : toStop'[d] = IF d = c THEN 0 ELSE toStop[d]
  BY <1>1 DEF TypeInv, UserTypes
<1>6. \A i \in Given : owners[i] \in Clients
  BY GivenTypes
<1>7. watchParams \subseteq Given /\ pending \subseteq Given
  BY DEF GivenInv
<1>8. \A n \in DOMAIN toRestartAll : IsLast(toRestartAll[n])'
  <2> TAKE n \in DOMAIN toRestartAll
  <2>1. PICK i : i = toRestartAll[n]
    OBVIOUS
  <2>2. IsLast(i)'
    BY <2>1, <1>2 DEF ChainInv
  <2> QED BY <2>1, <2>2, <1>1
<1>9. ChainInv'
  <2>1. \A i \in watchParams' : IsLast(i)'
    BY <1>2, <1>3 DEF ChainInv
  <2>2. \A i \in Given : client'[owners[i]] # "idle"
    BY <1>4, <1>6 DEF ChainInv
  <2>3. \A i \in pending : client'[owners[i]] = "asking" \/ ~IsFirst(i)'
    <3> TAKE i \in pending
    <3>1. client[owners[i]] = "asking" \/ ~IsFirst(i)
      BY DEF ChainInv
    <3>2. client[owners[i]] = "asking" => client'[owners[i]] = "asking"
      BY <1>1, <1>4, <1>6, <1>7
    <3> QED BY <3>1, <3>2, <1>2
  <2>4. \A d \in Clients : toStop'[d] # 0 =>
          (\E n \in DOMAIN toRestartAll : toRestartAll[n] = toStop'[d]) /\ owners[toStop'[d]] = d
    BY <1>5 DEF ChainInv
  <2>5. /\ \A n \in DOMAIN toRestartAll : toRestartAll[n] \notin pending \cup rejected
        /\ \A m, n \in DOMAIN toRestartAll : toRestartAll[m] = toRestartAll[n] => m = n
        /\ pending \cap rejected = {}
    BY DEF ChainInv
  <2> QED BY <1>1, <1>2, <1>8, <2>1, <2>2, <2>3, <2>4, <2>5 DEF ChainInv
<1>10. OrphansExplained'
  <2>1. ASSUME NEW i \in watchParams' \ (pending \cup rejected)
        PROVE  \/ toStop'[owners[i]] = i
               \/ client'[owners[i]] = "stopped" /\ \E j \in 1..i - 1 : owners[j] = owners[i]
    <3>1. i \in watchParams \ (pending \cup rejected) /\ i \in Given /\ i # 0 /\ owners[i] \in Clients
      BY <2>1, <1>3, <1>6, <1>7, GivenTypes
    <3>2. \/ toStop[owners[i]] = i
          \/ client[owners[i]] = "stopped" /\ \E j \in 1..i - 1 : owners[j] = owners[i]
      BY <3>1 DEF OrphansExplained
    <3>3. owners[i] = c => ~(toStop[owners[i]] = i) /\ client[owners[i]] # "stopped"
      BY <1>1, <1>3, <2>1, <3>1
    <3> QED BY <3>1, <3>2, <3>3, <1>4, <1>5
  <2> QED BY <2>1, <1>1 DEF OrphansExplained
<1> QED BY <1>9, <1>10 DEF ChainsKept

LEMMA PreferenceChains ==
  ASSUME TypeInv, GivenInv, ChainInv, OrphansExplained, PreferenceChanged
  PROVE  ChainsKept
<1>0. PICK is \in Seq(Ids) : is = Reverse(toRestartAll)
  BY ReverseIs
<1>1. PICK N \in Nat : N = Len(toRestartAll)
  BY DEF TypeInv, UserTypes
<1>2. PICK L \in Nat : L = Len(owners)
  BY GivenTypes
<1>3. /\ owners' \in Seq(Clients) /\ Len(owners') = Len(owners) + N
      /\ \A i \in Given : owners'[i] = owners[i]
      /\ \A n \in 1..N : owners'[L + n] = owners[is[n]] /\ is[n] \in Given
      /\ toRestartAll' = <<>>
      /\ toStop' = [c \in Clients |-> IF toStop[c] \in ToSet(toRestartAll) THEN 0 ELSE toStop[c]]
      /\ watchParams' = (watchParams \ ToSet(toRestartAll)) \cup New(N)
      /\ pending' = pending \cup New(N)
      /\ client' = client /\ rejected' = rejected
  <2>1. /\ owners' \in Seq(Clients) /\ Len(owners') = Len(owners) + N
        /\ \A i \in Given : owners'[i] = owners[i]
        /\ \A n \in 1..N : owners'[Len(owners) + n] = owners[is[n]] /\ is[n] \in Given
        /\ toRestartAll' = <<>>
        /\ toStop' = [c \in Clients |-> IF toStop[c] \in ToSet(toRestartAll) THEN 0 ELSE toStop[c]]
        /\ watchParams' = (watchParams \ ToSet(toRestartAll)) \cup New(N)
        /\ pending' = pending \cup New(N)
        /\ UNCHANGED <<client, told, rejected, serverVars, fileVars>>
    BY <1>0, <1>1, PreferenceIs
  <2> QED BY <2>1, <1>2
<1>4. Given' = Given \cup New(N) /\ Given \cap New(N) = {} /\ Given = 1..L
  BY <1>2, <1>3, GivenGrows DEF Given
<1>5. \A i \in New(N) : \E n \in 1..N : i = L + n
  <2> TAKE i \in New(N)
  <2>1. i - L \in 1..N /\ i = L + (i - L)
    BY <1>2 DEF New
  <2> QED BY <2>1
<1>6. \A n \in 1..N : is[n] \in ToSet(toRestartAll) /\ IsLast(is[n]) /\ is[n] \in Given
  <2> TAKE n \in 1..N
  <2>1. is[n] = toRestartAll[N - n + 1]
    BY <1>0, <1>1, ReverseIs
  <2>2. N - n + 1 \in DOMAIN toRestartAll
    BY <1>1 DEF TypeInv, UserTypes
  <2>3. PICK k \in DOMAIN toRestartAll : is[n] = toRestartAll[k]
    BY <2>1, <2>2
  <2>4. IsLast(toRestartAll[k])
    BY DEF ChainInv
  <2> QED BY <2>3, <2>4, <1>3 DEF ToSet
<1>7. \A m, n \in 1..N : is[m] = is[n] => m = n
  <2> SUFFICES ASSUME NEW m \in 1..N, NEW n \in 1..N, is[m] = is[n]
               PROVE  m = n
    OBVIOUS
  <2>1. is[m] = toRestartAll[N - m + 1] /\ is[n] = toRestartAll[N - n + 1]
    BY <1>0, <1>1, ReverseIs
  <2>2. N - m + 1 \in DOMAIN toRestartAll /\ N - n + 1 \in DOMAIN toRestartAll
    BY <1>1 DEF TypeInv, UserTypes
  <2>3. PICK j \in DOMAIN toRestartAll, k \in DOMAIN toRestartAll : j = N - m + 1 /\ k = N - n + 1
    BY <2>2
  <2>4. toRestartAll[j] = toRestartAll[k]
    BY <2>1, <2>3
  <2>5. j = k
    BY <2>4 DEF ChainInv
  <2> QED BY <2>3, <2>5
<1>8. watchParams \subseteq Given /\ pending \subseteq Given /\ rejected \subseteq Given
  BY DEF GivenInv
<1>9. \A i \in Given : owners[i] \in Clients /\ client[owners[i]] # "idle" /\ i \in Nat /\ i <= L
  BY <1>2, GivenTypes DEF ChainInv
<1>10. ASSUME NEW i \in watchParams'
       PROVE  IsLast(i)'
  <2>1. CASE i \in New(N)
    <3>1. PICK n \in 1..N : i = L + n
      BY <2>1, <1>5
    <3>2. ASSUME NEW j \in Given', owners'[j] = owners'[i]
          PROVE  j <= i
      <4>1. CASE j \in Given
        BY <4>1, <3>1, <1>4
      <4>2. CASE j \in New(N)
        <5>1. PICK m \in 1..N : j = L + m
          BY <4>2, <1>5
        <5>2. owners[is[m]] = owners[is[n]]
          BY <3>1, <3>2, <5>1, <1>3
        <5>3. is[m] = is[n]
          BY <5>2, <1>6, SameLast
        <5>4. m = n
          BY <5>3, <1>7
        <5> QED BY <5>1, <5>4, <3>1
      <4> QED BY <4>1, <4>2, <3>2, <1>4
    <3> QED BY <3>2 DEF IsLast
  <2>2. CASE i \notin New(N)
    <3>1. i \in watchParams /\ i \in Given /\ i \notin ToSet(toRestartAll) /\ IsLast(i)
      BY <2>2, <1>3, <1>8, <1>10 DEF ChainInv
    <3>2. \A j \in New(N) : owners'[j] # owners[i]
      <4> SUFFICES ASSUME NEW j \in New(N), owners'[j] = owners[i] PROVE FALSE
        OBVIOUS
      <4>1. PICK m \in 1..N : j = L + m
        BY <1>5
      <4>2. owners[is[m]] = owners[i]
        BY <4>1, <1>3
      <4>3. is[m] = i
        BY <4>2, <1>6, <3>1, SameLast
      <4> QED BY <4>3, <3>1, <1>6
    <3> QED BY <3>1, <3>2, <1>3, <1>4, StaysLast
  <2> QED BY <2>1, <2>2
<1>11. \A c \in Clients : toStop'[c] = 0
  <2> TAKE c \in Clients
  <2>1. toStop[c] # 0 => toStop[c] \in ToSet(toRestartAll)
    BY StoppedGiven
  <2> QED BY <2>1, <1>3
<1>12. DOMAIN toRestartAll' = {}
  BY <1>3
<1>13. pending' \cap rejected = {}
  <2>1. pending \cap rejected = {} /\ New(N) \cap rejected = {}
    BY <1>4, <1>8 DEF ChainInv
  <2>2. pending' = pending \cup New(N)
    BY <1>3
  <2> QED BY ONLY <2>1, <2>2
<1>14. \A i \in Given' : client[owners'[i]] # "idle"
  <2> TAKE i \in Given'
  <2>1. CASE i \in Given
    BY <2>1, <1>3, <1>9
  <2>2. CASE i \in New(N)
    <3>1. PICK n \in 1..N : i = L + n
      BY <2>2, <1>5
    <3> QED BY <3>1, <1>3, <1>9
  <2> QED BY <2>1, <2>2, <1>4
<1>15. \A i \in pending' : client[owners'[i]] = "asking" \/ ~IsFirst(i)'
  <2> TAKE i \in pending'
  <2>1. CASE i \in New(N)
    <3>1. PICK n \in 1..N : i = L + n
      BY <2>1, <1>5
    <3>2. is[n] \in Given' /\ owners'[is[n]] = owners'[i] /\ ~(i <= is[n])
      <4>1. is[n] \in Given /\ owners'[i] = owners[is[n]]
        BY <3>1, <1>3
      <4>2. owners'[is[n]] = owners[is[n]]
        BY <4>1, <1>3
      <4>3. is[n] \in Nat /\ is[n] <= L
        BY <4>1, <1>9
      <4>4. ~(i <= is[n])
        BY <4>3, <3>1
      <4> QED BY <4>1, <4>2, <4>4, <1>4
    <3> QED BY <3>2 DEF IsFirst
  <2>2. CASE i \notin New(N)
    <3>1. i \in pending /\ i \in Given /\ owners'[i] = owners[i]
      BY <2>2, <1>3, <1>8
    <3>2. ~IsFirst(i) => ~IsFirst(i)'
      BY <3>1, <1>3, <1>4 DEF IsFirst
    <3> QED BY <3>1, <3>2 DEF ChainInv
  <2> QED BY <2>1, <2>2
<1>16. ChainInv'
  BY <1>3, <1>10, <1>11, <1>12, <1>13, <1>14, <1>15 DEF ChainInv
<1>17. OrphansExplained'
  <2>1. ASSUME NEW i \in watchParams' \ (pending' \cup rejected')
        PROVE  \/ toStop'[owners'[i]] = i
               \/ client'[owners'[i]] = "stopped" /\ \E j \in 1..i - 1 : owners'[j] = owners'[i]
    <3>1. /\ i \in watchParams \ (pending \cup rejected) /\ i \in Given /\ owners'[i] = owners[i]
          /\ i \notin ToSet(toRestartAll)
      BY <2>1, <1>3, <1>8
    <3>2. \A j \in 1..i - 1 : owners'[j] = owners[j]
      BY <3>1, <1>3, <1>4
    <3>3. \/ toStop[owners[i]] = i
          \/ client[owners[i]] = "stopped" /\ \E j \in 1..i - 1 : owners[j] = owners[i]
      BY <3>1 DEF OrphansExplained
    <3>4. toStop[owners[i]] # i
      <4>1. i # 0 /\ owners[i] \in Clients
        BY <3>1, <1>4, <1>9
      <4> QED BY <3>1, <4>1, StoppedGiven
    <3> QED BY <3>1, <3>2, <3>3, <3>4, <1>3
  <2> QED BY <2>1 DEF OrphansExplained
<1> QED BY <1>16, <1>17 DEF ChainsKept

\* Promises are rejected.
LEMMA RejectChains ==
  ASSUME TypeInv, GivenInv, ChainInv, OrphansExplained, NEW is \in SUBSET pending, RejectAll(is)
  PROVE  ChainsKept
<1>1. /\ pending' = pending \ is /\ rejected' = rejected \cup is
      /\ client' = [c \in Clients |->
           IF client[c] = "asking" /\ \E i \in is : owners[i] = c THEN "failed" ELSE client[c]]
      /\ UNCHANGED <<toStop, toRestartAll, owners, watchParams>>
  BY DEF RejectAll
<1>2. Given' = Given /\ (\A i : IsLast(i)' <=> IsLast(i)) /\ (\A i : IsFirst(i)' <=> IsFirst(i))
  BY <1>1 DEF Given, IsLast, IsFirst
<1>3. pending' \cup rejected' = pending \cup rejected /\ pending' \cap rejected' = {}
  BY <1>1 DEF ChainInv
<1>4. \A i \in Given : owners[i] \in Clients
  BY GivenTypes
<1>5. watchParams \subseteq Given /\ pending \subseteq watchParams
  BY DEF GivenInv
<1>6. \A c \in Clients : /\ client[c] # "idle" => client'[c] # "idle"
                         /\ client[c] # "asking" => client'[c] = client[c]
                         /\ (\A i \in is : owners[i] # c) => client'[c] = client[c]
  BY <1>1
<1>7. \A i \in pending' : client'[owners[i]] = "asking" \/ ~IsFirst(i)'
  <2> TAKE i \in pending'
  <2>1. i \in pending \ is /\ i \in Given /\ owners[i] \in Clients
    BY <1>1, <1>4, <1>5
  <2>2. \A k \in is : owners[k] # owners[i]
    <3> SUFFICES ASSUME NEW k \in is, owners[k] = owners[i] PROVE FALSE
      OBVIOUS
    <3>1. k \in pending /\ k \in Given
      BY <1>5
    <3>2. IsLast(k) /\ IsLast(i)
      BY <2>1, <3>1, <1>5 DEF ChainInv
    <3>3. k = i
      BY <2>1, <3>1, <3>2, SameLast
    <3> QED BY <3>3, <2>1
  <2>3. client'[owners[i]] = client[owners[i]]
    BY <2>1, <2>2, <1>6
  <2> QED BY <2>1, <2>3, <1>2 DEF ChainInv
<1>8. \A n \in DOMAIN toRestartAll : IsLast(toRestartAll[n])' /\ toRestartAll[n] \notin pending' \cup rejected'
  <2> TAKE n \in DOMAIN toRestartAll
  <2>1. PICK i : i = toRestartAll[n]
    OBVIOUS
  <2>2. IsLast(i)' /\ i \notin pending' \cup rejected'
    BY <2>1, <1>2, <1>3 DEF ChainInv
  <2> QED BY <2>1, <2>2, <1>1
<1>9. \A i \in Given : client'[owners[i]] # "idle"
  BY <1>4, <1>6 DEF ChainInv
<1>10. ChainInv'
  <2>1. /\ \A m, n \in DOMAIN toRestartAll : toRestartAll[m] = toRestartAll[n] => m = n
        /\ \A i \in watchParams : IsLast(i)'
        /\ \A c \in Clients : toStop[c] # 0 =>
             (\E n \in DOMAIN toRestartAll : toRestartAll[n] = toStop[c]) /\ owners[toStop[c]] = c
    BY <1>2 DEF ChainInv
  <2> QED BY <2>1, <1>1, <1>2, <1>3, <1>7, <1>8, <1>9 DEF ChainInv
<1>11. OrphansExplained'
  <2>1. ASSUME NEW i \in watchParams \ (pending' \cup rejected')
        PROVE  \/ toStop[owners[i]] = i
               \/ client'[owners[i]] = "stopped" /\ \E j \in 1..i - 1 : owners[j] = owners[i]
    <3>1. i \in watchParams \ (pending \cup rejected) /\ owners[i] \in Clients
      BY <2>1, <1>3, <1>4, <1>5
    <3>2. \/ toStop[owners[i]] = i
          \/ client[owners[i]] = "stopped" /\ \E j \in 1..i - 1 : owners[j] = owners[i]
      BY <3>1 DEF OrphansExplained
    <3> QED BY <3>1, <3>2, <1>6
  <2> QED BY <2>1, <1>1 DEF OrphansExplained
<1> QED BY <1>10, <1>11 DEF ChainsKept

\* The promise of a watch is resolved: its disposable is pushed, or disposed at once.
LEMMA WatchedChains ==
  ASSUME TypeInv, GivenInv, ChainInv, OrphansExplained, NEW i \in pending,
         pending' = pending \ {i},
         client' = [client EXCEPT ![owners[i]] = IF @ = "asking" THEN "watching" ELSE @],
         toStop' = [toStop EXCEPT ![owners[i]] = IF client[owners[i]] = "stopped" THEN 0 ELSE i],
         toRestartAll' = Append(toRestartAll, i),
         UNCHANGED <<owners, watchParams, rejected>>
  PROVE  ChainsKept
<1>1. watchParams \subseteq Given /\ pending \subseteq watchParams
  BY DEF GivenInv
<1>2. /\ i \in Given /\ IsLast(i) /\ i \notin rejected /\ i \in Ids
      /\ client[owners[i]] = "asking" \/ ~IsFirst(i)
  <2>1. i \in Ids
    BY <1>1, Bounds DEF Given, Ids, TypeInv, ServiceTypes
  <2> QED BY <2>1, <1>1 DEF ChainInv
<1>3. PICK c \in Clients : c = owners[i]
  BY <1>2, GivenTypes
<1>4. \A d \in Clients : client'[d] = IF d = c /\ client[d] = "asking" THEN "watching" ELSE client[d]
  BY <1>3 DEF TypeInv, UserTypes
<1>5. \A d \in Clients : toStop'[d] = IF d = c THEN IF client[c] = "stopped" THEN 0 ELSE i ELSE toStop[d]
  BY <1>3 DEF TypeInv, UserTypes
<1>6. /\ \A n \in DOMAIN toRestartAll : n \in DOMAIN toRestartAll' /\ toRestartAll'[n] = toRestartAll[n]
      /\ Len(toRestartAll) + 1 \in DOMAIN toRestartAll' /\ toRestartAll'[Len(toRestartAll) + 1] = i
      /\ \A n \in DOMAIN toRestartAll' : n \in DOMAIN toRestartAll \/ n = Len(toRestartAll) + 1
  <2>1. toRestartAll \in Seq(Ids)
    BY DEF TypeInv, UserTypes
  <2> QED BY <2>1, <1>2, Appended
<1>7. Given' = Given /\ (\A k : IsLast(k)' <=> IsLast(k)) /\ (\A k : IsFirst(k)' <=> IsFirst(k))
  BY DEF Given, IsLast, IsFirst
<1>8. \A k \in Given : owners[k] \in Clients
  BY GivenTypes
<1>9. \A k \in watchParams : k # i => owners[k] # c
  <2> SUFFICES ASSUME NEW k \in watchParams, k # i, owners[k] = c PROVE FALSE
    OBVIOUS
  <2>1. IsLast(k) /\ k \in Given /\ owners[k] = owners[i]
    BY <1>1, <1>3 DEF ChainInv
  <2> QED BY <2>1, <1>2, SameLast
<1>10. \A n \in DOMAIN toRestartAll :
         /\ IsLast(toRestartAll[n]) /\ toRestartAll[n] # i
         /\ toRestartAll[n] \notin pending' \cup rejected
  BY DEF ChainInv
<1>11. \A n \in DOMAIN toRestartAll' : IsLast(toRestartAll'[n]) /\ toRestartAll'[n] \notin pending' \cup rejected
  <2> TAKE n \in DOMAIN toRestartAll'
  <2>1. CASE n \in DOMAIN toRestartAll
    BY <2>1, <1>6, <1>10
  <2>2. CASE n = Len(toRestartAll) + 1
    BY <2>2, <1>2, <1>6
  <2> QED BY <2>1, <2>2, <1>6
<1>12. \A n \in DOMAIN toRestartAll' : IsLast(toRestartAll[n])'
  <2> TAKE n \in DOMAIN toRestartAll'
  <2>1. PICK k : k = toRestartAll'[n]
    OBVIOUS
  <2>2. IsLast(k)'
    BY <2>1, <1>7, <1>11
  <2> QED BY <2>1, <2>2
<1>13. \A m, n \in DOMAIN toRestartAll' : toRestartAll'[m] = toRestartAll'[n] => m = n
  <2> SUFFICES ASSUME NEW m \in DOMAIN toRestartAll', NEW n \in DOMAIN toRestartAll',
                      toRestartAll'[m] = toRestartAll'[n]
               PROVE  m = n
    OBVIOUS
  <2>1. CASE toRestartAll'[m] = i
    BY <2>1, <1>6, <1>10
  <2>2. CASE toRestartAll'[m] # i
    BY <2>2, <1>6 DEF ChainInv
  <2> QED BY <2>1, <2>2
<1>14. \A k \in Given : client'[owners[k]] # "idle"
  BY <1>4, <1>8 DEF ChainInv
<1>15. \A k \in pending' : client'[owners[k]] = "asking" \/ ~IsFirst(k)'
  <2> TAKE k \in pending'
  <2>1. k \in pending /\ k \in Given /\ owners[k] \in Clients /\ owners[k] # c
    BY <1>1, <1>8, <1>9
  <2> QED BY <2>1, <1>4, <1>7 DEF ChainInv
<1>16. \A d \in Clients : toStop'[d] # 0 =>
         (\E n \in DOMAIN toRestartAll' : toRestartAll'[n] = toStop'[d]) /\ owners[toStop'[d]] = d
  <2> TAKE d \in Clients
  <2>1. CASE d = c
    BY <2>1, <1>3, <1>5, <1>6
  <2>2. CASE d # c
    BY <2>2, <1>5, <1>6 DEF ChainInv
  <2> QED BY <2>1, <2>2
<1>17. ChainInv'
  <2>1. (\A k \in watchParams : IsLast(k)') /\ pending' \cap rejected = {}
    BY <1>7 DEF ChainInv
  <2> QED BY <2>1, <1>7, <1>11, <1>12, <1>13, <1>14, <1>15, <1>16 DEF ChainInv
<1>18. OrphansExplained'
  <2>1. ASSUME NEW k \in watchParams \ (pending' \cup rejected)
        PROVE  \/ toStop'[owners[k]] = k
               \/ client'[owners[k]] = "stopped" /\ \E j \in 1..k - 1 : owners[j] = owners[k]
    <3>1. CASE k = i
      <4>1. CASE client[c] = "stopped"
        <5>1. ~IsFirst(i)
          BY <4>1, <1>2, <1>3
        <5>2. \E j \in 1..i - 1 : owners[j] = owners[i]
          BY <5>1, <1>2, GivenTypes
        <5>3. client'[c] = "stopped"
          BY <4>1, <1>4
        <5> QED BY <3>1, <5>2, <5>3, <1>3
      <4>2. CASE client[c] # "stopped"
        BY <3>1, <4>2, <1>3, <1>5
      <4> QED BY <4>1, <4>2
    <3>2. CASE k # i
      <4>1. k \in watchParams \ (pending \cup rejected) /\ owners[k] \in Clients /\ owners[k] # c
        BY <3>2, <2>1, <1>1, <1>8, <1>9
      <4>2. \/ toStop[owners[k]] = k
            \/ client[owners[k]] = "stopped" /\ \E j \in 1..k - 1 : owners[j] = owners[k]
        BY <4>1 DEF OrphansExplained
      <4> QED BY <4>1, <4>2, <1>4, <1>5
    <3> QED BY <3>1, <3>2
  <2> QED BY <2>1 DEF OrphansExplained
<1> QED BY <1>17, <1>18 DEF ChainsKept

LEMMA SameChains ==
  ASSUME ChainInv, OrphansExplained,
         UNCHANGED <<client, toStop, toRestartAll, owners, watchParams, pending, rejected>>
  PROVE  ChainsKept
BY DEF ChainInv, OrphansExplained, ChainsKept, IsLast, IsFirst, Given

LEMMA NextChains ==
  ASSUME TypeInv, GivenInv, FirstInv, ChainInv, OrphansExplained, [Next]_vars
  PROVE  ChainsKept
<1>1. ASSUME NEW c \in Clients, Watch(c) \/ Dispose(c) \/ CreateFile(c)
      PROVE  ChainsKept
  <2>1. CASE CreateFile(c)
    BY <2>1, SameChains DEF CreateFile, clientVars
  <2> QED BY <1>1, <2>1, WatchChains, DisposeChains
<1>2. CASE Close
  <2>1. RejectAll(pending)
    BY <1>2 DEF Close
  <2> QED BY <2>1, RejectChains
<1>3. CASE ReceiveWatched
  <2>1. PICK i \in Ids, f \in BOOLEAN, r \in Nat :
           /\ down # <<>> /\ down[1].kind = "watched" /\ down[1].id = i /\ down[1].first = f /\ down[1].remote = r
           /\ down' = Tail(down)
           /\ localToRemote' = [localToRemote EXCEPT ![i] = r]
           /\ f => /\ pending' = pending \ {i}
                   /\ client' = [client EXCEPT ![owners[i]] = IF @ = "asking" THEN "watching" ELSE @]
                   /\ toStop' = [toStop EXCEPT ![owners[i]] = IF client[owners[i]] = "stopped" THEN 0 ELSE i]
                   /\ toRestartAll' = Append(toRestartAll, i)
           /\ ~f => UNCHANGED <<pending, client, toStop, toRestartAll>>
           /\ UNCHANGED <<owners, watchParams, told, rejected, session, connected, waiting, up,
                          serverVars, fileVars>>
    BY <1>3, ReceiveWatchedIs
  <2>2. CASE f
    <3>1. 1 \in Firsts(down)
      BY <2>1, <2>2, HeadMessage DEF Firsts
    <3>2. i \in pending
      BY <2>1, <3>1 DEF FirstInv, AllIn
    <3> QED BY <2>1, <2>2, <3>2, WatchedChains
  <2>3. CASE ~f
    BY <2>1, <2>3, SameChains
  <2> QED BY <2>2, <2>3
<1>4. CASE ReceiveRefused
  <2>1. /\ down # <<>> /\ down[1].kind = "refused"
        /\ RejectAll(IF down[1].first THEN {down[1].id} ELSE {})
    BY <1>4, ReceiveRefusedIs
  <2>2. down[1].first => down[1].id \in pending
    <3>1. down[1].first => 1 \in Firsts(down)
      BY <2>1, HeadMessage DEF Firsts
    <3> QED BY <3>1 DEF FirstInv, AllIn
  <2>3. PICK is : is = IF down[1].first THEN {down[1].id} ELSE {}
    OBVIOUS
  <2>4. is \in SUBSET pending /\ RejectAll(is)
    BY <2>1, <2>2, <2>3
  <2> QED BY <2>4, RejectChains
<1>5. CASE ReceiveChanged
  BY <1>5, SameChains DEF ReceiveChanged
<1>6. CASE Connect \/ FireDidFilesChanged \/ Serves
  BY <1>6, SameChains DEF Connect, FireDidFilesChanged, Serves, ServeWatch, ServeUnwatch, Respond, clientVars
<1>7. CASE \E r \in DOMAIN watchers : Started(r) \/ StartFails(r) \/ Poll(r) \/ Notice(r)
  BY <1>7, SameChains DEF Started, StartFails, Poll, Notice, Respond, clientVars
<1>8. CASE UNCHANGED vars
  BY <1>8, SameChains DEF vars, clientVars
<1> QED BY <1>1, <1>2, <1>3, <1>4, <1>5, <1>6, <1>7, <1>8, PreferenceChains DEF Next, Receives

-----------------------------------------------------------------------------
(* The inductive invariant.                                                  *)

LEMMA InitInv == Init => IInv
<1> SUFFICES ASSUME Init PROVE IInv
  OBVIOUS
<1>1. TypeInv
  BY InitTypes
<1>2. /\ waiting = <<>> /\ up = <<>> /\ down = <<>> /\ watchers = <<>> /\ owners = <<>> /\ toRestartAll = <<>>
      /\ watchParams = {} /\ pending = {} /\ rejected = {} /\ robbed = {} /\ session = 0 /\ connected = FALSE
      /\ changes = Nowhere /\ told = Nowhere /\ noticed = Nowhere /\ toStop = Nowhere
      /\ localToRemote = [i \in Ids |-> 0]
  BY DEF Init
<1>3. /\ DOMAIN waiting = {} /\ DOMAIN up = {} /\ DOMAIN down = {} /\ DOMAIN watchers = {}
      /\ DOMAIN toRestartAll = {} /\ Given = {}
  BY <1>2 DEF Given
<1>4. \A c \in Clients : Nowhere[c] = 0
  BY DEF Nowhere
<1>5. ~connected
  BY <1>2
<1>6. ConnectionInv
  BY <1>2, <1>5 DEF ConnectionInv
<1>7. GivenInv /\ WantedInv
  BY <1>2, <1>3, <1>5 DEF GivenInv, WantedInv, Unwanted
<1>8. NoticedInv
  BY <1>2, <1>3, <1>4 DEF NoticedInv
<1>9. MappedInv
  BY <1>2, <1>3, <1>5 DEF MappedInv, IdsAgree
<1>10. FirstInv
  <2>1. Firsts(waiting) = {} /\ Firsts(up) = {} /\ Firsts(down) = {} /\ Starting(watchers) = {}
    BY <1>3 DEF Firsts, Starting
  <2> QED BY <2>1 DEF FirstInv, AllIn, Once, Apart
<1>11. ChainInv /\ OrphansExplained
  BY <1>2, <1>3, <1>4 DEF ChainInv, OrphansExplained
<1> QED BY <1>1, <1>6, <1>7, <1>8, <1>9, <1>10, <1>11 DEF IInv

LEMMA NextInv == IInv /\ [Next]_vars => IInv'
BY NextTypes, NextConnection, NextGiven, NextNoticed, NextMapped, NextWanted, NextFirst, NextChains
   DEF IInv, ChainsKept

LEMMA Inductive == Spec => []IInv
BY InitInv, NextInv, PTL DEF Spec

\* What the types of the properties are is a part of the invariant.
LEMMA InvTypes == IInv => TypeOK
<1> SUFFICES ASSUME IInv PROVE TypeOK
  OBVIOUS
<1>1. /\ client \in [Clients -> {"idle", "asking", "watching", "stopped", "failed"}]
      /\ toStop \in [Clients -> Ids \cup {0}]
      /\ toRestartAll \in Seq(Ids)
      /\ owners \in Seq(Clients) /\ Len(owners) <= MaxWatches
      /\ localToRemote \in [Ids -> Nat]
      /\ session \in 0..MaxSessions /\ connected \in BOOLEAN
      /\ exists \subseteq Clients /\ noticed \in [Clients -> Nat]
  BY DEF IInv, TypeInv, UserTypes, ServiceTypes
<1>2. watchParams \subseteq 1..Len(owners) /\ pending \subseteq watchParams /\ rejected \subseteq watchParams
      /\ robbed \subseteq 1..Len(owners)
  BY DEF IInv, GivenInv, Given
<1>3. (connected => waiting = <<>>) /\ (~connected => up = <<>> /\ down = <<>> /\ watchers = <<>> /\ changes = Nowhere)
  BY DEF IInv, ConnectionInv
<1>4. ASSUME NEW r \in DOMAIN watchers
      PROVE  /\ watchers[r].id \in 1..Len(owners) /\ watchers[r].first \in BOOLEAN
             /\ watchers[r].status \in {"starting", "polling", "found", "running", "stopped", "failed"}
  <2>1. watchers[r].id \in 1..Len(owners)
    BY <1>4 DEF IInv, GivenInv, Given
  <2>2. watchers[r] \in Watcher
    BY <1>4, WatcherTypes DEF IInv
  <2> QED BY <2>1, <2>2 DEF Watcher, Status
<1>5. \A c \in Clients : changes[c] \in 0..noticed[c] /\ told[c] \in 0..noticed[c]
  BY DEF IInv, NoticedInv, TypeInv, ServiceTypes
<1> QED BY <1>1, <1>2, <1>3, <1>4, <1>5 DEF TypeOK

LEMMA InvWanted == IInv => WantedIsWatched
BY DEF IInv, WantedInv, WantedIsWatched, Asked

-----------------------------------------------------------------------------
\* Whatever the clients ask for, whenever the connection closes and opens, local ids stay within the
\* ids given, promises are pending only for what is watched, and nobody is told of a change that no
\* watcher has noticed (FileSystemWatcher, ReconnectingFileSystemWatcherServer).
THEOREM TypeCorrect == Spec => []TypeOK
BY Inductive, InvTypes, PTL

\* A local id is never mapped to the watcher of another id on the current server, however many
\* servers have numbered their watchers anew: only its own requests of this connection, still on
\* their way or refused by nsfw, explain an id that is not (ReconnectingFileSystemWatcherServer).
THEOREM RemoteIdsAgree == Spec => []IdsAgree
<1>1. IInv => IdsAgree
  BY DEF IInv, MappedInv
<1> QED BY <1>1, Inductive, PTL

\* After any number of reconnects every id in watchParams is asked for or has a watcher that is not
\* stopped, but for those that the unwatch of another id has robbed (reconnect, unwatchFileChanges).
THEOREM WantedAreWatched == Spec => []WantedIsWatched
BY Inductive, InvWanted, PTL

\* A settled watch that its client cannot stop any more is one that was restarted after the client had
\* disposed of it, never one that a client still holds (FileSystemWatcher.start and its toRestartAll).
THEOREM OrphansAreExplained == Spec => []OrphansExplained
<1>1. IInv => OrphansExplained
  BY DEF IInv
<1> QED BY <1>1, Inductive, PTL
=============================================================================
