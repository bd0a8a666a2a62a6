------------------------- MODULE ReferenceCollection -------------------------
(***************************************************************************)
(* ReferenceCollection (core/common/reference.ts): the clients that want   *)
(* the same key share one value, which an asynchronous factory creates and *)
(* which is disposed with its last reference.  The text models of the      *)
(* editors and the watchers of git repositories are shared like this.      *)
(*                                                                         *)
(* Keys do not interact, and this is one of them.  A value is named after  *)
(* the acquire whose factory call it came from, a DisposableCollection     *)
(* after the acquire that created it.                                      *)
(***************************************************************************)
EXTENDS Naturals, FiniteSets

CONSTANTS
  Acquires,  \* calls of acquire with the key
  None

ASSUME AcquiresAssumption == None \notin Acquires

VARIABLES
  state,       \* acquire -> "idle", "waiting", "held" (its reference), "disposed", "failed"
  object,      \* acquire -> the value whose promise it waits for, then holds
  creation,    \* acquire -> "none", or its factory call: "pending", "done", "rejected"
  current,     \* _values.get(key)
  pending,     \* pendingValues.get(key)
  references,  \* references.get(key)
  collection,  \* acquire -> the DisposableCollection its reference was pushed to
  dead         \* the values that were disposed

referencesVars == <<state, object, creation, current, pending, references, collection, dead>>

ReferencesInit ==
  /\ state = [r \in Acquires |-> "idle"]
  /\ object = [r \in Acquires |-> None]
  /\ creation = [r \in Acquires |-> "none"]
  /\ current = None
  /\ pending = None
  /\ references = None
  /\ collection = [r \in Acquires |-> None]
  /\ dead = {}

-----------------------------------------------------------------------------
\* The references in collection c that are not disposed.
Members(c) == {r \in Acquires : state[r] = "held" /\ collection[r] = c}

\* Mutant: the promises of the values that are being created are forgotten.
AcquireAlwaysCreates(r) ==
  /\ state[r] = "idle"
  /\ state' = [state EXCEPT ![r] = "waiting"]
  /\ IF current # None
     THEN object' = [object EXCEPT ![r] = current] /\ UNCHANGED <<creation, pending>>
     ELSE /\ object' = [object EXCEPT ![r] = r]
          /\ creation' = [creation EXCEPT ![r] = "pending"]
          /\ pending' = r
  /\ UNCHANGED <<current, references, collection, dead>>

\* acquire: wait for the value, or for the one that is being created, or create one.
Acquire(r) ==
  /\ state[r] = "idle"
  /\ state' = [state EXCEPT ![r] = "waiting"]
  /\ IF current # None \/ pending # None
     THEN /\ object' = [object EXCEPT ![r] = IF current # None THEN current ELSE pending]
          /\ UNCHANGED <<creation, pending>>
     ELSE /\ object' = [object EXCEPT ![r] = r]
          /\ creation' = [creation EXCEPT ![r] = "pending"]
          /\ pending' = r
  /\ UNCHANGED <<current, references, collection, dead>>

\* Mutant: the promise of the value stays in pendingValues.
FactoryReturnsKeepsPending(v) ==
  /\ creation[v] = "pending"
  /\ creation' = [creation EXCEPT ![v] = "done"]
  /\ current' = v
  /\ UNCHANGED <<state, object, pending, references, collection, dead>>

\* getOrCreateValue goes on: the factory's promise is resolved, or rejected.
FactoryReturns(v) ==
  /\ creation[v] = "pending"
  /\ creation' = [creation EXCEPT ![v] = "done"]
  /\ current' = v
  /\ pending' = None
  /\ UNCHANGED <<state, object, references, collection, dead>>

FactoryFails(v) ==
  /\ creation[v] = "pending"
  /\ creation' = [creation EXCEPT ![v] = "rejected"]
  /\ pending' = None
  /\ UNCHANGED <<state, object, current, references, collection, dead>>

\* Mutant: every reference gets a collection of its own.
ReceiveAlone(r) ==
  /\ state[r] = "waiting"
  /\ creation[object[r]] = "done"
  /\ state' = [state EXCEPT ![r] = "held"]
  /\ references' = r
  /\ collection' = [collection EXCEPT ![r] = r]
  /\ UNCHANGED <<object, creation, current, pending, dead>>

\* acquire goes on: its reference is pushed to the key's collection; createReferences makes
\* one that disposes this value when it becomes empty.
Receive(r) ==
  LET c == IF references # None THEN references ELSE r
  IN  /\ state[r] = "waiting"
      /\ creation[object[r]] = "done"
      /\ state' = [state EXCEPT ![r] = "held"]
      /\ references' = c
      /\ collection' = [collection EXCEPT ![r] = c]
      /\ UNCHANGED <<object, creation, current, pending, dead>>

Reject(r) ==
  /\ state[r] = "waiting"
  /\ creation[object[r]] = "rejected"
  /\ state' = [state EXCEPT ![r] = "failed"]
  /\ UNCHANGED <<object, creation, current, pending, references, collection, dead>>

\* Mutant: disposing a value leaves it in _values.
DisposeKeepsValue(r) ==
  /\ state[r] = "held"
  /\ state' = [state EXCEPT ![r] = "disposed"]
  /\ IF Members(collection[r]) = {r}
     THEN /\ dead' = dead \cup {object[collection[r]]}
          /\ references' = None
     ELSE UNCHANGED <<dead, references>>
  /\ UNCHANGED <<object, creation, current, pending, collection>>

\* A reference is disposed; with the last of its collection, the value that the collection
\* was created for is, and what the maps have for the key is deleted.
Dispose(r) ==
  /\ state[r] = "held"
  /\ state' = [state EXCEPT ![r] = "disposed"]
  /\ IF Members(collection[r]) = {r}
     THEN /\ dead' = dead \cup {object[collection[r]]}
          /\ current' = None
          /\ references' = None
     ELSE UNCHANGED <<dead, current, references>>
  /\ UNCHANGED <<object, creation, pending, collection>>

ReferencesNext ==
  \E r \in Acquires :
    \/ Acquire(r) \/ Receive(r) \/ Reject(r) \/ Dispose(r)
    \/ FactoryReturns(r) \/ FactoryFails(r)

ReferencesSpec == ReferencesInit /\ [][ReferencesNext]_referencesVars

-----------------------------------------------------------------------------
(* Properties. *)

ReferencesTypeOK ==
  /\ state \in [Acquires -> {"idle", "waiting", "held", "disposed", "failed"}]
  /\ object \in [Acquires -> Acquires \cup {None}]
  /\ creation \in [Acquires -> {"none", "pending", "done", "rejected"}]
  /\ current \in Acquires \cup {None}
  /\ pending \in Acquires \cup {None}
  /\ references \in Acquires \cup {None}
  /\ collection \in [Acquires -> Acquires \cup {None}]
  /\ dead \subseteq Acquires
  /\ pending # None => creation[pending] = "pending"

\* However many acquires come together, the factory is called for one at a time, and not
\* while there is a value.
OneCreation ==
  \A v, w \in Acquires :
    creation[v] = "pending" => current = None /\ (creation[w] = "pending" => v = w)

\* What the maps have for the key is in use: the value is not disposed, so that an acquire
\* does not start with a dead value, and has(key) is true only while somebody holds a
\* reference.
EntryIsLive ==
  /\ current # None => current \notin dead
  /\ references # None => Members(references) # {}

\* Disposing a reference disposes no value that somebody still holds a reference to (even
\* when the collection of the key was created for another value, see SameObject).
LastReferenceDisposes ==
  [][\A r \in Acquires :
       state'[r] = "held" /\ object[r] \in dead' => object[r] \in dead \/ state[r] # "held"]_referencesVars

\* "the same object should be provided by an async factory for the same key"
\* (core/common/reference.spec.ts:106): those who hold references to the key at the same
\* time hold the same object.
SameObject ==
  \A r, s \in Acquires : state[r] = "held" /\ state[s] = "held" => object[r] = object[s]
=============================================================================
