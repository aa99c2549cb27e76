-------------------------- MODULE CredentialsCache --------------------------
(***************************************************************************)
(* CredentialsCache (src/service/credentialscache.cpp): the credentials of *)
(* the peers, asked from the bus daemon once and kept in two generations.  *)
(* Callers are handlers; the callback of one may call get() for another    *)
(* before it returns (Handler::gotCredentials, requestFinished, begin).    *)
(***************************************************************************)
EXTENDS Integers, Sequences, FiniteSets, Functions

CONSTANTS Callers,        \* handlers that may wait for credentials
          Peers,          \* unique bus names
          MaxCacheSize,   \* MAX_CACHE_SIZE
          None            \* neither a peer nor credentials

ASSUME MaxCacheSizeAssumption == MaxCacheSize \in Nat \ {0}
ASSUME NoneAssumption == None \notin Peers \cup {"valid", "invalid"}

VARIABLES cache,      \* cache_, None for an absent peer
          oldCache,   \* old_cache_
          pending,    \* pending_: per peer the callbacks of its Request
          notifying,  \* the peer whose callbacks are being called, or None
          next,       \* the next of them
          received,   \* what the bus daemon last answered for each peer
          answer      \* the last peer each caller asked for and the answer
                      \* it got, None while it waits

cacheVars == <<cache, oldCache>>
credentialsVars == <<cache, oldCache, pending, notifying, next, received, answer>>

Credentials == {"valid", "invalid"}
Cached(c) == {p \in Peers : c[p] # None}
InCall(c) == \E p \in Peers : c \in Range(pending[p])

CredentialsInit ==
    /\ cache = [p \in Peers |-> None]
    /\ oldCache = [p \in Peers |-> None]
    /\ pending = [p \in Peers |-> <<>>]
    /\ notifying = None
    /\ next = 1
    /\ received = [p \in Peers |-> None]
    /\ answer = [c \in Callers |-> <<None, None>>]
-----------------------------------------------------------------------------
(* get(): the four cases in their order. *)

callback(c, p, v) == answer' = [answer EXCEPT ![c] = <<p, v>>]

getCached(c, p) ==
    /\ cache[p] # None
    /\ callback(c, p, cache[p])
    /\ UNCHANGED <<cache, oldCache, pending>>

(* Mutant: the entry is moved without its value. *)
getOld_Empty(c, p) ==
    /\ cache[p] = None /\ oldCache[p] # None
    /\ cache' = [cache EXCEPT ![p] = "invalid"]
    /\ oldCache' = [oldCache EXCEPT ![p] = None]
    /\ callback(c, p, "invalid")
    /\ UNCHANGED pending

getOld(c, p) ==
    /\ cache[p] = None /\ oldCache[p] # None
    /\ cache' = [cache EXCEPT ![p] = oldCache[p]]
    /\ oldCache' = [oldCache EXCEPT ![p] = None]
    /\ callback(c, p, oldCache[p])
    /\ UNCHANGED pending

(* Joins the callbacks of the bus call that is under way, or makes one. *)
getPending(c, p) ==
    /\ cache[p] = None /\ oldCache[p] = None
    /\ pending' = [pending EXCEPT ![p] = Append(@, c)]
    /\ callback(c, p, None)
    /\ UNCHANGED cacheVars

get(c, p) ==
    /\ ~InCall(c)
    /\ getCached(c, p) \/ getOld(c, p) \/ getPending(c, p)
    /\ UNCHANGED <<notifying, next, received>>
-----------------------------------------------------------------------------
(* received_credentials() *)

(* Mutant: the new entry is written when the callbacks have been called. *)
store_Late(p, v) == UNCHANGED cacheVars

store(p, v) ==
    LET full == Cardinality(Cached(cache)) >= MaxCacheSize IN
    /\ oldCache' = IF full THEN cache ELSE oldCache
    /\ cache' = [q \in Peers |-> IF q = p THEN v
                                 ELSE IF full THEN None ELSE cache[q]]

received_credentials(p, v) ==
    /\ notifying = None
    /\ pending[p] # <<>>
    /\ received' = [received EXCEPT ![p] = v]
    /\ store(p, v)
    /\ notifying' = p
    /\ next' = 1
    /\ UNCHANGED <<pending, answer>>

(* Mutant: only the first callback is called. *)
notify_First ==
    /\ notifying # None
    /\ next <= Len(pending[notifying])
    /\ next' = next + 1
    /\ IF next = 1 THEN callback(pending[notifying][next], notifying,
                                received[notifying])
       ELSE UNCHANGED answer
    /\ UNCHANGED <<cache, oldCache, pending, notifying, received>>

(* One iteration of the loop over the callbacks. *)
notify ==
    /\ notifying # None
    /\ next <= Len(pending[notifying])
    /\ callback(pending[notifying][next], notifying, received[notifying])
    /\ next' = next + 1
    /\ UNCHANGED <<cache, oldCache, pending, notifying, received>>

notified ==
    /\ notifying # None
    /\ next > Len(pending[notifying])
    /\ pending' = [pending EXCEPT ![notifying] = <<>>]
    /\ notifying' = None
    /\ next' = 1
    /\ UNCHANGED <<cache, oldCache, received, answer>>
-----------------------------------------------------------------------------
Reply(p) == \E v \in Credentials : received_credentials(p, v)

CredentialsNext ==
    \/ \E c \in Callers, p \in Peers : get(c, p)
    \/ \E p \in Peers : Reply(p)
    \/ notify \/ notified

(* The bus daemon answers, or the call fails by its timeout. *)
Fairness ==
    /\ \A p \in Peers : WF_credentialsVars(Reply(p))
    /\ WF_credentialsVars(notify) /\ WF_credentialsVars(notified)

CredentialsSpec == CredentialsInit /\ [][CredentialsNext]_credentialsVars
FairCredentialsSpec == CredentialsSpec /\ Fairness
-----------------------------------------------------------------------------
(* Every variable has its type; the loop stays within the callbacks.       *)
CredentialsTypeOK ==
    /\ cache \in [Peers -> Credentials \cup {None}]
    /\ oldCache \in [Peers -> Credentials \cup {None}]
    /\ pending \in [Peers -> Seq(Callers)]
    /\ notifying \in Peers \cup {None}
    /\ next \in 1..(Cardinality(Callers) + 1)
    /\ received \in [Peers -> Credentials \cup {None}]
    /\ answer \in [Callers -> (Peers \cup {None}) \X (Credentials \cup {None})]

(* Whatever moved between the generations, a caller is told what the bus   *)
(* daemon last said of the peer it asked about (credentialscache.cpp:71,   *)
(* 88-90, 172-177).                                                        *)
AnswersAreGenuine ==
    [][\A c \in Callers :
          answer'[c] # answer[c] =>
             answer'[c][2] \in {None, received'[answer'[c][1]]}]_credentialsVars

(* The loop over the callbacks is not disturbed by the calls of get() that *)
(* they make: the vector does not change under the iterator, since the     *)
(* entry is cached before the loop (credentialscache.cpp:172-178).         *)
LoopUndisturbed ==
    [][\A p \in Peers :
          (notifying = p /\ notifying' = p) => pending'[p] = pending[p]]_credentialsVars

(* Every caller is answered, the ones included that joined a call under    *)
(* way (credentialscache.cpp:99-105, 174-178).                             *)
EveryCallerAnswered ==
    \A c \in Callers : InCall(c) ~> answer[c][2] # None
=============================================================================
