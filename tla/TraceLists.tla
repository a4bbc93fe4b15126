------------------------------ MODULE TraceLists ------------------------------
(***************************************************************************)
(* The spans and metrics of a trace while it is collected: StoreTrace,     *)
(* StoreMetric, GetTraces, GetMetrics and their expiry, in the memory of   *)
(* the receiver (local_cache.go) or in Redis (redis_api.go,                *)
(* redis_client.go).  In memory a trace has one list object for both,      *)
(* found or created by a look-up and put into the map in a later step; a   *)
(* goroutine sweeps lists whose time has come.  Redis, which is external,  *)
(* has a key for each, which RPUSH creates and a later EXPIRE gives a time *)
(* to live; a key whose time has come is gone.                             *)
(***************************************************************************)
EXTENDS Naturals, Sequences

CONSTANTS Callers,       \* concurrent calls
          ExpireTime,    \* cacheTime, in seconds
          MaxStores,     \* bound on the stored items; item n is the n-th
          MaxTime        \* bound: the clock stops here

VARIABLES local,         \* IsLocal()
          now,           \* time.Now().Unix()
          lists,         \* the ExpirableLists made: expireTime, and the items per kind
          traceMap,      \* the list of the trace, 0 if none
          keys,          \* external: per kind, its items and expiry, Never if it has none
          storing,          \* per caller: StoreTrace, StoreMetric
          sweep,         \* checkExpire: the time it took and the list it found expired
          stored,        \* history: per item, its kind, list and when it was stored
          raced,         \* history: lists and keys that were replaced or removed in use
          calls          \* history: how many items there are

vars == <<local, now, lists, traceMap, keys, storing, sweep, stored, raced, calls>>

Kinds == {"trace", "metric"}
Never == MaxTime + ExpireTime + 1
Idle == [pc |-> "idle"]
NoKey == [items |-> <<>>, expire |-> Never]

Init == /\ local \in BOOLEAN /\ now = 1
        /\ lists = <<>> /\ traceMap = 0 /\ keys = [k \in Kinds |-> NoKey]
        /\ storing = [c \in Callers |-> Idle]
        /\ sweep = Idle
        /\ stored = <<>> /\ raced = {} /\ calls = 0

\* GetTraces, GetMetrics (and their sizes)
Items(kind) == IF ~local THEN keys[kind].items
               ELSE IF traceMap = 0 THEN <<>> ELSE lists[traceMap].items[kind]

Busy(place) == \E c \in Callers : storing[c].pc # "idle" /\ storing[c].place = place

\* No call stays in between for long: not while the clock ticks twice.  Redis drops
\* keys as time passes.
Clock ==
  /\ now < MaxTime
  /\ \A c \in Callers : storing[c].pc # "idle" => storing[c].since = now
  /\ now' = now + 1
  /\ keys' = [k \in Kinds |-> IF keys[k].expire <= now' THEN NoKey ELSE keys[k]]
  /\ raced' = raced \cup {k \in Kinds : keys[k].expire <= now' /\ Busy(k)}
  /\ UNCHANGED <<local, lists, traceMap, storing, sweep, stored, calls>>

-----------------------------------------------------------------------------
(* LocalCache.StoreTrace, StoreMetric                                      *)

\* Both look the list up, or make one.
Load(c, kind) ==
  /\ local /\ storing[c].pc = "idle" /\ calls < MaxStores
  /\ calls' = calls + 1
  /\ stored' = Append(stored, [kind |-> kind, place |-> 0, at |-> 0])
  /\ IF traceMap = 0
     THEN /\ lists' = Append(lists, [expire |-> 0, items |-> [k \in Kinds |-> <<>>]])
          /\ storing' = [storing EXCEPT ![c] = [pc |-> "put", item |-> calls', place |-> Len(lists'), since |-> now]]
     ELSE /\ storing' = [storing EXCEPT ![c] = [pc |-> "add", item |-> calls', place |-> traceMap, since |-> now]]
          /\ UNCHANGED lists
  /\ UNCHANGED <<local, now, traceMap, keys, sweep, raced>>

Put(c) ==
  /\ storing[c].pc = "put"
  /\ raced' = raced \cup ({traceMap} \ {0})
  /\ traceMap' = storing[c].place
  /\ storing' = [storing EXCEPT ![c].pc = "add"]
  /\ UNCHANGED <<local, now, lists, keys, sweep, stored, calls>>

\* (slip: only the first item sets the time)
RefreshedSlip(expire) == IF expire = 0 THEN now + ExpireTime ELSE expire
Refreshed(expire) == now + ExpireTime

StoredNow(c) == stored' = [stored EXCEPT ![storing[c].item] =
                             [kind |-> @.kind, place |-> storing[c].place, at |-> now]]

Add(c) ==
  /\ storing[c].pc = "add"
  /\ LET n == storing[c].item
         p == storing[c].place
         items == [lists[p].items EXCEPT ![stored[n].kind] = Append(@, n)]
     IN  lists' = [lists EXCEPT ![p] = [expire |-> Refreshed(@.expire), items |-> items]]
  /\ StoredNow(c)
  /\ storing' = [storing EXCEPT ![c] = Idle]
  /\ UNCHANGED <<local, now, traceMap, keys, sweep, raced, calls>>

-----------------------------------------------------------------------------
(* LocalCache.checkExpire: Range finds a list expired, then deletes the    *)
(* trace's entry, whatever it is by then.                                  *)

Expired(l) == lists[l].expire < now

Check ==
  /\ local /\ sweep.pc = "idle" /\ traceMap # 0 /\ Expired(traceMap)
  /\ sweep' = [pc |-> "delete", time |-> now]
  /\ UNCHANGED <<local, now, lists, traceMap, keys, storing, stored, raced, calls>>

Delete ==
  /\ sweep.pc = "delete"
  /\ raced' = IF traceMap # 0 /\ (lists[traceMap].expire >= sweep.time \/ Busy(traceMap))
              THEN raced \cup {traceMap} ELSE raced
  /\ traceMap' = 0
  /\ sweep' = Idle
  /\ UNCHANGED <<local, now, lists, keys, storing, stored, calls>>

-----------------------------------------------------------------------------
(* RedisClient.StoreTrace, StoreMetric: storeList                          *)

RPush(c, kind) ==
  /\ ~local /\ storing[c].pc = "idle" /\ calls < MaxStores
  /\ calls' = calls + 1
  /\ stored' = Append(stored, [kind |-> kind, place |-> kind, at |-> 0])
  /\ \/ /\ keys' = [keys EXCEPT ![kind].items = Append(@, calls')]
        /\ storing' = [storing EXCEPT ![c] = [pc |-> "expire", item |-> calls', place |-> kind, since |-> now]]
     \/ UNCHANGED <<keys, storing>>       \* RPUSH fails, which is logged
  /\ UNCHANGED <<local, now, lists, traceMap, sweep, raced>>

Expire(c) ==
  /\ storing[c].pc = "expire"
  /\ LET k == storing[c].place
     IN  keys' = [keys EXCEPT ![k].expire = IF keys[k].items = <<>> THEN @ ELSE Refreshed(@)]
  /\ StoredNow(c)
  /\ storing' = [storing EXCEPT ![c] = Idle]
  /\ UNCHANGED <<local, now, lists, traceMap, sweep, raced, calls>>

\* EXPIRE fails, or the receiver stops: the key keeps the expiry it had, if any.
ExpireFails(c) ==
  /\ storing[c].pc = "expire"
  /\ storing' = [storing EXCEPT ![c] = Idle]
  /\ UNCHANGED <<local, now, lists, traceMap, keys, sweep, stored, raced, calls>>

Next == \/ Clock \/ Check \/ Delete
        \/ \E c \in Callers : \/ \E k \in Kinds : Load(c, k) \/ RPush(c, k)
                              \/ Put(c) \/ Add(c) \/ Expire(c) \/ ExpireFails(c)
Spec == Init /\ [][Next]_vars

-----------------------------------------------------------------------------
Visible(n) == LET items == Items(stored[n].kind)
              IN  \E i \in DOMAIN items : /\ items[i] = n
                                          /\ \A j \in DOMAIN items : items[j] = n => j = i
Within(n) == IF local THEN now <= stored[n].at + ExpireTime ELSE now < stored[n].at + ExpireTime

\* A span or metric that was stored is found, once, until its time to live is over,
\* however its calls interleave with others and with the sweep; but a list may be
\* lost with what is in it when two calls make it at once, or when the sweep or
\* Redis finds it expired (in memory also: not yet filled) while a call is about
\* to add to it (StoreTrace, StoreMetric, checkExpire, storeList).
SpansKept == \A n \in DOMAIN stored :
               stored[n].at > 0 /\ Within(n) /\ stored[n].place \notin raced => Visible(n)
=============================================================================
