----------------------------- MODULE Thresholds -----------------------------
(***************************************************************************)
(* The slow thresholds agents query: a map from entry URL to threshold,    *)
(* refreshed every five minutes by a cron task that builds a new map and   *)
(* installs it (threshold_cache.go), while HTTP requests that set an SLO   *)
(* configuration write into the installed map (http_server.go).  Nothing   *)
(* is locked.                                                              *)
(*                                                                         *)
(* The SLO library is external: a target set by AddOrUpdateSLOTarget is    *)
(* what a later GetSLOConfigOrDefault of that URL returns; without one it  *)
(* returns a default computed from the traffic of the day or hour.         *)
(***************************************************************************)
EXTENDS Naturals, FiniteSets, SequencesExt

CONSTANTS Uris,        \* entry URLs
          Handlers,    \* concurrent HTTP requests
          Configs,     \* SLO configurations: sequences of [type, value]
          Defaults     \* default configurations the SLO library computes

VARIABLES current,     \* SlowThresholdMap: the installed map
          target,      \* external: the SLO library's configuration per URL
          handler,     \* per request: idle, or between its two writes
          refresh,     \* the refresh under way
          missed,      \* history: URLs written since that refresh last read the map
          overridden   \* history: URLs whose newest configuration was lost

vars == <<current, target, handler, refresh, missed, overridden>>

Latency == {"P90", "P95", "P99"}
NoLatency == 10^9      \* 1e20
Fallback == [value |-> 500, type |-> "P90"]
Unset == <<>>
Idle == [pc |-> "idle"]

OrFallback(lowest) == IF lowest.value >= NoLatency THEN Fallback ELSE lowest

\* The latency objective with the lowest value, the first among equals;
\* 500 ms when there is none.
GetSlowThresholdFromSLOs(configs) ==
  LET Lower(best, config) ==
        IF config.type \in Latency /\ best.value > config.value THEN config ELSE best
  IN  OrFallback(FoldLeft(Lower, [value |-> NoLatency, type |-> ""], configs))

\* external: the library's answer for a URL, given the default it computed
GetSLOConfigOrDefault(u, default) == IF target[u] # Unset THEN target[u] ELSE default

Init == /\ current = <<>>
        /\ target = [u \in Uris |-> Unset]
        /\ handler = [h \in Handlers |-> Idle]
        /\ \E entries \in SUBSET Uris :
             refresh = [pc |-> "yesterday", isInit |-> TRUE, todo |-> entries, result |-> <<>>]
        /\ missed = {}
        /\ overridden = {}

-----------------------------------------------------------------------------
(* storeAllSlowThreshold, every five minutes; the first one, at start-up,  *)
(* runs before any request is served.                                      *)

Extend(map, u, threshold) ==
  [v \in DOMAIN map \cup {u} |-> IF v = u THEN threshold ELSE map[v]]

\* In the first five minutes of a day only yesterday's entries are read.
BeginMidnight(entries) ==
  /\ refresh.pc = "idle"
  /\ refresh' = [pc |-> "yesterday", isInit |-> FALSE, todo |-> entries, result |-> <<>>]
  /\ missed' = {}
  /\ UNCHANGED <<current, target, handler, overridden>>

\* getYesterdaySLO, one entry; a failed query is a day without entries.
StoreYesterday(u, default) ==
  /\ refresh.pc = "yesterday"
  /\ u \in refresh.todo
  /\ refresh' = [refresh EXCEPT
       !.todo = @ \ {u},
       !.result = Extend(@, u, GetSlowThresholdFromSLOs(GetSLOConfigOrDefault(u, default)))]
  /\ UNCHANGED <<current, target, handler, missed, overridden>>

\* The entries of the last hour are listed, then the map is copied over the result.
ListLastHour(entries) ==
  /\ \/ refresh.pc = "idle"
     \/ refresh.pc = "yesterday" /\ refresh.isInit /\ refresh.todo = {}
  /\ LET result == IF refresh.pc = "idle" THEN <<>> ELSE refresh.result
         merged == [u \in DOMAIN result \cup DOMAIN current |->
                      IF u \in DOMAIN current THEN current[u] ELSE result[u]]
     IN  refresh' = [pc |-> "lastHour", isInit |-> refresh.pc # "idle", todo |-> entries, result |-> merged]
  /\ missed' = {}
  /\ UNCHANGED <<current, target, handler, overridden>>

\* A failed listing ends the refresh; at start-up yesterday's result is lost with it.
ListFails ==
  /\ refresh.pc = "yesterday" /\ refresh.isInit /\ refresh.todo = {}
  /\ refresh' = Idle
  /\ UNCHANGED <<current, target, handler, missed, overridden>>

\* A URL that has a threshold keeps it for the day.
\* (slip: known URLs are recomputed)
KnownSlip(u) == FALSE
Known(u) == u \in DOMAIN refresh.result

StoreLastHour(u, default) ==
  /\ refresh.pc = "lastHour"
  /\ u \in refresh.todo
  /\ refresh' = [refresh EXCEPT
       !.todo = @ \ {u},
       !.result = IF Known(u) THEN @
                  ELSE Extend(@, u, GetSlowThresholdFromSLOs(GetSLOConfigOrDefault(u, default)))]
  /\ UNCHANGED <<current, target, handler, missed, overridden>>

Install ==
  /\ refresh.pc = "lastHour" \/ (refresh.pc = "yesterday" /\ ~refresh.isInit)
  /\ refresh.todo = {}
  /\ current' = refresh.result
  /\ overridden' = IF refresh.pc = "yesterday" THEN missed ELSE overridden \cup missed
  /\ refresh' = Idle
  /\ UNCHANGED <<target, handler, missed>>

StoreAllSlowThreshold ==
  \/ \E entries \in SUBSET Uris : BeginMidnight(entries) \/ ListLastHour(entries)
  \/ \E u \in Uris, d \in Defaults : StoreYesterday(u, d) \/ StoreLastHour(u, d)
  \/ ListFails
  \/ Install

-----------------------------------------------------------------------------
(* setSLOConfig: first the SLO library, then the installed map.            *)

AddOrUpdateSLOTarget(h, u, configs) ==
  /\ handler[h].pc = "idle" /\ ~(refresh.pc # "idle" /\ refresh.isInit)
  /\ target' = [target EXCEPT ![u] = configs]
  /\ handler' = [handler EXCEPT ![h] = [pc |-> "added", uri |-> u, configs |-> configs]]
  /\ UNCHANGED <<current, refresh, missed, overridden>>

\* (slip: an existing threshold is not replaced)
ConfiguredSlip(u, configs) ==
  IF u \in DOMAIN current THEN current ELSE Extend(current, u, GetSlowThresholdFromSLOs(configs))
Configured(u, configs) == Extend(current, u, GetSlowThresholdFromSLOs(configs))

UpdateThresholdConfig(h) ==
  /\ handler[h].pc = "added"
  /\ LET u == handler[h].uri
         configs == handler[h].configs
     IN  /\ current' = Configured(u, configs)
         /\ missed' = missed \cup {u}
         /\ overridden' = IF configs = target[u] THEN overridden \ {u} ELSE overridden \cup {u}
  /\ handler' = [handler EXCEPT ![h] = Idle]
  /\ UNCHANGED <<target, refresh>>

SetSLOConfig ==
  \/ \E h \in Handlers, u \in Uris, c \in Configs : AddOrUpdateSLOTarget(h, u, c)
  \/ \E h \in Handlers : UpdateThresholdConfig(h)

Next == StoreAllSlowThreshold \/ SetSLOConfig
Spec == Init /\ [][Next]_vars

-----------------------------------------------------------------------------
ThresholdData ==
  {Fallback} \cup {c \in UNION {Range(cs) : cs \in Configs \cup Defaults} : c.type \in Latency}
Maps == UNION {[us -> ThresholdData] : us \in SUBSET Uris}

TypeOK ==
  /\ current \in Maps
  /\ target \in [Uris -> Configs \cup {Unset}]
  /\ handler \in [Handlers -> {Idle} \cup [pc : {"added"}, uri : Uris, configs : Configs]]
  /\ refresh \in {Idle} \cup [pc : {"yesterday", "lastHour"}, isInit : BOOLEAN,
                              todo : SUBSET Uris, result : Maps]
  /\ missed \subseteq Uris /\ overridden \subseteq Uris

\* Once no request for a URL is under way, its threshold is that of the
\* configuration last set, unless the write fell into a refresh that had
\* already read the map, or two requests crossed: a configuration is lost in no
\* other way (storeAllSlowThreshold and setSLOConfig, unlocked).
ConfigurationHonoured ==
  \A u \in DOMAIN current \ overridden :
     (target[u] # Unset /\ \A h \in Handlers : handler[h].pc = "idle" \/ handler[h].uri # u)
       => current[u] = GetSlowThresholdFromSLOs(target[u])

\* During a day a threshold changes only because it was configured, or by the
\* install of a refresh a configuration write overtook: the refresh copies the
\* map first and skips the URLs it finds there (storeAllSlowThreshold).
KeptForTheDay ==
  [][\A u \in DOMAIN current :
       \/ u \in DOMAIN current' /\ current'[u] = current[u]
       \/ u \in missed'
       \/ refresh.pc = "yesterday"]_vars
=============================================================================
