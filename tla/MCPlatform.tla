----------------------------- MODULE MCPlatform -----------------------------
(***************************************************************************)
(* The services around the pipeline, checked in one run. The parts share no *)
(* state: the first state chooses one, and only that part moves, so that   *)
(* their states add up instead of multiplying.                             *)
(***************************************************************************)
EXTENDS Rollout, Drift, Reports, Agent, Chat, Knowledge,
        Senders, LiveStream, Cache, Dashboard

VARIABLE part
vars == <<rolloutVars, driftVars, reportVars, weeklyVars, agentVars,
          chatVars, knowledgeVars, hookVars, senderVars,
          streamVars, optVars, cacheVars, feedVars, logVars, heatVars, part>>

MCBaseSeverity == [k \in {"a", "b"} |-> IF k = "a" THEN "LOW" ELSE "MEDIUM"]
MCChunksOf == [f \in {"sop"} |-> 2]
MCSanitizedKey == [c \in {"cam 1", "cam_1"} |-> "cam_1"]

Init ==
  /\ part \in {"rollout", "drift", "reports", "weekly", "agent", "chat",
              "knowledge", "webhooks", "senders", "stream",
              "optimiser", "cache", "feed", "log", "heat"}
  /\ RolloutInit
  /\ DriftInit
  /\ ReportsInit
  /\ WeeklyInit
  /\ AgentInit
  /\ ChatInit
  /\ KnowledgeInit
  /\ HooksInit
  /\ SendersInit
  /\ part = "senders" \/ \A c \in Channels : ready[c] /\ address[c] = "good"
  /\ StreamInit
  /\ OptInit
  /\ CacheInit
  /\ FeedInit
  /\ LogInit
  /\ HeatInit
  /\ part = "cache" \/ redisUp

Next ==
  \/ part = "rollout" /\ RolloutNext
     /\ UNCHANGED <<part, driftVars, reportVars, weeklyVars, agentVars,
                    chatVars, knowledgeVars, hookVars, senderVars, streamVars, optVars,
                    cacheVars, feedVars, logVars, heatVars>>
  \/ part = "drift" /\ DriftNext
     /\ UNCHANGED <<part, rolloutVars, reportVars, weeklyVars, agentVars,
                    chatVars, knowledgeVars, hookVars, senderVars, streamVars, optVars,
                    cacheVars, feedVars, logVars, heatVars>>
  \/ part = "reports" /\ ReportsNext
     /\ UNCHANGED <<part, rolloutVars, driftVars, weeklyVars, agentVars,
                    chatVars, knowledgeVars, hookVars, senderVars, streamVars, optVars,
                    cacheVars, feedVars, logVars, heatVars>>
  \/ part = "weekly" /\ WeeklyNext
     /\ UNCHANGED <<part, rolloutVars, driftVars, reportVars, agentVars,
                    chatVars, knowledgeVars, hookVars, senderVars, streamVars, optVars,
                    cacheVars, feedVars, logVars, heatVars>>
  \/ part = "agent" /\ AgentNext
     /\ UNCHANGED <<part, rolloutVars, driftVars, reportVars, weeklyVars,
                    chatVars, knowledgeVars, hookVars, senderVars, streamVars, optVars,
                    cacheVars, feedVars, logVars, heatVars>>
  \/ part = "chat" /\ ChatNext
     /\ UNCHANGED <<part, rolloutVars, driftVars, reportVars, weeklyVars,
                    agentVars, knowledgeVars, hookVars, senderVars, streamVars, optVars,
                    cacheVars, feedVars, logVars, heatVars>>
  \/ part = "knowledge" /\ KnowledgeNext
     /\ UNCHANGED <<part, rolloutVars, driftVars, reportVars, weeklyVars,
                    agentVars, chatVars, hookVars, senderVars, streamVars, optVars,
                    cacheVars, feedVars, logVars, heatVars>>
  \/ part = "webhooks" /\ HooksNext
     /\ UNCHANGED <<part, rolloutVars, driftVars, reportVars, weeklyVars,
                    agentVars, chatVars, knowledgeVars, senderVars, streamVars, optVars,
                    cacheVars, feedVars, logVars, heatVars>>
  \/ part = "senders" /\ SendersNext
     /\ UNCHANGED <<part, rolloutVars, driftVars, reportVars, weeklyVars,
                    agentVars, chatVars, knowledgeVars, hookVars, streamVars, optVars,
                    cacheVars, feedVars, logVars, heatVars>>
  \/ part = "stream" /\ StreamNext
     /\ UNCHANGED <<part, rolloutVars, driftVars, reportVars, weeklyVars,
                    agentVars, chatVars, knowledgeVars, hookVars, senderVars, optVars,
                    cacheVars, feedVars, logVars, heatVars>>
  \/ part = "optimiser" /\ OptNext
     /\ UNCHANGED <<part, rolloutVars, driftVars, reportVars, weeklyVars,
                    agentVars, chatVars, knowledgeVars, hookVars, senderVars,
                    streamVars, cacheVars, feedVars, logVars, heatVars>>
  \/ part = "cache" /\ CacheNext
     /\ UNCHANGED <<part, rolloutVars, driftVars, reportVars, weeklyVars,
                    agentVars, chatVars, knowledgeVars, hookVars, senderVars,
                    streamVars, optVars, feedVars, logVars, heatVars>>
  \/ part = "feed" /\ FeedNext
     /\ UNCHANGED <<part, rolloutVars, driftVars, reportVars, weeklyVars,
                    agentVars, chatVars, knowledgeVars, hookVars, senderVars,
                    streamVars, optVars, cacheVars, logVars, heatVars>>
  \/ part = "log" /\ LogNext
     /\ UNCHANGED <<part, rolloutVars, driftVars, reportVars, weeklyVars,
                    agentVars, chatVars, knowledgeVars, hookVars, senderVars,
                    streamVars, optVars, cacheVars, feedVars, heatVars>>
  \/ part = "heat" /\ HeatNext
     /\ UNCHANGED <<part, rolloutVars, driftVars, reportVars, weeklyVars,
                    agentVars, chatVars, knowledgeVars, hookVars, senderVars,
                    streamVars, optVars, cacheVars, feedVars, logVars>>

Spec == Init /\ [][Next]_vars
=============================================================================
