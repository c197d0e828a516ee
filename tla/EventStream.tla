----------------------------- MODULE EventStream ----------------------------
(***************************************************************************)
(* One page's subscription to server-sent events: the EventSource of       *)
(* web/src/hooks/useSSE.ts and its subscriber channel in api/sse.go.       *)
(*                                                                         *)
(* An event that is broadcast before the server has subscribed the         *)
(* connection, while the reconnect timer runs, or into a full channel, is  *)
(* lost: nothing is replayed.                                              *)
(***************************************************************************)
EXTENDS Naturals, Sequences

CONSTANT ChannelSize    \* capacity of a subscriber's channel

ASSUME ChannelAssumption == ChannelSize \in Nat

VARIABLES
    es,         \* the EventSource: "none", "connecting" or "subscribed"
    reconnect,  \* the reconnect timer is armed
    channel     \* events sent to this subscriber and not received yet

streamVars == <<es, reconnect, channel>>

StreamOff == es = "none" /\ reconnect = FALSE /\ channel = <<>>

(* connect() when the page mounts.                                         *)
StreamConnect ==
    /\ es' = "connecting"
    /\ reconnect' = FALSE
    /\ channel' = <<>>

(* The handler of the server has called Subscribe.                         *)
StreamSubscribes ==
    /\ es = "connecting"
    /\ es' = "subscribed"
    /\ UNCHANGED <<reconnect, channel>>

(* onerror: close, and connect again in two seconds.                       *)
StreamError ==
    /\ es # "none"
    /\ es' = "none"
    /\ reconnect' = TRUE
    /\ channel' = <<>>

StreamReconnects ==
    /\ reconnect
    /\ StreamConnect

(* Broadcast, as far as this subscriber is concerned.                      *)
StreamBroadcast(event) ==
    /\ channel' = IF es = "subscribed" /\ Len(channel) < ChannelSize
                  THEN Append(channel, event) ELSE channel
    /\ UNCHANGED <<es, reconnect>>

(* onmessage: the page's handler runs on Head(channel).                    *)
StreamMessage ==
    /\ channel # <<>>
    /\ channel' = Tail(channel)
    /\ UNCHANGED <<es, reconnect>>

(* The cleanup of the effect.                                              *)
StreamClose ==
    /\ es' = "none"
    /\ reconnect' = FALSE
    /\ channel' = <<>>

=============================================================================
