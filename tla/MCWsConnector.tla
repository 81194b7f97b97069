--------------------------- MODULE MCWsConnector ---------------------------
(* Small instances of WsConnector for TLC. *)
EXTENDS WsConnector

(* The connector takes the ids of channels to be different and to lead back *)
(* to what was subscribed to.                                               *)
Ids == INSTANCE ChannelIds WITH Parts <- {"swth", "usd", ""}

ASSUME ChannelIdsAssumption == Ids!RoundTrip /\ Ids!NoSharedId
=============================================================================
