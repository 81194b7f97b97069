----------------------------- MODULE ChannelIds -----------------------------
(* packages/websocket/src/channel.ts: the id under which a subscription is  *)
(* sent to the server and its handler is kept, and the way back from an id. *)
(* An id is a name and parameters joined by colons.  It is kept as its      *)
(* parts between the colons, and so is a parameter: one without a colon is  *)
(* a sequence of one part.                                                  *)
EXTENDS Naturals, Sequences

CONSTANT Parts   \* texts without a colon

(* The parameters generateChannelId() puts behind the name, in their order. *)
Written(channel) ==
  IF channel \in {"books", "recent_trades", "market_stats_by_market"} THEN <<"market_id">>
  ELSE IF channel \in {"orders", "balances", "account_trades", "leverages", "positions",
                       "commitments", "cdp_borrows", "cdp_collaterals", "cdp_reward_debts"}
  THEN <<"address">>
  ELSE IF channel \in {"orders_by_market", "account_trades_by_market", "leverages_by_market",
                       "positions_by_market"}
  THEN <<"market_id", "address">>
  ELSE IF channel = "candlesticks" THEN <<"market_id", "resolution">>
  ELSE IF channel = "pools_by_id" THEN <<"id">>
  ELSE IF channel \in {"token_prices_by_denom", "cdp_token_debts_by_denom",
                       "cdp_token_supply_by_denom", "token_supply_by_denom"}
  THEN <<"denom">>
  ELSE <<>>

(* The parameters parseChannelId() takes the second and third part for. *)
Read(channel) ==
  IF channel = "candlesticks" THEN <<"market_id", "resolution">>
  ELSE IF channel \in {"books", "recent_trades", "market_stats_by_market"} THEN <<"market_id">>
  ELSE IF channel \in {"orders_by_market", "account_trades_by_market", "leverages_by_market",
                       "positions_by_market"}
  THEN <<"market_id", "address">>
  ELSE IF channel = "pools_by_id" THEN <<"id">>
  ELSE IF channel \in {"token_prices_by_denom", "cdp_token_debts_by_denom",
                       "cdp_token_supply_by_denom", "token_supply_by_denom"}
  THEN <<"denom">>
  ELSE IF channel \in {"orders", "balances", "account_trades", "leverages", "positions",
                       "commitments", "cdp_borrows", "cdp_collaterals", "cdp_reward_debts"}
  THEN <<"address">>
  ELSE <<>>

(* The other channels have no parameters. *)
Bare == {"market_stats", "pools", "token_prices", "cdp_liquidate_collaterals", "cdp_token_debts",
         "cdp_reward_schemes", "cdp_token_supply", "market_liquidity_usage_multiplier"}

WsChannels == Bare \cup
  {"books", "recent_trades", "market_stats_by_market", "orders", "balances", "account_trades",
   "leverages", "positions", "commitments", "cdp_borrows", "cdp_collaterals", "cdp_reward_debts",
   "orders_by_market", "account_trades_by_market", "leverages_by_market", "positions_by_market",
   "candlesticks", "pools_by_id", "token_prices_by_denom", "cdp_token_debts_by_denom",
   "cdp_token_supply_by_denom", "token_supply_by_denom"}

Names(channel) == {Written(channel)[i] : i \in DOMAIN Written(channel)}

(* generateChannelId() joins, so that a parameter with a colon becomes      *)
(* several parts.                                                           *)
Generate(channel, params) ==
  LET w == Written(channel) IN
  IF Len(w) = 0 THEN <<channel>>
  ELSE IF Len(w) = 1 THEN <<channel>> \o params[w[1]]
  ELSE <<channel>> \o params[w[1]] \o params[w[2]]

(* parseChannelId() splits, and drops what is behind the third part. *)
ParsedChannel(id) == id[1]
ParsedParams(id) ==
  LET r == Read(id[1]) IN
  [f \in {r[i] : i \in DOMAIN r} |->
     IF f = r[1] THEN <<id[2]>> ELSE <<id[3]>>]

(* The parameters of a channel, none of them with a colon. *)
Plain(channel) == [Names(channel) -> {<<p>> : p \in Parts}]

(* Every subscription whose parameters have no colon is found again from    *)
(* the id it was sent under, in the right fields.                           *)
RoundTrip ==
  \A channel \in WsChannels : \A params \in Plain(channel) :
    /\ ParsedChannel(Generate(channel, params)) = channel
    /\ ParsedParams(Generate(channel, params)) = params

(* No two such subscriptions share an id, and so a handler.                 *)
NoSharedId ==
  \A c, d \in WsChannels : \A p \in Plain(c), q \in Plain(d) :
    Generate(c, p) = Generate(d, q) => c = d /\ p = q
=============================================================================
