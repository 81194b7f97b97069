------------------------------ MODULE MCEip712 ------------------------------
(* Transactions of up to three messages of Carbon's modules, in the shapes  *)
(* that decide how types are shared and what the conversions do.            *)
EXTENDS Eip712

AllFields ==
  <<"whitelisted_address", "trading_fees", "timeout_timestamp", "taker_fee",
    "swap_fee", "supply_amount", "required_stake", "positions", "market_type", "market_params",
    "market_id", "maker_fee", "lock_amount", "id", "from_address",
    "fee_tier", "fee_category", "expiry_time", "expiry_duration", "duration", "description",
    "deposit_fee", "denom", "creator", "amount", "address">>

(* Values are put together from a node for each leaf, functions for         *)
(* structures and sequences of functions for lists.                         *)
Leaf(node) == [p \in {<<>>} |-> node]

Struct(fields) ==
  LET under(f) == {<<[field |-> f, item |-> p[1].item]>> \o Tail(p) :
                     p \in {q \in DOMAIN fields[f] : q # <<>> /\ q[1].field = ""}}
                  \cup {<<At(f)>> \o p :
                     p \in {q \in DOMAIN fields[f] : q = <<>> \/ q[1].field # ""}}
      inner(p) == IF p[1].item = 0 THEN Tail(p)
                  ELSE <<[field |-> "", item |-> p[1].item]>> \o Tail(p)
  IN [p \in {<<>>} \cup UNION {under(f) : f \in DOMAIN fields} |->
        IF p = <<>> THEN Structure ELSE fields[p[1].field][inner(p)]]

ListOf(items) ==
  [p \in {<<>>} \cup UNION {{<<[field |-> "", item |-> i]>> \o q : q \in DOMAIN items[i]} :
                              i \in DOMAIN items} |->
     IF p = <<>> THEN ItemList ELSE items[p[1].item][Tail(p)]]

Texts(fields) == [f \in fields |-> Leaf(Text)]

Type(module, words) == [module |-> module, name |-> words]
Msg(type, fields) == [type |-> type, value |-> Struct(fields)]

(* MsgAddFeeTier: two structures side by side, one with another inside. *)
Tier(category, fees) ==
  Msg(Type("market", <<"AddFeeTier">>),
      [creator |-> Leaf(Text), fee_category |-> Struct(category),
       fee_tier |-> Struct([required_stake |-> Leaf(Text), trading_fees |-> Struct(fees)])])
ForMarket == Texts({"market_type", "market_id"})
ForAddress == Texts({"market_type", "whitelisted_address"})
BothFees == Texts({"maker_fee", "taker_fee"})
TakerFee == Texts({"taker_fee"})
FreeMaker == [maker_fee |-> Leaf(ZeroDec), taker_fee |-> Leaf(Text)]

(* MsgInitiateLiquidation: a list of structures. *)
Position(fields) == Struct(Texts(fields))
Liquidate(items) ==
  Msg(Type("broker", <<"InitiateLiquidation">>),
      [creator |-> Leaf(Text), positions |-> ListOf(items)])

(* MsgUpdateMarket: one structure with optional fields. *)
Market(params) == Msg(Type("market", <<"UpdateMarket">>), [market_params |-> Struct(params)])
Described(node) == [id |-> Leaf(Text), description |-> Leaf(node)]
Expiring == [id |-> Leaf(Text), expiry_time |-> Leaf(Date)]

(* MsgSupplyAsset, and a message whose name includes its name. *)
Supply(amount) ==
  Msg(Type("cdp", <<"SupplyAsset">>),
      [creator |-> Leaf(Text), denom |-> Leaf(Text), amount |-> Leaf(amount)])
SupplyAndLock(fields) ==
  Msg(Type("cdp", <<"SupplyAsset", "AndLockCollateral">>), Texts(fields))

(* Two messages of one name. *)
CreatePool == Msg(Type("liquiditypool", <<"CreatePool">>), Texts({"creator", "swap_fee"}))
CreatePerpsPool == Msg(Type("perpspool", <<"CreatePool">>), Texts({"creator", "deposit_fee"}))

(* MsgStakePoolToken with durations around the low word of a Long. *)
Stake(n) ==
  Msg(Type("liquiditypool", <<"StakePoolToken">>),
      [creator |-> Leaf(Text), denom |-> Leaf(Text), duration |-> Leaf(Long(n))])

(* MsgWithdrawToken, which expires after whole seconds, or after some and   *)
(* half a second, or half a microsecond.                                    *)
Withdraw(n) ==
  Msg(Type("bridge", <<"MsgWithdrawToken">>),
      [from_address |-> Leaf(Text), expiry_duration |-> Leaf(Duration(n))])
Withdrawals == {Withdraw(n) : n \in {Second, Second + 500 * Millisecond, Second + 500}}

(* Its amino type is also that of MsgSetStakeEquivalence. *)
UpdateFeeTier == Msg(Type("market", <<"UpdateFeeTier">>), FreeMaker)

(* A message of the ibc package. *)
Transfer ==
  Msg(Type("cosmos-sdk", <<"MsgTransfer">>),
      [timeout_timestamp |-> Leaf(Long(6)), denom |-> Leaf(Text)])

MaxMessages == 3

Lib == {Type("cosmos-sdk", <<"MsgTransfer">>)}
Ambiguous == {Type("market", <<"UpdateFeeTier">>)}

AllMessages ==
  {Tier(ForMarket, BothFees), Tier(ForMarket, TakerFee), Tier(ForAddress, TakerFee),
   Tier(ForMarket, FreeMaker),
   Liquidate(<<Position({"market_id", "address"})>>),
   Liquidate(<<Position({"market_id"}), Position({"market_id", "address"})>>), Liquidate(<<>>),
   Market(Described(Text)), Market(Texts({"id"})), Market(Described(Empty)),
   Market([id |-> Leaf(Missing)]), Market(<<>>),
   Supply(Text), Supply(Empty), SupplyAndLock({"creator", "denom", "supply_amount", "lock_amount"}),
   SupplyAndLock({}), Market(Expiring), CreatePool, CreatePerpsPool, Stake(3), Stake(6), UpdateFeeTier, Transfer}
  \cup Withdrawals

Transactions == UNION {[1..n -> AllMessages] : n \in 1..MaxMessages}

(* Two fee tiers in one transaction. *)
TierMessages == {Tier(c, f) : c \in {ForMarket, ForAddress}, f \in {BothFees, TakerFee}}
TwoTiers == [1..2 -> TierMessages]
=============================================================================
