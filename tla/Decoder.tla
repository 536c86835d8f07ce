------------------------------- MODULE Decoder -------------------------------
(***************************************************************************)
(* EventParser::parse_event_data (src/solana/events.rs): from the bytes of *)
(* a data line to an event.  The code cuts the fields out of the bytes at  *)
(* positions written out by hand, after one test of the length; the        *)
(* program writes them one after the other in the order of its IDL         *)
(* (src/idl/spinpet.json).                                                 *)
(*                                                                         *)
(* A byte carries the field it was written for, its place in it, and, in a *)
(* discriminator or a length, its value.                                   *)
(***************************************************************************)
EXTENDS Naturals, Sequences, SequencesExt

CONSTANT StringLengths   (* the lengths of strings enumerated *)

ASSUME LengthsFit ==     (* a length is written in four bytes *)
  StringLengths \subseteq Nat /\ \A n \in StringLengths : n \div 16777216 < 256

EventTypes == {"TokenCreated", "BuySell", "LongShort", "ForceLiquidate", "FullClose",
               "PartialClose", "MilestoneDiscount"}

-----------------------------------------------------------------------------
(* What the program writes *)

Width(type) ==
  CASE type = "pubkey" -> 32 [] type = "u128" -> 16 [] type = "u64" -> 8
    [] type = "u32" -> 4 [] type = "u16" -> 2 [] type \in {"u8", "bool"} -> 1

(* The fields of a type, each written out as <<type, name>>.               *)
All(type, names) == [i \in DOMAIN names |-> <<type, names[i]>>]
OrderFields ==
  << <<"u8", "order_type">>, <<"pubkey", "mint">>, <<"pubkey", "user">>,
     <<"u128", "lock_lp_start_price">>, <<"u128", "lock_lp_end_price">>,
     <<"u64", "lock_lp_sol_amount">>, <<"u64", "lock_lp_token_amount">>,
     <<"u32", "start_time">>, <<"u32", "end_time">> >>
CloseFields ==
  All("pubkey", <<"payer", "user_sol_account", "mint_account">>)
  \o << <<"bool", "is_close_long">> >>
  \o All("u64", <<"final_token_amount", "final_sol_amount", "user_close_profit">>)
  \o << <<"u128", "latest_price">>, <<"pubkey", "order_pda">> >>

IdlFields == [k \in EventTypes |->
  CASE k = "TokenCreated" ->
         All("pubkey", <<"payer", "mint_account", "curve_account", "pool_token_account",
           "pool_sol_account", "fee_recipient", "base_fee_recipient", "params_account">>)
         \o All("u16", <<"swap_fee", "borrow_fee">>) \o All("u8", <<"fee_discount_flag">>)
         \o All("string", <<"name", "symbol", "uri">>)
    [] k = "BuySell" ->
         All("pubkey", <<"payer", "mint_account">>) \o All("bool", <<"is_buy">>)
         \o All("u64", <<"token_amount", "sol_amount">>) \o All("u128", <<"latest_price">>)
    [] k = "LongShort" ->
         All("pubkey", <<"payer", "mint_account", "order_pda">>)
         \o All("u128", <<"latest_price">>) \o OrderFields
         \o All("u64", <<"margin_sol_amount", "borrow_amount", "position_asset_amount">>)
         \o All("u16", <<"borrow_fee">>)
    [] k = "ForceLiquidate" -> All("pubkey", <<"payer", "mint_account", "order_pda">>)
    [] k = "FullClose" -> CloseFields
    [] k = "PartialClose" ->
         CloseFields \o OrderFields
         \o All("u64", <<"margin_init_sol_amount", "margin_sol_amount", "borrow_amount",
                         "position_asset_amount">>)
         \o All("u16", <<"borrow_fee">>) \o All("u64", <<"realized_sol_amount">>)
    [] k = "MilestoneDiscount" ->
         All("pubkey", <<"payer", "mint_account", "curve_account">>)
         \o All("u16", <<"swap_fee", "borrow_fee">>) \o All("u8", <<"fee_discount_flag">>)]

IdlDiscriminator == [k \in EventTypes |->
  CASE k = "TokenCreated" -> <<96, 122, 113, 138, 50, 227, 149, 57>>
    [] k = "BuySell" -> <<98, 208, 120, 60, 93, 32, 19, 180>>
    [] k = "LongShort" -> <<27, 69, 20, 116, 58, 250, 95, 220>>
    [] k = "ForceLiquidate" -> <<234, 196, 183, 105, 40, 26, 206, 48>>
    [] k = "FullClose" -> <<22, 244, 113, 245, 154, 168, 109, 139>>
    [] k = "PartialClose" -> <<133, 94, 3, 222, 24, 68, 69, 155>>
    [] k = "MilestoneDiscount" -> <<130, 232, 11, 37, 34, 185, 136, 128>>]

Values(name, v) == [i \in DOMAIN v |-> [of |-> name, at |-> i, value |-> v[i]]]
Content(name, n) == Values(name, [i \in 1..n |-> 0])

LittleEndian(n) ==
  << n % 256, (n \div 256) % 256, (n \div 65536) % 256, (n \div 16777216) % 256 >>

(* A string is its length, low byte first, and its content.                *)
Written(field, lengths) ==
  IF field[1] = "string"
  THEN Values("length", LittleEndian(lengths[field[2]]))
       \o Content(field[2], lengths[field[2]])
  ELSE Content(field[2], Width(field[1]))

Emitted(k, lengths) ==
  Values("discriminator", IdlDiscriminator[k])
  \o FlattenSeq([i \in DOMAIN IdlFields[k] |-> Written(IdlFields[k][i], lengths)])

-----------------------------------------------------------------------------
(* What the parser reads: it asks for a length and then cuts data[from..to] *)
(* out for each of the fixed fields.  A MilestoneDiscount is read past the *)
(* length asked for.                                                       *)

Cut(name, from, to) == [name |-> name, from |-> from, to |-> to]

TokenCreated ==
  [need |-> 261, cuts |->
  << Cut("payer", 0, 32), Cut("mint_account", 32, 64), Cut("curve_account", 64, 96),
     Cut("pool_token_account", 96, 128), Cut("pool_sol_account", 128, 160),
     Cut("fee_recipient", 160, 192), Cut("base_fee_recipient", 192, 224),
     Cut("params_account", 224, 256), Cut("swap_fee", 256, 258),
     Cut("borrow_fee", 258, 260), Cut("fee_discount_flag", 260, 261) >>]
BuySell ==
  [need |-> 97, cuts |->
  << Cut("payer", 0, 32), Cut("mint_account", 32, 64), Cut("is_buy", 64, 65),
     Cut("token_amount", 65, 73), Cut("sol_amount", 73, 81), Cut("latest_price", 81, 97) >>]
LongShort ==
  [need |-> 259, cuts |->
  << Cut("payer", 0, 32), Cut("mint_account", 32, 64), Cut("order_pda", 64, 96),
     Cut("latest_price", 96, 112), Cut("order_type", 112, 113), Cut("mint", 113, 145),
     Cut("user", 145, 177), Cut("lock_lp_start_price", 177, 193),
     Cut("lock_lp_end_price", 193, 209), Cut("lock_lp_sol_amount", 209, 217),
     Cut("lock_lp_token_amount", 217, 225), Cut("start_time", 225, 229),
     Cut("end_time", 229, 233), Cut("margin_sol_amount", 233, 241),
     Cut("borrow_amount", 241, 249), Cut("position_asset_amount", 249, 257),
     Cut("borrow_fee", 257, 259) >>]
ForceLiquidateFaulty ==   \* a slip a property must notice: two accounts change places
  [need |-> 96, cuts |->
  << Cut("payer", 0, 32), Cut("order_pda", 32, 64), Cut("mint_account", 64, 96) >>]
ForceLiquidate ==
  [need |-> 96, cuts |->
  << Cut("payer", 0, 32), Cut("mint_account", 32, 64), Cut("order_pda", 64, 96) >>]
FullClose ==
  [need |-> 169, cuts |->
  << Cut("payer", 0, 32), Cut("user_sol_account", 32, 64), Cut("mint_account", 64, 96),
     Cut("is_close_long", 96, 97), Cut("final_token_amount", 97, 105),
     Cut("final_sol_amount", 105, 113), Cut("user_close_profit", 113, 121),
     Cut("latest_price", 121, 137), Cut("order_pda", 137, 169) >>]
PartialClose ==
  [need |-> 332, cuts |->
  FullClose.cuts \o
  << Cut("order_type", 169, 170), Cut("mint", 170, 202), Cut("user", 202, 234),
     Cut("lock_lp_start_price", 234, 250), Cut("lock_lp_end_price", 250, 266),
     Cut("lock_lp_sol_amount", 266, 274), Cut("lock_lp_token_amount", 274, 282),
     Cut("start_time", 282, 286), Cut("end_time", 286, 290),
     Cut("margin_init_sol_amount", 290, 298), Cut("margin_sol_amount", 298, 306),
     Cut("borrow_amount", 306, 314), Cut("position_asset_amount", 314, 322),
     Cut("borrow_fee", 322, 324), Cut("realized_sol_amount", 324, 332) >>]
MilestoneDiscount ==
  [need |-> 99, cuts |->
  << Cut("payer", 0, 32), Cut("mint_account", 32, 64), Cut("curve_account", 64, 96),
     Cut("swap_fee", 96, 98), Cut("borrow_fee", 98, 100), Cut("fee_discount_flag", 100, 101) >>]
Parser(k) ==
  CASE k = "TokenCreated" -> TokenCreated [] k = "BuySell" -> BuySell
    [] k = "LongShort" -> LongShort [] k = "ForceLiquidate" -> ForceLiquidate
    [] k = "FullClose" -> FullClose [] k = "PartialClose" -> PartialClose
    [] k = "MilestoneDiscount" -> MilestoneDiscount

(* The strings that follow the fixed fields of a TokenCreated: a length of *)
(* four bytes, then as many bytes, each tested against the end.            *)
U32(data, at) == data[at + 1].value + 256 * data[at + 2].value
                 + 65536 * data[at + 3].value + 16777216 * data[at + 4].value
Missing == [name |-> "missing", from |-> 0, to |-> 0]
StringCut(data, name, offset) ==
  IF offset + 4 > Len(data) THEN Missing
  ELSE LET end == offset + 4 + U32(data, offset)
       IN IF end > Len(data) THEN Missing ELSE Cut(name, offset + 4, end)
StringAfter(cut, data, name) ==   \* the one after a string that was read
  IF cut = Missing THEN Missing ELSE StringCut(data, name, cut.to)
StringCuts(data) ==
  LET name == StringCut(data, "name", 261)
      symbol == StringAfter(name, data, "symbol")
      uri == StringAfter(symbol, data, "uri")
  IN <<name, symbol, uri>>

Nothing == [type |-> "nothing"]   \* no event: too short, unknown, or an error
Panic == [type |-> "panic"]       \* a cut beyond the end of the bytes
Event(k, data, cuts) ==
  IF \E i \in DOMAIN cuts : cuts[i].to > Len(data) THEN Panic
  ELSE [type |-> k, fields |-> [i \in DOMAIN cuts |->
         <<cuts[i].name, SubSeq(data, cuts[i].from + 1, cuts[i].to)>>]]

ParseAs(k, data) ==
  IF Len(data) < Parser(k).need THEN Nothing
  ELSE IF k # "TokenCreated" THEN Event(k, data, Parser(k).cuts)
  ELSE LET strings == StringCuts(data)
       IN IF strings[3] = Missing THEN Nothing
          ELSE Event(k, data, Parser(k).cuts \o strings)

Discriminator == [k \in EventTypes |->
  CASE k = "TokenCreated" -> <<96, 122, 113, 138, 50, 227, 149, 57>>
    [] k = "BuySell" -> <<98, 208, 120, 60, 93, 32, 19, 180>>
    [] k = "LongShort" -> <<27, 69, 20, 116, 58, 250, 95, 220>>
    [] k = "ForceLiquidate" -> <<234, 196, 183, 105, 40, 26, 206, 48>>
    [] k = "FullClose" -> <<22, 244, 113, 245, 154, 168, 109, 139>>
    [] k = "PartialClose" -> <<133, 94, 3, 222, 24, 68, 69, 155>>
    [] k = "MilestoneDiscount" -> <<130, 232, 11, 37, 34, 185, 136, 128>>]

Decode(bytes) ==
  IF Len(bytes) < 8 THEN Nothing
  ELSE LET matches == {k \in EventTypes : Discriminator[k] = [i \in 1..8 |-> bytes[i].value]}
       IN IF matches = {} THEN Nothing
          ELSE ParseAs(CHOOSE k \in matches : TRUE, SubSeq(bytes, 9, Len(bytes)))

-----------------------------------------------------------------------------
(* The fields of an event as the program wrote them                        *)
FieldsOf(k, lengths) ==
  [i \in DOMAIN IdlFields[k] |->
    LET field == IdlFields[k][i]
        width == IF field[1] = "string" THEN lengths[field[2]] ELSE Width(field[1])
    IN <<field[2], Content(field[2], width)>>]

(* The types whose every event is decoded to itself: each field whole,     *)
(* under its own name, and none left out; and of whose events, where they  *)
(* break off, the parser makes none: it refuses them, or, for the one type *)
(* whose length test is short, panics.                                     *)
DecodedExactly == {k \in EventTypes :
  \A lengths \in [{"name", "symbol", "uri"} -> StringLengths] :
    LET bytes == Emitted(k, lengths)
    IN /\ Decode(bytes) = [type |-> k, fields |-> FieldsOf(k, lengths)]
       /\ \A n \in 0..Len(bytes) - 1 :
            LET event == Decode(SubSeq(bytes, 1, n))
            IN event = Nothing \/ (k = "MilestoneDiscount" /\ event = Panic)}
=============================================================================
