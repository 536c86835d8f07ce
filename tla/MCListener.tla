----------------------------- MODULE MCListener -----------------------------
(* Instances of Listener for TLC.                                          *)
(*   1: another program calls the target, which swaps and changes an order *)
(*      twice; the notification stops after the swap                       *)
(*   2: a transaction that failed                                          *)
(*   3: the target creates, calls another program and swaps twice          *)
EXTENDS Listener, Decoder

(* A data line of the target program is decoded first, and the listener    *)
(* tells events apart by their kind and, if they have one, their order.    *)
Strings == [f \in {"name", "symbol", "uri"} |-> 2]
KeyOf(event, order) ==
  CASE event \in {Nothing, Panic} -> NoKey
    [] event.type = "TokenCreated" -> "create" [] event.type = "BuySell" -> "trade"
    [] event.type = "MilestoneDiscount" -> "discount" [] OTHER -> order
Line(k, order) == Data("target", KeyOf(Decode(Emitted(k, Strings)), order))
Open == Line("LongShort", "orderB")
Close == Line("FullClose", "orderB")
Liquidate == Line("ForceLiquidate", "orderA")
Discount == Line("MilestoneDiscount", NoKey)
Swap == Line("BuySell", NoKey)
Create == Line("TokenCreated", NoKey)
Change == Line("PartialClose", "orderA")

Nest == << Invoke("other", 1), Data("other", NoKey), Invoke("target", 2), Swap,
           Says(FALSE), Change, Change, Exit("target"),
           Exit("other") >>
Fail == << Invoke("target", 1), Swap, Open, Close, Liquidate, Discount, Exit("target") >>
Swaps == << Invoke("target", 1), Create, Invoke("other", 2), Data("other", NoKey),
            Exit("other"), Swap, Swap, Exit("target") >>

MCLogsOf == <<Nest, Fail, Swaps>>
MCShownOf == <<5, 7, 8>>
MCTypesIn == << {"BuySell", "PartialClose"},
                {"BuySell", "LongShort", "FullClose", "ForceLiquidate", "MilestoneDiscount"},
                {"TokenCreated", "BuySell"} >>

ASSUME LogsAreWellFormed == LogsOf = MCLogsOf => LogsNest /\ OnlyTargetDecodes

(* Whatever a transaction executed so far has written is decoded to itself, *)
(* whole and under its own names, and cut short to no event: the some      *)
(* eighty offsets of parse_event_data, which no test looks at, agree with  *)
(* the program's IDL.                                                      *)
DecodesWhatIsWritten == \A t \in 1..executed : MCTypesIn[t] \subseteq DecodedExactly

(* One transaction whose target program logs a word the parser looks for.  *)
WordLogsOf == << << Invoke("target", 1), Says(TRUE), Swap, Exit("target") >> >>
WordShownOf == <<4>>
=============================================================================
