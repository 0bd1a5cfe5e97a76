----------------------------- MODULE Positions -----------------------------
(***************************************************************************)
(* What a trade's quantity and price go through, from the client's request *)
(* to the position of its tenant and instrument:                           *)
(*   - the REST handler parses the request's texts, the gRPC handler takes *)
(*     int64 amounts; both refuse what is not in (0, MaxAmount];           *)
(*   - the publisher writes both amounts as texts into the Kafka payload;  *)
(*   - the processor parses them again (decodeTransaction) and folds the   *)
(*     trade into the account (applyTrade), weighted-average-cost          *)
(*     accounting in int64 arithmetic.                                     *)
(* Delivery, retries and concurrent folds are Consumer's and Reconciler's; *)
(* here one trade is under way at a time, as it is for the records of one  *)
(* key on one partition.                                                   *)
(***************************************************************************)
EXTENDS Amounts

CONSTANTS
    Requests,   \* the REST requests: pairs of texts, for quantity and price
    Calls,      \* the gRPC requests: pairs of int64 amounts
    Openings,   \* accounts that earlier trades have led to
    MaxTrades   \* bound on the trades accepted

\* The rows of ReconciledState.
Accounts == [position : Ints, averageCost : Ints, realizedPnL : Ints]

\* A closed account that earlier trades have led to has no cost: FlatHasNoCost
\* says that trades keep it so, from the row of zeros of a new account on.
ASSUME PositionsAssumption ==
    /\ Requests \subseteq Texts \X Texts
    /\ Calls \subseteq Ints \X Ints
    /\ Openings \subseteq {a \in Accounts : a.position = 0 => a.averageCost = 0}
    /\ MaxTrades \in Nat

VARIABLES
    account,    \* the ReconciledState row: position, averageCost, realizedPnL
    stage,      \* where the trade under way is
    asked,      \* the quantity and price texts of the last request
    reply,      \* how the last request was answered
    wire,       \* the payload in Kafka
    trade,      \* the side and amounts in ingestion's or the processor's memory
    trades      \* trades accepted so far

vars == <<account, stage, asked, reply, wire, trade, trades>>

Sides == {"buy", "sell"}
NoTrade == [side |-> "buy", quantity |-> 0, price |-> 0]
NoWire == [side |-> "buy", quantity |-> Malformed, price |-> Malformed]
NoPair == <<Malformed, Malformed>>

Init ==
    /\ account \in Openings
    /\ stage = "idle"
    /\ asked = NoPair
    /\ reply = "none"
    /\ wire = NoWire
    /\ trade = NoTrade
    /\ trades = 0

-----------------------------------------------------------------------------
(* Ingestion.                                                              *)

\* Mutant of InBounds: no lower bound.
InBoundsAnySign(parsed) == ~parsed.err /\ parsed.value <= MaxAmount

\* quantity <= 0 || quantity > ledger.MaxAmount refuses the request.
InBounds(parsed) == ~parsed.err /\ parsed.value > 0 /\ parsed.value <= MaxAmount

\* Both handlers: validate, then hand the event to the publisher.
Submit(side, quantity, price, texts) ==
    /\ stage = "idle"
    /\ trades < MaxTrades
    /\ asked' = texts
    /\ IF InBounds(quantity) /\ InBounds(price)
       THEN /\ reply' = "accepted"
            /\ stage' = "accepted"
            /\ trade' = [side |-> side, quantity |-> quantity.value,
                         price |-> price.value]
            /\ trades' = trades + 1
       ELSE /\ reply' = "refused"
            /\ UNCHANGED <<stage, trade, trades>>
    /\ UNCHANGED <<account, wire>>

SubmitREST(side, texts) ==
    Submit(side, ParseAmount(texts[1]), ParseAmount(texts[2]), texts)

\* An int64 of a gRPC message is the text with all its places written out.
AsText(n) == Text(n < 0, Abs(n), AmountFractionDigits, 0)

SubmitGRPC(side, amounts) ==
    Submit(side, Ok(amounts[1]), Ok(amounts[2]),
           <<AsText(amounts[1]), AsText(amounts[2])>>)

Publish ==
    /\ stage = "accepted"
    /\ stage' = "published"
    /\ wire' = [side |-> trade.side, quantity |-> FormatAmount(trade.quantity),
                price |-> FormatAmount(trade.price)]
    /\ trade' = NoTrade
    /\ UNCHANGED <<account, asked, reply, trades>>

-----------------------------------------------------------------------------
(* The processor.                                                          *)

\* decodeTransaction: a payload that does not parse goes to the dead-letter
\* topic.
Decode ==
    LET quantity == ParseAmount(wire.quantity)
        price == ParseAmount(wire.price)
    IN
    /\ stage = "published"
    /\ IF quantity.err \/ price.err
       THEN stage' = "idle" /\ trade' = NoTrade
       ELSE /\ stage' = "decoded"
            /\ trade' = [side |-> wire.side, quantity |-> quantity.value,
                         price |-> price.value]
    /\ wire' = NoWire
    /\ UNCHANGED <<account, asked, reply, trades>>

\* A trade that extends the position: the average cost becomes the weighted
\* average of the existing cost and the trade's.
ExtendResult(state, signedQuantity, price) ==
    LET existingCost == MulAmount(state.position, state.averageCost)
        addedCost == MulAmount(signedQuantity, price)
        newPosition == Wrap(state.position + signedQuantity)
        averageCost == DivAmount(Wrap(existingCost.value + addedCost.value), newPosition)
        err == existingCost.err \/ addedCost.err \/ averageCost.err
    IN  [err |-> err,
         state |-> IF err THEN state
                   ELSE [state EXCEPT !.position = newPosition,
                                      !.averageCost = averageCost.value]]

\* Mutant of OpposeResult: the average cost of a position that is closed stays.
OpposeKeepingCost(state, signedQuantity, price) ==
    LET closingQuantity == IF Abs(state.position) < Abs(signedQuantity)
                           THEN Abs(state.position) ELSE Abs(signedQuantity)
        realized == MulAmount(closingQuantity,
                              IF state.position > 0 THEN price - state.averageCost
                              ELSE state.averageCost - price)
    IN  [err |-> realized.err,
         state |-> IF realized.err THEN state
                   ELSE [state EXCEPT
                           !.position = Wrap(state.position + signedQuantity),
                           !.realizedPnL = Wrap(@ + realized.value)]]

\* Mutant of OpposeResult: a short's profit is taken for a long's.
OpposeLongOnly(state, signedQuantity, price) ==
    LET closingQuantity == IF Abs(state.position) < Abs(signedQuantity)
                           THEN Abs(state.position) ELSE Abs(signedQuantity)
        realized == MulAmount(closingQuantity, Wrap(price - state.averageCost))
        newPosition == Wrap(state.position + signedQuantity)
    IN  [err |-> realized.err,
         state |-> IF realized.err THEN state
                   ELSE [position |-> newPosition,
                         averageCost |-> IF newPosition = 0 THEN 0
                                         ELSE IF Abs(signedQuantity) > closingQuantity
                                         THEN price ELSE state.averageCost,
                         realizedPnL |-> Wrap(state.realizedPnL + realized.value)]]

\* A trade against the position: it closes up to all of it and realizes the
\* profit or loss on what it closes; what is left of the trade opens a
\* position on the other side at the trade's price.
OpposeResult(state, signedQuantity, price) ==
    LET positionMagnitude == Wrap(Abs(state.position))
        quantityMagnitude == Wrap(Abs(signedQuantity))
        closingQuantity == IF positionMagnitude < quantityMagnitude
                           THEN positionMagnitude ELSE quantityMagnitude
        pnlPerUnit == IF state.position > 0 THEN Wrap(price - state.averageCost)
                      ELSE Wrap(state.averageCost - price)
        realized == MulAmount(closingQuantity, pnlPerUnit)
        flipQuantity == Wrap(quantityMagnitude - closingQuantity)
        newPosition == Wrap(state.position + signedQuantity)
    IN  [err |-> realized.err,
         state |-> IF realized.err THEN state
                   ELSE [position |-> newPosition,
                         averageCost |-> IF newPosition = 0 THEN 0
                                         ELSE IF flipQuantity > 0 THEN price
                                         ELSE state.averageCost,
                         realizedPnL |-> Wrap(state.realizedPnL + realized.value)]]

SameDirection(state, signedQuantity) ==
    state.position = 0 \/ (state.position > 0) = (signedQuantity > 0)

applyTrade(state, signedQuantity, price) ==
    IF SameDirection(state, signedQuantity)
    THEN ExtendResult(state, signedQuantity, price)
    ELSE OpposeResult(state, signedQuantity, price)

\* applyBuy and applySell.
SignedQuantity(txn) == IF txn.side = "buy" THEN txn.quantity ELSE Wrap(-txn.quantity)

\* Reconcile: an error of the arithmetic leaves the account as it was, and
\* the record ends in the dead-letter topic.  The request is over, and is
\* forgotten.
Reconcile ==
    /\ stage = "decoded"
    /\ account' = applyTrade(account, SignedQuantity(trade), trade.price).state
    /\ stage' = "idle"
    /\ trade' = NoTrade
    /\ asked' = NoPair
    /\ reply' = "none"
    /\ UNCHANGED <<wire, trades>>

Next ==
    \/ \E side \in Sides, texts \in Requests : SubmitREST(side, texts)
    \/ \E side \in Sides, amounts \in Calls : SubmitGRPC(side, amounts)
    \/ Publish
    \/ Decode
    \/ Reconcile

Spec == Init /\ [][Next]_vars

-----------------------------------------------------------------------------
(* Properties.                                                             *)

TypeOK ==
    /\ account \in Accounts
    /\ stage \in {"idle", "accepted", "published", "decoded"}
    /\ reply \in {"none", "accepted", "refused"}
    /\ stage \in {"accepted", "decoded"} =>
          trade \in [side : Sides, quantity : 1 .. MaxAmount, price : 1 .. MaxAmount]
    /\ trades \in 0 .. MaxTrades

\* The text is exactly n units of 1 / AmountScale: the rational number it
\* spells, with no regard to how the code computes it.
Denotes(text, n) ==
    /\ text # Malformed
    /\ LET power == text.exponent - text.places + AmountFractionDigits
           spelled == IF text.negative THEN -text.digits ELSE text.digits
       IN  IF power >= 0 THEN n = spelled * PowerOf10[power]
           ELSE n * PowerOf10[-power] = spelled

\* Nothing is wrong with a text: it is an amount the ledger can hold, written
\* with no more digits than a uint64 and no larger an exponent than allowed.
Acceptable(text) ==
    /\ \E n \in 1 .. MaxAmount : Denotes(text, n)
    /\ text.digits <= MaxUint
    /\ Abs(text.exponent) <= MaxExponent

\* HonestAmounts.  The amounts a client sent are the amounts that are folded:
\* through ParseAmount in the handler, FormatAmount in Publish and ParseAmount
\* in decodeTransaction nothing is rounded, shifted or cut, no accepted trade
\* is lost to a payload that does not parse, and only a request that does
\* have something wrong with it is refused.
HonestAmounts ==
    /\ stage = "decoded" => /\ Denotes(asked[1], trade.quantity)
                            /\ Denotes(asked[2], trade.price)
    /\ reply = "refused" => ~(Acceptable(asked[1]) /\ Acceptable(asked[2]))
    /\ reply = "accepted" => Acceptable(asked[1]) /\ Acceptable(asked[2])
    /\ stage = "published" => /\ ~ParseAmount(wire.quantity).err
                              /\ ~ParseAmount(wire.price).err

\* The exact results of the int64 sums, differences and negations applyTrade
\* computes are all int64 values.
SumsFit(state, signedQuantity, price) ==
    /\ state.position + signedQuantity \in Ints
    /\ SameDirection(state, signedQuantity) =>
          MulAmount(state.position, state.averageCost).value
             + MulAmount(signedQuantity, price).value \in Ints
    /\ ~SameDirection(state, signedQuantity) =>
          LET closing == IF Abs(state.position) < Abs(signedQuantity)
                         THEN Abs(state.position) ELSE Abs(signedQuantity)
              perUnit == IF state.position > 0 THEN price - state.averageCost
                         ELSE state.averageCost - price
          IN  /\ Abs(state.position) \in Ints
              /\ perUnit \in Ints
              /\ state.realizedPnL + MulAmount(closing, perUnit).value \in Ints

\* BooksBalance.  Each fold keeps the books balanced: what the account is
\* worth at cost plus what it has realized changes by exactly the money the
\* trade moved, up to the truncation of MulAmount and DivAmount (at most two
\* units of cost and one unit of average cost per unit held), on both sides,
\* for extending, reducing, closing and flipping trades, whenever the int64
\* sums of applyTrade do not wrap: they may, since the cost of what is held is
\* not bounded by MaxAmount.
BooksBalance ==
    [][LET signed == SignedQuantity(trade)
           worth == account.position * account.averageCost
           worthAfter == account'.position * account'.averageCost
           realized == account'.realizedPnL - account.realizedPnL
       IN  stage = "decoded" /\ account' # account
              /\ SumsFit(account, signed, trade.price)
           => /\ account'.position = account.position + signed
              /\ Abs(AmountScale * realized + signed * trade.price
                        - (worthAfter - worth))
                    < 2 * AmountScale + Abs(account'.position)]_vars

\* FlatHasNoCost.  A closed position has no cost basis left that a later
\* trade would blend in, even when sums have wrapped.
FlatHasNoCost == account.position = 0 => account.averageCost = 0
=============================================================================
