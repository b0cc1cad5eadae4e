-------------------------- MODULE AuctionHouseProofs --------------------------
(***************************************************************************)
(* Solvency, custody and finality of the auction house, for any number of  *)
(* bidders, any amounts, any schedule of parameters and any run of failed  *)
(* payments.                                                               *)
(***************************************************************************)
EXTENDS AuctionHouse, TLAPS

\* What the properties rest on: before the first auction the record is
\* blank, ids only grow, an auction is settled only once its end has come,
\* and without a bidder there is no bid.
Record ==
    /\ now # 0
    /\ ~Started => auction = NoAuction
    /\ Started => auction.nounId < currentNounId
    /\ auction.settled => Started /\ now >= auction.endTime
    /\ auction.bidder = ZERO => auction.amount = 0

Inv == TypeOK /\ Record /\ Solvent /\ Custody /\ UnpausedMeansLive

LEMMA InitInv == Init => Inv
<1> SUFFICES ASSUME Init PROVE Inv
  OBVIOUS
<1> USE AuctionConstants
<1>1. TypeOK
  BY DEF Init, TypeOK, Auction, NoAuction, NounIds, Holders
<1>2. Record /\ Solvent /\ UnpausedMeansLive
  BY DEF Init, Record, Solvent, UnpausedMeansLive, Live, Started, NoAuction
<1>3. Custody
  BY DEF Init, Custody, Live, Started, NoAuction
<1>4. QED
  BY <1>1, <1>2, <1>3 DEF Inv

LEMMA PaymentTypes ==
    ASSUME NEW e \in [Holders -> Nat], NEW to \in Holders, NEW amount \in Nat,
           NEW ok \in BOOLEAN
    PROVE  PayETH(e, to, amount, ok) \in [Holders -> Nat]
           /\ PayWETH(e, to, amount, ok) \in [Holders -> Nat]
BY DEF PayETH, PayWETH

\* Opening an auction, or failing to, when the house holds neither a noun
\* nor money.
LEMMA CreateAuctionStep ==
    ASSUME TypeOK, Record, NEW o \in [NounIds -> Bidders \cup {HOUSE, NOUNDERS, ZERO}],
           \A id \in NounIds : o[id] # HOUSE,
           NEW old \in Auction, old.settled \/ old = NoAuction,
           createAuction(o, old), UNCHANGED now
    PROVE  /\ auction' \in Auction /\ paused' \in BOOLEAN
           /\ owners' \in [NounIds -> Bidders \cup {HOUSE, NOUNDERS, ZERO}]
           /\ currentNounId' \in Nat /\ currentNounId' >= currentNounId
           /\ Custody' /\ UnpausedMeansLive'
           /\ \/ auction' = old
              \/ /\ auction'.amount = 0 /\ auction'.bidder = ZERO /\ ~auction'.settled
                 /\ Started' /\ auction'.nounId < currentNounId'
                 /\ auction'.nounId >= currentNounId
<1> USE AuctionConstants
<1>1. currentNounId \in Nat /\ NextNoun \in Nat /\ NextNoun >= currentNounId
  BY DEF TypeOK, NextNoun
<1>2. CASE MintReverts /\ paused' = TRUE /\ owners' = o /\ auction' = old /\ UNCHANGED currentNounId
  <2>1. ~Live'
    BY <1>2 DEF Live, Started, NoAuction
  <2>2. Custody' /\ UnpausedMeansLive'
    BY <1>2, <2>1 DEF Custody, UnpausedMeansLive
  <2>3. QED
    BY <1>1, <1>2, <2>2
<1>3. CASE ~MintReverts /\ OpenAuction(o) /\ paused' = FALSE
  <2>1. NextNoun \in NounIds
    BY <1>1, <1>3 DEF OpenAuction, NounIds
  <2>2. /\ auction' \in Auction /\ auction'.amount = 0 /\ auction'.bidder = ZERO
        /\ ~auction'.settled /\ auction'.nounId = NextNoun /\ Started'
        /\ currentNounId' = NextNoun + 1
    BY <1>3, <2>1 DEF OpenAuction, Auction, TypeOK, Record, Started
  <2>3. /\ owners' \in [NounIds -> Bidders \cup {HOUSE, NOUNDERS, ZERO}]
        /\ \A id \in NounIds : owners'[id] = HOUSE <=> id = NextNoun
    BY <1>3 DEF OpenAuction, Mint, TypeOK
  <2>4. Custody' /\ UnpausedMeansLive'
    BY <2>2, <2>3 DEF Custody, UnpausedMeansLive, Live
  <2>5. currentNounId' \in Nat /\ currentNounId' >= currentNounId
        /\ auction'.nounId < currentNounId' /\ auction'.nounId >= currentNounId
    BY <1>1, <2>2
  <2>6. QED
    BY ZenonT(60), <1>3, <2>2, <2>3, <2>4, <2>5
<1>4. QED
  BY ZenonT(60), <1>2, <1>3 DEF createAuction

\* What the body of _settleAuction leaves behind
LEMMA SettleEffect ==
    ASSUME Inv, NEW ok \in BOOLEAN, settleAuction(ok)
    PROVE  /\ houseETH' = 0
           /\ eth' \in [Holders -> Nat] /\ weth' \in [Holders -> Nat]
           /\ price' \in [NounIds -> Nat]
           /\ Delivered \in [NounIds -> Bidders \cup {HOUSE, NOUNDERS, ZERO}]
           /\ \A id \in NounIds : Delivered[id] # HOUSE
           /\ SettledAuction \in Auction /\ SettledAuction.settled
           /\ Live /\ now >= auction.endTime
<1> USE AuctionConstants
<1>1. Live /\ now >= auction.endTime /\ DAO \in Holders
  BY DEF settleAuction, CanSettle, Holders
<1>2. /\ auction \in Auction /\ auction.amount \in Nat /\ auction.nounId \in NounIds
      /\ auction.bidder \in Bidders \cup {ZERO}
  BY DEF Inv, TypeOK, Auction
<1>3. houseETH' = 0
  BY <1>1, <1>2 DEF settleAuction, Inv, Solvent
<1>4. eth' \in [Holders -> Nat] /\ weth' \in [Holders -> Nat] /\ price' \in [NounIds -> Nat]
  BY ZenonT(60), <1>1, <1>2, PaymentTypes DEF settleAuction, Inv, TypeOK
<1>5. /\ Delivered \in [NounIds -> Bidders \cup {HOUSE, NOUNDERS, ZERO}]
      /\ \A id \in NounIds : Delivered[id] # HOUSE
  BY <1>1, <1>2 DEF Delivered, Inv, TypeOK, Custody
<1>6. SettledAuction \in Auction /\ SettledAuction.settled
  BY ZenonT(60), <1>2 DEF SettledAuction, Auction
<1>7. QED
  BY <1>1, <1>3, <1>4, <1>5, <1>6

LEMMA SettleStep ==
    ASSUME Inv, NEW ok \in BOOLEAN, SettleAuction(ok) PROVE Inv'
<1> USE AuctionConstants
<1>1. settleAuction(ok) /\ owners' = Delivered /\ auction' = SettledAuction
  BY DEF SettleAuction
<1>2. UNCHANGED <<paused, timeBuffer, reservePrice, minBidIncrementPercentage, duration,
                  currentNounId, isMinter, noundersDAO, now>> /\ paused
  BY DEF SettleAuction, params
<1>3. TypeOK'
  BY <1>1, <1>2, SettleEffect DEF Inv, TypeOK
<1>4. /\ auction'.settled /\ auction'.startTime = auction.startTime
      /\ auction'.endTime = auction.endTime /\ auction'.nounId = auction.nounId
      /\ auction'.bidder = auction.bidder /\ auction'.amount = auction.amount
  BY <1>1 DEF SettledAuction, Inv, TypeOK, Auction
<1>5. Record'
  BY <1>1, <1>2, <1>4, SettleEffect DEF Inv, Record, Live, Started
<1>6. Solvent' /\ Custody' /\ UnpausedMeansLive'
  BY <1>1, <1>2, <1>4, SettleEffect DEF Solvent, Custody, UnpausedMeansLive, Live
<1>7. QED
  BY <1>3, <1>5, <1>6 DEF Inv

LEMMA SettleAndCreateStep ==
    ASSUME Inv, NEW ok \in BOOLEAN, SettleCurrentAndCreateNewAuction(ok)
    PROVE  Inv' /\ (auction' = SettledAuction \/ auction'.nounId > auction.nounId)
<1> USE AuctionConstants
<1>1. settleAuction(ok) /\ createAuction(Delivered, SettledAuction)
  BY DEF SettleCurrentAndCreateNewAuction
<1>2. UNCHANGED <<timeBuffer, reservePrice, minBidIncrementPercentage, duration,
                  isMinter, noundersDAO, now>>
  BY DEF SettleCurrentAndCreateNewAuction, params
<1>3. /\ auction' \in Auction /\ paused' \in BOOLEAN
      /\ owners' \in [NounIds -> Bidders \cup {HOUSE, NOUNDERS, ZERO}]
      /\ currentNounId' \in Nat /\ currentNounId' >= currentNounId
      /\ Custody' /\ UnpausedMeansLive'
      /\ \/ auction' = SettledAuction
         \/ /\ auction'.amount = 0 /\ auction'.bidder = ZERO /\ ~auction'.settled
            /\ Started' /\ auction'.nounId < currentNounId'
            /\ auction'.nounId >= currentNounId
  BY SMTT(60), <1>1, <1>2, SettleEffect, CreateAuctionStep DEF Inv
<1>4. TypeOK'
  BY <1>1, <1>2, <1>3, SettleEffect DEF Inv, TypeOK
<1>5. CASE auction' = SettledAuction
  <2>1. /\ auction'.settled /\ auction'.startTime = auction.startTime
        /\ auction'.endTime = auction.endTime /\ auction'.nounId = auction.nounId
        /\ auction'.bidder = auction.bidder /\ auction'.amount = auction.amount
    BY SMTT(60), <1>5 DEF SettledAuction, Inv, TypeOK, Auction
  <2>2. Record'
    BY SMTT(60), <1>1, <1>2, <1>3, <2>1, SettleEffect
       DEF Inv, TypeOK, Auction, NounIds, Record, Live, Started
  <2>3. Solvent'
    BY <1>1, <2>1, SettleEffect DEF Solvent, Live
  <2>4. QED
    BY <1>3, <1>4, <1>5, <2>2, <2>3 DEF Inv
<1>6. CASE auction' # SettledAuction
  <2>1. Record' /\ Solvent'
    BY <1>1, <1>2, <1>3, <1>6, SettleEffect DEF Inv, Record, Solvent, Live
  <2>2. Started
    BY <1>1, SettleEffect DEF Live
  <2>3. /\ auction.nounId < currentNounId /\ auction.nounId \in NounIds
        /\ auction'.nounId \in NounIds /\ currentNounId \in Nat
    BY SMTT(60), <1>3, <2>2 DEF Inv, TypeOK, Auction, Record
  <2>4. auction'.nounId >= currentNounId
    BY <1>3, <1>6
  <2>5. auction'.nounId > auction.nounId
    BY <2>3, <2>4 DEF NounIds
  <2>6. QED
    BY <1>3, <1>4, <2>1, <2>5 DEF Inv
<1>7. QED
  BY <1>5, <1>6

LEMMA BidStep ==
    ASSUME Inv, NEW a \in Bidders, NEW value \in 0 .. Wallet, NEW ok \in BOOLEAN,
           CreateBid(a, value, ok)
    PROVE  Inv' /\ Live
<1> USE AuctionConstants
<1>1. /\ now < auction.endTime /\ value <= eth[a]
      /\ UNCHANGED <<paused, timeBuffer, reservePrice, minBidIncrementPercentage, duration,
                     owners, currentNounId, isMinter, noundersDAO, price, now>>
  BY SMTT(60) DEF CreateBid, params, token
<1>2. Live
  BY <1>1 DEF Inv, TypeOK, Auction, Record, Live, Started, NoAuction
<1>3. /\ auction' = BidOn(a, value)
      /\ auction \in Auction /\ auction.amount \in Nat /\ now \in Nat /\ timeBuffer \in Nat
      /\ value \in Nat /\ a \in Holders
  BY DEF CreateBid, Inv, TypeOK, Auction, Holders
<1>4. /\ auction' \in Auction /\ auction'.amount = value /\ auction'.bidder = a
      /\ auction'.nounId = auction.nounId /\ auction'.startTime = auction.startTime
      /\ auction'.settled = auction.settled
  <2> DEFINE end == IF Extended THEN now + timeBuffer ELSE auction.endTime
  <2>1. end \in Nat
    BY <1>3 DEF Auction
  <2>2. auction' = [auction EXCEPT !.amount = value, !.bidder = a, !.endTime = end]
    BY <1>3 DEF BidOn
  <2> HIDE DEF end
  <2>3. QED
    BY ZenonT(60), <1>3, <2>1, <2>2 DEF Auction
<1>5. houseETH' = value
  BY <1>2, <1>3 DEF CreateBid, Inv, TypeOK, Solvent, Record
<1>6. eth' \in [Holders -> Nat] /\ weth' \in [Holders -> Nat]
  <2> DEFINE spent == [eth EXCEPT ![a] = @ - value]
  <2>1. spent \in [Holders -> Nat] /\ weth \in [Holders -> Nat]
    BY <1>1, <1>3 DEF Inv, TypeOK
  <2>2. auction.bidder = ZERO \/ auction.bidder \in Holders
    BY <1>3 DEF Auction, Holders
  <2>3. IF auction.bidder = ZERO
        THEN eth' = spent /\ weth' = weth
        ELSE /\ eth' = PayETH(spent, auction.bidder, auction.amount, ok)
             /\ weth' = PayWETH(weth, auction.bidder, auction.amount, ok)
    BY DEF CreateBid
  <2> HIDE DEF spent
  <2>4. CASE auction.bidder = ZERO
    BY <2>1, <2>3, <2>4
  <2>5. CASE auction.bidder # ZERO
    <3>1. /\ PayETH(spent, auction.bidder, auction.amount, ok) \in [Holders -> Nat]
          /\ PayWETH(weth, auction.bidder, auction.amount, ok) \in [Holders -> Nat]
      BY ZenonT(60), <2>1, <2>2, <2>5, <1>3, PaymentTypes
    <3>2. QED
      BY <2>3, <2>5, <3>1
  <2>6. QED
    BY <2>4, <2>5
<1>7. TypeOK'
  BY <1>1, <1>3, <1>4, <1>5, <1>6 DEF Inv, TypeOK
<1>8. Record' /\ Solvent' /\ Custody' /\ UnpausedMeansLive'
  BY <1>1, <1>2, <1>4, <1>5 DEF Inv, Record, Solvent, Custody, UnpausedMeansLive, Live, Started
<1>9. QED
  BY <1>2, <1>7, <1>8 DEF Inv

LEMMA UnpauseStep ==
    ASSUME Inv, Unpause
    PROVE  Inv' /\ (auction' = auction \/ auction'.nounId > auction.nounId \/ ~Started)
<1> USE AuctionConstants
<1>1. /\ UNCHANGED <<timeBuffer, reservePrice, minBidIncrementPercentage, duration,
                     houseETH, eth, weth, isMinter, noundersDAO, price, now>>
  BY DEF Unpause, params, money
<1>2. CASE ~Started \/ auction.settled
  <2>1. createAuction(owners, auction) /\ ~Live
    BY <1>2 DEF Unpause, Live
  <2>2. /\ \A id \in NounIds : owners[id] # HOUSE
        /\ auction.settled \/ auction = NoAuction
        /\ auction \in Auction /\ houseETH = 0
        /\ owners \in [NounIds -> Bidders \cup {HOUSE, NOUNDERS, ZERO}]
    BY <1>2, <2>1 DEF Inv, Custody, Record, TypeOK, Solvent
  <2>3. /\ auction' \in Auction /\ paused' \in BOOLEAN
        /\ owners' \in [NounIds -> Bidders \cup {HOUSE, NOUNDERS, ZERO}]
        /\ currentNounId' \in Nat /\ currentNounId' >= currentNounId
        /\ Custody' /\ UnpausedMeansLive'
        /\ \/ auction' = auction
           \/ /\ auction'.amount = 0 /\ auction'.bidder = ZERO /\ ~auction'.settled
              /\ Started' /\ auction'.nounId < currentNounId'
              /\ auction'.nounId >= currentNounId
    BY <1>1, <2>1, <2>2, CreateAuctionStep DEF Inv
  <2>4. TypeOK'
    BY <1>1, <2>3 DEF Inv, TypeOK
  <2>5. CASE auction' = auction
    <3>1. Record' /\ Solvent'
      BY SMTT(60), <1>1, <2>1, <2>2, <2>3, <2>5
         DEF Inv, TypeOK, Auction, NounIds, Record, Solvent, Live, Started
    <3>2. QED
      BY SMTT(60), <2>3, <2>4, <2>5, <3>1 DEF Inv
  <2>6. CASE auction' # auction
    <3>1. Record' /\ Solvent'
      BY SMTT(60), <1>1, <2>2, <2>3, <2>6 DEF Inv, Record, Solvent, Live
    <3>2. auction'.nounId > auction.nounId \/ ~Started
      BY SMTT(60), <2>3, <2>6 DEF Inv, TypeOK, Auction, NounIds, Record
    <3>3. QED
      BY SMTT(60), <2>3, <2>4, <3>1, <3>2 DEF Inv
  <2>7. QED
    BY <2>5, <2>6
<1>3. CASE ~(~Started \/ auction.settled)
  <2>1. paused' = FALSE /\ UNCHANGED <<auction, owners, currentNounId>>
    BY <1>3 DEF Unpause
  <2>2. QED
    BY ZenonT(60), <1>1, <1>3, <2>1
       DEF Inv, TypeOK, Record, Solvent, Custody, UnpausedMeansLive, Live, Started
<1>4. QED
  BY <1>2, <1>3

\* The step that takes an auction away once it is settled
Final == auction.settled => auction' = auction \/ auction'.nounId > auction.nounId

LEMMA StepInv == Inv /\ [Next]_vars => Inv' /\ Final
<1> SUFFICES ASSUME Inv, [Next]_vars PROVE Inv' /\ Final
  OBVIOUS
<1> USE AuctionConstants
<1>1. ASSUME NEW ok \in BOOLEAN, SettleAuction(ok) PROVE Inv' /\ Final
  BY <1>1, SettleStep, SettleEffect DEF SettleAuction, Final, Live
<1>2. ASSUME NEW ok \in BOOLEAN, SettleCurrentAndCreateNewAuction(ok) PROVE Inv' /\ Final
  BY <1>2, SettleAndCreateStep, SettleEffect DEF SettleCurrentAndCreateNewAuction, Final, Live
<1>3. ASSUME NEW a \in Bidders, NEW value \in 0 .. Wallet, NEW ok \in BOOLEAN,
             CreateBid(a, value, ok)
      PROVE  Inv' /\ Final
  BY <1>3, BidStep DEF Final, Live
<1>4. CASE Unpause
  BY <1>4, UnpauseStep DEF Final, Inv, Record
<1>5. ASSUME UNCHANGED <<auction, houseETH, eth, weth, owners, currentNounId, price>>,
             paused' \in BOOLEAN, paused' = paused \/ paused' = TRUE, now' = now \/ now' = now + 1,
             isMinter' \in BOOLEAN, noundersDAO' \in {NOUNDERS, ZERO},
             timeBuffer' \in Nat, reservePrice' \in Nat,
             minBidIncrementPercentage' \in Nat, duration' \in Nat
      PROVE  Inv' /\ Final
  <2>1. TypeOK'
    BY <1>5 DEF Inv, TypeOK
  <2>2. Record'
    BY <1>5 DEF Inv, TypeOK, Auction, Record, Started
  <2>3. Solvent' /\ Custody' /\ UnpausedMeansLive'
    BY <1>5 DEF Inv, Solvent, Custody, UnpausedMeansLive, Live, Started
  <2>4. QED
    BY <1>5, <2>1, <2>2, <2>3 DEF Inv, Final
<1>6. TypeOK
  BY SMTT(60) DEF Inv
<1>7. CASE Pause
  BY SMTT(60), <1>5, <1>6, <1>7 DEF Pause, params, money, token, TypeOK
<1>8. CASE SetTimeBuffer
  BY SMTT(60), <1>5, <1>6, <1>8 DEF SetTimeBuffer, money, token, TypeOK
<1>9. CASE SetReservePrice
  BY SMTT(60), <1>5, <1>6, <1>9 DEF SetReservePrice, money, token, TypeOK
<1>10. CASE SetMinBidIncrementPercentage
  BY SMTT(60), <1>5, <1>6, <1>10 DEF SetMinBidIncrementPercentage, money, token, TypeOK
<1>11. CASE SetDuration
  BY SMTT(60), <1>5, <1>6, <1>11 DEF SetDuration, money, token, TypeOK
<1>12. CASE SetMinter
  BY SMTT(60), <1>5, <1>6, <1>12 DEF SetMinter, params, money, TypeOK
<1>13. CASE SetNoundersDAO
  BY <1>5, <1>6, <1>13 DEF SetNoundersDAO, params, money, TypeOK
<1>14. CASE Tick
  BY SMTT(60), <1>5, <1>6, <1>14 DEF Tick, params, money, token, TypeOK
<1>15. CASE UNCHANGED vars
  BY <1>5, <1>6, <1>15 DEF vars, params, money, token, TypeOK
<1>16. QED
  BY <1>1, <1>2, <1>3, <1>4, <1>7, <1>8, <1>9, <1>10, <1>11, <1>12, <1>13, <1>14, <1>15
     DEF Next, Settle, Bid, Owner, TokenOwner

LEMMA InvAlways == Spec => []Inv
<1>1. Inv /\ [Next]_vars => Inv'
  BY StepInv
<1>2. QED
  BY InitInv, <1>1, PTL DEF Spec

\* The variables keep their types: no balance goes below zero.
THEOREM AuctionTypes == Spec => []TypeOK
<1>1. Inv => TypeOK
  BY DEF Inv
<1>2. QED
  BY InvAlways, <1>1, PTL

\* The house always holds exactly the bid it may have to return.
THEOREM HouseIsSolvent == Spec => []Solvent
<1>1. Inv => Solvent
  BY DEF Inv
<1>2. QED
  BY InvAlways, <1>1, PTL

\* The house always holds exactly the noun it is selling.
THEOREM HouseHasTheNoun == Spec => []Custody
<1>1. Inv => Custody
  BY DEF Inv
<1>2. QED
  BY InvAlways, <1>1, PTL

\* An unpaused house is selling a noun, whatever becomes of the minter role.
THEOREM UnpausedHouseSells == Spec => []UnpausedMeansLive
<1>1. Inv => UnpausedMeansLive
  BY DEF Inv
<1>2. QED
  BY InvAlways, <1>1, PTL

\* No bid reaches a settled auction.
THEOREM SettlementIsFinal == Spec => SettledIsFinal
<1>1. Inv /\ [Next]_vars => [Final]_vars
  BY StepInv
<1>2. [Final]_vars => [auction.settled => auction' = auction \/ auction'.nounId > auction.nounId]_vars
  BY DEF Final
<1>3. QED
  BY InvAlways, <1>1, <1>2, PTL DEF Spec, SettledIsFinal

==============================================================================
