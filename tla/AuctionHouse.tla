----------------------------- MODULE AuctionHouse -----------------------------
(***************************************************************************)
(* The auction house sells one noun at a time.  It is the minter of the    *)
(* token, keeps the noun and the highest bid until the auction is settled, *)
(* refunds a bidder who is outbid, and pays the DAO that owns it.          *)
(*                                                                         *)
(* Sources: NounsAuctionHouse.sol, whose copy NounsAuctionHouseFork.sol    *)
(* differs only in how it is deployed; mint, burn and the roles are those  *)
(* of NounsToken.sol, reduced to what the auction sees of them.            *)
(*                                                                         *)
(* An ETH transfer may fail at the recipient; it is then made in WETH.     *)
(***************************************************************************)
EXTENDS Integers

CONSTANTS
    Bidders,        \* the accounts that bid
    DAO,            \* the owner of the house: the DAO's treasury
    HOUSE,          \* the address of the house
    NOUNDERS,       \* the nounders' address
    ZERO,           \* address(0)
    Wallet,         \* the ETH of each bidder at the start
    MaxNounId,      \* bound: the nouns are 0 .. MaxNounId
    MaxTime,        \* bound: the last block.timestamp
    RewardUntil,    \* 1820: the last noun that may be a nounders' reward
    RewardEvery,    \* 10: one noun in so many is a reward
    TimeBuffers, ReservePrices, Percentages, Durations
                    \* the values the owner may set, and deploys with

Holders == Bidders \cup {DAO}
NounIds == 0 .. MaxNounId

ASSUME AuctionConstants ==
    /\ {DAO, HOUSE, NOUNDERS, ZERO} \cap Bidders = {}
    /\ DAO # HOUSE /\ DAO # ZERO /\ DAO # NOUNDERS
    /\ HOUSE # ZERO /\ HOUSE # NOUNDERS /\ NOUNDERS # ZERO
    /\ Wallet \in Nat /\ MaxNounId \in Nat /\ MaxTime \in Nat
    /\ RewardUntil \in Int /\ RewardEvery \in Nat \ {0}
    /\ TimeBuffers \subseteq Nat /\ ReservePrices \subseteq Nat
    /\ Percentages \subseteq Nat /\ Durations \subseteq Nat

VARIABLES
    auction,        \* the active auction; startTime 0 before the first one
    paused,
    timeBuffer, reservePrice, minBidIncrementPercentage, duration,
    houseETH,       \* the ETH balance of the house
    eth, weth,      \* the balances of the bidders and of the DAO
    owners,         \* the token: owner of each noun
    currentNounId,  \* the token: next id
    isMinter,       \* the token: is the house still the minter?
    noundersDAO,    \* the token: the nounders' address, or ZERO
    price,          \* history: what the noun was sold for
    now             \* block.timestamp

params == <<timeBuffer, reservePrice, minBidIncrementPercentage, duration>>
money == <<houseETH, eth, weth>>
token == <<owners, currentNounId, isMinter, noundersDAO>>
vars == <<auction, paused, params, money, token, price, now>>

NoAuction == [nounId |-> 0, amount |-> 0, startTime |-> 0, endTime |-> 0,
              bidder |-> ZERO, settled |-> FALSE]

Started == auction.startTime # 0
Live == Started /\ ~auction.settled

------------------------------------------------------------------------------
(* The token, as the house calls it                                        *)

IsRewardId(id) == id <= RewardUntil /\ id % RewardEvery = 0

\* The noun that mint() gives to the house
NextNoun == IF IsRewardId(currentNounId) THEN currentNounId + 1 ELSE currentNounId

\* mint() reverts, with a reason string, when the house is not the minter or
\* a reward is due to address(0).
MintReverts == ~isMinter \/ (IsRewardId(currentNounId) /\ noundersDAO = ZERO)

Mint(o) ==
    [id \in NounIds |->
        IF id = NextNoun THEN HOUSE
        ELSE IF IsRewardId(currentNounId) /\ id = currentNounId THEN noundersDAO
        ELSE o[id]]

------------------------------------------------------------------------------
(* _createAuction, from the owners o: it opens an auction for the noun it  *)
(* mints or, when the mint reverts, pauses the house.                      *)

OpenAuction(o) ==
    /\ NextNoun <= MaxNounId
    /\ owners' = Mint(o)
    /\ currentNounId' = NextNoun + 1
    /\ auction' = [nounId |-> NextNoun, amount |-> 0, startTime |-> now,
                   endTime |-> now + duration, bidder |-> ZERO, settled |-> FALSE]

\* Mutant: the house stays unpaused when the mint reverts.
createAuctionNeverPauses(o, old) ==
    \/ ~MintReverts /\ OpenAuction(o) /\ paused' = FALSE
    \/ MintReverts /\ paused' = FALSE /\ owners' = o /\ auction' = old
       /\ UNCHANGED currentNounId

\* Mutant: the record of the last auction is deleted when the mint reverts.
createAuctionForgets(o, old) ==
    \/ ~MintReverts /\ OpenAuction(o) /\ paused' = FALSE
    \/ MintReverts /\ paused' = TRUE /\ owners' = o /\ auction' = NoAuction
       /\ UNCHANGED currentNounId

\* old is the auction that stays when none is opened
createAuction(o, old) ==
    \/ ~MintReverts /\ OpenAuction(o) /\ paused' = FALSE
    \/ MintReverts /\ paused' = TRUE /\ owners' = o /\ auction' = old
       /\ UNCHANGED currentNounId

\* Mutant: a failed transfer is not repeated in WETH.
PayWETHNever(w, to, amount, ok) == w

\* _safeTransferETHWithFallback: e and w are the ETH and the WETH balances
PayETH(e, to, amount, ok) == [e EXCEPT ![to] = @ + IF ok THEN amount ELSE 0]

PayWETH(w, to, amount, ok) == [w EXCEPT ![to] = @ + IF ok THEN 0 ELSE amount]

------------------------------------------------------------------------------
(* Settling                                                                *)

\* The guards of _settleAuction; burn() is for the minter only.
CanSettle ==
    /\ Live
    /\ now >= auction.endTime
    /\ auction.bidder = ZERO => isMinter

\* The token after the noun went to the winner, or was burnt for want of one
Delivered == [owners EXCEPT ![auction.nounId] = auction.bidder]

\* _settleAuction without its last write of the auction, for which see the
\* two callers; ok tells whether the DAO accepts the ETH.
settleAuction(ok) ==
    /\ CanSettle
    /\ houseETH' = houseETH - auction.amount
    /\ eth' = PayETH(eth, DAO, auction.amount, ok)
    /\ weth' = PayWETH(weth, DAO, auction.amount, ok)
    /\ price' = [price EXCEPT ![auction.nounId] = auction.amount]

SettledAuction == [auction EXCEPT !.settled = TRUE]

\* Mutant: an auction without bids cannot be settled while paused.
SettleAuctionSold(ok) ==
    /\ paused /\ auction.bidder # ZERO
    /\ settleAuction(ok)
    /\ owners' = Delivered
    /\ auction' = SettledAuction
    /\ UNCHANGED <<paused, params, currentNounId, isMinter, noundersDAO, now>>

SettleAuction(ok) ==
    /\ paused
    /\ settleAuction(ok)
    /\ owners' = Delivered
    /\ auction' = SettledAuction
    /\ UNCHANGED <<paused, params, currentNounId, isMinter, noundersDAO, now>>

\* Mutant: the next auction is opened before the current one is delivered.
SettleCurrentAndCreateUndelivered(ok) ==
    /\ ~paused
    /\ settleAuction(ok)
    /\ createAuction(owners, SettledAuction)
    /\ UNCHANGED <<params, isMinter, noundersDAO, now>>

SettleCurrentAndCreateNewAuction(ok) ==
    /\ ~paused
    /\ settleAuction(ok)
    /\ createAuction(Delivered, SettledAuction)
    /\ UNCHANGED <<params, isMinter, noundersDAO, now>>

------------------------------------------------------------------------------
(* Bidding: neither the pause nor the settled flag is looked at.           *)

MinimumBid ==
    auction.amount + (auction.amount * minBidIncrementPercentage) \div 100

Extended == auction.endTime - now < timeBuffer

\* Mutant: a late bid extends the auction by less than the buffer.
BidOnShortBuffer(bidder, value) ==
    [auction EXCEPT !.amount = value, !.bidder = bidder,
                    !.endTime = IF Extended THEN now + timeBuffer - 1 ELSE @]

BidOn(bidder, value) ==
    [auction EXCEPT !.amount = value, !.bidder = bidder,
                    !.endTime = IF Extended THEN now + timeBuffer ELSE @]

\* Mutant: the last bidder is refunded what the new bidder sends.
CreateBidRefundsValue(bidder, value, ok) ==
    LET last == auction.bidder
        spent == [eth EXCEPT ![bidder] = @ - value]
    IN  /\ now < auction.endTime
        /\ value >= reservePrice /\ value >= MinimumBid
        /\ value <= eth[bidder]
        /\ auction' = BidOn(bidder, value)
        /\ IF last = ZERO
           THEN houseETH' = houseETH + value /\ eth' = spent /\ UNCHANGED weth
           ELSE /\ UNCHANGED houseETH
                /\ eth' = PayETH(spent, last, value, ok)
                /\ weth' = PayWETH(weth, last, value, ok)
        /\ UNCHANGED <<paused, params, token, price, now>>

\* The value is in the house before the last bidder is refunded out of it.
CreateBid(bidder, value, ok) ==
    LET last == auction.bidder
        spent == [eth EXCEPT ![bidder] = @ - value]
    IN  /\ now < auction.endTime
        /\ value >= reservePrice /\ value >= MinimumBid
        /\ value <= eth[bidder]
        /\ auction' = BidOn(bidder, value)
        /\ IF last = ZERO
           THEN houseETH' = houseETH + value /\ eth' = spent /\ UNCHANGED weth
           ELSE /\ houseETH' = houseETH + value - auction.amount
                /\ eth' = PayETH(spent, last, auction.amount, ok)
                /\ weth' = PayWETH(weth, last, auction.amount, ok)
        /\ UNCHANGED <<paused, params, token, price, now>>

------------------------------------------------------------------------------
(* The owner                                                               *)

Pause ==
    /\ ~paused
    /\ paused' = TRUE
    /\ UNCHANGED <<auction, params, money, token, price, now>>

Unpause ==
    /\ paused
    /\ IF ~Started \/ auction.settled
       THEN createAuction(owners, auction)
       ELSE paused' = FALSE /\ UNCHANGED <<auction, owners, currentNounId>>
    /\ UNCHANGED <<params, money, isMinter, noundersDAO, price, now>>

SetTimeBuffer ==
    /\ timeBuffer' \in TimeBuffers
    /\ UNCHANGED <<auction, paused, reservePrice, minBidIncrementPercentage, duration,
                   money, token, price, now>>

SetReservePrice ==
    /\ reservePrice' \in ReservePrices
    /\ UNCHANGED <<auction, paused, timeBuffer, minBidIncrementPercentage, duration,
                   money, token, price, now>>

SetMinBidIncrementPercentage ==
    /\ minBidIncrementPercentage' \in Percentages
    /\ UNCHANGED <<auction, paused, timeBuffer, reservePrice, duration,
                   money, token, price, now>>

SetDuration ==
    /\ duration' \in Durations
    /\ UNCHANGED <<auction, paused, timeBuffer, reservePrice, minBidIncrementPercentage,
                   money, token, price, now>>

\* setMinter on the token, called by its owner with or without pausing first
SetMinter ==
    /\ isMinter' \in BOOLEAN
    /\ UNCHANGED <<auction, paused, params, money, owners, currentNounId, noundersDAO,
                   price, now>>

\* setNoundersDAO(address(0)): the nounders give up their reward
SetNoundersDAO ==
    /\ noundersDAO # ZERO
    /\ noundersDAO' = ZERO
    /\ UNCHANGED <<auction, paused, params, money, owners, currentNounId, isMinter,
                   price, now>>

Tick ==
    /\ now < MaxTime
    /\ now' = now + 1
    /\ UNCHANGED <<auction, paused, params, money, token, price>>

------------------------------------------------------------------------------
Init ==
    /\ auction = NoAuction
    /\ paused = TRUE
    /\ timeBuffer \in TimeBuffers /\ reservePrice \in ReservePrices
    /\ minBidIncrementPercentage \in Percentages /\ duration \in Durations
    /\ houseETH = 0
    /\ eth = [a \in Holders |-> IF a = DAO THEN 0 ELSE Wallet]
    /\ weth = [a \in Holders |-> 0]
    /\ owners = [id \in NounIds |-> ZERO]
    /\ currentNounId = 0
    /\ isMinter = TRUE
    /\ noundersDAO = NOUNDERS
    /\ price = [id \in NounIds |-> 0]
    /\ now = 1

Settle == \E ok \in BOOLEAN : SettleAuction(ok) \/ SettleCurrentAndCreateNewAuction(ok)

Bid == \E a \in Bidders, value \in 0 .. Wallet, ok \in BOOLEAN : CreateBid(a, value, ok)

Owner == \/ Pause \/ Unpause \/ SetTimeBuffer \/ SetReservePrice
         \/ SetMinBidIncrementPercentage \/ SetDuration

TokenOwner == SetMinter \/ SetNoundersDAO

Next == Settle \/ Bid \/ Owner \/ TokenOwner \/ Tick

Spec == Init /\ [][Next]_vars

\* Anyone may settle, and someone does; the clock goes on.
FairSpec == Spec /\ WF_vars(Settle) /\ WF_vars(Tick)

------------------------------------------------------------------------------
(* Properties                                                              *)

Auction == [nounId : NounIds, amount : Nat, startTime : Nat, endTime : Nat,
            bidder : Bidders \cup {ZERO}, settled : BOOLEAN]

TypeOK ==
    /\ auction \in Auction
    /\ paused \in BOOLEAN
    /\ timeBuffer \in Nat /\ reservePrice \in Nat
    /\ minBidIncrementPercentage \in Nat /\ duration \in Nat
    /\ houseETH \in Nat
    /\ eth \in [Holders -> Nat] /\ weth \in [Holders -> Nat]
    /\ owners \in [NounIds -> Bidders \cup {HOUSE, NOUNDERS, ZERO}]
    /\ currentNounId \in Nat
    /\ isMinter \in BOOLEAN /\ noundersDAO \in {NOUNDERS, ZERO}
    /\ price \in [NounIds -> Nat]
    /\ now \in Nat

\* The house holds exactly the highest bid of the live auction, and nothing
\* between auctions: it can always refund, and keeps nobody's money.
Solvent == houseETH = IF Live THEN auction.amount ELSE 0

\* The house holds the noun of the live auction and no other: none is sold
\* twice, lost between two auctions, or put up before it is minted.
Custody == \A id \in NounIds : owners[id] = HOUSE <=> Live /\ id = auction.nounId

\* An unpaused house has a live auction, so that settling it can open the
\* next one: when a mint reverts the house pauses itself.
UnpausedMeansLive == ~paused => Live

\* createBid looks at neither settled nor paused, and yet no bid reaches an
\* auction that was settled: what happens to its record is the next auction.
SettledIsFinal ==
    [][auction.settled => auction' = auction \/ auction'.nounId > auction.nounId]_vars

\* Whatever the owner does to timeBuffer, a bid never brings the end of the
\* auction forward and leaves the others a time buffer to answer.
BidLeavesTimeToAnswer ==
    [][auction'.nounId = auction.nounId /\ auction'.bidder # ZERO /\ ~auction'.settled
         /\ auction' # auction
       => auction'.endTime >= auction.endTime /\ auction'.endTime - now >= timeBuffer]_vars

\* There are nouns left in the model for one more auction.
Room == NextNoun <= MaxNounId

\* While the house stays the minter, an auction that has ended gets settled,
\* paused or not, even if the owner pauses and unpauses all the time, payments
\* fail and the next mint reverts.
EndedAuctionIsSettled ==
    <>[]isMinter => \A id \in NounIds :
        (Live /\ auction.nounId = id /\ now >= auction.endTime /\ Room)
            ~> (auction.settled \/ auction.nounId # id)

\* "anyone can settle an ongoing auction" (NounsAuctionHouse.sol:142) once
\* it has ended.
AnyoneCanSettle == Live /\ now >= auction.endTime => CanSettle

==============================================================================
