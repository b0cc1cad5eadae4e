---------------------------- MODULE MCAuctionHouse ----------------------------
EXTENDS AuctionHouse, FiniteSetsExt, TLC

Paid(ids) == MapThenSumSet(LAMBDA id : price[id], ids)

\* Every wei is where it should be: a bidder is out of pocket exactly the
\* prices of the nouns they won and their standing bid, in whichever coin
\* the refunds came, and the DAO has received the price of every noun sold.
MoneyAccounted ==
    /\ \A a \in Bidders :
           Wallet - eth[a] - weth[a] =
               Paid({id \in NounIds : owners[id] = a})
                   + IF Live /\ auction.bidder = a THEN auction.amount ELSE 0
    /\ eth[DAO] + weth[DAO] = Paid(NounIds)

Symmetry == Permutations(Bidders)
==============================================================================
