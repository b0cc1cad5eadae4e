---------------------------- MODULE MCNounsToken ----------------------------
EXTENDS NounsToken, TLC

\* No account has a registered OpenSea proxy.
NoProxies == [a \in Accounts |-> ZERO]

\* No noun is a reward: the nouns are minted one at a time.
NoRewards == -1

\* Locking the minter has no bearing on the votes: the runs about them stay
\* with the unlocked half of the states.
MinterUnlocked == ~isMinterLocked
==============================================================================
