---------------------------- MODULE MCNounsDAOFork ----------------------------
EXTENDS NounsDAOFork

CONSTANTS alice, bob

OneHolder == <<alice>>
===============================================================================
