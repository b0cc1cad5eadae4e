-------------------------- MODULE MCNounsDAOExecutor --------------------------
EXTENDS NounsDAOExecutor
===============================================================================
