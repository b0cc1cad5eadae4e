-------------------------- MODULE MCCheckpointSearch --------------------------
EXTENDS CheckpointSearch
===============================================================================
