--------------------------- MODULE MCQueueManager ---------------------------
(* Small instances of QueueManager for TLC.                                *)
EXTENDS QueueManager
=============================================================================
