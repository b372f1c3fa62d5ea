--------------------------- MODULE MCDownloadQueue ---------------------------
\* Small queues for TLC.
EXTENDS DownloadQueue

\* Every id is left to the queue.
MCAssignedIds == {0}

\* ... or callers choose one too.
MCChosenIds == {0, 1}
==============================================================================
