------------------------- MODULE MCTaskQueueCancel -------------------------
\* The task queue with a history of the user's cancellations.
EXTENDS MCTaskQueue

VARIABLE asked  \* active tasks cancel() was called for

CancelInit == Init /\ asked = {}

CancelNext ==
  \/ \E t \in Task : Cancel(t) /\ asked' = (asked \cup {t}) \cap Is(Active)'
  \/ Next /\ asked' = asked \cap Is(Active)'

CancelSpec == CancelInit /\ [][CancelNext]_<<vars, asked>>

\* "取消任务会同时停止轮询" (docs/self-update.md): a task the user cancelled is not
\* polled for any longer.  Not kept: TaskQueue_cancel.cfg.
CancelStopsWatch == asked \cap watched = {}
=============================================================================
