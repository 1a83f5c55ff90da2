--------------------------- MODULE AsyncFdWatcher ---------------------------
(***************************************************************************)
(* The thread of the Bluetooth HAL that waits for bytes of the controller  *)
(* and for a timeout (bluetooth/1.0/default/async_fd_watcher.cc).  Other   *)
(* threads change the timeout and wake the thread through a pipe.          *)
(*                                                                         *)
(* A timeout is 0 (none) or not; how long it is does not matter.           *)
(***************************************************************************)
EXTENDS Integers

VARIABLES
    running_,
    timeout_ms_, timeout_cb_,
    notifications,   \* the bytes in the pipe
    watcher,         \* the place of the thread in ThreadRoutine and what it calls
    hasTimeout       \* its local variable timeout_ptr is set

timeoutVars == <<timeout_ms_, timeout_cb_, notifications>>
watcherVars == <<running_, timeoutVars, watcher, hasTimeout>>

\* Before WatchFdForNonBlockingReads there is no thread.
WatcherInit ==
    /\ running_ = FALSE
    /\ timeout_ms_ = 0 /\ timeout_cb_ = "none" /\ notifications = 0
    /\ watcher = "none" /\ hasTimeout = FALSE

\* WatchFdForNonBlockingReads and tryStartThread, of a new AsyncFdWatcher.
TryStartThread ==
    /\ running_' = TRUE
    /\ watcher' = "while"
    /\ UNCHANGED <<timeoutVars, hasTimeout>>

ConfigureTimeout(timeout, callback) ==
    /\ timeout_ms_' = timeout /\ timeout_cb_' = callback
    /\ notifications' = notifications + 1

\* stopThread: the flag and the notification, ...
StopThread ==
    /\ running_' = FALSE
    /\ notifications' = notifications + 1
    /\ UNCHANGED <<timeout_ms_, timeout_cb_, watcher, hasTimeout>>

\* ... and, after the join, the end of the watch.  Its owner deletes it next.
ThreadJoined ==
    /\ watcher = "done"
    /\ watcher' = "none"
    /\ timeout_ms_' = 0 /\ timeout_cb_' = "none" /\ notifications' = 0
    /\ hasTimeout' = FALSE
    /\ UNCHANGED running_

\* The timeout of the next select is read without timeout_mutex_.
WhileRunning ==
    /\ watcher = "while"
    /\ IF running_ THEN watcher' = "select" /\ hasTimeout' = (timeout_ms_ > 0)
                   ELSE watcher' = "done" /\ UNCHANGED hasTimeout
    /\ UNCHANGED <<running_, timeoutVars>>

\* Mutant: the pipe is read without looking whether it is readable.
ReadNotificationAnyway ==
    /\ watcher = "select"
    /\ notifications' = notifications - 1
    /\ watcher' = "while"
    /\ UNCHANGED <<running_, timeout_ms_, timeout_cb_, hasTimeout>>

\* select returns: the pipe is readable and looked at first, ...
ReadNotification ==
    /\ watcher = "select" /\ notifications > 0
    /\ notifications' = notifications - 1
    /\ watcher' = "while"
    /\ UNCHANGED <<running_, timeout_ms_, timeout_cb_, hasTimeout>>

\* ... or the descriptor is, and its callback is called, ...
DataReady(readable) ==
    /\ watcher = "select" /\ notifications = 0 /\ readable
    /\ watcher' = "dataReady"
    /\ UNCHANGED <<running_, timeoutVars, hasTimeout>>

\* ... or the time is up.
TimeIsUp(readable) ==
    /\ watcher = "select" /\ notifications = 0 /\ ~readable /\ hasTimeout
    /\ watcher' = "timeout"
    /\ UNCHANGED <<running_, timeoutVars, hasTimeout>>

\* The callback is called unless the timeout has been taken back meanwhile.
SaveCallback ==
    /\ watcher = "timeout"
    /\ watcher' = IF timeout_ms_ > 0 /\ timeout_cb_ = "OnTimeout" THEN "OnTimeout" ELSE "while"
    /\ UNCHANGED <<running_, timeoutVars, hasTimeout>>
=============================================================================
