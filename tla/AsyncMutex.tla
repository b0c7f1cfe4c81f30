----------------------------- MODULE AsyncMutex -----------------------------
(***************************************************************************)
(* tokio::sync::Mutex, as actors/fanatic.rs uses it.  A lock is the queue  *)
(* of the guards asked for and not yet dropped, each named by the task     *)
(* that asks and by the lock() call site.  The head of the queue is the    *)
(* guard that is alive; the permit of a dropped guard goes to the next     *)
(* one in line, so the lock is fair.  It is not reentrant: a task that     *)
(* asks again while its own guard is alive queues behind itself.           *)
(***************************************************************************)
EXTENDS Sequences

\* lock().await is called at site by task: it joins the line.
Lock(queue, task, site) == Append(queue, [by |-> task, site |-> site])

\* lock().await has returned at site, and the guard has not been dropped.
Locked(queue, task, site) ==
    /\ queue # << >>
    /\ Head(queue) = [by |-> task, site |-> site]

\* The guard that is alive is dropped.
Unlock(queue) == Tail(queue)
=============================================================================
