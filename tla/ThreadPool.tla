---------------------------- MODULE ThreadPool ----------------------------
(***************************************************************************)
(* The thread pool of the server (mp5/src/thread_pool.c): a ring of tasks, *)
(* worker threads that sleep on one condition variable, and a shutdown     *)
(* that joins them and frees the pool.                                     *)
(*                                                                         *)
(* Everything between pthread_mutex_lock and pthread_mutex_unlock, or the  *)
(* wait, is one action: only these sections touch the pool.  Who else could*)
(* run in between is seen where a section leaves the lock.                 *)
(***************************************************************************)
EXTENDS Integers, FiniteSets, Sequences

CONSTANTS
  ThreadCount, \* thread_count, 1 .. MAX_THREADS
  QueueSize,   \* queue_size, 1 .. MAX_QUEUE
  Task,        \* the calls of threadpool_add
  Exiting,     \* the tasks that end their thread, as handle_request does for a
               \* header with a wrong magic (csiebox_server.c 328)
  Caller,      \* the threads that call threadpool_destroy
  NoTask       \* an empty slot

ASSUME SizesAssumption ==
  /\ ThreadCount \in 1 .. 64 /\ QueueSize \in 1 .. 65536
  /\ Exiting \subseteq Task /\ NoTask \notin Task

VARIABLES
  queue, head, tail, count,  \* the ring
  shutdown,                  \* "no", "immediate", "graceful"
  started,                   \* workers counted in and not yet counted out
  created,                   \* thread_count: the threads that were created
  cpc,                       \* threadpool_create: "create", "open", "failed"
  wpc,                       \* what a worker does next
  task,                      \* the task it has taken
  answer,                    \* what threadpool_add returned for a task
  done,                      \* the tasks that have ended
  dpc,                       \* where a call of threadpool_destroy is
  held,                      \* the lock was left locked for good
  freed                      \* the pool was freed

ring == <<queue, head, tail, count>>
vars == <<ring, shutdown, started, created, cpc, wpc, task, answer, done, dpc,
          held, freed>>

Thread == 1 .. ThreadCount
Slot == 0 .. QueueSize - 1
At(pc) == {w \in Thread : wpc[w] = pc}

TypeOK ==
  /\ queue \in [Slot -> Task \cup {NoTask}]
  /\ head \in Slot /\ tail \in Slot /\ count \in 0 .. QueueSize
  /\ shutdown \in {"no", "immediate", "graceful"}
  /\ started \in 0 .. ThreadCount /\ created \in 0 .. ThreadCount
  /\ cpc \in {"create", "open", "failed"}
  /\ wpc \in [Thread -> {"new", "lock", "wait", "run", "exit", "gone"}]
  /\ task \in [Thread -> Task \cup {NoTask}]
  /\ answer \in [Task -> {"none", "ok", "full", "shutdown"}]
  /\ done \subseteq Task
  /\ dpc \in [Caller -> {"none", "join", "done", "refused"}]
  /\ held \in BOOLEAN /\ freed \in BOOLEAN

Init ==
  /\ queue = [s \in Slot |-> NoTask] /\ head = 0 /\ tail = 0 /\ count = 0
  /\ shutdown = "no" /\ started = 0 /\ created = 0 /\ cpc = "create"
  /\ wpc = [w \in Thread |-> "new"] /\ task = [w \in Thread |-> NoTask]
  /\ answer = [t \in Task |-> "none"] /\ done = {}
  /\ dpc = [d \in Caller |-> "none"] /\ held = FALSE /\ freed = FALSE

\* pthread_cond_broadcast, and a mistaken pthread_cond_signal in its place.
WakeOne == \/ At("wait") = {} /\ UNCHANGED wpc
           \/ \E w \in At("wait") : wpc' = [wpc EXCEPT ![w] = "lock"]
WakeAll ==
  wpc' = [w \in Thread |-> IF wpc[w] = "wait" THEN "lock" ELSE wpc[w]]

-----------------------------------------------------------------------------
(* threadpool_create.  A new thread runs before the next one is created.    *)

CreateThread ==
  /\ cpc = "create" /\ created < ThreadCount
  /\ created' = created + 1 /\ started' = started + 1
  /\ wpc' = [wpc EXCEPT ![created + 1] = "lock"]
  /\ UNCHANGED <<ring, shutdown, cpc, task, answer, done, dpc, held, freed>>

Created ==
  /\ cpc = "create" /\ created = ThreadCount /\ cpc' = "open"
  /\ UNCHANGED <<ring, shutdown, started, created, wpc, task, answer, done, dpc,
                 held, freed>>

\* pthread_create fails: the threads that exist are stopped and joined.
CreateFails ==
  /\ cpc = "create" /\ created < ThreadCount /\ cpc' = "failed"
  /\ shutdown' = "immediate" /\ WakeAll
  /\ \E d \in Caller : dpc' = [dpc EXCEPT ![d] = "join"]
  /\ UNCHANGED <<ring, started, created, task, answer, done, held, freed>>

-----------------------------------------------------------------------------
(* threadpool_add.  A caller may try again when the queue was full.         *)

After(i) == (i + 1) % QueueSize
OneTooMany == count > QueueSize   \* a mistaken Full
Full == count = QueueSize
\* pthread_cond_signal, and a mistaken add that forgets it.
NoSignal == UNCHANGED wpc
Signal == \/ At("wait") = {} /\ UNCHANGED wpc
          \/ \E w \in At("wait") : wpc' = [wpc EXCEPT ![w] = "lock"]

Enqueue(t) ==
  /\ queue' = [queue EXCEPT ![tail] = t] /\ tail' = After(tail)
  /\ count' = count + 1 /\ UNCHANGED head
  /\ answer' = [answer EXCEPT ![t] = "ok"]

Add(t) ==
  /\ cpc = "open" /\ ~freed /\ ~held
  /\ answer[t] \in {"none", "full"}
  /\ \/ /\ Full
        /\ answer' = [answer EXCEPT ![t] = "full"] /\ UNCHANGED <<ring, wpc>>
     \/ /\ ~Full /\ shutdown # "no"
        /\ answer' = [answer EXCEPT ![t] = "shutdown"]
        /\ UNCHANGED <<ring, wpc>>
     \/ /\ ~Full /\ shutdown = "no"
        /\ Enqueue(t) /\ Signal
  /\ UNCHANGED <<shutdown, started, created, cpc, task, done, dpc, held, freed>>

-----------------------------------------------------------------------------
(* threadpool_thread.                                                      *)

Sleep(w) ==
  /\ wpc[w] = "lock" /\ ~held
  /\ count = 0 /\ shutdown = "no"
  /\ wpc' = [wpc EXCEPT ![w] = "wait"]
  /\ UNCHANGED <<ring, shutdown, started, created, cpc, task, answer, done, dpc,
                 held, freed>>

\* The worker leaves: at once, or when nothing is left to do.  A mistake would be
\* to leave whenever the pool shuts down.
AnyShutdown == shutdown # "no"
Leaving == shutdown = "immediate" \/ (shutdown = "graceful" /\ count = 0)
Exit(w) ==
  /\ wpc[w] = "lock" /\ ~held /\ Leaving
  /\ started' = started - 1 /\ wpc' = [wpc EXCEPT ![w] = "exit"]
  /\ UNCHANGED <<ring, shutdown, created, cpc, task, answer, done, dpc, held,
                 freed>>

Take(w) ==
  /\ wpc[w] = "lock" /\ ~held /\ ~Leaving
  /\ count > 0
  /\ task' = [task EXCEPT ![w] = queue[head]]
  /\ head' = After(head) /\ count' = count - 1 /\ UNCHANGED <<queue, tail>>
  /\ wpc' = [wpc EXCEPT ![w] = "run"]
  /\ UNCHANGED <<shutdown, started, created, cpc, answer, done, dpc, held, freed>>

\* The task returns, or ends the thread, which nobody counts out.
Run(w) ==
  /\ wpc[w] = "run"
  /\ wpc' = [wpc EXCEPT ![w] = IF task[w] \in Exiting THEN "gone" ELSE "lock"]
  /\ done' = done \cup {task[w]} /\ task' = [task EXCEPT ![w] = NoTask]
  /\ UNCHANGED <<ring, shutdown, started, created, cpc, answer, dpc, held, freed>>

\* pthread_cond_wait may return without a signal.
Spurious(w) ==
  /\ wpc[w] = "wait" /\ wpc' = [wpc EXCEPT ![w] = "lock"]
  /\ UNCHANGED <<ring, shutdown, started, created, cpc, task, answer, done, dpc,
                 held, freed>>

-----------------------------------------------------------------------------
(* threadpool_destroy and threadpool_free.                                 *)

Destroy(d, mode) ==
  /\ cpc = "open" /\ ~freed /\ dpc[d] = "none" /\ ~held
  /\ shutdown = "no" /\ shutdown' = mode /\ WakeAll
  /\ dpc' = [dpc EXCEPT ![d] = "join"]
  /\ UNCHANGED <<ring, started, created, cpc, task, answer, done, held, freed>>

\* A second call breaks out of the loop with the lock in its hands.
DestroyAgain(d) ==
  /\ cpc = "open" /\ ~freed /\ dpc[d] = "none" /\ ~held
  /\ shutdown # "no" /\ held' = TRUE
  /\ dpc' = [dpc EXCEPT ![d] = "refused"]
  /\ UNCHANGED <<ring, shutdown, started, created, cpc, wpc, task, answer, done,
                 freed>>

\* All threads have been joined.  The pool is freed unless a worker is still
\* counted, which is so for one that a task has ended.
Join(d) ==
  /\ dpc[d] = "join"
  /\ \A w \in 1 .. created : wpc[w] \in {"exit", "gone"}
  /\ \/ started > 0 /\ UNCHANGED freed
     \/ started = 0 /\ ~held /\ freed' = TRUE
  /\ dpc' = [dpc EXCEPT ![d] = "done"]
  /\ UNCHANGED <<ring, shutdown, started, created, cpc, wpc, task, answer, done,
                 held>>

-----------------------------------------------------------------------------
Worker(w) == Sleep(w) \/ Exit(w) \/ Take(w) \/ Run(w)

Next ==
  \/ CreateThread \/ Created \/ CreateFails
  \/ \E t \in Task : Add(t)
  \/ \E w \in Thread : Worker(w) \/ Spurious(w)
  \/ \E d \in Caller : \/ \E m \in {"immediate", "graceful"} : Destroy(d, m)
                       \/ DestroyAgain(d) \/ Join(d)

Spec == Init /\ [][Next]_vars
\* The scheduler runs every worker that can run, and the thread that joins them.
FairSpec == Spec /\ (\A w \in Thread : WF_vars(Worker(w)))
                 /\ (\A d \in Caller : WF_vars(Join(d)))
-----------------------------------------------------------------------------
(* Properties.                                                             *)

Pending == [i \in 1 .. count |-> queue[(head + (i - 1)) % QueueSize]]
Abstract == INSTANCE TaskPool
  WITH Capacity <- QueueSize,
       accepted <- {t \in Task : answer[t] = "ok"},
       pending <- Pending,
       running <- {task[w] : w \in At("run")},
       finished <- done,
       closed <- shutdown
\* The pool keeps the promise of threadpool.h 72-95, in the order of its queue: tasks
\* start in the order they were accepted, each of them once, none is lost, and after
\* a shutdown none is accepted or, if it is immediate, started any more.
Implements == Abstract!Spec
\* Every accepted task is run, unless an immediate shutdown drops it, the tasks end
\* every worker, or a second threadpool_destroy keeps the lock (thread_pool.c 213).
Processed ==
  \A t \in Task : answer[t] = "ok" ~>
    (t \in done \/ shutdown = "immediate" \/ held \/ At("gone") = Thread)

\* No wakeup is lost: when a worker sleeps, as many others are on their way to the
\* queue as there are tasks in it (cond_signal of threadpool_add against the
\* re-check in threadpool_thread, 185 and 277).
NoLostWakeup ==
  shutdown = "no" /\ At("wait") # {} => count <= Cardinality(At("lock"))

\* The pool is freed only when no worker will touch it again, and after a graceful
\* shutdown only when everything accepted has been run.
FreedSafely ==
  freed => /\ \A w \in Thread : wpc[w] \in {"new", "exit"}
           /\ shutdown = "graceful" => \A t \in Task : answer[t] = "ok" => t \in done

\* A call of threadpool_destroy that shuts the pool down comes back, unless a second
\* call keeps the lock.
Destroyed == \A d \in Caller : (dpc[d] = "join") ~> (dpc[d] = "done" \/ held)
=============================================================================
