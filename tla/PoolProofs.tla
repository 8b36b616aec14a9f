---------------------------- MODULE PoolProofs ----------------------------
(***************************************************************************)
(* Proofs about ThreadPool: its types, that no wakeup is lost, that it is   *)
(* freed only when nobody uses it, and that it implements TaskPool.         *)
(***************************************************************************)
EXTENDS ThreadPool, FiniteSetTheorems, SequenceTheorems, TLAPS

Unfinished == {w \in Thread : wpc[w] \notin {"new", "exit"}}

\* started counts the workers that exist and have not left.
Counted == started = Cardinality(Unfinished)

\* Which workers exist, and what follows from where threadpool_create is.
Born ==
  /\ \A w \in Thread : w > created <=> wpc[w] = "new"
  /\ cpc = "open" => created = ThreadCount
  /\ cpc = "failed" => shutdown = "immediate"
  /\ cpc = "create" => shutdown = "no"
  /\ shutdown = "no" => ~freed /\ \A d \in Caller : dpc[d] # "join"

\* A task that was accepted is in one place.
Once ==
  /\ \A w \in At("run") : task[w] \in Task /\ answer[task[w]] = "ok"
  /\ \A v, w \in At("run") : task[v] = task[w] => v = w
  /\ \A i \in 1 .. count : Pending[i] \in Task /\ answer[Pending[i]] = "ok"
  /\ \A i, j \in 1 .. count : Pending[i] = Pending[j] => i = j
  /\ \A i \in 1 .. count : \A w \in At("run") : Pending[i] # task[w]

\* ... and none is lost: it is pending, running or done.
Kept ==
  \A t \in Task : answer[t] = "ok" =>
    \/ t \in done
    \/ \E w \in At("run") : task[w] = t
    \/ \E i \in 1 .. count : Pending[i] = t

RingClosed == tail = (head + count) % QueueSize

\* Nobody leaves before a shutdown, or while a task is pending after a graceful one.
LeftEmpty ==
  (\E w \in Thread : wpc[w] = "exit") =>
    shutdown # "no" /\ (shutdown = "graceful" => count = 0)

IInv == TypeOK /\ Counted /\ Born /\ RingClosed /\ Once /\ Kept /\ LeftEmpty
        /\ NoLostWakeup /\ FreedSafely

-----------------------------------------------------------------------------
(* Arithmetic of the ring.                                                 *)

LEMMA ModSmall ==
  ASSUME NEW q \in Nat \ {0}, NEW i \in 0 .. q - 1
  PROVE  i % q = i
  BY SMT

LEMMA ModWrap ==
  ASSUME NEW q \in Nat \ {0}, NEW i \in q .. 2 * q - 1
  PROVE  i % q = i - q
  BY SMT

LEMMA ModInRange ==
  ASSUME NEW q \in Nat \ {0}, NEW i \in Int
  PROVE  i % q \in 0 .. q - 1
  BY SMT

LEMMA Sizes == /\ ThreadCount \in Nat \ {0} /\ QueueSize \in Nat \ {0}
               /\ Exiting \subseteq Task /\ NoTask \notin Task
  BY SMTT(30), SizesAssumption DEF SizesAssumption

\* The position behind a position of the ring.
LEMMA AfterInRange ==
  ASSUME NEW s \in Slot
  PROVE  After(s) \in Slot
  <1>1. s + 1 \in Int
    BY Sizes, SMT DEF Slot
  <1>. QED
    BY <1>1, Sizes, ModInRange DEF After, Slot

\* The i-th task from the head, and the one from the next head.
LEMMA RingShift ==
  ASSUME NEW h \in Slot, NEW i \in 0 .. QueueSize - 1
  PROVE  /\ (h + i) % QueueSize \in Slot
         /\ (After(h) + i) % QueueSize = (h + (i + 1)) % QueueSize
  <1>0. QueueSize \in Nat \ {0} /\ h \in Nat /\ h < QueueSize /\ i \in Nat
    BY Sizes, SMT DEF Slot
  <1>1. (h + i) % QueueSize \in Slot
    BY <1>0, ModInRange, SMT DEF Slot
  <1>2. CASE h + 1 < QueueSize
    <2>1. After(h) = h + 1
      BY <1>0, <1>2, ModSmall, SMT DEF After
    <2>. QED
      BY <1>0, <1>1, <2>1, SMT
  <1>3. CASE h + 1 = QueueSize
    <2>1. After(h) = 0
      BY <1>0, <1>3, ModWrap, SMT DEF After
    <2>2. (0 + i) % QueueSize = i
      BY <1>0, ModSmall, SMT
    <2>3. (h + (i + 1)) % QueueSize = h + (i + 1) - QueueSize
      <3>1. \A k \in QueueSize .. 2 * QueueSize - 1 : k % QueueSize = k - QueueSize
        BY <1>0, ModWrap
      <3>. QED
        BY <1>0, <1>3, <3>1, SMT
    <2>. QED
      BY <1>0, <1>1, <1>3, <2>1, <2>2, <2>3, SMT
  <1>. QED
    BY <1>0, <1>2, <1>3, SMT

\* Two positions of the ring are different slots.
LEMMA RingApart ==
  ASSUME NEW h \in Slot, NEW i \in 0 .. QueueSize - 1, NEW j \in 0 .. QueueSize - 1,
         (h + i) % QueueSize = (h + j) % QueueSize
  PROVE  i = j
  <1>0. QueueSize \in Nat \ {0} /\ h \in Nat /\ h < QueueSize /\ i \in Nat /\ j \in Nat
        /\ i < QueueSize /\ j < QueueSize
    BY Sizes, SMT DEF Slot
  <1>w. \A k \in QueueSize .. 2 * QueueSize - 1 : k % QueueSize = k - QueueSize
    BY <1>0, ModWrap
  <1>1. h + i < QueueSize => (h + i) % QueueSize = h + i
    BY <1>0, ModSmall, SMT
  <1>2. h + j < QueueSize => (h + j) % QueueSize = h + j
    BY <1>0, ModSmall, SMT
  <1>3. h + i >= QueueSize => (h + i) % QueueSize = h + i - QueueSize
    BY <1>0, <1>w, SMT
  <1>4. h + j >= QueueSize => (h + j) % QueueSize = h + j - QueueSize
    BY <1>0, <1>w, SMT
  <1>. QED
    BY <1>0, <1>1, <1>2, <1>3, <1>4, SMT

-----------------------------------------------------------------------------
(* Types, and the two ways a step may move the ring.                        *)

LEMMA CountingFinite ==
  /\ IsFiniteSet(Thread) /\ Cardinality(Thread) = ThreadCount
  /\ \A P \in SUBSET Thread : /\ IsFiniteSet(P) /\ Cardinality(P) \in 0 .. ThreadCount
  <1>1. IsFiniteSet(Thread) /\ Cardinality(Thread) = ThreadCount
    BY Sizes, FS_Interval, SMT DEF Thread
  <1>2. \A P \in SUBSET Thread : IsFiniteSet(P) /\ Cardinality(P) <= Cardinality(Thread)
    BY <1>1, FS_Subset
  <1>3. \A P \in SUBSET Thread : Cardinality(P) \in Nat
    BY <1>2, FS_CardinalityType
  <1>. QED
    BY Sizes, <1>1, <1>2, <1>3, SMT

LEMMA TypeInit == Init => TypeOK
  <1>. SUFFICES ASSUME Init PROVE TypeOK
    OBVIOUS
  <1>1. 0 \in Slot /\ 0 \in 0 .. QueueSize /\ 0 \in 0 .. ThreadCount
    BY Sizes, SMT DEF Slot
  <1>. QED
    BY <1>1 DEF Init, TypeOK

\* What a step may do to the ring.
LEMMA RingMoves ==
  ASSUME Next
  PROVE  \/ UNCHANGED ring
         \/ \E t \in Task : Add(t) /\ Enqueue(t) /\ ~Full /\ shutdown = "no"
         \/ \E w \in Thread : Take(w)
  BY DEF Next, ring, CreateThread, Created, CreateFails, Add, Worker, Sleep, Exit, Run,
     Spurious, Destroy, DestroyAgain, Join

LEMMA RingTypes ==
  ASSUME TypeOK, Next
  PROVE  /\ queue' \in [Slot -> Task \cup {NoTask}] /\ head' \in Slot /\ tail' \in Slot
         /\ count' \in 0 .. QueueSize
  <1>0. /\ queue \in [Slot -> Task \cup {NoTask}] /\ head \in Slot /\ tail \in Slot
        /\ count \in 0 .. QueueSize
    BY DEF TypeOK
  <1>1. CASE UNCHANGED ring
    BY <1>0, <1>1 DEF ring
  <1>2. ASSUME NEW t \in Task, Enqueue(t), ~Full
        PROVE  /\ queue' \in [Slot -> Task \cup {NoTask}] /\ head' \in Slot
               /\ tail' \in Slot /\ count' \in 0 .. QueueSize
    <2>1. count' \in 0 .. QueueSize
      BY <1>0, <1>2, Sizes, SMT DEF Enqueue, Full
    <2>2. queue' \in [Slot -> Task \cup {NoTask}]
      BY <1>0, <1>2 DEF Enqueue
    <2>. QED
      BY <1>0, <1>2, <2>1, <2>2, AfterInRange DEF Enqueue
  <1>3. ASSUME NEW w \in Thread, Take(w)
        PROVE  /\ queue' \in [Slot -> Task \cup {NoTask}] /\ head' \in Slot
               /\ tail' \in Slot /\ count' \in 0 .. QueueSize
    <2>1. count' \in 0 .. QueueSize
      BY <1>0, <1>3, Sizes, SMT DEF Take
    <2>. QED
      BY <1>0, <1>3, <2>1, AfterInRange DEF Take
  <1>. QED
    BY <1>1, <1>2, <1>3, RingMoves

\* A worker is where it was, or where its own step or a wakeup took it.
LEMMA WorkerTypes ==
  ASSUME TypeOK, Next
  PROVE  wpc' \in [Thread -> {"new", "lock", "wait", "run", "exit", "gone"}]
  <1>0. wpc \in [Thread -> {"new", "lock", "wait", "run", "exit", "gone"}]
    BY DEF TypeOK
  <1>1. CASE UNCHANGED wpc
    BY <1>0, <1>1
  <1>2. CASE WakeAll
    BY <1>0, <1>2 DEF WakeAll
  <1>3. CASE Signal
    BY <1>0, <1>3 DEF Signal
  <1>4. CASE CreateThread
    BY <1>0, <1>4 DEF CreateThread
  <1>5. ASSUME NEW w \in Thread, Worker(w) \/ Spurious(w)
        PROVE  wpc' \in [Thread -> {"new", "lock", "wait", "run", "exit", "gone"}]
    BY <1>0, <1>5 DEF Worker, Sleep, Exit, Take, Run, Spurious
  <1>. QED
    BY <1>1, <1>2, <1>3, <1>4, <1>5
    DEF Next, Created, CreateFails, Add, Destroy, DestroyAgain, Join

LEMMA TypeStep ==
  ASSUME TypeOK, Once, Counted', Next
  PROVE  TypeOK'
  <1>1. started' \in 0 .. ThreadCount
    BY CountingFinite DEF Counted, Unfinished
  <1>2. created' \in 0 .. ThreadCount
    <2>1. created \in 0 .. ThreadCount
      BY DEF TypeOK
    <2>2. CASE CreateThread
      BY <2>1, <2>2, Sizes, SMT DEF CreateThread
    <2>3. CASE UNCHANGED created
      BY <2>1, <2>3
    <2>. QED
      BY <2>2, <2>3 DEF Next, Created, CreateFails, Add, Worker, Sleep, Exit, Take, Run,
         Spurious, Destroy, DestroyAgain, Join
  <1>3. task' \in [Thread -> Task \cup {NoTask}]
    <2>1. /\ task \in [Thread -> Task \cup {NoTask}]
          /\ queue \in [Slot -> Task \cup {NoTask}] /\ head \in Slot
      BY DEF TypeOK
    <2>2. ASSUME NEW w \in Thread, Take(w) \/ Run(w)
          PROVE  task' \in [Thread -> Task \cup {NoTask}]
      BY <2>1, <2>2 DEF Take, Run
    <2>3. CASE UNCHANGED task
      BY <2>1, <2>3
    <2>. QED
      BY <2>2, <2>3 DEF Next, CreateThread, Created, CreateFails, Add, Worker, Sleep, Exit,
         Spurious, Destroy, DestroyAgain, Join
  <1>4. answer' \in [Task -> {"none", "ok", "full", "shutdown"}]
    <2>1. answer \in [Task -> {"none", "ok", "full", "shutdown"}]
      BY DEF TypeOK
    <2>2. ASSUME NEW t \in Task, Add(t)
          PROVE  answer' \in [Task -> {"none", "ok", "full", "shutdown"}]
      BY <2>1, <2>2 DEF Add, Enqueue
    <2>3. CASE UNCHANGED answer
      BY <2>1, <2>3
    <2>. QED
      BY <2>2, <2>3 DEF Next, CreateThread, Created, CreateFails, Worker, Sleep, Exit,
         Take, Run, Spurious, Destroy, DestroyAgain, Join
  <1>5. done' \subseteq Task
    <2>1. done \subseteq Task
      BY DEF TypeOK
    <2>2. ASSUME NEW w \in Thread, Run(w) PROVE done' \subseteq Task
      BY <2>1, <2>2 DEF Run, Once, At
    <2>3. CASE UNCHANGED done
      BY <2>1, <2>3
    <2>. QED
      BY <2>2, <2>3 DEF Next, CreateThread, Created, CreateFails, Add, Worker, Sleep, Exit,
         Take, Spurious, Destroy, DestroyAgain, Join
  <1>6. dpc' \in [Caller -> {"none", "join", "done", "refused"}]
    <2>1. dpc \in [Caller -> {"none", "join", "done", "refused"}]
      BY DEF TypeOK
    <2>. QED
      BY <2>1 DEF Next, CreateThread, Created, CreateFails, Add, Worker, Sleep, Exit,
         Take, Run, Spurious, Destroy, DestroyAgain, Join
  <1>7. /\ shutdown' \in {"no", "immediate", "graceful"}
        /\ cpc' \in {"create", "open", "failed"} /\ held' \in BOOLEAN /\ freed' \in BOOLEAN
    BY ZenonT(60) DEF TypeOK, Next, CreateThread, Created, CreateFails, Add, Worker, Sleep, Exit,
       Take, Run, Spurious, Destroy, DestroyAgain, Join
  <1>. QED
    BY <1>1, <1>2, <1>3, <1>4, <1>5, <1>6, <1>7, RingTypes, WorkerTypes DEF TypeOK

-----------------------------------------------------------------------------
(* Workers.                                                                *)

\* A wakeup only moves a sleeper to the lock.
LEMMA Woken ==
  ASSUME TypeOK, WakeAll \/ Signal
  PROVE  \A w \in Thread : wpc'[w] = wpc[w] \/ (wpc[w] = "wait" /\ wpc'[w] = "lock")
  BY DEF TypeOK, WakeAll, Signal, At

\* What a step may do to the workers.
LEMMA WorkerMoves ==
  ASSUME Next
  PROVE  \/ UNCHANGED wpc \/ WakeAll \/ Signal \/ CreateThread
         \/ \E w \in Thread : Worker(w) \/ Spurious(w)
  BY DEF Next, Created, CreateFails, Add, Destroy, DestroyAgain, Join

LEMMA CountedStep ==
  ASSUME TypeOK, Counted, Born, Next
  PROVE  Counted'
  <1>0. /\ wpc \in [Thread -> {"new", "lock", "wait", "run", "exit", "gone"}]
        /\ created \in 0 .. ThreadCount /\ started \in 0 .. ThreadCount
        /\ started = Cardinality(Unfinished) /\ IsFiniteSet(Unfinished)
    BY CountingFinite DEF TypeOK, Counted, Unfinished
  <1>1. CASE CreateThread
    <2>1. created + 1 \in Thread /\ wpc[created + 1] = "new"
      BY <1>0, <1>1, Sizes, SMT DEF CreateThread, Born, Thread
    <2>2. Unfinished' = Unfinished \cup {created + 1} /\ created + 1 \notin Unfinished
      BY <1>0, <1>1, <2>1 DEF CreateThread, Unfinished
    <2>3. Cardinality(Unfinished') = Cardinality(Unfinished) + 1
      BY <1>0, <2>2, FS_AddElement
    <2>. QED
      BY <1>0, <1>1, <2>3 DEF CreateThread, Counted
  <1>2. ASSUME NEW w \in Thread, Exit(w)
        PROVE  Counted'
    <2>1. Unfinished' = Unfinished \ {w} /\ w \in Unfinished
      BY <1>0, <1>2 DEF Exit, Unfinished
    <2>2. Cardinality(Unfinished') = Cardinality(Unfinished) - 1
      BY <1>0, <2>1, FS_RemoveElement
    <2>. QED
      BY <1>0, <1>2, <2>2 DEF Exit, Counted
  <1>3. CASE UNCHANGED started /\ Unfinished' = Unfinished
    BY <1>3 DEF Counted
  <1>4. ASSUME NEW w \in Thread, Sleep(w) \/ Take(w) \/ Run(w) \/ Spurious(w)
        PROVE  UNCHANGED started /\ Unfinished' = Unfinished
    BY <1>0, <1>4 DEF Sleep, Take, Run, Spurious, Unfinished
  <1>5. CASE WakeAll \/ Signal \/ UNCHANGED wpc
    <2>1. Unfinished' = Unfinished
      BY <1>0, <1>5, Woken DEF Unfinished
    <2>2. UNCHANGED started \/ CreateThread \/ \E w \in Thread : Exit(w)
      BY DEF Next, Created, CreateFails, Add, Worker, Sleep, Take, Run, Spurious, Destroy,
         DestroyAgain, Join
    <2>. QED
      BY <2>1, <2>2, <1>1, <1>2, <1>3
  <1>. QED
    BY <1>1, <1>2, <1>3, <1>4, <1>5, WorkerMoves DEF Worker

LEMMA BornStep ==
  ASSUME TypeOK, Born, Next
  PROVE  Born'
  <1>0. /\ wpc \in [Thread -> {"new", "lock", "wait", "run", "exit", "gone"}]
        /\ created \in 0 .. ThreadCount /\ ThreadCount \in Nat
        /\ dpc \in [Caller -> {"none", "join", "done", "refused"}]
        /\ shutdown \in {"no", "immediate", "graceful"} /\ cpc \in {"create", "open", "failed"}
    BY Sizes DEF TypeOK
  <1>1. \A w \in Thread : w > created' <=> wpc'[w] = "new"
    <2>1. CASE CreateThread
      BY <1>0, <2>1, SMT DEF CreateThread, Born, Thread
    <2>2. UNCHANGED created \/ CreateThread
      BY DEF Next, Created, CreateFails, Add, Worker, Sleep, Exit, Take, Run, Spurious,
         Destroy, DestroyAgain, Join
    <2>3. ASSUME ~CreateThread, NEW w \in Thread
          PROVE  wpc'[w] = "new" <=> wpc[w] = "new"
      <3>1. CASE UNCHANGED wpc
        BY <3>1
      <3>2. CASE WakeAll \/ Signal
        BY <3>2, Woken
      <3>3. ASSUME NEW v \in Thread, Worker(v) \/ Spurious(v)
            PROVE  wpc'[w] = "new" <=> wpc[w] = "new"
        BY <1>0, <3>3 DEF Worker, Sleep, Exit, Take, Run, Spurious
      <3>. QED
        BY <2>3, <3>1, <3>2, <3>3, WorkerMoves
    <2>. QED
      BY <2>1, <2>2, <2>3 DEF Born
  <1>2. /\ cpc' = "open" => created' = ThreadCount
        /\ cpc' = "failed" => shutdown' = "immediate"
        /\ cpc' = "create" => shutdown' = "no"
        /\ shutdown' = "no" => ~freed' /\ \A d \in Caller : dpc'[d] # "join"
    <2>1. CASE CreateThread
      BY <2>1 DEF CreateThread, Born
    <2>2. CASE Created
      BY <2>2 DEF Created, Born
    <2>3. CASE CreateFails
      BY <2>3 DEF CreateFails, Born
    <2>4. ASSUME NEW t \in Task, Add(t)
          PROVE  UNCHANGED <<cpc, created, shutdown, freed, dpc>>
      BY <2>4 DEF Add
    <2>5. ASSUME NEW w \in Thread, Worker(w) \/ Spurious(w)
          PROVE  UNCHANGED <<cpc, created, shutdown, freed, dpc>>
      BY <2>5 DEF Worker, Sleep, Exit, Take, Run, Spurious
    <2>6. ASSUME NEW d \in Caller, NEW m \in {"immediate", "graceful"}, Destroy(d, m)
          PROVE  cpc' = "open" /\ created' = ThreadCount /\ shutdown' # "no"
      BY <2>6 DEF Destroy, Born
    <2>7. ASSUME NEW d \in Caller, DestroyAgain(d)
          PROVE  cpc' = "open" /\ created' = ThreadCount /\ shutdown' # "no"
      BY <2>7 DEF DestroyAgain, Born
    <2>8. ASSUME NEW d \in Caller, Join(d)
          PROVE  UNCHANGED <<cpc, created, shutdown>> /\ shutdown' # "no"
      BY <2>8 DEF Join, Born
    <2>9. CASE UNCHANGED <<cpc, created, shutdown, freed, dpc>>
      BY <2>9 DEF Born
    <2>. QED
      BY <2>1, <2>2, <2>3, <2>4, <2>5, <2>6, <2>7, <2>8, <2>9 DEF Next, Born
  <1>. QED
    BY <1>1, <1>2 DEF Born

\* A sleeper and a task are never both left without a worker on its way.
LEMMA NoLostWakeupStep ==
  ASSUME TypeOK, Born, NoLostWakeup, Next
  PROVE  NoLostWakeup'
  <1>. SUFFICES ASSUME shutdown' = "no", At("wait")' # {}
                PROVE  count' <= Cardinality(At("lock")')
    BY DEF NoLostWakeup, At
  <1>0. /\ wpc \in [Thread -> {"new", "lock", "wait", "run", "exit", "gone"}]
        /\ count \in Nat /\ created \in 0 .. ThreadCount /\ ThreadCount \in Nat
    BY Sizes DEF TypeOK
  <1>1. /\ IsFiniteSet(At("lock")) /\ Cardinality(At("lock")) \in Nat
        /\ IsFiniteSet(At("lock")') /\ Cardinality(At("lock")') \in Nat
    BY CountingFinite, Sizes, SMT DEF At
  <1>2. shutdown = "no" /\ ~CreateFails
        /\ \A d \in Caller, m \in {"immediate", "graceful"} : ~Destroy(d, m)
    BY DEF Next, CreateThread, Created, CreateFails, Add, Worker, Sleep, Exit, Take, Run,
       Spurious, Destroy, DestroyAgain, Join
  <1>3. CASE CreateThread
    <2>1. created + 1 \in Thread /\ wpc[created + 1] = "new" /\ count' = count
      BY <1>0, <1>3, SMT DEF CreateThread, Born, Thread, ring
    <2>2. At("lock") \subseteq At("lock")' /\ At("wait")' = At("wait")
      BY <1>0, <1>3, <2>1 DEF CreateThread, At
    <2>3. Cardinality(At("lock")) <= Cardinality(At("lock")')
      BY <1>1, <2>2, FS_Subset
    <2>. QED
      BY <1>0, <1>1, <1>2, <2>1, <2>2, <2>3 DEF NoLostWakeup
  <1>4. ASSUME NEW t \in Task, Add(t)
        PROVE  count' <= Cardinality(At("lock")')
    <2>1. CASE UNCHANGED <<count, wpc>>
      BY <1>2, <2>1 DEF NoLostWakeup, At
    <2>2. CASE Enqueue(t) /\ Signal
      <3>1. PICK w \in At("wait") : wpc' = [wpc EXCEPT ![w] = "lock"]
        BY <2>2 DEF Signal, At
      <3>2. At("lock")' = At("lock") \cup {w} /\ w \notin At("lock")
        BY <1>0, <3>1 DEF At
      <3>3. Cardinality(At("lock")') = Cardinality(At("lock")) + 1
        BY <1>1, <3>2, FS_AddElement
      <3>4. count <= Cardinality(At("lock"))
        BY <1>2, <3>1 DEF NoLostWakeup
      <3>. QED
        BY <1>0, <1>1, <2>2, <3>3, <3>4, SMT DEF Enqueue
    <2>. QED
      BY <1>4, <2>1, <2>2 DEF Add, ring
  <1>5. ASSUME NEW w \in Thread, Sleep(w)
        PROVE  count' <= Cardinality(At("lock")')
    BY <1>1, <1>5 DEF Sleep, ring
  <1>6. ASSUME NEW w \in Thread, Exit(w)
        PROVE  FALSE
    BY <1>2, <1>6 DEF Exit, Leaving
  <1>7. ASSUME NEW w \in Thread, Take(w)
        PROVE  count' <= Cardinality(At("lock")')
    <2>1. At("lock")' = At("lock") \ {w} /\ w \in At("lock") /\ At("wait")' = At("wait")
      BY <1>0, <1>7 DEF Take, At
    <2>2. Cardinality(At("lock")') = Cardinality(At("lock")) - 1
      BY <1>1, <2>1, FS_RemoveElement
    <2>3. count' = count - 1 /\ count <= Cardinality(At("lock"))
      BY <1>2, <1>7, <2>1 DEF Take, NoLostWakeup
    <2>. QED
      BY <1>0, <1>1, <2>2, <2>3, SMT
  <1>8. ASSUME NEW w \in Thread, Run(w) \/ Spurious(w)
        PROVE  count' <= Cardinality(At("lock")')
    <2>1. At("lock") \subseteq At("lock")' /\ At("wait")' \subseteq At("wait") /\ count' = count
      BY <1>0, <1>8 DEF Run, Spurious, At, ring
    <2>2. Cardinality(At("lock")) <= Cardinality(At("lock")')
      BY <1>1, <2>1, FS_Subset
    <2>3. count <= Cardinality(At("lock"))
      BY <1>2, <2>1 DEF NoLostWakeup
    <2>. QED
      BY <1>0, <1>1, <2>1, <2>2, <2>3, SMT
  <1>9. CASE UNCHANGED <<count, wpc>>
    BY <1>2, <1>9 DEF NoLostWakeup, At
  <1>. QED
    BY <1>2, <1>3, <1>4, <1>5, <1>6, <1>7, <1>8, <1>9
    DEF Next, Created, Worker, DestroyAgain, Join, ring

-----------------------------------------------------------------------------
(* The ring as a sequence.                                                 *)

LEMMA PendingSame ==
  ASSUME UNCHANGED ring
  PROVE  Pending' = Pending
  BY DEF Pending, ring

LEMMA PendingSeq ==
  ASSUME TypeOK
  PROVE  Pending \in Seq(Task \cup {NoTask}) /\ Len(Pending) = count
  <1>0. /\ queue \in [Slot -> Task \cup {NoTask}] /\ head \in Slot
        /\ count \in 0 .. QueueSize /\ QueueSize \in Nat \ {0}
    BY Sizes DEF TypeOK
  <1>1. \A i \in 1 .. count : (head + (i - 1)) % QueueSize \in Slot
    BY <1>0, RingShift, SMT
  <1>. QED
    BY <1>0, <1>1, SMT DEF Pending

\* add appends.
LEMMA PendingAppended ==
  ASSUME TypeOK, RingClosed, NEW t \in Task, Enqueue(t), ~Full
  PROVE  /\ Pending' = Append(Pending, t)
         /\ RingClosed'
         /\ count' = count + 1 /\ Pending'[count + 1] = t
         /\ \A i \in 1 .. count : Pending'[i] = Pending[i]
  <1>0. /\ queue \in [Slot -> Task \cup {NoTask}] /\ head \in Slot /\ tail \in Slot
        /\ count \in 0 .. QueueSize - 1 /\ QueueSize \in Nat \ {0}
        /\ count' = count + 1 /\ head' = head
        /\ tail = (head + count) % QueueSize
        /\ queue' = [queue EXCEPT ![tail] = t] /\ tail' = After(tail)
    <2>1. count \in 0 .. QueueSize /\ count # QueueSize
      BY DEF TypeOK, Full
    <2>. QED
      BY <2>1, Sizes, SMT DEF TypeOK, Enqueue, RingClosed
  <1>1. \A i \in 0 .. QueueSize - 1 : (head + i) % QueueSize \in Slot
    BY <1>0, RingShift
  <1>2. \A i \in 0 .. QueueSize - 1 : (head + i) % QueueSize = tail => i = count
    BY <1>0, RingApart
  <1>3. \A i \in 1 .. count : queue'[(head + (i - 1)) % QueueSize]
                              = queue[(head + (i - 1)) % QueueSize]
    <2>. TAKE i \in 1 .. count
    <2>1. i - 1 \in 0 .. QueueSize - 1 /\ i - 1 # count
      BY <1>0, SMT
    <2>2. (head + (i - 1)) % QueueSize \in Slot /\ (head + (i - 1)) % QueueSize # tail
      BY <1>1, <1>2, <2>1
    <2>. QED
      BY <1>0, <2>2
  <1>4. queue'[(head + count) % QueueSize] = t
    BY <1>0
  <1>5. Pending' = [i \in 1 .. count + 1 |-> queue'[(head + (i - 1)) % QueueSize]]
    BY <1>0 DEF Pending
  <1>6. \A i \in 1 .. count : Pending'[i] = Pending[i]
    <2>. TAKE i \in 1 .. count
    <2>1. i \in 1 .. count + 1
      BY <1>0, SMT
    <2>. QED
      BY <1>3, <1>5, <2>1 DEF Pending
  <1>7. Pending'[count + 1] = t
    <2>1. count + 1 \in 1 .. count + 1 /\ (count + 1) - 1 = count
      BY <1>0, SMT
    <2>. QED
      BY <1>4, <1>5, <2>1
  <1>8. Pending' = Append(Pending, t)
    <2>1. Pending \in Seq(Task \cup {NoTask}) /\ Len(Pending) = count
      BY PendingSeq
    <2>2. /\ Append(Pending, t) \in Seq(Task \cup {NoTask})
          /\ Len(Append(Pending, t)) = count + 1
          /\ \A i \in 1 .. count : Append(Pending, t)[i] = Pending[i]
          /\ Append(Pending, t)[count + 1] = t
      BY <2>1, AppendProperties
    <2>3. \A i \in 1 .. count + 1 : Pending'[i] = Append(Pending, t)[i]
      BY <1>0, <1>6, <1>7, <2>2, SMT
    <2>4. \A i \in 1 .. count + 1 : Pending'[i] \in Task \cup {NoTask}
      BY <2>2, <2>3, ElementOfSeq
    <2>5. Pending' = [i \in 1 .. count + 1 |-> Pending'[i]]
      BY <1>5
    <2>6. Pending' \in Seq(Task \cup {NoTask}) /\ Len(Pending') = count + 1
      BY <1>0, <2>4, <2>5, SMT
    <2>. QED
      BY <2>2, <2>3, <2>6, SeqEqual
  <1>9. RingClosed'
    <2>1. After(tail) = (head + (count + 1)) % QueueSize
      <3>1. tail + 0 = tail /\ head + count \in Nat /\ head \in Nat /\ count \in Nat
        BY <1>0, SMT DEF Slot
      <3>2. CASE head + count < QueueSize
        <4>1. tail = head + count
          BY <1>0, <3>1, <3>2, ModSmall, SMT
        <4>. QED
          BY <4>1, <3>1 , SMT DEF After
      <3>3. CASE head + count >= QueueSize
        <4>1. tail = head + count - QueueSize
          <5>1. \A k \in QueueSize .. 2 * QueueSize - 1 : k % QueueSize = k - QueueSize
            BY <1>0, ModWrap
          <5>. QED
            BY <1>0, <3>1, <3>3, <5>1, SMT DEF Slot
        <4>2. After(tail) = head + count - QueueSize + 1
          BY <1>0, <3>1, <3>3, <4>1, ModSmall, SMT DEF After, Slot
        <4>3. (head + (count + 1)) % QueueSize = head + (count + 1) - QueueSize
          <5>1. \A k \in QueueSize .. 2 * QueueSize - 1 : k % QueueSize = k - QueueSize
            BY <1>0, ModWrap
          <5>. QED
            BY <1>0, <3>1, <3>3, <5>1, SMT DEF Slot
        <4>. QED
          BY <1>0, <3>1, <4>2, <4>3, SMT
      <3>. QED
        BY <1>0, <3>1, <3>2, <3>3, SMT
    <2>. QED
      BY <1>0, <2>1 DEF RingClosed
  <1>. QED
    BY <1>0, <1>6, <1>7, <1>8, <1>9

\* A worker takes the first.
LEMMA PendingTaken ==
  ASSUME TypeOK, RingClosed, NEW w \in Thread, Take(w)
  PROVE  /\ Pending' = Tail(Pending) /\ Pending # <<>>
         /\ RingClosed'
         /\ count' = count - 1 /\ task'[w] = Pending[1] /\ Head(Pending) = Pending[1]
         /\ \A i \in 1 .. count' : Pending'[i] = Pending[i + 1]
  <1>0. /\ queue \in [Slot -> Task \cup {NoTask}] /\ head \in Slot /\ tail \in Slot
        /\ count \in 1 .. QueueSize /\ QueueSize \in Nat \ {0} /\ head \in Nat
        /\ count' = count - 1 /\ head' = After(head) /\ queue' = queue /\ tail' = tail
        /\ tail = (head + count) % QueueSize
        /\ task \in [Thread -> Task \cup {NoTask}]
        /\ task' = [task EXCEPT ![w] = queue[head]]
    <2>1. count \in 0 .. QueueSize /\ count > 0
      BY DEF TypeOK, Take
    <2>. QED
      BY <2>1, Sizes, SMT DEF TypeOK, Take, RingClosed, Slot
  <1>1. \A i \in 0 .. QueueSize - 1 :
          (head' + i) % QueueSize = (head + (i + 1)) % QueueSize
    BY <1>0, RingShift
  <1>2. RingClosed'
    <2>1. count' \in 0 .. QueueSize - 1 /\ count' + 1 = count
      BY <1>0, SMT
    <2>. QED
      BY <1>0, <1>1, <2>1 DEF RingClosed
  <1>3. task'[w] = Pending[1]
    <2>1. (head + (1 - 1)) % QueueSize = head
      <3>1. head + (1 - 1) = head /\ head \in 0 .. QueueSize - 1
        BY <1>0, SMT DEF Slot
      <3>. QED
        BY <1>0, <3>1, ModSmall
    <2>2. 1 \in 1 .. count
      BY <1>0, SMT
    <2>. QED
      BY <1>0, <2>1, <2>2 DEF Pending
  <1>4. \A i \in 1 .. count' : Pending'[i] = Pending[i + 1]
    <2>. TAKE i \in 1 .. count'
    <2>1. i - 1 \in 0 .. QueueSize - 1 /\ (i - 1) + 1 = (i + 1) - 1 /\ i + 1 \in 1 .. count
      BY <1>0, SMT
    <2>2. (head' + (i - 1)) % QueueSize = (head + ((i + 1) - 1)) % QueueSize
      BY <1>1, <2>1
    <2>. QED
      BY <1>0, <2>1, <2>2 DEF Pending
  <1>5. Pending \in Seq(Task \cup {NoTask}) /\ Len(Pending) = count
    BY PendingSeq
  <1>6. Pending # <<>> /\ Head(Pending) = Pending[1]
    BY <1>0, <1>5, SMT
  <1>7. Pending' = Tail(Pending)
    <2>1. /\ Tail(Pending) \in Seq(Task \cup {NoTask}) /\ Len(Tail(Pending)) = count'
          /\ \A i \in 1 .. count' : Tail(Pending)[i] = Pending[i + 1]
      BY <1>0, <1>5, <1>6, HeadTailProperties
    <2>2. \A i \in 1 .. count' : Pending'[i] = Tail(Pending)[i]
      BY <1>4, <2>1
    <2>3. \A i \in 1 .. count' : Pending'[i] \in Task \cup {NoTask}
      BY <2>1, <2>2, ElementOfSeq
    <2>4. Pending' = [i \in 1 .. count' |-> Pending'[i]] /\ count' \in Nat
      BY <1>0, SMT DEF Pending
    <2>5. Pending' \in Seq(Task \cup {NoTask}) /\ Len(Pending') = count'
      BY <2>3, <2>4, SMT
    <2>. QED
      BY <2>1, <2>2, <2>5, SeqEqual
  <1>. QED
    BY <1>0, <1>2, <1>3, <1>4, <1>6, <1>7

-----------------------------------------------------------------------------
(* Where the tasks are.                                                    *)

\* Steps that move no task.
Quiet ==
  /\ UNCHANGED <<ring, task, done>> /\ At("run")' = At("run")
  /\ \A t \in Task : answer'[t] = "ok" <=> answer[t] = "ok"

Accept(t) ==
  /\ Enqueue(t) /\ ~Full /\ shutdown = "no" /\ answer[t] # "ok" /\ ~freed
  /\ UNCHANGED <<task, done, shutdown, freed>> /\ At("run")' = At("run")

LEMMA TaskMoves ==
  ASSUME TypeOK, Born, Next
  PROVE  \/ Quiet
         \/ \E t \in Task : Accept(t)
         \/ \E w \in Thread : Take(w) \/ Run(w)
  <1>0. /\ wpc \in [Thread -> {"new", "lock", "wait", "run", "exit", "gone"}]
        /\ answer \in [Task -> {"none", "ok", "full", "shutdown"}]
    BY DEF TypeOK
  <1>1. CASE CreateThread
    <2>1. created + 1 \in Thread /\ wpc[created + 1] = "new"
      <3>1. created \in 0 .. ThreadCount
        BY DEF TypeOK
      <3>. QED
        BY <1>0, <1>1, <3>1, Sizes, SMT DEF CreateThread, Born, Thread
    <2>2. At("run")' = At("run")
      BY <1>0, <1>1, <2>1 DEF CreateThread, At
    <2>. QED
      BY <1>1, <2>2 DEF CreateThread, Quiet
  <1>2. ASSUME WakeAll \/ Signal \/ UNCHANGED wpc
        PROVE  At("run")' = At("run")
    BY <1>0, <1>2, Woken DEF At
  <1>3. ASSUME NEW w \in Thread, Sleep(w) \/ Exit(w) \/ Spurious(w)
        PROVE  Quiet
    <2>1. At("run")' = At("run")
      BY <1>0, <1>3 DEF Sleep, Exit, Spurious, At
    <2>. QED
      BY <1>3, <2>1 DEF Sleep, Exit, Spurious, Quiet
  <1>4. ASSUME NEW t \in Task, Add(t)
        PROVE  Quiet \/ Accept(t)
    <2>1. At("run")' = At("run")
      BY <1>2, <1>4 DEF Add
    <2>2. UNCHANGED <<task, done, shutdown, freed>> /\ ~freed /\ answer[t] # "ok"
      BY <1>4 DEF Add
    <2>3. CASE Enqueue(t) /\ ~Full /\ shutdown = "no"
      BY <2>1, <2>2, <2>3 DEF Accept
    <2>4. ASSUME NEW a \in {"full", "shutdown"}, answer' = [answer EXCEPT ![t] = a],
                 UNCHANGED ring
          PROVE  Quiet
      BY <1>0, <2>1, <2>2, <2>4 DEF Quiet
    <2>. QED
      BY <1>4, <2>3, <2>4 DEF Add
  <1>5. CASE Created \/ CreateFails
    BY <1>2, <1>5 DEF Created, CreateFails, Quiet
  <1>6. ASSUME NEW d \in Caller, NEW m \in {"immediate", "graceful"},
               Destroy(d, m) \/ DestroyAgain(d) \/ Join(d)
        PROVE  Quiet
    BY <1>2, <1>6 DEF Destroy, DestroyAgain, Join, Quiet
  <1>. QED
    BY <1>1, <1>3, <1>4, <1>5, <1>6 DEF Next, Worker

LEMMA OnceStep ==
  ASSUME TypeOK, Born, RingClosed, Once, Next
  PROVE  Once'
  <1>0. /\ wpc \in [Thread -> {"new", "lock", "wait", "run", "exit", "gone"}]
        /\ answer \in [Task -> {"none", "ok", "full", "shutdown"}]
        /\ task \in [Thread -> Task \cup {NoTask}] /\ count \in Nat
    BY Sizes DEF TypeOK
  <1>1. CASE Quiet
    <2>1. Pending' = Pending /\ count' = count /\ task' = task /\ At("run")' = At("run")
      BY <1>1, PendingSame DEF Quiet, ring
    <2>. QED
      BY <1>1, <2>1 DEF Quiet, Once
  <1>2. ASSUME NEW t \in Task, Accept(t)
        PROVE  Once'
    <2>1. /\ Pending'[count + 1] = t /\ count' = count + 1
          /\ \A i \in 1 .. count : Pending'[i] = Pending[i]
      BY <1>2, PendingAppended DEF Accept
    <2>2. /\ answer' = [answer EXCEPT ![t] = "ok"] /\ answer[t] # "ok"
          /\ task' = task /\ At("run")' = At("run")
      BY <1>2 DEF Accept, Enqueue
    <2>3. \A i \in 1 .. count' : i \in 1 .. count \/ i = count + 1
      BY <1>0, <2>1, SMT
    <2>4. /\ \A w \in At("run") : task[w] # t
          /\ \A i \in 1 .. count : Pending[i] # t
      BY <2>2 DEF Once
    <2>5. /\ \A w \in At("run")' : task'[w] \in Task /\ answer'[task'[w]] = "ok"
          /\ \A v, w \in At("run")' : task'[v] = task'[w] => v = w
      BY <1>0, <2>2 DEF Once
    <2>6. \A i \in 1 .. count' : Pending'[i] \in Task /\ answer'[Pending'[i]] = "ok"
      BY <1>0, <2>1, <2>2, <2>3 DEF Once
    <2>7. \A i, j \in 1 .. count' : Pending'[i] = Pending'[j] => i = j
      BY <2>1, <2>3, <2>4 DEF Once
    <2>8. \A i \in 1 .. count' : \A w \in At("run")' : Pending'[i] # task'[w]
      BY <2>1, <2>2, <2>3, <2>4 DEF Once
    <2>. QED
      BY <2>5, <2>6, <2>7, <2>8 DEF Once
  <1>3. ASSUME NEW w \in Thread, Take(w)
        PROVE  Once'
    <2>1. /\ count' = count - 1 /\ task'[w] = Pending[1] /\ 1 \in 1 .. count
          /\ \A i \in 1 .. count' : Pending'[i] = Pending[i + 1]
      <3>1. count > 0
        BY <1>3 DEF Take
      <3>. QED
        BY <1>0, <1>3, <3>1, PendingTaken, SMT
    <2>2. \A i \in 1 .. count' : i \in Int /\ i + 1 \in 1 .. count /\ i + 1 # 1
      BY <1>0, <2>1, SMT
    <2>3. /\ answer' = answer /\ At("run")' = At("run") \cup {w} /\ w \notin At("run")
          /\ \A v \in At("run") : task'[v] = task[v]
      BY <1>0, <1>3 DEF Take, At
    <2>4. /\ \A v \in At("run")' : task'[v] \in Task /\ answer'[task'[v]] = "ok"
          /\ \A u, v \in At("run")' : task'[u] = task'[v] => u = v
      BY <2>1, <2>3 DEF Once
    <2>5. \A i \in 1 .. count' : Pending'[i] \in Task /\ answer'[Pending'[i]] = "ok"
      BY <2>1, <2>2, <2>3 DEF Once
    <2>6. \A i, j \in 1 .. count' : Pending'[i] = Pending'[j] => i = j
      <3>. TAKE i, j \in 1 .. count'
      <3>1. Pending'[i] = Pending'[j] => i + 1 = j + 1
        BY <2>1, <2>2 DEF Once
      <3>. QED
        BY <2>2, <3>1, SMT
    <2>7. \A i \in 1 .. count' : \A v \in At("run")' : Pending'[i] # task'[v]
      BY <2>1, <2>2, <2>3 DEF Once
    <2>. QED
      BY <2>4, <2>5, <2>6, <2>7 DEF Once
  <1>4. ASSUME NEW w \in Thread, Run(w)
        PROVE  Once'
    <2>1. Pending' = Pending /\ count' = count /\ answer' = answer
      BY <1>4, PendingSame DEF Run, ring
    <2>2. /\ At("run")' = At("run") \ {w}
          /\ \A v \in At("run")' : task'[v] = task[v]
      BY <1>0, <1>4 DEF Run, At
    <2>. QED
      BY <2>1, <2>2 DEF Once
  <1>. QED
    BY <1>1, <1>2, <1>3, <1>4, TaskMoves

LEMMA KeptStep ==
  ASSUME TypeOK, Born, RingClosed, Kept, Next
  PROVE  Kept'
  <1>0. /\ wpc \in [Thread -> {"new", "lock", "wait", "run", "exit", "gone"}]
        /\ answer \in [Task -> {"none", "ok", "full", "shutdown"}]
        /\ task \in [Thread -> Task \cup {NoTask}] /\ count \in Nat
    BY Sizes DEF TypeOK
  <1>1. CASE Quiet
    <2>1. Pending' = Pending /\ count' = count /\ task' = task /\ At("run")' = At("run")
          /\ done' = done
      BY <1>1, PendingSame DEF Quiet, ring
    <2>. QED
      BY <1>1, <2>1 DEF Quiet, Kept
  <1>2. ASSUME NEW t \in Task, Accept(t)
        PROVE  Kept'
    <2>1. /\ Pending'[count + 1] = t /\ count' = count + 1
          /\ \A i \in 1 .. count : Pending'[i] = Pending[i]
      BY <1>2, PendingAppended DEF Accept
    <2>2. /\ answer' = [answer EXCEPT ![t] = "ok"] /\ done' = done
          /\ task' = task /\ At("run")' = At("run")
      BY <1>2 DEF Accept, Enqueue
    <2>3. count + 1 \in 1 .. count' /\ \A i \in 1 .. count : i \in 1 .. count'
      BY <1>0, <2>1, SMT
    <2>4. \A u \in Task : answer'[u] = "ok" => u = t \/ answer[u] = "ok"
      BY <1>0, <2>2
    <2>. QED
      BY <2>1, <2>2, <2>3, <2>4 DEF Kept
  <1>3. ASSUME NEW w \in Thread, Take(w)
        PROVE  Kept'
    <2>1. /\ count' = count - 1 /\ task'[w] = Pending[1]
          /\ \A i \in 1 .. count' : Pending'[i] = Pending[i + 1]
      BY <1>3, PendingTaken
    <2>2. /\ answer' = answer /\ At("run")' = At("run") \cup {w} /\ w \notin At("run")
          /\ \A v \in At("run") : task'[v] = task[v]
          /\ done' = done
      BY <1>0, <1>3 DEF Take, At
    <2>3. \A i \in 1 .. count : i = 1 \/ (i - 1 \in 1 .. count' /\ (i - 1) + 1 = i)
      BY <1>0, <2>1, SMT
    <2>4. \A i \in 1 .. count : i = 1 \/ Pending'[i - 1] = Pending[i]
      BY <2>1, <2>3
    <2>. QED
      BY <2>1, <2>2, <2>3, <2>4 DEF Kept
  <1>4. ASSUME NEW w \in Thread, Run(w)
        PROVE  Kept'
    <2>1. Pending' = Pending /\ count' = count /\ answer' = answer
          /\ done' = done \cup {task[w]}
      BY <1>4, PendingSame DEF Run, ring
    <2>2. /\ At("run")' = At("run") \ {w}
          /\ \A v \in At("run")' : task'[v] = task[v]
      BY <1>0, <1>4 DEF Run, At
    <2>. QED
      BY <2>1, <2>2 DEF Kept
  <1>. QED
    BY <1>1, <1>2, <1>3, <1>4, TaskMoves

LEMMA RingClosedStep ==
  ASSUME TypeOK, RingClosed, Next
  PROVE  RingClosed'
  <1>1. CASE UNCHANGED ring
    BY <1>1 DEF ring, RingClosed
  <1>. QED
    BY <1>1, RingMoves, PendingAppended, PendingTaken

-----------------------------------------------------------------------------
(* The end of the pool.                                                    *)

LEMMA LeftEmptyStep ==
  ASSUME TypeOK, Born, LeftEmpty, Next
  PROVE  LeftEmpty'
  <1>0. /\ wpc \in [Thread -> {"new", "lock", "wait", "run", "exit", "gone"}]
        /\ created \in 0 .. ThreadCount /\ ThreadCount \in Nat
    BY Sizes DEF TypeOK
  <1>1. CASE CreateThread
    <2>1. created + 1 \in Thread
      BY <1>0, <1>1, SMT DEF CreateThread, Thread
    <2>2. \A v \in Thread : wpc'[v] = "exit" => wpc[v] = "exit"
      BY <1>0, <1>1, <2>1 DEF CreateThread
    <2>. QED
      BY <1>1, <2>2 DEF CreateThread, LeftEmpty, ring
  <1>2. CASE CreateFails
    BY <1>2 DEF CreateFails, LeftEmpty
  <1>3. ASSUME NEW t \in Task, Add(t)
        PROVE  LeftEmpty'
    <2>1. \A v \in Thread : wpc'[v] = "exit" => wpc[v] = "exit"
      BY <1>3, Woken DEF Add
    <2>. QED
      BY <1>3, <2>1 DEF Add, LeftEmpty, ring
  <1>4. ASSUME NEW w \in Thread, Exit(w)
        PROVE  LeftEmpty'
    BY <1>0, <1>4 DEF Exit, Leaving, LeftEmpty, ring
  <1>5. ASSUME NEW w \in Thread, Take(w)
        PROVE  LeftEmpty'
    <2>1. \A v \in Thread : wpc'[v] = "exit" => wpc[v] = "exit"
      BY <1>0, <1>5 DEF Take
    <2>. QED
      BY <1>5, <2>1 DEF Take, LeftEmpty
  <1>6. ASSUME NEW w \in Thread, Sleep(w) \/ Run(w) \/ Spurious(w)
        PROVE  LeftEmpty'
    <2>1. \A v \in Thread : wpc'[v] = "exit" => wpc[v] = "exit"
      BY <1>0, <1>6 DEF Sleep, Run, Spurious
    <2>. QED
      BY <1>6, <2>1 DEF Sleep, Run, Spurious, LeftEmpty, ring
  <1>7. ASSUME NEW d \in Caller, NEW m \in {"immediate", "graceful"}, Destroy(d, m)
        PROVE  LeftEmpty'
    <2>1. \A v \in Thread : wpc'[v] = "exit" => wpc[v] = "exit"
      BY <1>7, Woken DEF Destroy
    <2>. QED
      BY <1>7, <2>1 DEF Destroy, LeftEmpty
  <1>8. CASE UNCHANGED <<ring, wpc, shutdown>>
    BY <1>8 DEF LeftEmpty, ring
  <1>. QED
    BY <1>1, <1>2, <1>3, <1>4, <1>5, <1>6, <1>7, <1>8
    DEF Next, Worker, Created, DestroyAgain, Join

\* When the pool is freed every worker has left; so nothing is pending or running.
LEMMA FreedSafelyStep ==
  ASSUME TypeOK, Counted, Born, Kept, LeftEmpty, FreedSafely, Next
  PROVE  FreedSafely'
  <1>0. /\ wpc \in [Thread -> {"new", "lock", "wait", "run", "exit", "gone"}]
        /\ answer \in [Task -> {"none", "ok", "full", "shutdown"}]
        /\ created \in 0 .. ThreadCount /\ ThreadCount \in Nat \ {0} /\ started \in Nat
    BY Sizes, SMT DEF TypeOK
  <1>1. ASSUME NEW d \in Caller, Join(d), ~freed, freed'
        PROVE  FreedSafely'
    <2>1. started = 0 /\ UNCHANGED <<wpc, shutdown, answer, done, created, ring>>
      BY <1>0, <1>1 DEF Join
    <2>2. Unfinished = {}
      BY <2>1, CountingFinite, FS_EmptySet DEF Counted, Unfinished
    <2>3. \A w \in Thread : wpc[w] \in {"new", "exit"}
      BY <1>0, <2>2 DEF Unfinished
    <2>4. ASSUME shutdown = "graceful"
          PROVE  \A t \in Task : answer[t] = "ok" => t \in done
      <3>1. created = ThreadCount
        BY <2>4, <1>0 DEF Born, TypeOK
      <3>2. 1 \in Thread /\ wpc[1] = "exit"
        BY <1>0, <2>3, <3>1, SMT DEF Born, Thread
      <3>3. count = 0
        BY <2>4, <3>2 DEF LeftEmpty
      <3>4. At("run") = {}
        BY <2>3 DEF At
      <3>. QED
        BY <3>3, <3>4, SMT DEF Kept
    <2>. QED
      BY <2>1, <2>3, <2>4 DEF FreedSafely
  <1>2. ASSUME freed
        PROVE  FreedSafely'
    <2>1. \A w \in Thread : wpc[w] \in {"new", "exit"}
      BY <1>2 DEF FreedSafely
    <2>2. shutdown # "no" /\ cpc # "create"
      BY <1>2 DEF Born
    <2>3. \A d \in Caller : Join(d) => UNCHANGED <<wpc, shutdown, answer, done>>
      BY DEF Join
    <2>4. \A w \in Thread : ~Worker(w) /\ ~Spurious(w)
      BY <2>1 DEF Worker, Sleep, Exit, Take, Run, Spurious
    <2>5. UNCHANGED <<wpc, shutdown, answer, done>>
      BY <1>2, <2>2, <2>3, <2>4 DEF Next, CreateThread, Created, CreateFails, Add,
         Destroy, DestroyAgain
    <2>. QED
      BY <1>2, <2>5 DEF FreedSafely
  <1>3. CASE ~freed'
    BY <1>3 DEF FreedSafely
  <1>4. freed' = freed \/ \E d \in Caller : Join(d)
    BY DEF Next, CreateThread, Created, CreateFails, Add, Worker, Sleep, Exit, Take, Run,
       Spurious, Destroy, DestroyAgain
  <1>5. freed \in BOOLEAN
    BY DEF TypeOK
  <1>. QED
    BY <1>1, <1>2, <1>3, <1>4, <1>5

-----------------------------------------------------------------------------
LEMMA InitIInv == Init => IInv
  <1>. SUFFICES ASSUME Init PROVE IInv
    OBVIOUS
  <1>0. ThreadCount \in Nat \ {0} /\ QueueSize \in Nat \ {0}
    BY Sizes
  <1>1. TypeOK
    BY TypeInit
  <1>2. Unfinished = {} /\ At("wait") = {} /\ At("run") = {}
    BY DEF Init, Unfinished, At
  <1>3. Counted
    BY <1>2, FS_EmptySet DEF Init, Counted
  <1>4. Born
    BY <1>0, SMT DEF Init, Born, Thread
  <1>5. RingClosed
    <2>1. (0 + 0) % QueueSize = 0
      BY <1>0, ModSmall, SMT
    <2>. QED
      BY <2>1 DEF Init, RingClosed
  <1>6. Once /\ Kept
    BY <1>2, SMT DEF Init, Once, Kept
  <1>7. LeftEmpty /\ NoLostWakeup /\ FreedSafely
    BY <1>2 DEF Init, LeftEmpty, NoLostWakeup, FreedSafely
  <1>. QED
    BY <1>1, <1>3, <1>4, <1>5, <1>6, <1>7 DEF IInv

LEMMA StepIInv == IInv /\ [Next]_vars => IInv'
  <1>. SUFFICES ASSUME IInv, [Next]_vars PROVE IInv'
    OBVIOUS
  <1>. USE DEF IInv
  <1>1. CASE Next
    <2>1. Counted'
      BY <1>1, CountedStep
    <2>2. TypeOK'
      BY <1>1, <2>1, TypeStep
    <2>. QED
      BY <1>1, <2>1, <2>2, BornStep, RingClosedStep, OnceStep, KeptStep, LeftEmptyStep,
         NoLostWakeupStep, FreedSafelyStep
  <1>2. CASE UNCHANGED vars
    BY <1>2 DEF vars, ring, TypeOK, Counted, Unfinished, Born, RingClosed, Once, Kept,
       LeftEmpty, NoLostWakeup, FreedSafely, At, Pending
  <1>. QED
    BY <1>1, <1>2

\* The invariant that the theorems below are parts of.
THEOREM PoolInvariant == Spec => []IInv
  BY InitIInv, StepIInv, PTL DEF Spec

\* Every variable of the pool keeps its type: the ring never overflows and started
\* never becomes negative (thread_pool.c 183, 291, 300).
THEOREM PoolTypes == Spec => []TypeOK
  BY PoolInvariant, PTL DEF IInv

\* Whatever the number of workers and tasks, a worker sleeps only while enough others
\* are on their way to the queue (thread_pool.c 186, 277).
THEOREM WakeupsKept == Spec => []NoLostWakeup
  BY PoolInvariant, PTL DEF IInv

\* The pool is freed when every worker has left, and after a graceful shutdown when
\* every accepted task has been run (thread_pool.c 237, 245, 281).
THEOREM FreedAtEnd == Spec => []FreedSafely
  BY PoolInvariant, PTL DEF IInv

-----------------------------------------------------------------------------
(* The pool implements TaskPool.                                            *)

LEMMA ImplementsInit == Init => Abstract!Init
  <1>. SUFFICES ASSUME Init PROVE Abstract!Init
    OBVIOUS
  <1>1. {t \in Task : answer[t] = "ok"} = {} /\ At("run") = {}
    BY DEF Init, At
  <1>2. Pending = <<>>
    BY SMT DEF Init, Pending
  <1>. QED
    BY <1>1, <1>2 DEF Init, Abstract!Init

LEMMA ImplementsStep == IInv /\ IInv' /\ [Next]_vars => [Abstract!Next]_Abstract!vars
  <1>. SUFFICES ASSUME IInv, IInv', [Next]_vars
                PROVE  Abstract!Next \/ UNCHANGED Abstract!vars
    OBVIOUS
  <1>0. /\ TypeOK /\ Born /\ RingClosed /\ Once
        /\ wpc \in [Thread -> {"new", "lock", "wait", "run", "exit", "gone"}]
        /\ answer \in [Task -> {"none", "ok", "full", "shutdown"}]
        /\ task \in [Thread -> Task \cup {NoTask}]
    BY DEF IInv, TypeOK
  <1>1. ASSUME NEW t \in Task, Accept(t)
        PROVE  Abstract!Next
    <2>1. Pending' = Append(Pending, t)
      BY <1>0, <1>1, PendingAppended DEF Accept
    <2>2. Len(Pending) < QueueSize
      <3>1. Len(Pending) = count /\ count \in 0 .. QueueSize /\ count # QueueSize
        BY <1>0, <1>1, PendingSeq DEF Accept, Full, TypeOK
      <3>. QED
        BY <3>1, Sizes, SMT
    <2>3. {u \in Task : answer[u] = "ok"}' = {u \in Task : answer[u] = "ok"} \cup {t}
      BY <1>0, <1>1 DEF Accept, Enqueue
    <2>4. {task[w] : w \in At("run")}' = {task[w] : w \in At("run")}
      BY <1>1 DEF Accept
    <2>5. t \notin {u \in Task : answer[u] = "ok"} /\ shutdown = "no"
          /\ UNCHANGED <<done, shutdown>>
      BY <1>1 DEF Accept
    <2>. QED
      BY <2>1, <2>2, <2>3, <2>4, <2>5 DEF Abstract!Next, Abstract!Submit
  <1>2. ASSUME NEW w \in Thread, Take(w)
        PROVE  Abstract!Next
    <2>1. /\ Pending' = Tail(Pending) /\ Pending # <<>> /\ task'[w] = Head(Pending)
      BY <1>0, <1>2, PendingTaken
    <2>2. /\ At("run")' = At("run") \cup {w} /\ w \notin At("run")
          /\ \A v \in At("run") : task'[v] = task[v]
      BY <1>0, <1>2 DEF Take, At
    <2>3. {task[v] : v \in At("run")}' = {task[v] : v \in At("run")} \cup {Head(Pending)}
      BY <2>1, <2>2
    <2>4. shutdown # "immediate" /\ UNCHANGED <<answer, done, shutdown>>
      BY <1>2 DEF Take, Leaving
    <2>. QED
      BY <2>1, <2>3, <2>4 DEF Abstract!Next, Abstract!Start
  <1>3. ASSUME NEW w \in Thread, Run(w)
        PROVE  Abstract!Next
    <2>1. Pending' = Pending /\ UNCHANGED <<answer, shutdown>>
          /\ done' = done \cup {task[w]}
      BY <1>3, PendingSame DEF Run
    <2>2. /\ At("run")' = At("run") \ {w} /\ w \in At("run")
          /\ \A v \in At("run")' : task'[v] = task[v]
      BY <1>0, <1>3 DEF Run, At
    <2>3. \A v \in At("run") : task[v] = task[w] => v = w
      BY <1>0, <2>2 DEF Once
    <2>4. {task[v] : v \in At("run")}' = {task[v] : v \in At("run")} \ {task[w]}
      BY <2>2, <2>3
    <2>5. task[w] \in Task /\ task[w] \in {task[v] : v \in At("run")}
      BY <1>0, <2>2 DEF Once
    <2>. QED
      BY <2>1, <2>4, <2>5 DEF Abstract!Next, Abstract!Finish
  <1>4. CASE Quiet /\ Next
    <2>1. Pending' = Pending /\ UNCHANGED done
      BY <1>4, PendingSame DEF Quiet
    <2>2. {u \in Task : answer[u] = "ok"}' = {u \in Task : answer[u] = "ok"}
      BY <1>4 DEF Quiet
    <2>3. {task[w] : w \in At("run")}' = {task[w] : w \in At("run")}
      BY <1>4 DEF Quiet
    <2>4. \/ shutdown' = shutdown
          \/ shutdown = "no" /\ shutdown' \in {"immediate", "graceful"}
      BY <1>0, <1>4 DEF Next, Born, CreateThread, Created, CreateFails, Add, Worker, Sleep,
         Exit, Take, Run, Spurious, Destroy, DestroyAgain, Join
    <2>5. CASE shutdown' = shutdown
      BY <2>1, <2>2, <2>3, <2>5 DEF Abstract!vars
    <2>6. ASSUME NEW m \in {"immediate", "graceful"}, shutdown = "no", shutdown' = m
          PROVE  Abstract!Shutdown(m)
      BY <2>1, <2>2, <2>3, <2>6 DEF Abstract!Shutdown
    <2>. QED
      BY <2>4, <2>5, <2>6 DEF Abstract!Next
  <1>5. CASE UNCHANGED vars
    <2>1. Pending' = Pending /\ UNCHANGED <<answer, done, shutdown, task, wpc>>
      BY <1>5, PendingSame DEF vars
    <2>. QED
      BY <2>1 DEF Abstract!vars, At
  <1>. QED
    BY <1>0, <1>1, <1>2, <1>3, <1>4, <1>5, TaskMoves

\* The ring, the condition variable and the workers together are the queue that
\* threadpool.h promises, for every number of workers, slots and tasks.
THEOREM PoolImplements == Spec => Implements
  BY PoolInvariant, ImplementsInit, ImplementsStep, PTL
  DEF Spec, Implements, Abstract!Spec
=============================================================================
