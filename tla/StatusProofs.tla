---------------------------- MODULE StatusProofs ----------------------------
(***************************************************************************)
(* Proofs about StatusFifo: types, and that a poll which nobody disturbs    *)
(* ends with one number that was right.                                    *)
(***************************************************************************)
EXTENDS StatusFifo, TLAPS

Resting(p) == poll[p] \in {"idle", "done"}

\* A poll whose signal has not been answered, and one whose answer is under way or read:
\* where its poller, the handler and the number are.
Unanswered(p) ==
  /\ fifo = <<>> /\ got[p] = <<>>
  /\ \/ pending /\ handler = "loop" /\ poll[p] \in {"open", "blocked"}
     \/ ~pending /\ handler = "open" /\ poll[p] \in {"open", "blocked"}
     \/ ~pending /\ handler = "blocked" /\ poll[p] = "open"
     \/ ~pending /\ handler = "write" /\ poll[p] = "read"
Answered(p) ==
  /\ ~pending /\ handler \in {"close", "loop"} /\ poll[p] \in {"read", "close"}
  /\ \/ got[p] = <<>> /\ poll[p] = "read" /\ \E n \in correct[p] : fifo = <<n>>
     \/ fifo = <<>> /\ \E n \in correct[p] : got[p] = <<n>>

\* The only poll under way.
Alone(p) ==
  /\ \A q \in Poller \ {p} : Resting(q)
  /\ client_num \in correct[p]
  /\ readers = IF poll[p] = "open" THEN {} ELSE {p}
  /\ Unanswered(p) \/ Answered(p)

\* No poll is under way; the handler may be about to close.
Rest ==
  /\ \A p \in Poller : Resting(p)
  /\ ~pending /\ handler \in {"close", "loop"} /\ fifo = <<>> /\ readers = {}

Undisturbed == quiet => OneFreshNumber /\ (Rest \/ \E p \in Poller : Alone(p))
IInv == TypeOK /\ Undisturbed

-----------------------------------------------------------------------------
LEMMA EmptyTyped == <<>> \in Seq(Number)
OBVIOUS

LEMMA KeptTyped ==
  ASSUME TypeOK, NEW w, NEW r PROVE Kept(fifo, w, r) \in Seq(Number)
BY EmptyTyped DEF Kept, TypeOK

LEMMA InitIInv == Init => IInv
<1> SUFFICES ASSUME Init PROVE IInv
  OBVIOUS
<1>1. 0 \in Number
  BY StatusAssumption DEF Number
<1>2. TypeOK
  BY <1>1, EmptyTyped DEF Init, TypeOK
<1>3. Rest /\ OneFreshNumber
  BY DEF Init, Rest, Resting, OneFreshNumber
<1> QED  BY <1>2, <1>3 DEF IInv, Undisturbed

\* A number that somebody has just logged in or out for is right for everybody.
LEMMA ServeIInv == IInv /\ Serve => IInv'
<1> SUFFICES ASSUME IInv, Serve PROVE IInv'
  OBVIOUS
<1>1. TypeOK'
  BY DEF IInv, TypeOK, Serve, Number
<1>2. ASSUME quiet' PROVE OneFreshNumber' /\ (Rest' \/ \E p \in Poller : Alone(p)')
  <2>1. quiet /\ OneFreshNumber /\ (Rest \/ \E p \in Poller : Alone(p))
    BY <1>2 DEF Serve, IInv, Undisturbed
  <2>2. \A p \in Poller : correct[p] \subseteq correct'[p] /\ client_num' \in correct'[p]
    BY <2>1 DEF Serve, IInv, TypeOK
  <2>3. OneFreshNumber'
    BY <2>1, <2>2 DEF Serve, OneFreshNumber
  <2>4. CASE Rest
    <3>1. Rest'
      BY <2>4 DEF Serve, Rest, Resting
    <3> QED  BY <2>3, <3>1
  <2>5. ASSUME NEW p \in Poller, Alone(p) PROVE Alone(p)'
    <3>1. Unanswered(p) => Unanswered(p)'
      BY DEF Serve, Unanswered
    <3>2. Answered(p) => Answered(p)'
      BY <2>2 DEF Serve, Answered
    <3> QED  BY <2>2, <2>5, <3>1, <3>2 DEF Serve, Alone, Resting
  <2> QED  BY <2>1, <2>3, <2>4, <2>5
<1> QED  BY <1>1, <1>2 DEF IInv, Undisturbed

-----------------------------------------------------------------------------
(* The handler.                                                            *)

LEMMA HandlerTypes == TypeOK /\ Handler => TypeOK'
<1> SUFFICES ASSUME TypeOK, Handler PROVE TypeOK'
  OBVIOUS
<1>1. CASE Signal
  BY <1>1 DEF Signal, TypeOK
<1>2. CASE HandlerOpen
  <2>1. poll' \in [Poller -> {"idle", "open", "blocked", "read", "close", "done", "late",
                             "thrown", "gone"}]
    BY <1>2 DEF HandlerOpen, TypeOK
  <2> QED  BY <1>2, <2>1 DEF HandlerOpen, TypeOK
<1>3. CASE HandlerWrite
  <2>1. fifo' \in Seq(Number)
    <3>1. Append(fifo, client_num) \in Seq(Number)
      BY DEF TypeOK
    <3> QED  BY <1>3, <3>1, EmptyTyped DEF HandlerWrite, WriteNum
  <2> QED  BY <1>3, <2>1 DEF HandlerWrite, AfterWrite, TypeOK
<1>4. CASE HandlerClose
  <2>1. fifo' \in Seq(Number)
    BY <1>4, KeptTyped DEF HandlerClose
  <2> QED  BY <1>4, <2>1 DEF HandlerClose, TypeOK
<1> QED  BY <1>1, <1>2, <1>3, <1>4 DEF Handler

\* Nothing of the handler ends a poll, so what is done stays as it is.
LEMMA HandlerQuiet ==
  ASSUME IInv, Handler, quiet'
  PROVE  /\ quiet /\ OneFreshNumber /\ OneFreshNumber'
         /\ Rest \/ \E p \in Poller : Alone(p)
         /\ \A p \in Poller : Resting(p) => Resting(p)'
         /\ \A p \in Poller : correct'[p] = correct[p]
<1>1. quiet /\ got' = got /\ correct' = correct
  BY DEF Handler, Signal, HandlerOpen, HandlerWrite, HandlerClose
<1>2. \A p \in Poller : /\ poll'[p] = "done" => poll[p] = "done"
                        /\ Resting(p) => Resting(p)'
  BY DEF Handler, Signal, HandlerOpen, HandlerWrite, HandlerClose, Resting, IInv, TypeOK
<1> QED  BY <1>1, <1>2 DEF IInv, Undisturbed, OneFreshNumber

LEMMA HandlerIInv == IInv /\ Handler => IInv'
<1> SUFFICES ASSUME IInv, Handler PROVE IInv'
  OBVIOUS
<1>1. TypeOK'
  BY HandlerTypes DEF IInv
<1>2. ASSUME quiet' PROVE OneFreshNumber' /\ (Rest' \/ \E p \in Poller : Alone(p)')
  <2>1. CASE Rest
    <3>1. HandlerClose /\ poll' = poll
      BY <2>1 DEF Rest, Handler, Signal, HandlerOpen, HandlerWrite, HandlerClose
    <3>2. Rest'
      BY <2>1, <3>1 DEF Rest, Resting, HandlerClose, Kept
    <3> QED  BY <1>2, <3>2, HandlerQuiet
  <2>2. ASSUME NEW p \in Poller, Alone(p) PROVE Alone(p)'
    <3>1. \A q \in Poller \ {p} : Resting(q)'
      BY <1>2, <2>2, HandlerQuiet DEF Alone
    <3>2. readers' = readers /\ client_num' = client_num /\ correct' = correct /\ got' = got
      BY DEF Handler, Signal, HandlerOpen, HandlerWrite, HandlerClose
    <3>3. CASE Signal
      BY <2>2, <3>1, <3>2, <3>3 DEF Signal, Alone, Unanswered, Answered
    <3>4. CASE HandlerOpen
      <4>1. Unanswered(p) /\ poll[p] \in {"open", "blocked"}
        BY <2>2, <3>4 DEF HandlerOpen, Alone, Unanswered, Answered
      <4>2. CASE poll[p] = "open"
        <5>1. readers = {} /\ handler' = "blocked" /\ poll'[p] = "open"
          BY <2>2, <3>4, <4>2 DEF HandlerOpen, Alone, IInv, TypeOK
        <5> QED  BY <2>2, <3>1, <3>2, <3>4, <4>1, <4>2, <5>1 DEF HandlerOpen, Alone, Unanswered
      <4>3. CASE poll[p] = "blocked"
        <5>1. readers = {p} /\ handler' = "write" /\ poll'[p] = "read"
          BY <2>2, <3>4, <4>3 DEF HandlerOpen, Alone, IInv, TypeOK
        <5> QED  BY <2>2, <3>1, <3>2, <3>4, <4>1, <4>3, <5>1 DEF HandlerOpen, Alone, Unanswered
      <4> QED  BY <4>1, <4>2, <4>3
    <3>5. CASE HandlerWrite
      <4>1. Unanswered(p) /\ poll[p] = "read" /\ readers = {p} /\ fifo = <<>>
        BY <2>2, <3>5 DEF HandlerWrite, Alone, Unanswered, Answered
      <4>2. fifo' = <<client_num>> /\ handler' = "close" /\ poll' = poll /\ ~pending'
        BY <3>5, <4>1 DEF HandlerWrite, WriteNum, AfterWrite, Unanswered
      <4>3. Answered(p)'
        BY <2>2, <3>2, <4>1, <4>2 DEF Alone, Answered, Unanswered
      <4> QED  BY <2>2, <3>1, <3>2, <4>1, <4>2, <4>3 DEF Alone
    <3>6. CASE HandlerClose
      <4>1. Answered(p) /\ readers = {p}
        BY <2>2, <3>6 DEF HandlerClose, Alone, Unanswered, Answered
      <4>2. fifo' = fifo
        BY <3>6, <4>1 DEF HandlerClose, Kept
      <4> QED  BY <2>2, <3>1, <3>2, <3>6, <4>1, <4>2 DEF HandlerClose, Alone, Answered
    <3> QED  BY <3>3, <3>4, <3>5, <3>6 DEF Handler
  <2> QED  BY <1>2, <2>1, <2>2, HandlerQuiet
<1> QED  BY <1>1, <1>2 DEF IInv, Undisturbed

-----------------------------------------------------------------------------
(* The pollers.                                                            *)

\* A signal while nothing is under way starts a poll of its own; any other one disturbs.
LEMMA KillIInv == ASSUME IInv, NEW p \in Poller, Kill(p) PROVE IInv'
<1>1. TypeOK'
  BY DEF IInv, TypeOK, Kill
<1>2. ASSUME quiet' PROVE OneFreshNumber' /\ Alone(p)'
  <2>1. /\ quiet /\ handler = "loop" /\ \A q \in Poller \ {p} : Resting(q)
        /\ OneFreshNumber /\ (Rest \/ \E q \in Poller : Alone(q))
    BY <1>2 DEF Kill, Resting, IInv, Undisturbed
  <2>2. Resting(p)
    BY DEF Kill, Resting
  <2>3. Rest
    BY <2>1, <2>2 DEF Alone, Unanswered, Answered, Resting
  <2>4. /\ poll'[p] = "open" /\ got'[p] = <<>> /\ correct'[p] = {client_num}
        /\ \A q \in Poller \ {p} : poll'[q] = poll[q] /\ got'[q] = got[q] /\ correct'[q] = correct[q]
        /\ pending' /\ UNCHANGED <<client_num, handler, fifo, readers>>
    BY DEF Kill, IInv, TypeOK
  <2>5. Alone(p)'
    BY <2>1, <2>3, <2>4 DEF Alone, Unanswered, Rest, Resting
  <2>6. OneFreshNumber'
    BY <2>1, <2>4 DEF OneFreshNumber
  <2> QED  BY <2>5, <2>6
<1> QED  BY <1>1, <1>2 DEF IInv, Undisturbed

\* A step of the only poller.
LEMMA StepIInv == ASSUME IInv, NEW p \in Poller, Step(p) PROVE IInv'
<1>1. TypeOK'
  <2>1. CASE Open(p)
    BY <2>1 DEF IInv, TypeOK, Open
  <2>2. CASE Read(p)
    <3>1. fifo' \in Seq(Number)
      <4>1. fifo # <<>> => Tail(fifo) \in Seq(Number)
        BY DEF IInv, TypeOK
      <4> QED  BY <2>2, <4>1 DEF IInv, TypeOK, Read
    <3>2. got' \in [Poller -> Seq(Number)]
      <4>1. CASE fifo = <<>>
        BY <2>2, <4>1 DEF IInv, TypeOK, Read
      <4>2. CASE fifo # <<>>
        <5>1. Append(got[p], Head(fifo)) \in Seq(Number)
          BY <4>2 DEF IInv, TypeOK
        <5> QED  BY <2>2, <4>2, <5>1 DEF IInv, TypeOK, Read
      <4> QED  BY <4>1, <4>2
    <3>3. poll' \in [Poller -> {"idle", "open", "blocked", "read", "close", "done", "late",
                               "thrown", "gone"}]
      BY <2>2 DEF IInv, TypeOK, Read
    <3> QED  BY <2>2, <3>1, <3>2, <3>3 DEF IInv, TypeOK, Read
  <2>3. CASE Close(p)
    <3>1. fifo' \in Seq(Number)
      BY <2>3, KeptTyped DEF IInv, Close
    <3> QED  BY <2>3, <3>1 DEF IInv, TypeOK, Close
  <2> QED  BY <2>1, <2>2, <2>3 DEF Step
<1>2. ASSUME quiet' PROVE OneFreshNumber' /\ (Rest' \/ Alone(p)')
  <2>1. quiet /\ OneFreshNumber /\ (Rest \/ \E q \in Poller : Alone(q))
    BY <1>2 DEF Step, Open, Read, Close, IInv, Undisturbed
  <2>2. Alone(p)
    BY <2>1 DEF Step, Open, Read, Close, Alone, Rest, Resting
  <2>3. /\ \A q \in Poller \ {p} : Resting(q)' /\ poll'[q] = poll[q] /\ got'[q] = got[q]
        /\ correct' = correct /\ client_num' = client_num /\ pending' = pending
    BY <2>2 DEF Step, Open, Read, Close, Alone, Resting, IInv, TypeOK
  <2>4. CASE Open(p)
    <3>1. poll[p] = "open" /\ Unanswered(p) /\ readers = {}
      BY <2>2, <2>4 DEF Open, Alone, Unanswered, Answered
    <3>2. readers' = {p} /\ fifo' = fifo /\ got' = got
      BY <2>4, <3>1 DEF Open
    <3>3. CASE handler = "blocked"
      <4>1. poll'[p] = "read" /\ handler' = "write"
        BY <2>4, <3>1, <3>3 DEF Open, Writing, IInv, TypeOK
      <4> QED  BY <2>1, <2>2, <2>3, <3>1, <3>2, <3>3, <4>1
               DEF Alone, Unanswered, OneFreshNumber
    <3>4. CASE handler # "blocked"
      <4>1. poll'[p] = "blocked" /\ handler' = handler
        BY <2>4, <3>1, <3>4 DEF Open, Writing, IInv, TypeOK, Unanswered
      <4> QED  BY <2>1, <2>2, <2>3, <3>1, <3>2, <3>4, <4>1
               DEF Alone, Unanswered, OneFreshNumber
    <3> QED  BY <3>3, <3>4
  <2>5. CASE Read(p)
    <3>1. readers = {p} /\ readers' = readers /\ handler' = handler /\ poll[p] = "read"
      BY <2>2, <2>5 DEF Read, Alone
    <3>2. CASE fifo # <<>>
      <4>1. got[p] = <<>> /\ handler \in {"close", "loop"} /\ ~pending
        BY <2>2, <3>2 DEF Alone, Unanswered, Answered
      <4>2. PICK n \in correct[p] : fifo = <<n>>
        BY <2>2, <3>2 DEF Alone, Unanswered, Answered
      <4>3. fifo' = <<>> /\ got'[p] = <<n>> /\ poll'[p] \in {"read", "close"}
        BY <1>2, <2>1, <2>5, <3>1, <3>2, <4>1, <4>2 DEF Read, IInv, TypeOK
      <4>4. Answered(p)'
        BY <2>3, <3>1, <4>1, <4>2, <4>3 DEF Answered
      <4> QED  BY <2>1, <2>2, <2>3, <3>1, <4>3, <4>4 DEF Alone, OneFreshNumber
    <3>3. CASE fifo = <<>>
      <4>1. ~Writing /\ poll'[p] = "close" /\ got' = got /\ fifo' = fifo
        BY <2>5, <3>3 DEF Read, IInv, TypeOK
      <4>2. Answered(p) /\ \E n \in correct[p] : got[p] = <<n>>
        BY <2>2, <3>1, <3>3, <4>1 DEF Alone, Unanswered, Answered, Writing
      <4>3. Answered(p)'
        BY <2>3, <3>1, <3>3, <4>1, <4>2 DEF Answered
      <4> QED  BY <2>1, <2>2, <2>3, <3>1, <4>1, <4>3 DEF Alone, OneFreshNumber
    <3> QED  BY <3>2, <3>3
  <2>6. CASE Close(p)
    <3>1. Answered(p) /\ readers = {p} /\ fifo = <<>> /\ \E n \in correct[p] : got[p] = <<n>>
      BY <2>2, <2>6 DEF Close, Alone, Unanswered, Answered
    <3>2. poll'[p] = "done" /\ readers' = {} /\ fifo' = <<>> /\ handler' = handler /\ got' = got
      BY <2>6, <3>1 DEF Close, Kept, IInv, TypeOK
    <3>3. Rest'
      BY <2>3, <3>1, <3>2 DEF Rest, Resting, Answered
    <3>4. Len(got'[p]) = 1 /\ got'[p][1] \in correct'[p]
      <4>1. PICK n \in correct[p] : got[p] = <<n>>
        BY <3>1
      <4> QED  BY <2>3, <3>2, <4>1
    <3> QED  BY <2>1, <2>3, <3>3, <3>4 DEF OneFreshNumber
  <2> QED  BY <2>4, <2>5, <2>6 DEF Step
<1> QED  BY <1>1, <1>2 DEF IInv, Undisturbed

\* A poller that gives up or dies disturbs.
LEMMA LeaveIInv == ASSUME IInv, NEW p \in Poller, GiveUp(p) \/ Die(p) PROVE IInv'
<1>1. TypeOK'
  <2>1. fifo' \in Seq(Number)
    BY KeptTyped DEF IInv, TypeOK, GiveUp, Die
  <2> QED  BY <2>1 DEF IInv, TypeOK, GiveUp, Die
<1>2. ~quiet'
  BY DEF GiveUp, Die
<1> QED  BY <1>1, <1>2 DEF IInv, Undisturbed

-----------------------------------------------------------------------------
LEMMA NextIInv == IInv /\ [Next]_vars => IInv'
<1> SUFFICES ASSUME IInv, [Next]_vars PROVE IInv'
  OBVIOUS
<1>1. CASE UNCHANGED vars
  BY <1>1 DEF vars, IInv, TypeOK, Undisturbed, OneFreshNumber, Rest, Resting, Alone,
              Unanswered, Answered
<1> QED  BY <1>1, ServeIInv, HandlerIInv, KillIInv, StepIInv, LeaveIInv DEF Next

LEMMA SpecIInv == Spec => []IInv
<1>1. Spec => Init /\ [][Next]_vars
  BY PTL DEF Spec
<1> QED  BY <1>1, InitIInv, NextIInv, PTL

\* Every variable keeps its type, for any number of pollers, clients and answers unread.
THEOREM StatusTypes == Spec => []TypeOK
<1>1. IInv => TypeOK
  BY DEF IInv
<1> QED  BY <1>1, SpecIInv, PTL

\* A poll of the script or of the page that nothing disturbs ends with one number, which
\* was right since its signal, however clients come and go meanwhile.
THEOREM FreshNumberKept == Spec => []OneFreshNumber
<1>1. IInv => OneFreshNumber
  BY DEF IInv, Undisturbed, OneFreshNumber
<1> QED  BY <1>1, SpecIInv, PTL
=============================================================================
