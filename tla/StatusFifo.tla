---------------------------- MODULE StatusFifo ----------------------------
(***************************************************************************)
(* How the number of clients is asked for: a poller sends SIGUSR1 to the    *)
(* server and opens a FIFO; the signal handler opens its other end, writes *)
(* the number and closes.  Pollers are the script printStatus.py, which    *)
(* reads to the end of the file, and the page of the web tool (api.js),    *)
(* which reads four bytes and gives up after three seconds.                *)
(*                                                                         *)
(* Nothing says which answer is for whom.  What the pollers can count on    *)
(* holds while polls do not overlap, no poller dies and none gives up:      *)
(* quiet remembers whether that is still so.  got and correct are the      *)
(* history of that time.                                                   *)
(***************************************************************************)
EXTENDS Integers, Sequences

CONSTANTS Script, Page, \* the pollers
          MaxClients,   \* the number of clients stays below
          MaxUnread     \* bound: no handler is started with so many values unread

Poller == Script \cup Page
\* A connection that never logged in counts down when it ends (csiebox_server.c 550).
Number == -1 .. MaxClients
ASSUME StatusAssumption ==
  Script \cap Page = {} /\ MaxClients \in Nat /\ MaxUnread \in Nat

VARIABLES
  client_num, \* clients that are logged in
  pending,    \* SIGUSR1 is pending: one bit, however often it was sent
  handler,    \* "loop": the server is in its loop; "open", "blocked", "write",
              \* "close": where its handler is; "dead": killed by SIGPIPE
  fifo,       \* the numbers in the FIFO
  readers,    \* the pollers that hold it open, or wait to
  poll,       \* what a poller does next
  got,        \* the numbers it has read
  correct,    \* the numbers that were right since it sent its signal
  quiet
vars == <<client_num, pending, handler, fifo, readers, poll, got, correct, quiet>>

TypeOK ==
  /\ client_num \in Number /\ pending \in BOOLEAN
  /\ handler \in {"loop", "open", "blocked", "write", "close", "dead"}
  /\ fifo \in Seq(Number) /\ readers \subseteq Poller
  /\ poll \in [Poller -> {"idle", "open", "blocked", "read", "close", "done", "late",
                          "thrown", "gone"}]
  /\ got \in [Poller -> Seq(Number)]
  /\ correct \in [Poller -> SUBSET Number] /\ quiet \in BOOLEAN

Init ==
  /\ client_num = 0 /\ pending = FALSE /\ handler = "loop" /\ fifo = <<>>
  /\ readers = {} /\ poll = [p \in Poller |-> "idle"] /\ got = [p \in Poller |-> <<>>]
  /\ correct = [p \in Poller |-> {}] /\ quiet = TRUE

\* The server counts as a writer as soon as it opens, even while it is blocked.
Writing == handler \in {"blocked", "write", "close"}
\* What is left in the FIFO is lost when nobody holds it open.
Kept(s, writing, r) == IF writing \/ r # {} THEN s ELSE <<>>

-----------------------------------------------------------------------------
(* The server: its loop, and the handler, during which the loop stands.     *)

\* A client logs in or out.
Serve ==
  /\ handler = "loop"
  /\ client_num' \in {client_num - 1, client_num + 1} \cap Number
  /\ correct' = IF quiet THEN [p \in Poller |-> correct[p] \cup {client_num'}] ELSE correct
  /\ UNCHANGED <<pending, handler, fifo, readers, poll, got, quiet>>

Signal ==
  /\ handler = "loop" /\ pending /\ Len(fifo) < MaxUnread
  /\ pending' = FALSE /\ handler' = "open"
  /\ UNCHANGED <<client_num, fifo, readers, poll, got, correct, quiet>>

\* open(O_WRONLY) lets every waiting reader go on, and waits for one itself.
HandlerOpen ==
  /\ handler = "open"
  /\ handler' = IF readers = {} THEN "blocked" ELSE "write"
  /\ poll' = [p \in Poller |-> IF p \notin readers THEN poll[p]
                             ELSE IF poll[p] = "blocked" THEN "read"
                             ELSE IF poll[p] = "late" THEN "thrown" ELSE poll[p]]
  /\ UNCHANGED <<client_num, pending, fifo, readers, got, correct, quiet>>

\* Mistaken handlers: one writes nothing, and one goes on to serve the next poll.
NoWrite == fifo' = fifo
WriteNum == fifo' = Append(fifo, client_num)
OpenAgain == handler' = "open"
AfterWrite == handler' = "close"

HandlerWrite ==
  /\ handler = "write"
  /\ \/ /\ readers # {} /\ WriteNum /\ AfterWrite
     \/ /\ readers = {} /\ handler' = "dead" /\ fifo' = <<>>
  /\ UNCHANGED <<client_num, pending, readers, poll, got, correct, quiet>>

HandlerClose ==
  /\ handler = "close" /\ handler' = "loop" /\ fifo' = Kept(fifo, FALSE, readers)
  /\ UNCHANGED <<client_num, pending, readers, poll, got, correct, quiet>>

-----------------------------------------------------------------------------
(* The pollers.                                                            *)

Kill(p) ==
  /\ poll[p] \in {"idle", "done"} /\ handler # "dead"
  /\ pending' = TRUE
  /\ poll' = [poll EXCEPT ![p] = "open"] /\ got' = [got EXCEPT ![p] = <<>>]
  /\ correct' = [correct EXCEPT ![p] = {client_num}]
  /\ quiet' = (quiet /\ handler = "loop"
                     /\ \A q \in Poller \ {p} : poll[q] \in {"idle", "done"})
  /\ UNCHANGED <<client_num, handler, fifo, readers>>

Open(p) ==
  /\ poll[p] = "open" \/ (poll[p] = "late" /\ p \notin readers)
  /\ readers' = readers \cup {p}
  /\ poll' = [poll EXCEPT ![p] = IF poll[p] = "open" THEN IF Writing THEN "read" ELSE "blocked"
                                 ELSE IF Writing THEN "thrown" ELSE "late"]
  /\ handler' = IF handler = "blocked" THEN "write" ELSE handler
  /\ UNCHANGED <<client_num, pending, fifo, got, correct, quiet>>

\* read of four bytes, or to the end of the file; none are there when the server has
\* closed it.
Read(p) ==
  /\ poll[p] = "read"
  /\ \/ /\ fifo # <<>>
        /\ got' = IF quiet THEN [got EXCEPT ![p] = Append(@, Head(fifo))] ELSE got
        /\ fifo' = Tail(fifo)
        /\ poll' = IF p \in Page THEN [poll EXCEPT ![p] = "close"] ELSE poll
     \/ /\ fifo = <<>> /\ ~Writing
        /\ poll' = [poll EXCEPT ![p] = "close"] /\ UNCHANGED <<got, fifo>>
  /\ UNCHANGED <<client_num, pending, handler, readers, correct, quiet>>

Close(p) ==
  /\ poll[p] = "close"
  /\ poll' = [poll EXCEPT ![p] = "done"] /\ readers' = readers \ {p}
  /\ fifo' = Kept(fifo, Writing, readers')
  /\ UNCHANGED <<client_num, pending, handler, got, correct, quiet>>

\* The page answers "open timeout".  Its open stays under way: when it ends, the second
\* answer throws and ends the web server, and with it the reader.
GiveUp(p) ==
  /\ p \in Page /\ poll[p] \in {"open", "blocked"}
  /\ poll' = [poll EXCEPT ![p] = "late"] /\ quiet' = FALSE
  /\ UNCHANGED <<client_num, pending, handler, fifo, readers, got, correct>>

\* A poller is stopped, or its late open came back.
Die(p) ==
  /\ poll[p] \in {"open", "blocked", "read", "close", "late", "thrown"}
  /\ poll' = [poll EXCEPT ![p] = "gone"] /\ readers' = readers \ {p}
  /\ fifo' = Kept(fifo, Writing, readers') /\ quiet' = FALSE
  /\ UNCHANGED <<client_num, pending, handler, got, correct>>

-----------------------------------------------------------------------------
Handler == Signal \/ HandlerOpen \/ HandlerWrite \/ HandlerClose
Step(p) == Open(p) \/ Read(p) \/ Close(p)

Next == \/ Serve \/ Handler
        \/ \E p \in Poller : Kill(p) \/ Step(p) \/ GiveUp(p) \/ Die(p)

\* A signal is delivered, and processes run.  Polls, logins and faults need not happen.
Spec == Init /\ [][Next]_vars /\ WF_vars(Handler) /\ \A p \in Poller : WF_vars(Step(p))
-----------------------------------------------------------------------------
(* Properties.                                                             *)

\* A poll ends with one number, not with an empty or a double read, and that number
\* was right at some time since its signal (printStatus.py 45-49, api.js 13-58).
OneFreshNumber ==
  \A p \in Poller : quiet /\ poll[p] = "done" => Len(got[p]) = 1 /\ got[p][1] \in correct[p]

\* The handler, during which no client is served, comes to its end.
BackToLoop == quiet /\ handler # "loop" ~> handler = "loop" \/ ~quiet
=============================================================================
