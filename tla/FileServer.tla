----------------------------- MODULE FileServer -----------------------------
(***************************************************************************)
(* The read and the write servers of sp_even_hw1.c: processes that share   *)
(* files.  Each is one thread that selects over its connections.  A write  *)
(* server takes what one connection has for it until nothing is there, and *)
(* goes on with another one; a read server sends a whole file at once.     *)
(* Between processes, record locks keep writers from writers and readers;  *)
(* within a write server, names are compared.                              *)
(*                                                                         *)
(* Which of the connections that are readable has the lowest descriptor is *)
(* left open: the numbers depend on all files and connections there were.  *)
(***************************************************************************)
EXTENDS Integers, Sequences, FiniteSets

CONSTANTS
  Reader, Writer, \* the processes
  Upload, Download, \* the connections to the one and to the other, each used once
  File,
  Name, FileOf,   \* names, and the files they name
  MaxData,        \* bound: the pieces a client sends behind its header
  Old, Hole,      \* a piece of the files as they are at first, and zeros
  None

Server == Reader \cup Writer
Conn == Upload \cup Download
ASSUME FileAssumption ==
  /\ FileOf \in [Name -> File] /\ MaxData \in Nat /\ Reader \cap Writer = {} /\ Upload \cap Download = {}
  /\ Old \notin Conn /\ Hole \notin Conn \cup {Old}
  /\ None \notin Server \cup Name \cup Conn

VARIABLES
  conn,  \* the connections
  srv,   \* the processes
  file,  \* the content of the files
  lock,  \* the processes that hold the lock of a file: shared or exclusive by their kind
  spoilt \* history: files that were truncated, before the lock was asked for, in the
         \* sight of another process with a lock
vars == <<conn, srv, file, lock, spoilt>>

\* The pieces of upload c, of which a file has the first i at its start.
Piece == (Conn \cup {Old, Hole}) \X Nat
Connection ==
  [at : {"off", "queued", "open", "gone"},
   srv : Server \cup {None}, name : Name \cup {None},
   sent : Nat, peer : {"open", "closed"},     \* the client: units sent, its end
   header : Name \cup {None}, read : Nat,     \* the server: filename, and units read
   ans : {"none", "ACCEPT", "REJECT"},
   off : Nat,                                 \* the offset of the file
   got : Seq(Piece)]                          \* what a reader has been sent
Fresh == [at |-> "off", srv |-> None, name |-> None, sent |-> 0, peer |-> "open",
          header |-> None, read |-> 0, ans |-> "none", off |-> 0, got |-> <<>>]

TypeOK ==
  /\ conn \in [Conn -> Connection]
  /\ srv \in [Server -> [pc : {"select", "take", "lock", "copy", "dead"}, cur : Conn \cup {None}]]
  /\ file \in [File -> Seq(Piece)] /\ lock \in [File -> SUBSET Server]
  /\ spoilt \in SUBSET File

Init ==
  /\ conn = [c \in Conn |-> Fresh]
  /\ srv = [s \in Server |-> [pc |-> "select", cur |-> None]]
  /\ file = [f \in File |-> << <<Old, 1>>, <<Old, 2>> >>]
  /\ lock = [f \in File |-> {}] /\ spoilt = {}

FileFor(c) == FileOf[conn[c].header]
\* masterset: the connections that s has accepted and not closed.
Master(s) == {c \in Conn : conn[c].at = "open" /\ conn[c].srv = s}
Readable(c) == conn[c].read < conn[c].sent \/ conn[c].peer = "closed"
-----------------------------------------------------------------------------
(* The clients: connect, send a header and pieces, close at any time.       *)

Connect(c) ==
  /\ conn[c].at = "off"
  /\ \E s \in IF c \in Upload THEN Writer ELSE Reader, n \in Name :
       /\ srv[s].pc # "dead"
       /\ conn' = [conn EXCEPT ![c].at = "queued", ![c].srv = s, ![c].name = n]
  /\ UNCHANGED <<srv, file, lock, spoilt>>
SendUnit(c) ==
  /\ conn[c].at \in {"queued", "open"} /\ conn[c].peer = "open"
  /\ conn[c].sent < IF c \in Upload THEN 1 + MaxData ELSE 1
  /\ conn' = [conn EXCEPT ![c].sent = @ + 1]
  /\ UNCHANGED <<srv, file, lock, spoilt>>
Finish(c) ==
  /\ conn[c].at \in {"queued", "open"} /\ conn[c].peer = "open"
  /\ conn' = [conn EXCEPT ![c].peer = "closed"]
  /\ UNCHANGED <<srv, file, lock, spoilt>>

-----------------------------------------------------------------------------
(* The loop of a server.                                                   *)

\* accept, and the connection that is served next; a mistake would be to serve only those
\* that have just come.
Waiting(s) == {c \in Conn : conn[c].at = "queued" /\ conn[c].srv = s}
Newest(s) == {c \in Master(s) : Readable(c) /\ conn[c].read = 0}
Ready(s) == {c \in Master(s) : Readable(c)}
Select(s) ==
  /\ srv[s].pc = "select" /\ Waiting(s) \cup Ready(s) # {}
  /\ \/ Waiting(s) = {} /\ UNCHANGED conn
     \/ \E c \in Waiting(s) : conn' = [conn EXCEPT ![c].at = "open"]
  /\ \/ Ready(s) = {} /\ UNCHANGED srv
     \/ \E c \in Ready(s) : srv' = [srv EXCEPT ![s] = [pc |-> "take", cur |-> c]]
  /\ UNCHANGED <<file, lock, spoilt>>

\* What it does when it has closed a connection, and with every close of a file: that
\* gives up all locks of the process on it.
Over(k, ans) == [k EXCEPT !.at = "gone", !.header = None, !.ans = ans]
Closed(c, ans) == [conn EXCEPT ![c] = Over(@, ans)]
Back(s) == srv' = [srv EXCEPT ![s] = [pc |-> "select", cur |-> None]]
Unlocked(s, f) == [lock EXCEPT ![f] = @ \ {s}]

\* The history: a lock is taken while another process is between its truncation and its
\* request for a lock.
Truncating(s, f) ==
  \E r \in Server \ {s} : srv[r].pc = "lock" /\ FileFor(srv[r].cur) = f
Seen(s, f) == IF Truncating(s, f) THEN spoilt \cup {f} ELSE spoilt

\* The client has closed without a header.
NoHeader(c) == conn[c].sent = 0 /\ conn[c].peer = "closed"
Piecemeal(c) == conn[c].read > 0 /\ conn[c].read < conn[c].sent
AtEnd(c) == conn[c].read > 0 /\ conn[c].read = conn[c].sent /\ conn[c].peer = "closed"

-----------------------------------------------------------------------------
(* A write server.  The names are compared at each read; behind the header  *)
(* no other connection can have the name any more.                         *)

NeverSame(s, c) == FALSE
SameName(s, c) == \E d \in Master(s) \ {c} : conn[d].header = conn[c].name
OthersNamed(s, c) == \E d \in Master(s) \ {c} : conn[d].header # None

\* Nothing is there to read: on to another connection.
Leave(s, c) ==
  /\ s \in Writer /\ ~Readable(c) /\ Back(s) /\ UNCHANGED <<conn, file, lock, spoilt>>

Refuse(s, c) ==
  /\ s \in Writer /\ conn[c].read = 0 /\ conn[c].sent > 0 /\ SameName(s, c)
  /\ conn' = Closed(c, "REJECT") /\ Back(s) /\ UNCHANGED <<file, lock, spoilt>>

\* open with O_TRUNC, before the lock is asked for.
Open(s, c) ==
  LET f == FileOf[conn[c].name]
  IN /\ s \in Writer /\ conn[c].read = 0 /\ conn[c].sent > 0 /\ ~SameName(s, c)
     /\ conn' = [conn EXCEPT ![c].read = 1, ![c].header = conn[c].name]
     /\ srv' = [srv EXCEPT ![s].pc = "lock"]
     /\ file' = [file EXCEPT ![f] = <<>>]
     /\ spoilt' = IF lock[f] \ {s} # {} THEN spoilt \cup {f} ELSE spoilt
     /\ UNCHANGED lock

\* fcntl: a lock of any other process is in the way.
Lock(s) ==
  LET c == srv[s].cur
      f == FileFor(c)
  IN /\ srv[s].pc = "lock"
     /\ \/ /\ lock[f] \ {s} # {}
           /\ conn' = Closed(c, "REJECT") /\ lock' = Unlocked(s, f) /\ Back(s)
           /\ UNCHANGED spoilt
        \/ /\ lock[f] \ {s} = {}
           /\ conn' = [conn EXCEPT ![c].ans = "ACCEPT"]
           /\ lock' = [lock EXCEPT ![f] = @ \cup {s}] /\ srv' = [srv EXCEPT ![s].pc = "take"]
           /\ spoilt' = Seen(s, f)
     /\ UNCHANGED file

\* A piece is written at the offset of this upload; zeros fill what was cut off.  Mistaken
\* servers open the file again for each piece, or forget to copy it to the buffer.
Reopened(x, off, p) == <<p>>
Uncopied(x, off, p) == Append(x, <<None, 0>>)
Written(x, off, p) ==
  [i \in 1 .. IF Len(x) > off THEN Len(x) ELSE off + 1 |->
     IF i = off + 1 THEN p ELSE IF i <= Len(x) THEN x[i] ELSE <<Hole, 0>>]
Write(s, c) ==
  LET f == FileFor(c)
      off == conn[c].off
  IN /\ s \in Writer /\ Piecemeal(c)
     /\ file' = [file EXCEPT ![f] = Written(@, off, <<c, off + 1>>)]
     /\ conn' = [conn EXCEPT ![c].read = @ + 1, ![c].off = off + 1]
     /\ UNCHANGED <<srv, lock, spoilt>>

Complete(s, c) ==
  /\ s \in Writer /\ AtEnd(c)
  /\ conn' = Closed(c, "ACCEPT") /\ lock' = Unlocked(s, FileFor(c)) /\ Back(s)
  /\ UNCHANGED <<file, spoilt>>

\* No name to open: refused.  With another name to compare it with, strcmp is given none,
\* and the process ends.
Nameless(s, c) ==
  /\ s \in Writer /\ NoHeader(c) /\ ~OthersNamed(s, c)
  /\ conn' = Closed(c, "REJECT") /\ Back(s) /\ UNCHANGED <<file, lock, spoilt>>
Crash(s, c) ==
  /\ s \in Writer /\ NoHeader(c) /\ OthersNamed(s, c)
  /\ srv' = [srv EXCEPT ![s] = [pc |-> "dead", cur |-> None]]
  /\ conn' = [d \in Conn |-> IF conn[d].srv = s THEN Over(conn[d], conn[d].ans) ELSE conn[d]]
  /\ lock' = [f \in File |-> lock[f] \ {s}]
  /\ UNCHANGED <<file, spoilt>>

-----------------------------------------------------------------------------
(* A read server.                                                          *)

\* A lock of a writer is in the way of a reader's; a mistake would be to read on.
NoConflict(f) == FALSE
Conflict(f) == lock[f] \cap Writer # {}

\* The file cannot be opened without a name, or is being written.
RefuseRead(s, c) ==
  /\ s \in Reader
  /\ NoHeader(c) \/ (conn[c].sent > 0 /\ Conflict(FileOf[conn[c].name]))
  /\ conn' = Closed(c, "REJECT") /\ Back(s) /\ UNCHANGED <<file, lock, spoilt>>
AcceptRead(s, c) ==
  LET f == FileOf[conn[c].name]
  IN /\ s \in Reader /\ conn[c].sent > 0 /\ ~Conflict(f)
     /\ conn' = [conn EXCEPT ![c].read = 1, ![c].header = conn[c].name, ![c].ans = "ACCEPT"]
     /\ srv' = [srv EXCEPT ![s].pc = "copy"]
     /\ lock' = [lock EXCEPT ![f] = @ \cup {s}] /\ spoilt' = Seen(s, f)
     /\ UNCHANGED file

\* read and write until read returns 0.
Copy(s) ==
  LET c == srv[s].cur
      f == FileFor(c)
      off == conn[c].off
  IN /\ srv[s].pc = "copy"
     /\ \/ /\ off < Len(file[f])
           /\ conn' = [conn EXCEPT ![c].got = Append(@, file[f][off + 1]), ![c].off = off + 1]
           /\ UNCHANGED <<srv, lock>>
        \/ /\ off >= Len(file[f])
           /\ conn' = Closed(c, "ACCEPT") /\ lock' = Unlocked(s, f) /\ Back(s)
     /\ UNCHANGED <<file, spoilt>>

-----------------------------------------------------------------------------
Take(s) ==
  /\ srv[s].pc = "take"
  /\ LET c == srv[s].cur
     IN \/ Leave(s, c) \/ Refuse(s, c) \/ Open(s, c) \/ Write(s, c) \/ Complete(s, c)
        \/ Nameless(s, c) \/ Crash(s, c) \/ RefuseRead(s, c) \/ AcceptRead(s, c)
Step(s) == Select(s) \/ Take(s) \/ Lock(s) \/ Copy(s)

Next == \/ \E s \in Server : Step(s)
        \/ \E c \in Conn : Connect(c) \/ SendUnit(c) \/ Finish(c)

\* The processes run; clients need not connect, send or close.
Spec == Init /\ [][Next]_vars /\ \A s \in Server : WF_vars(Step(s))
-----------------------------------------------------------------------------
(* Properties.  A file with two names can be uploaded twice at a time by    *)
(* one process, whose locks do not keep it from itself.                    *)

OneName(f) == \A m, n \in Name : FileOf[m] = f /\ FileOf[n] = f => m = n
\* fd_table: the file of the connection is open for writing.
Uploads(f) == {c \in Upload : conn[c].at = "open" /\ conn[c].ans = "ACCEPT" /\ FileFor(c) = f}

\* An accepted upload has the file for itself, against those of its own process and of
\* others, and against readers, from ACCEPT until it is closed (187, 212, 226).
OneWriter ==
  \A f \in File : OneName(f) =>
    \A c \in Uploads(f) : Uploads(f) = {c} /\ lock[f] = {conn[c].srv}

\* What an upload has written so far is the file, whatever other clients try meanwhile
\* (198-220), unless another process truncated it.
Uploaded ==
  \A f \in File : OneName(f) /\ f \notin spoilt =>
    \A c \in Uploads(f) : file[f] = [i \in 1 .. conn[c].off |-> <<c, i>>]

\* A read that was accepted sends a file as it was at first or as one finished upload
\* left it (151, 160), unless another process truncated it.
Contents == {<< <<Old, 1>>, <<Old, 2>> >>} \cup
            {[i \in 1 .. conn[c].read - 1 |-> <<c, i>>] : c \in {d \in Upload :
               conn[d].at = "gone" /\ conn[d].ans = "ACCEPT"}}
WholeRead ==
  \A c \in Download :
    /\ conn[c].at = "gone" /\ conn[c].ans = "ACCEPT"
    /\ OneName(FileOf[conn[c].name]) /\ FileOf[conn[c].name] \notin spoilt
    => conn[c].got \in Contents

\* A client that closes is done with in the end, however many others the server has.
Served == \A c \in Conn : conn[c].peer = "closed" ~> conn[c].at = "gone"
=============================================================================
