----------------------------- MODULE FileProofs -----------------------------
(***************************************************************************)
(* Proofs about FileServer: types, one writer to a file, the content of a  *)
(* file that is being uploaded, and what a reader is sent.                 *)
(***************************************************************************)
EXTENDS FileServer, TLAPS

\* A process that is past select has a connection of its own at hand.  One between its
\* open and its lock has truncated the file, and nobody else has a lock on it, unless
\* the file is spoilt or has two names.
ServingAt(s) ==
  /\ srv[s].pc \in {"take", "lock", "copy"} =>
       srv[s].cur \in Conn /\ conn[srv[s].cur].at = "open" /\ conn[srv[s].cur].srv = s
  /\ srv[s].pc \in {"lock", "copy"} => conn[srv[s].cur].header # None
  /\ srv[s].pc = "copy" => s \in Reader
  /\ srv[s].pc = "lock" =>
       /\ s \in Writer /\ conn[srv[s].cur].ans = "none" /\ conn[srv[s].cur].off = 0
       /\ OneName(FileFor(srv[s].cur)) /\ FileFor(srv[s].cur) \notin spoilt =>
            file[FileFor(srv[s].cur)] = <<>> /\ lock[FileFor(srv[s].cur)] \subseteq {s}
Serving == \A s \in Server : ServingAt(s)

\* A connection has a file name from its header to its end.
Named ==
  \A c \in Conn :
    /\ conn[c].at = "off" => conn[c].srv = None
    /\ conn[c].at # "off" =>
         conn[c].name \in Name /\ conn[c].srv \in IF c \in Upload THEN Writer ELSE Reader
    /\ conn[c].header # None <=> conn[c].at = "open" /\ conn[c].read > 0
    /\ conn[c].at \in {"off", "queued"} => conn[c].read = 0
    /\ conn[c].at # "gone" /\ conn[c].read = 0 => conn[c].ans = "none" /\ conn[c].off = 0

\* A write server has a name once only.
Distinct ==
  \A c, d \in Upload :
    conn[c].srv = conn[d].srv /\ conn[c].header # None /\ conn[c].header = conn[d].header
    => c = d

\* Past its lock, a connection of a write server is an upload, and its process alone has
\* the lock of its file.
Up(c) == conn[c].at = "open" /\ conn[c].ans = "ACCEPT"
HoldingAt(c) ==
  /\ conn[c].header # None =>
       Up(c) \/ (srv[conn[c].srv].pc = "lock" /\ srv[conn[c].srv].cur = c)
  /\ Up(c) => conn[c].header # None
  /\ Up(c) /\ OneName(FileFor(c)) => lock[FileFor(c)] = {conn[c].srv}
Holding == \A c \in Upload : HoldingAt(c)

IInv == TypeOK /\ Serving /\ Named /\ Distinct /\ Holding /\ Uploaded
-----------------------------------------------------------------------------
LEMMA Initially == Init => IInv
<1> SUFFICES ASSUME Init PROVE IInv  OBVIOUS
<1> USE FileAssumption
<1>1. TypeOK
  BY DEF Init, TypeOK, Connection, Fresh, Piece
<1>2. Serving
  BY DEF Init, Serving, ServingAt
<1>3. \A c \in Conn : conn[c] = Fresh
  BY DEF Init
<1>4. Named /\ Distinct /\ Holding
  BY <1>3 DEF Named, Distinct, Holding, HoldingAt, Up, Fresh, Conn
<1>5. Uploaded
  BY <1>3 DEF Uploaded, Uploads, Fresh, Conn
<1> QED  BY <1>1, <1>2, <1>4, <1>5 DEF IInv

LEMMA FileNamed ==
  ASSUME IInv, NEW c \in Conn, conn[c].header # None
  PROVE  conn[c].header \in Name /\ FileFor(c) \in File
BY FileAssumption DEF IInv, TypeOK, Connection, FileFor

\* Two uploads of one process to a file with one name are one upload.
LEMMA SameUpload ==
  ASSUME IInv, NEW c \in Upload, NEW d \in Upload, conn[c].srv = conn[d].srv,
         conn[c].header # None, conn[d].header # None,
         FileFor(c) = FileFor(d), OneName(FileFor(c))
  PROVE  c = d
<1>1. c \in Conn /\ d \in Conn
  BY DEF Conn
<1>2. conn[c].header = conn[d].header
  BY <1>1, FileNamed DEF OneName, FileFor
<1> QED  BY <1>2 DEF IInv, Distinct

\* A server that does not step keeps its place when its connection and its file are left
\* alone.
LEMMA OtherServes ==
  ASSUME IInv, NEW r \in Server, srv'[r] = srv[r],
         srv[r].pc \in {"take", "lock", "copy"} =>
           /\ conn'[srv[r].cur].at = conn[srv[r].cur].at
           /\ conn'[srv[r].cur].srv = conn[srv[r].cur].srv
           /\ conn'[srv[r].cur].header = conn[srv[r].cur].header
           /\ conn'[srv[r].cur].ans = conn[srv[r].cur].ans
           /\ conn'[srv[r].cur].off = conn[srv[r].cur].off,
         srv[r].pc = "lock" /\ OneName(FileFor(srv[r].cur)) /\ FileFor(srv[r].cur) \notin spoilt' =>
           /\ FileFor(srv[r].cur) \notin spoilt
           /\ file'[FileFor(srv[r].cur)] = file[FileFor(srv[r].cur)]
           /\ lock'[FileFor(srv[r].cur)] \subseteq lock[FileFor(srv[r].cur)]
  PROVE  ServingAt(r)'
BY SMTT(30) DEF IInv, Serving, ServingAt, FileFor, OneName

-----------------------------------------------------------------------------
(* The clients.                                                            *)

\* What the history and the servers know does not depend on units that are sent.
LEMMA ClientKeeps ==
  ASSUME IInv, NEW c \in Conn,
         UNCHANGED <<srv, file, lock, spoilt>>, conn' \in [Conn -> Connection],
         \A d \in Conn : d # c => conn'[d] = conn[d],
         conn'[c].header = conn[c].header, conn'[c].read = conn[c].read,
         conn'[c].ans = conn[c].ans, conn'[c].off = conn[c].off,
         \/ conn'[c].at = conn[c].at /\ conn'[c].srv = conn[c].srv /\ conn'[c].name = conn[c].name
         \/ /\ conn[c].at = "off" /\ conn'[c].at = "queued" /\ conn'[c].name \in Name
            /\ conn'[c].srv \in IF c \in Upload THEN Writer ELSE Reader
  PROVE  IInv'
<1> USE FileAssumption DEF IInv
<1>1. conn[c].at = "off" => conn[c].header = None /\ conn[c].read = 0
  BY DEF Named
<1>2. \A d \in Conn : /\ conn'[d].header = conn[d].header /\ conn'[d].read = conn[d].read
                      /\ conn'[d].ans = conn[d].ans /\ conn'[d].off = conn[d].off
                      /\ conn[d].at # "off" =>
                           /\ conn'[d].at = conn[d].at /\ conn'[d].srv = conn[d].srv
                           /\ conn'[d].name = conn[d].name
                      /\ conn[d].at = "off" => d = c \/ conn'[d] = conn[d]
  OBVIOUS
<1>3. TypeOK'
  BY DEF TypeOK
<1>4. Serving'
  <2> SUFFICES ASSUME NEW s \in Server PROVE ServingAt(s)'
    BY DEF Serving
  <2>1. srv[s].pc \in {"take", "lock", "copy"} =>
          LET d == srv[s].cur IN
          /\ d \in Conn /\ conn'[d].at = "open" /\ conn'[d].srv = s
          /\ conn'[d].header = conn[d].header /\ conn'[d].ans = conn[d].ans
          /\ conn'[d].off = conn[d].off
    BY <1>2 DEF Serving, ServingAt
  <2> QED  BY SMTT(30), <2>1 DEF Serving, ServingAt, FileFor, OneName
<1>5. Named'
  BY <1>1, <1>2 DEF Named
<1>6. Distinct'
  BY <1>2 DEF Distinct, Named, Conn
<1>7. Holding'
  BY <1>2 DEF Holding, HoldingAt, Up, Named, FileFor, Conn
<1>8. Uploaded'
  BY SMTT(30), <1>1, <1>2 DEF Uploaded, Uploads, FileFor, Conn
<1> QED  BY <1>3, <1>4, <1>5, <1>6, <1>7, <1>8

LEMMA ClientsKeep ==
  ASSUME IInv, NEW c \in Conn, Connect(c) \/ SendUnit(c) \/ Finish(c) PROVE IInv'
<1> USE FileAssumption
<1> conn \in [Conn -> Connection]
  BY DEF IInv, TypeOK
<1>1. CASE Connect(c)
  <2>1. PICK s \in IF c \in Upload THEN Writer ELSE Reader, n \in Name :
          conn' = [conn EXCEPT ![c].at = "queued", ![c].srv = s, ![c].name = n]
    BY <1>1 DEF Connect, Server
  <2>2. UNCHANGED <<srv, file, lock, spoilt>> /\ conn[c].at = "off"
    BY <1>1 DEF Connect
  <2>3. conn'[c] = [conn[c] EXCEPT !.at = "queued", !.srv = s, !.name = n]
    BY <2>1
  <2>4. conn'[c] \in Connection
    BY <2>3 DEF Connection, Server
  <2>5. conn' \in [Conn -> Connection]
    BY <2>1, <2>4
  <2>6. /\ \A d \in Conn : d # c => conn'[d] = conn[d]
        /\ conn'[c].header = conn[c].header /\ conn'[c].read = conn[c].read
        /\ conn'[c].ans = conn[c].ans /\ conn'[c].off = conn[c].off
    BY <2>1, <2>3 DEF Connection
  <2>7. /\ conn'[c].at = "queued" /\ conn'[c].name \in Name
        /\ conn'[c].srv \in IF c \in Upload THEN Writer ELSE Reader
    BY <2>3 DEF Connection
  <2> QED  BY <2>2, <2>5, <2>6, <2>7, ClientKeeps
<1>2. CASE SendUnit(c)
  <2>1. conn' = [conn EXCEPT ![c].sent = @ + 1]
    BY <1>2 DEF SendUnit
  <2>2. UNCHANGED <<srv, file, lock, spoilt>>
    BY <1>2 DEF SendUnit
  <2>3. conn'[c] = [conn[c] EXCEPT !.sent = @ + 1]
    BY <2>1
  <2>4. conn[c].sent + 1 \in Nat
    BY DEF Connection
  <2>5. conn'[c] \in Connection
    BY <2>3, <2>4 DEF Connection
  <2>6. conn' \in [Conn -> Connection]
    BY <2>1, <2>5
  <2>7. /\ \A d \in Conn : d # c => conn'[d] = conn[d]
        /\ conn'[c].header = conn[c].header /\ conn'[c].read = conn[c].read
        /\ conn'[c].ans = conn[c].ans /\ conn'[c].off = conn[c].off
    BY <2>1, <2>3 DEF Connection
  <2>8. conn'[c].at = conn[c].at /\ conn'[c].srv = conn[c].srv /\ conn'[c].name = conn[c].name
    BY <2>3 DEF Connection
  <2> QED  BY <2>2, <2>6, <2>7, <2>8, ClientKeeps
<1>3. CASE Finish(c)
  <2>1. conn' = [conn EXCEPT ![c].peer = "closed"]
    BY <1>3 DEF Finish
  <2>2. UNCHANGED <<srv, file, lock, spoilt>>
    BY <1>3 DEF Finish
  <2>3. conn'[c] = [conn[c] EXCEPT !.peer = "closed"]
    BY <2>1
  <2>4. conn'[c] \in Connection
    BY <2>3 DEF Connection
  <2>5. conn' \in [Conn -> Connection]
    BY <2>1, <2>4
  <2>6. /\ \A d \in Conn : d # c => conn'[d] = conn[d]
        /\ conn'[c].header = conn[c].header /\ conn'[c].read = conn[c].read
        /\ conn'[c].ans = conn[c].ans /\ conn'[c].off = conn[c].off
    BY <2>1, <2>3 DEF Connection
  <2>7. conn'[c].at = conn[c].at /\ conn'[c].srv = conn[c].srv /\ conn'[c].name = conn[c].name
    BY <2>3 DEF Connection
  <2> QED  BY <2>2, <2>5, <2>6, <2>7, ClientKeeps
<1> QED  BY <1>1, <1>2, <1>3

-----------------------------------------------------------------------------
(* The loop.                                                               *)

LEMMA SelectKeeps ==
  ASSUME IInv, NEW s \in Server, Select(s) PROVE IInv'
<1> USE FileAssumption DEF IInv
<1>1. srv[s].pc = "select" /\ UNCHANGED <<file, lock, spoilt>>
  BY DEF Select
<1>2. conn \in [Conn -> Connection]
  BY DEF TypeOK
<1>3. UNCHANGED conn \/ \E w \in Conn : /\ conn[w].at = "queued"
                                       /\ conn' = [conn EXCEPT ![w].at = "open"]
  BY DEF Select, Waiting
<1>4. conn' \in [Conn -> Connection]
  <2>1. CASE UNCHANGED conn
    BY <1>2, <2>1
  <2>2. ASSUME NEW w \in Conn, conn' = [conn EXCEPT ![w].at = "open"]
        PROVE  conn' \in [Conn -> Connection]
    <3>1. [conn[w] EXCEPT !.at = "open"] \in Connection
      BY ZenonT(60), <1>2 DEF Connection
    <3> QED  BY <1>2, <2>2, <3>1
  <2> QED  BY <1>3, <2>1, <2>2
<1>5. ASSUME NEW c \in Conn
      PROVE  /\ conn'[c].header = conn[c].header /\ conn'[c].read = conn[c].read
             /\ conn'[c].ans = conn[c].ans /\ conn'[c].off = conn[c].off
             /\ conn'[c].srv = conn[c].srv /\ conn'[c].name = conn[c].name
             /\ conn'[c].at = conn[c].at \/ (conn[c].at = "queued" /\ conn'[c].at = "open")
  <2>1. CASE UNCHANGED conn
    BY <2>1
  <2>2. ASSUME NEW w \in Conn, conn[w].at = "queued", conn' = [conn EXCEPT ![w].at = "open"]
        PROVE  conn'[c] = conn[c] \/ /\ conn[c].at = "queued"
                                     /\ conn'[c] = [conn[c] EXCEPT !.at = "open"]
    BY <1>2, <2>2
  <2>3. conn[c] \in Connection
    BY <1>2
  <2> QED  BY <1>3, <2>1, <2>2, <2>3 DEF Connection
<1>6. /\ \A r \in Server \ {s} : srv'[r] = srv[r]
      /\ srv' \in [Server -> [pc : {"select", "take", "lock", "copy", "dead"}, cur : Conn \cup {None}]]
      /\ \/ srv'[s] = srv[s]
         \/ \E c \in Master(s) : srv'[s] = [pc |-> "take", cur |-> c]
  BY DEF Select, Ready, TypeOK, Master
<1>7. TypeOK'
  BY <1>1, <1>4, <1>6 DEF TypeOK
<1>8. Serving'
  <2> SUFFICES ASSUME NEW r \in Server PROVE ServingAt(r)'
    BY DEF Serving
  <2>1. CASE r = s
    BY <1>1, <1>5, <1>6, <2>1 DEF Serving, ServingAt, Master
  <2>2. CASE r # s
    <3>1. srv'[r] = srv[r]
      BY <1>6, <2>2
    <3>2. srv[r].pc \in {"take", "lock", "copy"} =>
            srv[r].cur \in Conn /\ conn[srv[r].cur].at = "open"
      BY DEF Serving, ServingAt
    <3> QED  BY <1>1, <1>5, <3>1, <3>2, OtherServes
  <2> QED  BY <2>1, <2>2
<1>9. Named'
  BY <1>5 DEF Named
<1>10. Distinct'
  BY <1>5 DEF Distinct, Conn
<1>11. Holding'
  <2> SUFFICES ASSUME NEW c \in Upload PROVE HoldingAt(c)'
    BY DEF Holding
  <2>1. c \in Conn
    BY DEF Conn
  <2>2. srv[conn[c].srv].pc = "lock" /\ conn[c].header # None => srv'[conn[c].srv] = srv[conn[c].srv]
    BY <1>1, <1>6, <2>1 DEF Named, Server
  <2>3. conn'[c].at = conn[c].at \/ conn[c].ans # "ACCEPT"
    BY <1>5, <2>1 DEF Named
  <2>4. FileFor(c)' = FileFor(c) /\ (Up(c)' <=> Up(c))
    BY <1>5, <2>1, <2>3 DEF FileFor, Up, Named
  <2>5. OneName(FileFor(c))' <=> OneName(FileFor(c))
    BY <2>4 DEF OneName
  <2> QED  BY <1>1, <1>5, <2>1, <2>2, <2>4, <2>5 DEF Holding, HoldingAt
<1>12. Uploaded'
  BY <1>1, <1>5 DEF Uploaded, Uploads, Named, FileFor, Conn
<1> QED  BY <1>7, <1>8, <1>9, <1>10, <1>11, <1>12

\* A server closes its connection; it may close the file of that connection too.
LEMMA CloseKeeps ==
  ASSUME IInv, NEW s \in Server, NEW c \in Conn, NEW ans \in {"none", "ACCEPT", "REJECT"},
         srv[s].pc \in {"take", "lock", "copy"}, srv[s].cur = c,
         conn' = Closed(c, ans), Back(s), UNCHANGED <<file, spoilt>>,
         lock' = lock \/ (conn[c].header # None /\ lock' = Unlocked(s, FileFor(c)))
  PROVE  IInv'
<1> USE FileAssumption DEF IInv
<1>1. conn \in [Conn -> Connection] /\ conn[c] \in Connection
  BY DEF TypeOK
<1>2. conn'[c] = [conn[c] EXCEPT !.at = "gone", !.header = None, !.ans = ans]
  BY <1>1 DEF Closed, Over
<1>3. \A d \in Conn : d # c => conn'[d] = conn[d]
  BY <1>1 DEF Closed
<1>4. conn'[c] \in Connection
  BY <1>1, <1>2 DEF Connection
<1>5. conn' \in [Conn -> Connection]
  BY <1>1, <1>4 DEF Closed
<1>6. /\ conn'[c].at = "gone" /\ conn'[c].header = None
      /\ conn'[c].srv = conn[c].srv /\ conn'[c].name = conn[c].name
  BY <1>1, <1>2 DEF Connection
<1>7. /\ \A r \in Server \ {s} : srv'[r] = srv[r]
      /\ srv'[s].pc = "select"
      /\ srv' \in [Server -> [pc : {"select", "take", "lock", "copy", "dead"}, cur : Conn \cup {None}]]
  BY DEF Back, TypeOK
<1>8. lock' \in [File -> SUBSET Server] /\ \A f \in File : lock'[f] \subseteq lock[f]
  <2>1. CASE lock' = lock
    BY <2>1 DEF TypeOK
  <2>2. CASE lock' = Unlocked(s, FileFor(c))
    <3> lock' = [f \in File |-> IF f = FileFor(c) THEN lock[f] \ {s} ELSE lock[f]]
      BY <2>2 DEF Unlocked, TypeOK
    <3> QED  BY DEF TypeOK
  <2> QED  BY <2>1, <2>2
<1>9. TypeOK'
  BY <1>5, <1>7, <1>8 DEF TypeOK
<1>10. conn[c].at = "open" /\ conn[c].srv = s
  BY DEF Serving, ServingAt
<1>11. Serving'
  <2> SUFFICES ASSUME NEW r \in Server PROVE ServingAt(r)'
    BY DEF Serving
  <2>1. CASE r = s
    BY <1>7, <2>1 DEF ServingAt
  <2>2. CASE r # s
    <3>1. srv[r].pc \in {"take", "lock", "copy"} => srv[r].cur \in Conn /\ srv[r].cur # c
      BY <1>10, <2>2 DEF Serving, ServingAt
    <3>2. srv[r].pc = "lock" => FileFor(srv[r].cur) \in File
      BY FileNamed DEF Serving, ServingAt
    <3>3. srv'[r] = srv[r]
      BY <1>7, <2>2
    <3> QED  BY <1>3, <1>8, <3>1, <3>2, <3>3, OtherServes
  <2> QED  BY <2>1, <2>2
<1>12. Named'
  BY <1>3, <1>6, <1>10 DEF Named
<1>13. Distinct'
  BY <1>3, <1>6 DEF Distinct, Conn
<1>14. Holding'
  <2> SUFFICES ASSUME NEW d \in Upload PROVE HoldingAt(d)'
    BY DEF Holding
  <2>1. d \in Conn
    BY DEF Conn
  <2>2. CASE d = c
    BY <1>6, <2>2 DEF HoldingAt, Up
  <2>3. CASE d # c
    <3>1. conn'[d] = conn[d]
      BY <1>3, <2>1, <2>3
    <3>2. srv[conn[d].srv].pc = "lock" /\ srv[conn[d].srv].cur = d => conn[d].srv # s
      BY <2>3
    <3>3. conn[d].header # None => conn[d].srv \in Server
      BY <2>1 DEF Named, Server
    <3>4. ASSUME Up(d), OneName(FileFor(d))
          PROVE  lock'[FileFor(d)] = {conn[d].srv}
      <4>1. lock[FileFor(d)] = {conn[d].srv} /\ conn[d].header # None
        BY <3>4 DEF Holding, HoldingAt
      <4> FileFor(d) \in File
        BY <2>1, <4>1, FileNamed
      <4>2. CASE FileFor(c) = FileFor(d) /\ conn[c].header # None
        <5>1. c \in Upload /\ conn[d].srv = conn[c].srv => c = d
          BY <3>4, <4>1, <4>2, SameUpload
        <5>2. conn[d].srv \in Writer /\ (c \notin Upload => conn[c].srv \in Reader)
          BY <2>1, <1>10, <3>4 DEF Named, Up
        <5>3. conn[d].srv # s
          BY <5>1, <5>2, <1>10, <2>3
        <5> QED  BY <4>1, <5>3 DEF Unlocked, TypeOK
      <4>3. CASE ~(FileFor(c) = FileFor(d) /\ conn[c].header # None)
        BY <4>1, <4>3 DEF Unlocked, TypeOK
      <4> QED  BY <4>2, <4>3
    <3> QED  BY <1>7, <3>1, <3>2, <3>3, <3>4 DEF Holding, HoldingAt, Up, FileFor
  <2> QED  BY <2>2, <2>3
<1>15. Uploaded'
  BY <1>3, <1>6 DEF Uploaded, Uploads, FileFor, Conn
<1> QED  BY <1>9, <1>11, <1>12, <1>13, <1>14, <1>15

-----------------------------------------------------------------------------
(* A write server.                                                         *)

\* What a server serves has its name, and is an upload iff the server writes.
LEMMA AtHand ==
  ASSUME IInv, NEW s \in Server, srv[s].pc \in {"take", "lock", "copy"}
  PROVE  /\ srv[s].cur \in Conn /\ conn[srv[s].cur].srv = s /\ conn[srv[s].cur].at = "open"
         /\ conn[srv[s].cur].name \in Name
         /\ s \in Writer <=> srv[s].cur \in Upload
BY FileAssumption DEF IInv, Serving, ServingAt, Named, Server

LEMMA OpenKeeps ==
  ASSUME IInv, NEW s \in Server, NEW c, srv[s].pc = "take", srv[s].cur = c, Open(s, c)
  PROVE  IInv'
<1> USE FileAssumption DEF IInv
<1> DEFINE f == FileOf[conn[c].name]
<1>1. /\ c \in Conn /\ c \in Upload /\ s \in Writer /\ conn[c].srv = s /\ conn[c].at = "open"
      /\ conn[c].name \in Name /\ conn[c].read = 0 /\ f \in File
  BY AtHand DEF Open
<1>2. conn[c].header = None /\ conn[c].ans = "none" /\ conn[c].off = 0
  BY <1>1 DEF Named
<1>3. conn \in [Conn -> Connection] /\ conn[c] \in Connection
  BY <1>1 DEF TypeOK
<1>4. conn' = [conn EXCEPT ![c].read = 1, ![c].header = conn[c].name]
  BY DEF Open
<1>5. conn'[c] = [conn[c] EXCEPT !.read = 1, !.header = conn[c].name]
  BY <1>1, <1>3, <1>4
<1>6. conn'[c] \in Connection
  <2>1. \A n \in Name : [conn[c] EXCEPT !.read = 1, !.header = n] \in Connection
    BY <1>3 DEF Connection
  <2> QED  BY <1>1, <1>5, <2>1
<1>7. conn' \in [Conn -> Connection] /\ \A d \in Conn : d # c => conn'[d] = conn[d]
  BY <1>1, <1>3, <1>4, <1>6
<1>8. /\ conn'[c].at = "open" /\ conn'[c].srv = s /\ conn'[c].name = conn[c].name
      /\ conn'[c].header = conn[c].name /\ conn'[c].read = 1 /\ conn'[c].ans = "none"
      /\ conn'[c].off = 0
  <2>1. conn'[c].header = conn[c].name /\ conn'[c].read = 1
    BY <1>3, <1>5 DEF Connection
  <2>2. /\ conn'[c].at = conn[c].at /\ conn'[c].srv = conn[c].srv /\ conn'[c].name = conn[c].name
        /\ conn'[c].ans = conn[c].ans /\ conn'[c].off = conn[c].off
    BY <1>3, <1>5 DEF Connection
  <2> QED  BY <1>1, <1>2, <2>1, <2>2
<1>9. /\ \A r \in Server \ {s} : srv'[r] = srv[r]
      /\ srv'[s].pc = "lock" /\ srv'[s].cur = c
      /\ srv' \in [Server -> [pc : {"select", "take", "lock", "copy", "dead"}, cur : Conn \cup {None}]]
  BY DEF Open, TypeOK
<1>10. /\ file' \in [File -> Seq(Piece)] /\ file'[f] = <<>>
       /\ \A g \in File : g # f => file'[g] = file[g]
  <2>1. file' = [file EXCEPT ![f] = <<>>]
    BY DEF Open
  <2> QED  BY <1>1, <2>1 DEF TypeOK
<1>11. lock' = lock
  BY DEF Open
<1>12. /\ spoilt \subseteq spoilt' /\ spoilt' \in SUBSET File
       /\ f \notin spoilt' => lock[f] \subseteq {s}
  BY <1>1 DEF Open, TypeOK
<1>13. TypeOK'
  BY <1>7, <1>9, <1>10, <1>11, <1>12 DEF TypeOK
<1>15. Serving'
  <2> SUFFICES ASSUME NEW r \in Server PROVE ServingAt(r)'
    BY DEF Serving
  <2>1. CASE r = s
    <3>1. FileFor(srv[s].cur)' = f
      BY <1>8, <1>9 DEF FileFor
    <3>2. f \notin spoilt' => file'[f] = <<>> /\ lock'[f] \subseteq {s}
      BY <1>10, <1>11, <1>12
    <3>3. conn'[c].header # None
      BY <1>1, <1>8
    <3> HIDE DEF f
    <3> QED  BY <1>1, <1>8, <1>9, <2>1, <3>1, <3>2, <3>3 DEF ServingAt
  <2>2. CASE r # s
    <3>1. srv[r].pc \in {"take", "lock", "copy"} => srv[r].cur \in Conn /\ srv[r].cur # c
      BY <1>1, <2>2 DEF Serving, ServingAt
    <3>2. srv[r].pc = "lock" => FileFor(srv[r].cur) \in File
      BY FileNamed DEF Serving, ServingAt
    <3>3. srv'[r] = srv[r]
      BY <1>9, <2>2
    <3>4. srv[r].pc = "lock" /\ OneName(FileFor(srv[r].cur)) /\ FileFor(srv[r].cur) \notin spoilt'
          => file'[FileFor(srv[r].cur)] = file[FileFor(srv[r].cur)]
      BY <1>10, <1>12, <3>2 DEF Serving, ServingAt
    <3> QED  BY <1>7, <1>11, <1>12, <3>1, <3>3, <3>4, OtherServes
  <2> QED  BY <2>1, <2>2
<1>16. Named'
  BY <1>1, <1>7, <1>8 DEF Named
\* Another upload of this process with the name would be in the way.
<1>17. \A d \in Upload : d # c /\ conn[d].srv = s /\ conn[d].header # None
                         => conn[d].header # conn[c].name
  BY DEF Open, SameName, Master, Named, Conn
<1>18. Distinct'
  BY <1>1, <1>7, <1>8, <1>17 DEF Distinct, Conn
<1>19. Holding'
  <2> SUFFICES ASSUME NEW d \in Upload PROVE HoldingAt(d)'
    BY DEF Holding
  <2>1. CASE d = c
    BY <1>8, <1>9, <2>1 DEF HoldingAt, Up
  <2>2. CASE d # c
    <3>1. conn'[d] = conn[d] /\ d \in Conn
      BY <1>7, <2>2 DEF Conn
    <3>2. srv[conn[d].srv].pc = "lock" /\ conn[d].header # None
          => srv'[conn[d].srv] = srv[conn[d].srv]
      BY <1>9, <3>1 DEF Named, Server
    <3> QED  BY <1>11, <3>1, <3>2 DEF Holding, HoldingAt, Up, FileFor, OneName
  <2> QED  BY <2>1, <2>2
<1>20. Uploaded'
  <2> SUFFICES ASSUME NEW g \in File, OneName(g), g \notin spoilt', NEW d \in Upload,
                      conn'[d].at = "open", conn'[d].ans = "ACCEPT", FileFor(d)' = g
               PROVE  file'[g] = [i \in 1 .. conn'[d].off |-> <<d, i>>]
    BY DEF Uploaded, Uploads, OneName
  <2>1. d # c /\ d \in Conn
    BY <1>8 DEF Conn
  <2>2. conn'[d] = conn[d] /\ FileFor(d) = g
    BY <1>7, <2>1 DEF FileFor
  <2>3. Up(d) /\ conn[d].header # None /\ lock[g] = {conn[d].srv}
    BY <2>2 DEF Holding, HoldingAt, Up
  <2>4. g # f
    <3> SUFFICES ASSUME g = f PROVE FALSE
      OBVIOUS
    <3>1. conn[d].srv = s
      BY <1>12, <2>3
    <3>2. conn[d].header = conn[c].name
      BY <1>1, <2>1, <2>2, <2>3, FileNamed DEF OneName, FileFor
    <3> QED  BY <1>17, <2>1, <2>3, <3>1, <3>2
  <2>5. file[g] = [i \in 1 .. conn[d].off |-> <<d, i>>]
    BY <1>12, <2>2, <2>3 DEF Uploaded, Uploads, Up
  <2> QED  BY <1>10, <2>2, <2>4, <2>5
<1> QED  BY <1>13, <1>15, <1>16, <1>18, <1>19, <1>20

LEMMA LockKeeps ==
  ASSUME IInv, NEW s \in Server, NEW c, srv[s].cur = c, Lock(s) PROVE IInv'
<1> USE FileAssumption DEF IInv
<1> DEFINE f == FileOf[conn[c].header]
<1>1. /\ c \in Conn /\ c \in Upload /\ s \in Writer /\ conn[c].srv = s /\ conn[c].at = "open"
      /\ srv[s].pc = "lock" /\ conn[c].header # None /\ conn[c].ans = "none" /\ conn[c].off = 0
  BY AtHand DEF Lock, Serving, ServingAt
<1>2. f \in File /\ conn[c].name \in Name
  BY <1>1, FileNamed, AtHand DEF FileFor
<1>3. CASE /\ conn' = Closed(c, "REJECT") /\ lock' = Unlocked(s, f) /\ Back(s)
           /\ UNCHANGED <<file, spoilt>>
  BY <1>1, <1>3, CloseKeeps DEF FileFor
<1>4. CASE /\ lock[f] \ {s} = {} /\ conn' = [conn EXCEPT ![c].ans = "ACCEPT"]
           /\ lock' = [lock EXCEPT ![f] = @ \cup {s}] /\ srv' = [srv EXCEPT ![s].pc = "take"]
           /\ spoilt' = Seen(s, f) /\ file' = file
  <2>1. conn \in [Conn -> Connection] /\ conn[c] \in Connection
    BY <1>1 DEF TypeOK
  <2>2. conn'[c] = [conn[c] EXCEPT !.ans = "ACCEPT"]
    BY <1>1, <1>4, <2>1
  <2>3. conn'[c] \in Connection
    BY <2>1, <2>2 DEF Connection
  <2>4. conn' \in [Conn -> Connection] /\ \A d \in Conn : d # c => conn'[d] = conn[d]
    BY <1>1, <1>4, <2>1, <2>3
  <2>5. /\ conn'[c].at = "open" /\ conn'[c].srv = s /\ conn'[c].name = conn[c].name
        /\ conn'[c].header = conn[c].header /\ conn'[c].read = conn[c].read
        /\ conn'[c].ans = "ACCEPT" /\ conn'[c].off = 0
    BY <1>1, <2>1, <2>2 DEF Connection
  <2>6. /\ \A r \in Server \ {s} : srv'[r] = srv[r]
        /\ srv'[s].pc = "take" /\ srv'[s].cur = c
        /\ srv' \in [Server -> [pc : {"select", "take", "lock", "copy", "dead"}, cur : Conn \cup {None}]]
    BY <1>4 DEF TypeOK
  <2>7. /\ lock' \in [File -> SUBSET Server] /\ lock'[f] = {s}
        /\ \A g \in File : g # f => lock'[g] = lock[g]
    BY <1>2, <1>4 DEF TypeOK
  <2>8. /\ spoilt \subseteq spoilt' /\ spoilt' \in SUBSET File
        /\ \A r \in Server \ {s} : srv[r].pc = "lock" /\ FileFor(srv[r].cur) = f => f \in spoilt'
    BY <1>2, <1>4 DEF Seen, Truncating, TypeOK
  <2>9. TypeOK'
    BY <1>4, <2>4, <2>6, <2>7, <2>8 DEF TypeOK
  <2>10. Serving'
    <3> SUFFICES ASSUME NEW r \in Server PROVE ServingAt(r)'
      BY DEF Serving
    <3>1. CASE r = s
      BY <1>1, <2>5, <2>6, <3>1 DEF ServingAt
    <3>2. CASE r # s
      <4>1. srv[r].pc \in {"take", "lock", "copy"} => srv[r].cur \in Conn /\ srv[r].cur # c
        BY <1>1, <3>2 DEF Serving, ServingAt
      <4>2. srv[r].pc = "lock" => FileFor(srv[r].cur) \in File
        BY FileNamed DEF Serving, ServingAt
      <4>3. srv'[r] = srv[r]
        BY <2>6, <3>2
      <4>4. srv[r].pc = "lock" /\ FileFor(srv[r].cur) \notin spoilt'
            => /\ FileFor(srv[r].cur) \notin spoilt
               /\ lock'[FileFor(srv[r].cur)] = lock[FileFor(srv[r].cur)]
        BY <2>7, <2>8, <3>2, <4>2
      <4> QED  BY <1>4, <2>4, <4>1, <4>3, <4>4, OtherServes
    <3> QED  BY <3>1, <3>2
  <2>11. Named'
    BY <1>1, <2>4, <2>5 DEF Named
  <2>12. Distinct'
    BY <1>1, <2>4, <2>5 DEF Distinct, Conn
  <2>13. FileFor(c)' = f
    BY <2>5 DEF FileFor
  <2>14. Holding'
    <3> SUFFICES ASSUME NEW d \in Upload PROVE HoldingAt(d)'
      BY DEF Holding
    <3>1. CASE d = c
      BY <1>1, <2>5, <2>7, <2>13, <3>1 DEF HoldingAt, Up
    <3>2. CASE d # c
      <4>1. conn'[d] = conn[d] /\ d \in Conn
        BY <2>4, <3>2 DEF Conn
      <4>2. srv[conn[d].srv].pc = "lock" /\ srv[conn[d].srv].cur = d /\ conn[d].header # None
            => srv'[conn[d].srv] = srv[conn[d].srv]
        BY <2>6, <3>2, <4>1 DEF Named, Server
      <4>3. ASSUME Up(d), OneName(FileFor(d)) PROVE lock'[FileFor(d)] = {conn[d].srv}
        <5>1. lock[FileFor(d)] = {conn[d].srv} /\ conn[d].header # None
          BY <4>3 DEF Holding, HoldingAt
        <5>2. FileFor(d) \in File
          BY <4>1, <5>1, FileNamed
        <5>3. FileFor(d) = f => conn[d].srv = s
          BY <1>4, <5>1
        <5>4. FileFor(d) # f
          BY <1>1, <3>2, <4>3, <5>1, <5>3, SameUpload DEF FileFor
        <5> QED  BY <2>7, <5>1, <5>2, <5>4
      <4> QED  BY <4>1, <4>2, <4>3 DEF Holding, HoldingAt, Up, FileFor, OneName
    <3> QED  BY <3>1, <3>2
  <2>15. Uploaded'
    <3> SUFFICES ASSUME NEW g \in File, OneName(g), g \notin spoilt', NEW d \in Upload,
                        conn'[d].at = "open", conn'[d].ans = "ACCEPT", FileFor(d)' = g
                 PROVE  file'[g] = [i \in 1 .. conn'[d].off |-> <<d, i>>]
      BY DEF Uploaded, Uploads, OneName
    <3>1. CASE d = c
      <4>1. file[f] = <<>> /\ g = f
        BY <1>1, <2>8, <2>13, <3>1 DEF Serving, ServingAt, FileFor
      <4>2. [i \in 1 .. 0 |-> <<d, i>>] = <<>>
        OBVIOUS
      <4> QED  BY <1>4, <2>5, <3>1, <4>1, <4>2
    <3>2. CASE d # c
      <4>1. conn'[d] = conn[d] /\ FileFor(d) = g
        BY <2>4, <3>2 DEF FileFor, Conn
      <4>2. file[g] = [i \in 1 .. conn[d].off |-> <<d, i>>]
        BY <2>8, <4>1 DEF Uploaded, Uploads
      <4> QED  BY <1>4, <4>1, <4>2
    <3> QED  BY <3>1, <3>2
  <2> QED  BY <2>9, <2>10, <2>11, <2>12, <2>14, <2>15
<1> QED  BY <1>3, <1>4 DEF Lock, FileFor

\* A piece behind all others of its upload.
LEMMA Appended ==
  ASSUME NEW c \in Conn, NEW off \in Nat, NEW x \in Seq(Piece)
  PROVE  /\ Written(x, off, <<c, off + 1>>) \in Seq(Piece)
         /\ x = [i \in 1 .. off |-> <<c, i>>] =>
              Written(x, off, <<c, off + 1>>) = [i \in 1 .. off + 1 |-> <<c, i>>]
<1> DEFINE w == Written(x, off, <<c, off + 1>>)
           n == IF Len(x) > off THEN Len(x) ELSE off + 1
<1>1. Len(x) \in Nat /\ n \in Nat
  OBVIOUS
<1>2. ASSUME NEW i \in 1 .. n
      PROVE  (IF i = off + 1 THEN <<c, off + 1>> ELSE IF i <= Len(x) THEN x[i] ELSE <<Hole, 0>>)
             \in Piece
  <2>1. <<c, off + 1>> \in Piece /\ <<Hole, 0>> \in Piece
    BY DEF Piece
  <2>2. i <= Len(x) => x[i] \in Piece
    BY <1>1
  <2> QED  BY <2>1, <2>2
<1>3. w \in [1 .. n -> Piece]
  BY <1>2 DEF Written
<1>4. w \in Seq(Piece)
  BY SMTT(30), <1>1, <1>3
<1>5. ASSUME x = [i \in 1 .. off |-> <<c, i>>]
      PROVE  w = [i \in 1 .. off + 1 |-> <<c, i>>]
  <2>1. Len(x) = off /\ n = off + 1
    BY <1>5
  <2>2. \A i \in 1 .. off + 1 : w[i] = <<c, i>>
    BY <1>5, <2>1 DEF Written
  <2> QED  BY <1>3, <2>1, <2>2 DEF Written
<1> QED  BY <1>4, <1>5

LEMMA WriteKeeps ==
  ASSUME IInv, NEW s \in Server, NEW c, srv[s].pc = "take", srv[s].cur = c, Write(s, c)
  PROVE  IInv'
<1> USE FileAssumption DEF IInv
<1> DEFINE f == FileFor(c)
           off == conn[c].off
<1>1. /\ c \in Conn /\ c \in Upload /\ s \in Writer /\ conn[c].srv = s /\ conn[c].at = "open"
      /\ conn[c].name \in Name
  BY AtHand DEF Write
<1>2. conn[c].header # None
  BY <1>1 DEF Write, Piecemeal, Named
<1>3. f \in File /\ Up(c)
  BY <1>1, <1>2, FileNamed DEF Holding, HoldingAt
<1>4. conn \in [Conn -> Connection] /\ conn[c] \in Connection
  BY <1>1 DEF TypeOK
<1>5. conn'[c] = [conn[c] EXCEPT !.read = @ + 1, !.off = off + 1]
  BY <1>1, <1>4 DEF Write
<1>6. conn[c].read + 1 \in Nat /\ off + 1 \in Nat /\ off \in Nat /\ conn[c].read + 1 > 0
  BY <1>4 DEF Connection
<1>7. conn'[c] \in Connection
  BY <1>4, <1>5, <1>6 DEF Connection
<1>8. conn' \in [Conn -> Connection] /\ \A d \in Conn : d # c => conn'[d] = conn[d]
  BY <1>1, <1>4, <1>7 DEF Write
<1>9. /\ conn'[c].at = conn[c].at /\ conn'[c].srv = conn[c].srv /\ conn'[c].name = conn[c].name
      /\ conn'[c].header = conn[c].header /\ conn'[c].read > 0
      /\ conn'[c].ans = conn[c].ans /\ conn'[c].off = off + 1
  BY <1>4, <1>5, <1>6 DEF Connection
<1>10. UNCHANGED <<srv, lock, spoilt>>
  BY DEF Write
<1>11. /\ file' \in [File -> Seq(Piece)]
       /\ file'[f] = Written(file[f], off, <<c, off + 1>>)
       /\ \A g \in File : g # f => file'[g] = file[g]
  <2>1. Written(file[f], off, <<c, off + 1>>) \in Seq(Piece)
    BY <1>1, <1>3, <1>6, Appended DEF TypeOK
  <2>2. file' = [file EXCEPT ![f] = Written(@, off, <<c, off + 1>>)]
    BY DEF Write
  <2>3. file \in [File -> Seq(Piece)]
    BY DEF TypeOK
  <2> QED  BY <1>3, <2>1, <2>2, <2>3
<1>12. OneName(f) => lock[f] = {s}
  BY <1>1, <1>3 DEF Holding, HoldingAt
<1>13. TypeOK'
  BY <1>8, <1>10, <1>11 DEF TypeOK
<1>14. Serving'
  <2> SUFFICES ASSUME NEW r \in Server PROVE ServingAt(r)'
    BY DEF Serving
  <2>1. CASE r = s
    BY <1>1, <1>9, <1>10, <2>1 DEF ServingAt
  <2>2. CASE r # s
    <3>1. srv[r].pc \in {"take", "lock", "copy"} => srv[r].cur \in Conn /\ srv[r].cur # c
      BY <1>1, <2>2 DEF Serving, ServingAt
    <3>2. srv[r].pc = "lock" => FileFor(srv[r].cur) \in File
      BY FileNamed DEF Serving, ServingAt
    \* A process that has truncated f would see no lock of s.
    <3>3. srv[r].pc = "lock" /\ OneName(FileFor(srv[r].cur)) /\ FileFor(srv[r].cur) \notin spoilt
          => FileFor(srv[r].cur) # f
      BY <1>12, <2>2 DEF Serving, ServingAt
    <3> QED  BY <1>8, <1>10, <1>11, <3>1, <3>2, <3>3, OtherServes
  <2> QED  BY <2>1, <2>2
<1>15. Named'
  BY <1>1, <1>2, <1>8, <1>9 DEF Named
<1>16. Distinct'
  BY <1>1, <1>8, <1>9 DEF Distinct, Conn
<1>17. \A d \in Conn : FileFor(d)' = FileFor(d) /\ Up(d)' = Up(d)
  BY <1>8, <1>9 DEF FileFor, Up
<1>18. Holding'
  BY <1>8, <1>9, <1>10, <1>17 DEF Holding, HoldingAt, OneName, Conn
<1>19. Uploaded'
  <2> SUFFICES ASSUME NEW g \in File, OneName(g), g \notin spoilt', NEW d \in Upload,
                      conn'[d].at = "open", conn'[d].ans = "ACCEPT", FileFor(d)' = g
               PROVE  file'[g] = [i \in 1 .. conn'[d].off |-> <<d, i>>]
    BY DEF Uploaded, Uploads, OneName
  <2>1. d \in Conn /\ FileFor(d) = g /\ Up(d) /\ g \notin spoilt
    BY <1>10, <1>17 DEF Up, Conn
  <2>2. file[g] = [i \in 1 .. conn[d].off |-> <<d, i>>]
    BY <2>1 DEF Uploaded, Uploads, Up
  <2>3. CASE d = c
    <3>1. file[f] \in Seq(Piece)
      BY <1>3 DEF TypeOK
    <3>2. file[f] = [i \in 1 .. off |-> <<c, i>>] /\ g = f
      BY <2>1, <2>2, <2>3
    <3>3. Written(file[f], off, <<c, off + 1>>) = [i \in 1 .. off + 1 |-> <<c, i>>]
      BY ZenonT(60), <1>1, <1>6, <3>1, <3>2, Appended
    <3> QED  BY <1>9, <1>11, <2>3, <3>2, <3>3
  <2>4. CASE d # c
    <3>1. lock[g] = {conn[d].srv} /\ conn[d].header # None
      BY <2>1 DEF Holding, HoldingAt
    <3>2. g # f
      BY <1>1, <1>2, <1>12, <2>1, <2>4, <3>1, SameUpload
    <3> QED  BY <1>8, <1>11, <2>1, <2>2, <2>4, <3>2
  <2> QED  BY <2>3, <2>4
<1> QED  BY <1>13, <1>14, <1>15, <1>16, <1>18, <1>19

\* The process ends, and with it its connections and its locks.
LEMMA CrashKeeps ==
  ASSUME IInv, NEW s \in Server, NEW c, Crash(s, c)
  PROVE  IInv'
<1> USE FileAssumption DEF IInv
<1>1. conn \in [Conn -> Connection]
  BY DEF TypeOK
<1>2. UNCHANGED <<file, spoilt>>
  BY DEF Crash
<1>3. \A d \in Conn : conn[d].srv # s => conn'[d] = conn[d]
  BY DEF Crash
<1>4. ASSUME NEW d \in Conn, conn[d].srv = s
      PROVE  conn'[d] = [conn[d] EXCEPT !.at = "gone", !.header = None, !.ans = conn[d].ans]
  BY <1>4 DEF Crash, Over
<1>5. ASSUME NEW d \in Conn
      PROVE  conn'[d] \in Connection
  <2>1. conn[d] \in Connection
    BY <1>1
  <2>2. CASE conn[d].srv # s
    BY <1>3, <2>1, <2>2
  <2>3. CASE conn[d].srv = s
    <3>1. conn[d].ans \in {"none", "ACCEPT", "REJECT"}
      BY <2>1 DEF Connection
    <3>2. \A a \in {"none", "ACCEPT", "REJECT"} :
            [conn[d] EXCEPT !.at = "gone", !.header = None, !.ans = a] \in Connection
      BY <2>1 DEF Connection
    <3> QED  BY <1>4, <2>3, <3>1, <3>2
  <2> QED  BY <2>2, <2>3
<1>6. ASSUME NEW d \in Conn, conn[d].srv = s
      PROVE  /\ conn'[d].at = "gone" /\ conn'[d].header = None
             /\ conn'[d].srv = s /\ conn'[d].name = conn[d].name
  <2>1. conn[d] \in Connection
    BY <1>1
  <2> QED  BY ZenonT(60), <1>4, <1>6, <2>1 DEF Connection
<1>7. /\ \A r \in Server \ {s} : srv'[r] = srv[r]
      /\ srv'[s].pc = "dead"
      /\ srv' \in [Server -> [pc : {"select", "take", "lock", "copy", "dead"}, cur : Conn \cup {None}]]
  BY DEF Crash, TypeOK
<1>8. lock' \in [File -> SUBSET Server] /\ \A f \in File : lock'[f] = lock[f] \ {s}
  BY DEF Crash, TypeOK
<1>9. TypeOK'
  <2>1. conn' \in [Conn -> Connection]
    BY <1>5 DEF Crash
  <2> QED  BY <1>2, <1>7, <1>8, <2>1 DEF TypeOK
<1>10. Serving'
  <2> SUFFICES ASSUME NEW r \in Server PROVE ServingAt(r)'
    BY DEF Serving
  <2>1. CASE r = s
    BY <1>7, <2>1 DEF ServingAt
  <2>2. CASE r # s
    <3>1. srv[r].pc \in {"take", "lock", "copy"} =>
            srv[r].cur \in Conn /\ conn[srv[r].cur].srv # s
      BY <2>2 DEF Serving, ServingAt
    <3>2. srv[r].pc = "lock" => FileFor(srv[r].cur) \in File
      BY FileNamed DEF Serving, ServingAt
    <3>3. srv'[r] = srv[r]
      BY <1>7, <2>2
    <3> QED  BY <1>2, <1>3, <1>8, <3>1, <3>2, <3>3, OtherServes
  <2> QED  BY <2>1, <2>2
<1>11. Named'
  BY <1>3, <1>6 DEF Named, Server
<1>12. Distinct'
  BY <1>3, <1>6 DEF Distinct, Conn
<1>13. Holding'
  <2> SUFFICES ASSUME NEW d \in Upload PROVE HoldingAt(d)'
    BY DEF Holding
  <2>1. d \in Conn
    BY DEF Conn
  <2>2. CASE conn[d].srv = s
    BY <1>6, <2>1, <2>2 DEF HoldingAt, Up
  <2>3. CASE conn[d].srv # s
    <3>1. conn'[d] = conn[d]
      BY <1>3, <2>1, <2>3
    <3>2. conn[d].header # None => conn[d].srv \in Server /\ FileFor(d) \in File
      BY <2>1, FileNamed DEF Named, Server
    <3> QED  BY <1>7, <1>8, <2>3, <3>1, <3>2 DEF Holding, HoldingAt, Up, FileFor, OneName
  <2> QED  BY <2>2, <2>3
<1>14. Uploaded'
  BY <1>2, <1>3, <1>6 DEF Uploaded, Uploads, FileFor, OneName, Conn
<1> QED  BY <1>9, <1>10, <1>11, <1>12, <1>13, <1>14

-----------------------------------------------------------------------------
(* A read server.                                                          *)

LEMMA AcceptReadKeeps ==
  ASSUME IInv, NEW s \in Server, NEW c, srv[s].pc = "take", srv[s].cur = c, AcceptRead(s, c)
  PROVE  IInv'
<1> USE FileAssumption DEF IInv
<1> DEFINE f == FileOf[conn[c].name]
<1>1. /\ c \in Conn /\ c \notin Upload /\ s \in Reader /\ conn[c].srv = s /\ conn[c].at = "open"
      /\ conn[c].name \in Name /\ f \in File
  BY AtHand DEF AcceptRead
<1>2. conn \in [Conn -> Connection] /\ conn[c] \in Connection
  BY <1>1 DEF TypeOK
<1>3. conn' = [conn EXCEPT ![c].read = 1, ![c].header = conn[c].name, ![c].ans = "ACCEPT"]
  BY DEF AcceptRead
<1>4. conn'[c] = [conn[c] EXCEPT !.read = 1, !.header = conn[c].name, !.ans = "ACCEPT"]
  BY <1>1, <1>2, <1>3
<1>5. conn'[c] \in Connection
  <2>1. \A n \in Name : [conn[c] EXCEPT !.read = 1, !.header = n, !.ans = "ACCEPT"] \in Connection
    BY <1>2 DEF Connection
  <2> QED  BY <1>1, <1>4, <2>1
<1>6. conn' \in [Conn -> Connection] /\ \A d \in Conn : d # c => conn'[d] = conn[d]
  BY <1>1, <1>2, <1>3, <1>5
<1>7. conn'[c].header = conn[c].name /\ conn'[c].read = 1
  BY <1>2, <1>4 DEF Connection
<1>8. conn'[c].at = conn[c].at /\ conn'[c].srv = conn[c].srv /\ conn'[c].name = conn[c].name
  BY <1>2, <1>4 DEF Connection
<1>9. /\ \A r \in Server \ {s} : srv'[r] = srv[r]
      /\ srv'[s].pc = "copy" /\ srv'[s].cur = c
      /\ srv' \in [Server -> [pc : {"select", "take", "lock", "copy", "dead"}, cur : Conn \cup {None}]]
  BY DEF AcceptRead, TypeOK
<1>10. /\ lock' \in [File -> SUBSET Server]
       /\ \A g \in File : g # f => lock'[g] = lock[g]
  <2>1. lock' = [lock EXCEPT ![f] = @ \cup {s}]
    BY DEF AcceptRead
  <2> QED  BY <1>1, <2>1 DEF TypeOK
<1>11. lock[f] \cap Writer = {} /\ file' = file
  BY DEF AcceptRead, Conflict
<1>12. /\ spoilt \subseteq spoilt' /\ spoilt' \in SUBSET File
       /\ \A r \in Server \ {s} : srv[r].pc = "lock" /\ FileFor(srv[r].cur) = f => f \in spoilt'
  BY <1>1 DEF AcceptRead, Seen, Truncating, TypeOK
<1>13. TypeOK'
  BY <1>6, <1>9, <1>10, <1>11, <1>12 DEF TypeOK
<1>14. Serving'
  <2> SUFFICES ASSUME NEW r \in Server PROVE ServingAt(r)'
    BY DEF Serving
  <2>1. CASE r = s
    BY <1>1, <1>7, <1>8, <1>9, <2>1 DEF ServingAt
  <2>2. CASE r # s
    <3>1. srv[r].pc \in {"take", "lock", "copy"} => srv[r].cur \in Conn /\ srv[r].cur # c
      BY <1>1, <2>2 DEF Serving, ServingAt
    <3>2. srv[r].pc = "lock" => FileFor(srv[r].cur) \in File
      BY FileNamed DEF Serving, ServingAt
    <3>3. srv'[r] = srv[r]
      BY <1>9, <2>2
    <3>4. srv[r].pc = "lock" /\ FileFor(srv[r].cur) \notin spoilt'
          => /\ FileFor(srv[r].cur) \notin spoilt
             /\ lock'[FileFor(srv[r].cur)] = lock[FileFor(srv[r].cur)]
      BY <1>10, <1>12, <2>2, <3>2
    <3> QED  BY <1>6, <1>11, <3>1, <3>3, <3>4, OtherServes
  <2> QED  BY <2>1, <2>2
<1>15. Named'
  <2> HIDE DEF f
  <2> QED  BY <1>1, <1>6, <1>7, <1>8 DEF Named
<1>16. \A d \in Upload : d \in Conn /\ conn'[d] = conn[d]
  BY <1>1, <1>6 DEF Conn
<1>17. Distinct'
  BY <1>16 DEF Distinct
<1>18. Holding'
  <2> SUFFICES ASSUME NEW d \in Upload PROVE HoldingAt(d)'
    BY DEF Holding
  <2>1. conn'[d] = conn[d] /\ d \in Conn /\ d # c
    BY <1>1, <1>16
  <2>2. srv[conn[d].srv].pc = "lock" /\ conn[d].header # None
        => srv'[conn[d].srv] = srv[conn[d].srv]
    BY <1>9, <2>1 DEF Named, Server
  <2>3. ASSUME Up(d), OneName(FileFor(d)) PROVE lock'[FileFor(d)] = {conn[d].srv}
    <3>1. lock[FileFor(d)] = {conn[d].srv} /\ conn[d].header # None
      BY <2>3 DEF Holding, HoldingAt
    <3>2. FileFor(d) \in File
      BY <2>1, <3>1, FileNamed
    <3>3. conn[d].srv \in Writer
      BY <2>1, <2>3 DEF Named, Up
    <3>4. FileFor(d) # f
      BY <1>11, <3>1, <3>3
    <3> QED  BY <1>10, <3>1, <3>2, <3>4
  <2> QED  BY <2>1, <2>2, <2>3 DEF Holding, HoldingAt, Up, FileFor, OneName
<1>19. Uploaded'
  BY <1>11, <1>12, <1>16 DEF Uploaded, Uploads, FileFor, OneName
<1> QED  BY <1>13, <1>14, <1>15, <1>17, <1>18, <1>19

LEMMA CopyKeeps ==
  ASSUME IInv, NEW s \in Server, NEW c, srv[s].cur = c, Copy(s)
  PROVE  IInv'
<1> USE FileAssumption DEF IInv
<1> DEFINE off == conn[c].off
           x == file[FileFor(c)]
<1>1. /\ c \in Conn /\ c \notin Upload /\ s \in Reader /\ srv[s].pc = "copy"
      /\ conn[c].srv = s /\ conn[c].at = "open" /\ conn[c].header # None
  BY AtHand DEF Copy, Serving, ServingAt, Server
<1>2. conn \in [Conn -> Connection] /\ conn[c] \in Connection
  BY <1>1 DEF TypeOK
<1>3. CASE conn' = Closed(c, "ACCEPT") /\ lock' = Unlocked(s, FileFor(c)) /\ Back(s)
           /\ UNCHANGED <<file, spoilt>>
  BY <1>1, <1>3, CloseKeeps
<1>4. CASE off < Len(x) /\ UNCHANGED <<srv, file, lock, spoilt>>
           /\ conn' = [conn EXCEPT ![c].got = Append(@, x[off + 1]), ![c].off = off + 1]
  <2>1. x \in Seq(Piece) /\ off \in Nat
    BY <1>1, <1>2, FileNamed DEF TypeOK, Connection
  <2>2. x[off + 1] \in Piece /\ off + 1 \in Nat
    BY <1>4, <2>1
  <2>3. Append(conn[c].got, x[off + 1]) \in Seq(Piece)
    BY <1>2, <2>2 DEF Connection
  <2>4. conn'[c] = [conn[c] EXCEPT !.got = Append(conn[c].got, x[off + 1]), !.off = off + 1]
    BY <1>1, <1>2, <1>4
  <2>5. conn'[c] \in Connection
    <3> DEFINE g == Append(conn[c].got, x[off + 1])
               n == off + 1
    <3>1. g \in Seq(Piece) /\ n \in Nat /\ conn'[c] = [conn[c] EXCEPT !.got = g, !.off = n]
      BY <2>2, <2>3, <2>4
    <3> HIDE DEF g, n
    <3> QED  BY <1>2, <3>1 DEF Connection
  <2>6. conn' \in [Conn -> Connection] /\ \A d \in Conn : d # c => conn'[d] = conn[d]
    BY <1>1, <1>2, <1>4, <2>5
  <2>7. /\ conn'[c].at = conn[c].at /\ conn'[c].srv = conn[c].srv /\ conn'[c].name = conn[c].name
        /\ conn'[c].header = conn[c].header /\ conn'[c].read = conn[c].read
        /\ conn'[c].ans = conn[c].ans
    BY <1>2, <2>4 DEF Connection
  <2>8. TypeOK'
    BY <1>4, <2>6 DEF TypeOK
  <2>9. Serving'
    <3> SUFFICES ASSUME NEW r \in Server PROVE ServingAt(r)'
      BY DEF Serving
    <3>1. CASE r = s
      BY <1>1, <1>4, <2>7, <3>1 DEF ServingAt
    <3>2. CASE r # s
      <4>1. srv[r].pc \in {"take", "lock", "copy"} => srv[r].cur \in Conn /\ srv[r].cur # c
        BY <1>1, <3>2 DEF Serving, ServingAt
      <4> QED  BY <1>4, <2>6, <4>1, OtherServes
    <3> QED  BY <3>1, <3>2
  <2>10. Named'
    BY <1>1, <2>6, <2>7 DEF Named
  <2>11. \A d \in Upload : d \in Conn /\ conn'[d] = conn[d]
    BY <1>1, <2>6 DEF Conn
  <2>12. Distinct' /\ Holding'
    <3> UNCHANGED <<srv, lock>>
      BY <1>4
    <3>1. Distinct'
      BY <2>11 DEF Distinct
    <3>2. \A d \in Upload : FileFor(d)' = FileFor(d) /\ Up(d)' = Up(d)
      BY <2>11 DEF FileFor, Up
    <3>3. Holding'
      BY <2>11, <3>2 DEF Holding, HoldingAt, OneName
    <3> QED  BY <3>1, <3>3
  <2>13. Uploaded'
    <3> UNCHANGED <<file, spoilt>>
      BY <1>4
    <3> QED  BY <2>11 DEF Uploaded, Uploads, FileFor, OneName
  <2> QED  BY <2>8, <2>9, <2>10, <2>12, <2>13
<1> QED  BY <1>3, <1>4 DEF Copy

-----------------------------------------------------------------------------
LEMMA TakeKeeps ==
  ASSUME IInv, NEW s \in Server, NEW c, srv[s].cur = c, Take(s)
  PROVE  IInv'
<1>1. srv[s].pc = "take" /\ c \in Conn /\ conn[c].srv = s /\ conn[c].at = "open"
  BY AtHand DEF Take
<1>2. CASE Leave(s, c)
  <2>1. UNCHANGED <<conn, file, lock, spoilt>>
    BY <1>2 DEF Leave
  <2>2. /\ \A r \in Server \ {s} : srv'[r] = srv[r]
        /\ srv'[s].pc = "select"
        /\ srv' \in [Server -> [pc : {"select", "take", "lock", "copy", "dead"}, cur : Conn \cup {None}]]
    BY <1>2 DEF Leave, Back, IInv, TypeOK
  <2>3. Serving'
    BY <2>1, <2>2 DEF IInv, Serving, ServingAt, FileFor, OneName
  <2>4. Holding'
    <3> SUFFICES ASSUME NEW d \in Upload PROVE HoldingAt(d)'
      BY DEF Holding
    <3>1. srv[conn[d].srv].pc = "lock" /\ conn[d].header # None
          => srv'[conn[d].srv] = srv[conn[d].srv]
      BY <1>1, <2>2, FileAssumption DEF IInv, Named, Server, Conn
    <3> QED  BY <2>1, <3>1 DEF IInv, Holding, HoldingAt, Up, FileFor, OneName
  <2>5. TypeOK'
    BY <2>1, <2>2 DEF IInv, TypeOK
  <2>6. Named' /\ Distinct'
    BY <2>1 DEF IInv, Named, Distinct
  <2>7. Uploaded'
    BY <2>1 DEF IInv, Uploaded, Uploads, FileFor, OneName
  <2> QED  BY <2>3, <2>4, <2>5, <2>6, <2>7 DEF IInv
<1>3. CASE Refuse(s, c) \/ Nameless(s, c) \/ RefuseRead(s, c)
  BY <1>1, <1>3, CloseKeeps DEF Refuse, Nameless, RefuseRead
<1>4. CASE Complete(s, c)
  <2>1. conn[c].header # None
    BY <1>1, <1>4 DEF Complete, AtEnd, IInv, Named
  <2> QED  BY <1>1, <1>4, <2>1, CloseKeeps DEF Complete
<1> QED  BY <1>1, <1>2, <1>3, <1>4, OpenKeeps, WriteKeeps, CrashKeeps, AcceptReadKeeps DEF Take

LEMMA NextKeeps == IInv /\ [Next]_vars => IInv'
<1> SUFFICES ASSUME IInv, [Next]_vars PROVE IInv'
  OBVIOUS
<1>1. CASE UNCHANGED vars
  BY <1>1 DEF vars, IInv, TypeOK, Serving, ServingAt, Named, Distinct, Holding, HoldingAt, Up,
       Uploaded, Uploads, FileFor, OneName
<1>2. ASSUME NEW s \in Server, Step(s) PROVE IInv'
  BY <1>2, SelectKeeps, TakeKeeps, LockKeeps, CopyKeeps DEF Step
<1>3. ASSUME NEW c \in Conn, Connect(c) \/ SendUnit(c) \/ Finish(c) PROVE IInv'
  BY <1>3, ClientsKeep
<1> QED  BY <1>1, <1>2, <1>3 DEF Next

LEMMA Invariance == Spec => []IInv
BY Initially, NextKeeps, PTL DEF Spec

-----------------------------------------------------------------------------
\* The state of connections, servers, files and locks keeps its type, whatever the
\* clients do.
THEOREM FileTypes == Spec => []TypeOK
<1>1. IInv => TypeOK
  BY DEF IInv
<1> QED  BY <1>1, Invariance, PTL

\* For any number of read and write servers, connections and files: an accepted upload
\* is the only one to its file and its process alone has the lock, until it is closed
\* (187, 212, 226).
THEOREM OneWriterKept == Spec => []OneWriter
<1>1. IInv => OneWriter
  <2> SUFFICES ASSUME IInv, NEW f \in File, OneName(f), NEW c \in Uploads(f)
               PROVE  Uploads(f) = {c} /\ lock[f] = {conn[c].srv}
    BY DEF OneWriter
  <2>1. \A d \in Uploads(f) : /\ d \in Upload /\ FileFor(d) = f /\ conn[d].header # None
                              /\ lock[f] = {conn[d].srv}
    BY DEF IInv, Holding, HoldingAt, Uploads, Up
  <2>2. \A d \in Uploads(f) : d = c
    BY <2>1, SameUpload
  <2> QED  BY <2>1, <2>2
<1> QED  BY <1>1, Invariance, PTL

\* The file of an accepted upload holds what this upload has sent and nothing else, with
\* any number of uploads and processes, unless another process truncated it (198-220).
THEOREM UploadedKept == Spec => []Uploaded
<1>1. IInv => Uploaded
  BY DEF IInv
<1> QED  BY <1>1, Invariance, PTL

-----------------------------------------------------------------------------
(* What a reader is sent.                                                   *)

\* What is read was sent, and an upload has read its header and the pieces it has written.
Received == \A c \in Conn : conn[c].read <= conn[c].sent
Counted ==
  \A c \in Upload : conn[c].header # None => conn[c].read = conn[c].off + 1

\* A file that no upload has open is one of those a reader may be sent.
Held(f) == \E c \in Upload : conn[c].header # None /\ FileFor(c) = f
Settled ==
  \A f \in File : OneName(f) /\ f \notin spoilt => Held(f) \/ file[f] \in Contents

\* A read that has a name has been accepted, its process copies for it and has a lock, and
\* what was sent is the start of the file.
ReadingAt(c) ==
  /\ conn[c].header # None =>
       /\ conn[c].header = conn[c].name
       /\ srv[conn[c].srv].pc = "copy" /\ srv[conn[c].srv].cur = c
       /\ conn[c].srv \in lock[FileFor(c)]
       /\ OneName(FileFor(c)) /\ FileFor(c) \notin spoilt =>
            /\ conn[c].off <= Len(file[FileFor(c)])
            /\ conn[c].got = [i \in 1 .. conn[c].off |-> file[FileFor(c)][i]]
  /\ conn[c].header = None /\ conn[c].at # "gone" => conn[c].got = <<>>
Reading == \A c \in Download : ReadingAt(c)

RInv == Received /\ Counted /\ Settled /\ Reading /\ WholeRead

LEMMA ReadsInitially == Init => RInv
<1> SUFFICES ASSUME Init PROVE RInv  OBVIOUS
<1>1. \A c \in Conn : conn[c] = Fresh
  BY DEF Init
<1>2. Upload \subseteq Conn /\ Download \subseteq Conn
  BY DEF Conn
<1>3. Received /\ Counted /\ Reading /\ WholeRead
  BY <1>1, <1>2 DEF Received, Counted, Reading, ReadingAt, WholeRead, Fresh
<1>4. Settled
  BY DEF Init, Settled, Contents
<1> QED  BY <1>3, <1>4 DEF RInv

\* What a step must leave alone, so that ...
\* ... what readers may be sent stays so,
LEMMA ContentsStay ==
  ASSUME \A c \in Upload : conn[c].at = "gone" =>
           /\ conn'[c].at = "gone" /\ conn'[c].ans = conn[c].ans /\ conn'[c].read = conn[c].read
  PROVE  Contents \subseteq Contents'
BY DEF Contents

\* ... a read goes on,
LEMMA ReadGoesOn ==
  ASSUME Reading, NEW c \in Download,
         conn'[c].header = conn[c].header, conn'[c].name = conn[c].name,
         conn'[c].off = conn[c].off, conn'[c].got = conn[c].got,
         conn[c].at = "gone" => conn'[c].at = "gone",
         conn[c].header # None =>
           /\ conn'[c].srv = conn[c].srv /\ srv'[conn[c].srv] = srv[conn[c].srv]
           /\ conn[c].srv \in lock'[FileFor(c)]
           /\ OneName(FileFor(c)) /\ FileFor(c) \notin spoilt' =>
                FileFor(c) \notin spoilt /\ file'[FileFor(c)] = file[FileFor(c)]
  PROVE  ReadingAt(c)'
<1>1. FileFor(c)' = FileFor(c) /\ OneName(FileFor(c))' = OneName(FileFor(c))
  BY DEF FileFor, OneName
<1>2. ReadingAt(c)
  BY DEF Reading
<1>3. conn'[c].header = None /\ conn'[c].at # "gone" => conn'[c].got = <<>>
  BY <1>2 DEF ReadingAt
<1>4. ASSUME conn'[c].header # None
      PROVE  /\ conn'[c].header = conn'[c].name
             /\ srv'[conn'[c].srv].pc = "copy" /\ srv'[conn'[c].srv].cur = c
             /\ conn'[c].srv \in lock'[FileFor(c)]
  BY <1>2, <1>4 DEF ReadingAt
<1>5. ASSUME conn'[c].header # None, OneName(FileFor(c)), FileFor(c) \notin spoilt'
      PROVE  /\ conn'[c].off <= Len(file'[FileFor(c)])
             /\ conn'[c].got = [i \in 1 .. conn'[c].off |-> file'[FileFor(c)][i]]
  BY <1>2, <1>5 DEF ReadingAt
<1> QED  BY <1>1, <1>3, <1>4, <1>5 DEF ReadingAt

\* ... and a read that is over stays whole.
LEMMA ReadsStayWhole ==
  ASSUME WholeRead, spoilt \subseteq spoilt', Contents \subseteq Contents',
         \A c \in Download : conn'[c].at = "gone" /\ conn'[c].ans = "ACCEPT" =>
           /\ conn[c].at = "gone" /\ conn[c].ans = "ACCEPT"
           /\ conn'[c].name = conn[c].name /\ conn'[c].got = conn[c].got
  PROVE  WholeRead'
BY DEF WholeRead, OneName

\* While a file is read no upload has it open.
LEMMA ReadAlone ==
  ASSUME IInv, RInv, NEW c \in Download, conn[c].header # None,
         OneName(FileFor(c)), FileFor(c) \notin spoilt
  PROVE  /\ conn[c].srv \in Reader /\ FileFor(c) \in File
         /\ conn[c].srv \in lock[FileFor(c)] /\ ~Held(FileFor(c))
<1> USE FileAssumption DEF IInv, RInv
<1>1. c \in Conn /\ c \notin Upload
  BY DEF Conn
<1>2. conn[c].srv \in Reader /\ FileFor(c) \in File
  BY <1>1, FileNamed DEF Named
<1>3. conn[c].srv \in lock[FileFor(c)]
  BY DEF Reading, ReadingAt
<1>4. ASSUME NEW d \in Upload, conn[d].header # None, FileFor(d) = FileFor(c)
      PROVE  FALSE
  <2>1. d \in Conn
    BY DEF Conn
  <2>2. conn[d].srv \in Writer
    BY <1>4, <2>1 DEF Named
  <2>3. CASE Up(d)
    BY <1>2, <1>3, <1>4, <2>2, <2>3 DEF Holding, HoldingAt
  <2>4. CASE srv[conn[d].srv].pc = "lock" /\ srv[conn[d].srv].cur = d
    <3>1. ServingAt(conn[d].srv)
      BY <2>2 DEF Serving, Server
    <3>2. lock[FileFor(c)] \subseteq {conn[d].srv}
      BY <1>4, <2>4, <3>1 DEF ServingAt
    <3> QED  BY <1>2, <1>3, <2>2, <3>2
  <2> QED  BY <1>4, <2>3, <2>4 DEF Holding, HoldingAt
<1> QED  BY <1>2, <1>3, <1>4 DEF Held

-----------------------------------------------------------------------------
\* Steps that neither write a file nor close a connection nor ask for a lock.
LEMMA QuietReads ==
  ASSUME IInv, RInv, UNCHANGED <<file, lock, spoilt>>,
         \A r \in Server : srv[r].pc = "copy" => srv'[r] = srv[r],
         \A c \in Conn :
           /\ conn'[c].header = conn[c].header /\ conn'[c].read = conn[c].read
           /\ conn'[c].off = conn[c].off /\ conn'[c].got = conn[c].got
           /\ conn'[c].ans = conn[c].ans /\ conn'[c].sent \in Nat /\ conn[c].sent <= conn'[c].sent
           /\ conn[c].at = "gone" <=> conn'[c].at = "gone"
           /\ conn[c].at # "off" => conn'[c].name = conn[c].name /\ conn'[c].srv = conn[c].srv
  PROVE  RInv'
<1> USE FileAssumption DEF IInv, RInv
<1> Upload \subseteq Conn /\ Download \subseteq Conn
  BY DEF Conn
<1>1. Received' /\ Counted'
  <2>1. Counted'
    BY DEF Counted
  <2>2. \A c \in Conn : conn[c].read \in Nat /\ conn[c].sent \in Nat
    BY DEF TypeOK, Connection
  <2> QED  BY <2>1, <2>2 DEF Received
<1>2. Contents \subseteq Contents'
  BY ContentsStay
<1>3. \A f \in File : Held(f)' <=> Held(f)
  BY DEF Held, FileFor
<1>4. Settled'
  BY <1>2, <1>3 DEF Settled, OneName
<1>5. ASSUME NEW c \in Download PROVE ReadingAt(c)'
  <2>1. CASE conn[c].header # None
    <3>1. conn[c].at # "off"
      BY <2>1 DEF Named
    <3>2. conn[c].srv \in Server /\ srv[conn[c].srv].pc = "copy" /\ conn[c].srv \in lock[FileFor(c)]
      BY <2>1, <3>1 DEF Reading, ReadingAt, Named, Server
    <3> QED  BY <3>1, <3>2, ReadGoesOn
  <2>2. CASE conn[c].header = None
    BY <2>2 DEF Reading, ReadingAt
  <2> QED  BY <2>1, <2>2
<1>6. WholeRead'
  BY <1>2, ReadsStayWhole
<1> QED  BY <1>1, <1>4, <1>5, <1>6 DEF Reading

LEMMA ClientReads ==
  ASSUME IInv, RInv, NEW c \in Conn, Connect(c) \/ SendUnit(c) \/ Finish(c) PROVE RInv'
<1> conn \in [Conn -> Connection] /\ conn[c] \in Connection
  BY DEF IInv, TypeOK
<1>1. UNCHANGED <<srv, file, lock, spoilt>>
  BY DEF Connect, SendUnit, Finish
<1>2. \A d \in Conn : d # c => conn'[d] = conn[d]
  BY DEF Connect, SendUnit, Finish
<1>3. /\ conn'[c].header = conn[c].header /\ conn'[c].read = conn[c].read
      /\ conn'[c].off = conn[c].off /\ conn'[c].got = conn[c].got
      /\ conn'[c].ans = conn[c].ans /\ conn'[c].sent \in Nat /\ conn[c].sent <= conn'[c].sent
      /\ conn[c].at = "gone" <=> conn'[c].at = "gone"
      /\ conn[c].at # "off" => conn'[c].name = conn[c].name /\ conn'[c].srv = conn[c].srv
  <2>1. CASE Connect(c)
    <3>1. PICK s, n : conn' = [conn EXCEPT ![c].at = "queued", ![c].srv = s, ![c].name = n]
      BY <2>1 DEF Connect
    <3>2. conn'[c] = [conn[c] EXCEPT !.at = "queued", !.srv = s, !.name = n]
      BY <3>1
    <3>3. conn[c].at = "off"
      BY <2>1 DEF Connect
    <3> QED  BY <3>2, <3>3 DEF Connection
  <2>2. CASE SendUnit(c)
    <3>1. conn'[c] = [conn[c] EXCEPT !.sent = @ + 1]
      BY <2>2 DEF SendUnit
    <3> QED  BY <3>1 DEF Connection
  <2>3. CASE Finish(c)
    <3>1. conn'[c] = [conn[c] EXCEPT !.peer = "closed"]
      BY <2>3 DEF Finish
    <3> QED  BY <3>1 DEF Connection
  <2> QED  BY <2>1, <2>2, <2>3
<1>4. \A d \in Conn : conn[d].sent \in Nat
  BY DEF Connection
<1> QED  BY <1>1, <1>2, <1>3, <1>4, QuietReads

LEMMA SelectReads ==
  ASSUME IInv, RInv, NEW s \in Server, Select(s) PROVE RInv'
<1> conn \in [Conn -> Connection] /\ srv[s].pc = "select" /\ UNCHANGED <<file, lock, spoilt>>
  BY DEF IInv, TypeOK, Select
<1>1. \A r \in Server : r # s => srv'[r] = srv[r]
  BY DEF Select, IInv, TypeOK
<1>2. ASSUME NEW c \in Conn
      PROVE  \/ conn'[c] = conn[c]
             \/ conn[c].at = "queued" /\ conn'[c] = [conn[c] EXCEPT !.at = "open"]
  BY DEF Select, Waiting
<1>3. ASSUME NEW c \in Conn
      PROVE  /\ conn'[c].header = conn[c].header /\ conn'[c].read = conn[c].read
             /\ conn'[c].off = conn[c].off /\ conn'[c].got = conn[c].got
             /\ conn'[c].ans = conn[c].ans /\ conn'[c].sent = conn[c].sent
             /\ conn[c].at = "gone" <=> conn'[c].at = "gone"
             /\ conn[c].at # "off" => conn'[c].name = conn[c].name /\ conn'[c].srv = conn[c].srv
  <2> conn[c] \in Connection
    OBVIOUS
  <2> QED  BY <1>2 DEF Connection
<1>4. \A d \in Conn : conn[d].sent \in Nat
  BY DEF Connection
<1> QED  BY <1>1, <1>3, <1>4, QuietReads

-----------------------------------------------------------------------------
\* A server closes a connection: one without a name, one it has not got the lock for, an
\* upload that is over, or a read that is over.
LEMMA CloseReads ==
  ASSUME IInv, RInv, NEW s \in Server, NEW c \in Conn, NEW ans,
         srv[s].pc \in {"take", "lock", "copy"}, srv[s].cur = c,
         conn' = Closed(c, ans), Back(s), UNCHANGED <<file, spoilt>>,
         lock' = lock \/ (conn[c].header # None /\ lock' = Unlocked(s, FileFor(c))),
         \/ conn[c].header = None /\ ans = "REJECT"
         \/ srv[s].pc = "lock" /\ ans = "REJECT" /\ lock[FileFor(c)] \ {s} # {}
         \/ c \in Upload /\ Up(c) /\ ans = "ACCEPT"
         \/ srv[s].pc = "copy" /\ ans = "ACCEPT" /\ conn[c].off >= Len(file[FileFor(c)])
  PROVE  RInv'
<1> USE FileAssumption DEF IInv, RInv
<1> Upload \subseteq Conn /\ Download \subseteq Conn
  BY DEF Conn
<1>1. conn \in [Conn -> Connection] /\ conn[c] \in Connection
  BY DEF TypeOK
<1>2. conn'[c] = [conn[c] EXCEPT !.at = "gone", !.header = None, !.ans = ans]
  BY <1>1 DEF Closed, Over
<1>3. \A d \in Conn : d # c => conn'[d] = conn[d]
  BY <1>1 DEF Closed
<1>4. /\ conn'[c].at = "gone" /\ conn'[c].header = None /\ conn'[c].ans = ans
      /\ conn'[c].name = conn[c].name /\ conn'[c].read = conn[c].read
      /\ conn'[c].got = conn[c].got /\ conn'[c].sent = conn[c].sent
  BY <1>1, <1>2 DEF Connection
<1>5. conn[c].at = "open" /\ conn[c].srv = s
  BY DEF Serving, ServingAt
<1>6. \A r \in Server : r # s => srv'[r] = srv[r]
  BY DEF Back, TypeOK
<1>7. \A f \in File : \A r \in lock[f] : r # s => r \in lock'[f]
  <2>1. CASE lock' = Unlocked(s, FileFor(c))
    <3> lock' = [f \in File |-> IF f = FileFor(c) THEN lock[f] \ {s} ELSE lock[f]]
      BY <2>1 DEF Unlocked, TypeOK
    <3> QED  OBVIOUS
  <2> QED  BY <2>1
<1>8. Received' /\ Counted'
  BY <1>3, <1>4 DEF Received, Counted
<1>9. Contents \subseteq Contents'
  BY <1>3, <1>5, ContentsStay
<1>10. Settled'
  <2> SUFFICES ASSUME NEW f \in File, OneName(f), f \notin spoilt, ~Held(f)'
               PROVE  file[f] \in Contents'
    BY DEF Settled, OneName
  <2>1. CASE ~Held(f)
    BY <1>9, <2>1 DEF Settled
  <2>2. CASE Held(f)
    <3>1. c \in Upload /\ conn[c].header # None /\ FileFor(c) = f
      BY <1>3, <2>2 DEF Held, FileFor
    <3>2. srv[s].pc = "lock" => lock[f] \subseteq {s}
      BY <3>1 DEF Serving, ServingAt
    <3>3. srv[s].pc # "copy"
      BY <1>5, <3>1 DEF Serving, ServingAt, Named
    <3>4. Up(c) /\ ans = "ACCEPT"
      BY <3>1, <3>2, <3>3
    <3>5. file[f] = [i \in 1 .. conn[c].off |-> <<c, i>>]
      BY <3>1, <3>4 DEF Uploaded, Uploads, Up
    <3>6. conn[c].read - 1 = conn[c].off
      <4>1. conn[c].read = conn[c].off + 1
        BY <3>1 DEF Counted
      <4>2. conn[c].off \in Nat
        BY <1>1 DEF Connection
      <4> QED  BY <4>1, <4>2
    <3>7. file[f] = [i \in 1 .. conn'[c].read - 1 |-> <<c, i>>]
      BY <1>4, <3>5, <3>6
    <3> QED  BY <1>4, <3>1, <3>4, <3>7 DEF Contents
  <2> QED  BY <2>1, <2>2
<1>11. ASSUME NEW d \in Download PROVE ReadingAt(d)'
  <2>1. CASE d = c
    BY <1>4, <2>1 DEF ReadingAt
  <2>2. CASE d # c
    <3>1. conn[d].header # None => /\ conn[d].srv \in Server /\ conn[d].srv # s
                                   /\ conn[d].srv \in lock[FileFor(d)] /\ FileFor(d) \in File
      BY <2>2, FileNamed DEF Reading, ReadingAt, Named, Server
    <3>2. conn'[d] = conn[d]
      BY <1>3, <2>2
    <3> QED  BY <1>6, <1>7, <3>1, <3>2, ReadGoesOn
  <2> QED  BY <2>1, <2>2
<1>12. WholeRead'
  <2> SUFFICES ASSUME NEW d \in Download, conn'[d].at = "gone", conn'[d].ans = "ACCEPT",
                      OneName(FileOf[conn'[d].name]), FileOf[conn'[d].name] \notin spoilt
               PROVE  conn'[d].got \in Contents'
    BY DEF WholeRead, OneName
  <2>1. CASE d # c
    <3>1. conn'[d] = conn[d]
      BY <1>3, <2>1
    <3>2. conn[d].got \in Contents
      BY <3>1 DEF WholeRead
    <3> QED  BY <1>9, <3>1, <3>2
  <2>2. CASE d = c
    <3>1. srv[s].pc = "copy" /\ conn[c].header # None /\ conn[c].off >= Len(file[FileFor(c)])
      BY <1>4, <2>2 DEF Serving, ServingAt
    <3>2. FileFor(c) = FileOf[conn[c].name] /\ conn'[c].name = conn[c].name
      BY <1>4, <2>2, <3>1 DEF Reading, ReadingAt, FileFor
    <3>3. OneName(FileFor(c)) /\ FileFor(c) \notin spoilt
      BY <2>2, <3>2
    <3>4. FileFor(c) \in File /\ ~Held(FileFor(c))
      BY <2>2, <3>1, <3>3, ReadAlone
    <3>5. file[FileFor(c)] \in Contents
      BY <3>3, <3>4 DEF Settled
    <3>6. /\ conn[c].off <= Len(file[FileFor(c)])
          /\ conn[c].got = [i \in 1 .. conn[c].off |-> file[FileFor(c)][i]]
      BY <2>2, <3>1, <3>3 DEF Reading, ReadingAt
    <3>7. conn[c].off \in Nat /\ file[FileFor(c)] \in Seq(Piece)
      BY <1>1, <3>4 DEF Connection, TypeOK
    <3>8. conn[c].off = Len(file[FileFor(c)])
      BY <3>1, <3>6, <3>7
    <3>9. conn[c].got = file[FileFor(c)]
      BY <3>6, <3>7, <3>8
    <3> QED  BY <1>4, <1>9, <2>2, <3>5, <3>9
  <2> QED  BY <2>1, <2>2
<1> QED  BY <1>8, <1>10, <1>11, <1>12 DEF Reading

LEMMA OpenReads ==
  ASSUME IInv, RInv, NEW s \in Server, NEW c, srv[s].pc = "take", srv[s].cur = c, Open(s, c)
  PROVE  RInv'
<1> USE FileAssumption DEF IInv, RInv
<1> Upload \subseteq Conn /\ Download \subseteq Conn
  BY DEF Conn
<1> DEFINE f == FileOf[conn[c].name]
<1>1. /\ c \in Upload /\ c \in Conn /\ c \notin Download /\ s \in Writer /\ conn[c].at = "open"
      /\ conn[c].name \in Name /\ conn[c].read = 0 /\ f \in File
  BY AtHand DEF Open
<1>2. conn[c].off = 0
  BY <1>1 DEF Named
<1>3. conn \in [Conn -> Connection] /\ conn[c] \in Connection
  BY <1>1 DEF TypeOK
<1>4. conn'[c] = [conn[c] EXCEPT !.read = 1, !.header = conn[c].name]
  BY <1>1, <1>3 DEF Open
<1>5. \A d \in Conn : d # c => conn'[d] = conn[d]
  BY <1>3 DEF Open
<1>6. /\ conn'[c].at = "open" /\ conn'[c].header = conn[c].name /\ conn'[c].read = 1
      /\ conn'[c].off = 0 /\ conn'[c].sent = conn[c].sent
  BY <1>1, <1>2, <1>3, <1>4 DEF Connection
<1>7. /\ lock' = lock /\ \A r \in Server : r # s => srv'[r] = srv[r]
      /\ \A g \in File : g # f => file'[g] = file[g]
  BY DEF Open, TypeOK
<1>8. spoilt \subseteq spoilt' /\ (lock[f] \ {s} # {} => f \in spoilt')
  BY DEF Open
<1>9. Received' /\ Counted'
  <2>1. conn[c].sent \in Nat /\ conn[c].sent > 0
    BY <1>3 DEF Open, Connection
  <2> QED  BY <1>5, <1>6, <2>1 DEF Received, Counted
<1>10. Contents \subseteq Contents'
  BY <1>1, <1>5, ContentsStay
<1>11. Settled'
  <2> SUFFICES ASSUME NEW g \in File, OneName(g), g \notin spoilt', ~Held(g)'
               PROVE  file'[g] \in Contents'
    BY DEF Settled, OneName
  <2>1. conn'[c].header # None /\ FileFor(c)' = f
    BY <1>1, <1>6 DEF FileFor
  <2>2. g # f
    BY <1>1, <2>1 DEF Held
  <2>3. ~Held(g)
    <3> SUFFICES ASSUME NEW d \in Upload, conn[d].header # None, FileFor(d) = g PROVE FALSE
      BY DEF Held
    <3>1. d # c
      BY <1>1 DEF Named
    <3> QED  BY <1>5, <3>1 DEF Held, FileFor
  <2> QED  BY <1>7, <1>8, <1>10, <2>2, <2>3 DEF Settled
<1>12. ASSUME NEW d \in Download PROVE ReadingAt(d)'
  <2>1. conn'[d] = conn[d]
    BY <1>1, <1>5
  <2>2. conn[d].header # None =>
          /\ conn[d].srv \in Reader /\ conn[d].srv \in lock[FileFor(d)] /\ FileFor(d) \in File
    BY FileNamed DEF Reading, ReadingAt, Named
  <2>3. conn[d].header # None => conn[d].srv \in Server /\ conn[d].srv # s
    BY <1>1, <2>2 DEF Server
  <2>4. conn[d].header # None /\ FileFor(d) \notin spoilt' => file'[FileFor(d)] = file[FileFor(d)]
    BY <1>7, <1>8, <2>2, <2>3
  <2> HIDE DEF f
  <2> QED  BY <1>7, <1>8, <2>1, <2>2, <2>3, <2>4, ReadGoesOn
<1>13. WholeRead'
  BY <1>1, <1>5, <1>8, <1>10, ReadsStayWhole
<1> QED  BY <1>9, <1>11, <1>12, <1>13 DEF Reading

LEMMA LockReads ==
  ASSUME IInv, RInv, NEW s \in Server, NEW c, srv[s].cur = c, Lock(s) PROVE RInv'
<1> USE FileAssumption DEF IInv, RInv
<1> Upload \subseteq Conn /\ Download \subseteq Conn
  BY DEF Conn
<1> DEFINE f == FileFor(c)
<1>1. /\ srv[s].pc = "lock" /\ c \in Upload /\ c \in Conn /\ c \notin Download
      /\ conn[c].header # None /\ conn[c].at = "open" /\ file' = file
  BY AtHand DEF Lock, Serving, ServingAt
<1>2. f \in File
  BY <1>1, FileNamed
<1>3. CASE /\ lock[f] \ {s} # {} /\ conn' = Closed(c, "REJECT") /\ lock' = Unlocked(s, f)
           /\ Back(s) /\ UNCHANGED spoilt
  BY <1>1, <1>3, CloseReads
<1>4. CASE /\ conn' = [conn EXCEPT ![c].ans = "ACCEPT"]
           /\ lock' = [lock EXCEPT ![f] = @ \cup {s}] /\ srv' = [srv EXCEPT ![s].pc = "take"]
           /\ spoilt' = Seen(s, f)
  <2>1. conn \in [Conn -> Connection] /\ conn[c] \in Connection
    BY <1>1 DEF TypeOK
  <2>2. conn'[c] = [conn[c] EXCEPT !.ans = "ACCEPT"]
    BY <1>1, <1>4, <2>1
  <2>3. \A d \in Conn : d # c => conn'[d] = conn[d]
    BY <1>4, <2>1
  <2>4. /\ conn'[c].at = conn[c].at /\ conn'[c].header = conn[c].header
        /\ conn'[c].read = conn[c].read /\ conn'[c].off = conn[c].off
        /\ conn'[c].sent = conn[c].sent
    BY <2>1, <2>2 DEF Connection
  <2>5. /\ \A r \in Server : r # s => srv'[r] = srv[r]
        /\ \A g \in File : lock[g] \subseteq lock'[g]
    BY <1>4 DEF TypeOK
  <2>6. spoilt \subseteq spoilt'
    BY <1>4 DEF Seen
  <2>7. Received' /\ Counted'
    BY <2>3, <2>4 DEF Received, Counted
  <2>8. Contents \subseteq Contents'
    BY <1>1, <2>3, ContentsStay
  <2>9. \A g \in File : Held(g) => Held(g)'
    BY <2>3, <2>4 DEF Held, FileFor
  <2>10. Settled'
    BY <1>1, <2>6, <2>8, <2>9 DEF Settled, OneName
  <2>11. ASSUME NEW d \in Download PROVE ReadingAt(d)'
    <3>1. conn'[d] = conn[d]
      BY <1>1, <2>3
    <3>2. conn[d].header # None =>
            /\ conn[d].srv \in Server /\ conn[d].srv # s
            /\ conn[d].srv \in lock[FileFor(d)] /\ FileFor(d) \in File
      BY <1>1, FileNamed DEF Reading, ReadingAt, Named, Server
    <3> QED  BY <1>1, <2>5, <2>6, <3>1, <3>2, ReadGoesOn
  <2>12. WholeRead'
    BY <1>1, <2>3, <2>6, <2>8, ReadsStayWhole
  <2> QED  BY <2>7, <2>10, <2>11, <2>12 DEF Reading
<1> QED  BY <1>3, <1>4 DEF Lock

LEMMA WriteReads ==
  ASSUME IInv, RInv, NEW s \in Server, NEW c, srv[s].pc = "take", srv[s].cur = c, Write(s, c)
  PROVE  RInv'
<1> USE FileAssumption DEF IInv, RInv
<1> Upload \subseteq Conn /\ Download \subseteq Conn
  BY DEF Conn
<1> DEFINE f == FileFor(c)
<1>1. c \in Upload /\ c \in Conn /\ c \notin Download /\ conn[c].at = "open"
  BY AtHand DEF Write
<1>2. conn[c].header # None /\ f \in File
  BY <1>1, FileNamed DEF Write, Piecemeal, Named
<1>3. conn \in [Conn -> Connection] /\ conn[c] \in Connection
  BY <1>1 DEF TypeOK
<1>4. conn'[c] = [conn[c] EXCEPT !.read = @ + 1, !.off = conn[c].off + 1]
  BY <1>1, <1>3 DEF Write
<1>5. \A d \in Conn : d # c => conn'[d] = conn[d]
  BY <1>3 DEF Write
<1>6. /\ conn'[c].at = conn[c].at /\ conn'[c].header = conn[c].header
      /\ conn'[c].read = conn[c].read + 1 /\ conn'[c].off = conn[c].off + 1
      /\ conn'[c].sent = conn[c].sent
  BY <1>3, <1>4 DEF Connection
<1>7. /\ UNCHANGED <<srv, lock, spoilt>>
      /\ \A g \in File : g # f => file'[g] = file[g]
  BY DEF Write, TypeOK
<1>8. Received' /\ Counted'
  <2>1. conn[c].read \in Nat /\ conn[c].sent \in Nat /\ conn[c].read < conn[c].sent
    BY <1>3 DEF Write, Piecemeal, Connection
  <2>2. Counted'
    BY <1>2, <1>5, <1>6 DEF Counted
  <2> QED  BY <1>5, <1>6, <2>1, <2>2 DEF Received
<1>9. Contents \subseteq Contents'
  BY <1>1, <1>5, ContentsStay
<1>10. \A g \in File : Held(g)' <=> Held(g)
  BY <1>5, <1>6 DEF Held, FileFor
<1>11. Held(f)
  BY <1>1, <1>2 DEF Held
<1>12. Settled'
  BY <1>7, <1>9, <1>10, <1>11 DEF Settled, OneName
<1>13. ASSUME NEW d \in Download PROVE ReadingAt(d)'
  <2>1. conn'[d] = conn[d]
    BY <1>1, <1>5
  <2>2. conn[d].header # None /\ OneName(FileFor(d)) /\ FileFor(d) \notin spoilt =>
          file'[FileFor(d)] = file[FileFor(d)]
    BY <1>7, <1>11, ReadAlone
  <2>3. conn[d].header # None => conn[d].srv \in lock[FileFor(d)]
    BY DEF Reading, ReadingAt
  <2> HIDE DEF f
  <2> QED  BY <1>7, <2>1, <2>2, <2>3, ReadGoesOn
<1>14. WholeRead'
  BY <1>1, <1>5, <1>7, <1>9, ReadsStayWhole
<1> QED  BY <1>8, <1>12, <1>13, <1>14 DEF Reading

LEMMA CrashReads ==
  ASSUME IInv, RInv, NEW s \in Server, NEW c, srv[s].pc = "take", srv[s].cur = c, Crash(s, c)
  PROVE  RInv'
<1> USE FileAssumption DEF IInv, RInv
<1> Upload \subseteq Conn /\ Download \subseteq Conn
  BY DEF Conn
<1>1. conn \in [Conn -> Connection] /\ s \in Writer /\ UNCHANGED <<file, spoilt>>
  BY DEF TypeOK, Crash
<1>2. \A d \in Conn : conn[d].srv # s => conn'[d] = conn[d]
  BY DEF Crash
<1>3. ASSUME NEW d \in Conn, conn[d].srv = s
      PROVE  /\ conn'[d].at = "gone" /\ conn'[d].header = None /\ conn'[d].ans = conn[d].ans
             /\ conn'[d].read = conn[d].read /\ conn'[d].sent = conn[d].sent
  <2>1. conn'[d] = [conn[d] EXCEPT !.at = "gone", !.header = None, !.ans = conn[d].ans]
    BY <1>3 DEF Crash, Over
  <2>2. conn[d] \in Connection
    BY <1>1
  <2> QED  BY <2>1, <2>2 DEF Connection
<1>4. /\ \A r \in Server : r # s => srv'[r] = srv[r]
      /\ \A f \in File : \A r \in lock[f] : r # s => r \in lock'[f]
  BY DEF Crash, TypeOK
<1>5. \A d \in Download : conn[d].srv # s
  BY <1>1 DEF Named, Server
<1>6. Received' /\ Counted'
  BY <1>2, <1>3 DEF Received, Counted
<1>7. Contents \subseteq Contents'
  BY <1>2, <1>3, ContentsStay
<1>8. Settled'
  <2> SUFFICES ASSUME NEW f \in File, OneName(f), f \notin spoilt, ~Held(f)'
               PROVE  file[f] \in Contents'
    BY <1>1 DEF Settled, OneName
  <2>1. CASE ~Held(f)
    BY <1>7, <2>1 DEF Settled
  <2>2. CASE Held(f)
    <3>1. PICK d \in Upload : conn[d].header # None /\ FileFor(d) = f
      BY <2>2 DEF Held
    <3>2. conn[d].srv = s
      BY <1>2, <3>1 DEF Held, FileFor
    <3>3. Up(d)
      BY <3>1, <3>2 DEF Holding, HoldingAt
    <3>4. file[f] = [i \in 1 .. conn[d].off |-> <<d, i>>]
      BY <3>1, <3>3 DEF Uploaded, Uploads, Up
    <3>5. conn[d].read - 1 = conn[d].off
      <4>1. conn[d].read = conn[d].off + 1
        BY <3>1 DEF Counted
      <4>2. conn[d].off \in Nat
        BY <1>1 DEF Connection
      <4> QED  BY <4>1, <4>2
    <3>6. file[f] = [i \in 1 .. conn'[d].read - 1 |-> <<d, i>>]
      BY <1>3, <3>2, <3>4, <3>5
    <3>7. conn'[d].at = "gone" /\ conn'[d].ans = "ACCEPT"
      BY <1>3, <3>2, <3>3 DEF Up
    <3> QED  BY <3>6, <3>7 DEF Contents
  <2> QED  BY <2>1, <2>2
<1>9. ASSUME NEW d \in Download PROVE ReadingAt(d)'
  <2>1. conn'[d] = conn[d]
    BY <1>2, <1>5
  <2>2. conn[d].header # None => /\ conn[d].srv \in Server /\ FileFor(d) \in File
                                 /\ conn[d].srv \in lock[FileFor(d)]
    BY FileNamed DEF Reading, ReadingAt, Named, Server
  <2> QED  BY <1>1, <1>4, <1>5, <2>1, <2>2, ReadGoesOn
<1>10. WholeRead'
  BY <1>1, <1>2, <1>5, <1>7, ReadsStayWhole
<1> QED  BY <1>6, <1>8, <1>9, <1>10 DEF Reading

LEMMA AcceptReads ==
  ASSUME IInv, RInv, NEW s \in Server, NEW c, srv[s].pc = "take", srv[s].cur = c, AcceptRead(s, c)
  PROVE  RInv'
<1> USE FileAssumption DEF IInv, RInv
<1> Upload \subseteq Conn /\ Download \subseteq Conn
  BY DEF Conn
<1> DEFINE f == FileOf[conn[c].name]
<1>1. /\ c \in Conn /\ c \in Download /\ c \notin Upload /\ conn[c].at = "open"
      /\ conn[c].srv = s /\ conn[c].name \in Name /\ f \in File /\ file' = file
  BY AtHand DEF AcceptRead, Conn
<1>2. conn[c].header = None
  BY <1>1 DEF Reading, ReadingAt
<1>4. conn \in [Conn -> Connection] /\ conn[c] \in Connection
  BY <1>1 DEF TypeOK
<1>3. conn[c].off = 0 /\ conn[c].got = <<>>
  <2>1. conn[c].read = 0
    BY <1>1, <1>2, <1>4 DEF Named, Connection
  <2> QED  BY <1>1, <1>2, <2>1 DEF Named, Reading, ReadingAt
<1>5. conn'[c] = [conn[c] EXCEPT !.read = 1, !.header = conn[c].name, !.ans = "ACCEPT"]
  BY <1>1, <1>4 DEF AcceptRead
<1>6. \A d \in Conn : d # c => conn'[d] = conn[d]
  BY <1>4 DEF AcceptRead
<1>7. conn'[c].header = conn[c].name /\ conn'[c].name = conn[c].name /\ conn'[c].srv = s
  BY <1>1, <1>4, <1>5 DEF Connection
<1>8. /\ conn'[c].at = "open" /\ conn'[c].off = 0 /\ conn'[c].got = <<>>
      /\ conn'[c].read = 1 /\ conn'[c].sent = conn[c].sent
  BY <1>1, <1>3, <1>4, <1>5 DEF Connection
<1>9. srv' = [srv EXCEPT ![s].pc = "copy"] /\ lock' = [lock EXCEPT ![f] = @ \cup {s}]
  BY DEF AcceptRead
<1>10. /\ srv'[s].pc = "copy" /\ srv'[s].cur = c /\ s \in lock'[f]
       /\ \A r \in Server : r # s => srv'[r] = srv[r]
       /\ \A g \in File : lock[g] \subseteq lock'[g]
  BY <1>1, <1>9 DEF TypeOK
<1>11. spoilt \subseteq spoilt'
  BY DEF AcceptRead, Seen
<1>12. Received' /\ Counted'
  <2>1. conn[c].sent \in Nat /\ conn[c].sent > 0
    BY <1>4 DEF AcceptRead, Connection
  <2> QED  BY <1>1, <1>6, <1>8, <2>1 DEF Received, Counted
<1>13. Contents \subseteq Contents'
  BY <1>1, <1>6, ContentsStay
<1>14. \A g \in File : Held(g)' <=> Held(g)
  BY <1>1, <1>6 DEF Held, FileFor
<1>15. Settled'
  BY <1>1, <1>11, <1>13, <1>14 DEF Settled, OneName
<1>16. ASSUME NEW d \in Download PROVE ReadingAt(d)'
  <2>1. CASE d = c
    <3>1. FileFor(c)' = f
      BY <1>7 DEF FileFor
    <3>2. file'[f] \in Seq(Piece)
      BY <1>1 DEF TypeOK
    <3>3. conn'[c].off <= Len(file'[f]) /\ conn'[c].got = [i \in 1 .. conn'[c].off |-> file'[f][i]]
      BY <1>8, <3>2
    <3>4. conn'[c].header # None
      BY <1>1, <1>7
    <3> HIDE DEF f
    <3> QED  BY <1>7, <1>10, <2>1, <3>1, <3>3, <3>4 DEF ReadingAt
  <2>2. CASE d # c
    <3>1. conn'[d] = conn[d]
      BY <1>6, <2>2
    <3>2. conn[d].header # None =>
            /\ conn[d].srv \in Server /\ conn[d].srv # s
            /\ conn[d].srv \in lock[FileFor(d)] /\ FileFor(d) \in File
      BY <2>2, FileNamed DEF Reading, ReadingAt, Named, Server
    <3> HIDE DEF f
    <3> QED  BY <1>1, <1>10, <1>11, <3>1, <3>2, ReadGoesOn
  <2> QED  BY <2>1, <2>2
<1>17. WholeRead'
  BY <1>6, <1>8, <1>11, <1>13, ReadsStayWhole
<1> QED  BY <1>12, <1>15, <1>16, <1>17 DEF Reading

LEMMA CopyReads ==
  ASSUME IInv, RInv, NEW s \in Server, NEW c, srv[s].cur = c, Copy(s) PROVE RInv'
<1> USE FileAssumption DEF IInv, RInv
<1> Upload \subseteq Conn /\ Download \subseteq Conn
  BY DEF Conn
<1> DEFINE off == conn[c].off
           f == FileFor(c)
           x == file[f]
<1>1. /\ c \in Conn /\ c \in Download /\ c \notin Upload /\ srv[s].pc = "copy"
      /\ conn[c].srv = s /\ conn[c].at = "open" /\ conn[c].header # None
  BY AtHand DEF Copy, Serving, ServingAt, Server, Conn
<1>2. conn \in [Conn -> Connection] /\ conn[c] \in Connection
  BY <1>1 DEF TypeOK
<1>3. CASE /\ off >= Len(x) /\ conn' = Closed(c, "ACCEPT") /\ lock' = Unlocked(s, f)
           /\ Back(s) /\ UNCHANGED <<file, spoilt>>
  BY <1>1, <1>3, CloseReads
<1>4. CASE /\ off < Len(x) /\ UNCHANGED <<srv, file, lock, spoilt>>
           /\ conn' = [conn EXCEPT ![c].got = Append(@, x[off + 1]), ![c].off = off + 1]
  <2>1. x \in Seq(Piece) /\ off \in Nat
    BY <1>1, <1>2, FileNamed DEF TypeOK, Connection
  <2>2. conn'[c] = [conn[c] EXCEPT !.got = Append(conn[c].got, x[off + 1]), !.off = off + 1]
    BY <1>1, <1>2, <1>4
  <2>3. \A d \in Conn : d # c => conn'[d] = conn[d]
    BY <1>2, <1>4
  <2>4. /\ conn'[c].at = conn[c].at /\ conn'[c].header = conn[c].header
        /\ conn'[c].srv = conn[c].srv /\ conn'[c].name = conn[c].name
        /\ conn'[c].read = conn[c].read /\ conn'[c].sent = conn[c].sent
    BY <1>2, <2>2 DEF Connection
  <2>5. conn'[c].off = off + 1 /\ conn'[c].got = Append(conn[c].got, x[off + 1])
    BY <1>2, <2>2 DEF Connection
  <2>6. Received' /\ Counted'
    BY <1>1, <2>3, <2>4 DEF Received, Counted
  <2>7. Contents \subseteq Contents'
    BY <1>1, <2>3, ContentsStay
  <2>8. \A g \in File : Held(g)' <=> Held(g)
    BY <1>1, <2>3 DEF Held, FileFor
  <2>9. Settled'
    BY <1>4, <2>7, <2>8 DEF Settled, OneName
  <2>10. ASSUME NEW d \in Download PROVE ReadingAt(d)'
    <3>1. CASE d = c
      <4>1. FileFor(c)' = f /\ OneName(f)' = OneName(f)
        BY <2>4 DEF FileFor, OneName
      <4>2. ASSUME OneName(f), f \notin spoilt
            PROVE  conn'[c].got = [i \in 1 .. off + 1 |-> x[i]]
        <5>1. conn[c].got = [i \in 1 .. off |-> x[i]]
          BY <1>1, <4>2 DEF Reading, ReadingAt
        <5> HIDE DEF x, off
        <5> QED  BY <2>1, <2>5, <5>1
      <4>3. off + 1 <= Len(x)
        BY <1>4, <2>1
      <4>4. ReadingAt(c)
        BY <1>1 DEF Reading
      <4>5. /\ conn'[c].header = conn'[c].name
            /\ srv'[conn'[c].srv].pc = "copy" /\ srv'[conn'[c].srv].cur = c
            /\ conn'[c].srv \in lock'[f]
        BY <1>1, <1>4, <2>4, <4>4 DEF ReadingAt
      <4>6. OneName(f) /\ f \notin spoilt' =>
              /\ conn'[c].off <= Len(file'[f])
              /\ conn'[c].got = [i \in 1 .. conn'[c].off |-> file'[f][i]]
        <5> off + 1 <= Len(file'[f]) /\ conn'[c].off = off + 1 /\ file' = file /\ spoilt' = spoilt
          BY <1>4, <2>5, <4>3
        <5> HIDE DEF f, off
        <5> QED  BY <4>2
      <4>7. conn'[c].header # None
        BY <1>1, <2>4
      <4> HIDE DEF f, off
      <4> QED  BY <3>1, <4>1, <4>5, <4>6, <4>7 DEF ReadingAt
    <3>2. CASE d # c
      <4>1. conn'[d] = conn[d]
        BY <2>3, <3>2
      <4>2. conn[d].header # None => conn[d].srv \in lock[FileFor(d)]
        BY DEF Reading, ReadingAt
      <4> HIDE DEF f, off, x
      <4> QED  BY <1>4, <4>1, <4>2, ReadGoesOn
    <3> QED  BY <3>1, <3>2
  <2>11. WholeRead'
    BY <1>1, <1>4, <2>3, <2>4, <2>7, ReadsStayWhole
  <2> QED  BY <2>6, <2>9, <2>10, <2>11 DEF Reading
<1> QED  BY <1>3, <1>4 DEF Copy

LEMMA TakeReads ==
  ASSUME IInv, RInv, NEW s \in Server, NEW c, srv[s].cur = c, Take(s) PROVE RInv'
<1>1. srv[s].pc = "take" /\ c \in Conn /\ conn[c].srv = s /\ conn[c].at = "open"
      /\ (s \in Writer <=> c \in Upload)
  BY AtHand DEF Take
<1>2. CASE Leave(s, c)
  <2>1. \A r \in Server : srv[r].pc = "copy" => srv'[r] = srv[r]
    BY <1>1, <1>2 DEF Leave, Back, IInv, TypeOK
  <2>2. \A d \in Conn : conn[d].sent \in Nat
    BY DEF IInv, TypeOK, Connection
  <2> QED  BY <1>2, <2>1, <2>2, QuietReads DEF Leave
<1>3. CASE Refuse(s, c) \/ Nameless(s, c) \/ RefuseRead(s, c)
  <2>1. conn[c].header = None
    <3>1. CASE s \in Writer
      <4>1. conn[c].read = 0
        <5>1. conn[c].read \in Nat /\ conn[c].read <= conn[c].sent
          BY <1>1 DEF IInv, TypeOK, Connection, RInv, Received
        <5>2. conn[c].read = 0 \/ conn[c].sent = 0
          BY <1>3, <3>1, FileAssumption DEF Refuse, Nameless, RefuseRead, NoHeader
        <5> QED  BY <5>1, <5>2
      <4> QED  BY <1>1, <4>1 DEF IInv, Named
    <3>2. CASE s \notin Writer
      BY <1>1, <3>2 DEF RInv, Reading, ReadingAt, Conn
    <3> QED  BY <3>1, <3>2
  <2> QED  BY <1>1, <1>3, <2>1, CloseReads DEF Refuse, Nameless, RefuseRead
<1>4. CASE Complete(s, c)
  <2>1. conn[c].header # None
    BY <1>1, <1>4 DEF Complete, AtEnd, IInv, Named
  <2>2. c \in Upload
    BY <1>1, <1>4 DEF Complete
  <2>3. Up(c)
    BY <1>1, <2>1, <2>2 DEF IInv, Holding, HoldingAt
  <2> QED  BY <1>1, <1>4, <2>1, <2>2, <2>3, CloseReads DEF Complete
<1> QED  BY <1>1, <1>2, <1>3, <1>4, OpenReads, WriteReads, CrashReads, AcceptReads DEF Take

LEMMA NextReads == IInv /\ RInv /\ [Next]_vars => RInv'
<1> SUFFICES ASSUME IInv, RInv, [Next]_vars PROVE RInv'
  OBVIOUS
<1>1. CASE UNCHANGED vars
  <2>1. \A d \in Conn : conn[d].sent \in Nat
    BY DEF IInv, TypeOK, Connection
  <2> QED  BY <1>1, <2>1, QuietReads DEF vars
<1>2. ASSUME NEW s \in Server, Step(s) PROVE RInv'
  BY <1>2, SelectReads, TakeReads, LockReads, CopyReads DEF Step
<1>3. ASSUME NEW c \in Conn, Connect(c) \/ SendUnit(c) \/ Finish(c) PROVE RInv'
  BY <1>3, ClientReads
<1> QED  BY <1>1, <1>2, <1>3 DEF Next

\* For any number of readers and writers: what an accepted read was sent, piece by piece
\* while others upload, crash and finish, is the file as it was at first or as one finished
\* upload left it (151, 160), unless another process truncated it.
THEOREM WholeReadKept == Spec => []WholeRead
<1>1. RInv => WholeRead
  BY DEF RInv
<1> QED  BY <1>1, ReadsInitially, NextReads, Invariance, PTL DEF Spec
=============================================================================
