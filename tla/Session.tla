------------------------------ MODULE Session ------------------------------
(***************************************************************************)
(* The synchronisation session of csiebox (mp5/src): clients that are      *)
(* logged in push their home directory to the server, then watch it and    *)
(* push every change.  The server is one thread: it selects the readable   *)
(* connections and serves one request of each, and INSIDE a request it     *)
(* blocks on the connection it is serving.                                 *)
(*                                                                         *)
(* A connection is a pair of byte streams.  up[c] and down[c] hold the     *)
(* bytes in flight, one element per send() of the code.  Nothing in the    *)
(* bytes says where a message ends: reader and writer agree on the framing *)
(* only by following the same protocol.                                    *)
(*                                                                         *)
(* Names form one flat directory per account, and a name keeps its type.   *)
(* The account of c is the set Own[c] of names; two clients of the same    *)
(* account have the same set.                                              *)
(***************************************************************************)
EXTENDS Naturals, Sequences

CONSTANTS
  Client,      \* connected and logged-in clients, home directory not empty
  Path,        \* names of files and directories
  Own,         \* Own[c]: the names of the account c is logged in to
  Dir, Lnk,    \* names of directories and of symbolic links; the rest are files
  Inode,       \* inode numbers, of the client's and of the server's disks
  Version,     \* contents of a regular file, targets of a symbolic link
  Blocks,      \* Blocks[v]: the number of full N-byte blocks of v
  Ragged,      \* the versions with a last block of 1 .. N-1 bytes
  Homes,       \* the home directories a client may start from
  Data0,       \* Data0[i]: what the inode i of a client holds at the start
  None,        \* no inode, no version: the digest of a file that is not there
  Junk,        \* bytes that were never received
  Edits,       \* the kinds of change the user makes
  EarlyEdits,  \* whether the user also makes them before the watch is set up
  MaxEdits,    \* bound on the number of those changes
  Faults,      \* the kinds of fault the environment produces
  Fallible     \* the clients it hits, each of them at most once

EditKind == {"create", "write", "touch", "delete", "rmdir", "link"}
FaultKind == {"crash", "lock", "signal"}

ASSUME NamesAssumption ==
  /\ Client # {} /\ Path # {}
  /\ Own \in [Client -> SUBSET Path]
  /\ Dir \subseteq Path /\ Lnk \subseteq Path /\ Dir \cap Lnk = {}
  /\ Homes \subseteq [Path -> Inode \cup {None}]
\* Each account has a home directory of its own.
ASSUME AccountAssumption ==
  \A c, k \in Client : Own[c] = Own[k] \/ Own[c] \cap Own[k] = {}
ASSUME InodeAssumption == Inode \subseteq Nat /\ None \notin Inode
ASSUME DataAssumption ==
  /\ Blocks \in [Version -> Nat] /\ Ragged \subseteq Version
  /\ Data0 \in [Inode -> Version]
  /\ None \notin Version /\ Junk \notin Version
ASSUME BoundsAssumption ==
  /\ Edits \subseteq EditKind /\ EarlyEdits \in BOOLEAN
  /\ MaxEdits \in Nat /\ Faults \subseteq FaultKind /\ Fallible \subseteq Client

VARIABLES
  \* a client process
  phase,    \* "scan": traverse_file; "watch": the event loop; "deaf": the
            \* event loop after the watch of the directory was removed
  todo,     \* names the traversal has not come to
  tab,      \* hl[]: the multiply linked inodes met, with their names
  links,    \* earlier names of the inode being visited, still to be offered
  cur,      \* the name being synchronised and the type lstat gave for it
  cpc,      \* what the client does next
  rd,       \* the inode send_file has open
  buf,      \* the block it read last
  events,   \* the inotify queue
  \* the user's disk
  lent,     \* lent[c][p]: the inode of the name p, or None
  ldat,     \* ldat[c][i]: what the inode i holds
  \* the connections
  up, down, \* bytes in flight, client to server and server to client
  open,     \* whether the client's end is open
  \* the server process
  conns,    \* the connections in masterset
  work,     \* the rest of the connections select returned
  spc,      \* what the server does next
  conn,     \* the connection whose request it serves
  req,      \* the meta request it serves
  path,     \* the name that request is about
  size,     \* datalen of the last file header, "none" before the first
  \* the server's disk
  hent, hdat,
  \* what the environment has done
  edits,
  hurt      \* the clients that have ended, and those a fault has hit

userVars   == <<lent, ldat, edits>>
clientVars == <<phase, todo, tab, links, cur, cpc, rd, buf>>
serverVars == <<conns, work, spc, conn, req, path, size>>
diskVars   == <<hent, hdat>>
vars == <<clientVars, events, userVars, up, down, open, serverVars, diskVars,
          hurt>>

-----------------------------------------------------------------------------
(* Data: blocks of a file, and the messages of csiebox_common.h.           *)

Size == {"full", "part", "zero", "wild"}
PieceOf(v, i) ==
  [ver |-> v, idx |-> i,
   size |-> IF i <= Blocks[v] THEN "full"
            ELSE IF i = Blocks[v] + 1 /\ v \in Ragged THEN "part" ELSE "zero"]
Content(v) ==
  [i \in 1 .. (IF v \in Ragged THEN Blocks[v] + 1 ELSE Blocks[v]) |-> PieceOf(v, i)]
LinkPiece(v) == [ver |-> v, idx |-> 1, size |-> "part"]
JunkPiece(s) == [ver |-> Junk, idx |-> 0, size |-> s]
NoPiece == JunkPiece("zero")
Piece == [ver : Version \cup {None, Junk}, idx : Nat, size : Size]

TypeOf(p) == IF p \in Dir THEN "dir" ELSE IF p \in Lnk THEN "lnk" ELSE "reg"
Type == {"dir", "lnk", "reg", "gone"}

MetaMsg(t, v)  == [kind |-> "meta", type |-> t, ver |-> v]
PathMsg(p)     == [kind |-> "path", path |-> p]
FileMsg(s)     == [kind |-> "file", size |-> s]
DataMsg(x)     == [kind |-> "data", piece |-> x]
NamesMsg(s, t) == [kind |-> "names", src |-> s, tgt |-> t]
HlMsg == [kind |-> "hl"]
RmMsg == [kind |-> "rm"]
Up == [kind : {"meta"}, type : Type, ver : Version \cup {None}]
        \cup [kind : {"path"}, path : Path]
        \cup [kind : {"file"}, size : Size]
        \cup [kind : {"data"}, piece : Piece]
        \cup [kind : {"names"}, src : Path, tgt : Path]
        \cup [kind : {"hl", "rm"}]

\* The request header sent back, and the answer of a handler.
Echo(s) == [role |-> "echo", status |-> s]
Res(s)  == [role |-> "res", status |-> s]
Down    == [role : {"echo", "res"}, status : {"OK", "MORE"}]

Waiting == {"hlEcho", "metaEcho", "metaRes", "rmEcho"}
ClientPC == Waiting \cup {"idle", "visit", "file", "data", "down"}
ServerPC == {"select", "path", "lock", "file", "data", "names", "rmPath",
             "spin", "dead"}

\* The inode number a new file gets: the least one not in use.
IsNext(i, used) ==
  i \notin used /\ \A j \in Inode : j \notin used => i <= j
Used(f) == {f[x] : x \in DOMAIN f}
AnyPath == CHOOSE p \in Path : TRUE

-----------------------------------------------------------------------------
ClientOK ==
  /\ phase \in [Client -> {"scan", "watch", "deaf"}]
  /\ todo \in [Client -> SUBSET Path]
  /\ tab \in [Client -> SUBSET (Inode \X Path)]
  /\ links \in [Client -> SUBSET Path]
  /\ cur \in [Client -> [path : Path, type : Type]]
  /\ cpc \in [Client -> ClientPC]
  /\ rd \in [Client -> Inode \cup {None}]
  /\ \A c \in Client : cpc[c] \in {"file", "data"} => rd[c] # None
  /\ buf \in [Client -> Piece]
  /\ events \in [Client -> Seq([kind : EditKind, path : Path])]
UserOK ==
  /\ lent \in [Client -> [Path -> Inode \cup {None}]]
  /\ ldat \in [Client -> [Inode -> Version]]
  /\ edits \in Nat
WireOK ==
  /\ up \in [Client -> Seq(Up)]
  /\ down \in [Client -> Seq(Down)]
  /\ open \in [Client -> BOOLEAN]
  /\ hurt \subseteq Client
ServerOK ==
  /\ conns \subseteq Client /\ work \subseteq Client
  /\ spc \in ServerPC
  /\ conn \in Client
  /\ req \in [kind : {"meta"}, type : Type, ver : Version \cup {None}]
  /\ path \in Path
  /\ size \in Size \cup {"none"}
  /\ spc = "data" => size \in Size
StoreOK ==
  /\ hent \in [Path -> Inode \cup {None}]
  /\ hdat \in [Inode -> Seq(Piece)]
\* Every variable has the type its code has.
TypeOK == ClientOK /\ UserOK /\ WireOK /\ ServerOK /\ StoreOK

Init ==
  /\ lent \in [Client -> Homes]
  /\ \A c \in Client : /\ \A p \in Path \ Own[c] : lent[c][p] = None
                       /\ \E p \in Path : lent[c][p] # None
  /\ ldat = [c \in Client |-> Data0]
  /\ phase = [c \in Client |-> "scan"]
  /\ todo = [c \in Client |-> {p \in Path : lent[c][p] # None}]
  /\ tab = [c \in Client |-> {}]
  /\ links = [c \in Client |-> {}]
  /\ cur = [c \in Client |-> [path |-> AnyPath, type |-> "gone"]]
  /\ cpc = [c \in Client |-> "idle"]
  /\ rd = [c \in Client |-> None]
  /\ buf = [c \in Client |-> NoPiece]
  /\ events = [c \in Client |-> <<>>]
  /\ up = [c \in Client |-> <<>>]
  /\ down = [c \in Client |-> <<>>]
  /\ open = [c \in Client |-> TRUE]
  /\ conns = Client /\ work = {} /\ spc = "select"
  /\ conn = (CHOOSE c \in Client : TRUE)
  /\ req = MetaMsg("gone", None) /\ path = AnyPath
  /\ size = "none"
  /\ hent = [p \in Path |-> None] /\ hdat = [i \in Inode |-> <<>>]
  /\ edits = 0 /\ hurt = {}

Fault(c, k) == /\ k \in Faults /\ c \in Fallible \ hurt
               /\ hurt' = hurt \cup {c}

-----------------------------------------------------------------------------
(* The user: changes of the home directory, and what the client is told.   *)

\* The inotify queue.  An event equal to the last one that is still queued is
\* merged with it; the client may already have read that one into its buffer.
Notify(c, e) ==
  \/ events' = [events EXCEPT ![c] = Append(@, e)]
  \/ /\ events[c] # <<>> /\ events[c][Len(events[c])] = e
     /\ UNCHANGED events

\* Before the watch is set up a change leaves no event; readdir may or may not
\* return an entry that appears or disappears while it runs.
Report(c, k, p) ==
  \/ phase[c] = "watch" /\ Notify(c, [kind |-> k, path |-> p]) /\ UNCHANGED todo
  \/ phase[c] = "deaf" /\ UNCHANGED <<events, todo>>
  \/ /\ phase[c] = "scan" /\ UNCHANGED events
     /\ \/ UNCHANGED todo
        \/ k \in {"create", "link"} /\ todo' = [todo EXCEPT ![c] = @ \cup {p}]
        \/ k = "delete" /\ todo' = [todo EXCEPT ![c] = @ \ {p}]

Edit(c, k, e, p) ==
  /\ k \in Edits /\ p \in Own[c] /\ open[c] /\ edits < MaxEdits /\ edits' = edits + 1
  /\ phase[c] = "scan" => EarlyEdits
  /\ Report(c, e, p)
  /\ UNCHANGED <<phase, tab, links, cur, cpc, rd, buf, up, down, open,
                 serverVars, diskVars, hurt>>

\* A new file is empty until it is written; a link has its target at once.
Create(c, p, i, v) ==
  /\ Edit(c, "create", "create", p)
  /\ lent[c][p] = None /\ IsNext(i, Used(lent[c]) \cup {rd[c]})
  /\ TypeOf(p) # "lnk" => Content(v) = <<>>
  /\ lent' = [lent EXCEPT ![c][p] = i] /\ ldat' = [ldat EXCEPT ![c][i] = v]

Write(c, p, v) ==
  /\ Edit(c, "write", "write", p)
  /\ lent[c][p] # None /\ TypeOf(p) = "reg" /\ ldat[c][lent[c][p]] # v
  /\ ldat' = [ldat EXCEPT ![c][lent[c][p]] = v] /\ UNCHANGED lent

\* chmod, chown, utime: IN_ATTRIB.
Touch(c, p) ==
  /\ Edit(c, "touch", "touch", p)
  /\ lent[c][p] # None /\ UNCHANGED <<lent, ldat>>

Delete(c, p) ==
  /\ Edit(c, IF p \in Dir THEN "rmdir" ELSE "delete", "delete", p)
  /\ lent[c][p] # None
  /\ lent' = [lent EXCEPT ![c][p] = None] /\ UNCHANGED ldat

\* A second name for a file; the event is an IN_CREATE of that name.
Link(c, p, q) ==
  /\ Edit(c, "link", "link", q)
  /\ TypeOf(p) = "reg" /\ TypeOf(q) = "reg"
  /\ lent[c][p] # None /\ lent[c][q] = None
  /\ lent' = [lent EXCEPT ![c][q] = lent[c][p]] /\ UNCHANGED ldat

User(c) == \/ \E p \in Path, i \in Inode, v \in Version : Create(c, p, i, v)
           \/ \E p \in Path, v \in Version : Write(c, p, v)
           \/ \E p \in Path : Touch(c, p) \/ Delete(c, p)
           \/ \E p, q \in Path : Link(c, p, q)

-----------------------------------------------------------------------------
(* The client.                                                             *)

Goto(c, pc) == cpc' = [cpc EXCEPT ![c] = pc]
Close(c) == /\ open' = [open EXCEPT ![c] = FALSE] /\ hurt' = hurt \cup {c}
            /\ Goto(c, "down")
SendUp(c, m) == up' = [up EXCEPT ![c] = Append(@, m)]
\* What lstat says of p.
Stat(c, p) == IF lent[c][p] = None THEN "gone" ELSE TypeOf(p)
\* recv of a header by the client: it takes the next bytes, whatever they are.
RecvDown(c) ==
  /\ down[c] # <<>> /\ down' = [down EXCEPT ![c] = Tail(@)]

\* The names of inode i met before, and a mistaken search that finds none.
NoNames(c, i) == {}
EarlierNames(c, i) == {q \in Path : <<i, q>> \in tab[c]}

\* One entry of the traversal: lstat, and for a multiply linked file the search
\* of hl[] for earlier names.  The loop over hl[] has no break, so the file is
\* entered in hl[] and synchronised also when a name was found.
Visit(c) ==
  /\ phase[c] = "scan" /\ cpc[c] = "idle"
  /\ \E p \in todo[c] :
       LET i == lent[c][p]
           shared == TypeOf(p) # "dir" /\ \E q \in Path \ {p} : lent[c][q] = i
       IN IF i = None
          THEN /\ todo' = [todo EXCEPT ![c] = {}]
               /\ UNCHANGED <<tab, links, cur, cpc>>
          ELSE /\ todo' = [todo EXCEPT ![c] = @ \ {p}]
               /\ cur' = [cur EXCEPT ![c] = [path |-> p, type |-> TypeOf(p)]]
               /\ links' = [links EXCEPT ![c] =
                              IF shared THEN EarlierNames(c, i) ELSE {}]
               /\ tab' = [tab EXCEPT ![c] =
                            IF shared THEN @ \cup {<<i, p>>} ELSE @]
               /\ Goto(c, "visit")
  /\ UNCHANGED <<phase, rd, buf, events, userVars, up, down, open, serverVars,
                 diskVars, hurt>>

StartWatch(c) ==
  /\ phase[c] = "scan" /\ cpc[c] = "idle" /\ todo[c] = {}
  /\ phase' = [phase EXCEPT ![c] = "watch"]
  /\ UNCHANGED <<todo, tab, links, cur, cpc, rd, buf, events, userVars, up,
                 down, open, serverVars, diskVars, hurt>>

\* send_hardlink: the request, then after the echo both names and the stat.
SendLink(c) ==
  /\ cpc[c] = "visit" /\ links[c] # {}
  /\ SendUp(c, HlMsg) /\ Goto(c, "hlEcho")
  /\ UNCHANGED <<phase, todo, tab, links, cur, rd, buf, events, userVars, down,
                 open, serverVars, diskVars, hurt>>

RecvLinkEcho(c) ==
  /\ cpc[c] = "hlEcho" /\ RecvDown(c)
  /\ \E q \in links[c] :
       /\ SendUp(c, NamesMsg(q, cur[c].path))
       /\ links' = [links EXCEPT ![c] = @ \ {q}]
  /\ Goto(c, "visit")
  /\ UNCHANGED <<phase, todo, tab, cur, rd, buf, events, userVars, open,
                 serverVars, diskVars, hurt>>

\* sync_file / send_meta: the type lstat gave and the digest of what is there
\* now.  readlink of a link that is gone gives -1, and md5 of -1 bytes is the
\* end of the process; a file that is gone has the digest of zeros.
SendMeta(c) ==
  /\ cpc[c] = "visit" /\ links[c] = {}
  /\ LET i == lent[c][cur[c].path]
         t == cur[c].type
     IN IF t = "lnk" /\ i = None THEN Close(c) /\ UNCHANGED up
        ELSE /\ SendUp(c, MetaMsg(t, IF t \in {"dir", "gone"} \/ i = None
                                     THEN None ELSE ldat[c][i]))
             /\ Goto(c, "metaEcho") /\ UNCHANGED <<open, hurt>>
  /\ UNCHANGED <<phase, todo, tab, links, cur, rd, buf, events, userVars, down,
                 serverVars, diskVars>>

RecvMetaEcho(c) ==
  /\ cpc[c] = "metaEcho" /\ RecvDown(c)
  /\ SendUp(c, PathMsg(cur[c].path)) /\ Goto(c, "metaRes")
  /\ UNCHANGED <<phase, todo, tab, links, cur, rd, buf, events, userVars, open,
                 serverVars, diskVars, hurt>>

\* The answer to a meta request.  On MORE send_file opens the file again, by
\* name; fopen of a file that is gone gives NULL and fileno(NULL) is the end.
\* readlink of a link that is gone gives -1, which is sent as the length.
OpenAgain(c, i) ==
  \/ /\ i # None
     /\ rd' = [rd EXCEPT ![c] = i] /\ buf' = [buf EXCEPT ![c] = NoPiece]
     /\ Goto(c, "file") /\ UNCHANGED <<up, open, hurt>>
  \/ /\ i = None /\ cur[c].type = "reg"
     /\ Close(c) /\ UNCHANGED <<rd, buf, up>>
  \/ /\ i = None /\ cur[c].type = "lnk" /\ hurt' = hurt \cup {c}
     /\ SendUp(c, FileMsg("wild")) /\ Goto(c, "idle") /\ UNCHANGED <<rd, buf, open>>

RecvMetaRes(c) ==
  /\ cpc[c] = "metaRes" /\ RecvDown(c)
  /\ IF Head(down[c]).status = "MORE" /\ cur[c].type \in {"reg", "lnk"}
     THEN OpenAgain(c, lent[c][cur[c].path])
     ELSE Goto(c, "idle") /\ UNCHANGED <<rd, buf, up, open, hurt>>
  /\ UNCHANGED <<phase, todo, tab, links, cur, events, userVars, serverVars,
                 diskVars>>

\* The next block of the open file and its header; the target of a link is one
\* short block.
ReadBlock(c) ==
  LET v == ldat[c][rd[c]] IN
  IF cur[c].type = "lnk" THEN LinkPiece(v)
  ELSE PieceOf(v, buf[c].idx + 1)
SendFileHeader(c) ==
  /\ cpc[c] = "file"
  /\ LET x == ReadBlock(c) IN
       /\ SendUp(c, FileMsg(x.size)) /\ buf' = [buf EXCEPT ![c] = x]
       /\ IF x.size = "zero"   \* send_message sends nothing of length 0
          THEN Goto(c, "idle") /\ rd' = [rd EXCEPT ![c] = None]
          ELSE Goto(c, "data") /\ UNCHANGED rd
  /\ UNCHANGED <<phase, todo, tab, links, cur, events, userVars, down, open,
                 serverVars, diskVars, hurt>>

SendFileData(c) ==
  /\ cpc[c] = "data"
  /\ SendUp(c, DataMsg(buf[c]))
  /\ IF buf[c].size = "full" THEN Goto(c, "file") /\ UNCHANGED rd
     ELSE Goto(c, "idle") /\ rd' = [rd EXCEPT ![c] = None]
  /\ UNCHANGED <<phase, todo, tab, links, cur, buf, events, userVars, down, open,
                 serverVars, diskVars, hurt>>

\* The event loop, IN_CREATE, IN_ATTRIB and IN_MODIFY: lstat and sync_file.
SyncEvent(c) ==
  /\ phase[c] # "scan" /\ cpc[c] = "idle"
  /\ events[c] # <<>> /\ Head(events[c]).kind # "delete"
  /\ events' = [events EXCEPT ![c] = Tail(@)]
  /\ LET p == Head(events[c]).path
     IN cur' = [cur EXCEPT ![c] = [path |-> p, type |-> Stat(c, p)]]
  /\ Goto(c, "visit")
  /\ UNCHANGED <<phase, todo, tab, links, rd, buf, userVars, up, down, open,
                 serverVars, diskVars, hurt>>

\* IN_DELETE: the rm request.
DeleteEvent(c) ==
  /\ phase[c] # "scan" /\ cpc[c] = "idle"
  /\ events[c] # <<>> /\ Head(events[c]).kind = "delete"
  /\ events' = [events EXCEPT ![c] = Tail(@)]
  /\ cur' = [cur EXCEPT ![c] = [path |-> Head(events[c]).path, type |-> "gone"]]
  /\ SendUp(c, RmMsg) /\ Goto(c, "rmEcho")
  /\ UNCHANGED <<phase, todo, tab, links, rd, buf, userVars, down, open,
                 serverVars, diskVars, hurt>>

\* The watch the event came from is removed if the name was a directory: it is the
\* watch of the directory the name was in.
AfterRm(c) == IF cur[c].path \in Dir THEN "deaf" ELSE phase[c]
RecvRmEcho(c) ==
  /\ cpc[c] = "rmEcho" /\ RecvDown(c)
  /\ SendUp(c, PathMsg(cur[c].path)) /\ Goto(c, "idle")
  /\ phase' = [phase EXCEPT ![c] = AfterRm(c)]
  /\ UNCHANGED <<todo, tab, links, cur, rd, buf, events, userVars, open,
                 serverVars, diskVars, hurt>>

ClientStep(c) ==
  \/ Visit(c) \/ StartWatch(c) \/ SendLink(c) \/ RecvLinkEcho(c)
  \/ SendMeta(c) \/ RecvMetaEcho(c) \/ RecvMetaRes(c)
  \/ SendFileHeader(c) \/ SendFileData(c)
  \/ SyncEvent(c) \/ DeleteEvent(c) \/ RecvRmEcho(c)

\* The client process is killed; what it has sent stays readable.
Crash(c) ==
  /\ open[c] /\ Fault(c, "crash")
  /\ open' = [open EXCEPT ![c] = FALSE] /\ Goto(c, "down")
  /\ UNCHANGED <<phase, todo, tab, links, cur, rd, buf, events, userVars, up,
                 down, serverVars, diskVars>>

-----------------------------------------------------------------------------
(* The server.                                                             *)

\* The server's send: to a peer that has closed it may be the end (SIGPIPE).
Answer(c, m, pc) ==
  \/ down' = [down EXCEPT ![c] = Append(@, m)] /\ spc' = pc
  \/ ~open[c] /\ spc' = "dead" /\ UNCHANGED down
\* The message recv is waiting for, and the end of the stream instead of it.
Recv(c, kind) ==
  /\ up[c] # <<>> /\ Head(up[c]).kind = kind
  /\ up' = [up EXCEPT ![c] = Tail(@)]
Eof(c) == up[c] = <<>> /\ ~open[c]

\* The readable connections; a mistaken Ready leaves out the one served last, as
\* the commented-out test of thread_info[j].complete would.
ReadyOthers == {c \in conns \ {conn} : up[c] # <<>> \/ ~open[c]}
Ready == {c \in conns : up[c] # <<>> \/ ~open[c]}

\* After five seconds select returns an empty set.
Select ==
  /\ spc = "select" /\ work = {} /\ work' = Ready
  /\ UNCHANGED <<clientVars, events, userVars, up, down, open, conns, spc, conn,
                 req, path, size, diskVars, hurt>>

\* The message kinds the server's next recv on c makes sense of.
ServerWants(c) ==
  IF spc = "select" \/ c # conn THEN {"meta", "hl", "rm"}
  ELSE CASE spc \in {"path", "rmPath"} -> {"path"}
         [] spc = "names" -> {"names"}
         [] spc = "file"  -> {"file"}
         [] spc = "data"  -> {"data"}
         [] OTHER         -> {}

\* The head of handle_request: the request header is sent back before anything
\* is done, with the status the client put into it.
Serve(c, kind, status, pc) ==
  /\ spc = "select" /\ c \in work /\ work' = work \ {c}
  /\ Recv(c, kind) /\ conn' = c /\ Answer(c, Echo(status), pc)
  /\ UNCHANGED <<clientVars, events, userVars, open, conns, path, size, diskVars,
                 hurt>>
ServeMeta(c) == Serve(c, "meta", "MORE", "path") /\ req' = Head(up[c])
ServeLinkAsMeta(c) == Serve(c, "hl", "OK", "names") /\ req' = Head(up[c])  \* a mistake
ServeLink(c) == Serve(c, "hl", "OK", "names") /\ UNCHANGED req
ServeRm(c)   == Serve(c, "rm", "OK", "rmPath") /\ UNCHANGED req

Logout(c) ==
  /\ spc = "select" /\ c \in work /\ Eof(c)
  /\ work' = work \ {c} /\ conns' = conns \ {c}
  /\ UNCHANGED <<clientVars, events, userVars, up, down, open, spc, conn, req,
                 path, size, diskVars, hurt>>

\* md5_file or readlink of p gives the digest in the meta request; a file that
\* is not there has the digest of zeros.  Mistakes would be to compare lengths, or
\* to take a file that cannot be opened for an equal one.
SameLength(p) ==
  IF req.ver = None THEN hent[p] = None
  ELSE hent[p] # None /\ Len(hdat[hent[p]]) = Len(Content(req.ver))
MissingIsSame(p) ==
  IF hent[p] = None THEN TRUE
  ELSE req.ver # None /\ hdat[hent[p]] = Content(req.ver)
SameDigest(p) ==
  IF req.ver = None THEN hent[p] = None
  ELSE /\ hent[p] # None
       /\ hdat[hent[p]] = IF req.type = "lnk" THEN <<LinkPiece(req.ver)>>
                          ELSE Content(req.ver)

NewEntry(p, data) ==
  \E i \in Inode : /\ IsNext(i, Used(hent))
                   /\ hent' = [hent EXCEPT ![p] = i]
                   /\ hdat' = [hdat EXCEPT ![i] = data]

\* A file that differs is opened with "w": it is created or emptied before the
\* first block is there.  A mistaken mode "a" keeps what it held.
OpenToAppend(p) == IF hent[p] = None THEN NewEntry(p, <<>>)
                   ELSE UNCHANGED diskVars
OpenToWrite(p) == IF hent[p] = None THEN NewEntry(p, <<>>)
                  ELSE hdat' = [hdat EXCEPT ![hent[p]] = <<>>] /\ UNCHANGED hent

\* The rest of a meta request up to its answer.
RecvPath ==
  /\ spc = "path" /\ Recv(conn, "path")
  /\ LET p == Head(up[conn]).path IN
       /\ path' = p
       /\ \/ /\ req.type = "dir" /\ Answer(conn, Res("OK"), "select")
             /\ IF hent[p] = None THEN NewEntry(p, <<>>) ELSE UNCHANGED diskVars
          \/ /\ req.type = "gone" \/ (req.type \in {"reg", "lnk"} /\ SameDigest(p))
             /\ Answer(conn, Res("OK"), "select") /\ UNCHANGED diskVars
          \/ /\ req.type = "lnk" /\ ~SameDigest(p)
             /\ Answer(conn, Res("MORE"), "file") /\ UNCHANGED diskVars
          \/ /\ req.type = "reg" /\ ~SameDigest(p)
             /\ OpenToWrite(p) /\ spc' = "lock" /\ UNCHANGED down
  /\ size' = "none"
  /\ UNCHANGED <<clientVars, events, userVars, open, conns, work, conn, req,
                 hurt>>

\* The lock loop.  A lock of another process should give BLOCK, but line 445
\* compares instead of assigning: the answer is MORE each time round.
LockFile ==
  /\ spc = "lock" /\ Answer(conn, Res("MORE"), "file")
  /\ UNCHANGED <<clientVars, events, userVars, up, open, conns, work, conn, req,
                 path, size, diskVars, hurt>>
LockHeld ==
  /\ spc = "lock" /\ Fault(conn, "lock")
  /\ Answer(conn, Res("MORE"), "lock")
  /\ UNCHANGED <<clientVars, events, userVars, up, open, conns, work, conn, req,
                 path, size, diskVars>>

RecvFileHeader ==
  /\ spc = "file" /\ Recv(conn, "file")
  /\ size' = Head(up[conn]).size
  /\ spc' = CASE size' = "zero" -> "select"
             [] size' = "wild" -> "dead"   \* recv of 2^64 - 1 bytes into buf[N]
             [] OTHER          -> "data"
  /\ UNCHANGED <<clientVars, events, userVars, down, open, conns, work, conn, req,
                 path, diskVars, hurt>>

\* fwrite of a block, or symlink, which does not replace a link that exists.
\* buf is not terminated: the target may run on into older bytes of the stack.
Overwrite(x) ==   \* a mistake: from the beginning again
  /\ hdat' = [hdat EXCEPT ![hent[path]] = <<x>>] /\ UNCHANGED hent
WriteFile(x) ==
  /\ hdat' = [hdat EXCEPT ![hent[path]] = Append(@, x)] /\ UNCHANGED hent
MakeLink(x) ==
  IF hent[path] # None THEN UNCHANGED diskVars
  ELSE NewEntry(path, <<x>>) \/ NewEntry(path, <<JunkPiece("part")>>)
AfterFirstBlock == "select"   \* a mistake: one block is the whole file
AfterData == IF req.type = "reg" /\ size = "full" THEN "file" ELSE "select"

RecvData ==
  /\ spc = "data" /\ Recv(conn, "data")
  /\ LET x == Head(up[conn]).piece
     IN IF req.type = "lnk" THEN MakeLink(x) ELSE WriteFile(x)
  /\ spc' = AfterData
  /\ UNCHANGED <<clientVars, events, userVars, down, open, conns, work, conn, req,
                 path, size, hurt>>

RecvNames ==
  /\ spc = "names" /\ Recv(conn, "names")
  /\ LET m == Head(up[conn]) IN
       hent' = IF hent[m.src] # None /\ hent[m.tgt] = None
               THEN [hent EXCEPT ![m.tgt] = hent[m.src]] ELSE hent
  /\ spc' = "select"
  /\ UNCHANGED <<clientVars, events, userVars, down, open, conns, work, conn, req,
                 path, size, hdat, hurt>>

RecvRmPath ==
  /\ spc = "rmPath" /\ Recv(conn, "path")
  /\ hent' = [hent EXCEPT ![Head(up[conn]).path] = None]
  /\ spc' = "select"
  /\ UNCHANGED <<clientVars, events, userVars, down, open, conns, work, conn, req,
                 path, size, hdat, hurt>>

-----------------------------------------------------------------------------
(* The end of a stream inside a request.  recv_message is 0 or 1, never     *)
(* negative, so none of the error tests of handle_request ever fires.       *)

\* An empty path names the home directory: md5_file reads a directory, takes
\* read's -1 for a length and the process ends; the other types only answer.
EofPath ==
  /\ spc = "path" /\ Eof(conn)
  /\ IF req.type = "reg" THEN spc' = "dead" /\ UNCHANGED down
     ELSE Answer(conn, Res("OK"), "select")
  /\ UNCHANGED <<clientVars, events, userVars, up, open, conns, work, conn, req,
                 path, size, diskVars, hurt>>

\* The old header is used again: after a full block the loop never ends.  A
\* link is made from whatever is in buf, or not at all.
EofFileHeader ==
  /\ spc = "file" /\ Eof(conn)
  /\ spc' = IF size = "full" THEN "spin" ELSE "select"
  /\ UNCHANGED diskVars \/ (req.type = "lnk" /\ MakeLink(JunkPiece("part")))
  /\ UNCHANGED <<clientVars, events, userVars, up, down, open, conns, work, conn,
                 req, path, size, hurt>>

\* A data block that is cut short, at the end of the stream or by SIGUSR1 (a
\* recv with MSG_WAITALL that has some of its bytes returns them when a handler
\* has run).  recv_message tells that by 0 and nobody looks: datalen bytes of buf
\* are written, and after a signal the rest of the block is still to come.
ShortData ==
  /\ spc = "data"
  /\ \/ Eof(conn) /\ UNCHANGED hurt
     \/ up[conn] # <<>> /\ Head(up[conn]).kind = "data" /\ Fault(conn, "signal")
  /\ IF req.type = "lnk" THEN MakeLink(JunkPiece("part"))
     ELSE WriteFile(JunkPiece(size))
  /\ spc' = AfterData
  /\ UNCHANGED <<clientVars, events, userVars, up, down, open, conns, work, conn,
                 req, path, size>>

\* link and remove of the home directory itself fail.
EofNames ==
  /\ spc \in {"names", "rmPath"} /\ Eof(conn) /\ spc' = "select"
  /\ UNCHANGED <<clientVars, events, userVars, up, down, open, conns, work, conn,
                 req, path, size, diskVars, hurt>>

\* Bytes that are not what the server reads next.  A header with another magic
\* is the end of the main thread (pthread_exit); a datalen taken from file data
\* overruns buf or waits for bytes that never come.
Garbage(c) ==
  /\ up[c] # <<>> /\ Head(up[c]).kind \notin ServerWants(c)
  /\ \/ spc = "select" /\ c \in work
     \/ spc \in {"path", "file", "data", "names", "rmPath"} /\ c = conn
  /\ spc' = "dead" /\ conn' = c
  /\ UNCHANGED <<clientVars, events, userVars, up, down, open, conns, work, req,
                 path, size, diskVars, hurt>>

ServerStep ==
  \/ Select
  \/ \E c \in Client : ServeMeta(c) \/ ServeLink(c) \/ ServeRm(c) \/ Logout(c)
                       \/ Garbage(c)
  \/ RecvPath \/ LockFile \/ LockHeld \/ RecvFileHeader \/ RecvData
  \/ RecvNames \/ RecvRmPath
  \/ EofPath \/ EofFileHeader \/ ShortData \/ EofNames

-----------------------------------------------------------------------------
\* A client with nothing to do, and a session in which nothing is left to do.
Idle(c) == /\ cpc[c] = "idle" /\ phase[c] # "scan"
           /\ events[c] = <<>> /\ up[c] = <<>>
Quiet == /\ \A c \in Client : Idle(c) \/ (cpc[c] = "down" /\ c \notin conns)
         /\ spc = "select" /\ work = {}

Next == \/ \E c \in Client : ClientStep(c) \/ User(c) \/ Crash(c)
        \/ ServerStep

Spec == Init /\ [][Next]_vars

\* The scheduler runs the server and every client that can run.
FairSpec == Spec /\ WF_vars(ServerStep)
                 /\ \A c \in Client : WF_vars(ClientStep(c))
-----------------------------------------------------------------------------
(* Properties.                                                             *)

ClientWants(c) == IF cpc[c] = "metaRes" THEN "res" ELSE "echo"

\* The streams stay in step although nothing in them marks a message: what a
\* recv of handle_request, send_meta, sync_file or send_hardlink finds at the
\* head of its stream is the message it was written for, and no answer is ever
\* left over for a later recv; a block has the length its header announced, so the
\* server stops at the short block, where the client starts its next request.  A
\* fault that hits one client never brings the stream of another out of step.
Framing ==
  \A c \in Client \ hurt :
    /\ up[c] # <<>> => Head(up[c]).kind \in ServerWants(c)
    /\ up[c] # <<>> /\ c = conn /\ spc = "data" => Head(up[c]).piece.size = size
    /\ down[c] # <<>> => cpc[c] \in Waiting /\ Head(down[c]).role = ClientWants(c)

\* The blocks of a file in the order of the file, of which only the last is short.
Whole(d) == \A k \in 1 .. Len(d) :
              d[k].idx = k /\ d[k].ver # Junk /\ (k < Len(d) => d[k].size = "full")
\* No client of the account of c has ended or been hit by a fault.
Sound(c) == \A k \in Client : Own[k] = Own[c] => k \notin hurt
\* A file of the server that is not being received is in one piece, also when
\* several clients of one account push the same name at once: no block is lost,
\* repeated or mixed into another transfer (csiebox_server.c 440-468).  A fault
\* damages files of the account of the client it hits, and no others.
WholeFiles ==
  \A c \in Client : Sound(c) => \A p \in Own[c] :
    (TypeOf(p) = "reg" /\ hent[p] # None
      /\ ~(spc \in {"lock", "file", "data"} /\ hent[path] = hent[p]))
    => Whole(hdat[hent[p]])

\* When everything has been handled the server has the names and the contents
\* of every client's directory.
Mirror ==
  Quiet => \A c \in Client \ hurt : \A p \in Own[c] :
    /\ lent[c][p] = None <=> hent[p] = None
    /\ (lent[c][p] # None /\ TypeOf(p) # "dir") =>
         LET v == ldat[c][lent[c][p]] IN
         hdat[hent[p]] = IF TypeOf(p) = "lnk" THEN <<LinkPiece(v)>> ELSE Content(v)

\* ... and two names are one file there exactly if they are one file here.
LinksKept ==
  Quiet => \A c \in Client \ hurt : \A p, q \in Own[c] :
    (lent[c][p] # None /\ lent[c][q] # None) =>
      (lent[c][p] = lent[c][q] <=> hent[p] = hent[q])

\* When clients share an account, what the server has under a name is what one
\* of them has under that name, unless one of them has ended or a fault has hit it:
\* of the file of a client that ends in a transfer the server keeps what it received.
SomeonesCopy ==
  Quiet => \A p \in Path :
    (hent[p] # None /\ TypeOf(p) = "reg" /\ \A c \in Client : p \in Own[c] => c \notin hurt) =>
    \E c \in Client : /\ p \in Own[c] /\ lent[c][p] # None
                      /\ hdat[hent[p]] = Content(ldat[c][lent[c][p]])

\* A client that waits in recv is answered, whatever the other clients do.
Answered ==
  \A c \in Client : (cpc[c] \in Waiting) ~> (cpc[c] \notin Waiting \/ c \in hurt)

\* Once the user stops, every change is handled.
Settles == <>[]Quiet
-----------------------------------------------------------------------------
(* Why the streams stay in step: what is in flight always leads from where  *)
(* the server is to where the client is.                                    *)

Request == {"meta", "hl", "rm"}
LastOf(w) == w[Len(w)]
\* n may come after m in one stream without an answer in between.
Follows(m, n) ==
  \/ m.kind \in {"path", "names"} /\ n.kind \in Request
  \/ m.kind = "file" /\ m.size = "zero" /\ n.kind \in Request
  \/ m.kind = "file" /\ m.size # "zero" /\ n.kind = "data" /\ n.piece.size = m.size
  \/ m.kind = "data" /\ m.piece.size = "full" /\ n.kind = "file" /\ n.size # "wild"
  \/ m.kind = "data" /\ m.piece.size = "part" /\ n.kind \in Request
Chain(w) == \A i \in 1 .. Len(w) : i < Len(w) => Follows(w[i], w[i + 1])

\* A server at "at", in a request of type rt with the last datalen sz, can read m
\* from a client at pc.
Reads(at, rt, sz, pc, m) ==
  \/ at = "select" /\ m.kind \in Request
  \/ at = "path" /\ m.kind = "path" /\ pc = "metaRes"
  \/ at = "rmPath" /\ m.kind = "path"
  \/ at = "names" /\ m.kind = "names"
  \/ at = "file" /\ m.kind = "file" /\ m.size # "wild" /\ (rt = "lnk" => m.size # "full")
  \/ at = "data" /\ m.kind = "data" /\ m.piece.size = sz
ServerState(at, rt, sz) ==
  /\ at \notin {"spin", "dead"}
  /\ at \in {"lock", "file", "data"} => rt \in {"reg", "lnk"}
  /\ at = "data" => sz \in {"full", "part"} /\ (rt = "lnk" => sz = "part")

\* The one answer under way.
Single(dn, role) == dn # <<>> /\ Tail(dn) = <<>> /\ Head(dn).role = role
\* A client at pc, in a request of type t and with a block of size bs read, has
\* sent w, of which the server at "at" has read the rest.
Sent(at, rt, sz, w, dn, pc, t, bs) ==
  \/ /\ pc \in {"idle", "visit"} /\ dn = <<>>
     /\ \/ w = <<>> /\ at = "select"
        \/ /\ w # <<>>
           /\ LET m == LastOf(w) IN
                \/ m.kind = "names" \/ (m.kind = "path" /\ at = "rmPath")
                \/ m.kind = "file" /\ m.size = "zero"
                \/ m.kind = "data" /\ m.piece.size = "part"
  \/ /\ pc = "metaEcho"
     /\ \/ w = <<>> /\ at = "path" /\ rt = t /\ Single(dn, "echo")
        \/ w # <<>> /\ LastOf(w).kind = "meta" /\ LastOf(w).type = t /\ dn = <<>>
  \/ /\ pc = "metaRes"
     /\ \/ w # <<>> /\ Tail(w) = <<>> /\ at = "path" /\ rt = t /\ dn = <<>>
        \/ w = <<>> /\ at = "lock" /\ rt = t /\ dn = <<>>
        \/ w = <<>> /\ at = "file" /\ rt = t /\ Single(dn, "res") /\ Head(dn).status = "MORE"
        \/ w = <<>> /\ at = "select" /\ Single(dn, "res") /\ Head(dn).status = "OK"
  \/ /\ pc = "hlEcho"
     /\ \/ w = <<>> /\ at = "names" /\ Single(dn, "echo")
        \/ w # <<>> /\ LastOf(w).kind = "hl" /\ dn = <<>>
  \/ /\ pc = "rmEcho"
     /\ \/ w = <<>> /\ at = "rmPath" /\ Single(dn, "echo")
        \/ w # <<>> /\ LastOf(w).kind = "rm" /\ dn = <<>>
  \/ /\ pc = "file" /\ dn = <<>>
     /\ \/ w = <<>> /\ at = "file" /\ (rt = "lnk" => t = "lnk")
        \/ w # <<>> /\ LastOf(w).kind = "data" /\ LastOf(w).piece.size = "full"
  \/ /\ pc = "data" /\ dn = <<>> /\ bs \in {"full", "part"}
     /\ \/ w = <<>> /\ at = "data" /\ sz = bs
        \/ w # <<>> /\ LastOf(w).kind = "file" /\ LastOf(w).size = bs

Stepping(at, rt, sz, w, dn, pc, t, bs) ==
  /\ ServerState(at, rt, sz) /\ Chain(w)
  /\ w # <<>> => Reads(at, rt, sz, pc, Head(w))
  /\ Sent(at, rt, sz, w, dn, pc, t, bs)

ServerAt(c) == IF c = conn THEN spc ELSE "select"
\* For every client that has not been hurt, the messages in flight are exactly
\* those between the server's place in handle_request and the client's place in
\* sync_file, send_hardlink or the rm loop (send.c and csiebox_server.c 316-545).
InStep == \A c \in Client \ hurt :
  /\ open[c]
  /\ Stepping(ServerAt(c), req.type, size, up[c], down[c], cpc[c], cur[c].type,
              buf[c].size)
=============================================================================
