-------------------------------- MODULE Pull --------------------------------
(***************************************************************************)
(* Login and pull: what csiebox does before Session begins.  The server    *)
(* answers a LOGIN and, when its home of the account is not empty, sends   *)
(* that home in the same call of handle_request (csiebox_server.c 335-361, *)
(* 559-604).  The client that has been answered looks at its own home: an  *)
(* empty one it fills with what comes in, any other it pushes              *)
(* (csiebox_client.c 96-229).  Neither asks the other.                     *)
(*                                                                         *)
(* Names are flat and have a fixed type, as in Session; hidden names, which *)
(* count for "not empty" and are not sent, are left out.                   *)
(***************************************************************************)
EXTENDS Integers, Sequences

CONSTANTS
  Client, Fallible,   \* clients; those that may be killed or have a wrong password
  Account, AccountOf,
  Name, Dir, Lnk,     \* names; the directories and the symbolic links among them
  Inode, Homes,       \* the homes the server may have at first
  Piece, Full,        \* blocks of data; those of full length
  Content,            \* files: full blocks and then a short one, of length 0 perhaps;
                      \* symbolic links: one block
  Contents,           \* the data the inodes may have at first
  MaxPushes,          \* bound: the requests of clients that have logged in
  None

Nothing == [n \in Name |-> None]
ASSUME PullAssumption ==
  /\ Fallible \subseteq Client /\ AccountOf \in [Client -> Account]
  /\ Dir \cup Lnk \subseteq Name /\ Dir \cap Lnk = {}
  /\ Nothing \in Homes /\ Homes \subseteq [Name -> Inode \cup {None}]
  /\ Content \subseteq Seq(Piece)
  /\ Contents # {} /\ Contents \subseteq [Inode -> Content]
  /\ \A x \in Content : Len(x) > 0 /\ \A i \in 1 .. Len(x) : x[i] \in Full <=> i < Len(x)
  /\ \A h \in Homes, x \in Contents, n \in Lnk : h[n] # None => Len(x[h[n]]) = 1
  /\ MaxPushes \in Nat
  /\ None \notin Client \cup Name \cup Inode \cup Seq(Piece)

VARIABLES
  ent, dat, \* the server's homes: what the names are, and the contents
  srv,      \* the server: handle_request, traverse_file, send_file
  cl,       \* the clients: csiebox_client_run, and the name that comes in
  local,    \* their homes
  up, down, \* the connections
  closed,   \* those the client has left and the server has not yet
  snap,     \* history: the server's home when it took the login
  pushes    \* the requests so far, for the bound
vars == <<ent, dat, srv, cl, local, up, down, closed, snap, pushes>>

File == Seq(Piece) \cup {None}
Up == [kind : {"login", "wrong", "echo"}]
Down == [kind : {"OK", "FAIL", "more", "hl", "end"}]
        \cup [kind : {"meta", "path"}, name : Name] \cup [kind : {"data"}, piece : Piece]
Msg(k) == [kind |-> k]
Named(k, n) == [kind |-> k, name |-> n]
Block(p) == [kind |-> "data", piece |-> p]

Server == [pc : {"select", "visit", "echo", "hlEcho", "data", "dead", "lost"},
           cur : Client \cup {None}, todo : SUBSET Name, name : Name \cup {None},
           pos : Nat, hl : SUBSET Inode]
Idle == [pc |-> "select", cur |-> None, todo |-> {}, name |-> None, pos |-> 0, hl |-> {}]

TypeOK ==
  /\ ent \in [Account -> [Name -> Inode \cup {None}]]
  /\ dat \in [Account -> [Inode -> Content]]
  /\ srv \in Server
  /\ cl \in [Client -> [pc : {"off", "login", "pull", "meta", "path", "data", "push", "watch"},
                        name : Name \cup {None}]]
  /\ local \in [Client -> [Name -> File]]
  /\ up \in [Client -> Seq(Up)] /\ down \in [Client -> Seq(Down)]
  /\ closed \in [Client -> BOOLEAN] /\ snap \in [Client -> [Name -> File]]
  /\ pushes \in 0 .. MaxPushes

Init ==
  /\ ent \in [Account -> Homes] /\ dat \in [Account -> Contents]
  /\ srv = Idle
  /\ cl = [c \in Client |-> [pc |-> "off", name |-> None]]
  /\ local \in [Client -> {Nothing, [n \in Name |-> <<>>]}]
  /\ up = [c \in Client |-> <<>>] /\ down = [c \in Client |-> <<>>]
  /\ closed = [c \in Client |-> FALSE] /\ snap = [c \in Client |-> Nothing] /\ pushes = 0

\* The home of an account as files, and its names.
View(a) == [n \in Name |-> IF ent[a][n] = None THEN None
                           ELSE IF n \in Dir THEN <<>> ELSE dat[a][ent[a][n]]]
Present(a) == {n \in Name : ent[a][n] # None}
home == <<ent, dat, pushes>>
-----------------------------------------------------------------------------
(* The server.  It answers and sends in one thread; nobody else is served   *)
(* before the login is done.                                               *)

Send(c, w) == down' = IF closed[c] THEN down ELSE [down EXCEPT ![c] = @ \o w]

\* login: a wrong password is answered, and then the home of nobody is opened.
Refuse(c) ==
  /\ Head(up[c]).kind = "wrong"
  /\ Send(c, <<Msg("FAIL")>>) /\ srv' = [srv EXCEPT !.pc = "dead"] /\ UNCHANGED snap
Accept(c) ==
  /\ Head(up[c]).kind = "login"
  /\ Send(c, <<Msg("OK")>>) /\ snap' = [snap EXCEPT ![c] = View(AccountOf[c])]
  /\ srv' = IF Present(AccountOf[c]) = {} THEN srv
            ELSE [Idle EXCEPT !.pc = "visit", !.cur = c, !.todo = Present(AccountOf[c])]
ServeLogin(c) ==
  /\ srv.pc = "select" /\ up[c] # <<>>
  /\ up' = [up EXCEPT ![c] = Tail(@)]
  /\ Refuse(c) \/ Accept(c)
  /\ UNCHANGED <<home, cl, local, closed>>

\* One entry of traverse_file, to the answer it waits for.
SendMeta(n) ==
  /\ Send(srv.cur, <<Msg("more"), Named("meta", n)>>)
  /\ srv' = [srv EXCEPT !.pc = "echo", !.todo = @ \ {n}, !.name = n,
                        !.hl = @ \cup {ent[AccountOf[srv.cur]][n]}]
\* A second name of a file: the header says nothing of it.
SendLink(n) ==
  /\ Send(srv.cur, <<Msg("more"), Msg("hl")>>)
  /\ srv' = [srv EXCEPT !.pc = "hlEcho", !.todo = @ \ {n}, !.name = n]
\* readlink of a name relative to another directory gives -1, the length of what is
\* hashed then; unless the server's own directory has such a link.
EndsAtLink(n) == n \in Lnk /\ srv' = [srv EXCEPT !.pc = "dead"] /\ UNCHANGED down
Visit ==
  /\ srv.pc = "visit"
  /\ \E n \in srv.todo \cap Present(AccountOf[srv.cur]) :
       IF ent[AccountOf[srv.cur]][n] \in srv.hl THEN SendLink(n)
       ELSE SendMeta(n) \/ EndsAtLink(n)
  /\ UNCHANGED <<home, cl, local, up, closed, snap>>

\* The rest of send_meta, and send_file.
RecvEcho ==
  LET c == srv.cur
      n == srv.name
  IN /\ srv.pc = "echo" /\ up[c] # <<>>
     /\ up' = [up EXCEPT ![c] = Tail(@)]
     /\ Send(c, <<Named("path", n)>>)
     /\ srv' = IF n \in Dir THEN [srv EXCEPT !.pc = "visit"]
               ELSE [srv EXCEPT !.pc = "data", !.pos = 1]
     /\ UNCHANGED <<home, cl, local, closed, snap>>
SendBlock ==
  LET p == dat[AccountOf[srv.cur]][ent[AccountOf[srv.cur]][srv.name]][srv.pos]
  IN /\ srv.pc = "data"
     /\ Send(srv.cur, <<Block(p)>>)
     /\ srv' = IF p \in Full THEN [srv EXCEPT !.pos = @ + 1] ELSE [srv EXCEPT !.pc = "visit"]
     /\ UNCHANGED <<home, cl, local, up, closed, snap>>

\* The end of the login; a mistake would be to end without telling the client.
SayNothing == Send(srv.cur, <<>>)
SayEnd == Send(srv.cur, <<Msg("end")>>)
Finish ==
  /\ srv.pc = "visit" /\ srv.todo \cap Present(AccountOf[srv.cur]) = {}
  /\ SayEnd /\ srv' = Idle
  /\ UNCHANGED <<home, cl, local, up, closed, snap>>

\* A client with a home of its own sends its first request where an answer is awaited:
\* from here on each takes what the other asks for an answer.
Garbled ==
  /\ srv.pc \in {"echo", "hlEcho"} /\ cl[srv.cur].pc = "push"
  /\ srv' = [srv EXCEPT !.pc = "lost"]
  /\ UNCHANGED <<home, cl, local, up, down, closed, snap>>

\* SIGPIPE, at the latest when an answer is asked for again and again; a block or two may
\* still be taken by a connection that the client has left.
BrokenPipe ==
  /\ srv.pc \in {"visit", "echo", "hlEcho", "data"} /\ closed[srv.cur]
  /\ srv.pc = "echo" => up[srv.cur] = <<>>
  /\ srv' = [srv EXCEPT !.pc = "dead"]
  /\ UNCHANGED <<home, cl, local, up, down, closed, snap>>

Logout(c) ==
  /\ srv.pc = "select" /\ closed[c] /\ up[c] = <<>>
  /\ closed' = [closed EXCEPT ![c] = FALSE]
  /\ UNCHANGED <<home, srv, cl, local, up, down, snap>>

\* A request of a client that pushes or watches, as a whole: Session has its steps.
\* Mistaken servers serve it between two names of a pull.
AnyTime == srv.pc \in {"select", "visit"}
Between == srv.pc = "select"
Written(a, n) ==
  \E i \in Inode, x \in Content :
    /\ i = ent[a][n] \/ (ent[a][n] = None /\ \A m \in Name : ent[a][m] # i)
    /\ n \in Lnk => Len(x) = 1
    /\ ent' = [ent EXCEPT ![a][n] = i] /\ dat' = [dat EXCEPT ![a][i] = x]
Removed(a, n) == ent[a][n] # None /\ ent' = [ent EXCEPT ![a][n] = None] /\ UNCHANGED dat
Linked(a, n) ==
  /\ ent[a][n] = None /\ n \notin Dir \cup Lnk
  /\ \E m \in Name \ (Dir \cup Lnk) :
       ent[a][m] # None /\ ent' = [ent EXCEPT ![a][n] = ent[a][m]]
  /\ UNCHANGED dat
Push(c) ==
  /\ Between /\ cl[c].pc \in {"push", "watch"} /\ ~closed[c]
  /\ pushes < MaxPushes /\ pushes' = pushes + 1
  /\ LET a == AccountOf[c] IN \E n \in Name : Written(a, n) \/ Removed(a, n) \/ Linked(a, n)
  /\ UNCHANGED <<srv, cl, local, up, down, closed, snap>>

-----------------------------------------------------------------------------
(* The clients.                                                            *)

\* A client reads the head of its stream if it is what it waits for.
Take(c, k) == down[c] # <<>> /\ Head(down[c]).kind = k /\ down' = [down EXCEPT ![c] = Tail(@)]
Goto(c, pc) == cl' = [cl EXCEPT ![c].pc = pc]
Reply(c, k) == up' = [up EXCEPT ![c] = Append(@, Msg(k))]

\* The user starts it, again perhaps, when the server has seen the end of it.
Start(c) ==
  /\ cl[c].pc = "off" /\ ~closed[c] /\ srv.pc # "dead"
  /\ Goto(c, "login")
  /\ \E k \in {"login"} \cup IF c \in Fallible THEN {"wrong"} ELSE {} : Reply(c, k)
  /\ UNCHANGED <<home, srv, local, down, closed, snap>>

\* login, and the count of the entries; after FAIL it asks again.
RecvLogin(c) ==
  /\ cl[c].pc = "login"
  /\ \/ Take(c, "OK") /\ Goto(c, IF local[c] = Nothing THEN "pull" ELSE "push") /\ UNCHANGED up
     \/ Take(c, "FAIL") /\ Reply(c, "wrong") /\ UNCHANGED cl
  /\ UNCHANGED <<home, srv, local, closed, snap>>

RecvHeader(c) ==
  /\ cl[c].pc = "pull"
  /\ \/ Take(c, "more") /\ Goto(c, "meta")
     \/ Take(c, "end") /\ Goto(c, "watch")
  /\ UNCHANGED <<home, srv, local, up, closed, snap>>
\* A header of a hard link is shorter than what is awaited here.
RecvMeta(c) ==
  /\ cl[c].pc = "meta" /\ Take(c, "meta") /\ Reply(c, "echo") /\ Goto(c, "path")
  /\ UNCHANGED <<home, srv, local, closed, snap>>
RecvPath(c) ==
  /\ cl[c].pc = "path" /\ Take(c, "path")
  /\ LET n == Head(down[c]).name
     IN /\ local' = [local EXCEPT ![c][n] = <<>>]
        /\ cl' = [cl EXCEPT ![c] = [pc |-> IF n \in Dir THEN "pull" ELSE "data", name |-> n]]
  /\ UNCHANGED <<home, srv, up, closed, snap>>

RecvBlock(c) ==
  /\ cl[c].pc = "data" /\ Take(c, "data")
  /\ LET p == Head(down[c]).piece
     IN /\ local' = [local EXCEPT ![c][cl[c].name] = Append(@, p)]
        /\ Goto(c, IF p \in Full THEN "data" ELSE "pull")
  /\ UNCHANGED <<home, srv, up, closed, snap>>

\* The server has ended: recv returns 0, which ends the loop of the pull, or sooner the
\* client.
ServerGone(c) ==
  /\ srv.pc = "dead" /\ down[c] = <<>>
  /\ cl[c].pc \in {"login", "pull", "meta", "path", "data"}
  /\ \E pc \in {"off"} \cup IF cl[c].pc = "login" THEN {} ELSE {"watch"} : Goto(c, pc)
  /\ UNCHANGED <<home, srv, local, up, down, closed, snap>>

Kill(c) ==
  /\ c \in Fallible /\ cl[c].pc # "off" /\ srv.pc # "dead"
  /\ Goto(c, "off")
  /\ down' = [down EXCEPT ![c] = <<>>] /\ closed' = [closed EXCEPT ![c] = TRUE]
  /\ UNCHANGED <<home, srv, local, up, snap>>

-----------------------------------------------------------------------------
Handle == Visit \/ RecvEcho \/ SendBlock \/ Finish \/ Garbled \/ BrokenPipe
Run(c) == RecvLogin(c) \/ RecvHeader(c) \/ RecvMeta(c) \/ RecvPath(c) \/ RecvBlock(c)
          \/ ServerGone(c)
Next ==
  \/ Handle
  \/ \E c \in Client : \/ ServeLogin(c) \/ Logout(c) \/ Push(c)
                       \/ Start(c) \/ Kill(c) \/ Run(c)

\* The thread of the server and the clients run.  A round of select serves every
\* connection that can be read, so a login waits for a round at most.
Spec ==
  /\ Init /\ [][Next]_vars /\ WF_vars(Handle)
  /\ \A c \in Client : WF_vars(Run(c)) /\ SF_vars(ServeLogin(c))
-----------------------------------------------------------------------------
(* Properties.                                                             *)

\* A client that has pulled has the home of its account as it was at one moment, when the
\* server took the login, whatever other clients of the account push meanwhile: every
\* name, every file whole (csiebox_server.c 355, csiebox_client.c 132-225).
Pulled == \A c \in Client : cl[c].pc = "watch" /\ srv.pc # "dead" => local[c] = snap[c]

\* A login comes to an end, with a pull or a push, while the server serves.  It stops
\* serving when a home with two names of a file is pulled (csiebox_server.c 583), a
\* symbolic link (send.c 25), a client is killed in a pull or both sides send, and a
\* client waits for good if both homes are empty (csiebox_client.c 132).
Stopped == srv.pc \in {"dead", "lost", "hlEcho"}
BothEmpty(c) == cl[c].pc = "pull" /\ snap[c] = Nothing
LoginEnds ==
  \A c \in Client :
    cl[c].pc = "login" ~> cl[c].pc \in {"push", "watch", "off"} \/ BothEmpty(c) \/ Stopped
=============================================================================
