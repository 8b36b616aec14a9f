----------------------------- MODULE PullProofs -----------------------------
(***************************************************************************)
(* Proofs about Pull: types, and that a pull gives the client the home of  *)
(* its account as it was when the server took the login.                   *)
(***************************************************************************)
EXTENDS Pull, SequenceTheorems, TLAPS

\* A home as files: a directory has no data, anything else is a whole file.
Entry(n, x) == x = None \/ IF n \in Dir THEN x = <<>> ELSE x \in Content

\* The server sends to a client, and the home it sends is still the one of the login.
Busy == srv.pc \in {"visit", "echo", "hlEcho", "data"}
Served(c) == Busy /\ srv.cur = c
Sending ==
  /\ Busy => srv.cur \in Client /\ View(AccountOf[srv.cur]) = snap[srv.cur]
             /\ srv.todo \subseteq Present(AccountOf[srv.cur])
  /\ Busy /\ srv.pc # "visit" =>
       /\ srv.name \in Name \ srv.todo /\ snap[srv.cur][srv.name] # None
       /\ srv.pc = "data" =>
            srv.name \notin Dir /\ srv.pos \in 1 .. Len(snap[srv.cur][srv.name])

\* One message at most comes from a client that logs in or pulls.
UpAt(c) ==
  /\ closed[c] => cl[c].pc = "off"
  /\ cl[c].pc = "off" => down[c] = <<>> /\ (closed[c] \/ (up[c] = <<>> /\ ~Served(c)))
  /\ up[c] # <<>> =>
       /\ Len(up[c]) = 1
       /\ \/ closed[c]
          \/ cl[c].pc = "login" /\ ~Served(c) /\ down[c] = <<>>
          \/ cl[c].pc = "path" /\ Served(c) /\ srv.pc = "echo" /\ down[c] = <<>>

\* L is the home of the login but for the names of S.
Sofar(c, L, S) == \A n \in Name : L[n] = IF n \in S THEN None ELSE snap[c][n]

\* What is in flight behind the first q messages, when a client has L by then.
Rest(c, q, L) ==
  \/ /\ Len(down[c]) = q /\ Served(c) /\ srv.pc = "visit"
     /\ Sofar(c, L, srv.todo)
  \/ /\ Len(down[c]) = q + 2 /\ Served(c) /\ srv.pc = "echo"
     /\ down[c][q + 1] = Msg("more") /\ down[c][q + 2] = Named("meta", srv.name)
     /\ Sofar(c, L, srv.todo \cup {srv.name})
  \/ /\ Len(down[c]) = q + 2 /\ Served(c) /\ srv.pc = "hlEcho"
     /\ down[c][q + 1] = Msg("more") /\ down[c][q + 2] = Msg("hl")
  \/ /\ Len(down[c]) = q + 1 /\ ~Served(c)
     /\ down[c][q + 1] = Msg("end") /\ Sofar(c, L, {})
  \/ Len(down[c]) = q /\ ~Served(c) /\ snap[c] = Nothing

\* Behind the first q messages come the blocks of n from the j-th on.
Blocks(c, q, n, j, L) ==
  /\ n \in Name \ Dir /\ snap[c][n] # None
  /\ \/ /\ Served(c) /\ srv.pc = "data" /\ srv.name = n
        /\ j < srv.pos /\ Len(down[c]) = q + srv.pos - 1 - j
        /\ \A i \in 1 .. srv.pos - 1 - j : down[c][q + i] = Block(snap[c][n][j + i])
        /\ \A m \in Name \ {n} : L[m] = IF m \in srv.todo THEN None ELSE snap[c][m]
     \/ /\ \A i \in 1 .. Len(snap[c][n]) - j : down[c][q + i] = Block(snap[c][n][j + i])
        /\ Rest(c, q + Len(snap[c][n]) - j, [L EXCEPT ![n] = snap[c][n]])

DownAt(c) ==
  LET n == cl[c].name
      D == down[c]
  IN /\ cl[c].pc = "login" /\ up[c] = <<>> =>
          D # <<>> /\ D[1] = Msg("OK") /\ (local[c] = Nothing => Rest(c, 1, Nothing))
     /\ cl[c].pc = "pull" => Rest(c, 0, local[c])
     /\ cl[c].pc = "meta" =>
          /\ Len(D) = 1 /\ Served(c)
          /\ \/ srv.pc = "hlEcho" /\ D[1] = Msg("hl")
             \/ /\ srv.pc = "echo" /\ D[1] = Named("meta", srv.name)
                /\ Sofar(c, local[c], srv.todo \cup {srv.name})
     /\ cl[c].pc = "path" =>
          \/ /\ D = <<>> /\ Served(c) /\ srv.pc = "echo"
             /\ Sofar(c, local[c], srv.todo \cup {srv.name})
          \/ /\ D # <<>> /\ up[c] = <<>>
             /\ \E m \in Name :
                  /\ D[1] = Named("path", m) /\ snap[c][m] # None
                  /\ IF m \in Dir THEN Rest(c, 1, [local[c] EXCEPT ![m] = <<>>])
                     ELSE Blocks(c, 1, m, 0, local[c])
     /\ cl[c].pc = "data" =>
          /\ Blocks(c, 0, n, Len(local[c][n]), local[c])
          /\ Len(local[c][n]) < Len(snap[c][n])
          /\ \A i \in 1 .. Len(local[c][n]) : local[c][n][i] = snap[c][n][i]
     /\ cl[c].pc = "watch" => local[c] = snap[c]

Typed ==
  /\ TypeOK
  /\ \A c \in Client, n \in Name : Entry(n, snap[c][n])
  /\ Sending
  /\ \A c \in Client : cl[c].pc = "data" => cl[c].name \in Name /\ local[c][cl[c].name] # None
InStep == srv.pc # "dead" => \A c \in Client : UpAt(c) /\ DownAt(c)
IInv == Typed /\ InStep
-----------------------------------------------------------------------------
(* The messages.                                                           *)

LEMMA Kinds ==
  /\ \A k \in {"OK", "FAIL", "more", "hl", "end"} : Msg(k) \in Down
  /\ \A k \in {"meta", "path"}, n \in Name : Named(k, n) \in Down
  /\ \A p \in Piece : Block(p) \in Down
  /\ \A k \in {"login", "wrong", "echo"} : Msg(k) \in Up
BY DEF Msg, Named, Block, Down, Up

LEMMA LastMessage ==
  ASSUME NEW S, NEW s \in Seq(S), Len(s) = 1
  PROVE  Tail(s) = <<>>
<1>1. Tail(s) \in Seq(S) /\ Len(Tail(s)) = 0
  OBVIOUS
<1> QED  BY <1>1, EmptySeq

LEMMA Fields ==
  ASSUME NEW m \in Down
  PROVE  /\ m.kind \in {"meta", "path"} => m.name \in Name
         /\ m.kind = "data" => m.piece \in Piece
BY DEF Down

LEMMA Sent ==
  ASSUME TypeOK, NEW c \in Client, NEW w \in Seq(Down), Send(c, w)
  PROVE  /\ down' \in [Client -> Seq(Down)]
         /\ \A d \in Client \ {c} : down'[d] = down[d]
         /\ closed[c] => down'[c] = down[c]
         /\ ~closed[c] =>
              /\ Len(down'[c]) = Len(down[c]) + Len(w)
              /\ \A i \in 1 .. Len(down[c]) : down'[c][i] = down[c][i]
              /\ \A i \in 1 .. Len(w) : down'[c][Len(down[c]) + i] = w[i]
BY DEF TypeOK, Send

LEMMA Taken ==
  ASSUME TypeOK, NEW c \in Client, NEW k, Take(c, k)
  PROVE  /\ down' \in [Client -> Seq(Down)]
         /\ \A d \in Client \ {c} : down'[d] = down[d]
         /\ Len(down[c]) > 0 /\ Len(down'[c]) = Len(down[c]) - 1
         /\ \A i \in 1 .. Len(down'[c]) : down'[c][i] = down[c][i + 1]
         /\ Head(down[c]) = down[c][1] /\ down[c][1] \in Down /\ down[c][1].kind = k
BY DEF TypeOK, Take

LEMMA Answered ==
  ASSUME TypeOK, NEW c \in Client, NEW k \in {"login", "wrong", "echo"}, Reply(c, k)
  PROVE  /\ up' \in [Client -> Seq(Up)]
         /\ \A d \in Client \ {c} : up'[d] = up[d]
         /\ Len(up'[c]) = Len(up[c]) + 1
BY Kinds DEF TypeOK, Reply

-----------------------------------------------------------------------------
(* Types.                                                                  *)

LEMMA Initially == Init => IInv
<1> SUFFICES ASSUME Init PROVE IInv  OBVIOUS
<1> USE PullAssumption
<1>1. TypeOK
  <2>1. srv \in Server
    BY DEF Init, Idle, Server
  <2>2. Nothing \in [Name -> File] /\ [n \in Name |-> <<>>] \in [Name -> File]
    BY DEF Nothing, File
  <2>3. local \in [Client -> [Name -> File]] /\ snap \in [Client -> [Name -> File]]
    BY <2>2 DEF Init
  <2>4. ent \in [Account -> [Name -> Inode \cup {None}]]
        /\ dat \in [Account -> [Inode -> Content]]
    BY DEF Init
  <2>5. up \in [Client -> Seq(Up)] /\ down \in [Client -> Seq(Down)]
    BY DEF Init
  <2>6. cl \in [Client -> [pc : {"off", "login", "pull", "meta", "path", "data", "push", "watch"},
                           name : Name \cup {None}]]
    BY DEF Init
  <2> QED  BY <2>1, <2>3, <2>4, <2>5, <2>6 DEF Init, TypeOK
<1>2. Typed
  BY <1>1 DEF Init, Typed, Entry, Nothing, Sending, Busy, Idle
<1>3. InStep
  BY DEF Init, InStep, UpAt, DownAt, Served, Busy, Idle
<1> QED  BY <1>2, <1>3 DEF IInv

\* What the server reads of a file is what the home had at the login.
LEMMA Frozen ==
  ASSUME Typed, Busy, NEW n \in Name
  PROVE  LET a == AccountOf[srv.cur] IN
         /\ a \in Account /\ srv.cur \in Client
         /\ n \in Present(a) <=> snap[srv.cur][n] # None
         /\ n \in Present(a) => ent[a][n] \in Inode
         /\ n \in Present(a) \ Dir => dat[a][ent[a][n]] = snap[srv.cur][n]
         /\ n \in Present(a) \ Dir => snap[srv.cur][n] \in Content
<1> DEFINE a == AccountOf[srv.cur]
<1> USE PullAssumption
<1>1. a \in Account /\ srv.cur \in Client /\ View(a) = snap[srv.cur]
  BY DEF Typed, Sending
<1>2. ent[a] \in [Name -> Inode \cup {None}] /\ dat[a] \in [Inode -> Content]
  BY <1>1 DEF Typed, TypeOK
<1>3. View(a)[n] = IF ent[a][n] = None THEN None ELSE IF n \in Dir THEN <<>> ELSE dat[a][ent[a][n]]
  BY DEF View
<1>4. n \in Present(a) => ent[a][n] \in Inode
  BY <1>2 DEF Present
<1>5. n \in Present(a) <=> ent[a][n] # None
  BY DEF Present
<1>6. \A x \in Content : x # None
  OBVIOUS
<1>7. <<>> # None
  <2>1. <<>> \in Seq(Piece)
    OBVIOUS
  <2> QED  BY <2>1
<1>8. n \in Present(a) => dat[a][ent[a][n]] \in Content
  BY <1>2, <1>4
<1> QED  BY <1>1, <1>3, <1>4, <1>5, <1>6, <1>7, <1>8

LEMMA ViewEntries ==
  ASSUME TypeOK, NEW b \in Account
  PROVE  /\ View(b) \in [Name -> File]
         /\ \A n \in Name : Entry(n, View(b)[n])
<1> USE PullAssumption
<1>1. ent[b] \in [Name -> Inode \cup {None}] /\ dat[b] \in [Inode -> Content]
  BY DEF TypeOK
<1>2. \A n \in Name : Entry(n, View(b)[n])
  BY <1>1 DEF View, Entry
<1>3. <<>> \in Seq(Piece) /\ Content \subseteq Seq(Piece)
  OBVIOUS
<1>4. \A n \in Name : View(b)[n] \in File
  BY <1>2, <1>3 DEF Entry, File
<1> QED  BY <1>2, <1>4 DEF View

\* What a step that leaves the homes and the logins alone has to show.
LEMMA SendingKept ==
  ASSUME Typed, UNCHANGED <<home, snap>>,
         \/ srv' = srv
         \/ ~Busy'
         \/ /\ Busy /\ srv'.cur = srv.cur /\ srv'.todo \subseteq srv.todo
            /\ srv'.pc # "visit" =>
                 /\ srv'.name \in Name \ srv'.todo /\ snap[srv.cur][srv'.name] # None
                 /\ srv'.pc = "data" =>
                      /\ srv'.name \notin Dir
                      /\ srv'.pos \in 1 .. Len(snap[srv.cur][srv'.name])
  PROVE  Sending'
<1>1. \A b : View(b)' = View(b) /\ Present(b)' = Present(b)
  BY DEF View, Present, home
<1>2. Sending
  BY DEF Typed
<1>3. CASE srv' = srv
  BY <1>1, <1>2, <1>3 DEF Sending, Busy
<1>4. CASE ~Busy'
  BY <1>4 DEF Sending
<1>5. CASE srv' # srv /\ Busy'
  BY <1>1, <1>2, <1>5 DEF Sending
<1> QED  BY <1>3, <1>4, <1>5

LEMMA SnapKept ==
  ASSUME Typed, UNCHANGED snap
  PROVE  \A c \in Client, n \in Name : Entry(n, snap[c][n])'
BY DEF Typed, Entry

LEMMA ClKept ==
  ASSUME Typed, UNCHANGED <<cl, local>>
  PROVE  \A c \in Client : (cl[c].pc = "data" => cl[c].name \in Name /\ local[c][cl[c].name] # None)'
BY DEF Typed

LEMMA ServerTypes ==
  ASSUME Typed, Handle
  PROVE  Typed'
<1> USE PullAssumption
<1>1. TypeOK /\ Sending
  BY DEF Typed
<1>2. UNCHANGED <<home, cl, local, closed, snap>>
  BY DEF Handle, Visit, RecvEcho, SendBlock, Finish, Garbled, BrokenPipe
<1>3. TypeOK' /\ Sending'
  <2> DEFINE c == srv.cur
             n == srv.name
             a == AccountOf[c]
  <2>0. UNCHANGED <<ent, dat, pushes>>
    BY <1>2 DEF home
  <2>1. ASSUME srv' \in Server, down' \in [Client -> Seq(Down)], up' \in [Client -> Seq(Up)]
        PROVE  TypeOK'
    BY <1>1, <1>2, <2>0, <2>1 DEF TypeOK
  <2>2. srv \in Server /\ up \in [Client -> Seq(Up)] /\ down \in [Client -> Seq(Down)]
    BY <1>1 DEF TypeOK
  <2>3. CASE Visit
    <3>1. PICK m \in srv.todo \cap Present(a) :
            IF ent[a][m] \in srv.hl THEN SendLink(m) ELSE SendMeta(m) \/ EndsAtLink(m)
      BY <2>3 DEF Visit
    <3>2. Busy /\ srv.pc = "visit" /\ c \in Client /\ m \in Name /\ up' = up
      BY <2>3, <1>1, <3>1 DEF Visit, Busy, Sending, Present
    <3>3. ent[a][m] \in Inode /\ snap[c][m] # None
      BY <3>1, <3>2, Frozen
    <3>4. CASE SendLink(m)
      <4>1. <<Msg("more"), Msg("hl")>> \in Seq(Down)
        BY Kinds
      <4>2. down' \in [Client -> Seq(Down)]
        BY <1>1, <3>2, <3>4, <4>1, Sent DEF SendLink
      <4>3. srv' = [srv EXCEPT !.pc = "hlEcho", !.todo = @ \ {m}, !.name = m]
        BY <3>4 DEF SendLink
      <4>4. srv' \in Server
        BY <2>2, <3>2, <4>3 DEF Server
      <4>5. /\ srv'.pc = "hlEcho" /\ srv'.cur = c /\ srv'.todo = srv.todo \ {m}
            /\ srv'.name = m
        BY <2>2, <4>3 DEF Server
      <4> QED  BY <2>1, <4>2, <4>4, <4>5, <1>2, <3>2, <3>3, <2>2, SendingKept DEF Busy
    <3>5. CASE SendMeta(m)
      <4>1. <<Msg("more"), Named("meta", m)>> \in Seq(Down)
        BY Kinds, <3>2
      <4>2. down' \in [Client -> Seq(Down)]
        BY <1>1, <3>2, <3>5, <4>1, Sent DEF SendMeta
      <4>3. srv' = [srv EXCEPT !.pc = "echo", !.todo = @ \ {m}, !.name = m,
                               !.hl = @ \cup {ent[a][m]}]
        BY <3>5 DEF SendMeta
      <4>4. srv' \in Server
        BY <2>2, <3>2, <3>3, <4>3 DEF Server
      <4>5. /\ srv'.pc = "echo" /\ srv'.cur = c /\ srv'.todo = srv.todo \ {m}
            /\ srv'.name = m
        BY <2>2, <4>3 DEF Server
      <4> QED  BY <2>1, <4>2, <4>4, <4>5, <1>2, <3>2, <3>3, <2>2, SendingKept DEF Busy
    <3>6. CASE EndsAtLink(m)
      <4>1. srv' \in Server /\ srv'.pc = "dead" /\ down' = down
        BY <3>6, <2>2 DEF EndsAtLink, Server
      <4> QED  BY <2>1, <2>2, <3>2, <4>1, <1>2, SendingKept DEF Busy
    <3> QED  BY <3>1, <3>4, <3>5, <3>6
  <2>4. CASE RecvEcho
    <3>1. Busy /\ srv.pc = "echo" /\ c \in Client /\ n \in Name \ srv.todo /\ snap[c][n] # None
      BY <2>4, <1>1 DEF RecvEcho, Busy, Sending
    <3>2. up' \in [Client -> Seq(Up)]
      BY <2>2, <2>4, <3>1 DEF RecvEcho
    <3>3. <<Named("path", n)>> \in Seq(Down) /\ Send(c, <<Named("path", n)>>)
      BY Kinds, <3>1, <2>4 DEF RecvEcho
    <3>4. down' \in [Client -> Seq(Down)]
      BY <1>1, <3>1, <3>3, Sent
    <3>5. n \notin Dir => snap[c][n] \in Content
      BY <3>1 DEF Typed, Entry
    <3>6. n \notin Dir => 1 \in 1 .. Len(snap[c][n])
      BY <3>5
    <3>7. srv' = IF n \in Dir THEN [srv EXCEPT !.pc = "visit"]
                 ELSE [srv EXCEPT !.pc = "data", !.pos = 1]
      BY <2>4 DEF RecvEcho
    <3>8. srv' \in Server
      BY <2>2, <3>7 DEF Server
    <3>9. /\ srv'.cur = c /\ srv'.todo = srv.todo /\ srv'.name = n
          /\ n \in Dir => srv'.pc = "visit"
          /\ n \notin Dir => srv'.pc = "data" /\ srv'.pos = 1
      BY <2>2, <3>7 DEF Server
    <3> QED  BY <2>1, <3>1, <3>2, <3>4, <3>6, <3>8, <3>9, <1>2, SendingKept DEF Busy
  <2>5. CASE SendBlock
    <3>1. Busy /\ srv.pc = "data" /\ c \in Client /\ n \in Name \ srv.todo /\ snap[c][n] # None
          /\ n \notin Dir /\ srv.pos \in 1 .. Len(snap[c][n])
      BY <2>5, <1>1 DEF SendBlock, Busy, Sending
    <3> DEFINE p == dat[a][ent[a][n]][srv.pos]
    <3>2. snap[c][n] \in Content /\ p = snap[c][n][srv.pos]
      BY <3>1, Frozen
    <3>3. p \in Piece /\ (p \in Full => srv.pos + 1 \in 1 .. Len(snap[c][n]))
      BY <3>1, <3>2
    <3>4. <<Block(p)>> \in Seq(Down) /\ Send(c, <<Block(p)>>) /\ up' = up
      <4>1. Block(p) \in Down
        BY Kinds, <3>3
      <4>2. <<Block(p)>> \in Seq(Down)
        BY <4>1
      <4>3. Send(c, <<Block(p)>>) /\ up' = up
        BY <2>5 DEF SendBlock
      <4> QED  BY <4>2, <4>3
    <3>5. down' \in [Client -> Seq(Down)]
      BY <1>1, <3>1, <3>4, Sent
    <3>6. srv' = IF p \in Full THEN [srv EXCEPT !.pos = @ + 1] ELSE [srv EXCEPT !.pc = "visit"]
      BY <2>5 DEF SendBlock
    <3>7. srv' \in Server
      <4> HIDE DEF p
      <4>1. CASE p \in Full
        <5>1. srv.pos + 1 \in Nat
          BY <2>2 DEF Server
        <5>2. srv' = [srv EXCEPT !.pos = srv.pos + 1]
          BY <3>6, <4>1
        <5> QED  BY <2>2, <5>1, <5>2 DEF Server
      <4>2. CASE p \notin Full
        BY <2>2, <3>6, <4>2 DEF Server
      <4> QED  BY <4>1, <4>2
    <3>8. /\ srv'.cur = c /\ srv'.todo = srv.todo /\ srv'.name = n
          /\ p \in Full => srv'.pc = "data" /\ srv'.pos = srv.pos + 1
          /\ p \notin Full => srv'.pc = "visit"
      BY <2>2, <3>1, <3>6 DEF Server
    <3> QED  BY <2>1, <2>2, <3>1, <3>3, <3>4, <3>5, <3>7, <3>8, <1>2, SendingKept DEF Busy
  <2>6. CASE Finish
    <3>1. srv' \in Server /\ srv'.pc = "select" /\ up' = up /\ c \in Client
      BY <2>6, <1>1 DEF Finish, Idle, Server, Sending, Busy
    <3>2. <<Msg("end")>> \in Seq(Down) /\ Send(c, <<Msg("end")>>)
      BY Kinds, <2>6 DEF Finish, SayEnd
    <3>3. down' \in [Client -> Seq(Down)]
      BY <1>1, <3>1, <3>2, Sent
    <3> QED  BY <2>1, <2>2, <3>1, <3>3, <1>2, SendingKept DEF Busy
  <2>7. CASE Garbled \/ BrokenPipe
    <3>1. srv' \in Server /\ srv'.pc \in {"lost", "dead"} /\ up' = up /\ down' = down
      BY <2>7, <2>2 DEF Garbled, BrokenPipe, Server
    <3> QED  BY <2>1, <2>2, <3>1, <1>2, SendingKept DEF Busy
  <2> QED  BY <2>3, <2>4, <2>5, <2>6, <2>7 DEF Handle
<1> QED  BY <1>2, <1>3, SnapKept, ClKept DEF Typed

LEMMA LoginTypes ==
  ASSUME Typed, NEW c \in Client, ServeLogin(c)
  PROVE  Typed'
<1> USE PullAssumption
<1>1. TypeOK /\ srv.pc = "select" /\ srv \in Server
  BY DEF Typed, TypeOK, ServeLogin
<1>2. UNCHANGED <<ent, dat, pushes, cl, local, closed>>
  BY DEF ServeLogin, home
<1>3. up' \in [Client -> Seq(Up)]
  BY <1>1 DEF ServeLogin, TypeOK
<1>4. ASSUME srv' \in Server, down' \in [Client -> Seq(Down)], snap' \in [Client -> [Name -> File]]
      PROVE  TypeOK'
  BY <1>1, <1>2, <1>3, <1>4 DEF TypeOK
<1>5. CASE Refuse(c)
  <2>1. <<Msg("FAIL")>> \in Seq(Down) /\ Send(c, <<Msg("FAIL")>>) /\ snap' = snap
    BY Kinds, <1>5 DEF Refuse
  <2>2. down' \in [Client -> Seq(Down)]
    BY <1>1, <2>1, Sent
  <2>3. srv' \in Server /\ srv'.pc = "dead"
    BY <1>1, <1>5 DEF Refuse, Server
  <2>4. TypeOK'
    BY <1>1, <1>4, <2>1, <2>2, <2>3 DEF TypeOK
  <2> QED  BY <1>2, <2>1, <2>3, <2>4, SendingKept, SnapKept, ClKept DEF Typed, Busy, home
<1>6. CASE Accept(c)
  <2> DEFINE b == AccountOf[c]
  <2>0. b \in Account
    OBVIOUS
  <2>1. <<Msg("OK")>> \in Seq(Down) /\ Send(c, <<Msg("OK")>>)
    BY Kinds, <1>6 DEF Accept
  <2>2. down' \in [Client -> Seq(Down)]
    BY <1>1, <2>1, Sent
  <2>3. snap' = [snap EXCEPT ![c] = View(b)] /\ View(b)' = View(b) /\ Present(b)' = Present(b)
    BY <1>2, <1>6 DEF Accept, View, Present
  <2>4. snap' \in [Client -> [Name -> File]] /\ snap'[c] = View(b)
    BY <1>1, <2>0, <2>3, ViewEntries DEF TypeOK
  <2>5. \A d \in Client, n \in Name : Entry(n, snap'[d][n])
    BY <1>1, <2>0, <2>3, <2>4, ViewEntries DEF Typed, TypeOK
  <2>6. srv' = IF Present(b) = {} THEN srv
               ELSE [Idle EXCEPT !.pc = "visit", !.cur = c, !.todo = Present(b)]
    BY <1>6 DEF Accept
  <2>7. srv' \in Server /\ (srv'.pc = "select" \/ (/\ srv'.pc = "visit" /\ srv'.cur = c
                                                   /\ srv'.todo = Present(b)))
    <3>1. Present(b) \subseteq Name
      BY DEF Present
    <3> QED  BY <1>1, <2>6, <3>1 DEF Server, Idle
  <2>8. Sending'
    BY <2>3, <2>4, <2>7 DEF Sending, Busy
  <2>9. \A d \in Client, n \in Name : Entry(n, snap[d][n])'
    BY <2>5 DEF Entry
  <2> QED  BY <1>2, <1>4, <2>2, <2>4, <2>7, <2>8, <2>9, ClKept DEF Typed
<1> QED  BY <1>5, <1>6 DEF ServeLogin

LEMMA PushTypes ==
  ASSUME Typed, NEW c \in Client, Push(c)
  PROVE  Typed'
<1> USE PullAssumption
<1> DEFINE b == AccountOf[c]
<1>1. TypeOK /\ ~Busy /\ b \in Account
  BY DEF Typed, Push, Between, Busy
<1>2. UNCHANGED <<srv, cl, local, up, down, closed, snap>>
  BY DEF Push
<1>3. pushes' \in 0 .. MaxPushes
  BY <1>1 DEF Push, TypeOK
<1>4. PICK n \in Name : Written(b, n) \/ Removed(b, n) \/ Linked(b, n)
  BY DEF Push
<1>5. ent' \in [Account -> [Name -> Inode \cup {None}]] /\ dat' \in [Account -> [Inode -> Content]]
  <2>1. CASE Written(b, n)
    BY <1>1, <2>1 DEF Written, TypeOK
  <2>2. CASE Removed(b, n)
    BY <1>1, <2>2 DEF Removed, TypeOK
  <2>3. CASE Linked(b, n)
    BY <1>1, <2>3 DEF Linked, TypeOK
  <2> QED  BY <1>4, <2>1, <2>2, <2>3
<1>6. TypeOK'
  BY <1>1, <1>2, <1>3, <1>5 DEF TypeOK
<1>7. Sending'
  BY <1>1, <1>2 DEF Sending, Busy
<1> QED  BY <1>2, <1>6, <1>7, SnapKept, ClKept DEF Typed

\* What a step of a client has to show.
LEMMA ClientKeeps ==
  ASSUME Typed, NEW c \in Client,
         UNCHANGED <<home, srv, snap>>,
         up' \in [Client -> Seq(Up)], down' \in [Client -> Seq(Down)],
         closed' \in [Client -> BOOLEAN], local' \in [Client -> [Name -> File]],
         NEW pc \in {"off", "login", "pull", "meta", "path", "data", "push", "watch"},
         NEW n \in Name \cup {None}, cl' = [cl EXCEPT ![c] = [pc |-> pc, name |-> n]],
         pc = "data" => n \in Name /\ local'[c][n] # None,
         \A d \in Client \ {c} : local'[d] = local[d]
  PROVE  Typed'
<1>1. TypeOK /\ UNCHANGED <<ent, dat, pushes>>
  BY DEF Typed, home
<1>2. cl' \in [Client -> [pc : {"off", "login", "pull", "meta", "path", "data", "push", "watch"},
                          name : Name \cup {None}]]
  BY <1>1 DEF TypeOK
<1>3. TypeOK'
  BY <1>1, <1>2 DEF TypeOK
<1>4. \A d \in Client : (cl[d].pc = "data" => cl[d].name \in Name /\ local[d][cl[d].name] # None)'
  BY <1>1 DEF Typed, TypeOK
<1> QED  BY <1>3, <1>4, SendingKept, SnapKept DEF Typed

LEMMA Went ==
  ASSUME TypeOK, NEW c \in Client, NEW pc, Goto(c, pc)
  PROVE  cl' = [cl EXCEPT ![c] = [pc |-> pc, name |-> cl[c].name]]
<1>1. cl[c] = [pc |-> cl[c].pc, name |-> cl[c].name]
  BY DEF TypeOK
<1>2. [cl[c] EXCEPT !.pc = pc] = [pc |-> pc, name |-> cl[c].name]
  BY <1>1
<1> QED  BY <1>2 DEF Goto

LEMMA ClientTypes ==
  ASSUME Typed, NEW c \in Client, Run(c) \/ Start(c) \/ Kill(c) \/ Logout(c)
  PROVE  Typed'
<1> USE PullAssumption
<1>1. TypeOK
  BY DEF Typed
<1>2. /\ cl[c].name \in Name \cup {None} /\ up \in [Client -> Seq(Up)]
      /\ down \in [Client -> Seq(Down)] /\ closed \in [Client -> BOOLEAN]
      /\ local \in [Client -> [Name -> File]]
  BY <1>1 DEF TypeOK
<1>3. CASE RecvLogin(c)
  <2>1. UNCHANGED <<home, srv, snap, local, closed>>
    BY <1>3 DEF RecvLogin
  <2>2. down' \in [Client -> Seq(Down)]
    BY <1>1, <1>3, Taken DEF RecvLogin
  <2>3. CASE Take(c, "OK") /\ Goto(c, IF local[c] = Nothing THEN "pull" ELSE "push") /\ up' = up
    <3> DEFINE pc == IF local[c] = Nothing THEN "pull" ELSE "push"
    <3>1. cl' = [cl EXCEPT ![c] = [pc |-> pc, name |-> cl[c].name]]
      BY <1>1, <2>3, Went
    <3>2. pc \in {"pull", "push"}
      OBVIOUS
    <3> HIDE DEF pc
    <3> QED  BY <1>2, <2>1, <2>2, <2>3, <3>1, <3>2, ClientKeeps
  <2>4. CASE Take(c, "FAIL") /\ Reply(c, "wrong") /\ cl' = cl
    <3>1. up' \in [Client -> Seq(Up)]
      BY <1>1, <2>4, Answered
    <3>2. TypeOK'
      BY <1>1, <2>1, <2>2, <2>4, <3>1 DEF TypeOK, home
    <3> QED  BY <2>1, <2>4, <3>2, SendingKept, SnapKept, ClKept DEF Typed
  <2> QED  BY <1>3, <2>3, <2>4 DEF RecvLogin
<1>4. CASE RecvHeader(c)
  <2>1. UNCHANGED <<home, srv, snap, local, closed, up>>
    BY <1>4 DEF RecvHeader
  <2>2. down' \in [Client -> Seq(Down)]
    BY <1>1, <1>4, Taken DEF RecvHeader
  <2>3. PICK pc \in {"meta", "watch"} : Goto(c, pc)
    BY <1>4 DEF RecvHeader
  <2>4. cl' = [cl EXCEPT ![c] = [pc |-> pc, name |-> cl[c].name]]
    BY <1>1, <2>3, Went
  <2> QED  BY <1>2, <2>1, <2>2, <2>3, <2>4, ClientKeeps
<1>5. CASE RecvMeta(c)
  <2>1. UNCHANGED <<home, srv, snap, local, closed>>
    BY <1>5 DEF RecvMeta
  <2>2. down' \in [Client -> Seq(Down)] /\ up' \in [Client -> Seq(Up)]
    BY <1>1, <1>5, Taken, Answered DEF RecvMeta
  <2>3. cl' = [cl EXCEPT ![c] = [pc |-> "path", name |-> cl[c].name]]
    BY <1>1, <1>5, Went DEF RecvMeta
  <2> QED  BY <1>2, <2>1, <2>2, <2>3, ClientKeeps
<1>6. CASE RecvPath(c)
  <2> DEFINE m == Head(down[c]).name
             pc == IF m \in Dir THEN "pull" ELSE "data"
  <2>1. UNCHANGED <<home, srv, snap, up, closed>>
    BY <1>6 DEF RecvPath
  <2>2. down' \in [Client -> Seq(Down)] /\ m \in Name
    BY <1>1, <1>6, Taken, Fields DEF RecvPath
  <2>3. local' = [local EXCEPT ![c][m] = <<>>]
    BY <1>6 DEF RecvPath
  <2>4. <<>> \in Seq(Piece)
    OBVIOUS
  <2>5. <<>> \in File /\ <<>> # None
    BY <2>4 DEF File
  <2>6. /\ local' \in [Client -> [Name -> File]] /\ local'[c][m] # None
        /\ \A d \in Client \ {c} : local'[d] = local[d]
    BY <1>2, <2>2, <2>3, <2>5
  <2>7. cl' = [cl EXCEPT ![c] = [pc |-> pc, name |-> m]]
    BY <1>6 DEF RecvPath
  <2>8. pc \in {"pull", "data"}
    OBVIOUS
  <2> HIDE DEF pc, m
  <2> QED  BY <1>2, <2>1, <2>2, <2>6, <2>7, <2>8, ClientKeeps
<1>7. CASE RecvBlock(c)
  <2> DEFINE p == Head(down[c]).piece
             pc == IF p \in Full THEN "data" ELSE "pull"
             n == cl[c].name
  <2>1. UNCHANGED <<home, srv, snap, up, closed>> /\ cl[c].pc = "data"
    BY <1>7 DEF RecvBlock
  <2>2. down' \in [Client -> Seq(Down)] /\ p \in Piece
    BY <1>1, <1>7, Taken, Fields DEF RecvBlock
  <2>3. n \in Name /\ local[c][n] \in Seq(Piece)
    BY <1>2, <2>1 DEF Typed, File
  <2>4. Append(local[c][n], p) \in Seq(Piece)
    BY <2>2, <2>3
  <2>5. Append(local[c][n], p) \in File /\ Append(local[c][n], p) # None
    BY <2>4 DEF File
  <2>6. local' = [local EXCEPT ![c][n] = Append(local[c][n], p)]
    BY <1>7 DEF RecvBlock
  <2>7. /\ local' \in [Client -> [Name -> File]] /\ local'[c][n] # None
        /\ \A d \in Client \ {c} : local'[d] = local[d]
    BY <1>2, <2>3, <2>5, <2>6
  <2>8. cl' = [cl EXCEPT ![c] = [pc |-> pc, name |-> n]]
    BY <1>1, <1>7, Went DEF RecvBlock
  <2>9. pc \in {"pull", "data"}
    OBVIOUS
  <2> HIDE DEF pc
  <2> QED  BY <1>2, <2>1, <2>2, <2>3, <2>7, <2>8, <2>9, ClientKeeps
<1>8. CASE ServerGone(c)
  <2>1. UNCHANGED <<home, srv, snap, local, up, down, closed>>
    BY <1>8 DEF ServerGone
  <2>2. PICK pc \in {"off", "watch"} : Goto(c, pc)
    BY <1>8 DEF ServerGone
  <2>3. cl' = [cl EXCEPT ![c] = [pc |-> pc, name |-> cl[c].name]]
    BY <1>1, <2>2, Went
  <2> QED  BY <1>2, <2>1, <2>2, <2>3, ClientKeeps
<1>9. CASE Start(c)
  <2>1. UNCHANGED <<home, srv, snap, local, down, closed>>
    BY <1>9 DEF Start
  <2>2. PICK k \in {"login", "wrong"} : Reply(c, k)
    BY <1>9 DEF Start
  <2>3. up' \in [Client -> Seq(Up)]
    BY <1>1, <2>2, Answered
  <2>4. cl' = [cl EXCEPT ![c] = [pc |-> "login", name |-> cl[c].name]]
    BY <1>1, <1>9, Went DEF Start
  <2> QED  BY <1>2, <2>1, <2>3, <2>4, ClientKeeps
<1>10. CASE Kill(c)
  <2>1. UNCHANGED <<home, srv, snap, local, up>>
    BY <1>10 DEF Kill
  <2>2. down' \in [Client -> Seq(Down)] /\ closed' \in [Client -> BOOLEAN]
    BY <1>2, <1>10 DEF Kill
  <2>3. cl' = [cl EXCEPT ![c] = [pc |-> "off", name |-> cl[c].name]]
    BY <1>1, <1>10, Went DEF Kill
  <2> QED  BY <1>2, <2>1, <2>2, <2>3, ClientKeeps
<1>11. CASE Logout(c)
  <2>1. UNCHANGED <<home, srv, snap, local, up, down, cl>> /\ closed' \in [Client -> BOOLEAN]
    BY <1>2, <1>11 DEF Logout
  <2>2. TypeOK'
    BY <1>1, <2>1 DEF TypeOK, home
  <2> QED  BY <2>1, <2>2, SendingKept, SnapKept, ClKept DEF Typed
<1> QED  BY <1>3, <1>4, <1>5, <1>6, <1>7, <1>8, <1>9, <1>10, <1>11 DEF Run

LEMMA TypesKept ==
  ASSUME Typed, [Next]_vars
  PROVE  Typed'
<1>1. CASE UNCHANGED vars
  <2>1. UNCHANGED <<home, srv, cl, local, up, down, closed, snap>>
    BY <1>1 DEF vars, home
  <2>2. TypeOK'
    BY <2>1 DEF TypeOK, Typed, home
  <2> QED  BY <2>1, <2>2, SendingKept, SnapKept, ClKept DEF Typed
<1>2. CASE Next
  BY <1>2, ServerTypes, LoginTypes, PushTypes, ClientTypes DEF Next
<1> QED  BY <1>1, <1>2

\* Every variable keeps its type, for all clients, homes and files: in particular the
\* server reads no block behind the end of a file (send.c 75-84).
THEOREM PullTypes == Spec => []TypeOK
<1>1. Init => Typed
  BY Initially DEF IInv
<1>2. Typed /\ [Next]_vars => Typed'
  BY TypesKept
<1>3. Typed => TypeOK
  BY DEF Typed
<1> QED  BY <1>1, <1>2, <1>3, PTL DEF Spec

-----------------------------------------------------------------------------
(* The streams.                                                            *)

\* A client keeps its place when nothing of it changes, and the server serves others.
LEMMA Elsewhere ==
  ASSUME NEW c, UpAt(c), DownAt(c),
         cl'[c] = cl[c], local'[c] = local[c], up'[c] = up[c], down'[c] = down[c],
         closed'[c] = closed[c], snap'[c] = snap[c],
         srv' = srv \/ (~Served(c) /\ ~Served(c)')
  PROVE  UpAt(c)' /\ DownAt(c)'
<1>1. UpAt(c)'
  BY DEF UpAt, Served, Busy
<1>2. ASSUME NEW q, NEW L, Rest(c, q, L)
      PROVE  Rest(c, q, L)'
  BY <1>2 DEF Rest, Sofar, Served, Busy
<1>3. ASSUME NEW q, NEW n, NEW j, NEW L, Blocks(c, q, n, j, L)
      PROVE  Blocks(c, q, n, j, L)'
  BY <1>2, <1>3 DEF Blocks, Served, Busy
<1>4. \A L, S : Sofar(c, L, S) => Sofar(c, L, S)'
  BY DEF Sofar
<1>5. cl[c].pc \in {"meta", "path"} /\ Served(c) => srv' = srv /\ Served(c)'
  BY DEF Served, Busy
<1>6. (cl[c].pc = "login" /\ up[c] = <<>> =>
          down[c] # <<>> /\ down[c][1] = Msg("OK") /\ (local[c] = Nothing => Rest(c, 1, Nothing)))'
  BY <1>2 DEF DownAt
<1>7. (cl[c].pc = "pull" => Rest(c, 0, local[c]))'
  BY <1>2 DEF DownAt
<1> QED  BY <1>1, <1>2, <1>3, <1>4, <1>5 DEF DownAt

LEMMA WholeFile ==
  ASSUME Typed, NEW c \in Client, NEW n \in Name \ Dir, snap[c][n] # None
  PROVE  /\ snap[c][n] \in Seq(Piece) /\ snap[c][n] \in File
         /\ Len(snap[c][n]) \in Nat /\ Len(snap[c][n]) > 0
         /\ \A i \in 1 .. Len(snap[c][n]) : snap[c][n][i] \in Full <=> i < Len(snap[c][n])
<1>1. snap[c][n] \in Content
  BY DEF Typed, Entry
<1> QED  BY <1>1, PullAssumption DEF File

\* What is served grows at its end, and every place of a client remains one.
LEMMA Extended ==
  ASSUME Typed, NEW c \in Client, UpAt(c), DownAt(c),
         ~closed[c], Served(c), srv.pc \in {"visit", "data"},
         UNCHANGED <<cl, local, up, closed, snap>>,
         down'[c] \in Seq(Down), Len(down'[c]) >= Len(down[c]),
         \A i \in 1 .. Len(down[c]) : down'[c][i] = down[c][i],
         \A q \in Nat, L \in [Name -> File] : Rest(c, q, L) => Rest(c, q, L)',
         \A q \in Nat, n \in Name, L \in [Name -> File] :
           \A j \in 0 .. Len(snap[c][n]) : Blocks(c, q, n, j, L) => Blocks(c, q, n, j, L)'
  PROVE  UpAt(c)' /\ DownAt(c)'
<1>1. /\ local[c] \in [Name -> File] /\ down[c] \in Seq(Down) /\ Nothing \in [Name -> File]
      /\ cl[c].pc = "data" => cl[c].name \in Name /\ local[c][cl[c].name] \in Seq(Piece)
  BY DEF Typed, TypeOK, File, Nothing
<1>2. up[c] = <<>> /\ cl[c].pc # "off"
  BY DEF UpAt
<1>3. UpAt(c)'
  BY <1>2 DEF UpAt
<1>4. cl[c].pc # "meta"
  BY DEF DownAt
<1>5. ASSUME cl[c].pc = "login"
      PROVE  /\ down'[c] # <<>> /\ down'[c][1] = Msg("OK")
             /\ local[c] = Nothing => Rest(c, 1, Nothing)'
  <2>1. down[c] # <<>> /\ down[c][1] = Msg("OK") /\ (local[c] = Nothing => Rest(c, 1, Nothing))
    BY <1>2, <1>5 DEF DownAt
  <2>2. local[c] = Nothing => Rest(c, 1, Nothing)'
    BY <1>1, <2>1
  <2> QED  BY <1>1, <2>1, <2>2
<1>6. ASSUME cl[c].pc = "pull"
      PROVE  Rest(c, 0, local[c])'
  <2>1. Rest(c, 0, local[c])
    BY <1>6 DEF DownAt
  <2> QED  BY <1>1, <2>1
<1>7. ASSUME cl[c].pc = "path"
      PROVE  /\ down'[c] # <<>>
             /\ \E m \in Name :
                  /\ down'[c][1] = Named("path", m) /\ snap[c][m] # None
                  /\ IF m \in Dir THEN Rest(c, 1, [local[c] EXCEPT ![m] = <<>>])'
                     ELSE Blocks(c, 1, m, 0, local[c])'
  <2>1. PICK m \in Name :
          /\ down[c] # <<>> /\ down[c][1] = Named("path", m) /\ snap[c][m] # None
          /\ IF m \in Dir THEN Rest(c, 1, [local[c] EXCEPT ![m] = <<>>])
             ELSE Blocks(c, 1, m, 0, local[c])
    BY <1>7 DEF DownAt
  <2>2. <<>> \in File
    BY DEF File
  <2>3. [local[c] EXCEPT ![m] = <<>>] \in [Name -> File]
    BY <1>1, <2>2
  <2>4. m \in Dir => Rest(c, 1, [local[c] EXCEPT ![m] = <<>>])'
    BY <2>1, <2>3
  <2>5. m \notin Dir => 0 \in 0 .. Len(snap[c][m])
    BY <2>1, WholeFile
  <2>6. m \notin Dir => Blocks(c, 1, m, 0, local[c])'
    BY <1>1, <2>1, <2>5
  <2>7. Len(down[c]) > 0 /\ down'[c] # <<>> /\ down'[c][1] = down[c][1]
    BY <1>1, <2>1
  <2> QED  BY <2>1, <2>4, <2>6, <2>7
<1>8. ASSUME cl[c].pc = "data"
      PROVE  LET n == cl[c].name IN
             /\ Blocks(c, 0, n, Len(local[c][n]), local[c])'
             /\ Len(local[c][n]) < Len(snap[c][n])
             /\ \A i \in 1 .. Len(local[c][n]) : local[c][n][i] = snap[c][n][i]
  <2> DEFINE n == cl[c].name
  <2>1. /\ Blocks(c, 0, n, Len(local[c][n]), local[c])
        /\ Len(local[c][n]) < Len(snap[c][n])
        /\ \A i \in 1 .. Len(local[c][n]) : local[c][n][i] = snap[c][n][i]
    BY <1>8 DEF DownAt
  <2>2. n \in Name /\ Len(local[c][n]) \in Nat
    BY <1>1, <1>8
  <2>3. Len(snap[c][n]) \in Nat
    BY <2>1, <2>2, WholeFile DEF Blocks
  <2>4. Len(local[c][n]) \in 0 .. Len(snap[c][n])
    BY <2>1, <2>2, <2>3
  <2> QED  BY <1>1, <2>1, <2>2, <2>4
<1> QED  BY <1>2, <1>3, <1>4, <1>5, <1>6, <1>7, <1>8 DEF DownAt

\* A step out of "visit" need not look at blocks that are in flight.
LEMMA BlocksFollow ==
  ASSUME Typed, NEW c \in Client, srv.pc = "visit",
         UNCHANGED snap,
         down[c] \in Seq(Down),
         \A i \in 1 .. Len(down[c]) : down'[c][i] = down[c][i],
         \A q \in Nat, L \in [Name -> File] : Rest(c, q, L) => Rest(c, q, L)'
  PROVE  \A q \in Nat, n \in Name, L \in [Name -> File] :
           \A j \in 0 .. Len(snap[c][n]) : Blocks(c, q, n, j, L) => Blocks(c, q, n, j, L)'
<1> SUFFICES ASSUME NEW q \in Nat, NEW n \in Name, NEW L \in [Name -> File],
                    NEW j \in 0 .. Len(snap[c][n]), Blocks(c, q, n, j, L)
             PROVE  Blocks(c, q, n, j, L)'
  OBVIOUS
<1> DEFINE x == snap[c][n]
<1>1. x \in File /\ Len(x) \in Nat
  BY WholeFile DEF Blocks
<1>2. /\ \A i \in 1 .. Len(x) - j : down[c][q + i] = Block(x[j + i])
      /\ Rest(c, q + Len(x) - j, [L EXCEPT ![n] = x])
  BY DEF Blocks
<1>3. q + Len(x) - j \in Nat /\ [L EXCEPT ![n] = x] \in [Name -> File]
  BY <1>1
<1>4. Rest(c, q + Len(x) - j, [L EXCEPT ![n] = x])'
  BY <1>2, <1>3
<1>5. Len(down[c]) \in Nat /\ Len(down[c]) >= q + Len(x) - j
  BY <1>2, <1>3 DEF Rest
<1>6. \A i \in 1 .. Len(x) - j : down'[c][q + i] = Block(x[j + i])
  <2>1. ASSUME NEW i \in 1 .. Len(x) - j PROVE down'[c][q + i] = Block(x[j + i])
    <3>1. q + i \in 1 .. Len(down[c])
      BY <1>1, <1>5
    <3> QED  BY <1>2, <3>1
  <2> QED  BY <2>1
<1> QED  BY <1>4, <1>6 DEF Blocks

\* A client that has left has no place in a stream.
LEMMA Left ==
  ASSUME NEW c, UpAt(c), closed[c],
         cl'[c] = cl[c], closed'[c] = closed[c], down'[c] = down[c],
         up'[c] # <<>> => Len(up'[c]) = 1
  PROVE  UpAt(c)' /\ DownAt(c)'
BY DEF UpAt, DownAt

LEMMA VisitInStep ==
  ASSUME Typed, srv.pc # "dead", InStep, Visit, NEW c, srv.cur = c
  PROVE  InStep'
<1> DEFINE a == AccountOf[c]
<1>0. PICK m \in srv.todo \cap Present(a) :
        IF ent[a][m] \in srv.hl THEN SendLink(m) ELSE SendMeta(m) \/ EndsAtLink(m)
  BY DEF Visit
<1>1. TypeOK /\ srv \in Server /\ srv.pc = "visit" /\ Busy /\ c \in Client /\ m \in Name /\ Served(c)
  BY <1>0 DEF Typed, TypeOK, Visit, Sending, Busy, Present, Served
<1>2. UNCHANGED <<cl, local, up, closed, snap>>
  BY DEF Visit
<1>3. CASE EndsAtLink(m)
  BY <1>1, <1>3 DEF EndsAtLink, InStep, Server
<1>4. CASE SendLink(m) \/ SendMeta(m)
  <2>1. /\ srv'.pc \in {"echo", "hlEcho"} /\ srv'.cur = c /\ srv'.todo = srv.todo \ {m}
        /\ srv'.name = m
    BY <1>1, <1>4 DEF SendLink, SendMeta, Server
  <2>2. PICK w \in Seq(Down) :
          /\ Send(c, w) /\ Len(w) = 2 /\ w[1] = Msg("more")
          /\ w[2] = IF srv'.pc = "echo" THEN Named("meta", m) ELSE Msg("hl")
    <3>1. CASE SendLink(m)
      <4>1. srv'.pc = "hlEcho" /\ Send(c, <<Msg("more"), Msg("hl")>>)
        BY <1>1, <3>1 DEF SendLink, Server
      <4>2. <<Msg("more"), Msg("hl")>> \in Seq(Down)
        BY Kinds
      <4> QED  BY <4>1, <4>2
    <3>2. CASE SendMeta(m)
      <4>1. srv'.pc = "echo" /\ Send(c, <<Msg("more"), Named("meta", m)>>)
        BY <1>1, <3>2 DEF SendMeta, Server
      <4>2. <<Msg("more"), Named("meta", m)>> \in Seq(Down)
        BY <1>1, Kinds
      <4> QED  BY <4>1, <4>2
    <3> QED  BY <1>4, <3>1, <3>2
  <2>3. /\ down'[c] \in Seq(Down) /\ \A d \in Client \ {c} : down'[d] = down[d]
        /\ closed[c] => down'[c] = down[c]
        /\ ~closed[c] =>
             /\ Len(down'[c]) = Len(down[c]) + 2
             /\ \A i \in 1 .. Len(down[c]) : down'[c][i] = down[c][i]
             /\ \A i \in 1 .. 2 : down'[c][Len(down[c]) + i] = w[i]
    <3>1. /\ down' \in [Client -> Seq(Down)]
          /\ \A d \in Client \ {c} : down'[d] = down[d]
          /\ closed[c] => down'[c] = down[c]
          /\ ~closed[c] =>
               /\ Len(down'[c]) = Len(down[c]) + Len(w)
               /\ \A i \in 1 .. Len(down[c]) : down'[c][i] = down[c][i]
               /\ \A i \in 1 .. Len(w) : down'[c][Len(down[c]) + i] = w[i]
      BY <1>1, <2>2, Sent
    <3> QED  BY <1>1, <2>2, <3>1
  <2>4. ASSUME NEW d \in Client \ {c} PROVE UpAt(d)' /\ DownAt(d)'
    <3>1. ~Served(d) /\ ~Served(d)' /\ UpAt(d) /\ DownAt(d)
      BY <1>1, <2>1 DEF Served, InStep
    <3> QED  BY <1>2, <2>3, <3>1, Elsewhere
  <2>5. CASE closed[c]
    <3>1. UpAt(c)
      BY <1>1 DEF InStep
    <3>2. UpAt(c)' /\ DownAt(c)'
      BY <1>2, <2>3, <2>5, <3>1, Left DEF UpAt
    <3> QED  BY <2>4, <3>2 DEF InStep
  <2>6. CASE ~closed[c]
    <3>1. ASSUME NEW q \in Nat, NEW L \in [Name -> File], Rest(c, q, L)
          PROVE  Rest(c, q, L)'
      <4>1. Len(down[c]) = q /\ Sofar(c, L, srv.todo)
        BY <1>1, <3>1 DEF Rest
      <4>2. Len(down'[c]) = q + 2 /\ down'[c][q + 1] = w[1] /\ down'[c][q + 2] = w[2]
        BY <2>3, <2>6, <4>1
      <4>3. Served(c)'
        BY <1>1, <2>1 DEF Served, Busy
      <4>4. srv'.todo \cup {srv'.name} = srv.todo
        BY <1>0, <2>1
      <4>5. Sofar(c, L, srv.todo \cup {srv.name})'
        BY <1>2, <4>1, <4>4 DEF Sofar
      <4>6. CASE srv'.pc = "echo"
        BY <2>1, <2>2, <4>2, <4>3, <4>5, <4>6 DEF Rest
      <4>7. CASE srv'.pc = "hlEcho"
        BY <2>1, <2>2, <4>2, <4>3, <4>7 DEF Rest
      <4> QED  BY <2>1, <4>6, <4>7
    <3>2. down[c] \in Seq(Down) /\ UpAt(c) /\ DownAt(c)
      BY <1>1 DEF TypeOK, InStep
    <3>3. \A q \in Nat, n \in Name, L \in [Name -> File] :
            \A j \in 0 .. Len(snap[c][n]) : Blocks(c, q, n, j, L) => Blocks(c, q, n, j, L)'
      BY <1>1, <1>2, <2>3, <2>6, <3>1, <3>2, BlocksFollow
    <3>4. Len(down'[c]) >= Len(down[c])
      BY <2>3, <2>6, <3>2
    <3>5. UpAt(c)' /\ DownAt(c)'
      BY <1>1, <1>2, <2>3, <2>6, <3>1, <3>2, <3>3, <3>4, Extended
    <3> QED  BY <2>4, <3>5 DEF InStep
  <2> QED  BY <2>5, <2>6
<1> QED  BY <1>0, <1>3, <1>4

LEMMA FinishInStep ==
  ASSUME Typed, srv.pc # "dead", InStep, Finish, NEW c, srv.cur = c
  PROVE  InStep'
<1>1. /\ TypeOK /\ srv \in Server /\ srv.pc = "visit" /\ Busy /\ c \in Client /\ Served(c)
      /\ srv.todo = {}
  BY DEF Typed, TypeOK, Finish, Sending, Busy, Served
<1>2. UNCHANGED <<cl, local, up, closed, snap>> /\ srv'.pc = "select"
  BY DEF Finish, Idle
<1>3. <<Msg("end")>> \in Seq(Down) /\ Send(c, <<Msg("end")>>)
  BY Kinds DEF Finish, SayEnd
<1>4. /\ down'[c] \in Seq(Down) /\ \A d \in Client \ {c} : down'[d] = down[d]
      /\ closed[c] => down'[c] = down[c]
      /\ ~closed[c] =>
           /\ Len(down'[c]) = Len(down[c]) + 1
           /\ \A i \in 1 .. Len(down[c]) : down'[c][i] = down[c][i]
           /\ down'[c][Len(down[c]) + 1] = Msg("end")
  <2> DEFINE w == <<Msg("end")>>
  <2>1. Len(w) = 1 /\ w[1] = Msg("end")
    OBVIOUS
  <2>2. w \in Seq(Down) /\ Send(c, w)
    BY <1>3
  <2> HIDE DEF w
  <2>3. /\ down' \in [Client -> Seq(Down)]
        /\ \A d \in Client \ {c} : down'[d] = down[d]
        /\ closed[c] => down'[c] = down[c]
        /\ ~closed[c] =>
             /\ Len(down'[c]) = Len(down[c]) + Len(w)
             /\ \A i \in 1 .. Len(down[c]) : down'[c][i] = down[c][i]
             /\ \A i \in 1 .. Len(w) : down'[c][Len(down[c]) + i] = w[i]
    BY <1>1, <2>2, Sent
  <2> QED  BY <1>1, <2>1, <2>3
<1>5. \A d : ~Served(d)'
  BY <1>2 DEF Served, Busy
<1>6. ASSUME NEW d \in Client \ {c} PROVE UpAt(d)' /\ DownAt(d)'
  <2>1. ~Served(d) /\ UpAt(d) /\ DownAt(d)
    BY <1>1 DEF Served, InStep
  <2> QED  BY <1>2, <1>4, <1>5, <2>1, Elsewhere
<1>7. CASE closed[c]
  <2>1. UpAt(c)
    BY <1>1 DEF InStep
  <2>2. UpAt(c)' /\ DownAt(c)'
    BY <1>2, <1>4, <1>7, <2>1, Left DEF UpAt
  <2> QED  BY <1>6, <2>2 DEF InStep
<1>8. CASE ~closed[c]
  <2>1. ASSUME NEW q \in Nat, NEW L \in [Name -> File], Rest(c, q, L)
        PROVE  Rest(c, q, L)'
    <3>1. Len(down[c]) = q /\ Sofar(c, L, {})
      BY <1>1, <2>1 DEF Rest
    <3>2. Len(down'[c]) = q + 1 /\ down'[c][q + 1] = Msg("end")
      BY <1>4, <1>8, <3>1
    <3>3. Sofar(c, L, {})'
      BY <1>2, <3>1 DEF Sofar
    <3> QED  BY <1>5, <3>2, <3>3 DEF Rest
  <2>2. down[c] \in Seq(Down) /\ UpAt(c) /\ DownAt(c)
    BY <1>1 DEF TypeOK, InStep
  <2>3. \A q \in Nat, n \in Name, L \in [Name -> File] :
          \A j \in 0 .. Len(snap[c][n]) : Blocks(c, q, n, j, L) => Blocks(c, q, n, j, L)'
    BY <1>1, <1>2, <1>4, <1>8, <2>1, <2>2, BlocksFollow
  <2>4. Len(down'[c]) >= Len(down[c])
    BY <1>4, <1>8, <2>2
  <2>5. UpAt(c)' /\ DownAt(c)'
    BY <1>1, <1>2, <1>4, <1>8, <2>1, <2>2, <2>3, <2>4, Extended
  <2> QED  BY <1>6, <2>5 DEF InStep
<1> QED  BY <1>7, <1>8

LEMMA EchoInStep ==
  ASSUME Typed, srv.pc # "dead", InStep, RecvEcho, NEW c, srv.cur = c, NEW n, srv.name = n
  PROVE  InStep'
<1>1. /\ TypeOK /\ srv \in Server /\ srv.pc = "echo" /\ Busy /\ c \in Client /\ Served(c)
      /\ n \in Name \ srv.todo /\ snap[c][n] # None
  BY DEF Typed, TypeOK, RecvEcho, Sending, Busy, Served
<1>2. UNCHANGED <<cl, local, closed, snap>> /\ up[c] # <<>> /\ up' = [up EXCEPT ![c] = Tail(@)]
  BY DEF RecvEcho
<1>3. /\ srv'.cur = c /\ srv'.todo = srv.todo /\ srv'.name = n
      /\ srv'.pc = IF n \in Dir THEN "visit" ELSE "data"
      /\ n \notin Dir => srv'.pos = 1
  BY <1>1 DEF RecvEcho, Server
<1>4. Served(c)' /\ \A d \in Client \ {c} : ~Served(d) /\ ~Served(d)'
  BY <1>1, <1>3 DEF Served, Busy
<1> DEFINE w == <<Named("path", n)>>
<1>5. w \in Seq(Down) /\ Send(c, w) /\ Len(w) = 1 /\ w[1] = Named("path", n)
  <2>1. Named("path", n) \in Down
    BY <1>1, Kinds
  <2> QED  BY <2>1 DEF RecvEcho
<1> HIDE DEF w
<1>6. /\ down' \in [Client -> Seq(Down)]
      /\ \A d \in Client \ {c} : down'[d] = down[d]
      /\ closed[c] => down'[c] = down[c]
      /\ ~closed[c] =>
           /\ Len(down'[c]) = Len(down[c]) + Len(w)
           /\ \A i \in 1 .. Len(w) : down'[c][Len(down[c]) + i] = w[i]
  BY <1>1, <1>5, Sent
<1>7. /\ up[c] \in Seq(Up) /\ Len(up[c]) = 1 /\ up'[c] = <<>>
      /\ \A d \in Client \ {c} : up'[d] = up[d]
  <2>1. up \in [Client -> Seq(Up)] /\ Len(up[c]) = 1
    BY <1>1, <1>2 DEF InStep, UpAt, TypeOK
  <2>2. up'[c] = Tail(up[c]) /\ \A d \in Client \ {c} : up'[d] = up[d]
    BY <1>1, <1>2, <2>1
  <2>3. up[c] \in Seq(Up)
    BY <1>1, <2>1
  <2>4. Tail(up[c]) = <<>>
    BY <2>1, <2>3, LastMessage
  <2> QED  BY <2>1, <2>2, <2>3, <2>4
<1>8. ASSUME NEW d \in Client \ {c} PROVE UpAt(d)' /\ DownAt(d)'
  <2>1. UpAt(d) /\ DownAt(d)
    BY <1>1 DEF InStep
  <2> QED  BY <1>2, <1>4, <1>6, <1>7, <2>1, Elsewhere
<1>9. CASE closed[c]
  <2>1. UpAt(c)
    BY <1>1 DEF InStep
  <2>2. UpAt(c)' /\ DownAt(c)'
    BY <1>2, <1>6, <1>7, <1>9, <2>1, Left
  <2> QED  BY <1>8, <2>2 DEF InStep
<1>10. CASE ~closed[c]
  <2>1. cl[c].pc = "path" /\ down[c] = <<>> /\ DownAt(c)
    BY <1>1, <1>2, <1>10 DEF InStep, UpAt
  <2>2. Len(down'[c]) = 1 /\ down'[c][1] = Named("path", n) /\ down'[c] # <<>>
    BY <1>5, <1>6, <1>10, <2>1
  <2>3. Sofar(c, local[c], srv.todo \cup {n})
    BY <2>1 DEF DownAt
  <2>4. local[c] \in [Name -> File]
    BY <1>1 DEF TypeOK
  <2>5. CASE n \in Dir
    <3> DEFINE L == [local[c] EXCEPT ![n] = <<>>]
    <3>1. snap[c][n] = <<>>
      BY <1>1, <2>5, PullAssumption DEF Typed, Entry
    <3>2. \A m \in Name : L[m] = IF m \in srv.todo THEN None ELSE snap[c][m]
      BY <1>1, <2>3, <2>4, <3>1 DEF Sofar
    <3>3. Rest(c, 1, [local[c] EXCEPT ![n] = <<>>])'
      BY <1>2, <1>3, <1>4, <2>2, <2>5, <3>2 DEF Rest, Sofar
    <3>4. DownAt(c)'
      BY <1>1, <1>2, <1>7, <2>1, <2>2, <2>5, <3>3 DEF DownAt
    <3> QED  BY <1>2, <1>7, <1>8, <1>10, <2>1, <3>4 DEF InStep, UpAt
  <2>6. CASE n \notin Dir
    <3>1. \A m \in Name \ {n} : local[c][m] = IF m \in srv.todo THEN None ELSE snap[c][m]
      BY <2>3 DEF Sofar
    <3>2. /\ n \in Name \ Dir /\ snap'[c][n] # None
          /\ Served(c)' /\ srv'.pc = "data" /\ srv'.name = n /\ 0 < srv'.pos
          /\ Len(down'[c]) = 1 + srv'.pos - 1 - 0
          /\ srv'.pos - 1 - 0 = 0
      BY <1>1, <1>2, <1>3, <1>4, <2>2, <2>6
    <3>3. Blocks(c, 1, n, 0, local[c])'
      BY <1>2, <1>3, <3>1, <3>2 DEF Blocks
    <3>4. DownAt(c)'
      BY <1>1, <1>2, <1>7, <2>1, <2>2, <2>6, <3>3 DEF DownAt
    <3> QED  BY <1>2, <1>7, <1>8, <1>10, <2>1, <3>4 DEF InStep, UpAt
  <2> QED  BY <2>5, <2>6
<1> QED  BY <1>9, <1>10

LEMMA BlockInStep ==
  ASSUME Typed, srv.pc # "dead", InStep, SendBlock, NEW c, srv.cur = c, NEW n, srv.name = n
  PROVE  InStep'
<1> DEFINE x == snap[c][n]
           k == srv.pos
           p == dat[AccountOf[c]][ent[AccountOf[c]][n]][k]
<1>1. /\ TypeOK /\ srv \in Server /\ srv.pc = "data" /\ Busy /\ c \in Client /\ Served(c)
      /\ n \in Name \ srv.todo /\ snap[c][n] # None /\ n \notin Dir /\ k \in 1 .. Len(x)
  BY DEF Typed, TypeOK, SendBlock, Sending, Busy, Served
<1>2. UNCHANGED <<cl, local, up, closed, snap>>
  BY DEF SendBlock
<1>3. p = x[k] /\ p \in Piece /\ (p \in Full <=> k < Len(x)) /\ Len(x) \in Nat
  <2>1. n \in Present(AccountOf[c]) \ Dir
    BY <1>1, Frozen
  <2>2. dat[AccountOf[c]][ent[AccountOf[c]][n]] = x
    BY <1>1, <2>1, Frozen
  <2> QED  BY <1>1, <2>2, WholeFile
<1> DEFINE w == <<Block(p)>>
<1>4. w \in Seq(Down) /\ Send(c, w) /\ Len(w) = 1 /\ w[1] = Block(x[k])
  <2>1. Block(p) \in Down
    BY <1>3, Kinds
  <2>2. Send(c, w)
    BY DEF SendBlock
  <2> QED  BY <1>3, <2>1, <2>2
<1>5. /\ srv'.cur = c /\ srv'.todo = srv.todo /\ srv'.name = n
      /\ k < Len(x) => srv'.pc = "data" /\ srv'.pos = k + 1
      /\ k = Len(x) => srv'.pc = "visit"
  <2>1. srv' = IF p \in Full THEN [srv EXCEPT !.pos = @ + 1] ELSE [srv EXCEPT !.pc = "visit"]
    BY DEF SendBlock
  <2> HIDE DEF p, x
  <2>2. CASE k < Len(x)
    BY <1>1, <1>3, <2>1, <2>2 DEF Server
  <2>3. CASE k = Len(x)
    BY <1>1, <1>3, <2>1, <2>3 DEF Server
  <2> QED  BY <1>1, <2>2, <2>3
<1> HIDE DEF w, p
<1>6. Served(c)' /\ \A d \in Client \ {c} : ~Served(d) /\ ~Served(d)'
  BY <1>1, <1>3, <1>5 DEF Served, Busy
<1>7. /\ down' \in [Client -> Seq(Down)]
      /\ \A d \in Client \ {c} : down'[d] = down[d]
      /\ closed[c] => down'[c] = down[c]
      /\ ~closed[c] =>
           /\ Len(down'[c]) = Len(down[c]) + Len(w)
           /\ \A i \in 1 .. Len(down[c]) : down'[c][i] = down[c][i]
           /\ \A i \in 1 .. Len(w) : down'[c][Len(down[c]) + i] = w[i]
  BY <1>1, <1>4, Sent
<1>8. ASSUME NEW d \in Client \ {c} PROVE UpAt(d)' /\ DownAt(d)'
  <2>1. UpAt(d) /\ DownAt(d)
    BY <1>1 DEF InStep
  <2> QED  BY <1>2, <1>6, <1>7, <2>1, Elsewhere
<1>9. CASE closed[c]
  <2>1. UpAt(c)
    BY <1>1 DEF InStep
  <2>2. UpAt(c)' /\ DownAt(c)'
    BY <1>2, <1>7, <1>9, <2>1, Left DEF UpAt
  <2> QED  BY <1>8, <2>2 DEF InStep
<1>10. CASE ~closed[c]
  <2>1. down[c] \in Seq(Down) /\ UpAt(c) /\ DownAt(c)
    BY <1>1 DEF TypeOK, InStep
  <2>2. /\ Len(down'[c]) = Len(down[c]) + 1 /\ down'[c][Len(down[c]) + 1] = Block(x[k])
        /\ \A i \in 1 .. Len(down[c]) : down'[c][i] = down[c][i]
    BY <1>4, <1>7, <1>10
  <2>3. ASSUME NEW q \in Nat, NEW m \in Name, NEW L \in [Name -> File],
               NEW j \in 0 .. Len(snap[c][m]), Blocks(c, q, m, j, L)
        PROVE  Blocks(c, q, m, j, L)'
    <3>1. /\ m = n /\ j < k /\ Len(down[c]) = q + k - 1 - j
          /\ \A i \in 1 .. k - 1 - j : down[c][q + i] = Block(x[j + i])
          /\ \A l \in Name \ {n} : L[l] = IF l \in srv.todo THEN None ELSE snap[c][l]
      BY <1>1, <2>3 DEF Blocks, Rest
    <3>2. j \in Nat /\ k \in Nat /\ Len(down[c]) = q + k - 1 - j
      BY <1>1, <1>3, <3>1
    <3>3. \A i \in 1 .. k - j : down'[c][q + i] = Block(x[j + i])
      <4>1. ASSUME NEW i \in 1 .. k - j PROVE down'[c][q + i] = Block(x[j + i])
        <5>1. CASE i = k - j
          <6>1. q + i = Len(down[c]) + 1 /\ j + i = k
            BY <3>2, <5>1, SMTT(30)
          <6> QED  BY <2>2, <6>1
        <5>2. CASE i # k - j
          <6>1. i \in 1 .. k - 1 - j /\ q + i \in 1 .. Len(down[c])
            BY <3>1, <3>2, <5>2
          <6> QED  BY <2>2, <3>1, <6>1
        <5> QED  BY <5>1, <5>2
      <4> QED  BY <4>1
    <3>4. CASE k < Len(x)
      <4>1. srv'.pos - 1 - j = k - j /\ j < srv'.pos /\ Len(down'[c]) = q + srv'.pos - 1 - j
        BY <1>5, <2>2, <3>1, <3>2, <3>4
      <4> QED  BY <1>1, <1>2, <1>5, <1>6, <3>1, <3>3, <3>4, <4>1 DEF Blocks
    <3>5. CASE k = Len(x)
      <4> DEFINE M == [L EXCEPT ![n] = x]
      <4>1. \A l \in Name : M[l] = IF l \in srv.todo THEN None ELSE snap[c][l]
        BY <1>1, <3>1
      <4>2. Len(down'[c]) = q + Len(x) - j
        BY <2>2, <3>2, <3>5
      <4>3. Rest(c, q + Len(x) - j, M)'
        BY <1>2, <1>5, <1>6, <3>5, <4>1, <4>2 DEF Rest, Sofar
      <4> QED  BY <1>1, <1>2, <3>1, <3>3, <3>5, <4>3 DEF Blocks
    <3> QED  BY <1>1, <1>3, <3>4, <3>5
  <2>4. ASSUME NEW q \in Nat, NEW L \in [Name -> File], Rest(c, q, L)
        PROVE  FALSE
    BY <1>1, <2>4 DEF Rest
  <2>5. Len(down'[c]) >= Len(down[c]) /\ down'[c] \in Seq(Down)
    BY <1>1, <1>7, <2>1, <2>2
  <2>6. UpAt(c)' /\ DownAt(c)'
    BY <1>1, <1>2, <1>10, <2>1, <2>2, <2>3, <2>4, <2>5, Extended
  <2> QED  BY <1>8, <2>6 DEF InStep
<1> QED  BY <1>9, <1>10

LEMMA ServerInStep ==
  ASSUME Typed, srv.pc # "dead", InStep, Handle
  PROVE  InStep'
<1>1. CASE Garbled
  <2>1. PICK c : c = srv.cur
    OBVIOUS
  <2>2. /\ c \in Client /\ UNCHANGED <<cl, local, up, down, closed, snap>> /\ srv'.pc = "lost"
        /\ cl[c].pc = "push"
    BY <1>1, <2>1 DEF Garbled, Typed, TypeOK, Server, Sending, Busy
  <2>3. \A d : ~Served(d)'
    BY <2>2 DEF Served, Busy
  <2>4. ASSUME NEW d \in Client \ {c} PROVE UpAt(d)' /\ DownAt(d)'
    <3>1. UpAt(d) /\ DownAt(d) /\ ~Served(d)
      BY <2>1, <2>4 DEF InStep, Served
    <3> QED  BY <2>2, <2>3, <3>1, Elsewhere
  <2>5. UpAt(c) /\ DownAt(c)
    BY <2>2 DEF InStep
  <2>6. UpAt(c)' /\ DownAt(c)'
    BY <2>2, <2>5 DEF UpAt, DownAt
  <2> QED  BY <2>4, <2>6 DEF InStep
<1>2. CASE BrokenPipe
  BY <1>2 DEF BrokenPipe, InStep, Typed, TypeOK, Server
<1> QED  BY <1>1, <1>2, VisitInStep, FinishInStep, EchoInStep, BlockInStep DEF Handle

-----------------------------------------------------------------------------
(* The other steps.                                                        *)

LEMMA LoginInStep ==
  ASSUME Typed, srv.pc # "dead", InStep, NEW c \in Client, ServeLogin(c)
  PROVE  InStep'
<1> DEFINE b == AccountOf[c]
<1>1. /\ TypeOK /\ srv \in Server /\ srv.pc = "select" /\ up[c] # <<>>
      /\ up' = [up EXCEPT ![c] = Tail(@)] /\ b \in Account
  BY PullAssumption DEF Typed, TypeOK, ServeLogin
<1>2. UNCHANGED <<home, cl, local, closed>>
  BY DEF ServeLogin
<1>3. CASE Refuse(c)
  BY <1>1, <1>3 DEF Refuse, InStep, Server
<1>4. CASE Accept(c)
  <2>1. /\ srv' = IF Present(b) = {} THEN srv
                  ELSE [Idle EXCEPT !.pc = "visit", !.cur = c, !.todo = Present(b)]
        /\ snap' = [snap EXCEPT ![c] = View(b)]
    BY <1>4 DEF Accept
  <2>2. \/ srv' = srv /\ Present(b) = {}
        \/ srv'.pc = "visit" /\ srv'.cur = c /\ srv'.todo = Present(b)
    BY <2>1 DEF Idle
  <2>3. (\A d : ~Served(d)) /\ \A d \in Client \ {c} : ~Served(d)'
    BY <1>1, <2>2 DEF Served, Busy
  <2> DEFINE w == <<Msg("OK")>>
  <2>4. w \in Seq(Down) /\ Send(c, w) /\ Len(w) = 1 /\ w[1] = Msg("OK")
    BY <1>4, Kinds DEF Accept
  <2> HIDE DEF w
  <2>5. /\ down' \in [Client -> Seq(Down)]
        /\ \A d \in Client \ {c} : down'[d] = down[d]
        /\ closed[c] => down'[c] = down[c]
        /\ ~closed[c] =>
             /\ Len(down'[c]) = Len(down[c]) + Len(w)
             /\ \A i \in 1 .. Len(w) : down'[c][Len(down[c]) + i] = w[i]
    BY <1>1, <2>4, Sent
  <2>6. up'[c] = <<>> /\ \A d \in Client \ {c} : up'[d] = up[d]
    <3>1. up \in [Client -> Seq(Up)] /\ Len(up[c]) = 1
      BY <1>1 DEF InStep, UpAt, TypeOK
    <3>2. Tail(up[c]) = <<>>
      BY <3>1, LastMessage
    <3> QED  BY <1>1, <3>1, <3>2
  <2>7. ASSUME NEW d \in Client \ {c} PROVE UpAt(d)' /\ DownAt(d)'
    <3>1. snap'[d] = snap[d]
      BY <1>1, <2>1 DEF TypeOK
    <3>2. UpAt(d) /\ DownAt(d)
      BY <1>1 DEF InStep
    <3> QED  BY <1>2, <2>3, <2>5, <2>6, <3>1, <3>2, Elsewhere
  <2>8. UpAt(c) /\ DownAt(c)
    BY <1>1 DEF InStep
  <2>9. CASE closed[c]
    <3>1. UpAt(c)' /\ DownAt(c)'
      BY <1>2, <2>5, <2>6, <2>8, <2>9, Left
    <3> QED  BY <2>7, <3>1 DEF InStep
  <2>10. CASE ~closed[c]
    <3>1. cl[c].pc = "login" /\ down[c] = <<>>
      BY <1>1, <2>3, <2>8, <2>10 DEF UpAt, Served, Busy
    <3>2. Len(down'[c]) = 1 /\ down'[c][1] = Msg("OK") /\ down'[c] # <<>>
      BY <2>4, <2>5, <2>10, <3>1
    <3>3. snap'[c] = View(b)
      BY <1>1, <2>1 DEF TypeOK
    <3>4. \A n \in Name : View(b)[n] = None <=> n \notin Present(b)
      <4>1. <<>> \in Seq(Piece) /\ Content \subseteq Seq(Piece) /\ None \notin Seq(Piece)
        BY PullAssumption
      <4>2. \A n \in Present(b) : ent[b][n] \in Inode /\ dat[b][ent[b][n]] \in Content
        BY <1>1 DEF TypeOK, Present
      <4> QED  BY <4>1, <4>2 DEF View, Present
    <3>5. Rest(c, 1, Nothing)'
      <4>1. CASE srv' = srv /\ Present(b) = {}
        <5>1. View(b) = Nothing
          BY <3>4, <4>1 DEF View, Nothing
        <5>2. ~Served(c)'
          BY <1>1, <4>1 DEF Served, Busy
        <5> QED  BY <3>2, <3>3, <5>1, <5>2 DEF Rest, Nothing
      <4>2. CASE srv'.pc = "visit" /\ srv'.cur = c /\ srv'.todo = Present(b)
        <5>1. \A n \in Name : Nothing[n] = IF n \in srv'.todo THEN None ELSE snap'[c][n]
          BY <3>3, <3>4, <4>2 DEF Nothing
        <5> QED  BY <3>2, <4>2, <5>1 DEF Rest, Sofar, Served, Busy, Nothing
      <4> QED  BY <2>2, <4>1, <4>2
    <3>6. UpAt(c)' /\ DownAt(c)'
      BY <1>2, <2>6, <2>10, <3>1, <3>2, <3>5 DEF UpAt, DownAt
    <3> QED  BY <2>7, <3>6 DEF InStep
  <2> QED  BY <2>9, <2>10
<1> QED  BY <1>3, <1>4 DEF ServeLogin

\* A message that is taken from the front of a stream.
LEMMA RestTaken ==
  ASSUME NEW c, NEW q \in Nat, NEW L, Rest(c, q + 1, L),
         srv' = srv, snap' = snap, Len(down[c]) \in Nat,
         Len(down'[c]) = Len(down[c]) - 1,
         \A i \in 1 .. Len(down'[c]) : down'[c][i] = down[c][i + 1]
  PROVE  Rest(c, q, L)'
<1>1. Served(c)' <=> Served(c)
  BY DEF Served, Busy
<1>2. \A S : Sofar(c, L, S) => Sofar(c, L, S)'
  BY DEF Sofar
<1> QED  BY <1>1, <1>2 DEF Rest

LEMMA BlocksTaken ==
  ASSUME Typed, NEW c \in Client, NEW n \in Name \ Dir, snap[c][n] # None,
         NEW q \in {0, 1}, NEW j \in Nat, NEW k \in 0 .. Len(snap[c][n]), k = j + 1 - q,
         NEW L \in [Name -> File], NEW M \in [Name -> File],
         \A m \in Name \ {n} : M[m] = L[m],
         Blocks(c, q, n, j, L),
         srv' = srv, snap' = snap, Len(down[c]) \in Nat, Len(down[c]) > 0,
         Len(down'[c]) = Len(down[c]) - 1,
         \A i \in 1 .. Len(down'[c]) : down'[c][i] = down[c][i + 1]
  PROVE  Blocks(c, 0, n, k, M)'
<1> DEFINE x == snap[c][n]
<1>1. Len(x) \in Nat /\ x \in File
  BY WholeFile
<1>2. Served(c)' <=> Served(c)
  BY DEF Served, Busy
<1>3. CASE /\ Served(c) /\ srv.pc = "data" /\ srv.name = n
           /\ j < srv.pos /\ Len(down[c]) = q + srv.pos - 1 - j
           /\ \A i \in 1 .. srv.pos - 1 - j : down[c][q + i] = Block(x[j + i])
           /\ \A m \in Name \ {n} : L[m] = IF m \in srv.todo THEN None ELSE snap[c][m]
  <2>1. srv.pos \in Nat
    BY DEF Typed, TypeOK, Server
  <2>2. k < srv.pos /\ Len(down'[c]) = 0 + srv.pos - 1 - k
    BY <1>3, <2>1
  <2>3. \A i \in 1 .. srv.pos - 1 - k : down'[c][0 + i] = Block(x[k + i])
    <3>1. ASSUME NEW i \in 1 .. srv.pos - 1 - k PROVE down'[c][0 + i] = Block(x[k + i])
      <4>1. down'[c][i] = down[c][i + 1]
        BY <2>1, <2>2, SMTT(30)
      <4>2. i + 1 - q \in 1 .. srv.pos - 1 - j /\ q + (i + 1 - q) = i + 1 /\ j + (i + 1 - q) = k + i
        BY <2>1
      <4>3. down[c][i + 1] = Block(x[k + i])
        BY <1>3, <4>2
      <4> QED  BY <4>1, <4>3
    <3> QED  BY <3>1
  <2>4. \A m \in Name \ {n} : M[m] = IF m \in srv.todo THEN None ELSE snap[c][m]
    BY <1>3
  <2> QED  BY <1>2, <1>3, <2>2, <2>3, <2>4 DEF Blocks
<1>4. CASE /\ \A i \in 1 .. Len(x) - j : down[c][q + i] = Block(x[j + i])
           /\ Rest(c, q + Len(x) - j, [L EXCEPT ![n] = x])
  <2>1. Len(x) - k \in Nat /\ q + Len(x) - j = (Len(x) - k) + 1
    BY <1>1
  <2>2. [M EXCEPT ![n] = x] = [L EXCEPT ![n] = x]
    BY <1>1
  <2>3. Rest(c, Len(x) - k, [M EXCEPT ![n] = x])'
    BY <1>4, <2>1, <2>2, RestTaken
  <2>4. Len(down[c]) >= Len(x) - k + 1
    BY <1>4, <2>1 DEF Rest
  <2>5. ASSUME NEW i \in 1 .. Len(x) - k PROVE down'[c][0 + i] = Block(x[k + i])
    <3>1. down'[c][i] = down[c][i + 1]
      BY <2>1, <2>4
    <3>2. i + 1 - q \in 1 .. Len(x) - j /\ q + (i + 1 - q) = i + 1 /\ j + (i + 1 - q) = k + i
      BY <1>1
    <3>3. down[c][i + 1] = Block(x[k + i])
      BY <1>4, <3>2
    <3> QED  BY <3>1, <3>3
  <2>6. 0 + Len(x) - k = Len(x) - k
    BY <2>1
  <2>7. \A i \in 1 .. Len(snap'[c][n]) - k : down'[c][0 + i] = Block(snap'[c][n][k + i])
    BY <2>5
  <2>8. Rest(c, 0 + Len(snap[c][n]) - k, [M EXCEPT ![n] = snap[c][n]])'
    BY <2>3, <2>6
  <2> QED  BY <2>7, <2>8 DEF Blocks
<1> QED  BY <1>3, <1>4 DEF Blocks

\* What is left to show of a step of one client.
LEMMA OneClient ==
  ASSUME Typed, srv.pc # "dead", InStep, NEW c \in Client, UNCHANGED <<srv, snap>>,
         \A d \in Client \ {c} :
           /\ cl'[d] = cl[d] /\ local'[d] = local[d] /\ up'[d] = up[d]
           /\ down'[d] = down[d] /\ closed'[d] = closed[d],
         UpAt(c)' /\ DownAt(c)'
  PROVE  InStep'
<1>1. ASSUME NEW d \in Client \ {c} PROVE UpAt(d)' /\ DownAt(d)'
  <2>1. UpAt(d) /\ DownAt(d)
    BY DEF InStep
  <2> QED  BY <2>1, Elsewhere
<1> QED  BY <1>1 DEF InStep

LEMMA RecvLoginInStep ==
  ASSUME Typed, srv.pc # "dead", InStep, NEW c \in Client, RecvLogin(c)
  PROVE  InStep'
<1>1. TypeOK /\ UpAt(c) /\ DownAt(c) /\ cl[c].pc = "login" /\ ~closed[c]
  BY DEF Typed, InStep, RecvLogin, UpAt
<1>2. UNCHANGED <<srv, snap, local, closed>>
  BY DEF RecvLogin
<1>3. PICK k : Take(c, k) /\ k \in {"OK", "FAIL"}
  BY DEF RecvLogin
<1>4. /\ down' \in [Client -> Seq(Down)] /\ \A d \in Client \ {c} : down'[d] = down[d]
      /\ Len(down[c]) > 0 /\ Len(down'[c]) = Len(down[c]) - 1
      /\ \A i \in 1 .. Len(down'[c]) : down'[c][i] = down[c][i + 1]
      /\ down[c][1].kind = k
  BY <1>1, <1>3, Taken
<1>5. down[c] \in Seq(Down) /\ down[c] # <<>>
  BY <1>1, <1>4 DEF TypeOK
<1>6. up[c] = <<>> /\ ~(cl[c].pc = "off")
  BY <1>1, <1>5 DEF UpAt
<1>7. down[c][1] = Msg("OK") /\ (local[c] = Nothing => Rest(c, 1, Nothing))
  BY <1>1, <1>6 DEF DownAt
<1>8. k = "OK"
  BY <1>4, <1>7 DEF Msg
<1>9. Goto(c, IF local[c] = Nothing THEN "pull" ELSE "push") /\ up' = up
  BY <1>4, <1>7 DEF RecvLogin, Take, Msg
<1>10. /\ cl'[c].pc = IF local[c] = Nothing THEN "pull" ELSE "push"
       /\ \A d \in Client \ {c} : cl'[d] = cl[d]
  BY <1>1, <1>9 DEF Goto, TypeOK
<1>11. UpAt(c)'
  BY <1>2, <1>1, <1>6, <1>9, <1>10 DEF UpAt
<1>12. local[c] = Nothing => Rest(c, 0, Nothing)'
  <2>1. local[c] = Nothing => Rest(c, 0 + 1, Nothing)
    BY <1>7
  <2>2. Len(down[c]) \in Nat /\ srv' = srv /\ snap' = snap
    BY <1>2, <1>5
  <2> QED  BY <1>4, <2>1, <2>2, RestTaken
<1>13. DownAt(c)'
  <2>1. CASE local[c] = Nothing
    BY <1>2, <1>10, <1>12, <2>1 DEF DownAt
  <2>2. CASE local[c] # Nothing
    BY <1>10, <2>2 DEF DownAt
  <2> QED  BY <2>1, <2>2
<1> QED  BY <1>2, <1>4, <1>9, <1>10, <1>11, <1>13, OneClient

LEMMA RecvHeaderInStep ==
  ASSUME Typed, srv.pc # "dead", InStep, NEW c \in Client, RecvHeader(c)
  PROVE  InStep'
<1>1. TypeOK /\ UpAt(c) /\ DownAt(c) /\ cl[c].pc = "pull" /\ ~closed[c] /\ up[c] = <<>>
  BY DEF Typed, InStep, RecvHeader, UpAt
<1>2. UNCHANGED <<srv, snap, local, closed, up>>
  BY DEF RecvHeader
<1>3. PICK k : Take(c, k) /\ k \in {"more", "end"} /\ Goto(c, IF k = "more" THEN "meta" ELSE "watch")
  BY DEF RecvHeader
<1>4. /\ down' \in [Client -> Seq(Down)] /\ \A d \in Client \ {c} : down'[d] = down[d]
      /\ Len(down[c]) > 0 /\ Len(down'[c]) = Len(down[c]) - 1
      /\ \A i \in 1 .. Len(down'[c]) : down'[c][i] = down[c][i + 1]
      /\ down[c][1].kind = k
  BY <1>1, <1>3, Taken
<1>5. Len(down[c]) \in Nat /\ Rest(c, 0, local[c]) /\ local[c] \in [Name -> File]
  BY <1>1 DEF TypeOK, DownAt
<1>6. /\ cl'[c].pc = IF k = "more" THEN "meta" ELSE "watch"
      /\ \A d \in Client \ {c} : cl'[d] = cl[d]
  BY <1>1, <1>3 DEF Goto, TypeOK
<1>7. UpAt(c)'
  BY <1>1, <1>2, <1>6 DEF UpAt
<1>8. CASE k = "end"
  <2>1. Sofar(c, local[c], {})
    BY <1>4, <1>5, <1>8 DEF Rest, Msg
  <2>2. snap[c] \in [Name -> File]
    BY <1>1 DEF TypeOK
  <2>3. local[c] = snap[c]
    BY <1>5, <2>1, <2>2 DEF Sofar
  <2> QED  BY <1>2, <1>4, <1>6, <1>7, <1>8, <2>3, OneClient DEF DownAt
<1>9. CASE k = "more"
  <2>1. \/ /\ Len(down[c]) = 2 /\ Served(c) /\ srv.pc = "echo"
           /\ down[c][2] = Named("meta", srv.name)
           /\ Sofar(c, local[c], srv.todo \cup {srv.name})
        \/ /\ Len(down[c]) = 2 /\ Served(c) /\ srv.pc = "hlEcho"
           /\ down[c][2] = Msg("hl")
    BY <1>4, <1>5, <1>9 DEF Rest, Msg
  <2>2. Len(down'[c]) = 1 /\ down'[c][1] = down[c][2]
    BY <1>4, <2>1
  <2>3. Served(c)'
    BY <1>2, <2>1 DEF Served, Busy
  <2>4. Sofar(c, local[c], srv.todo \cup {srv.name}) => Sofar(c, local[c], srv.todo \cup {srv.name})'
    BY <1>2 DEF Sofar
  <2>5. DownAt(c)'
    BY <1>2, <1>6, <1>9, <2>1, <2>2, <2>3, <2>4 DEF DownAt
  <2> QED  BY <1>2, <1>4, <1>6, <1>7, <2>5, OneClient
<1> QED  BY <1>3, <1>8, <1>9

LEMMA RecvMetaInStep ==
  ASSUME Typed, srv.pc # "dead", InStep, NEW c \in Client, RecvMeta(c)
  PROVE  InStep'
<1>1. TypeOK /\ UpAt(c) /\ DownAt(c) /\ cl[c].pc = "meta" /\ ~closed[c] /\ up[c] = <<>>
  BY DEF Typed, InStep, RecvMeta, UpAt
<1>2. UNCHANGED <<srv, snap, local, closed>> /\ Take(c, "meta") /\ Reply(c, "echo")
  BY DEF RecvMeta
<1>3. /\ down' \in [Client -> Seq(Down)] /\ \A d \in Client \ {c} : down'[d] = down[d]
      /\ Len(down'[c]) = Len(down[c]) - 1 /\ down[c][1].kind = "meta"
  BY <1>1, <1>2, Taken
<1>4. Len(up'[c]) = 1 /\ \A d \in Client \ {c} : up'[d] = up[d]
  <2>1. Len(up[c]) = 0
    BY <1>1
  <2>2. Len(up'[c]) = Len(up[c]) + 1 /\ \A d \in Client \ {c} : up'[d] = up[d]
    BY <1>1, <1>2, Answered
  <2> QED  BY <2>1, <2>2
<1>5. cl'[c].pc = "path" /\ \A d \in Client \ {c} : cl'[d] = cl[d]
  BY <1>1 DEF RecvMeta, Goto, TypeOK
<1>6. /\ Len(down[c]) = 1 /\ Served(c) /\ srv.pc = "echo"
      /\ Sofar(c, local[c], srv.todo \cup {srv.name})
  BY <1>1, <1>3 DEF DownAt, Msg
<1>7. down'[c] = <<>>
  <2>1. down'[c] \in Seq(Down) /\ Len(down'[c]) = 0
    BY <1>3, <1>6
  <2> QED  BY <2>1, EmptySeq
<1>8. Served(c)'
  BY <1>2, <1>6 DEF Served, Busy
<1>9. UpAt(c)'
  BY <1>1, <1>2, <1>4, <1>5, <1>6, <1>7, <1>8 DEF UpAt
<1>10. DownAt(c)'
  <2>1. Sofar(c, local[c], srv.todo \cup {srv.name})'
    BY <1>2, <1>6 DEF Sofar
  <2> QED  BY <1>2, <1>5, <1>6, <1>7, <1>8, <2>1 DEF DownAt
<1> QED  BY <1>2, <1>3, <1>4, <1>5, <1>9, <1>10, OneClient

LEMMA RecvPathInStep ==
  ASSUME Typed, srv.pc # "dead", InStep, NEW c \in Client, RecvPath(c)
  PROVE  InStep'
<1>1. TypeOK /\ UpAt(c) /\ DownAt(c) /\ cl[c].pc = "path" /\ ~closed[c]
  BY DEF Typed, InStep, RecvPath, UpAt
<1>2. UNCHANGED <<srv, snap, up, closed>> /\ srv' = srv /\ snap' = snap /\ Take(c, "path")
  BY DEF RecvPath
<1>3. /\ down' \in [Client -> Seq(Down)] /\ \A d \in Client \ {c} : down'[d] = down[d]
      /\ Len(down[c]) > 0 /\ Len(down'[c]) = Len(down[c]) - 1
      /\ \A i \in 1 .. Len(down'[c]) : down'[c][i] = down[c][i + 1]
      /\ Head(down[c]) = down[c][1]
  BY <1>1, <1>2, Taken
<1>4. Len(down[c]) \in Nat /\ down[c] # <<>> /\ local \in [Client -> [Name -> File]]
  BY <1>1, <1>3 DEF TypeOK
<1>5. PICK n \in Name :
        /\ up[c] = <<>> /\ down[c][1] = Named("path", n) /\ snap[c][n] # None
        /\ IF n \in Dir THEN Rest(c, 1, [local[c] EXCEPT ![n] = <<>>])
           ELSE Blocks(c, 1, n, 0, local[c])
  BY <1>1, <1>4 DEF DownAt
<1>6. Head(down[c]).name = n
  BY <1>3, <1>5 DEF Named
<1>7. /\ local' = [local EXCEPT ![c][n] = <<>>]
      /\ cl' = [cl EXCEPT ![c] = [pc |-> IF n \in Dir THEN "pull" ELSE "data", name |-> n]]
  BY <1>6 DEF RecvPath
<1>8. <<>> \in File
  BY DEF File
<1>9. /\ local'[c] = [local[c] EXCEPT ![n] = <<>>] /\ local'[c] \in [Name -> File]
      /\ local'[c][n] = <<>>
      /\ \A d \in Client \ {c} : local'[d] = local[d]
  BY <1>4, <1>7, <1>8
<1>10. /\ cl'[c].pc = IF n \in Dir THEN "pull" ELSE "data"
       /\ cl'[c].name = n /\ \A d \in Client \ {c} : cl'[d] = cl[d]
  BY <1>1, <1>7 DEF TypeOK
<1>11. UpAt(c)'
  BY <1>1, <1>2, <1>5, <1>10 DEF UpAt
<1>12. DownAt(c)'
  <2>1. CASE n \in Dir
    <3>1. Rest(c, 0 + 1, local'[c])
      BY <1>5, <1>9, <2>1
    <3>2. \A L : Rest(c, 0 + 1, L) => Rest(c, 0, L)'
      BY <1>2, <1>3, <1>4, RestTaken
    <3>3. Rest(c, 0, local[c])'
      BY <3>1, <3>2
    <3> QED  BY <1>10, <2>1, <3>3 DEF DownAt
  <2>2. CASE n \notin Dir
    <3>1. n \in Name \ Dir /\ Len(snap[c][n]) > 0 /\ Len(snap[c][n]) \in Nat
      BY <1>5, <2>2, WholeFile
    <3>2. 0 \in 0 .. Len(snap[c][n]) /\ local[c] \in [Name -> File]
      BY <1>4, <3>1
    <3>3. ASSUME NEW M \in [Name -> File], \A m \in Name \ {n} : M[m] = local[c][m]
          PROVE  Blocks(c, 0, n, 0, M)'
      <4>1. /\ Blocks(c, 1, n, 0, local[c]) /\ snap[c][n] # None
            /\ 1 \in {0, 1} /\ 0 \in Nat /\ 0 = 0 + 1 - 1
        BY <1>5, <2>2
      <4> QED  BY <1>2, <1>3, <1>4, <3>1, <3>2, <3>3, <4>1, BlocksTaken
    <3>4. Blocks(c, 0, n, 0, local[c])'
      BY <1>4, <1>9, <3>3
    <3>5. Len(local'[c][n]) = 0 /\ snap'[c][n] = snap[c][n]
      BY <1>2, <1>9
    <3> QED  BY <1>10, <2>2, <3>1, <3>4, <3>5 DEF DownAt
  <2> QED  BY <2>1, <2>2
<1> QED  BY <1>2, <1>3, <1>9, <1>10, <1>11, <1>12, OneClient

LEMMA RecvBlockInStep ==
  ASSUME Typed, srv.pc # "dead", InStep, NEW c \in Client, RecvBlock(c)
  PROVE  InStep'
<1>1. TypeOK /\ UpAt(c) /\ DownAt(c) /\ cl[c].pc = "data" /\ ~closed[c] /\ up[c] = <<>>
  BY DEF Typed, InStep, RecvBlock, UpAt
<1>2. UNCHANGED <<srv, snap, up, closed>> /\ srv' = srv /\ snap' = snap /\ Take(c, "data")
  BY DEF RecvBlock
<1>3. /\ down' \in [Client -> Seq(Down)] /\ \A d \in Client \ {c} : down'[d] = down[d]
      /\ Len(down[c]) > 0 /\ Len(down'[c]) = Len(down[c]) - 1
      /\ \A i \in 1 .. Len(down'[c]) : down'[c][i] = down[c][i + 1]
      /\ Head(down[c]) = down[c][1] /\ down[c][1].kind = "data"
  BY <1>1, <1>2, Taken
<1>4. PICK n, j : n = cl[c].name /\ j = Len(local[c][n])
  OBVIOUS
<1> DEFINE x == snap[c][n]
           y == local[c][n]
<1>5. /\ Blocks(c, 0, n, j, local[c]) /\ j < Len(x)
      /\ \A i \in 1 .. j : y[i] = x[i]
  BY <1>1, <1>4 DEF DownAt
<1>6. /\ Len(down[c]) \in Nat /\ local \in [Client -> [Name -> File]]
      /\ n \in Name \ Dir /\ x # None /\ y \in Seq(Piece) /\ j \in Nat
  <2>1. n \in Name \ Dir /\ x # None
    BY <1>5 DEF Blocks
  <2>2. Len(down[c]) \in Nat /\ local \in [Client -> [Name -> File]]
    BY <1>1 DEF TypeOK
  <2>3. y # None /\ y \in File
    BY <1>1, <1>4, <2>1, <2>2 DEF Typed
  <2>4. y \in Seq(Piece)
    BY <2>3 DEF File
  <2> QED  BY <1>4, <2>1, <2>2, <2>4
<1>7. /\ x \in Seq(Piece) /\ x \in File /\ Len(x) \in Nat
      /\ \A i \in 1 .. Len(x) : x[i] \in Full <=> i < Len(x)
  BY <1>6, WholeFile
<1>8. j + 1 \in 1 .. Len(x)
  BY <1>5, <1>6, <1>7
<1>9. down[c][1] = Block(x[j + 1])
  <2>1. CASE /\ Len(down[c]) = 0 + srv.pos - 1 - j
             /\ \A i \in 1 .. srv.pos - 1 - j : down[c][0 + i] = Block(x[j + i])
    <3>1. 1 \in 1 .. srv.pos - 1 - j
      BY <1>1, <1>3, <1>6, <2>1 DEF TypeOK, Server
    <3> QED  BY <2>1, <3>1
  <2>2. CASE \A i \in 1 .. Len(x) - j : down[c][0 + i] = Block(x[j + i])
    <3>1. 1 \in 1 .. Len(x) - j
      BY <1>6, <1>7, <1>8
    <3> QED  BY <2>2, <3>1
  <2> QED  BY <1>5, <2>1, <2>2 DEF Blocks
<1> DEFINE p == x[j + 1]
           z == Append(y, p)
<1>10. Head(down[c]).piece = p /\ p \in Piece
  BY <1>3, <1>7, <1>8, <1>9 DEF Block
<1>11. /\ z \in Seq(Piece) /\ Len(z) = j + 1 /\ \A i \in 1 .. j + 1 : z[i] = x[i]
  <2>1. z \in Seq(Piece) /\ Len(z) = j + 1 /\ z[j + 1] = p /\ \A i \in 1 .. j : z[i] = y[i]
    <3>1. y \in Seq(Piece) /\ p \in Piece /\ Len(y) = j
      BY <1>4, <1>6, <1>10
    <3> HIDE DEF x, y, p
    <3> QED  BY <3>1, AppendProperties
  <2> HIDE DEF z, p, x, y
  <2>2. ASSUME NEW i \in 1 .. j + 1 PROVE z[i] = x[i]
    <3>1. CASE i = j + 1
      BY <2>1, <3>1 DEF p
    <3>2. CASE i # j + 1
      <4>1. i \in 1 .. j
        BY <1>6, <3>2
      <4> QED  BY <1>5, <2>1, <4>1
    <3> QED  BY <3>1, <3>2
  <2> QED  BY <2>1, <2>2
<1>12. local' = [local EXCEPT ![c][n] = z]
       /\ Goto(c, IF p \in Full THEN "data" ELSE "pull")
  BY <1>4, <1>10 DEF RecvBlock
<1>13. z \in File
  BY <1>11 DEF File
<1> HIDE DEF z
<1>14. /\ local'[c] = [local[c] EXCEPT ![n] = z] /\ local'[c] \in [Name -> File]
       /\ local'[c][n] = z
       /\ \A d \in Client \ {c} : local'[d] = local[d]
  BY <1>6, <1>12, <1>13
<1>15. /\ cl'[c].pc = IF p \in Full THEN "data" ELSE "pull"
       /\ cl'[c].name = n /\ \A d \in Client \ {c} : cl'[d] = cl[d]
  BY <1>1, <1>4, <1>12 DEF TypeOK, Goto
<1>16. UpAt(c)'
  BY <1>1, <1>2, <1>15 DEF UpAt
<1>17. ASSUME NEW M \in [Name -> File], \A m \in Name \ {n} : M[m] = local[c][m]
       PROVE  Blocks(c, 0, n, j + 1, M)'
  <2>1. local[c] \in [Name -> File] /\ j + 1 \in 0 .. Len(x) /\ j + 1 = j + 1 - 0 /\ 0 \in {0, 1}
    BY <1>6, <1>8
  <2>2. Blocks(c, 0, n, j, local[c]) /\ n \in Name \ Dir /\ x # None /\ j \in Nat
    BY <1>5, <1>6
  <2> QED  BY <1>2, <1>3, <1>6, <1>17, <2>1, <2>2, BlocksTaken
<1>18. DownAt(c)'
  <2>1. CASE p \in Full
    <3>1. Blocks(c, 0, n, j + 1, local[c])'
      BY <1>6, <1>14, <1>17
    <3>2. j + 1 < Len(x)
      BY <1>7, <1>8, <2>1
    <3>3. /\ cl'[c].pc = "data" /\ cl'[c].name = n /\ local'[c][n] = z
          /\ Len(z) = j + 1 /\ snap'[c][n] = x /\ \A i \in 1 .. Len(z) : z[i] = x[i]
      BY <1>2, <1>11, <1>14, <1>15, <2>1
    <3> HIDE DEF x, y
    <3> QED  BY <3>1, <3>2, <3>3 DEF DownAt
  <2>2. CASE p \notin Full
    <3>1. j + 1 = Len(x)
      BY <1>6, <1>7, <1>8, <2>2
    <3>2. z = x
      <4>1. z \in Seq(Piece) /\ x \in Seq(Piece) /\ Len(z) = Len(x)
            /\ \A i \in 1 .. Len(z) : z[i] = x[i]
        BY <1>7, <1>11, <3>1
      <4> HIDE DEF x
      <4> QED  BY <4>1, SeqEqual
    <3>3. local'[c] = [local[c] EXCEPT ![n] = x] /\ [local'[c] EXCEPT ![n] = x] = local'[c]
      BY <1>6, <1>14, <3>2
    <3>4. Blocks(c, 0, n, j + 1, local[c])'
      BY <1>6, <1>14, <1>17
    <3>5. ~(j + 1 < srv'.pos /\ srv'.pos \in 1 .. Len(x))
      BY <1>6, <3>1
    <3>6. Served(c)' /\ srv'.pc = "data" /\ srv'.name = n => srv'.pos \in 1 .. Len(x)
      BY <1>1, <1>2 DEF Typed, Sending, Served, Busy
    <3>7. Rest(c, 0 + Len(snap[c][n]) - (j + 1), [local[c] EXCEPT ![n] = snap[c][n]])'
      BY <3>4, <3>5, <3>6 DEF Blocks
    <3>8. 0 + Len(x) - (j + 1) = 0 /\ x = snap'[c][n]
      BY <1>2, <1>6, <1>7, <3>1
    <3>9. Rest(c, 0, local[c])'
      BY <3>3, <3>7, <3>8
    <3> QED  BY <1>15, <2>2, <3>9 DEF DownAt
  <2> QED  BY <2>1, <2>2
<1> QED  BY <1>2, <1>3, <1>14, <1>15, <1>16, <1>18, OneClient

LEMMA StartInStep ==
  ASSUME Typed, srv.pc # "dead", InStep, NEW c \in Client, Start(c)
  PROVE  InStep'
<1>1. TypeOK /\ UpAt(c) /\ cl[c].pc = "off" /\ ~closed[c]
  BY DEF Typed, InStep, Start
<1>2. UNCHANGED <<srv, snap, local, down, closed>>
  BY DEF Start
<1>3. up[c] = <<>> /\ down[c] = <<>> /\ ~Served(c)
  BY <1>1 DEF UpAt
<1>4. PICK k \in {"login", "wrong"} : Reply(c, k)
  BY DEF Start
<1>5. Len(up'[c]) = 1 /\ up'[c] # <<>> /\ \A d \in Client \ {c} : up'[d] = up[d]
  <2>1. Len(up[c]) = 0 /\ Len(<<>>) = 0
    BY <1>3
  <2>2. Len(up'[c]) = Len(up[c]) + 1 /\ \A d \in Client \ {c} : up'[d] = up[d]
    BY <1>1, <1>4, Answered
  <2> QED  BY <2>1, <2>2
<1>6. cl'[c].pc = "login" /\ \A d \in Client \ {c} : cl'[d] = cl[d]
  BY <1>1 DEF Start, Goto, TypeOK
<1>7. ~Served(c)'
  BY <1>2, <1>3 DEF Served, Busy
<1>8. UpAt(c)'
  BY <1>1, <1>2, <1>3, <1>5, <1>6, <1>7 DEF UpAt
<1>9. DownAt(c)'
  BY <1>5, <1>6 DEF DownAt
<1> QED  BY <1>2, <1>5, <1>6, <1>8, <1>9, OneClient

LEMMA KillInStep ==
  ASSUME Typed, srv.pc # "dead", InStep, NEW c \in Client, Kill(c)
  PROVE  InStep'
<1>1. TypeOK /\ UpAt(c)
  BY DEF Typed, InStep
<1>2. UNCHANGED <<srv, snap, local, up>>
  BY DEF Kill
<1>3. cl'[c].pc = "off" /\ \A d \in Client \ {c} : cl'[d] = cl[d]
  BY <1>1 DEF Kill, Goto, TypeOK
<1>4. /\ down'[c] = <<>> /\ closed'[c]
      /\ \A d \in Client \ {c} : down'[d] = down[d] /\ closed'[d] = closed[d]
  BY <1>1 DEF Kill, TypeOK
<1>5. UpAt(c)' /\ DownAt(c)'
  BY <1>1, <1>2, <1>3, <1>4 DEF UpAt, DownAt
<1> QED  BY <1>2, <1>3, <1>4, <1>5, OneClient

LEMMA LogoutInStep ==
  ASSUME Typed, srv.pc # "dead", InStep, NEW c \in Client, Logout(c)
  PROVE  InStep'
<1>1. TypeOK /\ UpAt(c) /\ closed[c] /\ up[c] = <<>> /\ srv.pc = "select"
  BY DEF Typed, InStep, Logout
<1>2. UNCHANGED <<srv, snap, local, up, down, cl>>
  BY DEF Logout
<1>3. ~closed'[c] /\ \A d \in Client \ {c} : closed'[d] = closed[d]
  BY <1>1 DEF Logout, TypeOK
<1>4. ~Served(c)' /\ cl[c].pc = "off" /\ down[c] = <<>>
  BY <1>1, <1>2 DEF Served, Busy, UpAt
<1>5. UpAt(c)' /\ DownAt(c)'
  BY <1>1, <1>2, <1>3, <1>4 DEF UpAt, DownAt
<1> QED  BY <1>2, <1>3, <1>5, OneClient

LEMMA SameInStep ==
  ASSUME srv.pc # "dead", InStep, UNCHANGED <<srv, cl, local, up, down, closed, snap>>
  PROVE  InStep'
<1>1. ASSUME NEW c \in Client PROVE UpAt(c)' /\ DownAt(c)'
  <2>1. UpAt(c) /\ DownAt(c)
    BY DEF InStep
  <2> QED  BY <2>1, Elsewhere
<1> QED  BY <1>1 DEF InStep

\* The server that has ended stays so.
LEMMA DeadForGood ==
  ASSUME srv.pc = "dead", [Next]_vars
  PROVE  srv'.pc = "dead"
<1>1. ~Handle
  BY DEF Handle, Visit, RecvEcho, SendBlock, Finish, Garbled, BrokenPipe
<1>2. ASSUME NEW c \in Client
      PROVE  ~ServeLogin(c) /\ ~Logout(c) /\ ~Push(c)
  BY DEF ServeLogin, Logout, Push, Between
<1>3. ASSUME NEW c \in Client, Start(c) \/ Kill(c) \/ Run(c)
      PROVE  srv' = srv
  BY <1>3 DEF Start, Kill, Run, RecvLogin, RecvHeader, RecvMeta, RecvPath, RecvBlock, ServerGone
<1>4. CASE Next
  BY <1>1, <1>2, <1>3, <1>4 DEF Next
<1>5. CASE UNCHANGED vars
  BY <1>5 DEF vars
<1> QED  BY <1>4, <1>5

LEMMA InStepKept ==
  ASSUME Typed, InStep, [Next]_vars
  PROVE  InStep'
<1>1. CASE srv.pc = "dead"
  BY <1>1, DeadForGood DEF InStep
<1>2. CASE srv.pc # "dead" /\ UNCHANGED vars
  BY <1>2, SameInStep DEF vars
<1>3. CASE srv.pc # "dead" /\ Handle
  BY <1>3, ServerInStep
<1>4. ASSUME srv.pc # "dead", NEW c \in Client, ServeLogin(c) \/ Logout(c) \/ Push(c)
      PROVE  InStep'
  <2>1. CASE Push(c)
    <3>1. UNCHANGED <<srv, cl, local, up, down, closed, snap>>
      BY <2>1 DEF Push
    <3> QED  BY <1>4, <3>1, SameInStep
  <2> QED  BY <1>4, <2>1, LoginInStep, LogoutInStep
<1>5. ASSUME srv.pc # "dead", NEW c \in Client, Start(c) \/ Kill(c)
      PROVE  InStep'
  BY <1>5, StartInStep, KillInStep
<1>6. ASSUME srv.pc # "dead", NEW c \in Client, Run(c)
      PROVE  InStep'
  <2>1. ~ServerGone(c)
    BY <1>6 DEF ServerGone
  <2> QED
    BY <1>6, <2>1, RecvLoginInStep, RecvHeaderInStep, RecvMetaInStep, RecvPathInStep,
       RecvBlockInStep DEF Run
<1> QED  BY <1>1, <1>2, <1>3, <1>4, <1>5, <1>6 DEF Next

\* For all clients, accounts, homes and files: a client that has pulled has the home of its
\* account as it was when the server took the login, every file whole, whatever the other
\* clients push meanwhile (csiebox_server.c 355, csiebox_client.c 132-225).
THEOREM PullKept == Spec => []Pulled
<1>1. Init => IInv
  BY Initially
<1>2. IInv /\ [Next]_vars => IInv'
  BY TypesKept, InStepKept DEF IInv
<1>3. IInv => Pulled
  BY DEF IInv, InStep, DownAt, Pulled
<1> QED  BY <1>1, <1>2, <1>3, PTL DEF Spec

=============================================================================
