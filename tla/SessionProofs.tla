--------------------------- MODULE SessionProofs ---------------------------
(***************************************************************************)
(* Proofs about Session, for every set of clients, names, contents,        *)
(* changes and faults:                                                     *)
(*   - the types of the variables;                                         *)
(*   - the streams stay in step: facts about one client and the server as  *)
(*     constants (a chain of messages grows at one end and shrinks at the  *)
(*     other, each send and each recv leads from one Stepping to the       *)
(*     next), then one lemma for every action;                             *)
(*   - accounts stay apart, and the files of the server are whole: one     *)
(*     lemma for every action on what the clients hold (Owned), one on     *)
(*     the file being received (Files);                                    *)
(*   - the server has what the clients have: one lemma for every action    *)
(*     on what is being done for each name (Mirroring).                    *)
(***************************************************************************)
EXTENDS Session, SequenceTheorems, TLAPS

USE DEF EditKind, Size, Type, Waiting, ClientPC, ServerPC

-----------------------------------------------------------------------------
(* Streams, messages and the server's disk.                                *)

LEMMA AppendAt ==
  ASSUME NEW D, NEW T, NEW f \in [D -> Seq(T)], NEW d \in D, NEW m \in T
  PROVE  [f EXCEPT ![d] = Append(@, m)] \in [D -> Seq(T)]
  OBVIOUS

LEMMA TailAt ==
  ASSUME NEW D, NEW T, NEW f \in [D -> Seq(T)], NEW d \in D, f[d] # <<>>
  PROVE  [f EXCEPT ![d] = Tail(@)] \in [D -> Seq(T)]
  BY HeadTailProperties

LEMMA HeadAt ==
  ASSUME NEW D, NEW T, NEW f \in [D -> Seq(T)], NEW d \in D, f[d] # <<>>
  PROVE  Head(f[d]) \in T
  BY HeadTailProperties

LEMMA UpMessages ==
  /\ \A t \in Type, v \in Version \cup {None} : MetaMsg(t, v) \in Up
  /\ \A p \in Path : PathMsg(p) \in Up
  /\ \A s \in Size : FileMsg(s) \in Up
  /\ \A x \in Piece : DataMsg(x) \in Up
  /\ \A p, q \in Path : NamesMsg(p, q) \in Up
  /\ HlMsg \in Up /\ RmMsg \in Up
  BY DEF Up, MetaMsg, PathMsg, FileMsg, DataMsg, NamesMsg, HlMsg, RmMsg

LEMMA UpFields ==
  ASSUME NEW m \in Up
  PROVE  /\ m.kind = "meta" =>
              m \in [kind : {"meta"}, type : Type, ver : Version \cup {None}]
         /\ m.kind = "path" => m.path \in Path
         /\ m.kind = "file" => m.size \in Size
         /\ m.kind = "data" => m.piece \in Piece
         /\ m.kind = "names" => m.src \in Path /\ m.tgt \in Path
  BY DEF Up

LEMMA DownMessages ==
  \A s \in {"OK", "MORE"} : Echo(s) \in Down /\ Res(s) \in Down
  BY DEF Echo, Res, Down

LEMMA SendUpType ==
  ASSUME WireOK, NEW c \in Client, NEW m \in Up, SendUp(c, m)
  PROVE  up' \in [Client -> Seq(Up)]
  BY AppendAt DEF WireOK, SendUp

LEMMA RecvDownType ==
  ASSUME WireOK, NEW c \in Client, RecvDown(c)
  PROVE  down' \in [Client -> Seq(Down)]
  BY TailAt DEF WireOK, RecvDown

LEMMA RecvType ==
  ASSUME WireOK, NEW c \in Client, NEW k, Recv(c, k)
  PROVE  up' \in [Client -> Seq(Up)] /\ Head(up[c]) \in Up /\ Head(up[c]).kind = k
  <1>1. up \in [Client -> Seq(Up)] /\ up[c] # <<>> BY DEF WireOK, Recv
  <1>2. Head(up[c]) \in Up BY <1>1, HeadAt
  <1> QED BY <1>1, <1>2, TailAt DEF Recv

LEMMA AnswerType ==
  ASSUME WireOK, NEW c \in Client, NEW m \in Down, NEW pc, Answer(c, m, pc)
  PROVE  down' \in [Client -> Seq(Down)] /\ spc' \in {pc, "dead"}
  <1>1. CASE down' = [down EXCEPT ![c] = Append(@, m)] /\ spc' = pc
    BY <1>1, AppendAt DEF WireOK
  <1>2. CASE spc' = "dead" /\ UNCHANGED down
    BY <1>2 DEF WireOK
  <1> QED BY <1>1, <1>2 DEF Answer

LEMMA PieceType ==
  ASSUME NEW v \in Version, NEW i \in Nat
  PROVE  PieceOf(v, i) \in Piece /\ LinkPiece(v) \in Piece
  <1> DEFINE s == IF i <= Blocks[v] THEN "full"
                  ELSE IF i = Blocks[v] + 1 /\ v \in Ragged THEN "part" ELSE "zero"
  <1>1. s \in Size
    <2> USE DataAssumption
    <2>1. CASE i <= Blocks[v] BY <2>1
    <2>2. CASE ~(i <= Blocks[v]) /\ i = Blocks[v] + 1 /\ v \in Ragged BY <2>2
    <2>3. CASE ~(i <= Blocks[v]) /\ ~(i = Blocks[v] + 1 /\ v \in Ragged) BY <2>3
    <2> QED BY <2>1, <2>2, <2>3
  <1> HIDE DEF s
  <1>2. [ver |-> v, idx |-> i, size |-> s] \in Piece BY <1>1 DEF Piece
  <1>3. PieceOf(v, i) \in Piece BY <1>2 DEF PieceOf, s
  <1> QED BY <1>3 DEF LinkPiece, Piece

LEMMA JunkType == \A s \in Size : JunkPiece(s) \in Piece
  BY DEF JunkPiece, Piece

LEMMA BlockRead ==
  ASSUME TypeOK, NEW c \in Client, cpc[c] = "file"
  PROVE  ReadBlock(c) \in Piece
  <1>1. rd[c] \in Inode
    <2>1. rd[c] \in Inode \cup {None} BY DEF TypeOK, ClientOK
    <2>2. \A k \in Client : cpc[k] \in {"file", "data"} => rd[k] # None
      BY Zenon DEF TypeOK, ClientOK
    <2>3. rd[c] # None BY <2>2
    <2> QED BY <2>1, <2>3
  <1>2. ldat[c] \in [Inode -> Version] BY DEF TypeOK, UserOK
  <1>4. ldat[c][rd[c]] \in Version BY <1>1, <1>2
  <1>3. buf[c].idx + 1 \in Nat BY DEF TypeOK, ClientOK, Piece
  <1> QED BY <1>4, <1>3, PieceType DEF ReadBlock

LEMMA SeqOne == ASSUME NEW T, NEW x \in T PROVE <<x>> \in Seq(T)
  OBVIOUS

LEMMA NewEntryType ==
  ASSUME StoreOK, NEW p \in Path, NEW s \in Seq(Piece), NewEntry(p, s)
  PROVE  StoreOK'
  BY DEF StoreOK, NewEntry

LEMMA WriteFileType ==
  ASSUME StoreOK, NEW x \in Piece, WriteFile(x)
  PROVE  StoreOK'
  <1>1. CASE hent[path] \in Inode
    BY <1>1, AppendAt DEF StoreOK, WriteFile
  <1>2. CASE hent[path] \notin Inode
    BY <1>2 DEF StoreOK, WriteFile
  <1> QED BY <1>1, <1>2

LEMMA MakeLinkType ==
  ASSUME StoreOK, path \in Path, NEW x \in Piece, MakeLink(x)
  PROVE  StoreOK'
  <1>1. CASE UNCHANGED diskVars BY <1>1 DEF StoreOK, diskVars
  <1>2. <<x>> \in Seq(Piece) /\ <<JunkPiece("part")>> \in Seq(Piece)
    BY SeqOne, JunkType
  <1>3. CASE NewEntry(path, <<x>>) BY <1>2, <1>3, NewEntryType
  <1>4. CASE NewEntry(path, <<JunkPiece("part")>>) BY <1>2, <1>4, NewEntryType
  <1> QED BY <1>1, <1>3, <1>4 DEF MakeLink

LEMMA ReportType ==
  ASSUME ClientOK, NEW c \in Client, NEW k \in EditKind, NEW p \in Path,
         Report(c, k, p)
  PROVE  /\ events' \in [Client -> Seq([kind : EditKind, path : Path])]
         /\ todo' \in [Client -> SUBSET Path]
  <1>1. [kind |-> k, path |-> p] \in [kind : EditKind, path : Path] OBVIOUS
  <1>2. CASE Notify(c, [kind |-> k, path |-> p]) /\ UNCHANGED todo
    <2> DEFINE Event == [kind : EditKind, path : Path]
               e == [kind |-> k, path |-> p]
    <2>1. events' = events \/ events' = [events EXCEPT ![c] = Append(@, e)]
      BY <1>2 DEF Notify
    <2>2. e \in Event /\ events \in [Client -> Seq(Event)]
      BY <1>1 DEF ClientOK
    <2> HIDE DEF Event, e
    <2>5. [events EXCEPT ![c] = Append(@, e)] \in [Client -> Seq(Event)]
      BY <2>2, AppendAt
    <2>6. events' \in [Client -> Seq(Event)] BY <2>1, <2>2, <2>5
    <2>3. events' \in [Client -> Seq([kind : EditKind, path : Path])]
      BY <2>6 DEF Event
    <2> QED BY <2>3, <1>2 DEF ClientOK
  <1>3. CASE UNCHANGED events /\ todo' = [todo EXCEPT ![c] = @ \cup {p}]
    BY <1>3 DEF ClientOK
  <1>4. CASE UNCHANGED events /\ todo' = [todo EXCEPT ![c] = @ \ {p}]
    BY <1>4 DEF ClientOK
  <1>5. CASE UNCHANGED <<events, todo>>
    BY <1>5 DEF ClientOK
  <1> QED BY <1>2, <1>3, <1>4, <1>5 DEF Report

-----------------------------------------------------------------------------
(* The initial states, and one lemma for every action.                     *)

LEMMA Initially == Init => TypeOK
<1> SUFFICES ASSUME Init PROVE TypeOK OBVIOUS
<1>1. AnyPath \in Path /\ (CHOOSE c \in Client : TRUE) \in Client
  BY NamesAssumption DEF AnyPath
<1>2. NoPiece \in Piece BY DEF NoPiece, JunkPiece, Piece
<1>3. ClientOK BY <1>1, <1>2, NamesAssumption DEF Init, ClientOK
<1>4. UserOK BY NamesAssumption, DataAssumption DEF Init, UserOK
<1>5. WireOK BY DEF Init, WireOK
<1>6. ServerOK BY <1>1 DEF Init, ServerOK, MetaMsg
<1>7. StoreOK BY DEF Init, StoreOK
<1> QED BY <1>3, <1>4, <1>5, <1>6, <1>7 DEF TypeOK

LEMMA EventType ==
  ASSUME ClientOK, NEW c \in Client, events[c] # <<>>
  PROVE  /\ Head(events[c]) \in [kind : EditKind, path : Path]
         /\ [events EXCEPT ![c] = Tail(@)]
              \in [Client -> Seq([kind : EditKind, path : Path])]
  <1> DEFINE Event == [kind : EditKind, path : Path]
  <1>1. events \in [Client -> Seq(Event)] BY DEF ClientOK
  <1> HIDE DEF Event
  <1>2. Head(events[c]) \in Event BY <1>1, HeadAt
  <1>3. [events EXCEPT ![c] = Tail(@)] \in [Client -> Seq(Event)]
    BY <1>1, TailAt
  <1> QED BY <1>2, <1>3 DEF Event

LEMMA CreateType ==
  ASSUME TypeOK, NEW c \in Client, NEW p \in Path, NEW i \in Inode, NEW v \in
    Version, Create(c, p, i, v)
  PROVE  TypeOK'
<1>1. ClientOK' BY ReportType DEF Create, TypeOK, ClientOK, clientVars, Edit
<1>2. UserOK' BY DEF Create, TypeOK, UserOK, userVars, Edit
<1>3. WireOK' BY DEF Create, TypeOK, WireOK, Edit
<1>4. ServerOK' /\ StoreOK' BY DEF Create, TypeOK, ServerOK, StoreOK,
  serverVars, diskVars, Edit
<1> QED BY <1>1, <1>2, <1>3, <1>4 DEF TypeOK

LEMMA WriteType ==
  ASSUME TypeOK, NEW c \in Client, NEW p \in Path, NEW v \in Version, Write(c,
    p, v)
  PROVE  TypeOK'
<1>1. ClientOK' BY ReportType DEF Write, TypeOK, ClientOK, clientVars, Edit
<1>2. UserOK' BY DEF Write, TypeOK, UserOK, userVars, Edit
<1>3. WireOK' BY DEF Write, TypeOK, WireOK, Edit
<1>4. ServerOK' /\ StoreOK' BY DEF Write, TypeOK, ServerOK, StoreOK,
  serverVars, diskVars, Edit
<1> QED BY <1>1, <1>2, <1>3, <1>4 DEF TypeOK

LEMMA TouchType ==
  ASSUME TypeOK, NEW c \in Client, NEW p \in Path, Touch(c, p)
  PROVE  TypeOK'
<1>1. ClientOK' BY ReportType DEF Touch, TypeOK, ClientOK, clientVars, Edit
<1>2. UserOK' BY DEF Touch, TypeOK, UserOK, userVars, Edit
<1>3. WireOK' BY DEF Touch, TypeOK, WireOK, Edit
<1>4. ServerOK' /\ StoreOK' BY DEF Touch, TypeOK, ServerOK, StoreOK,
  serverVars, diskVars, Edit
<1> QED BY <1>1, <1>2, <1>3, <1>4 DEF TypeOK

LEMMA DeleteType ==
  ASSUME TypeOK, NEW c \in Client, NEW p \in Path, Delete(c, p)
  PROVE  TypeOK'
<1>1. ClientOK' BY ReportType DEF Delete, TypeOK, ClientOK, clientVars, Edit
<1>2. UserOK' BY DEF Delete, TypeOK, UserOK, userVars, Edit
<1>3. WireOK' BY DEF Delete, TypeOK, WireOK, Edit
<1>4. ServerOK' /\ StoreOK' BY DEF Delete, TypeOK, ServerOK, StoreOK,
  serverVars, diskVars, Edit
<1> QED BY <1>1, <1>2, <1>3, <1>4 DEF TypeOK

LEMMA LinkType ==
  ASSUME TypeOK, NEW c \in Client, NEW p \in Path, NEW q \in Path, Link(c, p,
    q)
  PROVE  TypeOK'
<1>1. ClientOK' BY ReportType DEF Link, TypeOK, ClientOK, clientVars, Edit
<1>2. UserOK' BY DEF Link, TypeOK, UserOK, userVars, Edit
<1>3. WireOK' BY DEF Link, TypeOK, WireOK, Edit
<1>4. ServerOK' /\ StoreOK' BY DEF Link, TypeOK, ServerOK, StoreOK,
  serverVars, diskVars, Edit
<1> QED BY <1>1, <1>2, <1>3, <1>4 DEF TypeOK

LEMMA VisitType ==
  ASSUME TypeOK, NEW c \in Client, Visit(c)
  PROVE  TypeOK'
<1>1. ClientOK'
  <2>1. PICK p \in todo[c] :
          \/ /\ lent[c][p] = None /\ todo' = [todo EXCEPT ![c] = {}]
             /\ UNCHANGED <<tab, links, cur, cpc>>
          \/ /\ lent[c][p] # None /\ todo' = [todo EXCEPT ![c] = @ \ {p}]
             /\ cur' = [cur EXCEPT ![c] = [path |-> p, type |-> TypeOf(p)]]
             /\ \/ links' = [links EXCEPT ![c] = EarlierNames(c, lent[c][p])]
                \/ links' = [links EXCEPT ![c] = {}]
             /\ \/ tab' = [tab EXCEPT ![c] = @ \cup {<<lent[c][p], p>>}]
                \/ tab' = [tab EXCEPT ![c] = @]
             /\ cpc' = [cpc EXCEPT ![c] = "visit"]
    BY DEF Visit, Goto
  <2>2. p \in Path BY DEF TypeOK, ClientOK
  <2>3. lent[c][p] \in Inode \cup {None} BY <2>2 DEF TypeOK, UserOK
  <2>4. EarlierNames(c, lent[c][p]) \subseteq Path BY DEF EarlierNames
  <2>5. TypeOf(p) \in Type BY DEF TypeOf
  <2>6. UNCHANGED <<phase, rd, buf, events>> BY DEF Visit
  <2>7. todo' \in [Client -> SUBSET Path]
    <3>1. todo \in [Client -> SUBSET Path] BY DEF TypeOK, ClientOK
    <3>2. \E S \in SUBSET Path : todo' = [todo EXCEPT ![c] = S]
      BY <2>1, <3>1
    <3> QED BY <3>1, <3>2
  <2>8. links' \in [Client -> SUBSET Path] BY <2>1, <2>4 DEF TypeOK, ClientOK
  <2>9. tab' \in [Client -> SUBSET (Inode \X Path)]
    <3>1. tab \in [Client -> SUBSET (Inode \X Path)] BY DEF TypeOK, ClientOK
    <3>2. CASE lent[c][p] # None
      <4>1. <<lent[c][p], p>> \in Inode \X Path BY <2>2, <2>3, <3>2
      <4> QED BY <2>1, <3>1, <3>2, <4>1
    <3> QED BY <2>1, <3>1, <3>2
  <2>10. cur' \in [Client -> [path : Path, type : Type]]
    <3>1. cur \in [Client -> [path : Path, type : Type]]
      BY DEF TypeOK, ClientOK
    <3>2. [path |-> p, type |-> TypeOf(p)] \in [path : Path, type : Type]
      BY <2>2, <2>5
    <3>3. \/ UNCHANGED cur
          \/ cur' = [cur EXCEPT ![c] = [path |-> p, type |-> TypeOf(p)]]
      BY <2>1
    <3> QED BY <3>1, <3>2, <3>3
  <2>11. /\ cpc' \in [Client -> ClientPC]
         /\ \A k \in Client : cpc'[k] \in {"file", "data"} => rd'[k] # None
    BY <2>1, <2>6 DEF TypeOK, ClientOK
  <2> QED BY <2>6, <2>7, <2>8, <2>9, <2>10, <2>11 DEF TypeOK, ClientOK
<1>2. UserOK' /\ WireOK' /\ ServerOK' /\ StoreOK'
  BY DEF Visit, TypeOK, UserOK, WireOK, ServerOK, StoreOK, userVars,
    serverVars,
         diskVars
<1> QED BY <1>1, <1>2 DEF TypeOK

LEMMA StartWatchType ==
  ASSUME TypeOK, NEW c \in Client, StartWatch(c)
  PROVE  TypeOK'
<1>1. ClientOK' BY DEF StartWatch, TypeOK, ClientOK, clientVars
<1>2. UserOK' /\ WireOK' /\ ServerOK' /\ StoreOK' BY DEF StartWatch, TypeOK,
  UserOK, WireOK, ServerOK, StoreOK, userVars, serverVars, diskVars
<1> QED BY <1>1, <1>2 DEF TypeOK

LEMMA SendLinkType ==
  ASSUME TypeOK, NEW c \in Client, SendLink(c)
  PROVE  TypeOK'
<1>1. ClientOK' BY DEF SendLink, TypeOK, ClientOK, clientVars, Goto
<1>2. WireOK' BY SendUpType, UpMessages DEF SendLink, TypeOK, WireOK
<1>3. UserOK' /\ ServerOK' /\ StoreOK' BY DEF SendLink, TypeOK, UserOK,
  ServerOK, StoreOK, userVars, serverVars, diskVars
<1> QED BY <1>1, <1>2, <1>3 DEF TypeOK

LEMMA RecvLinkEchoType ==
  ASSUME TypeOK, NEW c \in Client, RecvLinkEcho(c)
  PROVE  TypeOK'
<1>0. /\ cpc' = [cpc EXCEPT ![c] = "visit"] /\ links' \in [Client -> SUBSET Path]
      /\ UNCHANGED <<phase, todo, tab, cur, rd, buf, events>>
  BY DEF RecvLinkEcho, TypeOK, ClientOK, Goto
<1>1. ClientOK' BY <1>0 DEF TypeOK, ClientOK
<1>2. WireOK' BY RecvDownType, SendUpType, UpMessages DEF RecvLinkEcho,
  TypeOK, WireOK, ClientOK
<1>3. UserOK' /\ ServerOK' /\ StoreOK' BY DEF RecvLinkEcho, TypeOK, UserOK,
  ServerOK, StoreOK, userVars, serverVars, diskVars
<1> QED BY <1>1, <1>2, <1>3 DEF TypeOK

LEMMA SendMetaType ==
  ASSUME TypeOK, NEW c \in Client, SendMeta(c)
  PROVE  TypeOK'
<1>1. ClientOK' BY DEF SendMeta, TypeOK, ClientOK, clientVars, Goto, Close
<1>2. WireOK'
  <2> DEFINE i == lent[c][cur[c].path]
  <2>1. CASE Close(c) /\ UNCHANGED up
    BY <2>1 DEF SendMeta, TypeOK, WireOK, Close
  <2>2. CASE UNCHANGED <<open, hurt>> /\ ~(cur[c].type = "lnk" /\ i = None)
    <3>1. cur[c].path \in Path /\ cur[c].type \in Type BY DEF TypeOK, ClientOK
    <3>2. i \in Inode \cup {None} BY <3>1 DEF TypeOK, UserOK
    <3>3. i # None => ldat[c][i] \in Version BY <3>2 DEF TypeOK, UserOK
    <3>4. \E v \in Version \cup {None} : SendUp(c, MetaMsg(cur[c].type, v))
      BY <2>2, <3>3 DEF SendMeta, Close
    <3> QED BY <2>2, <3>1, <3>4, SendUpType, UpMessages
            DEF SendMeta, TypeOK, WireOK
  <2> QED BY <2>1, <2>2 DEF SendMeta
<1>3. UserOK' /\ ServerOK' /\ StoreOK'
  BY DEF SendMeta, TypeOK, UserOK, ServerOK, StoreOK, userVars, serverVars,
         diskVars
<1> QED BY <1>1, <1>2, <1>3 DEF TypeOK

LEMMA RecvMetaEchoType ==
  ASSUME TypeOK, NEW c \in Client, RecvMetaEcho(c)
  PROVE  TypeOK'
<1>1. ClientOK' BY DEF RecvMetaEcho, TypeOK, ClientOK, clientVars, Goto
<1>2. WireOK' BY RecvDownType, SendUpType, UpMessages DEF RecvMetaEcho,
  TypeOK, WireOK, ClientOK
<1>3. UserOK' /\ ServerOK' /\ StoreOK' BY DEF RecvMetaEcho, TypeOK, UserOK,
  ServerOK, StoreOK, userVars, serverVars, diskVars
<1> QED BY <1>1, <1>2, <1>3 DEF TypeOK

LEMMA RecvMetaResType ==
  ASSUME TypeOK, NEW c \in Client, RecvMetaRes(c)
  PROVE  TypeOK'
<1>0. lent[c][cur[c].path] \in Inode \cup {None}
  <2>1. cur[c].path \in Path BY DEF TypeOK, ClientOK
  <2> QED BY <2>1 DEF TypeOK, UserOK
<1>1. ClientOK'
  <2>1. CASE /\ lent[c][cur[c].path] # None
             /\ rd' = [rd EXCEPT ![c] = lent[c][cur[c].path]]
             /\ buf' = [buf EXCEPT ![c] = NoPiece]
             /\ Goto(c, "file")
    <3>1. NoPiece \in Piece BY DEF NoPiece, JunkPiece, Piece
    <3> QED BY <1>0, <2>1, <3>1 DEF RecvMetaRes, TypeOK, ClientOK, Goto
  <2>2. CASE (Goto(c, "idle") \/ Goto(c, "down")) /\ UNCHANGED <<rd, buf>>
    BY <2>2 DEF RecvMetaRes, TypeOK, ClientOK, Goto
  <2> QED BY <2>1, <2>2 DEF RecvMetaRes, OpenAgain, Close
<1>2. WireOK'
  BY RecvDownType, SendUpType, UpMessages
  DEF RecvMetaRes, TypeOK, WireOK, OpenAgain, Close
<1>3. UserOK' /\ ServerOK' /\ StoreOK'
  BY DEF RecvMetaRes, TypeOK, UserOK, ServerOK, StoreOK, userVars, serverVars,
         diskVars
<1> QED BY <1>1, <1>2, <1>3 DEF TypeOK

LEMMA SendFileHeaderType ==
  ASSUME TypeOK, NEW c \in Client, SendFileHeader(c)
  PROVE  TypeOK'
<1>1. ClientOK' BY BlockRead DEF SendFileHeader, TypeOK, ClientOK, clientVars,
  Goto
<1>2. WireOK' BY SendUpType, UpMessages, BlockRead DEF SendFileHeader, TypeOK,
  WireOK, Piece
<1>3. UserOK' /\ ServerOK' /\ StoreOK' BY DEF SendFileHeader, TypeOK, UserOK,
  ServerOK, StoreOK, userVars, serverVars, diskVars
<1> QED BY <1>1, <1>2, <1>3 DEF TypeOK

LEMMA SendFileDataType ==
  ASSUME TypeOK, NEW c \in Client, SendFileData(c)
  PROVE  TypeOK'
<1>1. ClientOK' BY DEF SendFileData, TypeOK, ClientOK, clientVars, Goto
<1>2. WireOK' BY SendUpType, UpMessages DEF SendFileData, TypeOK, WireOK,
  ClientOK
<1>3. UserOK' /\ ServerOK' /\ StoreOK' BY DEF SendFileData, TypeOK, UserOK,
  ServerOK, StoreOK, userVars, serverVars, diskVars
<1> QED BY <1>1, <1>2, <1>3 DEF TypeOK

LEMMA SyncEventType ==
  ASSUME TypeOK, NEW c \in Client, SyncEvent(c)
  PROVE  TypeOK'
<1>1. ClientOK'
  <2>1. Head(events[c]).path \in Path
    BY EventType DEF SyncEvent, TypeOK
  <2>2. Stat(c, Head(events[c]).path) \in Type BY DEF Stat, TypeOf
  <2>3. events' \in [Client -> Seq([kind : EditKind, path : Path])]
    BY EventType DEF SyncEvent, TypeOK
  <2> QED BY <2>1, <2>2, <2>3 DEF SyncEvent, TypeOK, ClientOK, Goto
<1>2. UserOK' /\ WireOK' /\ ServerOK' /\ StoreOK'
  BY DEF SyncEvent, TypeOK, UserOK, WireOK, ServerOK, StoreOK, userVars,
         serverVars, diskVars
<1> QED BY <1>1, <1>2 DEF TypeOK

LEMMA DeleteEventType ==
  ASSUME TypeOK, NEW c \in Client, DeleteEvent(c)
  PROVE  TypeOK'
<1>1. ClientOK'
  <2>1. Head(events[c]).path \in Path
    BY EventType DEF DeleteEvent, TypeOK
  <2>2. events' \in [Client -> Seq([kind : EditKind, path : Path])]
    BY EventType DEF DeleteEvent, TypeOK
  <2> QED BY <2>1, <2>2 DEF DeleteEvent, TypeOK, ClientOK, Goto
<1>2. WireOK' BY SendUpType, UpMessages DEF DeleteEvent, TypeOK, WireOK
<1>3. UserOK' /\ ServerOK' /\ StoreOK'
  BY DEF DeleteEvent, TypeOK, UserOK, ServerOK, StoreOK, userVars, serverVars,
         diskVars
<1> QED BY <1>1, <1>2, <1>3 DEF TypeOK

LEMMA RecvRmEchoType ==
  ASSUME TypeOK, NEW c \in Client, RecvRmEcho(c)
  PROVE  TypeOK'
<1>1. ClientOK' BY DEF RecvRmEcho, TypeOK, ClientOK, clientVars, Goto, AfterRm
<1>2. WireOK' BY RecvDownType, SendUpType, UpMessages DEF RecvRmEcho, TypeOK,
  WireOK, ClientOK
<1>3. UserOK' /\ ServerOK' /\ StoreOK' BY DEF RecvRmEcho, TypeOK, UserOK,
  ServerOK, StoreOK, userVars, serverVars, diskVars
<1> QED BY <1>1, <1>2, <1>3 DEF TypeOK

LEMMA CrashType ==
  ASSUME TypeOK, NEW c \in Client, Crash(c)
  PROVE  TypeOK'
<1>1. ClientOK' BY DEF Crash, TypeOK, ClientOK, clientVars, Goto
<1>2. WireOK' BY DEF Crash, TypeOK, WireOK, Fault
<1>3. UserOK' /\ ServerOK' /\ StoreOK' BY DEF Crash, TypeOK, UserOK, ServerOK,
  StoreOK, userVars, serverVars, diskVars
<1> QED BY <1>1, <1>2, <1>3 DEF TypeOK

LEMMA SelectType ==
  ASSUME TypeOK, Select
  PROVE  TypeOK'
<1>1. ServerOK' BY DEF Select, TypeOK, ServerOK, serverVars, Ready
<1>2. ClientOK' /\ UserOK' /\ WireOK' /\ StoreOK' BY DEF Select, TypeOK,
  ClientOK, UserOK, WireOK, StoreOK, clientVars, userVars, diskVars
<1> QED BY <1>1, <1>2 DEF TypeOK

LEMMA ServeMetaType ==
  ASSUME TypeOK, NEW c \in Client, ServeMeta(c)
  PROVE  TypeOK'
<1>1. WireOK' BY AnswerType, RecvType, DownMessages DEF ServeMeta, TypeOK,
  WireOK, Serve
<1>2. ServerOK' BY AnswerType, RecvType, UpFields, DownMessages DEF ServeMeta,
  TypeOK, ServerOK, serverVars, Serve
<1>3. ClientOK' /\ UserOK' /\ StoreOK' BY DEF ServeMeta, TypeOK, ClientOK,
  UserOK, StoreOK, clientVars, userVars, diskVars, Serve
<1> QED BY <1>1, <1>2, <1>3 DEF TypeOK

LEMMA ServeLinkType ==
  ASSUME TypeOK, NEW c \in Client, ServeLink(c)
  PROVE  TypeOK'
<1>1. WireOK' BY AnswerType, RecvType, DownMessages DEF ServeLink, TypeOK,
  WireOK, Serve
<1>2. ServerOK' BY AnswerType, DownMessages DEF ServeLink, TypeOK, ServerOK,
  serverVars, Serve
<1>3. ClientOK' /\ UserOK' /\ StoreOK' BY DEF ServeLink, TypeOK, ClientOK,
  UserOK, StoreOK, clientVars, userVars, diskVars, Serve
<1> QED BY <1>1, <1>2, <1>3 DEF TypeOK

LEMMA ServeRmType ==
  ASSUME TypeOK, NEW c \in Client, ServeRm(c)
  PROVE  TypeOK'
<1>1. WireOK' BY AnswerType, RecvType, DownMessages DEF ServeRm, TypeOK,
  WireOK, Serve
<1>2. ServerOK' BY AnswerType, DownMessages DEF ServeRm, TypeOK, ServerOK,
  serverVars, Serve
<1>3. ClientOK' /\ UserOK' /\ StoreOK' BY DEF ServeRm, TypeOK, ClientOK,
  UserOK, StoreOK, clientVars, userVars, diskVars, Serve
<1> QED BY <1>1, <1>2, <1>3 DEF TypeOK

LEMMA LogoutType ==
  ASSUME TypeOK, NEW c \in Client, Logout(c)
  PROVE  TypeOK'
<1>1. ServerOK' BY DEF Logout, TypeOK, ServerOK, serverVars
<1>2. ClientOK' /\ UserOK' /\ WireOK' /\ StoreOK' BY DEF Logout, TypeOK,
  ClientOK, UserOK, WireOK, StoreOK, clientVars, userVars, diskVars
<1> QED BY <1>1, <1>2 DEF TypeOK

LEMMA GarbageType ==
  ASSUME TypeOK, NEW c \in Client, Garbage(c)
  PROVE  TypeOK'
<1>1. ServerOK' BY DEF Garbage, TypeOK, ServerOK, serverVars
<1>2. ClientOK' /\ UserOK' /\ WireOK' /\ StoreOK' BY DEF Garbage, TypeOK,
  ClientOK, UserOK, WireOK, StoreOK, clientVars, userVars, diskVars
<1> QED BY <1>1, <1>2 DEF TypeOK

LEMMA RecvPathStore ==
  ASSUME TypeOK, RecvPath
  PROVE  StoreOK'
<1>1. Head(up[conn]).path \in Path
  BY RecvType, UpFields DEF RecvPath, TypeOK, ServerOK
<1>2. <<>> \in Seq(Piece) OBVIOUS
<1>3. CASE NewEntry(Head(up[conn]).path, <<>>)
  BY <1>1, <1>2, <1>3, NewEntryType DEF TypeOK
<1>4. CASE UNCHANGED diskVars BY <1>4 DEF TypeOK, StoreOK, diskVars
<1>5. CASE /\ hdat' = [hdat EXCEPT ![hent[Head(up[conn]).path]] = <<>>]
           /\ UNCHANGED hent
  <2>1. hent[Head(up[conn]).path] \in Inode \cup {None}
    BY <1>1 DEF TypeOK, StoreOK
  <2>2. CASE hent[Head(up[conn]).path] \in Inode
    BY <1>2, <1>5, <2>2 DEF TypeOK, StoreOK
  <2>3. CASE hent[Head(up[conn]).path] \notin Inode
    BY <1>5, <2>3 DEF TypeOK, StoreOK
  <2> QED BY <2>2, <2>3
<1> QED BY <1>3, <1>4, <1>5 DEF RecvPath, OpenToWrite

LEMMA RecvPathType ==
  ASSUME TypeOK, RecvPath
  PROVE  TypeOK'
<1>1. WireOK' BY RecvType, AnswerType, DownMessages DEF RecvPath, TypeOK,
  WireOK, ServerOK
<1>2. ServerOK' BY RecvType, UpFields, AnswerType, DownMessages DEF RecvPath,
  TypeOK, ServerOK, serverVars
<1>3. StoreOK' BY RecvPathStore
<1>4. ClientOK' /\ UserOK' BY DEF RecvPath, TypeOK, ClientOK, UserOK,
  clientVars, userVars
<1> QED BY <1>1, <1>2, <1>3, <1>4 DEF TypeOK

LEMMA LockFileType ==
  ASSUME TypeOK, LockFile
  PROVE  TypeOK'
<1>1. WireOK' BY AnswerType, DownMessages DEF LockFile, TypeOK, WireOK,
  ServerOK
<1>2. ServerOK' BY AnswerType, DownMessages DEF LockFile, TypeOK, ServerOK,
  serverVars
<1>3. ClientOK' /\ UserOK' /\ StoreOK' BY DEF LockFile, TypeOK, ClientOK,
  UserOK, StoreOK, clientVars, userVars, diskVars
<1> QED BY <1>1, <1>2, <1>3 DEF TypeOK

LEMMA LockHeldType ==
  ASSUME TypeOK, LockHeld
  PROVE  TypeOK'
<1>1. WireOK' BY AnswerType, DownMessages DEF LockHeld, TypeOK, WireOK, Fault,
  ServerOK
<1>2. ServerOK' BY AnswerType, DownMessages DEF LockHeld, TypeOK, ServerOK,
  serverVars
<1>3. ClientOK' /\ UserOK' /\ StoreOK' BY DEF LockHeld, TypeOK, ClientOK,
  UserOK, StoreOK, clientVars, userVars, diskVars
<1> QED BY <1>1, <1>2, <1>3 DEF TypeOK

LEMMA RecvFileHeaderType ==
  ASSUME TypeOK, RecvFileHeader
  PROVE  TypeOK'
<1>1. WireOK' BY RecvType DEF RecvFileHeader, TypeOK, WireOK, ServerOK
<1>2. ServerOK' BY RecvType, UpFields DEF RecvFileHeader, TypeOK, ServerOK,
  serverVars
<1>3. ClientOK' /\ UserOK' /\ StoreOK' BY DEF RecvFileHeader, TypeOK,
  ClientOK, UserOK, StoreOK, clientVars, userVars, diskVars
<1> QED BY <1>1, <1>2, <1>3 DEF TypeOK

LEMMA RecvDataType ==
  ASSUME TypeOK, RecvData
  PROVE  TypeOK'
<1>1. WireOK' BY RecvType DEF RecvData, TypeOK, WireOK, ServerOK
<1>2. ServerOK' BY DEF RecvData, TypeOK, ServerOK, serverVars, AfterData
<1>3. StoreOK' BY RecvType, UpFields, MakeLinkType, WriteFileType DEF
  RecvData, TypeOK, StoreOK, diskVars, ServerOK
<1>4. ClientOK' /\ UserOK' BY DEF RecvData, TypeOK, ClientOK, UserOK,
  clientVars, userVars
<1> QED BY <1>1, <1>2, <1>3, <1>4 DEF TypeOK

LEMMA RecvNamesType ==
  ASSUME TypeOK, RecvNames
  PROVE  TypeOK'
<1>1. WireOK' BY RecvType DEF RecvNames, TypeOK, WireOK, ServerOK
<1>2. ServerOK' BY DEF RecvNames, TypeOK, ServerOK, serverVars
<1>3. StoreOK' BY RecvType, UpFields DEF RecvNames, TypeOK, StoreOK, diskVars,
  ServerOK
<1>4. ClientOK' /\ UserOK' BY DEF RecvNames, TypeOK, ClientOK, UserOK,
  clientVars, userVars
<1> QED BY <1>1, <1>2, <1>3, <1>4 DEF TypeOK

LEMMA RecvRmPathType ==
  ASSUME TypeOK, RecvRmPath
  PROVE  TypeOK'
<1>1. WireOK' BY RecvType DEF RecvRmPath, TypeOK, WireOK, ServerOK
<1>2. ServerOK' BY DEF RecvRmPath, TypeOK, ServerOK, serverVars
<1>3. StoreOK' BY RecvType, UpFields DEF RecvRmPath, TypeOK, StoreOK,
  diskVars, ServerOK
<1>4. ClientOK' /\ UserOK' BY DEF RecvRmPath, TypeOK, ClientOK, UserOK,
  clientVars, userVars
<1> QED BY <1>1, <1>2, <1>3, <1>4 DEF TypeOK

LEMMA EofPathType ==
  ASSUME TypeOK, EofPath
  PROVE  TypeOK'
<1>1. WireOK' BY AnswerType, DownMessages DEF EofPath, TypeOK, WireOK, ServerOK
<1>2. ServerOK' BY AnswerType, DownMessages DEF EofPath, TypeOK, ServerOK,
  serverVars
<1>3. ClientOK' /\ UserOK' /\ StoreOK' BY DEF EofPath, TypeOK, ClientOK,
  UserOK, StoreOK, clientVars, userVars, diskVars
<1> QED BY <1>1, <1>2, <1>3 DEF TypeOK

LEMMA EofFileHeaderType ==
  ASSUME TypeOK, EofFileHeader
  PROVE  TypeOK'
<1>1. ServerOK' BY DEF EofFileHeader, TypeOK, ServerOK, serverVars
<1>2. StoreOK' BY MakeLinkType, JunkType DEF EofFileHeader, TypeOK, StoreOK,
  diskVars, ServerOK
<1>3. ClientOK' /\ UserOK' /\ WireOK' BY DEF EofFileHeader, TypeOK, ClientOK,
  UserOK, WireOK, clientVars, userVars
<1> QED BY <1>1, <1>2, <1>3 DEF TypeOK

LEMMA ShortDataType ==
  ASSUME TypeOK, ShortData
  PROVE  TypeOK'
<1>1. WireOK' BY DEF ShortData, TypeOK, WireOK, Fault, ServerOK
<1>2. ServerOK' BY DEF ShortData, TypeOK, ServerOK, serverVars, AfterData
<1>3. StoreOK' BY MakeLinkType, WriteFileType, JunkType DEF ShortData, TypeOK,
  StoreOK, diskVars, ServerOK
<1>4. ClientOK' /\ UserOK' BY DEF ShortData, TypeOK, ClientOK, UserOK,
  clientVars, userVars
<1> QED BY <1>1, <1>2, <1>3, <1>4 DEF TypeOK

LEMMA EofNamesType ==
  ASSUME TypeOK, EofNames
  PROVE  TypeOK'
<1>1. ServerOK' BY DEF EofNames, TypeOK, ServerOK, serverVars
<1>2. ClientOK' /\ UserOK' /\ WireOK' /\ StoreOK' BY DEF EofNames, TypeOK,
  ClientOK, UserOK, WireOK, StoreOK, clientVars, userVars, diskVars
<1> QED BY <1>1, <1>2 DEF TypeOK

-----------------------------------------------------------------------------
LEMMA TypeStep == TypeOK /\ [Next]_vars => TypeOK'
<1> SUFFICES ASSUME TypeOK, [Next]_vars PROVE TypeOK'
  OBVIOUS
<1>1. ASSUME NEW c \in Client, ClientStep(c) PROVE TypeOK'
  BY <1>1, VisitType, StartWatchType, SendLinkType, RecvLinkEchoType,
    SendMetaType, RecvMetaEchoType, RecvMetaResType, SendFileHeaderType,
    SendFileDataType, SyncEventType, DeleteEventType, RecvRmEchoType
  DEF ClientStep
<1>2. ASSUME NEW c \in Client, User(c) PROVE TypeOK'
  BY <1>2, CreateType, WriteType, TouchType, DeleteType, LinkType DEF User
<1>3. ASSUME NEW c \in Client, Crash(c) PROVE TypeOK'
  BY <1>3, CrashType
<1>4. ASSUME ServerStep PROVE TypeOK'
  BY <1>4, SelectType, RecvPathType, LockFileType, LockHeldType,
    RecvFileHeaderType, RecvDataType, RecvNamesType, RecvRmPathType,
    EofPathType, EofFileHeaderType, ShortDataType, EofNamesType,
    ServeMetaType, ServeLinkType, ServeRmType, LogoutType, GarbageType
  DEF ServerStep
<1>5. CASE UNCHANGED vars
  BY <1>5 DEF vars, clientVars, userVars, serverVars, diskVars, TypeOK,
          ClientOK, UserOK, WireOK, ServerOK, StoreOK
<1> QED BY <1>1, <1>2, <1>3, <1>4, <1>5 DEF Next

\* Every variable keeps the type its code gives it, whatever the clients, names,
\* contents, changes and faults are: for one, the descriptor send_file reads from
\* is open whenever it reads (send.c 75-101), and the length the server uses in
\* the block loop has been received (csiebox_server.c 459-468).
THEOREM TypeCorrect == Spec => []TypeOK
<1>1. Init => TypeOK BY Initially
<1>2. TypeOK /\ [Next]_vars => TypeOK' BY TypeStep
<1> QED BY <1>1, <1>2, PTL DEF Spec

-----------------------------------------------------------------------------
(* Chains of messages.                                                     *)

LEMMA Appended ==
  ASSUME NEW w \in Seq(Up), NEW m \in Up, Chain(w),
         w # <<>> => Follows(LastOf(w), m)
  PROVE  LET v == Append(w, m) IN
         /\ Chain(v) /\ v # <<>> /\ LastOf(v) = m
         /\ Head(v) = IF w = <<>> THEN m ELSE Head(w)
         /\ w = <<>> => Tail(v) = <<>>
<1> DEFINE v == Append(w, m)
<1>1. v \in Seq(Up) /\ Len(v) = Len(w) + 1 /\ v[Len(w) + 1] = m
      /\ \A i \in 1 .. Len(w) : v[i] = w[i]
  BY AppendProperties
<1>2. Chain(v)
  <2> SUFFICES ASSUME NEW i \in 1 .. Len(v), i < Len(v)
               PROVE  Follows(v[i], v[i + 1])
    BY DEF Chain
  <2>1. Len(w) \in Nat /\ i \in 1 .. Len(w) BY <1>1, LenProperties
  <2>2. CASE i = Len(w)
    <3>1. w # <<>> BY <2>1, <2>2
    <3> QED BY <1>1, <2>1, <2>2, <3>1 DEF LastOf
  <2>3. CASE i < Len(w)
    <3>1. v[i] = w[i] /\ v[i + 1] = w[i + 1] BY <1>1, <2>1, <2>3
    <3> QED BY <2>1, <2>3, <3>1 DEF Chain
  <2> QED BY <2>1, <2>2, <2>3
<1>3. v # <<>> /\ LastOf(v) = m
  <2>1. LastOf(v) = v[Len(v)] BY DEF LastOf
  <2>2. Len(v) # 0 BY <1>1, LenProperties
  <2> HIDE DEF v
  <2> QED BY <1>1, <2>1, <2>2
<1>4. Head(v) = IF w = <<>> THEN m ELSE Head(w) BY <1>1, LenProperties
<1>5. w = <<>> => Tail(v) = <<>> BY <1>1, LenProperties
<1> QED BY <1>2, <1>3, <1>4, <1>5

LEMMA Shortened ==
  ASSUME NEW w \in Seq(Up), w # <<>>, Chain(w)
  PROVE  /\ Chain(Tail(w))
         /\ Tail(w) = <<>> => LastOf(w) = Head(w)
         /\ Tail(w) # <<>> =>
              /\ LastOf(Tail(w)) = LastOf(w)
              /\ Follows(Head(w), Head(Tail(w)))
              /\ LastOf(w).kind \notin {"path", "names"}
<1> DEFINE v == Tail(w)
<1>1. /\ v \in Seq(Up) /\ Len(v) = Len(w) - 1 /\ Len(w) \in Nat \ {0}
      /\ Head(w) = w[1] /\ \A i \in 1 .. Len(v) : v[i] = w[i + 1]
  BY HeadTailProperties, LenProperties, EmptySeq
<1>2. Chain(v)
  <2> SUFFICES ASSUME NEW i \in 1 .. Len(v), i < Len(v)
               PROVE  Follows(v[i], v[i + 1])
    BY DEF Chain
  <2>1. v[i] = w[i + 1] /\ v[i + 1] = w[(i + 1) + 1] BY <1>1
  <2>2. i + 1 \in 1 .. Len(w) /\ i + 1 < Len(w) BY <1>1
  <2> QED BY <2>1, <2>2 DEF Chain
<1>3. v = <<>> => LastOf(w) = Head(w) BY <1>1 DEF LastOf
<1>4. ASSUME v # <<>>
      PROVE  /\ LastOf(v) = LastOf(w) /\ Follows(Head(w), Head(v))
             /\ LastOf(w).kind \notin {"path", "names"}
  <2>1. Len(v) # 0 /\ Head(v) = v[1] BY <1>1, <1>4, EmptySeq
  <2>2. LastOf(v) = LastOf(w) BY <1>1, <2>1 DEF LastOf
  <2>3. Follows(w[1], w[1 + 1]) BY <1>1, <2>1 DEF Chain
  <2>4. Follows(w[Len(w) - 1], w[(Len(w) - 1) + 1])
    BY <1>1, <2>1 DEF Chain
  <2>5. LastOf(w).kind \notin {"path", "names"}
    BY <1>1, <2>4 DEF Follows, Request, LastOf
  <2> QED BY <1>1, <2>1, <2>2, <2>3, <2>5
<1> QED BY <1>2, <1>3, <1>4

-----------------------------------------------------------------------------
(* One client and the server: what they send and read keeps them in step.   *)

LEMMA RequestSent ==
  ASSUME NEW at, NEW rt, NEW sz, NEW w \in Seq(Up), NEW dn, NEW pc, NEW t,
         NEW bs, NEW t2, NEW m \in Up, NEW pc2,
         Stepping(at, rt, sz, w, dn, pc, t, bs), pc \in {"idle", "visit"},
         \/ m.kind = "meta" /\ m.type = t2 /\ pc2 = "metaEcho"
         \/ m.kind = "hl" /\ pc2 = "hlEcho"
         \/ m.kind = "rm" /\ pc2 = "rmEcho"
  PROVE  Stepping(at, rt, sz, Append(w, m), dn, pc2, t2, bs)
<1>1. w # <<>> => Follows(LastOf(w), m)
  BY DEF Stepping, Sent, Follows, Request
<1>2. w = <<>> => at = "select" BY DEF Stepping, Sent
<1>3. dn = <<>> BY DEF Stepping, Sent
<1>4. Chain(Append(w, m)) /\ Append(w, m) # <<>> /\ LastOf(Append(w, m)) = m
      /\ Head(Append(w, m)) = IF w = <<>> THEN m ELSE Head(w)
  BY <1>1, Appended DEF Stepping
<1>5. Reads(at, rt, sz, pc2, Head(Append(w, m)))
  BY <1>2, <1>4 DEF Stepping, Reads, Request
<1> QED BY <1>3, <1>4, <1>5 DEF Stepping, Sent

LEMMA EchoRead ==
  ASSUME NEW at, NEW rt, NEW sz, NEW w \in Seq(Up), NEW dn, NEW pc, NEW t,
         NEW bs, NEW m \in Up, NEW pc2,
         Stepping(at, rt, sz, w, dn, pc, t, bs), dn # <<>>,
         \/ pc = "metaEcho" /\ m.kind = "path" /\ pc2 = "metaRes"
         \/ pc = "hlEcho" /\ m.kind = "names" /\ pc2 = "visit"
         \/ pc = "rmEcho" /\ m.kind = "path" /\ pc2 = "idle"
  PROVE  Stepping(at, rt, sz, Append(w, m), Tail(dn), pc2, t, bs)
<1>1. w = <<>> /\ Tail(dn) = <<>> BY DEF Stepping, Sent, Single
<1>2. \/ pc = "metaEcho" /\ at = "path" /\ rt = t
      \/ pc = "hlEcho" /\ at = "names"
      \/ pc = "rmEcho" /\ at = "rmPath"
  BY <1>1 DEF Stepping, Sent
<1>3. Chain(Append(w, m)) /\ Append(w, m) # <<>> /\ LastOf(Append(w, m)) = m
      /\ Head(Append(w, m)) = m /\ Tail(Append(w, m)) = <<>>
  BY <1>1, Appended DEF Stepping
<1>4. Reads(at, rt, sz, pc2, Head(Append(w, m)))
  BY <1>2, <1>3 DEF Reads
<1> QED BY <1>1, <1>2, <1>3, <1>4 DEF Stepping, Sent

LEMMA AnswerRead ==
  ASSUME NEW at, NEW rt, NEW sz, NEW w, NEW dn, NEW t, NEW bs, NEW pc2, NEW b2,
         Stepping(at, rt, sz, w, dn, "metaRes", t, bs), dn # <<>>,
         pc2 = IF Head(dn).status = "MORE" /\ t \in {"reg", "lnk"}
               THEN "file" ELSE "idle"
  PROVE  Stepping(at, rt, sz, w, Tail(dn), pc2, t, b2)
<1>1. w = <<>> /\ Tail(dn) = <<>> BY DEF Stepping, Sent, Single
<1>2. \/ at = "file" /\ rt = t /\ Head(dn).status = "MORE"
      \/ at = "select" /\ Head(dn).status = "OK"
  BY <1>1 DEF Stepping, Sent
<1>3. at = "file" => t \in {"reg", "lnk"} BY <1>2 DEF Stepping, ServerState
<1> QED BY <1>1, <1>2, <1>3 DEF Stepping, Sent

LEMMA HeaderSent ==
  ASSUME NEW at, NEW rt, NEW sz, NEW w \in Seq(Up), NEW dn, NEW t, NEW bs,
         NEW m \in Up, NEW pc2,
         Stepping(at, rt, sz, w, dn, "file", t, bs),
         m.kind = "file", m.size \in {"full", "part", "zero"},
         t = "lnk" => m.size # "full",
         pc2 = IF m.size = "zero" THEN "idle" ELSE "data"
  PROVE  Stepping(at, rt, sz, Append(w, m), dn, pc2, t, m.size)
<1>1. dn = <<>> /\ w = <<>> => at = "file" /\ (rt = "lnk" => t = "lnk")
  BY DEF Stepping, Sent
<1>2. w # <<>> => Follows(LastOf(w), m) BY DEF Stepping, Sent, Follows
<1>3. Chain(Append(w, m)) /\ Append(w, m) # <<>> /\ LastOf(Append(w, m)) = m
      /\ Head(Append(w, m)) = IF w = <<>> THEN m ELSE Head(w)
  BY <1>2, Appended DEF Stepping
<1>4. dn = <<>> BY DEF Stepping, Sent
<1>5. Reads(at, rt, sz, pc2, Head(Append(w, m)))
  BY <1>1, <1>3, <1>4 DEF Stepping, Reads
<1> QED BY <1>3, <1>4, <1>5 DEF Stepping, Sent

LEMMA BlockSent ==
  ASSUME NEW at, NEW rt, NEW sz, NEW w \in Seq(Up), NEW dn, NEW t, NEW bs,
         NEW m \in Up, NEW pc2,
         Stepping(at, rt, sz, w, dn, "data", t, bs),
         m.kind = "data", m.piece.size = bs,
         pc2 = IF bs = "full" THEN "file" ELSE "idle"
  PROVE  Stepping(at, rt, sz, Append(w, m), dn, pc2, t, bs)
<1>1. /\ dn = <<>> /\ bs \in {"full", "part"}
      /\ w = <<>> => at = "data" /\ sz = bs
  BY DEF Stepping, Sent
<1>2. w # <<>> => Follows(LastOf(w), m) BY DEF Stepping, Sent, Follows
<1>3. Chain(Append(w, m)) /\ Append(w, m) # <<>> /\ LastOf(Append(w, m)) = m
      /\ Head(Append(w, m)) = IF w = <<>> THEN m ELSE Head(w)
  BY <1>2, Appended DEF Stepping
<1>5. Reads(at, rt, sz, pc2, Head(Append(w, m)))
  BY <1>1, <1>3 DEF Stepping, Reads
<1> QED BY <1>1, <1>3, <1>5 DEF Stepping, Sent

LEMMA RequestRead ==
  ASSUME NEW rt, NEW sz, NEW w \in Seq(Up), NEW dn, NEW pc, NEW t, NEW bs,
         NEW r2, NEW at2, NEW e,
         Stepping("select", rt, sz, w, dn, pc, t, bs), w # <<>>,
         e.role = "echo",
         \/ Head(w).kind = "meta" /\ at2 = "path" /\ r2 = Head(w).type
         \/ Head(w).kind = "hl" /\ at2 = "names"
         \/ Head(w).kind = "rm" /\ at2 = "rmPath"
  PROVE  Stepping(at2, r2, sz, Tail(w), Append(dn, e), pc, t, bs)
<1>1. Tail(w) = <<>> BY Shortened DEF Stepping, Follows
<1>2. LastOf(w) = Head(w) /\ Chain(Tail(w)) BY <1>1, Shortened DEF Stepping
<1>3. /\ dn = <<>>
      /\ \/ pc = "metaEcho" /\ at2 = "path" /\ r2 = t
         \/ pc = "hlEcho" /\ at2 = "names"
         \/ pc = "rmEcho" /\ at2 = "rmPath"
  BY <1>1, <1>2 DEF Stepping, Sent
<1>4. Single(Append(dn, e), "echo")
  <2>1. Append(dn, e) = <<e>> BY <1>3
  <2> QED BY <2>1 DEF Single
<1> QED BY <1>1, <1>2, <1>3, <1>4 DEF Stepping, ServerState, Sent

LEMMA PathRead ==
  ASSUME NEW rt, NEW sz, NEW w \in Seq(Up), NEW dn, NEW pc, NEW t, NEW bs,
         NEW s2, NEW at2, NEW dn2, NEW e,
         Stepping("path", rt, sz, w, dn, pc, t, bs), w # <<>>, e.role = "res",
         \/ at2 = "select" /\ dn2 = Append(dn, e) /\ e.status = "OK"
         \/ at2 = "file" /\ rt = "lnk" /\ dn2 = Append(dn, e) /\ e.status = "MORE"
         \/ at2 = "lock" /\ rt = "reg" /\ dn2 = dn
  PROVE  Stepping(at2, rt, s2, Tail(w), dn2, pc, t, bs)
<1>1. pc = "metaRes" BY DEF Stepping, Reads
<1>2. Tail(w) = <<>> /\ rt = t /\ dn = <<>> BY <1>1 DEF Stepping, Sent
<1>3. Chain(Tail(w)) BY Shortened DEF Stepping
<1>4. Append(dn, e) = <<e>> BY <1>2
<1>5. Single(Append(dn, e), "res") /\ Head(Append(dn, e)) = e
  BY <1>4 DEF Single
<1> QED BY <1>1, <1>2, <1>3, <1>5 DEF Stepping, ServerState, Sent

LEMMA Unlocked ==
  ASSUME NEW rt, NEW sz, NEW w, NEW dn, NEW pc, NEW t, NEW bs, NEW e,
         Stepping("lock", rt, sz, w, dn, pc, t, bs),
         e.role = "res", e.status = "MORE"
  PROVE  Stepping("file", rt, sz, w, Append(dn, e), pc, t, bs)
<1>1. w = <<>> BY DEF Stepping, Reads
<1>2. pc = "metaRes" /\ rt = t /\ dn = <<>> BY <1>1 DEF Stepping, Sent
<1>3. Append(dn, e) = <<e>> BY <1>2
<1>4. Single(Append(dn, e), "res") /\ Head(Append(dn, e)) = e
  BY <1>3 DEF Single
<1> QED BY <1>1, <1>2, <1>4 DEF Stepping, ServerState, Sent

LEMMA HeaderRead ==
  ASSUME NEW rt, NEW sz, NEW w \in Seq(Up), NEW dn, NEW pc, NEW t, NEW bs,
         NEW at2,
         Stepping("file", rt, sz, w, dn, pc, t, bs), w # <<>>,
         Head(w).size \in Size,
         at2 = IF Head(w).size = "zero" THEN "select" ELSE "data"
  PROVE  /\ Head(w).size # "wild"
         /\ Stepping(at2, rt, Head(w).size, Tail(w), dn, pc, t, bs)
<1>1. /\ Head(w).kind = "file" /\ Head(w).size \in {"full", "part", "zero"}
      /\ rt \in {"reg", "lnk"} /\ (rt = "lnk" => Head(w).size # "full")
  BY DEF Stepping, Reads, ServerState, Size
<1>2. Chain(Tail(w)) BY Shortened DEF Stepping
<1>3. ServerState(at2, rt, Head(w).size) BY <1>1 DEF ServerState
<1>4. CASE Tail(w) = <<>>
  <2>1. LastOf(w) = Head(w) BY <1>4, Shortened DEF Stepping
  <2>2. Sent(at2, rt, Head(w).size, Tail(w), dn, pc, t, bs)
    BY <1>1, <1>4, <2>1 DEF Stepping, Sent
  <2> QED BY <1>1, <1>2, <1>3, <1>4, <2>2 DEF Stepping
<1>5. CASE Tail(w) # <<>>
  <2>1. LastOf(Tail(w)) = LastOf(w) /\ Follows(Head(w), Head(Tail(w)))
        /\ LastOf(w).kind \notin {"path", "names"}
    BY <1>5, Shortened DEF Stepping
  <2>2. Reads(at2, rt, Head(w).size, pc, Head(Tail(w)))
    <3>1. CASE Head(w).size = "zero"
      <4>1. Head(Tail(w)).kind \in Request BY <1>1, <2>1, <3>1 DEF Follows, Request
      <4> QED BY <3>1, <4>1 DEF Reads
    <3>2. CASE Head(w).size # "zero"
      <4>1. Head(Tail(w)).kind = "data" /\ Head(Tail(w)).piece.size = Head(w).size
        BY <1>1, <2>1, <3>2 DEF Follows
      <4> QED BY <3>2, <4>1 DEF Reads
    <3> QED BY <3>1, <3>2
  <2>3. Sent(at2, rt, Head(w).size, Tail(w), dn, pc, t, bs)
    BY <1>5, <2>1 DEF Stepping, Sent
  <2> QED BY <1>1, <1>2, <1>3, <2>2, <2>3 DEF Stepping
<1> QED BY <1>4, <1>5

LEMMA BlockReceived ==
  ASSUME NEW rt, NEW sz, NEW w \in Seq(Up), NEW dn, NEW pc, NEW t, NEW bs,
         NEW at2,
         Stepping("data", rt, sz, w, dn, pc, t, bs), w # <<>>,
         at2 = IF rt = "reg" /\ sz = "full" THEN "file" ELSE "select"
  PROVE  Stepping(at2, rt, sz, Tail(w), dn, pc, t, bs)
<1>1. /\ Head(w).kind = "data" /\ Head(w).piece.size = sz
      /\ sz \in {"full", "part"} /\ rt \in {"reg", "lnk"}
      /\ (rt = "lnk" => sz = "part")
  BY DEF Stepping, Reads, ServerState
<1>2. Chain(Tail(w)) BY Shortened DEF Stepping
<1>3. ServerState(at2, rt, sz) BY <1>1 DEF ServerState
<1>4. CASE Tail(w) = <<>>
  <2>1. LastOf(w) = Head(w) BY <1>4, Shortened DEF Stepping
  <2>2. Sent(at2, rt, sz, Tail(w), dn, pc, t, bs)
    BY <1>1, <1>4, <2>1 DEF Stepping, Sent
  <2> QED BY <1>2, <1>3, <1>4, <2>2 DEF Stepping
<1>5. CASE Tail(w) # <<>>
  <2>1. LastOf(Tail(w)) = LastOf(w) /\ Follows(Head(w), Head(Tail(w)))
        /\ LastOf(w).kind \notin {"path", "names"}
    BY <1>5, Shortened DEF Stepping
  <2>2. Reads(at2, rt, sz, pc, Head(Tail(w)))
    BY <1>1, <2>1 DEF Reads, Follows
  <2>3. Sent(at2, rt, sz, Tail(w), dn, pc, t, bs)
    BY <1>5, <2>1 DEF Stepping, Sent
  <2> QED BY <1>2, <1>3, <2>2, <2>3 DEF Stepping
<1> QED BY <1>4, <1>5

LEMMA LastRead ==
  ASSUME NEW at, NEW rt, NEW sz, NEW w \in Seq(Up), NEW dn, NEW pc, NEW t,
         NEW bs,
         Stepping(at, rt, sz, w, dn, pc, t, bs), w # <<>>,
         at \in {"names", "rmPath"}
  PROVE  Stepping("select", rt, sz, Tail(w), dn, pc, t, bs)
<1>1. \/ at = "names" /\ Head(w).kind = "names"
      \/ at = "rmPath" /\ Head(w).kind = "path"
  BY DEF Stepping, Reads
<1>2. Chain(Tail(w)) BY Shortened DEF Stepping
<1>3. ServerState("select", rt, sz) BY DEF ServerState
<1>4. CASE Tail(w) = <<>>
  <2>1. LastOf(w) = Head(w) BY <1>4, Shortened DEF Stepping
  <2>2. Sent("select", rt, sz, Tail(w), dn, pc, t, bs)
    BY <1>1, <1>4, <2>1 DEF Stepping, Sent
  <2> QED BY <1>2, <1>3, <1>4, <2>2 DEF Stepping
<1>5. CASE Tail(w) # <<>>
  <2>1. LastOf(Tail(w)) = LastOf(w) /\ Follows(Head(w), Head(Tail(w)))
        /\ LastOf(w).kind \notin {"path", "names"}
    BY <1>5, Shortened DEF Stepping
  <2>2. Reads("select", rt, sz, pc, Head(Tail(w)))
    BY <1>1, <2>1 DEF Reads, Follows
  <2>3. Sent("select", rt, sz, Tail(w), dn, pc, t, bs)
    BY <1>5, <2>1 DEF Stepping, Sent
  <2> QED BY <1>2, <1>3, <2>2, <2>3 DEF Stepping
<1> QED BY <1>4, <1>5

LEMMA NextName ==
  ASSUME NEW at, NEW rt, NEW sz, NEW w, NEW dn, NEW t, NEW bs, NEW t2, NEW b2,
         NEW pc \in {"idle", "visit"}, NEW pc2 \in {"idle", "visit"},
         Stepping(at, rt, sz, w, dn, pc, t, bs)
  PROVE  Stepping(at, rt, sz, w, dn, pc2, t2, b2)
BY DEF Stepping, Sent, Reads

LEMMA Elsewhere ==
  ASSUME NEW rt, NEW sz, NEW r2, NEW s2, NEW w, NEW dn, NEW pc, NEW t, NEW bs,
         Stepping("select", rt, sz, w, dn, pc, t, bs)
  PROVE  Stepping("select", r2, s2, w, dn, pc, t, bs)
BY DEF Stepping, ServerState, Sent, Reads

-----------------------------------------------------------------------------
(* The state: what an action leaves alone stays in step.                    *)

\* What InStep says of one client.
StaysInStep(k) ==
  /\ open'[k]
  /\ Stepping(ServerAt(k)', req'.type, size', up'[k], down'[k], cpc'[k],
              cur'[k].type, buf'[k].size)
Now(k) ==
  Stepping(ServerAt(k), req.type, size, up[k], down[k], cpc[k], cur[k].type,
           buf[k].size)

LEMMA InStepNow ==
  ASSUME InStep, NEW k \in Client, k \notin hurt
  PROVE  open[k] /\ Now(k)
BY DEF InStep, Now

LEMMA InStepNext ==
  ASSUME \A k \in Client : k \notin hurt' => StaysInStep(k)
  PROVE  InStep'
BY DEF InStep, StaysInStep

LEMMA OtherClients ==
  ASSUME InStep, NEW c \in Client, NEW k \in Client, k # c,
         hurt \subseteq hurt', k \notin hurt', UNCHANGED serverVars,
         up'[k] = up[k], down'[k] = down[k], open'[k] = open[k],
         cpc'[k] = cpc[k], cur'[k] = cur[k], buf'[k] = buf[k]
  PROVE  StaysInStep(k)
<1>1. open[k] /\ Now(k) BY InStepNow
<1> QED BY <1>1 DEF Now, StaysInStep, ServerAt, serverVars

LEMMA WireType ==
  ASSUME TypeOK, NEW c \in Client
  PROVE  /\ up[c] \in Seq(Up) /\ down[c] \in Seq(Down)
         /\ cur[c].type \in Type /\ cur[c].path \in Path
BY DEF TypeOK, WireOK, ClientOK

LEMMA ClientFunctions ==
  ASSUME TypeOK
  PROVE  /\ up = [c \in Client |-> up[c]] /\ down = [c \in Client |-> down[c]]
         /\ open = [c \in Client |-> open[c]] /\ cpc = [c \in Client |-> cpc[c]]
         /\ cur = [c \in Client |-> cur[c]] /\ buf = [c \in Client |-> buf[c]]
<1>1. ClientOK /\ WireOK BY DEF TypeOK
<1>2. /\ up = [c \in Client |-> up[c]] /\ down = [c \in Client |-> down[c]]
      /\ open = [c \in Client |-> open[c]]
  BY <1>1 DEF WireOK
<1>3. /\ cpc = [c \in Client |-> cpc[c]] /\ cur = [c \in Client |-> cur[c]]
      /\ buf = [c \in Client |-> buf[c]]
  BY <1>1 DEF ClientOK
<1> QED BY <1>2, <1>3

LEMMA Moved ==
  ASSUME NEW c \in Client, UNCHANGED serverVars, open'[c],
         Stepping(ServerAt(c), req.type, size, up'[c], down'[c], cpc'[c],
                  cur'[c].type, buf'[c].size)
  PROVE  StaysInStep(c)
BY DEF StaysInStep, ServerAt, serverVars

-----------------------------------------------------------------------------
(* One lemma for every action of a client.                                 *)

LEMMA UserInStep ==
  ASSUME InStep, NEW c \in Client, User(c)
  PROVE  InStep'
BY DEF User, Create, Write, Touch, Delete, Link, Edit, InStep, ServerAt,
       serverVars

LEMMA VisitInStep ==
  ASSUME TypeOK, InStep, NEW c \in Client, Visit(c)
  PROVE  InStep'
<1>1. /\ UNCHANGED <<buf, up, down, open, serverVars, hurt>> /\ cpc[c] = "idle"
      /\ \/ UNCHANGED <<cur, cpc>>
         \/ /\ \E x : cur' = [cur EXCEPT ![c] = x]
            /\ cpc' = [cpc EXCEPT ![c] = "visit"]
  BY DEF Visit, Goto
<1> SUFFICES ASSUME NEW k \in Client, k \notin hurt' PROVE StaysInStep(k)
  BY InStepNext
<1>2. open[k] /\ Now(k) BY <1>1, InStepNow
<1>3. CASE k # c \/ UNCHANGED <<cur, cpc>>
  <2>1. cpc'[k] = cpc[k] /\ cur'[k] = cur[k] BY <1>1, <1>3, ClientFunctions
  <2> QED BY <1>1, <1>2, <2>1 DEF Now, StaysInStep, ServerAt, serverVars
<1>4. CASE k = c /\ cpc' = [cpc EXCEPT ![c] = "visit"]
  <2>1. cpc'[k] = "visit" /\ cpc[k] = "idle" BY <1>1, <1>4, ClientFunctions
  <2> QED BY <1>1, <1>2, <2>1, NextName
          DEF Now, StaysInStep, ServerAt, serverVars
<1> QED BY <1>1, <1>3, <1>4

LEMMA SendLinkInStep ==
  ASSUME TypeOK, InStep, NEW c \in Client, SendLink(c)
  PROVE  InStep'
<1> SUFFICES ASSUME NEW k \in Client, k \notin hurt' PROVE StaysInStep(k)
  BY InStepNext
<1>1. /\ UNCHANGED <<cur, buf, down, open, serverVars, hurt>> /\ cpc[c] = "visit"
      /\ up'[c] = Append(up[c], HlMsg) /\ cpc'[c] = "hlEcho"
      /\ k # c => up'[k] = up[k] /\ cpc'[k] = cpc[k]
  BY ClientFunctions DEF SendLink, SendUp, Goto
<1>2. CASE k # c BY <1>1, <1>2, OtherClients
<1>3. CASE k = c
  <2>1. open[c] /\ Now(c) BY <1>1, <1>3, InStepNow
  <2>2. HlMsg \in Up /\ HlMsg.kind = "hl" BY UpMessages DEF HlMsg
  <2>3. Stepping(ServerAt(c), req.type, size, up[c], down[c], "visit",
                 cur[c].type, buf[c].size)
    BY <1>1, <2>1 DEF Now
  <2>4. Stepping(ServerAt(c), req.type, size, Append(up[c], HlMsg), down[c], "hlEcho",
                 cur[c].type, buf[c].size)
    BY <2>2, <2>3, WireType, RequestSent
  <2> QED BY <1>1, <1>3, <2>1, <2>4, Moved
<1> QED BY <1>2, <1>3

LEMMA RecvLinkEchoInStep ==
  ASSUME TypeOK, InStep, NEW c \in Client, RecvLinkEcho(c)
  PROVE  InStep'
<1> SUFFICES ASSUME NEW k \in Client, k \notin hurt' PROVE StaysInStep(k)
  BY InStepNext
<1>1. PICK q \in links[c] : SendUp(c, NamesMsg(q, cur[c].path))
  BY DEF RecvLinkEcho
<1>2. /\ UNCHANGED <<cur, buf, open, serverVars, hurt>> /\ cpc[c] = "hlEcho"
      /\ down[c] # <<>> /\ down'[c] = Tail(down[c]) /\ cpc'[c] = "visit"
      /\ up'[c] = Append(up[c], NamesMsg(q, cur[c].path))
      /\ k # c => up'[k] = up[k] /\ cpc'[k] = cpc[k] /\ down'[k] = down[k]
  BY <1>1, ClientFunctions DEF RecvLinkEcho, SendUp, RecvDown, Goto
<1>3. CASE k # c BY <1>2, <1>3, OtherClients
<1>4. CASE k = c
  <2>1. open[c] /\ Now(c) BY <1>2, <1>4, InStepNow
  <2>2. q \in Path BY DEF TypeOK, ClientOK
  <2>3. NamesMsg(q, cur[c].path) \in Up /\ NamesMsg(q, cur[c].path).kind = "names"
    BY <2>2, WireType, UpMessages DEF NamesMsg
  <2>4. Stepping(ServerAt(c), req.type, size, up[c], down[c], "hlEcho",
                 cur[c].type, buf[c].size)
    BY <1>2, <2>1 DEF Now
  <2>5. Stepping(ServerAt(c), req.type, size, Append(up[c], NamesMsg(q, cur[c].path)), 
                 Tail(down[c]), "visit",
                 cur[c].type, buf[c].size)
    BY <1>2, <2>3, <2>4, WireType, EchoRead
  <2> QED BY <1>2, <1>4, <2>1, <2>5, Moved
<1> QED BY <1>3, <1>4

LEMMA SendMetaInStep ==
  ASSUME TypeOK, InStep, NEW c \in Client, SendMeta(c)
  PROVE  InStep'
<1> DEFINE i == lent[c][cur[c].path]
<1> SUFFICES ASSUME NEW k \in Client, k \notin hurt' PROVE StaysInStep(k)
  BY InStepNext
<1>1. UNCHANGED <<cur, buf, down, serverVars>> /\ cpc[c] = "visit"
  BY DEF SendMeta
<1>2. CASE Close(c) /\ UNCHANGED up
  <2>1. /\ hurt' = hurt \cup {c} /\ k # c
        /\ open'[k] = open[k] /\ cpc'[k] = cpc[k]
    BY <1>2, ClientFunctions DEF Close, Goto
  <2> QED BY <1>1, <1>2, <2>1, OtherClients
<1>3. ASSUME NEW v \in Version \cup {None},
             SendUp(c, MetaMsg(cur[c].type, v)), Goto(c, "metaEcho"),
             UNCHANGED <<open, hurt>>
      PROVE  StaysInStep(k)
  <2>1. /\ up'[c] = Append(up[c], MetaMsg(cur[c].type, v))
        /\ cpc'[c] = "metaEcho"
        /\ k # c => up'[k] = up[k] /\ cpc'[k] = cpc[k]
    BY <1>3, ClientFunctions DEF SendUp, Goto
  <2>2. CASE k # c BY <1>1, <1>3, <2>1, <2>2, OtherClients
  <2>3. CASE k = c
    <3>1. open[c] /\ Now(c) BY <1>3, <2>3, InStepNow
    <3> DEFINE m == MetaMsg(cur[c].type, v)
    <3>2. m \in Up /\ m.kind = "meta" /\ m.type = cur[c].type
      BY WireType, UpMessages DEF MetaMsg
    <3> HIDE DEF m
    <3>3. up'[c] = Append(up[c], m) BY <2>1 DEF m
    <3>4. Stepping(ServerAt(c), req.type, size, up[c], down[c], "visit",
                   cur[c].type, buf[c].size)
      BY <1>1, <3>1 DEF Now
    <3>5. Stepping(ServerAt(c), req.type, size, Append(up[c], m), down[c], "metaEcho",
                   cur[c].type, buf[c].size)
      BY <3>2, <3>4, WireType, RequestSent
    <3> QED BY <1>1, <1>3, <2>1, <2>3, <3>1, <3>3, <3>5, Moved
  <2> QED BY <2>2, <2>3
<1>4. i \in Inode \cup {None}
  <2>1. cur[c].path \in Path BY WireType
  <2> QED BY <2>1 DEF TypeOK, UserOK
<1>5. i # None => ldat[c][i] \in Version BY <1>4 DEF TypeOK, UserOK
<1>6. \/ Close(c) /\ UNCHANGED up
      \/ \E v \in Version \cup {None} :
           /\ SendUp(c, MetaMsg(cur[c].type, v)) /\ Goto(c, "metaEcho")
           /\ UNCHANGED <<open, hurt>>
  BY <1>5 DEF SendMeta
<1> QED BY <1>2, <1>3, <1>6

LEMMA RecvMetaEchoInStep ==
  ASSUME TypeOK, InStep, NEW c \in Client, RecvMetaEcho(c)
  PROVE  InStep'
<1> SUFFICES ASSUME NEW k \in Client, k \notin hurt' PROVE StaysInStep(k)
  BY InStepNext
<1>1. /\ UNCHANGED <<cur, buf, open, serverVars, hurt>> /\ cpc[c] = "metaEcho"
      /\ down[c] # <<>> /\ down'[c] = Tail(down[c]) /\ cpc'[c] = "metaRes"
      /\ up'[c] = Append(up[c], PathMsg(cur[c].path))
      /\ k # c => up'[k] = up[k] /\ cpc'[k] = cpc[k] /\ down'[k] = down[k]
  BY ClientFunctions DEF RecvMetaEcho, SendUp, RecvDown, Goto
<1>2. CASE k # c BY <1>1, <1>2, OtherClients
<1>3. CASE k = c
  <2>1. open[c] /\ Now(c) BY <1>1, <1>3, InStepNow
  <2>2. PathMsg(cur[c].path) \in Up /\ PathMsg(cur[c].path).kind = "path"
    BY WireType, UpMessages DEF PathMsg
  <2>3. Stepping(ServerAt(c), req.type, size, up[c], down[c], "metaEcho",
                 cur[c].type, buf[c].size)
    BY <1>1, <2>1 DEF Now
  <2>4. Stepping(ServerAt(c), req.type, size, Append(up[c], PathMsg(cur[c].path)), 
                 Tail(down[c]), "metaRes",
                 cur[c].type, buf[c].size)
    BY <1>1, <2>2, <2>3, WireType, EchoRead
  <2> QED BY <1>1, <1>3, <2>1, <2>4, Moved
<1> QED BY <1>2, <1>3

LEMMA RecvMetaResInStep ==
  ASSUME TypeOK, InStep, NEW c \in Client, RecvMetaRes(c)
  PROVE  InStep'
<1> DEFINE more == Head(down[c]).status = "MORE" /\ cur[c].type \in {"reg", "lnk"}
<1> SUFFICES ASSUME NEW k \in Client, k \notin hurt' PROVE StaysInStep(k)
  BY InStepNext
<1>1. /\ UNCHANGED <<cur, serverVars>> /\ cpc[c] = "metaRes"
      /\ down[c] # <<>> /\ down'[c] = Tail(down[c])
      /\ k # c => down'[k] = down[k]
  BY ClientFunctions DEF RecvMetaRes, RecvDown
<1>2. CASE c \in hurt'
  <2>1. /\ hurt \subseteq hurt' /\ k # c /\ up'[k] = up[k] /\ cpc'[k] = cpc[k]
        /\ buf'[k] = buf[k] /\ open'[k] = open[k]
    BY <1>2, ClientFunctions DEF RecvMetaRes, OpenAgain, Goto, Close, SendUp
  <2> QED BY <1>1, <2>1, OtherClients
<1>3. CASE c \notin hurt'
  <2>1. /\ UNCHANGED <<up, open, hurt>>
        /\ Goto(c, IF more THEN "file" ELSE "idle")
        /\ UNCHANGED buf \/ buf' = [buf EXCEPT ![c] = NoPiece]
    BY <1>3 DEF RecvMetaRes, OpenAgain, Close
  <2>2. /\ cpc'[c] = IF more THEN "file" ELSE "idle"
        /\ k # c => cpc'[k] = cpc[k] /\ buf'[k] = buf[k]
    BY <2>1, ClientFunctions DEF Goto
  <2>3. CASE k # c BY <1>1, <2>1, <2>2, <2>3, OtherClients
  <2>4. CASE k = c
    <3>1. open[c] /\ Now(c) BY <2>1, <2>4, <1>3, InStepNow
    <3>2. Stepping(ServerAt(c), req.type, size, up[c], down[c], "metaRes",
                   cur[c].type, buf[c].size)
      BY <1>1, <3>1 DEF Now
    <3> DEFINE pc2 == IF more THEN "file" ELSE "idle"
    <3>3. \A b2 : Stepping(ServerAt(c), req.type, size, up[c], Tail(down[c]),
                          pc2, cur[c].type, b2)
      BY <1>1, <3>2, AnswerRead
    <3> HIDE DEF pc2
    <3>4. Stepping(ServerAt(c), req.type, size, up'[c], down'[c], cpc'[c],
                   cur'[c].type, buf'[c].size)
      <4>1. cpc'[c] = pc2 BY <2>2 DEF pc2
      <4> QED BY <1>1, <2>1, <3>3, <4>1
    <3> QED BY <1>1, <2>1, <2>4, <3>1, <3>4, Moved
  <2> QED BY <2>3, <2>4
<1> QED BY <1>2, <1>3

LEMMA StartWatchInStep ==
  ASSUME InStep, NEW c \in Client, StartWatch(c)
  PROVE  InStep'
BY DEF StartWatch, InStep, ServerAt, serverVars

LEMMA SendFileHeaderInStep ==
  ASSUME TypeOK, InStep, NEW c \in Client, SendFileHeader(c)
  PROVE  InStep'
<1> DEFINE x == ReadBlock(c)
           m == FileMsg(x.size)
           pc2 == IF x.size = "zero" THEN "idle" ELSE "data"
<1> SUFFICES ASSUME NEW k \in Client, k \notin hurt' PROVE StaysInStep(k)
  BY InStepNext
<1>1. cpc[c] = "file" /\ x \in Piece BY BlockRead DEF SendFileHeader
<1>2. x.size \in {"full", "part", "zero"}
      /\ (cur[c].type = "lnk" => x.size # "full")
  BY DEF ReadBlock, LinkPiece, PieceOf
<1>3. m \in Up /\ m.kind = "file" /\ m.size = x.size
  BY <1>2, UpMessages DEF FileMsg, Size
<1>4. /\ UNCHANGED <<cur, down, open, serverVars, hurt>>
      /\ up' = [up EXCEPT ![c] = Append(@, m)] /\ buf' = [buf EXCEPT ![c] = x]
      /\ cpc' = [cpc EXCEPT ![c] = pc2]
  BY DEF SendFileHeader, SendUp, Goto
<1> HIDE DEF x, m, pc2
<1>5. /\ up'[c] = Append(up[c], m) /\ buf'[c] = x /\ cpc'[c] = pc2
      /\ k # c => up'[k] = up[k] /\ cpc'[k] = cpc[k] /\ buf'[k] = buf[k]
  BY <1>4, ClientFunctions
<1>6. CASE k # c BY <1>4, <1>5, <1>6, OtherClients
<1>7. CASE k = c
  <2>1. open[c] /\ Now(c) BY <1>4, <1>7, InStepNow
  <2>2. Stepping(ServerAt(c), req.type, size, up[c], down[c], "file",
                 cur[c].type, buf[c].size)
    BY <1>1, <2>1 DEF Now
  <2>3. pc2 = IF m.size = "zero" THEN "idle" ELSE "data" BY <1>3 DEF pc2
  <2>4. Stepping(ServerAt(c), req.type, size, Append(up[c], m), down[c], pc2,
                 cur[c].type, m.size)
    BY <1>2, <1>3, <2>2, <2>3, WireType, HeaderSent
  <2> QED BY <1>3, <1>4, <1>5, <1>7, <2>1, <2>4, Moved
<1> QED BY <1>6, <1>7

LEMMA SendFileDataInStep ==
  ASSUME TypeOK, InStep, NEW c \in Client, SendFileData(c)
  PROVE  InStep'
<1> DEFINE m == DataMsg(buf[c])
           pc2 == IF buf[c].size = "full" THEN "file" ELSE "idle"
<1> SUFFICES ASSUME NEW k \in Client, k \notin hurt' PROVE StaysInStep(k)
  BY InStepNext
<1>1. cpc[c] = "data" /\ buf[c] \in Piece
  BY DEF SendFileData, TypeOK, ClientOK
<1>2. m \in Up /\ m.kind = "data" /\ m.piece.size = buf[c].size
  BY <1>1, UpMessages DEF DataMsg
<1>3. /\ UNCHANGED <<cur, buf, down, open, serverVars, hurt>>
      /\ up' = [up EXCEPT ![c] = Append(@, m)]
      /\ cpc' = [cpc EXCEPT ![c] = pc2]
  BY DEF SendFileData, SendUp, Goto
<1> HIDE DEF m
<1>4. /\ up'[c] = Append(up[c], m) /\ cpc'[c] = pc2
      /\ k # c => up'[k] = up[k] /\ cpc'[k] = cpc[k]
  BY <1>3, ClientFunctions
<1>5. CASE k # c BY <1>3, <1>4, <1>5, OtherClients
<1>6. CASE k = c
  <2>1. open[c] /\ Now(c) BY <1>3, <1>6, InStepNow
  <2>2. Stepping(ServerAt(c), req.type, size, up[c], down[c], "data",
                 cur[c].type, buf[c].size)
    BY <1>1, <2>1 DEF Now
  <2>3. Stepping(ServerAt(c), req.type, size, Append(up[c], m), down[c], pc2,
                 cur[c].type, buf[c].size)
    BY <1>2, <2>2, WireType, BlockSent
  <2> QED BY <1>3, <1>4, <1>6, <2>1, <2>3, Moved
<1> QED BY <1>5, <1>6

LEMMA SyncEventInStep ==
  ASSUME TypeOK, InStep, NEW c \in Client, SyncEvent(c)
  PROVE  InStep'
<1> SUFFICES ASSUME NEW k \in Client, k \notin hurt' PROVE StaysInStep(k)
  BY InStepNext
<1>1. /\ UNCHANGED <<buf, up, down, open, serverVars, hurt>>
      /\ cpc[c] = "idle" /\ cpc'[c] = "visit"
      /\ k # c => cpc'[k] = cpc[k] /\ cur'[k] = cur[k]
  BY ClientFunctions DEF SyncEvent, Goto
<1>2. CASE k # c BY <1>1, <1>2, OtherClients
<1>3. CASE k = c
  <2>1. open[c] /\ Now(c) BY <1>1, <1>3, InStepNow
  <2>2. Stepping(ServerAt(c), req.type, size, up[c], down[c], "idle",
                 cur[c].type, buf[c].size)
    BY <1>1, <2>1 DEF Now
  <2>3. Stepping(ServerAt(c), req.type, size, up[c], down[c], "visit",
                 cur'[c].type, buf[c].size)
    BY <2>2, NextName
  <2> QED BY <1>1, <1>3, <2>1, <2>3, Moved
<1> QED BY <1>2, <1>3

LEMMA DeleteEventInStep ==
  ASSUME TypeOK, InStep, NEW c \in Client, DeleteEvent(c)
  PROVE  InStep'
<1> SUFFICES ASSUME NEW k \in Client, k \notin hurt' PROVE StaysInStep(k)
  BY InStepNext
<1>1. /\ UNCHANGED <<buf, down, open, serverVars, hurt>>
      /\ cpc[c] = "idle" /\ cpc'[c] = "rmEcho"
      /\ up'[c] = Append(up[c], RmMsg)
      /\ k # c => cpc'[k] = cpc[k] /\ cur'[k] = cur[k] /\ up'[k] = up[k]
  BY ClientFunctions DEF DeleteEvent, SendUp, Goto
<1>2. CASE k # c BY <1>1, <1>2, OtherClients
<1>3. CASE k = c
  <2>1. open[c] /\ Now(c) BY <1>1, <1>3, InStepNow
  <2>2. Stepping(ServerAt(c), req.type, size, up[c], down[c], "idle",
                 cur[c].type, buf[c].size)
    BY <1>1, <2>1 DEF Now
  <2>3. RmMsg \in Up /\ RmMsg.kind = "rm" BY UpMessages DEF RmMsg
  <2>4. Stepping(ServerAt(c), req.type, size, Append(up[c], RmMsg), down[c],
                 "rmEcho", cur'[c].type, buf[c].size)
    <3>1. Stepping(ServerAt(c), req.type, size, up[c], down[c], "idle",
                   cur'[c].type, buf[c].size)
      BY <2>2, NextName
    <3> QED BY <2>3, <3>1, WireType, RequestSent
  <2> QED BY <1>1, <1>3, <2>1, <2>4, Moved
<1> QED BY <1>2, <1>3

LEMMA RecvRmEchoInStep ==
  ASSUME TypeOK, InStep, NEW c \in Client, RecvRmEcho(c)
  PROVE  InStep'
<1> SUFFICES ASSUME NEW k \in Client, k \notin hurt' PROVE StaysInStep(k)
  BY InStepNext
<1>1. /\ UNCHANGED <<cur, buf, open, serverVars, hurt>> /\ cpc[c] = "rmEcho"
      /\ down[c] # <<>> /\ down'[c] = Tail(down[c]) /\ cpc'[c] = "idle"
      /\ up'[c] = Append(up[c], PathMsg(cur[c].path))
      /\ k # c => up'[k] = up[k] /\ cpc'[k] = cpc[k] /\ down'[k] = down[k]
  BY ClientFunctions DEF RecvRmEcho, SendUp, RecvDown, Goto
<1>2. CASE k # c BY <1>1, <1>2, OtherClients
<1>3. CASE k = c
  <2>1. open[c] /\ Now(c) BY <1>1, <1>3, InStepNow
  <2>2. PathMsg(cur[c].path) \in Up /\ PathMsg(cur[c].path).kind = "path"
    BY WireType, UpMessages DEF PathMsg
  <2>3. Stepping(ServerAt(c), req.type, size, up[c], down[c], "rmEcho",
                 cur[c].type, buf[c].size)
    BY <1>1, <2>1 DEF Now
  <2>4. Stepping(ServerAt(c), req.type, size, Append(up[c], PathMsg(cur[c].path)),
                 Tail(down[c]), "idle", cur[c].type, buf[c].size)
    BY <1>1, <2>2, <2>3, WireType, EchoRead
  <2> QED BY <1>1, <1>3, <2>1, <2>4, Moved
<1> QED BY <1>2, <1>3

LEMMA CrashInStep ==
  ASSUME TypeOK, InStep, NEW c \in Client, Crash(c)
  PROVE  InStep'
<1> SUFFICES ASSUME NEW k \in Client, k \notin hurt' PROVE StaysInStep(k)
  BY InStepNext
<1>1. /\ UNCHANGED <<cur, buf, up, down, serverVars>>
      /\ hurt' = hurt \cup {c} /\ k # c
      /\ open'[k] = open[k] /\ cpc'[k] = cpc[k]
  BY ClientFunctions DEF Crash, Fault, Goto
<1> QED BY <1>1, OtherClients

-----------------------------------------------------------------------------
(* One lemma for every action of the server.                               *)

\* A request is served for one client; the others see a server that selects.
LEMMA OtherConnections ==
  ASSUME InStep, NEW c \in Client, NEW k \in Client, k # c,
         hurt \subseteq hurt', k \notin hurt', conn' = c,
         spc = "select" \/ conn = c,
         UNCHANGED <<clientVars, open>>,
         up'[k] = up[k], down'[k] = down[k]
  PROVE  StaysInStep(k)
<1>1. open[k] /\ Now(k) BY InStepNow
<1>2. ServerAt(k) = "select" /\ ServerAt(k)' = "select" BY DEF ServerAt
<1>3. Stepping("select", req.type, size, up[k], down[k], cpc[k], cur[k].type,
               buf[k].size)
  BY <1>1, <1>2 DEF Now
<1>4. Stepping("select", req'.type, size', up[k], down[k], cpc[k], cur[k].type,
               buf[k].size)
  BY <1>3, Elsewhere
<1> QED BY <1>1, <1>2, <1>4 DEF StaysInStep, clientVars

LEMMA Served ==
  ASSUME NEW c \in Client, conn' = c, open[c], UNCHANGED <<clientVars, open>>,
         Stepping(spc', req'.type, size', up'[c], down'[c], cpc[c], cur[c].type,
                  buf[c].size)
  PROVE  StaysInStep(c)
BY DEF StaysInStep, ServerAt, clientVars

LEMMA Connection ==
  ASSUME TypeOK
  PROVE  conn \in Client
BY DEF TypeOK, ServerOK

LEMMA SelectInStep ==
  ASSUME InStep, Select
  PROVE  InStep'
BY DEF Select, InStep, ServerAt, clientVars

LEMMA LogoutInStep ==
  ASSUME InStep, NEW c \in Client, Logout(c)
  PROVE  InStep'
BY DEF Logout, InStep, ServerAt, clientVars

LEMMA ServeInStep ==
  ASSUME TypeOK, InStep, NEW c \in Client, NEW status \in {"OK", "MORE"},
         NEW kind, NEW pc, Serve(c, kind, status, pc),
         \/ kind = "meta" /\ pc = "path" /\ req' = Head(up[c])
         \/ kind = "hl" /\ pc = "names"
         \/ kind = "rm" /\ pc = "rmPath"
  PROVE  InStep'
<1> SUFFICES ASSUME NEW k \in Client, k \notin hurt' PROVE StaysInStep(k)
  BY InStepNext
<1>1. /\ spc = "select" /\ conn' = c /\ UNCHANGED <<clientVars, open, size, hurt>>
      /\ up[c] # <<>> /\ Head(up[c]).kind = kind /\ up'[c] = Tail(up[c])
      /\ \/ down'[c] = Append(down[c], Echo(status)) /\ spc' = pc
         \/ ~open[c]
      /\ k # c => up'[k] = up[k] /\ down'[k] = down[k]
  BY ClientFunctions DEF Serve, Recv, Answer
<1>2. CASE k # c BY <1>1, <1>2, OtherConnections
<1>3. CASE k = c
  <2>1. open[c] /\ Now(c) BY <1>1, <1>3, InStepNow
  <2>2. Stepping("select", req.type, size, up[c], down[c], cpc[c], cur[c].type,
                 buf[c].size)
    BY <1>1, <2>1 DEF Now, ServerAt
  <2>3. Echo(status).role = "echo" BY DEF Echo
  <2>4. Stepping(pc, req'.type, size, Tail(up[c]), Append(down[c], Echo(status)),
                 cpc[c], cur[c].type, buf[c].size)
    BY <1>1, <2>2, <2>3, WireType, RequestRead
  <2> QED BY <1>1, <1>3, <2>1, <2>4, Served
<1> QED BY <1>2, <1>3

LEMMA GarbageInStep ==
  ASSUME TypeOK, InStep, NEW c \in Client, Garbage(c)
  PROVE  InStep'
<1> SUFFICES ASSUME NEW k \in Client, k \notin hurt' PROVE StaysInStep(k)
  BY InStepNext
<1>1. /\ spc = "select" \/ (conn = c /\ spc \in
                            {"path", "file", "data", "names", "rmPath"})
      /\ conn' = c /\ UNCHANGED <<clientVars, open, up, down, hurt>>
      /\ up[c] # <<>> /\ Head(up[c]).kind \notin ServerWants(c)
  BY DEF Garbage
<1>2. CASE k # c BY <1>1, <1>2, OtherConnections
<1>3. CASE k = c
  <2>1. Now(c) BY <1>1, <1>3, InStepNow
  <2>2. Reads(ServerAt(c), req.type, size, cpc[c], Head(up[c]))
    BY <1>1, <2>1 DEF Now, Stepping
  <2>3. Head(up[c]).kind \in ServerWants(c)
    BY <1>1, <2>2 DEF Reads, Request, ServerAt, ServerWants
  <2> QED BY <1>1, <2>3
<1> QED BY <1>2, <1>3

LEMMA RecvPathInStep ==
  ASSUME TypeOK, InStep, RecvPath
  PROVE  InStep'
<1> DEFINE c == conn
<1> SUFFICES ASSUME NEW k \in Client, k \notin hurt' PROVE StaysInStep(k)
  BY InStepNext
<1>0. c \in Client BY Connection
<1>1. /\ spc = "path" /\ conn' = c /\ UNCHANGED <<clientVars, open, req, hurt>>
      /\ up[c] # <<>> /\ up'[c] = Tail(up[c])
      /\ \/ spc' = "select" /\ down'[c] = Append(down[c], Res("OK"))
         \/ spc' = "file" /\ req.type = "lnk" /\ down'[c] = Append(down[c], Res("MORE"))
         \/ spc' = "lock" /\ req.type = "reg" /\ down'[c] = down[c]
         \/ ~open[c]
      /\ k # c => up'[k] = up[k] /\ down'[k] = down[k]
  BY <1>0, ClientFunctions DEF RecvPath, Recv, Answer
<1>2. CASE k # c BY <1>0, <1>1, <1>2, OtherConnections
<1>3. CASE k = c
  <2>1. open[c] /\ Now(c) BY <1>1, <1>3, InStepNow
  <2>2. Stepping("path", req.type, size, up[c], down[c], cpc[c], cur[c].type,
                 buf[c].size)
    BY <1>1, <2>1 DEF Now, ServerAt
  <2>3. /\ Res("OK").role = "res" /\ Res("OK").status = "OK"
        /\ Res("MORE").role = "res" /\ Res("MORE").status = "MORE"
    BY DEF Res
  <2>4. Stepping(spc', req.type, size', Tail(up[c]), down'[c], cpc[c],
                 cur[c].type, buf[c].size)
    <3>1. CASE spc' = "select" /\ down'[c] = Append(down[c], Res("OK"))
      BY <1>0, <1>1, <2>2, <2>3, <3>1, WireType, PathRead
    <3>2. CASE /\ spc' = "file" /\ req.type = "lnk"
               /\ down'[c] = Append(down[c], Res("MORE"))
      BY <1>0, <1>1, <2>2, <2>3, <3>2, WireType, PathRead
    <3>3. CASE spc' = "lock" /\ req.type = "reg" /\ down'[c] = down[c]
      BY <1>0, <1>1, <2>2, <2>3, <3>3, WireType, PathRead
    <3> QED BY <1>1, <2>1, <3>1, <3>2, <3>3
  <2> QED BY <1>0, <1>1, <1>3, <2>1, <2>4, Served
<1> QED BY <1>2, <1>3

LEMMA LockFileInStep ==
  ASSUME TypeOK, InStep, LockFile
  PROVE  InStep'
<1> DEFINE c == conn
<1> SUFFICES ASSUME NEW k \in Client, k \notin hurt' PROVE StaysInStep(k)
  BY InStepNext
<1>0. c \in Client BY Connection
<1>1. /\ spc = "lock" /\ conn' = c
      /\ UNCHANGED <<clientVars, open, up, req, size, hurt>>
      /\ (spc' = "file" /\ down'[c] = Append(down[c], Res("MORE"))) \/ ~open[c]
      /\ k # c => down'[k] = down[k]
  BY <1>0, ClientFunctions DEF LockFile, Answer
<1>2. CASE k # c BY <1>0, <1>1, <1>2, OtherConnections
<1>3. CASE k = c
  <2>1. open[c] /\ Now(c) BY <1>1, <1>3, InStepNow
  <2>2. Stepping("lock", req.type, size, up[c], down[c], cpc[c], cur[c].type,
                 buf[c].size)
    BY <1>1, <2>1 DEF Now, ServerAt
  <2>3. Res("MORE").role = "res" /\ Res("MORE").status = "MORE" BY DEF Res
  <2>4. Stepping("file", req.type, size, up[c], Append(down[c], Res("MORE")),
                 cpc[c], cur[c].type, buf[c].size)
    BY <2>2, <2>3, Unlocked
  <2> QED BY <1>0, <1>1, <1>3, <2>1, <2>4, Served
<1> QED BY <1>2, <1>3

LEMMA LockHeldInStep ==
  ASSUME TypeOK, InStep, LockHeld
  PROVE  InStep'
<1> SUFFICES ASSUME NEW k \in Client, k \notin hurt' PROVE StaysInStep(k)
  BY InStepNext
<1>1. conn \in Client BY Connection
<1>2. /\ conn' = conn /\ UNCHANGED <<clientVars, open, up>>
      /\ hurt' = hurt \cup {conn} /\ k # conn /\ down'[k] = down[k]
  BY <1>1, ClientFunctions DEF LockHeld, Fault, Answer
<1> QED BY <1>1, <1>2, OtherConnections

LEMMA RecvFileHeaderInStep ==
  ASSUME TypeOK, InStep, RecvFileHeader
  PROVE  InStep'
<1> DEFINE c == conn
           s == Head(up[c]).size
           at2 == IF s = "zero" THEN "select" ELSE "data"
<1> SUFFICES ASSUME NEW k \in Client, k \notin hurt' PROVE StaysInStep(k)
  BY InStepNext
<1>0. c \in Client BY Connection
<1>1. /\ spc = "file" /\ conn' = c /\ UNCHANGED <<clientVars, open, down, req, hurt>>
      /\ up[c] # <<>> /\ Head(up[c]).kind = "file" /\ up'[c] = Tail(up[c])
      /\ size' = s /\ (s # "wild" => spc' = at2)
      /\ k # c => up'[k] = up[k]
  BY <1>0, ClientFunctions DEF RecvFileHeader, Recv
<1>2. CASE k # c BY <1>0, <1>1, <1>2, OtherConnections
<1>3. CASE k = c
  <2>1. open[c] /\ Now(c) BY <1>1, <1>3, InStepNow
  <2>2. Stepping("file", req.type, size, up[c], down[c], cpc[c], cur[c].type,
                 buf[c].size)
    BY <1>1, <2>1 DEF Now, ServerAt
  <2>3. s \in Size
    <3>1. Head(up[c]) \in Up BY <1>0, <1>1, HeadAt DEF TypeOK, WireOK
    <3> QED BY <1>1, <3>1, UpFields
  <2>4. s # "wild" /\ Stepping(at2, req.type, s, Tail(up[c]), down[c], cpc[c],
                               cur[c].type, buf[c].size)
    BY <1>0, <1>1, <2>2, <2>3, WireType, HeaderRead
  <2> HIDE DEF at2
  <2> QED BY <1>0, <1>1, <1>3, <2>1, <2>4, Served
<1> QED BY <1>2, <1>3

LEMMA RecvDataInStep ==
  ASSUME TypeOK, InStep, RecvData
  PROVE  InStep'
<1> DEFINE c == conn
<1> SUFFICES ASSUME NEW k \in Client, k \notin hurt' PROVE StaysInStep(k)
  BY InStepNext
<1>0. c \in Client BY Connection
<1>1. /\ spc = "data" /\ conn' = c
      /\ UNCHANGED <<clientVars, open, down, req, size, hurt>>
      /\ up[c] # <<>> /\ up'[c] = Tail(up[c])
      /\ spc' = AfterData
      /\ k # c => up'[k] = up[k]
  BY <1>0, ClientFunctions DEF RecvData, Recv
<1>2. CASE k # c BY <1>0, <1>1, <1>2, OtherConnections
<1>3. CASE k = c
  <2>1. open[c] /\ Now(c) BY <1>1, <1>3, InStepNow
  <2>2. Stepping("data", req.type, size, up[c], down[c], cpc[c], cur[c].type,
                 buf[c].size)
    BY <1>1, <2>1 DEF Now, ServerAt
  <2>3. Stepping(AfterData, req.type, size, Tail(up[c]), down[c], cpc[c],
                 cur[c].type, buf[c].size)
    BY <1>0, <1>1, <2>2, WireType, BlockReceived DEF AfterData
  <2> QED BY <1>0, <1>1, <1>3, <2>1, <2>3, Served
<1> QED BY <1>2, <1>3

LEMMA LastInStep ==
  ASSUME TypeOK, InStep, RecvNames \/ RecvRmPath
  PROVE  InStep'
<1> DEFINE c == conn
<1> SUFFICES ASSUME NEW k \in Client, k \notin hurt' PROVE StaysInStep(k)
  BY InStepNext
<1>0. c \in Client BY Connection
<1>1. /\ spc \in {"names", "rmPath"} /\ spc' = "select" /\ conn' = c
      /\ UNCHANGED <<clientVars, open, down, req, size, hurt>>
      /\ up[c] # <<>> /\ up'[c] = Tail(up[c])
      /\ k # c => up'[k] = up[k]
  BY <1>0, ClientFunctions DEF RecvNames, RecvRmPath, Recv
<1>2. CASE k # c BY <1>0, <1>1, <1>2, OtherConnections
<1>3. CASE k = c
  <2>1. open[c] /\ Now(c) BY <1>1, <1>3, InStepNow
  <2>2. Stepping(spc, req.type, size, up[c], down[c], cpc[c], cur[c].type,
                 buf[c].size)
    BY <2>1 DEF Now, ServerAt
  <2>3. Stepping("select", req.type, size, Tail(up[c]), down[c], cpc[c],
                 cur[c].type, buf[c].size)
    BY <1>0, <1>1, <2>2, WireType, LastRead
  <2> QED BY <1>0, <1>1, <1>3, <2>1, <2>3, Served
<1> QED BY <1>2, <1>3

\* The stream of a client ends only after the client has ended.
LEMMA EndInStep ==
  ASSUME TypeOK, InStep, EofPath \/ EofFileHeader \/ ShortData \/ EofNames
  PROVE  InStep'
<1> SUFFICES ASSUME NEW k \in Client, k \notin hurt' PROVE StaysInStep(k)
  BY InStepNext
<1>1. conn \in Client BY Connection
<1>2. /\ conn' = conn /\ UNCHANGED <<clientVars, open, up>>
      /\ hurt \subseteq hurt'
      /\ ~open[conn] \/ conn \in hurt'
      /\ k # conn => down'[k] = down[k]
  BY <1>1, ClientFunctions
  DEF EofPath, EofFileHeader, ShortData, EofNames, Eof, Answer, Fault
<1>3. k # conn BY <1>1, <1>2, InStepNow
<1> QED BY <1>1, <1>2, <1>3, OtherConnections

-----------------------------------------------------------------------------
LEMMA InStepInit == Init => InStep
<1> SUFFICES ASSUME Init, NEW c \in Client PROVE
      /\ open[c]
      /\ Stepping(ServerAt(c), req.type, size, up[c], down[c], cpc[c],
                  cur[c].type, buf[c].size)
  BY DEF InStep
<1>1. /\ open[c] /\ up[c] = <<>> /\ down[c] = <<>> /\ cpc[c] = "idle"
      /\ ServerAt(c) = "select"
  BY DEF Init, ServerAt
<1>2. Chain(up[c]) BY <1>1 DEF Chain
<1> QED BY <1>1, <1>2 DEF Stepping, ServerState, Sent

LEMMA InStepStep == TypeOK /\ InStep /\ [Next]_vars => InStep'
<1> SUFFICES ASSUME TypeOK, InStep, [Next]_vars PROVE InStep'
  OBVIOUS
<1>1. ASSUME NEW c \in Client, ClientStep(c) PROVE InStep'
  BY <1>1, VisitInStep, StartWatchInStep, SendLinkInStep, RecvLinkEchoInStep,
     SendMetaInStep, RecvMetaEchoInStep, RecvMetaResInStep,
     SendFileHeaderInStep, SendFileDataInStep, SyncEventInStep,
     DeleteEventInStep, RecvRmEchoInStep
  DEF ClientStep
<1>2. ASSUME NEW c \in Client, User(c) \/ Crash(c) PROVE InStep'
  BY <1>2, UserInStep, CrashInStep
<1>3. ASSUME NEW c \in Client, ServeMeta(c) \/ ServeLink(c) \/ ServeRm(c)
      PROVE  InStep'
  <2>1. CASE ServeMeta(c) BY <2>1, ServeInStep DEF ServeMeta
  <2>2. CASE ServeLink(c) BY <2>2, ServeInStep DEF ServeLink
  <2>3. CASE ServeRm(c) BY <2>3, ServeInStep DEF ServeRm
  <2> QED BY <1>3, <2>1, <2>2, <2>3
<1>4. CASE ServerStep
  BY <1>3, <1>4, SelectInStep, LogoutInStep, GarbageInStep, RecvPathInStep,
     LockFileInStep, LockHeldInStep, RecvFileHeaderInStep, RecvDataInStep,
     LastInStep, EndInStep
  DEF ServerStep
<1>5. CASE UNCHANGED vars
  BY <1>5 DEF vars, clientVars, serverVars, InStep, ServerAt
<1> QED BY <1>1, <1>2, <1>4, <1>5 DEF Next

LEMMA InStepIsFraming == InStep => Framing
<1> SUFFICES ASSUME InStep, NEW c \in Client, c \notin hurt
      PROVE  /\ up[c] # <<>> => Head(up[c]).kind \in ServerWants(c)
             /\ up[c] # <<>> /\ c = conn /\ spc = "data" =>
                  Head(up[c]).piece.size = size
             /\ down[c] # <<>> => /\ cpc[c] \in Waiting
                                  /\ Head(down[c]).role = ClientWants(c)
  BY DEF Framing
<1>1. Stepping(ServerAt(c), req.type, size, up[c], down[c], cpc[c],
               cur[c].type, buf[c].size)
  BY InStepNow DEF Now
<1>2. up[c] # <<>> => Reads(ServerAt(c), req.type, size, cpc[c], Head(up[c]))
  BY <1>1 DEF Stepping
<1>3. down[c] # <<>> => cpc[c] \in Waiting /\ Head(down[c]).role = ClientWants(c)
  BY <1>1 DEF Stepping, Sent, Single, ClientWants
<1>4. up[c] # <<>> => Head(up[c]).kind \in ServerWants(c)
  BY <1>2 DEF Reads, Request, ServerAt, ServerWants
<1>5. up[c] # <<>> /\ c = conn /\ spc = "data" => Head(up[c]).piece.size = size
  BY <1>2 DEF Reads, ServerAt
<1> QED BY <1>3, <1>4, <1>5

\* The invariant behind Framing: for every client no fault has hit, what is in
\* flight leads from the server's place in handle_request (316-545) to the
\* client's place in sync_file, send_hardlink or the rm loop.  TypeOK is needed
\* for the lengths in headers and for the streams to be sequences.
THEOREM StaysStepping == Spec => []InStep
<1>1. Init => TypeOK /\ InStep BY Initially, InStepInit
<1>2. TypeOK /\ InStep /\ [Next]_vars => (TypeOK /\ InStep)'
  BY TypeStep, InStepStep
<1> QED BY <1>1, <1>2, PTL DEF Spec

\* No recv of the client or the server ever takes one message for another, and no
\* answer is left over, for any number of clients, files, contents and changes, as
\* long as no fault has hit that client itself.
THEOREM FramingKept == Spec => []Framing
<1>1. InStep => Framing BY InStepIsFraming
<1> QED BY <1>1, StaysStepping, PTL

-----------------------------------------------------------------------------
(* What the names, the streams and the disks hold.                         *)

\* In the homes at the start a directory has one name, and names of one inode have one
\* type, as in any file system.  A second hard link to a symbolic link is left out.
OneNameLinks ==
  \A h \in Homes, p, q \in Path :
    h[p] = h[q] /\ h[p] # None => p = q \/ (TypeOf(p) = "reg" /\ TypeOf(q) = "reg")

Regular(c) == {p \in Own[c] : TypeOf(p) = "reg"}
EventOf(c) == [kind : EditKind, path : Own[c]]
\* The messages of c are about names of its own account.
UpOf(c) == {m \in Up : /\ m.kind = "path" => m.path \in Own[c]
                       /\ m.kind = "names" => m.src \in Regular(c) /\ m.tgt \in Regular(c)
                       /\ m.kind = "data" => m.piece.ver # Junk}
\* A name is in one account, and only regular files have two names.
OneFile(c, p, q) == p = q \/ (p \in Regular(c) /\ q \in Regular(c))

Lists(c) ==
  /\ todo[c] \subseteq Own[c] /\ tab[c] \subseteq Inode \X Regular(c)
  /\ links[c] \subseteq Regular(c)
  /\ events[c] \in Seq(EventOf(c))
Current(c) ==
  /\ cpc[c] \notin {"idle", "down"} =>
       cur[c].path \in Own[c] /\ cur[c].type \in {TypeOf(cur[c].path), "gone"}
  /\ links[c] # {} /\ cpc[c] # "down" =>
       cpc[c] \in {"visit", "hlEcho"} /\ cur[c].path \in Regular(c)
  /\ cpc[c] = "data" => buf[c].ver # Junk
HomeOf(c) == \A p, q \in Path : lent[c][p] # None =>
  /\ p \in Own[c]
  /\ lent[c][p] = lent[c][q] => OneFile(c, p, q)
Holds(c) == Lists(c) /\ Current(c) /\ HomeOf(c) /\ up[c] \in Seq(UpOf(c))

\* Accounts have no file of the server in common.
Apart == \A c \in Client : \A p \in Own[c], q \in Path :
           hent[p] # None /\ hent[p] = hent[q] => OneFile(c, p, q)
Receiving == spc \in {"lock", "file", "data"}
Owned == /\ \A c \in Client : Holds(c)
         /\ Receiving => path \in Own[conn]
         /\ Apart

(* A file being received from a client no fault has hit.                   *)
Target == hdat[hent[path]]
\* Half blocks: a header counts for one and the data for another.
Got == 2 * Len(Target) + (IF spc = "data" THEN 1 ELSE 0)
Numbered(g, w) == \A i \in 1 .. Len(w) :
                    w[i].kind = "data" => 2 * w[i].piece.idx = g + i
FullBlocks(s) == \A k \in 1 .. Len(s) :
                   s[k].idx = k /\ s[k].ver # Junk /\ s[k].size = "full"
\* With g half blocks received into s, a client at pc with the last block b read
\* has sent w.
Carries(g, s, w, pc, t, b) ==
  /\ Numbered(g, w)
  /\ pc \in {"file", "data"} =>
       t = "reg" /\ 2 * b = g + Len(w) + (IF pc = "data" THEN 1 ELSE 0)
  /\ pc = "metaRes" => s = <<>>
Transfer ==
  Receiving /\ conn \notin hurt =>
    /\ TypeOf(path) = req.type
    /\ req.type = "reg" =>
         /\ hent[path] # None /\ FullBlocks(Target)
         /\ Carries(Got, Target, up[conn], cpc[conn], cur[conn].type, buf[conn].idx)
\* The path a client waits for the answer about is the one it has sent.
PathSent == \A c \in Client \ hurt :
  cpc[c] = "metaRes" /\ up[c] # <<>> => LastOf(up[c]).path = cur[c].path
Files == PathSent /\ Transfer /\ WholeFiles

-----------------------------------------------------------------------------
(* What a client holds: lemmas on its messages, then one for every action. *)

LEMMA MessagesOf ==
  ASSUME NEW c \in Client
  PROVE  /\ UpOf(c) \subseteq Up
         /\ \A t \in Type, v \in Version \cup {None} : MetaMsg(t, v) \in UpOf(c)
         /\ \A p \in Own[c] : PathMsg(p) \in UpOf(c)
         /\ \A s \in Size : FileMsg(s) \in UpOf(c)
         /\ \A x \in Piece : x.ver # Junk => DataMsg(x) \in UpOf(c)
         /\ \A p, q \in Regular(c) : NamesMsg(p, q) \in UpOf(c)
         /\ HlMsg \in UpOf(c) /\ RmMsg \in UpOf(c)
<1>1. Own[c] \subseteq Path BY NamesAssumption
<1>2. Regular(c) \subseteq Path BY <1>1 DEF Regular
<1> QED BY <1>1, <1>2, UpMessages
        DEF UpOf, MetaMsg, PathMsg, FileMsg, DataMsg, NamesMsg, HlMsg, RmMsg

LEMMA AppendSeq ==
  ASSUME NEW T, NEW s \in Seq(T), NEW x \in T
  PROVE  Append(s, x) \in Seq(T)
  OBVIOUS

LEMMA TailSeq ==
  ASSUME NEW T, NEW s \in Seq(T), s # <<>>
  PROVE  Tail(s) \in Seq(T) /\ Head(s) \in T
  BY HeadTailProperties

LEMMA HoldFunctions ==
  ASSUME TypeOK
  PROVE  /\ todo = [c \in Client |-> todo[c]] /\ tab = [c \in Client |-> tab[c]]
         /\ links = [c \in Client |-> links[c]]
         /\ events = [c \in Client |-> events[c]]
         /\ lent = [c \in Client |-> lent[c]]
<1>1. ClientOK /\ UserOK BY DEF TypeOK
<1>2. /\ todo = [c \in Client |-> todo[c]] /\ tab = [c \in Client |-> tab[c]]
      /\ links = [c \in Client |-> links[c]]
  BY <1>1 DEF ClientOK
<1>3. events = [c \in Client |-> events[c]] BY <1>1 DEF ClientOK
<1>4. lent = [c \in Client |-> lent[c]] BY <1>1 DEF UserOK
<1> QED BY <1>2, <1>3, <1>4

\* What Holds looks at.
Same(k) ==
  /\ todo'[k] = todo[k] /\ tab'[k] = tab[k] /\ links'[k] = links[k]
  /\ events'[k] = events[k] /\ cur'[k] = cur[k] /\ cpc'[k] = cpc[k]
  /\ buf'[k] = buf[k] /\ lent'[k] = lent[k] /\ up'[k] = up[k]

LEMMA SameHolds ==
  ASSUME NEW k \in Client, Holds(k), Same(k)
  PROVE  Holds(k)'
BY DEF Same, Holds, Lists, Current, HomeOf

LEMMA ClientOwned ==
  ASSUME Owned, NEW c \in Client, UNCHANGED <<serverVars, diskVars>>,
         \A k \in Client : k # c => Same(k),
         Holds(c)'
  PROVE  Owned'
<1>1. \A k \in Client : Holds(k)' BY SameHolds DEF Owned
<1>2. Apart' BY DEF Owned, Apart, diskVars
<1>3. Receiving' => path' \in Own[conn'] BY DEF Owned, Receiving, serverVars
<1> QED BY <1>1, <1>2, <1>3 DEF Owned

LEMMA SendUpOf ==
  ASSUME TypeOK, NEW c \in Client, NEW m, SendUp(c, m)
  PROVE  /\ up'[c] = Append(up[c], m)
         /\ \A k \in Client : k # c => up'[k] = up[k]
BY ClientFunctions DEF SendUp

LEMMA GotoOf ==
  ASSUME TypeOK, NEW c \in Client, NEW pc, Goto(c, pc)
  PROVE  cpc'[c] = pc /\ \A k \in Client : k # c => cpc'[k] = cpc[k]
BY ClientFunctions DEF Goto

LEMMA VisitOwned ==
  ASSUME TypeOK, Owned, NEW c \in Client, Visit(c)
  PROVE  Owned'
<1>1. /\ cpc[c] = "idle"
      /\ UNCHANGED <<buf, events, lent, up, serverVars, diskVars>>
  BY DEF Visit, userVars
<1>2. PICK p \in todo[c] :
        \/ /\ lent[c][p] = None /\ todo' = [todo EXCEPT ![c] = {}]
           /\ UNCHANGED <<tab, links, cur, cpc>>
        \/ /\ lent[c][p] # None /\ todo' = [todo EXCEPT ![c] = @ \ {p}]
           /\ cur' = [cur EXCEPT ![c] = [path |-> p, type |-> TypeOf(p)]]
           /\ \/ /\ \E q \in Path \ {p} : lent[c][q] = lent[c][p]
                 /\ links' = [links EXCEPT ![c] = EarlierNames(c, lent[c][p])]
                 /\ tab' = [tab EXCEPT ![c] = @ \cup {<<lent[c][p], p>>}]
              \/ /\ links' = [links EXCEPT ![c] = {}] /\ UNCHANGED tab
           /\ cpc' = [cpc EXCEPT ![c] = "visit"]
  <2>1. PICK p \in todo[c] :
        LET i == lent[c][p]
            shared == TypeOf(p) # "dir" /\ \E q \in Path \ {p} : lent[c][q] = i
        IN IF i = None
           THEN /\ todo' = [todo EXCEPT ![c] = {}]
                /\ UNCHANGED <<tab, links, cur, cpc>>
           ELSE /\ todo' = [todo EXCEPT ![c] = @ \ {p}]
                /\ cur' = [cur EXCEPT ![c] = [path |-> p, type |-> TypeOf(p)]]
                /\ links' = [links EXCEPT ![c] =
                               IF shared THEN EarlierNames(c, i) ELSE {}]
                /\ tab' = [tab EXCEPT ![c] =
                             IF shared THEN @ \cup {<<i, p>>} ELSE @]
                /\ cpc' = [cpc EXCEPT ![c] = "visit"]
    BY DEF Visit, Goto
  <2>2. [tab EXCEPT ![c] = tab[c]] = tab BY HoldFunctions
  <2> QED BY <2>1, <2>2
<1>3. Holds(c) /\ p \in Own[c] BY DEF Owned, Holds, Lists
<1>4. p \in Path BY <1>3, NamesAssumption
<1>5. \A k \in Client : k # c => Same(k)
  BY <1>1, <1>2, HoldFunctions, ClientFunctions DEF Same
<1>6. CASE lent[c][p] = None
  <2>1. /\ todo'[c] = {} /\ UNCHANGED <<tab, links, cur, cpc>>
    BY <1>2, <1>6, HoldFunctions
  <2>2. Holds(c)' BY <1>1, <1>3, <2>1 DEF Holds, Lists, Current, HomeOf
  <2> QED BY <1>1, <1>5, <2>2, ClientOwned
<1>7. CASE lent[c][p] # None
  <2>1. /\ todo'[c] \subseteq todo[c] /\ cpc'[c] = "visit"
        /\ cur'[c].path = p /\ cur'[c].type = TypeOf(p)
        /\ \/ /\ \E q \in Path \ {p} : lent[c][q] = lent[c][p]
              /\ links'[c] = EarlierNames(c, lent[c][p])
              /\ tab'[c] = tab[c] \cup {<<lent[c][p], p>>}
           \/ /\ links'[c] = {} /\ tab'[c] = tab[c]
    BY <1>2, <1>7, HoldFunctions, ClientFunctions
  <2>2. lent[c][p] \in Inode BY <1>4, <1>7 DEF TypeOK, UserOK
  <2>3. EarlierNames(c, lent[c][p]) \subseteq Regular(c)
    BY <1>3 DEF Holds, Lists, EarlierNames
  <2>4. (\E q \in Path \ {p} : lent[c][q] = lent[c][p]) => p \in Regular(c)
    BY <1>3, <1>4, <1>7 DEF Holds, HomeOf, OneFile
  <2>5. Lists(c)' BY <1>1, <1>3, <2>1, <2>2, <2>3, <2>4 DEF Holds, Lists
  <2>6. Current(c)' BY <1>1, <1>3, <2>1, <2>4 DEF Holds, Current
  <2>7. Holds(c)' BY <1>1, <1>3, <2>5, <2>6 DEF Holds, HomeOf
  <2> QED BY <1>1, <1>5, <2>7, ClientOwned
<1> QED BY <1>6, <1>7

LEMMA StartWatchOwned ==
  ASSUME TypeOK, Owned, NEW c \in Client, StartWatch(c)
  PROVE  Owned'
<1>1. UNCHANGED <<todo, tab, links, cur, cpc, buf, events, lent, up, serverVars,
                  diskVars>>
  BY DEF StartWatch, userVars
<1>2. \A k \in Client : Same(k) BY <1>1 DEF Same
<1>3. Holds(c)' BY <1>2, SameHolds DEF Owned
<1> QED BY <1>1, <1>2, <1>3, ClientOwned

\* A step that sends a message of c and goes on with the same name.
LEMMA SendOwned ==
  ASSUME TypeOK, Owned, NEW c \in Client, NEW m \in UpOf(c), SendUp(c, m),
         UNCHANGED <<todo, tab, cur, events, lent, serverVars, diskVars>>,
         \A k \in Client : k # c => /\ links'[k] = links[k] /\ cpc'[k] = cpc[k]
                                    /\ buf'[k] = buf[k],
         links'[c] \subseteq links[c],
         cpc[c] \notin {"idle", "down"} \/ cpc'[c] \in {"idle", "down"},
         links'[c] # {} /\ cpc'[c] # "down" =>
           cpc[c] # "down" /\ cpc'[c] \in {"visit", "hlEcho"},
         cpc'[c] = "data" => buf'[c].ver # Junk
  PROVE  Owned'
<1>1. /\ up'[c] = Append(up[c], m)
      /\ \A k \in Client : k # c => up'[k] = up[k]
  BY SendUpOf
<1>2. Holds(c) BY DEF Owned
<1>3. up'[c] \in Seq(UpOf(c)) BY <1>1, <1>2, AppendSeq DEF Holds
<1>4. Lists(c)' BY <1>2 DEF Holds, Lists
<1>5. Current(c)' BY <1>2 DEF Holds, Current
<1>6. HomeOf(c)' BY <1>2 DEF Holds, HomeOf
<1>7. \A k \in Client : k # c => Same(k) BY <1>1 DEF Same
<1> QED BY <1>3, <1>4, <1>5, <1>6, <1>7, ClientOwned DEF Holds

LEMMA SendLinkOwned ==
  ASSUME TypeOK, Owned, NEW c \in Client, SendLink(c)
  PROVE  Owned'
<1>1. /\ cpc[c] = "visit" /\ SendUp(c, HlMsg) /\ Goto(c, "hlEcho")
      /\ UNCHANGED <<todo, tab, links, cur, buf, events, lent, serverVars, diskVars>>
  BY DEF SendLink, userVars
<1>2. HlMsg \in UpOf(c) BY MessagesOf
<1> QED BY <1>1, <1>2, GotoOf, SendOwned

LEMMA RecvLinkEchoOwned ==
  ASSUME TypeOK, Owned, NEW c \in Client, RecvLinkEcho(c)
  PROVE  Owned'
<1>1. /\ cpc[c] = "hlEcho" /\ Goto(c, "visit")
      /\ UNCHANGED <<todo, tab, cur, buf, events, lent, serverVars, diskVars>>
  BY DEF RecvLinkEcho, userVars
<1>2. PICK q \in links[c] : /\ SendUp(c, NamesMsg(q, cur[c].path))
                            /\ links' = [links EXCEPT ![c] = @ \ {q}]
  BY DEF RecvLinkEcho
<1>3. q \in Regular(c) /\ cur[c].path \in Regular(c)
  BY <1>1, <1>2 DEF Owned, Holds, Lists, Current
<1>4. NamesMsg(q, cur[c].path) \in UpOf(c) BY <1>3, MessagesOf
<1>5. links'[c] \subseteq links[c] /\ \A k \in Client : k # c => links'[k] = links[k]
  BY <1>2, HoldFunctions
<1> QED BY <1>1, <1>2, <1>4, <1>5, GotoOf, SendOwned

LEMMA SendMetaOwned ==
  ASSUME TypeOK, Owned, NEW c \in Client, SendMeta(c)
  PROVE  Owned'
<1> DEFINE i == lent[c][cur[c].path]
<1>1. /\ cpc[c] = "visit" /\ links[c] = {}
      /\ UNCHANGED <<todo, tab, links, cur, buf, events, lent, serverVars, diskVars>>
  BY DEF SendMeta, userVars
<1>2. CASE Close(c) /\ UNCHANGED up
  <2>1. cpc'[c] = "down" /\ \A k \in Client : k # c => cpc'[k] = cpc[k]
    BY <1>2, GotoOf DEF Close
  <2>2. Holds(c) BY DEF Owned
  <2>3. Holds(c)' BY <1>1, <1>2, <2>1, <2>2 DEF Holds, Lists, Current, HomeOf
  <2>4. \A k \in Client : k # c => Same(k) BY <1>1, <1>2, <2>1 DEF Same
  <2> QED BY <1>1, <2>3, <2>4, ClientOwned
<1>3. CASE \E v \in Version \cup {None} :
             SendUp(c, MetaMsg(cur[c].type, v)) /\ Goto(c, "metaEcho")
  <2>1. PICK v \in Version \cup {None} :
             SendUp(c, MetaMsg(cur[c].type, v)) /\ Goto(c, "metaEcho")
    BY <1>3
  <2>2. MetaMsg(cur[c].type, v) \in UpOf(c) BY WireType, MessagesOf
  <2> QED BY <1>1, <2>1, <2>2, GotoOf, SendOwned
<1>4. i \in Inode \cup {None}
  <2>1. cur[c].path \in Path BY WireType
  <2> QED BY <2>1 DEF TypeOK, UserOK
<1>5. i # None => ldat[c][i] \in Version BY <1>4 DEF TypeOK, UserOK
<1> QED BY <1>2, <1>3, <1>5 DEF SendMeta

LEMMA RecvMetaEchoOwned ==
  ASSUME TypeOK, Owned, NEW c \in Client, RecvMetaEcho(c)
  PROVE  Owned'
<1>1. /\ cpc[c] = "metaEcho" /\ SendUp(c, PathMsg(cur[c].path)) /\ Goto(c, "metaRes")
      /\ UNCHANGED <<todo, tab, links, cur, buf, events, lent, serverVars, diskVars>>
  BY DEF RecvMetaEcho, userVars
<1>2. Current(c) BY DEF Owned, Holds
<1>3. links[c] = {} /\ cur[c].path \in Own[c] BY <1>1, <1>2 DEF Current
<1>4. PathMsg(cur[c].path) \in UpOf(c) BY <1>3, MessagesOf
<1> QED BY <1>1, <1>3, <1>4, GotoOf, SendOwned

LEMMA RecvRmEchoOwned ==
  ASSUME TypeOK, Owned, NEW c \in Client, RecvRmEcho(c)
  PROVE  Owned'
<1>1. /\ cpc[c] = "rmEcho" /\ SendUp(c, PathMsg(cur[c].path)) /\ Goto(c, "idle")
      /\ UNCHANGED <<todo, tab, links, cur, buf, events, lent, serverVars, diskVars>>
  BY DEF RecvRmEcho, userVars
<1>2. Current(c) BY DEF Owned, Holds
<1>3. links[c] = {} /\ cur[c].path \in Own[c] BY <1>1, <1>2 DEF Current
<1>4. PathMsg(cur[c].path) \in UpOf(c) BY <1>3, MessagesOf
<1> QED BY <1>1, <1>3, <1>4, GotoOf, SendOwned

LEMMA RecvMetaResOwned ==
  ASSUME TypeOK, Owned, NEW c \in Client, RecvMetaRes(c)
  PROVE  Owned'
<1>1. /\ cpc[c] = "metaRes"
      /\ UNCHANGED <<todo, tab, links, cur, events, lent, serverVars, diskVars>>
  BY DEF RecvMetaRes, userVars
<1>2. Holds(c) /\ links[c] = {} BY <1>1 DEF Owned, Holds, Current
<1>3. CASE SendUp(c, FileMsg("wild")) /\ Goto(c, "idle") /\ UNCHANGED buf
  <2>1. FileMsg("wild") \in UpOf(c) BY MessagesOf
  <2> QED BY <1>1, <1>2, <1>3, <2>1, GotoOf, SendOwned
<1>4. CASE /\ UNCHANGED up
           /\ Goto(c, "file") \/ Goto(c, "idle") \/ Goto(c, "down")
           /\ UNCHANGED buf \/ buf' = [buf EXCEPT ![c] = NoPiece]
  <2>1. cpc'[c] \in {"file", "idle", "down"}
        /\ \A k \in Client : k # c => cpc'[k] = cpc[k]
    BY <1>4, GotoOf
  <2>2. \A k \in Client : k # c => buf'[k] = buf[k] BY <1>4, ClientFunctions
  <2>3. Holds(c)'
    BY <1>1, <1>2, <1>4, <2>1 DEF Holds, Lists, Current, HomeOf
  <2>4. \A k \in Client : k # c => Same(k) BY <1>1, <1>4, <2>1, <2>2 DEF Same
  <2> QED BY <1>1, <2>3, <2>4, ClientOwned
<1> QED BY <1>3, <1>4 DEF RecvMetaRes, OpenAgain, Close

\* A block that is read holds bytes of a version.
LEMMA BlockOf ==
  ASSUME TypeOK, NEW c \in Client, cpc[c] = "file"
  PROVE  /\ ReadBlock(c).ver # Junk
         /\ ReadBlock(c).size \in {"full", "part", "zero"}
         /\ cur[c].type # "lnk" => ReadBlock(c).idx = buf[c].idx + 1
<1>1. rd[c] \in Inode
  <2>1. rd[c] \in Inode \cup {None} BY DEF TypeOK, ClientOK
  <2>2. \A k \in Client : cpc[k] \in {"file", "data"} => rd[k] # None
    BY Zenon DEF TypeOK, ClientOK
  <2> QED BY <2>1, <2>2
<1>2. ldat[c][rd[c]] \in Version BY <1>1 DEF TypeOK, UserOK
<1> QED BY <1>2, DataAssumption DEF ReadBlock, LinkPiece, PieceOf

LEMMA SendFileHeaderOwned ==
  ASSUME TypeOK, Owned, NEW c \in Client, SendFileHeader(c)
  PROVE  Owned'
<1> DEFINE x == ReadBlock(c)
<1>1. /\ cpc[c] = "file" /\ SendUp(c, FileMsg(x.size)) /\ buf' = [buf EXCEPT ![c] = x]
      /\ Goto(c, "idle") \/ Goto(c, "data")
      /\ UNCHANGED <<todo, tab, links, cur, events, lent, serverVars, diskVars>>
  BY DEF SendFileHeader, userVars
<1>2. links[c] = {} BY <1>1 DEF Owned, Holds, Current
<1>3. x.ver # Junk /\ x.size \in {"full", "part", "zero"} BY <1>1, BlockOf
<1> HIDE DEF x
<1>4. FileMsg(x.size) \in UpOf(c) BY <1>3, MessagesOf
<1>5. buf'[c] = x /\ \A k \in Client : k # c => buf'[k] = buf[k]
  BY <1>1, ClientFunctions
<1>6. cpc'[c] \in {"idle", "data"} /\ \A k \in Client : k # c => cpc'[k] = cpc[k]
  BY <1>1, GotoOf
<1> QED BY <1>1, <1>2, <1>3, <1>4, <1>5, <1>6, SendOwned

LEMMA SendFileDataOwned ==
  ASSUME TypeOK, Owned, NEW c \in Client, SendFileData(c)
  PROVE  Owned'
<1>1. /\ cpc[c] = "data" /\ SendUp(c, DataMsg(buf[c]))
      /\ Goto(c, "idle") \/ Goto(c, "file")
      /\ UNCHANGED <<todo, tab, links, cur, buf, events, lent, serverVars, diskVars>>
  BY DEF SendFileData, userVars
<1>2. links[c] = {} /\ buf[c].ver # Junk BY <1>1 DEF Owned, Holds, Current
<1>3. buf[c] \in Piece BY DEF TypeOK, ClientOK
<1>4. DataMsg(buf[c]) \in UpOf(c) BY <1>2, <1>3, MessagesOf
<1>6. cpc'[c] \in {"idle", "file"} /\ \A k \in Client : k # c => cpc'[k] = cpc[k]
  BY <1>1, GotoOf
<1> QED BY <1>1, <1>2, <1>4, <1>6, SendOwned

\* An event is taken from the queue.
LEMMA EventOwned ==
  ASSUME TypeOK, Owned, NEW c \in Client, events[c] # <<>>,
         events' = [events EXCEPT ![c] = Tail(@)]
  PROVE  /\ Head(events[c]).path \in Own[c] /\ events'[c] \in Seq(EventOf(c))
         /\ \A k \in Client : k # c => events'[k] = events[k]
<1>1. events[c] \in Seq(EventOf(c)) BY DEF Owned, Holds, Lists
<1>2. Head(events[c]) \in EventOf(c) /\ Tail(events[c]) \in Seq(EventOf(c))
  BY <1>1, TailSeq
<1>3. /\ events'[c] = Tail(events[c])
      /\ \A k \in Client : k # c => events'[k] = events[k]
  BY HoldFunctions
<1> QED BY <1>2, <1>3 DEF EventOf

LEMMA SyncEventOwned ==
  ASSUME TypeOK, Owned, NEW c \in Client, SyncEvent(c)
  PROVE  Owned'
<1> DEFINE p == Head(events[c]).path
<1>1. /\ cpc[c] = "idle" /\ events[c] # <<>> /\ Goto(c, "visit")
      /\ events' = [events EXCEPT ![c] = Tail(@)]
      /\ cur' = [cur EXCEPT ![c] = [path |-> p, type |-> Stat(c, p)]]
      /\ UNCHANGED <<todo, tab, links, buf, lent, up, serverVars, diskVars>>
  BY DEF SyncEvent, userVars
<1>2. p \in Own[c] /\ events'[c] \in Seq(EventOf(c))
      /\ \A k \in Client : k # c => events'[k] = events[k]
  BY <1>1, EventOwned
<1> HIDE DEF p
<1>3. /\ cur'[c] = [path |-> p, type |-> Stat(c, p)]
      /\ \A k \in Client : k # c => cur'[k] = cur[k]
  BY <1>1, ClientFunctions
<1>4. cur'[c].path = p /\ cur'[c].type \in {TypeOf(p), "gone"}
  BY <1>3 DEF Stat
<1>5. cpc'[c] = "visit" /\ \A k \in Client : k # c => cpc'[k] = cpc[k]
  BY <1>1, GotoOf
<1>6. Holds(c) /\ links[c] = {} BY <1>1 DEF Owned, Holds, Current
<1>7. Holds(c)'
  BY <1>1, <1>2, <1>4, <1>5, <1>6 DEF Holds, Lists, Current, HomeOf
<1>8. \A k \in Client : k # c => Same(k) BY <1>1, <1>2, <1>3, <1>5 DEF Same
<1> QED BY <1>1, <1>7, <1>8, ClientOwned

LEMMA DeleteEventOwned ==
  ASSUME TypeOK, Owned, NEW c \in Client, DeleteEvent(c)
  PROVE  Owned'
<1> DEFINE p == Head(events[c]).path
<1>1. /\ cpc[c] = "idle" /\ events[c] # <<>> /\ Goto(c, "rmEcho")
      /\ events' = [events EXCEPT ![c] = Tail(@)] /\ SendUp(c, RmMsg)
      /\ cur' = [cur EXCEPT ![c] = [path |-> p, type |-> "gone"]]
      /\ UNCHANGED <<todo, tab, links, buf, lent, serverVars, diskVars>>
  BY DEF DeleteEvent, userVars
<1>2. p \in Own[c] /\ events'[c] \in Seq(EventOf(c))
      /\ \A k \in Client : k # c => events'[k] = events[k]
  BY <1>1, EventOwned
<1> HIDE DEF p
<1>3. /\ cur'[c].path = p /\ cur'[c].type = "gone"
      /\ \A k \in Client : k # c => cur'[k] = cur[k]
  BY <1>1, ClientFunctions
<1>5. cpc'[c] = "rmEcho" /\ \A k \in Client : k # c => cpc'[k] = cpc[k]
  BY <1>1, GotoOf
<1>4. up'[c] = Append(up[c], RmMsg) /\ \A k \in Client : k # c => up'[k] = up[k]
  BY <1>1, SendUpOf
<1>6. Holds(c) /\ links[c] = {} BY <1>1 DEF Owned, Holds, Current
<1>9. up'[c] \in Seq(UpOf(c))
  <2>1. RmMsg \in UpOf(c) BY MessagesOf
  <2> QED BY <1>4, <1>6, <2>1, AppendSeq DEF Holds
<1>7. Holds(c)'
  BY <1>1, <1>2, <1>3, <1>5, <1>6, <1>9 DEF Holds, Lists, Current, HomeOf
<1>8. \A k \in Client : k # c => Same(k)
  BY <1>1, <1>2, <1>3, <1>4, <1>5 DEF Same
<1> QED BY <1>1, <1>7, <1>8, ClientOwned

LEMMA CrashOwned ==
  ASSUME TypeOK, Owned, NEW c \in Client, Crash(c)
  PROVE  Owned'
<1>1. /\ Goto(c, "down")
      /\ UNCHANGED <<todo, tab, links, cur, buf, events, lent, up, serverVars,
                     diskVars>>
  BY DEF Crash, userVars
<1>2. cpc'[c] = "down" /\ \A k \in Client : k # c => cpc'[k] = cpc[k]
  BY <1>1, GotoOf
<1>3. Holds(c)' BY <1>1, <1>2 DEF Owned, Holds, Lists, Current, HomeOf
<1>4. \A k \in Client : k # c => Same(k) BY <1>1, <1>2 DEF Same
<1> QED BY <1>1, <1>3, <1>4, ClientOwned

-----------------------------------------------------------------------------
(* ... and for the user.                                                   *)

LEMMA EditOwned ==
  ASSUME TypeOK, Owned, NEW c \in Client, NEW k \in EditKind, NEW e \in EditKind,
         NEW p \in Path, Edit(c, k, e, p),
         \A j \in Client : j # c => lent'[j] = lent[j],
         HomeOf(c)'
  PROVE  Owned'
<1> DEFINE x == [kind |-> e, path |-> p]
<1>1. /\ p \in Own[c] /\ Report(c, e, p)
      /\ UNCHANGED <<tab, links, cur, cpc, buf, up, serverVars, diskVars>>
  BY DEF Edit
<1>2. x \in EventOf(c) BY <1>1 DEF EventOf
<1> HIDE DEF x
<1>3. Holds(c) BY DEF Owned
<1>4. /\ \/ events' = events
         \/ events' = [events EXCEPT ![c] = Append(@, x)]
      /\ \/ todo' = todo \/ todo' = [todo EXCEPT ![c] = @ \cup {p}]
         \/ todo' = [todo EXCEPT ![c] = @ \ {p}]
  BY <1>1 DEF Report, Notify, x
<1>5. /\ events'[c] = events[c] \/ events'[c] = Append(events[c], x)
      /\ todo'[c] \subseteq todo[c] \cup {p}
      /\ \A j \in Client : j # c => events'[j] = events[j] /\ todo'[j] = todo[j]
  BY <1>4, HoldFunctions
<1>6. events'[c] \in Seq(EventOf(c))
  <2>1. events[c] \in Seq(EventOf(c)) BY <1>3 DEF Holds, Lists
  <2> QED BY <1>2, <1>5, <2>1, AppendSeq
<1>7. Lists(c)' BY <1>1, <1>3, <1>5, <1>6 DEF Holds, Lists
<1>8. Holds(c)' BY <1>1, <1>3, <1>7 DEF Holds, Current
<1>9. \A j \in Client : j # c => Same(j) BY <1>1, <1>5 DEF Same
<1> QED BY <1>1, <1>8, <1>9, ClientOwned

LEMMA CreateOwned ==
  ASSUME TypeOK, Owned, NEW c \in Client, NEW p \in Path, NEW i \in Inode,
         NEW v \in Version, Create(c, p, i, v)
  PROVE  Owned'
<1>1. /\ Edit(c, "create", "create", p) /\ p \in Own[c]
      /\ lent[c][p] = None /\ i \notin Used(lent[c])
      /\ lent' = [lent EXCEPT ![c][p] = i]
  BY DEF Create, Edit, IsNext
<1>2. HomeOf(c) BY DEF Owned, Holds
<1>3. lent[c] \in [Path -> Inode \cup {None}] BY DEF TypeOK, UserOK
<1>4. /\ lent'[c] = [lent[c] EXCEPT ![p] = i]
      /\ \A j \in Client : j # c => lent'[j] = lent[j]
  BY <1>1, HoldFunctions
<1>5. \A q \in Path : lent[c][q] # i BY <1>1, <1>3 DEF Used
<1>6. HomeOf(c)' BY <1>1, <1>2, <1>3, <1>4, <1>5 DEF HomeOf, OneFile
<1> QED BY <1>1, <1>4, <1>6, EditOwned

LEMMA DeleteOwned ==
  ASSUME TypeOK, Owned, NEW c \in Client, NEW p \in Path, Delete(c, p)
  PROVE  Owned'
<1>1. /\ \E k \in {"rmdir", "delete"} : Edit(c, k, "delete", p)
      /\ lent' = [lent EXCEPT ![c][p] = None]
  BY DEF Delete
<1>2. HomeOf(c) BY DEF Owned, Holds
<1>3. lent[c] \in [Path -> Inode \cup {None}] BY DEF TypeOK, UserOK
<1>4. /\ lent'[c] = [lent[c] EXCEPT ![p] = None]
      /\ \A j \in Client : j # c => lent'[j] = lent[j]
  BY <1>1, HoldFunctions
<1>6. HomeOf(c)' BY <1>2, <1>3, <1>4 DEF HomeOf, OneFile
<1> QED BY <1>1, <1>4, <1>6, EditOwned

LEMMA LinkOwned ==
  ASSUME TypeOK, Owned, NEW c \in Client, NEW p \in Path, NEW q \in Path,
         Link(c, p, q)
  PROVE  Owned'
<1>1. /\ Edit(c, "link", "link", q) /\ q \in Own[c]
      /\ TypeOf(p) = "reg" /\ TypeOf(q) = "reg" /\ lent[c][p] # None
      /\ lent' = [lent EXCEPT ![c][q] = lent[c][p]]
  BY DEF Link, Edit
<1>2. HomeOf(c) BY DEF Owned, Holds
<1>3. lent[c] \in [Path -> Inode \cup {None}] BY DEF TypeOK, UserOK
<1>4. /\ lent'[c] = [lent[c] EXCEPT ![q] = lent[c][p]]
      /\ \A j \in Client : j # c => lent'[j] = lent[j]
  BY <1>1, HoldFunctions
<1>5. p \in Regular(c) /\ q \in Regular(c) BY <1>1, <1>2 DEF HomeOf, Regular
<1>6. HomeOf(c)' BY <1>1, <1>2, <1>3, <1>4, <1>5 DEF HomeOf, OneFile
<1> QED BY <1>1, <1>4, <1>6, EditOwned

LEMMA UserOwned ==
  ASSUME TypeOK, Owned, NEW c \in Client, User(c)
  PROVE  Owned'
<1>1. HomeOf(c) BY DEF Owned, Holds
<1>2. ASSUME NEW p \in Path, NEW v \in Version, Write(c, p, v) PROVE Owned'
  <2>1. Edit(c, "write", "write", p) /\ UNCHANGED lent BY <1>2 DEF Write
  <2>2. HomeOf(c)' BY <1>1, <2>1 DEF HomeOf
  <2> QED BY <2>1, <2>2, EditOwned
<1>3. ASSUME NEW p \in Path, Touch(c, p) PROVE Owned'
  <2>1. Edit(c, "touch", "touch", p) /\ UNCHANGED lent BY <1>3 DEF Touch
  <2>2. HomeOf(c)' BY <1>1, <2>1 DEF HomeOf
  <2> QED BY <2>1, <2>2, EditOwned
<1> QED BY <1>2, <1>3, CreateOwned, DeleteOwned, LinkOwned DEF User

-----------------------------------------------------------------------------
(* The server: the messages it reads and the files it makes.               *)

LEMMA HeadOf ==
  ASSUME TypeOK, Owned, NEW kind, Recv(conn, kind)
  PROVE  /\ Head(up[conn]) \in UpOf(conn) /\ Head(up[conn]).kind = kind
         /\ kind = "path" => Head(up[conn]).path \in Own[conn]
         /\ kind = "names" => /\ Head(up[conn]).src \in Regular(conn)
                              /\ Head(up[conn]).tgt \in Regular(conn)
         /\ kind = "data" => Head(up[conn]).piece.ver # Junk
<1>1. conn \in Client BY Connection
<1>2. up[conn] \in Seq(UpOf(conn)) BY <1>1 DEF Owned, Holds
<1>3. Head(up[conn]) \in UpOf(conn) BY <1>2, TailSeq DEF Recv
<1> QED BY <1>3 DEF UpOf, Recv

\* Names hold their inodes, and a new file has an inode of its own.
LEMMA Entries ==
  ASSUME TypeOK
  PROVE  /\ \A p \in Path : hent[p] # None => hent[p] \in Inode
         /\ \A p \in Path : hent[p] # None => Len(hdat[hent[p]]) \in Nat
         /\ hent = [p \in Path |-> hent[p]] /\ hdat = [i \in Inode |-> hdat[i]]
         /\ hdat \in [Inode -> Seq(Piece)]
BY DEF TypeOK, StoreOK

LEMMA EntryMade ==
  ASSUME TypeOK, NEW p \in Path, NEW data, NewEntry(p, data)
  PROVE  /\ hent'[p] \in Inode /\ hent'[p] # None /\ hdat'[hent'[p]] = data
         /\ \A q \in Path : q # p => /\ hent'[q] = hent[q] /\ hent[q] # hent'[p]
                                     /\ hent[q] # None => hdat'[hent[q]] = hdat[hent[q]]
<1>1. PICK i \in Inode : /\ i \notin Used(hent)
                         /\ hent' = [hent EXCEPT ![p] = i]
                         /\ hdat' = [hdat EXCEPT ![i] = data]
  BY DEF NewEntry, IsNext
<1>2. \A q \in Path : hent[q] # i BY <1>1, Entries DEF Used
<1>3. hent'[p] = i /\ \A q \in Path : q # p => hent'[q] = hent[q]
  BY <1>1, Entries
<1>4. hdat'[i] = data /\ \A j \in Inode : j # i => hdat'[j] = hdat[j]
  BY <1>1, Entries
<1>5. i # None BY <1>1, InodeAssumption
<1> QED BY <1>2, <1>3, <1>4, <1>5, Entries

LEMMA LinkMade ==
  ASSUME TypeOK, NEW x, MakeLink(x)
  PROVE  \A q \in Path : (q # path \/ hent[q] # None) =>
           /\ hent'[q] = hent[q]
           /\ hent[q] # None => hdat'[hent[q]] = hdat[hent[q]]
<1>1. path \in Path BY DEF TypeOK, ServerOK
<1>2. CASE UNCHANGED diskVars BY <1>2 DEF diskVars
<1>3. CASE hent[path] = None /\ \E data : NewEntry(path, data)
  BY <1>1, <1>3, EntryMade
<1> QED BY <1>2, <1>3 DEF MakeLink

LEMMA BlockWritten ==
  ASSUME TypeOK, NEW x, WriteFile(x)
  PROVE  /\ hent' = hent
         /\ \A i \in Inode : i # hent[path] => hdat'[i] = hdat[i]
         /\ hent[path] \in Inode => hdat'[hent[path]] = Append(hdat[hent[path]], x)
BY Entries DEF WriteFile

\* Apart looks at hent only.
LEMMA NewApart ==
  ASSUME TypeOK, Owned, NEW p \in Path, NEW data, NewEntry(p, data)
  PROVE  Apart'
<1>1. \A q \in Path : q # p => hent'[q] = hent[q] /\ hent[q] # hent'[p]
  BY EntryMade
<1>2. Apart BY DEF Owned
<1> QED BY <1>1, <1>2, NamesAssumption DEF Apart, OneFile

LEMMA SameApart ==
  ASSUME Owned, UNCHANGED hent
  PROVE  Apart'
BY DEF Owned, Apart

LEMMA LinkApart ==
  ASSUME TypeOK, Owned, NEW x, MakeLink(x)
  PROVE  Apart'
<1>1. path \in Path BY DEF TypeOK, ServerOK
<1> QED BY <1>1, SameApart, NewApart DEF MakeLink, diskVars

LEMMA ServerOwned ==
  ASSUME TypeOK, Owned, UNCHANGED <<clientVars, events, userVars>>,
         NEW c \in Client,
         \/ UNCHANGED up
         \/ up[c] # <<>> /\ up' = [up EXCEPT ![c] = Tail(@)],
         Receiving' => \/ path' \in Own[conn']
                       \/ Receiving /\ UNCHANGED <<path, conn>>,
         Apart'
  PROVE  Owned'
<1>1. ASSUME NEW k \in Client PROVE Holds(k)'
  <2>1. Holds(k) BY DEF Owned
  <2>2. up'[k] = up[k] \/ (up[k] # <<>> /\ up'[k] = Tail(up[k]))
    BY ClientFunctions
  <2>3. up'[k] \in Seq(UpOf(k))
    <3>1. up[k] \in Seq(UpOf(k)) BY <2>1 DEF Holds
    <3>2. up[k] # <<>> => Tail(up[k]) \in Seq(UpOf(k)) BY <3>1, TailSeq
    <3> QED BY <2>2, <3>1, <3>2
  <2> QED BY <2>1, <2>3
          DEF Holds, Lists, Current, HomeOf, clientVars, userVars
<1>2. Receiving' => path' \in Own[conn'] BY DEF Owned
<1> QED BY <1>1, <1>2 DEF Owned

LEMMA RequestOwned ==
  ASSUME TypeOK, Owned,
         \/ Select
         \/ \E c \in Client : \/ ServeMeta(c) \/ ServeLink(c) \/ ServeRm(c)
                              \/ Logout(c) \/ Garbage(c)
  PROVE  Owned'
<1>1. PICK c \in Client :
        /\ UNCHANGED <<clientVars, events, userVars, hent>> /\ ~Receiving'
        /\ \/ UNCHANGED up
           \/ up[c] # <<>> /\ up' = [up EXCEPT ![c] = Tail(@)]
  <2>1. CASE Select BY <2>1, NamesAssumption DEF Select, Receiving, diskVars
  <2>2. ASSUME NEW c \in Client,
               \/ ServeMeta(c) \/ ServeLink(c) \/ ServeRm(c)
        PROVE  /\ UNCHANGED <<clientVars, events, userVars, hent>> /\ ~Receiving'
               /\ up[c] # <<>> /\ up' = [up EXCEPT ![c] = Tail(@)]
    BY <2>2 DEF ServeMeta, ServeLink, ServeRm, Serve, Recv, Answer, Receiving,
                diskVars
  <2>3. ASSUME NEW c \in Client, Logout(c) \/ Garbage(c)
        PROVE  /\ UNCHANGED <<clientVars, events, userVars, hent>> /\ ~Receiving'
               /\ UNCHANGED up
    BY <2>3 DEF Logout, Garbage, Receiving, diskVars
  <2> QED BY <2>1, <2>2, <2>3
<1> QED BY <1>1, SameApart, ServerOwned

LEMMA RecvPathOwned ==
  ASSUME TypeOK, Owned, RecvPath
  PROVE  Owned'
<1> DEFINE p == Head(up[conn]).path
<1>1. /\ Recv(conn, "path") /\ path' = p /\ conn' = conn
      /\ UNCHANGED <<clientVars, events, userVars>>
      /\ NewEntry(p, <<>>) \/ UNCHANGED hent
  BY DEF RecvPath, OpenToWrite, diskVars
<1>2. p \in Own[conn] /\ conn \in Client BY <1>1, HeadOf, Connection
<1>3. p \in Path BY <1>2, NamesAssumption
<1> HIDE DEF p
<1>4. Apart' BY <1>1, <1>3, NewApart, SameApart
<1> QED BY <1>1, <1>2, <1>4, ServerOwned DEF Recv

LEMMA ReceiveOwned ==
  ASSUME TypeOK, Owned,
         \/ LockFile \/ LockHeld \/ RecvFileHeader \/ RecvData
         \/ EofPath \/ EofFileHeader \/ ShortData \/ EofNames
  PROVE  Owned'
<1>1. conn \in Client BY Connection
<1>2. CASE LockFile \/ LockHeld \/ EofPath \/ EofNames \/ RecvFileHeader
  <2>1. /\ UNCHANGED <<clientVars, events, userVars, path, conn, hent>>
        /\ \/ UNCHANGED up
           \/ up[conn] # <<>> /\ up' = [up EXCEPT ![conn] = Tail(@)]
        /\ Receiving' => Receiving
    BY <1>2 DEF LockFile, LockHeld, EofPath, EofNames, RecvFileHeader, Receiving,
                Answer, Recv, diskVars
  <2> QED BY <1>1, <2>1, SameApart, ServerOwned
<1>3. CASE RecvData \/ EofFileHeader \/ ShortData
  <2>1. /\ UNCHANGED <<clientVars, events, userVars, path, conn>>
        /\ \/ UNCHANGED up
           \/ up[conn] # <<>> /\ up' = [up EXCEPT ![conn] = Tail(@)]
        /\ Receiving
        /\ UNCHANGED hent \/ \E x : MakeLink(x)
    BY <1>3 DEF RecvData, EofFileHeader, ShortData, Receiving, Recv, diskVars,
                WriteFile
  <2> QED BY <1>1, <2>1, SameApart, LinkApart, ServerOwned
<1> QED BY <1>2, <1>3

LEMMA AccountOf ==
  ASSUME NEW c \in Client, NEW k \in Client, NEW p \in Own[c], p \in Own[k]
  PROVE  Own[c] = Own[k]
BY AccountAssumption

LEMMA RecvNamesOwned ==
  ASSUME TypeOK, Owned, RecvNames
  PROVE  Owned'
<1> DEFINE s == Head(up[conn]).src
           t == Head(up[conn]).tgt
<1>1. /\ Recv(conn, "names") /\ ~Receiving'
      /\ UNCHANGED <<clientVars, events, userVars>>
      /\ \/ UNCHANGED hent
         \/ hent[s] # None /\ hent' = [hent EXCEPT ![t] = hent[s]]
  BY DEF RecvNames, Receiving
<1>2. s \in Regular(conn) /\ t \in Regular(conn) /\ conn \in Client
  BY <1>1, HeadOf, Connection
<1> HIDE DEF s, t
<1>3. s \in Own[conn] /\ t \in Own[conn] /\ s \in Path /\ t \in Path
  BY <1>2, NamesAssumption DEF Regular
<1>4. CASE hent[s] # None /\ hent' = [hent EXCEPT ![t] = hent[s]]
  <2>1. hent'[t] = hent[s] /\ \A q \in Path : q # t => hent'[q] = hent[q]
    BY <1>3, <1>4, Entries
  <2>2. SUFFICES ASSUME NEW c \in Client, NEW p \in Own[c], NEW q \in Path,
                        hent'[p] # None, hent'[p] = hent'[q]
                 PROVE  OneFile(c, p, q)
    BY ServerOwned, <1>1, <1>2 DEF Apart, Recv
  <2>3. p \in Path BY NamesAssumption
  <2>4. Apart BY DEF Owned
  <2>5. ASSUME s \in Own[c] \/ t \in Own[c] PROVE s \in Regular(c) /\ t \in Regular(c)
    <3>1. Own[c] = Own[conn] BY <1>2, <1>3, <2>5, AccountOf
    <3> QED BY <3>1, <1>2 DEF Regular
  <2>6. CASE p = t
    <3>1. s \in Own[c] /\ t \in Own[c] BY <2>5, <2>6 DEF Regular
    <3>2. CASE q = t BY <2>6, <3>2 DEF OneFile
    <3>3. CASE q # t
      <4>1. OneFile(c, s, q) BY <1>4, <2>1, <2>2, <2>4, <2>6, <3>1, <3>3 DEF Apart
      <4> QED BY <2>5, <2>6, <3>1, <4>1 DEF OneFile
    <3> QED BY <3>2, <3>3
  <2>7. CASE p # t /\ q = t
    <3>1. OneFile(c, p, s) BY <1>3, <2>1, <2>2, <2>3, <2>4, <2>7 DEF Apart
    <3>2. s \in Own[c] BY <3>1 DEF OneFile, Regular
    <3> QED BY <2>5, <2>7, <3>1, <3>2 DEF OneFile
  <2>8. CASE p # t /\ q # t
    BY <2>1, <2>2, <2>3, <2>4, <2>8 DEF Apart
  <2> QED BY <2>6, <2>7, <2>8
<1>5. CASE UNCHANGED hent BY <1>1, <1>2, <1>5, SameApart, ServerOwned DEF Recv
<1> QED BY <1>1, <1>4, <1>5

LEMMA RecvRmPathOwned ==
  ASSUME TypeOK, Owned, RecvRmPath
  PROVE  Owned'
<1> DEFINE p == Head(up[conn]).path
<1>1. /\ Recv(conn, "path") /\ ~Receiving'
      /\ UNCHANGED <<clientVars, events, userVars>>
      /\ hent' = [hent EXCEPT ![p] = None]
  BY DEF RecvRmPath, Receiving
<1>2. conn \in Client BY Connection
<1> HIDE DEF p
<1>3. \A q \in Path : hent'[q] = hent[q] \/ hent'[q] = None BY <1>1, Entries
<1>4. Apart' BY <1>3, NamesAssumption DEF Owned, Apart
<1> QED BY <1>1, <1>2, <1>4, ServerOwned DEF Recv

LEMMA OwnedInit == OneNameLinks /\ Init => Owned
<1> SUFFICES ASSUME OneNameLinks, Init PROVE Owned
  OBVIOUS
<1>1. ASSUME NEW c \in Client PROVE Holds(c)
  <2>1. lent[c] \in Homes /\ \A p \in Path \ Own[c] : lent[c][p] = None
    BY DEF Init
  <2>2. /\ todo[c] = {p \in Path : lent[c][p] # None} /\ tab[c] = {} /\ links[c] = {}
        /\ events[c] = <<>> /\ cpc[c] = "idle" /\ up[c] = <<>>
    BY DEF Init
  <2>3. HomeOf(c)
    <3>1. \A p, q \in Path : lent[c][p] = lent[c][q] /\ lent[c][p] # None =>
            p = q \/ (TypeOf(p) = "reg" /\ TypeOf(q) = "reg")
      BY <2>1 DEF OneNameLinks
    <3> QED BY <2>1, <3>1 DEF HomeOf, OneFile, Regular
  <2>4. Lists(c) BY <2>1, <2>2 DEF Lists
  <2>5. Current(c) BY <2>2 DEF Current
  <2> QED BY <2>2, <2>3, <2>4, <2>5 DEF Holds
<1>2. Apart BY NamesAssumption DEF Init, Apart
<1>3. ~Receiving BY DEF Init, Receiving
<1> QED BY <1>1, <1>2, <1>3 DEF Owned

LEMMA OwnedStep == TypeOK /\ Owned /\ [Next]_vars => Owned'
<1> SUFFICES ASSUME TypeOK, Owned, [Next]_vars PROVE Owned'
  OBVIOUS
<1>1. ASSUME NEW c \in Client, ClientStep(c) PROVE Owned'
  BY <1>1, VisitOwned, StartWatchOwned, SendLinkOwned, RecvLinkEchoOwned,
     SendMetaOwned, RecvMetaEchoOwned, RecvMetaResOwned, SendFileHeaderOwned,
     SendFileDataOwned, SyncEventOwned, DeleteEventOwned, RecvRmEchoOwned
  DEF ClientStep
<1>2. ASSUME NEW c \in Client, User(c) \/ Crash(c) PROVE Owned'
  BY <1>2, UserOwned, CrashOwned
<1>3. CASE ServerStep
  BY <1>3, RequestOwned, RecvPathOwned, ReceiveOwned, RecvNamesOwned,
     RecvRmPathOwned
  DEF ServerStep
<1>4. CASE UNCHANGED vars
  <2>1. UNCHANGED <<todo, tab, links, cur, cpc, buf, events, lent, up>>
    BY <1>4 DEF vars, clientVars, userVars
  <2>2. UNCHANGED <<serverVars, diskVars>> BY <1>4 DEF vars
  <2>3. \A k \in Client : Same(k) BY <2>1 DEF Same
  <2>4. PICK c \in Client : TRUE BY NamesAssumption
  <2>5. Holds(c)' BY <2>3, SameHolds DEF Owned
  <2> QED BY <2>2, <2>3, <2>5, ClientOwned
<1> QED BY <1>1, <1>2, <1>3, <1>4 DEF Next

-----------------------------------------------------------------------------
(* Blocks and their numbers.                                               *)

LEMMA NumberSent ==
  ASSUME NEW g \in Nat, NEW w \in Seq(Up), NEW m \in Up, Numbered(g, w),
         m.kind = "data" => 2 * m.piece.idx = g + Len(w) + 1
  PROVE  Numbered(g, Append(w, m)) /\ Len(Append(w, m)) = Len(w) + 1
<1> DEFINE v == Append(w, m)
<1>1. /\ Len(v) = Len(w) + 1 /\ v[Len(w) + 1] = m /\ Len(w) \in Nat
      /\ \A i \in 1 .. Len(w) : v[i] = w[i]
  BY AppendProperties, LenProperties
<1> HIDE DEF v
<1>2. SUFFICES ASSUME NEW i \in 1 .. Len(v), v[i].kind = "data"
               PROVE  2 * v[i].piece.idx = g + i
  BY <1>1 DEF Numbered, v
<1>3. CASE i = Len(w) + 1 BY <1>1, <1>2, <1>3
<1>4. CASE i # Len(w) + 1
  <2>1. i \in 1 .. Len(w) BY <1>1, <1>4
  <2> QED BY <1>1, <1>2, <2>1 DEF Numbered
<1> QED BY <1>3, <1>4

LEMMA NumberRead ==
  ASSUME NEW g \in Nat, NEW w \in Seq(Up), w # <<>>, Numbered(g, w)
  PROVE  /\ Numbered(g + 1, Tail(w)) /\ Len(Tail(w)) = Len(w) - 1
         /\ Head(w).kind = "data" => 2 * Head(w).piece.idx = g + 1
<1> DEFINE v == Tail(w)
<1>1. /\ v \in Seq(Up) /\ Len(v) = Len(w) - 1 /\ Len(w) \in Nat \ {0}
      /\ Head(w) = w[1] /\ \A i \in 1 .. Len(v) : v[i] = w[i + 1]
  BY HeadTailProperties, LenProperties, EmptySeq
<1> HIDE DEF v
<1>2. ASSUME NEW i \in 1 .. Len(v), v[i].kind = "data"
      PROVE  2 * v[i].piece.idx = (g + 1) + i
  <2>1. i + 1 \in 1 .. Len(w) /\ v[i] = w[i + 1] BY <1>1
  <2>2. 2 * w[i + 1].piece.idx = g + (i + 1) BY <1>2, <2>1 DEF Numbered
  <2> QED BY <2>1, <2>2
<1>3. Numbered(g + 1, v) BY <1>2 DEF Numbered
<1>4. 1 \in 1 .. Len(w) BY <1>1
<1>5. Head(w).kind = "data" => 2 * Head(w).piece.idx = g + 1
  BY <1>1, <1>4 DEF Numbered
<1> QED BY <1>1, <1>3, <1>5 DEF v

LEMMA BlockAdded ==
  ASSUME NEW s \in Seq(Piece), NEW x \in Piece, FullBlocks(s),
         x.idx = Len(s) + 1, x.ver # Junk
  PROVE  /\ Whole(s) /\ Whole(Append(s, x))
         /\ x.size = "full" => FullBlocks(Append(s, x))
         /\ Append(s, x) \in Seq(Piece) /\ Len(Append(s, x)) = Len(s) + 1
<1> DEFINE v == Append(s, x)
<1>1. /\ v \in Seq(Piece) /\ Len(v) = Len(s) + 1 /\ v[Len(s) + 1] = x
      /\ Len(s) \in Nat /\ \A i \in 1 .. Len(s) : v[i] = s[i]
  BY AppendProperties, LenProperties
<1> HIDE DEF v
<1>2. ASSUME NEW k \in 1 .. Len(v)
      PROVE  /\ v[k].idx = k /\ v[k].ver # Junk
             /\ (k < Len(v) \/ x.size = "full") => v[k].size = "full"
  <2>1. CASE k = Len(s) + 1 BY <1>1, <2>1
  <2>2. CASE k # Len(s) + 1
    <3>1. k \in 1 .. Len(s) BY <1>1, <2>2
    <3> QED BY <1>1, <3>1 DEF FullBlocks
  <2> QED BY <2>1, <2>2
<1>3. Whole(v) BY <1>2 DEF Whole
<1>4. x.size = "full" => FullBlocks(v) BY <1>2 DEF FullBlocks
<1>5. Whole(s) BY DEF FullBlocks, Whole
<1> QED BY <1>1, <1>3, <1>4, <1>5 DEF v

LEMMA GotNat ==
  ASSUME TypeOK, path \in Path, hent[path] # None
  PROVE  Target \in Seq(Piece) /\ Len(Target) \in Nat /\ Got \in Nat
<1>1. hent[path] \in Inode BY Entries
<1>2. Target \in Seq(Piece) BY <1>1, Entries DEF Target
<1>3. Len(Target) \in Nat BY <1>2, LenProperties
<1> HIDE DEF Target
<1> QED BY <1>2, <1>3 DEF Got

-----------------------------------------------------------------------------
(* A client moves: the files of the server are as they were.               *)

LEMMA ClientFiles ==
  ASSUME Files, NEW c \in Client, UNCHANGED <<serverVars, diskVars>>,
         hurt \subseteq hurt',
         \A k \in Client : k # c => /\ up'[k] = up[k] /\ cpc'[k] = cpc[k]
                                    /\ cur'[k] = cur[k] /\ buf'[k] = buf[k],
         c \notin hurt' /\ cpc'[c] = "metaRes" /\ up'[c] # <<>> =>
           LastOf(up'[c]).path = cur'[c].path,
         c \notin hurt' /\ c = conn /\ Receiving /\ req.type = "reg" =>
           Carries(Got, Target, up'[c], cpc'[c], cur'[c].type, buf'[c].idx),
         conn \in Client
  PROVE  Files'
<1>1. PathSent' BY DEF Files, PathSent
<1>2. UNCHANGED <<spc, conn, req, path, hent, hdat>> BY DEF serverVars, diskVars
<1>3. WholeFiles' BY <1>2 DEF Files, WholeFiles, Sound
<1>4. Transfer'
  <2>1. SUFFICES ASSUME Receiving, conn \notin hurt'
        PROVE  /\ TypeOf(path) = req.type
               /\ req.type = "reg" =>
                    /\ hent[path] # None /\ FullBlocks(Target)
                    /\ Carries(Got, Target, up'[conn], cpc'[conn],
                               cur'[conn].type, buf'[conn].idx)
    BY <1>2 DEF Transfer, Receiving, Got, Target
  <2>2. Transfer /\ conn \notin hurt BY <2>1 DEF Files
  <2> QED BY <2>1, <2>2 DEF Transfer
<1> QED BY <1>1, <1>3, <1>4 DEF Files

\* The user and the faults of a client change nothing of it that counts here.
LEMMA OutsideFiles ==
  ASSUME TypeOK, Files, NEW c \in Client, User(c) \/ Crash(c) \/ StartWatch(c)
  PROVE  Files'
<1>1. conn \in Client BY Connection
<1>2. CASE User(c) \/ StartWatch(c)
  <2>1. UNCHANGED <<up, cpc, cur, buf, hurt, serverVars, diskVars>>
    BY <1>2 DEF User, Create, Write, Touch, Delete, Link, Edit, StartWatch
  <2>2. c \notin hurt => (cpc[c] = "metaRes" /\ up[c] # <<>> =>
                            LastOf(up[c]).path = cur[c].path)
    BY DEF Files, PathSent
  <2>3. c \notin hurt /\ c = conn /\ Receiving /\ req.type = "reg" =>
          Carries(Got, Target, up[c], cpc[c], cur[c].type, buf[c].idx)
    BY DEF Files, Transfer
  <2> QED BY <1>1, <2>1, <2>2, <2>3, ClientFiles
<1>3. CASE Crash(c)
  <2>1. /\ UNCHANGED <<up, cur, buf, serverVars, diskVars>>
        /\ hurt' = hurt \cup {c} /\ Goto(c, "down")
    BY <1>3 DEF Crash, Fault
  <2>2. \A k \in Client : k # c => cpc'[k] = cpc[k] BY <2>1, GotoOf
  <2> QED BY <1>1, <2>1, <2>2, ClientFiles
<1> QED BY <1>2, <1>3

\* A request, or nothing, is sent by a client that is not in a transfer.
LEMMA RequestFiles ==
  ASSUME TypeOK, Files, NEW c \in Client, UNCHANGED <<serverVars, diskVars>>,
         hurt \subseteq hurt',
         \A k \in Client : k # c => /\ up'[k] = up[k] /\ cpc'[k] = cpc[k]
                                    /\ cur'[k] = cur[k] /\ buf'[k] = buf[k],
         c \in hurt' \/ cpc'[c] \notin {"file", "data", "metaRes"},
         c \in hurt' \/ up'[c] = up[c]
           \/ \E m \in Up : m.kind # "data" /\ up'[c] = Append(up[c], m)
  PROVE  Files'
<1>1. conn \in Client BY Connection
<1>2. ASSUME c \notin hurt', c = conn, Receiving, req.type = "reg"
      PROVE  Carries(Got, Target, up'[c], cpc'[c], cur'[c].type, buf'[c].idx)
  <2>1. /\ hent[path] # None
        /\ Carries(Got, Target, up[c], cpc[c], cur[c].type, buf[c].idx)
    BY <1>2 DEF Files, Transfer
  <2>2. path \in Path BY DEF TypeOK, ServerOK
  <2>3. Got \in Nat BY <2>1, <2>2, GotNat
  <2>4. Numbered(Got, up'[c])
    <3>1. Numbered(Got, up[c]) /\ up[c] \in Seq(Up) BY <2>1, WireType DEF Carries
    <3> QED BY <1>2, <2>3, <3>1, NumberSent
  <2> QED BY <1>2, <2>4 DEF Carries
<1> QED BY <1>1, <1>2, ClientFiles

LEMMA NamesFiles ==
  ASSUME TypeOK, Files, NEW c \in Client,
         \/ Visit(c) \/ SendLink(c) \/ RecvLinkEcho(c) \/ SendMeta(c)
         \/ SyncEvent(c) \/ DeleteEvent(c) \/ RecvRmEcho(c)
  PROVE  Files'
<1>1. CASE Visit(c)
  <2>1. /\ cpc[c] = "idle" /\ UNCHANGED <<buf, up, serverVars, diskVars, hurt>>
        /\ \/ UNCHANGED <<cur, cpc>>
           \/ /\ \E x : cur' = [cur EXCEPT ![c] = x]
              /\ Goto(c, "visit")
    BY <1>1 DEF Visit
  <2>2. /\ cpc'[c] \in {"idle", "visit"}
        /\ \A k \in Client : k # c => cpc'[k] = cpc[k] /\ cur'[k] = cur[k]
    BY <2>1, GotoOf, ClientFunctions
  <2> QED BY <2>1, <2>2, RequestFiles
<1>2. CASE SendLink(c)
  <2>1. /\ UNCHANGED <<cur, buf, serverVars, diskVars, hurt>>
        /\ SendUp(c, HlMsg) /\ Goto(c, "hlEcho")
    BY <1>2 DEF SendLink
  <2>2. HlMsg \in Up /\ HlMsg.kind # "data" BY UpMessages DEF HlMsg
  <2> QED BY <2>1, <2>2, SendUpOf, GotoOf, RequestFiles
<1>3. CASE RecvLinkEcho(c)
  <2>1. /\ UNCHANGED <<cur, buf, serverVars, diskVars, hurt>>
        /\ \E q \in links[c] : SendUp(c, NamesMsg(q, cur[c].path))
        /\ Goto(c, "visit")
    BY <1>3 DEF RecvLinkEcho
  <2>2. PICK q \in links[c] : SendUp(c, NamesMsg(q, cur[c].path)) BY <2>1
  <2>3. q \in Path /\ cur[c].path \in Path BY WireType DEF TypeOK, ClientOK
  <2>4. NamesMsg(q, cur[c].path) \in Up /\ NamesMsg(q, cur[c].path).kind # "data"
    BY <2>3, UpMessages DEF NamesMsg
  <2> QED BY <2>1, <2>2, <2>4, SendUpOf, GotoOf, RequestFiles
<1>4. CASE SendMeta(c)
  <2>1. UNCHANGED <<cur, buf, serverVars, diskVars>> BY <1>4 DEF SendMeta
  <2>2. CASE Close(c) /\ UNCHANGED up
    <3>1. Goto(c, "down") /\ hurt' = hurt \cup {c} BY <2>2 DEF Close
    <3> QED BY <2>1, <2>2, <3>1, GotoOf, RequestFiles
  <2>3. CASE /\ UNCHANGED hurt /\ Goto(c, "metaEcho")
             /\ \E v \in Version \cup {None} : SendUp(c, MetaMsg(cur[c].type, v))
    <3>1. PICK v \in Version \cup {None} : SendUp(c, MetaMsg(cur[c].type, v))
      BY <2>3
    <3>2. MetaMsg(cur[c].type, v) \in Up /\ MetaMsg(cur[c].type, v).kind # "data"
      BY WireType, UpMessages DEF MetaMsg
    <3> QED BY <2>1, <2>3, <3>1, <3>2, SendUpOf, GotoOf, RequestFiles
  <2> DEFINE i == lent[c][cur[c].path]
  <2>4. i \in Inode \cup {None}
    <3>1. cur[c].path \in Path BY WireType
    <3> QED BY <3>1 DEF TypeOK, UserOK
  <2>5. i # None => ldat[c][i] \in Version BY <2>4 DEF TypeOK, UserOK
  <2> QED BY <1>4, <2>2, <2>3, <2>5 DEF SendMeta
<1>5. CASE SyncEvent(c)
  <2>1. /\ UNCHANGED <<buf, up, serverVars, diskVars, hurt>> /\ Goto(c, "visit")
        /\ \E x : cur' = [cur EXCEPT ![c] = x]
    BY <1>5 DEF SyncEvent
  <2>2. \A k \in Client : k # c => cur'[k] = cur[k] BY <2>1, ClientFunctions
  <2> QED BY <2>1, <2>2, GotoOf, RequestFiles
<1>6. CASE DeleteEvent(c)
  <2>1. /\ UNCHANGED <<buf, serverVars, diskVars, hurt>> /\ Goto(c, "rmEcho")
        /\ SendUp(c, RmMsg) /\ \E x : cur' = [cur EXCEPT ![c] = x]
    BY <1>6 DEF DeleteEvent
  <2>2. \A k \in Client : k # c => cur'[k] = cur[k] BY <2>1, ClientFunctions
  <2>3. RmMsg \in Up /\ RmMsg.kind # "data" BY UpMessages DEF RmMsg
  <2> QED BY <2>1, <2>2, <2>3, SendUpOf, GotoOf, RequestFiles
<1>7. CASE RecvRmEcho(c)
  <2>1. /\ UNCHANGED <<cur, buf, serverVars, diskVars, hurt>>
        /\ SendUp(c, PathMsg(cur[c].path)) /\ Goto(c, "idle")
    BY <1>7 DEF RecvRmEcho
  <2>2. PathMsg(cur[c].path) \in Up /\ PathMsg(cur[c].path).kind # "data"
    BY WireType, UpMessages DEF PathMsg
  <2> QED BY <2>1, <2>2, SendUpOf, GotoOf, RequestFiles
<1> QED BY <1>1, <1>2, <1>3, <1>4, <1>5, <1>6, <1>7

LEMMA LastAppended ==
  ASSUME NEW T, NEW w \in Seq(T), NEW m \in T
  PROVE  LastOf(Append(w, m)) = m
<1>1. /\ Append(w, m) \in Seq(T) /\ Len(Append(w, m)) = Len(w) + 1
      /\ Append(w, m)[Len(w) + 1] = m
  BY AppendProperties
<1> QED BY <1>1 DEF LastOf

\* What InStep says of the connection that is served.
LEMMA Serving ==
  ASSUME TypeOK, InStep, conn \notin hurt
  PROVE  /\ conn \in Client /\ open[conn]
         /\ Stepping(spc, req.type, size, up[conn], down[conn], cpc[conn],
                     cur[conn].type, buf[conn].size)
<1>1. conn \in Client BY Connection
<1> QED BY <1>1, InStepNow DEF Now, ServerAt

LEMMA RecvMetaEchoFiles ==
  ASSUME TypeOK, InStep, Files, NEW c \in Client, RecvMetaEcho(c)
  PROVE  Files'
<1> DEFINE m == PathMsg(cur[c].path)
<1>1. /\ UNCHANGED <<cur, buf, serverVars, diskVars, hurt>> /\ cpc[c] = "metaEcho"
      /\ SendUp(c, m) /\ Goto(c, "metaRes") /\ down[c] # <<>>
  BY DEF RecvMetaEcho, RecvDown
<1>2. m \in Up /\ m.path = cur[c].path BY WireType, UpMessages DEF PathMsg
<1> HIDE DEF m
<1>3. up'[c] = Append(up[c], m) /\ \A k \in Client : k # c => up'[k] = up[k]
  BY <1>1, SendUpOf
<1>4. cpc'[c] = "metaRes" /\ \A k \in Client : k # c => cpc'[k] = cpc[k]
  BY <1>1, GotoOf
<1>5. LastOf(up'[c]).path = cur[c].path
  BY <1>2, <1>3, WireType, LastAppended
<1>6. ASSUME c \notin hurt, c = conn, Receiving PROVE FALSE
  <2>1. Stepping(spc, req.type, size, up[c], down[c], "metaEcho",
                 cur[c].type, buf[c].size)
    BY <1>1, <1>6, Serving
  <2>2. spc = "path" BY <1>1, <2>1 DEF Stepping, Sent
  <2> QED BY <1>6, <2>2 DEF Receiving
<1> QED BY <1>1, <1>3, <1>4, <1>5, <1>6, Connection, ClientFiles

LEMMA RecvMetaResFiles ==
  ASSUME TypeOK, InStep, Files, NEW c \in Client, RecvMetaRes(c)
  PROVE  Files'
<1>1. /\ UNCHANGED <<cur, serverVars, diskVars>> /\ cpc[c] = "metaRes"
      /\ down[c] # <<>>
  BY DEF RecvMetaRes, RecvDown
<1>2. CASE Goto(c, "idle") /\ UNCHANGED <<up, buf, hurt>>
  BY <1>1, <1>2, GotoOf, RequestFiles
<1>3. CASE /\ Goto(c, "down") /\ UNCHANGED <<up, buf>> /\ hurt' = hurt \cup {c}
  BY <1>1, <1>3, GotoOf, RequestFiles
<1>4. CASE /\ Goto(c, "idle") /\ UNCHANGED buf /\ hurt' = hurt \cup {c}
           /\ SendUp(c, FileMsg("wild"))
  BY <1>1, <1>4, GotoOf, SendUpOf, RequestFiles
<1>5. CASE /\ Goto(c, "file") /\ UNCHANGED <<up, hurt>>
           /\ buf' = [buf EXCEPT ![c] = NoPiece]
           /\ Head(down[c]).status = "MORE"
  <2>1. cpc'[c] = "file" /\ \A k \in Client : k # c => cpc'[k] = cpc[k]
    BY <1>5, GotoOf
  <2>2. buf'[c].idx = 0 /\ \A k \in Client : k # c => buf'[k] = buf[k]
    BY <1>5, ClientFunctions DEF NoPiece, JunkPiece
  <2>3. ASSUME c \notin hurt, c = conn, Receiving, req.type = "reg"
        PROVE  Carries(Got, Target, up[c], "file", cur[c].type, 0)
    <3>1. Stepping(spc, req.type, size, up[c], down[c], "metaRes",
                   cur[c].type, buf[c].size)
      BY <1>1, <2>3, Serving
    <3>2. up[c] = <<>> /\ spc = "file" /\ cur[c].type = "reg"
      BY <1>1, <1>5, <2>3, <3>1 DEF Stepping, Sent, Single
    <3>3. Carries(Got, Target, up[c], "metaRes", cur[c].type, buf[c].idx)
      BY <1>1, <2>3 DEF Files, Transfer
    <3>4. Target = <<>> /\ Numbered(Got, up[c]) BY <3>3 DEF Carries
    <3>5. Len(Target) = 0 /\ Len(up[c]) = 0 BY <3>2, <3>4
    <3>6. Got = 0 BY <3>2, <3>5 DEF Got
    <3> QED BY <3>2, <3>4, <3>5, <3>6 DEF Carries
  <2> QED BY <1>1, <1>5, <2>1, <2>2, <2>3, Connection, ClientFiles
<1> QED BY <1>2, <1>3, <1>4, <1>5 DEF RecvMetaRes, OpenAgain, Close

LEMMA SendFileHeaderFiles ==
  ASSUME TypeOK, InStep, Files, NEW c \in Client, SendFileHeader(c)
  PROVE  Files'
<1> DEFINE x == ReadBlock(c)
           m == FileMsg(x.size)
<1>1. /\ UNCHANGED <<cur, serverVars, diskVars, hurt>> /\ cpc[c] = "file"
      /\ SendUp(c, m) /\ buf' = [buf EXCEPT ![c] = x]
      /\ Goto(c, "idle") \/ Goto(c, "data")
  BY DEF SendFileHeader
<1>2. x.size \in Size /\ (cur[c].type # "lnk" => x.idx = buf[c].idx + 1)
  BY <1>1, BlockOf
<1>3. m \in Up /\ m.kind # "data" BY <1>2, UpMessages DEF FileMsg
<1> HIDE DEF x, m
<1>4. up'[c] = Append(up[c], m) /\ \A k \in Client : k # c => up'[k] = up[k]
  BY <1>1, SendUpOf
<1>5. /\ cpc'[c] \in {"idle", "data"}
      /\ \A k \in Client : k # c => cpc'[k] = cpc[k]
  BY <1>1, GotoOf
<1>6. buf'[c] = x /\ \A k \in Client : k # c => buf'[k] = buf[k]
  BY <1>1, ClientFunctions
<1>7. ASSUME c \notin hurt, c = conn, Receiving, req.type = "reg"
      PROVE  Carries(Got, Target, up'[c], cpc'[c], cur[c].type, x.idx)
  <2>1. /\ hent[path] # None
        /\ Carries(Got, Target, up[c], "file", cur[c].type, buf[c].idx)
    BY <1>1, <1>7 DEF Files, Transfer
  <2>2. path \in Path BY DEF TypeOK, ServerOK
  <2>3. Got \in Nat BY <2>1, <2>2, GotNat
  <2>4. /\ Numbered(Got, up[c]) /\ cur[c].type = "reg"
        /\ 2 * buf[c].idx = Got + Len(up[c]) + 0
    BY <2>1 DEF Carries
  <2>5. Numbered(Got, up'[c]) /\ Len(up'[c]) = Len(up[c]) + 1
    BY <1>3, <1>4, <2>3, <2>4, WireType, NumberSent
  <2>6. buf[c].idx \in Nat /\ Len(up[c]) \in Nat
    BY WireType, LenProperties DEF TypeOK, ClientOK, Piece
  <2>8. x.idx = buf[c].idx + 1 BY <1>2, <2>4
  <2>7. 2 * x.idx = Got + Len(up'[c]) + 1
    <3>1. \A g, l, b \in Nat : 2 * b = g + l + 0 => 2 * (b + 1) = g + (l + 1) + 1
      OBVIOUS
    <3>2. 2 * (buf[c].idx + 1) = Got + (Len(up[c]) + 1) + 1
      BY <2>3, <2>4, <2>6, <3>1
    <3> QED BY <2>5, <2>8, <3>2
  <2> QED BY <1>5, <2>4, <2>5, <2>7 DEF Carries
<1> QED BY <1>1, <1>4, <1>5, <1>6, <1>7, Connection, ClientFiles

LEMMA SendFileDataFiles ==
  ASSUME TypeOK, InStep, Files, NEW c \in Client, SendFileData(c)
  PROVE  Files'
<1> DEFINE m == DataMsg(buf[c])
<1>1. /\ UNCHANGED <<cur, buf, serverVars, diskVars, hurt>> /\ cpc[c] = "data"
      /\ SendUp(c, m)
      /\ Goto(c, "idle") \/ Goto(c, "file")
  BY DEF SendFileData
<1>2. buf[c] \in Piece BY DEF TypeOK, ClientOK
<1>3. m \in Up /\ m.piece = buf[c] BY <1>2, UpMessages DEF DataMsg
<1> HIDE DEF m
<1>4. up'[c] = Append(up[c], m) /\ \A k \in Client : k # c => up'[k] = up[k]
  BY <1>1, SendUpOf
<1>5. /\ cpc'[c] \in {"idle", "file"}
      /\ \A k \in Client : k # c => cpc'[k] = cpc[k]
  BY <1>1, GotoOf
<1>7. ASSUME c \notin hurt, c = conn, Receiving, req.type = "reg"
      PROVE  Carries(Got, Target, up'[c], cpc'[c], cur[c].type, buf[c].idx)
  <2>1. /\ hent[path] # None
        /\ Carries(Got, Target, up[c], "data", cur[c].type, buf[c].idx)
    BY <1>1, <1>7 DEF Files, Transfer
  <2>2. path \in Path BY DEF TypeOK, ServerOK
  <2>3. Got \in Nat BY <2>1, <2>2, GotNat
  <2>4. /\ Numbered(Got, up[c]) /\ cur[c].type = "reg"
        /\ 2 * buf[c].idx = Got + Len(up[c]) + 1
    BY <2>1 DEF Carries
  <2>5. Numbered(Got, up'[c]) /\ Len(up'[c]) = Len(up[c]) + 1
    BY <1>3, <1>4, <2>3, <2>4, WireType, NumberSent
  <2>6. Len(up[c]) \in Nat BY WireType, LenProperties
  <2>7. 2 * buf[c].idx = Got + Len(up'[c]) + 0 BY <2>3, <2>4, <2>5, <2>6
  <2> QED BY <1>5, <2>4, <2>5, <2>7 DEF Carries
<1> QED BY <1>1, <1>4, <1>5, <1>7, Connection, ClientFiles

-----------------------------------------------------------------------------
(* The server moves.                                                       *)

\* What it reads of a waiting client leaves nothing behind.
LEMMA ServerPathSent ==
  ASSUME TypeOK, InStep, PathSent, UNCHANGED clientVars, hurt \subseteq hurt',
         NEW c \in Client,
         UNCHANGED up \/ (up[c] # <<>> /\ up' = [up EXCEPT ![c] = Tail(@)])
  PROVE  PathSent'
<1> SUFFICES ASSUME NEW k \in Client, k \notin hurt', cpc[k] = "metaRes",
                    up'[k] # <<>>
             PROVE  LastOf(up'[k]).path = cur[k].path
  BY DEF PathSent, clientVars
<1>1. Now(k) BY InStepNow
<1>2. up[k] # <<>> => Tail(up[k]) = <<>> BY <1>1 DEF Now, Stepping, Sent
<1>3. up'[k] = up[k] \/ (up[k] # <<>> /\ up'[k] = Tail(up[k]))
  BY ClientFunctions
<1>4. up'[k] = up[k] BY <1>2, <1>3
<1> QED BY <1>4 DEF PathSent

\* No file of an account that is sound is the one being received, when that one
\* is of another account, or is not a regular file.
LEMMA Outside ==
  ASSUME TypeOK, Owned, Receiving, NEW k \in Client, NEW q \in Own[k],
         TypeOf(q) = "reg", Own[k] # Own[conn] \/ TypeOf(path) # "reg"
  PROVE  q # path /\ (hent[q] # None => hent[q] # hent[path])
<1>1. path \in Own[conn] /\ conn \in Client BY Connection DEF Owned
<1>2. path \notin Own[k] \/ TypeOf(path) # "reg" BY <1>1, AccountOf
<1>3. path \in Path BY <1>1, NamesAssumption
<1>4. hent[q] # None /\ hent[q] = hent[path] => OneFile(k, q, path)
  BY <1>3 DEF Owned, Apart
<1> QED BY <1>2, <1>4 DEF OneFile, Regular

LEMMA ElsewhereFiles ==
  ASSUME TypeOK, Owned, WholeFiles, hurt \subseteq hurt', Receiving,
         conn \in hurt' \/ TypeOf(path) # "reg",
         \A q \in Path : q # path /\ (hent[q] # None => hent[q] # hent[path]) =>
           /\ hent'[q] = hent[q]
           /\ hent[q] # None => hdat'[hent[q]] = hdat[hent[q]]
  PROVE  WholeFiles'
<1> SUFFICES ASSUME NEW k \in Client, Sound(k)', NEW q \in Own[k],
                    TypeOf(q) = "reg", hent'[q] # None
             PROVE  Whole(hdat'[hent'[q]])
  BY DEF WholeFiles
<1>1. Own[k] # Own[conn] \/ TypeOf(path) # "reg" BY Connection DEF Sound
<1>2. q # path /\ (hent[q] # None => hent[q] # hent[path]) BY <1>1, Outside
<1>3. q \in Path BY NamesAssumption
<1>4. /\ hent'[q] = hent[q] /\ hent[q] # None
      /\ hdat'[hent[q]] = hdat[hent[q]]
  BY <1>2, <1>3
<1>5. Sound(k) BY DEF Sound
<1>6. Whole(hdat[hent[q]]) BY <1>2, <1>4, <1>5 DEF WholeFiles
<1> QED BY <1>4, <1>6

\* The disk is as it was and nothing is being received.
LEMMA IdleFiles ==
  ASSUME TypeOK, Owned, Files, hurt \subseteq hurt', UNCHANGED diskVars,
         ~Receiving', ~Receiving \/ conn \in hurt'
  PROVE  Transfer' /\ WholeFiles'
<1>1. UNCHANGED <<hent, hdat>> BY DEF diskVars
<1>2. CASE ~Receiving BY <1>1, <1>2 DEF Files, WholeFiles, Sound, Receiving, Transfer
<1>3. CASE Receiving /\ conn \in hurt'
  <2>1. WholeFiles BY DEF Files
  <2>2. WholeFiles' BY <1>1, <1>3, <2>1, ElsewhereFiles
  <2> QED BY <2>2 DEF Transfer
<1> QED BY <1>2, <1>3

LEMMA RequestServedFiles ==
  ASSUME TypeOK, InStep, Owned, Files,
         \/ Select
         \/ \E c \in Client : ServeMeta(c) \/ ServeLink(c) \/ ServeRm(c) \/ Logout(c)
  PROVE  Files'
<1>1. /\ UNCHANGED <<clientVars, diskVars, hurt>> /\ ~Receiving /\ ~Receiving'
      /\ \E c \in Client : \/ UNCHANGED up
                           \/ up[c] # <<>> /\ up' = [up EXCEPT ![c] = Tail(@)]
  <2>1. CASE Select BY <2>1, NamesAssumption DEF Select, Receiving
  <2>2. ASSUME NEW c \in Client, ServeMeta(c) \/ ServeLink(c) \/ ServeRm(c)
        PROVE  /\ UNCHANGED <<clientVars, diskVars, hurt>>
               /\ ~Receiving /\ ~Receiving'
               /\ up[c] # <<>> /\ up' = [up EXCEPT ![c] = Tail(@)]
    BY <2>2 DEF ServeMeta, ServeLink, ServeRm, Serve, Recv, Answer, Receiving
  <2>3. ASSUME NEW c \in Client, Logout(c)
        PROVE  /\ UNCHANGED <<clientVars, diskVars, hurt, up>>
               /\ ~Receiving /\ ~Receiving'
    BY <2>3 DEF Logout, Receiving
  <2> QED BY <2>1, <2>2, <2>3
<1> QED BY <1>1, ServerPathSent, IdleFiles DEF Files

LEMMA GarbageFiles ==
  ASSUME TypeOK, InStep, Owned, Files, NEW c \in Client, Garbage(c)
  PROVE  Files'
<1>1. /\ UNCHANGED <<clientVars, diskVars, hurt, up>> /\ ~Receiving'
      /\ up[c] # <<>> /\ Head(up[c]).kind \notin ServerWants(c)
      /\ Receiving => c = conn
  BY DEF Garbage, Receiving
<1>2. c \in hurt
  <2> SUFFICES ASSUME c \notin hurt PROVE FALSE
    OBVIOUS
  <2>1. Now(c) BY InStepNow
  <2>2. Reads(ServerAt(c), req.type, size, cpc[c], Head(up[c]))
    BY <1>1, <2>1 DEF Now, Stepping
  <2>3. Head(up[c]).kind \in ServerWants(c)
    BY <2>2 DEF Reads, Request, ServerAt, ServerWants
  <2> QED BY <1>1, <2>3
<1> QED BY <1>1, <1>2, ServerPathSent, IdleFiles DEF Files

LEMMA RecvPathFiles ==
  ASSUME TypeOK, InStep, Owned, Files, RecvPath
  PROVE  Files'
<1> DEFINE p == Head(up[conn]).path
<1>0. conn \in Client BY Connection
<1>1. /\ spc = "path" /\ Recv(conn, "path") /\ path' = p
      /\ UNCHANGED <<clientVars, conn, open, req, hurt>>
      /\ up[conn] # <<>> /\ up' = [up EXCEPT ![conn] = Tail(@)]
  BY DEF RecvPath, Recv
<1>2. \/ /\ NewEntry(p, <<>>)
         /\ req.type = "dir" /\ Answer(conn, Res("OK"), "select")
      \/ /\ NewEntry(p, <<>>)
         /\ req.type = "reg" /\ spc' = "lock"
      \/ /\ UNCHANGED diskVars /\ Answer(conn, Res("OK"), "select")
      \/ /\ UNCHANGED diskVars
         /\ req.type = "lnk" /\ Answer(conn, Res("MORE"), "file")
      \/ /\ hent[p] # None /\ hdat' = [hdat EXCEPT ![hent[p]] = <<>>]
         /\ UNCHANGED hent
         /\ req.type = "reg" /\ spc' = "lock"
  BY DEF RecvPath, OpenToWrite
<1>3. p \in Own[conn] BY <1>1, HeadOf
<1>4. p \in Path BY <1>0, <1>3, NamesAssumption
<1> HIDE DEF p
\* A file that is opened for writing is empty.
<1>5. \A q \in Path : hent'[q] # None =>
        \/ hdat'[hent'[q]] = <<>>
        \/ hent[q] # None /\ hdat'[hent'[q]] = hdat[hent[q]]
  <2>1. CASE NewEntry(p, <<>>) BY <1>4, <2>1, EntryMade
  <2>2. CASE UNCHANGED diskVars BY <2>2 DEF diskVars
  <2>3. CASE /\ hent[p] # None /\ hdat' = [hdat EXCEPT ![hent[p]] = <<>>]
             /\ UNCHANGED hent
    BY <1>4, <2>3, Entries
  <2> QED BY <1>2, <2>1, <2>2, <2>3
<1>6. WholeFiles'
  <2> SUFFICES ASSUME NEW k \in Client, Sound(k)', NEW q \in Own[k],
                      TypeOf(q) = "reg", hent'[q] # None
               PROVE  Whole(hdat'[hent'[q]])
    BY DEF WholeFiles
  <2>1. Sound(k) BY <1>1 DEF Sound
  <2>2. hent[q] # None => Whole(hdat[hent[q]])
    BY <1>1, <2>1 DEF Files, WholeFiles
  <2>3. Whole(<<>>) BY DEF Whole
  <2>4. q \in Path BY NamesAssumption
  <2> QED BY <1>5, <2>2, <2>3, <2>4
<1>7. Transfer'
  <2> SUFFICES ASSUME Receiving', conn \notin hurt'
               PROVE  /\ TypeOf(path') = req'.type
                      /\ req'.type = "reg" =>
                           /\ hent'[path'] # None /\ FullBlocks(Target')
                           /\ Carries(Got', Target', up'[conn], cpc'[conn],
                                      cur'[conn].type, buf'[conn].idx)
    BY <1>1 DEF Transfer
  <2>1. conn \notin hurt BY <1>1
  <2>2. /\ open[conn]
        /\ Stepping("path", req.type, size, up[conn], down[conn], cpc[conn],
                    cur[conn].type, buf[conn].size)
    BY <1>1, <2>1, Serving
  <2>3. cpc[conn] = "metaRes" BY <1>1, <2>2 DEF Stepping, Reads
  <2>4. Tail(up[conn]) = <<>> /\ req.type = cur[conn].type
    BY <1>1, <2>2, <2>3 DEF Stepping, Sent
  <2>5. p = cur[conn].path
    <3>1. LastOf(up[conn]) = Head(up[conn])
      BY <1>0, <1>1, <2>2, <2>4, WireType, Shortened DEF Stepping
    <3>2. LastOf(up[conn]).path = cur[conn].path
      BY <1>0, <1>1, <2>1, <2>3 DEF Files, PathSent
    <3> QED BY <3>1, <3>2 DEF p
  <2>6. req.type \in {TypeOf(p), "gone"}
    <3>1. Current(conn) BY <1>0 DEF Owned, Holds
    <3> QED BY <2>3, <2>4, <2>5, <3>1 DEF Current
  <2>7. req.type \in {"reg", "lnk"} /\ (req.type = "reg" => spc' = "lock")
    BY <1>2, <2>2 DEF Answer, Receiving
  <2>8. ASSUME req.type = "reg"
        PROVE  hent'[p] # None /\ hdat'[hent'[p]] = <<>>
    <3>1. CASE NewEntry(p, <<>>) BY <1>4, <3>1, EntryMade
    <3>2. CASE /\ hent[p] # None /\ hdat' = [hdat EXCEPT ![hent[p]] = <<>>]
               /\ UNCHANGED hent
      BY <1>4, <3>2, Entries
    <3>3. spc' = "lock" BY <2>7, <2>8
    <3> QED BY <1>2, <2>2, <2>8, <3>1, <3>2, <3>3 DEF Answer
  <2>9. up'[conn] = <<>> BY <1>0, <1>1, <2>4, ClientFunctions
  <2>10. cpc'[conn] = "metaRes" BY <1>1, <2>3 DEF clientVars
  <2>11. ASSUME req.type = "reg"
         PROVE  /\ hent'[path'] # None /\ FullBlocks(Target')
                /\ Carries(Got', Target', up'[conn], cpc'[conn],
                           cur'[conn].type, buf'[conn].idx)
    <3>1. hent'[path'] # None /\ Target' = <<>> BY <1>1, <2>8, <2>11 DEF Target
    <3>2. FullBlocks(Target') BY <3>1 DEF FullBlocks
    <3>3. Numbered(Got', up'[conn]) BY <2>9 DEF Numbered
    <3> QED BY <2>10, <3>1, <3>2, <3>3 DEF Carries
  <2> QED BY <1>1, <2>6, <2>7, <2>11
<1>8. PathSent' BY <1>0, <1>1, ServerPathSent DEF Files
<1> QED BY <1>6, <1>7, <1>8 DEF Files

\* The transfer goes on with g, s and w as they are now.
LEMMA TransferOn ==
  ASSUME conn' = conn, path' = path, req' = req, hent' = hent,
         conn \notin hurt' => TypeOf(path) = req.type,
         conn \notin hurt' /\ req.type = "reg" =>
           /\ hent[path] # None /\ FullBlocks(Target')
           /\ Carries(Got', Target', up'[conn], cpc'[conn], cur'[conn].type,
                      buf'[conn].idx)
  PROVE  Transfer'
BY DEF Transfer

LEMMA LockFileFiles ==
  ASSUME TypeOK, InStep, Owned, Files, LockFile
  PROVE  Files'
<1>1. /\ spc = "lock" /\ Receiving /\ spc' \in {"file", "dead"}
      /\ UNCHANGED <<clientVars, up, open, conn, req, path, hent, hdat, hurt>>
      /\ spc' = "dead" => ~open[conn]
  BY DEF LockFile, Answer, Receiving, diskVars
<1>2. Target' = Target /\ Got' = Got BY <1>1 DEF Target, Got
<1>3. WholeFiles'
  <2>1. CASE conn \in hurt
    BY <1>1, <2>1, ElsewhereFiles DEF Files
  <2>2. CASE conn \notin hurt
    <3>1. spc' = "file" BY <1>1, <2>2, Serving
    <3> QED BY <1>1, <3>1 DEF Files, WholeFiles, Sound
  <2> QED BY <2>1, <2>2
<1>4. Transfer'
  <2>1. conn \notin hurt => TypeOf(path) = req.type
    BY <1>1 DEF Files, Transfer
  <2>2. conn \notin hurt /\ req.type = "reg" =>
           /\ hent[path] # None /\ FullBlocks(Target)
           /\ Carries(Got, Target, up[conn], cpc[conn], cur[conn].type,
                      buf[conn].idx)
    BY <1>1 DEF Files, Transfer
  <2>3. UNCHANGED <<cpc, cur, buf>> BY <1>1 DEF clientVars
  <2> QED BY <1>1, <1>2, <2>1, <2>2, <2>3, TransferOn
<1>5. PathSent' BY <1>1, Connection, ServerPathSent DEF Files
<1> QED BY <1>3, <1>4, <1>5 DEF Files

\* The server goes on with a client that a fault has hit.
LEMMA HurtFiles ==
  ASSUME TypeOK, InStep, Owned, Files, Receiving, conn' = conn, conn \in hurt',
         hurt \subseteq hurt', UNCHANGED clientVars,
         UNCHANGED up \/ (up[conn] # <<>> /\ up' = [up EXCEPT ![conn] = Tail(@)]),
         UNCHANGED diskVars \/ (\E x : WriteFile(x)) \/ (\E x : MakeLink(x))
  PROVE  Files'
<1>1. ASSUME NEW q \in Path, q # path, hent[q] # None => hent[q] # hent[path]
      PROVE  /\ hent'[q] = hent[q]
             /\ hent[q] # None => hdat'[hent[q]] = hdat[hent[q]]
  <2>1. CASE UNCHANGED diskVars BY <2>1 DEF diskVars
  <2>2. CASE \E x : WriteFile(x) BY <1>1, <2>2, BlockWritten, Entries
  <2>3. CASE \E x : MakeLink(x) BY <1>1, <2>3, LinkMade
  <2> QED BY <2>1, <2>2, <2>3
<1>2. WholeFiles' BY <1>1, ElsewhereFiles DEF Files
<1>3. Transfer' BY DEF Transfer
<1>4. PathSent' BY Connection, ServerPathSent DEF Files
<1> QED BY <1>2, <1>3, <1>4 DEF Files

LEMMA EndFiles ==
  ASSUME TypeOK, InStep, Owned, Files,
         LockHeld \/ EofPath \/ EofFileHeader \/ ShortData \/ EofNames
  PROVE  Files'
<1>1. conn \in Client BY Connection
<1>2. CASE LockHeld \/ EofFileHeader \/ ShortData
  <2>1. /\ Receiving /\ UNCHANGED <<clientVars, up, conn>> /\ hurt \subseteq hurt'
        /\ ~open[conn] \/ conn \in hurt'
        /\ UNCHANGED diskVars \/ (\E x : WriteFile(x)) \/ (\E x : MakeLink(x))
    BY <1>2 DEF LockHeld, EofFileHeader, ShortData, Receiving, Fault, Eof
  <2>2. conn \in hurt' BY <2>1, Serving
  <2> QED BY <2>1, <2>2, HurtFiles
<1>3. CASE EofPath \/ EofNames
  <2>1. /\ UNCHANGED <<clientVars, up, diskVars, hurt>> /\ ~Receiving /\ ~Receiving'
    BY <1>3 DEF EofPath, EofNames, Receiving, Answer
  <2> QED BY <1>1, <2>1, IdleFiles, ServerPathSent DEF Files
<1> QED BY <1>2, <1>3

LEMMA RecvNamesFiles ==
  ASSUME TypeOK, InStep, Owned, Files, RecvNames
  PROVE  Files'
<1> DEFINE s == Head(up[conn]).src
           t == Head(up[conn]).tgt
<1>1. /\ Recv(conn, "names") /\ spc = "names" /\ ~Receiving'
      /\ UNCHANGED <<clientVars, hdat, hurt>>
      /\ \/ UNCHANGED hent
         \/ hent[s] # None /\ hent' = [hent EXCEPT ![t] = hent[s]]
  BY DEF RecvNames, Receiving
<1>2. s \in Regular(conn) /\ t \in Regular(conn) /\ conn \in Client
  BY <1>1, HeadOf, Connection
<1> HIDE DEF s, t
<1>3. s \in Own[conn] /\ t \in Own[conn] /\ TypeOf(s) = "reg" BY <1>2 DEF Regular
<1>4. WholeFiles'
  <2> SUFFICES ASSUME NEW k \in Client, Sound(k)', NEW q \in Own[k],
                      TypeOf(q) = "reg", hent'[q] # None
               PROVE  Whole(hdat'[hent'[q]])
    BY DEF WholeFiles
  <2>1. Sound(k) BY <1>1 DEF Sound
  <2>2. \A r \in Own[k] : TypeOf(r) = "reg" /\ hent[r] # None => Whole(hdat[hent[r]])
    BY <1>1, <2>1 DEF Files, WholeFiles
  <2>3. q \in Path BY NamesAssumption
  <2>4. CASE hent'[q] = hent[q] BY <1>1, <2>2, <2>4
  <2>5. CASE hent'[q] # hent[q]
    <3>1. q = t /\ hent'[q] = hent[s] /\ hent[s] # None BY <1>1, <2>3, <2>5, Entries
    <3>2. s \in Own[k] BY <1>2, <1>3, <3>1, AccountOf
    <3> QED BY <1>1, <1>3, <2>2, <3>1, <3>2
  <2> QED BY <2>4, <2>5
<1>5. Transfer' BY <1>1 DEF Transfer
<1>6. PathSent' BY <1>1, <1>2, ServerPathSent DEF Files, Recv
<1> QED BY <1>4, <1>5, <1>6 DEF Files

LEMMA RecvRmPathFiles ==
  ASSUME TypeOK, InStep, Owned, Files, RecvRmPath
  PROVE  Files'
<1> DEFINE p == Head(up[conn]).path
<1>1. /\ Recv(conn, "path") /\ spc = "rmPath" /\ ~Receiving'
      /\ UNCHANGED <<clientVars, hdat, hurt>>
      /\ hent' = [hent EXCEPT ![p] = None]
  BY DEF RecvRmPath, Receiving
<1> HIDE DEF p
<1>2. \A q \in Path : hent'[q] = hent[q] \/ hent'[q] = None BY <1>1, Entries
<1>3. WholeFiles'
  <2> SUFFICES ASSUME NEW k \in Client, Sound(k)', NEW q \in Own[k],
                      TypeOf(q) = "reg", hent'[q] # None
               PROVE  Whole(hdat'[hent'[q]])
    BY DEF WholeFiles
  <2>1. Sound(k) BY <1>1 DEF Sound
  <2>2. hent'[q] = hent[q] BY <1>2, NamesAssumption
  <2>3. Whole(hdat[hent[q]]) BY <1>1, <2>1, <2>2 DEF Files, WholeFiles
  <2> QED BY <1>1, <2>2, <2>3
<1>5. Transfer' BY <1>1 DEF Transfer
<1>6. PathSent' BY <1>1, Connection, ServerPathSent DEF Files, Recv
<1> QED BY <1>3, <1>5, <1>6 DEF Files

\* The last block of a file has come: every name of it is whole.
LEMMA Received ==
  ASSUME TypeOK, Owned, WholeFiles, UNCHANGED hent, hurt \subseteq hurt',
         \A i \in Inode : i # hent[path] => hdat'[i] = hdat[i],
         Whole(Target'), path' = path
  PROVE  WholeFiles'
<1> SUFFICES ASSUME NEW k \in Client, Sound(k)', NEW q \in Own[k],
                    TypeOf(q) = "reg", hent[q] # None
             PROVE  Whole(hdat'[hent[q]])
  BY DEF WholeFiles
<1>1. hent[q] \in Inode BY NamesAssumption, Entries
<1>2. CASE hent[q] = hent[path] BY <1>2 DEF Target
<1>3. CASE hent[q] # hent[path]
  <2>1. Sound(k) BY DEF Sound
  <2>2. Whole(hdat[hent[q]]) BY <1>3, <2>1 DEF WholeFiles
  <2> QED BY <1>1, <1>3, <2>2
<1> QED BY <1>2, <1>3

\* ... or there are more to come.
LEMMA StillReceiving ==
  ASSUME TypeOK, WholeFiles, UNCHANGED hent, hurt \subseteq hurt',
         \A i \in Inode : i # hent[path] => hdat'[i] = hdat[i],
         path' = path, Receiving'
  PROVE  WholeFiles'
<1> SUFFICES ASSUME NEW k \in Client, Sound(k)', NEW q \in Own[k],
                    TypeOf(q) = "reg", hent[q] # None, hent[q] # hent[path]
             PROVE  Whole(hdat'[hent[q]])
  BY DEF WholeFiles, Receiving
<1>1. hent[q] \in Inode BY NamesAssumption, Entries
<1>2. Sound(k) BY DEF Sound
<1>3. Whole(hdat[hent[q]]) BY <1>2 DEF WholeFiles
<1> QED BY <1>1, <1>3

LEMMA RecvFileHeaderFiles ==
  ASSUME TypeOK, InStep, Owned, Files, RecvFileHeader
  PROVE  Files'
<1> DEFINE s == Head(up[conn]).size
<1>0. conn \in Client /\ path \in Path BY Connection DEF TypeOK, ServerOK
<1>1. /\ spc = "file" /\ Receiving
      /\ UNCHANGED <<clientVars, conn, req, path, hent, hdat, hurt>>
      /\ up[conn] # <<>> /\ up' = [up EXCEPT ![conn] = Tail(@)]
      /\ Head(up[conn]).kind = "file" /\ size' = s
      /\ s # "wild" => spc' = IF s = "zero" THEN "select" ELSE "data"
  BY DEF RecvFileHeader, Recv, Receiving, diskVars
<1>2. CASE conn \in hurt
  BY <1>1, <1>2, HurtFiles DEF diskVars
<1>3. CASE conn \notin hurt
  <2>1. Stepping("file", req.type, size, up[conn], down[conn], cpc[conn],
                 cur[conn].type, buf[conn].size)
    BY <1>1, <1>3, Serving
  <2>2. s # "wild" /\ req.type \in {"reg", "lnk"}
    BY <1>1, <2>1 DEF Stepping, Reads, ServerState
  <2>3. Target' = Target BY <1>1 DEF Target
  <2>4. UNCHANGED <<cpc, cur, buf>> BY <1>1 DEF clientVars
  <2>5. TypeOf(path) = req.type BY <1>1, <1>3 DEF Files, Transfer
  <2>6. PathSent' BY <1>0, <1>1, ServerPathSent DEF Files
  <2>7. ASSUME req.type = "reg"
        PROVE  /\ hent[path] # None /\ FullBlocks(Target) /\ Target \in Seq(Piece)
               /\ Got = 2 * Len(Target) /\ Got \in Nat
               /\ Carries(Got, Target, up[conn], cpc[conn], cur[conn].type,
                          buf[conn].idx)
    <3>1. /\ hent[path] # None /\ FullBlocks(Target)
          /\ Carries(Got, Target, up[conn], cpc[conn], cur[conn].type,
                     buf[conn].idx)
      BY <1>1, <1>3, <2>7 DEF Files, Transfer
    <3>2. Target \in Seq(Piece) /\ Len(Target) \in Nat /\ Got \in Nat
      BY <1>0, <3>1, GotNat
    <3> QED BY <1>1, <3>1, <3>2 DEF Got
  <2>8. CASE s = "zero"
    <3>1. spc' = "select" BY <1>1, <2>8
    <3>2. Transfer' BY <3>1 DEF Transfer, Receiving
    <3>3. WholeFiles'
      <4>1. CASE req.type = "reg"
        <5>1. Whole(Target') BY <2>3, <2>7, <4>1 DEF FullBlocks, Whole
        <5> QED BY <1>1, <5>1, Received DEF Files
      <4>2. CASE req.type = "lnk"
        BY <1>1, <2>5, <4>2, ElsewhereFiles DEF Files
      <4> QED BY <2>2, <4>1, <4>2
    <3> QED BY <2>6, <3>2, <3>3 DEF Files
  <2>9. CASE s # "zero"
    <3>1. spc' = "data" /\ Receiving' BY <1>1, <2>2, <2>9 DEF Receiving
    <3>2. WholeFiles' BY <1>1, <3>1, StillReceiving DEF Files
    <3>3. ASSUME req.type = "reg"
          PROVE  Carries(Got', Target', up'[conn], cpc'[conn], cur'[conn].type,
                         buf'[conn].idx)
      <4>1. Got' = Got + 1 BY <2>3, <2>7, <3>1, <3>3 DEF Got
      <4>2. up'[conn] = Tail(up[conn]) BY <1>0, <1>1, ClientFunctions
      <4>3. up[conn] \in Seq(Up) BY <1>0, WireType
      <4>4. /\ Numbered(Got + 1, Tail(up[conn]))
            /\ Len(Tail(up[conn])) = Len(up[conn]) - 1
        BY <1>1, <2>7, <3>3, <4>3, NumberRead DEF Carries
      <4>5. Len(up[conn]) \in Nat BY <4>3, LenProperties
      <4>6. cpc[conn] # "metaRes" BY <1>1, <2>1 DEF Stepping, Sent
      <4>7. cpc[conn] \in {"file", "data"} =>
              /\ cur[conn].type = "reg"
              /\ 2 * buf[conn].idx = Got + Len(up[conn])
                                       + (IF cpc[conn] = "data" THEN 1 ELSE 0)
        BY <2>7, <3>3 DEF Carries
      <4>8. Got + Len(up[conn]) = (Got + 1) + Len(Tail(up[conn]))
        <5>1. \A g, l \in Nat : \A k : k = l - 1 => g + l = (g + 1) + k OBVIOUS
        <5> QED BY <2>7, <3>3, <4>4, <4>5, <5>1
      <4> QED BY <2>4, <4>1, <4>2, <4>4, <4>6, <4>7, <4>8 DEF Carries
    <3>4. Transfer' BY <1>1, <2>3, <2>5, <2>7, <3>3, TransferOn
    <3> QED BY <2>6, <3>2, <3>4 DEF Files
  <2> QED BY <2>8, <2>9
<1> QED BY <1>2, <1>3

LEMMA RecvDataFiles ==
  ASSUME TypeOK, InStep, Owned, Files, RecvData
  PROVE  Files'
<1> DEFINE x == Head(up[conn]).piece
<1>0. conn \in Client /\ path \in Path BY Connection DEF TypeOK, ServerOK
<1>1. /\ spc = "data" /\ Receiving /\ Recv(conn, "data")
      /\ UNCHANGED <<clientVars, conn, req, path, hurt>>
      /\ up[conn] # <<>> /\ up' = [up EXCEPT ![conn] = Tail(@)]
      /\ Head(up[conn]).kind = "data"
      /\ IF req.type = "lnk" THEN MakeLink(x) ELSE WriteFile(x)
      /\ spc' = IF req.type = "reg" /\ size = "full" THEN "file" ELSE "select"
  BY DEF RecvData, Recv, Receiving, AfterData
<1>2. CASE conn \in hurt
  BY <1>1, <1>2, HurtFiles
<1>3. CASE conn \notin hurt
  <2>1. Stepping("data", req.type, size, up[conn], down[conn], cpc[conn],
                 cur[conn].type, buf[conn].size)
    BY <1>1, <1>3, Serving
  <2>2. /\ req.type \in {"reg", "lnk"} /\ size \in {"full", "part"}
        /\ x.size = size
    BY <1>1, <2>1 DEF Stepping, Reads, ServerState
  <2>3. TypeOf(path) = req.type BY <1>1, <1>3 DEF Files, Transfer
  <2>4. PathSent' BY <1>0, <1>1, ServerPathSent DEF Files
  <2>5. CASE req.type = "lnk"
    <3>1. spc' = "select" BY <1>1, <2>5
    <3>2. Transfer' BY <3>1 DEF Transfer, Receiving
    <3>3. ASSUME NEW q \in Path, q # path
          PROVE  /\ hent'[q] = hent[q]
                 /\ hent[q] # None => hdat'[hent[q]] = hdat[hent[q]]
      BY <1>1, <2>5, <3>3, LinkMade
    <3>4. TypeOf(path) # "reg" BY <2>3, <2>5
    <3>5. WholeFiles' BY <1>1, <3>3, <3>4, ElsewhereFiles DEF Files
    <3> QED BY <2>4, <3>2, <3>5 DEF Files
  <2>6. CASE req.type = "reg"
    <3>1. /\ hent[path] # None /\ FullBlocks(Target)
          /\ Carries(Got, Target, up[conn], cpc[conn], cur[conn].type,
                     buf[conn].idx)
      BY <1>1, <1>3, <2>6 DEF Files, Transfer
    <3>2. Target \in Seq(Piece) /\ Len(Target) \in Nat /\ Got \in Nat
          /\ hent[path] \in Inode
      BY <1>0, <3>1, GotNat, Entries
    <3>3. Got = 2 * Len(Target) + 1 BY <1>1 DEF Got
    <3>4. up[conn] \in Seq(Up) /\ up'[conn] = Tail(up[conn])
      BY <1>0, <1>1, WireType, ClientFunctions
    <3>5. /\ Numbered(Got + 1, Tail(up[conn]))
          /\ Len(Tail(up[conn])) = Len(up[conn]) - 1
          /\ 2 * x.idx = Got + 1
      BY <1>1, <3>1, <3>2, <3>4, NumberRead DEF Carries
    <3>6. x \in Piece /\ x.ver # Junk
      <4>1. Head(up[conn]) \in Up BY <1>1, <3>4, TailSeq
      <4> QED BY <1>1, <4>1, UpFields, HeadOf
    <3>7. x.idx = Len(Target) + 1
      <4>1. x.idx \in Nat BY <3>6 DEF Piece
      <4> HIDE DEF x
      <4>2. \A n, j \in Nat : 2 * j = (2 * n + 1) + 1 => j = n + 1 OBVIOUS
      <4> QED BY <3>2, <3>3, <3>5, <4>1, <4>2
    <3>8. /\ hent' = hent /\ \A i \in Inode : i # hent[path] => hdat'[i] = hdat[i]
          /\ Target' = Append(Target, x)
      BY <1>1, <2>6, <3>2, BlockWritten DEF Target
    <3> HIDE DEF x
    <3>9. /\ Whole(Target') /\ (x.size = "full" => FullBlocks(Target'))
          /\ Len(Target') = Len(Target) + 1
      BY <3>1, <3>2, <3>6, <3>7, <3>8, BlockAdded
    <3>10. CASE size # "full"
      <4>1. spc' = "select" BY <1>1, <3>10
      <4>2. Transfer' BY <4>1 DEF Transfer, Receiving
      <4>3. WholeFiles' BY <1>1, <3>8, <3>9, Received DEF Files
      <4> QED BY <2>4, <4>2, <4>3 DEF Files
    <3>11. CASE size = "full"
      <4>1. spc' = "file" /\ Receiving' BY <1>1, <2>6, <3>11 DEF Receiving
      <4>2. WholeFiles' BY <1>1, <3>8, <4>1, StillReceiving DEF Files
      <4>3. Got' = Got + 1
        <5>1. Got' = 2 * Len(Target') BY <4>1, <3>2, <3>9 DEF Got
        <5>2. \A n, g \in Nat : g = 2 * n + 1 => 2 * (n + 1) = g + 1 OBVIOUS
        <5>3. 2 * (Len(Target) + 1) = Got + 1 BY <3>2, <3>3, <5>2
        <5> QED BY <3>9, <5>1, <5>3
      <4>4. UNCHANGED <<cpc, cur, buf>> BY <1>1 DEF clientVars
      <4>5. Len(up[conn]) \in Nat BY <3>4, LenProperties
      <4>6. cpc[conn] # "metaRes" BY <1>1, <2>1 DEF Stepping, Sent
      <4>7. cpc[conn] \in {"file", "data"} =>
              /\ cur[conn].type = "reg"
              /\ 2 * buf[conn].idx = Got + Len(up[conn])
                                       + (IF cpc[conn] = "data" THEN 1 ELSE 0)
        BY <3>1 DEF Carries
      <4>8. Got + Len(up[conn]) = (Got + 1) + Len(Tail(up[conn]))
        <5>1. \A g, l \in Nat : \A k : k = l - 1 => g + l = (g + 1) + k OBVIOUS
        <5> QED BY <3>2, <3>5, <4>5, <5>1
      <4>9. Carries(Got', Target', up'[conn], cpc'[conn], cur'[conn].type,
                    buf'[conn].idx)
        BY <3>4, <3>5, <4>3, <4>4, <4>6, <4>7, <4>8 DEF Carries
      <4>10. Transfer'
        BY <1>1, <2>2, <2>3, <3>1, <3>8, <3>9, <3>11, <4>9, TransferOn
      <4> QED BY <2>4, <4>2, <4>10 DEF Files
    <3> QED BY <3>10, <3>11
  <2> QED BY <2>2, <2>5, <2>6
<1> QED BY <1>2, <1>3

-----------------------------------------------------------------------------
LEMMA FilesInit == Init => Files
<1> SUFFICES ASSUME Init PROVE Files
  OBVIOUS
<1>1. PathSent BY DEF Init, PathSent
<1>2. Transfer BY DEF Init, Transfer, Receiving
<1>3. WholeFiles BY NamesAssumption DEF Init, WholeFiles
<1> QED BY <1>1, <1>2, <1>3 DEF Files

LEMMA FilesStep == TypeOK /\ InStep /\ Owned /\ Files /\ [Next]_vars => Files'
<1> SUFFICES ASSUME TypeOK, InStep, Owned, Files, [Next]_vars PROVE Files'
  OBVIOUS
<1>1. ASSUME NEW c \in Client, ClientStep(c) \/ User(c) \/ Crash(c) PROVE Files'
  BY <1>1, OutsideFiles, NamesFiles, RecvMetaEchoFiles, RecvMetaResFiles,
     SendFileHeaderFiles, SendFileDataFiles
  DEF ClientStep
<1>2. CASE ServerStep
  BY <1>2, RequestServedFiles, GarbageFiles, RecvPathFiles, LockFileFiles, EndFiles,
     RecvFileHeaderFiles, RecvDataFiles, RecvNamesFiles, RecvRmPathFiles
  DEF ServerStep
<1>3. CASE UNCHANGED vars
  <2>1. UNCHANGED <<clientVars, up, hurt, spc, conn, req, path, hent, hdat>>
    BY <1>3 DEF vars, serverVars, diskVars
  <2> QED BY <2>1 DEF Files, PathSent, Transfer, WholeFiles, Sound, Receiving,
                      Target, Got, clientVars
<1> QED BY <1>1, <1>2, <1>3 DEF Next

\* A message is about names of the account it is sent for, and files of two
\* accounts are never one file on the server.
THEOREM AccountsApart == OneNameLinks => (Spec => []Owned)
<1> SUFFICES ASSUME OneNameLinks PROVE Spec => []Owned
  OBVIOUS
<1>1. Init => TypeOK /\ Owned BY Initially, OwnedInit
<1>2. TypeOK /\ Owned /\ [Next]_vars => (TypeOK /\ Owned)'
  BY TypeStep, OwnedStep
<1> QED BY <1>1, <1>2, PTL DEF Spec

\* Every file of the server that is not being received is in one piece (the
\* property of csiebox_server.c 440-468), for any number of clients and accounts,
\* however many clients share one, and whatever faults hit the other accounts.
\* Numbers of blocks are compared with what is in flight: the invariants it needs
\* are that the streams are in step, that accounts have no file in common, and that
\* block n + 1 is the next one the server reads after n blocks.
\* OneNameLinks is about the homes at the start only, where several names of one file
\* are names of a regular file.
THEOREM WholeFilesKept == OneNameLinks => (Spec => []WholeFiles)
<1> SUFFICES ASSUME OneNameLinks PROVE Spec => []WholeFiles
  OBVIOUS
<1> DEFINE Inv == TypeOK /\ InStep /\ Owned /\ Files
<1>1. Init => Inv BY Initially, InStepInit, OwnedInit, FilesInit
<1>2. Inv /\ [Next]_vars => Inv'
  BY TypeStep, InStepStep, OwnedStep, FilesStep
<1>3. Inv => WholeFiles BY DEF Files
<1> QED BY <1>1, <1>2, <1>3, PTL DEF Spec
-----------------------------------------------------------------------------
(* The server has what the clients have: the inductive invariant.          *)

\* A session in which the names of a home are names of different files: no links,
\* hard or symbolic, directories that stay, and no change before the watch is set up.
SimpleSession ==
  /\ \A h \in Homes, p, q \in Path : h[p] = h[q] /\ h[p] # None => p = q
  /\ Lnk = {} /\ Edits \subseteq {"create", "write", "touch", "delete"} /\ ~EarlyEdits
\* ... and in which every client has an account of its own.
Alone(c) == \A k \in Client : k # c => Own[c] \cap Own[k] = {}
PlainSession == SimpleSession /\ \A c \in Client : Alone(c)

\* The last queued change of a name says whether the name is there.
LastTells(w, p, there) ==
  \A i \in 1 .. Len(w) :
    w[i].path = p /\ (\A j \in 1 .. Len(w) : i < j => w[j].path # p) =>
      (there <=> w[i].kind # "delete")
PlainUp == {m \in Up : m.kind \notin {"hl", "names"}}
Told(c) ==
  /\ \A p \in Path : LastTells(events[c], p, lent[c][p] # None)
  /\ \A i \in 1 .. Len(events[c]) :
       events[c][i].kind = "delete" => events[c][i].path \notin Dir
\* The traversal, with nothing changed meanwhile, and after it the watch.
Lasting(c) ==
  /\ phase[c] \in {"scan", "watch"}
  /\ phase[c] = "scan" => events[c] = <<>> /\ \A p \in todo[c] : lent[c][p] # None
  /\ phase[c] = "watch" => todo[c] = {}
  /\ cpc[c] = "rmEcho" => cur[c].path \notin Dir
  /\ Told(c)
OneName(c) == \A p, q \in Path : lent[c][p] # None /\ lent[c][p] = lent[c][q] => p = q
Plain(c) == /\ tab[c] = {} /\ links[c] = {} /\ up[c] \in Seq(PlainUp)
            /\ OneName(c) /\ Lasting(c)
OwnFiles == \A p, q \in Path : hent[p] # None /\ hent[p] = hent[q] => p = q

\* No change of p is waiting to be handled.
Clean(c, p) == p \notin todo[c] /\ \A i \in 1 .. Len(events[c]) : events[c][i].path # p
\* What is being done for p: the client is asking, the server is going to remove
\* it, or is receiving it.
Asks(c, p) == /\ cur[c].path = p
              /\ \/ cpc[c] \in {"visit", "metaEcho"}
                 \/ cpc[c] = "metaRes" /\ ServerAt(c) = "path"
Removes(c, p) == \/ cpc[c] = "rmEcho" /\ cur[c].path = p
                 \/ /\ ServerAt(c) = "rmPath" /\ up[c] # <<>>
                    /\ Head(up[c]).path = p
Takes(c, p) == ServerAt(c) \in {"lock", "file", "data"} /\ path = p

\* The client asks with the type and the digest of what is there now.
Wanted(c, p) == IF TypeOf(p) = "dir" THEN None ELSE ldat[c][lent[c][p]]
Asked(c, p) ==
  /\ lent[c][p] # None /\ cur[c].type = TypeOf(p)
  /\ cpc[c] = "metaEcho" /\ up[c] # <<>> => LastOf(up[c]).ver = Wanted(c, p)
  /\ ServerAt(c) = "path" => req.ver = Wanted(c, p)
\* With g half blocks received, w carries blocks of v.
Brings(v, g, w) ==
  \A i \in 1 .. Len(w) :
    /\ w[i].kind = "data" => w[i].piece = PieceOf(v, w[i].piece.idx)
    /\ w[i].kind = "file" =>
         \A n \in Nat : 2 * n = g + i + 1 => w[i].size = PieceOf(v, n).size
Reading(v, i, pc, r, x) ==
  pc \in {"file", "data"} => r = i /\ (pc = "data" => x = PieceOf(v, x.idx))
BlocksOf(v, s) == \A j \in 1 .. Len(s) : s[j] = PieceOf(v, j)
Landing(c) ==
  LET i == lent[c][path]  v == ldat[c][i] IN
  /\ i # None
  /\ BlocksOf(v, Target) /\ Brings(v, Got, up[c])
  /\ Reading(v, i, cpc[c], rd[c], buf[c])
Kept(c, p) == Alone(c) =>
  /\ lent[c][p] = None <=> hent[p] = None
  /\ lent[c][p] # None /\ TypeOf(p) = "reg" =>
       hdat[hent[p]] = Content(ldat[c][lent[c][p]])
\* The server has under p what c has under it now.
HasCopy(c, p) ==
  lent[c][p] # None /\ hdat[hent[p]] = Content(ldat[c][lent[c][p]])
Obliged(c, p) ==
  /\ Asks(c, p) => Asked(c, p)
  /\ ~Asks(c, p) /\ Removes(c, p) => lent[c][p] = None
  /\ ~Asks(c, p) /\ ~Removes(c, p) /\ Takes(c, p) => Landing(c)
  /\ ~Asks(c, p) /\ ~Removes(c, p) /\ ~Takes(c, p) => Kept(c, p)
AnswerFor(c) ==
  cpc[c] = "metaRes" /\ ServerAt(c) \in {"lock", "file", "data"} => cur[c].path = path
Mirroring(c) == AnswerFor(c) /\ \A p \in Own[c] : Clean(c, p) => Obliged(c, p)
Mirrors ==
  /\ \A c \in Client : Plain(c)
  /\ OwnFiles
  /\ \A c \in Client \ hurt : Mirroring(c)

-----------------------------------------------------------------------------
(* The event queue, the blocks of a file, the names on the server.         *)

LEMMA TellsTail ==
  ASSUME NEW T, NEW w \in Seq(T), w # <<>>, NEW p, NEW t \in BOOLEAN, LastTells(w, p, t)
  PROVE  LastTells(Tail(w), p, t)
<1> DEFINE v == Tail(w)
<1>1. /\ Len(v) = Len(w) - 1 /\ Len(w) \in Nat \ {0}
      /\ \A i \in 1 .. Len(v) : v[i] = w[i + 1]
  BY HeadTailProperties, LenProperties, EmptySeq
<1> HIDE DEF v
<1> SUFFICES ASSUME NEW i \in 1 .. Len(v), v[i].path = p,
                    \A j \in 1 .. Len(v) : i < j => v[j].path # p
             PROVE  t <=> v[i].kind # "delete"
  BY DEF LastTells, v
<1>2. i + 1 \in 1 .. Len(w) /\ w[i + 1] = v[i] BY <1>1
<1>3. ASSUME NEW j \in 1 .. Len(w), i + 1 < j PROVE w[j].path # p
  <2>1. j - 1 \in 1 .. Len(v) /\ i < j - 1 /\ (j - 1) + 1 = j BY <1>1, <1>3
  <2> QED BY <1>1, <2>1
<1> QED BY <1>2, <1>3 DEF LastTells

LEMMA TellsHead ==
  ASSUME NEW T, NEW w \in Seq(T), w # <<>>, NEW t \in BOOLEAN,
         LastTells(w, Head(w).path, t),
         \A i \in 1 .. Len(Tail(w)) : Tail(w)[i].path # Head(w).path
  PROVE  t <=> Head(w).kind # "delete"
<1> DEFINE v == Tail(w)
<1>1. /\ Len(v) = Len(w) - 1 /\ Len(w) \in Nat \ {0} /\ Head(w) = w[1]
      /\ \A i \in 1 .. Len(v) : v[i] = w[i + 1]
  BY HeadTailProperties, LenProperties, EmptySeq
<1>2. \A i \in 1 .. Len(v) : v[i].path # w[1].path BY <1>1
<1> HIDE DEF v
<1>3. ASSUME NEW j \in 1 .. Len(w), 1 < j PROVE w[j].path # w[1].path
  <2>1. j - 1 \in 1 .. Len(v) /\ (j - 1) + 1 = j BY <1>1, <1>3
  <2> QED BY <1>1, <1>2, <2>1
<1>4. 1 \in 1 .. Len(w) BY <1>1
<1> QED BY <1>1, <1>3, <1>4 DEF LastTells

\* A change is queued, or is the one queued last.
LEMMA TellsChange ==
  ASSUME NEW T, NEW w \in Seq(T), NEW v \in Seq(T), NEW e \in T,
         v = Append(w, e) \/ (v = w /\ w # <<>> /\ w[Len(w)] = e),
         NEW p, NEW t \in BOOLEAN,
         IF p = e.path THEN t <=> e.kind # "delete" ELSE LastTells(w, p, t)
  PROVE  LastTells(v, p, t)
<1> SUFFICES ASSUME NEW i \in 1 .. Len(v), v[i].path = p,
                    \A j \in 1 .. Len(v) : i < j => v[j].path # p
             PROVE  t <=> v[i].kind # "delete"
  BY DEF LastTells
<1>1. Len(w) \in Nat /\ Len(v) \in Nat /\ Len(v) # 0 /\ v[Len(v)] = e
  BY AppendProperties, LenProperties, EmptySeq
<1>2. CASE p = e.path
  <2>1. Len(v) \in 1 .. Len(v) /\ i <= Len(v) BY <1>1
  <2>2. i = Len(v) BY <1>1, <1>2, <2>1
  <2> QED BY <1>1, <1>2, <2>2
<1>3. CASE p # e.path /\ v = w BY <1>3 DEF LastTells
<1>4. CASE p # e.path /\ v = Append(w, e)
  <2>1. Len(v) = Len(w) + 1 /\ \A j \in 1 .. Len(w) : v[j] = w[j]
    BY <1>4, AppendProperties
  <2>2. i # Len(v) BY <1>1, <1>4
  <2>3. i \in 1 .. Len(w) /\ 1 .. Len(w) \subseteq 1 .. Len(v) BY <1>1, <2>1, <2>2
  <2>4. \A j \in 1 .. Len(w) : i < j => w[j].path # p BY <2>1, <2>3
  <2> QED BY <1>4, <2>1, <2>3, <2>4 DEF LastTells
<1> QED BY <1>2, <1>3, <1>4

\* A name that is clean after the change is another name, and was clean before.
LEMMA CleanAfter ==
  ASSUME NEW T, NEW w \in Seq(T), NEW v \in Seq(T), NEW e \in T,
         v = Append(w, e) \/ (v = w /\ w # <<>> /\ w[Len(w)] = e),
         NEW p, \A i \in 1 .. Len(v) : v[i].path # p
  PROVE  p # e.path /\ \A i \in 1 .. Len(w) : w[i].path # p
<1>1. Len(w) \in Nat /\ Len(v) \in Nat /\ Len(v) # 0 /\ v[Len(v)] = e
  BY AppendProperties, LenProperties, EmptySeq
<1>2. Len(v) \in 1 .. Len(v) BY <1>1
<1>3. 1 .. Len(w) \subseteq 1 .. Len(v) /\ \A i \in 1 .. Len(w) : v[i] = w[i]
  BY AppendProperties
<1> QED BY <1>1, <1>2, <1>3

LEMMA BringsSent ==
  ASSUME NEW v, NEW g \in Nat, NEW w \in Seq(Up), NEW m \in Up, Brings(v, g, w),
         m.kind = "data" => m.piece = PieceOf(v, m.piece.idx),
         m.kind = "file" =>
           \A n \in Nat : 2 * n = g + Len(w) + 2 => m.size = PieceOf(v, n).size
  PROVE  Brings(v, g, Append(w, m))
<1> DEFINE x == Append(w, m)
<1>1. /\ Len(x) = Len(w) + 1 /\ x[Len(w) + 1] = m /\ Len(w) \in Nat
      /\ \A i \in 1 .. Len(w) : x[i] = w[i]
  BY AppendProperties, LenProperties
<1> HIDE DEF x
<1> SUFFICES ASSUME NEW i \in 1 .. Len(x)
             PROVE  /\ x[i].kind = "data" => x[i].piece = PieceOf(v, x[i].piece.idx)
                    /\ x[i].kind = "file" =>
                         \A n \in Nat : 2 * n = g + i + 1 => x[i].size = PieceOf(v, n).size
  BY DEF Brings, x
<1>2. CASE i = Len(w) + 1
  <2>1. g + i + 1 = g + Len(w) + 2 BY <1>1, <1>2
  <2> QED BY <1>1, <1>2, <2>1
<1>3. CASE i # Len(w) + 1
  <2>1. i \in 1 .. Len(w) BY <1>1, <1>3
  <2> QED BY <1>1, <2>1 DEF Brings
<1> QED BY <1>2, <1>3

LEMMA BringsRead ==
  ASSUME NEW v, NEW g \in Nat, NEW w \in Seq(Up), w # <<>>, Brings(v, g, w)
  PROVE  /\ Brings(v, g + 1, Tail(w))
         /\ Head(w).kind = "data" => Head(w).piece = PieceOf(v, Head(w).piece.idx)
         /\ Head(w).kind = "file" =>
              \A n \in Nat : 2 * n = g + 2 => Head(w).size = PieceOf(v, n).size
<1> DEFINE x == Tail(w)
<1>1. /\ Len(x) = Len(w) - 1 /\ Len(w) \in Nat \ {0}
      /\ Head(w) = w[1] /\ \A i \in 1 .. Len(x) : x[i] = w[i + 1]
  BY HeadTailProperties, LenProperties, EmptySeq
<1> HIDE DEF x
<1>2. ASSUME NEW i \in 1 .. Len(x)
      PROVE  /\ x[i].kind = "data" => x[i].piece = PieceOf(v, x[i].piece.idx)
             /\ x[i].kind = "file" =>
                  \A n \in Nat : 2 * n = (g + 1) + i + 1 => x[i].size = PieceOf(v, n).size
  <2>1. i + 1 \in 1 .. Len(w) /\ x[i] = w[i + 1] BY <1>1
  <2>2. (g + 1) + i + 1 = g + (i + 1) + 1 OBVIOUS
  <2> QED BY <2>1, <2>2 DEF Brings
<1>3. Brings(v, g + 1, x) BY <1>2 DEF Brings
<1>4. 1 \in 1 .. Len(w) /\ g + 1 + 1 = g + 2 BY <1>1
<1>5. /\ Head(w).kind = "data" => Head(w).piece = PieceOf(v, Head(w).piece.idx)
      /\ Head(w).kind = "file" =>
           \A n \in Nat : 2 * n = g + 2 => Head(w).size = PieceOf(v, n).size
  BY <1>1, <1>4 DEF Brings
<1> QED BY <1>3, <1>5 DEF x

\* The blocks received are all of v: an empty header comes next, ...
LEMMA AllReceived ==
  ASSUME NEW v \in Version, NEW s \in Seq(Piece), BlocksOf(v, s), FullBlocks(s),
         PieceOf(v, Len(s) + 1).size = "zero"
  PROVE  s = Content(v)
<1> DEFINE n == Len(s)
<1>1. n \in Nat /\ Blocks[v] \in Nat /\ s = [i \in 1 .. n |-> s[i]]
  BY LenProperties, DataAssumption
<1> HIDE DEF n
<1>2. n <= Blocks[v]
  <2>1. CASE n = 0 BY <1>1, <2>1
  <2>2. CASE n # 0
    <3>1. n \in 1 .. n BY <1>1, <2>2
    <3>2. PieceOf(v, n).size = "full" BY <3>1 DEF n, BlocksOf, FullBlocks
    <3> QED BY <1>1, <3>2 DEF PieceOf
  <2> QED BY <2>1, <2>2
<1>3. ~(n + 1 <= Blocks[v]) /\ ~(n + 1 = Blocks[v] + 1 /\ v \in Ragged)
  BY DEF PieceOf, n
<1>4. n = Blocks[v] /\ v \notin Ragged BY <1>1, <1>2, <1>3
<1>5. Content(v) = [i \in 1 .. n |-> PieceOf(v, i)] BY <1>4 DEF Content
<1>6. \A i \in 1 .. n : s[i] = PieceOf(v, i) BY DEF BlocksOf, n
<1> QED BY <1>1, <1>5, <1>6

\* ... or a short block.
LEMMA LastReceived ==
  ASSUME NEW v \in Version, NEW s \in Seq(Piece), BlocksOf(v, s), FullBlocks(s),
         NEW x \in Piece, x = PieceOf(v, Len(s) + 1), x.size = "part"
  PROVE  Append(s, x) = Content(v)
<1> DEFINE n == Len(s)  u == Append(s, x)
<1>1. n \in Nat /\ Blocks[v] \in Nat BY LenProperties, DataAssumption
<1>2. u \in Seq(Piece) /\ Len(u) = n + 1 /\ u[n + 1] = x /\ \A i \in 1 .. n : u[i] = s[i]
  BY AppendProperties
<1>3. u = [i \in 1 .. n + 1 |-> u[i]] BY <1>2, LenProperties
<1>4. ~(n + 1 <= Blocks[v]) /\ n + 1 = Blocks[v] + 1 /\ v \in Ragged
  BY DEF PieceOf
<1>5. Content(v) = [i \in 1 .. n + 1 |-> PieceOf(v, i)] BY <1>4 DEF Content
<1>6. \A i \in 1 .. n : s[i] = PieceOf(v, i) BY DEF BlocksOf
<1> HIDE DEF u, n
<1>7. ASSUME NEW i \in 1 .. n + 1 PROVE u[i] = PieceOf(v, i)
  <2>1. CASE i = n + 1 BY <1>2, <2>1 DEF n
  <2>2. CASE i # n + 1
    <3>1. i \in 1 .. n BY <1>1, <2>2
    <3> QED BY <1>2, <1>6, <3>1
  <2> QED BY <2>1, <2>2
<1> QED BY <1>3, <1>5, <1>7 DEF u

LEMMA BlocksMore ==
  ASSUME NEW v, NEW s \in Seq(Piece), BlocksOf(v, s),
         NEW x \in Piece, x = PieceOf(v, Len(s) + 1)
  PROVE  BlocksOf(v, Append(s, x))
<1>1. /\ Len(Append(s, x)) = Len(s) + 1 /\ Append(s, x)[Len(s) + 1] = x /\ Len(s) \in Nat
      /\ \A i \in 1 .. Len(s) : Append(s, x)[i] = s[i]
  BY AppendProperties, LenProperties
<1> DEFINE u == Append(s, x)
<1> HIDE DEF u
<1> SUFFICES ASSUME NEW i \in 1 .. Len(u) PROVE u[i] = PieceOf(v, i)
  BY DEF BlocksOf, u
<1>2. CASE i = Len(s) + 1 BY <1>1, <1>2 DEF u
<1>3. CASE i # Len(s) + 1
  <2>1. i \in 1 .. Len(s) BY <1>1, <1>3 DEF u
  <2> QED BY <1>1, <2>1 DEF BlocksOf, u
<1> QED BY <1>2, <1>3

\* What a step of the server does to the file p.
Alters(p) ==
  \/ UNCHANGED diskVars
  \/ \E data : NewEntry(p, data)
  \/ UNCHANGED hent /\ \E data : hdat' = [hdat EXCEPT ![hent[p]] = data]
  \/ UNCHANGED hdat /\ hent' = [hent EXCEPT ![p] = None]

LEMMA OthersKept ==
  ASSUME TypeOK, OwnFiles, NEW p \in Path, Alters(p)
  PROVE  /\ OwnFiles'
         /\ \A q \in Path : q # p =>
              /\ hent'[q] = hent[q]
              /\ hent[q] # None => hdat'[hent[q]] = hdat[hent[q]]
<1>1. CASE UNCHANGED diskVars BY <1>1 DEF OwnFiles, diskVars
<1>2. CASE \E data : NewEntry(p, data)
  <2>1. PICK data : NewEntry(p, data) BY <1>2
  <2>2. \A q \in Path : q # p => /\ hent'[q] = hent[q] /\ hent[q] # hent'[p]
                                 /\ hent[q] # None => hdat'[hent[q]] = hdat[hent[q]]
    BY <2>1, EntryMade
  <2> QED BY <2>2 DEF OwnFiles
<1>3. CASE UNCHANGED hent /\ \E data : hdat' = [hdat EXCEPT ![hent[p]] = data]
  <2>1. \A i \in Inode : i # hent[p] => hdat'[i] = hdat[i] BY <1>3, Entries
  <2>2. \A q \in Path : q # p /\ hent[q] # None => hent[q] # hent[p] /\ hent[q] \in Inode
    BY Entries DEF OwnFiles
  <2> QED BY <1>3, <2>1, <2>2 DEF OwnFiles
<1>4. CASE UNCHANGED hdat /\ hent' = [hent EXCEPT ![p] = None]
  <2>1. hent'[p] = None /\ \A q \in Path : q # p => hent'[q] = hent[q]
    BY <1>4, Entries
  <2> QED BY <1>4, <2>1 DEF OwnFiles
<1> QED BY <1>1, <1>2, <1>3, <1>4 DEF Alters

-----------------------------------------------------------------------------
(* A plain session stays plain.                                            *)

LEMMA PlainFunctions ==
  ASSUME TypeOK
  PROVE  /\ phase = [c \in Client |-> phase[c]] /\ rd = [c \in Client |-> rd[c]]
         /\ ldat = [c \in Client |-> ldat[c]]
         /\ \A c \in Client : /\ lent[c] = [p \in Path |-> lent[c][p]]
                              /\ ldat[c] = [i \in Inode |-> ldat[c][i]]
                              /\ \A p \in Path : lent[c][p] \in Inode \cup {None}
<1>1. ClientOK /\ UserOK BY DEF TypeOK
<1>2. phase = [c \in Client |-> phase[c]] /\ rd = [c \in Client |-> rd[c]]
  BY <1>1 DEF ClientOK
<1>3. ldat = [c \in Client |-> ldat[c]] BY <1>1 DEF UserOK
<1>4. \A c \in Client : lent[c] \in [Path -> Inode \cup {None}] /\ ldat[c] \in [Inode -> Version]
  BY <1>1 DEF UserOK
<1> QED BY <1>2, <1>3, <1>4

LEMMA PlainMessages ==
  /\ \A t \in Type, v \in Version \cup {None} : MetaMsg(t, v) \in PlainUp
  /\ \A p \in Path : PathMsg(p) \in PlainUp
  /\ \A s \in Size : FileMsg(s) \in PlainUp
  /\ \A x \in Piece : DataMsg(x) \in PlainUp
  /\ RmMsg \in PlainUp
BY UpMessages DEF PlainUp, MetaMsg, PathMsg, FileMsg, DataMsg, RmMsg

\* Nothing changes but where the client is and what it has sent.
LEMMA StaysLasting ==
  ASSUME NEW c \in Client, Lasting(c), phase'[c] = phase[c], todo'[c] \subseteq todo[c],
         events'[c] = events[c], lent'[c] = lent[c],
         cpc'[c] = "rmEcho" => cur'[c].path \notin Dir
  PROVE  Lasting(c)'
<1>1. Told(c)' BY DEF Lasting, Told
<1> QED BY <1>1 DEF Lasting

LEMMA StaysPlain ==
  ASSUME NEW c \in Client, Plain(c), tab'[c] = tab[c], links'[c] = links[c],
         phase'[c] = phase[c], todo'[c] \subseteq todo[c], events'[c] = events[c],
         lent'[c] = lent[c], up'[c] \in Seq(PlainUp),
         cpc'[c] = "rmEcho" => cur'[c].path \notin Dir
  PROVE  Plain(c)'
<1>1. Lasting(c)' BY StaysLasting DEF Plain
<1>2. OneName(c)' BY DEF Plain, OneName
<1> QED BY <1>1, <1>2 DEF Plain

LEMMA PlainSent ==
  ASSUME TypeOK, NEW c \in Client, Plain(c), NEW m \in PlainUp, SendUp(c, m)
  PROVE  up'[c] \in Seq(PlainUp)
BY SendUpOf, AppendSeq DEF Plain

\* What a client does changes nothing of this for another one.
LEMMA OthersLasting ==
  ASSUME NEW c \in Client, NEW k \in Client, Lasting(k), Same(k), phase'[k] = phase[k]
  PROVE  Lasting(k)'
BY StaysLasting DEF Same, Lasting

LEMMA OthersPlain ==
  ASSUME NEW c \in Client, NEW k \in Client, Plain(k), Same(k), phase'[k] = phase[k]
  PROVE  Plain(k)'
BY StaysPlain DEF Same, Plain, Lasting

\* The name p is the next of the traversal.
Comes(c, p) ==
  LET i == lent[c][p]
      shared == TypeOf(p) # "dir" /\ \E q \in Path \ {p} : lent[c][q] = i
  IN /\ i # None /\ todo' = [todo EXCEPT ![c] = @ \ {p}]
     /\ cur' = [cur EXCEPT ![c] = [path |-> p, type |-> TypeOf(p)]]
     /\ links' = [links EXCEPT ![c] = IF shared THEN EarlierNames(c, i) ELSE {}]
     /\ tab' = [tab EXCEPT ![c] = IF shared THEN @ \cup {<<i, p>>} ELSE @]
     /\ Goto(c, "visit")

LEMMA VisitComes ==
  ASSUME TypeOK, NEW c \in Client, Lasting(c), Visit(c)
  PROVE  \E p \in todo[c] : p \in Path /\ Comes(c, p)
<1>1. phase[c] = "scan" BY DEF Visit
<1>2. PICK p \in todo[c] :
        LET i == lent[c][p]
            shared == TypeOf(p) # "dir" /\ \E q \in Path \ {p} : lent[c][q] = i
        IN IF i = None
           THEN /\ todo' = [todo EXCEPT ![c] = {}]
                /\ UNCHANGED <<tab, links, cur, cpc>>
           ELSE /\ todo' = [todo EXCEPT ![c] = @ \ {p}]
                /\ cur' = [cur EXCEPT ![c] = [path |-> p, type |-> TypeOf(p)]]
                /\ links' = [links EXCEPT ![c] =
                               IF shared THEN EarlierNames(c, i) ELSE {}]
                /\ tab' = [tab EXCEPT ![c] =
                             IF shared THEN @ \cup {<<i, p>>} ELSE @]
                /\ Goto(c, "visit")
  BY DEF Visit
<1>3. p \in Path /\ lent[c][p] # None BY <1>1 DEF Lasting, TypeOK, ClientOK
<1> QED BY <1>2, <1>3 DEF Comes

LEMMA VisitPlain ==
  ASSUME TypeOK, NEW c \in Client, Plain(c), Visit(c)
  PROVE  \E p \in todo[c] :
           /\ lent[c][p] # None /\ todo' = [todo EXCEPT ![c] = @ \ {p}]
           /\ cur' = [cur EXCEPT ![c] = [path |-> p, type |-> TypeOf(p)]]
           /\ UNCHANGED <<links, tab>> /\ Goto(c, "visit")
<1>1. PICK p \in todo[c] : p \in Path /\ Comes(c, p) BY VisitComes DEF Plain
<1>2. ~\E q \in Path \ {p} : lent[c][q] = lent[c][p]
  BY <1>1 DEF Plain, OneName, Comes
<1>3. links' = [links EXCEPT ![c] = {}] /\ tab' = [tab EXCEPT ![c] = @]
  BY <1>1, <1>2 DEF Comes
<1>4. UNCHANGED <<links, tab>> BY <1>3, HoldFunctions DEF Plain
<1> QED BY <1>1, <1>4 DEF Comes

LEMMA NextLasting ==
  ASSUME TypeOK, NEW c \in Client, Lasting(c), ClientStep(c)
  PROVE  Lasting(c)'
<1>1. CASE Visit(c)
  <2>1. PICK p \in todo[c] : p \in Path /\ Comes(c, p) BY <1>1, VisitComes
  <2>2. UNCHANGED <<phase, events, lent>> BY <1>1 DEF Visit, userVars
  <2>3. todo'[c] \subseteq todo[c] /\ cpc'[c] = "visit"
    BY <2>1, GotoOf, HoldFunctions DEF Comes
  <2> QED BY <2>2, <2>3, StaysLasting
<1>2. CASE StartWatch(c)
  <2>1. /\ UNCHANGED <<todo, cur, cpc, events, lent>>
        /\ phase[c] = "scan" /\ todo[c] = {} /\ phase'[c] = "watch"
    BY <1>2, PlainFunctions DEF StartWatch, userVars
  <2>2. Told(c)' BY <2>1 DEF Lasting, Told
  <2> QED BY <2>1, <2>2 DEF Lasting
<1>3. CASE \/ SendLink(c) \/ RecvLinkEcho(c) \/ SendMeta(c) \/ RecvMetaEcho(c)
           \/ RecvMetaRes(c) \/ SendFileHeader(c) \/ SendFileData(c)
  <2>1. UNCHANGED <<phase, todo, events, lent>>
    BY <1>3 DEF SendLink, RecvLinkEcho, SendMeta, RecvMetaEcho, RecvMetaRes,
                SendFileHeader, SendFileData, userVars
  <2>2. \E pc \in {"hlEcho", "visit", "metaEcho", "metaRes", "idle", "file", "data", "down"} :
           Goto(c, pc)
    BY <1>3 DEF SendLink, RecvLinkEcho, SendMeta, RecvMetaEcho, RecvMetaRes,
                SendFileHeader, SendFileData, OpenAgain, Close
  <2>3. cpc'[c] # "rmEcho" BY <2>2, GotoOf
  <2> QED BY <2>1, <2>3, StaysLasting
<1>4. CASE SyncEvent(c) \/ DeleteEvent(c)
  <2> DEFINE Event == [kind : EditKind, path : Path]
             n == Head(events[c]).path
  <2>1. /\ phase[c] # "scan" /\ events[c] # <<>> /\ events' = [events EXCEPT ![c] = Tail(@)]
        /\ UNCHANGED <<phase, todo, lent>>
    BY <1>4 DEF SyncEvent, DeleteEvent, userVars
  <2>2. events[c] \in Seq(Event) /\ events'[c] = Tail(events[c])
    BY <2>1, HoldFunctions DEF TypeOK, ClientOK
  <2> HIDE DEF Event
  <2>3. Told(c)'
    <3>1. ASSUME NEW p \in Path PROVE LastTells(events'[c], p, lent'[c][p] # None)
      <4>1. LastTells(events[c], p, lent[c][p] # None) BY DEF Lasting, Told
      <4>2. (lent[c][p] # None) \in BOOLEAN OBVIOUS
      <4>3. LastTells(Tail(events[c]), p, lent[c][p] # None)
        BY <2>1, <2>2, <4>1, <4>2, TellsTail
      <4> QED BY <2>1, <2>2, <4>3
    <3>2. ASSUME NEW i \in 1 .. Len(events'[c])
          PROVE  events'[c][i].kind = "delete" => events'[c][i].path \notin Dir
      <4>1. /\ Len(events'[c]) = Len(events[c]) - 1 /\ Len(events[c]) \in Nat
            /\ \A j \in 1 .. Len(events'[c]) : events'[c][j] = events[c][j + 1]
        BY <2>1, <2>2, HeadTailProperties, LenProperties
      <4>2. i + 1 \in 1 .. Len(events[c]) /\ events'[c][i] = events[c][i + 1]
        BY <4>1
      <4> QED BY <4>2 DEF Lasting, Told
    <3> QED BY <3>1, <3>2 DEF Told
  <2>4. cpc'[c] = "rmEcho" => cur'[c].path \notin Dir
    <3>1. CASE SyncEvent(c) BY <3>1, GotoOf DEF SyncEvent
    <3>2. CASE DeleteEvent(c)
      <4>1. Head(events[c]).kind = "delete" /\ cur'[c].path = n
        BY <3>2, ClientFunctions DEF DeleteEvent
      <4>2. 1 \in 1 .. Len(events[c]) /\ Head(events[c]) = events[c][1]
        BY <2>1, <2>2, LenProperties, EmptySeq, HeadTailProperties
      <4> QED BY <4>1, <4>2 DEF Lasting, Told
    <3> QED BY <1>4, <3>1, <3>2
  <2> QED BY <2>1, <2>3, <2>4 DEF Lasting
<1>5. CASE RecvRmEcho(c)
  <2>1. /\ UNCHANGED <<todo, cur, events, lent>> /\ cpc[c] = "rmEcho"
        /\ Goto(c, "idle") /\ phase' = [phase EXCEPT ![c] = AfterRm(c)]
    BY <1>5 DEF RecvRmEcho, userVars
  <2>2. phase'[c] = phase[c] BY <2>1, PlainFunctions DEF Lasting, AfterRm
  <2> QED BY <2>1, <2>2, GotoOf, StaysLasting
<1> QED BY <1>1, <1>2, <1>3, <1>4, <1>5 DEF ClientStep

LEMMA NextPlain ==
  ASSUME TypeOK, Owned, NEW c \in Client, Plain(c), ClientStep(c)
  PROVE  Plain(c)'
<1>0. /\ cur[c].path \in Path /\ cur[c].type \in Type /\ up[c] \in Seq(PlainUp)
      /\ Lasting(c)'
  BY WireType, NextLasting DEF Plain
<1>1. ~SendLink(c) /\ ~RecvLinkEcho(c) BY DEF SendLink, RecvLinkEcho, Plain
<1>2. UNCHANGED <<lent, tab, links>>
  BY <1>1, VisitPlain DEF ClientStep, Visit, StartWatch, SendMeta, RecvMetaEcho, RecvMetaRes,
     SendFileHeader, SendFileData, SyncEvent, DeleteEvent, RecvRmEcho, userVars
<1>3. OneName(c)' BY <1>2 DEF Plain, OneName
<1>4. up'[c] \in Seq(PlainUp)
  <2>1. CASE Visit(c) \/ StartWatch(c) \/ SyncEvent(c)
    BY <1>0, <2>1 DEF Visit, StartWatch, SyncEvent
  <2>2. CASE SendMeta(c)
    <3> DEFINE i == lent[c][cur[c].path]
    <3>1. i # None => ldat[c][i] \in Version BY <1>0, PlainFunctions DEF TypeOK, UserOK
    <3>2. UNCHANGED up \/ \E v \in Version \cup {None} : SendUp(c, MetaMsg(cur[c].type, v))
      BY <2>2, <3>1 DEF SendMeta
    <3> QED BY <1>0, <3>2, PlainSent, PlainMessages
  <2>3. CASE RecvMetaEcho(c) \/ DeleteEvent(c) \/ RecvRmEcho(c)
    <3>1. SendUp(c, PathMsg(cur[c].path)) \/ SendUp(c, RmMsg)
      BY <2>3 DEF RecvMetaEcho, DeleteEvent, RecvRmEcho
    <3> QED BY <1>0, <3>1, PlainSent, PlainMessages
  <2>4. CASE RecvMetaRes(c)
    <3>1. UNCHANGED up \/ SendUp(c, FileMsg("wild")) BY <2>4 DEF RecvMetaRes, OpenAgain, Close
    <3>2. FileMsg("wild") \in PlainUp BY PlainMessages
    <3>3. SendUp(c, FileMsg("wild")) => up'[c] \in Seq(PlainUp) BY <3>2, PlainSent
    <3> QED BY <1>0, <3>1, <3>3
  <2>5. CASE SendFileHeader(c)
    <3>1. SendUp(c, FileMsg(ReadBlock(c).size)) /\ cpc[c] = "file" BY <2>5 DEF SendFileHeader
    <3>2. ReadBlock(c).size \in Size BY <3>1, BlockRead DEF Piece
    <3> QED BY <3>1, <3>2, PlainSent, PlainMessages
  <2>6. CASE SendFileData(c)
    <3>1. SendUp(c, DataMsg(buf[c])) BY <2>6 DEF SendFileData
    <3>2. buf[c] \in Piece BY DEF TypeOK, ClientOK
    <3>3. DataMsg(buf[c]) \in PlainUp BY <3>2, PlainMessages
    <3> QED BY <3>1, <3>3, PlainSent
  <2> QED BY <1>1, <2>1, <2>2, <2>3, <2>4, <2>5, <2>6 DEF ClientStep
<1> QED BY <1>0, <1>2, <1>3, <1>4 DEF Plain

\* A change of the user: the name p has the inode i now, and the event says so.
Given(c, p, i) == lent'[c] = [lent[c] EXCEPT ![p] = i]

LEMMA EditLasting ==
  ASSUME TypeOK, ~EarlyEdits, NEW c \in Client, Lasting(c), NEW k \in EditKind,
         NEW e \in {"create", "write", "touch", "delete"}, NEW p \in Path, NEW i,
         Edit(c, k, e, p), Given(c, p, i),
         i # None <=> e # "delete", e = "delete" => p \notin Dir
  PROVE  /\ Lasting(c)' /\ phase[c] = "watch"
         /\ \E m \in [kind : EditKind, path : Path] :
              /\ m.kind = e /\ m.path = p
              /\ \/ events'[c] = Append(events[c], m)
                 \/ /\ events'[c] = events[c] /\ events[c] # <<>>
                    /\ events[c][Len(events[c])] = m
         /\ lent'[c][p] = i /\ \A q \in Path : q # p => lent'[c][q] = lent[c][q]
         /\ \A q \in Path : Clean(c, q)' => q # p /\ Clean(c, q)
<1> DEFINE Event == [kind : EditKind, path : Path]
           m == [kind |-> e, path |-> p]
           w == events[c]
           v == events'[c]
<1>1. phase[c] = "watch" /\ Report(c, e, p) /\ UNCHANGED <<phase, cur, cpc>>
  BY DEF Edit, Lasting
<1>2. UNCHANGED todo /\ Notify(c, m) BY <1>1 DEF Report
<1>3. w \in Seq(Event) BY DEF TypeOK, ClientOK
<1>4. m \in Event /\ m.path = p /\ m.kind = e BY DEF EditKind
<1>5. v = Append(w, m) \/ (v = w /\ w # <<>> /\ w[Len(w)] = m)
  BY <1>2, HoldFunctions DEF Notify
<1>6. \A q \in Path : LastTells(w, q, lent[c][q] # None)
  BY DEF Lasting, Told
<1>7. \A j \in 1 .. Len(w) : w[j].kind = "delete" => w[j].path \notin Dir
  BY DEF Lasting, Told
<1>9. \A q \in Path : /\ Clean(c, q) <=> q \notin todo[c] /\ \A j \in 1 .. Len(w) : w[j].path # q
                      /\ Clean(c, q)' <=> q \notin todo[c] /\ \A j \in 1 .. Len(v) : v[j].path # q
  BY <1>2 DEF Clean
<1>10. /\ lent'[c][p] = i /\ \A q \in Path : q # p => lent'[c][q] = lent[c][q]
  BY PlainFunctions DEF Given
<1>11. Told(c)' <=> /\ \A q \in Path : LastTells(v, q, lent'[c][q] # None)
                    /\ \A j \in 1 .. Len(v) : v[j].kind = "delete" => v[j].path \notin Dir
  BY DEF Told
<1> HIDE DEF Event, m, w, v
<1>12. v \in Seq(Event) BY <1>3, <1>4, <1>5, AppendSeq
<1>13. ASSUME NEW q \in Path PROVE LastTells(v, q, lent'[c][q] # None)
  <2> DEFINE t == lent'[c][q] # None
  <2>1. IF q = m.path THEN t <=> m.kind # "delete" ELSE LastTells(w, q, t)
    BY <1>4, <1>6, <1>10
  <2>2. t \in BOOLEAN OBVIOUS
  <2> HIDE DEF t
  <2>3. LastTells(v, q, t) BY <1>3, <1>4, <1>5, <1>12, <2>1, <2>2, TellsChange
  <2> QED BY <2>3 DEF t
<1>14. ASSUME NEW j \in 1 .. Len(v) PROVE v[j].kind = "delete" => v[j].path \notin Dir
  <2>1. Len(w) \in Nat BY <1>3, LenProperties
  <2>2. CASE v = w BY <1>7, <2>2
  <2>3. CASE v = Append(w, m)
    <3>1. /\ Len(v) = Len(w) + 1 /\ v[Len(w) + 1] = m
          /\ \A x \in 1 .. Len(w) : v[x] = w[x]
      BY <1>3, <1>4, <2>3, AppendProperties
    <3>2. CASE j = Len(w) + 1 BY <1>4, <3>1, <3>2
    <3>3. CASE j # Len(w) + 1
      <4>1. j \in 1 .. Len(w) BY <2>1, <3>1, <3>3
      <4> QED BY <1>7, <3>1, <4>1
    <3> QED BY <3>2, <3>3
  <2> QED BY <1>5, <2>2, <2>3
<1>15. Lasting(c)' BY <1>1, <1>2, <1>11, <1>13, <1>14 DEF Lasting
<1>16. ASSUME NEW q \in Path, Clean(c, q)' PROVE q # p /\ Clean(c, q)
  <2>1. \A j \in 1 .. Len(v) : v[j].path # q BY <1>9, <1>16
  <2>2. q # m.path /\ \A j \in 1 .. Len(w) : w[j].path # q
    BY <1>3, <1>4, <1>5, <1>12, <2>1, CleanAfter
  <2> QED BY <1>4, <1>9, <1>16, <2>2
<1> QED BY <1>1, <1>4, <1>5, <1>10, <1>15, <1>16 DEF Event, w, v

LEMMA EditPlain ==
  ASSUME TypeOK, SimpleSession, NEW c \in Client, Plain(c), NEW k \in EditKind,
         NEW e \in {"create", "write", "touch", "delete"}, NEW p \in Path, NEW i,
         Edit(c, k, e, p), Given(c, p, i),
         i # None <=> e # "delete", e = "delete" => p \notin Dir,
         i \in {None, lent[c][p]} \/ \A q \in Path : lent[c][q] # i
  PROVE  /\ Plain(c)'
         /\ \A q \in Path : Clean(c, q)' => q # p /\ Clean(c, q)
<1>0. Lasting(c) /\ ~EarlyEdits BY DEF Plain, SimpleSession
<1>1. /\ Lasting(c)' /\ \A q \in Path : Clean(c, q)' => q # p /\ Clean(c, q)
      /\ lent'[c][p] = i /\ \A q \in Path : q # p => lent'[c][q] = lent[c][q]
  BY <1>0, EditLasting
<1>2. UNCHANGED <<tab, links, up>> BY DEF Edit
<1>3. OneName(c)' BY <1>1 DEF Plain, OneName
<1> QED BY <1>1, <1>2, <1>3 DEF Plain

-----------------------------------------------------------------------------
(* What a step leaves alone is mirrored as before.                         *)

SamePlace(c) ==
  /\ cpc'[c] = cpc[c] /\ cur'[c] = cur[c] /\ rd'[c] = rd[c] /\ buf'[c] = buf[c]
  /\ up'[c] = up[c]
SameFile(c, p) ==
  /\ lent'[c][p] = lent[c][p]
  /\ lent[c][p] # None => ldat'[c][lent[c][p]] = ldat[c][lent[c][p]]
SameCopy(p) ==
  /\ hent'[p] = hent[p] /\ (hent[p] # None => hdat'[hent[p]] = hdat[hent[p]])
\* The server is with another client, before and after the step, or does nothing.
SameServer(c) ==
  \/ UNCHANGED <<spc, conn, req, path, diskVars>>
  \/ ServerAt(c) = "select" /\ ServerAt(c)' = "select"

LEMMA KeptOn ==
  ASSUME NEW c \in Client, NEW p, Kept(c, p), SameFile(c, p),
         Alone(c) => SameCopy(p)
  PROVE  Kept(c, p)'
BY DEF Alone, Kept, SameFile, SameCopy

LEMMA ObligedOn ==
  ASSUME NEW c \in Client, NEW p, Obliged(c, p), SamePlace(c), SameFile(c, p),
         Alone(c) => SameCopy(p), SameServer(c)
  PROVE  Obliged(c, p)'
<1>1. CASE ServerAt(c) = "select" /\ ServerAt(c)' = "select"
  <2>1. ~Takes(c, p) /\ ~Takes(c, p)' BY <1>1 DEF Takes
  <2>2. Asks(c, p)' <=> Asks(c, p) BY <1>1 DEF Asks, SamePlace
  <2>3. Removes(c, p)' <=> Removes(c, p) BY <1>1 DEF Removes, SamePlace
  <2>4. Asked(c, p) => Asked(c, p)'
    <3>1. lent[c][p] # None => Wanted(c, p)' = Wanted(c, p)
      BY DEF SameFile, Wanted
    <3> QED BY <1>1, <3>1 DEF Asked, SameFile, SamePlace
  <2>5. Kept(c, p) => Kept(c, p)' BY KeptOn
  <2>6. lent'[c][p] = lent[c][p] BY DEF SameFile
  <2> QED BY <2>1, <2>2, <2>3, <2>4, <2>5, <2>6 DEF Obliged
<1>2. CASE UNCHANGED <<spc, conn, req, path, diskVars>>
  <2>1. UNCHANGED <<spc, conn, req, path, hent, hdat>> BY <1>2 DEF diskVars
  <2>2. ServerAt(c)' = ServerAt(c) BY <2>1 DEF ServerAt
  <2>3. Asks(c, p)' <=> Asks(c, p) BY <2>2 DEF Asks, SamePlace
  <2>4. Removes(c, p)' <=> Removes(c, p) BY <2>2 DEF Removes, SamePlace
  <2>5. Takes(c, p)' <=> Takes(c, p) BY <2>1, <2>2 DEF Takes
  <2>6. Asked(c, p) => Asked(c, p)'
    <3>1. lent[c][p] # None => Wanted(c, p)' = Wanted(c, p)
      BY DEF SameFile, Wanted
    <3> QED BY <2>1, <2>2, <3>1 DEF Asked, SameFile, SamePlace
  <2>7. Kept(c, p) => Kept(c, p)' BY KeptOn
  <2>8. lent'[c][p] = lent[c][p] BY DEF SameFile
  <2>9. Takes(c, p) /\ Landing(c) => Landing(c)'
    <3> SUFFICES ASSUME path = p, Landing(c) PROVE Landing(c)'
      BY DEF Takes
    <3>1. Target' = Target /\ Got' = Got BY <2>1 DEF Target, Got
    <3>2. /\ lent'[c][path'] = lent[c][path] /\ lent[c][path] # None
          /\ ldat'[c][lent[c][path]] = ldat[c][lent[c][path]]
      BY <2>1 DEF Landing, SameFile
    <3> QED BY <3>1, <3>2 DEF Landing, SamePlace
  <2> QED BY <2>3, <2>4, <2>5, <2>6, <2>7, <2>8, <2>9 DEF Obliged
<1> QED BY <1>1, <1>2 DEF SameServer

LEMMA MirroringOn ==
  ASSUME NEW c \in Client, Mirroring(c), SamePlace(c), SameServer(c),
         \A p \in Own[c] : Clean(c, p)' =>
           Clean(c, p) /\ SameFile(c, p) /\ (Alone(c) => SameCopy(p))
  PROVE  Mirroring(c)'
<1>1. \A p \in Own[c] : Clean(c, p)' => Obliged(c, p)' BY ObligedOn DEF Mirroring
<1>2. AnswerFor(c)'
  <2>1. CASE ServerAt(c)' = "select" BY <2>1 DEF AnswerFor
  <2>2. CASE UNCHANGED <<spc, conn, req, path, diskVars>>
    BY <2>2 DEF Mirroring, AnswerFor, SamePlace, ServerAt
  <2> QED BY <2>1, <2>2 DEF SameServer
<1> QED BY <1>1, <1>2 DEF Mirroring

\* A client that the step is not about.
LEMMA OthersMirrored ==
  ASSUME NEW k \in Client, Mirroring(k), SamePlace(k), SameServer(k),
         todo'[k] = todo[k], events'[k] = events[k], lent'[k] = lent[k], ldat'[k] = ldat[k],
         \A p \in Own[k] : Alone(k) => SameCopy(p)
  PROVE  Mirroring(k)'
<1>1. \A p : Clean(k, p)' => Clean(k, p) BY DEF Clean
<1>2. \A p : SameFile(k, p) BY DEF SameFile
<1> QED BY <1>1, <1>2, MirroringOn

\* A client moves from one name to another: p is neither.
LEMMA NotAsked ==
  ASSUME NEW c \in Client, NEW p, Obliged(c, p), ~Asks(c, p), ~Asks(c, p)',
         Removes(c, p)' <=> Removes(c, p), UNCHANGED <<userVars, serverVars, diskVars>>,
         Takes(c, p) /\ Landing(c) => Landing(c)'
  PROVE  Obliged(c, p)'
<1>1. UNCHANGED <<lent, ldat, spc, conn, path, hent, hdat>>
  BY DEF userVars, serverVars, diskVars
<1>2. Takes(c, p)' <=> Takes(c, p) BY <1>1 DEF Takes, ServerAt
<1>3. Kept(c, p) => Kept(c, p)' BY <1>1 DEF Kept
<1> QED BY <1>1, <1>2, <1>3 DEF Obliged

LEMMA LandingOn ==
  ASSUME NEW c \in Client, Landing(c), UNCHANGED <<userVars, serverVars, diskVars>>,
         Brings(ldat[c][lent[c][path]], Got, up[c]) =>
           Brings(ldat[c][lent[c][path]], Got, up'[c]),
         cpc'[c] \notin {"file", "data"}
  PROVE  Landing(c)'
<1>1. UNCHANGED <<lent, ldat, spc, path, hent, hdat>>
  BY DEF userVars, serverVars, diskVars
<1>2. Target' = Target /\ Got' = Got BY <1>1 DEF Target, Got
<1> QED BY <1>1, <1>2 DEF Landing, Reading

\* What the server receives from a client that no fault has hit.
LEMMA Reception ==
  ASSUME TypeOK, InStep, Files, NEW c \in Client \ hurt, Lnk = {},
         ServerAt(c) \in {"lock", "file", "data"}
  PROVE  /\ c = conn /\ spc = ServerAt(c) /\ TypeOf(path) = "reg" /\ req.type = "reg"
         /\ path \in Path /\ hent[path] # None /\ FullBlocks(Target)
         /\ Target \in Seq(Piece) /\ Got \in Nat
         /\ Carries(Got, Target, up[c], cpc[c], cur[c].type, buf[c].idx)
<1>1. c = conn /\ spc = ServerAt(c) BY DEF ServerAt
<1>2. Transfer /\ Receiving BY <1>1 DEF Files, Receiving
<1>3. req.type \in {"reg", "lnk"} BY <1>1, Serving DEF Stepping, ServerState
<1>4. TypeOf(path) = req.type BY <1>1, <1>2 DEF Transfer
<1>5. req.type = "reg" BY <1>3, <1>4 DEF TypeOf
<1>6. path \in Path BY DEF TypeOK, ServerOK
<1>7. /\ hent[path] # None /\ FullBlocks(Target)
      /\ Carries(Got, Target, up[c], cpc[c], cur[c].type, buf[c].idx)
  BY <1>1, <1>2, <1>5 DEF Transfer
<1> QED BY <1>1, <1>4, <1>5, <1>6, <1>7, GotNat

\* A message that is not part of a file is added to those under way.
LEMMA RequestLanding ==
  ASSUME TypeOK, InStep, Files, NEW c \in Client \ hurt, Lnk = {}, NEW p,
         Takes(c, p), Landing(c), UNCHANGED <<userVars, serverVars, diskVars>>,
         NEW m \in Up, m.kind \notin {"file", "data"},
         up'[c] = up[c] \/ up'[c] = Append(up[c], m),
         cpc'[c] \notin {"file", "data"}
  PROVE  Landing(c)'
<1>1. Got \in Nat /\ up[c] \in Seq(Up) BY Reception, WireType DEF Takes
<1>2. Brings(ldat[c][lent[c][path]], Got, up[c]) =>
        Brings(ldat[c][lent[c][path]], Got, Append(up[c], m))
  BY <1>1, BringsSent
<1> QED BY <1>2, LandingOn

\* The head of a stream when a message is added.
LEMMA HeadSent ==
  ASSUME NEW w \in Seq(Up), NEW m \in Up
  PROVE  /\ Append(w, m) # <<>> /\ LastOf(Append(w, m)) = m
         /\ Head(Append(w, m)) = IF w = <<>> THEN m ELSE Head(w)
<1>1. Len(Append(w, m)) = Len(w) + 1 /\ Len(w) \in Nat BY LenProperties, AppendProperties
<1>2. Head(Append(w, m)) = IF w = <<>> THEN m ELSE Head(w) BY LenProperties
<1>3. Append(w, m) # <<>> BY <1>1
<1> QED BY <1>2, <1>3, LastAppended

-----------------------------------------------------------------------------
(* A client moves: what it does for the name it is at, and for the others. *)

LEMMA NextAsked ==
  ASSUME TypeOK, InStep, Files, Lnk = {}, NEW c \in Client \ hurt, Mirroring(c),
         cpc[c] = "idle", cpc'[c] = "visit", NEW n, cur'[c].path = n,
         Clean(c, n)' => lent[c][n] # None /\ cur'[c].type = TypeOf(n),
         \A p : p # n /\ Clean(c, p)' => Clean(c, p),
         up'[c] = up[c], UNCHANGED <<userVars, serverVars, diskVars>>
  PROVE  Mirroring(c)'
<1>1. ServerAt(c) # "path" /\ ServerAt(c)' = ServerAt(c) /\ lent' = lent
  BY InStepNow DEF Now, Stepping, Sent, Reads, ServerAt, serverVars, userVars
<1>2. ASSUME Clean(c, n)' PROVE Obliged(c, n)'
  BY <1>1, <1>2 DEF Obliged, Asks, Asked
<1>3. ASSUME NEW p \in Own[c], p # n, Clean(c, p)' PROVE Obliged(c, p)'
  <2>1. Obliged(c, p) BY <1>3 DEF Mirroring
  <2>2. ~Asks(c, p) /\ ~Asks(c, p)' BY <1>3 DEF Asks
  <2>3. Removes(c, p)' <=> Removes(c, p) BY <1>1 DEF Removes
  <2>4. RmMsg \in Up /\ RmMsg.kind \notin {"file", "data"} BY UpMessages DEF RmMsg
  <2>5. Takes(c, p) /\ Landing(c) => Landing(c)' BY <2>4, RequestLanding
  <2> QED BY <2>1, <2>2, <2>3, <2>5, NotAsked
<1>4. AnswerFor(c)' BY DEF AnswerFor
<1> QED BY <1>2, <1>3, <1>4 DEF Mirroring

LEMMA VisitMirrors ==
  ASSUME TypeOK, InStep, Files, Lnk = {}, NEW c \in Client \ hurt, Plain(c),
         Mirroring(c), Visit(c)
  PROVE  Mirroring(c)'
<1>1. PICK n \in todo[c] :
         /\ lent[c][n] # None /\ todo' = [todo EXCEPT ![c] = @ \ {n}]
         /\ cur' = [cur EXCEPT ![c] = [path |-> n, type |-> TypeOf(n)]]
         /\ Goto(c, "visit")
  BY VisitPlain
<1>2. /\ cpc[c] = "idle" /\ UNCHANGED <<events, up, userVars, serverVars, diskVars>>
  BY DEF Visit
<1>3. /\ cpc'[c] = "visit" /\ cur'[c] = [path |-> n, type |-> TypeOf(n)]
      /\ todo'[c] = todo[c] \ {n}
  BY <1>1, GotoOf, ClientFunctions, HoldFunctions
<1>4. \A p : p # n /\ Clean(c, p)' => Clean(c, p) BY <1>2, <1>3 DEF Clean
<1> QED BY <1>1, <1>2, <1>3, <1>4, NextAsked

\* The first change is taken from the queue.
LEMMA EventTaken ==
  ASSUME TypeOK, NEW c \in Client, Lasting(c), events[c] # <<>>,
         events' = [events EXCEPT ![c] = Tail(@)], UNCHANGED todo,
         NEW n, n = Head(events[c]).path
  PROVE  /\ \A p : p # n /\ Clean(c, p)' => Clean(c, p)
         /\ Clean(c, n)' => (lent[c][n] # None <=> Head(events[c]).kind # "delete")
<1> DEFINE Event == [kind : EditKind, path : Path]
           w == events[c]
<1>1. w \in Seq(Event) /\ events'[c] = Tail(w)
  BY HoldFunctions DEF TypeOK, ClientOK
<1>2. n \in Path BY EventType DEF TypeOK
<1> HIDE DEF Event
<1>3. /\ Len(Tail(w)) = Len(w) - 1 /\ Len(w) \in Nat \ {0} /\ Head(w) = w[1]
      /\ \A i \in 1 .. Len(Tail(w)) : Tail(w)[i] = w[i + 1]
  BY <1>1, HeadTailProperties, LenProperties, EmptySeq
<1>4. ASSUME NEW p, p # n, Clean(c, p)' PROVE Clean(c, p)
  <2> SUFFICES ASSUME NEW i \in 1 .. Len(w) PROVE w[i].path # p
    BY <1>4 DEF Clean
  <2>1. CASE i = 1 BY <1>3, <1>4, <2>1
  <2>2. CASE i # 1
    <3>1. i - 1 \in 1 .. Len(Tail(w)) /\ (i - 1) + 1 = i BY <1>3, <2>2
    <3>2. Tail(w)[i - 1] = w[i] BY <1>3, <3>1
    <3>3. \A j \in 1 .. Len(Tail(w)) : Tail(w)[j].path # p BY <1>1, <1>4 DEF Clean
    <3> QED BY <3>1, <3>2, <3>3
  <2> QED BY <2>1, <2>2
<1>5. ASSUME Clean(c, n)' PROVE lent[c][n] # None <=> Head(w).kind # "delete"
  <2>1. LastTells(w, n, lent[c][n] # None) BY <1>2 DEF Lasting, Told
  <2>2. \A i \in 1 .. Len(Tail(w)) : Tail(w)[i].path # n BY <1>1, <1>5 DEF Clean
  <2>3. (lent[c][n] # None) \in BOOLEAN OBVIOUS
  <2> QED BY <1>1, <2>1, <2>2, <2>3, TellsHead
<1> QED BY <1>4, <1>5

LEMMA SyncEventMirrors ==
  ASSUME TypeOK, InStep, Files, Lnk = {}, NEW c \in Client \ hurt, Plain(c),
         Mirroring(c), SyncEvent(c)
  PROVE  Mirroring(c)'
<1>0. PICK n : n = Head(events[c]).path OBVIOUS
<1>1. /\ cpc[c] = "idle" /\ events[c] # <<>> /\ Head(events[c]).kind # "delete"
      /\ events' = [events EXCEPT ![c] = Tail(@)]
      /\ cur' = [cur EXCEPT ![c] = [path |-> n, type |-> Stat(c, n)]]
      /\ Goto(c, "visit") /\ UNCHANGED <<todo, up, userVars, serverVars, diskVars>>
  BY <1>0 DEF SyncEvent
<1>2. cpc'[c] = "visit" /\ cur'[c] = [path |-> n, type |-> Stat(c, n)]
  BY <1>1, GotoOf, ClientFunctions
<1>3. /\ Clean(c, n)' => lent[c][n] # None
      /\ \A p : p # n /\ Clean(c, p)' => Clean(c, p)
  BY <1>0, <1>1, EventTaken DEF Plain
<1>4. Clean(c, n)' => lent[c][n] # None /\ cur'[c].type = TypeOf(n)
  BY <1>2, <1>3 DEF Stat
<1> QED BY <1>1, <1>2, <1>3, <1>4, NextAsked

LEMMA DeleteEventMirrors ==
  ASSUME TypeOK, InStep, Files, Lnk = {}, NEW c \in Client \ hurt, Plain(c),
         Mirroring(c), DeleteEvent(c)
  PROVE  Mirroring(c)'
<1>0. PICK n : n = Head(events[c]).path OBVIOUS
<1>1. /\ cpc[c] = "idle" /\ events[c] # <<>> /\ Head(events[c]).kind = "delete"
      /\ events' = [events EXCEPT ![c] = Tail(@)]
      /\ cur' = [cur EXCEPT ![c] = [path |-> n, type |-> "gone"]]
      /\ SendUp(c, RmMsg) /\ Goto(c, "rmEcho")
      /\ UNCHANGED <<todo, userVars, serverVars, diskVars>>
  BY <1>0 DEF DeleteEvent
<1>2. cpc'[c] = "rmEcho" /\ cur'[c].path = n /\ up'[c] = Append(up[c], RmMsg)
  BY <1>1, GotoOf, ClientFunctions, SendUpOf
<1>3. /\ Clean(c, n)' => lent[c][n] = None
      /\ \A p : p # n /\ Clean(c, p)' => Clean(c, p)
  BY <1>0, <1>1, EventTaken DEF Plain
<1>4. /\ up[c] = <<>> => ServerAt(c) = "select"
      /\ ServerAt(c)' = ServerAt(c) /\ lent' = lent
  BY <1>1, InStepNow DEF Now, Stepping, Sent, ServerAt, serverVars, userVars
<1>5. RmMsg \in Up /\ RmMsg.kind \notin {"file", "data"} BY UpMessages DEF RmMsg
<1>6. ASSUME Clean(c, n)' PROVE Obliged(c, n)'
  BY <1>2, <1>3, <1>4, <1>6 DEF Obliged, Asks, Removes
<1>7. ASSUME NEW p \in Own[c], p # n, Clean(c, p)' PROVE Obliged(c, p)'
  <2>1. Obliged(c, p) BY <1>3, <1>7 DEF Mirroring
  <2>2. ~Asks(c, p) /\ ~Asks(c, p)' BY <1>1, <1>2 DEF Asks
  <2>3. Removes(c, p)' <=> Removes(c, p)
    <3>1. up'[c] # <<>> /\ (up[c] # <<>> => Head(up'[c]) = Head(up[c]))
      BY <1>2, <1>5, WireType, HeadSent
    <3> QED BY <1>1, <1>2, <1>4, <1>7, <3>1 DEF Removes
  <2>4. Takes(c, p) /\ Landing(c) => Landing(c)' BY <1>1, <1>2, <1>5, RequestLanding
  <2> QED BY <1>1, <2>1, <2>2, <2>3, <2>4, NotAsked
<1>8. AnswerFor(c)' BY <1>2 DEF AnswerFor
<1> QED BY <1>6, <1>7, <1>8 DEF Mirroring

LEMMA SendMetaMirrors ==
  ASSUME TypeOK, InStep, Files, Lnk = {}, NEW c \in Client \ hurt', Plain(c),
         c \notin hurt, Mirroring(c), SendMeta(c)
  PROVE  Mirroring(c)'
<1> DEFINE n == cur[c].path
           i == lent[c][n]
           t == cur[c].type
           m == MetaMsg(t, IF t \in {"dir", "gone"} \/ i = None THEN None ELSE ldat[c][i])
<1>1. /\ cpc[c] = "visit" /\ UNCHANGED <<todo, cur, events, userVars, serverVars, diskVars>>
      /\ SendUp(c, m) /\ Goto(c, "metaEcho")
  BY DEF SendMeta, Close
<1>2. cpc'[c] = "metaEcho" /\ up'[c] = Append(up[c], m)
  BY <1>1, GotoOf, SendUpOf
<1>3. n \in Path /\ t \in Type BY WireType
<1>4. i # None => ldat[c][i] \in Version BY <1>3, PlainFunctions DEF TypeOK, UserOK
<1>5. m \in Up /\ m.kind = "meta"
  BY <1>3, <1>4, UpMessages DEF MetaMsg
<1>6. t = TypeOf(n) /\ i # None => m.ver = Wanted(c, n)
  BY DEF MetaMsg, Wanted, TypeOf
<1> HIDE DEF m
<1>7. /\ up[c] = <<>> => ServerAt(c) = "select" /\ ServerAt(c) # "path"
      /\ ServerAt(c) # "path"
      /\ ServerAt(c)' = ServerAt(c) /\ lent' = lent /\ ldat' = ldat
  BY <1>1, InStepNow DEF Now, Stepping, Sent, Reads, ServerAt, serverVars, userVars
<1>8. /\ up'[c] # <<>> /\ LastOf(up'[c]) = m
      /\ up[c] # <<>> => Head(up'[c]) = Head(up[c])
  BY <1>2, <1>5, WireType, HeadSent
<1>9. ASSUME NEW p \in Own[c], Clean(c, p)' PROVE Obliged(c, p)'
  <2>1. Obliged(c, p) BY <1>1, <1>9 DEF Mirroring, Clean
  <2>2. CASE p = n
    <3>1. Asks(c, p) /\ Asks(c, p)' BY <1>1, <1>2, <2>2 DEF Asks
    <3>2. Asked(c, p) BY <2>1, <3>1 DEF Obliged
    <3>3. i # None /\ t = TypeOf(n) BY <2>2, <3>2 DEF Asked
    <3>4. Wanted(c, p)' = Wanted(c, p) BY <1>7 DEF Wanted
    <3>5. Asked(c, p)' BY <1>1, <1>6, <1>7, <1>8, <2>2, <3>3, <3>4 DEF Asked
    <3> QED BY <3>1, <3>5 DEF Obliged
  <2>3. CASE p # n
    <3>1. ~Asks(c, p) /\ ~Asks(c, p)' BY <1>1, <2>3 DEF Asks
    <3>2. Removes(c, p)' <=> Removes(c, p) BY <1>1, <1>2, <1>7, <1>8 DEF Removes
    <3>3. Takes(c, p) /\ Landing(c) => Landing(c)'
      BY <1>1, <1>2, <1>5, RequestLanding
    <3> QED BY <1>1, <2>1, <3>1, <3>2, <3>3, NotAsked
  <2> QED BY <2>2, <2>3
<1>10. AnswerFor(c)' BY <1>2 DEF AnswerFor
<1> QED BY <1>9, <1>10 DEF Mirroring

LEMMA RecvMetaEchoMirrors ==
  ASSUME TypeOK, InStep, NEW c \in Client \ hurt, Mirroring(c), RecvMetaEcho(c)
  PROVE  Mirroring(c)'
<1>1. /\ cpc[c] = "metaEcho" /\ down[c] # <<>> /\ Goto(c, "metaRes")
      /\ UNCHANGED <<todo, cur, events, userVars, serverVars, diskVars>>
  BY DEF RecvMetaEcho, RecvDown
<1>2. cpc'[c] = "metaRes" BY <1>1, GotoOf
<1>3. /\ ServerAt(c) = "path" /\ ServerAt(c)' = "path" /\ UNCHANGED <<lent, ldat, req>>
  BY <1>1, InStepNow DEF Now, Stepping, Sent, ServerAt, serverVars, userVars
<1>4. ASSUME NEW p \in Own[c], Clean(c, p)' PROVE Obliged(c, p)'
  <2>1. Obliged(c, p) BY <1>1, <1>4 DEF Mirroring, Clean
  <2>2. CASE p = cur[c].path
    <3>1. Asks(c, p) /\ Asks(c, p)' BY <1>1, <1>2, <1>3, <2>2 DEF Asks
    <3>2. Asked(c, p) BY <2>1, <3>1 DEF Obliged
    <3>3. Asked(c, p)' BY <1>1, <1>2, <1>3, <3>2 DEF Asked, Wanted
    <3> QED BY <3>1, <3>3 DEF Obliged
  <2>3. CASE p # cur[c].path
    <3>1. ~Asks(c, p) /\ ~Asks(c, p)' BY <1>1, <2>3 DEF Asks
    <3>2. Removes(c, p)' <=> Removes(c, p) BY <1>1, <1>2, <1>3 DEF Removes
    <3>3. ~Takes(c, p) BY <1>3 DEF Takes
    <3> QED BY <1>1, <2>1, <3>1, <3>2, <3>3, NotAsked
  <2> QED BY <2>2, <2>3
<1>5. AnswerFor(c)' BY <1>3 DEF AnswerFor
<1> QED BY <1>4, <1>5 DEF Mirroring

LEMMA RecvMetaResMirrors ==
  ASSUME TypeOK, InStep, Files, Lnk = {}, NEW c \in Client \ hurt', c \notin hurt,
         Mirroring(c), RecvMetaRes(c)
  PROVE  Mirroring(c)'
<1>1. /\ cpc[c] = "metaRes" /\ down[c] # <<>>
      /\ UNCHANGED <<todo, cur, events, userVars, serverVars, diskVars>>
  BY DEF RecvMetaRes, RecvDown
<1>2. /\ up[c] = <<>> /\ ServerAt(c)' = ServerAt(c)
      /\ \/ ServerAt(c) = "file" /\ Head(down[c]).status = "MORE" /\ req.type = cur[c].type
         \/ ServerAt(c) = "select" /\ Head(down[c]).status = "OK"
  BY <1>1, InStepNow DEF Now, Stepping, Sent, ServerAt, serverVars
<1>3. ASSUME ServerAt(c) = "file"
      PROVE  /\ cpc'[c] = "file" /\ rd'[c] = lent[c][cur[c].path] /\ up'[c] = up[c]
             /\ cur[c].path = path
  <2>1. req.type = "reg" BY <1>3, Reception
  <2>2. OpenAgain(c, lent[c][cur[c].path]) /\ cur[c].type = "reg"
    BY <1>2, <1>3, <2>1 DEF RecvMetaRes
  <2>3. /\ rd' = [rd EXCEPT ![c] = lent[c][cur[c].path]] /\ Goto(c, "file")
        /\ UNCHANGED up
    BY <2>2 DEF OpenAgain, Close
  <2>4. rd'[c] = lent[c][cur[c].path] BY <2>3, PlainFunctions
  <2>5. cur[c].path = path BY <1>1, <1>3 DEF Mirroring, AnswerFor
  <2> QED BY <2>3, <2>4, <2>5, GotoOf
<1>4. ASSUME ServerAt(c) = "select" PROVE cpc'[c] = "idle" /\ up'[c] = up[c]
  BY <1>2, <1>4, GotoOf DEF RecvMetaRes
<1>5. cpc'[c] \in {"idle", "file"} /\ up'[c] = up[c] BY <1>2, <1>3, <1>4
<1>6. ASSUME NEW p \in Own[c], Clean(c, p)' PROVE Obliged(c, p)'
  <2>1. Obliged(c, p) BY <1>1, <1>6 DEF Mirroring, Clean
  <2>2. ~Asks(c, p) /\ ~Asks(c, p)' BY <1>1, <1>2, <1>5 DEF Asks
  <2>3. Removes(c, p)' <=> Removes(c, p) BY <1>1, <1>2, <1>5 DEF Removes
  <2>4. ASSUME Takes(c, p), Landing(c) PROVE Landing(c)'
    <3>1. ServerAt(c) = "file" BY <1>2, <2>4 DEF Takes
    <3>2. UNCHANGED <<lent, ldat, spc, path, hent, hdat>>
      BY <1>1 DEF userVars, serverVars, diskVars
    <3>3. Target' = Target /\ Got' = Got BY <3>2 DEF Target, Got
    <3> QED BY <1>3, <2>4, <3>1, <3>2, <3>3 DEF Landing, Reading
  <2> QED BY <1>1, <2>1, <2>2, <2>3, <2>4, NotAsked
<1>7. AnswerFor(c)' BY <1>5 DEF AnswerFor
<1> QED BY <1>6, <1>7 DEF Mirroring

LEMMA SendFileHeaderMirrors ==
  ASSUME TypeOK, InStep, Files, Lnk = {}, NEW c \in Client \ hurt, Mirroring(c),
         SendFileHeader(c)
  PROVE  Mirroring(c)'
<1> DEFINE x == ReadBlock(c)
           m == FileMsg(x.size)
<1>1. /\ cpc[c] = "file" /\ SendUp(c, m) /\ buf' = [buf EXCEPT ![c] = x]
      /\ \/ Goto(c, "idle")
         \/ Goto(c, "data") /\ UNCHANGED rd
      /\ UNCHANGED <<todo, cur, events, userVars, serverVars, diskVars>>
  BY DEF SendFileHeader
<1>2. x \in Piece BY <1>1, BlockRead
<1>3. m \in Up /\ m.kind = "file" /\ m.size = x.size
  BY <1>2, UpMessages DEF FileMsg, Piece
<1>4. cur[c].type # "lnk" => x = PieceOf(ldat[c][rd[c]], buf[c].idx + 1)
  BY DEF ReadBlock
<1> HIDE DEF x, m
<1>5. /\ up'[c] = Append(up[c], m) /\ buf'[c] = x /\ cpc'[c] \in {"idle", "data"}
      /\ cpc'[c] = "data" => rd'[c] = rd[c]
  BY <1>1, SendUpOf, GotoOf, ClientFunctions
<1>6. ServerAt(c)' = ServerAt(c) /\ (up[c] = <<>> => ServerAt(c) = "file")
  BY <1>1, InStepNow DEF Now, Stepping, Sent, ServerAt, serverVars
<1>7. up'[c] # <<>> /\ (up[c] # <<>> => Head(up'[c]) = Head(up[c]))
  BY <1>3, <1>5, WireType, HeadSent
<1>8. ASSUME NEW p \in Own[c], Clean(c, p)' PROVE Obliged(c, p)'
  <2>1. Obliged(c, p) BY <1>1, <1>8 DEF Mirroring, Clean
  <2>2. ~Asks(c, p) /\ ~Asks(c, p)' BY <1>1, <1>5 DEF Asks
  <2>3. Removes(c, p)' <=> Removes(c, p) BY <1>1, <1>5, <1>6, <1>7 DEF Removes
  <2>4. ASSUME Takes(c, p), Landing(c) PROVE Landing(c)'
    <3> DEFINE v == ldat[c][lent[c][path]]
    <3>1. UNCHANGED <<lent, ldat, spc, path, hent, hdat>>
      BY <1>1 DEF userVars, serverVars, diskVars
    <3>2. Target' = Target /\ Got' = Got BY <3>1 DEF Target, Got
    <3>3. Got \in Nat /\ Carries(Got, Target, up[c], cpc[c], cur[c].type, buf[c].idx)
      BY <2>4, Reception DEF Takes
    <3>4. cur[c].type = "reg" /\ 2 * buf[c].idx = Got + Len(up[c]) + 0
      BY <1>1, <3>3 DEF Carries
    <3>5. x = PieceOf(v, buf[c].idx + 1)
      BY <1>1, <1>4, <2>4, <3>4 DEF Landing, Reading
    <3>6. buf[c].idx \in Nat /\ Len(up[c]) \in Nat /\ up[c] \in Seq(Up)
      BY WireType, LenProperties DEF TypeOK, ClientOK, Piece
    <3>7. \A n \in Nat : 2 * n = Got + Len(up[c]) + 2 => n = buf[c].idx + 1
      <4>1. \A g, l, b, n \in Nat : 2 * b = g + l + 0 /\ 2 * n = g + l + 2 => n = b + 1
        OBVIOUS
      <4> QED BY <3>3, <3>4, <3>6, <4>1
    <3>8. Brings(v, Got, up[c]) BY <2>4 DEF Landing
    <3> HIDE DEF v
    <3>9. Brings(v, Got, up'[c])
      BY <1>3, <1>5, <3>3, <3>5, <3>6, <3>7, <3>8, BringsSent
    <3>10. x = PieceOf(v, x.idx) BY <3>5 DEF PieceOf
    <3> QED BY <1>1, <1>5, <2>4, <3>1, <3>2, <3>9, <3>10 DEF Landing, Reading, v
  <2> QED BY <1>1, <2>1, <2>2, <2>3, <2>4, NotAsked
<1>9. AnswerFor(c)' BY <1>5 DEF AnswerFor
<1> QED BY <1>8, <1>9 DEF Mirroring

LEMMA SendFileDataMirrors ==
  ASSUME TypeOK, InStep, Files, Lnk = {}, NEW c \in Client \ hurt, Mirroring(c),
         SendFileData(c)
  PROVE  Mirroring(c)'
<1> DEFINE m == DataMsg(buf[c])
<1>1. /\ cpc[c] = "data" /\ SendUp(c, m)
      /\ \/ Goto(c, "idle")
         \/ Goto(c, "file") /\ UNCHANGED rd
      /\ UNCHANGED <<todo, cur, buf, events, userVars, serverVars, diskVars>>
  BY DEF SendFileData
<1>2. buf[c] \in Piece BY DEF TypeOK, ClientOK
<1>3. m \in Up /\ m.kind = "data" /\ m.piece = buf[c]
  BY <1>2, UpMessages DEF DataMsg
<1> HIDE DEF m
<1>4. /\ up'[c] = Append(up[c], m) /\ cpc'[c] \in {"idle", "file"}
      /\ cpc'[c] = "file" => rd'[c] = rd[c]
  BY <1>1, SendUpOf, GotoOf
<1>5. ServerAt(c)' = ServerAt(c) /\ (up[c] = <<>> => ServerAt(c) = "data")
  BY <1>1, InStepNow DEF Now, Stepping, Sent, ServerAt, serverVars
<1>6. up'[c] # <<>> /\ (up[c] # <<>> => Head(up'[c]) = Head(up[c]))
  BY <1>3, <1>4, WireType, HeadSent
<1>7. ASSUME NEW p \in Own[c], Clean(c, p)' PROVE Obliged(c, p)'
  <2>1. Obliged(c, p) BY <1>1, <1>7 DEF Mirroring, Clean
  <2>2. ~Asks(c, p) /\ ~Asks(c, p)' BY <1>1, <1>4 DEF Asks
  <2>3. Removes(c, p)' <=> Removes(c, p) BY <1>1, <1>4, <1>5, <1>6 DEF Removes
  <2>4. ASSUME Takes(c, p), Landing(c) PROVE Landing(c)'
    <3> DEFINE v == ldat[c][lent[c][path]]
    <3>1. UNCHANGED <<lent, ldat, spc, path, hent, hdat>>
      BY <1>1 DEF userVars, serverVars, diskVars
    <3>2. Target' = Target /\ Got' = Got BY <3>1 DEF Target, Got
    <3>3. Got \in Nat BY <2>4, Reception DEF Takes
    <3>4. buf[c] = PieceOf(v, buf[c].idx) /\ Brings(v, Got, up[c])
      BY <1>1, <2>4 DEF Landing, Reading
    <3> HIDE DEF v
    <3>5. Brings(v, Got, up'[c])
      BY <1>3, <1>4, <3>3, <3>4, WireType, BringsSent
    <3> QED BY <1>1, <1>4, <2>4, <3>1, <3>2, <3>5 DEF Landing, Reading, v
  <2> QED BY <1>1, <2>1, <2>2, <2>3, <2>4, NotAsked
<1>8. AnswerFor(c)' BY <1>4 DEF AnswerFor
<1> QED BY <1>7, <1>8 DEF Mirroring

LEMMA RecvRmEchoMirrors ==
  ASSUME TypeOK, InStep, NEW c \in Client \ hurt, Mirroring(c), RecvRmEcho(c)
  PROVE  Mirroring(c)'
<1> DEFINE m == PathMsg(cur[c].path)
<1>1. /\ cpc[c] = "rmEcho" /\ down[c] # <<>> /\ SendUp(c, m) /\ Goto(c, "idle")
      /\ UNCHANGED <<todo, cur, events, userVars, serverVars, diskVars>>
  BY DEF RecvRmEcho, RecvDown
<1>2. m \in Up /\ m.path = cur[c].path BY WireType, UpMessages DEF PathMsg
<1> HIDE DEF m
<1>3. cpc'[c] = "idle" /\ up'[c] = Append(up[c], m) BY <1>1, GotoOf, SendUpOf
<1>4. up[c] = <<>> /\ ServerAt(c) = "rmPath" /\ ServerAt(c)' = "rmPath"
  BY <1>1, InStepNow DEF Now, Stepping, Sent, ServerAt, serverVars
<1>5. up'[c] # <<>> /\ Head(up'[c]) = m BY <1>2, <1>3, <1>4, WireType, HeadSent
<1>6. ASSUME NEW p \in Own[c], Clean(c, p)' PROVE Obliged(c, p)'
  <2>1. Obliged(c, p) BY <1>1, <1>6 DEF Mirroring, Clean
  <2>2. ~Asks(c, p) /\ ~Asks(c, p)' BY <1>1, <1>3 DEF Asks
  <2>3. Removes(c, p)' <=> Removes(c, p) BY <1>1, <1>2, <1>3, <1>4, <1>5 DEF Removes
  <2>4. ~Takes(c, p) BY <1>4 DEF Takes
  <2> QED BY <1>1, <2>1, <2>2, <2>3, <2>4, NotAsked
<1>7. AnswerFor(c)' BY <1>3 DEF AnswerFor
<1> QED BY <1>6, <1>7 DEF Mirroring

-----------------------------------------------------------------------------
(* The user, and the faults of a client.                                   *)

\* What the user changes of one home is nothing to another client.
LEMMA UserAlone ==
  ASSUME TypeOK, NEW c \in Client, User(c)
  PROVE  /\ UNCHANGED <<phase, tab, links, cur, cpc, rd, buf, up, serverVars, diskVars, hurt>>
         /\ \A k \in Client : k # c => UNCHANGED <<todo[k], events[k], lent[k], ldat[k]>>
<1>1. ASSUME NEW k \in EditKind, NEW e, NEW p, Edit(c, k, e, p)
      PROVE  /\ UNCHANGED <<phase, tab, links, cur, cpc, rd, buf, up, serverVars, diskVars, hurt>>
             /\ \A x \in Client : x # c => UNCHANGED <<todo[x], events[x]>>
  <2>1. /\ UNCHANGED <<phase, tab, links, cur, cpc, rd, buf, up, serverVars, diskVars, hurt>>
        /\ Report(c, e, p)
    BY <1>1 DEF Edit
  <2>2. /\ UNCHANGED todo \/ \E s : todo' = [todo EXCEPT ![c] = s]
        /\ UNCHANGED events \/ \E s : events' = [events EXCEPT ![c] = s]
    BY <2>1 DEF Report, Notify
  <2>3. \A x \in Client : x # c => todo'[x] = todo[x] /\ events'[x] = events[x]
    BY <2>2, HoldFunctions
  <2> QED BY <2>1, <2>3
<1>2. /\ \E k \in EditKind : \E e, p : Edit(c, k, e, p)
      /\ UNCHANGED lent \/ \E p, i : lent' = [lent EXCEPT ![c][p] = i]
      /\ UNCHANGED ldat \/ \E i, v : ldat' = [ldat EXCEPT ![c][i] = v]
  BY DEF User, Create, Write, Touch, Delete, Link
<1>3. \A x \in Client : x # c => lent'[x] = lent[x] /\ ldat'[x] = ldat[x]
  BY <1>2, HoldFunctions, PlainFunctions
<1> QED BY <1>1, <1>2, <1>3

LEMMA EditMirrors ==
  ASSUME TypeOK, SimpleSession, NEW c \in Client, Plain(c), User(c)
  PROVE  /\ Plain(c)' /\ (Mirroring(c) => Mirroring(c)')
         /\ \A p \in Path : Clean(c, p)' => Clean(c, p) /\ SameFile(c, p)
         /\ \A k \in Client : k # c => UNCHANGED <<todo[k], events[k], lent[k], ldat[k]>>
<1>1. /\ UNCHANGED <<cur, cpc, rd, buf, up, serverVars, diskVars>>
      /\ \A k \in Client : k # c => UNCHANGED <<todo[k], events[k], lent[k], ldat[k]>>
  BY UserAlone
<1>2. \E p \in Path :
        /\ Plain(c)' /\ \A q \in Path : Clean(c, q)' => q # p /\ Clean(c, q)
        /\ \A q \in Path : q # p => SameFile(c, q)
  <2>1. ASSUME NEW p \in Path, NEW i \in Inode, NEW v \in Version, Create(c, p, i, v)
        PROVE  /\ Plain(c)' /\ \A q \in Path : Clean(c, q)' => q # p /\ Clean(c, q)
               /\ \A q \in Path : q # p => SameFile(c, q)
    <3>1. /\ Edit(c, "create", "create", p) /\ i \notin Used(lent[c])
          /\ lent' = [lent EXCEPT ![c][p] = i] /\ ldat' = [ldat EXCEPT ![c][i] = v]
      BY <2>1 DEF Create, IsNext
    <3>2. /\ lent'[c] = [lent[c] EXCEPT ![p] = i] /\ ldat'[c] = [ldat[c] EXCEPT ![i] = v]
      BY <3>1, HoldFunctions, PlainFunctions
    <3>3. \A q \in Path : lent[c][q] # i BY <3>1, PlainFunctions DEF Used
    <3>4. i # None BY InodeAssumption
    <3>5. Plain(c)' /\ \A q \in Path : Clean(c, q)' => q # p /\ Clean(c, q)
      BY <3>1, <3>2, <3>3, <3>4, EditPlain DEF Given
    <3>6. \A q \in Path : q # p => SameFile(c, q)
      BY <3>2, <3>3, PlainFunctions DEF SameFile
    <3> QED BY <3>5, <3>6
  <2>2. ASSUME NEW p \in Path, NEW v \in Version, Write(c, p, v)
        PROVE  /\ Plain(c)' /\ \A q \in Path : Clean(c, q)' => q # p /\ Clean(c, q)
               /\ \A q \in Path : q # p => SameFile(c, q)
    <3>1. /\ Edit(c, "write", "write", p) /\ lent[c][p] # None
          /\ UNCHANGED lent /\ ldat' = [ldat EXCEPT ![c][lent[c][p]] = v]
      BY <2>2 DEF Write
    <3>2. /\ lent'[c] = [lent[c] EXCEPT ![p] = lent[c][p]]
          /\ ldat'[c] = [ldat[c] EXCEPT ![lent[c][p]] = v]
      BY <3>1, PlainFunctions
    <3>3. \A q \in Path : q # p => lent[c][q] # lent[c][p] BY <3>1 DEF Plain, OneName
    <3>5. Plain(c)' /\ \A q \in Path : Clean(c, q)' => q # p /\ Clean(c, q)
      BY <3>1, <3>2, EditPlain DEF Given
    <3>6. \A q \in Path : q # p => SameFile(c, q)
      BY <3>1, <3>2, <3>3, PlainFunctions DEF SameFile
    <3> QED BY <3>5, <3>6
  <2>3. ASSUME NEW p \in Path, Touch(c, p)
        PROVE  /\ Plain(c)' /\ \A q \in Path : Clean(c, q)' => q # p /\ Clean(c, q)
               /\ \A q \in Path : q # p => SameFile(c, q)
    <3>1. Edit(c, "touch", "touch", p) /\ lent[c][p] # None /\ UNCHANGED <<lent, ldat>>
      BY <2>3 DEF Touch
    <3>2. lent'[c] = [lent[c] EXCEPT ![p] = lent[c][p]] BY <3>1, PlainFunctions
    <3>5. Plain(c)' /\ \A q \in Path : Clean(c, q)' => q # p /\ Clean(c, q)
      BY <3>1, <3>2, EditPlain DEF Given
    <3> QED BY <3>1, <3>5 DEF SameFile
  <2>4. ASSUME NEW p \in Path, Delete(c, p)
        PROVE  /\ Plain(c)' /\ \A q \in Path : Clean(c, q)' => q # p /\ Clean(c, q)
               /\ \A q \in Path : q # p => SameFile(c, q)
    <3>1. p \notin Dir BY <2>4 DEF Delete, Edit, SimpleSession
    <3>2. /\ Edit(c, "delete", "delete", p) /\ UNCHANGED ldat
          /\ lent' = [lent EXCEPT ![c][p] = None]
      BY <2>4, <3>1 DEF Delete
    <3>3. lent'[c] = [lent[c] EXCEPT ![p] = None] BY <3>2, HoldFunctions, PlainFunctions
    <3>4. Plain(c)' /\ \A q \in Path : Clean(c, q)' => q # p /\ Clean(c, q)
      BY <3>1, <3>2, <3>3, EditPlain DEF Given
    <3>6. \A q \in Path : q # p => SameFile(c, q)
      BY <3>2, <3>3, PlainFunctions DEF SameFile
    <3> QED BY <3>4, <3>6
  <2>5. ~\E p, q \in Path : Link(c, p, q) BY DEF Link, Edit, SimpleSession
  <2> QED BY <2>1, <2>2, <2>3, <2>4, <2>5 DEF User
<1>3. Mirroring(c) => Mirroring(c)'
  <2>1. SamePlace(c) /\ SameServer(c) /\ \A q : SameCopy(q)
    BY <1>1 DEF SamePlace, SameServer, SameCopy, serverVars, diskVars
  <2>2. Own[c] \subseteq Path BY NamesAssumption
  <2> QED BY <1>2, <2>1, <2>2, MirroringOn
<1> QED BY <1>1, <1>2, <1>3

-----------------------------------------------------------------------------
(* The server moves: the client it serves.                                 *)

\* A file is as it was, and nothing is being done for p.
LEMMA NothingFor ==
  ASSUME NEW c \in Client, NEW p, Kept(c, p), SameFile(c, p), SameCopy(p),
         ~Asks(c, p)', ~Removes(c, p)', ~Takes(c, p)'
  PROVE  Obliged(c, p)'
BY KeptOn DEF Obliged

LEMMA ServeMetaMirrors ==
  ASSUME TypeOK, InStep, NEW c \in Client \ hurt, Mirroring(c), ServeMeta(c)
  PROVE  Mirroring(c)'
<1> DEFINE n == cur[c].path
<1>1. /\ spc = "select" /\ conn' = c /\ req' = Head(up[c])
      /\ up[c] # <<>> /\ Head(up[c]).kind = "meta" /\ up'[c] = Tail(up[c])
      /\ spc' = "path" \/ ~open[c]
      /\ UNCHANGED <<todo, cpc, cur, events, lent, ldat, hent, hdat>>
  BY ClientFunctions DEF ServeMeta, Serve, Recv, Answer, clientVars, userVars, diskVars
<1>2. open[c] /\ Now(c) BY InStepNow
<1>3. ServerAt(c) = "select" /\ ServerAt(c)' = "path" BY <1>1, <1>2 DEF ServerAt
<1>4. Tail(up[c]) = <<>> /\ LastOf(up[c]) = Head(up[c])
  BY <1>1, <1>2, WireType, Shortened DEF Now, Stepping, Follows
<1>5. cpc[c] = "metaEcho" BY <1>1, <1>2, <1>3, <1>4 DEF Now, Stepping, Sent
<1>6. ASSUME NEW p \in Own[c], Clean(c, p)' PROVE Obliged(c, p)'
  <2>1. Obliged(c, p) BY <1>1, <1>6 DEF Mirroring, Clean
  <2>2. CASE p = n
    <3>1. Asks(c, p) /\ Asks(c, p)' BY <1>1, <1>5, <2>2 DEF Asks
    <3>2. Asked(c, p) BY <2>1, <3>1 DEF Obliged
    <3>3. Asked(c, p)' BY <1>1, <1>4, <1>5, <3>2 DEF Asked, Wanted
    <3> QED BY <3>1, <3>3 DEF Obliged
  <2>3. CASE p # n
    <3>1. /\ ~Asks(c, p) /\ ~Removes(c, p) /\ ~Takes(c, p)
          /\ ~Asks(c, p)' /\ ~Removes(c, p)' /\ ~Takes(c, p)'
      BY <1>1, <1>3, <1>5, <2>3 DEF Asks, Removes, Takes
    <3>2. Kept(c, p) BY <2>1, <3>1 DEF Obliged
    <3> QED BY <1>1, <3>1, <3>2, NothingFor DEF SameFile, SameCopy
  <2> QED BY <2>2, <2>3
<1>7. AnswerFor(c)' BY <1>3 DEF AnswerFor
<1> QED BY <1>6, <1>7 DEF Mirroring

LEMMA ServeRmMirrors ==
  ASSUME TypeOK, InStep, NEW c \in Client \ hurt, Mirroring(c), ServeRm(c)
  PROVE  Mirroring(c)'
<1> DEFINE n == cur[c].path
<1>1. /\ spc = "select" /\ conn' = c
      /\ up[c] # <<>> /\ Head(up[c]).kind = "rm" /\ up'[c] = Tail(up[c])
      /\ spc' = "rmPath" \/ ~open[c]
      /\ UNCHANGED <<todo, cpc, cur, events, lent, ldat, hent, hdat>>
  BY ClientFunctions DEF ServeRm, Serve, Recv, Answer, clientVars, userVars, diskVars
<1>2. open[c] /\ Now(c) BY InStepNow
<1>3. ServerAt(c) = "select" /\ ServerAt(c)' = "rmPath" BY <1>1, <1>2 DEF ServerAt
<1>4. Tail(up[c]) = <<>> /\ LastOf(up[c]) = Head(up[c])
  BY <1>1, <1>2, WireType, Shortened DEF Now, Stepping, Follows
<1>5. cpc[c] = "rmEcho" BY <1>1, <1>2, <1>3, <1>4 DEF Now, Stepping, Sent
<1>6. ASSUME NEW p \in Own[c], Clean(c, p)' PROVE Obliged(c, p)'
  <2>1. Obliged(c, p) BY <1>1, <1>6 DEF Mirroring, Clean
  <2>2. ~Asks(c, p) /\ ~Asks(c, p)' BY <1>1, <1>5 DEF Asks
  <2>3. CASE p = n
    <3>1. Removes(c, p) /\ Removes(c, p)' BY <1>1, <1>5, <2>3 DEF Removes
    <3> QED BY <1>1, <2>1, <2>2, <3>1 DEF Obliged
  <2>4. CASE p # n
    <3>1. /\ ~Removes(c, p) /\ ~Takes(c, p) /\ ~Removes(c, p)' /\ ~Takes(c, p)'
      BY <1>1, <1>3, <1>4, <2>4 DEF Removes, Takes
    <3>2. Kept(c, p) BY <2>1, <2>2, <3>1 DEF Obliged
    <3> QED BY <1>1, <2>2, <3>1, <3>2, NothingFor DEF SameFile, SameCopy
  <2> QED BY <2>3, <2>4
<1>7. AnswerFor(c)' BY <1>3 DEF AnswerFor
<1> QED BY <1>6, <1>7 DEF Mirroring

LEMMA RecvPathMirrors ==
  ASSUME TypeOK, InStep, Owned, Files, OwnFiles, Lnk = {}, conn \notin hurt,
         Mirroring(conn), RecvPath
  PROVE  Mirroring(conn)'
<1>0. PICK c \in Client : c = conn BY Connection
<1>1. PICK n : n = Head(up[c]).path OBVIOUS
<1>2. /\ spc = "path" /\ Recv(conn, "path") /\ path' = n /\ conn' = conn
      /\ up[c] # <<>> /\ up'[c] = Tail(up[c])
      /\ UNCHANGED <<todo, cpc, cur, rd, buf, events, lent, ldat, req>>
  BY <1>0, <1>1, ClientFunctions DEF RecvPath, Recv, clientVars, userVars
<1>3. \/ /\ req.type = "dir" /\ spc' \in {"select", "dead"}
         /\ IF hent[n] = None THEN NewEntry(n, <<>>) ELSE UNCHANGED diskVars
      \/ /\ req.type = "gone" /\ spc' \in {"select", "dead"} /\ UNCHANGED diskVars
      \/ /\ req.type \in {"reg", "lnk"} /\ SameDigest(n) /\ spc' \in {"select", "dead"}
         /\ UNCHANGED diskVars
      \/ req.type = "lnk" /\ UNCHANGED diskVars /\ spc' \in {"file", "dead"}
      \/ req.type = "reg" /\ OpenToWrite(n) /\ spc' = "lock"
  BY <1>0, <1>1 DEF RecvPath, Answer
<1>4. n \in Path BY <1>0, <1>1, <1>2, HeadOf, NamesAssumption
<1>5. /\ ServerAt(c) = "path" /\ ServerAt(c)' = spc'
      /\ Stepping("path", req.type, size, up[c], down[c], cpc[c], cur[c].type, buf[c].size)
  BY <1>0, <1>2, Serving DEF ServerAt
<1>6. cpc[c] = "metaRes" BY <1>2, <1>5 DEF Stepping, Reads
<1>7. Tail(up[c]) = <<>> /\ req.type = cur[c].type
  BY <1>2, <1>5, <1>6 DEF Stepping, Sent
<1>8. n = cur[c].path
  <2>1. LastOf(up[c]) = Head(up[c])
    BY <1>2, <1>5, <1>7, WireType, Shortened DEF Stepping
  <2>2. LastOf(up[c]).path = cur[c].path
    BY <1>0, <1>2, <1>6 DEF Files, PathSent
  <2> QED BY <1>1, <2>1, <2>2
<1>9. /\ Alters(n) /\ spc' \in {"select", "dead", "lock", "file"}
  BY <1>3 DEF Alters, OpenToWrite
<1>10. \A p : ~Asks(c, p)' /\ ~Removes(c, p)'
  BY <1>2, <1>5, <1>6, <1>9 DEF Asks, Removes
<1>11. ASSUME NEW p \in Own[c], Clean(c, p)' PROVE Obliged(c, p)'
  <2>1. Obliged(c, p) /\ p \in Path
    BY <1>0, <1>2, <1>11, NamesAssumption DEF Mirroring, Clean
  <2>2. CASE p # n
    <3>1. ~Asks(c, p) /\ ~Removes(c, p) /\ ~Takes(c, p) /\ ~Takes(c, p)'
      BY <1>2, <1>5, <1>6, <1>8, <2>2 DEF Asks, Removes, Takes
    <3>2. Kept(c, p) BY <2>1, <3>1 DEF Obliged
    <3>3. SameCopy(p) /\ SameFile(c, p)
      BY <1>2, <1>4, <1>9, <2>1, <2>2, OthersKept DEF SameCopy, SameFile
    <3> QED BY <1>10, <3>1, <3>2, <3>3, NothingFor
  <2>3. CASE p = n
    <3>1. Asks(c, p) BY <1>5, <1>6, <1>8, <2>3 DEF Asks
    <3>2. /\ lent[c][p] # None /\ req.type = TypeOf(p) /\ req.ver = Wanted(c, p)
      BY <1>5, <1>7, <2>1, <3>1 DEF Obliged, Asked
    <3>3. CASE req.type = "dir"
      <4>1. /\ spc' \in {"select", "dead"}
            /\ IF hent[p] = None THEN NewEntry(p, <<>>) ELSE UNCHANGED diskVars
        BY <1>3, <2>3, <3>3
      <4>2. hent'[p] # None BY <2>1, <4>1, EntryMade DEF diskVars
      <4>3. Kept(c, p)' BY <1>2, <3>2, <3>3, <4>2 DEF Kept
      <4>4. ~Takes(c, p)' BY <1>5, <4>1 DEF Takes
      <4> QED BY <1>10, <4>3, <4>4 DEF Obliged
    <3>4. CASE req.type = "reg" /\ SameDigest(n) /\ UNCHANGED diskVars
               /\ spc' \in {"select", "dead"}
      <4>1. lent[c][p] \in Inode BY <2>1, <3>2, PlainFunctions
      <4>2. req.ver = ldat[c][lent[c][p]] /\ req.ver \in Version
        BY <3>2, <3>4, <4>1 DEF Wanted, TypeOK, UserOK
      <4>3. hent[p] # None /\ hdat[hent[p]] = Content(req.ver)
        BY <2>3, <3>4, <4>2, DataAssumption DEF SameDigest
      <4>4. Kept(c, p)' BY <1>2, <3>2, <3>4, <4>2, <4>3 DEF Kept, diskVars
      <4>5. ~Takes(c, p)' BY <1>5, <3>4 DEF Takes
      <4> QED BY <1>10, <4>4, <4>5 DEF Obliged
    <3>5. CASE req.type = "reg" /\ OpenToWrite(n) /\ spc' = "lock"
      <4>1. hdat'[hent'[n]] = <<>>
        <5>1. CASE NewEntry(n, <<>>) BY <1>4, <5>1, EntryMade
        <5>2. CASE /\ hent[n] # None /\ hdat' = [hdat EXCEPT ![hent[n]] = <<>>]
                   /\ UNCHANGED hent
          BY <1>4, <5>2, Entries
        <5> QED BY <3>5, <5>1, <5>2 DEF OpenToWrite
      <4>2. Target' = <<>> /\ up'[c] = <<>> BY <1>2, <1>7, <4>1 DEF Target
      <4>5. \A v, g : BlocksOf(v, <<>>) /\ Brings(v, g, <<>>) BY DEF BlocksOf, Brings
      <4>6. lent'[c][path'] # None /\ cpc'[c] = "metaRes" BY <1>2, <1>6, <2>3, <3>2
      <4>3. Landing(c)' BY <4>2, <4>5, <4>6 DEF Landing, Reading
      <4>4. Takes(c, p)' BY <1>2, <1>5, <2>3, <3>5 DEF Takes
      <4> QED BY <1>10, <4>3, <4>4 DEF Obliged
    <3>6. req.type \in {"dir", "reg"} BY <3>2 DEF TypeOf
    <3> QED BY <1>3, <3>3, <3>4, <3>5, <3>6
  <2> QED BY <2>2, <2>3
<1>12. AnswerFor(c)' BY <1>2, <1>8 DEF AnswerFor
<1> QED BY <1>0, <1>2, <1>11, <1>12 DEF Mirroring

LEMMA LockFileMirrors ==
  ASSUME TypeOK, InStep, conn \notin hurt, Mirroring(conn), LockFile
  PROVE  Mirroring(conn)'
<1>0. PICK c \in Client : c = conn BY Connection
<1>1. /\ spc = "lock" /\ conn' = conn /\ (spc' = "file" \/ ~open[c])
      /\ UNCHANGED <<todo, cpc, cur, rd, buf, events, lent, ldat, up, req, path, hent, hdat>>
  BY <1>0 DEF LockFile, Answer, clientVars, userVars, diskVars
<1>2. /\ open[c] /\ ServerAt(c) = "lock" /\ cpc[c] = "metaRes"
  BY <1>0, <1>1, Serving DEF ServerAt, Stepping, Sent, Reads
<1>3. spc' = "file" /\ ServerAt(c)' = "file" BY <1>0, <1>1, <1>2 DEF ServerAt
<1>4. Target' = Target /\ Got' = Got BY <1>1, <1>3 DEF Target, Got
<1>5. ASSUME NEW p \in Own[c], Clean(c, p)' PROVE Obliged(c, p)'
  <2>1. Obliged(c, p) BY <1>0, <1>1, <1>5 DEF Mirroring, Clean
  <2>2. ~Asks(c, p) /\ ~Asks(c, p)' BY <1>1, <1>2, <1>3 DEF Asks
  <2>3. ~Removes(c, p) /\ ~Removes(c, p)' BY <1>1, <1>2, <1>3 DEF Removes
  <2>4. Takes(c, p)' <=> Takes(c, p) BY <1>1, <1>2, <1>3 DEF Takes
  <2>5. Landing(c) => Landing(c)' BY <1>1, <1>4 DEF Landing
  <2>6. Kept(c, p) => Kept(c, p)' BY <1>1 DEF Kept
  <2> QED BY <2>1, <2>2, <2>3, <2>4, <2>5, <2>6 DEF Obliged
<1>6. AnswerFor(c)' BY <1>0, <1>1, <1>2 DEF Mirroring, AnswerFor
<1> QED BY <1>0, <1>1, <1>5, <1>6 DEF Mirroring

\* A message is read from a client that does not wait for the answer to a request
\* about a file: what the client does for its own part is as before.
LEMMA ReadMirrors ==
  ASSUME TypeOK, InStep, NEW c \in Client \ hurt, Mirroring(c), cpc[c] # "metaRes",
         up[c] # <<>>, up'[c] = Tail(up[c]), ServerAt(c)' # "path",
         UNCHANGED <<todo, cpc, cur, events, lent, ldat>>,
         \A p \in Own[c] : Obliged(c, p) /\ ~Asks(c, p) /\ ~Asks(c, p)'
           /\ ~(cpc[c] = "rmEcho" /\ cur[c].path = p) => Obliged(c, p)'
  PROVE  Mirroring(c)'
<1>1. Chain(up[c]) BY InStepNow DEF Now, Stepping
<1>2. Tail(up[c]) # <<>> => LastOf(Tail(up[c])) = LastOf(up[c])
  BY <1>1, WireType, Shortened
<1>3. ASSUME NEW p \in Own[c], Clean(c, p)' PROVE Obliged(c, p)'
  <2>1. Obliged(c, p) BY <1>3 DEF Mirroring, Clean
  <2>2. Asks(c, p)' <=> Asks(c, p) BY DEF Asks
  <2>3. CASE Asks(c, p)
    <3>1. Asked(c, p) BY <2>1, <2>3 DEF Obliged
    <3>2. Asked(c, p)' BY <1>2, <3>1 DEF Asked, Wanted
    <3> QED BY <2>2, <2>3, <3>2 DEF Obliged
  <2>4. CASE ~Asks(c, p) /\ cpc[c] = "rmEcho" /\ cur[c].path = p
    <3>1. Removes(c, p) /\ Removes(c, p)' BY <2>4 DEF Removes
    <3> QED BY <2>1, <2>2, <2>4, <3>1 DEF Obliged
  <2>5. CASE ~Asks(c, p) /\ ~(cpc[c] = "rmEcho" /\ cur[c].path = p)
    BY <2>1, <2>2, <2>5
  <2> QED BY <2>3, <2>4, <2>5
<1>4. AnswerFor(c)' BY DEF AnswerFor
<1> QED BY <1>3, <1>4 DEF Mirroring

LEMMA RecvRmPathMirrors ==
  ASSUME TypeOK, InStep, conn \notin hurt, Mirroring(conn), RecvRmPath
  PROVE  Mirroring(conn)'
<1>0. PICK c \in Client : c = conn BY Connection
<1>1. PICK n : n = Head(up[c]).path OBVIOUS
<1>2. /\ spc = "rmPath" /\ spc' = "select" /\ conn' = conn
      /\ up[c] # <<>> /\ up'[c] = Tail(up[c])
      /\ UNCHANGED <<todo, cpc, cur, events, lent, ldat, hdat>>
      /\ hent' = [hent EXCEPT ![n] = None]
  BY <1>0, <1>1, ClientFunctions DEF RecvRmPath, Recv, clientVars, userVars
<1>3. ServerAt(c) = "rmPath" /\ ServerAt(c)' = "select" BY <1>0, <1>2 DEF ServerAt
<1>4. cpc[c] # "metaRes"
  BY <1>0, <1>2, Serving DEF Stepping, Sent, Reads
<1>5. ASSUME NEW p \in Own[c], Obliged(c, p), ~Asks(c, p), ~Asks(c, p)',
             ~(cpc[c] = "rmEcho" /\ cur[c].path = p)
      PROVE  Obliged(c, p)'
  <2>0. p \in Path BY NamesAssumption
  <2>1. ~Takes(c, p) /\ ~Takes(c, p)' /\ ~Removes(c, p)'
    BY <1>2, <1>3, <1>5 DEF Takes, Removes
  <2>2. CASE p = n
    <3>1. Removes(c, p) BY <1>1, <1>2, <1>3, <2>2 DEF Removes
    <3>2. lent[c][p] = None BY <1>5, <3>1 DEF Obliged
    <3>3. hent'[p] = None BY <1>2, <2>0, <2>2, Entries
    <3>4. Kept(c, p)' BY <1>2, <3>2, <3>3 DEF Kept
    <3> QED BY <1>5, <2>1, <3>4 DEF Obliged
  <2>3. CASE p # n
    <3>1. ~Removes(c, p) BY <1>1, <1>5, <2>3 DEF Removes
    <3>2. Kept(c, p) BY <1>5, <2>1, <3>1 DEF Obliged
    <3>3. SameCopy(p) /\ SameFile(c, p)
      BY <1>2, <2>0, <2>3, Entries DEF SameCopy, SameFile
    <3> QED BY <1>5, <2>1, <3>2, <3>3, NothingFor
  <2> QED BY <2>2, <2>3
<1>6. Mirroring(c)' BY <1>0, <1>2, <1>3, <1>4, <1>5, ReadMirrors
<1> QED BY <1>0, <1>2, <1>6

\* A transfer goes on, or the server has what the client has.
Finishes(c, p) == Clean(c, p) /\ ~Asks(c, p) /\ ~Removes(c, p) /\ Takes(c, p) =>
                    Takes(c, p)' \/ HasCopy(c, p)'

LEMMA RecvFileHeaderMirrors ==
  ASSUME TypeOK, InStep, Files, Lnk = {}, conn \notin hurt, Mirroring(conn),
         RecvFileHeader
  PROVE  /\ Mirroring(conn)'
         /\ \A p \in Own[conn] : Finishes(conn, p)
<1>0. PICK c \in Client : c = conn BY Connection
<1> DEFINE s == Head(up[c]).size
<1>1. /\ spc = "file" /\ UNCHANGED <<conn, path, hent, hdat>>
      /\ up[c] # <<>> /\ up'[c] = Tail(up[c]) /\ Head(up[c]).kind = "file"
      /\ s # "wild" => spc' = IF s = "zero" THEN "select" ELSE "data"
      /\ UNCHANGED <<todo, cpc, cur, rd, buf, events, lent, ldat>>
  BY <1>0, ClientFunctions DEF RecvFileHeader, Recv, clientVars, userVars, diskVars
<1>2. /\ ServerAt(c) = "file"
      /\ Stepping("file", req.type, size, up[c], down[c], cpc[c], cur[c].type, buf[c].size)
  BY <1>0, <1>1, Serving DEF ServerAt
<1>3. s # "wild" /\ cpc[c] # "metaRes" BY <1>1, <1>2 DEF Stepping, Reads, Sent
<1>4. /\ TypeOf(path) = "reg" /\ path \in Path /\ hent[path] # None
      /\ FullBlocks(Target) /\ Target \in Seq(Piece) /\ Got \in Nat
  BY <1>0, <1>2, Reception
<1>5. Len(Target) \in Nat /\ Got = 2 * Len(Target) /\ Target' = Target
  <2>1. Target' = Target BY <1>1 DEF Target
  <2>2. Len(Target) \in Nat BY <1>4, LenProperties
  <2> HIDE DEF Target
  <2> QED BY <1>1, <2>1, <2>2 DEF Got
<1>6. ServerAt(c)' = spc' /\ spc' \in {"select", "data"}
  BY <1>0, <1>1, <1>3 DEF ServerAt
<1>7. ASSUME NEW p \in Own[c], Obliged(c, p), ~Asks(c, p), ~Asks(c, p)',
             ~(cpc[c] = "rmEcho" /\ cur[c].path = p)
      PROVE  Obliged(c, p)' /\ (Takes(c, p) => Takes(c, p)' \/ HasCopy(c, p)')
  <2>1. ~Removes(c, p) /\ ~Removes(c, p)' BY <1>1, <1>2, <1>6, <1>7 DEF Removes
  <2>2. CASE p # path
    <3>1. ~Takes(c, p) /\ ~Takes(c, p)' BY <1>1, <2>2 DEF Takes
    <3>2. Kept(c, p) BY <1>7, <2>1, <3>1 DEF Obliged
    <3>3. SameCopy(p) /\ SameFile(c, p) BY <1>1 DEF SameCopy, SameFile
    <3> QED BY <1>7, <2>1, <3>1, <3>2, <3>3, NothingFor
  <2>3. CASE p = path
    <3> DEFINE i == lent[c][path]  v == ldat[c][i]
    <3>1. Landing(c) BY <1>2, <1>7, <2>1, <2>3 DEF Takes, Obliged
    <3>2. /\ i # None /\ BlocksOf(v, Target) /\ Brings(v, Got, up[c])
          /\ Reading(v, i, cpc[c], rd[c], buf[c])
      BY <3>1 DEF Landing
    <3>3. v \in Version BY <1>4, <3>2, PlainFunctions DEF TypeOK, UserOK
    <3> HIDE DEF v
    <3>4. /\ Brings(v, Got + 1, Tail(up[c]))
          /\ \A n \in Nat : 2 * n = Got + 2 => s = PieceOf(v, n).size
      BY <1>1, <1>4, <3>2, WireType, BringsRead
    <3>5. s = PieceOf(v, Len(Target) + 1).size
      <4>1. Len(Target) + 1 \in Nat /\ 2 * (Len(Target) + 1) = Got + 2
        BY <1>5
      <4> QED BY <3>4, <4>1
    <3>6. CASE s = "zero"
      <4>1. Target = Content(v) BY <1>4, <3>2, <3>3, <3>5, <3>6, AllReceived
      <4>2. Kept(c, p)' /\ HasCopy(c, p)'
        BY <1>1, <1>4, <2>3, <3>2, <4>1 DEF Kept, HasCopy, Target, v
      <4>3. ~Takes(c, p)' BY <1>1, <1>6, <3>6 DEF Takes
      <4> QED BY <1>7, <2>1, <4>2, <4>3 DEF Obliged
    <3>7. CASE s # "zero"
      <4>1. spc' = "data" BY <1>1, <1>3, <3>7
      <4>2. Got' = Got + 1 BY <1>5, <4>1 DEF Got
      <4>3. Landing(c)'
        BY <1>1, <1>5, <3>2, <3>4, <4>2 DEF Landing, v
      <4>4. Takes(c, p)' BY <1>1, <1>6, <2>3, <4>1 DEF Takes
      <4> QED BY <1>7, <2>1, <4>3, <4>4 DEF Obliged
    <3> QED BY <3>6, <3>7
  <2> QED BY <2>2, <2>3
<1>8. Mirroring(c)' BY <1>0, <1>1, <1>3, <1>6, <1>7, ReadMirrors
<1>9. ASSUME NEW p \in Own[c] PROVE Finishes(c, p)
  BY <1>0, <1>1, <1>2, <1>6, <1>7 DEF Finishes, Mirroring, Asks, Removes
<1> QED BY <1>0, <1>1, <1>8, <1>9

LEMMA RecvDataMirrors ==
  ASSUME TypeOK, InStep, Files, OwnFiles, Lnk = {}, conn \notin hurt, Mirroring(conn),
         RecvData
  PROVE  /\ Mirroring(conn)'
         /\ \A p \in Own[conn] : Finishes(conn, p)
<1>0. PICK c \in Client : c = conn BY Connection
<1> DEFINE x == Head(up[c]).piece
<1>1. /\ spc = "data" /\ UNCHANGED <<conn, path>>
      /\ up[c] # <<>> /\ up'[c] = Tail(up[c]) /\ Head(up[c]).kind = "data"
      /\ UNCHANGED <<todo, cpc, cur, rd, buf, events, lent, ldat>>
      /\ req.type = "reg" =>
           WriteFile(x) /\ spc' = IF size = "full" THEN "file" ELSE "select"
  BY <1>0, ClientFunctions DEF RecvData, Recv, AfterData, clientVars, userVars
<1>2. /\ ServerAt(c) = "data"
      /\ Stepping("data", req.type, size, up[c], down[c], cpc[c], cur[c].type, buf[c].size)
  BY <1>0, <1>1, Serving DEF ServerAt
<1>3. cpc[c] # "metaRes" /\ x.size = size /\ size \in {"full", "part"}
  BY <1>1, <1>2 DEF Stepping, Reads, Sent, ServerState
<1>4. /\ TypeOf(path) = "reg" /\ req.type = "reg" /\ path \in Path /\ hent[path] # None
      /\ FullBlocks(Target) /\ Target \in Seq(Piece) /\ Got \in Nat
      /\ Numbered(Got, up[c])
  BY <1>0, <1>2, Reception DEF Carries
<1>5. /\ WriteFile(x) /\ spc' = IF size = "full" THEN "file" ELSE "select"
      /\ Len(Target) \in Nat /\ Got = 2 * Len(Target) + 1 /\ hent[path] \in Inode
  <2>1. Len(Target) \in Nat BY <1>4, LenProperties
  <2> HIDE DEF Target
  <2> QED BY <1>1, <1>4, <2>1, Entries DEF Got
<1>6. ServerAt(c)' = spc' /\ spc' \in {"select", "file"} BY <1>0, <1>1, <1>5 DEF ServerAt
<1>7. x \in Piece /\ x.idx = Len(Target) + 1
  <2>1. Head(up[c]) \in Up BY <1>1, WireType, TailSeq
  <2>2. x \in Piece /\ x.idx \in Nat BY <1>1, <2>1, UpFields DEF Piece
  <2>3. 2 * x.idx = Got + 1 BY <1>1, <1>4, WireType, NumberRead
  <2> HIDE DEF x
  <2>4. \A n, j \in Nat : 2 * j = (2 * n + 1) + 1 => j = n + 1 OBVIOUS
  <2> QED BY <1>5, <2>2, <2>3, <2>4
<1>8. /\ hent' = hent /\ Target' = Append(Target, x)
      /\ \A q \in Path : q # path =>
           /\ hent'[q] = hent[q]
           /\ hent[q] # None => hdat'[hent[q]] = hdat[hent[q]]
  <2>1. hent' = hent /\ Target' = Append(Target, x)
    BY <1>1, <1>5, Entries DEF WriteFile, Target
  <2>2. Alters(path) BY <1>5 DEF Alters, WriteFile
  <2> QED BY <1>4, <2>1, <2>2, OthersKept
<1>9. ASSUME NEW p \in Own[c], Obliged(c, p), ~Asks(c, p), ~Asks(c, p)',
             ~(cpc[c] = "rmEcho" /\ cur[c].path = p)
      PROVE  Obliged(c, p)' /\ (Takes(c, p) => Takes(c, p)' \/ HasCopy(c, p)')
  <2>0. p \in Path BY NamesAssumption
  <2>1. ~Removes(c, p) /\ ~Removes(c, p)' BY <1>1, <1>2, <1>6, <1>9 DEF Removes
  <2>2. CASE p # path
    <3>1. ~Takes(c, p) /\ ~Takes(c, p)' BY <1>1, <2>2 DEF Takes
    <3>2. Kept(c, p) BY <1>9, <2>1, <3>1 DEF Obliged
    <3>3. SameCopy(p) /\ SameFile(c, p) BY <1>1, <1>8, <2>0, <2>2 DEF SameCopy, SameFile
    <3> QED BY <1>9, <2>1, <3>1, <3>2, <3>3, NothingFor
  <2>3. CASE p = path
    <3> DEFINE i == lent[c][path]  v == ldat[c][i]
    <3>1. Landing(c) BY <1>2, <1>9, <2>1, <2>3 DEF Takes, Obliged
    <3>2. /\ i # None /\ BlocksOf(v, Target) /\ Brings(v, Got, up[c])
          /\ Reading(v, i, cpc[c], rd[c], buf[c])
      BY <3>1 DEF Landing
    <3>3. v \in Version BY <1>4, <3>2, PlainFunctions DEF TypeOK, UserOK
    <3> HIDE DEF v
    <3>4. Brings(v, Got + 1, Tail(up[c])) /\ x = PieceOf(v, x.idx)
      BY <1>1, <1>4, <3>2, WireType, BringsRead
    <3>5. x = PieceOf(v, Len(Target) + 1) BY <1>7, <3>4
    <3> HIDE DEF x
    <3>6. CASE size = "part"
      <4>1. Target' = Content(v)
        BY <1>3, <1>4, <1>7, <1>8, <3>2, <3>3, <3>5, <3>6, LastReceived
      <4>2. Kept(c, p)' /\ HasCopy(c, p)'
        BY <1>1, <1>4, <1>8, <2>3, <3>2, <4>1 DEF Kept, HasCopy, Target, v
      <4>3. ~Takes(c, p)' BY <1>5, <1>6, <3>6 DEF Takes
      <4> QED BY <1>9, <2>1, <4>2, <4>3 DEF Obliged
    <3>7. CASE size = "full"
      <4>1. spc' = "file" BY <1>5, <3>7
      <4>2. BlocksOf(v, Target') BY <1>4, <1>7, <1>8, <3>2, <3>5, BlocksMore
      <4>3. Got' = Got + 1
        <5>1. Len(Target') = Len(Target) + 1 BY <1>4, <1>7, <1>8, AppendProperties
        <5>2. Got' = 2 * Len(Target') BY <1>5, <4>1, <5>1 DEF Got
        <5>3. \A n, g \in Nat : g = 2 * n + 1 => 2 * (n + 1) = g + 1 OBVIOUS
        <5>4. 2 * (Len(Target) + 1) = Got + 1 BY <1>4, <1>5, <5>3
        <5> QED BY <5>1, <5>2, <5>4
      <4>4. Landing(c)' BY <1>1, <3>2, <3>4, <4>2, <4>3 DEF Landing, v
      <4>5. Takes(c, p)' BY <1>1, <1>6, <2>3, <4>1 DEF Takes
      <4> QED BY <1>9, <2>1, <4>4, <4>5 DEF Obliged
    <3> QED BY <1>3, <3>6, <3>7
  <2> QED BY <2>2, <2>3
<1>10. Mirroring(c)' BY <1>0, <1>1, <1>3, <1>6, <1>9, ReadMirrors
<1>11. ASSUME NEW p \in Own[c] PROVE Finishes(c, p)
  BY <1>0, <1>1, <1>2, <1>6, <1>9 DEF Finishes, Mirroring, Asks, Removes
<1> QED BY <1>0, <1>1, <1>10, <1>11

-----------------------------------------------------------------------------
(* Every client, whoever moves.                                            *)

\* The server does something for c.
LEMMA ServedMirrors ==
  ASSUME TypeOK, SimpleSession, Mirrors, NEW c \in Client,
         UNCHANGED <<clientVars, events, userVars>>, hurt \subseteq hurt',
         UNCHANGED up \/ (up[c] # <<>> /\ up' = [up EXCEPT ![c] = Tail(@)]),
         conn' = c, spc = "select" \/ conn = c,
         UNCHANGED diskVars \/ \E p \in Own[c] : Alters(p),
         c \notin hurt' => Mirroring(c)'
  PROVE  Mirrors'
<1>1. UNCHANGED <<phase, todo, tab, links, cur, cpc, rd, buf, events, lent, ldat>>
  BY DEF clientVars, userVars
<1>2. \A k \in Client : k # c => up'[k] = up[k] BY ClientFunctions
<1>3. ASSUME NEW k \in Client PROVE Plain(k)'
  <2>1. Plain(k) BY DEF Mirrors
  <2>2. up'[k] = up[k] \/ (up[k] # <<>> /\ up'[k] = Tail(up[k])) BY ClientFunctions
  <2>3. up[k] \in Seq(PlainUp) BY <2>1 DEF Plain, Lasting
  <2>4. up'[k] \in Seq(PlainUp)
    <3>1. CASE up'[k] = up[k] BY <2>3, <3>1
    <3>2. CASE up[k] # <<>> /\ up'[k] = Tail(up[k])
      <4>1. Tail(up[k]) \in Seq(PlainUp) BY <2>3, <3>2, TailSeq
      <4> QED BY <3>2, <4>1
    <3> QED BY <2>2, <3>1, <3>2
  <2>5. cpc'[k] = "rmEcho" => cur'[k].path \notin Dir BY <1>1, <2>1 DEF Plain, Lasting
  <2> QED BY <1>1, <2>1, <2>4, <2>5, StaysPlain
<1>4. /\ OwnFiles'
      /\ \A k \in Client : k # c /\ Alone(k) => \A q \in Own[k] : SameCopy(q)
  <2>1. CASE UNCHANGED diskVars
    BY <2>1 DEF Mirrors, OwnFiles, SameCopy, diskVars
  <2>2. CASE \E p \in Own[c] : Alters(p)
    <3>1. PICK p \in Own[c] : Alters(p) BY <2>2
    <3>2. p \in Path BY NamesAssumption
    <3>3. /\ OwnFiles'
          /\ \A q \in Path : q # p =>
               /\ hent'[q] = hent[q]
               /\ hent[q] # None => hdat'[hent[q]] = hdat[hent[q]]
      BY <3>1, <3>2, OthersKept DEF Mirrors
    <3>4. ASSUME NEW k \in Client, k # c, Alone(k), NEW q \in Own[k] PROVE SameCopy(q)
      <4>1. q # p BY <3>4 DEF Alone
      <4>2. q \in Path BY NamesAssumption
      <4> QED BY <3>3, <4>1, <4>2 DEF SameCopy
    <3> QED BY <3>3, <3>4
  <2> QED BY <2>1, <2>2
<1>5. ASSUME NEW k \in Client, k # c, k \notin hurt' PROVE Mirroring(k)'
  <2>1. Mirroring(k) BY <1>5 DEF Mirrors
  <2>2. SameServer(k) BY <1>5 DEF SameServer, ServerAt
  <2>3. SamePlace(k) BY <1>1, <1>2, <1>5 DEF SamePlace
  <2> QED BY <1>1, <1>4, <1>5, <2>1, <2>2, <2>3, OthersMirrored
<1> QED BY <1>3, <1>4, <1>5 DEF Mirrors

\* What every client is at stays as it is.
LEMMA NothingMirrors ==
  ASSUME Mirrors, hurt \subseteq hurt',
         UNCHANGED <<clientVars, events, userVars, up, spc, conn, req, path, diskVars>>
  PROVE  Mirrors'
<1>1. UNCHANGED <<phase, todo, tab, links, cur, cpc, rd, buf, events, lent, ldat, up>>
  BY DEF clientVars, userVars
<1>2. ASSUME NEW k \in Client PROVE Plain(k)'
  <2>1. Plain(k) BY DEF Mirrors
  <2>2. up'[k] \in Seq(PlainUp) /\ (cpc'[k] = "rmEcho" => cur'[k].path \notin Dir)
    BY <1>1, <2>1 DEF Plain, Lasting
  <2> QED BY <1>1, <2>1, <2>2, StaysPlain
<1>3. ASSUME NEW k \in Client, k \notin hurt' PROVE Mirroring(k)'
  <2>1. Mirroring(k) BY <1>3 DEF Mirrors
  <2>2. SameServer(k) /\ SamePlace(k) /\ \A q \in Own[k] : SameCopy(q)
    BY <1>1 DEF SameServer, SamePlace, SameCopy, diskVars
  <2> QED BY <1>1, <2>1, <2>2, OthersMirrored
<1>4. OwnFiles' BY DEF Mirrors, OwnFiles, diskVars
<1> QED BY <1>2, <1>3, <1>4 DEF Mirrors

\* The client c moves, or its user does.
LEMMA MovedMirrors ==
  ASSUME Mirrors, NEW c \in Client, UNCHANGED <<serverVars, diskVars>>,
         hurt \subseteq hurt', Plain(c)', c \notin hurt' => Mirroring(c)',
         \A k \in Client : k # c =>
           /\ Same(k) /\ phase'[k] = phase[k] /\ rd'[k] = rd[k] /\ ldat'[k] = ldat[k]
  PROVE  Mirrors'
<1>1. \A k \in Client : Plain(k)' BY OthersPlain DEF Mirrors
<1>2. OwnFiles' BY DEF Mirrors, OwnFiles, diskVars
<1>3. ASSUME NEW k \in Client, k # c, k \notin hurt' PROVE Mirroring(k)'
  <2>1. Mirroring(k) BY <1>3 DEF Mirrors
  <2>2. SameServer(k) /\ SamePlace(k) /\ \A q \in Own[k] : SameCopy(q)
    BY <1>3 DEF SameServer, SamePlace, SameCopy, diskVars, serverVars, Same
  <2> QED BY <1>3, <2>1, <2>2, OthersMirrored DEF Same
<1> QED BY <1>1, <1>2, <1>3 DEF Mirrors

LEMMA ClientAlone ==
  ASSUME TypeOK, NEW c \in Client, ClientStep(c), NEW k \in Client, k # c
  PROVE  Same(k) /\ phase'[k] = phase[k] /\ rd'[k] = rd[k] /\ ldat'[k] = ldat[k]
<1>1. ldat' = ldat /\ lent' = lent
  BY DEF ClientStep, Visit, StartWatch, SendLink, RecvLinkEcho, SendMeta, RecvMetaEcho,
         RecvMetaRes, SendFileHeader, SendFileData, SyncEvent, DeleteEvent, RecvRmEcho,
         userVars
<1>2. /\ UNCHANGED phase \/ \E y : phase' = [phase EXCEPT ![c] = y]
      /\ UNCHANGED todo \/ \E y : todo' = [todo EXCEPT ![c] = y]
      /\ UNCHANGED tab \/ \E y : tab' = [tab EXCEPT ![c] = y]
      /\ UNCHANGED links \/ \E y : links' = [links EXCEPT ![c] = y]
      /\ UNCHANGED events \/ \E y : events' = [events EXCEPT ![c] = y]
      /\ UNCHANGED rd \/ \E y : rd' = [rd EXCEPT ![c] = y]
  BY DEF ClientStep, Visit, StartWatch, SendLink, RecvLinkEcho, SendMeta, RecvMetaEcho,
         RecvMetaRes, SendFileHeader, SendFileData, SyncEvent, DeleteEvent, RecvRmEcho,
         OpenAgain
<1>3. /\ UNCHANGED cur \/ \E y : cur' = [cur EXCEPT ![c] = y]
      /\ UNCHANGED cpc \/ \E y : cpc' = [cpc EXCEPT ![c] = y]
      /\ UNCHANGED buf \/ \E y : buf' = [buf EXCEPT ![c] = y]
      /\ UNCHANGED up \/ \E y : up' = [up EXCEPT ![c] = y]
  BY DEF ClientStep, Visit, StartWatch, SendLink, RecvLinkEcho, SendMeta, RecvMetaEcho,
         RecvMetaRes, SendFileHeader, SendFileData, SyncEvent, DeleteEvent, RecvRmEcho,
         OpenAgain, Goto, SendUp, Close
<1>4. /\ phase'[k] = phase[k] /\ todo'[k] = todo[k] /\ tab'[k] = tab[k]
      /\ links'[k] = links[k] /\ events'[k] = events[k] /\ rd'[k] = rd[k]
  BY <1>2, HoldFunctions, PlainFunctions
<1>5. cur'[k] = cur[k] /\ cpc'[k] = cpc[k] /\ buf'[k] = buf[k] /\ up'[k] = up[k]
  BY <1>3, ClientFunctions
<1> QED BY <1>1, <1>4, <1>5 DEF Same

LEMMA ClientMirrors ==
  ASSUME TypeOK, InStep, Owned, Files, SimpleSession, Mirrors,
         NEW c \in Client, ClientStep(c)
  PROVE  Mirrors'
<1>1. /\ UNCHANGED <<serverVars, diskVars>> /\ hurt \subseteq hurt'
  BY DEF ClientStep, Visit, StartWatch, SendLink, RecvLinkEcho, SendMeta, RecvMetaEcho,
         RecvMetaRes, SendFileHeader, SendFileData, SyncEvent, DeleteEvent, RecvRmEcho,
         OpenAgain, Close
<1>2. Plain(c) /\ Plain(c)' BY NextPlain DEF Mirrors
<1>3. ASSUME c \notin hurt' PROVE Mirroring(c)'
  <2>1. /\ c \in Client \ hurt /\ c \in Client \ hurt' /\ Mirroring(c)
        /\ Lnk = {} /\ links[c] = {}
    BY <1>1, <1>2, <1>3 DEF Mirrors, SimpleSession, Plain, Lasting
  <2>2. CASE StartWatch(c)
    <3>1. /\ UNCHANGED <<todo, cur, cpc, rd, buf, events, userVars, up, serverVars>>
          /\ UNCHANGED diskVars
      BY <2>2 DEF StartWatch
    <3>2. SamePlace(c) /\ SameServer(c) /\ \A q \in Own[c] : SameCopy(q)
      BY <3>1 DEF SamePlace, SameServer, SameCopy, serverVars, diskVars
    <3> QED BY <2>1, <3>1, <3>2, OthersMirrored DEF userVars
  <2>3. ~SendLink(c) /\ ~RecvLinkEcho(c) BY <2>1 DEF SendLink, RecvLinkEcho
  <2> QED BY <1>2, <2>1, <2>2, <2>3, VisitMirrors, SendMetaMirrors, RecvMetaEchoMirrors,
             RecvMetaResMirrors, SendFileHeaderMirrors, SendFileDataMirrors,
             SyncEventMirrors, DeleteEventMirrors, RecvRmEchoMirrors
          DEF ClientStep
<1> QED BY <1>1, <1>2, <1>3, ClientAlone, MovedMirrors

LEMMA UserMirrors ==
  ASSUME TypeOK, SimpleSession, Mirrors, NEW c \in Client, User(c)
  PROVE  Mirrors'
<1>1. UNCHANGED <<phase, tab, links, cur, cpc, rd, buf, up, serverVars, diskVars, hurt>>
  BY UserAlone
<1>2. /\ Plain(c)' /\ (Mirroring(c) => Mirroring(c)')
      /\ \A k \in Client : k # c => UNCHANGED <<todo[k], events[k], lent[k], ldat[k]>>
  BY EditMirrors DEF Mirrors
<1>3. ASSUME NEW k \in Client, k # c
      PROVE  Same(k) /\ phase'[k] = phase[k] /\ rd'[k] = rd[k] /\ ldat'[k] = ldat[k]
  BY <1>1, <1>2, <1>3 DEF Same
<1> QED BY <1>1, <1>2, <1>3, MovedMirrors DEF Mirrors

LEMMA CrashMirrors ==
  ASSUME TypeOK, Mirrors, NEW c \in Client, Crash(c)
  PROVE  Mirrors'
<1>1. /\ UNCHANGED <<phase, todo, tab, links, cur, rd, buf, events, lent, ldat, up>>
      /\ UNCHANGED <<serverVars, diskVars>>
      /\ hurt' = hurt \cup {c} /\ Goto(c, "down")
  BY DEF Crash, Fault, userVars
<1>2. Plain(c)'
  <2>1. Plain(c) BY DEF Mirrors
  <2>2. up'[c] \in Seq(PlainUp) /\ cpc'[c] # "rmEcho" BY <1>1, <2>1, GotoOf DEF Plain
  <2> QED BY <1>1, <2>1, <2>2, StaysPlain
<1>3. ASSUME NEW k \in Client, k # c
      PROVE  Same(k) /\ phase'[k] = phase[k] /\ rd'[k] = rd[k] /\ ldat'[k] = ldat[k]
  BY <1>1, <1>3, GotoOf DEF Same
<1> QED BY <1>1, <1>2, <1>3, MovedMirrors

\* A request is about names of its own account, and about no links.
LEMMA HeadPlain ==
  ASSUME TypeOK, NEW c \in Client, Plain(c), up[c] # <<>>
  PROVE  Head(up[c]).kind \notin {"hl", "names"}
<1>1. up[c] \in Seq(PlainUp) BY DEF Plain
<1>2. Head(up[c]) \in PlainUp BY <1>1, TailSeq
<1> QED BY <1>2 DEF PlainUp

\* Only a client that a fault has hit sends what the server does not expect.
LEMMA NoGarbage ==
  ASSUME InStep, NEW c \in Client, Garbage(c)
  PROVE  c \in hurt
<1> SUFFICES ASSUME c \notin hurt PROVE FALSE
  OBVIOUS
<1>1. up[c] # <<>> /\ Head(up[c]).kind \notin ServerWants(c) BY DEF Garbage
<1>2. Reads(ServerAt(c), req.type, size, cpc[c], Head(up[c]))
  BY <1>1, InStepNow DEF Now, Stepping
<1>3. Head(up[c]).kind \in ServerWants(c)
  BY <1>2 DEF Reads, Request, ServerAt, ServerWants
<1> QED BY <1>1, <1>3

LEMMA RequestMirrors ==
  ASSUME TypeOK, InStep, SimpleSession, Mirrors,
         \/ Select
         \/ \E c \in Client : ServeMeta(c) \/ ServeLink(c) \/ ServeRm(c) \/ Logout(c)
                              \/ Garbage(c)
  PROVE  Mirrors'
<1>1. CASE Select \/ \E c \in Client : Logout(c)
  BY <1>1, NothingMirrors DEF Select, Logout
<1>2. ASSUME NEW c \in Client, ServeMeta(c) \/ ServeRm(c) PROVE Mirrors'
  <2>1. /\ UNCHANGED <<clientVars, events, userVars, diskVars, hurt>>
        /\ up[c] # <<>> /\ up' = [up EXCEPT ![c] = Tail(@)]
        /\ conn' = c /\ spc = "select"
    BY <1>2 DEF ServeMeta, ServeRm, Serve, Recv
  <2>2. c \notin hurt' => Mirroring(c)'
    BY <1>2, <2>1, ServeMetaMirrors, ServeRmMirrors DEF Mirrors
  <2> QED BY <2>1, <2>2, ServedMirrors
<1>3. \A c \in Client : ~ServeLink(c)
  BY HeadPlain DEF ServeLink, Serve, Recv, Mirrors
<1>4. ASSUME NEW c \in Client, Garbage(c) PROVE Mirrors'
  <2>1. /\ UNCHANGED <<clientVars, events, userVars, up, diskVars, hurt>> /\ conn' = c
        /\ spc = "select" \/ conn = c
        /\ up[c] # <<>> /\ Head(up[c]).kind \notin ServerWants(c)
    BY <1>4 DEF Garbage
  <2>2. c \in hurt BY <1>4, NoGarbage
  <2> QED BY <2>1, <2>2, ServedMirrors
<1> QED BY <1>1, <1>2, <1>3, <1>4

\* The server changes one file, of the account it serves.
LEMMA ReceiveAlters ==
  ASSUME TypeOK, Owned,
         RecvPath \/ LockFile \/ RecvFileHeader \/ RecvData \/ RecvRmPath
  PROVE  UNCHANGED diskVars \/ \E p \in Own[conn] : Alters(p)
<1>1. CASE RecvPath
  <2>1. PICK p : p = Head(up[conn]).path OBVIOUS
  <2>2. p \in Own[conn] BY <1>1, <2>1, HeadOf DEF RecvPath
  <2>3. Alters(p) BY <1>1, <2>1 DEF RecvPath, OpenToWrite, Alters
  <2> QED BY <2>2, <2>3
<1>2. CASE LockFile \/ RecvFileHeader BY <1>2 DEF LockFile, RecvFileHeader
<1>3. CASE RecvData
  <2>1. path \in Own[conn] BY <1>3 DEF RecvData, Owned, Receiving
  <2>2. Alters(path) BY <1>3 DEF RecvData, WriteFile, MakeLink, Alters
  <2> QED BY <2>1, <2>2
<1>4. CASE RecvRmPath
  <2>1. PICK p : p = Head(up[conn]).path OBVIOUS
  <2>2. p \in Own[conn] BY <1>4, <2>1, HeadOf DEF RecvRmPath
  <2>3. Alters(p) BY <1>4, <2>1 DEF RecvRmPath, Alters
  <2> QED BY <2>2, <2>3
<1> QED BY <1>1, <1>2, <1>3, <1>4

LEMMA ReceiveMirrors ==
  ASSUME TypeOK, InStep, Owned, Files, SimpleSession, Mirrors,
         RecvPath \/ LockFile \/ RecvFileHeader \/ RecvData \/ RecvNames \/ RecvRmPath
  PROVE  Mirrors'
<1>1. conn \in Client BY Connection
<1>2. ~RecvNames BY <1>1, HeadPlain DEF RecvNames, Recv, Mirrors
<1>3. /\ UNCHANGED <<clientVars, events, userVars, hurt, conn>>
      /\ UNCHANGED up \/ (up[conn] # <<>> /\ up' = [up EXCEPT ![conn] = Tail(@)])
  BY <1>2 DEF RecvPath, LockFile, RecvFileHeader, RecvData, RecvRmPath, Recv
<1>4. UNCHANGED diskVars \/ \E p \in Own[conn] : Alters(p) BY <1>2, ReceiveAlters
<1>5. ASSUME conn \notin hurt PROVE Mirroring(conn)'
  <2>1. Mirroring(conn) /\ OwnFiles /\ Lnk = {}
    BY <1>1, <1>5 DEF Mirrors, SimpleSession
  <2> QED BY <1>2, <1>5, <2>1, RecvPathMirrors, LockFileMirrors, RecvFileHeaderMirrors,
             RecvDataMirrors, RecvRmPathMirrors
<1> QED BY <1>1, <1>3, <1>4, <1>5, ServedMirrors

LEMMA EndAlters ==
  ASSUME Owned, LockHeld \/ EofPath \/ EofFileHeader \/ ShortData \/ EofNames
  PROVE  UNCHANGED diskVars \/ \E p \in Own[conn] : Alters(p)
<1>1. CASE EofFileHeader \/ ShortData
  <2>1. path \in Own[conn] BY <1>1 DEF EofFileHeader, ShortData, Owned, Receiving
  <2>2. UNCHANGED diskVars \/ Alters(path)
    BY <1>1 DEF EofFileHeader, ShortData, WriteFile, MakeLink, Alters
  <2> QED BY <2>1, <2>2
<1> QED BY <1>1 DEF LockHeld, EofPath, EofNames

LEMMA OutsideCopies ==
  ASSUME TypeOK, OwnFiles, NEW c \in Client,
         UNCHANGED diskVars \/ \E p \in Own[c] : Alters(p)
  PROVE  \A p \in Path : p \notin Own[c] => SameCopy(p)
<1>1. CASE UNCHANGED diskVars BY <1>1 DEF SameCopy, diskVars
<1>2. CASE \E p \in Own[c] : Alters(p)
  <2>1. PICK n \in Own[c] : Alters(n) BY <1>2
  <2>2. n \in Path BY NamesAssumption
  <2> QED BY <2>1, <2>2, OthersKept DEF SameCopy
<1> QED BY <1>1, <1>2

LEMMA EndMirrors ==
  ASSUME TypeOK, InStep, Owned, SimpleSession, Mirrors,
         LockHeld \/ EofPath \/ EofFileHeader \/ ShortData \/ EofNames
  PROVE  Mirrors'
<1>1. conn \in Client BY Connection
<1>2. /\ UNCHANGED <<clientVars, events, userVars, up, conn>> /\ hurt \subseteq hurt'
      /\ Eof(conn) \/ conn \in hurt'
  BY DEF LockHeld, EofPath, EofFileHeader, ShortData, EofNames, Fault
<1>3. UNCHANGED diskVars \/ \E p \in Own[conn] : Alters(p) BY EndAlters
<1>4. conn \in hurt' BY <1>2, Serving DEF Eof
<1> QED BY <1>1, <1>2, <1>3, <1>4, ServedMirrors

-----------------------------------------------------------------------------
LEMMA MirrorsInit == SimpleSession /\ Init => Mirrors
<1> SUFFICES ASSUME SimpleSession, Init PROVE Mirrors
  OBVIOUS
<1>1. ASSUME NEW c \in Client
      PROVE  /\ lent[c] \in Homes /\ todo[c] = {p \in Path : lent[c][p] # None}
             /\ tab[c] = {} /\ links[c] = {} /\ up[c] = <<>> /\ events[c] = <<>>
             /\ phase[c] = "scan" /\ cpc[c] = "idle" /\ ServerAt(c) = "select"
  BY DEF Init, ServerAt
<1>2. \A p \in Path : hent[p] = None BY DEF Init
<1>3. ASSUME NEW c \in Client PROVE Plain(c)
  <2>1. OneName(c) BY <1>1 DEF OneName, SimpleSession
  <2>2. Told(c) BY <1>1 DEF Told, LastTells
  <2>3. \A T : <<>> \in Seq(T) OBVIOUS
  <2>4. up[c] \in Seq(PlainUp) BY <1>1, <2>3
  <2> QED BY <1>1, <2>1, <2>2, <2>4 DEF Plain, Lasting
<1>4. ASSUME NEW c \in Client PROVE Mirroring(c)
  <2>1. ASSUME NEW p \in Own[c], Clean(c, p) PROVE Obliged(c, p)
    <3>1. p \in Path BY NamesAssumption
    <3>2. lent[c][p] = None BY <1>1, <2>1, <3>1 DEF Clean
    <3>3. Kept(c, p) BY <1>2, <3>1, <3>2 DEF Kept
    <3> QED BY <1>1, <3>3 DEF Obliged, Asks, Removes, Takes
  <2> QED BY <1>1, <2>1 DEF Mirroring, AnswerFor
<1> QED BY <1>2, <1>3, <1>4 DEF Mirrors, OwnFiles

LEMMA MirrorsStep ==
  SimpleSession /\ TypeOK /\ InStep /\ Owned /\ Files /\ Mirrors /\ [Next]_vars => Mirrors'
<1> SUFFICES ASSUME SimpleSession, TypeOK, InStep, Owned, Files, Mirrors, [Next]_vars
             PROVE  Mirrors'
  OBVIOUS
<1>1. ASSUME NEW c \in Client, ClientStep(c) \/ User(c) \/ Crash(c) PROVE Mirrors'
  BY <1>1, ClientMirrors, UserMirrors, CrashMirrors
<1>2. CASE ServerStep
  BY <1>2, RequestMirrors, ReceiveMirrors, EndMirrors DEF ServerStep
<1>3. CASE UNCHANGED vars
  BY <1>3, NothingMirrors DEF vars, serverVars
<1> QED BY <1>1, <1>2, <1>3 DEF Next

LEMMA MirrorsShow ==
  ASSUME PlainSession, TypeOK, InStep, Mirrors
  PROVE  Mirror
<1> SUFFICES ASSUME Quiet, NEW c \in Client \ hurt, NEW p \in Own[c]
             PROVE  /\ lent[c][p] = None <=> hent[p] = None
                    /\ (lent[c][p] # None /\ TypeOf(p) # "dir") =>
                         LET v == ldat[c][lent[c][p]] IN
                         hdat[hent[p]] = IF TypeOf(p) = "lnk" THEN <<LinkPiece(v)>>
                                         ELSE Content(v)
  BY DEF Mirror
<1>1. cpc[c] # "down" BY InStepNow DEF Now, Stepping, Sent
<1>2. cpc[c] = "idle" /\ phase[c] # "scan" /\ events[c] = <<>> /\ spc = "select"
  BY <1>1 DEF Quiet, Idle
<1>3. todo[c] = {} BY <1>2 DEF Mirrors, Plain, Lasting
<1>4. Clean(c, p) BY <1>2, <1>3 DEF Clean
<1>5. ~Asks(c, p) /\ ~Removes(c, p) /\ ~Takes(c, p)
  BY <1>2 DEF Asks, Removes, Takes, ServerAt
<1>6. Kept(c, p) BY <1>4, <1>5 DEF Mirrors, Mirroring, Obliged
<1>7. TypeOf(p) \in {"dir", "reg"} BY DEF TypeOf, PlainSession, SimpleSession
<1> QED BY <1>6, <1>7 DEF Kept, PlainSession

\* Once everything has been handled, the server has the names and the contents of the
\* directory of every client that no fault has hit (the purpose of sync_file, send_file,
\* the rm loop and csiebox_server.c 316-545), for any number of clients, names,
\* contents and changes, also of a name that is being transferred, and whatever faults
\* hit other clients.  The invariant says of every name that is not queued and not to
\* be traversed that the server has it as it is now, or by which of three messages it
\* will.  What PlainSession leaves out is what the code does not mirror: symbolic
\* links that change, clients with one account, changes before the watch, changes after
\* a directory was removed.  Hard links it does mirror when nothing changes; they are
\* left out here.
THEOREM MirrorKept == PlainSession => (Spec => []Mirror)
<1> SUFFICES ASSUME PlainSession PROVE Spec => []Mirror
  OBVIOUS
<1> DEFINE Inv == TypeOK /\ InStep /\ Owned /\ Files /\ Mirrors
<1>0. OneNameLinks /\ SimpleSession BY DEF PlainSession, SimpleSession, OneNameLinks
<1>1. Init => Inv
  BY <1>0, Initially, InStepInit, OwnedInit, FilesInit, MirrorsInit
<1>2. Inv /\ [Next]_vars => Inv'
  BY <1>0, TypeStep, InStepStep, OwnedStep, FilesStep, MirrorsStep
<1>3. Inv => Mirror BY MirrorsShow
<1> QED BY <1>1, <1>2, <1>3, PTL DEF Spec
-----------------------------------------------------------------------------
(* Clients that share an account: one of them backs what the server has.   *)

\* What c does for p has still to come, or is done.
Busy(c, p) == ~Clean(c, p) \/ Asks(c, p) \/ Removes(c, p) \/ Takes(c, p)
Backs(c, p) == Busy(c, p) \/ HasCopy(c, p)
Unhurt(p) == \A c \in Client : p \in Own[c] => c \notin hurt
Backed ==
  \A p \in Path : TypeOf(p) = "reg" /\ hent[p] # None /\ Unhurt(p) =>
    \E c \in Client : p \in Own[c] /\ Backs(c, p)

\* A client that is where it was backs what it did.
LEMMA BacksOn ==
  ASSUME NEW c \in Client, NEW p, Backs(c, p), SamePlace(c), SameServer(c), SameCopy(p),
         Clean(c, p)' => Clean(c, p) /\ SameFile(c, p), hent[p] # None
  PROVE  Backs(c, p)'
<1>1. SUFFICES ASSUME Clean(c, p)' PROVE Backs(c, p)'
  BY DEF Backs, Busy
<1>2. Clean(c, p) /\ SameFile(c, p) BY <1>1
<1>3. CASE HasCopy(c, p) BY <1>2, <1>3 DEF HasCopy, SameFile, SameCopy, Backs
<1>4. CASE ServerAt(c) = "select" /\ ServerAt(c)' = "select"
  <2>1. Busy(c, p) => Busy(c, p)'
    BY <1>2, <1>4 DEF Busy, Asks, Removes, Takes, SamePlace
  <2> QED BY <1>3, <2>1 DEF Backs
<1>5. CASE UNCHANGED <<spc, conn, req, path, diskVars>>
  <2>1. ServerAt(c)' = ServerAt(c) /\ path' = path BY <1>5 DEF ServerAt
  <2>2. Busy(c, p) => Busy(c, p)'
    BY <1>2, <2>1 DEF Busy, Asks, Removes, Takes, SamePlace
  <2> QED BY <1>3, <2>2 DEF Backs
<1> QED BY <1>4, <1>5 DEF SameServer

\* A step of c, or of the server for c.
LEMMA BackedBy ==
  ASSUME Backed, NEW c \in Client, hurt \subseteq hurt',
         \A k \in Client, p \in Path : k # c /\ p \in Own[k] /\ hent[p] # None /\ SameCopy(p) =>
           (Backs(k, p) => Backs(k, p)'),
         \A p \in Path : p \notin Own[c] => SameCopy(p),
         c \notin hurt' => \A p \in Own[c] : TypeOf(p) = "reg" =>
           \/ hent'[p] = None \/ Backs(c, p)'
           \/ SameCopy(p) /\ (hent[p] # None /\ Backs(c, p) => Backs(c, p)')
  PROVE  Backed'
<1> SUFFICES ASSUME NEW p \in Path, TypeOf(p) = "reg", hent'[p] # None, Unhurt(p)'
             PROVE  \E k \in Client : p \in Own[k] /\ Backs(k, p)'
  BY DEF Backed
<1>1. Unhurt(p) BY DEF Unhurt
<1>2. CASE p \in Own[c] /\ Backs(c, p)' BY <1>2
<1>3. CASE SameCopy(p) /\ (p \in Own[c] /\ hent[p] # None /\ Backs(c, p) => Backs(c, p)')
  <2>1. hent[p] # None BY <1>3 DEF SameCopy
  <2>2. PICK k \in Client : p \in Own[k] /\ Backs(k, p) BY <1>1, <2>1 DEF Backed
  <2> QED BY <1>3, <2>1, <2>2
<1>4. p \in Own[c] => c \notin hurt' BY DEF Unhurt
<1> QED BY <1>2, <1>3, <1>4

\* The client c moves: no file changes.
LEMMA MovedBacked ==
  ASSUME Backed, NEW c \in Client, UNCHANGED <<serverVars, diskVars>>, hurt \subseteq hurt',
         c \notin hurt' => \A p \in Own[c] : hent[p] # None /\ Backs(c, p) => Backs(c, p)',
         \A k \in Client : k # c =>
           /\ Same(k) /\ rd'[k] = rd[k] /\ ldat'[k] = ldat[k]
  PROVE  Backed'
<1>1. \A p : SameCopy(p) BY DEF SameCopy, diskVars
<1>2. ASSUME NEW k \in Client, NEW p \in Path, k # c, hent[p] # None, Backs(k, p)
      PROVE  Backs(k, p)'
  <2>1. SamePlace(k) /\ SameServer(k) BY <1>2 DEF SamePlace, Same, SameServer, serverVars
  <2>2. (Clean(k, p)' => Clean(k, p)) /\ SameFile(k, p)
    BY <1>2 DEF Clean, SameFile, Same
  <2> QED BY <1>1, <1>2, <2>1, <2>2, BacksOn
<1> QED BY <1>1, <1>2, BackedBy

\* c goes from one thing to the next without anything done for p before.
LEMMA BacksNext ==
  ASSUME NEW c \in Client, NEW p, Backs(c, p), UNCHANGED <<userVars, serverVars, diskVars>>,
         Clean(c, p)' => Clean(c, p), Asks(c, p) => Busy(c, p)',
         Removes(c, p) => Busy(c, p)'
  PROVE  Backs(c, p)'
<1>1. UNCHANGED <<lent, ldat, hent, hdat, spc, conn, path>>
  BY DEF userVars, serverVars, diskVars
<1>2. HasCopy(c, p) => HasCopy(c, p)' BY <1>1 DEF HasCopy
<1>3. Takes(c, p) => Takes(c, p)' BY <1>1 DEF Takes, ServerAt
<1> QED BY <1>2, <1>3 DEF Backs, Busy

\* The server's next message is the same when one is sent.
LEMMA RemovesSent ==
  ASSUME TypeOK, NEW c \in Client, UNCHANGED serverVars, NEW p, NEW m \in Up,
         up'[c] = up[c] \/ up'[c] = Append(up[c], m), cpc[c] # "rmEcho",
         Removes(c, p)
  PROVE  Busy(c, p)'
<1>1. ServerAt(c) = "rmPath" /\ up[c] # <<>> /\ Head(up[c]).path = p BY DEF Removes
<1>2. ServerAt(c)' = ServerAt(c) BY DEF ServerAt, serverVars
<1>3. up'[c] # <<>> /\ Head(up'[c]) = Head(up[c]) BY <1>1, WireType, HeadSent
<1> QED BY <1>1, <1>2, <1>3 DEF Removes, Busy

LEMMA ClientBacks ==
  ASSUME TypeOK, InStep, Owned, NEW c \in Client, Plain(c), ClientStep(c), c \notin hurt,
         c \notin hurt', NEW p \in Own[c], Backs(c, p)
  PROVE  Backs(c, p)'
<1>0. /\ cur[c].path \in Path /\ cur[c].type \in Type /\ up[c] \in Seq(Up)
      /\ Now(c) /\ buf[c] \in Piece
  BY WireType, InStepNow DEF TypeOK, ClientOK
<1>1. CASE Visit(c)
  <2>1. PICK n \in todo[c] :
           /\ todo' = [todo EXCEPT ![c] = @ \ {n}]
           /\ cur' = [cur EXCEPT ![c] = [path |-> n, type |-> TypeOf(n)]]
           /\ Goto(c, "visit")
    BY <1>1, VisitPlain
  <2>2. /\ cpc[c] = "idle" /\ UNCHANGED <<events, up, userVars, serverVars, diskVars>>
    BY <1>1 DEF Visit
  <2>3. /\ cpc'[c] = "visit" /\ cur'[c].path = n /\ todo'[c] = todo[c] \ {n}
    BY <2>1, GotoOf, ClientFunctions, HoldFunctions
  <2>4. CASE p = n BY <2>3, <2>4 DEF Backs, Busy, Asks
  <2>5. CASE p # n
    <3>1. Clean(c, p)' => Clean(c, p) BY <2>2, <2>3, <2>5 DEF Clean
    <3>2. RmMsg \in Up BY UpMessages
    <3>3. ~Asks(c, p) /\ (Removes(c, p) => Busy(c, p)')
      BY <2>2, <3>2, RemovesSent DEF Asks
    <3> QED BY <2>2, <3>1, <3>3, BacksNext
  <2> QED BY <2>4, <2>5
<1>2. CASE StartWatch(c)
  <2>1. UNCHANGED <<todo, cur, cpc, events, userVars, up, serverVars, diskVars>>
    BY <1>2 DEF StartWatch
  <2>2. /\ Clean(c, p)' <=> Clean(c, p)
        /\ Asks(c, p)' <=> Asks(c, p)
        /\ Removes(c, p)' <=> Removes(c, p)
    BY <2>1 DEF Clean, Asks, Removes, ServerAt, serverVars
  <2> QED BY <2>1, <2>2, BacksNext DEF Busy
<1>3. ~SendLink(c) /\ ~RecvLinkEcho(c) BY DEF SendLink, RecvLinkEcho, Plain
<1>4. CASE SendMeta(c)
  <2> DEFINE n == cur[c].path
             i == lent[c][n]
             m == MetaMsg(cur[c].type, IF cur[c].type \in {"dir", "gone"} \/ i = None
                                       THEN None ELSE ldat[c][i])
  <2>1. /\ cpc[c] = "visit" /\ UNCHANGED <<todo, cur, events, userVars, serverVars, diskVars>>
        /\ SendUp(c, m) /\ Goto(c, "metaEcho")
    BY <1>4 DEF SendMeta, Close
  <2>2. cpc'[c] = "metaEcho" /\ up'[c] = Append(up[c], m) BY <2>1, GotoOf, SendUpOf
  <2>3. i # None => ldat[c][i] \in Version BY <1>0, PlainFunctions DEF TypeOK, UserOK
  <2>4. m \in Up BY <1>0, <2>3, UpMessages
  <2>5. Asks(c, p) => Asks(c, p)' BY <2>1, <2>2 DEF Asks
  <2>6. Removes(c, p) => Busy(c, p)' BY <2>1, <2>2, <2>4, RemovesSent
  <2>7. Clean(c, p)' => Clean(c, p) BY <2>1 DEF Clean
  <2> QED BY <2>1, <2>5, <2>6, <2>7, BacksNext DEF Busy
<1>5. CASE RecvMetaEcho(c)
  <2>1. /\ cpc[c] = "metaEcho" /\ down[c] # <<>> /\ Goto(c, "metaRes")
        /\ UNCHANGED <<todo, cur, events, userVars, serverVars, diskVars>>
    BY <1>5 DEF RecvMetaEcho, RecvDown
  <2>2. cpc'[c] = "metaRes" BY <2>1, GotoOf
  <2>3. ServerAt(c) = "path" /\ ServerAt(c)' = "path"
    BY <1>0, <2>1 DEF Now, Stepping, Sent, ServerAt, serverVars
  <2>4. Asks(c, p) => Asks(c, p)' BY <2>1, <2>2, <2>3 DEF Asks
  <2>5. ~Removes(c, p) BY <2>1, <2>3 DEF Removes
  <2>6. Clean(c, p)' => Clean(c, p) BY <2>1 DEF Clean
  <2> QED BY <2>1, <2>4, <2>5, <2>6, BacksNext DEF Busy
<1>6. CASE RecvMetaRes(c)
  <2>1. /\ cpc[c] = "metaRes" /\ down[c] # <<>>
        /\ UNCHANGED <<todo, cur, events, userVars, serverVars, diskVars>>
    BY <1>6 DEF RecvMetaRes, RecvDown
  <2>2. ~Asks(c, p) /\ ~Removes(c, p)
    BY <1>0, <2>1 DEF Now, Stepping, Sent, Asks, Removes
  <2>3. Clean(c, p)' => Clean(c, p) BY <2>1 DEF Clean
  <2> QED BY <2>1, <2>2, <2>3, BacksNext
<1>7. CASE SendFileHeader(c) \/ SendFileData(c)
  <2>1. /\ cpc[c] \in {"file", "data"} /\ \E m \in Up : SendUp(c, m)
        /\ UNCHANGED <<todo, cur, events, userVars, serverVars, diskVars>>
    <3>1. CASE SendFileHeader(c)
      <4>1. ReadBlock(c).size \in Size BY <3>1, BlockRead DEF SendFileHeader, Piece
      <4>2. FileMsg(ReadBlock(c).size) \in Up BY <4>1, UpMessages
      <4> QED BY <3>1, <4>2 DEF SendFileHeader
    <3>2. CASE SendFileData(c)
      <4>1. DataMsg(buf[c]) \in Up BY <1>0, UpMessages
      <4> QED BY <3>2, <4>1 DEF SendFileData
    <3> QED BY <1>7, <3>1, <3>2
  <2>2. PICK m \in Up : up'[c] = Append(up[c], m) BY <2>1, SendUpOf
  <2>3. ~Asks(c, p) BY <2>1 DEF Asks
  <2>4. Removes(c, p) => Busy(c, p)' BY <2>1, <2>2, RemovesSent
  <2>5. Clean(c, p)' => Clean(c, p) BY <2>1 DEF Clean
  <2> QED BY <2>1, <2>3, <2>4, <2>5, BacksNext
<1>8. CASE SyncEvent(c) \/ DeleteEvent(c)
  <2>0. PICK n : n = Head(events[c]).path OBVIOUS
  <2>1. /\ cpc[c] = "idle" /\ events[c] # <<>> /\ events' = [events EXCEPT ![c] = Tail(@)]
        /\ \E t : cur' = [cur EXCEPT ![c] = [path |-> n, type |-> t]]
        /\ \/ Goto(c, "visit") /\ UNCHANGED up
           \/ Goto(c, "rmEcho") /\ SendUp(c, RmMsg)
        /\ UNCHANGED <<todo, userVars, serverVars, diskVars>>
    BY <1>8, <2>0 DEF SyncEvent, DeleteEvent
  <2>2. /\ cpc'[c] \in {"visit", "rmEcho"} /\ cur'[c].path = n
        /\ up'[c] = up[c] \/ up'[c] = Append(up[c], RmMsg)
    BY <2>1, GotoOf, ClientFunctions, SendUpOf
  <2>3. CASE p = n BY <2>2, <2>3 DEF Backs, Busy, Asks, Removes
  <2>4. CASE p # n
    <3>1. Clean(c, p)' => Clean(c, p) BY <2>0, <2>1, <2>4, EventTaken DEF Plain
    <3>2. RmMsg \in Up BY UpMessages
    <3>3. ~Asks(c, p) /\ (Removes(c, p) => Busy(c, p)')
      BY <2>1, <2>2, <3>2, RemovesSent DEF Asks
    <3> QED BY <2>1, <3>1, <3>3, BacksNext
  <2> QED BY <2>3, <2>4
<1>9. CASE RecvRmEcho(c)
  <2> DEFINE m == PathMsg(cur[c].path)
  <2>1. /\ cpc[c] = "rmEcho" /\ down[c] # <<>> /\ SendUp(c, m)
        /\ UNCHANGED <<todo, cur, events, userVars, serverVars, diskVars>>
    BY <1>9 DEF RecvRmEcho, RecvDown
  <2>2. up[c] = <<>> /\ ServerAt(c) = "rmPath" /\ ServerAt(c)' = "rmPath"
    BY <1>0, <2>1 DEF Now, Stepping, Sent, ServerAt, serverVars
  <2>3. m \in Up /\ m.path = cur[c].path BY <1>0, UpMessages DEF PathMsg
  <2> HIDE DEF m
  <2>4. up'[c] # <<>> /\ Head(up'[c]) = m BY <1>0, <2>1, <2>2, <2>3, SendUpOf, HeadSent
  <2>5. Removes(c, p) => Removes(c, p)' BY <2>2, <2>3, <2>4 DEF Removes
  <2>6. ~Asks(c, p) BY <2>1 DEF Asks
  <2>7. Clean(c, p)' => Clean(c, p) BY <2>1 DEF Clean
  <2> QED BY <2>1, <2>5, <2>6, <2>7, BacksNext DEF Busy
<1> QED BY <1>1, <1>2, <1>3, <1>4, <1>5, <1>6, <1>7, <1>8, <1>9 DEF ClientStep

\* The server serves c, or finds its stream at an end.
LEMMA ServedBacked ==
  ASSUME TypeOK, Backed, NEW c \in Client,
         UNCHANGED <<clientVars, events, userVars>>, hurt \subseteq hurt',
         UNCHANGED up \/ up' = [up EXCEPT ![c] = Tail(@)],
         conn' = c, spc = "select" \/ conn = c,
         \A p \in Path : p \notin Own[c] => SameCopy(p),
         c \notin hurt' => \A p \in Own[c] : TypeOf(p) = "reg" =>
           \/ hent'[p] = None \/ Backs(c, p)'
           \/ SameCopy(p) /\ (hent[p] # None /\ Backs(c, p) => Backs(c, p)')
  PROVE  Backed'
<1>1. UNCHANGED <<phase, todo, tab, links, cur, cpc, rd, buf, events, lent, ldat>>
  BY DEF clientVars, userVars
<1>2. ASSUME NEW k \in Client, NEW p \in Path, k # c, hent[p] # None, SameCopy(p), Backs(k, p)
      PROVE  Backs(k, p)'
  <2>1. up'[k] = up[k] BY <1>2, ClientFunctions
  <2>2. SamePlace(k) /\ SameFile(k, p) /\ (Clean(k, p)' => Clean(k, p))
    BY <1>1, <2>1 DEF SamePlace, SameFile, Clean
  <2>3. SameServer(k) BY <1>2 DEF SameServer, ServerAt
  <2> QED BY <1>2, <2>2, <2>3, BacksOn
<1> QED BY <1>2, BackedBy

\* What c is doing for p goes on while the server serves c.
LEMMA BacksWhile ==
  ASSUME NEW c \in Client, NEW p, Backs(c, p), UNCHANGED <<todo, events, lent, ldat>>,
         Clean(c, p) /\ Asks(c, p) => Busy(c, p)' \/ HasCopy(c, p)',
         Clean(c, p) /\ Removes(c, p) => Busy(c, p)',
         Clean(c, p) /\ ~Asks(c, p) /\ ~Removes(c, p) /\ Takes(c, p) => Backs(c, p)',
         SameCopy(p), hent[p] # None
  PROVE  Backs(c, p)'
<1>1. Clean(c, p)' <=> Clean(c, p) BY DEF Clean
<1>2. HasCopy(c, p) => HasCopy(c, p)' BY DEF HasCopy, SameCopy
<1> QED BY <1>1, <1>2 DEF Backs, Busy

LEMMA RequestBacked ==
  ASSUME TypeOK, InStep, \A c \in Client : Plain(c), Backed,
         \/ Select
         \/ \E c \in Client : ServeMeta(c) \/ ServeLink(c) \/ ServeRm(c) \/ Logout(c)
                              \/ Garbage(c)
  PROVE  Backed'
<1>1. CASE Select \/ \E c \in Client : Logout(c)
  <2>1. UNCHANGED <<clientVars, events, userVars, up, spc, conn, req, path, diskVars, hurt>>
    BY <1>1 DEF Select, Logout
  <2> QED BY <2>1 DEF Backed, Backs, Busy, Clean, Asks, Removes, Takes, HasCopy, Unhurt,
                      ServerAt, clientVars, userVars, diskVars
<1>2. ASSUME NEW c \in Client, ServeMeta(c) \/ ServeRm(c) PROVE Backed'
  <2>1. /\ UNCHANGED <<clientVars, events, userVars, diskVars, hurt>>
        /\ up[c] # <<>> /\ up' = [up EXCEPT ![c] = Tail(@)]
        /\ conn' = c /\ spc = "select" /\ Head(up[c]).kind \in {"meta", "rm"}
        /\ spc' \in {"path", "rmPath"} \/ ~open[c]
    BY <1>2 DEF ServeMeta, ServeRm, Serve, Recv, Answer
  <2>2. \A p : SameCopy(p) BY <2>1 DEF SameCopy, diskVars
  <2>3. ASSUME c \notin hurt, NEW p \in Own[c], Backs(c, p), hent[p] # None
        PROVE  Backs(c, p)'
    <3>1. /\ UNCHANGED <<todo, events, cpc, cur, lent, ldat>> /\ up'[c] = Tail(up[c])
      BY <2>1, ClientFunctions DEF clientVars, userVars
    <3>2. open[c] /\ Now(c) BY <2>3, InStepNow
    <3>3. ServerAt(c) = "select" BY <2>1 DEF ServerAt
    <3>4. Tail(up[c]) = <<>> /\ LastOf(up[c]) = Head(up[c])
      BY <2>1, <3>2, WireType, Shortened DEF Now, Stepping, Follows
    <3>5. cpc[c] \in {"metaEcho", "rmEcho"}
      BY <2>1, <3>2, <3>3, <3>4 DEF Now, Stepping, Sent
    <3>6. ~Takes(c, p) BY <3>3 DEF Takes
    <3>7. Asks(c, p) => Busy(c, p)' BY <3>1, <3>5 DEF Asks, Busy
    <3>8. Removes(c, p) => Busy(c, p)' BY <3>1, <3>3 DEF Removes, Busy
    <3>9. UNCHANGED <<todo, events, lent, ldat>> BY <3>1
    <3> QED BY <2>2, <2>3, <3>6, <3>7, <3>8, <3>9, BacksWhile
  <2> QED BY <2>1, <2>2, <2>3, ServedBacked
<1>3. \A c \in Client : ~ServeLink(c) BY HeadPlain DEF ServeLink, Serve, Recv
<1>4. ASSUME NEW c \in Client, Garbage(c) PROVE Backed'
  <2>1. /\ UNCHANGED <<clientVars, events, userVars, up, diskVars, hurt>> /\ conn' = c
        /\ spc = "select" \/ conn = c
        /\ up[c] # <<>> /\ Head(up[c]).kind \notin ServerWants(c)
    BY <1>4 DEF Garbage
  <2>2. c \in hurt BY <1>4, NoGarbage
  <2>3. \A p : SameCopy(p) BY <2>1 DEF SameCopy, diskVars
  <2> QED BY <2>1, <2>2, <2>3, ServedBacked
<1> QED BY <1>1, <1>2, <1>3, <1>4

LEMMA RecvPathBacks ==
  ASSUME TypeOK, InStep, Owned, Files, OwnFiles, Lnk = {}, conn \notin hurt,
         Mirroring(conn), RecvPath, NEW c \in Client, c = conn, NEW p \in Own[c], TypeOf(p) = "reg"
  PROVE  \/ Backs(c, p)'
         \/ SameCopy(p) /\ (hent[p] # None /\ Backs(c, p) => Backs(c, p)')
         \/ hent'[p] = None
<1>1. PICK n : n = Head(up[c]).path OBVIOUS
<1>2. /\ spc = "path" /\ Recv(conn, "path") /\ path' = n /\ conn' = conn
      /\ up[c] # <<>> /\ up'[c] = Tail(up[c])
      /\ UNCHANGED <<todo, cpc, cur, events, lent, ldat, req>>
  BY <1>1, ClientFunctions DEF RecvPath, Recv, clientVars, userVars
<1>3. \/ /\ req.type = "dir"
         /\ IF hent[n] = None THEN NewEntry(n, <<>>) ELSE UNCHANGED diskVars
      \/ req.type = "gone" /\ UNCHANGED diskVars
      \/ req.type \in {"reg", "lnk"} /\ SameDigest(n) /\ UNCHANGED diskVars
      \/ req.type = "lnk" /\ UNCHANGED diskVars
      \/ req.type = "reg" /\ OpenToWrite(n) /\ spc' = "lock"
  BY <1>1 DEF RecvPath
<1>4. n \in Path /\ p \in Path BY <1>1, <1>2, HeadOf, NamesAssumption
<1>5. /\ ServerAt(c) = "path"
      /\ Stepping("path", req.type, size, up[c], down[c], cpc[c], cur[c].type, buf[c].size)
  BY <1>2, Serving DEF ServerAt
<1>6. cpc[c] = "metaRes" BY <1>2, <1>5 DEF Stepping, Reads
<1>7. Tail(up[c]) = <<>> /\ req.type = cur[c].type
  BY <1>2, <1>5, <1>6 DEF Stepping, Sent
<1>8. n = cur[c].path
  <2>1. LastOf(up[c]) = Head(up[c])
    BY <1>2, <1>5, <1>7, WireType, Shortened DEF Stepping
  <2>2. LastOf(up[c]).path = cur[c].path
    BY <1>2, <1>6 DEF Files, PathSent
  <2> QED BY <1>1, <2>1, <2>2
<1>9. Alters(n) BY <1>3 DEF Alters, OpenToWrite
<1>10. ~Removes(c, p) /\ ~Takes(c, p) BY <1>5, <1>6 DEF Removes, Takes
<1>11. CASE p # n
  <2>1. SameCopy(p) BY <1>4, <1>9, <1>11, OthersKept DEF SameCopy
  <2>2. ~Asks(c, p) BY <1>8, <1>11 DEF Asks
  <2> QED BY <1>2, <1>10, <2>1, <2>2, BacksWhile
<1>12. CASE p = n /\ ~Clean(c, p)
  <2>1. ~Clean(c, p)' BY <1>2, <1>12 DEF Clean
  <2> QED BY <2>1 DEF Backs, Busy
<1>13. CASE p = n /\ Clean(c, p)
  <2>1. Asks(c, p) BY <1>5, <1>6, <1>8, <1>13 DEF Asks
  <2>2. lent[c][p] # None /\ req.type = "reg" /\ req.ver = Wanted(c, p)
    BY <1>5, <1>7, <1>13, <2>1 DEF Mirroring, Obliged, Asked
  <2>3. CASE SameDigest(n) /\ UNCHANGED diskVars
    <3>1. lent[c][p] \in Inode BY <1>4, <2>2, PlainFunctions
    <3>2. req.ver = ldat[c][lent[c][p]] /\ req.ver \in Version
      BY <2>2, <3>1 DEF Wanted, TypeOK, UserOK
    <3>3. hdat[hent[p]] = Content(req.ver)
      BY <1>13, <2>2, <2>3, <3>2, DataAssumption DEF SameDigest
    <3>4. HasCopy(c, p)' BY <1>2, <2>2, <2>3, <3>2, <3>3 DEF HasCopy, diskVars
    <3> QED BY <3>4 DEF Backs
  <2>4. CASE spc' = "lock"
    BY <1>2, <1>13, <2>4 DEF Backs, Busy, Takes, ServerAt
  <2> QED BY <1>3, <2>2, <2>3, <2>4
<1> QED BY <1>11, <1>12, <1>13

LEMMA ReceiveBacks ==
  ASSUME TypeOK, InStep, Owned, Files, OwnFiles, Lnk = {}, conn \notin hurt,
         Mirroring(conn), LockFile \/ RecvFileHeader \/ RecvData \/ RecvRmPath,
         NEW c \in Client, c = conn, NEW p \in Own[c]
  PROVE  \/ Backs(c, p)'
         \/ SameCopy(p) /\ (hent[p] # None /\ Backs(c, p) => Backs(c, p)')
         \/ hent'[p] = None
<1>1. /\ conn' = conn /\ UNCHANGED <<todo, cpc, cur, events, lent, ldat>>
      /\ ServerAt(c) = spc /\ ServerAt(c)' = spc'
  BY DEF LockFile, RecvFileHeader, RecvData, RecvRmPath, clientVars, userVars, ServerAt
<1>2. p \in Path /\ Now(c) /\ open[c] BY NamesAssumption, InStepNow
<1>3. CASE LockFile
  <2>1. /\ spc = "lock" /\ spc' \in {"file", "dead"} /\ UNCHANGED <<path, diskVars>>
        /\ spc' = "dead" => ~open[c]
    BY <1>3 DEF LockFile, Answer
  <2>2. SameCopy(p) BY <2>1 DEF SameCopy, diskVars
  <2>3. cpc[c] = "metaRes" BY <1>1, <1>2, <2>1 DEF Now, Stepping, Sent, Reads
  <2>4. /\ ~Asks(c, p) /\ ~Removes(c, p) BY <1>1, <2>1, <2>3 DEF Asks, Removes
  <2>5. Takes(c, p) => Backs(c, p)' BY <1>1, <1>2, <2>1 DEF Takes, Backs, Busy
  <2> QED BY <1>1, <2>2, <2>4, <2>5, BacksWhile
<1>4. CASE RecvFileHeader \/ RecvData
  <2>1. spc \in {"file", "data"} /\ path' = path /\ Alters(path)
    BY <1>4 DEF RecvFileHeader, RecvData, WriteFile, MakeLink, Alters
  <2>2. Finishes(c, p)
    BY <1>4, RecvFileHeaderMirrors, RecvDataMirrors
  <2>3. cpc[c] # "metaRes"
    <3>1. up[c] # <<>> BY <1>4 DEF RecvFileHeader, RecvData, Recv
    <3> QED BY <1>1, <1>2, <2>1, <3>1 DEF Now, Stepping, Sent, Reads
  <2>4. Asks(c, p) => Asks(c, p)' BY <1>1, <2>3 DEF Asks
  <2>5. Removes(c, p) => Removes(c, p)' BY <1>1, <2>1 DEF Removes
  <2>6. path \in Path BY DEF TypeOK, ServerOK
  <2>7. CASE p # path
    <3>1. SameCopy(p) BY <1>2, <2>1, <2>6, <2>7, OthersKept DEF SameCopy
    <3>2. ~Takes(c, p) BY <2>7 DEF Takes
    <3> QED BY <1>1, <2>4, <2>5, <3>1, <3>2, BacksWhile DEF Busy
  <2>8. CASE p = path
    <3>1. Takes(c, p) BY <1>1, <2>1, <2>8 DEF Takes
    <3>2. ~Clean(c, p) => ~Clean(c, p)' BY <1>1 DEF Clean
    <3>3. Backs(c, p)' BY <2>2, <2>4, <2>5, <3>1, <3>2 DEF Finishes, Backs, Busy
    <3> QED BY <3>3
  <2> QED BY <2>7, <2>8
<1>5. CASE RecvRmPath
  <2> DEFINE n == Head(up[c]).path
  <2>1. spc = "rmPath" /\ UNCHANGED hdat /\ hent' = [hent EXCEPT ![n] = None] /\ up[c] # <<>>
    BY <1>5 DEF RecvRmPath, Recv
  <2>2. cpc[c] # "metaRes" BY <1>1, <1>2, <2>1 DEF Now, Stepping, Sent, Reads
  <2>3. Asks(c, p) => Asks(c, p)' BY <1>1, <2>2 DEF Asks
  <2>4. ~Takes(c, p) BY <1>1, <2>1 DEF Takes
  <2>5. CASE p = n BY <1>2, <2>1, <2>5, Entries
  <2>6. CASE p # n
    <3>1. SameCopy(p) BY <1>2, <2>1, <2>6, Entries DEF SameCopy
    <3>2. Removes(c, p) => Removes(c, p)' BY <1>1, <2>6 DEF Removes
    <3> QED BY <1>1, <2>3, <2>4, <3>1, <3>2, BacksWhile DEF Busy
  <2> QED BY <2>5, <2>6
<1> QED BY <1>3, <1>4, <1>5

LEMMA ReceiveBacked ==
  ASSUME TypeOK, InStep, Owned, Files, SimpleSession, Mirrors, Backed,
         RecvPath \/ LockFile \/ RecvFileHeader \/ RecvData \/ RecvNames \/ RecvRmPath
  PROVE  Backed'
<1>0. PICK c \in Client : c = conn BY Connection
<1>1. OwnFiles /\ Lnk = {} BY DEF Mirrors, SimpleSession
<1>2. ~RecvNames BY Connection, HeadPlain DEF RecvNames, Recv, Mirrors
<1>3. /\ UNCHANGED <<clientVars, events, userVars, hurt, conn>>
      /\ UNCHANGED up \/ up' = [up EXCEPT ![c] = Tail(@)]
  BY <1>0, <1>2 DEF RecvPath, LockFile, RecvFileHeader, RecvData, RecvRmPath, Recv
<1>4. \A p \in Path : p \notin Own[c] => SameCopy(p)
  <2>1. UNCHANGED diskVars \/ \E p \in Own[c] : Alters(p) BY <1>0, <1>2, ReceiveAlters
  <2> QED BY <1>1, <2>1, OutsideCopies
<1>5. ASSUME c \notin hurt', NEW p \in Own[c], TypeOf(p) = "reg"
      PROVE  \/ Backs(c, p)'
             \/ SameCopy(p) /\ (hent[p] # None /\ Backs(c, p) => Backs(c, p)')
             \/ hent'[p] = None
  <2>1. conn \notin hurt /\ Mirroring(conn) BY <1>0, <1>3, <1>5 DEF Mirrors
  <2> QED BY <1>0, <1>1, <1>2, <1>5, <2>1, RecvPathBacks, ReceiveBacks
<1> QED BY <1>0, <1>3, <1>4, <1>5, ServedBacked

LEMMA EndBacked ==
  ASSUME TypeOK, InStep, Owned, Mirrors, Backed,
         LockHeld \/ EofPath \/ EofFileHeader \/ ShortData \/ EofNames
  PROVE  Backed'
<1>1. conn \in Client BY Connection
<1>2. /\ UNCHANGED <<clientVars, events, userVars, up, conn>> /\ hurt \subseteq hurt'
      /\ conn \in hurt'
  BY Serving DEF LockHeld, EofPath, EofFileHeader, ShortData, EofNames, Fault, Eof
<1>3. \A p \in Path : p \notin Own[conn] => SameCopy(p)
  BY <1>1, EndAlters, OutsideCopies DEF Mirrors
<1> QED BY <1>1, <1>2, <1>3, ServedBacked

LEMMA BackedStep ==
  SimpleSession /\ TypeOK /\ InStep /\ Owned /\ Files /\ Mirrors /\ Backed /\ [Next]_vars
    => Backed'
<1> SUFFICES ASSUME SimpleSession, TypeOK, InStep, Owned, Files, Mirrors, Backed, [Next]_vars
             PROVE  Backed'
  OBVIOUS
<1>1. ASSUME NEW c \in Client, ClientStep(c) PROVE Backed'
  <2>1. UNCHANGED <<serverVars, diskVars>> /\ hurt \subseteq hurt'
    BY <1>1 DEF ClientStep, Visit, StartWatch, SendLink, RecvLinkEcho, SendMeta,
         RecvMetaEcho, RecvMetaRes, SendFileHeader, SendFileData, SyncEvent, DeleteEvent,
         RecvRmEcho, OpenAgain, Close
  <2>2. ASSUME c \notin hurt', NEW p \in Own[c], Backs(c, p) PROVE Backs(c, p)'
    <3>1. c \notin hurt /\ Plain(c) BY <2>1, <2>2 DEF Mirrors
    <3> QED BY <1>1, <2>2, <3>1, ClientBacks
  <2> QED BY <1>1, <2>1, <2>2, ClientAlone, MovedBacked
<1>2. ASSUME NEW c \in Client, User(c) PROVE Backed'
  <2>1. UNCHANGED <<tab, links, cur, cpc, rd, buf, up, serverVars, diskVars, hurt>>
    BY <1>2, UserAlone
  <2>2. /\ \A p \in Path : Clean(c, p)' => Clean(c, p) /\ SameFile(c, p)
        /\ \A k \in Client : k # c => UNCHANGED <<todo[k], events[k], lent[k], ldat[k]>>
    BY <1>2, EditMirrors DEF Mirrors
  <2>3. \A k \in Client : k # c => Same(k) /\ rd'[k] = rd[k] /\ ldat'[k] = ldat[k]
    BY <2>1, <2>2 DEF Same
  <2>4. ASSUME NEW p \in Own[c], hent[p] # None, Backs(c, p) PROVE Backs(c, p)'
    <3>1. SamePlace(c) /\ SameServer(c) /\ SameCopy(p) /\ p \in Path
      BY <2>1, NamesAssumption DEF SamePlace, SameServer, SameCopy, serverVars, diskVars
    <3> QED BY <2>2, <2>4, <3>1, BacksOn
  <2> QED BY <2>1, <2>3, <2>4, MovedBacked
<1>3. ASSUME NEW c \in Client, Crash(c) PROVE Backed'
  <2>1. /\ UNCHANGED <<todo, tab, links, cur, rd, buf, events, lent, ldat, up>>
        /\ UNCHANGED <<serverVars, diskVars>>
        /\ hurt' = hurt \cup {c} /\ Goto(c, "down")
    BY <1>3 DEF Crash, Fault, clientVars, userVars
  <2>2. \A k \in Client : k # c => Same(k) /\ rd'[k] = rd[k] /\ ldat'[k] = ldat[k]
    BY <2>1, GotoOf DEF Same
  <2> QED BY <2>1, <2>2, MovedBacked
<1>4. CASE ServerStep
  BY <1>4, RequestBacked, ReceiveBacked, EndBacked DEF ServerStep, Mirrors
<1>5. CASE UNCHANGED vars
  BY <1>5 DEF vars, Backed, Backs, Busy, Clean, Asks, Removes, Takes, HasCopy, Unhurt,
              ServerAt, clientVars, userVars, serverVars, diskVars
<1> QED BY <1>1, <1>2, <1>3, <1>4, <1>5 DEF Next

LEMMA BackedShow ==
  ASSUME TypeOK, InStep, Mirrors, Backed
  PROVE  SomeonesCopy
<1> SUFFICES ASSUME Quiet, NEW p \in Path, hent[p] # None, TypeOf(p) = "reg",
                    \A c \in Client : p \in Own[c] => c \notin hurt
             PROVE  \E c \in Client : /\ p \in Own[c] /\ lent[c][p] # None
                                      /\ hdat[hent[p]] = Content(ldat[c][lent[c][p]])
  BY DEF SomeonesCopy
<1>1. PICK c \in Client : p \in Own[c] /\ Backs(c, p) BY DEF Backed, Unhurt
<1>2. cpc[c] # "down" BY <1>1, InStepNow DEF Now, Stepping, Sent
<1>3. cpc[c] = "idle" /\ phase[c] # "scan" /\ events[c] = <<>> /\ spc = "select"
  BY <1>2 DEF Quiet, Idle
<1>4. todo[c] = {} BY <1>3 DEF Mirrors, Plain, Lasting
<1>5. ~Busy(c, p) BY <1>3, <1>4 DEF Busy, Clean, Asks, Removes, Takes, ServerAt
<1> QED BY <1>1, <1>5 DEF Backs, HasCopy

\* When clients share an account, each file the server has is, once everything has been
\* handled, as one of them has it (csiebox_server.c 316-545 serves one request at a
\* time, but lets those of two clients about one name follow each other in any order):
\* for any number of clients, accounts, names, contents and changes.  The invariant finds
\* the client: one that has still to ask about the name, or whose file the server is
\* receiving, or else the one whose file was received last.
THEOREM SomeonesCopyKept == SimpleSession => (Spec => []SomeonesCopy)
<1> SUFFICES ASSUME SimpleSession PROVE Spec => []SomeonesCopy
  OBVIOUS
<1> DEFINE Inv == TypeOK /\ InStep /\ Owned /\ Files /\ Mirrors /\ Backed
<1>0. OneNameLinks BY DEF SimpleSession, OneNameLinks
<1>1. Init => Inv
  <2>1. Init => Backed BY DEF Init, Backed
  <2> QED BY <1>0, <2>1, Initially, InStepInit, OwnedInit, FilesInit, MirrorsInit
<1>2. Inv /\ [Next]_vars => Inv'
  BY TypeStep, InStepStep, OwnedStep, FilesStep, MirrorsStep, BackedStep
<1>3. Inv => SomeonesCopy BY BackedShow
<1> QED BY <1>1, <1>2, <1>3, PTL DEF Spec

-----------------------------------------------------------------------------
(* The hard links of a home: the traversal and the watch keep them.        *)

\* A session in which hard links are those of the homes at the start.
LinkedSession ==
  /\ OneNameLinks /\ Lnk = {} /\ Edits \subseteq {"create", "write", "touch", "delete"}
  /\ ~EarlyEdits /\ \A c \in Client : Alone(c)

Items(w) == {w[i] : i \in 1 .. Len(w)}
\* Two names of one file.
Twins(c, p, q) == p # q /\ lent[c][p] # None /\ lent[c][p] = lent[c][q]
\* The client asks about the name it is at, and the server has not decided.
Handling(c) == \/ cpc[c] \in {"visit", "hlEcho", "metaEcho"}
               \/ cpc[c] = "metaRes" /\ ServerAt(c) = "path"
Handles(c, p) == cur[c].path = p /\ Handling(c)
\* The server will have a file there afterwards.
Carried(c) == /\ cpc[c] = "metaEcho" /\ up[c] # <<>> => LastOf(up[c]).ver # None
              /\ ServerAt(c) = "path" => req.ver # None
Puts(c, p) == Handles(c, p) /\ cur[c].type = TypeOf(p) /\ (TypeOf(p) = "reg" => Carried(c))
\* A deletion of p is in the queue or under way.
Deletes(c, p) == \E e \in Items(events[c]) : e.kind = "delete" /\ e.path = p
Goes(c, p) == Deletes(c, p) \/ Removes(c, p)
\* The pairs of names the server has still to read.
Offered(c) == {m \in Items(up[c]) : m.kind = "names"}

\* The table has the names the traversal has met of files that have two; an earlier one
\* is offered while a later one is at hand.
Offers(c) ==
  /\ phase[c] = "scan" => \A q \in Path, i \in Inode :
       <<i, q>> \in tab[c] <=> lent[c][q] = i /\ q \notin todo[c] /\ \E r \in Path : Twins(c, q, r)
  /\ links[c] # {} => phase[c] = "scan"
  /\ \A q \in links[c] : Twins(c, q, cur[c].path) /\ q \notin todo[c]
  /\ \A m \in Offered(c) :
       /\ m.tgt = cur[c].path /\ Twins(c, m.src, m.tgt) /\ m.src \notin todo[c]
       /\ phase[c] = "scan" /\ cpc[c] \in {"visit", "hlEcho", "metaEcho"}
\* The server has a name, or the client is about to put it there; a name the traversal
\* has not come to it does not have, so that no second file is made for a name with an
\* earlier twin.
Places(c) == \A p \in Own[c] :
  /\ p \in todo[c] => hent[p] = None /\ ~Handles(c, p)
  /\ Clean(c, p) /\ lent[c][p] # None /\ (hent[p] = None \/ Removes(c, p)) => Puts(c, p)
  /\ Handles(c, p) /\ cur[c].type # "gone" /\ lent[c][p] = None => Deletes(c, p)
  /\ hent[p] = None => \A q \in Own[c] : Twins(c, p, q) =>
       /\ phase[c] # "watch"
       /\ Handles(c, p) /\ q \notin todo[c] => links[c] # {} \/ Offered(c) # {}
\* Names the server has are one file there exactly if they are one here, but for those
\* that go.
Pairs(c) ==
  /\ \A p \in Own[c] : lent[c][p] = None /\ hent[p] # None => Goes(c, p)
  /\ \A p, q \in Own[c] :
       /\ Goes(c, p) => ~Twins(c, p, q)
       /\ p # q /\ hent[p] # None /\ hent[p] = hent[q] =>
            Twins(c, p, q) \/ Goes(c, p) \/ Goes(c, q)
       /\ Twins(c, p, q) /\ hent[p] # None /\ hent[q] # None => hent[p] = hent[q]
Tied(c) == Offers(c) /\ Places(c) /\ Pairs(c)
Linking == (\A c \in Client : Lasting(c)) /\ \A c \in Client \ hurt : Tied(c)

LEMMA ItemsEmpty == Items(<<>>) = {}
BY DEF Items

LEMMA ItemsSent ==
  ASSUME NEW T, NEW w \in Seq(T), NEW m \in T
  PROVE  Items(Append(w, m)) = Items(w) \cup {m}
<1> DEFINE v == Append(w, m)
<1>1. /\ Len(v) = Len(w) + 1 /\ v[Len(w) + 1] = m /\ Len(w) \in Nat
      /\ \A i \in 1 .. Len(w) : v[i] = w[i]
  BY AppendProperties, LenProperties
<1> HIDE DEF v
<1>2. ASSUME NEW x \in Items(v) PROVE x \in Items(w) \cup {m}
  <2>1. PICK i \in 1 .. Len(v) : x = v[i] BY <1>2 DEF Items
  <2>2. i = Len(w) + 1 \/ i \in 1 .. Len(w) BY <1>1, <2>1
  <2> QED BY <1>1, <2>1, <2>2 DEF Items
<1>3. ASSUME NEW i \in 1 .. Len(w) PROVE w[i] \in Items(v)
  <2>1. i \in 1 .. Len(v) /\ v[i] = w[i] BY <1>1
  <2> QED BY <2>1 DEF Items
<1>4. m \in Items(v)
  <2>1. Len(w) + 1 \in 1 .. Len(v) BY <1>1
  <2> QED BY <1>1, <2>1 DEF Items
<1>5. \A x \in Items(w) : x \in Items(v) BY <1>3 DEF Items
<1> QED BY <1>2, <1>4, <1>5 DEF v

LEMMA ItemsRead ==
  ASSUME NEW T, NEW w \in Seq(T), w # <<>>
  PROVE  Items(w) = {Head(w)} \cup Items(Tail(w))
<1> DEFINE v == Tail(w)
<1>1. /\ Len(v) = Len(w) - 1 /\ Len(w) \in Nat \ {0} /\ Head(w) = w[1]
      /\ \A i \in 1 .. Len(v) : v[i] = w[i + 1]
  BY HeadTailProperties, LenProperties, EmptySeq
<1> HIDE DEF v
<1>2. ASSUME NEW i \in 1 .. Len(w) PROVE w[i] \in {Head(w)} \cup Items(v)
  <2>1. CASE i = 1 BY <1>1, <2>1
  <2>2. CASE i # 1
    <3>1. i - 1 \in 1 .. Len(v) /\ (i - 1) + 1 = i BY <1>1, <2>2
    <3>2. v[i - 1] = w[i] BY <1>1, <3>1
    <3> QED BY <3>1, <3>2 DEF Items
  <2> QED BY <2>1, <2>2
<1>3. ASSUME NEW i \in 1 .. Len(v) PROVE v[i] \in Items(w)
  <2>1. i + 1 \in 1 .. Len(w) /\ v[i] = w[i + 1] BY <1>1
  <2> QED BY <2>1 DEF Items
<1>4. Head(w) \in Items(w)
  <2>1. 1 \in 1 .. Len(w) BY <1>1
  <2> QED BY <1>1, <2>1 DEF Items
<1>5. \A x \in Items(w) : x \in {Head(w)} \cup Items(v) BY <1>2 DEF Items
<1>6. \A x \in Items(v) : x \in Items(w) BY <1>3 DEF Items
<1> QED BY <1>4, <1>5, <1>6 DEF v

LEMMA OfferedSent ==
  ASSUME NEW c \in Client, TypeOK, NEW m \in Up, up'[c] = Append(up[c], m)
  PROVE  /\ m.kind # "names" => Offered(c)' = Offered(c)
         /\ m.kind = "names" => Offered(c)' = Offered(c) \cup {m}
<1>1. Items(up'[c]) = Items(up[c]) \cup {m} BY WireType, ItemsSent
<1> QED BY <1>1 DEF Offered

LEMMA OfferedRead ==
  ASSUME NEW c \in Client, TypeOK, up[c] # <<>>, up'[c] = Tail(up[c])
  PROVE  /\ Head(up[c]).kind # "names" => Offered(c)' = Offered(c)
         /\ Head(up[c]).kind = "names" => Offered(c) = Offered(c)' \cup {Head(up[c])}
<1>1. Items(up[c]) = {Head(up[c])} \cup Items(up'[c]) BY WireType, ItemsRead
<1> QED BY <1>1 DEF Offered

\* The client and the server go on with what they do, and no name changes.
LEMMA TiedOn ==
  ASSUME NEW c \in Client, Tied(c), phase'[c] = phase[c], todo'[c] = todo[c],
         tab'[c] = tab[c], events'[c] = events[c], lent'[c] = lent[c], cur'[c] = cur[c],
         links'[c] \subseteq links[c], \A p \in Own[c] : hent'[p] = hent[p],
         \A m \in Offered(c)' :
           /\ m \in Offered(c) \/ (m.src \in links[c] /\ m.tgt = cur[c].path)
           /\ cpc'[c] \in {"visit", "hlEcho", "metaEcho"},
         \A p : Removes(c, p)' <=> Removes(c, p),
         Handling(c)' <=> Handling(c),
         Handling(c) /\ cur[c].type = "reg" /\ lent[c][cur[c].path] # None /\ Carried(c) =>
           Carried(c)',
         Handling(c)' /\ (links[c] # {} \/ Offered(c) # {}) => links'[c] # {} \/ Offered(c)' # {}
  PROVE  Tied(c)'
<1>1. /\ \A p : Handles(c, p)' <=> Handles(c, p)
      /\ \A p : Goes(c, p)' <=> Goes(c, p)
      /\ \A p : Deletes(c, p)' <=> Deletes(c, p)
      /\ \A p : Clean(c, p)' <=> Clean(c, p)
      /\ \A p, q : Twins(c, p, q)' <=> Twins(c, p, q)
      /\ \A p : Puts(c, p) /\ lent[c][p] # None => Puts(c, p)'
  BY DEF Handles, Goes, Deletes, Clean, Twins, Puts
<1>2. Offers(c)' BY <1>1 DEF Tied, Offers
<1>3. Places(c)'
  <2>1. ASSUME NEW p \in Own[c]
        PROVE  /\ p \in todo'[c] => hent'[p] = None /\ ~Handles(c, p)'
               /\ (Clean(c, p) /\ lent[c][p] # None /\ (hent[p] = None \/ Removes(c, p)))' =>
                    Puts(c, p)'
               /\ (Handles(c, p) /\ cur[c].type # "gone" /\ lent[c][p] = None)' =>
                    Deletes(c, p)'
    BY <1>1 DEF Tied, Places
  <2>2. ASSUME NEW p \in Own[c], NEW q \in Own[c], hent'[p] = None, Twins(c, p, q)'
        PROVE  /\ phase'[c] # "watch"
               /\ Handles(c, p)' /\ q \notin todo'[c] => links'[c] # {} \/ Offered(c)' # {}
    <3>1. hent[p] = None /\ Twins(c, p, q) BY <1>1, <2>2
    <3>2. /\ phase[c] # "watch"
          /\ Handles(c, p) /\ q \notin todo[c] => links[c] # {} \/ Offered(c) # {}
      BY <3>1 DEF Tied, Places
    <3> QED BY <1>1, <3>2 DEF Handles
  <2> QED BY <2>1, <2>2 DEF Places
<1>4. Pairs(c)' BY <1>1 DEF Tied, Pairs
<1> QED BY <1>2, <1>3, <1>4 DEF Tied

\* What the server is going to remove stays the same when a message is sent.
LEMMA RemovesSame ==
  ASSUME TypeOK, InStep, NEW c \in Client, c \notin hurt, UNCHANGED serverVars,
         NEW m \in Up, up'[c] = up[c] \/ up'[c] = Append(up[c], m),
         cpc[c] # "rmEcho", cpc'[c] # "rmEcho"
  PROVE  \A p : Removes(c, p)' <=> Removes(c, p)
<1>1. ServerAt(c)' = ServerAt(c) BY DEF ServerAt, serverVars
<1>2. ServerAt(c) = "rmPath" => up[c] # <<>> BY InStepNow DEF Now, Stepping, Sent
<1>3. up[c] # <<>> => up'[c] # <<>> /\ Head(up'[c]) = Head(up[c]) BY WireType, HeadSent
<1> QED BY <1>1, <1>2, <1>3 DEF Removes

\* Names are offered while the client is at one that has a twin.
LEMMA NoneOffered ==
  ASSUME Owned, NEW c \in Client, Tied(c), cpc[c] \notin {"visit", "hlEcho", "metaEcho", "down"}
  PROVE  links[c] = {} /\ Offered(c) = {}
BY DEF Owned, Holds, Current, Tied, Offers

LEMMA SendsTied ==
  ASSUME TypeOK, InStep, Owned, Lnk = {}, NEW c \in Client, c \notin hurt, c \notin hurt',
         Tied(c), Lasting(c),
         \/ SendLink(c) \/ RecvLinkEcho(c) \/ SendMeta(c) \/ RecvMetaEcho(c)
         \/ RecvMetaRes(c) \/ SendFileHeader(c) \/ SendFileData(c) \/ RecvRmEcho(c)
  PROVE  Tied(c)'
<1>0. /\ up[c] \in Seq(Up) /\ cur[c].path \in Path /\ cur[c].type \in Type /\ Now(c)
      /\ buf[c] \in Piece /\ RmMsg \in Up
  BY WireType, InStepNow, UpMessages DEF TypeOK, ClientOK
<1>1. /\ UNCHANGED <<todo, tab, cur, events, lent, hent, serverVars>>
      /\ RecvLinkEcho(c) \/ UNCHANGED links
  BY DEF SendLink, RecvLinkEcho, SendMeta, RecvMetaEcho, RecvMetaRes, SendFileHeader,
         SendFileData, RecvRmEcho, userVars, diskVars
<1>2. phase'[c] = phase[c]
  <2>1. CASE RecvRmEcho(c)
    BY <2>1, PlainFunctions DEF RecvRmEcho, AfterRm, Lasting
  <2> QED BY <2>1 DEF SendLink, RecvLinkEcho, SendMeta, RecvMetaEcho, RecvMetaRes,
                      SendFileHeader, SendFileData
<1>3. ServerAt(c)' = ServerAt(c) /\ req' = req BY <1>1 DEF ServerAt, serverVars
<1>4. CASE SendLink(c)
  <2>1. /\ cpc[c] = "visit" /\ cpc'[c] = "hlEcho" /\ up'[c] = Append(up[c], HlMsg)
        /\ HlMsg \in Up /\ HlMsg.kind # "names" /\ links'[c] = links[c]
    BY <1>4, GotoOf, SendUpOf, UpMessages DEF SendLink, HlMsg
  <2>2. Offered(c)' = Offered(c) BY <2>1, OfferedSent
  <2>3. \A p : Removes(c, p)' <=> Removes(c, p) BY <1>1, <2>1, RemovesSame
  <2>4. ServerAt(c) # "path" BY <1>0, <2>1 DEF Now, Stepping, Sent, Reads
  <2> QED BY <1>1, <1>2, <1>3, <2>1, <2>2, <2>3, <2>4, TiedOn DEF Handling, Carried
<1>5. CASE RecvLinkEcho(c)
  <2>1. PICK q \in links[c] : /\ SendUp(c, NamesMsg(q, cur[c].path))
                              /\ links' = [links EXCEPT ![c] = @ \ {q}]
    BY <1>5 DEF RecvLinkEcho
  <2> DEFINE m == NamesMsg(q, cur[c].path)
  <2>2. /\ cpc[c] = "hlEcho" /\ cpc'[c] = "visit" /\ up'[c] = Append(up[c], m)
        /\ links'[c] = links[c] \ {q} /\ down[c] # <<>>
    BY <1>5, <2>1, GotoOf, SendUpOf, HoldFunctions DEF RecvLinkEcho, RecvDown
  <2>3. q \in Path BY DEF TypeOK, ClientOK
  <2>4. m \in Up /\ m.kind = "names" /\ m.src = q /\ m.tgt = cur[c].path
    BY <1>0, <2>3, UpMessages DEF NamesMsg
  <2> HIDE DEF m
  <2>5. Offered(c)' = Offered(c) \cup {m} BY <2>2, <2>4, OfferedSent
  <2>6. \A p : Removes(c, p)' <=> Removes(c, p) BY <1>1, <2>2, <2>4, RemovesSame
  <2>7. ServerAt(c) # "path" BY <1>0, <2>2 DEF Now, Stepping, Sent, Reads
  <2>8. \A x \in Offered(c)' : x \in Offered(c) \/ (x.src \in links[c] /\ x.tgt = cur[c].path)
    BY <2>4, <2>5
  <2> QED BY <1>1, <1>2, <1>3, <2>2, <2>5, <2>6, <2>7, <2>8, TiedOn DEF Handling, Carried
<1>6. CASE SendMeta(c)
  <2> DEFINE n == cur[c].path
             i == lent[c][n]
             m == MetaMsg(cur[c].type, IF cur[c].type \in {"dir", "gone"} \/ i = None
                                       THEN None ELSE ldat[c][i])
  <2>1. /\ cpc[c] = "visit" /\ links[c] = {} /\ SendUp(c, m) /\ Goto(c, "metaEcho")
        /\ UNCHANGED links
    <3>1. ~Close(c) BY DEF Close
    <3> QED BY <1>6, <3>1 DEF SendMeta
  <2>2. cpc'[c] = "metaEcho" /\ up'[c] = Append(up[c], m) BY <2>1, GotoOf, SendUpOf
  <2>3. i # None => ldat[c][i] \in Version BY <1>0, PlainFunctions DEF TypeOK, UserOK
  <2>4. m \in Up /\ m.kind = "meta" BY <1>0, <2>3, UpMessages DEF MetaMsg
  <2>5. cur[c].type = "reg" /\ i # None => m.ver # None
    BY <2>3, DataAssumption DEF MetaMsg
  <2> HIDE DEF m
  <2>6. LastOf(up'[c]) = m BY <1>0, <2>2, <2>4, HeadSent
  <2>7. Offered(c)' = Offered(c) BY <2>2, <2>4, OfferedSent
  <2>8. \A p : Removes(c, p)' <=> Removes(c, p) BY <1>1, <2>1, <2>2, <2>4, RemovesSame
  <2>9. ServerAt(c) # "path" BY <1>0, <2>1 DEF Now, Stepping, Sent, Reads
  <2>10. cur[c].type = "reg" /\ lent[c][cur[c].path] # None => Carried(c)'
    BY <1>3, <2>5, <2>6, <2>9 DEF Carried
  <2>11. Handling(c) /\ Handling(c)' BY <2>1, <2>2 DEF Handling
  <2> QED BY <1>1, <1>2, <2>1, <2>2, <2>7, <2>8, <2>10, <2>11, TiedOn
<1>7. CASE RecvMetaEcho(c)
  <2> DEFINE m == PathMsg(cur[c].path)
  <2>1. /\ cpc[c] = "metaEcho" /\ cpc'[c] = "metaRes" /\ up'[c] = Append(up[c], m)
        /\ down[c] # <<>> /\ UNCHANGED links
    BY <1>7, GotoOf, SendUpOf DEF RecvMetaEcho, RecvDown
  <2>2. up[c] = <<>> /\ ServerAt(c) = "path" BY <1>0, <2>1 DEF Now, Stepping, Sent
  <2>3. links[c] = {} BY <2>1 DEF Owned, Holds, Current
  <2>4. m \in Up /\ m.kind = "path" BY <1>0, UpMessages DEF PathMsg
  <2> HIDE DEF m
  <2>5. Offered(c) = {} BY <2>2, ItemsEmpty DEF Offered
  <2>6. Offered(c)' = {} BY <2>1, <2>4, <2>5, OfferedSent
  <2>7. \A p : Removes(c, p)' <=> Removes(c, p) BY <1>1, <2>1, <2>4, RemovesSame
  <2>8. Handling(c) /\ Handling(c)' BY <1>3, <2>1, <2>2 DEF Handling
  <2>9. Carried(c) => Carried(c)' BY <1>3, <2>1 DEF Carried
  <2> QED BY <1>1, <1>2, <2>3, <2>5, <2>6, <2>7, <2>1, <2>8, <2>9, TiedOn
<1>8. CASE RecvMetaRes(c)
  <2>1. /\ cpc[c] = "metaRes" /\ down[c] # <<>> /\ UNCHANGED <<up, links>>
        /\ \E pc \in {"idle", "file"} : Goto(c, pc)
    <3>1. ~Close(c) /\ hurt' # hurt \cup {c} BY DEF Close
    <3> QED BY <1>8, <3>1 DEF RecvMetaRes, RecvDown, OpenAgain
  <2>2. cpc'[c] \in {"idle", "file"} BY <2>1, GotoOf
  <2>3. ServerAt(c) # "path" BY <1>0, <2>1 DEF Now, Stepping, Sent
  <2>4. links[c] = {} /\ Offered(c) = {} BY <2>1, NoneOffered
  <2>5. Offered(c)' = {} BY <2>1, <2>4 DEF Offered
  <2>6. \A p : Removes(c, p)' <=> Removes(c, p) BY <1>0, <1>1, <2>1, <2>2, RemovesSame
  <2>7. ~Handling(c) /\ ~Handling(c)' BY <1>3, <2>1, <2>2, <2>3 DEF Handling
  <2> QED BY <1>1, <1>2, <2>1, <2>4, <2>5, <2>6, <2>7, TiedOn
<1>9. CASE SendFileHeader(c) \/ SendFileData(c)
  <2>1. /\ cpc[c] \in {"file", "data"} /\ \E m \in Up : SendUp(c, m) /\ m.kind # "names"
        /\ \E pc \in {"idle", "file", "data"} : Goto(c, pc)
    <3>1. CASE SendFileHeader(c)
      <4>1. ReadBlock(c).size \in Size BY <3>1, BlockRead DEF SendFileHeader, Piece
      <4>2. FileMsg(ReadBlock(c).size) \in Up BY <4>1, UpMessages
      <4> QED BY <3>1, <4>2 DEF SendFileHeader, FileMsg
    <3>2. CASE SendFileData(c)
      <4>1. DataMsg(buf[c]) \in Up BY <1>0, UpMessages
      <4> QED BY <3>2, <4>1 DEF SendFileData, DataMsg
    <3> QED BY <1>9, <3>1, <3>2
  <2>2. PICK m \in Up : up'[c] = Append(up[c], m) /\ m.kind # "names" BY <2>1, SendUpOf
  <2>3. cpc'[c] \in {"idle", "file", "data"} BY <2>1, GotoOf
  <2>4. links[c] = {} /\ Offered(c) = {} BY <2>1, NoneOffered
  <2>5. Offered(c)' = {} BY <2>2, <2>4, OfferedSent
  <2>6. \A p : Removes(c, p)' <=> Removes(c, p) BY <1>1, <2>1, <2>2, <2>3, RemovesSame
  <2>7. ~Handling(c) /\ ~Handling(c)' BY <2>1, <2>3 DEF Handling
  <2>8. links'[c] = links[c] BY <1>9 DEF SendFileHeader, SendFileData
  <2> QED BY <1>1, <1>2, <2>4, <2>5, <2>6, <2>7, <2>8, TiedOn
<1>10. CASE RecvRmEcho(c)
  <2> DEFINE m == PathMsg(cur[c].path)
  <2>1. /\ cpc[c] = "rmEcho" /\ cpc'[c] = "idle" /\ up'[c] = Append(up[c], m)
        /\ down[c] # <<>> /\ UNCHANGED links
    BY <1>10, GotoOf, SendUpOf DEF RecvRmEcho, RecvDown
  <2>2. up[c] = <<>> /\ ServerAt(c) = "rmPath" BY <1>0, <2>1 DEF Now, Stepping, Sent
  <2>3. m \in Up /\ m.kind = "path" /\ m.path = cur[c].path BY <1>0, UpMessages DEF PathMsg
  <2> HIDE DEF m
  <2>4. up'[c] # <<>> /\ Head(up'[c]) = m BY <1>0, <2>1, <2>2, <2>3, HeadSent
  <2>5. links[c] = {} /\ Offered(c) = {} BY <2>1, NoneOffered
  <2>6. Offered(c)' = {} BY <2>1, <2>3, <2>5, OfferedSent
  <2>7. \A p : Removes(c, p)' <=> Removes(c, p)
    BY <1>3, <2>1, <2>2, <2>3, <2>4 DEF Removes
  <2>8. ~Handling(c) /\ ~Handling(c)' BY <2>1 DEF Handling
  <2> QED BY <1>1, <1>2, <2>1, <2>5, <2>6, <2>7, <2>8, TiedOn
<1> QED BY <1>4, <1>5, <1>6, <1>7, <1>8, <1>9, <1>10

\* Only regular files have two names.
LEMMA TwinFiles ==
  ASSUME Owned, NEW c \in Client, NEW p \in Path, NEW q \in Path, Twins(c, p, q)
  PROVE  p \in Own[c] /\ q \in Own[c] /\ TypeOf(p) = "reg" /\ TypeOf(q) = "reg"
BY DEF Owned, Holds, HomeOf, OneFile, Regular, Twins

\* Nothing is being done for a name when the client is between two.
LEMMA Between ==
  ASSUME TypeOK, InStep, NEW c \in Client, c \notin hurt, cpc[c] = "idle"
  PROVE  ServerAt(c) # "path" /\ (ServerAt(c) = "rmPath" => up[c] # <<>>)
BY InStepNow DEF Now, Stepping, Sent, Reads

LEMMA VisitTied ==
  ASSUME TypeOK, InStep, Owned, NEW c \in Client, c \notin hurt, Tied(c), Lasting(c), Visit(c)
  PROVE  Tied(c)'
<1>1. PICK p \in todo[c] : p \in Path /\ Comes(c, p) BY VisitComes
<1> DEFINE i == lent[c][p]
           shared == TypeOf(p) # "dir" /\ \E q \in Path \ {p} : lent[c][q] = i
<1>2. /\ UNCHANGED <<phase, events, lent, up, hent, serverVars>>
      /\ phase[c] = "scan" /\ cpc[c] = "idle"
  BY DEF Visit, userVars, diskVars
<1>3. /\ i # None /\ i \in Inode /\ todo'[c] = todo[c] \ {p} /\ cpc'[c] = "visit"
      /\ cur'[c] = [path |-> p, type |-> TypeOf(p)]
      /\ links'[c] = IF shared THEN EarlierNames(c, i) ELSE {}
      /\ tab'[c] = IF shared THEN tab[c] \cup {<<i, p>>} ELSE tab[c]
  BY <1>1, GotoOf, ClientFunctions, HoldFunctions, PlainFunctions DEF Comes
<1>4. /\ shared <=> \E r \in Path : Twins(c, p, r)
      /\ \A q \in Path : q # p /\ lent[c][q] = i <=> Twins(c, p, q)
  BY <1>1, <1>3, TwinFiles DEF Twins, TypeOf
<1> HIDE DEF i, shared
<1>5. /\ ServerAt(c)' = ServerAt(c) /\ ServerAt(c) # "path"
      /\ \A x : Removes(c, x)' <=> Removes(c, x)
  BY <1>2, <1>3, Between DEF ServerAt, serverVars, Removes
<1>6. links[c] = {} /\ Offered(c) = {} /\ Offered(c)' = {} BY <1>2, NoneOffered DEF Offered
<1>7. /\ \A x, y : Twins(c, x, y)' <=> Twins(c, x, y)
      /\ \A x : Deletes(c, x)' <=> Deletes(c, x)
      /\ \A x : Goes(c, x)' <=> Goes(c, x)
      /\ \A x : Handles(c, x)' <=> x = p
      /\ \A x : ~Handles(c, x)
  BY <1>2, <1>3, <1>5 DEF Twins, Deletes, Goes, Handles, Handling
<1>8. \A q \in Path, j \in Inode :
        <<j, q>> \in tab[c] <=> lent[c][q] = j /\ q \notin todo[c] /\ \E r \in Path : Twins(c, q, r)
  BY <1>2 DEF Tied, Offers
<1>9. EarlierNames(c, i) = {q \in Path : Twins(c, p, q) /\ q \notin todo[c]}
  <2>1. \A q \in Path : <<i, q>> \in tab[c] <=> Twins(c, p, q) /\ q \notin todo[c]
    <3>1. ASSUME NEW q \in Path PROVE <<i, q>> \in tab[c] <=> Twins(c, p, q) /\ q \notin todo[c]
      <4>1. Twins(c, p, q) => Twins(c, q, p) BY DEF Twins
      <4>2. q \notin todo[c] => q # p BY <1>1
      <4> QED BY <1>1, <1>3, <1>4, <1>8, <4>1, <4>2
    <3> QED BY <3>1
  <2> QED BY <2>1 DEF EarlierNames
<1>10. Offers(c)'
  <2>1. ASSUME NEW q \in Path, NEW j \in Inode
        PROVE  <<j, q>> \in tab'[c] <=>
                 lent[c][q] = j /\ q \notin todo'[c] /\ \E r \in Path : Twins(c, q, r)
    <3>1. CASE q = p
      <4>1. <<j, q>> \notin tab[c] BY <1>1, <1>8, <3>1
      <4> QED BY <1>3, <1>4, <3>1, <4>1 DEF i
    <3>2. CASE q # p
      <4>1. <<j, q>> \in tab'[c] <=> <<j, q>> \in tab[c] BY <1>3, <3>2
      <4> QED BY <1>3, <1>8, <3>2, <4>1
    <3> QED BY <3>1, <3>2
  <2>2. ASSUME NEW q \in links'[c] PROVE Twins(c, q, p) /\ q \notin todo'[c]
    <3>1. q \in EarlierNames(c, i) BY <1>3, <2>2
    <3>2. Twins(c, p, q) /\ q \notin todo[c] BY <1>9, <3>1
    <3> QED BY <1>3, <3>2 DEF Twins
  <2> QED BY <1>2, <1>3, <1>6, <1>7, <2>1, <2>2 DEF Offers
<1>11. Places(c)'
  <2>1. ASSUME NEW x \in Own[c]
        PROVE  /\ x \in todo'[c] => hent'[x] = None /\ ~Handles(c, x)'
               /\ (Handles(c, x) /\ cur[c].type # "gone" /\ lent[c][x] = None)' =>
                    Deletes(c, x)'
    BY <1>2, <1>3, <1>7 DEF Tied, Places, i
  <2>2. ASSUME NEW x \in Own[c], Clean(c, x)', lent[c][x] # None, hent[x] = None \/ Removes(c, x)
        PROVE  Puts(c, x)'
    <3>1. CASE x = p BY <1>3, <1>5, <1>7, <3>1 DEF Puts, Carried
    <3>2. CASE x # p
      <4>1. Clean(c, x) BY <1>2, <1>3, <2>2, <3>2 DEF Clean
      <4> QED BY <1>7, <2>2, <4>1 DEF Tied, Places, Puts
    <3> QED BY <3>1, <3>2
  <2>3. ASSUME NEW x \in Own[c], NEW y \in Own[c], Twins(c, x, y)
        PROVE  Handles(c, x)' /\ y \notin todo'[c] => links'[c] # {}
    <3>1. SUFFICES ASSUME x = p, y \notin todo'[c] PROVE links'[c] # {}
      BY <1>7
    <3>2. y \in Path /\ y # p /\ y \notin todo[c] BY <1>3, <2>3, <3>1, NamesAssumption DEF Twins
    <3> QED BY <1>3, <1>4, <1>9, <2>3, <3>1, <3>2
  <2> QED BY <1>2, <1>5, <1>7, <2>1, <2>2, <2>3 DEF Places
<1>12. Pairs(c)' BY <1>2, <1>7 DEF Tied, Pairs
<1> QED BY <1>10, <1>11, <1>12 DEF Tied

LEMMA StartWatchTied ==
  ASSUME TypeOK, InStep, Owned, NEW c \in Client, c \notin hurt, Tied(c), Lasting(c),
         StartWatch(c)
  PROVE  Tied(c)'
<1>1. /\ phase[c] = "scan" /\ phase'[c] = "watch" /\ cpc[c] = "idle" /\ todo[c] = {}
      /\ events[c] = <<>>
      /\ UNCHANGED <<todo, tab, links, cur, cpc, events, lent, up, hent, serverVars>>
  BY PlainFunctions DEF StartWatch, userVars, diskVars, Lasting
<1>2. ServerAt(c)' = ServerAt(c) BY <1>1 DEF ServerAt, serverVars
<1>3. links[c] = {} /\ Offered(c) = {} /\ Offered(c)' = {} BY <1>1, NoneOffered DEF Offered
<1>4. /\ \A x, y : Twins(c, x, y)' <=> Twins(c, x, y)
      /\ \A x : Removes(c, x)' <=> Removes(c, x)
      /\ \A x : Deletes(c, x)' <=> Deletes(c, x)
      /\ \A x : Goes(c, x)' <=> Goes(c, x)
      /\ \A x : ~Handles(c, x) /\ ~Handles(c, x)'
  BY <1>1, <1>2 DEF Twins, Deletes, Goes, Removes, Handles, Handling
<1>5. ASSUME NEW x \in Own[c], lent[c][x] # None PROVE hent[x] # None /\ ~Removes(c, x)
  <2>1. Clean(c, x) BY <1>1 DEF Clean
  <2> QED BY <1>4, <1>5, <2>1 DEF Tied, Places, Puts
<1>6. Offers(c)' BY <1>1, <1>3 DEF Offers
<1>7. Places(c)' BY <1>1, <1>4, <1>5 DEF Places, Twins
<1>8. Pairs(c)' BY <1>1, <1>4 DEF Tied, Pairs
<1> QED BY <1>6, <1>7, <1>8 DEF Tied

LEMMA EventTied ==
  ASSUME TypeOK, InStep, Owned, NEW c \in Client, c \notin hurt, Tied(c), Lasting(c),
         SyncEvent(c) \/ DeleteEvent(c)
  PROVE  Tied(c)'
<1>0. PICK n : n = Head(events[c]).path OBVIOUS
<1>1. /\ cpc[c] = "idle" /\ phase[c] = "watch" /\ events[c] # <<>>
      /\ events' = [events EXCEPT ![c] = Tail(@)] /\ cur'[c].path = n
      /\ UNCHANGED <<phase, todo, tab, links, lent, hent, serverVars>>
  BY <1>0, ClientFunctions DEF SyncEvent, DeleteEvent, userVars, diskVars, Lasting
<1>2. \/ /\ Head(events[c]).kind # "delete" /\ cpc'[c] = "visit" /\ up'[c] = up[c]
         /\ cur'[c].type = Stat(c, n)
      \/ /\ Head(events[c]).kind = "delete" /\ cpc'[c] = "rmEcho"
         /\ up'[c] = Append(up[c], RmMsg)
  BY <1>0, GotoOf, SendUpOf, ClientFunctions DEF SyncEvent, DeleteEvent
<1>3. RmMsg \in Up /\ RmMsg.kind # "names" BY UpMessages DEF RmMsg
<1>4. /\ ServerAt(c)' = ServerAt(c) /\ ServerAt(c) # "path"
      /\ ServerAt(c) = "rmPath" => up[c] # <<>>
  BY <1>1, Between DEF ServerAt, serverVars
<1>5. links[c] = {} /\ Offered(c) = {} /\ Offered(c)' = {}
  BY <1>1, <1>2, <1>3, NoneOffered, OfferedSent DEF Offered
<1>6. \A x : Removes(c, x)' <=> Removes(c, x) \/ (cpc'[c] = "rmEcho" /\ x = n)
  <2>1. up[c] # <<>> => up'[c] # <<>> /\ Head(up'[c]) = Head(up[c])
    BY <1>2, <1>3, WireType, HeadSent
  <2> QED BY <1>1, <1>4, <2>1 DEF Removes
<1>7. \A x : Deletes(c, x) <=> Deletes(c, x)' \/ (cpc'[c] = "rmEcho" /\ x = n)
  <2> DEFINE Event == [kind : EditKind, path : Path]
  <2>1. events[c] \in Seq(Event) /\ events'[c] = Tail(events[c])
    BY <1>1, HoldFunctions DEF TypeOK, ClientOK
  <2> HIDE DEF Event
  <2>2. Items(events[c]) = {Head(events[c])} \cup Items(events'[c])
    BY <1>1, <2>1, ItemsRead
  <2> QED BY <1>0, <1>2, <2>2 DEF Deletes
<1>8. /\ \A x, y : Twins(c, x, y)' <=> Twins(c, x, y)
      /\ \A x : Goes(c, x)' <=> Goes(c, x)
      /\ \A x : ~Handles(c, x)
      /\ \A x : Handles(c, x)' <=> x = n /\ cpc'[c] = "visit"
  BY <1>1, <1>2, <1>4, <1>6, <1>7 DEF Twins, Goes, Handles, Handling
<1>9. /\ \A x : x # n /\ Clean(c, x)' => Clean(c, x)
      /\ Clean(c, n)' => (lent[c][n] # None <=> Head(events[c]).kind # "delete")
  BY <1>0, <1>1, EventTaken
<1>10. Offers(c)' BY <1>1, <1>5 DEF Offers
<1>11. Places(c)'
  <2>1. todo'[c] = {} BY <1>1 DEF Lasting
  <2>2. ASSUME NEW x \in Own[c], Handles(c, x)', cur'[c].type # "gone", lent[c][x] = None
        PROVE  FALSE
    BY <1>2, <1>8, <2>2 DEF Stat
  <2>3. ASSUME NEW x \in Own[c], Clean(c, x)', lent[c][x] # None,
               hent[x] = None \/ Removes(c, x)'
        PROVE  Puts(c, x)'
    <3>1. CASE x = n
      <4>1. cpc'[c] = "visit" /\ cur'[c].type = Stat(c, n) BY <1>2, <1>9, <2>3, <3>1
      <4> QED BY <1>4, <1>8, <2>3, <3>1, <4>1 DEF Puts, Carried, Stat
    <3>2. CASE x # n
      <4>1. Clean(c, x) /\ (hent[x] = None \/ Removes(c, x)) BY <1>6, <1>9, <2>3, <3>2
      <4> QED BY <1>8, <2>3, <4>1 DEF Tied, Places, Puts
    <3> QED BY <3>1, <3>2
  <2>4. ASSUME NEW x \in Own[c], NEW y \in Own[c], Twins(c, x, y) PROVE hent[x] # None
    BY <1>1, <2>4 DEF Tied, Places
  <2> QED BY <1>1, <1>8, <2>1, <2>2, <2>3, <2>4 DEF Places
<1>12. Pairs(c)' BY <1>1, <1>8 DEF Tied, Pairs
<1> QED BY <1>10, <1>11, <1>12 DEF Tied

\* A change of the user: what it makes of the name, and that it is queued.
LEMMA UserGives ==
  ASSUME TypeOK, Edits \subseteq {"create", "write", "touch", "delete"}, NEW c \in Client, User(c)
  PROVE  \E k \in EditKind, e \in {"create", "write", "touch", "delete"}, p \in Path :
           \E i \in Inode \cup {None} :
             /\ Edit(c, k, e, p) /\ Given(c, p, i)
             /\ i # None <=> e # "delete"
             /\ e = "delete" => p \notin Dir
             /\ \/ i \in {None, lent[c][p]}
                \/ lent[c][p] = None /\ \A q \in Path : lent[c][q] # i
<1>1. ASSUME NEW p \in Path, NEW i \in Inode, NEW v \in Version, Create(c, p, i, v)
      PROVE  /\ Edit(c, "create", "create", p) /\ Given(c, p, i) /\ i # None
             /\ lent[c][p] = None /\ \A q \in Path : lent[c][q] # i
  <2>1. /\ Edit(c, "create", "create", p) /\ i \notin Used(lent[c]) /\ lent[c][p] = None
        /\ lent' = [lent EXCEPT ![c][p] = i]
    BY <1>1 DEF Create, IsNext
  <2>2. Given(c, p, i) BY <2>1, HoldFunctions, PlainFunctions DEF Given
  <2> QED BY <2>1, <2>2, PlainFunctions, InodeAssumption DEF Used
<1>2. ASSUME NEW p \in Path, Touch(c, p) \/ \E v \in Version : Write(c, p, v)
      PROVE  /\ \E e \in {"write", "touch"} : Edit(c, e, e, p)
             /\ Given(c, p, lent[c][p]) /\ lent[c][p] # None
  BY <1>2, PlainFunctions DEF Write, Touch, Given
<1>3. ASSUME NEW p \in Path, Delete(c, p)
      PROVE  Edit(c, "delete", "delete", p) /\ Given(c, p, None) /\ p \notin Dir
  <2>1. p \notin Dir BY <1>3 DEF Delete, Edit
  <2>2. Edit(c, "delete", "delete", p) /\ lent' = [lent EXCEPT ![c][p] = None]
    BY <1>3, <2>1 DEF Delete
  <2> QED BY <2>1, <2>2, HoldFunctions, PlainFunctions DEF Given
<1>4. ~\E p, q \in Path : Link(c, p, q) BY DEF Link, Edit
<1>5. {"create", "write", "touch", "delete"} \subseteq EditKind BY DEF EditKind
<1>6. CASE \E p \in Path, i \in Inode, v \in Version : Create(c, p, i, v)
  BY <1>1, <1>5, <1>6
<1>7. CASE (\E p \in Path, v \in Version : Write(c, p, v)) \/ \E p \in Path : Touch(c, p)
  <2>1. PICK p \in Path : /\ \E e \in {"write", "touch"} : Edit(c, e, e, p)
                          /\ Given(c, p, lent[c][p]) /\ lent[c][p] # None
    BY <1>2, <1>7
  <2>2. PICK e \in {"write", "touch"} : Edit(c, e, e, p) BY <2>1
  <2>3. lent[c][p] \in Inode \cup {None} BY PlainFunctions
  <2> QED BY <1>5, <2>1, <2>2, <2>3
<1>8. CASE \E p \in Path : Delete(c, p)
  <2>1. PICK p \in Path : Delete(c, p) BY <1>8
  <2> QED BY <1>3, <1>5, <2>1
<1> QED BY <1>4, <1>6, <1>7, <1>8 DEF User

LEMMA UserTied ==
  ASSUME TypeOK, InStep, Owned, NEW c \in Client, Tied(c), Lasting(c), ~EarlyEdits,
         Edits \subseteq {"create", "write", "touch", "delete"}, User(c)
  PROVE  Tied(c)' /\ Lasting(c)'
<1>1. PICK k \in EditKind, e \in {"create", "write", "touch", "delete"}, p \in Path,
          i \in Inode \cup {None} :
         /\ Edit(c, k, e, p) /\ Given(c, p, i)
         /\ i # None <=> e # "delete"
         /\ e = "delete" => p \notin Dir
         /\ i \in {None, lent[c][p]} \/ (lent[c][p] = None /\ \A q \in Path : lent[c][q] # i)
  BY UserGives
<1>2. /\ Lasting(c)' /\ phase[c] = "watch"
      /\ lent'[c][p] = i /\ \A q \in Path : q # p => lent'[c][q] = lent[c][q]
      /\ \A q \in Path : Clean(c, q)' => q # p /\ Clean(c, q)
  BY <1>1, EditLasting
<1>3. PICK m \in [kind : EditKind, path : Path] :
         /\ m.kind = e /\ m.path = p
         /\ \/ events'[c] = Append(events[c], m)
            \/ /\ events'[c] = events[c] /\ events[c] # <<>>
               /\ events[c][Len(events[c])] = m
  BY <1>1, EditLasting
<1>4. UNCHANGED <<phase, tab, links, cur, cpc, up, hent, serverVars>>
  BY <1>1 DEF Edit, diskVars
<1>5. Items(events'[c]) = Items(events[c]) \cup {m}
  <2> DEFINE Event == [kind : EditKind, path : Path]
  <2>1. events[c] \in Seq(Event) BY DEF TypeOK, ClientOK
  <2> HIDE DEF Event
  <2>2. CASE events'[c] = Append(events[c], m)
    <3>1. m \in Event BY DEF Event
    <3> QED BY <2>1, <2>2, <3>1, ItemsSent
  <2>3. CASE events'[c] = events[c] /\ events[c] # <<>> /\ events[c][Len(events[c])] = m
    <3>1. Len(events[c]) \in 1 .. Len(events[c]) BY <2>1, <2>3, LenProperties, EmptySeq
    <3> QED BY <2>3, <3>1 DEF Items
  <2> QED BY <1>3, <2>2, <2>3
<1>6. \A x : Deletes(c, x)' <=> Deletes(c, x) \/ (e = "delete" /\ x = p)
  BY <1>3, <1>5 DEF Deletes
<1>7. ServerAt(c)' = ServerAt(c) /\ req' = req BY <1>4 DEF ServerAt, serverVars
<1>8. /\ \A x : Removes(c, x)' <=> Removes(c, x)
      /\ \A x : Handles(c, x)' <=> Handles(c, x)
      /\ \A x : Puts(c, x)' <=> Puts(c, x)
      /\ Offered(c)' = Offered(c)
  BY <1>4, <1>7 DEF Removes, Handles, Handling, Puts, Carried, Offered
<1>9. \A x : Goes(c, x)' <=> Goes(c, x) \/ (e = "delete" /\ x = p)
  BY <1>6, <1>8 DEF Goes
<1>10. ASSUME NEW x \in Path, NEW y \in Path
       PROVE  /\ Twins(c, x, y)' => Twins(c, x, y)
              /\ Twins(c, x, y) => Twins(c, x, y)' \/ (e = "delete" /\ p \in {x, y})
              /\ e = "delete" /\ p \in {x, y} => ~Twins(c, x, y)'
  <2>1. lent[c][x] \in Inode \cup {None} /\ lent[c][y] \in Inode \cup {None}
    BY PlainFunctions
  <2>2. CASE x # p /\ y # p BY <1>2, <2>2 DEF Twins
  <2>3. CASE x = p /\ y # p BY <1>1, <1>2, <2>3 DEF Twins
  <2>4. CASE x # p /\ y = p BY <1>1, <1>2, <2>4 DEF Twins
  <2>5. CASE x = p /\ y = p BY <2>5 DEF Twins
  <2> QED BY <2>2, <2>3, <2>4, <2>5
<1>11. links[c] = {} /\ Offered(c) = {} BY <1>2 DEF Tied, Offers
<1>12. \A x \in Own[c] : x \in Path BY NamesAssumption
<1>13. todo[c] = {} /\ todo'[c] = {} BY <1>2, <1>4 DEF Lasting
<1>14. Offers(c)' BY <1>2, <1>4, <1>8, <1>11 DEF Offers
<1>15. Places(c)'
  <2>1. ASSUME NEW x \in Own[c], Clean(c, x)', lent'[c][x] # None,
               hent[x] = None \/ Removes(c, x)
        PROVE  Puts(c, x)
    <3>1. Clean(c, x) /\ lent[c][x] # None BY <1>2, <1>12, <2>1
    <3> QED BY <2>1, <3>1 DEF Tied, Places
  <2>2. ASSUME NEW x \in Own[c], Handles(c, x), cur[c].type # "gone", lent'[c][x] = None
        PROVE  Deletes(c, x)'
    <3>1. CASE x = p BY <1>1, <1>2, <1>6, <2>2, <3>1
    <3>2. CASE x # p
      <4>1. lent[c][x] = None BY <1>2, <1>12, <2>2, <3>2
      <4> QED BY <1>6, <2>2, <4>1 DEF Tied, Places
    <3> QED BY <3>1, <3>2
  <2>3. ASSUME NEW x \in Own[c], NEW y \in Own[c], Twins(c, x, y)' PROVE hent[x] # None
    BY <1>2, <1>10, <1>12, <2>3 DEF Tied, Places
  <2> QED BY <1>4, <1>8, <1>13, <2>1, <2>2, <2>3 DEF Places
<1>16. Pairs(c)'
  <2>1. ASSUME NEW x \in Own[c], lent'[c][x] = None, hent[x] # None PROVE Goes(c, x)'
    <3>1. CASE x = p BY <1>1, <1>2, <1>9, <2>1, <3>1
    <3>2. CASE x # p
      <4>1. lent[c][x] = None BY <1>2, <1>12, <2>1, <3>2
      <4> QED BY <1>9, <2>1, <4>1 DEF Tied, Pairs
    <3> QED BY <3>1, <3>2
  <2>2. ASSUME NEW x \in Own[c], NEW y \in Own[c]
        PROVE  /\ Goes(c, x)' => ~Twins(c, x, y)'
               /\ x # y /\ hent[x] # None /\ hent[x] = hent[y] =>
                    Twins(c, x, y)' \/ Goes(c, x)' \/ Goes(c, y)'
               /\ Twins(c, x, y)' /\ hent[x] # None /\ hent[y] # None => hent[x] = hent[y]
    <3>1. /\ Goes(c, x) => ~Twins(c, x, y)
          /\ x # y /\ hent[x] # None /\ hent[x] = hent[y] =>
               Twins(c, x, y) \/ Goes(c, x) \/ Goes(c, y)
          /\ Twins(c, x, y) /\ hent[x] # None /\ hent[y] # None => hent[x] = hent[y]
      BY DEF Tied, Pairs
    <3> QED BY <1>9, <1>10, <1>12, <3>1
  <2> QED BY <1>4, <2>1, <2>2 DEF Pairs
<1> QED BY <1>2, <1>14, <1>15, <1>16 DEF Tied

-----------------------------------------------------------------------------
(* The server and the hard links.                                          *)

LEMMA ServeTied ==
  ASSUME TypeOK, InStep, NEW c \in Client, c \notin hurt, Tied(c),
         ServeMeta(c) \/ ServeLink(c) \/ ServeRm(c)
  PROVE  Tied(c)'
<1>1. /\ spc = "select" /\ conn' = c /\ up[c] # <<>> /\ up'[c] = Tail(up[c])
      /\ UNCHANGED <<phase, todo, tab, links, cur, cpc, events, lent, hent>>
      /\ \/ Head(up[c]).kind = "meta" /\ req' = Head(up[c]) /\ (spc' = "path" \/ ~open[c])
         \/ Head(up[c]).kind = "hl" /\ (spc' = "names" \/ ~open[c])
         \/ Head(up[c]).kind = "rm" /\ (spc' = "rmPath" \/ ~open[c])
  BY ClientFunctions DEF ServeMeta, ServeLink, ServeRm, Serve, Recv, Answer, clientVars,
                         userVars, diskVars
<1>2. open[c] /\ Now(c) BY InStepNow
<1>3. ServerAt(c) = "select" /\ ServerAt(c)' = spc' BY <1>1 DEF ServerAt
<1>4. up'[c] = <<>> /\ LastOf(up[c]) = Head(up[c])
  BY <1>1, <1>2, WireType, Shortened DEF Now, Stepping, Follows
<1>5. /\ Head(up[c]).kind = "meta" => cpc[c] = "metaEcho"
      /\ Head(up[c]).kind = "hl" => cpc[c] = "hlEcho"
      /\ Head(up[c]).kind = "rm" => cpc[c] = "rmEcho"
  BY <1>1, <1>2, <1>3, <1>4 DEF Now, Stepping, Sent
<1>6. Offered(c)' = Offered(c) BY <1>1, OfferedRead
<1>7. \A p : Removes(c, p)' <=> Removes(c, p)
  BY <1>1, <1>2, <1>3, <1>4, <1>5 DEF Removes
<1>8. Handling(c)' <=> Handling(c) BY <1>1, <1>3, <1>5 DEF Handling
<1>9. Handling(c) /\ Carried(c) => Carried(c)'
  BY <1>1, <1>2, <1>3, <1>4, <1>5 DEF Carried, Handling
<1>10. \A m \in Offered(c) : cpc[c] \in {"visit", "hlEcho", "metaEcho"} BY DEF Tied, Offers
<1> QED BY <1>1, <1>6, <1>7, <1>8, <1>9, <1>10, TiedOn

LEMMA TransferTied ==
  ASSUME TypeOK, InStep, Files, Lnk = {}, NEW c \in Client, c = conn, c \notin hurt, Tied(c),
         LockFile \/ RecvFileHeader \/ RecvData
  PROVE  Tied(c)'
<1>1. /\ spc \in {"lock", "file", "data"} /\ conn' = conn
      /\ spc' \in {"file", "select", "dead", "data"}
      /\ UNCHANGED <<phase, todo, tab, links, cur, cpc, events, lent>>
      /\ \/ UNCHANGED up
         \/ /\ up[c] # <<>> /\ up'[c] = Tail(up[c]) /\ Head(up[c]).kind \in {"file", "data"}
  BY ClientFunctions DEF LockFile, RecvFileHeader, RecvData, Recv, Answer, AfterData,
                         clientVars, userVars
<1>2. hent' = hent
  <2>1. req.type = "reg" BY <1>1, Reception DEF ServerAt
  <2> QED BY <2>1 DEF LockFile, RecvFileHeader, RecvData, WriteFile, diskVars
<1>3. /\ ServerAt(c) \notin {"path", "rmPath"} /\ ServerAt(c)' \notin {"path", "rmPath"}
  BY <1>1 DEF ServerAt
<1>4. Offered(c)' = Offered(c)
  <2>1. CASE UNCHANGED up BY <2>1 DEF Offered
  <2> QED BY <1>1, <2>1, OfferedRead
<1>5. Carried(c) => Carried(c)'
  <2>1. up'[c] # <<>> => up[c] # <<>> /\ LastOf(up'[c]) = LastOf(up[c])
    BY <1>1, InStepNow, WireType, Shortened DEF Now, Stepping
  <2> QED BY <1>1, <1>3, <2>1 DEF Carried
<1>6. /\ \A p : Removes(c, p)' <=> Removes(c, p)
      /\ Handling(c)' <=> Handling(c)
  BY <1>1, <1>3 DEF Removes, Handling
<1>7. \A m \in Offered(c) : cpc[c] \in {"visit", "hlEcho", "metaEcho"} BY DEF Tied, Offers
<1> QED BY <1>1, <1>2, <1>4, <1>5, <1>6, <1>7, TiedOn

\* A meta request puts the name there if it is not there, and then no twin of it is.
LEMMA RecvPathTied ==
  ASSUME TypeOK, InStep, Owned, Files, Lnk = {}, NEW c \in Client, c = conn, c \notin hurt,
         Tied(c), RecvPath
  PROVE  Tied(c)'
<1>1. PICK n : n = Head(up[c]).path OBVIOUS
<1>2. /\ spc = "path" /\ Recv(conn, "path") /\ conn' = conn
      /\ up[c] # <<>> /\ up'[c] = Tail(up[c])
      /\ UNCHANGED <<phase, todo, tab, links, cpc, cur, events, lent>>
  BY <1>1, ClientFunctions DEF RecvPath, Recv, clientVars, userVars
<1>3. \/ /\ req.type = "dir" /\ spc' \in {"select", "dead"}
         /\ IF hent[n] = None THEN NewEntry(n, <<>>) ELSE UNCHANGED diskVars
      \/ /\ req.type \in {"gone", "lnk"} /\ UNCHANGED diskVars
         /\ spc' \in {"select", "file", "dead"}
      \/ req.type = "reg" /\ SameDigest(n) /\ UNCHANGED diskVars /\ spc' \in {"select", "dead"}
      \/ req.type = "reg" /\ OpenToWrite(n) /\ spc' = "lock"
  BY <1>1 DEF RecvPath, Answer
<1>4. n \in Own[c] /\ n \in Path BY <1>1, <1>2, HeadOf, NamesAssumption
<1>5. /\ ServerAt(c) = "path" /\ ServerAt(c)' = spc'
      /\ Stepping("path", req.type, size, up[c], down[c], cpc[c], cur[c].type, buf[c].size)
  BY <1>2, Serving DEF ServerAt
<1>6. cpc[c] = "metaRes" BY <1>2, <1>5 DEF Stepping, Reads
<1>7. up'[c] = <<>> /\ req.type = cur[c].type
  BY <1>2, <1>5, <1>6 DEF Stepping, Sent
<1>8. n = cur[c].path
  <2>1. LastOf(up[c]) = Head(up[c])
    BY <1>2, <1>5, <1>7, WireType, Shortened DEF Stepping
  <2>2. LastOf(up[c]).path = cur[c].path
    BY <1>2, <1>6 DEF Files, PathSent
  <2> QED BY <1>1, <2>1, <2>2
<1>9. \A x \in Path : x # n => hent'[x] = hent[x]
  BY <1>3, <1>4, EntryMade DEF OpenToWrite, diskVars
<1>10. \/ hent'[n] = hent[n]
       \/ /\ hent[n] = None /\ hent'[n] # None /\ req.type \in {"dir", "reg"}
          /\ \A x \in Path : x # n => hent[x] # hent'[n]
  BY <1>3, <1>4, EntryMade DEF OpenToWrite, diskVars
<1>11. /\ \A x : ~Removes(c, x) /\ ~Removes(c, x)'
       /\ \A x : Handles(c, x) <=> x = n
       /\ \A x : ~Handles(c, x)'
       /\ links[c] = {} /\ Offered(c) = {} /\ Offered(c)' = {}
       /\ \A x : Deletes(c, x)' <=> Deletes(c, x)
       /\ \A x, y : Twins(c, x, y)' <=> Twins(c, x, y)
       /\ \A x : Clean(c, x)' <=> Clean(c, x)
  <2>1. links[c] = {} /\ Offered(c) = {} BY <1>6, NoneOffered
  <2>2. Offered(c)' = {} BY <1>7, ItemsEmpty DEF Offered
  <2>3. spc' \notin {"path", "rmPath"} BY <1>3
  <2> QED BY <1>2, <1>5, <1>6, <1>8, <2>1, <2>2, <2>3
          DEF Removes, Handles, Handling, Deletes, Twins, Clean
<1>12. \A x : (Goes(c, x)' <=> Goes(c, x)) /\ (Goes(c, x) <=> Deletes(c, x))
  BY <1>11 DEF Goes
<1>13. \A x \in Own[c] : x \in Path BY NamesAssumption
<1>14. Offers(c)' BY <1>2, <1>11 DEF Tied, Offers
<1>15. Places(c)'
  <2>1. ASSUME NEW x \in Own[c], x \in todo[c] PROVE hent'[x] = None
    BY <1>9, <1>11, <1>13, <2>1 DEF Tied, Places
  <2>2. ASSUME NEW x \in Own[c], Clean(c, x), lent[c][x] # None, hent'[x] = None
        PROVE  FALSE
    <3>1. hent[x] = None BY <1>9, <1>10, <1>13, <2>2
    <3>2. Puts(c, x) BY <2>2, <3>1 DEF Tied, Places
    <3>3. x = n /\ req.type = TypeOf(n) /\ (req.type = "reg" => req.ver # None)
      BY <1>5, <1>7, <1>11, <3>2 DEF Puts, Carried
    <3>4. req.type \in {"dir", "reg"} BY <3>3 DEF TypeOf
    <3>5. ~SameDigest(n) \/ req.type = "dir" BY <3>1, <3>3, <3>4 DEF SameDigest
    <3>6. \E data : NewEntry(n, data) BY <1>3, <3>1, <3>3, <3>4, <3>5 DEF OpenToWrite
    <3> QED BY <1>4, <2>2, <3>3, <3>6, EntryMade
  <2>3. ASSUME NEW x \in Own[c], NEW y \in Own[c], Twins(c, x, y), hent'[x] = None
        PROVE  phase[c] # "watch"
    <3>1. hent[x] = None BY <1>9, <1>10, <1>13, <2>3
    <3> QED BY <2>3, <3>1 DEF Tied, Places
  <2> QED BY <1>2, <1>11, <2>1, <2>2, <2>3 DEF Places
<1>16. Pairs(c)'
  <2>1. CASE hent'[n] = hent[n]
    <3>1. \A x \in Own[c] : hent'[x] = hent[x] BY <1>9, <1>13, <2>1
    <3> QED BY <1>2, <1>11, <1>12, <3>1 DEF Tied, Pairs
  <2>2. CASE /\ hent[n] = None /\ hent'[n] # None /\ req.type \in {"dir", "reg"}
             /\ \A x \in Path : x # n => hent[x] # hent'[n]
    <3>1. ASSUME NEW x \in Own[c], lent[c][x] = None, hent'[x] # None PROVE Goes(c, x)
      <4>1. CASE x = n BY <1>7, <1>11, <1>12, <2>2, <3>1, <4>1 DEF Tied, Places
      <4>2. CASE x # n BY <1>9, <1>13, <3>1, <4>2 DEF Tied, Pairs
      <4> QED BY <4>1, <4>2
    <3>2. ASSUME NEW y \in Own[c], Twins(c, n, y) PROVE hent[y] = None
      <4>1. y \in todo[c] BY <1>4, <1>11, <2>2, <3>2 DEF Tied, Places
      <4> QED BY <4>1 DEF Tied, Places
    <3>3. ASSUME NEW x \in Own[c], NEW y \in Own[c]
          PROVE  /\ x # y /\ hent'[x] # None /\ hent'[x] = hent'[y] =>
                      Twins(c, x, y) \/ Goes(c, x) \/ Goes(c, y)
                 /\ Twins(c, x, y) /\ hent'[x] # None /\ hent'[y] # None => hent'[x] = hent'[y]
      <4>1. x \in Path /\ y \in Path BY <1>13
      <4>2. CASE x # n /\ y # n
        <5>1. hent'[x] = hent[x] /\ hent'[y] = hent[y] BY <1>9, <4>1, <4>2
        <5> QED BY <5>1 DEF Tied, Pairs
      <4>3. CASE x = n /\ y # n
        <5>1. hent'[y] = hent[y] /\ hent[y] # hent'[n] BY <1>9, <2>2, <4>1, <4>3
        <5> QED BY <3>2, <4>3, <5>1
      <4>4. CASE x # n /\ y = n
        <5>1. hent'[x] = hent[x] /\ hent[x] # hent'[n] BY <1>9, <2>2, <4>1, <4>4
        <5>2. Twins(c, x, y) => Twins(c, n, x) BY <4>4 DEF Twins
        <5> QED BY <3>2, <4>4, <5>1, <5>2
      <4>5. CASE x = n /\ y = n BY <4>5
      <4> QED BY <4>2, <4>3, <4>4, <4>5
    <3>4. \A x, y \in Own[c] : Goes(c, x) => ~Twins(c, x, y) BY DEF Tied, Pairs
    <3> QED BY <1>2, <1>11, <1>12, <3>1, <3>3, <3>4 DEF Pairs
  <2> QED BY <1>10, <2>1, <2>2
<1> QED BY <1>14, <1>15, <1>16 DEF Tied

\* A pair of names is read: the earlier one is there, and the later gets its inode.
LEMMA RecvNamesTied ==
  ASSUME TypeOK, InStep, Owned, NEW c \in Client, c = conn, c \notin hurt, Tied(c), Lasting(c),
         RecvNames
  PROVE  Tied(c)'
<1> DEFINE m == Head(up[c])
<1>1. PICK s, t : s = m.src /\ t = m.tgt OBVIOUS
<1>2. /\ spc = "names" /\ Recv(conn, "names") /\ conn' = conn /\ spc' = "select"
      /\ up[c] # <<>> /\ up'[c] = Tail(up[c]) /\ m.kind = "names"
      /\ UNCHANGED <<phase, todo, tab, links, cpc, cur, events, lent>>
      /\ hent' = IF hent[s] # None /\ hent[t] = None
                 THEN [hent EXCEPT ![t] = hent[s]] ELSE hent
  BY <1>1, ClientFunctions DEF RecvNames, Recv, clientVars, userVars
<1>3. s \in Regular(c) /\ t \in Regular(c) BY <1>1, <1>2, HeadOf
<1>4. s \in Own[c] /\ t \in Own[c] /\ s \in Path /\ t \in Path
  BY <1>3, NamesAssumption DEF Regular
<1>5. Offered(c) = Offered(c)' \cup {m} BY <1>2, OfferedRead
<1>6. /\ t = cur[c].path /\ Twins(c, s, t) /\ s \notin todo[c]
      /\ phase[c] = "scan" /\ cpc[c] \in {"visit", "hlEcho", "metaEcho"}
  BY <1>1, <1>5 DEF Tied, Offers
<1>7. events[c] = <<>> /\ \A x : Clean(c, x) <=> x \notin todo[c] BY <1>6 DEF Lasting, Clean
<1>8. ServerAt(c) = "names" /\ ServerAt(c)' = "select" BY <1>2 DEF ServerAt
<1>9. /\ \A x : ~Removes(c, x) /\ ~Removes(c, x)'
      /\ \A x : ~Deletes(c, x) /\ ~Deletes(c, x)'
      /\ \A x : ~Goes(c, x) /\ ~Goes(c, x)'
      /\ \A x : Handles(c, x) <=> x = t
      /\ \A x : Handles(c, x)' <=> x = t
      /\ \A x, y : Twins(c, x, y)' <=> Twins(c, x, y)
      /\ \A x : Clean(c, x)' <=> Clean(c, x)
  BY <1>2, <1>6, <1>7, <1>8, ItemsEmpty
     DEF Removes, Deletes, Goes, Handles, Handling, Twins, Clean
<1>10. hent[s] # None
  <2>1. Clean(c, s) /\ lent[c][s] # None /\ ~Puts(c, s) /\ s # t
    BY <1>6, <1>7, <1>9 DEF Twins, Puts
  <2> QED BY <1>4, <2>1 DEF Tied, Places
<1>11. hent'[t] = hent[s] /\ \A x \in Path : x # t => hent'[x] = hent[x]
  <2>1. hent[t] # None => hent[t] = hent[s] BY <1>4, <1>6, <1>10 DEF Tied, Pairs
  <2> QED BY <1>2, <1>4, <1>10, <2>1, Entries
<1>12. \A x \in Own[c] : x \in Path BY NamesAssumption
<1>13. Offers(c)' BY <1>2, <1>5, <1>9 DEF Tied, Offers
<1>14. Places(c)'
  <2>1. ASSUME NEW x \in Own[c], x \in todo[c] PROVE hent'[x] = None /\ x # t
    BY <1>9, <1>11, <1>12, <2>1 DEF Tied, Places
  <2>2. ASSUME NEW x \in Own[c], Clean(c, x), lent[c][x] # None, hent'[x] = None PROVE FALSE
    <3>1. x # t BY <1>10, <1>11, <2>2
    <3>2. hent[x] = None BY <1>11, <1>12, <2>2, <3>1
    <3>3. Handles(c, x) BY <2>2, <3>2 DEF Tied, Places, Puts
    <3> QED BY <1>9, <3>1, <3>3
  <2>3. lent[c][t] # None BY <1>6 DEF Twins
  <2>4. ASSUME NEW x \in Own[c], hent'[x] = None PROVE ~Handles(c, x)'
    BY <1>9, <1>10, <1>11, <2>4
  <2> QED BY <1>2, <1>6, <1>9, <2>1, <2>2, <2>3, <2>4 DEF Places
<1>15. Pairs(c)'
  <2>1. ASSUME NEW x \in Own[c], lent[c][x] = None PROVE hent'[x] = None
    <3>1. x # t BY <1>6, <2>1 DEF Twins
    <3> QED BY <1>9, <1>11, <1>12, <2>1, <3>1 DEF Tied, Pairs
  <2>2. ASSUME NEW x \in Own[c], NEW y \in Own[c]
        PROVE  /\ x # y /\ hent[x] # None /\ hent[x] = hent[y] => Twins(c, x, y)
               /\ Twins(c, x, y) /\ hent[x] # None /\ hent[y] # None => hent[x] = hent[y]
    BY <1>9 DEF Tied, Pairs
  <2>3. ASSUME NEW y \in Own[c], y # t
        PROVE  /\ hent'[y] # None => (hent'[y] = hent'[t] <=> Twins(c, t, y))
               /\ Twins(c, y, t) <=> Twins(c, t, y)
    <3>1. hent'[y] = hent[y] BY <1>11, <1>12, <2>3
    <3>2. CASE y = s BY <1>6, <1>11, <3>1, <3>2 DEF Twins
    <3>3. CASE y # s
      <4>1. hent[y] # None => (hent[y] = hent[s] <=> Twins(c, s, y))
        BY <1>4, <1>10, <2>2, <3>3 DEF Twins
      <4>2. Twins(c, s, y) <=> Twins(c, t, y) BY <1>6, <2>3, <3>3 DEF Twins
      <4> QED BY <1>11, <3>1, <4>1, <4>2 DEF Twins
    <3> QED BY <3>2, <3>3
  <2>4. ASSUME NEW x \in Own[c], NEW y \in Own[c]
        PROVE  /\ x # y /\ hent'[x] # None /\ hent'[x] = hent'[y] => Twins(c, x, y)
               /\ Twins(c, x, y) /\ hent'[x] # None /\ hent'[y] # None => hent'[x] = hent'[y]
    <3>1. CASE x # t /\ y # t
      <4>1. hent'[x] = hent[x] /\ hent'[y] = hent[y] BY <1>11, <1>12, <3>1
      <4> QED BY <2>2, <4>1
    <3>2. CASE x # t /\ y = t BY <2>3, <3>2
    <3>3. CASE x = t /\ y # t BY <2>3, <3>3
    <3>4. CASE x = t /\ y = t BY <3>4 DEF Twins
    <3> QED BY <3>1, <3>2, <3>3, <3>4
  <2> QED BY <1>2, <1>9, <2>1, <2>4 DEF Pairs
<1> QED BY <1>13, <1>14, <1>15 DEF Tied

\* A deletion is read: the name has no twin any more.
LEMMA RecvRmPathTied ==
  ASSUME TypeOK, InStep, Owned, NEW c \in Client, c = conn, c \notin hurt, Tied(c), RecvRmPath
  PROVE  Tied(c)'
<1>1. PICK n : n = Head(up[c]).path OBVIOUS
<1>2. /\ spc = "rmPath" /\ Recv(conn, "path") /\ conn' = conn /\ spc' = "select"
      /\ up[c] # <<>> /\ up'[c] = Tail(up[c]) /\ Head(up[c]).kind = "path"
      /\ UNCHANGED <<phase, todo, tab, links, cpc, cur, events, lent>>
      /\ hent' = [hent EXCEPT ![n] = None]
  BY <1>1, ClientFunctions DEF RecvRmPath, Recv, clientVars, userVars
<1>3. n \in Own[c] /\ n \in Path BY <1>1, <1>2, HeadOf, NamesAssumption
<1>4. hent'[n] = None /\ \A x \in Own[c] : x # n => hent'[x] = hent[x]
  BY <1>2, <1>3, Entries, NamesAssumption
<1>5. ServerAt(c) = "rmPath" /\ ServerAt(c)' = "select" BY <1>2 DEF ServerAt
<1>6. cpc[c] # "metaRes" BY <1>2, <1>5, InStepNow DEF Now, Stepping, Sent
<1>7. up'[c] # <<>> => LastOf(up'[c]) = LastOf(up[c])
  BY <1>2, InStepNow, WireType, Shortened DEF Now, Stepping
<1>8. /\ Removes(c, n) /\ \A x : Removes(c, x)' => Removes(c, x)
      /\ \A x : x # n => (Removes(c, x)' <=> Removes(c, x))
      /\ \A x : Deletes(c, x)' <=> Deletes(c, x)
      /\ \A x : Handles(c, x)' <=> Handles(c, x)
      /\ \A x, y : Twins(c, x, y)' <=> Twins(c, x, y)
      /\ \A x : Clean(c, x)' <=> Clean(c, x)
      /\ Carried(c) => Carried(c)'
  BY <1>1, <1>2, <1>5, <1>6, <1>7
     DEF Removes, Deletes, Handles, Handling, Twins, Clean, Carried
<1>9. /\ Goes(c, n) /\ \A x : Goes(c, x)' => Goes(c, x)
      /\ \A x : x # n => (Goes(c, x)' <=> Goes(c, x))
      /\ \A x : Puts(c, x) => Puts(c, x)'
  BY <1>2, <1>8 DEF Goes, Puts
<1>10. \A x \in Own[c] : ~Twins(c, n, x) BY <1>3, <1>9 DEF Tied, Pairs
<1>11. Offered(c)' = Offered(c) BY <1>2, OfferedRead
<1>12. Offers(c)' BY <1>2, <1>8, <1>11 DEF Tied, Offers
<1>13. Places(c)'
  <2>1. ASSUME NEW x \in Own[c], x \in todo[c] PROVE hent'[x] = None /\ ~Handles(c, x)
    BY <1>4, <2>1 DEF Tied, Places
  <2>2. ASSUME NEW x \in Own[c], Clean(c, x), lent[c][x] # None,
               hent'[x] = None \/ Removes(c, x)'
        PROVE  Puts(c, x)
    <3>1. hent[x] = None \/ Removes(c, x) BY <1>4, <1>8, <2>2
    <3> QED BY <2>2, <3>1 DEF Tied, Places
  <2>3. ASSUME NEW x \in Own[c], hent'[x] = None, NEW y \in Own[c], Twins(c, x, y)
        PROVE  /\ phase[c] # "watch"
               /\ Handles(c, x) /\ y \notin todo[c] => links[c] # {} \/ Offered(c) # {}
    <3>1. x # n BY <1>10, <2>3
    <3>2. hent[x] = None BY <1>4, <2>3, <3>1
    <3> QED BY <2>3, <3>2 DEF Tied, Places
  <2>4. \A x \in Own[c] : Handles(c, x) /\ cur[c].type # "gone" /\ lent[c][x] = None =>
          Deletes(c, x)
    BY DEF Tied, Places
  <2> QED BY <1>2, <1>8, <1>9, <1>11, <2>1, <2>2, <2>3, <2>4 DEF Places
<1>14. Pairs(c)'
  <2>1. ASSUME NEW x \in Own[c], lent[c][x] = None, hent'[x] # None PROVE Goes(c, x)'
    BY <1>4, <1>9, <2>1 DEF Tied, Pairs
  <2>2. ASSUME NEW x \in Own[c], NEW y \in Own[c]
        PROVE  /\ Goes(c, x)' => ~Twins(c, x, y)
               /\ x # y /\ hent'[x] # None /\ hent'[x] = hent'[y] =>
                    Twins(c, x, y) \/ Goes(c, x)' \/ Goes(c, y)'
               /\ Twins(c, x, y) /\ hent'[x] # None /\ hent'[y] # None => hent'[x] = hent'[y]
    <3>1. /\ Goes(c, x) => ~Twins(c, x, y)
          /\ x # y /\ hent[x] # None /\ hent[x] = hent[y] =>
               Twins(c, x, y) \/ Goes(c, x) \/ Goes(c, y)
          /\ Twins(c, x, y) /\ hent[x] # None /\ hent[y] # None => hent[x] = hent[y]
      BY DEF Tied, Pairs
    <3>2. CASE x # n /\ y # n BY <1>4, <1>9, <3>1, <3>2
    <3>3. CASE x = n \/ y = n BY <1>4, <1>9, <3>1, <3>3
    <3> QED BY <3>2, <3>3
  <2> QED BY <1>2, <1>8, <2>1, <2>2 DEF Pairs
<1> QED BY <1>12, <1>13, <1>14 DEF Tied

-----------------------------------------------------------------------------
(* Every step keeps the hard links.                                        *)

\* What happens to others leaves the hard links of a client as they are.
LEMMA OthersTied ==
  ASSUME NEW k \in Client, Tied(k), Same(k), phase'[k] = phase[k],
         \A p \in Own[k] : hent'[p] = hent[p],
         UNCHANGED <<spc, conn, req>> \/ (ServerAt(k) = "select" /\ ServerAt(k)' = "select")
  PROVE  Tied(k)'
<1>1. /\ Offered(k)' = Offered(k)
      /\ \A p : Removes(k, p)' <=> Removes(k, p)
      /\ Handling(k)' <=> Handling(k)
      /\ Carried(k)' <=> Carried(k)
  BY DEF Same, Offered, Removes, Handling, Carried, ServerAt
<1>2. \A m \in Offered(k) : cpc[k] \in {"visit", "hlEcho", "metaEcho"} BY DEF Tied, Offers
<1> QED BY <1>1, <1>2, TiedOn DEF Same

LEMMA MovedLinking ==
  ASSUME TypeOK, Linking, NEW c \in Client, UNCHANGED <<serverVars, diskVars>>,
         hurt \subseteq hurt', \A k \in Client : k # c => Same(k) /\ phase'[k] = phase[k],
         Lasting(c)', c \notin hurt' => Tied(c)'
  PROVE  Linking'
<1>1. ASSUME NEW k \in Client, k # c PROVE Lasting(k)'
  BY <1>1, OthersLasting DEF Linking
<1>2. ASSUME NEW k \in Client, k # c, k \notin hurt' PROVE Tied(k)'
  <2>1. Tied(k) BY <1>2 DEF Linking
  <2>2. UNCHANGED <<spc, conn, req>> /\ hent' = hent BY DEF serverVars, diskVars
  <2> QED BY <1>2, <2>1, <2>2, OthersTied
<1> QED BY <1>1, <1>2 DEF Linking

LEMMA ServedLinking ==
  ASSUME TypeOK, Linking, NEW c \in Client, Alone(c), conn' = c, spc = "select" \/ conn = c,
         UNCHANGED <<clientVars, events, userVars>>, hurt \subseteq hurt',
         \A k \in Client : k # c => up'[k] = up[k],
         \A p \in Path : p \notin Own[c] => hent'[p] = hent[p],
         c \notin hurt' => Tied(c)'
  PROVE  Linking'
<1>1. ASSUME NEW k \in Client PROVE Lasting(k)'
  <2>1. Lasting(k) BY DEF Linking
  <2> QED BY <2>1, StaysLasting DEF clientVars, userVars, Lasting
<1>2. ASSUME NEW k \in Client, k # c, k \notin hurt' PROVE Tied(k)'
  <2>1. Tied(k) /\ Same(k) /\ phase'[k] = phase[k]
    BY <1>2 DEF Linking, Same, clientVars, userVars
  <2>2. ServerAt(k) = "select" /\ ServerAt(k)' = "select" BY <1>2 DEF ServerAt
  <2>3. \A p \in Own[k] : p \notin Own[c] /\ p \in Path BY <1>2, NamesAssumption DEF Alone
  <2> QED BY <2>1, <2>2, <2>3, OthersTied
<1> QED BY <1>1, <1>2 DEF Linking

LEMMA NothingLinking ==
  ASSUME Linking, UNCHANGED <<clientVars, events, userVars, up, spc, conn, req, diskVars, hurt>>
  PROVE  Linking'
<1>1. ASSUME NEW k \in Client PROVE Same(k) /\ phase'[k] = phase[k]
  BY DEF Same, clientVars, userVars
<1>2. ASSUME NEW k \in Client PROVE Lasting(k)' BY <1>1, OthersLasting DEF Linking
<1>3. ASSUME NEW k \in Client \ hurt PROVE Tied(k)'
  BY <1>1, OthersTied DEF Linking, diskVars
<1> QED BY <1>2, <1>3 DEF Linking

LEMMA ClientLinking ==
  ASSUME TypeOK, InStep, Owned, LinkedSession, Linking, NEW c \in Client, ClientStep(c)
  PROVE  Linking'
<1>1. /\ UNCHANGED <<serverVars, diskVars>> /\ hurt \subseteq hurt'
  BY DEF ClientStep, Visit, StartWatch, SendLink, RecvLinkEcho, SendMeta, RecvMetaEcho,
         RecvMetaRes, SendFileHeader, SendFileData, SyncEvent, DeleteEvent, RecvRmEcho,
         OpenAgain, Close
<1>2. Lasting(c) /\ Lasting(c)' BY NextLasting DEF Linking
<1>3. ASSUME c \notin hurt' PROVE Tied(c)'
  <2>1. c \notin hurt /\ Tied(c) /\ Lnk = {} BY <1>1, <1>3 DEF Linking, LinkedSession
  <2> QED BY <1>2, <1>3, <2>1, VisitTied, StartWatchTied, EventTied, SendsTied DEF ClientStep
<1> QED BY <1>1, <1>2, <1>3, ClientAlone, MovedLinking

LEMMA UserLinking ==
  ASSUME TypeOK, InStep, Owned, LinkedSession, Linking, NEW c \in Client, User(c)
  PROVE  Linking'
<1>1. UNCHANGED <<phase, tab, links, cur, cpc, rd, buf, up, serverVars, diskVars, hurt>>
  BY UserAlone
<1>2. \A k \in Client : k # c => Same(k) /\ phase'[k] = phase[k]
  BY <1>1, UserAlone DEF Same
<1>3. /\ Lasting(c) /\ ~EarlyEdits /\ Edits \subseteq {"create", "write", "touch", "delete"}
      /\ c \notin hurt => Tied(c)
  BY DEF Linking, LinkedSession
<1>4. PICK k \in EditKind, e \in {"create", "write", "touch", "delete"}, p \in Path,
          i \in Inode \cup {None} :
         /\ Edit(c, k, e, p) /\ Given(c, p, i)
         /\ i # None <=> e # "delete"
         /\ e = "delete" => p \notin Dir
  BY <1>3, UserGives
<1>5. Lasting(c)' BY <1>3, <1>4, EditLasting
<1>6. c \notin hurt' => Tied(c)' BY <1>1, <1>3, UserTied
<1> QED BY <1>1, <1>2, <1>5, <1>6, MovedLinking

LEMMA CrashLinking ==
  ASSUME TypeOK, Linking, NEW c \in Client, Crash(c)
  PROVE  Linking'
<1>1. /\ UNCHANGED <<phase, todo, tab, links, cur, rd, buf, events, lent, up>>
      /\ UNCHANGED <<serverVars, diskVars>>
      /\ hurt' = hurt \cup {c} /\ Goto(c, "down")
  BY DEF Crash, Fault, userVars
<1>2. cpc'[c] = "down" /\ \A k \in Client : k # c => cpc'[k] = cpc[k] BY <1>1, GotoOf
<1>3. Lasting(c)'
  <2>1. Lasting(c) BY DEF Linking
  <2> QED BY <1>1, <1>2, <2>1, StaysLasting
<1>4. \A k \in Client : k # c => Same(k) /\ phase'[k] = phase[k] BY <1>1, <1>2 DEF Same
<1> QED BY <1>1, <1>3, <1>4, MovedLinking

LEMMA OutsideNames ==
  ASSUME TypeOK, NEW c \in Client, UNCHANGED diskVars \/ \E p \in Own[c] : Alters(p)
  PROVE  \A p \in Path : p \notin Own[c] => hent'[p] = hent[p]
<1>1. CASE UNCHANGED diskVars BY <1>1 DEF diskVars
<1>2. CASE \E p \in Own[c] : Alters(p)
  <2>1. PICK n \in Own[c] : Alters(n) BY <1>2
  <2>2. n \in Path BY NamesAssumption
  <2> QED BY <2>1, <2>2, Entries, EntryMade DEF Alters, diskVars
<1> QED BY <1>1, <1>2

LEMMA RequestLinking ==
  ASSUME TypeOK, InStep, LinkedSession, Linking,
         \/ Select
         \/ \E c \in Client : ServeMeta(c) \/ ServeLink(c) \/ ServeRm(c) \/ Logout(c)
                              \/ Garbage(c)
  PROVE  Linking'
<1>1. CASE Select \/ \E c \in Client : Logout(c)
  BY <1>1, NothingLinking DEF Select, Logout
<1>2. ASSUME NEW c \in Client, ServeMeta(c) \/ ServeLink(c) \/ ServeRm(c) PROVE Linking'
  <2>1. /\ UNCHANGED <<clientVars, events, userVars, diskVars, hurt>>
        /\ up' = [up EXCEPT ![c] = Tail(@)] /\ conn' = c /\ spc = "select"
    BY <1>2 DEF ServeMeta, ServeLink, ServeRm, Serve, Recv
  <2>2. \A k \in Client : k # c => up'[k] = up[k] BY <2>1, ClientFunctions
  <2>3. c \notin hurt' => Tied(c)' BY <1>2, <2>1, ServeTied DEF Linking
  <2>4. Alone(c) /\ hent' = hent BY <2>1 DEF LinkedSession, diskVars
  <2> QED BY <2>1, <2>2, <2>3, <2>4, ServedLinking
<1>3. ASSUME NEW c \in Client, Garbage(c) PROVE Linking'
  <2>1. /\ UNCHANGED <<clientVars, events, userVars, up, diskVars, hurt>> /\ conn' = c
        /\ spc = "select" \/ conn = c
    BY <1>3 DEF Garbage
  <2>2. c \in hurt' BY <1>3, <2>1, NoGarbage
  <2>3. Alone(c) /\ hent' = hent BY <2>1 DEF LinkedSession, diskVars
  <2> QED BY <2>1, <2>2, <2>3, ServedLinking
<1> QED BY <1>1, <1>2, <1>3

LEMMA ReceiveLinking ==
  ASSUME TypeOK, InStep, Owned, Files, LinkedSession, Linking,
         RecvPath \/ LockFile \/ RecvFileHeader \/ RecvData \/ RecvNames \/ RecvRmPath
  PROVE  Linking'
<1>1. PICK c \in Client : c = conn BY Connection
<1>2. Alone(c) /\ Lnk = {} BY DEF LinkedSession
<1>3. /\ UNCHANGED <<clientVars, events, userVars, hurt>> /\ conn' = c
      /\ UNCHANGED up \/ up' = [up EXCEPT ![c] = Tail(@)]
  BY <1>1 DEF RecvPath, LockFile, RecvFileHeader, RecvData, RecvNames, RecvRmPath, Recv
<1>4. \A k \in Client : k # c => up'[k] = up[k] BY <1>3, ClientFunctions
<1>5. \A p \in Path : p \notin Own[c] => hent'[p] = hent[p]
  <2>1. CASE RecvNames
    <3>1. PICK t : t = Head(up[c]).tgt OBVIOUS
    <3>2. t \in Own[c] BY <1>1, <2>1, <3>1, HeadOf DEF RecvNames, Regular
    <3>3. hent' = hent \/ \E i : hent' = [hent EXCEPT ![t] = i]
      BY <1>1, <2>1, <3>1 DEF RecvNames
    <3> QED BY <3>2, <3>3, Entries
  <2> QED BY <1>1, <2>1, ReceiveAlters, OutsideNames
<1>6. ASSUME c \notin hurt PROVE Tied(c)'
  <2>1. Tied(c) /\ Lasting(c) BY <1>6 DEF Linking
  <2> QED BY <1>1, <1>2, <1>6, <2>1, RecvPathTied, TransferTied, RecvNamesTied, RecvRmPathTied
<1> QED BY <1>1, <1>2, <1>3, <1>4, <1>5, <1>6, ServedLinking

LEMMA EndLinking ==
  ASSUME TypeOK, InStep, Owned, LinkedSession, Linking,
         LockHeld \/ EofPath \/ EofFileHeader \/ ShortData \/ EofNames
  PROVE  Linking'
<1>1. conn \in Client /\ Alone(conn) BY Connection DEF LinkedSession
<1>2. /\ UNCHANGED <<clientVars, events, userVars, up, conn>> /\ hurt \subseteq hurt'
      /\ conn \in hurt'
  BY Serving DEF LockHeld, EofPath, EofFileHeader, ShortData, EofNames, Fault, Eof
<1>3. \A p \in Path : p \notin Own[conn] => hent'[p] = hent[p]
  BY <1>1, EndAlters, OutsideNames
<1> QED BY <1>1, <1>2, <1>3, ServedLinking

LEMMA LinkingInit == Init => Linking
<1> SUFFICES ASSUME Init PROVE Linking
  OBVIOUS
<1>1. ASSUME NEW c \in Client
      PROVE  /\ todo[c] = {p \in Path : lent[c][p] # None}
             /\ tab[c] = {} /\ links[c] = {} /\ up[c] = <<>> /\ events[c] = <<>>
             /\ phase[c] = "scan" /\ cpc[c] = "idle" /\ ServerAt(c) = "select"
  BY DEF Init, ServerAt
<1>2. \A p \in Path : hent[p] = None BY DEF Init
<1>3. ASSUME NEW c \in Client PROVE Lasting(c)
  <2>1. Told(c) BY <1>1 DEF Told, LastTells
  <2> QED BY <1>1, <2>1 DEF Lasting
<1>4. ASSUME NEW c \in Client PROVE Tied(c)
  <2>1. \A p \in Own[c] : p \in Path BY NamesAssumption
  <2>2. Offered(c) = {} /\ \A p : ~Handles(c, p) /\ ~Goes(c, p)
    BY <1>1, ItemsEmpty DEF Offered, Handles, Handling, Goes, Deletes, Removes
  <2>3. Offers(c)
    <3>1. \A q \in Path, i \in Inode : lent[c][q] = i => q \in todo[c]
      BY <1>1, InodeAssumption
    <3> QED BY <1>1, <2>2, <3>1 DEF Offers
  <2>4. Places(c) BY <1>1, <1>2, <2>1, <2>2 DEF Places, Clean
  <2>5. Pairs(c) BY <1>2, <2>1, <2>2 DEF Pairs
  <2> QED BY <2>3, <2>4, <2>5 DEF Tied
<1> QED BY <1>3, <1>4 DEF Linking

LEMMA LinkingStep ==
  LinkedSession /\ TypeOK /\ InStep /\ Owned /\ Files /\ Linking /\ [Next]_vars => Linking'
<1> SUFFICES ASSUME LinkedSession, TypeOK, InStep, Owned, Files, Linking, [Next]_vars
             PROVE  Linking'
  OBVIOUS
<1>1. ASSUME NEW c \in Client, ClientStep(c) \/ User(c) \/ Crash(c) PROVE Linking'
  BY <1>1, ClientLinking, UserLinking, CrashLinking
<1>2. CASE ServerStep
  BY <1>2, RequestLinking, ReceiveLinking, EndLinking DEF ServerStep
<1>3. CASE UNCHANGED vars
  BY <1>3, NothingLinking DEF vars, serverVars
<1> QED BY <1>1, <1>2, <1>3 DEF Next

LEMMA LinkingShow ==
  ASSUME TypeOK, InStep, Linking
  PROVE  LinksKept
<1> SUFFICES ASSUME Quiet, NEW c \in Client \ hurt, NEW p \in Own[c], NEW q \in Own[c],
                    lent[c][p] # None, lent[c][q] # None
             PROVE  lent[c][p] = lent[c][q] <=> hent[p] = hent[q]
  BY DEF LinksKept
<1>1. cpc[c] # "down" BY InStepNow DEF Now, Stepping, Sent
<1>2. /\ cpc[c] = "idle" /\ phase[c] # "scan" /\ events[c] = <<>> /\ up[c] = <<>>
      /\ spc = "select"
  BY <1>1 DEF Quiet, Idle
<1>3. todo[c] = {} BY <1>2 DEF Linking, Lasting
<1>4. \A x : ~Handles(c, x) /\ ~Goes(c, x) /\ Clean(c, x)
  BY <1>2, <1>3, ItemsEmpty DEF Handles, Handling, Goes, Deletes, Removes, Clean, ServerAt
<1>5. Tied(c) BY DEF Linking
<1>6. hent[p] # None /\ hent[q] # None BY <1>4, <1>5 DEF Tied, Places, Puts
<1> QED BY <1>4, <1>5, <1>6 DEF Tied, Pairs, Twins

\* Once everything has been handled, two names of a home are one file on the server
\* exactly if they are one file in the home (hl[] of traverse_file, send_hardlink and the
\* link of csiebox_server.c 483-513, which makes nothing when the earlier name is not
\* there or the later one is): for any number of clients, names and links, also when
\* names are deleted, changed and made afterwards and when faults hit other clients.  The
\* invariant says why the link is never too late: the server has no name the traversal
\* has not come to, and the earlier names of the file are offered before the client asks
\* about the later one, whose own request would make a second file.  What LinkedSession
\* leaves out is a link made while the client runs, which its watch does not see as one,
\* symbolic links, changes before the watch and clients with one account.
THEOREM LinksStay == LinkedSession => (Spec => []LinksKept)
<1> SUFFICES ASSUME LinkedSession PROVE Spec => []LinksKept
  OBVIOUS
<1> DEFINE Inv == TypeOK /\ InStep /\ Owned /\ Files /\ Linking
<1>0. OneNameLinks BY DEF LinkedSession
<1>1. Init => Inv
  BY <1>0, Initially, InStepInit, OwnedInit, FilesInit, LinkingInit
<1>2. Inv /\ [Next]_vars => Inv'
  BY TypeStep, InStepStep, OwnedStep, FilesStep, LinkingStep
<1>3. Inv => LinksKept BY LinkingShow
<1> QED BY <1>1, <1>2, <1>3, PTL DEF Spec
=============================================================================
