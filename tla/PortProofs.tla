----------------------------- MODULE PortProofs -----------------------------
(***************************************************************************)
(* Proofs about PortRegister: types, that a client reaches the server it   *)
(* asked for, and that a sweep gives back the ports of servers that are    *)
(* gone.                                                                   *)
(***************************************************************************)
EXTENDS PortRegister, SequenceTheorems, TLAPS

\* What the properties are stated for.
Distinct == \A u, v \in User : Code[u] = Code[v] => u = v

InChain(r) == \E b \in Slot : \E i \in DOMAIN chain[b] : chain[b][i] = r
ToVisit(r) == \E b \in Slot : \E i \in DOMAIN records[b] : records[b][i] = r
Live(u) == srv[u].pc \in {"told", "up"}

\* A record is in the bucket of its code, once.
Placed == \A b \in Slot : \A i \in DOMAIN chain[b] : Bucket(chain[b][i].code) = b
Single ==
  \A b \in Slot : \A i, j \in DOMAIN chain[b] : chain[b][i].code = chain[b][j].code => i = j

\* The port of a record is reserved, and the record's alone, old ones included.
Reserving == \A r \in Record : InChain(r) => reserve[r.port]
Apart ==
  \A r, s \in Record :
    (InChain(r) \/ ToVisit(r)) /\ (InChain(s) \/ ToVisit(s)) /\ r.port = s.port
      => r.code = s.code

\* So is the port of a server, and its record, if any, is of the server's code.
Serving == \A u \in User : Live(u) => srv[u].port \in Port /\ reserve[srv[u].port]
Alone == \A u, v \in User : Live(u) /\ Live(v) /\ srv[u].port = srv[v].port => u = v
Owned ==
  \A r \in Record, u \in User : InChain(r) /\ Live(u) /\ srv[u].port = r.port
    => Code[u] = r.code

\* A sweep finds no answer under way, and leaves behind records of servers that run.
Quiet ==
  Sweeping => /\ \A u \in User : srv[u].pc # "told"
              /\ \A c \in Client : cl[c].pc # "told"
Visited == Sweeping => \A r \in Record : InChain(r) => ToVisit(r) \/ Bound(r.port)
Probed ==
  /\ records # Empty => next = 1
  /\ Sweeping => \A p \in Port : p < next => (reserve[p] <=> Bound(p))

\* The port a client was told is that of the server it asked for, or of nobody.
Answer ==
  \A c \in Client : cl[c].pc = "told" =>
    /\ cl[c].port \in Port /\ reserve[cl[c].port]
    /\ \A u \in User : Live(u) /\ srv[u].port = cl[c].port => u = cl[c].user

Table == Placed /\ Single /\ Reserving /\ Apart
IInv == /\ TypeOK /\ Table /\ Serving /\ Alone /\ Owned /\ Quiet /\ Visited /\ Probed
        /\ Answer /\ RightServer

-----------------------------------------------------------------------------
(* The hash table.                                                         *)

LEMMA InSlot == ASSUME NEW k \in Int PROVE Bucket(k) \in Slot
BY RegisterAssumption DEF Bucket, Slot

LEMMA Codes == \A r \in Record : r.code \in Int /\ r.port \in Port
BY RegisterAssumption DEF Record

\* A sequence without its i-th element.
LEMMA Without ==
  ASSUME NEW S, NEW s \in Seq(S), NEW i \in 1 .. Len(s),
         NEW t, t = SubSeq(s, 1, i - 1) \o SubSeq(s, i + 1, Len(s))
  PROVE  /\ t \in Seq(S) /\ Len(t) = Len(s) - 1
         /\ \A j \in 1 .. Len(t) : t[j] = IF j < i THEN s[j] ELSE s[j + 1]
<1> DEFINE u == SubSeq(s, 1, i - 1)
           v == SubSeq(s, i + 1, Len(s))
<1>1. Len(s) \in Nat /\ i \in Int
  OBVIOUS
<1>2. u \in Seq(S) /\ Len(u) = i - 1 /\ \A j \in 1 .. i - 1 : u[j] = s[j]
  BY <1>1, SubSeqProperties
<1>3. v \in Seq(S) /\ Len(v) = Len(s) - i /\ \A j \in 1 .. Len(s) - i : v[j] = s[i + j]
  BY <1>1, SubSeqProperties
<1> HIDE DEF u, v
<1>4. t = u \o v
  BY DEF u, v
<1>5. /\ u \o v \in Seq(S) /\ Len(u \o v) = Len(u) + Len(v)
      /\ \A j \in 1 .. Len(u) + Len(v) : (u \o v)[j] = IF j <= Len(u) THEN u[j] ELSE v[j - Len(u)]
  <2>1. u \in Seq(S) /\ v \in Seq(S)
    BY <1>2, <1>3
  <2> QED  BY <2>1, ConcatProperties
<1>6. Len(u) + Len(v) = Len(s) - 1 /\ Len(u) = i - 1 /\ Len(t) = Len(s) - 1 /\ t \in Seq(S)
  <2>1. Len(u) + Len(v) = Len(s) - 1 /\ Len(u) = i - 1
    BY <1>1, <1>2, <1>3
  <2>2. t \in Seq(S) /\ Len(t) = Len(u) + Len(v)
    BY <1>4, <1>5
  <2> QED  BY <2>1, <2>2
<1>7. ASSUME NEW j \in 1 .. Len(s) - 1 PROVE t[j] = IF j < i THEN s[j] ELSE s[j + 1]
  <2>1. t[j] = IF j <= i - 1 THEN u[j] ELSE v[j - (i - 1)]
    BY <1>4, <1>5, <1>6
  <2>2. CASE j < i
    <3>1. j \in 1 .. i - 1
      BY <1>1, <2>2
    <3>2. t[j] = u[j]
      <4>1. j <= i - 1
        BY <1>1, <2>2
      <4> QED  BY <2>1, <4>1
    <3> QED  BY <1>2, <2>2, <3>1, <3>2
  <2>3. CASE ~(j < i)
    <3>1. j - (i - 1) \in 1 .. Len(s) - i /\ i + (j - (i - 1)) = j + 1 /\ ~(j <= i - 1)
      BY <1>1, <2>3
    <3>2. t[j] = v[j - (i - 1)]
      BY <2>1, <3>1
    <3>3. v[j - (i - 1)] = s[j + 1]
      BY <1>3, <3>1
    <3> QED  BY <2>3, <3>2, <3>3
  <2> QED  BY <2>2, <2>3
<1> QED  BY <1>6, <1>7

\* del_from_hash leaves no record of the code, and none that was not there.
LEMMA Deleting ==
  ASSUME TypeOK, Placed, Single, NEW k \in Int, Delete(k)
  PROVE  /\ chain' \in [Slot -> Seq(Record)] /\ Placed' /\ Single'
         /\ \A r \in Record : InChain(r)' => InChain(r) /\ r.code # k
<1> DEFINE a == Bucket(k)
<1>1. a \in Slot /\ chain \in [Slot -> Seq(Record)]
  BY InSlot DEF TypeOK
<1>2. CASE Found(k) = {} /\ UNCHANGED chain
  <2>1. Placed' /\ Single'
    BY <1>2 DEF Placed, Single
  <2>2. ASSUME NEW r \in Record, InChain(r)' PROVE InChain(r) /\ r.code # k
    <3>1. PICK b \in Slot : \E i \in DOMAIN chain[b] : chain[b][i] = r
      BY <1>2, <2>2 DEF InChain
    <3>2. PICK i \in DOMAIN chain[b] : chain[b][i] = r
      BY <3>1
    <3>3. r.code # k
      BY <1>2, <3>2 DEF Placed, Found
    <3> QED  BY <3>2, <3>3 DEF InChain
  <2> QED  BY <1>1, <1>2, <2>1, <2>2
<1>3. CASE \E i \in Found(k) :
             chain' = [chain EXCEPT ![a] =
                        IF i = 1 THEN <<>> ELSE SubSeq(@, 1, i - 1) \o SubSeq(@, i + 1, Len(@))]
  <2>1. PICK i \in Found(k) :
          chain' = [chain EXCEPT ![a] =
                     IF i = 1 THEN <<>> ELSE SubSeq(@, 1, i - 1) \o SubSeq(@, i + 1, Len(@))]
    BY <1>3
  <2>2. PICK s \in Seq(Record) : s = chain[a]
    BY <1>1
  <2>3. PICK t : t = IF i = 1 THEN <<>> ELSE SubSeq(s, 1, i - 1) \o SubSeq(s, i + 1, Len(s))
    OBVIOUS
  <2>4. i \in 1 .. Len(s) /\ s[i].code = k
    BY <2>2 DEF Found
  <2>5. /\ t \in Seq(Record) /\ Len(t) <= Len(s) - 1
        /\ \A j \in 1 .. Len(t) : t[j] = IF j < i THEN s[j] ELSE s[j + 1]
    <3>1. CASE i = 1
      <4>1. t = << >> /\ Len(s) \in Nat /\ Len(s) >= 1
        BY <2>3, <2>4, <3>1
      <4>2. t \in Seq(Record) /\ Len(t) = 0
        BY <4>1
      <4>3. 1 .. Len(t) = {}
        BY <4>2
      <4> QED  BY <4>1, <4>2, <4>3
    <3>2. CASE i # 1
      <4>1. t = SubSeq(s, 1, i - 1) \o SubSeq(s, i + 1, Len(s))
        BY <2>3, <3>2
      <4>2. /\ t \in Seq(Record) /\ Len(t) = Len(s) - 1
            /\ \A j \in 1 .. Len(t) : t[j] = IF j < i THEN s[j] ELSE s[j + 1]
        BY <2>4, <4>1, Without, ZenonT(30)
      <4>3. Len(t) <= Len(s) - 1
        BY <4>2
      <4> QED  BY <4>2, <4>3
    <3> QED  BY <3>1, <3>2
  <2>6. chain'[a] = t /\ \A b \in Slot \ {a} : chain'[b] = chain[b]
    BY <1>1, <2>1, <2>2, <2>3
  <2>7. chain' \in [Slot -> Seq(Record)]
    BY <1>1, <2>1, <2>2, <2>3, <2>5
  <2>8. \A j \in 1 .. Len(s) : s[j].code = k => j = i
    BY <1>1, <2>2, <2>4 DEF Single
  <2>9. \A j \in 1 .. Len(t) :
          \E m \in 1 .. Len(s) : t[j] = s[m] /\ m # i /\ m = IF j < i THEN j ELSE j + 1
    <3>1. ASSUME NEW j \in 1 .. Len(t)
          PROVE  \E m \in 1 .. Len(s) : t[j] = s[m] /\ m # i /\ m = IF j < i THEN j ELSE j + 1
      <4>1. j \in 1 .. Len(s) /\ j + 1 \in 1 .. Len(s) /\ i \in Int
        BY <2>4, <2>5
      <4> QED  BY <2>5, <4>1
    <3> QED  BY <3>1
  <2>10. Placed'
    <3>1. ASSUME NEW b \in Slot, NEW j \in DOMAIN chain'[b]
          PROVE  Bucket(chain'[b][j].code) = b
      <4>1. CASE b # a
        BY <2>6, <4>1 DEF Placed
      <4>2. CASE b = a
        <5>1. j \in 1 .. Len(t)
          BY <2>5, <2>6, <4>2
        <5>2. PICK m \in 1 .. Len(s) : t[j] = s[m]
          BY <2>9, <5>1
        <5>3. Bucket(s[m].code) = a
          BY <1>1, <2>2 DEF Placed
        <5> QED  BY <2>6, <4>2, <5>2, <5>3
      <4> QED  BY <4>1, <4>2
    <3> QED  BY <3>1 DEF Placed
  <2>11. Single'
    <3>1. ASSUME NEW b \in Slot, NEW j \in DOMAIN chain'[b], NEW l \in DOMAIN chain'[b],
                 chain'[b][j].code = chain'[b][l].code
          PROVE  j = l
      <4>1. CASE b # a
        BY <2>6, <3>1, <4>1 DEF Single
      <4>2. CASE b = a
        <5>1. j \in 1 .. Len(t) /\ l \in 1 .. Len(t) /\ t[j].code = t[l].code
          BY <2>5, <2>6, <3>1, <4>2
        <5>2. PICK m \in 1 .. Len(s) : t[j] = s[m] /\ m = IF j < i THEN j ELSE j + 1
          BY <2>9, <5>1
        <5>3. PICK n \in 1 .. Len(s) : t[l] = s[n] /\ n = IF l < i THEN l ELSE l + 1
          BY <2>9, <5>1
        <5>4. m = n
          BY <1>1, <2>2, <5>1, <5>2, <5>3 DEF Single
        <5> QED  BY <2>4, <5>1, <5>2, <5>3, <5>4
      <4> QED  BY <4>1, <4>2
    <3> QED  BY <3>1 DEF Single
  <2>12. ASSUME NEW r \in Record, InChain(r)' PROVE InChain(r) /\ r.code # k
    <3>1. PICK b \in Slot : \E j \in DOMAIN chain'[b] : chain'[b][j] = r
      BY <2>12 DEF InChain
    <3>2. PICK j \in DOMAIN chain'[b] : chain'[b][j] = r
      BY <3>1
    <3>3. CASE b # a
      <4>1. chain[b][j] = r /\ j \in DOMAIN chain[b] /\ Bucket(r.code) = b
        BY <2>6, <3>2, <3>3 DEF Placed
      <4> QED  BY <3>3, <4>1 DEF InChain
    <3>4. CASE b = a
      <4>1. j \in 1 .. Len(t) /\ t[j] = r
        BY <2>5, <2>6, <3>2, <3>4
      <4>2. PICK m \in 1 .. Len(s) : r = s[m] /\ m # i
        BY <2>9, <4>1
      <4> QED  BY <1>1, <2>2, <2>8, <4>2 DEF InChain
    <3> QED  BY <3>3, <3>4
  <2> QED  BY <2>7, <2>10, <2>11, <2>12
<1> QED  BY <1>2, <1>3 DEF Delete

\* book_port gives the record of the code a new port, and leaves the others.
LEMMA Booking ==
  ASSUME TypeOK, Placed, Single, NEW u \in User, NEW p \in Port,
         chain' = IF Found(Code[u]) # {} THEN NewPort(Code[u], p) ELSE NewRecord(Code[u], p)
  PROVE  /\ chain' \in [Slot -> Seq(Record)] /\ Placed' /\ Single'
         /\ \A r \in Record :
              InChain(r)' => (r.code = Code[u] /\ r.port = p) \/ (InChain(r) /\ r.code # Code[u])
<1> DEFINE k == Code[u]
           a == Bucket(k)
<1>1. k \in Int /\ a \in Slot /\ chain \in [Slot -> Seq(Record)]
  BY InSlot, RegisterAssumption DEF TypeOK
<1>2. PICK s \in Seq(Record) : s = chain[a]
  BY <1>1
<1>3. Found(k) = {i \in 1 .. Len(s) : s[i].code = k}
  BY <1>2 DEF Found
<1>4. \A j \in 1 .. Len(s) : s[j] \in Record /\ Bucket(s[j].code) = a
  BY <1>1, <1>2 DEF Placed
<1>5. \E t \in Seq(Record) :
        /\ chain' = [chain EXCEPT ![a] = t]
        /\ \A j, l \in 1 .. Len(t) : t[j].code = t[l].code => j = l
        /\ \A j \in 1 .. Len(t) : \/ t[j].code = k /\ t[j].port = p
                                  \/ t[j].code # k /\ j \in 1 .. Len(s) /\ t[j] = s[j]
  <2>1. CASE Found(k) # {}
    <3> DEFINE t == [i \in DOMAIN s |-> IF s[i].code = k THEN [s[i] EXCEPT !.port = p] ELSE s[i]]
    <3>1. chain' = [chain EXCEPT ![a] = t]
      BY <1>2, <2>1 DEF NewPort
    <3>2. \A i \in 1 .. Len(s) :
            /\ t[i] \in Record /\ t[i].code = s[i].code
            /\ s[i].code = k => t[i].port = p
            /\ s[i].code # k => t[i] = s[i]
      BY <1>4 DEF Record
    <3>3. t \in Seq(Record) /\ Len(t) = Len(s)
      <4>1. Len(s) \in Nat /\ DOMAIN s = 1 .. Len(s)
        OBVIOUS
      <4>2. t = [i \in 1 .. Len(s) |-> IF s[i].code = k THEN [s[i] EXCEPT !.port = p] ELSE s[i]]
        BY <4>1
      <4>3. \A i \in 1 .. Len(s) : t[i] \in Record
        BY <3>2
      <4> HIDE DEF t
      <4>4. t \in [1 .. Len(s) -> Record]
        BY <4>2, <4>3
      <4> QED  BY <4>1, <4>4
    <3>4. \A j, l \in 1 .. Len(s) : s[j].code = s[l].code => j = l
      BY <1>1, <1>2 DEF Single
    <3> HIDE DEF t
    <3>5. \A j, l \in 1 .. Len(t) : t[j].code = t[l].code => j = l
      BY <3>2, <3>3, <3>4
    <3>6. \A j \in 1 .. Len(t) : \/ t[j].code = k /\ t[j].port = p
                                 \/ t[j].code # k /\ j \in 1 .. Len(s) /\ t[j] = s[j]
      <4>1. ASSUME NEW j \in 1 .. Len(t)
            PROVE  \/ t[j].code = k /\ t[j].port = p
                   \/ t[j].code # k /\ j \in 1 .. Len(s) /\ t[j] = s[j]
        <5>1. j \in 1 .. Len(s)
          BY <3>3
        <5>2. CASE s[j].code = k
          BY <3>2, <5>1, <5>2
        <5>3. CASE s[j].code # k
          BY <3>2, <5>1, <5>3
        <5> QED  BY <5>2, <5>3
      <4> QED  BY <4>1
    <3> QED  BY <3>1, <3>3, <3>5, <3>6
  <2>2. CASE Found(k) = {}
    <3>1. PICK x \in Record : x = [code |-> k, port |-> p]
      BY DEF Record
    <3> DEFINE t == Append(s, x)
    <3>2. chain' = [chain EXCEPT ![a] = t]
      BY <1>2, <2>2, <3>1 DEF NewRecord
    <3>3. /\ t \in Seq(Record) /\ Len(t) = Len(s) + 1 /\ t[Len(s) + 1] = x
          /\ \A j \in 1 .. Len(s) : t[j] = s[j]
      BY AppendProperties
    <3> HIDE DEF t
    <3>4. \A j \in 1 .. Len(s) : s[j].code # k
      BY <1>3, <2>2
    <3>5. \A j, l \in 1 .. Len(s) : s[j].code = s[l].code => j = l
      BY <1>1, <1>2 DEF Single
    <3>6. \A j \in 1 .. Len(t) : j = Len(s) + 1 \/ j \in 1 .. Len(s)
      BY <3>3
    <3>7. \A j, l \in 1 .. Len(t) : t[j].code = t[l].code => j = l
      BY <3>1, <3>3, <3>4, <3>5, <3>6
    <3>8. \A j \in 1 .. Len(t) : \/ t[j].code = k /\ t[j].port = p
                                 \/ t[j].code # k /\ j \in 1 .. Len(s) /\ t[j] = s[j]
      <4>1. x.code = k /\ x.port = p
        BY <3>1
      <4>2. ASSUME NEW j \in 1 .. Len(t)
            PROVE  \/ t[j].code = k /\ t[j].port = p
                   \/ t[j].code # k /\ j \in 1 .. Len(s) /\ t[j] = s[j]
        <5>1. CASE j = Len(s) + 1
          BY <3>3, <4>1, <5>1
        <5>2. CASE j \in 1 .. Len(s)
          BY <3>3, <3>4, <5>2
        <5> QED  BY <3>6, <5>1, <5>2
      <4> QED  BY <4>2
    <3> QED  BY <3>2, <3>3, <3>7, <3>8
  <2> QED  BY <2>1, <2>2
<1>6. PICK t \in Seq(Record) :
        /\ chain' = [chain EXCEPT ![a] = t]
        /\ \A j, l \in 1 .. Len(t) : t[j].code = t[l].code => j = l
        /\ \A j \in 1 .. Len(t) : \/ t[j].code = k /\ t[j].port = p
                                  \/ t[j].code # k /\ j \in 1 .. Len(s) /\ t[j] = s[j]
  BY <1>5
<1>7. chain'[a] = t /\ \A b \in Slot \ {a} : chain'[b] = chain[b]
  BY <1>1, <1>6
<1>8. chain' \in [Slot -> Seq(Record)]
  BY <1>1, <1>6
<1>9. Placed'
  <2>1. \A j \in 1 .. Len(t) : Bucket(t[j].code) = a
    BY <1>4, <1>6
  <2>2. ASSUME NEW b \in Slot, NEW j \in DOMAIN chain'[b] PROVE Bucket(chain'[b][j].code) = b
    BY <1>7, <2>1 DEF Placed
  <2> QED  BY <2>2 DEF Placed
<1>10. Single'
  <2>1. ASSUME NEW b \in Slot, NEW j \in DOMAIN chain'[b], NEW l \in DOMAIN chain'[b],
               chain'[b][j].code = chain'[b][l].code
        PROVE  j = l
    BY <1>6, <1>7, <2>1 DEF Single
  <2> QED  BY <2>1 DEF Single
<1>11. ASSUME NEW r \in Record, InChain(r)'
       PROVE  (r.code = k /\ r.port = p) \/ (InChain(r) /\ r.code # k)
  <2>1. PICK b \in Slot : \E j \in DOMAIN chain'[b] : chain'[b][j] = r
    BY <1>11 DEF InChain
  <2>2. PICK j \in DOMAIN chain'[b] : chain'[b][j] = r
    BY <2>1
  <2>3. CASE b # a
    <3>1. chain[b][j] = r /\ j \in DOMAIN chain[b] /\ Bucket(r.code) = b
      BY <1>7, <2>2, <2>3 DEF Placed
    <3> QED  BY <2>3, <3>1 DEF InChain
  <2>4. CASE b = a
    <3>1. j \in 1 .. Len(t) /\ t[j] = r
      BY <1>6, <1>7, <2>2, <2>4
    <3>2. (r.code = k /\ r.port = p) \/ (r.code # k /\ j \in DOMAIN chain[a] /\ r = chain[a][j])
      BY <1>2, <1>6, <3>1
    <3> QED  BY <1>1, <3>2 DEF InChain
  <2> QED  BY <2>3, <2>4
<1> QED  BY <1>8, <1>9, <1>10, <1>11

-----------------------------------------------------------------------------
(* Servers and clients.                                                    *)

LEMMA RegisterKept ==
  ASSUME IInv, UNCHANGED <<chain, reserve, records, next, probe>>
  PROVE  Table' /\ (Sweeping' <=> Sweeping)
         /\ \A r : (InChain(r)' <=> InChain(r)) /\ (ToVisit(r)' <=> ToVisit(r))
<1>1. \A r : (InChain(r)' <=> InChain(r)) /\ (ToVisit(r)' <=> ToVisit(r))
  BY DEF InChain, ToVisit
<1>2. Placed' /\ Single'
  BY DEF IInv, Table, Placed, Single
<1>3. Reserving' /\ Apart'
  BY <1>1 DEF IInv, Table, Reserving, Apart
<1>4. Sweeping' <=> Sweeping
  BY DEF Sweeping
<1> QED  BY <1>1, <1>2, <1>3, <1>4 DEF Table

\* What is left to show of a step of one server.
LEMMA OneServer ==
  ASSUME IInv, NEW u \in User, UNCHANGED <<chain, reserve, records, next, probe, cl>>,
         srv' \in [User -> Server], \A v \in User \ {u} : srv'[v] = srv[v],
         srv'[u].pc # "told",
         Live(u)' => Live(u) /\ srv'[u].port = srv[u].port,
         Sweeping => \A p \in Port : Bound(p)' <=> Bound(p)
  PROVE  IInv'
<1>1. Table' /\ (Sweeping' <=> Sweeping)
      /\ \A r : (InChain(r)' <=> InChain(r)) /\ (ToVisit(r)' <=> ToVisit(r))
  BY RegisterKept
<1>2. \A v \in User : Live(v)' => Live(v) /\ srv'[v].port = srv[v].port
  BY DEF Live
<1>3. TypeOK'
  BY DEF IInv, TypeOK
<1>4. Serving' /\ Alone'
  BY <1>2 DEF IInv, Serving, Alone
<1>5. Owned'
  BY <1>1, <1>2 DEF IInv, Owned
<1>6. Quiet'
  BY <1>1 DEF IInv, Quiet
<1>7. Visited'
  BY <1>1, Codes DEF IInv, Visited
<1>8. Probed'
  BY <1>1 DEF IInv, Probed
<1>9. Answer'
  BY <1>2 DEF IInv, Answer
<1>10. RightServer'
  BY DEF IInv, RightServer
<1> QED  BY <1>1, <1>3, <1>4, <1>5, <1>6, <1>7, <1>8, <1>9, <1>10 DEF IInv

LEMMA ServerSteps ==
  ASSUME IInv, Prompt, NEW u \in User, StartServer(u) \/ Bind(u) \/ StopServer(u)
  PROVE  IInv'
<1>1. UNCHANGED <<chain, reserve, records, next, probe, cl>> /\ srv \in [User -> Server]
  BY DEF StartServer, Bind, StopServer, IInv, TypeOK
<1>2. CASE StartServer(u)
  <2>1. /\ srv' \in [User -> Server] /\ \A v \in User \ {u} : srv'[v] = srv[v]
        /\ srv'[u].pc = "asking" /\ srv[u].pc = "off"
    BY <1>1, <1>2 DEF StartServer, Server
  <2>2. \A p : Bound(p)' <=> Bound(p)
    BY <2>1 DEF Bound, Holder
  <2> QED  BY <1>1, <2>1, <2>2, OneServer DEF Live
<1>3. CASE Bind(u)
  <2>1. PICK pc \in {"failed", "up"} : srv' = [srv EXCEPT ![u].pc = pc]
    BY <1>3 DEF Bind
  <2>2. /\ srv' \in [User -> Server] /\ \A v \in User \ {u} : srv'[v] = srv[v]
        /\ srv'[u].pc = pc /\ srv'[u].port = srv[u].port
    BY <1>1, <2>1 DEF Server
  <2>3. Live(u) /\ ~Sweeping
    BY <1>3 DEF Bind, Live, IInv, Quiet
  <2> QED  BY <1>1, <2>2, <2>3, OneServer
<1>4. CASE StopServer(u)
  <2>1. /\ srv' \in [User -> Server] /\ \A v \in User \ {u} : srv'[v] = srv[v]
        /\ srv'[u].pc = "off" /\ ~Sweeping
    BY <1>1, <1>4 DEF StopServer, Server, Off
  <2> QED  BY <1>1, <2>1, OneServer DEF Live
<1> QED  BY <1>2, <1>3, <1>4

\* What is left to show of a step of one client.
LEMMA OneClient ==
  ASSUME IInv, NEW c \in Client, UNCHANGED <<chain, reserve, records, next, probe, srv>>,
         cl' \in [Client -> Customer], \A d \in Client \ {c} : cl'[d] = cl[d],
         cl'[c].pc = "told" =>
           /\ ~Sweeping /\ cl'[c].port \in Port /\ reserve[cl'[c].port]
           /\ \A u \in User : Live(u) /\ srv[u].port = cl'[c].port => u = cl'[c].user,
         cl'[c].pc = "linked" => cl'[c].peer = cl'[c].user
  PROVE  IInv'
<1>1. Table' /\ (Sweeping' <=> Sweeping)
      /\ \A r : (InChain(r)' <=> InChain(r)) /\ (ToVisit(r)' <=> ToVisit(r))
  BY RegisterKept
<1>2. (\A u \in User : Live(u)' <=> Live(u)) /\ \A p : Bound(p)' <=> Bound(p)
  BY DEF Live, Bound, Holder
<1>3. TypeOK'
  BY DEF IInv, TypeOK
<1>4. Serving' /\ Alone'
  BY <1>2 DEF IInv, Serving, Alone
<1>5. Owned'
  BY <1>1, <1>2 DEF IInv, Owned
<1>6. Quiet'
  BY <1>1 DEF IInv, Quiet
<1>7. Visited'
  BY <1>1, <1>2 DEF IInv, Visited
<1>8. Probed'
  BY <1>1, <1>2 DEF IInv, Probed
<1>9. Answer'
  BY <1>2 DEF IInv, Answer
<1>10. RightServer'
  BY DEF IInv, RightServer
<1> QED  BY <1>1, <1>3, <1>4, <1>5, <1>6, <1>7, <1>8, <1>9, <1>10 DEF IInv

LEMMA ClientSteps ==
  ASSUME IInv, NEW c \in Client, StartClient(c) \/ Connect(c) \/ StopClient(c)
  PROVE  IInv'
<1>1. UNCHANGED <<chain, reserve, records, next, probe, srv>> /\ cl \in [Client -> Customer]
  BY DEF StartClient, Connect, StopClient, IInv, TypeOK
<1>2. CASE StartClient(c)
  <2>1. /\ cl' \in [Client -> Customer] /\ \A d \in Client \ {c} : cl'[d] = cl[d]
        /\ cl'[c].pc = "asking"
    BY <1>1, <1>2 DEF StartClient, Customer
  <2> QED  BY <1>1, <2>1, OneClient
<1>3. CASE Connect(c)
  <2>1. CASE cl' = [cl EXCEPT ![c].pc = "refused"]
    <3>1. /\ cl' \in [Client -> Customer] /\ \A d \in Client \ {c} : cl'[d] = cl[d]
          /\ cl'[c].pc = "refused"
      BY <1>1, <2>1 DEF Customer
    <3> QED  BY <1>1, <3>1, OneClient
  <2>2. ASSUME NEW v \in Holder(cl[c].port), cl' = [cl EXCEPT ![c].pc = "linked", ![c].peer = v]
        PROVE  IInv'
    <3>1. v \in User /\ Live(v) /\ srv[v].port = cl[c].port
      BY DEF Holder, Live
    <3>2. v = cl[c].user
      BY <1>3, <3>1 DEF Connect, IInv, Answer
    <3>3. /\ cl' \in [Client -> Customer] /\ \A d \in Client \ {c} : cl'[d] = cl[d]
          /\ cl'[c].pc = "linked" /\ cl'[c].peer = v /\ cl'[c].user = cl[c].user
      BY <1>1, <2>2, <3>1 DEF Customer
    <3> QED  BY <1>1, <3>2, <3>3, OneClient
  <2> QED  BY <1>3, <2>1, <2>2 DEF Connect
<1>4. CASE StopClient(c)
  <2>1. /\ cl' \in [Client -> Customer] /\ \A d \in Client \ {c} : cl'[d] = cl[d]
        /\ cl'[c].pc = "off"
    BY <1>1, <1>4 DEF StopClient, Customer
  <2> QED  BY <1>1, <2>1, OneClient
<1> QED  BY <1>2, <1>3, <1>4

-----------------------------------------------------------------------------
(* The register.                                                           *)

LEMMA RequestStep ==
  ASSUME IInv, Distinct, NEW c \in Client, Request(c)
  PROVE  IInv'
<1> DEFINE k == Code[cl[c].user]
           a == Bucket(k)
<1>1. /\ UNCHANGED <<chain, reserve, records, next, probe, srv>> /\ cl \in [Client -> Customer]
      /\ ~Sweeping /\ chain \in [Slot -> Seq(Record)]
  BY DEF Request, IInv, TypeOK
<1>2. cl[c].user \in User /\ k \in Int /\ a \in Slot
  BY <1>1, InSlot, RegisterAssumption DEF Customer
<1>3. CASE cl' = [cl EXCEPT ![c].pc = "refused"]
  <2>1. /\ cl' \in [Client -> Customer] /\ \A d \in Client \ {c} : cl'[d] = cl[d]
        /\ cl'[c].pc = "refused"
    BY <1>1, <1>3 DEF Customer
  <2> QED  BY <1>1, <2>1, OneClient
<1>4. ASSUME NEW i \in Found(k),
             cl' = [cl EXCEPT ![c].pc = "told", ![c].port = chain[a][i].port]
      PROVE  IInv'
  <2>1. PICK r \in Record : r = chain[a][i]
    BY <1>1, <1>2 DEF Found
  <2>2. InChain(r) /\ r.code = k /\ r.port \in Port
    BY <1>2, <2>1, Codes DEF Found, InChain
  <2>3. reserve[r.port]
    BY <2>2 DEF IInv, Table, Reserving
  <2>4. ASSUME NEW u \in User, Live(u), srv[u].port = r.port PROVE u = cl[c].user
    <3>1. Code[u] = k
      BY <2>2, <2>4 DEF IInv, Owned
    <3> QED  BY <1>2, <3>1 DEF Distinct
  <2>5. /\ cl' \in [Client -> Customer] /\ \A d \in Client \ {c} : cl'[d] = cl[d]
        /\ cl'[c].pc = "told" /\ cl'[c].port = r.port /\ cl'[c].user = cl[c].user
    BY <1>1, <1>4, <2>1, <2>2 DEF Customer
  <2> QED  BY <1>1, <2>2, <2>3, <2>4, <2>5, OneClient
<1> QED  BY <1>3, <1>4 DEF Request

LEMMA BookStep ==
  ASSUME IInv, NEW u \in User, Book(u)
  PROVE  IInv'
<1>1. /\ UNCHANGED <<records, next, probe, cl>> /\ ~Sweeping /\ srv[u].pc = "asking"
      /\ srv \in [User -> Server] /\ reserve \in [Port -> BOOLEAN] /\ TypeOK /\ Table
  BY DEF Book, IInv, TypeOK
<1>2. CASE srv' = [srv EXCEPT ![u].pc = "failed"] /\ UNCHANGED <<chain, reserve>>
  <2>1. /\ srv' \in [User -> Server] /\ \A v \in User \ {u} : srv'[v] = srv[v]
        /\ srv'[u].pc = "failed"
    BY <1>1, <1>2 DEF Server
  <2> QED  BY <1>1, <1>2, <2>1, OneServer DEF Live
<1>3. ASSUME NEW p \in Port, IsNextPort(p), reserve' = Reserved(p),
             chain' = IF Found(Code[u]) # {} THEN NewPort(Code[u], p)
                      ELSE NewRecord(Code[u], p),
             srv' = [srv EXCEPT ![u] = [pc |-> "told", port |-> p]]
      PROVE  IInv'
  <2>1. /\ srv' \in [User -> Server] /\ \A v \in User \ {u} : srv'[v] = srv[v]
        /\ srv'[u].pc = "told" /\ srv'[u].port = p /\ ~Live(u)
    BY <1>1, <1>3 DEF Server, Live
  <2>2. /\ reserve' \in [Port -> BOOLEAN] /\ reserve'[p] /\ ~reserve[p]
        /\ \A q \in Port : reserve[q] => reserve'[q]
    BY <1>1, <1>3 DEF Reserved, IsNextPort
  <2>3. /\ chain' \in [Slot -> Seq(Record)] /\ Placed' /\ Single'
        /\ \A r \in Record :
             InChain(r)' => (r.code = Code[u] /\ r.port = p) \/ (InChain(r) /\ r.code # Code[u])
    BY <1>1, <1>3, Booking DEF Table
  <2>4. TypeOK'
    BY <1>1, <2>1, <2>2, <2>3 DEF TypeOK
  <2>5. ~Sweeping' /\ \A r : ToVisit(r)' <=> ToVisit(r)
    BY <1>1 DEF Sweeping, ToVisit
  <2>6. \A r \in Record : ~ToVisit(r)
    BY <1>1 DEF Sweeping, ToVisit, Empty
  <2>7. \A r \in Record : InChain(r) => reserve[r.port] /\ r.port # p
    BY <1>1, <2>2 DEF Table, Reserving
  <2>8. Reserving'
    BY <2>2, <2>3, <2>7, Codes DEF Reserving
  <2>9. Apart'
    <3>1. ASSUME NEW r \in Record, NEW s \in Record, InChain(r)', InChain(s)', r.port = s.port
          PROVE  r.code = s.code
      <4>1. (r.code = Code[u] /\ r.port = p) \/ (InChain(r) /\ r.port # p)
        BY <2>3, <2>7, <3>1
      <4>2. (s.code = Code[u] /\ s.port = p) \/ (InChain(s) /\ s.port # p)
        BY <2>3, <2>7, <3>1
      <4> QED  BY <1>1, <3>1, <4>1, <4>2 DEF Table, Apart
    <3> QED  BY <2>5, <2>6, <3>1 DEF Apart
  <2>10. \A v \in User : Live(v)' <=> Live(v) \/ v = u
    BY <2>1 DEF Live
  <2>11. \A v \in User : Live(v) => /\ srv[v].port \in Port /\ reserve[srv[v].port]
                                    /\ srv'[v] = srv[v] /\ srv[v].port # p
    BY <2>1, <2>2 DEF IInv, Serving
  <2>12. Serving'
    BY <2>1, <2>2, <2>10, <2>11 DEF Serving
  <2>13. Alone'
    BY <2>1, <2>10, <2>11 DEF IInv, Alone
  <2>14. Owned'
    <3>1. ASSUME NEW r \in Record, NEW v \in User, InChain(r)', Live(v)', srv'[v].port = r.port
          PROVE  Code[v] = r.code
      <4>1. (r.code = Code[u] /\ r.port = p) \/ (InChain(r) /\ r.port # p)
        BY <2>3, <2>7, <3>1
      <4>2. CASE v = u
        BY <2>1, <3>1, <4>1, <4>2
      <4>3. CASE v # u
        BY <2>10, <2>11, <3>1, <4>1, <4>3 DEF IInv, Owned
      <4> QED  BY <4>2, <4>3
    <3> QED  BY <3>1 DEF Owned
  <2>15. Quiet' /\ Visited'
    BY <2>5 DEF Quiet, Visited
  <2>16. Probed'
    BY <1>1, <2>5 DEF IInv, Probed
  <2>17. Answer'
    <3>1. ASSUME NEW c \in Client, cl[c].pc = "told"
          PROVE  /\ cl[c].port \in Port /\ reserve'[cl[c].port]
                 /\ \A v \in User : Live(v)' /\ srv'[v].port = cl[c].port => v = cl[c].user
      <4>1. /\ cl[c].port \in Port /\ reserve[cl[c].port]
            /\ \A v \in User : Live(v) /\ srv[v].port = cl[c].port => v = cl[c].user
        BY <3>1 DEF IInv, Answer
      <4> QED  BY <2>1, <2>2, <2>10, <2>11, <4>1
    <3> QED  BY <1>1, <3>1 DEF Answer
  <2>18. RightServer'
    BY <1>1 DEF IInv, RightServer
  <2> QED  BY <2>3, <2>4, <2>8, <2>9, <2>12, <2>13, <2>14, <2>15, <2>16, <2>17, <2>18
           DEF IInv, Table
<1> QED  BY <1>2, <1>3 DEF Book

\* What is left to show of a step of the sweep, which finds no answer under way.
LEMMA OneSweep ==
  ASSUME IInv, UNCHANGED <<srv, cl>>, \A u \in User : srv[u].pc # "told",
         \A c \in Client : cl[c].pc # "told",
         TypeOK', Table', Probed', Visited',
         \A r \in Record : InChain(r)' => InChain(r),
         \A p \in Port : Bound(p) /\ reserve[p] => reserve'[p]
  PROVE  IInv'
<1>1. \A u \in User : Live(u)' <=> Live(u)
  BY DEF Live
<1>2. \A u \in User : Live(u) => Bound(srv[u].port)
  BY DEF Live, Bound, Holder
<1>3. Serving'
  BY <1>1, <1>2 DEF IInv, Serving
<1>4. Alone'
  BY <1>1 DEF IInv, Alone
<1>5. Owned'
  BY <1>1 DEF IInv, Owned
<1>6. Quiet' /\ Answer'
  BY DEF Quiet, Answer
<1>7. RightServer'
  BY DEF IInv, RightServer
<1> QED  BY <1>3, <1>4, <1>5, <1>6, <1>7 DEF IInv

LEMMA BoundKept == ASSUME srv' = srv PROVE \A p : Bound(p)' <=> Bound(p)
BY DEF Bound, Holder

LEMMA IdleStep ==
  ASSUME IInv, Prompt, Idle
  PROVE  IInv'
<1>1. /\ records' = chain /\ next' = 1 /\ UNCHANGED <<chain, reserve, probe, srv, cl>>
      /\ \A u \in User : srv[u].pc # "told"
      /\ \A c \in Client : cl[c].pc # "told"
  BY DEF Idle
<1>2. \A r : (InChain(r)' <=> InChain(r)) /\ (ToVisit(r)' <=> InChain(r))
  BY <1>1 DEF InChain, ToVisit
<1>3. TypeOK'
  BY <1>1, RegisterAssumption DEF IInv, TypeOK
<1>4. Placed' /\ Single'
  BY <1>1 DEF IInv, Table, Placed, Single
<1>5. Reserving' /\ Apart'
  BY <1>1, <1>2 DEF IInv, Table, Reserving, Apart
<1>6. Visited'
  BY <1>2 DEF Visited
<1>7. Probed'
  <2>1. \A p \in Port : ~(p < 1)
    BY RegisterAssumption DEF Port
  <2> QED  BY <1>1, <2>1 DEF Probed
<1> QED  BY <1>1, <1>2, <1>3, <1>4, <1>5, <1>6, <1>7, OneSweep DEF Table

LEMMA CloseStep ==
  ASSUME IInv, CloseProbe
  PROVE  IInv'
<1>1. /\ UNCHANGED <<chain, reserve, records, next, srv, cl>> /\ probe' = NoPort /\ Sweeping
  BY DEF CloseProbe, Sweeping
<1>2. /\ \A u \in User : srv[u].pc # "told"
      /\ \A c \in Client : cl[c].pc # "told"
  BY <1>1 DEF IInv, Quiet
<1>3. \A r : (InChain(r)' <=> InChain(r)) /\ (ToVisit(r)' <=> ToVisit(r))
  BY <1>1 DEF InChain, ToVisit
<1>4. TypeOK'
  BY <1>1 DEF IInv, TypeOK
<1>5. Placed' /\ Single'
  BY <1>1 DEF IInv, Table, Placed, Single
<1>6. Reserving' /\ Apart'
  BY <1>1, <1>3 DEF IInv, Table, Reserving, Apart
<1>7. Visited' /\ Probed'
  BY <1>1, <1>3, BoundKept DEF IInv, Visited, Probed
<1> QED  BY <1>1, <1>2, <1>3, <1>4, <1>5, <1>6, <1>7, OneSweep DEF Table

LEMMA CheckStep ==
  ASSUME IInv, CheckPort
  PROVE  IInv'
<1>1. /\ UNCHANGED <<chain, records, srv, cl>> /\ Sweeping /\ records = Empty
      /\ next' = next + 1 /\ next \in Port /\ next \in Int
      /\ reserve' = [reserve EXCEPT ![next] = Bound(next)]
      /\ probe' = IF Bound(next) THEN NoPort ELSE next
      /\ TypeOK /\ Table
  BY RegisterAssumption DEF CheckPort, Sweeping, IInv, TypeOK, Port
<1>2. /\ \A u \in User : srv[u].pc # "told"
      /\ \A c \in Client : cl[c].pc # "told"
  BY <1>1 DEF IInv, Quiet
<1>3. \A r : (InChain(r)' <=> InChain(r)) /\ (ToVisit(r)' <=> ToVisit(r))
  BY <1>1 DEF InChain, ToVisit
<1>4. Bound(next) \in BOOLEAN /\ reserve \in [Port -> BOOLEAN]
  BY <1>1 DEF Bound, TypeOK
<1>5. /\ reserve' \in [Port -> BOOLEAN] /\ (reserve'[next] <=> Bound(next))
      /\ \A p \in Port \ {next} : reserve'[p] = reserve[p]
  BY <1>1, <1>4
<1>6. TypeOK'
  <2>1. next' \in 1 .. LastPort + 1
    BY <1>1, RegisterAssumption DEF Port
  <2> QED  BY <1>1, <1>5, <2>1 DEF TypeOK
<1>7. \A r : ~ToVisit(r)
  BY <1>1 DEF ToVisit, Empty
<1>8. \A r \in Record : InChain(r) => Bound(r.port) /\ reserve[r.port]
  BY <1>1, <1>7 DEF IInv, Visited, Table, Reserving
<1>9. Placed' /\ Single'
  BY <1>1 DEF Table, Placed, Single
<1>10. Reserving'
  BY <1>3, <1>5, <1>8, Codes DEF Reserving
<1>11. Apart'
  BY <1>1, <1>3 DEF Table, Apart
<1>12. Visited'
  BY <1>1, <1>3, <1>8, BoundKept DEF Visited
<1>13. Probed'
  <2>1. \A p \in Port : p < next => (reserve[p] <=> Bound(p))
    BY <1>1 DEF IInv, Probed
  <2>2. ASSUME NEW p \in Port, p < next + 1 PROVE reserve'[p] <=> Bound(p)
    <3>1. p = next \/ p < next
      BY <1>1, <2>2, RegisterAssumption DEF Port
    <3> QED  BY <1>1, <1>5, <2>1, <3>1
  <2>3. records' = Empty'
    BY <1>1 DEF Empty
  <2> QED  BY <1>1, <2>2, <2>3, BoundKept DEF Probed
<1> QED  BY <1>1, <1>2, <1>3, <1>5, <1>6, <1>9, <1>10, <1>11, <1>12, <1>13, OneSweep DEF Table

LEMMA CleanStep ==
  ASSUME IInv, CleanRecord
  PROVE  IInv'
<1>1. PICK b \in Slot :
        /\ records[b] # <<>> /\ records' = [records EXCEPT ![b] = Tail(@)]
        /\ \/ Bound(Head(records[b]).port) /\ UNCHANGED <<chain, reserve, probe>>
           \/ /\ ~Bound(Head(records[b]).port)
              /\ probe' = Head(records[b]).port
              /\ reserve' = [reserve EXCEPT ![Head(records[b]).port] = FALSE]
              /\ Delete(Head(records[b]).code)
        /\ UNCHANGED <<next, srv, cl>>
  BY DEF CleanRecord
<1>2. TypeOK /\ Table /\ records \in [Slot -> Seq(Record)]
  BY DEF IInv, TypeOK
<1>3. PICK s \in Seq(Record) : s = records[b] /\ s # <<>>
  BY <1>1, <1>2
<1>4. PICK h \in Record : h = Head(s)
  BY <1>3
<1>5. /\ Tail(s) \in Seq(Record) /\ Len(Tail(s)) = Len(s) - 1 /\ Len(s) \in Nat /\ Len(s) > 0
      /\ h = s[1] /\ \A i \in 1 .. Len(s) - 1 : Tail(s)[i] = s[i + 1]
  BY <1>3, <1>4, HeadTailProperties
<1>6. /\ records' \in [Slot -> Seq(Record)] /\ records'[b] = Tail(s)
      /\ \A e \in Slot \ {b} : records'[e] = records[e]
  BY <1>1, <1>2, <1>3, <1>5
<1>7. ToVisit(h)
  BY <1>3, <1>5 DEF ToVisit
<1>8. ASSUME NEW r \in Record, ToVisit(r)' PROVE ToVisit(r)
  <2>1. PICK e \in Slot : \E i \in DOMAIN records'[e] : records'[e][i] = r
    BY <1>8 DEF ToVisit
  <2>2. PICK i \in DOMAIN records'[e] : records'[e][i] = r
    BY <2>1
  <2>3. CASE e # b
    BY <1>6, <2>2, <2>3 DEF ToVisit
  <2>4. CASE e = b
    <3>1. i \in 1 .. Len(s) - 1 /\ s[i + 1] = r
      BY <1>5, <1>6, <2>2, <2>4
    <3>2. i + 1 \in 1 .. Len(s)
      BY <1>5, <3>1
    <3> QED  BY <1>3, <3>1, <3>2 DEF ToVisit
  <2> QED  BY <2>3, <2>4
<1>9. ASSUME NEW r \in Record, ToVisit(r), r # h PROVE ToVisit(r)'
  <2>1. PICK e \in Slot : \E i \in DOMAIN records[e] : records[e][i] = r
    BY <1>9 DEF ToVisit
  <2>2. PICK i \in DOMAIN records[e] : records[e][i] = r
    BY <2>1
  <2>3. CASE e # b
    BY <1>6, <2>2, <2>3 DEF ToVisit
  <2>4. CASE e = b
    <3>1. i \in 1 .. Len(s) /\ s[i] = r /\ i # 1
      BY <1>3, <1>5, <1>9, <2>2, <2>4
    <3>2. i - 1 \in 1 .. Len(s) - 1 /\ (i - 1) + 1 = i
      BY <1>5, <3>1
    <3>3. Tail(s)[i - 1] = r /\ i - 1 \in DOMAIN Tail(s)
      BY <1>5, <3>1, <3>2
    <3> QED  BY <1>6, <3>3 DEF ToVisit
  <2> QED  BY <2>3, <2>4
<1>10. records # Empty /\ next = 1 /\ next' = 1 /\ Sweeping
  <2>1. records # Empty
    BY <1>1 DEF Empty
  <2> QED  BY <1>1, <2>1 DEF IInv, Probed, Sweeping
<1>11. /\ \A u \in User : srv[u].pc # "told"
       /\ \A c \in Client : cl[c].pc # "told"
  BY <1>10 DEF IInv, Quiet
<1>12. Probed'
  <2>1. \A p \in Port : ~(p < 1)
    BY RegisterAssumption DEF Port
  <2> QED  BY <1>10, <2>1 DEF Probed
<1>13. \A r \in Record : InChain(r) => ToVisit(r) \/ Bound(r.port)
  BY <1>10 DEF IInv, Visited
<1>14. CASE Bound(h.port) /\ UNCHANGED <<chain, reserve, probe>>
  <2>1. \A r \in Record : InChain(r)' <=> InChain(r)
    BY <1>14 DEF InChain
  <2>2. TypeOK'
    BY <1>1, <1>2, <1>6, <1>14 DEF TypeOK
  <2>3. Placed' /\ Single'
    BY <1>2, <1>14 DEF Table, Placed, Single
  <2>4. Reserving'
    BY <1>2, <1>14, <2>1 DEF Table, Reserving
  <2>5. Apart'
    BY <1>2, <1>8, <2>1 DEF Table, Apart
  <2>6. Visited'
    BY <1>1, <1>9, <1>13, <1>14, <2>1, BoundKept DEF Visited
  <2> QED  BY <1>1, <1>11, <1>12, <1>14, <2>1, <2>2, <2>3, <2>4, <2>5, <2>6, OneSweep DEF Table
<1>15. CASE /\ ~Bound(h.port) /\ probe' = h.port
            /\ reserve' = [reserve EXCEPT ![h.port] = FALSE] /\ Delete(h.code)
  <2>1. h.code \in Int /\ h.port \in Port
    BY Codes
  <2>2. /\ chain' \in [Slot -> Seq(Record)] /\ Placed' /\ Single'
        /\ \A r \in Record : InChain(r)' => InChain(r) /\ r.code # h.code
    BY <1>2, <1>15, <2>1, Deleting DEF Table
  <2>3. /\ reserve' \in [Port -> BOOLEAN]
        /\ \A p \in Port : p # h.port => reserve'[p] = reserve[p]
    BY <1>2, <1>15, <2>1 DEF TypeOK
  <2>4. TypeOK'
    BY <1>1, <1>2, <1>6, <1>15, <2>1, <2>2, <2>3 DEF TypeOK
  <2>5. Apart'
    BY <1>2, <1>8, <2>2 DEF Table, Apart
  <2>6. \A r \in Record : InChain(r)' => r.port # h.port
    BY <1>2, <1>7, <2>2 DEF Table, Apart
  <2>7. Reserving'
    BY <1>2, <2>2, <2>3, <2>6, Codes DEF Table, Reserving
  <2>8. Visited'
    BY <1>1, <1>9, <1>13, <2>2, BoundKept DEF Visited
  <2> QED
    BY <1>1, <1>11, <1>12, <1>15, <2>2, <2>3, <2>4, <2>5, <2>7, <2>8, OneSweep DEF Table
<1> QED  BY <1>1, <1>3, <1>4, <1>14, <1>15

-----------------------------------------------------------------------------
LEMMA Initially == Init => IInv
<1> SUFFICES ASSUME Init PROVE IInv  OBVIOUS
<1> USE DEF Init
<1>1. TypeOK
  BY RegisterAssumption DEF TypeOK, Empty, Server, Off, Customer, Port
<1>2. \A r : ~InChain(r) /\ ~ToVisit(r)
  BY DEF InChain, ToVisit, Empty
<1>3. Table
  <2>1. Placed /\ Single
    BY DEF Placed, Single, Empty
  <2> QED  BY <1>2, <2>1 DEF Table, Reserving, Apart
<1>4. \A u \in User : ~Live(u) /\ srv[u].pc # "told"
  BY DEF Live, Off
<1>5. \A c \in Client : cl[c].pc = "off"
  OBVIOUS
<1>6. Serving /\ Alone /\ Owned /\ Quiet /\ Visited /\ Answer /\ RightServer
  BY <1>2, <1>4, <1>5 DEF Serving, Alone, Owned, Quiet, Visited, Answer, RightServer
<1>7. Probed
  BY RegisterAssumption DEF Probed, Port
<1> QED  BY <1>1, <1>3, <1>6, <1>7 DEF IInv

LEMMA StepKeepsInv ==
  ASSUME Prompt, Distinct, IInv, [Next]_vars
  PROVE  IInv'
<1>1. CASE UNCHANGED vars
  <2>1. UNCHANGED <<chain, reserve, records, next, probe, srv, cl>>
    BY <1>1 DEF vars
  <2>2. Table' /\ (Sweeping' <=> Sweeping)
        /\ \A r : (InChain(r)' <=> InChain(r)) /\ (ToVisit(r)' <=> ToVisit(r))
    BY <2>1, RegisterKept
  <2>3. (\A u \in User : Live(u)' <=> Live(u)) /\ \A p : Bound(p)' <=> Bound(p)
    BY <2>1 DEF Live, Bound, Holder
  <2>4. TypeOK' /\ Serving' /\ Alone' /\ Answer' /\ RightServer'
    BY <2>1, <2>3 DEF IInv, TypeOK, Serving, Alone, Answer, RightServer
  <2>5. Owned' /\ Quiet' /\ Visited' /\ Probed'
    BY <2>1, <2>2, <2>3 DEF IInv, Owned, Quiet, Visited, Probed
  <2> QED  BY <2>2, <2>4, <2>5 DEF IInv
<1>2. CASE Next
  BY <1>2, IdleStep, CleanStep, CheckStep, CloseStep, BookStep, RequestStep, ServerSteps,
     ClientSteps DEF Next
<1> QED  BY <1>1, <1>2

\* For all accounts, clients, ports and lengths of the table: a client that has connected
\* has the server of the account it was asked for, over any number of restarts and sweeps,
\* if answers of the register are used promptly and no two names have one code
\* (port_register.c 97-153, 195-245, connect.c 62-118).
THEOREM RightServerKept == ASSUME Prompt, Distinct PROVE Spec => []RightServer
<1>1. IInv /\ [Next]_vars => IInv'
  BY StepKeepsInv
<1>2. IInv => RightServer
  BY DEF IInv
<1> QED  BY <1>1, <1>2, Initially, PTL DEF Spec

\* Under the same conditions: at the end of a sweep exactly the ports that somebody holds
\* are reserved, and every record is of a port that is bound (port_register.c 195-245).
THEOREM ReclaimedKept == ASSUME Prompt, Distinct PROVE Spec => Reclaimed
<1> DEFINE Swept == /\ \A p \in Port : reserve'[p] <=> Bound(p)'
                    /\ \A b \in Slot : \A i \in DOMAIN chain'[b] : Bound(chain[b][i].port)'
<1>1. IInv /\ [Next]_vars => IInv'
  BY StepKeepsInv
<1>2. ASSUME IInv, [Next]_vars, Sweeping, ~Sweeping' PROVE Swept
  <2>1. TypeOK /\ TypeOK' /\ IInv'
    BY <1>1, <1>2 DEF IInv
  <2>2. CASE CheckPort \/ CloseProbe
    <3>1. /\ UNCHANGED <<chain, srv>> /\ records = Empty
      BY <1>2, <2>2 DEF CheckPort, CloseProbe, Sweeping, Empty
    <3>2. \A r \in Record : InChain(r) => Bound(r.port)
      <4>1. \A r : ~ToVisit(r)
        BY <3>1 DEF ToVisit, Empty
      <4> QED  BY <1>2, <4>1 DEF IInv, Visited
    <3>3. \A b \in Slot : \A i \in DOMAIN chain'[b] : Bound(chain[b][i].port)'
      <4>1. ASSUME NEW b \in Slot, NEW i \in DOMAIN chain[b] PROVE Bound(chain[b][i].port)
        <5>1. chain[b][i] \in Record /\ InChain(chain[b][i])
          BY <2>1 DEF TypeOK, InChain
        <5> QED  BY <3>2, <5>1
      <4> QED  BY <3>1, <4>1, BoundKept
    <3>4. \A p \in Port : p < next => (reserve[p] <=> Bound(p))
      BY <1>2 DEF IInv, Probed
    <3>5. next \in Int /\ next <= LastPort + 1 /\ LastPort \in Nat
      BY <2>1, RegisterAssumption DEF TypeOK
    <3>6. CASE CloseProbe
      <4>1. reserve' = reserve /\ next' = next /\ ~(next <= LastPort)
        BY <1>2, <3>6 DEF CloseProbe, Sweeping
      <4>2. \A p \in Port : p < next
        BY <3>5, <4>1 DEF Port
      <4> QED  BY <3>1, <3>3, <3>4, <4>1, <4>2, BoundKept
    <3>7. CASE CheckPort
      <4>1. /\ reserve' = [reserve EXCEPT ![next] = Bound(next)] /\ next' = next + 1
            /\ next <= LastPort /\ ~(next + 1 <= LastPort)
        BY <1>2, <3>7 DEF CheckPort, Sweeping
      <4>2. \A p \in Port : p < next \/ p = next
        BY <3>5, <4>1 DEF Port
      <4>3. \A p \in Port : reserve'[p] <=> Bound(p)
        BY <2>1, <3>4, <4>1, <4>2 DEF TypeOK
      <4> QED  BY <3>1, <3>3, <4>3, BoundKept
    <3> QED  BY <2>2, <3>6, <3>7
  <2>3. CASE CleanRecord
    <3>1. PICK b \in Slot : records[b] # <<>> /\ next' = next
      BY <2>3 DEF CleanRecord
    <3>2. next = 1
      BY <1>2, <3>1 DEF IInv, Probed, Empty
    <3>3. PICK r \in Record : r = records[b][1]
      BY <2>1, <3>1 DEF TypeOK
    <3>4. r.port \in Port
      BY Codes
    <3>5. next' <= LastPort
      BY <3>1, <3>2, <3>4, RegisterAssumption DEF Port
    <3> QED  BY <1>2, <3>5 DEF Sweeping
  <2>4. ~Idle /\ \A u \in User : ~Book(u)
    BY <1>2 DEF Idle, Book
  <2>5. \A c \in Client : ~Request(c)
    BY <1>2 DEF Request
  <2>6. ASSUME UNCHANGED <<records, next, probe>> PROVE FALSE
    BY <1>2, <2>6 DEF Sweeping, Empty
  <2>7. ~UNCHANGED vars
    BY <2>6 DEF vars
  <2>8. /\ \A u \in User : ~StartServer(u) /\ ~Bind(u) /\ ~StopServer(u)
        /\ \A c \in Client : ~StartClient(c) /\ ~Connect(c) /\ ~StopClient(c)
    BY <2>6 DEF StartServer, Bind, StopServer, StartClient, Connect, StopClient
  <2> QED  BY <1>2, <2>2, <2>3, <2>4, <2>5, <2>7, <2>8 DEF Next
<1>3. IInv /\ [Next]_vars => [Sweeping /\ ~Sweeping' => Swept]_vars
  BY <1>2
<1> QED  BY <1>1, <1>3, Initially, PTL DEF Spec, Reclaimed

=============================================================================
