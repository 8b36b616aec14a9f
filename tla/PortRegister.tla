--------------------------- MODULE PortRegister ---------------------------
(***************************************************************************)
(* The port register (mp5/src/port_register.c with hash.c) and the two      *)
(* sides that ask it: server_start and client_start of connect.c.          *)
(*                                                                         *)
(* The register is one thread.  It serves one request per loop; after five *)
(* seconds without a request it sweeps: it tries to bind the port of every *)
(* record and then every port of its range, and takes a port that it can   *)
(* bind for unused.  Servers bind and exit, and clients connect, while it  *)
(* is in the middle of that.                                               *)
(***************************************************************************)
EXTENDS Integers, Sequences

CONSTANTS
  User,     \* the accounts that run a server
  Code,     \* get_hash_code of a name: its last four bytes
  Buckets,  \* the length of the hash table
  LastPort, \* port_reserve_size: the ports are 1 .. LastPort
  Foreign,  \* ports that other programs hold all the time
  Client,
  Prompt,   \* an answer of the register is used before it sweeps, and no server
            \* exits during a sweep
  NoPort

Port == 1 .. LastPort
Slot == 0 .. Buckets - 1
Bucket(k) == k % Buckets

ASSUME RegisterAssumption ==
  /\ Buckets \in Nat \ {0} /\ LastPort \in Nat /\ Foreign \subseteq Port
  /\ Code \in [User -> Int] /\ Prompt \in BOOLEAN /\ NoPort \notin Port

VARIABLES
  chain,   \* record_hash: the records of every bucket, in order
  reserve, \* port_reserve
  records, \* what the sweep has still to visit: records, bucket by bucket,
  next,    \* and then the ports from this one on
  probe,   \* the port the sweep has bound, and not yet closed
  srv,     \* the servers
  cl       \* the clients
vars == <<chain, reserve, records, next, probe, srv, cl>>

Record == [code : {Code[u] : u \in User}, port : Port]
Server == [pc : {"off", "asking", "told", "up", "failed"}, port : Port \cup {NoPort}]
Off == [pc |-> "off", port |-> NoPort]
Customer == [pc : {"off", "asking", "told", "linked", "refused"}, user : User,
             port : Port \cup {NoPort}, peer : User \cup {NoPort}]

TypeOK ==
  /\ chain \in [Slot -> Seq(Record)] /\ records \in [Slot -> Seq(Record)]
  /\ reserve \in [Port -> BOOLEAN]
  /\ next \in 1 .. LastPort + 1 /\ probe \in Port \cup {NoPort}
  /\ srv \in [User -> Server] /\ cl \in [Client -> Customer]

Empty == [b \in Slot |-> <<>>]
Sweeping == records # Empty \/ next <= LastPort \/ probe # NoPort
Holder(p) == {u \in User : srv[u].pc = "up" /\ srv[u].port = p}
Bound(p) == p \in Foreign \/ Holder(p) # {}

\* The register starts with a sweep of the ports: no record exists.
Init ==
  /\ chain = Empty /\ reserve = [p \in Port |-> FALSE]
  /\ records = Empty /\ next = 1 /\ probe = NoPort
  /\ srv = [u \in User |-> Off]
  /\ cl \in [Client -> {[pc |-> "off", user |-> u, port |-> NoPort, peer |-> NoPort] :
                        u \in User}]

-----------------------------------------------------------------------------
(* The hash table.                                                         *)

Found(k) == {i \in DOMAIN chain[Bucket(k)] : chain[Bucket(k)][i].code = k}

\* book_port for a name that has a record.
NewPort(k, p) ==
  [chain EXCEPT ![Bucket(k)] =
     [i \in DOMAIN @ |-> IF @[i].code = k THEN [@[i] EXCEPT !.port = p] ELSE @[i]]]
NewRecord(k, p) ==
  [chain EXCEPT ![Bucket(k)] = Append(@, [code |-> k, port |-> p])]

\* del_from_hash: the records behind a first one are lost with it.
Forgetful(k) == UNCHANGED chain   \* a del_from_hash that finds nothing
Delete(k) ==
  \/ Found(k) = {} /\ UNCHANGED chain
  \/ \E i \in Found(k) :
       /\ \A j \in Found(k) : i <= j
       /\ chain' = [chain EXCEPT ![Bucket(k)] =
                      IF i = 1 THEN <<>> ELSE SubSeq(@, 1, i - 1) \o SubSeq(@, i + 1, Len(@))]

-----------------------------------------------------------------------------
(* Requests.  They wait in the listen queue during a sweep.                *)

\* get_next_port, and one that forgets to reserve.
Unreserved(p) == reserve
Reserved(p) == [reserve EXCEPT ![p] = TRUE]
IsNextPort(p) == ~reserve[p] /\ \A q \in 1 .. p - 1 : reserve[q]

Book(u) ==
  /\ ~Sweeping /\ srv[u].pc = "asking"
  /\ \/ /\ \A p \in Port : reserve[p]
        /\ srv' = [srv EXCEPT ![u].pc = "failed"] /\ UNCHANGED <<chain, reserve>>
     \/ \E p \in Port :
          /\ IsNextPort(p) /\ reserve' = Reserved(p)
          /\ chain' = IF Found(Code[u]) # {} THEN NewPort(Code[u], p) ELSE NewRecord(Code[u], p)
          /\ srv' = [srv EXCEPT ![u] = [pc |-> "told", port |-> p]]
  /\ UNCHANGED <<records, next, probe, cl>>

Request(c) ==
  /\ ~Sweeping /\ cl[c].pc = "asking"
  /\ LET k == Code[cl[c].user] IN
     \/ /\ Found(k) = {}
        /\ cl' = [cl EXCEPT ![c].pc = "refused"]
     \/ \E i \in Found(k) :
        cl' = [cl EXCEPT ![c].pc = "told", ![c].port = chain[Bucket(k)][i].port]
  /\ UNCHANGED <<chain, reserve, records, next, probe, srv>>

-----------------------------------------------------------------------------
(* clean_port_reserve and check_port_reserve.                              *)

Idle ==
  /\ ~Sweeping
  /\ \A u \in User : srv[u].pc # "asking" /\ (Prompt => srv[u].pc # "told")
  /\ \A c \in Client : cl[c].pc # "asking" /\ (Prompt => cl[c].pc # "told")
  /\ records' = chain /\ next' = 1
  /\ UNCHANGED <<chain, reserve, probe, srv, cl>>

CleanRecord ==
  \E b \in Slot :
    /\ records[b] # <<>> /\ (\A e \in 0 .. b - 1 : records[e] = <<>>) /\ probe = NoPort
    /\ records' = [records EXCEPT ![b] = Tail(@)]
    /\ LET r == Head(records[b]) IN
       \/ Bound(r.port) /\ UNCHANGED <<chain, reserve, probe>>
       \/ /\ ~Bound(r.port)
          /\ probe' = r.port /\ reserve' = [reserve EXCEPT ![r.port] = FALSE]
          /\ Delete(r.code)
    /\ UNCHANGED <<next, srv, cl>>

CheckPort ==
  /\ records = Empty /\ next <= LastPort /\ probe = NoPort
  /\ next' = next + 1
  /\ reserve' = [reserve EXCEPT ![next] = Bound(next)]
  /\ probe' = IF Bound(next) THEN NoPort ELSE next
  /\ UNCHANGED <<chain, records, srv, cl>>

CloseProbe ==
  /\ probe # NoPort /\ probe' = NoPort
  /\ UNCHANGED <<chain, reserve, records, next, srv, cl>>

-----------------------------------------------------------------------------
(* server_start and client_start.                                          *)

StartServer(u) ==
  /\ srv[u].pc = "off" /\ srv' = [srv EXCEPT ![u].pc = "asking"]
  /\ UNCHANGED <<chain, reserve, records, next, probe, cl>>

Bind(u) ==
  /\ srv[u].pc = "told"
  /\ srv' = [srv EXCEPT ![u].pc =
               IF Bound(srv[u].port) \/ probe = srv[u].port THEN "failed" ELSE "up"]
  /\ UNCHANGED <<chain, reserve, records, next, probe, cl>>

\* The server ends, or had no port to listen on.
StopServer(u) ==
  /\ srv[u].pc \in {"up", "failed"} /\ (Prompt => ~Sweeping)
  /\ srv' = [srv EXCEPT ![u] = Off]
  /\ UNCHANGED <<chain, reserve, records, next, probe, cl>>

StartClient(c) ==
  /\ cl[c].pc = "off" /\ cl' = [cl EXCEPT ![c].pc = "asking"]
  /\ UNCHANGED <<chain, reserve, records, next, probe, srv>>

Connect(c) ==
  /\ cl[c].pc = "told"
  /\ \/ \E v \in Holder(cl[c].port) :
          cl' = [cl EXCEPT ![c].pc = "linked", ![c].peer = v]
     \/ /\ Holder(cl[c].port) = {}
        /\ cl' = [cl EXCEPT ![c].pc = "refused"]
  /\ UNCHANGED <<chain, reserve, records, next, probe, srv>>

\* A new client process, for any account.
StopClient(c) ==
  /\ cl[c].pc \in {"linked", "refused"}
  /\ \E u \in User :
       cl' = [cl EXCEPT ![c] = [pc |-> "off", user |-> u, port |-> NoPort, peer |-> NoPort]]
  /\ UNCHANGED <<chain, reserve, records, next, probe, srv>>

-----------------------------------------------------------------------------
Next ==
  \/ Idle \/ CleanRecord \/ CheckPort \/ CloseProbe
  \/ \E u \in User : Book(u) \/ StartServer(u) \/ Bind(u) \/ StopServer(u)
  \/ \E c \in Client : Request(c) \/ StartClient(c) \/ Connect(c) \/ StopClient(c)

Spec == Init /\ [][Next]_vars
-----------------------------------------------------------------------------
(* Properties, for answers that are used promptly and names with different  *)
(* codes (Prompt, and Code injective).                                     *)

\* client_start connects to the server of the account it was asked for (connect.h
\* 34-35), over any number of restarts and sweeps.
RightServer == \A c \in Client : cl[c].pc = "linked" => cl[c].peer = cl[c].user

\* At the end of a sweep exactly the ports that somebody holds are reserved, and no
\* record is left of a server that is gone: ports do not run out.
Reclaimed ==
  [][Sweeping /\ ~Sweeping' =>
       /\ \A p \in Port : reserve'[p] <=> Bound(p)'
       /\ \A b \in Slot : \A i \in DOMAIN chain'[b] : Bound(chain[b][i].port)']_vars
=============================================================================
