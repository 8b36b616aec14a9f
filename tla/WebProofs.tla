------------------------------ MODULE WebProofs ------------------------------
(***************************************************************************)
(* Proofs about WebTool: types, that the title of a graph names the process *)
(* that was chosen and is asked, that a poll signals no other process, and  *)
(* that a second answer never comes before a timer.                        *)
(***************************************************************************)
EXTENDS WebTool, WellFoundedInduction, TLAPS

Navigation == {"index", "choose", "post"}
Stages(what) ==
  CASE what = "none" -> {"new"}
    [] what = "index" -> {"new", "end"}
    [] what = "poll" -> {"new", "open", "end"}
    [] OTHER -> {"new", "exec", "end"}
Replies(what) ==
  CASE what = "index" -> {"to choose", "graph"}
    [] what = "choose" -> {"chooser"}
    [] what = "post" -> {"to choose", "to index"}
    [] what = "poll" -> {"number", "error"}
    [] OTHER -> {}

\* Every request is at a stage of its handler, and gets one of its answers.
Staged ==
  \A s \in Slot : /\ req[s].at \in Stages(req[s].what)
                  /\ req[s].at = "end" => req[s].reply \in Replies(req[s].what)
                  /\ req[s].at # "end" => req[s].reply = "none"
                  /\ req[s].reply = "graph" => req[s].own # NoPid

\* A tab waits for a page exactly while it has the request for one, and only a graph polls.
Paged ==
  /\ \A t \in Tab : /\ tab[t].page = "loading" <=> req[t].what \in Navigation
                    /\ req[t].what = "poll" => tab[t].page = "graph"
                    /\ tab[t].page # "graph" => tab[t].poll = "off"
  /\ req[Orphan].what \in {"none", "poll"}

\* While a choice is under way nothing else is, and no other tab shows a graph.
Choosing(s) ==
  /\ s \in Tab /\ \A r \in Slot \ {s} : ~Busy(r)
  /\ \A t \in Tab : tab[t].page # "graph"
Exclusive == \A s \in Slot : req[s].what = "post" => Choosing(s)

\* The choice has been made and is not stored yet, and otherwise it is in the session, in
\* all copies and in all titles, unless the web tool has ended since.
Chosen(s) == req[s].what = "post" /\ req[s].at = "end" /\ req[s].own = choice
Stored ==
  /\ sess \in {choice, NoPid}
  /\ \A s \in Slot : req[s].at # "new" => req[s].own = sess
  /\ \A t \in Tab : tab[t].page = "graph" => tab[t].pid = sess /\ sess # NoPid

Undisturbed == choice # Lost => ~second /\ Exclusive /\ (Stored \/ \E s \in Slot : Chosen(s))
IInv == TypeOK /\ Staged /\ Paged /\ Undisturbed

-----------------------------------------------------------------------------
(* Facts on the parts.                                                     *)

\* The first line that grep finds is that of a process.
LEMMA Least == ASSUME NEW S, S \subseteq Nat, S # {} PROVE Min(S) \in S
<1> DEFINE R == {z \in Nat \X Nat : z[1] < z[2]}
<1>1. IsWellFoundedOn(R, Nat)
  BY NatLessThanWellFounded DEF OpToRel
<1>2. PICK x \in S : \A y \in S : <<y, x>> \notin R
  BY <1>1, WFMin
<1>3. ASSUME NEW y \in S PROVE x <= y
  <2>1. <<y, x>> \notin R
    BY <1>2
  <2> QED  BY <2>1
<1> QED  BY <1>3 DEF Min

LEMMA OnlyLine == ASSUME NEW p \in Pid, Lines(p) = {p} PROVE Min(Lines(p)) = p
<1>1. Min({p}) \in {p}
  BY Least, WebAssumption
<1> QED  BY <1>1

LEMMA FreeRequest ==
  /\ Free \in Request
  /\ Free.what = "none" /\ Free.at = "new" /\ Free.reply = "none"
BY DEF Free, Request, MaybePid

LEMMA BlankPage ==
  Blank \in Page /\ Blank.page = "blank" /\ Blank.poll = "off"
BY DEF Blank, Page, MaybePid

LEMMA Slots == \A t \in Tab : t \in Slot /\ t # Orphan /\ Orphan \in Slot
BY WebAssumption DEF Slot

\* A request behind its first stage is one.
LEMMA BusyLater ==
  ASSUME Staged, NEW s \in Slot, req[s].at # "new" PROVE Busy(s)
BY DEF Staged, Stages, Busy

\* While a choice is made no other request is under way.
LEMMA NoOther ==
  ASSUME Exclusive, NEW s \in Slot, NEW r \in Slot, req[r].what = "post", Busy(s)
  PROVE  s = r
BY DEF Exclusive, Choosing

\* Between the choice and its end nothing else happens to requests.
LEMMA StoredWhileBusy ==
  ASSUME Staged, Undisturbed, choice # Lost, NEW s \in Slot, Busy(s),
         ~(req[s].what = "post" /\ req[s].at = "end")
  PROVE  Stored
BY NoOther DEF Undisturbed, Chosen

-----------------------------------------------------------------------------
LEMMA InitIInv == Init => IInv
<1> SUFFICES ASSUME Init PROVE IInv
  OBVIOUS
<1>1. /\ \A s \in Slot : req[s] = Free
      /\ \A t \in Tab : tab[t] = Blank
  BY DEF Init
<1>2. TypeOK
  BY FreeRequest, BlankPage DEF Init, TypeOK, MaybePid
<1>3. Staged
  BY <1>1, FreeRequest DEF Staged, Stages
<1>4. Paged
  BY <1>1, FreeRequest, BlankPage, Slots, WebAssumption DEF Paged, Navigation, Slot
<1>5. ~second /\ Exclusive /\ Stored
  BY <1>1, FreeRequest, BlankPage DEF Init, Exclusive, Stored
<1> QED  BY <1>2, <1>3, <1>4, <1>5 DEF IInv, Undisturbed

-----------------------------------------------------------------------------
(* Answers.                                                                *)

\* An answer that carries the session on leaves what is stored where it is.
LEMMA AnswerKeeps ==
  ASSUME IInv, NEW s \in Slot, Busy(s), NEW own, NEW reply \in Replies(req[s].what),
         Answer(s, own, reply), reply = "graph" => own # NoPid,
         own = IF req[s].at = "new" THEN sess ELSE req[s].own,
         UNCHANGED <<tab, sess>>, ~(req[s].what = "post" /\ req[s].at = "end"),
         choice' # Lost => choice' = choice /\ (second' => second)
  PROVE  req' \in [Slot -> Request] /\ Staged' /\ Paged' /\ Undisturbed'
<1>1. own \in MaybePid
  BY DEF IInv, TypeOK, Request
<1>2. reply \in {"to index", "to choose", "chooser", "graph", "number", "error"}
  BY DEF Replies
<1>3. /\ req' \in [Slot -> Request]
      /\ \A r \in Slot \ {s} : req'[r] = req[r]
      /\ req'[s].what = req[s].what /\ req'[s].at = "end" /\ req'[s].own = own
      /\ req'[s].reply = reply /\ req'[s].pid = req[s].pid
  <2>1. req \in [Slot -> Request]
    BY DEF IInv, TypeOK
  <2> DEFINE r == [req[s] EXCEPT !.at = "end", !.own = own, !.reply = reply]
  <2>2. req' = [req EXCEPT ![s] = r]
    BY DEF Answer
  <2>3. /\ r \in Request /\ r.what = req[s].what /\ r.at = "end" /\ r.own = own
        /\ r.reply = reply /\ r.pid = req[s].pid
    BY <1>1, <1>2, <2>1 DEF Request
  <2> HIDE DEF r
  <2> QED  BY <2>1, <2>2, <2>3
<1>4. Staged'
  <2>1. "end" \in Stages(req[s].what)
    BY DEF Stages, Busy
  <2> QED  BY <1>3, <2>1 DEF IInv, Staged
<1>5. Paged'
  <2>1. \A r \in Slot : req'[r].what = req[r].what
    BY <1>3
  <2>2. Orphan \in Slot /\ \A t \in Tab : t \in Slot
    BY DEF Slot
  <2> QED  BY <2>1, <2>2 DEF IInv, Paged
<1>6. ASSUME choice' # Lost PROVE ~second' /\ Exclusive' /\ Stored'
  <2>1. choice # Lost /\ choice' = choice
    BY <1>6
  <2>2. ~second /\ Exclusive
    BY <2>1 DEF IInv, Undisturbed
  <2>3. Stored
    BY <2>1, StoredWhileBusy DEF IInv
  <2>4. ~second'
    BY <1>6, <2>2
  <2>5. Exclusive'
    BY <1>3, <2>2 DEF Exclusive, Choosing, Busy
  <2>6. own = sess
    BY <2>3 DEF Stored
  <2>7. Stored'
    BY <1>3, <2>1, <2>3, <2>6 DEF Stored
  <2> QED  BY <2>4, <2>5, <2>7
<1> QED  BY <1>3, <1>4, <1>5, <1>6 DEF Undisturbed

-----------------------------------------------------------------------------
(* The handlers.                                                           *)

LEMMA IndexIInv == ASSUME IInv, NEW s \in Slot, Index(s) PROVE IInv'
<1> DEFINE reply == IF sess = NoPid THEN "to choose" ELSE "graph"
<1>1. /\ Busy(s) /\ reply \in Replies(req[s].what) /\ req[s].at = "new"
      /\ reply = "graph" => sess # NoPid
      /\ ~(req[s].what = "post" /\ req[s].at = "end")
  BY DEF Index, Busy, Replies
<1>2. Answer(s, sess, reply) /\ UNCHANGED <<web, proc, sess, tab, second, choice>>
  BY DEF Index
<1>3. req' \in [Slot -> Request] /\ Staged' /\ Paged' /\ Undisturbed'
  <2> HIDE DEF reply
  <2> QED  BY <1>1, <1>2, AnswerKeeps
<1>4. TypeOK'
  BY <1>2, <1>3 DEF IInv, TypeOK
<1> QED  BY <1>3, <1>4 DEF IInv

LEMMA ListIInv == ASSUME IInv, NEW s \in Slot, List(s) PROVE IInv'
<1>1. /\ Busy(s) /\ "chooser" \in Replies(req[s].what)
      /\ req[s].what = "choose" /\ req[s].at = "exec"
  BY DEF List, Busy, Replies
<1>2. /\ Answer(s, req[s].own, "chooser")
      /\ UNCHANGED <<web, proc, sess, tab, second, choice>>
  BY DEF List
<1>3. req' \in [Slot -> Request] /\ Staged' /\ Paged' /\ Undisturbed'
  BY <1>1, <1>2, AnswerKeeps
<1>4. TypeOK'
  BY <1>2, <1>3 DEF IInv, TypeOK
<1> QED  BY <1>3, <1>4 DEF IInv

\* To the exec, with a copy of the session.
LEMMA ExecIInv == ASSUME IInv, NEW s \in Slot, Exec(s) PROVE IInv'
<1>1. /\ req[s].what \in {"choose", "post"} /\ req[s].at = "new" /\ Busy(s)
      /\ UNCHANGED <<web, proc, sess, tab, second, choice>>
  BY DEF Exec, Busy
<1>2. CASE req[s].what = "post" /\ req[s].pid = NoPid
  <2>1. Answer(s, sess, "to choose") /\ "to choose" \in Replies(req[s].what)
    BY <1>2 DEF Exec, Replies
  <2>2. req' \in [Slot -> Request] /\ Staged' /\ Paged' /\ Undisturbed'
    BY <1>1, <1>2, <2>1, AnswerKeeps
  <2>3. TypeOK'
    BY <1>1, <2>2 DEF IInv, TypeOK
  <2> QED  BY <2>2, <2>3 DEF IInv
<1>3. CASE ~(req[s].what = "post" /\ req[s].pid = NoPid)
  <2>1. /\ req' \in [Slot -> Request]
        /\ \A r \in Slot \ {s} : req'[r] = req[r]
        /\ req'[s].what = req[s].what /\ req'[s].at = "exec" /\ req'[s].own = sess
        /\ req'[s].reply = req[s].reply
    <3>1. sess \in MaybePid /\ req \in [Slot -> Request]
      BY DEF IInv, TypeOK
    <3> DEFINE r == [req[s] EXCEPT !.at = "exec", !.own = sess]
    <3>2. req' = [req EXCEPT ![s] = r]
      BY <1>3 DEF Exec
    <3>3. /\ r \in Request /\ r.what = req[s].what /\ r.at = "exec" /\ r.own = sess
          /\ r.reply = req[s].reply
      BY <3>1 DEF Request
    <3> HIDE DEF r
    <3> QED  BY <3>1, <3>2, <3>3
  <2>2. TypeOK'
    BY <1>1, <2>1 DEF IInv, TypeOK
  <2>3. Staged'
    <3>1. req[s].reply = "none"
      BY <1>1 DEF IInv, Staged
    <3>2. "exec" \in Stages(req[s].what)
      BY <1>1 DEF Stages
    <3> QED  BY <2>1, <3>1, <3>2 DEF IInv, Staged
  <2>4. Paged'
    <3>1. \A r \in Slot : req'[r].what = req[r].what
      BY <2>1
    <3> QED  BY <1>1, <3>1, Slots, WebAssumption DEF IInv, Paged, Slot
  <2>5. ASSUME choice' # Lost PROVE ~second' /\ Exclusive' /\ Stored'
    <3>1. choice # Lost /\ choice' = choice /\ ~second' /\ Exclusive
      BY <1>1, <2>5 DEF IInv, Undisturbed
    <3>2. Stored
      BY <1>1, <3>1, StoredWhileBusy DEF IInv
    <3>3. Exclusive'
      BY <1>1, <2>1, <3>1 DEF Exclusive, Choosing, Busy
    <3>4. Stored'
      BY <1>1, <2>1, <3>2 DEF Stored
    <3> QED  BY <3>1, <3>3, <3>4
  <2> QED  BY <2>2, <2>3, <2>4, <2>5 DEF IInv, Undisturbed
<1> QED  BY <1>2, <1>3

\* The web tool ends: with no graph left, unless the choice is lost anyway.
LEMMA CrashKeeps ==
  ASSUME IInv, Crash, choice' = choice, choice # Lost => \A t \in Tab : tab[t].page # "graph"
  PROVE  /\ web' = "off" /\ sess' \in MaybePid /\ second' \in BOOLEAN
         /\ req' \in [Slot -> Request] /\ tab' \in [Tab -> Page]
         /\ Staged' /\ Paged' /\ Undisturbed'
<1>1. web' = "off" /\ sess' = NoPid /\ second' = FALSE /\ req' = [s \in Slot |-> Free]
  BY DEF Crash
<1>2. req' \in [Slot -> Request] /\ \A s \in Slot : req'[s] = Free
  BY <1>1, FreeRequest
<1>3. ASSUME NEW t \in Tab
      PROVE  /\ tab'[t] \in Page /\ tab'[t].page # "loading"
             /\ tab'[t].page = "graph" => tab[t].page = "graph"
             /\ tab'[t].page # "graph" => tab'[t].poll = "off"
  <2>1. tab'[t] = IF tab[t].page = "loading" THEN Blank
                  ELSE IF tab[t].poll = "sent" THEN [tab[t] EXCEPT !.poll = "stopped"]
                  ELSE tab[t]
    BY DEF Crash
  <2>2. tab[t] \in Page /\ (tab[t].page # "graph" => tab[t].poll = "off")
    BY DEF IInv, TypeOK, Paged
  <2>3. CASE tab[t].page = "loading"
    BY <2>1, <2>3, BlankPage
  <2>4. CASE tab[t].page # "loading" /\ tab[t].poll = "sent"
    BY <2>1, <2>2, <2>4 DEF Page
  <2>5. CASE tab[t].page # "loading" /\ tab[t].poll # "sent"
    BY <2>1, <2>2, <2>5
  <2> QED  BY <2>3, <2>4, <2>5
<1>4. tab' \in [Tab -> Page]
  <2>1. tab' = [t \in Tab |-> tab'[t]]
    BY DEF Crash
  <2> QED  BY <1>3, <2>1
<1>5. Staged'
  BY <1>2, FreeRequest DEF Staged, Stages
<1>6. Paged'
  BY <1>2, <1>3, FreeRequest, Slots DEF Paged, Navigation, Slot
<1>7. ASSUME choice' # Lost PROVE ~second' /\ Exclusive' /\ Stored'
  <2>1. Exclusive'
    BY <1>2, FreeRequest DEF Exclusive
  <2>2. Stored'
    BY <1>1, <1>2, <1>3, <1>7, FreeRequest DEF Stored
  <2> QED  BY <1>1, <2>1, <2>2
<1> QED  BY <1>1, <1>2, <1>4, <1>5, <1>6, <1>7 DEF Undisturbed, MaybePid

LEMMA ChooseIInv == ASSUME IInv, NEW s \in Slot, Choose(s) PROVE IInv'
<1> DEFINE p == req[s].pid
           q == Min(Lines(p))
<1>1. req[s].what = "post" /\ req[s].at = "exec" /\ Busy(s) /\ proc' = proc
  BY DEF Choose, Busy
<1>2. CASE Lines(p) = {}
  <2>1. /\ Answer(s, req[s].own, "to choose") /\ "to choose" \in Replies(req[s].what)
        /\ UNCHANGED <<web, sess, tab, second, choice>>
    BY <1>1, <1>2 DEF Choose, Replies
  <2>2. req' \in [Slot -> Request] /\ Staged' /\ Paged' /\ Undisturbed'
    BY <1>1, <2>1, AnswerKeeps
  <2>3. TypeOK'
    BY <1>1, <2>1, <2>2 DEF IInv, TypeOK
  <2> QED  BY <2>2, <2>3 DEF IInv
<1>3. CASE Lines(p) # {} /\ proc[q] = "bare"
  <2>1. Crash /\ choice' = choice
    BY <1>3 DEF Choose
  <2>2. choice # Lost => \A t \in Tab : tab[t].page # "graph"
    BY <1>1 DEF IInv, Undisturbed, Exclusive, Choosing
  <2>3. /\ web' = "off" /\ sess' \in MaybePid /\ second' \in BOOLEAN
        /\ req' \in [Slot -> Request] /\ tab' \in [Tab -> Page]
        /\ Staged' /\ Paged' /\ Undisturbed'
    BY <2>1, <2>2, CrashKeeps
  <2>4. TypeOK'
    BY <1>1, <2>1, <2>3 DEF IInv, TypeOK
  <2> QED  BY <2>3, <2>4 DEF IInv
<1>4. CASE Lines(p) # {} /\ proc[q] # "bare"
  <2>1. /\ Answer(s, q, "to index")
        /\ choice' = IF choice # Lost /\ Lines(p) = {p} THEN p ELSE Lost
        /\ UNCHANGED <<web, sess, tab, second>>
    BY <1>4 DEF Choose, SetProc
  <2>2. p \in Pid /\ q \in Pid
    <3>1. p \in MaybePid
      BY DEF IInv, TypeOK, Request
    <3>2. Lines(p) \subseteq Nat /\ Lines(p) \subseteq Pid
      BY WebAssumption DEF Lines
    <3>3. q \in Pid
      BY <1>4, <3>2, Least
    <3>4. Lines(NoPid) = {}
      BY WebAssumption DEF Lines
    <3> QED  BY <1>4, <3>1, <3>3, <3>4 DEF MaybePid
  <2>3. /\ req' \in [Slot -> Request]
        /\ \A r \in Slot \ {s} : req'[r] = req[r]
        /\ req'[s].what = "post" /\ req'[s].at = "end" /\ req'[s].own = q
        /\ req'[s].reply = "to index"
    <3>1. q \in MaybePid /\ req \in [Slot -> Request]
      BY <2>2 DEF MaybePid, IInv, TypeOK
    <3> DEFINE r == [req[s] EXCEPT !.at = "end", !.own = q, !.reply = "to index"]
    <3>2. req' = [req EXCEPT ![s] = r]
      BY <2>1 DEF Answer
    <3>3. /\ r \in Request /\ r.what = "post" /\ r.at = "end" /\ r.own = q
          /\ r.reply = "to index"
      <4> HIDE DEF q
      <4> QED  BY <1>1, <3>1 DEF Request
    <3> HIDE DEF q, r
    <3> QED  BY <3>1, <3>2, <3>3
  <2>4. TypeOK'
    BY <1>1, <2>1, <2>2, <2>3 DEF IInv, TypeOK, MaybePid
  <2>5. Staged'
    <3>1. "end" \in Stages("post") /\ "to index" \in Replies("post")
      BY DEF Stages, Replies
    <3> QED  BY <2>3, <3>1 DEF IInv, Staged
  <2>6. Paged'
    <3>1. \A r \in Slot : req'[r].what = req[r].what
      BY <1>1, <2>3
    <3> QED  BY <2>1, <3>1, Slots DEF IInv, Paged, Slot
  <2>7. ASSUME choice' # Lost PROVE ~second' /\ Exclusive' /\ Chosen(s)'
    <3>1. choice # Lost /\ choice' = p /\ q = p
      BY <2>1, <2>2, <2>7, OnlyLine
    <3>2. ~second /\ Exclusive
      BY <3>1 DEF IInv, Undisturbed
    <3>3. Exclusive'
      BY <1>1, <2>1, <2>3, <3>2 DEF Exclusive, Choosing, Busy
    <3> QED  BY <2>1, <2>3, <3>1, <3>2, <3>3 DEF Chosen
  <2> QED  BY <2>4, <2>5, <2>6, <2>7 DEF IInv, Undisturbed
<1> QED  BY <1>2, <1>3, <1>4

\* The poll signals the process of the session.
LEMMA SignalIInv == ASSUME IInv, NEW s \in Slot, Signal(s) PROVE IInv'
<1>1. /\ req[s].what = "poll" /\ req[s].at = "new" /\ Busy(s)
      /\ UNCHANGED <<web, sess, tab, second, choice>>
  BY DEF Signal, Busy
<1>2. CASE Answer(s, sess, "error") /\ proc' = proc
  <2>1. "error" \in Replies(req[s].what)
    BY <1>1 DEF Replies
  <2>2. req' \in [Slot -> Request] /\ Staged' /\ Paged' /\ Undisturbed'
    BY <1>1, <1>2, <2>1, AnswerKeeps
  <2>3. TypeOK'
    BY <1>1, <1>2, <2>2 DEF IInv, TypeOK
  <2> QED  BY <2>2, <2>3 DEF IInv
<1>3. CASE \E p \in Pid :
             /\ req' = [req EXCEPT ![s] = [@ EXCEPT !.at = "open", !.own = sess]]
             /\ proc' = [proc EXCEPT ![p] = IF @ = "server" THEN @ ELSE "none"]
  <2>1. /\ req' \in [Slot -> Request]
        /\ \A r \in Slot \ {s} : req'[r] = req[r]
        /\ req'[s].what = "poll" /\ req'[s].at = "open" /\ req'[s].own = sess
        /\ req'[s].reply = req[s].reply
    <3>1. sess \in MaybePid /\ req \in [Slot -> Request]
      BY DEF IInv, TypeOK
    <3> DEFINE r == [req[s] EXCEPT !.at = "open", !.own = sess]
    <3>2. req' = [req EXCEPT ![s] = r]
      BY <1>3
    <3>3. /\ r \in Request /\ r.what = "poll" /\ r.at = "open" /\ r.own = sess
          /\ r.reply = req[s].reply
      BY <1>1, <3>1 DEF Request
    <3> HIDE DEF r
    <3> QED  BY <3>1, <3>2, <3>3
  <2>2. proc' \in [Pid -> Kind]
    BY <1>3 DEF IInv, TypeOK, Kind
  <2>3. TypeOK'
    BY <1>1, <2>1, <2>2 DEF IInv, TypeOK
  <2>4. Staged'
    <3>1. "open" \in Stages("poll") /\ req[s].reply = "none"
      BY <1>1 DEF Stages, IInv, Staged
    <3> QED  BY <2>1, <3>1 DEF IInv, Staged
  <2>5. Paged'
    <3>1. \A r \in Slot : req'[r].what = req[r].what
      BY <1>1, <2>1
    <3> QED  BY <1>1, <3>1, Slots DEF IInv, Paged, Slot
  <2>6. ASSUME choice' # Lost PROVE ~second' /\ Exclusive' /\ Stored'
    <3>1. choice # Lost /\ choice' = choice /\ ~second' /\ Exclusive
      BY <1>1, <2>6 DEF IInv, Undisturbed
    <3>2. Stored
      BY <1>1, <3>1, StoredWhileBusy DEF IInv
    <3>3. Exclusive'
      BY <1>1, <2>1, <3>1 DEF Exclusive, Choosing, Busy
    <3>4. Stored'
      BY <1>1, <2>1, <3>2 DEF Stored
    <3> QED  BY <3>1, <3>3, <3>4
  <2> QED  BY <2>3, <2>4, <2>5, <2>6 DEF IInv, Undisturbed
<1> QED  BY <1>2, <1>3 DEF Signal

\* The open returns, or its timer fires.
LEMMA OpenedIInv == ASSUME IInv, NEW s \in Slot, Opened(s) \/ Timeout(s) PROVE IInv'
<1>1. req[s].at = "open" /\ UNCHANGED <<web, proc, sess, tab>>
  BY DEF Opened, Timeout, Timer
<1>2. Busy(s) /\ req[s].what = "poll"
  <2>1. req[s].at \in Stages(req[s].what)
    BY DEF IInv, Staged
  <2> QED  BY <1>1, <2>1 DEF Stages, Busy
<1>3. PICK reply \in {"number", "error"} : Answer(s, req[s].own, reply)
  BY DEF Opened, Timeout
<1>4. /\ reply \in Replies(req[s].what) /\ reply # "graph"
      /\ choice' # Lost => choice' = choice /\ (second' => second)
      /\ choice' \in MaybePid \cup {Lost} /\ second' \in BOOLEAN
  <2>1. choice' \in {choice, Lost} /\ second' \in {second, TRUE}
    BY DEF Opened, Timeout, ClearTimeout
  <2>2. choice' # Lost => choice' = choice /\ (second' => second)
    BY DEF Opened, Timeout, ClearTimeout
  <2>3. reply \in Replies(req[s].what) /\ reply # "graph"
    BY <1>2 DEF Replies
  <2> QED  BY <2>1, <2>2, <2>3 DEF IInv, TypeOK
<1>5. req' \in [Slot -> Request] /\ Staged' /\ Paged' /\ Undisturbed'
  BY <1>1, <1>2, <1>3, <1>4, AnswerKeeps
<1>6. TypeOK'
  BY <1>1, <1>4, <1>5 DEF IInv, TypeOK
<1> QED  BY <1>5, <1>6 DEF IInv

\* The answer: the copy is stored, which changes the session only after a choice.
LEMMA EndIInv == ASSUME IInv, NEW s \in Slot, End(s) PROVE IInv'
<1> DEFINE r == req[s]
<1>1. /\ r.at = "end" /\ Busy(s) /\ r \in Request /\ r.reply \in Replies(r.what)
      /\ sess' = r.own /\ UNCHANGED <<web, proc, second, choice>>
      /\ req \in [Slot -> Request] /\ tab \in [Tab -> Page]
  BY BusyLater DEF End, IInv, TypeOK, Staged
<1>2. /\ Followed(r) \in Request /\ Followed(r).at = "new" /\ Followed(r).reply = "none"
      /\ Followed(r).what = IF r.reply = "to index" THEN "index"
                            ELSE IF r.reply = "to choose" THEN "choose" ELSE "none"
  <2>1. CASE r.reply = "to index"
    BY <2>1 DEF Followed, Free, Request, MaybePid
  <2>2. CASE r.reply = "to choose"
    BY <2>2 DEF Followed, Free, Request, MaybePid
  <2>3. CASE r.reply # "to index" /\ r.reply # "to choose"
    BY <2>3, FreeRequest DEF Followed
  <2> QED  BY <2>1, <2>2, <2>3
<1>3. /\ req' \in [Slot -> Request]
      /\ \A o \in Slot \ {s} : req'[o] = req[o]
      /\ req'[s].at = "new" /\ req'[s].reply = "none" /\ req'[s].what # "post"
      /\ s = Orphan => req'[s] = Free
      /\ s # Orphan => req'[s] = Followed(r)
  <2>1. req' = [req EXCEPT ![s] = IF s = Orphan THEN Free ELSE Followed(@)]
    BY DEF End
  <2>2. (IF s = Orphan THEN Free ELSE Followed(r)) \in Request
    BY <1>2, FreeRequest
  <2> QED  BY <1>1, <1>2, <2>1, <2>2, FreeRequest
<1>4. ASSUME NEW tb \in Page
      PROVE  /\ Shown(tb, r) \in Page
             /\ r.reply \in {"to index", "to choose"} => Shown(tb, r) = tb
             /\ r.reply \in {"number", "error"} =>
                  Shown(tb, r).page = tb.page /\ Shown(tb, r).pid = tb.pid
             /\ r.reply = "chooser" => Shown(tb, r).page = "chooser" /\ Shown(tb, r).poll = "off"
             /\ r.reply = "graph" => Shown(tb, r).page = "graph" /\ Shown(tb, r).pid = r.own
  <2>1. CASE r.reply = "chooser"
    BY <2>1 DEF Shown, Blank, Page, MaybePid
  <2>2. CASE r.reply = "graph"
    BY <1>1, <2>2 DEF Shown, Page, Request
  <2>3. CASE r.reply = "number"
    BY <1>4, <2>3 DEF Shown, Page
  <2>4. CASE r.reply = "error"
    BY <1>4, <2>4 DEF Shown, Page
  <2>5. CASE r.reply \notin {"chooser", "graph", "number", "error"}
    BY <1>4, <2>5 DEF Shown
  <2> QED  BY <2>1, <2>2, <2>3, <2>4, <2>5
<1>5. /\ \A t \in Tab : tab'[t] = IF t = s THEN Shown(tab[t], r) ELSE tab[t]
      /\ tab' \in [Tab -> Page]
  <2>1. CASE s = Orphan
    BY <1>1, <2>1, Slots DEF End
  <2>2. CASE s # Orphan
    <3>1. s \in Tab /\ tab' = [tab EXCEPT ![s] = Shown(@, r)]
      BY <2>2 DEF End, Slot
    <3> QED  BY <1>1, <1>4, <3>1
  <2> QED  BY <2>1, <2>2
<1>6. TypeOK'
  BY <1>1, <1>3, <1>5 DEF IInv, TypeOK, Request
<1>7. ASSUME NEW t \in Tab
      PROVE  /\ t # s => tab'[t] = tab[t]
             /\ r.reply \in {"to index", "to choose"} => tab'[t] = tab[t]
             /\ r.reply \in {"number", "error"} =>
                  tab'[t].page = tab[t].page /\ tab'[t].pid = tab[t].pid
             /\ t = s /\ r.reply = "chooser" => tab'[t].page = "chooser" /\ tab'[t].poll = "off"
             /\ t = s /\ r.reply = "graph" => tab'[t].page = "graph" /\ tab'[t].pid = r.own
  <2>1. tab[t] \in Page /\ tab'[t] = IF t = s THEN Shown(tab[t], r) ELSE tab[t]
    BY <1>1, <1>5
  <2>2. CASE t # s
    BY <2>1, <2>2
  <2>3. CASE t = s
    <3>1. tab[t] \in Page /\ tab'[t] = Shown(tab[t], r)
      BY <2>1, <2>3
    <3> HIDE DEF r
    <3>2. /\ r.reply \in {"to index", "to choose"} => Shown(tab[t], r) = tab[t]
          /\ r.reply \in {"number", "error"} =>
               Shown(tab[t], r).page = tab[t].page /\ Shown(tab[t], r).pid = tab[t].pid
          /\ r.reply = "chooser" =>
               Shown(tab[t], r).page = "chooser" /\ Shown(tab[t], r).poll = "off"
          /\ r.reply = "graph" =>
               Shown(tab[t], r).page = "graph" /\ Shown(tab[t], r).pid = r.own
      BY <1>4, <3>1
    <3> QED  BY <2>3, <3>1, <3>2
  <2> QED  BY <2>2, <2>3
<1>8. Staged'
  <2>1. \A what : what \in {"none", "index", "choose", "post", "poll"} => "new" \in Stages(what)
    BY DEF Stages
  <2>2. req'[s].what \in {"none", "index", "choose", "post", "poll"}
    BY <1>3 DEF Request
  <2> QED  BY <1>3, <2>1, <2>2 DEF IInv, Staged
<1>9. Paged'
  <2>1. r.what = "poll" <=> r.reply \in {"number", "error"}
    BY <1>1 DEF Replies, Request, Busy
  <2>2. r.reply \in {"to index", "to choose", "chooser", "graph", "number", "error"}
    BY <1>1 DEF Replies, Request, Busy
  <2>3. r.what \in Navigation <=> r.what # "poll"
    BY <1>1 DEF Request, Busy, Navigation
  <2>4. ASSUME NEW t \in Tab
        PROVE  /\ tab'[t].page = "loading" <=> req'[t].what \in Navigation
               /\ req'[t].what = "poll" => tab'[t].page = "graph"
               /\ tab'[t].page # "graph" => tab'[t].poll = "off"
    <3>1. /\ tab[t].page = "loading" <=> req[t].what \in Navigation
          /\ req[t].what = "poll" => tab[t].page = "graph"
          /\ tab[t].page # "graph" => tab[t].poll = "off"
          /\ tab[t] \in Page /\ t \in Slot /\ t # Orphan
      BY <1>1, Slots DEF IInv, Paged
    <3>2. CASE t # s
      BY <1>3, <1>5, <3>1, <3>2
    <3>3. CASE t = s
      <4>1. tab'[t] = Shown(tab[t], r) /\ req'[t] = Followed(r) /\ r = req[t]
        BY <1>3, <1>5, <3>1, <3>3
      <4>2. CASE r.reply \in {"to index", "to choose"}
        BY <1>7, <1>2, <2>1, <2>3, <3>1, <3>3, <4>1, <4>2 DEF Navigation
      <4>3. CASE r.reply \in {"number", "error"}
        BY <1>7, <1>2, <2>1, <2>3, <3>1, <3>3, <4>1, <4>3 DEF Navigation
      <4>4. CASE r.reply = "chooser"
        BY <1>7, <1>2, <3>1, <3>3, <4>1, <4>4 DEF Navigation
      <4>5. CASE r.reply = "graph"
        BY <1>7, <1>2, <3>1, <3>3, <4>1, <4>5 DEF Navigation
      <4> QED  BY <2>2, <4>2, <4>3, <4>4, <4>5
    <3> QED  BY <3>2, <3>3
  <2>5. req'[Orphan].what \in {"none", "poll"}
    BY <1>3, FreeRequest DEF IInv, Paged, Slot
  <2> QED  BY <2>4, <2>5 DEF Paged
<1>10. ASSUME choice' # Lost PROVE ~second' /\ Exclusive' /\ Stored'
  <2>1. choice # Lost /\ choice' = choice /\ ~second' /\ Exclusive
    BY <1>1, <1>10 DEF IInv, Undisturbed
  <2>2. \A o \in Slot : req'[o].what # "post"
    <3>1. \A o \in Slot \ {s} : req[o].what # "post"
      BY <1>1, <2>1, NoOther
    <3> QED  BY <1>3, <3>1
  <2>3. Exclusive'
    BY <2>2 DEF Exclusive
  <2>4. Stored'
    <3>1. CASE r.what = "post"
      <4>1. \A o \in Slot \ {s} : req[o].at = "new"
        BY <1>1, <2>1, <3>1, NoOther, BusyLater DEF IInv
      <4>2. \A t \in Tab : tab[t].page # "graph"
        BY <2>1, <3>1 DEF Exclusive, Choosing
      <4>3. r.reply \in {"to index", "to choose"}
        BY <1>1, <3>1 DEF Replies
      <4>4. \A t \in Tab : tab'[t].page # "graph"
        BY <1>7, <4>2, <4>3
      <4>5. r.own \in {choice, NoPid}
        <5>1. CASE Stored
          BY <1>1, <5>1 DEF Stored
        <5>2. ASSUME NEW o \in Slot, Chosen(o) PROVE r.own = choice
          BY <1>1, <2>1, <5>2, NoOther DEF Chosen
        <5> QED  BY <2>1, <5>1, <5>2 DEF IInv, Undisturbed
      <4> QED  BY <1>1, <1>3, <2>1, <4>1, <4>4, <4>5 DEF Stored
    <3>2. CASE r.what # "post"
      <4>1. Stored
        BY <1>1, <2>1, <3>2, StoredWhileBusy DEF IInv
      <4>2. r.own = sess /\ sess' = sess
        BY <1>1, <4>1 DEF Stored
      <4>3. \A o \in Slot : req'[o].at # "new" => req'[o].own = sess'
        BY <1>3, <4>1, <4>2 DEF Stored
      <4>4. ASSUME NEW t \in Tab, tab'[t].page = "graph"
            PROVE  tab'[t].pid = sess' /\ sess' # NoPid
        <5>1. CASE t # s \/ r.reply \in {"to index", "to choose", "number", "error"}
          BY <1>7, <4>1, <4>2, <4>4, <5>1 DEF Stored
        <5>2. CASE t = s /\ r.reply = "chooser"
          BY <1>7, <4>4, <5>2
        <5>3. CASE t = s /\ r.reply = "graph"
          <6>1. tab'[t].pid = r.own
            BY <1>7, <5>3
          <6>2. r.own # NoPid
            BY <5>3 DEF IInv, Staged
          <6> QED  BY <4>2, <6>1, <6>2
        <5> QED  BY <1>1, <5>1, <5>2, <5>3 DEF Replies
      <4> QED  BY <2>1, <4>1, <4>2, <4>3, <4>4 DEF Stored
    <3> QED  BY <3>1, <3>2
  <2> QED  BY <2>1, <2>3, <2>4
<1> QED  BY <1>6, <1>8, <1>9, <1>10 DEF IInv, Undisturbed

-----------------------------------------------------------------------------
(* The browser.                                                            *)

\* A new request in the slot of a tab, and perhaps a poll in that of the orphan.
LEMMA RequestAsked ==
  ASSUME IInv, NEW t \in Tab, NEW r \in Request, r.at = "new", r.reply = "none",
         r.what # "none", NEW orphan, orphan = req[Orphan] \/ orphan = req[t],
         req' = [req EXCEPT ![Orphan] = orphan, ![t] = r]
  PROVE  /\ req' \in [Slot -> Request] /\ Staged'
         /\ \A s \in Slot : s # t /\ s # Orphan => req'[s] = req[s]
         /\ req'[Orphan] = orphan /\ req'[t] = r
<1>1. req \in [Slot -> Request] /\ t \in Slot /\ Orphan \in Slot /\ t # Orphan
  BY Slots DEF IInv, TypeOK
<1>2. /\ req' \in [Slot -> Request]
      /\ \A s \in Slot : s # t /\ s # Orphan => req'[s] = req[s]
      /\ req'[Orphan] = orphan /\ req'[t] = r
  BY <1>1
<1>3. "new" \in Stages(r.what)
  BY DEF Stages
<1>4. Staged'
  <2>1. ASSUME NEW s \in Slot
        PROVE  /\ req'[s].at \in Stages(req'[s].what)
               /\ req'[s].at = "end" => req'[s].reply \in Replies(req'[s].what)
               /\ req'[s].at # "end" => req'[s].reply = "none"
               /\ req'[s].reply = "graph" => req'[s].own # NoPid
    <3>1. CASE s = t
      BY <1>2, <1>3, <3>1
    <3>2. CASE s # t
      <4>1. PICK o \in Slot : req'[s] = req[o]
        BY <1>1, <1>2, <3>2
      <4> QED  BY <4>1 DEF IInv, Staged
    <3> QED  BY <3>1, <3>2
  <2> QED  BY <2>1 DEF Staged
<1> QED  BY <1>2, <1>4

\* Visiting a page and submitting the form.
LEMMA GoToIInv ==
  ASSUME IInv, NEW t \in Tab, NEW what \in Navigation, NEW p \in MaybePid, GoTo(t, what, p)
  PROVE  IInv'
<1> DEFINE orphan == IF Busy(t) THEN req[t] ELSE req[Orphan]
<1>1. /\ tab[t].page # "loading" /\ UNCHANGED <<web, proc, sess, second>>
      /\ choice' = IF Disturbs(t, what) THEN Lost ELSE choice
      /\ req \in [Slot -> Request] /\ tab \in [Tab -> Page]
      /\ t \in Slot /\ Orphan \in Slot /\ t # Orphan
      /\ what \in {"index", "choose", "post", "poll"}
  BY Slots DEF GoTo, IInv, TypeOK, Navigation
<1>2. req' = [req EXCEPT ![Orphan] = orphan, ![t] = [Free EXCEPT !.what = what, !.pid = p]]
  BY <1>1 DEF GoTo
<1>3. req[t].what \in {"none", "poll"} /\ orphan.what \in {"none", "poll"}
  <2>1. req[t].what \notin Navigation /\ req[Orphan].what \in {"none", "poll"}
    BY <1>1 DEF IInv, Paged
  <2>2. req[t].what \in {"none", "index", "choose", "post", "poll"}
    BY <1>1 DEF Request
  <2> QED  BY <2>1, <2>2 DEF Navigation
<1>4. /\ req' \in [Slot -> Request] /\ Staged'
      /\ \A s \in Slot : s # t /\ s # Orphan => req'[s] = req[s]
      /\ req'[Orphan] = orphan
      /\ req'[t].what = what /\ req'[t].at = "new"
  <2> DEFINE r == [Free EXCEPT !.what = what, !.pid = p]
  <2>1. orphan = req[Orphan] \/ orphan = req[t]
    OBVIOUS
  <2>2. r \in Request /\ r.what = what /\ r.at = "new" /\ r.reply = "none"
    BY <1>1 DEF Free, Request, MaybePid
  <2>3. req' = [req EXCEPT ![Orphan] = orphan, ![t] = r] /\ r.what # "none"
    BY <1>1, <1>2, <2>2
  <2> HIDE DEF orphan, r
  <2>4. /\ req' \in [Slot -> Request] /\ Staged'
        /\ \A s \in Slot : s # t /\ s # Orphan => req'[s] = req[s]
        /\ req'[Orphan] = orphan /\ req'[t] = r
    BY <2>1, <2>2, <2>3, RequestAsked, ZenonT(30)
  <2> QED  BY <2>2, <2>4
<1>5. /\ tab' \in [Tab -> Page] /\ \A u \in Tab \ {t} : tab'[u] = tab[u]
      /\ tab'[t].page = "loading" /\ tab'[t].poll = "off"
  <2>1. tab' = [tab EXCEPT ![t] = [Blank EXCEPT !.page = "loading"]]
    BY DEF GoTo
  <2>2. [Blank EXCEPT !.page = "loading"] \in Page
    BY DEF Blank, Page, MaybePid
  <2>3. tab' \in [Tab -> Page] /\ \A u \in Tab \ {t} : tab'[u] = tab[u]
    BY <1>1, <2>1, <2>2
  <2>4. tab'[t] = [Blank EXCEPT !.page = "loading"]
    BY <1>1, <2>1
  <2> QED  BY <2>3, <2>4 DEF Blank
<1>6. TypeOK'
  BY <1>1, <1>4, <1>5 DEF IInv, TypeOK
<1>7. Paged'
  <2>1. \A u \in Tab \ {t} : req'[u] = req[u] /\ tab'[u] = tab[u]
    BY <1>4, <1>5, Slots
  <2>2. req'[Orphan].what \in {"none", "poll"}
    BY <1>3, <1>4
  <2> QED  BY <1>4, <1>5, <2>1, <2>2 DEF IInv, Paged, Navigation
<1>8. ASSUME choice' # Lost PROVE ~second' /\ Exclusive' /\ Stored'
  <2>1. choice # Lost /\ choice' = choice /\ ~Disturbs(t, what) /\ ~second' /\ Exclusive
    BY <1>1, <1>8 DEF IInv, Undisturbed
  <2>2. \A s \in Slot \ {t} : req[s].what # "post" /\ req'[s].what # "post"
    BY <1>3, <1>4, <2>1 DEF Disturbs
  <2>3. Exclusive'
    <3>1. CASE what # "post"
      BY <1>4, <2>2, <3>1 DEF Exclusive
    <3>2. CASE what = "post"
      <4>1. /\ \A s \in Slot : ~Busy(s)
            /\ \A u \in Tab \ {t} : tab[u].page # "graph"
        BY <2>1, <3>2 DEF Disturbs
      <4>2. \A s \in Slot \ {t} : ~Busy(s)'
        BY <1>1, <1>4, <4>1 DEF Busy
      <4>3. \A u \in Tab : tab'[u].page # "graph"
        BY <1>5, <4>1
      <4> QED  BY <1>4, <2>2, <4>2, <4>3 DEF Exclusive, Choosing
    <3> QED  BY <3>1, <3>2
  <2>4. Stored
    BY <1>3, <2>1, <2>2 DEF IInv, Undisturbed, Chosen
  <2>5. Stored'
    <3>1. \A s \in Slot : req'[s].at # "new" => \E o \in Slot : req'[s] = req[o]
      BY <1>1, <1>4
    <3>2. \A s \in Slot : req'[s].at # "new" => req'[s].own = sess
      BY <2>4, <3>1 DEF Stored
    <3> QED  BY <1>1, <1>5, <2>1, <2>4, <3>2 DEF Stored
  <2> QED  BY <2>1, <2>3, <2>5
<1> QED  BY <1>4, <1>6, <1>7, <1>8 DEF IInv, Undisturbed

LEMMA PollIInv == ASSUME IInv, NEW t \in Tab, Poll(t) PROVE IInv'
<1>1. /\ tab[t].poll = "due" /\ tab[t].page = "graph" /\ UNCHANGED <<web, proc, sess, second>>
      /\ req \in [Slot -> Request] /\ tab \in [Tab -> Page]
      /\ t \in Slot /\ Orphan \in Slot /\ t # Orphan
  BY Slots DEF Poll, IInv, TypeOK, Paged
<1>2. PICK poll \in {"sent", "stopped"} : tab' = [tab EXCEPT ![t].poll = poll]
  BY DEF Poll
<1>3. /\ tab' \in [Tab -> Page] /\ \A u \in Tab \ {t} : tab'[u] = tab[u]
      /\ tab'[t].page = "graph" /\ tab'[t].pid = tab[t].pid
  BY <1>1, <1>2 DEF Page
<1>4. CASE /\ req' = [req EXCEPT ![t] = [Free EXCEPT !.what = "poll"]]
           /\ choice' = IF Disturbs(t, "poll") THEN Lost ELSE choice
  <2> DEFINE r == [Free EXCEPT !.what = "poll"]
  <2>1. r \in Request /\ r.what = "poll" /\ r.at = "new" /\ r.reply = "none"
    BY DEF Free, Request, MaybePid
  <2>2. req' = [req EXCEPT ![Orphan] = req[Orphan], ![t] = r]
    BY <1>1, <1>4
  <2> HIDE DEF r
  <2>3. /\ req' \in [Slot -> Request] /\ Staged'
        /\ \A s \in Slot \ {t} : req'[s] = req[s]
        /\ req'[t].what = "poll" /\ req'[t].at = "new"
    BY <2>1, <2>2, RequestAsked
  <2>4. TypeOK'
    BY <1>1, <1>3, <1>4, <2>3 DEF IInv, TypeOK
  <2>5. Paged'
    <3>1. \A u \in Tab \ {t} : req'[u] = req[u] /\ tab'[u] = tab[u]
      BY <1>3, <2>3, Slots
    <3> QED  BY <1>1, <1>3, <2>3, <3>1 DEF IInv, Paged, Navigation
  <2>6. ASSUME choice' # Lost PROVE ~second' /\ Exclusive' /\ Stored'
    <3>1. choice # Lost /\ choice' = choice /\ ~Disturbs(t, "poll") /\ ~second' /\ Exclusive
      BY <1>1, <1>4, <2>6 DEF IInv, Undisturbed
    <3>2. \A s \in Slot : req'[s].what # "post"
      BY <2>3, <3>1 DEF Disturbs
    <3>3. \A s \in Slot : req[s].what # "post"
      BY <1>1, <2>3, <3>1, <3>2 DEF Exclusive, Choosing
    <3>4. Stored
      BY <3>1, <3>3 DEF IInv, Undisturbed, Chosen
    <3>5. Stored'
      BY <1>1, <1>3, <2>3, <3>1, <3>4 DEF Stored
    <3> QED  BY <3>1, <3>2, <3>5 DEF Exclusive
  <2> QED  BY <2>3, <2>4, <2>5, <2>6 DEF IInv, Undisturbed
<1>5. CASE UNCHANGED <<req, choice>>
  <2>1. TypeOK'
    BY <1>1, <1>3, <1>5 DEF IInv, TypeOK
  <2>2. Staged'
    BY <1>5 DEF IInv, Staged
  <2>3. Paged'
    BY <1>1, <1>3, <1>5 DEF IInv, Paged, Navigation
  <2>4. \A u \in Tab : tab'[u].page = tab[u].page /\ tab'[u].pid = tab[u].pid
    BY <1>1, <1>3
  <2>5. Undisturbed'
    BY <1>1, <1>5, <2>4 DEF IInv, Undisturbed, Exclusive, Choosing, Busy, Chosen, Stored
  <2> QED  BY <2>1, <2>2, <2>3, <2>5 DEF IInv
<1> QED  BY <1>4, <1>5 DEF Poll

-----------------------------------------------------------------------------
(* The web tool and the processes.                                         *)

\* Starting the web tool and the processes moves no request, page or session.
LEMMA OutsideIInv ==
  ASSUME IInv, UNCHANGED <<sess, tab, req, second>>, choice' \in {choice, Lost},
         web' \in {"off", "asking", "up"}, proc' \in [Pid -> Kind]
  PROVE  IInv'
<1>1. TypeOK'
  BY DEF IInv, TypeOK
<1>2. Staged' /\ Paged'
  BY DEF IInv, Staged, Paged
<1>3. ASSUME choice' # Lost PROVE ~second' /\ Exclusive' /\ (Stored' \/ \E s \in Slot : Chosen(s)')
  <2>1. choice' = choice /\ ~second /\ Exclusive /\ (Stored \/ \E s \in Slot : Chosen(s))
    BY <1>3 DEF IInv, Undisturbed
  <2>2. Exclusive'
    BY <2>1 DEF Exclusive, Choosing, Busy
  <2>3. Stored' \/ \E s \in Slot : Chosen(s)'
    BY <2>1 DEF Stored, Chosen
  <2> QED  BY <2>1, <2>2, <2>3
<1> QED  BY <1>1, <1>2, <1>3 DEF IInv, Undisturbed

LEMMA ProcessIInv ==
  ASSUME IInv, \/ StartWeb \/ Register
               \/ \E p \in Pid : StartProcess(p) \/ EndProcess(p)
  PROVE  IInv'
<1>1. UNCHANGED <<sess, tab, req, second>> /\ choice' \in {choice, Lost}
  BY DEF StartWeb, Register, StartProcess, EndProcess
<1>2. web' \in {"off", "asking", "up"}
  BY DEF StartWeb, Register, StartProcess, EndProcess, IInv, TypeOK
<1>3. proc' \in [Pid -> Kind]
  BY DEF StartWeb, Register, StartProcess, EndProcess, IInv, TypeOK, Kind
<1> QED  BY <1>1, <1>2, <1>3, OutsideIInv

\* The second answer ends the web tool, and only a lost choice allows it.
LEMMA AgainIInv == ASSUME IInv, AnswerAgain PROVE IInv' /\ choice = Lost
<1>1. choice = Lost
  BY DEF AnswerAgain, IInv, Undisturbed
<1>2. Crash /\ choice' = choice /\ proc' = proc
  BY DEF AnswerAgain
<1>3. /\ web' = "off" /\ sess' \in MaybePid /\ second' \in BOOLEAN
      /\ req' \in [Slot -> Request] /\ tab' \in [Tab -> Page]
      /\ Staged' /\ Paged' /\ Undisturbed'
  BY <1>1, <1>2, CrashKeeps
<1>4. TypeOK'
  BY <1>2, <1>3 DEF IInv, TypeOK
<1> QED  BY <1>1, <1>3, <1>4 DEF IInv

-----------------------------------------------------------------------------
LEMMA NextIInv == IInv /\ [Next]_vars => IInv'
<1> SUFFICES ASSUME IInv, [Next]_vars PROVE IInv'
  OBVIOUS
<1>1. CASE UNCHANGED vars
  <2>1. /\ UNCHANGED <<sess, tab, req, second>> /\ choice' \in {choice, Lost}
        /\ web' \in {"off", "asking", "up"} /\ proc' \in [Pid -> Kind]
    BY <1>1 DEF vars, IInv, TypeOK
  <2> QED  BY <2>1, OutsideIInv
<1>2. ASSUME NEW t \in Tab, Visit(t) \/ Submit(t) PROVE IInv'
  <2>1. PICK what \in Navigation, p \in MaybePid : GoTo(t, what, p)
    BY <1>2 DEF Visit, Submit, Navigation, MaybePid
  <2> QED  BY <2>1, GoToIInv
<1>3. ASSUME NEW s \in Slot, Handle(s) \/ Opened(s) PROVE IInv'
  BY <1>3, IndexIInv, ExecIInv, ListIInv, ChooseIInv, SignalIInv, OpenedIInv, EndIInv DEF Handle
<1>4. CASE \E t \in Tab : Visit(t) \/ Submit(t) \/ Poll(t)
  BY <1>2, <1>4, PollIInv
<1>5. CASE \E s \in Slot : Handle(s) \/ Opened(s)
  BY <1>3, <1>5
<1>6. CASE StartWeb \/ Register \/ \E p \in Pid : StartProcess(p) \/ EndProcess(p)
  BY <1>6, ProcessIInv
<1>7. CASE AnswerAgain
  BY <1>7, AgainIInv
<1> QED  BY <1>1, <1>4, <1>5, <1>6, <1>7 DEF Next

LEMMA SpecIInv == Spec => []IInv
<1>1. Spec => Init /\ [][Next]_vars
  BY PTL DEF Spec
<1> QED  BY <1>1, InitIInv, NextIInv, PTL

LEMMA IInvTitle == IInv => TitleIsSource
<1> SUFFICES ASSUME IInv, NEW t \in Tab, choice # Lost, tab[t].page = "graph"
             PROVE  /\ tab[t].pid = choice
                    /\ req[t].what = "poll" /\ req[t].at # "new" => req[t].own = tab[t].pid
  BY DEF TitleIsSource
<1>1. Stored
  BY DEF IInv, Undisturbed, Chosen, Exclusive, Choosing
<1> QED  BY <1>1, Slots DEF Stored

LEMMA SignalChosen ==
  ASSUME IInv, NEW s \in Slot, Signal(s), NEW p \in Pid, proc'[p] # proc[p]
  PROVE  choice \in {p, Lost}
<1>1. req[s].what = "poll" /\ Busy(s)
  BY DEF Signal, Busy
<1>2. sess = p /\ sess # NoPid
  <2>1. proc \in [Pid -> Kind]
    BY DEF IInv, TypeOK
  <2>2. PICK q \in Pid : /\ sess # NoPid /\ q = sess
                         /\ proc' = [proc EXCEPT ![q] = IF @ = "server" THEN @ ELSE "none"]
    BY DEF Signal, SessionProc
  <2> QED  BY <2>1, <2>2
<1>3. choice # Lost => Stored
  BY <1>1, StoredWhileBusy DEF IInv
<1> QED  BY <1>2, <1>3 DEF Stored

-----------------------------------------------------------------------------
\* Every variable keeps its type, for any number of tabs and processes: in particular
\* the first line that grep finds is that of a process.
THEOREM WebTypes == Spec => []TypeOK
<1>1. IInv => TypeOK
  BY DEF IInv
<1> QED  BY <1>1, SpecIInv, PTL

\* The title of every graph is the process chosen last, and that is the one it asks,
\* while choices are not disturbed, for any number of tabs and processes.
THEOREM TitleKept == Spec => []TitleIsSource
BY SpecIInv, IInvTitle, PTL

\* A poll ends no process but one the user has chosen.
THEOREM OnlyChosenKept == Spec => OnlyChosen
<1>1. IInv => \A s \in Slot : Signal(s) =>
                 \A p \in Pid : proc'[p] # proc[p] => choice \in {p, Lost}
  BY SignalChosen
<1> QED  BY <1>1, SpecIInv, PTL DEF OnlyChosen

\* No request is answered twice before a poll has taken longer than its timer.
THEOREM OneAnswerKept == Spec => OneAnswer
<1>1. IInv => (AnswerAgain => choice = Lost)
  BY AgainIInv
<1> QED  BY <1>1, SpecIInv, PTL DEF OneAnswer
=============================================================================
