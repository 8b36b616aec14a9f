------------------------------ MODULE WebTool ------------------------------
(***************************************************************************)
(* The web tool: it registers (register.js), serves two pages and one call *)
(* (app.js, controller.js, api.js), and the page of the graph asks once a  *)
(* second for the number of clients of the server it shows                 *)
(* (views/index.ejs).  How the number gets through the FIFO is StatusFifo. *)
(*                                                                         *)
(* All tabs of a browser share one session, which holds the chosen          *)
(* process.  A request gets a copy of it when it comes in, and stores its  *)
(* copy back when it is answered, changed or not.  Processes come and go   *)
(* meanwhile, and their ids are given out again.                           *)
(***************************************************************************)
EXTENDS Integers, FiniteSetsExt

CONSTANTS
  Pid,     \* the ids of processes, numbers: ps lists them in this order
  Shows,   \* <<q, p>>: the line of process q also has the digits of p in it
  Tab,
  Orphan,  \* the slot of a poll whose page has been left; one at a time is the bound
  NoPid, Lost

Slot == Tab \cup {Orphan}
MaybePid == Pid \cup {NoPid}
\* No process of the account that ps and grep find; a server; another program with the
\* name in its line, whose second word is a file, as of an editor, or is not.
Kind == {"none", "server", "editor", "bare"}
ASSUME WebAssumption ==
  /\ Pid \subseteq Nat /\ IsFiniteSet(Pid) /\ Shows \subseteq Pid \X Pid
  /\ NoPid \notin Pid /\ Lost \notin MaybePid /\ Orphan \notin Tab

VARIABLES
  web,    \* "off", "asking", "up"
  proc,   \* the processes of the account
  sess,   \* the chosen process in the session store
  tab,    \* the tabs
  req,    \* the requests under way
  second, \* a poll that has been answered will be answered once more
  choice  \* history: the process last chosen, or Lost when a choice was disturbed, an id
          \* reused, a wrong line found or a poll timed out
vars == <<web, proc, sess, tab, req, second, choice>>

\* A tab: its page, the process in its title, and the state of its graph.
Page == [page : {"blank", "loading", "chooser", "graph"}, pid : MaybePid,
         poll : {"off", "due", "sent", "stopped"}]
Blank == [page |-> "blank", pid |-> NoPid, poll |-> "off"]
\* A request: its copy of the session, the process it names, and its answer.
Request == [what : {"none", "index", "choose", "post", "poll"},
            at : {"new", "exec", "open", "end"}, own : MaybePid, pid : MaybePid,
            reply : {"none", "to index", "to choose", "chooser", "graph", "number", "error"}]
Free == [what |-> "none", at |-> "new", own |-> NoPid, pid |-> NoPid, reply |-> "none"]

TypeOK ==
  /\ web \in {"off", "asking", "up"} /\ proc \in [Pid -> Kind] /\ sess \in MaybePid
  /\ tab \in [Tab -> Page] /\ req \in [Slot -> Request]
  /\ second \in BOOLEAN /\ choice \in MaybePid \cup {Lost}

Init ==
  /\ web = "off" /\ proc \in [Pid -> Kind] /\ sess = NoPid
  /\ tab = [t \in Tab |-> Blank] /\ req = [s \in Slot |-> Free]
  /\ second = FALSE /\ choice = NoPid

Busy(s) == req[s].what # "none"
-----------------------------------------------------------------------------
(* The process of the web tool.                                            *)

\* It ends, and with it its sessions, requests and timers; the call a page waits for
\* fails, which the page does not handle.
Crash ==
  /\ web' = "off" /\ sess' = NoPid /\ second' = FALSE /\ req' = [s \in Slot |-> Free]
  /\ tab' = [t \in Tab |-> IF tab[t].page = "loading" THEN Blank
                         ELSE IF tab[t].poll = "sent" THEN [tab[t] EXCEPT !.poll = "stopped"]
                         ELSE tab[t]]

StartWeb ==
  /\ web = "off" /\ web' = "asking"
  /\ UNCHANGED <<proc, sess, tab, req, second, choice>>

\* The register answers with a port, or with none, or cannot be reached.
Register ==
  /\ web = "asking" /\ web' \in {"up", "off"}
  /\ UNCHANGED <<proc, sess, tab, req, second, choice>>

-----------------------------------------------------------------------------
(* The browser.                                                            *)

\* A choice is disturbed by another tab that shows a graph, and by any other request
\* that is under way, as that one stores the old choice when it is answered.
Disturbs(t, what) ==
  \/ \E s \in Slot \ {t} : req[s].what = "post"
  \/ what = "post" /\ \/ \E s \in Slot : Busy(s)
                      \/ \E u \in Tab \ {t} : tab[u].page \in {"graph", "loading"}

\* The tab leaves its page; a poll that is under way stays under way.
GoTo(t, what, p) ==
  /\ web = "up" /\ tab[t].page # "loading" /\ (Busy(t) => ~Busy(Orphan))
  /\ tab' = [tab EXCEPT ![t] = [Blank EXCEPT !.page = "loading"]]
  /\ req' = [req EXCEPT ![Orphan] = IF Busy(t) THEN req[t] ELSE @,
                        ![t] = [Free EXCEPT !.what = what, !.pid = p]]
  /\ choice' = IF Disturbs(t, what) THEN Lost ELSE choice
  /\ UNCHANGED <<web, proc, sess, second>>

Visit(t) == \E what \in {"index", "choose"} : GoTo(t, what, NoPid)

\* The form; without a choice it has no pid.  What the page lists may have ended since.
Submit(t) ==
  /\ choice # Lost /\ tab[t].page = "chooser"
  /\ \E p \in MaybePid : GoTo(t, "post", p)

\* update_func: it runs when the graph is loaded, and a second after every number.
Poll(t) ==
  /\ tab[t].poll = "due"
  /\ \/ /\ web = "up"
        /\ tab' = [tab EXCEPT ![t].poll = "sent"]
        /\ req' = [req EXCEPT ![t] = [Free EXCEPT !.what = "poll"]]
        /\ choice' = IF Disturbs(t, "poll") THEN Lost ELSE choice
     \/ /\ web # "up"
        /\ tab' = [tab EXCEPT ![t].poll = "stopped"] /\ UNCHANGED <<req, choice>>
  /\ UNCHANGED <<web, proc, sess, second>>

\* What a tab does with the answer to request r.  A redirect is a new request.
Shown(tb, r) ==
  CASE r.reply = "chooser" -> [Blank EXCEPT !.page = "chooser"]
    [] r.reply = "graph" -> [page |-> "graph", pid |-> r.own, poll |-> "due"]
    [] r.reply = "number" -> [tb EXCEPT !.poll = "due"]
    [] r.reply = "error" -> [tb EXCEPT !.poll = "stopped"]
    [] OTHER -> tb
Followed(r) ==
  CASE r.reply = "to index" -> [Free EXCEPT !.what = "index"]
    [] r.reply = "to choose" -> [Free EXCEPT !.what = "choose"]
    [] OTHER -> Free

-----------------------------------------------------------------------------
(* The requests.                                                           *)

Answer(s, own, reply) ==
  req' = [req EXCEPT ![s] = [@ EXCEPT !.at = "end", !.own = own, !.reply = reply]]

\* exports.index
Index(s) ==
  /\ req[s].what = "index" /\ req[s].at = "new"
  /\ Answer(s, sess, IF sess = NoPid THEN "to choose" ELSE "graph")
  /\ UNCHANGED <<web, proc, sess, tab, second, choice>>

\* exports.choose and exports.choose_post, to their exec; a form without a choice.
Exec(s) ==
  /\ req[s].what \in {"choose", "post"} /\ req[s].at = "new"
  /\ IF req[s].what = "post" /\ req[s].pid = NoPid
       THEN Answer(s, sess, "to choose")
       ELSE req' = [req EXCEPT ![s] = [@ EXCEPT !.at = "exec", !.own = sess]]
  /\ UNCHANGED <<web, proc, sess, tab, second, choice>>

\* The page of the form, also after an error of ps: the second render is what is sent.
List(s) ==
  /\ req[s].what = "choose" /\ req[s].at = "exec"
  /\ Answer(s, req[s].own, "chooser")
  /\ UNCHANGED <<web, proc, sess, tab, second, choice>>

\* grep for the id: it may be in other lines too, and the first line is taken.
Lines(p) == {q \in Pid : proc[q] # "none" /\ (q = p \/ <<q, p>> \in Shows)}

\* A callback that sets the session once only, one without "grep -v grep", which takes
\* the grep itself, and choose_post's.
OnceProc(old, q) == IF old = NoPid THEN q ELSE old
GrepProc(old, q) == Max(Pid) + 1
SetProc(old, q) == q

\* The callback of choose_post: grep finds nothing, resolve_pwd and read_cfg throw, or the
\* process is taken.
Choose(s) ==
  LET p == req[s].pid
      q == Min(Lines(p))
  IN /\ req[s].what = "post" /\ req[s].at = "exec"
     /\ \/ /\ Lines(p) = {} /\ Answer(s, req[s].own, "to choose")
           /\ UNCHANGED <<web, sess, tab, second, choice>>
        \/ /\ Lines(p) # {} /\ proc[q] = "bare" /\ Crash /\ UNCHANGED choice
        \/ /\ Lines(p) # {} /\ proc[q] # "bare"
           /\ Answer(s, SetProc(req[s].own, q), "to index")
           /\ choice' = IF choice # Lost /\ Lines(p) = {p} THEN p ELSE Lost
           /\ UNCHANGED <<web, sess, tab, second>>
     /\ UNCHANGED proc

\* A call that signals any process, and one that signals the session's.
AnyProc(p) == TRUE
SessionProc(p) == p = sess

\* threads_active to its open: kill reports a process that is gone, and SIGUSR1 ends one
\* that does not handle it.
Signal(s) ==
  /\ req[s].what = "poll" /\ req[s].at = "new"
  /\ \/ /\ sess = NoPid \/ (sess # NoPid /\ proc[sess] = "none")
        /\ Answer(s, sess, "error") /\ UNCHANGED proc
     \/ \E p \in Pid :
          /\ sess # NoPid /\ SessionProc(p) /\ proc[p] # "none"
          /\ req' = [req EXCEPT ![s] = [@ EXCEPT !.at = "open", !.own = sess]]
          /\ proc' = [proc EXCEPT ![p] = IF @ = "server" THEN @ ELSE "none"]
  /\ UNCHANGED <<web, sess, tab, second, choice>>

\* The open returns: with the number of a running server, or because the FIFO is gone.
KeepTimeout == TRUE   \* the answer of the timer is still to come
ClearTimeout == second
Opened(s) ==
  /\ req[s].at = "open"
  /\ Answer(s, req[s].own, IF proc[req[s].own] = "server" THEN "number" ELSE "error")
  /\ second' = ClearTimeout
  /\ UNCHANGED <<web, proc, sess, tab, choice>>

\* The timer: the open is still under way, and will answer again if it ever returns.
NoTimer(s) == FALSE
Timer(s) == req[s].at = "open"
Timeout(s) ==
  /\ Timer(s) /\ Answer(s, req[s].own, "error")
  /\ second' = TRUE /\ choice' = Lost
  /\ UNCHANGED <<web, proc, sess, tab>>

\* The second answer throws, outside of any request.
AnswerAgain ==
  /\ second /\ Crash /\ UNCHANGED <<proc, choice>>

\* The answer: the session is stored, then the tab gets it.
End(s) ==
  /\ req[s].at = "end"
  /\ sess' = req[s].own
  /\ tab' = IF s = Orphan THEN tab ELSE [tab EXCEPT ![s] = Shown(@, req[s])]
  /\ req' = [req EXCEPT ![s] = IF s = Orphan THEN Free ELSE Followed(@)]
  /\ UNCHANGED <<web, proc, second, choice>>

-----------------------------------------------------------------------------
(* The processes.  An id that the session, a request or a title holds may   *)
(* be given to a new process.  The bound: once choice is Lost no process     *)
(* starts and nobody submits a form.                                       *)

Held == {sess, choice} \cup {req[s].own : s \in Slot} \cup {req[s].pid : s \in Slot}
                       \cup {tab[t].pid : t \in Tab}
StartProcess(p) ==
  /\ choice # Lost /\ proc[p] = "none"
  /\ \E k \in Kind \ {"none"} : proc' = [proc EXCEPT ![p] = k]
  /\ choice' = IF p \in Held THEN Lost ELSE choice
  /\ UNCHANGED <<web, sess, tab, req, second>>
EndProcess(p) ==
  /\ proc[p] # "none" /\ proc' = [proc EXCEPT ![p] = "none"]
  /\ UNCHANGED <<web, sess, tab, req, second, choice>>

-----------------------------------------------------------------------------
Handle(s) == \/ Index(s) \/ Exec(s) \/ List(s) \/ Choose(s) \/ Signal(s)
             \/ Timeout(s) \/ End(s)

Next ==
  \/ StartWeb \/ Register \/ AnswerAgain
  \/ \E t \in Tab : Visit(t) \/ Submit(t) \/ Poll(t)
  \/ \E s \in Slot : Handle(s) \/ Opened(s)
  \/ \E p \in Pid : StartProcess(p) \/ EndProcess(p)

\* The event loop runs the handlers, callbacks and timers of every request.  No open
\* need return, no user need click.
Spec == Init /\ [][Next]_vars /\ \A s \in Slot : WF_vars(Handle(s))
-----------------------------------------------------------------------------
(* Properties.                                                             *)

\* The title of a graph is the process that was chosen last, and its polls ask that
\* process (index.ejs 19, 46-55; controller.js 64-71), while choices are not disturbed,
\* ids not reused and the digits of an id in one line only.
TitleIsSource ==
  \A t \in Tab : choice # Lost /\ tab[t].page = "graph" =>
    /\ tab[t].pid = choice
    /\ req[t].what = "poll" /\ req[t].at # "new" => req[t].own = tab[t].pid

\* A poll signals nothing but what was chosen (api.js 13): what ends by its signal is
\* a program the user took for a server.
OnlyChosen ==
  [][\A s \in Slot : Signal(s) =>
       \A p \in Pid : proc'[p] # proc[p] => choice \in {p, Lost}]_vars

\* A request is answered once: the web tool does not end by a second answer, unless a
\* poll took longer than its timer (api.js 34-43).
OneAnswer == [][AnswerAgain => choice = Lost]_vars

\* Whatever happens to the server that is polled, the page gets an answer or the web
\* tool ends: the graph never waits for good (api.js 34-40).
PollEnds == \A t \in Tab : tab[t].poll = "sent" ~> tab[t].poll # "sent"
=============================================================================
