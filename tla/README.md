# Verification of csiebox and its tools

The repository holds the work of a system-programming course.  Its core is
`mp5/`, *csiebox*: a small Dropbox in C.  Clients log in to a server, push the
content of their home directory, watch it with inotify and push every change;
the server is a single process that selects over its connections.  Around it
stand a thread pool, a port register for the lab machines, a script and a web
tool that ask a running server how many clients it has, the widgets the tool's
pages are built with (`bootstrap.js`), and, outside `mp5/`, a file server with
record locks (`sp_even_hw1.c`).

This directory holds the TLA+ models, the TLC configurations that check them on
small instances, and TLAPS proofs that hold for every instance.

    tlc -config Push.cfg MCSession      one run; section 4 names the others
    tlapm PoolProofs.tla                one module of proofs; section 6

## 1. Inventory

| component | source | state it keeps | operations | what makes it correct |
|---|---|---|---|---|
| synchronisation client | `csiebox_client.c` 231-460, `send.c` | the traversal and `hl[]`, the name being synchronised, the open file, the inotify queue | `traverse_file`, `sync_file` / `send_meta` / `send_file`, `send_hardlink`, the event loop | what it sends is what the server reads; every change is pushed in the end |
| synchronisation server | `csiebox_server.c` 126-557 | `masterset`, the request being served, the files of every account | `select` loop; META, HARDLINK, END, RM; logout | files are never torn; names, contents and links equal the client's; every client is answered |
| login and pull | `csiebox_server.c` 335-362, 559-685; `csiebox_client.c` 94-229, 433-470; `send.c` 12-153 | the home that is sent and the name under way, `hl[]` of the server, the home that is filled | `login`, the traversal of the server, the receive loop of the client | one side sends and the other receives; what is pulled is the home at one moment; a login ends |
| server process | `csiebox_server.c` 39-125, 701-733 | descriptors, `client_num`, pid file | signal handlers, `daemonize`, `destroy` | the count is that of the logged-in clients |
| thread pool | `thread_pool.c`, `threadpool.h` | ring of tasks, counters, `shutdown`, one mutex, one condition | `create`, `add`, `destroy`, `free`, the worker | accepted tasks run once, in order; shutdown ends; freed when unused |
| port register | `port_register.c`, `hash.c`, `connect.c` | table of reserved ports, hash table of accounts | book, look up, sweep; `server_start`, `client_start` | a client reaches the server it asked for; ports do not run out |
| client count over the FIFO | `csiebox_server.c` 39-69, `web/api.js`, `script/printStatus.py` | the FIFO, the pending signal, the pollers | poll, signal, answer, timeout | one poll, one number, and it was right |
| single-file server | `sp_even_hw1.c` | a request per connection, the open file of each, record locks | `select` loop of the read and of the write server | one writer at a time; a reader never sees a half-written file; whoever closes is served |
| web tool | `web/app.js`, `controller.js`, `api.js`, `register.js`, `helper.js`, `views/` | the session of each browser (the chosen process), requests and timers under way | registration, two pages, the form, the poll | the graph shows what was chosen; nothing else gets a signal; one answer to one poll |
| page widgets | `web/public/js/bootstrap.js` | per element: classes, timers, transitions under way, handlers bound | tooltip, carousel, collapse, modal, tab, scrollspy: calls, clicks, callbacks | at rest the page shows one item, pane or panel, and nothing is left behind |
| start script | `script/csiebox_server.sh` | the pid file | start, stop, status | names the right process |
| exercises | `inotify_test.c`, `lock_test.c`, `sig_test.c` | none | try out a system call | no part of the system |
| other libraries | `web/public/js` without `bootstrap.js`, `web/node_modules` | | | third party |

**Interaction.**  Client and server exchange headers of fixed size and data over
one TCP connection.  No byte of the stream marks the start of a message: each
`recv` (with `MSG_WAITALL`) takes as many bytes as the protocol says come next,
so one missed or extra answer puts the two out of step for good.  Clients of one
account share a directory of the server.  A server books its port from the port
register when it starts, a client asks the register for the port of an account;
both then use the answer on their own.  A poller finds the server's pid, sends
SIGUSR1 and opens a FIFO whose other end the signal handler opens, so the handler
stops the server until a reader is there.  The signal may also cut short a `recv`
of the request being served.  The web tool does the same for a page that polls
once a second; the session tells it which process, and all tabs of a browser share
that session.  The widgets of its pages run by themselves, each a small machine of
clicks, timers and ends of transitions.  Client and server take `flock` locks on the files
they transfer, which other processes may hold.

**What is hard.**

- *Framing* by protocol alone, with files that change while they are sent, and
  faults that cut a message short.
- *One thread for all clients*: inside a request the server blocks on one
  connection; what any client does there concerns all of them.
- *Names, not files*: events and answers are handled by name long after the name
  was looked up; a file is opened again by name between two messages.
- *Two homes that decide by themselves* who sends after a login: client and server
  never ask each other.
- *Hard links*: the client remembers inodes and names (`hl[]`) that go stale.
- *A ring with one condition variable*, and a shutdown that races with additions
  and with a second shutdown.
- *A reservation that is not a binding*, with probes in between (port register).
- *A rendezvous on a FIFO* with a timeout, signals that coalesce and a handler
  that blocks.
- *A session that every request copies and stores* (web tool), process ids that
  are given out again, and a timer that races with an `open`.
- *Callbacks at the end of a transition* (widgets): whatever was clicked meanwhile,
  the callback goes on where its call had stopped.
- *Locks of the process, names of the program* (file server): truncation before
  locking, exclusion by comparing strings.

`PROJECT.json` lists each hazard at its line with the properties that watch it.

## 2. Modules

| module | what it is |
|---|---|
| `Session` | clients, user, connections, server and faults; the properties |
| `MCSession` | homes, sizes and accounts of the small instances |
| `SessionProofs` | proofs: types; the streams stay in step, no message is taken for another; the server's files are whole; the server has what the clients have |
| `Pull`, `MCPull` | login, the pull of a home, and the clients that push meanwhile |
| `PullProofs` | proofs: types, and that a pull gives the home of one moment |
| `TaskPool` | abstract: what `threadpool.h` promises |
| `ThreadPool` | the ring, the workers, creation and shutdown; implements `TaskPool` |
| `PoolProofs` | proofs: inductive invariant of the pool and the refinement |
| `PortRegister`, `MCPortRegister` | register, hash table, servers and clients that ask it |
| `PortProofs` | proofs: a client reaches the server it asked for, a sweep gives ports back |
| `StatusFifo` | signal, handler, FIFO and pollers |
| `StatusProofs` | proofs: types, and that an undisturbed poll gets one right number |
| `WebTool`, `MCWebTool` | the web tool: session, tabs, requests, polls, processes |
| `WebProofs` | proofs: types, titles, which process a poll signals, answers |
| `Tooltip`, `Carousel`, `Collapse`, `Modal`, `Tab`, `ScrollSpy` | one widget each, its object a record |
| `MCWidgets` | takes one of the widgets and explores it |
| `WidgetProofs` | proofs: types, and what each widget keeps at rest |
| `FileServer`, `MCFileServer` | read and write servers, their connections, files and locks |
| `FileProofs` | proofs: types, one writer, what a file holds during an upload, what a reader is sent |

## 3. The models and the code

### Session

`Session` starts where login ends (`Pull` has what comes before): every client is connected and logged in, has a
home that is not empty, and the server's home of the account is empty.

*Connections.*  `up[c]` and `down[c]` are the bytes in flight, one element per
`send`.  A `recv` takes the head of the stream if that is the message it was
written for.  When it is not, the client goes on with the wrong bytes as the code
does (it only looks at the status), and the server takes `Garbage`: it may go on
in no defined way (`pthread_exit` for a wrong magic, `datalen` taken from file
data), so the model ends it.  `send` never blocks: buffers are large next to what
is unread, because a client never sends two requests without an answer between
them except after the last block.

*The client* is one program counter `cpc[c]` inside one phase `phase[c]`.

| action | code |
|---|---|
| `Visit` | one entry of `traverse_file` (`csiebox_client.c` 315-361): `lstat`, search of `hl[]`; an entry that is gone ends the traversal |
| `SendLink`, `RecvLinkEcho` | `send_hardlink` and the stat after it |
| `SendMeta`, `RecvMetaEcho`, `RecvMetaRes` | `sync_file` and `send_meta` (`send.c`): header, echo, path, answer |
| `SendFileHeader`, `SendFileData` | the loop of `send_file`, a block of N bytes at a time |
| `StartWatch`, `SyncEvent`, `DeleteEvent`, `RecvRmEcho` | `inotify_add_watch` and the event loop (231-313) |
| `Crash` | the client is killed at any point |

*The user* (`Create`, `Write`, `Touch`, `Delete`, `Link`) changes names and inodes
at any time; `Notify` is the inotify queue, including its merging of equal events.

*The server* is one program counter `spc`.  `Select` reads the set of readable
connections, `ServeMeta`, `ServeLink`, `ServeRm` and `Logout` are the head of
`handle_request`, the other actions its branches: `RecvPath` (digest, `fopen`,
`mkdir`), `LockFile` and `LockHeld` (the lock loop), `RecvFileHeader`, `RecvData`,
`RecvNames`, `RecvRmPath`, and what each `recv` does at the end of the stream
(`Eof...`) or when a signal cuts it short (`ShortData`).

*Data.*  A content is a *version*: a number of full blocks and perhaps a short
one.  A file of the server is the sequence of blocks it was given, each with the
version and position it came from, so that a lost, repeated or mixed block shows.
The digest is the content itself.  An inode number is the least free one, which
is the worst case for `hl[]`.

*Faults* hit the clients in `Fallible`, each at most once: the client is killed,
its file is locked by another process, or SIGUSR1 cuts a block short.  `hurt`
remembers who was hit, or ended; the properties are about the others.

### Pull

`ServeLogin` is the case `LOGIN` of `handle_request` up to the answer: `Accept` for a
right password, where the traversal of a home that is not empty follows in the same
call, `Refuse` for a wrong one, after which the home of nobody is opened.  `Visit` is
one entry of `traverse_file` to the answer it waits for: `SendMeta`, or `SendLink` for
a second name of a file, or the end of the server at a symbolic link.  `RecvEcho` and
`SendBlock` are the rest of `send_meta` and `send_file`, `Finish` the header that ends
the pull.  `Start`, `RecvLogin`, `RecvHeader`, `RecvMeta`, `RecvPath`, `RecvBlock` are
the client (`csiebox_client_run` 96-229), `ServerGone` its `recv` that returns 0.
`Garbled` is the moment at which a server that sends takes the request of a client
that sends for an answer; from there on nothing is defined and the model stops.
`BrokenPipe` is SIGPIPE of a server whose client was killed.

A home is a map from names to inodes (`ent`) and from inodes to blocks (`dat`), so
that two names can be one file.  `Push` stands for a request of a client that has
logged in (`Written`, `Removed`, `Linked`, the effects of `ServeMeta`, `ServeRm` and
`ServeLink` of `Session`) as one step: in the code the server does nothing else
during a request, nor during a pull.  `snap` is history: the home at the login.

### TaskPool, ThreadPool

`TaskPool` knows accepted, pending, running and finished tasks and whether the
pool is closed.  `ThreadPool` has the ring, `head`, `tail`, `count`, `shutdown`,
`started` and the state of each thread.  Everything between `pthread_mutex_lock`
and `pthread_mutex_unlock` or `pthread_cond_wait` is one action, since only these
sections touch the pool: `Add` is `threadpool_add`; `Sleep`, `Take`, `Exit` and
`Run` are `threadpool_thread`, `Spurious` a wakeup without a signal;
`CreateThread`, `Created`, `CreateFails` are `threadpool_create` with threads that
run before the next is created; `Destroy`, `DestroyAgain` and `Join` are
`threadpool_destroy` and `threadpool_free`.  A task may end its thread, as
`handle_request` does for a wrong magic.  A second `threadpool_destroy` leaves
with the lock in its hands (`held`), as the code does.

### PortRegister

`chain` is the hash table of `hash.c`, `reserve` the table of `port_register.c`.
`Book` and `Request` are the two requests; `Idle` starts a sweep after five quiet
seconds, in which `CleanRecord` and `CheckPort` bind one port each and
`CloseProbe` gives it back, so that servers and clients run while a probe is
bound.  A sweep walks a snapshot of the records, bucket by bucket (`records`; nobody
adds a record while it runs), and then the ports from `next` on.  `StartServer`, `Bind`, `StopServer`, `StartClient`, `Connect` and
`StopClient` are `server_start` and `client_start` of `connect.c` and the programs
around them.  The code of a name is a constant function `Code`; a record
is found by its code alone, as in `hash.c`, and its name is not compared.

### StatusFifo

`handler` is where `sig_usr` (`csiebox_server.c` 39-57) is; the loop of the
server (`Serve`) stands meanwhile.  `Kill`, `Open`, `Read`, `Close` are the steps
of a poller: `printStatus.py` reads to the end of the file, `api.js` reads four
bytes.  `GiveUp` is the timeout of the page, after which its `open` is still under
way and ends the web server when it returns (it answers a second time), `Die` a
poller that is stopped.  A FIFO drops its content when nobody holds it open
(`Kept`); `open` for writing lets every reader that waits go on.

### WebTool

`sess` is the session in the store, `tab[t]` the page of a tab with the process in
its title and the state of its poll, `req[s]` the request of a tab with its copy of
the session; a poll whose page has been left goes on in the slot `Orphan`.
`Index`, `Exec`, `List`, `Choose` are `controller.js`, `Signal`, `Opened`,
`Timeout` the stages of `threads_active` (`api.js`), `AnswerAgain` the answer of an
`open` that returns after the timer, which ends the tool (`Crash`).  `End` is what
express does when a request is answered: the copy is stored, then the browser gets
the answer and follows a redirect.  `Visit`, `Submit`, `Poll` are the user and the
script of `index.ejs`.  Processes (`proc`) start, end and reuse ids at any time;
`Lines` is what `ps | grep` finds for an id, including lines that merely contain its
digits (`Shows`).

### The widgets

Each module is one widget of `bootstrap.js`.  Every public method, every handler
of the data api and every callback at the end of a transition is an action; the
methods are operators from record to record, because they call one another.  A
transition that has begun stands among the callbacks (`pend`, `moving`,
`waiting`) and ends at any time after, since the duration is in the style sheet and
`emulateTransitionEnd` (45-59) bounds it.  All callbacks that wait for an element run
when a transition of it ends.  Those of a tab replace panes one after the other and are
a sequence; those of a panel or a backdrop do the same in any order and when they come
twice, and are a set.  Timers are sets of ids (`Carousel`) or the one pending timer
(`Tooltip`).

| module | code | what is in it |
|---|---|---|
| `Tooltip` | 1107-1453 | enter and leave with delays, show, hide, toggle, enable, destroy; popovers extend it |
| `Carousel` | 306-488 | the interval, pause on hover, controls, indicators, slides, the events at their end |
| `Collapse` | 524-675 | panels of an accordion, through their own objects or dropped ones |
| `Modal` | 859-1077 | show, hide, escape and clicks, the backdrop, focus and dismissal handlers |
| `Tab` | 1770-1841 | togglers, panes with and without fading |
| `ScrollSpy` | 1611-1719 | offsets in sorted order, the mark, a layout that changes |

### FileServer

`conn[c]` is a connection with the client's half (units sent, its end) and the
server's (`request`: the name, what was read, the offset of the file).  A server
is at `select`, at `handle_read` (`take`), between `open` and `fcntl` (`lock`), or
in a reader's copy loop.  `Select` is the outer loop (99-130): it accepts one
connection and picks any readable one.  `Refuse`, `Open`, `Lock`, `Write`,
`Complete`, `Leave` are the write server (176-232), `RefuseRead`, `AcceptRead`,
`Copy` the read server (133-171).  A lock is a set of processes; closing any
descriptor of a file gives up all locks of the process on it, as for record locks
(`Unlocked`).  `Crash` is `strcmp` with the name that a connection without a
header does not have.  The content of a file is a sequence of pieces `<<c, i>>`.

## 4. Runs

| run | properties | what it shows | distinct states |
|---|---|---|---|
| `push` | `TypeOK Mirror LinksKept Answered` | Two accounts push homes with and without hard links, then a file is rewritten or touched while the other client still pushes: the server ends with the same names, contents and links, every wait is answered | 124,024 |
| `watch` | `Mirror` | Three changes, also of the name being transferred, are all handled and mirrored | 318,996 |
| `shared` | `SomeonesCopy Settles` | Two clients of one account push the same names and then watch, with one change of any kind: for each name the server keeps one complete file of one of them, unless one of them has ended, and the session comes to rest | 353,720 |
| `faulty` | `Framing WholeFiles` | A client is killed, finds its file locked, or has a block cut short, while files, links and a directory change also before the watch exists and after it is lost: the other client's stream and files are not affected | 1,230,866 |
| `locked` | `Answered` | *violated*: a locked file is answered twice (section 8) | |
| `pull` | `Pulled LoginEnds` | Two clients of one account log in, pull, push and leave; one has wrong passwords and is killed anywhere: what was pulled is the home at one moment, and a login ends | 649,328 |
| `pool` | `TypeOK NoLostWakeup FreedSafely Implements Processed Destroyed` | Three workers, a ring of two, four tasks of which one ends its thread, two callers of destroy, creation that may fail | 168,590 |
| `register` | `RightServer Reclaimed` | Three accounts, two in one bucket, one client, four ports of which one is foreign | 529,389 |
| `status` | `OneFreshNumber BackToLoop` | A script and a page poll while clients come and go | 186,504 |
| `widgets` | `TypeOK TipFollows OneTimer OneItem Accordion ModalWhole PaneOfTab SpyRight Disappears` | Each widget under every order of clicks, script calls, timers and transitions | 154,036 |
| `web` | `TypeOK TitleIsSource OneAnswer OnlyChosen PollEnds` | Two tabs of one browser choose servers and poll them while processes come, go and reuse ids | 305,239 |
| `files` | `TypeOK OneWriter Uploaded WholeRead Served` | Two write servers and a read server share a file; transfers start, stall and break off at any point | 314,005 |

**Bounds of Session.**  Versions 0 to 4 are the empty file, a short one, one full
block, a full and a short block, and another short one: every way the block loop
can end, including a file whose size is a multiple of N, and two contents of equal
size.  A file that shrinks or grows while it is read is a change of version at any
step.  Two clients are enough for one to be served while the other waits, and for
two transfers of one name to overlap; what a third one does the server does not
see before it returns to `select`.  Two names in one home give all cases of
`hl[]`: first name, second name, a name whose inode was reused.  `MaxEdits` is
0 to 3; each change is a single event, and what a client can get wrong is decided
by at most two changes of a name (one before the digest and one before the open,
or one event that is stale when it is read) and one of another name.  `watch`
starts from every home over two inodes without links.

**Bounds of Pull.**  Two clients of one account: one pulls while the other has
requests, and both log in at once.  One of them is `Fallible`: it is killed at any
point and logs in again, any number of times.  The homes are the empty one, one with
two files and a directory, and one with a symbolic link; two files are the least that
can become one, a file of two blocks the least that can be half sent.  `MaxPushes` is
2, so a file can be removed and linked to the other.

**Bounds of the pool.**  A ring of two with four tasks fills, empties, and wraps
twice.  Three workers allow one to run, one to be on its way and one to sleep, the
smallest state in which a lost wakeup matters; the fourth task ends a worker.

**Bounds of the register.**  Two buckets for three accounts give chains of length
two, so a record has one before it and one behind it; three free ports for three
accounts run out after one restart without a sweep.

**Bounds of the status model.**  `MaxClients` is 1, so the count is -1, 0 or 1;
`MaxUnread` keeps the handler from starting a third answer while two are unread,
which needs pollers that died, beyond which the properties say nothing.

**Bounds of the web tool.**  Two tabs are the least that share a session; two
processes, of which the line of one also has the digits of the other's id, are the
least for which `grep` finds the wrong one.  One poll of a page that was left is
under way at a time (`Orphan`).  Once a choice is `Lost` the safety properties say
nothing more, so no process starts and no form is submitted from there on; the
polls and the timers go on for `PollEnds`.

**Bounds of the widgets.**  Three items, panels, panes and sections: one that is
active, one that is chosen and one that is neither.  Two timers show a leaked one;
three backdrops, an orphan next to one that comes and one that goes.  `MaxQueue`,
`MaxHides`, `MaxFading`, `MaxTicks` bound the callbacks that wait at once; two of a
kind are enough for one to undo another.  The proofs have any number of each, except
that `MaxHides` is 1 or 2 (`DialogEnd` runs the callbacks of hide once or twice).  `Top` and `Position` of
the scrollspy are few numbers, as it only compares them.

**Bounds of the files.**  Two uploads may meet in one write server or in two, and
both may meet a download.  A file of two pieces (`MaxData`) can be half written,
and an upload of one is shorter than the file that was there.  With one file
and one name the properties speak of it always; the proofs have any number.

**Deadlock** is checked in every run of `Session` except the two that stop the
server (`faulty`, `locked`), in the register, the web tool and the widgets.  It is
not checked for the pull (where everything stands when the server does, section 8),
the pool (which ends when it has been freed), the status model (a
server killed by SIGPIPE answers nobody) and the file servers (every connection is
used once).

## 5. Fairness and named assumptions

| fairness | why the code's scheduling gives it |
|---|---|
| `WF(ServerStep)` | one thread that the scheduler runs; its waits are `recv` and `select` and are disabled when nothing is there |
| `WF(ClientStep(c))` | every client is a process of its own |
| `WF(Handle)`, `WF(Run(c))` of the pull | the same thread and processes |
| `SF(ServeLogin(c))` | a round of `select` serves every connection that can be read, so a login that waits is served in the next round, however often the server is busy with others in between |
| `WF(Worker(w))`, `WF(Join(d))` | every thread that can run does; no thread is promised the mutex against others (no strong fairness) |
| `WF(Handler)`, `WF(Step(p))` | a pending signal is delivered, the pollers are processes |
| `WF(Handle(s))` of the web tool | the event loop runs every handler, callback and expired timer; an `open` need not return |
| `WF(DialogEnd)`, `WF(BackdropEnd(b))` of the modal | a transition ends, at the latest by the timer of `emulateTransitionEnd` |
| `WF(Step(s))` of a file server | every server is a process; its waits are `select` with a timeout |

No fairness is assumed for users, faults, polls, the start of a client, the requests
of others during a pull, calls of the pool, or the clients of a file server.
Weak fairness of the whole server, not of the service of one client, is what makes
`Answered` worth checking: it holds because `select` returns all readable
connections and the loop goes through all of them.  A file server takes *one*
readable connection per round; `Served` holds there because a connection it has
taken is read until nothing is left, and because every client sends a bounded amount:
one that never stops would keep a write server to itself.

Some properties hold only under conditions the code does not guarantee.  They are
named, and section 8 says what happens outside them.

- `hurt`, `Fallible`: properties speak of clients no fault has hit.
- `EarlyEdits = FALSE`: in `push` and `watch` the user starts when the watch is set
  up, in `shared` as well; `faulty` drops this.
- `Stopped`, `BothEmpty`, in `LoginEnds`: the server has stopped serving, or there is
  nothing to send on either side.
- `Prompt`: an answer of the register is used before it sweeps, and no server ends
  during a sweep.
- `Code` injective, in `register`: no two names end in the same four bytes.
- `held`: a second `threadpool_destroy` has left with the lock.
- `quiet`: polls have not overlapped, no poller died, none gave up.
- `calm`, in all widgets but the scrollspy (there `fresh`: the offsets are those of
  the page): no call came in the few moments section 8 lists, from
  which the code does not recover.
- `choice # Lost`, in the web tool: no choice was made while another request was
  under way or another tab showed a graph, no id was reused, and `grep` found one
  line.
- `spoilt`, `OneName`, in the file server: no process truncated a file in the sight
  of another one's lock, and a file has one name.

## 6. Proofs

Every proof is checked to its leaves by `tlapm` with Z3, Zenon and LS4.  The
theorems hold for every value of the constants that satisfies the assumptions
named in the modules; TLC evaluates the same assumptions in every run.

| theorem | module | states |
|---|---|---|
| `TypeCorrect` | `SessionProofs` | `Spec => []TypeOK` |
| `StaysStepping` | `SessionProofs` | `Spec => []InStep` |
| `FramingKept` | `SessionProofs` | `Spec => []Framing` |
| `AccountsApart` | `SessionProofs` | `OneNameLinks => (Spec => []Owned)` |
| `WholeFilesKept` | `SessionProofs` | `OneNameLinks => (Spec => []WholeFiles)` |
| `MirrorKept` | `SessionProofs` | `PlainSession => (Spec => []Mirror)` |
| `SomeonesCopyKept` | `SessionProofs` | `SimpleSession => (Spec => []SomeonesCopy)` |
| `LinksStay` | `SessionProofs` | `LinkedSession => (Spec => []LinksKept)` |
| `PullTypes`, `PullKept` | `PullProofs` | `Spec => []TypeOK`, `[]Pulled` |
| `PoolInvariant` | `PoolProofs` | `Spec => []IInv` |
| `PoolTypes`, `WakeupsKept`, `FreedAtEnd` | `PoolProofs` | `Spec => []TypeOK`, `[]NoLostWakeup`, `[]FreedSafely` |
| `PoolImplements` | `PoolProofs` | `Spec => Implements`, that is `ThreadPool` implements `TaskPool` |
| `RightServerKept`, `ReclaimedKept` | `PortProofs` | `Spec => []RightServer`, `Spec => Reclaimed` |
| `StatusTypes`, `FreshNumberKept` | `StatusProofs` | `Spec => []TypeOK`, `[]OneFreshNumber` |
| `WebTypes`, `TitleKept` | `WebProofs` | `Spec => []TypeOK`, `[]TitleIsSource` |
| `OnlyChosenKept`, `OneAnswerKept` | `WebProofs` | `Spec => OnlyChosen`, `Spec => OneAnswer` |
| `FileTypes`, `OneWriterKept`, `UploadedKept` | `FileProofs` | `Spec => []TypeOK`, `[]OneWriter`, `[]Uploaded` |
| `WholeReadKept` | `FileProofs` | `Spec => []WholeRead` |
| `WidgetTypes` | `WidgetProofs` | `Spec => []TypeOK` |
| `TipAlwaysFollows`, `TimerNeverLeaks` | `WidgetProofs` | `Spec => []TipFollows`, `[]OneTimer` |
| `ItemAndIndicator`, `AccordionClosesOthers` | `WidgetProofs` | `Spec => []OneItem`, `[]Accordion` |
| `ModalStaysWhole`, `PaneShown` | `WidgetProofs` | `Spec => []ModalWhole`, `[]PaneOfTab` |
| `SpyMarksRight` | `WidgetProofs` | `Spec => []SpyRight` |

**Framing.**  `Framing` says what is at the *head* of each stream and is not
inductive: when the head has been read nothing is known of the message behind it.
`InStep` says it of the whole stream, for each client that no fault has hit:

- the messages in `up[c]` form a `Chain`: each may follow the one before it
  without an answer in between (a path is followed by a request, a file header by
  a block of the length it announced, a full block by a file header, ...);
- the server, where it is (`ServerAt(c)` is `select` for a connection it is not
  serving), `Reads` the first of them;
- the last of them, or the server's place when there is none, and the answer
  under way are those that lead to the client's place (`Sent`).

`InStep` with `TypeOK` is inductive.  The proof states it first about one client
with the places as constants (`Stepping`): each `send` and each `recv` of the
protocol leads from one `Stepping` to the next (`RequestSent`, `EchoRead`,
`PathRead`, `HeaderRead`, `BlockReceived`, ...), from two facts on chains
(`Appended`, `Shortened`).  Then one lemma for each action says that it makes one
of these moves for its client and none for the others (`OtherClients`,
`OtherConnections`).  `InStepIsFraming` gives the theorem.  Assumptions used:
`NamesAssumption`, `InodeAssumption`, `DataAssumption`, `BoundsAssumption`.  There
is no bound in it on clients, names, versions, changes, or the length of files.

**Whole files.**  `WholeFiles` speaks of a file that is finished; what makes it
so is true of the file being received, and of accounts as a whole:

- `Owned`: what a client has at hand, in `hl[]`, in its queue and in flight is about
  names of its own account, the name the server receives is one of the account it
  serves, and files of two accounts are never one file (`Apart`).  It holds under
  every fault, hence a fault spoils files of its own account only: `WholeFiles` is
  about the accounts with no client hit (`Sound`).
- `Transfer`: a header counts for half a block and its data for the other half.
  With `Got` halves received, the i-th message in flight is the data of block n only
  if `2n = Got + i`, and the client, which has read `b` blocks, stands at
  `2b = Got + Len(up)`, or one more before the data is sent (`Carries`).  Therefore
  the block that is written is the next one, and all before it are full.
- `PathSent`: a client that waits for the answer about a name has sent that name,
  hence it begins at block one of the file the server has just emptied.

They are inductive with `TypeOK` and `InStep`, which says that the stream is in
step to begin with.  `OneNameLinks` is the only hypothesis: in the homes at the
start a directory has one name (as in any file system) and so has a symbolic link
(a second hard link to a symbolic link is not modelled).  Assumptions used: those
of `Framing` and `AccountAssumption` (two clients have one home directory on the
server or two that are apart, `csiebox_server.c` 694).

**The mirror.**  `Mirror` speaks of a session in which nothing is left to do.  The
invariant, `Mirrors`, says the same of each name at any time: when no change of it is
queued and the traversal does not come to it any more (`Clean`), it is in one of four
states (`Obliged`), and each of them leads to the last:

- the client asks about it (`Asks`), and what it has asked with, in its hand, in
  flight or already read by the server, is the type and the digest of the file as it
  is now (`Asked`);
- the server is going to remove it (`Removes`), and the client does not have it;
- the server is receiving it (`Takes`), and every block received, in flight or read
  from the disk is the block of that number of the file as it is now (`Landing`): when
  the short block comes, or the empty header, the file is complete;
- nothing is being done for it, and the server has it (`Kept`).

A change of the user makes its name unclean, so it does no harm to what is under way
for that name.  Taking an event makes a name clean again; what the client does then is
right because the last queued event of a name says whether it is there (`Told`).  That
inotify merges equal events does not spoil that.  A request about a name that is gone
changes nothing on the server, as there is a later event.  `OwnFiles` keeps one name's blocks
out of another's file.  TLC checked `Mirrors` on the instance of `watch` and on two
with two clients and faults before it was proved; it is inductive with `TypeOK`,
`InStep`, `Owned` and `Files`.

`SimpleSession` names what the invariant leaves out: homes where two names have one
inode, links made later, symbolic links, directories that are removed, changes before
the watch.  `PlainSession`, the hypothesis of the theorem, leaves out accounts with two
clients as well (`Alone`).  Apart from the hard links the code does not keep `Mirror`
there (section 8; with a shared account the server has the copy of one of them).  The
constants of `watch` satisfy it.  Any number of clients, names, contents and changes and
every fault are covered: a client no fault has hit is mirrored whatever happens to the
others.

**Someone's copy.**  With two clients of one account a name can change under a client
that has done with it, so `Kept` is promised to clients that are `Alone` only.  The rest
of `Mirrors` holds for shared accounts too, in particular that what a client asks with
and what it sends is its file as it is now.  `Backed` adds, of each file the server has,
that some client of the account backs it: one that has still something to do for the
name (`Busy`: a change queued, a request or a deletion under way, a transfer), or one
whose file the server has now (`HasCopy`).  Each step names the client that does from
then on:

- a request that finds the same digest, or a transfer that ends, leaves the file of the
  client that is served (`RecvPathBacks`, `ReceiveBacks`);
- a request that finds another digest empties the file, and its client is busy until the
  last block;
- a client that is busy for a name stays so, or comes to have the copy
  (`ClientBacks`); a change of the user makes it busy again;
- a deletion leaves nothing to back.

The hypothesis is `SimpleSession`; the constants of `shared` satisfy it but for the edit
`link`, which that run has and the theorem leaves out: a change written through one name
leaves the other one's file on the server as it was.  The premise on `hurt` is needed,
without any fault as well (section 8).  `Backed` is inductive with `TypeOK`, `InStep`,
`Owned`, `Files` and `Mirrors`.

**Hard links.**  `LinksKept` compares pairs of names at the end.  While the session runs
a name may be missing on the server, be about to be put there, or be about to go, and
the link must be made before the name's own meta request creates a second file.  The
invariant `Linking` says of each client that no fault has hit that it is `Tied`:

- `Offers`: during the traversal `hl[]` (`tab`) has exactly the names met so far of
  files that have two; the names in `links` and in the requests under way are such
  earlier names of the file at hand.
- `Places`: the server has no name the traversal has not come to; every other name of the
  home whose changes have been handled is there, or the request under way will put it
  there (`Puts`).  A name at hand that the server does not have, but of which the
  traversal has met a twin, still has that twin to offer.  Hence when `RecvPath` makes a
  file, no twin of the name is on the server, and when `RecvNames` links, the earlier
  name is there, so that the failure of `link(2)` the code only logs never matters.
- `Pairs`: two names the server has are one file there exactly if they are twins here,
  but for those a deletion under way removes (`Goes`).

It is inductive with `TypeOK`, `InStep`, `Owned`, `Files` and `Lasting`, the part of
`Mirrors` that does not need the homes to be without links: the last queued event of a
name says whether it is there.  TLC checked `Linking` with three edits, with two clients
and all faults, and with a directory before it was proved.  `LinkedSession` leaves out
links made while the client watches (the code does not keep them, section 8), symbolic
links, changes before the watch and accounts with two clients.  The constants of `push`
satisfy it.

**The pull.**  `Pulled` speaks of the end of a pull; the invariant of everything
before it:

- `Sending`: while the server sends, the home of the account is the one it had at the
  login, and the names still to come are present.  This is where `Between` counts:
  no request of another client is served meanwhile.
- `UpAt(c)`: a client that is not behind its login has at most one message under way
  to the server, and only as a login or as the answer the server waits for.
- `DownAt(c)`: what is in flight to a client, together with the home it has filled so
  far and the names the server has not sent, is the home of the login.  `Rest` says so
  at the border of two names, `Blocks` in the middle of a file: the blocks in flight
  are those behind the ones the client has written.

`Typed` (types, and that homes hold whole files) and `InStep` (the last two) are
inductive; there is one lemma for each action.  A step of the server
either adds to a stream (`Extended`: whatever was true of a client's place stays
true) or does not touch it (`Elsewhere`); a client takes one message from its own
(`RestTaken`, `BlocksTaken`).  `InStep` says nothing once the server is dead, which
it stays (`DeadForGood`).  Assumption used: `PullAssumption`.  There is no bound on
clients, names, blocks and requests.

**The pool.**  `NoLostWakeup` is nearly inductive on its own, the others are not:

- `Counted`: `started` is the number of workers that exist and have not left, and
  `Born`: which workers exist.  Together they give `FreedSafely`'s first half: the
  pool is freed at `started = 0`, when all have been joined.
- `LeftEmpty`: nobody leaves before a shutdown, or with tasks pending after a
  graceful one.  With `Kept` (an accepted task is pending, running or done) it
  gives the second half.
- `RingClosed` (`tail` is `head + count` modulo the size) and lemmas on `%`
  (`RingShift`, `RingApart`) show that adding appends to `Pending` and taking
  removes its head (`PendingAppended`, `PendingTaken`), which is the refinement of
  `Add` and `Take`.
- `Once`: a task is in one place only, so that the set of running tasks changes by
  one task in `Take` and `Run`.

`IInv` is the conjunction.  `ImplementsStep` maps each action to a step of
`TaskPool` or to a stutter: `Add` to `Submit` (when the task is accepted), `Take`
to `Start`, `Run` to `Finish`, `Destroy` and `CreateFails` to `Shutdown`, the rest
to nothing.  Assumption used: `SizesAssumption`.

**The register.**  A client is told a port long before it connects, so `RightServer`
needs that nothing can happen to a port meanwhile:

- `Table`: a record is in the bucket of its code and alone there with it (`Placed`,
  `Single`), its port is reserved (`Reserving`), and no record of another code has
  that port, those a sweep has still to visit included (`Apart`).
- `Serving`, `Alone`, `Owned`: the port of a server that runs, or was told one, is
  reserved, is no other server's, and if a record has it, it is that server's.
- `Answer`: the port a client was told is reserved, and only the server it asked for
  can run on it.
- `Quiet`: a sweep finds nobody between its answer and its use, which is `Prompt`.
- `Visited`, `Probed`: what a sweep has passed is clean, which at its end is
  `Reclaimed`.

`IInv` is their conjunction with `TypeOK` and `RightServer`; the lemmas on the table
(`Deleting`, `Without`) come first, then one for each action.  Assumptions used:
`RegisterAssumption`, and in the theorems `Prompt` and `Distinct` (no two names have
one code).  There is no bound on accounts, clients, ports, buckets and restarts.

**The client count.**  `OneFreshNumber` says what a poll has when it is done; the
invariant, for as long as `quiet` holds, says that either no poll is under way
(`Rest`; the handler may still have to close) or exactly one is (`Alone`), and how far
it is: `Unanswered`, which pairs the poller's place with the handler's from signal to
write, or `Answered`, where the number is in the FIFO or has been read, never both.
The numbers that were right (`correct`) only grow, which is why a client that logs in meanwhile does
no harm.  Assumption used: `StatusAssumption`; no bound on pollers and clients.

**The web tool.**  What is true of a request depends on its stage, so the invariant
has first the stages and answers a request can have (`Staged`) and which page belongs
to which request (`Paged`).  The rest holds while the choice is not `Lost`:

- `Exclusive`: during a choice no other request is under way and no tab shows a graph.
- `Stored`: session, copies of all requests and titles of all graphs agree; or the
  choice has been made and its answer is under way (`Chosen`).
- no second answer is due.

The step that matters is `End`: it stores a copy that may be old.  By `Stored` and
`Exclusive` the copy differs from the session only when it is the choice.  That the
first line `grep` finds is a process (`Least`) needs that the natural numbers are well
founded.  Assumption used: `WebAssumption`; no bound on tabs and processes.

**The file server.**  `OneWriter` rests on two kinds of exclusion, so its
invariant has a part for each:

- `Distinct`: a write server has each name once.  This is what the comparison at
  187 keeps, and it is needed because a process's own lock does not keep it out.
- `Holding`: a connection past its lock has it, alone; one with a header and no
  answer is the one the process is locking for.  This is what `fcntl` keeps
  between processes, and what `Unlocked` may not take away: with `Distinct`, the
  file a process closes is not one it still uploads under another connection.
- `Serving`: the connection a process has at hand is open and its own; between
  `open` and `fcntl` the file is empty and nobody else has it locked, unless
  `spoilt`.  This gives `Uploaded` its start.
- `Named`: a connection has a name exactly between its header and its end.

`IInv` is their conjunction with `TypeOK` and `Uploaded`; there is one lemma for
each action and `OneWriter` follows from `Distinct` and `Holding`.

`WholeRead` has an invariant of its own on top of that (`RInv`).  `Reading`: what a
reader was sent is the start of its file as it is now, and its process has a lock on
it, which keeps writers out (`Holding`).  `Settled`: a file that no upload has open
holds what it held at first or what one finished upload left (`Contents`), which for
the step that finishes an upload is `Uploaded`.  `Counted` and `Received` say that
the pieces written are those the upload has sent.  Assumption used for all four:
`FileAssumption`.

**The widgets.**  They share nothing, so `WidgetInv` is one invariant per widget, each
of which says what is still to come while the widget is not at rest:

- `TipWaits`: a tip that waits for no timer is visible as the pointer is; a callback
  still to come can only take out a tip that is not wanted.
- `Announced`, of a carousel: a slide that has not been announced has turned the
  indicators off (`Unlit`), and of the handlers that wait for its event the first,
  and no other, lights one (`Lighting`).  `Single` says that a slide under way is one
  from the active item to another, which is why one item stays active.
- `Marks`, of an accordion: `Opens(s)` is whether a panel will be open when its
  callback has run.  At most one will, and the togglers are marked as the panels will
  be.  `PanelOk` holds of each panel even when somebody interferes: an object that
  thinks its panel moves has a callback to come, so nothing is stuck in the middle.
- `TabFades`: one toggler and one pane are active; either they agree, or one callback
  waits, for the old pane, and it will put the new one in its place.
- `Staged`, of a dialog: it is `Away`, `There`, or on its way (`Coming`, `Fading`,
  `Clearing`), and each stage says which callback waits and which backdrop and
  handlers there are.  `Roomy` bounds the backdrops when it is not `calm`.
- `Ordered` and `Right`, of the scroll spy: as of the last refresh targets and offsets
  are all sections in order.  That they can be sorted (`SortingExists`) needs that the
  natural numbers are well founded.  `LastAbove` is the reason the loop is right:
  whatever passes its test began last above the position.

Assumption used: `WidgetAssumption`.

## 7. Only model-checked

- Liveness: `Answered`, `Settles`, `LoginEnds`, `Processed`, `Destroyed`, `BackToLoop`,
  `PollEnds`, `Disappears`, `Served`.  Fairness and `ENABLED` are out of the
  prover's reach.
- `Mirror` of a home with hard links (`push`).  `Mirrors` follows one name at a time
  and a write changes all names of a file, of which only one gets an event; that the
  server's names are still one file is `LinksKept`, which is proved, but the two
  invariants are not joined.
- `SomeonesCopy` with the edit `link` (`shared` has it).

`InStep` is proved and no longer a property of a run: the theorem is stronger, and
`faulty` checks its consequence `Framing`.

## 8. Findings and known limits

One run ends in a violation, against what the repository says of itself:

- `locked`: `header.res.status == ...BLOCK;` (`csiebox_server.c` 445) compares
  instead of assigning, so a locked file is answered MORE once per round of the
  lock loop; at the next request the streams are out of step.

The settings and the named assumptions of the passing runs keep clear of the
following, which the same models contain.

The session:

- *A file deleted between the meta request and `fopen`* ends the client, since
  `fileno(fp)` is called (`send.c` 72) before `fp` is tested (74).  The server has
  emptied its copy by then, and with a shared account nobody may come to replace it: a
  name touched and then deleted by one client stays on the server as an empty file that
  no client has.  `SomeonesCopy` therefore says nothing of the names of a client that
  has ended; with the two edits TLC finds that state when the premise is dropped.
- *A deleted directory ends the watch of its parent*: `inotify_rm_watch(fd,
  event->wd)` (`csiebox_client.c` 287).  `watch` has no `rmdir`, `faulty` has.
- *Hard links made or remade while the client watches* are pushed as separate
  files: the event loop does not consult `hl[]`.  A name that `hl[]` remembers and
  that has changed since links the wrong file.  (`Mirror` and `LinksKept` with the
  edit `link`, or with early edits.)
- *Early edits*: a change between the traversal and the watch is lost.
- *Signals and crashes*: the file being transferred is damaged, and a block cut
  short puts the streams of that client out of step; the end of a stream after a
  full block puts the server in an endless loop, which stops all clients.
- *Symbolic links*: one that changes is not replaced (`symlink` fails).

Login and pull:

- *Both homes filled*: a client that starts again after its first session has a home
  of its own and so does the server; the server sends it and the client pushes, each
  takes requests for answers (`Garbled`, state `lost`).
- *Both homes empty*: the server sends nothing and the client waits for a header
  (`csiebox_client.c` 134); it never watches.
- *Two names of one file*: the header before the link has no op (`csiebox_server.c`
  575-583), the client reads the longer structure of a meta request, and both wait,
  and with the server all other clients (`hlEcho`).  `hl[]` and `cnt[]` of the server
  are not reset between pulls either, which can only matter for a home that has, or
  had, such names; the model empties them.
- *A symbolic link*: `readlink` of a path relative to the home, from the directory of
  the server, is -1, which `md5` takes for a length (`send.c` 26-27).
- *A wrong password*: the handler goes on to `get_user_homedir` of no client and a
  directory that does not exist (`csiebox_server.c` 341-347).
- *A client killed during its pull* ends the server by SIGPIPE.
- `num > 2` counts hidden names, which are not sent.

The port register:

- `del_from_hash` (`hash.c` 90) drops the records behind a first one, so running
  servers are not found.
- `Prompt = FALSE`: the sweep takes a port that has been promised and is not bound
  yet for unused, so two accounts get it and a client reaches the wrong server.
  The same follows when two names end in the same four bytes.

The client count, without `quiet`: of two polls at once one may get both answers and the other
  none; a poller that dies after its signal freezes the server until the next poll
  opens the FIFO; one that dies between `open` and `write` ends the server.

The web tool:

- Every request stores its copy of the session when it is answered (`End`), so a
  poll that began before a choice undoes it when it is answered after it.
- `grep` for an id finds every line that contains its digits, and the first line is
  taken (`controller.js` 53); a line whose second word names no file ends the tool
  (`helper.js`).  An id that was reused gets SIGUSR1, which ends a process that does
  not handle it.
- An `open` that returns after the timer has answered ends the tool.
- An error of `ps` renders twice; the page stops polling after any error.
- It registers with action `2` on port 10090 (`register.js` 4-5), which
  `port_register.c` (175-190) does not know.

The widgets:

- Modal: the toggler asks for `data('modal')` (1064) but the object is kept under
  `bs.modal` (1039), so it never toggles, and the handlers of `hide` (1070) pile up.
  A prevented show leaves the body `modal-open`; a show before the last hide is over
  orphans a backdrop (991); a hide while the backdrop fades in leaves the focus
  guard.
- Carousel: a prevented slide, or one with a single item, leaves `sliding` set for
  good; a slide that starts between the end of a transition and its event lights a
  wrong indicator; a click on the active indicator undoes the pause of hovering.
- Collapse: a click while a panel moves can leave two panels open.
- Tooltip: a script that hides or destroys it while the pointer is in leaves the tip
  (1344); destroy does not clear the timer of show.
- Tab: two quick clicks with fading can leave two panes active.
- ScrollSpy: exactly at an offset the mark alternates between two sections; an offset
  of 0 behind the first section counts as none (1675); refresh does not mark again.

The file server:

- `O_TRUNC` comes before the lock (204), so a rejected upload still empties the file
  that another process reads or writes (`spoilt`).
- Two names of one file pass the comparison (187) and the process's own lock.
- `strcmp` gets a NULL name from a connection that closes first while another upload
  is under way, and the server ends (`Crash`).

## 9. Not modelled

- In the session: BUSY (never sent) and BLOCK (see `locked`), directories within
  directories (names are flat; a path is one name), renames, an overflow of the
  inotify queue, names that change their type, permissions and times, failing
  `malloc`, a full disk.
- In the pool: failing mutex, condition and join calls; a caller that still uses
  the pool when it is freed (that is the caller's duty, so calls stop at `freed`).
  The server creates and destroys its pool but gives it no task: the dispatch is
  commented out (`csiebox_server.c` 208-227).
- In the register: the connection that carries a request, `TIME_WAIT` of a port,
  failing calls; `clean_hash` and `destroy_hash`, called at the exit only.
- In the status model: the width of the number (four bytes, written at once), and
  which process a wrong pid names.
- In the web tool: several browsers (each has a session of its own), the drawing of
  the graph, static files.
- In the widgets: alert, button, dropdown and affix (a class or two, no timer), the
  geometry of placement, the style sheet.  `bootstrap.js` is third-party code; it is
  modelled because it is committed here, both pages load it and it holds most of
  the state of the pages.
- In the file server: a connection error (`continue` inside the loop, 193-196), more
  than one `accept` queue, names longer than the buffer.
- In login and pull: directories within directories, hidden names, BUSY (never sent),
  the watches a client sets on directories it has pulled and the events of its own
  writes, which it pushes back later.
- The descriptor table and shutdown of the server, the start script: one process that
  is started and stopped by commands typed by hand.  The `-d` option is left out for
  another reason: `csiebox_server_main.c` line 6 passes `box` to `daemonize` one line
  before line 7 declares it, so the commit has no build that runs as a daemon; of
  the signal handlers of `csiebox_server_init` only that of SIGUSR1 is modelled
  (`StatusFifo`).
- The exercises, blockUI (loaded by no page), highcharts, exporting, jquery and
  `node_modules`: no protocol of the system.

## 10. Plan

Done, in this order: `Session` with its proofs; `ThreadPool` and its refinement;
`PortRegister`; `StatusFifo`; the widgets; `WebTool`; `FileServer` and `Pull`
with their proofs; the proofs of `PortRegister`, `StatusFifo` and `WebTool`; the
proofs of `WholeFiles`, `WholeRead`, of the widgets, of `Mirror`, `SomeonesCopy` and
`LinksKept`.

What is left:

1. `ServerLoop`: descriptors from `accept` to logout, SIGTERM at any point, the pid
   file against the start script; it would compose the head of `Session`'s server
   with the handler of `StatusFifo`.
2. Proofs: `Mirror` for homes with hard links, from `Mirrors` and `Linking` together.
