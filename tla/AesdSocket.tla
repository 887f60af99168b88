----------------------------- MODULE AesdSocket -----------------------------
(***************************************************************************)
(* The socket server, server/aesdsocket.c, from the call of listen on: the *)
(* main thread that accepts connections and shuts down, one thread per     *)
(* connection that runs handle_client, the signal handler, and the mutexes,*)
(* the linked list of thread_info blocks and the descriptor table they     *)
(* share.  The device is the atomic one of AesdDevice, which AesdChar      *)
(* implements; every open file of the server is one of its processes.      *)
(*                                                                         *)
(* A step is one call that another thread or a cancellation can come       *)
(* before.  Taking a mutex is joined to the call behind it when nothing in *)
(* between can be seen or cancelled, and releasing one to the call before. *)
(*                                                                         *)
(* One recv returns one chunk.  A chunk is data, a sequence of bytes, or   *)
(* the text of a seek command, well formed or not.  Logging is left out    *)
(* but where a thread can be cancelled in syslog with a mutex held.        *)
(* Using a thread_info block after free sets ub and the system stops.      *)
(* Names that begin with Bug are seeded faults, no part of the server.     *)
(***************************************************************************)
EXTENDS Integers, SequencesExt

CONSTANTS
  Conns,      \* connections; each has at most one thread, one thread_info
  Main,       \* the main thread, as the owner of a mutex
  NoOwner,    \* owner of a free mutex
  NULL,       \* the null pointer
  ListHead,   \* thread_list.lh_first, as the place le_prev points to
  Newline,    \* '\n'
  Chunks,     \* what each client may send: [Conns -> sets of chunks]
  MaxChunks,  \* bound on the chunks of one connection
  BufferSize, \* BUFFER_SIZE, how much a read asks for
  Limit,      \* how many commands the device keeps
  Stored,     \* commands the device may hold when the server starts
  Faults      \* the calls that may fail

FaultSites == {"pthread_create", "open", "open_read", "read", "write", "send",
               "ioctl"}

ASSUME ServerAssumption ==
  /\ Main \notin Conns /\ NoOwner \notin Conns \cup {Main}
  /\ NULL \notin Conns /\ ListHead \notin Conns \cup {NULL}
  /\ IsFiniteSet(Conns)
  /\ MaxChunks \in Nat /\ BufferSize \in Nat \ {0} /\ Limit \in Nat \ {0}
  /\ Faults \subseteq FaultSites

VARIABLES
  terminate_program, \* also: server_fd is closed and -1
  mpc,               \* where the main thread is
  cur,               \* main: the connection being accepted
  entry, next_entry, \* main: the shutdown loop's pointers
  pc,                \* where each connection's thread is
  buffer,            \* the chunk a thread received last
  chunks,            \* how many chunks it received, bounded by MaxChunks
  cancelled,         \* pthread_cancel was called for it
  client_fd, file_fd, read_fd,   \* descriptors, -1 for none
  fds,               \* the process's descriptor table
  tinfo,             \* the thread_info block: none, live or freed
  head, le_next, le_prev,        \* thread_list
  file_mutex, list_mutex,        \* their owners
  got,               \* what each connected client was sent since its last answer
  loaded, dev_open, cmds, partial, f_pos, dev_ret,  \* see AesdDevice
  undisturbed,       \* history: since which call of c no command was dropped
  ub                 \* a freed block was used

input   == <<buffer, chunks>>
answer  == <<got, undisturbed>>
own_fds == <<file_fd, read_fd>>
main    == <<mpc, cur, entry, next_entry>>
thread  == <<pc, input>>
descs   == <<client_fd, own_fds, fds>>
links   == <<head, le_next, le_prev>>
list    == <<tinfo, links>>
mutexes == <<file_mutex, list_mutex>>
device  == <<loaded, dev_open, cmds, partial, f_pos, dev_ret>>
vars    == <<terminate_program, main, thread, cancelled, descs, list, mutexes,
             answer, device, ub>>

\* What handle_client works on, what it leaves alone, and what changes only
\* when the server stops.
threads == <<thread, descs, file_mutex, answer, device>>
outer == <<terminate_program, ub, main, cancelled, client_fd, list, list_mutex>>
stopping == <<terminate_program, entry, next_entry, cancelled, ub>>

-----------------------------------------------------------------------------
\* Descriptors.

Closed  == [kind |-> "closed"]
Conn(c) == [kind |-> "conn", conn |-> c]
File(f) == [kind |-> "file", file |-> f]

Files   == Conns \X {"append", "read"}
AppendFile(c) == <<c, "append">>
ReadFile(c)   == <<c, "read">>

\* A connection needs three at most.
Fds == 0 .. 3 * Cardinality(Conns) - 1

\* The kernel hands out the smallest number that is free.
LowestFree == Min({n \in Fds : fds[n] = Closed})

Target(n) == IF n \in Fds THEN fds[n] ELSE Closed

\* The server says what it writes (WriteBytes) and does not call lseek.
Dev == INSTANCE AesdDevice
         WITH Procs <- Files, Payloads <- {}, ReadCounts <- {BufferSize},
              Seeks <- {}, open <- dev_open, ret <- dev_ret

\* The slot of the table becomes free; the thread's variable keeps its number.
CloseFd(n) ==
  /\ fds' = [m \in Fds |-> IF m = n THEN Closed ELSE fds[m]]
  /\ IF Target(n).kind = "file"
     THEN Dev!Release(Target(n).file) ELSE UNCHANGED device

-----------------------------------------------------------------------------
\* The list of sys/queue.h.

ListInsertHead(x) ==
  /\ le_next' = [le_next EXCEPT ![x] = head]
  /\ le_prev' = [c \in Conns |-> IF c = x THEN ListHead
                                 ELSE IF c = head THEN x ELSE le_prev[c]]
  /\ head' = x

\* The successor is not told who is in front of it now.
BugListRemove(x) ==
  /\ head' = IF le_prev[x] = ListHead THEN le_next[x] ELSE head
  /\ le_next' = [c \in Conns |->
                   IF c = le_prev[x] THEN le_next[x] ELSE le_next[c]]
  /\ UNCHANGED le_prev

\* LIST_REMOVE: the successor's le_prev and the place le_prev points to.
ListRemove(x) ==
  /\ head' = IF le_prev[x] = ListHead THEN le_next[x] ELSE head
  /\ le_next' = [c \in Conns |->
                   IF c = le_prev[x] THEN le_next[x] ELSE le_next[c]]
  /\ le_prev' = [c \in Conns |->
                   IF c = le_next[x] THEN le_prev[x] ELSE le_prev[c]]

-----------------------------------------------------------------------------

NoChunk == [kind |-> "none"]

\* The module is loaded and the device open to nobody; the server listens.
Init ==
  /\ terminate_program = FALSE
  /\ mpc = "accept" /\ cur = NULL /\ entry = NULL /\ next_entry = NULL
  /\ pc = [c \in Conns |-> "none"]
  /\ buffer = [c \in Conns |-> NoChunk]
  /\ chunks = [c \in Conns |-> 0]
  /\ cancelled = [c \in Conns |-> FALSE]
  /\ client_fd = [c \in Conns |-> -1]
  /\ file_fd = [c \in Conns |-> -1]
  /\ read_fd = [c \in Conns |-> -1]
  /\ fds = [n \in Fds |-> Closed]
  /\ tinfo = [c \in Conns |-> "none"]
  /\ head = NULL
  /\ le_next = [c \in Conns |-> NULL]
  /\ le_prev = [c \in Conns |-> ListHead]
  /\ file_mutex = NoOwner /\ list_mutex = NoOwner
  /\ got = [c \in Conns |-> <<>>]
  /\ loaded = TRUE
  /\ dev_open = [f \in Files |-> FALSE]
  /\ cmds \in Stored /\ partial = <<>>
  /\ f_pos = [f \in Files |-> 0]
  /\ dev_ret = [f \in Files |-> [status |-> "OK", data |-> <<>>]]
  /\ undisturbed = [c \in Conns |-> "none"]
  /\ ub = FALSE

-----------------------------------------------------------------------------
\* handle_client

At(c, label) == pc[c] = label

Goto(c, label) == pc' = [pc EXCEPT ![c] = label]

\* A thread that waits for its client is not cancelled.
BugCancelPoints == {"open", "seek_read", "seek_send", "seek_close",
                    "no_file", "write", "w_close", "w_close_err",
                    "open_read", "read", "send", "r_close"}

\* The calls of handle_client that act on a cancellation while the handler is
\* registered.  pthread_mutex_lock is none of them.
CancelPoints == {"open", "recv", "seek_read", "seek_send", "seek_close",
                 "no_file", "write", "w_close", "w_close_err",
                 "open_read", "read", "send", "r_close"}

\* The thread is at this call and not about to be cancelled in it.
Runs(c, label) == At(c, label) /\ ~(cancelled[c] /\ label \in CancelPoints)

OpenFile(c) ==
  /\ Runs(c, "open")
  /\ \/ /\ file_fd' = [file_fd EXCEPT ![c] = LowestFree]
        /\ fds' = [fds EXCEPT ![LowestFree] = File(AppendFile(c))]
        /\ Dev!Open(AppendFile(c))
     \/ "open" \in Faults /\ UNCHANGED <<file_fd, fds, device>>
  /\ Goto(c, "recv")
  /\ UNCHANGED <<outer, input, read_fd, file_mutex, answer>>

\* Where a chunk is handled: a seek command that cannot be read, or for which
\* there is no file, is logged and forgotten.
HandlerOf(c, chunk) ==
  CASE chunk.kind = "data" -> "lock_file"
    [] chunk.kind = "seek" /\ file_fd[c] >= 0 -> "ioctl"
    [] OTHER -> "recv"

RecvChunk(c) ==
  /\ Runs(c, "recv") /\ chunks[c] < MaxChunks
  /\ chunks' = [chunks EXCEPT ![c] = @ + 1]
  /\ \E chunk \in Chunks[c] : /\ buffer' = [buffer EXCEPT ![c] = chunk]
                              /\ Goto(c, HandlerOf(c, chunk))
  /\ UNCHANGED <<outer, own_fds, fds, file_mutex, answer, device>>

\* The client is gone.
RecvEnd(c) ==
  /\ Runs(c, "recv") /\ Goto(c, "exit")
  /\ UNCHANGED <<outer, input, own_fds, fds, file_mutex, answer, device>>

\* Where a seek goes is the driver's matter; here it is any position.  A
\* failure is logged, and the reading goes on from wherever the file is.
Ioctl(c) ==
  LET t == Target(file_fd[c])
  IN  /\ Runs(c, "ioctl") /\ Goto(c, "seek_read")
      /\ \/ /\ t.kind = "file"
            /\ \E pos \in 0 .. Len(FlattenSeq(cmds)) :
                 f_pos' = [f_pos EXCEPT ![t.file] = pos]
            /\ Dev!SeekCommand(t.file)
         \/ /\ t.kind # "file" \/ "ioctl" \in Faults
            /\ UNCHANGED device
      /\ UNCHANGED <<outer, input, own_fds, fds, file_mutex, answer>>

\* read(fd): bytes go on to the send, their end ends the loop and so does an
\* error, EFAULT here for all of them, which nobody looks at.  A descriptor that
\* has become another client's socket is taken to have no data.
ReadDevice(c, fd, send, end) ==
  LET t == Target(fd)
  IN  \/ /\ t.kind = "file" /\ Dev!Read(t.file)
         /\ Goto(c, IF dev_ret'[t.file].data = <<>> THEN end ELSE send)
      \/ /\ t.kind = "file" /\ "read" \in Faults
         /\ Dev!Fail(t.file) /\ dev_ret'[t.file].status = "EFAULT"
         /\ Goto(c, end)
      \/ t.kind # "file" /\ Goto(c, end) /\ UNCHANGED device

\* send(fd) of the bytes just read from file f.
SendTo(fd, f) ==
  IF Target(fd).kind = "conn"
  THEN got' = [got EXCEPT ![Target(fd).conn] = @ \o dev_ret[f].data]
  ELSE UNCHANGED got

SeekRead(c) ==
  /\ Runs(c, "seek_read")
  /\ ReadDevice(c, file_fd[c], "seek_send", "seek_close")
  /\ UNCHANGED <<outer, input, own_fds, fds, file_mutex, answer>>

\* The result of this send is not looked at.
SeekSend(c) ==
  /\ Runs(c, "seek_send") /\ Goto(c, "seek_read")
  /\ \/ /\ Target(file_fd[c]).kind = "file"
        /\ SendTo(client_fd[c], Target(file_fd[c]).file)
     \/ /\ Target(file_fd[c]).kind # "file" \/ "send" \in Faults
        /\ UNCHANGED got
  /\ UNCHANGED <<outer, input, own_fds, fds, file_mutex, device, undisturbed>>

\* file_fd is closed, its number stays in the variable.
SeekClose(c) ==
  /\ Runs(c, "seek_close") /\ CloseFd(file_fd[c]) /\ Goto(c, "recv")
  /\ got' = [got EXCEPT ![c] = <<>>]
  /\ UNCHANGED <<outer, input, own_fds, file_mutex, undisturbed>>

\* Behind the lock: without a file there is only a message to log.
Locked(c) == IF file_fd[c] = -1 THEN "no_file" ELSE "write"

\* Nobody waits.
BugLockFile(c) ==
  /\ At(c, "lock_file")
  /\ file_mutex' = c /\ Goto(c, Locked(c))
  /\ UNCHANGED <<outer, input, own_fds, fds, answer, device>>

LockFile(c) ==
  /\ At(c, "lock_file") /\ file_mutex = NoOwner
  /\ file_mutex' = c /\ Goto(c, Locked(c))
  /\ UNCHANGED <<outer, input, own_fds, fds, answer, device>>

\* The open at the start failed: log, unlock and leave.
NoFile(c) ==
  /\ Runs(c, "no_file")
  /\ file_mutex' = NoOwner /\ Goto(c, "exit")
  /\ UNCHANGED <<outer, input, own_fds, fds, answer, device>>

BugEndsLine(c) == buffer[c].kind = "data"    \* every chunk is answered

EndsLine(c) == buffer[c].kind = "data" /\ Last(buffer[c].bytes) = Newline

\* A command came in and the oldest one went out.
Drops == cmds' # cmds /\ Len(cmds') = Len(cmds)

\* write(file_fd), to whatever that number stands for by now.
Write(c) ==
  LET t     == Target(file_fd[c])
      bytes == buffer[c].bytes
  IN  /\ Runs(c, "write")
      /\ \/ /\ t.kind = "file"
            /\ Dev!WriteBytes(t.file, bytes)
            /\ undisturbed' = [d \in Conns |->
                                IF d = c /\ EndsLine(c) THEN "write"
                                ELSE IF Drops THEN "none" ELSE undisturbed[d]]
            /\ Goto(c, "w_close") /\ UNCHANGED got
         \/ /\ t.kind = "conn"
            /\ got' = [got EXCEPT ![t.conn] = @ \o bytes]
            /\ Goto(c, "w_close") /\ UNCHANGED <<device, undisturbed>>
         \/ /\ t.kind = "closed" \/ "write" \in Faults
            /\ Goto(c, "w_close_err") /\ UNCHANGED <<got, device, undisturbed>>
      /\ UNCHANGED <<outer, input, own_fds, fds, file_mutex>>

\* The unlock is forgotten on the way to the answer.
BugCloseFile(c) ==
  /\ CloseFd(file_fd[c])
  /\ \/ /\ Runs(c, "w_close") /\ UNCHANGED file_mutex
        /\ Goto(c, IF EndsLine(c) THEN "open_read" ELSE "recv")
     \/ Runs(c, "w_close_err") /\ Goto(c, "exit") /\ file_mutex' = NoOwner
  /\ UNCHANGED <<outer, input, own_fds, answer>>

\* close and unlock.  Only a chunk that ends with a newline is answered; after
\* a failed write the thread leaves.
CloseFile(c) ==
  /\ CloseFd(file_fd[c])
  /\ \/ /\ Runs(c, "w_close")
        /\ Goto(c, IF EndsLine(c) THEN "open_read" ELSE "recv")
     \/ Runs(c, "w_close_err") /\ Goto(c, "exit")
  /\ file_mutex' = NoOwner
  /\ UNCHANGED <<outer, input, own_fds, answer>>

OpenRead(c) ==
  /\ Runs(c, "open_read")
  /\ \/ /\ read_fd' = [read_fd EXCEPT ![c] = LowestFree]
        /\ fds' = [fds EXCEPT ![LowestFree] = File(ReadFile(c))]
        /\ Dev!Open(ReadFile(c))
        /\ undisturbed' = [undisturbed EXCEPT
                             ![c] = IF @ = "write" THEN @ ELSE "open_read"]
        /\ Goto(c, "read")
     \/ /\ "open_read" \in Faults
        /\ Goto(c, "exit") /\ UNCHANGED <<read_fd, fds, device, undisturbed>>
  /\ UNCHANGED <<outer, input, file_fd, file_mutex, got>>

Read(c) ==
  /\ Runs(c, "read")
  /\ ReadDevice(c, read_fd[c], "send", "r_close")
  /\ UNCHANGED <<outer, input, own_fds, fds, file_mutex, answer>>

Send(c) ==
  /\ Runs(c, "send")
  /\ \/ SendTo(client_fd[c], ReadFile(c)) /\ Goto(c, "read")
     \/ /\ Target(client_fd[c]).kind # "conn" \/ "send" \in Faults
        /\ Goto(c, "r_close") /\ UNCHANGED got
  /\ UNCHANGED <<outer, input, own_fds, fds, file_mutex, device, undisturbed>>

\* The wrong descriptor, closed before and perhaps somebody else's by now.
BugCloseRead(c) ==
  /\ Runs(c, "r_close") /\ CloseFd(file_fd[c]) /\ Goto(c, "recv")
  /\ got' = [got EXCEPT ![c] = <<>>]
  /\ undisturbed' = [undisturbed EXCEPT ![c] = "none"]
  /\ UNCHANGED <<outer, input, own_fds, file_mutex>>

CloseRead(c) ==
  /\ Runs(c, "r_close") /\ CloseFd(read_fd[c]) /\ Goto(c, "recv")
  /\ got' = [got EXCEPT ![c] = <<>>]
  /\ undisturbed' = [undisturbed EXCEPT ![c] = "none"]
  /\ UNCHANGED <<outer, input, own_fds, file_mutex>>

-----------------------------------------------------------------------------
\* thread_cleanup, called by a thread that leaves the loop ("exit") or that is
\* cancelled ("c_close").

\* Acting on a cancellation runs the handler; file_mutex stays as it is.
ActOnCancel(c) ==
  /\ cancelled[c] /\ pc[c] \in CancelPoints
  /\ Goto(c, "c_close")
  /\ UNCHANGED <<outer, input, own_fds, fds, file_mutex, answer, device>>

CleanupClose(c) ==
  /\ At(c, "c_close") \/ (At(c, "exit") /\ ~cancelled[c])
  /\ CloseFd(client_fd[c]) /\ Goto(c, "c_remove")
  /\ got' = [got EXCEPT ![c] = <<>>]
  /\ undisturbed' = [undisturbed EXCEPT ![c] = "none"]
  /\ UNCHANGED <<outer, input, own_fds, file_mutex>>

\* A thread that leaves the loop has popped the handler before it calls it: a
\* cancellation in the close ends the thread and nothing is cleaned up.
CancelledInCleanup(c) ==
  /\ At(c, "exit") /\ cancelled[c] /\ Goto(c, "ended")
  /\ UNCHANGED <<outer, input, own_fds, fds, file_mutex, answer, device>>

\* Lock, LIST_REMOVE, unlock.
CleanupRemove(c) ==
  /\ At(c, "c_remove") /\ list_mutex = NoOwner
  /\ ListRemove(c) /\ Goto(c, "c_free")
  /\ UNCHANGED <<stopping, mpc, cur, input, descs, tinfo, mutexes, answer,
                 device>>

CleanupFree(c) ==
  /\ At(c, "c_free")
  /\ tinfo' = [tinfo EXCEPT ![c] = "freed"] /\ Goto(c, "ended")
  /\ UNCHANGED <<stopping, mpc, cur, input, descs, links, mutexes, answer,
                 device>>

-----------------------------------------------------------------------------
\* The main thread: accepting.

MainAt(label) == mpc = label

MainGoto(label) == mpc' = label

\* accept and malloc succeed; main is the only one to see the new block.  When
\* one of them fails, the connection is closed and nothing has changed.
Accept(c) ==
  /\ MainAt("accept") /\ ~terminate_program
  /\ At(c, "none") /\ tinfo[c] = "none"
  /\ client_fd' = [client_fd EXCEPT ![c] = LowestFree]
  /\ fds' = [fds EXCEPT ![LowestFree] = Conn(c)]
  /\ tinfo' = [tinfo EXCEPT ![c] = "live"]
  /\ cur' = c /\ MainGoto("insert")
  /\ UNCHANGED <<stopping, thread, own_fds, links, mutexes, answer, device>>

\* Lock, LIST_INSERT_HEAD, unlock.
Insert ==
  /\ MainAt("insert") /\ list_mutex = NoOwner
  /\ ListInsertHead(cur) /\ MainGoto("create")
  /\ UNCHANGED <<stopping, threads, cur, tinfo, list_mutex>>

Create ==
  /\ MainAt("create")
  /\ \/ Goto(cur, "open") /\ MainGoto("accept")
     \/ "pthread_create" \in Faults /\ MainGoto("u_remove") /\ UNCHANGED pc
  /\ UNCHANGED <<stopping, cur, input, descs, list, mutexes, answer, device>>

\* There is no thread: lock, LIST_REMOVE, unlock ...
UndoRemove ==
  /\ MainAt("u_remove") /\ list_mutex = NoOwner
  /\ ListRemove(cur) /\ MainGoto("u_free")
  /\ UNCHANGED <<stopping, threads, cur, tinfo, list_mutex>>

\* ... close and free.
UndoFree ==
  /\ MainAt("u_free")
  /\ CloseFd(client_fd[cur])
  /\ tinfo' = [tinfo EXCEPT ![cur] = "freed"] /\ MainGoto("accept")
  /\ UNCHANGED <<stopping, cur, thread, client_fd, own_fds, links, mutexes,
                 answer>>

\* signal_handler, at any time.  server_fd is closed and accept, then or later,
\* returns -1.
Signal ==
  /\ ~terminate_program /\ terminate_program' = TRUE
  /\ UNCHANGED <<ub, threads, main, cancelled, list, list_mutex>>

-----------------------------------------------------------------------------
\* The main thread: shutting down.

\* Out of the accept loop: lock and take LIST_FIRST.
StopLock ==
  /\ MainAt("accept") /\ terminate_program /\ list_mutex = NoOwner
  /\ list_mutex' = Main /\ entry' = head /\ MainGoto("loop")
  /\ UNCHANGED <<terminate_program, ub, threads, cur, next_entry, cancelled,
                 list>>

BugNextOf(x) == le_prev[x]    \* the wrong way through the list

NextOf(x) == le_next[x]

\* The block entry points to has been freed and main is about to use it.
EntryFreed == entry # NULL /\ tinfo[entry] = "freed"

\* LIST_NEXT and pthread_cancel read the block; then the mutex is let go.
Cancel ==
  /\ MainAt("loop") /\ entry # NULL /\ ~EntryFreed
  /\ next_entry' = NextOf(entry)
  /\ cancelled' = [cancelled EXCEPT ![entry] = TRUE]
  /\ list_mutex' = NoOwner /\ MainGoto("join")
  /\ UNCHANGED <<terminate_program, ub, threads, cur, entry, list>>

LoopEnds ==
  /\ MainAt("loop") /\ entry = NULL
  /\ list_mutex' = NoOwner /\ MainGoto("exit")
  /\ UNCHANGED <<stopping, threads, cur, list>>

\* pthread_join reads thread_id from the block, without the mutex, and waits.
Join ==
  /\ MainAt("join") /\ ~EntryFreed /\ MainGoto("joining")
  /\ UNCHANGED <<stopping, threads, cur, list, list_mutex>>

\* The thread has ended: lock, LIST_REMOVE and free, if it has not freed the
\* block itself.
Reap ==
  /\ MainAt("joining") /\ At(entry, "ended") /\ list_mutex = NoOwner
  /\ ~EntryFreed
  /\ ListRemove(entry) /\ tinfo' = [tinfo EXCEPT ![entry] = "freed"]
  /\ list_mutex' = Main /\ entry' = next_entry /\ MainGoto("loop")
  /\ UNCHANGED <<terminate_program, ub, threads, cur, next_entry, cancelled>>

\* The same steps on a block that was freed.
UseAfterFree ==
  /\ EntryFreed
  /\ mpc \in {"loop", "join"} \/ (MainAt("joining") /\ At(entry, "ended"))
  /\ ub' = TRUE
  /\ UNCHANGED <<terminate_program, threads, main, cancelled, list, list_mutex>>

-----------------------------------------------------------------------------

\* What a thread does without waiting for its client.
Serve(c) ==
  \/ OpenFile(c)
  \/ Ioctl(c) \/ SeekRead(c) \/ SeekSend(c) \/ SeekClose(c)
  \/ LockFile(c) \/ NoFile(c) \/ Write(c) \/ CloseFile(c)
  \/ OpenRead(c) \/ Read(c) \/ Send(c) \/ CloseRead(c)
  \/ ActOnCancel(c)
  \/ CleanupClose(c) \/ CancelledInCleanup(c)
  \/ CleanupRemove(c) \/ CleanupFree(c)

Client(c) == RecvChunk(c) \/ RecvEnd(c) \/ Accept(c)

\* What the main thread does without waiting for a client.
MainStep ==
  \/ Insert \/ Create \/ UndoRemove \/ UndoFree
  \/ StopLock \/ Cancel \/ LoopEnds \/ Join \/ Reap
  \/ UseAfterFree

\* The process runs.
Running == ~ub /\ ~MainAt("exit")

Next ==
  /\ Running
  /\ \/ \E c \in Conns : Serve(c) \/ Client(c)
     \/ MainStep \/ Signal

\* The scheduler runs every thread that can run.  Nothing is assumed of the
\* clients, nor of who gets a mutex first.
Fairness ==
  /\ \A c \in Conns : WF_vars(Running /\ Serve(c))
  /\ WF_vars(Running /\ MainStep)

Spec == Init /\ [][Next]_vars

FairSpec == Spec /\ Fairness

-----------------------------------------------------------------------------

FileCritical == {"no_file", "write", "w_close", "w_close_err"}

Cleaning == {"c_close", "c_remove", "c_free"}

Labels == CancelPoints \cup FileCritical \cup Cleaning \cup
          {"none", "ioctl", "lock_file", "exit", "ended"}

\* Every variable has its type.
TypeOK ==
  /\ terminate_program \in BOOLEAN /\ ub \in BOOLEAN
  /\ mpc \in {"accept", "insert", "create", "u_remove", "u_free",
             "loop", "join", "joining", "exit"}
  /\ {cur, entry, next_entry, head} \subseteq Conns \cup {NULL}
  /\ pc \in [Conns -> Labels]
  /\ chunks \in [Conns -> 0 .. MaxChunks]
  /\ cancelled \in [Conns -> BOOLEAN]
  /\ client_fd \in [Conns -> Fds \cup {-1}]
  /\ file_fd \in [Conns -> Fds \cup {-1}]
  /\ read_fd \in [Conns -> Fds \cup {-1}]
  /\ fds \in [Fds -> {Closed} \cup {Conn(c) : c \in Conns}
                           \cup {File(f) : f \in Files}]
  /\ tinfo \in [Conns -> {"none", "live", "freed"}]
  /\ le_next \in [Conns -> Conns \cup {NULL}]
  /\ le_prev \in [Conns -> Conns \cup {ListHead}]
  /\ file_mutex \in Conns \cup {NoOwner}
  /\ list_mutex \in {Main, NoOwner}

\* "Protects file write access", "Protects access to the thread list": each
\* mutex is held by whoever is in its region, and file_mutex otherwise only by
\* a thread that was cancelled in it and took it to its grave (lines 263-278).
MutexDiscipline ==
  /\ \A c \in Conns :
       /\ pc[c] \in FileCritical => file_mutex = c
       /\ file_mutex = c => \/ pc[c] \in FileCritical
                            \/ cancelled[c] /\ pc[c] \in Cleaning \cup {"ended"}
  /\ list_mutex = Main <=> MainAt("loop")

\* The n-th block of the list.
Nth[n \in Nat] ==
  IF n = 0 THEN head
  ELSE IF Nth[n - 1] \in Conns THEN le_next[Nth[n - 1]] ELSE NULL

Listed == {Nth[n] : n \in 0 .. Cardinality(Conns) - 1} \ {NULL}

\* Blocks allocated but not in the list yet, or not any more.
Unlisted == {c \in Conns : At(c, "c_free")}
              \cup {cur : m \in {mpc} \cap {"insert", "u_free"}}

\* The list is what shutdown relies on to reach every thread: walking it meets
\* each live thread_info block once and no freed one, through any order of
\* threads arriving and removing themselves, and the back pointers LIST_REMOVE
\* follows agree with it (main, thread_cleanup).
ThreadsAreListed ==
  /\ Nth[Cardinality(Conns)] = NULL
  /\ Listed = {c \in Conns : tinfo[c] = "live"} \ Unlisted
  /\ \A c \in Listed : IF head = c THEN le_prev[c] = ListHead
                       ELSE le_prev[c] \in Listed /\ le_next[le_prev[c]] = c

\* A thread never writes to, reads from or closes a descriptor that is not its
\* own: "Open file for appending" precedes every write, and what a thread
\* closes nobody else has been given in the meantime (handle_client).
OwnDescriptors ==
  \A c \in Conns :
    /\ pc[c] \in Labels \ {"none", "ended", "c_remove", "c_free"}
         => Target(client_fd[c]) = Conn(c)
    /\ pc[c] \in {"ioctl", "seek_read", "seek_send", "seek_close",
                  "write", "w_close", "w_close_err"}
         => Target(file_fd[c]) = File(AppendFile(c))
    /\ pc[c] \in {"read", "send", "r_close"}
         => Target(read_fd[c]) = File(ReadFile(c))

\* A thread that handled a chunk of data or a seek and left by itself has
\* returned every descriptor (handle_client, thread_cleanup).
NothingLeftOpen ==
  \A c \in Conns :
    At(c, "ended") /\ ~cancelled[c] /\ buffer[c].kind \in {"data", "seek"}
      => {Conn(c), File(AppendFile(c)), File(ReadFile(c))} \cap Range(fds) = {}

\* The loop that sends the file has met the file's end, not an error.
Answered(c) ==
  At(c, "r_close") /\ dev_ret[ReadFile(c)] = [status |-> "OK", data |-> <<>>]

OwnByte(c, s) == \E i \in DOMAIN s : s[i] = c

\* At every moment of an answer, whatever other threads have written since it
\* began and however it ends, what the client was sent is how the device's
\* content begins, as long as the device has dropped no command since; and if it
\* has dropped none since the line came in, an answer that comes to the file's
\* end has the line in it (lines 281-295).
AnswerIsTheFile ==
  \A c \in Conns :
    /\ pc[c] \in {"read", "send", "r_close"} /\ undisturbed[c] # "none"
         => IsPrefix(got[c], FlattenSeq(cmds))
    /\ Answered(c) /\ undisturbed[c] = "write" => OwnByte(c, got[c])

\* "If the received data ends with a newline, send the file content to the
\* client": a line that is still in the device is in its own answer.
AnswerHasOwnLine ==
  \A c \in Conns :
    Answered(c) /\ OwnByte(c, FlattenSeq(cmds)) => OwnByte(c, got[c])

\* "The cleanup handler will remove the thread info and free memory": once,
\* so nobody uses or frees it afterwards.
NoUseAfterFree == ~ub

\* Every line is answered to the end, unless the server shuts down or one of
\* the calls in between fails and ends the connection (lines 263-296).
LinesAreAnswered ==
  \A c \in Conns : At(c, "lock_file") /\ EndsLine(c)
                     ~> At(c, "r_close") \/ At(c, "exit") \/ terminate_program

\* A signal ends the program: no thread and no mutex keeps main from joining
\* every thread, as far as main can go without using a freed block.
ShutdownCompletes == terminate_program ~> MainAt("exit") \/ ub
=============================================================================
