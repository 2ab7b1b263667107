# Models of Eltex_course

The repository is a collection of some forty-five small C programs written
during a course on Linux programming: chats, client-server models, shells,
lists, and exercises on each system call. This directory holds TLA+ models of
those of them in which several processes or threads meet, and of a few that keep
state over a long sequence of commands, the TLC runs that check them, and proofs of some of their properties.

## How to run

    tlc -workers 2 -config <cfg> <module>      # the pairs are in "What is checked"
    tlapm <module>                             # the *Proofs modules

## Inventory

For each component: its state, its operations, how it meets the others, what is
hard about it, and what makes it correct.

### Chat over a message queue (task13/chat): modelled, except the drawing thread

* State. The server: a table of members (pid, nickname, `is_online`), the number
  `members_online`, the lines kept for newcomers, `exit_flag`, `members_mutex`.
  A client: `exit_flag`, its own copy of the table and of the lines, both under
  `data_mutex`. Between them one System V queue: type 1 for joins and leaves,
  type 2 for lines, type = pid for the mail of a client.
* Operations. Server thread `members_handler` (join: share table and lines with
  the newcomer, register it, tell everybody; leave: mark, count down, tell
  everybody; stop when nobody is left); thread `message_hendler` (pass a line
  on, then keep it; on a quit look whether the table is empty). Client main
  (join, type lines, `!exit`, join the threads, leave, quit), thread
  `message_handler` (poll the mailbox), thread `refresh_handler` (draw).
* Hard. Two server threads broadcast into the same queue, one of them without
  the mutex; every mailbox shares the capacity of the queue, so any sender can
  block, also with the mutex held; the last members of a chat leave and the
  server must notice; clients are killed.
* Correct when. The counter and the marks agree; a leave always finds its
  member; a newcomer gets each line once; who leaves gets out; the server ends
  when it is empty.

### Time servers (task16_cs_models): modelled

One UDP time service in four shapes: a thread for each request (`parallel`), a
fixed set of threads that each poll a slot of shared memory (`parallel_buff`),
threads that receive from a message queue (`producer_consumer`), and one thread
that selects over a UDP and a TCP socket (`multyplexed_fd`).

* State. The sockets; the slots (`is_ready`, address) and the index of main's
  search; the bounded queue and its poison pills; the accepted descriptors.
* Operations. Receive, hand over to a thread, answer, and stop when a client
  sends `kill`.
* Hard. The hand-over through unlocked memory, the end of the threads, a kill
  that races the requests, a failing send, descriptors that run out, a TCP
  client that holds up the only thread.
* Correct when. Each client received is answered, at most once, and nobody after
  the end; a request is not lost on the way to its thread; a server drains what
  it has received before it ends; it ends only when it is told to.

### Drivers shell (task_drivers): modelled

* State. The shell's table of drivers with a pair of pipes each; a driver has a
  `status` and a timerfd.
* Operations. `create_driver`, `send_task`, `get_status`, `get_drivers`, `quit`;
  the driver's select loop.
* Hard. Blocking reads, a timer that is never read and so stays readable, tasks
  that are not acknowledged and answers that are, an uninitialised field; times and
  pids that nobody checks.
* Correct when. Each answer belongs to the question the shell has just asked, a
  running timer means busy, every command that names a driver ends, every task that
  has a timer is over some time.

### Chat over shared memory (task14/chat): modelled, except the drawing thread

* State. Two messages in shared memory: `shm[0]`, a request (mtype, text), and
  `shm[1]`, a text for everybody with the marks `am_i_read[pid hash % 30]`. Five
  semaphores: 0 and 1 wake the two server threads, 2 is held by the writer of
  `shm[0]`, 4 by the writer of `shm[1]`, 3 counts leave to read. The server's table,
  counter and lines and the clients' tables are those of the other chat.
* Operations. A request is written, the thread it is for is woken, and `shm[0]` is
  given free after 100 ms. A broadcast clears the marks, writes the text and
  lets clients in until there are `members_online` marks; a newcomer is given the
  history alone, text after text.
* Hard. Marks are cleared before the text is written; requests are overwritten;
  `members_online` changes under a broadcast of the other thread; a reader leaves
  between two marks; what is read twice or not at all depends on microseconds.
* Correct when. Each text has one writer at a time, each broadcast ends, each
  member reads each text once, and who wants to leave gets out. The code keeps
  the first; the second unless a reader leaves, one that is no member yet has set its
  mark, or two share a mark; the third not at all; the fourth not when a broadcast is
  under way.

### Telephone directories (task4, task6): modelled

* State. task4: an array of 100 subscribers and their number. task6: a doubly
  linked list of cells from `malloc` with `head`, `tail` and the number of cells.
* Operations. Add, remove the first of a name, search by name (task4 shows all of
  that name, task6 the first), show all, leave. Nothing is kept in a file.
* Hard. Long sequences of adding and removing at the ends: removing the only cell
  leaves `tail` dangling, and `malloc` may hand the same address out again; the
  search of task4 looks at all 100 entries, those behind the last one too.
* Correct when. Both hold the subscribers in the order of their adding; the
  links agree in both directions and lead to no freed cell; what is not in use
  is cleared.

### Shell with pipelines (task12/pipeline_bash): modelled

* State. The commands of one line; an array of pipes between neighbours; the
  descriptors each process holds; the children.
* Operations. Read a line, make the pipes, fork a child for each command, close
  in the shell what no later child needs, close the rest, wait from first to last.
  A child redirects its stdin and stdout, closes all the pipes, and executes.
* Hard. A pipe ends for its reader, or breaks for its writer, only when the last
  process that holds the other end has closed it; children start, run and end in
  any order; one cannot be executed; `pipe` or `fork` fails in the middle; what
  `printf` has buffered is inherited; an empty line.
* Correct when. Each line that could end does; nothing of it is left at the next
  prompt; a command reads what its neighbour has written and nothing else.

### Echo server (task_echo): modelled

* State. A list of senders (address, port, number of lines) and a raw socket; the
  clients have one port for all, 8081.
* Operations. Count a line and send it back with the count; set the count to 0 on
  `!exit`; on `kill` a second thread raises SIGUSR1, whose handler frees the list
  and pauses, and 100 ms later SIGTERM.
* Hard. Raw sockets get a copy of every packet, so two clients on a host read each
  other's answers; the signal interrupts main anywhere, also inside `malloc`.
* Correct when. Whoever has its port for itself gets the answer to the line it has
  just sent, counted from 1, also after other clients used the port, one after
  the other or together.

### Shop (task11/task11.3): modelled

* State. Five shelves with a mutex each, `is_loader_working`, what each of three
  customers needs.
* Operations. A customer takes from a random shelf what is there and needed, until
  it needs nothing; the loader puts 500 on a random shelf, until main stops it,
  after the last customer.
* Hard. Read and write of a shelf in two kinds of thread; empty shelves; when to
  stop the loader.
* Correct when. No goods are lost or sold twice; everybody is served and the store
  closes.

### Exchanges (task14/POSIX, task14/Systev_V, task13/POSIX, task13/SystemV): modelled

* State. Shared memory with a semaphore, or a message queue, all in the kernel.
* Operations. The server writes, sleeps (three of the four), and reads; the client
  reads and writes.
* Hard. Nothing but ten seconds of sleep makes three of the four alternate; what a
  killed server leaves behind is taken over by the next.
* Correct when. Each reads what the other wrote.

### File panels (task9/fake_mc): modelled

* State. For each of two panels a directory, a cursor and a window of rows; one
  list of entries for both.
* Operations. Up, down, Enter (open a directory), Tab (the other panel, and the
  list read anew), quit.
* Hard. Cursor and window of a panel stay while the list is that of the other; a
  directory may have become shorter when it is read again.
* Correct when. The cursor is in its window and on an entry, so that the loop that
  draws comes to its end and Enter finds an entry.

### Components that are not modelled

* Less than what a module already has: `task10` and `task12/task1`, `task12/task2`
  (one child, one pipe: `Pipeline`), `task11/task11.1` and `task11.2` (a counter
  under a mutex or a spinlock, sums joined at the end: `Shop`).
* One actor, or two that strictly alternate over blocking calls: `task15` (one signal
  handler or mask each), `task16` (a client and a server in turn), `task9/file_test.c`.
* Pure I/O: the packet header exercises (`task16_ether_header`, `task16_ip_header`,
  `task16_udp_header`, `task16_raw_snifer`, `task16_msg_typs`), which lay out headers
  byte by byte around one exchange.
* Functions without state that outlives a call: `task1`, `task2`, `task3`, `task7`,
  `task8`.

## Modules

| module | models | extends |
|---|---|---|
| `ChatData` | `data.c` of the chats: the member table, `data_find` | |
| `MqChat` | server and clients of task13/chat over the kernel queue | `ChatData` |
| `MCMqChat` | instances of `MqChat` | `MqChat` |
| `MqChatProofs` | proofs about `MqChat` | `MqChat` |
| `ShmChat` | server and clients of task14/chat over shared memory and semaphores | `ChatData` |
| `MCShmChat` | instances of `ShmChat` | `ShmChat` |
| `ShmChatProofs` | proofs about `ShmChat` | `ShmChat` |
| `TimeService` | abstract: what a time server promises | |
| `TimeNet` | the clients and the UDP socket that all time servers share | |
| `ThreadPerRequest`, `SlotPool`, `PillPool`, `Multiplexed` | the four servers | `TimeNet` |
| `TimeServers` | the four composed: one of them runs | the four, `TimeService` by INSTANCE |
| `MCTimeServers` | instances of `TimeServers` | `TimeServers` |
| `TimeServersProofs` | proofs about the four servers, and the refinement to `TimeService` | `TimeServers` |
| `Drivers` | task_drivers | |
| `DriversProofs` | proofs about `Drivers` | `Drivers` |
| `Subscribers` | names and capacity of the telephone directories | |
| `Directory` | abstract: what a telephone directory promises | `Subscribers` |
| `LinkedDirectory`, `ArrayDirectory` | task6 and task4 | `Subscribers` |
| `Directories` | the two composed: one of them runs | both, `Directory` by INSTANCE |
| `DirectoriesProofs` | proofs about `ArrayDirectory` and `LinkedDirectory`, and the refinement to `Directory` | `Directories` |
| `Pipeline`, `Echo`, `Panels` | task12/pipeline_bash, task_echo, task9/fake_mc | |
| `Terminals` | the programs for a terminal: one of them runs | `Drivers`, `Pipeline`, `Echo`, `Panels` |
| `MCTerminals` | instances of `Terminals` | `Terminals` |
| `TerminalsProofs` | proofs about `Pipeline` and `Panels` | `Terminals` |
| `EchoProofs` | proofs about `Echo` | `Echo` |
| `Shop` | task11/task11.3 | |
| `Exchanges` | task14/POSIX, task14/Systev_V, task13/POSIX, task13/SystemV | |
| `Exercises` | the directories, the store and the exchanges: one of them runs | `Directories`, `Shop`, `Exchanges` |
| `ExercisesProofs` | proofs about `Shop` and `Exchanges` | these |

`Terminals` and `Exercises` put programs side by side that do not interact; a
variable says which one runs and the others stand still. The specification of
each, `PipeSpec` for example, is what its proofs are about.

### How the models correspond to the code

A thread is a program counter (`memPc`, `mainPc[c]`, `drvPc[d]`, ...) whose values
name the statement it stands before. A step ends where another thread or
process can see the difference: at each system call that may block, at each
lock, and at each access to unlocked shared data. Local computation in between
is part of the step.

`MqChat`. `queue[t]` is the sequence of messages of type t; `msgsnd` waits until
the sum of all lengths is below `Cap`. `members_handler` is `MemReceive`, then
`MemLeave` or `MemJoin` (which take the mutex), `MemShareMember` / `MemShareLine`
(one send each), `MemAdd`, `MemCast` (one send each), `MemCheck`, `MemReset`,
`MemFlag`; `message_hendler` is `MsgTest`, `MsgReceive`, `MsgCast`, `MsgAdd`,
`MsgQuit`. A nickname and a text are left out: a line is its author and its
number. `asked`, `joined` and `left` are history variables: where in the stream of
lines a join was taken up and registered, and who has sent its leave. No guard reads
them. `JoinFaults` is the undefined behaviour of
`pthread_join(t, (void**)res)` with an uninitialised `res`: with `WildJoin` the
process may fault there.

`ShmChat`. `sem[0..4]` are the five semaphores; a `semop` on removed ones fails and
nobody looks, so `May` lets everybody through. Every read and write of the two
shared messages and of a mark is a step, with two exceptions that lose nothing:
a wait for a semaphore that one thread waits for is joined with the look that
follows it (`MemWait`, `MsgWait`, `RcvLook`, `RcvSeen`), and the writer's wait for
`shm[0]` with its store. `Locked` stands for `members_mutex`: only the members thread
holds it across a step. `MemTake` reads the text after `MemWait` looked at `mtype`:
if the request was overwritten in between, `atoi` reads NULL and the server
process ends (`ServerFaults`). A round of posts in `broadcast` is one step. The
sleeps take any time. The client's tables are reduced to `size`, which decides how
many posts `!exit` does.

`SlotPool`. `scan` and `slotPc` are main, `handler[s]` is the thread of slot s; the
reads and writes of `is_ready` and of the address are steps of their own. `Last`
is the highest index. `PillPool`: the queue holds requests (clients) and pills. Main's
`sleep(1)` before its end is `Patient`: it waits for the handlers at work (`Working`), but
not for one that sleeps itself after a failed `sendto` or is blocked in `msgsnd`, so that
main may return 0 first.
`ThreadPerRequest`: the set of handler threads that have not sent yet.
`Multiplexed`: `Select` records what was readable, the branches follow one after
the other.

`Drivers`. `in[d]` and `out[d]` are the pipes, `timer[d] = "expired"` lasts until a
task sets it anew, because the code never reads the timerfd. `SendTask` writes
what the driver will make of the message: a task, for a negative time one that gets no
timer because `timerfd_settime` fails (`NewTaskUntimed`), or, for the time 0, one of
`ZeroTasks`, since `stat` is then whatever was on the stack. `Tell` is any write of the
shell; one to a driver that is gone would end the shell by SIGPIPE. A pid the shell does
not know (driver 0 in the model) gives the index -1, and the code takes its descriptors
from in front of the array of pipes. In the build of the Makefile (no optimisation) that
is the buffer of the line just typed: 0, or four characters that as a number are no open
descriptor, unless control characters are typed. So a task is lost, and `get_status`
reads the terminal (`AskNobody`) until the user types a line, which is lost (`LoseLine`).

`LinkedDirectory`. A cell is the address `malloc` returned for it; `allocated` are
those not freed, and any other may be handed out next, so a freed address comes
back. `capacity` keeps the code's name for the number of cells. The subscriber,
which has a `malloc` of its own, is a field of its cell: they are freed together.
`CellSearch` walks `capacity` cells from the head, `ListShow` follows `next` to NULL, as
the code does; that both see the same list is part of what is checked. After
`DirFree` or `ArrayEnd` the program may be started again. `ArrayDirectory` keeps the
search over the whole array (`FindIndex`); the cleared field `Empty` is no name, as
`scanf("%9s")` reads at least one character. A message such as "the directory is
full" changes no state and is left out.

`Pipeline`. `ends[p]` are the ends of the array `pipes` that process p holds, `std[c]` the
pipes behind stdin and stdout of child c; `fork` copies `ends` of the shell, whatever
it holds at that moment. `Redirect`, `CloseAll` and `Exec` are the child up to `execvp`,
step by step, because its neighbours run meanwhile. A single command is the same
with no pipe. The programs are external: a source that writes, `yes`, a filter that
reads to the end, `head`, one that does not read, one that is missing. The kernel
gives end of file and SIGPIPE by who holds an end (`HasEnd`). `tty` says whether
stdout is a terminal: if not, the prompt is still in the buffer that a child whose
`execvp` fails flushes with `exit`. `received` and `wrote` are history.

`Echo`. A step of main ends at `recvfrom`, before the `malloc` of a new sender (there the
signal can leave the lock of the heap taken) and before `sendto`. `mail[c]` is what
the socket of a client holds for its port. Linux gives SIGUSR1 to the main thread,
which does not block it. `disturbed` is history: who has met another at its port,
be it one that has it open or a line of one that has gone which is still to be
answered.

`Shop`. `Chooses` is `rand() % 5`, `Locks` the lock and the read, `Takes` and `Puts` the write
and the unlock. `want`, `got`, `taken`, `brought` are history.

`Exchanges`. A step is a system call or an access to the shared memory. The four
pairs differ in what is opened how, in the sleep and in what is receivable, not in
the order of their steps. A killed server may be started again.

`Panels`. A key is a step. `MoveTo` is `refresh_index`, the amount it shifts the window by
included. `print_dirs` runs to the end of its loop only if it starts at or before
it: otherwise `ui = "wild"`, as when Enter looks behind the list. `Removed` is another
program.

## What is checked

| run | cfg, module | shows |
|---|---|---|
| chat_safety | `MqChatSafety.cfg`, `MCMqChat` | Two clients join, talk, leave, fault or are killed, in all interleavings over a queue of five: the counter is the number of marks, leaves find their member in the server and in each client, who is in the table has heard of everybody online, and the server stops only when all it registered have sent their leave. |
| chat_history | `MqChatHistory.cfg`, `MCMqChat` | A reader joins while three lines are taken, passed on and kept: kept lines and live lines fit together (`NoGapAfterJoin`). |
| chat_live | `MqChatLive.cfg`, `MCMqChat` | With room for all the messages of two silent clients: who asks to leave leaves, who joins sees itself, the server ends or its message thread starves. |
| chat_exit_clean (violation) | `MqChatExitClean.cfg`, `MCMqChat` | A client can read the `!exit` it has posted to itself, and faults on it. |
| chat_full (violation) | `MqChatFull.cfg`, `MCMqChat` | The queue fills with mail nobody reads and a leaving client hangs. |
| shm_chat | `ShmChat.cfg`, `MCShmChat` | Two clients join in any order, one writes a line or leaves: a text under broadcast is not overwritten, nobody reads an empty one, requests never wait for the server, no semaphore of the writers is lost, a newcomer gets the history to its end, a broadcast ends unless a client leaves or sets its mark before it is a member. |
| shm_exit (violation) | `ShmChatExit.cfg`, `MCShmChat` | `!exit` during a broadcast: the reader ends without its mark, the broadcast goes on for ever with semaphore 4 held, the client hangs. |
| time_servers | `TimeServers.cfg`, `MCTimeServers` | Each of the four servers implements `TimeService`, answers everybody (unless told to stop, out of sockets or the datagram was lost), forgets nobody it received, and, if no `sendto` failed, drains before it ends. |
| time_slot_kill (violation) | `TimeServersSlotKill.cfg`, `MCTimeServers` | A kill overwrites a request that waits in its slot. |
| terminals | `Terminals.cfg`, `MCTerminals` | One of four programs. Two drivers, three tasks, every command: who reads available is free, question and answer stay in step, commands, tasks and quit end. Two lines of up to three commands: every line ends and leaves nothing behind, a command holds its own two ends and reads its neighbour only. Three echo clients at one port, in any order and number at a time: who has the port for itself gets its own answers. Two panels over three directories: the cursor stays in sight. |
| drivers_zero (violation) | `DriversZero.cfg`, `Drivers` | A task with the time 0 may be answered although nobody asked. |
| exercises | `Exercises.cfg`, `Exercises` | One of three. Every sequence of commands on either directory with three places: the list is well linked, and both programs implement `Directory`. Two customers, two shelves, a loader: no goods are lost and the store closes. The four exchanges with up to two kills of the server: each reads what the other wrote, if the user waits for the sleep of the three that have one. |

### Properties

* `OnlineCount`, `LeaveFound`, `ClientLeaveFound`, `NoGapAfterJoin`,
  `StopsWhenEmpty` relate two threads' views of the members. `NoGapAfterJoin` is
  weaker than "each line once" because the code is: the kept lines are shared
  before the newcomer is registered, and the message thread takes no lock, so
  the lines handled in between may be missed. It says exactly which.
* `MembersKnowEachOther` is the safe half of `JoinSeen`: a newcomer learns of the others
  in two ways, by the table that is shared with it and by the joins announced later,
  and between the two nobody may be missed, although joins and leaves of others
  wait in the same queue. Only those the broadcast has not come to yet are exempt.
* `StopsWhenEmpty` asks that everybody the server has registered did send its leave
  (`left`). A client that was killed, or faulted in `pthread_join`, before that is not
  excused: it stays marked, and the server goes on for ever rather than stop.
* `StopsOrStarves` names the two ends the server can have: the queue removed, or
  the message thread in `msgrcv` for ever because the last quit was looked at
  before `members.size = 0`.
* `RequestsGoOn` is the good side of a decision whose bad side is a hazard: a
  client gives `shm[0]` free without looking whether it was read. What the shared
  memory chat does not promise, and the model shows in a few steps, is that a
  request is handled once or at all. `SemaphoresKept` is its safe half, and that of the
  other liveness properties of this chat: semaphores 2 and 4 are 0 exactly while one
  writer holds them. A server that faulted (`ServerFaults`) may keep 4 for ever, and a
  `semop` on removed semaphores means nothing: both are exempt.
* `BroadcastEnds`: the server waits for exactly `members_online` marks, and this number
  can be missed for good. It excuses a client that leaves while it is read to
  (`LeavesWhenAsked` is about that), and marks beyond the number: a newcomer whose reader
  runs already may take part in a broadcast before its join is counted. It presupposes
  that no two pids are equal mod 30 (`SlotsDiffer`); two that are share one mark, and
  with both in the chat no broadcast ends. These are defects of the code; what the
  property keeps is that nothing else makes a broadcast miss its number: not the second
  mark of a reader, not the other thread counting a member up or down.
* `DrainsBeforeExit` holds as long as no `sendto` has failed. Once one has, its handler
  posts pills and sleeps for a second as main does, and main may return 0 while a
  request is still in the queue.
* `ImplementsService` is the refinement to `TimeService`; its UDP and TCP clients
  are both clients of the abstract service.
* `NobodyForgotten` is the safe half of `Served` and `SlotsKeepRequests` for the servers
  without slots: whoever was received and not answered is in somebody's hands, or in
  the queue, and these are all. It ends, in the server with a queue, with the first
  failed `sendto`, after which the handlers run on without the socket.
* `InStep` and `AvailableIsFree` say that pipes and answers cannot be out of step
  as long as no task has the time 0; `drivers_zero` is what happens otherwise.
* `TaskEnds` is about drivers whose timer was ever set. One that was only ever given
  negative times is busy for ever, which the model shows and nobody promises otherwise.
* `CommandEnds` is about the commands that ask a driver; `get_status` of an unknown pid
  waits for the user.
* `WellLinked` follows `next` from the head and `prev` back and compares with the cells
  that are allocated: nothing lost, nothing freed that is still reached. It does
  not ask anything of `tail` in an empty list, where the code leaves it dangling.
* `ImplementsDirectory` relates either program to one sequence of subscribers. The
  abstract search shows some of the name, the first ones: the programs differ there.

* `LineEnds` is what the closing of descriptors is for: a single end kept by a single
  child in a single order of steps makes a filter, or the shell, wait for ever.
  The lines are those that end in any shell (`EndlessIsCutOff`: `yes` needs somebody
  behind it who stops reading). `OwnEndsOnly`, `NothingLeft` and `NeighbourReads` are its
  safe side: the first says which ends each process holds once it executes its
  command, has ended or waits, whatever it was forked with, the last names the one
  thing that is read without a neighbour having written it.
* `AnswersInStep` exempts those who have met another at their port: they do read each
  other's answers, and one that is out of step stays so. Two clients that met may
  both have gone with a line of theirs still in the raw socket; a third one that
  opens the port before it is answered is disturbed by it and exempt as well. The
  count is the character the code sends (`CountChar`): the digit of the number of lines
  up to the ninth, then `:` and what follows, and after 256 lines the same again.
* `NothingLost` relates the shelf to a history of all that was brought and taken.
* `ShopCloses` needs that the loader outlives the customers.
* `EachReadsOther` has the preconditions that the code has. For three of the pairs the
  user is patient: the client is run while the server sleeps, as
  `task13/POSIX/simple_msg/server.c:21` asks, and no server is killed in the middle of an
  exchange; without that the server may read its own text, and no semaphore keeps it
  from doing so. For the fourth, the System V queue, the client may be run at any time.
  A server killed before is allowed over shared memory only: old messages in a queue
  would be read by the next.
* `CursorInSight` holds as long as nobody removes an entry from the directory of the
  panel; once somebody has, the cursor may stand behind the list that Tab reads.

Some invariants are proved and in no cfg: the types of `MqChat` (`TypeOK`),
`MembershipInv`, and statements that other properties of a run rest on and would not
hold without: `ArmedIsBusy` (`AvailableIsFree`), `ClearedBehind`
(`ImplementsDirectory`), `NeverWaitsInVain` (`Served`, `TcpServed`: the multiplexed server
uses what `select` saw after it has served the other socket, and would hang in
`recvfrom` or `accept` if that were gone) and `ServedBeforeStop` (`ShopCloses`). TLC
found each of them to hold in the instance of these runs before its proof; to check
one again it is enough to add it to the cfg. The same goes for the types of the other
modules, which document the variables.

### Findings

1. `client.c:170` (task13/chat): the comparison with `!exit` never succeeds,
   because the message has no `>`; the client reads NULL and faults.
2. `server.c:150` (task13/chat): the queue is shared by all, mail to members who
   have left stays in it, and in the end nobody can send, also not to leave.
3. `parallel_buff/server.c:81`: a kill overwrites a waiting request.
4. `task_drivers/main.c:114`: `m.stat` is not initialised.
5. `client.c:175` (task14/chat): the reader leaves without its mark while the server
   waits for it.

## Bounds and why they are enough

* Chat. Two clients are the fewest with a broadcast to another and a history to
  share; a third multiplies the states and brings no new kind of step, since
  the server handles one join at a time. `Cap` is 16 in reality (16384 bytes,
  messages of 1000). Four, five and six let sends block in the middle of each
  loop, which is what the bound is for. Eleven is the exact number that two
  silent clients can need (ten makes `LeavesWhenAsked` fail); with lines no
  number is enough, as `chat_full` shows. `MaxLines` bounds what users type: one
  line in flight during joins and leaves, three for the history.
* Shared memory chat. Two clients: one joins while the other is served, reads,
  writes or leaves. `MaxActs` is one for the one and none for the other: with a
  line and an exit of the same user the state graph is too large for the liveness
  properties. `MaxTokens = 1` counts semaphore 3 up to one: one leave to spare is
  what it takes to read a text twice; every loop of the server posts again.
* Time servers. Three clients against two slots (`Last = 2`) or two handlers and a
  queue of two: a slot is used again, and the queue is full. `MaxFds = 1` makes
  the limit reachable; `OneTcp` and a `kill` over TCP use both branches.
* Drivers. `MaxDrivers = 2` (10 in the code) lets `get_drivers` loop and create
  fail; three tasks let one arrive while another one runs or has run out.
* Pipelines. Three commands are the fewest with a child in the middle, which has
  two pipes and must close both; `SomeLines` has a line for each way a command ends,
  by itself, at the end of its input, by SIGPIPE, before it is executed. `PipeCap = 1`
  against `Items = 2` makes every writer wait for its reader. Two lines let one meet
  what another has left behind.
* Echo. Three clients of one port, one after the other or at the same time: a third
  one is needed to meet what two have left behind. Two lines of one of them, so
  that a count of 2 is seen. Other ports do not interact, and `AnswersInStepAlways`
  covers them, and any number of lines.
* Panels. Two rows and directories of two, four and five entries: the window moves at
  both ends and a list is shorter than the window is high.
* Shop. Two customers and a loader at two shelves; they need 2 each, more than lies
  on a shelf (1), so that they must wait for packages. `MaxStored` is the one bound
  that is not in the code: the loader leaves a shelf alone that holds as much.
* Exchanges. `MaxKills = 2`: one server to leave something behind, one to add to it.
* Directories. Three places (100 in the code) are the fewest with a head, a tail
  and a cell between them; three addresses force a freed one to be used again;
  two names with two values of the rest give two subscribers of one name and a
  name that is not there. There is no bound on the number of commands.

Deadlock is not checked (`CHECK_DEADLOCK FALSE`), because these programs end: a
state in which everybody has left or the shell has quit has no successor, and the
message thread of the chat really may starve. The liveness properties say which
ends are allowed. (The directories are never at an end: every command is possible
in every state.)

## Fairness

Weak fairness of each thread and each process: the operating system schedules
what can run, and `msgsnd`/`msgrcv`/`read` return when they can. Timers run out.
A TCP client that has connected goes on to send, as its code does. Nothing is
assumed of users: they need not type, leave, ask or kill. In
`Pipeline` the children and the shell are scheduled, the user need not type. In
`Shop`, `rand()` leaves out no shelf for ever, and a thread gets a mutex that is free
again and again: its holders sleep for a second or two between their turns
(strong fairness of `Comes` and `Locks`). In `ShmChat` a client waiting at
semaphore 3 is treated with strong fairness: the others take what is posted there, but the
kernel serves waiters of a System V semaphore in order.

## What is proved

All proofs are for every value of the constants.

Every safety property of the passing runs, both refinements included, is a
theorem. What follows names, for each, the inductive invariant and why the
property alone is not inductive. `MembershipInv` and `GapInv`
were checked with TLC on the instances of `chat_history` and `chat_safety` before
their proofs.

* `MqChatProofs`. `TypeCorrect` is the type invariant. `MembershipCorrect` proves
  `MembershipInv`: while the members thread serves, a client has at most one join
  and at most one leave under way, the join is ahead of the leave or handled,
  nobody is twice in the table, and only who has left is marked offline. It is
  needed because neither `LeaveFound` nor `OnlineCount` is inductive: a leave found
  in the queue must be known to find its member later. From it follow
  `LeaveAlwaysFound`, `CountCorrect` (with lemmas on the cardinality of the set of
  online entries under append and mark) and `StopCorrect`: who is marked offline has
  sent its leave, and the counter is 0 only when all are marked so.
  `ClientLeaveAlwaysFound` is about the other end, what a client is told. `KnowInv`
  says that its mail is in order (`InOrder`: a leave has its join in front of it, in
  the mail or in the table built from it), that a newcomer is told of every member
  that the sharing has passed (`KnowShared`), that all in the table know all who are
  online, but for the one being announced to them (`KnowTable`), and that a leave
  goes only to those who know who leaves (`KnowLeaver`).
  `MembersAlwaysKnowEachOther` is proved with it: `MembersKnowEachOther` is `KnowTable`,
  which a join keeps only because of `KnowShared`.
  `NoGapAlways` proves `NoGapAfterJoin` from `GapInv`: who is not registered gets no
  line except the history (`Silent`), the history is a beginning of what is kept
  (`Replay`), and who is registered has that beginning and then every line from some
  number b on that was sent to its place in the table (`Live`; `Sent` says how far
  the one broadcast under way has come). The two threads meet in `MemAdd`: the
  newcomer may be appended to the table in the middle of a broadcast. `Stream` is
  stated with the recursive function `LinesIn`, because the prover knows nothing of
  `SelectSeq`; what is needed of it is proved by induction on the length.
* `ShmChatProofs`. `TextAlwaysStays`: a text under broadcast is the one its writer
  wrote, for any number of clients. The strengthening `OneHolder` says that at most
  one of the two server threads and the clients holds semaphore 4, that it is 0
  then, and that it is only removed when both threads are done.
  `AlwaysReadsSomething`: as long as nobody has written, semaphore 3 is 0, the
  semaphores are there, and no thread is behind the place where it writes (`NoText`).
  `SemaphoresAlwaysKept`: for semaphore 4 it is what `OneHolder` says, both ways; for
  semaphore 2 (`OneAsks`) a client moves it with its own place (`AskClient`), and the
  server never touches it (`AskServer`).
* `TimeServersProofs`. `HandOverAlways`: main and a handler never use a slot at the
  same time, for any number of slots, although `is_ready` has no lock. The
  strengthening `HandOverInv` adds that is_ready is -1, or a handler gone, only
  once main has begun to end.
  `AnswersOnceAlways` needs to know where a client is between `recvfrom` and `sendto`,
  in each of the servers: with its thread (`TprInv`), with main or in exactly one slot
  that owes an answer (`SlotInv`), with main, in exactly one place of the queue or with
  exactly one handler (`PlacesInv`), with main alone (`MuxInv`, for TCP a descriptor not
  answered yet). `SlotsKeepRequestsAlways` is the other half of `SlotInv`: whoever was
  received and not answered is there. `DrainsBeforeExitAlways` is that of `DrainInv`:
  nobody received is anywhere else, and no request is behind a pill as long as no
  `sendto` has failed.
  `EveryPillItsHandlerAlways` counts (`CountInv`): the handlers that have gone, the
  pills in the queue and those main has still to post make up the number of handlers.
  `NobodyForgottenAlways` is the same of the other three servers: `TprInv`, `PlacesInv` with
  `DrainInv`, and `MuxInv`, each read in both directions. `NeverWaitsInVainAlways` needs
  what `select` saw of each socket (`UdpHolds`) across the branch of the other one.
  `ServersImplementService` shows, from the same invariants, that each step of any
  server is a step of `TimeService` or none.
* `DriversProofs`. `ArmedIsBusyAlways`: a driver whose timer runs is busy; the
  strengthening says where a driver may stand when its timer has been set anew.
  `InStepAlways` and `AvailableIsFreeAlways` rest on `StepInv`: pipes other than that of
  the driver being asked hold no question and no answer (`Quiet`), its own holds the
  question behind all tasks (`Asking`) or nothing but the answer (`Answered`), which
  says free only if no timer runs.
* `DirectoriesProofs`. `ClearedAlways`: the array is cleared behind the entries in
  use, for any capacity. It needs that a removal finds only an entry in use, hence
  that entries in use have names and cleared ones none (`ArrayInv`), and that the
  first hit exists, which rests on the well-foundedness of < (`LeastOf`).
  `WellLinkedAlways`: some function w from places to cells is the list (`ListInv`):
  injective, linked both ways, and its range is what is allocated. The lemmas say
  what adding and unlinking make of w in each of the three places of a cell; that the
  recursive walk of the program is w is shown by the least place where they differ.
  `DirectoriesImplementDirectory`: a removal is `RemoveAt` at the place of the first
  hit, in the array that moves up and in the list that is linked anew; the recursive
  search over the whole array prints some of the entries in use, in their order
  (`HitsShown`); and following `next` to NULL (`Chain`) ends after `capacity` cells,
  because there are no more cells than addresses. `Search` of `Directory` is stated
  with the places of what is shown, again to do without `SelectSeq`.
* `TerminalsProofs`. `NothingLeftEver`: at the prompt the shell holds no end of a pipe
  and no child is left, for lines of any length, any programs and pipes of any size.
  `Forked` says, for each stage of the shell, which children there may be and which
  ends it may still hold; a child changes neither (`ChildAlone`). `OwnEndsAlways`
  adds to `ReadInv` below that the ends a child inherits are those of its own line and
  that all are closed when it executes (`SpareEnds`), whatever the shell still held.
  `NeighbourAlwaysReads`: a command reads what its left neighbour wrote, and a last
  filter all of it. `ReadInv` adds where stdin and stdout of a child lead at each of
  its stages (`Wired`), whose text a pipe holds (`Tagged`), that what was written is
  in the pipe or has been read (`Balanced`), and that a last filter has ended only
  after its neighbour, with the pipe empty (`EndedAfter`): a child that has not
  ended holds the write end, so its reader is not at the end yet (`WriterHolds`).
  `CursorStaysInSight`: for any tree and any number of rows. The strengthening
  `OnEntry` says that the one list is that of the panel with the keys as long as its
  directory is as it was, and that a directory that has lost an entry never looks as
  it was again, since it is shorter.
* `EchoProofs`. `AnswersInStepAlways`: for a client alone at its port, what the server
  has counted, what is in the raw socket and in its mail, and what it has heard
  belong together (`InStepWith`); a port that nobody has open is at rest: behind
  every line of it in the raw socket there is an `!exit` (`Rests`), which sets the
  count to 0 before the next client's first line is handled. The proof was what
  showed that two clients who met can disturb a third that comes after both have
  gone; the history variable and the run were extended to that.
* `ExercisesProofs`. `NothingLostEver`: the books balance for any numbers of customers
  and shelves. It needs that what a thread has read under the mutex is still on the
  shelf when it writes (`ShelfHeld`), because nobody else can hold that mutex;
  `OneAtAShelf` states the latter by itself. `ServedBeforeStopAlways`: a customer that has
  gone home needs nothing more (`GoneServed`), and main stops the loader only after it
  has joined every customer. `EachReadsOtherAlways`: `Remembered` says
  for the shared memory, and `Passed` for the queue, how far server and client can be
  at the same time, what is stored then and what each has read; in the memory a
  killed server leaves nothing that the next one does not overwrite. The theorem has the
  preconditions of the property: a patient user, but for the System V queue, and for
  the queues no kill.

Assumptions are the named ASSUMEs of the modules: pids differ from 1 and 2, at
least one queue entry, directories are not empty, finitely many addresses, NULL not
one of them, a line whose source never ends has a later command that ends by itself
(`EndlessIsCutOff`), and the bounds are numbers. Beyond these, `InStepAlways` and
`AvailableIsFreeAlways` assume `ZeroTasks \subseteq {"ignored"}`, as the run does: with a
task that is answered they are false, which `drivers_zero` shows.

Only model-checked: liveness (`LeavesWhenAsked`, `JoinSeen`, `StopsOrStarves`, `Served`,
`TcpServed`, `RequestsGoOn`, `NewcomerServed`, `BroadcastEnds`, `CommandEnds`, `TaskEnds`,
`QuitEnds`, `LineEnds`, `ShopCloses`). It rests on fairness and ENABLED, which the prover
does not handle. What can go wrong in them without anybody being slow is stated and
proved separately: `MembersKnowEachOther`, `NobodyForgotten`, `NeverWaitsInVain`, `OwnEndsOnly`,
`ServedBeforeStop` and `SemaphoresKept`.

## What the models leave out

* Text: nicknames and lines are taken to be non-empty and without `>` or spaces;
  a line of the chat is its author and number.
* Failures of `malloc`, `fork`, `pthread_create`, `msgget`, `bind`; the end of stdin.
* Races inside one statement (a `strcpy` another thread interrupts).
* Pids are not used twice within a chat.
* `sleep(1)` before a server ends: with `Patient` it is long enough for the
  handlers at work, not for one that sleeps as well. UDP loss is `SendsInVain`; a failing send of the server is `SendsFail`.
* `refresh_handler` of the chat client and with it `data_mutex`.
* How `parse` of the shell splits a line into words, and lines of more than 60
  characters, which are read in pieces; stdin of the shell as a file, whose
  position the children share.
* The layout of packets, and an echo client that ends by Ctrl-C without its `!exit`.
* An empty line, a missing argument or the end of stdin in the drivers shell, after
  which `strtok` gives NULL and the shell faults in `strcmp` or `atoi`; control characters
  in a line with an unknown pid.
* The string of a path and how it grows, what is drawn, files that are created while
  the panels run.

## Plan

In this order:

1. `ChatRoom`, an abstract room (members, lines, who has heard what) that `MqChat`
   implements; `ChatClient`, the drawing thread: table freed under it, and
   `data_find` of an author who left before. Then the step-by-step proof of that
   refinement from `KnowInv` and `GapInv`.
2. That in every state before the end of the chat somebody can take a step, as an
   invariant without ENABLED.
3. The pure functions of task1 to task3 as operators against definitions.
