# A verification project for JAsioServer

JAsioServer is a chat server on boost asio: an io thread receives packets into
buffers, and a logic thread wakes twelve times a second, reads what was stored
and executes it. It can record the packets it executes and play a recording
back. These TLA+ modules model its concurrent core and the replay, TLC checks
them on small instances, and TLAPS proves the send path, the receive path, the server,
movement and views with the client that shows them, the recorder, the tick loop,
the replay and the thread pool for every value of their constants.

## The system

Threads: the **io thread** (`io_context::run`, one thread, so handlers do not
overlap: `handle_accept`, `handle_read`, `handle_write`), the **logic thread**
(`ServerLogicThread`: `PreUpdateCommanders`, `ProcessPacket`,
`UpdateCommanders`, `UpdateView`, in this order, for ever), the **main thread**
(reads `end` from the console, detaches the others and leaves), and, with
`-ReplaySave`, the **replay save worker**.

| component | state | operations | hard part | correct when |
|---|---|---|---|---|
| send path (`JSession`) | `m_sendDataQueue`, pending writes | `PostSend` and destruction (logic), `handle_write` (io) | the write loop is handed over between two threads; one unlocked read; the session is destroyed under a handler | one write at a time, a buffer that lives as long as the session under it, nothing stranded, the client gets what was sent, in order |
| receive path (`JSession`) | `m_packetRecvBuffer`, `m_packetRecvProcessBuffer`, marks, a spin flag | `handle_read` (io), `ProcessPacket` (logic) | a mark read before the flag is held; buffers of different sizes; packets cut anywhere | every byte is processed once, in order |
| server and commanders (`JServer`, `JSocketServer`, `JCommander`) | `m_preCommanders`, `m_commanders`, `m_readyDieCommanders`, `m_isLogout`, `m_isDisconnected` | accept, the tick, the packet handlers | joins and reads between any two steps of a tick; removal while iterating; lifetime of sessions under raw pointers | a commander is in one list, joins, is served and is destroyed |
| replay recording (`JReplaySaveWorker`, `...Mgr`) | packet list, condition variable, file | `Push` (logic), `Run` (worker), `End` (main) | shutdown races, lost wakeup, the text format | every packet executed is on file |
| replay playback (`JReplayReader`, `JReplaySession`, `JReplayServer`) | lists by session, priority queue | load, create sessions at their tick, feed packets | order within a tick, sessions that are never disconnected | the replay executes what was recorded |
| movement and views (`JCharacter`, `JPlayerChar`, `JCommander::UpdateViews`) | position, destination, `m_views` | `ReqMove`, `Update`, `Move`, `UpdateViews` | first tick's elapsed time; commanders come and go between ticks | every tick brings a mover nearer, never past its destination; sight is mutual |
| tick loop (`JChatServer`, `JTickClass`) | clock, `delta` | `Update` | unsigned differences of a clock that may go back | twelve ticks a second, as long as the clock is not set back |
| thread pool (unused by the server) | job queue, stop flag | `EnqueueJob`, workers, destructor | lost wake-ups, at destruction above all | every job runs once and in order, the destructor returns |
| logger | file, last place logged from | `Log`, `Error` | shared by all threads | decides nothing |
| test client (`JClientBot`) | socket, one receive buffer, `Position`, `ViewList` | `Send`, `Close`, `SendData`, `ReceiveData` | one packet per receive, whatever it brought; several receives into one buffer; exceptions in a callback | it shows where its character and those in sight are |

Interactions: `handle_accept` puts a commander into `m_preCommanders` and starts
its session's reads; the tick moves it to `m_commanders` and calls
`JSession::ProcessPacket`, which calls back into `JCommander::ProcessPacket`;
packet handlers broadcast with `PostSend` on every session; `handle_read` tells
the logic thread of a lost client by `m_isDisconnected`, and `LOGOUT` by
`m_isLogout`; `UpdateCommanders` drops the last reference to a commander, which
destroys its session on the logic thread while the io thread may have handlers
bound to it.

## Modules

| module | models | state and actions |
|---|---|---|
| `OrderedStream` | what the send path, the recorder and the thread pool promise | `accepted`, `delivered`, `broken`; `Accept`, `Deliver`, `Break` |
| `JSessionSend` | `PostSend`, `handle_write`, the failing `handle_read`, `LOGOUT` and the destruction of the session | the queue, where each thread is, writes under way, completions not yet handled, what became of the session and the packets its destructor dropped; one action per stretch of code between two points where the other thread can get in |
| `JSessionSendProofs` | theorems about `JSessionSend` | |
| `JSessionRecv`, `MCJSessionRecv` | `handle_read`, `ResizeBuffer`, `ProcessPacket` | both buffers byte by byte, both marks, the flag; `handle_read` in three steps (mark, flag, store), `ProcessPacket` in a step under the flag and a step per packet |
| `JSessionRecvProofs` | theorems about `JSessionRecv` | |
| `JServer`, `MCJServer` | accept, the tick, packet handlers, destruction | the three lists, the position in the tick, per session what is on the net and what was read, the memory block it lives in; one action per handler, per step of a tick and per packet |
| `JServerProofs` | theorems about `JServer` | |
| `JReplaySave` | `RunThread` and `End` (main), `Push` (logic) and `Run` (worker) of the replay save worker and its manager | the list of records, the part the worker has taken, the file, where each thread is, whether the waiting worker was notified; one action per critical section and per record written |
| `JReplaySaveProofs` | theorems about `JReplaySave` | |
| `JTickLoop` | the loop of `ServerLogicThread` and its clock | last time read, time owed, ticks; one action for reading the clock, for the start and the end of a tick, and for the sleep |
| `JReplayPlay` | `JReplayReader`, `JReplaySession`, `JReplayServer`, on `JTickLoop` | a recording, the reader's lists, the commanders with their priority queues, what was executed at which tick and which answers it got; one action for loading, for each step of a tick, for each session made, each record and each commander removed |
| `JReplayPlayProofs` | theorems about `JTickLoop` and `JReplayPlay` | |
| `JThreadPool` | constructor, `WorkerThread`, both `EnqueueJob`, destructor | the queue, the stop flag, where each thread is; one action per critical section and per notification |
| `JThreadPoolProofs` | theorems about `JThreadPool` | |
| `JWorld` | `JCharacter`, `JPlayerChar`, `UpdateViews`, `JTickClass` | commanders with their characters, the position in the tick, the distance of this tick, the packets on their way to one client, the observer; one action per step of the tick and per packet |
| `JClientBot`, `MCJClientBot` | the observer's client on top of `JWorld` | outstanding receives and callbacks, what the last receive brought, what is shown; one action per receive and per callback |
| `JClientBotProofs` | theorems about `JWorld` and `JClientBot` | |
| `SequenceFacts` | lemmas for the proofs: sequences, least and greatest numbers, functions defined step by step | |

`JSessionSend`, `JReplaySave` and `JThreadPool` are shown to implement
`OrderedStream`: the first maps sent packets to `accepted`, what the client got to
`delivered` and a failed or torn write, or the end of the session, to `broken`;
the second maps pushed records, the file, and the end of the worker thread or
object; the third jobs pushed, jobs started, and an exception that ends the
program.

Data is abstracted to what the properties tell apart. In `JSessionSend` a packet
is a value. In `JSessionRecv` a byte is its number in the client's stream, so a
buffer's contents show loss, repetition and disorder at once. In `JServer` a
packet is its command; the byte buffers are a queue there, which is what
`JSessionRecv` shows them to be as long as the mark does not race
(`FaithfulUnlessRaced`) - the server's properties therefore do not cover what
happens after that race. `std::deque`'s growth, asio's write and read
completions and the memory allocator are external: modelled from how the code
uses them. The server in `JServer` keeps a log of the chat lines put into each
send queue; `JSessionSend` says how they reach the client.

Freed memory: `JSession` binds its handlers to a raw `this`, and destroying a
session cancels its read; the handler runs later. `JServer` gives each session a memory
block. The aborted handler marks whichever session lives in that block by then
(`handle_read_Aborted`): the code does mark a connected session as disconnected in
this way, and `SpuriousNeedsReuse` says that reused memory is the only way it can
happen. A read that had completed before it could be cancelled brings its packets
along: a session that waits for its client in that block gets them
(`handle_read_Reused`), with no session there they are copied to deleted buffers,
and a session that has its client has had `m_receiveBuffer` cleared, so that what is
copied is no packet; the last two end the model (`handle_read_Freed`,
`crashed = "freed session"`).

`JSessionSend` destroys the session in the two steps of the code. The body of
`~JSession` pops the queue, without the mutex and while the socket is still open
(`UpdateCommanders_Destroy`; `dropped` is what it found): from there on a write
under way sends freed bytes (`TransferFreed`, `fate = "stale"`). Then the members
go and the socket closes (`JSession_Freed`). A handler that runs from the first of
these steps on uses a mutex and a queue that are going or gone
(`handle_write_Freed`, `fate = "touched"`). So `WriteBufferOwned` is claimed while
the session lives, no longer, and `DrainedIsSafeToDestroy` says that either misuse
takes a session that still had packets queued, or a `handle_write` in its critical
section at that moment. The comment at `JCommander_Packet.cpp:69-71`, that a
commander can be destroyed at once after `LOGOUT`, holds of drained sessions only.

`JSessionRecv` does not bound the size of a packet from above: one whose part is
longer than `RECV_BUF_SIZE` aborts the server at the end of a tick
(`ProcessPacket_RestAborts`), whole it may pass. That a packet counts at least its
own header is assumed of the stream (`Packet`): with a size of 0 the parsing loop
never ends. A session is removed when it is disconnected or has logged out, with
whatever it has not processed.

`JWorld` has the logic thread alone, with its commanders logged in when they join
(`LateLoginIsServed` is about the others), on a line of whole numbers: what
`sqrt`, `Normalize` and the rounding of floats do is left out, and a tick's
elapsed time is a distance, among them one that reaches everywhere (`Far`: the
first tick, or a clock set back). A commander may log in again and gets a new name and
a new character at the origin (`OnPacket_LOGIN_Again`); the observer's client never
does. `m_views` is a set there: the vector is filled in
the order of `m_commanders`, which is accept order (`AcceptOrder`), so the n-th in
sight is found by counting (`Nth`).

`JClientBot` adds the client of one commander, with the number of `BeginReceive`s
under way. A receive brings what there is of the stream, and may end inside a
packet (`Receive_Cut`): the pieces are `Part`s, and what the client makes of one can be
any packet (`Garbage`). The client processes one packet per receive, so what
arrives with it is dropped. A receive that completes before the callback of another
has read the buffer leaves a mixture there (`Into`, `torn`). `ViewList` is bound
to the window, so the callback's `Add` or `Remove` takes effect and throws: the rest
of that packet is not shown, the catch of `ReceiveData` reports it, and this chain
of receives has ended (`threw`; the next `Send` starts another). The history `lost`
says of which kinds the last packet was dropped, cut, mixed, or not processed to its end,
and the properties about what is shown hold for the kinds it does not name. A VIEW
that brings a new name is therefore never shown completely; a later one with the same
names is, if a receive is left to bring it.

`JReplaySave` has its own freed memory: `JReplaySaveWorkerMgr::End` deletes the
worker while its thread runs, and nobody joins the thread (`~JReplaySaveWorker`
is not even called, `IReplaySaverWorker` has no virtual destructor, and its test
of `m_workerThread` is inverted). The first step of a thread in the freed object
ends the model (`process = "crashed"`), unless the process has ended before.

`JReplayPlay` starts from every recording a server can make (`IsRecording`: ticks
do not decrease, commanders in accept order, nothing after the tick of a `LOGOUT`,
nothing more in a tick after an unknown command, which is recorded as well) and
names a record by its place in it. The recorded server had not died
(`LoggedInFirst`): who moved had logged in, and who was served beyond the tick it
joined had done so in that tick. It may have logged in twice, chatted before its
`LOGIN` in that tick, or left in it without a `LOGIN`.

`DeSerialize` is the text format: a separator
in a packet's bytes gives a fourth field and so no record, a line end cuts it and
leaves a line that is none. The priority queue keeps no order among records of a
tick, so any of them may be on top. The reader collects records in the order of the
recording: a session's list is therefore given by the set of its records, and its
first record is the least of them. `PreUpdateCommanders_Create` makes one session of
the loop in `PreUpdateCommanders`, `UpdateCommanders_Remove` removes one commander of
the loop in `UpdateCommanders`: nothing runs beside the logic thread of a replay, so
the cut is only for the reader and the prover. A list in memory is played by the unit test,
which calls the server's tick with a counter of its own and compares the answers
the sessions keep (`m_sendQue`). Of these the model keeps the ones to a `LOGIN` and the chat
lines. The `PKS_SC_MOVE` of each step of a character is left out: the test gives
every tick the same elapsed time, so the steps are settled by the `LOGIN` and `MOVE`s the
character goes by and their ticks, and `SameHeading` says that these are the same.
`SameAnswers` compares with what the recorded server sent while it served a session;
when a client vanished is not in the recording, so it is said for every tick it may
have been (`LastTickOf`), and nothing is said of the chat lines such a commander
goes on hearing in the replay, where nobody ever disconnects. The file is played by
`-ReplayServer`, on the loop of `JTickLoop`. That loop keeps its debt in nanoseconds; the code divides by
`nsPerTick`, which is computed in `float` and is 83333336, and keeps the quotient
in a `double`, whose rounding is left out. The clock may show any time when it
is read, an earlier one too: then the unsigned difference wraps, about `Wrap` too
much is added to `delta`, and that many ticks run which no time paid for - in the code
2^64 ns, some 2e11 ticks. `KeepsPace` is claimed as long as this has not happened
(`wraps = 0`).

`JThreadPool` lets a job end, enqueue jobs, or throw (which ends the program). The
stop flag is a plain `bool`, set and notified without the mutex: a worker between
its test of the predicate and its sleep misses it (`missed`).

`JSessionSend` models the unlocked `front()` of `handle_write` as torn when it
overlaps a `push` that makes the deque replace its map; the build's deque
(eight pointers initially, then doubled) is the constant `InitialMapSize`.

## Runs

| run | instance | shows |
|---|---|---|
| `send` | 2 packets, 5 sends, map of 3 | one write at a time, its buffer owned while the session lives, never stalled, a drained session is safe to destroy, no write after a failure, a lost peer ends the session, refinement of `OrderedStream` with its liveness, and that the proofs' invariant `SendInv` holds |
| `recv` | `RECV_BUF_SIZE` 3, header 2; every sequence of one or two packets out of a `LOGOUT` of 2 bytes, a chat line of 3 and unknown commands of 3 and of 5, and a flood of 13 bytes | copies in bounds while the buffer grows and is taken in parts, no byte lost, packets processed once and in order unless the mark raced or a command was unknown, an abort needs more than a process buffer of unprocessed data or a packet longer than `RECV_BUF_SIZE`, every arrived packet is processed in the end or the session is removed |
| `recv_race` (violated) | as `recv` | `handle_read` stores an out-of-date mark and packets are executed again or misread |
| `recv_backlog` (violated) | as `recv` | `memcpy_s` aborts the server, though all packets are short |
| `server_sessions` | 3 sessions, 3 blocks, 1 `MOVE` | one place per commander, accept order, lists stable under the loops, characters present in `UpdateView`, spurious disconnections only by reused memory |
| `server_chat` | 2 sessions, 2 chat lines | same conversation for everybody, the accepted is served, the leaver is destroyed |
| `server_late_login` (violated) | 2 sessions | a tick before `LOGIN` dereferences the null `m_char` |
| `replay_save` | 5 records | no lost wake-up, the file is an `OrderedStream` of the records with its liveness |
| `thread_pool` | 3 workers, 5 jobs | no lost wake-up, the destructor returns unless a notification was missed and leaves no job behind, jobs are an `OrderedStream` with its liveness |
| `replay_list` | every recording of up to 4 records (2 from a file), 3 ticks, 3 sessions; ticks of 2 ns, a clock of 8 values | all of it is replayed once and in its tick, in order but for ties, with the `LOGIN` acks and chat lines the server sent, and characters that head where they did; a replay that dies had a tie of `LOGIN` and `MOVE` or a session that neither logged in nor out; the loop under it keeps pace |
| `client_bot` | 3 commanders, 3 places, 1 `MOVE` or second `LOGIN`, 2 slots in a view packet, 1 receive that cuts a packet | sight is mutual, every tick brings a mover nearer, the client shows what the last packet said if it processed that one whole, its buffer is overwritten only after a second send |
| `replay_file` (violated) | 2 records of 1 session | read from the file, nothing is replayed: `operator==` makes the reader skip the valid records |

The four violated properties are sentences of the repository's README, comments
and tests; `PROJECT.json` quotes them under `findings`.

### Bounds

`MaxSend` 5 with a map of 3: the queue gets longer than the map, so it grows
while `handle_write` is at every step, and a failure can hit any of the writes.
`RecvBufSize` 3 keeps the code's ratios (receive buffer twice, process buffer
four times): with a flood of 13 bytes the receive buffer grows twice and the
process buffer of 12 overflows; a header of two bytes lets reads end inside
headers as well as bodies; two packets of any kinds put a known one before and
after an unknown one or a `LOGOUT`; one of 5 bytes is longer than `RECV_BUF_SIZE`. Three sessions are what it takes for a block to be freed and
reused while a third one is being accepted; two suffice for broadcasts.
`MaxSession`, `MaxSay`, `MaxPackets` and `MaxSend` are the only bounds there; at
them the clients stop, the server does not. Five records (`MaxPush`) let the
worker take several at once while more are pushed, and sleep in between. Three
workers and five jobs (`MaxJob`) are what it takes for one worker to be notified
while another takes the job, the third sleeps, and jobs enqueue jobs while the
pool is being destroyed. Four records over three ticks and three sessions give
ties within a session, sessions that share a tick, sessions that start later, a
tick without records, a `LOGOUT` with records of others after it, a tie of
`LOGIN` and `MOVE`, a second `LOGIN`, and a session without any; a clock of eight values and ticks of two of them (`Wrap`,
`NsPerTick`) let the loop be on time, late by several ticks and set back.
In `client_bot` three commanders are
what it takes to have two in sight, with one name or one of them called `None`;
three places with steps of one give journeys of two ticks and characters out of
sight (`viewDist` is 1 there); the client may be a tick behind (`MaxNet` 5, a tick
waits for room for the four packets it can send). One receive cuts a packet
(`MaxCut`), and what is read of a part is a `MOVE`, a `VIEW` or nothing (`Garbage`).
`MaxMove` 1 is spent on a `MOVE` or on a second `LOGIN`, so a character that moved and
is then made anew is covered by the proofs, not by the run.

### Deadlock and fairness

The runs say `CHECK_DEADLOCK FALSE` where the modelled system ends: a session is
removed or destroyed, the pool is destroyed, the last tick is over, the program ended or
died (`exited`, `crashed`, `garbled`, `torn`, `terminated`), or the client has stopped receiving
for good, so that the tick finds no room on `net`.

Fairness is weak, but in one place. The logic thread's loop is endless and the spin flags and the
mutex are held for a bounded piece of straight code; the io thread runs each
handler that is ready (`io_context` is a queue), and finishes it. So each
thread's actions are weakly fair, per session for reads. A spinning
`handle_accept` gets the flag because the logic thread holds it within one step.
Nothing is assumed of clients, of the network's failures or of reads arriving.
In `JSessionSend` the destruction of a session that is logged out or disconnected
is strongly fair: `UpdateCommanders` looks at it in every tick (and what it began, `JSession_Freed`
ends), and what disables
it now and then is a `PostSend` of the same thread on the way, which ends within
the tick. In `JSessionRecv` the logic thread's `try` can find the flag taken any number of
times, but not for ever: the io thread leaves the flag, and new bytes are
bounded by what the client sends. In `JReplaySave` the worker thread is fair (the
mutex is held for a short stretch by either side) and a `Push` that has begun
finishes; nobody has to push or to type `end`, and spurious wake-ups may happen or
not. In `JThreadPool` every thread goes on and every job ends; nobody has to enqueue
one or to destroy the pool, and no sleeper has to wake up by itself. `JReplayPlay`,
`JTickLoop`, `JWorld` and `JClientBot` have no fairness; their properties are
safety (`NearerEveryTick` says how far each tick gets, so that ticks end in arrival).

## Proofs

Assumptions are the named `ASSUME`s of the modules, and nothing else: sizes and
bounds are natural numbers, a header fits a read, workers are a finite set
without the owner, the packets of a client's stream count at least their header and
follow each other without a gap (`ScriptAssumption`), and what the client may read of a
part of a packet is some packet (`CutAssumption`).

**Send path.** `JSessionSendProofs` proves, for every set `Packet` and every
`MaxSend` and `InitialMapSize`, the invariants of `send`, the action property
`NoWriteAfterFailure`, and that every step of `JSessionSend` is a step of
`OrderedStream` or a stutter (`StreamCorrect`).

None of the invariants is inductive alone. `SendInv` is: it adds that the two
threads are not both inside the mutex, that the queue is the tail of what was
sent and the wire the head of it (together they are all of it), that whoever
drives the write loop - a pending write, a completion, or a thread on its way
between the lock and the write - is one, and that it holds the queue's front. With it, "nobody drives" and
"queue not empty" exclude each other, which is `NeverStalled`, and a second
driver would contradict uniqueness, which is `OneWriteAtATime`. From `~JSession` on the
queue is empty and `dropped` holds what it had (`OnlyDestroyDrops`), which takes the
queue's place in the other parts: what drives then had a packet there, which is
`DrainedIsSafeToDestroy`. The proof goes conjunct by
conjunct (`TypeStep`, `MutualExclusionStep`, ...), with one step per action
under each, and `SendInvStep` puts them together.

**Receive path.** `JSessionRecvProofs` proves, for every `RecvBufSize`, every
`HeaderSize` that fits it and every stream, the invariants of `recv`. The
inductive invariant is `RecvInv`, in four parts proved one after the other.
`MarksFit`: both marks fit their buffers, and the mark `handle_read` is about to
store - stale or not - is at least what it writes and at most one read beyond
the buffer, so that doubling once makes room; this is why the buffers are in
bounds even when the mark is raced (`BoundsCorrect`). `GrownIsFull`: without the
race the buffer doubles a second time only when more waits than a process
buffer holds, and what is left of a packet fits its temporary unless that packet is
longer than `RECV_BUF_SIZE` (`AbortCorrect`). `BytesInPlace`: the bytes the logic thread kept, those
that wait and those that arrive are, by position, the numbers from `Consumed + 1`
to `received`; each action's part follows from what its copies leave in the
buffers (`StoreShape`, `TakenFacts`, `ShiftFacts`, `RestFacts`), and `NoByteLost` is
its statement about the sequences. From it the next byte is the first of the
stream's next packet (`NextInStream`), which gives `FaithfulUnlessRaced`.

**Server.** `JServerProofs` proves, for any number of sessions and of chat lines
and every set of memory blocks, the invariants and the action property of
`server_sessions` and `server_chat`. `OnePlace` and `AcceptOrder` speak of the
lists only, but what keeps them true is spread over the whole state; the
inductive invariant `ServerInv` adds to the types
- `Ids`: ids are given in order, only the newest session waits for a client, and
  `handle_accept` is busy with that one - so what it pushes is newer than all in
  the lists;
- `Fresh`: what a session without a client cannot have;
- `Lists`: the two lists of the served are increasing, one before the other, the
  dead are in neither, and together they are the sessions with a client but for
  the one `handle_accept` still holds;
- `Loops`: where a tick is in the lists, that the dead are logged out, and that
  there are none outside of `UpdateCommanders`;
- `Characters`: whom `UpdateCommanders` has passed and kept has a character;
- `Blocks`: a session is never made in a block of one that lives, which with
  `SpuriousNeedsReuse` itself bounds what late handlers reach, packets of an older
  client in a new session included;
- `Conversation`: nobody in `m_preCommanders` has heard anything, nobody more
  than was said; with `SameConversation` it is kept by every broadcast.

From them also follows that the loop in `UpdateCommanders` that waits for
`use_count()` to become 1 waits for nobody (`ReapingGoesOnCorrect`).

**Movement, views and client.** `JClientBotProofs` proves, for any number of
commanders, any length of the line, names, distances and slots of a view
packet, the invariants and the action property of `client_bot`. `BotInv` adds to
the types
- `Joined` and `Motion`: who is not served sees nobody; who does not move is where
  it was asked to go; within a tick the distance is positive (`NearerEveryTick`
  needs no more);
- `Sight`: in `UpdateView` the views before `index` are those of this tick, and
  nobody sees one who is gone (with the symmetry of `Gap`, `SightIsMutual`);
- `Counted`: sends, receives and callbacks under way are no more than packets sent (an
  exception ends one), and the buffer holds a mixture once two callbacks wait
  (`TornNeedsTwoSends`);
- `PositionComes` and `ViewComes`: of the packets on their way, in the client's
  buffer and on the net, the last `MOVE` brings the present position and the last
  `VIEW` the present views; if there is none, the client shows them already, or
  has not processed the last one whole (`lost`). A part counts as any packet it may be
  a part of. `ViewComes` is claimed from the tick that `UpdateView` ended
  until somebody moves (`Settled`).

That a `VIEW` processed to its end leaves the client with exactly the names and positions in
sight is a statement about the loop over its slots (`ViewShown`); it is
proved by induction over the slots, and so needs every name to be shown at its
last slot, whatever the names are.

**Recorder.** `JReplaySaveProofs` proves, for every `MaxPush`, that the worker
never sleeps on a record it will not be notified of (`NoLostWakeup`) and that the
recorder implements `OrderedStream` (`RecorderCorrect`). The inductive
invariant is `SaveInv`: the records on file, those the worker has taken and those
it has not are, end to end, the numbers `1..pushed` (`NoRecordLost`), and the worker
has taken none except while it writes (`TakenIsWritten`), which is why taking may
overwrite its list and why a sleeping worker has nothing left. `SequenceFacts`
holds the facts about sequences both proofs use.

**Thread pool.** `JThreadPoolProofs` proves, for every finite set of workers and
every `MaxJob`, that no wake-up is lost (`NoLostWakeup`), that the destructor leaves
no job behind (`DrainsCorrect`) and the refinement of `OrderedStream`
(`PoolStreamCorrect`). `PoolInv` adds to the types that a worker about to block holds
the mutex alone, with the queue empty (`BlockHoldsMutex`), that while one sleeps
there are as many awake workers and pending notifications as queued jobs
(`NoIdleSleeper`), that the started and the queued jobs are
the numbers `1..pushed` (`NoJobLost`) within the bound (`WithinBound`), and that
workers leave only once the pool stops, the last of them with the queue empty
(`LastOneDrains`).

**Tick loop and replay.** `JReplayPlayProofs` proves for every length of a tick and
every width of the clock, that the loop keeps pace, however late it wakes and as
long as the clock is not found set back (`LoopKeepsPace`): `Balanced` says that ticks run and
time owed are what was added to `delta`, the time that passed and `Wrap` for every set-back. `JReplayPlay` implements that loop (`LoopCorrect`), so a replay from a file
keeps pace as well (`KeepsPaceCorrect`).

The replay itself is proved for every recording a server can make, of any length,
number of sessions and ticks. `RecordingFacts` shows that what `Init` chooses from
is what `IsRecording` says; of `IsRecording` the proofs need that who moved, or has
a record of a later tick, had logged in (`LoginOfMove`, `LoginByThen`), that no record is
later than its session's `LOGOUT` (`NoneAfterLogout`), and that session ids come in order
(`SessionsInOrder`). The
properties say what was executed and sent; that it is right depends on who is
served when, so `ReplayInv` adds to the types
- `Lists`: a list is whole until the tick of its first record, and gone after
  `PreUpdateCommanders` of that tick - none is missed;
- `Commanders`: they are in the order of ids, whoever joins later has a higher
  one, and those missing logged out in an earlier tick (`WhoIsServed`: a tick
  serves exactly those the recorded server served, hence `SameAnswers`);
- `Packets` and `Progress`: a queue holds what its session has not executed; of
  earlier ticks everything is executed, of this one what belongs to commanders
  before `index` (`InTickServed`, `NothingLeft`), hence `ListIsReplayed`;
- `History` and `Answered`: what was executed is in the order of ticks, and in a
  tick of sessions, hence `OrderUpToTies` and `SameHeading`; what was sent are its answers;
- `CrashHasCause` itself, which is inductive with the others.

The type invariants of these modules, `SaveInv` and `PoolInv` are proved and not
repeated in the runs (but for `SendInv` and `JSessionRecv`'s `TypeOK`).

Induction over data is available in one form: `SequenceFacts` proves that a set
of natural numbers has a least one, and from it induction over a set
(`Induction`) and that a function defined by recursion in a `LET` takes its steps
(`Recursion`). Lemmas that take an operator remain out of reach.

Only model-checked: the liveness properties (`PeerLossEndsSession`,
`ArrivedIsProcessed`, `AcceptedIsServed`, `LeaverIsDestroyed`, `DestructorReturns`, the
liveness of `StreamSpec`, `RecorderSpec` and `PoolSpec`), which need fairness and
`ENABLED`, out of the prover's reach, and the four properties the runs show
violated.

## Not modelled

- The logger: it decides nothing. Its callers share the place logged last
  without a lock (`JLogger.cpp:17`), which is listed as a hazard; `JLoggerThread`
  is not instantiated anywhere.
- The floating-point vectors (`Vector3`, `JSharedFunc`) and the rounding of times.
- The client's selection of whose views to show, several clients writing to the
  one list (`MainWindow.xaml.cs:129`), and chat lines on their way to its display.
- The contents of packets beyond what is told apart above.
- The replay worker of the unit test, a list without a thread, and that it
  records a packet without its last byte (`JReplaySaveWorkerForTest.cpp:22`).
- The failure of memory allocation; the command line; program exit, at which
  `main` detaches the threads and returns, except in `JReplaySave`.
- The build files, the user interface of the test client and the tests, which
  were read for what they expect.

## Plan

Done, in this order: the send path with its abstract specification and proofs,
the receive path, the server, replay recording with proofs, replay playback,
movement and views with the client that shows them; the destruction of a
session under its writes, the thread pool with proofs, the tick loop with
proofs, the answers of a replay, the proofs of the receive path, of the server,
of movement, views and client, and of the replay with its loop. Left:

1. `JLoggerThread`'s queue swap, if it is taken up.

New runs are to be merged into the present ones where they ask the same question
(`recv_race`, `recv_backlog`, `replay_file` and the violated run of the server have
configurations of their own because they check one property each).
