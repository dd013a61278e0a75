# RDMA event test and connection test: specification, model checking, proofs

The repository holds two sibling programs over InfiniBand verbs. Both start the same
binary on every machine; `ip_config.json` says which machines are *controllers* and
which are *invokers*. The processes exchange queue pair information over TCP, and then:

- `event_test`: the controller writes one word after another into invoker 0's buffer with
  RDMA writes that carry an immediate, and the invoker sleeps on a completion channel and
  handles each completion;
- `conn_test`: the controller reads invoker 0's buffer with one RDMA read a second, and
  the invoker writes one message into it.

`conn_test` is an earlier copy of `event_test`; `sock.cpp`, `main.cpp`, the set-up and the
clean-up are the same code but for formatting and the completion channel. A model of
shared code names `event_test` and stands for both. File names without a directory
below are in `src/event_test`.

## Inventory

| Component | State | Operations | Interacts with | What makes it correct |
|---|---|---|---|---|
| Immediate and slot layout (`utils.cpp`, `config.hpp`) | none | `encode_imm`, `decode_imm`, two address formulas, region size | used by both ends of the stream | packing invertible, slots disjoint and inside the region, formulas agree |
| Write stream, controller (`Controller::rdma_write_while`) | index, local buffer, send queue | copy, post, poll once, sleep 1 ms | adapter only; nothing comes back from the invoker | indexes stay in range, no post refused, the buffer is not changed under the adapter |
| Write stream, invoker (`Invoker::ev_check_write`) | receive queue, completion queue, channel, batch, buffer | wait for event, re-arm, drain, print, flush, repost | adapter | no lost wakeup, receives conserved, each message handled once in order with its own word; a failure of the queue pair is noticed |
| Socket transfer (`sock_write`, `sock_read`) | byte counters | loop over partial calls | TCP, signals, the other process's end | the structure arrives whole, or the caller learns it did not |
| Exchange with the controller (`setup_controller`, `setup_invoker`) | tables of keys, queue pair states | connect, accept, write, read, three `ibv_modify_qp` | TCP between every controller and invoker | queue pairs paired, nobody hangs |
| Invoker mesh (`setup_invoker`, `sock_bind_and_accept_multiple`) | sockets by number, tables, sleeps | sleep, connect, accept in order of arrival, write, read | TCP between every two invokers | connections filed under the right number, tables agree, nobody hangs or is refused |
| Read loop (`conn_test` `rdma_read_while`, `Invoker::run`) | local buffer, reads in flight | post, compare, print, flush, poll, sleep | adapter | no read shown twice, no post refused, the message is seen |
| Adapter resources (`setup_ib`, `clean_*`) | objects held | take in order, give back in order | verbs library | what can be reached is alive, no destroy refused, nothing kept |
| Identity (`main.cpp`, `config.cpp`) | role, peers, number | probe interfaces, filter lists | the machine, the JSON file | number, peers and queue pair count fit each other |
| Score and hash codec (`utils.cpp`) | none | `encode_warm_score`, `decode_score_*`, `djb2_hash` | nobody calls it | scores come back at their own invoker, the hash is the djb2 remainder |
| Polling invoker (`check_write`; commented out in `Invoker::run`) | as the event thread, without the channel | poll, print, flush, repost | adapter | as the event thread |
| Process (`main`) | role, peers, number, resources | ask, set up, ask, run, clean up | all of the above | the queue pairs made are those the number and the peers call for |
| `export_mem`, `test_skeleton`, `rdma_read_once`, `rdma_read_cache` | | not called | | not modelled |

The behaviours that are hard: the two ends of the stream are joined by nothing but the
adapter, so pacing is by sleep alone; the event thread must arm, drain and block in the
right order; the set-up blocks in `accept` and `read` on both sides and is ordered, among
invokers, by sleeps; short and interrupted socket calls; processes that end half-way,
whose end the reader takes for data; an asynchronous read whose buffer is used before it
lands; a link that breaks with acknowledgements lost, which the controller never looks
at; and the seconds of the mesh in which the controller writes and nobody receives.

## Modules

`A <- B` reads: B extends A.

- `ImmCodec` <- `EventStream` (refines `Mailbox`) <- `EventPacing`, `EventLife`
- `InvokerMesh` <- `EventStart`
- `Identity` <- `Process`, which holds an instance of `IbResources`
- `ImmCodec` <- `ScoreCodec`; `MCImmCodec`, `ScoreCodec` <- `MCCodec`
- `SockIO`, `ContExchange` and `ReadLoop` stand alone
- proofs: `ImmCodecProofs` <- `MCCodecProofs` (of `MCCodec`), `EventStreamProofs` (of
  `EventStream`, `EventPacing` and `EventLife`); `SockProofs`; `ReadLoopProofs`;
  `ExchangeProofs`; `MeshProofs` (of `InvokerMesh` and `EventStart`); `ProcessProofs` (of
  `Identity`, `IbResources` and `Process`)

- **ImmCodec**: the packing with C's integer arithmetic, the wire order as four octets, the
  controller's and the invoker's address formulas, and the sizes of `config.hpp`. Its
  assumptions are `NUM_BUF_SLOT <= PADDING`, that the product in `encode_imm` does not
  overflow an `int`, and that one invoker's slots fit in 65536 bytes. **MCImmCodec** uses
  one pair after another so that two of them can be compared.
- **Mailbox**: the abstract promise. Indexes are posted; each is reported once, in order.
- **EventStream**: the whole stream. Controller steps are `CopyBegin`/`CopyEnd` (the
  `strcpy` is not atomic), `PostWrite`/`PostFails`, `PollSend`, `SleepOver`; invoker steps
  are `FillRecv`, `GetEvent`, `Rearm`, `Drain`, `ReadSlot`, `FlushSlot`, `Repost`, one for
  each call or loop body whose interleaving matters. `Deliver`, `Acknowledge` and
  `Teardown` are the adapters, external: in-order reliable delivery that waits for a
  receive (`rnr_retry` 7 is for ever), data read at the time of sending, one event for an
  armed queue. `SleepOver` waits for nothing: a write may reach the invoker, and an event be
  handled, any number of writes later.
- **EventPacing**: `EventStream` with two history variables that restrict nothing.
  `overlapped` names the writes that may suffer from the missing handshake: those whose word
  was sent after the next `strcpy` began, those overwritten in their slot before they were
  read, and those that arrived in a slot between its reading and its flush. `lag` is the most
  writes that were unacknowledged when a sleep ended.
- **EventLife**: `EventStream` from the moment the invoker has answered the controller. Each
  side brings its queue pair up on its own (`ContReady`, `InvReady`); a queue pair that is
  not ready drops what arrives. `LinkBreaks` and `LinkHeals`, `InvokerFault`,
  `ControllerEnds` and `InvokerEnds` are the failures, `MaxFailures` bounds them. In the
  error state a queue pair flushes its requests (`FlushSends`, `FillFlushed`,
  `RepostFlushed`); completions in error stand behind the good ones (`cqErr`, `wcErr`), and
  the thread stops at the first (`WcFailed`). The responder of a reliable connection does
  not notice a broken link or the requester's end, so only `InvokerFault` flushes its
  receives; the requester notices when its retries are over (`RetryExceeded`), but nobody
  reads the status. `consumer` chooses between `ev_check_write` and `check_write`.
- **EventStart**: `InvokerMesh` with the controller that is through with its set-up and
  writes: `unsent` counts the writes that wait for a receive of invoker 0.
- **SockIO**: one structure over a TCP connection, by bytes. Both loops use `buf` where they
  advance `buffer`, and `nr` in `sock_read` is unsigned modulo `SIZE_MOD`, so that -1 is a
  count (`ReadMinusOne`). The writer's end closes the connection in order or resets it,
  which may cost the tail of what is on its way; the reader's end makes writes fail.
- **ContExchange**: any number of controllers and invokers, with backlog, connections,
  the three states of `modify_qp_to_rts`, ends of processes, and reads that take an
  end-of-file for data. A structure is abstracted to its sender and the queue pair index.
- **InvokerMesh**: keeps time, in units of 10 ms in the runs: the sleeps of the connection
  phase and those before every write of the exchange. Calls take no time; `Elapse` moves to
  the end of the next sleep when nobody can go on, so what happens at one instant happens
  in any order. `GAPS` says how far apart the controller finishes with one invoker and the
  next; that it finishes in the order of numbers is how `setup_controller` visits them.
  `Ends` kills an invoker at any moment, `MaxEnds` times.
- **ReadLoop**: a read lands at any step after its post, any number of turns later. After
  `LinkBreaks` reads end in error and leave the buffer alone. History: what the last read
  brought (`fetched`), whether a line has shown it (`shown`), whether it landed between a line
  and the `strcpy` after it (`gap`), and the most reads in flight when a sleep ended (`lag`).
- **IbResources**: the two orders of calls, and what the library counts as in use.
- **Identity**: which name answers first, what `get_self_ip` makes of it, and the three
  questions of `main`. `get_peers` is the loop of `get_invoker_ip` as a recursive function,
  one value per turn, so that what it returns can be proved.
- **Process**: `main` itself: role and peers are asked first, `setup_ib` makes the
  resources for that many peers, then an invoker asks for its number, which may end the
  process; the clean-up comes when the thread returns.
- **ScoreCodec**: texts as sequences of digits, `boost::format` and `stoi` as conversions
  between numbers and digits, a warm score as a whole number of `PARTS`; the loops over
  digits and characters are recursive functions, so that they can be proved about. The sum of
  the hash wraps modulo `ULONG_SIZE` before the remainder is taken, since a `char` may be
  negative; the assumption is that the number of entries divides it. **MCCodec** puts scores
  into a table laid out as `config.hpp` says (`table` holds its bytes) and reads them back,
  and hashes names with characters at the ends of a signed `char`.

Definitions whose comment begins with `Variant` are the same code with one mistake; the
manifest says which property each of them breaks. They are not part of any specification.

## Runs

| Run | Bounds | Shows |
|---|---|---|
| codec | sizes of `config.hpp`, 4 invokers, all pairs of pairs; all warm scores below 100 in 32nds; names of up to 4 characters, an `unsigned long` of 24 bits | round trip, disjointness, region, addresses, scores, hash |
| stream | 2 slots, 2 receives, send queue 3, 4 writes (two laps), no timing | types, no lost wakeup, conservation, own word but for overlapping writes, no post refused for a lesser lag, refinement of `Mailbox`, every write reported |
| event_life | both consumers, 2 slots, 2 receives, send queue 2, 3 writes, 1 failure, any number of healings | receives answered for, refinement of `Mailbox` under failures, failure noticed, no write forgotten |
| sock_split | 4 bytes, room for 3, one interrupted call on each side, a reset, both ends | the count tells a loss; both calls return unless a read was interrupted |
| sock_intact | 3 bytes | disagreement 1 |
| exchange | 2 controllers, 2 invokers, any start, up to two processes end | pairing, knowledge of the controller accepted, nobody waits for somebody who waits, everybody settles or was turned away |
| exchange_second | 2 controllers, 1 invoker, nobody ends | disagreement 2 |
| mesh | 4 invokers, gaps up to 0.8 s, one killed at any moment, the controller writing | order, no refusal but by the dead, tables agree, bounded window, completion |
| window_three | 3 invokers, the queue of 2048, no gaps, nobody killed | disagreement 3 |
| read_loop | send queue 4, polls of 2, reads landing anywhere, a broken connection | no read shown twice, none refused for a lesser lag, the message seen but where it lands between line and `strcpy` |
| process | every duplicate-free configuration of up to 4 machines, 6 interfaces, both programs, every call failing | identity, queue pairs for exactly the peers, clean-up order |
| identity_probe | the same, without resources | disagreement 4 |

Why the bounds are enough: the stream's queues wrap, fill and run empty within them (the
full send queue, an empty receive queue and batches of one and two all occur), and what
they leave open the proofs close. In the stream a write may be late by all there are, so every
overlap occurs: of a write with the next copy, and of two writes in a slot. In the hash 24 bits
stand for 64: no sum of a remainder and a `char` reaches either, and one below zero wraps in
both to the same remainder. Four invokers are the fewest for which the gaps matter to
the order of arrival; the gaps go up to 800 ms, below the 900 ms edge. One kill is
enough there: the property speaks of who comes out, and one death already leaves a server
waiting. In the exchange two controllers are the fewest that compete for an invoker's one
accept, and two ends of processes are one on each side of a connection. In the life of the
stream one failure meets every state of the stream; healing is free, so a link that breaks
and comes back before, during and after the retries occurs. The scores cover every fraction
a float of that size ends with in five binary places; what is cut off is never rounded.

Deadlock is not checked where a run must stop: the endless loops stop at their bounds (stream
and its life, with the invoker then waiting for ever) and the set-ups, transfers and life
cycles end. The read loop ends where a post is refused.

Fairness. The threads are never stopped by the code and the system schedules them: weak
fairness of each thread. The connection retries without limit on a missing receive and for
seconds on a lost packet: weak fairness of delivery and acknowledgement, in `FairLife` also
of the retries running out and of the flush of a queue pair in the error state. Signals,
faults, ends of processes, breaks and refusals are never fair, and a broken link need not
heal. In the mesh time goes on; in `FairStart` also for the controller.

## Where the code and what it says disagree

1. `sock_intact`: a transfer in two pieces returns the full length and another structure
   (`sock.cpp:121`, `143`).
2. `exchange_second`: "exchange QP info with controllers" (`invoker.cpp:248`) runs once for
   every controller, but reads every turn from the one connection accepted
   (`invoker.cpp:246-250`). What an invoker stores for the second controller is what an
   end-of-file left in an uninitialised structure, and the controller it did not accept waits
   in `read` for ever. `AcceptedKnown` speaks of the accepted one, and of nobody's information
   standing at two queue pairs; `EverybodySettles` leaves out the one `TurnedAway`. The shipped
   `ip_config.json` lists one controller.
3. `window_three`: the controller writes as soon as its own set-up is over, one write a
   millisecond, and the first receive is posted after the mesh. With two invokers the
   2048 places of the send queue last (`WritesOutlastMesh` holds); with three they do not,
   and the controller stops with "write failure" (`controller.cpp:137`). `WindowBounded`
   says how long the window can be, and `WritesOutlastMeshHolds` that a queue with room for
   the writes of such a window is enough as long as nobody is killed and the starts are close
   enough together.
4. `identity_probe`: `fail_cnt == 3` with six names (`config.cpp:76`).

More were met while modelling and have no run of their own. The models contain the
behaviour, so each can be looked at with the constants named:

- an interrupted `read` is not made again: `nr` is a `size_t`, so `nr < 0` is false and
  `sock_read` asks for one byte more than there is (`sock.cpp:139-144`; `ReadInterrupted`
  in `SockIO`, which is why `BothReturn` leaves an interrupted read out);
- an invoker that ends during the mesh leaves the servers it has not connected to in
  `accept` for ever (`sock.cpp:74`), and those that read from it with garbage they take for
  keys (`invoker.cpp:377`; `AllDone` and `TablesAgree` say "unless one ends");
- the controller looks at no completion's status (`controller.cpp:140-144`): after the link
  broke for longer than the retries it writes on into a queue pair in the error state, and
  the invoker waits for ever. `EveryWriteSettled` counts such a write as settled by the
  completion nobody reads;
- the sleeps of the mesh keep the order of arrival only up to a gap: with four invokers and
  a gap of 900 ms, which one lost SYN in the controller's `connect` would make, connections
  are filed under the wrong numbers (`sock.cpp:82`; `PeerOrder` with `GAPS = {0, 90}`);
- `sleep_for(1 ms)` is all that keeps a write apart from the next (`controller.cpp:146`). A
  write that waits for a receive is tried again after some 5 ms (`min_rnr_timer` 0x12,
  `ib.cpp:57`), so it sends a word copied later, or half of one; at start-up, while all
  writes wait for the first receive, their words are copied over before they are sent.
  `overlapped` in `EventPacing` is not empty then, and `OwnWord` says that only those writes
  suffer;
- `[read]` shows the local buffer, and the completion is polled afterwards, so the first
  line may be the controller's own initial buffer (`conn_test/controller.cpp:76-91`; `Show`
  in `ReadLoop`);
- a read that lands between the line and the `strcpy` (`conn_test/controller.cpp:86-87`) is
  overwritten and never shown (`gap` in `ReadLoop`, which `MessageSeen` leaves out;
  `LoopGoesOnHolds` shows that the `strcpy` costs no other read, so what is lost elsewhere is
  lost to a later read); a program that waited for the completion
  before the line would lose none;
- the read loop ends when it reads `END_MSG` (`conn_test/controller.cpp:81`), which nobody
  writes: `LoopGoesOnHolds` takes that as its assumption and shows that the loop never ends
  of itself, with a broken connection too, but only where a post is refused.

The completion channel of the event test is never destroyed; `AllGivenBack` says so.

## Proofs

All theorems hold for every value of the constants the assumptions admit.

A liveness property cannot be proved here, but its safety half can: *whoever waits waits for
somebody who can go on*, and, where the code ends, *every step goes ahead and there are at
most so many*. What is then left to TLC is the step from there through fairness. "Can go on"
is written out as a predicate on the state, because `ENABLED` is out of reach as well; that
each predicate is `ENABLED` of its action was checked with TLC on the bounds of the runs.

**Codec** (`ImmCodecProofs`, `MCCodecProofs`). From uniqueness of quotient and remainder:
the four octets give the value back, the pair is decoded as encoded, slots of different
pairs are disjoint (by the order of the invoker ids, then of the indexes), the last slot
ends within the table because an entry has more bytes than there are invokers and the
table has 65536 entries.

**Codec, scores and hash** (`MCCodecProofs`). For the hash: after `k` characters the
remainder kept, weighted by the characters to come, is congruent to the first `k` terms of
the whole sum; the wrap of an `unsigned long` leaves the remainder as it is
(`WrapKeepsRemainder`), because the number of entries divides its range. For the scores: the
digits of a number of up to five digits give it back, a text of two numbers comes apart at
its joint, a text ends at its first NUL, and the bytes of one invoker's texts are not those
of another's. Inductions are by the least counterexample, because the library's induction
theorems cannot be instantiated here.

**Stream, types and queues** (`EventStreamProofs`). `TypeInv` strengthens `TypeOK` with what
the handler relies on (a non-empty batch while one is in hand, counters in order).
`NoLostWakeup` is not inductive; `Arming` is: *a non-empty queue that is not armed has an
event waiting or is about to be drained*. `ReceivesConserved` follows from a count that
includes the loop's progress. `WritesNeverRefused` needs no assumption on timing: its
invariant (`Pacing`) bounds what is posted and not reaped, at every point of the loop, by
`lag`, so that a full queue means a lag of `MAX_SEND_WR - 1`.

**Stream, order** (there too). `InOrder` lays the writes posted end to end over what
is printed, in hand, completed and on the wire. From it the refinement: `ReadSlot`
reports the next index posted, `PostWrite` posts, every other step stutters. With `Arming`
and `Receives` (the receives are filled before the thread first blocks) it gives
`StreamGoesOn`: the thread and the connection never wait for each other, the one for an
event and the other for a receive.

**Stream, words** (there too), for any timing. A write that is in time (`InTime`) finds its
own word in the local buffer (`Source`); a word delivered stays in its slot until it is read
unless another write to the slot arrives first, which puts it in `overlapped`, or the flush
of an earlier message of the slot is still to come, which puts it there too (`Text`).
`LapApartHolds` says that two writes that share a slot are at least `NUM_BUF_SLOT` apart,
because the indexes rotate: a message less than a lap old can only suffer in the source
buffer.

**Stream, life** (there too). The lemmas on single steps ask only for the shapes of the data
(`Shapes`) and for `Batch`, so they serve `EventLife` as well. `LifeInv` keeps `Batch` until
the invoker exits; with it `ReceivesAnswered` is inductive, whatever breaks. For
`ImplementsMailbox` the order of what arrived (`Received`) is kept until the invoker exits,
and the order of what is on its way (`Sends`) until the controller's queue pair is in the
error state; after that nothing of it can arrive any more. `LifeGoesOn` is the safety half of
`FailureNoticed`, `DeliveredIsReported` and `EveryWriteSettled`: `LifeArming` is `Arming`
with the completions in error, `Stages` says what has happened by the state of the two queue
pairs, and `AsleepFacts` draws from both what holds when the thread sleeps: it has no
completion to be told of, good or in error, and its receives are in the queue. `SettledStays`
says that what is settled is never taken back, so that somebody who goes on goes somewhere.

**Exchange** (`ExchangeProofs`), for any number of controllers, invokers and ends of
processes. `TypeInv` adds to `TypeOK` that queue pairs come up in turn (`QpsInTurn`) and
that whoever reads has a connection (`HasConnection`). `Paired` is not inductive; `IInv`
says where every structure is: at most one is on its way in each direction of a
connection, it is the sender's own (`OneEachWay`), and what either side has stored or
brought up follows from what the other has sent (`ControllerSide`, `InvokerSide`).
`NobodyHangs` needs more (`WaitInv`): whoever has connected is accepted or queued, and
nobody else (`Visits`); what a controller waits for is on its way in one direction, or the
invoker is about to write it, or has ended (`Asked`); and a controller is through when it has
visited everybody (`Through`). `ExchangeEnds`: no
step takes anybody back, and a controller makes at most `6 * NumInvokers + 1` steps, an
invoker `5 * NumControllers + 3`. So only the fairness step to `EverybodySettles` is left
to TLC.

**Mesh** (`MeshProofs`), for any number of invokers, any sleep and any kills. `TypeInv` says
where an invoker is by its counters (`Position`) and which places of its tables are taken
(`Filled`). The rest is the timetable: the sleeps make the moment at which invoker `y`
comes to server `k` depend on the starts alone (`Meets`), and `KeepsTime` says that the
invokers keep it (`Punctual`), that whoever is at a server came at its time (`Guests`) and
that a server all have come to does not stay (`Complete`). It is inductive because `Elapse`
never goes past a sleep that ends. `NoneRefused` follows for any gaps.
`PeerOrder` and `TablesAgree` need `CloseGaps`: the gaps from invoker 2 to the last come to
less than three sleeps (900 ms). With three invokers that is always so, with four it is the
edge named above: at 900 ms two arrivals can change places. Under it the invokers come to
every server in the order of their numbers (`InTurn`), so each is filed under its own and
the queue pairs agree (`Tables`). That the last arrival completes a server is a pigeonhole
argument (`AllCame`).

**Mesh, its end** (there too). `Provided` says that whoever has connected to a server is
among those who came to it (`EveryGuest`), that what was sent and not read is on its way
(`Delivered`), and that nobody is out while nobody was killed (`NobodyOut`). From it, under
`CloseGaps`, `NobodyStuck`: of the invokers in `accept` the one with the least number has had
all its guests, and of those in the exchange the one with the least turn has been written to,
so somebody can go on or sleeps. `MeshEnds`: no step takes an invoker or time back, and an
invoker makes at most `6 * total_invoker_num - 1` steps. `WindowBounded` adds to the end of
the connection phase the sleeps before the writes: the invokers write one after another, and
`KeepsPace` says how late the one in turn can be at each write; with it only fairness is left
for `AllDone`. `WritesOutlastMesh`, which three invokers break, holds where the send queue
has room for the writes of the longest window (`WritesInWindow`) and nobody is killed: the
writes that wait are counted from the moment the controller was done (`Waiting`). With the
code's sizes that is 1820 of 2048 for two invokers and 3660 for three.

**Process** (`ProcessProofs`), for any configuration, any number of machines and interfaces
and any failure. The two orders of calls are computed place by place (`SetupPlaces`,
`CleanPlaces`); `Resources` says that what is held is what the calls made so far have taken
less what they have given back, and `FreeToGo` that the next resource given back is used by
nothing still held. From it `ReachableIsLive`, `NoneStillInUse` and `AllGivenBack`. `Known`
says what the answers so far tell about the machine; `PeersValue` shows that the loop of
`get_peers` leaves out exactly one place, from which `PeersFollowNumbers` and, with
`Resources`, `OneQpEach`.

**Transfer** (`SockProofs`). `SockInv` keeps two accounts: `tot_read` is `LEN - len` modulo
`SIZE_MOD` whatever a call returned (`Counters`), and the bytes brought and on their way are
the bytes written until a reset loses some (`Balance`). A read that fails leaves `len` one
larger than what is still to come, so the length is never reached again: that is
`CountTellsLoss`. The assumption is that `size_t` is larger than the structure and the
failures counted. `NobodyWaitsInVain`: a writer in its loop can go on or the reader can,
and a reader none of whose reads was interrupted can go on or the writer can. It follows from
`Balance` and from what is left to do (`Left`): one that is in its loop has something left,
and a write fails only where nobody reads.
`TransferEnds`: every step goes ahead, and there are at most `2 * LEN + 6` of them and one
for each interrupt. That is the safety half of `BothReturn`.

**Read loop** (`ReadLoopProofs`), with reads landing anywhere. `Room` bounds the places taken
in the send queue at every point of the loop by `lag`; a poll that finds anything gives back
as much as the turn took. `ShownOnce` follows from `Overwritten`: a read that was shown is
out of the buffer as soon as it is overwritten, and the invoker's memory never holds the
overwriting text. `LoopGoesOnHolds`: the loop ends only where a post is refused, and a read
that came stays in the buffer until a line has shown it unless it landed between the line and
the `strcpy` (`Kept`, `LostInGap`): the safety half of `MessageSeen`, for every depth and lag.

The type invariants of these two modules (`SockIO!TypeOK`, `ReadLoop!TypeOK`) are proved
and in no run.

The definitions `NobodyStuck`, `NobodyWaitsInVain`, `StreamGoesOn`, `LifeGoesOn`'s three
parts, `LoopGoesOn`, `LostInGap` and the bounds on steps are in the modules of the proofs and
in no run: the liveness properties of the runs say the same and more.

**Only model-checked**: liveness (`EveryWriteReported`, `FailureNoticed`,
`EveryWriteSettled`, `DeliveredIsReported`, `BothReturn`, `EverybodySettles`, `AllDone`,
`MessageSeen`), which is out of the prover's reach but for the safety halves above. Every
other property of the passing runs is a theorem.

## Not modelled, and why

- The fields of `struct qp_info` and their byte order, formatting, printing.
- Uncalled code: `rdma_read_once` and `rdma_read_cache` (they poll into a null pointer),
  `test_skeleton`, `get_random_int`, `split_str`. `export_mem` is the invoker of `ReadLoop`.
- An interface that comes up between two of the three probes of the address
  (`config.cpp:58`): nothing in the code says what should happen.
- A TCP connection that stalls without a reset: `read` then waits as it does for a slow
  peer, which is in the models.
- A second copy of the models for `conn_test`: `sock.cpp` and `main.cpp` are the same to
  the byte, and the rest differs in formats and in what is modelled in `ReadLoop` and
  `IbResources`. The half of the source that is such copies is named by no definition.
- Scripts and build files.

## Plan

1. Done: codec, stream, sockets, exchange, mesh, read loop, resources, identity; proofs of
   codec and stream.
2. Done: failures in the stream and the second consumer (`EventLife`), kills in the mesh and
   the controller that writes meanwhile (`EventStart`), two controllers in the exchange,
   the life of a process (`Process`), scores and hash (`ScoreCodec`), resets in the
   transfer, a broken connection in the read loop; proofs of transfer and read loop.
3. Done: proofs of the exchange, the mesh with the controller that writes meanwhile, the
   life of the stream, and the life of a process with its resources.
4. Done: that whoever waits waits for somebody who can go on, in the exchange, the mesh, the
   transfer, the stream, its life and the read loop; that exchange, mesh and transfer end;
   the scores and the hash; what the send queue must hold to outlast the mesh.
5. Left: the step from these to the liveness properties through fairness, which needs a
   prover for `ENABLED`; and the gap between `NobodyStuck`, which asks for `CloseGaps`, and
   `AllDone`, which the run finds within them.
