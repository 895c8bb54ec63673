# TLA+ models of ws25-np

The repository is the course work of a networking lab: a Connect Four game that
two clients play over UDP, a matchmaking server that introduces them over TCP,
and a set of small TCP and UDP programs. This directory models the parts with
behaviour worth checking, checks the models with TLC, and proves the safety
properties of every part with TLAPS.

    tlc -workers 2 -config MCClientLossy.cfg MCClient     # a run (see "Runs")
    tlapm GameProofs.tla                                  # the proofs of a module

`PROJECT.json` lists the runs, which source lines each definition models, the
hazards of the code with the properties that cover them, a mutation of the model
for every property that the property detects, and the theorems.

## The system

All paths are under `src/`.

| component | code | state | operations | modelled in |
|---|---|---|---|---|
| board | `client/lib/4clib.c` | `field`, `next_row` | `init_4clib`, `valid_move`, `make_move`, `winner` | FourLib, Match |
| game client | `client/src/client.c` | `state`, `next_sequence`, `next_expected_sequence`, unacknowledged columns with a timer each, times of heartbeats | `on_stdin`, `transmit_column_message` (a timer's callback), `on_column_message`, `on_column_ack_message`, `send_heartbeat`, `on_heartbeat(_ack)_message` | Client, ClientDelivery, ClientGame, ClientHeartbeat |
| protocol | `client/src/protocol.c` | a receive buffer per connection | `send_message`, `handle_tcp_message`, `handle_udp_message`, dispatch | Framing; dispatch in Client, Server |
| event loop | `client/lib/cblib.c` | callback table, `read_fds`, `maxfd`; timer list | (de)register a descriptor, start and stop a timer, `handle_event` | FdTable, FdCalls, Registry, TimerList, TimerQueue, TimerOrder |
| server | `client/src/server.c` | two connection slots | accept, registration, pairing, close, heartbeat, error | Server, ServerPairing |
| discard, daytime | `Praktikum2,3/tcp_examples/tcp_{discard,daytime}_server.c` | `connection_fds`, `count_connections` | accept or refuse, receive, close | SelectServer, SelectServing |
| thread servers | `Praktikum2,3/tcp_examples/tcp_echo_server_thread.c`, `Praktikum3/tcp_examples/tcp_echo_server_thread_chargen.c` | a thread per connection with its descriptor, what it has to send, and for chargen `line_number` and `sent` | accept, create a thread, `handleThread`, receive, send, close | ThreadServer |
| tcp clients | `Praktikum2,3/tcp_examples/tcp_client.c`, `Praktikum3/tcp_examples/tcp_client_with_dns.c` | the open connections, whether stdin is open | connect to one or to all addresses, send what is typed to each, receive, shut down, drain | TcpClients, TcpSessions |
| wrappers | `Socket.c` | none | end the process on any error | exits in SelectServer, ThreadServer, TcpClients |
| others | `getaddresses.c`, `Praktikum1`, `socket_util.c`, build files | | | not modelled, see below |

**How they interact.** Client and server are single-threaded programs around
`handle_events` of `cblib.c`: it waits in `select()` for descriptors and for the
first timer, and calls callbacks. A callback of a socket is a function of
`protocol.c`, which receives, cuts out messages and calls the callback that
`client.c` or `server.c` registered for their type. Callbacks register and
deregister descriptors and start and stop timers while the loop is in the middle of
a round. A client registers with the server; when the server has two registered
clients it tells each the address of the other and who starts, and shuts both
connections down. The clients then play over UDP: every move is numbered,
acknowledged, and sent again by its own timer until it is acknowledged. Both keep a
board of their own, with the own discs as `PLAYER_1`, and both decide alone whether
somebody has won.

**What is hard.** The network between the game clients loses, duplicates and
reorders; a client that has won exits at once. Callbacks change the tables that the
loop is walking through, and descriptor numbers are used again. TCP delivers
messages in pieces. The timer list is linked by hand. The example servers serve
several clients from one loop or from threads in one process; `main()` goes on while
a new thread reads its argument; calls block, `send()` may take a part, a client with
several connections must not wait for one of them alone, and the wrappers end the
whole process when one connection fails.

**What makes it correct.** *Board*: `winner` sees each line and nothing else.
*Client*: moves arrive once, in order; the two play one alternating game and agree on
how it ends; a turn that was announced can be used. *Protocol*: messages come out of
the stream as they went in. *Event loop*: a registered descriptor is served, a
deregistered one is not; timers fire once, in order, not before their time and not
never. *Server*: slots, table and descriptors agree; pairs are mutual unless one of them
was reset; nobody waits for ever. *Examples*: everybody is served or told, nothing is lost, nobody waits for
each other, and no client ends the service of another.

## Modules

Names are those of the source where TLA+ allows it. An action is a callback, or a
step of a program between two calls that may block; the callbacks of one program are
atomic because nothing of the same program interrupts them. What clients and network
do meanwhile is modelled before or after a callback. The one place where this leaves
something out is a reset that arrives between two messages which one callback of the
matchmaking server sends to a client: the first is then sent and the second fails with
an error, where in the model both are sent, or the first fails with the error and the
second ends the server. Such a client is one of those that `PairsAreMutual` excepts.

**The game.** `FourLib` holds the functions of `4clib.c` on a board of any size; the
board is the record of `field` and `next_row`, and `winner` is written with the line
sets its four loop nests test. `Match` is the game two players should see: one board,
strict alternation, no move after a win. `Client` is two processes and the network:
`net[p]` is what is on the way to `p`, and constants say whether it may be lost,
duplicated or reordered. Actions are `OnStdin`, `TransmitColumnMessage` (the timer),
and one for each branch of `on_column_message` and `on_column_ack_message`. `sent`
and `accepted` are history variables. `ClientDelivery` states what holds for any
starters (`Channel` is the abstract reliable channel each direction implements),
`ClientGame` what holds when one of them starts, with the mapping to `Match`:
the client that has seen more moves holds the board. `ClientHeartbeat` adds the
heartbeats to both clients: `send_heartbeat`, its timer, and the two handlers, over the
same network. A heartbeat and its acknowledgement carry the same data and differ in
their type only.

**The event loop.** `FdTable` has the functions of the callback table as operators,
shared by `FdCalls` (any calls on it) and `Server`. `Registry` is its specification:
a partial map from descriptors to callbacks, with an order in which they are called.
`TimerList` has the timer structures with their `next` and `prev` and `handle_event`
with the arithmetic on seconds and microseconds; `TimerQueue` is the specification, a
queue of deadlines; `TimerOrder` maps one to the other.

**The protocol.** `Framing` sends messages with a length field over a stream that is
received in any pieces. A byte is a pair (message, place), so a message that is put
together wrongly shows. A header read from the wrong place has any length.

**The server.** `Server` walks the callback table as `handle_event` does: `select()`
fixes the ready set, then one entry after the other is called, and a `recv()` leaves
one or more messages to be handled one by one. Clients connect, send, leave and abort
in between. A reset that no call has reported yet (`failed`) makes the next `send()` or
`recv()` fail with an error that is only printed; a write to a connection that was reset
before that, or is shut down, is `SIGPIPE`, and the write through the null pointer
`SIGSEGV`; both are values of `pc`. What clients and network do to a connection is
modelled as long as the server has it open. `ServerPairing` holds its properties.

**The examples.** `SelectServer` is the loop of `tcp_discard_server.c` and, with
`daytime`, that of `tcp_daytime_server.c`, which differ in what follows `Accept`; a
failing wrapper is `pc = "exited"`. A descriptor stands for its client. `SelectServing`
has the properties.

`ThreadServer` and `TcpClients` are a session between one of the two client programs and
one of the four servers. A connection is named by its address, and so is the thread
that is created for it; the thread's own idea of its descriptor is `fd`, which is what
the hand-over from `main()` can get wrong. Bytes are counted, the kernel's buffers are
bounded in both directions, and a blocked `send()` is a step that is not enabled. The
client may be interrupted at any moment, also while it waits for the last bytes, an address may refuse, and a process that ends with bytes
unread resets the connection, on which a wrapper of the server exits. The two select
servers appear here by what a client sees of them, as `SelectServer` has their loop.
`TcpSessions` has the properties.

## Runs

| run | module, configuration | shows |
|---|---|---|
| board | MCMatch | all games on a 4x4 board with three in a row: `winner()` agrees with a geometric definition, discs stack, the winning line is the mover's |
| client_lossy | MCClient, MCClientLossy | loss, duplication and reordering: one turn, exactly once in order, equal boards, agreeing outcomes, refinement of `Match` |
| client_fifo | MCClient, MCClientFifoLossy | without reordering the client that is to move always has the turn, so none that was announced is taken away; moves get through loss |
| two_starters | MCTwoStarters | both started as starter: delivery does not depend on the game; the branches for a gap and for an invalid move are taken; heartbeats run beside it: an acknowledgement belongs to a heartbeat that was sent, and nobody answers an answer, so heartbeats end |
| late_ack | MCClient, MCClientReordering | **violation**: a reordered acknowledgement takes the turn away |
| fd_table | MCFdCalls | any sequence of (de)registrations: the table is consistent and implements `Registry` |
| server_three | MCServer | three clients that come, register, acknowledge, leave and abort, one of which acknowledges what it does not have and sends on: slots, table and descriptors agree, the loop never blocks, pairs are mutual unless one of the two was reset before it could be told, a client is registered once and has a peer only after that |
| server_patient | MCServer, MCServerPolite | four patient clients that may send something else first: each gets a peer, closed connections are given back |
| timers | MCTimerList | three timers: the list is sound, the timeout of `select()` legal, refinement of `TimerQueue`, and a started timer expires or is stopped although descriptors may be ready in every round |
| framing | MCFraming | any cutting, paddings of 0, 1 and 3 bytes, two connections over one buffer, the second of which may break off anywhere: a reliable channel of messages, each handled as soon as it is there, and never a byte behind the buffer |
| select_servers | MCSelectServer | both servers with three clients and two places: never blocks, refuses only when full, releases what is closed, and tells the time to everybody who waits |
| tcp_sessions | MCTcpSessions | each client program with each server, two addresses: every stream is exact and its own, client and server never block each other, a client that ends by itself ends no server, everything comes back, and both sides finish after the end of stdin or an interrupt |

### Bounds, and why they are enough

- *Boards* are 2x2 to 4x4 with lines of two or three. Every loop of `winner` has
  a first and a last start on 4x4, and games end by each player's win and by a full
  board. The theorems have no such bound.
- `QueueCap` is the capacity of a socket's queue and drops what does not fit, as the
  kernel does. `RetransmitCap` limits when a timer fires and when the network
  duplicates. With two or three datagrams an acknowledgement and a later column
  can pass each other, and a column can meet its duplicate, before and after its
  acceptance. `SeqModulus` stands for 2^32; the board fills long before.
- *Server*: two slots as in the code, three or four clients so that slots and numbers
  are used again, a callback table of four entries; `MaxOpen` bounds connections at a
  time, `MaxSent` the messages of a client. Clients are numbered in the order in which
  they connect. Impatient clients register when they like, again too, and leave or abort (`Aborting`)
  when they like, with two messages each. Client 2 is `Hasty`: it also sends
  `peer_select_ack` before it has a peer, so that a registration, or a second
  acknowledgement, is still in the buffer when `on_peer_select_ack` has closed the
  connection; it may leave but not abort. The others acknowledge only a peer they have.
  This keeps the run small; in the theorems any client may be hasty, abort, and send any
  number of messages of any kind.
  Patient clients send, before they register, one message of any other kind.
- *Timers*: three timers and a clock of six ticks at four ticks a second: carry,
  borrow, equal and overdue deadlines all occur. *Framing*: the width of the length
  field and the buffer are 16; one message fills the buffer.
- *Select servers*: two places for three clients, numbered in the order of their first
  connection, and three connections in all: a place is used again or a client is
  refused.
- *Heartbeats*: `MaxHeartbeats` bounds them over both clients. They are lost but not
  duplicated in the model: a second copy would be answered like the first.
- *Sessions*: two addresses, so that threads and connections can be mixed up;
  `BUFFER_SIZE` 2, so a receive can take a part and a send can be cut; `MaxTyped` 7,
  as many as all buffers between the user and his screen hold, so that every send
  that can block does; `MaxLines` 2, so a line is begun after a line.

In a session two messages must fit into the client's buffer, and a buffer into the
kernel in either direction (`BuffersFit`). With `MESSAGE_SIZE`
9216 and `BUFFER_SIZE` 65536 this holds for usual kernel buffers; TLC finds the mutual
blocking as soon as the way back is smaller than a buffer or, for
`tcp_client_with_dns.c`, which sends before it receives, a buffer holds less than two
messages. That is why the client's `read()` is given less than its buffer. A `recv()`
takes all that has arrived, up to its size, and `select()` finds a socket writable
when a whole line fits, as the kernel's low-water mark is longer than a line.

### Fairness

Every program gets weak fairness for its own steps: `handle_events`, the server loops
and the threads run for ever and are scheduled by the kernel. A retransmission timer
gets strong fairness, as `RetransmitCap` may disable it for a while in the model. The
network gets strong fairness for a move that is sent again and again
(`MoveIsDelivered`), the usual reading of a lossy network. Users and remote clients
are never forced to act, with three exceptions stated where they are used: the patient
clients of `server_patient`, whose waiting is the question; a client of the daytime
server reads what has arrived; and the user of `EverythingComesBack`, who types
no more at the bound. In a session the client, `main()` and each thread have weak
fairness of their own; neither typing, nor the end of stdin, nor an interrupt is ever
forced. A client handles the heartbeats that reach it (weak fairness); it need not
send any.

`CHECK_DEADLOCK FALSE` stands where a system really stops: a game that is over, clients
that have all left, a bounded clock or counter, a process that has exited. The run
of the descriptor table checks for deadlock.

## Proofs

Proved with TLAPS. For boards of any size, lines of any length, any network, and any
timing:

- `GameProofs`, for the board: `WinnerIsALine` (`WinnerSeesEveryLine`), `FieldAndRowsAgree`
  (`DiscsStack`) and `AWinIsTheMovers` (`WinIsTheMovers`), with the lemmas about boards
  that the clients rest on: a move keeps a board a board, and the two views of a board
  are mirror images under `make_move`, `valid_move` and `winner`.
- `GameProofs`, for any set of starters: `TypeCorrect`, `DeliveryInvariant`,
  `DeliveredExactlyOnceInOrder`, `ImplementsChannels` (each direction refines `Channel`),
  `HeartbeatsPaired`, and `HeartbeatsLeaveTheGameAlone`: the clients with heartbeats
  implement the clients without, so everything proved of these holds of them too.
- `GameProofs`, for one starter: `GameInvariant`, `NeverBothTurns`,
  `OnlyAcceptedMovesLeaveTheQueue`, `ExpectedMovesAreValid`, `SameBoard`,
  `SameOutcome`, and `ImplementsMatch` (the two clients refine `Match`).
- `GameProofs`, for one starter and a network that keeps the order, whatever it loses
  or duplicates: `ToMoveMeansTurn` (`ToMoveHasTurn`) and `TurnsAreKept` (`TurnKept`, the
  property that finding 1 violates on other networks).

For a callback table with any number of entries and any calls of its interface:

- `FdTableProofs`: the lemmas about the table that the next module and the server's
  share: what the searches find, and that every call keeps a sound table sound.
- `FdCallsProofs`: `TableIsConsistent` (`TableInv`) and `TableIsRegistry` (the table
  refines `Registry`).

For any number of timers, any timeouts, and seconds and milliseconds of any length:

- `TimerProofs`: `TimerListIsSound` (`ListIsSound`), `SelectGetsALegalTime`
  (`TimeoutIsLegal`) and `TimersAreAQueue` (the list refines `TimerQueue`).

For messages of any length that fits, in any number, cut in any way:

- `FramingProofs`: `BufferIsNotOverrun` (`TypeOK`), `NothingIsLeftBehind`
  (`ClosedAfterLast`) and `FramingImplementsChannel` (`IsChannel`).

For any number of clients, places and connections:

- `SelectServingProofs`: `NeverWaitsForOne` (`NeverBlocks`) and `NoPlaceIsLost`
  (`RefusedOnlyWhenFull`).
- `ServerPairingProofs`: `PairingIsMutual` (`PairsAreMutual`), `RegistrationIsOnce`
  (`RegisteredOnceThenPaired`), `SlotsAndTableAgree` (`SlotsMatchTable`) and
  `ServerNeverBlocks` (`NeverBlocks`), whatever the clients send, whenever they
  leave and whenever connections are reset, with a table of any size that has room for the listener and two connections.

For any addresses of a host, of which some may refuse, and kernel buffers, receive
buffers, messages and lines of any size:

- `SessionProofs`: `StreamsAreExact` (`StreamIsExact`) and `OnlyResetsEndTheServer`
  (`ServerSurvives`), and, where `BuffersFit` holds, `SendsNeverBlockEachOther`
  (`NoMutualBlock`), for each client program with each server.

*Assumptions.* The named assumptions of the modules only: sizes are natural numbers and
positive, the two clients differ, descriptors are numbers and 0 is one of them, the
matchmaking server can get a descriptor for each of its two slots, timers are finitely
many, a message fits into the buffer and its length into the length field, a host has
an address (`tcp_client_with_dns.c` returns otherwise), and `OneStarter`, which the
server's `PairsAreMutual` provides to two clients that were both told a peer. Two
hypotheses stand in theorems: `~Reordering` in those about an ordered network, and
`BuffersFit` in the one about sends.

*The argument for delivery.* Exactly-once is not inductive: it needs to be known of
everything in flight or queued that it carries a move that was made, under its own
number (`DeliveryInv`). Then accepting the expected number extends the accepted
sequence by exactly the next move sent.

*The argument for the game.* `GameInv` adds that the counters stay in one of four
positions (`OrderInv`), that a turn implies the position in which one may move
(`TurnInv`), that acknowledgements in flight are of accepted moves (`AckInv`), that the
boards are mirror images or one valid move apart (`BoardInv`), and that a client runs
exactly as long as its board has no line (`OutcomeInv`). `OrderInv` depends on
`TurnInv` and it on `AckInv`: without the last one, an acknowledgement could remove a
move that was not accepted. Each conjunct is preserved by one lemma per action; the
refinement then maps `OnStdin` to `Drop` and every other step to a stutter.

`GameInv` was checked with TLC before it was proved; the runs check its parts that a
reader would ask for, the theorem all of it.

*The argument for an ordered network.* `InOrderInv` says of the datagrams on the way to a
client that an acknowledgement of a move still in its queue comes before the column it
expects next. It holds because a client answers a column before it moves itself, and
because `OnColumnOld` answers nothing: acknowledging a repeated move again, which would
seem the natural repair of its endless repetition, breaks the invariant and with it
`ToMoveHasTurn` even without reordering (the mutant of that property).

*The argument for the board.* That `winner` finds lines only is one lemma
(`LinesAreRays`), that it finds each is the other (`RaysAreLines`): every line, read
from one of its ends, is an instance of one of the four loop nests. That the line is the
mover's rests on `OtherLinesStay`: a move changes one cell, and no line of the
opponent goes through it.

*The argument for the table.* `TableInv` leaves open that an entry in use has a
callback; `Sound` adds it, so that the map of `Registry` has the same keys as the table
has entries. Registration writes one entry (`Written`) and removal clears one
(`Cleared`); that the searches for the first entry and for the largest descriptor end
at something is a lemma each, from the well-foundedness of the natural numbers. A
free entry exists exactly when the map is not full (`RoomIsFreeEntry`), because the
entries in use are as many as the keys. Standard input has a removal of its own that
does not search for the new largest descriptor; `DeregisterStdinIsRemove` shows that it
need not.

*The argument for the timers.* The invariant `TimerInv` says that there is a sequence of
timers which the links spell out in both directions (`Holds`), sorted by stop time.
`Stamped` is needed beside it: `start_timer` tells a started timer from an idle one by
its fields, and a timer that is alone in the list has no links, so that its start time
must tell. The place that `start_timer` finds, the first one
that fits when the list is walked, is the place of the abstract queue, and unlinking in
the middle, at either end, or of the only node is `RemoveAt`. Carry and borrow of
microseconds are lemmas about `Value`; `LegalWait` keeps what was given to `select()`.

*The argument for the protocol.* `NothingLost`: what is in the buffer and on the wire,
together, are the messages not yet delivered, from the first byte of the next one on.
`LessThanOne`: after the loop of `handle_tcp_message` the buffer holds less than a
message, so there is room for the next `recv()` and a header is read from the right place.

*The argument for the sessions.* `SessionInv` follows a byte through all places it can
be in (`StreamOK`); that a thread works on its own connection is `fd[a] = a` in
`ThreadOK`, which the copy that `CreateThread` makes of `client_fd` provides. That the
server survives needs that a connection the client does not have is served by nobody
any more (`LinkOK`): the client leaves one only after its end, and the server ends one
only when it has done with it (`EndedIsClosed`). For the sends, `Budget` bounds what the
client may still send before it receives from the same connection; `RoomInv` says that
whenever a thread may block, the way up still has room for the budget. A `recv()` of the
thread restores it, as it takes a whole buffer, which is two messages, or everything; a
`recv()` of the client ends the danger, as it makes room for all the thread holds.

*The argument for the select servers.* A client that is marked stays readable until its
slot is reached (`MarkedIsReadable`): clients can add to what there is to read but
take nothing away, a slot that is filled in this round holds a client that is not
marked, and each client has one slot (`OncePerClient`), so a receive at one slot
empties no other. `count_connections` is the number of held connections
(`CountIsRight`).

*The argument for the pairs.* That pairs are mutual is about what clients were told, and
the server decides by its slots; the invariant `PInv` joins the two. `SlotsAreSockets`:
each open descriptor has one slot, and a registered slot has the name of the client
behind it. `SlotsMatchHistories`: the client of a slot that is not registered was told
nothing that matters, and one that is registered and not yet paired has no peer, and its
acknowledgement unless it was reset. `NewAreFresh`: a client that waits for `accept()` was told
nothing, so a slot starts afresh however often it was used. `Sane` (one acknowledgement,
one peer, in this order, and a peer that is told anyone is told this client and the other
part) holds after every single message. `Answered`, that the peers clients are told are
told one too, does not hold between the two messages of an introduction: if the process
dies there it stays so, which is why the property asks for it of a living server only,
and if the client that is told first was reset, that `send()` fails and the other
is told all the same, which is why it excepts those in `broken`. `IntroductionKeeps` takes
the two attempts together: whichever fails, the peer that was not told is one that was reset.

*The argument for the server's loop.* `Story` joins the table to the slots and the
descriptors: it is sound in the sense above, what it holds is the listener and the open
descriptors, an entry and the slot it is called with name each other, and entry 0 is the
listener's. A free slot means a free entry (`FreeEntry`), so that `register_fd_callback`
never gives up silently. `Serving` says of the entries the walk has still to reach that
their descriptors are ready. It needs `Story`: `close_connection` frees the entry
together with the descriptor, so that the walk skips it, and what one callback receives
is another client's for no later entry. It also needs that the listener comes first:
`on_acceptable` reuses a number only when that number is not in the ready set of the
round, because no callback before it can have closed one.

**Only model-checked:** all liveness, which is out of the prover's reach, as is `ENABLED`:
`MoveIsDelivered`, `HeartbeatsAnswered`, `StartedTimerEnds`, `EveryMessageHandled`,
`EverythingComesBack`, `SessionEnds`, and what the patient clients and the clients of the
select servers get in the end.

## Findings

1. `late_ack`: `on_column_ack_message` sets `state = WAIT` (`client/src/client.c:164`)
   for any acknowledgement of a queued move. If it arrives after the peer's answer,
   the client has just printed `Your turn:` and loses the turn; nobody can move.
   Needs reordering: `TurnsAreKept` proves that it cannot happen over an ordered network,
   whatever that loses or duplicates.

Not findings of a run, but steps of the models or plain in the code: a third connection
finds no slot, and `on_acceptable` writes through the null pointer
(`client/src/server.c:163`, `OnAcceptableNoSlot`); after it has shut a paired
connection down the server still answers heartbeats and unknown messages on it, which
raises `SIGPIPE` (`client/src/server.c:151`, `send_message` in `Server`); an introduction
goes on when one of its two messages cannot be sent, so that a client is told a peer that
was reset and knows nothing of it (`client/src/server.c:79`, the exception in
`PairsAreMutual`); a repeated
column that was accepted is not acknowledged again (`OnColumnOld`), so after the loss of
an acknowledgement its sender repeats it until the process ends; the winner exits after
one transmission of its last move, so the loser hears of it only when that datagram
arrives; the bytes of a half message stay in the buffer of a slot and are read with
those of the slot's next connection (`PeerBreaksOff` leaves this out); a daytime client
that closes before it has read ends the server (`RecvFails` and `Send` in
`SelectServer`); the warning for a silent peer compares a difference that is never positive, in
seconds, with milliseconds (`client/src/client.c:117`); the threads of the chargen
server handle errors of `Recv` and `Send` that the wrappers never return, so that one
client that is interrupted with lines unread ends the service of all (`WrapperExits`);
one address of a host that refuses ends `tcp_client_with_dns.c`, although the others
were connected (`ConnectFails`).

## Plan

Done, in this order: board and game, delivery and game properties, their proofs; the
event loop's table and the server; timers; framing; the select servers; sessions of
the tcp clients with all four servers; heartbeats; the proofs about the table, the
select servers and the matchmaking server; those about the board, an ordered network,
the protocol, the timers and the sessions.

Next:

1. `Backoff`: the period of the retransmission timer, an unsigned number that doubles
   without limit (`client/src/client.c:55`), over `TimerQueue`; composition of `Client`
   with it in place of a timer that fires at any time.
2. The start of the game client: from the message of the server to the two
   clients of `Client`, so that `OneStarter` is a step of a composition.

## Not modelled

- `socket_util.c`: calls in a row, with no state beyond the descriptor.
- `getaddresses.c` and the programs of `Praktikum1`: straight-line input and output.
- Layout and byte order of messages, names, passwords and texts. A client is known by
  itself in place of its address.
- The tests of a message's length field in `handle_incoming_message`: the programs send
  messages of the right length.
- What the code does not survive, or gives no promise about, is a step of a model or is
  excluded by a named assumption, and no property claims otherwise: a third connection,
  a message behind a shutdown, a half message before a connection is reset, a message
  longer than the buffer, a thread of chargen that is writable for ever. `PROJECT.json`
  lists each with its line and a note.
- Failure of `malloc`, `pthread_create`, `accept` and `select` for lack of resources.
- In the game client, the growth of the retransmission interval, the warning for a
  silent peer, and a line of input that repeats after the end of stdin; in chargen, the
  characters of a line and the overflow of `line_number`.
