# A specification of raiezau

raiezau is a peer-to-peer file sharing system: a tracker that knows which peer
has which file, and clients that ask the tracker for peers and exchange pieces.
The repository holds two trackers that speak the same line protocol
(`src/tracker` in C, one thread per request, and `src/tracker_cpp` in C++, one
event loop), the containers of the C tracker (`src/cutil`) and a Java client
(`src/client_java`).

This directory models the two trackers and the Java client: TLA+ modules, TLC
configurations that check them on small instances, and TLAPS proofs. `PROJECT.json` lists the
components, the runs, the hazards of the code with the properties that cover
them, the source lines behind every definition and the theorems.

    tlasany M.tla                           parse
    tlc -workers 2 -config X.cfg MCM        model-check
    tlapm M.tla                             check proofs

## 1. Inventory

### C tracker

| part | state | operations | correct when |
|---|---|---|---|
| network thread (`network.c`) | `fds[]`, `clients[]`, `nfds`, the buffer size; its position | `poll`, accept, scan of the slots, start of a handler thread, compaction; an empty SIGUSR1 handler | poll never sees a hole, a connected client keeps its slot, the arrays are never overrun, hangups are reaped, data gets a handler, a finished client is heard again |
| clients (`client.c`) | the table by remote `ip:port`; per client a socket, `ref_count`, `can_rehear`, the listening address and two file lists | get-or-create, `client_inc_ref`, `client_dec_ref`, delete | one thread per client, freed exactly when the last reference goes |
| request thread (`handle_request`) | the client, the text read so far | read a line, dispatch, answer, `can_rehear`, dereference, `pthread_kill` | as above |
| request handlers (`protocol.c`) | none of their own | announce, update, getfile, look | after "ok" the client is found under every file it listed |
| files (`file.c`) | files by hash and by name; the clients of a file, by listening address | get-or-create, add and remove a client | a file's clients are its seeders and leechers, and are alive |
| containers (`cutil`) | `hash_table` on the macros of uthash, under a rwlock; `list`, a chain with a cached cursor, under a mutex; strings, stack | add, find, remove, iterate, expand; get, insert, remove | the cursor is never seen, the table is an ordered one whatever its buckets do |
| start-up (`main.c`, `config.c`, `yaml2.c`) | a table of options; the parser's stack and its two variables | options of the command line, the events of a YAML file, the daemon, the prompt's thread, the listener | the right value wins, a file never crashes the start |
| prompt (`prompt.c`) | its position in a command, the locks it holds | `client list`, `file list`, `ls`, `peers NAME`, Ctrl-C | looking at the tracker neither stops it nor follows freed memory |

The network thread and the handlers share the client objects, without a lock,
and the tables, each with a lock of its own that is held for one call. The
signal is the only message from a handler to the network thread. The hard
behaviours are the races on the counter and on the client table, the signal that
arrives outside `poll`, a peer that comes back before its old client is gone,
several hangups in one pass, two handlers that register the same hash or the
same name, and a prompt that reads the tables while they change and is torn out
of a call by Ctrl-C.

### C++ tracker

| part | state | operations | correct when |
|---|---|---|---|
| `EventManager` | events by descriptor, the event count, the delete set | `epoll_wait` batches, registration, one-shot rearming, deferred deletion | an event reaches the object it was reported for, the count is the number of events, nothing is leaked or used after its deletion |
| `ServerSocket`, `p2pListener` | | accept until EAGAIN, one `Peer` each | |
| `ClientSocket`, `SocketWriter` | two buffers, `_armed`, a duplicated descriptor | edge-triggered reading, writing, rearming, destruction | every line is read, no answer is forgotten, a hangup frees the Peer |
| `Peer` | announced, port, consecutive errors | the four requests, read keyword by keyword | an error leaves nothing wrong behind, too many of them close the connection |
| `FileMgr`, `FileMap`, `File` | the set of files, the map by hash, `File::_peers` | find or make a file, add a peer | who told of a hash is found under it, with its port |
| `CircularBuffer` | `_capacity`, `_size`, `_r`, `_w`, the bytes | write, resize, read, readUntil, haveLine, writeToFd | a queue of bytes |
| `Criterion` | the predicates of an operator | the filters of look | a file passes when it meets the criterion, as in the C tracker |

The loop is one thread, so there are no data races; peers and the kernel act
between its steps. The hard behaviours are descriptors closed and reused within
one batch, edges merged by the kernel, `_armed` and epoll's one-shot state that
change at different moments, partial writes, and the boundaries of the ring.

### Java client

| part | state | operations | correct when |
|---|---|---|---|
| tracker session (`Tracker`) | a socket | announce, update, look, getfile: a line out, a line in | look and getfile add files and peers |
| exchange (`Peer`, `FilePeer`, `ServerPeer`, `Socket`) | per peer a socket, opened once, and its buffer map; a `ServerThread` per connection | interested, have, getpieces and their answers | what arrives is what was asked, who waits is answered, a peer's map is not more than it has |
| pieces (`File`, `BufferMap`, `BitSet`) | one `RandomAccessFile` and one bit set per file | `readPiece`, `writePiece` | a piece is marked only when it was written, and is the file's |
| files (`FileManager`) | files by key and by name; saved states | look's `addFile`, save at shutdown, load at start | what was saved is found again |
| strategies | the choice of file, peer and parts | advanced, prompt, sleepy, tests | |

The main thread (the strategy), the server threads and the shutdown hook share
the files without a lock. The hard behaviours are the shared offset of
`RandomAccessFile`, answers whose framing is by length although an error is
shorter than a piece, reads that return less than was asked, sockets that are
never closed, and crashes between the data, its mark and the saved state.

## 2. Modules

    TrackerNet ........ C tracker: network thread, handlers, shared clients
      TrackerNetProofs ......... types, one reader, polled connections, buffer
      TrackerNetRefsProofs ..... the reference counts
    Registry .......... C tracker: what the handlers do to files and clients
      RegistryProofs ........... found, complete, dangling
    Console ........... C tracker: the prompt beside the handlers, names
      ConsoleProofs ............ freed clients met, files found by name
    Config ............ C tracker: options, YAML, daemon, prompt, listener
    UtHash ............ the macros of uthash, for HashTable and Config
    HashTable ......... cutil: hash_table on those macros
      OrderedTable ............. what it promises
    CachedList ........ cutil: list with a cached cursor
      SeqList .................. what it promises
    CppTracker ........ C++ tracker: event loop, sockets, writers, peers
      CppTrackerProofs ......... events and owners, output armed, event count
    CppFiles .......... C++ tracker: files, peers, a request by keyword
      CppFilesProofs ........... found by hash, listed with a port, faults
    CircularBuffer .... C++ tracker: the ring buffer
      ByteQueue ................ what it promises
      PartsProofs .............. CircularBuffer: types, newlines, refinement;
                                 CachedList: the cursor, refinement;
                                 HashTable: chains, refinement;
                                 Config: which files crash the tracker,
                                 the options it starts with;
                                 Look: the two answers
    Look .............. both trackers: the criteria of look
    HeadInsertion ..... a loop that UtHash and Look share
    ClientExchange .... Java client: peers, pieces, saved states
      ClientExchangeProofs ..... types and the five safety invariants
    MC* ............... instances for TLC

A name `Op_Something` is a faulty variant of `Op`, kept beside it to show that
a property can fail; no specification uses it. Each module says at its head at
which grain it divides the code into steps.

### C tracker

**TrackerNet** divides the threads at every access to shared memory:
`++ref_count` is a load (`NetLoadRef`) and a store (`AddNewClientToFds`,
`StartHandler`), `client_dec_ref` a load, a store and a check (`HandlerLoadRef`,
`HandlerDecRef`, `HandlerCheckRef`; `NetDecRef`, `DropSlot`). The poll set belongs to one
thread, so a slot of a pass is one step. Sockets are numbered by connection and
never closed, as in the code, so a client object is named after its socket.
`raced` and `orphan` are history: two threads were inside the counting of a
client, and a reference was taken for a thread that could not be created. A use
of a freed client, a NULL dereference and SIGPIPE set `fault`, and the process
stops there.

**Registry** takes up where `CallHandler` of TrackerNet does nothing. One step
is one call on a locked table; parsing is reduced to the sets of hashes that a
request names. TrackerNet justifies that a client has one handler at a time and
is freed with none. A struct file is an identity of its own, since the lookup
and the insertion of `file_get_or_create` are two calls; `raced` is history: the
hashes for which two handlers were between the two. `file_new` divides by the
announced piece size, so a size of 0 ends the process (`FileNewNoPieces`).

**Console** is the registry as the prompt sees it: the client table, the files
by hash, the lists of files by name (which Registry leaves out) and the clients
of each file. The prompt takes a lock, reads and releases in three steps; a
handler's call on a table is one step that needs the lock free. The locks that a
Ctrl-C has left behind (`leaked`) stay for ever. A request lists one file. A
file knows its clients here and not under which addresses, so a client that
announces a file again may or may not come under a new port, which leaves its
old entry (`Join`). `forgot` (clients a file remembers although they have
replaced their list or their port) and `raced` (names two handlers made a list for) are history.

**Config** runs from the command line to the listening socket. libyaml is
external: any legal sequence of events of one document, stopped by an error
anywhere. `doc` keeps beside the parser what the events mean, and `odd` which
unusual constructs the file has had: a sequence as a value, a collection as a
key, an alias, more levels than the parser's stack, no document at all. The
options are a uthash of their own: `options.list` has them in the order they
were added, `options.tbl` the buckets, and `options.turned` is history, the
expansions since each was added, modulo 2. `parse_options` adds an option without
looking for one with the same key, so which of several `-p` is the port depends
on the expansions, and an entry of the file can cause one.

**UtHash** has the macros: buckets, chains, counts and the doubling of
`HASH_EXPAND_BUCKETS` with its `ideal_chain_maxlen`, `expand_mult` and `noexpand`.
An expansion moves the entries of a chain to the heads of the new ones, which
turns their order round. **HashTable** has the calls of `hash_table.c` on them, and
`turned` as above. **CachedList** has the
chain of nodes, `cursor` and `curpos`; `list_remove_value`, which takes the lock
once per pass, has a step per node. The abstract modules keep, besides the
content, which key or position the last call was given and what it returned, so
that a step of the code can only be matched by the same call.

### C++ tracker

**CppTracker** has a step per event, accepted connection, request line and
deletion. Edges (`edge`, `ledge`) and one-shot enabling (`epout`) are the
kernel's state; `armed` is the code's idea of the latter. An accepted
descriptor and a duplicated one are the lowest that is free. `wfail` and
`refused` are history: a write failed, and the second write of a wrapped buffer
was refused.

**CppFiles** takes up where `HandleLine` of CppTracker only says whether a line
is answered. A line is read keyword by keyword (`Listen`, `Seed`, `SeedEntry`,
`Leech`), so that one that fails half way (`Abort`) leaves what it had done. The
files are numbered, Peers are named by the address they are allocated at, which
is used again: `File::_peers` holds addresses. The histories say which keys an
address has told of (`told`), which keys a deleted Peer was registered for
(`gone`), whose announce has failed (`failed`), and which hashes were seeded
with two sizes (`conflict`).

**CircularBuffer** models the three uses the tracker makes of the ring (input
of a Peer, its output, accepted descriptors), at the code's indices. `exact` is
history: it turns false when an operation of the code mixes the bytes up, and
nothing is followed after that. Two operations do: `readUntil`, when the content
wraps and a newline comes before the end of the array (the reading goes on at
index 0, and what was skipped stays counted), and `writeToFd`, when its second
write takes less than all (the first part stays counted or stays in the buffer).

**Look** gives one request to both trackers, over any table of registered
files, each of them once and in any order: the C tracker's six processors with the text left over by
`string_split2`, and the C++ tracker's fields, operators and predicates. The
answers are compared with each other and with what the criteria mean. A number
is modulo `ULong`, so that a negative one becomes a large one.

### Java client

**ClientExchange** follows one file through several clients. A step is one access
to what threads share: `readPiece` is `ServeIndex` (the test of the mark and the
seek) and `ServePiece`, `writePiece` is `SeekPiece`, `WritePiece`, for the last
piece `TruncateFile`, and `MarkPiece`. One read of a socket may return less than
was asked, of a piece and of a buffer map; what is left over is then read as a
word (`TakeWord`, `Believe`). An answer is a stream of words and piece bytes, so that a reader
that takes an error for content loses its place as in the code. What a restart
finds follows `FileManager`'s initializer (`LoadedState`): a saved state, or a
file keyed by the MD5 of its content, which is the file's key only if the
content is complete. `spoiled` is history: a read was short, a piece was asked
from a client without it, a seek was overtaken by another thread's. The tracker
is external, and lists every client to every client, the asking one included.

## 3. Runs

| run | question | properties |
|---|---|---|
| `net_refs` | threads, counts and the poll set | `TypeOK`, `OneReader`, `RefsCounted`, `UseAfterFreeNeedsRace`, `NoLeak`, `PollSetCompact`, `PollBufferFits`, `ConnectionPolled` |
| `net_live` | does everything that must happen, happen | `HangupReaped`, `RequestStarted`, `RearmedIfPollReturns` |
| `net_wakeup` | is a finished client always rearmed | `RearmedAfterSignal`, violated |
| `net_reconnect` | is a new connection always polled | `NewConnectionPolled`, violated |
| `registry` | is what was announced found, and what was freed gone | `ListedIsFound`, `GetfileComplete`, `DanglingIsLeftover` |
| `console` | does looking at the tracker disturb it | `HandlerFinishes`, `FreedHasCause`, `FoundByName` |
| `parts` | do the sequential parts do what their callers take them to do | `ImplementsQueue`, `HaveLineExact`; `ImplementsSeqList`; `ImplementsTable`, `FoundByTurns`; `OptionsResolved`, `CrashHasCause`; `LooksAgree` |
| `cpp` | output, the event count, descriptors reused within a batch | `OutputArmed`, `EventCountExact`, `EventReachesOwner`, `RegisteredIsLive`, `UnregisteredIsDeleted` |
| `cpp_live` | is every line read, every hangup noticed | `LineIsRead`, `HangupDeletesPeer` |
| `cpp_exit` | can the main loop end | `NoMoreEvent`, violated |
| `cpp_files` | is a peer found under what it told of, and with its port | `FoundByHash`, `ListedHasPort`, `FaultHasCause` |
| `client` | can a wrong piece be believed, a saved file lost, a client wait for ever | `WrongPieceHasCause`, `MarkedIsWritten`, `PeerMapHonest`, `SavedIsNotLost`, `WaiterIsOwed` |

What they show:

- The unlocked reference count is the only thing wrong with the counting: unless
  two threads were inside the counting of a client together, its count is the
  number of its references, it is freed with none and freed then, and no freed
  client is used.
- A handler that finishes while the network thread is between the scan of its
  slot and `poll` loses its signal, and the client is not heard until something
  else wakes `poll` (`net_wakeup`). It is rearmed once anything does
  (`RearmedIfPollReturns`).
- A peer that resets and returns from the same address and port before its old
  client is deleted is given that client, and the new socket is never polled
  (`net_reconnect`). A connection whose address is its own is never lost
  (`ConnectionPolled`).
- After the "ok" a client is listed under its hash, and its address leads to it,
  to a client that shares the address, or, once that one has left, to nobody: the
  one that leaves takes the entry of both along (`ListedIsFound`). An answer of
  getfile has every client of the hash whose address is its own, unless two
  handlers have created the file of the hash at once: then there are two, and the
  answer is that of one of them (`GetfileComplete`).
- `update` leaves the client among the clients of files it no longer lists, where
  file.h:16 promises seeders and leechers. What stays behind after the client is
  freed is always of an earlier list or an earlier port (`DanglingIsLeftover`).
- A handler gets through beside the prompt unless Ctrl-C has torn one of the
  prompt's calls (`HandlerFinishes`): that call's lock then stays taken. The
  prompt follows a freed client in two places only: in its copy of the client
  table, and in a file the client had announced before it replaced its list
  (`FreedHasCause`). A file is found by its name unless two handlers made a list
  for the name at once (`FoundByName`).
- An option of the command line wins over the file, and in the file the first one
  of the root; a nested mapping does not disturb that. Of an option repeated on
  the command line the last one counts until the table of options expands, then
  the first one, then again the last: ten `-p`, or fewer and a long file, start
  the tracker on the first port (`OptionsResolved`). A file crashes the start only
  with one of the five constructs that `odd` records (`CrashHasCause`).
- The list's cursor is never seen (`ImplementsSeqList`), and the table's buckets
  and expansions never are (`ImplementsTable`), but for one thing: of several
  entries with one key, the last one added is found unless an odd number of
  expansions since then has put it behind the others (`FoundByTurns`).
- In the C++ tracker, a writer whose write was reset is unregistered twice: the
  count drops to zero with the listener registered, and the tracker exits
  (`cpp_exit`). Apart from that the count is exact. Output is forgotten only
  when the second write of a wrapped buffer is refused (`OutputArmed`).
- A peer of the C++ tracker is in a file of every hash it told of, also after an
  announce that failed; the map by hash gives the first file of the hash, and the
  only one unless the hash has been seeded with two sizes (`FoundByHash`). It is listed with port 0 only after an announce that failed
  behind its seed list, or where its address is that of a deleted Peer
  (`ListedHasPort`). A getfile fails only for a hash nobody seeded or one that has
  lost a peer (`FaultHasCause`).
- The C tracker's look lists exactly the files that meet every criterion it
  knows, although a criterion passes through six processors. The C++ tracker
  lists the same, except that `=` and `!=` on a size are exchanged
  (Criterion.cpp:71; `LooksAgree` states both answers).
- `haveLine` sees a newline wherever it is, except in a full ring whose content
  starts at the place where it ends (`_r = _w`): that one looks empty, whatever is
  in it (`HaveLineExact` says both).
- In the Java client a marked piece is the file's, through any crash, restart or
  old saved state, unless one of three things has happened: a short read, a
  request for a piece the peer lacks, or two threads at one file offset
  (`WrongPieceHasCause`); the advanced strategy brings about the second by
  design, since it never asks what a peer has. A mark is never ahead of its data,
  in memory or saved (`MarkedIsWritten`). A main thread that waits is owed an
  answer, even when clients ask each other or themselves, unless an error
  swallowed the end of the answer or the peer's thread has ended
  (`WaiterIsOwed`): each then blocks it for good.

## 4. Bounds

Every bound is a constant of the module; the process has none of them. What is
proved (section 6) holds for every value.

| constant | value | why it is enough |
|---|---|---|
| `MaxSock`, `Key` | 2, two addresses (`net_wakeup`: one each; `net_reconnect`: one address) | two slots give a hole before the last slot, a hole that is the last slot and both at once; the second connection may use the first one's address |
| `MaxSend`, `Thread` | 3 writes, 2 threads (1 write with fairness) | a second request during the first, a line in two parts, two handlers leaving one client together, no thread left |
| `InitBuf` | 2 | the second client does not fit and doubles the buffer |
| `MaxFile`, `Hash` (Registry) | 2, 1 | two files with one hash, which needs a race of two creations |
| `MaxReq`, `Client`, `Addr` | 2, 2, 3 | an announce over an announce, with the other port; an update over either; two ports of a client, one of them shared with the other client |
| `Client`, `Name`, `MaxFile` (Console) | 2, 1, 2 | two handlers that make a list for one name, a file forgotten by a client that is then freed |
| `Listing`, `Torn` | `ls`; the calls on the client table and on a list | `ls` makes both other listings; a torn rwlock and a torn mutex, which differ in whom they stop |
| `MaxEvents`, `StackMax`, `MaxArgs` | 9, 3, 3 | the ends of collections count, so a root whose first value is a mapping with a pair of its own, followed by a pair of the root, takes nine events; three open levels overflow the stack (100 in the code); an option given three times fills a chain, and two of them with two pairs of the file expand the table too |
| `InitBuckets`, `Thresh`, `MaxBuckets` | 2, 3, 8 | a chain of three expands the table (32 and 10 in the code), the hash table twice, that of options once or twice; two keys collide until the second expansion of the hash table, three until the first of that of options |
| `HKey`, `Datum`, `Node` | 3, 4, 4 | three entries with one key and one with another; four nodes, reused after they were freed |
| `MaxCriteria`, `MaxFiles`, `LookFile`, `ULong` | 2, 2, 3 files, 8 | two criteria one after the other, over lists of at most two of the files in any order; files alike in name and in hash; a negative number that becomes a large one |
| `MaxConn`, `MaxSend` (C++) | 3, 3 (`cpp_live`: 2, 2; `cpp_exit`: 1, 2) | three answers wait in one buffer; two new connections take both descriptors of one dropped in the same batch. `MCBound` lets at most one line be sent once the third connection is made |
| `MaxErr`, `MaxBatch` | 1 (`cpp_live`: 0), 10 | a Peer dropped for its errors with lines unread; every event of the instance fits a batch, as it must for liveness |
| `Addr`, `Key`, `Desc` (CppFiles) | 2, 2, 3 | a file, the same under another name, one of another size under its hash; a hash nobody seeds |
| `MaxLines`, `MaxPeers`, `MaxSeed` | 3, 3, 1 | an announce, an update and a getfile; an address used a second time; one entry in a list and the lists of an announce and an update, since a second entry is read by the same step as the first |
| `InitCap`, `MaxCap`, `MaxLen` | 4, 6, 2 | every position of `_r` and `_w`, one resize (to 6), full and empty at each |
| `Client`, `Config` (Java) | a seeder and one other; one of the two asks, by either strategy, the other is sleepy | the asking client has a peer with all pieces and itself, with some |
| `PieceCount`, `PieceLen`, `MapBits` | 2, 2, 1 | a last piece and another, a map of two bytes (8 pieces in a byte in the code); a read may return a part of either, and an error (1) is shorter than a piece |
| `MaxParts`, `MaxAsk`, `MaxCrash` | 2, 2, 1 | an answer of two pieces, in any order or twice the same; a request after a crash of either client, or after a broken answer |

Symmetry is used in `net_refs` (addresses and threads), `parts` (data of the
hash table) and `cpp_files` (addresses); none of them checks a liveness
property. `MCParts` runs the five sequential parts in one configuration: a
behaviour chooses one part and leaves the others in their initial state, so that
the states add up and do not multiply. Its `CONSTRAINT MCBound` cuts the
combinations of Config: documents of more than five events use the texts `port`
and `1` only, beside options of the command line a document has four events at
most, beside three of them none, and one with something odd is read no further
than that. Each of the cases of the table above is inside. Configurations say `CHECK_DEADLOCK FALSE`
because the systems may stop: peers owe nothing, `poll` and `epoll_wait` block
without events, nobody has to type, and a fault ends the process.

## 5. Fairness

Liveness is checked under fairness of the program alone. In TrackerNet
`WF(NetStep)` and `WF(HandlerStep(t))`: the kernel schedules every thread
that is not blocked, and `poll` returns when something is ready. A handler blocked in
`read` is not enabled until its peer writes or hangs up. In CppTracker
`WF(LoopStep)`: the loop runs unless it waits in `epoll_wait` for
nothing. In Console `WF(Prompt)`, and `SF(Handler(c))`: a handler that waits for
a lock that becomes free again and again gets it, as a thread blocked on a
pthread lock does unless the prompt is typed at without end. No peer is assumed
to write, read, close or connect, and nobody to type.
`RearmedIfPollReturns` starts when `poll` has returned, since `net_wakeup` shows
that the signal does not make it return in every case.

## 6. Proofs

TLAPS checks the following for every value of the constants that the named
assumptions of the modules allow. These say no more
than that the bounds are numbers, the buffers start with at least one slot
(`InitBuf`) or two elements (`InitCap`; with one, the factor 1.5 would not
grow the ring), that there are pieces and that they have at least two bytes,
that a hash table starts with at least one bucket and a hash is a number,
that the placeholders are not values, and that a client's addresses are
addresses and a description's hash is a hash.

| theorem | states |
|---|---|
| `TypeCorrect` | `TypeOK` of TrackerNet |
| `PollSetIsCompact` | `PollSetCompact` |
| `OneReaderHolds` | `OneReader` |
| `ConnectionPolledHolds` | `ConnectionPolled` |
| `PollBufferHolds` | `PollBufferFits` |
| `RefsInvariant` | `RefsInv`, the inductive invariant of the counting |
| `RefsCountedHolds` | `RefsCounted` |
| `UseAfterFreeNeedsRaceHolds` | `UseAfterFreeNeedsRace` |
| `NoLeakHolds` | `NoLeak` |
| `RegistryTypes` | `TypeOK` of Registry |
| `ListedIsFoundHolds` | `ListedIsFound` |
| `GetfileCompleteHolds` | `GetfileComplete` |
| `DanglingIsLeftoverHolds` | `DanglingIsLeftover` |
| `ConfigInvariant` | `ConfigInv`, the inductive invariant of the YAML parser |
| `CrashHasCauseHolds` | `CrashHasCause` |
| `OptionsInvariant` | `OptionsInv`: the tree read is the document, the table of options has those given |
| `OptionsResolvedHolds` | `OptionsResolved` |
| `ConsoleTypes` | `TypeOK` of Console |
| `FreedClientsHaveLeft` | `FreedHasCause` |
| `NamesAreFound` | `FoundByName` |
| `CppTypes` | `TypeOK` of CppTracker |
| `EventsReachOwners` | `EventReachesOwner` |
| `RegisteredAreLive` | `RegisteredIsLive` |
| `UnregisteredAreDeleted` | `UnregisteredIsDeleted` |
| `OutputIsArmed` | `OutputArmed` |
| `EventCountIsExact` | `EventCountExact` |
| `FilesTypes` | `FilesTypeOK` of CppFiles |
| `FoundByHashHolds` | `FoundByHash` |
| `ListedHasPortHolds` | `ListedHasPort` |
| `FaultHasCauseHolds` | `FaultHasCause` |
| `BufferTypes` | `TypeOK` of CircularBuffer |
| `HaveLineExactHolds` | `HaveLineExact` |
| `RefinesQueue` | `ImplementsQueue`: CircularBuffer implements ByteQueue |
| `ListInvariant` | `ListOK`: types, and the cursor is the node at the cached position |
| `ListImplementsSeq` | `ImplementsSeqList`: CachedList implements SeqList |
| `HashInvariant` | `HashInv`: every entry is in the chain of its bucket and nowhere else |
| `FoundByTurnsHolds` | `FoundByTurns` |
| `HashImplementsTable` | `ImplementsTable`: HashTable implements OrderedTable |
| `LooksAgreeHolds` | `LooksAgree`: what each tracker lists, by what the criteria mean |
| `ExchangeInvariant` | `IInv`, the inductive invariant of the peer exchange |
| `ExchangeTypes` | `TypeOK` of ClientExchange |
| `WrongPieceHasCauseHolds` | `WrongPieceHasCause` |
| `MarkedIsWrittenHolds` | `MarkedIsWritten` |
| `PeerMapHonestHolds` | `PeerMapHonest` |
| `SavedIsNotLostHolds` | `SavedIsNotLost` |
| `WaiterIsOwedHolds` | `WaiterIsOwed` |

*TrackerNet.* `TypeOK` is not inductive: that an index is in range and a
register names a client depend on where the thread is. `TypeInv` adds `Control`
(which position uses which register, and that clients, slots and table entries
are those of accepted sockets) and `PollSetCompact`, which is inductive with
them; from it follow `TypeCorrect` and `PollSetIsCompact`, and `PollBufferFits`
is inductive beside it. `SafetyInv` has four parts. `ReaderInv` follows POLLIN
through a request: it is armed in a slot, or reported by poll, only for an idle
client, one that no handler works for and none has asked to rearm. The exception
is a client found again in the table when its address reconnects; it may have
two slots, but its socket is dead, so poll reports a hangup and no handler is
started. `HangupIsDead` says that a slot is dropped only for a dead socket, and
`AcceptedHasSlot` that an accepted connection with an address of its own has a
slot unless it is just being given one. `KernelInv` says that an address connects
again only after a reset, and that the table is keyed by the addresses. None of
this mentions the reference counts: it holds whatever the races do to them.

*TrackerNet, the counts.* A count is not the number of references while a thread
is between its load and its store, so `RefsInv` says for each client whose count
was never raced what holds then too: whoever is inside the counting is alone there
(`Alone`) and has the count in its register (`Held`), so that its store writes the right one. With
them the count is exact (`Exact`), a freed client has no reference and nobody
inside (`Freed`), and one without a reference is being freed (`Collected`): these are the
properties. `OrphanInv` is about the reference of a thread that could not be created: its
client is never handed to a thread again (`Abandoned`), so that this happens once only and the
one reference `RefsTo` adds for it is enough. `FiniteWorkers` makes the references countable
without a bound on the threads. A reference is a slot or a handler, so the sets they are
counted by change by one element in a step, and the lemmas of a step say which.

*Registry.* `RegistryInv` says of each position of a handler what it has in
hand: which files a parsing handler may still have to add (`Phases`), that a
file of the table has the hash it is registered under (`Registered`), and that
an address leads only to clients that may announce it (`Addresses`). `AddedIsFound`
and `RemovedIsGone` state the two invariants for a handler that is half way: a
file of the lists leads to the client unless it is still to be added, and a freed
client's entry is gone unless it is still to be removed. Nothing is assumed of
the addresses. `LedTo` says what an address leads to when clients share it: the
client, another that may announce it, or nobody, and then another has removed its
own entry there and with it the client's (`TakenOff`). `LeavesItsOwn` makes that a
fact about the one that left: it removes files of its own lists only. For
`GetfileComplete` an address of its own leaves the first of the three (`OwnAddr`), and
`OneFile` says that a hash nobody raced on has one file at most, and none while
the only handler that creates it is between the lookup and the insertion.

*Config.* The parser has no stack of states, only one of nodes, and `expectValue` and
`keyname` beside it. `ConfigInv` says that this is enough as long as the file has
nothing odd: the open collections are the nodes on the stack, in order and of the
right type; a collection that is not the innermost is at a key or an item, never at a
value, since a value that is a collection has ended the wait for it when it
began; so `expectValue` and `keyname` are those of the innermost one (`InStep`). Until the root has begun the
stack is empty, and when it has ended there is something to load (`RootSeen`). A
sequence as a value, a collection as a key, an alias and a full stack
each break one of these, and a file without a document leaves nothing to load: there is no other way to `CrashOnKey`
or `LoadCrashes`.

*Config, the options.* `OptionsInv` follows the same files to the options the
tracker starts with. While the parser runs, the root is the first node, at the
bottom of the stack and only there (`RootFirst`), and its children are the
pairs of the document in order, except for a last pair that waits for its value
(`Paired`); `InStep` is what says which node an event belongs to. The table of
options is a uthash of the places of the list (`OptionTable`), with the invariant
of HashTable below. Once loaded,
an option after those of the command line has a key that no option before it
has, and the text of the first scalar the file gives for the key
(`FileOptions`). `PromptRead` and `PortRead` then say that what `main` acts on
is the option with the name that the expansions have left in front (`IsRead`); with
`FileOptions` that is the file's value where the command line gives none, the
only one there. The loop of `load_config_file` is the function `OptionsLoaded`,
recursive in the number of children: `LoopExists` gives its values and `UpTo`
its invariant.

*Console.* `ConsoleInv` says why each list a look-up finds can be used.
`HeapInv`: a freed client is in no table and has no list; `JoinInv`: a file knows a
client only while the client lists it or after the client has replaced its
list, from which `FreedHasCause` follows when `file_print_peer_list` meets a freed
one. `NameInv`: a file of the registry is in a list of its name or its handler
is on the way there (`Arriving`), and a name has one list unless it is `raced`. The prompt
reads the length of a list before it walks it; `Position` says that its index
stays inside, because lists only grow, whatever handlers do between two of its calls.

*CppTracker.* `SafeInv` is about four tables that must agree. `FdInv`: the
descriptors of live Peers and writers are all different. `EventInv`: an
event is registered under the descriptor of its object, and a live Peer or writer is
registered unless it waits to be deleted or a write has failed. `BatchInv`: an
event reported in this batch belongs to an object that still has that
descriptor, since deletion waits for the end of the batch. `ArmedInv`:
`_armed` is true only while epoll is enabled or the event is in the batch.
That a descriptor is always free is not assumed but proved (`LowestFree`): every
connection holds two at most, and an injection into a smaller set does not exist.

*CppFiles.* `FilesInv` adds to the ranges that the map holds a file of every
hash that was seeded, the first one, and the only one unless the sizes differ
(`MapInv`); that
who told of a hash is in its file, and who is in a file has told of its hash or
had done so when it was deleted (`PeersInv`); and that a Peer that told of a hash has a port,
unless its announce has failed or is still being read (`PortInv`). The
count of keywords matters: a complete announce has had `listen`, since three
different keywords are all of them.

*CircularBuffer.* `BufferInv` adds to `TypeOK` where `_w` is while `exact`
holds: `_size` after `_r`, and left at the capacity (not at 0) when it gets
there. Both readers decide by `_r > _w` whether the content wraps, and this
is what makes the decision right. The refinement maps the queue to `Content`, the
elements from `_r` on. `HaveLineExact` needs no more than that: the one or two stretches `contains` looks
at are the content, unless `_r` and `_w` meet in a full buffer, and then it
looks at nothing. Three lemmas reduce a step to its elements: `PutStep`,
`TakeStep` and `TakeLineStep` say that a step which keeps the elements at their
distance from `_r`, or shifts them by the number returned, is a step of the
queue; each operation then has its arithmetic only.

*CachedList.* `ListOK` is inductive: nodes are linked once, and the cursor is
the node at `curpos`. The walk of `list_get_node` then ends where it was asked to
go (`Reached(n) = n`), and each call is the call of SeqList.

*HashTable.* `HashInv` is a fact about a table, the list of its entries and their
history (`TableInv`), which the options use too. The chain of a bucket has the
entries whose key falls in it, each once, and nothing else (`Chained`); a datum is
stored once, which is what a user of the table owes it; and of two entries in a
chain the later one is in front when the table has expanded an even number of
times since it was added, and behind otherwise (`ChainOrder`), whence
`FoundByTurns`.
What an expansion does is the recursive function `PutAtHead`. That it
returns a sequence of the elements wanted, each once, is by induction over the
chain, written as the refutation of a least position where it fails (`Least`,
from the well-foundedness of `<`), in `ListExists`, `HeadList` and `PutAtHeadSeq`. An entry of new
bucket `b` is found in old bucket `b % n` because `(h % 2n) % n = h % n`
(`OldBucket`), for any number of buckets and not only powers of two.

*Look.* A criterion makes a new list of those it keeps; `HeadFiles` says that
this list has them all and each once, though in the opposite order. Of the C tracker's six
processors the one with the criterion's operator applies (`OneOperator`) and the
others leave the list alone (`OtherOperator`), so the list after a criterion is
that of the files it accepts (`CriterionKeeps`), and after all of them that of
the files they all accept (`CriterionsKeep`). `CriteriaAccept` says the same of
the C++ tracker's loop and `AcceptedIsMeant` of its comparisons. The two
differ for a size compared for equality, and `LookAgrees` compares the answers to
requests whose criteria both know.

*Loops.* The induction theorems of the library take an operator and cannot be
instantiated here. `UpTo` in their place is about a set: the numbers for which a fact holds, where the
least one missing would contradict the step (`Least`). `LoopExists` uses it to show that a
function recursive in a counter has the values its definition says.

*ClientExchange.* `IInv` relates the two ends of each connection through the bytes
between them. `StreamOK` says what the stream to a client is made of: a map
follows the word "have", a piece follows its index in full, and the last token
fits what the peer's thread does next. `ReaderOK` says what the
client's thread finds there: in position `map` the map, in `bytes` the rest of its piece, or
nothing yet, in which case the peer's thread is about to send it; `WaiterIsOwed` is the part of it about an empty stream.
`PeerOK` bounds what a client believes of a peer by what is
marked there, which holds across a restart because a connection does not survive one.
`DiskOK` follows a piece from the stream to the disk: what is marked in memory
or saved is there, what is being written is good, and what has been written stays
so while the file is cut to its length. Each part is
excused by the event that makes it wrong and by no other: a short read, a piece asked from a client
without it, a shared offset. The lemmas about sequences (`DropStream`, `SentWhole` and those after them) say
which of these a read of a prefix or a write at the end can disturb; each
action is then a case by case of the parts.

Only model-checked is liveness, which is out of the prover's reach: the three
properties of `net_live`, `LineIsRead` and `HangupDeletesPeer` of `cpp_live`, and
`HandlerFinishes` of `console`. Every invariant, every action property and every refinement
that a passing run checks is stated by one of the theorems above.

## 7. Not modelled, and why

- Descriptor and memory limits: `accept`, `dup` and `malloc` succeed. The one
  resource that runs out is threads, since the code tests the result of
  `pthread_create` with the wrong sign.
- `RefsCounted` counts the reference of a thread that could not be created (util.c:20)
  as one nobody will give back, and `RequestStarted` lets it excuse the request:
  the thread that is never made is an action, not something these properties
  find fault with. In the same way `OutputArmed` and `ImplementsQueue` end where
  a second write is refused or `readUntil` skips a newline, `HandlerFinishes` where
  a Ctrl-C has left a lock, and `EventCountExact` where a write has failed;
  `cpp_exit` shows what comes of the last. Each property names its exception.
- `delete_client` in TrackerNet is one step; the file lists it unlinks
  are followed in Registry and Console, where it has a step per file.
- Which events epoll reports first when more than `MaxBatch` are ready: any of
  them may be. The kernel's ready list is first-in first-out, so liveness is
  checked where every event of the instance fits one batch.
- The text of requests and answers: a request is its kind and what it
  names. Help texts and the completion of the prompt only print.
- `Peer::_seed` and `_leech` of the C++ tracker, which only repeat membership.
- `peek` and `reset` of CircularBuffer, `Socket::connect`, `Event::_unregister`, and the
  containers of `tracker_cpp` that nothing calls.
- In `cutil`: `list_to_array` and `list_to_hashtable`, which nothing calls;
  `yaml2_dump`, which prints; `md5`, `data` and `error`, which wrap libraries. In
  uthash: the Bloom filter, the integrity test, sorting, selection and the other
  hash functions, which are compiled out or not called.
- Numbers that a look cannot represent: `atol` saturates and `std::stoul` throws
  out_of_range beyond the width, Look counts modulo `ULong` in both. It claims
  nothing about such numbers. The exchange of `=` and `!=` on a size is in the
  statement of `LooksAgree`, not an exception to it.
- Lines that arrive in parts in the C++ tracker, and the refusal of an overlong word
  without a separator (Peer.cpp:282): a request of CppTracker is one whole line.
  The bytes of a line in parts are CircularBuffer's.
- In ClientExchange, a part index that the prompt's user types and the file does not
  have: `BitSet` (BitSet.java:41) then throws in the peer's thread, in the middle of
  an answer. The parts asked for are the file's.
- A default charset that loses bytes. Every byte is cast to a `char` and passes
  through the writer and the reader of the socket (Socket.java:26, 30, 80), so that
  a negative one travels as a character from FF80 to FFFF. UTF-8 keeps these; a
  charset without them, as ISO-8859-1, spoils pieces and maps.
  `WrongPieceHasCause` and `PeerMapHonest` hold under the former.
- A saved state that a later save has torn: it is lost, and `SavedIsNotLost` speaks
  of the last save, when it is whole. In the run of `WaiterIsOwed` one client
  asks, another and itself; longer cycles rest on the proof.
- In ClientExchange: the text and errors of the tracker session, which change no
  state but the files and peers it adds; more than one file; the padding bits of
  `BitSet` and `int` overflow in positions of files beyond 2 GB; the bytes of a
  piece that happen to read as an index (they are taken not to); a client that
  reconnects while the server thread of its old connection still runs; a
  `HashMap` that is changed while another thread reads it.
- `client_glib` is a stub; `sandbox` and `scripts` are no part of the system.

The ranges of the variables of ClientExchange are written down as `TypeOK` in
that module.
