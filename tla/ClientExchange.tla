--------------------------- MODULE ClientExchange ---------------------------
(***************************************************************************)
(* The Java client: how clients exchange the pieces of one file, keep them *)
(* on disk, and find them again after a crash.  A client has a main thread *)
(* (the strategy), one ServerThread per connection from another client (or *)
(* from itself: the tracker lists everybody), and a shutdown hook.  They   *)
(* share the File, its BufferMap and its RandomAccessFile, without a lock. *)
(*                                                                         *)
(* Grain.  A step is one access to what threads share: a seek, a read or a *)
(* write at the file offset, a bit of the buffer map, one read or write of *)
(* a socket.  Answers are streams of words and of the bytes of pieces,     *)
(* since the reader finds its way by length; a piece has PieceLen bytes    *)
(* (1024 in the code), and an "error" in its place is shorter.  Of a piece *)
(* on disk only matters whether it is the one of the file (right), another *)
(* content (wrong) or never written (hole).  Bytes cross a socket as they  *)
(* are, which takes a default charset, as UTF-8, that keeps the characters *)
(* Socket makes of them: a negative byte becomes one of FF80 to FFFF.  The *)
(* tracker is external: look finds the file, getfile gives any client.     *)
(*                                                                         *)
(* A definition named Op_Something is a faulty variant of Op, no part of   *)
(* the specification.                                                      *)
(***************************************************************************)
EXTENDS Integers, Sequences

CONSTANTS Client,
          Seeder,      \* the clients that start with the complete file
          Config,      \* the strategies that the clients may run
          PieceCount, PieceLen,
          MapBits,     \* pieces in one byte of a buffer map (8 in the code)
          MaxParts,    \* MAX_PARTS of StrategyAdvanced (5 in the code)
          MaxAsk,      \* bound: requests sent to peers over the whole run
          MaxCrash     \* bound: processes that end

ASSUME ExchangeAssumption ==
    /\ Seeder \subseteq Client
    /\ Config \subseteq [Client -> {"sleepy", "advanced", "prompt"}]
    /\ PieceCount \in Nat \ {0} /\ PieceLen \in Nat \ {0, 1}
    /\ MapBits \in Nat \ {0}
    /\ MaxParts \in Nat \ {0} /\ MaxAsk \in Nat /\ MaxCrash \in Nat

Piece == 1..PieceCount
Offset == 1..(PieceCount + 1)     \* in pieces; the last one is end of file
Parts == UNION {[1..n -> Piece] : n \in 1..MaxParts}

\* What one read of a socket can meet.
Word(w) == [t |-> w]
Index(i) == [t |-> "index", i |-> i]
Byte(i, k, good) == [t |-> "byte", i |-> i, k |-> k, good |-> good]
Map(m) == [t |-> "map", m |-> m]
PieceBytes(i, good) == [k \in 1..PieceLen |-> Byte(i, k, good)]
Token == {Word(w) : w \in {"data", "have", "error", "end"}}
             \cup {Index(i) : i \in Piece} \cup {Map(m) : m \in SUBSET Piece}
             \cup {Byte(i, k, good) : i \in Piece, k \in 1..PieceLen,
                                      good \in BOOLEAN}
Request == {[op |-> "getpieces", parts |-> s] : s \in Parts}
               \cup {[op |-> w, parts |-> <<>>]
                        : w \in {"have", "error"}}

VARIABLES
    \* on disk
    known,      \* the file: "none" | "part" (incomplete) | "seed" (seeded)
                \*   | "other" (its name stands for a file with another key)
    disk,       \* its content: "right" | "wrong" | "hole" at every offset
    ser,        \* the saved state: "none", "torn" or what was saved
    \* a process
    up, strategy,
    marked,     \* File::bufferMap
    pos,        \* the offset of File::file
    main,       \* the main thread
    peerMap,    \* FilePeer::bm
    srv,        \* srv[d][c]: the ServerThread of d that serves c
    \* connections from c to d
    con,        \* "none" | "open" | "closed" (d's end is closed)
    req, ans,   \* what was sent and not read yet: from c to d, and back
    nask, ncrash,
    spoiled     \* history: what has gone wrong with pieces so far

diskVars == <<known, disk, ser>>
procVars == <<up, strategy, marked, pos, peerMap>>
conVars == <<con, req, ans, srv>>
bounds == <<nask, ncrash>>
vars == <<diskVars, procVars, main, conVars, bounds, spoiled>>

Idle == [pc |-> "idle", peer |-> "none", want |-> "none", index |-> 1,
         good |-> FALSE]
NoThread == [pc |-> "none", todo |-> <<>>]
HasFile(c) == known[c] \in {"part", "seed"}       \* FileManager.getByKey
Complete(c) == /\ \A p \in Piece : disk[c][p] = "right"
               /\ disk[c][PieceCount + 1] = "hole"
EmptyDisk == [o \in Offset |-> "hole"]
FullDisk == [o \in Offset |-> IF o \in Piece THEN "right" ELSE "hole"]
Saved(c) == [known |-> known[c], marked |-> marked[c]]
IntactSave(c) == ser[c].known \in {"part", "seed", "other"}
NoSave == [known |-> "none", marked |-> {}]
TornSave == [known |-> "torn", marked |-> {}]
\* BufferMap(File): all pieces of a file that is seeded, none otherwise
FreshMap_AlwaysFull(k) == Piece
FreshMap(k) == IF k = "seed" THEN Piece ELSE {}

Init ==
    /\ known = [c \in Client |-> IF c \in Seeder THEN "seed" ELSE "none"]
    /\ disk = [c \in Client |-> IF c \in Seeder THEN FullDisk ELSE EmptyDisk]
    /\ ser = [c \in Client |-> NoSave]
    /\ up = [c \in Client |-> TRUE]
    /\ strategy \in Config
    /\ marked = [c \in Client |-> FreshMap(known[c])]
    /\ pos = [c \in Client |-> 1]
    /\ main = [c \in Client |-> Idle]
    /\ peerMap = [c \in Client |-> [d \in Client |-> FreshMap(known[c])]]
    /\ srv = [d \in Client |-> [c \in Client |-> NoThread]]
    /\ con = [c \in Client |-> [d \in Client |-> "none"]]
    /\ req = [c \in Client |-> [d \in Client |-> <<>>]]
    /\ ans = [c \in Client |-> [d \in Client |-> <<>>]]
    /\ nask = 0 /\ ncrash = 0 /\ spoiled = {}
-----------------------------------------------------------------------------
(* The main thread.                                                        *)

At(c, pc) == up[c] /\ main[c].pc = pc
Goto(c, pc) == main' = [main EXCEPT ![c].pc = pc]

\* An exception that nobody catches ends the main thread, but for the prompt,
\* which invokes its commands by reflection and reports the exception.
Fail(c) == Goto(c, IF strategy[c] = "prompt" THEN "idle" ELSE "dead")

\* FileManager.addFile after a look: an incomplete file with no piece.
Look(c) ==
    /\ At(c, "idle") /\ strategy[c] # "sleepy" /\ known[c] = "none"
    /\ known' = [known EXCEPT ![c] = "part"]
    /\ UNCHANGED <<disk, ser, procVars, main, conVars, bounds, spoiled>>

\* Peer.send connects first, once: the server gives every connection a thread.
Connected(c, d) == con[c][d] # "none" \/ (up[d] /\ srv[d][c] = NoThread)
Ask(c, d, r, want) ==
    /\ nask < MaxAsk /\ nask' = nask + 1
    /\ Connected(c, d)
    /\ IF con[c][d] = "none"
       THEN /\ con' = [con EXCEPT ![c][d] = "open"]
            /\ srv' = [srv EXCEPT ![d][c].pc = "wait"]
       ELSE UNCHANGED <<con, srv>>
    /\ req' = IF con[c][d] = "closed" THEN req
              ELSE [req EXCEPT ![c][d] = Append(@, r)]
    /\ main' = [main EXCEPT ![c] = [Idle EXCEPT !.pc = "key", !.peer = d,
                                                !.want = want]]
    /\ UNCHANGED <<diskVars, procVars, ans, ncrash, spoiled>>

\* The parts to ask for: by chance, of those the peer's buffer map does not
\* have (StrategyAdvanced), or what the user says.  (Bound: parts of the file.)
MayAskFor(c, d, parts) ==
    \/ /\ strategy[c] = "advanced" /\ known[c] = "part"
       /\ \A i \in DOMAIN parts : parts[i] \notin peerMap[c][d]
    \/ /\ strategy[c] = "prompt" /\ HasFile(c)

AskPieces(c, d, parts) ==
    /\ At(c, "idle") /\ MayAskFor(c, d, parts)
    /\ Ask(c, d, [op |-> "getpieces", parts |-> parts], "data")

\* doInterested and doHave, which a ServerPeer answers alike
AskMap(c, d) ==
    /\ At(c, "idle") /\ strategy[c] = "prompt" /\ HasFile(c)
    /\ Ask(c, d, [op |-> "have", parts |-> <<>>], "have")

ConnectFails(c, d) ==
    /\ At(c, "idle") /\ strategy[c] # "sleepy" /\ HasFile(c)
    /\ con[c][d] = "none" /\ ~up[d]
    /\ nask < MaxAsk /\ nask' = nask + 1
    /\ Fail(c)
    /\ UNCHANGED <<diskVars, procVars, conVars, ncrash, spoiled>>

\* A socket whose other end is closed gives zeros, and no error.
Stream(c) == ans[c][main[c].peer]
Eof(c) == Stream(c) = <<>> /\ con[c][main[c].peer] = "closed"
Take(c, n) ==
    ans' = [ans EXCEPT ![c][main[c].peer] = SubSeq(@, n + 1, Len(@))]

\* A word is read up to a separator, with what a short read has left before it;
\* a separator may stand in what was left, too.
Content(x) == x.t \in {"byte", "map"}
TakeWord(c) ==
    \E n \in 1..Len(Stream(c)) :
        (\A i \in 1..(n - 1) : Content(Stream(c)[i])) /\ Take(c, n)

\* checkProtocolKey; the answer to a wrong one is an error
ReadKey(c) ==
    /\ At(c, "key")
    /\ \/ /\ Stream(c) # <<>> /\ Head(Stream(c)) = Word(main[c].want)
          /\ Goto(c, IF main[c].want = "data" THEN "index" ELSE "map")
          /\ Take(c, 1) /\ UNCHANGED req
       \/ /\ Stream(c) # <<>> /\ Head(Stream(c)) # Word(main[c].want)
          /\ Goto(c, "idle") /\ TakeWord(c)
          /\ req' = IF con[c][main[c].peer] = "closed" THEN req
                    ELSE [req EXCEPT ![c][main[c].peer] =
                              Append(@, [op |-> "error", parts |-> <<>>])]
       \/ Eof(c) /\ Goto(c, "idle") /\ UNCHANGED <<req, ans>>
    /\ UNCHANGED <<diskVars, procVars, con, srv, bounds, spoiled>>

\* receiveHave of a FilePeer: one read, of the map or of its first n bytes
Believe(c, m) == peerMap' = [peerMap EXCEPT ![c][main[c].peer] = m]
ReadMap(c) ==
    /\ At(c, "map")
    /\ \/ /\ Stream(c) # <<>>
          /\ Believe(c, Head(Stream(c)).m)
          /\ Take(c, 1)
       \/ /\ Stream(c) # <<>> /\ UNCHANGED ans
          /\ \E n \in 1..PieceCount :
                /\ n * MapBits < PieceCount
                /\ Believe(c, Head(Stream(c)).m \cap (1..(n * MapBits)))
       \/ /\ Eof(c) /\ UNCHANGED ans
          /\ Believe(c, {})
    /\ Goto(c, "idle")
    /\ UNCHANGED <<diskVars, up, strategy, marked, pos, con, req, srv, bounds,
                   spoiled>>

\* receiveData: the next index, or the end
ReadIndex(c) ==
    /\ At(c, "index")
    /\ \/ /\ Stream(c) # <<>> /\ Head(Stream(c)).t = "index"
          /\ main' = [main EXCEPT ![c].pc = "bytes",
                                  ![c].index = Head(Stream(c)).i]
          /\ Take(c, 1)
       \/ /\ Stream(c) # <<>> /\ Head(Stream(c)) = Word("end")
          /\ Goto(c, "idle") /\ Take(c, 1)
       \/ /\ Stream(c) # <<>> /\ Head(Stream(c)).t \notin {"index", "end"}
          /\ Fail(c) /\ TakeWord(c)
       \/ Eof(c) /\ Fail(c) /\ UNCHANGED ans
    /\ UNCHANGED <<diskVars, procVars, con, req, srv, bounds, spoiled>>

\* receiveByte: one read, of what has arrived, not always of a whole piece
ReadBytes(c) ==
    /\ At(c, "bytes")
    /\ \E n \in 0..PieceLen :
          /\ n <= Len(Stream(c)) /\ (n = 0 => Eof(c))
          /\ LET whole == PieceBytes(main[c].index, TRUE)
             IN  main' = [main EXCEPT ![c].pc = "seek",
                              ![c].good = SubSeq(Stream(c), 1, n) = whole]
          /\ Take(c, n)
          /\ spoiled' = IF n < PieceLen THEN spoiled \cup {"short"}
                                        ELSE spoiled
    /\ UNCHANGED <<diskVars, procVars, con, req, srv, bounds>>

\* writePiece: a seek, a write, after the last piece a truncation, a bit
SeekPiece_MarksFirst(c) ==
    /\ At(c, "seek")
    /\ pos' = [pos EXCEPT ![c] = main[c].index]
    /\ marked' = [marked EXCEPT ![c] = @ \cup {main[c].index}]
    /\ Goto(c, "write")
    /\ UNCHANGED <<diskVars, up, strategy, peerMap, conVars, bounds, spoiled>>

SeekPiece(c) ==
    /\ At(c, "seek")
    /\ pos' = [pos EXCEPT ![c] = main[c].index]
    /\ Goto(c, "write")
    /\ UNCHANGED <<diskVars, up, strategy, marked, peerMap, conVars, bounds,
                   spoiled>>

\* The offset after a piece is read or written at o.
Beyond(o) == IF o \in Piece THEN o + 1 ELSE o

\* A piece at the last place runs over the end, unless its size divides the
\* length; what is there is truncated after a write of the last piece.
Surplus(c, o) ==
    {disk[c][PieceCount + 1]} \cup {w \in {"wrong"} : o = PieceCount}

WritePiece(c) ==
    /\ At(c, "write")
    /\ LET o == pos[c]
           content == IF o = main[c].index /\ main[c].good
                      THEN "right" ELSE "wrong"
       IN  /\ \E over \in Surplus(c, o) :
                 disk' = [disk EXCEPT ![c] =
                              [@ EXCEPT ![PieceCount + 1] = over,
                                        ![o] = content]]
           /\ pos' = [pos EXCEPT ![c] = Beyond(o)]
           /\ spoiled' = IF o # main[c].index THEN spoiled \cup {"seek"}
                                              ELSE spoiled
    /\ Goto(c, IF main[c].index = PieceCount THEN "cut" ELSE "mark")
    /\ UNCHANGED <<known, ser, up, strategy, marked, peerMap, conVars, bounds>>

TruncateFile(c) ==
    /\ At(c, "cut")
    /\ disk' = [disk EXCEPT ![c][PieceCount + 1] = "hole"]
    /\ Goto(c, "mark")
    /\ UNCHANGED <<known, ser, procVars, conVars, bounds, spoiled>>

MarkPiece(c) ==
    /\ At(c, "mark")
    /\ marked' = [marked EXCEPT ![c] = @ \cup {main[c].index}]
    /\ Goto(c, "index")
    /\ UNCHANGED <<diskVars, up, strategy, pos, peerMap, conVars, bounds,
                   spoiled>>

MainStep(c) == ReadKey(c) \/ ReadMap(c) \/ ReadIndex(c) \/ ReadBytes(c)
                   \/ SeekPiece(c) \/ WritePiece(c) \/ TruncateFile(c)
                   \/ MarkPiece(c)
-----------------------------------------------------------------------------
(* A ServerThread of d, which serves c.                                    *)

Serving(d, c, pc) == up[d] /\ srv[d][c].pc = pc
\* What is sent to a client that has gone is lost.
Answer(d, c, s) == ans' = IF con[c][d] = "open"
                          THEN [ans EXCEPT ![c][d] = @ \o s] ELSE ans

\* handleRequest; an unknown key is answered by an error and ends the thread
ServeRequest_UnknownIgnored(d, c) ==
    /\ Serving(d, c, "wait") /\ req[c][d] # <<>>
    /\ req' = [req EXCEPT ![c][d] = Tail(@)]
    /\ LET r == Head(req[c][d])
       IN  \/ (r.op = "error" \/ ~HasFile(d)) /\ UNCHANGED <<ans, srv>>
           \/ /\ r.op = "getpieces" /\ HasFile(d)
              /\ Answer(d, c, <<Word("data")>>)
              /\ srv' = [srv EXCEPT ![d][c] = [pc |-> "next",
                                               todo |-> r.parts]]
           \/ /\ r.op = "have" /\ HasFile(d)
              /\ Answer(d, c, <<Word("have")>>)
              /\ srv' = [srv EXCEPT ![d][c].pc = "map"]
    /\ UNCHANGED <<diskVars, procVars, main, con, bounds, spoiled>>

ServeRequest(d, c) ==
    /\ Serving(d, c, "wait") /\ req[c][d] # <<>>
    /\ req' = [req EXCEPT ![c][d] = Tail(@)]
    /\ LET r == Head(req[c][d])
       IN  \/ r.op = "error" /\ UNCHANGED <<ans, srv>>
           \/ /\ r.op # "error" /\ ~HasFile(d)
              /\ Answer(d, c, <<Word("error")>>)
              /\ srv' = [srv EXCEPT ![d][c].pc = "dead"]
           \/ /\ r.op = "getpieces" /\ HasFile(d)
              /\ Answer(d, c, <<Word("data")>>)
              /\ srv' = [srv EXCEPT ![d][c] = [pc |-> "next",
                                               todo |-> r.parts]]
           \/ /\ r.op = "have" /\ HasFile(d)
              /\ Answer(d, c, <<Word("have")>>)
              /\ srv' = [srv EXCEPT ![d][c].pc = "map"]
    /\ UNCHANGED <<diskVars, procVars, main, con, bounds, spoiled>>

\* sendHave: the buffer map follows
ServeMap(d, c) ==
    /\ Serving(d, c, "map")
    /\ Answer(d, c, <<Map(marked[d])>>)
    /\ srv' = [srv EXCEPT ![d][c].pc = "wait"]
    /\ UNCHANGED <<diskVars, procVars, main, con, req, bounds, spoiled>>

\* sendData: the index of the next piece, then, if there is the piece, a seek
ServeIndex(d, c) ==
    /\ Serving(d, c, "next") /\ srv[d][c].todo # <<>>
    /\ LET i == Head(srv[d][c].todo)
       IN  \/ /\ i \in marked[d]
              /\ Answer(d, c, <<Index(i)>>)
              /\ pos' = [pos EXCEPT ![d] = i]
              /\ srv' = [srv EXCEPT ![d][c].pc = "read"]
              /\ UNCHANGED spoiled
           \/ /\ i \notin marked[d]
              /\ Answer(d, c, <<Index(i), Word("error")>>)
              /\ srv' = [srv EXCEPT ![d][c].todo = Tail(@)]
              /\ spoiled' = spoiled \cup {"absent"} /\ UNCHANGED pos
    /\ UNCHANGED <<diskVars, up, strategy, marked, peerMap, main, con, req,
                   bounds>>

ServePiece(d, c) ==
    /\ Serving(d, c, "read")
    /\ LET i == Head(srv[d][c].todo)
           o == pos[d]
       IN  /\ Answer(d, c, PieceBytes(i, o = i /\ disk[d][o] = "right"))
           /\ spoiled' = IF o # i THEN spoiled \cup {"seek"} ELSE spoiled
           /\ pos' = [pos EXCEPT ![d] = Beyond(o)]
    /\ srv' = [srv EXCEPT ![d][c] = [pc |-> "next", todo |-> Tail(@.todo)]]
    /\ UNCHANGED <<diskVars, up, strategy, marked, peerMap, main, con, req,
                   bounds>>

ServeEnd(d, c) ==
    /\ Serving(d, c, "next") /\ srv[d][c].todo = <<>>
    /\ Answer(d, c, <<Word("end")>>)
    /\ srv' = [srv EXCEPT ![d][c].pc = "wait"]
    /\ UNCHANGED <<diskVars, procVars, main, con, req, bounds, spoiled>>

\* End of file is read as zeros, an unknown request, which ends the thread.
\* (Bound: c connects again only after that.)
ServeEof(d, c) ==
    /\ up[d] /\ srv[d][c].pc \in {"wait", "dead"}
    /\ req[c][d] = <<>> /\ con[c][d] = "none"
    /\ srv' = [srv EXCEPT ![d][c] = NoThread]
    /\ UNCHANGED <<diskVars, procVars, main, con, req, ans, bounds, spoiled>>

ServeStep(d, c) == ServeRequest(d, c) \/ ServeMap(d, c) \/ ServeIndex(d, c)
                       \/ ServePiece(d, c) \/ ServeEnd(d, c)
                       \/ ServeEof(d, c)

\* A thread that ends leaves its socket to the garbage collector.
SocketCollected(d, c) ==
    /\ srv[d][c].pc = "dead" /\ con[c][d] = "open"
    /\ con' = [con EXCEPT ![c][d] = "closed"]
    /\ req' = [req EXCEPT ![c][d] = <<>>]
    /\ UNCHANGED <<diskVars, procVars, main, ans, srv, bounds, spoiled>>
-----------------------------------------------------------------------------
(* Saved states, crashes and restarts.                                     *)

\* saveFileState: opening the file empties it.  (Bound: a state that no
\* restart will read is not saved.)
SaveOpen(c) ==
    /\ up[c] /\ known[c] # "none" /\ ncrash < MaxCrash
    /\ ser' = [ser EXCEPT ![c] = TornSave]
    /\ UNCHANGED <<known, disk, procVars, main, conVars, bounds, spoiled>>

SaveWrite(c) ==
    /\ up[c] /\ ser[c] = TornSave /\ ncrash < MaxCrash
    /\ ser' = [ser EXCEPT ![c] = Saved(c)]
    /\ UNCHANGED <<known, disk, procVars, main, conVars, bounds, spoiled>>

\* The process ends, by its own exit or not, and all its sockets close.
Crash(c) ==
    /\ up[c] /\ ncrash < MaxCrash /\ ncrash' = ncrash + 1
    /\ up' = [up EXCEPT ![c] = FALSE]
    /\ main' = [main EXCEPT ![c] = Idle]
    /\ marked' = [marked EXCEPT ![c] = {}] /\ pos' = [pos EXCEPT ![c] = 1]
    /\ peerMap' = [peerMap EXCEPT ![c] = [d \in Client |-> {}]]
    /\ srv' = [srv EXCEPT ![c] = [d \in Client |-> NoThread]]
    /\ con' = [b \in Client |-> [d \in Client |->
                   IF b = c THEN "none"
                   ELSE IF d = c /\ con[b][d] = "open" THEN "closed"
                   ELSE con[b][d]]]
    /\ req' = [b \in Client |-> [d \in Client |->
                   IF d = c THEN <<>> ELSE req[b][d]]]
    /\ ans' = [ans EXCEPT ![c] = [d \in Client |-> <<>>]]
    /\ UNCHANGED <<diskVars, strategy, nask, spoiled>>

\* FileManager's initializer: saved states first, then the files of the
\* directory, whose key is the MD5 of what they contain; a name that has
\* been restored is not added again.
LoadedState_DirectoryFirst(c) ==
    CASE known[c] = "none"                        -> NoSave
      [] known[c] # "none" /\ Complete(c)
                          -> [known |-> "seed", marked |-> Piece]
      [] OTHER            -> [known |-> "other", marked |-> {}]
LoadedState_KeyNotComputed(c) ==
    CASE known[c] = "none"                        -> NoSave
      [] known[c] # "none" /\ IntactSave(c)       -> ser[c]
      [] OTHER            -> [known |-> "seed", marked |-> Piece]
LoadedState(c) ==
    CASE known[c] = "none"                          -> NoSave
      [] known[c] # "none" /\ IntactSave(c)         -> ser[c]
      [] known[c] # "none" /\ ~IntactSave(c) /\ Complete(c)
                          -> [known |-> "seed", marked |-> Piece]
      [] OTHER            -> [known |-> "other", marked |-> {}]

Restart(c) ==
    /\ ~up[c] /\ up' = [up EXCEPT ![c] = TRUE]
    /\ LET s == LoadedState(c)
       IN  /\ known' = [known EXCEPT ![c] = s.known]
           /\ marked' = [marked EXCEPT ![c] = s.marked]
           /\ peerMap' = [peerMap EXCEPT ![c] =
                              [d \in Client |-> FreshMap(s.known)]]
    /\ UNCHANGED <<disk, ser, strategy, pos, main, conVars, bounds, spoiled>>
-----------------------------------------------------------------------------
Next ==
    \/ \E c \in Client : \/ Look(c) \/ MainStep(c) \/ SaveOpen(c)
                         \/ SaveWrite(c) \/ Crash(c) \/ Restart(c)
    \/ \E c, d \in Client :
          \/ \E parts \in Parts : AskPieces(c, d, parts)
          \/ AskMap(c, d)
          \/ ConnectFails(c, d) \/ ServeStep(d, c) \/ SocketCollected(d, c)

Spec == Init /\ [][Next]_vars
-----------------------------------------------------------------------------
(* Properties.                                                             *)

TypeOK ==
    /\ known \in [Client -> {"none", "part", "seed", "other"}]
    /\ disk \in [Client -> [Offset -> {"right", "wrong", "hole"}]]
    /\ \A c \in Client :
          /\ ser[c].known \in {"none", "torn", "part", "seed", "other"}
          /\ ser[c].marked \subseteq Piece
          /\ marked[c] \subseteq Piece /\ pos[c] \in Offset
          /\ main[c].pc \in {"idle", "key", "map", "index", "bytes", "seek",
                             "write", "cut", "mark", "dead"}
          /\ main[c].pc \notin {"idle", "dead"} => main[c].peer \in Client
          /\ main[c].index \in Piece /\ main[c].good \in BOOLEAN
          /\ \A d \in Client :
                /\ peerMap[c][d] \subseteq Piece
                /\ srv[c][d].pc \in {"none", "wait", "map", "next", "read",
                                  "dead"}
                /\ con[c][d] \in {"none", "open", "closed"}
                /\ \A i \in DOMAIN req[c][d] : req[c][d][i] \in Request
                /\ \A i \in DOMAIN ans[c][d] : ans[c][d][i] \in Token
    /\ up \in [Client -> BOOLEAN]
    /\ nask \in 0..MaxAsk /\ ncrash \in 0..MaxCrash
    /\ spoiled \subseteq {"short", "absent", "seek"}

\* No two clients can make each other believe in a piece that is not the
\* file's, through any crash, restart or old saved state, unless a read
\* returned less than a piece (receiveByte), a piece was asked from a client
\* without it (sendData), or two threads moved the same file offset
\* (readPiece, writePiece).
WrongPieceHasCause ==
    spoiled = {} => \A c \in Client : HasFile(c) =>
                        \A p \in marked[c] : disk[c][p] = "right"

\* A piece is marked, in memory and in a saved state that will be restored,
\* only if something was written there, wherever the process stopped
\* (writePiece against saveFileState), unless two threads shared the offset.
MarkedIsWritten ==
    "seek" \notin spoiled => \A c \in Client :
        /\ HasFile(c) => \A p \in marked[c] : disk[c][p] # "hole"
        /\ IntactSave(c) => \A p \in ser[c].marked : disk[c][p] # "hole"

\* What a client was told a peer has, the peer still has, as long as their
\* connection lasts (doInterested, doHave); of a seeded file all peers are
\* taken to have everything.
PeerMapHonest ==
    \A c, d \in Client : con[c][d] = "open" /\ known[c] = "part" =>
        peerMap[c][d] \subseteq marked[d]

\* An incomplete file that was saved is not lost: after any crash its name
\* stands for it, and not for a file keyed by its partial content (the order
\* of the two loads in FileManager).
SavedIsNotLost ==
    \A c \in Client : known[c] = "other" =>
        ser[c].known \notin {"part", "seed"}

\* A main thread that waits for a peer is owed an answer: its request is not
\* yet read, or the peer's thread is on it.  So no cycle of clients that wait
\* for each other blocks (doInterested, doHave, doGetpieces).  Except: the
\* "end" of an answer was taken for content after an "error" in place of a
\* piece; or the peer's thread has ended and left the socket open.
Waits(c) == /\ main[c].pc \in {"key", "map", "index", "bytes"}
            /\ con[c][main[c].peer] = "open" /\ Stream(c) = <<>>
Abandoned(c) == srv[main[c].peer][c].pc = "dead"
WaiterIsOwed ==
    \A c \in Client : Waits(c) /\ "absent" \notin spoiled =>
        \/ srv[main[c].peer][c].pc \in {"map", "next", "read"}
        \/ srv[main[c].peer][c].pc = "wait" /\ req[c][main[c].peer] # <<>>
        \/ Abandoned(c)
=============================================================================
