------------------------------ MODULE Console ------------------------------
(***************************************************************************)
(* The C tracker's prompt thread (tracker/prompt.c), which prints the      *)
(* table of clients and the registry of files while handler threads        *)
(* change them, and which Ctrl-C interrupts anywhere: the signal handler   *)
(* jumps back to the prompt and leaves behind the locks of the call it     *)
(* jumped out of (the network and the handler threads block SIGINT).       *)
(*                                                                         *)
(* Grain.  The prompt takes a lock, reads, and releases it in three steps. *)
(* A handler's call on a table is one step that needs the lock free: no    *)
(* signal interrupts it there.  ht_get_entry only reads, and shares the    *)
(* lock with the prompt.                                                   *)
(*                                                                         *)
(* Files are never freed.  A file is named by its number, a list of the    *)
(* table file_by_name by the file it was made for.  A definition named     *)
(* Op_Something is a faulty variant of Op.                                 *)
(***************************************************************************)
EXTENDS Naturals, Sequences, FiniteSets

CONSTANTS Client,    \* the clients, one connection each
          Name,      \* file names
          NoClient, NoName,
          Listing,   \* bound: the commands without a name that are typed
          MaxFile,   \* bound: files ever created
          Torn       \* bound: the calls Ctrl-C tears, one in a run

(* The commands as the calls they make, without the ones that only print a *)
(* text: "client list" and "peers", "file list", "ls", "peers NAME".       *)
prompt_command_client == <<"clients">>
prompt_command_file == <<"hash">>
prompt_command_ls == prompt_command_file \o prompt_command_client
prompt_command_peers == <<"name">>
Listings == {prompt_command_client, prompt_command_file, prompt_command_ls}

ASSUME ConsoleAssumption ==
    /\ Listing \subseteq Listings
    /\ Torn \subseteq {"clients", "hash", "name", "key", "list", "peers"}
    /\ MaxFile \in Nat /\ NoClient \notin Client /\ NoName \notin Name

VARIABLES
    clients, heap,              \* client.c: the table, the objects
    file_by_hash, file_by_name, \* file.c: files; name -> the lists under it
    lists, peers, nameOf,       \* list -> its files; f->clients; f->filename
    pc, file, list,             \* a client's handler: position and locals
    files_seed,                 \* the client's own list
    pr,                         \* the prompt thread: position and locals
    held,                       \* the locks the prompt holds
    leaked,                     \* those a jump has left locked
    fault,                      \* the table whose client was freed, if any
    victim,                     \* ... and that client
    forgot,                     \* forgot[f]: clients with an entry of an
                                \* earlier list or listening port in f's table
    raced                       \* history: names two handlers made a list for

clientVars == <<clients, heap, files_seed>>
fileVars == <<file_by_hash, file_by_name, lists, peers, nameOf>>
thrVars == <<pc, file, list>>
promptVars == <<pr, held, leaked, fault, victim>>
vars == <<clientVars, fileVars, thrVars, promptVars, forgot, raced>>

File == 1..MaxFile
AtPrompt == [pc |-> "read", op |-> "", rest |-> <<>>, name |-> NoName,
             snap |-> {}, l |-> 0, j |-> 0, n |-> 0, f |-> 0]

Init ==
    /\ clients = {} /\ heap = [c \in Client |-> "none"]
    /\ files_seed = [c \in Client |-> {}]
    /\ file_by_hash = {} /\ file_by_name = [n \in Name |-> {}]
    /\ lists = [l \in File |-> <<>>] /\ peers = [f \in File |-> {}]
    /\ nameOf = [f \in File |-> NoName]
    /\ pc = [c \in Client |-> "none"] /\ file = [c \in Client |-> 0]
    /\ list = [c \in Client |-> 0]
    /\ pr = AtPrompt /\ held = {} /\ leaked = {}
    /\ fault = "" /\ victim = NoClient
    /\ forgot = [f \in File |-> {}] /\ raced = {}

Running == fault = "" /\ pr.pc # "exited"
At(c, here) == Running /\ pc[c] = here
Goto(c, there) == pc' = [pc EXCEPT ![c] = there]

(* pthread_rwlock_wrlock or pthread_mutex_lock succeeds.                   *)
Unlocked(lock) == lock \notin held
-----------------------------------------------------------------------------
(* The handlers.  client_get_or_create enters the client in the table.     *)
client_create(c) ==
    /\ heap' = [heap EXCEPT ![c] = "live"]
    /\ files_seed' = [files_seed EXCEPT ![c] = {}]
ClientCreate(c) ==
    /\ At(c, "none") /\ Unlocked(<<"clients", 0>>)
    /\ client_create(c) /\ clients' = clients \cup {c}
    /\ Goto(c, "idle")
    /\ UNCHANGED <<fileVars, file, list, promptVars, forgot, raced>>

(* A request replaces the client's lists; the files it was in before keep  *)
(* it.  Here a list names one file, a new one or one that is known.        *)
Replace(c) ==
    /\ files_seed' = [files_seed EXCEPT ![c] = {}]
    /\ forgot' = [f \in File |->
                    IF c \in peers[f] THEN forgot[f] \cup {c} ELSE forgot[f]]

AnnounceNew(c, n) ==
    /\ At(c, "idle") /\ Unlocked(<<"hash", 0>>)
    /\ LET f == Cardinality(file_by_hash) + 1 IN
        /\ f <= MaxFile
        /\ file_by_hash' = file_by_hash \cup {f}
        /\ nameOf' = [nameOf EXCEPT ![f] = n]
        /\ file' = [file EXCEPT ![c] = f]
    /\ Replace(c) /\ Goto(c, "name")
    /\ UNCHANGED <<clients, heap, file_by_name, lists, peers, list,
                   promptVars, raced>>

AnnounceKnown(c, f) ==
    /\ At(c, "idle") /\ f \in file_by_hash
    /\ file' = [file EXCEPT ![c] = f]
    /\ Replace(c) /\ Goto(c, "join")
    /\ UNCHANGED <<clients, heap, fileVars, list, promptVars, raced>>

(* file_register: look for the list of the name, make one, add the file.   *)
NameFound(c, l) ==
    /\ At(c, "name") /\ l \in file_by_name[nameOf[file[c]]]
    /\ list' = [list EXCEPT ![c] = l]
    /\ Goto(c, "add")
    /\ UNCHANGED <<clientVars, fileVars, file, promptVars, forgot, raced>>

NameNotFound(c) ==
    /\ At(c, "name") /\ file_by_name[nameOf[file[c]]] = {}
    /\ Goto(c, "make")
    /\ UNCHANGED <<clientVars, fileVars, file, list, promptVars, forgot, raced>>

MakeList(c) ==
    /\ At(c, "make") /\ Unlocked(<<"name", 0>>)
    /\ LET n == nameOf[file[c]] IN
        /\ raced' = IF file_by_name[n] = {} THEN raced ELSE raced \cup {n}
        /\ file_by_name' = [file_by_name EXCEPT ![n] = @ \cup {file[c]}]
    /\ list' = [list EXCEPT ![c] = file[c]]
    /\ Goto(c, "add")
    /\ UNCHANGED <<clientVars, file_by_hash, lists, peers, nameOf, file,
                   promptVars, forgot>>

ListAdd_NewOnly(c) ==
    /\ At(c, "add") /\ Unlocked(<<"list", list[c]>>)
    /\ lists' = [lists EXCEPT ![list[c]] = IF @ = <<>> THEN <<file[c]>> ELSE @]
    /\ list' = [list EXCEPT ![c] = 0]
    /\ Goto(c, "join")
    /\ UNCHANGED <<clientVars, file_by_hash, file_by_name, peers, nameOf,
                   file, promptVars, forgot, raced>>

ListAdd(c) ==
    /\ At(c, "add") /\ Unlocked(<<"list", list[c]>>)
    /\ lists' = [lists EXCEPT ![list[c]] = <<file[c]>> \o @]
    /\ list' = [list EXCEPT ![c] = 0]
    /\ Goto(c, "join")
    /\ UNCHANGED <<clientVars, file_by_hash, file_by_name, peers, nameOf,
                   file, promptVars, forgot, raced>>

(* file_add_client.  The entry of an earlier request is the same one, or   *)
(* stands under another listening port and stays beside the new one.       *)
Join(c) ==
    /\ At(c, "join") /\ Unlocked(<<"peers", file[c]>>)
    /\ peers' = [peers EXCEPT ![file[c]] = @ \cup {c}]
    /\ files_seed' = [files_seed EXCEPT ![c] = {file[c]}]
    /\ forgot' \in {forgot, [forgot EXCEPT ![file[c]] = @ \ {c}]}
    /\ file' = [file EXCEPT ![c] = 0]
    /\ Goto(c, "idle")
    /\ UNCHANGED <<clients, heap, file_by_hash, file_by_name, lists, nameOf,
                   list, promptVars, raced>>

(* delete_client: out of the table, out of its files, where an entry under *)
(* an earlier port stays, then freed.                                      *)
DeleteClient(c) ==
    /\ At(c, "idle") /\ Unlocked(<<"clients", 0>>)
    /\ clients' = clients \ {c}
    /\ Goto(c, "delete")
    /\ UNCHANGED <<heap, files_seed, fileVars, file, list, promptVars, forgot,
                   raced>>

RemoveFromFile(c, f) ==
    /\ At(c, "delete") /\ f \in files_seed[c] /\ Unlocked(<<"peers", f>>)
    /\ files_seed' = [files_seed EXCEPT ![c] = @ \ {f}]
    /\ peers' = [peers EXCEPT ![f] = IF c \in forgot[f] THEN @ ELSE @ \ {c}]
    /\ UNCHANGED <<clients, heap, file_by_hash, file_by_name, lists, nameOf,
                   thrVars, promptVars, forgot, raced>>

ClientFree_First(c) ==
    /\ At(c, "delete") /\ heap[c] = "live"
    /\ heap' = [heap EXCEPT ![c] = "freed"]
    /\ UNCHANGED <<clients, files_seed, fileVars, thrVars, promptVars, forgot,
                   raced>>

ClientFree(c) ==
    /\ At(c, "delete") /\ files_seed[c] = {}
    /\ heap' = [heap EXCEPT ![c] = "freed"]
    /\ Goto(c, "gone")
    /\ UNCHANGED <<clients, files_seed, fileVars, file, list, promptVars,
                   forgot, raced>>
-----------------------------------------------------------------------------
(* The prompt.  A command is a list of calls; each locks one table or list *)
(* (ht_to_list, ht_get_entry, list_get, ht_for_each), reads and unlocks.   *)
Prompting(here) == Running /\ pr.pc = here
PromptAlone == UNCHANGED <<clientVars, fileVars, thrVars, forgot, raced>>
NoFault == UNCHANGED <<fault, victim>>

Lock ==
    CASE pr.op \in {"clients", "name"} -> <<pr.op, 0>>
      [] pr.op \in {"hash", "key"} -> <<"hash", 0>>
      [] pr.op = "list" -> <<"list", pr.l>>
      [] pr.op = "peers" -> <<"peers", pr.f>>

(* The next call of the command, or the prompt again.                      *)
Done(p) ==
    IF p.rest = <<>> THEN AtPrompt
    ELSE [AtPrompt EXCEPT !.pc = "lock", !.op = Head(p.rest), !.rest = Tail(p.rest)]
NextFile(p) ==
    IF p.j >= p.n THEN Done(p)
    ELSE [p EXCEPT !.j = @ + 1, !.op = "list", !.pc = "lock"]

(* eval: a listing or "peers NAME".  The other commands touch nothing the  *)
(* threads share.                                                          *)
Eval(ops, n) ==
    /\ Prompting("read")
    /\ pr' = [Done([pr EXCEPT !.rest = ops]) EXCEPT !.name = n]
    /\ PromptAlone /\ NoFault /\ UNCHANGED <<held, leaked>>

Quit ==
    /\ Prompting("read")
    /\ pr' = [pr EXCEPT !.pc = "exited"]
    /\ PromptAlone /\ NoFault /\ UNCHANGED <<held, leaked>>

(* Read locks are shared: one the prompt itself left behind does not stop  *)
(* it.  A list has a mutex, which does.                                    *)
PromptLock ==
    /\ Prompting("lock")
    /\ pr.op = "list" => Unlocked(Lock)
    /\ pr.op = "peers" => peers[pr.f] # {}
    /\ held' = held \cup {Lock}
    /\ pr' = [pr EXCEPT !.pc = "in"]
    /\ PromptAlone /\ NoFault /\ UNCHANGED leaked

Read(p) ==
    /\ Prompting("in")
    /\ pr' = [p EXCEPT !.pc = "unlock"]
    /\ PromptAlone /\ UNCHANGED <<held, leaked>>

(* client_list copies the table; file_list does, and its files stay.       *)
ReadClients == pr.op = "clients" /\ Read([pr EXCEPT !.snap = clients]) /\ NoFault
ReadFiles == pr.op = "hash" /\ Read(pr) /\ NoFault

(* print_peer_list: file_get_by_name, or file_get_by_key with the same     *)
(* word; the j-th file of the list, whose size was read before the loop.   *)
ReadName ==
    /\ pr.op = "name"
    /\ \/ \E l \in file_by_name[pr.name] : Read([pr EXCEPT !.l = l])
       \/ file_by_name[pr.name] = {} /\ Read(pr)
    /\ NoFault
ReadKey == pr.op = "key" /\ NoFault
           /\ \E f \in file_by_hash \cup {0} : Read([pr EXCEPT !.f = f])
ReadList == pr.op = "list" /\ Read([pr EXCEPT !.f = lists[pr.l][pr.j]]) /\ NoFault

(* file_print_peer_list follows the clients of the file inside the lock.   *)
Follow(table, c) ==
    IF heap[c] = "freed" THEN fault' = table /\ victim' = c ELSE NoFault
ReadPeers ==
    /\ pr.op = "peers" /\ Read(pr)
    /\ \/ \E c \in peers[pr.f] : heap[c] = "freed" /\ Follow("peers", c)
       \/ (\A c \in peers[pr.f] : heap[c] = "live") /\ NoFault

(* ... and returns before the lock when the count of its clients is 0.     *)
NoPeers ==
    /\ Prompting("lock") /\ pr.op = "peers" /\ peers[pr.f] = {}
    /\ pr' = NextFile(pr)
    /\ PromptAlone /\ NoFault /\ UNCHANGED <<held, leaked>>

AfterCall ==
    CASE pr.op = "clients" -> [pr EXCEPT !.pc = "print"]
      [] pr.op = "hash" -> Done(pr)
      [] pr.op = "name" -> IF pr.l = 0 THEN [pr EXCEPT !.op = "key", !.pc = "lock"]
                           ELSE NextFile([pr EXCEPT !.n = Len(lists[pr.l])])
      [] pr.op = "list" -> [pr EXCEPT !.op = "peers", !.pc = "lock"]
      [] pr.op = "key" -> IF pr.f = 0 THEN Done(pr)
                          ELSE [pr EXCEPT !.op = "peers", !.pc = "lock"]
      [] pr.op = "peers" -> NextFile(pr)

PromptUnlock_FoundOnly ==
    /\ Prompting("unlock")
    /\ held' = IF pr.op = "name" /\ pr.l = 0 THEN held
               ELSE (held \ {Lock}) \cup leaked
    /\ pr' = AfterCall
    /\ PromptAlone /\ NoFault /\ UNCHANGED leaked

PromptUnlock ==
    /\ Prompting("unlock")
    /\ held' = (held \ {Lock}) \cup leaked
    /\ pr' = AfterCall
    /\ PromptAlone /\ NoFault /\ UNCHANGED leaked

(* print_client_list follows the copied pointers, with no lock.            *)
PrintClient ==
    /\ Prompting("print")
    /\ IF pr.snap = {} THEN pr' = Done(pr) /\ NoFault
       ELSE \E c \in pr.snap :
              pr' = [pr EXCEPT !.snap = @ \ {c}] /\ Follow("clients", c)
    /\ PromptAlone /\ UNCHANGED <<held, leaked>>

(* ctrlc_handler: siglongjmp to the loop of read_eval_loop.                *)
CtrlC ==
    /\ Running
    /\ held = leaked \/ (leaked = {} /\ pr.op \in Torn)
    /\ pr' = AtPrompt /\ leaked' = held
    /\ PromptAlone /\ NoFault /\ UNCHANGED held
-----------------------------------------------------------------------------
Handler(c) ==
    \/ NameNotFound(c) \/ MakeList(c) \/ ListAdd(c) \/ Join(c) \/ ClientFree(c)
    \/ \E f \in File : NameFound(c, f) \/ RemoveFromFile(c, f)

Request(c) ==
    \/ ClientCreate(c) \/ DeleteClient(c)
    \/ \E n \in Name : AnnounceNew(c, n)
    \/ \E f \in File : AnnounceKnown(c, f)

Command ==
    \/ Quit \/ CtrlC
    \/ \E ops \in Listing : Eval(ops, NoName)
    \/ \E n \in Name : Eval(prompt_command_peers, n)

Prompt ==
    \/ PromptLock \/ NoPeers \/ PromptUnlock \/ PrintClient
    \/ ReadClients \/ ReadFiles \/ ReadName \/ ReadKey \/ ReadList \/ ReadPeers

Next == (\E c \in Client : Handler(c) \/ Request(c)) \/ Command \/ Prompt

(* Threads run; a handler blocked on a lock gets it in the end if it is    *)
(* free again and again.  Nobody has to type, connect or disconnect.       *)
Spec ==
    /\ Init /\ [][Next]_vars /\ WF_vars(Prompt)
    /\ \A c \in Client : SF_vars(Handler(c))
-----------------------------------------------------------------------------
TypeOK ==
    /\ clients \subseteq Client /\ heap \in [Client -> {"none", "live", "freed"}]
    /\ file_by_hash \subseteq File /\ file_by_name \in [Name -> SUBSET File]
    /\ \A f \in File : lists[f] \in Seq(File) /\ peers[f] \subseteq Client
    /\ pc \in [Client -> {"none", "idle", "name", "make", "add", "join",
                          "delete", "gone"}]
    /\ leaked \subseteq held

(* Looking at the tracker does not stop it: a handler that has begun to    *)
(* change the registry, or to delete its client, gets every lock it needs  *)
(* and finishes, unless a Ctrl-C has hit the prompt inside a call and left *)
(* that call's lock behind.                                                *)
HandlerFinishes ==
    \A c \in Client :
        (pc[c] \in {"name", "make", "add", "join", "delete"})
            ~> (pc[c] \in {"idle", "gone"} \/ ~Running \/ leaked # {})

(* The prompt follows a freed client only where no lock protects it: from  *)
(* its copy of the table, after the client has left the table, or from a   *)
(* file the client had announced before it replaced its lists.             *)
FreedHasCause ==
    /\ fault = "clients" => victim \notin clients
    /\ fault = "peers" => victim \in forgot[pr.f]

Holds(l, f) == \E i \in 1..Len(lists[l]) : lists[l][i] = f

(* "peers NAME" finds every file that has been registered under the name,  *)
(* in whatever list the lookup returns, unless two handlers have made a    *)
(* list for that name at the same time.                                    *)
FoundByName ==
    \A f \in file_by_hash :
        (\A c \in Client : pc[c] \in {"name", "make", "add"} => file[c] # f)
        => /\ \E l \in file_by_name[nameOf[f]] : Holds(l, f)
           /\ \/ nameOf[f] \in raced
              \/ \A l \in file_by_name[nameOf[f]] : Holds(l, f)
============================================================================
