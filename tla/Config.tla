------------------------------- MODULE Config -------------------------------
(***************************************************************************)
(* The start of the C tracker: parse_options takes the options of the      *)
(* command line, yaml2_parse_file builds a tree from the events libyaml    *)
(* makes of the configuration file, load_config_file takes the options of  *)
(* its root, and main reads them, starts the prompt or leaves the console, *)
(* and listens.                                                            *)
(*                                                                         *)
(* libyaml is external: any legal sequence of events of one document, with *)
(* an error at any point.  What the events mean is kept beside the parser, *)
(* in doc.  The help and version texts are left out, and of the path of    *)
(* the file all but its place among the options.  A definition named       *)
(* Op_Something is a faulty variant of Op, no part of the specification.   *)
(***************************************************************************)
EXTENDS UtHash

CONSTANTS Text,                  \* the scalars, keys and arguments
          Port, Daemonize, Conf, \* keys of options, "port" and so on
          One,                   \* the text "1"
          Number,                \* what atoi makes of a text, [Text -> Int]
          None, Freed,           \* keyname: NULL, memory given back
          StackMax,              \* size of parser_stack, 100 in the code
          MaxArgs, MaxEvents     \* bounds: options, events

ASSUME ConfigAssumption ==
    /\ {Port, Daemonize, Conf, One} \subseteq Text
    /\ Text \subseteq DOMAIN Hash
    /\ None \notin Text \cup {Freed} /\ Freed \notin Text
    /\ Number \in [Text -> Int]
    /\ StackMax \in Nat \ {0} /\ MaxArgs \in Nat /\ MaxEvents \in Nat

VARIABLES phase,     \* "args" | "parse" | "load" | "run" | "serve" |
                     \* "listen" | "exit" | "crash"
          options,   \* the table of options: list, the keys and texts in the
                     \* order they were added; tbl, the uthash of them, whose
                     \* data are places in list; turned, its history
          nargs,     \* how many of them the command line has set
          nodes,     \* the yaml_wraps: type, text, and children with their keys
          pstack, expectValue, keyname,   \* parser_stack, key, keyname
          yamlw,     \* what *yamlw points to: a node, Null or Unset
          open,      \* libyaml: where in the document the next node is
          nevents,
          doc,       \* history: the pairs of the document's root
          odd,       \* history: what the parser is not made for
          started    \* the port listened to; the prompt's thread, none in a
                     \* daemon: "no" | "yes" | "failed"

parser == <<nodes, pstack, expectValue, keyname, yamlw>>
source == <<open, nevents, doc, odd>>
configVars == <<phase, options, nargs, parser, source, started>>

Null == 0
Unset == -1
NotStarted == [port |-> -1, prompt |-> "no"]
NoOptions == [list |-> <<>>, tbl |-> NewTable, turned |-> <<>>]
stack_create == <<>>

ConfigInit ==
    /\ phase = "args" /\ options = NoOptions /\ nargs = 0
    /\ nodes = <<>> /\ pstack = stack_create /\ expectValue = FALSE /\ keyname = None
    /\ yamlw = Unset
    /\ open = <<"root">> /\ nevents = 0 /\ doc = <<>> /\ odd = {}
    /\ started = NotStarted
-----------------------------------------------------------------------------
(* ht_add_entry and ht_has_entry on a table of options.                    *)
OptionAdded(o, k, v) ==
    LET t == TableAdded(o.tbl, Entry(k, Len(o.list) + 1))
    IN  [list |-> Append(o.list, [key |-> k, text |-> v]), tbl |-> t,
         turned |-> Turned(o.turned, Grown(o.tbl, t))]
HasOption(o, k) == HashFind(o.tbl, k) # <<>>

(* parse_options: each option is added to the table, whatever it holds.    *)
SetOpt(k, v) ==
    /\ phase = "args" /\ nargs < MaxArgs
    /\ options' = OptionAdded(options, k, v)
    /\ nargs' = nargs + 1
    /\ UNCHANGED <<phase, parser, source, started>>

(* --help, --version, a missing file or an unknown option.                 *)
OptionExits ==
    /\ phase = "args" /\ phase' = "exit"
    /\ UNCHANGED <<options, nargs, parser, source, started>>

(* load_config_file: without a file it is done.                            *)
NoConfigFile ==
    /\ phase = "args" /\ phase' = "run"
    /\ UNCHANGED <<options, nargs, parser, source, started>>
OpenConfigFile ==
    /\ phase = "args" /\ phase' = "parse"
    /\ UNCHANGED <<options, nargs, parser, source, started>>
-----------------------------------------------------------------------------
(* The top of a stack and what is below it.                                *)
stack_is_empty(s) == s = <<>>
stack_peek(s) == s[Len(s)]
BelowTop(s) == SubSeq(s, 1, Len(s) - 1)

(* The document: the position of the next node once one has begun here.    *)
Here == stack_peek(open)
NextHere ==
    [open EXCEPT ![Len(open)] = CASE Here = "key" -> "value"
                                  [] Here = "value" -> "key"
                                  [] Here = "item" -> "item"
                                  [] Here = "root" -> "done"]
InRootMapping == Len(open) = 2 /\ nodes[1].type = "mapping"
NodeExpected ==
    phase = "parse" /\ Here \in {"root", "key", "value", "item"}
    /\ nevents < MaxEvents

(* The pairs of the root: val is None if it is no scalar, or an unfinished *)
(* pair's.                                                                 *)
Documented(v) ==
    doc' = IF ~InRootMapping THEN doc
           ELSE IF Here = "key" THEN Append(doc, [key |-> v, val |-> None])
           ELSE [doc EXCEPT ![Len(doc)].val = v]
Counted == nevents' = nevents + 1

(* stack_push and stack_pop: neither tells that it has done nothing.       *)
stack_is_full(s) == Len(s) = StackMax
Pushed(s, id) == IF stack_is_full(s) THEN s ELSE Append(s, id)
Popped(s) == IF stack_is_empty(s) THEN s ELSE BelowTop(s)

(* parser_stack_push hangs a new node into the one on top of the stack; a  *)
(* mapping needs a keyname, which is freed.                                *)
TopIs(t) == ~stack_is_empty(pstack) /\ nodes[stack_peek(pstack)].type = t
BadKeyname == (TopIs("mapping") /\ keyname = None) \/ keyname = Freed
NewNode == Len(nodes) + 1
Hung(type, v) ==
    LET grown == Append(nodes, [type |-> type, text |-> v, kids |-> <<>>])
    IN  IF TopIs("mapping") \/ TopIs("sequence")
        THEN [grown EXCEPT ![stack_peek(pstack)].kids =
                 Append(@, [key |-> keyname, node |-> NewNode])]
        ELSE grown
parser_stack_push(type, v) ==
    /\ nodes' = Hung(type, v) /\ pstack' = Pushed(pstack, NewNode)
    /\ keyname' = None

(* strdup(NULL) in ht_add_entry, or a second free.                         *)
CrashOnKey == phase' = "crash" /\ UNCHANGED <<parser, started>>

Deep == IF stack_is_full(pstack) THEN {"too deep"} ELSE {}
OddKey == IF Here = "key" THEN {"collection as a key"} ELSE {}

MappingStart_KeepsKey ==
    /\ NodeExpected /\ Counted /\ Documented(None)
    /\ open' = Append(NextHere, "key")
    /\ odd' = odd \cup Deep \cup OddKey
    /\ IF BadKeyname THEN CrashOnKey
       ELSE /\ parser_stack_push("mapping", None)
            /\ UNCHANGED <<phase, expectValue, yamlw, started>>
    /\ UNCHANGED <<options, nargs>>

MappingStart ==
    /\ NodeExpected /\ Counted /\ Documented(None)
    /\ open' = Append(NextHere, "key")
    /\ odd' = odd \cup Deep \cup OddKey
    /\ IF BadKeyname THEN CrashOnKey
       ELSE /\ expectValue' = FALSE
            /\ parser_stack_push("mapping", None)
            /\ UNCHANGED <<phase, yamlw, started>>
    /\ UNCHANGED <<options, nargs>>

(* The value that a sequence is does not end the wait for a value.         *)
SequenceStart ==
    /\ NodeExpected /\ Counted /\ Documented(None)
    /\ open' = Append(NextHere, "item")
    /\ odd' = odd \cup Deep \cup OddKey
                  \cup (IF Here = "value" THEN {"sequence as a value"} ELSE {})
    /\ IF BadKeyname THEN CrashOnKey
       ELSE /\ parser_stack_push("sequence", None)
            /\ UNCHANGED <<phase, expectValue, yamlw, started>>
    /\ UNCHANGED <<options, nargs>>

CollectionEnd ==
    /\ phase = "parse" /\ Len(open) > 1 /\ Here \in {"key", "item"}
    /\ nevents < MaxEvents /\ Counted
    /\ open' = BelowTop(open)
    /\ yamlw' = IF stack_is_empty(pstack) THEN Null ELSE stack_peek(pstack)
    /\ pstack' = Popped(pstack)
    /\ UNCHANGED <<phase, options, nargs, nodes, expectValue, keyname, doc,
                   odd, started>>

(* A scalar is a key, or a leaf, which is pushed to be popped again; the   *)
(* one the whole document is stays.                                        *)
ScalarIsKey(v) ==
    /\ TopIs("mapping") /\ ~expectValue
    /\ keyname' = v /\ expectValue' = TRUE
    /\ UNCHANGED <<phase, nodes, pstack, yamlw, started>>

ScalarIsLeaf(v) ==
    /\ ~stack_is_empty(pstack) /\ (TopIs("mapping") => expectValue)
    /\ IF BadKeyname \/ TopIs("scalar")   \* TopIs("scalar"): the assert
       THEN CrashOnKey
       ELSE /\ nodes' = Hung("scalar", v)
            /\ pstack' = Popped(Pushed(pstack, NewNode))
            /\ keyname' = IF TopIs("mapping") \/ keyname = None THEN None
                          ELSE Freed
            /\ expectValue' = (expectValue /\ ~TopIs("mapping"))
            /\ UNCHANGED <<phase, yamlw, started>>

ScalarIsRoot(v) ==
    /\ stack_is_empty(pstack)
    /\ keyname' = keyname
    /\ nodes' = Hung("scalar", v) /\ pstack' = Pushed(pstack, NewNode)
    /\ UNCHANGED <<phase, expectValue, yamlw, started>>

Scalar(v) ==
    /\ NodeExpected /\ Counted /\ Documented(v)
    /\ open' = NextHere
    /\ odd' = odd \cup Deep
    /\ ScalarIsKey(v) \/ ScalarIsLeaf(v) \/ ScalarIsRoot(v)
    /\ UNCHANGED <<options, nargs>>

(* An alias of an earlier node falls under the default case: nothing.      *)
Alias ==
    /\ NodeExpected /\ Counted /\ Here # "root" /\ Documented(None)
    /\ open' = NextHere
    /\ odd' = odd \cup {"alias"}
    /\ UNCHANGED <<phase, options, nargs, parser, started>>

(* The end of the first document ends the parse.                           *)
DocumentEnd ==
    /\ phase = "parse" /\ open = <<"done">>
    /\ phase' = "load"
    /\ yamlw' = IF stack_is_empty(pstack) THEN yamlw ELSE stack_peek(pstack)
    /\ pstack' = Popped(pstack)
    /\ UNCHANGED <<options, nargs, nodes, expectValue, keyname, source, started>>

(* A file without a document.                                              *)
StreamEnd ==
    /\ phase = "parse" /\ open = <<"root">>
    /\ phase' = "load" /\ odd' = odd \cup {"no document"}
    /\ UNCHANGED <<options, nargs, parser, open, nevents, doc, started>>

(* An error of libyaml: the file is skipped, with what has been read.      *)
ParserError ==
    /\ phase = "parse" /\ phase' = "run"
    /\ doc' = <<>>
    /\ UNCHANGED <<options, nargs, parser, open, nevents, odd, started>>
-----------------------------------------------------------------------------
(* load_config_file after the parse.  yw is not initialised: when nothing  *)
(* has set it, it may point anywhere.                                      *)
LoadCrashes ==
    /\ phase = "load" /\ yamlw \in {Unset, Null}
    /\ phase' = "crash"
    /\ UNCHANGED <<options, nargs, parser, source, started>>

LoadSkips ==
    /\ phase = "load"
    /\ yamlw # Null
    /\ yamlw # Unset => nodes[yamlw].type # "mapping"
    /\ phase' = "run"
    /\ UNCHANGED <<options, nargs, parser, source, started>>

(* load_option_from_config, for each entry in the order of insertion.      *)
ScalarAdded(o, kid) ==
    IF nodes[kid.node].type = "scalar"
    THEN OptionAdded(o, kid.key, nodes[kid.node].text) ELSE o
OptionLoaded_Always(o, kid) == ScalarAdded(o, kid)
OptionLoaded(o, kid) ==
    IF HasOption(o, kid.key) THEN o ELSE ScalarAdded(o, kid)

OptionsLoaded(kids) ==
    LET opts[i \in 0..Len(kids)] ==
            IF i = 0 THEN options ELSE OptionLoaded(opts[i - 1], kids[i])
    IN  opts[Len(kids)]

LoadOptions ==
    /\ phase = "load"
    /\ yamlw \notin {Unset, Null} /\ nodes[yamlw].type = "mapping"
    /\ options' = OptionsLoaded(nodes[yamlw].kids)
    /\ phase' = "run"
    /\ UNCHANGED <<nargs, parser, source, started>>

(* ht_get_entry, and atoi of what it finds.                                *)
OptionText(k) == options.list[HashFind(options.tbl, k)[1].data].text
option_get_port ==
    IF HasOption(options, Port) THEN Number[OptionText(Port)] % 65536
    ELSE 8000
option_daemonize ==
    HasOption(options, Daemonize) /\ Number[OptionText(Daemonize)] # 0

(* main.  A daemon is a child in a session of its own, without a prompt;   *)
(* the parent exits, which a process that could not fork takes itself for. *)
deamonize ==
    /\ phase = "run" /\ option_daemonize
    /\ phase' \in {"serve", "exit"}
    /\ UNCHANGED <<options, nargs, parser, source, started>>

(* Failing to create the thread goes unnoticed.                            *)
start_command_prompt_thread ==
    /\ phase = "run" /\ ~option_daemonize
    /\ phase' = "serve"
    /\ \E thread \in {"yes", "failed"} :
          started' = [started EXCEPT !.prompt = thread]
    /\ UNCHANGED <<options, nargs, parser, source>>

(* server_run: make_listener_socket exits when the port is in use.         *)
make_listener_socket ==
    /\ phase = "serve"
    /\ \/ phase' = "listen" /\ started' = [started EXCEPT !.port = option_get_port]
       \/ phase' = "exit" /\ UNCHANGED started
    /\ UNCHANGED <<options, nargs, parser, source>>

ConfigNext ==
    \/ \E v \in Text : SetOpt(Port, v) \/ Scalar(v)
    \/ SetOpt(Daemonize, One) \/ SetOpt(Conf, One)
    \/ OptionExits \/ NoConfigFile \/ OpenConfigFile
    \/ MappingStart \/ SequenceStart \/ CollectionEnd \/ Alias
    \/ DocumentEnd \/ StreamEnd \/ ParserError
    \/ LoadCrashes \/ LoadSkips \/ LoadOptions
    \/ deamonize \/ start_command_prompt_thread \/ make_listener_socket

ConfigSpec == ConfigInit /\ [][ConfigNext]_configVars
-----------------------------------------------------------------------------
(* What an option should be: one of the values of the command line if it   *)
(* has any, or else the first scalar the document's root gives it, or else *)
(* the default, for which None stands.                                     *)
FromArgs(k) == {i \in 1..nargs : options.list[i].key = k}
FromFile(k) == {i \in 1..Len(doc) : doc[i].key = k /\ doc[i].val # None}
Resolved(k, v) ==
    IF FromArgs(k) # {}
    THEN \E i \in FromArgs(k) :
            /\ FoundOf(FromArgs(k), i, options.turned)
            /\ v = options.list[i].text
    ELSE IF FromFile(k) # {}
    THEN \E i \in FromFile(k) :
            (\A j \in FromFile(k) : i <= j) /\ v = doc[i].val
    ELSE v = None

(* The tracker listens to the port and has the prompt the command line and *)
(* the file ask for, however deep mappings are nested in the file, unless  *)
(* the file has what the parser is not made for.  The file never wins over *)
(* the command line, but it can make the table of options grow, and then   *)
(* an option repeated on the command line has another of its values.       *)
OptionsResolved ==
    phase = "listen" /\ odd = {} =>
        /\ \E v \in Text \cup {None} :
              /\ Resolved(Port, v)
              /\ started.port = IF v = None THEN 8000 ELSE Number[v] % 65536
        /\ \E v \in Text \cup {None} :
              /\ Resolved(Daemonize, v)
              /\ started.prompt = "no" <=> v # None /\ Number[v] # 0

(* A configuration file crashes the tracker only if it has no document, or *)
(* has a sequence as a value, a collection as a key, an alias or more      *)
(* levels than the parser's stack: the parser then takes a key for a value *)
(* and has no name to store it under.                                      *)
CrashHasCause == phase = "crash" => odd # {}
=============================================================================
