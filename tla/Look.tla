-------------------------------- MODULE Look --------------------------------
(***************************************************************************)
(* The look request of the two trackers: a list of criteria, each a field, *)
(* an operator and a value, is applied to the files one criterion after    *)
(* the other.  The C tracker hands every criterion to six processors, one  *)
(* per operator; the C++ tracker looks for one that matches.               *)
(*                                                                         *)
(* Both search a criterion's text for an operator followed by a quote,     *)
(* which stands in it once.  A definition named Op_Something is a faulty   *)
(* variant of Op, no part of the specification.                            *)
(***************************************************************************)
EXTENDS Integers, Sequences, FiniteSets, HeadInsertion

CONSTANTS LookFile,      \* the files: records of name, size, piece and hash
          LookName,      \* names, hashes and the values compared with them
          LookNumber,    \* the numbers of requests, some of them negative
          NotANumber,    \* a value without digits
          ULong,         \* unsigned long is modulo this, 2^64 in the code
          MaxFiles,      \* bound: files registered
          MaxCriteria    \* bound: criteria in a request

ASSUME LookAssumption ==
    /\ LookNumber \subseteq Int /\ NotANumber \notin LookNumber
    /\ MaxFiles \in Nat /\ MaxCriteria \in Nat /\ ULong \in Nat
    /\ \A f \in LookFile : f.size \in 0..(ULong - 1) /\ f.piece \in 0..(ULong - 1)

Operator == {"=", "!=", ">=", "<=", ">", "<"}
Criterion ==
    [field : {"filename", "hash", "other"}, op : Operator, value : LookName]
        \cup [field : {"filesize", "piecesize", "other"}, op : Operator,
              value : LookNumber \cup {NotANumber}]
        \cup [field : {"filename"}, op : {"none"}, value : LookName]

(* The text after the command: criteria in brackets, or something else.   *)
LookRequest ==
    [bracketed : {TRUE},
     words : UNION {[1..n -> Criterion] : n \in 0..MaxCriteria}]
        \cup [bracketed : {FALSE}, words : {<<>>}]

VARIABLES table,   \* the files registered, in the order of the C table
          asked,   \* the request made, if any: one, as a look changes nothing
          creply,  \* the C tracker's answer: the files it lists, in order
          cppreply \* the C++ tracker's: the set of the files it lists

lookVars == <<table, asked, creply, cppreply>>

NoReply == <<"none">>
Refusal == <<"error">>

(* The files registered before the request, each of them once.             *)
Files(l) == {l[i] : i \in 1..Len(l)}
file_list == {l \in UNION {[1..n -> LookFile] : n \in 0..MaxFiles} :
                 \A i, j \in 1..Len(l) : l[i] = l[j] => i = j}

LookInit ==
    /\ table \in file_list
    /\ asked = <<>> /\ creply = NoReply /\ cppreply = NoReply

(* What is compared: a negative number becomes a large one.                *)
Unsigned(n) == n % ULong
Compare(a, op, b) ==
    CASE op = "=" -> a = b [] op = "!=" -> a # b
      [] op = ">=" -> a >= b [] op = "<=" -> a <= b
      [] op = ">" -> a > b [] op = "<" -> a < b
-----------------------------------------------------------------------------
(* The C tracker.  string_split2 finds an operator's text at the end of a  *)
(* longer one's as well, and takes the rest of that for the field's.       *)
SplitsInTwo(c, op) ==
    c.op = op \/ (op = "=" /\ c.op \in {"!=", ">=", "<="})
FieldSeen(c, op) == IF c.op = op THEN c.field ELSE "other"

atol(v) == IF v = NotANumber THEN 0 ELSE v

(* DEFINE_CRITERION_PROCESSOR: the files the operator's code lets pass; no *)
(* code is for the field otherwise, and the list stays.                    *)
HasCode_NoName(field, op) == field = "filesize"
HasCode(field, op) ==
    field = "filesize" \/ (field = "filename" /\ op \in {"=", "!="})
Passes(f, field, op, v) ==
    IF field = "filename" THEN Compare(f.name, op, v)
    ELSE Compare(f.size, op, Unsigned(atol(v)))

(* PROCESS_LIST adds each file that passes at the front of the new list.   *)
process_criterion_op(c, l, op) ==
    IF SplitsInTwo(c, op) /\ HasCode(FieldSeen(c, op), op)
    THEN PutAtHead(l, {f \in LookFile : Passes(f, c.field, op, c.value)})
    ELSE l

process_criterion(c, l) ==
    LET p(left, op) == process_criterion_op(c, left, op)
    IN  p(p(p(p(p(p(l, "!="), ">="), "<="), "="), "<"), ">")

(* string_split puts each word in front of a list and copies it backwards. *)
string_split(words) ==
    LET li == PutAtHead(words, Criterion)
        s == Len(li)
    IN  [j \in 1..s |-> li[s + 1 - j]]

prot_look_process_criterions(words) ==
    LET criterions == string_split(words)
        l[i \in 0..Len(criterions)] ==
            IF i = 0 THEN table ELSE process_criterion(criterions[i], l[i - 1])
    IN  l[Len(criterions)]

(* What a listing tells of a file.                                         *)
Told(f) == <<f.name, f.size, f.piece, f.hash>>
prot_look_build_file_list(l) == [i \in 1..Len(l) |-> Told(l[i])]

prot_look(r) ==
    IF ~r.bracketed THEN Refusal
    ELSE <<"list", prot_look_build_file_list(
                       prot_look_process_criterions(r.words))>>
-----------------------------------------------------------------------------
(* The C++ tracker: CriterionVec::criterions, with the predicates that     *)
(* make_num_field and make_string_field give the operators.                *)
NumField == {"filesize", "piecesize"}
Predicate_Strict(field, op) == IF op = "<=" THEN "<" ELSE op
Predicate(field, op) ==
    IF field \notin NumField THEN op
    ELSE CASE op = "=" -> "!=" [] op = "!=" -> "=" [] OTHER -> op

match(c) ==
    \/ c.field \in NumField /\ c.op \in Operator
    \/ c.field \in {"filename", "hash"} /\ c.op \in {"=", "!="}

FieldOf(f, field) ==
    CASE field = "filename" -> f.name [] field = "hash" -> f.hash
      [] field = "filesize" -> f.size [] field = "piecesize" -> f.piece

applyCriterion(c, s) ==
    LET v == IF c.field \in NumField THEN Unsigned(c.value) ELSE c.value
    IN  {f \in s : Compare(FieldOf(f, c.field), Predicate(c.field, c.op), v)}

(* stoul throws, when there is a file to compare with.                     *)
Throws(c, s) ==
    match(c) /\ c.field \in NumField /\ c.value = NotANumber /\ s # {}

(* parseCriterion: no file matches a criterion that nothing matches.       *)
parseCriterion(c, s) == IF match(c) THEN applyCriterion(c, s) ELSE {}
getSet == Files(table)
fileListString(s) == <<"list", {Told(f) : f \in s}>>

(* parseLook, up to the exception that one of the criteria throws.  What   *)
(* is not in brackets is skipped.                                          *)
LeftAfter(words, n) ==
    LET left[i \in 0..n] ==
            IF i = 0 THEN getSet ELSE parseCriterion(words[i], left[i - 1])
    IN  left[n]
parseLook(words) ==
    IF \E n \in 1..Len(words) : Throws(words[n], LeftAfter(words, n - 1))
    THEN Refusal
    ELSE fileListString(LeftAfter(words, Len(words)))

handleLook(r) == parseLook(IF r.bracketed THEN r.words ELSE <<>>)
-----------------------------------------------------------------------------
(* The same request to both trackers.                                      *)
LookAt(r) ==
    /\ asked = <<>> /\ asked' = <<r>>
    /\ creply' = prot_look(r) /\ cppreply' = handleLook(r)
    /\ UNCHANGED table

LookNext == \E r \in LookRequest : LookAt(r)
LookSpec == LookInit /\ [][LookNext]_lookVars
-----------------------------------------------------------------------------
(* What the criteria mean: each lets the files pass that have the field's  *)
(* value, or one above or below it.                                        *)
Known(c) ==
    \/ c.field = "filesize" /\ c.op \in Operator
    \/ c.field = "filename" /\ c.op \in {"=", "!="}
Meant(c, f) ==
    IF c.field = "filename" THEN Compare(f.name, c.op, c.value)
    ELSE Compare(f.size, c.op, c.value)
Sound(c) ==
    c.field \in NumField => c.value # NotANumber /\ Unsigned(c.value) = c.value
Exchanged(c) == c.field = "filesize" /\ c.op \in {"=", "!="}

(* Whatever processors a criterion passes through, the files the C tracker *)
(* lists are those that meet every criterion it knows, each of them once;  *)
(* the C++ tracker lists the same ones, unless a criterion compares the    *)
(* size for equality, which it takes for the opposite.                     *)
LooksAgree ==
    asked # <<>> =>
        LET words == asked[1].words
            criteria == {words[i] : i \in 1..Len(words)}
            meant == {f \in Files(table) :
                         \A c \in criteria : Known(c) => Meant(c, f)}
        IN  (asked[1].bracketed /\ \A c \in criteria : Sound(c)) =>
                /\ creply[1] = "list"
                /\ Files(creply[2]) = {Told(f) : f \in meant}
                /\ Len(creply[2]) = Cardinality(meant)
                /\ (\A c \in criteria : Known(c)) =>
                       /\ cppreply[1] = "list"
                       /\ (\A c \in criteria : ~Exchanged(c)) =>
                              cppreply[2] = {Told(f) : f \in meant}
                       /\ Len(words) = 1 /\ Exchanged(words[1]) =>
                              cppreply[2] = {Told(f) : f \in Files(table) \ meant}
=============================================================================
