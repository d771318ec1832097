---------------------------- MODULE TemplateFuncs ----------------------------
(***************************************************************************)
(* The template functions of the incubator: $(state) with its shared map   *)
(* (StateMap), and those that compute a text from their arguments:         *)
(* $(padding), $(//) and $(or) (src/modules/basicfuncs-plus/), $(getent)   *)
(* (src/modules/getent/) and $(graphite-output) (src/modules/graphite/).   *)
(*                                                                         *)
(* Each of the latter is an operator; a step calls one of them and keeps   *)
(* what it was called with and what came of it.  Texts are sequences, and  *)
(* machine words are small: only their being finite matters.               *)
(***************************************************************************)
EXTENDS StateMap, SequencesExt

CONSTANTS
    Word,       \* how many values a gsize has (2^64)
    Memory,     \* the longest text there is memory for
    Byte,       \* how many values a byte has (256)
    Ids,        \* how many values an int, a uid_t and a gid_t have (2^32)
    Numbers,    \* the numbers arguments are chosen from
    Texts,      \* the texts arguments are chosen from
    Services,   \* the services database: the port of each name
    Protocols,  \* the protocols database: the number of each name
    Users,      \* the user database: the uid of each name
    Groups,     \* the group database: the gid of each name
    Members     \* the group database: the members of each name

\* Memory is far from what a gsize can count, and every text is in it; a number is
\* a gint64, with as many values as a gsize, half of them below zero.
ASSUME WordAssumption == Word \in Nat /\ Memory \in Nat /\ 4 * Memory < Word
ASSUME TextsAssumption == \A t \in Texts : t \in Seq(STRING) /\ Len(t) <= Memory
ASSUME NumbersAssumption ==
    \A n \in Numbers : n \in Int /\ -Word <= 2 * n /\ 2 * n < Word
ASSUME ByteAssumption == Byte \in Nat \ {0}
\* Two bytes are less than the positive half of an int, and an int is less than
\* that of a gint64.
ASSUME IdsAssumption == Ids \in Nat /\ 2 * Byte * Byte <= Ids /\ 2 * Ids <= Word
\* A port fits two bytes, and the other numbers their types.
ASSUME DatabaseAssumption ==
    /\ \A s \in DOMAIN Services : Services[s] \in 0..(Byte * Byte - 1)
    /\ \A p \in DOMAIN Protocols :
          Protocols[p] \in Int /\ -Ids <= 2 * Protocols[p] /\ 2 * Protocols[p] < Ids
    /\ \A u \in DOMAIN Users : Users[u] \in 0..(Ids - 1)
    /\ \A g \in DOMAIN Groups : Groups[g] \in 0..(Ids - 1)

VARIABLES
    last,       \* the last call of a function other than $(state)
    alive       \* the process has not crashed

vars == <<stateVars, last, alive>>

\* What an argument reads as, and what a lookup answers: a number or a text.
Number(n) == [number |-> n]
Text(s) == [text |-> s]
Nothing == [nothing |-> TRUE]

IsNumber(arg) == "number" \in DOMAIN arg

Blank == " "
EndOfLine == "\n"

-----------------------------------------------------------------------------
\* basicfuncs-plus.

\* tf_or(): the first argument that is not empty.
Or(args) ==
    IF \E i \in DOMAIN args : args[i] # <<>>
    THEN args[CHOOSE i \in DOMAIN args :
                 args[i] # <<>> /\ \A j \in 1..(i - 1) : args[j] = <<>>]
    ELSE <<>>

\* tf_num_parse() and tf_num_divx(): a quotient, as the pair of its terms.
DivX(n, m) ==
    IF IsNumber(n) /\ IsNumber(m) /\ m # Number(0)
    THEN [quotient |-> <<n.number, m.number>>]
    ELSE Text("NaN")

\* text->len < width compares an unsigned length with a signed width: both are
\* taken as unsigned, and so is the number of characters to add.
Unsigned(n) == n % Word
ToAdd(len, width) == Unsigned(Unsigned(width) - len)
Short(text, width) == Len(text) < Unsigned(width.number)

\* Mutation of PadChar: the characters of the padding are used once.
PadChar_Once(pad, i) == pad[IF i < Len(pad) THEN i + 1 ELSE Len(pad)]

PadChar(pad, i) == pad[(i % Len(pad)) + 1]

\* tf_string_padding().  A width that is no number gives nothing, not even the
\* text.  The padding repeats before the text.
Padding(text, width, pad) ==
    IF ~IsNumber(width) THEN <<>>
    ELSE IF ~Short(text, width) THEN text
    ELSE [i \in 1..ToAdd(Len(text), width.number) |-> PadChar(pad, i - 1)] \o text

\* An empty padding is divided by, and a width below zero, as one above the memory
\* there is, asks for more than that.
PaddingCrashes(text, width, pad) ==
    /\ IsNumber(width) /\ Short(text, width)
    /\ pad = <<>> \/ ToAdd(Len(text), width.number) > Memory

-----------------------------------------------------------------------------
\* getent.  A key that reads as a number looks for a number, any other for a
\* name; the answer is the other of the two.

\* ntohs() and htons(): the two lowest bytes change places, and the rest of the
\* number is gone.
Swapped(n) == ((n % Byte) * Byte) + ((n \div Byte) % Byte)

\* The casts from a gint64 to uid_t and gid_t, and to int.
AsId(n) == n % Ids
AsInt(n) == IF 2 * (n % Ids) < Ids THEN n % Ids ELSE (n % Ids) - Ids

\* The entry of a database with a number, and the number of an entry.
ByNumber(db, n) ==
    IF \E e \in DOMAIN db : db[e] = n THEN Text(CHOOSE e \in DOMAIN db : db[e] = n) ELSE Nothing
ByName(db, e) == IF e \in DOMAIN db THEN Number(db[e]) ELSE Nothing

\* Mutation of Printed: the number is printed as the database has it.
Printed_AsIs(answer) == answer

\* The number of an answer goes through htons() before it is printed.
Printed(answer) == IF IsNumber(answer) THEN Number(Swapped(answer.number)) ELSE answer

\* tf_getent_services(): s_port is in network order, so a number is brought
\* there before it is looked for, and back when it is printed.
GetentServices(key) ==
    LET inNetworkOrder == [s \in DOMAIN Services |-> Swapped(Services[s])]
    IN  IF IsNumber(key) THEN ByNumber(inNetworkOrder, Swapped(key.number))
        ELSE Printed(ByName(inNetworkOrder, key.text))

\* tf_getent_protocols(): p_proto is in host order, and is printed the same way.
GetentProtocols(key) ==
    IF IsNumber(key) THEN ByNumber(Protocols, AsInt(key.number))
    ELSE Printed(ByName(Protocols, key.text))

\* What tf_getent_passwd() and tf_getent_group() share: the member is by default
\* the name for a number and the number for a name; an unknown one is an error.
\* rest are the other members an entry has.
Entry(db, key, member, rest) ==
    LET e == IF IsNumber(key) THEN ByNumber(db, AsId(key.number))
             ELSE IF key.text \in DOMAIN db THEN key ELSE Nothing
        what == IF member # Nothing THEN member.text ELSE IF IsNumber(key) THEN "name" ELSE "id"
    IN  IF e = Nothing THEN Nothing
        ELSE CASE what = "name"        -> e
               [] what = "id"          -> ByName(db, e.text)
               [] what \in DOMAIN rest -> rest[what][e.text]
               [] OTHER                -> Nothing

GetentPasswd(key, member) ==
    Entry(Users, key, member, [shell |-> [u \in DOMAIN Users |-> Text("sh")]])
GetentGroup(key, member) ==
    Entry(Groups, key, member, [members |-> [g \in DOMAIN Groups |-> [list |-> Members[g]]]])

\* _getent_format_array() prints the first member before it looks whether there
\* is one, and then goes on behind the end of the list.
ReadsBehindList(answer) == "list" \in DOMAIN answer /\ answer.list = <<>>

\* tf_getent(): two or three arguments, the first of which names the lookup.
Getent(entity, key, member) ==
    CASE entity = "services"  -> GetentServices(key)
      [] entity = "protocols" -> GetentProtocols(key)
      [] entity = "passwd"    -> GetentPasswd(key, member)
      [] entity = "group"     -> GetentGroup(key, member)
      [] OTHER                -> Nothing

-----------------------------------------------------------------------------
\* graphite-output.

\* tf_graphite_foreach_func(): one line for a name and a value.
Line(pair, time) == <<pair.name, Blank>> \o pair.value \o <<Blank, time, EndOfLine>>

\* tf_graphite_call(): the lines of all messages, each with the time of its
\* message.  No pair ever fails, so nothing is taken back.
Graphite(messages) ==
    FlattenSeq([i \in DOMAIN messages |->
        FlattenSeq([j \in DOMAIN messages[i].pairs |->
            Line(messages[i].pairs[j], messages[i].time)])])

-----------------------------------------------------------------------------
\* The calls.

Init ==
    /\ StateInit
    /\ last = [fn |-> "none"]
    /\ alive = TRUE

\* None of the functions that only compute uses the map, so it is enough to call
\* one of them at a time, while no thread is in $(state).
Free == last.fn = "none" /\ sets = <<>> /\ \A t \in Threads : pc[t] = "idle"

Computes(call, lives) ==
    /\ last' = call
    /\ alive' \in lives
    /\ UNCHANGED stateVars

NumberArgs == {Number(n) : n \in Numbers} \union {Text("none")}

CallOr ==
    \E a, b \in Texts :
        Computes([fn |-> "or", args |-> <<a, b>>, out |-> Or(<<a, b>>)], {TRUE})

CallDivX ==
    \E n, m \in NumberArgs :
        Computes([fn |-> "divx", n |-> n, m |-> m, out |-> DivX(n, m)], {TRUE})

\* Without a third argument the padding is a blank.
CallPadding ==
    \E text \in Texts, width \in NumberArgs, pad \in Texts \union {<<Blank>>} :
        LET crashes == PaddingCrashes(text, width, pad)
        IN  Computes([fn |-> "padding", text |-> text, width |-> width, pad |-> pad,
                      out |-> IF crashes THEN <<>> ELSE Padding(text, width, pad)], {~crashes})

Keys == {Number(n) : n \in Numbers}
        \union {Text(e) : e \in UNION {DOMAIN db : db \in {Services, Protocols, Users, Groups}}}

\* What lies behind the list is undefined: the process may die of it.
CallGetent ==
    \E entity \in {"services", "protocols", "passwd", "group", "hosts"}, key \in Keys,
       member \in {Nothing} \union {Text(m) : m \in {"name", "id", "members", "shell"}} :
        LET answer == Getent(entity, key, member)
        IN  Computes([fn |-> "getent", entity |-> entity, key |-> key, member |-> member,
                      out |-> answer],
                     IF ReadsBehindList(answer) THEN BOOLEAN ELSE {TRUE})

\* Up to two pairs in a message.
Pairs == [name : {"a", "b"}, value : {<<"x">>, <<"x", Blank, "y">>}]
Messages == [pairs : BoundedSeq(Pairs, 2), time : {"t1", "t2"}]

CallGraphite ==
    \E messages \in BoundedSeq(Messages, 2) :
        Computes([fn |-> "graphite-output", messages |-> messages,
                  out |-> Graphite(messages)], {TRUE})

\* A process that crashed does nothing any more.
Next ==
    /\ alive
    /\ \/ StateNext /\ last' = [fn |-> "none"] /\ UNCHANGED alive
       \/ Free /\ (CallOr \/ CallDivX \/ CallPadding \/ CallGetent \/ CallGraphite)

Spec == Init /\ [][Next]_vars

-----------------------------------------------------------------------------
\* Properties.

TypeOK ==
    /\ StateTypeOK
    /\ alive \in BOOLEAN
    /\ last.fn \in {"none", "or", "divx", "padding", "getent", "graphite-output"}

\* A text that is padded ends with the text and, in front of it, repeats the
\* padding up to the width; a text that has the width already is left alone.
\* An empty padding ends the process, and so do a width below zero and one that
\* the memory is too small for; they do it only when there is something to pad.
PaddingIsRight ==
    last.fn = "padding" /\ IsNumber(last.width) =>
        LET missing == last.width.number - Len(last.text) IN
        /\ alive =>
              /\ last.width.number >= 0
              /\ missing > 0 => Len(last.out) = last.width.number
              /\ IsSuffix(last.text, last.out)
              /\ \A i \in 1..missing :
                    last.out[i] = (IF i <= Len(last.pad) THEN last.pad[i]
                                   ELSE last.out[i - Len(last.pad)])
        /\ missing <= 0 /\ last.width.number >= 0 => alive /\ last.out = last.text
        /\ missing \in 1..Memory => (alive <=> last.pad # <<>>)

\* The lines of a receiver that reads a name, a value and a time from each: the
\* text is cut at the ends of lines, and every line has its six parts.
Readable(text) ==
    \A i \in DOMAIN text : text[i] = EndOfLine => i % 6 = 0

\* An answer reads back as a key: as the number itself, or as a name with the same
\* number, of which a database may have several.
SameKey(db, answer, key) ==
    IF IsNumber(key) THEN answer = key
    ELSE \E e \in DOMAIN db : answer = Text(e) /\ db[e] = db[key.text]

\* What is left of a key that is a number in a type of so many values.
Cut(key, values) == IF IsNumber(key) THEN Number(key.number % values) ELSE key

\* A looked up answer looks up its key, or what the type of the number left of it.
LookupsReadBack ==
    last.fn = "getent" /\ last.out # Nothing =>
        /\ last.entity = "services" =>
              SameKey(Services, GetentServices(last.out), Cut(last.key, Byte * Byte))
        /\ last.entity = "passwd" /\ last.member = Nothing =>
              SameKey(Users, GetentPasswd(last.out, Nothing), Cut(last.key, Ids))
        /\ last.entity = "group" /\ last.member = Nothing =>
              SameKey(Groups, GetentGroup(last.out, Nothing), Cut(last.key, Ids))
        /\ last.entity = "protocols" /\ ~IsNumber(last.key) =>
              (SameKey(Protocols, GetentProtocols(last.out), last.key)
                  <=> Swapped(Protocols[last.key.text]) = Protocols[last.key.text])

\* Only the members of a group that has none end the process.
LookupsAreSafe ==
    last.fn = "getent" /\ ~alive =>
        /\ last.entity = "group" /\ last.member = Text("members")
        /\ \E g \in DOMAIN Groups :
              Members[g] = <<>> /\ Cut(last.key, Ids) \in {Text(g), Number(Groups[g])}

\* The lines for Graphite are readable unless a value has a blank.
LinesAreReadable ==
    last.fn = "graphite-output" =>
        (Readable(last.out) <=>
            \A i \in DOMAIN last.messages : \A j \in DOMAIN last.messages[i].pairs :
                Len(last.messages[i].pairs[j].value) = 1)

\* What a function printed can be read back.  A looked up answer looks up its
\* key: every name of a service, a user or a group, and a number as long as it
\* fits the type it is cast to, two bytes for a service and the width of an id for
\* a user or a group (a larger one, or one below zero, is taken for another: the
\* user 2^32 is root); for protocols a name only where the two bytes of its number
\* are the same, so that $(getent protocols tcp) gives something else than the
\* number of TCP.  The only lookup that is not safe is that of the members of a
\* group that has none.  The lines for Graphite are readable unless a value has a
\* blank.
TextsReadBack == LookupsReadBack /\ LookupsAreSafe /\ LinesAreReadable
=============================================================================
