------------------------------ MODULE EsBatch ------------------------------
(***************************************************************************)
(* The Elasticsearch script (src/modules/lua/elasticsearch.lua) inside the *)
(* Lua destination: its queue function appends the message to a request    *)
(* and posts the request when the count of messages is a multiple of the   *)
(* batch size.                                                             *)
(*                                                                         *)
(* The count starts at one, so the first batch is a message short.  The    *)
(* result of the post is not looked at, and the script has no deinit       *)
(* function: to the driver each message is stored once it is in the        *)
(* request.                                                                *)
(***************************************************************************)
EXTENDS LuaDest

CONSTANTS
    BatchSize   \* es_batch_size

ASSUME BatchSizeAssumption == BatchSize \in Nat \ {0}

VARIABLES
    elastic,    \* the script is elasticsearch.lua, not any other
    msgcount,   \* global of the script
    request,    \* global of the script: the messages in the request
    posts,      \* history: the requests posted, with life and fate
    unsent,     \* history: how many messages were in requests nobody posted
    sound       \* history: no driver ran on a state nobody defines

esVars == <<elastic, msgcount, request, posts, unsent, sound>>

EsInit ==
    /\ Init
    /\ elastic \in BOOLEAN
    /\ msgcount = 0
    /\ request = <<>>
    /\ posts = <<>>
    /\ unsent = 0
    /\ sound = TRUE

\* elasticsearch.lua does nothing that ends the process.
Harmless == elastic => death' # "script"

\* elastic_init() runs in the new state, or in the closed one.
ElasticInit ==
    /\ \E hasInitFunc \in BOOLEAN :
          /\ InitSucceeds(hasInitFunc) \/ Revert(hasInitFunc)
          /\ elastic => hasInitFunc
    /\ Harmless
    /\ IF elastic THEN msgcount' = 1 /\ request' = <<>> ELSE UNCHANGED <<msgcount, request>>
    /\ sound' = (sound /\ luaState' = "open" /\ ~Underrun')
    /\ UNCHANGED <<elastic, posts, unsent>>

\* Mutation of Flush: the request is kept when it was posted.
Flush_Keep(messages, arrives) ==
    /\ posts' = Append(posts, [size |-> Len(messages), life |-> lives, arrives |-> arrives])
    /\ request' = messages

\* elastic_request() posts the messages.  The time-out is zero, and whether the
\* server got them is not looked at.
Flush(messages, arrives) ==
    /\ posts' = Append(posts, [size |-> Len(messages), life |-> lives, arrives |-> arrives])
    /\ request' = <<>>

\* elastic_queue().
ElasticQueue ==
    LET messages == request \o held IN
    /\ msgcount' = msgcount + 1
    /\ IF msgcount' % BatchSize = 0
       THEN \E arrives \in BOOLEAN : Flush(messages, arrives)
       ELSE request' = messages /\ UNCHANGED posts
    /\ UNCHANGED <<elastic, unsent, sound>>

\* The call succeeds, unless the state is one nobody defines.
ElasticCall ==
    /\ CallScript
    /\ Harmless
    /\ IF elastic THEN (sound => success') /\ ElasticQueue ELSE UNCHANGED esVars

\* The request goes with the state of the driver.
ElasticDeinit ==
    /\ Deinit
    /\ Harmless
    /\ request' = <<>>
    /\ unsent' = unsent + Len(request)
    /\ UNCHANGED <<elastic, msgcount, posts, sound>>

EsNext ==
    /\ alive
    /\ \/ ElasticInit \/ ElasticDeinit \/ ElasticCall
       \/ /\ \/ \E s \in Sources : SourceStep(s)
             \/ StopRequest \/ InitFails
             \/ CallInsert \/ Pop \/ PushCall \/ AddParameter \/ FinishInsert \/ LeaveLoop
          /\ UNCHANGED esVars

EsSpec == EsInit /\ [][EsNext]_<<vars, esVars>>

-----------------------------------------------------------------------------
\* Properties.

EsTypeOK ==
    /\ TypeOK
    /\ elastic \in BOOLEAN
    /\ msgcount \in Nat
    /\ request \in Seq(Message)
    /\ posts \in Seq([size : Nat, life : 1..MaxLives, arrives : BOOLEAN])
    /\ unsent \in Nat
    /\ sound \in BOOLEAN

\* Post n is the first of its life.
FirstOfLife(n) == \A i \in 1..(n - 1) : posts[i].life # posts[n].life

\* The messages that were posted: each post weighs its size.
PostedInAll == Cardinality(UNION {{n} \X (1..posts[n].size) : n \in DOMAIN posts})

\* With elasticsearch.lua, and on states that are what they should be, every
\* message counted as stored was posted once, is in the request, or was in it when
\* a driver went down, fewer than a batch each time.  Every batch is of
\* es_batch_size messages but the first one of each life, which is a message short
\* (unless a batch is one message).
BatchesAreWhole ==
    elastic /\ sound /\ pc = "idle" =>
        /\ stored = PostedInAll + Len(request) + unsent
        /\ unsent <= lives * (BatchSize - 1)
        /\ \A n \in DOMAIN posts :
              posts[n].size = IF FirstOfLife(n) /\ BatchSize > 1 THEN BatchSize - 1 ELSE BatchSize
=============================================================================
