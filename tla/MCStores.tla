------------------------------ MODULE MCStores ------------------------------
(* What is stored, sent and read back, one part at a time: `part` is the    *)
(* one that runs. No symmetry: the run checks liveness.                     *)
EXTENDS Relay, DataStores

VARIABLES part, outbox, hour, created, mark, fetched, looked, published, sent, orphaned,
          rows, query, walk, page_at, items_read, changes, moved, began, operands, built

(* The way of one record is followed; the inbox by itself, which shares the *)
(* variables of the receiving side, has two.                                *)
CONSTANT Unwritten

(* One query per comparison, with the sorts spread over them. *)
Asked ==
    {[filter |-> "any", sort |-> <<>>], [filter |-> "eq", sort |-> <<<<2, "asc">>>>],
     [filter |-> "neq", sort |-> <<<<1, "desc">>>>], [filter |-> "gt", sort |-> <<<<2, "desc">>>>],
     [filter |-> "gte", sort |-> <<<<1, "desc">>, <<2, "asc">>>>], [filter |-> "lt", sort |-> <<>>],
     [filter |-> "lte", sort |-> <<<<2, "desc">>, <<1, "asc">>>>]}

Boxes == INSTANCE NoSqlOutboxes WITH Records <- {1, 2}, MaxHour <- 2
Asking == INSTANCE Queries WITH Items <- {<<0, 1, 1>>, <<1, 0, 2>>, <<1, 1, 3>>, <<2, 1, 4>>}, MaxRows <- 4,
             MaxChanges <- 1, size <- 2, Asked <- Asked, Rows <- {0, 1, 2}, MaxDepth <- 3,
             at <- page_at

outbox_vars == <<outbox, hour, created, mark, fetched, looked, published, sent, orphaned>>
page_vars == <<rows, query, walk, page_at, items_read, changes, moved, began>>

MCvars == <<part, relay_vars, doc_vars, object_vars, outbox_vars, page_vars, operands, built>>

MCInit ==
    /\ part \in {"inbox", "documents", "objects", "outboxes", "pages", "rules", "relay"}
    /\ part # "documents" => engine = "dynamodb"
    /\ part # "objects" => medium = "memory"
    /\ part # "outboxes" => outbox = "dynamodb"
    /\ part # "relay" => store = "mongo" /\ broker = "redis"
    /\ RelayInit
    /\ DocInit /\ ObjectInit /\ Boxes!Init /\ Asking!PageInit /\ Asking!RuleInit

MCNext ==
    /\ UNCHANGED part
    /\ CASE part = "relay" -> RelayNext /\ \A r \in Unwritten : tx'[r] = tx[r]
         [] part = "inbox" -> Receiving!Next /\ UNCHANGED vars
         [] OTHER -> UNCHANGED relay_vars
    /\ IF part = "documents" THEN DocNext ELSE UNCHANGED doc_vars
    /\ IF part = "objects" THEN ObjectNext ELSE UNCHANGED object_vars
    /\ IF part = "outboxes" THEN Boxes!Next ELSE UNCHANGED outbox_vars
    /\ IF part = "pages" THEN Asking!PageNext ELSE UNCHANGED page_vars
    /\ IF part = "rules" THEN Asking!RuleNext ELSE UNCHANGED <<operands, built>>

(* The search engine refreshes, the dispatchers, the consumers and the      *)
(* readers go on; a NoSQL dispatcher that dies again and again gets to its  *)
(* publication and its mark now and then. An entry of the broker is read    *)
(* once by someone; nothing promises a second time.                         *)
MCFairness ==
    /\ WF_doc_vars(part = "documents" /\ refresh)
    /\ \A u \in {1, 2} : WF_object_vars(part = "objects" /\ Step(u))
    /\ WF_outbox_vars(part = "outboxes" /\ Boxes!Fetching)
    /\ \A r \in {1, 2} : SF_outbox_vars(part = "outboxes" /\ Boxes!publish(r))
    /\ \A r \in {1, 2} : SF_outbox_vars(part = "outboxes" /\ Boxes!mark_dispatched(r))
    /\ WF_page_vars(part = "pages" /\ Asking!search)
    /\ \A d \in Dispatchers : WF_relay_vars(part = "relay" /\ dispatching(d))
    /\ \A r \in Records \ Unwritten : WF_relay_vars(part = "relay" /\ first_read(r))
    /\ \A c \in Consumers : WF_relay_vars(part = "relay" /\ processing(c))

MCSpec == MCInit /\ [][MCNext]_MCvars /\ MCFairness

-----------------------------------------------------------------------------
(* The properties below join those of the parts, whose modules state their  *)
(* exceptions.                                                              *)

(* The state of the other parts has its type. *)
TypesOK ==
    /\ RelayTypeOK /\ Boxes!TypeOK /\ Asking!TypeOK

(* A walk through the pages reads all that stayed in the list, sorted by    *)
(* all keys, and its page counts agree; a specification selects the same    *)
(* rows in memory and in SQL, and its negation none of them. And a NoSQL    *)
(* outbox, whose mark is kept, sends a record again only after a crash.     *)
QueriesAndMarksAgree ==
    /\ TypesOK /\ Asking!WalkReadsAll /\ Asking!SortedByAll /\ Asking!PageCountsAgree
    /\ Asking!SelectsTheSame /\ Asking!NegationExcludes /\ Boxes!SentAgainOnlyAfterCrash

(* In the end what was committed takes effect in the other service or is    *)
(* marked; a record of a NoSQL outbox is dispatched unless stranded;        *)
(* searches see what was saved; uploads and walks end.                      *)
CausesTakeEffect ==
    /\ (part = "relay" => CommittedTakesEffect) /\ SearchCatchesUp
    /\ Boxes!DispatchedOrStranded /\ UploadsEnd /\ Asking!WalkEnds
=============================================================================
