----------------------------- MODULE McpClient -----------------------------
(* The semantic search over a child process (adapters.py MCPStdioClient and *)
(* SmartConnectionsAdapter).                                                *)
(*                                                                          *)
(* The threads of a program share one adapter, and the adapter one client,  *)
(* under a lock: a child process that is started when a search needs it and *)
(* kept for the next one.  A request is a line on its stdin; a thread moves *)
(* the lines of its stdout to the client's queue, where the caller looks    *)
(* for the answer with its id until a deadline.  Whatever goes wrong closes *)
(* the client, and the search is answered from the vault itself.            *)
(*                                                                          *)
(* The server is not ours: it answers in any order, late, wrongly or not at *)
(* all, sends notifications and requests of its own, and exits.  A line     *)
(* that is no JSON object is dropped, and is left out.                      *)
EXTENDS Naturals, Sequences

CONSTANTS
  Caller,       \* threads
  MaxSearches,  \* bound on the searches that reach the backend
  MaxNoise,     \* bound on lines that no request asked for
  NoCaller

ASSUME ClientAssumption ==
  /\ MaxSearches \in Nat /\ MaxNoise \in Nat
  /\ NoCaller \notin Caller

VARIABLES
  lock,     \* _client_lock
  client,   \* _client: the number of its child; 0 if there is none or a dead one
  child,    \* child[k]: the child process that search k started
  nextId,   \* nextId[k]
  asked,    \* asked[k]: requests the child has not answered
  stdout,   \* stdout[k]: lines the reader thread has not read
  messages, \* messages[k]: the queue
  searches, \* searches so far; each has its number as its query
  noise,
  pc,
  query,    \* query[c]: the search of caller c
  using,    \* using[c]: the child it talks to
  waitId,   \* waitId[c]: the request it waits for
  answer    \* answer[c]: the query whose hits the search returned

server == <<child, asked, stdout, noise>>
caller == <<pc, query, using, waitId, answer>>
vars == <<lock, client, nextId, messages, searches, server, caller>>
-----------------------------------------------------------------------------
Query == 1 .. MaxSearches
Child == Query  \* a search starts at most one child, known by its number
Id == 1 .. MaxSearches + 1
Empty == 0                 \* a result without hits, an answer from the vault

(* id 0: a notification, without id. *)
Request == [id : Nat, query : Query \cup {Empty}]
Message == [id : Nat, kind : {"result", "error"}, hits : Query \cup {Empty}]

PC == {"idle", "lock", "initialize", "send", "wait", "close", "answered"}

At(c, l) == pc[c] = l
Goto(c, l) == pc' = [pc EXCEPT ![c] = l]
Alive(k) == k # 0 /\ child[k] = "running"
-----------------------------------------------------------------------------
(* A search *)

Ask(c) ==
  /\ At(c, "idle") /\ searches < MaxSearches
  /\ searches' = searches + 1
  /\ query' = [query EXCEPT ![c] = searches']
  /\ Goto(c, "lock")
  /\ UNCHANGED <<lock, client, nextId, messages, server, using, waitId, answer>>

(* The lock is taken; a client that is alive is used again. *)
Reuse(c) ==
  /\ At(c, "lock") /\ lock = NoCaller /\ Alive(client)
  /\ lock' = c
  /\ using' = [using EXCEPT ![c] = client]
  /\ Goto(c, "send")
  /\ UNCHANGED <<client, nextId, messages, searches, server, query, waitId, answer>>

(* Otherwise a new one is started, with a queue of its own; it is _client's *)
(* once it is initialized.                                                  *)
Start(c) ==
  /\ At(c, "lock") /\ lock = NoCaller /\ ~ Alive(client)
  /\ lock' = c
  /\ LET k == query[c]
     IN  /\ child' = [child EXCEPT ![k] = "running"]
         /\ using' = [using EXCEPT ![c] = k]
         /\ asked' = [asked EXCEPT ![k] = {[id |-> 1, query |-> Empty]}]
         /\ nextId' = [nextId EXCEPT ![k] = 2]
         /\ stdout' = [stdout EXCEPT ![k] = <<>>]
         /\ messages' = [messages EXCEPT ![k] = <<>>]
  /\ waitId' = [waitId EXCEPT ![c] = 1]
  /\ Goto(c, "initialize")
  /\ UNCHANGED <<client, searches, noise, query, answer>>

(* The executable is not there, or cannot be run. *)
StartFails(c) ==
  /\ At(c, "lock") /\ lock = NoCaller /\ ~ Alive(client)
  /\ Goto(c, "answered")
  /\ UNCHANGED <<lock, client, nextId, messages, searches, server, query, using,
                 waitId, answer>>

(* The request takes the next id; writing to a child that is gone fails. *)
Send(c) ==
  /\ At(c, "send")
  /\ LET k == using[c]
     IN  /\ waitId' = [waitId EXCEPT ![c] = nextId[k]]
         /\ nextId' = [nextId EXCEPT ![k] = @ + 1]
         /\ IF Alive(k)
            THEN /\ asked' = [asked EXCEPT ![k] = @ \cup {[id |-> nextId[k],
                                                          query |-> query[c]]}]
                 /\ Goto(c, "wait")
            ELSE Goto(c, "close") /\ UNCHANGED asked
  /\ UNCHANGED <<lock, client, messages, searches, child, stdout, noise, query, using,
                 answer>>

Waiting(c) == At(c, "initialize") \/ At(c, "wait")

BugOverdue(c) == messages[using[c]] # <<>>  \* a get without a timeout

(* The deadline may pass at any moment of the wait. *)
Overdue(c) == TRUE

TimesOut(c) ==
  /\ Waiting(c) /\ Overdue(c)
  /\ Goto(c, "close")
  /\ UNCHANGED <<lock, client, nextId, messages, searches, server, query, using, waitId,
                 answer>>

(* The child is gone and the queue empty: an answer the reader thread has   *)
(* not read yet is lost.                                                    *)
SeesExit(c) ==
  /\ Waiting(c) /\ ~ Alive(using[c]) /\ messages[using[c]] = <<>>
  /\ Goto(c, "close")
  /\ UNCHANGED <<lock, client, nextId, messages, searches, server, query, using, waitId,
                 answer>>

BugMine(c, m) == TRUE
Mine(c, m) == m.id = waitId[c]

(* Only the id is compared, so a request of the server's own that has it is *)
(* taken for an answer without hits.                                        *)
Get(c) ==
  /\ Waiting(c) /\ messages[using[c]] # <<>>
  /\ LET k == using[c]
         m == Head(messages[k])
     IN  /\ messages' = [messages EXCEPT ![k] = Tail(@)]
         /\ CASE ~ Mine(c, m) -> UNCHANGED <<lock, client, pc, answer>>
              [] Mine(c, m) /\ m.kind = "error" ->
                   Goto(c, "close") /\ UNCHANGED <<lock, client, answer>>
              [] Mine(c, m) /\ m.kind = "result" /\ At(c, "initialize") ->
                   /\ IF Alive(k) THEN client' = k /\ Goto(c, "send")
                      ELSE Goto(c, "close") /\ UNCHANGED client
                   /\ UNCHANGED <<lock, answer>>
              [] OTHER ->
                   /\ answer' = [answer EXCEPT ![c] = m.hits]
                   /\ lock' = NoCaller
                   /\ Goto(c, "answered")
                   /\ UNCHANGED client
  /\ UNCHANGED <<nextId, searches, server, query, using, waitId>>

BugGiveUp(k) == UNCHANGED <<child, asked, stdout, messages>>  \* forgotten, not closed

(* Terminated, and killed if it has not exited two seconds later; what it   *)
(* was asked, what it said and the queue go with it.                        *)
GiveUp(k) == /\ child' = [child EXCEPT ![k] = "dead"]
             /\ asked' = [asked EXCEPT ![k] = {}]
             /\ stdout' = [stdout EXCEPT ![k] = <<>>]
             /\ messages' = [messages EXCEPT ![k] = <<>>]

(* A client that fails is closed and dropped, and the search answered from  *)
(* the vault.  One that stays in _client, because it never got there or     *)
(* closing its stdin fails, is dead, which every reader takes for none.     *)
Close(c) ==
  /\ At(c, "close")
  /\ GiveUp(using[c])
  /\ client' = IF client = using[c] THEN 0 ELSE client
  /\ lock' = NoCaller
  /\ Goto(c, "answered")
  /\ UNCHANGED <<nextId, searches, noise, query, using, waitId, answer>>

(* Hits or, without any, what the vault has. *)
Return(c) ==
  /\ At(c, "answered")
  /\ Goto(c, "idle")
  /\ query' = [query EXCEPT ![c] = Empty]
  /\ using' = [using EXCEPT ![c] = 0]
  /\ waitId' = [waitId EXCEPT ![c] = 0]
  /\ answer' = [answer EXCEPT ![c] = Empty]
  /\ UNCHANGED <<lock, client, nextId, messages, searches, server>>

(* The adapter is closed; a later search starts another client. *)
CloseAdapter ==
  /\ lock = NoCaller /\ client # 0
  /\ GiveUp(client)
  /\ client' = 0
  /\ UNCHANGED <<lock, nextId, searches, noise, caller>>

SearchStep(c) == \/ Reuse(c) \/ Start(c) \/ StartFails(c) \/ Send(c) \/ SeesExit(c)
                 \/ Get(c) \/ Close(c) \/ Return(c)
-----------------------------------------------------------------------------
(* The server, and the reader thread *)

Says(k, m) == stdout' = [stdout EXCEPT ![k] = Append(@, m)]

Answers(k, r, kind) ==
  /\ Alive(k) /\ r \in asked[k]
  /\ Says(k, [id |-> r.id, kind |-> kind,
              hits |-> IF kind = "error" THEN Empty ELSE r.query])
  /\ asked' = [asked EXCEPT ![k] = @ \ {r}]
  /\ UNCHANGED <<lock, client, child, nextId, messages, searches, noise, caller>>

(* A notification, or a request with an id of the server's own. *)
SpeaksUp(k, i) ==
  /\ Alive(k) /\ noise < MaxNoise
  /\ noise' = noise + 1
  /\ Says(k, [id |-> i, kind |-> "result", hits |-> Empty])
  /\ UNCHANGED <<lock, client, child, nextId, asked, messages, searches, caller>>

Exits(k) ==
  /\ Alive(k)
  /\ child' = [child EXCEPT ![k] = "dead"]
  /\ asked' = [asked EXCEPT ![k] = {}]
  /\ UNCHANGED <<lock, client, nextId, stdout, messages, searches, noise, caller>>

ReadMessage(k) ==
  /\ stdout[k] # <<>>
  /\ messages' = [messages EXCEPT ![k] = Append(@, Head(stdout[k]))]
  /\ stdout' = [stdout EXCEPT ![k] = Tail(@)]
  /\ UNCHANGED <<lock, client, child, nextId, asked, searches, noise, caller>>

Init ==
  /\ lock = NoCaller /\ client = 0
  /\ child = [k \in Child |-> "absent"]
  /\ nextId = [k \in Child |-> 1]
  /\ asked = [k \in Child |-> {}]
  /\ stdout = [k \in Child |-> <<>>]
  /\ messages = [k \in Child |-> <<>>]
  /\ searches = 0 /\ noise = 0
  /\ pc = [c \in Caller |-> "idle"]
  /\ query = [c \in Caller |-> Empty]
  /\ using = [c \in Caller |-> 0]
  /\ waitId = [c \in Caller |-> 0]
  /\ answer = [c \in Caller |-> Empty]

Next == \/ \E c \in Caller : Ask(c) \/ SearchStep(c) \/ TimesOut(c)
        \/ CloseAdapter
        \/ \E k \in Child : \/ \E r \in asked[k], kind \in {"result", "error"} :
                                 Answers(k, r, kind)
                            \/ \E i \in Id \cup {0} : SpeaksUp(k, i)
                            \/ Exits(k) \/ ReadMessage(k)

Spec == Init /\ [][Next]_vars

(* Threads run, and time passes; the server owes nothing. *)
FairSpec == /\ Spec
            /\ \A c \in Caller : WF_vars(SearchStep(c)) /\ WF_vars(TimesOut(c))
-----------------------------------------------------------------------------
(* Properties *)

TypeOK ==
  /\ lock \in Caller \cup {NoCaller}
  /\ client \in Child \cup {0}
  /\ child \in [Child -> {"absent", "running", "dead"}]
  /\ nextId \in [Child -> Nat]
  /\ asked \in [Child -> SUBSET Request]
  /\ stdout \in [Child -> Seq(Message)]
  /\ messages \in [Child -> Seq(Message)]
  /\ searches \in 0 .. MaxSearches /\ noise \in 0 .. MaxNoise
  /\ pc \in [Caller -> PC]
  /\ query \in [Caller -> Query \cup {Empty}]
  /\ using \in [Caller -> Child \cup {0}]
  /\ waitId \in [Caller -> Nat]
  /\ answer \in [Caller -> Query \cup {Empty}]

(* A search returns hits for its own query or none, however late, often or  *)
(* unasked the server speaks, and whoever used the client before.           *)
OwnAnswer == \A c \in Caller : answer[c] \in {Empty, query[c]}

(* "The adapter keeps one stdio server process alive" (docs/06-adapters-    *)
(* and-observer.md): whatever fails, no second one runs beside it, and one  *)
(* that nobody can reach any more is not left running.                      *)
OneServer ==
  /\ \A j, k \in Child : Alive(j) /\ Alive(k) => j = k
  /\ lock = NoCaller => \A k \in Child : Alive(k) => client = k

(* A search ends, whatever the server does, with others before it.          *)
EverySearchEnds == \A c \in Caller : ~ At(c, "idle") ~> At(c, "idle")
=============================================================================
