-------------------------- MODULE McpClient_proofs --------------------------
(* Theorems about McpClient, for any threads, searches and lines the server *)
(* says of its own accord.  The inductive invariant says who holds the      *)
(* lock, that a running child is the holder's or the adapter's, and, what   *)
(* makes an answer its caller's, that nothing with the id a caller waits    *)
(* for, asked or said, belongs to another search.                           *)
EXTENDS McpClient, TLAPS

Holding == {"initialize", "send", "wait", "close"}

CallerInv ==
  \A c \in Caller :
    /\ pc[c] \in Holding <=> lock = c
    /\ pc[c] # "idle" => query[c] \in Query
    /\ pc[c] \in Holding => using[c] \in Child
    /\ pc[c] # "answered" => answer[c] = Empty

(* A live client of the adapter is the one the holder of the lock uses, and *)
(* once that is initialized it is the adapter's.                            *)
ChildInv ==
  /\ \A k \in Child : Alive(k) => k = client \/ \E c \in Caller : lock = c /\ using[c] = k
  /\ \A c \in Caller : (lock = c /\ Alive(client)) => client = using[c]
  /\ \A c \in Caller : pc[c] \in {"send", "wait"} => client = using[c]

TypeInv == TypeOK /\ CallerInv

LEMMA InitTypeInv == Init => TypeInv
BY ClientAssumption
DEF Init, TypeInv, TypeOK, CallerInv, Holding, Child, Query, Request, Message, PC, Empty

LEMMA CallerTypeInv ==
  ASSUME TypeInv, NEW c \in Caller, Ask(c) \/ SearchStep(c) \/ TimesOut(c)
  PROVE  TypeInv'
<1> USE ClientAssumption DEF Goto, At, Empty, Child, Holding
<1>1. CASE Ask(c)
  <2>0. searches' \in Query /\ searches' \in 0 .. MaxSearches
    BY <1>1 DEF Ask, TypeInv, TypeOK, Query
  <2>1. TypeOK'
    BY <1>1, <2>0 DEF Ask, TypeInv, TypeOK, server, PC
  <2>2. CallerInv'
    BY <1>1, <2>0 DEF Ask, TypeInv, TypeOK, CallerInv, server
  <2> QED BY <2>1, <2>2 DEF TypeInv
<1>2. CASE Reuse(c)
  <2>1. TypeOK'
    BY <1>2 DEF Reuse, TypeInv, TypeOK, server, PC, Alive
  <2>2. CallerInv'
    BY <1>2 DEF Reuse, TypeInv, TypeOK, CallerInv, server, Alive
  <2> QED BY <2>1, <2>2 DEF TypeInv
<1>3. CASE Start(c)
  <2>1. query[c] \in Query
    BY <1>3 DEF Start, TypeInv, CallerInv
  <2>2. {[id |-> 1, query |-> Empty]} \in SUBSET Request /\ <<>> \in Seq(Message)
    BY DEF Request
  <2>4. TypeOK'
    BY <1>3, <2>1, <2>2 DEF Start, TypeInv, TypeOK, PC
  <2>3. CallerInv'
    BY <1>3, <2>1 DEF Start, TypeInv, TypeOK, CallerInv
  <2> QED BY <2>3, <2>4 DEF TypeInv
<1>4. CASE StartFails(c)
  <2>1. TypeOK'
    BY <1>4 DEF StartFails, TypeInv, TypeOK, server, PC
  <2>2. CallerInv'
    BY <1>4 DEF StartFails, TypeInv, TypeOK, CallerInv, server
  <2> QED BY <2>1, <2>2 DEF TypeInv
<1>5. CASE Send(c)
  <2>1. using[c] \in Child /\ query[c] \in Query /\ nextId[using[c]] \in Nat
    BY <1>5 DEF Send, TypeInv, TypeOK, CallerInv
  <2>2. [id |-> nextId[using[c]], query |-> query[c]] \in Request
    BY <2>1 DEF Request
  <2>5. nextId[using[c]] + 1 \in Nat
    BY <2>1
  <2> DEFINE more == asked[using[c]] \cup {[id |-> nextId[using[c]], query |-> query[c]]}
  <2>7. more \in SUBSET Request
    BY <2>1, <2>2 DEF TypeInv, TypeOK
  <2>8. asked' = asked \/ asked' = [asked EXCEPT ![using[c]] = more]
    BY <1>5 DEF Send
  <2> HIDE DEF more
  <2>6. asked' \in [Child -> SUBSET Request]
    BY <2>1, <2>7, <2>8 DEF TypeInv, TypeOK
  <2>3. TypeOK'
    <3>1. nextId' \in [Child -> Nat] /\ waitId' \in [Caller -> Nat]
      BY <1>5, <2>1, <2>5 DEF Send, TypeInv, TypeOK
    <3>2. pc' \in [Caller -> PC]
      BY <1>5 DEF Send, TypeInv, TypeOK, PC
    <3> QED
      BY <1>5, <2>6, <3>1, <3>2 DEF Send, TypeInv, TypeOK
  <2>4. CallerInv'
    BY <1>5, <2>1 DEF Send, TypeInv, TypeOK, CallerInv
  <2> QED BY <2>3, <2>4 DEF TypeInv
<1>6. CASE TimesOut(c) \/ SeesExit(c)
  <2>1. TypeOK'
    BY <1>6 DEF TimesOut, SeesExit, TypeInv, TypeOK, server, PC
  <2>2. CallerInv'
    BY <1>6 DEF TimesOut, SeesExit, Waiting, TypeInv, TypeOK, CallerInv, server
  <2> QED BY <2>1, <2>2 DEF TypeInv
<1>7. CASE Get(c)
  <2> DEFINE k == using[c]
             m == Head(messages[k])
  <2>1. k \in Child /\ messages[k] \in Seq(Message) /\ messages[k] # <<>> /\ lock = c
    BY <1>7 DEF Get, Waiting, TypeInv, TypeOK, CallerInv
  <2>2. m \in Message /\ Tail(messages[k]) \in Seq(Message)
    BY <2>1
  <2>3. m.hits \in Query \cup {Empty}
    BY <2>2 DEF Message
  <2>4. /\ messages' = [messages EXCEPT ![k] = Tail(@)]
        /\ UNCHANGED <<nextId, searches, server, query, using, waitId>>
    BY <1>7 DEF Get
  <2>5. \/ UNCHANGED <<lock, client, pc, answer>>
        \/ Goto(c, "close") /\ UNCHANGED <<lock, client, answer>>
        \/ client' = k /\ Goto(c, "send") /\ UNCHANGED <<lock, answer>>
        \/ /\ answer' = [answer EXCEPT ![c] = m.hits] /\ lock' = NoCaller
           /\ Goto(c, "answered") /\ UNCHANGED client
    BY <1>7 DEF Get
  <2> HIDE DEF k, m
  <2>6. TypeOK'
    BY <2>1, <2>2, <2>3, <2>4, <2>5 DEF TypeInv, TypeOK, server, PC
  <2>7. CallerInv'
    <3>1. pc[c] \in {"initialize", "wait"} /\ pc \in [Caller -> PC]
          /\ answer \in [Caller -> Query \cup {Empty}]
      BY <1>7 DEF Get, Waiting, TypeInv, TypeOK
    <3>2. CASE UNCHANGED <<lock, client, pc, answer>>
      BY <2>4, <3>2 DEF TypeInv, CallerInv
    <3>3. CASE Goto(c, "close") /\ UNCHANGED <<lock, client, answer>>
      BY <2>1, <2>4, <3>1, <3>3 DEF TypeInv, CallerInv, PC
    <3>4. CASE client' = k /\ Goto(c, "send") /\ UNCHANGED <<lock, answer>>
      BY <2>1, <2>4, <3>1, <3>4 DEF TypeInv, CallerInv, PC
    <3>5. CASE /\ answer' = [answer EXCEPT ![c] = m.hits] /\ lock' = NoCaller
               /\ Goto(c, "answered") /\ UNCHANGED client
      BY <2>1, <2>4, <3>1, <3>5 DEF TypeInv, CallerInv, PC
    <3> QED
      BY <2>5, <3>2, <3>3, <3>4, <3>5
  <2> QED BY <2>6, <2>7 DEF TypeInv
<1>8. CASE Close(c)
  <2>1. using[c] \in Child
    BY <1>8 DEF Close, TypeInv, CallerInv
  <2>4. {} \in SUBSET Request /\ <<>> \in Seq(Message)
    OBVIOUS
  <2>2. TypeOK'
    BY <1>8, <2>1, <2>4 DEF Close, GiveUp, TypeInv, TypeOK, PC
  <2>3. CallerInv'
    BY <1>8, <2>1 DEF Close, GiveUp, TypeInv, TypeOK, CallerInv
  <2> QED BY <2>2, <2>3 DEF TypeInv
<1>9. CASE Return(c)
  <2>1. TypeOK'
    BY <1>9 DEF Return, TypeInv, TypeOK, server, PC
  <2>2. CallerInv'
    BY <1>9 DEF Return, TypeInv, TypeOK, CallerInv, server
  <2> QED BY <2>1, <2>2 DEF TypeInv
<1> QED
  BY <1>1, <1>2, <1>3, <1>4, <1>5, <1>6, <1>7, <1>8, <1>9 DEF SearchStep

ServerStep ==
  \E k \in Child : \/ \E r \in asked[k], kind \in {"result", "error"} : Answers(k, r, kind)
                   \/ \E i \in Id \cup {0} : SpeaksUp(k, i)
                   \/ Exits(k) \/ ReadMessage(k)

LEMMA OtherTypeInv ==
  ASSUME TypeInv, CloseAdapter \/ ServerStep \/ UNCHANGED vars
  PROVE  TypeInv'
<1> USE ClientAssumption DEF Empty, Child
<1>1. CASE CloseAdapter
  <2>3. client \in Child /\ {} \in SUBSET Request /\ <<>> \in Seq(Message)
    BY <1>1 DEF CloseAdapter, TypeInv, TypeOK
  <2>1. TypeOK'
    BY <1>1, <2>3 DEF CloseAdapter, GiveUp, TypeInv, TypeOK, caller
  <2>2. CallerInv'
    BY <1>1 DEF CloseAdapter, TypeInv, CallerInv, caller
  <2> QED BY <2>1, <2>2 DEF TypeInv
<1>2. CASE ServerStep
  <2>1. CallerInv'
    BY <1>2 DEF ServerStep, Answers, SpeaksUp, Exits, ReadMessage, TypeInv, CallerInv, caller
  <2>2. ASSUME NEW k \in Child, NEW r \in asked[k], NEW kind \in {"result", "error"},
               Answers(k, r, kind)
        PROVE  TypeOK'
    <3>1. r \in Request
      BY DEF TypeInv, TypeOK
    <3>2. [id |-> r.id, kind |-> kind,
           hits |-> IF kind = "error" THEN Empty ELSE r.query] \in Message
      BY <3>1 DEF Request, Message
    <3>3. stdout' \in [Child -> Seq(Message)]
      BY <2>2, <3>2 DEF Answers, Says, TypeInv, TypeOK
    <3> QED
      BY <2>2, <3>3 DEF Answers, TypeInv, TypeOK, caller
  <2>3. ASSUME NEW k \in Child, NEW i \in Id \cup {0}, SpeaksUp(k, i) PROVE TypeOK'
    <3>2. [id |-> i, kind |-> "result", hits |-> Empty] \in Message
      BY DEF Message, Id
    <3>3. stdout' \in [Child -> Seq(Message)]
      BY <2>3, <3>2 DEF SpeaksUp, Says, TypeInv, TypeOK
    <3>4. noise' \in 0 .. MaxNoise
      BY <2>3 DEF SpeaksUp, TypeInv, TypeOK
    <3> QED
      BY <2>3, <3>3, <3>4 DEF SpeaksUp, TypeInv, TypeOK, caller
  <2>4. ASSUME NEW k \in Child, Exits(k) PROVE TypeOK'
    BY <2>4 DEF Exits, TypeInv, TypeOK, caller
  <2>5. ASSUME NEW k \in Child, ReadMessage(k) PROVE TypeOK'
    <3>1. stdout[k] \in Seq(Message) /\ messages[k] \in Seq(Message) /\ stdout[k] # <<>>
      BY <2>5 DEF ReadMessage, TypeInv, TypeOK
    <3>2. Tail(stdout[k]) \in Seq(Message) /\ Append(messages[k], Head(stdout[k])) \in Seq(Message)
      BY <3>1
    <3> QED
      BY <2>5, <3>2 DEF ReadMessage, TypeInv, TypeOK, caller
  <2> QED BY <1>2, <2>1, <2>2, <2>3, <2>4, <2>5 DEF TypeInv, ServerStep
<1>3. CASE UNCHANGED vars
  BY <1>3 DEF vars, server, caller, TypeInv, TypeOK, CallerInv
<1> QED
  BY <1>1, <1>2, <1>3

LEMMA StepTypeInv == TypeInv /\ [Next]_vars => TypeInv'
BY CallerTypeInv, OtherTypeInv DEF Next, ServerStep

(* The client's and the threads' variables keep their types. *)
THEOREM ClientTypeCorrect == Spec => []TypeOK
<1>1. TypeInv => TypeOK
  BY DEF TypeInv
<1> QED
  BY <1>1, InitTypeInv, StepTypeInv, PTL DEF Spec
-----------------------------------------------------------------------------
(* One server *)

(* A child that runs after a step of a caller or of the adapter ran before, *)
(* or was started by it.                                                    *)
LEMMA CallerChildInv ==
  ASSUME TypeInv, ChildInv, NEW c \in Caller, Ask(c) \/ SearchStep(c) \/ TimesOut(c)
  PROVE  ChildInv'
<1> USE ClientAssumption DEF Goto, At, Alive, Child, Holding
<1>1. CASE Ask(c) \/ StartFails(c) \/ Return(c)
  <2>1. /\ UNCHANGED <<lock, client, child>>
        /\ \E l \in {"lock", "answered", "idle"} : Goto(c, l)
        /\ using' = using \/ using' = [using EXCEPT ![c] = 0]
    BY <1>1 DEF Ask, StartFails, Return, server
  <2>2. lock # c
    BY <1>1 DEF Ask, StartFails, Return, TypeInv, CallerInv
  <2> QED
    BY <2>1, <2>2 DEF ChildInv, TypeInv, TypeOK
<1>2. CASE Reuse(c)
  BY <1>2 DEF Reuse, ChildInv, TypeInv, TypeOK, server
<1>3. CASE Start(c)
  <2>1. query[c] \in Query /\ query[c] # 0
    BY <1>3 DEF Start, TypeInv, CallerInv, Query
  <2>2. /\ child' = [child EXCEPT ![query[c]] = "running"]
        /\ using' = [using EXCEPT ![c] = query[c]]
        /\ lock = NoCaller /\ lock' = c /\ client' = client /\ ~ Alive(client)
    BY <1>3 DEF Start
  <2>3. \A k \in Query : child[k] = "running" => k = client /\ k # 0
    BY <2>2 DEF ChildInv, Query
  <2>4. \A k \in Query : child'[k] = "running" => k = query[c]
    BY <2>2, <2>3 DEF TypeInv, TypeOK
  <2>5. \A d \in Caller : pc'[d] \notin {"send", "wait"}
    BY <1>3 DEF Start, TypeInv, TypeOK, CallerInv
  <2>6. using'[c] = query[c] /\ client \in Query \cup {0}
    BY <2>2 DEF TypeInv, TypeOK
  <2> QED
    BY <2>1, <2>2, <2>4, <2>5, <2>6 DEF ChildInv
<1>4. CASE Send(c)
  BY <1>4 DEF Send, ChildInv, TypeInv, TypeOK
<1>5. CASE TimesOut(c) \/ SeesExit(c)
  BY <1>5 DEF TimesOut, SeesExit, ChildInv, TypeInv, TypeOK, server
<1>6. CASE Get(c)
  <2>1. lock = c /\ using[c] \in Query
    BY <1>6 DEF Get, Waiting, TypeInv, CallerInv
  <2>2. child' = child /\ using' = using
    BY <1>6 DEF Get, server
  <2>3. \/ UNCHANGED <<lock, client, pc>>
        \/ Goto(c, "close") /\ UNCHANGED <<lock, client>>
        \/ client' = using[c] /\ lock' = lock /\ Goto(c, "send")
        \/ lock' = NoCaller /\ client' = client /\ At(c, "wait") /\ Goto(c, "answered")
    <3> DEFINE m == Head(messages[using[c]])
               last == ~ (m.kind = "error") /\ ~ (m.kind = "result" /\ At(c, "initialize"))
    <3>1. \/ UNCHANGED <<lock, client, pc, answer>>
          \/ Goto(c, "close") /\ UNCHANGED <<lock, client, answer>>
          \/ client' = using[c] /\ Goto(c, "send") /\ UNCHANGED <<lock, answer>>
          \/ lock' = NoCaller /\ Goto(c, "answered") /\ UNCHANGED client /\ last
      BY ONLY <1>6, Zenon DEF Get
    <3>2. messages[using[c]] \in Seq(Message) /\ messages[using[c]] # <<>>
      BY <1>6, <2>1 DEF Get, TypeInv, TypeOK
    <3>4. m \in Message
      BY <3>2
    <3>3. m.kind \in {"result", "error"} /\ (At(c, "initialize") \/ At(c, "wait"))
      BY <1>6, <3>4 DEF Get, Waiting, Message
    <3> QED
      BY <3>1, <3>3
  <2>4. \A d \in Caller : pc[d] \in {"send", "wait"} => d = c
    BY <2>1 DEF TypeInv, CallerInv
  <2>5. pc \in [Caller -> PC]
    BY DEF TypeInv, TypeOK
  <2>6. CASE UNCHANGED <<lock, client, pc>>
    BY <2>2, <2>6 DEF ChildInv
  <2>7. CASE Goto(c, "close") /\ UNCHANGED <<lock, client>>
    BY <2>2, <2>5, <2>7 DEF ChildInv
  <2>8. CASE client' = using[c] /\ lock' = lock /\ Goto(c, "send")
    BY <2>1, <2>2, <2>4, <2>5, <2>8 DEF ChildInv
  <2>9. CASE lock' = NoCaller /\ client' = client /\ At(c, "wait") /\ Goto(c, "answered")
    BY <2>1, <2>2, <2>4, <2>5, <2>9 DEF ChildInv
  <2> QED
    BY <2>3, <2>6, <2>7, <2>8, <2>9
<1>7. CASE Close(c)
  <2>1. lock = c /\ using[c] \in Query
    BY <1>7 DEF Close, TypeInv, CallerInv
  <2>2. /\ child' = [child EXCEPT ![using[c]] = "dead"]
        /\ client' = IF client = using[c] THEN 0 ELSE client
        /\ lock' = NoCaller /\ using' = using
    BY <1>7 DEF Close, GiveUp
  <2>3. \A d \in Caller : pc'[d] \notin {"send", "wait"}
    BY <1>7, <2>1 DEF Close, TypeInv, TypeOK, CallerInv
  <2>4. \A k \in Query : child'[k] = "running" => child[k] = "running" /\ k # using[c]
    BY <2>1, <2>2 DEF TypeInv, TypeOK
  <2>5. \A k \in Query : child'[k] = "running" => k = client
    BY <2>1, <2>4 DEF ChildInv, Query
  <2> QED
    BY <2>1, <2>2, <2>3, <2>4, <2>5 DEF ChildInv
<1> QED
  BY <1>1, <1>2, <1>3, <1>4, <1>5, <1>6, <1>7 DEF SearchStep

LEMMA OtherChildInv ==
  ASSUME TypeInv, ChildInv, CloseAdapter \/ ServerStep \/ UNCHANGED vars
  PROVE  ChildInv'
<1> USE ClientAssumption DEF Alive, Child
<1>1. CASE CloseAdapter
  <2>1. \A d \in Caller : pc'[d] \notin {"send", "wait"}
    BY <1>1 DEF CloseAdapter, TypeInv, CallerInv, Holding, caller
  <2>2. /\ child' = [child EXCEPT ![client] = "dead"] /\ client \in Query
        /\ client' = 0 /\ lock = NoCaller /\ lock' = lock /\ using' = using
    BY <1>1 DEF CloseAdapter, GiveUp, TypeInv, TypeOK, caller
  <2>3. \A k \in Query : child'[k] # "running"
    BY <2>2 DEF ChildInv, TypeInv, TypeOK, Query
  <2> QED
    BY <2>1, <2>2, <2>3 DEF ChildInv
<1>2. CASE ServerStep
  <2>1. lock' = lock /\ client' = client /\ using' = using /\ pc' = pc
        /\ \A k \in Child : child'[k] = "running" => child[k] = "running"
    BY <1>2 DEF ServerStep, Answers, SpeaksUp, Exits, ReadMessage, caller, TypeInv, TypeOK
  <2>2. client \in Child \cup {0}
    BY DEF TypeInv, TypeOK
  <2> QED
    BY <2>1, <2>2 DEF ChildInv
<1>3. CASE UNCHANGED vars
  BY <1>3 DEF vars, server, caller, ChildInv
<1> QED
  BY <1>1, <1>2, <1>3

(* For any threads: never two servers, and none that nobody can reach.      *)
THEOREM OneServerHolds == Spec => []OneServer
<1> DEFINE I == TypeInv /\ ChildInv
<1>1. Init => I
  <2> SUFFICES ASSUME Init PROVE ChildInv
    BY InitTypeInv
  <2> QED
    BY DEF Init, ChildInv, Alive
<1>2. I /\ [Next]_vars => I'
  BY StepTypeInv, CallerChildInv, OtherChildInv DEF Next, ServerStep
<1>3. I => OneServer
  <2> SUFFICES ASSUME TypeInv, ChildInv PROVE OneServer
    OBVIOUS
  <2>1. lock = NoCaller => \A k \in Child : Alive(k) => client = k
    BY ClientAssumption DEF ChildInv
  <2>2. ASSUME NEW c \in Caller, lock = c, NEW k \in Child, Alive(k) PROVE k = using[c]
    BY <2>2, ClientAssumption DEF ChildInv, TypeInv, TypeOK
  <2>3. lock \in Caller \cup {NoCaller}
    BY DEF TypeInv, TypeOK
  <2> QED
    BY <2>1, <2>2, <2>3 DEF OneServer
<1> QED
  BY <1>1, <1>2, <1>3, PTL DEF Spec
-----------------------------------------------------------------------------
(* The answer is the caller's *)

Said(s) == {s[i] : i \in 1 .. Len(s)}

LEMMA SaidAppend ==
  ASSUME NEW S, NEW s \in Seq(S), NEW e \in S
  PROVE  Said(Append(s, e)) = Said(s) \cup {e}
<1>1. Len(Append(s, e)) = Len(s) + 1 /\ Len(s) \in Nat
  OBVIOUS
<1>2. \A i \in 1 .. Len(s) : Append(s, e)[i] = s[i]
  OBVIOUS
<1>3. Append(s, e)[Len(s) + 1] = e
  OBVIOUS
<1> QED
  BY <1>1, <1>2, <1>3 DEF Said

LEMMA SaidTail ==
  ASSUME NEW S, NEW s \in Seq(S), s # <<>>
  PROVE  Said(Tail(s)) \subseteq Said(s) /\ Head(s) \in Said(s)
<1>1. Len(Tail(s)) = Len(s) - 1 /\ Len(s) \in Nat \ {0}
  OBVIOUS
<1>2. \A i \in 1 .. Len(s) - 1 : Tail(s)[i] = s[i + 1]
  OBVIOUS
<1>3. Head(s) = s[1]
  OBVIOUS
<1>4. \A i \in 1 .. Len(s) - 1 : i + 1 \in 1 .. Len(s)
  BY <1>1
<1> QED
  BY <1>1, <1>2, <1>3, <1>4 DEF Said

Lines(k) == Said(stdout[k]) \cup Said(messages[k])

(* What is about a search carries an id already given out, and the id that  *)
(* somebody waits for only if it is about that caller's search.             *)
Belongs(k, id, q) ==
  q # Empty => /\ id < nextId[k]
               /\ \A c \in Caller :
                    (Waiting(c) /\ using[c] = k /\ waitId[c] = id) => q = query[c]

MatchInv ==
  \A k \in Child : /\ \A r \in asked[k] : Belongs(k, r.id, r.query)
                   /\ \A x \in Lines(k) : Belongs(k, x.id, x.hits)

(* A step keeps what belongs if ids only grow and nobody starts to wait for *)
(* one given out before.                                                    *)
LEMMA BelongsKept ==
  ASSUME NEW k \in Child, NEW id \in Nat, NEW q, Belongs(k, id, q),
         nextId[k] \in Nat, nextId'[k] \in Nat, nextId[k] <= nextId'[k],
         \A c \in Caller :
           (Waiting(c)' /\ using'[c] = k) =>
             \/ /\ Waiting(c) /\ using'[c] = using[c] /\ waitId'[c] = waitId[c]
                /\ query'[c] = query[c]
             \/ waitId'[c] = nextId[k]
  PROVE  Belongs(k, id, q)'
BY DEF Belongs

(* A step that adds no request and no line, and changes no wait but to end  *)
(* it, keeps the match.                                                     *)
LEMMA MatchKept ==
  ASSUME TypeInv, MatchInv, TypeInv',
         nextId' = nextId,
         \A k \in Child : asked'[k] \subseteq asked[k] /\ Lines(k)' \subseteq Lines(k),
         \A c \in Caller : Waiting(c)' => /\ Waiting(c) /\ using'[c] = using[c]
                                          /\ waitId'[c] = waitId[c] /\ query'[c] = query[c]
  PROVE  MatchInv'
<1> SUFFICES ASSUME NEW k \in Child
             PROVE  /\ \A r \in asked'[k] : Belongs(k, r.id, r.query)'
                    /\ \A x \in Lines(k)' : Belongs(k, x.id, x.hits)'
  BY DEF MatchInv
<1>1. nextId'[k] = nextId[k]
  OBVIOUS
<1>2. \A id, q : Belongs(k, id, q) => Belongs(k, id, q)'
  BY <1>1 DEF Belongs
<1> QED
  BY <1>2 DEF MatchInv

LEMMA CallerMatchInv ==
  ASSUME TypeInv, ChildInv, MatchInv, NEW c \in Caller,
         Ask(c) \/ SearchStep(c) \/ TimesOut(c)
  PROVE  MatchInv'
<1> USE DEF Goto, At, Child, Holding
<1>0. TypeInv'
  BY CallerTypeInv
<1>1. CASE Ask(c) \/ Reuse(c) \/ StartFails(c) \/ Return(c) \/ TimesOut(c) \/ SeesExit(c)
  <2>1. UNCHANGED <<nextId, asked, stdout, messages>>
    BY <1>1 DEF Ask, Reuse, StartFails, Return, TimesOut, SeesExit, server
  <2>2. \A d \in Caller : Waiting(d)' => /\ Waiting(d) /\ using'[d] = using[d]
                                         /\ waitId'[d] = waitId[d] /\ query'[d] = query[d]
    BY <1>1 DEF Ask, Reuse, StartFails, Return, TimesOut, SeesExit, Waiting, TypeInv, TypeOK,
                server
  <2>3. \A k \in Child : asked'[k] \subseteq asked[k] /\ Lines(k)' \subseteq Lines(k)
    BY <2>1 DEF Lines
  <2> QED
    BY <1>0, <2>1, <2>2, <2>3, MatchKept
<1>2. CASE Start(c)
  <2>1. query[c] \in Query
    BY <1>2 DEF Start, TypeInv, CallerInv
  <2>2. /\ asked' = [asked EXCEPT ![query[c]] = {[id |-> 1, query |-> Empty]}]
        /\ nextId' = [nextId EXCEPT ![query[c]] = 2]
        /\ stdout' = [stdout EXCEPT ![query[c]] = <<>>]
        /\ messages' = [messages EXCEPT ![query[c]] = <<>>]
        /\ using' = [using EXCEPT ![c] = query[c]]
        /\ query' = query /\ lock = NoCaller
        /\ waitId' = [waitId EXCEPT ![c] = 1] /\ pc' = [pc EXCEPT ![c] = "initialize"]
    BY <1>2 DEF Start
  <2>3. \A d \in Caller : Waiting(d)' => d = c
    BY <2>2, ClientAssumption DEF TypeInv, TypeOK, CallerInv, Waiting
  <2>4. using'[c] = query[c]
    BY <2>2 DEF TypeInv, TypeOK
  <2> SUFFICES ASSUME NEW k \in Child
               PROVE  /\ \A r \in asked'[k] : Belongs(k, r.id, r.query)'
                      /\ \A x \in Lines(k)' : Belongs(k, x.id, x.hits)'
    BY DEF MatchInv
  <2>5. CASE k = query[c]
    <3>1. asked'[k] = {[id |-> 1, query |-> Empty]} /\ stdout'[k] = <<>> /\ messages'[k] = <<>>
      BY <2>1, <2>2, <2>5 DEF TypeInv, TypeOK
    <3>2. Lines(k)' = {}
      BY <3>1 DEF Lines, Said
    <3>3. \A r \in asked'[k] : r.query = Empty
      BY <3>1
    <3> QED
      BY <3>2, <3>3 DEF Belongs
  <2>6. CASE k # query[c]
    <3>1. /\ asked'[k] = asked[k] /\ stdout'[k] = stdout[k] /\ messages'[k] = messages[k]
          /\ nextId'[k] = nextId[k]
      BY <2>1, <2>2, <2>6 DEF TypeInv, TypeOK
    <3>2. Lines(k)' = Lines(k)
      BY <3>1 DEF Lines
    <3>3. \A id, q : Belongs(k, id, q) => Belongs(k, id, q)'
      BY <2>3, <2>4, <2>6, <3>1 DEF Belongs
    <3> QED
      BY <3>1, <3>2, <3>3 DEF MatchInv
  <2> QED
    BY <2>5, <2>6
<1>3. CASE Send(c)
  <2> DEFINE K == using[c]
             new == [id |-> nextId[K], query |-> query[c]]
  <2>1. K \in Child /\ nextId[K] \in Nat /\ query[c] \in Query /\ lock = c
    BY <1>3 DEF Send, TypeInv, TypeOK, CallerInv
  <2>2. /\ nextId' = [nextId EXCEPT ![K] = nextId[K] + 1]
        /\ asked' = asked \/ asked' = [asked EXCEPT ![K] = @ \cup {new}]
        /\ waitId' = [waitId EXCEPT ![c] = nextId[K]]
        /\ UNCHANGED <<using, query, stdout, messages>>
        /\ \E l \in {"wait", "close"} : Goto(c, l)
    BY <1>3 DEF Send
  <2> HIDE DEF K
  <2>3. \A d \in Caller : Waiting(d)' => d = c
    BY <2>1, <2>2 DEF TypeInv, TypeOK, CallerInv, Waiting
  <2>4. waitId'[c] = nextId[K] /\ nextId'[K] = nextId[K] + 1
    BY <2>1, <2>2 DEF TypeInv, TypeOK
  <2>5. ASSUME NEW k \in Child, NEW id, NEW q, Belongs(k, id, q), id \in Nat
        PROVE  Belongs(k, id, q)'
    <3>1. nextId[k] \in Nat /\ nextId'[k] \in Nat /\ nextId[k] <= nextId'[k]
      BY <2>1, <2>2 DEF TypeInv, TypeOK
    <3>2. \A d \in Caller : (Waiting(d)' /\ using'[d] = k) => waitId'[d] = nextId[k]
      BY <2>2, <2>3, <2>4 DEF K
    <3> QED
      BY <2>5, <3>1, <3>2, BelongsKept
  <2>6. \A k, id, q : (k = K /\ id = nextId[K] /\ q = query[c]) => Belongs(k, id, q)'
    BY <2>1, <2>2, <2>3, <2>4 DEF Belongs
  <2> SUFFICES ASSUME NEW k \in Child
               PROVE  /\ \A r \in asked'[k] : Belongs(k, r.id, r.query)'
                      /\ \A x \in Lines(k)' : Belongs(k, x.id, x.hits)'
    BY DEF MatchInv
  <2>7. Lines(k)' = Lines(k)
    BY <2>2 DEF Lines
  <2>8. \A x \in Lines(k) : x.id \in Nat
    <3>1. \A i \in 1 .. Len(stdout[k]) : stdout[k][i] \in Message
      BY DEF TypeInv, TypeOK
    <3>2. \A i \in 1 .. Len(messages[k]) : messages[k][i] \in Message
      BY DEF TypeInv, TypeOK
    <3> QED
      BY <3>1, <3>2 DEF Lines, Said, Message
  <2>9. \A r \in asked[k] : r.id \in Nat
    BY DEF TypeInv, TypeOK, Request
  <2>10. asked'[k] \subseteq asked[k] \/ (k = K /\ asked'[k] = asked[k] \cup {new})
    BY <2>1, <2>2 DEF TypeInv, TypeOK
  <2>11. new.id = nextId[K] /\ new.query = query[c] /\ query' = query
    BY <2>2
  <2>12. k = K => \A r \in {new} : Belongs(k, r.id, r.query)'
    BY <2>6, <2>11
  <2> HIDE DEF new
  <2>13. \A r \in asked'[k] : Belongs(k, r.id, r.query)'
    BY <2>5, <2>9, <2>10, <2>12 DEF MatchInv
  <2>14. \A x \in Lines(k) : Belongs(k, x.id, x.hits)'
    BY <2>5, <2>8 DEF MatchInv
  <2> QED
    BY <2>7, <2>13, <2>14
<1>4. CASE Get(c)
  <2>1. using[c] \in Child /\ messages[using[c]] \in Seq(Message) /\ messages[using[c]] # <<>>
    BY <1>4 DEF Get, Waiting, TypeInv, TypeOK, CallerInv
  <2>2. /\ messages' = [messages EXCEPT ![using[c]] = Tail(@)]
        /\ UNCHANGED <<nextId, asked, stdout, using, query, waitId>>
    BY <1>4 DEF Get, server
  <2>3. \/ pc' = pc
        \/ Goto(c, "close") \/ Goto(c, "send") \/ Goto(c, "answered")
    BY <1>4 DEF Get
  <2>4. \A d \in Caller : Waiting(d)' => Waiting(d)
    BY <2>3 DEF Waiting, TypeInv, TypeOK
  <2>5. ASSUME NEW k \in Child PROVE Lines(k)' \subseteq Lines(k)
    <3>1. messages'[k] = IF k = using[c] THEN Tail(messages[k]) ELSE messages[k]
      BY <2>2 DEF TypeInv, TypeOK
    <3> QED
      BY <2>1, <2>2, <3>1, SaidTail DEF Lines
  <2>6. \A k \in Child : asked'[k] \subseteq asked[k]
    BY <2>2
  <2> QED
    BY <1>0, <2>2, <2>4, <2>5, <2>6, MatchKept
<1>5. CASE Close(c)
  <2>1. using[c] \in Child
    BY <1>5 DEF Close, TypeInv, CallerInv
  <2>2. /\ GiveUp(using[c]) /\ Goto(c, "answered")
        /\ UNCHANGED <<nextId, using, query, waitId>>
    BY <1>5 DEF Close
  <2>3. \A d \in Caller : Waiting(d)' => Waiting(d)
    BY <2>2 DEF Waiting, TypeInv, TypeOK
  <2>4. ASSUME NEW k \in Child
        PROVE  asked'[k] \subseteq asked[k] /\ Lines(k)' \subseteq Lines(k)
    BY <2>1, <2>2 DEF GiveUp, Lines, Said, TypeInv, TypeOK
  <2> QED
    BY <1>0, <2>2, <2>3, <2>4, MatchKept
<1> QED
  BY <1>1, <1>2, <1>3, <1>4, <1>5 DEF SearchStep

LEMMA OtherMatchInv ==
  ASSUME TypeInv, MatchInv, CloseAdapter \/ ServerStep \/ UNCHANGED vars
  PROVE  MatchInv'
<1> USE DEF Child
<1>0. TypeInv'
  BY OtherTypeInv
<1>1. CASE CloseAdapter
  <2>1. /\ client \in Child /\ GiveUp(client)
        /\ UNCHANGED <<nextId, pc, using, query, waitId>>
    BY <1>1 DEF CloseAdapter, TypeInv, TypeOK, caller
  <2>2. ASSUME NEW k \in Child
        PROVE  asked'[k] \subseteq asked[k] /\ Lines(k)' \subseteq Lines(k)
    BY <2>1 DEF GiveUp, Lines, Said, TypeInv, TypeOK
  <2> QED
    BY <1>0, <2>1, <2>2, MatchKept DEF Waiting, At
<1>2. CASE ServerStep
  <2>1. UNCHANGED <<nextId, pc, using, query, waitId>>
    BY <1>2 DEF ServerStep, Answers, SpeaksUp, Exits, ReadMessage, caller
  <2>2. \A k, id, q : Belongs(k, id, q) => Belongs(k, id, q)'
    BY <2>1 DEF Belongs, Waiting, At
  <2>3. \A k, id : Belongs(k, id, Empty)'
    BY DEF Belongs
  <2>4. SUFFICES ASSUME NEW j \in Child
               PROVE  /\ \A r \in asked'[j] : r \in asked[j]
                      /\ \A x \in Lines(j)' : \/ x \in Lines(j) \/ x.hits = Empty
                                              \/ \E r \in asked[j] : x.id = r.id /\ x.hits = r.query
    BY <2>2, <2>3 DEF MatchInv
  <2>5. ASSUME NEW k \in Child, NEW m \in Message, Says(k, m), messages' = messages
        PROVE  Lines(j)' \subseteq Lines(j) \cup {m} /\ (j # k => Lines(j)' = Lines(j))
    <3>1. stdout[k] \in Seq(Message) /\ stdout' = [stdout EXCEPT ![k] = Append(stdout[k], m)]
      BY <2>5 DEF Says, TypeInv, TypeOK
    <3>2. stdout'[j] = IF j = k THEN Append(stdout[k], m) ELSE stdout[j]
      BY <3>1 DEF TypeInv, TypeOK
    <3> QED
      BY <2>5, <3>1, <3>2, SaidAppend DEF Lines
  <2>6. ASSUME NEW k \in Child, NEW r \in asked[k], NEW kind \in {"result", "error"},
               Answers(k, r, kind)
        PROVE  /\ \A q \in asked'[j] : q \in asked[j]
               /\ \A x \in Lines(j)' : \/ x \in Lines(j) \/ x.hits = Empty
                                       \/ \E q \in asked[j] : x.id = q.id /\ x.hits = q.query
    <3> DEFINE hits == IF kind = "error" THEN Empty ELSE r.query
               m == [id |-> r.id, kind |-> kind, hits |-> hits]
    <3>1. r \in Request
      BY DEF TypeInv, TypeOK
    <3>2. m \in Message /\ m.id = r.id /\ m.hits \in {Empty, r.query}
      BY <3>1 DEF Request, Message
    <3>3. Says(k, m) /\ messages' = messages /\ asked' = [asked EXCEPT ![k] = @ \ {r}]
      BY <2>6 DEF Answers
    <3> HIDE DEF m
    <3>4. Lines(j)' \subseteq Lines(j) \cup {m} /\ (j # k => Lines(j)' = Lines(j))
      BY <2>5, <3>2, <3>3
    <3>5. asked'[j] \subseteq asked[j]
      BY <3>3 DEF TypeInv, TypeOK
    <3> QED
      BY <3>2, <3>4, <3>5
  <2>7. ASSUME NEW k \in Child, NEW i \in Id \cup {0}, SpeaksUp(k, i)
        PROVE  asked' = asked /\ \A x \in Lines(j)' : x \in Lines(j) \/ x.hits = Empty
    <3> DEFINE m == [id |-> i, kind |-> "result", hits |-> Empty]
    <3>1. m \in Message /\ m.hits = Empty
      BY ClientAssumption DEF Message, Id
    <3>2. Says(k, m) /\ messages' = messages /\ asked' = asked
      BY <2>7 DEF SpeaksUp
    <3> HIDE DEF m
    <3> QED
      BY <2>5, <3>1, <3>2
  <2>8. ASSUME NEW k \in Child, Exits(k)
        PROVE  asked'[j] \subseteq asked[j] /\ Lines(j)' = Lines(j)
    BY <2>8 DEF Exits, Lines, TypeInv, TypeOK
  <2>9. ASSUME NEW k \in Child, ReadMessage(k)
        PROVE  asked' = asked /\ Lines(j)' \subseteq Lines(j)
    <3>1. stdout[k] \in Seq(Message) /\ messages[k] \in Seq(Message) /\ stdout[k] # <<>>
      BY <2>9 DEF ReadMessage, TypeInv, TypeOK
    <3>2. /\ messages' = [messages EXCEPT ![k] = Append(messages[k], Head(stdout[k]))]
          /\ stdout' = [stdout EXCEPT ![k] = Tail(stdout[k])] /\ asked' = asked
      BY <2>9 DEF ReadMessage
    <3>3. Head(stdout[k]) \in Message
      BY <3>1
    <3>4. CASE j = k
      <4>1. stdout'[k] = Tail(stdout[k]) /\ messages'[k] = Append(messages[k], Head(stdout[k]))
        BY <3>2 DEF TypeInv, TypeOK
      <4> QED
        BY <3>1, <3>2, <3>3, <3>4, <4>1, SaidTail, SaidAppend DEF Lines
    <3>5. CASE j # k
      BY <3>2, <3>5 DEF Lines, TypeInv, TypeOK
    <3> QED
      BY <3>2, <3>4, <3>5
  <2> QED
    BY <1>2, <2>6, <2>7, <2>8, <2>9 DEF ServerStep
<1>3. CASE UNCHANGED vars
  <2>1. \A k \in Child : asked'[k] \subseteq asked[k] /\ Lines(k)' \subseteq Lines(k)
    BY <1>3 DEF vars, server, Lines
  <2> QED
    BY <1>0, <1>3, <2>1, MatchKept DEF vars, server, caller, Waiting, At
<1> QED
  BY <1>1, <1>2, <1>3

(* What a search returns is set by Get from a line that has the id it waits *)
(* for, and taken back by Return.                                           *)
LEMMA AnswerStep ==
  ASSUME TypeInv, MatchInv, OwnAnswer, [Next]_vars
  PROVE  OwnAnswer'
<1> USE DEF Goto, At, Child, Holding
<1>1. ASSUME NEW c \in Caller, Ask(c) PROVE OwnAnswer'
  BY <1>1 DEF Ask, OwnAnswer, TypeInv, TypeOK, CallerInv
<1>2. ASSUME NEW c \in Caller,
             Reuse(c) \/ Start(c) \/ StartFails(c) \/ Send(c) \/ SeesExit(c) \/ Close(c)
               \/ TimesOut(c)
      PROVE  OwnAnswer'
  BY <1>2 DEF Reuse, Start, StartFails, Send, SeesExit, Close, TimesOut, OwnAnswer
<1>3. ASSUME NEW c \in Caller, Return(c) PROVE OwnAnswer'
  BY <1>3 DEF Return, OwnAnswer, TypeInv, TypeOK
<1>4. ASSUME NEW c \in Caller, Get(c) PROVE OwnAnswer'
  <2> DEFINE k == using[c]
             m == Head(messages[k])
  <2>1. k \in Child /\ messages[k] \in Seq(Message) /\ messages[k] # <<>>
    BY <1>4 DEF Get, Waiting, TypeInv, TypeOK, CallerInv
  <2>2. answer' = answer \/ (Mine(c, m) /\ answer' = [answer EXCEPT ![c] = m.hits])
    BY <1>4 DEF Get
  <2>3. query' = query /\ Waiting(c)
    BY <1>4 DEF Get
  <2>4. m \in Lines(k)
    BY <2>1, SaidTail DEF Lines
  <2>5. Mine(c, m) => m.hits \in {Empty, query[c]}
    BY <2>1, <2>3, <2>4 DEF MatchInv, Belongs, Mine
  <2> HIDE DEF m, k
  <2> QED
    BY <2>2, <2>3, <2>5 DEF OwnAnswer, TypeInv, TypeOK
<1>5. CASE CloseAdapter \/ ServerStep \/ UNCHANGED vars
  BY <1>5 DEF CloseAdapter, ServerStep, Answers, SpeaksUp, Exits, ReadMessage, vars, caller,
              OwnAnswer
<1> QED
  BY <1>1, <1>2, <1>3, <1>4, <1>5 DEF Next, SearchStep, ServerStep

(* For any threads and any server: a search returns hits for its own query  *)
(* or none.                                                                 *)
THEOREM OwnAnswerHolds == Spec => []OwnAnswer
<1> DEFINE I == TypeInv /\ ChildInv /\ MatchInv /\ OwnAnswer
<1>1. Init => I
  <2> SUFFICES ASSUME Init PROVE ChildInv /\ MatchInv /\ OwnAnswer
    BY InitTypeInv
  <2>1. ChildInv /\ OwnAnswer
    BY DEF Init, ChildInv, OwnAnswer, Alive
  <2>2. \A k \in Child : asked[k] = {} /\ Lines(k) = {}
    BY DEF Init, Lines, Said
  <2> QED
    BY <2>1, <2>2 DEF MatchInv
<1>2. I /\ [Next]_vars => I'
  BY StepTypeInv, CallerChildInv, OtherChildInv, CallerMatchInv, OtherMatchInv, AnswerStep
  DEF Next, ServerStep
<1>3. I => OwnAnswer
  OBVIOUS
<1> QED
  BY <1>1, <1>2, <1>3, PTL DEF Spec
=============================================================================
