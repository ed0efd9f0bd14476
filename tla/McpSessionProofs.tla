--------------------------- MODULE McpSessionProofs ---------------------------
(***************************************************************************)
(* Theorems about the MCP servers of a run, for any number of servers and  *)
(* tools, every configuration, pages of any size, and servers that say     *)
(* whatever McpSession lets them say.                                      *)
(***************************************************************************)
EXTENDS McpSession, TLAPS

Methods == {"initialize", "initialized", "tools/list", "tools/call"}

Request == [id : Nat, method : Methods]

\* All that a server can write.
Said == (UNION {Replies(r) : r \in Request}) \cup Asides

Statuses == {"ok", "failed"}

(* What TypeOK says of the variables, with the sets the sequences are of.  *)
TypeInv ==
  /\ phase \in {"boot", "connect", "initialize", "list", "serve", "call",
                "failed", "closed"}
  /\ specs \in Seq(Servers)
  /\ current \in Servers \cup {"none"} /\ (Waiting <=> current # "none")
  /\ pending \in Nat /\ (pending # 0 => Waiting)
  /\ nextId \in [Servers -> Nat \ {0}]
  /\ current \in Servers => pending < nextId[current]
  /\ initialized \in [Servers -> BOOLEAN]
  /\ listing.tools \subseteq Names /\ listing.pages \in Nat
  /\ listing.pages < MaxPages
  /\ connected \in Seq([server : Servers, tools : SUBSET Names])
  /\ observed \in Seq([server : Servers, status : Statuses])
  /\ phase = "call" => Len(connected) + Len(observed) <= MaxWork
  /\ process \in [Servers -> {"none", "running", "zombie"}]
  /\ inbox \in [Servers -> Seq(Request)]
  /\ out \in [Servers -> Seq(Said)]

(* Every process belongs to a client, and a client that is gone has left   *)
(* neither a process nor anything in its pipes.                            *)
ProcessInv ==
  /\ \A s \in Servers : process[s] = "none" => inbox[s] = <<>> /\ out[s] = <<>>
  /\ \A s \in Servers : process[s] # "none" => s \in Connected \cup {current}
  /\ phase \in {"failed", "closed"} => \A s \in Servers : process[s] = "none"
  /\ phase = "call" => current \in Connected

Sent(s) == ToSet(inbox[s])
Spoken(s) == ToSet(out[s])

(* An id is used for one request only, and what a server says with an id   *)
(* is about the request it was sent under that id.                         *)
WireInv ==
  /\ \A s \in Servers : \A r \in Sent(s) : r.id < nextId[s]
  /\ \A s \in Servers : \A q, r \in Sent(s) : q.id = r.id /\ r.id # 0 => q = r
  /\ \A s \in Servers : \A m \in Spoken(s) :
       "request" \in DOMAIN m => m.request \in Sent(s) /\ m.request.id # 0
  /\ pending # 0 => [id |-> pending, method |-> Method(phase)] \in Sent(current)

(* The tools collected so far and those of the connected servers.          *)
AliasInv ==
  /\ \A n, t \in listing.tools : n # t => Alias[n] # Alias[t]
  /\ AliasesAreDistinct

IInv == TypeInv /\ ProcessInv /\ WireInv /\ AliasInv /\ RecordsMatch

-----------------------------------------------------------------------------
(* Sequences and messages *)

\* What a queue holds after a message is appended to it or taken from it.
LEMMA QueueFacts ==
  ASSUME NEW S, NEW q \in Seq(S)
  PROVE  /\ \A x \in S : Append(q, x) \in Seq(S) /\ ToSet(Append(q, x)) = ToSet(q) \cup {x}
         /\ q # <<>> => /\ Tail(q) \in Seq(S) /\ ToSet(Tail(q)) \subseteq ToSet(q)
                        /\ Head(q) \in S /\ Head(q) \in ToSet(q)
         /\ <<>> \in Seq(S) /\ ToSet(<<>>) = {} /\ ToSet(q) \subseteq S
<1>1. ASSUME NEW x \in S
      PROVE  Append(q, x) \in Seq(S) /\ ToSet(Append(q, x)) = ToSet(q) \cup {x}
  <2>1. /\ Append(q, x) \in Seq(S) /\ Len(Append(q, x)) = Len(q) + 1
        /\ \A i \in 1..Len(q) : Append(q, x)[i] = q[i]
        /\ Append(q, x)[Len(q) + 1] = x
    OBVIOUS
  <2>2. DOMAIN Append(q, x) = 1..Len(q) + 1 /\ DOMAIN q = 1..Len(q) /\ Len(q) \in Nat
    OBVIOUS
  <2>3. QED
    BY <2>1, <2>2 DEF ToSet
<1>2. ASSUME q # <<>>
      PROVE  /\ Tail(q) \in Seq(S) /\ ToSet(Tail(q)) \subseteq ToSet(q)
             /\ Head(q) \in S /\ Head(q) \in ToSet(q)
  <2>1. /\ Tail(q) \in Seq(S) /\ Len(Tail(q)) = Len(q) - 1 /\ Len(q) \in Nat \ {0}
        /\ \A i \in 1..Len(q) - 1 : Tail(q)[i] = q[i + 1]
        /\ Head(q) = q[1]
    BY <1>2
  <2>2. DOMAIN Tail(q) = 1..Len(q) - 1 /\ DOMAIN q = 1..Len(q)
    BY <2>1
  <2>3. QED
    BY <2>1, <2>2 DEF ToSet
<1>3. <<>> \in Seq(S) /\ ToSet(<<>>) = {} /\ ToSet(q) \subseteq S
  BY DEF ToSet
<1>4. QED
  BY <1>1, <1>2, <1>3

\* A reply names the request it is for; a result lists names of tools.
LEMMA MessageFacts ==
  /\ \A r, m : m \in Replies(r) => "request" \in DOMAIN m /\ m.request = r
  /\ \A m \in Asides : "request" \notin DOMAIN m
  /\ \A m \in Said : m.type = "result" => m.tools \subseteq Names
<1>1. ASSUME NEW r, NEW m \in Replies(r)
      PROVE  /\ "request" \in DOMAIN m /\ m.request = r
             /\ m.type = "result" => m.tools \subseteq Names
  <2>1. CASE m \in [type : {"noResult"}, request : {r}]
    BY <2>1
  <2>2. CASE m \in Results(r)
    <3> DEFINE forms == {"good", "bad"}
                          \cup (IF r.method = "tools/call" THEN {"isError"} ELSE {})
               pages == IF r.method = "tools/list" THEN Pages ELSE {}
               nexts == Cursors \cup {NoMore}
    <3>1. \/ m \in {ResultOf(r, form, {}, NoMore) : form \in forms}
          \/ m \in {ResultOf(r, "good", names, next) : names \in pages, next \in nexts}
      BY <2>2 DEF Results
    <3>2. pages \subseteq SUBSET Names
      BY McpAssumption
    <3> HIDE DEF forms, pages, nexts
    <3>3. \/ \E form \in forms : m = ResultOf(r, form, {}, NoMore)
          \/ \E names \in pages, next \in nexts : m = ResultOf(r, "good", names, next)
      BY <3>1
    <3>4. CASE \E form \in forms : m = ResultOf(r, form, {}, NoMore)
      BY <3>4 DEF ResultOf
    <3>5. CASE \E names \in pages, next \in nexts : m = ResultOf(r, "good", names, next)
      BY <3>2, <3>5 DEF ResultOf
    <3>6. QED
      BY <3>3, <3>4, <3>5
  <2>3. QED
    BY <2>1, <2>2 DEF Replies
<1>2. ASSUME NEW m \in Asides
      PROVE  "request" \notin DOMAIN m /\ m.type # "result"
  BY DEF Asides
<1>3. ASSUME NEW m \in Said PROVE m.type = "result" => m.tools \subseteq Names
  <2>1. CASE m \in Asides
    BY <1>2, <2>1
  <2>2. CASE m \notin Asides
    <3>1. m \in UNION {Replies(r) : r \in Request}
      BY <2>2 DEF Said
    <3>2. PICK r \in Request : m \in Replies(r)
      BY <3>1
    <3>3. QED
      BY <1>1, <3>2
  <2>3. QED
    BY <2>1, <2>2
<1>4. QED
  BY <1>1, <1>2, <1>3

-----------------------------------------------------------------------------
(* The invariant holds initially and is preserved by every step *)

\* Before a session starts there are no clients and no processes.
LEMMA InitIInv == Init => IInv
<1> SUFFICES ASSUME Init PROVE IInv
  OBVIOUS
<1>1. specs \in Seq(Servers)
  BY McpAssumption DEF Init
<1>2. TypeInv
  BY <1>1, McpAssumption DEF Init, TypeInv, Waiting, Connecting, NoListing
<1>3. ProcessInv
  BY DEF Init, ProcessInv
<1>4. \A s \in Servers : Sent(s) = {} /\ Spoken(s) = {}
  BY DEF Init, Sent, Spoken, ToSet
<1>5. WireInv
  BY <1>4 DEF Init, WireInv
<1>6. AliasInv /\ RecordsMatch
  BY DEF Init, AliasInv, AliasesAreDistinct, RecordsMatch, NoListing
<1>7. QED
  BY <1>2, <1>3, <1>5, <1>6 DEF IInv

\* A step that sends nothing, in which nothing new is said, and that neither
\* uses an id again nor leaves a request with another method.
LEMMA WireKept ==
  ASSUME TypeInv, WireInv,
         \A s \in Servers :
           \/ /\ Sent(s)' = Sent(s) /\ Spoken(s)' \subseteq Spoken(s)
              /\ nextId'[s] \in Nat /\ nextId'[s] >= nextId[s]
           \/ Sent(s)' = {} /\ Spoken(s)' = {},
         \/ pending' = 0
         \/ /\ pending' = pending /\ current' = current /\ phase' = phase
            /\ Sent(current)' = Sent(current)
  PROVE  WireInv'
<1>1. \A s \in Servers : \A r \in Sent(s) : r.id \in Nat /\ nextId[s] \in Nat
  <2>1. \A s \in Servers : Sent(s) \subseteq Request
    BY QueueFacts DEF TypeInv, Sent
  <2>2. QED
    BY <2>1 DEF TypeInv, Request
<1>2. \A s \in Servers : \A r \in Sent(s)' : r.id < nextId'[s]
  BY <1>1 DEF WireInv
<1>3. \A s \in Servers : \A q, r \in Sent(s)' : q.id = r.id /\ r.id # 0 => q = r
  BY DEF WireInv
<1>4. \A s \in Servers : \A m \in Spoken(s)' :
        "request" \in DOMAIN m => m.request \in Sent(s)' /\ m.request.id # 0
  BY DEF WireInv
<1>5. pending' # 0 => [id |-> pending', method |-> Method(phase)'] \in Sent(current)'
  BY DEF WireInv, Method
<1>6. QED
  BY <1>2, <1>3, <1>4, <1>5 DEF WireInv

\* What is left of the queues after transports are closed.
LEMMA StopFacts ==
  ASSUME NEW ss, Stop(ss), TypeInv
  PROVE  /\ process' \in [Servers -> {"none", "running", "zombie"}]
         /\ inbox' \in [Servers -> Seq(Request)] /\ out' \in [Servers -> Seq(Said)]
         /\ \A s \in Servers \cap ss :
              /\ process'[s] = "none" /\ inbox'[s] = <<>> /\ out'[s] = <<>>
              /\ Sent(s)' = {} /\ Spoken(s)' = {}
         /\ \A s \in Servers \ ss :
              /\ process'[s] = process[s] /\ inbox'[s] = inbox[s] /\ out'[s] = out[s]
              /\ Sent(s)' = Sent(s) /\ Spoken(s)' = Spoken(s)
<1>1. /\ <<>> \in Seq(Request) /\ <<>> \in Seq(Said) /\ ToSet(<<>>) = {}
  BY DEF ToSet
<1>2. /\ process' \in [Servers -> {"none", "running", "zombie"}]
      /\ inbox' \in [Servers -> Seq(Request)] /\ out' \in [Servers -> Seq(Said)]
  BY <1>1 DEF Stop, TypeInv
<1>3. \A s \in Servers \cap ss :
        process'[s] = "none" /\ inbox'[s] = <<>> /\ out'[s] = <<>>
  BY DEF Stop
<1>4. \A s \in Servers \ ss :
        process'[s] = process[s] /\ inbox'[s] = inbox[s] /\ out'[s] = out[s]
  BY DEF Stop
<1>5. QED
  BY <1>1, <1>2, <1>3, <1>4 DEF Sent, Spoken

\* A start that fails leaves nothing behind.
LEMMA FailingKeepsInv ==
  ASSUME IInv, phase \in {"connect", "initialize", "list"}, StartFails
  PROVE  IInv'
<1>1. TypeInv /\ Stop(Servers)
  BY DEF IInv, StartFails, NoClients
<1>2. TypeInv'
  <2>1. <<>> \in Seq(Servers) /\ <<>> \in Seq([server : Servers, tools : SUBSET Names])
    OBVIOUS
  <2>2. /\ phase' = "failed" /\ specs' = <<>> /\ current' = "none" /\ pending' = 0
        /\ connected' = <<>> /\ observed' = observed /\ listing' = NoListing
        /\ initialized' = [s \in Servers |-> FALSE] /\ nextId' = [s \in Servers |-> 1]
    BY DEF StartFails, NoClients
  <2>3. ~Waiting'
    BY <2>2 DEF Waiting, Connecting
  <2>4. /\ listing'.tools \subseteq Names /\ listing'.pages \in Nat
        /\ listing'.pages < MaxPages
    BY <2>2, McpAssumption DEF NoListing
  <2>5. observed \in Seq([server : Servers, status : Statuses])
    BY <1>1 DEF TypeInv
  <2>6. /\ process' \in [Servers -> {"none", "running", "zombie"}]
        /\ inbox' \in [Servers -> Seq(Request)] /\ out' \in [Servers -> Seq(Said)]
    BY <1>1, StopFacts
  <2>7. QED
    BY <2>1, <2>2, <2>3, <2>4, <2>5, <2>6, McpAssumption DEF TypeInv
<1>3. ProcessInv'
  BY <1>1, StopFacts DEF StartFails, ProcessInv
<1>4. WireInv'
  <2>1. \A s \in Servers : Sent(s)' = {} /\ Spoken(s)' = {}
    BY <1>1, StopFacts
  <2>2. pending' = 0
    BY DEF StartFails
  <2>3. QED
    BY <1>1, <2>1, <2>2, WireKept DEF IInv
<1>5. AliasInv' /\ RecordsMatch'
  BY DEF StartFails, NoClients, AliasInv, AliasesAreDistinct, RecordsMatch, IInv,
     NoListing
<1>6. QED
  BY <1>2, <1>3, <1>4, <1>5 DEF IInv

\* A message that is consumed was there, and those behind it stay.
LEMMA ConsumeFacts ==
  ASSUME TypeInv, Readable, current \in Servers,
         out' = [out EXCEPT ![current] = Tail(@)]
  PROVE  /\ out' \in [Servers -> Seq(Said)]
         /\ Message \in Said /\ Message \in Spoken(current)
         /\ \A s \in Servers : Spoken(s)' \subseteq Spoken(s)
         /\ \A s \in Servers : out[s] = <<>> => out'[s] = <<>>
<1>1. out[current] \in Seq(Said) /\ out[current] # <<>>
  BY DEF TypeInv, Readable
<1>2. /\ Tail(out[current]) \in Seq(Said)
      /\ ToSet(Tail(out[current])) \subseteq ToSet(out[current])
      /\ Head(out[current]) \in Said /\ Head(out[current]) \in ToSet(out[current])
  BY <1>1, QueueFacts
<1>3. out' \in [Servers -> Seq(Said)]
  BY <1>2 DEF TypeInv
<1>4. \A s \in Servers : out'[s] = IF s = current THEN Tail(out[current]) ELSE out[s]
  BY DEF TypeInv
<1>5. QED
  BY <1>1, <1>2, <1>3, <1>4 DEF Message, Spoken

\* The outcome of a tool call, whether its transport is closed, keeps what it
\* holds, or gives up one message.
LEMMA CallEndsKeepsInv ==
  ASSUME IInv, phase = "call",
         phase' = "serve" /\ current' = "none" /\ pending' = 0,
         specs' = specs /\ initialized' = initialized /\ listing' = listing,
         connected' = connected /\ records' = records,
         observed' \in Seq([server : Servers, status : Statuses]),
         nextId' \in {nextId, [nextId EXCEPT ![current] = @ + 1]},
         Stop({current}) \/ (Readable /\ Consume)
  PROVE  IInv'
<1>0. TypeInv /\ ProcessInv /\ WireInv
  BY DEF IInv
<1>1. /\ phase = "call" /\ phase' = "serve" /\ current' = "none" /\ pending' = 0
      /\ specs' = specs /\ initialized' = initialized /\ listing' = listing
      /\ connected' = connected /\ records' = records
      /\ current \in Servers /\ current \in Connected
  BY <1>0 DEF TypeInv, ProcessInv, Waiting
<1>2. /\ process' \in [Servers -> {"none", "running", "zombie"}]
      /\ inbox' \in [Servers -> Seq(Request)] /\ out' \in [Servers -> Seq(Said)]
      /\ \A s \in Servers :
           \/ process'[s] = "none" /\ inbox'[s] = <<>> /\ out'[s] = <<>>
           \/ /\ process'[s] = process[s] /\ inbox'[s] = inbox[s]
              /\ out[s] = <<>> => out'[s] = <<>>
      /\ \A s \in Servers :
           \/ Sent(s)' = Sent(s) /\ Spoken(s)' \subseteq Spoken(s)
           \/ Sent(s)' = {} /\ Spoken(s)' = {}
  <2>1. CASE Stop({current})
    BY <1>0, <2>1, StopFacts
  <2>2. CASE Readable /\ Consume
    <3>1. /\ out' = [out EXCEPT ![current] = Tail(@)]
          /\ process' = process /\ inbox' = inbox
      BY <2>2 DEF Consume
    <3>2. /\ out' \in [Servers -> Seq(Said)]
          /\ \A s \in Servers : Spoken(s)' \subseteq Spoken(s)
          /\ \A s \in Servers : out[s] = <<>> => out'[s] = <<>>
      BY <1>0, <1>1, <2>2, <3>1, ConsumeFacts
    <3>3. \A s \in Servers : Sent(s)' = Sent(s)
      BY <3>1 DEF Sent
    <3>4. QED
      BY <1>0, <3>1, <3>2, <3>3 DEF TypeInv
  <2>3. QED
    BY <2>1, <2>2
<1>3. /\ nextId' \in [Servers -> Nat \ {0}]
      /\ \A s \in Servers : nextId'[s] \in Nat /\ nextId'[s] >= nextId[s]
  <2>1. nextId \in [Servers -> Nat \ {0}] /\ nextId[current] + 1 \in Nat \ {0}
    BY <1>0, <1>1 DEF TypeInv
  <2>2. CASE nextId' = nextId
    BY <2>1, <2>2
  <2>3. CASE nextId' = [nextId EXCEPT ![current] = @ + 1]
    <3>1. \A s \in Servers :
            nextId'[s] = IF s = current THEN nextId[current] + 1 ELSE nextId[s]
      BY <2>1, <2>3
    <3>2. QED
      BY <1>1, <2>1, <2>3, <3>1
  <2>4. QED
    BY <2>2, <2>3
<1>4. TypeInv'
  <2>1. ~Waiting'
    BY <1>1 DEF Waiting, Connecting
  <2>2. /\ current' \in Servers \cup {"none"}
        /\ current' \in Servers => pending' < nextId'[current']
    BY <1>1, McpAssumption
  <2>3. QED
    BY <1>0, <1>1, <1>2, <1>3, <2>1, <2>2 DEF TypeInv
<1>5. ProcessInv'
  <2>1. Connected' = Connected
    BY <1>1 DEF Connected
  <2>2. QED
    BY <1>0, <1>1, <1>2, <2>1 DEF ProcessInv
<1>6. WireInv'
  BY <1>0, <1>1, <1>2, <1>3, WireKept
<1>7. AliasInv' /\ RecordsMatch'
  BY <1>1 DEF IInv, AliasInv, AliasesAreDistinct, RecordsMatch
<1>8. QED
  BY <1>4, <1>5, <1>6, <1>7 DEF IInv

\* Connected servers are servers.
LEMMA ConnectedAreServers == TypeInv => Connected \subseteq Servers
<1> SUFFICES ASSUME TypeInv, NEW i \in DOMAIN connected
             PROVE  connected[i].server \in Servers
  BY DEF Connected
<1>1. connected[i] \in [server : Servers, tools : SUBSET Names]
  <2> DEFINE R == [server : Servers, tools : SUBSET Names]
  <2>1. connected \in Seq(R)
    BY DEF TypeInv
  <2> HIDE DEF R
  <2>2. connected[i] \in R
    BY <2>1
  <2>3. QED
    BY <2>2 DEF R
<1>2. QED
  BY <1>1

\* A step of the client alone: no process, no message, no id.
LEMMA LocalStep ==
  ASSUME IInv, UNCHANGED <<nextId, initialized, listing, observed, process, inbox, out>>,
         pending' = 0, connected' = connected, specs' \in Seq(Servers),
         \/ phase = "boot" /\ phase' = "connect" /\ current' = current /\ records' = <<>>
         \/ /\ phase = "connect" /\ phase' = "serve" /\ current' = current
            /\ records' = connected
         \/ /\ phase = "serve" /\ phase' = "call" /\ current' \in Connected
            /\ Len(connected) + Len(observed) < MaxWork /\ records' = records
  PROVE  IInv'
<1>0. TypeInv /\ ProcessInv /\ WireInv
  BY DEF IInv
<1>1. Connected' = Connected /\ Connected \subseteq Servers
  BY <1>0, ConnectedAreServers DEF Connected
<1>2. current' \in Servers \cup {"none"} /\ (Waiting' <=> current' # "none")
      /\ (current' \in Servers => current' \in Connected)
  BY <1>0, <1>1, McpAssumption DEF TypeInv, Waiting, Connecting
<1>3. TypeInv'
  <2>1. phase' = "call" => Len(connected) + Len(observed) <= MaxWork
    BY <1>0, McpAssumption DEF TypeInv
  <2>2. QED
    BY <1>0, <1>2, <2>1 DEF TypeInv
<1>4. ProcessInv'
  <2>1. current = "none"
    BY <1>0 DEF TypeInv, Waiting, Connecting
  <2>2. QED
    BY <1>0, <1>1, <2>1, McpAssumption DEF ProcessInv
<1>5. WireInv'
  <2>1. \A s \in Servers : /\ Sent(s)' = Sent(s) /\ Spoken(s)' \subseteq Spoken(s)
                           /\ nextId'[s] \in Nat /\ nextId'[s] >= nextId[s]
    BY <1>0 DEF Sent, Spoken, TypeInv
  <2>2. QED
    BY <1>0, <2>1, WireKept
<1>6. AliasInv' /\ RecordsMatch'
  BY DEF IInv, AliasInv, AliasesAreDistinct, RecordsMatch
<1>7. QED
  BY <1>3, <1>4, <1>5, <1>6 DEF IInv

\* What a server says about a request it was sent.
LEMMA SayKeepsInv ==
  ASSUME IInv, NEW s \in Servers, Say(s)
  PROVE  IInv'
<1>0. TypeInv /\ ProcessInv /\ WireInv
  BY DEF IInv
<1>1. /\ process[s] = "running" /\ process' = process /\ inbox' = inbox
      /\ UNCHANGED <<specs, phase, current, pending, nextId, initialized,
                     listing, connected, records, observed>>
  BY DEF Say, Quiet
<1>2. PICK m \in (UNION {Replies(r) : r \in Requests(s)}) \cup Asides :
        out' = [out EXCEPT ![s] = Append(@, m)]
  BY DEF Say
<1>3. \A r \in Requests(s) : r \in Sent(s) /\ r \in Request /\ r.id # 0
  <2>1. \A i \in DOMAIN inbox[s] : inbox[s][i] \in Sent(s)
    BY DEF Sent, ToSet
  <2>2. Sent(s) \subseteq Request
    BY <1>0, QueueFacts DEF TypeInv, Sent
  <2>3. QED
    BY <2>1, <2>2 DEF Requests
<1>4. /\ m \in Said
      /\ "request" \in DOMAIN m => m.request \in Sent(s) /\ m.request.id # 0
  <2>1. CASE m \in Asides
    BY <2>1, MessageFacts DEF Said
  <2>2. CASE m \notin Asides
    <3>1. m \in UNION {Replies(r) : r \in Requests(s)}
      BY <2>2
    <3>2. PICK r \in Requests(s) : m \in Replies(r)
      BY <3>1
    <3>3. m.request = r
      BY <3>2, MessageFacts
    <3>4. QED
      BY <1>3, <3>2, <3>3 DEF Said
  <2>3. QED
    BY <2>1, <2>2
<1>5. /\ out[s] \in Seq(Said) /\ Append(out[s], m) \in Seq(Said)
      /\ ToSet(Append(out[s], m)) = ToSet(out[s]) \cup {m}
  BY <1>0, <1>4, QueueFacts DEF TypeInv
<1>6. /\ out' \in [Servers -> Seq(Said)]
      /\ \A t \in Servers : out'[t] = IF t = s THEN Append(out[s], m) ELSE out[t]
  BY <1>0, <1>2, <1>5 DEF TypeInv
<1>7. TypeInv'
  BY <1>0, <1>1, <1>6 DEF TypeInv, Waiting
<1>8. ProcessInv'
  <2>1. Connected' = Connected
    BY <1>1 DEF Connected
  <2>2. \A t \in Servers : process[t] = "none" => out'[t] = out[t]
    BY <1>1, <1>6
  <2>3. QED
    BY <1>0, <1>1, <2>1, <2>2 DEF ProcessInv
<1>9. WireInv'
  <2>1. \A t \in Servers : Sent(t)' = Sent(t)
    BY <1>1 DEF Sent
  <2>2. \A t \in Servers : Spoken(t)' = IF t = s THEN Spoken(s) \cup {m} ELSE Spoken(t)
    BY <1>5, <1>6 DEF Spoken
  <2>3. pending # 0 => Sent(current)' = Sent(current) /\ Method(phase)' = Method(phase)
    BY <1>1 DEF Sent, Method
  <2>4. QED
    BY <1>0, <1>1, <1>4, <2>1, <2>2, <2>3 DEF WireInv
<1>10. AliasInv' /\ RecordsMatch'
  BY <1>1 DEF IInv, AliasInv, AliasesAreDistinct, RecordsMatch
<1>11. QED
  BY <1>7, <1>8, <1>9, <1>10 DEF IInv

\* A request is sent under an id that was not used before.
LEMMA SendKeepsInv ==
  ASSUME IInv, Send
  PROVE  IInv'
<1>0. TypeInv /\ ProcessInv /\ WireInv
  BY DEF IInv
<1> DEFINE id == nextId[current]
           r == [id |-> id, method |-> Method(phase)]
<1>1. /\ Waiting /\ pending = 0 /\ process[current] = "running" /\ pending' = id
      /\ nextId' = [nextId EXCEPT ![current] = @ + 1]
      /\ inbox' = [inbox EXCEPT ![current] = Append(@, r)]
      /\ UNCHANGED <<specs, phase, current, initialized, listing, connected,
                     records, observed, process, out>>
      /\ current \in Servers
  BY <1>0 DEF Send, CountRequest, TypeInv
<1>2. id \in Nat \ {0} /\ r \in Request
  <2>1. Method(phase) \in Methods
    <3>1. /\ Method("initialize") = "initialize" /\ Method("list") = "tools/list"
          /\ Method("call") = "tools/call"
      BY DEF Method
    <3>2. phase \in {"initialize", "list", "call"}
      BY <1>1 DEF Waiting, Connecting
    <3>3. QED
      BY <3>1, <3>2 DEF Methods
  <2>2. QED
    BY <1>0, <1>1, <2>1 DEF TypeInv, Request
<1>3. /\ inbox[current] \in Seq(Request) /\ Append(inbox[current], r) \in Seq(Request)
      /\ ToSet(Append(inbox[current], r)) = ToSet(inbox[current]) \cup {r}
  BY <1>0, <1>1, <1>2, QueueFacts DEF TypeInv
<1>4. /\ inbox' \in [Servers -> Seq(Request)]
      /\ \A s \in Servers :
           inbox'[s] = IF s = current THEN Append(inbox[current], r) ELSE inbox[s]
  BY <1>0, <1>1, <1>3 DEF TypeInv
<1>5. /\ nextId' \in [Servers -> Nat \ {0}]
      /\ \A s \in Servers : nextId'[s] = IF s = current THEN id + 1 ELSE nextId[s]
  BY <1>0, <1>1, <1>2 DEF TypeInv
<1>6. TypeInv'
  BY <1>0, <1>1, <1>2, <1>4, <1>5 DEF TypeInv, Waiting
<1>7. ProcessInv'
  <2>1. Connected' = Connected
    BY <1>1 DEF Connected
  <2>2. \A s \in Servers : process[s] = "none" => inbox'[s] = inbox[s]
    BY <1>1, <1>4
  <2>3. QED
    BY <1>0, <1>1, <2>1, <2>2 DEF ProcessInv
<1>8. WireInv'
  <2>1. \A s \in Servers : Sent(s)' = IF s = current THEN Sent(s) \cup {r} ELSE Sent(s)
    BY <1>3, <1>4 DEF Sent
  <2>2. \A s \in Servers : Spoken(s)' = Spoken(s)
    BY <1>1 DEF Spoken
  <2>3. \A s \in Servers : \A q \in Sent(s) : q.id \in Nat /\ nextId[s] \in Nat
    <3>1. \A s \in Servers : Sent(s) \subseteq Request
      BY <1>0, QueueFacts DEF TypeInv, Sent
    <3>2. QED
      BY <1>0, <3>1 DEF Request, TypeInv
  <2>4. \A s \in Servers : \A q \in Sent(s)' : q.id < nextId'[s]
    BY <1>0, <1>2, <1>5, <2>1, <2>3 DEF WireInv
  <2>5. \A q \in Sent(current) : q.id # id
    BY <1>0, <1>1, <2>3 DEF WireInv
  <2>6. \A s \in Servers : \A p, q \in Sent(s)' : p.id = q.id /\ q.id # 0 => p = q
    BY <1>0, <2>1, <2>5 DEF WireInv
  <2>7. [id |-> pending', method |-> Method(phase)'] \in Sent(current)'
    <3>1. Method(phase)' = Method(phase) /\ current' = current
      BY <1>1 DEF Method
    <3>2. r \in Sent(current)'
      BY <1>1, <2>1, <3>1
    <3>3. QED
      BY <1>1, <3>1, <3>2
  <2>8. \A s \in Servers : \A m \in Spoken(s)' :
          "request" \in DOMAIN m => m.request \in Sent(s)' /\ m.request.id # 0
    BY <1>0, <2>1, <2>2 DEF WireInv
  <2>9. QED
    BY <2>4, <2>6, <2>7, <2>8 DEF WireInv
<1>9. AliasInv' /\ RecordsMatch'
  BY <1>1 DEF IInv, AliasInv, AliasesAreDistinct, RecordsMatch
<1>10. QED
  BY <1>6, <1>7, <1>8, <1>9 DEF IInv

\* A server is connected to: its process runs.
LEMMA ConnectKeepsInv ==
  ASSUME IInv, Connect
  PROVE  IInv'
<1>0. TypeInv /\ ProcessInv /\ WireInv /\ phase = "connect" /\ specs # <<>>
  BY DEF IInv, Connect
<1>1. CASE StartFails
  BY <1>0, <1>1, FailingKeepsInv
<1>2. CASE ~StartFails
  <2> DEFINE s == Head(specs)
  <2>1. /\ specs' = Tail(specs) /\ current' = s /\ phase' = "initialize"
        /\ process' = [process EXCEPT ![s] = "running"]
        /\ UNCHANGED <<pending, nextId, initialized, listing, connected,
                       records, observed, inbox, out>>
    BY <1>2 DEF Connect
  <2>2. specs' \in Seq(Servers) /\ s \in Servers
    BY <1>0, <2>1, QueueFacts DEF TypeInv
  <2>3. pending = 0 /\ current = "none"
    BY <1>0 DEF TypeInv, Waiting, Connecting
  <2>4. Waiting'
    BY <2>1 DEF Waiting, Connecting
  <2>5. TypeInv'
    <3>1. process' \in [Servers -> {"none", "running", "zombie"}]
      BY <1>0, <2>1 DEF TypeInv
    <3>2. pending' < nextId'[s]
      BY <1>0, <2>1, <2>2, <2>3 DEF TypeInv
    <3>3. s # "none"
      BY <2>2, McpAssumption
    <3>4. QED
      BY <1>0, <2>1, <2>2, <2>4, <3>1, <3>2, <3>3 DEF TypeInv
  <2>6. ProcessInv'
    <3>1. Connected' = Connected
      BY <2>1 DEF Connected
    <3>2. \A t \in Servers : process'[t] = IF t = s THEN "running" ELSE process[t]
      BY <1>0, <2>1 DEF TypeInv
    <3>3. QED
      BY <1>0, <2>1, <2>3, <3>1, <3>2, McpAssumption DEF ProcessInv
  <2>7. WireInv'
    <3>1. \A t \in Servers : /\ Sent(t)' = Sent(t) /\ Spoken(t)' \subseteq Spoken(t)
                             /\ nextId'[t] \in Nat /\ nextId'[t] >= nextId[t]
      BY <1>0, <2>1 DEF Sent, Spoken, TypeInv
    <3>2. QED
      BY <1>0, <2>1, <2>3, <3>1, WireKept
  <2>8. AliasInv' /\ RecordsMatch'
    BY <1>0, <2>1 DEF IInv, AliasInv, AliasesAreDistinct, RecordsMatch
  <2>9. QED
    BY <2>5, <2>6, <2>7, <2>8 DEF IInv
<1>3. QED
  BY <1>1, <1>2

\* A server process that ends is still the client's to wait for.
LEMMA DieKeepsInv ==
  ASSUME IInv, NEW s \in Servers, Die(s)
  PROVE  IInv'
<1>0. TypeInv /\ ProcessInv /\ WireInv
  BY DEF IInv
<1>1. /\ process[s] = "running" /\ process' = [process EXCEPT ![s] = "zombie"]
      /\ UNCHANGED <<specs, phase, current, pending, nextId, initialized, listing,
                     connected, records, observed, inbox, out>>
  BY DEF Die, Quiet
<1>2. TypeInv'
  BY <1>0, <1>1 DEF TypeInv, Waiting
<1>3. ProcessInv'
  <2>1. Connected' = Connected
    BY <1>1 DEF Connected
  <2>2. \A t \in Servers : process'[t] = IF t = s THEN "zombie" ELSE process[t]
    BY <1>0, <1>1 DEF TypeInv
  <2>3. QED
    BY <1>0, <1>1, <2>1, <2>2 DEF ProcessInv
<1>4. WireInv'
  <2>1. \A t \in Servers : /\ Sent(t)' = Sent(t) /\ Spoken(t)' \subseteq Spoken(t)
                           /\ nextId'[t] \in Nat /\ nextId'[t] >= nextId[t]
    BY <1>0, <1>1 DEF Sent, Spoken, TypeInv
  <2>2. Sent(current)' = Sent(current)
    BY <1>1 DEF Sent
  <2>3. QED
    BY <1>0, <1>1, <2>1, <2>2, WireKept
<1>5. AliasInv' /\ RecordsMatch'
  BY <1>1 DEF IInv, AliasInv, AliasesAreDistinct, RecordsMatch
<1>6. QED
  BY <1>2, <1>3, <1>4, <1>5 DEF IInv

\* A message that answers nothing is skipped.
LEMMA SkipKeepsInv ==
  ASSUME IInv, Skip
  PROVE  IInv'
<1>0. TypeInv /\ ProcessInv /\ WireInv /\ current \in Servers
  BY DEF IInv, Skip, Readable, TypeInv
<1>1. /\ out' = [out EXCEPT ![current] = Tail(@)] /\ Readable
      /\ UNCHANGED <<specs, phase, current, pending, nextId, initialized, listing,
                     connected, records, observed, process, inbox>>
  BY DEF Skip, Consume, Quiet
<1>2. /\ out' \in [Servers -> Seq(Said)]
      /\ \A s \in Servers : Spoken(s)' \subseteq Spoken(s)
      /\ \A s \in Servers : out[s] = <<>> => out'[s] = <<>>
  BY <1>0, <1>1, ConsumeFacts
<1>3. TypeInv'
  BY <1>0, <1>1, <1>2 DEF TypeInv, Waiting
<1>4. ProcessInv'
  <2>1. Connected' = Connected
    BY <1>1 DEF Connected
  <2>2. QED
    BY <1>0, <1>1, <1>2, <2>1 DEF ProcessInv
<1>5. WireInv'
  <2>1. \A s \in Servers : /\ Sent(s)' = Sent(s)
                           /\ nextId'[s] \in Nat /\ nextId'[s] >= nextId[s]
    BY <1>0, <1>1 DEF Sent, TypeInv
  <2>2. Sent(current)' = Sent(current)
    BY <1>1 DEF Sent
  <2>3. QED
    BY <1>0, <1>1, <1>2, <2>1, <2>2, WireKept
<1>6. AliasInv' /\ RecordsMatch'
  BY <1>1 DEF IInv, AliasInv, AliasesAreDistinct, RecordsMatch
<1>7. QED
  BY <1>3, <1>4, <1>5, <1>6 DEF IInv

\* A result that is used is the answer to the request under way.
LEMMA ResultFacts ==
  ASSUME IInv, NEW p, Result(p)
  PROVE  /\ current \in Servers /\ Message \in Said /\ pending # 0
         /\ Message.tools \subseteq Names
         /\ Message.request = [id |-> pending, method |-> Method(phase)]
<1>1. TypeInv /\ WireInv /\ Readable /\ Message.type = "result" /\ Answers(Message)
  BY DEF IInv, Result
<1>2. current \in Servers /\ pending # 0
  BY <1>1 DEF Readable, TypeInv
<1>3. Message \in Said /\ Message \in Spoken(current)
  <2>1. out[current] \in Seq(Said) /\ out[current] # <<>>
    BY <1>1, <1>2 DEF Readable, TypeInv
  <2>2. QED
    BY <2>1, QueueFacts DEF Message, Spoken
<1>4. /\ Message.request \in Sent(current) /\ Message.request.id = pending
      /\ [id |-> pending, method |-> Method(phase)] \in Sent(current)
  BY <1>1, <1>2, <1>3 DEF Answers, WireInv
<1>5. Message.request = [id |-> pending, method |-> Method(phase)]
  <2> DEFINE r == [id |-> pending, method |-> Method(phase)]
  <2>1. r.id = pending
    OBVIOUS
  <2> HIDE DEF r
  <2>2. Message.request = r
    BY <1>1, <1>2, <1>4, <2>1 DEF WireInv, r
  <2>3. QED
    BY <2>2 DEF r
<1>6. Message.tools \subseteq Names
  BY <1>1, <1>3, MessageFacts
<1>7. QED
  BY <1>2, <1>3, <1>5, <1>6

\* The notification goes out under no id, before the next request.
LEMMA BeginListingKeepsInv ==
  ASSUME IInv, BeginListing
  PROVE  IInv'
<1>0. TypeInv /\ ProcessInv /\ WireInv
  BY DEF IInv
<1> DEFINE r == [id |-> 0, method |-> "initialized"]
<1>1. /\ phase = "initialize" /\ phase' = "list" /\ pending' = 0 /\ Readable
      /\ process[current] = "running" /\ current \in Servers
      /\ inbox' = [inbox EXCEPT ![current] = Append(@, r)]
      /\ out' = [out EXCEPT ![current] = Tail(@)]
      /\ initialized' = [initialized EXCEPT ![current] = TRUE]
      /\ UNCHANGED <<specs, current, nextId, listing, connected, records, observed,
                     process>>
  BY ResultFacts DEF BeginListing, Result
<1>2. /\ out' \in [Servers -> Seq(Said)]
      /\ \A s \in Servers : Spoken(s)' \subseteq Spoken(s)
      /\ \A s \in Servers : out[s] = <<>> => out'[s] = <<>>
  BY <1>0, <1>1, ConsumeFacts
<1>3. r \in Request
  BY DEF Request, Methods
<1>4. /\ inbox[current] \in Seq(Request) /\ Append(inbox[current], r) \in Seq(Request)
      /\ ToSet(Append(inbox[current], r)) = ToSet(inbox[current]) \cup {r}
  BY <1>0, <1>1, <1>3, QueueFacts DEF TypeInv
<1>5. /\ inbox' \in [Servers -> Seq(Request)]
      /\ \A s \in Servers :
           inbox'[s] = IF s = current THEN Append(inbox[current], r) ELSE inbox[s]
  BY <1>0, <1>1, <1>4 DEF TypeInv
<1>6. Waiting /\ Waiting'
  BY <1>1 DEF Waiting, Connecting
<1>7. TypeInv'
  <2>1. initialized' \in [Servers -> BOOLEAN]
    BY <1>0, <1>1 DEF TypeInv
  <2>2. pending' < nextId'[current]
    BY <1>0, <1>1 DEF TypeInv
  <2>3. QED
    BY <1>0, <1>1, <1>2, <1>5, <1>6, <2>1, <2>2 DEF TypeInv
<1>8. ProcessInv'
  <2>1. Connected' = Connected
    BY <1>1 DEF Connected
  <2>2. \A s \in Servers : process[s] = "none" => inbox'[s] = inbox[s]
    BY <1>1, <1>5
  <2>3. QED
    BY <1>0, <1>1, <1>2, <2>1, <2>2 DEF ProcessInv
<1>9. WireInv'
  <2>1. \A s \in Servers : Sent(s)' = IF s = current THEN Sent(s) \cup {r} ELSE Sent(s)
    BY <1>4, <1>5 DEF Sent
  <2>2. \A s \in Servers : \A q \in Sent(s)' : q.id < nextId'[s]
    <3>1. \A s \in Servers : nextId'[s] = nextId[s] /\ 0 < nextId[s]
      BY <1>0, <1>1 DEF TypeInv
    <3>2. QED
      BY <1>0, <2>1, <3>1 DEF WireInv
  <2>3. \A s \in Servers : \A p, q \in Sent(s)' : p.id = q.id /\ q.id # 0 => p = q
    BY <1>0, <2>1 DEF WireInv
  <2>4. \A s \in Servers : \A m \in Spoken(s)' :
          "request" \in DOMAIN m => m.request \in Sent(s)' /\ m.request.id # 0
    BY <1>0, <1>2, <2>1 DEF WireInv
  <2>5. QED
    BY <1>1, <2>2, <2>3, <2>4 DEF WireInv
<1>10. AliasInv' /\ RecordsMatch'
  BY <1>1 DEF IInv, AliasInv, AliasesAreDistinct, RecordsMatch
<1>11. QED
  BY <1>7, <1>8, <1>9, <1>10 DEF IInv

\* The tools of another page can be told apart from each other and from those
\* before.
LEMMA ListedAreDistinct ==
  ASSUME AliasInv, NEW names, Distinct(names)
  PROVE  \A n, t \in listing.tools \cup names : n # t => Alias[n] # Alias[t]
  BY DEF AliasInv, Distinct

\* What taking a page from the queue leaves alone.
LEMMA PageFacts ==
  ASSUME IInv, Result("list"), Consume, nextId' = nextId, pending' = 0
  PROVE  /\ phase = "list" /\ current \in Servers /\ Readable
         /\ process' = process /\ inbox' = inbox
         /\ out' \in [Servers -> Seq(Said)]
         /\ \A s \in Servers : out[s] = <<>> => out'[s] = <<>>
         /\ Message.tools \subseteq Names
         /\ WireInv'
<1>1. /\ phase = "list" /\ current \in Servers /\ Readable /\ TypeInv /\ WireInv
      /\ Message.tools \subseteq Names
  BY ResultFacts DEF Result, IInv
<1>2. /\ out' = [out EXCEPT ![current] = Tail(@)] /\ process' = process
      /\ inbox' = inbox
  BY DEF Consume
<1>3. /\ out' \in [Servers -> Seq(Said)]
      /\ \A s \in Servers : Spoken(s)' \subseteq Spoken(s)
      /\ \A s \in Servers : out[s] = <<>> => out'[s] = <<>>
  BY <1>1, <1>2, ConsumeFacts
<1>4. \A s \in Servers : /\ Sent(s)' = Sent(s)
                         /\ nextId'[s] \in Nat /\ nextId'[s] >= nextId[s]
  BY <1>1, <1>2 DEF Sent, TypeInv
<1>5. WireInv'
  BY <1>1, <1>3, <1>4, WireKept
<1>6. QED
  BY <1>1, <1>2, <1>3, <1>5

\* A page that is not the last is added to those before it.
LEMMA NextPageKeepsInv ==
  ASSUME IInv, NextPage
  PROVE  IInv'
<1>0. TypeInv /\ ProcessInv /\ AliasInv
  BY DEF IInv
<1>1. /\ Result("list") /\ Consume /\ pending' = 0 /\ Distinct(Message.tools)
      /\ listing' = Listed(Message) /\ listing.pages + 1 < MaxPages
      /\ UNCHANGED <<specs, phase, current, nextId, initialized, connected, records,
                     observed>>
  BY DEF NextPage, GoesOn
<1>2. /\ phase = "list" /\ current \in Servers
      /\ process' = process /\ inbox' = inbox
      /\ out' \in [Servers -> Seq(Said)]
      /\ \A s \in Servers : out[s] = <<>> => out'[s] = <<>>
      /\ Message.tools \subseteq Names
      /\ WireInv'
  BY <1>1, PageFacts
<1>3. /\ listing'.tools = listing.tools \cup Message.tools
      /\ listing'.pages = listing.pages + 1
  BY <1>1 DEF Listed
<1>4. TypeInv'
  <2>1. pending' < nextId'[current]
    BY <1>0, <1>1, <1>2 DEF TypeInv
  <2>2. listing'.pages \in Nat /\ listing'.pages < MaxPages
    BY <1>0, <1>1, <1>3 DEF TypeInv
  <2>3. QED
    BY <1>0, <1>1, <1>2, <1>3, <2>1, <2>2 DEF TypeInv, Waiting
<1>5. ProcessInv'
  <2>1. Connected' = Connected
    BY <1>1 DEF Connected
  <2>2. QED
    BY <1>0, <1>1, <1>2, <2>1 DEF ProcessInv
<1>6. AliasInv' /\ RecordsMatch'
  <2>1. \A n, t \in listing'.tools : n # t => Alias[n] # Alias[t]
    BY <1>0, <1>1, <1>3, ListedAreDistinct
  <2>2. QED
    BY <1>1, <2>1 DEF IInv, AliasInv, AliasesAreDistinct, RecordsMatch
<1>7. QED
  BY <1>2, <1>4, <1>5, <1>6 DEF IInv

\* After its last page a server is connected, with the tools of all pages.
LEMMA LastPageKeepsInv ==
  ASSUME IInv, LastPage
  PROVE  IInv'
<1>0. TypeInv /\ ProcessInv /\ AliasInv
  BY DEF IInv
<1> DEFINE Entry == [server : Servers, tools : SUBSET Names]
           e == [server |-> current, tools |-> Listed(Message).tools]
<1>1. /\ Result("list") /\ Consume /\ pending' = 0 /\ Distinct(Message.tools)
      /\ connected' = Append(connected, e) /\ listing' = NoListing
      /\ phase' = "connect" /\ current' = "none"
      /\ UNCHANGED <<specs, nextId, initialized, records, observed>>
  BY DEF LastPage
<1>2. /\ phase = "list" /\ current \in Servers
      /\ process' = process /\ inbox' = inbox
      /\ out' \in [Servers -> Seq(Said)]
      /\ \A s \in Servers : out[s] = <<>> => out'[s] = <<>>
      /\ Message.tools \subseteq Names
      /\ WireInv'
  BY <1>1, PageFacts
<1>3. /\ e \in Entry /\ e.server = current
      /\ e.tools = listing.tools \cup Message.tools
  BY <1>0, <1>2 DEF TypeInv, Listed
<1>4. connected \in Seq(Entry)
  BY <1>0 DEF TypeInv
<1> HIDE DEF e, Entry
<1>5. /\ connected' \in Seq(Entry)
      /\ DOMAIN connected' = DOMAIN connected \cup {Len(connected) + 1}
      /\ \A i \in DOMAIN connected : connected'[i] = connected[i]
      /\ connected'[Len(connected) + 1] = e
  BY <1>1, <1>3, <1>4
<1>6. TypeInv'
  <2>1. ~Waiting'
    BY <1>1 DEF Waiting, Connecting
  <2>2. connected' \in Seq([server : Servers, tools : SUBSET Names])
    BY <1>5 DEF Entry
  <2>3. /\ listing'.tools \subseteq Names /\ listing'.pages \in Nat
        /\ listing'.pages < MaxPages
    BY <1>1, McpAssumption DEF NoListing
  <2>4. QED
    BY <1>0, <1>1, <1>2, <2>1, <2>2, <2>3, McpAssumption DEF TypeInv
<1>7. ProcessInv'
  <2>1. Connected \cup {current} \subseteq Connected'
    BY <1>3, <1>5 DEF Connected
  <2>2. QED
    BY <1>0, <1>1, <1>2, <2>1 DEF ProcessInv
<1>8. AliasInv' /\ RecordsMatch'
  <2>1. \A n, t \in e.tools : n # t => Alias[n] # Alias[t]
    BY <1>0, <1>1, <1>3, ListedAreDistinct
  <2>2. AliasesAreDistinct'
    BY <1>0, <1>5, <2>1 DEF AliasInv, AliasesAreDistinct
  <2>3. QED
    BY <1>1, <1>2, <2>2 DEF IInv, AliasInv, RecordsMatch, NoListing
<1>9. QED
  BY <1>2, <1>6, <1>7, <1>8 DEF IInv

\* Every client of a session that is closed is closed.
LEMMA CloseKeepsInv ==
  ASSUME IInv, Close
  PROVE  IInv'
<1>0. TypeInv
  BY DEF IInv
<1>1. /\ phase = "serve" /\ phase' = "closed" /\ Stop(Servers) /\ connected' = <<>>
      /\ initialized' = [s \in Servers |-> FALSE] /\ nextId' = [s \in Servers |-> 1]
      /\ UNCHANGED <<specs, current, pending, listing, records, observed>>
  BY DEF Close, NoClients
<1>2. /\ process' \in [Servers -> {"none", "running", "zombie"}]
      /\ inbox' \in [Servers -> Seq(Request)] /\ out' \in [Servers -> Seq(Said)]
      /\ \A s \in Servers :
           /\ process'[s] = "none" /\ inbox'[s] = <<>> /\ out'[s] = <<>>
           /\ Sent(s)' = {} /\ Spoken(s)' = {}
  BY <1>0, <1>1, StopFacts
<1>3. current = "none" /\ pending = 0
  BY <1>0, <1>1 DEF TypeInv, Waiting, Connecting
<1>4. TypeInv'
  <2>1. ~Waiting'
    BY <1>1 DEF Waiting, Connecting
  <2>2. <<>> \in Seq([server : Servers, tools : SUBSET Names])
    OBVIOUS
  <2>3. QED
    BY <1>0, <1>1, <1>2, <1>3, <2>1, <2>2, McpAssumption DEF TypeInv
<1>5. ProcessInv'
  BY <1>1, <1>2 DEF ProcessInv
<1>6. WireInv'
  BY <1>1, <1>2, <1>3 DEF WireInv
<1>7. AliasInv' /\ RecordsMatch'
  BY <1>1 DEF IInv, AliasInv, AliasesAreDistinct, RecordsMatch
<1>8. QED
  BY <1>4, <1>5, <1>6, <1>7 DEF IInv

\* Every step of the session, of a client, of a server preserves the invariant.
LEMMA NextIInv == IInv /\ [Next]_vars => IInv'
<1> SUFFICES ASSUME IInv, [Next]_vars PROVE IInv'
  OBVIOUS
<1>0. TypeInv
  BY DEF IInv
<1>1. CASE Begin
  <2>1. pending = 0
    BY <1>0, <1>1 DEF Begin, TypeInv, Waiting, Connecting
  <2>2. QED
    BY <1>0, <1>1, <2>1, LocalStep DEF Begin, servers, TypeInv
<1>2. CASE Started
  <2>1. pending = 0
    BY <1>0, <1>2 DEF Started, TypeInv, Waiting, Connecting
  <2>2. QED
    BY <1>0, <1>2, <2>1, LocalStep DEF Started, servers, TypeInv
<1>3. ASSUME NEW s \in Servers, CallTool(s) PROVE IInv'
  <2>1. pending = 0
    BY <1>0, <1>3 DEF CallTool, TypeInv, Waiting, Connecting
  <2>2. QED
    BY <1>0, <1>3, <2>1, LocalStep DEF CallTool, servers, TypeInv
<1>4. CASE StartFails /\ phase \in Connecting
  BY <1>4, FailingKeepsInv DEF Connecting
<1>5. ASSUME NEW status \in Statuses, Observe(status),
             nextId' = nextId \/ CountRequest, Stop({current}) \/ (Readable /\ Consume)
      PROVE  IInv'
  <2>1. nextId' \in {nextId, [nextId EXCEPT ![current] = @ + 1]}
    BY <1>5 DEF CountRequest
  <2>2. /\ phase = "call" /\ current \in Servers
        /\ observed \in Seq([server : Servers, status : Statuses])
    BY <1>0, <1>5 DEF Observe, TypeInv, Waiting
  <2>3. observed' \in Seq([server : Servers, status : Statuses])
    BY <1>5, <2>2 DEF Observe
  <2>4. QED
    BY <1>5, <2>1, <2>2, <2>3, CallEndsKeepsInv DEF Observe
<1>6. CASE SendFails
  BY <1>4, <1>5, <1>6 DEF SendFails, CallFails, Statuses
<1>7. CASE ReadFails
  BY <1>4, <1>5, <1>7 DEF ReadFails, CallFails, Statuses
<1>8. CASE Refused
  BY <1>4, <1>5, <1>8 DEF Refused, CallFails, Statuses
<1>9. CASE InitializeFails \/ ListingFails
  BY <1>4, <1>9 DEF InitializeFails, ListingFails, Result, Connecting
<1>10. CASE CallReturns \/ CallReturnsNoObject
  BY <1>5, <1>10 DEF CallReturns, CallReturnsNoObject, CallFails, Result, Statuses
<1>11. CASE CallThrows
  <2>1. /\ phase = "call" /\ phase' = "serve" /\ current' = "none" /\ pending' = 0
        /\ Readable /\ Consume
        /\ UNCHANGED <<specs, nextId, initialized, listing, connected, records,
                       observed>>
    BY <1>11 DEF CallThrows, Result
  <2>2. observed' \in Seq([server : Servers, status : Statuses])
    BY <1>0, <2>1 DEF TypeInv
  <2>3. QED
    BY <2>1, <2>2, CallEndsKeepsInv
<1>12. CASE UNCHANGED vars \/ Rest
  <2>1. UNCHANGED vars
    BY <1>12 DEF Rest
  <2>2. IInv' = IInv
    BY <2>1 DEF vars, IInv, TypeInv, ProcessInv, WireInv, AliasInv, AliasesAreDistinct,
       RecordsMatch, Waiting, Connected, Sent, Spoken, Method
  <2>3. QED
    BY <2>2
<1>13. QED
  BY <1>1, <1>2, <1>3, <1>6, <1>7, <1>8, <1>9, <1>10, <1>11, <1>12, ConnectKeepsInv,
     SendKeepsInv, SkipKeepsInv, BeginListingKeepsInv, NextPageKeepsInv,
     LastPageKeepsInv, CloseKeepsInv, SayKeepsInv, DieKeepsInv
  DEF Next, Client, Talk

-----------------------------------------------------------------------------
(* The theorems *)

\* The inductive invariant holds of every session.
LEMMA SessionInvariant == Spec => []IInv
<1>1. QED
  BY InitIInv, NextIInv, PTL DEF Spec

\* Every variable has its type, a client waits exactly while a server is
\* current, and a server is asked for at most kMaxToolsListPages pages.
THEOREM TypeCorrect == Spec => []TypeOK
<1>1. IInv => TypeOK
  BY DEF IInv, TypeInv, ProcessInv, TypeOK
<1>2. QED
  BY <1>1, SessionInvariant, PTL

\* Every server process is that of a client of the session, and none is left
\* when the session could not be started or is closed (McpSession::start and
\* close, McpTransportStdio::close).
THEOREM NoProcessIsOrphaned == Spec => []NoOrphans
<1>1. IInv => NoOrphans
  BY DEF IInv, ProcessInv, NoOrphans
<1>2. QED
  BY <1>1, SessionInvariant, PTL

\* The tools of every connected server have distinct local names, however its
\* pages are cut (McpClient::list_tools).
THEOREM ToolsCanBeToldApart == Spec => []AliasesAreDistinct
<1>1. IInv => AliasesAreDistinct
  BY DEF IInv, AliasInv
<1>2. QED
  BY <1>1, SessionInvariant, PTL

\* The session state names the servers that are connected, and none of a
\* session that did not start (McpSession::start).
THEOREM RecordsFollowServers == Spec => []RecordsMatch
<1>1. IInv => RecordsMatch
  BY DEF IInv
<1>2. QED
  BY <1>1, SessionInvariant, PTL

\* McpClient::request takes nothing for the result of a request but the
\* server's answer to that very request: for every server that answers late,
\* twice or out of turn, and every number of calls that failed before.
THEOREM OnlyAnswersAreUsed == Spec => ResultsBelong
<1> DEFINE A == BeginListing \/ NextPage \/ LastPage \/ CallReturns \/ CallThrows =>
                  Message.request = [id |-> pending, method |-> Method(phase)]
<1>1. IInv => A
  BY ResultFacts DEF BeginListing, NextPage, LastPage, CallReturns,
     CallThrows
<1>2. IInv /\ [Next]_vars => [A]_vars
  BY <1>1
<1>3. QED
  BY <1>2, SessionInvariant, PTL DEF Spec, ResultsBelong
=============================================================================
