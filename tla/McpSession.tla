----------------------------- MODULE McpSession -----------------------------
(***************************************************************************)
(* The MCP servers of a run: McpSession, its McpClients and the stdio      *)
(* transport, against server processes that answer, answer late or twice,  *)
(* talk out of turn, send rubbish, or die.                                 *)
(*                                                                         *)
(* The session connects the configured servers one after the other, all or *)
(* none, and then lets the agent loop call their tools.  A client has at   *)
(* most one request under way.                                             *)
(***************************************************************************)
EXTENDS Naturals, SequencesExt

CONSTANTS
  Servers,    \* names of servers
  Configured, \* the sequences of servers a run may be configured with
  Names,      \* names a server may give its tools
  Alias,      \* sanitize_identifier of each
  Pages,      \* the sets of names a page of tools may list
  Cursors,    \* cursors of tool lists
  MaxPages,   \* kMaxToolsListPages
  MaxWork,    \* bound: servers and tool calls of the run
  MaxIds,     \* bound: the next ids of all clients together, for a call
  MaxLate,    \* bound: messages a server remembers
  MaxQueue    \* bound: messages of a server that wait to be read

ASSUME McpAssumption ==
  /\ "none" \notin Servers /\ Configured \subseteq Seq(Servers)
  /\ DOMAIN Alias = Names /\ Pages \subseteq SUBSET Names
  /\ MaxPages \in Nat \ {0} /\ MaxWork \in Nat /\ MaxQueue \in Nat \ {0}
  /\ MaxIds \in Nat
  /\ MaxLate \in Nat \ {0}

VARIABLES
  specs,        \* servers still to be connected
  phase,        \* "boot", "connect", "initialize", "list", "serve", "call",
                \* "failed" or "closed"
  current,      \* the server the request under way goes to
  pending,      \* the id of that request, 0 before it is sent
  nextId,       \* next_request_id_ of each client
  initialized,  \* initialized_ of each client
  listing,      \* what tools/list has collected: tools, cursors, pages
  connected,    \* clients_, with the tools of each: a sequence
  records,      \* session_state.mcp_servers
  observed,     \* observations of tool calls
  process,      \* server processes: "none", "running" or "zombie"
  inbox,        \* what each process was sent
  out           \* messages of each process that have not been read

vars == <<specs, phase, current, pending, nextId, initialized, listing,
          connected, records, observed, process, inbox, out>>

servers == <<process, inbox, out>>

Connecting == {"initialize", "list"}

Method(p) == CASE p = "initialize" -> "initialize" [] p = "list" -> "tools/list"
               [] p = "call" -> "tools/call"

Connected == {connected[i].server : i \in DOMAIN connected}

-----------------------------------------------------------------------------
(* Messages of a server *)

NoMore == "none"

\* form: whether the result is as it should be (a page that gives a name twice
\* is not); "isError" is a tool's failure.
ResultOf(request, form, tools, next) ==
  [type |-> "result", request |-> request, form |-> form, tools |-> tools,
   next |-> next]

Results(request) ==
  {ResultOf(request, form, {}, NoMore) :
     form \in {"good", "bad"}
                \cup (IF request.method = "tools/call" THEN {"isError"} ELSE {})}
    \cup {ResultOf(request, "good", names, next) :
            names \in (IF request.method = "tools/list" THEN Pages ELSE {}),
            next \in Cursors \cup {NoMore}}

\* A server knows the ids it was sent.  noResult: an error, or a request of
\* the server's own that has the same id.  badId: a message whose id cannot be
\* used, or no object.  rubbish: no frame, a frame too large, or no JSON.
Replies(request) ==
  Results(request) \cup [type : {"noResult"}, request : {request}]

Asides == [type : {"notification", "badId", "rubbish"}]

\* It answers one of the last MaxLate messages it was sent.
Requests(s) ==
  {inbox[s][i] : i \in {i \in DOMAIN inbox[s] :
                          i > Len(inbox[s]) - MaxLate /\ inbox[s][i].id # 0}}

-----------------------------------------------------------------------------
NoListing == [tools |-> {}, cursors |-> {}, pages |-> 0]

Init ==
  /\ specs \in Configured
  /\ phase = "boot" /\ current = "none" /\ pending = 0
  /\ nextId = [s \in Servers |-> 1]
  /\ initialized = [s \in Servers |-> FALSE]
  /\ listing = NoListing
  /\ connected = <<>> /\ observed = <<>>
  /\ records \in {<<>>, <<[server |-> "earlier", tools |-> {}]>>}
  /\ process = [s \in Servers |-> "none"]
  /\ inbox = [s \in Servers |-> <<>>]
  /\ out = [s \in Servers |-> <<>>]

-----------------------------------------------------------------------------
(* Server processes *)

Quiet == UNCHANGED <<specs, phase, current, pending, nextId, initialized,
                     listing, connected, records, observed>>

Say(s) ==
  /\ process[s] = "running" /\ Len(out[s]) < MaxQueue
  /\ \E m \in (UNION {Replies(r) : r \in Requests(s)}) \cup Asides :
       out' = [out EXCEPT ![s] = Append(@, m)]
  /\ UNCHANGED <<process, inbox>> /\ Quiet

Die(s) ==
  /\ process[s] = "running"
  /\ process' = [process EXCEPT ![s] = "zombie"]
  /\ UNCHANGED <<inbox, out>> /\ Quiet

-----------------------------------------------------------------------------
(* McpTransportStdio *)

\* close(): the group is killed, the process waited for, the pipes dropped.
Stop(ss) ==
  /\ process' = [s \in Servers |-> IF s \in ss THEN "none" ELSE process[s]]
  /\ inbox' = [s \in Servers |-> IF s \in ss THEN <<>> ELSE inbox[s]]
  /\ out' = [s \in Servers |-> IF s \in ss THEN <<>> ELSE out[s]]

-----------------------------------------------------------------------------
(* McpSession::start *)

\* What a resumed session says of the servers of an earlier run is dropped.
Begin ==
  /\ phase = "boot"
  /\ phase' = "connect"
  /\ records' = <<>>
  /\ UNCHANGED <<specs, current, pending, nextId, initialized, listing,
                 connected, observed>>
  /\ UNCHANGED servers

\* Every client is closed and gone, the one being connected included.
NoClients ==
  /\ connected' = <<>>
  /\ initialized' = [s \in Servers |-> FALSE]
  /\ nextId' = [s \in Servers |-> 1]
  /\ Stop(Servers)

\* Mutant: servers that are already connected stay.
StartFailsAlone ==
  /\ phase' = "failed" /\ pending' = 0 /\ current' = "none"
  /\ listing' = NoListing
  /\ Stop({current} \cap Servers)
  /\ UNCHANGED <<specs, nextId, initialized, connected, records, observed>>

StartFails ==
  /\ phase' = "failed" /\ pending' = 0 /\ current' = "none"
  /\ listing' = NoListing
  /\ specs' = <<>>
  /\ NoClients
  /\ UNCHANGED <<records, observed>>

\* A name configured twice, a process that does not start, or a process.
Connect ==
  /\ phase = "connect" /\ specs # <<>>
  /\ \/ StartFails
     \/ /\ Head(specs) \notin Connected
        /\ specs' = Tail(specs)
        /\ current' = Head(specs)
        /\ phase' = "initialize"
        /\ process' = [process EXCEPT ![Head(specs)] = "running"]
        /\ UNCHANGED <<pending, nextId, initialized, listing, connected,
                       records, observed, inbox, out>>

Started ==
  /\ phase = "connect" /\ specs = <<>>
  /\ phase' = "serve"
  /\ records' = connected
  /\ UNCHANGED <<specs, current, pending, nextId, initialized, listing,
                 connected, observed>>
  /\ UNCHANGED servers

-----------------------------------------------------------------------------
(* McpSession::call_tool *)

CallTool(s) ==
  /\ phase = "serve" /\ s \in Connected
  /\ Len(connected) + Len(observed) < MaxWork
  /\ FoldFunction(+, 0, nextId) <= MaxIds
  /\ phase' = "call" /\ current' = s
  /\ UNCHANGED <<specs, pending, nextId, initialized, listing, connected,
                 records, observed>>
  /\ UNCHANGED servers

Observe(status) ==
  /\ phase = "call"
  /\ observed' = Append(observed, [server |-> current, status |-> status])
  /\ phase' = "serve" /\ current' = "none" /\ pending' = 0
  /\ UNCHANGED <<specs, initialized, listing, connected, records>>

CallFails == Observe("failed")

-----------------------------------------------------------------------------
(* McpClient::request *)

Waiting == phase \in Connecting \cup {"call"}

CountRequest == nextId' = [nextId EXCEPT ![current] = @ + 1]

\* A transport that is not running, a broken pipe, a server that does not read.
SendFails ==
  /\ Waiting /\ pending = 0
  /\ \/ phase \in Connecting /\ StartFails
     \/ CallFails /\ CountRequest /\ Stop({current})

Send ==
  /\ Waiting /\ pending = 0 /\ process[current] = "running"
  /\ pending' = nextId[current]
  /\ CountRequest
  /\ inbox' = [inbox EXCEPT ![current] =
       Append(@, [id |-> nextId[current], method |-> Method(phase)])]
  /\ UNCHANGED <<specs, phase, current, initialized, listing, connected,
                 records, observed, process, out>>

\* Mutant: only a server that is gone is given up.
ReadFailsAtEnd ==
  /\ Waiting /\ pending # 0 /\ process[current] # "running"
  /\ \/ phase \in Connecting /\ StartFails
     \/ CallFails /\ Stop({current}) /\ UNCHANGED nextId

\* No message in time, or none to come: the transport is closed.
ReadFails ==
  /\ Waiting /\ pending # 0
  /\ \/ phase \in Connecting /\ StartFails
     \/ CallFails /\ Stop({current}) /\ UNCHANGED nextId

Readable == Waiting /\ pending # 0 /\ out[current] # <<>>

Message == Head(out[current])

Consume ==
  /\ out' = [out EXCEPT ![current] = Tail(@)]
  /\ UNCHANGED <<process, inbox>>

\* Mutant: the ids are not compared.
AnswersAny(m) == "request" \in DOMAIN m

Answers(m) == "request" \in DOMAIN m /\ m.request.id = pending

Skip ==
  /\ Readable
  /\ Message.type \notin {"badId", "rubbish"} /\ ~Answers(Message)
  /\ Consume /\ Quiet

\* An error, no result, a message without a usable id: a call fails, and the
\* transport stays with what it still holds.  Rubbish closes it.
Refused ==
  /\ Readable
  /\ \/ Message.type \in {"badId", "rubbish"}
     \/ Answers(Message) /\ Message.type # "result"
  /\ \/ phase \in Connecting /\ StartFails
     \/ /\ CallFails /\ UNCHANGED nextId
        /\ IF Message.type = "rubbish" THEN Stop({current}) ELSE Consume

-----------------------------------------------------------------------------
(* What a result is used for *)

Result(p) ==
  /\ phase = p /\ Readable
  /\ Message.type = "result" /\ Answers(Message)

\* McpClient::initialize: the notification is sent before any other request.
BeginListing ==
  /\ Result("initialize") /\ Message.form = "good"
  /\ process[current] = "running"
  /\ inbox' = [inbox EXCEPT ![current] =
                 Append(@, [id |-> 0, method |-> "initialized"])]
  /\ out' = [out EXCEPT ![current] = Tail(@)]
  /\ initialized' = [initialized EXCEPT ![current] = TRUE]
  /\ phase' = "list" /\ pending' = 0
  /\ UNCHANGED <<specs, current, nextId, listing, connected, records, observed,
                 process>>

\* A bad result, or the notification cannot be sent.
InitializeFails == Result("initialize") /\ StartFails

\* Mutant: only the names the server gives are compared.
DistinctRemotely(names) == names \cap listing.tools = {}

\* No name of a page was listed before, on it or on an earlier page, nor one
\* with the same alias.
Distinct(names) ==
  /\ \A n \in names, t \in listing.tools : Alias[n] # Alias[t]
  /\ \A n, t \in names : n # t => Alias[n] # Alias[t]

\* McpClient::list_tools
Listed(m) == [tools |-> listing.tools \cup m.tools,
            cursors |-> listing.cursors \cup {m.next},
            pages |-> listing.pages + 1]

\* Mutant: a cursor that comes back is followed again.
GoesOnForEver(m) == m.next # NoMore

\* The next page is asked for unless its cursor was seen before or this was
\* the last page allowed.
GoesOn(m) ==
  m.next # NoMore /\ m.next \notin listing.cursors /\ listing.pages + 1 < MaxPages

NextPage ==
  /\ Result("list")
  /\ Message.form = "good" /\ Distinct(Message.tools) /\ GoesOn(Message)
  /\ Consume
  /\ listing' = Listed(Message)
  /\ pending' = 0
  /\ UNCHANGED <<specs, phase, current, nextId, initialized, connected, records,
                 observed>>

\* Mutant: a server is recorded as soon as it is connected.
LastPageRecording ==
  /\ Result("list")
  /\ Message.form = "good" /\ Distinct(Message.tools) /\ Message.next = NoMore
  /\ Consume
  /\ connected' = Append(connected,
       [server |-> current, tools |-> Listed(Message).tools])
  /\ records' = connected'
  /\ listing' = NoListing
  /\ phase' = "connect" /\ current' = "none" /\ pending' = 0
  /\ UNCHANGED <<specs, nextId, initialized, observed>>

LastPage ==
  /\ Result("list")
  /\ Message.form = "good" /\ Distinct(Message.tools) /\ Message.next = NoMore
  /\ Consume
  /\ connected' = Append(connected,
       [server |-> current, tools |-> Listed(Message).tools])
  /\ listing' = NoListing
  /\ phase' = "connect" /\ current' = "none" /\ pending' = 0
  /\ UNCHANGED <<specs, nextId, initialized, records, observed>>

ListingFails ==
  /\ Result("list")
  /\ \/ Message.form = "bad" \/ ~Distinct(Message.tools)
     \/ Message.next # NoMore /\ ~GoesOn(Message)
  /\ StartFails

\* McpClient::call_tool and the observation that McpSession::call_tool makes.
CallReturns ==
  /\ Result("call") /\ Message.form # "bad"
  /\ Observe(IF Message.form = "good" THEN "ok" ELSE "failed")
  /\ Consume /\ UNCHANGED nextId

CallReturnsNoObject ==
  /\ Result("call") /\ Message.form = "bad"
  /\ CallFails /\ Consume /\ UNCHANGED nextId

\* An object that cannot be shown: "isError" is no boolean, or the preview of a
\* long one is cut inside a character, which dump refuses.  The exception
\* leaves the session for ToolRegistry::execute, before the observation.
CallThrows ==
  /\ Result("call") /\ Message.form # "bad"
  /\ phase' = "serve" /\ current' = "none" /\ pending' = 0
  /\ Consume
  /\ UNCHANGED <<specs, nextId, initialized, listing, connected, records,
                 observed>>

-----------------------------------------------------------------------------
\* The process ends: ~McpSession.
Close ==
  /\ phase = "serve"
  /\ phase' = "closed"
  /\ NoClients
  /\ UNCHANGED <<specs, current, pending, listing, records, observed>>

Rest == phase \in {"failed", "closed"} /\ UNCHANGED vars

Client ==
  \/ Begin \/ Connect \/ Started \/ SendFails \/ Send \/ ReadFails \/ Skip \/ Refused
  \/ BeginListing \/ InitializeFails \/ NextPage \/ LastPage \/ ListingFails
  \/ CallReturns \/ CallReturnsNoObject \/ CallThrows

Talk == \E s \in Servers : Say(s)

Next ==
  \/ Client \/ Close \/ Talk \/ Rest
  \/ \E s \in Servers : Die(s) \/ CallTool(s)

Spec == Init /\ [][Next]_vars

\* The client is a process that is scheduled, its timeouts included; nothing
\* is assumed of the servers.
FairSpec == Spec /\ WF_vars(Client)

-----------------------------------------------------------------------------
(* Properties *)

\* Every variable has its type; a client waits exactly while a server is
\* current, and asks for no more than MaxPages pages of tools.
TypeOK ==
  /\ phase \in {"boot", "connect", "initialize", "list", "serve", "call",
                "failed", "closed"}
  /\ current \in Servers \cup {"none"}
  /\ Waiting <=> current # "none"
  /\ \A s \in Servers :
       /\ process[s] \in {"none", "running", "zombie"}
       /\ pending \in 0..nextId[s] - 1 \/ current # s
       /\ process[s] = "none" => inbox[s] = <<>> /\ out[s] = <<>>
       /\ initialized[s] \in BOOLEAN
  /\ listing.tools \subseteq Names
  /\ listing.pages < MaxPages
  /\ Len(connected) + Len(observed) <= MaxWork \/ phase # "call"

\* A server process, dead or alive, belongs to a client: none is left when the
\* session could not be started or is closed, however far it had come.
NoOrphans ==
  /\ \A s \in Servers : process[s] # "none" => s \in Connected \cup {current}
  /\ phase \in {"failed", "closed"} => \A s \in Servers : process[s] = "none"

\* What is used as the result of a request is the server's answer to that very
\* request, however late, doubled or out of turn its messages are.
ResultsBelong ==
  [][BeginListing \/ NextPage \/ LastPage \/ CallReturns \/ CallThrows =>
       Message.request = [id |-> pending, method |-> Method(phase)]]_vars

\* The tools of a server can be told apart by the names the model is given.
AliasesAreDistinct ==
  \A i \in DOMAIN connected :
    \A n, t \in connected[i].tools : n # t => Alias[n] # Alias[t]

\* The session state names the connected servers with their tools while calls
\* are possible, and none of a session that did not start.
RecordsMatch ==
  /\ phase \in {"serve", "call"} => records = connected
  /\ phase \in {"connect", "initialize", "list", "failed"} => records = <<>>

\* Connecting ends, and so does every call, once the servers stop talking: the
\* time limit is one of each message, not of the request.
RequestsEnd ==
  <>[][~Talk]_vars =>
    []((Waiting \/ phase = "connect") => <>(phase \in {"serve", "failed"}))

=============================================================================
