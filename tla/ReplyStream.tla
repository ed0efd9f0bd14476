----------------------------- MODULE ReplyStream -----------------------------
(***************************************************************************)
(* One streamed reply of the model, from the bytes that arrive to the      *)
(* assistant message: http_post_json_stream, SseParser, the interpretation *)
(* of events in llm.cpp and ToolCallAssembler.                             *)
(*                                                                         *)
(* The server writes events.  On the wire an event is its text followed by *)
(* a blank line in one of two forms, and what arrives at once may end      *)
(* anywhere between the pieces of an event or of its blank line.           *)
(***************************************************************************)
EXTENDS Naturals, Sequences, FiniteSets

CONSTANTS
  Indices,        \* indices of tool calls
  Parts,          \* fragments the arguments of one call are sent in
  MaxToolCalls,   \* MAX_TOOL_CALLS
  MaxArguments,   \* fragments accepted for a call (MAX_TOOL_ARGS_BYTES)
  MaxRemainder,   \* pieces that may wait in the parser (MAX_REMAINDER_BYTES)
  MaxStream,      \* pieces accepted from the server (max_stream_bytes)
  MaxEvents       \* bound: events the server writes

ASSUME StreamAssumption ==
  /\ IsFiniteSet(Indices)
  /\ Parts \in Nat \ {0} /\ MaxToolCalls \in Nat /\ MaxArguments \in Nat
  /\ MaxRemainder \in Nat /\ MaxStream \in Nat /\ MaxEvents \in Nat

VARIABLES
  sent,       \* events the server has written, with their blank lines
  arrived,    \* pieces of them that have arrived
  remainder,  \* SseParser::remainder_
  done,       \* SseParser::done_
  reply,      \* what has been made of the events so far
  outcome     \* "open", "reply" or "failed"

vars == <<sent, arrived, remainder, done, reply, outcome>>

-----------------------------------------------------------------------------
(* What the server writes *)

\* text: a content delta.  call: a fragment of a tool call; part 0 carries
\* the name only, part n the n-th piece of the arguments, and one
\* part more than there should be makes them no JSON.  noise: a comment, a
\* usage report or a fragment without a valid index.  error: an API error.
\* broken: data that is no JSON.
Event ==
  [type : {"text", "noise", "error", "broken", "done"}]
    \cup [type : {"call"}, index : Indices, part : 0..Parts + 1]

Lf == [type |-> "lf"]

Cr == [type |-> "cr"]

BlankLine == {<<Lf, Lf>>, <<Cr, Lf, Cr, Lf>>}

Piece == Event \cup {Lf, Cr}

FragmentsOf(i) ==
  {k \in DOMAIN sent : sent[k].event.type = "call" /\ sent[k].event.index = i}

\* A server sends the fragments of a call in order, and may interleave calls.
InOrder(event) ==
  event.type = "call" => event.part = Cardinality(FragmentsOf(event.index))

Pieces(events) ==
  LET text[n \in 0..Len(events)] ==
        IF n = 0 THEN <<>>
        ELSE text[n - 1] \o <<events[n].event>> \o events[n].blank
  IN  text[Len(events)]

-----------------------------------------------------------------------------
(* SseParser::feed *)

StartsAt(text, i, pattern) ==
  /\ i + Len(pattern) - 1 <= Len(text)
  /\ SubSeq(text, i, i + Len(pattern) - 1) = pattern

Ends(text) ==
  {e \in (1..Len(text)) \X BlankLine : StartsAt(text, e[1], e[2])}

FirstEnd(text) == CHOOSE e \in Ends(text) : \A f \in Ends(text) : e[1] <= f[1]

\* The data line of an event, if it has one: the server writes no event of two.
Data(block) ==
  LET lines == {i \in DOMAIN block : block[i] \in Event}
  IN  IF lines = {} THEN <<>> ELSE <<block[CHOOSE i \in lines : TRUE]>>

\* One round of the loop: the first event is taken out of what is left, and
\* nothing is read after [DONE].
ReadEvent(read) ==
  IF read.done \/ Ends(read.rest) = {} THEN read
  ELSE LET end  == FirstEnd(read.rest)
           data == Data(SubSeq(read.rest, 1, end[1] - 1))
           over == data # <<>> /\ data[1].type = "done"
       IN  [events |-> IF over THEN read.events ELSE read.events \o data,
            rest |-> SubSeq(read.rest, end[1] + Len(end[2]), Len(read.rest)),
            done |-> over]

\* The events of a text and what is left of it.  Every round takes something,
\* so as many of them as there are pieces are enough.
Parsed(text) ==
  LET read[n \in 0..Len(text)] ==
        IF n = 0 THEN [events |-> <<>>, rest |-> text, done |-> FALSE]
        ELSE ReadEvent(read[n - 1])
  IN  read[Len(text)]

-----------------------------------------------------------------------------
(* llm_stream_process_chunk and ToolCallAssembler::ingest_delta *)

NoReply == [content |-> 0, calls |-> [i \in {} |-> <<>>], failed |-> FALSE]

Refuse(r) == [r EXCEPT !.failed = TRUE]

\* Mutant: the number of calls is compared for every fragment.
IngestAnew(r, event) ==
  LET calls == IF event.index \in DOMAIN r.calls THEN r.calls
               ELSE [i \in DOMAIN r.calls \cup {event.index} |->
                       IF i = event.index THEN <<>> ELSE r.calls[i]]
  IN  IF \/ Cardinality(DOMAIN r.calls) >= MaxToolCalls
         \/ event.part # 0 /\ Len(calls[event.index]) >= MaxArguments
      THEN Refuse(r)
      ELSE [r EXCEPT !.calls =
              IF event.part = 0 THEN calls
              ELSE [calls EXCEPT ![event.index] = Append(@, event.part)]]

Ingest(r, event) ==
  LET known == event.index \in DOMAIN r.calls
      calls == IF known THEN r.calls
               ELSE [i \in DOMAIN r.calls \cup {event.index} |->
                       IF i = event.index THEN <<>> ELSE r.calls[i]]
  IN  IF \/ ~known /\ Cardinality(DOMAIN r.calls) >= MaxToolCalls
         \/ event.part # 0 /\ Len(calls[event.index]) >= MaxArguments
      THEN Refuse(r)
      ELSE [r EXCEPT !.calls =
              IF event.part = 0 THEN calls
              ELSE [calls EXCEPT ![event.index] = Append(@, event.part)]]

\* Processing stops at the first event that fails.
Interpret(r, event) ==
  IF r.failed THEN r
  ELSE CASE event.type = "text" -> [r EXCEPT !.content = @ + 1]
         [] event.type = "call" -> Ingest(r, event)
         [] event.type \in {"error", "broken"} -> Refuse(r)
         [] OTHER -> r

Interpreted(events) ==
  LET made[n \in 0..Len(events)] ==
        IF n = 0 THEN reply ELSE Interpret(made[n - 1], events[n])
  IN  made[Len(events)]

-----------------------------------------------------------------------------
Init ==
  /\ sent = <<>> /\ arrived = 0
  /\ remainder = <<>> /\ done = FALSE
  /\ reply = NoReply /\ outcome = "open"

Serve ==
  /\ outcome = "open" /\ Len(sent) < MaxEvents
  /\ \E event \in Event, blank \in BlankLine :
       /\ InOrder(event)
       /\ sent' = Append(sent, [event |-> event, blank |-> blank])
  /\ UNCHANGED <<arrived, remainder, done, reply, outcome>>

\* Mutant: what is left of a chunk is dropped when an event was found in it.
FeedDroppingRest(chunk) ==
  LET parsed == Parsed(remainder \o chunk)
  IN  /\ remainder' = IF parsed.events = <<>> THEN parsed.rest ELSE <<>>
      /\ done' = parsed.done
      /\ reply' = Interpreted(parsed.events)

Feed(chunk) ==
  IF done THEN UNCHANGED <<remainder, done, reply>>
  ELSE LET parsed == Parsed(remainder \o chunk)
       IN  /\ remainder' = parsed.rest
           /\ done' = parsed.done
           /\ reply' = Interpreted(parsed.events)

\* http_stream_write_callback: a chunk of any size is offered; the stream
\* limit and the parser's limit are compared before anything is parsed.
Receive ==
  /\ outcome = "open"
  /\ \E n \in arrived + 1..Len(Pieces(sent)) :
       /\ arrived' = n
       /\ IF \/ n > MaxStream
             \/ ~done /\ Len(remainder) + n - arrived > MaxRemainder
          THEN outcome' = "failed" /\ UNCHANGED <<remainder, done, reply>>
          ELSE /\ Feed(SubSeq(Pieces(sent), arrived + 1, n))
               /\ outcome' = IF reply'.failed THEN "failed" ELSE "open"
  /\ UNCHANGED sent

\* The transfer breaks off with an error, or times out.
TransferFails ==
  /\ outcome = "open"
  /\ outcome' = "failed"
  /\ UNCHANGED <<sent, arrived, remainder, done, reply>>

\* Arguments are JSON when there are none or all of their parts.
WellFormed(arguments) ==
  arguments = <<>> \/ arguments = [n \in 1..Parts |-> n]

\* ToolCallAssembler::finalize
Finalizes == \A i \in DOMAIN reply.calls : WellFormed(reply.calls[i])

\* The transfer ends without an error, with whatever has arrived by then: the
\* status of the response and a missing [DONE] are not looked at.
TransferEnds ==
  /\ outcome = "open"
  /\ outcome' = IF Finalizes THEN "reply" ELSE "failed"
  /\ UNCHANGED <<sent, arrived, remainder, done, reply>>

Rest == outcome # "open" /\ UNCHANGED vars

Next == Serve \/ Receive \/ TransferFails \/ TransferEnds \/ Rest

Spec == Init /\ [][Next]_vars

-----------------------------------------------------------------------------
(* Properties *)

\* Types, and the limits of the stream, the parser and the assembler, which
\* hold for as long as nothing has failed.
TypeOK ==
  /\ sent \in Seq([event : Event, blank : BlankLine])
  /\ arrived \in 0..Len(Pieces(sent))
  /\ remainder \in Seq(Piece) /\ done \in BOOLEAN
  /\ outcome \in {"open", "reply", "failed"}
  /\ outcome # "failed" =>
       /\ arrived <= MaxStream /\ Len(remainder) <= MaxRemainder
       /\ IsFiniteSet(DOMAIN reply.calls)
       /\ Cardinality(DOMAIN reply.calls) <= MaxToolCalls
       /\ \A i \in DOMAIN reply.calls : Len(reply.calls[i]) <= MaxArguments

\* The events that count: their text and blank line have arrived whole, and
\* there was no [DONE] before them.
Delivered ==
  {k \in 1..Len(sent) :
     /\ Len(Pieces(SubSeq(sent, 1, k))) <= arrived
     /\ \A j \in 1..k : sent[j].event.type # "done"}

OfType(type) == {k \in Delivered : sent[k].event.type = type}

\* The calls of these events, and the parts of the arguments of one of them.
CallsThatCame == {sent[k].event.index : k \in OfType("call")}

ArgumentsThatCame(i) ==
  {sent[k].event.part : k \in {k \in OfType("call") : sent[k].event.index = i}}
    \ {0}

\* However the stream was cut into chunks and whichever blank lines it uses,
\* the reply is made of the events that have arrived whole before [DONE], all
\* of them, once, each fragment in its place; an error among them ends it.
ReplyReadsWhatArrived ==
  outcome # "failed" =>
    /\ OfType("error") = {} /\ OfType("broken") = {}
    /\ reply.content = Cardinality(OfType("text"))
    /\ DOMAIN reply.calls = CallsThatCame
    /\ \A i \in DOMAIN reply.calls :
         reply.calls[i] = [n \in 1..Cardinality(ArgumentsThatCame(i)) |-> n]

\* More came than is accepted: of the stream, or of one event before [DONE].
Overrun(n) ==
  \/ n > MaxStream
  \/ /\ \A k \in 1..Len(sent) :
          sent[k].event.type = "done" =>
            arrived < Len(Pieces(SubSeq(sent, 1, k)))
     /\ n - Len(Pieces(SubSeq(sent, 1, Cardinality(Delivered)))) > MaxRemainder

\* What arrived before [DONE] reports an error, is no JSON, or holds too many
\* calls or too much of one.
Unacceptable ==
  \/ OfType("error") # {} \/ OfType("broken") # {}
  \/ Cardinality(CallsThatCame) > MaxToolCalls
  \/ \E i \in Indices : Cardinality(ArgumentsThatCame(i)) > MaxArguments

\* A reply fails for what the server sent and for nothing else, wherever the
\* chunks end and however the fragments of its calls interleave: while the
\* stream arrives, for an overrun or for what is in it, at that very chunk; when
\* it has ended, for a call that was cut inside its arguments.
FailsForCause ==
  [][/\ arrived' # arrived =>
          (outcome' = "failed" <=> Overrun(arrived') \/ Unacceptable')
     /\ TransferEnds =>
          (outcome' = "failed" <=>
             \E i \in Indices : ArgumentsThatCame(i) \notin {{}, 1..Parts})]_vars

\* "agent_loop never sees half a network state": a reply that is returned was
\* received to its end, so that no call in it was cut off before its arguments.
NoHalfReply == outcome = "reply" => done

=============================================================================
