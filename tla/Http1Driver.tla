----------------------------- MODULE Http1Driver -----------------------------
(***************************************************************************)
(* Http11Driver::serve(), one keep-alive session: the parse loop over the  *)
(* session's buffer, the phase deadlines, the early answers to oversized   *)
(* and malformed messages, the batch of responses and its flushes.         *)
(*                                                                         *)
(* A message is three pieces, two of its header and its body, so that it   *)
(* can arrive in parts and together with the next one.  The client's       *)
(* messages are chosen at the start; it sends them piecewise, may close    *)
(* its side at any point, and the stream may fail or be cancelled.         *)
(***************************************************************************)
EXTENDS Integers, Sequences, SequencesExt

CONSTANTS
    MaxMessages, \* messages of one client
    BatchCap     \* responses that fill the 256 KiB of outbuf

\* What becomes of a message: answered and kept alive, answered and closed on
\* the client's wish or on the response's, failed in its handler, or refused
\* by the parser: over a limit, with an error that is_malformed_request()
\* lists, or with another one.
Kinds == {"keep", "close", "throws", "header_limit", "body_limit", "malformed", "unlisted"}

VARIABLES
    script,  \* the client's messages
    sent,    \* pieces the client has sent
    eof,     \* the client has closed its side
    broken,  \* the stream has failed or was cancelled
    pc,      \* where serve() is
    got,     \* pieces read into buffer since the session began
    parsed,  \* pieces the parsers have consumed
    msg,     \* the number of the message being parsed
    armed,   \* deadlines armed for this message, in order
    last,    \* the session ends after the flush
    outbuf,  \* outbuf: responses that are not written
    wire     \* responses that are written

driverVars == <<script, sent, eof, broken, pc, got, parsed, msg, armed, last, outbuf, wire>>

DriverInit ==
    /\ script \in UNION {[1 .. n -> Kinds] : n \in 1 .. MaxMessages}
    /\ sent = 0
    /\ eof = FALSE
    /\ broken = FALSE
    /\ pc = "top"
    /\ got = 0
    /\ parsed = 0
    /\ msg = 1
    /\ armed = <<>>
    /\ last = FALSE
    /\ outbuf = <<>>
    /\ wire = <<>>

Pieces == 3

Buffered == got - parsed

\* Pieces of the current message that its parser has consumed.
Part == parsed - Pieces * (msg - 1)

Response(status, close) == [to |-> msg, status |-> status, close |-> close]

-----------------------------------------------------------------------------
(* The client and the stream *)

ClientSends ==
    /\ ~eof
    /\ ~broken
    /\ sent < Pieces * Len(script)
    /\ sent' = sent + 1
    /\ UNCHANGED <<script, eof, broken, pc, got, parsed, msg, armed, last, outbuf, wire>>

ClientCloses ==
    /\ ~eof
    /\ eof' = TRUE
    /\ UNCHANGED <<script, sent, broken, pc, got, parsed, msg, armed, last, outbuf, wire>>

\* A reset by the peer, or cancel() by the deadline sweep or the shutdown.
StreamBreaks ==
    /\ ~broken
    /\ pc # "done"
    /\ broken' = TRUE
    /\ UNCHANGED <<script, sent, eof, pc, got, parsed, msg, armed, last, outbuf, wire>>

-----------------------------------------------------------------------------
(* serve() *)

\* The top of the session loop: the arena is rewound, the parser is new, and
\* bytes that are here already mean that a message is under way.
Top ==
    /\ pc = "top"
    /\ armed' = IF Buffered > 0 THEN <<"header">> ELSE <<"idle">>
    /\ pc' = "parse"
    /\ UNCHANGED <<script, sent, eof, broken, got, parsed, msg, last, outbuf, wire>>

\* parser.put() takes the pieces of its own message, up to the one in error.
Consumable == IF Buffered < Pieces - Part THEN Buffered ELSE Pieces - Part

\* The pieces at which a message of this kind may be refused.
ErrorAt(kind) ==
    CASE kind = "header_limit" -> {1, 2}
      [] kind = "body_limit" -> {2, 3}
      [] kind \in {"malformed", "unlisted"} -> {1, 2, 3}
      [] OTHER -> {}

\* Bug: the header deadline is armed every time the coroutine parks.
ParkDeadlineRolling ==
    CASE Part = 1 -> Append(armed, "header")
      [] Part = 2 /\ "body" \notin Range(armed) -> Append(armed, "body")
      [] OTHER -> armed

\* The deadline for parking with a partial message, once per phase.
ParkDeadline ==
    CASE Part = 1 /\ "header" \notin Range(armed) -> Append(armed, "header")
      [] Part = 2 /\ "body" \notin Range(armed) -> Append(armed, "body")
      [] OTHER -> armed

\* The answer to a refused message: an error that is not listed has none.
Refusal(kind) ==
    IF kind = "unlisted" THEN <<>>
    ELSE <<Response(IF kind = "body_limit" THEN 413 ELSE 400, TRUE)>>

\* One round of the parse loop: the message is refused, which ends the
\* session, is complete, or needs more.
Parse ==
    /\ pc = "parse"
    /\ LET take == Consumable
           at == Part + take
           kind == script[msg]
       IN  /\ parsed' = parsed + take
           /\ \/ /\ take > 0
                 /\ \E e \in ErrorAt(kind) : Part < e /\ e <= at
                 /\ outbuf' = outbuf \o Refusal(kind)
                 /\ pc' = "flush"
              \/ /\ take > 0
                 /\ at = Pieces
                 /\ ErrorAt(kind) = {}
                 /\ pc' = "dispatch"
                 /\ UNCHANGED outbuf
              \/ /\ at < Pieces
                 /\ take > 0 => ErrorAt(kind) = {} \/ \E e \in ErrorAt(kind) : e > at
                 /\ pc' = "park"
                 /\ UNCHANGED outbuf
    /\ UNCHANGED <<script, sent, eof, broken, got, msg, armed, last, wire>>

Park ==
    /\ pc = "park"
    /\ armed' = ParkDeadline
    /\ pc' = "read"
    /\ UNCHANGED <<script, sent, eof, broken, got, parsed, msg, last, outbuf, wire>>

\* async_read_some(): some pieces, the end of the stream, or an error.  The end
\* leaves the loop without an answer, between messages and within one.
Read ==
    /\ pc = "read"
    /\ \/ /\ ~broken
          /\ \E n \in 1 .. sent - got : got' = got + n
          /\ pc' = "parse"
       \/ /\ broken \/ (eof /\ sent = got)
          /\ pc' = "flush"
          /\ UNCHANGED got
    /\ UNCHANGED <<script, sent, eof, broken, parsed, msg, armed, last, outbuf, wire>>

\* The handler answers or throws; the response is serialized into the batch,
\* which is written when the session ends, the input is dry or it is full.
Dispatch ==
    /\ pc = "dispatch"
    /\ LET kind == script[msg]
           keep == kind = "keep"
       IN  /\ outbuf' = Append(outbuf, Response(IF kind = "throws" THEN 500 ELSE 200, ~keep))
           /\ last' = ~keep
           /\ pc' = IF ~keep \/ Buffered = 0 \/ Len(outbuf) + 1 >= BatchCap THEN "write" ELSE "top"
           /\ msg' = msg + 1
    /\ UNCHANGED <<script, sent, eof, broken, got, parsed, armed, wire>>

\* Bug: the batch is written and kept.
WriteUncleared ==
    /\ pc = "write"
    /\ IF broken THEN pc' = "flush" /\ UNCHANGED wire
       ELSE wire' = wire \o outbuf /\ pc' = IF last THEN "flush" ELSE "top"
    /\ UNCHANGED <<script, sent, eof, broken, got, parsed, msg, armed, last, outbuf>>

\* async_write() of the batch, which is cleared also when it fails.
Write ==
    /\ pc = "write"
    /\ outbuf' = <<>>
    /\ \/ /\ ~broken
          /\ wire' = wire \o outbuf
          /\ pc' = IF last THEN "flush" ELSE "top"
       \/ /\ broken
          /\ pc' = "flush"
          /\ UNCHANGED wire
    /\ UNCHANGED <<script, sent, eof, broken, got, parsed, msg, armed, last>>

\* The flush behind the loop, whose error is swallowed, and async_close().
Flush ==
    /\ pc = "flush"
    /\ wire' = IF broken THEN wire ELSE wire \o outbuf
    /\ outbuf' = <<>>
    /\ pc' = "done"
    /\ UNCHANGED <<script, sent, eof, broken, got, parsed, msg, armed, last>>

ServeNext == Top \/ Parse \/ Park \/ Read \/ Dispatch \/ Write \/ Flush

DriverNext == ClientSends \/ ClientCloses \/ StreamBreaks \/ ServeNext

DriverSpec == DriverInit /\ [][DriverNext]_driverVars

-----------------------------------------------------------------------------
(* Properties *)

\* The answer a message deserves.
Deserved(i) ==
    CASE script[i] \in {"keep", "close"} -> 200
      [] script[i] = "throws" -> 500
      [] script[i] = "body_limit" -> 413
      [] OTHER -> 400

\* Answers leave in the order of the requests, one each and the right one,
\* over any batching; the one that says "Connection: close" is the last, a
\* message with an error that is_malformed_request() does not list has none,
\* and a batch never outgrows its cap, however many messages are buffered.
RepliesInOrder ==
    LET replies == wire \o outbuf IN
    /\ \A i \in DOMAIN replies :
        /\ replies[i].to = i
        /\ script[i] # "unlisted"
        /\ replies[i].status = Deserved(i)
        /\ replies[i].close => i = Len(replies)
    /\ Len(outbuf) <= BatchCap

\* Unless the stream broke, a session does not end with a request unanswered:
\* every message that arrived whole before the client closed, up to the first
\* one that ends the session, has its answer on the wire (which a message
\* with an unlisted error does not get).
NothingDropped ==
    pc = "done" /\ ~broken =>
        \A i \in 1 .. Len(script) :
            /\ Pieces * i <= sent
            /\ \A j \in 1 .. i - 1 : script[j] = "keep"
            /\ script[i] # "unlisted"
            => i <= Len(wire)

\* Every request has its answer, in its place.
RepliesSound == RepliesInOrder /\ NothingDropped

\* The deadlines of one message are absolute: each phase is armed once and in
\* order, however the client trickles; and answers are held back only under
\* the deadline of a message that is under way, never under the idle one.
PhaseDeadlines ==
    /\ IsInjective(armed)
    /\ \A i \in DOMAIN armed :
        /\ armed[i] = "idle" => i = 1
        /\ armed[i] = "body" => i = Len(armed)
    /\ pc = "read" /\ outbuf # <<>> => "idle" \notin Range(armed)

==============================================================================
