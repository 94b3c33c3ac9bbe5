---------------------------- MODULE RequestContext ---------------------------
(***************************************************************************)
(* One request on its way through the middlewares of its route: the        *)
(* RequestContext with its bag of arena objects, its path parameters and   *)
(* its body, moved from frame to frame, and the Response that comes back,  *)
(* with its Headers, until the driver serializes it and rewinds the arena. *)
(*                                                                         *)
(* Frame 1 is the outermost middleware, frame Depth the handler.  A bag    *)
(* payload is a number, in the order of construction.                      *)
(***************************************************************************)
EXTENDS Integers, Sequences, FiniteSets, SequencesExt

CONSTANTS
    Depth,       \* frames: middlewares and the handler
    Keys,        \* types stored in the bag
    Names,       \* header names, several spellings of one included
    Lower(_),    \* the spelling that does_equal() compares
    Values,      \* header values
    Errors,      \* typed errors a handler may return
    MaxPayloads, \* bag payloads of one request
    MaxHeaders   \* header lines of one response

VARIABLES
    ctxFrame,    \* the frame that holds the context, 0 before dispatch
    bag,         \* frame -> its bag_, moved-from entries included
    built,       \* payloads constructed
    dead,        \* payloads destroyed, in order
    bodyLeft,    \* frame -> its body's payload: "view", "consumed" or "empty"
    reads,       \* chunks of the request body that were delivered
    headers,     \* the response's entries
    wanted,      \* lower-case name -> the values it should have
    status,      \* the response's status, 0 before there is one
    unwound,     \* frames that are gone
    arena        \* "used" or "reset"

contextVars == <<ctxFrame, bag, built, dead, bodyLeft, reads, headers, wanted, status, unwound, arena>>

Frames == 1 .. Depth
LowerNames == {Lower(n) : n \in Names}
Null == 0

ContextInit ==
    /\ ctxFrame = 0
    /\ bag = [f \in Frames |-> <<>>]
    /\ built = 0
    /\ dead = <<>>
    /\ bodyLeft = [f \in Frames |-> "empty"]
    /\ reads = 0
    /\ headers = <<>>
    /\ wanted = [n \in LowerNames |-> <<>>]
    /\ status = 0
    /\ unwound = {}
    /\ arena = "used"

-----------------------------------------------------------------------------
(* The context *)

\* build_request_context() and the call of the outermost layer.
BuildRequestContext ==
    /\ ctxFrame = 0
    /\ ctxFrame' = 1
    /\ bodyLeft' = [bodyLeft EXCEPT ![1] = "view"]
    /\ UNCHANGED <<bag, built, dead, reads, headers, wanted, status, unwound, arena>>

FindBagEntry(f, k) == {i \in DOMAIN bag[f] : bag[f][i].key = k}

Running(f) == ctxFrame = f /\ status = 0

\* set<T>(): the new payload is constructed before the old one is destroyed; a
\* construction that throws changes nothing.
SetBag(f, k) ==
    /\ Running(f)
    /\ built < MaxPayloads
    /\ built' = built + 1
    /\ IF FindBagEntry(f, k) # {}
       THEN LET i == Min(FindBagEntry(f, k)) IN
            /\ dead' = Append(dead, bag[f][i].ptr)
            /\ bag' = [bag EXCEPT ![f][i].ptr = built + 1]
       ELSE /\ bag' = [bag EXCEPT ![f] = Append(@, [key |-> k, ptr |-> built + 1])]
            /\ UNCHANGED dead
    /\ UNCHANGED <<ctxFrame, bodyLeft, reads, headers, wanted, status, unwound, arena>>

\* Bug: the moved-from entry keeps its pointer.
MovedFromCopied(entries) == entries

\* What is left of a bag that was moved from: the vector gave up its buffer,
\* or its entries were moved one by one and hold no pointer.
MovedFrom(entries) == [i \in DOMAIN entries |-> [entries[i] EXCEPT !.ptr = Null]]

\* next(std::move(ctx)): bag, body and caches move; the body left behind is an
\* EmptyBody.
CallNext(f) ==
    /\ Running(f)
    /\ f < Depth
    /\ ctxFrame' = f + 1
    /\ \E left \in {<<>>, MovedFrom(bag[f])} :
        bag' = [bag EXCEPT ![f] = left, ![f + 1] = bag[f]]
    /\ bodyLeft' = [bodyLeft EXCEPT ![f] = "empty", ![f + 1] = bodyLeft[f]]
    /\ UNCHANGED <<built, dead, reads, headers, wanted, status, unwound, arena>>

\* read_chunk() until the end, as drain() does for every buffered helper: the
\* bytes once, then nothing.
DrainBody(f) ==
    /\ Running(f)
    /\ reads' = reads + (IF bodyLeft[f] = "view" THEN 1 ELSE 0)
    /\ bodyLeft' = [bodyLeft EXCEPT ![f] = IF @ = "view" THEN "consumed" ELSE @]
    /\ UNCHANGED <<ctxFrame, bag, built, dead, headers, wanted, status, unwound, arena>>

-----------------------------------------------------------------------------
(* The response and its headers *)

\* to_http_response(), by ADL for each error type.
ToHttpResponse(error) ==
    CASE error \in {"BadRequest", "JsonParse", "FormParse", "MultipartParse"} -> 400
      [] error = "Unauthorized" -> 401
      [] error = "Forbidden" -> 403
      [] error = "NotFound" -> 404
      [] error = "MethodNotAllowed" -> 405
      [] error = "Conflict" -> 409
      [] error \in {"PayloadTooLarge", "BodyLimitExceeded"} -> 413
      [] error = "UnprocessableEntity" -> 422

\* ResponseFactory and the arena-bound factories of the context: a Content-Type
\* for everything with a body, Location for a redirect, Allow for a 405.
FactoryHeader(s) ==
    CASE s = 204 -> <<>>
      [] s \in {301, 302, 303, 307, 308} -> <<"Location">>
      [] s = 405 -> <<"Allow">>
      [] OTHER -> <<"Content-Type">>

\* The frame that has the context answers by itself, with a response or a
\* typed error that collapse_outcome() converts.
Answer(f) ==
    /\ Running(f)
    /\ status' \in {200, 204, 302} \union {ToHttpResponse(e) : e \in Errors}
    /\ LET lines == [i \in DOMAIN FactoryHeader(status') |-> <<FactoryHeader(status')[i], "factory">>]
       IN  /\ headers' = lines
           /\ wanted' = [n \in LowerNames |->
                           LET own == SelectSeq(lines, LAMBDA l : Lower(l[1]) = n)
                           IN  [i \in DOMAIN own |-> own[i][2]]]
    /\ UNCHANGED <<ctxFrame, bag, built, dead, bodyLeft, reads, unwound, arena>>

DoesEqual(a, b) == Lower(a) = Lower(b)

\* Middlewares that have called next() may edit the response on its way back.
Editing == status # 0 /\ arena = "used" /\ \E f \in Frames : f <= ctxFrame /\ f \notin unwound

\* Headers::add()
AddHeader(n, v) ==
    /\ Editing
    /\ Len(headers) < MaxHeaders
    /\ headers' = Append(headers, <<n, v>>)
    /\ wanted' = [wanted EXCEPT ![Lower(n)] = Append(@, v)]
    /\ UNCHANGED <<ctxFrame, bag, built, dead, bodyLeft, reads, status, unwound, arena>>

\* Headers::set(): all values of the name go, whatever its spelling.
SetHeader(n, v) ==
    /\ Editing
    /\ headers' = Append(SelectSeq(headers, LAMBDA l : ~DoesEqual(l[1], n)), <<n, v>>)
    /\ wanted' = [wanted EXCEPT ![Lower(n)] = <<v>>]
    /\ UNCHANGED <<ctxFrame, bag, built, dead, bodyLeft, reads, status, unwound, arena>>

\* Headers::remove()
RemoveHeader(n) ==
    /\ Editing
    /\ headers' = SelectSeq(headers, LAMBDA l : ~DoesEqual(l[1], n))
    /\ wanted' = [wanted EXCEPT ![Lower(n)] = <<>>]
    /\ UNCHANGED <<ctxFrame, bag, built, dead, bodyLeft, reads, status, unwound, arena>>

\* Headers::get_all(); get() is its first value, contains() whether it has one.
GetAll(n) ==
    LET own == SelectSeq(headers, LAMBDA l : DoesEqual(l[1], n)) IN [i \in DOMAIN own |-> own[i][2]]

\* serialize_response() stamps Date and Server unless they are there.
Serialized ==
    headers \o (IF GetAll("Date") = <<>> THEN <<<<"Date", "stamp">>>> ELSE <<>>)
            \o (IF GetAll("Server") = <<>> THEN <<<<"Server", "stamp">>>> ELSE <<>>)

-----------------------------------------------------------------------------
(* The way back *)

Live(entries) == SelectSeq([i \in DOMAIN entries |-> entries[i].ptr], LAMBDA p : p # Null)

\* A frame ends, the innermost first: ~RequestContext() destroys what its bag
\* still holds.
Unwind(f) ==
    /\ status # 0
    /\ f <= ctxFrame
    /\ f \notin unwound
    /\ \A g \in f + 1 .. ctxFrame : g \in unwound
    /\ unwound' = unwound \union {f}
    /\ dead' = dead \o Live(bag[f])
    /\ UNCHANGED <<ctxFrame, bag, built, bodyLeft, reads, headers, wanted, status, arena>>

\* The driver has serialized the response; the next round of its loop rewinds
\* the arena.
ResetArena ==
    /\ status # 0
    /\ unwound = 1 .. ctxFrame
    /\ arena = "used"
    /\ arena' = "reset"
    /\ UNCHANGED <<ctxFrame, bag, built, dead, bodyLeft, reads, headers, wanted, status, unwound>>

ContextNext ==
    \/ BuildRequestContext
    \/ \E f \in Frames :
        \/ \E k \in Keys : SetBag(f, k)
        \/ CallNext(f)
        \/ DrainBody(f)
        \/ Answer(f)
        \/ Unwind(f)
    \/ \E n \in Names, v \in Values : AddHeader(n, v) \/ SetHeader(n, v)
    \/ \E n \in Names : RemoveHeader(n)
    \/ ResetArena

ContextSpec == ContextInit /\ [][ContextNext]_contextVars

-----------------------------------------------------------------------------
(* Properties *)

\* Whatever the middlewares move and replace, every object put into the bag is
\* destroyed once and only once, and before the arena under it is rewound; the
\* context that is in use never refers to a destroyed one; the request body is
\* delivered at most once.
ContextOwnsOnce ==
    /\ IsInjective(dead)
    /\ ctxFrame # 0 /\ ctxFrame \notin unwound =>
        \A i \in DOMAIN bag[ctxFrame] :
            /\ bag[ctxFrame][i].ptr # Null
            /\ bag[ctxFrame][i].ptr \notin Range(dead)
    /\ arena = "reset" => Range(dead) = 1 .. built
    /\ reads <= 1

\* Headers behave as a multimap of case-insensitive names, over any mixture of
\* add, set and remove, and what is serialized has exactly one Date and one
\* Server unless the handler asked for more.
HeadersExact ==
    /\ \A n \in Names : GetAll(n) = wanted[Lower(n)]
    /\ \A n \in {"Date", "Server"} :
        Cardinality({i \in DOMAIN Serialized : DoesEqual(Serialized[i][1], n)})
            = IF Len(GetAll(n)) = 0 THEN 1 ELSE Len(GetAll(n))

\* A request owns what it was given and answers with the headers it was told,
\* through every move of the context and every edit of the response.
ContextSound == ContextOwnsOnce /\ HeadersExact

==============================================================================
