------------------------------- MODULE Routing -------------------------------
(***************************************************************************)
(* albatross routing: controllers collect routes and middlewares, are      *)
(* baked into the RouteRegistry under a group prefix, the registry is      *)
(* frozen by Server::setup(), and the Router dispatches requests over it.  *)
(*                                                                         *)
(* A path is the sequence of its '/'-separated segments: "/a/" is          *)
(* <<"a", "">>, "/" is <<"">>, a prefix "" is <<>>.  What a segment's      *)
(* characters decide is given by constants: the parameter it names, whether *)
(* it is an illegal route segment, what it percent-decodes to.             *)
(***************************************************************************)
EXTENDS Integers, Sequences, FiniteSets, SequencesExt

CONSTANTS
    Methods,      \* HttpMethod without unknown
    Ctrls,        \* controllers
    Middlewares,  \* middlewares that may be added
    GroupPrefixes, \* prefixes of groups
    RoutePaths,   \* paths given to the verbs Get(), Post(), ...
    RequestPaths, \* paths of requests
    ParamName,    \* segment of the form "{name}" -> name
    Illegal,      \* segments that a route may not have
    Decoded,      \* segment with an escape -> its decoding, or Malformed
    Malformed,
    MaxRoutes     \* routes per controller

VARIABLES
    norm,        \* norm_
    local,       \* controller -> local_routes_
    mws,         \* controller -> middlewares_
    baked,       \* controllers with baked_
    exact,       \* exact_: path -> method -> handler
    parametric,  \* parametric_
    conflicts,   \* conflicts_
    frozen,      \* frozen_
    added,       \* every route handed to add_route() that did not throw
    reply        \* the last dispatch

routingVars == <<norm, local, mws, baked, exact, parametric, conflicts, frozen, added, reply>>

\* A handler is the sequence of its layers, the outermost first; an empty
\* std::function has none.
NoHandler == <<>>
EmptySlots == [m \in Methods |-> NoHandler]
NoReply == [kind |-> "none"]

RoutingInit ==
    /\ norm \in {"none", "collapse_trailing_slash", "collapse_multi_slash"}
    /\ local = [c \in Ctrls |-> <<>>]
    /\ mws = [c \in Ctrls |-> <<>>]
    /\ baked = {}
    /\ exact = <<>>
    /\ parametric = <<>>
    /\ conflicts = <<>>
    /\ frozen = FALSE
    /\ added = <<>>
    /\ reply = NoReply

-----------------------------------------------------------------------------
(* Paths *)

\* One trailing slash goes, the root stays.
StripOne(p) == IF Len(p) > 1 /\ Last(p) = "" THEN Front(p) ELSE p

\* Runs of slashes become one: empty segments go, but the last one stays as
\* the trailing slash.
CollapseRuns(p) ==
    LET body == SelectSeq(Front(p), LAMBDA s : s # "")
    IN  Append(body, Last(p))

\* At registration.
NormalizeOwned(p) ==
    CASE norm = "none" -> p
      [] norm = "collapse_trailing_slash" -> StripOne(p)
      [] norm = "collapse_multi_slash" -> StripOne(CollapseRuns(p))

HasDoubleSlash(p) == \E i \in 1 .. Len(p) - 1 : p[i] = ""

\* Bug: a lookup collapses runs and keeps the slash that is left at the end.
NormalizeLookupUnstripped(p) ==
    IF norm = "none" THEN p
    ELSE IF norm = "collapse_multi_slash" /\ HasDoubleSlash(p) THEN CollapseRuns(p)
    ELSE StripOne(p)

\* At lookup: rewritten only when there is something to collapse.
NormalizeLookup(p) ==
    IF norm = "none" THEN p
    ELSE IF norm = "collapse_multi_slash" /\ HasDoubleSlash(p) THEN StripOne(CollapseRuns(p))
    ELSE StripOne(p)

\* join_path(): all trailing slashes of the prefix go; "" and "/" add nothing.
JoinPath(prefix, path) ==
    LET kept == {i \in 1 .. Len(prefix) : prefix[i] # ""}
        out == SubSeq(prefix, 1, IF kept = {} THEN 0 ELSE Max(kept))
    IN  IF path \in {<<>>, <<"">>}
        THEN IF out = <<>> THEN <<"">> ELSE out
        ELSE out \o path

\* A group's own prefix, or the one of a group inside it.
MountPoints ==
    GroupPrefixes \union {JoinPath(a, b) : a \in GroupPrefixes, b \in GroupPrefixes}

IsParam(s) == s \in DOMAIN ParamName
ParamNames(p) == LET ps == SelectSeq(p, IsParam) IN [i \in DOMAIN ps |-> ParamName[ps[i]]]
IsParametric(p) == \E i \in DOMAIN p : IsParam(p[i])

\* parse_segments() throws on an illegal segment or a repeated parameter name.
Parses(p) ==
    /\ \A i \in DOMAIN p : p[i] \notin Illegal
    /\ IsInjective(ParamNames(p))

SameShape(a, b) ==
    /\ Len(a) = Len(b)
    /\ \A i \in DOMAIN a :
        /\ IsParam(a[i]) <=> IsParam(b[i])
        /\ IsParam(a[i]) \/ a[i] = b[i]

-----------------------------------------------------------------------------
(* The registry, as one value *)

Registry == [exact |-> exact, parametric |-> parametric, conflicts |-> conflicts, added |-> added]

Conflict(reg, m, p) == [reg EXCEPT !.conflicts = Append(@, <<m, p>>)]

AddExact(reg, m, p, h) ==
    LET slots == IF p \in DOMAIN reg.exact THEN reg.exact[p] ELSE EmptySlots
    IN  IF slots[m] # NoHandler
        THEN Conflict(reg, m, p)
        ELSE [reg EXCEPT !.exact = (p :> [slots EXCEPT ![m] = h]) @@ @]

\* The template of the same shape, when there is one, takes the handler unless
\* its parameters are named differently or the method is taken.
AddParametric(reg, m, p, h) ==
    LET same == {i \in DOMAIN reg.parametric : SameShape(reg.parametric[i].segments, p)}
        i == CHOOSE i \in same : TRUE
    IN  IF same = {}
        THEN [reg EXCEPT !.parametric =
                 Append(@, [segments |-> p, byMethod |-> [EmptySlots EXCEPT ![m] = h]])]
        ELSE IF \/ reg.parametric[i].segments # p
                \/ reg.parametric[i].byMethod[m] # NoHandler
        THEN Conflict(reg, m, p)
        ELSE [reg EXCEPT !.parametric[i].byMethod[m] = h]

\* add_route() of a route that parses; a conflict is recorded, not thrown.
AddRoute(reg, m, path, h) ==
    LET p == NormalizeOwned(path)
        r == IF IsParametric(p) THEN AddParametric(reg, m, p, h) ELSE AddExact(reg, m, p, h)
    IN  [r EXCEPT !.added = Append(@, [method |-> m, path |-> path, handler |-> h])]

\* wrap_with_middleware(): from the last to the first, so that the first one
\* added is the outermost.
WrapWithMiddleware(inner, layers) ==
    FoldRight(LAMBDA mw, h : <<mw>> \o h, layers, inner)

-----------------------------------------------------------------------------
(* Build phase *)

\* Get(), Post(), ... of a controller, whatever the kind of the handler: its
\* route is kept until the controller is baked, and refused after that.
Verb(c, m, p) ==
    /\ c \notin baked
    /\ Len(local[c]) < MaxRoutes
    /\ local' = [local EXCEPT ![c] = Append(@, [method |-> m, path |-> p])]
    /\ UNCHANGED <<norm, mws, baked, exact, parametric, conflicts, frozen, added, reply>>

\* add_middleware()
AddMiddleware(c, mw) ==
    /\ c \notin baked
    /\ \A i \in DOMAIN mws[c] : mws[c][i] # mw
    /\ mws' = [mws EXCEPT ![c] = Append(@, mw)]
    /\ UNCHANGED <<norm, local, baked, exact, parametric, conflicts, frozen, added, reply>>

\* add_controller() in a group: every local route is wrapped and added in
\* order.  The first that does not parse throws and leaves the ones before it
\* in the registry; a controller is baked once, even so.
BakeInto(c, prefix) ==
    /\ c \notin baked
    /\ ~frozen
    /\ baked' = baked \union {c}
    /\ LET joined(i) == JoinPath(prefix, local[c][i].path)
           bad == {i \in DOMAIN local[c] : ~Parses(NormalizeOwned(joined(i)))}
           upto == IF bad = {} THEN Len(local[c]) ELSE Min(bad) - 1
           step(reg, i) == AddRoute(reg, local[c][i].method, joined(i),
                                    WrapWithMiddleware(<<<<c, i>>>>, mws[c]))
           reg == FoldLeft(step, Registry, [i \in 1 .. upto |-> i])
       IN  /\ exact' = reg.exact
           /\ parametric' = reg.parametric
           /\ conflicts' = reg.conflicts
           /\ added' = reg.added
           /\ local' = [local EXCEPT ![c] = IF bad = {} THEN <<>> ELSE @]
    /\ UNCHANGED <<norm, mws, frozen, reply>>

\* freeze(), by Server::setup(); with a conflict setup() throws.
Freeze ==
    /\ ~frozen
    /\ frozen' = TRUE
    /\ UNCHANGED <<norm, local, mws, baked, exact, parametric, conflicts, added, reply>>

-----------------------------------------------------------------------------
(* Requests *)

DecodedSegment(s) == IF s \in DOMAIN Decoded THEN Decoded[s] ELSE s

\* A parameter takes any segment that is not empty and decodes.
MatchTemplate(segments, p) ==
    /\ Len(segments) = Len(p)
    /\ \A i \in DOMAIN p :
        IF IsParam(segments[i])
        THEN p[i] # "" /\ DecodedSegment(p[i]) # Malformed
        ELSE p[i] = segments[i]

Captures(segments, p) ==
    [n \in {ParamName[segments[i]] : i \in {j \in DOMAIN segments : IsParam(segments[j])}} |->
        LET i == CHOOSE i \in DOMAIN segments : IsParam(segments[i]) /\ ParamName[segments[i]] = n
        IN  DecodedSegment(p[i])]

AllowedMethods(slots) == {m \in Methods : slots[m] # NoHandler}

FromSlots(slots, m, params) ==
    IF slots[m] # NoHandler
    THEN [kind |-> "found", handler |-> slots[m], params |-> params]
    ELSE [kind |-> "notAllowed", allowed |-> AllowedMethods(slots)]

\* An exact match decides; else the first template that matches does.
FindRoute(m, path) ==
    LET p == NormalizeLookup(path)
        hits == {i \in DOMAIN parametric : MatchTemplate(parametric[i].segments, p)}
        t == parametric[Min(hits)]
    IN  IF p \in DOMAIN exact THEN FromSlots(exact[p], m, <<>>)
        ELSE IF hits = {} THEN [kind |-> "notFound"]
        ELSE FromSlots(t.byMethod, m, Captures(t.segments, p))

\* Router::dispatch(), with the observers' hooks: a miss is answered 404 or
\* 405; a handler answers, fails with a typed error that becomes a response,
\* or throws, which the observers hear of and the driver answers with 500.
Dispatch(m, path) ==
    /\ frozen
    /\ conflicts = <<>>
    /\ LET r == FindRoute(m, path) IN
        \E outcome \in IF r.kind = "found" THEN {"response", "throws"} ELSE {"miss"} :
            reply' = [kind |-> r.kind,
                      hooks |-> <<"on_request",
                                  IF outcome = "throws" THEN "on_unhandled_exception" ELSE "on_response">>]
    /\ UNCHANGED <<norm, local, mws, baked, exact, parametric, conflicts, frozen, added>>

RoutingNext ==
    \/ \E c \in Ctrls, m \in Methods, p \in RoutePaths : Verb(c, m, p)
    \/ \E c \in Ctrls, mw \in Middlewares : AddMiddleware(c, mw)
    \/ \E c \in Ctrls, prefix \in MountPoints : BakeInto(c, prefix)
    \/ Freeze
    \/ \E m \in Methods, p \in RequestPaths : Dispatch(m, p)

RoutingSpec == RoutingInit /\ [][RoutingNext]_routingVars

-----------------------------------------------------------------------------
(* Properties *)

\* The canonical form of a path, said without the code's two ways to it.
Canonical(p) ==
    CASE norm = "none" -> p
      [] norm = "collapse_trailing_slash" ->
            IF Len(p) > 1 /\ p[Len(p)] = "" THEN SubSeq(p, 1, Len(p) - 1) ELSE p
      [] norm = "collapse_multi_slash" ->
            LET named == SelectSeq(p, LAMBDA s : s # "") IN IF named = <<>> THEN <<"">> ELSE named

Added == Range(added)
Hits(p) == {r \in Added : MatchTemplate(Canonical(r.path), Canonical(p))}
Literal(r) == ~IsParametric(r.path)

\* Over a registry that setup() accepted, every request is answered by the
\* routes as they were declared, however its path or theirs spell their
\* slashes: 404 exactly when no route matches, a handler only of a route that
\* matches path and method, a literal route before any template, 405 only when
\* the method is not among those of the path, which it lists.
LookupExact ==
    frozen /\ conflicts = <<>> =>
        \A m \in Methods, p \in RequestPaths :
            LET r == FindRoute(m, p)
                literals == {d \in Hits(p) : Literal(d)}
                deciding == IF literals # {} THEN literals ELSE Hits(p)
            IN  /\ r.kind = "notFound" <=> Hits(p) = {}
                /\ r.kind = "found" =>
                    \E d \in deciding :
                        /\ d.method = m
                        /\ d.handler = r.handler
                        /\ Literal(d) \/ r.params = Captures(Canonical(d.path), Canonical(p))
                /\ r.kind = "notAllowed" =>
                    \E d \in deciding :
                        r.allowed = {e.method : e \in {x \in deciding : SameShape(Canonical(x.path),
                                                                                  Canonical(d.path))}}
                        /\ m \notin r.allowed
                /\ \A d \in literals : d.method = m => r.kind = "found" /\ r.handler = d.handler

\* No declaration is lost in silence.  setup() refuses the registry exactly
\* when two routes claim the same method of the same shape, or name the
\* parameters of one shape differently; otherwise every route has its slot,
\* wrapped in all middlewares of its controller in the order they were added,
\* the ones added after the route included.
NoRouteLost ==
    frozen =>
        /\ conflicts # <<>> <=>
            \E i, j \in DOMAIN added :
                /\ i < j
                /\ SameShape(Canonical(added[i].path), Canonical(added[j].path))
                /\ \/ added[i].method = added[j].method
                   \/ Canonical(added[i].path) # Canonical(added[j].path)
        /\ \A r \in Added :
            /\ Front(r.handler) = mws[Last(r.handler)[1]]
            /\ conflicts = <<>> =>
                IF Literal(r)
                THEN exact[Canonical(r.path)][r.method] = r.handler
                ELSE \E t \in Range(parametric) :
                        t.segments = Canonical(r.path) /\ t.byMethod[r.method] = r.handler

\* A registry answers every request by exactly the routes that were declared.
RoutesExact == LookupExact /\ NoRouteLost

==============================================================================
