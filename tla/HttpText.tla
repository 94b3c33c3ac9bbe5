------------------------------- MODULE HttpText ------------------------------
(***************************************************************************)
(* albatross's decoders of text a client sent: percent-decoding, the lazy  *)
(* split of a request target, the lenient parser of a query string, the    *)
(* strict parser of a form body and the parser of a multipart body.        *)
(*                                                                         *)
(* Text is a sequence of character codes that grows by one character per   *)
(* step; the decoders are operators on it, so that every text up to        *)
(* MaxText characters over Alphabet is decoded.  A multipart body is a     *)
(* sequence of the tokens its parser looks for.                            *)
(***************************************************************************)
EXTENDS Integers, Sequences, FiniteSets, SequencesExt

CONSTANTS
    Alphabet, \* character codes
    MaxText,  \* the longest text
    Parts     \* multipart fields a body may be made of

VARIABLES
    text,  \* the text so far
    parts  \* the fields of a multipart body so far

textVars == <<text, parts>>

TextInit ==
    /\ text = <<>>
    /\ parts = <<>>

\* std::optional and std::expected: at most one value.
Some(x) == <<x>>
None == <<>>
Value(opt) == opt[1]

Percent == 37
Amp == 38
Plus == 43
Eq == 61
Question == 63
Space == 32

-----------------------------------------------------------------------------
(* url_decode *)

HexVal(c) ==
    CASE c \in 48 .. 57 -> c - 48
      [] c \in 97 .. 102 -> 10 + c - 97
      [] c \in 65 .. 70 -> 10 + c - 65
      [] OTHER -> -1

\* Prepends a decoded character unless what follows is malformed.
Then(c, rest) == IF rest = None THEN None ELSE Some(<<c>> \o Value(rest))

\* Bug: an escape that ends the text is taken for a truncated one.
DecodeIntoShort(in, plusIsSpace) ==
    LET n == Len(in)
        from[i \in 1 .. n + 3] ==
            IF i > n THEN Some(<<>>)
            ELSE IF in[i] = Plus /\ plusIsSpace THEN Then(Space, from[i + 1])
            ELSE IF in[i] # Percent THEN Then(in[i], from[i + 1])
            ELSE IF i + 2 >= n THEN None
            ELSE IF HexVal(in[i + 1]) < 0 \/ HexVal(in[i + 2]) < 0 THEN None
            ELSE Then(16 * HexVal(in[i + 1]) + HexVal(in[i + 2]), from[i + 3])
    IN  from[1]

DecodeInto(in, plusIsSpace) ==
    LET n == Len(in)
        from[i \in 1 .. n + 3] ==
            IF i > n THEN Some(<<>>)
            ELSE IF in[i] = Plus /\ plusIsSpace THEN Then(Space, from[i + 1])
            ELSE IF in[i] # Percent THEN Then(in[i], from[i + 1])
            ELSE IF i + 2 > n THEN None
            ELSE IF HexVal(in[i + 1]) < 0 \/ HexVal(in[i + 2]) < 0 THEN None
            ELSE Then(16 * HexVal(in[i + 1]) + HexVal(in[i + 2]), from[i + 3])
    IN  from[1]

UrlDecode(in) == DecodeInto(in, TRUE)

\* Without a copy when there is nothing to rewrite.
UrlDecodeArena(in, plusIsSpace) ==
    IF Percent \in Range(in) \/ (plusIsSpace /\ Plus \in Range(in))
    THEN DecodeInto(in, plusIsSpace)
    ELSE Some(in)

-----------------------------------------------------------------------------
(* Targets, query strings and forms *)

\* The first position of c in s at or after i, 0 when there is none.
Find(s, c, i) ==
    LET at == {j \in i .. Len(s) : s[j] = c} IN IF at = {} THEN 0 ELSE Min(at)

Before(s, i) == IF i = 0 THEN s ELSE SubSeq(s, 1, i - 1)
After(s, i) == IF i = 0 THEN <<>> ELSE SubSeq(s, i + 1, Len(s))

\* ensure_split(): the target up to the first '?', and what follows it.
SplitTarget(target) ==
    LET q == Find(target, Question, 1) IN [path |-> Before(target, q), query |-> After(target, q)]

RawKey(pair) == Before(pair, Find(pair, Eq, 1))
RawValue(pair) == After(pair, Find(pair, Eq, 1))

\* The pairs both parsers visit: none for an empty text or after a last '&'.
PairsOf(s) ==
    LET n == Len(s)
        from[i \in 1 .. n + 1] ==
            IF i > n THEN <<>>
            ELSE LET amp == Find(s, Amp, i) IN
                 IF amp = 0 THEN <<SubSeq(s, i, n)>>
                 ELSE <<SubSeq(s, i, amp - 1)>> \o from[amp + 1]
    IN  from[1]

\* ensure_query_parsed(): a pair with a malformed escape is skipped.
QueryParams(s) ==
    LET decoded == [i \in DOMAIN PairsOf(s) |->
                      <<UrlDecode(RawKey(PairsOf(s)[i])), UrlDecode(RawValue(PairsOf(s)[i]))>>]
        good == SelectSeq(decoded, LAMBDA kv : kv[1] # None /\ kv[2] # None)
    IN  [i \in DOMAIN good |-> <<Value(good[i][1]), Value(good[i][2])>>]

\* raw_query() and raw_path_param(): the first entry of that name.
FirstParam(params, name) ==
    LET at == {i \in DOMAIN params : params[i][1] = name}
    IN  IF at = {} THEN None ELSE Some(params[Min(at)][2])

\* read_form(): stops at an empty key or a malformed escape; a later value
\* replaces an earlier one.
ReadForm(s) ==
    LET step(out, pair) ==
            LET k == UrlDecode(RawKey(pair))
                v == UrlDecode(RawValue(pair))
            IN  IF out = None \/ RawKey(pair) = <<>> \/ k = None \/ v = None
                THEN None
                ELSE Some(Append(SelectSeq(Value(out), LAMBDA kv : kv[1] # Value(k)),
                                 <<Value(k), Value(v)>>))
    IN  FoldLeft(step, Some(<<>>), PairsOf(s))

-----------------------------------------------------------------------------
(* read_multipart().  Tokens: "delim" is "--boundary", "eol" a line end, "end" *)
(* is "--", a record is the header line of one field, anything else is data. *)

FindTokens(s, what, i) ==
    LET at == {j \in i .. Len(s) - Len(what) + 1 : SubSeq(s, j, j + Len(what) - 1) = what}
    IN  IF at = {} THEN 0 ELSE Min(at)

\* One field per round: its headers up to an empty line, its value up to the
\* next delimiter at the start of a line; "--" behind a delimiter ends.
ReadMultipart(body) ==
    LET n == Len(body)
        from[p \in 1 .. n + 1] ==
            IF p > n \/ body[p] = "end" THEN Some(<<>>)
            ELSE LET start == IF body[p] = "eol" THEN p + 1 ELSE p
                     headerEnd == FindTokens(body, <<"eol", "eol">>, start)
                     next == FindTokens(body, <<"eol", "delim">>, headerEnd + 2)
                 IN  IF headerEnd = 0 \/ next = 0 THEN None
                     ELSE Then([header |-> SubSeq(body, start, headerEnd - 1),
                                value |-> SubSeq(body, headerEnd + 2, next - 1)],
                               from[next + 2])
        first == FindTokens(body, <<"delim">>, 1)
    IN  IF first = 0 THEN None ELSE from[first + 1]

\* How a client writes the fields, behind a preamble.
WriteMultipart(fields) ==
    FoldLeft(LAMBDA out, f : out \o <<"eol", f.name, "eol", "eol">> \o f.value \o <<"eol", "delim">>,
             <<"preamble", "delim">>, fields) \o <<"end", "eol">>

-----------------------------------------------------------------------------
Type(c) ==
    /\ Len(text) < MaxText
    /\ text' = Append(text, c)
    /\ UNCHANGED parts

AddPart(f) ==
    /\ text = <<>>
    /\ Len(parts) < 2
    /\ parts' = Append(parts, f)
    /\ UNCHANGED text

TextNext == (\E c \in Alphabet : Type(c)) \/ (\E f \in Parts : AddPart(f))

TextSpec == TextInit /\ [][TextNext]_textVars

-----------------------------------------------------------------------------
(* Properties *)

Hex(n) == IF n < 10 THEN 48 + n ELSE 87 + n

\* The longest way to write a text: every character escaped.
Encode(s) ==
    FoldLeft(LAMBDA out, c : out \o <<Percent, Hex(c \div 16), Hex(c % 16)>>, <<>>, s)

\* Every '%' of the text starts an escape or is inside one.
WellFormed(s) ==
    \E starts \in SUBSET {i \in DOMAIN s : s[i] = Percent} :
        /\ \A i \in starts :
            i + 2 <= Len(s) /\ HexVal(s[i + 1]) >= 0 /\ HexVal(s[i + 2]) >= 0
        /\ \A i \in DOMAIN s : s[i] = Percent => i \in starts

\* What clients send is decoded to what they meant, whichever way it goes in.
\* Decoding fails exactly on a malformed escape, undoes the encoding of any
\* text and agrees between the heap and the arena version; a strict form and a
\* lenient query string have the same pairs whenever the form is accepted, the
\* form keeping the last value and the query the first; what the form refuses
\* has an empty key or a bad escape; multipart fields come back as written.
DecodedAsWritten ==
    /\ \A plus \in BOOLEAN :
        /\ DecodeInto(text, plus) = None <=> ~WellFormed(text)
        /\ UrlDecodeArena(text, plus) = DecodeInto(text, plus)
        /\ DecodeInto(Encode(text), plus) = Some(text)
        /\ DecodeInto(text, plus) # None => Len(Value(DecodeInto(text, plus))) <= Len(text)
    /\ LET form == ReadForm(text)
           query == QueryParams(text)
       IN  IF form = None
           THEN \E i \in DOMAIN PairsOf(text) :
                    \/ RawKey(PairsOf(text)[i]) = <<>>
                    \/ ~WellFormed(PairsOf(text)[i])
           ELSE /\ {kv[1] : kv \in Range(Value(form))} = {kv[1] : kv \in Range(query)}
                /\ \A kv \in Range(Value(form)) :
                    FirstParam(Reverse(query), kv[1]) = Some(kv[2])
    /\ LET split == SplitTarget(text) IN
        /\ Question \notin Range(split.path)
        /\ text \in {split.path, split.path \o <<Question>> \o split.query}
    /\ LET fields == ReadMultipart(WriteMultipart(parts)) IN
        /\ fields # None
        /\ Len(Value(fields)) = Len(parts)
        /\ \A i \in DOMAIN parts :
            Value(fields)[i] = [header |-> <<parts[i].name>>, value |-> parts[i].value]

==============================================================================
