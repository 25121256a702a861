----------------------------- MODULE ReplyStream -----------------------------
(***************************************************************************)
(* One streamed reply of the AI provider.  The reply is a JSON envelope of *)
(* text and quote segments that arrives in pieces of any size; a scanner   *)
(* shows each segment as soon as it is complete, and the whole is parsed   *)
(* again at the end.  A reply is a sequence of tokens: the structural      *)
(* characters, "q" for a quotation mark, "b" for a backslash, "x" for any  *)
(* other character, ">" where it begins a line; "text" and "quote" stand   *)
(* for the members of a segment before its content.                        *)
(***************************************************************************)
EXTENDS Naturals, Sequences, FiniteSets, FiniteSetsExt, SequencesExt

CONSTANTS
    Inserted,  \* tokens a faulty reply may have too many
    MaxUnits,  \* characters of a segment, in a correct reply
    MaxDelta,  \* tokens that arrive at a time
    Limit      \* max_response_bytes

VARIABLES
    wire,      \* what the provider is going to send
    parser,    \* VerifiedSegments
    shown,     \* content last published
    event,     \* what the event stream has said so far
    retained,  \* reply kept with the paid call
    outcome    \* "open", "completed", or "failed"

yvars == <<wire, parser, shown, event, retained, outcome>>

\* A character of a string: an escaped pair, or one that needs no escape.
Units == {<<"x">>, <<">">>, <<"{">>, <<"}">>, <<"[">>, <<"]">>, <<",">>, <<"b", "q">>, <<"b", "b">>}

Strings(n) == {FlattenSeq(s) : s \in UNION {[1..k -> Units] : k \in 1..n}}

\* The article of the chat, as far as quotations can tell.
Source == {<<"x">>, <<"]">>}

Object(segment) == <<"{", segment.kind, "q">> \o segment.content \o <<"q", "}">>

Header == <<"{", "q", "x", "q", "[">>

\* A segment list as the provider would write it.
Envelope(segments) ==
    Header \o FlattenSeq([i \in DOMAIN segments |->
        IF i = 1 THEN Object(segments[i]) ELSE <<",">> \o Object(segments[i])]) \o <<"]", "}">>

Segments(n) == [kind : {"text"}, content : Strings(n)] \cup [kind : {"quote"}, content : Source \cup {<<",">>}]

\* The character at i follows a backslash that is not escaped itself.
escapes(s, i) ==
    LET plain == {j \in 1..(i - 1) : s[j] # "b"} \cup {0}
    IN  (i - 1 - Max(plain)) % 2 = 1

\* A string holds one character at least, and only escaped pairs it can hold.
is_string(s) ==
    /\ s # << >> /\ ~ escapes(s, Len(s) + 1)
    /\ \A i \in DOMAIN s : IF escapes(s, i) THEN s[i] \in {"q", "b"}
                           ELSE s[i] \notin {"q", "text", "quote"}

segment_of(object) == [kind |-> object[2], content |-> SubSeq(object, 4, Len(object) - 2)]

is_object(object) ==
    /\ Len(object) > 5 /\ object[2] \in {"text", "quote"}
    /\ object = Object(segment_of(object)) /\ is_string(segment_of(object).content)

Sent == {Envelope(l) : l \in {<<s>> : s \in Segments(MaxUnits)} \cup (Segments(1) \X Segments(1)) \cup {<< >>}}

\* A reply as it should be, without one token, or with one too many.
Wires ==
    LET without(w, i) == SubSeq(w, 1, i - 1) \o SubSeq(w, i + 1, Len(w))
    IN  Sent \cup UNION {{without(w, i) : i \in DOMAIN w} : w \in Sent}
             \cup UNION {{InsertAt(w, i, t) : i \in 1..Len(w), t \in Inserted} : w \in Sent}

\* The segment lists a reply stands for when it is parsed as a whole: one if it
\* is well formed, none otherwise.
parse(raw) ==
    LET items == SubSeq(raw, 6, Len(raw) - 2)
        rest(i) == SubSeq(items, i + 1, Len(items))
    IN  IF Len(raw) < 7 THEN {}
        ELSE IF SubSeq(raw, 1, 5) # Header \/ SubSeq(raw, Len(raw) - 1, Len(raw)) # <<"]", "}">> THEN {}
        ELSE IF items = << >> THEN {<< >>}
        ELSE IF is_object(items) THEN {<<segment_of(items)>>}
        ELSE {<<segment_of(SubSeq(items, 1, i - 1)), segment_of(rest(i))>> :
                 i \in {j \in DOMAIN items : items[j] = "," /\ is_object(SubSeq(items, 1, j - 1))
                                                /\ is_object(rest(j))}}

Fresh ==
    [raw |-> << >>, array_started |-> FALSE, array_finished |-> FALSE, object_start |-> 0,
     depth |-> 0, quoted |-> FALSE, escaped |-> FALSE, separator |-> FALSE,
     content |-> << >>, emitted |-> 0, failed |-> FALSE]

Init ==
    /\ wire \in Wires
    /\ parser = Fresh /\ shown = << >> /\ retained = << >>
    /\ event = [done |-> FALSE, stopped |-> FALSE, output_limit |-> FALSE, usage |-> FALSE]
    /\ outcome = "open"

refuse(p) == [p EXCEPT !.failed = TRUE]

\* Text must not look like a quotation, and a quotation must be in the article.
rendered(segment) ==
    IF segment.kind = "text" THEN segment.content[1] # ">" ELSE segment.content \in Source

\* A closed object is deserialized, verified and added to the content.
close_object(p) ==
    LET object == SubSeq(p.raw, p.object_start, Len(p.raw))
    IN  IF is_object(object) /\ rendered(segment_of(object))
        THEN [p EXCEPT !.object_start = 0, !.depth = 0, !.separator = TRUE,
                       !.content = Append(@, segment_of(object)), !.emitted = @ + 1]
        ELSE refuse(p)

\* Every quotation mark opens or closes a string.
in_string_plain(p, byte) == [p EXCEPT !.quoted = byte # "q"]

in_string(p, byte) ==
    IF p.escaped THEN [p EXCEPT !.escaped = FALSE]
    ELSE [p EXCEPT !.escaped = byte = "b", !.quoted = byte # "q"]

between_objects(p, byte) ==
    CASE byte = "]" -> [p EXCEPT !.array_finished = TRUE]
      [] byte # "]" /\ p.separator ->
             IF byte = "," THEN [p EXCEPT !.separator = FALSE] ELSE refuse(p)
      [] byte = "{" /\ ~ p.separator -> [p EXCEPT !.object_start = Len(p.raw), !.depth = 1]
      [] OTHER -> refuse(p)

in_object(p, byte) ==
    CASE byte = "{" -> [p EXCEPT !.depth = @ + 1]
      [] byte = "}" -> IF p.depth = 1 THEN close_object(p) ELSE [p EXCEPT !.depth = @ - 1]
      [] OTHER -> p

\* One byte of the scan.
scan(q, byte) ==
    LET p == [q EXCEPT !.raw = Append(@, byte)]
    IN  CASE q.failed -> q
          [] ~ q.failed /\ p.array_finished -> p
          [] ~ q.failed /\ ~ p.array_finished /\ p.quoted -> in_string(p, byte)
          [] ~ q.failed /\ ~ p.array_finished /\ ~ p.quoted ->
                 CASE byte = "q" -> IF p.array_started /\ p.object_start = 0
                                    THEN refuse(p) ELSE [p EXCEPT !.quoted = TRUE]
                   [] byte # "q" /\ ~ p.array_started ->
                          CASE byte = "[" /\ p.raw = Header -> [p EXCEPT !.array_started = TRUE]
                            [] byte = "[" /\ p.raw # Header -> refuse(p)
                            [] OTHER -> p
                   [] byte # "q" /\ p.array_started ->
                          IF p.object_start = 0 THEN between_objects(p, byte)
                          ELSE in_object(p, byte)

\* A refused byte ends the scan, but the whole piece has been kept.
push(text) ==
    IF Len(parser.raw) + Len(text) > Limit THEN refuse(parser)
    ELSE [FoldLeft(scan, parser, text) EXCEPT !.raw = parser.raw \o text]

\* The reply so far is kept with the paid call, whatever became of the stream.
retain == parser'.raw

left == SubSeq(wire, Len(parser.raw) + 1, Len(wire))

\* A delta of the event stream: scanned, and published when a segment was closed.
delta(n) ==
    /\ outcome = "open" /\ n <= Len(left) /\ ~ event.done
    /\ parser' = push(SubSeq(left, 1, n))
    /\ outcome' = IF parser'.failed THEN "failed" ELSE "open"
    /\ shown' = IF parser'.failed THEN shown ELSE parser'.content
    /\ retained' = IF parser'.failed THEN retain ELSE retained
    /\ UNCHANGED <<wire, event>>

\* Usage, the reason to finish, and the end marker come after the text.
tell(what) ==
    /\ outcome = "open" /\ left = << >> /\ ~ event.done /\ ~ event[what]
    /\ event' = [event EXCEPT ![what] = TRUE, !.stopped = @ \/ what = "output_limit"]
    /\ UNCHANGED <<wire, parser, shown, retained, outcome>>

acceptable(raw) ==
    \E l \in parse(raw) : l # << >> /\ \A i \in DOMAIN l : rendered(l[i])

finish_parses == acceptable(parser.raw) /\ \A l \in parse(parser.raw) : Len(l) = parser.emitted

\* The stream is over: only a reply that was told to be complete is parsed again.
finish ==
    /\ outcome = "open"
    /\ outcome' = IF /\ event.done /\ event.stopped /\ event.usage /\ ~ event.output_limit
                     /\ finish_parses
                  THEN "completed" ELSE "failed"
    /\ UNCHANGED <<wire, parser, event, shown>>
    /\ retained' = retain

Next ==
    \/ \E n \in 1..MaxDelta : delta(n)
    \/ \E what \in {"done", "stopped", "output_limit", "usage"} : tell(what)
    \/ finish

Spec == Init /\ [][Next]_yvars

\* A reply that completes shows exactly the segments that parsing the whole
\* finds, in their order: reading ahead changes nothing.
ShownIsReply == outcome = "completed" => parse(wire) = {shown}

\* However the reply is cut into pieces, and whatever its strings contain, the
\* scanner refuses no envelope that parsing the whole would accept.
GoodReplyScanned ==
    acceptable(wire) /\ Len(wire) <= Limit => ~ parser.failed

\* The reader never sees a quotation that is not in the article, not even from a
\* reply that is refused later.
QuotesVerified == \A i \in DOMAIN shown : shown[i].kind = "quote" => shown[i].content \in Source

\* What was paid for is kept: when the call ends, well or not, all that was taken
\* of the reply is with it (the delta that would exceed the limit is not taken).
ReceivedKept == outcome # "open" => retained = parser.raw

=============================================================================
