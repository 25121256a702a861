------------------------------ MODULE ReplyEdits ------------------------------
(***************************************************************************)
(* What becomes of two kinds of AI reply: a review, which corrects the     *)
(* segments of a draft by exact replacements, and a dictionary, which      *)
(* annotates the words of a paragraph.  Texts are sequences of letters     *)
(* and "-", which is neither a letter nor a digit.                         *)
(***************************************************************************)
EXTENDS Integers, Sequences, FiniteSets, SequencesExt

CONSTANTS
    Letters,   \* letters of the texts
    Heading,   \* the segment that holds the title of the article
    Article,   \* the text that quotations are taken from
    MaxText,   \* letters of a segment or of a paragraph
    MaxPart    \* letters of an anchor or of a word

VARIABLES
    kind,      \* "review" or "translation"
    source,    \* segments of the draft, or the paragraph alone
    reply,     \* changes (none: the draft is left unchanged), or words
    result     \* "none" before the reply is applied, then what it gives

xvars == <<kind, source, reply, result>>

Texts(n, S) == UNION {[1..k -> S] : k \in 1..n}

\* The second segment of a draft is a quotation; there is no third.
Changes ==
    [segment : 1..3, before : Texts(MaxPart, Letters), after : Texts(1, Letters) \cup {<< >>}]

Drafts == {<<t, q>> : t \in Texts(MaxText, Letters), q \in {SubSeq(Article, 1, 1), Article}}

Paragraphs == {<<t>> : t \in Texts(MaxText, Letters \cup {"-"})}

Words == Texts(MaxPart, Letters \cup {"-"})

UpToTwo(S) == {<< >>} \cup {<<s>> : s \in S} \cup (S \X S)

None == [accepted |-> FALSE, done |-> FALSE, parts |-> << >>]

Init ==
    /\ result = None
    /\ \/ kind = "review" /\ source \in Drafts /\ reply \in UpToTwo(Changes)
       \/ kind = "translation" /\ source \in Paragraphs /\ reply \in UpToTwo(Words)

\* Where a text begins in another one.
occurrences(part, text) ==
    {i \in 1..(Len(text) - Len(part) + 1) : SubSeq(text, i, i + Len(part) - 1) = part}

first(S) == CHOOSE i \in S : \A j \in S : i <= j

\* A change finds its anchor once in the segment as it was.
anchored(change) ==
    /\ change.segment \in DOMAIN source
    /\ source[change.segment] # Heading /\ change.before # change.after
    /\ Cardinality(occurrences(change.before, source[change.segment])) = 1

edit(change) ==
    LET start == first(occurrences(change.before, source[change.segment]))
    IN  [segment |-> change.segment, start |-> start,
         end |-> start + Len(change.before), after |-> change.after]

edits == SortSeq([i \in DOMAIN reply |-> edit(reply[i])],
                 LAMBDA d, e : d.segment < e.segment \/ (d.segment = e.segment /\ d.start < e.start))

overlapping(d, e) == d.segment = e.segment /\ d.end > e.start

replace_range(text, e) == SubSeq(text, 1, e.start - 1) \o e.after \o SubSeq(text, e.end, Len(text))

\* The changes are made from the first to the last.
corrected_forward(index) ==
    FoldLeft(LAMBDA text, e : IF e.segment = index THEN replace_range(text, e) ELSE text,
             source[index], edits)

\* The changes are made from the last to the first: the offsets stay true.
corrected(index) ==
    FoldRight(LAMBDA e, text : IF e.segment = index THEN replace_range(text, e) ELSE text,
              edits, source[index])

quotable(text) == text = << >> \/ occurrences(text, Article) # {}

\* The reviewed draft is verified like a reply: segments that became empty are
\* gone, one must be left, and a quotation must still be in the article.
reviewed ==
    LET parts == SelectSeq(<<corrected(1), corrected(2)>>, LAMBDA t : t # << >>)
    IN  [accepted |-> parts # << >> /\ quotable(corrected(2)), done |-> TRUE, parts |-> parts]

refused == [accepted |-> FALSE, done |-> TRUE, parts |-> << >>]

review ==
    /\ kind = "review" /\ result = None
    /\ result' =
          IF /\ \A i \in DOMAIN reply : anchored(reply[i])
             /\ \A i \in 1..(Len(reply) - 1) : ~ overlapping(edits[i], edits[i + 1])
          THEN reviewed ELSE refused
    /\ UNCHANGED <<kind, source, reply>>

\* What stands between two words is copied as it is.
gap(text) == IF text = << >> THEN << >> ELSE <<text>>

\* A letter outside the words is a word that was left out.
missed(text) == \E i \in DOMAIN text : text[i] \in Letters

\* A word is found where the original goes on, past punctuation only.
annotate(state, word) ==
    LET found == occurrences(word, state.remaining)
        start == first(found)
        before == SubSeq(state.remaining, 1, start - 1)
    IN  IF ~ state.accepted \/ found = {} THEN [state EXCEPT !.accepted = FALSE]
        ELSE IF missed(before) THEN [state EXCEPT !.accepted = FALSE]
        ELSE [accepted |-> TRUE,
              parts |-> state.parts \o gap(before) \o <<word>>,
              remaining |-> SubSeq(state.remaining, start + Len(word), Len(state.remaining))]

\* The segments are verified against the paragraph once more.
try_from(parts) == parts # << >> /\ FlattenSeq(parts) = source[1]

translate ==
    LET state == FoldLeft(annotate, [accepted |-> TRUE, parts |-> << >>, remaining |-> source[1]], reply)
        parts == state.parts \o gap(state.remaining)
    IN  /\ kind = "translation" /\ result = None
        /\ result' = IF state.accepted /\ ~ missed(state.remaining) /\ try_from(parts)
                     THEN [accepted |-> TRUE, done |-> TRUE, parts |-> parts]
                     ELSE refused
        /\ UNCHANGED <<kind, source, reply>>

Next == review \/ translate

Spec == Init /\ [][Next]_xvars

\* The changes of a review to one segment, as a set of places in the draft.
Replaced(index) ==
    LET own == {edit(reply[i]) : i \in {j \in DOMAIN reply : reply[j].segment = index}}
        text == source[index]
        at(i) == {e \in own : e.start = i}
        inside(i) == \E e \in own : e.start < i /\ i < e.end
    IN  FlattenSeq([i \in DOMAIN text |->
            IF at(i) # {} THEN (CHOOSE e \in at(i) : TRUE).after
            ELSE IF inside(i) THEN << >> ELSE <<text[i]>>])

\* A review that is accepted changes exactly the places its anchors name in the
\* original draft, whatever their order and lengths, and nothing else.
ReviewExact ==
    kind = "review" /\ result.accepted =>
        result.parts = SelectSeq(<<Replaced(1), Replaced(2)>>, LAMBDA t : t # << >>)

\* A review is not refused without need: unique anchors that do not share a
\* letter and leave the quotation in the article are applied, side by side or not.
ReviewTaken ==
    (/\ kind = "review" /\ result.done
     /\ \A i \in DOMAIN reply : anchored(reply[i])
     /\ \A i, j \in DOMAIN reply :
            i # j /\ reply[i].segment = reply[j].segment =>
                (edit(reply[i]).start..(edit(reply[i]).end - 1))
                    \cap (edit(reply[j]).start..(edit(reply[j]).end - 1)) = {}
     /\ quotable(Replaced(2)) /\ Replaced(1) \o Replaced(2) # << >>)
        => result.accepted

\* Two words stand in the paragraph in this order, at i and j, and nothing but
\* punctuation stands outside them.
Covers(text, one, two, i, j) ==
    /\ i \in occurrences(one, text) /\ j \in occurrences(two, text) /\ i + Len(one) <= j
    /\ \A k \in DOMAIN text :
          text[k] \in Letters => k \in (i..(i + Len(one) - 1)) \cup (j..(j + Len(two) - 1))

\* A dictionary is accepted exactly when its words stand in the paragraph in
\* order and cover every letter of it: looking for each word at the first place
\* that holds it neither refuses a dictionary that fits nor lets a word be left
\* out, and the gaps copied between them make up the original again.
DictionaryFits ==
    kind = "translation" /\ result.done /\ Len(reply) = 2 =>
        (result.accepted <=>
            \E i, j \in DOMAIN source[1] : Covers(source[1], reply[1], reply[2], i, j))

=============================================================================
