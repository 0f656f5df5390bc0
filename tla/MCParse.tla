------------------------------- MODULE MCParse -------------------------------
(***************************************************************************)
(* Parse for TLC: words of every kind that the search tells apart, with    *)
(* every kind of thing before them, and parts that are walked, too deep,   *)
(* or marked as attachments in each of the ways there are. 201 955 and     *)
(* 201955 have the same digits, and 201955 cut after four is a year.       *)
(***************************************************************************)
EXTENDS Parse

Spelt(chars, before) ==
  [chars |-> chars, keyword |-> FALSE, hidden |-> FALSE, before |-> before]
MCVocabulary ==
  {[Spelt(<<"a", "a", "a", "a">>, "line") EXCEPT !.keyword = TRUE],
   Spelt(<<"a", "a">>, "space"),
   Spelt(<<"7", "A", "7", "A", "7">>, "space"),
   Spelt(<<"1", "9", "9", "9">>, "gap"),
   Spelt(<<"2", "0", "1">>, "space"),
   Spelt(<<"9", "5", "5">>, "tag"),
   Spelt(<<"2", "0", "1", "9", "5", "5">>, "space"),
   Spelt(<<"3", "3", "3", "3", "3", "3">>, "symbol"),
   [Spelt(<<"4", "4", "4", "4", "4", "4">>, "mark") EXCEPT !.hidden = TRUE]}

Wrapped(depth, inAttached, disposition, type) ==
  [depth |-> depth, inAttached |-> inAttached, disposition |-> disposition,
   type |-> type]
MCWrappings ==
  {Wrapped(0, FALSE, "inline", "text"), Wrapped(1, FALSE, "inline", "html"),
   Wrapped(2, FALSE, "inline", "html"), Wrapped(1, TRUE, "inline", "text"),
   Wrapped(0, FALSE, "garbled", "html"), Wrapped(1, FALSE, "attachment", "text")}

\* The bounds of a mail: one part on display with as many words as there may be,
\* or any parts, with at most three of the words that tell parts apart.
MCFewWords ==
  {w \in MCVocabulary : w.keyword \/ w.before = "tag" \/ Len(w.chars) = 6}
MCWithinBounds ==
  \/ /\ Len(parts) <= 1
     /\ \A i \in 1..Len(parts) :
          parts[i].wrapped \in {Wrapped(0, FALSE, "inline", "text"),
                               Wrapped(1, FALSE, "inline", "html")}
  \/ /\ Len(WordsOf(parts)) <= 3
     /\ \A i \in 1..Len(parts) : \A k \in 1..Len(parts[i].words) :
          parts[i].words[k] \in MCFewWords

MCLines == [Mechanisms -> {"pass", "fail", "none"}]
==============================================================================
