-------------------------------- MODULE Parse --------------------------------
(***************************************************************************)
(* What an inbound mail is taken to say: the verdicts its headers give on  *)
(* the sender, and the verification code its body holds.                   *)
(*                                                                         *)
(* A text is a sequence of words, runs of ASCII letters and digits. Of the *)
(* letters only the case matters, so two stand for all of them; a word     *)
(* also has what stands before it. The two machines, of the headers and of *)
(* the body, share no state.                                               *)
(***************************************************************************)
EXTENDS Integers, FiniteSets, Sequences

CONSTANTS
  Vocabulary,        \* words a mail may be written with
  Wrappings,         \* how a part of a mail may be wrapped
  Lines,             \* what an Authentication-Results line may assert
  MaxMultipartDepth, \* maxMultipartDepth, 20
  MaxTextBodyChars,  \* MaxTextBodyChars, 64 KiB
  WindowRunes,       \* windowRunes, 80
  MaxParts,          \* bound: parts of a mail
  MaxWords,          \* bound: words of a mail
  MaxLines           \* bound: Authentication-Results lines of a mail

Mechanisms == {"spf", "dkim", "dmarc"}

Digit == {"0", "1", "2", "3", "4", "5", "6", "7", "8", "9"}
Upper == "A"
Lower == "a"

\* A word is marked if a keyword ends with it. What stands before it: one space
\* or hyphen; a gap of several (in HTML, not only spaces); one of # $ and the
\* like, a symbol; an HTML tag; the end of a line; or any other mark.
Word == [chars: Seq(Digit \cup {Upper, Lower}) \ {<<>>}, keyword: BOOLEAN,
         hidden: BOOLEAN,
         before: {"space", "gap", "line", "mark", "tag", "symbol"}]

\* A leaf of the mail: how deep in multiparts, whether one of those is marked as
\* an attachment, and what its own headers say of it; a disposition that does
\* not parse, for its parameters, is garbled.
Wrapping == [depth: Nat, inAttached: BOOLEAN,
             disposition: {"inline", "attachment", "garbled"},
             type: {"text", "html", "other"}]

ASSUME VocabularyAssumption == Vocabulary \subseteq Word
ASSUME WrappingsAssumption ==
  /\ Wrappings \subseteq Wrapping
  /\ \A wrapping \in Wrappings : wrapping.inAttached => wrapping.depth > 0
ASSUME LinesAssumption ==
  Lines \subseteq [Mechanisms -> {"pass", "fail", "none"}]
ASSUME ParseBoundsAssumption ==
  /\ MaxMultipartDepth \in Nat /\ MaxTextBodyChars \in Nat
  /\ WindowRunes \in Nat /\ MaxParts \in Nat /\ MaxWords \in Nat
  /\ MaxLines \in Nat

VARIABLES
  lines,    \* the mail's Authentication-Results lines, from the top
  mailgun,  \* Mailgun's own verdict headers, "none" for one that is not there
  parts,    \* the leaves of the mail, in document order
  text,     \* Parsed.TextBody
  reading   \* how far the search for a code has come

headerVars == <<lines, mailgun>>
textVars == <<parts, text, reading>>
parseVars == <<headerVars, textVars>>

NoHeaders == [spf |-> "none", dkim |-> "none"]
NoReading ==
  [pc |-> "composed", keyword |-> 0, window |-> <<>>, code |-> <<>>]

HeaderInit == lines = <<>> /\ mailgun = NoHeaders
TextInit == parts = <<>> /\ text = <<>> /\ reading = NoReading
ParseInit == HeaderInit /\ TextInit

-----------------------------------------------------------------------------
(* The headers. Every hop writes its line above the ones that are there;   *)
(* read from the top, a longer mail is one with more hops upstream.        *)

AddLine ==
  /\ Len(lines) < MaxLines
  /\ \E line \in Lines : lines' = Append(lines, line)
  /\ UNCHANGED mailgun

Evaluate ==
  /\ \E m \in DOMAIN mailgun, v \in {"pass", "fail"} :
       mailgun[m] = "none" /\ mailgun' = [mailgun EXCEPT ![m] = v]
  /\ UNCHANGED lines

Asserting(m, ls) == {i \in 1..Len(ls) : ls[i][m] # "none"}

\* Bug: the last line that mentions a mechanism decides it.
LastVerdict(m, ls) ==
  IF Asserting(m, ls) = {} THEN "none"
  ELSE ls[CHOOSE i \in Asserting(m, ls) : \A j \in Asserting(m, ls) : j <= i][m]

\* ParseAuthenticationResults keeps the first verdict it sees.
FirstVerdict(m, ls) ==
  IF Asserting(m, ls) = {} THEN "none"
  ELSE ls[CHOOSE i \in Asserting(m, ls) : \A j \in Asserting(m, ls) : i <= j][m]

\* parseAuthentication: Mailgun's verdict, for a mechanism it evaluated; a mail
\* with neither says nothing at all, and has no Authentication.
Authentication(ls, own) ==
  LET verdict(m) == IF m \in DOMAIN own /\ own[m] # "none" THEN own[m]
                    ELSE FirstVerdict(m, ls)
  IN [stamped |-> ls # <<>> \/ \E m \in DOMAIN own : own[m] # "none",
      spf |-> verdict("spf"), dkim |-> verdict("dkim"),
      dmarc |-> verdict("dmarc")]

\* Another mail.
OtherHeaders == lines' = <<>> /\ mailgun' = NoHeaders

HeaderNext == AddLine \/ Evaluate \/ OtherHeaders

-----------------------------------------------------------------------------
(* The body.                                                               *)

Part == [wrapped: Wrappings, words: Seq(Vocabulary)]

\* The words of several parts, or lines, one after the other.
Joined(lists) ==
  LET upTo[i \in 0..Len(lists)] ==
        IF i = 0 THEN <<>> ELSE upTo[i - 1] \o lists[i]
  IN upTo[Len(lists)]

WordsOf(ps) == Joined([i \in 1..Len(ps) |-> ps[i].words])

\* A sender composes a mail. Only HTML has tags, and blocks that are not shown.
AddPart ==
  /\ reading.pc = "composed"
  /\ Len(parts) < MaxParts
  /\ \E wrapping \in Wrappings :
       parts' = Append(parts, [wrapped |-> wrapping, words |-> <<>>])
  /\ UNCHANGED <<text, reading>>

AddWord ==
  /\ reading.pc = "composed"
  /\ parts # <<>>
  /\ Len(WordsOf(parts)) < MaxWords
  /\ \E w \in Vocabulary :
       /\ w.hidden \/ w.before = "tag" => parts[Len(parts)].wrapped.type = "html"
       /\ parts' = [parts EXCEPT ![Len(parts)].words = Append(@, w)]
  /\ UNCHANGED <<text, reading>>

\* Bug: the walk forgets that a part can be an attachment.
WalkedAnyhow(wrapping) == wrapping.depth <= MaxMultipartDepth

\* walkEntity: no deeper than this, and no attachment. A multipart's own
\* disposition is never asked for, and one that does not parse is none.
Walked(wrapping) ==
  wrapping.depth <= MaxMultipartDepth /\ wrapping.disposition # "attachment"

\* collectBodies: the inline parts of one type; every part begins a line.
Collected(ps, type) ==
  LET begun(ws) == [i \in 1..Len(ws) |->
                      IF i = 1 /\ ws[1].before = "space"
                      THEN [ws[1] EXCEPT !.before = "line"] ELSE ws[i]]
  IN Joined([n \in 1..Len(ps) |->
               IF Walked(ps[n].wrapped) /\ ps[n].wrapped.type = type
               THEN begun(ps[n].words) ELSE <<>>])

\* StripHTML: blocks that are not shown go, and a tag or the end of a line is
\* a space like any other.
StripHTML(ws) ==
  LET spaced(w) == IF w.before \in {"tag", "line"}
                   THEN [w EXCEPT !.before = "space"] ELSE w
  IN Joined([i \in 1..Len(ws) |->
               IF ws[i].hidden THEN <<>> ELSE <<spaced(ws[i])>>])

\* The first n characters of a text, what stands before its first word
\* counted in. The last word in them may be cut short, and is then another one.
Cut(ws, n) ==
  LET end[i \in 0..Len(ws)] ==
        IF i = 0 THEN 0 ELSE end[i - 1] + 1 + Len(ws[i].chars)
      room(i) == n - end[i - 1] - 1
  IN [i \in 1..Cardinality({i \in 1..Len(ws) : room(i) > 0}) |->
        IF room(i) < Len(ws[i].chars)
        THEN [ws[i] EXCEPT !.chars = SubSeq(@, 1, room(i))] ELSE ws[i]]

\* resolveTextBody. The placeholder of a mail with no body and the mark of one
\* that was cut are words that nothing here tells from none.
TextBody(ps) ==
  LET plain == Collected(ps, "text")
  IN Cut(IF plain # <<>> THEN plain ELSE StripHTML(Collected(ps, "html")),
         MaxTextBodyChars)

Parse ==
  /\ reading.pc = "composed"
  /\ text' = TextBody(parts)
  /\ reading' = [reading EXCEPT !.pc = "seek"]
  /\ UNCHANGED parts

-----------------------------------------------------------------------------
(* ExtractVerificationCode.                                                *)

Number(w) == \A i \in 1..Len(w.chars) : w.chars[i] \in Digit

\* yearPattern: 19 or 20, and two digits.
Year(w) ==
  /\ Number(w) /\ Len(w.chars) = 4
  /\ <<w.chars[1], w.chars[2]>> \in {<<"1", "9">>, <<"2", "0">>}

\* codeFromChunk, of one word: digits, or capitals and digits.
PlausibleWord(w) ==
  \/ Number(w) /\ Len(w.chars) \in 4..8 /\ ~Year(w)
  \/ /\ ~Number(w) /\ Len(w.chars) \in 5..10
     /\ \A i \in 1..Len(w.chars) : w.chars[i] # Lower
     /\ \E i \in 1..Len(w.chars) : w.chars[i] \in Digit

\* codeFromChunk, of two groups that are one piece.
PlausiblePair(v, w) ==
  /\ Number(v) /\ Number(w)
  /\ Len(v.chars) \in 3..4 /\ Len(w.chars) \in 3..4

\* Before which words tokenScan begins another run.
Breaks(ws) == {k \in 2..Len(ws) : ws[k].before \notin {"space", "gap"}}

\* splitTokenRun: before which words another piece begins. Only a separator
\* between two digits does not split, whatever the words are that they end.
Splits(ws) ==
  {k \in 2..Len(ws) :
     \/ ws[k].before # "space"
     \/ ws[k].chars[1] \notin Digit
     \/ ws[k - 1].chars[Len(ws[k - 1].chars)] \notin Digit}

\* How many words from the first on stand before the first of these.
Until(ws, ends) ==
  CHOOSE n \in 1..Len(ws) :
    /\ \A k \in 2..n : k \notin ends
    /\ n < Len(ws) => n + 1 \in ends

From(ws, i) == SubSeq(ws, i, Len(ws))

Found(code) == reading' = [reading EXCEPT !.pc = "done", !.code = code]

\* The loop over the keywords: the next one's window is cut, or, after the last
\* of them, the search falls back on the whole text.
NextKeyword ==
  /\ reading.pc = "seek"
  /\ LET ahead == {k \in (reading.keyword + 1)..Len(text) :
                     text[k].keyword}
     IN IF ahead = {} THEN reading' = [reading EXCEPT !.pc = "fallback"]
        ELSE LET k == CHOOSE k \in ahead : \A j \in ahead : k <= j
             IN reading' = [reading EXCEPT
                  !.pc = "scan", !.keyword = k,
                  !.window = Cut(From(text, k + 1), WindowRunes)]
  /\ UNCHANGED <<parts, text>>

\* scanWindow, a piece of the window a step: a run that a symbol stands before
\* is passed over; any other piece is tried as a pair, if it is two words, and
\* then word by word.
ScanPiece ==
  /\ reading.pc = "scan"
  /\ reading.window # <<>>
  /\ LET ws == reading.window
         rejected == ws[1].before = "symbol"
         n == Until(ws, IF rejected THEN Breaks(ws) ELSE Splits(ws))
         hits == {i \in 1..n : PlausibleWord(ws[i])}
     IN IF ~rejected /\ n = 2 /\ PlausiblePair(ws[1], ws[2])
        THEN Found(<<ws[1], ws[2]>>)
        ELSE IF ~rejected /\ hits # {}
        THEN Found(<<ws[CHOOSE i \in hits : \A j \in hits : i <= j]>>)
        ELSE reading' = [reading EXCEPT !.window = From(ws, n + 1)]
  /\ UNCHANGED <<parts, text>>

WindowSpent ==
  /\ reading.pc = "scan"
  /\ reading.window = <<>>
  /\ reading' = [reading EXCEPT !.pc = "seek"]
  /\ UNCHANGED <<parts, text>>

\* normalizeDigits: the digits of a code, whatever groups it was written in.
Digits(code) == Joined([i \in 1..Len(code) |-> code[i].chars])

\* sixDigitPattern: six digits, or two groups of three that one space joins,
\* each group in one pair only.
Triple(w) == Number(w) /\ Len(w.chars) = 3
Pairs(ws) ==
  {i \in 1..(Len(ws) - 1) :
     \E first \in 1..i :
       /\ (i - first) % 2 = 0
       /\ \A k \in (first + 1)..(i + 1) : k \notin Splits(ws)
       /\ \A k \in first..(i + 1) : Triple(ws[k])
       /\ first = 1 \/ first \in Splits(ws) \/ ~Triple(ws[first - 1])}
SixDigits(ws) ==
  {<<ws[i]>> : i \in {i \in 1..Len(ws) : Number(ws[i]) /\ Len(ws[i].chars) = 6
                                         /\ ws[i].before # "symbol"}}
    \cup {<<ws[i], ws[i + 1]>> : i \in {i \in Pairs(ws) :
                                          ws[i].before # "symbol"}}

\* Bug: of several six-digit numbers any one will do.
FallbackOnAny ==
  /\ reading.pc = "fallback"
  /\ IF SixDigits(text) = {} THEN Found(<<>>)
     ELSE \E code \in SixDigits(text) : Found(code)
  /\ UNCHANGED <<parts, text>>

\* fallbackCode: the one six-digit number of the text, if it has only one.
Fallback ==
  /\ reading.pc = "fallback"
  /\ IF Cardinality({Digits(code) : code \in SixDigits(text)}) = 1
     THEN Found(CHOOSE code \in SixDigits(text) : TRUE)
     ELSE Found(<<>>)
  /\ UNCHANGED <<parts, text>>

\* The code is stored with the text, and the next mail is read.
OtherText ==
  /\ reading.pc = "done"
  /\ parts' = <<>> /\ text' = <<>> /\ reading' = NoReading

TextNext ==
  \/ AddPart \/ AddWord \/ Parse
  \/ NextKeyword \/ ScanPiece \/ WindowSpent \/ Fallback \/ OtherText

ParseNext ==
  \/ HeaderNext /\ UNCHANGED textVars
  \/ TextNext /\ UNCHANGED headerVars

ParseSpec == ParseInit /\ [][ParseNext]_parseVars

-----------------------------------------------------------------------------
(* What a mail may be taken to say.                                        *)

ParseTypeOK ==
  /\ lines \in Seq(Lines)
  /\ mailgun \in [{"spf", "dkim"} -> {"pass", "fail", "none"}]
  /\ parts \in Seq(Part)
  /\ text \in Seq(Word)
  /\ reading \in [pc: {"composed", "seek", "scan", "fallback", "done"},
                 keyword: 0..Len(text), window: Seq(Word), code: Seq(Word)]

\* "keeping the first verdict seen per mechanism" (authresults.go): once a hop
\* has asserted a verdict, no line further upstream takes it back or turns it,
\* and only Mailgun's own verdict on the mechanism does.
FirstWordStands ==
  [][~HeaderInit' =>
       LET old == Authentication(lines, mailgun)
           new == Authentication(lines', mailgun')
       IN \A m \in Mechanisms :
            \/ old[m] \in {"none", new[m]}
            \/ m \in DOMAIN mailgun /\ mailgun'[m] = new[m]]_headerVars

\* What a cut leaves of a word, or all of it.
LeftOf(v, w) ==
  /\ Len(v.chars) <= Len(w.chars)
  /\ \A i \in 1..Len(v.chars) : v.chars[i] = w.chars[i]

\* "a text/plain attachment full of numbers must not be mined for a verification
\* code" (parse.go), nor a style sheet for its colours: a code is read off a part
\* that is not too deep and that its own headers do not make an attachment, in a
\* way that parses; off an HTML part only if the mail has no plain text. More
\* does not hold, although "Parts marked as attachments are skipped": a leaf of
\* an attached multipart, or one with a garbled disposition, is mined.
OnlyShownWordsAreMined ==
  LET onDisplay == {n \in 1..Len(parts) :
        /\ parts[n].wrapped.disposition # "attachment"
        /\ parts[n].wrapped.depth <= MaxMultipartDepth}
      shown == {n \in onDisplay :
        \/ parts[n].wrapped.type = "text"
        \/ /\ parts[n].wrapped.type = "html"
           /\ \A o \in onDisplay :
                parts[o].wrapped.type # "text" \/ parts[o].words = <<>>}
  IN \A i \in 1..Len(reading.code) :
       \E n \in shown : \E k \in 1..Len(parts[n].words) :
         LET w == parts[n].words[k]
         IN ~w.hidden /\ LeftOf(reading.code[i], w)

\* Two words of a window that are a piece of their own, and plausible as one.
Paired(ws, i) ==
  /\ i < Len(ws) /\ PlausiblePair(ws[i], ws[i + 1])
  /\ i = 1 \/ i \in Splits(ws)
  /\ i + 1 \notin Splits(ws)
  /\ i + 2 > Len(ws) \/ i + 2 \in Splits(ws)

\* Where in a window a plausible token begins: not in a run that a symbol
\* stands before.
Begins(ws) ==
  {i \in 1..Len(ws) :
     /\ PlausibleWord(ws[i]) \/ Paired(ws, i)
     /\ ~\E r \in 1..i : /\ ws[r].before = "symbol"
                         /\ \A k \in (r + 1)..i : k \notin Breaks(ws)}

Window(k) == Cut(From(text, k + 1), WindowRunes)

\* "scan a short window after it for the first plausible token" and, "without a
\* keyword", "return the code only when the body contains exactly one 6-digit
\* token" (extract.go): a code is the first plausible token in the window of the
\* first keyword that has one. If no keyword has, it is the only six-digit number
\* in the text, and there is no code only if the text has no such number or
\* different ones. That is so whether there are keywords or not, although the
\* fallback "is used when no keyword was found": a number before the only keyword
\* is a code.
CodeIsTheFirstPlausible ==
  reading.pc = "done" =>
    LET offering == {k \in 1..Len(text) :
                       text[k].keyword /\ Begins(Window(k)) # {}}
    IN IF offering # {}
       THEN \E k \in offering : \E i \in Begins(Window(k)) :
              LET ws == Window(k)
              IN /\ \A j \in offering : k <= j
                 /\ \A j \in Begins(ws) : i <= j
                 /\ reading.code = IF Paired(ws, i) THEN <<ws[i], ws[i + 1]>>
                                   ELSE <<ws[i]>>
       ELSE IF reading.code # <<>>
       THEN /\ reading.code \in SixDigits(text)
            /\ \A c \in SixDigits(text) : Digits(c) = Digits(reading.code)
       ELSE \A c \in SixDigits(text) :
              \E d \in SixDigits(text) : Digits(c) # Digits(d)

\* "Anything else yields no code rather than a confident wrong one": a code is
\* made of whole words of the mail. The window is cut by the character, and
\* what is left of a number that stands across its edge is tried as if it were
\* one.
CodeIsWhole ==
  \A i \in 1..Len(reading.code) :
    \E n \in 1..Len(parts) : \E k \in 1..Len(parts[n].words) :
      parts[n].words[k].chars = reading.code[i].chars

=============================================================================
