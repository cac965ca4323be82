------------------------------- MODULE Parser -------------------------------
(***************************************************************************)
(* ice::parser (parser.hpp): run() receives a stream one character at a    *)
(* time; parse() gathers lines, offers the complete ones to the handlers,  *)
(* and the one that has begun after every character, so that a prompt can  *)
(* be answered that no end of line follows.  A handler says what is to     *)
(* become of the rest of the line, or ends run(), which may be called      *)
(* again.                                                                  *)
(*                                                                         *)
(* A line is the sequence of the positions of its characters in the text,  *)
(* so that it can be told what became of each of them.                     *)
(***************************************************************************)
EXTENDS Integers, Sequences, FiniteSetsExt

CONSTANTS
  MaxText,   \* characters that the stream brings
  Matchers   \* how many handlers there are

ASSUME ParserAssumption == MaxText \in Nat /\ Matchers \in Nat

(* What parse() tells apart; " " stands for every blank.                   *)
Chars == {"x", " ", "LF", "CR", "BS"}

\* enum class state
States == {"none", "more", "skip", "next", "done"}

VARIABLES
  pc,       \* "out" of run(), "recv", or in parse() "complete" or "partial"
  text,     \* what the stream has brought
  cr_, skip_, line_, lines_,
  handled   \* what handle() was asked, and what it answered

parserVars == <<pc, text, cr_, skip_, line_, lines_, handled>>

ParserInit ==
  /\ pc = "out" /\ text = <<>>
  /\ cr_ = FALSE /\ skip_ = FALSE /\ line_ = <<>> /\ lines_ = <<>>
  /\ handled = <<>>

\* find_first_not_of(" \t\v\b\f\a")
Blank(line) == \A p \in Range(line) : text[p] = " "

-----------------------------------------------------------------------------
(* handle(): every matcher that fits is called, until one says something   *)
(* else than "more"; an error is noticed afterwards.                       *)

Answers == [1..Matchers -> States \cup {"no match"}]

Called(a) == {i \in 1..Matchers :
  a[i] # "no match" /\ \A j \in 1..(i - 1) : a[j] \in {"no match", "more"}}

Answer(a) == IF Called(a) = {} THEN "none" ELSE a[Max(Called(a))]

\* What parse() makes of it; the answer for a complete line only matters if
\* it ends run().
Outcomes(eol) == {o \in {"stop", "skip", "next", "none"} :
  \E a \in Answers, ec \in BOOLEAN :
    /\ ec => Called(a) # {}
    /\ o = CASE Answer(a) = "done" \/ ec             -> "stop"
             [] eol \/ Answer(a) = "none"            -> "none"
             [] ~eol /\ Answer(a) \in {"more", "skip"} -> "skip"
             [] OTHER                                -> "next"}

Handle(line, eol, outcome) ==
  handled' = Append(handled, [line |-> line, eol |-> eol, outcome |-> outcome])

LinesWith == IF Blank(line_) THEN lines_ ELSE Append(lines_, line_)

\* Faulty variant: the end of a line is noticed at every character after it.
OrdinaryKeepsReturn(c) ==
  /\ ~skip_ /\ c # "LF"
  /\ lines_' = IF cr_ THEN LinesWith ELSE lines_
  /\ line_' = (IF cr_ THEN <<>> ELSE line_) \o (IF c \in {"CR", "BS"} THEN <<>> ELSE <<Len(text) + 1>>)
  /\ cr_' = (cr_ \/ c = "CR")
  /\ pc' = IF c \in {"CR", "BS"} THEN "recv" ELSE "complete"
  /\ UNCHANGED skip_

-----------------------------------------------------------------------------
(* parse(), as far as the first handler.                                   *)

Skip(c) ==
  /\ skip_
  /\ skip_' = (c # "LF")
  /\ pc' = "recv"
  /\ UNCHANGED <<cr_, line_, lines_>>

EndOfLine(c) ==
  /\ ~skip_ /\ c = "LF"
  /\ lines_' = LinesWith /\ line_' = <<>> /\ cr_' = FALSE
  /\ pc' = "recv"
  /\ UNCHANGED skip_

\* A "\r" ends the line when something else than "\n" follows.
Ordinary(c) ==
  /\ ~skip_ /\ c # "LF"
  /\ lines_' = IF cr_ THEN LinesWith ELSE lines_
  /\ line_' = (IF cr_ THEN <<>> ELSE line_) \o (IF c \in {"CR", "BS"} THEN <<>> ELSE <<Len(text) + 1>>)
  /\ cr_' = (c = "CR")
  /\ pc' = IF c \in {"CR", "BS"} THEN "recv" ELSE "complete"
  /\ UNCHANGED skip_

\* Faulty variant: the line that ended run() is kept.
CompleteLineKept ==
  /\ pc = "complete" /\ lines_ # <<>>
  /\ \E outcome \in Outcomes(TRUE) :
       /\ Handle(Head(lines_), TRUE, outcome)
       /\ pc' = IF outcome = "stop" THEN "out" ELSE "complete"
       /\ lines_' = IF outcome = "stop" THEN lines_ ELSE Tail(lines_)
  /\ UNCHANGED <<text, cr_, skip_, line_>>

CompleteLine ==
  /\ pc = "complete" /\ lines_ # <<>>
  /\ \E outcome \in Outcomes(TRUE) :
       /\ Handle(Head(lines_), TRUE, outcome)
       /\ pc' = IF outcome = "stop" THEN "out" ELSE "complete"
  /\ lines_' = Tail(lines_)
  /\ UNCHANGED <<text, cr_, skip_, line_>>

\* A line that ends run() is not forgotten: it is offered again, and longer.
PartialLine ==
  /\ pc = "partial" /\ ~Blank(line_)
  /\ \E outcome \in Outcomes(FALSE) :
       /\ Handle(line_, FALSE, outcome)
       /\ pc' = IF outcome = "stop" THEN "out" ELSE "recv"
       /\ skip_' = (outcome = "skip")
       /\ line_' = IF outcome \in {"skip", "next"} THEN <<>> ELSE line_
  /\ UNCHANGED <<text, cr_, lines_>>

BlankLine ==
  /\ \/ pc = "complete" /\ lines_ = <<>> /\ pc' = "partial"
     \/ pc = "partial" /\ Blank(line_) /\ pc' = "recv"
  /\ UNCHANGED <<text, cr_, skip_, line_, lines_, handled>>

-----------------------------------------------------------------------------
(* run(): a character, or the end of the stream.                           *)

ParserRun ==
  /\ pc = "out" /\ pc' = "recv"
  /\ UNCHANGED <<text, cr_, skip_, line_, lines_, handled>>

Parse ==
  /\ pc = "recv" /\ Len(text) < MaxText
  /\ \E c \in Chars :
       /\ text' = Append(text, c)
       /\ Skip(c) \/ EndOfLine(c) \/ Ordinary(c)
  /\ UNCHANGED handled

Failed ==
  /\ pc = "recv" /\ pc' = "out"
  /\ UNCHANGED <<text, cr_, skip_, line_, lines_, handled>>

ParserNext == ParserRun \/ Parse \/ Failed \/ CompleteLine \/ PartialLine \/ BlankLine

ParserSpec == ParserInit /\ [][ParserNext]_parserVars

-----------------------------------------------------------------------------
(* The reference: what a text and the answers of the handlers mean, with   *)
(* sets of positions and no automaton.                                     *)

Asked == Range(handled)

\* Where a handler took the line that had begun, and where it said "skip" or
\* "more", which gives up the rest of it.
Taken == {Max(Range(h.line)) : h \in {g \in Asked : ~g.eol /\ g.outcome \in {"skip", "next"}}}
GivenUp == {Max(Range(h.line)) : h \in {g \in Asked : ~g.eol /\ g.outcome = "skip"}}

\* What a skip drops: everything up to the next line feed, as the comment in
\* parse() says.  A lone carriage return ends a line but not the skip (although
\* state::skip is declared as "skip to end of line"), so the lines between it
\* and that line feed are dropped as well.
Skipped == {p \in 1..Len(text) : \E q \in GivenUp :
  q < p /\ \A r \in (q + 1)..(p - 1) : text[r] # "LF"}

LineEnds == {p \in (1..Len(text)) \ Skipped : text[p] \in {"LF", "CR"}}

\* The characters of the line that p ends.
Line(p) == {q \in (1..(p - 1)) \ Skipped :
  text[q] # "BS" /\ \A r \in q..(p - 1) : r \notin LineEnds \cup Taken}

\* The ends of the complete lines that are not blank.
FullEnds == {p \in LineEnds : \E q \in Line(p) : text[q] = "x"}

InOrder(S) == CHOOSE s \in [1..Cardinality(S) -> S] : \A i, j \in DOMAIN s : i < j => s[i] < s[j]

\* The complete lines that were offered, in the order of the offers.
Complete ==
  LET order == InOrder({i \in DOMAIN handled : handled[i].eol})
  IN [i \in DOMAIN order |-> handled[order[i]].line]

\* And those that are still to be offered.
Seen == Complete \o lines_ \o (IF cr_ /\ ~Blank(line_) THEN <<line_>> ELSE <<>>)

-----------------------------------------------------------------------------
(* Properties                                                              *)

(* Apart from what a skip drops (Skipped, which is more than the rest of a *)
(* line if a lone "\r" ends that line), every complete line that is not    *)
(* blank is offered to the handlers once, in order and whole, whatever     *)
(* ended it ("\n", "\r\n" or "\r") and whenever run() returned in between; *)
(* what is left of the text is the line that has begun.                    *)
LinesHandledOnce ==
  LET ends == InOrder(FullEnds)
  IN /\ Len(Seen) = Len(ends)
     /\ \A i \in 1..Len(Seen) : Seen[i] = InOrder(Line(ends[i]))
     /\ ~cr_ => Range(line_) = Line(Len(text) + 1)

(* A complete line waits for the first character of the next one, and no   *)
(* longer: lines_ never holds two, and the handlers are asked for it       *)
(* before they are asked for the line that has begun.                      *)
LinesWaitForText ==
  /\ Len(lines_) <= 1
  /\ (pc = "partial" \/ (pc \in {"recv", "out"} /\ Blank(line_) = FALSE)) => lines_ = <<>>
  /\ \A i, j \in 1..Len(handled) : i < j =>
       Max(Range(handled[i].line)) <= Max(Range(handled[j].line))

=============================================================================
