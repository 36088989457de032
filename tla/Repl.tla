-------------------------------- MODULE Repl --------------------------------
(***************************************************************************)
(* The interactive shell (src/cmd/aura/main.go): lines come in, complete   *)
(* statements go to the parser and the session.                            *)
(*                                                                         *)
(* A line is a sequence of characters: the semicolon, the dot that begins  *)
(* a meta-command, white space and any other.  What a statement does is    *)
(* left to the modules Parser and Session: here it comes to a result, to   *)
(* an error of the parser or of the session, to a panic of any layer, or   *)
(* it never returns (module BTree has such a CREATE INDEX).                *)
(***************************************************************************)
EXTENDS Integers, Sequences, SequencesExt, FiniteSets

CONSTANTS Char,     \* characters
          Lines,    \* lines that may be typed
          Files,    \* contents of files that may be read
          MaxText   \* bound: characters fed

Semi  == ";"
Dot   == "."
Blank == " "

\* A text is a sequence of characters.
ASSUME ReplAssumption ==
  /\ {Semi, Dot, Blank} \subseteq Char
  /\ Lines \subseteq Seq(Char) /\ Files \subseteq Seq(Char)
  /\ MaxText \in Nat

VARIABLES buf,      \* REPL.buf: a statement that is not yet terminated
          mode,     \* "read" a line, "drain" the buffer, run a "file"
          rest,     \* what drainStatements or readFile has yet to look at
          ended,    \* "no", how Run ended ("exit", "eof", "error"), or "hung": a statement never returns
          ran,      \* history: the statements run, in order
          text,     \* history: all SQL text typed, and read up to the last semicolon
          misread   \* history: a line was taken for the wrong kind

rvars == <<buf, mode, rest, ended, ran, text, misread>>

(***************************************************************************)
(* Text                                                                    *)
(***************************************************************************)

Positions(s, P(_)) == {i \in DOMAIN s : P(s[i])}
Least(S) == CHOOSE i \in S : \A j \in S : i <= j
Greatest(S) == CHOOSE i \in S : \A j \in S : i >= j

\* strings.TrimSpace
TrimSpace(s) ==
  LET solid == Positions(s, LAMBDA c : c # Blank)
  IN  IF solid = {} THEN <<>> ELSE SubSeq(s, Least(solid), Greatest(solid))

Semis(s) == Positions(s, LAMBDA c : c = Semi)

\* The text before the first semicolon, and after it.
Before(s) == SubSeq(s, 1, Least(Semis(s)) - 1)
After(s) == SubSeq(s, Least(Semis(s)) + 1, Len(s))

\* What comes after the last semicolon.
Remainder(s) ==
  IF Semis(s) = {} THEN s ELSE SubSeq(s, Greatest(Semis(s)) + 1, Len(s))

IsMeta(line) == TrimSpace(line) # <<>> /\ TrimSpace(line)[1] = Dot

(***************************************************************************)
(* Actions                                                                 *)
(***************************************************************************)

Init ==
  /\ buf = <<>>
  /\ mode = "read"
  /\ rest = <<>>
  /\ ended = "no"
  /\ ran = <<>>
  /\ text = <<>>
  /\ misread = FALSE

\* Run waits for a line.
Prompt == mode = "read" /\ ended = "no"

\* feedLine: a meta-command, only when no statement is unfinished.
MetaLine(line) ==
  /\ Prompt
  /\ buf = <<>>
  /\ IsMeta(line)
  /\ misread' = (misread \/ TrimSpace(Remainder(text)) # <<>>)

\* .exit and .quit; an open transaction is warned of and left behind.
handleExit(line) ==
  /\ MetaLine(line)
  /\ ended' = "exit"
  /\ UNCHANGED <<buf, mode, rest, ran, text>>

\* .read of a file.
handleRead(line, file) ==
  /\ MetaLine(line)
  /\ Len(text) + Len(file) <= MaxText
  /\ mode' = "file"
  /\ rest' = file
  /\ text' = text \o SubSeq(file, 1, Len(file) - Len(Remainder(file)))
  /\ UNCHANGED <<buf, ended, ran>>

\* The other meta-commands, and unknown ones, only print.
handleOther(line) ==
  /\ MetaLine(line)
  /\ UNCHANGED <<buf, mode, rest, ended, ran, text>>

\* A line of SQL goes to the buffer, with its newline; blank lines between
\* statements do not.
feedSql(line) ==
  /\ Prompt
  /\ ~(buf = <<>> /\ IsMeta(line))
  /\ ~(buf = <<>> /\ TrimSpace(line) = <<>>)
  /\ Len(text) + Len(line) < MaxText
  /\ buf' = buf \o line \o <<Blank>>
  /\ rest' = buf'
  /\ mode' = "drain"
  /\ text' = text \o line \o <<Blank>>
  /\ misread' = (misread \/ (IsMeta(line) /\ TrimSpace(Remainder(text)) = <<>>))
  /\ UNCHANGED <<ended, ran>>

\* drainStatements or readFile is at the next statement.
AtStatement == mode # "read" /\ ended = "no" /\ Semis(rest) # {}

Statement == TrimSpace(Before(rest))

\* What one statement may come to, when it returns.
Outcome == {"result", "error", "panic"}

\* Mutant: a panic is not recovered from, and ends the program.
crashed(o) == IF o = "panic" THEN "panic" ELSE "no"

\* runOne prints the result or the error, and recovers from a panic.
recovered(o) == "no"

\* Mutant: what follows a statement on its line is dropped.
runLast(o) ==
  /\ AtStatement
  /\ rest' = <<>>
  /\ ran' = IF Statement = <<>> THEN ran ELSE Append(ran, Statement)
  /\ ended' = IF Statement = <<>> THEN ended ELSE recovered(o)
  /\ UNCHANGED <<buf, mode, text, misread>>

\* The loop of drainStatements and of readFile: run the statement before the
\* first semicolon, unless it is blank.
runOne(o) ==
  /\ AtStatement
  /\ rest' = After(rest)
  /\ ran' = IF Statement = <<>> THEN ran ELSE Append(ran, Statement)
  /\ ended' = IF Statement = <<>> THEN ended ELSE recovered(o)
  /\ UNCHANGED <<buf, mode, text, misread>>

\* Session.Exec does not return: the shell stays in the statement.
hangs ==
  /\ AtStatement
  /\ Statement # <<>>
  /\ ended' = "hung"
  /\ UNCHANGED <<buf, mode, rest, ran, text, misread>>

\* Mutant: a blank remainder is kept.
keepAll(s) == s

\* What drainStatements leaves in the buffer: a remainder that is not blank.
keepPartial(s) == IF TrimSpace(s) = <<>> THEN <<>> ELSE s

drained ==
  /\ mode = "drain" /\ ended = "no"
  /\ Semis(rest) = {}
  /\ buf' = keepPartial(rest)
  /\ rest' = <<>>
  /\ mode' = "read"
  /\ UNCHANGED <<ended, ran, text, misread>>

\* readFile ignores what comes after the last semicolon.
fileRead ==
  /\ mode = "file" /\ ended = "no"
  /\ Semis(rest) = {}
  /\ rest' = <<>>
  /\ mode' = "read"
  /\ UNCHANGED <<buf, ended, ran, text, misread>>

\* The scanner has no more lines: end of input, or a line that is too long or
\* cannot be read.  An unfinished statement is dropped.
scanEnds ==
  /\ Prompt
  /\ ended' \in {"eof", "error"}
  /\ UNCHANGED <<buf, mode, rest, ran, text, misread>>

Next ==
  \/ \E line \in Lines :
       \/ handleExit(line)
       \/ \E file \in Files : handleRead(line, file)
       \/ handleOther(line)
       \/ feedSql(line)
  \/ \E o \in Outcome : runOne(o)
  \/ hangs
  \/ drained
  \/ fileRead
  \/ scanEnds

\* drainStatements and readFile are loops of one goroutine.  Nothing forces a
\* statement to return: a hang ends the loop in place of the step.
Spec == Init /\ [][Next]_rvars /\ WF_rvars((\E o \in Outcome : runOne(o)) \/ drained \/ fileRead)

(***************************************************************************)
(* Properties                                                              *)
(***************************************************************************)

\* The text that the semicolon at e ends, trimmed.
Piece(s, e) == TrimSpace(SubSeq(s, Greatest({0} \cup {i \in Semis(s) : i < e}) + 1, e - 1))

\* r lists the pieces of s that are not blank, in order, each once.
ListsPieces(r, s) ==
  \E ends \in [DOMAIN r -> Semis(s)] :
    /\ \A m, n \in DOMAIN r : m < n => ends[m] < ends[n]
    /\ {ends[n] : n \in DOMAIN r} = {e \in Semis(s) : Piece(s, e) # <<>>}
    /\ \A n \in DOMAIN r : r[n] = Piece(s, ends[n])

\* Between two lines, the statements run are those of the whole text so far, in
\* order, each once, and the buffer holds the unfinished one: where the line
\* breaks fall, how many statements are on a line, and whether they were typed or
\* read from a file makes no difference.
StatementsExact ==
  mode = "read" =>
    /\ ListsPieces(ran, text)
    /\ TrimSpace(buf) = TrimSpace(Remainder(text))

\* A line that begins with a dot is a meta-command exactly when no statement is
\* unfinished (drainStatements: a blank remainder "must NOT count as
\* 'mid-statement', or the next line's meta-command would be mis-read as SQL").
NeverMisread == ~misread

\* After every line the shell asks for the next one, whatever its statements came
\* to: no result, error or panic ends the loop (runOne: "one bad statement never
\* kills the REPL"); only a statement that never returns keeps it.
Responds == mode # "read" ~> mode = "read" \/ ended = "hung"
=============================================================================
