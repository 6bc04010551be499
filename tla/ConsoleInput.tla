---------------------------- MODULE ConsoleInput ----------------------------
(***************************************************************************)
(* The console's input buffer, console.c: consoleintr() edits the line     *)
(* being typed, consoleread() takes what is complete, and both hold        *)
(* cons.lock for as long as they run.  A terminal is a record: the buffer  *)
(* with its unsigned indices r, w and e, the read under way, and, to       *)
(* compare with, the complete text (queue) and the line being typed.       *)
(***************************************************************************)
EXTENDS Integers, Sequences, SequencesExt

CONSTANTS
  INPUTBUF,  \* INPUT_BUF
  IndexMod,  \* the indices wrap here, at a multiple of INPUT_BUF
  ReadSizes, \* the sizes of the reads to try
  MaxKeys    \* how many keys, reads and kills in a row

Sub(a, b) == (a + IndexMod - b) % IndexMod
Inc(a) == (a + 1) % IndexMod
NoReader == [n |-> 0, target |-> 0, asleep |-> FALSE]
NoInput ==
  [buf |-> [k \in 0..INPUTBUF - 1 |-> "a"], r |-> 0, w |-> 0, e |-> 0, reader |-> NoReader,
   queue |-> <<>>, line |-> <<>>, wrong |-> FALSE]

\* consoleread(), from where it looks at the buffer: it sleeps on an empty one, ends
\* at a newline or at ^D, and leaves a ^D that ends a read with bytes for the next.
RECURSIVE ReadOn(_)
ReadOn(t) ==
  LET rd == t.reader
      c == t.buf[t.r % INPUTBUF]
      taken == [t EXCEPT !.r = Inc(@), !.queue = Tail(@), !.wrong = @ \/ Head(t.queue) # c]
  IN  IF rd.n = 0 THEN [t EXCEPT !.reader = NoReader]
      ELSE IF t.r = t.w THEN [t EXCEPT !.reader.asleep = TRUE]
      ELSE IF t.queue = <<>> THEN [t EXCEPT !.wrong = TRUE]
      ELSE IF c = "^D" /\ rd.n < rd.target THEN [t EXCEPT !.reader = NoReader]
      ELSE IF c \in {"^D", "nl"} THEN [taken EXCEPT !.reader = NoReader]
      ELSE ReadOn([taken EXCEPT !.reader.n = @ - 1])

Read(t, n) == IF t.reader = NoReader THEN ReadOn([t EXCEPT !.reader = [NoReader EXCEPT !.n = n, !.target = n]]) ELSE t

\* A killed reader wakes up and returns -1.
KillReader(t) == IF t.reader.asleep THEN [t EXCEPT !.reader = NoReader] ELSE t

wakeupReader(t) == IF t.reader.asleep THEN ReadOn([t EXCEPT !.reader.asleep = FALSE]) ELSE t

\* The line is complete: at a newline, at ^D, or when the buffer is full
Completes(t, c) == c \in {"nl", "^D"} \/ t.e = (t.r + INPUTBUF) % IndexMod

\* Mutant: one more than fits.
FullLate(t) == Sub(t.e, t.r) > INPUTBUF

Full(t) == Sub(t.e, t.r) >= INPUTBUF

\* An ordinary character: dropped if the buffer is full
Default(t, key) ==
  LET c == IF key = "cr" THEN "nl" ELSE key
      put == [t EXCEPT !.buf[t.e % INPUTBUF] = c, !.e = Inc(@), !.line = Append(@, c)]
  IN  IF Full(t) THEN t
      ELSE IF Completes(put, c)
           THEN wakeupReader([put EXCEPT !.w = put.e, !.queue = @ \o put.line, !.line = <<>>])
           ELSE put

RECURSIVE KillLine(_)
KillLine(t) ==
  IF t.e # t.w /\ t.buf[Sub(t.e, 1) % INPUTBUF] # "nl" THEN KillLine([t EXCEPT !.e = Sub(@, 1)]) ELSE t

Backspace(t) == IF t.e # t.w THEN [t EXCEPT !.e = Sub(@, 1)] ELSE t

consoleintr(t, key) ==
  CASE key = "^U" -> [KillLine(t) EXCEPT !.line = <<>>]
    [] key = "^H" -> [Backspace(t) EXCEPT !.line = IF @ = <<>> THEN @ ELSE Front(@)]
    [] OTHER -> Default(t, key)

RECURSIVE Terminals(_)
Terminals(k) ==
  IF k = 0 THEN {NoInput}
  ELSE UNION {{t, KillReader(t)} \cup {Read(t, n) : n \in ReadSizes}
                \cup {consoleintr(t, key) : key \in {"a", "b", "cr", "nl", "^D", "^U", "^H"}} :
              t \in Terminals(k - 1)}

AllTerminals == Terminals(MaxKeys)

Text(t, from, to) == [k \in 1..Sub(to, from) |-> t.buf[((from + k - 1) % IndexMod) % INPUTBUF]]

\* However keys, reads and kills alternate, and although the indices wrap: the buffer
\* holds the complete lines that nobody has read and then the line as it is edited,
\* and a read gets their characters in order, once.
InputKept ==
  \A t \in AllTerminals :
    ~ t.wrong /\ Text(t, t.r, t.w) = t.queue /\ Text(t, t.w, t.e) = t.line

\* A reader never sleeps while there is a complete line, and the buffer is never full
\* of a line that cannot be completed.
ReaderServed ==
  \A t \in AllTerminals :
    /\ t.reader.asleep => t.queue = <<>>
    /\ Len(t.line) < INPUTBUF
=============================================================================
