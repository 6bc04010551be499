------------------------------ MODULE MCShell -------------------------------
(***************************************************************************)
(* Instances of Shell: the lines typed, and the lines and commands on      *)
(* which the parser is checked.  "e" is echo, "c" cat, "w" wc.  The        *)
(* console that the shell reads from is checked beside it.                 *)
(***************************************************************************)
EXTENDS Shell, ConsoleInput

\* e ecwe|w: more bytes than the counters' range, so that they wrap
Long == <<"e", " ", "e", "c", "w", "e", "|", "w">>
\* e wcw|c: cat copies to the console
Copy == <<"e", " ", "w", "c", "w", "|", "c">>
\* e|c|w: two pipes, and the end of the data passed on
Three == <<"e", "|", "c", "|", "w">>
\* (e w;w)|w: two writers, one after the other, behind one pipe
Group == <<"(", "e", " ", "w", ";", "w", ")", "|", "w">>
\* e w|(w;w): two readers, one after the other
Share == <<"e", " ", "w", "|", "(", "w", ";", "w", ")">>
\* e w|e w c: the reader leaves while the writer may still write
Early == <<"e", " ", "w", "|", "e", " ", "w">>
\* in the background, with redirections, and with a syntax error
Back == <<"e", "&">>
Redirected == <<"e", " ", "w", ">", "w", ";", "w", "<", "w">>
Wrong == <<"(", "e">>

Faulty == {<<Long>>, <<Redirected>>}
TypedLines ==
  {<<Long>>, <<Copy>>, <<Three>>, <<Group>>, <<Share>>, <<Early>>, <<Redirected>>, <<Wrong, Back>>}

\* All lines of up to four characters, and all commands of two operators.
ShortLines == SeqOf(Chars, 4)
SmallCommands ==
  Grow(Grow({execcmd(<<<<"e">>>>), execcmd(<<<<"c", "e">>, <<"w">>>>)}))

\* WordsKept on the short lines: the parser keeps every word of a line it takes.
ShortWordsKept == WordsKept(ShortLines)

\* ParsesAsMeant on the small commands: the parser's grouping is the grammar's.
SmallParseAsMeant == ParsesAsMeant(SmallCommands)

\* The parser and the console's buffer are operators, not parts of this state:
\* their properties are evaluated in the initial states only.

\* parsecmd() and nulterminate() read a line as the shell's grammar has it, and
\* lose no word of it.
ParserRight == Init => ShortWordsKept /\ SmallParseAsMeant

\* consoleintr() and consoleread() lose no input and keep no reader waiting for
\* what is there.
ConsoleRight == Init => InputKept /\ ReaderServed
=============================================================================
