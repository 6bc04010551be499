------------------------------- MODULE Parse --------------------------------
(***************************************************************************)
(* The shell's parser (sh.c): a recursive descent over the characters of a *)
(* line.  A word is the pair of its first position and the one after its   *)
(* last (q and eq in the code).  At a syntax error the code calls panic(). *)
(***************************************************************************)
EXTENDS Naturals, Sequences, FiniteSets, SequencesExt

CONSTANTS WordChars, MAXARGS

whitespace == {" "}
symbols == {"<", "|", ">", "&", ";", "(", ")"}
Chars == WordChars \cup whitespace \cup symbols

execcmd(argv) == [type |-> "EXEC", argv |-> argv]
redircmd(cmd, w, fd) == [type |-> "REDIR", cmd |-> cmd, file |-> w, fd |-> fd]
pipecmd(left, right) == [type |-> "PIPE", left |-> left, right |-> right]
listcmd(left, right) == [type |-> "LIST", left |-> left, right |-> right]
backcmd(cmd) == [type |-> "BACK", cmd |-> cmd]

\* The first position from s on whose character is not in cs; Len(line) + 1 is es.
Skip(line, s, cs) ==
  CHOOSE i \in s..Len(line) + 1 :
    /\ i <= Len(line) => line[i] \notin cs
    /\ \A j \in s..i - 1 : line[j] \in cs

\* What is at position s: a character, or the NUL at the end.
At(line, s) == IF s <= Len(line) THEN line[s] ELSE "NUL"

\* gettoken(): its value ("a" for a word, "+" for >>), the word, and the new *ps.
gettoken(line, s) ==
  LET q  == Skip(line, s, whitespace)
      c  == At(line, q)
      eq == CASE c = "NUL" -> q
              [] c = ">" /\ At(line, q + 1) = ">" -> q + 2
              [] c \in symbols -> q + 1
              [] OTHER -> Skip(line, q, WordChars)
  IN  [tok |-> IF c \in WordChars THEN "a" ELSE IF eq = q + 2 THEN "+" ELSE c,
       word |-> <<q, eq>>, s |-> Skip(line, eq, whitespace)]

\* peek(): whether one of toks comes next; *ps moves past white space.
peek(line, s, toks) == At(line, Skip(line, s, whitespace)) \in toks

\* What a parsing function returns: a value and the new *ps, or a panic().  Then()
\* goes on with a result unless it is a panic.
Ok(val, s) == [val |-> val, s |-> s, ok |-> TRUE]
panic == [val |-> <<>>, s |-> 0, ok |-> FALSE]
Then(result, F(_)) == CHOOSE x \in {IF r.ok THEN F(r) ELSE r : r \in {result}} : TRUE

\* The position after the next token
Past(line, s) == gettoken(line, s).s

RECURSIVE parseline(_, _), parsepipe(_, _), parseredirs(_, _, _), parseargs(_, _, _, _)

\* parseredirs(): each redirection is a word and a descriptor, added to rs.
Redir(line, s) ==
  LET t == gettoken(line, s)
      f == gettoken(line, t.s)
  IN  IF f.tok = "a" THEN Ok(<<f.word, IF t.tok = "<" THEN 0 ELSE 1>>, f.s) ELSE panic

parseredirs(rs, line, s) ==
  IF ~ peek(line, s, {"<", ">"}) THEN Ok(rs, s)
  ELSE Then(Redir(line, s), LAMBDA f : parseredirs(Append(rs, f.val), line, f.s))

\* redircmd() wraps the command for the first redirection first.
Wrap(cmd, rs) == FoldLeft(LAMBDA c, r : redircmd(c, r[1], r[2]), cmd, rs)

\* The loop of parseexec(), with its arguments and redirections so far.
ArgsEnd(line, s) == peek(line, s, {"|", ")", "&", ";"}) \/ gettoken(line, s).tok = "NUL"
TakeArg(argv, line, s) ==
  LET t == gettoken(line, s)
  IN  IF t.tok = "a" /\ Len(argv) + 1 < MAXARGS THEN Ok(Append(argv, t.word), t.s) ELSE panic

parseargs(argv, rs, line, s) ==
  Then(parseredirs(rs, line, s), LAMBDA r :
    IF ArgsEnd(line, r.s) THEN Ok(Wrap(execcmd(argv), r.val), r.s)
    ELSE Then(TakeArg(argv, line, r.s), LAMBDA a : parseargs(a.val, r.val, line, a.s)))

parseblock(line, s) ==
  Then(parseline(line, Past(line, s)), LAMBDA c :
    IF ~ peek(line, c.s, {")"}) THEN panic
    ELSE Then(parseredirs(<<>>, line, Past(line, c.s)), LAMBDA r : Ok(Wrap(c.val, r.val), r.s)))

parseexec(line, s) ==
  IF peek(line, s, {"("}) THEN parseblock(line, s) ELSE parseargs(<<>>, <<>>, line, s)

\* Mutant: the right-hand side of a pipe is a whole line.
PipeLine(line, s) ==
  Then(parseexec(line, s), LAMBDA l :
    IF ~ peek(line, l.s, {"|"}) THEN l
    ELSE Then(parseline(line, Past(line, l.s)), LAMBDA r : Ok(pipecmd(l.val, r.val), r.s)))

parsepipe(line, s) ==
  Then(parseexec(line, s), LAMBDA l :
    IF ~ peek(line, l.s, {"|"}) THEN l
    ELSE Then(parsepipe(line, Past(line, l.s)), LAMBDA r : Ok(pipecmd(l.val, r.val), r.s)))

\* The loop over "&" in parseline().
RECURSIVE parsebacks(_, _)
parsebacks(line, c) ==
  IF ~ peek(line, c.s, {"&"}) THEN c
  ELSE Then(Ok(backcmd(c.val), Past(line, c.s)), LAMBDA b : parsebacks(line, b))

parseline(line, s) ==
  Then(Then(parsepipe(line, s), LAMBDA c : parsebacks(line, c)), LAMBDA l :
    IF ~ peek(line, l.s, {";"}) THEN l
    ELSE Then(parseline(line, Past(line, l.s)), LAMBDA r : Ok(listcmd(l.val, r.val), r.s)))

Leftovers(line, s) == Skip(line, s, whitespace) # Len(line) + 1

\* parsecmd(), without nulterminate()
parsecmd(line) ==
  Then(parseline(line, 1), LAMBDA r : IF Leftovers(line, r.s) THEN panic ELSE r)

\* nulterminate(): the positions where it puts a NUL.
RECURSIVE nulterminate(_)
nulterminate(cmd) ==
  CASE cmd.type = "EXEC" -> {cmd.argv[i][2] : i \in DOMAIN cmd.argv}
    [] cmd.type = "REDIR" -> nulterminate(cmd.cmd) \cup {cmd.file[2]}
    [] cmd.type \in {"PIPE", "LIST"} -> nulterminate(cmd.left) \cup nulterminate(cmd.right)
    [] cmd.type = "BACK" -> nulterminate(cmd.cmd)

\* The C string that starts at position q, NULs being at the positions zs.
CString(line, zs, q) ==
  SubSeq(line, q, (CHOOSE i \in q..Len(line) + 1 :
                     /\ i \in zs \cup {Len(line) + 1}
                     /\ \A j \in q..i - 1 : j \notin zs) - 1)
-----------------------------------------------------------------------------
\* Properties

\* The words of a command, and the words of a line.
RECURSIVE Words(_)
Words(cmd) ==
  CASE cmd.type = "EXEC" -> ToSet(cmd.argv)
    [] cmd.type = "REDIR" -> Words(cmd.cmd) \cup {cmd.file}
    [] cmd.type \in {"PIPE", "LIST"} -> Words(cmd.left) \cup Words(cmd.right)
    [] cmd.type = "BACK" -> Words(cmd.cmd)

LineWords(line) ==
  {<<q, eq>> \in (1..Len(line)) \X (1..Len(line) + 1) :
     /\ q < eq /\ \A i \in q..eq - 1 : line[i] \in WordChars
     /\ At(line, eq) \notin WordChars
     /\ q > 1 => line[q - 1] \notin WordChars}

\* Whatever line the parser takes, the command it builds has exactly the words of
\* the line, and after nulterminate() each is a string that ends where the word
\* does, although the NULs go over the characters that follow.
WordsKept(lines) ==
  \A line \in lines :
    \A r \in {parsecmd(line)} :
      r.ok => /\ Words(r.val) = LineWords(line)
              /\ \A w \in LineWords(line) :
                   CString(line, nulterminate(r.val), w[1]) = SubSeq(line, w[1], w[2] - 1)

\* Commands with their words written out, and how a user types them.
RECURSIVE Spelled(_, _)
Spelled(cmd, line) ==
  LET str(w) == SubSeq(line, w[1], w[2] - 1)
  IN  CASE cmd.type = "EXEC" -> execcmd([i \in DOMAIN cmd.argv |-> str(cmd.argv[i])])
        [] cmd.type = "REDIR" -> redircmd(Spelled(cmd.cmd, line), str(cmd.file), cmd.fd)
        [] cmd.type = "PIPE" -> pipecmd(Spelled(cmd.left, line), Spelled(cmd.right, line))
        [] cmd.type = "LIST" -> listcmd(Spelled(cmd.left, line), Spelled(cmd.right, line))
        [] cmd.type = "BACK" -> backcmd(Spelled(cmd.cmd, line))

\* Binding strength of a command: 1 a line, 2 a line before ";", 3 a pipeline,
\* 4 a single command.
Level(cmd) == CASE cmd.type = "LIST" -> 1 [] cmd.type = "BACK" -> 2
                [] cmd.type = "PIPE" -> 3 [] OTHER -> 4

RECURSIVE Typed(_), TypedAt(_, _)
TypedAt(cmd, n) == IF Level(cmd) >= n THEN Typed(cmd) ELSE <<"(">> \o Typed(cmd) \o <<")">>
Typed(cmd) ==
  CASE cmd.type = "EXEC" -> FlattenSeq([i \in DOMAIN cmd.argv |-> <<" ">> \o cmd.argv[i]])
    [] cmd.type = "REDIR" -> TypedAt(cmd.cmd, 4) \o (IF cmd.fd = 0 THEN <<"<">> ELSE <<">", ">">>) \o cmd.file
    [] cmd.type = "PIPE" -> TypedAt(cmd.left, 4) \o <<"|">> \o TypedAt(cmd.right, 3)
    [] cmd.type = "LIST" -> TypedAt(cmd.left, 2) \o <<";">> \o TypedAt(cmd.right, 1)
    [] cmd.type = "BACK" -> TypedAt(cmd.cmd, 2) \o <<"&">>

\* Commands built from cs by one more operator.
Grow(cs) ==
  cs \cup {redircmd(c, <<w>>, fd) : c \in cs, w \in WordChars, fd \in {0, 1}}
     \cup {pipecmd(c, d) : c \in cs, d \in cs} \cup {listcmd(c, d) : c \in cs, d \in cs}
     \cup {backcmd(c) : c \in cs}

\* The parser understands a line as it was meant: | binds more than &, & more than
\* ;, both | and ; group to the right, and parentheses group.
ParsesAsMeant(cmds) ==
  \A c \in cmds : \A line \in {Typed(c)} : Spelled(parsecmd(line).val, line) = c
=============================================================================
