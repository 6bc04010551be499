------------------------------- MODULE Shell --------------------------------
(***************************************************************************)
(* What the shell does with a line: runcmd() and main() (sh.c) over fork,  *)
(* exec, wait and exit, the file table (file.c, the descriptor calls of    *)
(* sysfile.c) and pipes (pipe.c), with echo, cat and wc as the commands    *)
(* and init (init.c) as the parent of orphans.                             *)
(*                                                                         *)
(* code[p] is the sequence of calls process p has still to make; runcmd()  *)
(* translates a command into it.  One step is one critical section of      *)
(* ftable.lock, of a pipe's lock or of ptable.lock.  A process that waits  *)
(* in piperead() or pipewrite() is "sleep"; a wakeup makes it "kernel",    *)
(* still inside the call.  At most one thing goes wrong in a behaviour by  *)
(* the environment's choice: a kill, or an allocation that fails.          *)
(***************************************************************************)
EXTENDS Parse, Integers, FiniteSetsExt, TLC

CONSTANTS
  NPROC, NFILE, NPAGES,  \* processes, file structures, pages for pipes
  NOFILES,               \* the descriptors per process to try
  PIPESIZE, CtrMod,      \* the counters wrap at CtrMod, a multiple of PIPESIZE
  Inputs,                \* the sequences of lines typed
  FaultyInputs           \* those with which something goes wrong

ASSUME CtrAssumption == CtrMod % PIPESIZE = 0 /\ CtrMod > PIPESIZE

VARIABLES st, code, parent, killed, ofile, pfd, file, pipe, input, lines, console, trouble
vars == <<st, code, parent, killed, ofile, pfd, file, pipe, input, lines, console, trouble>>

Procs == 1..NPROC
Files == 1..NFILE
Pages == 1..NPAGES
init == 1
sh == 2

\* The descriptors in p[0] and p[1] of runcmd().
P0 == -1
P1 == -2

Exit == <<<<"exit">>>>

\* Mutant: the right-hand child keeps the pipe's write end open.
RightChildKeeps == <<<<"close", 0>>, <<"dup", P0>>, <<"close", P0>>>>

\* Mutant: dup() comes before close(1).
LeftChildSwapped == <<<<"dup", P1>>, <<"close", 1>>, <<"close", P0>>, <<"close", P1>>>>

LeftChild == <<<<"close", 1>>, <<"dup", P1>>, <<"close", P0>>, <<"close", P1>>>>
RightChild == <<<<"close", 0>>, <<"dup", P0>>, <<"close", P0>>, <<"close", P1>>>>

\* runcmd(): the calls a command comes to.  Words are strings by now.
RECURSIVE runcmd(_)
runcmd(cmd) ==
  CASE cmd.type = "EXEC" -> IF cmd.argv = <<>> THEN Exit ELSE <<<<"exec", cmd.argv>>>>
    [] cmd.type = "REDIR" -> <<<<"close", cmd.fd>>, <<"open", cmd.fd>>>> \o runcmd(cmd.cmd)
    [] cmd.type = "LIST" -> <<<<"fork", runcmd(cmd.left)>>, <<"wait">>>> \o runcmd(cmd.right)
    [] cmd.type = "PIPE" ->
         <<<<"pipe", <<>>>>, <<"fork", LeftChild \o runcmd(cmd.left)>>,
           <<"fork", RightChild \o runcmd(cmd.right)>>,
           <<"close", P0>>, <<"close", P1>>, <<"wait">>, <<"wait">>>> \o Exit
    [] cmd.type = "BACK" -> <<<<"fork", runcmd(cmd.cmd)>>>> \o Exit

\* main(): a line is run in a child, which also parses it, and waited for; after a
\* syntax error the child just exits, as it does for an empty command.
shmain == <<<<"getcmd">>>>
Lines == UNION {ToSet(i) : i \in Inputs}
Command == [line \in Lines |-> IF parsecmd(line).ok THEN Spelled(parsecmd(line).val, line) ELSE execcmd(<<>>)]
RunLine == [line \in Lines |-> <<<<"fork", runcmd(Command[line])>>, <<"wait">>>> \o shmain]

\* The programs: echo writes its arguments byte by byte and ignores errors; cat
\* and wc read descriptor 0, and of its three counts wc writes that of bytes.
Line(argv) ==
  FlattenSeq([i \in DOMAIN argv |-> argv[i] \o <<IF i < Len(argv) THEN " " ELSE "\n">>])
echo(argv) ==
  LET bytes == Line(Tail(argv)) IN [i \in DOMAIN bytes |-> <<"write", <<bytes[i]>>, FALSE>>] \o Exit
cat == <<<<"cat">>>>
wc(c) == <<<<"wc", c>>>>


\* exec(): what replaces the process, if there is such a program.
Program(argv) ==
  CASE argv[1] = <<"e">> -> echo(argv)
    [] argv[1] = <<"c">> -> cat
    [] argv[1] = <<"w">> -> wc(0)
    [] OTHER -> Exit
-----------------------------------------------------------------------------
NoFile == [ref |-> 0, type |-> "none", page |-> 0, readable |-> FALSE, writable |-> FALSE]
Console == [ref |-> 6, type |-> "inode", page |-> 0, readable |-> TRUE, writable |-> TRUE]
NoPipe == [used |-> FALSE, readopen |-> FALSE, writeopen |-> FALSE, nread |-> 0, nwrite |-> 0,
           data |-> [i \in 0..PIPESIZE - 1 |-> " "], sent |-> <<>>, got |-> 0]

\* init and the shell it started share the console, open as 0, 1 and 2.
Init ==
  /\ \E n \in NOFILES :
       ofile = [p \in Procs |-> [fd \in 0..n - 1 |-> IF p <= sh /\ fd <= 2 THEN 1 ELSE 0]]
  /\ st = [p \in Procs |-> IF p <= sh THEN "run" ELSE "unused"]
  /\ code = [p \in Procs |-> IF p = init THEN <<<<"reap", sh>>>>
                             ELSE IF p = sh THEN shmain ELSE <<>>]
  /\ parent = [p \in Procs |-> init]
  /\ killed = [p \in Procs |-> FALSE]
  /\ pfd = [p \in Procs |-> <<0, 0>>]
  /\ file = [f \in Files |-> IF f = 1 THEN Console ELSE NoFile]
  /\ pipe = [k \in Pages |-> NoPipe]
  /\ input \in Inputs /\ lines = 0
  /\ console = <<>>
  /\ trouble = FALSE
-----------------------------------------------------------------------------
op(p) == Head(code[p])[1]
arg(p) == Head(code[p])[2]
rest(p) == Tail(code[p])
FD(p, x) == IF x < 0 THEN pfd[p][-x] ELSE x

\* A kill is noticed on the way into and out of a system call (trap.c), not
\* inside close, exit or a pipe() that has begun.
InCall(p) == op(p) \in {"fileclose", "pipeclose", "exit"} \/ (op(p) = "pipe" /\ arg(p) # <<>>)
Calls(p, o) == st[p] = "run" /\ op(p) = o /\ (killed[p] => InCall(p))

Goto(p, c) == code' = [code EXCEPT ![p] = c]
Mishap == ~ trouble /\ input \in FaultyInputs
FreeFds(p) == {fd \in DOMAIN ofile[p] : ofile[p][fd] = 0}
FreeFiles == {f \in Files : file[f].ref = 0}

Getcmd(p) ==
  /\ Calls(p, "getcmd") /\ lines < Len(input)
  /\ lines' = lines + 1
  /\ Goto(p, RunLine[input[lines + 1]])
  /\ UNCHANGED <<st, parent, killed, ofile, pfd, file, pipe, input, console, trouble>>

\* The copies of the descriptors count as references.
Dup(fs, ofs) == [f \in Files |-> [fs[f] EXCEPT !.ref = @ + Cardinality({fd \in DOMAIN ofs : ofs[fd] = f})]]

\* fork(): the child runs in the first unused slot; init remembers which child is
\* the shell.
Unused == {q \in Procs : st[q] = "unused"}
Fork(p) ==
  LET q == Min(Unused) IN
  /\ Calls(p, "fork") /\ Unused # {}
  /\ st' = [st EXCEPT ![q] = "run"]
  /\ code' = [code EXCEPT ![q] = arg(p), ![p] = IF p = init THEN <<<<"reap", q>>>> ELSE rest(p)]
  /\ parent' = [parent EXCEPT ![q] = p]
  /\ ofile' = [ofile EXCEPT ![q] = ofile[p]]
  /\ pfd' = [pfd EXCEPT ![q] = pfd[p]]
  /\ file' = Dup(file, ofile[p])
  /\ UNCHANGED <<killed, pipe, input, lines, console, trouble>>

\* fork1() panics when there is no process or no memory, and the caller exits.
ForkFails(p) ==
  /\ Calls(p, "fork") /\ p # init
  /\ Unused = {} \/ Mishap
  /\ trouble' = TRUE
  /\ Goto(p, Exit)
  /\ UNCHANGED <<st, parent, killed, ofile, pfd, file, pipe, input, lines, console>>

Exec(p) ==
  /\ Calls(p, "exec")
  /\ Goto(p, Program(arg(p)))
  /\ UNCHANGED <<st, parent, killed, ofile, pfd, file, pipe, input, lines, console, trouble>>

\* wait(): reaps one child that has exited; returns at once without children.
Zombies(p) == {q \in Procs : st[q] = "zombie" /\ parent[q] = p}
Children(p) == {q \in Procs \ {init} : st[q] # "unused" /\ parent[q] = p}
Free(q) == st' = [st EXCEPT ![q] = "unused"] /\ killed' = [killed EXCEPT ![q] = FALSE]
Wait(p) ==
  /\ st[p] = "run" /\ op(p) = "wait"
  /\ Zombies(p) # {} \/ Children(p) = {}
  /\ IF Zombies(p) = {} THEN UNCHANGED <<st, killed>> ELSE \E q \in Zombies(p) : Free(q)
  /\ Goto(p, rest(p))
  /\ UNCHANGED <<parent, ofile, pfd, file, pipe, input, lines, console, trouble>>

\* init's loop: it reaps orphans, and starts a new shell when the shell is gone.
Reap(q) ==
  /\ op(init) = "reap" /\ q \in Zombies(init)
  /\ Free(q)
  /\ Goto(init, IF q = arg(init) THEN <<<<"fork", shmain>>>> ELSE code[init])
  /\ UNCHANGED <<parent, ofile, pfd, file, pipe, input, lines, console, trouble>>
-----------------------------------------------------------------------------
\* sys_dup()
DupFd(p) ==
  LET f == ofile[p][FD(p, arg(p))]
      fd == Min(FreeFds(p))
  IN  /\ Calls(p, "dup")
      /\ IF f = 0 \/ FreeFds(p) = {} THEN UNCHANGED <<ofile, file>>
         ELSE /\ ofile' = [ofile EXCEPT ![p][fd] = f]
              /\ file' = [file EXCEPT ![f].ref = @ + 1]
      /\ Goto(p, rest(p))
      /\ UNCHANGED <<st, parent, killed, pfd, pipe, input, lines, console, trouble>>

\* sys_close()
Close(p) ==
  LET fd == FD(p, arg(p)) IN
  /\ Calls(p, "close")
  /\ ofile' = [ofile EXCEPT ![p][fd] = 0]
  /\ Goto(p, IF ofile[p][fd] = 0 THEN rest(p) ELSE <<<<"fileclose", ofile[p][fd]>>>> \o rest(p))
  /\ UNCHANGED <<st, parent, killed, pfd, file, pipe, input, lines, console, trouble>>

\* sys_open() of a file that is read or created; without a file structure or a
\* descriptor it fails and runcmd() exits.
Open(p) ==
  LET f == Min(FreeFiles) IN
  /\ Calls(p, "open") /\ FreeFiles # {} /\ FreeFds(p) # {}
  /\ ofile' = [ofile EXCEPT ![p][Min(FreeFds(p))] = f]
  /\ file' = [file EXCEPT ![f] = [ref |-> 1, type |-> "inode", page |-> 0,
                                 readable |-> arg(p) = 0, writable |-> arg(p) = 1]]
  /\ Goto(p, rest(p))
  /\ UNCHANGED <<st, parent, killed, pfd, pipe, input, lines, console, trouble>>

OpenFails(p) ==
  /\ Calls(p, "open")
  /\ FreeFiles = {} \/ FreeFds(p) = {} \/ Mishap
  /\ trouble' = TRUE
  /\ Goto(p, Exit)
  /\ UNCHANGED <<st, parent, killed, ofile, pfd, file, pipe, input, lines, console>>

\* Mutant: the pipe's end is closed with any descriptor of it.
EndsWithAny(f) == file[f].type = "pipe"

\* fileclose(): under ftable.lock; the last reference leaves the pipe's end to
\* be closed under the pipe's lock.
EndsWith(f) == file[f].ref = 1 /\ file[f].type = "pipe"
Fileclose(p) ==
  LET f == arg(p) IN
  /\ Calls(p, "fileclose")
  /\ file' = [file EXCEPT ![f] = IF @.ref = 1 THEN NoFile ELSE [@ EXCEPT !.ref = @ - 1]]
  /\ Goto(p, IF EndsWith(f) THEN <<<<"pipeclose", file[f].page, file[f].writable>>>> \o rest(p)
             ELSE rest(p))
  /\ UNCHANGED <<st, parent, killed, ofile, pfd, pipe, input, lines, console, trouble>>

\* exit(): closes the descriptors one by one; then the children go to init.
ExitClose(p) ==
  LET fd == Min({x \in DOMAIN ofile[p] : ofile[p][x] # 0}) IN
  /\ Calls(p, "exit") /\ \E x \in DOMAIN ofile[p] : ofile[p][x] # 0
  /\ ofile' = [ofile EXCEPT ![p][fd] = 0]
  /\ Goto(p, <<<<"fileclose", ofile[p][fd]>>>> \o Exit)
  /\ UNCHANGED <<st, parent, killed, pfd, file, pipe, input, lines, console, trouble>>

ExitZombie(p) ==
  /\ Calls(p, "exit") /\ \A x \in DOMAIN ofile[p] : ofile[p][x] = 0
  /\ st' = [st EXCEPT ![p] = "zombie"]
  /\ Goto(p, <<>>)
  /\ parent' = [q \in Procs |-> IF parent[q] = p THEN init ELSE parent[q]]
  /\ UNCHANGED <<killed, ofile, pfd, file, pipe, input, lines, console, trouble>>

\* A killed process exits; kill() makes a sleeping one run.
KilledExit(p) ==
  /\ st[p] = "run" /\ killed[p] /\ ~ InCall(p)
  /\ Goto(p, Exit)
  /\ UNCHANGED <<st, parent, killed, ofile, pfd, file, pipe, input, lines, console, trouble>>

Kill(p) ==
  /\ p # init /\ st[p] \in {"run", "kernel", "sleep"} /\ Mishap
  /\ killed' = [killed EXCEPT ![p] = TRUE]
  /\ st' = [st EXCEPT ![p] = IF @ = "sleep" THEN "kernel" ELSE @]
  /\ trouble' = TRUE
  /\ UNCHANGED <<code, parent, ofile, pfd, file, pipe, input, lines, console>>
-----------------------------------------------------------------------------
\* pipealloc() and sys_pipe(): two file structures, a page, two descriptors; when
\* one of them is missing, the others are given back and runcmd() exits.
Closes(fs) == [i \in DOMAIN fs |-> <<"fileclose", fs[i]>>]

PipeFile(p) ==
  LET f == Min(FreeFiles) IN
  /\ Calls(p, "pipe") /\ Len(arg(p)) < 2 /\ FreeFiles # {}
  /\ file' = [file EXCEPT ![f].ref = 1]
  /\ Goto(p, <<<<"pipe", Append(arg(p), f)>>>> \o rest(p))
  /\ UNCHANGED <<st, parent, killed, ofile, pfd, pipe, input, lines, console, trouble>>

FreePages == {k \in Pages : ~ pipe[k].used}
PipeFails(p) ==
  /\ Calls(p, "pipe")
  /\ IF Len(arg(p)) < 2 THEN FreeFiles = {} ELSE FreePages = {} \/ Mishap
  /\ trouble' = TRUE
  /\ Goto(p, Closes(arg(p)) \o Exit)
  /\ UNCHANGED <<st, parent, killed, ofile, pfd, file, pipe, input, lines, console>>

End(k, w) == [ref |-> 1, type |-> "pipe", page |-> k, readable |-> ~ w, writable |-> w]
PipePage(p) ==
  LET k == Min(FreePages)
      rf == arg(p)[1]
      wf == arg(p)[2]
      fd0 == Min(FreeFds(p))
      fd1 == Min(FreeFds(p) \ {fd0})
  IN  /\ Calls(p, "pipe") /\ Len(arg(p)) = 2 /\ FreePages # {}
      /\ pipe' = [pipe EXCEPT ![k] = [NoPipe EXCEPT !.used = TRUE, !.readopen = TRUE, !.writeopen = TRUE]]
      /\ file' = [file EXCEPT ![rf] = End(k, FALSE), ![wf] = End(k, TRUE)]
      /\ IF Cardinality(FreeFds(p)) >= 2
         THEN /\ ofile' = [ofile EXCEPT ![p][fd0] = rf, ![p][fd1] = wf]
              /\ pfd' = [pfd EXCEPT ![p] = <<fd0, fd1>>]
              /\ Goto(p, rest(p))
              /\ UNCHANGED trouble
         ELSE /\ Goto(p, Closes(arg(p)) \o Exit)
              /\ trouble' = TRUE
              /\ UNCHANGED <<ofile, pfd>>
      /\ UNCHANGED <<st, parent, killed, input, lines, console>>

\* Who sleeps on &p->nread or &p->nwrite of the pipe in page k.
Channel(p) == IF op(p) = "write" THEN <<"nwrite", file[ofile[p][1]].page>>
              ELSE <<"nread", file[ofile[p][0]].page>>
wakeup(chan) == [q \in Procs |-> IF st[q] = "sleep" /\ Channel(q) = chan THEN "kernel" ELSE st[q]]

\* Mutant: a reader is not woken when the last writer closes.
WokenByWriter(k, w) == IF w THEN st ELSE wakeup(<<"nwrite", k>>)

WokenByClose(k, w) == IF w THEN wakeup(<<"nread", k>>) ELSE wakeup(<<"nwrite", k>>)

Pipeclose(p) ==
  LET k == arg(p)
      w == Head(code[p])[3]
      P == IF w THEN [pipe[k] EXCEPT !.writeopen = FALSE] ELSE [pipe[k] EXCEPT !.readopen = FALSE]
  IN  /\ Calls(p, "pipeclose")
      /\ pipe' = [pipe EXCEPT ![k] = IF P.readopen \/ P.writeopen THEN P ELSE NoPipe]
      /\ st' = WokenByClose(k, w)
      /\ Goto(p, rest(p))
      /\ UNCHANGED <<parent, killed, ofile, pfd, file, input, lines, console, trouble>>
-----------------------------------------------------------------------------
\* sys_read() and sys_write() have entered, or are woken in, the call.
Running(p) == (st[p] = "run" /\ ~ killed[p]) \/ st[p] = "kernel"
Return(p, c, awake) == st' = [awake EXCEPT ![p] = "run"] /\ Goto(p, c)

\* What cat and wc do with the n bytes read; n < 0 is an error.
AfterRead(p, n, bytes) ==
  CASE op(p) = "cat" /\ n > 0 -> <<<<"write", bytes, TRUE>>>> \o cat
    [] op(p) = "wc" /\ n > 0 -> wc(arg(p) + n)
    [] op(p) = "wc" /\ n = 0 -> <<<<"write", <<ToString(arg(p))>>, FALSE>>>> \o Exit
    [] OTHER -> Exit

PipeRead(f) == f # 0 /\ file[f].type = "pipe" /\ file[f].readable
PipeWrite(f) == f # 0 /\ file[f].type = "pipe" /\ file[f].writable

\* The files read by name are empty, and whoever is at the console types ^D.
ReadFile(p) ==
  LET f == ofile[p][0] IN
  /\ Running(p) /\ op(p) \in {"cat", "wc"} /\ ~ PipeRead(f)
  /\ Return(p, AfterRead(p, IF f # 0 /\ file[f].readable THEN 0 ELSE -1, <<>>), st)
  /\ UNCHANGED <<parent, killed, ofile, pfd, file, pipe, input, lines, console, trouble>>

Held(P) == (P.nwrite - P.nread) % CtrMod

Piperead(p) ==
  LET f == ofile[p][0]
      k == file[f].page
      P == pipe[k]
      n == Held(P)
      bytes == [i \in 1..n |-> P.data[(P.nread + i - 1) % PIPESIZE]]
  IN  /\ Running(p) /\ op(p) \in {"cat", "wc"} /\ PipeRead(f)
      /\ IF n = 0 /\ P.writeopen
         THEN /\ IF killed[p] THEN Return(p, AfterRead(p, -1, <<>>), st)
                 ELSE st' = [st EXCEPT ![p] = "sleep"] /\ UNCHANGED code
              /\ UNCHANGED pipe
         ELSE /\ pipe' = [pipe EXCEPT ![k].nread = P.nwrite, ![k].got = @ + n]
              /\ Return(p, AfterRead(p, n, bytes), wakeup(<<"nwrite", k>>))
      /\ UNCHANGED <<parent, killed, ofile, pfd, file, input, lines, console, trouble>>

\* cat gives up when a write fails, the others do not look.
AfterWrite(p, ok) == IF ok \/ ~ Head(code[p])[3] THEN rest(p) ELSE Exit

\* The bytes written to descriptor 1 appear on the console if it is file 1.
WriteFile(p) ==
  LET f == ofile[p][1] IN
  /\ Running(p) /\ op(p) = "write" /\ ~ PipeWrite(f)
  /\ console' = IF f = 1 THEN console \o arg(p) ELSE console
  /\ Return(p, AfterWrite(p, f # 0 /\ file[f].writable), st)
  /\ UNCHANGED <<parent, killed, ofile, pfd, file, pipe, input, lines, trouble>>

Room(P) == PIPESIZE - Held(P)

Stored(P, bytes) ==
  [P EXCEPT !.data = [i \in DOMAIN @ |->
                        LET js == {j \in 1..Len(bytes) : (P.nwrite + j - 1) % PIPESIZE = i}
                        IN  IF js = {} THEN @[i] ELSE bytes[Max(js)]],
            !.nwrite = (@ + Len(bytes)) % CtrMod,
            !.sent = @ \o bytes]

\* pipewrite(): fills the pipe; if bytes are left, gives up or sleeps.
Pipewrite(p) ==
  LET f == ofile[p][1]
      k == file[f].page
      P == pipe[k]
      m == Min({Len(arg(p)), Room(P)})
      left == SubSeq(arg(p), m + 1, Len(arg(p)))
  IN  /\ Running(p) /\ op(p) = "write" /\ PipeWrite(f)
      /\ pipe' = [pipe EXCEPT ![k] = Stored(P, SubSeq(arg(p), 1, m))]
      /\ CASE left = <<>> -> Return(p, AfterWrite(p, TRUE), wakeup(<<"nread", k>>))
           [] left # <<>> /\ (~ P.readopen \/ killed[p]) -> Return(p, AfterWrite(p, FALSE), st)
           [] OTHER ->
                /\ st' = [wakeup(<<"nread", k>>) EXCEPT ![p] = "sleep"]
                /\ Goto(p, <<<<"write", left, Head(code[p])[3]>>>> \o rest(p))
      /\ UNCHANGED <<parent, killed, ofile, pfd, file, input, lines, console, trouble>>

Step(p) ==
  /\ code[p] # <<>>
  /\ \/ Getcmd(p) \/ Fork(p) \/ ForkFails(p) \/ Exec(p) \/ Wait(p)
     \/ DupFd(p) \/ Close(p) \/ Open(p) \/ OpenFails(p) \/ Fileclose(p)
     \/ ExitClose(p) \/ ExitZombie(p) \/ KilledExit(p)
     \/ PipeFile(p) \/ PipeFails(p) \/ PipePage(p) \/ Pipeclose(p)
     \/ ReadFile(p) \/ Piperead(p) \/ WriteFile(p) \/ Pipewrite(p)

Next ==
  \/ \E p \in Procs : Step(p) \/ Kill(p)
  \/ \E q \in Procs : Reap(q)

Spec == Init /\ [][Next]_vars

\* Every runnable process gets to run, and init keeps waiting for orphans.
FairSpec ==
  /\ Spec
  /\ \A p \in Procs : WF_vars(Step(p))
  /\ WF_vars(\E q \in Procs : Reap(q))
-----------------------------------------------------------------------------
\* Properties

\* How often process p refers to file f: by descriptors, by closes it has still to
\* make and by a pipe() under way.
Refs(p, f) ==
  Cardinality({fd \in DOMAIN ofile[p] : ofile[p][fd] = f})
    + Cardinality({i \in DOMAIN code[p] : \/ code[p][i] = <<"fileclose", f>>
                                         \/ (code[p][i][1] = "pipe" /\ f \in ToSet(code[p][i][2]))})

\* The variables have the shapes of the C structures, and a pipe never holds more
\* than PIPESIZE bytes.
TypeOK ==
  /\ \A p \in Procs : st[p] \in {"unused", "run", "kernel", "sleep", "zombie"}
  /\ \A p \in Procs : (code[p] = <<>>) = (st[p] \in {"unused", "zombie"})
  /\ \A k \in Pages : Held(pipe[k]) <= PIPESIZE
  /\ \A p \in Procs : \A fd \in DOMAIN ofile[p] : ofile[p][fd] \in 0..NFILE

\* f->ref counts exactly the descriptors of all processes that point to the file,
\* through fork, dup, close, exit, and a pipe() that fails half way.
RefsExact ==
  \A f \in Files : file[f].ref = MapThenSumSet(LAMBDA p : Refs(p, f), Procs)

\* An end of a pipe counts as open exactly while a file of that end exists or its
\* close is on the way, and its page is in use exactly while an end is open: no
\* reader sees the end of the data while someone can still write, nothing touches
\* a freed page, and no page is lost.
EndsExact ==
  \A k \in Pages : \A w \in BOOLEAN :
    LET isopen == IF w THEN pipe[k].writeopen ELSE pipe[k].readopen
        isfile == \E f \in Files : file[f].type = "pipe" /\ file[f].page = k /\ file[f].writable = w
        closing == \E p \in Procs : code[p] # <<>> /\ Head(code[p]) = <<"pipeclose", k, w>>
    IN  /\ isopen = (isfile \/ closing)
        /\ isopen => pipe[k].used

\* What is in a pipe is what was written and not yet read, in order, also when
\* nread and nwrite have wrapped.
InOrder ==
  \A k \in Pages :
    [i \in 1..Held(pipe[k]) |-> pipe[k].data[(pipe[k].nread + i - 1) % PIPESIZE]]
      = SubSeq(pipe[k].sent, pipe[k].got + 1, Len(pipe[k].sent))

\* A reader sleeps only on an empty pipe that can still be written, a writer only
\* on a full one that can still be read: no wakeup of pipewrite(), piperead(),
\* pipeclose() or kill() is missed.
PipeSleepsForReason ==
  \A p \in Procs : st[p] = "sleep" =>
    LET P == pipe[Channel(p)[2]]
    IN  /\ ~ killed[p]
        /\ IF op(p) = "write" THEN Held(P) = PIPESIZE /\ P.readopen ELSE Held(P) = 0 /\ P.writeopen

\* The shell waits for input again and nothing else is left.
Quiet ==
  /\ lines = Len(input)
  /\ \A p \in Procs : st[p] = "unused" \/ code[p] \in {shmain, code[init]}

\* Every line comes to its end, also when a process of it is killed or an
\* allocation fails: the pipelines finish, orphans are reaped, a shell that died is
\* replaced, and all files and pipe pages are free again.
LinesEnd ==
  <>[](/\ Quiet /\ code[init][1][1] = "reap"
       /\ file = [f \in Files |-> IF f = 1 THEN Console ELSE NoFile]
       /\ pipe = [k \in Pages |-> NoPipe])

\* What a command means: run on the bytes in, what it writes and what it leaves.
RECURSIVE Meaning(_, _)
Meaning(cmd, in) ==
  CASE cmd.type = "EXEC" ->
         (CASE cmd.argv = <<>> -> [out |-> <<>>, in |-> in]
            [] cmd.argv # <<>> /\ cmd.argv[1] = <<"e">> -> [out |-> Line(Tail(cmd.argv)), in |-> in]
            [] cmd.argv # <<>> /\ cmd.argv[1] = <<"c">> -> [out |-> in, in |-> <<>>]
            [] cmd.argv # <<>> /\ cmd.argv[1] = <<"w">> -> [out |-> <<ToString(Len(in))>>, in |-> <<>>]
            [] OTHER -> [out |-> <<>>, in |-> in])
    [] cmd.type = "REDIR" -> IF cmd.fd = 1 THEN [out |-> <<>>, in |-> Meaning(cmd.cmd, in).in]
                             ELSE [out |-> Meaning(cmd.cmd, <<>>).out, in |-> in]
    [] cmd.type = "PIPE" -> LET l == Meaning(cmd.left, in)
                            IN  [out |-> Meaning(cmd.right, l.out).out, in |-> l.in]
    [] cmd.type = "LIST" -> LET l == Meaning(cmd.left, in)
                                r == Meaning(cmd.right, l.in)
                            IN  [out |-> l.out \o r.out, in |-> r.in]
    [] OTHER -> [out |-> <<>>, in |-> in]

Foreground(line) == "&" \notin ToSet(line)

\* However the processes of a line interleave, the console shows in the end what
\* the line means: each command's output reaches the next one whole and in order,
\* and ";" waits.
OutputMeant ==
  Quiet /\ ~ trouble /\ (\A i \in DOMAIN input : Foreground(input[i])) =>
    console = FlattenSeq([i \in DOMAIN input |-> Meaning(Command[input[i]], <<>>).out])

\* The file table and the pipes are what the processes' descriptors say: files are
\* counted, ends are open while a file of theirs is, pages are in use while an end
\* is, and their bytes are those written and not yet read.
FilesExact == TypeOK /\ RefsExact /\ EndsExact /\ InOrder
=============================================================================
