------------------------------- MODULE MzArgs -------------------------------
(* The command line of mz, bin/mz/src/args.rs: one argument after the other, *)
(* then what they mean together.                                             *)
(*                                                                           *)
(* A path is a stem and its extensions.  Options that change no control      *)
(* (--quiet, --pad) are left out.                                            *)
EXTENDS Integers, Sequences, FiniteSets, SequencesExt

CONSTANTS Args,          \* arguments the user may give
          MaxArgs,       \* and how many
          DefaultTail    \* of mz tail; 1024

\* Names of commands that are also names files may have.
CommandWords == {"c", "d", "cat", "tail", "verify", "bench"}

Path(stem, exts) == [stem |-> stem, exts |-> exts]
Std == Path("-", <<>>)
NoPath == Path("", <<>>)
Ext(p) == IF p.exts = <<>> THEN "" ELSE Last(p.exts)
WithExt(p, e) == [p EXCEPT !.exts = Append(@, e)]
WithoutExt(p) == [p EXCEPT !.exts = Front(@)]

\* Arguments: words, numbers, flags that stand alone or take the next argument,
\* and flags with their value.
Word(p) == [kind |-> "word", path |-> p]
Num(n, nl) == [kind |-> "num", n |-> n, nl |-> nl]
Flag(f) == [kind |-> "flag", flag |-> f]
Set(f, v) == [kind |-> "set", flag |-> f, val |-> v]

\* Numbers are natural.
IsValue(a) == a.kind = "num" => a.n \in Nat /\ a.nl \in BOOLEAN

ASSUME ArgsAssumption ==
  /\ MaxArgs \in Nat /\ DefaultTail \in Nat
  /\ \A a \in Args : /\ a.kind \in {"word", "num", "flag", "set"} /\ IsValue(a)
                     /\ a.kind = "set" => IsValue(a.val)

Switches == {"block", "stdout", "rm", "verify", "no-index", "follow", "raw"}
\* --help and -h, which end all else; and -help, read as one of the other flags.
HelpFlags == {"help", "-help"}
ValueFlags == {"level", "block-size", "output", "bench", "threads", "index", "offset", "tail"}

VARIABLES given,         \* arguments read
          want,          \* the flag whose value comes next, or ""
          sub, alias,    \* the command; "" if none was given
          opts, input,   \* Options; the input, or NoPath
          pc, code       \* "parse", "run", "exit" or "dead"; the exit code

argVars == <<given, want, sub, alias, opts, input, pc, code>>

Default == [block |-> FALSE, stdout |-> FALSE, rm |-> FALSE, verify |-> FALSE,
            index |-> TRUE, follow |-> FALSE, raw |-> FALSE, help |-> "no",
            level |-> FALSE, badSize |-> FALSE, output |-> NoPath, bench |-> FALSE,
            offset |-> <<>>, tail |-> <<>>, nl |-> FALSE]

----------------------------------------------------------------------------
(* One argument *)

Refuse == pc' = "exit" /\ code' = 2 /\ UNCHANGED <<want, sub, alias, opts, input>>

Switched(f) == CASE f = "block" -> [opts EXCEPT !.block = TRUE]
                 [] f = "stdout" -> [opts EXCEPT !.stdout = TRUE]
                 [] f = "rm" -> [opts EXCEPT !.rm = TRUE]
                 [] f = "verify" -> [opts EXCEPT !.verify = TRUE]
                 [] f = "no-index" -> [opts EXCEPT !.index = FALSE]
                 [] f = "follow" -> [opts EXCEPT !.follow = TRUE]
                 [] f = "raw" -> [opts EXCEPT !.raw = TRUE]

\* What an argument is called as a file.
PathOf(a) == IF a.kind = "word" THEN a.path ELSE Path("odd", <<>>)

\* Whether a is a value for flag f: a number, with +nl only behind a size that
\* is a position; a file may have any name.
Valid(f, a) ==
  \/ f = "output"
  \/ /\ a.kind = "num"
     /\ a.nl => f \in {"offset", "tail"}
     /\ f \in {"threads", "level"} => a.n > 0
     /\ f = "index" => a.n \in {0, 1}

WithValue(f, a) ==
  CASE f = "output" -> [opts EXCEPT !.output = PathOf(a)]
    [] f = "offset" -> [opts EXCEPT !.offset = <<a.n>>, !.nl = @ \/ a.nl]
    [] f = "tail" -> [opts EXCEPT !.tail = <<a.n>>, !.nl = @ \/ a.nl]
    [] f = "index" -> [opts EXCEPT !.index = a.n = 1]
    [] f = "level" -> [opts EXCEPT !.level = TRUE]
    [] f = "block-size" -> [opts EXCEPT !.badSize = a.n = 0]
    [] f = "bench" -> [opts EXCEPT !.bench = TRUE]
    [] f = "threads" -> opts

SetLongValue(f, a) ==
  IF f \in ValueFlags /\ Valid(f, a)
  THEN /\ opts' = WithValue(f, a) /\ want' = ""
       /\ UNCHANGED <<sub, alias, input, pc, code>>
  ELSE Refuse

SetInput(p) == input' = p /\ UNCHANGED <<want, sub, alias, opts, pc, code>>

IsCommand(p) == p.exts = <<>> /\ p.stem \in CommandWords

ParseSubcommand(w) == CASE w \in {"d", "cat", "tail"} -> "d" [] OTHER -> w

\* A flag that takes a value takes the next argument, whatever it looks like;
\* only one command, and a standard stream replaces an input given before.
ParseArg(a) ==
  CASE want # "" -> SetLongValue(want, a)
    [] want = "" /\ a.kind = "set" -> SetLongValue(a.flag, a.val)
    [] want = "" /\ a.kind = "flag" /\ a.flag \in HelpFlags ->
         /\ opts' = [opts EXCEPT !.help = IF a.flag = "help" \/ @ = "only" THEN "only" ELSE "also"]
         /\ UNCHANGED <<want, sub, alias, input, pc, code>>
    [] want = "" /\ a.kind = "flag" /\ a.flag \in Switches ->
         opts' = Switched(a.flag) /\ UNCHANGED <<want, sub, alias, input, pc, code>>
    [] want = "" /\ a.kind = "flag" /\ a.flag \notin Switches \cup HelpFlags ->
         want' = a.flag /\ UNCHANGED <<sub, alias, opts, input, pc, code>>
    [] want = "" /\ a.kind \in {"word", "num"} ->
         LET p == PathOf(a)
         IN IF sub = "" /\ IsCommand(p)
            THEN /\ sub' = ParseSubcommand(p.stem) /\ alias' = p.stem
                 /\ UNCHANGED <<want, opts, input, pc, code>>
            ELSE IF p = Std \/ input = NoPath THEN SetInput(p) ELSE Refuse

NextArg ==
  /\ pc = "parse" /\ given < MaxArgs
  /\ given' = given + 1
  /\ \E a \in Args : ParseArg(a)

----------------------------------------------------------------------------
(* The end of the arguments *)

Command == IF sub # "" THEN sub ELSE IF Ext(input) \in {"mz", "mzb"} THEN "d" ELSE "c"

\* Defaults of the aliases, and of bench.
Final == [opts EXCEPT
            !.bench = @ \/ Command = "bench",
            !.stdout = @ \/ alias \in {"cat", "tail"},
            !.nl = @ \/ (alias = "tail" /\ opts.tail = <<>>),
            !.tail = IF alias = "tail" /\ @ = <<>> THEN <<DefaultTail>> ELSE @]

Conflict ==
  \/ want # ""
  \/ sub = "" /\ input = NoPath
  \/ opts.raw /\ opts.level
  \/ Final.follow /\ (Final.tail # <<>> \/ Final.bench \/ input = Std)

\* The usage is printed, and that is all.
Helps == (opts.help = "only" /\ want = "") \/ (opts.help = "also" /\ ~Conflict)

\* Options the command never looks at are forgotten, to have fewer states.
Kept(cmd, o) ==
  CASE cmd = "c" -> [Default EXCEPT !.block = o.block, !.stdout = o.stdout, !.rm = o.rm,
                       !.verify = o.verify, !.index = o.index, !.badSize = o.badSize,
                       !.output = o.output, !.bench = o.bench]
    [] cmd = "d" -> [o EXCEPT !.index = TRUE, !.badSize = FALSE, !.raw = FALSE, !.level = FALSE]
    [] OTHER -> [Default EXCEPT !.block = o.block, !.bench = o.bench, !.badSize = o.badSize]

ArgsEnd ==
  /\ pc = "parse"
  /\ given' = 0 /\ want' = "" /\ alias' = ""
  /\ IF Helps \/ Conflict
     THEN /\ pc' = "exit" /\ code' = IF Helps THEN 0 ELSE 2
          /\ sub' = "" /\ opts' = Default /\ input' = NoPath
     ELSE /\ sub' = Command /\ opts' = Kept(Command, Final)
          /\ pc' = "run" /\ UNCHANGED <<code, input>>

ArgsInit ==
  /\ given = 0 /\ want = "" /\ sub = "" /\ alias = "" /\ opts = Default
  /\ input = NoPath /\ pc = "parse" /\ code = -1
=============================================================================
