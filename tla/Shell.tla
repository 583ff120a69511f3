-------------------------------- MODULE Shell --------------------------------
(***************************************************************************)
(* From the keys typed at the prompt to the path and the arguments of a    *)
(* new process: the loop of programs/shell/shell.c, readline_terminal and  *)
(* strtok of programs/stdlib/src/stdlib.c, and in the kernel parse_path    *)
(* (src/fs/utils.c) and process_add_arguments (src/task/process.c).        *)
(*                                                                         *)
(* A byte is a letter, small or capital, a slash, a space or Nul.          *)
(* Pointers into the shell's buffer are indices from 1, and 0 is the null  *)
(* pointer.  typed is a ghost: the keys of this line that were not erased; *)
(* line is a ghost: the string that the shell took for the command.        *)
(***************************************************************************)
EXTENDS Integers, Sequences, FiniteSetsExt, SequencesExt

CONSTANTS
  LineMax,    \* the 100 that the shell passes to readline_terminal
  BufSize,    \* sizeof(buf) (1024)
  NameMax,    \* the 120 that the shell passes to strncpy
  PathMax,    \* FS_MAX_PATH_LEN without the "0:/" (108 - 3)
  StackSize,  \* DEFAULT_USER_STACK_SIZE (16384)
  PtrSize     \* sizeof(char *) (4)

ASSUME ShellAssumption ==
  /\ LineMax \in Nat \ {0}
  /\ BufSize \in Nat /\ BufSize > LineMax
  /\ NameMax \in Nat /\ NameMax > LineMax
  /\ PathMax \in Nat /\ PathMax >= LineMax
  /\ StackSize \in Nat
  /\ PtrSize \in Nat \ {0}

Nul  == "nul"
Past == "past"     \* a byte of memory that follows the arguments
Char == {"a", "A", "/", " "}
Byte == Char \cup {Nul}

VARIABLES
  buf,      \* the shell's buffer
  idx,      \* of readline_terminal
  sp,       \* the static pointer of strtok
  phase,    \* "read" a line, run a "command", "wait" for a process, "dead"
  typed, line,
  path,     \* the parts of the path of the process that was created
  frame     \* and what its main finds on the stack

vars == <<buf, idx, sp, phase, typed, line, path, frame>>

results == <<line, path, frame>>

\* Before a process exists.
NoFrame == [esp |-> 0, word |-> <<>>, byte |-> <<>>]

\* The buffer is not initialised; somewhere behind the line there is a Nul.
Init ==
  /\ buf \in {b \in [1..BufSize -> Byte] : b[BufSize] = Nul}
  /\ idx = 0
  /\ sp = 0
  /\ phase = "read"
  /\ typed = <<>>
  /\ line = <<>>
  /\ path = <<>>
  /\ frame = NoFrame

-----------------------------------------------------------------------------
\* strlen of the string at i.
strlen(b, i) == Min({j \in i..Len(b) : b[j] = Nul}) - i

StringAt(b, i) == SubSeq(b, i, i + strlen(b, i) - 1)

\* readline_terminal stores a key; after LineMax keys it returns as it is.
readline_char(c) ==
  /\ phase = "read"
  /\ buf' = [buf EXCEPT ![idx + 1] = c]
  /\ idx' = idx + 1
  /\ typed' = Append(typed, c)
  /\ phase' = IF idx + 1 = LineMax THEN "command" ELSE "read"
  /\ UNCHANGED <<sp, results>>

readline_backspace ==
  /\ phase = "read"
  /\ idx > 0
  /\ buf' = [buf EXCEPT ![idx] = Nul]
  /\ idx' = idx - 1
  /\ typed' = Front(typed)
  /\ UNCHANGED <<sp, phase, results>>

\* As if ENTER did not end the string.
UnterminatedLine == buf

TerminatedLine == [buf EXCEPT ![idx + 1] = Nul]

readline_enter ==
  /\ phase = "read"
  /\ buf' = TerminatedLine
  /\ phase' = "command"
  /\ UNCHANGED <<idx, sp, typed, results>>

-----------------------------------------------------------------------------
SkipSpaces(b, i) == Min({j \in i..Len(b) : b[j] # " "})

TokenEnd(b, i) == Min({j \in i..Len(b) : b[j] \in {" ", Nul}})

\* As if the static pointer were kept at the end of the string.
NoMoreTokensKeepingSp(m, end) == [m EXCEPT !.sp = end, !.ret = 0]

\* The end of the string ends the tokenization: sp is null again.
NoMoreTokens(m, end) == [m EXCEPT !.sp = 0, !.ret = 0]

\* strtok(str, " ") in the memory m: str counts only when no string is being
\* taken apart.
strtok(m, str) ==
  LET from == IF str # 0 /\ m.sp = 0 THEN str ELSE m.sp
      start == SkipSpaces(m.buf, from)
      end == TokenEnd(m.buf, start)
  IN IF from = 0 THEN [m EXCEPT !.ret = 0]
     ELSE IF m.buf[start] = Nul THEN NoMoreTokens(m, start)
     ELSE [buf |-> [m.buf EXCEPT ![end] = Nul],
           sp  |-> IF m.buf[end] = " " THEN end + 1 ELSE end,
           ret |-> start]

\* strtok(str), then strtok(NULL) until it returns NULL: the memory it leaves
\* and the tokens it returned.
RECURSIVE Tokenize(_, _, _)
Tokenize(m, str, tokens) ==
  LET next == strtok(m, str)
  IN IF next.ret = 0 THEN [mem |-> next, tokens |-> tokens]
     ELSE Tokenize(next, 0, Append(tokens, next.ret))

Tokenized == Tokenize([buf |-> buf, sp |-> sp, ret |-> 0], 1, <<>>)

to_lower(c) == IF c = "A" THEN "a" ELSE c

\* str_to_lower of the string at i, in place.
str_to_lower(b, i) ==
  [j \in DOMAIN b |-> IF j \in i..(i + strlen(b, i) - 1) THEN to_lower(b[j]) ELSE b[j]]

\* strncpy(FILE_PATH + 3, token, 120)
FilePath(token) == SubSeq(token, 1, Min({Len(token), NameMax - 1}))

\* As if a part began at the slash before it.
PartStartsAtSlash(slashes) == {1} \cup slashes

PartStarts(slashes) == {1} \cup {i + 1 : i \in slashes}

\* parse_path of "0:/" and the name: slashes become Nul, and every part is a
\* pointer into the copy.
parse_path(name) ==
  LET len == Min({Len(name), PathMax})
      slashes == {i \in 1..len : name[i] = "/"}
      copy == [i \in 1..(len + 1) |-> IF i > len \/ i \in slashes THEN Nul ELSE name[i]]
      starts == SetToSortSeq(PartStarts(slashes), <)
  IN [k \in 1..Len(starts) |-> StringAt(copy, starts[k])]

\* Behind the arguments is memory that the caller did not pass.
Bounded(args) == Append(Append(args, Past), Nul)

\* The pointers of process_add_arguments, each behind the Nul of the one before.
RECURSIVE ArgPointers(_, _)
ArgPointers(args, argc) ==
  IF argc = 1 THEN <<1>>
  ELSE LET ptrs == ArgPointers(args, argc - 1)
           next == Last(ptrs) + strlen(Bounded(args), Last(ptrs)) + 1
       IN Append(ptrs, Min({next, Len(args) + 1}))

\* process_add_arguments pushes the arguments, the pointers to them, argv and
\* argc.  Addresses count from DEFAULT_USER_STACK_END.
process_add_arguments(argc, args) ==
  LET strings == StackSize - Len(args)
      table   == strings - PtrSize * argc
      esp     == table - 2 * PtrSize
      ptrs    == ArgPointers(args, argc)
      slot(i) == table + PtrSize * (i - 1)
  IN [esp  |-> esp,
      word |-> [a \in {esp, esp + PtrSize} \cup {slot(i) : i \in 1..argc} |->
                  CASE a = esp -> argc
                    [] a = esp + PtrSize -> table
                    [] OTHER -> strings - 1 + ptrs[1 + ((a - table) \div PtrSize)]],
      byte |-> [a \in strings..(StackSize + 1) |-> Bounded(args)[a - strings + 1]]]

-----------------------------------------------------------------------------
\* Back to the prompt.
Prompt ==
  /\ phase' = "read"
  /\ idx' = 0
  /\ typed' = <<>>
  /\ line' = <<>>
  /\ path' = <<>>
  /\ frame' = NoFrame

empty_line ==
  /\ phase = "command"
  /\ strlen(buf, 1) = 0
  /\ Prompt
  /\ UNCHANGED <<buf, sp>>

\* "clear" and "info args", which leave the buffer alone.
builtin ==
  /\ phase = "command"
  /\ to_lower(buf[1]) = "a"
  /\ Prompt
  /\ UNCHANGED <<buf, sp>>

tok ==
  /\ phase = "command"
  /\ to_lower(buf[1]) = "a"
  /\ buf' = Tokenized.mem.buf
  /\ sp' = Tokenized.mem.sp
  /\ Prompt

\* create_process, with the first token as the path, and the process started;
\* argc and the length are those of all the tokens.
Created(l, token, argc, args) ==
  /\ PtrSize * argc + Len(args) <= StackSize
  /\ phase' = "wait"
  /\ line' = l
  /\ path' = parse_path(FilePath(token))
  /\ frame' = process_add_arguments(argc, args)
  /\ UNCHANGED <<idx, typed>>

\* Two processes with arguments that are written in the shell.
showmt ==
  /\ phase = "command"
  /\ to_lower(buf[1]) = "a"
  /\ Created(<<"a", " ", "a">>, <<"a">>, 2, <<"a", Nul, "a", Nul>>) \/ Prompt
  /\ UNCHANGED <<buf, sp>>

\* The line names a program.  Without a token the shell reads the string at
\* NULL, and the page fault ends it.  Otherwise it passes the bytes from the
\* start of the buffer on, as many as the tokens have with a Nul each.  The
\* process may not be created, for every reason that Kernel has.
start_process ==
  LET tokens == Tokenized.tokens
      split == Tokenized.mem.buf
      b == str_to_lower(split, tokens[1])
      len == MapThenSumSet(LAMBDA k : strlen(split, tokens[k]) + 1, DOMAIN tokens)
  IN /\ phase = "command"
     /\ strlen(buf, 1) > 0
     /\ sp' = Tokenized.mem.sp
     /\ \/ /\ tokens = <<>>
           /\ buf' = split
           /\ phase' = "dead"
           /\ UNCHANGED <<idx, typed, results>>
        \/ /\ tokens # <<>>
           /\ buf' = b
           /\ \/ Created(StringAt(buf, 1), StringAt(b, tokens[1]), Len(tokens), SubSeq(b, 1, len))
              \/ Prompt

\* wait_pid_blocking: the process has exited and is reaped.
wait_pid_blocking ==
  /\ phase = "wait"
  /\ Prompt
  /\ UNCHANGED <<buf, sp>>

Next ==
  \/ \E c \in Char : readline_char(c)
  \/ readline_backspace
  \/ readline_enter
  \/ empty_line
  \/ builtin
  \/ tok
  \/ showmt
  \/ start_process
  \/ wait_pid_blocking

Spec == Init /\ [][Next]_vars

-----------------------------------------------------------------------------
(* Properties *)

\* The words of a line: its longest pieces without spaces, in order.
Words(l) ==
  LET starts == SetToSortSeq({i \in DOMAIN l : l[i] # " " /\ (i = 1 \/ l[i - 1] = " ")}, <)
      end(i) == Max({j \in i..Len(l) : \A k \in i..j : l[k] # " "})
  IN [k \in 1..Len(starts) |-> SubSeq(l, starts[k], end(starts[k]))]

\* No space in front, and one between two words.
WellSpaced(l) ==
  /\ l[1] # " "
  /\ \A i \in 1..(Len(l) - 1) : ~(l[i] = " " /\ l[i + 1] = " ")

Joined(parts) == FoldLeft(LAMBDA acc, part : acc \o <<"/">> \o part, Head(parts), Tail(parts))

\* The command is what was typed and not erased, whatever earlier lines left
\* in the buffer, unless the line is so long that readline_terminal returns
\* without ENTER.
LineIsTyped ==
  phase = "command" /\ Len(typed) < LineMax => StringAt(buf, 1) = typed

\* The string that the program finds at address a.
StringOf(a) ==
  LET end == Min({j \in DOMAIN frame.byte : j >= a /\ frame.byte[j] = Nul})
  IN [k \in 1..(end - a) |-> frame.byte[a + k - 1]]

\* main(argc, argv) as the program reads it: the two words at esp, then the
\* pointers, then the strings.
MainArgs ==
  LET argc == frame.word[frame.esp]
      argv == frame.word[frame.esp + PtrSize]
  IN [i \in 1..argc |-> StringOf(frame.word[argv + PtrSize * (i - 1)])]

OnStack == \A a \in DOMAIN frame.word : a >= 0

\* What the program should find: the words of the line, the first one in small
\* letters.
Lowered(word) == [i \in DOMAIN word |-> to_lower(word[i])]

Arguments(l) == [k \in DOMAIN Words(l) |-> IF k = 1 THEN Lowered(Words(l)[1]) ELSE Words(l)[k]]

\* A program finds the words of its command line as the arguments of main when
\* single spaces separate them, the first in small letters and the others as
\* they were typed; and however they are spaced, as many as there are words,
\* and its own name unless a space stands in front.  After any earlier commands
\* (strtok keeps a static pointer between calls) argc, argv, the pointers and
\* the strings agree on the stack.
ArgvIsWords ==
  phase = "wait" /\ OnStack =>
    /\ Len(MainArgs) = Len(Words(line))
    /\ WellSpaced(line) => MainArgs = Arguments(line)
    /\ line[1] # " " => MainArgs[1] = Arguments(line)[1]

\* The path that is looked up is the first word of the line in small letters,
\* taken apart at its slashes and nowhere else (parse_path), however the line
\* was spaced.
PathIsFirstWord ==
  path # <<>> /\ Len(Words(line)[1]) <= LineMax =>
    /\ Joined(path) = Arguments(line)[1]
    /\ \A k \in DOMAIN path : ~Contains(path[k], "/")

\* "args should point to start of the arguments, which are joined by the null
\* terminator" (src/syscall/proc_mgmt.c): the arguments of every line are its
\* words.
ArgumentsJoined == phase = "wait" /\ OnStack => MainArgs = Arguments(line)

\* "Too many arguments which we can't fit in the stack" (process.c:457) are
\* refused: what process_add_arguments pushes lies on the stack.
ArgumentsFit == phase = "wait" => OnStack
==============================================================================
