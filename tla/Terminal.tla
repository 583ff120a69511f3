------------------------------- MODULE Terminal ------------------------------
(***************************************************************************)
(* What is on the screen while the shell talks to the user: the prompt and *)
(* readline_terminal's echo, printf with itoa, and cls, all through the    *)
(* system calls of src/syscall/user_io.c on the Console.  Shell has what   *)
(* the line is used for; here a command prints something.                  *)
(***************************************************************************)
EXTENDS Console, FiniteSetsExt

CONSTANTS
  Keys,       \* the printing keys
  LineMax,    \* the 100 that the shell passes to readline_terminal
  Outputs,    \* strings that commands print
  Numbers,    \* numbers that commands print
  INT_MAX     \* the largest int (2^31 - 1)

ASSUME TerminalAssumption ==
  /\ LineMax \in Nat \ {0}
  /\ INT_MAX \in Nat /\ INT_MAX <= 2147483647
  /\ Numbers \subseteq (-INT_MAX - 1)..INT_MAX
  /\ Keys \subseteq STRING \ {"\n", "BS"}
  /\ Outputs \subseteq Seq(STRING)

INT_MIN == -INT_MAX - 1
Digit   == <<"0", "1", "2", "3", "4", "5", "6", "7", "8", "9">>
PROMPT  == <<">", " ">>

VARIABLES
  con,      \* the console
  phase,    \* "prompt", "read", "command", then "number" (printed) or "unshown"
  idx,      \* of readline_terminal
  start,    \* ghost: the cell behind the prompt, or where the number begins
  typed,    \* ghost: the keys of this line that were not erased
  number    \* ghost: the number that was printed

vars == <<con, phase, idx, start, typed, number>>

Init ==
  /\ con = console_init
  /\ phase = "prompt"
  /\ idx = 0
  /\ start = 0
  /\ typed = <<>>
  /\ number = 0

\* Bound: what a command prints goes down two rows at most, and the model has
\* the memory of Rows rows.
Room == con.y + 2 < Rows

-----------------------------------------------------------------------------
\* syscall_print; kzalloc may have no memory for its copy of the string, and it
\* returns before anything is shown.
syscall_print(str, has_memory) == IF has_memory THEN print(con, str) ELSE con

\* The shell prints its prompt and calls readline_terminal.
shell_prompt(has_memory) ==
  /\ phase = "prompt"
  /\ con.y + 1 < Rows
  /\ con' = syscall_print(PROMPT, has_memory)
  /\ start' = Cursor(con')
  /\ phase' = "read"
  /\ idx' = 0
  /\ typed' = <<>>
  /\ UNCHANGED number

\* A key is echoed and stored; after LineMax keys readline_terminal returns.
readline_key(c) ==
  /\ phase = "read"
  /\ con.y + 1 < Rows
  /\ con' = console_write_char(con, c)
  /\ idx' = idx + 1
  /\ typed' = Append(typed, c)
  /\ phase' = IF idx + 1 = LineMax THEN "command" ELSE "read"
  /\ UNCHANGED <<start, number>>

\* As if BACKSPACE were echoed in any case.
AlwaysErases == TRUE

\* Whether BACKSPACE has a key to erase.
Erases == idx > 0

readline_backspace ==
  /\ phase = "read"
  /\ Erases
  /\ con' = console_write_char(con, "BS")
  /\ idx' = idx - 1
  /\ typed' = SubSeq(typed, 1, Len(typed) - 1)
  /\ UNCHANGED <<phase, start, number>>

readline_enter ==
  /\ phase = "read"
  /\ con.y + 1 < Rows
  /\ con' = console_write_char(con, "\n")
  /\ phase' = "command"
  /\ UNCHANGED <<idx, start, typed, number>>

-----------------------------------------------------------------------------
\* -value for an int, which is value itself for INT_MIN.
Negated(v) == IF v = INT_MIN THEN v ELSE -v

\* The space that itoa has for digits; an int has no more than ten.
MAX_DIGITS == 13

\* What is left of a number after i divisions by ten.
Left(v) ==
  LET cx[i \in 0..MAX_DIGITS] == IF i = 0 THEN v ELSE cx[i - 1] \div 10
  IN cx

num_digits(v) == Min({i \in 0..MAX_DIGITS : Left(v)[i] = 0})

\* As if the digits were not turned round.
DigitsBackwards(v) == [k \in 1..num_digits(v) |-> Digit[(Left(v)[k - 1] % 10) + 1]]

\* The digits of a positive number, found from the last to the first.
DigitsOf(v) == [k \in 1..num_digits(v) |-> Digit[(Left(v)[num_digits(v) - k] % 10) + 1]]

\* itoa; print_int of the kernel's console does the same.
itoa(value) ==
  LET v == IF value < 0 THEN Negated(value) ELSE value
  IN (IF value < 0 THEN <<"-">> ELSE <<>>) \o (IF v <= 0 THEN <<"0">> ELSE DigitsOf(v))

DigitValue(c) == (CHOOSE d \in 1..10 : Digit[d] = c) - 1

Value(buffer) ==
  LET res[k \in 0..Len(buffer)] == IF k = 0 THEN 0 ELSE res[k - 1] * 10 + DigitValue(buffer[k])
  IN res[Len(buffer)]

atoi(str) == IF str[1] = "-" THEN -Value(Tail(str)) ELSE Value(str)

\* A number is shorter than a row.
ASSUME NumbersFit == \A n \in Numbers : Len(itoa(n)) <= VGA_WIDTH

\* A command prints a string, or printf a number, or clears the screen.
command_prints(str, has_memory) ==
  /\ phase = "command"
  /\ Room
  /\ con' = syscall_print(str, has_memory)
  /\ phase' = "prompt"
  /\ UNCHANGED <<idx, start, typed, number>>

command_prints_number(n, has_memory) ==
  /\ phase = "command"
  /\ Room
  /\ start' = Cursor(con)
  /\ con' = syscall_print(itoa(n), has_memory)
  /\ number' = n
  /\ phase' = IF has_memory THEN "number" ELSE "unshown"
  /\ UNCHANGED <<idx, typed>>

\* printf goes on behind the number, whether it was shown or not.
number_done ==
  /\ phase \in {"number", "unshown"}
  /\ con.y + 1 < Rows
  /\ con' = console_write_char(con, "\n")
  /\ phase' = "prompt"
  /\ UNCHANGED <<idx, start, typed, number>>

cls ==
  /\ phase = "command"
  /\ con' = clear_screen(con)
  /\ phase' = "prompt"
  /\ UNCHANGED <<idx, start, typed, number>>

Next ==
  \/ \E has_memory \in BOOLEAN : shell_prompt(has_memory)
  \/ \E c \in Keys : readline_key(c)
  \/ readline_backspace
  \/ readline_enter
  \/ \E str \in Outputs, has_memory \in BOOLEAN : command_prints(str, has_memory)
  \/ \E n \in Numbers, has_memory \in BOOLEAN : command_prints_number(n, has_memory)
  \/ number_done
  \/ cls

Spec == Init /\ [][Next]_vars

-----------------------------------------------------------------------------
(* Properties *)

\* The text from cell start to the cursor.
Since == [i \in 1..(Cursor(con) - start) |-> con.cells[start + i - 1]]

\* While a line is read, the cells from the prompt to the cursor show the keys
\* that were typed and not erased, whatever was erased and retyped across the
\* ends of rows: console_backspace undoes exactly what the echo of the key did.
LineEchoed == phase = "read" => Since = typed

\* What was written before the line is not changed by reading it: BACKSPACE
\* stops at the prompt.
OutputKept ==
  [][phase = "read" => \A i \in 0..(start - 1) : con'.cells[i] = con.cells[i]]_vars

\* printf("%d"), when syscall_print has memory for its copy, shows a number that
\* reads as the number, without leading zeros, wherever the row ends.  INT_MIN,
\* which itoa cannot negate, is left out.
NumberShown ==
  phase = "number" /\ number # INT_MIN =>
    /\ atoi(Since) = number
    /\ Len(Since) > 1 => Since[1] # "0"

\* "returns line read while also printing it to the screen" (stdlib.c:357): what
\* is echoed is on the screen.
LineOnScreen == phase = "read" => Cursor(con) <= VGA_WIDTH * VGA_HEIGHT
==============================================================================
