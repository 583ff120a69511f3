------------------------------- MODULE Console -------------------------------
(***************************************************************************)
(* The text console of src/console/console.c as operators on its state     *)
(* con: the cells of the video memory and the cursor, which is x and y.    *)
(* The console never scrolls: Rows rows of memory stand for the ones that  *)
(* it writes, and VGA_HEIGHT of them are the screen.  Colours are left     *)
(* out.  A character is a string of length one, or "BS" for 0x08.          *)
(***************************************************************************)
EXTENDS Integers, Sequences

CONSTANTS
  VGA_WIDTH,    \* 80
  VGA_HEIGHT,   \* 20
  Rows          \* bound: rows of memory that the cursor may reach

ASSUME ConsoleAssumption ==
  /\ VGA_WIDTH \in Nat \ {0}
  /\ VGA_HEIGHT \in Nat \ {0}
  /\ Rows \in Nat /\ Rows >= VGA_HEIGHT

Blank == " "
Cell  == 0..(VGA_WIDTH * Rows - 1)

\* The cell under the cursor.
Cursor(con) == con.y * VGA_WIDTH + con.x

\* console_init: the screen is blank; what is below it is not looked at.
console_init == [cells |-> [i \in Cell |-> IF i < VGA_WIDTH * VGA_HEIGHT THEN Blank ELSE "?"],
                 x |-> 0, y |-> 0]

console_put_char(con, c) == [con EXCEPT !.cells[Cursor(con)] = c]

\* As if the cursor stayed in its row.
BackspaceInRow(con) ==
  IF con.x = 0 THEN con
  ELSE LET back == [con EXCEPT !.x = @ - 1]
       IN console_put_char(back, Blank)

\* console_backspace: from the first column to the last one of the row above.
console_backspace(con) ==
  IF con.x = 0 /\ con.y = 0 THEN con
  ELSE LET back == IF con.x = 0 THEN [con EXCEPT !.y = @ - 1, !.x = VGA_WIDTH - 1]
                                ELSE [con EXCEPT !.x = @ - 1]
       IN console_put_char(back, Blank)

NewLine(con) == [con EXCEPT !.y = @ + 1, !.x = 0]

console_write_char(con, c) ==
  CASE c = "\n" -> NewLine(con)
    [] c = "BS" -> console_backspace(con)
    [] OTHER -> LET put == console_put_char(con, c)
                IN IF con.x + 1 = VGA_WIDTH THEN NewLine(put) ELSE [put EXCEPT !.x = @ + 1]

\* print, and printn of a string without a Nul.
print(con, str) ==
  LET after[k \in 0..Len(str)] ==
        IF k = 0 THEN con ELSE console_write_char(after[k - 1], str[k])
  IN after[Len(str)]

\* clear_screen: the rows below the screen are left as they are.
clear_screen(con) ==
  [cells |-> [i \in Cell |-> IF i < VGA_WIDTH * VGA_HEIGHT THEN Blank ELSE con.cells[i]],
   x |-> 0, y |-> 0]
==============================================================================
