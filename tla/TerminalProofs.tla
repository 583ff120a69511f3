--------------------------- MODULE TerminalProofs ----------------------------
(***************************************************************************)
(* What the screen shows, for a console of every width: the line that is   *)
(* read is echoed as it stands, editing it never touches what was printed  *)
(* before it, and a number is shown as it reads back.                      *)
(*                                                                         *)
(* The invariant says where the cursor is: as many cells behind the prompt *)
(* as the line has keys.  Printing is a run of console_write_char, and the *)
(* arithmetic of rows is put aside in a few lemmas about the cell under    *)
(* the cursor.                                                             *)
(***************************************************************************)
EXTENDS Terminal, Iteration

\* What a cell can hold: strings, with the literals of the model named one by one.
Glyph == STRING \cup {Blank, "?", ">", "-"} \cup {Digit[d] : d \in 1..10}

Cells == [Cell -> Glyph]

\* The states of the console; the cursor may be below the memory that is modelled.
Screen == [cells : Cells, x : 0..(VGA_WIDTH - 1), y : Nat]

-----------------------------------------------------------------------------
(* Rows and cells                                                           *)

\* The rows above one end before it begins, and it ends before the next one begins.
LEMMA RowCells ==
  ASSUME NEW w \in Nat, NEW y \in Nat, NEW r \in Nat
  PROVE  /\ y * w \in Nat /\ w * r \in Nat
         /\ (y + 1) * w = y * w + w
         /\ y + 1 <= r => y * w + w <= w * r
         /\ y + 2 < r => y * w + 3 * w <= w * r
<1>1. y * w \in Nat /\ w * r \in Nat /\ (y + 1) * w = y * w + w
  OBVIOUS
<1>2. ASSUME y + 1 <= r PROVE y * w + w <= w * r
  <2>1. PICK d \in Nat : r = y + 1 + d
    BY <1>2
  <2> QED
    BY <2>1
<1>3. ASSUME y + 2 < r PROVE y * w + 3 * w <= w * r
  <2>1. PICK d \in Nat : r = y + 3 + d
    BY <1>3
  <2> QED
    BY <2>1
<1> QED
  BY <1>1, <1>2, <1>3

\* The cell under the cursor exists while the cursor is in the modelled rows.
LEMMA CursorCell ==
  ASSUME NEW c \in Screen
  PROVE  /\ Cursor(c) \in Nat
         /\ c.y + 1 <= Rows => Cursor(c) \in Cell /\ Cursor(c) + 1 <= VGA_WIDTH * Rows
         /\ c.y + 2 < Rows => Cursor(c) + VGA_WIDTH <= VGA_WIDTH * Rows
         /\ \A i \in Nat : i < Cursor(c) /\ Cursor(c) \in Cell => i \in Cell
         /\ \A i : i \in Cell <=> i \in Nat /\ i < VGA_WIDTH * Rows
<1> DEFINE row == c.y * VGA_WIDTH
           all == VGA_WIDTH * Rows
<1>1. /\ VGA_WIDTH \in Nat \ {0} /\ Rows \in Nat
      /\ c.x \in Nat /\ c.x < VGA_WIDTH /\ c.y \in Nat
  BY ConsoleAssumption DEF Screen
<1>2. /\ row \in Nat /\ all \in Nat
      /\ c.y + 1 <= Rows => row + VGA_WIDTH <= all
      /\ c.y + 2 < Rows => row + 3 * VGA_WIDTH <= all
  BY <1>1, RowCells
<1>3. Cursor(c) = row + c.x
  BY DEF Cursor
<1>4. Cell = 0..(all - 1)
  BY DEF Cell
<1> HIDE DEF row, all
<1>5. Cursor(c) \in Nat
  BY <1>1, <1>2, <1>3
<1>6. \A i : i \in Cell <=> i \in Nat /\ i < all
  BY <1>2, <1>4
<1>7. c.y + 1 <= Rows => Cursor(c) \in Cell /\ Cursor(c) + 1 <= all
  BY <1>1, <1>2, <1>3, <1>6
<1>8. c.y + 2 < Rows => Cursor(c) + VGA_WIDTH <= all
  BY <1>1, <1>2, <1>3
<1>9. \A i \in Nat : i < Cursor(c) /\ Cursor(c) \in Cell => i \in Cell
  BY <1>2, <1>5, <1>6
<1> QED
  BY <1>5, <1>6, <1>7, <1>8, <1>9 DEF all

\* A character is stored at the cursor, which stays where it is (console_put_char).
LEMMA PutChar ==
  ASSUME NEW c \in Screen, NEW ch \in Glyph
  PROVE  /\ console_put_char(c, ch) \in Screen
         /\ console_put_char(c, ch).x = c.x /\ console_put_char(c, ch).y = c.y
         /\ console_put_char(c, ch).cells = [c.cells EXCEPT ![Cursor(c)] = ch]
<1>1. [c.cells EXCEPT ![Cursor(c)] = ch] \in Cells
  BY Zenon DEF Screen, Cells
<1> QED
  BY <1>1 DEF console_put_char, Screen

\* A character is shown and the cursor goes to the next cell.
Shows(r, c, ch) ==
  /\ r \in Screen
  /\ Cursor(r) = Cursor(c) + 1
  /\ r.cells = [c.cells EXCEPT ![Cursor(c)] = ch]

(* Printing a character moves the cursor by one cell, over the end of a row *)
(* too (console_write_char).                                                *)
LEMMA WriteShows ==
  ASSUME NEW c \in Screen, NEW ch \in Glyph \ {"\n", "BS"}
  PROVE  Shows(console_write_char(c, ch), c, ch)
<1>1. PICK put : put = console_put_char(c, ch)
  OBVIOUS
<1>2. /\ put \in Screen /\ put.x = c.x /\ put.y = c.y
      /\ put.cells = [c.cells EXCEPT ![Cursor(c)] = ch]
  BY <1>1, PutChar
<1>3. console_write_char(c, ch) =
        IF c.x + 1 = VGA_WIDTH THEN NewLine(put) ELSE [put EXCEPT !.x = @ + 1]
  BY <1>1 DEF console_write_char
<1>4. VGA_WIDTH \in Nat \ {0} /\ c.x \in 0..(VGA_WIDTH - 1) /\ c.y \in Nat
  BY ConsoleAssumption DEF Screen
<1>5. c.y * VGA_WIDTH \in Nat /\ (c.y + 1) * VGA_WIDTH = c.y * VGA_WIDTH + VGA_WIDTH
  BY <1>4, RowCells
<1>6. CASE c.x + 1 = VGA_WIDTH
  <2> DEFINE r == [put EXCEPT !.y = @ + 1, !.x = 0]
  <2>1. console_write_char(c, ch) = r
    BY <1>3, <1>6 DEF NewLine
  <2>2. r \in Screen /\ r.x = 0 /\ r.y = c.y + 1 /\ r.cells = put.cells
    <3>1. put.y + 1 \in Nat /\ put.y + 1 = c.y + 1 /\ 0 \in 0..(VGA_WIDTH - 1)
      BY <1>2, <1>4
    <3> QED
      BY <1>2, <3>1, Zenon DEF Screen
  <2> HIDE DEF r
  <2>3. Cursor(r) = Cursor(c) + 1
    BY <1>4, <1>5, <1>6, <2>2 DEF Cursor
  <2> QED
    BY <1>2, <2>1, <2>2, <2>3 DEF Shows
<1>7. CASE c.x + 1 # VGA_WIDTH
  <2> DEFINE r == [put EXCEPT !.x = @ + 1]
  <2>1. console_write_char(c, ch) = r
    BY <1>3, <1>7
  <2>2. r \in Screen /\ r.x = c.x + 1 /\ r.y = c.y /\ r.cells = put.cells
    BY <1>2, <1>4, <1>7 DEF Screen
  <2> HIDE DEF r
  <2>3. Cursor(r) = Cursor(c) + 1
    BY <1>4, <1>5, <2>2 DEF Cursor
  <2> QED
    BY <1>2, <2>1, <2>2, <2>3 DEF Shows
<1> QED
  BY <1>6, <1>7

\* The cell before the cursor is blank and the cursor goes back to it.
Erased(r, c) ==
  /\ r \in Screen
  /\ Cursor(r) = Cursor(c) - 1
  /\ r.cells = [c.cells EXCEPT ![Cursor(c) - 1] = Blank]

(* Erasing undoes the printing of a character, over the end of a row too,   *)
(* and does nothing in the first cell (console_backspace).                  *)
LEMMA WriteErases ==
  ASSUME NEW c \in Screen
  PROVE  IF Cursor(c) = 0 THEN console_write_char(c, "BS") = c
                          ELSE Erased(console_write_char(c, "BS"), c)
<1>1. console_write_char(c, "BS") = console_backspace(c)
  BY DEF console_write_char
<1>2. VGA_WIDTH \in Nat \ {0} /\ c.x \in 0..(VGA_WIDTH - 1) /\ c.y \in Nat
  BY ConsoleAssumption DEF Screen
<1>3. c.y * VGA_WIDTH \in Nat /\ (c.y = 0 <=> c.y * VGA_WIDTH = 0)
  BY <1>2
<1>4. Cursor(c) = 0 <=> c.x = 0 /\ c.y = 0
  BY <1>2, <1>3 DEF Cursor
<1>5. CASE c.x = 0 /\ c.y = 0
  BY <1>1, <1>4, <1>5 DEF console_backspace
<1>6. CASE ~(c.x = 0 /\ c.y = 0)
  <2>1. PICK back : back = IF c.x = 0 THEN [c EXCEPT !.y = @ - 1, !.x = VGA_WIDTH - 1]
                                      ELSE [c EXCEPT !.x = @ - 1]
    OBVIOUS
  <2>2. console_backspace(c) = console_put_char(back, Blank)
    BY <1>6, <2>1 DEF console_backspace
  <2>3. /\ back \in Screen /\ back.cells = c.cells
        /\ back.x = IF c.x = 0 THEN VGA_WIDTH - 1 ELSE c.x - 1
        /\ back.y = IF c.x = 0 THEN c.y - 1 ELSE c.y
    <3>1. CASE c.x = 0
      <4>1. VGA_WIDTH - 1 \in 0..(VGA_WIDTH - 1) /\ c.y - 1 \in Nat
        BY <1>2, <1>6, <3>1
      <4> QED
        BY <2>1, <3>1, <4>1, Zenon DEF Screen
    <3>2. CASE c.x # 0
      <4>1. c.x - 1 \in 0..(VGA_WIDTH - 1)
        BY <1>2, <3>2
      <4>2. back = [c EXCEPT !.x = c.x - 1]
        BY <2>1, <3>2
      <4> QED
        BY <3>2, <4>1, <4>2 DEF Screen
    <3> QED
      BY <3>1, <3>2
  <2>4. Cursor(back) = Cursor(c) - 1
    <3>1. CASE c.x = 0
      <4>1. c.y - 1 \in Nat
        BY <1>2, <1>6, <3>1
      <4>2. (c.y - 1) * VGA_WIDTH \in Nat /\ (c.y - 1 + 1) * VGA_WIDTH = (c.y - 1) * VGA_WIDTH + VGA_WIDTH
        BY <1>2, <4>1, RowCells
      <4>3. c.y - 1 + 1 = c.y
        BY <1>2
      <4> QED
        BY <1>2, <1>3, <2>3, <3>1, <4>2, <4>3 DEF Cursor
    <3>2. CASE c.x # 0
      BY <1>2, <1>3, <2>3, <3>2 DEF Cursor
    <3> QED
      BY <3>1, <3>2
  <2>5. PICK r : r = console_put_char(back, Blank)
    OBVIOUS
  <2>6. /\ r \in Screen /\ r.x = back.x /\ r.y = back.y
        /\ r.cells = [back.cells EXCEPT ![Cursor(back)] = Blank]
    <3>1. Blank \in Glyph
      BY DEF Glyph
    <3> QED
      BY <2>3, <2>5, <3>1, PutChar
  <2>7. Cursor(r) = Cursor(back)
    BY <2>6 DEF Cursor
  <2>8. Erased(r, c)
    BY <2>3, <2>4, <2>6, <2>7 DEF Erased
  <2> QED
    BY <1>1, <1>4, <1>6, <2>2, <2>5, <2>8
<1> QED
  BY <1>5, <1>6

\* A new line stores nothing (console_write_char).
LEMMA WriteNewLine ==
  ASSUME NEW c \in Screen
  PROVE  console_write_char(c, "\n") \in Screen /\ console_write_char(c, "\n").cells = c.cells
<1>1. PICK r : r = [c EXCEPT !.y = c.y + 1, !.x = 0]
  OBVIOUS
<1>2. console_write_char(c, "\n") = r
  BY <1>1 DEF console_write_char, NewLine
<1>3. c.y + 1 \in Nat /\ 0 \in 0..(VGA_WIDTH - 1)
  BY ConsoleAssumption DEF Screen
<1> QED
  BY <1>1, <1>2, <1>3, Zenon DEF Screen

\* Every character leaves a console.
LEMMA WriteScreen ==
  ASSUME NEW c \in Screen, NEW ch \in Glyph
  PROVE  console_write_char(c, ch) \in Screen
BY WriteShows, WriteErases, WriteNewLine, Zenon DEF Shows, Erased

-----------------------------------------------------------------------------
(* Printing a string                                                        *)

\* The consoles from c on, one for each character printed.
Prints(at, c, str) ==
  /\ at[0] = c
  /\ \A k \in 1..Len(str) : at[k] = console_write_char(at[k - 1], str[k])
  /\ \A k \in 0..Len(str) : at[k] \in Screen

\* print is the run of console_write_char over the string (print, printn).
LEMMA PrintRun ==
  ASSUME NEW c \in Screen, NEW str, Len(str) \in Nat, \A k \in 1..Len(str) : str[k] \in Glyph
  PROVE  \E at : Prints(at, c, str) /\ print(c, str) = at[Len(str)]
<1>1. PICK n \in Nat : n = Len(str)
  OBVIOUS
<1> DEFINE write == [k \in 1..n |-> [s \in Screen |-> console_write_char(s, str[k])]]
<1>2. write \in [1..n -> [Screen -> Screen]]
  BY <1>1, WriteScreen
<1>3. PICK g : IsRun(g, Screen, c, write, n)
  BY <1>2, RunExists, Zenon
<1>4. g \in [0..n -> Screen] /\ g[0] = c
  BY <1>3 DEF IsRun
<1>5. ASSUME NEW k \in 1..n PROVE g[k] = console_write_char(g[k - 1], str[k])
  <2>1. g[k - 1] \in Screen
    BY <1>4
  <2>2. write[k][g[k - 1]] = console_write_char(g[k - 1], str[k])
    BY <2>1
  <2> QED
    BY <2>2, <1>3 DEF IsRun
<1> HIDE DEF write
<1> DEFINE after[k \in 0..Len(str)] ==
             IF k = 0 THEN c ELSE console_write_char(after[k - 1], str[k])
<1>6. print(c, str) = after[Len(str)]
  BY DEF print
<1>7. after = [k \in 0..Len(str) |-> IF k = 0 THEN c ELSE console_write_char(after[k - 1], str[k])]
  <2>1. \A k \in 0..n : g[k] = IF k = 0 THEN c ELSE console_write_char(g[k - 1], str[k])
    BY <1>4, <1>5
  <2>2. g = [k \in 0..n |-> IF k = 0 THEN c ELSE console_write_char(g[k - 1], str[k])]
    BY <1>4, <2>1
  <2>3. \E h : h = [k \in 0..Len(str) |-> IF k = 0 THEN c ELSE console_write_char(h[k - 1], str[k])]
    BY <1>1, <2>2
  <2> QED
    BY <2>3, Zenon
<1> HIDE DEF after
<1>8. /\ after[0] = c
      /\ \A k \in 1..n : after[k] = console_write_char(after[k - 1], str[k])
  BY <1>1, <1>7
<1> DEFINE S == {k \in Nat : k <= n => after[k] \in Screen}
<1>9. Nat \subseteq S
  <2>1. 0 \in S
    BY <1>8
  <2>2. ASSUME NEW k \in Nat, k \in S PROVE k + 1 \in S
    <3> SUFFICES ASSUME k + 1 <= n PROVE after[k + 1] \in Screen
      OBVIOUS
    <3>1. after[k + 1] = console_write_char(after[k], str[k + 1]) /\ str[k + 1] \in Glyph
      BY <1>1, <1>8
    <3> QED
      BY <2>2, <3>1, WriteScreen
  <2> HIDE DEF S
  <2> QED
    BY <2>1, <2>2, EveryNat
<1>10. Prints(after, c, str)
  BY <1>1, <1>8, <1>9 DEF Prints
<1> QED
  BY <1>6, <1>10

\* Whatever is printed leaves a console.
LEMMA PrintScreen ==
  ASSUME NEW c \in Screen, NEW str, Len(str) \in Nat, \A k \in 1..Len(str) : str[k] \in Glyph
  PROVE  print(c, str) \in Screen
<1>1. PICK at : Prints(at, c, str) /\ print(c, str) = at[Len(str)]
  BY PrintRun
<1> QED
  BY <1>1 DEF Prints

(* A string without control characters, for which there is room, is in the  *)
(* cells from the cursor on, and the cursor behind it, wherever the rows    *)
(* end (print).                                                             *)
LEMMA PrintShows ==
  ASSUME NEW c \in Screen, NEW str, Len(str) \in Nat,
         \A k \in 1..Len(str) : str[k] \in Glyph \ {"\n", "BS"},
         Cursor(c) + Len(str) <= VGA_WIDTH * Rows
  PROVE  /\ Cursor(print(c, str)) = Cursor(c) + Len(str)
         /\ \A i \in 1..Len(str) : print(c, str).cells[Cursor(c) + i - 1] = str[i]
<1>1. PICK at : Prints(at, c, str) /\ print(c, str) = at[Len(str)]
  BY PrintRun
<1>2. PICK n \in Nat : n = Len(str)
  OBVIOUS
<1>3. PICK from \in Nat : from = Cursor(c)
  BY CursorCell
<1> DEFINE Good(k) == /\ at[k] \in Screen
                      /\ Cursor(at[k]) = from + k
                      /\ \A i \in 1..k : at[k].cells[from + i - 1] = str[i]
           S == {k \in Nat : k <= n => Good(k)}
<1>4. 0 \in S
  BY <1>1, <1>2, <1>3 DEF Prints
<1>5. ASSUME NEW k \in Nat, k \in S PROVE k + 1 \in S
  <2> SUFFICES ASSUME k + 1 <= n PROVE Good(k + 1)
    OBVIOUS
  <2>1. Good(k)
    BY <1>5
  <2>2. PICK s \in Screen : s = at[k]
    BY <2>1
  <2>3. PICK r : r = at[k + 1]
    OBVIOUS
  <2>4. Shows(r, s, str[k + 1])
    <3>1. r = console_write_char(s, str[k + 1]) /\ str[k + 1] \in Glyph \ {"\n", "BS"}
      BY <1>1, <1>2, <2>2, <2>3 DEF Prints
    <3> QED
      BY <3>1, WriteShows
  <2>5. Cursor(s) = from + k /\ s.cells \in Cells
    BY <2>1, <2>2 DEF Screen
  <2>6. \A i \in 0..k : from + i \in Cell
    <3>1. \A i : i \in Cell <=> i \in Nat /\ i < VGA_WIDTH * Rows
      BY CursorCell
    <3>2. VGA_WIDTH * Rows \in Nat
      BY ConsoleAssumption, RowCells
    <3> QED
      BY <1>2, <1>3, <3>1, <3>2
  <2>7. r.cells = [s.cells EXCEPT ![from + k] = str[k + 1]] /\ Cursor(r) = from + k + 1
    BY <2>4, <2>5 DEF Shows
  <2>8. ASSUME NEW i \in 1..(k + 1) PROVE r.cells[from + i - 1] = str[i]
    <3>1. CASE i = k + 1
      BY <2>5, <2>6, <2>7, <3>1 DEF Cells
    <3>2. CASE i \in 1..k
      <4>1. from + i - 1 # from + k /\ i - 1 \in 0..k /\ from + (i - 1) = from + i - 1
        BY <3>2
      <4>2. from + i - 1 \in Cell
        BY <2>6, <4>1, SMTT(40)
      <4>3. r.cells[from + i - 1] = s.cells[from + i - 1]
        BY <2>5, <2>7, <4>1, <4>2 DEF Cells
      <4> QED
        BY <2>1, <2>2, <3>2, <4>3
    <3> QED
      BY <3>1, <3>2
  <2> QED
    BY <2>3, <2>4, <2>7, <2>8 DEF Shows
<1>6. Nat \subseteq S
  <2> HIDE DEF S
  <2> QED
    BY <1>4, <1>5, EveryNat
<1> QED
  BY <1>1, <1>2, <1>3, <1>6

-----------------------------------------------------------------------------
(* Numbers                                                                  *)

\* Dividing by ten, and what is left.
LEMMA DivTen ==
  ASSUME NEW v \in Nat
  PROVE  v \div 10 \in Nat /\ v % 10 \in 0..9 /\ v = (v \div 10) * 10 + (v % 10)
OBVIOUS

\* What is left of a number after each division (the loops of itoa).
LEMMA LeftRun ==
  ASSUME NEW v \in Nat
  PROVE  /\ Left(v) \in [0..MAX_DIGITS -> Nat]
         /\ Left(v)[0] = v
         /\ \A k \in 1..MAX_DIGITS : Left(v)[k] = Left(v)[k - 1] \div 10
<1>1. PICK n \in Nat : n = MAX_DIGITS
  BY DEF MAX_DIGITS
<1> DEFINE divide == [k \in 1..n |-> [x \in Nat |-> x \div 10]]
<1>2. divide \in [1..n -> [Nat -> Nat]]
  BY DivTen
<1>3. PICK g : IsRun(g, Nat, v, divide, n)
  BY <1>2, RunExists, Zenon
<1>4. g \in [0..n -> Nat] /\ g[0] = v
  BY <1>3 DEF IsRun
<1>5. ASSUME NEW k \in 1..n PROVE g[k] = g[k - 1] \div 10
  <2>1. g[k - 1] \in Nat
    BY <1>4
  <2>2. divide[k][g[k - 1]] = g[k - 1] \div 10
    BY <2>1
  <2> QED
    BY <2>2, <1>3 DEF IsRun
<1> HIDE DEF divide
<1> DEFINE cx[i \in 0..MAX_DIGITS] == IF i = 0 THEN v ELSE cx[i - 1] \div 10
<1>6. Left(v) = cx
  BY DEF Left
<1>7. cx = [i \in 0..MAX_DIGITS |-> IF i = 0 THEN v ELSE cx[i - 1] \div 10]
  <2>1. \A k \in 0..n : g[k] = IF k = 0 THEN v ELSE g[k - 1] \div 10
    BY <1>4, <1>5
  <2>2. g = [k \in 0..n |-> IF k = 0 THEN v ELSE g[k - 1] \div 10]
    BY <1>4, <2>1
  <2>3. \E h : h = [k \in 0..MAX_DIGITS |-> IF k = 0 THEN v ELSE h[k - 1] \div 10]
    BY <1>1, <2>2
  <2> QED
    BY <2>3, Zenon
<1> HIDE DEF cx
<1>8. cx[0] = v /\ \A k \in 1..n : cx[k] = cx[k - 1] \div 10
  BY <1>1, <1>7
<1> DEFINE S == {k \in Nat : k <= n => cx[k] \in Nat}
<1>9. Nat \subseteq S
  <2>1. 0 \in S
    BY <1>8
  <2>2. ASSUME NEW k \in Nat, k \in S PROVE k + 1 \in S
    <3> SUFFICES ASSUME k + 1 <= n PROVE cx[k + 1] \in Nat
      OBVIOUS
    <3>1. cx[k + 1] = cx[k] \div 10 /\ cx[k] \in Nat
      BY <1>8, <2>2
    <3> QED
      BY <3>1, DivTen
  <2> HIDE DEF S
  <2> QED
    BY <2>1, <2>2, EveryNat
<1>10. cx \in [0..MAX_DIGITS -> Nat]
  <2>1. \A k \in 0..n : cx[k] \in Nat
    BY <1>9
  <2> QED
    BY <1>1, <1>7, <2>1
<1> QED
  BY <1>1, <1>6, <1>8, <1>10

\* The magnitude of an int that is not zero.
Magnitude(v) == v \in Nat /\ v # 0 /\ v <= 2147483648

\* An int has at most ten digits, the first of which is not zero.
LEMMA DigitCount ==
  ASSUME NEW v, Magnitude(v)
  PROVE  /\ num_digits(v) \in 1..MAX_DIGITS
         /\ Left(v)[num_digits(v)] = 0
         /\ \A i \in 0..(num_digits(v) - 1) : Left(v)[i] # 0
<1>1. PICK f : f = Left(v)
  OBVIOUS
<1>3. f[10] = 0
  <2>1. f[0] = v /\ \A k \in 1..13 : f[k] = f[k - 1] \div 10
    BY <1>1, LeftRun, SMT DEF MAX_DIGITS, Magnitude
  <2>2. f[0] \in Nat /\ f[0] <= 2147483648
    BY <2>1, SMT DEF Magnitude
  <2>3. f[1] \in Nat /\ f[1] <= 214748364
    <3>1. f[1] = f[0] \div 10
      BY <2>1, SMT
    <3> QED
      BY <2>2, <3>1, SMT
  <2>4. f[2] \in Nat /\ f[2] <= 21474836
    <3>1. f[2] = f[1] \div 10
      BY <2>1, SMT
    <3> QED
      BY <2>3, <3>1, SMT
  <2>5. f[3] \in Nat /\ f[3] <= 2147483
    <3>1. f[3] = f[2] \div 10
      BY <2>1, SMT
    <3> QED
      BY <2>4, <3>1, SMT
  <2>6. f[4] \in Nat /\ f[4] <= 214748
    <3>1. f[4] = f[3] \div 10
      BY <2>1, SMT
    <3> QED
      BY <2>5, <3>1, SMT
  <2>7. f[5] \in Nat /\ f[5] <= 21474
    <3>1. f[5] = f[4] \div 10
      BY <2>1, SMT
    <3> QED
      BY <2>6, <3>1, SMT
  <2>8. f[6] \in Nat /\ f[6] <= 2147
    <3>1. f[6] = f[5] \div 10
      BY <2>1, SMT
    <3> QED
      BY <2>7, <3>1, SMT
  <2>9. f[7] \in Nat /\ f[7] <= 214
    <3>1. f[7] = f[6] \div 10
      BY <2>1, SMT
    <3> QED
      BY <2>8, <3>1, SMT
  <2>10. f[8] \in Nat /\ f[8] <= 21
    <3>1. f[8] = f[7] \div 10
      BY <2>1, SMT
    <3> QED
      BY <2>9, <3>1, SMT
  <2>11. f[9] \in Nat /\ f[9] <= 2
    <3>1. f[9] = f[8] \div 10
      BY <2>1, SMT
    <3> QED
      BY <2>10, <3>1, SMT
  <2>12. f[10] \in Nat /\ f[10] <= 0
    <3>1. f[10] = f[9] \div 10
      BY <2>1, SMT
    <3> QED
      BY <2>11, <3>1, SMT
  <2> QED
    BY <2>12, SMT
<1> DEFINE zero == {i \in 0..MAX_DIGITS : f[i] = 0}
<1>4. 10 \in zero /\ zero \in SUBSET Nat /\ num_digits(v) = Min(zero)
  BY <1>1, <1>3 DEF num_digits, MAX_DIGITS
<1> HIDE DEF zero
<1>5. \E m \in zero : \A n \in zero : m <= n
  BY <1>4, LeastElement
<1>6. PICK m : m = Min(zero)
  OBVIOUS
<1>7. m \in zero /\ \A n \in zero : m <= n
  BY <1>5, <1>6 DEF Min
<1>8. m \in 0..MAX_DIGITS /\ f[m] = 0 /\ \A i \in 0..MAX_DIGITS : f[i] = 0 => m <= i
  BY <1>7 DEF zero
<1>9. m # 0
  BY <1>1, <1>8, LeftRun, SMT DEF Magnitude
<1>10. \A i \in 0..(m - 1) : f[i] # 0
  BY <1>8 DEF MAX_DIGITS
<1> QED
  BY <1>1, <1>4, <1>6, <1>8, <1>9, <1>10 DEF MAX_DIGITS

\* A digit reads as its number (itoa's '0' + x, atoi's c - '0').
LEMMA DigitReads ==
  ASSUME NEW d \in 0..9
  PROVE  /\ Digit[d + 1] \in Glyph \ {"\n", "BS"} /\ Digit[d + 1] # "-"
         /\ DigitValue(Digit[d + 1]) = d
         /\ d # 0 => Digit[d + 1] # "0"
<1>1. \A a, b \in 1..10 : Digit[a] = Digit[b] => a = b
  BY DEF Digit
<1>2. d + 1 \in 1..10
  OBVIOUS
<1>3. PICK c : c = Digit[d + 1]
  OBVIOUS
<1>4. DigitValue(c) = d
  <2>1. \A e \in 1..10 : Digit[e] = c <=> e = d + 1
    BY <1>1, <1>2, <1>3
  <2>2. (CHOOSE a \in 1..10 : Digit[a] = c) \in 1..10 /\ Digit[CHOOSE a \in 1..10 : Digit[a] = c] = c
    BY <1>2, <1>3, Zenon
  <2> QED
    BY <2>1, <2>2 DEF DigitValue
<1>5. \A a \in 1..10 : Digit[a] \notin {"\n", "BS", "-"} /\ (a # 1 => Digit[a] # "0")
  BY DEF Digit
<1>6. Digit[d + 1] \in Glyph
  BY <1>2 DEF Glyph
<1> QED
  BY <1>2, <1>3, <1>4, <1>5, <1>6

\* The digits itoa makes, one by one, and that none of them is another character.
LEMMA DigitsShape ==
  ASSUME NEW v, Magnitude(v)
  PROVE  /\ DigitsOf(v) \in Seq(Glyph) /\ Len(DigitsOf(v)) = num_digits(v)
         /\ \A k \in 1..num_digits(v) :
              DigitsOf(v)[k] = Digit[(Left(v)[num_digits(v) - k] % 10) + 1]
         /\ \A k \in 1..num_digits(v) : Left(v)[num_digits(v) - k] % 10 \in 0..9
<1>1. PICK n : n = num_digits(v)
  OBVIOUS
<1>2. n \in 1..13
  BY <1>1, DigitCount DEF MAX_DIGITS
<1>3. PICK f : f = Left(v)
  OBVIOUS
<1>4. f \in [0..13 -> Nat]
  BY <1>3, LeftRun, SMT DEF MAX_DIGITS, Magnitude
<1>5. ASSUME NEW k \in 1..n PROVE f[n - k] % 10 \in 0..9
  <2>1. f[n - k] \in Nat
    BY <1>2, <1>4
  <2> QED
    BY <2>1, DivTen
<1>6. DigitsOf(v) = [k \in 1..n |-> Digit[(f[n - k] % 10) + 1]]
  BY <1>1, <1>3, Zenon DEF DigitsOf
<1>7. \A k \in 1..n : Digit[(f[n - k] % 10) + 1] \in Glyph
  BY <1>5, DigitReads
<1>8. DigitsOf(v) \in [1..n -> Glyph]
  BY <1>6, <1>7
<1>9. DigitsOf(v) \in Seq(Glyph) /\ Len(DigitsOf(v)) = n
  <2>1. n \in Nat
    BY <1>2
  <2> QED
    BY <1>8, <2>1
<1>10. \A k \in 1..n : DigitsOf(v)[k] = Digit[(f[n - k] % 10) + 1]
  BY <1>6
<1> QED
  BY <1>1, <1>3, <1>5, <1>9, <1>10, Zenon

\* The loop of atoi.
LEMMA ValueRun ==
  ASSUME NEW b, Len(b) \in Nat, \A k \in 1..Len(b) : DigitValue(b[k]) \in Int
  PROVE  \E res : /\ res[0] = 0
                  /\ \A k \in 1..Len(b) : res[k] = res[k - 1] * 10 + DigitValue(b[k])
                  /\ Value(b) = res[Len(b)]
<1>1. PICK n \in Nat : n = Len(b)
  OBVIOUS
<1> DEFINE turn == [k \in 1..n |-> [x \in Int |-> x * 10 + DigitValue(b[k])]]
<1>2. turn \in [1..n -> [Int -> Int]]
  BY <1>1
<1>3. PICK g : IsRun(g, Int, 0, turn, n)
  <2> HIDE DEF turn
  <2>1. 0 \in Int
    OBVIOUS
  <2> QED
    BY <1>2, <2>1, RunExists, Zenon
<1>4. g \in [0..n -> Int] /\ g[0] = 0
  BY <1>3 DEF IsRun
<1>5. ASSUME NEW k \in 1..n PROVE g[k] = g[k - 1] * 10 + DigitValue(b[k])
  <2>1. g[k - 1] \in Int
    BY <1>4
  <2>2. turn[k][g[k - 1]] = g[k - 1] * 10 + DigitValue(b[k])
    BY <2>1
  <2> QED
    BY <2>2, <1>3 DEF IsRun
<1> HIDE DEF turn
<1> DEFINE res[k \in 0..Len(b)] == IF k = 0 THEN 0 ELSE res[k - 1] * 10 + DigitValue(b[k])
<1>6. Value(b) = res[Len(b)]
  BY DEF Value
<1>7. res = [k \in 0..Len(b) |-> IF k = 0 THEN 0 ELSE res[k - 1] * 10 + DigitValue(b[k])]
  <2>1. \A k \in 0..n : g[k] = IF k = 0 THEN 0 ELSE g[k - 1] * 10 + DigitValue(b[k])
    BY <1>4, <1>5
  <2>2. g = [k \in 0..n |-> IF k = 0 THEN 0 ELSE g[k - 1] * 10 + DigitValue(b[k])]
    BY <1>4, <2>1
  <2>3. \E h : h = [k \in 0..Len(b) |-> IF k = 0 THEN 0 ELSE h[k - 1] * 10 + DigitValue(b[k])]
    BY <1>1, <2>2
  <2> QED
    BY <2>3, Zenon
<1> HIDE DEF res
<1>8. res[0] = 0 /\ \A k \in 1..Len(b) : res[k] = res[k - 1] * 10 + DigitValue(b[k])
  BY <1>7
<1> QED
  BY <1>6, <1>8

(* The digits of a number read as the number: atoi's loop goes through what *)
(* the divisions left, from the last to the first (itoa, atoi).             *)
LEMMA DigitsRead ==
  ASSUME NEW v, Magnitude(v)
  PROVE  Value(DigitsOf(v)) = v
<1>1. PICK n : n = num_digits(v)
  OBVIOUS
<1>2. PICK f : f = Left(v)
  OBVIOUS
<1>3. PICK b : b = DigitsOf(v)
  OBVIOUS
<1>4. n \in 1..13 /\ f[n] = 0
  BY <1>1, <1>2, DigitCount DEF MAX_DIGITS
<1>5. f \in [0..13 -> Nat] /\ f[0] = v /\ \A k \in 1..13 : f[k] = f[k - 1] \div 10
  BY <1>2, LeftRun, SMT DEF MAX_DIGITS, Magnitude
<1>6. /\ Len(b) = n
      /\ \A k \in 1..n : b[k] = Digit[(f[n - k] % 10) + 1] /\ f[n - k] % 10 \in 0..9
  BY <1>1, <1>2, <1>3, DigitsShape, Zenon
<1>7. \A k \in 1..n : DigitValue(b[k]) = f[n - k] % 10
  BY <1>6, DigitReads, Zenon
<1>8. PICK res : /\ res[0] = 0
                 /\ \A k \in 1..n : res[k] = res[k - 1] * 10 + DigitValue(b[k])
                 /\ Value(b) = res[n]
  <2>1. Len(b) \in Nat /\ \A k \in 1..Len(b) : DigitValue(b[k]) \in Int
    BY <1>4, <1>6, <1>7
  <2> QED
    BY <1>6, <2>1, ValueRun, Zenon
<1> DEFINE S == {k \in Nat : k <= n => res[k] = f[n - k]}
<1>9. Nat \subseteq S
  <2>1. 0 \in S
    BY <1>4, <1>8
  <2>2. ASSUME NEW k \in Nat, k \in S PROVE k + 1 \in S
    <3> SUFFICES ASSUME k + 1 <= n PROVE res[k + 1] = f[n - (k + 1)]
      OBVIOUS
    <3>1. PICK a \in Nat : a = f[n - (k + 1)]
      BY <1>4, <1>5
    <3>2. f[n - k] = a \div 10
      <4>1. n - k \in 1..13 /\ n - k - 1 = n - (k + 1)
        BY <1>4
      <4> QED
        BY <1>5, <3>1, <4>1
    <3>3. res[k + 1] = res[k] * 10 + (a % 10)
      <4>1. k + 1 \in 1..n /\ k + 1 - 1 = k
        BY <1>4
      <4> QED
        BY <1>7, <1>8, <3>1, <4>1
    <3>4. res[k] = a \div 10
      BY <1>4, <2>2, <3>2
    <3> QED
      BY <3>1, <3>3, <3>4, DivTen, Zenon
  <2> HIDE DEF S
  <2> QED
    BY <2>1, <2>2, EveryNat
<1>10. res[n] = v
  <2>1. n \in S /\ n - n = 0
    BY <1>4, <1>9
  <2> QED
    BY <1>4, <1>5, <2>1
<1> QED
  BY <1>3, <1>8, <1>10, Zenon

\* What is printed for a number: one or more printing characters that read as the number.
ShowsNumber(str, n) ==
  /\ str \in Seq(Glyph) /\ Len(str) >= 1
  /\ \A k \in 1..Len(str) : str[k] \in Glyph \ {"\n", "BS"}
  /\ n # INT_MIN => atoi(str) = n /\ (Len(str) > 1 => str[1] # "0")

\* The digits of a number, as a string.
LEMMA DigitString ==
  ASSUME NEW v, Magnitude(v)
  PROVE  /\ DigitsOf(v) \in Seq(Glyph) /\ Len(DigitsOf(v)) \in Nat \ {0}
         /\ \A k \in 1..Len(DigitsOf(v)) : DigitsOf(v)[k] \in Glyph \ {"\n", "BS"}
         /\ DigitsOf(v)[1] # "0" /\ DigitsOf(v)[1] # "-"
<1>1. PICK n : n = num_digits(v)
  OBVIOUS
<1>2. PICK f : f = Left(v)
  OBVIOUS
<1>3. PICK b : b = DigitsOf(v)
  OBVIOUS
<1>4. n \in 1..13 /\ f[n] = 0 /\ \A i \in 0..(n - 1) : f[i] # 0
  BY <1>1, <1>2, DigitCount DEF MAX_DIGITS
<1>5. f \in [0..13 -> Nat] /\ \A k \in 1..13 : f[k] = f[k - 1] \div 10
  BY <1>2, LeftRun, SMT DEF MAX_DIGITS, Magnitude
<1>6. /\ b \in Seq(Glyph) /\ Len(b) = n
      /\ \A k \in 1..n : b[k] = Digit[(f[n - k] % 10) + 1] /\ f[n - k] % 10 \in 0..9
  BY <1>1, <1>2, <1>3, DigitsShape, Zenon
<1>7. \A k \in 1..n : b[k] \in Glyph \ {"\n", "BS"} /\ b[k] # "-"
  BY <1>6, DigitReads, Zenon
<1>8. b[1] # "0"
  <2>1. PICK a \in Nat : a = f[n - 1]
    BY <1>4, <1>5
  <2>2. a # 0 /\ a \div 10 = 0
    BY <1>4, <1>5, <2>1
  <2>3. a % 10 # 0
    BY <2>2, DivTen
  <2>4. b[1] = Digit[(a % 10) + 1] /\ a % 10 \in 0..9
    BY <1>4, <1>6, <2>1
  <2> QED
    BY <2>3, <2>4, DigitReads
<1>9. n \in Nat \ {0} /\ 1 \in 1..n
  BY <1>4
<1> QED
  BY <1>3, <1>6, <1>7, <1>8, <1>9

\* A zero reads as zero.
LEMMA ZeroReads == Value(<<"0">>) = 0
<1>1. PICK b : b = <<"0">>
  OBVIOUS
<1>2. Len(b) = 1 /\ b[1] = Digit[1]
  BY <1>1 DEF Digit
<1>3. DigitValue(b[1]) = 0
  BY <1>2, DigitReads
<1>4. PICK res : /\ res[0] = 0
                 /\ \A k \in 1..Len(b) : res[k] = res[k - 1] * 10 + DigitValue(b[k])
                 /\ Value(b) = res[Len(b)]
  BY <1>2, <1>3, ValueRun
<1>5. res[1] = 0
  BY <1>2, <1>3, <1>4
<1> QED
  BY <1>1, <1>2, <1>4, <1>5

(* itoa makes what atoi reads as the number, without leading zeros, except  *)
(* of INT_MIN, which it cannot negate.                                      *)
LEMMA ItoaShows ==
  ASSUME NEW n \in Numbers
  PROVE  ShowsNumber(itoa(n), n)
<1>1. n \in Int /\ n >= INT_MIN /\ n <= INT_MAX /\ INT_MAX \in Nat
  BY TerminalAssumption, SMT DEF INT_MIN
<1>2. n > 0 => Magnitude(n)
  BY <1>1, TerminalAssumption, SMT DEF Magnitude
<1>3. n < 0 => Magnitude(-n)
  BY <1>1, TerminalAssumption, SMT DEF Magnitude, INT_MIN
<1>4. "-" \in Glyph \ {"\n", "BS"} /\ "0" \in Glyph \ {"\n", "BS"}
  <2>1. "0" = Digit[1]
    BY DEF Digit
  <2> QED
    BY <2>1 DEF Glyph
<1>5. CASE n > 0
  <2>1. itoa(n) = <<>> \o DigitsOf(n)
    <3>1. ~(n < 0) /\ ~(n <= 0)
      BY <1>1, <1>5
    <3> QED
      BY <3>1, Zenon DEF itoa
  <2>2. PICK b : b = DigitsOf(n)
    OBVIOUS
  <2>3. /\ b \in Seq(Glyph) /\ Len(b) \in Nat \ {0} /\ b[1] # "0" /\ b[1] # "-"
        /\ \A k \in 1..Len(b) : b[k] \in Glyph \ {"\n", "BS"}
    BY <1>2, <1>5, <2>2, DigitString
  <2>4. Value(b) = n
    BY <1>2, <1>5, <2>2, DigitsRead
  <2>5. itoa(n) = b
    BY <2>1, <2>2, <2>3
  <2>6. atoi(b) = n
    BY <2>3, <2>4 DEF atoi
  <2> QED
    BY <2>3, <2>5, <2>6 DEF ShowsNumber
<1>6. CASE n = 0
  <2>1. itoa(n) = <<"0">>
    BY <1>6 DEF itoa
  <2>2. atoi(<<"0">>) = 0
    BY ZeroReads DEF atoi
  <2>3. PICK b : b = <<"0">>
    OBVIOUS
  <2>4. Len(b) = 1 /\ b[1] = "0" /\ b \in Seq(Glyph)
    BY <1>4, <2>3
  <2>5. ShowsNumber(b, n)
    BY <1>4, <1>6, <2>2, <2>3, <2>4 DEF ShowsNumber
  <2> QED
    BY <2>1, <2>3, <2>5
<1>7. CASE n < 0
  <2>1. PICK b : b = IF n = INT_MIN THEN <<"0">> ELSE DigitsOf(-n)
    OBVIOUS
  <2>2. itoa(n) = <<"-">> \o b
    <3>1. CASE n = INT_MIN
      BY <1>1, <1>7, <2>1, <3>1 DEF itoa, Negated
    <3>2. CASE n # INT_MIN
      BY <1>1, <1>7, <2>1, <3>2 DEF itoa, Negated
    <3> QED
      BY <3>1, <3>2
  <2>3. /\ b \in Seq(Glyph) /\ Len(b) \in Nat \ {0}
        /\ \A k \in 1..Len(b) : b[k] \in Glyph \ {"\n", "BS"}
    <3>1. CASE n = INT_MIN
      BY <1>4, <2>1, <3>1
    <3>2. CASE n # INT_MIN
      BY <1>3, <1>7, <2>1, <3>2, DigitString
    <3> QED
      BY <3>1, <3>2
  <2>4. n # INT_MIN => Value(b) = -n
    BY <1>3, <1>7, <2>1, DigitsRead
  <2>5. PICK s : s = <<"-">> \o b
    OBVIOUS
  <2>6. /\ s \in Seq(Glyph) /\ Len(s) = Len(b) + 1 /\ s[1] = "-" /\ Tail(s) = b
        /\ \A k \in 1..Len(b) : s[k + 1] = b[k]
    BY <1>4, <2>3, <2>5
  <2>7. \A k \in 1..Len(s) : s[k] \in Glyph \ {"\n", "BS"}
    <3> SUFFICES ASSUME NEW k \in 1..Len(s), k # 1 PROVE s[k] \in Glyph \ {"\n", "BS"}
      BY <1>4, <2>6
    <3>1. k - 1 \in 1..Len(b) /\ k - 1 + 1 = k
      BY <2>3, <2>6
    <3> QED
      BY <2>3, <2>6, <3>1, Zenon
  <2>8. n # INT_MIN => atoi(s) = n
    <3>1. atoi(s) = -Value(b)
      BY <2>6, Zenon DEF atoi
    <3> QED
      BY <1>1, <2>4, <3>1
  <2>9. "-" # "0"
    OBVIOUS
  <2>10. ShowsNumber(s, n)
    BY <2>3, <2>6, <2>7, <2>8, <2>9 DEF ShowsNumber
  <2> QED
    BY <2>2, <2>5, <2>10
<1> QED
  BY <1>1, <1>5, <1>6, <1>7

-----------------------------------------------------------------------------
(* The invariant                                                            *)

(* While a line is read the cursor is as many cells behind the prompt as    *)
(* the line has keys, and each key is in its cell.                          *)
Reading ==
  /\ start \in Nat /\ idx \in Nat
  /\ typed \in Seq(Keys) /\ Len(typed) = idx
  /\ Cursor(con) = start + idx
  /\ idx > 0 => start + idx <= VGA_WIDTH * Rows
  /\ \A i \in 1..idx : con.cells[start + i - 1] = typed[i]

Inv ==
  /\ con \in Screen
  /\ phase = "read" => Reading
  /\ phase = "number" => number \in Numbers /\ Since = itoa(number)

\* The keys and what commands print are strings that a cell can hold.
LEMMA Printable ==
  /\ \A c \in Keys : c \in Glyph \ {"\n", "BS"}
  /\ \A str \in Outputs : Len(str) \in Nat /\ \A k \in 1..Len(str) : str[k] \in Glyph
  /\ Len(PROMPT) = 2 /\ \A k \in 1..2 : PROMPT[k] \in Glyph
<1>1. Keys \subseteq STRING \ {"\n", "BS"} /\ Outputs \subseteq Seq(STRING)
  BY TerminalAssumption, SMT
<1>2. \A c \in Keys : c \in Glyph \ {"\n", "BS"}
  BY <1>1 DEF Glyph
<1>3. ASSUME NEW str \in Outputs
      PROVE  Len(str) \in Nat /\ \A k \in 1..Len(str) : str[k] \in Glyph
  <2>1. str \in Seq(STRING)
    BY <1>1
  <2>2. Len(str) \in Nat /\ \A k \in 1..Len(str) : str[k] \in STRING
    BY <2>1
  <2> QED
    BY <2>2 DEF Glyph
<1>4. Len(PROMPT) = 2 /\ PROMPT[1] = ">" /\ PROMPT[2] = Blank
  BY DEF PROMPT, Blank
<1>5. \A k \in 1..2 : PROMPT[k] \in Glyph
  BY <1>4 DEF Glyph
<1> QED
  BY <1>2, <1>3, <1>4, <1>5

\* The invariant holds of the console that console_init leaves.
LEMMA InitInv == Init => Inv
<1> SUFFICES ASSUME Init PROVE Inv
  OBVIOUS
<1>1. Blank \in Glyph /\ "?" \in Glyph
  BY DEF Glyph
<1>2. [i \in Cell |-> IF i < VGA_WIDTH * VGA_HEIGHT THEN Blank ELSE "?"] \in Cells
  BY <1>1 DEF Cells
<1>3. 0 \in 0..(VGA_WIDTH - 1) /\ 0 \in Nat
  BY ConsoleAssumption
<1>4. console_init \in Screen
  BY <1>2, <1>3 DEF console_init, Screen
<1>5. con = console_init /\ phase = "prompt"
  BY DEF Init
<1> QED
  BY <1>4, <1>5 DEF Inv

\* The prompt begins an empty line (shell).
LEMMA PromptInv ==
  ASSUME Inv, NEW has_memory \in BOOLEAN, shell_prompt(has_memory)
  PROVE  Inv'
<1>1. PICK r : r = con'
  OBVIOUS
<1>2. r \in Screen
  BY <1>1, Printable, PrintScreen DEF Inv, shell_prompt, syscall_print
<1>3. Cursor(r) \in Nat
  BY <1>2, CursorCell
<1>4. /\ phase' = "read" /\ start' = Cursor(r) /\ idx' = 0 /\ typed' = <<>>
  BY <1>1 DEF shell_prompt
<1>5. Reading'
  BY <1>1, <1>3, <1>4 DEF Reading, Cursor
<1> QED
  BY <1>1, <1>2, <1>4, <1>5 DEF Inv

\* A key goes to the cell behind the line (readline_terminal).
LEMMA KeyInv ==
  ASSUME Inv, NEW c \in Keys, readline_key(c)
  PROVE  Inv'
<1>1. PICK s \in Screen : s = con
  BY DEF Inv
<1>2. PICK r : r = con'
  OBVIOUS
<1>3. PICK n \in Nat : n = idx
  BY DEF Inv, Reading, readline_key
<1>4. PICK from \in Nat : from = start
  BY DEF Inv, Reading, readline_key
<1>5. PICK t \in Seq(Keys) : t = typed
  BY DEF Inv, Reading, readline_key
<1>6. /\ Len(t) = n /\ Cursor(s) = from + n
      /\ \A i \in 1..n : s.cells[from + i - 1] = t[i]
  BY <1>1, <1>3, <1>4, <1>5 DEF Inv, Reading, readline_key
<1>7. s.y + 1 < Rows /\ s.y \in Nat /\ Rows \in Nat
  BY <1>1, ConsoleAssumption DEF readline_key, Screen
<1>8. Cursor(s) \in Cell /\ Cursor(s) + 1 <= VGA_WIDTH * Rows
  BY <1>1, <1>7, CursorCell
<1>9. Shows(r, s, c)
  BY <1>1, <1>2, Printable, WriteShows DEF readline_key
<1>10. r \in Screen /\ Cursor(r) = from + n + 1 /\ r.cells = [s.cells EXCEPT ![from + n] = c]
  BY <1>6, <1>9 DEF Shows
<1>11. s.cells \in Cells
  BY DEF Screen
<1>12. \A i \in 1..(n + 1) : r.cells[from + i - 1] = Append(t, c)[i]
  <2> SUFFICES ASSUME NEW i \in 1..(n + 1)
               PROVE  r.cells[from + i - 1] = Append(t, c)[i]
    OBVIOUS
  <2>1. CASE i = n + 1
    <3>1. from + i - 1 = from + n /\ from + n \in Cell
      BY <1>6, <1>8, <2>1
    <3> QED
      BY <1>6, <1>10, <1>11, <2>1, <3>1 DEF Cells
  <2>2. CASE i \in 1..n
    <3>1. from + i - 1 \in Nat /\ from + i - 1 < Cursor(s) /\ from + i - 1 # from + n
      BY <1>6, <2>2
    <3>2. from + i - 1 \in Cell
      BY <1>8, <3>1, CursorCell
    <3>3. r.cells[from + i - 1] = s.cells[from + i - 1]
      BY <1>10, <1>11, <3>1, <3>2 DEF Cells
    <3>4. Append(t, c)[i] = t[i]
      BY <1>6, <2>2
    <3>5. s.cells[from + i - 1] = t[i]
      BY <1>6, <2>2
    <3> QED
      BY <3>3, <3>4, <3>5, Zenon
  <2>3. i = n + 1 \/ i \in 1..n
    OBVIOUS
  <2> QED
    BY <2>1, <2>2, <2>3, Zenon
<1>13. Append(t, c) \in Seq(Keys) /\ Len(Append(t, c)) = n + 1
  BY <1>6
<1>14. PICK u : u = Append(t, c)
  OBVIOUS
<1>15. idx' = n + 1 /\ start' = from /\ typed' = u /\ phase' \in {"read", "command"}
  BY <1>3, <1>4, <1>5, <1>14 DEF readline_key
<1>16. Cursor(con)' = Cursor(r)
  BY <1>2 DEF Cursor
<1>17. from + n + 1 <= VGA_WIDTH * Rows
  BY <1>6, <1>8
<1>18. Reading'
  BY <1>2, <1>10, <1>12, <1>13, <1>14, <1>15, <1>16, <1>17 DEF Reading
<1> QED
  BY <1>2, <1>10, <1>15, <1>18 DEF Inv

\* BACKSPACE takes the last key off the line and off the screen (readline_terminal).
LEMMA BackspaceInv ==
  ASSUME Inv, readline_backspace
  PROVE  Inv'
<1>1. PICK s \in Screen : s = con
  BY DEF Inv
<1>2. PICK r : r = con'
  OBVIOUS
<1>3. PICK n \in Nat \ {0} : n = idx
  BY DEF Inv, Reading, readline_backspace, Erases
<1>4. PICK from \in Nat : from = start
  BY DEF Inv, Reading, readline_backspace
<1>5. PICK t \in Seq(Keys) : t = typed
  BY DEF Inv, Reading, readline_backspace
<1>6. /\ Len(t) = n /\ Cursor(s) = from + n /\ from + n <= VGA_WIDTH * Rows
      /\ \A i \in 1..n : s.cells[from + i - 1] = t[i]
  BY <1>1, <1>3, <1>4, <1>5 DEF Inv, Reading, readline_backspace
<1>7. Erased(r, s)
  BY <1>1, <1>2, <1>6, WriteErases DEF readline_backspace
<1>8. r \in Screen /\ Cursor(r) = from + n - 1 /\ r.cells = [s.cells EXCEPT ![from + n - 1] = Blank]
  BY <1>6, <1>7 DEF Erased
<1>9. s.cells \in Cells
  BY DEF Screen
<1>10. PICK u : u = SubSeq(t, 1, n - 1)
  OBVIOUS
<1>11. u \in Seq(Keys) /\ Len(u) = n - 1 /\ \A i \in 1..(n - 1) : u[i] = t[i]
  BY <1>6, <1>10
<1>12. ASSUME NEW i \in 1..(n - 1) PROVE r.cells[from + i - 1] = u[i]
  <2>1. VGA_WIDTH * Rows \in Nat
    BY ConsoleAssumption, RowCells
  <2>2. from + i - 1 \in Nat /\ from + i - 1 < VGA_WIDTH * Rows /\ from + i - 1 # from + n - 1
    BY <1>6, <2>1
  <2>3. from + i - 1 \in Cell
    BY <1>1, <2>2, CursorCell
  <2>4. r.cells[from + i - 1] = s.cells[from + i - 1]
    BY <1>8, <1>9, <2>2, <2>3 DEF Cells
  <2>5. i \in 1..n
    OBVIOUS
  <2>6. s.cells[from + i - 1] = t[i]
    BY <1>6, <2>5
  <2>7. u[i] = t[i]
    BY <1>11
  <2> QED
    BY <2>4, <2>6, <2>7, Zenon
<1>13. idx' = n - 1 /\ start' = from /\ typed' = u /\ phase' = "read"
  BY <1>3, <1>4, <1>5, <1>6, <1>10 DEF readline_backspace
<1>14. Cursor(con)' = Cursor(r)
  BY <1>2 DEF Cursor
<1>15. VGA_WIDTH * Rows \in Nat
  BY ConsoleAssumption, RowCells
<1>16. Reading'
  BY <1>2, <1>6, <1>8, <1>11, <1>12, <1>13, <1>14, <1>15 DEF Reading
<1> QED
  BY <1>2, <1>8, <1>13, <1>16 DEF Inv

\* What else is written leaves no line half read: ENTER, a command's output, cls.
LEMMA OutputInv ==
  ASSUME Inv,
         \/ readline_enter
         \/ \E str \in Outputs, has_memory \in BOOLEAN : command_prints(str, has_memory)
         \/ \E n \in Numbers : command_prints_number(n, FALSE)
         \/ number_done
         \/ cls
  PROVE  Inv'
<1>1. con \in Screen
  BY DEF Inv
<1>2. phase' \in {"command", "prompt", "unshown"}
  BY Zenon DEF readline_enter, command_prints, command_prints_number, number_done, cls
<1>3. con' \in Screen
  <2>1. CASE readline_enter \/ number_done
    BY <1>1, <2>1, WriteNewLine DEF readline_enter, number_done
  <2>2. CASE \E str \in Outputs, has_memory \in BOOLEAN : command_prints(str, has_memory)
    BY <1>1, <2>2, Printable, PrintScreen DEF command_prints, syscall_print
  <2>3. CASE cls
    <3>1. Blank \in Glyph
      BY DEF Glyph
    <3>2. con.cells \in Cells
      BY <1>1 DEF Screen
    <3>3. [i \in Cell |-> IF i < VGA_WIDTH * VGA_HEIGHT THEN Blank ELSE con.cells[i]] \in Cells
      BY <3>1, <3>2 DEF Cells
    <3>4. 0 \in 0..(VGA_WIDTH - 1) /\ 0 \in Nat
      BY ConsoleAssumption
    <3> QED
      BY <2>3, <3>3, <3>4 DEF cls, clear_screen, Screen
  <2>4. CASE \E n \in Numbers : command_prints_number(n, FALSE)
    BY <1>1, <2>4 DEF command_prints_number, syscall_print
  <2> QED
    BY <2>1, <2>2, <2>3, <2>4, Zenon
<1> QED
  BY <1>2, <1>3 DEF Inv

\* A number is shown from the cursor on (printf).
LEMMA NumberInv ==
  ASSUME Inv, NEW n \in Numbers, command_prints_number(n, TRUE)
  PROVE  Inv'
<1>1. PICK s \in Screen : s = con
  BY DEF Inv
<1>2. PICK r : r = con'
  OBVIOUS
<1>3. PICK str : str = itoa(n)
  OBVIOUS
<1>4. /\ str \in Seq(Glyph) /\ Len(str) \in Nat
      /\ \A k \in 1..Len(str) : str[k] \in Glyph \ {"\n", "BS"}
  BY <1>3, ItoaShows DEF ShowsNumber
<1>5. Len(str) <= VGA_WIDTH
  BY <1>3, NumbersFit
<1>6. PICK from \in Nat : from = Cursor(s)
  BY CursorCell
<1>7. from + Len(str) <= VGA_WIDTH * Rows
  <2>1. s.y + 2 < Rows
    BY <1>1 DEF command_prints_number, Room
  <2>2. from + VGA_WIDTH <= VGA_WIDTH * Rows
    BY <1>6, <2>1, CursorCell
  <2>3. VGA_WIDTH * Rows \in Nat /\ VGA_WIDTH \in Nat
    BY ConsoleAssumption, RowCells
  <2> QED
    BY <1>4, <1>5, <2>2, <2>3
<1>8. r = print(s, str)
  BY <1>1, <1>2, <1>3 DEF command_prints_number, syscall_print
<1>9. r \in Screen
  BY <1>4, <1>8, PrintScreen
<1>10. /\ Cursor(r) = from + Len(str)
       /\ \A i \in 1..Len(str) : r.cells[from + i - 1] = str[i]
  BY <1>4, <1>6, <1>7, <1>8, PrintShows, Zenon
<1>11. start' = from /\ number' = n /\ phase' = "number"
  BY <1>1, <1>6 DEF command_prints_number
<1>12. Cursor(con)' = Cursor(r)
  BY <1>2 DEF Cursor
<1>13. Since' = str
  <2>1. Since' = [i \in 1..(Cursor(r) - from) |-> r.cells[from + i - 1]]
    BY <1>2, <1>11, <1>12 DEF Since
  <2>2. Cursor(r) - from = Len(str)
    BY <1>4, <1>10
  <2>3. str = [i \in 1..Len(str) |-> str[i]]
    BY <1>4
  <2> QED
    BY <1>10, <2>1, <2>2, <2>3
<1>14. itoa(number)' = str
  BY <1>3, <1>11
<1> QED
  BY <1>2, <1>9, <1>11, <1>13, <1>14 DEF Inv

\* Every step keeps the invariant.
LEMMA StepInv == Inv /\ [Next]_vars => Inv'
<1> SUFFICES ASSUME Inv, [Next]_vars PROVE Inv'
  OBVIOUS
<1>1. CASE UNCHANGED vars
  BY <1>1 DEF vars, Inv, Reading, Since, Cursor
<1>2. CASE \E n \in Numbers, has_memory \in BOOLEAN : command_prints_number(n, has_memory)
  BY <1>2, OutputInv, NumberInv, Zenon
<1> QED
  BY <1>1, <1>2, PromptInv, KeyInv, BackspaceInv, OutputInv, Zenon DEF Next

\* The invariant always holds.
LEMMA AlwaysInv == Spec => []Inv
BY InitInv, StepInv, PTL DEF Spec

(* For every width of the console and every sequence of keys: what is shown *)
(* between the prompt and the cursor is the line that readline_terminal     *)
(* holds, also when keys are erased and retyped across the end of a row     *)
(* (console_backspace undoes console_write_char).                           *)
THEOREM LinesEchoed == Spec => []LineEchoed
<1>1. ASSUME Inv PROVE LineEchoed
  <2> SUFFICES ASSUME phase = "read" PROVE Since = typed
    BY DEF LineEchoed
  <2>1. Reading
    BY <1>1 DEF Inv
  <2>2. Cursor(con) - start = Len(typed) /\ Len(typed) = idx
    BY <2>1 DEF Reading
  <2>3. typed = [i \in 1..Len(typed) |-> typed[i]]
    BY <2>1 DEF Reading
  <2>4. \A i \in 1..Len(typed) : con.cells[start + i - 1] = typed[i]
    BY <2>1, <2>2 DEF Reading
  <2>5. Since = [i \in 1..Len(typed) |-> con.cells[start + i - 1]]
    BY <2>2 DEF Since
  <2> QED
    BY <2>3, <2>4, <2>5
<1> QED
  BY <1>1, AlwaysInv, PTL

(* For every int but INT_MIN: what printf shows reads back as the number,   *)
(* without leading zeros, wherever the row ends (itoa, atoi).               *)
THEOREM NumbersShown == Spec => []NumberShown
<1>1. ASSUME Inv PROVE NumberShown
  <2> SUFFICES ASSUME phase = "number", number # INT_MIN
               PROVE  atoi(Since) = number /\ (Len(Since) > 1 => Since[1] # "0")
    BY DEF NumberShown
  <2>1. number \in Numbers /\ Since = itoa(number)
    BY <1>1 DEF Inv
  <2>2. ShowsNumber(itoa(number), number)
    BY <2>1, ItoaShows
  <2> QED
    BY <2>1, <2>2 DEF ShowsNumber
<1> QED
  BY <1>1, AlwaysInv, PTL

(* For every width of the console: reading a line changes no cell before    *)
(* the line, however often BACKSPACE is pressed (readline_terminal).        *)
THEOREM OutputsKept == Spec => OutputKept
<1>1. Inv /\ [Next]_vars =>
        [phase = "read" => \A i \in 0..(start - 1) : con'.cells[i] = con.cells[i]]_vars
  <2> SUFFICES ASSUME Inv, Next, phase = "read", NEW i \in 0..(start - 1)
               PROVE  con'.cells[i] = con.cells[i]
    BY DEF vars
  <2>1. PICK s \in Screen : s = con
    BY DEF Inv
  <2>2. PICK r : r = con'
    OBVIOUS
  <2>3. s.cells \in Cells /\ Cursor(s) \in Nat
    BY CursorCell DEF Screen
  <2>4. Reading /\ i \in Nat /\ start \in Nat /\ idx \in Nat
    BY DEF Inv, Reading
  <2>5. Cursor(s) = start + idx
    BY <2>1, <2>4 DEF Reading
  <2>6. ASSUME NEW at \in Nat, at > i, NEW c, r.cells = [s.cells EXCEPT ![at] = c]
        PROVE  r.cells[i] = s.cells[i]
    <3>1. CASE at \in Cell
      <4>1. \A j : j \in Cell <=> j \in Nat /\ j < VGA_WIDTH * Rows
        BY CursorCell
      <4>2. VGA_WIDTH * Rows \in Nat
        BY ConsoleAssumption, RowCells
      <4>3. i \in Cell
        BY <2>4, <2>6, <3>1, <4>1, <4>2
      <4> QED
        BY <2>3, <2>4, <2>6, <4>3 DEF Cells
    <3>2. CASE at \notin Cell
      BY <2>3, <2>6, <3>2 DEF Cells
    <3> QED
      BY <3>1, <3>2
  <2>7. ASSUME NEW c \in Keys, readline_key(c) PROVE r.cells[i] = s.cells[i]
    <3>1. Shows(r, s, c)
      BY <2>1, <2>2, <2>7, Printable, WriteShows DEF readline_key
    <3>2. r.cells = [s.cells EXCEPT ![Cursor(s)] = c] /\ Cursor(s) > i
      BY <2>4, <2>5, <3>1 DEF Shows
    <3> QED
      BY <2>3, <2>6, <3>2
  <2>8. ASSUME readline_backspace PROVE r.cells[i] = s.cells[i]
    <3>1. idx > 0
      BY <2>8 DEF readline_backspace, Erases
    <3>2. Cursor(s) # 0 /\ Cursor(s) - 1 \in Nat /\ Cursor(s) - 1 > i
      BY <2>4, <2>5, <3>1
    <3>3. Erased(r, s)
      BY <2>1, <2>2, <2>8, <3>2, WriteErases DEF readline_backspace
    <3>4. r.cells = [s.cells EXCEPT ![Cursor(s) - 1] = Blank]
      BY <3>3 DEF Erased
    <3> QED
      BY <2>6, <3>2, <3>4
  <2>9. ASSUME readline_enter PROVE r.cells[i] = s.cells[i]
    BY <2>1, <2>2, <2>9, WriteNewLine DEF readline_enter
  <2>10. \/ \E c \in Keys : readline_key(c)
         \/ readline_backspace
         \/ readline_enter
    BY DEF Next, shell_prompt, command_prints, command_prints_number, number_done, cls
  <2> QED
    BY <2>1, <2>2, <2>7, <2>8, <2>9, <2>10
<1> QED
  BY <1>1, AlwaysInv, PTL DEF Spec, OutputKept
==============================================================================
