------------------------------ MODULE Keyboard -------------------------------
(***************************************************************************)
(* The keyboard: the PS/2 interrupt handler of src/dev/ps2.c, which feeds  *)
(* the ring buffer of the process that runs when a key is pressed, and the *)
(* get_char system call that drains it, src/dev/keyboard.c.                *)
(*                                                                         *)
(* A scan code is one of the classes the driver tells apart, a character   *)
(* one of the classes it can become; Nul is 0x00.  typed[p] and got[p] are *)
(* ghosts: what was pushed to process p and what its get_char returned     *)
(* since the process was created.                                          *)
(***************************************************************************)
EXTENDS Integers, Sequences

CONSTANTS
  Proc,       \* process slots
  Size,       \* PROCESS_KEYBOARD_BUFFER_SIZE (1024)
  Nul,        \* the character 0x00
  MaxTyped,   \* bound on the keys typed into one process
  MaxRead     \* bound on the characters one process reads

Scancode == {"letter", "digit", "unassigned", "capslock", "released", "one past the table"}
Char     == {"upper", "lower", "digit"}

ASSUME KeyboardAssumption ==
  /\ Size \in Nat \ {0}
  /\ Nul \notin Char
  /\ MaxTyped \in Nat
  /\ MaxRead \in Nat

VARIABLES buf, head, tail, caps_lock_state, current_proc, typed, got

vars == <<buf, head, tail, caps_lock_state, current_proc, typed, got>>

Slot == 0..(Size - 1)

TypeOK ==
  /\ buf \in [Proc -> [Slot -> Char \cup {Nul}]]
  /\ head \in [Proc -> Slot]
  /\ tail \in [Proc -> Slot]
  /\ caps_lock_state \in BOOLEAN
  /\ current_proc \in Proc
  /\ typed \in [Proc -> Seq(Char)]
  /\ got \in [Proc -> Seq(Char)]

-----------------------------------------------------------------------------
Init ==
  /\ buf = [p \in Proc |-> [i \in Slot |-> Nul]]
  /\ head = [p \in Proc |-> 0]
  /\ tail = [p \in Proc |-> 0]
  /\ caps_lock_state = FALSE
  /\ current_proc \in Proc
  /\ typed = [p \in Proc |-> <<>>]
  /\ got = [p \in Proc |-> <<>>]

\* head and tail go round the buffer.
Advance(i) == (i + 1) % Size

\* The characters a scan code can give.  The bound check lets through the
\* index one past the table, whose byte is not the driver's.
ps2_scancode_to_char(scancode, caps) ==
  CASE scancode = "letter"             -> {IF caps THEN "upper" ELSE "lower"}
    [] scancode = "digit"              -> {"digit"}
    [] scancode = "one past the table" -> Char \cup {Nul}
    [] OTHER                           -> {Nul}

\* As if the character went to some process, not to the one that runs.
PushSomewhere(c) ==
  \E p \in Proc : /\ buf' = [buf EXCEPT ![p][tail[p]] = c]
                  /\ tail' = [tail EXCEPT ![p] = Advance(@)]
                  /\ typed' = [typed EXCEPT ![current_proc] = Append(@, c)]

\* keyboard_push of a character, to the current process: the buffer may be
\* full, which is not checked.
keyboard_push(c) ==
  LET p == current_proc IN
  /\ buf' = [buf EXCEPT ![p][tail[p]] = c]
  /\ tail' = [tail EXCEPT ![p] = Advance(@)]
  /\ typed' = [typed EXCEPT ![p] = Append(@, c)]

keyboard_intr_handler(scancode) ==
  LET caps == IF scancode = "capslock" THEN ~caps_lock_state ELSE caps_lock_state
  IN /\ Len(typed[current_proc]) < MaxTyped
     /\ caps_lock_state' = caps
     /\ \E c \in ps2_scancode_to_char(scancode, caps) :
          IF c = Nul THEN UNCHANGED <<buf, tail, typed>> ELSE keyboard_push(c)
     /\ UNCHANGED <<head, current_proc, got>>

\* keyboard_pop for process p; a Nul leaves the buffer alone.
keyboard_pop(p) ==
  LET c == buf[p][head[p]]
  IN /\ c # Nul
     /\ Len(got[p]) < MaxRead
     /\ head' = [head EXCEPT ![p] = Advance(@)]
     /\ got' = [got EXCEPT ![p] = Append(@, c)]

syscall_get_char ==
  /\ keyboard_pop(current_proc)
  /\ UNCHANGED <<buf, tail, caps_lock_state, current_proc, typed>>

\* As if process_new did not clear the buffer.
BufferKept(p) == buf[p]

\* process_new clears the buffer of the slot.
ClearedBuffer(p) == [i \in Slot |-> Nul]

\* The process in slot p has been reaped and a new one is created in the slot.
process_new(p) ==
  /\ p # current_proc
  /\ buf' = [buf EXCEPT ![p] = ClearedBuffer(p)]
  /\ head' = [head EXCEPT ![p] = 0]
  /\ tail' = [tail EXCEPT ![p] = 0]
  /\ typed' = [typed EXCEPT ![p] = <<>>]
  /\ got' = [got EXCEPT ![p] = <<>>]
  /\ UNCHANGED <<caps_lock_state, current_proc>>

\* The clock, an exit or an exception runs another process (see Kernel).
set_current_process(p) ==
  /\ current_proc' = p
  /\ UNCHANGED <<buf, head, tail, caps_lock_state, typed, got>>

Next ==
  \/ \E scancode \in Scancode : keyboard_intr_handler(scancode)
  \/ syscall_get_char
  \/ \E p \in Proc : process_new(p)
  \/ \E p \in Proc : set_current_process(p)

Spec == Init /\ [][Next]_vars
-----------------------------------------------------------------------------
(* Properties *)

\* Until a process has been typed a full buffer, get_char gives it the keys
\* pressed while it ran, in order, once each, and Nul only when it has read
\* them all.
KeysInOrder ==
  \A p \in Proc : Len(typed[p]) < Size =>
    /\ Len(got[p]) <= Len(typed[p])
    /\ \A i \in 1..Len(got[p]) : got[p][i] = typed[p][i]
    /\ buf[p][head[p]] = Nul <=> Len(got[p]) = Len(typed[p])

\* A process never reads a key that was not typed into it, however the buffer
\* wraps and whoever had its slot before.
OnlyOwnKeys ==
  \A p \in Proc : \A i \in 1..Len(got[p]) :
    \E j \in 1..Len(typed[p]) : got[p][i] = typed[p][j]

\* "sets eax to the key pressed" (programs/stdlib/src/os.asm): a key pressed
\* once is returned once.
KeysOnce == \A p \in Proc : Len(got[p]) <= Len(typed[p])
==============================================================================
