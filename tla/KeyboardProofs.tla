--------------------------- MODULE KeyboardProofs ----------------------------
(***************************************************************************)
(* What a process reads from the keyboard, for any number of processes and *)
(* any size of the buffer.                                                 *)
(***************************************************************************)
EXTENDS Keyboard, TLAPS

\* Before the first wrap the buffer is the sequence of the keys typed.
Unwrapped(p) ==
  /\ tail[p] = Len(typed[p])
  /\ head[p] = Len(got[p])
  /\ Len(got[p]) <= Len(typed[p])
  /\ \A i \in Slot : buf[p][i] = IF i < Len(typed[p]) THEN typed[p][i + 1] ELSE Nul
  /\ \A i \in 1..Len(got[p]) : got[p][i] = typed[p][i]

\* What the buffer holds was typed into its process.
Own(p) ==
  /\ \A i \in Slot : buf[p][i] = Nul \/ \E j \in 1..Len(typed[p]) : buf[p][i] = typed[p][j]
  /\ \A i \in 1..Len(got[p]) : \E j \in 1..Len(typed[p]) : got[p][i] = typed[p][j]

PInv(p) == (Len(typed[p]) < Size => Unwrapped(p)) /\ Own(p)

IInv == TypeOK /\ \A p \in Proc : PInv(p)

\* The invariant holds of empty buffers.
LEMMA InitInv == Init => IInv
<1> SUFFICES ASSUME Init PROVE IInv
  OBVIOUS
<1>1. TypeOK
  <2>1. 0 \in Slot /\ <<>> \in Seq(Char)
    BY KeyboardAssumption DEF Slot
  <2> QED BY <2>1, Zenon DEF Init, TypeOK
<1>2. ASSUME NEW p \in Proc
      PROVE  PInv(p)
  BY KeyboardAssumption DEF Init, PInv, Unwrapped, Own, Slot
<1> QED
  BY <1>1, <1>2 DEF IInv

\* A process that a step does not touch keeps what it has.
LEMMA Untouched ==
  ASSUME IInv, NEW p \in Proc,
         buf'[p] = buf[p], head'[p] = head[p], tail'[p] = tail[p],
         typed'[p] = typed[p], got'[p] = got[p]
  PROVE  PInv(p)'
BY DEF IInv, PInv, Unwrapped, Own

\* An advanced index is an index of the buffer (keyboard_push, keyboard_pop).
LEMMA AdvanceInSlot ==
  ASSUME NEW i \in Slot
  PROVE  Advance(i) \in Slot /\ (i + 1 < Size => Advance(i) = i + 1)
BY KeyboardAssumption DEF Slot, Advance

\* A key press keeps the invariant (ps2_keyboard_intr_handler).
LEMMA PushInv ==
  ASSUME IInv, NEW c \in Char, keyboard_push(c),
         UNCHANGED <<head, current_proc, got>>, caps_lock_state' \in BOOLEAN
  PROVE  IInv'
<1> DEFINE q == current_proc
           t == tail[q]
           n == Len(typed[q])
<1>0. /\ q \in Proc /\ t \in Slot /\ n \in Nat /\ typed[q] \in Seq(Char)
      /\ got[q] \in Seq(Char)
      /\ buf[q] \in [Slot -> Char \cup {Nul}] /\ TypeOK /\ c # Nul
      /\ Size \in Nat /\ Size > 0
  BY KeyboardAssumption DEF IInv, TypeOK
<1>1. /\ buf' = [buf EXCEPT ![q][t] = c]
      /\ tail' = [tail EXCEPT ![q] = Advance(@)]
      /\ typed' = [typed EXCEPT ![q] = Append(@, c)]
  BY DEF keyboard_push
<1>2. TypeOK'
  BY <1>0, <1>1, AdvanceInSlot DEF TypeOK
<1>3. ASSUME NEW p \in Proc, p # q
      PROVE  PInv(p)'
  <2>1. buf'[p] = buf[p] /\ tail'[p] = tail[p] /\ typed'[p] = typed[p]
    BY <1>0, <1>1, <1>3 DEF TypeOK
  <2> QED BY <2>1, Untouched
<1>4. /\ typed'[q] = Append(typed[q], c)
      /\ Len(typed'[q]) = n + 1
      /\ \A i \in 1..n : typed'[q][i] = typed[q][i]
      /\ typed'[q][n + 1] = c
      /\ tail'[q] = Advance(t)
      /\ buf'[q] = [buf[q] EXCEPT ![t] = c]
      /\ head'[q] = head[q] /\ got'[q] = got[q]
  BY <1>0, <1>1 DEF TypeOK
<1>5. Own(q)'
  <2>1. ASSUME NEW i \in Slot
        PROVE  buf'[q][i] = Nul \/ \E j \in 1..(n + 1) : buf'[q][i] = typed'[q][j]
    <3>1. CASE i = t
      BY <3>1, <1>0, <1>4, SMTT(40)
    <3>2. CASE i # t
      <4>1. buf'[q][i] = buf[q][i]
        BY <3>2, <1>0, <1>4
      <4>2. buf[q][i] = Nul \/ \E j \in 1..n : buf[q][i] = typed[q][j]
        BY <1>0 DEF IInv, PInv, Own
      <4> QED BY <4>1, <4>2, <1>0, <1>4
    <3> QED BY <3>1, <3>2
  <2>2. ASSUME NEW i \in 1..Len(got[q])
        PROVE  \E j \in 1..(n + 1) : got[q][i] = typed'[q][j]
    <3>1. \E j \in 1..n : got[q][i] = typed[q][j]
      BY <1>0 DEF IInv, PInv, Own
    <3> QED BY <3>1, <1>0, <1>4
  <2> QED BY <2>1, <2>2, <1>4 DEF Own
<1>6. ASSUME n + 1 < Size
      PROVE  Unwrapped(q)'
  <2>1. /\ t = n /\ head[q] = Len(got[q]) /\ Len(got[q]) <= n
        /\ \A i \in Slot : buf[q][i] = IF i < n THEN typed[q][i + 1] ELSE Nul
        /\ \A i \in 1..Len(got[q]) : got[q][i] = typed[q][i]
    BY <1>0, <1>6 DEF IInv, PInv, Unwrapped
  <2>2. tail'[q] = n + 1
    BY <1>0, <1>4, <1>6, <2>1, AdvanceInSlot
  <2>3. ASSUME NEW i \in Slot
        PROVE  buf'[q][i] = IF i < n + 1 THEN typed'[q][i + 1] ELSE Nul
    <3>1. CASE i = n
      BY <3>1, <2>1, <1>0, <1>4
    <3>2. CASE i # n
      <4>1. buf'[q][i] = buf[q][i]
        BY <3>2, <2>1, <1>0, <1>4
      <4>2. CASE i < n
        <5>1. i + 1 \in 1..n /\ i < n + 1
          BY <4>2, <1>0 DEF Slot
        <5> QED BY <5>1, <4>1, <4>2, <2>1, <1>4
      <4>3. CASE ~(i < n)
        <5>1. ~(i < n + 1)
          BY <4>3, <3>2, <1>0 DEF Slot
        <5> QED BY <5>1, <4>1, <4>3, <2>1
      <4> QED BY <4>2, <4>3
    <3> QED BY <3>1, <3>2
  <2>4. Len(got[q]) <= n + 1 /\ \A i \in 1..Len(got[q]) : got[q][i] = typed'[q][i]
    <3>1. Len(got[q]) \in Nat
      BY <1>0
    <3> QED BY <3>1, <2>1, <1>0, <1>4
  <2> QED BY <2>1, <2>2, <2>3, <2>4, <1>4, Zenon DEF Unwrapped
<1>7. PInv(q)'
  BY <1>4, <1>5, <1>6 DEF PInv
<1> QED
  BY <1>2, <1>3, <1>7 DEF IInv

\* syscall_get_char keeps the invariant.
LEMMA GetCharInv ==
  ASSUME IInv, syscall_get_char
  PROVE  IInv'
<1> DEFINE q == current_proc
           h == head[q]
           c == buf[q][h]
           m == Len(got[q])
<1>0. /\ q \in Proc /\ h \in Slot /\ m \in Nat /\ got[q] \in Seq(Char)
      /\ typed[q] \in Seq(Char) /\ Len(typed[q]) \in Nat
      /\ c \in Char /\ c # Nul /\ TypeOK
      /\ Size \in Nat /\ Size > 0
  BY KeyboardAssumption DEF IInv, TypeOK, syscall_get_char, keyboard_pop
<1>1. /\ head' = [head EXCEPT ![q] = Advance(@)]
      /\ got' = [got EXCEPT ![q] = Append(@, c)]
      /\ UNCHANGED <<buf, tail, caps_lock_state, current_proc, typed>>
  BY DEF syscall_get_char, keyboard_pop
<1>2. TypeOK'
  BY <1>0, <1>1, AdvanceInSlot DEF TypeOK
<1>3. ASSUME NEW p \in Proc, p # q
      PROVE  PInv(p)'
  <2>1. head'[p] = head[p] /\ got'[p] = got[p]
    BY <1>0, <1>1, <1>3 DEF TypeOK
  <2> QED BY <2>1, <1>1, Untouched
<1>4. /\ Len(got'[q]) = m + 1
      /\ \A i \in 1..m : got'[q][i] = got[q][i]
      /\ got'[q][m + 1] = c
      /\ head'[q] = Advance(h)
      /\ buf'[q] = buf[q] /\ tail'[q] = tail[q] /\ typed'[q] = typed[q]
  BY <1>0, <1>1 DEF TypeOK
<1>5. Own(q)'
  <2>1. \A i \in Slot : buf[q][i] = Nul \/ \E j \in 1..Len(typed[q]) : buf[q][i] = typed[q][j]
    BY <1>0, SMTT(40) DEF IInv, PInv, Own
  <2>2. \E j \in 1..Len(typed[q]) : c = typed[q][j]
    BY <2>1, <1>0
  <2>3. \A i \in 1..m : \E j \in 1..Len(typed[q]) : got[q][i] = typed[q][j]
    BY <1>0 DEF IInv, PInv, Own
  <2>4. ASSUME NEW i \in 1..(m + 1)
        PROVE  \E j \in 1..Len(typed[q]) : got'[q][i] = typed[q][j]
    <3>1. CASE i = m + 1
      BY <3>1, <2>2, <1>4
    <3>2. CASE i # m + 1
      BY <3>2, <2>3, <1>0, <1>4
    <3> QED BY <3>1, <3>2
  <2> QED BY <2>1, <2>4, <1>1, <1>4 DEF Own
<1>6. ASSUME Len(typed[q]) < Size
      PROVE  Unwrapped(q)'
  <2>1. /\ tail[q] = Len(typed[q]) /\ h = m /\ m <= Len(typed[q])
        /\ \A i \in Slot : buf[q][i] = IF i < Len(typed[q]) THEN typed[q][i + 1] ELSE Nul
        /\ \A i \in 1..m : got[q][i] = typed[q][i]
    BY <1>0, <1>6 DEF IInv, PInv, Unwrapped
  <2>2. m < Len(typed[q]) /\ c = typed[q][m + 1]
    BY <2>1, <1>0
  <2>3. head'[q] = m + 1
    BY <2>1, <2>2, <1>0, <1>4, <1>6, AdvanceInSlot
  <2>4. ASSUME NEW i \in 1..(m + 1)
        PROVE  got'[q][i] = typed[q][i]
    <3>1. CASE i = m + 1
      BY <3>1, <2>2, <1>4
    <3>2. CASE i # m + 1
      <4>1. i \in 1..m
        BY <3>2, <1>0
      <4> QED BY <4>1, <2>1, <1>4
    <3> QED BY <3>1, <3>2
  <2>5. m + 1 <= Len(typed[q])
    BY <2>2, <1>0
  <2> QED BY <2>1, <2>3, <2>4, <2>5, <1>1, <1>4 DEF Unwrapped
<1>7. PInv(q)'
  BY <1>1, <1>4, <1>5, <1>6 DEF PInv
<1> QED
  BY <1>1, <1>2, <1>3, <1>7 DEF IInv

\* process_new keeps the invariant: the buffer of the new process is cleared.
LEMMA NewProcessInv ==
  ASSUME IInv, NEW q \in Proc, process_new(q)
  PROVE  IInv'
<1>1. /\ TypeOK
      /\ buf' = [buf EXCEPT ![q] = [i \in Slot |-> Nul]]
      /\ head' = [head EXCEPT ![q] = 0]
      /\ tail' = [tail EXCEPT ![q] = 0]
      /\ typed' = [typed EXCEPT ![q] = <<>>]
      /\ got' = [got EXCEPT ![q] = <<>>]
      /\ UNCHANGED <<caps_lock_state, current_proc>>
  BY DEF IInv, process_new, ClearedBuffer
<1>2. TypeOK'
  BY <1>1, KeyboardAssumption DEF TypeOK, Slot
<1>3. ASSUME NEW p \in Proc, p # q
      PROVE  PInv(p)'
  <2>1. /\ buf'[p] = buf[p] /\ head'[p] = head[p] /\ tail'[p] = tail[p]
        /\ typed'[p] = typed[p] /\ got'[p] = got[p]
    BY <1>1, <1>3 DEF TypeOK
  <2> QED BY <2>1, Untouched
<1>4. /\ buf'[q] = [i \in Slot |-> Nul] /\ head'[q] = 0 /\ tail'[q] = 0
      /\ typed'[q] = <<>> /\ got'[q] = <<>>
  BY <1>1 DEF TypeOK
<1>5. PInv(q)'
  BY <1>4 DEF PInv, Unwrapped, Own, Slot
<1> QED
  BY <1>2, <1>3, <1>5 DEF IInv

\* Every step keeps the invariant.
LEMMA NextInv == IInv /\ [Next]_vars => IInv'
<1> SUFFICES ASSUME IInv, [Next]_vars PROVE IInv'
  OBVIOUS
<1>1. ASSUME NEW scancode \in Scancode, keyboard_intr_handler(scancode)
      PROVE  IInv'
  <2>1. PICK c \in ps2_scancode_to_char(scancode, caps_lock_state') :
          IF c = Nul THEN UNCHANGED <<buf, tail, typed>> ELSE keyboard_push(c)
    BY <1>1 DEF keyboard_intr_handler
  <2>2. UNCHANGED <<head, current_proc, got>> /\ caps_lock_state' \in BOOLEAN
    BY <1>1, Zenon DEF keyboard_intr_handler, IInv, TypeOK
  <2>3. c \in Char \cup {Nul}
    BY DEF ps2_scancode_to_char, Scancode, Char
  <2>4. CASE c = Nul
    <3>1. UNCHANGED <<buf, head, tail, current_proc, typed, got>>
      BY <2>1, <2>2, <2>4
    <3>2. TypeOK'
      BY <3>1, <2>2 DEF IInv, TypeOK
    <3> QED BY <3>1, <3>2, Untouched DEF IInv
  <2>5. CASE c # Nul
    BY <2>1, <2>2, <2>3, <2>5, PushInv
  <2> QED BY <2>4, <2>5
<1>2. ASSUME NEW p \in Proc, set_current_process(p)
      PROVE  IInv'
  <2>1. TypeOK'
    BY <1>2 DEF set_current_process, IInv, TypeOK
  <2> QED BY <1>2, <2>1, Untouched DEF set_current_process, IInv
<1>3. CASE UNCHANGED vars
  <2>1. TypeOK'
    BY <1>3 DEF vars, IInv, TypeOK
  <2> QED BY <1>3, <2>1, Untouched DEF vars, IInv
<1> QED
  BY <1>1, <1>2, <1>3, GetCharInv, NewProcessInv DEF Next

\* For any number of processes and any buffer size: up to a full buffer the
\* keys arrive in order and once each, and after any number of wraps and slot
\* reuses a process still only reads what was typed into it.
THEOREM KeysReachTheirProcess == Spec => [](TypeOK /\ KeysInOrder /\ OnlyOwnKeys)
<1>1. IInv => OnlyOwnKeys
  BY DEF IInv, PInv, Own, OnlyOwnKeys
<1>2. ASSUME IInv, NEW p \in Proc, Len(typed[p]) < Size
      PROVE  /\ Len(got[p]) <= Len(typed[p])
             /\ \A i \in 1..Len(got[p]) : got[p][i] = typed[p][i]
             /\ buf[p][head[p]] = Nul <=> Len(got[p]) = Len(typed[p])
  <2>1. Unwrapped(p) /\ head[p] \in Slot /\ typed[p] \in Seq(Char) /\ got[p] \in Seq(Char)
    BY <1>2 DEF IInv, PInv, TypeOK
  <2>2. Len(typed[p]) \in Nat /\ Len(got[p]) \in Nat
    BY <2>1
  <2>3. buf[p][head[p]] = Nul <=> Len(got[p]) = Len(typed[p])
    <3>1. CASE Len(got[p]) = Len(typed[p])
      BY <3>1, <2>1, <2>2 DEF Unwrapped
    <3>2. CASE Len(got[p]) < Len(typed[p])
      <4>1. Len(got[p]) + 1 \in 1..Len(typed[p])
        BY <3>2, <2>2
      <4>2. typed[p][Len(got[p]) + 1] \in Char
        BY <4>1, <2>1
      <4> QED BY <3>2, <4>2, <2>1, <2>2, KeyboardAssumption DEF Unwrapped
    <3> QED BY <3>1, <3>2, <2>1, <2>2 DEF Unwrapped
  <2> QED BY <2>1, <2>3 DEF Unwrapped
<1>3. IInv => KeysInOrder
  BY <1>2 DEF KeysInOrder
<1>4. IInv => TypeOK
  BY DEF IInv
<1> QED
  BY InitInv, NextInv, <1>1, <1>3, <1>4, PTL DEF Spec
==============================================================================
