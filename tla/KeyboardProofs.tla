--------------------------- MODULE KeyboardProofs ---------------------------
(***************************************************************************)
(* Proofs about Keyboard, for a ring of any length, any key map and any    *)
(* serial line.                                                            *)
(***************************************************************************)
EXTENDS Keyboard, TLAPS

\* The slots between kb_tail and kb_head hold characters.
Filled == \A k \in 0 .. (Waiting - 1) : kb_buffer[SlotOf(k)] \in Chars

IInv == TypeOK /\ ReaderOwnsTail /\ Filled

LEMMA FollowingWraps ==
    ASSUME NEW k \in Slot
    PROVE  /\ Following(k) \in Slot
           /\ Following(k) = IF k + 1 = KB_BUFFER_SIZE THEN 0 ELSE k + 1
<1>1. KB_BUFFER_SIZE \in Nat /\ KB_BUFFER_SIZE > 0 /\ k \in Nat
      /\ k + 1 <= KB_BUFFER_SIZE
  BY KeyboardAssumption DEF Slot
<1>2. CASE k + 1 = KB_BUFFER_SIZE
  <2>1. KB_BUFFER_SIZE % KB_BUFFER_SIZE = 0
    BY <1>1
  <2>2. QED
    BY <1>1, <1>2, <2>1 DEF Following, Slot
<1>3. CASE k + 1 < KB_BUFFER_SIZE
  <2>1. (k + 1) % KB_BUFFER_SIZE = k + 1
    BY <1>1, <1>3
  <2>2. QED
    BY <1>1, <1>3, <2>1 DEF Following, Slot
<1>4. QED
  BY <1>1, <1>2, <1>3

\* The arithmetic of the ring: how many characters wait, and where they lie.
LEMMA RingArithmetic ==
    ASSUME kb_head \in Slot, kb_tail \in Slot
    PROVE  /\ Waiting \in 0 .. (KB_BUFFER_SIZE - 1)
           /\ Waiting = 0 <=> kb_head = kb_tail
           /\ \A k \in 0 .. (KB_BUFFER_SIZE - 1) : SlotOf(k) \in Slot
           /\ \A k \in 0 .. (Waiting - 1) : SlotOf(k) # kb_head
           /\ SlotOf(0) = kb_tail /\ SlotOf(Waiting) = kb_head
           /\ Waiting < KB_BUFFER_SIZE - 1 <=> Following(kb_head) # kb_tail
<1>1. KB_BUFFER_SIZE \in Nat /\ KB_BUFFER_SIZE > 0
  BY KeyboardAssumption
<1>2. Following(kb_head) = IF kb_head + 1 = KB_BUFFER_SIZE THEN 0 ELSE kb_head + 1
  BY FollowingWraps
<1>3. kb_head \in 0 .. (KB_BUFFER_SIZE - 1) /\ kb_tail \in 0 .. (KB_BUFFER_SIZE - 1)
  BY DEF Slot
<1>4. QED
  BY <1>1, <1>2, <1>3 DEF Waiting, SlotOf, Slot

LEMMA InitIInv == Init => IInv
<1> SUFFICES ASSUME Init PROVE IInv
  OBVIOUS
<1>1. 0 \in Slot
  BY KeyboardAssumption DEF Slot
<1>2. TypeOK
  BY <1>1, KeyboardAssumption DEF Init, TypeOK
<1>3. Waiting = 0
  BY DEF Init, Waiting
<1>4. Filled
  BY <1>3 DEF Filled
<1>5. ReaderOwnsTail
  BY DEF Init, ReaderOwnsTail
<1>6. QED
  BY <1>2, <1>4, <1>5 DEF IInv

\* One more character at the head.
LEMMA StoreFacts ==
    ASSUME TypeOK, Filled, NEW a \in Chars, Store(a), UNCHANGED kb_tail
    PROVE  /\ kb_buffer' \in [Slot -> Chars \cup {NoChar}] /\ kb_head' \in Slot
           /\ kb_head # kb_tail => kb_head' # kb_tail
           /\ kb_head # kb_tail => kb_buffer'[kb_tail] = kb_buffer[kb_tail]
           /\ \A k \in 0 .. (Waiting' - 1) :
                 kb_buffer'[SlotOf(k)'] =
                    IF k = Waiting THEN a ELSE kb_buffer[SlotOf(k)]
           /\ Waiting' = IF Waiting < KB_BUFFER_SIZE - 1 THEN Waiting + 1
                         ELSE Waiting
           /\ Filled'
<1>1. KB_BUFFER_SIZE \in Nat /\ KB_BUFFER_SIZE > 0
      /\ kb_head \in Slot /\ kb_tail \in Slot
      /\ kb_buffer \in [Slot -> Chars \cup {NoChar}]
  BY KeyboardAssumption DEF TypeOK
<1>2. /\ Waiting \in 0 .. (KB_BUFFER_SIZE - 1)
      /\ \A k \in 0 .. (KB_BUFFER_SIZE - 1) : SlotOf(k) \in Slot
      /\ \A k \in 0 .. (Waiting - 1) : SlotOf(k) # kb_head
      /\ SlotOf(Waiting) = kb_head
      /\ Waiting < KB_BUFFER_SIZE - 1 <=> Following(kb_head) # kb_tail
  BY <1>1, RingArithmetic
<1>3. \A k \in 0 .. (KB_BUFFER_SIZE - 1) : SlotOf(k)' = SlotOf(k)
  BY DEF SlotOf
<1>4. CASE Following(kb_head) = kb_tail
  <2>1. UNCHANGED <<kb_buffer, kb_head, kb_tail>>
    BY <1>4 DEF Store
  <2>2. Waiting' = Waiting /\ \A k \in 0 .. (KB_BUFFER_SIZE - 1) :
                                 kb_buffer'[SlotOf(k)'] = kb_buffer[SlotOf(k)]
    BY <1>3, <2>1 DEF Waiting
  <2>3. QED
    BY <1>1, <1>2, <1>4, <2>1, <2>2 DEF Filled
<1>5. CASE Following(kb_head) # kb_tail
  <2>1. /\ kb_head' = Following(kb_head) /\ kb_tail' = kb_tail
        /\ kb_buffer' = [kb_buffer EXCEPT ![kb_head] = a]
    BY <1>5 DEF Store
  <2>2. kb_head' \in Slot
        /\ kb_head' = IF kb_head + 1 = KB_BUFFER_SIZE THEN 0 ELSE kb_head + 1
    BY <1>1, <2>1, FollowingWraps
  <2>3. Waiting' = Waiting + 1
    BY <1>1, <1>2, <1>5, <2>1, <2>2 DEF Waiting, Slot
  <2>4. \A k \in 0 .. (Waiting' - 1) :
           kb_buffer'[SlotOf(k)'] =
              IF k = Waiting THEN a ELSE kb_buffer[SlotOf(k)]
    BY <1>1, <1>2, <1>3, <2>1, <2>3
  <2>5. Filled'
    BY <1>2, <2>3, <2>4 DEF Filled
  <2>6. kb_buffer' \in [Slot -> Chars \cup {NoChar}]
    BY <1>1, <2>1
  <2>7. kb_head # kb_tail => kb_buffer'[kb_tail] = kb_buffer[kb_tail]
    BY <1>1, <2>1
  <2>8. QED
    BY <1>2, <1>5, <2>1, <2>2, <2>3, <2>4, <2>5, <2>6, <2>7
<1>6. QED
  BY <1>4, <1>5

\* The oldest character goes.
LEMMA AdvanceFacts ==
    ASSUME TypeOK, Filled, kb_head # kb_tail,
           kb_tail' = Following(kb_tail), UNCHANGED <<kb_buffer, kb_head>>
    PROVE  /\ kb_tail' \in Slot
           /\ Waiting' = Waiting - 1
           /\ \A k \in 0 .. (Waiting' - 1) :
                 kb_buffer'[SlotOf(k)'] = kb_buffer[SlotOf(k + 1)]
           /\ Filled'
<1>1. KB_BUFFER_SIZE \in Nat /\ KB_BUFFER_SIZE > 0
      /\ kb_head \in Slot /\ kb_tail \in Slot
  BY KeyboardAssumption DEF TypeOK
<1>2. kb_tail' \in Slot
      /\ kb_tail' = IF kb_tail + 1 = KB_BUFFER_SIZE THEN 0 ELSE kb_tail + 1
  BY <1>1, FollowingWraps
<1>3. Waiting' = Waiting - 1 /\ Waiting \in 0 .. (KB_BUFFER_SIZE - 1)
  BY <1>1, <1>2 DEF Waiting, Slot
<1>4. \A k \in 0 .. (Waiting' - 1) : SlotOf(k)' = SlotOf(k + 1)
  BY <1>1, <1>2, <1>3 DEF SlotOf, Slot
<1>5. \A k \in 0 .. (Waiting' - 1) :
         kb_buffer'[SlotOf(k)'] = kb_buffer[SlotOf(k + 1)]
  BY <1>4
<1>6. Filled'
  BY <1>3, <1>5 DEF Filled
<1>7. QED
  BY <1>2, <1>3, <1>5, <1>6

LEMMA NextIInv == IInv /\ [Next]_vars => IInv'
<1> SUFFICES ASSUME IInv, [Next]_vars PROVE IInv'
  OBVIOUS
<1>0. TypeOK /\ ReaderOwnsTail /\ Filled
  BY DEF IInv
<1>1. ASSUME NEW sc \in Scancodes, KeyboardHandler(sc) PROVE IInv'
  <2>1. shift_active' \in BOOLEAN /\ UNCHANGED <<kb_tail, shell, wants, c, line, taken>>
    BY <1>0, <1>1 DEF KeyboardHandler, Shift, TypeOK
  <2>2. Ascii[<<sc, shift_active'>>] \in Chars \cup {NoChar}
    BY <2>1, KeyboardAssumption
  <2>3. CASE Ascii[<<sc, shift_active'>>] = NoChar
    <3>1. UNCHANGED <<kb_buffer, kb_head, kb_tail, beat>>
      BY <1>1, <2>1, <2>3 DEF KeyboardHandler
    <3>2. QED
      BY <1>0, <2>1, <3>1
         DEF IInv, TypeOK, ReaderOwnsTail, Filled, Waiting, SlotOf
  <2>4. CASE Ascii[<<sc, shift_active'>>] # NoChar
    <3>1. PICK a \in Chars : Store(a) /\ beat' = ~beat
      BY <1>1, <2>2, <2>4 DEF KeyboardHandler
    <3>2. /\ kb_buffer' \in [Slot -> Chars \cup {NoChar}] /\ kb_head' \in Slot
          /\ kb_head # kb_tail => kb_head' # kb_tail
          /\ kb_head # kb_tail => kb_buffer'[kb_tail] = kb_buffer[kb_tail]
          /\ Filled'
      BY <1>0, <2>1, <3>1, StoreFacts
    <3>3. TypeOK'
      BY <1>0, <2>1, <3>1, <3>2 DEF TypeOK
    <3>4. ReaderOwnsTail'
      BY <1>0, <2>1, <3>2 DEF ReaderOwnsTail
    <3>5. QED
      BY <3>2, <3>3, <3>4 DEF IInv
  <2>5. QED
    BY <2>3, <2>4
<1>2. CASE Advance
  <2>1. kb_head # kb_tail /\ c \in Chars /\ kb_tail' = Following(kb_tail)
        /\ taken' = c /\ shell' = "got"
        /\ UNCHANGED <<kb_buffer, kb_head, shift_active, wants, c, line, beat>>
    BY <1>0, <1>2 DEF Advance, ReaderOwnsTail, TypeOK
  <2>2. kb_tail' \in Slot /\ Filled'
    BY <1>0, <2>1, AdvanceFacts
  <2>3. TypeOK' /\ ReaderOwnsTail'
    BY <1>0, <2>1, <2>2 DEF TypeOK, ReaderOwnsTail
  <2>4. QED
    BY <2>2, <2>3 DEF IInv
\* Everything else leaves the ring alone.
<1>3. ASSUME UNCHANGED ringVars, TypeOK', ReaderOwnsTail' PROVE IInv'
  BY <1>0, <1>3 DEF IInv, Filled, Waiting, SlotOf, ringVars
<1>4. CASE HasChar \/ NoKey \/ NoSerial
  BY <1>0, <1>3, <1>4 DEF HasChar, NoKey, NoSerial, TypeOK, ReaderOwnsTail, ringVars
<1>5. CASE LoadChar
  <2>1. kb_buffer[kb_tail] \in Chars
    <3>1. kb_head # kb_tail
      BY <1>0, <1>5 DEF LoadChar, ReaderOwnsTail
    <3>2. Waiting \in Nat \ {0} /\ SlotOf(0) = kb_tail
      BY <1>0, <3>1, RingArithmetic DEF TypeOK
    <3>3. QED
      BY <1>0, <3>2 DEF Filled
  <2>2. TypeOK' /\ ReaderOwnsTail' /\ UNCHANGED ringVars
    BY <1>0, <1>5, <2>1 DEF LoadChar, TypeOK, ReaderOwnsTail, ringVars
  <2>3. QED
    BY <1>3, <2>2
<1>6. ASSUME NEW r \in SerialChars, SerialRead(r) PROVE IInv'
  <2>1. /\ c' \in Chars /\ shell' \in {"poll", "got"}
        /\ UNCHANGED <<ringVars, shift_active, wants, line, taken, beat>>
    BY <1>0, <1>6, KeyboardAssumption DEF SerialRead, TypeOK
  <2>2. TypeOK' /\ ReaderOwnsTail' /\ UNCHANGED ringVars
    BY <1>0, <2>1 DEF TypeOK, ReaderOwnsTail, ringVars
  <2>3. QED
    BY <1>3, <2>2
<1>7. CASE EditLine
  <2>1. LineLength \in Nat /\ line \in Seq(Chars) /\ Len(line) \in Nat
        /\ Len(line) < LineLength /\ c \in Chars
    BY <1>0, KeyboardAssumption DEF TypeOK
  <2>2. line' \in Seq(Chars) /\ Len(line') < LineLength
    <3>1. CASE line' = line
      BY <2>1, <3>1
    <3>2. CASE line # <<>> /\ line' = SubSeq(line, 1, Len(line) - 1)
      BY <2>1, <3>2
    <3>3. CASE Len(line) < LineLength - 1 /\ line' = Append(line, c)
      BY <2>1, <3>3
    <3>4. QED
      BY <1>7, <3>1, <3>2, <3>3 DEF EditLine, Edit
  <2>3. TypeOK' /\ ReaderOwnsTail' /\ UNCHANGED ringVars
    BY <1>0, <1>7, <2>2 DEF EditLine, TypeOK, ReaderOwnsTail, ringVars
  <2>4. QED
    BY <1>3, <2>3
<1>8. CASE EndLine \/ Ask \/ AskChoice \/ Answered
  BY <1>0, <1>3, <1>8
     DEF EndLine, Ask, AskChoice, Answered, TypeOK, ReaderOwnsTail, ringVars
<1>9. CASE CommandEnds
  <2>1. <<>> \in Seq(Chars) /\ Len(<<>>) < LineLength
    BY KeyboardAssumption
  <2>2. TypeOK' /\ ReaderOwnsTail' /\ UNCHANGED ringVars
    BY <1>0, <1>9, <2>1 DEF CommandEnds, TypeOK, ReaderOwnsTail, ringVars
  <2>3. QED
    BY <1>3, <2>2
<1>10. CASE UNCHANGED vars
  BY <1>0, <1>3, <1>10 DEF vars, TypeOK, ReaderOwnsTail, ringVars
<1>11. QED
  BY <1>1, <1>2, <1>4, <1>5, <1>6, <1>7, <1>8, <1>9, <1>10 DEF Next, ShellStep

LEMMA Invariance == Spec => []IInv
<1>1. QED
  BY InitIInv, NextIInv, PTL DEF Spec

-----------------------------------------------------------------------------
(* The theorems. *)

\* The variables keep their types; the line leaves room for its terminator.
THEOREM TypeCorrect == Spec => []TypeOK
<1>1. IInv => TypeOK
  BY DEF IInv
<1>2. QED
  BY <1>1, Invariance, PTL

\* The interrupt handler never touches the slot the shell is reading, nor
\* takes the character from under it.
THEOREM ReaderUndisturbed == Spec => []ReaderOwnsTail
<1>1. IInv => ReaderOwnsTail
  BY DEF IInv
<1>2. QED
  BY <1>1, Invariance, PTL

\* The ring, accessed without any guard, is a queue with one slot less.
THEOREM RingImplementsQueue == Spec => ImplementsQueue
<1> USE DEF Abstract!Type, Abstract!Take, Abstract!Next, Abstract!qvars
<1>1. Init => Abstract!Init
  BY DEF Init, Abstract!Init, Waiting
<1>2. ASSUME IInv, [Next]_vars PROVE [Abstract!Next]_(Abstract!qvars)
  <2>0. TypeOK /\ ReaderOwnsTail /\ Filled
    BY <1>2 DEF IInv
  <2>1. ASSUME NEW sc \in Scancodes, KeyboardHandler(sc)
        PROVE  [Abstract!Next]_(Abstract!qvars)
    <3>1. shift_active' \in BOOLEAN /\ UNCHANGED <<kb_tail, taken>>
      BY <2>0, <2>1 DEF KeyboardHandler, Shift, TypeOK
    <3>2. Ascii[<<sc, shift_active'>>] \in Chars \cup {NoChar}
      BY <3>1, KeyboardAssumption
    <3>3. CASE Ascii[<<sc, shift_active'>>] = NoChar
      <4>1. UNCHANGED <<kb_buffer, kb_head, kb_tail, taken, beat>>
        BY <2>1, <3>1, <3>3 DEF KeyboardHandler
      <4>2. QED
        BY <4>1 DEF Waiting, SlotOf
    <3>4. CASE Ascii[<<sc, shift_active'>>] # NoChar
      <4>1. PICK a \in Chars : Store(a) /\ beat' = ~beat
        BY <2>1, <3>2, <3>4 DEF KeyboardHandler
      <4>2. Abstract!Type(a)
        <5>1. /\ \A k \in 0 .. (Waiting' - 1) :
                    kb_buffer'[SlotOf(k)'] =
                       IF k = Waiting THEN a ELSE kb_buffer[SlotOf(k)]
              /\ Waiting' = IF Waiting < KB_BUFFER_SIZE - 1 THEN Waiting + 1
                            ELSE Waiting
          BY <2>0, <3>1, <4>1, StoreFacts
        <5>2. Waiting \in Nat /\ KB_BUFFER_SIZE \in Nat
          BY <2>0, KeyboardAssumption, RingArithmetic DEF TypeOK
        <5>3. CASE Waiting < KB_BUFFER_SIZE - 1
          <6>1. Waiting' = Waiting + 1
            BY <5>1, <5>3
          <6>2. [k \in 0 .. (Waiting' - 1) |-> kb_buffer'[SlotOf(k)']]
                = [k \in 0 .. Waiting |->
                     IF k = Waiting THEN a
                     ELSE [j \in 0 .. (Waiting - 1) |-> kb_buffer[SlotOf(j)]][k]]
            BY <5>1, <5>2, <6>1
          <6>3. QED
            BY <3>1, <4>1, <5>3, <6>1, <6>2
        <5>4. CASE ~(Waiting < KB_BUFFER_SIZE - 1)
          <6>1. Waiting' = Waiting
            BY <5>1, <5>4
          <6>2. [k \in 0 .. (Waiting' - 1) |-> kb_buffer'[SlotOf(k)']]
                = [k \in 0 .. (Waiting - 1) |-> kb_buffer[SlotOf(k)]]
            BY <5>1, <5>2, <6>1
          <6>3. QED
            BY <3>1, <4>1, <5>4, <6>1, <6>2
        <5>5. QED
          BY <5>3, <5>4
      <4>3. QED
        BY <4>2
    <3>5. QED
      BY <3>3, <3>4
  <2>2. CASE Advance
    <3>1. kb_head # kb_tail /\ kb_tail' = Following(kb_tail) /\ c = kb_buffer[kb_tail]
          /\ taken' = c /\ UNCHANGED <<kb_buffer, kb_head, beat>>
      BY <2>0, <2>2 DEF Advance, ReaderOwnsTail
    <3>2. /\ Waiting' = Waiting - 1
          /\ \A k \in 0 .. (Waiting' - 1) :
                kb_buffer'[SlotOf(k)'] = kb_buffer[SlotOf(k + 1)]
      BY <2>0, <3>1, AdvanceFacts
    <3>3. Waiting \in Nat /\ Waiting > 0 /\ SlotOf(0) = kb_tail
      BY <2>0, <3>1, RingArithmetic DEF TypeOK
    <3>4. [k \in 0 .. (Waiting' - 1) |-> kb_buffer'[SlotOf(k)']]
          = [k \in 0 .. (Waiting - 2) |->
               [j \in 0 .. (Waiting - 1) |-> kb_buffer[SlotOf(j)]][k + 1]]
      BY <3>2, <3>3
    <3>5. taken' = [j \in 0 .. (Waiting - 1) |-> kb_buffer[SlotOf(j)]][0]
      BY <3>1, <3>3
    <3>6. Abstract!Take
      BY <3>1, <3>2, <3>3, <3>4, <3>5
    <3>7. QED
      BY <3>6
  <2>3. CASE UNCHANGED <<ringVars, taken, beat>>
    BY <2>3 DEF ringVars, Waiting, SlotOf
  <2>4. QED
    BY <1>2, <2>1, <2>2, <2>3
       DEF Next, ShellStep, HasChar, NoKey, NoSerial, LoadChar, SerialRead, EditLine,
           EndLine, Ask, AskChoice, Answered, CommandEnds, vars
<1>3. QED
  BY <1>1, <1>2, Invariance, PTL DEF Spec, ImplementsQueue, Abstract!Spec
=============================================================================
