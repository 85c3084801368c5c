------------------------------ MODULE Keyboard ------------------------------
(***************************************************************************)
(* The keyboard driver (keyboard.c) and its one reader, the shell          *)
(* (shell.c): shell_get_char and the loop that edits the command line.     *)
(*                                                                         *)
(* The keyboard interrupt is delivered to the boot core, where the shell   *)
(* runs too.  Its handler runs to the end with interrupts off, so it is    *)
(* one action, but it may come between any two of the shell's accesses to  *)
(* the ring.  Nothing guards the ring: the handler writes only kb_head,    *)
(* the shell only kb_tail, and one slot always stays empty.                *)
(*                                                                         *)
(* keyboard_get_char's hlt is never reached: its only caller has seen a    *)
(* character, and nobody else takes one.                                   *)
(***************************************************************************)
EXTENDS Naturals, Sequences

CONSTANTS Scancodes,   \* what the controller may send
          Ascii,       \* [Scancodes \X BOOLEAN -> Chars \cup {NoChar}]:
                       \* kbd_us and kbd_us_shift; releases have no character
          Chars, NoChar,
          ShiftDown, ShiftUp,   \* the scancodes of the shift keys
          SerialChars,          \* what the serial line may bring
          Newline, Backspace, Delete, Return, Phantom,
          Printable,            \* the characters from 32 to 126
          Yes,                  \* 'y' and 'Y'
          KB_BUFFER_SIZE,
          LineLength            \* sizeof(line) in shell_start

ASSUME KeyboardAssumption ==
    /\ Ascii \in [Scancodes \X BOOLEAN -> Chars \cup {NoChar}]
    /\ NoChar \notin Chars
    /\ KB_BUFFER_SIZE \in Nat \ {0} /\ LineLength \in Nat \ {0}
    /\ {Newline, Backspace} \cup (SerialChars \ {Phantom, Delete, Return}) \subseteq Chars

VARIABLES
    kb_buffer, kb_head, kb_tail,   \* the ring
    shift_active,
    shell,   \* where the shell stands
    wants,   \* what shell_get_char was called for: the "line", an "answer",
             \* or shutdown's "choice" to reboot
    c,       \* the character it is about to return
    line,    \* the command line so far; its length is idx
    \* Two with no counterpart in the code:
    taken,   \* the last character taken from the ring
    beat     \* flips with each character typed

ringVars == <<kb_buffer, kb_head, kb_tail>>
vars == <<ringVars, shift_active, shell, wants, c, line, taken, beat>>

Slot == 0 .. (KB_BUFFER_SIZE - 1)

Init == /\ kb_buffer = [k \in Slot |-> NoChar] /\ kb_head = 0 /\ kb_tail = 0
        /\ shift_active = FALSE
        /\ shell = "poll" /\ wants = "line" /\ c \in Chars /\ line = <<>>
        /\ taken \in Chars /\ beat = FALSE

\* (mutant) the ring is left at its end.
FollowingPast(k) == k + 1

Following(k) == (k + 1) % KB_BUFFER_SIZE

-----------------------------------------------------------------------------
(* The interrupt. *)

\* keyboard_handler: the shift keys take effect before the scancode is looked
\* up.  A character that finds the ring full is dropped.
Shift(sc) == IF sc \in ShiftDown THEN TRUE
             ELSE IF sc \in ShiftUp THEN FALSE
             ELSE shift_active

\* (mutant) the full ring is not noticed.
StoreAlways(a) == /\ kb_buffer' = [kb_buffer EXCEPT ![kb_head] = a]
                  /\ kb_head' = Following(kb_head)

\* (mutant) two slots stay empty.
StoreShort(a) == IF Following(Following(kb_head)) # kb_tail
                 THEN /\ kb_buffer' = [kb_buffer EXCEPT ![kb_head] = a]
                      /\ kb_head' = Following(kb_head)
                 ELSE UNCHANGED <<kb_buffer, kb_head>>

Store(a) == IF Following(kb_head) # kb_tail
            THEN /\ kb_buffer' = [kb_buffer EXCEPT ![kb_head] = a]
                 /\ kb_head' = Following(kb_head)
            ELSE UNCHANGED <<kb_buffer, kb_head>>

KeyboardHandler(sc) ==
    /\ shift_active' = Shift(sc)
    /\ LET ascii == Ascii[<<sc, shift_active'>>]
       IN  IF ascii # NoChar
           THEN Store(ascii) /\ beat' = ~beat
           ELSE UNCHANGED <<kb_buffer, kb_head, beat>>
    /\ UNCHANGED <<kb_tail, shell, wants, c, line, taken>>

-----------------------------------------------------------------------------
(* The shell. *)

\* keyboard_has_char, then keyboard_get_char in two accesses: the character,
\* then kb_tail.  Without a key the serial line is asked; one typed meanwhile
\* has to wait for the next turn, or the next call.
HasChar == /\ shell = "poll" /\ kb_head # kb_tail
           /\ shell' = "get"
           /\ UNCHANGED <<ringVars, shift_active, wants, c, line, taken, beat>>

NoKey == /\ shell = "poll" /\ kb_head = kb_tail
         /\ shell' = "serial"
         /\ UNCHANGED <<ringVars, shift_active, wants, c, line, taken, beat>>

LoadChar == /\ shell = "get"
            /\ shell' = "advance" /\ c' = kb_buffer[kb_tail]
            /\ UNCHANGED <<ringVars, shift_active, wants, line, taken, beat>>

Advance == /\ shell = "advance"
           /\ shell' = "got" /\ kb_tail' = Following(kb_tail)
           /\ taken' = c
           /\ UNCHANGED <<kb_buffer, kb_head, shift_active, wants, c, line, beat>>

NoSerial == /\ shell = "serial"
            /\ shell' = "poll"
            /\ UNCHANGED <<ringVars, shift_active, wants, c, line, taken, beat>>

\* A character from the serial line, converted.
SerialRead(r) ==
    /\ shell = "serial"
    /\ IF r = Phantom THEN shell' = "poll" /\ UNCHANGED c
       ELSE /\ shell' = "got"
            /\ c' = IF r = Delete THEN Backspace
                    ELSE IF r = Return THEN Newline ELSE r
    /\ UNCHANGED <<ringVars, shift_active, wants, line, taken, beat>>

\* shell_start's loop.  The last byte of the line is kept for the terminator.
\* (mutant) it is not.
EditPast(a) == IF a = Backspace
               THEN line' = IF line = <<>> THEN line
                            ELSE SubSeq(line, 1, Len(line) - 1)
               ELSE line' = IF Len(line) < LineLength /\ a \in Printable
                            THEN Append(line, a) ELSE line

Edit(a) == IF a = Backspace
           THEN line' = IF line = <<>> THEN line
                        ELSE SubSeq(line, 1, Len(line) - 1)
           ELSE line' = IF Len(line) < LineLength - 1 /\ a \in Printable
                        THEN Append(line, a) ELSE line

EditLine == /\ shell = "got" /\ wants = "line" /\ c # Newline
            /\ shell' = "poll" /\ Edit(c)
            /\ UNCHANGED <<ringVars, shift_active, wants, c, taken, beat>>

\* An empty line is not a command.
EndLine == /\ shell = "got" /\ wants = "line" /\ c = Newline
           /\ shell' = IF line = <<>> THEN "poll" ELSE "command"
           /\ UNCHANGED <<ringVars, shift_active, wants, c, line, taken, beat>>

\* A command runs for as long as it likes.  igputest and shutdown ask for one
\* character; shutdown, told yes and unable to switch off, for another, after
\* which it reboots or halts.
Ask == /\ shell = "command" /\ wants = "line"
       /\ shell' = "poll" /\ wants' = "answer"
       /\ UNCHANGED <<ringVars, shift_active, c, line, taken, beat>>

AskChoice == /\ shell = "command" /\ wants = "answer" /\ c \in Yes
             /\ shell' = "poll" /\ wants' = "choice"
             /\ UNCHANGED <<ringVars, shift_active, c, line, taken, beat>>

Answered == /\ shell = "got" /\ wants # "line"
            /\ shell' = IF wants = "choice" THEN "halted" ELSE "command"
            /\ UNCHANGED <<ringVars, shift_active, wants, c, line, taken, beat>>

CommandEnds == /\ shell = "command"
               /\ shell' = "poll" /\ wants' = "line" /\ line' = <<>>
               /\ UNCHANGED <<ringVars, shift_active, c, taken, beat>>

ShellStep == \/ HasChar \/ NoKey \/ LoadChar \/ Advance \/ NoSerial
             \/ EditLine \/ EndLine \/ Answered

Next == \/ \E sc \in Scancodes : KeyboardHandler(sc)
        \/ ShellStep
        \/ \E r \in SerialChars : SerialRead(r)
        \/ Ask \/ AskChoice \/ CommandEnds

\* The shell's own loop runs.  Nobody has to type, and a command need not end.
Spec == Init /\ [][Next]_vars /\ WF_vars(ShellStep)

-----------------------------------------------------------------------------
(* Properties. *)

TypeOK == /\ kb_buffer \in [Slot -> Chars \cup {NoChar}]
          /\ kb_head \in Slot /\ kb_tail \in Slot
          /\ shift_active \in BOOLEAN
          /\ shell \in {"poll", "serial", "get", "advance", "got", "command",
                        "halted"}
          /\ wants \in {"line", "answer", "choice"}
          /\ c \in Chars
          /\ line \in Seq(Chars) /\ Len(line) < LineLength
          /\ taken \in Chars /\ beat \in BOOLEAN

\* Between its test and its move the shell owns the oldest slot: whatever the
\* handler does in between, the slot is not empty and holds what was loaded.
ReaderOwnsTail ==
    /\ shell \in {"get", "advance"} => kb_head # kb_tail
    /\ shell = "advance" => c = kb_buffer[kb_tail]

\* While a key waits in the ring, a shell that asks for a character gets one:
\* the key, or what the serial line brought first.
CharReachesShell ==
    shell \in {"poll", "serial"} /\ kb_head # kb_tail ~> shell = "got"

\* The ring is a queue with room for all its slots but one: what the shell
\* takes is what was typed, in that order, and a character is dropped only
\* when the queue is full.
Waiting == IF kb_head >= kb_tail THEN kb_head - kb_tail
           ELSE kb_head + KB_BUFFER_SIZE - kb_tail
SlotOf(k) == IF kb_tail + k < KB_BUFFER_SIZE THEN kb_tail + k
             ELSE kb_tail + k - KB_BUFFER_SIZE

Abstract == INSTANCE CharQueue WITH
                Capacity <- KB_BUFFER_SIZE - 1,
                queue <- [k \in 0 .. (Waiting - 1) |-> kb_buffer[SlotOf(k)]],
                size <- Waiting

ImplementsQueue == Abstract!Spec
=============================================================================
