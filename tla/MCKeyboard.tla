----------------------------- MODULE MCKeyboard -----------------------------
EXTENDS Keyboard

CONSTANTS a, A, nl, bs, none, del, cr, ff,   \* characters
          keyA, keyEnter, keyShift, keyShiftUp, keyUp   \* scancodes

MCScancodes == {keyA, keyEnter, keyShift, keyShiftUp, keyUp}

MCAscii == [k \in MCScancodes \X BOOLEAN |->
              CASE k[1] = keyA -> IF k[2] THEN A ELSE a
                [] k[1] = keyEnter -> nl
                [] OTHER -> none]
=============================================================================
