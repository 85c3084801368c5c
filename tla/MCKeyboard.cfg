SPECIFICATION Spec
CONSTANTS
    a = a
    A = A
    nl = nl
    bs = bs
    none = none
    del = del
    cr = cr
    ff = ff
    keyA = keyA
    keyEnter = keyEnter
    keyShift = keyShift
    keyShiftUp = keyShiftUp
    keyUp = keyUp
    Scancodes <- MCScancodes
    Ascii <- MCAscii
    Chars = {a, A, nl, bs}
    NoChar = none
    ShiftDown = {keyShift}
    ShiftUp = {keyShiftUp}
    SerialChars = {a, del, cr, ff}
    Newline = nl
    Backspace = bs
    Delete = del
    Return = cr
    Phantom = ff
    Printable = {a, A}
    Yes = {A}
    KB_BUFFER_SIZE = 3
    LineLength = 3
INVARIANTS TypeOK ReaderOwnsTail
PROPERTIES CharReachesShell ImplementsQueue
