\* A box of three characters, up to two typed between two frames; three toasts of any
\* length, frames of up to two seconds.
CONSTANTS
    Chars <- MCChars
    Odd <- MCOdd
    sizeLimit = 3
    MaxKeys = 2
    MaxToasts = 3
    MaxFrame = 2
SPECIFICATION WidgetsSpec
INVARIANTS
    Terminated
    ToastsInOrder
    FullTime
PROPERTIES
    FieldSpec
    ToastShown
