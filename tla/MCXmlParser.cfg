\* Texts of up to four commands, in pieces of any size, through a buffer that starts
\* with four characters.
SPECIFICATION ParserSpec
CONSTANTS
    Letter <- MCLetter
    Inputs <- MCInputs
    BufIncrement = 4
    BufLenMax = 28
INVARIANT FlagsKept
CHECK_DEADLOCK FALSE
