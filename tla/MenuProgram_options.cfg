\* Four calls of the options with small, large, negative and wrapped numbers.
SPECIFICATION FairSpec
CONSTANTS
    WIDTH = 6
    Numbers <- const_Numbers
    Leftover <- const_Leftover
    BAD = BAD
    MaxCalls = 4
INVARIANTS
    TypeOK
    ShowsFibonacci
    FirstFactorialRight
PROPERTIES
    OverflowIsFinal
    OptionsReturn
