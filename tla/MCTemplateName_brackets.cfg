\* A metadata value containing a later key's placeholder is substituted again.
CONSTANTS
    Keys <- MCKeys
    Templates <- MCTemplates
    Existing <- MCExisting
    Values <- BracketValues
SPECIFICATION Spec
INVARIANT FormatMatchesReference
\* format_template runs once; its result is final.
CHECK_DEADLOCK FALSE
