SPECIFICATION Spec
CONSTANTS
    Chars <- MCChars
    Alnum <- MCAlnum
    Word <- MCWord
    Blanks = {" "}
    Space = " "
    Comma = ","
    Marks = {"+"}
    Normal <- MCNormal
    MaxTerms = 3
    MaxText = 3
    None = None
CHECK_DEADLOCK FALSE
INVARIANTS SafeMatchesWholeWords TitleIsExcluded
