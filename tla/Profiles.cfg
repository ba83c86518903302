\* -P with one or two files of a few lines, with -env test.
CONSTANTS
    Lines <- MCLines
    Names <- MCNames
    ArgLists <- MCArgLists
    EnvName = "test"
    MaxLines = 5
    EmptyIsDigits = FALSE
    Unset = "unset"
SPECIFICATION Spec
INVARIANTS TypeOK CommentsBelong ExportsInScope SelectionExact BodyWhole
