SPECIFICATION Spec
CONSTANT Units = {"inline", "quotes", "blocks", "convert", "tex", "check"}
INVARIANTS
    ParsesTheParts
    QuotesToggle
    SectionsEnd
    ConvertsParts
    TexBalanced
    ChecksBalance
CHECK_DEADLOCK FALSE
