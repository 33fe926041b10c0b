\* Every entry of up to three labels over one label and both wildcards, any
\* three of them in any order, asked for with a second label that no entry has.
SPECIFICATION Spec
CONSTANTS
    Labels = {a}
    Others = {x}
    MaxLabels = 3
    MaxEntries = 3
    Nil = Nil
INVARIANTS TreeIsTheList MostSpecificDecides
PROPERTY FreedByMoreSpecificOnly
\* The configuration has been read.
CHECK_DEADLOCK FALSE
