SPECIFICATION FairSpec
CONSTANT Relabels = FALSE
INVARIANTS ReferenceReal NoGuess
PROPERTIES EndsSettled HomeEnds
