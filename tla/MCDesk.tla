-------------------------------- MODULE MCDesk --------------------------------
(* Small instances of the desk: recordings of a few words, texts of a few    *)
(* words with all their punctuations.                                        *)
EXTENDS DeskProperties

MCRecordings == {<<1, 2, 3, 4>>}

Unpunctuated(n) == [i \in 1..n |-> FALSE]
MCTexts == << {<<TRUE>>, Unpunctuated(10)}, {<<TRUE>>} >>
MCSpoken == UNION {[1..n -> BOOLEAN] : n \in 1..8}
MCParts == {"clipboard", "recovery", "cleanup"}
MCPaste == {"clipboard"}
=============================================================================
