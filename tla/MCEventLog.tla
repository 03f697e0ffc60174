------------------------------ MODULE MCEventLog ------------------------------
(* Small instances of EventLog: events of three and four bytes, one of which *)
(* holds a two-byte character, and one event that is over the ceiling.       *)
EXTENDS EventLogJournal, TLC

CONSTANTS small, wide, huge

MCEvents == {small, wide, huge}
TwoEvents == {small, wide}
MCSize == [e \in Events |-> CASE e = small -> 3 [] e = wide -> 4 [] e = huge -> 6]
MCSplit == [e \in Events |-> IF e = wide THEN {1} ELSE {}]
MCCeiling == 4

AllOnly == {Events}
AllOrWide == {MCEvents, {wide}}
NoLimit == {None}
NoneOrOne == {None, 1}
WriterSymmetry == Permutations(Writers)
=============================================================================
