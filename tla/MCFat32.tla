------------------------------ MODULE MCFat32 ------------------------------
EXTENDS Fat32Props

\* Text of the file t reads as a directory d, or as an entry that was removed;
\* text of d as a file t, or as something the loops pass over.
Other == CHOOSE n \in Names : n # TestName
MCLook ==
    [n \in Names |-> [s \in Slots |->
       IF n = TestName THEN IF s = 0 THEN Entry(Other, 0, TRUE) ELSE Mark("deleted", NoName)
                       ELSE IF s = 0 THEN Entry(TestName, 0, FALSE) ELSE Dot]]
=============================================================================
