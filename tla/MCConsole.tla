------------------------------ MODULE MCConsole ------------------------------
EXTENDS Console

Demo(command, period, rounds, stress) ==
    [command |-> command, period |-> period, rounds |-> rounds, stress |-> stress]
Boot     == Demo(<<>>, 3, 3, FALSE)
AllDemos == {Boot, Demo(<<"r">>, 3, 3, FALSE), Demo(<<"r", "r">>, 5, 2, TRUE)}

Hash == <<"#">>
Tick == <<"t", "LF">>
\* A line; "clear", which prints no line end; a file with control characters.
Texts == {<<"o", "LF">>, <<"o", "o">>, <<"BS", "o", "CR", "LF">>}
=============================================================================
