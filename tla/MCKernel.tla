----------------------------- MODULE MCKernel -----------------------------
EXTENDS KernelProps

\* A table with two threads of one priority.
PeersPriority == [t \in Thread |-> <<0, 0, 1, 0>>[t + 1]]
PeersPeriod   == [t \in Thread |-> <<2, 3, 2, 1>>[t + 1]]
EqualPeriod   == [t \in Thread |-> <<2, 2, 3, 1>>[t + 1]]

\* What the programs of a table do: send and receive, or use signals; beside the
\* kernel shell they wait for messages.
TimingCalls == [a \in Tables |-> {"sleep", "yield", "send", "receive"}]
SomeCalls ==
    [a \in Tables |-> CASE a = {0, 1} -> {"send", "receive"}
                        [] a = {0, 1, 2} -> {"yield", "signal", "kill", "return"}
                        [] OTHER -> {"receive"}]
SomeTargets   == [a \in Tables |-> IF a = {0, 1, 2} THEN {0, 1} ELSE {1}]
TimingTargets == [a \in Tables |-> {1}]
SignalTargets == [a \in Tables |-> {0, 1}]
SignalCalls == [a \in Tables |-> {"yield", "signal", "kill", "return"}]

Texts2 == {[i \in 0 .. 1 |-> "a"], [i \in {0} |-> "b"]}

=============================================================================
