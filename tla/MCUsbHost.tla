------------------------------ MODULE MCUsbHost ------------------------------
EXTENDS UsbHost

Faulty == [faults |-> TRUE, prompt |-> FALSE]
Quiet == [faults |-> FALSE, prompt |-> TRUE]
PromptFaulty == [faults |-> TRUE, prompt |-> TRUE]

FaultyOrQuiet == {Faulty, Quiet}
OnlyPromptFaulty == {PromptFaulty}
=============================================================================
