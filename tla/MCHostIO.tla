------------------------------- MODULE MCHostIO -------------------------------
(* The clients of one host that wait for the outside world: a byte stream, *)
(* the console's input and a command.  They share no state, so a behaviour *)
(* is one of theirs.                                                       *)
EXTENDS StreamSlot, ConsoleInput, CommandSupervisor

VARIABLE client

hostVars == <<client, vars, consoleVars, commandVars>>

(* Lines, and input without a newline at the end of input or before it.    *)
Typed == {<<"l1", "l2", "part", "Eof">>, <<"part", "l1", "Failed">>}

HostInit ==
    /\ client \in {"stream", "console", "command"}
    /\ Init /\ ConsoleInit /\ CommandInit
    /\ client # "console" => supply = <<"part", "l1", "Failed">> /\ thread.state = "waiting"
                              /\ \A r \in Reader : read[r].all

HostNext ==
    \/ client = "stream" /\ Next /\ UNCHANGED <<client, consoleVars, commandVars>>
    \/ client = "console" /\ ConsoleNext /\ UNCHANGED <<client, vars, commandVars>>
    \/ client = "command" /\ CommandNext /\ UNCHANGED <<client, vars, consoleVars>>

(* A client that does not run stays in its initial state, where fairness   *)
(* asks nothing of it.                                                     *)
HostSpec ==
    /\ HostInit /\ [][HostNext]_hostVars
    /\ StreamFairness /\ ConsoleFairness /\ CommandFairness

=============================================================================
