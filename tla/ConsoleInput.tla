----------------------------- MODULE ConsoleInput -----------------------------
(***************************************************************************)
(* The broker that owns the process's standard input                       *)
(* (console/local_stdio.rs).                                               *)
(*                                                                         *)
(* A thread reads one chunk of input for each demand and hands it over     *)
(* through a channel.  Reads wait for the broker's lock in turn; the one   *)
(* that has it asks for input and waits, and may be cancelled, or run out  *)
(* of time, wherever it waits.  What it asked for arrives later and        *)
(* belongs to the next read.                                               *)
(*                                                                         *)
(* A chunk is what one read_line of the standard library returns: a line,  *)
(* or input without a newline when the end of input cut it short.          *)
(***************************************************************************)
EXTENDS Naturals, Sequences

CONSTANTS
    Reader,     \* the reads of this process, each asked for once
    Inputs,     \* what may come in: sequences of chunks, then "Eof" or "Failed"
    Unended,    \* the chunks without a newline
    NoRead

Line(e) == e \notin {"Eof", "Failed"}

ASSUME ConsoleAssumption ==
    /\ NoRead \notin Reader /\ Inputs \subseteq Seq(STRING)
    /\ \A s \in Inputs : Len(s) > 0 /\ \A i \in 1 .. Len(s) : Line(s[i]) <=> i < Len(s)

VARIABLES
    tape,       \* the input the thread has not read
    thread,     \* what the thread does
    demand,     \* messages in the demand channel, which has one place
    events,     \* messages in the event channel, which has one place
    buffered, pending, stdin_eof,         \* ConsoleInputState
    holder, waiting,                \* the lock of that state
    read,       \* all: read_all or read_line; step; and the answer
    supply,     \* history: the input as it was
    given       \* history: what reads took, in order

consoleVars == <<tape, thread, demand, events, buffered, pending, stdin_eof, holder, waiting,
                 read, supply, given>>

Busy == {"reading", "sending"}

(* try_send and the channel's receiver: it lives as long as the thread.    *)
ThreadIsUp == thread.state \in {"waiting", "ending"} \cup Busy

NewRead(all) == [all |-> all, step |-> "new", text |-> <<>>]

(* The broker is made with the thread, or, if the thread cannot be         *)
(* started, with the failure as the only event.                            *)
ConsoleInit ==
    /\ supply \in Inputs /\ tape = supply
    /\ \/ thread = [state |-> "waiting", event |-> "Eof"] /\ events = <<>>
       \/ thread = [state |-> "unborn", event |-> "Eof"] /\ events = <<"Failed">>
    /\ demand = 0
    /\ buffered = <<>> /\ pending = FALSE /\ stdin_eof = FALSE
    /\ holder = NoRead /\ waiting = <<>>
    /\ read \in [Reader -> {NewRead(all) : all \in BOOLEAN}]
    /\ given = <<>>

threadVars == <<tape, thread, demand, events>>
stateVars == <<buffered, pending, stdin_eof>>

Goes(r, step) == read' = [read EXCEPT ![r].step = step]

-----------------------------------------------------------------------------
(* The thread *)

TakeDemand ==
    /\ thread.state = "waiting" /\ demand = 1
    /\ demand' = 0
    /\ thread' = [thread EXCEPT !.state = "reading"]
    /\ UNCHANGED <<tape, events, stateVars, holder, waiting, read, supply, given>>

ReadChunk ==
    /\ thread.state = "reading" /\ tape # <<>>
    /\ thread' = [state |-> "sending", event |-> Head(tape)]
    /\ tape' = Tail(tape)
    /\ UNCHANGED <<demand, events, stateVars, holder, waiting, read, supply, given>>

(* blocking_send waits for the place in the channel.  The end of input, or *)
(* a failure, is the last event.                                           *)
SendEvent ==
    /\ thread.state = "sending" /\ events = <<>>
    /\ events' = <<thread.event>>
    /\ thread' = [thread EXCEPT !.state = IF Line(thread.event) THEN "waiting" ELSE "ending"]
    /\ UNCHANGED <<tape, demand, stateVars, holder, waiting, read, supply, given>>

(* The thread drops its ends of the channels, with a demand that came too  *)
(* late.                                                                   *)
EndThread ==
    /\ thread.state = "ending"
    /\ thread' = [thread EXCEPT !.state = "over"]
    /\ demand' = 0
    /\ UNCHANGED <<tape, events, stateVars, holder, waiting, read, supply, given>>

-----------------------------------------------------------------------------
(* Reads *)

(* The checks before a read: cancelled, not allowed, out of time.          *)
StartRead(r) ==
    /\ read[r].step = "new"
    /\ \/ Goes(r, "queued") /\ waiting' = Append(waiting, r)
       \/ Goes(r, "refused") /\ UNCHANGED waiting
    /\ UNCHANGED <<threadVars, stateVars, holder, supply, given>>

TakeLock(r) ==
    /\ holder = NoRead /\ waiting # <<>> /\ Head(waiting) = r
    /\ holder' = r /\ waiting' = Tail(waiting)
    /\ Goes(r, "turn")
    /\ UNCHANGED <<threadVars, stateVars, supply, given>>

(* The read returns n chunks of those in text and gives up the lock.       *)
Yield(r, text, n) ==
    /\ read' = [read EXCEPT ![r].step = "returned", ![r].text = SubSeq(text, 1, n)]
    /\ given' = given \o SubSeq(text, 1, n)
    /\ buffered' = SubSeq(text, n + 1, Len(text))
    /\ holder' = NoRead

Fail(r) ==
    /\ Goes(r, "failed")
    /\ holder' = NoRead
    /\ UNCHANGED <<buffered, given>>

(* The chunks up to and with the first newline; none if there is none.     *)
UpToNewline(text) ==
    LET ends == {i \in 1 .. Len(text) : text[i] \notin Unended}
    IN  IF ends = {} THEN 0 ELSE CHOOSE i \in ends : \A j \in ends : i <= j

(* Mutant of Turn: a line is taken from the channel before the buffer.     *)
TurnSkipsBuffer(r) ==
    /\ read[r].step = "turn"
    /\ IF stdin_eof THEN Yield(r, buffered, Len(buffered)) /\ UNCHANGED <<pending, stdin_eof, demand>>
       ELSE IF pending \/ thread.state = "unborn" THEN
            Goes(r, "receiving") /\ pending' = TRUE
                /\ UNCHANGED <<buffered, given, holder, stdin_eof, demand>>
       ELSE IF ThreadIsUp /\ demand = 0 THEN
            Goes(r, "receiving") /\ pending' = TRUE /\ demand' = 1
                /\ UNCHANGED <<buffered, given, holder, stdin_eof>>
       ELSE Fail(r) /\ UNCHANGED <<pending, stdin_eof, demand>>
    /\ UNCHANGED <<tape, thread, events, waiting, supply>>

(* One turn of read_serialized up to its await: a line from the buffer,    *)
(* what is left at the end of input, or a demand, unless one is pending.   *)
Turn(r) ==
    LET n == UpToNewline(buffered)
    IN  /\ read[r].step = "turn"
        /\ IF ~read[r].all /\ n > 0 THEN Yield(r, buffered, n) /\ UNCHANGED <<pending, stdin_eof, demand>>
           ELSE IF stdin_eof THEN Yield(r, buffered, Len(buffered)) /\ UNCHANGED <<pending, stdin_eof, demand>>
           ELSE IF pending \/ thread.state = "unborn" THEN
                Goes(r, "receiving") /\ pending' = TRUE
                    /\ UNCHANGED <<buffered, given, holder, stdin_eof, demand>>
           ELSE IF ThreadIsUp /\ demand = 0 THEN
                Goes(r, "receiving") /\ pending' = TRUE /\ demand' = 1
                    /\ UNCHANGED <<buffered, given, holder, stdin_eof>>
           ELSE Fail(r) /\ UNCHANGED <<pending, stdin_eof, demand>>
        /\ UNCHANGED <<tape, thread, events, waiting, supply>>

(* An event arrives: read_line returns with it, read_all goes on until the *)
(* end of input.                                                           *)
Receive(r) ==
    /\ read[r].step = "receiving" /\ events # <<>>
    /\ LET e == Head(events)
       IN  /\ pending' = FALSE /\ events' = <<>>
           /\ stdin_eof' = (e = "Eof")
           /\ CASE Line(e) /\ ~read[r].all ->
                    Yield(r, Append(buffered, e), Len(buffered) + 1)
                [] Line(e) /\ read[r].all ->
                    /\ Goes(r, "turn") /\ buffered' = Append(buffered, e)
                    /\ UNCHANGED <<given, holder>>
                [] e = "Eof" -> Yield(r, buffered, Len(buffered))
                [] e = "Failed" -> Fail(r)
    /\ UNCHANGED <<tape, thread, demand, waiting, supply>>

(* recv returns None: the thread is over and nothing is left.              *)
ReceiveNothing(r) ==
    /\ read[r].step = "receiving" /\ events = <<>> /\ ~ThreadIsUp
    /\ Fail(r)
    /\ UNCHANGED <<threadVars, pending, stdin_eof, waiting, supply>>

(* Mutant of Abandon: the demand is forgotten with the read that made it.  *)
AbandonForgets(r) ==
    /\ read[r].step \in {"queued", "receiving"}
    /\ Goes(r, "abandoned")
    /\ waiting' = SelectSeq(waiting, LAMBDA s : s # r)
    /\ holder' = IF holder = r THEN NoRead ELSE holder
    /\ pending' = (pending /\ holder # r)
    /\ UNCHANGED <<threadVars, buffered, stdin_eof, supply, given>>

(* Mutant of Abandon: what a read_all has so far goes with its future.     *)
AbandonLosesText(r) ==
    /\ read[r].step \in {"queued", "receiving"}
    /\ Goes(r, "abandoned")
    /\ waiting' = SelectSeq(waiting, LAMBDA s : s # r)
    /\ holder' = IF holder = r THEN NoRead ELSE holder
    /\ buffered' = IF holder = r THEN <<>> ELSE buffered
    /\ UNCHANGED <<threadVars, pending, stdin_eof, supply, given>>

(* Mutant of Abandon: the lock is not given up.                            *)
AbandonKeepsLock(r) ==
    /\ read[r].step \in {"queued", "receiving"}
    /\ Goes(r, "abandoned")
    /\ waiting' = SelectSeq(waiting, LAMBDA s : s # r)
    /\ UNCHANGED <<threadVars, stateVars, holder, supply, given>>

(* Cancelled or out of time while it waits for the lock or for input: the  *)
(* future is dropped, the demand stays.                                    *)
Abandon(r) ==
    /\ read[r].step \in {"queued", "receiving"}
    /\ Goes(r, "abandoned")
    /\ waiting' = SelectSeq(waiting, LAMBDA s : s # r)
    /\ holder' = IF holder = r THEN NoRead ELSE holder
    /\ UNCHANGED <<threadVars, stateVars, supply, given>>

(* The time is checked again when the read has returned.                   *)
FinishRead(r) ==
    /\ read[r].step = "returned"
    /\ Goes(r, "done") \/ Goes(r, "late")
    /\ UNCHANGED <<threadVars, stateVars, holder, waiting, supply, given>>

Proceeds(r) == TakeLock(r) \/ Turn(r) \/ Receive(r) \/ ReceiveNothing(r) \/ FinishRead(r)

ThreadRuns == TakeDemand \/ ReadChunk \/ SendEvent \/ EndThread

ConsoleNext == ThreadRuns \/ \E r \in Reader : StartRead(r) \/ Abandon(r) \/ Proceeds(r)

ConsoleSpec == ConsoleInit /\ [][ConsoleNext]_consoleVars

(* The thread and the tasks that read are scheduled; the input is that of  *)
(* a file or a pipe, which comes until it ends.                            *)
ConsoleFairness == WF_consoleVars(ThreadRuns \/ \E r \in Reader : Proceeds(r))

-----------------------------------------------------------------------------
InThread == IF thread.state = "sending" THEN <<thread.event>> ELSE <<>>
ToCome == (IF thread.state = "unborn" THEN <<>> ELSE events \o InThread) \o tape

(* No input is lost, doubled or reordered, however many reads are          *)
(* cancelled while they wait: what reads took, in the order in which they  *)
(* took it, then the buffer, the channel, the thread's hand and the rest   *)
(* of the input are the input; its end is no text and is gone once it was  *)
(* received (read_serialized, next_event: "Retain the in-flight read       *)
(* across cancellation").                                                  *)
InputIsConserved ==
    given \o buffered \o ToCome =
        SubSeq(supply, 1, Len(supply) - (IF ToCome = <<>> THEN 1 ELSE 0))

(* Nothing is read ahead: there is a chunk on its way only while a demand  *)
(* is pending, and never more than one, so that input the program did not  *)
(* ask for stays with the terminal (with_reader, next_event).              *)
NothingIsPrefetched ==
    LET inFlight == demand + Len(events) + (IF thread.state \in Busy THEN 1 ELSE 0)
    IN  thread.state # "unborn" =>
            /\ inFlight <= IF pending THEN 1 ELSE 0
            /\ pending /\ ThreadIsUp => inFlight = 1

(* A read_line returns no more than one line, also when what it returns is *)
(* left from a read_all that was cancelled, and nothing only at the end of *)
(* input; a read_all returns at the end of input (read_serialized).        *)
ReadsAreWhole ==
    \A r \in Reader : read[r].step \in {"returned", "done", "late"} =>
        \/ stdin_eof
        \/ ~read[r].all /\ read[r].text # <<>>
             /\ UpToNewline(read[r].text) \in {0, Len(read[r].text)}

(* A read that waits comes back (read_serialized): the lock is handed on   *)
(* by every read that ends, in whatever way, and no demand is lost.        *)
ReadsReturn ==
    \A r \in Reader : read[r].step = "queued" ~>
        read[r].step \in {"done", "late", "failed", "abandoned"}

=============================================================================
