------------------------- MODULE ConsoleCommandProofs -------------------------
(***************************************************************************)
(* The safety properties of the console's input and of a supervised        *)
(* command, for any number of reads, any input and any descendants.        *)
(***************************************************************************)
EXTENDS ConsoleInput, CommandSupervisor, SequenceTheorems, WellFoundedInduction, TLAPS

(* Most leaves are first-order; the ones that need more name SMT.          *)
USE Zenon

-----------------------------------------------------------------------------
(* The console's input *)

Chunk == STRING \cup {"Eof", "Failed"}
Texts == Seq(Chunk)
ReadSteps == {"new", "queued", "turn", "receiving", "returned", "refused", "failed", "abandoned",
              "done", "late"}
ReadType == [all : BOOLEAN, step : ReadSteps, text : Texts]
ThreadType == [state : {"waiting", "reading", "sending", "ending", "over", "unborn"},
               event : Chunk]

ConsoleTypeOK ==
    /\ tape \in Texts /\ buffered \in Texts /\ given \in Texts /\ supply \in Inputs
    /\ thread \in ThreadType /\ demand \in {0, 1}
    /\ events = <<>> \/ \E e \in Chunk : events = <<e>>
    /\ pending \in BOOLEAN /\ stdin_eof \in BOOLEAN
    /\ read \in [Reader -> ReadType]

(* The lock has its holder; a read that waits for input has found neither  *)
(* the end of input nor, if it wants a line, a whole line.                 *)
ConsoleLock ==
    \A r \in Reader :
        /\ read[r].step \in {"turn", "receiving"} <=> holder = r
        /\ read[r].step = "receiving" =>
              ~stdin_eof /\ (~read[r].all => UpToNewline(buffered) = 0)

(* Without a thread there is only the failure to start it.                 *)
ConsoleUnborn ==
    thread.state = "unborn" => events \in {<<>>, <<"Failed">>} /\ demand = 0

ConsoleInv ==
    /\ ConsoleTypeOK /\ ConsoleLock /\ ConsoleUnborn
    /\ NothingIsPrefetched /\ InputIsConserved /\ ReadsAreWhole

LEMMA EventChunks == "Eof" \in Chunk /\ "Failed" \in Chunk
BY DEF Chunk

LEMMA SeqGrows ==
    ASSUME NEW S, NEW T, S \subseteq T, NEW s \in Seq(S) PROVE s \in Seq(T)
BY SMT

LEMMA InputsAreText == Inputs \subseteq Seq(Chunk)
<1>1. STRING \subseteq Chunk
  BY DEF Chunk
<1>2. ASSUME NEW s \in Inputs PROVE s \in Seq(Chunk)
  BY <1>1, SeqGrows, ConsoleAssumption
<1>3. QED
  BY <1>2

(* The first newline is where UpToNewline says, if there is one.           *)
LEMMA FirstNewline ==
    ASSUME NEW t \in Texts, NEW n, n = UpToNewline(t)
    PROVE  /\ n \in 0 .. Len(t)
           /\ n = 0 => \A i \in 1 .. Len(t) : t[i] \in Unended
           /\ n > 0 => t[n] \notin Unended /\ \A i \in 1 .. n - 1 : t[i] \in Unended
<1> DEFINE ends == {i \in 1 .. Len(t) : t[i] \notin Unended}
<1>1. \A i : i \in ends <=> i \in 1 .. Len(t) /\ t[i] \notin Unended
  OBVIOUS
<1>2. n = IF ends = {} THEN 0 ELSE CHOOSE i \in ends : \A j \in ends : i <= j
  BY DEF UpToNewline
<1> HIDE DEF ends
<1>3. Len(t) \in Nat
  BY LenProperties DEF Texts
<1>4. CASE ends = {}
  <2>1. n = 0
    BY <1>2, <1>4
  <2>2. QED
    BY <1>1, <1>3, <1>4, <2>1, SMT
<1>5. CASE ends # {}
  <2>1. ends \subseteq Nat
    BY <1>1, <1>3, SMT
  <2>2. PICK x \in ends : \A y \in ends : ~(<<y, x>> \in OpToRel(<, Nat))
    BY <1>5, <2>1, NatLessThanWellFounded, WFMin
  <2>3. \A y \in ends : x <= y
    <3>1. ASSUME NEW y \in ends, y < x PROVE FALSE
      <4>1. <<y, x>> \in OpToRel(<, Nat)
        BY <2>1, <2>2, <3>1, SMT DEF OpToRel
      <4>2. QED
        BY <2>2, <4>1
    <3>2. \A y \in ends : ~(y < x) /\ x \in Nat /\ y \in Nat
      BY <2>1, <2>2, <3>1
    <3>3. QED
      BY ONLY <3>2, SMT
  <2>4. n = CHOOSE i \in ends : \A j \in ends : i <= j
    BY <1>2, <1>5
  <2>5. n \in ends /\ \A j \in ends : n <= j
    BY <2>3, <2>4
  <2>6. QED
    BY <1>1, <1>3, <2>5, SMT
<1>6. QED
  BY <1>4, <1>5

(* Text with a newline at most at its end is one line.                     *)
LEMMA OneLine ==
    ASSUME NEW t \in Texts, \A i \in 1 .. Len(t) - 1 : t[i] \in Unended
    PROVE  UpToNewline(t) \in {0, Len(t)}
<1>1. PICK n : n = UpToNewline(t)
  OBVIOUS
<1>2. n \in 0 .. Len(t) /\ (n > 0 => t[n] \notin Unended)
  BY <1>1, FirstNewline
<1>3. Len(t) \in Nat
  BY LenProperties DEF Texts
<1>4. n \in {0, Len(t)}
  BY <1>2, <1>3, SMT
<1>5. QED
  BY <1>1, <1>4

(* A read becomes v.                                                       *)
Others(r) == \A q \in Reader \ {r} : read'[q] = read[q]

LEMMA ReadSet ==
    ASSUME NEW f, f \in [Reader -> ReadType], NEW r \in Reader, NEW v, v \in ReadType,
           NEW g, g = [f EXCEPT ![r] = v]
    PROVE  /\ g \in [Reader -> ReadType] /\ g[r] = v
           /\ \A q \in Reader \ {r} : g[q] = f[q]
BY SMT

LEMMA GoesEffect ==
    ASSUME read \in [Reader -> ReadType], NEW r \in Reader, NEW step \in ReadSteps, Goes(r, step)
    PROVE  /\ read' \in [Reader -> ReadType] /\ Others(r)
           /\ read'[r].step = step /\ read'[r].all = read[r].all /\ read'[r].text = read[r].text
<1>1. PICK v : v = [read[r] EXCEPT !.step = step]
  OBVIOUS
<1>2. v \in ReadType /\ v.step = step /\ v.all = read[r].all /\ v.text = read[r].text
  BY <1>1, SMT DEF ReadType
<1>3. read' = [read EXCEPT ![r] = v]
  BY <1>1 DEF Goes
<1>4. /\ read' \in [Reader -> ReadType] /\ read'[r] = v
      /\ \A q \in Reader \ {r} : read'[q] = read[q]
  BY <1>2, <1>3, ReadSet
<1>5. QED
  BY <1>2, <1>4 DEF Others

(* Text taken and text left are the text.                                  *)
LEMMA TakeDrop ==
    ASSUME NEW s \in Texts, NEW k \in 0 .. Len(s)
    PROVE  /\ SubSeq(s, 1, k) \in Texts /\ SubSeq(s, k + 1, Len(s)) \in Texts
           /\ SubSeq(s, 1, k) \o SubSeq(s, k + 1, Len(s)) = s
           /\ Len(SubSeq(s, 1, k)) = k
           /\ \A i \in 1 .. k : SubSeq(s, 1, k)[i] = s[i]
<1>1. s \in Seq(Chunk) /\ Len(s) \in Nat /\ k \in Nat
  BY LenProperties, SMT DEF Texts
<1>2. /\ SubSeq(s, 1, k) \in Texts /\ SubSeq(s, k + 1, Len(s)) \in Texts
      /\ Len(SubSeq(s, 1, k)) = k /\ \A i \in 1 .. k : SubSeq(s, 1, k)[i] = s[i]
  <2>1. /\ \A i \in 1 .. k : i \in 1 .. Len(s)
        /\ \A i \in k + 1 .. Len(s) : i \in 1 .. Len(s)
    BY <1>1, SMT
  <2>2. \A i \in 1 .. Len(s) : s[i] \in Chunk
    BY <1>1, ElementOfSeq
  <2>3. /\ SubSeq(s, 1, k) \in Seq(Chunk) /\ Len(SubSeq(s, 1, k)) = k
        /\ \A i \in 1 .. k : SubSeq(s, 1, k)[i] = s[i]
    BY <1>1, <2>1, <2>2, SubSeqProperties, SMT
  <2>4. SubSeq(s, k + 1, Len(s)) \in Seq(Chunk)
    BY <1>1, <2>1, <2>2, SubSeqProperties, SMT
  <2>5. QED
    BY <2>3, <2>4 DEF Texts
<1>3. SubSeq(s, 1, k) \o SubSeq(s, k + 1, Len(s)) = SubSeq(s, 1, Len(s))
  <2>1. 1 \in 1 .. Len(s) + 1 /\ k \in 1 - 1 .. Len(s) /\ Len(s) \in k .. Len(s)
    BY <1>1, SMT
  <2>2. QED
    BY <1>1, <2>1, ConcatAdjacentSubSeq
<1>4. SubSeq(s, 1, Len(s)) = s
  BY <1>1, SubSeqFull
<1>5. QED
  BY <1>2, <1>3, <1>4

(* Concatenation by a name the provers take as it is.                      *)
Cat(a, b) == a \o b

LEMMA CatFacts ==
    /\ <<>> \in Texts
    /\ \A a, b \in Texts : Cat(a, b) \in Texts
    /\ \A a \in Texts : Cat(<<>>, a) = a /\ Cat(a, <<>>) = a
    /\ \A a, b, c \in Texts : Cat(Cat(a, b), c) = Cat(a, Cat(b, c))
<1>0. <<>> \in Texts
  BY SMT DEF Texts
<1>1. \A a, b \in Texts : Cat(a, b) \in Texts
  BY ConcatProperties DEF Cat, Texts
<1>2. \A a \in Texts : Cat(<<>>, a) = a /\ Cat(a, <<>>) = a
  BY ConcatEmptySeq DEF Cat, Texts
<1>3. ASSUME NEW a \in Texts, NEW b \in Texts, NEW c \in Texts
      PROVE  Cat(Cat(a, b), c) = Cat(a, Cat(b, c))
  <2>1. PICK S : S = Chunk
    OBVIOUS
  <2>2. a \in Seq(S) /\ b \in Seq(S) /\ c \in Seq(S)
    BY <1>3, <2>1 DEF Texts
  <2>3. QED
    BY <2>2, ConcatAssociative, SMT DEF Cat
<1>4. QED
  BY <1>0, <1>1, <1>2, <1>3

(* A read that returns leaves the text it had and the buffer as they were. *)
LEMMA YieldEffect ==
    ASSUME read \in [Reader -> ReadType], given \in Texts, NEW r \in Reader,
           NEW t \in Texts, NEW n \in 0 .. Len(t), Yield(r, t, n)
    PROVE  /\ read' \in [Reader -> ReadType] /\ Others(r)
           /\ read'[r].step = "returned" /\ read'[r].all = read[r].all
           /\ read'[r].text = SubSeq(t, 1, n)
           /\ given' \in Texts /\ buffered' \in Texts /\ holder' = NoRead
           /\ Cat(given', buffered') = Cat(given, t)
<1>0. PICK c, b, d : c = SubSeq(t, 1, n) /\ b = SubSeq(t, n + 1, Len(t)) /\ d = given
  OBVIOUS
<1>1. c \in Texts /\ b \in Texts /\ d \in Texts /\ Cat(c, b) = t
  BY <1>0, TakeDrop DEF Cat
<1>2. given' = Cat(d, c) /\ buffered' = b /\ holder' = NoRead
  BY <1>0 DEF Yield, Cat
<1>3. Cat(Cat(d, c), b) = Cat(d, Cat(c, b))
  BY <1>1, CatFacts, SMT
<1>4. PICK f : f = [read EXCEPT ![r].step = "returned"]
  OBVIOUS
<1>5. PICK u : u = [read[r] EXCEPT !.step = "returned"]
  OBVIOUS
<1>6. PICK v : v = [u EXCEPT !.text = c]
  OBVIOUS
<1>7. "returned" \in ReadSteps
  BY DEF ReadSteps
<1>8. u \in ReadType /\ u.step = "returned" /\ u.all = read[r].all
  BY <1>5, <1>7, SMT DEF ReadType
<1>9. v \in ReadType /\ v.step = "returned" /\ v.all = read[r].all /\ v.text = c
  BY <1>1, <1>6, <1>8, SMT DEF ReadType
<1>10. /\ f \in [Reader -> ReadType] /\ f[r] = u
       /\ \A q \in Reader \ {r} : f[q] = read[q]
  <2>1. f = [read EXCEPT ![r] = u]
    BY <1>4, <1>5
  <2>2. QED
    BY <1>8, <2>1, ReadSet
<1>11. /\ read' \in [Reader -> ReadType] /\ read'[r] = v
       /\ \A q \in Reader \ {r} : read'[q] = f[q]
  <2>1. read' = [f EXCEPT ![r].text = c]
    BY <1>0, <1>4 DEF Yield
  <2>2. read' = [f EXCEPT ![r] = v]
    BY <1>6, <1>10, <2>1
  <2>3. QED
    BY <1>9, <1>10, <2>2, ReadSet
<1>12. QED
  BY <1>0, <1>1, <1>2, <1>3, <1>9, <1>10, <1>11, CatFacts DEF Others

(* The lock and what reads have returned, when at most read r goes on.     *)
LEMMA LockKept ==
    ASSUME ConsoleLock, NEW r, r # NoRead, Others(r),
           holder' = holder \/ (holder \in {NoRead, r} /\ holder' \in {NoRead, r}),
           UNCHANGED <<buffered, stdin_eof>> \/ holder \in {NoRead, r},
           r \in Reader =>
               /\ read'[r].step \in {"turn", "receiving"} <=> holder' = r
               /\ read'[r].step = "receiving" =>
                     ~stdin_eof' /\ (~read'[r].all => UpToNewline(buffered') = 0)
    PROVE  ConsoleLock'
<1>1. ASSUME NEW q \in Reader, q # r
      PROVE  /\ read'[q].step \in {"turn", "receiving"} <=> holder' = q
             /\ read'[q].step = "receiving" =>
                   ~stdin_eof' /\ (~read'[q].all => UpToNewline(buffered') = 0)
  <2>1. read'[q] = read[q] /\ q # NoRead
    BY <1>1, ConsoleAssumption DEF Others
  <2>2. /\ read[q].step \in {"turn", "receiving"} <=> holder = q
        /\ read[q].step = "receiving" =>
              ~stdin_eof /\ (~read[q].all => UpToNewline(buffered) = 0)
    BY DEF ConsoleLock
  <2>3. holder' = q <=> holder = q
    BY <1>1, <2>1
  <2>4. holder = q => UNCHANGED <<buffered, stdin_eof>>
    BY <1>1, <2>1
  <2>5. QED
    BY <2>1, <2>2, <2>3, <2>4, SMT
<1>2. QED
  BY <1>1 DEF ConsoleLock

LEMMA WholeKept ==
    ASSUME ReadsAreWhole, NEW r, Others(r), stdin_eof => stdin_eof',
           r \in Reader /\ read'[r].step \in {"returned", "done", "late"} =>
               \/ stdin_eof'
               \/ ~read'[r].all /\ read'[r].text # <<>>
                    /\ UpToNewline(read'[r].text) \in {0, Len(read'[r].text)}
    PROVE  ReadsAreWhole'
<1>1. ASSUME NEW q \in Reader, q # r, read'[q].step \in {"returned", "done", "late"}
      PROVE  \/ stdin_eof'
             \/ ~read'[q].all /\ read'[q].text # <<>>
                  /\ UpToNewline(read'[q].text) \in {0, Len(read'[q].text)}
  <2>1. read'[q] = read[q]
    BY <1>1 DEF Others
  <2>2. QED
    BY <1>1, <2>1 DEF ReadsAreWhole
<1>2. QED
  BY <1>1 DEF ReadsAreWhole

LEMMA ConservedKept ==
    ASSUME InputIsConserved, supply' = supply, ToCome' = ToCome,
           Cat(given', buffered') = Cat(given, buffered)
    PROVE  InputIsConserved'
<1>1. Cat(Cat(given', buffered'), ToCome') = Cat(Cat(given, buffered), ToCome)
  OBVIOUS
<1>2. Cat(Cat(given, buffered), ToCome) =
          SubSeq(supply, 1, Len(supply) - (IF ToCome = <<>> THEN 1 ELSE 0))
  BY DEF InputIsConserved, Cat
<1>3. Cat(Cat(given', buffered'), ToCome') =
          SubSeq(supply', 1, Len(supply') - (IF ToCome' = <<>> THEN 1 ELSE 0))
  BY <1>1, <1>2
<1>4. QED
  BY <1>3 DEF InputIsConserved, Cat

LEMMA HeadAndTail ==
    ASSUME NEW s \in Texts, s # <<>>
    PROVE  Head(s) \in Chunk /\ Tail(s) \in Texts /\ Cat(<<Head(s)>>, Tail(s)) = s
           /\ <<Head(s)>> \in Texts
<1>1. s \in Seq(Chunk)
  BY DEF Texts
<1>2. Head(s) \in Chunk /\ Tail(s) \in Seq(Chunk)
  BY <1>1, HeadTailProperties
<1>3. <<Head(s)>> \o Tail(s) = s
  BY <1>1, SMT
<1>4. <<Head(s)>> \in Seq(Chunk)
  BY <1>2, SMT
<1>5. QED
  BY <1>2, <1>3, <1>4 DEF Texts, Cat

LEMMA Singleton ==
    ASSUME NEW S, NEW x \in S
    PROVE  <<x>> \in Seq(S) /\ Len(<<x>>) = 1 /\ <<x>>[1] = x /\ <<x>> # <<>>
BY SMT

LEMMA EventsAreText ==
    ASSUME events = <<>> \/ \E e \in Chunk : events = <<e>>
    PROVE  events \in Texts
<1>1. \A e \in Chunk : <<e>> \in Texts
  BY Singleton DEF Texts
<1>2. QED
  BY <1>1, CatFacts

(* A step of the thread: it leaves the reads alone, and what is to come is *)
(* the same.                                                               *)
LEMMA ThreadStep ==
    ASSUME ConsoleInv, thread' \in ThreadType, thread.state # "unborn", thread'.state # "unborn",
           tape' \in Texts, demand' \in {0, 1}, events' = <<>> \/ \E e \in Chunk : events' = <<e>>,
           UNCHANGED <<stateVars, holder, read, supply, given>>,
           NothingIsPrefetched', ToCome' = ToCome
    PROVE  ConsoleInv'
<1>1. UNCHANGED <<buffered, pending, stdin_eof>>
  BY DEF stateVars
<1>2. ConsoleTypeOK'
  BY <1>1 DEF ConsoleInv, ConsoleTypeOK
<1>3. ConsoleLock' /\ ReadsAreWhole'
  BY <1>1 DEF ConsoleInv, ConsoleLock, ReadsAreWhole
<1>4. InputIsConserved'
  BY <1>1, ConservedKept DEF ConsoleInv
<1>5. QED
  BY <1>2, <1>3, <1>4 DEF ConsoleInv, ConsoleUnborn

LEMMA ThreadFields ==
    ASSUME thread \in ThreadType
    PROVE  /\ thread.state \in {"waiting", "reading", "sending", "ending", "over", "unborn"}
           /\ thread.event \in Chunk
BY SMT DEF ThreadType

LEMMA ThreadGoes ==
    ASSUME thread \in ThreadType,
           NEW step \in {"waiting", "reading", "sending", "ending", "over"},
           thread' = [thread EXCEPT !.state = step]
    PROVE  thread' \in ThreadType /\ thread'.state = step /\ thread'.event = thread.event
BY SMT DEF ThreadType

LEMMA ThreadSteps ==
    ASSUME ConsoleInv, ThreadRuns PROVE ConsoleInv'
<1>0. /\ thread \in ThreadType /\ tape \in Texts /\ demand \in {0, 1} /\ pending \in BOOLEAN
      /\ events = <<>> \/ \E e \in Chunk : events = <<e>>
  BY DEF ConsoleInv, ConsoleTypeOK
<1>1. CASE TakeDemand
  <2>1. /\ thread.state = "waiting" /\ demand = 1 /\ demand' = 0
        /\ UNCHANGED <<tape, events, stateVars, holder, read, supply, given>>
    BY <1>1 DEF TakeDemand
  <2>2. thread' \in ThreadType /\ thread'.state = "reading"
    BY <1>0, <1>1, ThreadGoes DEF TakeDemand
  <2>3. NothingIsPrefetched'
    BY <1>0, <2>1, <2>2, SMT DEF ConsoleInv, NothingIsPrefetched, Busy, ThreadIsUp, stateVars
  <2>4. ToCome' = ToCome
    BY <2>1, <2>2 DEF ToCome, InThread
  <2>5. QED
    BY <1>0, <2>1, <2>2, <2>3, <2>4, ThreadStep
<1>2. CASE ReadChunk
  <2>1. /\ thread.state = "reading" /\ tape # <<>>
        /\ thread' = [state |-> "sending", event |-> Head(tape)] /\ tape' = Tail(tape)
        /\ UNCHANGED <<demand, events, stateVars, holder, read, supply, given>>
    BY <1>2 DEF ReadChunk
  <2>2. PICK h, w, e : h = <<Head(tape)>> /\ w = Tail(tape) /\ e = events
    OBVIOUS
  <2>3. h \in Texts /\ w \in Texts /\ Cat(h, w) = tape /\ Head(tape) \in Chunk
    BY <1>0, <2>1, <2>2, HeadAndTail
  <2>4. thread' \in ThreadType /\ thread'.state = "sending" /\ thread'.event = Head(tape)
    BY <2>1, <2>3, SMT DEF ThreadType
  <2>5. NothingIsPrefetched'
    BY <1>0, <2>1, <2>4, SMT DEF ConsoleInv, NothingIsPrefetched, Busy, ThreadIsUp, stateVars
  <2>6. ToCome' = ToCome
    <3>1. e \in Texts
      BY <1>0, <2>2, EventsAreText
    <3>2. ToCome = Cat(Cat(e, <<>>), tape) /\ ToCome' = Cat(Cat(e, h), w)
      BY <2>1, <2>2, <2>4 DEF ToCome, InThread, Cat
    <3>3. Cat(e, <<>>) = e /\ Cat(Cat(e, h), w) = Cat(e, Cat(h, w))
      BY <2>3, <3>1, CatFacts, SMT
    <3>4. QED
      BY <2>3, <3>2, <3>3
  <2>7. QED
    BY <1>0, <2>1, <2>2, <2>3, <2>4, <2>5, <2>6, ThreadStep
<1>3. CASE SendEvent
  <2>1. /\ thread.state = "sending" /\ events = <<>> /\ events' = <<thread.event>>
        /\ UNCHANGED <<tape, demand, stateVars, holder, read, supply, given>>
    BY <1>3 DEF SendEvent
  <2>2. thread' \in ThreadType /\ thread'.state \in {"waiting", "ending"}
    BY <1>0, <1>3, ThreadGoes DEF SendEvent
  <2>3. thread.event \in Chunk
    BY <1>0, ThreadFields
  <2>4. NothingIsPrefetched'
    BY <1>0, <2>1, <2>2, SMT DEF ConsoleInv, NothingIsPrefetched, Busy, ThreadIsUp, stateVars
  <2>5. ToCome' = ToCome
    <3>1. PICK e : e = <<thread.event>>
      OBVIOUS
    <3>2. e \in Texts
      BY <2>3, <3>1, SMT DEF Texts
    <3>3. ToCome = Cat(Cat(<<>>, e), tape) /\ ToCome' = Cat(Cat(e, <<>>), tape)
      BY <2>1, <2>2, <3>1 DEF ToCome, InThread, Cat
    <3>4. QED
      BY <3>2, <3>3, CatFacts
  <2>6. QED
    BY <1>0, <2>1, <2>2, <2>3, <2>4, <2>5, ThreadStep
<1>4. CASE EndThread
  <2>1. /\ thread.state = "ending" /\ demand' = 0
        /\ UNCHANGED <<tape, events, stateVars, holder, read, supply, given>>
    BY <1>4 DEF EndThread
  <2>2. thread' \in ThreadType /\ thread'.state = "over"
    BY <1>0, <1>4, ThreadGoes DEF EndThread
  <2>3. NothingIsPrefetched'
    BY <1>0, <2>1, <2>2, SMT DEF ConsoleInv, NothingIsPrefetched, Busy, ThreadIsUp, stateVars
  <2>4. ToCome' = ToCome
    BY <2>1, <2>2 DEF ToCome, InThread
  <2>5. QED
    BY <1>0, <2>1, <2>2, <2>3, <2>4, ThreadStep
<1>5. QED
  BY <1>1, <1>2, <1>3, <1>4 DEF ThreadRuns

-----------------------------------------------------------------------------
(* Reads *)

(* A read goes on and touches neither the input nor the buffer.            *)
LEMMA QuietStep ==
    ASSUME ConsoleInv, NEW r \in Reader, read' \in [Reader -> ReadType], Others(r),
           UNCHANGED <<threadVars, stateVars, supply, given>>,
           holder' = holder \/ (holder \in {NoRead, r} /\ holder' \in {NoRead, r}),
           read'[r].step = "turn" <=> holder' = r, read'[r].step # "receiving",
           read'[r].all = read[r].all, read'[r].text = read[r].text,
           read'[r].step \in {"returned", "done", "late"} =>
               read[r].step \in {"returned", "done", "late"}
    PROVE  ConsoleInv'
<1>1. UNCHANGED <<tape, thread, demand, events, buffered, pending, stdin_eof, supply, given>>
  BY DEF threadVars, stateVars
<1>2. ConsoleTypeOK'
  BY <1>1 DEF ConsoleInv, ConsoleTypeOK
<1>3. ConsoleLock'
  <2>1. r # NoRead
    BY ConsoleAssumption
  <2>2. QED
    BY <1>1, <2>1, LockKept DEF ConsoleInv
<1>4. ReadsAreWhole'
  <2>1. stdin_eof => stdin_eof'
    BY <1>1, SMT
  <2>2. read'[r].step \in {"returned", "done", "late"} =>
            \/ stdin_eof'
            \/ ~read'[r].all /\ read'[r].text # <<>>
                 /\ UpToNewline(read'[r].text) \in {0, Len(read'[r].text)}
    BY <1>1 DEF ConsoleInv, ReadsAreWhole
  <2>3. QED
    BY <2>1, <2>2, WholeKept DEF ConsoleInv
<1>5. NothingIsPrefetched' /\ ConsoleUnborn'
  BY <1>1 DEF ConsoleInv, NothingIsPrefetched, ConsoleUnborn, ThreadIsUp
<1>6. InputIsConserved'
  <2>1. ToCome' = ToCome
    BY <1>1 DEF ToCome, InThread
  <2>2. QED
    BY <1>1, <2>1, ConservedKept DEF ConsoleInv
<1>7. QED
  BY <1>2, <1>3, <1>4, <1>5, <1>6 DEF ConsoleInv

LEMMA QuietSteps ==
    ASSUME ConsoleInv, NEW r \in Reader,
           StartRead(r) \/ TakeLock(r) \/ ReceiveNothing(r) \/ Abandon(r) \/ FinishRead(r)
    PROVE  ConsoleInv'
<1>0. read \in [Reader -> ReadType] /\ r # NoRead
  BY ConsoleAssumption DEF ConsoleInv, ConsoleTypeOK
<1>1. read[r].step \in {"turn", "receiving"} <=> holder = r
  BY DEF ConsoleInv, ConsoleLock
<1>2. CASE StartRead(r)
  <2>1. /\ read[r].step = "new" /\ holder' = holder
        /\ UNCHANGED <<threadVars, stateVars, supply, given>>
    BY <1>2 DEF StartRead
  <2>2. PICK step \in {"queued", "refused"} : Goes(r, step)
    BY <1>2 DEF StartRead
  <2>3. step \in ReadSteps
    BY DEF ReadSteps
  <2>4. QED
    BY <1>0, <1>1, <2>1, <2>2, <2>3, GoesEffect, QuietStep
<1>3. CASE TakeLock(r)
  <2>1. /\ holder = NoRead /\ holder' = r /\ Goes(r, "turn") /\ "turn" \in ReadSteps
        /\ UNCHANGED <<threadVars, stateVars, supply, given>>
    BY <1>3 DEF TakeLock, ReadSteps
  <2>2. QED
    BY <1>0, <2>1, GoesEffect, QuietStep
<1>4. CASE ReceiveNothing(r)
  <2>1. /\ read[r].step = "receiving" /\ holder' = NoRead /\ Goes(r, "failed")
        /\ "failed" \in ReadSteps
        /\ UNCHANGED <<threadVars, stateVars, supply, given>>
    BY <1>4 DEF ReceiveNothing, Fail, ReadSteps, stateVars
  <2>2. QED
    BY <1>0, <1>1, <2>1, GoesEffect, QuietStep
<1>5. CASE Abandon(r)
  <2>1. /\ read[r].step \in {"queued", "receiving"} /\ Goes(r, "abandoned")
        /\ holder' = IF holder = r THEN NoRead ELSE holder
        /\ "abandoned" \in ReadSteps
        /\ UNCHANGED <<threadVars, stateVars, supply, given>>
    BY <1>5 DEF Abandon, ReadSteps
  <2>2. holder' # r /\ (holder' = holder \/ (holder = r /\ holder' = NoRead))
    BY <1>0, <2>1
  <2>3. QED
    BY <1>0, <2>1, <2>2, GoesEffect, QuietStep
<1>6. CASE FinishRead(r)
  <2>1. /\ read[r].step = "returned" /\ holder' = holder
        /\ UNCHANGED <<threadVars, stateVars, supply, given>>
    BY <1>6 DEF FinishRead
  <2>2. PICK step \in {"done", "late"} : Goes(r, step)
    BY <1>6 DEF FinishRead
  <2>3. step \in ReadSteps
    BY DEF ReadSteps
  <2>4. QED
    BY <1>0, <1>1, <2>1, <2>2, <2>3, GoesEffect, QuietStep
<1>7. QED
  BY <1>2, <1>3, <1>4, <1>5, <1>6

(* A read is answered with n chunks of t, at the end of input or with one  *)
(* line.                                                                   *)
LEMMA YieldStep ==
    ASSUME ConsoleInv, NEW r \in Reader, NEW t \in Texts, NEW n \in 0 .. Len(t), Yield(r, t, n),
           read[r].step \in {"turn", "receiving"},
           UNCHANGED <<thread, tape, demand, supply>>,
           events' = <<>> \/ events' = events, pending' \in BOOLEAN, stdin_eof' \in BOOLEAN,
           stdin_eof => stdin_eof',
           \/ stdin_eof'
           \/ ~read[r].all /\ n > 0 /\ \A i \in 1 .. n - 1 : t[i] \in Unended,
           NothingIsPrefetched',
           InputIsConserved'
    PROVE  ConsoleInv'
<1>0. /\ read \in [Reader -> ReadType] /\ given \in Texts /\ r # NoRead /\ holder = r
      /\ tape \in Texts /\ demand \in {0, 1} /\ thread \in ThreadType /\ supply \in Inputs
      /\ events = <<>> \/ \E e \in Chunk : events = <<e>>
  BY ConsoleAssumption DEF ConsoleInv, ConsoleTypeOK, ConsoleLock
<1>1. /\ read' \in [Reader -> ReadType] /\ Others(r)
      /\ read'[r].step = "returned" /\ read'[r].all = read[r].all
      /\ read'[r].text = SubSeq(t, 1, n)
      /\ given' \in Texts /\ buffered' \in Texts /\ holder' = NoRead
  BY <1>0, YieldEffect
<1>2. events' = <<>> \/ \E e \in Chunk : events' = <<e>>
  BY <1>0
<1>3. ConsoleTypeOK'
  BY <1>0, <1>1, <1>2 DEF ConsoleTypeOK
<1>4. ConsoleLock'
  BY <1>0, <1>1, LockKept DEF ConsoleInv
<1>5. ConsoleUnborn'
  BY DEF ConsoleInv, ConsoleUnborn
<1>6. ASSUME ~stdin_eof'
      PROVE  ~read'[r].all /\ read'[r].text # <<>>
             /\ UpToNewline(read'[r].text) \in {0, Len(read'[r].text)}
  <2>1. PICK c : c = SubSeq(t, 1, n)
    OBVIOUS
  <2>2. c \in Texts /\ Len(c) = n /\ \A i \in 1 .. n : c[i] = t[i]
    BY <2>1, TakeDrop
  <2>3. n > 0 /\ n \in Nat /\ \A i \in 1 .. n - 1 : t[i] \in Unended
    BY <1>6, SMT
  <2>4. \A i \in 1 .. n - 1 : c[i] \in Unended
    <3>1. \A i \in 1 .. n - 1 : i \in 1 .. n
      BY <2>3, SMT
    <3>2. QED
      BY <2>2, <2>3, <3>1
  <2>5. UpToNewline(c) \in {0, Len(c)}
    BY <2>2, <2>4, OneLine
  <2>6. c # <<>>
    BY <2>2, <2>3, SMT
  <2>7. QED
    BY <1>1, <1>6, <2>1, <2>5, <2>6
<1>7. ReadsAreWhole'
  BY <1>1, <1>6, WholeKept DEF ConsoleInv
<1>8. QED
  BY <1>3, <1>4, <1>5, <1>7 DEF ConsoleInv

(* A read asks for input, or waits for what was asked for.                 *)
LEMMA WaitStep ==
    ASSUME ConsoleInv, NEW r \in Reader, read[r].step = "turn", Goes(r, "receiving"),
           ~stdin_eof, ~read[r].all => UpToNewline(buffered) = 0,
           pending' = TRUE, demand' \in {0, 1}, thread.state = "unborn" => demand' = demand,
           UNCHANGED <<buffered, given, holder, stdin_eof, tape, thread, events, supply>>,
           NothingIsPrefetched'
    PROVE  ConsoleInv'
<1>0. read \in [Reader -> ReadType] /\ r # NoRead /\ holder = r /\ "receiving" \in ReadSteps
  BY ConsoleAssumption DEF ConsoleInv, ConsoleTypeOK, ConsoleLock, ReadSteps
<1>1. /\ read' \in [Reader -> ReadType] /\ Others(r) /\ read'[r].step = "receiving"
      /\ read'[r].all = read[r].all
  BY <1>0, GoesEffect
<1>2. ConsoleTypeOK'
  BY <1>1 DEF ConsoleInv, ConsoleTypeOK
<1>3. ConsoleLock'
  BY <1>0, <1>1, LockKept DEF ConsoleInv
<1>4. ReadsAreWhole'
  BY <1>1, WholeKept DEF ConsoleInv
<1>5. ConsoleUnborn'
  BY DEF ConsoleInv, ConsoleUnborn
<1>6. InputIsConserved'
  <2>1. ToCome' = ToCome
    BY DEF ToCome, InThread
  <2>2. QED
    BY <2>1, ConservedKept DEF ConsoleInv
<1>7. QED
  BY <1>2, <1>3, <1>4, <1>5, <1>6 DEF ConsoleInv

LEMMA TurnStep ==
    ASSUME ConsoleInv, NEW r \in Reader, Turn(r) PROVE ConsoleInv'
<1>0. /\ read \in [Reader -> ReadType] /\ given \in Texts /\ buffered \in Texts /\ r # NoRead
      /\ demand \in {0, 1} /\ pending \in BOOLEAN /\ stdin_eof \in BOOLEAN
      /\ events = <<>> \/ \E e \in Chunk : events = <<e>>
  BY ConsoleAssumption DEF ConsoleInv, ConsoleTypeOK
<1>1. PICK n : n = UpToNewline(buffered)
  OBVIOUS
<1>2. read[r].step = "turn" /\ UNCHANGED <<tape, thread, events, waiting, supply>>
  BY DEF Turn
<1>3. /\ n \in 0 .. Len(buffered)
      /\ n > 0 => \A i \in 1 .. n - 1 : buffered[i] \in Unended
  BY <1>0, <1>1, FirstNewline
<1>4. ASSUME NEW k \in 0 .. Len(buffered), Yield(r, buffered, k),
             UNCHANGED <<pending, stdin_eof, demand>>,
             stdin_eof \/ (~read[r].all /\ k = n /\ n > 0)
      PROVE  ConsoleInv'
  <2>1. PICK t : t = buffered
    OBVIOUS
  <2>2. t \in Texts /\ k \in 0 .. Len(t) /\ Yield(r, t, k)
    BY <1>0, <1>4, <2>1
  <2>3. NothingIsPrefetched'
    BY <1>2, <1>4 DEF ConsoleInv, NothingIsPrefetched, ThreadIsUp
  <2>4. InputIsConserved'
    <3>1. Cat(given', buffered') = Cat(given, buffered)
      BY <1>0, <2>1, <2>2, YieldEffect
    <3>2. ToCome' = ToCome
      BY <1>2, <1>4 DEF ToCome, InThread
    <3>3. QED
      BY <1>2, <3>1, <3>2, ConservedKept DEF ConsoleInv
  <2>5. /\ pending' \in BOOLEAN /\ stdin_eof' \in BOOLEAN /\ (stdin_eof => stdin_eof')
    BY <1>0, <1>4, SMT
  <2>6. \/ stdin_eof'
        \/ ~read[r].all /\ k > 0 /\ \A i \in 1 .. k - 1 : t[i] \in Unended
    BY <1>3, <1>4, <2>1, <2>5
  <2>7. QED
    BY <1>2, <1>4, <2>2, <2>3, <2>4, <2>5, <2>6, YieldStep
<1>5. ASSUME ~stdin_eof, ~(~read[r].all /\ n > 0), Goes(r, "receiving"), pending' = TRUE,
             pending \/ thread.state = "unborn",
             UNCHANGED <<buffered, given, holder, stdin_eof, demand>>
      PROVE  ConsoleInv'
  <2>1. ~read[r].all => UpToNewline(buffered) = 0
    <3>1. ~(n > 0) => n = 0
      BY <1>3, SMT
    <3>2. QED
      BY <1>1, <1>5, <3>1
  <2>2. NothingIsPrefetched'
    BY <1>2, <1>5 DEF ConsoleInv, NothingIsPrefetched, ThreadIsUp
  <2>3. demand' \in {0, 1}
    BY <1>0, <1>5
  <2>4. QED
    BY <1>2, <1>5, <2>1, <2>2, <2>3, WaitStep
<1>6. ASSUME ~stdin_eof, ~(~read[r].all /\ n > 0), Goes(r, "receiving"), pending' = TRUE,
             ~pending, thread.state # "unborn", ThreadIsUp, demand = 0, demand' = 1,
             UNCHANGED <<buffered, given, holder, stdin_eof>>
      PROVE  ConsoleInv'
  <2>1. ~read[r].all => UpToNewline(buffered) = 0
    <3>1. ~(n > 0) => n = 0
      BY <1>3, SMT
    <3>2. QED
      BY <1>1, <1>6, <3>1
  <2>2. NothingIsPrefetched'
    <3>1. Len(events) \in Nat
      BY <1>0, SMT
    <3>2. QED
      BY <1>2, <1>6, <3>1, SMT DEF ConsoleInv, NothingIsPrefetched, ThreadIsUp
  <2>3. demand' \in {0, 1}
    BY <1>6
  <2>4. QED
    BY <1>2, <1>6, <2>1, <2>2, <2>3, WaitStep
<1>7. ASSUME Fail(r), UNCHANGED <<pending, stdin_eof, demand>> PROVE ConsoleInv'
  <2>1. /\ holder = r /\ holder' = NoRead /\ Goes(r, "failed") /\ "failed" \in ReadSteps
        /\ UNCHANGED <<threadVars, stateVars, supply, given>>
    BY <1>2, <1>7 DEF Fail, ReadSteps, threadVars, stateVars, ConsoleInv, ConsoleLock
  <2>2. QED
    BY <1>0, <2>1, GoesEffect, QuietStep
<1>8. Len(buffered) \in 0 .. Len(buffered)
  <2>1. Len(buffered) \in Nat
    BY <1>0, LenProperties DEF Texts
  <2>2. QED
    BY <2>1, SMT
<1>9. \/ ~read[r].all /\ n > 0 /\ Yield(r, buffered, n) /\ UNCHANGED <<pending, stdin_eof, demand>>
      \/ /\ stdin_eof /\ Yield(r, buffered, Len(buffered))
         /\ UNCHANGED <<pending, stdin_eof, demand>>
      \/ /\ ~stdin_eof /\ ~(~read[r].all /\ n > 0) /\ Goes(r, "receiving") /\ pending' = TRUE
         /\ pending \/ thread.state = "unborn"
         /\ UNCHANGED <<buffered, given, holder, stdin_eof, demand>>
      \/ /\ ~stdin_eof /\ ~(~read[r].all /\ n > 0) /\ Goes(r, "receiving") /\ pending' = TRUE
         /\ ~pending /\ thread.state # "unborn" /\ ThreadIsUp /\ demand = 0 /\ demand' = 1
         /\ UNCHANGED <<buffered, given, holder, stdin_eof>>
      \/ Fail(r) /\ UNCHANGED <<pending, stdin_eof, demand>>
  BY <1>1 DEF Turn
<1>10. QED
  BY <1>3, <1>4, <1>5, <1>6, <1>7, <1>8, <1>9

(* Only the last event of the input is no line.                            *)
LEMMA LastEvent ==
    ASSUME NEW s \in Inputs, NEW a \in Texts, NEW e \in Chunk, NEW w \in Texts,
           Cat(Cat(a, <<e>>), w) = s
    PROVE  /\ Line(e) <=> w # <<>>
           /\ w = <<>> => SubSeq(s, 1, Len(s) - 1) = a
           /\ SubSeq(s, 1, Len(s) - 0) = s
<1>1. /\ s \in Seq(Chunk) /\ Len(s) > 0
      /\ \A i \in 1 .. Len(s) : Line(s[i]) <=> i < Len(s)
  BY ConsoleAssumption, InputsAreText
<1>2. a \in Seq(Chunk) /\ w \in Seq(Chunk) /\ Len(a) \in Nat /\ Len(w) \in Nat /\ Len(s) \in Nat
  BY <1>1, LenProperties DEF Texts
<1>3. PICK b : b = Cat(a, <<e>>)
  OBVIOUS
<1>4. /\ b \in Seq(Chunk) /\ Len(b) = Len(a) + 1 /\ b[Len(a) + 1] = e
      /\ \A i \in 1 .. Len(a) : b[i] = a[i]
  <2>1. <<e>> \in Seq(Chunk) /\ Len(<<e>>) = 1 /\ <<e>>[1] = e
    BY Singleton
  <2>2. PICK v : v = <<e>>
    OBVIOUS
  <2>3. /\ a \o v \in Seq(Chunk) /\ Len(a \o v) = Len(a) + Len(v)
        /\ \A i \in 1 .. Len(a) + Len(v) :
              (a \o v)[i] = IF i <= Len(a) THEN a[i] ELSE v[i - Len(a)]
    BY <1>2, <2>1, <2>2, ConcatProperties
  <2>4. b = a \o v /\ Len(v) = 1 /\ v[1] = e
    BY <1>3, <2>1, <2>2 DEF Cat
  <2>5. /\ b \in Seq(Chunk) /\ Len(b) = Len(a) + 1
        /\ \A i \in 1 .. Len(a) + 1 : b[i] = IF i <= Len(a) THEN a[i] ELSE v[i - Len(a)]
    BY <2>3, <2>4
  <2>6. ASSUME NEW i \in 1 .. Len(a) PROVE b[i] = a[i]
    <3>1. i \in 1 .. Len(a) + 1 /\ i <= Len(a)
      BY <1>2, SMT
    <3>2. QED
      BY <2>5, <3>1
  <2>7. b[Len(a) + 1] = e
    <3>1. /\ Len(a) + 1 \in 1 .. Len(a) + 1 /\ ~(Len(a) + 1 <= Len(a))
          /\ (Len(a) + 1) - Len(a) = 1
      BY <1>2, SMT
    <3>2. QED
      BY <2>4, <2>5, <3>1
  <2>8. QED
    BY <2>5, <2>6, <2>7
<1>5. /\ Len(s) = Len(b) + Len(w)
      /\ \A i \in 1 .. Len(b) + Len(w) : s[i] = IF i <= Len(b) THEN b[i] ELSE w[i - Len(b)]
  <2>1. s = b \o w
    BY <1>3 DEF Cat
  <2>2. /\ Len(b \o w) = Len(b) + Len(w)
        /\ \A i \in 1 .. Len(b) + Len(w) :
              (b \o w)[i] = IF i <= Len(b) THEN b[i] ELSE w[i - Len(b)]
    BY <1>2, <1>4, ConcatProperties
  <2>3. QED
    BY <2>1, <2>2
<1>6. s[Len(a) + 1] = e /\ Len(a) + 1 \in 1 .. Len(s)
  <2>1. Len(a) + 1 \in 1 .. Len(b) + Len(w) /\ Len(a) + 1 <= Len(b)
    BY <1>2, <1>4, SMT
  <2>2. QED
    BY <1>4, <1>5, <2>1
<1>7. Line(e) <=> w # <<>>
  <2>1. Line(e) <=> Len(a) + 1 < Len(s)
    BY <1>1, <1>6
  <2>2. Len(a) + 1 < Len(s) <=> Len(w) # 0
    BY <1>2, <1>4, <1>5, SMT
  <2>3. Len(w) # 0 <=> w # <<>>
    BY <1>2, EmptySeq, SMT
  <2>4. QED
    BY <2>1, <2>2, <2>3
<1>8. ASSUME w = <<>> PROVE SubSeq(s, 1, Len(s) - 1) = a
  <2>1. Len(w) = 0
    BY <1>8, SMT
  <2>2. Len(s) - 1 = Len(a) /\ \A i \in 1 .. Len(a) : s[i] = a[i]
    BY <1>2, <1>4, <1>5, <2>1, SMT
  <2>3. PICK v : v = SubSeq(s, 1, Len(a))
    OBVIOUS
  <2>4. \A i \in 1 .. Len(a) : s[i] \in Chunk
    BY <1>2, <2>2, ElementOfSeq
  <2>5. v \in Seq(Chunk) /\ Len(v) = Len(a) /\ \A i \in 1 .. Len(a) : v[i] = s[i]
    BY <1>2, <2>3, <2>4, SubSeqProperties, SMT
  <2>6. v = a
    BY <1>2, <2>2, <2>5, SeqEqual
  <2>7. QED
    BY <2>2, <2>3, <2>6
<1>9. SubSeq(s, 1, Len(s) - 0) = s
  <2>1. Len(s) - 0 = Len(s)
    BY <1>2, SMT
  <2>2. QED
    BY <1>1, <2>1, SubSeqFull
<1>10. QED
  BY <1>7, <1>8, <1>9

(* An event that is received joins what reads have, unless it is the end.  *)
LEMMA ReceiveConserves ==
    ASSUME ConsoleInv, NEW e \in Chunk, events = <<e>>, events' = <<>>,
           UNCHANGED <<thread, tape, supply>>,
           Cat(given', buffered') =
               IF Line(e) THEN Cat(Cat(given, buffered), <<e>>) ELSE Cat(given, buffered)
    PROVE  InputIsConserved'
<1>0. /\ given \in Texts /\ buffered \in Texts /\ tape \in Texts /\ supply \in Inputs
      /\ demand \in {0, 1} /\ thread \in ThreadType
  BY DEF ConsoleInv, ConsoleTypeOK
<1>1. CASE thread.state = "unborn"
  <2>1. ToCome' = ToCome
    BY <1>1 DEF ToCome
  <2>2. ~Line(e)
    <3>1. <<e>> \in {<<>>, <<"Failed">>}
      BY <1>1 DEF ConsoleInv, ConsoleUnborn
    <3>2. e = "Failed"
      BY <3>1, SMT
    <3>3. QED
      BY <3>2 DEF Line
  <2>3. QED
    BY <2>1, <2>2, ConservedKept DEF ConsoleInv
<1>2. CASE thread.state # "unborn"
  <2>1. thread.state # "sending"
    <3>1. Len(events) = 1
      BY SMT
    <3>2. QED
      BY <1>0, <1>2, <3>1, SMT DEF ConsoleInv, NothingIsPrefetched, Busy
  <2>2. PICK a, w, v, s : /\ a = Cat(given, buffered) /\ w = tape /\ v = <<e>> /\ s = supply
    OBVIOUS
  <2>3. a \in Texts /\ w \in Texts /\ v \in Texts
    <3>1. v \in Texts
      BY <2>2, Singleton DEF Texts
    <3>2. QED
      BY <1>0, <2>2, <3>1, CatFacts
  <2>4. ToCome = Cat(v, w) /\ ToCome' = w
    <3>1. ToCome = Cat(Cat(v, <<>>), w) /\ ToCome' = Cat(Cat(<<>>, <<>>), w)
      BY <1>2, <2>1, <2>2 DEF ToCome, InThread, Cat
    <3>2. Cat(v, <<>>) = v /\ Cat(<<>>, <<>>) = <<>> /\ Cat(<<>>, w) = w
      BY <2>3, CatFacts
    <3>3. QED
      BY <3>1, <3>2
  <2>5. Cat(v, w) # <<>>
    <3>1. v \in Seq(Chunk) /\ w \in Seq(Chunk) /\ v # <<>>
      BY <2>2, <2>3, Singleton DEF Texts
    <3>2. v \o w # <<>>
      BY <3>1, ConcatSimplifications
    <3>3. QED
      BY <3>2 DEF Cat
  <2>6. Cat(a, Cat(v, w)) = SubSeq(s, 1, Len(s) - 0)
    BY <2>2, <2>4, <2>5 DEF ConsoleInv, InputIsConserved, Cat
  <2>7. s \in Seq(Chunk) /\ s \in Inputs
    BY <1>0, <2>2, InputsAreText
  <2>8. Len(s) - 0 = Len(s) /\ SubSeq(s, 1, Len(s)) = s
    <3>1. Len(s) \in Nat
      BY <2>7, LenProperties
    <3>2. Len(s) - 0 = Len(s)
      BY <3>1, SMT
    <3>3. QED
      BY <2>7, <3>2, SubSeqFull
  <2>9. Cat(Cat(a, v), w) = s
    <3>1. Cat(Cat(a, v), w) = Cat(a, Cat(v, w))
      BY <2>3, CatFacts, SMT
    <3>2. QED
      BY <2>6, <2>8, <3>1
  <2>10. /\ Line(e) <=> w # <<>>
         /\ w = <<>> => SubSeq(s, 1, Len(s) - 1) = a
    BY <2>2, <2>3, <2>7, <2>9, LastEvent
  <2>11. Cat(Cat(given', buffered'), ToCome') =
             SubSeq(supply', 1, Len(supply') - (IF ToCome' = <<>> THEN 1 ELSE 0))
    <3>1. CASE Line(e)
      <4>1. Cat(given', buffered') = Cat(a, v) /\ ToCome' = w /\ w # <<>> /\ supply' = s
        BY <2>2, <2>4, <2>10, <3>1
      <4>2. QED
        BY <2>8, <2>9, <4>1
    <3>2. CASE ~Line(e)
      <4>1. Cat(given', buffered') = a /\ ToCome' = <<>> /\ w = <<>> /\ supply' = s
        BY <2>2, <2>4, <2>10, <3>2
      <4>2. Cat(a, <<>>) = a
        BY <2>3, CatFacts
      <4>3. QED
        BY <2>10, <4>1, <4>2
    <3>3. QED
      BY <3>1, <3>2
  <2>12. QED
    BY <2>11 DEF InputIsConserved, Cat
<1>3. QED
  BY <1>1, <1>2

LEMMA ReceiveStep ==
    ASSUME ConsoleInv, NEW r \in Reader, Receive(r) PROVE ConsoleInv'
<1>0. /\ read \in [Reader -> ReadType] /\ given \in Texts /\ buffered \in Texts /\ r # NoRead
      /\ demand \in {0, 1} /\ pending \in BOOLEAN /\ stdin_eof \in BOOLEAN
      /\ tape \in Texts /\ thread \in ThreadType /\ supply \in Inputs
      /\ events = <<>> \/ \E e \in Chunk : events = <<e>>
  BY ConsoleAssumption DEF ConsoleInv, ConsoleTypeOK
<1>1. read[r].step = "receiving" /\ events # <<>>
      /\ UNCHANGED <<tape, thread, demand, waiting, supply>> /\ pending' = FALSE /\ events' = <<>>
  BY DEF Receive
<1>2. PICK e \in Chunk : events = <<e>>
  BY <1>0, <1>1
<1>3. Head(events) = e /\ Len(events) = 1 /\ Len(events') = 0
  BY <1>1, <1>2, SMT
<1>4. /\ holder = r /\ ~stdin_eof /\ (~read[r].all => UpToNewline(buffered) = 0)
  BY <1>1 DEF ConsoleInv, ConsoleLock
<1>5. stdin_eof' = (e = "Eof") /\ stdin_eof' \in BOOLEAN
  <2>1. stdin_eof' = (e = "Eof")
    BY <1>3 DEF Receive
  <2>2. QED
    BY <2>1, SMT
<1>6. \/ Line(e) /\ ~read[r].all /\ Yield(r, Append(buffered, e), Len(buffered) + 1)
      \/ /\ Line(e) /\ read[r].all /\ Goes(r, "turn") /\ buffered' = Append(buffered, e)
         /\ UNCHANGED <<given, holder>>
      \/ e = "Eof" /\ Yield(r, buffered, Len(buffered))
      \/ e = "Failed" /\ Fail(r)
  <2>1. CASE e = "Eof"
    BY <1>3, <2>1 DEF Receive, Line
  <2>2. CASE e = "Failed"
    <3>1. e # "Eof"
      BY <2>2, SMT
    <3>2. QED
      BY <1>3, <2>2, <3>1 DEF Receive, Line
  <2>3. CASE Line(e) /\ read[r].all
    BY <1>3, <2>3 DEF Receive, Line
  <2>4. CASE Line(e) /\ ~read[r].all
    BY <1>3, <2>4 DEF Receive, Line
  <2>5. QED
    BY <2>1, <2>2, <2>3, <2>4 DEF Line
<1>7. NothingIsPrefetched'
  BY <1>0, <1>1, <1>3, SMT DEF ConsoleInv, NothingIsPrefetched, ThreadIsUp, Busy
<1>8. PICK t : t = Append(buffered, e)
  OBVIOUS
<1>9. /\ t \in Texts /\ Len(t) = Len(buffered) + 1 /\ Len(buffered) \in Nat
      /\ \A i \in 1 .. Len(buffered) : t[i] = buffered[i]
  <2>1. buffered \in Seq(Chunk) /\ Len(buffered) \in Nat
    BY <1>0, LenProperties DEF Texts
  <2>2. /\ t \in Seq(Chunk) /\ Len(t) = Len(buffered) + 1
        /\ \A i \in 1 .. Len(buffered) : t[i] = buffered[i]
    BY <1>8, <2>1, AppendProperties
  <2>3. QED
    BY <2>1, <2>2 DEF Texts
<1>10. Cat(given, t) = Cat(Cat(given, buffered), <<e>>)
  <2>1. PICK a, b, v : a = given /\ b = buffered /\ v = <<e>>
    OBVIOUS
  <2>2. a \in Texts /\ b \in Texts /\ v \in Texts
    BY <1>0, <2>1, Singleton DEF Texts
  <2>3. t = Cat(b, v)
    <3>1. b \in Seq(Chunk)
      BY <2>2 DEF Texts
    <3>2. Append(b, e) = b \o <<e>>
      BY <3>1, AppendIsConcat
    <3>3. QED
      BY <1>8, <2>1, <3>2 DEF Cat
  <2>4. Cat(Cat(a, b), v) = Cat(a, Cat(b, v))
    BY <2>2, CatFacts, SMT
  <2>5. QED
    BY <2>1, <2>3, <2>4
<1>11. ASSUME Cat(given', buffered') =
                 IF Line(e) THEN Cat(Cat(given, buffered), <<e>>) ELSE Cat(given, buffered)
       PROVE  InputIsConserved'
  BY <1>1, <1>2, <1>11, ReceiveConserves
<1>12. CASE Line(e) /\ ~read[r].all /\ Yield(r, Append(buffered, e), Len(buffered) + 1)
  <2>1. Yield(r, t, Len(t)) /\ Len(t) \in 0 .. Len(t) /\ Len(t) > 0
    <3>1. Len(t) \in 0 .. Len(t) /\ Len(t) > 0
      BY <1>9, SMT
    <3>2. QED
      BY <1>8, <1>9, <1>12, <3>1
  <2>2. \A i \in 1 .. Len(t) - 1 : t[i] \in Unended
    <3>1. \A i \in 1 .. Len(buffered) : buffered[i] \in Unended
      BY <1>0, <1>4, <1>12, FirstNewline
    <3>2. Len(t) - 1 = Len(buffered)
      BY <1>9, SMT
    <3>3. QED
      BY <1>9, <3>1, <3>2
  <2>3. InputIsConserved'
    <3>1. Cat(given', buffered') = Cat(given, t)
      BY <1>0, <1>9, <2>1, YieldEffect
    <3>2. QED
      BY <1>10, <1>11, <1>12, <3>1
  <2>4. pending' \in BOOLEAN /\ (stdin_eof => stdin_eof')
    BY <1>1, <1>4
  <2>5. QED
    BY <1>1, <1>5, <1>7, <1>9, <1>12, <2>1, <2>2, <2>3, <2>4, YieldStep
<1>13. CASE e = "Eof" /\ Yield(r, buffered, Len(buffered))
  <2>1. PICK b : b = buffered
    OBVIOUS
  <2>2. b \in Texts /\ Yield(r, b, Len(b)) /\ Len(b) \in 0 .. Len(b)
    <3>1. Len(buffered) \in 0 .. Len(buffered)
      BY <1>9, SMT
    <3>2. QED
      BY <1>0, <1>13, <2>1, <3>1
  <2>3. InputIsConserved'
    <3>1. Cat(given', buffered') = Cat(given, b)
      BY <1>0, <2>2, YieldEffect
    <3>2. QED
      BY <1>11, <1>13, <2>1, <3>1 DEF Line
  <2>4. pending' \in BOOLEAN /\ (stdin_eof => stdin_eof') /\ stdin_eof'
    BY <1>1, <1>4, <1>5, <1>13
  <2>5. QED
    BY <1>1, <1>5, <1>7, <2>2, <2>3, <2>4, YieldStep
<1>14. ASSUME NEW step \in ReadSteps, Goes(r, step), e # "Eof", given' = given, buffered' \in Texts,
              \/ step = "turn" /\ holder' = r
              \/ step = "failed" /\ holder' = NoRead,
              InputIsConserved'
       PROVE  ConsoleInv'
  <2>1. /\ read' \in [Reader -> ReadType] /\ Others(r) /\ read'[r].step = step
    BY <1>0, <1>14, GoesEffect
  <2>2. ~stdin_eof' /\ pending' \in BOOLEAN /\ given' \in Texts
    BY <1>0, <1>1, <1>5, <1>14
  <2>3. ConsoleTypeOK'
    BY <1>0, <1>1, <1>5, <1>14, <2>1, <2>2 DEF ConsoleTypeOK
  <2>4. ConsoleLock'
    BY <1>0, <1>4, <1>14, <2>1, LockKept DEF ConsoleInv
  <2>5. ConsoleUnborn'
    BY <1>1 DEF ConsoleInv, ConsoleUnborn
  <2>6. ReadsAreWhole'
    BY <1>4, <1>14, <2>1, WholeKept DEF ConsoleInv
  <2>7. QED
    BY <1>7, <1>14, <2>3, <2>4, <2>5, <2>6 DEF ConsoleInv
<1>15. CASE /\ Line(e) /\ read[r].all /\ Goes(r, "turn") /\ buffered' = Append(buffered, e)
            /\ UNCHANGED <<given, holder>>
  <2>1. InputIsConserved'
    BY <1>8, <1>10, <1>11, <1>15
  <2>2. buffered' \in Texts /\ given' = given /\ holder' = r /\ e # "Eof" /\ "turn" \in ReadSteps
    BY <1>4, <1>8, <1>9, <1>15 DEF Line, ReadSteps
  <2>3. QED
    BY <1>14, <1>15, <2>1, <2>2
<1>16. CASE e = "Failed" /\ Fail(r)
  <2>1. /\ Goes(r, "failed") /\ holder' = NoRead /\ buffered' = buffered /\ given' = given
        /\ "failed" \in ReadSteps
    BY <1>16 DEF Fail, ReadSteps
  <2>2. InputIsConserved'
    BY <1>11, <1>16, <2>1 DEF Line
  <2>3. e # "Eof"
    BY <1>16, SMT
  <2>4. QED
    BY <1>0, <1>14, <2>1, <2>2, <2>3
<1>17. QED
  BY <1>6, <1>12, <1>13, <1>15, <1>16

LEMMA ConsoleInitially == ConsoleInit => ConsoleInv
<1> SUFFICES ASSUME ConsoleInit PROVE ConsoleInv
  OBVIOUS
<1>0. /\ supply \in Inputs /\ tape = supply /\ demand = 0 /\ buffered = <<>> /\ given = <<>>
      /\ pending = FALSE /\ stdin_eof = FALSE /\ holder = NoRead
      /\ read \in [Reader -> {NewRead(all) : all \in BOOLEAN}]
  BY DEF ConsoleInit
<1>1. /\ thread \in ThreadType /\ thread.state # "sending" /\ thread.state \notin Busy
      /\ thread.state = "unborn" => events = <<"Failed">>
      /\ thread.state # "unborn" => events = <<>>
  <2>1. CASE thread = [state |-> "waiting", event |-> "Eof"] /\ events = <<>>
    BY <2>1, EventChunks, SMT DEF ThreadType, Busy
  <2>2. CASE thread = [state |-> "unborn", event |-> "Eof"] /\ events = <<"Failed">>
    BY <2>2, EventChunks, SMT DEF ThreadType, Busy
  <2>3. QED
    BY <2>1, <2>2 DEF ConsoleInit
<1>2. supply \in Seq(Chunk) /\ Len(supply) > 0 /\ Len(supply) \in Nat
  BY <1>0, ConsoleAssumption, InputsAreText, LenProperties
<1>3. supply \in Texts /\ <<>> \in Texts
  BY <1>2, CatFacts DEF Texts
<1>4. \A all \in BOOLEAN : NewRead(all) \in ReadType /\ NewRead(all).step = "new"
  <2>1. "new" \in ReadSteps
    BY DEF ReadSteps
  <2>2. QED
    BY <1>3, <2>1, SMT DEF NewRead, ReadType
<1>5. read \in [Reader -> ReadType] /\ \A r \in Reader : read[r].step = "new"
  <2>1. \A v \in {NewRead(all) : all \in BOOLEAN} : v \in ReadType /\ v.step = "new"
    BY <1>4
  <2>2. PICK S : S = {NewRead(all) : all \in BOOLEAN}
    OBVIOUS
  <2>3. read \in [Reader -> S] /\ \A v \in S : v \in ReadType /\ v.step = "new"
    BY <1>0, <2>1, <2>2
  <2>4. QED
    BY <2>3, SMT
<1>6. ConsoleTypeOK
  <2>1. events = <<>> \/ \E e \in Chunk : events = <<e>>
    BY <1>1, EventChunks
  <2>2. QED
    BY <1>0, <1>1, <1>3, <1>5, <2>1 DEF ConsoleTypeOK
<1>7. ConsoleLock
  BY <1>0, <1>5, ConsoleAssumption DEF ConsoleLock
<1>8. ConsoleUnborn /\ ReadsAreWhole
  BY <1>0, <1>1, <1>5 DEF ConsoleUnborn, ReadsAreWhole
<1>9. NothingIsPrefetched
  <2>1. Len(<<>>) = 0
    BY SMT
  <2>2. QED
    BY <1>0, <1>1, <2>1, SMT DEF NothingIsPrefetched
<1>10. InputIsConserved
  <2>1. PICK s : s = supply
    OBVIOUS
  <2>2. s \in Texts /\ s # <<>> /\ Len(s) - 0 = Len(s) /\ SubSeq(s, 1, Len(s)) = s
    <3>1. s # <<>> /\ Len(s) - 0 = Len(s)
      BY <1>2, <2>1, SMT
    <3>2. QED
      BY <1>2, <1>3, <2>1, <3>1, SubSeqFull
  <2>3. ToCome = s
    <3>1. ToCome = Cat(<<>>, s) \/ ToCome = Cat(Cat(<<>>, <<>>), s)
      BY <1>0, <1>1, <2>1 DEF ToCome, InThread, Cat
    <3>2. QED
      BY <1>3, <2>2, <3>1, CatFacts
  <2>4. Cat(Cat(given, buffered), ToCome) = s
    BY <1>0, <1>3, <2>2, <2>3, CatFacts
  <2>5. Cat(Cat(given, buffered), ToCome) =
            SubSeq(supply, 1, Len(supply) - (IF ToCome = <<>> THEN 1 ELSE 0))
    BY <2>1, <2>2, <2>3, <2>4
  <2>6. QED
    BY <2>5 DEF InputIsConserved, Cat
<1>11. QED
  BY <1>6, <1>7, <1>8, <1>9, <1>10 DEF ConsoleInv

LEMMA ConsoleStep == ConsoleInv /\ [ConsoleNext]_consoleVars => ConsoleInv'
<1> SUFFICES ASSUME ConsoleInv, [ConsoleNext]_consoleVars PROVE ConsoleInv'
  OBVIOUS
<1>1. CASE ThreadRuns
  BY <1>1, ThreadSteps DEF ThreadRuns
<1>2. CASE \E r \in Reader : StartRead(r) \/ Abandon(r) \/ Proceeds(r)
  BY <1>2, QuietSteps, TurnStep, ReceiveStep DEF Proceeds
<1>3. CASE UNCHANGED consoleVars
  <2>1. /\ UNCHANGED <<tape, thread, demand, events, buffered, pending, stdin_eof, supply, given>>
        /\ UNCHANGED <<read, holder>>
    BY <1>3 DEF consoleVars
  <2>2. ConsoleTypeOK' /\ ConsoleLock' /\ ConsoleUnborn' /\ NothingIsPrefetched'
    BY <2>1 DEF ConsoleInv, ConsoleTypeOK, ConsoleLock, ConsoleUnborn, NothingIsPrefetched,
                ThreadIsUp
  <2>3. InputIsConserved' /\ ReadsAreWhole'
    BY <2>1 DEF ConsoleInv, InputIsConserved, ToCome, InThread, ReadsAreWhole
  <2>4. QED
    BY <2>2, <2>3 DEF ConsoleInv
<1>4. QED
  BY <1>1, <1>2, <1>3 DEF ConsoleNext

LEMMA ConsoleSafe == ConsoleSpec => []ConsoleInv
BY ConsoleInitially, ConsoleStep, PTL DEF ConsoleSpec

(* Whatever the input and however many reads there are, wherever they are  *)
(* cancelled: what read_serialized returned, what next_event left in the   *)
(* channel and the rest of the input are the input, in order.              *)
THEOREM ConsoleKeepsInput == ConsoleSpec => []InputIsConserved
<1>1. ConsoleInv => InputIsConserved
  BY DEF ConsoleInv
<1>2. QED
  BY <1>1, ConsoleSafe, PTL

(* The reader thread of with_reader never holds, and next_event never      *)
(* asks for, more than the one chunk that a read waits for.                *)
THEOREM ConsoleReadsOnDemand == ConsoleSpec => []NothingIsPrefetched
<1>1. ConsoleInv => NothingIsPrefetched
  BY DEF ConsoleInv
<1>2. QED
  BY <1>1, ConsoleSafe, PTL

(* Every read_line of read_serialized returns one line, and every read_all *)
(* all of the input, whatever cancelled reads left in the buffer.          *)
THEOREM ConsoleReadsWhole == ConsoleSpec => []ReadsAreWhole
<1>1. ConsoleInv => ReadsAreWhole
  BY DEF ConsoleInv
<1>2. QED
  BY <1>1, ConsoleSafe, PTL

-----------------------------------------------------------------------------
(* A command *)

Reasons == {"Initialize", "Cancelled", "Deadline", "Stdin", "Output", "Wait"}

(* What is known of the child, of the reason to terminate and of the first *)
(* failure of the clean-up wherever the supervisor stands.                 *)
CommandInv ==
    /\ leader \in {"unborn", "running", "zombie", "reaped"}
    /\ caller = "calling" => supervisor = "none"
    /\ supervisor = "none" => leader = "unborn" /\ alive = {} /\ ~status
    /\ supervisor \in {"none", "starting", "selecting"} => recorded = {} /\ ~reaped
    /\ supervisor \in {"killing", "reaping"} => leader # "unborn" /\ why \in Reasons
    /\ supervisor \in {"starting", "selecting"} => leader # "unborn"
    /\ supervisor = "reaping" => leader # "running" /\ alive = {}
    /\ status => leader = "reaped"
    /\ reaped => leader = "reaped"
    /\ first_error \in {"None", "Kill", "Reap"} /\ (recorded # {} <=> first_error # "None")
    /\ NothingIsLeftBehind

LEMMA CommandInitially == CommandInit => CommandInv
BY DEF CommandInit, CommandInv, NothingIsLeftBehind

(* Recording failures keeps the first error and the record in step.        *)
LEMMA RecordKeeps ==
    ASSUME NEW failures, failures \subseteq {"Kill", "Reap"}, failures # {}, Record(failures),
           first_error \in {"None", "Kill", "Reap"}, recorded # {} <=> first_error # "None"
    PROVE  /\ first_error' \in {"None", "Kill", "Reap"}
           /\ recorded' # {} <=> first_error' # "None"
<1>1. recorded' # {}
  BY DEF Record
<1>2. first_error' \in {"Kill", "Reap"}
  BY DEF Record
<1>3. QED
  BY <1>1, <1>2

LEMMA CommandStep ==
    ASSUME CommandInv, [CommandNext]_commandVars PROVE CommandInv'
<1>1. CASE Fork
  BY <1>1 DEF Fork, CommandInv, NothingIsLeftBehind, results, cleanup, Finished
<1>2. CASE Exit
  BY <1>2 DEF Exit, CommandInv, NothingIsLeftBehind, results, cleanup, Finished
<1>3. CASE DeadlinePasses
  BY <1>3 DEF DeadlinePasses, CommandInv, NothingIsLeftBehind, results, cleanup, Finished
<1>4. CASE Caller
  <2>1. CASE Spawn
    <3>1. /\ supervisor = "none" /\ leader = "unborn" /\ alive = {} /\ ~status
      BY <1>4, <2>1 DEF Spawn, CommandInv
    <3>2. /\ UNCHANGED <<alive, status, why, first_error, recorded, reaped>>
          /\ \/ leader' = "running" /\ supervisor' = "starting" /\ caller' = "waiting"
             \/ leader' = "unborn" /\ supervisor' = "none" /\ caller' = "refused"
      BY <2>1, <3>1 DEF Spawn, results, cleanup
    <3>3. QED
      BY <3>1, <3>2 DEF CommandInv, NothingIsLeftBehind
  <2>2. CASE Signal \/ DropCaller \/ Joined
    <3>1. /\ UNCHANGED <<leader, alive, supervisor, stdin_done, collected, status, why,
                         first_error, recorded, reaped, returned>>
          /\ caller' # "calling"
      BY <2>2 DEF Signal, DropCaller, Joined, results, cleanup
    <3>2. QED
      BY <3>1 DEF CommandInv, NothingIsLeftBehind, Finished
  <2>3. QED
    BY <1>4, <2>1, <2>2 DEF Caller
<1>5. ASSUME NEW e \in Reasons, Terminate(e), supervisor \in {"starting", "selecting"}
      PROVE  CommandInv'
  BY <1>5 DEF Terminate, CommandInv, NothingIsLeftBehind, results, cleanup, outside
<1>6. CASE Initialize
  <2>1. CASE supervisor' = "selecting" /\ UNCHANGED <<outside, results, why, cleanup, returned>>
    BY <1>6, <2>1 DEF Initialize, CommandInv, NothingIsLeftBehind, results, cleanup, outside
  <2>2. QED
    BY <1>5, <1>6, <2>1 DEF Initialize, Reasons
<1>7. CASE Cancelled \/ Deadline \/ BranchFails
  BY <1>5, <1>7 DEF Cancelled, Deadline, BranchFails, Selecting, Reasons
<1>8. CASE WriteStdin \/ \E s \in Stream : CollectOutput(s)
  <2>1. /\ supervisor = "selecting"
        /\ UNCHANGED <<leader, alive, caller, supervisor, status, why, first_error, recorded,
                       reaped>>
    BY <1>8 DEF WriteStdin, CollectOutput, Selecting, cleanup, outside
  <2>2. QED
    BY <2>1 DEF CommandInv, NothingIsLeftBehind
<1>9. CASE WaitChild
  <2>1. /\ supervisor = "selecting" /\ leader' = "reaped"
        /\ UNCHANGED <<alive, caller, supervisor, why, first_error, recorded, reaped>>
    BY <1>9 DEF WaitChild, Selecting, cleanup
  <2>2. QED
    BY <2>1 DEF CommandInv, NothingIsLeftBehind
<1>10. CASE Complete
  BY <1>10 DEF Complete, CommandInv, NothingIsLeftBehind, cleanup, outside, results, Finished
<1>11. CASE Kill
  BY <1>11 DEF Kill, KillGroup, CommandInv, NothingIsLeftBehind, cleanup, results
<1>12. CASE KillFails
  <2>1. /\ first_error' \in {"None", "Kill", "Reap"}
        /\ recorded' # {} <=> first_error' # "None"
    BY <1>12, RecordKeeps DEF KillFails, CommandInv
  <2>2. QED
    <3>1. /\ supervisor = "killing" /\ supervisor' = "killing" /\ leader' \in {leader, "reaped"}
          /\ leader' # leader => leader # "unborn"
          /\ reaped' => reaped \/ leader' = "reaped"
          /\ UNCHANGED <<alive, caller, status, why>>
      BY <1>12, SMT DEF KillFails, results
    <3>2. QED
      BY <2>1, <3>1 DEF CommandInv, NothingIsLeftBehind
<1>13. CASE Reap
  <2>1. /\ first_error' \in {"None", "Kill", "Reap"}
        /\ recorded' # {} <=> first_error' # "None"
    BY <1>13, RecordKeeps DEF Reap, CommandInv
  <2>2. QED
    <3>1. /\ supervisor = "reaping" /\ supervisor' = "reaping" /\ leader' \in {leader, "reaped"}
          /\ reaped' => reaped \/ leader' = "reaped"
          /\ UNCHANGED <<alive, caller, status, why>>
      BY <1>13, SMT DEF Reap, results
    <3>2. QED
      BY <2>1, <3>1 DEF CommandInv, NothingIsLeftBehind
<1>14. CASE Settled
  BY <1>14 DEF Settled, CommandInv, NothingIsLeftBehind, results, cleanup, outside, Reasons
<1>15. CASE UNCHANGED commandVars
  BY <1>15 DEF commandVars, CommandInv, NothingIsLeftBehind, Finished
<1>16. QED
  BY <1>1, <1>2, <1>3, <1>4, <1>6, <1>7, <1>8, <1>9, <1>10, <1>11, <1>12, <1>13, <1>14, <1>15
     DEF CommandNext, Progress

(* When the task that supervises a command has returned, the child is      *)
(* reaped, nothing of the group is left unless the command ran to its end, *)
(* and a refused kill or wait is reported (CommandSupervisor::run, settle).*)
THEOREM CommandLeavesNothing == CommandSpec => []NothingIsLeftBehind
<1>1. CommandInv => NothingIsLeftBehind
  BY DEF CommandInv
<1>2. QED
  BY <1>1, CommandInitially, CommandStep, PTL DEF CommandSpec

=============================================================================
