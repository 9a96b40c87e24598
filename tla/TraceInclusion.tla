---- MODULE TraceInclusion ----
(***************************************************************************)
(* The proof that a candidate trace is allowed by a frozen one             *)
(* (etas_code/src/contract).  A trace descriptor is a node of an acyclic   *)
(* graph; Nfa::build turns one into a nondeterministic automaton and       *)
(* check_nfa_inclusion explores the product of a candidate state with a    *)
(* set of frozen states.  The second client of the search,                 *)
(* check_parameter_exit_coverage, first rewrites both automata so that     *)
(* their words are the places at which a call of a parameter may fail to   *)
(* return.                                                                 *)
(*                                                                         *)
(* One step is one turn of a loop of the code.  Labels are records of the  *)
(* few fields that covers compares.  Every limit of ProofBudget and its    *)
(* checkpoint become the step Exhaust, which may end the check at any      *)
(* moment with an error: whatever the limits are, an answer given without  *)
(* reaching one is the answer of the other steps.                          *)
(***************************************************************************)
EXTENDS Naturals, FiniteSets, SequencesExt

CONSTANTS
  Traces,   \* the descriptor graph: reference -> [kind, label, row, parts]
  Tasks,    \* the calls: [question, candidate, frozen]
  Depth     \* the length up to which the reference semantics lists words

VARIABLES
  task,     \* the call being answered
  phase,    \* "candidate" | "frozen" (built now) | "search" | "reverse"
  work,     \* Nfa::build's stack of [trace, start, end]
  nfa,      \* the two automata
  search,   \* check_nfa_inclusion's queue of product nodes
  cursor,   \* the node to expand
  answer    \* [verdict, path]

traceVars == <<task, phase, work, nfa, search, cursor, answer>>

Epsilon == [kind |-> "epsilon", target |-> "", member |-> "", args |-> <<>>, known |-> TRUE]

Outcomes == {"returned", "raised", "nonreturn", "exit"}

\* Wildcard arguments and the whole effect cover more than themselves; a
\* parameter call whose handlers or arguments are unknown covers nothing.
covers(bound, actual) ==
  CASE bound.kind = "action" /\ actual.kind = "action" ->
         /\ bound.target = actual.target
         /\ bound.member \in {actual.member, "whole"}
         /\ Len(bound.args) = Len(actual.args)
         /\ \A i \in DOMAIN bound.args : bound.args[i] \in {actual.args[i], "*"}
    [] bound.kind = "returned" /\ actual.kind = "returned" ->
         bound.target = actual.target /\ bound.member \in {actual.member, "any"}
    [] OTHER -> bound = actual /\ bound.known

(***************************************************************************)
(* Automata: states 0 .. size - 1, edges in the order they were added.     *)
(***************************************************************************)
NewNfa == [size |-> 2, start |-> 0, end |-> 1, edges |-> <<>>]

Edge(from, to, label, source) == [from |-> from, to |-> to, label |-> label, source |-> source]

Labelled(e) == e.label # Epsilon

RECURSIVE closure(_, _)
closure(n, states) ==
  LET next == {e.to : e \in {f \in ToSet(n.edges) : f.from \in states /\ ~Labelled(f)}}
  IN  IF next \subseteq states THEN states ELSE closure(n, states \cup next)

RECURSIVE LiveStates(_, _)
LiveStates(n, live) ==
  LET before == {e.from : e \in {f \in ToSet(n.edges) : f.to \in live}}
  IN  IF before \subseteq live THEN live ELSE LiveStates(n, live \cup before)

prune_nonterminating(n) ==
  LET live == LiveStates(n, {n.end})
  IN  [n EXCEPT !.edges = SelectSeq(@, LAMBDA e : e.to \in live)]

\* The automaton with a new end that only the given edges enter.
WithExits(n, kept, exits) ==
  prune_nonterminating(
    [n EXCEPT !.size = @ + 1, !.end = n.size,
              !.edges = kept \o [i \in DOMAIN exits |-> [exits[i] EXCEPT !.to = n.size]]])

AsExit(e) == [e EXCEPT !.label.kind = "exit"]

parameter_exit_prefixes(n) ==
  LET calls == SelectSeq(n.edges, LAMBDA e : e.label.kind = "call")
  IN  WithExits(n, n.edges, [i \in DOMAIN calls |-> AsExit(calls[i])])

parameter_exit_outcomes(n) ==
  WithExits(n, SelectSeq(n.edges, LAMBDA e : e.label.kind \notin Outcomes),
               SelectSeq(n.edges, LAMBDA e : e.label.kind = "exit"))

\* The InvalidOutcomeTrace returns of the two rewritings: an outcome inside the
\* trace, and an exit that is not the last thing the outcomes describe.
OutcomeInside(n) == \E e \in ToSet(n.edges) : e.label.kind \in Outcomes

ExitNotLast(n) ==
  \E e \in ToSet(n.edges) : e.label.kind = "exit" /\ n.end \notin closure(n, {e.to})

(***************************************************************************)
(* Nfa::build, one turn of its loop at a time.                             *)
(***************************************************************************)
Root(trace) == <<[trace |-> trace, start |-> 0, end |-> 1]>>

TraceInit ==
  /\ task \in Tasks
  /\ phase = "candidate"
  /\ work = Root(task.candidate)
  /\ nfa = [candidate |-> NewNfa, frozen |-> NewNfa]
  /\ search = <<>>
  /\ cursor = 1
  /\ answer = [verdict |-> "none", path |-> <<>>]

Running == answer.verdict = "none"
Top == Last(work)
Node == Traces[Top.trace]
Building(kind) == Running /\ work # <<>> /\ Top.trace \in DOMAIN Traces /\ Node.kind = kind

Built(size, edges, items) ==
  /\ nfa' = [nfa EXCEPT ![phase].size = size, ![phase].edges = @ \o edges]
  /\ work' = Front(work) \o items
  /\ UNCHANGED <<task, phase, search, cursor, answer>>

Size == nfa[phase].size
TopEdge(label) == Edge(Top.start, Top.end, label, Top.trace)

\* Empty, Event, Outcome and ParameterCall are one edge.
BuildEdge == Building("edge") /\ Built(Size, <<TopEdge(Node.label)>>, <<>>)

\* A sequence is cut at fresh states; without parts it is the empty word.
BuildSeq ==
  LET n == Len(Node.parts)
      Cut(i) == CASE i = 0 -> Top.start [] i = n -> Top.end [] OTHER -> Size + i - 1
  IN  /\ Building("seq")
      /\ \/ /\ n = 0
            /\ Built(Size, <<TopEdge(Epsilon)>>, <<>>)
         \/ /\ n > 0
            /\ Built(Size + n - 1, <<>>,
                     [i \in 1..n |-> [trace |-> Node.parts[i], start |-> Cut(i - 1), end |-> Cut(i)]])

\* The alternatives share both ends; without alternatives nothing is accepted.
BuildChoice ==
  /\ Building("choice")
  /\ Built(Size, <<>>, [i \in DOMAIN Node.parts |->
                          [trace |-> Node.parts[i], start |-> Top.start, end |-> Top.end]])

BuildRepeat ==
  LET inner_start == Size
      inner_end == Size + 1
      Skip(from, to) == Edge(from, to, Epsilon, Top.trace)
  IN  /\ Building("repeat")
      /\ Built(Size + 2,
               << Skip(Top.start, Top.end), Skip(Top.start, inner_start),
                  Skip(inner_end, inner_start), Skip(inner_end, Top.end) >>,
               <<[trace |-> Node.parts[1], start |-> inner_start, end |-> inner_end]>>)

\* UnknownOrder and Widened: every label of the row loops on the start state.
BuildWidened ==
  /\ Building("widened")
  /\ Built(Size, [i \in DOMAIN Node.row |-> Edge(Top.start, Top.start, Node.row[i], Top.trace)]
                   \o <<TopEdge(Epsilon)>>, <<>>)

Answers(verdict, path) ==
  /\ answer' = [verdict |-> verdict, path |-> path]
  /\ UNCHANGED <<task, phase, work, nfa, search, cursor>>

\* A missing root (MissingTrace) and a generic outcome that was never
\* instantiated (UninstantiatedGenericOutcome) end the build.
BuildFails ==
  /\ Running /\ work # <<>>
  /\ Top.trace \in DOMAIN Traces => Node.kind = "template"
  /\ Answers("error", <<>>)

(***************************************************************************)
(* Between the builds, and from the builds to the search.                  *)
(***************************************************************************)
IsExits == task.question = "exits"

Invalid ==
  /\ IsExits
  /\ \/ phase = "candidate" /\ OutcomeInside(nfa.candidate)
     \/ phase = "frozen" /\ ExitNotLast(nfa.frozen)

RewriteFails ==
  /\ Running /\ work = <<>> /\ Invalid
  /\ Answers("error", <<>>)

FinishCandidate ==
  /\ Running /\ phase = "candidate" /\ work = <<>> /\ ~Invalid
  /\ nfa' = IF IsExits THEN [nfa EXCEPT !.candidate = parameter_exit_prefixes(@)] ELSE nfa
  /\ phase' = "frozen"
  /\ work' = Root(task.frozen)
  /\ UNCHANGED <<task, search, cursor, answer>>

ProductNode(candidate, frozen, at, source, label) ==
  [candidate |-> candidate, frozen |-> frozen, at |-> at, source |-> source, label |-> label]

FirstNode(candidate, frozen) ==
  ProductNode(candidate.start, closure(frozen, {frozen.start}), 0, task.candidate, Epsilon)

FinishFrozen ==
  LET n == IF IsExits THEN parameter_exit_outcomes(nfa.frozen) ELSE nfa.frozen
  IN  /\ Running /\ phase = "frozen" /\ work = <<>> /\ ~Invalid
      /\ nfa' = [nfa EXCEPT !.frozen = n]
      /\ phase' = "search"
      /\ search' = <<FirstNode(nfa.candidate, n)>>
      /\ cursor' = 1
      /\ UNCHANGED <<task, work, answer>>

(***************************************************************************)
(* check_nfa_inclusion: one turn expands the node at the cursor.           *)
(***************************************************************************)
Searching == Running /\ phase \in {"search", "reverse"} /\ cursor <= Len(search)
Cursor == search[cursor]
States == closure(nfa.candidate, {Cursor.candidate})

\* The labelled edges that leave the states, in the order of the two loops.
OutEdges ==
  LET states == SetToSortSeq(States, <)
  IN  FlattenSeq([i \in DOMAIN states |->
        SelectSeq(nfa.candidate.edges, LAMBDA e : e.from = states[i] /\ Labelled(e))])

\* Where the frozen automaton can be after a label of the candidate.
Follow(label) ==
  closure(nfa.frozen,
    {e.to : e \in {f \in ToSet(nfa.frozen.edges) :
                     f.from \in Cursor.frozen /\ Labelled(f) /\ covers(f.label, label)}})

RECURSIVE witness(_)
witness(at) ==
  IF search[at].at = 0 THEN <<>>
  ELSE Append(witness(search[at].at), [source |-> search[at].source, label |-> search[at].label])

EndUncovered == nfa.candidate.end \in States /\ nfa.frozen.end \notin Cursor.frozen

\* A word that the frozen trace cannot end.
RefuseEnd ==
  /\ Searching /\ EndUncovered
  /\ Answers("not_proven", witness(cursor))

Uncovered == {i \in DOMAIN OutEdges : Follow(OutEdges[i].label) = {}}

\* A label that the frozen trace cannot take: the first in the loops' order.
RefuseLabel ==
  /\ Searching /\ ~EndUncovered /\ Uncovered # {}
  /\ LET e == OutEdges[CHOOSE i \in Uncovered : \A j \in Uncovered : i <= j]
     IN  Answers("not_proven", Append(witness(cursor), [source |-> e.source, label |-> e.label]))

\* The visited set keyed by the candidate state alone.
EnqueueByCandidate(queue, node) ==
  IF \E old \in ToSet(queue) : old.candidate = node.candidate
  THEN queue ELSE Append(queue, node)

enqueue(queue, node) ==
  IF \E old \in ToSet(queue) : old.candidate = node.candidate /\ old.frozen = node.frozen
  THEN queue ELSE Append(queue, node)

Expand ==
  /\ Searching /\ ~EndUncovered /\ Uncovered = {}
  /\ search' = FoldLeft(LAMBDA queue, e :
                          enqueue(queue, ProductNode(e.to, Follow(e.label), cursor, e.source, e.label)),
                        search, OutEdges)
  /\ cursor' = cursor + 1
  /\ UNCHANGED <<task, phase, work, nfa, answer>>

Explored == Running /\ phase \in {"search", "reverse"} /\ cursor > Len(search)

\* Coverage of exits asks for both inclusions; this starts the second.
SearchBack ==
  /\ Explored /\ IsExits /\ phase = "search"
  /\ nfa' = [candidate |-> nfa.frozen, frozen |-> nfa.candidate]
  /\ phase' = "reverse"
  /\ search' = <<FirstNode(nfa.frozen, nfa.candidate)>>
  /\ cursor' = 1
  /\ UNCHANGED <<task, work, answer>>

Include ==
  /\ Explored /\ (IsExits => phase = "reverse")
  /\ Answers("included", <<>>)

Exhaust == Running /\ Answers("error", <<>>)

TraceNext ==
  \/ BuildEdge \/ BuildSeq \/ BuildChoice \/ BuildRepeat \/ BuildWidened \/ BuildFails
  \/ RewriteFails \/ FinishCandidate \/ FinishFrozen
  \/ RefuseEnd \/ RefuseLabel \/ Expand \/ SearchBack \/ Include
  \/ Exhaust

TraceSpec == TraceInit /\ [][TraceNext]_traceVars

(***************************************************************************)
(* The reference semantics: what a trace descriptor means, by structure    *)
(* and without automata.  words are the complete traces of at most Depth   *)
(* labels, prefixes those that an execution may have emitted so far, also  *)
(* where it can never complete.                                            *)
(***************************************************************************)
Cat(A, B) == {w \in {a \o b : a \in A, b \in B} : Len(w) <= Depth}

Star(A) == FoldLeft(LAMBDA S, i : S \cup Cat(S, A), {<<>>}, [i \in 1..Depth |-> i])

Language(words, prefixes) == [words |-> words, prefixes |-> prefixes]

Meaning[r \in DOMAIN Traces] ==
  LET t == Traces[r]
  IN  CASE t.kind = "edge" /\ t.label = Epsilon -> Language({<<>>}, {<<>>})
        [] t.kind \in {"edge", "template"} -> Language({<<t.label>>}, {<<>>, <<t.label>>})
        [] t.kind = "seq" ->
             FoldLeft(LAMBDA before, p :
                        Language(Cat(before.words, Meaning[p].words),
                                 before.prefixes \cup Cat(before.words, Meaning[p].prefixes)),
                      Language({<<>>}, {<<>>}), t.parts)
        [] t.kind = "choice" ->
             Language(UNION {Meaning[p].words : p \in ToSet(t.parts)},
                      {<<>>} \cup UNION {Meaning[p].prefixes : p \in ToSet(t.parts)})
        [] t.kind = "repeat" ->
             LET inner == Meaning[t.parts[1]]
             IN  Language(Star(inner.words), Cat(Star(inner.words), inner.prefixes))
        [] t.kind = "widened" ->
             LET any == Star({<<l>> : l \in ToSet(t.row)}) IN Language(any, any)

CoveredBy(word, bounds) ==
  \E b \in bounds : Len(b) = Len(word) /\ \A i \in DOMAIN word : covers(b[i], word[i])

AllCovered(words, bounds) == \A w \in words : CoveredBy(w, bounds)

\* The loops a trace puts on its start state, and the graphs in which no
\* alternative of a choice runs through the loop of another one.
Opens[r \in DOMAIN Traces] ==
  LET t == Traces[r]
  IN  CASE t.kind = "widened" -> ToSet(t.row)
        [] t.kind = "seq" /\ t.parts # <<>> -> Opens[t.parts[1]]
        [] t.kind = "choice" -> UNION {Opens[p] : p \in ToSet(t.parts)}
        [] OTHER -> {}

LoopsAreOwn[r \in DOMAIN Traces] ==
  LET t == Traces[r]
  IN  /\ \A p \in ToSet(t.parts) : LoopsAreOwn[p]
      /\ t.kind = "choice" => \A p, q \in ToSet(t.parts) : Opens[p] = Opens[q]

Candidate == Meaning[task.candidate]
Frozen == Meaning[task.frozen]
Says(verdict) == task.question = "inclusion" /\ answer.verdict = verdict
PathLabels == [i \in DOMAIN answer.path |-> answer.path[i].label]

TraceTypeOK ==
  /\ task \in Tasks
  /\ phase \in {"candidate", "frozen", "search", "reverse"}
  /\ answer.verdict \in {"none", "included", "not_proven", "error"}
  /\ \A side \in {"candidate", "frozen"} :
       /\ {nfa[side].start, nfa[side].end} \subseteq 0..nfa[side].size - 1
       /\ \A e \in ToSet(nfa[side].edges) : {e.from, e.to} \subseteq 0..nfa[side].size - 1
  /\ cursor \in 1..Len(search) + 1

\* check_trace_inclusion says Included only when every word of the candidate is
\* covered by a word of the frozen trace and every prefix, also one that leads
\* nowhere, by a prefix; and NotProven only with the path of a word or a prefix
\* of the candidate that nothing of the frozen trace covers.  The first needs
\* frozen alternatives that do not run through each other's loops, the second
\* such candidate alternatives.
InclusionIsExact ==
  /\ Says("included") /\ LoopsAreOwn[task.frozen] =>
       /\ AllCovered(Candidate.words, Frozen.words)
       /\ AllCovered(Candidate.prefixes, Frozen.prefixes)
  /\ Says("not_proven") /\ LoopsAreOwn[task.candidate] =>
       \/ PathLabels \in Candidate.words /\ ~CoveredBy(PathLabels, Frozen.words)
       \/ PathLabels \in Candidate.prefixes /\ ~CoveredBy(PathLabels, Frozen.prefixes)

\* check_parameter_exit_coverage says true exactly when the non-return
\* alternatives of the outcomes are the prefixes at which the trace can call a
\* parameter: none is missing and none is invented, through repetitions,
\* widened rows and branches that never complete.
ExitCoverageIsExact ==
  LET expected == {[p EXCEPT ![Len(p)].kind = "exit"] :
                     p \in {q \in Candidate.prefixes : q # <<>> /\ Last(q).kind = "call"}}
      actual == {w \in Frozen.words :
                   /\ w # <<>> /\ Last(w).kind = "exit"
                   /\ \A i \in 1..Len(w) - 1 : w[i].kind \notin Outcomes}
  IN  IsExits /\ answer.verdict \in {"included", "not_proven"}
        /\ LoopsAreOwn[task.candidate] /\ LoopsAreOwn[task.frozen] =>
      (answer.verdict = "included" <=> AllCovered(expected, actual) /\ AllCovered(actual, expected))

\* Both questions are answered as the reference semantics answers them.
VerdictsAreExact == TraceTypeOK /\ InclusionIsExact /\ ExitCoverageIsExact

\* The comment on check_trace_inclusion: inclusion "preserves every action
\* prefix and hence intermediate violations", whatever the two traces are.
PrefixesArePreserved ==
  Says("included") => AllCovered(Candidate.prefixes, Frozen.prefixes)
====
