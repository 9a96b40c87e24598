---- MODULE MCTraceInclusion ----
(* One descriptor graph.  Inclusion is asked of every two traces built from   *)
(* at most two leaves and a repetition; exit coverage of the listed traces    *)
(* with calls and of the listed outcomes.  A reference is <<shape, i, j>>.    *)
EXTENDS TraceInclusion

Label(kind, target, member, args) ==
  [kind |-> kind, target |-> target, member |-> member, args |-> args, known |-> TRUE]

Act(name, arg) == Label("action", "probe", name, <<arg>>)
A == Act("a", "x")
B == Act("b", "x")
C == Label("call", "f", "0", <<>>)
CExit == [C EXCEPT !.kind = "exit"]
U == [C EXCEPT !.known = FALSE]
UExit == [U EXCEPT !.kind = "exit"]

Trace(kind, label, row, parts) == [kind |-> kind, label |-> label, row |-> row, parts |-> parts]
One(label) == Trace("edge", label, <<>>, <<>>)
InOrder(parts) == Trace("seq", Epsilon, <<>>, parts)
Either(parts) == Trace("choice", Epsilon, <<>>, parts)
Repeated(part) == Trace("repeat", Epsilon, <<>>, <<part>>)
Widened(row) == Trace("widened", Epsilon, row, <<>>)

Leaves ==
  << One(A), One(Act("a", "*")), One(B), Either(<<>>), Widened(<<A>>) >>

L == DOMAIN Leaves
Leaf(i) == <<"leaf", i, 0>>
InclusionRoots ==
  {Leaf(i) : i \in L} \cup ({"seq", "loop_of_seq"} \X L \X L)
    \cup {r \in {"choice", "loop_of_choice"} \X L \X L : r[2] < r[3]}

Made(r) ==
  CASE r[1] = "leaf" -> Leaves[r[2]]
    [] r[1] = "seq" -> InOrder(<<Leaf(r[2]), Leaf(r[3])>>)
    [] r[1] = "choice" -> Either(<<Leaf(r[2]), Leaf(r[3])>>)
    [] r[1] = "loop_of_seq" -> Repeated(<<"seq", r[2], r[3]>>)
    [] r[1] = "loop_of_choice" -> Repeated(<<"choice", r[2], r[3]>>)

N(k) == <<"listed", k, 0>>
Listed == <<
  One(C),                                     \*  1
  One(U),                                     \*  2  its arguments are unknown
  One(B),                                     \*  3
  Either(<<>>),                               \*  4
  Repeated(N(1)),                             \*  5  c*
  Widened(<<B, C>>),                          \*  6
  InOrder(<<N(3), N(1)>>),                    \*  7  b c
  InOrder(<<N(1), N(3), N(1)>>),              \*  8  c b c
  InOrder(<<N(1), N(4)>>),                    \*  9  c, then nothing completes
  InOrder(<<>>),                              \* 10
  One(CExit),                                 \* 11
  One(UExit),                                 \* 12
  One(Label("returned", "t", "any", <<>>)),   \* 13
  One(Label("returned", "t", "some", <<>>)),  \* 14
  One(Label("raised", "e", "", <<>>)),        \* 15
  InOrder(<<N(5), N(11)>>),                   \* 16  c* exit
  InOrder(<<N(6), N(11)>>),                   \* 17
  InOrder(<<N(3), N(11)>>),                   \* 18  b exit
  Either(<<N(18), N(14)>>),                   \* 19
  InOrder(<<N(1), N(3), N(11)>>),             \* 20  c b exit
  Either(<<N(11), N(20), N(15)>>),            \* 21
  InOrder(<<N(11), N(3)>>),                   \* 22  an exit that is not last
  Either(<<N(11), N(13)>>),                   \* 23
  Either(<<N(17), N(6)>>),                    \* 24  alternatives with the same loop
  Trace("template", UExit, <<>>, <<>>),       \* 25
  Either(<<N(10), N(3)>>),                    \* 26  b or nothing
  One(Epsilon) >>                             \* 27

Callers == {N(k) : k \in 1..11}
CallOutcomes == {N(k) : k \in 10..25}
ListedRoots == {N(k) : k \in DOMAIN Listed}
Absent == <<"listed", 0, 0>>

MCTraces == [r \in InclusionRoots \cup ListedRoots |->
               IF r \in ListedRoots THEN Listed[r[2]] ELSE Made(r)]

MCTasks ==
  [question : {"inclusion"}, candidate : InclusionRoots, frozen : InclusionRoots]
    \cup [question : {"inclusion"}, candidate : ListedRoots, frozen : ListedRoots]
    \cup [question : {"exits"}, candidate : Callers, frozen : CallOutcomes \cup {Absent}]
====
