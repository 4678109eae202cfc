------------------------------ MODULE MCReport ------------------------------
EXTENDS Report

N(kind, v) == [kind |-> kind, v |-> v]

\* function_chain: absent, "->", "f", "f->g"
MCChains == {NotStr, << Blank, Blank >>, << "f" >>, << "f", "g" >>}

Obj(f, l, c, n, ch) ==
    [dict |-> TRUE, file |-> f, line |-> l, cycles |-> c, count |-> n,
     address |-> "a", chain |-> ch]

\* two files, two lines, tied counts, zero and non-zero cycles
MCValid == {Obj(f, N("int", l), N("int", c), N("int", 1), ch) :
               f \in {1, 2}, l \in {1, 2}, c \in {0, 2}, ch \in MCChains}

MCEdge ==
    { Obj(1, N("int", 1), N("float", 2), N("int", 1), << "f" >>),   \* "cycles": 2.0
      Obj(1, N("int", 1), N("bool", 1), N("int", 1), << "f" >>),    \* "cycles": true
      Obj(1, N("frac", 0), N("int", 2), N("int", 1), << "f" >>),    \* "line": 1.5
      Obj(1, N("int", 1), N("int", 2), N("int", -1), << "f" >>),    \* "count": -1
      Obj(NotStr, N("int", 1), N("int", 2), N("int", 1), << "f" >>),
      [Obj(1, N("int", 1), N("int", 2), N("int", 1), << "f" >>) EXCEPT !.address = NotStr],
      [Obj(1, N("int", 1), N("int", 2), N("int", 1), << "f" >>) EXCEPT !.dict = FALSE] }

MaxObjects == 3

MCDocuments ==
    {NotArray} \cup UNION {[1..n -> MCValid \cup MCEdge] : n \in 0..MaxObjects}

\* the names of the files ranked 1 and 2
MCFileName == [r \in {1, 2} |-> IF r = 1 THEN "a.c" ELSE "b.c"]

=============================================================================
