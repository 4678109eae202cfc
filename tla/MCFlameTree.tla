---------------------------- MODULE MCFlameTree ----------------------------
EXTENDS FlameTree

\* function_chain values: absent, "  ", "->", "f", "f->g", "g", "f-> ->g", "g->f"
MCChains ==
    {None, << Blank >>, << Blank, Blank >>, << "f" >>, << "f", "g" >>,
     << "g" >>, << "f", Blank, "g" >>, << "g", "f" >>}

\* the fallback label "f" collides with the chain label "f"
MCEntry == [chain : MCChains, loc : {"u.c:1", "f"}, w : {0, 1, 2}]

MaxEntries == 3

MCEntryLists == UNION {[1..n -> MCEntry] : n \in 0..MaxEntries}

=============================================================================
