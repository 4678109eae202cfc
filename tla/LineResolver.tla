---------------------------- MODULE LineResolver ----------------------------
(***************************************************************************)
(* The addr2line wrapper of build_viewer.py: addr2line_create (475-501)    *)
(* builds the basename index of the embedded-source table, and            *)
(* addr2line_resolve (504-554) issues one batch query for the addresses   *)
(* not yet in the cache, pairs the output lines with them by position,    *)
(* parses each "file:line", normalises the file against the source root   *)
(* and the table, and stores the result in the cache for good.            *)
(*                                                                         *)
(* A path is a record [root, dir, base]: root "src" is an absolute path   *)
(* beneath the source root, "other" an absolute path elsewhere, "rel" a   *)
(* relative path (the form of the table keys).  One addr2line output line *)
(* is [file, line]: file None stands for the "??" marker, line None for a *)
(* line part int() rejects ("?" or "12 (discriminator 3)").               *)
(***************************************************************************)
EXTENDS Naturals, Sequences, FiniteSets, TLC
LOCAL INSTANCE FiniteSetsExt
LOCAL INSTANCE Functions

CONSTANTS
    Addrs,       \* instruction addresses
    Dirs,        \* directory parts of paths
    Bases,       \* basenames of paths
    Addr2Out,    \* Addr2Out[a]: the line addr2line prints for address a
    SrcKeys,     \* keys of the embedded-source table (relative paths)
    HasSrcBase,  \* whether --src-base was given
    None

Path == [root : {"src", "other", "rel"}, dir : Dirs, base : Bases]
ToolLine == [file : Path \cup {None}, line : Nat \cup {None}]

ASSUME Addr2Out \in [Addrs -> ToolLine]
ASSUME SrcKeys \subseteq [root : {"rel"}, dir : Dirs, base : Bases]
ASSUME HasSrcBase \in BOOLEAN

\* the (None, None) entry, and the "??:0" line used to pad short output
NoInfo == [file |-> None, line |-> None]
PadLine == [file |-> None, line |-> 0]

(* addr2line_create, lines 486-494: basename -> the one key with that     *)
(* basename, or None when two keys share it.                              *)
BasenameIndex ==
    LET add(k, idx) ==
            IF k.base \in DOMAIN idx /\ idx[k.base] # k
            THEN [idx EXCEPT ![k.base] = None]
            ELSE (k.base :> k) @@ idx
    IN FoldSet(add, <<>>, SrcKeys)

(* Lines 540-553: make an absolute path beneath the root relative, then,  *)
(* when it is not a key, replace it by the key with the same basename if   *)
(* that key is unambiguous.                                                *)
NormalizeFile(p) ==
    LET idx == BasenameIndex
        rel == IF HasSrcBase /\ p.root = "src" THEN [p EXCEPT !.root = "rel"] ELSE p
    IN IF DOMAIN idx # {} /\ rel \notin Range(idx)
             /\ rel.base \in DOMAIN idx /\ idx[rel.base] # None
       THEN idx[rel.base]
       ELSE rel

(* Lines 523-554: parse one output line into a cache entry.              *)
ParseLine(ln) ==
    IF ln.file = None \/ ln.line = None \/ ln.line <= 0
    THEN NoInfo
    ELSE [file |-> NormalizeFile(ln.file), line |-> ln.line]

\* Fault model: `(["??:0"] * missing + lines)`, short output padded in front.
ResolvePadFront(cache, addrs, outcome) ==
    LET todo == SelectSeq(addrs, LAMBDA a : a \notin DOMAIN cache)
        missing == Max({0, Len(todo) - outcome.printed})
        out(i) == IF i > missing THEN Addr2Out[todo[i - missing]] ELSE PadLine
        new == [a \in Range(todo) |->
                   IF outcome.failed THEN NoInfo
                   ELSE ParseLine(out(CHOOSE i \in DOMAIN todo : todo[i] = a))]
    IN IF todo = <<>> THEN cache ELSE new @@ cache

\* Fault model: every requested address is queried again, cached or not.
ResolveNoFilter(cache, addrs, outcome) ==
    LET out(i) == IF i <= outcome.printed THEN Addr2Out[addrs[i]] ELSE PadLine
        new == [a \in Range(addrs) |->
                   IF outcome.failed THEN NoInfo
                   ELSE ParseLine(out(CHOOSE i \in DOMAIN addrs : addrs[i] = a))]
    IN IF addrs = <<>> THEN cache ELSE new @@ cache

(* addr2line_resolve (504-554) as a function of the cache, the requested *)
(* addresses and what the tool did: [failed] (check_output raised) and    *)
(* the number of lines it [printed].  zip() pairs output lines with todo by *)
(* position; for an address requested twice the later pairing wins.       *)
Resolve(cache, addrs, outcome) ==
    LET todo == SelectSeq(addrs, LAMBDA a : a \notin DOMAIN cache)
        out(i) == IF i <= outcome.printed THEN Addr2Out[todo[i]] ELSE PadLine
        last(a) == CHOOSE i \in DOMAIN todo :
                      todo[i] = a /\ \A j \in DOMAIN todo : todo[j] = a => j <= i
        new == [a \in Range(todo) |->
                   IF outcome.failed THEN NoInfo ELSE ParseLine(out(last(a)))]
    IN IF todo = <<>> THEN cache ELSE new @@ cache

-----------------------------------------------------------------------------
(* What a resolved entry must be: the tool's file, made relative to the   *)
(* source root, or else the unique table key sharing its basename.        *)
ExpectedFile(p) ==
    LET rel == IF HasSrcBase /\ p.root = "src" THEN [p EXCEPT !.root = "rel"] ELSE p
        same == {k \in SrcKeys : k.base = rel.base}
    IN IF rel \notin SrcKeys /\ Cardinality(same) = 1
       THEN CHOOSE k \in same : TRUE
       ELSE rel

(***************************************************************************)
(* Every cache entry is either "no information" or the true location of   *)
(* its own address: positional pairing of a short output and the         *)
(* basename fallback never give an address another address's line or an  *)
(* ambiguous file.                                                         *)
(***************************************************************************)
CacheSoundFor(cache) ==
    \A a \in DOMAIN cache :
        \/ cache[a] = NoInfo
        \/ /\ Addr2Out[a].file # None
           /\ cache[a] = [file |-> ExpectedFile(Addr2Out[a].file), line |-> Addr2Out[a].line]

(***************************************************************************)
(* Once an address is in the cache its entry never changes: a later call *)
(* that fails or prints fewer lines does not overwrite an earlier answer. *)
(***************************************************************************)
CacheKept(before, after) ==
    \A a \in DOMAIN before : a \in DOMAIN after /\ after[a] = before[a]

=============================================================================
