----------------------------- MODULE AddrIndex -----------------------------
(***************************************************************************)
(* The address index of build_viewer.py: the context window disasm_slice  *)
(* cuts around a program counter (1042-1064), and the runtime-to-VMA      *)
(* translation main applies to a sample's PC first (311-319).  An index   *)
(* is a function from addresses to [text, file, line] records.            *)
(***************************************************************************)
EXTENDS Integers, Sequences, FiniteSets
LOCAL INSTANCE SequencesExt
LOCAL INSTANCE FiniteSetsExt

CONSTANT NoBase   \* text_base_int is None

\* asm_addrs = sorted(asm_index.keys())
SortedAddrs(index) == SetToSortSeq(DOMAIN index, <)

\* bisect.bisect_left(addrs, pc): how many addresses lie below pc
BisectLeft(index, pc) == Cardinality({a \in DOMAIN index : a < pc})

SliceRow(index, a, pc) ==
    [address |-> a, text |-> index[a].text, isPC |-> a = pc,
     file |-> index[a].file, line |-> index[a].line]

DisasmSlice(index, pc, context) ==
    LET addrs == SortedAddrs(index)
        n == Len(addrs)
        i0 == BisectLeft(index, pc)
        i == IF i0 >= n THEN n - 1 ELSE i0
        start == Max({0, i - context})
        end == Min({n, i + context + 1})
    IN IF DOMAIN index = {} THEN <<>>
       ELSE [k \in 1..(end - start) |-> SliceRow(index, addrs[start + k], pc)]

\* Fault model: the candidate accepted only strictly below asm_max.
TranslatePCOpenMax(pc, amin, amax, textBase, haveAddrs) ==
    LET candidate == pc - (textBase - amin) IN
    IF /\ haveAddrs /\ textBase # NoBase
       /\ ~(amin <= pc /\ pc <= amax)
       /\ amin <= candidate /\ candidate < amax
    THEN [pc |-> candidate, adjusted |-> TRUE]
    ELSE [pc |-> pc, adjusted |-> FALSE]

(* Lines 311-319: use pc when it is inside [min, max]; otherwise, with a   *)
(* runtime text base, try pc - (base - min) and keep it if it lands inside *)
(* the range.  Returns the PC used and whether it was adjusted.           *)
TranslatePC(pc, amin, amax, textBase, haveAddrs) ==
    LET candidate == pc - (textBase - amin) IN
    IF /\ haveAddrs /\ textBase # NoBase
       /\ ~(amin <= pc /\ pc <= amax)
       /\ amin <= candidate /\ candidate <= amax
    THEN [pc |-> candidate, adjusted |-> TRUE]
    ELSE [pc |-> pc, adjusted |-> FALSE]

-----------------------------------------------------------------------------
(* Reference window: the first address at or above pc (the last address   *)
(* when there is none) and every address at most `context` positions away *)
(* from it in address order, ascending.                                   *)
RefSliceAddrs(index, pc, context) ==
    LET D == DOMAIN index
        above == {a \in D : a >= pc}
        anchor == IF above # {} THEN Min(above) ELSE Max(D)
        rank(a) == Cardinality({b \in D : b < a})
        near == {a \in D : rank(a) - rank(anchor) \in -context..context}
    IN IF D = {} THEN <<>> ELSE SetToSortSeq(near, <)

=============================================================================
