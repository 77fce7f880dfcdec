----------------------------- MODULE MCDocument -----------------------------
(* Values for the constants of Document. *)
EXTENDS Document, TLC

CONSTANTS p1, p2

str(text) == <<"string", <<text>>>>
pages(a, b) == <<"string", <<a, b>>>>
null == <<"null", <<>>>>
undefined == <<"undefined", <<>>>>
op(v, group) == [start |-> 2, value |-> v, group |-> group]

MCProc == {p1, p2}
Symmetry == Permutations(MCProc)

X == <<"x">>
Y == <<"y">>
XY == <<"x", "_", "y">>

at(i) == <<"at", i, <<X>>>>

member(x, v) == <<"object", << <<x, v>> >> >>

\* Two objects written beside each other, two strings put in one array, and, alone:
\* strings over strings with and without the same first page, over objects and
\* arrays, and properties removed.
MCOperations ==
  { op(member("a", member("b", str(XY))), "object"),
    op(member("a", member("a", str(X))), "object"),
    op(member("b", null), "object"),
    op(member("a", str(X)), "alone"),
    op(member("a", pages(Y, X)), "alone"),
    op(member("a", pages(Y, Y)), "alone"),
    op(member("a", str(Y)), "alone"),
    op(member("b", str(X)), "alone"),
    op(member("a", <<"array", <<str(X), undefined>> >>), "alone"),
    op(member("a", <<"array", <<null>> >>), "alone"),
    op(member("a", undefined), "alone"),
    op(member("a", member("b", undefined)), "alone"),
    op(str(X), "alone"),
    op(at(3), "array"),
    op(at(4), "array") }
=============================================================================
