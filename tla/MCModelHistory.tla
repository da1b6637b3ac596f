--------------------------- MODULE MCModelHistory ---------------------------
EXTENDS ModelHistory

CONSTANTS a, b

MCCallLists == {<<>>, <<a>>, <<a, b>>, <<b, NoId, b>>}

=============================================================================
