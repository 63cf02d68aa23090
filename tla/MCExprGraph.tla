----------------------------- MODULE MCExprGraph -----------------------------
(* The graphs of the runs of ExprGraph, over the expressions x, w (inputs) *)
(* and a, b, y.                                                            *)
EXTENDS ExprGraph

CONSTANTS x, w, a, b, y

Graph(ins, need, writes, resizes, feeds, lists, fixes) ==
  [ins |-> [e \in Exprs |-> IF e \in DOMAIN ins THEN ins[e] ELSE <<>>],
   need |-> [e \in Exprs |-> IF e \in DOMAIN need THEN need[e] ELSE <<>>],
   writes |-> writes, resizes |-> resizes, feeds |-> feeds,
   lists |-> lists, fixes |-> fixes]

C == "content"

(* Two inputs, whose shapes may not fit *)
Fitting ==
  Graph(a :> <<x>> @@ y :> <<a, w>>,
        a :> <<C>> @@ y :> <<C, C>>,
        {x, w}, {w}, {<<w, a>>}, {<<y>>}, {a})

(* y and a are packed, and b between them may be computed before: it has a *)
(* session of its own then                                                 *)
Packed(resizes) ==
  Graph(a :> <<x>> @@ b :> <<x, a>> @@ y :> <<b, x>>,
        a :> <<C>> @@ b :> <<C, C>> @@ y :> <<C, C>>,
        {x}, resizes, {}, {<<a, b>>, <<y, a>>}, {b, y})

(* The shape of y is in the content of a (as in test/op/ReshapeTest.cpp)   *)
Shaped ==
  Graph(a :> <<w>> @@ y :> <<x, a>> @@ b :> <<y>>,
        a :> <<C>> @@ y :> <<C, "shape">> @@ b :> <<C>>,
        {x, w}, {}, {<<x, w>>}, {<<b>>}, {a})

(* Shape(x), computed upon and given to Interp(x, .) as its size           *)
(* (test/expr/ExprResizeComputeTest.cpp)                                   *)
ShapeOfInput ==
  Graph(a :> <<x>> @@ b :> <<a>> @@ y :> <<x, b>>,
        a :> <<"neither">> @@ b :> <<C>> @@ y :> <<C, "shape">>,
        {x}, {x}, {}, {<<y>>}, {b})

MCGraphs == {Fitting, Packed({}), Shaped, ShapeOfInput}
MCPackGraphs == {Packed({x})}

(* Shapes and contents are only compared *)
MCSymmetry == Permutations(Shapes) \cup Permutations(Contents)
=============================================================================
