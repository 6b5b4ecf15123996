------------------------------ MODULE MCCanvas ------------------------------
(* A chain of nested containers, so that the initial disclosure closes one      *)
(* container inside of another.                                                  *)
EXTENDS Canvas, TLC
CONSTANTS outermost, outer, inner, innermost
MCParent == outermost :> None @@ outer :> outermost @@ inner :> outer @@ innermost :> inner
MCModels == {{outermost, outer, inner}, {outermost, outer, inner, innermost}}
=============================================================================
