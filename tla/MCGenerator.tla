---------------------------- MODULE MCGenerator -----------------------------
(***************************************************************************)
(* Small projects for Generator: a header included by two units, another   *)
(* one of the same name, a class without a source file, one not marked and *)
(* one only declared.                                                      *)
(***************************************************************************)
EXTENDS Generator

CONSTANTS Shape, Circle, Square, Helper, Out, None

MCClasses == {Shape, Circle, Square, Helper}
MCPaths   == {"core/shape.hpp", "ui/shape.hpp", "circle.cpp"}

MCFileName == [p \in MCPaths |-> IF p = "circle.cpp" THEN "circle.cpp" ELSE "shape.hpp"]

MCOutputName ==
  [f \in {"circle.cpp", "shape.hpp"} |->
     IF f = "circle.cpp" THEN "circle.reflect-generated.cpp" ELSE "shape.reflect-generated.cpp"]

MCSorted == <<"circle.reflect-generated.cpp", "shape.reflect-generated.cpp">>

Decl(c, complete, marked, p) == [class |-> c, complete |-> complete, marked |-> marked, path |-> p]

MCUnits ==
  {<<Decl(Shape, TRUE, TRUE, "core/shape.hpp"), Decl(Circle, TRUE, TRUE, "circle.cpp")>>,
   <<Decl(Circle, FALSE, TRUE, "circle.cpp"), Decl(Shape, TRUE, TRUE, "core/shape.hpp"),
     Decl(Helper, TRUE, TRUE, None)>>,
   <<Decl(Square, TRUE, TRUE, "ui/shape.hpp"), Decl(Helper, TRUE, FALSE, "ui/shape.hpp")>>}

MCProjects == UNION {[1 .. n -> MCUnits] : n \in 0 .. 3}
=============================================================================
