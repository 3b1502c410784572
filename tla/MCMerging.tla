----------------------------- MODULE MCMerging ------------------------------
(* Documents that hold each kind of value under one key: scalars of two      *)
(* types and two values, arrays with a common element, and tables that nest  *)
(* the same again, so that every pair of kinds meets at the top, below it    *)
(* and, for scalars and tables, one level deeper.                            *)
EXTENDS Merging, TLC

MCScalars == {Scalar("integer", "1"), Scalar("integer", "2"),
              Scalar("string", "s")}

Leaves == MCScalars \cup {Array(<<"x">>), Array(<<"y", "x">>)}

With1(key, value) == Table([k \in Keys |-> IF k = key THEN value ELSE absent])

Inner == {With1("a", leaf) : leaf \in Leaves}
            \cup {With1("b", With1("a", Scalar("integer", "1"))),
                  With1("b", With1("b", Scalar("integer", "2"))),
                  With1("a", With1("a", Scalar("string", "s")))}

MCDocuments == {With1("a", value) : value \in Leaves \cup Inner}
                  \cup {With1("b", Scalar("string", "s")),
                        Table(("a" :> Scalar("integer", "2"))
                              @@ ("b" :> Array(<<"y">>)))}
=============================================================================
