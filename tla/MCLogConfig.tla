---------------------------- MODULE MCLogConfig -----------------------------
(* Two levels beside each other, names of up to two parts, and files that    *)
(* give each kind of reason to fail at the root, in a child and below it.    *)
EXTENDS LogConfig, TLC

MCNames == {<<"gdb">>, <<"gdb", "io">>, <<"tasarch">>}

R == <<>>
G == <<"gdb">>
I == <<"gdb", "io">>
T == <<"tasarch">>

MCFiles == {unparsable,
            R :> "trace",
            R :> "none" @@ G :> "trace" @@ I :> "info",
            R :> "trace" @@ G :> "none" @@ I :> "trace" @@ T :> "info",
            R :> "bad" @@ G :> "trace",
            R :> "trace" @@ G :> "info" @@ I :> "bad" @@ T :> "trace",
            R :> "trace" @@ G :> "scalar" @@ T :> "trace"}
=============================================================================
