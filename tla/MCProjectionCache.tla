-------------------------- MODULE MCProjectionCache --------------------------
(* Instances of ProjectionCache for TLC.                                   *)
EXTENDS ProjectionCache

all == {"artifacts", "index"}
tick == [kind |-> "tick", targets |-> all, quiet |-> TRUE]
navigate == [kind |-> "warm", targets |-> {"index"}, quiet |-> FALSE]
rebuild == [kind |-> "build", targets |-> all, quiet |-> FALSE]
delete == [kind |-> "delete", targets |-> all, quiet |-> FALSE]

Ticks == {tick}
AllCommands == {tick, navigate, rebuild, delete}
=============================================================================
