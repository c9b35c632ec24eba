------------------------- MODULE MCStructuredCodec -------------------------
EXTENDS StructuredCodec, TLC

Plain(kind)    == [kind |-> kind, repeated |-> FALSE, type |-> "none"]
Many(kind)     == [kind |-> kind, repeated |-> TRUE, type |-> "none"]
Nested(type, repeated) == [kind |-> Message, repeated |-> repeated, type |-> type]

\* a message type with a scalar, a repeated string and children of two depths
MCSchema ==
    [root  |-> (1 :> Plain(Int32) @@ 2 :> Many(String) @@ 3 :> Nested("child", TRUE)
                @@ 4 :> Nested("child", FALSE)),
     child |-> (1 :> Plain(Int64) @@ 2 :> Plain(String))]

Field(id, values) == [op |-> "field", id |-> id, values |-> values]
Open(id, count)   == [op |-> "open", id |-> id, count |-> count]
End               == [op |-> "stop"]

\* a flat and a nested message, and messages that pass for control streams
MCMessages == {
    << Field(1, << <<5>> >>), Field(2, << <<6, 7>>, <<>>, <<8>> >>) >>,
    << Open(4, 1), Field(2, << <<8>> >>), End, Open(3, 2), Field(1, << <<1, 2>> >>), End,
       Field(1, << <<3, 4>> >>), Field(2, << <<7>> >>), End, End >>,
    << Field(2, << <<Magic, 1>>, <<2, 1>>, <<>> >>), Field(1, << <<4>> >>) >>,
    << Field(2, << <<Magic>>, <<9>>, <<>> >>), Field(1, << <<4>> >>) >>,
    << Field(2, << <<Magic, 1, 9>>, <<>>, <<>> >>), Field(1, << <<4>> >>) >>,
    << Open(3, 1), Field(2, << <<Magic, 3>> >>), End, End >> }

\* the rotations and the reversal of as many streams as these messages have
MCOrders == UNION { { [i \in 1..n |-> 1 + ((i + k) % n)] : k \in 1..n } \cup { [i \in 1..n |-> n + 1 - i] }
                    : n \in 4..7 }

=============================================================================
