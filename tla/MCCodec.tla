------------------------------ MODULE MCCodec ------------------------------
(* Batches of two; an id has four bits and a value or timestamp six.       *)
EXTENDS CodecProperties, TLC

\* Every type, with the values at the ends of its range.
MCOwnValues ==
    { <<"int", 31>>, <<"int", -32>>, <<"boolean", TRUE>>, <<"float", 2>>, <<"double", 3>>,
      <<"string", "s">>, <<"raw", "r">>, <<"rpc", "r">>, <<"boolean[]", <<TRUE, FALSE>> >>,
      <<"int[]", <<0, -32>> >>, <<"float[]", << >> >>, <<"double[]", <<3>> >>,
      <<"string[]", <<"s", "t">> >> }

\* The first message is any of them, two more follow it.
MCOwnMessages == << {-8, 7} \X MCOwnValues,
                    { <<7, <<"float[]", << >> >> >> },
                    { <<0, <<"string", "s">> >> } >>

Item(id, number, raw) == <<"array", << id, <<"int", 0>>, <<"int", number>>, raw >> >>

\* Accepted, among them what no peer with this codec would write.
Lenient ==
    { Item(<<"int", 1>>, 2, <<"int", 40>>), Item(<<"int", 1>>, 3, <<"f64", 5>>),
      Item(<<"int", 1>>, 1, <<"int", -3>>), Item(<<"int", 1>>, 3, <<"int", 3>>),
      Item(<<"int", 1>>, 19, <<"array", << <<"int", 1>>, <<"f64", 3>>, <<"f32", 2>> >> >>),
      Item(<<"int", -9>>, 0, <<"bool", TRUE>>), Item(<<"int", 1>>, 5, <<"bin", "r">>) }

\* Invalid in each field, and at the top.
Invalid ==
    { <<"nil">>, <<"int", 3>>,
      Item(<<"str", "s">>, 2, <<"int", 1>>), Item(<<"int", 40>>, 2, <<"int", 1>>),
      Item(<<"int", 1>>, 7, <<"int", 1>>), Item(<<"int", 1>>, 2, <<"f64", 1>>),
      Item(<<"int", 1>>, 4, <<"nil">>), Item(<<"int", 1>>, 5, <<"array", << >> >>),
      Item(<<"int", 1>>, 0, <<"int", 1>>), Item(<<"int", 1>>, 1, <<"str", "s">>),
      Item(<<"int", 1>>, 18, <<"array", << <<"int", 1>>, <<"str", "s">> >> >>),
      Item(<<"int", 1>>, 16, <<"bool", TRUE>>),
      <<"array", << <<"int", 1>>, <<"int", -1>> >> >>,
      <<"array", << <<"int", 1>>, <<"int", 0>>, <<"nil">> >> >> }

Short == { <<"array", << >> >>, <<"array", << <<"int", 1>>, <<"int", 0>>, <<"int", 2>> >> >> }

MCItems == << Lenient \cup Invalid \cup Short \cup {Partial},
              { Item(<<"int", 1>>, 2, <<"int", 40>>), <<"nil">>, <<"array", << >> >>, Partial } >>
=============================================================================
