----------------------------- MODULE MCInterop -----------------------------
(***************************************************************************)
(* Small schemas and values for Interop.  With Base 4 a length of 3 or     *)
(* more takes the long form.                                               *)
(***************************************************************************)
EXTENDS Interop

Field(label, type) == [label |-> label, type |-> type, key |-> "bool"]

MCMessages ==
  [Leaf |-> <<Field("one", "int32")>>,
   Empty |-> <<>>,
   Runs |-> <<Field("one", "bool"), Field("one", "enum"), Field("one", "string"),
              Field("one", "bool")>>,
   Wide |-> <<Field("one", "Empty"), Field("one", "int64"), Field("one", "bool")>>,
   Opts |-> <<Field("optional", "int64"), Field("optional", "bytes"),
              Field("optional", "Leaf"), Field("optional", "Empty")>>,
   Lists |-> <<Field("repeated", "enum"), Field("repeated", "Leaf")>>,
   Dict |-> <<Field("one", "Leaf"), Field("map", "string")>>,
   Blobs |-> <<Field("map", "bytes")>>,
   Tags |-> <<Field("map", "enum")>>,
   Node |-> <<Field("one", "bool"), Field("one", "Node")>>,
   Chain |-> <<Field("optional", "string"), Field("optional", "Chain")>>]

RECURSIVE Nest(_, _, _)
\* n nested messages, each a field's value and the next message.
Nest(n, v, last) == IF n = 0 THEN last ELSE << <<v, Nest(n - 1, v, last)>> >>

MCValues(m) ==
  CASE m = "Leaf" -> {<<0>>, <<7>>}
    [] m = "Blobs" -> {<< << <<TRUE, <<1>>>> >> >>}
    [] m = "Tags" -> {<< << <<TRUE, 1>> >> >>}
    [] m = "Runs" -> {<<FALSE, 0, <<>>, TRUE>>, <<TRUE, 228, <<1, 2, 3>>, TRUE>>,
                      <<TRUE, 3, <<1, 0>>, FALSE>>,
                      <<TRUE, 1, <<1, 2, 1>>, FALSE>>, <<FALSE, 1, <<2, 1>>, TRUE>>}
    [] m = "Wide" -> {<< <<>>, 0, FALSE>>, << << <<>> >>, 65535, TRUE>>}
    [] m = "Opts" -> {ZeroMessage("Opts"),
                      << <<0>>, << <<>> >>, << <<0>> >>, << <<>> >> >>,
                      << <<500>>, << <<1, 2, 3>> >>, <<>>, <<>> >>,
                      << <<>>, << <<3>> >>, << <<7>> >>, <<>> >>}
    [] m = "Lists" -> {ZeroMessage("Lists"),
                       << <<1, 0>>, << << <<9>> >> >> >>,
                       << <<>>, << <<>>, << <<255>> >> >> >>,
                       << <<1, 1, 1>>, <<>> >>}
    [] m = "Dict" -> {ZeroMessage("Dict"),
                      << << <<5>> >>, << <<FALSE, <<1>>>>, <<TRUE, <<1, 2>>>> >> >>,
                      << << <<0>> >>, << <<TRUE, <<>>>> >> >>,
                      << <<>>, << <<FALSE, <<2, 1>>>> >> >>}
    [] m = "Node" -> {Nest(n, TRUE, <<>>)[1] : n \in 1..4}
    [] m = "Chain" -> {Nest(n, <<>>, <<>>)[1] : n \in {1, 3, 4}}
                      \cup {Nest(2, << <<1>> >>, <<>>)[1]}
=============================================================================
