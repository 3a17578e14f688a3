---------------------------- MODULE MCTsRuntimes ----------------------------
(***************************************************************************)
(* Small instances of TsRuntimes: fields at the limits of their types, and *)
(* texts of every encoding, empty, short, as long as a fast path or the    *)
(* one-byte length takes, and longer.                                      *)
(***************************************************************************)
EXTENDS TsRuntimes

One(n, t, v) == [n |-> n, t |-> t, many |-> FALSE, v |-> v]
List(t, v) == [n |-> 1, t |-> t, many |-> TRUE, v |-> v]

Numbers ==
  <<One(1, "bool", TRUE), One(1, "int32", -1), One(1, "int64", -2), One(1, "int64", 5),
    One(1, "uint32", 4095), One(1, "uint64", 9), One(1, "float32", 77),
    One(1, "float64", 300)>>

SomeTexts ==
  <<One(1, "string", <<>>), One(1, "string", <<1, 2>>), One(1, "string", <<4>>),
    One(1, "string", <<7, 1>>), One(1, "string", <<1, 2, 3, 0, 1, 2>>),
    One(1, "string", <<1, 2, 3, 0, 1, 2, 3>>)>>

Lists ==
  <<List("int32", <<3, -4>>), List("string", <<<<>>, <<2>>>>),
    List("string", <<<<1>>, <<4>>>>), List("bool", <<>>), List("string", <<<<7>>>>)>>

Blobs ==
  <<One(1, "bytes", <<1, 7>>), One(1, "message", <<>>),
    List("bytes", <<<<3>>, <<>>>>), List("pair", <<<<<<1>>, <<2, 3>>>>, <<<<>>, <<4>>>>>>)>>

Base64Texts == <<One(1, "base64", <<5>>), One(1, "not_base64", <<6, 2, 5>>)>>

\* A double and a text of two bytes do not fit beside other fields in a slab.
MCFields(kind) ==
  CASE kind \in {"index", "browser", "node"} ->
         Numbers \o SomeTexts \o Lists \o Blobs \o (IF kind = "node" THEN <<>> ELSE Base64Texts)
           \o <<One(1, "int32", 2048), List("int32", <<1, 2048>>)>>
    [] kind = "hybrid" -> Numbers \o SomeTexts \o <<One(1, "bytes", <<1, 7>>)>>
    [] kind = "jit" -> Numbers \o SomeTexts \o Lists \o <<One(1, "bytes", <<1, 7>>)>>
    [] kind = "browser_jit" -> Numbers \o SomeTexts \o <<One(1, "bytes", <<1, 7>>)>>
    [] kind \in {"hyper", "batch"} ->
         <<One(0, "bool", TRUE), One(0, "int32", -1), One(0, "int32", 2048), One(1, "sint32", -3),
           One(0, "sint32", 1024), One(1, "float32", 77), One(0, "float64", 300), One(1, "string", <<7, 4>>),
           One(0, "string", <<1, 2, 3, 1, 2>>), One(1, "bytes", <<1, 7>>), One(2, "bool", FALSE)>>
    [] kind = "unsafe" ->
         <<One(0, "bool", TRUE), One(1, "sint32", -3), One(0, "sint32", 1024), One(2, "int64", -70),
           One(1, "int64", Base^8 \div 2), One(1, "uint32", 4095), One(0, "uint64", 9),
           One(1, "uint64", -3), One(2, "uint64", Base^8 + 5), One(1, "float32", 77), One(0, "float64", 300),
           One(2, "string", <<1, 4>>), One(2, "string", <<4, 4, 4>>), One(0, "string", <<7, 4>>),
           One(1, "bytes", <<1, 7>>)>>
    [] kind = "collections" ->
         SubSeq(Lists, 1, 3) \o <<List("pair", <<<<<<1>>, <<2, 3>>>>, <<<<>>, <<3>>>>>>),
                    List("string", <<<<1, 2, 3, 0, 1, 2, 3>>>>), List("int32", <<>>)>>

MCInitialSize(kind) ==
  CASE kind \in {"jit", "browser_jit", "collections"} -> 14
    [] kind \in {"hyper", "unsafe"} -> 6
    [] kind = "batch" -> 17
    [] OTHER -> 4

Runtime(kind, transfer, base64, buffer) ==
  [kind |-> kind, transfer |-> transfer, base64 |-> base64, buffer |-> buffer]

\* An engine has transfer() and setFromBase64, the newer of the two, or neither.
MCRuntimes ==
  {Runtime("index", new, new, TRUE) : new \in BOOLEAN}
    \cup {Runtime("browser", FALSE, base64, FALSE) : base64 \in BOOLEAN}
    \cup {Runtime("jit", FALSE, FALSE, buffer) : buffer \in BOOLEAN}
    \cup {Runtime(kind, FALSE, FALSE, TRUE) : kind \in {"node", "hyper", "unsafe", "batch"}}
    \cup {Runtime("hybrid", TRUE, TRUE, TRUE), Runtime("browser_jit", FALSE, FALSE, FALSE),
          Runtime("collections", FALSE, FALSE, TRUE)}

MCPairs ==
  {"index"} \X {"index", "browser", "node", "hybrid", "jit", "jit_plain", "jit_browser", "browser_jit",
                "collections", "strings", "worker", "node_worker"}
    \cup {<<kind, kind>> : kind \in {"browser", "node", "hybrid", "jit", "browser_jit", "hyper",
                                     "unsafe", "batch", "collections"}}
    \cup {<<"jit", "jit_browser">>, <<"collections", "index">>}

JitOnly == {Runtime("jit", FALSE, FALSE, FALSE)}
JitPair == {<<"jit", "jit_browser">>}
HyperOnly == {Runtime("hyper", FALSE, FALSE, TRUE)}
HyperPair == {<<"hyper", "hyper">>}
=============================================================================
