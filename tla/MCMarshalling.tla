--------------------------- MODULE MCMarshalling ---------------------------
(***************************************************************************)
(* Small inputs: every kind of value, on its own, in a list and in a map;  *)
(* numbers of every width; texts around the bounds of an item's head; and  *)
(* buffers that are a few items long, so that some of what is written fits *)
(* the first and some does not.                                            *)
(***************************************************************************)
EXTENDS Marshalling

S(kind, atom) == Scalar(kind, atom)
M(kids) == Tree("Map", kids)
L(kids) == Tree("List", kids)
T(atom) == S("String", atom)

MCAtomBytes == ("" :> 0) @@ ("long" :> 30) @@ ("huge" :> 300)
MCWidth == [x \in {"1.5", "1.1f", "0.1", "2.0"} |->
              CASE x = "1.1f" -> "float" [] x = "0.1" -> "double" [] OTHER -> "half"]
MCKeyOrder == <<"a", "b", "c">>

Plain == {S("bool", "true"), S("int", "7"), S("double", "1.5"),
          S("double", "1.1f"), S("double", "0.1"), T(""), T("long"), T("huge"),
          S("Uint8List", "long")}

MCDbValues ==
  Plain \cup {S("null", "")} \cup {L(<<v, v>>) : v \in Plain}
  \cup {M(<<T("b"), v, T("a"), L(<<v>>)>>) : v \in Plain}
  \cup {M(<<T("c"), v, T("a"), M(<<T("b"), v, T("a"), v>>), T("b"), v>>) : v \in Plain}

Firestore ==
  {Tree("FirestoreTimestamp", <<S("int", "5"), S("int", "6")>>),
   Tree("FirestoreGeoPoint", <<S("double", "1.5"), S("double", "0.1")>>),
   Tree("FirestoreGeoPoint", <<S("double", "2.0"), S("double", "1.1f")>>),
   S("FirestoreReference", "long"), S("null", "")}
SentinelValues ==
  {S("delete", ""), S("serverTimestamp", ""),
   Tree("arrayUnion", <<S("double", "1.5"), T("a")>>),
   Tree("arrayRemove", <<T("a")>>),
   Tree("incrementInt", <<S("int", "7")>>),
   Tree("incrementDouble", <<S("double", "1.5")>>)}

MCDocuments ==
  {M(<<>>)}
  \cup {M(<<T("a"), v, T("b"), L(<<w, v>>)>>) : v \in Plain \cup Firestore,
                                                w \in {T("a"), S("double", "1.5")}}
  \cup {M(<<T("a"), M(<<T("c"), v>>)>>) : v \in Plain \cup Firestore}
  \cup {M(<<T("a"), v, T("b"), T("long")>>) : v \in SentinelValues}

MCMetadataSet ==
  [text : {<<<<"name", n>>, <<"contentType", t>>>> : n \in {"", "a", "huge"},
                                                     t \in {"", "long"}},
   number : {<<<<"sizeBytes", n>>, <<"updatedTime", t>>>> : n \in {"0", "7"},
                                                            t \in {"0", "7"}},
   custom : {<<>>, <<<<"a", "long">>>>, <<<<"a", "b">>, <<"b", "huge">>>>}]

MCQueryCalls ==
  {<<"orderBy", "child", "a">>, <<"orderBy", "key", "">>, <<"orderBy", "value", "">>,
   <<"startAt", "b", "">>, <<"startAt", "b", "c">>, <<"endAt", "b", "c">>,
   <<"equalTo", "b", "">>, <<"equalTo", "b", "c">>,
   <<"limitToFirst", "1", "">>, <<"limitToLast", "2", "">>, <<"limitToFirst", "0", "">>}

MCFsQueries ==
  [collectionGroup : BOOLEAN,
   where : {<<>>, <<<<"a", "==", S("double", "1.5")>>, <<"b", ">", T("a")>>>>,
            <<<<"__name__", "in", L(<<T("a")>>)>>>>, <<<<"__name__", ">", T("a")>>>>,
            <<<<"a", "in", T("a")>>>>, <<<<"a", "like", T("a")>>>>,
            <<<<"a/b", "==", T("a")>>>>},
   orderBy : {<<>>, <<<<"b", "desc">>, <<"a", "asc">>>>, <<<<"a/b", "asc">>>>},
   limit : {"", "2", "0", "2^31"},
   limitToLast : {"", "1"},
   startAt : {<<>>, <<T("a"), S("double", "1.5")>>},
   startAfter : {<<>>, <<T("b")>>},
   endAt : {<<>>, <<T("c")>>},
   endBefore : {<<>>, <<T("c")>>}]
OneOfEach(q) == /\ q.limit = "" \/ q.limitToLast = ""
                /\ q.startAt = <<>> \/ q.startAfter = <<>>
                /\ q.endAt = <<>> \/ q.endBefore = <<>>
MCFsQueriesOneOfEach == {q \in MCFsQueries : OneOfEach(q)}

Writes == {<<"set", "a", M(<<T("a"), S("double", "1.5")>>)>>,
           <<"merge", "a", M(<<T("b"), T("a")>>)>>,
           <<"update", "b", M(<<T("a"), S("delete", "")>>)>>,
           <<"delete", "a", S("null", "")>>}
MCBatches == {<<w>> : w \in Writes} \cup (Writes \X Writes)

Bodies == {Tree("Map", <<S("String", "a"), S("String", v)>>) : v \in {"b", "long", "huge"}}
Found == [id : {"id1"}, body : Bodies]
MCSmallResults == {<<>>} \cup {<<d>> : d \in {e \in Found : e.body.kids[2].atom = "b"}}
MCResults == {<<>>} \cup {<<d>> : d \in Found} \cup (Found \X Found)
=============================================================================
