------------------------------ MODULE MCHartRun ------------------------------
(***************************************************************************)
(* A small HartRun: two pages of one superpage in two address spaces that  *)
(* share a second-level table, and two words.                              *)
(***************************************************************************)
EXTENDS HartRun, TLC

Leaf1(bits, ppn) ==
  [v |-> TRUE, r |-> "r" \in bits, w |-> "w" \in bits, x |-> "x" \in bits,
   u |-> "u" \in bits, g |-> "g" \in bits, ppn |-> ppn]

Table     == Leaf1({}, <<9, 2>>)
Super     == Leaf1({"r", "w"}, <<5, 0>>)
Unaligned == Leaf1({"r", "w"}, <<5, 1>>)
Kernel    == Leaf1({"r", "w"}, <<6, 0>>)
Shared    == Leaf1({"r", "w", "g"}, <<6, 1>>)
User      == Leaf1({"r", "x", "u"}, <<6, 1>>)
Code      == Leaf1({"x"}, <<6, 0>>)
Strange   == Leaf1({"w", "x"}, <<6, 0>>)

MCAsids  == {1, 2}
MCRoot   == 1 :> <<9, 0>> @@ 2 :> <<9, 1>>
MCPages  == {<<0, 0>>, <<0, 1>>}
MCFrames == {<<5, 0>>, <<5, 1>>, <<6, 0>>, <<6, 1>>}
MCPtes   == <<<<9, 0>>, 0>> :> {Table, Super, Unaligned} @@
            <<<<9, 2>>, 0>> :> {ZeroPte, Kernel, Shared, User, Code, Strange}
MCImages == {<<>>, <<<<9, 0>>, 0>> :> Table @@ <<<<9, 1>>, 0>> :> Table @@
                   <<<<9, 2>>, 0>> :> Kernel @@ <<<<9, 2>>, 1>> :> User}
In(kind, priv, bits) ==
  [kind |-> kind, priv |-> priv, sum |-> "sum" \in bits, mxr |-> "mxr" \in bits]

MCAccesses == {In("load", "S", {}), In("store", "S", {"sum"}), In("load", "S", {"sum", "mxr"}),
               In("store", "U", {}), In("load", "M", {})}

MCAmos   == {"swap", "add", "and", "or", "xor", "min", "max", "minu", "maxu"}
MCMaxRecords == [sv32 |-> 5, bare |-> 4]
MCHalves == 4 :> <<4, 6>> @@ 8 :> <<8, 10>>

=============================================================================
