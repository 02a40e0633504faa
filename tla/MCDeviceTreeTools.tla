---------------------------- MODULE MCDeviceTreeTools ----------------------------
EXTENDS DeviceTreeTools

\* "qcom,dr_mode", whose end is "dr_mode", "extcon", "compatible"
StringsBlock == <<112, 110, 111, 130, 131, 140>>
extcon == <<130, 131>>
MCNul == {111, 120, 123, 124, 131, 140, 150, 151, 201}
MCTreeNames == <<"dtb0", "dtb1", "dtb2", "dtb3", "dtb4", "dtb5", "dtb6", "dtb7", "dtb8", "dtb9">>
MCDtbLike == {"dtb"} \cup {MCTreeNames[k] : k \in DOMAIN MCTreeNames}

Node(name) == [kind |-> "node", name |-> name]
EndNode == [kind |-> "end"]
NopToken == [kind |-> "nop"]
Stop == [kind |-> "stop"]
Prop(off, name, len, val) ==
    [kind |-> "prop", off |-> off, name |-> name, len |-> len, val |-> val]
DrMode(len, val) == Prop(1, dr_mode, len, val)
Extcon(len, val) == Prop(3, extcon, len, val)
Compatible(len, val) == Prop(5, <<140>>, len, val)

\* A USB controller below the root, with a list of compatible texts
Plain == << Node(<<0>>), Compatible(8, <<150, 151>>),
            Node(<<200, 201>>), DrMode(4, otg), Extcon(4, <<1002>>), EndNode,
            EndNode, Stop >>
\* Values that look like tokens, blanks, an empty value, a value that is not a
\* whole number of cells, a text with a number behind it, and a dr_mode that is
\* something else
Decoys == << Node(<<0>>), Compatible(16, <<PROP, 4, 1, 120>>), NopToken,
             Node(<<201>>), Extcon(0, << >>), DrMode(5, <<124, 0>>), EndNode,
             Node(<<202, 0>>), DrMode(4, otg), Extcon(6, <<END, 1>>), DrMode(4, otg), EndNode,
             Prop(0, <<112, 110, 111>>, 4, otg), Compatible(8, <<152, 7>>), EndNode, Stop >>

Reserved == <<0, 7, 0, 9, 0, 0, 0, 0>>
NoReserved == <<0, 0, 0, 0>>

\* The usual layout, and one with the strings in front; more may follow the tree.
Header(total, struct, strings, size) ==
    << Magic, total, struct, strings, 10, 17, 16, 0, Len(StringsBlock), size >>
StructFirst(tree, rsv, more) ==
    LET s == Encode(tree)
        at == 10 + Len(rsv)
        total == at + Len(s) + Len(StringsBlock)
    IN  [cells |-> Header(total, at, at + Len(s), Len(s)) \o rsv \o s \o StringsBlock \o more,
         tree |-> tree]
StringsFirst(tree, rsv) ==
    LET s == Encode(tree)
        at == 10 + Len(rsv)
        total == at + Len(s) + Len(StringsBlock)
    IN  [cells |-> Header(total, at + Len(StringsBlock), at, Len(s))
                   \o rsv \o StringsBlock \o s,
         tree |-> tree]
\* A structure block that is not one: an unknown token, a node or a property that
\* is cut off, a name that is not in the strings, no END
Broken(block) ==
    [cells |-> Header(14 + Len(block), 14 + 6, 14, Len(block)) \o NoReserved
               \o StringsBlock \o block,
     tree |-> None]

P1 == StructFirst(Plain, NoReserved, << >>)
P2 == StructFirst(Decoys, Reserved, << >>)
P3 == StringsFirst(Plain, Reserved)
P4 == StructFirst(Plain, NoReserved, P2.cells)   \* with another tree behind it
Bytes(f) == 4 * Len(f.cells)
Junk == [cells |-> << Magic, 3 >>, tree |-> None]

Magics(pairs) == [off \in {p[1] : p \in pairs} |->
                    LET p == CHOOSE q \in pairs : q[1] = off
                    IN  [totalsize |-> p[2], file |-> p[3]]]
Partition(size, pairs) == [n |-> size, magic |-> Magics(pairs)]

\* Packed, and apart from each other, with a first size that is no multiple of
\* four: two bytes of padding, which make no cell
Packed == Partition(600, {<<16, Bytes(P1) + 2, P1>>, <<18 + Bytes(P1), Bytes(P2), P2>>})
Apart == Partition(500, {<<0, Bytes(P1) + 2, P1>>, <<256, Bytes(P3), P3>>})
Aligned == Partition(520, {<<8, Bytes(P2), P2>>, <<304, Bytes(P1), P1>>})
\* Magics that are no trees: too small, too large, cut off by the end
False == Partition(320, {<<4, 12, Junk>>, <<12, 304, Junk>>, <<64, Bytes(P1), P1>>,
                         <<240, 100, Junk>>, <<296, 64, Junk>>})
\* One inside another
Nested == Partition(400, {<<20, Bytes(P3), P3>>, <<100, 64, Junk>>, <<224, Bytes(P1), P1>>})

MCTargets == <<"dtbo", "boot">>
Parts(a, b) == [t \in {"dtbo", "boot"} |-> IF t = "dtbo" THEN a ELSE b]
Files(pairs) == [f \in {p[1] : p \in pairs} |-> (CHOOSE p \in pairs : p[1] = f)[2]]
NoFiles == Files({})
Setup(a, b, files) == [part |-> Parts(a, b), dir |-> files]

MCSetups ==
    { Setup(Packed, None, NoFiles), Setup(Apart, None, NoFiles),
      Setup(Aligned, False, NoFiles), Setup(None, Nested, NoFiles),
      Setup(None, None, Files({ <<<<"usb", "bin">>, P1>>, <<<<"old", "dtb">>, P4>> })),
      Setup(None, None, Files({
        <<<<"a", "dtb">>, Broken(<<BEGIN_NODE, 0, 7, END>>)>>,
        <<<<"b", "dtb">>, Broken(<<BEGIN_NODE, 202>>)>>,
        <<<<"c", "dtb">>, Broken(<<BEGIN_NODE, 0, PROP, 4>>)>>,
        <<<<"d", "dtb">>, Broken(<<PROP, 4, 9, 120, END>>)>>,
        <<<<"e", "dtb">>, Broken(<<BEGIN_NODE, 0, PROP, 9, 3, 1>>)>>,
        <<<<"f", "dtb">>, [cells |-> SubSeq(P1.cells, 1, 20), tree |-> None]>> })) }
MCPropNames == {extcon}
===================================================================================
