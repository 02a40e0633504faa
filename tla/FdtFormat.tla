-------------------------------- MODULE FdtFormat --------------------------------
(***************************************************************************)
(* Flattened device trees as tools/carve-dtb.py, patch-drmode.py,          *)
(* patch-extcon.py and fdt2dts.py see them, the directory they work in,    *)
(* and the variables of one user who runs them one after the other.        *)
(*                                                                         *)
(* A tree is a sequence of big-endian 32-bit cells: a header of ten, whose *)
(* offsets and sizes are counted in cells here, then the reservation map,  *)
(* the structure block and the strings.  Cells below 100 stand for small   *)
(* numbers, those from 100 on for four characters, and those from 1000 on  *)
(* for numbers that are neither; Nul holds the texts that end in a cell.   *)
(***************************************************************************)
EXTENDS Integers, Sequences

CONSTANTS
    None,          \* no partition, or a file that is no device tree
    Setups,        \* partition dumps and files there may be at the start
    Targets,       \* the partitions carve-dtb.py looks for, in its order
    PropNames,     \* properties patch-extcon.py may be told to remove
    Nul,           \* cells of text with a NUL byte
    DtbLike,       \* parts of a file name, between dots, that start with dtb
    TreeNames,     \* the parts dtb0, dtb1, ... of the names of carved trees
    MinBlob, MaxBlob, \* 0x40 and 0x400000 bytes, scaled
    MaxRuns        \* bound: runs of the scripts

\* A tree is not smaller than the words the scan moves by.
ASSUME SizesAssumption == MinBlob \in Nat /\ MinBlob >= 4 /\ MaxBlob \in Nat /\ MaxRuns \in Nat

\* Cells are numbers, files sequences of them; every target has a dump or None.
IsFile(f) == f.cells \in Seq(Nat)
IsDump(p) ==
    /\ p.n \in Nat
    /\ DOMAIN p.magic \subseteq Nat
    /\ \A off \in DOMAIN p.magic :
         p.magic[off].totalsize \in Nat /\ IsFile(p.magic[off].file)

ASSUME TargetsAssumption == Targets \in Seq(STRING)
\* A tree is numbered by a part that starts with dtb, unlike what the patch scripts add.
ASSUME NamesAssumption ==
    /\ TreeNames \in Seq(DtbLike) /\ "dtb" \in DtbLike
    /\ \A j, k \in DOMAIN TreeNames : TreeNames[j] = TreeNames[k] => j = k
    /\ "periph" \notin DtbLike /\ "noextcon" \notin DtbLike
\* There are numbers for as many trees as a dump has room for.
ASSUME SetupsAssumption ==
    \A s \in Setups :
        /\ \A k \in DOMAIN Targets :
             \/ s.part[Targets[k]] = None
             \/ /\ IsDump(s.part[Targets[k]])
                /\ s.part[Targets[k]].n <= MinBlob * Len(TreeNames)
        /\ \A f \in DOMAIN s.dir : f \in Seq(STRING) /\ IsFile(s.dir[f])

VARIABLES
    pc, ret,       \* what runs and what is next; how the last run ended
    part,          \* partition -> [n, magic]: its size and, where the magic is
                   \* found, the size behind it and the file that starts there
    dir,           \* file name -> its cells, and the tree they are meant to be
                   \* (a ghost: a sequence of tokens, or None for no tree)
    dts,           \* file name -> the lines fdt2dts.py has written, of which tree
    index,         \* dtb-index.json: partition -> entries
    runs,
    file,          \* the file being worked on: its name, the output's, and its data
    pos,           \* position in it: cells of the structure block, bytes of a dump
    out,           \* what is to be written
    npatched,      \* properties changed
    depth,         \* indentation of the dump
    target, hits, summary  \* carve-dtb.py

walk == <<file, pos, out, npatched, depth>>
carving == <<target, hits, summary>>
vars == <<pc, ret, part, dir, dts, index, runs, walk, carving>>

Magic == 1001      \* 0xd00dfeed
BEGIN_NODE == 1
END_NODE == 2
PROP == 3
NOP == 4
END == 9

\* Places of the header's cells
TOTALSIZE == 2
OFF_STRUCT == 3
OFF_STRINGS == 4
OFF_RSVMAP == 5
SIZE_STRINGS == 9
SIZE_STRUCT == 10

\* data[from:to], which ends where the data does
Slice(data, from, to) == SubSeq(data, from + 1, IF to < Len(data) THEN to ELSE Len(data))

struct_blk(data) == Slice(data, data[OFF_STRUCT], data[OFF_STRUCT] + data[SIZE_STRUCT])
strings_blk(data) == Slice(data, data[OFF_STRINGS], data[OFF_STRINGS] + data[SIZE_STRINGS])

\* Numbers start with a NUL byte; a cell of text has one where the text ends.
HasNul(c) == c < 100 \/ c \in Nul

\* The places from one on where index(b'\0', ...) may stop, and the first.
NulsFrom(blk, from) == {k \in from + 1 .. Len(blk) : HasNul(blk[k])}
NulIndex(blk, from) == CHOOSE k \in NulsFrom(blk, from) :
                         \A other \in NulsFrom(blk, from) : k <= other

\* The cells a value of a number of bytes takes, with its padding
Words(length) == (length + 3) \div 4

Exit(how) == pc' = "idle" /\ ret' = how

\* open(), struct.unpack() of the header and the check of the magic
OpensAsTree(data) == Len(data) >= 10 /\ data[1] = Magic

Put(f, name, value) == [x \in DOMAIN f \cup {name} |-> IF x = name THEN value ELSE f[x]]
==================================================================================
