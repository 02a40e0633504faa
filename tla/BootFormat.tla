------------------------------- MODULE BootFormat -------------------------------
(***************************************************************************)
(* What tools/mkbootimg.py and tools/unpack_bootimg.py share: the boot and *)
(* vendor_boot image formats, the files on disk, and the variables of one  *)
(* user who runs the two scripts one after the other.                      *)
(*                                                                         *)
(* A file is known by its content (id) and its size.  An image is the list *)
(* of its header's fields with their widths, its length so far, and where  *)
(* each part that has bytes lies in it.                                    *)
(***************************************************************************)
EXTENDS Integers, Sequences

CONSTANTS
    None,          \* no file, no image, no such option
    Jobs,          \* command lines the user may give mkbootimg.py
    LaterJobs,     \* those of a second build in the same directories
    Max32,         \* 2^32, scaled: pack('I', v) raises when v >= Max32
    Max64,         \* 2^64, scaled as much: pack('Q', v) raises when v >= Max64
    LongNames,     \* ramdisk names that do not fit in 32 bytes with a NUL
    MaxBuilds,     \* bound: builds, repackings not counted
    MaxUnpacks     \* bound: runs of unpack_bootimg.py

BOOT_NAME_SIZE == 16
BOOT_ARGS_SIZE == 512
BOOT_EXTRA_ARGS_SIZE == 1024
VENDOR_BOOT_ARGS_SIZE == 2048
BOOT_IMAGE_HEADER_V3_PAGESIZE == 4096
BOOT_IMAGE_V4_SIGNATURE_SIZE == 4096
VENDOR_RAMDISK_TABLE_ENTRY_V4_SIZE == 108
PageSizes == {2048, 4096, 8192, 16384}

ASSUME BoundsAssumption ==
    Max32 \in Nat /\ Max64 \in Nat /\ MaxBuilds \in Nat /\ MaxUnpacks \in Nat

Image == {"boot.img", "vendor_boot.img", "repacked.img"}
Part == {"kernel", "ramdisk", "second", "recovery_dtbo", "dtb", "boot_signature",
         "vendor_ramdisk", "bootconfig"}
RamdiskFile == <<"vendor_ramdisk00", "vendor_ramdisk01", "vendor_ramdisk02">>
OutFile == Part \cup {RamdiskFile[i] : i \in DOMAIN RamdiskFile}

VARIABLES
    pc,       \* next step of the running script, "idle" between runs
    ret,      \* how the last run ended
    job,      \* the command line of mkbootimg.py
    builder,  \* VendorRamdiskTableBuilder: its entries and ramdisk_total_size
    disk,     \* the images
    made,     \* for each image, the job it was opened for and whether it is whole
    info,     \* what unpack_bootimg.py has read from a header
    todo,     \* image_info_list, without what has been extracted
    outdir,   \* the output directory
    links,    \* vendor-ramdisk-by-name in it: ramdisk name -> file name
    builds, unpacks

mk     == <<job, builder>>
unpack == <<info, todo, outdir, links>>
vars   == <<pc, ret, mk, disk, made, unpack, builds, unpacks>>

\* Two empty files have the same content.
Empty == [id |-> "empty", size |-> 0]
File == {Empty} \cup [id : STRING, size : Nat \ {0}]

\* filesize(): a file that is not given has no bytes.
filesize(f) == IF f = None THEN 0 ELSE f.size

get_number_of_pages(size, page) == (size + page - 1) \div page

\* pad_file(): the bytes from a position to the next multiple of padding.
PadLen(tell, padding) == (padding - (tell % padding)) % padding

Field(width, value) == [w |-> width, v |-> value]
Width(fields) ==
    LET sum[i \in 0..Len(fields)] == IF i = 0 THEN 0 ELSE sum[i - 1] + fields[i].w
    IN  sum[Len(fields)]

\* The options mkbootimg.py takes, with what each has when it is not given.
NoText == [from |-> 0, to |-> 0, wide |-> 0]
Defaults ==
    [header_version |-> 0, kernel |-> None, ramdisk |-> None, second |-> None,
     recovery_dtbo |-> None, dtb |-> None, cmdline |-> NoText, vendor_cmdline |-> 0,
     base |-> 268435456, kernel_offset |-> 32768, ramdisk_offset |-> 16777216,
     second_offset |-> 15728640, dtb_offset |-> 32505856, tags_offset |-> 256,
     os_version |-> None, os_patch_level |-> None, board |-> 0, pagesize |-> 2048,
     output |-> None, vendor_boot |-> None, vendor_ramdisk |-> None,
     vendor_bootconfig |-> None, fragments |-> << >>, signature |-> "zeros"]

\* An image that has just been opened for writing.
NoPart == [off |-> 0, file |-> None]
Opened == [fields |-> << >>, len |-> 0, at |-> [p \in Part |-> NoPart],
           ramdisks |-> << >>, table |-> << >>, table_off |-> 0]

\* The bytes [off, off + size) of an image are a part of it, or they are not
\* one file's bytes; reading behind the end yields less than was asked for.
Other == [id |-> "other", size |-> 0]
Chunks(img) == {img.at[p] : p \in Part} \cup {img.ramdisks[i] : i \in DOMAIN img.ramdisks}
Read(img, off, size) ==
    LET hits == {c \in Chunks(img) : c.file # None /\ c.off = off /\ c.file.size = size}
    IN  IF size = 0 \/ off >= img.len THEN Empty
        ELSE IF hits # {} THEN (CHOOSE c \in hits : TRUE).file
        ELSE Other

-------------------------------------------------------------------------------
(* Texts and versions.  A text is a stretch [from, to) of the bytes of what was *)
(* given; wide is the offset of the second byte of its one two-byte character,  *)
(* or 0.                                                                        *)

\* bytes.decode() fails on a stretch that starts or ends inside a character.
Decodes(text) == text.wide = 0 \/ (text.wide # text.from /\ text.wide # text.to)

parse_os_version(v) == IF v = None THEN 0 ELSE v[1] * 16384 + v[2] * 128 + v[3]
format_os_version(n) ==
    IF n = 0 THEN None ELSE <<n \div 16384, (n \div 128) % 128, n % 128>>
parse_os_patch_level(d) == IF d = None THEN 0 ELSE (d[1] - 2000) * 16 + d[2]
format_os_patch_level(n) == IF n = 0 THEN None ELSE <<n \div 16 + 2000, n % 16>>
-------------------------------------------------------------------------------
(* argparse gives every option a value of its type; no job names one file twice *)
(* as an output, and none has more ramdisks than there are names for them here. *)
(* ("" is a string, which the provers do not know.)                             *)
Typed(a) ==
    /\ DOMAIN a = DOMAIN Defaults
    /\ a.header_version \in Int
    /\ {a.kernel, a.ramdisk, a.second, a.recovery_dtbo, a.dtb, a.vendor_ramdisk,
        a.vendor_bootconfig} \subseteq File \cup {None}
    /\ {a.base, a.kernel_offset, a.ramdisk_offset, a.second_offset, a.dtb_offset,
        a.tags_offset} \subseteq Int
    /\ a.os_version \in (Nat \X Nat \X Nat) \cup {None}
    /\ a.os_patch_level \in (Nat \X Nat) \cup {None}
    /\ a.cmdline \in [from : {0}, to : Nat, wide : Nat]
    /\ a.output \in Image \cup {None} /\ a.vendor_boot \in Image \cup {None}
    /\ a.output = None \/ a.output # a.vendor_boot
    /\ a.fragments \in Seq([file : File, type : Int, name : {""} \cup STRING, board_id : Int])
    /\ Len(a.fragments) <= 3 /\ (a.vendor_ramdisk = None \/ Len(a.fragments) <= 2)

ASSUME JobsAssumption == \A a \in Jobs \cup LaterJobs : Typed(a)

\* No file, no option and no image is something else than one.
ASSUME NoneAssumption ==
    None \notin File \cup Image \cup (Nat \X Nat \X Nat) \cup (Nat \X Nat)
===============================================================================
