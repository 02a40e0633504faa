------------------------------ MODULE UnpackBootimg ------------------------------
(***************************************************************************)
(* tools/unpack_bootimg.py: read a header field by field, work out where   *)
(* the parts must be from their sizes alone, copy each into the output     *)
(* directory, link the ramdisks of a version-4 vendor_boot by name, and    *)
(* print the command line that builds the image again.                     *)
(***************************************************************************)
EXTENDS BootFormat

Name == info.image                   \* the image being unpacked
Source == disk[Name]
Magic(img) == img.fields[1].v
IsBoot(img) == Magic(img) = "ANDROID!"

-------------------------------------------------------------------------------
(* unpack_boot_image(): the header                                             *)

\* The fields a version reads before it looks at anything else.
HeaderFields(version) ==
    CASE version = 0 -> 15 [] version = 1 -> 18 [] version = 2 -> 20
      [] version = 3 -> 11 [] OTHER -> 12

\* struct.unpack() raises when the file ends before a field does; header_version
\* is the tenth field of every version.
BootHeaderReadable(f) ==
    /\ Len(f) >= 10
    /\ Len(f) >= HeaderFields(f[10].v)
    /\ IF f[10].v < 3 THEN Decodes(f[13].v) /\ Decodes(f[15].v) ELSE Decodes(f[11].v)

decode_os_version(n) == format_os_version(n \div 2048)
decode_os_patch_level(n) == format_os_patch_level(n % 2048)

BootInfo(f) ==
    LET version == f[10].v
        old == version < 3
        dtbo == version \in {1, 2}
        os == IF old THEN f[11].v ELSE f[4].v
    IN  [header_version |-> version,
         page_size |-> IF old THEN f[9].v ELSE BOOT_IMAGE_HEADER_V3_PAGESIZE,
         kernel_size |-> f[2].v, ramdisk_size |-> IF old THEN f[4].v ELSE f[3].v,
         second_size |-> IF old THEN f[6].v ELSE 0,
         load |-> IF old THEN <<f[3].v, f[5].v, f[7].v, f[8].v>> ELSE <<0, 0, 0, 0>>,
         os_version |-> decode_os_version(os), os_patch_level |-> decode_os_patch_level(os),
         product_name |-> IF old THEN f[12].v ELSE 0,
         cmdline |-> IF old THEN [f[13].v EXCEPT !.to = f[15].v.to] ELSE f[11].v,
         recovery_dtbo_size |-> IF dtbo THEN f[16].v ELSE 0,
         recovery_dtbo_offset |-> IF dtbo THEN f[17].v ELSE 0,
         dtb_size |-> IF version = 2 THEN f[19].v ELSE 0,
         dtb_load_address |-> IF version = 2 THEN f[20].v ELSE 0,
         boot_signature_size |-> IF version >= 4 THEN f[12].v ELSE 0]

\* unpack_boot_image(): image_info_list, as offset, size and name
Item(off, size, name) == <<[off |-> off, size |-> size, name |-> name]>>
ItemIf(condition, off, size, name) == IF condition THEN Item(off, size, name) ELSE << >>

BootImageList(h) ==
    LET pages(size) == get_number_of_pages(size, h.page_size)
        kernel == pages(h.kernel_size)
        ramdisk == pages(h.ramdisk_size)
        second == pages(h.second_size)
    IN  Item(h.page_size, h.kernel_size, "kernel")
        \o Item(h.page_size * (1 + kernel), h.ramdisk_size, "ramdisk")
        \o ItemIf(h.second_size > 0, h.page_size * (1 + kernel + ramdisk),
                  h.second_size, "second")
        \o ItemIf(h.recovery_dtbo_size > 0, h.recovery_dtbo_offset,
                  h.recovery_dtbo_size, "recovery_dtbo")
        \o ItemIf(h.dtb_size > 0,
                  h.page_size * (1 + kernel + ramdisk + second + pages(h.recovery_dtbo_size)),
                  h.dtb_size, "dtb")
        \o ItemIf(h.boot_signature_size > 0, h.page_size * (1 + kernel + ramdisk),
                  h.boot_signature_size, "boot_signature")

-------------------------------------------------------------------------------
(* unpack_vendor_boot_image(): the header and the table                        *)

VendorHeaderReadable(f) ==
    Len(f) >= 12 /\ (f[2].v > 3 => Len(f) >= 16)

\* vendor_ramdisk_table_offset
TableOffset(f) ==
    LET pages(size) == get_number_of_pages(size, f[3].v)
    IN  f[3].v * (pages(f[10].v) + pages(f[6].v) + pages(f[11].v))

\* Every entry the header counts is read to its last byte before anything is extracted.
TableReadable(img) ==
    LET f == img.fields
    IN  f[2].v > 3 =>
          \A i \in 1..f[14].v :
            TableOffset(f) + f[15].v * (i - 1) + VENDOR_RAMDISK_TABLE_ENTRY_V4_SIZE <= img.len

\* The bytes of a table entry, when the offset is one's.
EntryAt(img, off) ==
    LET hits == {i \in DOMAIN img.table :
                   img.table_off + (i - 1) * VENDOR_RAMDISK_TABLE_ENTRY_V4_SIZE = off}
    IN  IF hits # {} THEN img.table[CHOOSE i \in hits : TRUE]
        ELSE [size |-> 0, offset |-> 0, type |-> 0, name |-> "other", board_id |-> 0]

VendorInfo(img) ==
    LET f == img.fields
    IN  [header_version |-> f[2].v, page_size |-> f[3].v,
         load |-> <<f[4].v, f[5].v, 0, f[8].v>>, vendor_ramdisk_size |-> f[6].v,
         cmdline |-> f[7].v, product_name |-> f[9].v, header_size |-> f[10].v,
         dtb_size |-> f[11].v, dtb_load_address |-> f[12].v,
         table_size |-> IF f[2].v > 3 THEN f[13].v ELSE 0,
         bootconfig_size |-> IF f[2].v > 3 THEN f[16].v ELSE 0,
         table |-> IF f[2].v <= 3 THEN << >>
                   ELSE [i \in 1..f[14].v |-> EntryAt(img, TableOffset(f) + f[15].v * (i - 1))]]

VendorImageList(h) ==
    LET pages(size) == get_number_of_pages(size, h.page_size)
        header == pages(h.header_size)
        ramdisk == pages(h.vendor_ramdisk_size)
        dtb == pages(h.dtb_size)
    IN  (IF h.header_version > 3
         THEN [i \in DOMAIN h.table |->
                 [off |-> h.page_size * header + h.table[i].offset,
                  size |-> h.table[i].size, name |-> RamdiskFile[i]]]
              \o Item(h.page_size * (header + ramdisk + dtb + pages(h.table_size)),
                      h.bootconfig_size, "bootconfig")
         ELSE Item(h.page_size * header, h.vendor_ramdisk_size, "vendor_ramdisk"))
        \o ItemIf(h.dtb_size > 0, h.page_size * (header + ramdisk), h.dtb_size, "dtb")

-------------------------------------------------------------------------------
(* The run                                                                     *)

Readable(img) ==
    /\ Len(img.fields) >= 1
    /\ IF IsBoot(img) THEN BootHeaderReadable(img.fields)
       ELSE VendorHeaderReadable(img.fields) /\ TableReadable(img)

\* Everything is read before anything is written.
ReadHeader ==
    /\ pc = "unpack"
    /\ IF ~Readable(Source)
       THEN pc' = "idle" /\ ret' = "error" /\ info' = None /\ UNCHANGED todo
       ELSE LET h == IF IsBoot(Source) THEN BootInfo(Source.fields) ELSE VendorInfo(Source)
            IN  /\ info' = [image |-> Name, header |-> h, of |-> Source, job |-> made[Name]]
                /\ todo' = IF IsBoot(Source) THEN BootImageList(h) ELSE VendorImageList(h)
                /\ pc' = "extract"
                /\ UNCHANGED ret
    /\ UNCHANGED <<mk, disk, made, outdir, links, builds, unpacks>>

\* extract_image(), for the first that is left
ExtractImage ==
    /\ pc = "extract" /\ todo # << >>
    /\ LET t == Head(todo) IN outdir' = [outdir EXCEPT ![t.name] = Read(Source, t.off, t.size)]
    /\ todo' = Tail(todo)
    /\ UNCHANGED <<pc, ret, mk, disk, made, info, links, builds, unpacks>>

\* Mutant: a link that is there is left as it is.
LinkedOnce(table) ==
    [n \in DOMAIN links \cup {table[i].name : i \in DOMAIN table} |->
       IF n \in DOMAIN links THEN links[n]
       ELSE RamdiskFile[CHOOSE i \in DOMAIN table : table[i].name = n]]

\* Mutant: link and target are swapped.
LinkedSwapped(table) ==
    [n \in DOMAIN links \cup {RamdiskFile[i] : i \in DOMAIN table} |->
       IF \E i \in DOMAIN table : RamdiskFile[i] = n
       THEN table[CHOOSE i \in DOMAIN table : RamdiskFile[i] = n].name
       ELSE links[n]]

\* The links by name: one that is there is replaced, the others stay.
Linked(table) ==
    [n \in DOMAIN links \cup {table[i].name : i \in DOMAIN table} |->
       IF \E i \in DOMAIN table : table[i].name = n
       THEN RamdiskFile[CHOOSE i \in DOMAIN table : table[i].name = n]
       ELSE links[n]]

LinkAndPrint ==
    /\ pc = "extract" /\ todo = << >>
    /\ links' = IF ~IsBoot(Source) /\ info.header.header_version > 3
                THEN Linked(info.header.table) ELSE links
    /\ pc' = "idle" /\ ret' = "ok"
    /\ UNCHANGED <<mk, disk, made, info, todo, outdir, builds, unpacks>>

UnpackStep == ReadHeader \/ ExtractImage \/ LinkAndPrint

-------------------------------------------------------------------------------
(* format_mkbootimg_argument(): addresses become offsets from a base of zero,  *)
(* files are those now in the output directory.                                *)

\* Mutant: a part is named whether the image has it or not.
FileIfAny(condition, name) == outdir[name]
FileIf(condition, name) == IF condition THEN outdir[name] ELSE None

BootArguments(h) ==
    [Defaults EXCEPT
       !.header_version = h.header_version, !.os_version = h.os_version,
       !.os_patch_level = h.os_patch_level,
       !.kernel = outdir["kernel"], !.ramdisk = outdir["ramdisk"], !.cmdline = h.cmdline,
       !.output = "repacked.img"]

\* The base the image was built with is in its addresses.
\* Mutant: it is added again.
PrintedBaseAgain == Defaults.base
PrintedBase == 0

OldBootArguments(h) ==
    [BootArguments(h) EXCEPT
       !.second = FileIf(h.second_size > 0, "second"),
       !.recovery_dtbo = FileIf(h.recovery_dtbo_size > 0, "recovery_dtbo"),
       !.dtb = FileIf(h.dtb_size > 0, "dtb"), !.pagesize = h.page_size, !.base = PrintedBase,
       !.kernel_offset = h.load[1], !.ramdisk_offset = h.load[2],
       !.second_offset = h.load[3], !.tags_offset = h.load[4],
       !.dtb_offset = IF h.header_version = 2 THEN h.dtb_load_address ELSE @,
       !.board = h.product_name]

VendorArguments(h) ==
    [Defaults EXCEPT
       !.header_version = h.header_version, !.pagesize = h.page_size, !.base = PrintedBase,
       !.kernel_offset = h.load[1], !.ramdisk_offset = h.load[2], !.tags_offset = h.load[4],
       !.dtb_offset = h.dtb_load_address, !.vendor_cmdline = h.cmdline,
       !.board = h.product_name, !.dtb = FileIf(h.dtb_size > 0, "dtb"),
       !.vendor_bootconfig = FileIf(h.header_version > 3, "bootconfig"),
       !.vendor_ramdisk = FileIf(h.header_version <= 3, "vendor_ramdisk"),
       !.fragments = [i \in DOMAIN h.table |->
                        [file |-> outdir[RamdiskFile[i]], type |-> h.table[i].type,
                         name |-> h.table[i].name, board_id |-> h.table[i].board_id]],
       !.vendor_boot = "repacked.img"]

format_mkbootimg_argument ==
    IF IsBoot(info.of)
    THEN IF info.header.header_version <= 2 THEN OldBootArguments(info.header)
         ELSE BootArguments(info.header)
    ELSE VendorArguments(info.header)
===============================================================================
