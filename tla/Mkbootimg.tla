-------------------------------- MODULE Mkbootimg --------------------------------
(***************************************************************************)
(* tools/mkbootimg.py: one run of main() per job, from parse_cmdline() on. *)
(* The output files are opened, and so emptied, while the command line is  *)
(* being parsed; every error after that leaves what has been written.      *)
(***************************************************************************)
EXTENDS BootFormat

Version == job.header_version
Outputs == {job.output, job.vendor_boot} \ {None}

Exit(how) == pc' = "idle" /\ ret' = how

Open(names) ==
    /\ disk' = [n \in Image |-> IF n \in names THEN Opened ELSE disk[n]]
    /\ made' = [n \in Image |-> IF n \in names THEN [job |-> job, whole |-> FALSE]
                                ELSE made[n]]

\* argparse's choices and AsciizBytes: a text and its NUL fit in their field,
\* or in the two fields of headers before version 3 with a NUL in each.
ArgumentsFit(a) ==
    /\ a.pagesize \in PageSizes
    /\ a.board < BOOT_NAME_SIZE
    /\ a.vendor_cmdline < VENDOR_BOOT_ARGS_SIZE
    /\ a.os_version # None => \A i \in 1..3 : a.os_version[i] < 128
    /\ a.os_patch_level # None =>
         a.os_patch_level[1] \in 2000..2127 /\ a.os_patch_level[2] \in 1..12
    /\ a.cmdline.to < BOOT_ARGS_SIZE + BOOT_EXTRA_ARGS_SIZE
                      - (IF a.header_version < 3 THEN 1 ELSE 0)

\* An error in one option leaves it open which others have been seen.
UsageError ==
    /\ pc = "parse"
    /\ ~ArgumentsFit(job)
    /\ \E names \in SUBSET Outputs : Open(names)
    /\ Exit("error")
    /\ UNCHANGED <<mk, unpack, builds, unpacks>>

\* Only a vendor_boot of version 4 knows the options of a ramdisk fragment.
ParseCmdline ==
    /\ pc = "parse"
    /\ ArgumentsFit(job)
    /\ Open(Outputs)
    /\ builder' = [entries |-> << >>, total |-> 0]
    /\ \/ /\ job.vendor_boot # None /\ Version > 3
          /\ pc' = "add_entry" /\ UNCHANGED ret
       \/ /\ job.vendor_boot = None \/ Version <= 3
          /\ IF job.fragments = << >> THEN pc' = "main" /\ UNCHANGED ret
             ELSE Exit("error")
    /\ UNCHANGED <<job, unpack, builds, unpacks>>

\* --vendor_ramdisk comes first, as an unnamed platform ramdisk.
Ramdisks ==
    (IF job.vendor_ramdisk = None THEN << >>
     ELSE <<[file |-> job.vendor_ramdisk, type |-> 1, name |-> "", board_id |-> 0]>>)
    \o job.fragments

Added == Len(builder.entries)

\* Names that parse_known_args() or add_entry() refuses, and ids that array('I') does.
Word(v) == v \in 0..(Max32 - 1)
Refused(r) ==
    \/ r.name \in LongNames \cup {"default"}
    \/ \E i \in 1..Added : builder.entries[i].name = r.name
    \/ ~Word(r.board_id)

\* One round of parse_vendor_ramdisk_args(), with VendorRamdiskTableBuilder.add_entry()
AddEntry ==
    /\ pc = "add_entry" /\ Added < Len(Ramdisks)
    /\ LET r == Ramdisks[Added + 1] IN
       IF Refused(r)
       THEN Exit("error") /\ UNCHANGED builder
       ELSE /\ builder' = [entries |-> Append(builder.entries,
                                         [size |-> r.file.size, offset |-> builder.total,
                                          type |-> r.type, name |-> r.name,
                                          board_id |-> r.board_id, file |-> r.file]),
                           total |-> builder.total + r.file.size]
            /\ UNCHANGED <<pc, ret>>
    /\ UNCHANGED <<job, disk, made, unpack, builds, unpacks>>

EntriesAdded ==
    /\ pc = "add_entry" /\ Added = Len(Ramdisks)
    /\ pc' = "main"
    /\ UNCHANGED <<ret, mk, disk, made, unpack, builds, unpacks>>

\* main(), up to the first byte of a vendor_boot image
CheckVendorBoot ==
    /\ pc = "main"
    /\ IF job.vendor_boot = None THEN pc' = "output" /\ UNCHANGED ret
       ELSE IF Version \notin {3, 4} \/ (Version = 3 /\ job.vendor_ramdisk = None)
            THEN Exit("error")
            ELSE pc' = "vendor_header" /\ UNCHANGED ret
    /\ UNCHANGED <<mk, disk, made, unpack, builds, unpacks>>

-------------------------------------------------------------------------------
(* Headers *)

\* pack('I', v) refuses a value that is negative or of more than 32 bits, pack('Q', v)
\* one of more than 64; of the eight-byte fields only the first, the magic, is no number.
Unfit(fields) ==
    {i \in DOMAIN fields :
       \/ fields[i].w = 4 /\ ~Word(fields[i].v)
       \/ fields[i].w = 8 /\ i > 1 /\ fields[i].v \notin 0..(Max64 - 1)}

\* Write a header, or its fields up to the one before an error.
PutHeader(name, fields, stop, page, next) ==
    LET bad == Unfit(fields) \cup stop
        cut == CHOOSE i \in bad : \A k \in bad : i <= k
        written == IF bad = {} THEN fields ELSE SubSeq(fields, 1, cut - 1)
        pad == IF bad = {} THEN PadLen(Width(written), page) ELSE 0
    IN  /\ disk' = [disk EXCEPT ![name] =
                      [@ EXCEPT !.fields = written, !.len = Width(written) + pad]]
        /\ IF bad = {} THEN pc' = next /\ UNCHANGED ret ELSE Exit("error")

VendorFields(a, b) ==
    << Field(8, "VNDRBOOT"), Field(4, a.header_version), Field(4, a.pagesize),
       Field(4, a.base + a.kernel_offset), Field(4, a.base + a.ramdisk_offset),
       Field(4, IF a.header_version > 3 THEN b.total ELSE filesize(a.vendor_ramdisk)),
       Field(VENDOR_BOOT_ARGS_SIZE, a.vendor_cmdline), Field(4, a.base + a.tags_offset),
       Field(BOOT_NAME_SIZE, a.board),
       Field(4, IF a.header_version > 3 THEN 2128 ELSE 2112),
       Field(4, filesize(a.dtb)), Field(8, a.base + a.dtb_offset) >>
    \o (IF a.header_version > 3
        THEN << Field(4, Len(b.entries) * VENDOR_RAMDISK_TABLE_ENTRY_V4_SIZE),
                Field(4, Len(b.entries)), Field(4, VENDOR_RAMDISK_TABLE_ENTRY_V4_SIZE),
                Field(4, filesize(a.vendor_bootconfig)) >>
        ELSE << >>)

\* write_vendor_boot_header(): an empty dtb is refused before anything else.
VendorHeader ==
    /\ pc = "vendor_header"
    /\ PutHeader(job.vendor_boot, VendorFields(job, builder),
                 IF filesize(job.dtb) = 0 THEN {1} ELSE {}, job.pagesize,
                 IF Version > 3 THEN "vendor_ramdisks" ELSE "vendor_ramdisk")
    /\ UNCHANGED <<mk, made, unpack, builds, unpacks>>

\* Mutant: the signature's size is not counted.
V3HeaderSizeUnsigned(a) == 1580
V3HeaderSize(a) == IF a.header_version > 3 THEN 1584 ELSE 1580

V3Fields(a) ==
    << Field(8, "ANDROID!"), Field(4, filesize(a.kernel)), Field(4, filesize(a.ramdisk)),
       Field(4, parse_os_version(a.os_version) * 2048
                + parse_os_patch_level(a.os_patch_level)),
       Field(4, V3HeaderSize(a)),
       Field(4, 0), Field(4, 0), Field(4, 0), Field(4, 0), Field(4, a.header_version),
       Field(BOOT_ARGS_SIZE + BOOT_EXTRA_ARGS_SIZE, a.cmdline) >>
    \o (IF a.header_version >= 4 THEN << Field(4, BOOT_IMAGE_V4_SIGNATURE_SIZE) >>
        ELSE << >>)

\* Mutant: the pages of the second bootloader are forgotten.
DtboOffsetWithoutSecond(a) ==
    a.pagesize * (1 + get_number_of_pages(filesize(a.kernel), a.pagesize)
                    + get_number_of_pages(filesize(a.ramdisk), a.pagesize))

\* The page the recovery dtbo starts at: behind the header, the kernel, the
\* ramdisk and the second bootloader.
get_recovery_dtbo_offset(a) ==
    a.pagesize * (1 + get_number_of_pages(filesize(a.kernel), a.pagesize)
                    + get_number_of_pages(filesize(a.ramdisk), a.pagesize)
                    + get_number_of_pages(filesize(a.second), a.pagesize))

\* update_sha(): a file that is not given counts as an empty one.
Hashed(f) == IF filesize(f) = 0 THEN Empty ELSE f

\* parse_cmdline() cuts the command line in two at the last byte of its field.
Cut(text) == IF text.to < BOOT_ARGS_SIZE - 1 THEN text.to ELSE BOOT_ARGS_SIZE - 1
cmdline(text) == [text EXCEPT !.to = Cut(text)]
extra_cmdline(text) == [text EXCEPT !.from = Cut(text)]

V0Fields(a) ==
    << Field(8, "ANDROID!"),
       Field(4, filesize(a.kernel)), Field(4, a.base + a.kernel_offset),
       Field(4, filesize(a.ramdisk)),
       Field(4, IF filesize(a.ramdisk) > 0 THEN a.base + a.ramdisk_offset ELSE 0),
       Field(4, filesize(a.second)),
       Field(4, IF filesize(a.second) > 0 THEN a.base + a.second_offset ELSE 0),
       Field(4, a.base + a.tags_offset), Field(4, a.pagesize), Field(4, a.header_version),
       Field(4, parse_os_version(a.os_version) * 2048
                + parse_os_patch_level(a.os_patch_level)),
       Field(BOOT_NAME_SIZE, a.board), Field(BOOT_ARGS_SIZE, cmdline(a.cmdline)),
       Field(32, <<Hashed(a.kernel), Hashed(a.ramdisk), Hashed(a.second)>>
                 \o (IF a.header_version > 0 THEN <<Hashed(a.recovery_dtbo)>> ELSE << >>)
                 \o (IF a.header_version > 1 THEN <<Hashed(a.dtb)>> ELSE << >>)),
       Field(BOOT_EXTRA_ARGS_SIZE, extra_cmdline(a.cmdline)) >>
    \o (IF a.header_version > 0
        THEN << Field(4, filesize(a.recovery_dtbo)),
                Field(8, IF a.recovery_dtbo = None THEN 0 ELSE get_recovery_dtbo_offset(a)),
                Field(4, IF a.header_version = 1 THEN 1648 ELSE 1660) >>
        ELSE << >>)
    \o (IF a.header_version > 1
        THEN << Field(4, filesize(a.dtb)), Field(8, a.base + a.dtb_offset) >>
        ELSE << >>)

\* main() and write_header(): a version-2 header is written up to the dtb's
\* size before an empty dtb is refused.
Header ==
    /\ pc = "output"
    /\ IF job.output = None
       THEN Exit("ok") /\ UNCHANGED disk
       ELSE IF Version > 4 \/ (job.second # None /\ Version > 2)
       THEN Exit("error") /\ UNCHANGED disk
       ELSE IF Version > 2
       THEN PutHeader(job.output, V3Fields(job), {}, BOOT_IMAGE_HEADER_V3_PAGESIZE, "kernel")
       ELSE PutHeader(job.output, V0Fields(job),
                      IF Version = 2 /\ filesize(job.dtb) = 0 THEN {19} ELSE {},
                      job.pagesize, "kernel")
    /\ UNCHANGED <<mk, made, unpack, builds, unpacks>>

-------------------------------------------------------------------------------
(* Data *)

\* Mutant: the padding is counted from the start of the part.
WritePaddedUnaligned(img, part, f, page) ==
    IF f = None THEN img
    ELSE [img EXCEPT !.at[part] = IF f.size = 0 THEN @ ELSE [off |-> img.len, file |-> f],
                     !.len = @ + f.size + (page - (f.size % page))]

\* write_padded_file()
WritePadded(img, part, f, page) ==
    IF f = None THEN img
    ELSE [img EXCEPT !.at[part] = IF f.size = 0 THEN @ ELSE [off |-> img.len, file |-> f],
                     !.len = @ + f.size + PadLen(@ + f.size, page)]

DataPage == IF Version > 2 THEN BOOT_IMAGE_HEADER_V3_PAGESIZE ELSE job.pagesize

\* One write_padded_file() of write_data(), if this version has the part.
WriteBoot(here, f, present, next) ==
    /\ pc = here
    /\ pc' = next
    /\ disk' = IF present
               THEN [disk EXCEPT ![job.output] = WritePadded(@, here, f, DataPage)]
               ELSE disk
    /\ UNCHANGED <<ret, mk, made, unpack, builds, unpacks>>

WriteKernel  == WriteBoot("kernel", job.kernel, TRUE, "ramdisk")
WriteRamdisk == WriteBoot("ramdisk", job.ramdisk, TRUE, "second")
WriteSecond  == WriteBoot("second", job.second, TRUE, "recovery_dtbo")
WriteDtbo    == WriteBoot("recovery_dtbo", job.recovery_dtbo, Version \in {1, 2}, "dtb")
WriteDtb     == WriteBoot("dtb", job.dtb, Version = 2, "boot_signature")

\* add_boot_image_signature() with what avbtool gives, padded with zeros to its
\* full size, or zeros alone when there is no key.
Signature == [id |-> job.signature, size |-> BOOT_IMAGE_V4_SIGNATURE_SIZE]
AddBootImageSignature ==
    /\ pc = "boot_signature"
    /\ IF Version >= 4 /\ job.signature \in {"avbtool fails", "too long"}
       THEN Exit("error") /\ UNCHANGED <<disk, made>>
       ELSE /\ Exit("ok")
            /\ made' = [made EXCEPT ![job.output].whole = TRUE]
            /\ disk' = IF Version < 4 THEN disk
                       ELSE [disk EXCEPT ![job.output] =
                               WritePadded(@, "boot_signature", Signature, DataPage)]
    /\ UNCHANGED <<mk, unpack, builds, unpacks>>

\* The parts of a vendor_boot image, which pc names "vendor_..." while they wait.
WriteVendor(here, next, img) ==
    /\ pc = here
    /\ pc' = next
    /\ disk' = [disk EXCEPT ![job.vendor_boot] = img]
    /\ made' = IF next = "output" THEN [made EXCEPT ![job.vendor_boot].whole = TRUE]
               ELSE made
    /\ UNCHANGED <<ret, mk, unpack, builds, unpacks>>

Vendor == disk[job.vendor_boot]

WriteVendorRamdisk ==
    WriteVendor("vendor_ramdisk", "vendor_dtb",
                WritePadded(Vendor, "vendor_ramdisk", job.vendor_ramdisk, job.pagesize))

\* write_ramdisks_padded(): one behind the other, padding only at the end.
WriteRamdisksPadded ==
    WriteVendor("vendor_ramdisks", "vendor_dtb",
        [Vendor EXCEPT
           !.ramdisks = [i \in 1..Added |-> [off  |-> Vendor.len + builder.entries[i].offset,
                                             file |-> builder.entries[i].file]],
           !.len = @ + builder.total + PadLen(@ + builder.total, job.pagesize)])

WriteVendorDtb ==
    WriteVendor("vendor_dtb", IF Version > 3 THEN "vendor_table" ELSE "output",
                WritePadded(Vendor, "dtb", job.dtb, job.pagesize))

\* write_entries_padded(), when every type is one pack('I') takes; sizes and offsets
\* are at most the total, which the header has taken.
Unpackable == {i \in 1..Added : ~Word(builder.entries[i].type)}
WriteEntriesPadded ==
    LET size == Added * VENDOR_RAMDISK_TABLE_ENTRY_V4_SIZE IN
    /\ Unpackable = {}
    /\ WriteVendor("vendor_table", "vendor_bootconfig",
        [Vendor EXCEPT !.table = builder.entries, !.table_off = Vendor.len,
                       !.len = @ + size + PadLen(@ + size, job.pagesize)])

\* A table that ends behind the size and the offset of an entry.
\* Mutant: it is padded all the same.
CutTablePadded(img, entries, whole) ==
    LET size == whole * VENDOR_RAMDISK_TABLE_ENTRY_V4_SIZE + 8 IN
    [img EXCEPT !.table = SubSeq(entries, 1, whole), !.table_off = img.len,
                !.len = @ + size + PadLen(@ + size, job.pagesize)]
CutTable(img, entries, whole) ==
    [img EXCEPT !.table = SubSeq(entries, 1, whole), !.table_off = img.len,
                !.len = @ + whole * VENDOR_RAMDISK_TABLE_ENTRY_V4_SIZE + 8]

\* ... and when one is not: the entries before it and its own size and offset have
\* been written, behind a whole header, all ramdisks and the dtb.
WriteEntriesFails ==
    LET first == CHOOSE i \in Unpackable : \A k \in Unpackable : i <= k IN
    /\ pc = "vendor_table" /\ Unpackable # {}
    /\ disk' = [disk EXCEPT ![job.vendor_boot] = CutTable(@, builder.entries, first - 1)]
    /\ Exit("error")
    /\ UNCHANGED <<mk, made, unpack, builds, unpacks>>

WriteBootconfig ==
    WriteVendor("vendor_bootconfig", "output",
                WritePadded(Vendor, "bootconfig", job.vendor_bootconfig, job.pagesize))

MkbootimgStep ==
    \/ UsageError \/ ParseCmdline \/ AddEntry \/ EntriesAdded \/ CheckVendorBoot
    \/ VendorHeader \/ WriteVendorRamdisk \/ WriteRamdisksPadded \/ WriteVendorDtb
    \/ WriteEntriesPadded \/ WriteEntriesFails \/ WriteBootconfig
    \/ Header \/ WriteKernel \/ WriteRamdisk \/ WriteSecond \/ WriteDtbo \/ WriteDtb
    \/ AddBootImageSignature
===============================================================================
