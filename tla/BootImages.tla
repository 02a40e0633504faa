------------------------------- MODULE BootImages -------------------------------
(***************************************************************************)
(* One user of mkbootimg.py and unpack_bootimg.py: images are built, taken *)
(* apart into one output directory, and built again from the command line  *)
(* that unpack_bootimg.py printed, in any order and over each other.       *)
(***************************************************************************)
EXTENDS Mkbootimg, UnpackBootimg

Init ==
    /\ pc = "idle" /\ ret = "ok"
    /\ job = Defaults
    /\ builder = [entries |-> << >>, total |-> 0]
    /\ disk = [n \in Image |-> Opened]
    /\ made = [n \in Image |-> None]
    /\ info = None /\ todo = << >>
    /\ outdir = [n \in OutFile |-> None] /\ links = [n \in {} |-> None]
    /\ builds = 0 /\ unpacks = 0

Build ==
    /\ pc = "idle" /\ builds < MaxBuilds
    /\ \E a \in IF builds = 0 THEN Jobs ELSE LaterJobs : job' = a
    /\ builds' = builds + 1 /\ pc' = "parse"
    /\ UNCHANGED <<ret, builder, disk, made, unpack, unpacks>>

Unpack ==
    /\ pc = "idle" /\ unpacks < MaxUnpacks
    /\ \E n \in Image : made[n] # None /\ info' = [image |-> n]
    /\ unpacks' = unpacks + 1 /\ pc' = "unpack"
    /\ UNCHANGED <<ret, mk, disk, made, todo, outdir, links, builds>>

\* The arguments were printed by the last run of unpack_bootimg.py; the files
\* they name have not been touched since.
Repack ==
    /\ pc = "idle" /\ info # None /\ info.image # "repacked.img"
    /\ job' = format_mkbootimg_argument
    /\ pc' = "parse"
    /\ UNCHANGED <<ret, builder, disk, made, unpack, builds, unpacks>>

Step == MkbootimgStep \/ UnpackStep
Next == Build \/ Unpack \/ Repack \/ Step
Spec == Init /\ [][Next]_vars

-------------------------------------------------------------------------------
(* Invariants                                                                  *)

FileOrNone(f) == f = None \/ f.size \in Nat
Text(t) == t.from \in Nat /\ t.to \in Nat /\ t.wide \in Nat

\* The variables have the values they are meant to have.
TypeOK ==
    /\ pc \in {"idle", "parse", "add_entry", "main", "vendor_header", "vendor_ramdisk",
               "vendor_ramdisks", "vendor_dtb", "vendor_table", "vendor_bootconfig", "output",
               "unpack", "extract"} \cup Part
    /\ ret \in {"ok", "error"}
    /\ Text(job.cmdline) /\ FileOrNone(job.kernel)
    /\ builder.total \in Nat
    /\ \A n \in Image :
         /\ disk[n].len \in Nat /\ disk[n].len >= Width(disk[n].fields)
         /\ \A c \in Chunks(disk[n]) : c.off \in Nat /\ FileOrNone(c.file)
         /\ made[n] = None \/ made[n].whole \in BOOLEAN
    /\ DOMAIN outdir = OutFile /\ \A n \in OutFile : FileOrNone(outdir[n])
    /\ \A n \in DOMAIN links : links[n] \in OutFile
    /\ builds \in 0..MaxBuilds /\ unpacks \in 0..MaxUnpacks

\* The last run was one of unpack_bootimg.py, and it succeeded; the job its
\* image was built by is a.
Unpacked == pc = "idle" /\ info # None
UnpackedWhole == Unpacked /\ info.job.whole

\* What a job has put into an image under a name; versions leave parts out.
PartsOf(a) ==
    [p \in Part |->
       CASE p = "kernel" -> a.kernel
         [] p = "ramdisk" -> a.ramdisk
         [] p = "second" /\ a.header_version <= 2 -> a.second
         [] p = "recovery_dtbo" /\ a.header_version \in {1, 2} -> a.recovery_dtbo
         [] p = "dtb" /\ a.header_version = 2 -> a.dtb
         [] OTHER -> None]

BytesOf(f) == IF filesize(f) = 0 THEN Empty ELSE f

\* Every file that was put into a boot image comes out of it again: its offset,
\* which unpack_boot_image() works out from page counts and mkbootimg.py from
\* where it happens to be in the output, is the same in every version and for
\* every mixture of parts that are present, absent, empty or unaligned.
BootRoundTrip ==
    UnpackedWhole /\ IsBoot(info.of) =>
        LET parts == PartsOf(info.job.job)
        IN  \A p \in Part : (p \in {"kernel", "ramdisk"} \/ filesize(parts[p]) > 0)
                               => outdir[p] = BytesOf(parts[p])

\* The same for a vendor_boot image: ramdisk fragments, which are packed without
\* padding and found by the offsets in the table behind them, the dtb, which is
\* behind them all, and the bootconfig behind the table.
VendorRoundTrip ==
    UnpackedWhole /\ ~IsBoot(info.of) =>
        LET a == info.job.job
            ramdisks == (IF a.vendor_ramdisk = None THEN << >> ELSE <<a.vendor_ramdisk>>)
                        \o [i \in DOMAIN a.fragments |-> a.fragments[i].file]
        IN  /\ outdir["dtb"] = a.dtb
            /\ IF a.header_version = 3
               THEN outdir["vendor_ramdisk"] = BytesOf(a.vendor_ramdisk)
               ELSE /\ outdir["bootconfig"] = BytesOf(a.vendor_bootconfig)
                    /\ Len(info.header.table) = Len(ramdisks)
                    /\ \A i \in DOMAIN ramdisks :
                         outdir[RamdiskFile[i]] = BytesOf(ramdisks[i])

\* An image that was signed, or whose recovery dtbo was an empty file, cannot be
\* built again from what is printed: no key is printed, and an empty part is not
\* named.
NotPrinted(a) ==
    \/ a.output # None /\ a.header_version = 4 /\ a.signature # "zeros"
    \/ a.header_version \in {1, 2} /\ a.recovery_dtbo # None /\ a.recovery_dtbo.size = 0

\* "vendor_boot.img and repacked.img would be equivalent" (get_unpack_usage()),
\* and boot.img as well: the image built from the printed arguments is the image
\* that was taken apart, byte for byte.
Rebuild ==
    Unpacked /\ info.image # "repacked.img" /\ job = format_mkbootimg_argument
        /\ info.job.whole /\ ~NotPrinted(info.job.job)
        => disk["repacked.img"] = info.of

\* An argument that is printed for an image never names a file that an earlier
\* image left in the output directory, which is never emptied.
NoStaleFile ==
    Unpacked =>
        LET a == format_mkbootimg_argument
            named == ({a.kernel, a.ramdisk, a.second, a.recovery_dtbo, a.dtb,
                       a.vendor_ramdisk, a.vendor_bootconfig}
                      \cup {a.fragments[i].file : i \in DOMAIN a.fragments}) \ {None}
        IN  \A f \in named : f \in {c.file : c \in Chunks(info.of)} \cup {Empty, Other}

\* After a version-4 vendor_boot, the link with the name of a ramdisk leads to that
\* ramdisk, whatever the directory held before.
LinksCurrent ==
    UnpackedWhole /\ ~IsBoot(info.of) /\ info.job.job.header_version = 4 =>
        \A i \in DOMAIN info.header.table :
            LET e == info.of.table[i]
            IN  e.name \in DOMAIN links /\ outdir[links[e.name]] = BytesOf(e.file)

\* A build that fails leaves an output unpack_bootimg.py refuses to read, whichever
\* pack() fails: a header that is cut is too short for its version, and a vendor_boot
\* that ends in its ramdisk table, behind a whole header, is refused because every entry
\* is read before a file is written.  Only a build that fails while signing leaves a
\* version-4 image that looks whole.
AcceptedMeansComplete ==
    Unpacked => info.job.whole \/ info.job.job.signature \in {"avbtool fails", "too long"}

\* The header size an image declares is the number of bytes before its padding,
\* for a boot image of version 1 to 4 and a vendor_boot image.
DeclaredHeaderSize ==
    \A n \in Image : made[n] # None /\ made[n].whole =>
        LET f == disk[n].fields
            declared == IF ~IsBoot(disk[n]) THEN f[10].v
                        ELSE IF f[10].v \in {1, 2} THEN f[18].v
                        ELSE IF f[10].v >= 3 THEN f[5].v ELSE 1632
        IN  declared = Width(f)
===============================================================================
