---------------------------- MODULE BootImagesProofs ----------------------------
(***************************************************************************)
(* The headers mkbootimg.py leaves on disk, for every set of jobs, every   *)
(* width of a field's value and any number of builds.                      *)
(*                                                                         *)
(* A header is written field by field up to the one pack() refuses, so an  *)
(* image either has a whole header or is CutShort: its header is shorter   *)
(* than its version's (ImagesInv).  One that is cut short cannot be read,  *)
(* because the version, which says how many fields are read, comes before  *)
(* the cut or not at all (CutNotReadable).  BootRoundTripProofs goes on to *)
(* what is behind the headers.                                             *)
(***************************************************************************)
EXTENDS BootImages, DataLemmas, TLAPS

\* A list of n fields
HasFields(f, n) == Len(f) = n /\ \E R : f \in Seq(R)

\* How long the tuples are that headers are put together from
LEMMA Tuple1 ==
  ASSUME NEW x1
  PROVE  HasFields(<<x1>>, 1)
<1>1. <<x1>> \in Seq({x1})
  OBVIOUS
<1>2. QED
  BY <1>1 DEF HasFields

\* The same for a tuple of 2
LEMMA Tuple2 ==
  ASSUME NEW x1, NEW x2
  PROVE  HasFields(<<x1, x2>>, 2)
<1>1. <<x1, x2>> \in Seq({x1, x2})
  OBVIOUS
<1>2. QED
  BY <1>1 DEF HasFields

\* The same for a tuple of 3
LEMMA Tuple3 ==
  ASSUME NEW x1, NEW x2, NEW x3
  PROVE  HasFields(<<x1, x2, x3>>, 3)
<1>1. <<x1, x2, x3>> \in Seq({x1, x2, x3})
  OBVIOUS
<1>2. QED
  BY <1>1 DEF HasFields

\* The same for a tuple of 4
LEMMA Tuple4 ==
  ASSUME NEW x1, NEW x2, NEW x3, NEW x4
  PROVE  HasFields(<<x1, x2, x3, x4>>, 4)
<1>1. <<x1, x2, x3, x4>> \in Seq({x1, x2, x3, x4})
  OBVIOUS
<1>2. QED
  BY <1>1 DEF HasFields

\* The same for a tuple of 11
LEMMA Tuple11 ==
  ASSUME NEW x1, NEW x2, NEW x3, NEW x4, NEW x5, NEW x6, NEW x7, NEW x8, NEW x9, NEW x10,
           NEW x11
  PROVE  HasFields(<<x1, x2, x3, x4, x5, x6, x7, x8, x9, x10, x11>>, 11)
<1>1. <<x1, x2, x3, x4, x5, x6, x7, x8, x9, x10, x11>> \in Seq({x1, x2, x3, x4, x5, x6, x7, x8,
         x9, x10, x11})
  OBVIOUS
<1>2. QED
  BY <1>1 DEF HasFields

\* The same for a tuple of 12
LEMMA Tuple12 ==
  ASSUME NEW x1, NEW x2, NEW x3, NEW x4, NEW x5, NEW x6, NEW x7, NEW x8, NEW x9, NEW x10,
           NEW x11, NEW x12
  PROVE  HasFields(<<x1, x2, x3, x4, x5, x6, x7, x8, x9, x10, x11, x12>>, 12)
<1>1. <<x1, x2, x3, x4, x5, x6, x7, x8, x9, x10, x11, x12>> \in Seq({x1, x2, x3, x4, x5, x6,
         x7, x8, x9, x10, x11, x12})
  OBVIOUS
<1>2. QED
  BY <1>1 DEF HasFields

\* The same for a tuple of 15
LEMMA Tuple15 ==
  ASSUME NEW x1, NEW x2, NEW x3, NEW x4, NEW x5, NEW x6, NEW x7, NEW x8, NEW x9, NEW x10,
           NEW x11, NEW x12, NEW x13, NEW x14, NEW x15
  PROVE  HasFields(<<x1, x2, x3, x4, x5, x6, x7, x8, x9, x10, x11, x12, x13, x14, x15>>, 15)
<1>1. <<x1, x2, x3, x4, x5, x6, x7, x8, x9, x10, x11, x12, x13, x14, x15>> \in Seq({x1, x2, x3,
         x4, x5, x6, x7, x8, x9, x10, x11, x12, x13, x14, x15})
  OBVIOUS
<1>2. QED
  BY <1>1 DEF HasFields

\* h starts like f, and goes on like g.
Agrees(h, f, n) == \A k \in 1..n : h[k] = f[k]
Follows(h, g, m, n) == \A k \in 1..n : h[m + k] = g[k]

\* A header is a fixed part and, in later versions, fields behind it.
LEMMA JoinFields ==
  ASSUME NEW m \in Nat, NEW n \in Nat, NEW f, NEW g, HasFields(f, m), HasFields(g, n)
  PROVE  HasFields(f \o g, m + n) /\ Agrees(f \o g, f, m) /\ Follows(f \o g, g, m, n)
<1>1. PICK P : f \in Seq(P)
  BY DEF HasFields
<1>2. PICK Q : g \in Seq(Q)
  BY DEF HasFields
<1>3. f \in Seq(P \cup Q) /\ g \in Seq(P \cup Q)
  BY <1>1, <1>2, SeqMonotone
<1>4. Len(f) = m /\ Len(g) = n
  BY DEF HasFields
<1>5. f \o g \in Seq(P \cup Q)
  BY <1>3
<1>6. QED
  BY <1>3, <1>4, <1>5 DEF HasFields, Agrees, Follows

\* A version that adds no fields adds none.
LEMMA NoFields == HasFields(<< >>, 0)
<1>1. << >> \in Seq({})
  OBVIOUS
<1>2. QED
  BY <1>1 DEF HasFields

\* The fields every version from 3 on has, and the one of version 4
V3Front(a) ==
    << Field(8, "ANDROID!"), Field(4, filesize(a.kernel)), Field(4, filesize(a.ramdisk)),
       Field(4, parse_os_version(a.os_version) * 2048
                + parse_os_patch_level(a.os_patch_level)),
       Field(4, V3HeaderSize(a)),
       Field(4, 0), Field(4, 0), Field(4, 0), Field(4, 0), Field(4, a.header_version),
       Field(BOOT_ARGS_SIZE + BOOT_EXTRA_ARGS_SIZE, a.cmdline) >>
V4Rest == << Field(4, BOOT_IMAGE_V4_SIGNATURE_SIZE) >>

\* write_header_v3_and_above(): as many fields as are read, its version the tenth
LEMMA V3Shape ==
  ASSUME NEW a, a.header_version \in 3..4
  PROVE  /\ HasFields(V3Fields(a), HeaderFields(a.header_version))
         /\ V3Fields(a)[1].v = "ANDROID!" /\ V3Fields(a)[10].v = a.header_version
         /\ Agrees(V3Fields(a), V3Front(a), 11)
         /\ a.header_version = 4 => Follows(V3Fields(a), V4Rest, 11, 1)
<1> DEFINE front == V3Front(a)
           rest == IF a.header_version >= 4 THEN V4Rest ELSE << >>
           n == IF a.header_version >= 4 THEN 1 ELSE 0
<1>1. V3Fields(a) = front \o rest
  BY DEF V3Fields, V3Front, V4Rest
<1>2. HasFields(rest, n) /\ n \in Nat
  BY NoFields, Tuple1 DEF V4Rest
<1>3. HeaderFields(a.header_version) = 11 + n
  BY DEF HeaderFields
<1>4. HasFields(front, 11) /\ 11 \in Nat
  BY Tuple11 DEF V3Front
<1>5. front[1].v = "ANDROID!" /\ front[10].v = a.header_version
  BY DEF Field, V3Front
<1>6. a.header_version = 4 => rest = V4Rest /\ n = 1
  OBVIOUS
<1> HIDE DEF rest, n, front
<1>7. /\ HasFields(front \o rest, 11 + n) /\ Agrees(front \o rest, front, 11)
      /\ Follows(front \o rest, rest, 11, n)
  BY <1>2, <1>4, JoinFields
<1>8. 1 \in 1..11 /\ 10 \in 1..11
  OBVIOUS
<1>9. /\ HasFields(V3Fields(a), HeaderFields(a.header_version))
      /\ V3Fields(a)[1].v = "ANDROID!" /\ V3Fields(a)[10].v = a.header_version
  BY <1>1, <1>3, <1>5, <1>7, <1>8 DEF Agrees
<1>10. QED
  BY <1>1, <1>6, <1>7, <1>9 DEF front

\* What is hashed
Sha(a) ==
    <<Hashed(a.kernel), Hashed(a.ramdisk), Hashed(a.second)>>
    \o (IF a.header_version > 0 THEN <<Hashed(a.recovery_dtbo)>> ELSE << >>)
    \o (IF a.header_version > 1 THEN <<Hashed(a.dtb)>> ELSE << >>)

\* The fields every version up to 2 has, and those of versions 1 and 2
V0Front(a) ==
    << Field(8, "ANDROID!"),
       Field(4, filesize(a.kernel)), Field(4, a.base + a.kernel_offset),
       Field(4, filesize(a.ramdisk)),
       Field(4, IF filesize(a.ramdisk) > 0 THEN a.base + a.ramdisk_offset ELSE 0),
       Field(4, filesize(a.second)),
       Field(4, IF filesize(a.second) > 0 THEN a.base + a.second_offset ELSE 0),
       Field(4, a.base + a.tags_offset), Field(4, a.pagesize), Field(4, a.header_version),
       Field(4, parse_os_version(a.os_version) * 2048
                + parse_os_patch_level(a.os_patch_level)),
       Field(BOOT_NAME_SIZE, a.board), Field(BOOT_ARGS_SIZE, cmdline(a.cmdline)),
       Field(32, Sha(a)), Field(BOOT_EXTRA_ARGS_SIZE, extra_cmdline(a.cmdline)) >>
V1Rest(a) ==
    << Field(4, filesize(a.recovery_dtbo)),
       Field(8, IF a.recovery_dtbo = None THEN 0 ELSE get_recovery_dtbo_offset(a)),
       Field(4, IF a.header_version = 1 THEN 1648 ELSE 1660) >>
V2Rest(a) == << Field(4, filesize(a.dtb)), Field(8, a.base + a.dtb_offset) >>

\* write_header() before version 3: as many fields as are read, its version the tenth
LEMMA V0Shape ==
  ASSUME NEW a, a.header_version \in 0..2
  PROVE  /\ HasFields(V0Fields(a), HeaderFields(a.header_version))
         /\ V0Fields(a)[1].v = "ANDROID!" /\ V0Fields(a)[10].v = a.header_version
         /\ Agrees(V0Fields(a), V0Front(a), 15)
         /\ a.header_version > 0 => Follows(V0Fields(a), V1Rest(a), 15, 3)
         /\ a.header_version = 2 => Follows(V0Fields(a), V2Rest(a), 18, 2)
<1> DEFINE front == V0Front(a)
           dtbo == IF a.header_version > 0 THEN V1Rest(a) ELSE << >>
           dtb == IF a.header_version > 1 THEN V2Rest(a) ELSE << >>
           m == IF a.header_version > 0 THEN 3 ELSE 0
           n == IF a.header_version > 1 THEN 2 ELSE 0
<1>1. V0Fields(a) = front \o dtbo \o dtb
  BY DEF V0Fields, V0Front, V1Rest, V2Rest, Sha
<1>2. HasFields(dtbo, m) /\ m \in Nat
  BY NoFields, Tuple3 DEF V1Rest
<1>3. HasFields(dtb, n) /\ n \in Nat
  BY NoFields, Tuple2 DEF V2Rest
<1>4. HeaderFields(a.header_version) = 15 + m + n
  BY DEF HeaderFields
<1>5. HasFields(front, 15) /\ 15 \in Nat
  BY Tuple15 DEF V0Front
<1>6. front[1].v = "ANDROID!" /\ front[10].v = a.header_version
  BY DEF Field, V0Front
<1>7. /\ a.header_version > 0 => m = 3 /\ dtbo = V1Rest(a)
      /\ a.header_version = 2 => m = 3 /\ n = 2 /\ dtb = V2Rest(a)
  OBVIOUS
<1> HIDE DEF front, dtbo, dtb, m, n
<1>8. /\ HasFields(front \o dtbo, 15 + m) /\ Agrees(front \o dtbo, front, 15)
      /\ Follows(front \o dtbo, dtbo, 15, m)
      /\ 15 + m \in Nat
  BY <1>2, <1>5, JoinFields
<1>9. /\ HasFields((front \o dtbo) \o dtb, 15 + m + n)
      /\ Agrees((front \o dtbo) \o dtb, front \o dtbo, 15 + m)
      /\ Follows((front \o dtbo) \o dtb, dtb, 15 + m, n)
  BY <1>3, <1>8, JoinFields
<1>10. \A k \in 1..15 : k \in 1..15 + m
  BY <1>2
<1>11. Agrees(V0Fields(a), front, 15)
  BY <1>1, <1>8, <1>9, <1>10 DEF Agrees
<1>12. 1 \in 1..15 /\ 10 \in 1..15
  OBVIOUS
<1>13. /\ HasFields(V0Fields(a), HeaderFields(a.header_version))
       /\ V0Fields(a)[1].v = "ANDROID!" /\ V0Fields(a)[10].v = a.header_version
  BY <1>1, <1>4, <1>6, <1>9, <1>11, <1>12 DEF Agrees
<1>14. ASSUME a.header_version > 0 PROVE Follows(V0Fields(a), V1Rest(a), 15, 3)
  <2>1. m = 3 /\ dtbo = V1Rest(a)
    BY <1>7, <1>14
  <2>2. \A k \in 1..3 : 15 + k \in 1..15 + m
    BY <2>1
  <2>3. \A k \in 1..3 : V0Fields(a)[15 + k] = (front \o dtbo)[15 + k]
    BY <1>1, <1>9, <2>2 DEF Agrees
  <2>4. \A k \in 1..3 : (front \o dtbo)[15 + k] = dtbo[k]
    BY <1>8, <2>1 DEF Follows
  <2>5. QED
    BY <2>1, <2>3, <2>4 DEF Follows
<1>15. ASSUME a.header_version = 2 PROVE Follows(V0Fields(a), V2Rest(a), 18, 2)
  <2>1. m = 3 /\ n = 2 /\ dtb = V2Rest(a) /\ 15 + m = 18
    BY <1>7, <1>15
  <2>2. QED
    BY <1>1, <1>9, <2>1
<1>16. QED
  BY <1>11, <1>13, <1>14, <1>15 DEF front

\* A negative version makes a header like version 0's, which pack() refuses at the tenth field.
LEMMA NegativeShape ==
  ASSUME NEW a, a.header_version \in Int, a.header_version < 0
  PROVE  /\ HasFields(V0Fields(a), 15)
         /\ V0Fields(a)[1].v = "ANDROID!" /\ V0Fields(a)[10].v = a.header_version
         /\ V0Fields(a)[10].w = 4 /\ V0Fields(a) = V0Front(a)
<1> DEFINE front == V0Front(a)
           dtbo == IF a.header_version > 0 THEN V1Rest(a) ELSE << >>
           dtb == IF a.header_version > 1 THEN V2Rest(a) ELSE << >>
<1>0. V0Fields(a) = front \o dtbo \o dtb
  BY DEF V0Fields, V0Front, V1Rest, V2Rest, Sha
<1>1. V0Fields(a) = front \o << >> \o << >>
  <2>1. dtbo = << >> /\ dtb = << >>
    OBVIOUS
  <2>2. QED
    BY <1>0, <2>1
<1>2. HasFields(front, 15) /\ 15 \in Nat
  BY Tuple15 DEF V0Front
<1>3. front[1].v = "ANDROID!" /\ front[10].v = a.header_version /\ front[10].w = 4
  BY DEF Field, V0Front
<1> HIDE DEF front
<1>4. front \o << >> = front
  BY <1>2 DEF HasFields
<1>5. V0Fields(a) = front
  BY <1>1, <1>4
<1>6. QED
  BY <1>2, <1>3, <1>5 DEF front

\* The number of fields of a vendor_boot header
VendorFull(version) == IF version > 3 THEN 16 ELSE 12

\* The fields every vendor_boot header has, and those of version 4
VendorFront(a, b) ==
    << Field(8, "VNDRBOOT"), Field(4, a.header_version), Field(4, a.pagesize),
       Field(4, a.base + a.kernel_offset), Field(4, a.base + a.ramdisk_offset),
       Field(4, IF a.header_version > 3 THEN b.total ELSE filesize(a.vendor_ramdisk)),
       Field(VENDOR_BOOT_ARGS_SIZE, a.vendor_cmdline), Field(4, a.base + a.tags_offset),
       Field(BOOT_NAME_SIZE, a.board),
       Field(4, IF a.header_version > 3 THEN 2128 ELSE 2112),
       Field(4, filesize(a.dtb)), Field(8, a.base + a.dtb_offset) >>
VendorRest(a, b) ==
    << Field(4, Len(b.entries) * VENDOR_RAMDISK_TABLE_ENTRY_V4_SIZE),
       Field(4, Len(b.entries)), Field(4, VENDOR_RAMDISK_TABLE_ENTRY_V4_SIZE),
       Field(4, filesize(a.vendor_bootconfig)) >>

\* write_vendor_boot_header(): as many fields as are read, its version the second
\* and, from version 4 on, the number of table entries the fourteenth
LEMMA VendorShape ==
  ASSUME NEW a, NEW b, a.header_version \in Int
  PROVE  /\ HasFields(VendorFields(a, b), VendorFull(a.header_version))
         /\ VendorFields(a, b)[1].v = "VNDRBOOT" /\ VendorFields(a, b)[2].v = a.header_version
         /\ a.header_version > 3 => VendorFields(a, b)[14].v = Len(b.entries)
         /\ Agrees(VendorFields(a, b), VendorFront(a, b), 12)
         /\ a.header_version > 3 => Follows(VendorFields(a, b), VendorRest(a, b), 12, 4)
<1> DEFINE front == VendorFront(a, b)
           rest == IF a.header_version > 3 THEN VendorRest(a, b) ELSE << >>
           n == IF a.header_version > 3 THEN 4 ELSE 0
<1>1. VendorFields(a, b) = front \o rest
  BY DEF VendorFields, VendorFront, VendorRest
<1>2. HasFields(rest, n) /\ n \in Nat
  BY NoFields, Tuple4 DEF VendorRest
<1>3. VendorFull(a.header_version) = 12 + n
  BY DEF VendorFull
<1>4. HasFields(front, 12) /\ 12 \in Nat
  BY Tuple12 DEF VendorFront
<1>5. front[1].v = "VNDRBOOT" /\ front[2].v = a.header_version
  BY DEF Field, VendorFront
<1>6. a.header_version > 3 => n = 4 /\ rest = VendorRest(a, b) /\ rest[2].v = Len(b.entries)
  BY DEF Field, VendorRest
<1> HIDE DEF rest, n, front
<1>7. /\ HasFields(front \o rest, 12 + n) /\ Agrees(front \o rest, front, 12)
      /\ Follows(front \o rest, rest, 12, n)
  BY <1>2, <1>4, JoinFields
<1>8. /\ (front \o rest)[1] = front[1] /\ (front \o rest)[2] = front[2]
      /\ n = 4 => (front \o rest)[14] = rest[2]
  <2>1. 1 \in 1..12 /\ 2 \in 1..12 /\ 2 \in 1..4 /\ 12 + 2 = 14
    OBVIOUS
  <2>2. QED
    BY <1>7, <2>1 DEF Agrees, Follows
<1>9. /\ HasFields(VendorFields(a, b), VendorFull(a.header_version))
      /\ VendorFields(a, b)[1].v = "VNDRBOOT" /\ VendorFields(a, b)[2].v = a.header_version
      /\ a.header_version > 3 => VendorFields(a, b)[14].v = Len(b.entries)
  BY <1>1, <1>3, <1>5, <1>6, <1>7, <1>8
<1>10. QED
  BY <1>1, <1>6, <1>7, <1>9 DEF front

\* What a header, whole or cut, says when it is read: what it is, which version it
\* has and how many table entries there are, each if the field is there
ReadsAsBoot(f, version) ==
    /\ \E R : f \in Seq(R)
    /\ Len(f) >= 1 => f[1].v = "ANDROID!"
    /\ Len(f) >= 10 => f[10].v = version
ReadsAsVendor(f, version) ==
    /\ \E R : f \in Seq(R)
    /\ Len(f) >= 1 => f[1].v = "VNDRBOOT"
    /\ Len(f) >= 2 => f[2].v = version
    /\ version > 3 /\ Len(f) >= 14 => f[14].v \in 0..3

\* The header of image n is the whole one of job a, or it is cut short.
HasHeader(f, n, a) ==
    \/ n = a.output /\ ReadsAsBoot(f, a.header_version)
       /\ Len(f) = HeaderFields(a.header_version) /\ a.header_version <= 4
    \/ n = a.vendor_boot /\ ReadsAsVendor(f, a.header_version)
       /\ Len(f) = VendorFull(a.header_version)
CutShort(f, n, a) ==
    \/ n = a.output /\ ReadsAsBoot(f, a.header_version)
       /\ Len(f) < HeaderFields(a.header_version)
    \/ n = a.vendor_boot /\ ReadsAsVendor(f, a.header_version)
       /\ Len(f) < VendorFull(a.header_version)

\* What is needed of a job, from the command line or printed
IsJob(a) ==
    /\ a.header_version \in Int
    /\ a.output \in Image \cup {None} /\ a.vendor_boot \in Image \cup {None}
    /\ a.output = None \/ a.output # a.vendor_boot
    /\ \E R : a.fragments \in Seq(R)
    /\ Len(a.fragments) <= 3 /\ (a.vendor_ramdisk = None \/ Len(a.fragments) <= 2)

\* Every version has the tenth field, and a vendor_boot header its first twelve.
LEMMA HeaderSizes ==
  ASSUME NEW v \in Int
  PROVE  /\ HeaderFields(v) \in 11..20 /\ VendorFull(v) \in 12..16
         /\ VendorFull(v) = IF v > 3 THEN 16 ELSE 12
BY DEF HeaderFields, VendorFull

\* An image is a record of a header, a length and parts.
IsImg(img) == "fields" \in DOMAIN img /\ "len" \in DOMAIN img /\ "at" \in DOMAIN img

\* An image behind its header and some padding
WithFields(img, g, pad) == [img EXCEPT !.fields = g, !.len = Width(g) + pad]

\* PutHeader() writes the fields it is given, or fewer of them and the run is over.
Cuts(g, name, f, stop, page, next) ==
    /\ DOMAIN disk' = Image /\ IsImg(disk'[name]) /\ disk'[name].fields = g
    /\ \A n \in Image \ {name} : disk'[n] = disk[n]
    /\ \/ /\ g = f /\ pc' = next /\ ret' = ret /\ stop = {} /\ Unfit(f) = {}
          /\ disk'[name] = WithFields(disk[name], f, PadLen(Width(f), page))
       \/ /\ Exit("error") /\ Len(g) < Len(f) /\ Agrees(g, f, Len(g))
          /\ \A i \in Unfit(f) : Len(g) < i
          /\ disk'[name] = WithFields(disk[name], g, 0)

LEMMA CutFields ==
  ASSUME NEW R, NEW f \in Seq(R), NEW stop \in SUBSET (1..Len(f)), NEW name \in Image,
           NEW page, NEW next,
         DOMAIN disk = Image, IsImg(disk[name]), PutHeader(name, f, stop, page, next)
  PROVE  \E g \in Seq(R) : Cuts(g, name, f, stop, page, next)
<1> DEFINE bad == Unfit(f) \cup stop
           cut == CHOOSE i \in bad : \A k \in bad : i <= k
           written == IF bad = {} THEN f ELSE SubSeq(f, 1, cut - 1)
           pad == IF bad = {} THEN PadLen(Width(written), page) ELSE 0
           img == [disk[name] EXCEPT !.fields = written, !.len = Width(written) + pad]
<1>1. /\ disk' = [disk EXCEPT ![name] = img]
      /\ IF bad = {} THEN pc' = next /\ UNCHANGED ret ELSE Exit("error")
  BY DEF PutHeader
<1>2. bad # {} => cut \in 1..Len(f) /\ \A i \in Unfit(f) : i \in Nat /\ cut <= i
  <2>1. bad \in SUBSET (1..Len(f))
    <3>1. DOMAIN f = 1..Len(f)
      OBVIOUS
    <3>2. Unfit(f) \subseteq DOMAIN f
      BY Zenon DEF Unfit
    <3>3. QED
      BY <3>1, <3>2
  <2>2. bad \in SUBSET Nat
    BY <2>1
  <2>3. bad # {} => \E i \in bad : \A k \in bad : i <= k
    BY <2>2, LeastNat
  <2>4. Unfit(f) \subseteq bad
    OBVIOUS
  <2>5. QED
    BY <2>1, <2>2, <2>3, <2>4
<1>3. (bad = {} => pad = PadLen(Width(written), page) /\ stop = {} /\ Unfit(f) = {}) /\ (bad # {} => pad = 0)
  OBVIOUS
<1> HIDE DEF bad, cut, pad
<1>4. written \in Seq(R)
  BY <1>2
<1>5. bad # {} => /\ Len(written) < Len(f) /\ Agrees(written, f, Len(written))
                  /\ \A i \in Unfit(f) : Len(written) < i
  <2>1. SUFFICES ASSUME bad # {}
                 PROVE  /\ Len(written) < Len(f) /\ Agrees(written, f, Len(written))
                        /\ \A i \in Unfit(f) : Len(written) < i
    OBVIOUS
  <2>2. cut - 1 \in Nat /\ cut - 1 < Len(f) /\ written = SubSeq(f, 1, cut - 1)
    BY <1>2, <2>1
  <2>3. Len(written) = cut - 1 /\ Agrees(written, f, Len(written))
    BY <2>2 DEF Agrees
  <2>4. QED
    BY <1>2, <2>1, <2>2, <2>3
<1>6. bad = {} => written = f
  OBVIOUS
<1> HIDE DEF written
<1>7. IsImg(img) /\ img.fields = written /\ img = WithFields(disk[name], written, pad)
  BY DEF IsImg, WithFields
<1> HIDE DEF img
<1>8. /\ DOMAIN disk' = Image /\ IsImg(disk'[name]) /\ disk'[name].fields = written
      /\ disk'[name] = WithFields(disk[name], written, pad)
      /\ \A n \in Image \ {name} : disk'[n] = disk[n]
  BY <1>1, <1>7
<1>9. QED
  BY <1>1, <1>3, <1>4, <1>5, <1>6, <1>8 DEF Cuts

\* Where a run is while the data of an image is written
VendorPhase == {"vendor_ramdisk", "vendor_ramdisks", "vendor_dtb", "vendor_table",
         "vendor_bootconfig"}
BootPhase == {"kernel", "ramdisk", "second", "recovery_dtbo", "dtb", "boot_signature"}
Building == {"add_entry", "main", "vendor_header", "output"} \cup VendorPhase \cup BootPhase

\* The parts of the invariant: the images are where they should be;
DiskInv == DOMAIN disk = Image /\ DOMAIN made = Image /\ \A n \in Image : IsImg(disk[n])

\* a run of mkbootimg.py has a job, its outputs were opened for it, and the one it
\* writes data into has its header;
JobInv ==
    /\ pc \in Building \cup {"parse"} => IsJob(job)
    /\ pc \in Building =>
         /\ \A n \in Outputs : made[n].job = job /\ DOMAIN made[n] = {"job", "whole"}
         /\ \E R : builder.entries \in Seq(R)
         /\ Len(builder.entries) <= 3
    /\ pc \in VendorPhase \cup {"vendor_header"} => job.vendor_boot # None
    /\ pc \in VendorPhase => HasHeader(disk[job.vendor_boot].fields, job.vendor_boot, job)
    /\ pc \in BootPhase =>
         job.output # None /\ HasHeader(disk[job.output].fields, job.output, job)

\* the header of an image that was opened is whole or cut short;
ImageInv(n) ==
    made[n] # None =>
        /\ IsJob(made[n].job)
        /\ \/ CutShort(disk[n].fields, n, made[n].job)
           \/ HasHeader(disk[n].fields, n, made[n].job)

\* and what unpack_bootimg.py has accepted has a whole one.
GoodHeader(h, boot) ==
    /\ h.header_version \in Int
    /\ ~boot => /\ \E R : h.table \in Seq(R)
                /\ Len(h.table) <= 3 /\ (h.header_version > 3 \/ Len(h.table) = 0)

InfoInv ==
    /\ pc = "unpack" => info.image \in Image /\ made[info.image] # None
    /\ pc # "unpack" /\ info # None =>
         /\ IsJob(info.job.job)
         /\ GoodHeader(info.header, IsBoot(info.of))

ImagesInv == DiskInv /\ JobInv /\ (\A n \in Image : ImageInv(n)) /\ InfoInv

\* struct.unpack() raises in a header that is cut short, wherever it is cut.
LEMMA CutNotReadable ==
  ASSUME NEW n, NEW a, IsJob(a), NEW img, CutShort(img.fields, n, a)
  PROVE  ~Readable(img)
<1> DEFINE f == img.fields
<1>1. SUFFICES ASSUME Readable(img) PROVE FALSE
  OBVIOUS
<1>2. Len(f) \in Nat /\ Len(f) >= 1 /\ a.header_version \in Int
  BY <1>1 DEF Readable, CutShort, ReadsAsBoot, ReadsAsVendor, IsJob
<1>3. CASE ReadsAsBoot(f, a.header_version) /\ Len(f) < HeaderFields(a.header_version)
  <2>1. IsBoot(img)
    BY <1>2, <1>3 DEF ReadsAsBoot, IsBoot, Magic
  <2>2. Len(f) >= 10 /\ Len(f) >= HeaderFields(f[10].v)
    BY <1>1, <2>1 DEF Readable, BootHeaderReadable
  <2>3. f[10].v = a.header_version
    BY <1>3, <2>2 DEF ReadsAsBoot
  <2>4. QED
    BY <1>2, <1>3, <2>2, <2>3, HeaderSizes
<1>4. CASE ReadsAsVendor(f, a.header_version) /\ Len(f) < VendorFull(a.header_version)
  <2>1. ~IsBoot(img)
    BY <1>2, <1>4 DEF ReadsAsVendor, IsBoot, Magic
  <2>2. Len(f) >= 12 /\ (f[2].v > 3 => Len(f) >= 16)
    BY <1>1, <2>1 DEF Readable, VendorHeaderReadable
  <2>3. f[2].v = a.header_version
    BY <1>2, <1>4, <2>2 DEF ReadsAsVendor
  <2>4. QED
    BY <1>2, <1>4, <2>2, <2>3, HeaderSizes
<1>5. QED
  BY <1>3, <1>4 DEF CutShort

\* What is read from a whole header describes at most three ramdisks.
LEMMA HeaderRead ==
  ASSUME NEW n, NEW a, IsJob(a), NEW img, HasHeader(img.fields, n, a), Readable(img)
  PROVE  GoodHeader(IF IsBoot(img) THEN BootInfo(img.fields) ELSE VendorInfo(img), IsBoot(img))
<1> DEFINE f == img.fields
<1>1. a.header_version \in Int
  BY DEF IsJob
<1>2. CASE ReadsAsBoot(f, a.header_version) /\ Len(f) = HeaderFields(a.header_version)
  <2>1. IsBoot(img) /\ f[10].v = a.header_version
    BY <1>1, <1>2, HeaderSizes, SMTT(60) DEF ReadsAsBoot, IsBoot, Magic
  <2>2. BootInfo(f).header_version = a.header_version
    BY <2>1 DEF BootInfo
  <2>3. QED
    BY <1>1, <2>1, <2>2 DEF GoodHeader
<1>3. CASE ReadsAsVendor(f, a.header_version) /\ Len(f) = VendorFull(a.header_version)
  <2>1. ~IsBoot(img) /\ f[2].v = a.header_version
    BY <1>1, <1>3, HeaderSizes DEF ReadsAsVendor, IsBoot, Magic
  <2>2. a.header_version > 3 => f[14].v \in 0..3
    BY <1>1, <1>3, HeaderSizes DEF ReadsAsVendor
  <2>3. VendorInfo(img).header_version = a.header_version
    BY <2>1 DEF VendorInfo
  <2> DEFINE table == VendorInfo(img).table
             size == f[14].v
             off == TableOffset(f)
  <2>4. table = IF f[2].v <= 3 THEN << >>
                ELSE [i \in 1..size |-> EntryAt(img, off + f[15].v * (i - 1))]
    BY DEF VendorInfo
  <2>5. (\E R : table \in Seq(R)) /\ Len(table) <= 3
        /\ (a.header_version > 3 \/ Len(table) = 0)
    <3>1. CASE a.header_version <= 3
      <4>1. table = << >> /\ << >> \in Seq({})
        BY <2>1, <2>4, <3>1
      <4>2. QED
        BY <4>1, <3>1
    <3>2. CASE a.header_version > 3
      <4>1. size \in 0..3 /\ ~(f[2].v <= 3)
        BY <1>1, <2>1, <2>2, <3>2
      <4> DEFINE R == {EntryAt(img, off + f[15].v * (i - 1)) : i \in 1..size}
      <4> HIDE DEF size, off
      <4>2. table \in [1..size -> R]
        BY <2>4, <4>1
      <4> HIDE DEF R, table
      <4>3. table \in Seq(R) /\ Len(table) = size
        <5>1. size \in Nat
          BY <4>1
        <5>2. QED
          BY <4>2, <5>1, FunctionIsSeq, Zenon
      <4>4. QED
        BY <3>2, <4>1, <4>3
    <3>3. QED
      BY <1>1, <3>1, <3>2
  <2>6. QED
    BY <1>1, <2>1, <2>3, <2>5 DEF GoodHeader
<1>4. QED
  BY <1>2, <1>3 DEF HasHeader

\* What has been read stays as it is until the next run of unpack_bootimg.py.
LEMMA InfoKept ==
  ASSUME InfoInv, UNCHANGED info, pc # "unpack", pc' # "unpack"
  PROVE  InfoInv'
BY DEF InfoInv

\* Nothing has been built.
LEMMA ImagesInit == ASSUME Init PROVE ImagesInv
<1>1. DiskInv
  BY DEF Init, DiskInv, IsImg, Opened
<1>2. JobInv
  BY DEF Init, JobInv, Building, VendorPhase, BootPhase
<1>3. (\A n \in Image : ImageInv(n)) /\ InfoInv
  BY DEF Init, ImageInv, InfoInv
<1>4. QED
  BY <1>1, <1>2, <1>3 DEF ImagesInv

\* Steps that neither write an image nor say that one is whole
LEMMA NothingWritten ==
  ASSUME ImagesInv, UNCHANGED <<disk, made>>
  PROVE  DiskInv' /\ \A n \in Image : ImageInv(n)'
BY DEF ImagesInv, DiskInv, ImageInv

\* A file that has just been opened is a header cut before its first field.
LEMMA FreshShape ==
  ASSUME NEW a, IsJob(a), NEW n, n \in {a.output, a.vendor_boot}
  PROVE  CutShort(<< >>, n, a)
<1>1. << >> \in Seq({}) /\ Len(<< >>) = 0 /\ a.header_version \in Int
  BY DEF IsJob
<1>2. ReadsAsBoot(<< >>, a.header_version) /\ ReadsAsVendor(<< >>, a.header_version)
  BY <1>1 DEF ReadsAsBoot, ReadsAsVendor
<1>3. QED
  BY <1>1, <1>2, HeaderSizes DEF CutShort

\* Opening the outputs of a job, and what comes of the others
LEMMA OpenedImages ==
  ASSUME ImagesInv, IsJob(job), pc = "parse", NEW names \in SUBSET Outputs, Open(names)
  PROVE  /\ DiskInv' /\ \A n \in Image : ImageInv(n)'
         /\ \A n \in names : made'[n].job = job /\ DOMAIN made'[n] = {"job", "whole"}
<1>1. names \subseteq Image
  BY DEF Outputs, IsJob
<1>2. DiskInv'
  BY DEF ImagesInv, DiskInv, Open, IsImg, Opened
<1>3. ASSUME NEW n \in Image PROVE ImageInv(n)'
  <2>1. CASE n \in names
    <3>1. disk'[n].fields = << >> /\ made'[n].job = job
      BY <2>1 DEF Open, Opened
    <3>2. n \in {job.output, job.vendor_boot}
      BY <2>1 DEF Outputs
    <3>3. CutShort(<< >>, n, job)
      BY <3>2, FreshShape
    <3>4. QED
      BY <3>1, <3>3 DEF ImageInv
  <2>2. CASE n \notin names
    <3>1. disk'[n] = disk[n] /\ made'[n] = made[n] /\ pc \notin VendorPhase \cup BootPhase
      BY <2>2 DEF Open, VendorPhase, BootPhase
    <3>2. ImageInv(n)
      BY DEF ImagesInv
    <3>3. QED
      BY <3>1, <3>2 DEF ImageInv
  <2>3. QED
    BY <2>1, <2>2
<1>4. \A n \in names : made'[n].job = job /\ DOMAIN made'[n] = {"job", "whole"}
  BY <1>1 DEF Open
<1>5. QED
  BY <1>2, <1>3, <1>4

\* Writing the data behind a header
LEMMA DataWritten ==
  ASSUME ImagesInv, NEW name \in Image, NEW img, IsImg(img), img.fields = disk[name].fields,
         disk' = [disk EXCEPT ![name] = img]
  PROVE  /\ DOMAIN disk' = Image /\ \A n \in Image : IsImg(disk'[n])
         /\ \A n \in Image : disk'[n].fields = disk[n].fields
BY DEF ImagesInv, DiskInv

\* write_padded_file() leaves the header as it is.
LEMMA PaddedShape ==
  ASSUME NEW img, IsImg(img), NEW part, NEW f, NEW page
  PROVE  IsImg(WritePadded(img, part, f, page)) /\ WritePadded(img, part, f,
           page).fields = img.fields
BY DEF IsImg, WritePadded

\* No job has more ramdisks than there are names for.
LEMMA RamdisksShort == ASSUME IsJob(job) PROVE Len(Ramdisks) \in 0..3
<1>1. PICK R : job.fragments \in Seq(R)
  BY DEF IsJob
<1> DEFINE one == [file |-> job.vendor_ramdisk, type |-> 1, name |-> "", board_id |-> 0]
           first == IF job.vendor_ramdisk = None THEN << >> ELSE <<one>>
           n == IF job.vendor_ramdisk = None THEN 0 ELSE 1
<1>2. HasFields(first, n) /\ n \in 0..1
  <2>1. HasFields(<<one>>, 1) /\ HasFields(<< >>, 0)
    BY NoFields, Tuple1
  <2> HIDE DEF one
  <2>2. QED
    BY <2>1
<1>3. HasFields(job.fragments, Len(job.fragments)) /\ Len(job.fragments) \in Nat
  BY <1>1 DEF HasFields
<1>4. Ramdisks = first \o job.fragments
  BY DEF Ramdisks
<1>5. n + Len(job.fragments) <= 3
  <2>1. Len(job.fragments) <= 3 /\ (job.vendor_ramdisk = None \/ Len(job.fragments) <= 2)
    BY DEF IsJob
  <2> DEFINE size == Len(job.fragments)
  <2>2. size \in Nat /\ size <= 3 /\ (job.vendor_ramdisk = None \/ size <= 2)
    BY <1>3, <2>1
  <2> HIDE DEF size
  <2>3. n + size <= 3
    BY <2>2
  <2>4. QED
    BY <2>3 DEF size
<1> HIDE DEF first, n
<1>6. HasFields(first \o job.fragments, n + Len(job.fragments)) /\ n \in Nat
  BY <1>2, <1>3, JoinFields
<1>7. QED
  BY <1>2, <1>3, <1>4, <1>5, <1>6, SMTT(60) DEF HasFields

\* The steps, in the order of a run of mkbootimg.py: parsing the command line
LEMMA ParseStep ==
  ASSUME ImagesInv, UsageError \/ ParseCmdline
  PROVE  ImagesInv'
<1>1. pc = "parse" /\ pc \in Building \cup {"parse"}
  BY DEF UsageError, ParseCmdline
<1>2. IsJob(job)
  BY <1>1 DEF ImagesInv, JobInv
<1>3. InfoInv'
  BY <1>1, InfoKept DEF ImagesInv, UsageError, ParseCmdline, Exit, unpack
<1>4. CASE UsageError
  <2>1. PICK names \in SUBSET Outputs : Open(names)
    BY <1>4 DEF UsageError
  <2>2. DiskInv' /\ \A n \in Image : ImageInv(n)'
    BY <1>1, <1>2, <2>1, OpenedImages
  <2>3. pc' \notin Building \cup {"parse"} /\ pc' \notin VendorPhase \cup {"vendor_header"}
        /\ pc' \notin BootPhase
    BY <1>4 DEF UsageError, Exit, Building, VendorPhase, BootPhase
  <2>4. QED
    BY <1>3, <2>2, <2>3 DEF ImagesInv, JobInv
<1>5. CASE ParseCmdline
  <2>1. Open(Outputs) /\ job' = job /\ builder'.entries = << >>
    BY <1>5 DEF ParseCmdline
  <2>2. /\ DiskInv' /\ \A n \in Image : ImageInv(n)'
        /\ \A n \in Outputs : made'[n].job = job /\ DOMAIN made'[n] = {"job", "whole"}
    BY <1>1, <1>2, <2>1, OpenedImages
  <2>3. << >> \in Seq({}) /\ Len(<< >>) <= 3
    OBVIOUS
  <2>4. pc' \notin VendorPhase \cup BootPhase \cup {"vendor_header"}
    BY <1>5 DEF ParseCmdline, Exit, VendorPhase, BootPhase
  <2>5. Outputs' = Outputs
    BY <2>1 DEF Outputs
  <2>6. JobInv'
    BY <1>2, <2>1, <2>2, <2>3, <2>4, <2>5 DEF JobInv
  <2>7. QED
    BY <1>3, <2>2, <2>6 DEF ImagesInv
<1>6. QED
  BY <1>4, <1>5

\* ... collecting the ramdisk table and checking the options of main()
LEMMA TableStep ==
  ASSUME ImagesInv, AddEntry \/ EntriesAdded \/ CheckVendorBoot
  PROVE  ImagesInv'
<1>1. /\ pc \in {"add_entry", "main"} /\ pc \in Building /\ pc \notin VendorPhase \cup BootPhase
      /\ pc' \in {"idle", "add_entry", "main", "vendor_header", "output"}
      /\ pc' \notin VendorPhase \cup BootPhase
      /\ UNCHANGED <<job, disk, made, info>>
  BY DEF AddEntry, EntriesAdded, CheckVendorBoot, Exit, mk, unpack, Building, VendorPhase,
           BootPhase
<1>2. DiskInv' /\ \A n \in Image : ImageInv(n)'
  BY <1>1, NothingWritten
<1>3. InfoInv'
  BY <1>1, InfoKept DEF ImagesInv
<1>4. /\ IsJob(job) /\ \A n \in Outputs : made[n].job = job /\ DOMAIN made[n] = {"job", "whole"}
      /\ \E R : builder.entries \in Seq(R)
      /\ Len(builder.entries) <= 3
  BY <1>1 DEF ImagesInv, JobInv
<1>5. /\ \E R : builder'.entries \in Seq(R)
      /\ Len(builder'.entries) <= 3
  <2>1. CASE builder' = builder
    BY <1>4, <2>1
  <2>2. CASE builder' # builder
    <3>1. \E e : builder'.entries = Append(builder.entries, e)
      <4>1. AddEntry
        BY <2>2 DEF EntriesAdded, CheckVendorBoot, mk
      <4> DEFINE r == Ramdisks[Added + 1]
                 e == [size |-> r.file.size, offset |-> builder.total, type |-> r.type,
                       name |-> r.name, board_id |-> r.board_id, file |-> r.file]
      <4>2. builder' = [entries |-> Append(builder.entries, e),
                        total |-> builder.total + r.file.size]
        BY <2>2, <4>1 DEF AddEntry
      <4> HIDE DEF e
      <4>3. QED
        BY <4>2
    <3> PICK e : builder'.entries = Append(builder.entries, e)
      BY <3>1
    <3>2. Len(builder.entries) < Len(Ramdisks)
      BY <2>2 DEF AddEntry, EntriesAdded, CheckVendorBoot, mk, Added
    <3>3. PICK R : builder.entries \in Seq(R)
      BY <1>4
    <3>4. Append(builder.entries, e) \in Seq(R \cup {e})
      <4>1. builder.entries \in Seq(R \cup {e})
        BY <3>3, SeqMonotone
      <4>2. QED
        BY <4>1
    <3>5. Len(Append(builder.entries, e)) = Len(builder.entries) + 1
             /\ Len(builder.entries) \in Nat
      BY <3>3
    <3>6. QED
      <4>1. Len(Ramdisks) \in 0..3
        BY <1>4, RamdisksShort
      <4>2. Len(builder'.entries) <= 3
        <5> DEFINE old == Len(builder.entries)
                   new == Len(builder'.entries)
                   all == Len(Ramdisks)
        <5>1. new = old + 1 /\ old \in Nat /\ old < all /\ all \in 0..3
          BY <3>2, <3>5, <4>1
        <5> HIDE DEF old, new, all
        <5>2. new <= 3
          BY <5>1
        <5>3. QED
          BY <5>2 DEF new
      <4>3. QED
        BY <3>4, <4>2
  <2>3. QED
    BY <2>1, <2>2
<1>6. pc' = "vendor_header" => job.vendor_boot # None
  BY <1>1 DEF AddEntry, EntriesAdded, CheckVendorBoot, Exit
<1>7. Outputs' = Outputs
  BY <1>1 DEF Outputs
<1>8. JobInv'
  BY <1>1, <1>4, <1>5, <1>6, <1>7 DEF JobInv
<1>9. QED
  BY <1>2, <1>3, <1>8 DEF ImagesInv

\* A header cut anywhere still says what its whole says, as far as it goes.
LEMMA VendorPrefix ==
  ASSUME NEW a, IsJob(a), NEW b, Len(b.entries) \in 0..3, NEW R, NEW g \in Seq(R),
         Len(g) <= VendorFull(a.header_version), Agrees(g, VendorFields(a, b), Len(g))
  PROVE  ReadsAsVendor(g, a.header_version)
<1>1. a.header_version \in Int /\ Len(g) \in Nat
  BY DEF IsJob
<1>2. \A k \in {1, 2, 14} : Len(g) >= k => g[k] = VendorFields(a, b)[k]
  BY <1>1 DEF Agrees
<1>3. /\ VendorFields(a, b)[1].v = "VNDRBOOT" /\ VendorFields(a, b)[2].v = a.header_version
      /\ a.header_version > 3 => VendorFields(a, b)[14].v = Len(b.entries)
  BY <1>1, VendorShape
<1>4. QED
  BY <1>2, <1>3 DEF ReadsAsVendor

\* The same for a boot image
LEMMA BootPrefix ==
  ASSUME NEW v, NEW f, f[1].v = "ANDROID!", f[10].v = v, NEW R, NEW g \in Seq(R),
         Agrees(g, f, Len(g))
  PROVE  ReadsAsBoot(g, v)
<1>1. \A k \in {1, 10} : Len(g) >= k => g[k] = f[k]
  BY DEF Agrees
<1>2. QED
  BY <1>1 DEF ReadsAsBoot

\* ... and one that is not cut.
LEMMA AgreesItself == ASSUME NEW f PROVE Agrees(f, f, Len(f))
BY DEF Agrees

\* What the images are once a header has been written, whole or not
LEMMA HeaderWritten ==
  ASSUME ImagesInv, IsJob(job), NEW name \in Outputs, made[name].job = job, UNCHANGED <<job,
           made>>,
         DOMAIN disk' = Image, IsImg(disk'[name]), \A n \in Image \ {name} : disk'[n] = disk[n],
         \/ CutShort(disk'[name].fields, name, job)
         \/ HasHeader(disk'[name].fields, name, job)
  PROVE  DiskInv' /\ \A n \in Image : ImageInv(n)'
<1>1. DiskInv'
  BY DEF ImagesInv, DiskInv
<1>2. ASSUME NEW n \in Image PROVE ImageInv(n)'
  <2>1. CASE n = name
    BY <2>1 DEF ImageInv
  <2>2. CASE n # name
    <3>1. ImageInv(n) /\ disk'[n] = disk[n]
      BY <2>2 DEF ImagesInv
    <3>2. QED
      BY <3>1 DEF ImageInv
  <2>3. QED
    BY <2>1, <2>2
<1>3. QED
  BY <1>1, <1>2

\* ... writing the header of a vendor_boot image
LEMMA VendorHeaderStep ==
  ASSUME ImagesInv, VendorHeader
  PROVE  ImagesInv'
<1> DEFINE name == job.vendor_boot
           f == VendorFields(job, builder)
           v == job.header_version
           stop == IF filesize(job.dtb) = 0 THEN {1} ELSE {}
           next == IF Version > 3 THEN "vendor_ramdisks" ELSE "vendor_ramdisk"
<1>1. /\ pc = "vendor_header" /\ PutHeader(name, f, stop, job.pagesize, next)
      /\ UNCHANGED <<job, builder, made, info>>
  BY DEF VendorHeader, mk, unpack
<1>2. /\ IsJob(job) /\ \A n \in Outputs : made[n].job = job /\ DOMAIN made[n] = {"job", "whole"}
      /\ \E R : builder.entries \in Seq(R)
      /\ Len(builder.entries) <= 3 /\ name # None
  BY <1>1 DEF ImagesInv, JobInv, Building
<1>3. Len(builder.entries) \in 0..3
  <2>1. Len(builder.entries) \in Nat
    BY <1>2
  <2> DEFINE size == Len(builder.entries)
  <2>2. size \in Nat /\ size <= 3
    BY <1>2, <2>1
  <2> HIDE DEF size
  <2>3. size \in 0..3
    BY <2>2
  <2>4. QED
    BY <2>3 DEF size
<1>4. name \in Image /\ name \in Outputs /\ v \in Int
  BY <1>2 DEF IsJob, Outputs
<1>5. HasFields(f, VendorFull(v)) /\ VendorFull(v) \in 12..16
  BY <1>4, VendorShape, HeaderSizes
<1>6. PICK R : f \in Seq(R)
  BY <1>5 DEF HasFields
<1>7. Len(f) = VendorFull(v) /\ stop \in SUBSET (1..Len(f))
  BY <1>5 DEF HasFields
<1>8. DOMAIN disk = Image /\ IsImg(disk[name])
  BY <1>4 DEF ImagesInv, DiskInv
<1> HIDE DEF name, f, stop, next, v
<1>20. PICK g \in Seq(R) : Cuts(g, name, f, stop, job.pagesize, next)
  BY <1>1, <1>4, <1>6, <1>7, <1>8, CutFields
<1>9. /\ DOMAIN disk' = Image /\ IsImg(disk'[name]) /\ disk'[name].fields = g
      /\ \A n \in Image \ {name} : disk'[n] = disk[n]
      /\ \/ g = f /\ pc' = next /\ ret' = ret
         \/ Exit("error") /\ Len(g) < Len(f) /\ Agrees(g, f, Len(g))
  BY <1>20, Zenon DEF Cuts
<1>10. Len(g) <= VendorFull(v) /\ Agrees(g, f, Len(g)) /\ Len(g) \in Nat
  BY <1>5, <1>7, <1>9, <1>20, AgreesItself
<1>11. ReadsAsVendor(g, v)
  BY <1>2, <1>3, <1>10, VendorPrefix DEF f, v
<1>12. CASE g = f /\ pc' = next
  <2>1. HasHeader(g, name, job)
    BY <1>7, <1>11, <1>12 DEF HasHeader, name, v
  <2>2. pc' \in VendorPhase /\ pc' \notin BootPhase
    BY <1>12 DEF next, VendorPhase, BootPhase
  <2>3. DiskInv' /\ \A n \in Image : ImageInv(n)'
    BY <1>1, <1>2, <1>4, <1>9, <2>1, <2>2, HeaderWritten DEF VendorPhase, BootPhase, name
  <2>4. JobInv'
    BY <1>1, <1>2, <1>9, <2>1, <2>2 DEF JobInv, name, Outputs
  <2>5. InfoInv'
    BY <1>1, <2>2, InfoKept DEF ImagesInv, VendorPhase
  <2>6. QED
    BY <2>3, <2>4, <2>5 DEF ImagesInv
<1>13. CASE Exit("error") /\ Len(g) < Len(f)
  <2>1. CutShort(g, name, job)
    BY <1>7, <1>11, <1>13 DEF CutShort, name, v
  <2>2. DiskInv' /\ \A n \in Image : ImageInv(n)'
    BY <1>1, <1>2, <1>4, <1>9, <2>1, HeaderWritten DEF VendorPhase, BootPhase
  <2>3. JobInv'
    BY <1>13 DEF JobInv, Exit, Building, VendorPhase, BootPhase
  <2>4. InfoInv'
    BY <1>1, <1>13, InfoKept DEF ImagesInv, Exit
  <2>5. QED
    BY <2>2, <2>3, <2>4 DEF ImagesInv
<1>14. QED
  BY <1>9, <1>12, <1>13

\* ... writing the header of a boot image
LEMMA HeaderStep ==
  ASSUME ImagesInv, Header
  PROVE  ImagesInv'
<1> DEFINE name == job.output
           v == job.header_version
           f == IF v > 2 THEN V3Fields(job) ELSE V0Fields(job)
           stop == IF v = 2 /\ filesize(job.dtb) = 0 THEN {19} ELSE {}
           page == IF v > 2 THEN BOOT_IMAGE_HEADER_V3_PAGESIZE ELSE job.pagesize
<1>1. pc = "output" /\ UNCHANGED <<job, builder, made, info>>
  BY DEF Header, mk, unpack
<1>2. /\ IsJob(job) /\ \A n \in Outputs : made[n].job = job /\ DOMAIN made[n] = {"job", "whole"}
      /\ \E R : builder.entries \in Seq(R)
      /\ Len(builder.entries) <= 3
  BY <1>1 DEF ImagesInv, JobInv, Building
<1>3. v \in Int
  BY <1>2 DEF IsJob
<1>4. CASE pc' = "idle" /\ UNCHANGED disk
  <2>1. DiskInv' /\ \A n \in Image : ImageInv(n)'
    BY <1>1, <1>4, NothingWritten DEF VendorPhase, BootPhase
  <2>2. JobInv' /\ InfoInv'
    BY <1>1, <1>4, InfoKept DEF ImagesInv, JobInv, Building, VendorPhase, BootPhase
  <2>3. QED
    BY <2>1, <2>2 DEF ImagesInv
<1>5. CASE name # None /\ v <= 4 /\ PutHeader(name, f, stop, page, "kernel")
  <2>1. name \in Image /\ name \in Outputs
    BY <1>2, <1>5 DEF IsJob, Outputs
  <2>2. PICK m \in 11..20 :
          /\ HasFields(f, m) /\ (v >= 0 => m = HeaderFields(v)) /\ HeaderFields(v) \in 11..20
          /\ f[1].v = "ANDROID!" /\ f[10].v = v /\ (v < 0 => f[10].w = 4)
    <3>0. HeaderFields(v) \in 11..20 /\ 15 \in 11..20
      BY <1>3, HeaderSizes
    <3>1. CASE v > 2
      BY <1>3, <1>5, <3>0, <3>1, V3Shape
    <3>2. CASE v \in 0..2
      BY <1>3, <1>5, <3>0, <3>2, V0Shape
    <3>3. CASE v < 0
      BY <1>3, <1>5, <3>0, <3>3, NegativeShape
    <3>4. QED
      BY <1>3, <3>1, <3>2, <3>3
  <2>3. PICK R : f \in Seq(R)
    BY <2>2 DEF HasFields
  <2>4. /\ Len(f) = m /\ stop \in SUBSET (1..Len(f))
        /\ v < 0 => 10 \in Unfit(f) /\ HeaderFields(v) = 12
    <3>1. (v = 2 => HeaderFields(v) = 20) /\ (v < 0 => HeaderFields(v) = 12)
      BY <1>3 DEF HeaderFields
    <3>2. Len(f) = m
      BY <2>2 DEF HasFields
    <3>3. v < 0 => 10 \in DOMAIN f /\ ~Word(f[10].v)
      BY <1>3, <2>2, <2>3, <3>2 DEF Word
    <3>4. v < 0 => 10 \in Unfit(f)
      BY <2>2, <3>3 DEF Unfit
    <3>5. QED
      BY <2>2, <3>1, <3>2, <3>4
  <2>5. DOMAIN disk = Image /\ IsImg(disk[name])
    BY <2>1 DEF ImagesInv, DiskInv
  <2> HIDE DEF name, f, stop, page, v
  <2>20. PICK g \in Seq(R) : Cuts(g, name, f, stop, page, "kernel")
    BY <1>5, <2>1, <2>3, <2>4, <2>5, CutFields
  <2>6. /\ g \in Seq(R)
        /\ DOMAIN disk' = Image /\ IsImg(disk'[name]) /\ disk'[name].fields = g
        /\ \A n \in Image \ {name} : disk'[n] = disk[n]
        /\ \/ g = f /\ pc' = "kernel" /\ ret' = ret /\ Unfit(f) = {}
           \/ /\ Exit("error") /\ Len(g) < Len(f) /\ Agrees(g, f, Len(g))
              /\ \A i \in Unfit(f) : Len(g) < i
    BY <2>20, Zenon DEF Cuts
  <2>7. Agrees(g, f, Len(g))
    BY <2>6, AgreesItself
  <2>8. ReadsAsBoot(g, v)
    BY <2>2, <2>7, BootPrefix
  <2>9. CASE g = f /\ pc' = "kernel" /\ Unfit(f) = {}
    <3>1. HasHeader(g, name, job)
      <4>1. Len(g) = HeaderFields(v)
        BY <1>3, <2>2, <2>4, <2>9
      <4>2. QED
        BY <1>5, <2>8, <4>1 DEF HasHeader, name, v
    <3>2. pc' \in BootPhase /\ pc' \notin VendorPhase
      BY <2>9 DEF VendorPhase, BootPhase
    <3>3. DiskInv' /\ \A n \in Image : ImageInv(n)'
      BY <1>1, <1>2, <2>1, <2>6, <3>1, <3>2, HeaderWritten DEF VendorPhase, BootPhase, name
    <3>4. JobInv'
      BY <1>1, <1>2, <1>5, <2>6, <3>1, <3>2 DEF JobInv, name, Outputs, BootPhase
    <3>5. InfoInv'
      BY <1>1, <2>9, InfoKept DEF ImagesInv
    <3>6. QED
      BY <3>3, <3>4, <3>5 DEF ImagesInv
  <2>10. CASE Exit("error") /\ Len(g) < Len(f) /\ \A i \in Unfit(f) : Len(g) < i
    <3>1. CutShort(g, name, job)
      <4>1. Len(g) < HeaderFields(v)
        <5>1. Len(g) \in Nat
          BY <2>6
        <5>2. CASE v >= 0
          BY <2>2, <2>4, <2>10, <5>2
        <5>3. CASE v < 0
          BY <2>4, <2>10, <5>1, <5>3
        <5>4. QED
          BY <1>3, <5>2, <5>3
      <4>2. QED
        BY <2>8, <4>1 DEF CutShort, name, v
    <3>2. DiskInv' /\ \A n \in Image : ImageInv(n)'
      BY <1>1, <1>2, <2>1, <2>6, <3>1, HeaderWritten DEF VendorPhase, BootPhase
    <3>3. JobInv'
      BY <2>10 DEF JobInv, Exit, Building, VendorPhase, BootPhase
    <3>4. InfoInv'
      BY <1>1, <2>10, InfoKept DEF ImagesInv, Exit
    <3>5. QED
      BY <3>2, <3>3, <3>4 DEF ImagesInv
  <2>11. QED
    BY <2>6, <2>9, <2>10
<1>6. QED
  BY <1>3, <1>4, <1>5 DEF Header, Exit, Version

\* What the images are once data has been written behind a header
LEMMA DataStep ==
  ASSUME ImagesInv, pc \in VendorPhase \cup BootPhase, pc' \in VendorPhase \cup BootPhase,
         pc \in VendorPhase <=> pc' \in VendorPhase, UNCHANGED <<job, builder, made, info>>,
         NEW name \in Image, NEW img, IsImg(img), img.fields = disk[name].fields,
         disk' = disk \/ disk' = [disk EXCEPT ![name] = img]
  PROVE  ImagesInv'
<1>1. /\ DOMAIN disk' = Image /\ \A n \in Image : IsImg(disk'[n])
      /\ \A n \in Image : disk'[n].fields = disk[n].fields
  BY DataWritten DEF ImagesInv, DiskInv
<1>2. pc \in Building /\ pc' \in Building /\ (pc \in BootPhase <=> pc' \in BootPhase)
      /\ pc # "unpack" /\ pc' # "unpack" /\ pc' # "vendor_header"
  BY DEF VendorPhase, BootPhase, Building
<1>3. DiskInv'
  BY <1>1 DEF ImagesInv, DiskInv
<1>4. IsJob(job)
  BY <1>2 DEF ImagesInv, JobInv
<1>5. /\ pc \in VendorPhase => job.vendor_boot \in Image
      /\ pc \in BootPhase => job.output \in Image
  BY <1>4 DEF ImagesInv, JobInv, IsJob
<1>6. JobInv'
  BY <1>1, <1>2, <1>5 DEF ImagesInv, JobInv, Outputs
<1>7. \A n \in Image : ImageInv(n)'
  BY <1>1, <1>2 DEF ImagesInv, ImageInv
<1>8. InfoInv'
  BY <1>2, InfoKept DEF ImagesInv
<1>9. QED
  BY <1>3, <1>6, <1>7, <1>8 DEF ImagesInv

\* What the images are once the last part of one has been written, or could not be
LEMMA LastStep ==
  ASSUME ImagesInv, NEW name \in Image, NEW img, IsImg(img), img.fields = disk[name].fields,
         UNCHANGED <<job, builder, info>>,
         disk' = disk \/ disk' = [disk EXCEPT ![name] = img],
         \/ pc \in VendorPhase /\ name = job.vendor_boot /\ pc' \in {"output", "idle"}
         \/ pc \in BootPhase /\ name = job.output /\ pc' = "idle",
         made' = [made EXCEPT ![name].whole = TRUE] \/ made' = made
  PROVE  ImagesInv'
<1>1. /\ DOMAIN disk' = Image /\ \A n \in Image : IsImg(disk'[n])
      /\ \A n \in Image : disk'[n].fields = disk[n].fields
  BY DataWritten DEF ImagesInv, DiskInv
<1>2. pc \in Building /\ pc' \notin VendorPhase \cup BootPhase \cup {"vendor_header", "parse",
         "unpack"}
      /\ pc # "unpack"
  BY DEF VendorPhase, BootPhase, Building
<1>3. /\ IsJob(job) /\ \A n \in Outputs : made[n].job = job /\ DOMAIN made[n] = {"job", "whole"}
      /\ \E R : builder.entries \in Seq(R)
      /\ Len(builder.entries) <= 3
      /\ HasHeader(disk[name].fields, name, job)
      /\ name # None
  BY <1>2 DEF ImagesInv, JobInv
<1>4. DOMAIN made = Image /\ name \in Outputs
  BY <1>3 DEF ImagesInv, DiskInv, Outputs
<1>5. /\ DOMAIN made' = Image
      /\ \A n \in Image : made'[n].job = made[n].job
      /\ \A n \in Outputs : DOMAIN made'[n] = {"job", "whole"}
      /\ \A n \in Image \ {name} : made'[n] = made[n]
  <2>1. CASE made' = [made EXCEPT ![name].whole = TRUE]
    <3> DEFINE new == [made[name] EXCEPT !.whole = TRUE]
    <3>1. new.job = made[name].job /\ new.whole = TRUE /\ DOMAIN new = {"job", "whole"}
      <4>1. DOMAIN made[name] = {"job", "whole"}
        BY <1>3, <1>4
      <4>2. QED
        BY <4>1
    <3>2. made' = [made EXCEPT ![name] = new]
      BY <2>1
    <3> HIDE DEF new
    <3>3. QED
      BY <1>3, <1>4, <3>1, <3>2
  <2>2. CASE made' = made
    BY <1>3, <1>4, <2>2
  <2>3. QED
    BY <2>1, <2>2
<1>6. DiskInv'
  BY <1>1, <1>5 DEF DiskInv
<1>7. JobInv'
  <2>1. Outputs \subseteq Image /\ Outputs' = Outputs
    BY <1>3 DEF IsJob, Outputs
  <2>2. \A n \in Outputs' : made'[n].job = job' /\ DOMAIN made'[n] = {"job", "whole"}
    BY <1>3, <1>5, <2>1
  <2>3. IsJob(job') /\ (\E R : builder'.entries \in Seq(R)) /\ Len(builder'.entries) <= 3
    BY <1>3
  <2>4. QED
    BY <1>2, <2>2, <2>3 DEF JobInv
<1>8. ASSUME NEW n \in Image PROVE ImageInv(n)'
  <2>1. CASE n = name
    <3>1. made'[n].job = job /\ disk'[n].fields = disk[n].fields
      BY <1>1, <1>3, <1>4, <1>5, <2>1
    <3>2. QED
      BY <1>3, <2>1, <3>1 DEF ImageInv
  <2>2. CASE n # name
    BY <1>1, <1>5, <2>2 DEF ImagesInv, ImageInv
  <2>3. QED
    BY <2>1, <2>2
<1>9. InfoInv'
  BY <1>2, InfoKept DEF ImagesInv
<1>10. QED
  BY <1>6, <1>7, <1>8, <1>9 DEF ImagesInv

\* What DataStep and LastStep ask of a part that is written
LEMMA Target ==
  ASSUME ImagesInv
  PROVE  /\ pc \in VendorPhase => job.vendor_boot \in Image /\ IsImg(disk[job.vendor_boot])
         /\ pc \in BootPhase => job.output \in Image /\ IsImg(disk[job.output])
<1>1. pc \in VendorPhase \cup BootPhase => pc \in Building /\ pc \notin {"unpack"}
  BY DEF VendorPhase, BootPhase, Building
<1>2. pc \in VendorPhase \cup BootPhase => IsJob(job)
  BY <1>1 DEF ImagesInv, JobInv
<1>3. QED
  BY <1>2 DEF ImagesInv, JobInv, IsJob, DiskInv

\* ... writing the parts of a boot image but the last
LEMMA BootDataStep ==
  ASSUME ImagesInv, WriteKernel \/ WriteRamdisk \/ WriteSecond \/ WriteDtbo \/ WriteDtb
  PROVE  ImagesInv'
<1>1. PICK here, next, f, present :
        here \in BootPhase /\ next \in BootPhase /\ WriteBoot(here, f, present, next)
  BY DEF WriteKernel, WriteRamdisk, WriteSecond, WriteDtbo, WriteDtb, BootPhase
<1> DEFINE name == job.output
           img == WritePadded(disk[name], here, f, DataPage)
<1>2. pc = here /\ pc' = next /\ UNCHANGED <<job, builder, made, info>>
      /\ (disk' = disk \/ disk' = [disk EXCEPT ![name] = img])
  BY <1>1 DEF WriteBoot, mk, unpack
<1>3. pc \in BootPhase /\ pc' \in BootPhase /\ pc \notin VendorPhase /\ pc' \notin VendorPhase
  BY <1>1, <1>2 DEF BootPhase, VendorPhase
<1>4. name \in Image /\ IsImg(disk[name])
  BY <1>3, Target
<1>5. IsImg(img) /\ img.fields = disk[name].fields
  BY <1>4, PaddedShape
<1> HIDE DEF name, img
<1>6. QED
  BY <1>2, <1>3, <1>4, <1>5, DataStep

\* ... signing it, which may fail
LEMMA SignatureStep ==
  ASSUME ImagesInv, AddBootImageSignature
  PROVE  ImagesInv'
<1> DEFINE name == job.output
           img == WritePadded(disk[name], "boot_signature", Signature, DataPage)
<1>1. /\ pc = "boot_signature" /\ pc' = "idle" /\ UNCHANGED <<job, builder, info>>
      /\ (disk' = disk \/ disk' = [disk EXCEPT ![name] = img])
      /\ \/ made' = [made EXCEPT ![name].whole = TRUE]
         \/ made' = made
  BY DEF AddBootImageSignature, Exit, mk, unpack
<1>2. pc \in BootPhase
  BY <1>1 DEF BootPhase
<1>3. name \in Image /\ IsImg(disk[name])
  BY <1>2, Target
<1>4. IsImg(img) /\ img.fields = disk[name].fields
  BY <1>3, PaddedShape
<1>5. QED
  BY <1>1, <1>2, <1>3, <1>4, LastStep

\* ... writing the parts of a vendor_boot image
LEMMA VendorDataStep ==
  ASSUME ImagesInv, WriteVendorRamdisk \/ WriteRamdisksPadded \/ WriteVendorDtb
                    \/ WriteEntriesPadded \/ WriteBootconfig
  PROVE  ImagesInv'
<1>1. pc \in VendorPhase
  BY DEF WriteVendorRamdisk, WriteRamdisksPadded, WriteVendorDtb, WriteEntriesPadded,
         WriteBootconfig, WriteVendor, VendorPhase
<1>2. job.vendor_boot \in Image /\ IsImg(Vendor)
  BY <1>1, Target DEF Vendor
<1>3. \E here, next, img :
        /\ here \in VendorPhase /\ next \in VendorPhase \cup {"output"}
        /\ WriteVendor(here, next, img) /\ IsImg(img) /\ img.fields = Vendor.fields
  <2>1. CASE WriteVendorRamdisk
    BY <1>2, <2>1, PaddedShape DEF WriteVendorRamdisk, VendorPhase
  <2>2. CASE WriteRamdisksPadded
    <3> DEFINE img == [Vendor EXCEPT
           !.ramdisks = [i \in 1..Added |-> [off  |-> Vendor.len + builder.entries[i].offset,
                                             file |-> builder.entries[i].file]],
           !.len = @ + builder.total + PadLen(@ + builder.total, job.pagesize)]
    <3>1. WriteVendor("vendor_ramdisks", "vendor_dtb", img)
      BY <2>2 DEF WriteRamdisksPadded
    <3>2. IsImg(img) /\ img.fields = Vendor.fields
      BY <1>2 DEF IsImg
    <3> HIDE DEF img
    <3>3. QED
      BY <3>1, <3>2 DEF VendorPhase
  <2>3. CASE WriteVendorDtb
    BY <1>2, <2>3, PaddedShape DEF WriteVendorDtb, VendorPhase
  <2>4. CASE WriteEntriesPadded
    <3> DEFINE size == Added * VENDOR_RAMDISK_TABLE_ENTRY_V4_SIZE
               img == [Vendor EXCEPT !.table = builder.entries, !.table_off = Vendor.len,
                                     !.len = @ + size + PadLen(@ + size, job.pagesize)]
    <3>1. WriteVendor("vendor_table", "vendor_bootconfig", img)
      BY <2>4 DEF WriteEntriesPadded
    <3>2. IsImg(img) /\ img.fields = Vendor.fields
      BY <1>2 DEF IsImg
    <3> HIDE DEF img
    <3>3. QED
      BY <3>1, <3>2 DEF VendorPhase
  <2>5. CASE WriteBootconfig
    BY <1>2, <2>5, PaddedShape DEF WriteBootconfig, VendorPhase
  <2>6. QED
    BY <2>1, <2>2, <2>3, <2>4, <2>5
<1>4. PICK here, next, img :
        /\ here \in VendorPhase /\ next \in VendorPhase \cup {"output"}
        /\ WriteVendor(here, next, img) /\ IsImg(img) /\ img.fields = Vendor.fields
  BY <1>3
<1>5. /\ pc = here /\ pc' = next /\ UNCHANGED <<job, builder, info>>
      /\ disk' = [disk EXCEPT ![job.vendor_boot] = img]
      /\ made' = IF next = "output" THEN [made EXCEPT ![job.vendor_boot].whole = TRUE] ELSE made
  BY <1>4 DEF WriteVendor, mk, unpack
<1>6. CASE next = "output"
  BY <1>1, <1>2, <1>4, <1>5, <1>6, LastStep DEF Vendor
<1>7. CASE next \in VendorPhase
  <2>1. "output" \notin VendorPhase
    BY DEF VendorPhase
  <2>2. QED
    BY <1>1, <1>2, <1>4, <1>5, <1>7, <2>1, DataStep DEF Vendor
<1>8. QED
  BY <1>4, <1>6, <1>7

\* ... leaving it behind half a table
LEMMA TableFailsStep ==
  ASSUME ImagesInv, WriteEntriesFails
  PROVE  ImagesInv'
<1> DEFINE name == job.vendor_boot
           first == CHOOSE i \in Unpackable : \A k \in Unpackable : i <= k
           img == CutTable(disk[name], builder.entries, first - 1)
<1>1. /\ pc = "vendor_table" /\ pc' = "idle" /\ UNCHANGED <<job, builder, made, info>>
      /\ disk' = [disk EXCEPT ![name] = img]
  BY DEF WriteEntriesFails, Exit, mk, unpack
<1>2. pc \in VendorPhase
  BY <1>1 DEF VendorPhase
<1>3. name \in Image /\ IsImg(disk[name])
  BY <1>2, Target
<1>4. IsImg(img) /\ img.fields = disk[name].fields
  BY <1>3 DEF CutTable, IsImg
<1>5. QED
  BY <1>1, <1>2, <1>3, <1>4, LastStep

\* The user starts a run of either script.
LEMMA BuildStep ==
  ASSUME ImagesInv, Build \/ Unpack
  PROVE  ImagesInv'
<1>1. pc = "idle" /\ UNCHANGED <<disk, made>> /\ pc \notin VendorPhase \cup BootPhase
  BY DEF Build, Unpack, VendorPhase, BootPhase
<1>2. DiskInv' /\ \A n \in Image : ImageInv(n)'
  BY <1>1, NothingWritten
<1>3. CASE Build
  <2>1. pc' = "parse" /\ UNCHANGED info /\ pc' \notin Building \cup VendorPhase \cup BootPhase
        /\ job' \in Jobs \cup LaterJobs
    BY <1>3 DEF Build, unpack, Building, VendorPhase, BootPhase
  <2>2. IsJob(job')
    BY <2>1, JobsAssumption DEF IsJob, Typed
  <2>3. JobInv'
    BY <2>1, <2>2 DEF JobInv
  <2>4. InfoInv'
    BY <1>1, <2>1, InfoKept DEF ImagesInv
  <2>5. QED
    BY <1>2, <2>3, <2>4 DEF ImagesInv
<1>4. CASE Unpack
  <2>1. PICK n \in Image : made[n] # None /\ info' = [image |-> n]
    BY <1>4 DEF Unpack
  <2>2. pc' = "unpack" /\ pc' \notin Building \cup VendorPhase \cup BootPhase \cup {"parse"}
    BY <1>4 DEF Unpack, Building, VendorPhase, BootPhase
  <2>3. JobInv'
    BY <2>2 DEF JobInv
  <2>4. InfoInv'
    BY <1>1, <2>1, <2>2 DEF InfoInv
  <2>5. QED
    BY <1>2, <2>3, <2>4 DEF ImagesInv
<1>5. QED
  BY <1>3, <1>4

\* What an option is when it is not printed
LEMMA DefaultJob ==
  /\ {"header_version", "output", "vendor_boot", "fragments",
           "vendor_ramdisk"} \subseteq DOMAIN Defaults
  /\ Defaults.output = None /\ Defaults.vendor_boot = None /\ Defaults.vendor_ramdisk = None
  /\ Defaults.fragments = << >>
BY DEF Defaults

\* format_mkbootimg_argument() prints a job as JobsAssumption has them.
LEMMA PrintedJob ==
  ASSUME GoodHeader(info.header, IsBoot(info.of))
  PROVE  IsJob(format_mkbootimg_argument)
<1> DEFINE h == info.header
           a == format_mkbootimg_argument
<1>1. h.header_version \in Int
  BY DEF GoodHeader
<1>2. "repacked.img" \in Image
  BY DEF Image
<1>3. << >> \in Seq({}) /\ Len(<< >>) = 0
  OBVIOUS
<1>4. CASE IsBoot(info.of)
  <2>1. a = OldBootArguments(h) \/ a = BootArguments(h)
    BY <1>4 DEF format_mkbootimg_argument
  <2> HIDE DEF a
  <2>2. /\ a.header_version = h.header_version /\ a.output = "repacked.img"
        /\ a.vendor_boot = None /\ a.fragments = << >>
    <3> DEFINE b == BootArguments(h)
    <3>1. /\ {"header_version", "output", "vendor_boot", "fragments"} \subseteq DOMAIN b
          /\ b.header_version = h.header_version /\ b.output = "repacked.img"
          /\ b.vendor_boot = None /\ b.fragments = << >>
      BY DefaultJob DEF BootArguments
    <3> HIDE DEF b
    <3>2. CASE a = OldBootArguments(h)
      <4> DEFINE second == FileIf(h.second_size > 0, "second")
                 dtbo == FileIf(h.recovery_dtbo_size > 0, "recovery_dtbo")
                 dtb == FileIf(h.dtb_size > 0, "dtb")
                 at == IF h.header_version = 2 THEN h.dtb_load_address ELSE b.dtb_offset
      <4>1. a = [b EXCEPT
                   !.second = second, !.recovery_dtbo = dtbo, !.dtb = dtb,
                   !.pagesize = h.page_size, !.base = PrintedBase,
                   !.kernel_offset = h.load[1], !.ramdisk_offset = h.load[2],
                   !.second_offset = h.load[3], !.tags_offset = h.load[4],
                   !.dtb_offset = at, !.board = h.product_name]
        BY <3>2 DEF OldBootArguments, b
      <4> HIDE DEF second, dtbo, dtb, at
      <4>2. QED
        BY <3>1, <4>1
    <3>3. QED
      BY <2>1, <3>1, <3>2 DEF b
  <2>3. a.output = None \/ a.output # a.vendor_boot
    BY <2>2
  <2>4. (\E R : a.fragments \in Seq(R)) /\ Len(a.fragments) <= 3 /\ Len(a.fragments) <= 2
    BY <1>3, <2>2
  <2>5. a.header_version \in Int /\ a.output \in Image \cup {None}
           /\ a.vendor_boot \in Image \cup {None}
    BY <1>1, <1>2, <2>2
  <2>6. IsJob(a)
    BY <2>3, <2>4, <2>5 DEF IsJob
  <2>7. QED
    BY <2>6 DEF a
<1>5. CASE ~IsBoot(info.of)
  <2> DEFINE table == h.table
             f == [i \in DOMAIN table |->
                     [file |-> outdir[RamdiskFile[i]], type |-> table[i].type,
                      name |-> table[i].name, board_id |-> table[i].board_id]]
             R == {f[i] : i \in DOMAIN table}
  <2>1. a = VendorArguments(h)
    BY <1>5 DEF format_mkbootimg_argument
  <2>2. /\ a.header_version = h.header_version /\ a.output = None
        /\ a.vendor_boot = "repacked.img" /\ a.fragments = f
        /\ h.header_version > 3 => a.vendor_ramdisk = None
    <3> HIDE DEF f
    <3>1. a = [Defaults EXCEPT
       !.header_version = h.header_version, !.pagesize = h.page_size, !.base = PrintedBase,
       !.kernel_offset = h.load[1], !.ramdisk_offset = h.load[2], !.tags_offset = h.load[4],
       !.dtb_offset = h.dtb_load_address, !.vendor_cmdline = h.cmdline,
       !.board = h.product_name, !.dtb = FileIf(h.dtb_size > 0, "dtb"),
       !.vendor_bootconfig = FileIf(h.header_version > 3, "bootconfig"),
       !.vendor_ramdisk = FileIf(h.header_version <= 3, "vendor_ramdisk"),
       !.fragments = f,
       !.vendor_boot = "repacked.img"]
      BY <2>1 DEF VendorArguments, f
    <3>2. h.header_version > 3 => FileIf(h.header_version <= 3, "vendor_ramdisk") = None
      BY <1>1 DEF FileIf
    <3>3. QED
      BY <3>1, <3>2, DefaultJob
  <2>3. /\ \E S : table \in Seq(S)
        /\ Len(table) <= 3 /\ (h.header_version > 3 \/ Len(table) = 0)
    BY <1>5 DEF GoodHeader
  <2>4. Len(table) \in Nat /\ DOMAIN table = 1..Len(table)
    BY <2>3
  <2>5. f \in [1..Len(table) -> R]
    BY <2>4
  <2> HIDE DEF R, f
  <2>6. f \in Seq(R) /\ Len(f) = Len(table)
    BY <2>4, <2>5, FunctionIsSeq, Zenon
  <2>7. QED
    BY <1>1, <1>2, <2>2, <2>3, <2>6 DEF IsJob
<1>6. QED
  BY <1>4, <1>5

\* The user builds the image again from what was printed.
LEMMA RepackStep ==
  ASSUME ImagesInv, Repack
  PROVE  ImagesInv'
<1>1. /\ pc = "idle" /\ UNCHANGED <<disk, made, info>> /\ pc \notin VendorPhase \cup BootPhase
      /\ pc' = "parse" /\ pc' \notin Building \cup VendorPhase \cup BootPhase
      /\ job' = format_mkbootimg_argument /\ info # None
  BY DEF Repack, unpack, Building, VendorPhase, BootPhase
<1>2. DiskInv' /\ \A n \in Image : ImageInv(n)'
  BY <1>1, NothingWritten
<1>3. IsJob(job')
  BY <1>1, PrintedJob DEF ImagesInv, InfoInv
<1>4. JobInv'
  BY <1>1, <1>3 DEF JobInv
<1>5. InfoInv'
  BY <1>1, InfoKept DEF ImagesInv
<1>6. QED
  BY <1>2, <1>4, <1>5 DEF ImagesInv

\* The steps of unpack_bootimg.py; only ReadHeader decides what is accepted.
LEMMA UnpackSteps ==
  ASSUME ImagesInv, UnpackStep
  PROVE  ImagesInv'
<1>1. /\ pc \in {"unpack", "extract"} /\ UNCHANGED <<disk, made, job, builder>>
      /\ pc' \in {"idle", "extract"}
  BY DEF UnpackStep, ReadHeader, ExtractImage, LinkAndPrint, mk
<1>2. pc \notin VendorPhase \cup BootPhase
      /\ pc' \notin Building \cup VendorPhase \cup BootPhase \cup {"parse"}
  BY <1>1 DEF Building, VendorPhase, BootPhase
<1>3. DiskInv' /\ (\A n \in Image : ImageInv(n)') /\ JobInv'
  BY <1>1, <1>2, NothingWritten DEF JobInv
<1>4. CASE ReadHeader
  <2>1. pc = "unpack" /\ pc' # "unpack"
    BY <1>1, <1>4 DEF ReadHeader
  <2>2. Name \in Image /\ made[Name] # None /\ ImageInv(Name)
    BY <2>1 DEF ImagesInv, InfoInv, Name
  <2>3. CASE ~Readable(Source)
    <3>1. info' = None
      BY <1>4, <2>3 DEF ReadHeader
    <3>2. QED
      BY <1>3, <2>1, <3>1 DEF ImagesInv, InfoInv
  <2>4. CASE Readable(Source)
    <3> DEFINE a == made[Name].job
               h == IF IsBoot(Source) THEN BootInfo(Source.fields) ELSE VendorInfo(Source)
    <3>1. IsJob(a) /\ ~CutShort(Source.fields, Name, a)
      BY <2>2, <2>4, CutNotReadable DEF ImageInv, Source
    <3>2. HasHeader(Source.fields, Name, a)
      BY <2>2, <3>1 DEF ImageInv, Source
    <3>3. GoodHeader(h, IsBoot(Source))
      BY <2>4, <3>1, <3>2, HeaderRead
    <3>4. info' = [image |-> Name, header |-> h, of |-> Source, job |-> made[Name]]
      BY <1>4, <2>4 DEF ReadHeader
    <3>5. InfoInv'
      <4> HIDE DEF h
      <4>1. info'.header = h /\ info'.of = Source /\ info'.job = made[Name]
        BY <3>4
      <4>2. QED
        BY <2>1, <3>1, <3>2, <3>3, <4>1 DEF InfoInv, IsBoot, Magic
    <3>6. QED
      BY <1>3, <3>5 DEF ImagesInv
  <2>5. QED
    BY <2>3, <2>4
<1>5. CASE ExtractImage \/ LinkAndPrint
  <2>1. UNCHANGED info /\ pc # "unpack" /\ pc' # "unpack"
    BY <1>5 DEF ExtractImage, LinkAndPrint
  <2>2. QED
    BY <1>3, <2>1, InfoKept DEF ImagesInv
<1>6. QED
  BY <1>4, <1>5 DEF UnpackStep

\* ImagesInv is inductive.
LEMMA ImagesStep ==
  ASSUME ImagesInv, [Next]_vars
  PROVE  ImagesInv'
<1>1. CASE Build \/ Unpack
  BY <1>1, BuildStep
<1>2. CASE Repack
  BY <1>2, RepackStep
<1>3. CASE MkbootimgStep
  <2>1. CASE UsageError \/ ParseCmdline
    BY <2>1, ParseStep
  <2>2. CASE AddEntry \/ EntriesAdded \/ CheckVendorBoot
    BY <2>2, TableStep
  <2>3. CASE VendorHeader
    BY <2>3, VendorHeaderStep
  <2>4. CASE WriteVendorRamdisk \/ WriteRamdisksPadded \/ WriteVendorDtb
             \/ WriteEntriesPadded \/ WriteBootconfig
    BY <2>4, VendorDataStep
  <2>9. CASE WriteEntriesFails
    BY <2>9, TableFailsStep
  <2>5. CASE Header
    BY <2>5, HeaderStep
  <2>6. CASE WriteKernel \/ WriteRamdisk \/ WriteSecond \/ WriteDtbo \/ WriteDtb
    BY <2>6, BootDataStep
  <2>7. CASE AddBootImageSignature
    BY <2>7, SignatureStep
  <2>8. QED
    BY <1>3, <2>1, <2>2, <2>3, <2>4, <2>5, <2>6, <2>7, <2>9 DEF MkbootimgStep
<1>4. CASE UnpackStep
  BY <1>4, UnpackSteps
<1>5. CASE UNCHANGED vars
  <2>1. UNCHANGED <<pc, job, builder, disk, made, info>>
    BY <1>5 DEF vars, mk, unpack
  <2>2. DiskInv' /\ JobInv' /\ InfoInv' /\ \A n \in Image : ImageInv(n)'
    BY <2>1 DEF ImagesInv, DiskInv, JobInv, InfoInv, ImageInv, Outputs
  <2>3. QED
    BY <2>2 DEF ImagesInv
<1>6. QED
  BY <1>1, <1>2, <1>3, <1>4, <1>5 DEF Next, Step
================================================================================
