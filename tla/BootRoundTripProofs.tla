--------------------------- MODULE BootRoundTripProofs ---------------------------
(***********************************************************************************)
(* Proofs that what is put into an image comes out of it again, and that the       *)
(* printed command line builds the same image.                                     *)
(*                                                                                 *)
(* An image is written down as a function of its job, part by part (Signed,        *)
(* VendorWhole); BootPlaced and VendorPlaced say where its parts lie, BootReads    *)
(* and VendorReads that this is where unpack_bootimg.py looks for them. The        *)
(* invariant, TripInv, says that the images on disk and the output directory are   *)
(* what these functions say, as far as the two scripts have come: see BuilderInv   *)
(* to ListInv. The sections follow the actions that preserve it, the theorems on   *)
(* what comes out follow. CutNotReadable and CutTableRefused say that an image     *)
(* abandoned in its header or in its table is not read, hence AbandonedRefused.    *)
(* RebuildInv adds what the last run of a job nothing stops has left, and that the *)
(* fields of a whole image fit, TypesInv that its table does; SameBootImage and    *)
(* SameVendorImage say that the printed job and the first one make one image,      *)
(* hence RebuiltEqual. The last section proves the types, with TypeInv.            *)
(***********************************************************************************)
EXTENDS BootImagesProofs

-------------------------------------------------------------------------------
(* How wide headers are                                                        *)

\* The width of a header is the sum of the widths of its fields.
LEMMA WidthSum ==
  ASSUME NEW n \in Nat, NEW f, HasFields(f, n)
  PROVE  \E s : /\ Width(f) = s[n] /\ s[0] = 0
                /\ \A k \in 1..n : s[k] = s[k - 1] + f[k].w
                /\ (\A k \in 1..n : f[k].w \in Nat) => s[n] \in Nat
<1> DEFINE w == [k \in 1..n |-> f[k].w]
           body(s) == [i \in 0..Len(f) |-> IF i = 0 THEN 0 ELSE s[i - 1] + f[i].w]
           sum == CHOOSE s : s = body(s)
<1>1. Len(f) = n
  BY DEF HasFields
<1>2. ASSUME NEW s PROVE body(s) = Summed(w, n, s)
  <2>1. ASSUME NEW k \in 0..n PROVE body(s)[k] = Summed(w, n, s)[k]
    <3>1. k # 0 => k \in 1..n
      OBVIOUS
    <3>2. QED
      BY <1>1, <3>1 DEF Summed
  <2>2. QED
    BY <1>1, <2>1 DEF Summed
<1>3. Width(f) = sum[n]
  BY <1>1 DEF Width
<1> HIDE DEF body
<1>4. \E s : s = body(s)
  BY <1>2, SummedExists
<1>5. sum = Summed(w, n, sum)
  BY <1>2, <1>4
<1> HIDE DEF sum
<1>6. sum[0] = 0 /\ \A k \in 1..n : sum[k] = sum[k - 1] + w[k]
  BY <1>5, SummedStep
<1>7. (\A k \in 1..n : f[k].w \in Nat) => sum[n] \in Nat
  BY <1>5, SummedNat
<1>8. QED
  BY <1>3, <1>6, <1>7

\* All fields of a header have a width.
Wide(f) == \A k \in 1..Len(f) : f[k].w \in Nat

\* The widths of the fields, and so what main() says the sizes of its headers are:
\* BOOT_IMAGE_HEADER_V3_SIZE and BOOT_IMAGE_HEADER_V4_SIZE,
LEMMA V3Width ==
  ASSUME NEW a, a.header_version \in 3..4
  PROVE  Width(V3Fields(a)) = V3HeaderSize(a) /\ Wide(V3Fields(a))
<1> DEFINE f == V3Fields(a)
           n == HeaderFields(a.header_version)
<1>1. n = IF a.header_version = 4 THEN 12 ELSE 11
  BY DEF HeaderFields
<1>2. HasFields(f, n) /\ Agrees(f, V3Front(a), 11)
      /\ (a.header_version = 4 => Follows(f, V4Rest, 11, 1))
  BY V3Shape
<1>3. \A k \in 1..11 : f[k].w = <<8, 4, 4, 4, 4, 4, 4, 4, 4, 4, 1536>>[k]
  <2>1. \A k \in 1..11 : V3Front(a)[k].w = <<8, 4, 4, 4, 4, 4, 4, 4, 4, 4, 1536>>[k]
    BY DEF V3Front, Field, BOOT_ARGS_SIZE, BOOT_EXTRA_ARGS_SIZE
  <2>2. QED
    BY <1>2, <2>1 DEF Agrees
<1>4. a.header_version = 4 => f[12].w = 4
  <2>1. V4Rest[1].w = 4 /\ 1 \in 1..1 /\ 11 + 1 = 12
    BY DEF V4Rest, Field
  <2>2. QED
    BY <1>2, <2>1 DEF Follows
<1>5. PICK s : /\ Width(f) = s[n] /\ s[0] = 0
               /\ \A k \in 1..n : s[k] = s[k - 1] + f[k].w
  BY <1>1, <1>2, WidthSum
<1> HIDE DEF f, n
<1>6. \A k \in 1..11 : s[k] = s[k - 1] + f[k].w
  BY <1>1, <1>5
<1>7. s[11] = 1580
  <2>1. /\ s[1] = 8 /\ s[2] = s[1] + 4 /\ s[3] = s[2] + 4 /\ s[4] = s[3] + 4
        /\ s[5] = s[4] + 4 /\ s[6] = s[5] + 4 /\ s[7] = s[6] + 4 /\ s[8] = s[7] + 4
        /\ s[9] = s[8] + 4 /\ s[10] = s[9] + 4 /\ s[11] = s[10] + 1536
    BY <1>3, <1>5, <1>6
  <2>2. QED
    BY <2>1
<1>8. a.header_version = 4 => s[12] = 1584
  BY <1>1, <1>4, <1>5, <1>7
<1>9. Len(f) = n
  BY <1>2 DEF HasFields
<1>10. Wide(f)
  <2>1. \A k \in 1..11 : f[k].w \in Nat
    BY <1>3
  <2>2. \A k \in 1..n : k \in 1..11 \/ (a.header_version = 4 /\ k = 12)
    BY <1>1
  <2>3. \A k \in 1..n : f[k].w \in Nat
    BY <1>4, <2>1, <2>2
  <2>4. QED
    BY <1>9, <2>3 DEF Wide
<1>11. QED
  BY <1>1, <1>5, <1>7, <1>8, <1>10 DEF f, V3HeaderSize

\* the sizes in write_header(), 1648 and 1660, and BOOT_IMAGE_HEADER_V0_SIZE,
V0HeaderSize(a) ==
    CASE a.header_version = 0 -> 1632 [] a.header_version = 1 -> 1648
      [] a.header_version = 2 -> 1660

LEMMA V0Width ==
  ASSUME NEW a, a.header_version \in 0..2
  PROVE  Width(V0Fields(a)) = V0HeaderSize(a) /\ Wide(V0Fields(a))
<1> DEFINE f == V0Fields(a)
           v == a.header_version
           n == HeaderFields(a.header_version)
           w == <<8, 4, 4, 4, 4, 4, 4, 4, 4, 4, 4, 16, 512, 32, 1024>>
<1>1. n = CASE v = 0 -> 15 [] v = 1 -> 18 [] v = 2 -> 20
  BY DEF HeaderFields
<1>2. /\ HasFields(f, n) /\ Agrees(f, V0Front(a), 15)
      /\ v > 0 => Follows(f, V1Rest(a), 15, 3)
      /\ v = 2 => Follows(f, V2Rest(a), 18, 2)
  BY V0Shape
<1>3. \A k \in 1..15 : f[k].w = w[k]
  <2>1. \A k \in 1..15 : V0Front(a)[k].w = w[k]
    BY DEF V0Front, Field, BOOT_ARGS_SIZE, BOOT_EXTRA_ARGS_SIZE, BOOT_NAME_SIZE
  <2>2. QED
    BY <1>2, <2>1 DEF Agrees
<1>4. v > 0 => f[16].w = 4 /\ f[17].w = 8 /\ f[18].w = 4
  <2>1. V1Rest(a)[1].w = 4 /\ V1Rest(a)[2].w = 8 /\ V1Rest(a)[3].w = 4
    BY DEF V1Rest, Field
  <2>2. 1 \in 1..3 /\ 2 \in 1..3 /\ 3 \in 1..3 /\ 15 + 1 = 16 /\ 15 + 2 = 17 /\ 15 + 3 = 18
    OBVIOUS
  <2>3. QED
    BY <1>2, <2>1, <2>2 DEF Follows
<1>5. v = 2 => f[19].w = 4 /\ f[20].w = 8
  <2>1. V2Rest(a)[1].w = 4 /\ V2Rest(a)[2].w = 8
    BY DEF V2Rest, Field
  <2>2. 1 \in 1..2 /\ 2 \in 1..2 /\ 18 + 1 = 19 /\ 18 + 2 = 20
    OBVIOUS
  <2>3. QED
    BY <1>2, <2>1, <2>2 DEF Follows
<1>6. PICK s : /\ Width(f) = s[n] /\ s[0] = 0
               /\ \A k \in 1..n : s[k] = s[k - 1] + f[k].w
  BY <1>1, <1>2, WidthSum
<1>7. n \in 15..20 /\ v \in 0..2
  BY <1>1
<1> HIDE DEF f, n
<1>8. \A k \in 1..15 : s[k] = s[k - 1] + f[k].w
  BY <1>6, <1>7
<1>9. s[15] = 1632
  <2>1. /\ s[1] = 8 /\ s[2] = s[1] + 4 /\ s[3] = s[2] + 4 /\ s[4] = s[3] + 4
        /\ s[5] = s[4] + 4 /\ s[6] = s[5] + 4 /\ s[7] = s[6] + 4 /\ s[8] = s[7] + 4
        /\ s[9] = s[8] + 4 /\ s[10] = s[9] + 4 /\ s[11] = s[10] + 4
        /\ s[12] = s[11] + 16 /\ s[13] = s[12] + 512 /\ s[14] = s[13] + 32
        /\ s[15] = s[14] + 1024
    BY <1>3, <1>6, <1>8
  <2>2. QED
    BY <2>1
<1>10. v > 0 => s[16] = 1636 /\ s[17] = 1644 /\ s[18] = 1648
  BY <1>1, <1>4, <1>6, <1>7, <1>9
<1>11. v = 2 => s[18] = 1648 /\ s[19] = 1652 /\ s[20] = 1660
  BY <1>1, <1>5, <1>6, <1>7, <1>10
<1>12. Len(f) = n
  BY <1>2 DEF HasFields
<1>13. Wide(f)
  <2>1. \A k \in 1..15 : f[k].w \in Nat
    BY <1>3
  <2>2. \A k \in 1..n : k \in 1..15 \/ (v > 0 /\ k \in {16, 17, 18}) \/ (v = 2 /\ k \in {19, 20})
    BY <1>1, <1>7
  <2>3. \A k \in 1..n : f[k].w \in Nat
    BY <1>4, <1>5, <2>1, <2>2
  <2>4. QED
    BY <1>12, <2>3 DEF Wide
<1>14. QED
  BY <1>1, <1>6, <1>7, <1>9, <1>10, <1>11, <1>13 DEF f, V0HeaderSize

\* VENDOR_BOOT_IMAGE_HEADER_V3_SIZE and VENDOR_BOOT_IMAGE_HEADER_V4_SIZE.
VendorHeaderSize(a) == IF a.header_version > 3 THEN 2128 ELSE 2112

LEMMA VendorWidth ==
  ASSUME NEW a, NEW b, a.header_version \in Int
  PROVE  Width(VendorFields(a, b)) = VendorHeaderSize(a) /\ Wide(VendorFields(a, b))
<1> DEFINE f == VendorFields(a, b)
           n == VendorFull(a.header_version)
           w == <<8, 4, 4, 4, 4, 4, 2048, 4, 16, 4, 4, 8>>
<1>1. n = IF a.header_version > 3 THEN 16 ELSE 12
  BY DEF VendorFull
<1>2. HasFields(f, n) /\ Agrees(f, VendorFront(a, b), 12)
      /\ (a.header_version > 3 => Follows(f, VendorRest(a, b), 12, 4))
  BY VendorShape
<1>3. \A k \in 1..12 : f[k].w = w[k]
  <2>1. \A k \in 1..12 : VendorFront(a, b)[k].w = w[k]
    BY DEF VendorFront, Field, VENDOR_BOOT_ARGS_SIZE, BOOT_NAME_SIZE
  <2>2. QED
    BY <1>2, <2>1 DEF Agrees
<1>4. a.header_version > 3 => f[13].w = 4 /\ f[14].w = 4 /\ f[15].w = 4 /\ f[16].w = 4
  <2>1. \A k \in 1..4 : VendorRest(a, b)[k].w = 4
    BY DEF VendorRest, Field
  <2>2. 12 + 1 = 13 /\ 12 + 2 = 14 /\ 12 + 3 = 15 /\ 12 + 4 = 16
    OBVIOUS
  <2>3. QED
    BY <1>2, <2>1, <2>2 DEF Follows
<1>5. PICK s : /\ Width(f) = s[n] /\ s[0] = 0
               /\ \A k \in 1..n : s[k] = s[k - 1] + f[k].w
  BY <1>1, <1>2, WidthSum
<1> HIDE DEF f, n
<1>6. \A k \in 1..12 : s[k] = s[k - 1] + f[k].w
  BY <1>1, <1>5
<1>7. s[12] = 2112
  <2>1. /\ s[1] = 8 /\ s[2] = s[1] + 4 /\ s[3] = s[2] + 4 /\ s[4] = s[3] + 4
        /\ s[5] = s[4] + 4 /\ s[6] = s[5] + 4 /\ s[7] = s[6] + 2048 /\ s[8] = s[7] + 4
        /\ s[9] = s[8] + 16 /\ s[10] = s[9] + 4 /\ s[11] = s[10] + 4 /\ s[12] = s[11] + 8
    BY <1>3, <1>5, <1>6
  <2>2. QED
    BY <2>1
<1>8. a.header_version > 3 => s[13] = 2116 /\ s[14] = 2120 /\ s[15] = 2124 /\ s[16] = 2128
  BY <1>1, <1>4, <1>5, <1>7
<1>9. Len(f) = n
  BY <1>2 DEF HasFields
<1>10. Wide(f)
  <2>1. \A k \in 1..12 : f[k].w \in Nat
    BY <1>3
  <2>2. \A k \in 1..n : k \in 1..12 \/ (a.header_version > 3 /\ k \in {13, 14, 15, 16})
    BY <1>1
  <2>3. \A k \in 1..n : f[k].w \in Nat
    BY <1>4, <2>1, <2>2
  <2>4. QED
    BY <1>9, <2>3 DEF Wide
<1>11. QED
  BY <1>1, <1>5, <1>7, <1>8, <1>10 DEF f, VendorHeaderSize

-------------------------------------------------------------------------------
(* Writing a part behind what is there                                         *)

\* Padding up to a multiple of a page is rounding up to whole pages.
LEMMA PaddedPages ==
  ASSUME NEW page \in PageSizes, NEW m \in Nat, NEW size \in Nat
  PROVE  /\ page * m + size + PadLen(page * m + size, page)
              = page * (m + get_number_of_pages(size, page))
         /\ get_number_of_pages(size, page) \in Nat
         /\ page * m \in Nat /\ page * (m + get_number_of_pages(size, page)) \in Nat
         /\ page * m + size <= page * (m + get_number_of_pages(size, page))
         /\ size > 0 => get_number_of_pages(size, page) > 0
         /\ size = 0 => get_number_of_pages(size, page) = 0
<1>1. CASE page = 2048
  BY <1>1 DEF PadLen, get_number_of_pages
<1>2. CASE page = 4096
  BY <1>2 DEF PadLen, get_number_of_pages
<1>3. CASE page = 8192
  BY <1>3 DEF PadLen, get_number_of_pages
<1>4. CASE page = 16384
  BY <1>4 DEF PadLen, get_number_of_pages
<1>5. QED
  BY <1>1, <1>2, <1>3, <1>4 DEF PageSizes

\* An image in which every file lies within what has been written, and no two with
\* bytes at the same place.
Holds(c) == c.file # None /\ c.file.size > 0
Tidy(img) ==
    /\ DOMAIN img = DOMAIN Opened /\ img.at = [p \in Part |-> img.at[p]]
    /\ img.len \in Nat
    /\ \A c \in Chunks(img) :
         c.off \in Nat /\ (c.file # None => c.file.size \in Nat /\ c.off + c.file.size <= img.len)
    /\ \A c, d \in Chunks(img) : Holds(c) /\ Holds(d) /\ c.off = d.off => c = d

\* Where write_padded_file() puts a file.
Placed(off, f) == IF filesize(f) = 0 THEN NoPart ELSE [off |-> off, file |-> f]

\* A file that is there is read when it is asked for where it is.
LEMMA ReadHeld ==
  ASSUME NEW img, Tidy(img), NEW c \in Chunks(img), Holds(c)
  PROVE  Read(img, c.off, c.file.size) = c.file
<1> DEFINE hits == {d \in Chunks(img) : d.file # None /\ d.off = c.off
                                        /\ d.file.size = c.file.size}
<1>1. c.off \in Nat /\ c.file.size \in Nat /\ c.off + c.file.size <= img.len /\ img.len \in Nat
  BY DEF Tidy, Holds
<1>2. c \in hits
  BY DEF Holds
<1>3. \A d \in hits : d = c
  BY DEF Tidy, Holds
<1>4. (CHOOSE d \in hits : TRUE) = c
  BY <1>2, <1>3
<1>5. ~(c.file.size = 0 \/ c.off >= img.len)
  BY <1>1 DEF Holds
<1> HIDE DEF hits
<1>6. hits # {}
  BY <1>2
<1>7. QED
  BY <1>4, <1>5, <1>6 DEF Read, hits

\* Nothing is read where nothing is asked for.
LEMMA ReadNothing == ASSUME NEW img, NEW off PROVE Read(img, off, 0) = Empty
BY DEF Read

\* write_padded_file() behind m whole pages
CanWrite(img, page, m, part, f) ==
    /\ Tidy(img) /\ page \in PageSizes /\ m \in Nat /\ img.len = page * m
    /\ part \in Part /\ img.at[part] = NoPart
    /\ f = None \/ f.size \in Nat
Written(new, img, page, m, part, f) ==
    /\ Tidy(new)
    /\ new.len = page * (m + get_number_of_pages(filesize(f), page))
    /\ m + get_number_of_pages(filesize(f), page) \in Nat
    /\ new.at = [img.at EXCEPT ![part] = Placed(page * m, f)]
    /\ new.fields = img.fields /\ new.ramdisks = img.ramdisks
    /\ new.table = img.table /\ new.table_off = img.table_off

LEMMA WrittenPart ==
  ASSUME NEW img, NEW page, NEW m, NEW part, NEW f, CanWrite(img, page, m, part, f)
  PROVE  Written(WritePadded(img, part, f, page), img, page, m, part, f)
<1>0. /\ Tidy(img) /\ page \in PageSizes /\ m \in Nat /\ img.len = page * m
      /\ part \in Part /\ img.at[part] = NoPart
      /\ f = None \/ f.size \in Nat
  BY DEF CanWrite
<1> DEFINE new == WritePadded(img, part, f, page)
           more == get_number_of_pages(filesize(f), page)
<1>1. filesize(f) \in Nat /\ (f # None => filesize(f) = f.size)
  BY <1>0 DEF filesize
<1>2. /\ page * m + filesize(f) + PadLen(page * m + filesize(f), page) = page * (m + more)
      /\ more \in Nat /\ page * m \in Nat /\ page * (m + more) \in Nat
      /\ filesize(f) = 0 => more = 0
      /\ page * m + filesize(f) <= page * (m + more)
  BY <1>0, <1>1, PaddedPages
<1>3. /\ DOMAIN img = DOMAIN Opened /\ img.at = [p \in Part |-> img.at[p]]
      /\ img.at[part] = NoPart
  BY <1>0 DEF Tidy
<1>4. {"at", "len", "fields", "ramdisks", "table", "table_off"} \subseteq DOMAIN img
  BY <1>3 DEF Opened
<1>5. CASE f = None
  <2>1. new = img /\ more = 0
    BY <1>1, <1>2, <1>5 DEF WritePadded, filesize
  <2>2. Placed(page * m, f) = NoPart
    BY <1>5 DEF Placed, filesize
  <2> HIDE DEF new, more
  <2>3. img.at = [img.at EXCEPT ![part] = NoPart]
    BY <1>3
  <2>4. QED
    BY <1>0, <2>1, <2>2, <2>3 DEF new, more, Written
<1>6. CASE f # None
  <2> DEFINE chunk == IF f.size = 0 THEN img.at[part] ELSE [off |-> img.len, file |-> f]
  <2>1. new = [img EXCEPT !.at[part] = chunk,
                          !.len = @ + f.size + PadLen(@ + f.size, page)]
    BY <1>6 DEF WritePadded
  <2>2. chunk = Placed(page * m, f)
    BY <1>0, <1>1, <1>3, <1>6 DEF Placed
  <2> HIDE DEF chunk, new, more
  <2>3. /\ DOMAIN new = DOMAIN Opened
        /\ new.len = page * (m + more)
        /\ new.at = [img.at EXCEPT ![part] = Placed(page * m, f)]
        /\ new.fields = img.fields /\ new.ramdisks = img.ramdisks
        /\ new.table = img.table /\ new.table_off = img.table_off
    BY <1>0, <1>1, <1>2, <1>3, <1>4, <1>6, <2>1, <2>2
  <2>4. new.at = [p \in Part |-> new.at[p]] /\ new.len \in Nat /\ img.len <= new.len
    <3>1. new.at = [p \in Part |-> new.at[p]]
      BY <1>3, <2>3
    <3>2. QED
      BY <1>0, <1>1, <1>2, <2>3, <3>1
  <2>5. \A c \in Chunks(new) :
           \/ c \in Chunks(img)
           \/ c = [off |-> page * m, file |-> f] /\ f.size > 0
    BY <1>0, <1>1, <1>3, <1>6, <2>3 DEF Chunks, Placed
  <2>6. ASSUME NEW c \in Chunks(new)
        PROVE  /\ c.off \in Nat
               /\ c.file # None => c.file.size \in Nat /\ c.off + c.file.size <= new.len
    <3>1. CASE c \in Chunks(img)
      BY <1>0, <2>4, <3>1 DEF Tidy
    <3>2. CASE c = [off |-> page * m, file |-> f]
      BY <1>0, <1>1, <1>2, <1>6, <2>3, <3>2
    <3>3. QED
      BY <1>0, <2>5, <3>1, <3>2
  <2>7. ASSUME NEW c \in Chunks(new), NEW d \in Chunks(new), Holds(c), Holds(d), c.off = d.off
        PROVE  c = d
    <3>1. ASSUME NEW x \in Chunks(img), Holds(x) PROVE x.off < page * m
      BY <1>0, <1>2, <3>1 DEF Tidy, Holds
    <3>2. CASE c \in Chunks(img) /\ d \in Chunks(img)
      BY <1>0, <2>7, <3>2 DEF Tidy
    <3>3. CASE c \notin Chunks(img) \/ d \notin Chunks(img)
      <4>1. c.off = page * m /\ d.off = page * m
        BY <2>5, <2>7, <3>3
      <4>2. c \notin Chunks(img) /\ d \notin Chunks(img)
        BY <1>0, <1>2, <2>7, <3>1, <4>1
      <4>3. QED
        BY <2>5, <4>2
    <3>4. QED
      BY <3>2, <3>3
  <2>8. Tidy(new)
    BY <1>0, <2>3, <2>4, <2>6, <2>7 DEF Tidy
  <2>9. QED
    BY <1>0, <1>2, <2>3, <2>8 DEF new, more, Written
<1>7. QED
  BY <1>5, <1>6

-------------------------------------------------------------------------------
(* The boot image of a job, part by part as write_data() writes it             *)

PageOf(a) == IF a.header_version > 2 THEN BOOT_IMAGE_HEADER_V3_PAGESIZE ELSE a.pagesize
BootFields(a) == IF a.header_version > 2 THEN V3Fields(a) ELSE V0Fields(a)
SignatureOf(a) == [id |-> a.signature, size |-> BOOT_IMAGE_V4_SIGNATURE_SIZE]

\* What is behind a header, and which of them go into a boot image
Headed(fields, page) ==
    [Opened EXCEPT !.fields = fields, !.len = Width(fields) + PadLen(Width(fields), page)]
WithHeader(a)  == Headed(BootFields(a), PageOf(a))
WithKernel(a)  == WritePadded(WithHeader(a), "kernel", a.kernel, PageOf(a))
WithRamdisk(a) == WritePadded(WithKernel(a), "ramdisk", a.ramdisk, PageOf(a))
WithSecond(a)  == WritePadded(WithRamdisk(a), "second", a.second, PageOf(a))
DtboOf(a) == IF a.header_version \in {1, 2} THEN a.recovery_dtbo ELSE None
DtbOf(a)  == IF a.header_version = 2 THEN a.dtb ELSE None
WithDtbo(a)    == WritePadded(WithSecond(a), "recovery_dtbo", DtboOf(a), PageOf(a))
WithDtb(a)     == WritePadded(WithDtbo(a), "dtb", DtbOf(a), PageOf(a))
Signed(a) == IF a.header_version < 4 THEN WithDtb(a)
             ELSE WritePadded(WithDtb(a), "boot_signature", SignatureOf(a), PageOf(a))

\* What main() and pack() let through
GoodBoot(a) ==
    /\ Typed(a) /\ a.header_version \in 0..4 /\ a.pagesize \in PageSizes
    /\ a.header_version > 2 => a.second = None
    /\ a.header_version = 2 => filesize(a.dtb) > 0

\* An option that names a file
LEMMA FileSizes ==
  ASSUME NEW f \in File \cup {None}
  PROVE  /\ f = None \/ f.size \in Nat
         /\ filesize(f) \in Nat
         /\ filesize(f) > 0 => f # None /\ f.size = filesize(f)
         /\ BytesOf(f) \in File
         /\ filesize(f) > 0 => BytesOf(f) = f
         /\ filesize(f) = 0 => BytesOf(f) = Empty /\ (f # None => f = Empty)
BY DEF File, Empty, filesize, BytesOf

\* Every header fits in as many pages as its size says.
LEMMA HeadedTidy ==
  ASSUME NEW fields, Width(fields) \in Nat, NEW page \in PageSizes
  PROVE  /\ Tidy(Headed(fields, page)) /\ Headed(fields, page).fields = fields
         /\ Headed(fields, page).len = page * get_number_of_pages(Width(fields), page)
         /\ Headed(fields, page).at = [p \in Part |-> NoPart]
         /\ Headed(fields, page).ramdisks = << >> /\ Headed(fields, page).table = << >>
         /\ Headed(fields, page).table_off = 0
<1> DEFINE w == Width(fields)
           img == Headed(fields, page)
<1>1. page * 0 + w + PadLen(page * 0 + w, page) = page * (0 + get_number_of_pages(w, page))
      /\ page * (0 + get_number_of_pages(w, page)) \in Nat /\ get_number_of_pages(w, page) \in Nat
  BY PaddedPages
<1>2. page * 0 + w = w /\ 0 + get_number_of_pages(w, page) = get_number_of_pages(w, page)
  BY <1>1 DEF PageSizes
<1>3. /\ DOMAIN img = DOMAIN Opened /\ img.fields = fields /\ img.len = w + PadLen(w, page)
      /\ img.at = [p \in Part |-> NoPart] /\ img.ramdisks = << >> /\ img.table = << >>
      /\ img.table_off = 0
  BY DEF Headed, Opened
<1> HIDE DEF img
<1>4. \A c \in Chunks(img) : c = NoPart
  BY <1>3 DEF Chunks
<1>5. img.len \in Nat
  BY <1>1, <1>2, <1>3
<1>6. Tidy(img)
  BY <1>3, <1>4, <1>5 DEF Tidy, NoPart, Holds
<1>7. QED
  BY <1>1, <1>2, <1>3, <1>6 DEF img

\* A header that fits in a page takes one.
LEMMA OnePage ==
  ASSUME NEW page \in PageSizes, NEW w \in 1..2048
  PROVE  get_number_of_pages(w, page) = 1
BY DEF PageSizes, get_number_of_pages

LEMMA BootWidth ==
  ASSUME NEW a, a.header_version \in 0..4
  PROVE  Width(BootFields(a)) \in 1..2048 /\ Wide(BootFields(a))
BY V0Width, V3Width DEF BootFields, V0HeaderSize, V3HeaderSize

\* How many pages a part takes
PagesOf(a, f) == get_number_of_pages(filesize(f), PageOf(a))
UpToRamdisk(a) == 1 + PagesOf(a, a.kernel) + PagesOf(a, a.ramdisk)
UpToSecond(a) == UpToRamdisk(a) + PagesOf(a, a.second)
UpToDtbo(a) == UpToSecond(a) + PagesOf(a, DtboOf(a))

\* Where the parts of a boot image are
BootPlaces(a, img) ==
    /\ Tidy(img) /\ img.fields = BootFields(a)
    /\ img.at["kernel"] = Placed(PageOf(a) * 1, a.kernel)
    /\ img.at["ramdisk"] = Placed(PageOf(a) * (1 + PagesOf(a, a.kernel)), a.ramdisk)
    /\ img.at["second"] = Placed(PageOf(a) * UpToRamdisk(a), a.second)
    /\ img.at["recovery_dtbo"] = Placed(PageOf(a) * UpToSecond(a), DtboOf(a))
    /\ img.at["dtb"] = Placed(PageOf(a) * UpToDtbo(a), DtbOf(a))
    /\ img.ramdisks = << >> /\ img.table = << >>

LEMMA BootPlaced ==
  ASSUME NEW a, GoodBoot(a)
  PROVE  /\ BootPlaces(a, WithDtb(a)) /\ BootPlaces(a, Signed(a))
         /\ \A img \in {WithHeader(a), WithKernel(a), WithRamdisk(a), WithSecond(a),
                        WithDtbo(a), WithDtb(a), Signed(a)} :
              Tidy(img) /\ img.fields = BootFields(a)
<1> DEFINE P == PageOf(a)
           k == PagesOf(a, a.kernel)
           r == PagesOf(a, a.ramdisk)
           s == PagesOf(a, a.second)
           o == PagesOf(a, DtboOf(a))
           d == PagesOf(a, DtbOf(a))
<1>1. /\ a.header_version \in 0..4 /\ P \in PageSizes
      /\ {a.kernel, a.ramdisk, a.second, DtboOf(a), DtbOf(a)} \subseteq File \cup {None}
  <2>1. a.header_version \in 0..4 /\ a.pagesize \in PageSizes
    <3>1. a.header_version \in 0..4 /\ a.pagesize \in PageSizes
      BY Zenon DEF GoodBoot, Typed
    <3>2. QED
      BY <3>1
  <2>2. P \in PageSizes
    BY <2>1 DEF PageOf, PageSizes, BOOT_IMAGE_HEADER_V3_PAGESIZE
  <2>3. {a.kernel, a.ramdisk, a.second, a.recovery_dtbo, a.dtb, None} \subseteq File \cup {None}
    BY DEF GoodBoot, Typed
  <2>4. QED
    BY <2>1, <2>2, <2>3 DEF DtboOf, DtbOf
<1>2. \A f \in {a.kernel, a.ramdisk, a.second, DtboOf(a), DtbOf(a)} : f = None \/ f.size \in Nat
  BY <1>1, FileSizes
<1>3. Width(BootFields(a)) \in 1..2048 /\ get_number_of_pages(Width(BootFields(a)), P) = 1
  <2>1. Width(BootFields(a)) \in 1..2048
    BY <1>1, BootWidth
  <2>2. P \in PageSizes
    BY <1>1
  <2> HIDE DEF P
  <2>3. PICK w \in 1..2048 : w = Width(BootFields(a))
    BY <2>1
  <2>4. get_number_of_pages(w, P) = 1
    BY <2>2, <2>3, OnePage, SMTT(60)
  <2>5. QED
    BY <2>3, <2>4
<1>4. /\ Tidy(WithHeader(a)) /\ WithHeader(a).fields = BootFields(a) /\ WithHeader(a).len = P * 1
      /\ WithHeader(a).at = [p \in Part |-> NoPart]
      /\ WithHeader(a).ramdisks = << >> /\ WithHeader(a).table = << >>
  <2>1. WithHeader(a) = Headed(BootFields(a), P)
    BY DEF WithHeader
  <2> HIDE DEF P
  <2>2. Width(BootFields(a)) \in Nat
    <3>1. PICK w \in 1..2048 : w = Width(BootFields(a))
      BY <1>3
    <3>2. w \in Nat
      OBVIOUS
    <3>3. QED
      BY <3>1, <3>2
  <2>3. QED
    BY <1>1, <1>3, <2>1, <2>2, HeadedTidy
<1>5. {"kernel", "ramdisk", "second", "recovery_dtbo", "dtb", "boot_signature"} \subseteq Part
  BY DEF Part
<1> HIDE DEF P
<1>6. /\ Tidy(WithKernel(a)) /\ WithKernel(a).fields = BootFields(a)
      /\ WithKernel(a).len = P * (1 + k) /\ 1 + k \in Nat
      /\ WithKernel(a).at = [WithHeader(a).at EXCEPT !["kernel"] = Placed(P * 1, a.kernel)]
      /\ WithKernel(a).ramdisks = << >> /\ WithKernel(a).table = << >>
  <2>1. CanWrite(WithHeader(a), P, 1, "kernel", a.kernel)
    BY <1>1, <1>2, <1>5, <1>4 DEF CanWrite
  <2>2. Written(WithKernel(a), WithHeader(a), P, 1, "kernel", a.kernel)
    BY <2>1, WrittenPart DEF WithKernel, P
  <2>3. QED
    BY <1>1, <1>2, <1>5, <1>4, <2>2 DEF Written, PagesOf, P
<1> HIDE DEF k
<1>7. /\ Tidy(WithRamdisk(a)) /\ WithRamdisk(a).fields = BootFields(a)
      /\ WithRamdisk(a).len = P * (1 + k + r) /\ 1 + k + r \in Nat
      /\ WithRamdisk(a).at = [WithKernel(a).at EXCEPT !["ramdisk"] = Placed(P * (1 + k), a.ramdisk)]
      /\ WithRamdisk(a).ramdisks = << >> /\ WithRamdisk(a).table = << >>
  <2>1. CanWrite(WithKernel(a), P, 1 + k, "ramdisk", a.ramdisk)
    BY <1>1, <1>2, <1>5, <1>4, <1>6 DEF CanWrite
  <2>2. Written(WithRamdisk(a), WithKernel(a), P, 1 + k, "ramdisk", a.ramdisk)
    BY <2>1, WrittenPart DEF WithRamdisk, P
  <2>3. QED
    BY <1>1, <1>2, <1>5, <1>4, <1>6, <2>2 DEF Written, PagesOf, P
<1> HIDE DEF r
<1>8. /\ Tidy(WithSecond(a)) /\ WithSecond(a).fields = BootFields(a)
      /\ WithSecond(a).len = P * (1 + k + r + s) /\ 1 + k + r + s \in Nat
      /\ WithSecond(a).at = [WithRamdisk(a).at EXCEPT !["second"] = Placed(P * (1 + k + r), a.second)]
      /\ WithSecond(a).ramdisks = << >> /\ WithSecond(a).table = << >>
  <2>1. CanWrite(WithRamdisk(a), P, 1 + k + r, "second", a.second)
    BY <1>1, <1>2, <1>5, <1>4, <1>6, <1>7 DEF CanWrite
  <2>2. Written(WithSecond(a), WithRamdisk(a), P, 1 + k + r, "second", a.second)
    BY <2>1, WrittenPart DEF WithSecond, P
  <2>3. QED
    BY <1>1, <1>2, <1>5, <1>4, <1>6, <1>7, <2>2 DEF Written, PagesOf, P
<1> HIDE DEF s
<1>9. /\ Tidy(WithDtbo(a)) /\ WithDtbo(a).fields = BootFields(a)
      /\ WithDtbo(a).len = P * (1 + k + r + s + o) /\ 1 + k + r + s + o \in Nat
      /\ WithDtbo(a).at = [WithSecond(a).at EXCEPT
                             !["recovery_dtbo"] = Placed(P * (1 + k + r + s), DtboOf(a))]
      /\ WithDtbo(a).ramdisks = << >> /\ WithDtbo(a).table = << >>
  <2>1. CanWrite(WithSecond(a), P, 1 + k + r + s, "recovery_dtbo", DtboOf(a))
    BY <1>1, <1>2, <1>5, <1>4, <1>6, <1>7, <1>8 DEF CanWrite
  <2>2. Written(WithDtbo(a), WithSecond(a), P, 1 + k + r + s, "recovery_dtbo", DtboOf(a))
    BY <2>1, WrittenPart DEF WithDtbo, P
  <2>3. QED
    BY <1>1, <1>2, <1>5, <1>4, <1>6, <1>7, <1>8, <2>2 DEF Written, PagesOf, P
<1> HIDE DEF o
<1>10. /\ Tidy(WithDtb(a)) /\ WithDtb(a).fields = BootFields(a)
       /\ WithDtb(a).len = P * (1 + k + r + s + o + d) /\ 1 + k + r + s + o + d \in Nat
       /\ WithDtb(a).at = [WithDtbo(a).at EXCEPT
                             !["dtb"] = Placed(P * (1 + k + r + s + o), DtbOf(a))]
       /\ WithDtb(a).ramdisks = << >> /\ WithDtb(a).table = << >>
  <2>1. CanWrite(WithDtbo(a), P, 1 + k + r + s + o, "dtb", DtbOf(a))
    BY <1>1, <1>2, <1>5, <1>4, <1>6, <1>7, <1>8, <1>9 DEF CanWrite
  <2>2. Written(WithDtb(a), WithDtbo(a), P, 1 + k + r + s + o, "dtb", DtbOf(a))
    BY <2>1, WrittenPart DEF WithDtb, P
  <2>3. QED
    BY <1>1, <1>2, <1>5, <1>4, <1>6, <1>7, <1>8, <1>9, <2>2 DEF Written, PagesOf, P
<1> HIDE DEF d
<1>11. BootPlaces(a, WithDtb(a))
  BY <1>4, <1>5, <1>6, <1>7, <1>8, <1>9, <1>10
     DEF BootPlaces, UpToRamdisk, UpToSecond, UpToDtbo, P, k, r, s, o
<1>12. WithDtb(a).at["boot_signature"] = NoPart
  BY <1>4, <1>5, <1>6, <1>7, <1>8, <1>9, <1>10
<1>13. BootPlaces(a, Signed(a))
  <2>1. CASE a.header_version < 4
    BY <1>11, <2>1 DEF Signed
  <2>2. CASE ~(a.header_version < 4)
    <3>1. SignatureOf(a).size \in Nat
      BY DEF SignatureOf, BOOT_IMAGE_V4_SIGNATURE_SIZE
    <3>2. Signed(a) = WritePadded(WithDtb(a), "boot_signature", SignatureOf(a), P)
      BY <2>2 DEF Signed, P
    <3>3. /\ Tidy(Signed(a)) /\ Signed(a).fields = BootFields(a)
          /\ \E x : Signed(a).at = [WithDtb(a).at EXCEPT !["boot_signature"] = x]
          /\ Signed(a).ramdisks = << >> /\ Signed(a).table = << >>
      <4>1. CanWrite(WithDtb(a), P, 1 + k + r + s + o + d, "boot_signature", SignatureOf(a))
        BY <1>1, <1>5, <1>10, <1>12, <3>1 DEF CanWrite
      <4>2. Written(Signed(a), WithDtb(a), P, 1 + k + r + s + o + d, "boot_signature", SignatureOf(a))
        BY <3>2, <4>1, WrittenPart
      <4>3. QED
        BY <1>10, <4>2 DEF Written
    <3>4. QED
      BY <1>11, <3>3 DEF BootPlaces
  <2>3. QED
    BY <2>1, <2>2
<1>14. QED
  BY <1>4, <1>6, <1>7, <1>8, <1>9, <1>11, <1>13 DEF BootPlaces

-------------------------------------------------------------------------------
(* What unpack_boot_image() reads from the header of a boot image              *)

LEMMA V0Values ==
  ASSUME NEW a, a.header_version \in 0..2
  PROVE  LET f == V0Fields(a)
         IN  /\ \A k \in 1..15 : f[k] = V0Front(a)[k]
             /\ a.header_version > 0 => /\ f[16].v = filesize(a.recovery_dtbo)
                                        /\ f[17].v = IF a.recovery_dtbo = None THEN 0
                                                     ELSE get_recovery_dtbo_offset(a)
                                        /\ f[18].v = IF a.header_version = 1 THEN 1648 ELSE 1660
             /\ a.header_version = 2 => f[19].v = filesize(a.dtb) /\ f[20].v = a.base + a.dtb_offset
<1> DEFINE f == V0Fields(a)
<1>1. /\ Agrees(f, V0Front(a), 15)
      /\ a.header_version > 0 => Follows(f, V1Rest(a), 15, 3)
      /\ a.header_version = 2 => Follows(f, V2Rest(a), 18, 2)
  BY V0Shape
<1> HIDE DEF f
<1>2. a.header_version > 0 =>
        f[16] = V1Rest(a)[1] /\ f[17] = V1Rest(a)[2] /\ f[18] = V1Rest(a)[3]
  <2>1. 1 \in 1..3 /\ 2 \in 1..3 /\ 3 \in 1..3 /\ 15 + 1 = 16 /\ 15 + 2 = 17 /\ 15 + 3 = 18
    OBVIOUS
  <2>2. QED
    BY <1>1, <2>1 DEF Follows
<1>3. a.header_version = 2 => f[19] = V2Rest(a)[1] /\ f[20] = V2Rest(a)[2]
  <2>1. 1 \in 1..2 /\ 2 \in 1..2 /\ 18 + 1 = 19 /\ 18 + 2 = 20
    OBVIOUS
  <2>2. QED
    BY <1>1, <2>1 DEF Follows
<1>4. QED
  BY <1>1, <1>2, <1>3 DEF f, Agrees, V1Rest, V2Rest, Field

LEMMA V3Values ==
  ASSUME NEW a, a.header_version \in 3..4
  PROVE  /\ \A k \in 1..11 : V3Fields(a)[k] = V3Front(a)[k]
         /\ a.header_version = 4 => V3Fields(a)[12].v = BOOT_IMAGE_V4_SIGNATURE_SIZE
<1> DEFINE f == V3Fields(a)
<1>1. /\ Agrees(f, V3Front(a), 11)
      /\ a.header_version = 4 => Follows(f, V4Rest, 11, 1)
  BY V3Shape
<1> HIDE DEF f
<1>2. a.header_version = 4 => f[12] = V4Rest[1]
  <2>1. 1 \in 1..1 /\ 11 + 1 = 12
    OBVIOUS
  <2>2. QED
    BY <1>1, <2>1 DEF Follows
<1>3. QED
  BY <1>1, <1>2 DEF f, Agrees, V4Rest, Field

\* The sizes and the one offset that are read from a header are those of the parts.
LEMMA BootSizes ==
  ASSUME NEW a, GoodBoot(a)
  PROVE  LET h == BootInfo(BootFields(a))
         IN  /\ h.header_version = a.header_version /\ h.page_size = PageOf(a)
             /\ h.kernel_size = filesize(a.kernel) /\ h.ramdisk_size = filesize(a.ramdisk)
             /\ h.second_size = filesize(a.second)
             /\ h.recovery_dtbo_size = filesize(DtboOf(a))
             /\ DtboOf(a) # None => h.recovery_dtbo_offset = PageOf(a) * UpToSecond(a)
             /\ h.dtb_size = filesize(DtbOf(a))
             /\ h.boot_signature_size = IF a.header_version = 4 THEN BOOT_IMAGE_V4_SIGNATURE_SIZE
                                        ELSE 0
<1> DEFINE f == BootFields(a)
           h == BootInfo(f)
<1>1. a.header_version \in 0..4
      /\ (a.header_version > 2 => a.second = None)
  BY Zenon DEF GoodBoot, Typed
<1>2. CASE a.header_version \in 0..2
  <2>1. /\ f = V0Fields(a) /\ PageOf(a) = a.pagesize
    BY <1>2 DEF BootFields, PageOf
  <2>2. /\ \A k \in 1..15 : f[k] = V0Front(a)[k]
        /\ a.header_version > 0 => /\ f[16].v = filesize(a.recovery_dtbo)
                                   /\ f[17].v = IF a.recovery_dtbo = None THEN 0
                                                ELSE get_recovery_dtbo_offset(a)
        /\ a.header_version = 2 => f[19].v = filesize(a.dtb)
    BY <1>2, <2>1, V0Values
  <2>3. /\ f[2] = V0Front(a)[2] /\ f[4] = V0Front(a)[4] /\ f[6] = V0Front(a)[6]
        /\ f[9] = V0Front(a)[9] /\ f[10] = V0Front(a)[10]
    BY <2>2
  <2>4. /\ f[2].v = filesize(a.kernel) /\ f[4].v = filesize(a.ramdisk)
        /\ f[6].v = filesize(a.second) /\ f[9].v = a.pagesize /\ f[10].v = a.header_version
    BY <2>3 DEF V0Front, Field
  <2> HIDE DEF f
  <2>5. /\ h.header_version = a.header_version /\ h.page_size = a.pagesize
        /\ h.kernel_size = filesize(a.kernel) /\ h.ramdisk_size = filesize(a.ramdisk)
        /\ h.second_size = filesize(a.second)
        /\ h.recovery_dtbo_size = IF a.header_version \in {1, 2} THEN f[16].v ELSE 0
        /\ h.recovery_dtbo_offset = IF a.header_version \in {1, 2} THEN f[17].v ELSE 0
        /\ h.dtb_size = IF a.header_version = 2 THEN f[19].v ELSE 0
        /\ h.boot_signature_size = 0
    BY <1>2, <2>4 DEF BootInfo
  <2>6. get_recovery_dtbo_offset(a) = PageOf(a) * UpToSecond(a)
    BY <2>1 DEF get_recovery_dtbo_offset, UpToSecond, UpToRamdisk, PagesOf
  <2> HIDE DEF h
  <2>7. h.recovery_dtbo_size = filesize(DtboOf(a))
    BY <1>2, <2>2, <2>5 DEF DtboOf, filesize
  <2>8. DtboOf(a) # None => h.recovery_dtbo_offset = PageOf(a) * UpToSecond(a)
    BY <1>2, <2>2, <2>5, <2>6 DEF DtboOf
  <2>9. h.dtb_size = filesize(DtbOf(a))
    BY <1>2, <2>2, <2>5 DEF DtbOf, filesize
  <2>10. QED
    BY <1>2, <2>1, <2>5, <2>7, <2>8, <2>9 DEF h, f
<1>3. CASE a.header_version \in 3..4
  <2>1. f = V3Fields(a) /\ PageOf(a) = BOOT_IMAGE_HEADER_V3_PAGESIZE
    BY <1>3 DEF BootFields, PageOf
  <2>2. /\ \A k \in 1..11 : f[k] = V3Front(a)[k]
        /\ a.header_version = 4 => f[12].v = BOOT_IMAGE_V4_SIGNATURE_SIZE
    BY <1>3, <2>1, V3Values
  <2>3. f[2] = V3Front(a)[2] /\ f[3] = V3Front(a)[3] /\ f[10] = V3Front(a)[10]
    BY <2>2
  <2>4. /\ f[2].v = filesize(a.kernel) /\ f[3].v = filesize(a.ramdisk)
        /\ f[10].v = a.header_version
    BY <2>3 DEF V3Front, Field
  <2> HIDE DEF f
  <2>5. /\ h.header_version = a.header_version /\ h.page_size = BOOT_IMAGE_HEADER_V3_PAGESIZE
        /\ h.kernel_size = filesize(a.kernel) /\ h.ramdisk_size = filesize(a.ramdisk)
        /\ h.second_size = 0 /\ h.recovery_dtbo_size = 0 /\ h.dtb_size = 0
        /\ h.boot_signature_size = IF a.header_version >= 4 THEN f[12].v ELSE 0
    BY <1>3, <2>4 DEF BootInfo
  <2> HIDE DEF h
  <2>6. DtboOf(a) = None /\ DtbOf(a) = None /\ a.second = None /\ filesize(None) = 0
    BY <1>1, <1>3 DEF DtboOf, DtbOf, filesize
  <2>7. QED
    BY <1>3, <2>1, <2>2, <2>5, <2>6 DEF h, f
<1>4. QED
  BY <1>1, <1>2, <1>3

-------------------------------------------------------------------------------
(* What is extracted: the items of image_info_list, as a set                   *)

IsList(q) == \E R : q \in Seq(R)
ItemsOf(q) == {q[i] : i \in DOMAIN q}
ItemAt(off, size, name) == [off |-> off, size |-> size, name |-> name]

LEMMA ItemsJoin ==
  ASSUME NEW p, NEW q, IsList(p), IsList(q)
  PROVE  IsList(p \o q) /\ ItemsOf(p \o q) = ItemsOf(p) \cup ItemsOf(q)
<1>1. PICK P, Q : p \in Seq(P) /\ q \in Seq(Q)
  BY DEF IsList
<1>2. p \in Seq(P \cup Q) /\ q \in Seq(P \cup Q)
  BY <1>1, SeqMonotone
<1>3. p \o q \in Seq(P \cup Q) /\ Len(p \o q) = Len(p) + Len(q)
  BY <1>2
<1>4. /\ DOMAIN p = 1..Len(p) /\ DOMAIN q = 1..Len(q) /\ DOMAIN (p \o q) = 1..Len(p) + Len(q)
      /\ Len(p) \in Nat /\ Len(q) \in Nat
      /\ \A i \in 1..Len(p) + Len(q) :
           (p \o q)[i] = IF i <= Len(p) THEN p[i] ELSE q[i - Len(p)]
  BY <1>2, <1>3
<1>5. ItemsOf(p) \subseteq ItemsOf(p \o q)
  <2>1. ASSUME NEW i \in DOMAIN p PROVE p[i] = (p \o q)[i] /\ i \in DOMAIN (p \o q)
    BY <1>4
  <2>2. QED
    BY <2>1 DEF ItemsOf
<1>6. ItemsOf(q) \subseteq ItemsOf(p \o q)
  <2>1. ASSUME NEW i \in DOMAIN q
        PROVE  q[i] = (p \o q)[Len(p) + i] /\ Len(p) + i \in DOMAIN (p \o q)
    BY <1>4
  <2>2. QED
    BY <2>1 DEF ItemsOf
<1>7. ItemsOf(p \o q) \subseteq ItemsOf(p) \cup ItemsOf(q)
  <2>1. ASSUME NEW i \in DOMAIN (p \o q)
        PROVE  \/ i \in DOMAIN p /\ (p \o q)[i] = p[i]
               \/ i - Len(p) \in DOMAIN q /\ (p \o q)[i] = q[i - Len(p)]
    BY <1>4
  <2>2. QED
    BY <2>1 DEF ItemsOf
<1>8. QED
  BY <1>3, <1>5, <1>6, <1>7 DEF IsList

LEMMA ItemsOne ==
  ASSUME NEW off, NEW size, NEW name
  PROVE  /\ IsList(Item(off, size, name))
         /\ ItemsOf(Item(off, size, name)) = {ItemAt(off, size, name)}
<1>1. \A t : <<t>> \in Seq({t}) /\ DOMAIN <<t>> = {1} /\ <<t>>[1] = t
  OBVIOUS
<1>2. \A t : IsList(<<t>>) /\ ItemsOf(<<t>>) = {t}
  BY <1>1 DEF IsList, ItemsOf
<1>3. QED
  BY <1>2 DEF Item, ItemAt

LEMMA NoItems == IsList(<< >>) /\ ItemsOf(<< >>) = {}
<1>1. << >> \in Seq({}) /\ DOMAIN << >> = {}
  OBVIOUS
<1>2. QED
  BY <1>1 DEF IsList, ItemsOf

\* unpack_boot_image(): the parts in the order they are listed
BootItems(h) ==
    LET pages(size) == get_number_of_pages(size, h.page_size)
        kernel == pages(h.kernel_size)
        ramdisk == pages(h.ramdisk_size)
        second == pages(h.second_size)
    IN  {ItemAt(h.page_size, h.kernel_size, "kernel"),
         ItemAt(h.page_size * (1 + kernel), h.ramdisk_size, "ramdisk")}
        \cup (IF h.second_size > 0
              THEN {ItemAt(h.page_size * (1 + kernel + ramdisk), h.second_size, "second")}
              ELSE {})
        \cup (IF h.recovery_dtbo_size > 0
              THEN {ItemAt(h.recovery_dtbo_offset, h.recovery_dtbo_size, "recovery_dtbo")}
              ELSE {})
        \cup (IF h.dtb_size > 0
              THEN {ItemAt(h.page_size * (1 + kernel + ramdisk + second
                                            + pages(h.recovery_dtbo_size)), h.dtb_size, "dtb")}
              ELSE {})
        \cup (IF h.boot_signature_size > 0
              THEN {ItemAt(h.page_size * (1 + kernel + ramdisk), h.boot_signature_size,
                           "boot_signature")}
              ELSE {})

LEMMA BootListed ==
  ASSUME NEW h
  PROVE  IsList(BootImageList(h)) /\ ItemsOf(BootImageList(h)) = BootItems(h)
<1> DEFINE pages(size) == get_number_of_pages(size, h.page_size)
           kernel == pages(h.kernel_size)
           ramdisk == pages(h.ramdisk_size)
           second == pages(h.second_size)
           q1 == Item(h.page_size, h.kernel_size, "kernel")
           q2 == Item(h.page_size * (1 + kernel), h.ramdisk_size, "ramdisk")
           q3 == ItemIf(h.second_size > 0, h.page_size * (1 + kernel + ramdisk),
                        h.second_size, "second")
           q4 == ItemIf(h.recovery_dtbo_size > 0, h.recovery_dtbo_offset,
                        h.recovery_dtbo_size, "recovery_dtbo")
           q5 == ItemIf(h.dtb_size > 0,
                        h.page_size * (1 + kernel + ramdisk + second
                                         + pages(h.recovery_dtbo_size)),
                        h.dtb_size, "dtb")
           q6 == ItemIf(h.boot_signature_size > 0, h.page_size * (1 + kernel + ramdisk),
                        h.boot_signature_size, "boot_signature")
<1>1. BootImageList(h) = q1 \o q2 \o q3 \o q4 \o q5 \o q6
  BY DEF BootImageList
<1>2. BootItems(h) = ItemsOf(q1) \cup ItemsOf(q2) \cup ItemsOf(q3) \cup ItemsOf(q4)
                     \cup ItemsOf(q5) \cup ItemsOf(q6)
  <2>1. /\ ItemsOf(q1) = {ItemAt(h.page_size, h.kernel_size, "kernel")}
        /\ ItemsOf(q2) = {ItemAt(h.page_size * (1 + kernel), h.ramdisk_size, "ramdisk")}
    BY ItemsOne
  <2>2. ItemsOf(q3) = IF h.second_size > 0
          THEN {ItemAt(h.page_size * (1 + kernel + ramdisk), h.second_size, "second")} ELSE {}
    BY ItemsOne, NoItems DEF ItemIf
  <2>3. ItemsOf(q4) = IF h.recovery_dtbo_size > 0
          THEN {ItemAt(h.recovery_dtbo_offset, h.recovery_dtbo_size, "recovery_dtbo")} ELSE {}
    BY ItemsOne, NoItems DEF ItemIf
  <2>4. ItemsOf(q5) = IF h.dtb_size > 0
          THEN {ItemAt(h.page_size * (1 + kernel + ramdisk + second
                                        + pages(h.recovery_dtbo_size)), h.dtb_size, "dtb")}
          ELSE {}
    BY ItemsOne, NoItems DEF ItemIf
  <2>5. ItemsOf(q6) = IF h.boot_signature_size > 0
          THEN {ItemAt(h.page_size * (1 + kernel + ramdisk), h.boot_signature_size,
                       "boot_signature")} ELSE {}
    BY ItemsOne, NoItems DEF ItemIf
  <2>6. QED
    BY <2>1, <2>2, <2>3, <2>4, <2>5 DEF BootItems
<1>3. IsList(q1) /\ IsList(q2) /\ IsList(q3) /\ IsList(q4) /\ IsList(q5) /\ IsList(q6)
  BY ItemsOne, NoItems DEF ItemIf
<1> HIDE DEF q1, q2, q3, q4, q5, q6
<1>4. IsList(q1 \o q2) /\ ItemsOf(q1 \o q2) = ItemsOf(q1) \cup ItemsOf(q2)
  BY <1>3, ItemsJoin
<1>5. IsList(q1 \o q2 \o q3) /\ ItemsOf(q1 \o q2 \o q3) = ItemsOf(q1 \o q2) \cup ItemsOf(q3)
  BY <1>3, <1>4, ItemsJoin
<1>6. /\ IsList(q1 \o q2 \o q3 \o q4)
      /\ ItemsOf(q1 \o q2 \o q3 \o q4) = ItemsOf(q1 \o q2 \o q3) \cup ItemsOf(q4)
  BY <1>3, <1>5, ItemsJoin
<1>7. /\ IsList(q1 \o q2 \o q3 \o q4 \o q5)
      /\ ItemsOf(q1 \o q2 \o q3 \o q4 \o q5) = ItemsOf(q1 \o q2 \o q3 \o q4) \cup ItemsOf(q5)
  BY <1>3, <1>6, ItemsJoin
<1>8. /\ IsList(q1 \o q2 \o q3 \o q4 \o q5 \o q6)
      /\ ItemsOf(q1 \o q2 \o q3 \o q4 \o q5 \o q6)
           = ItemsOf(q1 \o q2 \o q3 \o q4 \o q5) \cup ItemsOf(q6)
  BY <1>3, <1>7, ItemsJoin
<1>9. QED
  BY <1>1, <1>2, <1>4, <1>5, <1>6, <1>7, <1>8

\* What is read at the place of a part
LEMMA ReadPlaced ==
  ASSUME NEW img, Tidy(img), NEW p \in Part, NEW off, NEW f \in File \cup {None},
         img.at[p] = Placed(off, f)
  PROVE  Read(img, off, filesize(f)) = BytesOf(f)
<1>1. CASE filesize(f) = 0
  BY <1>1, ReadNothing, FileSizes
<1>2. CASE filesize(f) # 0
  <2>1. filesize(f) > 0 /\ f # None /\ f.size = filesize(f) /\ BytesOf(f) = f
    BY <1>2, FileSizes
  <2>2. img.at[p] = [off |-> off, file |-> f] /\ img.at[p] \in Chunks(img)
    BY <1>2 DEF Placed, Chunks
  <2>3. Holds(img.at[p]) /\ img.at[p].off = off /\ img.at[p].file = f
    BY <2>1, <2>2 DEF Holds
  <2>4. QED
    BY <2>1, <2>2, <2>3, ReadHeld
<1>3. QED
  BY <1>1, <1>2

LEMMA PartsAre ==
  ASSUME NEW a, GoodBoot(a)
  PROVE  /\ PartsOf(a)["kernel"] = a.kernel /\ PartsOf(a)["ramdisk"] = a.ramdisk
         /\ PartsOf(a)["second"] = a.second /\ PartsOf(a)["recovery_dtbo"] = DtboOf(a)
         /\ PartsOf(a)["dtb"] = DtbOf(a)
         /\ \A p \in Part \ {"kernel", "ramdisk", "second", "recovery_dtbo", "dtb"} :
              PartsOf(a)[p] = None
<1>1. a.header_version \in 0..4
      /\ (a.header_version > 2 => a.second = None)
  BY Zenon DEF GoodBoot, Typed
<1>2. QED
  <2>1. {"kernel", "ramdisk", "second", "recovery_dtbo", "dtb"} \subseteq Part
    BY DEF Part
  <2>2. PartsOf(a)["kernel"] = a.kernel /\ PartsOf(a)["ramdisk"] = a.ramdisk
    BY <2>1 DEF PartsOf
  <2>3. PartsOf(a)["second"] = a.second
    BY <1>1, <2>1 DEF PartsOf
  <2>4. PartsOf(a)["recovery_dtbo"] = DtboOf(a)
    BY <2>1 DEF PartsOf, DtboOf
  <2>5. PartsOf(a)["dtb"] = DtbOf(a)
    BY <2>1 DEF PartsOf, DtbOf
  <2>6. ASSUME NEW p \in Part \ {"kernel", "ramdisk", "second", "recovery_dtbo", "dtb"}
        PROVE  PartsOf(a)[p] = None
    BY <2>6 DEF PartsOf
  <2>7. QED
    BY <2>2, <2>3, <2>4, <2>5, <2>6

\* Each item that unpack_boot_image() lists is the part of its name,
LEMMA BootReads ==
  ASSUME NEW a, GoodBoot(a), NEW img, BootPlaces(a, img)
  PROVE  \A t \in BootItems(BootInfo(img.fields)) :
           t.name # "boot_signature" =>
             t.name \in Part /\ Read(img, t.off, t.size) = BytesOf(PartsOf(a)[t.name])
<1> DEFINE h == BootInfo(img.fields)
           P == PageOf(a)
<1>1. /\ h.page_size = P
      /\ h.kernel_size = filesize(a.kernel) /\ h.ramdisk_size = filesize(a.ramdisk)
      /\ h.second_size = filesize(a.second)
      /\ h.recovery_dtbo_size = filesize(DtboOf(a))
      /\ DtboOf(a) # None => h.recovery_dtbo_offset = P * UpToSecond(a)
      /\ h.dtb_size = filesize(DtbOf(a))
  BY BootSizes DEF BootPlaces
<1>2. {a.kernel, a.ramdisk, a.second, DtboOf(a), DtbOf(a)} \subseteq File \cup {None}
  <2>1. {a.kernel, a.ramdisk, a.second, a.recovery_dtbo, a.dtb, None} \subseteq File \cup {None}
    BY DEF GoodBoot, Typed
  <2>2. QED
    BY <2>1 DEF DtboOf, DtbOf
<1>3. {"kernel", "ramdisk", "second", "recovery_dtbo", "dtb"} \subseteq Part
  BY DEF Part
<1>4. /\ Read(img, P * 1, filesize(a.kernel)) = BytesOf(a.kernel)
      /\ Read(img, P * (1 + PagesOf(a, a.kernel)), filesize(a.ramdisk)) = BytesOf(a.ramdisk)
      /\ Read(img, P * UpToRamdisk(a), filesize(a.second)) = BytesOf(a.second)
      /\ Read(img, P * UpToSecond(a), filesize(DtboOf(a))) = BytesOf(DtboOf(a))
      /\ Read(img, P * UpToDtbo(a), filesize(DtbOf(a))) = BytesOf(DtbOf(a))
  BY <1>2, <1>3, ReadPlaced DEF BootPlaces
<1>5. P * 1 = P
  <2>1. a.pagesize \in PageSizes
    BY DEF GoodBoot
  <2>2. QED
    BY <2>1 DEF PageOf, PageSizes, BOOT_IMAGE_HEADER_V3_PAGESIZE
<1> HIDE DEF h, P
<1>6. ASSUME NEW t \in BootItems(h), t.name # "boot_signature"
      PROVE  \/ t = ItemAt(P, filesize(a.kernel), "kernel")
             \/ t = ItemAt(P * (1 + PagesOf(a, a.kernel)), filesize(a.ramdisk), "ramdisk")
             \/ t = ItemAt(P * UpToRamdisk(a), filesize(a.second), "second")
             \/ t = ItemAt(P * UpToSecond(a), filesize(DtboOf(a)), "recovery_dtbo")
             \/ t = ItemAt(P * UpToDtbo(a), filesize(DtbOf(a)), "dtb")
  <2> DEFINE k == PagesOf(a, a.kernel)
             r == PagesOf(a, a.ramdisk)
             s == PagesOf(a, a.second)
  <2>1. /\ get_number_of_pages(h.kernel_size, h.page_size) = k
        /\ get_number_of_pages(h.ramdisk_size, h.page_size) = r
        /\ get_number_of_pages(h.second_size, h.page_size) = s
        /\ get_number_of_pages(h.recovery_dtbo_size, h.page_size) = PagesOf(a, DtboOf(a))
    BY <1>1 DEF PagesOf, P
  <2>2. h.recovery_dtbo_size > 0 => DtboOf(a) # None
    <3>1. DtboOf(a) \in File \cup {None}
      BY <1>2
    <3>2. QED
      BY <1>1, <3>1, FileSizes
  <2>3. \/ t = ItemAt(P, filesize(a.kernel), "kernel")
        \/ t = ItemAt(P * (1 + k), filesize(a.ramdisk), "ramdisk")
        \/ t = ItemAt(P * (1 + k + r), filesize(a.second), "second")
        \/ t = ItemAt(P * UpToSecond(a), filesize(DtboOf(a)), "recovery_dtbo")
        \/ t = ItemAt(P * (1 + k + r + s + PagesOf(a, DtboOf(a))), filesize(DtbOf(a)), "dtb")
        \/ \E x, y : t = ItemAt(x, y, "boot_signature")
    BY <1>1, <2>1, <2>2, Zenon DEF BootItems
  <2>4. ~ \E x, y : t = ItemAt(x, y, "boot_signature")
    BY <1>6 DEF ItemAt
  <2>5. QED
    BY <2>3, <2>4 DEF UpToRamdisk, UpToSecond, UpToDtbo
<1>7. QED
  BY <1>3, <1>4, <1>5, <1>6, PartsAre DEF ItemAt, h

\* and every part that has bytes is listed, the kernel and the ramdisk in any case.
LEMMA BootListedParts ==
  ASSUME NEW a, GoodBoot(a), NEW img, img.fields = BootFields(a),
         NEW p \in Part, p \in {"kernel", "ramdisk"} \/ filesize(PartsOf(a)[p]) > 0
  PROVE  \E t \in BootItems(BootInfo(img.fields)) : t.name = p
<1> DEFINE h == BootInfo(img.fields)
<1>1. /\ h.second_size = filesize(a.second)
      /\ h.recovery_dtbo_size = filesize(DtboOf(a)) /\ h.dtb_size = filesize(DtbOf(a))
  BY BootSizes
<1>2. filesize(None) = 0 /\ ~(0 > 0)
  BY DEF filesize
<1>3. p \in {"kernel", "ramdisk", "second", "recovery_dtbo", "dtb"}
  BY <1>2, PartsAre
<1> HIDE DEF h
<1>4. \A x, y, n : ItemAt(x, y, n).name = n
  BY DEF ItemAt
<1>5. CASE p \in {"kernel", "ramdisk"}
  BY <1>4, <1>5 DEF BootItems, h
<1>6. CASE p \notin {"kernel", "ramdisk"}
  <2>1. /\ p = "second" => h.second_size > 0
        /\ p = "recovery_dtbo" => h.recovery_dtbo_size > 0
        /\ p = "dtb" => h.dtb_size > 0
    BY <1>1, <1>6, PartsAre
  <2>2. QED
    BY <1>3, <1>4, <1>6, <2>1 DEF BootItems, h
<1>7. QED
  BY <1>5, <1>6

-------------------------------------------------------------------------------
(* The vendor_boot image of a job, part by part                                *)

\* The ramdisks of a job, and where each begins behind the first
RamdisksOf(a) ==
    (IF a.vendor_ramdisk = None THEN << >>
     ELSE <<[file |-> a.vendor_ramdisk, type |-> 1, name |-> "", board_id |-> 0]>>)
    \o a.fragments
RamdiskSize(a, i) == filesize(RamdisksOf(a)[i].file)
Before(a, i) ==
    (IF i > 1 THEN RamdiskSize(a, 1) ELSE 0) + (IF i > 2 THEN RamdiskSize(a, 2) ELSE 0)
    + (IF i > 3 THEN RamdiskSize(a, 3) ELSE 0)

\* The table builder after n calls of add_entry()
EntryOf(a, i) ==
    LET r == RamdisksOf(a)[i]
    IN  [size |-> r.file.size, offset |-> Before(a, i), type |-> r.type, name |-> r.name,
         board_id |-> r.board_id, file |-> r.file]
Packed(a, n) == [entries |-> [i \in 1..n |-> EntryOf(a, i)], total |-> Before(a, n + 1)]
Entries(a) == IF a.vendor_boot # None /\ a.header_version > 3 THEN Len(RamdisksOf(a)) ELSE 0
BuilderOf(a) == Packed(a, Entries(a))

\* What is behind the header, and which parts go into a vendor_boot image
VendorHead(a) == Headed(VendorFields(a, BuilderOf(a)), a.pagesize)
PackRamdisks(img, b, page) ==
    [img EXCEPT
       !.ramdisks = [i \in 1..Len(b.entries) |-> [off  |-> img.len + b.entries[i].offset,
                                                  file |-> b.entries[i].file]],
       !.len = @ + b.total + PadLen(@ + b.total, page)]
VendorRam(a) ==
    IF a.header_version > 3 THEN PackRamdisks(VendorHead(a), BuilderOf(a), a.pagesize)
    ELSE WritePadded(VendorHead(a), "vendor_ramdisk", a.vendor_ramdisk, a.pagesize)
VendorDtb(a) == WritePadded(VendorRam(a), "dtb", a.dtb, a.pagesize)
PutTable(img, b, page) ==
    LET size == Len(b.entries) * VENDOR_RAMDISK_TABLE_ENTRY_V4_SIZE
    IN  [img EXCEPT !.table = b.entries, !.table_off = img.len,
                    !.len = @ + size + PadLen(@ + size, page)]
VendorTable(a) == PutTable(VendorDtb(a), BuilderOf(a), a.pagesize)
VendorConf(a) == WritePadded(VendorTable(a), "bootconfig", a.vendor_bootconfig, a.pagesize)
VendorWhole(a) == IF a.header_version > 3 THEN VendorConf(a) ELSE VendorDtb(a)

\* What add_entry() and main() let through: no name is taken twice
NoneRefused(a, n) ==
    \A i \in 1..n : /\ RamdisksOf(a)[i].name \notin LongNames \cup {"default"}
                    /\ Word(RamdisksOf(a)[i].board_id)
                    /\ \A j \in 1..i - 1 : RamdisksOf(a)[j].name # RamdisksOf(a)[i].name
GoodVendor(a) ==
    /\ Typed(a) /\ a.vendor_boot # None /\ a.header_version \in {3, 4}
    /\ a.header_version = 3 => a.vendor_ramdisk # None
    /\ a.pagesize \in PageSizes /\ filesize(a.dtb) > 0
    /\ NoneRefused(a, Entries(a))

Ramdisk == [file : File, type : Int, name : {""} \cup STRING, board_id : Int]

\* Behind the ramdisk of --vendor_ramdisk, if there is one, are the fragments.
NamedFirst(a) == IF a.vendor_ramdisk = None THEN 0 ELSE 1
Unnamed(f) == [file |-> f, type |-> 1, name |-> "", board_id |-> 0]

\* No more ramdisks than there are names for
LEMMA RamdisksTyped ==
  ASSUME NEW a, Typed(a)
  PROVE  /\ RamdisksOf(a) \in Seq(Ramdisk) /\ Len(RamdisksOf(a)) \in 0..3
         /\ Len(RamdisksOf(a)) = NamedFirst(a) + Len(a.fragments)
         /\ Len(a.fragments) \in Nat
         /\ a.vendor_ramdisk # None => RamdisksOf(a)[1] = Unnamed(a.vendor_ramdisk)
         /\ \A i \in 1..Len(a.fragments) : RamdisksOf(a)[NamedFirst(a) + i] = a.fragments[i]
<1>1. a.vendor_ramdisk \in File \cup {None}
  <2>1. {a.kernel, a.ramdisk, a.second, a.recovery_dtbo, a.dtb, a.vendor_ramdisk,
         a.vendor_bootconfig} \subseteq File \cup {None}
    BY DEF Typed
  <2>2. QED
    BY <2>1
<1>2. /\ a.fragments \in Seq(Ramdisk) /\ Len(a.fragments) <= 3
      /\ a.vendor_ramdisk = None \/ Len(a.fragments) <= 2
  BY Zenon DEF Typed, Ramdisk
<1>3. Len(a.fragments) \in Nat
  BY <1>2
<1>4. CASE a.vendor_ramdisk = None
  <2>1. RamdisksOf(a) = << >> \o a.fragments
    BY <1>4 DEF RamdisksOf
  <2>2. RamdisksOf(a) = a.fragments
    BY <1>2, <2>1
  <2>3. NamedFirst(a) = 0
    BY <1>4 DEF NamedFirst
  <2>4. \A i \in 1..Len(a.fragments) : 0 + i = i
    BY <1>3
  <2>5. Len(a.fragments) \in 0..3 /\ 0 + Len(a.fragments) = Len(a.fragments)
    <3> DEFINE m == Len(a.fragments)
    <3>1. m \in Nat /\ m <= 3
      BY <1>2, <1>3
    <3> HIDE DEF m
    <3>2. m \in 0..3 /\ 0 + m = m
      BY <3>1
    <3>3. QED
      BY <3>2 DEF m
  <2>6. RamdisksOf(a) \in Seq(Ramdisk)
    BY <1>2, <2>2
  <2>7. Len(RamdisksOf(a)) \in 0..3 /\ Len(RamdisksOf(a)) = NamedFirst(a) + Len(a.fragments)
    BY <2>2, <2>3, <2>5
  <2>8. \A i \in 1..Len(a.fragments) : RamdisksOf(a)[NamedFirst(a) + i] = a.fragments[i]
    BY <2>2, <2>3, <2>4, Zenon
  <2>9. QED
    BY <1>3, <1>4, <2>6, <2>7, <2>8, Zenon
<1>5. CASE a.vendor_ramdisk # None
  <2> DEFINE u == Unnamed(a.vendor_ramdisk)
  <2>1. RamdisksOf(a) = <<u>> \o a.fragments
    BY <1>5 DEF RamdisksOf, Unnamed
  <2>2. u \in Ramdisk
    <3>1. a.vendor_ramdisk \in File
      BY <1>1, <1>5
    <3>2. "" \in {""} \cup STRING /\ 1 \in Int /\ 0 \in Int
      OBVIOUS
    <3>3. QED
      BY <3>1, <3>2, Zenon DEF Ramdisk, Unnamed
  <2> HIDE DEF u
  <2>3. /\ <<u>> \o a.fragments \in Seq(Ramdisk)
        /\ Len(<<u>> \o a.fragments) = 1 + Len(a.fragments)
        /\ (<<u>> \o a.fragments)[1] = u
        /\ \A i \in 1..Len(a.fragments) : (<<u>> \o a.fragments)[1 + i] = a.fragments[i]
    BY <1>2, <1>3, <2>2
  <2>4. NamedFirst(a) = 1 /\ Len(a.fragments) <= 2
    BY <1>2, <1>5 DEF NamedFirst
  <2>5. QED
    BY <1>3, <2>1, <2>3, <2>4 DEF u
<1>6. QED
  BY <1>4, <1>5

\* Where ramdisks begin, as long as there are
LEMMA BeforeEach ==
  ASSUME NEW a, NEW n \in 0..3, \A i \in 1..n : RamdiskSize(a, i) \in Nat
  PROVE  /\ \A i \in 1..n + 1 : Before(a, i) \in Nat
         /\ \A i \in 1..n : Before(a, i + 1) = Before(a, i) + RamdiskSize(a, i)
         /\ \A i \in 1..n : Before(a, i) + RamdiskSize(a, i) <= Before(a, n + 1)
         /\ \A i \in 1..n : \A j \in 1..i - 1 : Before(a, j) + RamdiskSize(a, j) <= Before(a, i)
         /\ Before(a, 1) = 0
<1> DEFINE s1 == RamdiskSize(a, 1)
           s2 == RamdiskSize(a, 2)
           s3 == RamdiskSize(a, 3)
<1>1. /\ Before(a, 1) = 0 /\ Before(a, 2) = s1 + 0 + 0 /\ Before(a, 3) = s1 + s2 + 0
      /\ Before(a, 4) = s1 + s2 + s3
  BY DEF Before
<1>2. (n >= 1 => s1 \in Nat) /\ (n >= 2 => s2 \in Nat) /\ (n >= 3 => s3 \in Nat)
  OBVIOUS
<1> HIDE DEF s1, s2, s3
<1>3. CASE n = 0
  BY <1>1, <1>3
<1>4. CASE n = 1
  BY <1>1, <1>2, <1>4 DEF s1
<1>5. CASE n = 2
  BY <1>1, <1>2, <1>5 DEF s1, s2
<1>6. CASE n = 3
  <2>1. \A i \in 1..4 : i \in {1, 2, 3, 4}
    OBVIOUS
  <2>2. \A i \in 1..3 : i \in {1, 2, 3}
    OBVIOUS
  <2>3. s1 \in Nat /\ s2 \in Nat /\ s3 \in Nat
    BY <1>2, <1>6
  <2>4. /\ Before(a, 1) = 0 /\ Before(a, 2) = s1 /\ Before(a, 3) = s1 + s2
    BY <1>1, <2>3
  <2>5. QED
    BY <1>1, <1>6, <2>1, <2>2, <2>3, <2>4 DEF s1, s2, s3
<1>7. QED
  BY <1>3, <1>4, <1>5, <1>6

\* What the builder holds
LEMMA PackedTyped ==
  ASSUME NEW a, Typed(a), NEW n \in 0..Len(RamdisksOf(a))
  PROVE  /\ n \in 0..3 /\ IsList(Packed(a, n).entries) /\ Len(Packed(a, n).entries) = n
         /\ Packed(a, n).total = Before(a, n + 1) /\ Before(a, n + 1) \in Nat
         /\ \A i \in 1..n :
              /\ Packed(a, n).entries[i] = EntryOf(a, i)
              /\ EntryOf(a, i).file \in File /\ EntryOf(a, i).offset = Before(a, i)
              /\ EntryOf(a, i).size = EntryOf(a, i).file.size
              /\ EntryOf(a, i).file.size \in Nat /\ Before(a, i) \in Nat
              /\ Before(a, i) + EntryOf(a, i).file.size <= Before(a, n + 1)
              /\ \A j \in 1..i - 1 : Before(a, j) + EntryOf(a, j).file.size <= Before(a, i)
<1>1. RamdisksOf(a) \in Seq(Ramdisk) /\ Len(RamdisksOf(a)) \in 0..3 /\ n \in 0..3
  <2>1. RamdisksOf(a) \in Seq(Ramdisk) /\ Len(RamdisksOf(a)) \in 0..3
    BY RamdisksTyped, Zenon
  <2> DEFINE l == Len(RamdisksOf(a))
  <2>2. n \in 0..l /\ l \in 0..3
    BY <2>1
  <2> HIDE DEF l
  <2>3. n \in 0..3
    BY <2>2
  <2>4. QED
    BY <2>1, <2>3
<1>2. ASSUME NEW i \in 1..n
      PROVE  /\ EntryOf(a, i).file.size = RamdiskSize(a, i) /\ RamdiskSize(a, i) \in Nat
             /\ EntryOf(a, i).file \in File /\ EntryOf(a, i).offset = Before(a, i)
             /\ EntryOf(a, i).size = EntryOf(a, i).file.size
  <2>1. RamdisksOf(a)[i] \in Ramdisk
    <3>1. i \in 1..Len(RamdisksOf(a))
      BY <1>1
    <3>2. QED
      BY <1>1, <3>1
  <2>2. RamdisksOf(a)[i].file \in File
    BY <2>1 DEF Ramdisk
  <2>3. RamdisksOf(a)[i].file # None
    BY <2>2, NoneAssumption
  <2>4. RamdiskSize(a, i) = RamdisksOf(a)[i].file.size /\ RamdiskSize(a, i) \in Nat
    BY <2>2, <2>3, FileSizes DEF RamdiskSize, filesize
  <2>5. QED
    BY <2>2, <2>4 DEF EntryOf
<1>3. /\ \A i \in 1..n + 1 : Before(a, i) \in Nat
      /\ \A i \in 1..n : Before(a, i) + RamdiskSize(a, i) <= Before(a, n + 1)
      /\ \A i \in 1..n : \A j \in 1..i - 1 : Before(a, j) + RamdiskSize(a, j) <= Before(a, i)
  BY <1>1, <1>2, BeforeEach
<1>4. Len([i \in 1..n |-> EntryOf(a, i)]) = n /\ IsList([i \in 1..n |-> EntryOf(a, i)])
  <2> DEFINE q == [i \in 1..n |-> EntryOf(a, i)]
             R == {EntryOf(a, i) : i \in 1..n}
  <2>1. q \in [1..n -> R] /\ n \in Nat
    BY <1>1
  <2> HIDE DEF R, q
  <2>2. q \in Seq(R) /\ Len(q) = n
    BY <2>1, FunctionIsSeq, Zenon
  <2>3. IsList(q)
    BY <2>2 DEF IsList
  <2>4. QED
    BY <2>2, <2>3 DEF q
<1>5. \A i \in 1..n : \A j \in 1..i - 1 : j \in 1..n
  BY <1>1
<1>6. n + 1 \in 1..n + 1 /\ \A i \in 1..n : i \in 1..n + 1
  BY <1>1
<1>7. ASSUME NEW i \in 1..n
      PROVE  /\ Packed(a, n).entries[i] = EntryOf(a, i)
             /\ EntryOf(a, i).file \in File /\ EntryOf(a, i).offset = Before(a, i)
             /\ EntryOf(a, i).size = EntryOf(a, i).file.size
             /\ EntryOf(a, i).file.size \in Nat /\ Before(a, i) \in Nat
             /\ Before(a, i) + EntryOf(a, i).file.size <= Before(a, n + 1)
             /\ \A j \in 1..i - 1 : Before(a, j) + EntryOf(a, j).file.size <= Before(a, i)
  <2>1. Packed(a, n).entries[i] = EntryOf(a, i)
    BY DEF Packed
  <2>2. QED
    BY <1>2, <1>3, <1>5, <1>6, <2>1
<1>8. QED
  BY <1>1, <1>3, <1>4, <1>6, <1>7 DEF Packed

-------------------------------------------------------------------------------
(* What only a vendor_boot image has: ramdisks without padding, and a table    *)

\* write_ramdisks_padded() behind m whole pages
CanPack(img, page, m, b, n) ==
    /\ Tidy(img) /\ page \in PageSizes /\ m \in Nat /\ img.len = page * m
    /\ img.ramdisks = << >> /\ n \in Nat /\ Len(b.entries) = n /\ b.total \in Nat
    /\ \A i \in 1..n :
         /\ b.entries[i].offset \in Nat /\ b.entries[i].file.size \in Nat
         /\ b.entries[i].offset + b.entries[i].file.size <= b.total
         /\ \A j \in 1..i - 1 :
              b.entries[j].offset + b.entries[j].file.size <= b.entries[i].offset
PackedAt(img, page, m, b, n) ==
    /\ DOMAIN img.ramdisks = 1..n
    /\ \A i \in 1..n : img.ramdisks[i] = [off  |-> page * m + b.entries[i].offset,
                                          file |-> b.entries[i].file]
PacksWell(new, img, page, m, b, n) ==
    /\ Tidy(new)
    /\ new.len = page * (m + get_number_of_pages(b.total, page))
    /\ m + get_number_of_pages(b.total, page) \in Nat
    /\ PackedAt(new, page, m, b, n)
    /\ new.fields = img.fields /\ new.at = img.at
    /\ new.table = img.table /\ new.table_off = img.table_off

LEMMA PackedBehind ==
  ASSUME NEW img, NEW page, NEW m, NEW b, NEW n, CanPack(img, page, m, b, n)
  PROVE  PacksWell(PackRamdisks(img, b, page), img, page, m, b, n)
<1> DEFINE new == PackRamdisks(img, b, page)
           more == get_number_of_pages(b.total, page)
           ram == [i \in 1..Len(b.entries) |-> [off  |-> img.len + b.entries[i].offset,
                                                file |-> b.entries[i].file]]
<1>0. /\ Tidy(img) /\ page \in PageSizes /\ m \in Nat /\ img.len = page * m
      /\ img.ramdisks = << >> /\ n \in Nat /\ Len(b.entries) = n /\ b.total \in Nat
      /\ \A i \in 1..n :
           /\ b.entries[i].offset \in Nat /\ b.entries[i].file.size \in Nat
           /\ b.entries[i].offset + b.entries[i].file.size <= b.total
           /\ \A j \in 1..i - 1 :
                b.entries[j].offset + b.entries[j].file.size <= b.entries[i].offset
  BY DEF CanPack
<1>1. /\ page * m + b.total + PadLen(page * m + b.total, page) = page * (m + more)
      /\ more \in Nat /\ page * m \in Nat /\ page * (m + more) \in Nat
      /\ page * m + b.total <= page * (m + more) /\ m + more \in Nat
  <2> DEFINE t == b.total
  <2>1. t \in Nat /\ m \in Nat /\ page \in PageSizes
    BY <1>0
  <2> HIDE DEF t
  <2>2. /\ page * m + t + PadLen(page * m + t, page) = page * (m + get_number_of_pages(t, page))
        /\ get_number_of_pages(t, page) \in Nat /\ page * m \in Nat
        /\ page * (m + get_number_of_pages(t, page)) \in Nat
        /\ page * m + t <= page * (m + get_number_of_pages(t, page))
    BY <2>1, PaddedPages
  <2>3. m + get_number_of_pages(t, page) \in Nat
    BY <2>1, <2>2
  <2>4. QED
    BY <2>2, <2>3 DEF t
<1>2. DOMAIN img = DOMAIN Opened /\ img.at = [p \in Part |-> img.at[p]]
  BY <1>0 DEF Tidy
<1>3. {"at", "len", "fields", "ramdisks", "table", "table_off"} \subseteq DOMAIN img
  BY <1>2 DEF Opened
<1>4. new = [img EXCEPT !.ramdisks = ram, !.len = @ + b.total + PadLen(@ + b.total, page)]
  BY DEF PackRamdisks
<1>5. ram = [i \in 1..n |-> [off |-> page * m + b.entries[i].offset, file |-> b.entries[i].file]]
  BY <1>0
<1> HIDE DEF new, ram, more
<1>6. /\ DOMAIN new = DOMAIN Opened /\ new.ramdisks = ram /\ new.len = page * (m + more)
      /\ new.fields = img.fields /\ new.at = img.at
      /\ new.table = img.table /\ new.table_off = img.table_off
  BY <1>0, <1>1, <1>2, <1>3, <1>4
<1>7. PackedAt(new, page, m, b, n)
  BY <1>5, <1>6 DEF PackedAt
<1>8. \A c \in Chunks(new) :
        c \in Chunks(img) \/ \E i \in 1..n : c = [off  |-> page * m + b.entries[i].offset,
                                                  file |-> b.entries[i].file]
  BY <1>6, <1>7 DEF Chunks, PackedAt
<1>9. ASSUME NEW c \in Chunks(new)
      PROVE  /\ c.off \in Nat
             /\ c.file # None => c.file.size \in Nat /\ c.off + c.file.size <= new.len
  <2>1. CASE c \in Chunks(img)
    <3>1. /\ c.off \in Nat
          /\ c.file # None => c.file.size \in Nat /\ c.off + c.file.size <= page * m
      BY <1>0, <2>1 DEF Tidy
    <3>2. QED
      BY <1>0, <1>1, <1>6, <3>1
  <2>2. ASSUME NEW i \in 1..n, c = [off  |-> page * m + b.entries[i].offset,
                                    file |-> b.entries[i].file]
        PROVE  c.off \in Nat /\ c.file.size \in Nat /\ c.off + c.file.size <= new.len
    <3>1. /\ b.entries[i].offset \in Nat /\ b.entries[i].file.size \in Nat
          /\ b.entries[i].offset + b.entries[i].file.size <= b.total
      BY <1>0
    <3>2. c.off = page * m + b.entries[i].offset /\ c.file = b.entries[i].file
      BY <2>2
    <3>3. c.off \in Nat /\ c.file.size \in Nat
      BY <1>1, <3>1, <3>2
    <3>4. c.off + c.file.size <= page * m + b.total
      <4> DEFINE o == b.entries[i].offset
                 z == b.entries[i].file.size
                 t == b.total
                 w == page * m
      <4>1. o \in Nat /\ z \in Nat /\ t \in Nat /\ w \in Nat /\ o + z <= t
        BY <1>0, <1>1, <3>1
      <4>2. c.off = w + o /\ c.file.size = z
        BY <3>2
      <4> HIDE DEF o, z, t, w
      <4>3. c.off + c.file.size <= w + t
        BY <4>1, <4>2
      <4>4. QED
        BY <4>3 DEF w, t
    <3>5. QED
      BY <1>0, <1>1, <1>6, <3>3, <3>4, SMTT(60)
  <2>3. QED
    BY <1>8, <2>1, <2>2
<1>10. ASSUME NEW c \in Chunks(new), NEW d \in Chunks(new), Holds(c), Holds(d), c.off = d.off
       PROVE  c = d
  <2>1. ASSUME NEW x \in Chunks(img), Holds(x) PROVE x.off < page * m
    BY <1>0, <1>1, <2>1 DEF Tidy, Holds
  <2>2. ASSUME NEW i \in 1..n, NEW x, x = [off  |-> page * m + b.entries[i].offset,
                                           file |-> b.entries[i].file]
        PROVE  x.off >= page * m /\ x.off \in Nat
    <3>1. b.entries[i].offset \in Nat
      BY <1>0
    <3>2. QED
      BY <1>1, <2>2, <3>1
  <2>3. CASE c \in Chunks(img)
    <3>1. d \in Chunks(img)
      BY <1>1, <1>8, <1>10, <2>1, <2>2, <2>3
    <3>2. QED
      BY <1>0, <1>10, <2>3, <3>1 DEF Tidy
  <2>4. CASE c \notin Chunks(img)
    <3>1. PICK i \in 1..n : c = [off  |-> page * m + b.entries[i].offset,
                                 file |-> b.entries[i].file]
      BY <1>8, <2>4
    <3>2. d \notin Chunks(img)
      BY <1>1, <1>10, <2>1, <2>2, <3>1
    <3>3. PICK j \in 1..n : d = [off  |-> page * m + b.entries[j].offset,
                                 file |-> b.entries[j].file]
      BY <1>8, <3>2
    <3>4. /\ b.entries[i].offset \in Nat /\ b.entries[j].offset \in Nat
          /\ b.entries[i].file.size \in Nat /\ b.entries[j].file.size \in Nat
          /\ i \in Nat /\ j \in Nat
          /\ i < j => b.entries[i].offset + b.entries[i].file.size <= b.entries[j].offset
          /\ j < i => b.entries[j].offset + b.entries[j].file.size <= b.entries[i].offset
      <4>1. i \in Nat /\ j \in Nat /\ (i < j => i \in 1..j - 1) /\ (j < i => j \in 1..i - 1)
        BY <1>0
      <4>2. QED
        BY <1>0, <4>1, Zenon
    <3>5. /\ b.entries[i].offset = b.entries[j].offset
          /\ b.entries[i].file.size > 0 /\ b.entries[j].file.size > 0
      BY <1>1, <1>10, <3>1, <3>3, <3>4 DEF Holds
    <3>6. i = j
      BY <3>4, <3>5
    <3>7. QED
      BY <3>1, <3>3, <3>6
  <2>5. QED
    BY <2>3, <2>4
<1>11. Tidy(new)
  BY <1>1, <1>2, <1>6, <1>9, <1>10 DEF Tidy
<1>12. QED
  BY <1>1, <1>6, <1>7, <1>11 DEF PacksWell, new, more

\* write_entries_padded() behind m whole pages
CanTable(img, page, m, b, n) ==
    /\ Tidy(img) /\ page \in PageSizes /\ m \in Nat /\ img.len = page * m
    /\ n \in Nat /\ Len(b.entries) = n
TableSize(n) == n * VENDOR_RAMDISK_TABLE_ENTRY_V4_SIZE
HasTable(new, img, page, m, b, n) ==
    /\ Tidy(new)
    /\ new.len = page * (m + get_number_of_pages(TableSize(n), page))
    /\ m + get_number_of_pages(TableSize(n), page) \in Nat
    /\ new.table = b.entries /\ new.table_off = page * m
    /\ new.fields = img.fields /\ new.at = img.at /\ new.ramdisks = img.ramdisks

LEMMA TableBehind ==
  ASSUME NEW img, NEW page, NEW m, NEW b, NEW n, CanTable(img, page, m, b, n)
  PROVE  HasTable(PutTable(img, b, page), img, page, m, b, n)
<1> DEFINE new == PutTable(img, b, page)
           size == TableSize(n)
           more == get_number_of_pages(size, page)
<1>0. /\ Tidy(img) /\ page \in PageSizes /\ m \in Nat /\ img.len = page * m
      /\ n \in Nat /\ Len(b.entries) = n
  BY DEF CanTable
<1>1. size \in Nat
  BY <1>0 DEF TableSize, VENDOR_RAMDISK_TABLE_ENTRY_V4_SIZE
<1>2. new = [img EXCEPT !.table = b.entries, !.table_off = img.len,
                        !.len = @ + size + PadLen(@ + size, page)]
  BY <1>0 DEF PutTable, TableSize
<1> HIDE DEF size
<1>3. /\ page * m + size + PadLen(page * m + size, page) = page * (m + more)
      /\ more \in Nat /\ page * m \in Nat /\ page * (m + more) \in Nat
      /\ page * m + size <= page * (m + more) /\ m + more \in Nat
  <2>1. /\ page * m + size + PadLen(page * m + size, page) = page * (m + more)
        /\ more \in Nat /\ page * m \in Nat /\ page * (m + more) \in Nat
        /\ page * m + size <= page * (m + more)
    BY <1>0, <1>1, PaddedPages
  <2> HIDE DEF more
  <2>2. QED
    BY <1>0, <2>1
<1>4. DOMAIN img = DOMAIN Opened /\ img.at = [p \in Part |-> img.at[p]]
  BY <1>0 DEF Tidy
<1>5. {"at", "len", "fields", "ramdisks", "table", "table_off"} \subseteq DOMAIN img
  BY <1>4 DEF Opened
<1> HIDE DEF new, more
<1>6. /\ DOMAIN new = DOMAIN Opened /\ new.ramdisks = img.ramdisks
      /\ new.len = page * (m + more) /\ new.fields = img.fields /\ new.at = img.at
      /\ new.table = b.entries /\ new.table_off = page * m
  BY <1>0, <1>2, <1>3, <1>4, <1>5
<1>7. Chunks(new) = Chunks(img)
  BY <1>6 DEF Chunks
<1>8. ASSUME NEW c \in Chunks(new)
      PROVE  /\ c.off \in Nat
             /\ c.file # None => c.file.size \in Nat /\ c.off + c.file.size <= new.len
  <2>1. /\ c.off \in Nat
        /\ c.file # None => c.file.size \in Nat /\ c.off + c.file.size <= page * m
    BY <1>0, <1>7 DEF Tidy
  <2>2. QED
    BY <1>1, <1>3, <1>6, <2>1
<1>9. \A c, d \in Chunks(new) : Holds(c) /\ Holds(d) /\ c.off = d.off => c = d
  BY <1>0, <1>7 DEF Tidy
<1>10. Tidy(new)
  BY <1>3, <1>4, <1>6, <1>8, <1>9 DEF Tidy
<1>11. QED
  BY <1>3, <1>6, <1>10 DEF HasTable, new, more, size

\* How many pages a part of a vendor_boot image takes
HeadPages(a) == get_number_of_pages(VendorHeaderSize(a), a.pagesize)
RamdiskBytes(a) == IF a.header_version > 3 THEN BuilderOf(a).total ELSE filesize(a.vendor_ramdisk)
RamPages(a) == get_number_of_pages(RamdiskBytes(a), a.pagesize)
DtbPages(a) == get_number_of_pages(filesize(a.dtb), a.pagesize)
TablePages(a) == get_number_of_pages(TableSize(Entries(a)), a.pagesize)

\* Where the parts are
VendorPlaces(a, img) ==
    /\ Tidy(img) /\ img.fields = VendorFields(a, BuilderOf(a))
    /\ img.at["dtb"] = Placed(a.pagesize * (HeadPages(a) + RamPages(a)), a.dtb)
    /\ a.header_version = 3 =>
         img.at["vendor_ramdisk"] = Placed(a.pagesize * HeadPages(a), a.vendor_ramdisk)
    /\ a.header_version = 4 =>
         /\ PackedAt(img, a.pagesize, HeadPages(a), BuilderOf(a), Entries(a))
         /\ img.table = BuilderOf(a).entries
         /\ img.table_off = a.pagesize * (HeadPages(a) + RamPages(a) + DtbPages(a))
         /\ img.at["bootconfig"] =
              Placed(a.pagesize * (HeadPages(a) + RamPages(a) + DtbPages(a) + TablePages(a)),
                     a.vendor_bootconfig)

\* The builder of a job
LEMMA BuilderTyped ==
  ASSUME NEW a, Typed(a)
  PROVE  /\ Entries(a) \in 0..3 /\ Entries(a) \in 0..Len(RamdisksOf(a))
         /\ IsList(BuilderOf(a).entries) /\ Len(BuilderOf(a).entries) = Entries(a)
         /\ BuilderOf(a).total \in Nat
         /\ \A i \in 1..Entries(a) :
              /\ BuilderOf(a).entries[i] = EntryOf(a, i)
              /\ EntryOf(a, i).file \in File /\ EntryOf(a, i).offset = Before(a, i)
              /\ EntryOf(a, i).size = EntryOf(a, i).file.size
              /\ EntryOf(a, i).file.size \in Nat /\ Before(a, i) \in Nat
              /\ Before(a, i) + EntryOf(a, i).file.size <= BuilderOf(a).total
              /\ \A j \in 1..i - 1 : Before(a, j) + EntryOf(a, j).file.size <= Before(a, i)
<1> DEFINE n == Entries(a)
<1>1. n \in 0..Len(RamdisksOf(a))
  <2>1. Len(RamdisksOf(a)) \in 0..3
    BY RamdisksTyped, Zenon
  <2>2. QED
    BY <2>1 DEF Entries
<1>2. BuilderOf(a) = Packed(a, n)
  BY DEF BuilderOf
<1> HIDE DEF n
<1>3. /\ n \in 0..3 /\ IsList(Packed(a, n).entries) /\ Len(Packed(a, n).entries) = n
      /\ Packed(a, n).total = Before(a, n + 1) /\ Before(a, n + 1) \in Nat
      /\ \A i \in 1..n :
           /\ Packed(a, n).entries[i] = EntryOf(a, i)
           /\ EntryOf(a, i).file \in File /\ EntryOf(a, i).offset = Before(a, i)
           /\ EntryOf(a, i).size = EntryOf(a, i).file.size
           /\ EntryOf(a, i).file.size \in Nat /\ Before(a, i) \in Nat
           /\ Before(a, i) + EntryOf(a, i).file.size <= Before(a, n + 1)
           /\ \A j \in 1..i - 1 : Before(a, j) + EntryOf(a, j).file.size <= Before(a, i)
  BY <1>1, PackedTyped
<1>4. QED
  BY <1>1, <1>2, <1>3, Zenon DEF n

LEMMA VendorPlaced ==
  ASSUME NEW a, GoodVendor(a)
  PROVE  /\ VendorPlaces(a, VendorWhole(a))
         /\ \A img \in {VendorHead(a), VendorRam(a), VendorDtb(a), VendorTable(a), VendorConf(a)} :
              Tidy(img) /\ img.fields = VendorFields(a, BuilderOf(a))
         /\ VendorDtb(a).len = a.pagesize * (HeadPages(a) + RamPages(a) + DtbPages(a))
         /\ VendorDtb(a).len \in Nat
<1> DEFINE P == a.pagesize
           H == HeadPages(a)
           R == RamPages(a)
           D == DtbPages(a)
           E == TablePages(a)
           b == BuilderOf(a)
           n == Entries(a)
           F == VendorFields(a, b)
<1>1. /\ Typed(a) /\ a.header_version \in {3, 4} /\ P \in PageSizes
      /\ {a.dtb, a.vendor_ramdisk, a.vendor_bootconfig} \subseteq File \cup {None}
  <2>1. {a.kernel, a.ramdisk, a.second, a.recovery_dtbo, a.dtb, a.vendor_ramdisk,
         a.vendor_bootconfig} \subseteq File \cup {None}
    BY DEF GoodVendor, Typed
  <2>2. QED
    BY <2>1 DEF GoodVendor
<1>2. \A f \in {a.dtb, a.vendor_ramdisk, a.vendor_bootconfig} : f = None \/ f.size \in Nat
  BY <1>1, FileSizes
<1>3. /\ n \in Nat /\ Len(b.entries) = n /\ b.total \in Nat
      /\ \A i \in 1..n :
           /\ b.entries[i].offset \in Nat /\ b.entries[i].file.size \in Nat
           /\ b.entries[i].offset + b.entries[i].file.size <= b.total
           /\ \A j \in 1..i - 1 :
                b.entries[j].offset + b.entries[j].file.size <= b.entries[i].offset
  <2>1. /\ n \in 0..3 /\ Len(b.entries) = n /\ b.total \in Nat
        /\ \A i \in 1..n :
             /\ b.entries[i] = EntryOf(a, i)
             /\ EntryOf(a, i).offset = Before(a, i)
             /\ EntryOf(a, i).file.size \in Nat /\ Before(a, i) \in Nat
             /\ Before(a, i) + EntryOf(a, i).file.size <= b.total
             /\ \A j \in 1..i - 1 : Before(a, j) + EntryOf(a, j).file.size <= Before(a, i)
    BY <1>1, BuilderTyped, Zenon
  <2>2. \A i \in 1..n : \A j \in 1..i - 1 : j \in 1..n
    BY <2>1
  <2> HIDE DEF b, n
  <2>3. QED
    BY <2>1, <2>2, SMTT(60)
<1>4. /\ Tidy(VendorHead(a)) /\ VendorHead(a).fields = F
      /\ VendorHead(a).len = P * H /\ H \in Nat
      /\ VendorHead(a).at = [p \in Part |-> NoPart]
      /\ VendorHead(a).ramdisks = << >> /\ VendorHead(a).table = << >>
      /\ VendorHead(a).table_off = 0
  <2>1. Width(F) = VendorHeaderSize(a)
    BY <1>1, VendorWidth
  <2>2. VendorHeaderSize(a) \in Nat
    BY DEF VendorHeaderSize
  <2>3. H \in Nat
    BY <1>1, <2>2, PaddedPages DEF HeadPages
  <2> HIDE DEF F, P
  <2>4. VendorHead(a) = Headed(F, P)
    BY DEF VendorHead, F, P
  <2>5. QED
    BY <1>1, <2>1, <2>2, <2>3, <2>4, HeadedTidy DEF HeadPages, P
<1>5. {"vendor_ramdisk", "dtb", "bootconfig"} \subseteq Part
  BY DEF Part
<1> HIDE DEF P, H, b, n, F
<1>6. /\ Tidy(VendorRam(a)) /\ VendorRam(a).fields = F
      /\ VendorRam(a).len = P * (H + R) /\ H + R \in Nat
      /\ a.header_version = 3 =>
           /\ VendorRam(a).at = [VendorHead(a).at EXCEPT !["vendor_ramdisk"] =
                                    Placed(P * H, a.vendor_ramdisk)]
           /\ VendorRam(a).ramdisks = << >> /\ VendorRam(a).table = << >>
           /\ VendorRam(a).table_off = 0
      /\ a.header_version = 4 =>
           /\ VendorRam(a).at = VendorHead(a).at
           /\ PackedAt(VendorRam(a), P, H, b, n)
  <2>1. CASE a.header_version = 3
    <3>1. VendorRam(a) = WritePadded(VendorHead(a), "vendor_ramdisk", a.vendor_ramdisk, P)
      BY <2>1 DEF VendorRam, P
    <3>2. CanWrite(VendorHead(a), P, H, "vendor_ramdisk", a.vendor_ramdisk)
      BY <1>1, <1>2, <1>4, <1>5 DEF CanWrite
    <3>3. Written(VendorRam(a), VendorHead(a), P, H, "vendor_ramdisk", a.vendor_ramdisk)
      BY <3>1, <3>2, WrittenPart
    <3>4. R = get_number_of_pages(filesize(a.vendor_ramdisk), P)
      BY <2>1 DEF RamPages, RamdiskBytes, P
    <3>5. QED
      BY <1>4, <2>1, <3>3, <3>4 DEF Written
  <2>2. CASE a.header_version = 4
    <3>1. VendorRam(a) = PackRamdisks(VendorHead(a), b, P)
      BY <2>2 DEF VendorRam, P, b
    <3>2. CanPack(VendorHead(a), P, H, b, n)
      BY <1>1, <1>3, <1>4, Zenon DEF CanPack
    <3>3. PacksWell(VendorRam(a), VendorHead(a), P, H, b, n)
      BY <3>1, <3>2, PackedBehind
    <3>4. R = get_number_of_pages(b.total, P)
      BY <2>2 DEF RamPages, RamdiskBytes, P, b
    <3>5. QED
      BY <1>4, <2>2, <3>3, <3>4 DEF PacksWell
  <2>3. QED
    BY <1>1, <2>1, <2>2
<1> HIDE DEF R
<1>7. /\ Tidy(VendorDtb(a)) /\ VendorDtb(a).fields = F
      /\ VendorDtb(a).len = P * (H + R + D) /\ H + R + D \in Nat
      /\ VendorDtb(a).at = [VendorRam(a).at EXCEPT !["dtb"] = Placed(P * (H + R), a.dtb)]
      /\ VendorDtb(a).ramdisks = VendorRam(a).ramdisks
  <2>1. VendorRam(a).at["dtb"] = NoPart
    BY <1>1, <1>4, <1>5, <1>6
  <2>2. CanWrite(VendorRam(a), P, H + R, "dtb", a.dtb)
    BY <1>1, <1>2, <1>5, <1>6, <2>1 DEF CanWrite
  <2>3. Written(VendorDtb(a), VendorRam(a), P, H + R, "dtb", a.dtb)
    BY <2>2, WrittenPart DEF VendorDtb, P
  <2>4. D = get_number_of_pages(filesize(a.dtb), P)
    BY DEF DtbPages, P
  <2>5. QED
    BY <1>6, <2>3, <2>4 DEF Written
<1> HIDE DEF D
<1>8. /\ Tidy(VendorTable(a)) /\ VendorTable(a).fields = F
      /\ VendorTable(a).len = P * (H + R + D + E) /\ H + R + D + E \in Nat
      /\ VendorTable(a).at = VendorDtb(a).at
      /\ VendorTable(a).ramdisks = VendorDtb(a).ramdisks
      /\ VendorTable(a).table = b.entries
      /\ VendorTable(a).table_off = P * (H + R + D)
  <2>1. CanTable(VendorDtb(a), P, H + R + D, b, n)
    BY <1>1, <1>3, <1>7 DEF CanTable
  <2>2. HasTable(VendorTable(a), VendorDtb(a), P, H + R + D, b, n)
    BY <2>1, TableBehind DEF VendorTable, P, b
  <2>3. E = get_number_of_pages(TableSize(n), P)
    BY DEF TablePages, P, n
  <2>4. QED
    BY <1>7, <2>2, <2>3 DEF HasTable
<1> HIDE DEF E
<1>9. /\ VendorConf(a).fields = F /\ Tidy(VendorConf(a))
      /\ a.header_version = 4 =>
           /\ VendorConf(a).at = [VendorTable(a).at EXCEPT !["bootconfig"] =
                                     Placed(P * (H + R + D + E), a.vendor_bootconfig)]
           /\ VendorConf(a).ramdisks = VendorTable(a).ramdisks
           /\ VendorConf(a).table = b.entries
           /\ VendorConf(a).table_off = P * (H + R + D)
  <2>1. VendorTable(a).at["bootconfig"] = NoPart
    BY <1>1, <1>4, <1>5, <1>6, <1>7, <1>8
  <2>2. CanWrite(VendorTable(a), P, H + R + D + E, "bootconfig", a.vendor_bootconfig)
    BY <1>1, <1>2, <1>5, <1>8, <2>1 DEF CanWrite
  <2>3. Written(VendorConf(a), VendorTable(a), P, H + R + D + E, "bootconfig",
                a.vendor_bootconfig)
    BY <2>2, WrittenPart DEF VendorConf, P
  <2>4. QED
    BY <1>8, <2>3 DEF Written
<1>10. VendorPlaces(a, VendorWhole(a))
  <2>1. CASE a.header_version = 3
    <3>1. VendorWhole(a) = VendorDtb(a)
      BY <2>1 DEF VendorWhole
    <3>2. VendorDtb(a).at["dtb"] = Placed(P * (H + R), a.dtb)
          /\ VendorDtb(a).at["vendor_ramdisk"] = Placed(P * H, a.vendor_ramdisk)
      BY <1>4, <1>5, <1>6, <1>7, <2>1
    <3>3. a.header_version # 4
      BY <2>1
    <3>4. QED
      BY <1>7, <3>1, <3>2, <3>3, Zenon DEF VendorPlaces, P, H, R, F, b
  <2>2. CASE a.header_version = 4
    <3>1. VendorWhole(a) = VendorConf(a)
      BY <2>2 DEF VendorWhole
    <3>2. VendorConf(a).at["dtb"] = Placed(P * (H + R), a.dtb)
          /\ VendorConf(a).at["bootconfig"] = Placed(P * (H + R + D + E), a.vendor_bootconfig)
      BY <1>4, <1>5, <1>6, <1>7, <1>8, <1>9, <2>2
    <3>3. VendorConf(a).ramdisks = VendorRam(a).ramdisks
      BY <1>7, <1>8, <1>9, <2>2
    <3>4. PackedAt(VendorConf(a), P, H, b, n)
      BY <1>6, <2>2, <3>3 DEF PackedAt
    <3>5. QED
      BY <1>9, <2>2, <3>1, <3>2, <3>4 DEF VendorPlaces, P, H, R, D, E, F, b, n
  <2>3. QED
    BY <1>1, <2>1, <2>2
<1>11. QED
  BY <1>4, <1>6, <1>7, <1>8, <1>9, <1>10 DEF F, b, P, H, R, D, Tidy

-------------------------------------------------------------------------------
(* What unpack_vendor_boot_image() reads                                       *)

LEMMA VendorValues ==
  ASSUME NEW a, NEW b, a.header_version \in Int
  PROVE  /\ \A k \in 1..12 : VendorFields(a, b)[k] = VendorFront(a, b)[k]
         /\ a.header_version > 3 =>
              /\ VendorFields(a, b)[13].v = TableSize(Len(b.entries))
              /\ VendorFields(a, b)[14].v = Len(b.entries)
              /\ VendorFields(a, b)[15].v = VENDOR_RAMDISK_TABLE_ENTRY_V4_SIZE
              /\ VendorFields(a, b)[16].v = filesize(a.vendor_bootconfig)
<1> DEFINE f == VendorFields(a, b)
<1>1. /\ Agrees(f, VendorFront(a, b), 12)
      /\ a.header_version > 3 => Follows(f, VendorRest(a, b), 12, 4)
  BY VendorShape
<1> HIDE DEF f
<1>2. a.header_version > 3 =>
        /\ f[13] = VendorRest(a, b)[1] /\ f[14] = VendorRest(a, b)[2]
        /\ f[15] = VendorRest(a, b)[3] /\ f[16] = VendorRest(a, b)[4]
  <2>1. /\ 1 \in 1..4 /\ 2 \in 1..4 /\ 3 \in 1..4 /\ 4 \in 1..4
        /\ 12 + 1 = 13 /\ 12 + 2 = 14 /\ 12 + 3 = 15 /\ 12 + 4 = 16
    OBVIOUS
  <2>2. QED
    BY <1>1, <2>1 DEF Follows
<1>3. /\ VendorRest(a, b)[1].v = TableSize(Len(b.entries))
      /\ VendorRest(a, b)[2].v = Len(b.entries)
      /\ VendorRest(a, b)[3].v = VENDOR_RAMDISK_TABLE_ENTRY_V4_SIZE
      /\ VendorRest(a, b)[4].v = filesize(a.vendor_bootconfig)
  BY DEF VendorRest, Field, TableSize
<1>4. QED
  BY <1>1, <1>2, <1>3 DEF f, Agrees

\* The entry that is read is the one that is there.
LEMMA EntryRead ==
  ASSUME NEW img, NEW n \in Nat, DOMAIN img.table = 1..n, img.table_off \in Nat, NEW i \in 1..n
  PROVE  EntryAt(img, img.table_off + VENDOR_RAMDISK_TABLE_ENTRY_V4_SIZE * (i - 1)) = img.table[i]
<1> DEFINE o == img.table_off
           off == o + VENDOR_RAMDISK_TABLE_ENTRY_V4_SIZE * (i - 1)
           hits == {k \in DOMAIN img.table :
                      img.table_off + (k - 1) * VENDOR_RAMDISK_TABLE_ENTRY_V4_SIZE = off}
<1>1. hits = {i}
  <2> HIDE DEF o
  <2>1. o \in Nat
    BY DEF o
  <2>2. \A k \in 1..n : o + (k - 1) * 108 = o + 108 * (i - 1) <=> k = i
    BY <2>1
  <2>3. \A k \in DOMAIN img.table :
           img.table_off + (k - 1) * VENDOR_RAMDISK_TABLE_ENTRY_V4_SIZE = off <=> k = i
    BY <2>2 DEF o, VENDOR_RAMDISK_TABLE_ENTRY_V4_SIZE
  <2>4. QED
    BY <2>3
<1> HIDE DEF off, hits
<1>2. hits # {} /\ (CHOOSE k \in hits : TRUE) = i
  BY <1>1
<1>3. EntryAt(img, off) = img.table[i]
  BY <1>2 DEF EntryAt, hits
<1>4. QED
  BY <1>3 DEF off, o

\* The sizes that are read from a header and the table are those of the parts.
LEMMA VendorSizes ==
  ASSUME NEW a, GoodVendor(a), NEW img, VendorPlaces(a, img)
  PROVE  LET h == VendorInfo(img)
         IN  /\ ~IsBoot(img)
             /\ h.header_version = a.header_version /\ h.page_size = a.pagesize
             /\ h.vendor_ramdisk_size = RamdiskBytes(a)
             /\ h.header_size = VendorHeaderSize(a) /\ h.dtb_size = filesize(a.dtb)
             /\ a.header_version = 3 => h.table = << >>
             /\ a.header_version = 4 =>
                  /\ h.table_size = TableSize(Entries(a))
                  /\ h.bootconfig_size = filesize(a.vendor_bootconfig)
                  /\ h.table = BuilderOf(a).entries
<1> DEFINE f == img.fields
           b == BuilderOf(a)
           h == VendorInfo(img)
           P == a.pagesize
<1>1. Typed(a) /\ a.header_version \in {3, 4}
  BY DEF GoodVendor
<1>2. f = VendorFields(a, b)
  BY DEF VendorPlaces
<1>3. /\ \A k \in 1..12 : f[k] = VendorFront(a, b)[k]
      /\ a.header_version = 4 =>
           /\ f[13].v = TableSize(Len(b.entries)) /\ f[14].v = Len(b.entries)
           /\ f[15].v = VENDOR_RAMDISK_TABLE_ENTRY_V4_SIZE
           /\ f[16].v = filesize(a.vendor_bootconfig)
  <2>1. a.header_version \in Int /\ (a.header_version = 4 => a.header_version > 3)
    BY <1>1
  <2>2. QED
    BY <1>2, <2>1, VendorValues
<1>4. /\ f[1].v = "VNDRBOOT" /\ f[2].v = a.header_version /\ f[3].v = P
      /\ f[6].v = RamdiskBytes(a) /\ f[10].v = VendorHeaderSize(a)
      /\ f[11].v = filesize(a.dtb)
  <2>1. /\ f[1] = VendorFront(a, b)[1] /\ f[2] = VendorFront(a, b)[2]
        /\ f[3] = VendorFront(a, b)[3] /\ f[6] = VendorFront(a, b)[6]
        /\ f[10] = VendorFront(a, b)[10] /\ f[11] = VendorFront(a, b)[11]
    BY <1>3
  <2>2. QED
    BY <2>1 DEF VendorFront, Field, RamdiskBytes, VendorHeaderSize
<1>5. ~IsBoot(img)
  BY <1>4 DEF IsBoot, Magic
<1> DEFINE off == P * (get_number_of_pages(f[10].v, P) + get_number_of_pages(f[6].v, P)
                       + get_number_of_pages(f[11].v, P))
<1>0. TableOffset(f) = off
  <2> HIDE DEF f
  <2>1. QED
    BY <1>4, Zenon DEF TableOffset
<1>6. /\ h.header_version = a.header_version /\ h.page_size = P
      /\ h.vendor_ramdisk_size = RamdiskBytes(a)
      /\ h.header_size = VendorHeaderSize(a) /\ h.dtb_size = filesize(a.dtb)
      /\ h.table_size = IF f[2].v > 3 THEN f[13].v ELSE 0
      /\ h.bootconfig_size = IF f[2].v > 3 THEN f[16].v ELSE 0
      /\ h.table = IF f[2].v <= 3 THEN << >>
                   ELSE [i \in 1..f[14].v |-> EntryAt(img, off + f[15].v * (i - 1))]
  <2> HIDE DEF f
  <2>1. h.table = IF f[2].v <= 3 THEN << >>
                  ELSE [i \in 1..f[14].v |-> EntryAt(img, TableOffset(f) + f[15].v * (i - 1))]
    BY DEF VendorInfo, f
  <2>2. QED
    BY <1>0, <1>4, <2>1, Zenon DEF VendorInfo, f
<1>7. a.header_version = 3 => h.table = << >>
  BY <1>4, <1>6
<1>8. ASSUME a.header_version = 4
      PROVE  /\ h.table_size = TableSize(Entries(a))
             /\ h.bootconfig_size = filesize(a.vendor_bootconfig)
             /\ h.table = b.entries
  <2> DEFINE n == Entries(a)
  <2>1. f[2].v > 3 /\ ~(f[2].v <= 3)
    BY <1>4, <1>8
  <2>2. n \in Nat /\ Len(b.entries) = n /\ b.entries = [i \in 1..n |-> EntryOf(a, i)]
    <3>1. Entries(a) \in 0..3 /\ Len(BuilderOf(a).entries) = Entries(a)
      BY <1>1, BuilderTyped, Zenon
    <3>2. QED
      BY <3>1 DEF BuilderOf, Packed
  <2>3. /\ img.table = b.entries
        /\ img.table_off = P * (HeadPages(a) + RamPages(a) + DtbPages(a))
    BY <1>8 DEF VendorPlaces
  <2>4. off = img.table_off
    BY <1>4, <2>3 DEF HeadPages, RamPages, DtbPages
  <2>5. img.table_off \in Nat
    <3>1. RamdiskBytes(a) \in Nat
      BY <1>1, <1>8, BuilderTyped DEF RamdiskBytes
    <3>2. filesize(a.dtb) \in Nat
      <4>1. {a.kernel, a.ramdisk, a.second, a.recovery_dtbo, a.dtb, a.vendor_ramdisk,
             a.vendor_bootconfig} \subseteq File \cup {None}
        BY DEF GoodVendor, Typed
      <4>2. QED
        BY <4>1, FileSizes
    <3>3. P \in PageSizes /\ VendorHeaderSize(a) \in Nat
      BY DEF GoodVendor, VendorHeaderSize
    <3>4. HeadPages(a) \in Nat /\ RamPages(a) \in Nat /\ DtbPages(a) \in Nat
      BY <3>1, <3>2, <3>3, PaddedPages DEF HeadPages, RamPages, DtbPages
    <3>5. HeadPages(a) + RamPages(a) + DtbPages(a) \in Nat
      BY <3>4
    <3>6. QED
      BY <2>3, <3>3, <3>5, PaddedPages
  <2>6. DOMAIN img.table = 1..n
    BY <2>2, <2>3
  <2> HIDE DEF n, off, b, h, f
  <2>7. h.table = [i \in 1..n |->
                     EntryAt(img, off + VENDOR_RAMDISK_TABLE_ENTRY_V4_SIZE * (i - 1))]
    BY <1>3, <1>6, <1>8, <2>1, <2>2
  <2>8. ASSUME NEW i \in 1..n
        PROVE  EntryAt(img, off + VENDOR_RAMDISK_TABLE_ENTRY_V4_SIZE * (i - 1)) = b.entries[i]
    <3>1. EntryAt(img, img.table_off + VENDOR_RAMDISK_TABLE_ENTRY_V4_SIZE * (i - 1))
            = img.table[i]
      BY <2>2, <2>5, <2>6, EntryRead
    <3>2. QED
      BY <2>3, <2>4, <3>1
  <2>9. h.table = b.entries
    BY <2>2, <2>7, <2>8
  <2>10. QED
    BY <1>3, <1>6, <1>8, <2>1, <2>2, <2>9 DEF n
<1>9. QED
  BY <1>5, <1>6, <1>7, <1>8, Zenon

\* unpack_vendor_boot_image(): the parts that are listed
VendorItems(h) ==
    LET pages(size) == get_number_of_pages(size, h.page_size)
        header == pages(h.header_size)
        ramdisk == pages(h.vendor_ramdisk_size)
        dtb == pages(h.dtb_size)
    IN  (IF h.header_version > 3
         THEN {ItemAt(h.page_size * header + h.table[i].offset, h.table[i].size,
                      RamdiskFile[i]) : i \in DOMAIN h.table}
              \cup {ItemAt(h.page_size * (header + ramdisk + dtb + pages(h.table_size)),
                           h.bootconfig_size, "bootconfig")}
         ELSE {ItemAt(h.page_size * header, h.vendor_ramdisk_size, "vendor_ramdisk")})
        \cup (IF h.dtb_size > 0
              THEN {ItemAt(h.page_size * (header + ramdisk), h.dtb_size, "dtb")} ELSE {})

LEMMA VendorListed ==
  ASSUME NEW h, NEW n \in Nat, DOMAIN h.table = 1..n
  PROVE  IsList(VendorImageList(h)) /\ ItemsOf(VendorImageList(h)) = VendorItems(h)
<1> DEFINE pages(size) == get_number_of_pages(size, h.page_size)
           header == pages(h.header_size)
           ramdisk == pages(h.vendor_ramdisk_size)
           dtb == pages(h.dtb_size)
           item(i) == ItemAt(h.page_size * header + h.table[i].offset, h.table[i].size,
                             RamdiskFile[i])
           o1 == h.page_size * (header + ramdisk + dtb + pages(h.table_size))
           o2 == h.page_size * header
           o3 == h.page_size * (header + ramdisk)
           q1 == [i \in 1..n |-> item(i)]
           q2 == Item(o1, h.bootconfig_size, "bootconfig")
           q3 == Item(o2, h.vendor_ramdisk_size, "vendor_ramdisk")
           q4 == ItemIf(h.dtb_size > 0, o3, h.dtb_size, "dtb")
<1>1. VendorImageList(h) = (IF h.header_version > 3 THEN q1 \o q2 ELSE q3) \o q4
  BY DEF VendorImageList, ItemAt
<1>2. VendorItems(h) = (IF h.header_version > 3
                        THEN {item(i) : i \in 1..n} \cup {ItemAt(o1, h.bootconfig_size, "bootconfig")}
                        ELSE {ItemAt(o2, h.vendor_ramdisk_size, "vendor_ramdisk")})
                       \cup (IF h.dtb_size > 0 THEN {ItemAt(o3, h.dtb_size, "dtb")} ELSE {})
  BY DEF VendorItems
<1> HIDE DEF o1, o2, o3
<1>3. IsList(q1) /\ ItemsOf(q1) = {item(i) : i \in 1..n}
  <2> DEFINE R == {item(i) : i \in 1..n}
  <2> HIDE DEF item
  <2>1. q1 \in [1..n -> R] /\ DOMAIN q1 = 1..n /\ \A i \in 1..n : q1[i] = item(i)
    OBVIOUS
  <2> HIDE DEF q1
  <2>2. ItemsOf(q1) = R
    BY <2>1 DEF ItemsOf
  <2> HIDE DEF R
  <2>3. q1 \in Seq(R)
    BY <2>1, FunctionIsSeq, Zenon
  <2>4. QED
    BY <2>2, <2>3 DEF IsList, R
<1>4. /\ IsList(q2) /\ ItemsOf(q2) = {ItemAt(o1, h.bootconfig_size, "bootconfig")}
      /\ IsList(q3) /\ ItemsOf(q3) = {ItemAt(o2, h.vendor_ramdisk_size, "vendor_ramdisk")}
  BY ItemsOne
<1>5. /\ IsList(q4)
      /\ ItemsOf(q4) = IF h.dtb_size > 0 THEN {ItemAt(o3, h.dtb_size, "dtb")} ELSE {}
  BY ItemsOne, NoItems DEF ItemIf
<1> HIDE DEF q1, q2, q3, q4, item
<1>6. IsList(q1 \o q2) /\ ItemsOf(q1 \o q2) = ItemsOf(q1) \cup ItemsOf(q2)
  BY <1>3, <1>4, ItemsJoin
<1>7. IsList(q1 \o q2 \o q4) /\ ItemsOf(q1 \o q2 \o q4) = ItemsOf(q1 \o q2) \cup ItemsOf(q4)
  BY <1>5, <1>6, ItemsJoin
<1>8. IsList(q3 \o q4) /\ ItemsOf(q3 \o q4) = ItemsOf(q3) \cup ItemsOf(q4)
  BY <1>4, <1>5, ItemsJoin
<1>9. CASE h.header_version > 3
  BY <1>1, <1>2, <1>3, <1>4, <1>5, <1>6, <1>7, <1>9
<1>10. CASE ~(h.header_version > 3)
  BY <1>1, <1>2, <1>4, <1>5, <1>8, <1>10
<1>11. QED
  BY <1>9, <1>10

\* What an item of a vendor_boot image is read as
IsVendorPart(a, t, f) ==
    \/ t.name = "dtb" /\ f = BytesOf(a.dtb)
    \/ a.header_version = 3 /\ t.name = "vendor_ramdisk" /\ f = BytesOf(a.vendor_ramdisk)
    \/ a.header_version = 4 /\ t.name = "bootconfig" /\ f = BytesOf(a.vendor_bootconfig)
    \/ a.header_version = 4
       /\ \E i \in 1..Entries(a) : t.name = RamdiskFile[i] /\ f = BytesOf(EntryOf(a, i).file)

\* Each item that unpack_vendor_boot_image() lists is the part of its name,
LEMMA VendorReads ==
  ASSUME NEW a, GoodVendor(a), NEW img, VendorPlaces(a, img)
  PROVE  \A t \in VendorItems(VendorInfo(img)) : IsVendorPart(a, t, Read(img, t.off, t.size))
<1> DEFINE h == VendorInfo(img)
           P == a.pagesize
           n == Entries(a)
<1>1. /\ h.header_version = a.header_version /\ h.page_size = P
      /\ h.vendor_ramdisk_size = RamdiskBytes(a)
      /\ h.header_size = VendorHeaderSize(a) /\ h.dtb_size = filesize(a.dtb)
      /\ a.header_version = 4 =>
           /\ h.table_size = TableSize(n) /\ h.bootconfig_size = filesize(a.vendor_bootconfig)
           /\ h.table = BuilderOf(a).entries
  BY VendorSizes
<1>2. /\ Typed(a) /\ a.header_version \in {3, 4}
      /\ {a.dtb, a.vendor_ramdisk, a.vendor_bootconfig} \subseteq File \cup {None}
  <2>1. {a.kernel, a.ramdisk, a.second, a.recovery_dtbo, a.dtb, a.vendor_ramdisk,
         a.vendor_bootconfig} \subseteq File \cup {None}
    BY DEF GoodVendor, Typed
  <2>2. QED
    BY <2>1 DEF GoodVendor
<1>3. {"vendor_ramdisk", "dtb", "bootconfig"} \subseteq Part
  BY DEF Part
<1>4. Tidy(img)
  BY DEF VendorPlaces
<1>5. Read(img, P * (HeadPages(a) + RamPages(a)), filesize(a.dtb)) = BytesOf(a.dtb)
  BY <1>2, <1>3, <1>4, ReadPlaced DEF VendorPlaces
<1>6. a.header_version = 3 =>
        Read(img, P * HeadPages(a), filesize(a.vendor_ramdisk)) = BytesOf(a.vendor_ramdisk)
  BY <1>2, <1>3, <1>4, ReadPlaced DEF VendorPlaces
<1>7. a.header_version = 4 =>
        Read(img, P * (HeadPages(a) + RamPages(a) + DtbPages(a) + TablePages(a)),
             filesize(a.vendor_bootconfig)) = BytesOf(a.vendor_bootconfig)
  BY <1>2, <1>3, <1>4, ReadPlaced DEF VendorPlaces
<1>8. ASSUME a.header_version = 4, NEW i \in 1..n
      PROVE  LET e == BuilderOf(a).entries[i]
             IN  Read(img, P * HeadPages(a) + e.offset, e.size) = BytesOf(EntryOf(a, i).file)
  <2> DEFINE e == BuilderOf(a).entries[i]
             f == EntryOf(a, i).file
             c == [off |-> P * HeadPages(a) + e.offset, file |-> f]
  <2>1. e = EntryOf(a, i) /\ f \in File /\ e.size = f.size /\ f.size \in Nat
    BY <1>2, BuilderTyped, Zenon
  <2>2. img.ramdisks[i] = c /\ i \in DOMAIN img.ramdisks
    BY <1>8, <2>1 DEF VendorPlaces, PackedAt
  <2>3. c \in Chunks(img)
    BY <2>2 DEF Chunks
  <2>4. f # None /\ filesize(f) = f.size
    BY <2>1, NoneAssumption DEF filesize
  <2> HIDE DEF e, f
  <2>5. CASE e.size = 0
    <3>1. BytesOf(f) = Empty
      BY <2>1, <2>4, <2>5 DEF BytesOf
    <3>2. QED
      BY <2>5, <3>1, ReadNothing DEF e, f
  <2>6. CASE e.size # 0
    <3>1. Holds(c)
      BY <2>1, <2>4, <2>6 DEF Holds
    <3>2. Read(img, c.off, c.file.size) = c.file
      BY <1>4, <2>3, <3>1, ReadHeld
    <3>3. BytesOf(f) = f
      BY <2>1, <2>4, <2>6 DEF BytesOf
    <3>4. QED
      BY <2>1, <3>2, <3>3 DEF e, f
  <2>7. QED
    BY <2>5, <2>6
<1> HIDE DEF h
<1>9. ASSUME NEW t \in VendorItems(h)
      PROVE  IsVendorPart(a, t, Read(img, t.off, t.size))
  <2>1. /\ get_number_of_pages(h.header_size, h.page_size) = HeadPages(a)
        /\ get_number_of_pages(h.vendor_ramdisk_size, h.page_size) = RamPages(a)
        /\ get_number_of_pages(h.dtb_size, h.page_size) = DtbPages(a)
        /\ a.header_version = 4 => get_number_of_pages(h.table_size, h.page_size) = TablePages(a)
    BY <1>1 DEF HeadPages, RamPages, DtbPages, TablePages
  <2>2. a.header_version = 4 => DOMAIN BuilderOf(a).entries = 1..n
    <3>1. IsList(BuilderOf(a).entries) /\ Len(BuilderOf(a).entries) = n
      BY <1>2, BuilderTyped, Zenon
    <3>2. QED
      BY <3>1 DEF IsList
  <2>3. a.header_version = 3 => RamdiskBytes(a) = filesize(a.vendor_ramdisk)
    BY DEF RamdiskBytes
  <2>4. CASE a.header_version = 3
    <3>1. ~(h.header_version > 3)
      BY <1>1, <2>4
    <3>2. \/ t = ItemAt(P * HeadPages(a), filesize(a.vendor_ramdisk), "vendor_ramdisk")
          \/ t = ItemAt(P * (HeadPages(a) + RamPages(a)), filesize(a.dtb), "dtb")
      BY <1>1, <2>1, <2>3, <2>4, <3>1, Zenon DEF VendorItems
    <3>3. QED
      BY <1>5, <1>6, <2>4, <3>2 DEF ItemAt, IsVendorPart
  <2>5. CASE a.header_version = 4
    <3>1. h.header_version > 3
      BY <1>1, <2>5
    <3> DEFINE e(i) == BuilderOf(a).entries[i]
    <3>2. \/ \E i \in 1..n : t = ItemAt(P * HeadPages(a) + e(i).offset, e(i).size,
                                        RamdiskFile[i])
          \/ t = ItemAt(P * (HeadPages(a) + RamPages(a) + DtbPages(a) + TablePages(a)),
                        filesize(a.vendor_bootconfig), "bootconfig")
          \/ t = ItemAt(P * (HeadPages(a) + RamPages(a)), filesize(a.dtb), "dtb")
      BY <1>1, <2>1, <2>2, <2>5, <3>1, Zenon DEF VendorItems
    <3>3. ASSUME NEW i \in 1..n, t = ItemAt(P * HeadPages(a) + e(i).offset, e(i).size,
                                            RamdiskFile[i])
          PROVE  t.name = RamdiskFile[i]
                 /\ Read(img, t.off, t.size) = BytesOf(EntryOf(a, i).file)
      <4>1. t.name = RamdiskFile[i] /\ t.off = P * HeadPages(a) + e(i).offset
            /\ t.size = e(i).size
        BY <3>3 DEF ItemAt
      <4>2. Read(img, P * HeadPages(a) + e(i).offset, e(i).size) = BytesOf(EntryOf(a, i).file)
        BY <1>8, <2>5
      <4>3. QED
        BY <4>1, <4>2
    <3>4. CASE \E i \in 1..n : t = ItemAt(P * HeadPages(a) + e(i).offset, e(i).size,
                                        RamdiskFile[i])
      BY <2>5, <3>3, <3>4, Zenon DEF IsVendorPart
    <3>5. CASE ~ \E i \in 1..n : t = ItemAt(P * HeadPages(a) + e(i).offset, e(i).size,
                                        RamdiskFile[i])
      BY <1>5, <1>7, <2>5, <3>2, <3>5 DEF ItemAt, IsVendorPart
    <3>6. QED
      BY <3>4, <3>5
  <2>6. QED
    BY <1>2, <2>4, <2>5
<1>10. QED
  BY <1>9 DEF h

\* and all of them are listed.
LEMMA VendorListedParts ==
  ASSUME NEW a, GoodVendor(a), NEW img, VendorPlaces(a, img)
  PROVE  LET names == {t.name : t \in VendorItems(VendorInfo(img))}
         IN  /\ "dtb" \in names
             /\ a.header_version = 3 => "vendor_ramdisk" \in names
             /\ a.header_version = 4 =>
                  /\ "bootconfig" \in names
                  /\ \A i \in 1..Entries(a) : RamdiskFile[i] \in names
<1> DEFINE h == VendorInfo(img)
           names == {t.name : t \in VendorItems(h)}
<1>1. /\ h.header_version = a.header_version /\ h.dtb_size = filesize(a.dtb)
      /\ a.header_version = 4 => h.table = BuilderOf(a).entries
  BY VendorSizes
<1>2. /\ filesize(a.dtb) > 0 /\ a.header_version \in {3, 4} /\ Typed(a)
  BY DEF GoodVendor
<1>3. DOMAIN BuilderOf(a).entries = 1..Entries(a)
  <2>1. IsList(BuilderOf(a).entries) /\ Len(BuilderOf(a).entries) = Entries(a)
    BY <1>2, BuilderTyped, Zenon
  <2>2. QED
    BY <2>1 DEF IsList
<1> HIDE DEF h
<1>4. \A x, y, n : ItemAt(x, y, n).name = n
  BY DEF ItemAt
<1>5. \E x, y : ItemAt(x, y, "dtb") \in VendorItems(h)
  BY <1>1, <1>2, Zenon DEF VendorItems
<1>6. a.header_version = 3 => \E x, y : ItemAt(x, y, "vendor_ramdisk") \in VendorItems(h)
  <2>1. a.header_version = 3 => ~(h.header_version > 3)
    BY <1>1
  <2>2. QED
    BY <2>1, Zenon DEF VendorItems
<1>7. a.header_version = 4 =>
        /\ \E x, y : ItemAt(x, y, "bootconfig") \in VendorItems(h)
        /\ \A i \in 1..Entries(a) : \E x, y : ItemAt(x, y, RamdiskFile[i]) \in VendorItems(h)
  <2>1. a.header_version = 4 => h.header_version > 3 /\ DOMAIN h.table = 1..Entries(a)
    BY <1>1, <1>3
  <2>2. QED
    BY <2>1, Zenon DEF VendorItems
<1>8. ASSUME NEW m, \E x, y : ItemAt(x, y, m) \in VendorItems(h)
      PROVE  m \in names
  BY <1>4, <1>8
<1> HIDE DEF names
<1>9. QED
  BY <1>5, <1>6, <1>7, <1>8 DEF names, h

-------------------------------------------------------------------------------
(* What is on disk while an image is built, and after                          *)

\* The image that a run of mkbootimg.py has got so far with
VendorStage(a) ==
    CASE pc \in {"vendor_ramdisk", "vendor_ramdisks"} -> VendorHead(a)
      [] pc = "vendor_dtb" -> VendorRam(a)
      [] pc = "vendor_table" -> VendorDtb(a)
      [] pc = "vendor_bootconfig" -> VendorTable(a)
BootStage(a) ==
    CASE pc = "kernel" -> WithHeader(a) [] pc = "ramdisk" -> WithKernel(a)
      [] pc = "second" -> WithRamdisk(a) [] pc = "recovery_dtbo" -> WithSecond(a)
      [] pc = "dtb" -> WithDtbo(a) [] pc = "boot_signature" -> WithDtb(a)

\* What a build has at every step: a job whose options are of their types and fit,
\* the table of its ramdisks as far as they have been added,
BuilderInv ==
    /\ pc \in Building \cup {"parse"} => Typed(job)
    /\ pc \in Building => ArgumentsFit(job)
    /\ pc = "add_entry" =>
         /\ job.vendor_boot # None /\ Version > 3
         /\ Added \in 0..Len(RamdisksOf(job))
         /\ builder = Packed(job, Added) /\ NoneRefused(job, Added)
    /\ pc \in Building \ {"add_entry"} =>
         builder = BuilderOf(job) /\ NoneRefused(job, Entries(job))

\* outputs that are empty until their header is written,
EmptyOutput(n) == disk[n] = Opened /\ ~made[n].whole
OutputInv ==
    /\ pc \in Building \ BootPhase /\ job.output # None => EmptyOutput(job.output)
    /\ pc \in {"add_entry", "main", "vendor_header"} /\ job.vendor_boot # None =>
         EmptyOutput(job.vendor_boot)

\* and in the one it writes, exactly the parts that come before.
StageInv ==
    /\ pc = "vendor_header" => /\ job.vendor_boot # None /\ Version \in {3, 4}
                               /\ Version = 3 => job.vendor_ramdisk # None
    /\ pc \in VendorPhase =>
         /\ GoodVendor(job) /\ ~made[job.vendor_boot].whole
         /\ disk[job.vendor_boot] = VendorStage(job)
         /\ pc = "vendor_ramdisk" => Version = 3
         /\ pc \in {"vendor_ramdisks", "vendor_table", "vendor_bootconfig"} => Version = 4
    /\ pc \in BootPhase =>
         /\ job.output # None /\ GoodBoot(job) /\ ~made[job.output].whole
         /\ disk[job.output] = BootStage(job)

\* What avbtool gives when add_boot_image_signature() fails
SigningFailed == {"avbtool fails", "too long"}

\* An image that is complete, or lacks nothing but a signature that failed
CompleteBoot(img, by) ==
    /\ GoodBoot(by.job) /\ ArgumentsFit(by.job)
    /\ IF by.whole THEN img = Signed(by.job)
       ELSE /\ by.job.header_version = 4 /\ by.job.signature \in SigningFailed
            /\ img = WithDtb(by.job)
CompleteVendor(img, by) ==
    GoodVendor(by.job) /\ ArgumentsFit(by.job) /\ by.whole /\ img = VendorWhole(by.job)

\* The beginning of a header, and nothing else
Bare(img) ==
    Width(img.fields) \in Nat
    /\ img = [Opened EXCEPT !.fields = img.fields, !.len = Width(img.fields)]

\* A vendor_boot image that was abandoned in its table, before the type of an entry
CutInTable(img, by) ==
    /\ ~by.whole /\ GoodVendor(by.job) /\ by.job.header_version = 4
    /\ \E k \in 0..Entries(by.job) - 1 :
         img = CutTable(VendorDtb(by.job), BuilderOf(by.job).entries, k)

\* Every image is one never built, a beginning of a header, complete, cut in its table, or
\* the one that is written.
ContentInv(n) ==
    \/ made[n] = None /\ disk[n] = Opened
    \/ ~made[n].whole /\ CutShort(disk[n].fields, n, made[n].job) /\ Bare(disk[n])
    \/ n = made[n].job.output /\ CompleteBoot(disk[n], made[n])
    \/ n = made[n].job.vendor_boot /\ CompleteVendor(disk[n], made[n])
    \/ n = made[n].job.vendor_boot /\ CutInTable(disk[n], made[n])
    \/ ~made[n].whole /\ (\/ pc \in VendorPhase /\ n = job.vendor_boot
                          \/ pc \in BootPhase /\ n = job.output)

\* What unpack_bootimg.py has read is a complete image; each part it lists has been
\* extracted or still is to be; and at the end the links lead to the ramdisks.
ListOf(i) == IF IsBoot(i.of) THEN BootItems(i.header) ELSE VendorItems(i.header)
ReadInv ==
    pc # "unpack" /\ info # None =>
        /\ CompleteBoot(info.of, info.job) \/ CompleteVendor(info.of, info.job)
        /\ info.header = IF IsBoot(info.of) THEN BootInfo(info.of.fields) ELSE VendorInfo(info.of)
        /\ \A t \in ListOf(info) : \/ pc = "extract" /\ t \in ItemsOf(todo)
                                   \/ outdir[t.name] = Read(info.of, t.off, t.size)
        /\ pc # "extract" /\ ~IsBoot(info.of) =>
             \A i \in DOMAIN info.header.table :
               LET name == info.header.table[i].name
               IN  name \in DOMAIN links /\ links[name] = RamdiskFile[i]
ListInv ==
    /\ DOMAIN outdir = OutFile
    /\ pc = "extract" => /\ info.image \in Image /\ Source = info.of
                         /\ IsList(todo) /\ ItemsOf(todo) \subseteq ListOf(info)
                         /\ ~IsBoot(info.of) => DOMAIN info.header.table \subseteq 1..3

TripInv ==
    /\ BuilderInv /\ OutputInv /\ StageInv /\ (\A n \in Image : ContentInv(n))
    /\ ReadInv /\ ListInv

-------------------------------------------------------------------------------
(* Writing a header                                                            *)

\* The beginning of a header has a width.
LEMMA PrefixWidth ==
  ASSUME NEW R, NEW g \in Seq(R), Wide(g)
  PROVE  Width(g) \in Nat
<1>1. Len(g) \in Nat /\ HasFields(g, Len(g))
  BY DEF HasFields
<1>2. PICK s : Width(g) = s[Len(g)] /\ ((\A k \in 1..Len(g) : g[k].w \in Nat) => s[Len(g)] \in Nat)
  BY <1>1, WidthSum
<1>3. QED
  BY <1>2 DEF Wide

\* PutHeader() leaves a whole header and its padding in an empty file, or the beginning
\* of one.
CanPut(name, f, stop) ==
    /\ DOMAIN disk = Image /\ name \in Image /\ disk[name] = Opened
    /\ IsList(f) /\ Wide(f) /\ stop \in SUBSET (1..Len(f))
Puts(name, f, stop, page, next) ==
    /\ \A n \in Image \ {name} : disk'[n] = disk[n]
    /\ \/ pc' = next /\ stop = {} /\ Unfit(f) = {} /\ disk'[name] = Headed(f, page)
       \/ /\ Exit("error") /\ Bare(disk'[name]) /\ IsList(disk'[name].fields)
          /\ Len(disk'[name].fields) < Len(f)
          /\ \A i \in Unfit(f) : Len(disk'[name].fields) < i
          /\ Agrees(disk'[name].fields, f, Len(disk'[name].fields))

LEMMA HeaderPut ==
  ASSUME NEW name, NEW f, NEW stop, NEW page, NEW next,
         CanPut(name, f, stop), PutHeader(name, f, stop, page, next)
  PROVE  Puts(name, f, stop, page, next)
<1>0. PICK R : f \in Seq(R)
  BY DEF CanPut, IsList
<1>1. /\ DOMAIN disk = Image /\ name \in Image /\ disk[name] = Opened /\ IsImg(disk[name])
      /\ Wide(f) /\ stop \in SUBSET (1..Len(f))
  BY DEF CanPut, IsImg, Opened
<1>2. PICK g \in Seq(R) : Cuts(g, name, f, stop, page, next)
  BY <1>0, <1>1, CutFields
<1>3. CASE g = f /\ pc' = next /\ stop = {} /\ Unfit(f) = {}
           /\ disk'[name] = WithFields(disk[name], f, PadLen(Width(f), page))
  BY <1>1, <1>2, <1>3 DEF WithFields, Headed, Puts, Cuts
<1>4. CASE Exit("error") /\ Len(g) < Len(f) /\ Agrees(g, f, Len(g))
           /\ (\A i \in Unfit(f) : Len(g) < i) /\ disk'[name] = WithFields(disk[name], g, 0)
  <2>1. Wide(g)
    <3>1. Len(g) \in Nat /\ Len(f) \in Nat
      BY <1>0
    <3>2. ASSUME NEW k \in 1..Len(g) PROVE g[k].w \in Nat
      <4>1. k \in 1..Len(f) /\ g[k] = f[k]
        BY <1>4, <3>1 DEF Agrees
      <4>2. QED
        BY <1>1, <4>1 DEF Wide
    <3>3. QED
      BY <3>2 DEF Wide
  <2>2. Width(g) \in Nat
    BY <2>1, PrefixWidth
  <2>3. disk'[name] = [Opened EXCEPT !.fields = g, !.len = Width(g)]
    <3> DEFINE w == Width(g) + 0
    <3>1. disk'[name] = [Opened EXCEPT !.fields = g, !.len = w]
      BY <1>1, <1>4 DEF WithFields
    <3>2. w = Width(g)
      BY <2>2
    <3> HIDE DEF w
    <3>3. QED
      BY <3>1, <3>2
  <2>4. Bare(disk'[name])
    BY <1>2, <2>2, <2>3 DEF Bare, Cuts
  <2>5. IsList(disk'[name].fields)
    BY <1>2 DEF IsList, Cuts
  <2>6. QED
    BY <1>2, <1>4, <2>4, <2>5 DEF Puts, Cuts
<1>5. QED
  BY <1>2, <1>3, <1>4 DEF Cuts

-------------------------------------------------------------------------------
(* The steps of mkbootimg.py                                                   *)

\* What was read stays as it is while mkbootimg.py runs,
LEMMA ReadKept ==
  ASSUME ReadInv, ListInv, UNCHANGED unpack, pc \notin {"unpack", "extract"},
         pc' \notin {"unpack", "extract"}
  PROVE  ReadInv' /\ ListInv'
<1>1. UNCHANGED <<info, todo, outdir, links>>
  BY DEF unpack
<1>2. ReadInv'
  BY <1>1 DEF ReadInv, CompleteBoot, CompleteVendor, GoodBoot, GoodVendor
<1>3. ListInv'
  BY <1>1 DEF ListInv
<1>4. QED
  BY <1>2, <1>3

\* and so does each image that is not being written.
LEMMA ContentKept ==
  ASSUME NEW n \in Image, ContentInv(n), disk'[n] = disk[n], made'[n] = made[n],
         ~(pc \in VendorPhase /\ n = job.vendor_boot), ~(pc \in BootPhase /\ n = job.output)
  PROVE  ContentInv(n)'
BY DEF ContentInv

\* A file that has just been opened
LEMMA OpenedBare == Bare(Opened) /\ Opened.fields = << >>
<1>1. HasFields(<< >>, 0) /\ 0 \in Nat
  BY NoFields
<1>2. Width(<< >>) = 0
  BY <1>1, WidthSum
<1>3. Opened = [Opened EXCEPT !.fields = << >>, !.len = 0] /\ Opened.fields = << >>
  <2> DEFINE at == [p \in Part |-> NoPart]
  <2>1. Opened = [fields |-> << >>, len |-> 0, at |-> at, ramdisks |-> << >>, table |-> << >>,
                  table_off |-> 0]
    BY DEF Opened
  <2> DEFINE r(f, n) == [fields |-> f, len |-> n, at |-> at, ramdisks |-> << >>, table |-> << >>,
                         table_off |-> 0]
  <2> HIDE DEF at
  <2>2. ASSUME NEW f, NEW n PROVE [r(f, n) EXCEPT !.fields = f, !.len = n] = r(f, n)
    <3>1. [r(f, n) EXCEPT !.fields = f] = r(f, n)
      OBVIOUS
    <3>2. [r(f, n) EXCEPT !.len = n] = r(f, n)
      OBVIOUS
    <3> HIDE DEF r
    <3>3. QED
      BY <3>1, <3>2
  <2>3. r(<< >>, 0).fields = << >>
    OBVIOUS
  <2>4. Opened = r(<< >>, 0)
    BY <2>1
  <2> HIDE DEF r
  <2>5. QED
    BY <2>2, <2>3, <2>4
<1>4. Width(Opened.fields) = 0 /\ Width(Opened.fields) \in Nat
  BY <1>2, <1>3
<1>5. Opened = [Opened EXCEPT !.fields = Opened.fields, !.len = Width(Opened.fields)]
  BY <1>3, <1>4
<1>6. QED
  BY <1>3, <1>4, <1>5 DEF Bare

\* An empty builder
LEMMA PackedNone ==
  ASSUME NEW a
  PROVE  Packed(a, 0) = [entries |-> << >>, total |-> 0] /\ NoneRefused(a, 0)
<1>1. [i \in 1..0 |-> EntryOf(a, i)] = << >>
  OBVIOUS
<1>2. Before(a, 0 + 1) = 0
  BY DEF Before
<1>3. QED
  BY <1>1, <1>2 DEF Packed, NoneRefused

\* Parsing a command line
LEMMA ParseTrip ==
  ASSUME ImagesInv, TripInv, UsageError \/ ParseCmdline
  PROVE  TripInv'
<1>1. pc = "parse" /\ UNCHANGED job /\ IsJob(job) /\ Typed(job)
  BY DEF UsageError, ParseCmdline, mk, ImagesInv, JobInv, TripInv, BuilderInv
<1>2. UNCHANGED unpack /\ pc' \in {"idle", "add_entry", "main"}
  BY DEF UsageError, ParseCmdline, Exit
<1>3. ReadInv' /\ ListInv'
  BY <1>1, <1>2, ReadKept DEF TripInv
<1>4. ASSUME NEW names \in SUBSET Outputs, Open(names) PROVE \A n \in Image : ContentInv(n)'
  <2>1. ASSUME NEW n \in Image, n \in names PROVE ContentInv(n)'
    <3>1. /\ disk'[n] = Opened /\ made'[n].job = job /\ ~made'[n].whole
      BY <1>4, <2>1 DEF Open
    <3>2. CutShort(<< >>, n, job)
      BY <1>1, <2>1, FreshShape DEF Outputs
    <3>3. QED
      BY <3>1, <3>2, OpenedBare DEF ContentInv
  <2>2. ASSUME NEW n \in Image, n \notin names PROVE ContentInv(n)'
    <3>1. disk'[n] = disk[n] /\ made'[n] = made[n] /\ ContentInv(n)
      BY <1>4, <2>2 DEF Open, TripInv
    <3>2. QED
      BY <1>1, <3>1, ContentKept DEF VendorPhase, BootPhase
  <2>3. QED
    BY <2>1, <2>2
<1>5. StageInv'
  BY <1>2 DEF StageInv, VendorPhase, BootPhase
<1>6. CASE UsageError
  <2>1. PICK names \in SUBSET Outputs : Open(names)
    BY <1>6 DEF UsageError
  <2>2. pc' = "idle"
    BY <1>6 DEF UsageError, Exit
  <2>3. BuilderInv' /\ OutputInv'
    BY <2>2 DEF BuilderInv, OutputInv, Building, VendorPhase, BootPhase
  <2>4. QED
    BY <1>3, <1>4, <1>5, <2>1, <2>3 DEF TripInv
<1>7. CASE ParseCmdline
  <2>1. /\ Open(Outputs) /\ ArgumentsFit(job) /\ builder' = Packed(job, 0)
        /\ pc' = "add_entry" => job.vendor_boot # None /\ Version > 3
        /\ pc' = "main" => job.vendor_boot = None \/ Version <= 3
    BY <1>7, PackedNone DEF ParseCmdline, Exit
  <2>2. Outputs \in SUBSET Outputs
    OBVIOUS
  <2>3. \A n \in Image : ContentInv(n)'
    BY <1>4, <2>1, <2>2
  <2>4. /\ 0 \in 0..Len(RamdisksOf(job)) /\ Len(Packed(job, 0).entries) = 0
        /\ NoneRefused(job, 0)
    BY <1>1, RamdisksTyped, PackedNone
  <2>5. pc' = "main" => BuilderOf(job) = Packed(job, 0) /\ NoneRefused(job, Entries(job))
    <3>1. job.header_version \in Int
      BY <1>1, Zenon DEF Typed
    <3>2. pc' = "main" => Entries(job) = 0
      BY <2>1, <3>1 DEF Entries, Version
    <3>3. QED
      BY <2>4, <3>2 DEF BuilderOf
  <2>6. BuilderInv'
    BY <1>1, <1>2, <2>1, <2>4, <2>5 DEF BuilderInv, Building, VendorPhase, BootPhase, Version, Added
  <2>7. OutputInv'
    <3>1. \A n \in Outputs : n \in Image /\ disk'[n] = Opened /\ ~made'[n].whole
      BY <1>1, <2>1 DEF Open, Outputs, IsJob
    <3>2. QED
      BY <1>1, <3>1 DEF OutputInv, EmptyOutput, Outputs
  <2>8. QED
    BY <1>3, <1>5, <2>3, <2>6, <2>7 DEF TripInv
<1>8. QED
  BY <1>6, <1>7

\* add_entry() adds the next ramdisk.
LEMMA PackedNext ==
  ASSUME NEW a, Typed(a), NEW n \in Nat, n < Len(RamdisksOf(a))
  PROVE  /\ n + 1 \in 0..Len(RamdisksOf(a))
         /\ Packed(a, n + 1) = [entries |-> Append(Packed(a, n).entries, EntryOf(a, n + 1)),
                                total |-> Packed(a, n).total + RamdisksOf(a)[n + 1].file.size]
<1> DEFINE all == Len(RamdisksOf(a))
           e == [i \in 1..n |-> EntryOf(a, i)]
           g == [i \in 1..n + 1 |-> EntryOf(a, i)]
<1>1. all \in 0..3 /\ RamdisksOf(a) \in Seq(Ramdisk)
  BY RamdisksTyped
<1>2. n \in 0..all /\ n + 1 \in 0..all
  <2>1. n < all
    OBVIOUS
  <2> HIDE DEF all
  <2>2. QED
    BY <1>1, <2>1
<1>3. /\ \A i \in 1..n + 1 : EntryOf(a, i).file.size \in Nat
      /\ EntryOf(a, n + 1).file = RamdisksOf(a)[n + 1].file
  BY <1>2, PackedTyped DEF EntryOf
<1>4. \A i \in 1..n + 1 : RamdiskSize(a, i) \in Nat
  <2>1. ASSUME NEW i \in 1..n + 1 PROVE RamdiskSize(a, i) \in Nat
    <3>1. i \in 1..all /\ i \in 1..Len(RamdisksOf(a))
      BY <1>1, <1>2
    <3>2. RamdisksOf(a)[i] \in Ramdisk
      BY <1>1, <3>1, ElementsOf
    <3>3. QED
      BY <3>2, FileSizes DEF RamdiskSize, Ramdisk
  <2>2. QED
    BY <2>1
<1>5. Before(a, (n + 1) + 1) = Before(a, n + 1) + RamdiskSize(a, n + 1)
  <2>1. n + 1 \in 0..3 /\ n + 1 \in 1..n + 1
    <3>1. all \in 0..3 /\ n + 1 \in 0..all
      BY <1>1, <1>2
    <3> HIDE DEF all
    <3>2. QED
      BY <3>1
  <2>2. QED
    BY <1>4, <2>1, BeforeEach
<1>6. RamdiskSize(a, n + 1) = RamdisksOf(a)[n + 1].file.size
  <2>1. n + 1 \in 1..all /\ n + 1 \in 1..Len(RamdisksOf(a))
    BY <1>1, <1>2
  <2>2. RamdisksOf(a)[n + 1] \in Ramdisk
    BY <1>1, <2>1, ElementsOf
  <2>3. RamdisksOf(a)[n + 1].file \in File /\ RamdisksOf(a)[n + 1].file # None
    BY <2>2, NoneAssumption DEF Ramdisk
  <2>4. QED
    BY <2>3 DEF RamdiskSize, filesize
<1>7. g = Append(e, EntryOf(a, n + 1))
  <2> DEFINE R == {EntryOf(a, i) : i \in 1..n + 1}
  <2>1. e \in [1..n -> R] /\ n \in Nat
    OBVIOUS
  <2> HIDE DEF R, e
  <2>2. e \in Seq(R) /\ Len(e) = n
    BY <2>1, FunctionIsSeq, Zenon
  <2>3. \A i \in 1..n : e[i] = EntryOf(a, i)
    BY DEF e
  <2>4. QED
    BY <2>2, <2>3
<1>8. QED
  BY <1>2, <1>5, <1>6, <1>7 DEF Packed

\* Collecting the ramdisk table
LEMMA TableTrip ==
  ASSUME ImagesInv, TripInv, AddEntry \/ EntriesAdded \/ CheckVendorBoot
  PROVE  TripInv'
<1>1. /\ pc \in {"add_entry", "main"} /\ UNCHANGED <<job, disk, made, unpack>>
      /\ pc' \in {"idle", "add_entry", "main", "vendor_header", "output"}
      /\ pc \in Building /\ pc \in Building \ BootPhase
  BY DEF AddEntry, EntriesAdded, CheckVendorBoot, Exit, mk, Building, VendorPhase, BootPhase
<1>2. ReadInv' /\ ListInv'
  BY <1>1, ReadKept DEF TripInv
<1>3. \A n \in Image : ContentInv(n)'
  BY <1>1, ContentKept DEF TripInv, VendorPhase, BootPhase
<1>4. Typed(job) /\ ArgumentsFit(job) /\ job.header_version \in Int
  <2>1. Typed(job) /\ ArgumentsFit(job)
    BY <1>1 DEF TripInv, BuilderInv
  <2>2. QED
    BY <2>1, Zenon DEF Typed
<1>5. OutputInv'
  <2>1. job.output # None => EmptyOutput(job.output)
    BY <1>1 DEF TripInv, OutputInv
  <2>2. job.vendor_boot # None => EmptyOutput(job.vendor_boot)
    BY <1>1 DEF TripInv, OutputInv
  <2>3. QED
    BY <1>1, <2>1, <2>2 DEF OutputInv, EmptyOutput
<1>6. BuilderInv'
  <2>1. CASE AddEntry
    <3> DEFINE n == Added
    <3>1. /\ pc = "add_entry" /\ job.vendor_boot # None /\ Version > 3
          /\ n \in 0..Len(RamdisksOf(job)) /\ builder = Packed(job, n) /\ NoneRefused(job, n)
          /\ n < Len(RamdisksOf(job)) /\ Ramdisks = RamdisksOf(job)
      BY <2>1 DEF AddEntry, TripInv, BuilderInv, Ramdisks, RamdisksOf
    <3>2. n \in Nat
      BY <1>4, <3>1, PackedTyped
    <3>3. CASE pc' = "idle"
      BY <3>3 DEF BuilderInv, Building, VendorPhase, BootPhase
    <3>4. CASE pc' # "idle"
      <4> DEFINE r == RamdisksOf(job)[n + 1]
      <4>1. /\ pc' = "add_entry" /\ r.name \notin LongNames \cup {"default"} /\ Word(r.board_id)
            /\ \A i \in 1..n : builder.entries[i].name # r.name
            /\ builder' = [entries |-> Append(builder.entries,
                                         [size |-> r.file.size, offset |-> builder.total,
                                          type |-> r.type, name |-> r.name,
                                          board_id |-> r.board_id, file |-> r.file]),
                           total |-> builder.total + r.file.size]
        BY <2>1, <3>1, <3>4 DEF AddEntry, Exit, Refused
      <4>2. /\ n + 1 \in 0..Len(RamdisksOf(job))
            /\ Packed(job, n + 1) = [entries |-> Append(Packed(job, n).entries, EntryOf(job, n + 1)),
                                total |-> Packed(job, n).total + r.file.size]
        BY <1>4, <3>1, <3>2, PackedNext
      <4>3. EntryOf(job, n + 1) = [size |-> r.file.size, offset |-> builder.total,
                                   type |-> r.type, name |-> r.name,
                                   board_id |-> r.board_id, file |-> r.file]
        BY <3>1 DEF EntryOf, Packed
      <4>4. builder' = Packed(job, n + 1)
        BY <3>1, <4>1, <4>2, <4>3
      <4>5. Len(builder'.entries) = n + 1
        BY <1>4, <4>2, <4>4, PackedTyped
      <4>6. NoneRefused(job, n + 1)
        <5>1. \A i \in 1..n : builder.entries[i].name = RamdisksOf(job)[i].name
          BY <3>1 DEF Packed, EntryOf
        <5>2. \A i \in 1..n : RamdisksOf(job)[i].name # r.name
          BY <4>1, <5>1
        <5>3. \A i \in 1..n + 1 : i \in 1..n \/ i = n + 1
          BY <3>2
        <5>4. \A j \in 1..(n + 1) - 1 : j \in 1..n
          BY <3>2
        <5>5. QED
          BY <3>1, <4>1, <5>2, <5>3, <5>4 DEF NoneRefused
      <4>7. QED
        BY <1>1, <1>4, <3>1, <4>1, <4>2, <4>4, <4>5, <4>6
           DEF BuilderInv, Building, VendorPhase, BootPhase, Version, Added
    <3>5. QED
      BY <3>3, <3>4, SMTT(60)
  <2>2. CASE EntriesAdded
    <3>1. /\ pc = "add_entry" /\ job.vendor_boot # None /\ Version > 3 /\ pc' = "main"
          /\ builder = Packed(job, Added) /\ NoneRefused(job, Added)
          /\ Added = Len(RamdisksOf(job)) /\ builder' = builder
      BY <2>2 DEF EntriesAdded, TripInv, BuilderInv, Ramdisks, RamdisksOf, mk
    <3>2. Entries(job) = Added
      BY <3>1 DEF Entries, Version
    <3>3. QED
      BY <1>1, <1>4, <3>1, <3>2 DEF BuilderInv, BuilderOf
  <2>3. CASE CheckVendorBoot
    <3>1. /\ builder = BuilderOf(job) /\ NoneRefused(job, Entries(job))
          /\ builder' = builder /\ pc' # "add_entry"
      BY <1>1, <2>3 DEF CheckVendorBoot, TripInv, BuilderInv, Building, mk, Exit
    <3>2. QED
      BY <1>1, <1>4, <3>1 DEF BuilderInv
  <2>4. QED
    BY <2>1, <2>2, <2>3
<1>7. StageInv'
  <2>1. pc' = "vendor_header" => /\ job.vendor_boot # None /\ Version \in {3, 4}
                                 /\ Version = 3 => job.vendor_ramdisk # None
    BY DEF AddEntry, EntriesAdded, CheckVendorBoot, Exit
  <2>2. QED
    BY <1>1, <2>1 DEF StageInv, VendorPhase, BootPhase, Version
<1>8. QED
  BY <1>2, <1>3, <1>5, <1>6, <1>7 DEF TripInv

\* The outputs of the job that is running
LEMMA OutputsNamed ==
  ASSUME ImagesInv, pc \in Building
  PROVE  /\ IsJob(job)
         /\ job.output # None => job.output \in Image /\ made[job.output].job = job
         /\ job.vendor_boot # None => job.vendor_boot \in Image /\ made[job.vendor_boot].job = job
         /\ job.output = None \/ job.output # job.vendor_boot
         /\ DOMAIN disk = Image /\ DOMAIN made = Image
BY DEF ImagesInv, JobInv, DiskInv, IsJob, Outputs

\* Writing the header of a vendor_boot image
LEMMA VendorHeaderTrip ==
  ASSUME ImagesInv, TripInv, VendorHeader
  PROVE  TripInv'
<1>0. PICK name, f, stop, next :
         /\ name = job.vendor_boot /\ f = VendorFields(job, BuilderOf(job))
         /\ stop = IF filesize(job.dtb) = 0 THEN {1} ELSE {}
         /\ next = IF Version > 3 THEN "vendor_ramdisks" ELSE "vendor_ramdisk"
  OBVIOUS
<1>1. pc = "vendor_header" /\ UNCHANGED <<job, builder, made, unpack>> /\ pc \in Building
      /\ pc \in Building \ BootPhase /\ pc \in Building \ {"add_entry"}
  BY DEF VendorHeader, mk, Building, VendorPhase, BootPhase
<1>2. /\ Typed(job) /\ ArgumentsFit(job) /\ builder = BuilderOf(job)
      /\ NoneRefused(job, Entries(job))
      /\ name # None /\ Version \in {3, 4} /\ (Version = 3 => job.vendor_ramdisk # None)
      /\ EmptyOutput(name) /\ (job.output # None => EmptyOutput(job.output))
  BY <1>0, <1>1 DEF TripInv, BuilderInv, OutputInv, StageInv
<1>3. PutHeader(name, f, stop, job.pagesize, next)
  BY <1>0, <1>1, <1>2 DEF VendorHeader
<1>4. /\ IsJob(job) /\ name \in Image /\ made[name].job = job /\ job.output # name
      /\ DOMAIN disk = Image /\ disk[name] = Opened
  BY <1>0, <1>1, <1>2, OutputsNamed DEF EmptyOutput
<1>5. job.header_version \in {3, 4} /\ job.header_version \in Int /\ job.pagesize \in PageSizes
  BY <1>2 DEF Version, ArgumentsFit
<1>6. HasFields(f, VendorFull(job.header_version)) /\ VendorFull(job.header_version) \in 12..16
      /\ Wide(f)
  BY <1>0, <1>5, VendorShape, HeaderSizes, VendorWidth
<1>7. IsList(f) /\ Len(f) = VendorFull(job.header_version) /\ stop \in SUBSET (1..Len(f))
  BY <1>0, <1>6 DEF HasFields, IsList
<1>8. Puts(name, f, stop, job.pagesize, next)
  <2>1. CanPut(name, f, stop)
    BY <1>4, <1>6, <1>7 DEF CanPut
  <2>2. QED
    BY <1>3, <2>1, HeaderPut, Zenon
<1>9. /\ \A n \in Image \ {name} : disk'[n] = disk[n]
      /\ \/ pc' = next /\ stop = {} /\ disk'[name] = Headed(f, job.pagesize)
         \/ /\ Exit("error") /\ Bare(disk'[name]) /\ IsList(disk'[name].fields)
            /\ Len(disk'[name].fields) < Len(f)
            /\ Agrees(disk'[name].fields, f, Len(disk'[name].fields))
  BY <1>8 DEF Puts
<1>10. pc' \in {"vendor_ramdisks", "vendor_ramdisk", "idle"}
  BY <1>0, <1>9 DEF Exit
<1>11. ReadInv' /\ ListInv'
  BY <1>1, <1>10, ReadKept DEF TripInv
<1>12. \A n \in Image \ {name} : ContentInv(n)'
  BY <1>0, <1>1, <1>9, ContentKept DEF TripInv, VendorPhase, BootPhase
<1>13. BuilderInv'
  BY <1>0, <1>1, <1>2, <1>10 DEF BuilderInv
<1>14. OutputInv'
  BY <1>0, <1>1, <1>2, <1>4, <1>9, <1>10, OutputsNamed DEF OutputInv, EmptyOutput
<1>15. CASE pc' = next /\ stop = {} /\ disk'[name] = Headed(f, job.pagesize)
  <2>1. filesize(job.dtb) > 0
    <3>1. job.dtb \in File \cup {None}
      BY <1>2, Zenon DEF Typed
    <3>2. filesize(job.dtb) \in Nat
      BY <3>1, FileSizes
    <3>3. QED
      BY <1>0, <1>15, <3>2
  <2>2. GoodVendor(job)
    BY <1>0, <1>2, <1>5, <2>1 DEF GoodVendor, Version
  <2>3. disk'[name] = VendorHead(job)
    BY <1>0, <1>15 DEF VendorHead
  <2>4. pc' \in {"vendor_ramdisk", "vendor_ramdisks"} /\ pc' \in VendorPhase /\ pc' \notin BootPhase
        /\ (pc' = "vendor_ramdisk" => Version = 3) /\ (pc' = "vendor_ramdisks" => Version = 4)
    BY <1>0, <1>2, <1>15 DEF VendorPhase, BootPhase
  <2>5. StageInv'
    BY <1>0, <1>1, <1>2, <2>2, <2>3, <2>4
       DEF StageInv, VendorStage, GoodVendor, EmptyOutput, Version
  <2>6. ContentInv(name)'
    BY <1>0, <1>1, <1>2, <2>4 DEF ContentInv, EmptyOutput
  <2>7. \A n \in Image : ContentInv(n)'
    BY <1>12, <2>6, Zenon
  <2>8. QED
    BY <1>11, <1>13, <1>14, <2>5, <2>7 DEF TripInv
<1>16. CASE /\ Exit("error") /\ Bare(disk'[name]) /\ IsList(disk'[name].fields)
            /\ Len(disk'[name].fields) < Len(f)
            /\ Agrees(disk'[name].fields, f, Len(disk'[name].fields))
  <2>1. StageInv'
    BY <1>16 DEF StageInv, Exit, VendorPhase, BootPhase
  <2> DEFINE g == disk'[name].fields
             size == Len(g)
  <2>2. Len(BuilderOf(job).entries) \in 0..3
    BY <1>2, BuilderTyped
  <2> PICK R : g \in Seq(R)
    BY <1>16 DEF IsList
  <2>3. g \in Seq(R) /\ size \in Nat /\ size < Len(f) /\ Agrees(g, f, size)
    BY <1>16
  <2> HIDE DEF g
  <2>4. size <= VendorFull(job.header_version)
    BY <1>6, <1>7, <2>3
  <2>5. ReadsAsVendor(g, job.header_version)
    BY <1>4, <2>2, <2>3, <2>4, VendorPrefix, <1>0
  <2>6. CutShort(g, name, job)
    BY <1>0, <1>7, <2>3, <2>5 DEF CutShort
  <2>7. ContentInv(name)'
    <3>1. ~made'[name].whole /\ made'[name].job = job
      BY <1>1, <1>2, <1>4 DEF EmptyOutput
    <3>2. CutShort(disk'[name].fields, name, made'[name].job) /\ Bare(disk'[name])
      BY <1>16, <2>6, <3>1 DEF g
    <3>3. QED
      BY <3>1, <3>2 DEF ContentInv
  <2>8. \A n \in Image : ContentInv(n)'
    BY <1>12, <2>7, Zenon
  <2>9. QED
    BY <1>11, <1>13, <1>14, <2>1, <2>8 DEF TripInv
<1>17. QED
  BY <1>9, <1>15, <1>16

\* What the image has after a step, which is written next
VendorNext(next, img) ==
    \/ next = "vendor_dtb" /\ img = VendorRam(job)
    \/ next = "vendor_table" /\ img = VendorDtb(job) /\ Version = 4
    \/ next = "vendor_bootconfig" /\ img = VendorTable(job) /\ Version = 4
    \/ next = "output" /\ img = VendorWhole(job)
BootNext(next, img) ==
    \/ next = "ramdisk" /\ img = WithKernel(job)
    \/ next = "second" /\ img = WithRamdisk(job)
    \/ next = "recovery_dtbo" /\ img = WithSecond(job)
    \/ next = "dtb" /\ img = WithDtbo(job)
    \/ next = "boot_signature" /\ img = WithDtb(job)

\* Writing a part of a vendor_boot image: the next stage, or the whole image
LEMMA VendorWriteTrip ==
  ASSUME ImagesInv, TripInv, NEW here \in VendorPhase, NEW next, NEW img,
         WriteVendor(here, next, img), VendorNext(next, img)
  PROVE  TripInv'
<1>0. PICK name : name = job.vendor_boot
  OBVIOUS
<1> USE DEF VendorNext
<1>1. /\ pc \in VendorPhase /\ pc \in Building /\ pc \in Building \ BootPhase
      /\ pc \in Building \ {"add_entry"} /\ pc \notin {"unpack", "extract"} \cup BootPhase
      /\ pc' = next /\ UNCHANGED <<job, builder, unpack>>
      /\ disk' = [disk EXCEPT ![name] = img]
      /\ made' = IF next = "output" THEN [made EXCEPT ![name].whole = TRUE] ELSE made
  BY <1>0 DEF WriteVendor, mk, VendorPhase, BootPhase, Building
<1>2. /\ Typed(job) /\ ArgumentsFit(job) /\ builder = BuilderOf(job)
      /\ NoneRefused(job, Entries(job)) /\ GoodVendor(job) /\ ~made[name].whole
      /\ job.output # None => EmptyOutput(job.output)
  BY <1>0, <1>1 DEF TripInv, BuilderInv, OutputInv, StageInv
<1>3. /\ name # None /\ name \in Image /\ made[name].job = job /\ job.output # name
      /\ DOMAIN disk = Image /\ DOMAIN made = Image
      /\ job.output # None => job.output \in Image
  BY <1>0, <1>1, <1>2, OutputsNamed DEF GoodVendor
<1>4. DOMAIN made[name] = {"job", "whole"}
  BY <1>0, <1>1, <1>3 DEF ImagesInv, JobInv, Outputs
<1>5. pc' \in {"vendor_dtb", "vendor_table", "vendor_bootconfig", "output"}
  BY <1>1
<1>6. ReadInv' /\ ListInv'
  BY <1>1, <1>5, ReadKept DEF TripInv
<1>7. /\ disk'[name] = img /\ made'[name].job = job
      /\ made'[name].whole <=> next = "output"
      /\ \A n \in Image \ {name} : disk'[n] = disk[n] /\ made'[n] = made[n]
  <2>1. disk'[name] = img /\ \A n \in Image \ {name} : disk'[n] = disk[n] /\ made'[n] = made[n]
    BY <1>1, <1>3
  <2>2. CASE next = "output"
    <3>1. made'[name] = [made[name] EXCEPT !.whole = TRUE]
      BY <1>1, <1>3, <2>2
    <3>2. made'[name].job = made[name].job /\ made'[name].whole
      BY <1>4, <3>1
    <3>3. QED
      BY <1>3, <2>1, <2>2, <3>2
  <2>3. CASE next # "output"
    BY <1>1, <1>2, <1>3, <2>1, <2>3
  <2>4. QED
    BY <2>2, <2>3
<1>8. \A n \in Image \ {name} : ContentInv(n)'
  BY <1>0, <1>1, <1>7, ContentKept DEF TripInv, VendorPhase, BootPhase
<1>9. BuilderInv'
  BY <1>1, <1>2, <1>5 DEF BuilderInv
<1>10. OutputInv'
  BY <1>1, <1>2, <1>3, <1>5, <1>7 DEF OutputInv, EmptyOutput
<1>11. StageInv'
  <2>1. pc' \in VendorPhase =>
          /\ GoodVendor(job) /\ ~made'[name].whole /\ disk'[name] = VendorStage(job)'
          /\ pc' # "vendor_ramdisk" /\ pc' # "vendor_ramdisks"
          /\ pc' \in {"vendor_table", "vendor_bootconfig"} => Version = 4
    BY <1>1, <1>2, <1>7 DEF VendorPhase, VendorStage
  <2>2. QED
    BY <1>0, <1>1, <1>5, <2>1 DEF StageInv, BootPhase, Version, GoodVendor
<1>12. ContentInv(name)'
  <2>1. CASE next = "output"
    <3>1. CompleteVendor(disk'[name], made'[name]) /\ name = made'[name].job.vendor_boot
      BY <1>0, <1>2, <1>7, <2>1 DEF CompleteVendor
    <3>2. CompleteVendor(disk[name], made[name])'
      BY <3>1 DEF CompleteVendor, GoodVendor
    <3>3. QED
      BY <3>1, <3>2 DEF ContentInv
  <2>2. CASE next # "output"
    <3>1. ~made'[name].whole /\ pc' \in VendorPhase /\ name = job'.vendor_boot
      BY <1>0, <1>1, <1>5, <1>7, <2>2 DEF VendorPhase
    <3>2. QED
      BY <3>1 DEF ContentInv
  <2>3. QED
    BY <2>1, <2>2
<1>13. \A n \in Image : ContentInv(n)'
  BY <1>8, <1>12, Zenon
<1>14. QED
  BY <1>6, <1>9, <1>10, <1>11, <1>13 DEF TripInv

\* The parts of a vendor_boot image
LEMMA VendorSteps ==
  ASSUME TripInv,
         WriteVendorRamdisk \/ WriteRamdisksPadded \/ WriteVendorDtb \/ WriteEntriesPadded
         \/ WriteBootconfig
  PROVE  \E here \in VendorPhase : \E next, img : WriteVendor(here, next, img) /\ VendorNext(next, img)
<1> USE DEF VendorNext
<1>1. pc \in VendorPhase /\ pc \in Building \ {"add_entry"}
  BY DEF WriteVendorRamdisk, WriteRamdisksPadded, WriteVendorDtb, WriteEntriesPadded,
         WriteBootconfig, WriteVendor, VendorPhase, Building
<1>2. /\ builder = BuilderOf(job) /\ Vendor = VendorStage(job) /\ Typed(job)
      /\ Version \in {3, 4} /\ Added = Len(BuilderOf(job).entries)
      /\ pc = "vendor_ramdisk" => Version = 3
      /\ pc \in {"vendor_ramdisks", "vendor_table", "vendor_bootconfig"} => Version = 4
  BY <1>1 DEF TripInv, BuilderInv, StageInv, Vendor, GoodVendor, Version, Added
<1>3. CASE WriteVendorRamdisk
  <2>1. VendorRam(job) = WritePadded(Vendor, "vendor_ramdisk", job.vendor_ramdisk, job.pagesize)
    BY <1>2, <1>3 DEF WriteVendorRamdisk, WriteVendor, VendorStage, VendorRam, Version
  <2>2. WriteVendor("vendor_ramdisk", "vendor_dtb", VendorRam(job))
    BY <1>3, <2>1 DEF WriteVendorRamdisk
  <2>3. "vendor_ramdisk" \in VendorPhase
    BY DEF VendorPhase
  <2>4. QED
    BY <2>2, <2>3
<1>4. CASE WriteRamdisksPadded
  <2>1. VendorRam(job) = PackRamdisks(Vendor, builder, job.pagesize)
    BY <1>2, <1>4 DEF WriteRamdisksPadded, WriteVendor, VendorStage, VendorRam, Version
  <2>2. WriteVendor("vendor_ramdisks", "vendor_dtb", PackRamdisks(Vendor, builder, job.pagesize))
    BY <1>4 DEF WriteRamdisksPadded, PackRamdisks, Added
  <2>3. "vendor_ramdisks" \in VendorPhase
    BY DEF VendorPhase
  <2>4. WriteVendor("vendor_ramdisks", "vendor_dtb", VendorRam(job))
    BY <2>1, <2>2
  <2>5. QED
    BY <2>3, <2>4
<1>5. CASE WriteVendorDtb
  <2>1. VendorDtb(job) = WritePadded(Vendor, "dtb", job.dtb, job.pagesize)
    BY <1>2, <1>5 DEF WriteVendorDtb, WriteVendor, VendorStage, VendorDtb
  <2>2. "vendor_dtb" \in VendorPhase
    BY DEF VendorPhase
  <2>3. CASE Version = 4
    <3>1. WriteVendor("vendor_dtb", "vendor_table", VendorDtb(job))
      BY <1>5, <2>1, <2>3 DEF WriteVendorDtb
    <3>2. QED
      BY <2>2, <2>3, <3>1
  <2>4. CASE Version = 3
    <3>1. WriteVendor("vendor_dtb", "output", VendorDtb(job))
      BY <1>5, <2>1, <2>4 DEF WriteVendorDtb
    <3>2. VendorDtb(job) = VendorWhole(job)
      BY <2>4 DEF VendorWhole, Version
    <3>3. QED
      BY <2>2, <3>1, <3>2
  <2>5. QED
    BY <1>2, <2>3, <2>4
<1>6. CASE WriteEntriesPadded
  <2>1. VendorTable(job) = PutTable(Vendor, builder, job.pagesize) /\ Version = 4
    BY <1>2, <1>6 DEF WriteEntriesPadded, WriteVendor, VendorStage, VendorTable
  <2>2. WriteVendor("vendor_table", "vendor_bootconfig", PutTable(Vendor, builder, job.pagesize))
    BY <1>6 DEF WriteEntriesPadded, PutTable, Added
  <2>3. "vendor_table" \in VendorPhase
    BY DEF VendorPhase
  <2>4. WriteVendor("vendor_table", "vendor_bootconfig", VendorTable(job))
    BY <2>1, <2>2
  <2>5. QED
    BY <2>1, <2>3, <2>4
<1>7. CASE WriteBootconfig
  <2>1. VendorConf(job) = WritePadded(Vendor, "bootconfig", job.vendor_bootconfig, job.pagesize)
        /\ Version = 4
    BY <1>2, <1>7 DEF WriteBootconfig, WriteVendor, VendorStage, VendorConf
  <2>2. VendorConf(job) = VendorWhole(job)
    BY <2>1 DEF VendorWhole, Version
  <2>3. WriteVendor("vendor_bootconfig", "output", VendorConf(job))
    BY <1>7, <2>1 DEF WriteBootconfig
  <2>4. "vendor_bootconfig" \in VendorPhase
    BY DEF VendorPhase
  <2>5. QED
    BY <2>2, <2>3, <2>4
<1>8. QED
  BY <1>3, <1>4, <1>5, <1>6, <1>7

LEMMA VendorDataTrip ==
  ASSUME ImagesInv, TripInv,
         WriteVendorRamdisk \/ WriteRamdisksPadded \/ WriteVendorDtb \/ WriteEntriesPadded
         \/ WriteBootconfig
  PROVE  TripInv'
BY VendorSteps, VendorWriteTrip

\* The table that cannot be written
LEMMA TableFailsTrip ==
  ASSUME ImagesInv, TripInv, WriteEntriesFails
  PROVE  TripInv'
<1> DEFINE first == CHOOSE i \in Unpackable : \A k \in Unpackable : i <= k
<1>0. PICK name : name = job.vendor_boot
  OBVIOUS
<1>1. /\ pc = "vendor_table" /\ pc \in VendorPhase /\ pc \in Building /\ pc \notin BootPhase
      /\ pc \in Building \ {"add_entry"} /\ pc' = "idle" /\ UNCHANGED <<job, builder, made, unpack>>
      /\ Unpackable # {}
      /\ disk' = [disk EXCEPT ![name] = CutTable(disk[name], builder.entries, first - 1)]
  BY <1>0 DEF WriteEntriesFails, Exit, mk, VendorPhase, BootPhase, Building
<1>2. /\ builder = BuilderOf(job) /\ GoodVendor(job) /\ ~made[name].whole
      /\ disk[name] = VendorDtb(job) /\ job.header_version = 4
  BY <1>0, <1>1 DEF TripInv, BuilderInv, StageInv, VendorStage, Version
<1>3. name \in Image /\ made[name].job = job /\ DOMAIN disk = Image
  BY <1>0, <1>1, <1>2, OutputsNamed DEF GoodVendor
<1>4. first - 1 \in 0..Entries(job) - 1
  <2>1. Entries(job) \in 0..3 /\ Len(BuilderOf(job).entries) = Entries(job)
    BY <1>2, BuilderTyped, Zenon DEF GoodVendor
  <2>2. Unpackable \in SUBSET (1..Entries(job)) /\ Unpackable \in SUBSET Nat
    BY <1>2, <2>1 DEF Unpackable, Added
  <2>3. \E i \in Unpackable : \A k \in Unpackable : i <= k
    BY <1>1, <2>2, LeastNat
  <2>4. first \in Unpackable
    BY <2>3
  <2> HIDE DEF first
  <2>5. QED
    BY <2>1, <2>2, <2>4
<1> HIDE DEF first
<1>5. CutInTable(disk'[name], made'[name]) /\ name = made'[name].job.vendor_boot
  BY <1>0, <1>1, <1>2, <1>3, <1>4 DEF CutInTable
<1>6. CutInTable(disk[name], made[name])'
  BY <1>5 DEF CutInTable, GoodVendor
<1>7. ContentInv(name)'
  BY <1>1, <1>5, <1>6 DEF ContentInv
<1>8. \A n \in Image \ {name} : ContentInv(n)'
  BY <1>0, <1>1, <1>3, ContentKept DEF TripInv
<1>9. ReadInv' /\ ListInv'
  BY <1>1, ReadKept DEF TripInv
<1>10. BuilderInv' /\ OutputInv' /\ StageInv'
  BY <1>1 DEF BuilderInv, OutputInv, StageInv, Building, VendorPhase, BootPhase
<1>11. \A n \in Image : ContentInv(n)'
  BY <1>7, <1>8, Zenon
<1>12. QED
  BY <1>9, <1>10, <1>11 DEF TripInv

\* Writing the header of a boot image
LEMMA HeaderTrip ==
  ASSUME ImagesInv, TripInv, Header
  PROVE  TripInv'
<1>0. PICK name, f, stop, page :
         /\ name = job.output /\ f = BootFields(job) /\ page = PageOf(job)
         /\ stop = IF Version = 2 /\ filesize(job.dtb) = 0 THEN {19} ELSE {}
  OBVIOUS
<1>1. pc = "output" /\ UNCHANGED <<job, builder, made, unpack>> /\ pc \in Building
      /\ pc \in Building \ BootPhase /\ pc \in Building \ {"add_entry"}
  BY DEF Header, mk, Building, VendorPhase, BootPhase
<1>2. /\ Typed(job) /\ ArgumentsFit(job) /\ builder = BuilderOf(job)
      /\ NoneRefused(job, Entries(job)) /\ (name # None => EmptyOutput(name))
  BY <1>0, <1>1 DEF TripInv, BuilderInv, OutputInv
<1>3. job.header_version \in Int /\ job.pagesize \in PageSizes
      /\ job.dtb \in File \cup {None}
  <2>1. job.header_version \in Int /\ job.dtb \in File \cup {None}
    BY <1>2, Zenon DEF Typed
  <2>2. QED
    BY <1>2, <2>1 DEF ArgumentsFit
<1>4. \/ UNCHANGED disk /\ pc' = "idle"
      \/ /\ name # None /\ Version <= 4 /\ (Version > 2 => job.second = None)
         /\ PutHeader(name, f, stop, page, "kernel")
  <2>1. CASE name = None
    BY <1>0, <2>1 DEF Header, Exit
  <2>2. CASE name # None /\ (Version > 4 \/ (job.second # None /\ Version > 2))
    BY <1>0, <2>2 DEF Header, Exit
  <2>3. CASE name # None /\ ~(Version > 4 \/ (job.second # None /\ Version > 2))
    <3>1. Version \in Int /\ Version <= 4 /\ (Version > 2 => job.second = None)
      BY <1>3, <2>3 DEF Version
    <3>2. CASE Version > 2
      <4>1. f = V3Fields(job) /\ page = BOOT_IMAGE_HEADER_V3_PAGESIZE /\ stop = {}
        BY <1>0, <3>1, <3>2 DEF BootFields, PageOf, Version
      <4>2. PutHeader(name, f, stop, page, "kernel")
        BY <1>0, <2>3, <3>2, <4>1 DEF Header
      <4>3. QED
        BY <2>3, <3>1, <4>2
    <3>3. CASE ~(Version > 2)
      <4>1. f = V0Fields(job) /\ page = job.pagesize
        BY <1>0, <3>3 DEF BootFields, PageOf, Version
      <4>2. PutHeader(name, f, stop, page, "kernel")
        BY <1>0, <2>3, <3>3, <4>1 DEF Header
      <4>3. QED
        BY <2>3, <3>1, <4>2
    <3>4. QED
      BY <3>2, <3>3
  <2>4. QED
    BY <2>1, <2>2, <2>3
<1>5. CASE UNCHANGED disk /\ pc' = "idle"
  <2>1. ReadInv' /\ ListInv'
    BY <1>1, <1>5, ReadKept DEF TripInv
  <2>2. \A n \in Image : ContentInv(n)'
    BY <1>1, <1>5, ContentKept DEF TripInv, VendorPhase, BootPhase
  <2>3. BuilderInv' /\ OutputInv' /\ StageInv'
    BY <1>5 DEF BuilderInv, OutputInv, StageInv, Building, VendorPhase, BootPhase
  <2>4. QED
    BY <2>1, <2>2, <2>3 DEF TripInv
<1>6. CASE /\ name # None /\ Version <= 4 /\ (Version > 2 => job.second = None)
           /\ PutHeader(name, f, stop, page, "kernel")
  <2>1. /\ IsJob(job) /\ name \in Image /\ made[name].job = job
        /\ DOMAIN disk = Image /\ disk[name] = Opened /\ ~made[name].whole
    BY <1>0, <1>1, <1>2, <1>6, OutputsNamed DEF EmptyOutput
  <2>2. PICK v : v = job.header_version /\ v \in Int /\ v <= 4
    BY <1>3, <1>6 DEF Version
  <2>3. PICK m \in 11..20 :
          /\ HasFields(f, m) /\ Wide(f) /\ f[1].v = "ANDROID!" /\ f[10].v = v
          /\ v >= 0 => m = HeaderFields(v)
          /\ v = 2 => m = 20
          /\ v < 0 => 10 \in Unfit(f) /\ HeaderFields(v) = 12
    <3>0. HeaderFields(v) \in 11..20 /\ (v = 2 => HeaderFields(v) = 20)
          /\ (v < 0 => HeaderFields(v) = 12) /\ 15 \in 11..20
      BY <2>2, HeaderSizes, SMTT(60) DEF HeaderFields
    <3>1. CASE v \in 3..4
      BY <1>0, <2>2, <3>0, <3>1, V3Shape, BootWidth, SMTT(60) DEF BootFields
    <3>2. CASE v \in 0..2
      BY <1>0, <2>2, <3>0, <3>2, V0Shape, BootWidth DEF BootFields
    <3>3. CASE v < 0
      <4>1. f = V0Fields(job)
        BY <1>0, <2>2, <3>3 DEF BootFields
      <4>2. HasFields(f, 15) /\ f[1].v = "ANDROID!" /\ f[10].v = v /\ f[10].w = 4
            /\ f = V0Front(job)
        BY <2>2, <3>3, <4>1, NegativeShape
      <4>3. Len(f) = 15 /\ IsList(f)
        BY <4>2 DEF HasFields, IsList
      <4>4. \A k \in 1..15 : f[k].w \in Nat
        BY <4>2 DEF V0Front, Field, BOOT_ARGS_SIZE, BOOT_EXTRA_ARGS_SIZE, BOOT_NAME_SIZE
      <4>5. Wide(f)
        BY <4>3, <4>4 DEF Wide
      <4>6. 10 \in DOMAIN f /\ ~Word(f[10].v)
        BY <2>2, <3>3, <4>2, <4>3 DEF Word, IsList
      <4>7. 10 \in Unfit(f)
        BY <4>2, <4>6 DEF Unfit
      <4>8. 15 \in 11..20 /\ v # 2 /\ ~(v >= 0)
        BY <2>2, <3>3
      <4>9. QED
        BY <3>0, <3>3, <4>2, <4>5, <4>7, <4>8
    <3>4. QED
      BY <2>2, <3>1, <3>2, <3>3
  <2>4. IsList(f) /\ Len(f) = m
    BY <2>3 DEF HasFields, IsList
  <2>5. stop \in SUBSET (1..Len(f))
    BY <1>0, <2>2, <2>3, <2>4 DEF Version
  <2>6. Puts(name, f, stop, page, "kernel")
    <3>1. CanPut(name, f, stop)
      BY <2>1, <2>3, <2>4, <2>5 DEF CanPut
    <3>2. QED
      BY <1>6, <3>1, HeaderPut, Zenon
  <2>7. /\ \A n \in Image \ {name} : disk'[n] = disk[n]
        /\ pc' \in {"kernel", "idle"}
    BY <2>6 DEF Puts, Exit
  <2>8. ReadInv' /\ ListInv'
    BY <1>1, <2>7, ReadKept DEF TripInv
  <2>9. \A n \in Image \ {name} : ContentInv(n)'
    BY <1>0, <1>1, <2>7, ContentKept DEF TripInv, VendorPhase, BootPhase
  <2>10. BuilderInv'
    BY <1>1, <1>2, <2>7 DEF BuilderInv
  <2>11. OutputInv'
    BY <2>7 DEF OutputInv, BootPhase, Building, VendorPhase
  <2>12. CASE pc' = "kernel" /\ stop = {} /\ Unfit(f) = {} /\ disk'[name] = Headed(f, page)
    <3>1. job.header_version = 2 => filesize(job.dtb) > 0
      <4>1. filesize(job.dtb) \in Nat
        BY <1>3, FileSizes
      <4>2. QED
        BY <1>0, <2>12, <4>1 DEF Version
    <3>2. GoodBoot(job)
      <4>1. job.header_version \in 0..4
        BY <2>2, <2>3, <2>12
      <4>2. QED
        BY <1>2, <1>3, <1>6, <3>1, <4>1 DEF GoodBoot, Version
    <3>3. disk'[name] = WithHeader(job)
      BY <1>0, <2>12 DEF WithHeader
    <3>4. pc' \in BootPhase /\ pc' \notin VendorPhase
      BY <2>12 DEF VendorPhase, BootPhase
    <3>5. StageInv'
      BY <1>0, <1>1, <1>6, <2>1, <2>12, <3>2, <3>3, <3>4 DEF StageInv, BootStage, GoodBoot
    <3>6. ContentInv(name)'
      BY <1>0, <1>1, <2>1, <3>4 DEF ContentInv
    <3>7. \A n \in Image : ContentInv(n)'
      BY <2>9, <3>6, Zenon
    <3>8. QED
      BY <2>8, <2>10, <2>11, <3>5, <3>7 DEF TripInv
  <2>13. CASE /\ Exit("error") /\ Bare(disk'[name]) /\ IsList(disk'[name].fields)
              /\ Len(disk'[name].fields) < Len(f)
              /\ \A i \in Unfit(f) : Len(disk'[name].fields) < i
              /\ Agrees(disk'[name].fields, f, Len(disk'[name].fields))
    <3>1. StageInv'
      BY <2>13 DEF StageInv, Exit, VendorPhase, BootPhase
    <3> DEFINE g == disk'[name].fields
               size == Len(g)
    <3> PICK R : g \in Seq(R)
      BY <2>13 DEF IsList
    <3>2. g \in Seq(R) /\ size \in Nat /\ size < Len(f) /\ Agrees(g, f, size)
          /\ \A i \in Unfit(f) : size < i
      BY <2>13
    <3> HIDE DEF g
    <3>3. size < HeaderFields(v)
      BY <2>2, <2>3, <2>4, <3>2
    <3>4. ReadsAsBoot(g, job.header_version)
      <4>1. f[1].v = "ANDROID!" /\ f[10].v = job.header_version /\ size <= m
        BY <2>2, <2>3, <2>4, <3>2
      <4>2. QED
        BY <3>2, <4>1, BootPrefix
    <3>5. CutShort(g, name, job)
      BY <1>0, <2>2, <3>3, <3>4 DEF CutShort, size
    <3>6. ContentInv(name)'
      <4>1. ~made'[name].whole /\ made'[name].job = job
        BY <1>1, <2>1
      <4>2. CutShort(disk'[name].fields, name, made'[name].job) /\ Bare(disk'[name])
        BY <2>13, <3>5, <4>1 DEF g
      <4>3. QED
        BY <4>1, <4>2 DEF ContentInv
    <3>7. \A n \in Image : ContentInv(n)'
      BY <2>9, <3>6, Zenon
    <3>8. QED
      BY <2>8, <2>10, <2>11, <3>1, <3>7 DEF TripInv
  <2>14. QED
    BY <2>6, <2>12, <2>13 DEF Puts
<1>7. QED
  BY <1>4, <1>5, <1>6

\* What WriteBoot() makes of the image
PartWritten(here, f, present) ==
    IF present THEN WritePadded(disk[job.output], here, f, DataPage) ELSE disk[job.output]

\* What holds of a run that writes the parts of a boot image, and after its step
LEMMA BootPhaseKept ==
  ASSUME ImagesInv, TripInv, pc \in BootPhase, UNCHANGED <<job, builder, unpack>>,
         pc' \in BootPhase \cup {"idle"}, NEW name, name = job.output,
         \A n \in Image \ {name} : disk'[n] = disk[n] /\ made'[n] = made[n]
  PROVE  /\ ReadInv' /\ ListInv' /\ BuilderInv' /\ OutputInv'
         /\ \A n \in Image \ {name} : ContentInv(n)'
         /\ name # None /\ name \in Image /\ made[name].job = job /\ ~made[name].whole
         /\ DOMAIN disk = Image /\ DOMAIN made = Image /\ DOMAIN made[name] = {"job", "whole"}
         /\ ArgumentsFit(job) /\ GoodBoot(job) /\ disk[name] = BootStage(job)
<1>1. pc \in Building /\ pc \in Building \ {"add_entry"} /\ pc \notin VendorPhase
      /\ pc \notin {"unpack", "extract"} /\ pc' \notin {"unpack", "extract", "parse", "add_entry"}
  BY DEF VendorPhase, BootPhase, Building
<1>2. ReadInv' /\ ListInv'
  BY <1>1, ReadKept DEF TripInv
<1>3. /\ Typed(job) /\ ArgumentsFit(job) /\ builder = BuilderOf(job)
      /\ NoneRefused(job, Entries(job))
      /\ name # None /\ GoodBoot(job) /\ disk[name] = BootStage(job) /\ ~made[name].whole
  BY <1>1 DEF TripInv, BuilderInv, StageInv
<1>4. BuilderInv'
  BY <1>1, <1>3 DEF BuilderInv
<1>5. OutputInv'
  BY DEF OutputInv, BootPhase, Building, VendorPhase
<1>6. \A n \in Image \ {name} : ContentInv(n)'
  BY <1>1, ContentKept DEF TripInv
<1>7. /\ name \in Image /\ made[name].job = job /\ DOMAIN disk = Image /\ DOMAIN made = Image
  BY <1>1, <1>3, OutputsNamed
<1>8. DOMAIN made[name] = {"job", "whole"}
  BY <1>1, <1>3 DEF ImagesInv, JobInv, Outputs
<1>9. QED
  BY <1>2, <1>3, <1>4, <1>5, <1>6, <1>7, <1>8

\* Writing a part of a boot image: the next stage
LEMMA BootWriteTrip ==
  ASSUME ImagesInv, TripInv, NEW here \in BootPhase, NEW f, NEW present, NEW next,
         WriteBoot(here, f, present, next), next \in BootPhase \ {"kernel"},
         NEW img, img = PartWritten(here, f, present), BootNext(next, img)
  PROVE  TripInv'
<1> USE DEF BootNext, PartWritten
<1>0. PICK name : name = job.output
  OBVIOUS
<1>1. /\ pc \in BootPhase /\ pc' = next /\ UNCHANGED <<job, builder, unpack, made>>
      /\ disk' = IF present THEN [disk EXCEPT ![name] = img] ELSE disk
      /\ ~present => img = disk[name]
  <2>1. pc = here /\ pc' = next /\ UNCHANGED <<job, builder, unpack, made>>
    BY DEF WriteBoot, mk
  <2>2. present => disk' = [disk EXCEPT ![name] = img]
    BY <1>0 DEF WriteBoot
  <2>3. ~present => disk' = disk /\ img = disk[name]
    BY <1>0 DEF WriteBoot
  <2>4. QED
    BY <2>1, <2>2, <2>3
<1>2. /\ ReadInv' /\ ListInv' /\ BuilderInv' /\ OutputInv'
      /\ \A n \in Image \ {name} : ContentInv(n)'
      /\ name # None /\ name \in Image /\ made[name].job = job /\ ~made[name].whole
      /\ DOMAIN disk = Image /\ ArgumentsFit(job) /\ GoodBoot(job)
  BY <1>0, <1>1, BootPhaseKept
<1>3. disk'[name] = img
  BY <1>1, <1>2
<1>4. pc' \in BootPhase /\ pc' \notin VendorPhase
  BY <1>1 DEF VendorPhase, BootPhase
<1>5. StageInv'
  <2>1. disk'[name] = BootStage(job)'
    BY <1>1, <1>3 DEF BootStage
  <2>2. QED
    BY <1>0, <1>1, <1>2, <1>4, <2>1 DEF StageInv, GoodBoot, VendorPhase
<1>6. ContentInv(name)'
  BY <1>0, <1>1, <1>2, <1>4 DEF ContentInv
<1>7. \A n \in Image : ContentInv(n)'
  BY <1>2, <1>6, Zenon
<1>8. QED
  BY <1>2, <1>5, <1>7 DEF TripInv

\* The parts of a boot image
LEMMA BootSteps ==
  ASSUME TripInv, WriteKernel \/ WriteRamdisk \/ WriteSecond \/ WriteDtbo \/ WriteDtb
  PROVE  \E here \in BootPhase : \E next \in BootPhase \ {"kernel"} : \E f, present, img :
           WriteBoot(here, f, present, next) /\ img = PartWritten(here, f, present) /\ BootNext(next, img)
<1> USE DEF BootNext, PartWritten
<1>0. PICK now : now = disk[job.output]
  OBVIOUS
<1>1. pc \in BootPhase
  BY DEF WriteKernel, WriteRamdisk, WriteSecond, WriteDtbo, WriteDtb, WriteBoot, BootPhase
<1>2. now = BootStage(job) /\ DataPage = PageOf(job)
  BY <1>0, <1>1 DEF TripInv, StageInv, DataPage, PageOf, Version
<1>3. \A p \in {"kernel", "ramdisk", "second", "recovery_dtbo", "dtb", "boot_signature"} : p \in BootPhase
  BY DEF BootPhase
<1>4. CASE WriteKernel
  <2>1. WriteBoot("kernel", job.kernel, TRUE, "ramdisk") /\ pc = "kernel"
    BY <1>4 DEF WriteKernel, WriteBoot
  <2>2. WithKernel(job) = WritePadded(now, "kernel", job.kernel, DataPage)
    BY <1>2, <2>1 DEF BootStage, WithKernel
  <2>3. QED
    BY <1>0, <1>3, <2>1, <2>2
<1>5. CASE WriteRamdisk
  <2>1. WriteBoot("ramdisk", job.ramdisk, TRUE, "second") /\ pc = "ramdisk"
    BY <1>5 DEF WriteRamdisk, WriteBoot
  <2>2. WithRamdisk(job) = WritePadded(now, "ramdisk", job.ramdisk, DataPage)
    BY <1>2, <2>1 DEF BootStage, WithRamdisk
  <2>3. QED
    BY <1>0, <1>3, <2>1, <2>2
<1>6. CASE WriteSecond
  <2>1. WriteBoot("second", job.second, TRUE, "recovery_dtbo") /\ pc = "second"
    BY <1>6 DEF WriteSecond, WriteBoot
  <2>2. WithSecond(job) = WritePadded(now, "second", job.second, DataPage)
    BY <1>2, <2>1 DEF BootStage, WithSecond
  <2>3. QED
    BY <1>0, <1>3, <2>1, <2>2
<1>7. CASE WriteDtbo
  <2> DEFINE present == Version \in {1, 2}
  <2>1. WriteBoot("recovery_dtbo", job.recovery_dtbo, present, "dtb") /\ pc = "recovery_dtbo"
    BY <1>7 DEF WriteDtbo, WriteBoot
  <2>2. WithDtbo(job) = IF present THEN WritePadded(now, "recovery_dtbo", job.recovery_dtbo, DataPage)
                        ELSE now
    BY <1>2, <2>1 DEF BootStage, WithDtbo, DtboOf, WritePadded, Version
  <2> HIDE DEF present
  <2>3. QED
    BY <1>0, <1>3, <2>1, <2>2
<1>8. CASE WriteDtb
  <2> DEFINE present == Version = 2
  <2>1. WriteBoot("dtb", job.dtb, present, "boot_signature") /\ pc = "dtb"
    BY <1>8 DEF WriteDtb, WriteBoot
  <2>2. WithDtb(job) = IF present THEN WritePadded(now, "dtb", job.dtb, DataPage) ELSE now
    BY <1>2, <2>1 DEF BootStage, WithDtb, DtbOf, WritePadded, Version
  <2> HIDE DEF present
  <2>3. QED
    BY <1>0, <1>3, <2>1, <2>2
<1>9. QED
  BY <1>4, <1>5, <1>6, <1>7, <1>8

LEMMA BootDataTrip ==
  ASSUME ImagesInv, TripInv, WriteKernel \/ WriteRamdisk \/ WriteSecond \/ WriteDtbo \/ WriteDtb
  PROVE  TripInv'
BY BootSteps, BootWriteTrip

\* The signature, or why there is none
LEMMA SignatureTrip ==
  ASSUME ImagesInv, TripInv, AddBootImageSignature
  PROVE  TripInv'
<1>0. PICK name : name = job.output
  OBVIOUS
<1>1. /\ pc = "boot_signature" /\ pc \in BootPhase /\ pc' = "idle"
      /\ UNCHANGED <<job, builder, unpack>>
  BY DEF AddBootImageSignature, Exit, mk, BootPhase
<1>2. \A n \in Image \ {name} : disk'[n] = disk[n] /\ made'[n] = made[n]
  <2>1. DOMAIN disk = Image /\ DOMAIN made = Image
    BY DEF ImagesInv, DiskInv
  <2>2. /\ disk' = disk \/ \E img : disk' = [disk EXCEPT ![name] = img]
        /\ made' = made \/ \E by : made' = [made EXCEPT ![name] = by]
    BY <1>0 DEF AddBootImageSignature
  <2>3. QED
    BY <2>1, <2>2
<1>3. /\ ReadInv' /\ ListInv' /\ BuilderInv' /\ OutputInv'
      /\ \A n \in Image \ {name} : ContentInv(n)'
      /\ name # None /\ name \in Image /\ made[name].job = job /\ ~made[name].whole
      /\ DOMAIN disk = Image /\ DOMAIN made = Image /\ DOMAIN made[name] = {"job", "whole"}
      /\ ArgumentsFit(job) /\ GoodBoot(job) /\ disk[name] = BootStage(job)
  BY <1>0, <1>1, <1>2, BootPhaseKept
<1>4. disk[name] = WithDtb(job) /\ job.header_version \in 0..4
  <2>1. job.header_version \in 0..4
    BY <1>3, Zenon DEF GoodBoot, Typed
  <2>2. QED
    BY <1>1, <1>3, <2>1 DEF BootStage
<1>5. StageInv'
  BY <1>1 DEF StageInv, VendorPhase, BootPhase
<1>6. CASE Version >= 4 /\ job.signature \in SigningFailed
  <2>1. disk' = disk /\ made' = made
    BY <1>6 DEF AddBootImageSignature, SigningFailed
  <2>2. job.header_version = 4
    BY <1>4, <1>6 DEF Version
  <2>3. CompleteBoot(disk'[name], made'[name])
    BY <1>3, <1>4, <1>6, <2>1, <2>2 DEF CompleteBoot
  <2>4. CompleteBoot(disk[name], made[name])' /\ name = made'[name].job.output
    BY <1>0, <1>3, <2>1, <2>3 DEF CompleteBoot, GoodBoot
  <2>5. ContentInv(name)'
    BY <2>4 DEF ContentInv
  <2>6. QED
    BY <1>3, <1>5, <2>5, Zenon DEF TripInv
<1>7. CASE ~(Version >= 4 /\ job.signature \in SigningFailed)
  <2>1. /\ made' = [made EXCEPT ![name].whole = TRUE]
        /\ disk' = IF Version < 4 THEN disk
                   ELSE [disk EXCEPT ![name] =
                           WritePadded(disk[name], "boot_signature", Signature, DataPage)]
    BY <1>0, <1>7 DEF AddBootImageSignature, SigningFailed
  <2>2. made'[name].job = job /\ made'[name].whole
    <3>1. made'[name] = [made[name] EXCEPT !.whole = TRUE]
      BY <1>3, <2>1
    <3>2. QED
      BY <1>3, <3>1
  <2>3. disk'[name] = Signed(job)
    <3>1. Signature = SignatureOf(job) /\ DataPage = PageOf(job)
      BY DEF Signature, SignatureOf, DataPage, PageOf, Version
    <3>2. QED
      BY <1>3, <1>4, <2>1, <3>1 DEF Signed, Version
  <2>4. CompleteBoot(disk'[name], made'[name])
    BY <1>3, <2>2, <2>3 DEF CompleteBoot
  <2>5. CompleteBoot(disk[name], made[name])' /\ name = made'[name].job.output
    BY <1>0, <2>2, <2>4 DEF CompleteBoot, GoodBoot
  <2>6. ContentInv(name)'
    BY <2>5 DEF ContentInv
  <2>7. QED
    BY <1>3, <1>5, <2>6, Zenon DEF TripInv
<1>8. QED
  BY <1>6, <1>7

-------------------------------------------------------------------------------
(* What is in the output directory at the end                                  *)

\* A complete image is of the format its first bytes say.
LEMMA BootComplete ==
  ASSUME NEW img, NEW by, CompleteBoot(img, by)
  PROVE  /\ GoodBoot(by.job) /\ ArgumentsFit(by.job) /\ BootPlaces(by.job, img)
         /\ img.fields = BootFields(by.job) /\ by.job.header_version \in 0..4 /\ IsBoot(img)
<1> DEFINE a == by.job
<1>1. GoodBoot(a) /\ ArgumentsFit(a) /\ (img = Signed(a) \/ img = WithDtb(a))
  BY DEF CompleteBoot
<1>2. BootPlaces(a, img)
  BY <1>1, BootPlaced
<1>3. img.fields = BootFields(a)
  BY <1>2 DEF BootPlaces
<1>4. a.header_version \in 0..4
  <2>1. a.header_version \in 0..4
    BY <1>1, Zenon DEF GoodBoot
  <2>2. QED
    BY <2>1
<1>5. BootFields(a)[1].v = "ANDROID!"
  <2>1. CASE a.header_version \in 3..4
    BY <2>1, V3Shape DEF BootFields
  <2>2. CASE a.header_version \in 0..2
    BY <2>2, V0Shape DEF BootFields
  <2>3. QED
    BY <1>4, <2>1, <2>2
<1>6. QED
  BY <1>1, <1>2, <1>3, <1>4, <1>5 DEF IsBoot, Magic

LEMMA VendorComplete ==
  ASSUME NEW img, NEW by, CompleteVendor(img, by)
  PROVE  /\ GoodVendor(by.job) /\ ArgumentsFit(by.job) /\ by.whole
         /\ VendorPlaces(by.job, img) /\ ~IsBoot(img)
BY VendorPlaced, VendorSizes DEF CompleteVendor

\* A table that was not written to its end is not read either, though everything before
\* it has been: its last entry would end behind the end of the image.
LEMMA CutTableRefused ==
  ASSUME NEW img, NEW by, CutInTable(img, by)
  PROVE  ~Readable(img)
<1> DEFINE a == by.job
           f == img.fields
           n == Entries(a)
<1>1. GoodVendor(a) /\ Typed(a) /\ a.header_version = 4
  BY DEF CutInTable, GoodVendor
<1>2. PICK k \in 0..n - 1 : img = CutTable(VendorDtb(a), BuilderOf(a).entries, k)
  BY DEF CutInTable
<1>3. n \in 0..3 /\ Len(BuilderOf(a).entries) = n
  BY <1>1, BuilderTyped, Zenon
<1>4. /\ Tidy(VendorDtb(a)) /\ VendorDtb(a).fields = VendorFields(a, BuilderOf(a))
      /\ VendorDtb(a).len = a.pagesize * (HeadPages(a) + RamPages(a) + DtbPages(a))
      /\ VendorDtb(a).len \in Nat
  BY <1>1, VendorPlaced
<1>5. f = VendorFields(a, BuilderOf(a)) /\ img.len = VendorDtb(a).len + (k * 108 + 8)
  <2> DEFINE dtb == VendorDtb(a)
             size == k * 108 + 8
  <2>1. DOMAIN dtb = DOMAIN Opened /\ dtb.len \in Nat /\ size \in Nat
    BY <1>4 DEF Tidy
  <2>2. img = [dtb EXCEPT !.table = SubSeq(BuilderOf(a).entries, 1, k), !.table_off = dtb.len,
                          !.len = dtb.len + k * VENDOR_RAMDISK_TABLE_ENTRY_V4_SIZE + 8]
    BY <1>2 DEF CutTable
  <2> HIDE DEF dtb
  <2>3. img.fields = dtb.fields /\ img.len = dtb.len + k * VENDOR_RAMDISK_TABLE_ENTRY_V4_SIZE + 8
    BY <2>1, <2>2 DEF Opened
  <2>4. dtb.len + k * 108 + 8 = dtb.len + size
    BY <2>1
  <2>5. QED
    BY <1>4, <2>3, <2>4 DEF dtb, VENDOR_RAMDISK_TABLE_ENTRY_V4_SIZE
<1>6. /\ \A i \in 1..12 : f[i] = VendorFront(a, BuilderOf(a))[i]
      /\ f[14].v = n /\ f[15].v = 108
  <2>1. a.header_version \in Int /\ a.header_version > 3
    BY <1>1
  <2>2. PICK b : b = BuilderOf(a)
    OBVIOUS
  <2>3. /\ \A i \in 1..12 : VendorFields(a, b)[i] = VendorFront(a, b)[i]
        /\ VendorFields(a, b)[14].v = Len(b.entries)
        /\ VendorFields(a, b)[15].v = VENDOR_RAMDISK_TABLE_ENTRY_V4_SIZE
    BY <2>1, VendorValues
  <2>4. f = VendorFields(a, b) /\ Len(b.entries) = n
    BY <1>3, <1>5, <2>2
  <2> HIDE DEF f, n
  <2>5. QED
    BY <2>2, <2>3, <2>4 DEF VENDOR_RAMDISK_TABLE_ENTRY_V4_SIZE
<1>7. /\ f[1].v = "VNDRBOOT" /\ f[2].v = 4 /\ f[3].v = a.pagesize
      /\ f[6].v = RamdiskBytes(a) /\ f[10].v = VendorHeaderSize(a) /\ f[11].v = filesize(a.dtb)
  <2>1. /\ f[1] = VendorFront(a, BuilderOf(a))[1] /\ f[2] = VendorFront(a, BuilderOf(a))[2]
        /\ f[3] = VendorFront(a, BuilderOf(a))[3] /\ f[6] = VendorFront(a, BuilderOf(a))[6]
        /\ f[10] = VendorFront(a, BuilderOf(a))[10] /\ f[11] = VendorFront(a, BuilderOf(a))[11]
    BY <1>6
  <2>2. QED
    BY <1>1, <2>1 DEF VendorFront, Field, RamdiskBytes, VendorHeaderSize
<1>8. ~IsBoot(img)
  BY <1>7 DEF IsBoot, Magic
<1>9. TableOffset(f) = VendorDtb(a).len
  BY <1>4, <1>7, Zenon DEF TableOffset, HeadPages, RamPages, DtbPages
<1> HIDE DEF a, f, n
<1>10. SUFFICES ASSUME TableReadable(img) PROVE FALSE
  BY <1>8 DEF Readable
<1>11. n \in 1..n /\ k <= n - 1 /\ k \in Nat /\ n \in Nat
  BY <1>3
<1>12. TableOffset(f) + 108 * (n - 1) + 108 <= img.len
  BY <1>6, <1>7, <1>10, <1>11 DEF TableReadable, f, VENDOR_RAMDISK_TABLE_ENTRY_V4_SIZE
<1>13. PICK m : m = VendorDtb(a).len
  OBVIOUS
<1>14. m \in Nat /\ m + 108 * (n - 1) + 108 <= m + (k * 108 + 8)
  BY <1>4, <1>5, <1>9, <1>12, <1>13
<1>15. QED
  BY <1>11, <1>14

\* Between runs, what was read is a complete image of one of the formats.
LEMMA ReadComplete ==
  ASSUME ReadInv, pc # "unpack", info # None
  PROVE  /\ IsBoot(info.of) => /\ CompleteBoot(info.of, info.job)
                               /\ info.header = BootInfo(info.of.fields)
         /\ ~IsBoot(info.of) => /\ CompleteVendor(info.of, info.job)
                                /\ info.header = VendorInfo(info.of)
<1>1. /\ CompleteBoot(info.of, info.job) \/ CompleteVendor(info.of, info.job)
      /\ info.header = IF IsBoot(info.of) THEN BootInfo(info.of.fields) ELSE VendorInfo(info.of)
  BY DEF ReadInv
<1>2. CompleteBoot(info.of, info.job) => IsBoot(info.of)
  BY BootComplete
<1>3. CompleteVendor(info.of, info.job) => ~IsBoot(info.of)
  BY VendorComplete
<1>4. QED
  BY <1>1, <1>2, <1>3

\* Every part of a boot image is in the file of its name,
LEMMA BootOut ==
  ASSUME ReadInv, pc \notin {"unpack", "extract"}, info # None, IsBoot(info.of),
         NEW p \in Part, p \in {"kernel", "ramdisk"} \/ filesize(PartsOf(info.job.job)[p]) > 0
  PROVE  outdir[p] = BytesOf(PartsOf(info.job.job)[p])
<1> DEFINE a == info.job.job
           img == info.of
<1>1. CompleteBoot(img, info.job) /\ info.header = BootInfo(img.fields)
  BY ReadComplete
<1>2. GoodBoot(a) /\ BootPlaces(a, img) /\ img.fields = BootFields(a)
  BY <1>1, BootComplete
<1>3. PICK t \in BootItems(BootInfo(img.fields)) : t.name = p
  BY <1>2, BootListedParts
<1>4. p # "boot_signature"
  <2>1. PartsOf(a)["boot_signature"] = None /\ filesize(None) = 0
    BY <1>2, PartsAre DEF Part, filesize
  <2>2. QED
    BY <2>1
<1>5. Read(img, t.off, t.size) = BytesOf(PartsOf(a)[p])
  BY <1>2, <1>3, <1>4, BootReads
<1>6. t \in ListOf(info)
  BY <1>1, <1>3 DEF ListOf
<1>7. outdir[t.name] = Read(img, t.off, t.size)
  BY <1>6 DEF ReadInv
<1>8. QED
  BY <1>3, <1>5, <1>7

\* and so is every part of a vendor_boot image.
LEMMA VendorOut ==
  ASSUME ReadInv, pc \notin {"unpack", "extract"}, info # None, ~IsBoot(info.of)
  PROVE  LET a == info.job.job
         IN  /\ outdir["dtb"] = BytesOf(a.dtb)
             /\ a.header_version = 3 => outdir["vendor_ramdisk"] = BytesOf(a.vendor_ramdisk)
             /\ a.header_version = 4 =>
                  /\ outdir["bootconfig"] = BytesOf(a.vendor_bootconfig)
                  /\ \A i \in 1..Entries(a) : outdir[RamdiskFile[i]] = BytesOf(EntryOf(a, i).file)
<1> DEFINE a == info.job.job
           img == info.of
           items == VendorItems(VendorInfo(img))
<1>1. CompleteVendor(img, info.job) /\ info.header = VendorInfo(img)
  BY ReadComplete
<1>2. GoodVendor(a) /\ VendorPlaces(a, img)
  BY <1>1, VendorComplete
<1>3. \A t \in items : IsVendorPart(a, t, Read(img, t.off, t.size))
  BY <1>2, VendorReads
<1>4. \A t \in items : outdir[t.name] = Read(img, t.off, t.size)
  <2>1. ListOf(info) = items
    BY <1>1 DEF ListOf
  <2>2. QED
    BY <2>1 DEF ReadInv
<1>5. \A t \in items : IsVendorPart(a, t, outdir[t.name])
  BY <1>3, <1>4
<1>6. LET names == {t.name : t \in items}
      IN  /\ "dtb" \in names
          /\ a.header_version = 3 => "vendor_ramdisk" \in names
          /\ a.header_version = 4 =>
               /\ "bootconfig" \in names
               /\ \A i \in 1..Entries(a) : RamdiskFile[i] \in names
  BY <1>2, VendorListedParts
<1>7. Entries(a) \in 0..3
  BY <1>2, BuilderTyped DEF GoodVendor
<1>8. /\ RamdiskFile[1] = "vendor_ramdisk00" /\ RamdiskFile[2] = "vendor_ramdisk01"
      /\ RamdiskFile[3] = "vendor_ramdisk02"
  BY DEF RamdiskFile
<1>9. \A i \in 1..Entries(a) :
        /\ RamdiskFile[i] \notin {"dtb", "vendor_ramdisk", "bootconfig"}
        /\ \A j \in 1..Entries(a) : RamdiskFile[i] = RamdiskFile[j] => i = j
  <2>1. \A i \in 1..Entries(a) : i \in {1, 2, 3}
    BY <1>7
  <2>2. QED
    BY <1>8, <2>1
<1> HIDE DEF items
<1>10. outdir["dtb"] = BytesOf(a.dtb)
  <2>1. PICK t \in items : t.name = "dtb"
    BY <1>6
  <2>2. QED
    BY <1>5, <1>9, <2>1 DEF IsVendorPart
<1>11. ASSUME a.header_version = 3 PROVE outdir["vendor_ramdisk"] = BytesOf(a.vendor_ramdisk)
  <2>1. PICK t \in items : t.name = "vendor_ramdisk"
    BY <1>6, <1>11
  <2>2. QED
    BY <1>5, <1>11, <2>1 DEF IsVendorPart
<1>12. ASSUME a.header_version = 4
       PROVE  /\ outdir["bootconfig"] = BytesOf(a.vendor_bootconfig)
              /\ \A i \in 1..Entries(a) : outdir[RamdiskFile[i]] = BytesOf(EntryOf(a, i).file)
  <2>1. PICK t \in items : t.name = "bootconfig"
    BY <1>6, <1>12
  <2>2. outdir["bootconfig"] = BytesOf(a.vendor_bootconfig)
    BY <1>5, <1>9, <2>1 DEF IsVendorPart
  <2>3. ASSUME NEW i \in 1..Entries(a) PROVE outdir[RamdiskFile[i]] = BytesOf(EntryOf(a, i).file)
    <3>1. PICK t2 \in items : t2.name = RamdiskFile[i]
      BY <1>6, <1>12
    <3>2. IsVendorPart(a, t2, outdir[RamdiskFile[i]])
      BY <1>5, <3>1
    <3>3. QED
      BY <1>9, <1>12, <3>1, <3>2 DEF IsVendorPart
  <2>4. QED
    BY <2>2, <2>3
<1>13. QED
  BY <1>10, <1>11, <1>12

-------------------------------------------------------------------------------
(* The job that is printed has options of the right types                      *)

\* The versions that are read from a header
LEMMA VersionsTyped ==
  ASSUME NEW n \in Nat
  PROVE  /\ decode_os_version(n) \in (Nat \X Nat \X Nat) \cup {None}
         /\ decode_os_patch_level(n) \in (Nat \X Nat) \cup {None}
<1>1. n \div 2048 \in Nat /\ n % 2048 \in Nat
  OBVIOUS
<1>2. ASSUME NEW m \in Nat PROVE format_os_version(m) \in (Nat \X Nat \X Nat) \cup {None}
  BY DEF format_os_version
<1>3. ASSUME NEW m \in Nat PROVE format_os_patch_level(m) \in (Nat \X Nat) \cup {None}
  BY DEF format_os_patch_level
<1>4. QED
  BY <1>1, <1>2, <1>3 DEF decode_os_version, decode_os_patch_level

\* What is written as the versions of a job is a number,
LEMMA VersionsNumber ==
  ASSUME NEW a, Typed(a), ArgumentsFit(a)
  PROVE  parse_os_version(a.os_version) * 2048 + parse_os_patch_level(a.os_patch_level) \in Nat
<1> DEFINE v == a.os_version
           d == a.os_patch_level
<1>1. v \in (Nat \X Nat \X Nat) \cup {None} /\ d \in (Nat \X Nat) \cup {None}
  BY Zenon DEF Typed
<1>2. d # None => d[1] \in 2000..2127
  BY DEF ArgumentsFit
<1> HIDE DEF v, d
<1>3. parse_os_version(v) \in Nat
  BY <1>1 DEF parse_os_version
<1>4. parse_os_patch_level(d) \in Nat
  BY <1>1, <1>2 DEF parse_os_patch_level
<1> DEFINE m == parse_os_version(v)
           k == parse_os_patch_level(d)
<1>5. m \in Nat /\ k \in Nat
  BY <1>3, <1>4
<1> HIDE DEF m, k
<1>6. m * 2048 + k \in Nat
  BY <1>5
<1>7. QED
  BY <1>6 DEF m, k, v, d

\* and its addresses are integers.
LEMMA OptionsTyped ==
  ASSUME NEW a, Typed(a)
  PROVE  /\ a.header_version \in Int /\ a.cmdline \in [from : {0}, to : Nat, wide : Nat]
         /\ \A f \in {a.kernel, a.ramdisk, a.second, a.recovery_dtbo, a.dtb, a.vendor_ramdisk,
                      a.vendor_bootconfig} : f \in File \cup {None} /\ BytesOf(f) \in File
         /\ DtboOf(a) \in File \cup {None} /\ DtbOf(a) \in File \cup {None}
         /\ a.base + a.kernel_offset \in Int /\ a.base + a.ramdisk_offset \in Int
         /\ a.base + a.second_offset \in Int /\ a.base + a.tags_offset \in Int
         /\ a.base + a.dtb_offset \in Int
<1>1. /\ a.header_version \in Int /\ a.cmdline \in [from : {0}, to : Nat, wide : Nat]
      /\ {a.kernel, a.ramdisk, a.second, a.recovery_dtbo, a.dtb, a.vendor_ramdisk,
          a.vendor_bootconfig} \subseteq File \cup {None}
  BY Zenon DEF Typed
<1>2. {a.base, a.kernel_offset, a.ramdisk_offset, a.second_offset, a.dtb_offset,
        a.tags_offset} \subseteq Int
  BY Zenon DEF Typed
<1>3. \A f \in {a.kernel, a.ramdisk, a.second, a.recovery_dtbo, a.dtb, a.vendor_ramdisk,
                      a.vendor_bootconfig} : f \in File \cup {None} /\ BytesOf(f) \in File
  BY <1>1, FileSizes
<1>4. DtboOf(a) \in File \cup {None} /\ DtbOf(a) \in File \cup {None}
  BY <1>3 DEF DtboOf, DtbOf
<1>5. QED
  BY <1>1, <1>2, <1>3, <1>4

\* The user starts a run.
LEMMA BuildTrip ==
  ASSUME ImagesInv, TripInv, Build \/ Unpack
  PROVE  TripInv'
<1>1. /\ pc = "idle" /\ UNCHANGED <<disk, made, outdir>> /\ pc' \in {"parse", "unpack"}
      /\ pc \notin VendorPhase \cup BootPhase
      /\ pc' \notin Building \cup VendorPhase \cup BootPhase \cup {"extract"}
  BY DEF Build, Unpack, unpack, Building, VendorPhase, BootPhase
<1>2. \A n \in Image : ContentInv(n)'
  BY <1>1, ContentKept DEF TripInv
<1>3. OutputInv' /\ StageInv'
  BY <1>1 DEF OutputInv, StageInv, Building
<1>4. ListInv'
  BY <1>1 DEF TripInv, ListInv
<1>5. BuilderInv'
  <2>1. pc' = "parse" => Typed(job')
    BY <1>1, JobsAssumption DEF Build, Unpack
  <2>2. QED
    BY <1>1, <2>1 DEF BuilderInv, Building
<1>6. ReadInv'
  <2>1. CASE Build
    BY <1>1, <2>1, ReadKept DEF Build, TripInv
  <2>2. CASE Unpack
    BY <2>2 DEF Unpack, ReadInv
  <2>3. QED
    BY <2>1, <2>2
<1>7. QED
  BY <1>2, <1>3, <1>4, <1>5, <1>6 DEF TripInv

\* The fields of the options of mkbootimg.py
Options == {"header_version", "kernel", "ramdisk", "second", "recovery_dtbo", "dtb", "cmdline",
            "vendor_cmdline", "base", "kernel_offset", "ramdisk_offset", "second_offset",
            "dtb_offset", "tags_offset", "os_version", "os_patch_level", "board", "pagesize",
            "output", "vendor_boot", "vendor_ramdisk", "vendor_bootconfig", "fragments",
            "signature"}

LEMMA DefaultOptions ==
  /\ DOMAIN Defaults = Options
  /\ Defaults.kernel = None /\ Defaults.ramdisk = None /\ Defaults.second = None
  /\ Defaults.recovery_dtbo = None /\ Defaults.dtb = None /\ Defaults.vendor_ramdisk = None
  /\ Defaults.vendor_bootconfig = None /\ Defaults.cmdline = NoText /\ Defaults.base \in Nat
  /\ Defaults.kernel_offset \in Nat /\ Defaults.ramdisk_offset \in Nat
  /\ Defaults.second_offset \in Nat /\ Defaults.dtb_offset \in Nat /\ Defaults.tags_offset \in Nat
  /\ Defaults.os_version = None /\ Defaults.os_patch_level = None
  /\ Defaults.output = None /\ Defaults.vendor_boot = None /\ Defaults.fragments = << >>
  /\ Defaults.signature = "zeros"
BY DEF Defaults, Options

\* What is printed for a boot image of version 3 or 4, and what more for an earlier one
LEMMA BootPrinted ==
  ASSUME NEW h
  PROVE  LET b == BootArguments(h)
         IN  /\ DOMAIN b = Options
             /\ b.header_version = h.header_version /\ b.os_version = h.os_version
             /\ b.os_patch_level = h.os_patch_level /\ b.kernel = outdir["kernel"]
             /\ b.ramdisk = outdir["ramdisk"] /\ b.cmdline = h.cmdline
             /\ b.output = "repacked.img"
             /\ \A o \in Options \ {"header_version", "os_version", "os_patch_level", "kernel",
                                    "ramdisk", "cmdline", "output"} : b[o] = Defaults[o]
<1> DEFINE d == Defaults
<1>1. DOMAIN d = Options
  BY DefaultOptions
<1>2. BootArguments(h) =
        [d EXCEPT !.header_version = h.header_version, !.os_version = h.os_version,
                  !.os_patch_level = h.os_patch_level, !.kernel = outdir["kernel"],
                  !.ramdisk = outdir["ramdisk"], !.cmdline = h.cmdline,
                  !.output = "repacked.img"]
  BY DEF BootArguments
<1> HIDE DEF d
<1>3. QED
  BY <1>1, <1>2, ZenonT(60) DEF d, Options

LEMMA OldBootPrinted ==
  ASSUME NEW h
  PROVE  LET b == OldBootArguments(h)
         IN  /\ DOMAIN b = Options
             /\ b.second = FileIf(h.second_size > 0, "second")
             /\ b.recovery_dtbo = FileIf(h.recovery_dtbo_size > 0, "recovery_dtbo")
             /\ b.dtb = FileIf(h.dtb_size > 0, "dtb")
             /\ b.pagesize = h.page_size /\ b.base = 0
             /\ b.kernel_offset = h.load[1] /\ b.ramdisk_offset = h.load[2]
             /\ b.second_offset = h.load[3] /\ b.tags_offset = h.load[4]
             /\ b.dtb_offset = IF h.header_version = 2 THEN h.dtb_load_address
                               ELSE Defaults.dtb_offset
             /\ b.board = h.product_name
             /\ \A o \in Options \ {"second", "recovery_dtbo", "dtb", "pagesize", "base",
                                    "kernel_offset", "ramdisk_offset", "second_offset",
                                    "tags_offset", "dtb_offset", "board"} :
                  b[o] = BootArguments(h)[o]
<1> DEFINE d == BootArguments(h)
           second == FileIf(h.second_size > 0, "second")
           dtbo == FileIf(h.recovery_dtbo_size > 0, "recovery_dtbo")
           dtb == FileIf(h.dtb_size > 0, "dtb")
           at == IF h.header_version = 2 THEN h.dtb_load_address ELSE d.dtb_offset
<1>1. DOMAIN d = Options /\ d.dtb_offset = Defaults.dtb_offset
  BY BootPrinted DEF Options
<1>2. OldBootArguments(h) =
        [d EXCEPT !.second = second, !.recovery_dtbo = dtbo, !.dtb = dtb,
                  !.pagesize = h.page_size, !.base = 0,
                  !.kernel_offset = h.load[1], !.ramdisk_offset = h.load[2],
                  !.second_offset = h.load[3], !.tags_offset = h.load[4],
                  !.dtb_offset = at, !.board = h.product_name]
  BY DEF OldBootArguments, PrintedBase
<1>3. at = IF h.header_version = 2 THEN h.dtb_load_address ELSE Defaults.dtb_offset
  BY <1>1
<1> HIDE DEF d, second, dtbo, dtb, at
<1> DEFINE b == OldBootArguments(h)
<1>4. DOMAIN b = Options
  BY <1>1, <1>2
<1>5. /\ b.second = second /\ b.recovery_dtbo = dtbo /\ b.dtb = dtb
      /\ b.pagesize = h.page_size /\ b.base = 0
      /\ b.kernel_offset = h.load[1] /\ b.ramdisk_offset = h.load[2]
      /\ b.second_offset = h.load[3] /\ b.tags_offset = h.load[4]
      /\ b.dtb_offset = at /\ b.board = h.product_name
  BY <1>1, <1>2 DEF Options
<1>6. ASSUME NEW o \in Options \ {"second", "recovery_dtbo", "dtb", "pagesize", "base",
                                  "kernel_offset", "ramdisk_offset", "second_offset",
                                  "tags_offset", "dtb_offset", "board"}
      PROVE b[o] = d[o]
  BY <1>1, <1>2
<1>7. QED
  BY <1>3, <1>4, <1>5, <1>6 DEF d, second, dtbo, dtb

\* What is printed for a vendor_boot image
Fragment(e, i) ==
    [file |-> outdir[RamdiskFile[i]], type |-> e.type, name |-> e.name, board_id |-> e.board_id]

LEMMA VendorPrinted ==
  ASSUME NEW h
  PROVE  LET b == VendorArguments(h)
         IN  /\ DOMAIN b = Options
             /\ b.header_version = h.header_version /\ b.pagesize = h.page_size /\ b.base = 0
             /\ b.kernel_offset = h.load[1] /\ b.ramdisk_offset = h.load[2]
             /\ b.tags_offset = h.load[4] /\ b.dtb_offset = h.dtb_load_address
             /\ b.vendor_cmdline = h.cmdline /\ b.board = h.product_name
             /\ b.dtb = FileIf(h.dtb_size > 0, "dtb")
             /\ b.vendor_bootconfig = FileIf(h.header_version > 3, "bootconfig")
             /\ b.vendor_ramdisk = FileIf(h.header_version <= 3, "vendor_ramdisk")
             /\ b.fragments = [i \in DOMAIN h.table |-> Fragment(h.table[i], i)]
             /\ b.vendor_boot = "repacked.img"
             /\ \A o \in Options \ {"header_version", "pagesize", "base", "kernel_offset",
                                    "ramdisk_offset", "tags_offset", "dtb_offset",
                                    "vendor_cmdline", "board", "dtb", "vendor_bootconfig",
                                    "vendor_ramdisk", "fragments", "vendor_boot"} :
                  b[o] = Defaults[o]
<1> DEFINE d == Defaults
           conf == FileIf(h.header_version > 3, "bootconfig")
           ramdisk == FileIf(h.header_version <= 3, "vendor_ramdisk")
           dtb == FileIf(h.dtb_size > 0, "dtb")
           parts == [i \in DOMAIN h.table |-> Fragment(h.table[i], i)]
<1>1. DOMAIN d = Options
  BY DefaultOptions
<1>2. VendorArguments(h) =
    [d EXCEPT
       !.header_version = h.header_version, !.pagesize = h.page_size, !.base = 0,
       !.kernel_offset = h.load[1], !.ramdisk_offset = h.load[2], !.tags_offset = h.load[4],
       !.dtb_offset = h.dtb_load_address, !.vendor_cmdline = h.cmdline,
       !.board = h.product_name, !.dtb = dtb, !.vendor_bootconfig = conf,
       !.vendor_ramdisk = ramdisk, !.fragments = parts, !.vendor_boot = "repacked.img"]
  BY DEF VendorArguments, PrintedBase, Fragment
<1> HIDE DEF d, conf, ramdisk, dtb, parts
<1> DEFINE b == VendorArguments(h)
<1>3. DOMAIN b = Options
  BY <1>1, <1>2
<1>4. /\ b.header_version = h.header_version /\ b.pagesize = h.page_size /\ b.base = 0
      /\ b.kernel_offset = h.load[1] /\ b.ramdisk_offset = h.load[2]
      /\ b.tags_offset = h.load[4] /\ b.dtb_offset = h.dtb_load_address
      /\ b.vendor_cmdline = h.cmdline /\ b.board = h.product_name
      /\ b.dtb = dtb /\ b.vendor_bootconfig = conf /\ b.vendor_ramdisk = ramdisk
      /\ b.fragments = parts /\ b.vendor_boot = "repacked.img"
  BY <1>1, <1>2 DEF Options
<1>5. ASSUME NEW o \in Options \ {"header_version", "pagesize", "base", "kernel_offset",
                                  "ramdisk_offset", "tags_offset", "dtb_offset",
                                  "vendor_cmdline", "board", "dtb", "vendor_bootconfig",
                                  "vendor_ramdisk", "fragments", "vendor_boot"}
      PROVE b[o] = d[o]
  BY <1>1, <1>2
<1>6. QED
  BY <1>3, <1>4, <1>5 DEF d, conf, ramdisk, dtb, parts

\* What is read from the header of a boot image that is printed again
LEMMA BootHeaderTyped ==
  ASSUME NEW a, GoodBoot(a), ArgumentsFit(a)
  PROVE  LET h == BootInfo(BootFields(a))
         IN  /\ h.os_version \in (Nat \X Nat \X Nat) \cup {None}
             /\ h.os_patch_level \in (Nat \X Nat) \cup {None}
             /\ h.cmdline = a.cmdline
             /\ a.header_version <= 2 => \A k \in 1..4 : h.load[k] \in Int
             /\ a.header_version = 2 => h.dtb_load_address \in Int
<1> DEFINE f == BootFields(a)
           v == a.header_version
           h == BootInfo(f)
<1>1. Typed(a) /\ v \in 0..4
  BY DEF GoodBoot
<1>2. parse_os_version(a.os_version) * 2048 + parse_os_patch_level(a.os_patch_level) \in Nat
  BY <1>1, VersionsNumber
<1>3. /\ a.base + a.kernel_offset \in Int /\ a.base + a.ramdisk_offset \in Int
      /\ a.base + a.second_offset \in Int /\ a.base + a.tags_offset \in Int
      /\ a.base + a.dtb_offset \in Int /\ a.cmdline \in [from : {0}, to : Nat, wide : Nat]
  BY <1>1, OptionsTyped
<1>4. CASE v \in 0..2
  <2>1. /\ \A k \in 1..15 : f[k] = V0Front(a)[k]
        /\ v = 2 => f[20].v = a.base + a.dtb_offset
    BY <1>4, V0Values DEF BootFields
  <2>2. f[10].v = v
    BY <2>1 DEF V0Front, Field
  <2>3. /\ f[11].v \in Nat
        /\ f[13].v = cmdline(a.cmdline) /\ f[15].v = extra_cmdline(a.cmdline)
    BY <1>2, <2>1 DEF V0Front, Field
  <2>4. f[3].v \in Int /\ f[5].v \in Int /\ f[7].v \in Int /\ f[8].v \in Int
    BY <1>3, <2>1 DEF V0Front, Field
  <2>5. v = 2 => f[20].v \in Int
    BY <1>3, <2>1
  <2> HIDE DEF f
  <2>6. h.os_version = decode_os_version(f[11].v) /\ h.os_patch_level = decode_os_patch_level(f[11].v)
    BY <1>4, <2>2 DEF BootInfo
  <2>7. h.cmdline = [f[13].v EXCEPT !.to = f[15].v.to]
    BY <1>4, <2>2 DEF BootInfo
  <2>8. [cmdline(a.cmdline) EXCEPT !.to = extra_cmdline(a.cmdline).to] = a.cmdline
    <3> DEFINE c == a.cmdline
    <3>1. c = [from |-> c.from, to |-> c.to, wide |-> c.wide]
      BY <1>3
    <3> HIDE DEF c
    <3>2. cmdline(c) = [from |-> c.from, to |-> Cut(c), wide |-> c.wide]
          /\ extra_cmdline(c).to = c.to
      BY <3>1 DEF cmdline, extra_cmdline
    <3>3. [cmdline(c) EXCEPT !.to = c.to] = [from |-> c.from, to |-> c.to, wide |-> c.wide]
      BY <3>2
    <3>4. QED
      BY <3>1, <3>2, <3>3 DEF c
  <2>9. h.load = <<f[3].v, f[5].v, f[7].v, f[8].v>>
    BY <1>4, <2>2 DEF BootInfo
  <2>10. \A k \in 1..4 : h.load[k] \in Int
    BY <2>4, <2>9
  <2>11. v = 2 => h.dtb_load_address = f[20].v
    BY <2>2 DEF BootInfo
  <2>12. QED
    BY <2>3, <2>5, <2>6, <2>7, <2>8, <2>10, <2>11, VersionsTyped DEF f
<1>5. CASE v \in 3..4
  <2>1. \A k \in 1..11 : f[k] = V3Front(a)[k]
    BY <1>5, V3Values DEF BootFields
  <2>2. f[10].v = v /\ f[4].v \in Nat /\ f[11].v = a.cmdline
    BY <1>2, <2>1 DEF V3Front, Field
  <2> HIDE DEF f
  <2>3. h.os_version = decode_os_version(f[4].v) /\ h.os_patch_level = decode_os_patch_level(f[4].v)
        /\ h.cmdline = f[11].v
    BY <1>5, <2>2 DEF BootInfo
  <2>4. QED
    BY <1>5, <2>2, <2>3, VersionsTyped DEF f
<1>6. QED
  BY <1>1, <1>4, <1>5

\* The job that is printed for a boot image
LEMMA BootPrintedTyped ==
  ASSUME ReadInv, pc \notin {"unpack", "extract"}, info # None, IsBoot(info.of)
  PROVE  Typed(format_mkbootimg_argument)
<1> DEFINE a == info.job.job
           h == info.header
           b == format_mkbootimg_argument
           c == BootArguments(h)
<1>1. GoodBoot(a) /\ ArgumentsFit(a) /\ h = BootInfo(BootFields(a)) /\ a.header_version \in 0..4
  BY ReadComplete, BootComplete
<1>2. Typed(a)
  BY <1>1 DEF GoodBoot
<1>3. /\ h.header_version = a.header_version
      /\ h.second_size = filesize(a.second) /\ h.recovery_dtbo_size = filesize(DtboOf(a))
      /\ h.dtb_size = filesize(DtbOf(a))
  BY <1>1, BootSizes
<1>4. /\ h.os_version \in (Nat \X Nat \X Nat) \cup {None}
      /\ h.os_patch_level \in (Nat \X Nat) \cup {None}
      /\ h.cmdline = a.cmdline
      /\ a.header_version <= 2 => \A k \in 1..4 : h.load[k] \in Int
      /\ a.header_version = 2 => h.dtb_load_address \in Int
  BY <1>1, BootHeaderTyped
<1>5. a.cmdline \in [from : {0}, to : Nat, wide : Nat]
  BY <1>2, OptionsTyped
<1>6. /\ PartsOf(a)["kernel"] = a.kernel /\ PartsOf(a)["ramdisk"] = a.ramdisk
      /\ PartsOf(a)["second"] = a.second /\ PartsOf(a)["recovery_dtbo"] = DtboOf(a)
      /\ PartsOf(a)["dtb"] = DtbOf(a)
  BY <1>1, PartsAre
<1>7. \A p \in {"kernel", "ramdisk", "second", "recovery_dtbo", "dtb"} :
        /\ p \in Part /\ BytesOf(PartsOf(a)[p]) \in File
  <2>1. \A f \in {a.kernel, a.ramdisk, a.second, DtboOf(a), DtbOf(a)} : BytesOf(f) \in File
    BY <1>2, OptionsTyped, FileSizes
  <2>2. QED
    BY <1>6, <2>1 DEF Part
<1>8. outdir["kernel"] \in File /\ outdir["ramdisk"] \in File
  BY <1>7, BootOut
<1>9. /\ h.second_size > 0 => outdir["second"] \in File
      /\ h.recovery_dtbo_size > 0 => outdir["recovery_dtbo"] \in File
      /\ h.dtb_size > 0 => outdir["dtb"] \in File
  <2>1. h.second_size > 0 => filesize(PartsOf(a)["second"]) > 0
    BY <1>3, <1>6
  <2>2. h.recovery_dtbo_size > 0 => filesize(PartsOf(a)["recovery_dtbo"]) > 0
    BY <1>3, <1>6
  <2>3. h.dtb_size > 0 => filesize(PartsOf(a)["dtb"]) > 0
    BY <1>3, <1>6
  <2>4. QED
    BY <1>7, <2>1, <2>2, <2>3, BootOut
<1>10. /\ FileIf(h.second_size > 0, "second") \in File \cup {None}
       /\ FileIf(h.recovery_dtbo_size > 0, "recovery_dtbo") \in File \cup {None}
       /\ FileIf(h.dtb_size > 0, "dtb") \in File \cup {None}
  BY <1>9 DEF FileIf
<1> HIDE DEF a, h, b, c
<1>11. /\ DOMAIN c = Options
       /\ c.header_version = h.header_version /\ c.os_version = h.os_version
       /\ c.os_patch_level = h.os_patch_level /\ c.kernel = outdir["kernel"]
       /\ c.ramdisk = outdir["ramdisk"] /\ c.cmdline = h.cmdline
       /\ c.output = "repacked.img"
       /\ \A o \in Options \ {"header_version", "os_version", "os_patch_level", "kernel",
                              "ramdisk", "cmdline", "output"} : c[o] = Defaults[o]
  BY BootPrinted DEF c
<1>12. /\ c.second = None /\ c.recovery_dtbo = None /\ c.dtb = None /\ c.vendor_ramdisk = None
       /\ c.vendor_bootconfig = None /\ c.base \in Int /\ c.kernel_offset \in Int
       /\ c.ramdisk_offset \in Int /\ c.second_offset \in Int /\ c.dtb_offset \in Int
       /\ c.tags_offset \in Int /\ c.vendor_boot = None /\ c.fragments = << >>
  BY <1>11, DefaultOptions DEF Options
<1>13. "repacked.img" \in Image /\ "repacked.img" # None /\ DOMAIN Defaults = Options
       /\ << >> \in Seq([file : File, type : Int, name : {""} \cup STRING, board_id : Int])
       /\ Len(<< >>) = 0 /\ a.header_version \in Int
  BY <1>1, NoneAssumption, DefaultOptions DEF Image
<1>14. CASE ~(h.header_version <= 2)
  <2>1. b = c
    BY <1>14 DEF b, c, h, format_mkbootimg_argument
  <2>2. {c.kernel, c.ramdisk, c.second, c.recovery_dtbo, c.dtb, c.vendor_ramdisk,
         c.vendor_bootconfig} \subseteq File \cup {None}
    BY <1>8, <1>11, <1>12
  <2>3. {c.base, c.kernel_offset, c.ramdisk_offset, c.second_offset, c.dtb_offset,
         c.tags_offset} \subseteq Int
    BY <1>12
  <2>4. c.os_version \in (Nat \X Nat \X Nat) \cup {None}
        /\ c.os_patch_level \in (Nat \X Nat) \cup {None}
        /\ c.cmdline \in [from : {0}, to : Nat, wide : Nat]
    BY <1>4, <1>5, <1>11
  <2>5. c.output \in Image \cup {None} /\ c.vendor_boot \in Image \cup {None}
        /\ (c.output = None \/ c.output # c.vendor_boot)
    BY <1>11, <1>12, <1>13
  <2>6. c.fragments \in Seq([file : File, type : Int, name : {""} \cup STRING, board_id : Int])
        /\ Len(c.fragments) <= 3 /\ (c.vendor_ramdisk = None \/ Len(c.fragments) <= 2)
    BY <1>12, <1>13
  <2>7. DOMAIN c = DOMAIN Defaults /\ c.header_version \in Int
    BY <1>3, <1>11, <1>13
  <2>8. Typed(c)
    BY <2>2, <2>3, <2>4, <2>5, <2>6, <2>7, Zenon DEF Typed
  <2>9. QED
    BY <2>1, <2>8 DEF b
<1>15. CASE h.header_version <= 2
  <2> DEFINE d == OldBootArguments(h)
  <2>1. b = d
    BY <1>15 DEF b, h, format_mkbootimg_argument, IsBoot
  <2>2. /\ DOMAIN d = Options
        /\ d.second = FileIf(h.second_size > 0, "second")
        /\ d.recovery_dtbo = FileIf(h.recovery_dtbo_size > 0, "recovery_dtbo")
        /\ d.dtb = FileIf(h.dtb_size > 0, "dtb") /\ d.base = 0
        /\ d.kernel_offset = h.load[1] /\ d.ramdisk_offset = h.load[2]
        /\ d.second_offset = h.load[3] /\ d.tags_offset = h.load[4]
        /\ d.dtb_offset = IF h.header_version = 2 THEN h.dtb_load_address
                          ELSE Defaults.dtb_offset
        /\ \A o \in Options \ {"second", "recovery_dtbo", "dtb", "pagesize", "base",
                               "kernel_offset", "ramdisk_offset", "second_offset",
                               "tags_offset", "dtb_offset", "board"} : d[o] = c[o]
    BY OldBootPrinted DEF c
  <2> HIDE DEF d
  <2>3. /\ d.header_version = c.header_version /\ d.kernel = c.kernel /\ d.ramdisk = c.ramdisk
        /\ d.vendor_ramdisk = c.vendor_ramdisk /\ d.vendor_bootconfig = c.vendor_bootconfig
        /\ d.os_version = c.os_version /\ d.os_patch_level = c.os_patch_level
        /\ d.cmdline = c.cmdline /\ d.output = c.output /\ d.vendor_boot = c.vendor_boot
        /\ d.fragments = c.fragments
    BY <2>2 DEF Options
  <2>4. {d.kernel, d.ramdisk, d.second, d.recovery_dtbo, d.dtb, d.vendor_ramdisk,
         d.vendor_bootconfig} \subseteq File \cup {None}
    BY <1>8, <1>10, <1>11, <1>12, <2>2, <2>3
  <2>5. {d.base, d.kernel_offset, d.ramdisk_offset, d.second_offset, d.dtb_offset,
         d.tags_offset} \subseteq Int
    <3>1. \A k \in {1, 2, 3, 4} : h.load[k] \in Int
      BY <1>3, <1>4, <1>15
    <3>2. d.dtb_offset \in Int
      BY <1>3, <1>4, <1>12, <2>2, DefaultOptions
    <3>3. QED
      BY <2>2, <3>1, <3>2
  <2>6. d.os_version \in (Nat \X Nat \X Nat) \cup {None}
        /\ d.os_patch_level \in (Nat \X Nat) \cup {None}
        /\ d.cmdline \in [from : {0}, to : Nat, wide : Nat]
    BY <1>4, <1>5, <1>11, <2>3
  <2>7. d.output \in Image \cup {None} /\ d.vendor_boot \in Image \cup {None}
        /\ (d.output = None \/ d.output # d.vendor_boot)
    BY <1>11, <1>12, <1>13, <2>3
  <2>8. d.fragments \in Seq([file : File, type : Int, name : {""} \cup STRING, board_id : Int])
        /\ Len(d.fragments) <= 3 /\ (d.vendor_ramdisk = None \/ Len(d.fragments) <= 2)
    BY <1>12, <1>13, <2>3
  <2>9. DOMAIN d = DOMAIN Defaults /\ d.header_version \in Int
    BY <1>3, <1>11, <1>13, <2>2, <2>3
  <2>10. Typed(d)
    BY <2>4, <2>5, <2>6, <2>7, <2>8, <2>9, Zenon DEF Typed
  <2>11. QED
    BY <2>1, <2>10 DEF b
<1>16. QED
  BY <1>14, <1>15

\* What is read from the header and the table of a vendor_boot image that is printed again
VendorRead(a, h) ==
  /\ \A k \in {1, 2, 4} : h.load[k] \in Int
  /\ h.dtb_load_address \in Int
  /\ \E n \in 0..3 : DOMAIN h.table = 1..n /\ (a.header_version = 4 => n = Entries(a))
  /\ a.header_version = 3 => h.table = << >>
  /\ \A i \in DOMAIN h.table :
       /\ a.header_version = 4 /\ i \in 1..Entries(a) /\ h.table[i] = EntryOf(a, i)
       /\ h.table[i].type \in Int /\ h.table[i].name \in {""} \cup STRING
       /\ h.table[i].board_id \in Int

LEMMA VendorHeaderTyped ==
  ASSUME NEW a, GoodVendor(a), NEW img, VendorPlaces(a, img)
  PROVE  VendorRead(a, VendorInfo(img))
<1> DEFINE f == img.fields
           h == VendorInfo(img)
<1>1. /\ Typed(a) /\ a.header_version \in {3, 4} /\ a.header_version \in Int
      /\ f = VendorFields(a, BuilderOf(a))
  BY DEF GoodVendor, VendorPlaces
<1>2. /\ a.base + a.kernel_offset \in Int /\ a.base + a.ramdisk_offset \in Int
      /\ a.base + a.tags_offset \in Int /\ a.base + a.dtb_offset \in Int
  BY <1>1, OptionsTyped
<1>3. \A k \in 1..12 : f[k] = VendorFront(a, BuilderOf(a))[k]
  BY <1>1, VendorValues
<1>4. f[4].v \in Int /\ f[5].v \in Int /\ f[8].v \in Int /\ f[12].v \in Int
  BY <1>2, <1>3 DEF VendorFront, Field
<1>5. h.load = <<f[4].v, f[5].v, 0, f[8].v>> /\ h.dtb_load_address = f[12].v
  BY DEF VendorInfo
<1>6. /\ a.header_version = 3 => h.table = << >>
      /\ a.header_version = 4 => h.table = BuilderOf(a).entries
  BY VendorSizes
<1> HIDE DEF f, h
<1>7. Entries(a) \in 0..3 /\ Entries(a) \in 0..Len(RamdisksOf(a)) /\ IsList(BuilderOf(a).entries)
      /\ Len(BuilderOf(a).entries) = Entries(a)
      /\ \A i \in 1..Entries(a) : BuilderOf(a).entries[i] = EntryOf(a, i)
  BY <1>1, BuilderTyped
<1>8. DOMAIN BuilderOf(a).entries = 1..Entries(a)
  BY <1>7 DEF IsList
<1>9. \E n \in 0..3 : DOMAIN h.table = 1..n /\ (a.header_version = 4 => n = Entries(a))
  <2>1. CASE a.header_version = 3
    <3>1. DOMAIN h.table = 1..0
      BY <1>6, <2>1
    <3>2. QED
      BY <2>1, <3>1
  <2>2. CASE a.header_version = 4
    BY <1>6, <1>7, <1>8, <2>2
  <2>3. QED
    BY <1>1, <2>1, <2>2
<1>10. ASSUME NEW i \in DOMAIN h.table
       PROVE  /\ a.header_version = 4 /\ i \in 1..Entries(a) /\ h.table[i] = EntryOf(a, i)
              /\ h.table[i].type \in Int /\ h.table[i].name \in {""} \cup STRING
              /\ h.table[i].board_id \in Int
  <2>1. a.header_version = 4
    <3>1. a.header_version = 3 => DOMAIN h.table = {}
      BY <1>6
    <3>2. QED
      BY <1>1, <3>1
  <2>2. i \in 1..Entries(a) /\ h.table[i] = EntryOf(a, i)
    BY <1>6, <1>7, <1>8, <2>1
  <2>3. RamdisksOf(a) \in Seq(Ramdisk) /\ i \in 1..Len(RamdisksOf(a))
    <3>1. RamdisksOf(a) \in Seq(Ramdisk) /\ Len(RamdisksOf(a)) \in 0..3
      BY <1>1, RamdisksTyped
    <3> DEFINE n == Len(RamdisksOf(a))
    <3>2. n \in 0..3 /\ Entries(a) \in 0..n /\ i \in 1..Entries(a)
      BY <1>7, <2>2, <3>1
    <3> HIDE DEF n
    <3>3. i \in 1..n
      BY <3>2
    <3>4. QED
      BY <3>1, <3>3 DEF n
  <2>4. RamdisksOf(a)[i] \in Ramdisk
    BY <2>3, ElementsOf
  <2>5. EntryOf(a, i).type \in Int /\ EntryOf(a, i).name \in {""} \cup STRING
        /\ EntryOf(a, i).board_id \in Int
    BY <2>4 DEF EntryOf, Ramdisk
  <2>6. QED
    BY <2>1, <2>2, <2>5
<1>11. \A k \in {1, 2, 4} : h.load[k] \in Int
  BY <1>4, <1>5
<1>12. h.dtb_load_address \in Int /\ (a.header_version = 3 => h.table = << >>)
  BY <1>4, <1>5, <1>6
<1>13. VendorRead(a, h)
  BY <1>9, <1>10, <1>11, <1>12, Zenon DEF VendorRead
<1>14. QED
  BY <1>13 DEF h

\* The job that is printed for a vendor_boot image
LEMMA VendorPrintedTyped ==
  ASSUME ReadInv, pc \notin {"unpack", "extract"}, info # None, ~IsBoot(info.of)
  PROVE  Typed(format_mkbootimg_argument)
<1> DEFINE a == info.job.job
           h == info.header
           img == info.of
           d == VendorArguments(h)
           Frag == [file : File, type : Int, name : {""} \cup STRING, board_id : Int]
           parts == [i \in DOMAIN h.table |-> Fragment(h.table[i], i)]
<1>1. GoodVendor(a) /\ VendorPlaces(a, img) /\ h = VendorInfo(img)
  BY ReadComplete, VendorComplete
<1>2. Typed(a) /\ a.header_version \in {3, 4} /\ filesize(a.dtb) > 0
  BY <1>1 DEF GoodVendor
<1>3. h.header_version = a.header_version /\ h.dtb_size = filesize(a.dtb)
  BY <1>1, VendorSizes
<1>4. VendorRead(a, h)
  BY <1>1, VendorHeaderTyped
<1>5. /\ outdir["dtb"] = BytesOf(a.dtb)
      /\ a.header_version = 3 => outdir["vendor_ramdisk"] = BytesOf(a.vendor_ramdisk)
      /\ a.header_version = 4 =>
           /\ outdir["bootconfig"] = BytesOf(a.vendor_bootconfig)
           /\ \A i \in 1..Entries(a) : outdir[RamdiskFile[i]] = BytesOf(EntryOf(a, i).file)
  BY VendorOut
<1>6. BytesOf(a.dtb) \in File /\ BytesOf(a.vendor_ramdisk) \in File
      /\ BytesOf(a.vendor_bootconfig) \in File
  BY <1>2, OptionsTyped
<1>7. \A i \in 1..Entries(a) : BytesOf(EntryOf(a, i).file) \in File
  BY <1>2, BuilderTyped, FileSizes
<1> HIDE DEF a, h, img
<1>8. /\ FileIf(h.dtb_size > 0, "dtb") \in File \cup {None}
      /\ FileIf(h.header_version > 3, "bootconfig") \in File \cup {None}
      /\ FileIf(h.header_version <= 3, "vendor_ramdisk") \in File \cup {None}
  BY <1>2, <1>3, <1>5, <1>6 DEF FileIf
<1>9. ASSUME NEW i \in DOMAIN h.table PROVE Fragment(h.table[i], i) \in Frag
  <2>1. /\ a.header_version = 4 /\ i \in 1..Entries(a)
        /\ h.table[i].type \in Int /\ h.table[i].name \in {""} \cup STRING
        /\ h.table[i].board_id \in Int
    BY <1>4, Zenon DEF VendorRead
  <2>2. outdir[RamdiskFile[i]] \in File
    BY <1>5, <1>7, <2>1
  <2>3. QED
    BY <2>1, <2>2 DEF Fragment
<1>10. parts \in Seq(Frag) /\ Len(parts) \in 0..3 /\ (a.header_version = 3 => Len(parts) = 0)
  <2>1. PICK n \in 0..3 : DOMAIN h.table = 1..n /\ (a.header_version = 3 => n = 0)
    <3>1. CASE a.header_version = 3
      <4>1. DOMAIN h.table = 1..0
        BY <1>4, <3>1 DEF VendorRead
      <4>2. QED
        BY <4>1
    <3>2. CASE a.header_version # 3
      <4>1. \E n \in 0..3 : DOMAIN h.table = 1..n
        BY <1>4, Zenon DEF VendorRead
      <4>2. QED
        BY <3>2, <4>1, Zenon
    <3>3. QED
      BY <3>1, <3>2
  <2>2. parts \in [DOMAIN h.table -> Frag]
    <3> HIDE DEF Frag
    <3>1. QED
      BY <1>9
  <2> HIDE DEF parts, Frag
  <2>3. parts \in [1..n -> Frag] /\ n \in Nat
    BY <2>1, <2>2
  <2>4. parts \in Seq(Frag) /\ Len(parts) = n
    BY <2>3, FunctionIsSeq, Zenon
  <2>5. QED
    BY <2>1, <2>4
<1>11. a.header_version = 4 => FileIf(h.header_version <= 3, "vendor_ramdisk") = None
  BY <1>3 DEF FileIf
<1> HIDE DEF d, parts
<1>12. /\ DOMAIN d = Options
       /\ d.header_version = h.header_version /\ d.base = 0
       /\ d.kernel_offset = h.load[1] /\ d.ramdisk_offset = h.load[2]
       /\ d.tags_offset = h.load[4] /\ d.dtb_offset = h.dtb_load_address
       /\ d.dtb = FileIf(h.dtb_size > 0, "dtb")
       /\ d.vendor_bootconfig = FileIf(h.header_version > 3, "bootconfig")
       /\ d.vendor_ramdisk = FileIf(h.header_version <= 3, "vendor_ramdisk")
       /\ d.fragments = parts /\ d.vendor_boot = "repacked.img"
       /\ \A o \in Options \ {"header_version", "pagesize", "base", "kernel_offset",
                              "ramdisk_offset", "tags_offset", "dtb_offset",
                              "vendor_cmdline", "board", "dtb", "vendor_bootconfig",
                              "vendor_ramdisk", "fragments", "vendor_boot"} :
            d[o] = Defaults[o]
  BY VendorPrinted DEF d, parts
<1>13. /\ d.kernel = None /\ d.ramdisk = None /\ d.second = None /\ d.recovery_dtbo = None
       /\ d.second_offset \in Int /\ d.os_version = None /\ d.os_patch_level = None
       /\ d.cmdline = NoText /\ d.output = None
  <2> DEFINE Given == {"header_version", "pagesize", "base", "kernel_offset",
                       "ramdisk_offset", "tags_offset", "dtb_offset",
                       "vendor_cmdline", "board", "dtb", "vendor_bootconfig",
                       "vendor_ramdisk", "fragments", "vendor_boot"}
  <2>1. {"kernel", "ramdisk", "second", "recovery_dtbo", "second_offset", "os_version",
         "os_patch_level", "cmdline", "output"} \subseteq Options \ Given
    BY DEF Options
  <2>2. \A o \in Options \ Given : d[o] = Defaults[o]
    BY <1>12
  <2> HIDE DEF Given
  <2>3. /\ d.kernel = Defaults.kernel /\ d.ramdisk = Defaults.ramdisk
        /\ d.second = Defaults.second /\ d.recovery_dtbo = Defaults.recovery_dtbo
        /\ d.second_offset = Defaults.second_offset /\ d.os_version = Defaults.os_version
        /\ d.os_patch_level = Defaults.os_patch_level /\ d.cmdline = Defaults.cmdline
        /\ d.output = Defaults.output
    BY <2>1, <2>2
  <2>4. QED
    BY <2>3, DefaultOptions
<1>14. {d.kernel, d.ramdisk, d.second, d.recovery_dtbo, d.dtb, d.vendor_ramdisk,
        d.vendor_bootconfig} \subseteq File \cup {None}
  BY <1>8, <1>12, <1>13
<1>15. {d.base, d.kernel_offset, d.ramdisk_offset, d.second_offset, d.dtb_offset,
        d.tags_offset} \subseteq Int
  <2>1. h.load[1] \in Int /\ h.load[2] \in Int /\ h.load[4] \in Int /\ h.dtb_load_address \in Int
    BY <1>4 DEF VendorRead
  <2>2. QED
    BY <1>12, <1>13, <2>1
<1>16. d.os_version \in (Nat \X Nat \X Nat) \cup {None}
       /\ d.os_patch_level \in (Nat \X Nat) \cup {None}
       /\ d.cmdline \in [from : {0}, to : Nat, wide : Nat]
  BY <1>13 DEF NoText
<1>17. d.output \in Image \cup {None} /\ d.vendor_boot \in Image \cup {None}
       /\ (d.output = None \/ d.output # d.vendor_boot)
  BY <1>12, <1>13 DEF Image
<1>18. d.fragments \in Seq(Frag) /\ Len(d.fragments) <= 3
       /\ (d.vendor_ramdisk = None \/ Len(d.fragments) <= 2)
  <2> DEFINE n == Len(parts)
  <2>1. n \in 0..3 /\ (a.header_version = 3 => n = 0)
    BY <1>10
  <2>2. parts \in Seq(Frag) /\ d.fragments = parts
    BY <1>10, <1>12
  <2>3. a.header_version = 4 => d.vendor_ramdisk = None
    BY <1>11, <1>12
  <2> HIDE DEF Frag, n
  <2>4. n <= 3 /\ (d.vendor_ramdisk = None \/ n <= 2)
    BY <1>2, <2>1, <2>3
  <2>5. QED
    BY <2>2, <2>4, Zenon DEF n
<1>19. DOMAIN d = DOMAIN Defaults /\ d.header_version \in Int
  BY <1>2, <1>3, <1>12, DefaultOptions
<1>20. Typed(d)
  BY <1>14, <1>15, <1>16, <1>17, <1>18, <1>19, Zenon DEF Typed
<1>21. QED
  BY <1>20 DEF d, h, format_mkbootimg_argument

\* The user builds an image again from what was printed.
LEMMA RepackTrip ==
  ASSUME ImagesInv, TripInv, Repack
  PROVE  TripInv'
<1>1. /\ pc = "idle" /\ UNCHANGED <<disk, made, unpack>> /\ pc' = "parse"
      /\ pc \notin VendorPhase \cup BootPhase \cup {"unpack", "extract"}
      /\ pc' \notin Building \cup VendorPhase \cup BootPhase \cup {"unpack", "extract"}
      /\ job' = format_mkbootimg_argument /\ info # None
  BY DEF Repack, unpack, Building, VendorPhase, BootPhase
<1>2. \A n \in Image : ContentInv(n)'
  BY <1>1, ContentKept DEF TripInv
<1>3. OutputInv' /\ StageInv'
  BY <1>1 DEF OutputInv, StageInv, Building
<1>4. ReadInv' /\ ListInv'
  BY <1>1, ReadKept DEF TripInv
<1>5. Typed(format_mkbootimg_argument)
  <2>1. ReadInv
    BY DEF TripInv
  <2>2. QED
    BY <1>1, <2>1, BootPrintedTyped, VendorPrintedTyped
<1>6. BuilderInv'
  BY <1>1, <1>5 DEF BuilderInv
<1>7. QED
  BY <1>2, <1>3, <1>4, <1>6 DEF TripInv

-------------------------------------------------------------------------------
(* The steps of unpack_bootimg.py                                              *)

\* What unpack_bootimg.py lists of a complete image: files of the output directory,
\* each once.
NamedOnce(items) ==
    \A t \in items : t.name \in OutFile /\ \A u \in items : u.name = t.name => u = t

LEMMA BootNames == ASSUME NEW h PROVE NamedOnce(BootItems(h))
<1>1. \A x, y, n : ItemAt(x, y, n).name = n
  BY DEF ItemAt
<1>2. {"kernel", "ramdisk", "second", "recovery_dtbo", "dtb", "boot_signature"} \subseteq OutFile
  BY DEF OutFile, Part
<1>3. PICK x1, y1, x2, y2, x3, y3, x4, y4, x5, y5, x6, y6 :
        BootItems(h) \subseteq {ItemAt(x1, y1, "kernel"), ItemAt(x2, y2, "ramdisk"),
                                ItemAt(x3, y3, "second"), ItemAt(x4, y4, "recovery_dtbo"),
                                ItemAt(x5, y5, "dtb"), ItemAt(x6, y6, "boot_signature")}
  <2> DEFINE pages(size) == get_number_of_pages(size, h.page_size)
             kernel == pages(h.kernel_size)
             ramdisk == pages(h.ramdisk_size)
             second == pages(h.second_size)
             dtbo == pages(h.recovery_dtbo_size)
  <2>1. BootItems(h) \subseteq
          {ItemAt(h.page_size, h.kernel_size, "kernel"),
           ItemAt(h.page_size * (1 + kernel), h.ramdisk_size, "ramdisk"),
           ItemAt(h.page_size * (1 + kernel + ramdisk), h.second_size, "second"),
           ItemAt(h.recovery_dtbo_offset, h.recovery_dtbo_size, "recovery_dtbo"),
           ItemAt(h.page_size * (1 + kernel + ramdisk + second + dtbo), h.dtb_size, "dtb"),
           ItemAt(h.page_size * (1 + kernel + ramdisk), h.boot_signature_size,
                  "boot_signature")}
    BY DEF BootItems
  <2> HIDE DEF pages, kernel, ramdisk, second, dtbo
  <2>2. QED
    BY <2>1, Zenon
<1>4. QED
  BY <1>1, <1>2, <1>3 DEF NamedOnce

LEMMA VendorNames ==
  ASSUME NEW h, NEW n \in 0..3, DOMAIN h.table = 1..n
  PROVE  NamedOnce(VendorItems(h))
<1>1. \A x, y, m : ItemAt(x, y, m).name = m
  BY DEF ItemAt
<1>2. /\ RamdiskFile[1] = "vendor_ramdisk00" /\ RamdiskFile[2] = "vendor_ramdisk01"
      /\ RamdiskFile[3] = "vendor_ramdisk02"
  BY DEF RamdiskFile
<1>3. {"vendor_ramdisk00", "vendor_ramdisk01", "vendor_ramdisk02", "dtb", "bootconfig",
       "vendor_ramdisk"} \subseteq OutFile
  BY <1>2 DEF OutFile, Part, RamdiskFile
<1>4. \A i \in 1..n : i \in {1, 2, 3}
  OBVIOUS
<1> DEFINE pages(size) == get_number_of_pages(size, h.page_size)
           header == pages(h.header_size)
           ramdisk == pages(h.vendor_ramdisk_size)
           dtb == pages(h.dtb_size)
           place(i) == ItemAt(h.page_size * header + h.table[i].offset, h.table[i].size,
                              RamdiskFile[i])
           conf == ItemAt(h.page_size * (header + ramdisk + dtb + pages(h.table_size)),
                          h.bootconfig_size, "bootconfig")
           ram == ItemAt(h.page_size * header, h.vendor_ramdisk_size, "vendor_ramdisk")
           tree == ItemAt(h.page_size * (header + ramdisk), h.dtb_size, "dtb")
<1>5. VendorItems(h) \subseteq {place(i) : i \in 1..n} \cup {conf, ram, tree}
  BY DEF VendorItems
<1>6. conf.name = "bootconfig" /\ ram.name = "vendor_ramdisk" /\ tree.name = "dtb"
      /\ \A i \in 1..n : place(i).name = RamdiskFile[i]
  BY <1>1
<1> HIDE DEF place, conf, ram, tree
<1>7. \A i \in 1..n : /\ place(i).name \in OutFile
                      /\ place(i).name \notin {"bootconfig", "vendor_ramdisk", "dtb"}
                      /\ \A j \in 1..n : place(i).name = place(j).name => i = j
  BY <1>2, <1>3, <1>4, <1>6
<1>8. \A t \in {place(i) : i \in 1..n} \cup {conf, ram, tree} :
        t.name \in OutFile /\ \A u \in {place(i) : i \in 1..n} \cup {conf, ram, tree} :
                                u.name = t.name => u = t
  BY <1>3, <1>6, <1>7
<1>9. QED
  BY <1>5, <1>8 DEF NamedOnce

\* What is read from a complete image
HeaderOf(img) == IF IsBoot(img) THEN BootInfo(img.fields) ELSE VendorInfo(img)
LEMMA ListsParts ==
  ASSUME NEW img, NEW by, CompleteBoot(img, by) \/ CompleteVendor(img, by)
  PROVE  LET h == HeaderOf(img)
             q == IF IsBoot(img) THEN BootImageList(h) ELSE VendorImageList(h)
             items == IF IsBoot(img) THEN BootItems(h) ELSE VendorItems(h)
         IN  IsList(q) /\ ItemsOf(q) = items /\ NamedOnce(items)
<1>1. CASE CompleteBoot(img, by)
  <2>1. IsBoot(img)
    BY <1>1, BootComplete
  <2>2. QED
    BY <2>1, BootListed, BootNames
<1>2. CASE CompleteVendor(img, by)
  <2> DEFINE h == VendorInfo(img)
  <2>1. ~IsBoot(img) /\ GoodVendor(by.job) /\ VendorPlaces(by.job, img)
    BY <1>2, VendorComplete
  <2>2. VendorRead(by.job, h)
    BY <2>1, VendorHeaderTyped
  <2> HIDE DEF h
  <2>3. PICK n \in 0..3 : DOMAIN h.table = 1..n
    BY <2>2, Zenon DEF VendorRead
  <2>4. NamedOnce(VendorItems(h))
    BY <2>3, VendorNames
  <2>5. n \in Nat
    OBVIOUS
  <2>6. IsList(VendorImageList(h)) /\ ItemsOf(VendorImageList(h)) = VendorItems(h)
    BY <2>3, <2>5, VendorListed
  <2>7. HeaderOf(img) = h
    BY <2>1 DEF HeaderOf, h
  <2>8. QED
    BY <2>1, <2>4, <2>6, <2>7
<1>3. QED
  BY <1>1, <1>2

\* The header is read, or refused because it is cut short.
LEMMA ReadHeaderTrip ==
  ASSUME ImagesInv, TripInv, ReadHeader
  PROVE  TripInv'
<1>1. /\ pc = "unpack" /\ UNCHANGED <<disk, made, job, outdir, links>>
      /\ pc' \in {"idle", "extract"}
      /\ pc \notin VendorPhase \cup BootPhase
      /\ pc' \notin Building \cup VendorPhase \cup BootPhase \cup {"unpack", "parse"}
  BY DEF ReadHeader, mk, Building, VendorPhase, BootPhase
<1>2. \A n \in Image : ContentInv(n)'
  BY <1>1, ContentKept DEF TripInv
<1>3. BuilderInv' /\ OutputInv' /\ StageInv'
  BY <1>1 DEF BuilderInv, OutputInv, StageInv
<1>4. DOMAIN outdir = OutFile
  BY DEF TripInv, ListInv
<1>5. CASE ~Readable(Source)
  <2>1. info' = None /\ pc' = "idle"
    BY <1>5 DEF ReadHeader
  <2>2. ReadInv' /\ ListInv'
    BY <1>1, <1>4, <2>1 DEF ReadInv, ListInv
  <2>3. QED
    BY <1>2, <1>3, <2>2 DEF TripInv
<1>6. CASE Readable(Source)
  <2>1. Name \in Image /\ made[Name] # None /\ IsJob(made[Name].job)
    BY <1>1 DEF ImagesInv, InfoInv, Name, ImageInv
  <2>2. /\ ContentInv(Name) /\ ~CutShort(disk[Name].fields, Name, made[Name].job)
        /\ ~CutInTable(disk[Name], made[Name])
    BY <1>6, <2>1, CutNotReadable, CutTableRefused DEF TripInv, Source
  <2>3. PICK img, by, name : img = Source /\ by = made[Name] /\ name = Name
    OBVIOUS
  <2>4. CompleteBoot(img, by) \/ CompleteVendor(img, by)
    BY <1>1, <2>1, <2>2, <2>3 DEF ContentInv, Source
  <2>5. PICK h, q, items :
          /\ h = HeaderOf(img)
          /\ q = IF IsBoot(img) THEN BootImageList(h) ELSE VendorImageList(h)
          /\ items = IF IsBoot(img) THEN BootItems(h) ELSE VendorItems(h)
    OBVIOUS
  <2>6. IsList(q) /\ ItemsOf(q) = items
    BY <2>4, <2>5, ListsParts
  <2>7. /\ info' = [image |-> name, header |-> h, of |-> img, job |-> by]
        /\ todo' = q /\ pc' = "extract"
    BY <1>6, <2>3, <2>5 DEF ReadHeader, HeaderOf
  <2>8. info'.image = name /\ info'.header = h /\ info'.of = img /\ info'.job = by
    BY <2>7
  <2>9. ListOf(info') = items
    BY <2>5, <2>8 DEF ListOf
  <2>10. ListInv'
    <3>1. Source' = img
      BY <1>1, <2>3, <2>8 DEF Source, Name
    <3>2. ~IsBoot(img) => DOMAIN h.table \subseteq 1..3
      <4>1. SUFFICES ASSUME ~IsBoot(img) PROVE DOMAIN h.table \subseteq 1..3
        OBVIOUS
      <4>2. CompleteVendor(img, by) /\ h = VendorInfo(img)
        BY <2>4, <2>5, <4>1, BootComplete DEF HeaderOf
      <4>3. VendorRead(by.job, h)
        BY <4>2, VendorComplete, VendorHeaderTyped
      <4>4. \E n \in 0..3 : DOMAIN h.table = 1..n
        BY <4>3, Zenon DEF VendorRead
      <4>5. QED
        BY <4>4
    <3>3. QED
      BY <1>1, <1>4, <2>1, <2>3, <2>6, <2>7, <2>8, <2>9, <3>1, <3>2
         DEF ListInv, ListOf, IsBoot, Magic
  <2>11. ReadInv'
    BY <2>4, <2>5, <2>6, <2>7, <2>8, <2>9
       DEF ReadInv, ListOf, HeaderOf, CompleteBoot, CompleteVendor, GoodBoot, GoodVendor
  <2>12. QED
    BY <1>2, <1>3, <2>10, <2>11 DEF TripInv
<1>7. QED
  BY <1>5, <1>6

\* What a step of extract_image() and the links keeps
LEMMA UnpackKept ==
  ASSUME TripInv, pc = "extract", pc' \in {"idle", "extract"}, UNCHANGED <<disk, made, job, info>>
  PROVE  /\ \A n \in Image : ContentInv(n)'
         /\ BuilderInv' /\ OutputInv' /\ StageInv'
<1>1. pc \notin VendorPhase \cup BootPhase
      /\ pc' \notin Building \cup VendorPhase \cup BootPhase \cup {"unpack", "parse"}
  BY DEF Building, VendorPhase, BootPhase
<1>2. \A n \in Image : ContentInv(n)'
  BY <1>1, ContentKept DEF TripInv
<1>3. BuilderInv' /\ OutputInv' /\ StageInv'
  BY <1>1 DEF BuilderInv, OutputInv, StageInv
<1>4. QED
  BY <1>2, <1>3

\* A part is extracted into the file of its name, which no other part has.
LEMMA ExtractTrip ==
  ASSUME TripInv, ExtractImage
  PROVE  TripInv'
<1>1. /\ pc = "extract" /\ pc' = "extract" /\ todo # << >>
      /\ UNCHANGED <<disk, made, job, info, links>> /\ todo' = Tail(todo)
  BY DEF ExtractImage, mk
<1>2. /\ DOMAIN outdir = OutFile /\ info.image \in Image /\ Source = info.of
      /\ IsList(todo) /\ ItemsOf(todo) \subseteq ListOf(info)
  BY <1>1 DEF TripInv, ListInv
<1>3. PICK t : t = Head(todo)
  OBVIOUS
<1>4. outdir' = [outdir EXCEPT ![t.name] = Read(info.of, t.off, t.size)]
  BY <1>2, <1>3 DEF ExtractImage
<1>5. IsList(todo') /\ ItemsOf(todo) = {t} \cup ItemsOf(todo')
  <2>1. PICK R : todo \in Seq(R)
    BY <1>2 DEF IsList
  <2>2. Tail(todo) \in Seq(R)
    BY <1>1, <2>1
  <2>3. PICK n \in Nat : n = Len(todo) /\ n > 0
    BY <1>1, <2>1
  <2>4. DOMAIN todo = 1..n /\ todo[1] = t
    BY <1>3, <2>1, <2>3
  <2>5. DOMAIN todo' = 1..n - 1 /\ \A i \in 1..n - 1 : todo'[i] = todo[i + 1]
    BY <1>1, <2>1, <2>3
  <2>6. \A i \in 1..n : i = 1 \/ (i - 1 \in 1..n - 1 /\ (i - 1) + 1 = i)
    BY <2>3
  <2>7. \A i \in 1..n - 1 : i + 1 \in 1..n
    BY <2>3
  <2>8. 1 \in 1..n
    BY <2>3
  <2>9. ASSUME NEW u \in ItemsOf(todo) PROVE u \in {t} \cup ItemsOf(todo')
    <3>1. PICK i \in 1..n : u = todo[i]
      BY <2>4 DEF ItemsOf
    <3>2. CASE i = 1
      BY <2>4, <3>1, <3>2
    <3>3. CASE i # 1
      <4>1. PICK j \in 1..n - 1 : j + 1 = i
        BY <2>6, <3>3
      <4>2. QED
        BY <2>5, <3>1, <4>1 DEF ItemsOf
    <3>4. QED
      BY <3>2, <3>3
  <2>10. t \in ItemsOf(todo)
    BY <2>4, <2>8 DEF ItemsOf
  <2>11. ASSUME NEW u \in ItemsOf(todo') PROVE u \in ItemsOf(todo)
    <3>1. PICK i \in 1..n - 1 : u = todo'[i]
      BY <2>5 DEF ItemsOf
    <3>2. QED
      BY <2>4, <2>5, <2>7, <3>1 DEF ItemsOf
  <2>12. QED
    BY <1>1, <2>2, <2>9, <2>10, <2>11 DEF IsList
<1>6. info # None =>
        /\ CompleteBoot(info.of, info.job) \/ CompleteVendor(info.of, info.job)
        /\ info.header = HeaderOf(info.of)
        /\ \A u \in ListOf(info) : \/ u \in ItemsOf(todo)
                                   \/ outdir[u.name] = Read(info.of, u.off, u.size)
  BY <1>1 DEF TripInv, ReadInv, HeaderOf
<1>7. info # None => NamedOnce(ListOf(info))
  BY <1>6, ListsParts DEF ListOf
<1>8. info # None =>
        \A u \in ListOf(info) : \/ u \in ItemsOf(todo')
                                \/ outdir'[u.name] = Read(info.of, u.off, u.size)
  <2>1. SUFFICES ASSUME info # None, NEW u \in ListOf(info), u \notin ItemsOf(todo')
                 PROVE  outdir'[u.name] = Read(info.of, u.off, u.size)
    OBVIOUS
  <2>2. t \in ListOf(info) /\ t.name \in OutFile /\ u.name \in OutFile
        /\ (u.name = t.name => u = t)
    BY <1>2, <1>5, <1>7, <2>1 DEF NamedOnce
  <2>3. CASE u = t
    BY <1>2, <1>4, <2>2, <2>3
  <2>4. CASE u # t
    <3>1. outdir[u.name] = Read(info.of, u.off, u.size)
      BY <1>5, <1>6, <2>1, <2>4
    <3>2. outdir'[u.name] = outdir[u.name]
      BY <1>2, <1>4, <2>2, <2>4
    <3>3. QED
      BY <3>1, <3>2
  <2>5. QED
    BY <2>3, <2>4
<1>9. ReadInv'
  BY <1>1, <1>6, <1>8
     DEF ReadInv, ListOf, HeaderOf, CompleteBoot, CompleteVendor, GoodBoot, GoodVendor
<1>10. ListInv'
  <2>1. Source' = info'.of
    BY <1>1, <1>2 DEF Source, Name
  <2>2. DOMAIN outdir' = OutFile
    BY <1>2, <1>4
  <2>3. ItemsOf(todo') \subseteq ListOf(info')
    BY <1>1, <1>2, <1>5
  <2>4. ~IsBoot(info.of) => DOMAIN info.header.table \subseteq 1..3
    BY <1>1 DEF TripInv, ListInv
  <2>5. QED
    BY <1>1, <1>2, <1>5, <2>1, <2>2, <2>3, <2>4 DEF ListInv, ListOf, IsBoot, Magic
<1>11. QED
  BY <1>1, <1>9, <1>10, UnpackKept DEF TripInv

\* The names of the ramdisks of a version-4 vendor_boot image differ, since
\* add_entry() refuses one that is taken.
LEMMA TableNames ==
  ASSUME NEW img, NEW by, CompleteVendor(img, by)
  PROVE  LET table == VendorInfo(img).table
         IN  \A i, j \in DOMAIN table : table[i].name = table[j].name => i = j
<1> DEFINE a == by.job
           h == VendorInfo(img)
<1>1. GoodVendor(a) /\ VendorPlaces(a, img)
  BY VendorComplete
<1>2. VendorRead(a, h)
  BY <1>1, VendorHeaderTyped
<1>3. NoneRefused(a, Entries(a)) /\ Typed(a)
  BY <1>1 DEF GoodVendor
<1>4. Entries(a) \in 0..3
  BY <1>3, BuilderTyped
<1> HIDE DEF h
<1>5. ASSUME NEW i \in DOMAIN h.table
      PROVE  i \in 1..Entries(a) /\ h.table[i].name = RamdisksOf(a)[i].name
  <2>1. i \in 1..Entries(a) /\ h.table[i] = EntryOf(a, i)
    BY <1>2, Zenon DEF VendorRead
  <2>2. EntryOf(a, i).name = RamdisksOf(a)[i].name
    BY DEF EntryOf
  <2>3. QED
    BY <2>1, <2>2
<1> HIDE DEF a
<1>6. ASSUME NEW i \in DOMAIN h.table, NEW j \in DOMAIN h.table, h.table[i].name = h.table[j].name
      PROVE  i = j
  <2> DEFINE n == Entries(a)
  <2>1. i \in 1..n /\ j \in 1..n /\ RamdisksOf(a)[i].name = RamdisksOf(a)[j].name
    BY <1>5, <1>6
  <2>2. /\ \A k \in 1..i - 1 : RamdisksOf(a)[k].name # RamdisksOf(a)[i].name
        /\ \A k \in 1..j - 1 : RamdisksOf(a)[k].name # RamdisksOf(a)[j].name
    BY <1>3, <2>1 DEF NoneRefused
  <2>3. n \in Nat
    BY <1>4
  <2> HIDE DEF n
  <2>4. CASE i < j
    <3>1. i \in 1..j - 1
      BY <2>1, <2>3, <2>4
    <3>2. QED
      BY <2>1, <2>2, <3>1
  <2>5. CASE j < i
    <3>1. j \in 1..i - 1
      BY <2>1, <2>3, <2>5
    <3>2. QED
      BY <2>1, <2>2, <3>1
  <2>6. QED
    BY <2>1, <2>3, <2>4, <2>5
<1>7. QED
  BY <1>6 DEF h

\* The links of a version-4 vendor_boot image lead to its ramdisks.
LEMMA LinkTrip ==
  ASSUME TripInv, LinkAndPrint
  PROVE  TripInv'
<1>1. /\ pc = "extract" /\ pc' = "idle" /\ todo = << >>
      /\ UNCHANGED <<disk, made, job, info, outdir>>
  BY DEF LinkAndPrint, mk
<1>2. /\ DOMAIN outdir = OutFile /\ Source = info.of
  BY <1>1 DEF TripInv, ListInv
<1>3. links' = IF ~IsBoot(info.of) /\ info.header.header_version > 3
               THEN Linked(info.header.table) ELSE links
  BY <1>2 DEF LinkAndPrint
<1>4. info # None =>
        /\ CompleteBoot(info.of, info.job) \/ CompleteVendor(info.of, info.job)
        /\ info.header = HeaderOf(info.of)
        /\ \A u \in ListOf(info) : outdir[u.name] = Read(info.of, u.off, u.size)
  <2>1. ItemsOf(todo) = {}
    BY <1>1 DEF ItemsOf
  <2>2. QED
    BY <1>1, <2>1 DEF TripInv, ReadInv, HeaderOf
<1>5. ASSUME info # None, ~IsBoot(info.of)
      PROVE  \A i \in DOMAIN info.header.table :
               LET name == info.header.table[i].name
               IN  name \in DOMAIN links' /\ links'[name] = RamdiskFile[i]
  <2>1. CompleteVendor(info.of, info.job) /\ info.header = VendorInfo(info.of)
    BY <1>4, <1>5, BootComplete DEF HeaderOf
  <2>2. PICK table, a, h : table = info.header.table /\ a = info.job.job /\ h = info.header
    OBVIOUS
  <2>3. \A i, j \in DOMAIN table : table[i].name = table[j].name => i = j
    BY <2>1, <2>2, TableNames
  <2>4. GoodVendor(a) /\ VendorPlaces(a, info.of)
    BY <2>1, <2>2, VendorComplete
  <2>5. VendorRead(a, h) /\ h.header_version = a.header_version /\ a.header_version \in {3, 4}
    BY <2>1, <2>2, <2>4, VendorHeaderTyped, VendorSizes DEF GoodVendor
  <2>6. a.header_version = 3 => DOMAIN table = {}
    BY <2>2, <2>5 DEF VendorRead
  <2>7. CASE a.header_version = 4
    <3>1. links' = Linked(table)
      BY <1>3, <1>5, <2>2, <2>5, <2>7
    <3>2. ASSUME NEW i \in DOMAIN table
          PROVE  table[i].name \in DOMAIN links' /\ links'[table[i].name] = RamdiskFile[i]
      <4>1. table[i].name \in DOMAIN links \cup {table[k].name : k \in DOMAIN table}
        OBVIOUS
      <4>2. (CHOOSE k \in DOMAIN table : table[k].name = table[i].name) = i
        BY <2>3
      <4>3. QED
        BY <3>1, <4>1, <4>2 DEF Linked
    <3>3. QED
      BY <2>2, <3>2
  <2>8. QED
    BY <2>2, <2>5, <2>6, <2>7
<1>6. ReadInv'
  BY <1>1, <1>4, <1>5
     DEF ReadInv, ListOf, HeaderOf, CompleteBoot, CompleteVendor, GoodBoot, GoodVendor
<1>7. ListInv'
  BY <1>1, <1>2 DEF ListInv
<1>8. QED
  BY <1>1, <1>6, <1>7, UnpackKept DEF TripInv

-------------------------------------------------------------------------------
(* The invariant                                                               *)

LEMMA TripInit ==
  ASSUME Init
  PROVE  TripInv
<1>1. /\ pc = "idle" /\ info = None /\ made = [n \in Image |-> None]
      /\ outdir = [n \in OutFile |-> None]
  BY DEF Init
<1>2. BuilderInv /\ OutputInv /\ StageInv
  BY <1>1 DEF BuilderInv, OutputInv, StageInv, Building, VendorPhase, BootPhase
<1>3. \A n \in Image : ContentInv(n)
  BY DEF Init, ContentInv
<1>4. ReadInv /\ ListInv
  BY <1>1 DEF ReadInv, ListInv
<1>5. QED
  BY <1>2, <1>3, <1>4 DEF TripInv

LEMMA TripStep ==
  ASSUME ImagesInv, TripInv, [Next]_vars
  PROVE  TripInv'
<1>1. CASE Build \/ Unpack
  BY <1>1, BuildTrip
<1>2. CASE Repack
  BY <1>2, RepackTrip
<1>3. CASE MkbootimgStep
  <2>1. CASE UsageError \/ ParseCmdline
    BY <2>1, ParseTrip
  <2>2. CASE AddEntry \/ EntriesAdded \/ CheckVendorBoot
    BY <2>2, TableTrip
  <2>3. CASE VendorHeader
    BY <2>3, VendorHeaderTrip
  <2>4. CASE WriteVendorRamdisk \/ WriteRamdisksPadded \/ WriteVendorDtb
             \/ WriteEntriesPadded \/ WriteBootconfig
    BY <2>4, VendorDataTrip
  <2>9. CASE WriteEntriesFails
    BY <2>9, TableFailsTrip
  <2>5. CASE Header
    BY <2>5, HeaderTrip
  <2>6. CASE WriteKernel \/ WriteRamdisk \/ WriteSecond \/ WriteDtbo \/ WriteDtb
    BY <2>6, BootDataTrip
  <2>7. CASE AddBootImageSignature
    BY <2>7, SignatureTrip
  <2>8. QED
    BY <1>3, <2>1, <2>2, <2>3, <2>4, <2>5, <2>6, <2>7, <2>9 DEF MkbootimgStep
<1>4. CASE UnpackStep
  BY <1>4, ReadHeaderTrip, ExtractTrip, LinkTrip DEF UnpackStep
<1>5. CASE UNCHANGED vars
  <2>1. UNCHANGED <<pc, ret, job, builder, disk, made, info, todo, outdir, links>>
    BY <1>5 DEF vars, mk, unpack
  <2>2. BuilderInv'
    BY <2>1 DEF TripInv, BuilderInv, Version, Added
  <2>3. OutputInv'
    BY <2>1 DEF TripInv, OutputInv, EmptyOutput
  <2>4. StageInv'
    BY <2>1 DEF TripInv, StageInv, Version, GoodVendor, GoodBoot, VendorStage, BootStage
  <2>5. \A n \in Image : ContentInv(n)'
    BY <2>1 DEF TripInv, ContentInv, CompleteBoot, CompleteVendor, CutInTable, GoodBoot, GoodVendor
  <2>6. ReadInv'
    BY <2>1 DEF TripInv, ReadInv, ListOf, CompleteBoot, CompleteVendor, GoodBoot, GoodVendor
  <2>7. ListInv'
    BY <2>1 DEF TripInv, ListInv, ListOf, Source, Name
  <2>8. QED
    BY <2>2, <2>3, <2>4, <2>5, <2>6, <2>7 DEF TripInv
<1>6. QED
  BY <1>1, <1>2, <1>3, <1>4, <1>5 DEF Next, Step

\* TripInv is an invariant.
LEMMA TripAlways == Spec => [](ImagesInv /\ TripInv)
<1>1. Init => ImagesInv /\ TripInv
  BY ImagesInit, TripInit
<1>2. ImagesInv /\ TripInv /\ [Next]_vars => (ImagesInv /\ TripInv)'
  BY ImagesStep, TripStep
<1>3. QED
  BY <1>1, <1>2, PTL DEF Spec

-------------------------------------------------------------------------------
(* What follows from it                                                        *)

\* The sizes that headers declare
LEMMA BootDeclares ==
  ASSUME NEW a, a.header_version \in 0..4
  PROVE  LET f == BootFields(a)
         IN  Width(f) = IF f[10].v \in {1, 2} THEN f[18].v
                        ELSE IF f[10].v >= 3 THEN f[5].v ELSE 1632
<1> DEFINE f == BootFields(a)
           v == a.header_version
<1>1. CASE v \in 3..4
  <2>1. f = V3Fields(a)
    BY <1>1 DEF BootFields
  <2>2. f[5] = V3Front(a)[5] /\ f[10] = V3Front(a)[10]
    BY <1>1, <2>1, V3Values
  <2>3. f[5].v = V3HeaderSize(a) /\ f[10].v = v
    BY <2>2 DEF V3Front, Field
  <2>4. Width(f) = V3HeaderSize(a)
    BY <1>1, <2>1, V3Width
  <2> HIDE DEF f
  <2>5. f[10].v \notin {1, 2} /\ f[10].v >= 3
    BY <1>1, <2>3
  <2>6. Width(f) = IF f[10].v \in {1, 2} THEN f[18].v ELSE IF f[10].v >= 3 THEN f[5].v ELSE 1632
    BY <2>3, <2>4, <2>5
  <2>7. QED
    BY <2>6 DEF f
<1>2. CASE v \in 0..2
  <2>1. f = V0Fields(a)
    BY <1>2 DEF BootFields
  <2>2. f[10] = V0Front(a)[10] /\ (v > 0 => f[18].v = IF v = 1 THEN 1648 ELSE 1660)
    BY <1>2, <2>1, V0Values
  <2>3. f[10].v = v
    BY <2>2 DEF V0Front, Field
  <2>4. Width(f) = V0HeaderSize(a)
    BY <1>2, <2>1, V0Width
  <2> HIDE DEF f
  <2>5. V0HeaderSize(a) = IF v = 0 THEN 1632 ELSE IF v = 1 THEN 1648 ELSE 1660
    BY <1>2 DEF V0HeaderSize
  <2>6. Width(f) = IF f[10].v \in {1, 2} THEN f[18].v ELSE IF f[10].v >= 3 THEN f[5].v ELSE 1632
    BY <1>2, <2>2, <2>3, <2>4, <2>5
  <2>7. QED
    BY <2>6 DEF f
<1>3. QED
  BY <1>1, <1>2

LEMMA VendorDeclares ==
  ASSUME NEW a, NEW b, a.header_version \in Int
  PROVE  Width(VendorFields(a, b)) = VendorFields(a, b)[10].v
<1>1. VendorFields(a, b)[10] = VendorFront(a, b)[10]
  BY VendorValues
<1>2. VendorFront(a, b)[10].v = IF a.header_version > 3 THEN 2128 ELSE 2112
  BY DEF VendorFront, Field
<1>3. QED
  BY <1>1, <1>2, VendorWidth DEF VendorHeaderSize

\* The size of its header that an image declares, in a field of its own or as the constant
\* of its version, is what write_header(), write_header_v3_and_above() and
\* write_vendor_boot_header() have written, whatever the arguments.
THEOREM HeaderSizeTrue == Spec => []DeclaredHeaderSize
<1>1. ImagesInv /\ TripInv => DeclaredHeaderSize
  <2> SUFFICES ASSUME TripInv,
                      NEW n \in Image, made[n] # None /\ made[n].whole
               PROVE  LET f == disk[n].fields
                          declared == IF ~IsBoot(disk[n]) THEN f[10].v
                                      ELSE IF f[10].v \in {1, 2} THEN f[18].v
                                      ELSE IF f[10].v >= 3 THEN f[5].v ELSE 1632
                      IN  declared = Width(f)
    BY DEF DeclaredHeaderSize
  <2>2. CompleteBoot(disk[n], made[n]) \/ CompleteVendor(disk[n], made[n])
    BY DEF TripInv, ContentInv, CutInTable
  <2>3. CASE CompleteBoot(disk[n], made[n])
    <3>1. IsBoot(disk[n]) /\ disk[n].fields = BootFields(made[n].job)
          /\ made[n].job.header_version \in 0..4
      BY <2>3, BootComplete
    <3>2. QED
      BY <3>1, BootDeclares
  <2>4. CASE CompleteVendor(disk[n], made[n])
    <3>1. ~IsBoot(disk[n]) /\ GoodVendor(made[n].job) /\ VendorPlaces(made[n].job, disk[n])
      BY <2>4, VendorComplete
    <3>2. disk[n].fields = VendorFields(made[n].job, BuilderOf(made[n].job))
          /\ made[n].job.header_version \in Int
      BY <3>1 DEF VendorPlaces, GoodVendor
    <3>3. QED
      BY <3>1, <3>2, VendorDeclares
  <2>5. QED
    BY <2>2, <2>3, <2>4
<1>2. QED
  BY <1>1, TripAlways, PTL

\* Whatever stops a build, unpack_bootimg.py refuses to read the output it leaves: a header
\* that ends at a field pack() does not take, as well as a whole header with the ramdisks and
\* the dtb behind it whose table ends at such a type. Only the signature, which comes behind
\* everything, can be missing from an image that is read to the end.
THEOREM AbandonedRefused == Spec => []AcceptedMeansComplete
<1>1. ImagesInv /\ TripInv => AcceptedMeansComplete
  <2> SUFFICES ASSUME TripInv, Unpacked
               PROVE  info.job.whole \/ info.job.job.signature \in SigningFailed
    BY DEF AcceptedMeansComplete, SigningFailed
  <2>1. CompleteBoot(info.of, info.job) \/ CompleteVendor(info.of, info.job)
    BY DEF TripInv, ReadInv, Unpacked
  <2>2. QED
    BY <2>1 DEF CompleteBoot, CompleteVendor
<1>2. QED
  BY <1>1, TripAlways, PTL

\* Every file that mkbootimg.py puts into a boot image, unpack_bootimg.py takes out of it
\* again: whatever the sizes, the page size, the version and the parts that are left out.
THEOREM BootFilesReturn == Spec => []BootRoundTrip
<1>1. ImagesInv /\ TripInv => BootRoundTrip
  <2>1. SUFFICES ASSUME TripInv, UnpackedWhole, IsBoot(info.of), NEW p \in Part,
                        p \in {"kernel", "ramdisk"} \/ filesize(PartsOf(info.job.job)[p]) > 0
                 PROVE  outdir[p] = BytesOf(PartsOf(info.job.job)[p])
    BY DEF BootRoundTrip
  <2>2. ReadInv /\ pc \notin {"unpack", "extract"} /\ info # None
    BY <2>1 DEF TripInv, UnpackedWhole, Unpacked
  <2>3. QED
    BY <2>1, <2>2, BootOut
<1>2. QED
  BY <1>1, TripAlways, PTL

\* The files of a job's ramdisks
LEMMA RamdiskFiles ==
  ASSUME NEW a, Typed(a)
  PROVE  LET files == (IF a.vendor_ramdisk = None THEN << >> ELSE <<a.vendor_ramdisk>>)
                      \o [i \in DOMAIN a.fragments |-> a.fragments[i].file]
         IN  /\ IsList(files) /\ Len(files) = Len(RamdisksOf(a))
             /\ \A i \in 1..Len(files) : files[i] = RamdisksOf(a)[i].file
<1>1. /\ Len(RamdisksOf(a)) = NamedFirst(a) + Len(a.fragments)
      /\ Len(a.fragments) \in Nat
      /\ a.vendor_ramdisk # None => RamdisksOf(a)[1] = Unnamed(a.vendor_ramdisk)
      /\ \A i \in 1..Len(a.fragments) : RamdisksOf(a)[NamedFirst(a) + i] = a.fragments[i]
  BY RamdisksTyped
<1>2. a.fragments \in Seq(Ramdisk)
  BY Zenon DEF Typed, Ramdisk
<1>3. a.vendor_ramdisk \in File \cup {None}
  BY OptionsTyped
<1>4. PICK f, n, v, r : f = a.fragments /\ n = Len(f) /\ v = a.vendor_ramdisk
                        /\ r = RamdisksOf(a)
  OBVIOUS
<1> DEFINE g == [i \in DOMAIN f |-> f[i].file]
<1>5. f \in Seq(Ramdisk) /\ DOMAIN f = 1..n /\ n \in Nat
  BY <1>2, <1>4
<1>6. g \in Seq(File) /\ Len(g) = n /\ \A i \in 1..n : g[i] = f[i].file
  <2>1. \A i \in 1..n : f[i].file \in File
    <3>1. \A i \in 1..n : f[i] \in Ramdisk
      BY <1>4, <1>5, ElementsOf
    <3>2. QED
      BY <3>1 DEF Ramdisk
  <2>2. g \in [1..n -> File] /\ \A i \in 1..n : g[i] = f[i].file
    BY <1>5, <2>1
  <2> HIDE DEF g
  <2>3. g \in Seq(File) /\ Len(g) = n
    BY <1>5, <2>2, FunctionIsSeq, Zenon
  <2>4. QED
    BY <2>2, <2>3
<1> HIDE DEF g
<1>7. CASE v = None
  <2>1. << >> \o g = g
    BY <1>6
  <2>2. NamedFirst(a) = 0
    BY <1>4, <1>7 DEF NamedFirst
  <2>3. Len(r) = n /\ \A i \in 1..n : r[i] = f[i]
    <3>1. Len(r) = 0 + n /\ \A i \in 1..n : r[0 + i] = f[i]
      BY <1>1, <1>4, <2>2
    <3>2. QED
      BY <1>5, <3>1
  <2>4. IsList(g) /\ Len(g) = Len(r) /\ \A i \in 1..Len(g) : g[i] = r[i].file
    BY <1>6, <2>3 DEF IsList
  <2>5. (IF a.vendor_ramdisk = None THEN << >> ELSE <<a.vendor_ramdisk>>)
        \o [i \in DOMAIN a.fragments |-> a.fragments[i].file] = g
    BY <1>4, <1>7, <2>1 DEF g
  <2>6. QED
    BY <1>4, <2>4, <2>5
<1>8. CASE v # None
  <2>1. v \in File
    BY <1>3, <1>4, <1>8
  <2>2. /\ <<v>> \o g \in Seq(File) /\ Len(<<v>> \o g) = 1 + Len(g)
        /\ (<<v>> \o g)[1] = v
        /\ \A i \in 1..Len(g) : (<<v>> \o g)[1 + i] = g[i]
    BY <1>6, <2>1
  <2>3. PICK p : p = <<v>> \o g
    OBVIOUS
  <2>4. p \in Seq(File) /\ Len(p) = 1 + n /\ p[1] = v /\ \A i \in 1..n : p[1 + i] = f[i].file
    BY <1>6, <2>2, <2>3
  <2>5. NamedFirst(a) = 1
    BY <1>4, <1>8 DEF NamedFirst
  <2>6. Len(r) = 1 + n /\ r[1].file = v /\ \A i \in 1..n : r[1 + i] = f[i]
    <3>1. Len(r) = NamedFirst(a) + n /\ r[1] = Unnamed(v)
          /\ \A i \in 1..n : r[NamedFirst(a) + i] = f[i]
      BY <1>1, <1>4, <1>8
    <3>2. Unnamed(v).file = v
      BY DEF Unnamed
    <3>3. QED
      BY <2>5, <3>1, <3>2
  <2>7. ASSUME NEW i \in 1..1 + n PROVE p[i] = r[i].file
    <3>1. CASE i = 1
      BY <2>4, <2>6, <3>1
    <3>2. CASE i # 1
      <4>1. i - 1 \in 1..n /\ 1 + (i - 1) = i
        BY <1>5, <3>2
      <4>2. QED
        BY <2>4, <2>6, <4>1
    <3>3. QED
      BY <3>1, <3>2
  <2>8. IsList(p) /\ Len(p) = Len(r) /\ \A i \in 1..Len(p) : p[i] = r[i].file
    BY <2>4, <2>6, <2>7 DEF IsList
  <2>9. (IF a.vendor_ramdisk = None THEN << >> ELSE <<a.vendor_ramdisk>>)
        \o [i \in DOMAIN a.fragments |-> a.fragments[i].file] = p
    BY <1>4, <1>8, <2>3 DEF g
  <2>10. QED
    BY <1>4, <2>8, <2>9
<1>9. QED
  BY <1>7, <1>8

\* The same for a vendor_boot image: the dtb, the one ramdisk or all the fragments, each in
\* the file that the table puts it in, and the bootconfig.
THEOREM VendorFilesReturn == Spec => []VendorRoundTrip
<1>1. ImagesInv /\ TripInv => VendorRoundTrip
  <2> SUFFICES ASSUME TripInv, UnpackedWhole, ~IsBoot(info.of) PROVE VendorRoundTrip
    BY DEF VendorRoundTrip
  <2>1. ReadInv /\ pc \notin {"unpack", "extract"} /\ info # None /\ pc # "unpack"
    BY DEF TripInv, UnpackedWhole, Unpacked
  <2>2. PICK a, h : a = info.job.job /\ h = info.header
    OBVIOUS
  <2>3. CompleteVendor(info.of, info.job) /\ info.header = VendorInfo(info.of)
    BY <2>1, ReadComplete
  <2>4. GoodVendor(a) /\ VendorPlaces(a, info.of)
    BY <2>2, <2>3, VendorComplete
  <2>5. /\ outdir["dtb"] = BytesOf(a.dtb)
        /\ a.header_version = 3 => outdir["vendor_ramdisk"] = BytesOf(a.vendor_ramdisk)
        /\ a.header_version = 4 =>
             /\ outdir["bootconfig"] = BytesOf(a.vendor_bootconfig)
             /\ \A i \in 1..Entries(a) : outdir[RamdiskFile[i]] = BytesOf(EntryOf(a, i).file)
    BY <2>1, <2>2, VendorOut
  <2>6. outdir["dtb"] = a.dtb
    <3>1. filesize(a.dtb) > 0 /\ ~(0 > 0)
      BY <2>4 DEF GoodVendor
    <3>2. QED
      BY <2>5, <3>1 DEF BytesOf
  <2>7. Typed(a) /\ a.header_version \in {3, 4} /\ a.vendor_boot # None
    BY <2>4 DEF GoodVendor
  <2>8. PICK files :
          /\ files = (IF a.vendor_ramdisk = None THEN << >> ELSE <<a.vendor_ramdisk>>)
                     \o [i \in DOMAIN a.fragments |-> a.fragments[i].file]
          /\ IsList(files) /\ Len(files) = Len(RamdisksOf(a))
          /\ \A i \in 1..Len(files) : files[i] = RamdisksOf(a)[i].file
    BY <2>7, RamdiskFiles
  <2>9. ASSUME a.header_version = 4
        PROVE  /\ Len(h.table) = Len(files)
               /\ \A i \in DOMAIN files : outdir[RamdiskFile[i]] = BytesOf(files[i])
    <3>1. Entries(a) = Len(files)
      BY <2>7, <2>8, <2>9 DEF Entries
    <3>2. h.table = BuilderOf(a).entries
      BY <2>2, <2>3, <2>4, <2>9, VendorSizes
    <3>3. Len(h.table) = Len(files)
      BY <2>7, <3>1, <3>2, BuilderTyped
    <3>4. DOMAIN files = 1..Entries(a)
      BY <2>8, <3>1 DEF IsList
    <3>5. \A i \in 1..Entries(a) : EntryOf(a, i).file = files[i]
      BY <2>8, <3>1 DEF EntryOf
    <3>6. QED
      BY <2>5, <2>9, <3>3, <3>4, <3>5
  <2>10. QED
    BY <2>2, <2>5, <2>6, <2>7, <2>8, <2>9, ZenonT(60) DEF VendorRoundTrip
<1>2. QED
  BY <1>1, TripAlways, PTL

\* A link with the name of a ramdisk leads to that ramdisk after a version-4 vendor_boot
\* image was taken apart, whatever the output directory and its links were before.
THEOREM LinksLead == Spec => []LinksCurrent
<1>1. ImagesInv /\ TripInv => LinksCurrent
  <2> SUFFICES ASSUME TripInv, UnpackedWhole, ~IsBoot(info.of), info.job.job.header_version = 4,
                      NEW i \in DOMAIN info.header.table
               PROVE  LET e == info.of.table[i]
                      IN  e.name \in DOMAIN links /\ outdir[links[e.name]] = BytesOf(e.file)
    BY DEF LinksCurrent
  <2>1. ReadInv /\ pc \notin {"unpack", "extract"} /\ info # None /\ pc # "unpack"
    BY DEF TripInv, UnpackedWhole, Unpacked
  <2>2. PICK a, h, img : a = info.job.job /\ h = info.header /\ img = info.of
    OBVIOUS
  <2>3. CompleteVendor(img, info.job) /\ h = VendorInfo(img)
    BY <2>1, <2>2, ReadComplete
  <2>4. GoodVendor(a) /\ VendorPlaces(a, img) /\ a.header_version = 4
    BY <2>2, <2>3, VendorComplete
  <2>5. h.table = BuilderOf(a).entries /\ img.table = BuilderOf(a).entries
    BY <2>3, <2>4, VendorSizes DEF VendorPlaces
  <2>6. VendorRead(a, h)
    BY <2>3, <2>4, VendorHeaderTyped
  <2>7. i \in 1..Entries(a) /\ h.table[i] = EntryOf(a, i)
    BY <2>2, <2>6, Zenon DEF VendorRead
  <2>8. outdir[RamdiskFile[i]] = BytesOf(EntryOf(a, i).file)
    BY <2>1, <2>2, <2>4, <2>7, VendorOut
  <2>9. /\ h.table[i].name \in DOMAIN links /\ links[h.table[i].name] = RamdiskFile[i]
    BY <2>1, <2>2 DEF ReadInv
  <2>10. img.table[i] = EntryOf(a, i) /\ img.table[i] = h.table[i]
    BY <2>5, <2>7
  <2>11. QED
    BY <2>2, <2>8, <2>9, <2>10
<1>2. QED
  BY <1>1, TripAlways, PTL

\* The files that are in an image
FilesIn(img) == {c.file : c \in Chunks(img)} \cup {Empty, Other}

LEMMA PlacedIn ==
  ASSUME NEW img, NEW p \in Part, NEW off, NEW f, img.at[p] = Placed(off, f)
  PROVE  BytesOf(f) \in FilesIn(img)
<1>1. CASE filesize(f) = 0
  BY <1>1 DEF BytesOf, FilesIn
<1>2. CASE filesize(f) # 0
  <2>1. img.at[p].file = f /\ BytesOf(f) = f /\ img.at[p] \in Chunks(img)
    BY <1>2 DEF Placed, BytesOf, Chunks
  <2>2. QED
    BY <2>1 DEF FilesIn
<1>3. QED
  BY <1>1, <1>2

\* The files that are named in what is printed
FileOptions == {"kernel", "ramdisk", "second", "recovery_dtbo", "dtb", "vendor_ramdisk",
                "vendor_bootconfig"}

LEMMA BootNamed ==
  ASSUME ReadInv, pc \notin {"unpack", "extract"}, info # None, IsBoot(info.of)
  PROVE  LET d == format_mkbootimg_argument
         IN  d.fragments = << >> /\ \A o \in FileOptions : d[o] \in FilesIn(info.of) \cup {None}
<1>1. PICK a, h, img : a = info.job.job /\ h = info.header /\ img = info.of
  OBVIOUS
<1>2. CompleteBoot(img, info.job) /\ h = BootInfo(img.fields) /\ IsBoot(img)
  BY <1>1, ReadComplete
<1>3. GoodBoot(a) /\ BootPlaces(a, img) /\ img.fields = BootFields(a)
  BY <1>1, <1>2, BootComplete
<1>4. /\ h.second_size = filesize(a.second)
      /\ h.recovery_dtbo_size = filesize(DtboOf(a)) /\ h.dtb_size = filesize(DtbOf(a))
  BY <1>2, <1>3, BootSizes
<1>5. ASSUME NEW p \in {"kernel", "ramdisk", "second", "recovery_dtbo", "dtb"},
             p \in {"kernel", "ramdisk"} \/ filesize(PartsOf(a)[p]) > 0
      PROVE  outdir[p] \in FilesIn(img)
  <2>1. p \in Part
    BY DEF Part
  <2>2. outdir[p] = BytesOf(PartsOf(a)[p])
    BY <1>1, <1>5, <2>1, BootOut
  <2>3. \E off : img.at[p] = Placed(off, PartsOf(a)[p])
    BY <1>3, PartsAre DEF BootPlaces
  <2>4. QED
    BY <2>1, <2>2, <2>3, PlacedIn
<1>6. outdir["kernel"] \in FilesIn(img) /\ outdir["ramdisk"] \in FilesIn(img)
  BY <1>5
<1>7. /\ FileIf(h.second_size > 0, "second") \in FilesIn(img) \cup {None}
      /\ FileIf(h.recovery_dtbo_size > 0, "recovery_dtbo") \in FilesIn(img) \cup {None}
      /\ FileIf(h.dtb_size > 0, "dtb") \in FilesIn(img) \cup {None}
  <2>1. PartsOf(a)["second"] = a.second /\ PartsOf(a)["recovery_dtbo"] = DtboOf(a)
        /\ PartsOf(a)["dtb"] = DtbOf(a)
    BY <1>3, PartsAre
  <2>2. /\ h.second_size > 0 => outdir["second"] \in FilesIn(img)
        /\ h.recovery_dtbo_size > 0 => outdir["recovery_dtbo"] \in FilesIn(img)
        /\ h.dtb_size > 0 => outdir["dtb"] \in FilesIn(img)
    BY <1>4, <1>5, <2>1
  <2>3. QED
    BY <2>2 DEF FileIf
<1>8. PICK b : b = BootArguments(h)
  OBVIOUS
<1>9. /\ b.kernel \in FilesIn(img) /\ b.ramdisk \in FilesIn(img) /\ b.fragments = << >>
      /\ \A o \in FileOptions \ {"kernel", "ramdisk"} : b[o] = None
  <2>1. b.kernel = outdir["kernel"] /\ b.ramdisk = outdir["ramdisk"]
        /\ \A o \in Options \ {"header_version", "os_version", "os_patch_level", "kernel",
                               "ramdisk", "cmdline", "output"} : b[o] = Defaults[o]
    BY <1>8, BootPrinted
  <2>2. /\ {"second", "recovery_dtbo", "dtb", "vendor_ramdisk", "vendor_bootconfig", "fragments"}
             \subseteq Options \ {"header_version", "os_version", "os_patch_level", "kernel",
                                  "ramdisk", "cmdline", "output"}
        /\ FileOptions \ {"kernel", "ramdisk"}
             = {"second", "recovery_dtbo", "dtb", "vendor_ramdisk", "vendor_bootconfig"}
    BY DEF Options, FileOptions
  <2>3. /\ b.second = Defaults.second /\ b.recovery_dtbo = Defaults.recovery_dtbo
        /\ b.dtb = Defaults.dtb /\ b.vendor_ramdisk = Defaults.vendor_ramdisk
        /\ b.vendor_bootconfig = Defaults.vendor_bootconfig /\ b.fragments = Defaults.fragments
    BY <2>1, <2>2
  <2>4. QED
    BY <1>6, <2>1, <2>2, <2>3, DefaultOptions
<1>10. PICK d : d = format_mkbootimg_argument
  OBVIOUS
<1>11. CASE h.header_version <= 2
  <2>1. d = OldBootArguments(h)
    BY <1>1, <1>2, <1>10, <1>11 DEF format_mkbootimg_argument
  <2>2. /\ d.second = FileIf(h.second_size > 0, "second")
        /\ d.recovery_dtbo = FileIf(h.recovery_dtbo_size > 0, "recovery_dtbo")
        /\ d.dtb = FileIf(h.dtb_size > 0, "dtb")
        /\ \A o \in Options \ {"second", "recovery_dtbo", "dtb", "pagesize", "base",
                               "kernel_offset", "ramdisk_offset", "second_offset",
                               "tags_offset", "dtb_offset", "board"} :
             d[o] = b[o]
    BY <1>8, <2>1, OldBootPrinted
  <2>3. {"kernel", "ramdisk", "vendor_ramdisk", "vendor_bootconfig", "fragments"}
          \subseteq Options \ {"second", "recovery_dtbo", "dtb", "pagesize", "base",
                               "kernel_offset", "ramdisk_offset", "second_offset",
                               "tags_offset", "dtb_offset", "board"}
    BY DEF Options
  <2>4. /\ d.kernel = b.kernel /\ d.ramdisk = b.ramdisk /\ d.fragments = b.fragments
        /\ d.vendor_ramdisk = b.vendor_ramdisk /\ d.vendor_bootconfig = b.vendor_bootconfig
    BY <2>2, <2>3
  <2>5. QED
    BY <1>1, <1>7, <1>9, <1>10, <2>2, <2>4 DEF FileOptions
<1>12. CASE ~(h.header_version <= 2)
  <2>1. d = b
    BY <1>1, <1>2, <1>8, <1>10, <1>12 DEF format_mkbootimg_argument
  <2>2. QED
    BY <1>1, <1>9, <1>10, <2>1 DEF FileOptions
<1>13. QED
  BY <1>11, <1>12

LEMMA VendorNamed ==
  ASSUME ReadInv, pc \notin {"unpack", "extract"}, info # None, ~IsBoot(info.of)
  PROVE  LET d == format_mkbootimg_argument
         IN  /\ \A i \in DOMAIN d.fragments : d.fragments[i].file \in FilesIn(info.of)
             /\ \A o \in FileOptions : d[o] \in FilesIn(info.of) \cup {None}
<1>1. PICK a, h, img : a = info.job.job /\ h = info.header /\ img = info.of
  OBVIOUS
<1>2. CompleteVendor(img, info.job) /\ h = VendorInfo(img) /\ ~IsBoot(img)
  BY <1>1, ReadComplete
<1>3. GoodVendor(a) /\ VendorPlaces(a, img) /\ a.header_version \in {3, 4}
  BY <1>1, <1>2, VendorComplete DEF GoodVendor
<1>4. h.header_version = a.header_version
  BY <1>2, <1>3, VendorSizes
<1>5. VendorRead(a, h)
  BY <1>2, <1>3, VendorHeaderTyped
<1>6. /\ outdir["dtb"] = BytesOf(a.dtb)
      /\ a.header_version = 3 => outdir["vendor_ramdisk"] = BytesOf(a.vendor_ramdisk)
      /\ a.header_version = 4 =>
           /\ outdir["bootconfig"] = BytesOf(a.vendor_bootconfig)
           /\ \A i \in 1..Entries(a) : outdir[RamdiskFile[i]] = BytesOf(EntryOf(a, i).file)
  BY <1>1, VendorOut
<1>7. /\ outdir["dtb"] \in FilesIn(img)
      /\ a.header_version = 3 => outdir["vendor_ramdisk"] \in FilesIn(img)
      /\ a.header_version = 4 => outdir["bootconfig"] \in FilesIn(img)
  <2>1. {"dtb", "vendor_ramdisk", "bootconfig"} \subseteq Part
    BY DEF Part
  <2>2. /\ \E off : img.at["dtb"] = Placed(off, a.dtb)
        /\ a.header_version = 3 => \E off : img.at["vendor_ramdisk"] = Placed(off, a.vendor_ramdisk)
        /\ a.header_version = 4 => \E off : img.at["bootconfig"] = Placed(off, a.vendor_bootconfig)
    BY <1>3 DEF VendorPlaces
  <2>3. /\ BytesOf(a.dtb) \in FilesIn(img)
        /\ a.header_version = 3 => BytesOf(a.vendor_ramdisk) \in FilesIn(img)
        /\ a.header_version = 4 => BytesOf(a.vendor_bootconfig) \in FilesIn(img)
    BY <2>1, <2>2, PlacedIn
  <2>4. QED
    BY <1>6, <2>3
<1>8. ASSUME NEW i \in DOMAIN h.table PROVE outdir[RamdiskFile[i]] \in FilesIn(img)
  <2>1. a.header_version = 4 /\ i \in 1..Entries(a)
    BY <1>5, Zenon DEF VendorRead
  <2>2. PackedAt(img, a.pagesize, HeadPages(a), BuilderOf(a), Entries(a))
    BY <1>3, <2>1 DEF VendorPlaces
  <2>3. BuilderOf(a).entries[i] = EntryOf(a, i)
    BY <1>3, <2>1, BuilderTyped DEF GoodVendor
  <2>4. i \in DOMAIN img.ramdisks /\ img.ramdisks[i].file = EntryOf(a, i).file
    <3>1. DOMAIN img.ramdisks = 1..Entries(a)
      BY <2>2, Zenon DEF PackedAt
    <3>2. img.ramdisks[i] = [off |-> a.pagesize * HeadPages(a) + BuilderOf(a).entries[i].offset,
                             file |-> BuilderOf(a).entries[i].file]
      BY <2>1, <2>2, Zenon DEF PackedAt
    <3>3. img.ramdisks[i].file = BuilderOf(a).entries[i].file
      BY <3>2
    <3>4. QED
      BY <2>1, <2>3, <3>1, <3>3
  <2>5. EntryOf(a, i).file \in FilesIn(img)
    BY <2>4 DEF FilesIn, Chunks
  <2>6. BytesOf(EntryOf(a, i).file) \in {EntryOf(a, i).file, Empty}
    BY DEF BytesOf
  <2>7. Empty \in FilesIn(img)
    BY DEF FilesIn
  <2>8. QED
    BY <1>6, <2>1, <2>5, <2>6, <2>7
<1>9. PICK d : d = format_mkbootimg_argument
  OBVIOUS
<1>10. d = VendorArguments(h)
  BY <1>1, <1>2, <1>9 DEF format_mkbootimg_argument
<1>11. /\ d.dtb = FileIf(h.dtb_size > 0, "dtb")
       /\ d.vendor_bootconfig = FileIf(h.header_version > 3, "bootconfig")
       /\ d.vendor_ramdisk = FileIf(h.header_version <= 3, "vendor_ramdisk")
       /\ d.fragments = [i \in DOMAIN h.table |-> Fragment(h.table[i], i)]
       /\ \A o \in Options \ {"header_version", "pagesize", "base", "kernel_offset",
                              "ramdisk_offset", "tags_offset", "dtb_offset",
                              "vendor_cmdline", "board", "dtb", "vendor_bootconfig",
                              "vendor_ramdisk", "fragments", "vendor_boot"} :
            d[o] = Defaults[o]
  BY <1>10, VendorPrinted
<1>12. d.kernel = None /\ d.ramdisk = None /\ d.second = None /\ d.recovery_dtbo = None
  <2>1. {"kernel", "ramdisk", "second", "recovery_dtbo"} \subseteq
           Options \ {"header_version", "pagesize", "base", "kernel_offset",
                      "ramdisk_offset", "tags_offset", "dtb_offset",
                      "vendor_cmdline", "board", "dtb", "vendor_bootconfig",
                      "vendor_ramdisk", "fragments", "vendor_boot"}
    BY DEF Options
  <2>2. d.kernel = Defaults.kernel /\ d.ramdisk = Defaults.ramdisk
        /\ d.second = Defaults.second /\ d.recovery_dtbo = Defaults.recovery_dtbo
    BY <1>11, <2>1
  <2>3. QED
    BY <2>2, DefaultOptions
<1>13. {d.dtb, d.vendor_bootconfig, d.vendor_ramdisk} \subseteq FilesIn(img) \cup {None}
  BY <1>3, <1>4, <1>7, <1>11 DEF FileIf
<1>14. ASSUME NEW i \in DOMAIN d.fragments PROVE d.fragments[i].file \in FilesIn(img)
  <2>1. i \in DOMAIN h.table /\ d.fragments[i] = Fragment(h.table[i], i)
    BY <1>11
  <2>2. QED
    BY <1>8, <2>1 DEF Fragment
<1>15. QED
  BY <1>1, <1>9, <1>12, <1>13, <1>14 DEF FileOptions

\* No file that an earlier image left in the output directory, which is never emptied, is
\* named in the arguments that are printed: only parts of the image that was read.
THEOREM StaleNeverNamed == Spec => []NoStaleFile
<1>1. ImagesInv /\ TripInv => NoStaleFile
  <2> SUFFICES ASSUME TripInv, Unpacked PROVE NoStaleFile
    BY DEF NoStaleFile
  <2>1. ReadInv /\ pc \notin {"unpack", "extract"} /\ info # None
    BY DEF TripInv, Unpacked
  <2>2. PICK d, img : d = format_mkbootimg_argument /\ img = info.of
    OBVIOUS
  <2>3. \A o \in FileOptions : d[o] \in FilesIn(img) \cup {None}
    BY <2>1, <2>2, BootNamed, VendorNamed
  <2>4. \A i \in DOMAIN d.fragments : d.fragments[i].file \in FilesIn(img)
    <3>1. CASE IsBoot(info.of)
      BY <2>1, <2>2, <3>1, BootNamed
    <3>2. CASE ~IsBoot(info.of)
      BY <2>1, <2>2, <3>2, VendorNamed
    <3>3. QED
      BY <3>1, <3>2
  <2>5. \A f \in ({d.kernel, d.ramdisk, d.second, d.recovery_dtbo, d.dtb, d.vendor_ramdisk,
                   d.vendor_bootconfig} \cup {d.fragments[i].file : i \in DOMAIN d.fragments})
                  \ {None} : f \in FilesIn(img)
    BY <2>3, <2>4 DEF FileOptions
  <2>6. QED
    BY <2>2, <2>5 DEF NoStaleFile, FilesIn
<1>2. QED
  BY <1>1, TripAlways, PTL

-------------------------------------------------------------------------------
(* A run that nothing stops                                                    *)

\* A job whose every step succeeds: its options are accepted, its outputs' fields fit,
\* and a signature can be made.
FitBoot(a) ==
    /\ GoodBoot(a) /\ Unfit(BootFields(a)) = {}
    /\ ~(a.header_version = 4 /\ a.signature \in SigningFailed)
TypesFit(b) == \A i \in 1..Len(b.entries) : Word(b.entries[i].type)
FitVendor(a) ==
    /\ GoodVendor(a) /\ Unfit(VendorFields(a, BuilderOf(a))) = {}
    /\ a.header_version = 4 => TypesFit(BuilderOf(a))
GoodRun(a) ==
    /\ ArgumentsFit(a)
    /\ a.output # None => FitBoot(a)
    /\ a.vendor_boot # None => FitVendor(a)
    /\ a.vendor_boot = None \/ a.header_version <= 3 => a.fragments = << >>

\* What such a run leaves in its outputs
VendorLeft(a) == a.vendor_boot # None => disk[a.vendor_boot] = VendorWhole(a)
BootLeft(a) == a.output # None => disk[a.output] = Signed(a)

\* When an image is done: the vendor_boot image before the boot image is begun.
VendorDone(at) == at \notin (Building \ ({"output"} \cup BootPhase)) \cup {"parse"}
BootDone(at) == at \notin Building \cup {"parse"}

\* The last run of such a job has left what it should.
RunInv ==
    GoodRun(job) => /\ VendorDone(pc) => VendorLeft(job)
                    /\ BootDone(pc) => BootLeft(job)

\* The header of a whole image has been written, so that its fields fit.
FieldsFit(n) == made[n] # None /\ made[n].whole => Unfit(disk[n].fields) = {}
FitInv ==
    /\ pc \in VendorPhase => Unfit(VendorFields(job, BuilderOf(job))) = {}
    /\ pc \in BootPhase => Unfit(BootFields(job)) = {}
    /\ \A n \in Image : FieldsFit(n)
    /\ pc # "unpack" /\ info # None /\ info.job.whole =>
         Unfit(info.of.fields) = {} /\ (IsBoot(info.of) => info.job.job.output # None)

RebuildInv == RunInv /\ FitInv

\* A step of a run that leaves a job's images as they were, or is not its last
LEMMA RunKept ==
  ASSUME RunInv, UNCHANGED job,
         GoodRun(job) =>
           /\ VendorDone(pc') /\ job.vendor_boot # None =>
                /\ VendorDone(pc) /\ disk'[job.vendor_boot] = disk[job.vendor_boot]
           /\ BootDone(pc') /\ job.output # None =>
                /\ BootDone(pc) /\ disk'[job.output] = disk[job.output]
  PROVE  RunInv'
BY DEF RunInv, GoodRun, FitBoot, FitVendor, GoodBoot, GoodVendor, VendorLeft, BootLeft,
       VendorDone, BootDone

\* A step that writes no header
LEMMA FitKept ==
  ASSUME FitInv, UNCHANGED <<job, info>>,
         pc' \in VendorPhase => pc \in VendorPhase, pc' \in BootPhase => pc \in BootPhase,
         pc # "unpack", \A n \in Image : FieldsFit(n)'
  PROVE  FitInv'
BY DEF FitInv

LEMMA FieldsKept ==
  ASSUME FitInv, UNCHANGED <<disk, made>>
  PROVE  \A n \in Image : FieldsFit(n)'
BY DEF FitInv, FieldsFit

\* What the user starts, and the steps of unpack_bootimg.py
LEMMA UserRebuild ==
  ASSUME RebuildInv, Build \/ Unpack \/ Repack
  PROVE  RebuildInv'
<1>1. /\ pc = "idle" /\ pc' \in {"parse", "unpack"} /\ UNCHANGED <<disk, made>>
      /\ pc' \notin VendorPhase \cup BootPhase
  BY DEF Build, Unpack, Repack, VendorPhase, BootPhase
<1>2. \A n \in Image : FieldsFit(n)'
  BY <1>1, FieldsKept DEF RebuildInv
<1>3. CASE Build \/ Repack
  <2>1. pc' = "parse" /\ UNCHANGED info
    BY <1>3 DEF Build, Repack, unpack
  <2>2. RunInv'
    BY <2>1 DEF RunInv, VendorDone, BootDone
  <2>3. FitInv'
    BY <1>1, <1>2, <2>1 DEF RebuildInv, FitInv
  <2>4. QED
    BY <2>2, <2>3 DEF RebuildInv
<1>4. CASE Unpack
  <2>1. pc' = "unpack" /\ UNCHANGED job
    BY <1>4 DEF Unpack, mk
  <2>2. VendorDone(pc) /\ BootDone(pc)
    BY <1>1 DEF VendorDone, BootDone, Building, VendorPhase, BootPhase
  <2>3. RunInv'
    BY <1>1, <2>1, <2>2, RunKept DEF RebuildInv
  <2>4. FitInv'
    BY <1>1, <1>2, <2>1 DEF RebuildInv, FitInv
  <2>5. QED
    BY <2>3, <2>4 DEF RebuildInv
<1>5. QED
  BY <1>3, <1>4

LEMMA UnpackRebuild ==
  ASSUME ImagesInv, TripInv, RebuildInv, UnpackStep
  PROVE  RebuildInv'
<1>1. /\ pc \in {"unpack", "extract"} /\ pc' \in {"idle", "extract"} /\ UNCHANGED <<disk, made, job>>
      /\ pc' \notin VendorPhase \cup BootPhase
  BY DEF UnpackStep, ReadHeader, ExtractImage, LinkAndPrint, mk, VendorPhase, BootPhase
<1>2. \A n \in Image : FieldsFit(n)'
  BY <1>1, FieldsKept DEF RebuildInv
<1>3. RunInv'
  <2>1. VendorDone(pc) /\ BootDone(pc)
    BY <1>1 DEF VendorDone, BootDone, Building, VendorPhase, BootPhase
  <2>2. QED
    BY <1>1, <2>1, RunKept DEF RebuildInv
<1>4. CASE ExtractImage \/ LinkAndPrint
  <2>1. UNCHANGED info /\ pc = "extract"
    BY <1>4 DEF ExtractImage, LinkAndPrint
  <2>2. FitInv'
    BY <1>1, <1>2, <2>1, FitKept DEF RebuildInv
  <2>3. QED
    BY <1>3, <2>2 DEF RebuildInv
<1>5. CASE ReadHeader
  <2>1. CASE ~Readable(Source)
    <3>1. info' = None
      BY <1>5, <2>1 DEF ReadHeader
    <3>2. FitInv'
      BY <1>1, <1>2, <3>1 DEF FitInv
    <3>3. QED
      BY <1>3, <3>2 DEF RebuildInv
  <2>2. CASE Readable(Source)
    <3>1. PICK img, by, name, h : /\ img = Source /\ by = made[Name] /\ name = Name
                                  /\ h = HeaderOf(img)
      OBVIOUS
    <3>2. name \in Image /\ by # None /\ IsJob(by.job)
      BY <1>5, <3>1 DEF ReadHeader, ImagesInv, InfoInv, Name, ImageInv
    <3>3. info' = [image |-> name, header |-> h, of |-> img, job |-> by]
      BY <1>5, <2>2, <3>1 DEF ReadHeader, HeaderOf
    <3>4. info'.of = img /\ info'.job = by
      BY <3>3
    <3>5. by.whole => Unfit(img.fields) = {}
      BY <3>1, <3>2 DEF RebuildInv, FitInv, FieldsFit, Source, Name
    <3>6. by.whole /\ IsBoot(img) => by.job.output # None
      <4>1. ContentInv(name) /\ disk[name] = img /\ made[name] = by
        BY <3>1, <3>2 DEF TripInv, Source, Name
      <4>2. pc \notin VendorPhase \cup BootPhase
        BY <1>1 DEF VendorPhase, BootPhase
      <4>3. by.whole => \/ name = by.job.output
                        \/ CompleteVendor(img, by)
        BY <3>2, <4>1, <4>2 DEF ContentInv, CutInTable
      <4>4. CompleteVendor(img, by) => ~IsBoot(img)
        BY VendorComplete
      <4>5. name # None
        BY <3>2, NoneAssumption
      <4>6. QED
        BY <4>3, <4>4, <4>5
    <3>7. FitInv'
      BY <1>1, <1>2, <3>4, <3>5, <3>6 DEF FitInv, IsBoot, Magic
    <3>8. QED
      BY <1>3, <3>7 DEF RebuildInv
  <2>3. QED
    BY <2>1, <2>2
<1>6. QED
  BY <1>4, <1>5 DEF UnpackStep

\* The steps of mkbootimg.py: parsing the command line,
LEMMA ParseRebuild ==
  ASSUME TripInv, RebuildInv, UsageError \/ ParseCmdline
  PROVE  RebuildInv'
<1>1. /\ pc = "parse" /\ UNCHANGED <<job, info>> /\ pc' \in {"idle", "add_entry", "main"}
      /\ pc' \notin VendorPhase \cup BootPhase
  BY DEF UsageError, ParseCmdline, mk, unpack, Exit, VendorPhase, BootPhase
<1>2. PICK names \in SUBSET Outputs : Open(names)
  BY DEF UsageError, ParseCmdline
<1>3. \A n \in Image : FieldsFit(n)'
  <2> TAKE n \in Image
  <2>1. CASE n \in names
    <3>1. made'[n] = [job |-> job, whole |-> FALSE]
      BY <1>2, <2>1 DEF Open
    <3>2. ~made'[n].whole
      BY <3>1
    <3>3. QED
      BY <3>2 DEF FieldsFit
  <2>2. CASE n \notin names
    <3>1. made'[n] = made[n] /\ disk'[n] = disk[n]
      BY <1>2, <2>2 DEF Open
    <3>2. QED
      BY <3>1 DEF RebuildInv, FitInv, FieldsFit
  <2>3. QED
    BY <2>1, <2>2
<1>4. FitInv'
  BY <1>1, <1>3, FitKept DEF RebuildInv
<1>5. pc' = "idle" => ~GoodRun(job)
  BY DEF UsageError, ParseCmdline, Exit, GoodRun, Version
<1>6. pc' # "idle" => ~VendorDone(pc') /\ ~BootDone(pc')
  BY <1>1 DEF VendorDone, BootDone, Building, VendorPhase, BootPhase
<1>7. RunInv'
  BY <1>1, <1>5, <1>6, RunKept DEF RebuildInv
<1>8. QED
  BY <1>4, <1>7 DEF RebuildInv

\* collecting the ramdisks and checking,
LEMMA TableRebuild ==
  ASSUME TripInv, RebuildInv, AddEntry \/ EntriesAdded \/ CheckVendorBoot
  PROVE  RebuildInv'
<1>1. /\ pc \in {"add_entry", "main"} /\ UNCHANGED <<job, info, disk, made>>
      /\ pc' \in {"idle", "add_entry", "main", "output", "vendor_header"}
      /\ pc' \notin VendorPhase \cup BootPhase
  BY DEF AddEntry, EntriesAdded, CheckVendorBoot, mk, unpack, Exit, VendorPhase, BootPhase
<1>2. FitInv'
  BY <1>1, FitKept, FieldsKept DEF RebuildInv
<1>3. pc' = "idle" => ~GoodRun(job)
  <2>1. CASE AddEntry
    <3>1. /\ pc = "add_entry" /\ job.vendor_boot # None /\ job.header_version > 3
          /\ Typed(job) /\ builder = Packed(job, Added) /\ Added \in 0..Len(RamdisksOf(job))
      BY <2>1 DEF AddEntry, TripInv, BuilderInv, Version, Building
    <3>2. PICK n, l : n = Added /\ l = Len(RamdisksOf(job))
      OBVIOUS
    <3>3. Ramdisks = RamdisksOf(job)
      BY DEF Ramdisks, RamdisksOf
    <3>4. l \in 0..3 /\ n \in 0..l /\ n < l
      BY <2>1, <3>1, <3>2, <3>3, RamdisksTyped DEF AddEntry
    <3>5. \A i \in 1..n : builder.entries[i].name = RamdisksOf(job)[i].name
      <4>1. \A i \in 1..n : Packed(job, n).entries[i] = EntryOf(job, i)
        BY DEF Packed
      <4>2. \A i \in 1..n : EntryOf(job, i).name = RamdisksOf(job)[i].name
        BY DEF EntryOf
      <4>3. QED
        BY <3>1, <3>2, <4>1, <4>2
    <3>6. SUFFICES ASSUME pc' = "idle", NoneRefused(job, l) PROVE FALSE
      BY <3>1, <3>2 DEF GoodRun, FitVendor, GoodVendor, Entries
    <3>7. \/ RamdisksOf(job)[n + 1].name \in LongNames \cup {"default"}
          \/ ~Word(RamdisksOf(job)[n + 1].board_id)
          \/ \E i \in 1..n : builder.entries[i].name = RamdisksOf(job)[n + 1].name
      BY <2>1, <3>1, <3>2, <3>3, <3>6 DEF AddEntry, Refused
    <3>8. n + 1 \in 1..l /\ 1..(n + 1) - 1 = 1..n
      BY <3>4
    <3>9. QED
      BY <3>5, <3>6, <3>7, <3>8 DEF NoneRefused
  <2>2. CASE EntriesAdded
    BY <2>2 DEF EntriesAdded
  <2>3. CASE CheckVendorBoot
    BY <2>3 DEF CheckVendorBoot, Exit, GoodRun, FitVendor, GoodVendor, Version
  <2>4. QED
    BY <2>1, <2>2, <2>3
<1>4. /\ pc' \in {"add_entry", "main", "output", "vendor_header"} => ~BootDone(pc')
      /\ pc' \in {"add_entry", "main", "vendor_header"} => ~VendorDone(pc')
  BY DEF VendorDone, BootDone, Building, VendorPhase, BootPhase
<1>5. pc' = "output" => job.vendor_boot = None
  BY DEF AddEntry, EntriesAdded, CheckVendorBoot, Exit
<1>6. RunInv'
  BY <1>1, <1>3, <1>4, <1>5, RunKept DEF RebuildInv
<1>7. QED
  BY <1>2, <1>6 DEF RebuildInv

\* A header whose fields fit is written.
LEMMA HeaderFits ==
  ASSUME NEW name \in Image, NEW f, NEW stop, NEW page, NEW next, DOMAIN disk = Image,
         DOMAIN disk[name] = DOMAIN Opened,
         PutHeader(name, f, stop, page, next)
  PROVE  /\ \A n \in Image \ {name} : disk'[n] = disk[n]
         /\ \/ pc' = next /\ Unfit(f) = {} /\ disk'[name].fields = f
            \/ pc' = "idle" /\ Unfit(f) \cup stop # {}
<1>1. PICK bad, cut : bad = Unfit(f) \cup stop /\ cut = CHOOSE i \in bad : \A k \in bad : i <= k
  OBVIOUS
<1>2. PICK written, pad :
        /\ written = IF bad = {} THEN f ELSE SubSeq(f, 1, cut - 1)
        /\ pad = IF bad = {} THEN PadLen(Width(written), page) ELSE 0
  OBVIOUS
<1>3. /\ disk' = [disk EXCEPT ![name] =
                    [disk[name] EXCEPT !.fields = written, !.len = Width(written) + pad]]
      /\ IF bad = {} THEN pc' = next /\ UNCHANGED ret ELSE Exit("error")
  BY <1>1, <1>2 DEF PutHeader
<1>4. disk'[name].fields = written /\ \A n \in Image \ {name} : disk'[n] = disk[n]
  BY <1>3 DEF Opened
<1>5. QED
  BY <1>1, <1>2, <1>3, <1>4 DEF Exit

\* writing the header of a vendor_boot image,
LEMMA VendorHeaderRebuild ==
  ASSUME ImagesInv, TripInv, RebuildInv, VendorHeader
  PROVE  RebuildInv'
<1>0. PICK name, f, stop, next :
         /\ name = job.vendor_boot /\ f = VendorFields(job, BuilderOf(job))
         /\ stop = IF filesize(job.dtb) = 0 THEN {1} ELSE {}
         /\ next = IF Version > 3 THEN "vendor_ramdisks" ELSE "vendor_ramdisk"
  OBVIOUS
<1>1. pc = "vendor_header" /\ UNCHANGED <<job, made, info>> /\ pc \in Building
      /\ pc \in Building \ BootPhase /\ pc \in Building \ {"add_entry"}
      /\ next \in VendorPhase
  BY <1>0 DEF VendorHeader, mk, unpack, Building, VendorPhase, BootPhase
<1>2. builder = BuilderOf(job) /\ name # None /\ disk[name] = Opened /\ ~made[name].whole
  BY <1>0, <1>1 DEF TripInv, BuilderInv, OutputInv, StageInv, EmptyOutput
<1>3. name \in Image /\ DOMAIN disk = Image
  BY <1>0, <1>1, <1>2, OutputsNamed
<1>4. /\ \A n \in Image \ {name} : disk'[n] = disk[n]
      /\ \/ pc' = next /\ Unfit(f) = {} /\ disk'[name].fields = f
         \/ pc' = "idle" /\ Unfit(f) \cup stop # {}
  <2>1. PutHeader(name, f, stop, job.pagesize, next)
    BY <1>0, <1>2 DEF VendorHeader
  <2>2. DOMAIN disk[name] = DOMAIN Opened
    BY <1>2
  <2>3. QED
    BY <1>3, <2>1, <2>2, HeaderFits
<1>5. \A n \in Image : FieldsFit(n)'
  BY <1>1, <1>2, <1>4 DEF RebuildInv, FitInv, FieldsFit
<1>6. FitInv'
  <2>1. pc' \notin BootPhase /\ (pc' \in VendorPhase => pc' = next /\ Unfit(f) = {})
    BY <1>1, <1>4 DEF VendorPhase, BootPhase
  <2>2. QED
    BY <1>0, <1>1, <1>5, <2>1 DEF RebuildInv, FitInv
<1>7. pc' = "idle" => ~GoodRun(job)
  <2>1. SUFFICES ASSUME pc' = "idle", FitVendor(job) PROVE FALSE
    BY <1>0, <1>2 DEF GoodRun
  <2>2. Unfit(f) = {} /\ stop = {}
    <3>1. filesize(job.dtb) > 0 => filesize(job.dtb) # 0
      OBVIOUS
    <3>2. QED
      BY <1>0, <2>1, <3>1 DEF FitVendor, GoodVendor
  <2>3. pc' # next
    BY <1>1, <2>1 DEF VendorPhase
  <2>4. QED
    BY <1>4, <2>2, <2>3
<1>8. pc' # "idle" => ~VendorDone(pc') /\ ~BootDone(pc')
  BY <1>1, <1>4 DEF VendorDone, BootDone, Building, VendorPhase, BootPhase
<1>9. RunInv'
  BY <1>1, <1>7, <1>8, RunKept DEF RebuildInv
<1>10. QED
  BY <1>6, <1>9 DEF RebuildInv

\* its parts, the last of which makes it what it should be,
LEMMA VendorWriteRebuild ==
  ASSUME ImagesInv, TripInv, RebuildInv, NEW here \in VendorPhase, NEW next, NEW img,
         WriteVendor(here, next, img), VendorNext(next, img)
  PROVE  RebuildInv'
<1>0. PICK name : name = job.vendor_boot
  OBVIOUS
<1>1. /\ pc \in VendorPhase /\ pc \in Building /\ pc' = next /\ pc # "unpack"
      /\ UNCHANGED <<job, info>> /\ disk' = [disk EXCEPT ![name] = img]
      /\ made' = IF next = "output" THEN [made EXCEPT ![name].whole = TRUE] ELSE made
  BY <1>0 DEF WriteVendor, mk, unpack, VendorPhase, Building
<1>2. GoodVendor(job) /\ name # None
  BY <1>0, <1>1 DEF TripInv, StageInv, GoodVendor
<1>3. next \in {"vendor_dtb", "vendor_table", "vendor_bootconfig", "output"}
  BY DEF VendorNext
<1>4. img.fields = VendorFields(job, BuilderOf(job))
  <2>1. \A i \in {VendorHead(job), VendorRam(job), VendorDtb(job), VendorTable(job),
                  VendorConf(job)} : i.fields = VendorFields(job, BuilderOf(job))
    BY <1>2, VendorPlaced
  <2>2. VendorWhole(job).fields = VendorFields(job, BuilderOf(job))
    BY <1>2, VendorPlaced DEF VendorPlaces
  <2>3. QED
    BY <2>1, <2>2 DEF VendorNext
<1>5. name \in Image /\ DOMAIN disk = Image /\ DOMAIN made = Image /\ job.output # name
      /\ (job.output # None => job.output \in Image)
  BY <1>0, <1>1, <1>2, OutputsNamed
<1>6. disk'[name] = img /\ \A n \in Image \ {name} : disk'[n] = disk[n] /\ made'[n] = made[n]
  BY <1>1, <1>5
<1>7. Unfit(VendorFields(job, BuilderOf(job))) = {}
  BY <1>1 DEF RebuildInv, FitInv
<1>8. \A n \in Image : FieldsFit(n)'
  <2>1. Unfit(disk'[name].fields) = {}
    BY <1>6, <1>7, <1>4
  <2>2. QED
    BY <1>6, <2>1 DEF RebuildInv, FitInv, FieldsFit
<1>9. FitInv'
  <2>1. pc' \notin BootPhase
    BY <1>1, <1>3 DEF BootPhase
  <2>2. QED
    BY <1>1, <1>8, <2>1, FitKept DEF RebuildInv
<1>10. RunInv'
  <2>1. ~BootDone(pc')
    BY <1>1, <1>3 DEF BootDone, Building, VendorPhase
  <2>2. CASE next # "output"
    <3>1. ~VendorDone(pc')
      BY <1>1, <1>3, <2>2 DEF VendorDone, Building, VendorPhase, BootPhase
    <3>2. QED
      BY <1>1, <2>1, <3>1, RunKept DEF RebuildInv
  <2>3. CASE next = "output"
    <3>1. disk'[job'.vendor_boot] = VendorWhole(job')
      BY <1>0, <1>1, <1>6, <2>3 DEF VendorNext
    <3>2. VendorLeft(job)'
      BY <3>1 DEF VendorLeft
    <3>3. QED
      BY <2>1, <3>2 DEF RunInv, BootDone
  <2>4. QED
    BY <2>2, <2>3
<1>11. QED
  BY <1>9, <1>10 DEF RebuildInv

LEMMA VendorDataRebuild ==
  ASSUME ImagesInv, TripInv, RebuildInv,
         WriteVendorRamdisk \/ WriteRamdisksPadded \/ WriteVendorDtb \/ WriteEntriesPadded
         \/ WriteBootconfig
  PROVE  RebuildInv'
BY VendorSteps, VendorWriteRebuild

\* the table that cannot be written,
LEMMA TableFailsRebuild ==
  ASSUME ImagesInv, TripInv, RebuildInv, WriteEntriesFails
  PROVE  RebuildInv'
<1>0. PICK name : name = job.vendor_boot
  OBVIOUS
<1>1. /\ pc = "vendor_table" /\ pc \in VendorPhase /\ pc \in Building
      /\ pc \in Building \ {"add_entry"} /\ pc' = "idle" /\ UNCHANGED <<job, made, info>>
      /\ pc' \notin VendorPhase \cup BootPhase /\ Unpackable # {}
      /\ \E img : disk' = [disk EXCEPT ![name] = img]
  BY <1>0 DEF WriteEntriesFails, Exit, mk, unpack, VendorPhase, BootPhase, Building
<1>2. /\ builder = BuilderOf(job) /\ name # None /\ ~made[name].whole
      /\ job.header_version = 4
  BY <1>0, <1>1 DEF TripInv, BuilderInv, StageInv, GoodVendor, Version
<1>3. DOMAIN disk = Image
  BY <1>1, OutputsNamed
<1>4. \A n \in Image \ {name} : disk'[n] = disk[n]
  BY <1>1, <1>3
<1>5. \A n \in Image : FieldsFit(n)'
  BY <1>1, <1>2, <1>4 DEF RebuildInv, FitInv, FieldsFit
<1>6. FitInv'
  BY <1>1, <1>5, FitKept DEF RebuildInv
<1>7. ~GoodRun(job)
  BY <1>0, <1>1, <1>2 DEF GoodRun, FitVendor, TypesFit, Unpackable, Added
<1>8. RunInv'
  BY <1>1, <1>7, RunKept DEF RebuildInv
<1>9. QED
  BY <1>6, <1>8 DEF RebuildInv

\* writing the header of a boot image,
LEMMA HeaderRebuild ==
  ASSUME ImagesInv, TripInv, RebuildInv, Header
  PROVE  RebuildInv'
<1>0. PICK name, f, stop, page :
         /\ name = job.output /\ f = BootFields(job) /\ page = PageOf(job)
         /\ stop = IF Version = 2 /\ filesize(job.dtb) = 0 THEN {19} ELSE {}
  OBVIOUS
<1>1. pc = "output" /\ UNCHANGED <<job, made, info>> /\ pc \in Building
      /\ pc \in Building \ BootPhase
  BY DEF Header, mk, unpack, Building, VendorPhase, BootPhase
<1>2. name # None => /\ disk[name] = Opened /\ ~made[name].whole
                     /\ name \in Image /\ DOMAIN disk = Image
                     /\ job.output # job.vendor_boot
  BY <1>0, <1>1, OutputsNamed DEF TripInv, OutputInv, EmptyOutput
<1>3. job.vendor_boot # None => job.vendor_boot \in Image
  BY <1>1, OutputsNamed
<1>4. Typed(job)
  BY <1>1 DEF TripInv, BuilderInv
<1>5. job.header_version \in Int
  BY <1>4, Zenon DEF Typed
<1>6. \/ UNCHANGED disk /\ pc' = "idle" /\ (name # None => ~GoodRun(job))
      \/ name # None /\ PutHeader(name, f, stop, page, "kernel")
  <2>1. CASE name = None
    BY <1>0, <2>1 DEF Header, Exit
  <2>2. CASE name # None /\ (Version > 4 \/ (job.second # None /\ Version > 2))
    <3>1. UNCHANGED disk /\ pc' = "idle"
      BY <1>0, <2>2 DEF Header, Exit
    <3>2. ~GoodRun(job)
      BY <1>0, <1>5, <2>2 DEF GoodRun, FitBoot, GoodBoot, Version
    <3>3. QED
      BY <3>1, <3>2
  <2>3. CASE name # None /\ ~(Version > 4 \/ (job.second # None /\ Version > 2)) /\ Version > 2
    <3>1. f = V3Fields(job) /\ page = BOOT_IMAGE_HEADER_V3_PAGESIZE /\ stop = {}
      BY <1>0, <1>5, <2>3 DEF BootFields, PageOf, Version
    <3>2. QED
      BY <1>0, <2>3, <3>1 DEF Header
  <2>4. CASE name # None /\ ~(Version > 4 \/ (job.second # None /\ Version > 2)) /\ ~(Version > 2)
    <3>1. f = V0Fields(job) /\ page = job.pagesize
      BY <1>0, <2>4 DEF BootFields, PageOf, Version
    <3>2. QED
      BY <1>0, <2>4, <3>1 DEF Header
  <2>5. QED
    BY <2>1, <2>2, <2>3, <2>4
<1>7. CASE UNCHANGED disk /\ pc' = "idle" /\ (name # None => ~GoodRun(job))
  <2>1. VendorDone(pc)
    BY <1>1 DEF VendorDone, Building, VendorPhase, BootPhase
  <2>2. RunInv'
    BY <1>0, <1>1, <1>7, <2>1, RunKept DEF RebuildInv
  <2>3. FitInv'
    BY <1>1, <1>7, FieldsKept, FitKept DEF RebuildInv, VendorPhase, BootPhase
  <2>4. QED
    BY <2>2, <2>3 DEF RebuildInv
<1>8. CASE name # None /\ PutHeader(name, f, stop, page, "kernel")
  <2>1. /\ \A n \in Image \ {name} : disk'[n] = disk[n]
        /\ \/ pc' = "kernel" /\ Unfit(f) = {} /\ disk'[name].fields = f
           \/ pc' = "idle" /\ Unfit(f) \cup stop # {}
    <3>1. name \in Image /\ DOMAIN disk = Image /\ DOMAIN disk[name] = DOMAIN Opened
      BY <1>2, <1>8
    <3>2. QED
      BY <1>8, <3>1, HeaderFits
  <2>2. \A n \in Image : FieldsFit(n)'
    BY <1>1, <1>2, <1>8, <2>1 DEF RebuildInv, FitInv, FieldsFit
  <2>3. FitInv'
    <3>1. pc' \notin VendorPhase /\ (pc' \in BootPhase => Unfit(f) = {})
      BY <2>1 DEF VendorPhase, BootPhase
    <3>2. QED
      BY <1>0, <1>1, <2>2, <3>1 DEF RebuildInv, FitInv
  <2>4. pc' = "idle" => ~GoodRun(job)
    <3>1. SUFFICES ASSUME pc' = "idle", FitBoot(job) PROVE FALSE
      BY <1>0, <1>8 DEF GoodRun
    <3>2. Unfit(f) = {}
      BY <1>0, <3>1 DEF FitBoot
    <3>3. stop = {}
      <4>1. filesize(job.dtb) > 0 => filesize(job.dtb) # 0
        OBVIOUS
      <4>2. QED
        BY <1>0, <3>1, <4>1 DEF FitBoot, GoodBoot, Version
    <3>4. QED
      BY <2>1, <3>1, <3>2, <3>3
  <2>5. VendorDone(pc) /\ (pc' = "kernel" => ~BootDone(pc'))
    BY <1>1 DEF VendorDone, BootDone, Building, VendorPhase, BootPhase
  <2>6. job.vendor_boot # None => disk'[job.vendor_boot] = disk[job.vendor_boot]
    BY <1>0, <1>2, <1>3, <1>8, <2>1
  <2>7. RunInv'
    BY <1>1, <2>1, <2>4, <2>5, <2>6, RunKept DEF RebuildInv
  <2>8. QED
    BY <2>3, <2>7 DEF RebuildInv
<1>9. QED
  BY <1>6, <1>7, <1>8

\* its parts,
LEMMA BootWriteRebuild ==
  ASSUME ImagesInv, TripInv, RebuildInv, NEW here \in BootPhase, NEW f, NEW present,
         NEW next \in BootPhase \ {"kernel"}, WriteBoot(here, f, present, next),
         NEW img, img = PartWritten(here, f, present), BootNext(next, img)
  PROVE  RebuildInv'
<1>0. PICK name : name = job.output
  OBVIOUS
<1>1. /\ pc \in BootPhase /\ pc \in Building /\ pc' = next /\ UNCHANGED <<job, made, info>>
      /\ disk' = IF present THEN [disk EXCEPT ![name] = img] ELSE disk
      /\ ~present => img = disk[name]
  <2>1. pc = here /\ pc' = next /\ UNCHANGED <<job, made, info>>
    BY DEF WriteBoot, mk, unpack
  <2>2. present => disk' = [disk EXCEPT ![name] = img]
    BY <1>0 DEF WriteBoot, PartWritten
  <2>3. ~present => disk' = disk /\ img = disk[name]
    BY <1>0 DEF WriteBoot, PartWritten
  <2>4. QED
    BY <2>1, <2>2, <2>3 DEF Building
<1>2. name # None /\ GoodBoot(job) /\ ~made[name].whole
  BY <1>0, <1>1 DEF TripInv, StageInv
<1>3. name \in Image /\ DOMAIN disk = Image /\ name # job.vendor_boot
      /\ (job.vendor_boot # None => job.vendor_boot \in Image)
  BY <1>0, <1>1, <1>2, OutputsNamed
<1>4. \A n \in Image \ {name} : disk'[n] = disk[n]
  BY <1>1, <1>3
<1>5. \A n \in Image : FieldsFit(n)'
  BY <1>1, <1>2, <1>4 DEF RebuildInv, FitInv, FieldsFit
<1>6. FitInv'
  <2>1. pc' \notin VendorPhase /\ pc # "unpack"
    BY <1>1 DEF VendorPhase, BootPhase
  <2>2. QED
    BY <1>1, <1>5, <2>1, FitKept DEF RebuildInv
<1>7. RunInv'
  <2>1. VendorDone(pc) /\ ~BootDone(pc')
    BY <1>1 DEF VendorDone, BootDone, Building, VendorPhase, BootPhase
  <2>2. job.vendor_boot # None => disk'[job.vendor_boot] = disk[job.vendor_boot]
    BY <1>3, <1>4
  <2>3. QED
    BY <1>1, <2>1, <2>2, RunKept DEF RebuildInv
<1>8. QED
  BY <1>6, <1>7 DEF RebuildInv

LEMMA BootDataRebuild ==
  ASSUME ImagesInv, TripInv, RebuildInv,
         WriteKernel \/ WriteRamdisk \/ WriteSecond \/ WriteDtbo \/ WriteDtb
  PROVE  RebuildInv'
BY BootSteps, BootWriteRebuild

\* and the signature.
LEMMA SignatureRebuild ==
  ASSUME ImagesInv, TripInv, RebuildInv, AddBootImageSignature
  PROVE  RebuildInv'
<1>0. PICK name : name = job.output
  OBVIOUS
<1>1. /\ pc = "boot_signature" /\ pc \in BootPhase /\ pc \in Building /\ pc' = "idle"
      /\ UNCHANGED <<job, info>>
  BY DEF AddBootImageSignature, Exit, mk, unpack, BootPhase, Building
<1>2. name # None /\ GoodBoot(job) /\ disk[name] = WithDtb(job)
  BY <1>0, <1>1 DEF TripInv, StageInv, BootStage
<1>3. /\ name \in Image /\ DOMAIN disk = Image /\ DOMAIN made = Image /\ name # job.vendor_boot
      /\ (job.vendor_boot # None => job.vendor_boot \in Image)
  BY <1>0, <1>1, <1>2, OutputsNamed
<1>4. job.header_version \in 0..4
  <2>1. job.header_version \in 0..4
    BY <1>2, Zenon DEF GoodBoot, Typed
  <2>2. QED
    BY <2>1
<1>5. VendorDone(pc) /\ pc' \notin VendorPhase \cup BootPhase /\ pc # "unpack"
  BY <1>1 DEF VendorDone, Building, VendorPhase, BootPhase
<1>6. CASE Version >= 4 /\ job.signature \in SigningFailed
  <2>1. disk' = disk /\ made' = made
    BY <1>6 DEF AddBootImageSignature, SigningFailed
  <2>2. ~GoodRun(job)
    BY <1>0, <1>2, <1>4, <1>6 DEF GoodRun, FitBoot, Version
  <2>3. RunInv'
    BY <1>1, <2>2, RunKept DEF RebuildInv
  <2>4. FitInv'
    BY <1>1, <1>5, <2>1, FieldsKept, FitKept DEF RebuildInv
  <2>5. QED
    BY <2>3, <2>4 DEF RebuildInv
<1>7. CASE ~(Version >= 4 /\ job.signature \in SigningFailed)
  <2>1. /\ made' = [made EXCEPT ![name].whole = TRUE]
        /\ disk' = IF Version < 4 THEN disk
                   ELSE [disk EXCEPT ![name] =
                           WritePadded(disk[name], "boot_signature", Signature, DataPage)]
    BY <1>0, <1>7 DEF AddBootImageSignature, SigningFailed
  <2>2. disk'[name] = Signed(job)
    <3>1. Signature = SignatureOf(job) /\ DataPage = PageOf(job)
      BY DEF Signature, SignatureOf, DataPage, PageOf, Version
    <3>2. QED
      BY <1>2, <1>3, <1>4, <2>1, <3>1 DEF Signed, Version
  <2>3. \A n \in Image \ {name} : disk'[n] = disk[n] /\ made'[n] = made[n]
    BY <1>3, <2>1
  <2>4. Unfit(disk'[name].fields) = {}
    <3>1. Signed(job).fields = BootFields(job)
      BY <1>2, BootPlaced DEF BootPlaces
    <3>2. QED
      BY <1>1, <2>2, <3>1 DEF RebuildInv, FitInv
  <2>5. \A n \in Image : FieldsFit(n)'
    BY <2>3, <2>4 DEF RebuildInv, FitInv, FieldsFit
  <2>6. FitInv'
    BY <1>1, <1>5, <2>5, FitKept DEF RebuildInv
  <2>7. BootLeft(job)'
    BY <1>0, <1>1, <2>2 DEF BootLeft
  <2>8. GoodRun(job') => VendorLeft(job)'
    BY <1>1, <1>3, <1>5, <2>3 DEF RebuildInv, RunInv, VendorLeft
  <2>9. RunInv'
    BY <2>7, <2>8 DEF RunInv, GoodRun, FitBoot, FitVendor, GoodBoot, GoodVendor
  <2>10. QED
    BY <2>6, <2>9 DEF RebuildInv
<1>8. QED
  BY <1>6, <1>7

\* RebuildInv is an invariant.
LEMMA RebuildInit ==
  ASSUME Init
  PROVE  RebuildInv
<1>1. /\ pc = "idle" /\ info = None /\ made = [n \in Image |-> None] /\ job = Defaults
  BY DEF Init
<1>2. RunInv
  BY <1>1, DefaultOptions DEF RunInv, VendorLeft, BootLeft
<1>3. FitInv
  BY <1>1 DEF FitInv, FieldsFit, VendorPhase, BootPhase
<1>4. QED
  BY <1>2, <1>3 DEF RebuildInv

LEMMA RebuildStep ==
  ASSUME ImagesInv, TripInv, RebuildInv, [Next]_vars
  PROVE  RebuildInv'
<1>1. CASE Build \/ Unpack \/ Repack
  BY <1>1, UserRebuild
<1>2. CASE MkbootimgStep
  <2>1. CASE UsageError \/ ParseCmdline
    BY <2>1, ParseRebuild
  <2>2. CASE AddEntry \/ EntriesAdded \/ CheckVendorBoot
    BY <2>2, TableRebuild
  <2>3. CASE VendorHeader
    BY <2>3, VendorHeaderRebuild
  <2>4. CASE WriteVendorRamdisk \/ WriteRamdisksPadded \/ WriteVendorDtb
             \/ WriteEntriesPadded \/ WriteBootconfig
    BY <2>4, VendorDataRebuild
  <2>5. CASE Header
    BY <2>5, HeaderRebuild
  <2>6. CASE WriteKernel \/ WriteRamdisk \/ WriteSecond \/ WriteDtbo \/ WriteDtb
    BY <2>6, BootDataRebuild
  <2>7. CASE AddBootImageSignature
    BY <2>7, SignatureRebuild
  <2>8. CASE WriteEntriesFails
    BY <2>8, TableFailsRebuild
  <2>9. QED
    BY <1>2, <2>1, <2>2, <2>3, <2>4, <2>5, <2>6, <2>7, <2>8 DEF MkbootimgStep
<1>3. CASE UnpackStep
  BY <1>3, UnpackRebuild
<1>4. CASE UNCHANGED vars
  <2>1. UNCHANGED <<pc, job, disk, made, info>>
    BY <1>4 DEF vars, mk, unpack
  <2>2. RunInv'
    BY <2>1, RunKept DEF RebuildInv
  <2>3. \A n \in Image : FieldsFit(n)'
    BY <2>1, FieldsKept DEF RebuildInv
  <2>4. FitInv'
    BY <2>1, <2>3 DEF RebuildInv, FitInv
  <2>5. QED
    BY <2>2, <2>4 DEF RebuildInv
<1>5. QED
  BY <1>1, <1>2, <1>3, <1>4 DEF Next, Step

LEMMA RebuildAlways == Spec => [](ImagesInv /\ TripInv /\ RebuildInv)
<1>1. Init => ImagesInv /\ TripInv /\ RebuildInv
  BY ImagesInit, TripInit, RebuildInit
<1>2. ImagesInv /\ TripInv /\ RebuildInv /\ [Next]_vars => (ImagesInv /\ TripInv /\ RebuildInv)'
  BY ImagesStep, TripStep, RebuildStep
<1>3. QED
  BY <1>1, <1>2, PTL DEF Spec

\* The table of a whole vendor_boot image of version 4 has been written, so that its types fit.
TypesOf(by) == by.job.header_version = 4 => TypesFit(BuilderOf(by.job))
TypesInv ==
    /\ pc = "vendor_bootconfig" => TypesFit(BuilderOf(job))
    /\ \A n \in Image :
         made[n] # None /\ made[n].whole /\ n = made[n].job.vendor_boot => TypesOf(made[n])
    /\ pc # "unpack" /\ info # None /\ info.job.whole /\ ~IsBoot(info.of) => TypesOf(info.job)

LEMMA TypesKept ==
  ASSUME TypesInv, made' = made, pc' # "vendor_bootconfig",
         pc' = "unpack" \/ (pc # "unpack" /\ UNCHANGED info)
  PROVE  TypesInv'
BY DEF TypesInv, TypesOf

\* What is read of an image whose table is written
LEMMA TypesRead ==
  ASSUME ImagesInv, TripInv, TypesInv, ReadHeader
  PROVE  TypesInv'
<1>1. pc = "unpack" /\ UNCHANGED <<made, disk>> /\ pc' \in {"idle", "extract"}
  BY DEF ReadHeader
<1>2. PICK img, by, name : img = Source /\ by = made[Name] /\ name = Name
  OBVIOUS
<1>3. name \in Image /\ by # None
  BY <1>1, <1>2 DEF ImagesInv, InfoInv, Name, ImageInv
<1>4. info' = None \/ (info'.of = img /\ info'.job = by)
  BY <1>2 DEF ReadHeader
<1>5. by.whole /\ ~IsBoot(img) => TypesOf(by)
  <2>1. ContentInv(name) /\ disk[name] = img /\ made[name] = by
    BY <1>2, <1>3 DEF TripInv, Source, Name
  <2>2. pc \notin VendorPhase \cup BootPhase
    BY <1>1 DEF VendorPhase, BootPhase
  <2>3. CompleteBoot(img, by) => IsBoot(img)
    BY BootComplete
  <2>4. by.whole /\ ~IsBoot(img) => name = by.job.vendor_boot
    BY <1>3, <2>1, <2>2, <2>3 DEF ContentInv
  <2>5. QED
    BY <1>3, <2>1, <2>4 DEF TypesInv
<1>6. info' # None /\ info'.job.whole /\ ~IsBoot(info'.of) => TypesOf(info'.job)
  BY <1>4, <1>5
<1>7. QED
  BY <1>1, <1>6 DEF TypesInv, TypesOf, IsBoot, Magic

\* What is written of one
LEMMA TypesWritten ==
  ASSUME ImagesInv, TripInv, TypesInv,
         WriteVendorRamdisk \/ WriteRamdisksPadded \/ WriteVendorDtb \/ WriteEntriesPadded
         \/ WriteBootconfig
  PROVE  TypesInv'
<1>0. PICK name : name = job.vendor_boot
  OBVIOUS
<1>1. /\ pc \in VendorPhase /\ pc \in Building /\ pc \in Building \ {"add_entry"}
      /\ pc # "unpack" /\ UNCHANGED <<job, info>>
  BY DEF WriteVendorRamdisk, WriteRamdisksPadded, WriteVendorDtb, WriteEntriesPadded,
         WriteBootconfig, WriteVendor, mk, unpack, VendorPhase, Building
<1>2. builder = BuilderOf(job) /\ GoodVendor(job)
  BY <1>1 DEF TripInv, BuilderInv, StageInv
<1>3. name \in Image /\ DOMAIN made = Image /\ made[name].job = job
  BY <1>0, <1>1, <1>2, OutputsNamed DEF GoodVendor
<1>4. DOMAIN made[name] = {"job", "whole"}
  <2>1. name \in Outputs
    BY <1>0, <1>2 DEF Outputs, GoodVendor
  <2>2. QED
    BY <1>1, <2>1 DEF ImagesInv, JobInv
<1>5. pc' = "vendor_bootconfig" => TypesFit(BuilderOf(job))
  BY <1>2 DEF WriteVendorRamdisk, WriteRamdisksPadded, WriteVendorDtb, WriteEntriesPadded,
         WriteBootconfig, WriteVendor, TypesFit, Unpackable, Added
<1>6. \/ made' = made
      \/ /\ made' = [made EXCEPT ![name].whole = TRUE]
         /\ pc = "vendor_bootconfig" \/ job.header_version = 3
  <2>1. Version > 3 <=> job.header_version # 3
    BY <1>2 DEF GoodVendor, Version
  <2>2. QED
    BY <1>0, <2>1 DEF WriteVendorRamdisk, WriteRamdisksPadded, WriteVendorDtb,
       WriteEntriesPadded, WriteBootconfig, WriteVendor
<1>7. ASSUME NEW n \in Image, made'[n] # None, made'[n].whole, n = made'[n].job.vendor_boot
      PROVE  TypesOf(made'[n])
  <2>1. CASE made'[n] = made[n]
    BY <1>7, <2>1 DEF TypesInv
  <2>2. CASE made'[n] # made[n]
    <3>1. n = name /\ made' = [made EXCEPT ![name].whole = TRUE]
          /\ (pc = "vendor_bootconfig" \/ job.header_version = 3)
      BY <1>3, <1>6, <2>2
    <3>2. made'[n].job = job
      BY <1>3, <1>4, <3>1
    <3>3. job.header_version = 4 => TypesFit(BuilderOf(job))
      BY <3>1 DEF TypesInv
    <3>4. QED
      BY <3>2, <3>3 DEF TypesOf
  <2>3. QED
    BY <2>1, <2>2
<1>8. QED
  BY <1>1, <1>5, <1>7 DEF TypesInv, TypesOf

\* Opening and signing
LEMMA TypesOpened ==
  ASSUME ImagesInv, TripInv, TypesInv, UsageError \/ ParseCmdline \/ AddBootImageSignature
  PROVE  TypesInv'
<1>1. UNCHANGED <<job, info>> /\ pc' # "vendor_bootconfig" /\ pc # "unpack"
  BY DEF UsageError, ParseCmdline, AddBootImageSignature, Exit, mk, unpack
<1>2. ASSUME NEW n \in Image, made'[n] # None, made'[n].whole, n = made'[n].job.vendor_boot
      PROVE  made'[n] = made[n]
  <2>1. CASE UsageError \/ ParseCmdline
    <3>1. made'[n] = [job |-> job, whole |-> FALSE] \/ made'[n] = made[n]
      BY <2>1 DEF UsageError, ParseCmdline, Open
    <3>2. QED
      BY <1>2, <3>1
  <2>2. CASE AddBootImageSignature
    <3>1. pc \in BootPhase /\ pc \in Building
      BY <2>2 DEF AddBootImageSignature, BootPhase, Building
    <3>2. job.output # None
      BY <3>1 DEF TripInv, StageInv
    <3>3. PICK name : name = job.output
      OBVIOUS
    <3>4. /\ name \in Image /\ DOMAIN made = Image /\ made[name].job = job
          /\ name # job.vendor_boot
      BY <3>1, <3>2, <3>3, OutputsNamed
    <3>5. DOMAIN made[name] = {"job", "whole"}
      BY <3>1, <3>2, <3>3 DEF ImagesInv, JobInv, Outputs
    <3>6. made' = made \/ made' = [made EXCEPT ![name].whole = TRUE]
      BY <2>2, <3>3 DEF AddBootImageSignature
    <3>7. n = name => made'[n].job = job
      BY <3>4, <3>5, <3>6
    <3>8. QED
      BY <1>2, <3>4, <3>6, <3>7
  <2>3. QED
    BY <2>1, <2>2
<1>3. QED
  BY <1>1, <1>2 DEF TypesInv, TypesOf

LEMMA TypesAlways == Spec => []TypesInv
<1>1. Init => TypesInv
  BY DEF Init, TypesInv
<1>2. ImagesInv /\ TripInv /\ TypesInv /\ [Next]_vars => TypesInv'
  <2> SUFFICES ASSUME ImagesInv, TripInv, TypesInv, [Next]_vars PROVE TypesInv'
    OBVIOUS
  <2>1. CASE Build \/ Unpack \/ Repack
    BY <2>1, TypesKept DEF Build, Unpack, Repack, unpack
  <2>2. CASE UsageError \/ ParseCmdline \/ AddBootImageSignature
    BY <2>2, TypesOpened
  <2>3. CASE WriteVendorRamdisk \/ WriteRamdisksPadded \/ WriteVendorDtb \/ WriteEntriesPadded
             \/ WriteBootconfig
    BY <2>3, TypesWritten
  <2>4. CASE \/ AddEntry \/ EntriesAdded \/ CheckVendorBoot \/ VendorHeader
             \/ WriteEntriesFails \/ Header
    <3>1. made' = made /\ pc' # "vendor_bootconfig" /\ pc # "unpack" /\ UNCHANGED info
      BY <2>4 DEF AddEntry, EntriesAdded, CheckVendorBoot, VendorHeader, WriteEntriesFails,
         Header, PutHeader, Exit, mk, unpack
    <3>2. QED
      BY <3>1, TypesKept
  <2>5. CASE WriteKernel \/ WriteRamdisk \/ WriteSecond \/ WriteDtbo \/ WriteDtb
    BY <2>5, TypesKept DEF WriteKernel, WriteRamdisk, WriteSecond, WriteDtbo, WriteDtb,
       WriteBoot, mk, unpack
  <2>6. CASE ReadHeader
    BY <2>6, TypesRead
  <2>7. CASE ExtractImage \/ LinkAndPrint
    BY <2>7, TypesKept DEF ExtractImage, LinkAndPrint
  <2>8. CASE UNCHANGED vars
    BY <2>8 DEF vars, mk, unpack, TypesInv, TypesOf, IsBoot, Magic
  <2>9. QED
    BY <2>1, <2>2, <2>3, <2>4, <2>5, <2>6, <2>7, <2>8
       DEF Next, Step, MkbootimgStep, UnpackStep
<1>3. QED
  BY <1>1, <1>2, TripAlways, PTL DEF Spec

-------------------------------------------------------------------------------
(* The same bytes written behind the same bytes                                *)

\* The versions that are read from a header and printed are written as they were.
LEMMA VersionsBack ==
  ASSUME NEW a, Typed(a), ArgumentsFit(a), NEW n,
         n = parse_os_version(a.os_version) * 2048 + parse_os_patch_level(a.os_patch_level)
  PROVE  LET v == decode_os_version(n)
             d == decode_os_patch_level(n)
         IN  /\ parse_os_version(v) * 2048 + parse_os_patch_level(d) = n
             /\ v # None => \A i \in 1..3 : v[i] < 128
             /\ d # None => d[1] \in 2000..2127 /\ d[2] \in 1..12
<1>1. PICK v, d : v = a.os_version /\ d = a.os_patch_level
  OBVIOUS
<1>2. v \in (Nat \X Nat \X Nat) \cup {None} /\ d \in (Nat \X Nat) \cup {None}
  BY <1>1, Zenon DEF Typed
<1>3. /\ v # None => \A i \in 1..3 : v[i] < 128
      /\ d # None => d[1] \in 2000..2127 /\ d[2] \in 1..12
  BY <1>1 DEF ArgumentsFit
<1>4. PICK m \in Nat : m = parse_os_version(v) /\ m < 128 * 16384
  <2>1. CASE v = None
    BY <2>1 DEF parse_os_version
  <2>2. CASE v # None
    <3>1. PICK i, j, k \in 0..127 : v[1] = i /\ v[2] = j /\ v[3] = k
      <4>1. v[1] \in Nat /\ v[2] \in Nat /\ v[3] \in Nat
        BY <1>2, <2>2
      <4>2. v[1] < 128 /\ v[2] < 128 /\ v[3] < 128
        BY <1>3, <2>2
      <4>3. v[1] \in 0..127 /\ v[2] \in 0..127 /\ v[3] \in 0..127
        BY <4>1, <4>2
      <4>4. QED
        BY <4>3
    <3>2. parse_os_version(v) = i * 16384 + j * 128 + k
      BY <2>2, <3>1 DEF parse_os_version
    <3>3. i * 16384 + j * 128 + k \in Nat /\ i * 16384 + j * 128 + k < 128 * 16384
      OBVIOUS
    <3>4. QED
      BY <3>2, <3>3, SMTT(60)
  <2>3. QED
    BY <2>1, <2>2
<1>5. PICK p \in Nat : /\ p = parse_os_patch_level(d) /\ p < 2048
                       /\ p # 0 => p % 16 \in 1..12
  BY <1>2, <1>3 DEF parse_os_patch_level
<1>6. n = m * 2048 + p
  <2>1. parse_os_version(a.os_version) = m /\ parse_os_patch_level(a.os_patch_level) = p
    BY <1>1, <1>4, <1>5
  <2>2. QED
    BY <2>1
<1>7. n \div 2048 = m /\ n % 2048 = p
  <2>1. p \in 0..2047
    BY <1>5, SMTT(60)
  <2>2. QED
    BY <1>6, <2>1
<1>8. PICK x, y : x = decode_os_version(n) /\ y = decode_os_patch_level(n)
  OBVIOUS
<1>9. /\ x = IF m = 0 THEN None ELSE <<m \div 16384, (m \div 128) % 128, m % 128>>
      /\ y = IF p = 0 THEN None ELSE <<p \div 16 + 2000, p % 16>>
  <2>1. x = format_os_version(m) /\ y = format_os_patch_level(p)
    BY <1>7, <1>8 DEF decode_os_version, decode_os_patch_level
  <2>2. QED
    BY <2>1 DEF format_os_version, format_os_patch_level
<1>10. parse_os_version(x) = m /\ (x # None => \A i \in 1..3 : x[i] < 128)
  <2>1. CASE m = 0
    BY <1>9, <2>1 DEF parse_os_version
  <2>2. CASE m # 0
    <3>1. PICK i, j, k \in Nat : i = m \div 16384 /\ j = (m \div 128) % 128 /\ k = m % 128
      OBVIOUS
    <3>2. i * 16384 + j * 128 + k = m /\ i < 128 /\ j < 128 /\ k < 128
      <4>1. PICK q \in Nat : q = m \div 128
        OBVIOUS
      <4>2. m = q * 128 + k /\ k < 128
        BY <3>1, <4>1
      <4>3. PICK l \in Nat : l = q \div 128
        OBVIOUS
      <4>4. q = l * 128 + j /\ j < 128
        BY <3>1, <4>1, <4>3
      <4>5. PICK r \in Nat : m = l * 16384 + r /\ r < 16384
        <5>1. m = l * 16384 + (j * 128 + k) /\ j * 128 + k < 16384 /\ j * 128 + k \in Nat
          BY <4>2, <4>4
        <5>2. QED
          BY <5>1
      <4>6. l = i
        <5>1. i * 16384 <= m /\ m < i * 16384 + 16384
          BY <3>1
        <5>2. QED
          BY <4>5, <5>1
      <4>7. QED
        BY <1>4, <4>2, <4>4, <4>5, <4>6
    <3>3. x = <<i, j, k>>
      BY <1>9, <2>2, <3>1
    <3>4. x # None
      BY <3>3, NoneAssumption
    <3>5. parse_os_version(x) = i * 16384 + j * 128 + k
      BY <3>3, <3>4 DEF parse_os_version
    <3>6. \A l \in 1..3 : x[l] < 128
      BY <3>2, <3>3
    <3>7. QED
      BY <3>2, <3>5, <3>6
  <2>3. QED
    BY <2>1, <2>2
<1>11. parse_os_patch_level(y) = p /\ (y # None => y[1] \in 2000..2127 /\ y[2] \in 1..12)
  <2>1. CASE p = 0
    BY <1>9, <2>1 DEF parse_os_patch_level
  <2>2. CASE p # 0
    <3>1. PICK i, j \in Nat : i = p \div 16 /\ j = p % 16
      OBVIOUS
    <3>2. i * 16 + j = p /\ i \in 0..127 /\ j \in 1..12
      BY <1>5, <2>2, <3>1
    <3>3. y = <<i + 2000, j>> /\ y \in Nat \X Nat
      BY <1>9, <2>2, <3>1
    <3>4. y # None
      BY <3>3, NoneAssumption
    <3>5. parse_os_patch_level(y) = (i + 2000 - 2000) * 16 + j
      BY <3>3, <3>4 DEF parse_os_patch_level
    <3>6. QED
      BY <3>2, <3>3, <3>5
  <2>3. QED
    BY <2>1, <2>2
<1>12. QED
  BY <1>6, <1>8, <1>10, <1>11

\* Files with the same bytes
LEMMA SameBytes ==
  ASSUME NEW f \in File \cup {None}, NEW g \in File \cup {None}, BytesOf(f) = BytesOf(g)
  PROVE  filesize(f) = filesize(g) /\ Hashed(f) = Hashed(g) /\ (filesize(f) > 0 => f = g)
         /\ BytesOf(BytesOf(f)) = BytesOf(f)
BY NoneAssumption DEF BytesOf, filesize, Hashed, File, Empty

\* pad_file() does nothing at the start of a page.
LEMMA NoPadding ==
  ASSUME NEW page \in PageSizes, NEW m \in Nat
  PROVE  PadLen(page * m, page) = 0
<1>1. CASE page = 2048
  BY <1>1 DEF PadLen
<1>2. CASE page = 4096
  BY <1>2 DEF PadLen
<1>3. CASE page = 8192
  BY <1>3 DEF PadLen
<1>4. CASE page = 16384
  BY <1>4 DEF PadLen
<1>5. QED
  BY <1>1, <1>2, <1>3, <1>4 DEF PageSizes

\* An image that ends with a page
Whole(img, page) ==
    /\ DOMAIN img = DOMAIN Opened /\ img.at = [p \in Part |-> img.at[p]]
    /\ img = [x \in DOMAIN img |-> img[x]]
    /\ \E m \in Nat : img.len = page * m

\* Writing a file that is not there or one that is empty makes no difference.
LEMMA SameWritten ==
  ASSUME NEW img, NEW page \in PageSizes, Whole(img, page), NEW part \in Part,
         NEW f \in File \cup {None}, NEW g \in File \cup {None}, BytesOf(f) = BytesOf(g)
  PROVE  /\ WritePadded(img, part, f, page) = WritePadded(img, part, g, page)
         /\ Whole(WritePadded(img, part, f, page), page)
<1>1. PICK m \in Nat : img.len = page * m
  BY DEF Whole
<1>2. /\ DOMAIN img = DOMAIN Opened /\ img.at = [p \in Part |-> img.at[p]]
      /\ img = [x \in DOMAIN img |-> img[x]]
  BY DEF Whole
<1>3. /\ "at" \in DOMAIN img /\ "len" \in DOMAIN img
  BY <1>2 DEF Opened
<1>4. WritePadded(img, part, Empty, page) = img
  <2>1. page * m + 0 = page * m /\ page * m \in Nat
    BY DEF PageSizes
  <2>2. PadLen(page * m + 0, page) = 0
    BY <2>1, NoPadding
  <2>3. WritePadded(img, part, Empty, page) =
          [img EXCEPT !.at[part] = img.at[part], !.len = page * m]
    <3>1. Empty # None /\ Empty.size = 0
      BY NoneAssumption DEF File, Empty
    <3>2. QED
      BY <1>1, <2>1, <2>2, <3>1 DEF WritePadded
  <2>4. QED
    BY <1>1, <1>2, <1>3, <2>3, ZenonT(60)
<1>5. WritePadded(img, part, None, page) = img
  BY DEF WritePadded
<1>6. ASSUME NEW h \in File \cup {None}
      PROVE  /\ filesize(h) = 0 => WritePadded(img, part, h, page) = img
             /\ Whole(WritePadded(img, part, h, page), page)
  <2>1. filesize(h) = 0 => h \in {Empty, None}
    BY DEF File, Empty, filesize
  <2>2. CASE filesize(h) = 0
    BY <1>4, <1>5, <2>1, <2>2
  <2>3. CASE filesize(h) # 0
    <3>1. PICK size \in Nat : h # None /\ size = h.size /\ size # 0
      BY <2>3, FileSizes DEF filesize
    <3>2. PICK k \in Nat : page * m + size + PadLen(page * m + size, page) = page * k
      <4>1. PICK n : n = get_number_of_pages(size, page)
        OBVIOUS
      <4>2. n \in Nat /\ page * m + size + PadLen(page * m + size, page) = page * (m + n)
        BY <4>1, PaddedPages
      <4>3. m + n \in Nat
        BY <4>2
      <4>4. QED
        BY <4>2, <4>3
    <3>3. PICK new : new = WritePadded(img, part, h, page)
      OBVIOUS
    <3>4. new = [img EXCEPT !.at[part] = [off |-> img.len, file |-> h], !.len = page * k]
      BY <1>1, <3>1, <3>2, <3>3 DEF WritePadded
    <3>5. /\ DOMAIN new = DOMAIN Opened /\ new.len = page * k
          /\ new.at = [img.at EXCEPT ![part] = [off |-> img.len, file |-> h]]
          /\ new = [x \in DOMAIN new |-> new[x]]
      BY <1>2, <1>3, <3>4
    <3>6. new.at = [p \in Part |-> new.at[p]]
      BY <1>2, <3>5
    <3>7. QED
      BY <2>3, <3>3, <3>5, <3>6 DEF Whole
  <2>4. QED
    BY <2>2, <2>3
<1>7. QED
  <2>1. filesize(f) = filesize(g) /\ (filesize(f) > 0 => f = g) /\ filesize(f) \in Nat
    BY SameBytes, FileSizes
  <2>2. CASE filesize(f) = 0
    BY <1>6, <2>1, <2>2
  <2>3. CASE filesize(f) > 0
    BY <1>6, <2>1, <2>3
  <2>4. QED
    BY <2>1, <2>2, <2>3

-------------------------------------------------------------------------------
(* What is printed for a boot image builds the same image                      *)

\* What a header says besides the sizes of the parts
VersionsOf(a) ==
    parse_os_version(a.os_version) * 2048 + parse_os_patch_level(a.os_patch_level)
IfBytes(f, n) == IF filesize(f) > 0 THEN n ELSE 0
OldAddresses(a) ==
    <<a.base + a.kernel_offset, IfBytes(a.ramdisk, a.base + a.ramdisk_offset),
      IfBytes(a.second, a.base + a.second_offset), a.base + a.tags_offset>>

LEMMA OldHeaderRead ==
  ASSUME NEW a, a.header_version \in 0..2
  PROVE  LET h == BootInfo(V0Fields(a))
         IN  /\ h.os_version = decode_os_version(VersionsOf(a))
             /\ h.os_patch_level = decode_os_patch_level(VersionsOf(a))
             /\ h.product_name = a.board /\ h.load = OldAddresses(a)
             /\ a.header_version = 2 => h.dtb_load_address = a.base + a.dtb_offset
<1> DEFINE f == V0Fields(a)
           h == BootInfo(f)
           g == V0Front(a)
<1>1. /\ \A k \in 1..15 : f[k] = g[k]
      /\ a.header_version = 2 => f[20].v = a.base + a.dtb_offset
  BY V0Values
<1> HIDE DEF f, g
<1>2. /\ f[3] = g[3] /\ f[5] = g[5] /\ f[7] = g[7] /\ f[8] = g[8] /\ f[10] = g[10]
      /\ f[11] = g[11] /\ f[12] = g[12]
  BY <1>1
<1>3. /\ g[3].v = a.base + a.kernel_offset /\ g[8].v = a.base + a.tags_offset
      /\ g[10].v = a.header_version /\ g[12].v = a.board
  BY DEF g, V0Front, Field
<1>4. g[5].v = IfBytes(a.ramdisk, a.base + a.ramdisk_offset)
  BY DEF g, V0Front, Field, IfBytes
<1>5. g[7].v = IfBytes(a.second, a.base + a.second_offset)
  BY DEF g, V0Front, Field, IfBytes
<1>6. g[11].v = VersionsOf(a)
  BY DEF g, V0Front, Field, VersionsOf
<1>7. /\ f[10].v < 3 /\ (f[10].v = 2 <=> a.header_version = 2)
  BY <1>2, <1>3
<1>8. /\ h.os_version = decode_os_version(f[11].v)
      /\ h.os_patch_level = decode_os_patch_level(f[11].v)
      /\ h.product_name = f[12].v /\ h.load = <<f[3].v, f[5].v, f[7].v, f[8].v>>
      /\ a.header_version = 2 => h.dtb_load_address = f[20].v
  BY <1>7 DEF BootInfo
<1>9. h.load = OldAddresses(a)
  BY <1>2, <1>3, <1>4, <1>5, <1>8 DEF OldAddresses
<1>10. h.os_version = decode_os_version(VersionsOf(a))
       /\ h.os_patch_level = decode_os_patch_level(VersionsOf(a))
  BY <1>2, <1>6, <1>8
<1>11. QED
  BY <1>1, <1>2, <1>3, <1>8, <1>9, <1>10 DEF f

LEMMA NewHeaderRead ==
  ASSUME NEW a, a.header_version \in 3..4
  PROVE  LET h == BootInfo(V3Fields(a))
         IN  /\ h.os_version = decode_os_version(VersionsOf(a))
             /\ h.os_patch_level = decode_os_patch_level(VersionsOf(a))
<1> DEFINE f == V3Fields(a)
           h == BootInfo(f)
           g == V3Front(a)
<1>1. \A k \in 1..11 : f[k] = g[k]
  BY V3Values
<1> HIDE DEF f, g
<1>2. f[4] = g[4] /\ f[10] = g[10]
  BY <1>1
<1>3. g[10].v = a.header_version
  BY DEF g, V3Front, Field
<1>4. g[4].v = VersionsOf(a)
  BY DEF g, V3Front, Field, VersionsOf
<1>5. ~(f[10].v < 3)
  BY <1>2, <1>3
<1>6. h.os_version = decode_os_version(f[4].v) /\ h.os_patch_level = decode_os_patch_level(f[4].v)
  BY <1>5 DEF BootInfo
<1>7. QED
  BY <1>2, <1>4, <1>6 DEF f

\* Two jobs that build the same boot image: the same files, the same header
SameBootFiles(d, a) ==
    /\ BytesOf(d.kernel) = BytesOf(a.kernel) /\ BytesOf(d.ramdisk) = BytesOf(a.ramdisk)
    /\ BytesOf(d.second) = BytesOf(a.second)
    /\ BytesOf(DtboOf(d)) = BytesOf(DtboOf(a)) /\ BytesOf(DtbOf(d)) = BytesOf(DtbOf(a))
SameBoot(d, a) ==
    /\ SameBootFiles(d, a) /\ d.header_version = a.header_version
    /\ d.cmdline = a.cmdline /\ VersionsOf(d) = VersionsOf(a)
    /\ a.header_version = 4 => d.signature = a.signature
    /\ a.header_version <= 2 =>
         /\ d.pagesize = a.pagesize /\ d.board = a.board /\ OldAddresses(d) = OldAddresses(a)
         /\ DtboOf(d) = None <=> DtboOf(a) = None
    /\ a.header_version = 2 => d.base + d.dtb_offset = a.base + a.dtb_offset

LEMMA SameBootFields ==
  ASSUME NEW a, NEW d, GoodBoot(a), GoodBoot(d), SameBoot(d, a)
  PROVE  BootFields(d) = BootFields(a) /\ PageOf(d) = PageOf(a)
<1>1. a.header_version \in 0..4 /\ d.header_version = a.header_version
  <2>1. a.header_version \in 0..4
    BY Zenon DEF GoodBoot, Typed
  <2>2. QED
    BY <2>1 DEF SameBoot
<1>2. /\ filesize(d.kernel) = filesize(a.kernel) /\ Hashed(d.kernel) = Hashed(a.kernel)
      /\ filesize(d.ramdisk) = filesize(a.ramdisk) /\ Hashed(d.ramdisk) = Hashed(a.ramdisk)
      /\ filesize(d.second) = filesize(a.second) /\ Hashed(d.second) = Hashed(a.second)
      /\ filesize(DtboOf(d)) = filesize(DtboOf(a)) /\ Hashed(DtboOf(d)) = Hashed(DtboOf(a))
      /\ filesize(DtbOf(d)) = filesize(DtbOf(a)) /\ Hashed(DtbOf(d)) = Hashed(DtbOf(a))
  <2>1. \A x \in {a, d} : \A f \in {x.kernel, x.ramdisk, x.second, DtboOf(x), DtbOf(x)} :
           f \in File \cup {None}
    BY OptionsTyped DEF GoodBoot
  <2>2. QED
    BY <2>1, SameBytes DEF SameBoot, SameBootFiles
<1>3. d.cmdline = a.cmdline /\ VersionsOf(d) = VersionsOf(a)
  BY DEF SameBoot
<1>4. CASE a.header_version \in 3..4
  <2>1. V3Front(d) = V3Front(a)
    <3>1. V3HeaderSize(d) = V3HeaderSize(a)
      BY <1>1 DEF V3HeaderSize
    <3>2. QED
      BY <1>1, <1>2, <1>3, <3>1 DEF V3Front, VersionsOf
  <2>2. \A x \in {a, d} :
          V3Fields(x) = V3Front(x) \o (IF x.header_version >= 4 THEN V4Rest ELSE << >>)
    BY DEF V3Fields, V3Front, V4Rest
  <2>3. V3Fields(d) = V3Fields(a)
    <3>1. PICK rest : rest = IF a.header_version >= 4 THEN V4Rest ELSE << >>
      OBVIOUS
    <3>2. V3Fields(a) = V3Front(a) \o rest
      BY <2>2, <3>1
    <3>3. V3Fields(d) = V3Front(d) \o rest
      BY <1>1, <2>2, <3>1
    <3>4. QED
      BY <2>1, <3>2, <3>3
  <2>4. QED
    BY <1>1, <1>4, <2>3 DEF BootFields, PageOf
<1>5. CASE a.header_version \in 0..2
  <2>1. /\ d.pagesize = a.pagesize /\ d.board = a.board
        /\ OldAddresses(d) = OldAddresses(a) /\ (DtboOf(d) = None <=> DtboOf(a) = None)
        /\ a.header_version = 2 => d.base + d.dtb_offset = a.base + a.dtb_offset
    BY <1>5 DEF SameBoot
  <2>2. /\ d.base + d.kernel_offset = a.base + a.kernel_offset
        /\ IfBytes(d.ramdisk, d.base + d.ramdisk_offset)
             = IfBytes(a.ramdisk, a.base + a.ramdisk_offset)
        /\ IfBytes(d.second, d.base + d.second_offset)
             = IfBytes(a.second, a.base + a.second_offset)
        /\ d.base + d.tags_offset = a.base + a.tags_offset
    BY <2>1 DEF OldAddresses
  <2>3. a.header_version > 0 => DtboOf(a) = a.recovery_dtbo /\ DtboOf(d) = d.recovery_dtbo
    BY <1>1, <1>5 DEF DtboOf
  <2>4. a.header_version > 1 => DtbOf(a) = a.dtb /\ DtbOf(d) = d.dtb
    BY <1>1, <1>5 DEF DtbOf
  <2>5. Sha(d) = Sha(a)
    BY <1>1, <1>2, <2>3, <2>4 DEF Sha
  <2>6. get_recovery_dtbo_offset(d) = get_recovery_dtbo_offset(a)
    BY <1>2, <2>1 DEF get_recovery_dtbo_offset
  <2>7. V0Front(d) = V0Front(a)
    <3>1. \A x \in {a, d} : V0Front(x) =
            << Field(8, "ANDROID!"),
               Field(4, filesize(x.kernel)), Field(4, x.base + x.kernel_offset),
               Field(4, filesize(x.ramdisk)),
               Field(4, IfBytes(x.ramdisk, x.base + x.ramdisk_offset)),
               Field(4, filesize(x.second)),
               Field(4, IfBytes(x.second, x.base + x.second_offset)),
               Field(4, x.base + x.tags_offset), Field(4, x.pagesize),
               Field(4, x.header_version), Field(4, VersionsOf(x)),
               Field(BOOT_NAME_SIZE, x.board), Field(BOOT_ARGS_SIZE, cmdline(x.cmdline)),
               Field(32, Sha(x)), Field(BOOT_EXTRA_ARGS_SIZE, extra_cmdline(x.cmdline)) >>
      BY DEF V0Front, IfBytes, VersionsOf
    <3>2. cmdline(d.cmdline) = cmdline(a.cmdline) /\ extra_cmdline(d.cmdline) = extra_cmdline(a.cmdline)
      BY <1>3
    <3>3. QED
      BY <1>1, <1>2, <1>3, <2>1, <2>2, <2>5, <3>1, <3>2
  <2>8. a.header_version > 0 => V1Rest(d) = V1Rest(a)
    BY <1>1, <1>2, <2>1, <2>3, <2>6 DEF V1Rest
  <2>9. a.header_version > 1 => V2Rest(d) = V2Rest(a)
    BY <1>2, <1>5, <2>1, <2>4 DEF V2Rest
  <2>10. \A x \in {a, d} :
           V0Fields(x) = V0Front(x) \o (IF x.header_version > 0 THEN V1Rest(x) ELSE << >>)
                                    \o (IF x.header_version > 1 THEN V2Rest(x) ELSE << >>)
    BY DEF V0Fields, V0Front, V1Rest, V2Rest, Sha
  <2>11. V0Fields(d) = V0Fields(a)
    <3>1. PICK dtbo, dtb : /\ dtbo = IF a.header_version > 0 THEN V1Rest(a) ELSE << >>
                           /\ dtb = IF a.header_version > 1 THEN V2Rest(a) ELSE << >>
      OBVIOUS
    <3>2. V0Fields(a) = V0Front(a) \o dtbo \o dtb
      BY <2>10, <3>1
    <3>3. V0Fields(d) = V0Front(d) \o dtbo \o dtb
      BY <1>1, <2>8, <2>9, <2>10, <3>1
    <3>4. QED
      BY <2>7, <3>2, <3>3
  <2>12. QED
    BY <1>1, <1>5, <2>1, <2>11 DEF BootFields, PageOf
<1>6. QED
  BY <1>1, <1>4, <1>5

\* What has just been headed ends with a page.
LEMMA HeadedWhole ==
  ASSUME NEW fields, Width(fields) \in Nat, NEW page \in PageSizes
  PROVE  Whole(Headed(fields, page), page)
<1>1. PICK img, m : img = Headed(fields, page) /\ m = get_number_of_pages(Width(fields), page)
  OBVIOUS
<1>2. Tidy(img) /\ img.len = page * m /\ m \in Nat
  <2>1. PICK w \in Nat : w = Width(fields)
    OBVIOUS
  <2>2. get_number_of_pages(w, page) \in Nat
    BY PaddedPages
  <2>3. QED
    BY <1>1, <2>1, <2>2, HeadedTidy
<1>3. img = [x \in DOMAIN img |-> img[x]]
  BY <1>1 DEF Headed, Opened
<1>4. QED
  BY <1>1, <1>2, <1>3 DEF Whole, Tidy

LEMMA SameBootImage ==
  ASSUME NEW a, NEW d, GoodBoot(a), GoodBoot(d), SameBoot(d, a)
  PROVE  Signed(d) = Signed(a)
<1>1. PICK page, fields : page = PageOf(a) /\ fields = BootFields(a)
  OBVIOUS
<1>2. PageOf(d) = page /\ BootFields(d) = fields
  BY <1>1, SameBootFields
<1>3. a.header_version \in 0..4 /\ d.header_version = a.header_version
  <2>1. a.header_version \in 0..4
    BY Zenon DEF GoodBoot, Typed
  <2>2. QED
    BY <2>1 DEF SameBoot
<1>4. page \in PageSizes
  BY <1>1 DEF GoodBoot, PageOf, PageSizes, BOOT_IMAGE_HEADER_V3_PAGESIZE
<1>5. Whole(WithHeader(a), page) /\ WithHeader(d) = WithHeader(a)
  <2>1. Width(fields) \in Nat
    <3>1. Width(BootFields(a)) \in 1..2048
      BY <1>3, BootWidth
    <3>2. PICK w \in 1..2048 : w = Width(BootFields(a))
      BY <3>1
    <3>3. QED
      BY <1>1, <3>2, SMTT(60)
  <2>2. QED
    BY <1>1, <1>2, <1>4, <2>1, HeadedWhole DEF WithHeader
<1>6. \A x \in {a, d} : \A f \in {x.kernel, x.ramdisk, x.second, DtboOf(x), DtbOf(x)} :
         f \in File \cup {None}
  BY OptionsTyped DEF GoodBoot
<1>7. SameBootFiles(d, a)
  BY DEF SameBoot
<1>8. {"kernel", "ramdisk", "second", "recovery_dtbo", "dtb", "boot_signature"} \subseteq Part
  BY DEF Part
<1>9. Whole(WithKernel(a), page) /\ WithKernel(d) = WithKernel(a)
  BY <1>1, <1>2, <1>4, <1>5, <1>6, <1>7, <1>8, SameWritten, SMTT(60) DEF WithKernel, SameBootFiles
<1>10. Whole(WithRamdisk(a), page) /\ WithRamdisk(d) = WithRamdisk(a)
  BY <1>1, <1>2, <1>4, <1>9, <1>6, <1>7, <1>8, SameWritten, SMTT(60) DEF WithRamdisk, SameBootFiles
<1>11. Whole(WithSecond(a), page) /\ WithSecond(d) = WithSecond(a)
  BY <1>1, <1>2, <1>4, <1>10, <1>6, <1>7, <1>8, SameWritten, SMTT(60) DEF WithSecond, SameBootFiles
<1>12. Whole(WithDtbo(a), page) /\ WithDtbo(d) = WithDtbo(a)
  BY <1>1, <1>2, <1>4, <1>11, <1>6, <1>7, <1>8, SameWritten DEF WithDtbo, SameBootFiles
<1>13. WithDtb(d) = WithDtb(a)
  BY <1>1, <1>2, <1>4, <1>12, <1>6, <1>7, <1>8, SameWritten DEF WithDtb, SameBootFiles
<1>14. a.header_version = 4 => SignatureOf(d) = SignatureOf(a)
  BY DEF SameBoot, SignatureOf
<1>15. QED
  BY <1>1, <1>2, <1>3, <1>13, <1>14 DEF Signed

\* The job that is printed for a boot image: which files it names,
LEMMA BootPrintedFiles ==
  ASSUME ReadInv, pc \notin {"unpack", "extract"}, info # None, IsBoot(info.of)
  PROVE  LET a == info.job.job
             d == format_mkbootimg_argument
         IN  /\ SameBootFiles(d, a) /\ d.header_version = a.header_version
             /\ a.header_version > 2 => d.second = None
             /\ filesize(DtboOf(a)) > 0 => DtboOf(d) # None
             /\ filesize(DtboOf(a)) = 0 => DtboOf(d) = None
             /\ filesize(d.second) = filesize(a.second)
             /\ filesize(d.ramdisk) = filesize(a.ramdisk)
<1>1. PICK a, h, d, c : /\ a = info.job.job /\ h = info.header /\ d = format_mkbootimg_argument
                        /\ c = BootArguments(h)
  OBVIOUS
<1>2. GoodBoot(a) /\ h = BootInfo(BootFields(a)) /\ a.header_version \in 0..4
  BY <1>1, ReadComplete, BootComplete
<1>3. /\ h.header_version = a.header_version
      /\ h.second_size = filesize(a.second) /\ h.recovery_dtbo_size = filesize(DtboOf(a))
      /\ h.dtb_size = filesize(DtbOf(a))
  BY <1>2, BootSizes
<1>4. /\ a.kernel \in File \cup {None} /\ a.ramdisk \in File \cup {None}
      /\ a.second \in File \cup {None} /\ DtboOf(a) \in File \cup {None}
      /\ DtbOf(a) \in File \cup {None}
  BY <1>2, OptionsTyped DEF GoodBoot
<1>5. /\ PartsOf(a)["kernel"] = a.kernel /\ PartsOf(a)["ramdisk"] = a.ramdisk
      /\ PartsOf(a)["second"] = a.second /\ PartsOf(a)["recovery_dtbo"] = DtboOf(a)
      /\ PartsOf(a)["dtb"] = DtbOf(a)
  BY <1>2, PartsAre
<1>6. /\ outdir["kernel"] = BytesOf(a.kernel) /\ outdir["ramdisk"] = BytesOf(a.ramdisk)
      /\ filesize(a.second) > 0 => outdir["second"] = BytesOf(a.second)
      /\ filesize(DtboOf(a)) > 0 => outdir["recovery_dtbo"] = BytesOf(DtboOf(a))
      /\ filesize(DtbOf(a)) > 0 => outdir["dtb"] = BytesOf(DtbOf(a))
  <2>1. {"kernel", "ramdisk", "second", "recovery_dtbo", "dtb"} \subseteq Part
    BY DEF Part
  <2>2. \A p \in Part : p \in {"kernel", "ramdisk"} \/ filesize(PartsOf(a)[p]) > 0
                          => outdir[p] = BytesOf(PartsOf(a)[p])
    BY <1>1, BootOut
  <2>3. QED
    BY <1>5, <2>1, <2>2
\* a part that is optional is not named if it has no bytes
<1>7. ASSUME NEW f \in File \cup {None}, NEW p, filesize(f) > 0 => outdir[p] = BytesOf(f),
             NEW g, g = FileIf(filesize(f) > 0, p)
      PROVE  /\ BytesOf(g) = BytesOf(f) /\ filesize(g) = filesize(f)
             /\ filesize(f) > 0 => g # None
             /\ filesize(f) = 0 => g = None
  <2>1. filesize(f) \in Nat /\ filesize(None) = 0 /\ BytesOf(None) = Empty
    BY FileSizes DEF filesize, BytesOf
  <2>2. CASE filesize(f) > 0
    BY <1>7, <2>1, <2>2, FileSizes DEF FileIf
  <2>3. CASE filesize(f) = 0
    BY <1>7, <2>1, <2>3, FileSizes DEF FileIf
  <2>4. QED
    BY <2>1, <2>2, <2>3
<1>8. ASSUME NEW f \in File \cup {None}
      PROVE  BytesOf(BytesOf(f)) = BytesOf(f) /\ filesize(BytesOf(f)) = filesize(f)
  BY NoneAssumption DEF BytesOf, filesize, File, Empty
<1>9. /\ c.header_version = h.header_version /\ c.kernel = outdir["kernel"]
      /\ c.ramdisk = outdir["ramdisk"] /\ c.second = None
  <2>1. /\ c.header_version = h.header_version /\ c.kernel = outdir["kernel"]
        /\ c.ramdisk = outdir["ramdisk"]
        /\ \A o \in Options \ {"header_version", "os_version", "os_patch_level", "kernel",
                               "ramdisk", "cmdline", "output"} : c[o] = Defaults[o]
    BY <1>1, BootPrinted
  <2>2. QED
    BY <2>1, DefaultOptions DEF Options
<1>10. CASE a.header_version \in 3..4
  <2>1. d = c
    BY <1>1, <1>3, <1>10 DEF format_mkbootimg_argument
  <2>2. /\ DtboOf(a) = None /\ DtbOf(a) = None /\ DtboOf(d) = None /\ DtbOf(d) = None
    BY <1>3, <1>9, <1>10, <2>1 DEF DtboOf, DtbOf
  <2>3. a.second = None
    BY <1>2, <1>10 DEF GoodBoot
  <2>4. filesize(None) = 0
    BY DEF filesize
  <2>5. QED
    BY <1>1, <1>3, <1>4, <1>6, <1>8, <1>9, <1>10, <2>1, <2>2, <2>3, <2>4 DEF SameBootFiles
<1>11. CASE a.header_version \in 0..2
  <2>1. d = OldBootArguments(h)
    BY <1>1, <1>3, <1>11 DEF format_mkbootimg_argument
  <2>2. /\ d.second = FileIf(h.second_size > 0, "second")
        /\ d.recovery_dtbo = FileIf(h.recovery_dtbo_size > 0, "recovery_dtbo")
        /\ d.dtb = FileIf(h.dtb_size > 0, "dtb")
        /\ d.header_version = c.header_version /\ d.kernel = c.kernel /\ d.ramdisk = c.ramdisk
    <3>1. /\ d.second = FileIf(h.second_size > 0, "second")
          /\ d.recovery_dtbo = FileIf(h.recovery_dtbo_size > 0, "recovery_dtbo")
          /\ d.dtb = FileIf(h.dtb_size > 0, "dtb")
          /\ \A o \in Options \ {"second", "recovery_dtbo", "dtb", "pagesize", "base",
                                 "kernel_offset", "ramdisk_offset", "second_offset",
                                 "tags_offset", "dtb_offset", "board"} :
               d[o] = BootArguments(h)[o]
      BY <2>1, OldBootPrinted
    <3>2. QED
      BY <1>1, <3>1 DEF Options
  <2>3. BytesOf(d.second) = BytesOf(a.second) /\ filesize(d.second) = filesize(a.second)
    BY <1>3, <1>4, <1>6, <1>7, <2>2
  <2>4. /\ BytesOf(d.recovery_dtbo) = BytesOf(DtboOf(a))
        /\ filesize(DtboOf(a)) > 0 => d.recovery_dtbo # None
        /\ filesize(DtboOf(a)) = 0 => d.recovery_dtbo = None
    BY <1>3, <1>4, <1>6, <1>7, <2>2
  <2>5. /\ BytesOf(d.dtb) = BytesOf(DtbOf(a))
    BY <1>3, <1>4, <1>6, <1>7, <2>2
  <2>6. filesize(None) = 0 /\ d.header_version = a.header_version
    BY <1>3, <1>9, <2>2 DEF filesize
  <2>7. /\ BytesOf(DtboOf(d)) = BytesOf(DtboOf(a))
        /\ filesize(DtboOf(a)) > 0 => DtboOf(d) # None
        /\ filesize(DtboOf(a)) = 0 => DtboOf(d) = None
    BY <2>4, <2>6 DEF DtboOf
  <2>8. BytesOf(DtbOf(d)) = BytesOf(DtbOf(a))
    BY <2>5, <2>6 DEF DtbOf
  <2>9. QED
    BY <1>1, <1>4, <1>6, <1>8, <1>9, <1>11, <2>2, <2>3, <2>6, <2>7, <2>8 DEF SameBootFiles
<1>12. QED
  BY <1>2, <1>10, <1>11

\* and what it says besides.
LEMMA BootPrintedSame ==
  ASSUME ReadInv, FitInv, pc \notin {"unpack", "extract"}, info # None, IsBoot(info.of),
         info.job.whole, ~NotPrinted(info.job.job)
  PROVE  LET a == info.job.job
             d == format_mkbootimg_argument
         IN  /\ SameBoot(d, a) /\ GoodBoot(d) /\ ArgumentsFit(d)
             /\ d.output = "repacked.img" /\ d.vendor_boot = None /\ d.fragments = << >>
             /\ d.signature = "zeros"
<1>1. PICK a, h, d, c : /\ a = info.job.job /\ h = info.header /\ d = format_mkbootimg_argument
                        /\ c = BootArguments(h)
  OBVIOUS
<1>2. GoodBoot(a) /\ ArgumentsFit(a) /\ h = BootInfo(BootFields(a)) /\ a.header_version \in 0..4
  BY <1>1, ReadComplete, BootComplete
<1>3. Typed(a) /\ Typed(d)
  BY <1>1, <1>2, BootPrintedTyped DEF GoodBoot
<1>4. /\ SameBootFiles(d, a) /\ d.header_version = a.header_version
      /\ a.header_version > 2 => d.second = None
      /\ filesize(DtboOf(a)) > 0 => DtboOf(d) # None
      /\ filesize(DtboOf(a)) = 0 => DtboOf(d) = None
      /\ filesize(d.second) = filesize(a.second) /\ filesize(d.ramdisk) = filesize(a.ramdisk)
  BY <1>1, BootPrintedFiles
<1>5. /\ h.header_version = a.header_version /\ h.page_size = PageOf(a)
  BY <1>2, BootSizes
<1>6. /\ c.os_version = h.os_version /\ c.os_patch_level = h.os_patch_level
      /\ c.cmdline = h.cmdline /\ c.output = "repacked.img"
      /\ \A o \in Options \ {"header_version", "os_version", "os_patch_level", "kernel",
                             "ramdisk", "cmdline", "output"} : c[o] = Defaults[o]
  BY <1>1, BootPrinted
<1>7. /\ c.vendor_boot = None /\ c.fragments = << >> /\ c.signature = "zeros"
      /\ c.vendor_cmdline = 0 /\ c.board = 0 /\ c.pagesize = 2048
  BY <1>6, DefaultOptions DEF Options, Defaults
<1>8. h.cmdline = a.cmdline
  BY <1>2, BootHeaderTyped
<1>9. a.header_version = 4 => a.signature = "zeros"
  <2>1. a.output # None
    BY <1>1 DEF FitInv
  <2>2. QED
    BY <1>1, <2>1 DEF NotPrinted
<1>10. a.header_version \in 0..2 => (DtboOf(d) = None <=> DtboOf(a) = None)
  <2>1. DtboOf(a) \in File \cup {None}
    BY <1>3, OptionsTyped
  <2>2. filesize(DtboOf(a)) \in Nat
    BY <2>1, FileSizes
  <2>3. DtboOf(a) # None => filesize(DtboOf(a)) # 0
    BY <1>1 DEF NotPrinted, DtboOf, filesize
  <2>4. DtboOf(a) = None => filesize(DtboOf(a)) = 0
    BY DEF filesize
  <2>5. QED
    BY <1>4, <2>2, <2>3, <2>4
<1>11. /\ h.os_version = decode_os_version(VersionsOf(a))
       /\ h.os_patch_level = decode_os_patch_level(VersionsOf(a))
       /\ a.header_version <= 2 => h.product_name = a.board /\ h.load = OldAddresses(a)
       /\ a.header_version = 2 => h.dtb_load_address = a.base + a.dtb_offset
  <2>1. CASE a.header_version \in 0..2
    BY <1>2, <2>1, OldHeaderRead DEF BootFields
  <2>2. CASE a.header_version \in 3..4
    BY <1>2, <2>2, NewHeaderRead DEF BootFields
  <2>3. QED
    BY <1>2, <2>1, <2>2
<1>12. \/ a.header_version > 2 /\ d = c
       \/ a.header_version <= 2 /\ d = OldBootArguments(h)
  BY <1>1, <1>2, <1>5 DEF format_mkbootimg_argument
<1>13. /\ d.os_version = h.os_version /\ d.os_patch_level = h.os_patch_level
       /\ d.cmdline = a.cmdline /\ d.output = "repacked.img" /\ d.vendor_boot = None
       /\ d.fragments = << >> /\ d.signature = "zeros" /\ d.vendor_cmdline = 0
  <2>1. {"os_version", "os_patch_level", "cmdline", "output", "vendor_boot", "fragments",
         "signature", "vendor_cmdline"} \subseteq
           Options \ {"second", "recovery_dtbo", "dtb", "pagesize", "base", "kernel_offset",
                      "ramdisk_offset", "second_offset", "tags_offset", "dtb_offset", "board"}
    BY DEF Options
  <2>2. d = OldBootArguments(h) =>
          \A o \in Options \ {"second", "recovery_dtbo", "dtb", "pagesize", "base",
                              "kernel_offset", "ramdisk_offset", "second_offset",
                              "tags_offset", "dtb_offset", "board"} : d[o] = c[o]
    <3>1. SUFFICES ASSUME d = OldBootArguments(h)
          PROVE  \A o \in Options \ {"second", "recovery_dtbo", "dtb", "pagesize", "base",
                                     "kernel_offset", "ramdisk_offset", "second_offset",
                                     "tags_offset", "dtb_offset", "board"} :
                   d[o] = BootArguments(h)[o]
      BY <1>1
    <3>2. QED
      BY <3>1, OldBootPrinted
  <2>3. /\ d.os_version = c.os_version /\ d.os_patch_level = c.os_patch_level
        /\ d.cmdline = c.cmdline /\ d.output = c.output /\ d.vendor_boot = c.vendor_boot
        /\ d.fragments = c.fragments /\ d.signature = c.signature
        /\ d.vendor_cmdline = c.vendor_cmdline
    BY <1>12, <2>1, <2>2
  <2>4. QED
    BY <1>6, <1>7, <1>8, <2>3
<1>14. /\ VersionsOf(d) = VersionsOf(a)
       /\ d.os_version # None => \A i \in 1..3 : d.os_version[i] < 128
       /\ d.os_patch_level # None =>
            d.os_patch_level[1] \in 2000..2127 /\ d.os_patch_level[2] \in 1..12
  <2>1. PICK n : n = VersionsOf(a)
    OBVIOUS
  <2>2. PICK v, l : v = decode_os_version(n) /\ l = decode_os_patch_level(n)
    OBVIOUS
  <2>3. n = parse_os_version(a.os_version) * 2048 + parse_os_patch_level(a.os_patch_level)
    BY <2>1 DEF VersionsOf
  <2>4. /\ parse_os_version(v) * 2048 + parse_os_patch_level(l) = n
        /\ v # None => \A i \in 1..3 : v[i] < 128
        /\ l # None => l[1] \in 2000..2127 /\ l[2] \in 1..12
    BY <1>2, <1>3, <2>2, <2>3, VersionsBack
  <2>5. d.os_version = v /\ d.os_patch_level = l
    BY <1>11, <1>13, <2>1, <2>2
  <2>6. VersionsOf(d) = n
    BY <2>4, <2>5 DEF VersionsOf
  <2>7. QED
    BY <2>1, <2>4, <2>5, <2>6
<1>15. a.header_version <= 2 =>
         /\ d.pagesize = a.pagesize /\ d.board = a.board /\ OldAddresses(d) = OldAddresses(a)
         /\ a.header_version = 2 => d.base + d.dtb_offset = a.base + a.dtb_offset
  <2>1. SUFFICES ASSUME a.header_version <= 2
        PROVE  /\ d.pagesize = a.pagesize /\ d.board = a.board
               /\ OldAddresses(d) = OldAddresses(a)
               /\ a.header_version = 2 => d.base + d.dtb_offset = a.base + a.dtb_offset
    OBVIOUS
  <2>2. /\ d.pagesize = h.page_size /\ d.base = 0
        /\ d.kernel_offset = h.load[1] /\ d.ramdisk_offset = h.load[2]
        /\ d.second_offset = h.load[3] /\ d.tags_offset = h.load[4]
        /\ d.dtb_offset = IF h.header_version = 2 THEN h.dtb_load_address
                          ELSE Defaults.dtb_offset
        /\ d.board = h.product_name
    BY <1>2, <1>12, <2>1, OldBootPrinted
  <2>3. /\ a.base + a.kernel_offset \in Int /\ a.base + a.ramdisk_offset \in Int
        /\ a.base + a.second_offset \in Int /\ a.base + a.tags_offset \in Int
        /\ a.base + a.dtb_offset \in Int
    BY <1>3, OptionsTyped
  <2>4. PICK k, r, s, t \in Int :
          /\ k = a.base + a.kernel_offset /\ r = a.base + a.ramdisk_offset
          /\ s = a.base + a.second_offset /\ t = a.base + a.tags_offset
    BY <2>3
  <2>5. OldAddresses(a) = <<k, IfBytes(a.ramdisk, r), IfBytes(a.second, s), t>>
    BY <2>4 DEF OldAddresses
  <2>6. IfBytes(a.ramdisk, r) \in Int /\ IfBytes(a.second, s) \in Int
    BY DEF IfBytes
  <2>7. /\ d.base + d.kernel_offset = k /\ d.base + d.ramdisk_offset = IfBytes(a.ramdisk, r)
        /\ d.base + d.second_offset = IfBytes(a.second, s) /\ d.base + d.tags_offset = t
    BY <1>11, <2>1, <2>2, <2>5, <2>6
  <2>8. /\ IfBytes(d.ramdisk, IfBytes(a.ramdisk, r)) = IfBytes(a.ramdisk, r)
        /\ IfBytes(d.second, IfBytes(a.second, s)) = IfBytes(a.second, s)
    BY <1>4 DEF IfBytes
  <2>9. OldAddresses(d) = OldAddresses(a)
    BY <2>5, <2>7, <2>8 DEF OldAddresses
  <2>10. d.pagesize = a.pagesize /\ d.board = a.board
    BY <1>2, <1>5, <1>11, <2>1, <2>2 DEF PageOf
  <2>11. a.header_version = 2 => d.base + d.dtb_offset = a.base + a.dtb_offset
    BY <1>5, <1>11, <2>2, <2>3
  <2>12. QED
    BY <2>9, <2>10, <2>11
<1>16. SameBoot(d, a)
  <2>1. a.header_version = 4 => d.signature = a.signature
    BY <1>9, <1>13
  <2>2. a.header_version <= 2 => (DtboOf(d) = None <=> DtboOf(a) = None)
    BY <1>2, <1>10
  <2>3. QED
    BY <1>4, <1>13, <1>14, <1>15, <2>1, <2>2 DEF SameBoot
<1>17. d.pagesize \in PageSizes /\ d.board < BOOT_NAME_SIZE
  <2>1. CASE a.header_version > 2
    BY <1>7, <1>12, <2>1, <1>2 DEF PageSizes, BOOT_NAME_SIZE
  <2>2. CASE a.header_version <= 2
    BY <1>2, <1>15, <2>2 DEF ArgumentsFit
  <2>3. QED
    BY <1>2, <2>1, <2>2
<1>18. ArgumentsFit(d)
  BY <1>2, <1>4, <1>13, <1>14, <1>17 DEF ArgumentsFit, VENDOR_BOOT_ARGS_SIZE
<1>19. GoodBoot(d)
  <2>1. a.header_version = 2 => filesize(d.dtb) > 0
    <3>1. SUFFICES ASSUME a.header_version = 2 PROVE filesize(d.dtb) > 0
      OBVIOUS
    <3>2. DtbOf(a) = a.dtb /\ DtbOf(d) = d.dtb /\ filesize(a.dtb) > 0
      BY <1>2, <1>4, <3>1 DEF DtbOf, GoodBoot
    <3>3. a.dtb \in File \cup {None} /\ d.dtb \in File \cup {None} /\ BytesOf(d.dtb) = BytesOf(a.dtb)
      BY <1>3, <1>4, <3>2, OptionsTyped DEF SameBootFiles
    <3>4. filesize(d.dtb) = filesize(a.dtb)
      BY <3>3, SameBytes
    <3>5. QED
      BY <3>2, <3>4
  <2>2. QED
    BY <1>2, <1>3, <1>4, <1>17, <2>1 DEF GoodBoot
<1>20. QED
  BY <1>1, <1>13, <1>16, <1>18, <1>19

\* Built again, a boot image is the image that was taken apart.
LEMMA BootRebuilt ==
  ASSUME TripInv, RebuildInv, Unpacked, IsBoot(info.of), info.job.whole,
         ~NotPrinted(info.job.job), job = format_mkbootimg_argument
  PROVE  disk["repacked.img"] = info.of
<1>1. PICK a, d : a = info.job.job /\ d = format_mkbootimg_argument
  OBVIOUS
<1>2. ReadInv /\ FitInv /\ RunInv /\ pc = "idle" /\ info # None
  BY DEF TripInv, RebuildInv, Unpacked
<1>3. /\ SameBoot(d, a) /\ GoodBoot(d) /\ ArgumentsFit(d)
      /\ d.output = "repacked.img" /\ d.vendor_boot = None /\ d.fragments = << >>
      /\ d.signature = "zeros"
  BY <1>1, <1>2, BootPrintedSame
<1>4. CompleteBoot(info.of, info.job)
  BY <1>2, ReadComplete
<1>5. GoodBoot(a) /\ info.of = Signed(a) /\ info.of.fields = BootFields(a)
  BY <1>1, <1>4, BootComplete DEF CompleteBoot
<1>6. Signed(d) = Signed(a) /\ BootFields(d) = BootFields(a)
  BY <1>3, <1>5, SameBootImage, SameBootFields
<1>7. Unfit(BootFields(d)) = {}
  BY <1>2, <1>5, <1>6 DEF FitInv
<1>8. GoodRun(d)
  BY <1>3, <1>7 DEF GoodRun, FitBoot, SigningFailed
<1>9. BootDone(pc)
  BY <1>2 DEF BootDone, Building, VendorPhase, BootPhase
<1>10. d.output # None
  BY <1>3, NoneAssumption DEF Image
<1>11. disk[d.output] = Signed(d)
  BY <1>1, <1>2, <1>8, <1>9, <1>10 DEF RunInv, BootLeft
<1>12. QED
  BY <1>3, <1>5, <1>6, <1>11

-------------------------------------------------------------------------------
(* What is printed for a vendor_boot image builds the same image               *)

\* What a header says besides the sizes of the parts
VendorAddresses(a) ==
    <<a.base + a.kernel_offset, a.base + a.ramdisk_offset, a.base + a.tags_offset,
      a.base + a.dtb_offset>>

LEMMA VendorHeaderRead ==
  ASSUME NEW a, GoodVendor(a), NEW img, VendorPlaces(a, img)
  PROVE  LET h == VendorInfo(img)
         IN  /\ h.cmdline = a.vendor_cmdline /\ h.product_name = a.board
             /\ <<h.load[1], h.load[2], h.load[4], h.dtb_load_address>> = VendorAddresses(a)
<1>1. PICK f, b, g, h : /\ f = img.fields /\ b = BuilderOf(a) /\ g = VendorFront(a, b)
                        /\ h = VendorInfo(img)
  OBVIOUS
<1>2. a.header_version \in Int /\ f = VendorFields(a, b)
  BY <1>1 DEF GoodVendor, VendorPlaces
<1>3. \A k \in 1..12 : f[k] = g[k]
  BY <1>1, <1>2, VendorValues
<1>4. /\ f[4] = g[4] /\ f[5] = g[5] /\ f[7] = g[7] /\ f[8] = g[8] /\ f[9] = g[9]
      /\ f[12] = g[12]
  BY <1>3
<1>5. /\ g[4].v = a.base + a.kernel_offset /\ g[5].v = a.base + a.ramdisk_offset
      /\ g[7].v = a.vendor_cmdline /\ g[8].v = a.base + a.tags_offset /\ g[9].v = a.board
      /\ g[12].v = a.base + a.dtb_offset
  BY <1>1 DEF VendorFront, Field
<1>6. /\ h.load = <<f[4].v, f[5].v, 0, f[8].v>> /\ h.dtb_load_address = f[12].v
      /\ h.cmdline = f[7].v /\ h.product_name = f[9].v
  BY <1>1 DEF VendorInfo
<1>7. h.load[1] = f[4].v /\ h.load[2] = f[5].v /\ h.load[4] = f[8].v
  BY <1>6
<1>8. QED
  BY <1>1, <1>4, <1>5, <1>6, <1>7 DEF VendorAddresses

\* The same ramdisks make the same table.
SameRamdisks(d, a, n) ==
    \A i \in 1..n : LET r == RamdisksOf(d)[i]
                        s == RamdisksOf(a)[i]
                    IN  r.file = s.file /\ r.type = s.type /\ r.name = s.name
                        /\ r.board_id = s.board_id

LEMMA SameBuilder ==
  ASSUME NEW a, NEW d, NEW n \in 0..3, SameRamdisks(d, a, n)
  PROVE  Packed(d, n) = Packed(a, n) /\ (NoneRefused(a, n) => NoneRefused(d, n))
<1>1. \A i \in 1..n : RamdiskSize(d, i) = RamdiskSize(a, i)
  BY DEF SameRamdisks, RamdiskSize
<1>2. ASSUME NEW i \in 1..n + 1 PROVE Before(d, i) = Before(a, i)
  <2>1. /\ i > 1 => 1 \in 1..n
        /\ i > 2 => 2 \in 1..n
        /\ i > 3 => 3 \in 1..n
    OBVIOUS
  <2>2. /\ i > 1 => RamdiskSize(d, 1) = RamdiskSize(a, 1)
        /\ i > 2 => RamdiskSize(d, 2) = RamdiskSize(a, 2)
        /\ i > 3 => RamdiskSize(d, 3) = RamdiskSize(a, 3)
    BY <1>1, <2>1
  <2>3. QED
    BY <2>2 DEF Before
<1>3. ASSUME NEW i \in 1..n PROVE EntryOf(d, i) = EntryOf(a, i)
  <2>1. Before(d, i) = Before(a, i)
    BY <1>2
  <2>2. QED
    BY <2>1 DEF EntryOf, SameRamdisks
<1>4. Before(d, n + 1) = Before(a, n + 1)
  BY <1>2
<1>5. Packed(d, n) = Packed(a, n)
  <2>1. [i \in 1..n |-> EntryOf(d, i)] = [i \in 1..n |-> EntryOf(a, i)]
    BY <1>3
  <2>2. QED
    BY <1>4, <2>1 DEF Packed
<1>6. ASSUME NoneRefused(a, n) PROVE NoneRefused(d, n)
  <2>1. \A i \in 1..n : /\ RamdisksOf(d)[i].name = RamdisksOf(a)[i].name
                         /\ RamdisksOf(d)[i].board_id = RamdisksOf(a)[i].board_id
    BY DEF SameRamdisks
  <2>2. \A i \in 1..n : \A j \in 1..i - 1 : j \in 1..n
    OBVIOUS
  <2>3. QED
    BY <1>6, <2>1, <2>2 DEF NoneRefused
<1>7. QED
  BY <1>5, <1>6

\* Two jobs that build the same vendor_boot image
SameVendor(d, a) ==
    /\ d.header_version = a.header_version /\ d.pagesize = a.pagesize
    /\ d.dtb = a.dtb /\ d.vendor_cmdline = a.vendor_cmdline /\ d.board = a.board
    /\ VendorAddresses(d) = VendorAddresses(a) /\ BuilderOf(d) = BuilderOf(a)
    /\ a.header_version = 3 => BytesOf(d.vendor_ramdisk) = BytesOf(a.vendor_ramdisk)
    /\ a.header_version = 4 => BytesOf(d.vendor_bootconfig) = BytesOf(a.vendor_bootconfig)

LEMMA SameVendorFields ==
  ASSUME NEW a, NEW d, GoodVendor(a), GoodVendor(d), SameVendor(d, a)
  PROVE  VendorFields(d, BuilderOf(d)) = VendorFields(a, BuilderOf(a))
<1>1. PICK b : b = BuilderOf(a)
  OBVIOUS
<1>2. /\ a.header_version \in {3, 4} /\ d.header_version = a.header_version
      /\ d.pagesize = a.pagesize /\ d.dtb = a.dtb /\ d.vendor_cmdline = a.vendor_cmdline
      /\ d.board = a.board /\ BuilderOf(d) = b
  BY <1>1 DEF SameVendor, GoodVendor
<1>3. \A x \in {a, d} : /\ x.vendor_ramdisk \in File \cup {None}
                        /\ x.vendor_bootconfig \in File \cup {None}
  BY OptionsTyped DEF GoodVendor
<1>4. /\ a.header_version = 3 => filesize(d.vendor_ramdisk) = filesize(a.vendor_ramdisk)
      /\ a.header_version = 4 => filesize(d.vendor_bootconfig) = filesize(a.vendor_bootconfig)
  BY <1>3, SameBytes DEF SameVendor
<1>5. /\ d.base + d.kernel_offset = a.base + a.kernel_offset
      /\ d.base + d.ramdisk_offset = a.base + a.ramdisk_offset
      /\ d.base + d.tags_offset = a.base + a.tags_offset
      /\ d.base + d.dtb_offset = a.base + a.dtb_offset
  BY DEF SameVendor, VendorAddresses
<1>6. VendorFront(d, b) = VendorFront(a, b)
  <2>1. PICK size, more : /\ size = IF a.header_version > 3 THEN b.total ELSE filesize(a.vendor_ramdisk)
                          /\ more = IF a.header_version > 3 THEN 2128 ELSE 2112
    OBVIOUS
  <2>2. /\ size = IF d.header_version > 3 THEN b.total ELSE filesize(d.vendor_ramdisk)
        /\ more = IF d.header_version > 3 THEN 2128 ELSE 2112
    BY <1>2, <1>4, <2>1
  <2>3. \A x \in {a, d} :
          /\ size = IF x.header_version > 3 THEN b.total ELSE filesize(x.vendor_ramdisk)
          /\ more = IF x.header_version > 3 THEN 2128 ELSE 2112
          => VendorFront(x, b) =
               << Field(8, "VNDRBOOT"), Field(4, x.header_version), Field(4, x.pagesize),
                  Field(4, x.base + x.kernel_offset), Field(4, x.base + x.ramdisk_offset),
                  Field(4, size), Field(VENDOR_BOOT_ARGS_SIZE, x.vendor_cmdline),
                  Field(4, x.base + x.tags_offset), Field(BOOT_NAME_SIZE, x.board),
                  Field(4, more), Field(4, filesize(x.dtb)), Field(8, x.base + x.dtb_offset) >>
    BY DEF VendorFront
  <2>4. QED
    BY <1>2, <1>5, <2>1, <2>2, <2>3
<1>7. a.header_version = 4 => VendorRest(d, b) = VendorRest(a, b)
  BY <1>4 DEF VendorRest
<1>8. PICK rest : rest = IF a.header_version > 3 THEN VendorRest(a, b) ELSE << >>
  OBVIOUS
<1>9. VendorFields(a, b) = VendorFront(a, b) \o rest
  BY <1>8 DEF VendorFields, VendorFront, VendorRest
<1>10. VendorFields(d, b) = VendorFront(d, b) \o rest
  <2>1. rest = IF d.header_version > 3 THEN VendorRest(d, b) ELSE << >>
    BY <1>2, <1>7, <1>8
  <2>2. QED
    BY <2>1 DEF VendorFields, VendorFront, VendorRest
<1>11. QED
  BY <1>1, <1>2, <1>6, <1>9, <1>10

\* A length that has been padded
LEMMA PaddedLength ==
  ASSUME NEW page \in PageSizes, NEW n \in Nat
  PROVE  \E m \in Nat : n + PadLen(n, page) = page * m
<1>1. PICK m : m = get_number_of_pages(n, page)
  OBVIOUS
<1>2. page * 0 + n + PadLen(page * 0 + n, page) = page * (0 + m) /\ m \in Nat
  BY <1>1, PaddedPages
<1>3. page * 0 + n = n /\ 0 + m = m
  BY <1>2 DEF PageSizes
<1>4. QED
  BY <1>2, <1>3

LEMMA TableWhole ==
  ASSUME NEW a, GoodVendor(a), a.header_version = 4
  PROVE  Whole(VendorTable(a), a.pagesize)
<1>1. PICK img, old, page, b : /\ img = VendorTable(a) /\ old = VendorDtb(a) /\ page = a.pagesize
                               /\ b = BuilderOf(a)
  OBVIOUS
<1>2. Tidy(img) /\ Tidy(old)
  BY <1>1, VendorPlaced
<1>3. page \in PageSizes /\ Len(b.entries) \in Nat
  BY <1>1, BuilderTyped DEF GoodVendor
<1>4. PICK size \in Nat : size = Len(b.entries) * VENDOR_RAMDISK_TABLE_ENTRY_V4_SIZE
  BY <1>3 DEF VENDOR_RAMDISK_TABLE_ENTRY_V4_SIZE
<1>5. PICK n \in Nat : n = old.len + size
  BY <1>2 DEF Tidy
<1>6. img = [old EXCEPT !.table = b.entries, !.table_off = old.len,
                        !.len = old.len + size + PadLen(old.len + size, page)]
  BY <1>1, <1>4 DEF VendorTable, PutTable
<1>7. DOMAIN old = DOMAIN Opened
  BY <1>2 DEF Tidy
<1>8. img = [x \in DOMAIN img |-> img[x]] /\ img.len = n + PadLen(n, page)
  BY <1>5, <1>6, <1>7 DEF Opened
<1>9. \E m \in Nat : img.len = page * m
  BY <1>3, <1>8, PaddedLength
<1>10. QED
  BY <1>1, <1>2, <1>8, <1>9 DEF Whole, Tidy

LEMMA SameVendorImage ==
  ASSUME NEW a, NEW d, GoodVendor(a), GoodVendor(d), SameVendor(d, a)
  PROVE  VendorWhole(d) = VendorWhole(a)
<1>1. /\ a.header_version \in {3, 4} /\ d.header_version = a.header_version
      /\ d.pagesize = a.pagesize /\ d.dtb = a.dtb /\ BuilderOf(d) = BuilderOf(a)
  BY DEF SameVendor, GoodVendor
<1>2. VendorHead(d) = VendorHead(a)
  BY <1>1, SameVendorFields DEF VendorHead
<1>3. \A x \in {a, d} : /\ x.vendor_ramdisk \in File \cup {None}
                        /\ x.vendor_bootconfig \in File \cup {None}
  BY OptionsTyped DEF GoodVendor
<1>4. a.pagesize \in PageSizes /\ "vendor_ramdisk" \in Part /\ "bootconfig" \in Part
  BY DEF GoodVendor, Part
<1>5. VendorRam(d) = VendorRam(a)
  <2>1. CASE a.header_version = 4
    BY <1>1, <1>2, <2>1 DEF VendorRam
  <2>2. CASE a.header_version = 3
    <3>1. Whole(VendorHead(a), a.pagesize)
      <4>1. PICK f : f = VendorFields(a, BuilderOf(a))
        OBVIOUS
      <4>2. Width(f) \in Nat
        BY <1>1, <4>1, VendorWidth DEF VendorHeaderSize
      <4>3. QED
        BY <1>4, <4>1, <4>2, HeadedWhole DEF VendorHead
    <3>2. BytesOf(d.vendor_ramdisk) = BytesOf(a.vendor_ramdisk)
      BY <2>2 DEF SameVendor
    <3>3. WritePadded(VendorHead(a), "vendor_ramdisk", d.vendor_ramdisk, a.pagesize)
            = WritePadded(VendorHead(a), "vendor_ramdisk", a.vendor_ramdisk, a.pagesize)
      BY <1>3, <1>4, <3>1, <3>2, SameWritten
    <3>4. QED
      BY <1>1, <1>2, <2>2, <3>3 DEF VendorRam
  <2>3. QED
    BY <1>1, <2>1, <2>2
<1>6. VendorDtb(d) = VendorDtb(a)
  BY <1>1, <1>5 DEF VendorDtb
<1>7. CASE a.header_version = 3
  BY <1>1, <1>6, <1>7 DEF VendorWhole
<1>8. CASE a.header_version = 4
  <2>1. VendorTable(d) = VendorTable(a)
    BY <1>1, <1>6 DEF VendorTable
  <2>2. Whole(VendorTable(a), a.pagesize)
    BY <1>8, TableWhole
  <2>3. BytesOf(d.vendor_bootconfig) = BytesOf(a.vendor_bootconfig)
    BY <1>8 DEF SameVendor
  <2>4. VendorConf(d) = VendorConf(a)
    BY <1>1, <1>3, <1>4, <2>1, <2>2, <2>3, SameWritten DEF VendorConf
  <2>5. QED
    BY <1>1, <1>8, <2>4 DEF VendorWhole
<1>9. QED
  BY <1>1, <1>7, <1>8

\* The ramdisks that are printed for a vendor_boot image of version 4
AllPrinted(d, a, n) ==
    /\ DOMAIN d.fragments = 1..n
    /\ \A i \in 1..n : /\ d.fragments[i] = Fragment(EntryOf(a, i), i)
                       /\ outdir[RamdiskFile[i]] = BytesOf(EntryOf(a, i).file)

LEMMA PrintedRamdisks ==
  ASSUME NEW a, Typed(a), NEW d, Typed(d), NEW n \in 0..3, n = Entries(a),
         d.vendor_boot # None, d.header_version = 4, d.vendor_ramdisk = None,
         AllPrinted(d, a, n)
  PROVE  Entries(d) = n /\ SameRamdisks(d, a, n)
<1>1. Len(d.fragments) \in Nat /\ Len(d.fragments) = n
  <2>1. Len(d.fragments) \in Nat
    BY RamdisksTyped
  <2>2. \E S : d.fragments \in Seq(S)
    BY Zenon DEF Typed
  <2>3. DOMAIN d.fragments = 1..Len(d.fragments)
    BY <2>1, <2>2
  <2>4. DOMAIN d.fragments = 1..n
    BY DEF AllPrinted
  <2>5. QED
    BY <2>1, <2>3, <2>4
<1>2. NamedFirst(d) = 0 /\ \A i \in 1..n : RamdisksOf(d)[i] = d.fragments[i]
  <2>1. NamedFirst(d) = 0
    BY DEF NamedFirst
  <2>2. \A i \in 1..n : RamdisksOf(d)[NamedFirst(d) + i] = d.fragments[i]
    BY <1>1, RamdisksTyped
  <2>3. QED
    BY <2>1, <2>2
<1>3. Entries(d) = n
  BY <1>1, <1>2, RamdisksTyped DEF Entries
<1>4. ASSUME NEW i \in 1..n
      PROVE  LET r == RamdisksOf(d)[i]
                 s == RamdisksOf(a)[i]
             IN  r.file = s.file /\ r.type = s.type /\ r.name = s.name
                 /\ r.board_id = s.board_id
  <2>1. PICK e : e = EntryOf(a, i)
    OBVIOUS
  <2>2. e.file \in File
    BY <2>1, BuilderTyped
  <2>3. BytesOf(e.file) = e.file
    BY <2>2, FileSizes, NoneAssumption
  <2>4. RamdisksOf(d)[i] = Fragment(e, i) /\ outdir[RamdiskFile[i]] = BytesOf(e.file)
    BY <1>2, <2>1 DEF AllPrinted
  <2>5. RamdisksOf(d)[i] = [file |-> e.file, type |-> e.type, name |-> e.name,
                            board_id |-> e.board_id]
    BY <2>1, <2>3, <2>4 DEF Fragment
  <2>6. QED
    BY <2>1, <2>5 DEF EntryOf
<1>5. QED
  BY <1>3, <1>4 DEF SameRamdisks

\* The job that is printed for a vendor_boot image
LEMMA VendorPrintedSame ==
  ASSUME ReadInv, pc \notin {"unpack", "extract"}, info # None, ~IsBoot(info.of)
  PROVE  LET a == info.job.job
             d == format_mkbootimg_argument
         IN  /\ SameVendor(d, a) /\ GoodVendor(d) /\ ArgumentsFit(d)
             /\ d.output = None /\ d.vendor_boot = "repacked.img"
             /\ a.header_version = 3 => d.fragments = << >>
<1>1. PICK a, h, d : /\ a = info.job.job /\ h = info.header /\ d = format_mkbootimg_argument
  OBVIOUS
<1>2. /\ GoodVendor(a) /\ ArgumentsFit(a) /\ VendorPlaces(a, info.of)
      /\ h = VendorInfo(info.of)
  BY <1>1, ReadComplete, VendorComplete
<1>3. Typed(a) /\ Typed(d)
  BY <1>1, <1>2, VendorPrintedTyped DEF GoodVendor
<1>4. /\ a.header_version \in {3, 4} /\ a.vendor_boot # None
      /\ a.header_version = 3 => a.vendor_ramdisk # None
      /\ a.pagesize \in PageSizes /\ filesize(a.dtb) > 0 /\ NoneRefused(a, Entries(a))
  BY <1>2 DEF GoodVendor
<1>5. /\ h.header_version = a.header_version /\ h.page_size = a.pagesize
      /\ h.dtb_size = filesize(a.dtb)
      /\ a.header_version = 3 => h.table = << >>
      /\ a.header_version = 4 => h.table = BuilderOf(a).entries
  BY <1>2, VendorSizes
<1>6. /\ h.cmdline = a.vendor_cmdline /\ h.product_name = a.board
      /\ <<h.load[1], h.load[2], h.load[4], h.dtb_load_address>> = VendorAddresses(a)
  BY <1>2, VendorHeaderRead
<1>7. /\ outdir["dtb"] = BytesOf(a.dtb)
      /\ a.header_version = 3 => outdir["vendor_ramdisk"] = BytesOf(a.vendor_ramdisk)
      /\ a.header_version = 4 =>
           /\ outdir["bootconfig"] = BytesOf(a.vendor_bootconfig)
           /\ \A i \in 1..Entries(a) : outdir[RamdiskFile[i]] = BytesOf(EntryOf(a, i).file)
  BY <1>1, VendorOut
<1>8. d = VendorArguments(h)
  BY <1>1 DEF format_mkbootimg_argument
<1>9. /\ d.header_version = h.header_version /\ d.pagesize = h.page_size /\ d.base = 0
      /\ d.kernel_offset = h.load[1] /\ d.ramdisk_offset = h.load[2]
      /\ d.tags_offset = h.load[4] /\ d.dtb_offset = h.dtb_load_address
      /\ d.vendor_cmdline = h.cmdline /\ d.board = h.product_name
      /\ d.dtb = FileIf(h.dtb_size > 0, "dtb")
      /\ d.vendor_bootconfig = FileIf(h.header_version > 3, "bootconfig")
      /\ d.vendor_ramdisk = FileIf(h.header_version <= 3, "vendor_ramdisk")
      /\ d.fragments = [i \in DOMAIN h.table |-> Fragment(h.table[i], i)]
      /\ d.vendor_boot = "repacked.img"
  BY <1>8, VendorPrinted
<1>10. /\ d.os_version = None /\ d.os_patch_level = None /\ d.cmdline = NoText
       /\ d.output = None
  <2>1. \A o \in Options \ {"header_version", "pagesize", "base", "kernel_offset",
                            "ramdisk_offset", "tags_offset", "dtb_offset",
                            "vendor_cmdline", "board", "dtb", "vendor_bootconfig",
                            "vendor_ramdisk", "fragments", "vendor_boot"} :
          d[o] = Defaults[o]
    BY <1>8, VendorPrinted
  <2>2. /\ d.os_version = Defaults.os_version /\ d.os_patch_level = Defaults.os_patch_level
        /\ d.cmdline = Defaults.cmdline /\ d.output = Defaults.output
    BY <2>1 DEF Options
  <2>3. QED
    BY <2>2, DefaultOptions
<1>11. d.dtb = a.dtb
  <2>1. a.dtb \in File \cup {None}
    BY <1>3, OptionsTyped
  <2>2. BytesOf(a.dtb) = a.dtb
    BY <1>4, <2>1, FileSizes
  <2>3. QED
    BY <1>4, <1>5, <1>7, <1>9, <2>2 DEF FileIf
<1>12. ASSUME NEW f \in File \cup {None}
       PROVE  BytesOf(BytesOf(f)) = BytesOf(f) /\ BytesOf(f) # None
  BY NoneAssumption DEF BytesOf, filesize, File, Empty
<1>13. a.vendor_ramdisk \in File \cup {None} /\ a.vendor_bootconfig \in File \cup {None}
  BY <1>3, OptionsTyped
<1>14. a.header_version = 3 =>
         /\ BytesOf(d.vendor_ramdisk) = BytesOf(a.vendor_ramdisk)
         /\ d.vendor_ramdisk # None
  BY <1>5, <1>7, <1>9, <1>12, <1>13 DEF FileIf
<1>15. a.header_version = 4 =>
         /\ BytesOf(d.vendor_bootconfig) = BytesOf(a.vendor_bootconfig)
         /\ d.vendor_ramdisk = None
  BY <1>5, <1>7, <1>9, <1>12, <1>13 DEF FileIf
<1>16. a.header_version = 3 => d.fragments = << >>
  BY <1>5, <1>9
<1>17. VendorAddresses(d) = VendorAddresses(a)
  <2>1. PICK k, r, t, b \in Int : /\ k = a.base + a.kernel_offset /\ r = a.base + a.ramdisk_offset
                                  /\ t = a.base + a.tags_offset /\ b = a.base + a.dtb_offset
    BY <1>3, OptionsTyped
  <2>2. h.load[1] = k /\ h.load[2] = r /\ h.load[4] = t /\ h.dtb_load_address = b
    BY <1>6, <2>1 DEF VendorAddresses
  <2>3. /\ d.base + d.kernel_offset = k /\ d.base + d.ramdisk_offset = r
        /\ d.base + d.tags_offset = t /\ d.base + d.dtb_offset = b
    BY <1>9, <2>2
  <2>4. QED
    BY <2>1, <2>3 DEF VendorAddresses
<1>18. d.vendor_boot # None
  BY <1>9, NoneAssumption DEF Image
<1>19. PICK n \in 0..3 : n = Entries(a)
  BY <1>3, BuilderTyped
<1>20. Entries(d) = n /\ SameRamdisks(d, a, n)
  <2>1. CASE a.header_version = 3
    BY <1>5, <1>9, <1>19, <2>1 DEF Entries, SameRamdisks
  <2>2. CASE a.header_version = 4
    <3>1. /\ IsList(BuilderOf(a).entries) /\ Len(BuilderOf(a).entries) = n
          /\ \A i \in 1..n : BuilderOf(a).entries[i] = EntryOf(a, i)
      BY <1>3, <1>19, BuilderTyped
    <3>2. DOMAIN h.table = 1..n /\ \A i \in 1..n : h.table[i] = EntryOf(a, i)
      BY <1>5, <2>2, <3>1 DEF IsList
    <3>3. PICK table : table = h.table
      OBVIOUS
    <3>4. /\ DOMAIN table = 1..n /\ \A i \in 1..n : table[i] = EntryOf(a, i)
          /\ d.fragments = [i \in DOMAIN table |-> Fragment(table[i], i)]
      BY <1>9, <3>2, <3>3
    <3>5. /\ \A i \in 1..n : outdir[RamdiskFile[i]] = BytesOf(EntryOf(a, i).file)
          /\ d.header_version = 4 /\ d.vendor_ramdisk = None
      BY <1>5, <1>7, <1>9, <1>15, <1>19, <2>2
    <3>6. AllPrinted(d, a, n)
      BY <3>4, <3>5 DEF AllPrinted
    <3>7. QED
      BY <1>3, <1>18, <1>19, <3>5, <3>6, PrintedRamdisks
  <2>3. QED
    BY <1>4, <2>1, <2>2
<1>21. /\ BuilderOf(d) = BuilderOf(a) /\ NoneRefused(d, Entries(d))
  BY <1>4, <1>19, <1>20, SameBuilder DEF BuilderOf
<1>22. SameVendor(d, a)
  BY <1>5, <1>6, <1>9, <1>11, <1>14, <1>15, <1>17, <1>21 DEF SameVendor
<1>23. GoodVendor(d)
  BY <1>3, <1>4, <1>5, <1>9, <1>11, <1>14, <1>18, <1>21 DEF GoodVendor
<1>24. ArgumentsFit(d)
  BY <1>2, <1>4, <1>5, <1>6, <1>9, <1>10 DEF ArgumentsFit, NoText, BOOT_ARGS_SIZE,
     BOOT_EXTRA_ARGS_SIZE
<1>25. QED
  BY <1>1, <1>9, <1>10, <1>16, <1>22, <1>23, <1>24

\* Built again, a vendor_boot image is the image that was taken apart.
LEMMA VendorRebuilt ==
  ASSUME TripInv, RebuildInv, TypesInv, Unpacked, ~IsBoot(info.of),
         job = format_mkbootimg_argument
  PROVE  disk["repacked.img"] = info.of
<1>1. PICK a, d : a = info.job.job /\ d = format_mkbootimg_argument
  OBVIOUS
<1>2. ReadInv /\ FitInv /\ RunInv /\ pc = "idle" /\ info # None
  BY DEF TripInv, RebuildInv, Unpacked
<1>3. /\ SameVendor(d, a) /\ GoodVendor(d) /\ ArgumentsFit(d)
      /\ d.output = None /\ d.vendor_boot = "repacked.img"
      /\ a.header_version = 3 => d.fragments = << >>
  BY <1>1, <1>2, VendorPrintedSame
<1>4. CompleteVendor(info.of, info.job)
  BY <1>2, ReadComplete
<1>5. /\ GoodVendor(a) /\ info.of = VendorWhole(a) /\ info.job.whole
      /\ info.of.fields = VendorFields(a, BuilderOf(a))
  BY <1>1, <1>4, VendorComplete DEF CompleteVendor, VendorPlaces
<1>6. /\ VendorWhole(d) = VendorWhole(a)
      /\ VendorFields(d, BuilderOf(d)) = VendorFields(a, BuilderOf(a))
  BY <1>3, <1>5, SameVendorImage, SameVendorFields
<1>7. Unfit(VendorFields(d, BuilderOf(d))) = {}
  BY <1>2, <1>5, <1>6 DEF FitInv
<1>8. d.vendor_boot # None
  BY <1>3 DEF GoodVendor
<1>9. d.vendor_boot = None \/ d.header_version <= 3 => d.fragments = << >>
  BY <1>3, <1>5, <1>8 DEF SameVendor, GoodVendor
<1>0. d.header_version = 4 => TypesFit(BuilderOf(d))
  BY <1>1, <1>2, <1>3, <1>5 DEF TypesInv, TypesOf, SameVendor
<1>10. GoodRun(d)
  BY <1>0, <1>3, <1>7, <1>9 DEF GoodRun, FitVendor
<1>11. VendorDone(pc)
  BY <1>2 DEF VendorDone, Building, VendorPhase, BootPhase
<1>12. disk[d.vendor_boot] = VendorWhole(d)
  BY <1>1, <1>2, <1>8, <1>10, <1>11 DEF RunInv, VendorLeft
<1>13. QED
  BY <1>3, <1>5, <1>6, <1>12

\* The image that mkbootimg.py builds from the command line unpack_bootimg.py printed is
\* the image that was taken apart, byte for byte, whatever was built or taken apart before:
\* for every job, every version of the two formats and every mixture of parts, as long as
\* the image was whole and nothing in it is something that is not printed.
THEOREM RebuiltEqual == Spec => []Rebuild
<1>1. TripInv /\ RebuildInv /\ TypesInv => Rebuild
  <2> SUFFICES ASSUME TripInv, RebuildInv, TypesInv, Unpacked, job = format_mkbootimg_argument,
                      info.job.whole, ~NotPrinted(info.job.job)
               PROVE  disk["repacked.img"] = info.of
    BY DEF Rebuild
  <2>1. CASE IsBoot(info.of)
    BY <2>1, BootRebuilt
  <2>2. CASE ~IsBoot(info.of)
    BY <2>2, VendorRebuilt
  <2>3. QED
    BY <2>1, <2>2
<1>2. QED
  BY <1>1, RebuildAlways, TypesAlways, PTL

-------------------------------------------------------------------------------
(* Types                                                                       *)

\* An image is as long as its header, and what is in it has an offset and a size.
Formed(img) ==
    /\ img.len \in Nat /\ img.len >= Width(img.fields)
    /\ \A c \in Chunks(img) : c.off \in Nat /\ FileOrNone(c.file)

\* The next part is written behind what is there.
LEMMA PadBytes ==
  ASSUME NEW page \in PageSizes, NEW n \in Nat
  PROVE  PadLen(n, page) \in Nat
<1>1. CASE page = 2048
  BY <1>1 DEF PadLen
<1>2. CASE page = 4096
  BY <1>2 DEF PadLen
<1>3. CASE page = 8192
  BY <1>3 DEF PadLen
<1>4. CASE page = 16384
  BY <1>4 DEF PadLen
<1>5. QED
  BY <1>1, <1>2, <1>3, <1>4 DEF PageSizes

LEMMA LongerBehind ==
  ASSUME NEW img, Tidy(img), NEW part, NEW f, f = None \/ f.size \in Nat, NEW page \in PageSizes,
         NEW fields, img.fields = fields, Width(fields) \in Nat, img.len >= Width(fields)
  PROVE  WritePadded(img, part, f, page).len >= Width(fields)
<1>1. CASE f = None
  BY <1>1 DEF WritePadded
<1>2. CASE f # None
  <2>1. PICK n \in Nat : n = img.len + f.size
    BY <1>2 DEF Tidy
  <2>2. WritePadded(img, part, f, page).len = n + PadLen(n, page)
    BY <1>2, <2>1 DEF WritePadded, Tidy, Opened
  <2>3. PadLen(n, page) \in Nat /\ img.len \in Nat /\ f.size \in Nat
    BY <1>2, PadBytes DEF Tidy
  <2>4. PICK w \in Nat : w = Width(fields)
    OBVIOUS
  <2>5. n >= w
    BY <2>1, <2>3, <2>4
  <2>6. QED
    BY <2>2, <2>3, <2>4, <2>5
<1>3. QED
  BY <1>1, <1>2

\* What is tidy is formed.
LEMMA TidyFormed ==
  ASSUME NEW img, Tidy(img), img.len >= Width(img.fields)
  PROVE  Formed(img)
BY DEF Tidy, Formed, FileOrNone

LEMMA HeadedLong ==
  ASSUME NEW fields, NEW w \in Nat, w = Width(fields), NEW page \in PageSizes
  PROVE  Headed(fields, page).len >= Width(fields)
<1>1. Headed(fields, page).len = w + PadLen(w, page)
  BY DEF Headed, Opened
<1>2. PadLen(w, page) \in Nat
  BY PadBytes
<1>3. QED
  BY <1>1, <1>2

\* Every image on the way to a whole boot image
LEMMA BootFormed ==
  ASSUME NEW a, GoodBoot(a)
  PROVE  \A img \in {WithHeader(a), WithKernel(a), WithRamdisk(a), WithSecond(a),
                     WithDtbo(a), WithDtb(a), Signed(a)} : Formed(img)
<1>1. PICK fields, page : fields = BootFields(a) /\ page = PageOf(a)
  OBVIOUS
<1>2. /\ Typed(a) /\ a.header_version \in 0..4 /\ page \in PageSizes
  BY <1>1, OptionsTyped DEF GoodBoot, PageOf, PageSizes, BOOT_IMAGE_HEADER_V3_PAGESIZE
<1>3. PICK w \in Nat : w = Width(fields)
  BY <1>1, <1>2, BootWidth, SMTT(60)
<1>4. \A img \in {WithHeader(a), WithKernel(a), WithRamdisk(a), WithSecond(a),
                  WithDtbo(a), WithDtb(a), Signed(a)} : Tidy(img) /\ img.fields = fields
  BY <1>1, BootPlaced
<1>5. \A f \in {a.kernel, a.ramdisk, a.second, DtboOf(a), DtbOf(a)} : f = None \/ f.size \in Nat
  <2>1. \A f \in {a.kernel, a.ramdisk, a.second, DtboOf(a), DtbOf(a)} : f \in File \cup {None}
    BY <1>2, OptionsTyped
  <2>2. QED
    BY <2>1, FileSizes
<1>6. WithHeader(a).len >= Width(fields)
  BY <1>1, <1>2, <1>3, HeadedLong DEF WithHeader
<1>7. WithKernel(a).len >= Width(fields)
  BY <1>1, <1>2, <1>3, <1>4, <1>5, <1>6, LongerBehind DEF WithKernel
<1>8. WithRamdisk(a).len >= Width(fields)
  BY <1>1, <1>2, <1>3, <1>4, <1>5, <1>7, LongerBehind DEF WithRamdisk
<1>9. WithSecond(a).len >= Width(fields)
  BY <1>1, <1>2, <1>3, <1>4, <1>5, <1>8, LongerBehind DEF WithSecond
<1>10. WithDtbo(a).len >= Width(fields)
  BY <1>1, <1>2, <1>3, <1>4, <1>5, <1>9, LongerBehind DEF WithDtbo
<1>11. WithDtb(a).len >= Width(fields)
  BY <1>1, <1>2, <1>3, <1>4, <1>5, <1>10, LongerBehind DEF WithDtb
<1>12. Signed(a).len >= Width(fields)
  <2>1. SignatureOf(a).size \in Nat
    BY DEF SignatureOf, BOOT_IMAGE_V4_SIGNATURE_SIZE
  <2>2. WritePadded(WithDtb(a), "boot_signature", SignatureOf(a), page).len >= Width(fields)
    BY <1>2, <1>3, <1>4, <1>11, <2>1, LongerBehind
  <2>3. QED
    BY <1>1, <1>11, <2>2 DEF Signed
<1>13. QED
  BY <1>4, <1>6, <1>7, <1>8, <1>9, <1>10, <1>11, <1>12, TidyFormed

\* and to a whole vendor_boot image
LEMMA VendorFormed ==
  ASSUME NEW a, GoodVendor(a)
  PROVE  /\ \A img \in {VendorHead(a), VendorRam(a), VendorDtb(a), VendorTable(a)} : Formed(img)
         /\ Formed(VendorWhole(a))
<1>1. PICK b, fields, page : /\ b = BuilderOf(a) /\ fields = VendorFields(a, b)
                             /\ page = a.pagesize
  OBVIOUS
<1>2. Typed(a) /\ a.header_version \in {3, 4} /\ a.header_version \in Int /\ page \in PageSizes
  BY <1>1 DEF GoodVendor
<1>3. PICK w \in Nat : w = Width(fields)
  BY <1>1, <1>2, VendorWidth DEF VendorHeaderSize
<1>4. \A img \in {VendorHead(a), VendorRam(a), VendorDtb(a), VendorTable(a), VendorConf(a)} :
        Tidy(img) /\ img.fields = fields
  BY <1>1, VendorPlaced
<1>5. \A f \in {a.vendor_ramdisk, a.dtb, a.vendor_bootconfig} : f = None \/ f.size \in Nat
  <2>1. \A f \in {a.vendor_ramdisk, a.dtb, a.vendor_bootconfig} : f \in File \cup {None}
    BY <1>2, OptionsTyped
  <2>2. QED
    BY <2>1, FileSizes
<1>6. VendorHead(a).len >= Width(fields)
  BY <1>1, <1>2, <1>3, HeadedLong DEF VendorHead
\* packed ramdisks and a table are behind it as well
<1>7. ASSUME NEW img, NEW new, Tidy(img), img.len >= w, NEW size \in Nat,
             new.len = img.len + size + PadLen(img.len + size, page)
      PROVE  new.len >= w
  <2>1. img.len \in Nat /\ img.len + size \in Nat
    BY <1>7 DEF Tidy
  <2>2. PadLen(img.len + size, page) \in Nat
    BY <1>2, <2>1, PadBytes
  <2>3. QED
    BY <1>7, <2>1, <2>2
<1>8. VendorRam(a).len >= Width(fields)
  <2>1. CASE a.header_version = 4
    <3>1. PICK img, new : img = VendorHead(a) /\ new = VendorRam(a)
      OBVIOUS
    <3>2. b.total \in Nat
      BY <1>1, <1>2, BuilderTyped
    <3>3. new.len = img.len + b.total + PadLen(img.len + b.total, page)
      <4>1. new = PackRamdisks(img, b, page) /\ DOMAIN img = DOMAIN Opened
        BY <1>1, <1>4, <2>1, <3>1 DEF VendorRam, Tidy
      <4>2. QED
        BY <4>1 DEF PackRamdisks, Opened
    <3>4. QED
      BY <1>3, <1>4, <1>6, <1>7, <3>1, <3>2, <3>3
  <2>2. CASE a.header_version = 3
    BY <1>1, <1>2, <1>3, <1>4, <1>5, <1>6, <2>2, LongerBehind DEF VendorRam
  <2>3. QED
    BY <1>2, <2>1, <2>2
<1>9. VendorDtb(a).len >= Width(fields)
  BY <1>1, <1>2, <1>3, <1>4, <1>5, <1>8, LongerBehind DEF VendorDtb
<1>10. VendorTable(a).len >= Width(fields)
  <2>1. PICK img, new : img = VendorDtb(a) /\ new = VendorTable(a)
    OBVIOUS
  <2>2. PICK size \in Nat : size = Len(b.entries) * VENDOR_RAMDISK_TABLE_ENTRY_V4_SIZE
    BY <1>1, <1>2, BuilderTyped DEF VENDOR_RAMDISK_TABLE_ENTRY_V4_SIZE
  <2>3. new.len = img.len + size + PadLen(img.len + size, page)
    <3>1. new = PutTable(img, b, page) /\ DOMAIN img = DOMAIN Opened
      BY <1>1, <1>4, <2>1 DEF VendorTable, Tidy
    <3>2. QED
      BY <2>2, <3>1 DEF PutTable, Opened
  <2>4. QED
    BY <1>3, <1>4, <1>7, <1>9, <2>1, <2>2, <2>3
<1>11. VendorConf(a).len >= Width(fields)
  BY <1>1, <1>2, <1>3, <1>4, <1>5, <1>10, LongerBehind DEF VendorConf
<1>12. QED
  BY <1>4, <1>6, <1>8, <1>9, <1>10, <1>11, TidyFormed DEF VendorWhole

\* What the steps themselves keep: where a run is, what it has for options, what is
\* known of an image, and what is in the output directory.
TypeInv ==
    /\ pc \in {"idle", "parse", "add_entry", "main", "vendor_header", "vendor_ramdisk",
               "vendor_ramdisks", "vendor_dtb", "vendor_table", "vendor_bootconfig", "output",
               "unpack", "extract"} \cup Part
    /\ ret \in {"ok", "error"} /\ Typed(job) /\ builder.total \in Nat
    /\ \A n \in Image : made[n] = None \/ made[n].whole \in BOOLEAN
    /\ \A n \in OutFile : FileOrNone(outdir[n])
    /\ \A n \in DOMAIN links : links[n] \in OutFile
    /\ builds \in 0..MaxBuilds /\ unpacks \in 0..MaxUnpacks

\* Every image is formed.
LEMMA ImagesFormed ==
  ASSUME TripInv, TypeInv, NEW n \in Image
  PROVE  Formed(disk[n])
<1>1. ASSUME Bare(disk[n]) PROVE Formed(disk[n])
  <2>1. PICK f, w : f = disk[n].fields /\ w = Width(f)
    OBVIOUS
  <2>2. w \in Nat /\ disk[n] = [Opened EXCEPT !.fields = f, !.len = w]
    BY <1>1, <2>1 DEF Bare
  <2>3. /\ disk[n].len = w /\ disk[n].at = [p \in Part |-> NoPart]
        /\ disk[n].ramdisks = << >>
    BY <2>2 DEF Opened
  <2>4. QED
    BY <2>1, <2>2, <2>3 DEF Formed, Chunks, NoPart, FileOrNone
<1>2. ContentInv(n) /\ StageInv
  BY DEF TripInv
<1>3. CASE disk[n] = Opened
  BY <1>1, <1>3, OpenedBare
<1>4. CASE CompleteBoot(disk[n], made[n])
  BY <1>4, BootFormed DEF CompleteBoot
<1>5. CASE CompleteVendor(disk[n], made[n])
  BY <1>5, VendorFormed DEF CompleteVendor
<1>6. CASE pc \in VendorPhase /\ n = job.vendor_boot
  <2>1. GoodVendor(job) /\ disk[n] = VendorStage(job)
    BY <1>2, <1>6 DEF StageInv
  <2>2. VendorStage(job) \in {VendorHead(job), VendorRam(job), VendorDtb(job), VendorTable(job)}
    BY <1>6 DEF VendorStage, VendorPhase
  <2>3. QED
    BY <2>1, <2>2, VendorFormed
<1>7. CASE pc \in BootPhase /\ n = job.output
  <2>1. GoodBoot(job) /\ disk[n] = BootStage(job)
    BY <1>2, <1>7 DEF StageInv
  <2>2. BootStage(job) \in {WithHeader(job), WithKernel(job), WithRamdisk(job),
                            WithSecond(job), WithDtbo(job), WithDtb(job)}
    BY <1>7 DEF BootStage, BootPhase
  <2>3. QED
    BY <2>1, <2>2, BootFormed
<1>8. CASE CutInTable(disk[n], made[n])
  <2>1. PICK a, k : GoodVendor(a) /\ k \in 0..Entries(a) - 1
                    /\ disk[n] = CutTable(VendorDtb(a), BuilderOf(a).entries, k)
    BY <1>8 DEF CutInTable
  <2>2. PICK img : img = VendorDtb(a) /\ DOMAIN img = DOMAIN Opened /\ Formed(img)
    BY <2>1, VendorFormed, VendorPlaced DEF Tidy
  <2>3. PICK size : size = k * 108 + 8 /\ size \in Nat /\ img.len + size \in Nat
                    /\ img.len <= img.len + size
    <3>1. k \in Nat
      BY <2>1
    <3>2. img.len \in Nat
      BY <2>2 DEF Formed
    <3>3. k * 108 + 8 \in Nat
      BY <3>1
    <3>4. QED
      BY <3>2, <3>3
  <2>4. /\ disk[n].fields = img.fields /\ disk[n].at = img.at
        /\ disk[n].ramdisks = img.ramdisks /\ disk[n].len = img.len + k * 108 + 8
    BY <2>1, <2>2 DEF CutTable, Opened, VENDOR_RAMDISK_TABLE_ENTRY_V4_SIZE
  <2>5. disk[n].len = img.len + size
    <3>1. img.len \in Nat /\ k \in Nat
      BY <2>1, <2>2 DEF Formed
    <3>2. QED
      BY <2>3, <2>4, <3>1
  <2>6. PICK w \in Nat : w = Width(img.fields)
    <3>1. a.header_version \in Int
      BY <2>1 DEF GoodVendor
    <3>2. img.fields = VendorFields(a, BuilderOf(a))
      BY <2>1, <2>2, VendorPlaced
    <3>3. Width(img.fields) = VendorHeaderSize(a)
      BY <3>1, <3>2, VendorWidth
    <3>4. QED
      BY <3>3 DEF VendorHeaderSize
  <2>7. disk[n].len >= w /\ disk[n].len \in Nat
    BY <2>2, <2>3, <2>5, <2>6 DEF Formed
  <2>8. QED
    BY <2>2, <2>4, <2>6, <2>7 DEF Formed, Chunks
<1>9. QED
  BY <1>1, <1>2, <1>3, <1>4, <1>5, <1>6, <1>7, <1>8 DEF ContentInv

\* The options mkbootimg.py has when none is given
LEMMA DefaultsTyped == Typed(Defaults)
<1>1. PICK a : a = Defaults
  OBVIOUS
<1>2. a.header_version \in Int
  BY <1>1 DEF Defaults
<1>3. {a.kernel, a.ramdisk, a.second, a.recovery_dtbo, a.dtb, a.vendor_ramdisk,
       a.vendor_bootconfig} \subseteq File \cup {None}
  BY <1>1, DefaultOptions
<1>4. {a.base, a.kernel_offset, a.ramdisk_offset, a.second_offset, a.dtb_offset,
       a.tags_offset} \subseteq Int
  BY <1>1, DefaultOptions
<1>5. /\ a.os_version \in (Nat \X Nat \X Nat) \cup {None}
      /\ a.os_patch_level \in (Nat \X Nat) \cup {None}
      /\ a.cmdline \in [from : {0}, to : Nat, wide : Nat]
      /\ a.output \in Image \cup {None} /\ a.vendor_boot \in Image \cup {None}
      /\ a.output = None \/ a.output # a.vendor_boot
      /\ a.vendor_ramdisk = None \/ Len(a.fragments) <= 2
  BY <1>1, DefaultOptions DEF NoText
<1>6. /\ a.fragments \in Seq([file : File, type : Int, name : {""} \cup STRING, board_id : Int])
      /\ Len(a.fragments) <= 3
  <2>1. a.fragments = << >> /\ Len(<< >>) = 0
    BY <1>1, DefaultOptions
  <2>2. ASSUME NEW R PROVE << >> \in Seq(R)
    OBVIOUS
  <2>3. a.fragments \in Seq([file : File, type : Int, name : {""} \cup STRING, board_id : Int])
    BY <2>1, <2>2, Zenon
  <2>4. QED
    BY <2>1, <2>3
<1>7. QED
  BY <1>1, <1>2, <1>3, <1>4, <1>5, <1>6, Zenon DEF Typed

LEMMA TypeInit == ASSUME Init PROVE TypeInv
<1>1. Typed(job)
  BY DefaultsTyped DEF Init
<1>2. QED
  BY <1>1, BoundsAssumption DEF Init, TypeInv, FileOrNone

\* What the user starts
LEMMA UserTypes ==
  ASSUME ImagesInv, TripInv, TypeInv, Build \/ Unpack \/ Repack
  PROVE  TypeInv'
<1>1. /\ pc' \in {"parse", "unpack"} /\ UNCHANGED <<ret, builder, disk, made, outdir, links>>
      /\ builds' \in 0..MaxBuilds /\ unpacks' \in 0..MaxUnpacks
  BY BoundsAssumption DEF Build, Unpack, Repack, mk, unpack, TypeInv
<1>2. Typed(job)'
  <2>1. CASE Build
    BY <2>1, JobsAssumption DEF Build
  <2>2. CASE Unpack
    BY <2>2 DEF Unpack, mk, TypeInv
  <2>3. CASE Repack
    BY <2>3, BootPrintedTyped, VendorPrintedTyped DEF Repack, TripInv
  <2>4. QED
    BY <2>1, <2>2, <2>3
<1>3. QED
  BY <1>1, <1>2 DEF TypeInv

\* The steps of mkbootimg.py: where they lead,
LEMMA BuildPc ==
  ASSUME TypeInv, MkbootimgStep
  PROVE  /\ pc' \in {"idle", "parse", "add_entry", "main", "vendor_header", "vendor_ramdisk",
                     "vendor_ramdisks", "vendor_dtb", "vendor_table", "vendor_bootconfig",
                     "output", "unpack", "extract"} \cup Part
         /\ ret' \in {"ok", "error"} /\ UNCHANGED <<job, unpack, builds, unpacks>>
<1>1. CASE UsageError \/ ParseCmdline
  BY <1>1 DEF UsageError, ParseCmdline, Exit, TypeInv, mk
<1>2. CASE AddEntry \/ EntriesAdded \/ CheckVendorBoot
  BY <1>2 DEF AddEntry, EntriesAdded, CheckVendorBoot, Exit, TypeInv, mk
<1>3. CASE VendorHeader \/ Header
  BY <1>3 DEF VendorHeader, Header, PutHeader, Exit, TypeInv, mk, Part
<1>4. CASE WriteVendorRamdisk \/ WriteRamdisksPadded \/ WriteVendorDtb
           \/ WriteEntriesPadded \/ WriteBootconfig
  BY <1>4 DEF WriteVendorRamdisk, WriteRamdisksPadded, WriteVendorDtb, WriteEntriesPadded,
              WriteBootconfig, WriteVendor, TypeInv, mk
<1>5. CASE WriteKernel \/ WriteRamdisk \/ WriteSecond \/ WriteDtbo \/ WriteDtb
  BY <1>5 DEF WriteKernel, WriteRamdisk, WriteSecond, WriteDtbo, WriteDtb, WriteBoot, TypeInv,
              mk, Part
<1>6. CASE AddBootImageSignature
  BY <1>6 DEF AddBootImageSignature, Exit, TypeInv, mk
<1>7. CASE WriteEntriesFails
  BY <1>7 DEF WriteEntriesFails, Exit, TypeInv, mk
<1>8. QED
  BY <1>1, <1>2, <1>3, <1>4, <1>5, <1>6, <1>7 DEF MkbootimgStep

\* how many bytes of ramdisks they count,
LEMMA BuildTotal ==
  ASSUME TripInv, TypeInv, MkbootimgStep
  PROVE  builder'.total \in Nat
<1>1. CASE ParseCmdline
  BY <1>1 DEF ParseCmdline
<1>2. CASE AddEntry
  <2>1. Typed(job) /\ Ramdisks = RamdisksOf(job)
    BY DEF TypeInv, Ramdisks, RamdisksOf
  <2>2. PICK i : i = Added + 1
    OBVIOUS
  <2>3. Added \in 0..Len(RamdisksOf(job)) /\ Added < Len(RamdisksOf(job))
    BY <1>2, <2>1 DEF AddEntry, TripInv, BuilderInv
  <2>4. RamdisksOf(job) \in Seq(Ramdisk) /\ Len(RamdisksOf(job)) \in 0..3
    BY <2>1, RamdisksTyped
  <2>5. i \in 1..Len(RamdisksOf(job))
    BY <2>2, <2>3, <2>4
  <2>6. RamdisksOf(job)[i] \in Ramdisk
    BY <2>4, <2>5, ElementsOf
  <2>7. RamdisksOf(job)[i].file.size \in Nat
    BY <2>6, FileSizes, NoneAssumption DEF Ramdisk
  <2>8. \/ builder' = builder
        \/ builder'.total = builder.total + RamdisksOf(job)[i].file.size
    BY <1>2, <2>1, <2>2 DEF AddEntry
  <2>9. QED
    BY <2>7, <2>8 DEF TypeInv
<1>3. CASE ~(ParseCmdline \/ AddEntry)
  <2>1. builder' = builder
    BY <1>3 DEF MkbootimgStep, UsageError, EntriesAdded, CheckVendorBoot, VendorHeader, Header,
                WriteVendorRamdisk, WriteRamdisksPadded, WriteVendorDtb, WriteEntriesPadded,
                WriteEntriesFails, WriteBootconfig, WriteVendor, WriteKernel, WriteRamdisk,
                WriteSecond, WriteDtbo, WriteDtb, WriteBoot, AddBootImageSignature, mk
  <2>2. QED
    BY <2>1 DEF TypeInv
<1>4. QED
  BY <1>1, <1>2, <1>3

\* and which images they know of.
LEMMA BuildMade ==
  ASSUME ImagesInv, TypeInv, MkbootimgStep, NEW n \in Image
  PROVE  made'[n] = None \/ made'[n].whole \in BOOLEAN
<1>1. made[n] = None \/ made[n].whole \in BOOLEAN
  BY DEF TypeInv
<1>2. CASE UsageError \/ ParseCmdline
  <2>1. made'[n] = [job |-> job, whole |-> FALSE] \/ made'[n] = made[n]
    BY <1>2 DEF UsageError, ParseCmdline, Open
  <2>2. [job |-> job, whole |-> FALSE].whole = FALSE
    OBVIOUS
  <2>3. QED
    BY <1>1, <2>1, <2>2, Zenon
<1>3. CASE made' = made
  BY <1>1, <1>3, Zenon
\* an image that is whole now was opened by this run
<1>4. ASSUME NEW name \in Outputs, pc \in Building, made' = [made EXCEPT ![name].whole = TRUE]
      PROVE  made'[n] = None \/ made'[n].whole \in BOOLEAN
  <2>1. DOMAIN made[name] = {"job", "whole"} /\ DOMAIN made = Image
    BY <1>4 DEF ImagesInv, JobInv, DiskInv
  <2>2. CASE n = name
    <3>1. made'[n] = [made[n] EXCEPT !["whole"] = TRUE] /\ "whole" \in DOMAIN made[n]
      BY <1>4, <2>1, <2>2
    <3>2. made'[n].whole = TRUE
      BY <3>1, Zenon
    <3>3. QED
      BY <3>2, Zenon
  <2>3. CASE n # name
    <3>1. made'[n] = made[n]
      BY <1>4, <2>1, <2>3
    <3>2. QED
      BY <1>1, <3>1, Zenon
  <2>4. QED
    BY <2>2, <2>3, Zenon
<1>5. CASE \/ WriteVendorRamdisk \/ WriteRamdisksPadded \/ WriteVendorDtb
           \/ WriteEntriesPadded \/ WriteBootconfig
  <2>1. pc \in VendorPhase /\ pc \in Building
    BY <1>5 DEF WriteVendorRamdisk, WriteRamdisksPadded, WriteVendorDtb, WriteEntriesPadded,
                WriteBootconfig, WriteVendor, VendorPhase, Building
  <2>2. job.vendor_boot \in Outputs
    BY <2>1 DEF ImagesInv, JobInv, Outputs
  <2>3. made' = made \/ made' = [made EXCEPT ![job.vendor_boot].whole = TRUE]
    BY <1>5 DEF WriteVendorRamdisk, WriteRamdisksPadded, WriteVendorDtb, WriteEntriesPadded,
                WriteBootconfig, WriteVendor
  <2>4. QED
    BY <1>3, <1>4, <2>1, <2>2, <2>3, Zenon
<1>6. CASE AddBootImageSignature
  <2>1. pc \in BootPhase /\ pc \in Building
    BY <1>6 DEF AddBootImageSignature, BootPhase, Building
  <2>2. job.output \in Outputs
    BY <2>1 DEF ImagesInv, JobInv, Outputs
  <2>3. made' = made \/ made' = [made EXCEPT ![job.output].whole = TRUE]
    BY <1>6 DEF AddBootImageSignature
  <2>4. QED
    BY <1>3, <1>4, <2>1, <2>2, <2>3, Zenon
<1>7. CASE \/ AddEntry \/ EntriesAdded \/ CheckVendorBoot \/ VendorHeader \/ Header
           \/ WriteEntriesFails
           \/ WriteKernel \/ WriteRamdisk \/ WriteSecond \/ WriteDtbo \/ WriteDtb
  <2>1. made' = made
    BY <1>7 DEF WriteEntriesFails, AddEntry, EntriesAdded, CheckVendorBoot, VendorHeader, Header, WriteKernel,
                WriteRamdisk, WriteSecond, WriteDtbo, WriteDtb, WriteBoot
  <2>2. QED
    BY <1>3, <2>1
<1>8. QED
  BY <1>2, <1>5, <1>6, <1>7, Zenon DEF MkbootimgStep

\* The steps of unpack_bootimg.py
LEMMA UnpackTypes ==
  ASSUME ImagesInv, TripInv, TypeInv, UnpackStep
  PROVE  TypeInv'
<1>1. /\ pc' \in {"idle", "extract"} /\ ret' \in {"ok", "error"}
      /\ UNCHANGED <<job, builder, made, builds, unpacks>>
  BY DEF UnpackStep, ReadHeader, ExtractImage, LinkAndPrint, mk, TypeInv
<1>2. \A n \in OutFile : FileOrNone(outdir'[n])
  <2>1. CASE ReadHeader \/ LinkAndPrint
    BY <2>1 DEF ReadHeader, LinkAndPrint, TypeInv
  <2>2. CASE ExtractImage
    <3>1. PICK t : outdir' = [outdir EXCEPT ![t.name] = Read(Source, t.off, t.size)]
      BY <2>2 DEF ExtractImage
    <3>2. Formed(Source)
      BY <2>2, ImagesFormed DEF ExtractImage, TripInv, ListInv, Source, Name
    <3>3. PICK f : f = Read(Source, t.off, t.size)
      OBVIOUS
    <3>4. FileOrNone(f)
      <4> DEFINE hits == {c \in Chunks(Source) : c.file # None /\ c.off = t.off
                                                 /\ c.file.size = t.size}
      <4>1. hits # {} => (CHOOSE c \in hits : TRUE) \in Chunks(Source)
        OBVIOUS
      <4>2. f = Empty \/ f = Other \/ (hits # {} /\ f = (CHOOSE c \in hits : TRUE).file)
        BY <3>3 DEF Read
      <4> HIDE DEF hits
      <4>3. QED
        BY <3>2, <4>1, <4>2 DEF Formed, FileOrNone, Empty, Other
    <3>5. QED
      BY <3>1, <3>3, <3>4 DEF TypeInv, TripInv, ListInv
  <2>3. QED
    BY <2>1, <2>2 DEF UnpackStep
<1>3. \A n \in DOMAIN links' : links'[n] \in OutFile
  <2>1. CASE UNCHANGED links
    BY <2>1 DEF TypeInv
  <2>2. CASE ~UNCHANGED links
    <3>1. PICK table : table = info.header.table
      OBVIOUS
    <3>2. LinkAndPrint /\ links' = Linked(table) /\ ~IsBoot(info.of)
      <4>1. LinkAndPrint
        BY <2>2 DEF UnpackStep, ReadHeader, ExtractImage
      <4>2. Source = info.of
        BY <4>1 DEF LinkAndPrint, TripInv, ListInv
      <4>3. QED
        BY <2>2, <3>1, <4>1, <4>2 DEF LinkAndPrint
    <3>3. \A i \in DOMAIN table : RamdiskFile[i] \in OutFile
      <4>1. pc = "extract"
        BY <3>2 DEF LinkAndPrint
      <4>3. \A i \in DOMAIN table : i \in 1..3
        BY <3>1, <3>2, <4>1 DEF TripInv, ListInv
      <4>4. DOMAIN RamdiskFile = 1..3
        BY DEF RamdiskFile
      <4>5. QED
        BY <4>3, <4>4 DEF OutFile
    <3>4. ASSUME NEW n \in DOMAIN links' PROVE links'[n] \in OutFile
      <4>1. n \in DOMAIN links \cup {table[i].name : i \in DOMAIN table}
        BY <3>2 DEF Linked
      <4>2. CASE \E i \in DOMAIN table : table[i].name = n
        <5>1. PICK i \in DOMAIN table : i = CHOOSE k \in DOMAIN table : table[k].name = n
          BY <4>2
        <5>2. links'[n] = RamdiskFile[i]
          BY <3>2, <4>1, <4>2, <5>1 DEF Linked
        <5>3. QED
          BY <3>3, <5>1, <5>2
      <4>3. CASE ~\E i \in DOMAIN table : table[i].name = n
        <5>1. n \in DOMAIN links /\ links'[n] = links[n]
          BY <3>2, <4>1, <4>3 DEF Linked
        <5>2. QED
          BY <5>1 DEF TypeInv
      <4>4. QED
        BY <4>2, <4>3
    <3>5. QED
      BY <3>4
  <2>3. QED
    BY <2>1, <2>2
<1>4. QED
  BY <1>1, <1>2, <1>3 DEF TypeInv

\* The variables have the values they are meant to have: every image on disk is at least
\* as long as its header and its parts have offsets and sizes, the output directory holds
\* files, links lead to names in it, and no step leads out of the two scripts.
THEOREM BootTypesCorrect == Spec => []TypeOK
<1>1. Init => TypeInv
  BY TypeInit
<1>2. ImagesInv /\ TripInv /\ TypeInv /\ [Next]_vars => TypeInv'
  <2> SUFFICES ASSUME ImagesInv, TripInv, TypeInv, [Next]_vars PROVE TypeInv'
    OBVIOUS
  <2>1. CASE Build \/ Unpack \/ Repack
    BY <2>1, UserTypes
  <2>2. CASE MkbootimgStep
    <3>1. /\ pc' \in {"idle", "parse", "add_entry", "main", "vendor_header", "vendor_ramdisk",
                      "vendor_ramdisks", "vendor_dtb", "vendor_table", "vendor_bootconfig",
                      "output", "unpack", "extract"} \cup Part
          /\ ret' \in {"ok", "error"} /\ UNCHANGED <<job, unpack, builds, unpacks>>
      BY <2>2, BuildPc
    <3>2. builder'.total \in Nat
      BY <2>2, BuildTotal
    <3>3. \A n \in Image : made'[n] = None \/ made'[n].whole \in BOOLEAN
      BY <2>2, BuildMade
    <3>4. UNCHANGED <<outdir, links>>
      BY <3>1 DEF unpack
    <3>5. QED
      BY <3>1, <3>2, <3>3, <3>4 DEF TypeInv
  <2>3. CASE UnpackStep
    BY <2>3, UnpackTypes
  <2>4. CASE UNCHANGED vars
    BY <2>4 DEF vars, mk, unpack, TypeInv
  <2>5. QED
    BY <2>1, <2>2, <2>3, <2>4 DEF Next, Step
<1>3. ImagesInv /\ TripInv /\ TypeInv => TypeOK
  <2> SUFFICES ASSUME TripInv, TypeInv PROVE TypeOK
    OBVIOUS
  <2>1. Text(job.cmdline) /\ FileOrNone(job.kernel)
    <3>1. job.cmdline \in [from : {0}, to : Nat, wide : Nat] /\ job.kernel \in File \cup {None}
      BY OptionsTyped DEF TypeInv
    <3>2. QED
      BY <3>1, FileSizes DEF Text, FileOrNone
  <2>2. \A n \in Image : Formed(disk[n])
    BY ImagesFormed
  <2>3. DOMAIN outdir = OutFile
    BY DEF TripInv, ListInv
  <2>4. QED
    BY <2>1, <2>2, <2>3 DEF TypeInv, TypeOK, Formed
<1>4. QED
  BY <1>1, <1>2, <1>3, TripAlways, PTL DEF Spec
===============================================================================
