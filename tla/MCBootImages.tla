------------------------------ MODULE MCBootImages ------------------------------
EXTENDS BootImages

F(id, size) == IF size = 0 THEN Empty ELSE [id |-> id, size |-> size]
T(length) == [from |-> 0, to |-> length, wide |-> 0]
Wide(length, at) == [from |-> 0, to |-> length, wide |-> at]

\* Sizes at and around a page, for pages of 2048 and of 4096 bytes
Boot == [Defaults EXCEPT !.output = "boot.img", !.kernel = F("k5000", 5000),
                         !.ramdisk = F("r4097", 4097)]
Dtb == F("d300", 300)

OldJobs ==
    {[Boot EXCEPT !.header_version = v, !.kernel = k, !.ramdisk = r, !.second = s,
                  !.recovery_dtbo = o, !.dtb = Dtb] :
       v \in {0, 2}, k \in {F("k1", 1), F("k4096", 4096)}, r \in {None, F("r2048", 2048)},
       s \in {None, F("s2049", 2049)}, o \in {None, F("o700", 700)}}
    \cup {[Boot EXCEPT !.header_version = v, !.recovery_dtbo = o, !.dtb = Dtb,
                       !.pagesize = 4096] :
       v \in {1, 2}, o \in {F("o0", 0), F("o4096", 4096)}}
TextJobs ==
    {[Boot EXCEPT !.header_version = v, !.cmdline = t] :
       v \in {0, 3},
       t \in {T(511), T(512), T(1534), T(1535), T(1536), Wide(600, 511), Wide(600, 512)}}
VersionJobs ==
    {[Boot EXCEPT !.header_version = v, !.os_version = <<12, 1, 0>>, !.kernel = k,
                  !.os_patch_level = <<2022, 10>>, !.board = 15, !.dtb = d] :
       v \in 0..5, k \in {None, F("k4096", 4096)}, d \in {None, Dtb}}
OddJobs ==
    {[Boot EXCEPT !.base = Max32], [Boot EXCEPT !.board = 16], [Boot EXCEPT !.tags_offset = Max32 - 1],
     [Boot EXCEPT !.pagesize = 1000], [Boot EXCEPT !.fragments = << [file |-> Dtb,
        type |-> 0, name |-> "a", board_id |-> 0] >>],
     [Boot EXCEPT !.header_version = 3, !.second = Dtb],
     [Boot EXCEPT !.os_version = <<128, 0, 0>>], [Boot EXCEPT !.os_patch_level = <<2022, 13>>],
     [Boot EXCEPT !.os_version = <<31, 127, 127>>, !.os_patch_level = <<2127, 12>>],
     [Boot EXCEPT !.header_version = 2, !.dtb = F("d0", 0)],
     [Boot EXCEPT !.header_version = -1],
     [Boot EXCEPT !.header_version = 2, !.dtb = Dtb, !.dtb_offset = -2 * Boot.base],
     [Boot EXCEPT !.header_version = 2, !.dtb = Dtb, !.base = 0, !.dtb_offset = Max64],
     [Boot EXCEPT !.header_version = 2, !.dtb = Dtb, !.base = 0, !.dtb_offset = Max64 - 1]}
SignedJobs ==
    {[Boot EXCEPT !.header_version = 4, !.ramdisk = r, !.signature = s] :
       r \in {None, F("r0", 0), F("r4097", 4097)},
       s \in {"zeros", "signed", "avbtool fails", "too long"}}

Fragment(name, size) == [file |-> F(name, size), type |-> 2, name |-> name, board_id |-> 7]
Vendor4 == [Defaults EXCEPT !.vendor_boot = "vendor_boot.img", !.header_version = 4,
              !.dtb = Dtb, !.vendor_cmdline = 30, !.board = 3]
VendorJobs ==
    {[Vendor4 EXCEPT !.vendor_ramdisk = r, !.fragments = f, !.vendor_bootconfig = b,
                     !.pagesize = p] :
       r \in {None, F("v1", 1)},
       f \in {<< >>, <<Fragment("a", 2047), Fragment("b", 2049)>>,
              <<Fragment("a", 0), Fragment("b", 4096)>>,
              <<Fragment("a", 5), Fragment("a", 6)>>, <<Fragment("default", 5)>>},
       b \in {None, F("c50", 50)}, p \in {2048, 16384}}
    \cup {[Vendor4 EXCEPT !.header_version = v, !.vendor_ramdisk = r, !.dtb = d,
                          !.kernel_offset = k] :
       v \in 2..4, r \in {None, F("v2048", 2048)}, d \in {None, Dtb}, k \in {32768, Max32}}

\* Names and numbers that the command line takes and the image cannot hold
Odd == Fragment("odd", 9)
RefusedJobs ==
    {[Vendor4 EXCEPT !.vendor_ramdisk = r, !.fragments = f, !.dtb_offset = o] :
       r \in {None, F("v1", 1)}, o \in {0, -2 * Boot.base},
       f \in {<<Fragment("a", 4096), [Odd EXCEPT !.type = t]>> : t \in {-1, Max32 - 1, Max32}}
             \cup {<<[Odd EXCEPT !.type = Max32], Fragment("a", 4096)>>}
             \cup {<<[Odd EXCEPT !.board_id = b]>> : b \in {-1, Max32 - 1, Max32}}
             \cup {<<Fragment("a name of more than 31 bytes", 9)>>}}
MCLongNames == {"a name of more than 31 bytes"}

BothJobs ==
    {[Vendor4 EXCEPT !.output = "boot.img", !.kernel = F("k4096", 4096),
                     !.vendor_ramdisk = F("v1", 1), !.signature = s,
                     !.vendor_cmdline = c] :
       s \in {"signed", "avbtool fails"}, c \in {2047, 2048}}

\* The two images of docs/build.md
BuildJobs ==
    {[Boot EXCEPT !.header_version = 3, !.ramdisk = F("r512", 512), !.pagesize = 4096,
                  !.base = 0, !.cmdline = T(49), !.os_version = <<11, 0, 0>>,
                  !.os_patch_level = <<2024, 10>>],
     [Vendor4 EXCEPT !.header_version = 3, !.vendor_ramdisk = F("r512", 512),
                     !.pagesize = 4096, !.base = 0, !.vendor_cmdline = 49, !.board = 0,
                     !.os_version = <<11, 0, 0>>, !.os_patch_level = <<2024, 10>>]}

MCJobs == OldJobs \cup TextJobs \cup VersionJobs \cup OddJobs \cup SignedJobs
          \cup VendorJobs \cup RefusedJobs \cup BothJobs \cup BuildJobs
MCLaterJobs ==
    {[Boot EXCEPT !.header_version = 2, !.second = F("later", 2050), !.dtb = Dtb],
     [Boot EXCEPT !.header_version = 4, !.kernel = F("later", 9), !.cmdline = T(7)],
     [Boot EXCEPT !.header_version = 1, !.base = Max32],
     [Vendor4 EXCEPT !.fragments = <<Fragment("a", 13), [Odd EXCEPT !.type = Max32]>>],
     [Vendor4 EXCEPT !.fragments = <<Fragment("b", 10), Fragment("c", 11)>>],
     [Vendor4 EXCEPT !.header_version = 3, !.vendor_ramdisk = F("later", 12)]}
===============================================================================
