------------------------- MODULE FragReassemblyProofs -------------------------
(***************************************************************************)
(* Proofs about FragReassembly: type correctness and the consistency of    *)
(* the accumulation state for every device and every failure, and whole,   *)
(* in-order dispatch for a device that pads only single-fragment reports,  *)
(* on a bus that fails, if at all, on such reports only.                   *)
(***************************************************************************)
EXTENDS FragReassembly, TLAPS

-------------------------------------------------------------------------------
\* A report of any shape is a sequence of fragments, one per end offset, each
\* covering a non-empty range that begins where the one before it ends.
LEMMA FragmentsType ==
    ASSUME NEW s \in Shapes, NEW n \in Nat
    PROVE  /\ Fragments(n, s) \in Seq(Fragment)
           /\ Len(Fragments(n, s)) = Len(s.ends)
           /\ Len(s.ends) \in Nat \ {0}
<1> USE ShapesAssumption DEF Fragment
<1>1. /\ s.ends \in Seq(Nat)
      /\ Len(s.ends) > 0
      /\ s.content \in Nat
  OBVIOUS
<1>2. \A i \in 1..Len(s.ends) : s.ends[i] \in Nat
  BY <1>1
<1>3. \A i \in 1..Len(s.ends) :
         [report  |-> n,
          index   |-> i,
          last    |-> i = Len(s.ends),
          content |-> s.content,
          from    |-> IF i = 1 THEN 0 ELSE s.ends[i - 1],
          to      |-> s.ends[i]] \in Fragment
  BY <1>1, <1>2
<1>4. QED
  BY <1>1, <1>3 DEF Fragments

\* What hidspi_handle_input_body() does to the record of dispatched bodies.
LEMMA HandleInputBodyType ==
    ASSUME dispatched \in Seq(Seq(Fragment)),
           NEW body \in Seq(Fragment), NEW len \in Nat,
           HandleInputBody(body, len)
    PROVE  dispatched' \in Seq(Seq(Fragment))
BY DEF HandleInputBody

\* The head of the wire and what is left of it, when there is one.
LEMMA WireHead ==
    ASSUME TypeOK, wire # << >>
    PROVE  /\ Head(wire) \in Fragment
           /\ Tail(wire) \in Seq(Fragment)
BY DEF TypeOK

-------------------------------------------------------------------------------
(* Consistency of the accumulation state, for every device. *)

AccumulationOK == LenMatchesBuffer /\ OnlyFirstCopyUnbounded

AccumulationInv == TypeOK /\ AccumulationOK

\* Nothing is accumulated before the first fragment.
LEMMA AccumulationInit == Init => AccumulationInv
BY SizesAssumption
   DEF Init, AccumulationInv, AccumulationOK, TypeOK, LenMatchesBuffer,
       OnlyFirstCopyUnbounded

\* Every fragment, whatever it is and whatever fails, keeps the accumulation state consistent.
LEMMA AccumulationStep == AccumulationInv /\ [Next]_vars => AccumulationInv'
<1> SUFFICES ASSUME AccumulationInv, [Next]_vars
             PROVE  AccumulationInv'
  OBVIOUS
<1> USE SizesAssumption DEF AccumulationInv, AccumulationOK
<1> DEFINE f == Head(wire)
<1>1. ASSUME NEW s \in Shapes, DeviceSends(s)
      PROVE  AccumulationInv'
  <2>1. Fragments(sent + 1, s) \in Seq(Fragment)
    BY FragmentsType DEF TypeOK
  <2>2. TypeOK'
    BY <1>1, <2>1 DEF DeviceSends, TypeOK, hsdev
  <2>3. QED
    BY <1>1, <2>2
       DEF DeviceSends, hsdev, LenMatchesBuffer, OnlyFirstCopyUnbounded, BodyLen
<1>2. ASSUME wire # << >>, ReadFails \/ BodyLenOutOfRange
      PROVE  AccumulationInv'
  <2>1. f \in Fragment /\ Tail(wire) \in Seq(Fragment)
    BY <1>2, WireHead
  <2>2. f.report \in Nat
    BY <2>1 DEF Fragment
  <2>3. /\ wire' = Tail(wire) /\ UNCHANGED <<sent, hsdev, dispatched>>
        /\ lost' = lost \/ lost' = lost \cup {f.report}
    BY <1>2 DEF ReadFails, BodyLenOutOfRange
  <2>4. lost' \in SUBSET Nat
    BY <2>2, <2>3 DEF TypeOK
  <2>5. TypeOK'
    BY <2>1, <2>3, <2>4 DEF TypeOK, hsdev
  <2>6. QED
    BY <2>3, <2>5 DEF hsdev, LenMatchesBuffer, OnlyFirstCopyUnbounded, BodyLen
<1>3. ASSUME wire # << >>, ReadInput(f)
      PROVE  /\ f \in Fragment
             /\ BodyLen(f) \in Nat \ {0}
             /\ wire' \in Seq(Fragment)
             /\ sent' = sent /\ lost' = lost
  <2>1. f \in Fragment /\ Tail(wire) \in Seq(Fragment)
    BY <1>3, WireHead
  <2>2. BodyLen(f) \in Nat \ {0}
    BY <1>3 DEF ReadInput
  <2>3. QED
    BY <1>3, <2>1, <2>2 DEF ReadInput
<1>4. ASSUME wire # << >>, SingleFragment(f)
      PROVE  AccumulationInv'
  <2>1. ReadInput(f) /\ UNCHANGED hsdev /\ HandleInputBody(<<f>>, BodyLen(f))
    BY <1>4 DEF SingleFragment
  <2>2. dispatched' \in Seq(Seq(Fragment))
    <3>1. f \in Fragment /\ BodyLen(f) \in Nat
      BY <1>3, <1>4, <2>1
    <3>2. <<f>> \in Seq(Fragment)
      BY <3>1
    <3>3. QED
      BY <2>1, <3>1, <3>2, HandleInputBodyType DEF TypeOK
  <2>3. TypeOK'
    BY <1>3, <1>4, <2>1, <2>2 DEF TypeOK, hsdev
  <2>4. QED
    BY <2>1, <2>3 DEF hsdev, LenMatchesBuffer, OnlyFirstCopyUnbounded, BodyLen
<1>5. ASSUME wire # << >>, FirstFragment(f)
      PROVE  AccumulationInv'
  <2>1. /\ f \in Fragment
        /\ BodyLen(f) \in Nat \ {0}
        /\ wire' \in Seq(Fragment)
        /\ sent' = sent /\ lost' = lost
        /\ dispatched' = dispatched
        /\ frag_len = 0
    BY <1>3, <1>5 DEF FirstFragment
  <2>2. CASE BodyLen(f) < HeaderSize
    BY <1>5, <2>1, <2>2
       DEF FirstFragment, hsdev, TypeOK, LenMatchesBuffer,
           OnlyFirstCopyUnbounded, BodyLen
  <2>3. CASE ~(BodyLen(f) < HeaderSize)
    <3>1. PICK garbage \in GarbageContent :
             /\ frag_expected' = ContentLen(f, garbage) + HeaderSize
             /\ \/ UNCHANGED <<frag_buf, frag_len>>
                \/ frag_buf' = <<f>> /\ frag_len' = BodyLen(f)
      BY <1>5, <2>3 DEF FirstFragment
    <3>2. frag_expected' \in Nat
      BY <2>1, <3>1 DEF ContentLen, Fragment
    <3>3. CASE UNCHANGED <<frag_buf, frag_len>>
      BY <2>1, <3>2, <3>3
         DEF TypeOK, LenMatchesBuffer, OnlyFirstCopyUnbounded, BodyLen
    <3>4. CASE frag_buf' = <<f>> /\ frag_len' = BodyLen(f)
      <4>1. frag_buf' \in Seq(Fragment) /\ Len(frag_buf') = 1 /\ frag_buf'[1] = f
        BY <2>1, <3>4
      <4>2. TypeOK'
        BY <2>1, <3>2, <3>4, <4>1 DEF TypeOK
      <4>3. QED
        BY <2>1, <3>4, <4>1, <4>2
           DEF LenMatchesBuffer, OnlyFirstCopyUnbounded, BodyLen
    <3>5. QED
      BY <3>1, <3>3, <3>4
  <2>4. QED
    BY <2>2, <2>3
<1>6. ASSUME wire # << >>, Overflow(f)
      PROVE  AccumulationInv'
  <2>1. /\ wire' \in Seq(Fragment)
        /\ sent' = sent /\ lost' = lost
        /\ frag_buf' = << >> /\ frag_len' = 0 /\ frag_expected' = 0
        /\ dispatched' = dispatched
    BY <1>3, <1>6 DEF Overflow, Discard
  <2>2. QED
    BY <2>1 DEF TypeOK, LenMatchesBuffer, OnlyFirstCopyUnbounded
<1>7. ASSUME wire # << >>, Continuation(f)
      PROVE  AccumulationInv'
  <2>1. /\ f \in Fragment
        /\ BodyLen(f) \in Nat \ {0}
        /\ wire' \in Seq(Fragment)
        /\ sent' = sent /\ lost' = lost
        /\ frag_len # 0
        /\ frag_len + BodyLen(f) <= frag_expected
    BY <1>3, <1>7 DEF Continuation
  <2>2. Append(frag_buf, f) \in Seq(Fragment)
    BY <2>1 DEF TypeOK
  <2>3. CASE f.last
    <3>1. HandleInputBody(Append(frag_buf, f), frag_len + BodyLen(f)) /\ Discard
      BY <1>7, <2>3 DEF Continuation
    <3>2. dispatched' \in Seq(Seq(Fragment))
      <4> DEFINE len == frag_len + BodyLen(f)
      <4>1. len \in Nat
        BY <2>1 DEF TypeOK
      <4>2. HandleInputBody(Append(frag_buf, f), len)
        BY <3>1
      <4>3. dispatched \in Seq(Seq(Fragment))
        BY DEF TypeOK
      <4> HIDE DEF len
      <4>4. QED
        BY <2>2, <4>1, <4>2, <4>3, HandleInputBodyType
    <3>3. QED
      BY <2>1, <3>1, <3>2
         DEF Discard, TypeOK, LenMatchesBuffer, OnlyFirstCopyUnbounded
  <2>4. CASE ~f.last
    <3>1. /\ frag_buf' = Append(frag_buf, f)
          /\ frag_len' = frag_len + BodyLen(f)
          /\ frag_expected' = frag_expected
          /\ dispatched' = dispatched
      BY <1>7, <2>4 DEF Continuation
    <3>2. TypeOK'
      BY <2>1, <2>2, <3>1 DEF TypeOK
    <3>3. frag_len' \in Nat \ {0} /\ frag_len' <= frag_expected'
      BY <2>1, <3>1 DEF TypeOK
    <3>4. frag_buf' # << >>
      BY <2>1, <3>1 DEF TypeOK
    <3>5. QED
      BY <3>2, <3>3, <3>4 DEF LenMatchesBuffer, OnlyFirstCopyUnbounded
  <2>5. QED
    BY <2>3, <2>4
<1>8. CASE UNCHANGED vars
  BY <1>8
     DEF vars, TypeOK, LenMatchesBuffer, OnlyFirstCopyUnbounded, BodyLen
<1>9. QED
  BY <1>1, <1>2, <1>4, <1>5, <1>6, <1>7, <1>8 DEF Next, HandleInput

\* Every variable keeps its type, whatever the device sends.
THEOREM TypeCorrect == Spec => []TypeOK
<1>1. Init => AccumulationInv
  BY AccumulationInit
<1>2. AccumulationInv /\ [Next]_vars => AccumulationInv'
  BY AccumulationStep
<1>3. AccumulationInv => TypeOK
  BY DEF AccumulationInv
<1>4. QED
  BY <1>1, <1>2, <1>3, PTL DEF Spec

\* frag_len and frag_buf agree after every fragment (the field comments of
\* struct hidspi_device), and only the first copy of a report is made without
\* a bound, whatever the device sends and whatever fails.
THEOREM AccumulationConsistent == Spec => [](LenMatchesBuffer /\ OnlyFirstCopyUnbounded)
<1>1. Init => AccumulationInv
  BY AccumulationInit
<1>2. AccumulationInv /\ [Next]_vars => AccumulationInv'
  BY AccumulationStep
<1>3. AccumulationInv => LenMatchesBuffer /\ OnlyFirstCopyUnbounded
  BY DEF AccumulationInv, AccumulationOK
<1>4. QED
  BY <1>1, <1>2, <1>3, PTL DEF Spec

\* In particular, every copy into the accumulation but the first of a report is
\* within what kmalloc() gave: hidspi_handle_input() checks the rest, not the start.
THEOREM RestBounded == Spec => []OnlyFirstCopyUnbounded
BY AccumulationConsistent, PTL

-------------------------------------------------------------------------------
(* Whole, in-order dispatch, on a bus that fails between reports only. *)

\* The devices the code reassembles: a report in one fragment may be padded to
\* a word, the fragments of a longer one cover exactly its header and content.
ExactDevice ==
    /\ ReadErrors \in {"never", "between"}
    /\ ~AllocFails
    /\ \A s \in Shapes :
        LET k == Len(s.ends) IN
        /\ s.ends[k] <= MaxInput
        /\ HeaderSize <= s.ends[1]
        /\ HeaderSize + s.content <= s.ends[k]
        /\ k > 1 => s.ends[k] = HeaderSize + s.content

\* What ExactDevice says of one fragment.
Exact(f) ==
    /\ f \in Fragment
    /\ f.report > 0
    /\ f.from < f.to
    /\ f.to <= MaxInput
    /\ f.index = 1 => f.from = 0 /\ HeaderSize <= f.to
    /\ f.last => HeaderSize + f.content <= f.to
    /\ ~f.last \/ f.index # 1 =>
          f.to <= HeaderSize + f.content /\ HeaderSize + f.content <= MaxInput

\* b is the fragment the device sends after a.
Follows(a, b) ==
    \/ /\ ~a.last
       /\ b.report = a.report /\ b.index = a.index + 1
       /\ b.from = a.to /\ b.content = a.content
    \/ /\ a.last
       /\ b.report = a.report + 1 /\ b.index = 1

\* What is on the wire is the rest of one report and then whole reports.
WireInv ==
    /\ \A i \in 1..Len(wire) : Exact(wire[i])
    /\ \A i \in 1..Len(wire) : i > 1 => Follows(wire[i - 1], wire[i])
    /\ wire # << >> => wire[Len(wire)].last /\ wire[Len(wire)].report = sent

\* With nothing accumulated the next fragment starts a report ...
BetweenReports == wire # << >> => wire[1].index = 1

\* ... and otherwise it continues the one in the buffer.
InsideReport ==
    /\ wire # << >>
    /\ Follows(frag_buf[Len(frag_buf)], wire[1])
    /\ frag_len = frag_buf[Len(frag_buf)].to
    /\ frag_expected = frag_buf[Len(frag_buf)].content + HeaderSize
    /\ \A i \in 1..Len(frag_buf) :
        /\ frag_buf[i].report = frag_buf[Len(frag_buf)].report
        /\ frag_buf[i].index = i
        /\ ~frag_buf[i].last
        /\ frag_buf[i].content = frag_buf[Len(frag_buf)].content

\* What has left the wire has been dispatched, or lost.
DispatchedInv ==
    /\ DispatchesWholeReports
    /\ ReadMeansDispatched
    /\ lost \subseteq 1..Consumed

StreamInv ==
    /\ AccumulationInv
    /\ WireInv
    /\ IF frag_buf = << >> THEN BetweenReports ELSE InsideReport
    /\ DispatchedInv

\* A report of a word-sized device in more than one fragment ends exactly where its
\* header announces, and starts with a fragment that holds the header.
LEMMA FragmentsExact ==
    ASSUME ExactDevice, NEW s \in Shapes, NEW n \in Nat \ {0}
    PROVE  LET w == Fragments(n, s)
               k == Len(s.ends)
           IN  /\ \A i \in 1..k : Exact(w[i])
               /\ \A i \in 1..k : i > 1 => Follows(w[i - 1], w[i])
               /\ \A i \in 1..k : w[i].report = n
               /\ w[1].index = 1
               /\ w[k].last
<1> DEFINE w == Fragments(n, s)
           k == Len(s.ends)
<1>1. /\ s.ends \in Seq(Nat) /\ s.content \in Nat
      /\ k \in Nat \ {0}
      /\ s.ends[1] > 0
      /\ \A i \in 1..k : s.ends[i] \in Nat
      /\ \A i, j \in 1..k : i < j => s.ends[i] < s.ends[j]
  BY ShapesAssumption
<1>2. /\ s.ends[k] <= MaxInput
      /\ HeaderSize <= s.ends[1]
      /\ HeaderSize + s.content <= s.ends[k]
      /\ k > 1 => s.ends[k] = HeaderSize + s.content
  BY DEF ExactDevice
<1>3. ASSUME NEW i \in 1..k
      PROVE  /\ w[i] \in Fragment
             /\ w[i].report = n
             /\ w[i].index = i
             /\ w[i].last <=> i = k
             /\ w[i].content = s.content
             /\ w[i].from = IF i = 1 THEN 0 ELSE s.ends[i - 1]
             /\ w[i].to = s.ends[i]
  <2>1. w[i] = [report  |-> n,
                index   |-> i,
                last    |-> i = k,
                content |-> s.content,
                from    |-> IF i = 1 THEN 0 ELSE s.ends[i - 1],
                to      |-> s.ends[i]]
    BY DEF Fragments
  <2>2. w[i] \in Fragment
    BY FragmentsType, <1>1
  <2>3. /\ w[i].report = n
        /\ w[i].index = i
        /\ w[i].content = s.content
        /\ w[i].from = IF i = 1 THEN 0 ELSE s.ends[i - 1]
        /\ w[i].to = s.ends[i]
    <3> HIDE DEF w, k
    <3>1. QED
      BY <2>1
  <2>4. w[i].last = (i = k)
    <3> HIDE DEF w, k
    <3>1. QED
      BY <2>1
  <2> HIDE DEF w, k
  <2>5. QED
    BY <2>2, <2>3, <2>4
<1>4. 1 \in 1..k /\ k \in 1..k
  BY <1>1
<1>5. ASSUME NEW i \in 1..k
      PROVE  Exact(w[i])
  <2>1. s.ends[i] <= s.ends[k] /\ s.ends[1] <= s.ends[i]
    BY <1>1, SMTT(60)
  <2>2. i > 1 => i - 1 \in 1..k /\ s.ends[i - 1] < s.ends[i]
    <3>1. i > 1 => i - 1 \in 1..k /\ i - 1 < i
      BY <1>1
    <3>2. QED
      BY <1>1, <3>1
  <2>3. k \in Nat /\ (i # k \/ i # 1 => k > 1)
    BY <1>1
  <2>4. PICK f : f = w[i]
    OBVIOUS
  <2>5. /\ f \in Fragment
        /\ f.report > 0
        /\ f.index = i
        /\ f.last <=> i = k
        /\ f.content = s.content
        /\ f.from = IF i = 1 THEN 0 ELSE s.ends[i - 1]
        /\ f.to = s.ends[i]
    BY <1>3, <2>4
  <2> HIDE DEF w, k
  <2>6. s.ends[i] \in Nat /\ s.ends[k] \in Nat /\ s.content \in Nat /\ s.ends[1] > 0
    BY <1>1, <1>4
  <2>7. f.from < f.to
    <3>1. CASE i = 1
      BY <2>5, <2>6, <3>1
    <3>2. CASE i # 1
      <4>1. i > 1
        BY <3>2, <1>1 DEF k
      <4>2. s.ends[i - 1] < s.ends[i]
        BY <2>2, <4>1
      <4>3. QED
        BY <2>5, <3>2, <4>2
    <3>3. QED
      BY <3>1, <3>2
  <2>8. f.to <= MaxInput
    BY <1>2, <2>1, <2>5, <2>6, SizesAssumption
  <2>9. Exact(f)
    BY <1>2, <2>1, <2>3, <2>5, <2>6, <2>7, <2>8, SizesAssumption DEF Exact
  <2>10. QED
    BY <2>4, <2>9
<1>6. ASSUME NEW i \in 1..k, i > 1
      PROVE  Follows(w[i - 1], w[i])
  <2>1. i - 1 \in 1..k /\ i - 1 # k
    BY <1>1, <1>6
  <2>2. PICK a, b : a = w[i - 1] /\ b = w[i]
    OBVIOUS
  <2>3. /\ a.report = n /\ a.index = i - 1 /\ ~a.last
        /\ a.content = s.content /\ a.to = s.ends[i - 1]
    BY <1>3, <2>1, <2>2
  <2>4. /\ b.report = n /\ b.index = i
        /\ b.content = s.content /\ b.from = s.ends[i - 1]
    BY <1>3, <1>6, <2>2
  <2>5. Follows(a, b)
    BY <1>1, <2>3, <2>4 DEF Follows
  <2>6. QED
    BY <2>2, <2>5
<1> HIDE DEF w, k
<1>7. QED
  BY <1>3, <1>5, <1>6, <1>4 DEF w, k

\* Taking the head off the wire leaves a wire that starts with the next
\* fragment, or an empty one once the last report is through, and completes the
\* report exactly when it takes its last fragment.
LEMMA WireConsume ==
    ASSUME TypeOK, WireInv, wire # << >>, wire' = Tail(wire), sent' = sent
    PROVE  /\ Exact(Head(wire))
           /\ Head(wire) = wire[1]
           /\ WireInv'
           /\ wire' # << >> => Follows(Head(wire), wire'[1])
           /\ Consumed \in Nat /\ Head(wire).report = Consumed + 1
           /\ Consumed' = IF Head(wire).last THEN Consumed + 1 ELSE Consumed
<1>1. /\ wire \in Seq(Fragment) /\ Len(wire) \in Nat \ {0}
      /\ Len(wire') = Len(wire) - 1
      /\ \A i \in 1..Len(wire') : wire'[i] = wire[i + 1] /\ i + 1 \in 1..Len(wire)
      /\ Head(wire) = wire[1]
  BY DEF TypeOK
<1>2. \A i \in 1..Len(wire') : Exact(wire'[i])
  BY <1>1 DEF WireInv
<1>3. ASSUME NEW i \in 1..Len(wire'), i > 1
      PROVE  Follows(wire'[i - 1], wire'[i])
  <2>1. /\ i - 1 \in 1..Len(wire') /\ i + 1 \in 1..Len(wire) /\ i + 1 > 1
        /\ (i - 1) + 1 = i /\ (i + 1) - 1 = i
    BY <1>1, <1>3
  <2>2. wire'[i - 1] = wire[i] /\ wire'[i] = wire[i + 1]
    BY <1>1, <2>1
  <2>3. Follows(wire[i], wire[i + 1])
    BY <2>1 DEF WireInv
  <2>4. QED
    BY <2>2, <2>3
<1>4. ASSUME wire' # << >>
      PROVE  /\ wire'[Len(wire')].last /\ wire'[Len(wire')].report = sent'
             /\ Follows(wire[1], wire'[1])
  <2>1. Len(wire') > 0
    BY <1>1, <1>4
  <2>2. wire'[Len(wire')] = wire[Len(wire)] /\ wire'[1] = wire[2] /\ 2 \in 1..Len(wire)
    BY <1>1, <2>1
  <2>3. wire[Len(wire)].last /\ wire[Len(wire)].report = sent
    BY DEF WireInv
  <2>4. Follows(wire[2 - 1], wire[2])
    BY <2>2 DEF WireInv
  <2>5. QED
    BY <2>2, <2>3, <2>4
<1>5. ASSUME wire' = << >>
      PROVE  wire[1].last /\ wire[1].report = sent
  <2>1. Len(wire) = 1
    <3>1. Len(<< >>) = 0
      OBVIOUS
    <3>2. Len(wire') = 0
      BY <1>5, <3>1
    <3>3. QED
      BY <1>1, <3>2
  <2>2. QED
    BY <2>1 DEF WireInv
<1>6. 1 \in 1..Len(wire)
  BY <1>1
<1>7. Exact(wire[1])
  BY <1>6 DEF WireInv
<1>8. WireInv'
  BY <1>2, <1>3, <1>4 DEF WireInv
<1>9. wire[1].report \in Nat \ {0} /\ Consumed = wire[1].report - 1
  BY <1>1, <1>7 DEF Exact, Fragment, Consumed
<1>10. Consumed' = IF wire[1].last THEN wire[1].report ELSE wire[1].report - 1
  <2>1. CASE wire' = << >>
    BY <1>5, <2>1 DEF Consumed
  <2>2. CASE wire' # << >>
    <3>1. PICK a, b : a = wire[1] /\ b = wire'[1]
      OBVIOUS
    <3>2. Follows(a, b) /\ a.report \in Nat
      BY <1>4, <1>9, <2>2, <3>1
    <3>3. b.report = IF a.last THEN a.report + 1 ELSE a.report
      BY <3>2 DEF Follows
    <3>4. Head(wire') = b
      BY <1>1, <2>2, <3>1
    <3>5. Consumed' = b.report - 1
      BY <2>2, <3>4 DEF Consumed
    <3>6. QED
      BY <3>1, <3>2, <3>3, <3>5
  <2>3. QED
    BY <2>1, <2>2
<1>11. QED
  BY <1>1, <1>4, <1>7, <1>8, <1>9, <1>10

\* Before the first report there is nothing to take off the wire or to dispatch.
LEMMA StreamInit == Init => StreamInv
BY AccumulationInit, SizesAssumption
   DEF Init, StreamInv, WireInv, BetweenReports, DispatchedInv, Consumed,
       DispatchesWholeReports, ReadMeansDispatched

\* A further report on the wire follows the fragments of the ones before it.
LEMMA StreamSend ==
    ASSUME ExactDevice, StreamInv, NEW s \in Shapes, DeviceSends(s), AccumulationInv'
    PROVE  StreamInv'
<1> DEFINE w == Fragments(sent + 1, s)
           k == Len(s.ends)
           m == Len(wire)
<1>1. sent \in Nat /\ wire \in Seq(Fragment) /\ m \in Nat
  BY SizesAssumption DEF StreamInv, AccumulationInv, TypeOK
<1>2. w \in Seq(Fragment) /\ Len(w) = k /\ k \in Nat \ {0}
  BY <1>1, FragmentsType
<1>3. /\ wire' = wire \o w /\ sent' = sent + 1
      /\ frag_buf' = frag_buf /\ frag_len' = frag_len
      /\ frag_expected' = frag_expected /\ dispatched' = dispatched
      /\ lost' = lost
  BY DEF DeviceSends, hsdev
<1>4. /\ \A i \in 1..k : Exact(w[i])
      /\ \A i \in 1..k : i > 1 => Follows(w[i - 1], w[i])
      /\ \A i \in 1..k : w[i].report = sent + 1
      /\ w[1].index = 1
      /\ w[k].last
  BY <1>1, FragmentsExact
<1> HIDE DEF w, k
<1>5. /\ Len(wire') = m + k
      /\ \A i \in 1..m : wire'[i] = wire[i]
      /\ \A i \in (m + 1)..(m + k) : wire'[i] = w[i - m] /\ i - m \in 1..k
  <2>1. Len(wire \o w) = m + k
    BY <1>1, <1>2
  <2>2. \A i \in 1..(m + k) : (wire \o w)[i] = IF i <= m THEN wire[i] ELSE w[i - m]
    BY <1>1, <1>2
  <2>3. QED
    BY <1>1, <1>2, <1>3, <2>1, <2>2
<1>6. \A i \in 1..m : Exact(wire[i])
  BY DEF StreamInv, WireInv
<1>7. ASSUME NEW i \in 1..Len(wire')
      PROVE  Exact(wire'[i])
  <2>1. CASE i \in 1..m
    BY <1>5, <1>6, <2>1
  <2>2. CASE i \in (m + 1)..(m + k)
    BY <1>4, <1>5, <2>2
  <2>3. QED
    BY <1>1, <1>2, <1>5, <2>1, <2>2
<1>8. ASSUME NEW i \in 1..Len(wire'), i > 1
      PROVE  Follows(wire'[i - 1], wire'[i])
  <2>1. CASE i \in 1..m
    <3>1. i - 1 \in 1..m /\ Follows(wire[i - 1], wire[i])
      BY <1>8, <2>1 DEF StreamInv, WireInv
    <3>2. QED
      BY <1>5, <2>1, <3>1
  <2>2. CASE i = m + 1
    <3>1. /\ m \in 1..m /\ 1 \in 1..k /\ i - 1 = m /\ i - m = 1
          /\ i \in (m + 1)..(m + k)
      BY <1>1, <1>2, <1>8, <2>2
    <3>2. wire'[i - 1] = wire[m] /\ wire'[i] = w[1]
      BY <1>5, <3>1
    <3>3. wire[m].last /\ wire[m].report = sent
      BY <3>1 DEF StreamInv, WireInv
    <3>4. w[1].index = 1 /\ w[1].report = sent + 1
      BY <1>4, <3>1
    <3>5. QED
      BY <3>2, <3>3, <3>4 DEF Follows
  <2>3. CASE i \in (m + 2)..(m + k)
    <3>1. /\ i \in (m + 1)..(m + k) /\ i - 1 \in (m + 1)..(m + k)
          /\ i - m \in 1..k /\ i - m > 1 /\ (i - 1) - m = (i - m) - 1
      BY <1>1, <1>2, <2>3
    <3>2. wire'[i] = w[i - m] /\ wire'[i - 1] = w[(i - m) - 1]
      <4>1. wire'[i - 1] = w[(i - 1) - m]
        BY <1>5, <3>1
      <4>2. QED
        BY <1>5, <3>1, <4>1
    <3>3. Follows(w[(i - m) - 1], w[i - m])
      BY <1>4, <3>1
    <3>4. QED
      BY <3>2, <3>3
  <2>4. i \in 1..m \/ i = m + 1 \/ i \in (m + 2)..(m + k)
    BY <1>1, <1>2, <1>5, SMTT(60)
  <2>5. QED
    BY <2>1, <2>2, <2>3, <2>4
<1>9. wire' # << >> /\ wire'[Len(wire')].last /\ wire'[Len(wire')].report = sent'
  <2>1. /\ k \in 1..k /\ Len(wire') \in (m + 1)..(m + k)
        /\ Len(wire') - m = k /\ Len(wire') > 0
    BY <1>1, <1>2, <1>5
  <2>2. wire'[Len(wire')] = w[k]
    BY <1>5, <2>1
  <2>3. QED
    BY <1>3, <1>4, <2>1, <2>2
<1>10. WireInv'
  BY <1>7, <1>8, <1>9 DEF WireInv
<1>11. Consumed' = Consumed /\ (wire # << >> => wire'[1] = wire[1])
  <2>1. CASE wire = << >>
    <3>1. /\ m = 0 /\ 1 \in 1..k
          /\ 1 \in (m + 1)..(m + k) /\ 1 - m = 1
      BY <1>2, <2>1
    <3>2. wire'[1] = w[1] /\ w[1].report = sent + 1
      BY <1>4, <1>5, <3>1
    <3>3. QED
      BY <1>1, <1>9, <2>1, <3>2 DEF Consumed
  <2>2. CASE wire # << >>
    <3>1. 1 \in 1..m
      BY <1>1, <2>2
    <3>2. wire'[1] = wire[1]
      BY <1>5, <3>1
    <3>3. QED
      BY <1>9, <2>2, <3>2 DEF Consumed
  <2>3. QED
    BY <2>1, <2>2
<1>12. DispatchedInv'
  BY <1>3, <1>11
     DEF StreamInv, DispatchedInv, DispatchesWholeReports, ReadMeansDispatched, Whole
<1>13. CASE frag_buf = << >>
  <2>1. BetweenReports
    BY <1>13 DEF StreamInv
  <2>2. wire = << >> => wire'[1].index = 1
    <3>1. SUFFICES ASSUME wire = << >>
                   PROVE  wire'[1].index = 1
      OBVIOUS
    <3>2. /\ m = 0 /\ 1 \in 1..k
          /\ 1 \in (m + 1)..(m + k) /\ 1 - m = 1
      BY <1>2, <3>1
    <3>3. QED
      BY <1>4, <1>5, <3>2
  <2>3. BetweenReports'
    BY <1>11, <2>1, <2>2 DEF BetweenReports
  <2>4. QED
    BY <1>3, <1>10, <1>12, <1>13, <2>3 DEF StreamInv
<1>14. CASE frag_buf # << >>
  <2>1. InsideReport
    BY <1>14 DEF StreamInv
  <2>2. InsideReport'
    BY <1>3, <1>9, <1>11, <2>1 DEF InsideReport
  <2>3. QED
    BY <1>3, <1>10, <1>12, <1>14, <2>2 DEF StreamInv
<1>15. QED
  BY <1>13, <1>14

\* A complete body of the next report is dispatched, and counts as that report.
LEMMA DispatchNext ==
    ASSUME TypeOK, DispatchedInv, Consumed \in Nat,
           NEW body \in Seq(Fragment), NEW len \in Nat,
           Whole(body), body[1].report = Consumed + 1, body[1].index = 1,
           HeaderSize + body[1].content <= len,
           HandleInputBody(body, len),
           lost' = lost, Consumed' = Consumed + 1
    PROVE  DispatchedInv'
<1> DEFINE n == Len(dispatched)
<1>1. dispatched \in Seq(Seq(Fragment)) /\ n \in Nat
  BY DEF TypeOK
<1>2. body[1] \in Fragment
  BY DEF Whole
<1>3. HeaderSize <= len
  BY <1>2, SizesAssumption DEF Fragment
<1>4. dispatched' = Append(dispatched, body)
  BY <1>3 DEF HandleInputBody, ContentLen
<1>5. /\ Len(dispatched') = n + 1
      /\ \A k \in 1..n : dispatched'[k] = dispatched[k]
      /\ dispatched'[n + 1] = body
      /\ \A k \in 1..(n + 1) : k \in 1..n \/ k = n + 1
      /\ n + 1 \in 1..(n + 1)
  BY <1>1, <1>4
<1>6. /\ \A k \in 1..n : Whole(dispatched[k])
      /\ \A i \in 1..Consumed :
            i \in lost \/ \E k \in 1..n : dispatched[k][1].report = i
      /\ \A k \in 1..n : dispatched[k][1].report \in (1..Consumed) \ lost
      /\ \A j, k \in 1..n :
            j < k => dispatched[j][1].report < dispatched[k][1].report
      /\ lost \subseteq 1..Consumed
  BY DEF DispatchedInv, DispatchesWholeReports, ReadMeansDispatched
<1> HIDE DEF n
<1>7. \A k \in 1..(n + 1) : Whole(dispatched'[k])
  BY <1>5, <1>6
<1>8. DispatchesWholeReports'
  BY <1>5, <1>7 DEF DispatchesWholeReports, Whole
<1>9. ASSUME NEW i \in 1..(Consumed + 1)
      PROVE  i \in lost \/ \E k \in 1..(n + 1) : dispatched'[k][1].report = i
  <2>1. CASE i \in 1..Consumed
    <3>1. CASE i \in lost
      BY <3>1
    <3>2. CASE i \notin lost
      <4>1. PICK k \in 1..n : dispatched[k][1].report = i
        BY <1>6, <2>1, <3>2
      <4>2. k \in 1..(n + 1) /\ dispatched'[k][1].report = i
        BY <1>1, <1>5, <4>1, SMTT(60) DEF n
      <4>3. QED
        BY <4>2
    <3>3. QED
      BY <3>1, <3>2
  <2>2. CASE i = Consumed + 1
    BY <1>5, <2>2
  <2>3. QED
    BY <2>1, <2>2
<1>10. \A k \in 1..(n + 1) : dispatched'[k][1].report \in (1..(Consumed + 1)) \ lost
  BY <1>5, <1>6
<1>11. ASSUME NEW j \in 1..(n + 1), NEW k \in 1..(n + 1), j < k
       PROVE  dispatched'[j][1].report < dispatched'[k][1].report
  <2>1. j \in 1..n
    BY <1>1, <1>11 DEF n
  <2>2. CASE k \in 1..n
    BY <1>5, <1>6, <1>11, <2>1, <2>2
  <2>3. CASE k = n + 1
    <3>1. dispatched[j][1].report \in 1..Consumed
      BY <1>6, <2>1
    <3>2. QED
      BY <1>5, <2>1, <2>3, <3>1
  <2>4. QED
    BY <1>5, <2>2, <2>3
<1>12. ReadMeansDispatched'
  BY <1>5, <1>9, <1>10, <1>11 DEF ReadMeansDispatched
<1>13. lost' \subseteq 1..Consumed'
  BY <1>6
<1>14. QED
  BY <1>8, <1>12, <1>13 DEF DispatchedInv

\* So is the next report when a failed read hits it, without being dispatched.
LEMMA LoseNext ==
    ASSUME DispatchedInv, Consumed \in Nat, Consumed' = Consumed + 1,
           lost' = lost \cup {Consumed + 1}, dispatched' = dispatched
    PROVE  DispatchedInv'
<1>1. DispatchesWholeReports'
  BY DEF DispatchedInv, DispatchesWholeReports, Whole
<1>2. ReadMeansDispatched'
  BY DEF DispatchedInv, ReadMeansDispatched
<1>3. QED
  BY <1>1, <1>2 DEF DispatchedInv

\* Nothing dispatched, nothing lost, no report completed.
LEMMA DispatchedSame ==
    ASSUME DispatchedInv, Consumed' = Consumed, lost' = lost, dispatched' = dispatched
    PROVE  DispatchedInv'
BY DEF DispatchedInv, ReadMeansDispatched, DispatchesWholeReports, Whole

\* The wire is not empty in the middle of a report.
LEMMA ConsumesWithin ==
    ASSUME TypeOK, WireInv, wire # << >>, wire' = Tail(wire), sent' = sent,
           ~Head(wire).last
    PROVE  wire' # << >>
<1>1. wire \in Seq(Fragment) /\ Head(wire) = wire[1]
  BY DEF TypeOK
<1>2. SUFFICES ASSUME Tail(wire) = << >>
               PROVE  FALSE
  OBVIOUS
<1>3. Len(wire) = 1
  <2>1. Len(<< >>) = 0 /\ Len(wire) \in Nat \ {0}
    BY <1>1
  <2>2. Len(Tail(wire)) = Len(wire) - 1
    BY <1>1
  <2>3. QED
    BY <1>2, <2>1, <2>2
<1>4. QED
  BY <1>1, <1>3 DEF WireInv

\* A fragment that is read is the next one of its report: the report is dispatched
\* with its last fragment, or lost with its only one.
LEMMA StreamHandle ==
    ASSUME ExactDevice, StreamInv, HandleInput, AccumulationInv'
    PROVE  StreamInv'
<1> DEFINE f == Head(wire)
           n == Len(frag_buf)
<1>1. /\ wire # << >> /\ TypeOK /\ WireInv /\ DispatchedInv
      /\ (frag_len = 0) <=> (frag_buf = << >>)
  BY DEF HandleInput, StreamInv, AccumulationInv, AccumulationOK, LenMatchesBuffer
<1>2. /\ wire \in Seq(Fragment) /\ frag_buf \in Seq(Fragment)
      /\ dispatched \in Seq(Seq(Fragment))
      /\ n \in Nat /\ frag_len \in Nat /\ f = wire[1] /\ f \in Fragment
  BY <1>1, WireHead DEF TypeOK
<1>3. Exact(f)
  <2>1. 1 \in 1..Len(wire)
    BY <1>1, <1>2
  <2>2. QED
    BY <1>1, <1>2, <2>1 DEF WireInv
<1>4. /\ f.from \in Nat /\ f.to \in Nat /\ f.content \in Nat
      /\ f.from < f.to /\ f.to <= MaxInput
      /\ BodyLen(f) \in 1..MaxInput
  BY <1>2, <1>3, SizesAssumption, SMTT(60) DEF Exact, BodyLen, Fragment
<1>5. Consumed \in Nat /\ f.report = Consumed + 1
  <2>1. f.report \in Nat \ {0}
    BY <1>2, <1>3 DEF Exact, Fragment
  <2>2. QED
    BY <1>1, <1>2, <2>1 DEF Consumed
<1>6. CASE frag_buf = << >>
  <2>1. frag_len = 0 /\ BetweenReports /\ f.index = 1
    BY <1>1, <1>2, <1>6 DEF StreamInv, BetweenReports
  <2>2. f.from = 0 /\ HeaderSize <= f.to /\ BodyLen(f) = f.to
    BY <1>3, <1>4, <2>1 DEF Exact, BodyLen
  <2>3. ReadFails \/ SingleFragment(f) \/ FirstFragment(f)
    BY <1>1, <1>4, <2>1
       DEF HandleInput, BodyLenOutOfRange, Overflow, Continuation, ExactDevice
  <2>4. CASE ReadFails
    <3>1. /\ f.last /\ wire' = Tail(wire) /\ sent' = sent
          /\ lost' = lost \cup {Consumed + 1}
          /\ frag_buf' = frag_buf /\ dispatched' = dispatched
      BY <1>5, <2>4 DEF ReadFails, ExactDevice, hsdev
    <3>2. /\ WireInv' /\ Consumed' = Consumed + 1
          /\ wire' # << >> => Follows(f, wire'[1])
      BY <1>1, <3>1, WireConsume
    <3>3. BetweenReports'
      BY <3>1, <3>2 DEF BetweenReports, Follows
    <3>4. DispatchedInv'
      BY <1>1, <1>5, <3>1, <3>2, LoseNext
    <3>5. QED
      BY <1>6, <3>1, <3>2, <3>3, <3>4 DEF StreamInv
  <2>5. CASE SingleFragment(f)
    <3>1. /\ f.last /\ wire' = Tail(wire) /\ sent' = sent /\ lost' = lost
          /\ frag_buf' = frag_buf
          /\ HandleInputBody(<<f>>, f.to)
      BY <2>2, <2>5 DEF SingleFragment, ReadInput, hsdev
    <3>2. Whole(<<f>>)
      BY <2>1, <3>1 DEF Whole
    <3>3. <<f>> \in Seq(Fragment) /\ <<f>>[1] = f
      BY <1>2
    <3>4. HeaderSize + f.content <= f.to
      BY <1>3, <3>1 DEF Exact
    <3>5. /\ WireInv' /\ Consumed' = Consumed + 1
          /\ wire' # << >> => Follows(f, wire'[1])
      BY <1>1, <1>5, <3>1, WireConsume
    <3>6. BetweenReports'
      BY <3>1, <3>5 DEF BetweenReports, Follows
    <3>7. DispatchedInv'
      BY <1>1, <1>4, <1>5, <2>1, <3>1, <3>2, <3>3, <3>4, <3>5, DispatchNext
    <3>8. QED
      BY <1>6, <3>1, <3>5, <3>6, <3>7 DEF StreamInv
  <2>6. CASE FirstFragment(f)
    <3>1. /\ ~f.last /\ wire' = Tail(wire) /\ sent' = sent /\ lost' = lost
          /\ dispatched' = dispatched
      BY <2>6 DEF FirstFragment, ReadInput
    <3>2. HeaderSize + f.content <= MaxInput
      BY <1>3, <3>1 DEF Exact
    <3>3. /\ frag_expected' = f.content + HeaderSize
          /\ frag_buf' = <<f>>
          /\ frag_len' = f.to
      BY <1>4, <2>1, <2>2, <2>6, <3>2, SizesAssumption
         DEF FirstFragment, ContentLen, ExactDevice
    <3>4. WireInv' /\ wire' # << >> /\ Follows(f, wire'[1]) /\ Consumed' = Consumed
      BY <1>1, <1>5, <3>1, WireConsume, ConsumesWithin
    <3>5. Len(frag_buf') = 1 /\ frag_buf'[1] = f /\ frag_buf' # << >>
      BY <3>3
    <3>6. InsideReport'
      BY <2>1, <3>1, <3>3, <3>4, <3>5 DEF InsideReport
    <3>7. DispatchedInv'
      BY <1>1, <3>1, <3>4, DispatchedSame
    <3>8. QED
      BY <3>4, <3>5, <3>6, <3>7 DEF StreamInv
  <2>7. QED
    BY <2>3, <2>5, <2>6, <2>4
<1>7. CASE frag_buf # << >>
  <2> DEFINE a == frag_buf[n]
  <2>1. /\ InsideReport /\ frag_len # 0 /\ n > 0 /\ n \in 1..n
        /\ a \in Fragment
    BY <1>1, <1>2, <1>7 DEF StreamInv
  <2>2. /\ Follows(a, f) /\ ~a.last
        /\ a.index = n
        /\ frag_len = a.to /\ frag_expected = a.content + HeaderSize
    BY <1>2, <2>1 DEF InsideReport
  <2>3. /\ f.report = a.report /\ f.index = n + 1
        /\ f.from = a.to /\ f.content = a.content
    BY <2>2 DEF Follows
  <2>4. frag_len + BodyLen(f) = f.to
    BY <1>4, <2>2, <2>3 DEF BodyLen
  <2>5. f.to <= frag_expected
    <3>1. f.index # 1
      BY <2>1, <2>3
    <3>2. QED
      BY <1>3, <1>4, <2>2, <2>3, <3>1, SizesAssumption DEF Exact
  <2>6. Continuation(f)
    <3>1. ~ReadFails
      <4>1. f.index # 1
        BY <2>1, <2>3
      <4>2. QED
        BY <4>1 DEF ReadFails, ExactDevice
    <3>2. ~BodyLenOutOfRange /\ ~SingleFragment(f) /\ ~FirstFragment(f)
      BY <1>4, <2>1 DEF BodyLenOutOfRange, SingleFragment, FirstFragment
    <3>3. ~Overflow(f)
      <4>1. f.to \in Nat /\ frag_expected \in Nat
        BY <1>1, <1>4 DEF TypeOK
      <4>2. ~(f.to > frag_expected)
        BY <2>5, <4>1
      <4>3. QED
        BY <2>4, <4>2 DEF Overflow
    <3>4. QED
      BY <3>1, <3>2, <3>3 DEF HandleInput
  <2>7. wire' = Tail(wire) /\ sent' = sent /\ lost' = lost
    BY <2>6 DEF Continuation, ReadInput
  <2> DEFINE body == Append(frag_buf, f)
  <2>8. /\ body \in Seq(Fragment) /\ Len(body) = n + 1 /\ body[n + 1] = f
        /\ \A i \in 1..n : body[i] = frag_buf[i]
    BY <1>2
  <2>9. \A i \in 1..(n + 1) :
            /\ body[i].report = Consumed + 1
            /\ body[i].index = i
            /\ body[i].content = f.content
            /\ i # n + 1 => ~body[i].last
    <3> HIDE DEF body
    <3>1. ASSUME NEW i \in 1..n
          PROVE  /\ body[i].report = Consumed + 1
                 /\ body[i].index = i
                 /\ body[i].content = f.content
                 /\ ~body[i].last
      BY <1>5, <2>1, <2>3, <2>8 DEF InsideReport
    <3>2. QED
      BY <1>2, <1>5, <2>3, <2>8, <3>1
  <2>10. 1 \in 1..(n + 1)
    BY <1>2
  <2> HIDE DEF body
  <2>11. CASE f.last
    <3>1. /\ HandleInputBody(body, f.to)
          /\ frag_buf' = << >>
      BY <2>4, <2>6, <2>11 DEF Continuation, Discard, body
    <3>2. Whole(body)
      <4>1. body # << >>
        BY <1>2, <2>8
      <4>2. ASSUME NEW i \in 1..Len(body)
            PROVE  /\ body[i].report = body[1].report
                   /\ body[i].index = i
                   /\ body[i].last <=> i = Len(body)
        <5>1. i \in 1..(n + 1)
          BY <2>8
        <5>2. QED
          BY <2>8, <2>9, <2>10, <2>11, <5>1
      <4>3. QED
        BY <4>1, <4>2 DEF Whole
    <3>3. HeaderSize + body[1].content <= f.to
      BY <1>3, <2>9, <2>10, <2>11 DEF Exact
    <3>4. /\ WireInv' /\ Consumed' = Consumed + 1
          /\ wire' # << >> => Follows(f, wire'[1])
      BY <1>1, <1>5, <2>7, <2>11, WireConsume
    <3>5. BetweenReports'
      BY <2>11, <3>4 DEF BetweenReports, Follows
    <3>6. DispatchedInv'
      BY <1>1, <1>4, <1>5, <2>7, <2>8, <2>9, <2>10, <3>1, <3>2, <3>3, <3>4, DispatchNext
    <3>7. QED
      BY <3>1, <3>4, <3>5, <3>6 DEF StreamInv
  <2>12. CASE ~f.last
    <3>1. /\ frag_buf' = body /\ frag_len' = f.to
          /\ frag_expected' = frag_expected /\ dispatched' = dispatched
      BY <2>4, <2>6, <2>12 DEF Continuation, body
    <3>2. WireInv' /\ wire' # << >> /\ Follows(f, wire'[1]) /\ Consumed' = Consumed
      BY <1>1, <1>5, <2>7, <2>12, WireConsume, ConsumesWithin
    <3>3. frag_buf' # << >> /\ Len(frag_buf') = n + 1 /\ frag_buf'[n + 1] = f
      BY <1>2, <2>8, <3>1
    <3>4. ASSUME NEW i \in 1..(n + 1)
          PROVE  /\ frag_buf'[i].report = f.report
                 /\ frag_buf'[i].index = i
                 /\ ~frag_buf'[i].last
                 /\ frag_buf'[i].content = f.content
      BY <1>5, <2>8, <2>9, <2>12, <3>1
    <3>5. InsideReport'
      BY <2>2, <2>3, <3>1, <3>2, <3>3, <3>4 DEF InsideReport
    <3>6. DispatchedInv'
      BY <1>1, <2>7, <3>1, <3>2, DispatchedSame
    <3>7. QED
      BY <3>2, <3>3, <3>5, <3>6 DEF StreamInv
  <2>13. QED
    BY <2>11, <2>12
<1>8. QED
  BY <1>6, <1>7

\* Every step keeps the wire, the accumulation and what has been dispatched in line.
LEMMA StreamStep == ExactDevice /\ StreamInv /\ [Next]_vars => StreamInv'
<1> SUFFICES ASSUME ExactDevice, StreamInv, [Next]_vars
             PROVE  StreamInv'
  OBVIOUS
<1>1. AccumulationInv'
  BY AccumulationStep DEF StreamInv
<1>2. ASSUME NEW s \in Shapes, DeviceSends(s)
      PROVE  StreamInv'
  BY <1>1, <1>2, StreamSend
<1>3. CASE HandleInput
  BY <1>1, <1>3, StreamHandle
<1>4. CASE UNCHANGED vars
  BY <1>1, <1>4
     DEF vars, StreamInv, WireInv, BetweenReports, InsideReport, DispatchedInv, Consumed,
         DispatchesWholeReports, ReadMeansDispatched, Whole
<1>5. QED
  BY <1>2, <1>3, <1>4 DEF Next

\* A device whose longer reports are a whole number of words gets every report
\* dispatched whole, once and in order, as soon as its last fragment has been
\* read, but for those in one fragment that a failed read has hit, however many
\* reports and fragments there are.
THEOREM WholeInOrder ==
    ASSUME ExactDevice
    PROVE  Spec => [](DispatchesWholeReports /\ ReadMeansDispatched)
<1>1. Init => StreamInv
  BY StreamInit
<1>2. StreamInv /\ [Next]_vars => StreamInv'
  BY StreamStep
<1>3. StreamInv => DispatchesWholeReports /\ ReadMeansDispatched
  BY DEF StreamInv, DispatchedInv
<1>4. QED
  BY <1>1, <1>2, <1>3, PTL DEF Spec

-------------------------------------------------------------------------------
(* The reassembly implements the report stream, but for its fairness. *)

\* No fragment is of a report that the device has not produced.
WireBelow == \A i \in 1..Len(wire) : wire[i].report \in 1..sent

LEMMA WireBelowStep == TypeOK /\ WireBelow /\ [Next]_vars => WireBelow'
<1> SUFFICES ASSUME TypeOK, WireBelow, [Next]_vars
             PROVE  WireBelow'
  OBVIOUS
<1>1. wire \in Seq(Fragment) /\ sent \in Nat
  BY SizesAssumption DEF TypeOK
<1>2. ASSUME NEW s \in Shapes, DeviceSends(s)
      PROVE  WireBelow'
  <2> DEFINE w == Fragments(sent + 1, s)
  <2>1. /\ w \in Seq(Fragment) /\ Len(w) \in Nat
        /\ \A i \in 1..Len(w) : w[i].report = sent + 1
    <3>1. w \in Seq(Fragment) /\ Len(w) = Len(s.ends) /\ Len(s.ends) \in Nat
      BY <1>1, FragmentsType
    <3>2. ASSUME NEW i \in 1..Len(s.ends)
          PROVE  w[i].report = sent + 1
      BY DEF Fragments
    <3>3. QED
      BY <3>1, <3>2
  <2>2. wire' = wire \o w /\ sent' = sent + 1
    BY <1>2 DEF DeviceSends
  <2> HIDE DEF w
  <2>3. ASSUME NEW i \in 1..Len(wire')
        PROVE  wire'[i].report \in 1..(sent + 1)
    <3>1. \/ i \in 1..Len(wire) /\ wire'[i] = wire[i]
          \/ i - Len(wire) \in 1..Len(w) /\ wire'[i] = w[i - Len(wire)]
      BY <1>1, <2>1, <2>2
    <3>2. QED
      BY <1>1, <2>1, <3>1, SMTT(60) DEF WireBelow
  <2>4. QED
    BY <2>2, <2>3 DEF WireBelow
<1>3. ASSUME HandleInput
      PROVE  WireBelow'
  <2>1. wire # << >> /\ wire' = Tail(wire) /\ sent' = sent
    BY <1>3 DEF HandleInput, ReadFails, BodyLenOutOfRange, SingleFragment, FirstFragment,
      Overflow, Continuation, ReadInput
  <2>2. \A i \in 1..Len(wire') : wire'[i] = wire[i + 1] /\ i + 1 \in 1..Len(wire)
    BY <1>1, <2>1
  <2>3. QED
    BY <2>1, <2>2 DEF WireBelow
<1>4. CASE UNCHANGED vars
  BY <1>4 DEF vars, WireBelow
<1>5. QED
  BY <1>2, <1>3, <1>4 DEF Next

\* One run of the handler takes a fragment off the wire and dispatches one body,
\* or none.
LEMMA HandlerRun ==
    ASSUME TypeOK, HandleInput
    PROVE  /\ wire # << >> /\ wire' = Tail(wire) /\ sent' = sent
           /\ \/ dispatched' = dispatched /\ lost' = lost
              \/ dispatched' = dispatched /\ lost' = lost \cup {Head(wire).report} /\ ReadFails
              \/ lost' = lost /\ \E body : dispatched' = Append(dispatched, body)
<1>1. wire # << >> /\ wire' = Tail(wire) /\ sent' = sent
  BY DEF HandleInput, ReadFails, BodyLenOutOfRange, SingleFragment, FirstFragment, Overflow,
    Continuation, ReadInput
<1>2. CASE ReadFails
  BY <1>1, <1>2 DEF ReadFails
<1>3. CASE ~ReadFails
  <2>1. lost' = lost
    BY <1>3 DEF HandleInput, BodyLenOutOfRange, SingleFragment, FirstFragment, Overflow,
      Continuation, ReadInput
  <2>2. dispatched' = dispatched \/ \E body : dispatched' = Append(dispatched, body)
    BY <1>3 DEF HandleInput, BodyLenOutOfRange, SingleFragment, FirstFragment, Overflow,
      Continuation, HandleInputBody
  <2>3. QED
    BY <1>1, <2>1, <2>2
<1>4. QED
  BY <1>2, <1>3

\* The report of a whole body that is dispatched is the next one delivered.
LEMMA DeliveredAppend ==
    ASSUME TypeOK, NEW body, dispatched' = Append(dispatched, body), DispatchesWholeReports'
    PROVE  Delivered' = Append(Delivered, body[1].report)
<1> DEFINE n == Len(dispatched)
<1>1. dispatched \in Seq(Seq(Fragment)) /\ n \in Nat
  BY DEF TypeOK
<1>2. /\ Len(dispatched') = n + 1 /\ dispatched'[n + 1] = body
      /\ \A k \in 1..n : dispatched'[k] = dispatched[k]
  BY <1>1
<1>3. Whole(body)
  BY <1>1, <1>2 DEF DispatchesWholeReports, Whole
<1>4. Delivered' = [k \in 1..(n + 1) |-> IF Whole(dispatched'[k])
                                        THEN dispatched'[k][1].report ELSE 0]
  BY <1>2 DEF Delivered, Whole
<1>5. Append(Delivered, body[1].report)
        = [k \in 1..(n + 1) |-> IF k = n + 1 THEN body[1].report ELSE Delivered[k]]
  BY <1>1 DEF Delivered
<1>6. ASSUME NEW k \in 1..(n + 1)
      PROVE  (IF Whole(dispatched'[k]) THEN dispatched'[k][1].report ELSE 0)
               = IF k = n + 1 THEN body[1].report ELSE Delivered[k]
  <2>1. CASE k = n + 1
    BY <1>2, <1>3, <2>1
  <2>2. CASE k # n + 1
    <3>1. k \in 1..n /\ dispatched'[k] = dispatched[k]
      BY <1>1, <1>2, <2>2
    <3>2. Delivered[k] = IF Whole(dispatched[k]) THEN dispatched[k][1].report ELSE 0
      BY <3>1 DEF Delivered
    <3>3. QED
      BY <2>2, <3>1, <3>2
  <2>3. QED
    BY <2>1, <2>2
<1>7. QED
  BY <1>4, <1>5, <1>6

\* A run of the handler delivers the next report, loses it, or neither: which of
\* them it does is what ReadMeansDispatched leaves it to do.
LEMMA HandlerSimulates ==
    ASSUME ExactDevice, StreamInv, StreamInv', WireBelow, HandleInput
    PROVE  Stream!Deliver \/ Stream!Lose \/ UNCHANGED Stream!vars
<1> DEFINE f == Head(wire)
           n == Len(dispatched)
           Seen(r) == \E k \in 1..n : dispatched[k][1].report = r
<1>1. /\ TypeOK /\ WireInv /\ dispatched \in Seq(Seq(Fragment)) /\ n \in Nat
      /\ wire # << >> /\ wire' = Tail(wire) /\ sent' = sent /\ sent \in Nat
  <2>1. TypeOK /\ WireInv
    BY DEF StreamInv, AccumulationInv
  <2>2. dispatched \in Seq(Seq(Fragment)) /\ n \in Nat /\ sent \in Nat
    BY <2>1, SizesAssumption DEF TypeOK
  <2>3. QED
    BY <2>1, <2>2, HandlerRun
<1>2. /\ Consumed \in Nat /\ f.report = Consumed + 1
      /\ Consumed' = IF f.last THEN Consumed + 1 ELSE Consumed
  BY <1>1, WireConsume
<1>3. Consumed < sent
  <2>1. 1 \in 1..Len(wire) /\ f = wire[1]
    BY <1>1 DEF TypeOK
  <2>2. QED
    BY <1>1, <1>2, <2>1 DEF WireBelow
<1>4. /\ \A r \in 1..Consumed : r \in lost \/ Seen(r)
      /\ \A k \in 1..n : dispatched[k][1].report \in (1..Consumed) \ lost
      /\ lost \subseteq 1..Consumed
  BY DEF StreamInv, DispatchedInv, ReadMeansDispatched
<1>5. CASE \E body : dispatched' = Append(dispatched, body) /\ lost' = lost
  <2>1. PICK body : dispatched' = Append(dispatched, body)
    BY <1>5
  <2>2. /\ Len(dispatched') = n + 1 /\ dispatched'[n + 1] = body
        /\ \A k \in 1..n : dispatched'[k] = dispatched[k]
        /\ \A k \in 1..n : k \in 1..(n + 1) /\ k < n + 1
        /\ n + 1 \in 1..(n + 1)
    BY <1>1, <2>1
  <2>3. /\ body[1].report \in (1..Consumed') \ lost
        /\ \A j, k \in 1..(n + 1) :
              j < k => dispatched'[j][1].report < dispatched'[k][1].report
    BY <1>5, <2>2 DEF StreamInv, DispatchedInv, ReadMeansDispatched
  <2>4. \A k \in 1..n : dispatched[k][1].report < body[1].report
    BY <2>2, <2>3
  <2>5. body[1].report \notin 1..Consumed
    <3>1. SUFFICES ASSUME body[1].report \in 1..Consumed
                   PROVE  FALSE
      OBVIOUS
    <3>2. PICK k \in 1..n : dispatched[k][1].report = body[1].report
      BY <1>4, <2>3, <3>1
    <3>3. body[1].report < body[1].report
      BY <2>4, <3>2
    <3>4. QED
      BY <1>2, <3>1, <3>3
  <2>6. body[1].report = Consumed + 1 /\ Consumed' = Consumed + 1
    BY <1>2, <2>3, <2>5
  <2>7. Delivered' = Append(Delivered, Consumed + 1)
    BY <1>1, <2>1, <2>6, DeliveredAppend DEF StreamInv, DispatchedInv
  <2>8. QED
    BY <1>1, <1>3, <1>5, <2>6, <2>7 DEF Stream!Deliver
<1>6. CASE dispatched' = dispatched
  <2>1. Delivered' = Delivered
    BY <1>6 DEF Delivered, Whole
  <2>2. f.last => Consumed + 1 \in lost'
    <3>1. SUFFICES ASSUME f.last, Consumed + 1 \notin lost'
                   PROVE  FALSE
      OBVIOUS
    <3>2. Consumed + 1 \in 1..Consumed' /\ Consumed + 1 \notin 1..Consumed
      BY <1>2, <3>1
    <3>3. Seen(Consumed + 1)
      BY <1>6, <3>1, <3>2 DEF StreamInv, DispatchedInv, ReadMeansDispatched
    <3>4. QED
      BY <1>4, <3>2, <3>3
  <2>3. CASE lost' = lost \cup {f.report} /\ ReadFails
    <3>1. f.last /\ ReadErrors # "never"
      BY <2>3 DEF ReadFails, ExactDevice
    <3>2. QED
      BY <1>1, <1>2, <1>3, <2>1, <2>3, <3>1 DEF Stream!Lose
  <2>4. CASE lost' = lost
    <3>1. ~f.last
      <4>1. Consumed + 1 \notin 1..Consumed
        BY <1>2
      <4>2. QED
        BY <1>4, <2>2, <2>4, <4>1
    <3>2. QED
      BY <1>1, <1>2, <2>1, <2>4, <3>1 DEF Stream!vars
  <2>5. QED
    BY <1>1, <1>6, <2>3, <2>4, HandlerRun
<1>7. QED
  BY <1>1, <1>5, <1>6, HandlerRun

\* The device produces a report; it has not left the device yet.
LEMMA DeviceSimulates ==
    ASSUME StreamInv, NEW s \in Shapes, DeviceSends(s)
    PROVE  Stream!Produce
<1> DEFINE w == Fragments(sent + 1, s)
<1>1. sent \in Nat /\ wire \in Seq(Fragment)
  BY SizesAssumption DEF StreamInv, AccumulationInv, TypeOK
<1>2. /\ w \in Seq(Fragment) /\ Len(w) = Len(s.ends) /\ Len(w) \in Nat \ {0}
      /\ w[1].report = sent + 1
  <2>1. w \in Seq(Fragment) /\ Len(w) = Len(s.ends) /\ Len(s.ends) \in Nat \ {0}
    BY <1>1, FragmentsType
  <2>2. 1 \in 1..Len(s.ends)
    BY <2>1
  <2>3. QED
    BY <2>1, <2>2 DEF Fragments
<1>3. /\ sent < MaxReports /\ sent' = sent + 1 /\ wire' = wire \o w
      /\ lost' = lost /\ dispatched' = dispatched
  BY DEF DeviceSends
<1> HIDE DEF w
<1>4. Consumed' = Consumed
  <2>1. CASE wire = << >>
    <3>1. wire' = w /\ w # << >> /\ Head(w) = w[1]
      BY <1>2, <1>3, <2>1
    <3>2. QED
      BY <1>1, <1>2, <1>3, <2>1, <3>1 DEF Consumed
  <2>2. CASE wire # << >>
    <3>1. wire' # << >> /\ Head(wire') = Head(wire)
      BY <1>1, <1>2, <1>3, <2>2
    <3>2. QED
      BY <2>2, <3>1 DEF Consumed
  <2>3. QED
    BY <2>1, <2>2
<1>5. Delivered' = Delivered
  BY <1>3 DEF Delivered, Whole
<1>6. QED
  BY <1>3, <1>4, <1>5 DEF Stream!Produce

\* Every step of the reassembly is a step of the report stream, or none: the
\* reports a device of whole words produces reach the dispatcher one after the
\* other, whole, none twice and none passed over but those the bus lost.
THEOREM ImplementsSafeStream ==
    ASSUME ExactDevice
    PROVE  Spec => Stream!Safe
<1>1. Init => StreamInv /\ WireBelow
  BY StreamInit DEF Init, WireBelow
<1>2. StreamInv /\ WireBelow /\ [Next]_vars => StreamInv' /\ WireBelow'
  BY StreamStep, WireBelowStep DEF StreamInv, AccumulationInv
<1>3. Init => Stream!Init
  BY DEF Init, Stream!Init, Consumed, Delivered
<1>4. ASSUME StreamInv, StreamInv', WireBelow, [Next]_vars
      PROVE  [Stream!Next]_(Stream!vars)
  <2>1. ASSUME NEW s \in Shapes, DeviceSends(s)
        PROVE  Stream!Next
    BY <1>4, <2>1, DeviceSimulates DEF Stream!Next
  <2>2. CASE HandleInput
    BY <1>4, <2>2, HandlerSimulates DEF Stream!Next
  <2>3. CASE UNCHANGED vars
    BY <2>3 DEF vars, Stream!vars, Consumed, Delivered, Whole
  <2>4. QED
    BY <1>4, <2>1, <2>2, <2>3 DEF Next
<1>5. QED
  BY <1>1, <1>2, <1>3, <1>4, PTL DEF Spec, Stream!Safe
===============================================================================
