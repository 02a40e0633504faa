---------------------------- MODULE SpiOutputProofs ----------------------------
(***************************************************************************)
(* Proofs about SpiOutput, for every set of writers and every number of    *)
(* requests: the mutual exclusion cmd_lock gives, and what it gives the    *)
(* device and the callers.                                                 *)
(***************************************************************************)
EXTENDS SpiOutput, TLAPS

\* cmd_lock is held by the one writer between its Lock and its Unlock.
HolderInv == \A w \in Writers : wpc[w] \in Critical <=> owner = w

\* The holder finds in cmdbuf what it has put there.
FilledInv ==
    \A w \in Writers :
        /\ wpc[w] \in {"content", "write"} => cmdbuf.hdr = Me(w)
        /\ wpc[w] = "write" => cmdbuf.content = Me(w)

\* The device has not received a request that has not been written yet.
NumberInv ==
    \A w \in Writers : \A k \in 1..Len(seen) : \A n \in Nat : seen[k].hdr = <<w, n>> =>
        /\ n <= request[w]
        /\ wpc[w] \in {"lock", "check", "header", "content", "write"} => n # request[w]

OutputInv ==
    /\ TypeOK /\ HolderInv /\ FilledInv /\ NumberInv
    /\ ReportsUntorn /\ SentMeansReceivedOnce

\* No writer has called anything yet.
LEMMA OutputInit == Init => OutputInv
BY WritersAssumption
   DEF Init, OutputInv, TypeOK, HolderInv, FilledInv, NumberInv, ReportsUntorn,
       SentMeansReceivedOnce, Critical, Blank, Buffer

\* Every variable keeps its type in every step.
LEMMA TypeStep == TypeOK /\ [Next]_vars => TypeOK'
<1> SUFFICES ASSUME TypeOK, [Next]_vars
             PROVE  TypeOK'
  OBVIOUS
<1> USE DEF TypeOK, Critical
<1>1. ASSUME NEW w \in Writers, Call(w)
      PROVE  TypeOK'
  BY <1>1 DEF Call, Step, handler
<1>2. ASSUME NEW w \in Writers, Lock(w)
      PROVE  TypeOK'
  BY <1>2 DEF Lock, Step, handler
<1>3. ASSUME NEW w \in Writers, CheckSize(w)
      PROVE  TypeOK'
  BY <1>3 DEF CheckSize, Step, handler
<1>4. ASSUME NEW w \in Writers
      PROVE  Me(w) \in Id
  BY DEF Me, Id
<1>5. ASSUME NEW w \in Writers, FillHeader(w)
      PROVE  TypeOK'
  <2>1. cmdbuf' \in Buffer
    BY <1>4, <1>5 DEF FillHeader, Buffer
  <2>2. QED
    BY <1>5, <2>1 DEF FillHeader, Step, handler
<1>6. ASSUME NEW w \in Writers, FillContent(w)
      PROVE  TypeOK'
  <2>1. cmdbuf' \in Buffer
    BY <1>4, <1>6 DEF FillContent, Buffer
  <2>2. QED
    BY <1>6, <2>1 DEF FillContent, Step, handler
<1>7. ASSUME NEW w \in Writers, Write(w)
      PROVE  TypeOK'
  <2>1. /\ wpc' = [wpc EXCEPT ![w] = "unlock"]
        /\ UNCHANGED <<request, oversize, owner, cmdbuf, handler>>
        /\ seen' \in {seen, Append(seen, cmdbuf)}
        /\ acked' \in {acked, [acked EXCEPT ![w] = @ \cup {request[w]}]}
    BY <1>7 DEF Write, Step
  <2>2. seen' \in Seq(Buffer)
    <3>1. seen \in Seq(Buffer) /\ cmdbuf \in Buffer
      OBVIOUS
    <3>2. Append(seen, cmdbuf) \in Seq(Buffer)
      BY <3>1
    <3>3. seen' = Append(seen, cmdbuf) \/ seen' = seen
      BY <2>1
    <3>4. QED
      BY <3>1, <3>2, <3>3
  <2>3. acked' \in [Writers -> SUBSET Nat]
    <3>1. acked \in [Writers -> SUBSET Nat] /\ request[w] \in Nat
      OBVIOUS
    <3>2. acked[w] \cup {request[w]} \in SUBSET Nat
      BY <3>1
    <3>3. [acked EXCEPT ![w] = @ \cup {request[w]}] \in [Writers -> SUBSET Nat]
      BY <3>1, <3>2
    <3>4. \/ acked' = [acked EXCEPT ![w] = @ \cup {request[w]}]
          \/ acked' = acked
      BY <2>1
    <3>5. QED
      BY <3>1, <3>3, <3>4
  <2>4. QED
    BY <2>1, <2>2, <2>3 DEF handler
<1>8. ASSUME NEW w \in Writers, Unlock(w)
      PROVE  TypeOK'
  BY <1>8 DEF Unlock, Step, handler
<1>9. CASE ReadHeader
  BY <1>9 DEF ReadHeader, writers
<1>10. CASE ReadBody
  BY <1>10 DEF ReadBody, writers
<1>11. CASE UNCHANGED vars
  BY <1>11 DEF vars
<1>12. QED
  BY <1>1, <1>2, <1>3, <1>5, <1>6, <1>7, <1>8, <1>9, <1>10, <1>11 DEF Next, Writer

\* Before its Write, a writer that holds cmd_lock has put nothing on the bus: the
\* steps up to there leave what the device and the callers have seen alone.
LEMMA BeforeWrite ==
    ASSUME ReportsUntorn, SentMeansReceivedOnce, UNCHANGED <<seen, acked>>
    PROVE  ReportsUntorn' /\ SentMeansReceivedOnce'
BY DEF ReportsUntorn, SentMeansReceivedOnce

\* The step that matters: what is appended to the bus is the holder's own report,
\* and it had not been there.
LEMMA WriteStep ==
    ASSUME OutputInv, NEW w \in Writers, Write(w)
    PROVE  NumberInv' /\ ReportsUntorn' /\ SentMeansReceivedOnce'
<1> DEFINE n == request[w]
           k == Len(seen)
<1>1. /\ seen \in Seq(Buffer) /\ k \in Nat
      /\ wpc \in [Writers -> {"idle", "lock"} \cup Critical]
      /\ acked \in [Writers -> SUBSET Nat] /\ n \in Nat
  BY DEF OutputInv, TypeOK
<1>2. /\ wpc[w] = "write" /\ wpc' = [wpc EXCEPT ![w] = "unlock"]
      /\ request' = request
  BY DEF Write, Step
<1>3. cmdbuf.hdr = <<w, n>> /\ cmdbuf.content = <<w, n>>
  BY <1>2 DEF OutputInv, FilledInv, Me
<1>4. \A j \in 1..k : seen[j].hdr # <<w, n>>
  BY <1>1, <1>2 DEF OutputInv, NumberInv
<1>5. CASE seen' = seen /\ acked' = acked
  <2>1. NumberInv'
    BY <1>1, <1>2, <1>5 DEF OutputInv, NumberInv
  <2>2. QED
    BY <1>5, <2>1, BeforeWrite DEF OutputInv
<1>6. CASE /\ seen' = Append(seen, cmdbuf)
           /\ acked' \in {acked, [acked EXCEPT ![w] = @ \cup {n}]}
  <2>1. /\ Len(seen') = k + 1 /\ seen'[k + 1] = cmdbuf
        /\ \A i \in 1..k : seen'[i] = seen[i]
        /\ \A i \in 1..(k + 1) : i \in 1..k \/ i = k + 1
        /\ k + 1 \in 1..(k + 1) /\ \A i \in 1..k : i \in 1..(k + 1)
    BY <1>1, <1>6
  <2>2. \A v \in Writers : \A i \in acked'[v] : i \in acked[v] \/ (v = w /\ i = n)
    BY <1>1, <1>6
  <2>3. /\ \A i \in 1..k : seen[i].hdr = seen[i].content
        /\ \A v \in Writers : \A i \in acked[v] : \E j \in 1..k : seen[j].hdr = <<v, i>>
        /\ \A i, j \in 1..k : seen[i].hdr = seen[j].hdr => i = j
    BY DEF OutputInv, ReportsUntorn, SentMeansReceivedOnce
  <2>4. \A v \in Writers : \A j \in 1..k : \A i \in Nat : seen[j].hdr = <<v, i>> =>
            /\ i <= request[v]
            /\ wpc[v] \in {"lock", "check", "header", "content", "write"} => i # request[v]
    BY DEF OutputInv, NumberInv
  <2> HIDE DEF k
  <2>5. NumberInv'
    <3> SUFFICES ASSUME NEW v \in Writers, NEW j \in 1..(k + 1), NEW i \in Nat,
                        seen'[j].hdr = <<v, i>>
                 PROVE  /\ i <= request'[v]
                        /\ wpc'[v] \in {"lock", "check", "header", "content", "write"}
                               => i # request'[v]
      BY <2>1 DEF NumberInv
    <3>1. /\ request'[v] = request[v]
          /\ wpc'[v] \in {"lock", "check", "header", "content", "write"} =>
                 v # w /\ wpc[v] \in {"lock", "check", "header", "content", "write"}
      BY <1>1, <1>2
    <3>2. CASE j \in 1..k
      BY <2>1, <2>4, <3>1, <3>2
    <3>3. CASE j = k + 1
      <4>1. v = w /\ i = n
        BY <1>3, <2>1, <3>3
      <4>2. QED
        BY <1>1, <3>1, <4>1
    <3>4. QED
      BY <2>1, <3>2, <3>3
  <2> HIDE DEF n
  <2>6. ReportsUntorn'
    BY <1>3, <2>1, <2>3 DEF ReportsUntorn
  <2>7. ASSUME NEW v \in Writers, NEW i \in acked'[v]
        PROVE  \E j \in 1..(k + 1) : seen'[j].hdr = <<v, i>>
    <3>1. CASE v = w /\ i = n
      BY <1>3, <2>1, <3>1
    <3>2. CASE i \in acked[v]
      <4>1. PICK j \in 1..k : seen[j].hdr = <<v, i>>
        BY <2>3, <3>2
      <4>2. QED
        BY <2>1, <4>1
    <3>3. QED
      BY <2>2, <3>1, <3>2
  <2>8. ASSUME NEW i \in 1..(k + 1), NEW j \in 1..(k + 1), seen'[i].hdr = seen'[j].hdr
        PROVE  i = j
    BY <1>3, <1>4, <2>1, <2>3, <2>8 DEF k
  <2>9. SentMeansReceivedOnce'
    BY <2>1, <2>7, <2>8 DEF SentMeansReceivedOnce
  <2>10. QED
    BY <2>5, <2>6, <2>9
<1>7. QED
  BY <1>5, <1>6 DEF Write

\* Every step keeps the invariant.
LEMMA OutputStep == OutputInv /\ [Next]_vars => OutputInv'
<1> SUFFICES ASSUME OutputInv, [Next]_vars
             PROVE  OutputInv'
  OBVIOUS
<1>1. TypeOK' /\ TypeOK
  BY TypeStep DEF OutputInv
<1>2. /\ wpc \in [Writers -> {"idle", "lock"} \cup Critical]
      /\ request \in [Writers -> Nat] /\ acked \in [Writers -> SUBSET Nat]
      /\ cmdbuf \in Buffer
  BY <1>1 DEF TypeOK
<1>3. HolderInv /\ FilledInv /\ NumberInv /\ ReportsUntorn /\ SentMeansReceivedOnce
  BY DEF OutputInv
\* Nothing of another writer is disturbed while w holds cmd_lock.
<1>4. ASSUME NEW w \in Writers, NEW v \in Writers, wpc[w] \in Critical, v # w
      PROVE  wpc[v] \notin Critical
  BY <1>3, <1>4 DEF HolderInv
<1>5. ASSUME NEW w \in Writers, Call(w)
      PROVE  OutputInv'
  <2>1. /\ wpc[w] = "idle" /\ wpc' = [wpc EXCEPT ![w] = "lock"]
        /\ request' = [request EXCEPT ![w] = @ + 1]
        /\ UNCHANGED <<acked, owner, cmdbuf, seen>>
    BY <1>5 DEF Call, Step
  <2>2. HolderInv'
    BY <1>2, <1>3, <2>1 DEF HolderInv, Critical
  <2>3. FilledInv'
    BY <1>2, <1>3, <2>1 DEF FilledInv, Me
  <2>4. NumberInv'
    BY <1>2, <1>3, <2>1 DEF NumberInv
  <2>5. QED
    BY <1>1, <1>3, <2>1, <2>2, <2>3, <2>4, BeforeWrite DEF OutputInv
<1>6. ASSUME NEW w \in Writers, Lock(w)
      PROVE  OutputInv'
  <2>1. /\ wpc[w] = "lock" /\ wpc' = [wpc EXCEPT ![w] = "check"]
        /\ owner = NoOne /\ owner' = w
        /\ UNCHANGED <<request, acked, cmdbuf, seen>>
    BY <1>6 DEF Lock, Step
  <2>2. HolderInv'
    BY <1>2, <1>3, <2>1, WritersAssumption DEF HolderInv, Critical
  <2>3. FilledInv'
    BY <1>2, <1>3, <2>1 DEF FilledInv, Me
  <2>4. NumberInv'
    BY <1>2, <1>3, <2>1 DEF NumberInv
  <2>5. QED
    BY <1>1, <1>3, <2>1, <2>2, <2>3, <2>4, BeforeWrite DEF OutputInv
<1>7. ASSUME NEW w \in Writers, CheckSize(w)
      PROVE  OutputInv'
  <2>1. /\ wpc[w] = "check"
        /\ \/ wpc' = [wpc EXCEPT ![w] = "unlock"]
           \/ wpc' = [wpc EXCEPT ![w] = "header"]
        /\ UNCHANGED <<request, acked, owner, cmdbuf, seen>>
    BY <1>7 DEF CheckSize, Step
  <2>2. HolderInv'
    BY <1>2, <1>3, <2>1 DEF HolderInv, Critical
  <2>3. FilledInv'
    BY <1>2, <1>3, <2>1 DEF FilledInv, Me
  <2>4. NumberInv'
    BY <1>2, <1>3, <2>1 DEF NumberInv
  <2>5. QED
    BY <1>1, <1>3, <2>1, <2>2, <2>3, <2>4, BeforeWrite DEF OutputInv
<1>8. ASSUME NEW w \in Writers, FillHeader(w)
      PROVE  OutputInv'
  <2>1. /\ wpc[w] = "header" /\ wpc' = [wpc EXCEPT ![w] = "content"]
        /\ cmdbuf' = [cmdbuf EXCEPT !.hdr = Me(w)]
        /\ UNCHANGED <<request, acked, owner, seen>>
    BY <1>8 DEF FillHeader, Step
  <2>2. HolderInv'
    BY <1>2, <1>3, <2>1 DEF HolderInv, Critical
  <2>3. FilledInv'
    BY <1>2, <1>3, <1>4, <2>1 DEF FilledInv, Me, Critical, Buffer
  <2>4. NumberInv'
    BY <1>2, <1>3, <2>1 DEF NumberInv
  <2>5. QED
    BY <1>1, <1>3, <2>1, <2>2, <2>3, <2>4, BeforeWrite DEF OutputInv
<1>9. ASSUME NEW w \in Writers, FillContent(w)
      PROVE  OutputInv'
  <2>1. /\ wpc[w] = "content" /\ wpc' = [wpc EXCEPT ![w] = "write"]
        /\ cmdbuf' = [cmdbuf EXCEPT !.content = Me(w)]
        /\ UNCHANGED <<request, acked, owner, seen>>
    BY <1>9 DEF FillContent, Step
  <2>2. HolderInv'
    BY <1>2, <1>3, <2>1 DEF HolderInv, Critical
  <2>3. FilledInv'
    BY <1>2, <1>3, <1>4, <2>1 DEF FilledInv, Me, Critical, Buffer
  <2>4. NumberInv'
    BY <1>2, <1>3, <2>1 DEF NumberInv
  <2>5. QED
    BY <1>1, <1>3, <2>1, <2>2, <2>3, <2>4, BeforeWrite DEF OutputInv
<1>10. ASSUME NEW w \in Writers, Write(w)
       PROVE  OutputInv'
  <2>1. /\ wpc[w] = "write" /\ wpc' = [wpc EXCEPT ![w] = "unlock"]
        /\ UNCHANGED <<request, owner, cmdbuf>>
    BY <1>10 DEF Write, Step
  <2>2. HolderInv'
    BY <1>2, <1>3, <2>1 DEF HolderInv, Critical
  <2>3. FilledInv'
    BY <1>2, <1>3, <2>1 DEF FilledInv, Me
  <2>4. QED
    BY <1>1, <1>10, <2>2, <2>3, WriteStep DEF OutputInv
<1>11. ASSUME NEW w \in Writers, Unlock(w)
       PROVE  OutputInv'
  <2>1. /\ wpc[w] = "unlock" /\ wpc' = [wpc EXCEPT ![w] = "idle"]
        /\ owner' = NoOne
        /\ UNCHANGED <<request, acked, cmdbuf, seen>>
    BY <1>11 DEF Unlock, Step
  <2>2. HolderInv'
    BY <1>2, <1>3, <1>4, <2>1, WritersAssumption DEF HolderInv, Critical
  <2>3. FilledInv'
    BY <1>2, <1>3, <2>1 DEF FilledInv, Me
  <2>4. NumberInv'
    BY <1>2, <1>3, <2>1 DEF NumberInv
  <2>5. QED
    BY <1>1, <1>3, <2>1, <2>2, <2>3, <2>4, BeforeWrite DEF OutputInv
<1>12. CASE ReadHeader \/ ReadBody \/ UNCHANGED vars
  <2>1. UNCHANGED <<wpc, request, acked, owner, cmdbuf, seen>>
    BY <1>12 DEF ReadHeader, ReadBody, vars, writers
  <2>2. HolderInv' /\ FilledInv' /\ ReportsUntorn' /\ SentMeansReceivedOnce'
    BY <1>3, <2>1
       DEF HolderInv, FilledInv, Me, ReportsUntorn, SentMeansReceivedOnce
  <2>3. NumberInv'
    BY <1>3, <2>1 DEF NumberInv
  <2>4. QED
    BY <1>1, <2>2, <2>3 DEF OutputInv
<1>13. QED
  BY <1>5, <1>6, <1>7, <1>8, <1>9, <1>10, <1>11, <1>12 DEF Next, Writer

\* Every variable keeps its type, for any set of writers.
THEOREM TypeCorrect == Spec => []TypeOK
<1>1. Init => TypeOK
  BY OutputInit DEF OutputInv
<1>2. QED
  BY <1>1, TypeStep, PTL DEF Spec

\* cmd_lock gives mutual exclusion over cmdbuf, from the size check of
\* hidspi_write_output() to the end of its transfer, however many threads send.
THEOREM MutualExclusion == Spec => []CmdbufExclusive
<1>1. OutputInv => CmdbufExclusive
  BY DEF OutputInv, HolderInv, CmdbufExclusive
<1>2. QED
  BY <1>1, OutputInit, OutputStep, PTL DEF Spec

\* Hence the device receives whole reports, each at most once, and a caller is
\* told "sent" only when it has received the caller's.
THEOREM WholeAndOnce == Spec => [](ReportsUntorn /\ SentMeansReceivedOnce)
<1>1. OutputInv => ReportsUntorn /\ SentMeansReceivedOnce
  BY DEF OutputInv
<1>2. QED
  BY <1>1, OutputInit, OutputStep, PTL DEF Spec

\* In particular, a report for which hidspi_write_output() returns 0 has been
\* received once, and one for which it returns an error at most once.
THEOREM SentOnce == Spec => []SentMeansReceivedOnce
BY WholeAndOnce, PTL
===============================================================================
