------------------------- MODULE XdpFuseDocProofs -------------------------
(***************************************************************************)
(* Proofs about XdpFuseDoc for every set of views, writers, handles and    *)
(* threads and any number of files.                                        *)
(***************************************************************************)
EXTENDS XdpFuseDoc, FiniteSetTheorems, SequenceTheorems, TLAPS

-----------------------------------------------------------------------------
(* Sequences that have each of their elements once.                        *)

Once(s) == \A i, j \in DOMAIN s : s[i] = s[j] => i = j
Elems(s) == {s[i] : i \in DOMAIN s}
IsCons(r, h, s) ==
  Len(r) = Len(s) + 1 /\ r[1] = h /\ \A i \in 1 .. Len(s) : r[i + 1] = s[i]

\* Taking an element out.
LEMMA Removed ==
  ASSUME NEW S, NEW s \in Seq(S), Once(s), NEW k \in DOMAIN s,
         NEW r, r = SubSeq(s, 1, k - 1) \o SubSeq(s, k + 1, Len(s))
  PROVE  r \in Seq(S) /\ Once(r) /\ Elems(r) = Elems(s) \ {s[k]}
<1> DEFINE n == Len(s)
           a == SubSeq(s, 1, k - 1)
           b == SubSeq(s, k + 1, n)
<1>1. n \in Nat /\ k \in 1 .. n /\ DOMAIN s = 1 .. n
  OBVIOUS
<1>2. a \in Seq(S) /\ Len(a) = k - 1 /\ \A i \in 1 .. (k - 1) : a[i] = s[i]
  BY <1>1
<1>3. b \in Seq(S) /\ Len(b) = n - k /\ \A i \in 1 .. (n - k) : b[i] = s[k + i]
  <2>1. k + 1 \in Int /\ n \in Int /\ \A i \in (k + 1) .. n : s[i] \in S
    BY <1>1
  <2>2. /\ b \in Seq(S) /\ Len(b) = IF k + 1 <= n THEN n - (k + 1) + 1 ELSE 0
        /\ \A i \in 1 .. (n - (k + 1) + 1) : b[i] = s[(k + 1) + i - 1]
    BY <2>1, SubSeqProperties
  <2> HIDE DEF b, n
  <2>3. Len(b) = n - k /\ n - (k + 1) + 1 = n - k
    BY <1>1, <2>2
  <2>4. ASSUME NEW i \in 1 .. (n - k) PROVE b[i] = s[k + i]
    <3>1. (k + 1) + i - 1 = k + i
      BY <1>1
    <3>2. QED
      BY <2>2, <2>3, <3>1
  <2>5. QED
    BY <2>2, <2>3, <2>4
<1>4. r = a \o b
  OBVIOUS
<1> HIDE DEF n, a, b
<1>5. r \in Seq(S) /\ Len(r) = (k - 1) + (n - k)
  <2>1. a \o b \in Seq(S) /\ Len(a \o b) = Len(a) + Len(b)
    BY <1>2, <1>3, ConcatProperties
  <2>2. QED
    BY <1>2, <1>3, <1>4, <2>1
<1>6. DOMAIN r = 1 .. (n - 1)
  BY <1>1, <1>5
<1>7. ASSUME NEW i \in 1 .. (n - 1), i < k PROVE r[i] = s[i]
  <2>1. i <= Len(a) /\ i \in 1 .. (k - 1) /\ i \in 1 .. (Len(a) + Len(b))
    BY <1>1, <1>2, <1>3, <1>7
  <2>2. (a \o b)[i] = IF i <= Len(a) THEN a[i] ELSE b[i - Len(a)]
    BY <1>2, <1>3, <2>1, ConcatProperties
  <2>3. QED
    BY <1>2, <1>4, <2>1, <2>2
<1>8. ASSUME NEW i \in 1 .. (n - 1), ~(i < k) PROVE r[i] = s[i + 1]
  <2>1. i - (k - 1) \in 1 .. (n - k) /\ k + (i - (k - 1)) = i + 1
    BY <1>1, <1>8
  <2>2. r[i] = b[i - (k - 1)]
    <3>1. i <= Len(a) + Len(b) /\ ~(i <= Len(a)) /\ i \in 1 .. (Len(a) + Len(b))
      BY <1>1, <1>2, <1>3, <1>8
    <3>2. (a \o b)[i] = IF i <= Len(a) THEN a[i] ELSE b[i - Len(a)]
      BY <1>2, <1>3, <3>1, ConcatProperties
    <3>3. QED
      BY <1>2, <1>4, <3>1, <3>2
  <2>3. QED
    BY <1>3, <2>1, <2>2
<1>9. \A i, j \in 1 .. n : s[i] = s[j] => i = j
  BY <1>1 DEF Once
<1>10. Once(r)
  <2>1. ASSUME NEW i \in 1 .. (n - 1), NEW j \in 1 .. (n - 1), r[i] = r[j], i < k PROVE i = j
    <3>1. i \in 1 .. n /\ r[i] = s[i]
      BY <1>1, <1>7, <2>1
    <3>2. CASE j < k
      <4>1. j \in 1 .. n /\ r[j] = s[j]
        BY <1>1, <1>7, <3>2
      <4>2. QED
        BY <1>9, <2>1, <3>1, <4>1
    <3>3. CASE ~(j < k)
      <4>1. j + 1 \in 1 .. n /\ i # j + 1
        BY <1>1, <2>1, <3>3
      <4>2. r[j] = s[j + 1]
        BY <1>8, <3>3
      <4>3. QED
        BY <1>9, <2>1, <3>1, <4>1, <4>2
    <3>4. QED
      BY <3>2, <3>3
  <2>2. ASSUME NEW i \in 1 .. (n - 1), NEW j \in 1 .. (n - 1), r[i] = r[j], ~(i < k), ~(j < k)
        PROVE  i = j
    <3>1. i + 1 \in 1 .. n /\ j + 1 \in 1 .. n
      BY <1>1
    <3>2. s[i + 1] = s[j + 1]
      BY <1>8, <2>2
    <3>3. i + 1 = j + 1
      BY <1>9, <3>1, <3>2
    <3>4. QED
      BY <3>3
  <2>3. \A i, j \in 1 .. (n - 1) : r[i] = r[j] => i = j
    BY <2>1, <2>2
  <2>4. QED
    BY <1>6, <2>3 DEF Once
<1>11. ASSUME NEW i \in 1 .. (n - 1) PROVE \E j \in 1 .. n : r[i] = s[j] /\ s[j] # s[k]
  <2>1. CASE i < k
    BY <1>1, <1>7, <1>9, <2>1
  <2>2. CASE ~(i < k)
    <3>1. i + 1 \in 1 .. n /\ i + 1 # k
      BY <1>1, <2>2
    <3>2. QED
      BY <1>1, <1>8, <1>9, <2>2, <3>1
  <2>3. QED
    BY <2>1, <2>2
<1>12. ASSUME NEW j \in 1 .. n, s[j] # s[k] PROVE \E i \in 1 .. (n - 1) : r[i] = s[j]
  <2>1. CASE j < k
    <3>1. j \in 1 .. (n - 1)
      BY <1>1, <2>1
    <3>2. QED
      BY <1>7, <2>1, <3>1
  <2>2. CASE ~(j < k)
    <3>1. j # k
      BY <1>12
    <3>2. j - 1 \in 1 .. (n - 1) /\ ~(j - 1 < k) /\ (j - 1) + 1 = j
      BY <1>1, <2>2, <3>1
    <3>3. QED
      BY <1>8, <3>2
  <2>3. QED
    BY <2>1, <2>2
<1>13. Elems(r) = Elems(s) \ {s[k]}
  <2>1. Elems(r) = {r[i] : i \in 1 .. (n - 1)} /\ Elems(s) = {s[j] : j \in 1 .. n}
    BY <1>1, <1>6 DEF Elems
  <2>2. ASSUME NEW x \in Elems(r) PROVE x \in Elems(s) \ {s[k]}
    BY <1>11, <2>1
  <2>3. ASSUME NEW x \in Elems(s) \ {s[k]} PROVE x \in Elems(r)
    BY <1>12, <2>1
  <2>4. QED
    BY <2>2, <2>3
<1>14. QED
  BY <1>5, <1>10, <1>13

\* Putting a new one in front.
LEMMA Prepended ==
  ASSUME NEW S, NEW s \in Seq(S), NEW h \in S, Once(s), h \notin Elems(s),
         NEW r \in Seq(S), IsCons(r, h, s)
  PROVE  Once(r) /\ Elems(r) = Elems(s) \cup {h}
<1> DEFINE n == Len(s)
<1>1. n \in Nat /\ DOMAIN s = 1 .. n
  OBVIOUS
<1>2. Len(r) = n + 1 /\ r[1] = h /\ \A i \in 1 .. n : r[i + 1] = s[i]
  BY DEF IsCons
<1>3. Len(r) \in Nat /\ DOMAIN r = 1 .. Len(r)
  OBVIOUS
<1> HIDE DEF n
<1>4. DOMAIN r = 1 .. (n + 1) /\ 1 \in 1 .. (n + 1)
  BY <1>1, <1>2, <1>3
<1>5. ASSUME NEW i \in 1 .. (n + 1), i # 1 PROVE i - 1 \in 1 .. n /\ r[i] = s[i - 1]
  <2>1. i - 1 \in 1 .. n /\ (i - 1) + 1 = i
    BY <1>1, <1>5
  <2>2. QED
    BY <1>2, <2>1
<1>6. r[1] = h
  BY <1>2
<1>7. \A i \in 1 .. n : s[i] # h
  BY <1>1 DEF Elems
<1>8. \A i, j \in 1 .. n : s[i] = s[j] => i = j
  BY <1>1 DEF Once
<1>9. Once(r)
  <2>1. ASSUME NEW i \in 1 .. (n + 1), NEW j \in 1 .. (n + 1), r[i] = r[j], i = 1 PROVE i = j
    BY <1>5, <1>6, <1>7, <2>1
  <2>2. ASSUME NEW i \in 1 .. (n + 1), NEW j \in 1 .. (n + 1), r[i] = r[j], i # 1 PROVE i = j
    <3>1. CASE j = 1
      BY <2>1, <2>2, <3>1
    <3>2. CASE j # 1
      <4>1. i - 1 = j - 1
        BY <1>5, <1>8, <2>2, <3>2
      <4>2. QED
        BY <1>1, <4>1
    <3>3. QED
      BY <3>1, <3>2
  <2>3. \A i, j \in 1 .. (n + 1) : r[i] = r[j] => i = j
    BY <2>1, <2>2
  <2>4. QED
    BY <1>4, <2>3 DEF Once
<1>10. ASSUME NEW j \in 1 .. n PROVE \E i \in 1 .. (n + 1) : r[i] = s[j]
  <2>1. j + 1 \in 1 .. (n + 1) /\ j + 1 # 1 /\ (j + 1) - 1 = j
    BY <1>1
  <2>2. QED
    BY <1>5, <2>1
<1>11. Elems(r) = {r[i] : i \in 1 .. (n + 1)} /\ Elems(s) = {s[j] : j \in 1 .. n}
  BY <1>1, <1>4 DEF Elems
<1>12. ASSUME NEW x \in Elems(r) PROVE x \in Elems(s) \/ x = h
  BY <1>5, <1>6, <1>11
<1>13. h \in Elems(r)
  BY <1>4, <1>6, <1>11
<1>14. ASSUME NEW x \in Elems(s) PROVE x \in Elems(r)
  <2>1. PICK j \in 1 .. n : x = s[j]
    BY <1>11
  <2>2. PICK i \in 1 .. (n + 1) : r[i] = s[j]
    BY <1>10
  <2>3. QED
    BY <1>11, <2>1, <2>2
<1>15. QED
  BY <1>9, <1>12, <1>13, <1>14

-----------------------------------------------------------------------------
(* The parts of TypeOK.                                                    *)

FilesOK ==
  /\ document \in Files \cup {NULL}
  /\ temps \subseteq Files
  /\ abandoned \subseteq Files
AuthorOK == author \in Views \cup {NULL}
InplaceOK == inplace \in BOOLEAN
FhsOK == fhs \in [Handles -> Fh \cup {NULL}]
ListOK == open_files \in Seq(Handles)
Listed == Elems(open_files) = {h \in Handles : fhs[h] # NULL}
ListedOnce == Once(open_files)
CallsOK == call \in [Threads -> Call \cup {NULL}]

\* A handle that was truncated has a temporary file, and who has one writes.
FhsShaped ==
  \A h \in Handles : fhs[h] # NULL =>
    /\ fhs[h].truncated => fhs[h].trunc_fd # NULL
    /\ fhs[h].trunc_fd # NULL => fhs[h].view \in Writers

\* What a request has at each of its steps.
CallsShaped ==
  \A t \in Threads : call[t] # NULL =>
    /\ call[t].at \in {"open_doc", "create_doc"} <=> call[t].fh = NULL
    /\ call[t].at \in {"create_doc", "create_fill"} => call[t].tmp # NULL
    /\ call[t].tmp # NULL =>
         /\ call[t].view \in Writers
         /\ call[t].at \in {"open_doc", "create_doc", "open_fill", "create_fill"}

\* A request works on a handle that exists.
Held == \A t \in Threads : call[t] # NULL /\ call[t].fh # NULL => fhs[call[t].fh] # NULL

Fills(t) == At(t, "open_fill") \/ At(t, "create_fill")

\* A handle that is on the list already and is not filled in yet is read-only
\* for who finds it, and one request will fill it.
FillsFresh ==
  \A t \in Threads : Fills(t) =>
    /\ fhs[call[t].fh].view = call[t].view
    /\ fhs[call[t].fh].trunc_fd = NULL
    /\ ~fhs[call[t].fh].truncated /\ ~fhs[call[t].fh].can_write /\ ~fhs[call[t].fh].owned
    /\ \A u \in Threads : Fills(u) /\ u # t => call[u].fh # call[t].fh

\* A temporary file has one owner, a handle or a request that opens.
TruncFd(h) == IF fhs[h] = NULL THEN NULL ELSE fhs[h].trunc_fd
Tmp(t) == IF call[t] = NULL THEN NULL ELSE call[t].tmp

FdsApart ==
  \A h \in Handles : TruncFd(h) # NULL =>
    /\ TruncFd(h) # document
    /\ \A g \in Handles : g # h => TruncFd(g) # TruncFd(h)
    /\ \A t \in Threads : Tmp(t) # TruncFd(h)
TmpsApart ==
  \A t \in Threads : Tmp(t) # NULL =>
    /\ Tmp(t) # document
    /\ \A u \in Threads : u # t => Tmp(u) # Tmp(t)

\* Who frees a handle has taken the last reference, alone.
FinalIsLast ==
  \A t \in Threads : At(t, "finalize") =>
    /\ fhs[call[t].fh].ref_count = 0
    /\ \A u \in Threads : call[u] # NULL /\ u # t => call[u].fh # call[t].fh

\* What is invariant.
Types == FilesOK /\ AuthorOK /\ InplaceOK /\ FhsOK /\ ListOK /\ Listed /\ ListedOnce /\ CallsOK
Counted == RefsAreHolders /\ Held /\ FinalIsLast
Apart == FdsApart /\ TmpsApart
Shaped == FhsShaped /\ CallsShaped /\ FillsFresh
IInv ==
  /\ Types /\ Shaped /\ Counted /\ Apart
  /\ ReplacedWhole /\ OnlyWritersReplace /\ TempsOwned

-----------------------------------------------------------------------------
(* Basic facts.                                                            *)

LEMMA Nulls == NULL \notin Handles /\ NULL \notin Nat /\ NULL \notin Fh /\ NULL \notin Call
BY NullAssumption

LEMMA FilesAreNat == \A f \in Files : f \in Nat /\ f # NULL
BY NullAssumption, BoundsAssumption DEF Files

\* What find_open_fh finds is on the list and referenced.
LEMMA Found ==
  ASSUME ListOK, Listed, NEW view, NEW h \in find_open_fh(view)
  PROVE  h \in Handles /\ fhs[h] # NULL /\ fhs[h].ref_count > 0
BY DEF find_open_fh, ListOK, Listed, Elems

LEMMA Free ==
  ASSUME FreeFiles # {}
  PROVE  /\ NewFile \in Files /\ NewFile # document /\ NewFile \notin temps /\ NewFile # NULL
         /\ \A t \in Threads : call[t] # NULL => call[t].tmp # NewFile
         /\ \A h \in Handles : fhs[h] # NULL => fhs[h].trunc_fd # NewFile
<1>1. NewFile \in FreeFiles
  BY DEF NewFile
<1>2. NewFile # NULL
  BY <1>1, FilesAreNat DEF FreeFiles
<1>3. QED
  BY <1>1, <1>2 DEF FreeFiles

-----------------------------------------------------------------------------
(* What the steps do, field by field.                                      *)

SameFhs(h) == \A g \in Handles : g # h => fhs'[g] = fhs[g]
SameCalls(t) == \A u \in Threads : u # t => call'[u] = call[u]

\* h, as it was but for its references.
SameFile(h, fh) ==
  /\ fhs'[h] # NULL
  /\ fhs'[h].view = fh.view
  /\ fhs'[h].trunc_fd = fh.trunc_fd
  /\ fhs'[h].truncated = fh.truncated
  /\ fhs'[h].can_write = fh.can_write

Counts(h, fh) ==
  /\ fhs'[h].ref_count = fh.ref_count
  /\ fhs'[h].leaked = fh.leaked
  /\ fhs'[h].owned = fh.owned

\* A request that goes to its next step, with or without a handle.
CallIs(t, at, view, h, tmp) ==
  /\ SameCalls(t)
  /\ call'[t] # NULL
  /\ call'[t].at = at /\ call'[t].view = view /\ call'[t].fh = h /\ call'[t].tmp = tmp

CallEnds(t) == SameCalls(t) /\ call'[t] = NULL

LEMMA FhFields ==
  ASSUME NEW fh \in Fh
  PROVE  /\ fh.view \in Views /\ fh.fd \in Files /\ fh.trunc_fd \in Files \cup {NULL}
         /\ fh.truncated \in BOOLEAN /\ fh.can_write \in BOOLEAN /\ fh.owned \in BOOLEAN
         /\ fh.ref_count \in Nat /\ fh.leaked \in Nat /\ fh # NULL
BY Nulls DEF Fh

LEMMA CallFields ==
  ASSUME NEW c \in Call
  PROVE  /\ c.at \in Steps /\ c.view \in Views
         /\ c.fh \in Handles \cup {NULL} /\ c.tmp \in Files \cup {NULL} /\ c # NULL
BY Nulls DEF Call

LEMMA CallTypes ==
  ASSUME CallsOK
  PROVE  \A t \in Threads : call[t] # NULL =>
           /\ call[t].view \in Views
           /\ call[t].fh \in Handles \cup {NULL} /\ call[t].tmp \in Files \cup {NULL}
BY CallFields DEF CallsOK

LEMMA FhTypes ==
  ASSUME FhsOK
  PROVE  \A h \in Handles : fhs[h] # NULL =>
           /\ fhs[h].view \in Views /\ fhs[h].trunc_fd \in Files \cup {NULL}
           /\ fhs[h].ref_count \in Nat /\ fhs[h].leaked \in Nat /\ fhs[h].owned \in BOOLEAN
BY FhFields DEF FhsOK

LEMMA Goes ==
  ASSUME CallsOK, NEW t \in Threads, call[t] # NULL, NEW at \in Steps, NEW h \in Handles,
         call' = [call EXCEPT ![t].at = at, ![t].fh = h]
  PROVE  CallsOK' /\ CallIs(t, at, call[t].view, h, call[t].tmp)
<1> DEFINE c == [call[t] EXCEPT !.at = at, !.fh = h]
<1>1. call[t] \in Call
  BY DEF CallsOK
<1>2. c \in Call /\ c.at = at /\ c.view = call[t].view /\ c.fh = h /\ c.tmp = call[t].tmp
  BY <1>1 DEF Call
<1>3. c # NULL
  BY <1>2, Nulls
<1>4. call' = [call EXCEPT ![t] = c]
  BY DEF CallsOK
<1> HIDE DEF c
<1>5. QED
  BY <1>2, <1>3, <1>4 DEF CallsOK, CallIs, SameCalls

LEMMA GoesOn ==
  ASSUME CallsOK, NEW t \in Threads, call[t] # NULL, NEW at \in Steps,
         call' = [call EXCEPT ![t].at = at]
  PROVE  CallsOK' /\ CallIs(t, at, call[t].view, call[t].fh, call[t].tmp)
<1> DEFINE c == [call[t] EXCEPT !.at = at]
<1>1. call[t] \in Call
  BY DEF CallsOK
<1>2. c \in Call /\ c.at = at /\ c.view = call[t].view /\ c.fh = call[t].fh /\ c.tmp = call[t].tmp
  BY <1>1 DEF Call
<1>3. c # NULL
  BY <1>2, Nulls
<1>4. call' = [call EXCEPT ![t] = c]
  BY DEF CallsOK
<1> HIDE DEF c
<1>5. QED
  BY <1>2, <1>3, <1>4 DEF CallsOK, CallIs, SameCalls

LEMMA Begins ==
  ASSUME CallsOK, NEW t \in Threads, NEW at \in Steps, NEW view \in Views,
         NEW h \in Handles \cup {NULL}, NEW tmp \in Files \cup {NULL},
         Begin(t, at, view, h, tmp)
  PROVE  CallsOK' /\ call[t] = NULL /\ CallIs(t, at, view, h, tmp)
<1> DEFINE c == [at |-> at, view |-> view, fh |-> h, tmp |-> tmp]
<1>1. c \in Call /\ c.at = at /\ c.view = view /\ c.fh = h /\ c.tmp = tmp
  BY DEF Call
<1>2. c # NULL
  BY <1>1, Nulls
<1>3. call[t] = NULL /\ call' = [call EXCEPT ![t] = c]
  BY DEF Begin
<1> HIDE DEF c
<1>4. QED
  BY <1>1, <1>2, <1>3 DEF CallsOK, CallIs, SameCalls

LEMMA Replies ==
  ASSUME CallsOK, NEW t \in Threads, Reply(t) PROVE CallsOK' /\ CallEnds(t)
BY DEF CallsOK, Reply, CallEnds, SameCalls

\* A handle that gets other fields.
LEMMA Sets ==
  ASSUME FhsOK, NEW h \in Handles, NEW fh \in Fh, fhs' = [fhs EXCEPT ![h] = fh]
  PROVE  FhsOK' /\ SameFhs(h) /\ SameFile(h, fh) /\ Counts(h, fh)
<1>1. fhs'[h] = fh /\ fh # NULL
  BY Nulls DEF FhsOK
<1>2. FhsOK' /\ SameFhs(h)
  BY DEF FhsOK, SameFhs
<1>3. QED
  BY <1>1, <1>2 DEF SameFile, Counts

LEMMA News ==
  ASSUME FhsOK, NEW h \in Handles, NEW view \in Views, NEW fd \in Files, xdp_fh_new(h, view, fd)
  PROVE  /\ FhsOK' /\ SameFhs(h) /\ fhs[h] = NULL
         /\ fhs'[h] # NULL /\ fhs'[h].view = view /\ fhs'[h].trunc_fd = NULL
         /\ fhs'[h].truncated = FALSE /\ fhs'[h].can_write = FALSE /\ fhs'[h].owned = FALSE
         /\ fhs'[h].ref_count = 1 /\ fhs'[h].leaked = 0
<1> DEFINE fh == [view |-> view, fd |-> fd, trunc_fd |-> NULL, truncated |-> FALSE,
                  can_write |-> FALSE, ref_count |-> 1, leaked |-> 0, owned |-> FALSE]
<1>1. fh \in Fh
  BY DEF Fh
<1>2. fhs[h] = NULL /\ fhs' = [fhs EXCEPT ![h] = fh]
  BY DEF xdp_fh_new
<1>3. /\ fh.view = view /\ fh.trunc_fd = NULL /\ fh.truncated = FALSE /\ fh.can_write = FALSE
      /\ fh.owned = FALSE /\ fh.ref_count = 1 /\ fh.leaked = 0
  OBVIOUS
<1> HIDE DEF fh
<1>4. FhsOK' /\ SameFhs(h) /\ SameFile(h, fh) /\ Counts(h, fh)
  BY <1>1, <1>2, Sets
<1>5. QED
  BY <1>2, <1>3, <1>4 DEF SameFile, Counts

LEMMA Refs ==
  ASSUME FhsOK, NEW h \in Handles, fhs[h] # NULL, xdp_fh_ref(h)
  PROVE  /\ FhsOK' /\ SameFhs(h) /\ SameFile(h, fhs[h])
         /\ fhs'[h].ref_count = fhs[h].ref_count + 1
         /\ fhs'[h].leaked = fhs[h].leaked /\ fhs'[h].owned = fhs[h].owned
<1> DEFINE fh == [fhs[h] EXCEPT !.ref_count = fhs[h].ref_count + 1]
<1>1. fhs[h] \in Fh
  BY DEF FhsOK
<1>2. /\ fh \in Fh /\ fh.ref_count = fhs[h].ref_count + 1 /\ fh.leaked = fhs[h].leaked
      /\ fh.owned = fhs[h].owned /\ fh.view = fhs[h].view /\ fh.trunc_fd = fhs[h].trunc_fd
      /\ fh.truncated = fhs[h].truncated /\ fh.can_write = fhs[h].can_write
  BY <1>1 DEF Fh
<1>3. fhs' = [fhs EXCEPT ![h] = fh]
  BY DEF FhsOK, xdp_fh_ref
<1> HIDE DEF fh
<1>4. FhsOK' /\ SameFhs(h) /\ SameFile(h, fh) /\ Counts(h, fh)
  BY <1>2, <1>3, Sets
<1>5. QED
  BY <1>2, <1>4 DEF SameFile, Counts

LEMMA Leaks ==
  ASSUME FhsOK, NEW h \in Handles, fhs[h] # NULL, fhs' = [fhs EXCEPT ![h].leaked = @ + 1]
  PROVE  /\ FhsOK' /\ SameFhs(h) /\ SameFile(h, fhs[h])
         /\ fhs'[h].ref_count = fhs[h].ref_count
         /\ fhs'[h].leaked = fhs[h].leaked + 1 /\ fhs'[h].owned = fhs[h].owned
<1> DEFINE fh == [fhs[h] EXCEPT !.leaked = fhs[h].leaked + 1]
<1>1. fhs[h] \in Fh
  BY DEF FhsOK
<1>2. /\ fh \in Fh /\ fh.ref_count = fhs[h].ref_count /\ fh.leaked = fhs[h].leaked + 1
      /\ fh.owned = fhs[h].owned /\ fh.view = fhs[h].view /\ fh.trunc_fd = fhs[h].trunc_fd
      /\ fh.truncated = fhs[h].truncated /\ fh.can_write = fhs[h].can_write
  BY <1>1 DEF Fh
<1>3. fhs' = [fhs EXCEPT ![h] = fh]
  BY DEF FhsOK
<1> HIDE DEF fh
<1>4. FhsOK' /\ SameFhs(h) /\ SameFile(h, fh) /\ Counts(h, fh)
  BY <1>2, <1>3, Sets
<1>5. QED
  BY <1>2, <1>4 DEF SameFile, Counts

LEMMA Truncates ==
  ASSUME FhsOK, NEW h \in Handles, fhs[h] # NULL, fhs' = [fhs EXCEPT ![h].truncated = TRUE]
  PROVE  /\ FhsOK' /\ SameFhs(h) /\ Counts(h, fhs[h])
         /\ fhs'[h] # NULL /\ fhs'[h].view = fhs[h].view /\ fhs'[h].trunc_fd = fhs[h].trunc_fd
         /\ fhs'[h].can_write = fhs[h].can_write
<1> DEFINE fh == [fhs[h] EXCEPT !.truncated = TRUE]
<1>1. fhs[h] \in Fh
  BY DEF FhsOK
<1>2. /\ fh \in Fh /\ fh.ref_count = fhs[h].ref_count /\ fh.leaked = fhs[h].leaked
      /\ fh.owned = fhs[h].owned /\ fh.view = fhs[h].view /\ fh.trunc_fd = fhs[h].trunc_fd
      /\ fh.can_write = fhs[h].can_write
  BY <1>1 DEF Fh
<1>3. fhs' = [fhs EXCEPT ![h] = fh]
  BY DEF FhsOK
<1> HIDE DEF fh
<1>4. FhsOK' /\ SameFhs(h) /\ SameFile(h, fh) /\ Counts(h, fh)
  BY <1>2, <1>3, Sets
<1>5. QED
  BY <1>2, <1>4 DEF SameFile, Counts

\* A reference of h goes: with others left, or the request goes on to free h.
Drops(t, h, view) ==
  /\ fhs'[h].ref_count = fhs[h].ref_count - 1
  /\ \/ fhs[h].ref_count # 1 /\ CallEnds(t)
     \/ fhs[h].ref_count = 1 /\ CallIs(t, "finalize", view, h, NULL)

LEMMA Unrefs ==
  ASSUME FhsOK, CallsOK, NEW t \in Threads, NEW h \in Handles, NEW fh \in Fh,
         fh.ref_count = fhs[h].ref_count, fh.ref_count > 0, xdp_fh_unref(t, h, fh)
  PROVE  /\ FhsOK' /\ CallsOK' /\ SameFhs(h) /\ SameFile(h, fh) /\ Drops(t, h, fh.view)
         /\ fhs'[h].leaked = fh.leaked /\ fhs'[h].owned = fh.owned
<1> DEFINE less == [fh EXCEPT !.ref_count = fh.ref_count - 1]
           c == [at |-> "finalize", view |-> fh.view, fh |-> h, tmp |-> NULL]
<1>1. fh.ref_count \in Nat /\ fh.view \in Views
  BY FhFields
<1>2. fh.ref_count - 1 \in Nat
  BY <1>1
<1>3. /\ less \in Fh /\ less.ref_count = fh.ref_count - 1 /\ less.leaked = fh.leaked
      /\ less.owned = fh.owned /\ less.view = fh.view /\ less.trunc_fd = fh.trunc_fd
      /\ less.truncated = fh.truncated /\ less.can_write = fh.can_write
  BY <1>2 DEF Fh
<1>4. /\ c \in Call /\ c.at = "finalize" /\ c.view = fh.view /\ c.fh = h /\ c.tmp = NULL
  BY <1>1 DEF Call, Steps
<1>5. c # NULL
  BY <1>4, Nulls
<1>6. fhs' = [fhs EXCEPT ![h] = less]
  BY DEF xdp_fh_unref
<1>7. call' = [call EXCEPT ![t] = IF fh.ref_count = 1 THEN c ELSE NULL]
  BY DEF xdp_fh_unref
<1> HIDE DEF less, c
<1>8. FhsOK' /\ SameFhs(h) /\ SameFile(h, less) /\ Counts(h, less)
  BY <1>3, <1>6, Sets
<1>9. SameFile(h, fh) /\ fhs'[h].ref_count = fhs[h].ref_count - 1 /\ fhs'[h].leaked = fh.leaked
                      /\ fhs'[h].owned = fh.owned
  BY <1>3, <1>8 DEF SameFile, Counts
<1>10. CallsOK' /\ SameCalls(t)
  BY <1>4, <1>7 DEF CallsOK, SameCalls
<1>11. CASE fh.ref_count = 1
  BY <1>4, <1>5, <1>7, <1>8, <1>9, <1>10, <1>11 DEF CallsOK, CallIs, Drops
<1>12. CASE fh.ref_count # 1
  BY <1>7, <1>8, <1>9, <1>10, <1>12 DEF CallsOK, CallEnds, Drops
<1>13. QED
  BY <1>11, <1>12

-----------------------------------------------------------------------------
(* What each action does to the handle it is about.                        *)

Base == FilesOK /\ FhsOK /\ ListOK /\ Listed /\ CallsOK /\ Shaped /\ Counted

WorksOn(t, h, ats) ==
  /\ h \in Handles /\ fhs[h] # NULL /\ fhs[h] \in Fh
  /\ call[t] # NULL /\ call[t] \in Call /\ call[t].at \in ats /\ call[t].fh = h

SameDisk == /\ document' = document /\ temps' = temps /\ author' = author
            /\ inplace' = inplace /\ abandoned' = abandoned

LEMMA Working ==
  ASSUME Base, NEW t \in Threads, NEW at \in Steps \ {"open_doc", "create_doc"}, At(t, at)
  PROVE  WorksOn(t, call[t].fh, {at})
<1>1. call[t] # NULL /\ call[t] \in Call /\ call[t].at = at
  BY DEF At, Base, CallsOK
<1>2. call[t].fh # NULL
  BY <1>1 DEF Base, Shaped, CallsShaped
<1>3. call[t].fh \in Handles
  BY <1>1, <1>2, CallFields
<1>4. fhs[call[t].fh] # NULL
  BY <1>1, <1>2 DEF Base, Counted, Held
<1>5. QED
  BY <1>1, <1>3, <1>4 DEF WorksOn, Base, FhsOK

LEMMA HoldersFinite == \A h : IsFiniteSet(Holders(h)) /\ Cardinality(Holders(h)) \in Nat
<1> SUFFICES ASSUME NEW h PROVE IsFiniteSet(Holders(h)) /\ Cardinality(Holders(h)) \in Nat
  OBVIOUS
<1>1. Holders(h) \subseteq Threads
  BY DEF Holders
<1>2. QED
  BY <1>1, ThreadsAssumption, FS_Subset, FS_CardinalityType

\* Who holds a reference is counted.
LEMMA HolderCounts ==
  ASSUME NEW h, NEW t \in Holders(h) PROVE Cardinality(Holders(h)) > 0
BY HoldersFinite, FS_EmptySet

LEMMA Positive ==
  ASSUME FhsOK, RefsAreHolders, NEW h \in Handles, fhs[h] # NULL,
         fhs[h].owned \/ Holders(h) # {}
  PROVE  fhs[h].ref_count > 0
<1>1. fhs[h] \in Fh
  BY DEF FhsOK
<1>2. fhs[h].leaked \in Nat
  BY <1>1, FhFields
<1>3. Cardinality(Holders(h)) \in Nat
  BY HoldersFinite
<1>4. fhs[h].ref_count = Cardinality(Holders(h)) + fhs[h].leaked + (IF fhs[h].owned THEN 1 ELSE 0)
  BY DEF RefsAreHolders
<1>5. CASE fhs[h].owned
  BY <1>2, <1>3, <1>4, <1>5
<1>6. CASE Holders(h) # {}
  BY <1>2, <1>3, <1>4, <1>6, HolderCounts
<1>7. QED
  BY <1>5, <1>6

LEMMA HeldPositive ==
  ASSUME Base, NEW t \in Threads, NEW h, WorksOn(t, h, Steps \ {"finalize"})
  PROVE  fhs[h].ref_count > 0
<1>1. t \in Holders(h)
  BY DEF WorksOn, Holders
<1>2. QED
  BY <1>1, Positive DEF WorksOn, Base, Counted

-----------------------------------------------------------------------------
(* The next-state relation, field by field.                                *)

OkNow == FhsOK' /\ CallsOK'

Finalizes(t, h) ==
  /\ WorksOn(t, h, {"finalize"})
  /\ fhs'[h] = NULL /\ SameFhs(h) /\ CallEnds(t) /\ Unlist(h) /\ inplace' = inplace
  /\ IF fhs[h].truncated THEN RenameTemp(fhs[h]) ELSE UnlinkTemp(fhs[h])

Abandons(t) ==
  /\ call[t] # NULL /\ call[t].fh = NULL /\ call[t].at # "finalize"
  /\ call[t].tmp \in Files \cup {NULL}
  /\ CallEnds(t) /\ abandoned' = abandoned \cup ({call[t].tmp} \ {NULL})
  /\ fhs' = fhs /\ open_files' = open_files
  /\ document' = document /\ temps' = temps /\ author' = author /\ inplace' = inplace

\* A new handle, until it is filled in.
IsNew(t, h, at, next) ==
  /\ call[t] # NULL /\ call[t].at = at /\ call[t].fh = NULL /\ call[t] \in Call
  /\ h \in Handles /\ SameFhs(h) /\ fhs[h] = NULL
  /\ fhs'[h] # NULL /\ fhs'[h].view = call[t].view /\ fhs'[h].trunc_fd = NULL
  /\ ~fhs'[h].truncated /\ ~fhs'[h].can_write /\ ~fhs'[h].owned
  /\ fhs'[h].ref_count = 1 /\ fhs'[h].leaked = 0
  /\ open_files' = <<h>> \o open_files
  /\ CallIs(t, next, call[t].view, h, call[t].tmp)

OpensHandle(t, h) == IsNew(t, h, "open_doc", "open_fill") /\ SameDisk

CreatesHandle(t, h) ==
  /\ IsNew(t, h, "create_doc", "create_fill")
  /\ FreeFiles # {} /\ document' = NewFile /\ author' = call[t].view
  /\ temps' = temps /\ inplace' = inplace /\ abandoned' = abandoned

FillsIn(t, h) ==
  /\ WorksOn(t, h, {"open_fill", "create_fill"})
  /\ SameFhs(h)
  /\ fhs'[h] # NULL /\ fhs'[h].view = fhs[h].view /\ fhs'[h].trunc_fd = call[t].tmp
  /\ fhs'[h].truncated => call[t].at = "create_fill"
  /\ fhs'[h].leaked = fhs[h].leaked /\ fhs[h].ref_count > 0
  /\ SameDisk /\ open_files' = open_files

FillsOwned(t, h) ==
  /\ FillsIn(t, h)
  /\ fhs'[h].owned = TRUE /\ fhs'[h].ref_count = fhs[h].ref_count /\ CallEnds(t)

FillsUnowned(t, h) ==
  FillsIn(t, h) /\ fhs'[h].owned = fhs[h].owned /\ Drops(t, h, fhs[h].view)

DropsHandle(t, h) ==
  /\ WorksOn(t, h, {"getattr", "unref"})
  /\ SameFhs(h) /\ SameFile(h, fhs[h])
  /\ fhs'[h].leaked = fhs[h].leaked /\ fhs'[h].owned = fhs[h].owned /\ fhs[h].ref_count > 0
  /\ Drops(t, h, fhs[h].view) /\ SameDisk /\ open_files' = open_files

LosesHandle(t, h) ==
  /\ WorksOn(t, h, {"chmod"})
  /\ SameFhs(h) /\ SameFile(h, fhs[h]) /\ fhs'[h].ref_count = fhs[h].ref_count
  /\ fhs'[h].leaked = fhs[h].leaked + 1 /\ fhs'[h].owned = fhs[h].owned
  /\ CallEnds(t) /\ SameDisk /\ open_files' = open_files

\* The first truncation, a later one, or none.
Truncation(h) ==
  /\ fhs[h] # NULL
  /\ SameFhs(h) /\ Counts(h, fhs[h])
  /\ fhs'[h] # NULL /\ fhs'[h].view = fhs[h].view /\ fhs'[h].trunc_fd = fhs[h].trunc_fd
  /\ fhs'[h].can_write = fhs[h].can_write
  /\ \/ fhs[h].trunc_fd # NULL /\ fhs[h].can_write
     \/ fhs'[h].truncated = fhs[h].truncated
  /\ inplace' => inplace \/ (fhs[h].truncated /\ fhs[h].trunc_fd = document)
  /\ document' = document /\ temps' = temps /\ author' = author /\ abandoned' = abandoned
  /\ open_files' = open_files

TruncatesFound(t, h) ==
  /\ WorksOn(t, h, {"truncate"}) /\ Truncation(h)
  /\ CallIs(t, "unref", call[t].view, h, call[t].tmp)

TruncatesOpen(h) == h \in Handles /\ fhs[h].owned /\ Truncation(h) /\ call' = call

Starts(t) ==
  /\ call[t] = NULL
  /\ fhs' = fhs /\ open_files' = open_files
  /\ document' = document /\ author' = author /\ inplace' = inplace /\ abandoned' = abandoned

StartsReading(t, view) ==
  Starts(t) /\ CallIs(t, "open_doc", view, NULL, NULL) /\ temps' = temps

StartsWriting(t, view, at) ==
  /\ Starts(t) /\ CallIs(t, at, view, NULL, NewFile)
  /\ FreeFiles # {} /\ temps' = temps \cup {NewFile} /\ view \in Writers

FindsHandle(t, h, at, view) ==
  /\ h \in Handles /\ fhs[h] # NULL /\ fhs[h] \in Fh /\ fhs[h].ref_count > 0
  /\ SameFhs(h) /\ SameFile(h, fhs[h])
  /\ fhs'[h].ref_count = fhs[h].ref_count + 1
  /\ fhs'[h].leaked = fhs[h].leaked /\ fhs'[h].owned = fhs[h].owned
  /\ call[t] = NULL /\ CallIs(t, at, view, h, NULL) /\ SameDisk /\ open_files' = open_files

Releases(t, h) ==
  /\ h \in Handles /\ fhs[h] # NULL /\ fhs[h] \in Fh /\ fhs[h].owned /\ call[t] = NULL
  /\ SameFhs(h) /\ SameFile(h, fhs[h]) /\ fhs[h].ref_count > 0
  /\ fhs'[h].leaked = fhs[h].leaked /\ fhs'[h].owned = FALSE
  /\ Drops(t, h, fhs[h].view) /\ SameDisk /\ open_files' = open_files

Writes(h) ==
  /\ fhs[h] # NULL /\ fhs[h].truncated
  /\ inplace' => inplace \/ (fhs[h].truncated /\ fhs[h].trunc_fd = document)
  /\ document' = document /\ temps' = temps /\ author' = author /\ abandoned' = abandoned
  /\ fhs' = fhs /\ open_files' = open_files /\ call' = call

Unlinks ==
  /\ document' = NULL /\ temps' = temps /\ author' = author /\ inplace' = inplace
  /\ abandoned' = abandoned
  /\ fhs' = fhs /\ open_files' = open_files /\ call' = call

LEMMA FinalizeStep ==
  ASSUME Base, NEW t \in Threads, xdp_fh_finalize(t)
  PROVE  OkNow /\ \E h \in Handles : Finalizes(t, h)
<1>1. WorksOn(t, call[t].fh, {"finalize"})
  BY Working DEF xdp_fh_finalize, Steps
<1>2. CallsOK' /\ CallEnds(t)
  BY Replies DEF xdp_fh_finalize, Base
<1>3. fhs' = [fhs EXCEPT ![call[t].fh] = NULL]
  BY DEF xdp_fh_finalize
<1>4. FhsOK' /\ fhs'[call[t].fh] = NULL /\ SameFhs(call[t].fh)
  BY <1>1, <1>3 DEF WorksOn, FhsOK, Base, SameFhs
<1>5. QED
  BY <1>1, <1>2, <1>4 DEF xdp_fh_finalize, WorksOn, OkNow, Finalizes

LEMMA DropStep ==
  ASSUME Base, NEW t \in Threads, GetattrHandle(t) \/ UnrefHandle(t)
  PROVE  OkNow /\ \E h \in Handles : DropsHandle(t, h)
<1> DEFINE h == call[t].fh
<1>1. WorksOn(t, h, {"getattr"}) \/ WorksOn(t, h, {"unref"})
  BY Working DEF GetattrHandle, UnrefHandle, Steps
<1>2. WorksOn(t, h, {"getattr", "unref"}) /\ WorksOn(t, h, Steps \ {"finalize"})
  BY <1>1 DEF WorksOn, Steps
<1>3. xdp_fh_unref(t, h, fhs[h]) /\ SameDisk /\ open_files' = open_files
  BY DEF GetattrHandle, UnrefHandle, disk, SameDisk
<1> HIDE DEF h
<1>4. fhs[h].ref_count > 0
  BY <1>2, HeldPositive
<1>5. /\ FhsOK' /\ CallsOK' /\ SameFhs(h) /\ SameFile(h, fhs[h]) /\ Drops(t, h, fhs[h].view)
      /\ fhs'[h].leaked = fhs[h].leaked /\ fhs'[h].owned = fhs[h].owned
  BY <1>2, <1>3, <1>4, Unrefs DEF WorksOn, Base
<1>6. QED
  BY <1>2, <1>3, <1>4, <1>5 DEF WorksOn, OkNow, DropsHandle

LEMMA ChmodStep ==
  ASSUME Base, NEW t \in Threads, ChmodHandle(t)
  PROVE  OkNow /\ \E h \in Handles : LosesHandle(t, h)
<1>1. WorksOn(t, call[t].fh, {"chmod"})
  BY Working DEF ChmodHandle, Steps
<1>2. CallsOK' /\ CallEnds(t)
  BY Replies DEF ChmodHandle, Base
<1>3. fhs' = [fhs EXCEPT ![call[t].fh].leaked = @ + 1] /\ SameDisk /\ open_files' = open_files
  BY DEF ChmodHandle, disk, SameDisk
<1>4. QED
  BY <1>1, <1>2, <1>3, Leaks DEF WorksOn, Base, OkNow, LosesHandle

LEMMA TruncatesFile ==
  ASSUME Base, NEW h \in Handles, fhs[h] # NULL,
         (fhs[h].can_write /\ xdp_fh_truncate_locked(h)) \/ UNCHANGED <<fhs, document, inplace>>,
         UNCHANGED <<temps, open_files, author, abandoned>>
  PROVE  FhsOK' /\ Truncation(h)
<1>1. FhsOK /\ fhs[h] \in Fh
  BY DEF Base, FhsOK
<1>2. CASE fhs[h].trunc_fd # NULL /\ ~fhs[h].truncated /\ fhs[h].can_write /\ xdp_fh_truncate_locked(h)
  <2>1. fhs' = [fhs EXCEPT ![h].truncated = TRUE] /\ inplace' = inplace /\ document' = document
    BY <1>2 DEF xdp_fh_truncate_locked
  <2>2. QED
    BY <1>1, <1>2, <2>1, Truncates DEF Truncation
<1>3. CASE \/ UNCHANGED <<fhs, document, inplace>>
           \/ ~(fhs[h].trunc_fd # NULL /\ ~fhs[h].truncated) /\ xdp_fh_truncate_locked(h)
  <2>1. fhs' = fhs /\ document' = document
    BY <1>3 DEF xdp_fh_truncate_locked
  <2>2. inplace' => inplace \/ (fhs[h].truncated /\ fhs[h].trunc_fd = document)
    BY <1>3, Zenon DEF xdp_fh_truncate_locked, WriteTo
  <2>3. FhsOK' /\ SameFhs(h) /\ SameFile(h, fhs[h]) /\ Counts(h, fhs[h])
    BY <1>1, <2>1 DEF FhsOK, SameFhs, SameFile, Counts
  <2>4. QED
    BY <2>1, <2>2, <2>3 DEF SameFile, Truncation
<1>4. QED
  BY <1>2, <1>3

LEMMA TruncateStep ==
  ASSUME Base, NEW t \in Threads, TruncateHandle(t)
  PROVE  OkNow /\ \E h \in Handles : TruncatesFound(t, h)
<1> DEFINE h == call[t].fh
<1>1. WorksOn(t, h, {"truncate"})
  BY Working DEF TruncateHandle, Steps
<1>2. call' = [call EXCEPT ![t].at = "unref"] /\ UNCHANGED <<temps, open_files, author, abandoned>>
  BY DEF TruncateHandle
<1>3. CallsOK' /\ CallIs(t, "unref", call[t].view, h, call[t].tmp)
  BY <1>1, <1>2, GoesOn DEF WorksOn, Base, Steps
<1>4. (fhs[h].can_write /\ xdp_fh_truncate_locked(h)) \/ UNCHANGED <<fhs, document, inplace>>
  BY DEF TruncateHandle
<1> HIDE DEF h
<1>5. FhsOK' /\ Truncation(h)
  BY <1>1, <1>2, <1>4, TruncatesFile DEF WorksOn
<1>6. QED
  BY <1>1, <1>2, <1>3, <1>5 DEF WorksOn, OkNow, TruncatesFound

LEMMA SetattrStep ==
  ASSUME Base, NEW h \in Handles, xdp_fuse_setattr_handle(h)
  PROVE  OkNow /\ TruncatesOpen(h)
<1>1. /\ fhs[h] # NULL /\ fhs[h].owned /\ call' = call
      /\ fhs[h].can_write /\ xdp_fh_truncate_locked(h)
      /\ UNCHANGED <<temps, open_files, author, abandoned>>
  BY DEF xdp_fuse_setattr_handle, Open
<1>2. FhsOK' /\ Truncation(h)
  BY <1>1, TruncatesFile
<1>3. QED
  BY <1>1, <1>2 DEF OkNow, TruncatesOpen, Base, CallsOK

LEMMA FillStep ==
  ASSUME Base, NEW t \in Threads, FillHandle(t)
  PROVE  OkNow /\ \E h \in Handles : FillsOwned(t, h) \/ FillsUnowned(t, h)
<1> DEFINE h == call[t].fh
           writes == call[t].view \in Writers \/ At(t, "create_fill")
           creates == At(t, "create_fill")
           fh == [fhs[h] EXCEPT !.can_write = writes, !.trunc_fd = call[t].tmp,
                                !.truncated = creates]
           mine == [fh EXCEPT !.owned = TRUE]
<1>1. WorksOn(t, h, {"open_fill"}) \/ WorksOn(t, h, {"create_fill"})
  BY Working DEF FillHandle, Steps
<1>2. WorksOn(t, h, {"open_fill", "create_fill"}) /\ WorksOn(t, h, Steps \ {"finalize"})
  BY <1>1 DEF WorksOn, Steps
<1>3. \/ fhs' = [fhs EXCEPT ![h] = mine] /\ Reply(t)
      \/ xdp_fh_unref(t, h, fh)
  BY DEF FillHandle
<1>4. SameDisk /\ open_files' = open_files
  BY DEF FillHandle, disk, SameDisk
<1>5. writes \in BOOLEAN /\ creates \in BOOLEAN /\ (creates => call[t].at = "create_fill")
  BY DEF At
<1>6. fhs[h] \in Fh /\ call[t].tmp \in Files \cup {NULL}
  BY <1>2, CallFields DEF WorksOn
<1> HIDE DEF h, writes, creates
<1>7. /\ fh \in Fh /\ fh.view = fhs[h].view /\ fh.trunc_fd = call[t].tmp /\ fh.truncated = creates
      /\ fh.ref_count = fhs[h].ref_count /\ fh.leaked = fhs[h].leaked /\ fh.owned = fhs[h].owned
      /\ fh.can_write = writes
  BY <1>5, <1>6 DEF Fh
<1>8. /\ mine \in Fh /\ mine.view = fh.view /\ mine.trunc_fd = fh.trunc_fd
      /\ mine.truncated = fh.truncated /\ mine.can_write = fh.can_write
      /\ mine.ref_count = fh.ref_count /\ mine.leaked = fh.leaked /\ mine.owned = TRUE
  <2> HIDE DEF fh
  <2>1. QED
    BY <1>7 DEF Fh
<1> HIDE DEF fh, mine
<1>9. fhs[h].ref_count > 0
  BY <1>2, HeldPositive
<1>10. CASE fhs' = [fhs EXCEPT ![h] = mine] /\ Reply(t)
  <2>1. FhsOK' /\ SameFhs(h) /\ SameFile(h, mine) /\ Counts(h, mine)
    BY <1>2, <1>8, <1>10, Sets DEF WorksOn, Base
  <2>2. CallsOK' /\ CallEnds(t)
    BY <1>10, Replies DEF Base
  <2>3. FillsOwned(t, h)
    BY <1>2, <1>4, <1>5, <1>7, <1>8, <1>9, <2>1, <2>2 DEF SameFile, Counts, FillsIn, FillsOwned
  <2>4. QED
    BY <1>2, <2>1, <2>2, <2>3 DEF WorksOn, OkNow
<1>11. CASE xdp_fh_unref(t, h, fh)
  <2>1. /\ FhsOK' /\ CallsOK' /\ SameFhs(h) /\ SameFile(h, fh) /\ Drops(t, h, fh.view)
        /\ fhs'[h].leaked = fh.leaked /\ fhs'[h].owned = fh.owned
    BY <1>2, <1>7, <1>9, <1>11, Unrefs DEF WorksOn, Base
  <2>2. FillsUnowned(t, h)
    BY <1>2, <1>4, <1>5, <1>7, <1>9, <2>1 DEF SameFile, FillsIn, FillsUnowned
  <2>3. QED
    BY <1>2, <2>1, <2>2 DEF WorksOn, OkNow
<1>12. QED
  BY <1>3, <1>10, <1>11

LEMMA AbandonStep ==
  ASSUME Base, NEW t \in Threads, At(t, "open_doc") \/ At(t, "create_doc"), Abandon(t)
  PROVE  OkNow /\ Abandons(t)
<1>1. CallsOK' /\ CallEnds(t)
  BY Replies DEF Abandon, Base
<1>2. call[t] # NULL /\ call[t].fh = NULL /\ call[t].at # "finalize" /\ call[t] \in Call
  BY DEF At, Base, Shaped, CallsShaped, CallsOK
<1>3. call[t].tmp \in Files \cup {NULL}
  BY <1>2, CallFields
<1>4. QED
  BY <1>1, <1>2, <1>3 DEF Abandon, Abandons, handles, Base, FhsOK, OkNow

LEMMA NewStep ==
  ASSUME Base, NEW t \in Threads, NEW at \in {"open_doc", "create_doc"}, At(t, at),
         NEW next \in {"open_fill", "create_fill"}, NEW h \in Handles, NEW fd \in Files,
         xdp_fh_new(h, call[t].view, fd), call' = [call EXCEPT ![t].at = next, ![t].fh = h]
  PROVE  OkNow /\ IsNew(t, h, at, next)
<1>1. call[t] # NULL /\ call[t].at = at /\ call[t].fh = NULL /\ call[t] \in Call
  BY DEF At, Base, CallsOK, Shaped, CallsShaped
<1>2. call[t].view \in Views
  BY <1>1, CallFields
<1>3. open_files' = <<h>> \o open_files
  BY DEF xdp_fh_new
<1>4. next \in Steps
  BY DEF Steps
<1>5. CallsOK' /\ CallIs(t, next, call[t].view, h, call[t].tmp)
  BY <1>1, <1>4, Goes DEF Base
<1>6. QED
  BY <1>1, <1>2, <1>3, <1>5, News DEF Base, IsNew, OkNow

LEMMA OpenDocumentStep ==
  ASSUME Base, NEW t \in Threads, OpenDocument(t)
  PROVE  OkNow /\ (Abandons(t) \/ \E h \in Handles : OpensHandle(t, h))
<1>1. At(t, "open_doc")
  BY DEF OpenDocument
<1>2. CASE Abandon(t)
  BY <1>1, <1>2, AbandonStep
<1>3. CASE ~Abandon(t)
  <2>1. PICK h \in Handles : /\ xdp_fh_new(h, call[t].view, document)
                             /\ call' = [call EXCEPT ![t].at = "open_fill", ![t].fh = h]
                             /\ document # NULL /\ SameDisk
    BY <1>3 DEF OpenDocument, disk, SameDisk
  <2>2. document \in Files
    BY <2>1 DEF Base, FilesOK
  <2>3. OkNow /\ IsNew(t, h, "open_doc", "open_fill")
    BY <1>1, <2>1, <2>2, NewStep
  <2>4. QED
    BY <2>1, <2>3 DEF OpensHandle
<1>4. QED
  BY <1>2, <1>3

LEMMA CreateDocumentStep ==
  ASSUME Base, NEW t \in Threads, CreateDocument(t)
  PROVE  OkNow /\ (Abandons(t) \/ \E h \in Handles : CreatesHandle(t, h))
<1>1. At(t, "create_doc")
  BY DEF CreateDocument
<1>2. CASE Abandon(t)
  BY <1>1, <1>2, AbandonStep
<1>3. CASE ~Abandon(t)
  <2>1. /\ FreeFiles # {} /\ document' = NewFile /\ author' = call[t].view
        /\ temps' = temps /\ inplace' = inplace /\ abandoned' = abandoned
    BY <1>3 DEF CreateDocument
  <2>2. PICK h \in Handles : /\ xdp_fh_new(h, call[t].view, NewFile)
                             /\ call' = [call EXCEPT ![t].at = "create_fill", ![t].fh = h]
    BY <1>3 DEF CreateDocument
  <2>3. NewFile \in Files
    BY <2>1, Free
  <2>4. OkNow /\ IsNew(t, h, "create_doc", "create_fill")
    BY <1>1, <2>2, <2>3, NewStep
  <2>5. QED
    BY <2>1, <2>4 DEF CreatesHandle
<1>4. QED
  BY <1>2, <1>3

LEMMA StartStep ==
  ASSUME Base, NEW t \in Threads, NEW view \in Views, NEW writing \in BOOLEAN,
         xdp_fuse_open(t, view, writing) \/ xdp_fuse_create(t, view)
  PROVE  OkNow /\ \/ StartsReading(t, view)
                  \/ \E at \in {"open_doc", "create_doc"} : StartsWriting(t, view, at)
<1>1. /\ fhs' = fhs /\ open_files' = open_files
      /\ document' = document /\ author' = author /\ inplace' = inplace /\ abandoned' = abandoned
  BY DEF xdp_fuse_open, xdp_fuse_create, handles
<1>2. CASE Begin(t, "open_doc", view, NULL, NULL) /\ temps' = temps
  <2>1. CallsOK' /\ call[t] = NULL /\ CallIs(t, "open_doc", view, NULL, NULL)
    BY <1>2, Begins DEF Steps, Base
  <2>2. QED
    BY <1>1, <1>2, <2>1 DEF Starts, StartsReading, OkNow, Base, FhsOK
<1>3. ASSUME NEW at \in {"open_doc", "create_doc"}, Begin(t, at, view, NULL, NewFile),
             FreeFiles # {}, temps' = temps \cup {NewFile}, view \in Writers
      PROVE  OkNow /\ StartsWriting(t, view, at)
  <2>1. NewFile \in Files /\ at \in Steps
    BY <1>3, Free DEF Steps
  <2>2. CallsOK' /\ call[t] = NULL /\ CallIs(t, at, view, NULL, NewFile)
    BY <1>3, <2>1, Begins DEF Base
  <2>3. QED
    BY <1>1, <1>3, <2>2 DEF Starts, StartsWriting, OkNow, Base, FhsOK
<1>4. QED
  BY <1>2, <1>3 DEF xdp_fuse_open, xdp_fuse_create

LEMMA ByPathStep ==
  ASSUME Base, NEW t \in Threads, NEW view \in Views, NEW at \in {"getattr", "truncate", "chmod"},
         ByPath(t, at, view)
  PROVE  OkNow /\ \E h \in Handles : FindsHandle(t, h, at, view)
<1>1. PICK h \in find_open_fh(view) : xdp_fh_ref(h) /\ Begin(t, at, view, h, NULL)
  BY DEF ByPath
<1>2. SameDisk /\ open_files' = open_files
  BY DEF ByPath, disk, SameDisk
<1>3. h \in Handles /\ fhs[h] # NULL /\ fhs[h].ref_count > 0
  BY Found DEF Base
<1>4. fhs[h] \in Fh
  BY <1>3 DEF Base, FhsOK
<1>5. at \in Steps
  BY DEF Steps
<1>6. CallsOK' /\ call[t] = NULL /\ CallIs(t, at, view, h, NULL)
  BY <1>1, <1>3, <1>5, Begins DEF Base
<1>7. QED
  BY <1>1, <1>2, <1>3, <1>4, <1>6, Refs DEF Base, OkNow, FindsHandle

LEMMA ReleaseStep ==
  ASSUME Base, NEW t \in Threads, NEW h \in Handles, xdp_fuse_release(t, h)
  PROVE  OkNow /\ Releases(t, h)
<1> DEFINE fh == [fhs[h] EXCEPT !.owned = FALSE]
<1>1. fhs[h] # NULL /\ fhs[h].owned /\ call[t] = NULL /\ SameDisk /\ open_files' = open_files
  BY DEF xdp_fuse_release, Open, disk, SameDisk
<1>2. fhs[h] \in Fh
  BY <1>1 DEF Base, FhsOK
<1>3. /\ fh \in Fh /\ fh.view = fhs[h].view /\ fh.trunc_fd = fhs[h].trunc_fd
      /\ fh.truncated = fhs[h].truncated /\ fh.can_write = fhs[h].can_write
      /\ fh.ref_count = fhs[h].ref_count /\ fh.leaked = fhs[h].leaked /\ fh.owned = FALSE
  BY <1>2 DEF Fh
<1>4. xdp_fh_unref(t, h, fh)
  BY DEF xdp_fuse_release
<1> HIDE DEF fh
<1>5. fhs[h].ref_count > 0
  BY <1>1, Positive DEF Base, Counted
<1>6. /\ FhsOK' /\ CallsOK' /\ SameFhs(h) /\ SameFile(h, fh) /\ Drops(t, h, fh.view)
      /\ fhs'[h].leaked = fh.leaked /\ fhs'[h].owned = fh.owned
  BY <1>3, <1>4, <1>5, Unrefs DEF Base
<1>7. QED
  BY <1>1, <1>2, <1>3, <1>5, <1>6 DEF SameFile, OkNow, Releases

LEMMA WriteStep ==
  ASSUME Base, NEW h \in Handles, xdp_fuse_write(h) PROVE OkNow /\ Writes(h)
<1>1. inplace' => inplace \/ (fhs[h].truncated /\ fhs[h].trunc_fd = document)
  BY Zenon DEF xdp_fuse_write, WriteTo
<1>2. QED
  BY <1>1 DEF xdp_fuse_write, Open, handles, Base, FhsOK, CallsOK, OkNow, Writes

LEMMA UnlinkStep ==
  ASSUME Base, NEW view \in Views, xdp_fuse_unlink(view) PROVE OkNow /\ Unlinks
BY DEF xdp_fuse_unlink, handles, Base, FhsOK, CallsOK, OkNow, Unlinks

Step ==
  \/ UNCHANGED vars
  \/ \E t \in Threads :
       \/ Abandons(t)
       \/ \E view \in Views : \/ StartsReading(t, view)
                              \/ \E at \in {"open_doc", "create_doc"} : StartsWriting(t, view, at)
       \/ \E h \in Handles :
            \/ Finalizes(t, h) \/ OpensHandle(t, h) \/ CreatesHandle(t, h)
            \/ FillsOwned(t, h) \/ FillsUnowned(t, h)
            \/ DropsHandle(t, h) \/ LosesHandle(t, h) \/ TruncatesFound(t, h) \/ Releases(t, h)
            \/ \E view \in Views, at \in {"getattr", "truncate", "chmod"} :
                 FindsHandle(t, h, at, view)
  \/ \E h \in Handles : TruncatesOpen(h) \/ Writes(h)
  \/ Unlinks

LEMMA Detailed == ASSUME Base, [Next]_vars PROVE OkNow /\ Step
<1>1. CASE UNCHANGED vars
  BY <1>1 DEF vars, Base, FhsOK, CallsOK, OkNow, Step
<1>2. ASSUME NEW t \in Threads, Handler(t) PROVE OkNow /\ Step
  BY <1>2, FinalizeStep, OpenDocumentStep, CreateDocumentStep, FillStep, DropStep, TruncateStep,
     ChmodStep DEF Handler, Step
<1>3. ASSUME NEW t \in Threads, Request(t) PROVE OkNow /\ Step
  <2>1. CASE OpenFails(t)
    BY <1>1, <2>1 DEF OpenFails
  <2>2. ASSUME NEW view \in Views, NEW writing \in BOOLEAN, xdp_fuse_open(t, view, writing)
        PROVE  OkNow /\ Step
    BY <2>2, StartStep DEF Step
  <2>3. ASSUME NEW view \in Views, xdp_fuse_create(t, view) PROVE OkNow /\ Step
    <3>1. TRUE \in BOOLEAN
      OBVIOUS
    <3>2. QED
      BY <2>3, <3>1, StartStep DEF Step
  <2>4. ASSUME NEW view \in Views, NEW at \in {"getattr", "truncate", "chmod"}, ByPath(t, at, view)
        PROVE  OkNow /\ Step
    BY <2>4, ByPathStep DEF Step
  <2>5. ASSUME NEW h \in Handles, xdp_fuse_release(t, h) PROVE OkNow /\ Step
    BY <2>5, ReleaseStep DEF Step
  <2>6. QED
    BY <1>3, <2>1, <2>2, <2>3, <2>4, <2>5 DEF Request
<1>4. ASSUME NEW h \in Handles, xdp_fuse_write(h) \/ xdp_fuse_setattr_handle(h)
      PROVE  OkNow /\ Step
  BY <1>4, WriteStep, SetattrStep DEF Step
<1>5. ASSUME NEW view \in Views, xdp_fuse_unlink(view) PROVE OkNow /\ Step
  BY <1>5, UnlinkStep DEF Step
<1>6. QED
  BY <1>1, <1>2, <1>3, <1>4, <1>5 DEF Next

-----------------------------------------------------------------------------
(* Every step keeps the parts of the invariant.                            *)

\* The temporary files have the owners they had.
SameOwners ==
  /\ \A h \in Handles : TruncFd(h)' = TruncFd(h)
  /\ \A t \in Threads : Tmp(t)' = Tmp(t)

\* A step of t changes the holders by t at most.
LEMMA HoldersChange ==
  ASSUME NEW t \in Threads, SameCalls(t), NEW g
  PROVE  /\ (t \in Holders(g)' <=> t \in Holders(g))
              => Cardinality(Holders(g)') = Cardinality(Holders(g))
         /\ t \in Holders(g) /\ t \notin Holders(g)'
              => Cardinality(Holders(g)') = Cardinality(Holders(g)) - 1
         /\ t \notin Holders(g) /\ t \in Holders(g)'
              => Cardinality(Holders(g)') = Cardinality(Holders(g)) + 1
<1> DEFINE H == Holders(g)
           N == Holders(g)'
<1>1. \A u \in Threads : u # t => (u \in N <=> u \in H)
  BY DEF SameCalls, Holders
<1>2. H \subseteq Threads /\ N \subseteq Threads
  BY DEF Holders
<1>3. IsFiniteSet(H) /\ Cardinality(H) \in Nat
  BY HoldersFinite
<1> HIDE DEF H, N
<1>4. CASE t \in N <=> t \in H
  <2>1. N = H
    BY <1>1, <1>2, <1>4
  <2>2. QED
    BY <1>4, <2>1 DEF H, N
<1>5. CASE t \in H /\ t \notin N
  <2>1. N = H \ {t}
    BY <1>1, <1>2, <1>5
  <2>2. Cardinality(N) = Cardinality(H) - 1
    BY <1>3, <1>5, <2>1, FS_RemoveElement
  <2>3. QED
    BY <1>5, <2>2 DEF H, N
<1>6. CASE t \notin H /\ t \in N
  <2>1. N = H \cup {t}
    BY <1>1, <1>2, <1>6
  <2>2. Cardinality(N) = Cardinality(H) + 1
    BY <1>3, <1>6, <2>1, FS_AddElement
  <2>3. QED
    BY <1>6, <2>2 DEF H, N
<1>7. QED
  BY <1>4, <1>5, <1>6

\* What takes the last reference is alone with the handle.
LEMMA LastHolder ==
  ASSUME FhsOK, RefsAreHolders, FinalIsLast, NEW h \in Handles, fhs[h] # NULL,
         fhs[h].ref_count = 1, NEW t \in Holders(h)
  PROVE  \A u \in Threads : call[u] # NULL /\ u # t => call[u].fh # h
<1>1. /\ fhs[h].leaked \in Nat
      /\ 1 = Cardinality(Holders(h)) + fhs[h].leaked + (IF fhs[h].owned THEN 1 ELSE 0)
  BY FhTypes DEF RefsAreHolders
<1>2. IsFiniteSet(Holders(h)) /\ Cardinality(Holders(h)) \in Nat
  BY HoldersFinite
<1>3. Cardinality(Holders(h)) <= 1
  BY <1>1, <1>2
<1>4. IsFiniteSet(Holders(h) \ {t}) /\ Cardinality(Holders(h) \ {t}) = Cardinality(Holders(h)) - 1
  BY <1>2, FS_RemoveElement
<1>5. Cardinality(Holders(h) \ {t}) = 0
  BY <1>2, <1>3, <1>4, FS_CardinalityType
<1>6. Holders(h) \subseteq {t}
  BY <1>4, <1>5, FS_EmptySet
<1>7. QED
  BY <1>6 DEF Holders, FinalIsLast, At

LEMMA LastOwner ==
  ASSUME FhsOK, RefsAreHolders, FinalIsLast, NEW h \in Handles, fhs[h] # NULL,
         fhs[h].ref_count = 1, fhs[h].owned
  PROVE  \A u \in Threads : call[u] # NULL => call[u].fh # h
<1>1. /\ fhs[h].leaked \in Nat
      /\ 1 = Cardinality(Holders(h)) + fhs[h].leaked + (IF fhs[h].owned THEN 1 ELSE 0)
  BY FhTypes DEF RefsAreHolders
<1>2. IsFiniteSet(Holders(h)) /\ Cardinality(Holders(h)) \in Nat
  BY HoldersFinite
<1>3. Cardinality(Holders(h)) = 0
  BY <1>1, <1>2
<1>4. Holders(h) = {}
  BY <1>2, <1>3, FS_EmptySet
<1>5. QED
  BY <1>4 DEF Holders, FinalIsLast, At

LEMMA NewListed ==
  ASSUME ListOK, NEW h \in Handles, open_files' = <<h>> \o open_files
  PROVE  open_files' \in Seq(Handles) /\ IsCons(open_files', h, open_files)
<1> DEFINE one == <<h>>
<1>1. one \in Seq(Handles) /\ Len(one) = 1 /\ one[1] = h
  OBVIOUS
<1>2. open_files' = one \o open_files /\ open_files \in Seq(Handles)
  BY DEF ListOK
<1> HIDE DEF one
<1>3. /\ open_files' \in Seq(Handles) /\ Len(open_files') = 1 + Len(open_files)
      /\ \A i \in 1 .. Len(one) + Len(open_files) :
           open_files'[i] = IF i <= Len(one) THEN one[i] ELSE open_files[i - Len(one)]
  BY <1>1, <1>2, ConcatProperties
<1>4. QED
  BY <1>1, <1>2, <1>3 DEF IsCons

LEMMA FilesStep ==
  ASSUME FilesOK, FhsOK, FhsShaped, Step
  PROVE  FilesOK'
<1>1. CASE UNCHANGED vars
  BY <1>1, Free, FhTypes, FilesAreNat DEF vars, SameFhs, SameCalls, FilesOK, FhsShaped
<1>2. ASSUME NEW t \in Threads, Abandons(t) PROVE FilesOK'
  BY <1>2, Free, FhTypes, FilesAreNat DEF Abandons, CallEnds, SameFhs, SameCalls, FilesOK,
    FhsShaped
<1>3. ASSUME NEW t \in Threads, NEW view \in Views, StartsReading(t, view) PROVE FilesOK'
  BY <1>3, Free, FhTypes, FilesAreNat DEF StartsReading, Starts, CallIs, SameFhs, SameCalls,
    FilesOK, FhsShaped
<1>4. ASSUME NEW t \in Threads, NEW view \in Views, NEW at \in {"open_doc", "create_doc"},
             StartsWriting(t, view, at)
      PROVE  FilesOK'
  BY <1>4, Free, FhTypes, FilesAreNat DEF StartsWriting, Starts, CallIs, SameFhs, SameCalls,
    FilesOK, FhsShaped
<1>5. ASSUME NEW t \in Threads, NEW h \in Handles, Finalizes(t, h) PROVE FilesOK'
  BY <1>5, Free, FhTypes, FilesAreNat DEF Finalizes, WorksOn, CallEnds, RenameTemp, UnlinkTemp,
    SameFhs, SameCalls, FilesOK, FhsShaped
<1>6. ASSUME NEW t \in Threads, NEW h \in Handles, OpensHandle(t, h) PROVE FilesOK'
  BY <1>6, Free, FhTypes, FilesAreNat DEF OpensHandle, IsNew, CallIs, SameDisk, SameFhs,
    SameCalls, FilesOK, FhsShaped
<1>7. ASSUME NEW t \in Threads, NEW h \in Handles, CreatesHandle(t, h) PROVE FilesOK'
  BY <1>7, Free, FhTypes, FilesAreNat DEF CreatesHandle, IsNew, CallIs, SameFhs, SameCalls,
    FilesOK, FhsShaped
<1>8. ASSUME NEW t \in Threads, NEW h \in Handles, FillsOwned(t, h) PROVE FilesOK'
  BY <1>8, Free, FhTypes, FilesAreNat DEF FillsOwned, FillsIn, WorksOn, CallEnds, SameDisk,
    SameFhs, SameCalls, FilesOK, FhsShaped
<1>9. ASSUME NEW t \in Threads, NEW h \in Handles, FillsUnowned(t, h) PROVE FilesOK'
  BY <1>9, Free, FhTypes, FilesAreNat DEF FillsUnowned, FillsIn, WorksOn, Drops, CallEnds,
    CallIs, SameDisk, SameFhs, SameCalls, FilesOK, FhsShaped
<1>10. ASSUME NEW t \in Threads, NEW h \in Handles, DropsHandle(t, h) PROVE FilesOK'
  BY <1>10, Free, FhTypes, FilesAreNat DEF DropsHandle, WorksOn, SameFile, Drops, CallIs,
    CallEnds, SameDisk, SameFhs, SameCalls, FilesOK, FhsShaped
<1>11. ASSUME NEW t \in Threads, NEW h \in Handles, LosesHandle(t, h) PROVE FilesOK'
  BY <1>11, Free, FhTypes, FilesAreNat DEF LosesHandle, WorksOn, SameFile, CallEnds, SameDisk,
    SameFhs, SameCalls, FilesOK, FhsShaped
<1>12. ASSUME NEW t \in Threads, NEW h \in Handles, TruncatesFound(t, h) PROVE FilesOK'
  BY <1>12, Free, FhTypes, FilesAreNat DEF TruncatesFound, Truncation, WorksOn, Counts, CallIs,
    SameFhs, SameCalls, FilesOK, FhsShaped
<1>13. ASSUME NEW t \in Threads, NEW h \in Handles, Releases(t, h) PROVE FilesOK'
  BY <1>13, Free, FhTypes, FilesAreNat DEF Releases, SameFile, Drops, CallIs, CallEnds,
    SameDisk, SameFhs, SameCalls, FilesOK, FhsShaped
<1>14. ASSUME NEW t \in Threads, NEW h \in Handles, NEW view \in Views, NEW at \in {"getattr", "truncate", "chmod"},
             FindsHandle(t, h, at, view)
      PROVE  FilesOK'
  BY <1>14, Free, FhTypes, FilesAreNat DEF FindsHandle, SameFile, CallIs, SameDisk, SameFhs,
    SameCalls, FilesOK, FhsShaped
<1>15. ASSUME NEW h \in Handles, TruncatesOpen(h) PROVE FilesOK'
  BY <1>15, Free, FhTypes, FilesAreNat DEF TruncatesOpen, Truncation, Counts, SameFhs,
    SameCalls, FilesOK, FhsShaped
<1>16. ASSUME NEW h \in Handles, Writes(h) PROVE FilesOK'
  BY <1>16, Free, FhTypes, FilesAreNat DEF Writes, SameFhs, SameCalls, FilesOK, FhsShaped
<1>17. CASE Unlinks
  BY <1>17, Free, FhTypes, FilesAreNat DEF Unlinks, SameFhs, SameCalls, FilesOK, FhsShaped
<1>18. QED
  BY <1>1, <1>2, <1>3, <1>4, <1>5, <1>6, <1>7, <1>8, <1>9, <1>10, <1>11, <1>12, <1>13, <1>14,
    <1>15, <1>16, <1>17 DEF Step

LEMMA FhsShapedStep ==
  ASSUME FhsShaped, FillsFresh, CallsShaped, Step
  PROVE  FhsShaped'
<1>1. CASE UNCHANGED vars
  BY <1>1 DEF vars, SameFhs, SameCalls, FhsShaped, CallsShaped, FillsFresh, Fills, At
<1>2. ASSUME NEW t \in Threads, Abandons(t) PROVE FhsShaped'
  BY <1>2 DEF Abandons, CallEnds, SameFhs, SameCalls, FhsShaped, CallsShaped, FillsFresh, Fills,
    At
<1>3. ASSUME NEW t \in Threads, NEW view \in Views, StartsReading(t, view) PROVE FhsShaped'
  BY <1>3 DEF StartsReading, Starts, CallIs, SameFhs, SameCalls, FhsShaped, CallsShaped,
    FillsFresh, Fills, At
<1>4. ASSUME NEW t \in Threads, NEW view \in Views, NEW at \in {"open_doc", "create_doc"},
             StartsWriting(t, view, at)
      PROVE  FhsShaped'
  BY <1>4 DEF StartsWriting, Starts, CallIs, SameFhs, SameCalls, FhsShaped, CallsShaped,
    FillsFresh, Fills, At
<1>5. ASSUME NEW t \in Threads, NEW h \in Handles, Finalizes(t, h) PROVE FhsShaped'
  BY <1>5 DEF Finalizes, WorksOn, CallEnds, RenameTemp, UnlinkTemp, SameFhs, SameCalls,
    FhsShaped, CallsShaped, FillsFresh, Fills, At
<1>6. ASSUME NEW t \in Threads, NEW h \in Handles, OpensHandle(t, h) PROVE FhsShaped'
  BY <1>6 DEF OpensHandle, IsNew, CallIs, SameDisk, SameFhs, SameCalls, FhsShaped, CallsShaped,
    FillsFresh, Fills, At
<1>7. ASSUME NEW t \in Threads, NEW h \in Handles, CreatesHandle(t, h) PROVE FhsShaped'
  BY <1>7 DEF CreatesHandle, IsNew, CallIs, SameFhs, SameCalls, FhsShaped, CallsShaped,
    FillsFresh, Fills, At
<1>8. ASSUME NEW t \in Threads, NEW h \in Handles, FillsOwned(t, h) PROVE FhsShaped'
  BY <1>8 DEF FillsOwned, FillsIn, WorksOn, CallEnds, SameDisk, SameFhs, SameCalls, FhsShaped,
    CallsShaped, FillsFresh, Fills, At
<1>9. ASSUME NEW t \in Threads, NEW h \in Handles, FillsUnowned(t, h) PROVE FhsShaped'
  BY <1>9 DEF FillsUnowned, FillsIn, WorksOn, Drops, CallEnds, CallIs, SameDisk, SameFhs,
    SameCalls, FhsShaped, CallsShaped, FillsFresh, Fills, At
<1>10. ASSUME NEW t \in Threads, NEW h \in Handles, DropsHandle(t, h) PROVE FhsShaped'
  BY <1>10 DEF DropsHandle, WorksOn, SameFile, Drops, CallIs, CallEnds, SameDisk, SameFhs,
    SameCalls, FhsShaped, CallsShaped, FillsFresh, Fills, At
<1>11. ASSUME NEW t \in Threads, NEW h \in Handles, LosesHandle(t, h) PROVE FhsShaped'
  BY <1>11 DEF LosesHandle, WorksOn, SameFile, CallEnds, SameDisk, SameFhs, SameCalls,
    FhsShaped, CallsShaped, FillsFresh, Fills, At
<1>12. ASSUME NEW t \in Threads, NEW h \in Handles, TruncatesFound(t, h) PROVE FhsShaped'
  BY <1>12 DEF TruncatesFound, Truncation, WorksOn, Counts, CallIs, SameFhs, SameCalls,
    FhsShaped, CallsShaped, FillsFresh, Fills, At
<1>13. ASSUME NEW t \in Threads, NEW h \in Handles, Releases(t, h) PROVE FhsShaped'
  BY <1>13 DEF Releases, SameFile, Drops, CallIs, CallEnds, SameDisk, SameFhs, SameCalls,
    FhsShaped, CallsShaped, FillsFresh, Fills, At
<1>14. ASSUME NEW t \in Threads, NEW h \in Handles, NEW view \in Views, NEW at \in {"getattr", "truncate", "chmod"},
             FindsHandle(t, h, at, view)
      PROVE  FhsShaped'
  BY <1>14 DEF FindsHandle, SameFile, CallIs, SameDisk, SameFhs, SameCalls, FhsShaped,
    CallsShaped, FillsFresh, Fills, At
<1>15. ASSUME NEW h \in Handles, TruncatesOpen(h) PROVE FhsShaped'
  BY <1>15 DEF TruncatesOpen, Truncation, Counts, SameFhs, SameCalls, FhsShaped, CallsShaped,
    FillsFresh, Fills, At
<1>16. ASSUME NEW h \in Handles, Writes(h) PROVE FhsShaped'
  BY <1>16 DEF Writes, SameFhs, SameCalls, FhsShaped, CallsShaped, FillsFresh, Fills, At
<1>17. CASE Unlinks
  BY <1>17 DEF Unlinks, SameFhs, SameCalls, FhsShaped, CallsShaped, FillsFresh, Fills, At
<1>18. QED
  BY <1>1, <1>2, <1>3, <1>4, <1>5, <1>6, <1>7, <1>8, <1>9, <1>10, <1>11, <1>12, <1>13, <1>14,
    <1>15, <1>16, <1>17 DEF Step

LEMMA CallsShapedStep ==
  ASSUME CallsShaped, Step
  PROVE  CallsShaped'
<1>1. CASE UNCHANGED vars
  BY <1>1, Free, Nulls DEF vars, SameFhs, SameCalls, CallsShaped
<1>2. ASSUME NEW t \in Threads, Abandons(t) PROVE CallsShaped'
  BY <1>2, Free, Nulls DEF Abandons, CallEnds, SameFhs, SameCalls, CallsShaped
<1>3. ASSUME NEW t \in Threads, NEW view \in Views, StartsReading(t, view) PROVE CallsShaped'
  BY <1>3, Free, Nulls DEF StartsReading, Starts, CallIs, SameFhs, SameCalls, CallsShaped
<1>4. ASSUME NEW t \in Threads, NEW view \in Views, NEW at \in {"open_doc", "create_doc"},
             StartsWriting(t, view, at)
      PROVE  CallsShaped'
  BY <1>4, Free, Nulls DEF StartsWriting, Starts, CallIs, SameFhs, SameCalls, CallsShaped
<1>5. ASSUME NEW t \in Threads, NEW h \in Handles, Finalizes(t, h) PROVE CallsShaped'
  BY <1>5, Free, Nulls DEF Finalizes, WorksOn, CallEnds, RenameTemp, UnlinkTemp, SameFhs,
    SameCalls, CallsShaped
<1>6. ASSUME NEW t \in Threads, NEW h \in Handles, OpensHandle(t, h) PROVE CallsShaped'
  BY <1>6, Free, Nulls DEF OpensHandle, IsNew, CallIs, SameDisk, SameFhs, SameCalls, CallsShaped
<1>7. ASSUME NEW t \in Threads, NEW h \in Handles, CreatesHandle(t, h) PROVE CallsShaped'
  BY <1>7, Free, Nulls DEF CreatesHandle, IsNew, CallIs, SameFhs, SameCalls, CallsShaped
<1>8. ASSUME NEW t \in Threads, NEW h \in Handles, FillsOwned(t, h) PROVE CallsShaped'
  BY <1>8, Free, Nulls DEF FillsOwned, FillsIn, WorksOn, CallEnds, SameDisk, SameFhs, SameCalls,
    CallsShaped
<1>9. ASSUME NEW t \in Threads, NEW h \in Handles, FillsUnowned(t, h) PROVE CallsShaped'
  BY <1>9, Free, Nulls DEF FillsUnowned, FillsIn, WorksOn, Drops, CallEnds, CallIs, SameDisk,
    SameFhs, SameCalls, CallsShaped
<1>10. ASSUME NEW t \in Threads, NEW h \in Handles, DropsHandle(t, h) PROVE CallsShaped'
  BY <1>10, Free, Nulls DEF DropsHandle, WorksOn, SameFile, Drops, CallIs, CallEnds, SameDisk,
    SameFhs, SameCalls, CallsShaped
<1>11. ASSUME NEW t \in Threads, NEW h \in Handles, LosesHandle(t, h) PROVE CallsShaped'
  BY <1>11, Free, Nulls DEF LosesHandle, WorksOn, SameFile, CallEnds, SameDisk, SameFhs,
    SameCalls, CallsShaped
<1>12. ASSUME NEW t \in Threads, NEW h \in Handles, TruncatesFound(t, h) PROVE CallsShaped'
  BY <1>12, Free, Nulls DEF TruncatesFound, Truncation, WorksOn, Counts, CallIs, SameFhs,
    SameCalls, CallsShaped
<1>13. ASSUME NEW t \in Threads, NEW h \in Handles, Releases(t, h) PROVE CallsShaped'
  BY <1>13, Free, Nulls DEF Releases, SameFile, Drops, CallIs, CallEnds, SameDisk, SameFhs,
    SameCalls, CallsShaped
<1>14. ASSUME NEW t \in Threads, NEW h \in Handles, NEW view \in Views, NEW at \in {"getattr", "truncate", "chmod"},
             FindsHandle(t, h, at, view)
      PROVE  CallsShaped'
  BY <1>14, Free, Nulls DEF FindsHandle, SameFile, CallIs, SameDisk, SameFhs, SameCalls,
    CallsShaped
<1>15. ASSUME NEW h \in Handles, TruncatesOpen(h) PROVE CallsShaped'
  BY <1>15, Free, Nulls DEF TruncatesOpen, Truncation, Counts, SameFhs, SameCalls, CallsShaped
<1>16. ASSUME NEW h \in Handles, Writes(h) PROVE CallsShaped'
  BY <1>16, Free, Nulls DEF Writes, SameFhs, SameCalls, CallsShaped
<1>17. CASE Unlinks
  BY <1>17, Free, Nulls DEF Unlinks, SameFhs, SameCalls, CallsShaped
<1>18. QED
  BY <1>1, <1>2, <1>3, <1>4, <1>5, <1>6, <1>7, <1>8, <1>9, <1>10, <1>11, <1>12, <1>13, <1>14,
    <1>15, <1>16, <1>17 DEF Step

LEMMA HeldStep ==
  ASSUME CallsOK, Held, FinalIsLast, Step
  PROVE  Held'
<1>1. CASE UNCHANGED vars
  BY <1>1, CallTypes, Nulls DEF vars, SameFhs, SameCalls, Held, FinalIsLast, At
<1>2. ASSUME NEW t \in Threads, Abandons(t) PROVE Held'
  BY <1>2, CallTypes, Nulls DEF Abandons, CallEnds, SameFhs, SameCalls, Held, FinalIsLast, At
<1>3. ASSUME NEW t \in Threads, NEW view \in Views, StartsReading(t, view) PROVE Held'
  BY <1>3, CallTypes, Nulls DEF StartsReading, Starts, CallIs, SameFhs, SameCalls, Held,
    FinalIsLast, At
<1>4. ASSUME NEW t \in Threads, NEW view \in Views, NEW at \in {"open_doc", "create_doc"},
             StartsWriting(t, view, at)
      PROVE  Held'
  BY <1>4, CallTypes, Nulls DEF StartsWriting, Starts, CallIs, SameFhs, SameCalls, Held,
    FinalIsLast, At
<1>5. ASSUME NEW t \in Threads, NEW h \in Handles, Finalizes(t, h) PROVE Held'
  BY <1>5, CallTypes, Nulls DEF Finalizes, WorksOn, CallEnds, RenameTemp, UnlinkTemp, SameFhs,
    SameCalls, Held, FinalIsLast, At
<1>6. ASSUME NEW t \in Threads, NEW h \in Handles, OpensHandle(t, h) PROVE Held'
  BY <1>6, CallTypes, Nulls DEF OpensHandle, IsNew, CallIs, SameDisk, SameFhs, SameCalls, Held,
    FinalIsLast, At
<1>7. ASSUME NEW t \in Threads, NEW h \in Handles, CreatesHandle(t, h) PROVE Held'
  BY <1>7, CallTypes, Nulls DEF CreatesHandle, IsNew, CallIs, SameFhs, SameCalls, Held,
    FinalIsLast, At
<1>8. ASSUME NEW t \in Threads, NEW h \in Handles, FillsOwned(t, h) PROVE Held'
  BY <1>8, CallTypes, Nulls DEF FillsOwned, FillsIn, WorksOn, CallEnds, SameDisk, SameFhs,
    SameCalls, Held, FinalIsLast, At
<1>9. ASSUME NEW t \in Threads, NEW h \in Handles, FillsUnowned(t, h) PROVE Held'
  BY <1>9, CallTypes, Nulls DEF FillsUnowned, FillsIn, WorksOn, Drops, CallEnds, CallIs,
    SameDisk, SameFhs, SameCalls, Held, FinalIsLast, At
<1>10. ASSUME NEW t \in Threads, NEW h \in Handles, DropsHandle(t, h) PROVE Held'
  BY <1>10, CallTypes, Nulls DEF DropsHandle, WorksOn, SameFile, Drops, CallIs, CallEnds,
    SameDisk, SameFhs, SameCalls, Held, FinalIsLast, At
<1>11. ASSUME NEW t \in Threads, NEW h \in Handles, LosesHandle(t, h) PROVE Held'
  BY <1>11, CallTypes, Nulls DEF LosesHandle, WorksOn, SameFile, CallEnds, SameDisk, SameFhs,
    SameCalls, Held, FinalIsLast, At
<1>12. ASSUME NEW t \in Threads, NEW h \in Handles, TruncatesFound(t, h) PROVE Held'
  BY <1>12, CallTypes, Nulls DEF TruncatesFound, Truncation, WorksOn, Counts, CallIs, SameFhs,
    SameCalls, Held, FinalIsLast, At
<1>13. ASSUME NEW t \in Threads, NEW h \in Handles, Releases(t, h) PROVE Held'
  BY <1>13, CallTypes, Nulls DEF Releases, SameFile, Drops, CallIs, CallEnds, SameDisk, SameFhs,
    SameCalls, Held, FinalIsLast, At
<1>14. ASSUME NEW t \in Threads, NEW h \in Handles, NEW view \in Views, NEW at \in {"getattr", "truncate", "chmod"},
             FindsHandle(t, h, at, view)
      PROVE  Held'
  BY <1>14, CallTypes, Nulls DEF FindsHandle, SameFile, CallIs, SameDisk, SameFhs, SameCalls,
    Held, FinalIsLast, At
<1>15. ASSUME NEW h \in Handles, TruncatesOpen(h) PROVE Held'
  BY <1>15, CallTypes, Nulls DEF TruncatesOpen, Truncation, Counts, SameFhs, SameCalls, Held,
    FinalIsLast, At
<1>16. ASSUME NEW h \in Handles, Writes(h) PROVE Held'
  BY <1>16, CallTypes, Nulls DEF Writes, SameFhs, SameCalls, Held, FinalIsLast, At
<1>17. CASE Unlinks
  BY <1>17, CallTypes, Nulls DEF Unlinks, SameFhs, SameCalls, Held, FinalIsLast, At
<1>18. QED
  BY <1>1, <1>2, <1>3, <1>4, <1>5, <1>6, <1>7, <1>8, <1>9, <1>10, <1>11, <1>12, <1>13, <1>14,
    <1>15, <1>16, <1>17 DEF Step

LEMMA FillsFreshStep ==
  ASSUME CallsOK, FillsFresh, CallsShaped, Held, FinalIsLast, Step
  PROVE  FillsFresh'
<1>1. CASE UNCHANGED vars
  BY <1>1, CallTypes, Nulls DEF vars, SameFhs, SameCalls, FillsFresh, CallsShaped, Held,
    FinalIsLast, At, Fills
<1>2. ASSUME NEW t \in Threads, Abandons(t) PROVE FillsFresh'
  BY <1>2, CallTypes, Nulls DEF Abandons, CallEnds, SameFhs, SameCalls, FillsFresh, CallsShaped,
    Held, FinalIsLast, At, Fills
<1>3. ASSUME NEW t \in Threads, NEW view \in Views, StartsReading(t, view) PROVE FillsFresh'
  BY <1>3, CallTypes, Nulls DEF StartsReading, Starts, CallIs, SameFhs, SameCalls, FillsFresh,
    CallsShaped, Held, FinalIsLast, At, Fills
<1>4. ASSUME NEW t \in Threads, NEW view \in Views, NEW at \in {"open_doc", "create_doc"},
             StartsWriting(t, view, at)
      PROVE  FillsFresh'
  BY <1>4, CallTypes, Nulls DEF StartsWriting, Starts, CallIs, SameFhs, SameCalls, FillsFresh,
    CallsShaped, Held, FinalIsLast, At, Fills
<1>5. ASSUME NEW t \in Threads, NEW h \in Handles, Finalizes(t, h) PROVE FillsFresh'
  BY <1>5, CallTypes, Nulls DEF Finalizes, WorksOn, CallEnds, RenameTemp, UnlinkTemp, SameFhs,
    SameCalls, FillsFresh, CallsShaped, Held, FinalIsLast, At, Fills
<1>6. ASSUME NEW t \in Threads, NEW h \in Handles, OpensHandle(t, h) PROVE FillsFresh'
  BY <1>6, CallTypes, Nulls DEF OpensHandle, IsNew, CallIs, SameDisk, SameFhs, SameCalls,
    FillsFresh, CallsShaped, Held, FinalIsLast, At, Fills
<1>7. ASSUME NEW t \in Threads, NEW h \in Handles, CreatesHandle(t, h) PROVE FillsFresh'
  <2>1. /\ \A u \in Threads \ {t} : call[u] # NULL => call[u].fh # h
        /\ \A u \in Threads \ {t} : call'[u] = call[u] /\ (call[u] # NULL /\ call[u].fh # NULL => fhs'[call[u].fh] = fhs[call[u].fh])
    BY <1>7, CallTypes, Nulls DEF CreatesHandle, IsNew, CallIs, SameFhs, SameCalls, Held
  <2>2. QED
    BY <1>7, <2>1 DEF CreatesHandle, IsNew, CallIs, FillsFresh, CallsShaped, At, Fills
<1>8. ASSUME NEW t \in Threads, NEW h \in Handles, FillsOwned(t, h) PROVE FillsFresh'
  BY <1>8, CallTypes, Nulls DEF FillsOwned, FillsIn, WorksOn, CallEnds, SameDisk, SameFhs,
    SameCalls, FillsFresh, CallsShaped, Held, FinalIsLast, At, Fills
<1>9. ASSUME NEW t \in Threads, NEW h \in Handles, FillsUnowned(t, h) PROVE FillsFresh'
  BY <1>9, CallTypes, Nulls DEF FillsUnowned, FillsIn, WorksOn, Drops, CallEnds, CallIs,
    SameDisk, SameFhs, SameCalls, FillsFresh, CallsShaped, Held, FinalIsLast, At, Fills
<1>10. ASSUME NEW t \in Threads, NEW h \in Handles, DropsHandle(t, h) PROVE FillsFresh'
  BY <1>10, CallTypes, Nulls DEF DropsHandle, WorksOn, SameFile, Drops, CallIs, CallEnds,
    SameDisk, SameFhs, SameCalls, FillsFresh, CallsShaped, Held, FinalIsLast, At, Fills
<1>11. ASSUME NEW t \in Threads, NEW h \in Handles, LosesHandle(t, h) PROVE FillsFresh'
  BY <1>11, CallTypes, Nulls DEF LosesHandle, WorksOn, SameFile, CallEnds, SameDisk, SameFhs,
    SameCalls, FillsFresh, CallsShaped, Held, FinalIsLast, At, Fills
<1>12. ASSUME NEW t \in Threads, NEW h \in Handles, TruncatesFound(t, h) PROVE FillsFresh'
  BY <1>12, CallTypes, Nulls DEF TruncatesFound, Truncation, WorksOn, Counts, CallIs, SameFhs,
    SameCalls, FillsFresh, CallsShaped, Held, FinalIsLast, At, Fills
<1>13. ASSUME NEW t \in Threads, NEW h \in Handles, Releases(t, h) PROVE FillsFresh'
  BY <1>13, CallTypes, Nulls DEF Releases, SameFile, Drops, CallIs, CallEnds, SameDisk, SameFhs,
    SameCalls, FillsFresh, CallsShaped, Held, FinalIsLast, At, Fills
<1>14. ASSUME NEW t \in Threads, NEW h \in Handles, NEW view \in Views, NEW at \in {"getattr", "truncate", "chmod"},
             FindsHandle(t, h, at, view)
      PROVE  FillsFresh'
  BY <1>14, CallTypes, Nulls DEF FindsHandle, SameFile, CallIs, SameDisk, SameFhs, SameCalls,
    FillsFresh, CallsShaped, Held, FinalIsLast, At, Fills
<1>15. ASSUME NEW h \in Handles, TruncatesOpen(h) PROVE FillsFresh'
  BY <1>15, CallTypes, Nulls DEF TruncatesOpen, Truncation, Counts, SameFhs, SameCalls,
    FillsFresh, CallsShaped, Held, FinalIsLast, At, Fills
<1>16. ASSUME NEW h \in Handles, Writes(h) PROVE FillsFresh'
  BY <1>16, CallTypes, Nulls DEF Writes, SameFhs, SameCalls, FillsFresh, CallsShaped, Held,
    FinalIsLast, At, Fills
<1>17. CASE Unlinks
  BY <1>17, CallTypes, Nulls DEF Unlinks, SameFhs, SameCalls, FillsFresh, CallsShaped, Held,
    FinalIsLast, At, Fills
<1>18. QED
  BY <1>1, <1>2, <1>3, <1>4, <1>5, <1>6, <1>7, <1>8, <1>9, <1>10, <1>11, <1>12, <1>13, <1>14,
    <1>15, <1>16, <1>17 DEF Step

LEMMA FdsApartStep ==
  ASSUME FdsApart, TmpsApart, FhsShaped, Step
  PROVE  FdsApart'
<1>1. CASE UNCHANGED vars
  BY <1>1, Free DEF vars, SameFhs, SameCalls, FdsApart, TmpsApart, FhsShaped, TruncFd, Tmp
<1>2. ASSUME NEW t \in Threads, Abandons(t) PROVE FdsApart'
  BY <1>2, Free DEF Abandons, CallEnds, SameFhs, SameCalls, FdsApart, TmpsApart, FhsShaped,
    TruncFd, Tmp
<1>3. ASSUME NEW t \in Threads, NEW view \in Views, StartsReading(t, view) PROVE FdsApart'
  BY <1>3, Free DEF StartsReading, Starts, CallIs, SameFhs, SameCalls, FdsApart, TmpsApart,
    FhsShaped, TruncFd, Tmp
<1>4. ASSUME NEW t \in Threads, NEW view \in Views, NEW at \in {"open_doc", "create_doc"},
             StartsWriting(t, view, at)
      PROVE  FdsApart'
  BY <1>4, Free DEF StartsWriting, Starts, CallIs, SameFhs, SameCalls, FdsApart, TmpsApart,
    FhsShaped, TruncFd, Tmp
<1>5. ASSUME NEW t \in Threads, NEW h \in Handles, Finalizes(t, h) PROVE FdsApart'
  BY <1>5, Free DEF Finalizes, WorksOn, CallEnds, RenameTemp, UnlinkTemp, SameFhs, SameCalls,
    FdsApart, TmpsApart, FhsShaped, TruncFd, Tmp
<1>6. ASSUME NEW t \in Threads, NEW h \in Handles, OpensHandle(t, h) PROVE FdsApart'
  <2>1. SameOwners
    BY <1>6 DEF OpensHandle, IsNew, CallIs, SameDisk, SameFhs, SameCalls, TruncFd, Tmp, SameOwners
  <2>2. QED
    BY <1>6, <2>1 DEF OpensHandle, IsNew, CallIs, SameDisk, FdsApart, SameOwners
<1>7. ASSUME NEW t \in Threads, NEW h \in Handles, CreatesHandle(t, h) PROVE FdsApart'
  <2>1. SameOwners
    BY <1>7 DEF CreatesHandle, IsNew, CallIs, SameFhs, SameCalls, TruncFd, Tmp, SameOwners
  <2>2. /\ document' = NewFile /\ NewFile # NULL
        /\ \A g \in Handles : TruncFd(g) # NewFile
        /\ \A u \in Threads : Tmp(u) # NewFile
    BY <1>7, Free DEF CreatesHandle, TruncFd, Tmp
  <2>3. QED
    BY <2>1, <2>2 DEF FdsApart, SameOwners
<1>8. ASSUME NEW t \in Threads, NEW h \in Handles, FillsOwned(t, h) PROVE FdsApart'
  BY <1>8, Free DEF FillsOwned, FillsIn, WorksOn, CallEnds, SameDisk, SameFhs, SameCalls,
    FdsApart, TmpsApart, FhsShaped, TruncFd, Tmp
<1>9. ASSUME NEW t \in Threads, NEW h \in Handles, FillsUnowned(t, h) PROVE FdsApart'
  BY <1>9, Free DEF FillsUnowned, FillsIn, WorksOn, Drops, CallEnds, CallIs, SameDisk, SameFhs,
    SameCalls, FdsApart, TmpsApart, FhsShaped, TruncFd, Tmp
<1>10. ASSUME NEW t \in Threads, NEW h \in Handles, DropsHandle(t, h) PROVE FdsApart'
  BY <1>10, Free DEF DropsHandle, WorksOn, SameFile, Drops, CallIs, CallEnds, SameDisk, SameFhs,
    SameCalls, FdsApart, TmpsApart, FhsShaped, TruncFd, Tmp
<1>11. ASSUME NEW t \in Threads, NEW h \in Handles, LosesHandle(t, h) PROVE FdsApart'
  BY <1>11, Free DEF LosesHandle, WorksOn, SameFile, CallEnds, SameDisk, SameFhs, SameCalls,
    FdsApart, TmpsApart, FhsShaped, TruncFd, Tmp
<1>12. ASSUME NEW t \in Threads, NEW h \in Handles, TruncatesFound(t, h) PROVE FdsApart'
  BY <1>12, Free DEF TruncatesFound, Truncation, WorksOn, Counts, CallIs, SameFhs, SameCalls,
    FdsApart, TmpsApart, FhsShaped, TruncFd, Tmp
<1>13. ASSUME NEW t \in Threads, NEW h \in Handles, Releases(t, h) PROVE FdsApart'
  BY <1>13, Free DEF Releases, SameFile, Drops, CallIs, CallEnds, SameDisk, SameFhs, SameCalls,
    FdsApart, TmpsApart, FhsShaped, TruncFd, Tmp
<1>14. ASSUME NEW t \in Threads, NEW h \in Handles, NEW view \in Views, NEW at \in {"getattr", "truncate", "chmod"},
             FindsHandle(t, h, at, view)
      PROVE  FdsApart'
  BY <1>14, Free DEF FindsHandle, SameFile, CallIs, SameDisk, SameFhs, SameCalls, FdsApart,
    TmpsApart, FhsShaped, TruncFd, Tmp
<1>15. ASSUME NEW h \in Handles, TruncatesOpen(h) PROVE FdsApart'
  BY <1>15, Free DEF TruncatesOpen, Truncation, Counts, SameFhs, SameCalls, FdsApart, TmpsApart,
    FhsShaped, TruncFd, Tmp
<1>16. ASSUME NEW h \in Handles, Writes(h) PROVE FdsApart'
  BY <1>16, Free DEF Writes, SameFhs, SameCalls, FdsApart, TmpsApart, FhsShaped, TruncFd, Tmp
<1>17. CASE Unlinks
  BY <1>17, Free DEF Unlinks, SameFhs, SameCalls, FdsApart, TmpsApart, FhsShaped, TruncFd, Tmp
<1>18. QED
  BY <1>1, <1>2, <1>3, <1>4, <1>5, <1>6, <1>7, <1>8, <1>9, <1>10, <1>11, <1>12, <1>13, <1>14,
    <1>15, <1>16, <1>17 DEF Step

LEMMA TmpsApartStep ==
  ASSUME FdsApart, TmpsApart, FhsShaped, Step
  PROVE  TmpsApart'
<1>1. CASE UNCHANGED vars
  BY <1>1, Free DEF vars, SameFhs, SameCalls, FdsApart, TmpsApart, FhsShaped, TruncFd, Tmp
<1>2. ASSUME NEW t \in Threads, Abandons(t) PROVE TmpsApart'
  BY <1>2, Free DEF Abandons, CallEnds, SameFhs, SameCalls, FdsApart, TmpsApart, FhsShaped,
    TruncFd, Tmp
<1>3. ASSUME NEW t \in Threads, NEW view \in Views, StartsReading(t, view) PROVE TmpsApart'
  BY <1>3, Free DEF StartsReading, Starts, CallIs, SameFhs, SameCalls, FdsApart, TmpsApart,
    FhsShaped, TruncFd, Tmp
<1>4. ASSUME NEW t \in Threads, NEW view \in Views, NEW at \in {"open_doc", "create_doc"},
             StartsWriting(t, view, at)
      PROVE  TmpsApart'
  BY <1>4, Free DEF StartsWriting, Starts, CallIs, SameFhs, SameCalls, FdsApart, TmpsApart,
    FhsShaped, TruncFd, Tmp
<1>5. ASSUME NEW t \in Threads, NEW h \in Handles, Finalizes(t, h) PROVE TmpsApart'
  BY <1>5, Free DEF Finalizes, WorksOn, CallEnds, RenameTemp, UnlinkTemp, SameFhs, SameCalls,
    FdsApart, TmpsApart, FhsShaped, TruncFd, Tmp
<1>6. ASSUME NEW t \in Threads, NEW h \in Handles, OpensHandle(t, h) PROVE TmpsApart'
  <2>1. SameOwners
    BY <1>6 DEF OpensHandle, IsNew, CallIs, SameDisk, SameFhs, SameCalls, TruncFd, Tmp, SameOwners
  <2>2. QED
    BY <1>6, <2>1 DEF OpensHandle, IsNew, CallIs, SameDisk, TmpsApart, SameOwners
<1>7. ASSUME NEW t \in Threads, NEW h \in Handles, CreatesHandle(t, h) PROVE TmpsApart'
  <2>1. SameOwners
    BY <1>7 DEF CreatesHandle, IsNew, CallIs, SameFhs, SameCalls, TruncFd, Tmp, SameOwners
  <2>2. /\ document' = NewFile /\ NewFile # NULL
        /\ \A g \in Handles : TruncFd(g) # NewFile
        /\ \A u \in Threads : Tmp(u) # NewFile
    BY <1>7, Free DEF CreatesHandle, TruncFd, Tmp
  <2>3. QED
    BY <2>1, <2>2 DEF TmpsApart, SameOwners
<1>8. ASSUME NEW t \in Threads, NEW h \in Handles, FillsOwned(t, h) PROVE TmpsApart'
  BY <1>8, Free DEF FillsOwned, FillsIn, WorksOn, CallEnds, SameDisk, SameFhs, SameCalls,
    FdsApart, TmpsApart, FhsShaped, TruncFd, Tmp
<1>9. ASSUME NEW t \in Threads, NEW h \in Handles, FillsUnowned(t, h) PROVE TmpsApart'
  BY <1>9, Free DEF FillsUnowned, FillsIn, WorksOn, Drops, CallEnds, CallIs, SameDisk, SameFhs,
    SameCalls, FdsApart, TmpsApart, FhsShaped, TruncFd, Tmp
<1>10. ASSUME NEW t \in Threads, NEW h \in Handles, DropsHandle(t, h) PROVE TmpsApart'
  BY <1>10, Free DEF DropsHandle, WorksOn, SameFile, Drops, CallIs, CallEnds, SameDisk, SameFhs,
    SameCalls, FdsApart, TmpsApart, FhsShaped, TruncFd, Tmp
<1>11. ASSUME NEW t \in Threads, NEW h \in Handles, LosesHandle(t, h) PROVE TmpsApart'
  BY <1>11, Free DEF LosesHandle, WorksOn, SameFile, CallEnds, SameDisk, SameFhs, SameCalls,
    FdsApart, TmpsApart, FhsShaped, TruncFd, Tmp
<1>12. ASSUME NEW t \in Threads, NEW h \in Handles, TruncatesFound(t, h) PROVE TmpsApart'
  BY <1>12, Free DEF TruncatesFound, Truncation, WorksOn, Counts, CallIs, SameFhs, SameCalls,
    FdsApart, TmpsApart, FhsShaped, TruncFd, Tmp
<1>13. ASSUME NEW t \in Threads, NEW h \in Handles, Releases(t, h) PROVE TmpsApart'
  BY <1>13, Free DEF Releases, SameFile, Drops, CallIs, CallEnds, SameDisk, SameFhs, SameCalls,
    FdsApart, TmpsApart, FhsShaped, TruncFd, Tmp
<1>14. ASSUME NEW t \in Threads, NEW h \in Handles, NEW view \in Views, NEW at \in {"getattr", "truncate", "chmod"},
             FindsHandle(t, h, at, view)
      PROVE  TmpsApart'
  BY <1>14, Free DEF FindsHandle, SameFile, CallIs, SameDisk, SameFhs, SameCalls, FdsApart,
    TmpsApart, FhsShaped, TruncFd, Tmp
<1>15. ASSUME NEW h \in Handles, TruncatesOpen(h) PROVE TmpsApart'
  BY <1>15, Free DEF TruncatesOpen, Truncation, Counts, SameFhs, SameCalls, FdsApart, TmpsApart,
    FhsShaped, TruncFd, Tmp
<1>16. ASSUME NEW h \in Handles, Writes(h) PROVE TmpsApart'
  BY <1>16, Free DEF Writes, SameFhs, SameCalls, FdsApart, TmpsApart, FhsShaped, TruncFd, Tmp
<1>17. CASE Unlinks
  BY <1>17, Free DEF Unlinks, SameFhs, SameCalls, FdsApart, TmpsApart, FhsShaped, TruncFd, Tmp
<1>18. QED
  BY <1>1, <1>2, <1>3, <1>4, <1>5, <1>6, <1>7, <1>8, <1>9, <1>10, <1>11, <1>12, <1>13, <1>14,
    <1>15, <1>16, <1>17 DEF Step

LEMMA WholeStep ==
  ASSUME FhsShaped, FdsApart, ReplacedWhole, Step
  PROVE  ReplacedWhole'
<1>1. CASE UNCHANGED vars
  BY <1>1 DEF vars, SameFhs, SameCalls, FhsShaped, FdsApart, TruncFd, ReplacedWhole
<1>2. ASSUME NEW t \in Threads, Abandons(t) PROVE ReplacedWhole'
  BY <1>2 DEF Abandons, CallEnds, SameFhs, SameCalls, FhsShaped, FdsApart, TruncFd,
    ReplacedWhole
<1>3. ASSUME NEW t \in Threads, NEW view \in Views, StartsReading(t, view) PROVE ReplacedWhole'
  BY <1>3 DEF StartsReading, Starts, CallIs, SameFhs, SameCalls, FhsShaped, FdsApart, TruncFd,
    ReplacedWhole
<1>4. ASSUME NEW t \in Threads, NEW view \in Views, NEW at \in {"open_doc", "create_doc"},
             StartsWriting(t, view, at)
      PROVE  ReplacedWhole'
  BY <1>4 DEF StartsWriting, Starts, CallIs, SameFhs, SameCalls, FhsShaped, FdsApart, TruncFd,
    ReplacedWhole
<1>5. ASSUME NEW t \in Threads, NEW h \in Handles, Finalizes(t, h) PROVE ReplacedWhole'
  BY <1>5 DEF Finalizes, WorksOn, CallEnds, RenameTemp, UnlinkTemp, SameFhs, SameCalls,
    FhsShaped, FdsApart, TruncFd, ReplacedWhole
<1>6. ASSUME NEW t \in Threads, NEW h \in Handles, OpensHandle(t, h) PROVE ReplacedWhole'
  BY <1>6 DEF OpensHandle, IsNew, CallIs, SameDisk, SameFhs, SameCalls, FhsShaped, FdsApart,
    TruncFd, ReplacedWhole
<1>7. ASSUME NEW t \in Threads, NEW h \in Handles, CreatesHandle(t, h) PROVE ReplacedWhole'
  BY <1>7 DEF CreatesHandle, IsNew, CallIs, SameFhs, SameCalls, FhsShaped, FdsApart, TruncFd,
    ReplacedWhole
<1>8. ASSUME NEW t \in Threads, NEW h \in Handles, FillsOwned(t, h) PROVE ReplacedWhole'
  BY <1>8 DEF FillsOwned, FillsIn, WorksOn, CallEnds, SameDisk, SameFhs, SameCalls, FhsShaped,
    FdsApart, TruncFd, ReplacedWhole
<1>9. ASSUME NEW t \in Threads, NEW h \in Handles, FillsUnowned(t, h) PROVE ReplacedWhole'
  BY <1>9 DEF FillsUnowned, FillsIn, WorksOn, Drops, CallEnds, CallIs, SameDisk, SameFhs,
    SameCalls, FhsShaped, FdsApart, TruncFd, ReplacedWhole
<1>10. ASSUME NEW t \in Threads, NEW h \in Handles, DropsHandle(t, h) PROVE ReplacedWhole'
  BY <1>10 DEF DropsHandle, WorksOn, SameFile, Drops, CallIs, CallEnds, SameDisk, SameFhs,
    SameCalls, FhsShaped, FdsApart, TruncFd, ReplacedWhole
<1>11. ASSUME NEW t \in Threads, NEW h \in Handles, LosesHandle(t, h) PROVE ReplacedWhole'
  BY <1>11 DEF LosesHandle, WorksOn, SameFile, CallEnds, SameDisk, SameFhs, SameCalls,
    FhsShaped, FdsApart, TruncFd, ReplacedWhole
<1>12. ASSUME NEW t \in Threads, NEW h \in Handles, TruncatesFound(t, h) PROVE ReplacedWhole'
  BY <1>12 DEF TruncatesFound, Truncation, WorksOn, Counts, CallIs, SameFhs, SameCalls,
    FhsShaped, FdsApart, TruncFd, ReplacedWhole
<1>13. ASSUME NEW t \in Threads, NEW h \in Handles, Releases(t, h) PROVE ReplacedWhole'
  BY <1>13 DEF Releases, SameFile, Drops, CallIs, CallEnds, SameDisk, SameFhs, SameCalls,
    FhsShaped, FdsApart, TruncFd, ReplacedWhole
<1>14. ASSUME NEW t \in Threads, NEW h \in Handles, NEW view \in Views, NEW at \in {"getattr", "truncate", "chmod"},
             FindsHandle(t, h, at, view)
      PROVE  ReplacedWhole'
  BY <1>14 DEF FindsHandle, SameFile, CallIs, SameDisk, SameFhs, SameCalls, FhsShaped, FdsApart,
    TruncFd, ReplacedWhole
<1>15. ASSUME NEW h \in Handles, TruncatesOpen(h) PROVE ReplacedWhole'
  BY <1>15 DEF TruncatesOpen, Truncation, Counts, SameFhs, SameCalls, FhsShaped, FdsApart,
    TruncFd, ReplacedWhole
<1>16. ASSUME NEW h \in Handles, Writes(h) PROVE ReplacedWhole'
  BY <1>16 DEF Writes, SameFhs, SameCalls, FhsShaped, FdsApart, TruncFd, ReplacedWhole
<1>17. CASE Unlinks
  BY <1>17 DEF Unlinks, SameFhs, SameCalls, FhsShaped, FdsApart, TruncFd, ReplacedWhole
<1>18. QED
  BY <1>1, <1>2, <1>3, <1>4, <1>5, <1>6, <1>7, <1>8, <1>9, <1>10, <1>11, <1>12, <1>13, <1>14,
    <1>15, <1>16, <1>17 DEF Step

LEMMA WritersStep ==
  ASSUME FhsShaped, CallsShaped, OnlyWritersReplace, Step
  PROVE  OnlyWritersReplace'
<1>1. CASE UNCHANGED vars
  BY <1>1 DEF vars, SameFhs, SameCalls, FhsShaped, CallsShaped, OnlyWritersReplace
<1>2. ASSUME NEW t \in Threads, Abandons(t) PROVE OnlyWritersReplace'
  BY <1>2 DEF Abandons, CallEnds, SameFhs, SameCalls, FhsShaped, CallsShaped, OnlyWritersReplace
<1>3. ASSUME NEW t \in Threads, NEW view \in Views,
             StartsReading(t, view)
      PROVE  OnlyWritersReplace'
  BY <1>3 DEF StartsReading, Starts, CallIs, SameFhs, SameCalls, FhsShaped, CallsShaped,
    OnlyWritersReplace
<1>4. ASSUME NEW t \in Threads, NEW view \in Views, NEW at \in {"open_doc", "create_doc"},
             StartsWriting(t, view, at)
      PROVE  OnlyWritersReplace'
  BY <1>4 DEF StartsWriting, Starts, CallIs, SameFhs, SameCalls, FhsShaped, CallsShaped,
    OnlyWritersReplace
<1>5. ASSUME NEW t \in Threads, NEW h \in Handles, Finalizes(t, h) PROVE OnlyWritersReplace'
  BY <1>5 DEF Finalizes, WorksOn, CallEnds, RenameTemp, UnlinkTemp, SameFhs, SameCalls,
    FhsShaped, CallsShaped, OnlyWritersReplace
<1>6. ASSUME NEW t \in Threads, NEW h \in Handles, OpensHandle(t, h) PROVE OnlyWritersReplace'
  BY <1>6 DEF OpensHandle, IsNew, CallIs, SameDisk, SameFhs, SameCalls, FhsShaped, CallsShaped,
    OnlyWritersReplace
<1>7. ASSUME NEW t \in Threads, NEW h \in Handles, CreatesHandle(t, h) PROVE OnlyWritersReplace'
  BY <1>7 DEF CreatesHandle, IsNew, CallIs, SameFhs, SameCalls, FhsShaped, CallsShaped,
    OnlyWritersReplace
<1>8. ASSUME NEW t \in Threads, NEW h \in Handles, FillsOwned(t, h) PROVE OnlyWritersReplace'
  BY <1>8 DEF FillsOwned, FillsIn, WorksOn, CallEnds, SameDisk, SameFhs, SameCalls, FhsShaped,
    CallsShaped, OnlyWritersReplace
<1>9. ASSUME NEW t \in Threads, NEW h \in Handles, FillsUnowned(t, h) PROVE OnlyWritersReplace'
  BY <1>9 DEF FillsUnowned, FillsIn, WorksOn, Drops, CallEnds, CallIs, SameDisk, SameFhs,
    SameCalls, FhsShaped, CallsShaped, OnlyWritersReplace
<1>10. ASSUME NEW t \in Threads, NEW h \in Handles, DropsHandle(t, h) PROVE OnlyWritersReplace'
  BY <1>10 DEF DropsHandle, WorksOn, SameFile, Drops, CallIs, CallEnds, SameDisk, SameFhs,
    SameCalls, FhsShaped, CallsShaped, OnlyWritersReplace
<1>11. ASSUME NEW t \in Threads, NEW h \in Handles, LosesHandle(t, h) PROVE OnlyWritersReplace'
  BY <1>11 DEF LosesHandle, WorksOn, SameFile, CallEnds, SameDisk, SameFhs, SameCalls,
    FhsShaped, CallsShaped, OnlyWritersReplace
<1>12. ASSUME NEW t \in Threads, NEW h \in Handles, TruncatesFound(t, h) PROVE OnlyWritersReplace'
  BY <1>12 DEF TruncatesFound, Truncation, WorksOn, Counts, CallIs, SameFhs, SameCalls,
    FhsShaped, CallsShaped, OnlyWritersReplace
<1>13. ASSUME NEW t \in Threads, NEW h \in Handles, Releases(t, h) PROVE OnlyWritersReplace'
  BY <1>13 DEF Releases, SameFile, Drops, CallIs, CallEnds, SameDisk, SameFhs, SameCalls,
    FhsShaped, CallsShaped, OnlyWritersReplace
<1>14. ASSUME NEW t \in Threads, NEW h \in Handles, NEW view \in Views, NEW at \in {"getattr", "truncate", "chmod"},
             FindsHandle(t, h, at, view)
      PROVE  OnlyWritersReplace'
  BY <1>14 DEF FindsHandle, SameFile, CallIs, SameDisk, SameFhs, SameCalls, FhsShaped,
    CallsShaped, OnlyWritersReplace
<1>15. ASSUME NEW h \in Handles, TruncatesOpen(h) PROVE OnlyWritersReplace'
  BY <1>15 DEF TruncatesOpen, Truncation, Counts, SameFhs, SameCalls, FhsShaped, CallsShaped,
    OnlyWritersReplace
<1>16. ASSUME NEW h \in Handles, Writes(h) PROVE OnlyWritersReplace'
  BY <1>16 DEF Writes, SameFhs, SameCalls, FhsShaped, CallsShaped, OnlyWritersReplace
<1>17. CASE Unlinks
  BY <1>17 DEF Unlinks, SameFhs, SameCalls, FhsShaped, CallsShaped, OnlyWritersReplace
<1>18. QED
  BY <1>1, <1>2, <1>3, <1>4, <1>5, <1>6, <1>7, <1>8, <1>9, <1>10, <1>11, <1>12, <1>13, <1>14,
    <1>15, <1>16, <1>17 DEF Step

LEMMA TempsStep ==
  ASSUME FilesOK, CallsShaped, FillsFresh, TempsOwned, Step
  PROVE  TempsOwned'
<1>1. CASE UNCHANGED vars
  BY <1>1, FilesAreNat DEF vars, SameFhs, SameCalls, FilesOK, CallsShaped, FillsFresh,
    TempsOwned, Fills, At
<1>2. ASSUME NEW t \in Threads, Abandons(t) PROVE TempsOwned'
  BY <1>2, FilesAreNat DEF Abandons, CallEnds, SameFhs, SameCalls, FilesOK, CallsShaped,
    FillsFresh, TempsOwned, Fills, At
<1>3. ASSUME NEW t \in Threads, NEW view \in Views, StartsReading(t, view) PROVE TempsOwned'
  BY <1>3, FilesAreNat DEF StartsReading, Starts, CallIs, SameFhs, SameCalls, FilesOK,
    CallsShaped, FillsFresh, TempsOwned, Fills, At
<1>4. ASSUME NEW t \in Threads, NEW view \in Views, NEW at \in {"open_doc", "create_doc"},
             StartsWriting(t, view, at)
      PROVE  TempsOwned'
  BY <1>4, FilesAreNat DEF StartsWriting, Starts, CallIs, SameFhs, SameCalls, FilesOK,
    CallsShaped, FillsFresh, TempsOwned, Fills, At
<1>5. ASSUME NEW t \in Threads, NEW h \in Handles, Finalizes(t, h) PROVE TempsOwned'
  BY <1>5, FilesAreNat DEF Finalizes, WorksOn, CallEnds, RenameTemp, UnlinkTemp, SameFhs,
    SameCalls, FilesOK, CallsShaped, FillsFresh, TempsOwned, Fills, At
<1>6. ASSUME NEW t \in Threads, NEW h \in Handles, OpensHandle(t, h) PROVE TempsOwned'
  BY <1>6, FilesAreNat DEF OpensHandle, IsNew, CallIs, SameDisk, SameFhs, SameCalls, FilesOK,
    CallsShaped, FillsFresh, TempsOwned, Fills, At
<1>7. ASSUME NEW t \in Threads, NEW h \in Handles, CreatesHandle(t, h) PROVE TempsOwned'
  <2>1. temps' = temps /\ abandoned' = abandoned
    BY <1>7 DEF CreatesHandle, IsNew, CallIs
  <2>2. SUFFICES ASSUME NEW f \in temps \ abandoned
                 PROVE  \/ \E g \in Handles : fhs'[g] # NULL /\ fhs'[g].trunc_fd = f
                        \/ \E u \in Threads : call'[u] # NULL /\ call'[u].tmp = f
    BY <2>1 DEF TempsOwned
  <2>3. ASSUME NEW g \in Handles, fhs[g] # NULL, fhs[g].trunc_fd = f
        PROVE  fhs'[g] # NULL /\ fhs'[g].trunc_fd = f
    BY <1>7, <2>3 DEF CreatesHandle, IsNew, CallIs, SameFhs
  <2>4. ASSUME NEW u \in Threads, call[u] # NULL, call[u].tmp = f
        PROVE  call'[u] # NULL /\ call'[u].tmp = f
    BY <1>7, <2>4 DEF CreatesHandle, IsNew, CallIs, SameCalls
  <2>5. QED
    BY <2>3, <2>4 DEF TempsOwned
<1>8. ASSUME NEW t \in Threads, NEW h \in Handles, FillsOwned(t, h) PROVE TempsOwned'
  BY <1>8, FilesAreNat DEF FillsOwned, FillsIn, WorksOn, CallEnds, SameDisk, SameFhs, SameCalls,
    FilesOK, CallsShaped, FillsFresh, TempsOwned, Fills, At
<1>9. ASSUME NEW t \in Threads, NEW h \in Handles, FillsUnowned(t, h) PROVE TempsOwned'
  BY <1>9, FilesAreNat DEF FillsUnowned, FillsIn, WorksOn, Drops, CallEnds, CallIs, SameDisk,
    SameFhs, SameCalls, FilesOK, CallsShaped, FillsFresh, TempsOwned, Fills, At
<1>10. ASSUME NEW t \in Threads, NEW h \in Handles, DropsHandle(t, h) PROVE TempsOwned'
  BY <1>10, FilesAreNat DEF DropsHandle, WorksOn, SameFile, Drops, CallIs, CallEnds, SameDisk,
    SameFhs, SameCalls, FilesOK, CallsShaped, FillsFresh, TempsOwned, Fills, At
<1>11. ASSUME NEW t \in Threads, NEW h \in Handles, LosesHandle(t, h) PROVE TempsOwned'
  BY <1>11, FilesAreNat DEF LosesHandle, WorksOn, SameFile, CallEnds, SameDisk, SameFhs,
    SameCalls, FilesOK, CallsShaped, FillsFresh, TempsOwned, Fills, At
<1>12. ASSUME NEW t \in Threads, NEW h \in Handles, TruncatesFound(t, h) PROVE TempsOwned'
  BY <1>12, FilesAreNat DEF TruncatesFound, Truncation, WorksOn, Counts, CallIs, SameFhs,
    SameCalls, FilesOK, CallsShaped, FillsFresh, TempsOwned, Fills, At
<1>13. ASSUME NEW t \in Threads, NEW h \in Handles, Releases(t, h) PROVE TempsOwned'
  BY <1>13, FilesAreNat DEF Releases, SameFile, Drops, CallIs, CallEnds, SameDisk, SameFhs,
    SameCalls, FilesOK, CallsShaped, FillsFresh, TempsOwned, Fills, At
<1>14. ASSUME NEW t \in Threads, NEW h \in Handles, NEW view \in Views, NEW at \in {"getattr", "truncate", "chmod"},
             FindsHandle(t, h, at, view)
      PROVE  TempsOwned'
  BY <1>14, FilesAreNat DEF FindsHandle, SameFile, CallIs, SameDisk, SameFhs, SameCalls,
    FilesOK, CallsShaped, FillsFresh, TempsOwned, Fills, At
<1>15. ASSUME NEW h \in Handles, TruncatesOpen(h) PROVE TempsOwned'
  BY <1>15, FilesAreNat DEF TruncatesOpen, Truncation, Counts, SameFhs, SameCalls, FilesOK,
    CallsShaped, FillsFresh, TempsOwned, Fills, At
<1>16. ASSUME NEW h \in Handles, Writes(h) PROVE TempsOwned'
  BY <1>16, FilesAreNat DEF Writes, SameFhs, SameCalls, FilesOK, CallsShaped, FillsFresh,
    TempsOwned, Fills, At
<1>17. CASE Unlinks
  BY <1>17, FilesAreNat DEF Unlinks, SameFhs, SameCalls, FilesOK, CallsShaped, FillsFresh,
    TempsOwned, Fills, At
<1>18. QED
  BY <1>1, <1>2, <1>3, <1>4, <1>5, <1>6, <1>7, <1>8, <1>9, <1>10, <1>11, <1>12, <1>13, <1>14,
    <1>15, <1>16, <1>17 DEF Step

LEMMA FinalStep ==
  ASSUME FhsOK, CallsOK, RefsAreHolders, Held, FinalIsLast, CallsShaped, Step
  PROVE  FinalIsLast'
<1>1. CASE UNCHANGED vars
  BY <1>1, CallTypes, FhTypes, Nulls DEF vars, SameFhs, SameCalls, FinalIsLast, Held, At,
    CallsShaped
<1>2. ASSUME NEW t \in Threads, Abandons(t) PROVE FinalIsLast'
  BY <1>2, CallTypes, FhTypes, Nulls DEF Abandons, CallEnds, SameFhs, SameCalls, FinalIsLast,
    Held, At, CallsShaped
<1>3. ASSUME NEW t \in Threads, NEW view \in Views, StartsReading(t, view) PROVE FinalIsLast'
  BY <1>3, CallTypes, FhTypes, Nulls DEF StartsReading, Starts, CallIs, SameFhs, SameCalls,
    FinalIsLast, Held, At, CallsShaped
<1>4. ASSUME NEW t \in Threads, NEW view \in Views, NEW at \in {"open_doc", "create_doc"},
             StartsWriting(t, view, at)
      PROVE  FinalIsLast'
  BY <1>4, CallTypes, FhTypes, Nulls DEF StartsWriting, Starts, CallIs, SameFhs, SameCalls,
    FinalIsLast, Held, At, CallsShaped
<1>5. ASSUME NEW t \in Threads, NEW h \in Handles, Finalizes(t, h) PROVE FinalIsLast'
  BY <1>5, CallTypes, FhTypes, Nulls DEF Finalizes, WorksOn, CallEnds, RenameTemp, UnlinkTemp,
    SameFhs, SameCalls, FinalIsLast, Held, At, CallsShaped
<1>6. ASSUME NEW t \in Threads, NEW h \in Handles, OpensHandle(t, h) PROVE FinalIsLast'
  BY <1>6, CallTypes, FhTypes, Nulls DEF OpensHandle, IsNew, CallIs, SameDisk, SameFhs,
    SameCalls, FinalIsLast, Held, At, CallsShaped
<1>7. ASSUME NEW t \in Threads, NEW h \in Handles, CreatesHandle(t, h) PROVE FinalIsLast'
  BY <1>7, CallTypes, FhTypes, Nulls DEF CreatesHandle, IsNew, CallIs, SameFhs, SameCalls,
    FinalIsLast, Held, At, CallsShaped
<1>8. ASSUME NEW t \in Threads, NEW h \in Handles, FillsOwned(t, h) PROVE FinalIsLast'
  BY <1>8, CallTypes, FhTypes, Nulls DEF FillsOwned, FillsIn, WorksOn, CallEnds, SameDisk,
    SameFhs, SameCalls, FinalIsLast, Held, At, CallsShaped
<1>9. ASSUME NEW t \in Threads, NEW h \in Handles, FillsUnowned(t, h) PROVE FinalIsLast'
  <2>1. fhs[h].ref_count = 1 => \A u \in Threads : call[u] # NULL /\ u # t => call[u].fh # h
    <3>1. h \in Handles /\ fhs[h] # NULL /\ (t \in Holders(h))
      BY <1>9 DEF FillsUnowned, FillsIn, WorksOn, Drops, CallEnds, CallIs, SameDisk, Holders
    <3>2. CASE fhs[h].ref_count = 1
      BY <3>1, <3>2, LastHolder, LastOwner
    <3>3. QED
      BY <3>2
  <2>2. QED
    BY <1>9, <2>1, CallTypes, FhTypes, Nulls DEF FillsUnowned, FillsIn, WorksOn, Drops, CallEnds,
      CallIs, SameDisk, SameFhs, SameCalls, FinalIsLast, Held, At, CallsShaped
<1>10. ASSUME NEW t \in Threads, NEW h \in Handles, DropsHandle(t, h) PROVE FinalIsLast'
  <2>1. fhs[h].ref_count = 1 => \A u \in Threads : call[u] # NULL /\ u # t => call[u].fh # h
    <3>1. h \in Handles /\ fhs[h] # NULL /\ (t \in Holders(h))
      BY <1>10 DEF DropsHandle, WorksOn, SameFile, Drops, CallIs, CallEnds, SameDisk, Holders
    <3>2. CASE fhs[h].ref_count = 1
      BY <3>1, <3>2, LastHolder, LastOwner
    <3>3. QED
      BY <3>2
  <2>2. QED
    BY <1>10, <2>1, CallTypes, FhTypes, Nulls DEF DropsHandle, WorksOn, SameFile, Drops, CallIs,
      CallEnds, SameDisk, SameFhs, SameCalls, FinalIsLast, Held, At, CallsShaped
<1>11. ASSUME NEW t \in Threads, NEW h \in Handles, LosesHandle(t, h) PROVE FinalIsLast'
  BY <1>11, CallTypes, FhTypes, Nulls DEF LosesHandle, WorksOn, SameFile, CallEnds, SameDisk,
    SameFhs, SameCalls, FinalIsLast, Held, At, CallsShaped
<1>12. ASSUME NEW t \in Threads, NEW h \in Handles, TruncatesFound(t, h) PROVE FinalIsLast'
  BY <1>12, CallTypes, FhTypes, Nulls DEF TruncatesFound, Truncation, WorksOn, Counts, CallIs,
    SameFhs, SameCalls, FinalIsLast, Held, At, CallsShaped
<1>13. ASSUME NEW t \in Threads, NEW h \in Handles, Releases(t, h) PROVE FinalIsLast'
  <2>1. fhs[h].ref_count = 1 => \A u \in Threads : call[u] # NULL /\ u # t => call[u].fh # h
    <3>1. h \in Handles /\ fhs[h] # NULL /\ (fhs[h].owned /\ call[t] = NULL)
      BY <1>13 DEF Releases, SameFile, Drops, CallIs, CallEnds, SameDisk, Holders
    <3>2. CASE fhs[h].ref_count = 1
      BY <3>1, <3>2, LastHolder, LastOwner
    <3>3. QED
      BY <3>2
  <2>2. QED
    BY <1>13, <2>1, CallTypes, FhTypes, Nulls DEF Releases, SameFile, Drops, CallIs, CallEnds,
      SameDisk, SameFhs, SameCalls, FinalIsLast, Held, At, CallsShaped
<1>14. ASSUME NEW t \in Threads, NEW h \in Handles, NEW view \in Views, NEW at \in {"getattr", "truncate", "chmod"},
             FindsHandle(t, h, at, view)
      PROVE  FinalIsLast'
  BY <1>14, CallTypes, FhTypes, Nulls DEF FindsHandle, SameFile, CallIs, SameDisk, SameFhs,
    SameCalls, FinalIsLast, Held, At, CallsShaped
<1>15. ASSUME NEW h \in Handles, TruncatesOpen(h) PROVE FinalIsLast'
  BY <1>15, CallTypes, FhTypes, Nulls DEF TruncatesOpen, Truncation, Counts, SameFhs, SameCalls,
    FinalIsLast, Held, At, CallsShaped
<1>16. ASSUME NEW h \in Handles, Writes(h) PROVE FinalIsLast'
  BY <1>16, CallTypes, FhTypes, Nulls DEF Writes, SameFhs, SameCalls, FinalIsLast, Held, At,
    CallsShaped
<1>17. CASE Unlinks
  BY <1>17, CallTypes, FhTypes, Nulls DEF Unlinks, SameFhs, SameCalls, FinalIsLast, Held, At,
    CallsShaped
<1>18. QED
  BY <1>1, <1>2, <1>3, <1>4, <1>5, <1>6, <1>7, <1>8, <1>9, <1>10, <1>11, <1>12, <1>13, <1>14,
    <1>15, <1>16, <1>17 DEF Step

LEMMA ListStep ==
  ASSUME ListOK, Listed, ListedOnce, Step
  PROVE  (ListOK /\ Listed /\ ListedOnce)'
<1>1. CASE UNCHANGED vars
  BY <1>1 DEF vars, SameFhs, SameCalls, ListOK, Listed, ListedOnce
<1>2. ASSUME NEW t \in Threads, Abandons(t) PROVE (ListOK /\ Listed /\ ListedOnce)'
  BY <1>2 DEF Abandons, CallEnds, SameFhs, SameCalls, ListOK, Listed, ListedOnce
<1>3. ASSUME NEW t \in Threads, NEW view \in Views,
             StartsReading(t, view)
      PROVE  (ListOK /\ Listed /\ ListedOnce)'
  BY <1>3 DEF StartsReading, Starts, CallIs, SameFhs, SameCalls, ListOK, Listed, ListedOnce
<1>4. ASSUME NEW t \in Threads, NEW view \in Views, NEW at \in {"open_doc", "create_doc"},
             StartsWriting(t, view, at)
      PROVE  (ListOK /\ Listed /\ ListedOnce)'
  BY <1>4 DEF StartsWriting, Starts, CallIs, SameFhs, SameCalls, ListOK, Listed, ListedOnce
<1>5. ASSUME NEW t \in Threads, NEW h \in Handles,
             Finalizes(t, h)
      PROVE  (ListOK /\ Listed /\ ListedOnce)'
  <2>1. PICK k \in DOMAIN open_files :
          /\ open_files[k] = h
          /\ open_files' = SubSeq(open_files, 1, k - 1) \o SubSeq(open_files, k + 1, Len(open_files))
    BY <1>5 DEF Finalizes, Unlist
  <2>2. /\ open_files' \in Seq(Handles) /\ Once(open_files')
        /\ Elems(open_files') = Elems(open_files) \ {h}
    BY <2>1, Removed DEF ListOK, ListedOnce
  <2>3. {g \in Handles : fhs'[g] # NULL} = {g \in Handles : fhs[g] # NULL} \ {h}
    BY <1>5 DEF Finalizes, SameFhs
  <2>4. QED
    BY <2>2, <2>3 DEF ListOK, Listed, ListedOnce
<1>6. ASSUME NEW t \in Threads, NEW h \in Handles,
             OpensHandle(t, h)
      PROVE  (ListOK /\ Listed /\ ListedOnce)'
  <2>1. fhs[h] = NULL /\ fhs'[h] # NULL /\ SameFhs(h) /\ h \notin Elems(open_files)
    BY <1>6 DEF OpensHandle, IsNew, Listed
  <2>2. open_files \in Seq(Handles) /\ Once(open_files)
    BY DEF ListOK, ListedOnce
  <2>3. open_files' \in Seq(Handles) /\ IsCons(open_files', h, open_files)
    BY <1>6, NewListed DEF OpensHandle, IsNew
  <2>4. Once(open_files') /\ Elems(open_files') = Elems(open_files) \cup {h}
    BY <2>1, <2>2, <2>3, Prepended
  <2>5. \A x : x \in Elems(open_files') <=> x \in Handles /\ fhs'[x] # NULL
    BY <2>1, <2>4 DEF Listed, SameFhs
  <2>6. QED
    BY <2>3, <2>4, <2>5 DEF ListOK, Listed, ListedOnce
<1>7. ASSUME NEW t \in Threads, NEW h \in Handles,
             CreatesHandle(t, h)
      PROVE  (ListOK /\ Listed /\ ListedOnce)'
  <2>1. fhs[h] = NULL /\ fhs'[h] # NULL /\ SameFhs(h) /\ h \notin Elems(open_files)
    BY <1>7 DEF CreatesHandle, IsNew, Listed
  <2>2. open_files \in Seq(Handles) /\ Once(open_files)
    BY DEF ListOK, ListedOnce
  <2>3. open_files' \in Seq(Handles) /\ IsCons(open_files', h, open_files)
    BY <1>7, NewListed DEF CreatesHandle, IsNew
  <2>4. Once(open_files') /\ Elems(open_files') = Elems(open_files) \cup {h}
    BY <2>1, <2>2, <2>3, Prepended
  <2>5. \A x : x \in Elems(open_files') <=> x \in Handles /\ fhs'[x] # NULL
    BY <2>1, <2>4 DEF Listed, SameFhs
  <2>6. QED
    BY <2>3, <2>4, <2>5 DEF ListOK, Listed, ListedOnce
<1>8. ASSUME NEW t \in Threads, NEW h \in Handles,
             FillsOwned(t, h)
      PROVE  (ListOK /\ Listed /\ ListedOnce)'
  BY <1>8 DEF FillsOwned, FillsIn, WorksOn, CallEnds, SameDisk, SameFhs, SameCalls, ListOK,
    Listed, ListedOnce
<1>9. ASSUME NEW t \in Threads, NEW h \in Handles,
             FillsUnowned(t, h)
      PROVE  (ListOK /\ Listed /\ ListedOnce)'
  BY <1>9 DEF FillsUnowned, FillsIn, WorksOn, Drops, CallEnds, CallIs, SameDisk, SameFhs,
    SameCalls, ListOK, Listed, ListedOnce
<1>10. ASSUME NEW t \in Threads, NEW h \in Handles,
             DropsHandle(t, h)
      PROVE  (ListOK /\ Listed /\ ListedOnce)'
  BY <1>10 DEF DropsHandle, WorksOn, SameFile, Drops, CallIs, CallEnds, SameDisk, SameFhs,
    SameCalls, ListOK, Listed, ListedOnce
<1>11. ASSUME NEW t \in Threads, NEW h \in Handles,
             LosesHandle(t, h)
      PROVE  (ListOK /\ Listed /\ ListedOnce)'
  BY <1>11 DEF LosesHandle, WorksOn, SameFile, CallEnds, SameDisk, SameFhs, SameCalls, ListOK,
    Listed, ListedOnce
<1>12. ASSUME NEW t \in Threads, NEW h \in Handles,
             TruncatesFound(t, h)
      PROVE  (ListOK /\ Listed /\ ListedOnce)'
  BY <1>12 DEF TruncatesFound, Truncation, WorksOn, Counts, CallIs, SameFhs, SameCalls, ListOK,
    Listed, ListedOnce
<1>13. ASSUME NEW t \in Threads, NEW h \in Handles,
             Releases(t, h)
      PROVE  (ListOK /\ Listed /\ ListedOnce)'
  BY <1>13 DEF Releases, SameFile, Drops, CallIs, CallEnds, SameDisk, SameFhs, SameCalls,
    ListOK, Listed, ListedOnce
<1>14. ASSUME NEW t \in Threads, NEW h \in Handles, NEW view \in Views, NEW at \in {"getattr", "truncate", "chmod"},
             FindsHandle(t, h, at, view)
      PROVE  (ListOK /\ Listed /\ ListedOnce)'
  BY <1>14 DEF FindsHandle, SameFile, CallIs, SameDisk, SameFhs, SameCalls, ListOK, Listed,
    ListedOnce
<1>15. ASSUME NEW h \in Handles, TruncatesOpen(h) PROVE (ListOK /\ Listed /\ ListedOnce)'
  BY <1>15 DEF TruncatesOpen, Truncation, Counts, SameFhs, SameCalls, ListOK, Listed, ListedOnce
<1>16. ASSUME NEW h \in Handles, Writes(h) PROVE (ListOK /\ Listed /\ ListedOnce)'
  BY <1>16 DEF Writes, SameFhs, SameCalls, ListOK, Listed, ListedOnce
<1>17. CASE Unlinks
  BY <1>17 DEF Unlinks, SameFhs, SameCalls, ListOK, Listed, ListedOnce
<1>18. QED
  BY <1>1, <1>2, <1>3, <1>4, <1>5, <1>6, <1>7, <1>8, <1>9, <1>10, <1>11, <1>12, <1>13, <1>14,
    <1>15, <1>16, <1>17 DEF Step

LEMMA RefsStep ==
  ASSUME FhsOK, CallsOK, RefsAreHolders, Held, FillsFresh, CallsShaped, Step
  PROVE  RefsAreHolders'
<1>1. CASE UNCHANGED vars
  <2>1. \A g \in Handles : Holders(g)' = Holders(g)
    BY <1>1, Nulls, CallTypes DEF vars, SameCalls, Holders, CallsShaped
  <2>2. QED
    BY <1>1, <2>1 DEF vars, RefsAreHolders
<1>2. ASSUME NEW t \in Threads, Abandons(t) PROVE RefsAreHolders'
  <2>1. \A g \in Handles : Holders(g)' = Holders(g)
    BY <1>2, Nulls, CallTypes DEF Abandons, CallEnds, SameCalls, Holders, CallsShaped
  <2>2. QED
    BY <1>2, <2>1 DEF Abandons, CallEnds, RefsAreHolders
<1>3. ASSUME NEW t \in Threads, NEW view \in Views, StartsReading(t, view) PROVE RefsAreHolders'
  <2>1. \A g \in Handles : Holders(g)' = Holders(g)
    BY <1>3, Nulls, CallTypes DEF StartsReading, Starts, CallIs, SameCalls, Holders, CallsShaped
  <2>2. QED
    BY <1>3, <2>1 DEF StartsReading, Starts, CallIs, RefsAreHolders
<1>4. ASSUME NEW t \in Threads, NEW view \in Views, NEW at \in {"open_doc", "create_doc"},
             StartsWriting(t, view, at)
      PROVE  RefsAreHolders'
  <2>1. \A g \in Handles : Holders(g)' = Holders(g)
    BY <1>4, Nulls, CallTypes DEF StartsWriting, Starts, CallIs, SameCalls, Holders, CallsShaped
  <2>2. QED
    BY <1>4, <2>1 DEF StartsWriting, Starts, CallIs, RefsAreHolders
<1>5. ASSUME NEW t \in Threads, NEW h \in Handles, Finalizes(t, h) PROVE RefsAreHolders'
  <2>1. SameCalls(t) /\ SameFhs(h) /\ h \in Handles
    BY <1>5 DEF Finalizes, WorksOn, CallEnds
  <2>2. t \notin Holders(h) /\ t \notin Holders(h)'
    BY <1>5, Nulls, CallTypes DEF Finalizes, WorksOn, CallEnds, Holders, Held, CallsShaped
  <2>3. ASSUME NEW g \in Handles, g # h PROVE t \notin Holders(g) /\ t \notin Holders(g)'
    <3>1. (call[t] = NULL \/ call[t].fh # g) /\ (call'[t] = NULL \/ call'[t].fh # g)
      BY <1>5, <2>3, Nulls DEF Finalizes, WorksOn, CallEnds
    <3>2. QED
      BY <3>1 DEF Holders
  <2>4. ASSUME NEW g \in Handles, g # h, fhs'[g] # NULL
        PROVE  fhs'[g].ref_count = Cardinality(Holders(g)') + fhs'[g].leaked
                                     + (IF fhs'[g].owned THEN 1 ELSE 0)
    <3>1. fhs'[g] = fhs[g] /\ Cardinality(Holders(g)') = Cardinality(Holders(g))
      BY <2>1, <2>3, <2>4, HoldersChange DEF SameFhs
    <3>2. QED
      BY <2>4, <3>1 DEF RefsAreHolders
  <2>5. fhs'[h] # NULL =>
          fhs'[h].ref_count = Cardinality(Holders(h)') + fhs'[h].leaked
                                + (IF fhs'[h].owned THEN 1 ELSE 0)
    BY <1>5 DEF Finalizes
  <2>6. QED
    BY <2>4, <2>5 DEF RefsAreHolders
<1>6. ASSUME NEW t \in Threads, NEW h \in Handles, OpensHandle(t, h) PROVE RefsAreHolders'
  <2>1. SameCalls(t) /\ SameFhs(h) /\ h \in Handles
    BY <1>6 DEF OpensHandle, IsNew, CallIs, SameDisk
  <2>2. t \notin Holders(h) /\ t \in Holders(h)'
    BY <1>6, Nulls, CallTypes DEF OpensHandle, IsNew, CallIs, SameDisk, Holders, Held, CallsShaped
  <2>3. ASSUME NEW g \in Handles, g # h PROVE t \notin Holders(g) /\ t \notin Holders(g)'
    <3>1. (call[t] = NULL \/ call[t].fh # g) /\ (call'[t] = NULL \/ call'[t].fh # g)
      BY <1>6, <2>3, Nulls DEF OpensHandle, IsNew, CallIs, SameDisk
    <3>2. QED
      BY <3>1 DEF Holders
  <2>4. ASSUME NEW g \in Handles, g # h, fhs'[g] # NULL
        PROVE  fhs'[g].ref_count = Cardinality(Holders(g)') + fhs'[g].leaked
                                     + (IF fhs'[g].owned THEN 1 ELSE 0)
    <3>1. fhs'[g] = fhs[g] /\ Cardinality(Holders(g)') = Cardinality(Holders(g))
      BY <2>1, <2>3, <2>4, HoldersChange DEF SameFhs
    <3>2. QED
      BY <2>4, <3>1 DEF RefsAreHolders
  <2>5. fhs'[h] # NULL =>
          fhs'[h].ref_count = Cardinality(Holders(h)') + fhs'[h].leaked
                                + (IF fhs'[h].owned THEN 1 ELSE 0)
    <3>1. Holders(h) = {}
      BY <1>6, Nulls DEF OpensHandle, IsNew, CallIs, SameDisk, Holders, Held
    <3>2. Cardinality(Holders(h)') = 1
      BY <2>1, <2>2, <3>1, HoldersChange, FS_EmptySet
    <3>3. QED
      BY <1>6, <3>2 DEF OpensHandle, IsNew, CallIs, SameDisk
  <2>6. QED
    BY <2>4, <2>5 DEF RefsAreHolders
<1>7. ASSUME NEW t \in Threads, NEW h \in Handles, CreatesHandle(t, h) PROVE RefsAreHolders'
  <2>1. SameCalls(t) /\ SameFhs(h) /\ h \in Handles
    BY <1>7 DEF CreatesHandle, IsNew, CallIs
  <2>2. t \notin Holders(h) /\ t \in Holders(h)'
    BY <1>7, Nulls, CallTypes DEF CreatesHandle, IsNew, CallIs, Holders, Held, CallsShaped
  <2>3. ASSUME NEW g \in Handles, g # h PROVE t \notin Holders(g) /\ t \notin Holders(g)'
    <3>1. (call[t] = NULL \/ call[t].fh # g) /\ (call'[t] = NULL \/ call'[t].fh # g)
      BY <1>7, <2>3, Nulls DEF CreatesHandle, IsNew, CallIs
    <3>2. QED
      BY <3>1 DEF Holders
  <2>4. ASSUME NEW g \in Handles, g # h, fhs'[g] # NULL
        PROVE  fhs'[g].ref_count = Cardinality(Holders(g)') + fhs'[g].leaked
                                     + (IF fhs'[g].owned THEN 1 ELSE 0)
    <3>1. fhs'[g] = fhs[g] /\ Cardinality(Holders(g)') = Cardinality(Holders(g))
      BY <2>1, <2>3, <2>4, HoldersChange DEF SameFhs
    <3>2. QED
      BY <2>4, <3>1 DEF RefsAreHolders
  <2>5. fhs'[h] # NULL =>
          fhs'[h].ref_count = Cardinality(Holders(h)') + fhs'[h].leaked
                                + (IF fhs'[h].owned THEN 1 ELSE 0)
    <3>1. Holders(h) = {}
      BY <1>7, Nulls DEF CreatesHandle, IsNew, CallIs, Holders, Held
    <3>2. Cardinality(Holders(h)') = 1
      BY <2>1, <2>2, <3>1, HoldersChange, FS_EmptySet
    <3>3. QED
      BY <1>7, <3>2 DEF CreatesHandle, IsNew, CallIs
  <2>6. QED
    BY <2>4, <2>5 DEF RefsAreHolders
<1>8. ASSUME NEW t \in Threads, NEW h \in Handles, FillsOwned(t, h) PROVE RefsAreHolders'
  <2>1. SameCalls(t) /\ SameFhs(h) /\ h \in Handles
    BY <1>8 DEF FillsOwned, FillsIn, WorksOn, CallEnds, SameDisk, FillsFresh, Fills, At
  <2>2. t \in Holders(h) /\ t \notin Holders(h)'
    BY <1>8, Nulls, CallTypes DEF FillsOwned, FillsIn, WorksOn, CallEnds, SameDisk, FillsFresh,
      Fills, At, Holders, Held, CallsShaped
  <2>3. ASSUME NEW g \in Handles, g # h PROVE t \notin Holders(g) /\ t \notin Holders(g)'
    <3>1. (call[t] = NULL \/ call[t].fh # g) /\ (call'[t] = NULL \/ call'[t].fh # g)
      BY <1>8, <2>3, Nulls DEF FillsOwned, FillsIn, WorksOn, CallEnds, SameDisk, FillsFresh, Fills,
        At
    <3>2. QED
      BY <3>1 DEF Holders
  <2>4. ASSUME NEW g \in Handles, g # h, fhs'[g] # NULL
        PROVE  fhs'[g].ref_count = Cardinality(Holders(g)') + fhs'[g].leaked
                                     + (IF fhs'[g].owned THEN 1 ELSE 0)
    <3>1. fhs'[g] = fhs[g] /\ Cardinality(Holders(g)') = Cardinality(Holders(g))
      BY <2>1, <2>3, <2>4, HoldersChange DEF SameFhs
    <3>2. QED
      BY <2>4, <3>1 DEF RefsAreHolders
  <2>5. fhs'[h] # NULL =>
          fhs'[h].ref_count = Cardinality(Holders(h)') + fhs'[h].leaked
                                + (IF fhs'[h].owned THEN 1 ELSE 0)
    <3>1. Cardinality(Holders(h)') = Cardinality(Holders(h)) - 1
      BY <2>1, <2>2, HoldersChange
    <3>2. fhs[h] # NULL => /\ fhs[h].leaked \in Nat /\ fhs[h].owned \in BOOLEAN
                           /\ fhs[h].ref_count = Cardinality(Holders(h)) + fhs[h].leaked
                                                   + (IF fhs[h].owned THEN 1 ELSE 0)
      BY <2>1, FhTypes DEF RefsAreHolders
    <3>3. QED
      BY <1>8, <3>1, <3>2, HoldersFinite DEF FillsOwned, FillsIn, WorksOn, CallEnds, SameDisk,
        FillsFresh, Fills, At
  <2>6. QED
    BY <2>4, <2>5 DEF RefsAreHolders
<1>9. ASSUME NEW t \in Threads, NEW h \in Handles, FillsUnowned(t, h) PROVE RefsAreHolders'
  <2>1. SameCalls(t) /\ SameFhs(h) /\ h \in Handles
    BY <1>9 DEF FillsUnowned, FillsIn, WorksOn, Drops, CallEnds, CallIs, SameDisk
  <2>2. t \in Holders(h) /\ t \notin Holders(h)'
    BY <1>9, Nulls, CallTypes DEF FillsUnowned, FillsIn, WorksOn, Drops, CallEnds, CallIs,
      SameDisk, Holders, Held, CallsShaped
  <2>3. ASSUME NEW g \in Handles, g # h PROVE t \notin Holders(g) /\ t \notin Holders(g)'
    <3>1. (call[t] = NULL \/ call[t].fh # g) /\ (call'[t] = NULL \/ call'[t].fh # g)
      BY <1>9, <2>3, Nulls DEF FillsUnowned, FillsIn, WorksOn, Drops, CallEnds, CallIs, SameDisk
    <3>2. QED
      BY <3>1 DEF Holders
  <2>4. ASSUME NEW g \in Handles, g # h, fhs'[g] # NULL
        PROVE  fhs'[g].ref_count = Cardinality(Holders(g)') + fhs'[g].leaked
                                     + (IF fhs'[g].owned THEN 1 ELSE 0)
    <3>1. fhs'[g] = fhs[g] /\ Cardinality(Holders(g)') = Cardinality(Holders(g))
      BY <2>1, <2>3, <2>4, HoldersChange DEF SameFhs
    <3>2. QED
      BY <2>4, <3>1 DEF RefsAreHolders
  <2>5. fhs'[h] # NULL =>
          fhs'[h].ref_count = Cardinality(Holders(h)') + fhs'[h].leaked
                                + (IF fhs'[h].owned THEN 1 ELSE 0)
    <3>1. Cardinality(Holders(h)') = Cardinality(Holders(h)) - 1
      BY <2>1, <2>2, HoldersChange
    <3>2. fhs[h] # NULL => /\ fhs[h].leaked \in Nat /\ fhs[h].owned \in BOOLEAN
                           /\ fhs[h].ref_count = Cardinality(Holders(h)) + fhs[h].leaked
                                                   + (IF fhs[h].owned THEN 1 ELSE 0)
      BY <2>1, FhTypes DEF RefsAreHolders
    <3>3. QED
      BY <1>9, <3>1, <3>2, HoldersFinite DEF FillsUnowned, FillsIn, WorksOn, Drops, CallEnds,
        CallIs, SameDisk
  <2>6. QED
    BY <2>4, <2>5 DEF RefsAreHolders
<1>10. ASSUME NEW t \in Threads, NEW h \in Handles, DropsHandle(t, h) PROVE RefsAreHolders'
  <2>1. SameCalls(t) /\ SameFhs(h) /\ h \in Handles
    BY <1>10 DEF DropsHandle, WorksOn, SameFile, Drops, CallIs, CallEnds, SameDisk
  <2>2. t \in Holders(h) /\ t \notin Holders(h)'
    BY <1>10, Nulls, CallTypes DEF DropsHandle, WorksOn, SameFile, Drops, CallIs, CallEnds,
      SameDisk, Holders, Held, CallsShaped
  <2>3. ASSUME NEW g \in Handles, g # h PROVE t \notin Holders(g) /\ t \notin Holders(g)'
    <3>1. (call[t] = NULL \/ call[t].fh # g) /\ (call'[t] = NULL \/ call'[t].fh # g)
      BY <1>10, <2>3, Nulls DEF DropsHandle, WorksOn, SameFile, Drops, CallIs, CallEnds, SameDisk
    <3>2. QED
      BY <3>1 DEF Holders
  <2>4. ASSUME NEW g \in Handles, g # h, fhs'[g] # NULL
        PROVE  fhs'[g].ref_count = Cardinality(Holders(g)') + fhs'[g].leaked
                                     + (IF fhs'[g].owned THEN 1 ELSE 0)
    <3>1. fhs'[g] = fhs[g] /\ Cardinality(Holders(g)') = Cardinality(Holders(g))
      BY <2>1, <2>3, <2>4, HoldersChange DEF SameFhs
    <3>2. QED
      BY <2>4, <3>1 DEF RefsAreHolders
  <2>5. fhs'[h] # NULL =>
          fhs'[h].ref_count = Cardinality(Holders(h)') + fhs'[h].leaked
                                + (IF fhs'[h].owned THEN 1 ELSE 0)
    <3>1. Cardinality(Holders(h)') = Cardinality(Holders(h)) - 1
      BY <2>1, <2>2, HoldersChange
    <3>2. fhs[h] # NULL => /\ fhs[h].leaked \in Nat /\ fhs[h].owned \in BOOLEAN
                           /\ fhs[h].ref_count = Cardinality(Holders(h)) + fhs[h].leaked
                                                   + (IF fhs[h].owned THEN 1 ELSE 0)
      BY <2>1, FhTypes DEF RefsAreHolders
    <3>3. QED
      BY <1>10, <3>1, <3>2, HoldersFinite DEF DropsHandle, WorksOn, SameFile, Drops, CallIs,
        CallEnds, SameDisk
  <2>6. QED
    BY <2>4, <2>5 DEF RefsAreHolders
<1>11. ASSUME NEW t \in Threads, NEW h \in Handles, LosesHandle(t, h) PROVE RefsAreHolders'
  <2>1. SameCalls(t) /\ SameFhs(h) /\ h \in Handles
    BY <1>11 DEF LosesHandle, WorksOn, SameFile, CallEnds, SameDisk
  <2>2. t \in Holders(h) /\ t \notin Holders(h)'
    BY <1>11, Nulls, CallTypes DEF LosesHandle, WorksOn, SameFile, CallEnds, SameDisk, Holders,
      Held, CallsShaped
  <2>3. ASSUME NEW g \in Handles, g # h PROVE t \notin Holders(g) /\ t \notin Holders(g)'
    <3>1. (call[t] = NULL \/ call[t].fh # g) /\ (call'[t] = NULL \/ call'[t].fh # g)
      BY <1>11, <2>3, Nulls DEF LosesHandle, WorksOn, SameFile, CallEnds, SameDisk
    <3>2. QED
      BY <3>1 DEF Holders
  <2>4. ASSUME NEW g \in Handles, g # h, fhs'[g] # NULL
        PROVE  fhs'[g].ref_count = Cardinality(Holders(g)') + fhs'[g].leaked
                                     + (IF fhs'[g].owned THEN 1 ELSE 0)
    <3>1. fhs'[g] = fhs[g] /\ Cardinality(Holders(g)') = Cardinality(Holders(g))
      BY <2>1, <2>3, <2>4, HoldersChange DEF SameFhs
    <3>2. QED
      BY <2>4, <3>1 DEF RefsAreHolders
  <2>5. fhs'[h] # NULL =>
          fhs'[h].ref_count = Cardinality(Holders(h)') + fhs'[h].leaked
                                + (IF fhs'[h].owned THEN 1 ELSE 0)
    <3>1. Cardinality(Holders(h)') = Cardinality(Holders(h)) - 1
      BY <2>1, <2>2, HoldersChange
    <3>2. fhs[h] # NULL => /\ fhs[h].leaked \in Nat /\ fhs[h].owned \in BOOLEAN
                           /\ fhs[h].ref_count = Cardinality(Holders(h)) + fhs[h].leaked
                                                   + (IF fhs[h].owned THEN 1 ELSE 0)
      BY <2>1, FhTypes DEF RefsAreHolders
    <3>3. QED
      BY <1>11, <3>1, <3>2, HoldersFinite DEF LosesHandle, WorksOn, SameFile, CallEnds, SameDisk
  <2>6. QED
    BY <2>4, <2>5 DEF RefsAreHolders
<1>12. ASSUME NEW t \in Threads, NEW h \in Handles, TruncatesFound(t, h) PROVE RefsAreHolders'
  <2>1. SameCalls(t) /\ SameFhs(h) /\ h \in Handles
    BY <1>12 DEF TruncatesFound, Truncation, WorksOn, Counts, CallIs
  <2>2. t \in Holders(h) /\ t \in Holders(h)'
    BY <1>12, Nulls, CallTypes DEF TruncatesFound, Truncation, WorksOn, Counts, CallIs, Holders,
      Held, CallsShaped
  <2>3. ASSUME NEW g \in Handles, g # h PROVE t \notin Holders(g) /\ t \notin Holders(g)'
    <3>1. (call[t] = NULL \/ call[t].fh # g) /\ (call'[t] = NULL \/ call'[t].fh # g)
      BY <1>12, <2>3, Nulls DEF TruncatesFound, Truncation, WorksOn, Counts, CallIs
    <3>2. QED
      BY <3>1 DEF Holders
  <2>4. ASSUME NEW g \in Handles, g # h, fhs'[g] # NULL
        PROVE  fhs'[g].ref_count = Cardinality(Holders(g)') + fhs'[g].leaked
                                     + (IF fhs'[g].owned THEN 1 ELSE 0)
    <3>1. fhs'[g] = fhs[g] /\ Cardinality(Holders(g)') = Cardinality(Holders(g))
      BY <2>1, <2>3, <2>4, HoldersChange DEF SameFhs
    <3>2. QED
      BY <2>4, <3>1 DEF RefsAreHolders
  <2>5. fhs'[h] # NULL =>
          fhs'[h].ref_count = Cardinality(Holders(h)') + fhs'[h].leaked
                                + (IF fhs'[h].owned THEN 1 ELSE 0)
    <3>1. Cardinality(Holders(h)') = Cardinality(Holders(h))
      BY <2>1, <2>2, HoldersChange
    <3>2. fhs[h] # NULL => /\ fhs[h].leaked \in Nat /\ fhs[h].owned \in BOOLEAN
                           /\ fhs[h].ref_count = Cardinality(Holders(h)) + fhs[h].leaked
                                                   + (IF fhs[h].owned THEN 1 ELSE 0)
      BY <2>1, FhTypes DEF RefsAreHolders
    <3>3. QED
      BY <1>12, <3>1, <3>2, HoldersFinite DEF TruncatesFound, Truncation, WorksOn, Counts, CallIs
  <2>6. QED
    BY <2>4, <2>5 DEF RefsAreHolders
<1>13. ASSUME NEW t \in Threads, NEW h \in Handles, Releases(t, h) PROVE RefsAreHolders'
  <2>1. SameCalls(t) /\ SameFhs(h) /\ h \in Handles
    BY <1>13 DEF Releases, SameFile, Drops, CallIs, CallEnds, SameDisk
  <2>2. t \notin Holders(h) /\ t \notin Holders(h)'
    BY <1>13, Nulls, CallTypes DEF Releases, SameFile, Drops, CallIs, CallEnds, SameDisk, Holders,
      Held, CallsShaped
  <2>3. ASSUME NEW g \in Handles, g # h PROVE t \notin Holders(g) /\ t \notin Holders(g)'
    <3>1. (call[t] = NULL \/ call[t].fh # g) /\ (call'[t] = NULL \/ call'[t].fh # g)
      BY <1>13, <2>3, Nulls DEF Releases, SameFile, Drops, CallIs, CallEnds, SameDisk
    <3>2. QED
      BY <3>1 DEF Holders
  <2>4. ASSUME NEW g \in Handles, g # h, fhs'[g] # NULL
        PROVE  fhs'[g].ref_count = Cardinality(Holders(g)') + fhs'[g].leaked
                                     + (IF fhs'[g].owned THEN 1 ELSE 0)
    <3>1. fhs'[g] = fhs[g] /\ Cardinality(Holders(g)') = Cardinality(Holders(g))
      BY <2>1, <2>3, <2>4, HoldersChange DEF SameFhs
    <3>2. QED
      BY <2>4, <3>1 DEF RefsAreHolders
  <2>5. fhs'[h] # NULL =>
          fhs'[h].ref_count = Cardinality(Holders(h)') + fhs'[h].leaked
                                + (IF fhs'[h].owned THEN 1 ELSE 0)
    <3>1. Cardinality(Holders(h)') = Cardinality(Holders(h))
      BY <2>1, <2>2, HoldersChange
    <3>2. fhs[h] # NULL => /\ fhs[h].leaked \in Nat /\ fhs[h].owned \in BOOLEAN
                           /\ fhs[h].ref_count = Cardinality(Holders(h)) + fhs[h].leaked
                                                   + (IF fhs[h].owned THEN 1 ELSE 0)
      BY <2>1, FhTypes DEF RefsAreHolders
    <3>3. QED
      BY <1>13, <3>1, <3>2, HoldersFinite DEF Releases, SameFile, Drops, CallIs, CallEnds, SameDisk
  <2>6. QED
    BY <2>4, <2>5 DEF RefsAreHolders
<1>14. ASSUME NEW t \in Threads, NEW h \in Handles, NEW view \in Views, NEW at \in {"getattr", "truncate", "chmod"},
             FindsHandle(t, h, at, view)
      PROVE  RefsAreHolders'
  <2>1. SameCalls(t) /\ SameFhs(h) /\ h \in Handles
    BY <1>14 DEF FindsHandle, SameFile, CallIs, SameDisk
  <2>2. t \notin Holders(h) /\ t \in Holders(h)'
    BY <1>14, Nulls, CallTypes DEF FindsHandle, SameFile, CallIs, SameDisk, Holders, Held,
      CallsShaped
  <2>3. ASSUME NEW g \in Handles, g # h PROVE t \notin Holders(g) /\ t \notin Holders(g)'
    <3>1. (call[t] = NULL \/ call[t].fh # g) /\ (call'[t] = NULL \/ call'[t].fh # g)
      BY <1>14, <2>3, Nulls DEF FindsHandle, SameFile, CallIs, SameDisk
    <3>2. QED
      BY <3>1 DEF Holders
  <2>4. ASSUME NEW g \in Handles, g # h, fhs'[g] # NULL
        PROVE  fhs'[g].ref_count = Cardinality(Holders(g)') + fhs'[g].leaked
                                     + (IF fhs'[g].owned THEN 1 ELSE 0)
    <3>1. fhs'[g] = fhs[g] /\ Cardinality(Holders(g)') = Cardinality(Holders(g))
      BY <2>1, <2>3, <2>4, HoldersChange DEF SameFhs
    <3>2. QED
      BY <2>4, <3>1 DEF RefsAreHolders
  <2>5. fhs'[h] # NULL =>
          fhs'[h].ref_count = Cardinality(Holders(h)') + fhs'[h].leaked
                                + (IF fhs'[h].owned THEN 1 ELSE 0)
    <3>1. Cardinality(Holders(h)') = Cardinality(Holders(h)) + 1
      BY <2>1, <2>2, HoldersChange
    <3>2. fhs[h] # NULL => /\ fhs[h].leaked \in Nat /\ fhs[h].owned \in BOOLEAN
                           /\ fhs[h].ref_count = Cardinality(Holders(h)) + fhs[h].leaked
                                                   + (IF fhs[h].owned THEN 1 ELSE 0)
      BY <2>1, FhTypes DEF RefsAreHolders
    <3>3. /\ fhs[h] # NULL /\ fhs'[h].ref_count = fhs[h].ref_count + 1
          /\ fhs'[h].leaked = fhs[h].leaked /\ fhs'[h].owned = fhs[h].owned
      BY <1>14 DEF FindsHandle
    <3>4. Cardinality(Holders(h)) \in Nat
      BY HoldersFinite
    <3> DEFINE held == IF fhs[h].owned THEN 1 ELSE 0
    <3>5. held \in Nat /\ (IF fhs'[h].owned THEN 1 ELSE 0) = held
      BY <3>3
    <3>6. fhs[h].leaked \in Nat /\ fhs[h].ref_count = Cardinality(Holders(h)) + fhs[h].leaked + held
      BY <3>2, <3>3
    <3> HIDE DEF held
    <3>7. fhs[h].ref_count + 1 = (Cardinality(Holders(h)) + 1) + fhs[h].leaked + held
      BY <3>4, <3>5, <3>6
    <3>8. QED
      BY <3>1, <3>3, <3>5, <3>7
  <2>6. QED
    BY <2>4, <2>5 DEF RefsAreHolders
<1>15. ASSUME NEW h \in Handles, TruncatesOpen(h) PROVE RefsAreHolders'
  <2>1. \A g \in Handles : Holders(g)' = Holders(g)
    BY <1>15, Nulls, CallTypes DEF TruncatesOpen, Truncation, Counts, SameFhs, SameCalls, Holders, CallsShaped
  <2>2. ASSUME NEW g \in Handles, fhs'[g] # NULL
        PROVE  /\ fhs[g] # NULL /\ fhs'[g].ref_count = fhs[g].ref_count
               /\ fhs'[g].leaked = fhs[g].leaked /\ fhs'[g].owned = fhs[g].owned
    BY <1>15, <2>2 DEF TruncatesOpen, Truncation, Counts, SameFhs
  <2>3. QED
    BY <2>1, <2>2 DEF RefsAreHolders
<1>16. ASSUME NEW h \in Handles, Writes(h) PROVE RefsAreHolders'
  <2>1. \A g \in Handles : Holders(g)' = Holders(g)
    BY <1>16, Nulls, CallTypes DEF Writes, SameCalls, Holders, CallsShaped
  <2>2. QED
    BY <1>16, <2>1 DEF Writes, RefsAreHolders
<1>17. CASE Unlinks
  <2>1. \A g \in Handles : Holders(g)' = Holders(g)
    BY <1>17, Nulls, CallTypes DEF Unlinks, SameCalls, Holders, CallsShaped
  <2>2. QED
    BY <1>17, <2>1 DEF Unlinks, RefsAreHolders
<1>18. QED
  BY <1>1, <1>2, <1>3, <1>4, <1>5, <1>6, <1>7, <1>8, <1>9, <1>10, <1>11, <1>12, <1>13, <1>14,
    <1>15, <1>16, <1>17 DEF Step

LEMMA AuthorStep ==
  ASSUME AuthorOK, Step
  PROVE  AuthorOK'
<1>1. CASE UNCHANGED vars
  BY <1>1 DEF vars, SameFhs, SameCalls, AuthorOK
<1>2. ASSUME NEW t \in Threads, Abandons(t) PROVE AuthorOK'
  BY <1>2 DEF Abandons, CallEnds, SameFhs, SameCalls, AuthorOK
<1>3. ASSUME NEW t \in Threads, NEW view \in Views, StartsReading(t, view) PROVE AuthorOK'
  BY <1>3 DEF StartsReading, Starts, CallIs, SameFhs, SameCalls, AuthorOK
<1>4. ASSUME NEW t \in Threads, NEW view \in Views, NEW at \in {"open_doc", "create_doc"},
             StartsWriting(t, view, at)
      PROVE  AuthorOK'
  BY <1>4 DEF StartsWriting, Starts, CallIs, SameFhs, SameCalls, AuthorOK
<1>5. ASSUME NEW t \in Threads, NEW h \in Handles, Finalizes(t, h) PROVE AuthorOK'
  <2>1. fhs[h].view \in Views
    BY <1>5, FhFields DEF Finalizes, WorksOn
  <2>2. author' \in {author, fhs[h].view}
    BY <1>5 DEF Finalizes, RenameTemp, UnlinkTemp
  <2>3. QED
    BY <2>1, <2>2 DEF AuthorOK
<1>6. ASSUME NEW t \in Threads, NEW h \in Handles, OpensHandle(t, h) PROVE AuthorOK'
  BY <1>6 DEF OpensHandle, IsNew, CallIs, SameDisk, SameFhs, SameCalls, AuthorOK
<1>7. ASSUME NEW t \in Threads, NEW h \in Handles, CreatesHandle(t, h) PROVE AuthorOK'
  <2>1. call[t].view \in Views
    BY <1>7, CallFields DEF CreatesHandle, IsNew
  <2>2. QED
    BY <1>7, <2>1 DEF CreatesHandle, AuthorOK
<1>8. ASSUME NEW t \in Threads, NEW h \in Handles, FillsOwned(t, h) PROVE AuthorOK'
  BY <1>8 DEF FillsOwned, FillsIn, WorksOn, CallEnds, SameDisk, SameFhs, SameCalls, AuthorOK
<1>9. ASSUME NEW t \in Threads, NEW h \in Handles, FillsUnowned(t, h) PROVE AuthorOK'
  BY <1>9 DEF FillsUnowned, FillsIn, WorksOn, Drops, CallEnds, CallIs, SameDisk, SameFhs,
    SameCalls, AuthorOK
<1>10. ASSUME NEW t \in Threads, NEW h \in Handles, DropsHandle(t, h) PROVE AuthorOK'
  BY <1>10 DEF DropsHandle, WorksOn, SameFile, Drops, CallIs, CallEnds, SameDisk, SameFhs,
    SameCalls, AuthorOK
<1>11. ASSUME NEW t \in Threads, NEW h \in Handles, LosesHandle(t, h) PROVE AuthorOK'
  BY <1>11 DEF LosesHandle, WorksOn, SameFile, CallEnds, SameDisk, SameFhs, SameCalls, AuthorOK
<1>12. ASSUME NEW t \in Threads, NEW h \in Handles, TruncatesFound(t, h) PROVE AuthorOK'
  BY <1>12 DEF TruncatesFound, Truncation, WorksOn, Counts, CallIs, SameFhs, SameCalls, AuthorOK
<1>13. ASSUME NEW t \in Threads, NEW h \in Handles, Releases(t, h) PROVE AuthorOK'
  BY <1>13 DEF Releases, SameFile, Drops, CallIs, CallEnds, SameDisk, SameFhs, SameCalls,
    AuthorOK
<1>14. ASSUME NEW t \in Threads, NEW h \in Handles, NEW view \in Views, NEW at \in {"getattr", "truncate", "chmod"},
             FindsHandle(t, h, at, view)
      PROVE  AuthorOK'
  BY <1>14 DEF FindsHandle, SameFile, CallIs, SameDisk, SameFhs, SameCalls, AuthorOK
<1>15. ASSUME NEW h \in Handles, TruncatesOpen(h) PROVE AuthorOK'
  BY <1>15 DEF TruncatesOpen, Truncation, Counts, SameFhs, SameCalls, AuthorOK
<1>16. ASSUME NEW h \in Handles, Writes(h) PROVE AuthorOK'
  BY <1>16 DEF Writes, SameFhs, SameCalls, AuthorOK
<1>17. CASE Unlinks
  BY <1>17 DEF Unlinks, SameFhs, SameCalls, AuthorOK
<1>18. QED
  BY <1>1, <1>2, <1>3, <1>4, <1>5, <1>6, <1>7, <1>8, <1>9, <1>10, <1>11, <1>12, <1>13, <1>14,
    <1>15, <1>16, <1>17 DEF Step

LEMMA InplaceStep == ASSUME InplaceOK, [Next]_vars PROVE InplaceOK'
<1>1. ASSUME NEW h, WriteTo(h) PROVE InplaceOK'
  BY <1>1, Zenon DEF WriteTo, InplaceOK
<1>2. ASSUME inplace' = inplace PROVE InplaceOK'
  BY <1>2 DEF InplaceOK
<1>3. ASSUME NEW h, xdp_fh_truncate_locked(h) PROVE InplaceOK'
  BY <1>1, <1>2, <1>3 DEF xdp_fh_truncate_locked
<1>4. CASE UNCHANGED vars
  BY <1>2, <1>4 DEF vars
<1>5. ASSUME NEW t \in Threads, Handler(t) PROVE InplaceOK'
  <2>1. CASE TruncateHandle(t)
    BY <1>2, <1>3, <2>1 DEF TruncateHandle
  <2>2. CASE ~TruncateHandle(t)
    BY <1>2, <1>5, <2>2 DEF Handler, xdp_fh_finalize, OpenDocument, CreateDocument, Abandon,
       FillHandle, GetattrHandle, UnrefHandle, ChmodHandle, disk
  <2>3. QED
    BY <2>1, <2>2
<1>6. ASSUME NEW t \in Threads, Request(t) PROVE InplaceOK'
  BY <1>2, <1>6 DEF Request, OpenFails, xdp_fuse_open, xdp_fuse_create, ByPath, xdp_fuse_release,
     disk, vars
<1>7. ASSUME NEW h \in Handles, xdp_fuse_write(h) \/ xdp_fuse_setattr_handle(h) PROVE InplaceOK'
  BY <1>1, <1>3, <1>7 DEF xdp_fuse_write, xdp_fuse_setattr_handle
<1>8. ASSUME NEW view \in Views, xdp_fuse_unlink(view) PROVE InplaceOK'
  BY <1>2, <1>8 DEF xdp_fuse_unlink
<1>9. QED
  BY <1>4, <1>5, <1>6, <1>7, <1>8 DEF Next

-----------------------------------------------------------------------------
(* The invariant.                                                          *)

LEMMA Initially == Init => IInv
<1> SUFFICES ASSUME Init PROVE IInv
  OBVIOUS
<1>1. /\ \A h \in Handles : fhs[h] = NULL
      /\ \A t \in Threads : call[t] = NULL
  BY DEF Init
<1>2. FilesOK /\ AuthorOK /\ InplaceOK /\ FhsOK /\ CallsOK
  <2>1. 0 \in Files
    BY BoundsAssumption DEF Files
  <2>2. QED
    BY <2>1 DEF Init, FilesOK, AuthorOK, InplaceOK, FhsOK, CallsOK, Original
<1>3. ListOK /\ Listed /\ ListedOnce
  <2>1. open_files = << >> /\ Elems(open_files) = {}
    BY DEF Init, Elems
  <2>2. QED
    BY <1>1, <2>1 DEF ListOK, Listed, ListedOnce, Once
<1>4. Shaped
  BY <1>1 DEF Shaped, FhsShaped, CallsShaped, FillsFresh, Fills, At
<1>5. Counted
  BY <1>1 DEF Counted, RefsAreHolders, Held, FinalIsLast, At
<1>6. Apart
  BY <1>1 DEF Apart, FdsApart, TmpsApart, TruncFd, Tmp
<1>7. ReplacedWhole /\ OnlyWritersReplace /\ TempsOwned
  BY DEF Init, ReplacedWhole, OnlyWritersReplace, TempsOwned
<1>8. QED
  BY <1>2, <1>3, <1>4, <1>5, <1>6, <1>7 DEF IInv, Types

LEMMA Inductive == IInv /\ [Next]_vars => IInv'
<1> SUFFICES ASSUME IInv, [Next]_vars PROVE IInv'
  OBVIOUS
<1>1. /\ FilesOK /\ AuthorOK /\ InplaceOK /\ FhsOK /\ ListOK /\ Listed /\ ListedOnce /\ CallsOK
      /\ FhsShaped /\ CallsShaped /\ FillsFresh /\ RefsAreHolders /\ Held /\ FinalIsLast
      /\ FdsApart /\ TmpsApart /\ ReplacedWhole /\ OnlyWritersReplace /\ TempsOwned
  BY DEF IInv, Types, Shaped, Counted, Apart
<1>2. FhsOK' /\ CallsOK' /\ Step
  BY <1>1, Detailed DEF Base, Shaped, Counted, OkNow
<1>3. FilesOK' /\ AuthorOK' /\ InplaceOK'
  BY <1>1, <1>2, FilesStep, AuthorStep, InplaceStep
<1>4. ListOK' /\ Listed' /\ ListedOnce'
  BY <1>1, <1>2, ListStep
<1>5. FhsShaped' /\ CallsShaped' /\ FillsFresh'
  BY <1>1, <1>2, FhsShapedStep, CallsShapedStep, FillsFreshStep
<1>6. RefsAreHolders' /\ Held' /\ FinalIsLast'
  BY <1>1, <1>2, RefsStep, HeldStep, FinalStep
<1>7. FdsApart' /\ TmpsApart'
  BY <1>1, <1>2, FdsApartStep, TmpsApartStep
<1>8. ReplacedWhole' /\ OnlyWritersReplace' /\ TempsOwned'
  BY <1>1, <1>2, WholeStep, WritersStep, TempsStep
<1>9. QED
  BY <1>2, <1>3, <1>4, <1>5, <1>6, <1>7, <1>8 DEF IInv, Types, Shaped, Counted, Apart

LEMMA Invariant == Spec => []IInv
BY Initially, Inductive, PTL DEF Spec

LEMMA Typed == IInv => TypeOK
BY DEF IInv, Types, FilesOK, AuthorOK, InplaceOK, FhsOK, ListOK, Listed, ListedOnce, CallsOK,
   Elems, Once, TypeOK

LEMMA Alive == IInv => HeldIsAlive
BY DEF IInv, Counted, Held, FinalIsLast, HeldIsAlive, At

\* The reference count of every handle on the list is one for the kernel while
\* it is open, one per request that works on it and those that chmod lost, and
\* no request is left with a handle that xdp_fh_finalize freed or is about to
\* free, though find_open_fh hands out handles that others release.
THEOREM HandlesAreSound == Spec => []HandlesSound
<1>1. IInv => HandlesSound
  BY Typed, Alive DEF IInv, Counted, HandlesSound
<1>2. QED
  BY <1>1, Invariant, PTL

\* The file that is the document is never written to: neither write nor
\* ftruncate reaches it, on whatever handle, so who has it open reads one
\* version to the end.
THEOREM DocumentReplacedWhole == Spec => []ReplacedWhole
<1>1. IInv => ReplacedWhole
  BY DEF IInv
<1>2. QED
  BY <1>1, Invariant, PTL

\* Whatever file xdp_fh_finalize or xdp_fuse_create makes the document, it
\* comes through the directory of an app with the write permission.
THEOREM WritersReplace == Spec => []OnlyWritersReplace
<1>1. IInv => OnlyWritersReplace
  BY DEF IInv
<1>2. QED
  BY <1>1, Invariant, PTL

\* A temporary file beside the document belongs to a handle or to an open in
\* progress, unless an open or the rename of xdp_fh_finalize failed.
THEOREM TempsAreOwned == Spec => []TempsOwned
<1>1. IInv => TempsOwned
  BY DEF IInv
<1>2. QED
  BY <1>1, Invariant, PTL

=============================================================================
